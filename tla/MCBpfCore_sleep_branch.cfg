SPECIFICATION Spec
CONSTANTS
  HalfMod = 256
  ByteBits = 2
  PCMod = 8
  ValidAddr <- MCValidAddr
  KeyMod <- MCKeyMod
  PtrMod = 16
  Align = 8
  SharedBase = 0
  Maps <- OneMap
  Programs <- BranchPrograms
  Memories <- Marked
  DivLatency = 1
  HostSleeps = "any"
  HostResets = "never"
  HostWrites <- NoWrites
PROPERTY SequentialSpec
