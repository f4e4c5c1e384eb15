SPECIFICATION Spec
CONSTANTS
  HalfMod = 256
  ByteBits = 2
  PCMod = 8
  ValidAddr <- MCValidAddr
  KeyMod <- MCKeyMod
  PtrMod = 16
  Align = 8
  SharedBase = 0
  Maps <- OneMap
  Programs <- StallPrograms
  Memories <- Marked
  DivLatency = 2
  HostSleeps = "untaken"
  HostResets = "stopped"
  HostWrites <- R1Writes
INVARIANTS TypeOK HfuFollowsCall
PROPERTIES SequentialSpec HostView Progress SleepAnswered
