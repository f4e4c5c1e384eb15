SPECIFICATION ScenarioSpec
CONSTANTS
  HalfMod = 256
  ByteBits = 2
  PCMod = 8
  ValidAddr <- MCValidAddr
  KeyMod <- MCKeyMod
  PtrMod = 16
  Align = 8
  SharedBase = 0
  Maps <- OneMap
  Programs <- NoPrograms
  Memories <- Marked
  DivLatency = 2
  HostSleeps = "untaken"
  HostResets = "any"
  HostWrites <- NoWrites
INVARIANTS AnswerExpected FinishPrecise ExceptionPrecise StageHeld
PROPERTIES SequentialSpec InOrderSpec HostView
