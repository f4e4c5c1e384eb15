SPECIFICATION HostSpec
CONSTANTS
  Regs = {0, 10}
  Data = {0, 1}
  Outputs = {0, 3}
  Contents = {0}
  Programs = {"p", "q"}
  Slots = 2
  HalfMod = 2
  FRAME_POINTER = 1
  FP_reg = 10
INVARIANTS HostTypeOK StartsFresh ControlAgrees AwaitTells ResultWhole
PROPERTIES LoadedStopped SleepReturns AwaitReturns
