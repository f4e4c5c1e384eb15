SPECIFICATION Spec
CONSTANTS
  InstWords = {}
  UnsharedWords = {}
  SharedWords = {"a"}
  CoreWords = {"a"}
  Val = {0, 1}
  Zero = 0
  FetchOps = {"ADD"}
  ALU <- MCALU
  HostRequests <- RegionHost
  CoreRequests <- RegionCore
  HfuRequests <- RegionHfu
  HostPipelines = TRUE
  HostFlushes = FALSE
  RestartsAfterError = FALSE
INVARIANTS MapOneUser OnePortUser AtomicReadFresh
PROPERTIES HfuWaitsOnce ReadDataStable HostWaitsTwice CoreWaitsOnce HostServed
