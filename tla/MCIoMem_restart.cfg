SPECIFICATION Spec
CONSTANTS
  InstWords = {"i"}
  UnsharedWords = {"u"}
  SharedWords = {"a"}
  CoreWords = {"a", "u", "outside"}
  Val = {0, 1}
  Zero = 0
  FetchOps = {"ADD"}
  ALU <- MCALU
  HostRequests <- ErrorHost
  CoreRequests <- ErrorCore
  HfuRequests <- NoHfuRequests
  HostPipelines = FALSE
  HostFlushes = TRUE
  RestartsAfterError = TRUE
INVARIANTS ServesValidAccess
