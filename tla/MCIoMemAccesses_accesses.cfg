SPECIFICATION ScenarioSpec
CONSTANTS
  InstWords = {}
  UnsharedWords = {"u"}
  SharedWords = {"a", "b"}
  CoreWords = {"a", "u", "b", "outside"}
  Val = {0, 1}
  Zero = 0
  FetchOps = {"ADD"}
  ALU <- MCALU
  HostRequests <- BothHost
  CoreRequests <- BothCore
  HfuRequests <- NoHfuRequests
  HostPipelines = FALSE
  HostFlushes = TRUE
  RestartsAfterError = FALSE
INVARIANTS TypeOK FlushGoesHome
PROPERTIES HostWaitsTwice AtomicSpec
