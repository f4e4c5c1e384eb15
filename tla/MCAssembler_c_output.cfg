SPECIFICATION ToolSpec
CONSTANTS
  HalfMod = 256
  OffMod = 8
  MAX_INSNS = 6
  Files <- WideFiles
INVARIANTS CArrayIsObject
