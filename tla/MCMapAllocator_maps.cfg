SPECIFICATION Spec
CONSTANTS
  Sizes = {8, 16}
  Entries = {0, 1, 3}
  PtrMod = 16
  EntryMod = 4
  UIntMod = 1024
  MaskMod <- KeyMasks
  BPF_MAP_MAX_SIZE = 112
INVARIANTS CreatedIsFound
