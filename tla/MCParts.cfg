SPECIFICATION Spec
CONSTANTS
  Id = {"a", "b", "c"}
  Outsiders = {"x"}
  MaxBatch = 3
  Lines = {"", "a", "b"}
  Empty = ""
  MaxLines = 3
  MaxCells = 16
  Overlap = Overlap
  Failed = Failed
  Direct = {sync}
  Split = {roster}
  MaxSaves = 2
  MaxOutside = 2
  NoData = NoData
  Paths = {1, 2}
  there = there
  back = back
  edit = edit
  apply = apply
  Tasks = {there, back, edit, apply}
  Wanted <- MCWanted
  NoLink = NoLink
INVARIANTS
  OrdersExactlyOrderable
  MergeLosesNothing
  KeysKept
  FilesExclusive
PROPERTIES
  CallsEnd
CHECK_DEADLOCK FALSE
