SPECIFICATION NsSpec
CONSTANTS
  Procs = {p1}
  p1 = p1
  p2 = p2
  Syncer = Syncer
  NoOne = NoOne
  Root = 1
  Inums = {1, 2, 3, 4}
  Names = {"a", "b"}
  dirhash <- MCHash
  LoMask = 3
  Image <- MCImage
  OpsOf <- MCOps
  MaxCalls = 1
INVARIANT DependsSyncedTogether
CHECK_DEADLOCK FALSE
