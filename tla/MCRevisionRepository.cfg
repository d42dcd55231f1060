SPECIFICATION MCSpec
CONSTANTS
  v1 = v1  v2 = v2  v3 = v3  f1 = f1  f2 = f2  f3 = f3  d1 = d1  d2 = d2
  b1 = b1  b2 = b2  b3 = b3
  ra = ra  rb = rb  rc = rc  rm = rm  rx = rx
  Revision = {ra, rb, rc, rm, rx}
  Vault = {v1, v2, v3}
  File = {f1, f2, f3}
  Device = {d1, d2}
  Blob = {b1, b2, b3}
  Key = {"k1", "k2", "k3", "k4", "k5"}
  Process = {p1, p2}
  Item <- AllItems
  Batch <- AllBatches
  BlobSize <- UnitSize
  Quota <- SmallQuota
  Revocable <- RevocableD1
  MaxRequests = 5
  MaxFaults = 1
SYMMETRY Symmetry
INVARIANTS
  QuotaRespected
  ReceiptsTrue
  BlobsDurable
PROPERTIES
  ImplementsVaultLog
CHECK_DEADLOCK FALSE
