\* A purchase whose save fails is sent again by the client.
SPECIFICATION Spec
CONSTANTS
  c1 = c1
  c2 = c2
  None = None
  Conns = {c1, c2}
  Catalog <- MCCatalog
  Canon <- MCCanon
  Opening = 2
  WalletCap = 4
  GidSpace = 9
  Requests <- FewRequests
  Seqs = {1, 2}
  Operations <- FewOperations
  Edited <- NoFile
  CacheSize = 1
  Faults = {"write"}
  MaxSessions = 2
  MaxProps = 6
INVARIANT ChargedOnce
