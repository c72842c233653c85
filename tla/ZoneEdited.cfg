\* One connection on files a user has edited, reads that fail.
SPECIFICATION Spec
CONSTANTS
  c1 = c1
  None = None
  Conns = {c1}
  Catalog <- MCCatalog
  Canon <- MCCanon
  Opening = 3
  WalletCap = 4
  GidSpace = 9
  Requests <- MCRequests
  Seqs = {1}
  Operations <- MCOperations
  Edited <- MCEdited
  CacheSize = 1
  Faults = {"read"}
  MaxSessions = 1
  MaxProps = 6
INVARIANTS
  TypeOK
  GidsUnique
  SocketsExclusive
  RoleOwned
