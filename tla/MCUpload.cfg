SPECIFICATION FairSpec
CONSTANTS
  t1 = t1  t2 = t2  t3 = t3  g1 = g1  g2 = g2
  Threads = {t1, t2, t3}
  Origins = {g1, g2}
  Default = Default
  Gateway <- MCGateway
  Public = {a1, a2}
  Private = {p1}
  MaxAddresses = 2
  Timeout = 2
  MaxBytes = 2
INVARIANTS StorageIsolated PeerValidated SocketsHeld OneDeadline
PROPERTIES LockReturned
