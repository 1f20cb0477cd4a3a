CONSTANTS
  ann = ann
  bob = bob
  s0 = s0
  s1 = s1
  s2 = s2
  c1 = c1
  c2 = c2
  c3 = c3
  Users = {ann, bob}
  Member = ann
  SessionIds = {s0, s1, s2}
  First = s0
  NoSession = NoSession
  NoCall = NoCall
  Calls = {c1, c2, c3}
  PoolSize = 2
SPECIFICATION FairSpec
INVARIANTS
  TypeOK
  OneSuccessor
  RegisterIsComplete
PROPERTIES
  RevokedIsRefused
  PoolRecovers
