CONSTANTS
  ann = ann
  ben = ben
  dep = dep
  wd = wd
  res = res
  win = win
  lone = lone
  w1 = w1
  w2 = w2
  Users = {ann, ben}
  Opened = {ann}
  Keys = {dep, wd, res, win, lone}
  Request <- MCRequest
  Workers = {w1, w2}
  NoKey = NoKey
  Free = Free
SPECIFICATION FairSpec
INVARIANTS
  TypeOK
  LedgerExplainsBalance
  PostedOnce
  LockedReadIsCurrent
PROPERTIES
  ImplementsLedger
  EveryCallEnds
