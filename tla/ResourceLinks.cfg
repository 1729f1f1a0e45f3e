SPECIFICATION FairSpec
CONSTANTS
  f1 = f1
  f2 = f2
  ann = ann
  bob = bob
  tacc = tacc
  acct = acct
  other = other
  r1 = r1
  r2 = r2
  Identity = {ann, bob}
  Rp = {tacc}
  Account = {acct, other}
  Flow = {f1, f2, f3}
  NoFlow = none
  IdentityOf <- MCIdentityOf
  RpOf <- MCRpOf
  AccountOf <- MCAccountOf
  WithResources = {tacc}
  ResourceLists <- MCResourceLists
  Handler = {h1, h2}
  StateTtl = 0
  Leeway = 0
  MaxTime = 1
INVARIANTS
  TypeOK
  LinkWasEarned
  LinkIsComplete
PROPERTIES
  RefreshKeepsId
  LockedRowsStay
  TableSpec
  EveryCallbackEnds
CHECK_DEADLOCK FALSE
