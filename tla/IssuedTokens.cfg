SPECIFICATION FairSpec
CONSTANTS
  Token = {t1, t2}
  NoToken = none
  Req = {r1, r2}
  Kid = {k1, k2}
  KeyRows = {k1}
  TokenTtl = 0
  CleanupGrace = 1
  MaxTime = 2
INVARIANTS
  TypeOK
  NoAdmissionAfterDeath
  LogoutFindsItsRow
PROPERTIES
  DeadStaysDead
  CleanupSparesLive
  LifecycleSpec
  ExpiredRowsRemoved
CHECK_DEADLOCK FALSE
