SPECIFICATION FairSpec
CONSTANTS
  Request = {r1, r2, r3}
  NoRequest = nobody
  PoolSize = 2
  Kind = {"add_delegation", "logout", "login_callback", "unlink", "link_callback"}
INVARIANTS
  TypeOK
  StallsOnlyBehindLinks
PROPERTIES
  EveryRequestEnds
  BystandersEnd
CHECK_DEADLOCK FALSE
