SPECIFICATION PortalFairSpec
CONSTANTS
  ann = ann
  bob = bob
  tacc = tacc
  acct = acct
  tms = tms
  app = app
  app_name = app_name
  tok_ann = tok_ann
  tok_bob = tok_bob
  Token = {tok_ann, tok_bob}
  NoToken = no_token
  ContextOf <- MCContextOf
  Flow = {f1, f2}
  NoIdentity = no_identity
  StateTtl = 0
  Key <- MCKey
  MaxTime = 1
  Client = {tms, app}
  Portal = tms
  Name = {app_name}
  NoClient = no_client
  NoName = no_name
  ClientNamed <- MCClientNamed
  Request = {q1}
  NoKey = no_key
  DelegationLife = 1
  MaxSinceLogin = 0
  MaxDelegations = 1
INVARIANTS
  PortalTypeOK
PROPERTIES
  EffectsAreAuthorised
  LogoutTakesHold
CHECK_DEADLOCK FALSE
