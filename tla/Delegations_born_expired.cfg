SPECIFICATION Spec
CONSTANTS
  ann = ann
  bob = bob
  tacc = tacc
  acct = acct
  tms = tms
  app = app
  tms_name = tms_name
  app_name = app_name
  unknown = unknown
  Key <- MCKey
  MaxTime = 2
  Client = {tms, app}
  Portal = tms
  Name = {tms_name, app_name, unknown}
  NoClient = no_client
  NoName = no_name
  ClientNamed <- MCClientNamed
  Request = {q1}
  NoKey = no_key
  DelegationLife = 1
  MaxSinceLogin = 1
  MaxDelegations = 1
INVARIANTS
  AddedIsLive
CHECK_DEADLOCK FALSE
