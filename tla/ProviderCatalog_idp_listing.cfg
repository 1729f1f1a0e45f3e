SPECIFICATION Spec
CONSTANTS
  globus = globus
  tacc = tacc
  k1 = k1
  k2 = k2
  k3 = k3
  k4 = k4
  Idp = {i1}
  Site = {globus, tacc}
  Key = {k1, k2, k3, k4}
  NoKey = no_key
  KeysOf <- MCKeysOf
  Row <- MCRow
  NoRow = no_row
  NoToken = no_token
  Column <- MCColumn
  Handler = {h1}
PROPERTIES
  LoginProvidersListed
CHECK_DEADLOCK FALSE
