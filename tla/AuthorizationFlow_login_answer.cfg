SPECIFICATION Spec
CONSTANTS
  f1 = f1
  f2 = f2
  app = app
  tms = tms
  uri1 = uri1
  uri2 = uri2
  Flow = {f1}
  NoFlow = none
  LoginFlow = {f1}
  Client = {app, tms}
  NoClient = nobody
  Redirect = {uri1, uri2}
  ClientOf <- MCClientOf
  RedirectOf <- MCRedirectOf
  AllowedRedirect <- MCAllowed
  Handler = {h1}
  Redeemer = {d1}
  StateTtl = 1
  Leeway = 1
  CodeTtl = 1
  TokenTtl = 1
  MaxTime = 3
PROPERTIES
  CreatedIsReturned
CHECK_DEADLOCK FALSE
