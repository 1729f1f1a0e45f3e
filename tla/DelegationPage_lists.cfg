SPECIFICATION Spec
CONSTANTS
  Account = {jaro}
  NoAccount = no_account
  Post = {p1}
  NoPost = no_post
  MaxRows = 2
  MaxLogins = 1
INVARIANTS
  TypeOK
  SuccessIsReflected
  RevokedIsGone
CHECK_DEADLOCK FALSE
