SPECIFICATION Spec
CONSTANTS
  Null = Null
  UserIds = {u1, u2, u3}
  Emails = {e1}
  TgIds = {t1, t2}
  Passwords = {p, q}
  Requests = {r1, r2}
  Ops = {"register", "login", "change", "telegram", "link"}
  LegacySchemes = {"outdated"}
SYMMETRY Symmetry
INVARIANTS
  EveryUserCanLogIn
  MergeDropsOnlyLateItems
PROPERTIES
  AccountMovesByItsOwner
  PasswordChangesByRequest
