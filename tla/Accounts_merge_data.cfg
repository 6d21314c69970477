SPECIFICATION Spec
CONSTANTS
  Null = Null
  UserIds = {u1, u2, u3}
  Emails = {e1, e2}
  TgIds = {t1, t2}
  Passwords = {p}
  Requests = {r1, r2}
  Ops = {"register", "telegram", "link"}
  LegacySchemes = {"bcrypt"}
SYMMETRY Symmetry
INVARIANTS
  MergedUsersHoldNothing
