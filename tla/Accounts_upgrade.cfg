SPECIFICATION FairSpec
CONSTANTS
  Null = Null
  UserIds = {u1, u2}
  Emails = {e1}
  TgIds = {}
  Passwords = {p, q}
  Requests = {r1, r2}
  Ops = {"register", "login", "change"}
  LegacySchemes = {"bcrypt", "outdated"}
PROPERTIES
  UpgradeKeepsPassword
