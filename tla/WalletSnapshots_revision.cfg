SPECIFICATION SnapSpec
CONSTANTS
  a = a
  A = A
  b = b
  Null = Null
  Unset = Unset
  Users = {u1}
  WalletIds = {w1}
  GroupIds = {}
  Addresses = {a, A, b}
  Requests = {r1, r2}
  MaxClock = 3
  SnapIds = {1, 2}
  Canon <- MCCanon
  Payloads <- MCPayloads
  Patches <- MCPatches
SYMMETRY RequestSymmetry
INVARIANTS
  StaleOnlyWhenRaced
PROPERTIES
  NewestStartedWins
