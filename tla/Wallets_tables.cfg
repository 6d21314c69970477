SPECIFICATION Spec
CONSTANTS
  a = a
  A = A
  b = b
  g1 = g1
  Null = Null
  Unset = Unset
  Users = {u1, u2}
  WalletIds = {w1, w2}
  GroupIds = {g1}
  Addresses = {a, A, b}
  Requests = {r1, r2}
  MaxClock = 1
  Canon <- MCCanon
  Payloads <- MCPayloads
  Patches <- MCPatches
SYMMETRY Symmetry
INVARIANTS
  TypeOK
  UniqueActiveAddress
  GroupOfOwner
  NetworkStateValid
  FirstAddedOnce
PROPERTIES
  AddressChangesOnlyByOwnersPatch
