SPECIFICATION FairSpec
CONSTANTS
  a = a
  A = A
  b = b
  g1 = g1
  Null = Null
  Unset = Unset
  Users = {u1}
  WalletIds = {w1, w2}
  GroupIds = {}
  Addresses = {a, A, b}
  Requests = {r1, r2}
  MaxClock = 0
  Canon <- MCCanon
  Payloads <- AnswerPayloads
  Patches <- AnswerPatches
PROPERTIES
  RequestsAnswered
