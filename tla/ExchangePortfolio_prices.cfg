SPECIFICATION ExSpec
CONSTANTS
  Threads = {t1, t2}
  Coins = {"ethereum", "bitcoin"}
  Eth = "ethereum"
  Ttl = 2
  MaxNow = 3
  Nobody = Nobody
  CoinIds <- MCCoinIds
  NativeIds <- MCNativeIds
  Chains = {"mainnet", "other"}
  Replies <- MCReplies
  User = "me"
  NotFinite = {2}
  MaxRequests = 3
INVARIANTS
  KnownCoinsPriced
PROPERTIES
  AnswersYoung
  RenewedOncePerPeriod
  RequestsReturn
CHECK_DEADLOCK FALSE
