------------------------- MODULE MCExchangePortfolio -------------------------
(* Small instance of ExchangePortfolio for TLC. *)
EXTENDS ExchangePortfolio, TLC

MCCoinIds == [s \in {"ETH", "BTC"} |-> IF s = "ETH" THEN "ethereum" ELSE "bitcoin"]
MCNativeIds == [c \in {"mainnet"} |-> "ethereum"]

Entry(asset, free, locked, total) ==
  [asset |-> asset, free |-> free, locked |-> locked, total |-> total]

Body(user, completed, balances) ==
  [kind |-> "body", body |-> [user |-> user, created |-> 1, completed |-> completed,
                              balances |-> balances]]

MCReplies ==
  {[kind |-> "status", status |-> 404],
   Body("me", 1, {Entry("BTC", 1, 0, 1), Entry("BTC", 1, 1, 2)}),
   Body("me", 1, {Entry("BTC", 1, 0, 1), Entry("XYZ", 1, 1, 2)})}

==============================================================================
