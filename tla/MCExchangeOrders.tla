------------------------------ MODULE MCExchangeOrders ------------------------------
(* Two orders.  An item carries the bot's id of its order, the exchange's, or *)
(* an empty one; a nameless item may carry any of the bot's.                 *)
EXTENDS ExchangeOrders

BotsIds == "r1" :> "a" @@ "r2" :> "b"
AllLocalIds ==
  "r1" :> {"a", "r1", ""} @@ "r2" :> {"b", "r2", ""} @@ "#" :> {"a", "b", ""}
=====================================================================================
