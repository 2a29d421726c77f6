------------------------------ MODULE ExchangeParsers ------------------------------
(***************************************************************************)
(* What each of the fifteen response parsers makes of an answer of its     *)
(* exchange.                                                               *)
(*                                                                         *)
(* Orders.  A parser turns the state an order had when the exchange        *)
(* answered into a status: 1 open, 2 done, 3 cancelled, 4 and 0 (absent,   *)
(* or not a string) neither.  `Failure` is a result without success, `Out` *)
(* an order that the parser, or the list it asked for, leaves out.  An     *)
(* item may name its order (remote_id) or not, and may carry the local id  *)
(* the exchange was given ("given"), an empty one ("empty"), or none       *)
(* ("absent").  A status word that a parser does not name falls to its     *)
(* default branch: an exchange may have such words for any state (waiting, *)
(* closing, a suffixed word), so get, a cancel that reads a status, and a  *)
(* list the request does not filter by status, may read an order in any    *)
(* state by it.                                                            *)
(*                                                                         *)
(* Transfers.  `id` says what a list files a transfer under: the           *)
(* exchange's own id ("own"), address and amount ("built"), or nothing     *)
(* ("none": no list).  A withdrawal's creation has an id of its own: the   *)
(* same ("own"), another one ("other"), the same "0" for all ("zero"), or  *)
(* an empty one ("empty").  Words are the statuses of a pending, a done    *)
(* and a failed transfer.                                                  *)
(*                                                                         *)
(* Envelopes, amounts, rates, times and balances' numbers are left out.    *)
(***************************************************************************)
EXTENDS Integers, TLC

Out == 9
Failure == 8
Statuses == (0 .. 4) \cup {Out, Failure}

Named == {TRUE}
Unnamed == {FALSE}

PlaceSays(named, refused, open, partly, done) ==
  [named |-> named, lid |-> {"registered"},
   st |-> [refused |-> refused, open |-> open, partly |-> partly, done |-> done]]
CancelSays(named, lid, refused, cancelled) ==
  [named |-> named, lid |-> lid, st |-> [refused |-> refused, cancelled |-> cancelled]]
Says(named, lid, open, partly, done, cancelled) ==
  [named |-> named, lid |-> lid,
   st |-> [open |-> open, partly |-> partly, done |-> done, cancelled |-> cancelled]]
GetSays(named, open, partly, done, cancelled) ==
  Says(named, {"registered"}, open, partly, done, cancelled)
Transfers(id, pending, done, failed) ==
  [id |-> id, word |-> [pending |-> pending, done |-> done, failed |-> failed]]
NoTransfers == Transfers("none", {}, {}, {})
Created(id, word) == [id |-> id, word |-> word]
NotCreated == Created("none", "")

-----------------------------------------------------------------------------
(* place, cancel and get *)

BinanceOrderAnswers ==
  [place |-> PlaceSays(Named, {Failure}, {1}, {2}, {2}),
   cancel |-> CancelSays(Named, {"given"}, {Failure}, {3}),
   get |-> GetSays(Named, {1, 4}, {2, 4}, {2, 4}, {3, 4})]
(* the array of parseBitfinexOrder replaces the result, its success included *)
BitfinexOrderAnswers ==
  [place |-> PlaceSays(Named, {Failure}, {Failure}, {Failure}, {Failure}),
   cancel |-> CancelSays(Named, {"absent"}, {Failure}, {Failure}),
   get |-> GetSays(Named, {Failure}, {Failure}, {Failure}, {Failure})]
BittrexOrderAnswers ==
  [place |-> PlaceSays(Named, {Failure}, {1}, {1}, {1}),
   cancel |-> CancelSays(Named, {"absent"}, {Failure}, {3}),
   get |-> GetSays(Named, {1}, {1}, {2}, {2})]
CexioOrderAnswers ==
  [place |-> PlaceSays(Named, {Failure}, {1}, {1}, {2}),
   cancel |-> CancelSays(Unnamed, {"absent"}, {Failure}, {3}),
   get |-> GetSays(Named, {1, 2}, {1, 2}, {2}, {2, 3})]
(* cancel copies order_id as it is: a number is no string, and not read *)
ExmoOrderAnswers ==
  [place |-> PlaceSays(Named, {Failure}, {1}, {1}, {1}),
   cancel |-> CancelSays(BOOLEAN, {"absent"}, {Failure}, {3}),
   get |-> GetSays(Unnamed, {1, Failure}, {1}, {2}, {1, Failure})]
HitbtcOrderAnswers ==
  [place |-> PlaceSays(Named, {Failure}, {1}, {2}, {2}),
   cancel |-> CancelSays(Named, {"given"}, {Failure, 4}, {3, 4}),
   get |-> GetSays(Named, {1, 2}, {2}, {2}, {2, 3})]
HuobiOrderAnswers ==
  [place |-> PlaceSays(Named, {Failure}, {0}, {0}, {0}),
   cancel |-> CancelSays(Named, {"absent"}, {Failure}, {3}),
   get |-> GetSays(Named, {1, 3, 4}, {2, 4}, {2, 4}, {2, 3, 4})]
IDCMOrderAnswers ==
  [place |-> PlaceSays(Named, {Failure}, {0}, {0}, {0}),
   cancel |-> CancelSays(Unnamed, {"absent"}, {Failure, 0}, {3}),
   get |-> GetSays(Named, {1, 4}, {2, 4}, {2, 4}, {3, 4})]
(* cancel reads the count as a string, which a number is not; get puts the  *)
(* order into a list that nobody reads                                      *)
KrakenOrderAnswers ==
  [place |-> PlaceSays(Named, {Failure, 3}, {1}, {1}, {1}),
   cancel |-> CancelSays(Unnamed, {"absent"}, {Failure, 1}, {1, 3}),
   get |-> GetSays(Unnamed, {0}, {0}, {0}, {0})]
KuCoinOrderAnswers ==
  [place |-> PlaceSays(Named, {Failure}, {1}, {1}, {1}),
   cancel |-> CancelSays(Unnamed, {"absent"}, {Failure}, {3}),
   get |-> GetSays(Named, {1}, {1}, {2}, {2})]
(* statuses are numbers here, which toString does not read *)
LakeBTCOrderAnswers ==
  [place |-> PlaceSays(Named, {0}, {0}, {0}, {0}),
   cancel |-> CancelSays(Unnamed, {"absent"}, {0}, {0}),
   get |-> GetSays(Named, {0}, {0}, {0}, {0})]
(* get reads orderId as an int, which it does not fit: 0 names no order *)
(* A bug that could be: the answer's success is not looked at. *)
LivecoinTakesRefusalForOpen ==
  [place |-> PlaceSays(Named, {1}, {1}, {1}, {1, 2}),
   cancel |-> CancelSays(Unnamed, {"absent"}, {Failure, 0}, {3}),
   get |-> GetSays(Unnamed, {1, 2}, {2}, {2}, {2, 3})]
LivecoinOrderAnswers ==
  [place |-> PlaceSays(Named, {Failure}, {1}, {1}, {1, 2}),
   cancel |-> CancelSays(Unnamed, {"absent"}, {Failure, 0}, {3}),
   get |-> GetSays(Unnamed, {1, 2}, {2}, {2}, {2, 3})]
(* place and cancel read the exchange's "result" the wrong way round *)
OkcoinOrderAnswers ==
  [place |-> PlaceSays(BOOLEAN, {Failure, 1}, {4}, {4}, {4}),
   cancel |-> CancelSays(BOOLEAN, {"absent"}, {Failure, 3}, {4}),
   get |-> GetSays(Named, {1, 2, 3, 4}, {1, 4}, {2, 4}, {3, 4})]
(* A bug that could be: the cancel result does not name its order. *)
ZBCancelsNameless ==
  [place |-> PlaceSays(Named, {Failure}, {1}, {1}, {1}),
   cancel |-> CancelSays(Unnamed, {"absent"}, {Failure}, {3}),
   get |-> GetSays(Named, {1, 4}, {1, 4}, {2, 4}, {3, 4})]
(* a number above 3, and 0, is no status the parser names *)
ZBOrderAnswers ==
  [place |-> PlaceSays(Named, {Failure}, {1}, {1}, {1}),
   cancel |-> CancelSays(Named, {"absent"}, {Failure}, {3}),
   get |-> GetSays(Named, {1, 4}, {1, 4}, {2, 4}, {3, 4})]

-----------------------------------------------------------------------------
(* open orders and trade history *)

BinanceListAnswers ==
  [active |-> Says(Named, {"given"}, {1, 4}, {2, 4}, {Out}, {Out}),
   history |-> Says(Named, {"given"}, {Out, 4}, {2, 4}, {2, 4}, {3, 4})]
(* a word is compared as a whole: one with a suffix is read as cancelled *)
BitfinexListAnswers ==
  [active |-> Says(Named, {"absent"}, {1, 3}, {1, 3}, {Out}, {Out}),
   history |-> Says(Named, {"absent"}, {Out}, {Out}, {2, 3}, {3})]
BittrexListAnswers ==
  [active |-> Says(Named, {"absent"}, {1}, {1}, {Out}, {Out}),
   history |-> Says(Named, {"absent"}, {Out}, {Out}, {2}, {2})]
CexioListAnswers ==
  [active |-> Says(Named, {"absent"}, {1}, {1}, {Out}, {Out}),
   history |-> Says(Named, {"absent"}, {Out}, {Out}, {2}, {2})]
(* history lists the orders that traded, opn_orders_cache left out (Cached) *)
ExmoListAnswers ==
  [active |-> Says(Named, {"absent"}, {1}, {1}, {Out}, {Out}),
   history |-> Says(Named, {"absent"}, {Out}, {2}, {2}, {2, Out})]
HitbtcListAnswers ==
  [active |-> Says(Named, {"given"}, {1, 2}, {2}, {Out}, {Out}),
   history |-> Says(Named, {"given"}, {Out}, {Out}, {2}, {3, Out})]
HuobiListAnswers ==
  [active |-> Says(Named, {"absent"}, {1, 3, 4}, {2, 4}, {Out}, {Out}),
   history |-> Says(Named, {"absent"}, {1, 3, 4}, {2, 4}, {2, 4}, {2, 3, 4})]
IDCMListAnswers ==
  [active |-> Says(Named, {"absent"}, {1}, {Out}, {Out}, {Out}),
   history |-> Says(Named, {"absent"}, {Out}, {2}, {2}, {Out})]
KrakenListAnswers ==
  [active |-> Says(Named, {"given", "absent"}, {1, 4}, {1, 2, 4}, {Out}, {Out}),
   history |-> Says(Named, {"empty", "absent"}, {Out}, {Out}, {2, 4}, {3, 4})]
KuCoinListAnswers ==
  [active |-> Says(Named, {"given"}, {1}, {1}, {Out}, {Out}),
   history |-> Says(Named, {"given"}, {Out}, {Out}, {2}, {2})]
LakeBTCListAnswers ==
  [active |-> Says(Named, {"absent"}, {0}, {0}, {Out}, {Out}),
   history |-> Says(Unnamed, {"absent"}, {Out}, {0}, {0}, {Out})]
(* one list for both, told apart by the exchange's word: the open list      *)
(* looks for CANCELLED and the history for CANCELED                         *)
LivecoinListAnswers ==
  [active |-> Says(Named, {"absent"}, {1}, {1}, {1, Out}, {1, Out}),
   history |-> Says(Named, {"absent"}, {Out}, {Out}, {2, Out}, {3, Out})]
OkcoinListAnswers ==
  [active |-> Says(Named, {"absent"}, {1}, {1}, {Out}, {Out}),
   history |-> Says(Named, {"absent"}, {Out}, {Out}, {2}, {Out})]
(* one list, split at status 2 *)
ZBListAnswers ==
  [active |-> Says(Named, {"absent"}, {1, Out}, {1, Out}, {Out}, {Out}),
   history |-> Says(Named, {"absent"}, {4, Out}, {4, Out}, {2, 4}, {3, 4})]

-----------------------------------------------------------------------------
(* balances, deposits and withdrawals.  `both`: one list answers for both.   *)

Funds(balances, deposits, withdraws, created) ==
  [balances |-> balances, deposits |-> deposits, withdraws |-> withdraws,
   created |-> created, both |-> FALSE]

BinanceFundsAnswers ==
  Funds(TRUE, Transfers("own", {"pending"}, {"ok"}, {"pending"}),
        Transfers("own", {"pending"}, {"completed"}, {"pending"}), Created("empty", ""))
BitfinexFundsAnswers ==
  Funds(TRUE, Transfers("own", {"processing"}, {"done"}, {"failed"}),
        Transfers("own", {"processing"}, {"done"}, {"failed"}), Created("empty", "processing"))
(* A bug that could be: a creation is filed under another id than the lists use. *)
BittrexCreatesUnderOtherId ==
  Funds(TRUE, Transfers("own", {"pending"}, {"ok"}, {"pending"}),
        Transfers("own", {"pending", "sending"}, {"completed"}, {"pending", "completed"}),
        Created("other", ""))
BittrexFundsAnswers ==
  Funds(TRUE, Transfers("own", {"pending"}, {"ok"}, {"pending"}),
        Transfers("own", {"pending", "sending"}, {"completed"}, {"pending", "completed"}),
        Created("own", ""))
CexioFundsAnswers == Funds(TRUE, NoTransfers, NoTransfers, NotCreated)
ExmoFundsAnswers ==
  [Funds(TRUE, Transfers("built", {"pending"}, {"done"}, {"done"}),
         Transfers("built", {"pending"}, {"done"}, {"done"}), Created("other", ""))
   EXCEPT !.both = TRUE]
HitbtcFundsAnswers ==
  Funds(TRUE, Transfers("own", {"pending"}, {"done"}, {"failed"}),
        Transfers("own", {"pending"}, {"done"}, {}), Created("own", ""))
(* QString::number of a double writes six digits: a longer id is another id *)
HuobiFundsAnswers ==
  Funds(TRUE, Transfers("own", {"pending", ""}, {"completed"}, {""}),
        Transfers("own", {"pending", ""}, {"completed"}, {""}), Created("other", ""))
IDCMFundsAnswers ==
  Funds(TRUE, NoTransfers, Transfers("own", {"pending", ""}, {"completed"}, {""}), Created("own", ""))
(* refid.toInt() is 0 for the text that refid is *)
KrakenFundsAnswers ==
  Funds(TRUE, Transfers("own", {"pending", "sending"}, {"completed"}, {"pending"}),
        Transfers("own", {"pending", "sending"}, {"completed"}, {"pending"}), Created("zero", ""))
KuCoinFundsAnswers ==
  Funds(TRUE, Transfers("own", {"pending"}, {"done"}, {"error"}),
        Transfers("own", {"pending"}, {"done"}, {"error"}), Created("empty", ""))
LakeBTCFundsAnswers == Funds(TRUE, NoTransfers, NoTransfers, Created("own", "processing"))
LbankFundsAnswers == Funds(TRUE, NoTransfers, NoTransfers, NotCreated)
LivecoinFundsAnswers ==
  Funds(TRUE, Transfers("own", {"done"}, {"done"}, {"done"}),
        Transfers("own", {"done"}, {"done"}, {"done"}), Created("own", "approved"))
(* the list reads withdrawal_id, the creation withdraw_id *)
OkcoinFundsAnswers ==
  Funds(TRUE, Transfers("own", {"pending"}, {"completed"}, {""}),
        Transfers("own", {"pending"}, {"completed"}, {""}), Created("other", "success"))
ZBFundsAnswers ==
  Funds(TRUE, Transfers("own", {"pending"}, {"completed"}, {"1"}),
        Transfers("own", {"pending"}, {"completed"}, {"1"}), Created("own", ""))

-----------------------------------------------------------------------------
(* By exchange *)

OrderAnswers ==
  [binance |-> BinanceOrderAnswers, bitfinex |-> BitfinexOrderAnswers,
   bittrex |-> BittrexOrderAnswers, cexio |-> CexioOrderAnswers, exmo |-> ExmoOrderAnswers,
   hitbtc |-> HitbtcOrderAnswers, huobi |-> HuobiOrderAnswers, idcm |-> IDCMOrderAnswers,
   kraken |-> KrakenOrderAnswers, kucoin |-> KuCoinOrderAnswers, lakebtc |-> LakeBTCOrderAnswers,
   livecoin |-> LivecoinOrderAnswers, okcoin |-> OkcoinOrderAnswers, zb |-> ZBOrderAnswers]

ListAnswers ==
  [binance |-> BinanceListAnswers, bitfinex |-> BitfinexListAnswers,
   bittrex |-> BittrexListAnswers, cexio |-> CexioListAnswers, exmo |-> ExmoListAnswers,
   hitbtc |-> HitbtcListAnswers, huobi |-> HuobiListAnswers, idcm |-> IDCMListAnswers,
   kraken |-> KrakenListAnswers, kucoin |-> KuCoinListAnswers, lakebtc |-> LakeBTCListAnswers,
   livecoin |-> LivecoinListAnswers, okcoin |-> OkcoinListAnswers, zb |-> ZBListAnswers]

FundsAnswers ==
  [binance |-> BinanceFundsAnswers, bitfinex |-> BitfinexFundsAnswers,
   bittrex |-> BittrexFundsAnswers, cexio |-> CexioFundsAnswers, exmo |-> ExmoFundsAnswers,
   hitbtc |-> HitbtcFundsAnswers, huobi |-> HuobiFundsAnswers, idcm |-> IDCMFundsAnswers,
   kraken |-> KrakenFundsAnswers, kucoin |-> KuCoinFundsAnswers, lakebtc |-> LakeBTCFundsAnswers,
   lbank |-> LbankFundsAnswers, livecoin |-> LivecoinFundsAnswers, okcoin |-> OkcoinFundsAnswers,
   zb |-> ZBFundsAnswers]
====================================================================================
