------------------------------- MODULE ExchangeOrders -------------------------------
(***************************************************************************)
(* The way of an order's state from its exchange to OrdersStorage: a       *)
(* client sends place, cancel, get and the two lists (ExchangeClients),    *)
(* the exchange answers, the parser reads the answer (ExchangeParsers),    *)
(* onApiResponseParsed publishes it and OrderWorker files its items.       *)
(*                                                                         *)
(* Requests are under way at the same time and their answers are read in   *)
(* any order; what an answer says was true when the exchange gave it.      *)
(* OrderWorker has the crashes and the lost answers, ApiClient the queue:  *)
(* here an answer arrives.  The worker files the items of an event before  *)
(* anything else happens, which nothing outside it can tell.               *)
(***************************************************************************)
EXTENDS OrdersStorage, ExchangeClients, ExchangeParsers

CONSTANTS
  OwnId,      \* the bot's id of an order
  MaxAsked    \* bound: cancels and gets of the user, and lists of the worker

ASSUME OrdersOK ==
  /\ OwnId \in [Remote -> Local]
  /\ Remote \subseteq Local
  /\ \A r \in Remote : {OwnId[r], r, Blank} \subseteq LocalIds[r] /\ OwnId[r] \in LocalIds[NoRemote]
  /\ MaxAsked \in Nat

VARIABLES
  ex,         \* the exchange
  separated,  \* isSeparatedApi: its lists are asked for market by market
  real,       \* the state of an order at the exchange
  replies,    \* answers not read yet
  items,      \* items of the current event not filed yet
  opn_orders_cache,
  late,       \* cancelled orders that an older answer spoke of afterwards (history)
  misread,    \* orders whose parser read an answer about them as closed while
              \* they lived (history)
  asked

exchange == <<ex, separated>>
vars == <<storage, exchange, real, replies, items, opn_orders_cache, late, misread, asked>>

Live == {"open", "partly"}
Over == {"done", "cancelled"}
States == {"none", "refused"} \cup Live \cup Over

Reply == [m : {"OrderPlace", "OrderCancel", "OrderGet"}, r : Remote, seen : States]
ListReply == [m : ListMethods, seen : UNION {[S -> States] : S \in SUBSET Remote}]

Init ==
  /\ StorageInit
  /\ ex \in Exchanges
  /\ separated \in BOOLEAN
  /\ real = [r \in Remote |-> "none"]
  /\ replies = {} /\ items = {}
  /\ opn_orders_cache = {} /\ late = {} /\ misread = {}
  /\ asked = 0

-----------------------------------------------------------------------------
(* Requests.  One step sends a request and has it answered.                *)

CallerKeys == {"market_id", "remote_id", "local_id", "type"}

\* Every order is in a market of its own.
PollKeys == IF separated THEN {"market_id"} ELSE {}
PollScopes == IF separated THEN {{r} : r \in Remote} ELSE {Remote}

Quiet == items = {}

Place(r) ==
  /\ Quiet
  /\ real[r] = "none"
  /\ SendsRequest(ex, "OrderPlace", PlaceKeys)
  /\ \E s \in {"refused", "open", "partly", "done"} :
      /\ real' = [real EXCEPT ![r] = s]
      /\ replies' = replies \cup {[m |-> "OrderPlace", r |-> r, seen |-> s]}
  /\ UNCHANGED <<storage, exchange, items, opn_orders_cache, late, misread, asked>>

\* The exchange may refuse to cancel an order that is live.
Cancel(r) ==
  /\ Quiet
  /\ real[r] \in Live \cup Over
  /\ asked < MaxAsked /\ asked' = asked + 1
  /\ SendsRequest(ex, "OrderCancel", CallerKeys)
  /\ \E done \in BOOLEAN :
      /\ done => real[r] \in Live
      /\ real' = [real EXCEPT ![r] = IF done THEN "cancelled" ELSE @]
      /\ replies' = replies \cup {[m |-> "OrderCancel", r |-> r,
                                   seen |-> IF done THEN "cancelled" ELSE "refused"]}
  /\ UNCHANGED <<storage, exchange, items, opn_orders_cache, late, misread>>

Get(r) ==
  /\ Quiet
  /\ real[r] \in Live \cup Over
  /\ asked < MaxAsked /\ asked' = asked + 1
  /\ SendsRequest(ex, "OrderGet", CallerKeys)
  /\ replies' = replies \cup {[m |-> "OrderGet", r |-> r, seen |-> real[r]]}
  /\ UNCHANGED <<storage, exchange, real, items, opn_orders_cache, late, misread>>

List(m, scope) ==
  /\ Quiet
  /\ asked < MaxAsked /\ asked' = asked + 1
  /\ SendsRequest(ex, m, PollKeys)
  /\ replies' = replies \cup {[m |-> m, seen |-> [r \in scope |-> real[r]]]}
  /\ UNCHANGED <<storage, exchange, real, items, opn_orders_cache, late, misread>>

\* requestActives, and processActiveQueue for a separated exchange.
RequestActives == \E scope \in PollScopes : List("TradeOpenOrders", scope)

\* requestHistory.  A separated exchange's markets wait in a queue whose
\* chain nobody starts.
RequestHistory == ~separated /\ List("TradeHistory", Remote)

\* The exchange fills an order, in parts or whole.
Fill(r) ==
  /\ Quiet
  /\ real[r] \in Live
  /\ \E s \in {"partly", "done"} : s # real[r] /\ real' = [real EXCEPT ![r] = s]
  /\ UNCHANGED <<storage, exchange, replies, items, opn_orders_cache, late, misread, asked>>

-----------------------------------------------------------------------------
(* Answers *)

\* OrdersStorage only asks whether a status is above 1.
Read(s) == CASE s = 0 -> 1 [] s = 4 -> 3 [] OTHER -> s

LocalId(r, lid, named) ==
  CASE lid = "given" -> {OwnId[r]}
    [] lid = "registered" -> {OwnId[r]}
    [] lid = "empty" -> {Blank}
    [] OTHER -> IF named THEN {r} ELSE {Blank}   \* getLocalIdByRemote

\* The items a parser may make of order r with status s.
Items(says, r, s) ==
  UNION {{[rid |-> IF named THEN r ELSE NoRemote, lid |-> l, st |-> Read(s)] :
            l \in UNION {LocalId(r, lid, named) : lid \in says.lid}} : named \in says.named}

\* A bug that could be: only open orders are announced.
PublishedOpenOnly(m, s) ==
  CASE m = "OrderPlace"  -> s = 1
    [] m = "OrderCancel" -> s # Failure
    [] m = "OrderGet"    -> s \in {2, 3, 4}
    [] OTHER -> s \notin {Out, Failure}

\* onApiResponseParsed: which results become an event the worker listens to.
Published(m, s) ==
  CASE m = "OrderPlace"  -> s \in {1, 2}
    [] m = "OrderCancel" -> s # Failure
    [] m = "OrderGet"    -> s \in {2, 3, 4}
    [] OTHER -> s \notin {Out, Failure}

Answers(m) ==
  CASE m = "OrderPlace"  -> OrderAnswers[ex].place
    [] m = "OrderCancel" -> OrderAnswers[ex].cancel
    [] m = "OrderGet"    -> OrderAnswers[ex].get
    [] m = "TradeOpenOrders" -> ListAnswers[ex].active
    [] OTHER -> ListAnswers[ex].history

\* A bug that could be: EXMO's history does not ask the cache.
CacheNotAsked(m, r, s) == s

\* EXMO's history leaves out the orders of the cache, which its open list
\* filled last.
Cached(m, r, s) ==
  IF ex = "exmo" /\ m = "TradeHistory" /\ r \in opn_orders_cache THEN Out ELSE s

\* The states of an order not over that the parser of e may read as closed in
\* an answer to m: the word for a part filled, a word of its default branch,
\* or (okcoin's cancel) a result that is read the wrong way round.
TakesForClosed(e, m) ==
  CASE m = "OrderPlace" /\ e \in {"binance", "hitbtc"} -> {"partly"}
    [] m = "OrderCancel" /\ e \in {"hitbtc", "okcoin"} -> {"refused"}
    [] m = "OrderGet" /\ e \in {"binance", "cexio", "hitbtc", "huobi", "idcm", "livecoin",
                                "okcoin", "zb"} -> Live
    [] m = "TradeOpenOrders" /\ e \in {"binance", "bitfinex", "hitbtc", "huobi", "kraken"} -> Live
    [] m = "TradeHistory" /\ e \in {"binance", "huobi", "zb"} -> Live
    [] m = "TradeHistory" /\ e \in {"exmo", "idcm"} -> {"partly"}
    [] OTHER -> {}

\* The same of order r: EXMO's cache keeps what its open list showed last.
Misread(m, r) == IF ex = "exmo" /\ r \in opn_orders_cache THEN {} ELSE TakesForClosed(ex, m)

\* Cancelled orders whose cancel was read before this older answer.
Outdated(m, r, seen) ==
  /\ seen \in Live
  /\ real[r] = "cancelled"
  /\ \A p \in replies : ~(p.m = "OrderCancel" /\ p.r = r /\ p.seen = "cancelled")

\* The answer to place, cancel or get.
ParseOrder(p) ==
  /\ Quiet
  /\ p.m \notin ListMethods
  /\ replies' = replies \ {p}
  /\ \E s \in Answers(p.m).st[p.seen] :
      IF Published(p.m, s)
      THEN \E i \in Items(Answers(p.m), p.r, s) :
            /\ items' = {i}
            /\ misread' = misread \cup {r \in {p.r} : i.st > 1 /\ p.seen \in Misread(p.m, r)}
      ELSE items' = {} /\ UNCHANGED misread
  /\ late' = late \cup {r \in {p.r} : Outdated(p.m, r, p.seen)}
  /\ UNCHANGED <<storage, exchange, real, opn_orders_cache, asked>>

\* The answer to one of the two lists.
ParseList(p) ==
  /\ Quiet
  /\ p.m \in ListMethods
  /\ replies' = replies \ {p}
  /\ LET listed == {r \in DOMAIN p.seen : p.seen[r] \in Live \cup Over} IN
      /\ \E st \in [listed -> Statuses] :
          /\ \A r \in listed : \E s \in Answers(p.m).st[p.seen[r]] : st[r] = Cached(p.m, r, s)
          /\ LET shown == {r \in listed : Published(p.m, st[r])} IN
              /\ \E f \in [shown -> UNION {Items(Answers(p.m), r, st[r]) : r \in shown}] :
                  /\ \A r \in shown : f[r] \in Items(Answers(p.m), r, st[r])
                  /\ items' = {f[r] : r \in shown}
                  /\ misread' = misread \cup
                       {r \in shown : f[r].st > 1 /\ p.seen[r] \in Misread(p.m, r)}
              /\ opn_orders_cache' = IF ex = "exmo" /\ p.m = "TradeOpenOrders" THEN shown
                                     ELSE opn_orders_cache
      /\ late' = late \cup {r \in listed : Outdated(p.m, r, p.seen[r])}
  /\ UNCHANGED <<storage, exchange, real, asked>>

HandleItem ==
  /\ \E i \in items : AddOrder(i) /\ items' = items \ {i}
  /\ UNCHANGED <<exchange, real, replies, opn_orders_cache, late, misread, asked>>

\* swift.trade.rpc.active and swift.trade.rpc.today
ReadOpen ==
  /\ Quiet
  /\ GetOpenOrders
  /\ UNCHANGED <<exchange, real, replies, items, opn_orders_cache, late, misread, asked>>

Next ==
  \/ \E r \in Remote : Place(r) \/ Cancel(r) \/ Get(r) \/ Fill(r)
  \/ RequestActives \/ RequestHistory
  \/ \E p \in replies : ParseOrder(p) \/ ParseList(p)
  \/ HandleItem \/ ReadOpen

Spec == Init /\ [][Next]_vars

-----------------------------------------------------------------------------
(* Properties *)

\* Types, and a storage that holds together whatever ids the items of the
\* fifteen exchanges carry: no index leaves the array, and an order that is
\* known is listed as open or as closed, never as both.
StorageHoldsTogether ==
  /\ StorageTypeOK
  /\ items \subseteq Record
  /\ \A p \in replies : IF p.m \in ListMethods THEN p \in ListReply ELSE p \in Reply
  /\ IndexesInRange
  /\ ListedOnce

Listed == DOMAIN openOrders \cup DOMAIN closedOrders

\* A record that no nameless item of another order has overwritten.
Own(r) == ordersArray[extId[r]].rid = r

\* An order is listed as closed only when it is over at its exchange, however
\* the answers overtake each other, or when an answer about this very order
\* called it closed while it lived: by one of the words TakesForClosed names
\* and no other, at EXMO for an order that the cache does not hold.
ClosedIsOver ==
  \A r \in DOMAIN closedOrders \ {NoRemote} :
    (r \in DOMAIN extId /\ Own(r)) => (real[r] \in Over \/ r \in misread)

\* The worker lists no order that its exchange refused.  Okcoin's parser
\* announces exactly those.
ListedIsAccepted ==
  \A r \in Listed \ {NoRemote} :
    real[r] # "none" /\ (ex # "okcoin" => real[r] # "refused")

\* Exchanges whose placings the worker hears of from the lists only: their
\* place results have no status, no success, or the wrong one.
PlacesInSilence == {"bitfinex", "huobi", "idcm", "lakebtc", "okcoin"}

\* Once its answers are read, an order that the exchange took is listed, even
\* when a nameless item holds its local id.
AcceptedIsListed ==
  \A r \in Remote :
    (Quiet /\ replies = {} /\ real[r] \in Live \cup Over /\ ex \notin PlacesInSilence)
      => r \in Listed

\* Exchanges whose cancel results name the order.
CancelNamesOrder == {"binance", "bittrex", "hitbtc", "huobi", "zb"}

\* Once its answers are read, a cancelled order is listed as closed, unless
\* an older answer was read after that of the cancel.
CancelledIsClosed ==
  \A r \in Remote :
    (Quiet /\ replies = {} /\ real[r] = "cancelled" /\ ex \in CancelNamesOrder)
      => r \in DOMAIN closedOrders \cup late
=====================================================================================
