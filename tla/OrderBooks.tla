--------------------------------- MODULE OrderBooks ---------------------------------
(***************************************************************************)
(* How an order book gets from an exchange to an ArbitrageWindow.  In the  *)
(* proxy an OrderbooksNode per exchange asks for the books of its pairs,   *)
(* keeps the rows of the answers in one index per side, keyed by the rate  *)
(* alone, and reports the best of them; the NodesController keeps the last *)
(* rows of each pair and publishes all of them every second.  In the bot   *)
(* the OrderbooksKeeper hands them to the windows.                         *)
(*                                                                         *)
(* The pairs here are those of one exchange.  A node reports only what     *)
(* differs from its last report; the controller has that already, so every *)
(* report is filed here.  Statistics, ClickHouse and the rates written to  *)
(* the database are left out, WampSession models the connection.           *)
(***************************************************************************)
EXTENDS Naturals, FiniteSets

CONSTANTS
  Pair,
  PairId,             \* pair_id, the number of a pair
  BuyPair, SellPair,  \* of the window
  Exchanges,          \* exchanges to choose from
  Books,              \* books a pair may have: sets of a rate and an amount, by side
  RECORDS_LIMIT,
  MaxReplies,         \* bound: answers to the same request on their way
  MaxChanges,         \* bound: changes of the exchange's books
  MaxRestarts         \* bound: restarts of the proxy

Side == {"asks", "bids"}

ASSUME BooksOK ==
  /\ Books \subseteq [Side -> SUBSET (Nat \X Nat)]
  /\ IsFiniteSet(Pair) /\ PairId \in [Pair -> Nat \ {0}] /\ BuyPair \in Pair /\ SellPair \in Pair
  /\ RECORDS_LIMIT \in Nat \ {0}
  /\ MaxReplies \in Nat /\ MaxChanges \in Nat /\ MaxRestarts \in Nat

VARIABLES
  ex,            \* _exchange_name
  real, past,    \* the books of the exchange; every side there has been (history)
  changes,
  replies,       \* on their way: books by pair
  sent,          \* what the stream has last said of a pair
  index,         \* _asks_indexed, _bids_indexed: rows by rate
  books,         \* the controller's _asks, _bids, by pair
  window,        \* asks_last, bids_last
  restarts

node == <<replies, sent, index, books>>
vars == <<ex, real, past, changes, node, window, restarts>>

NoBook == [s \in Side |-> {}]
NoBooks == [p \in Pair |-> NoBook]

(* What a node asks and hears, by exchange *)

\* One request for all pairs.
AsksTogether == {"exmo", "livecoin"}
\* A stream next to the requests.
HasStream == {"kraken", "lbank"}
\* The index is emptied before an answer is filed.
Empties == {"binance", "bitfinex", "bittrex", "exmo", "hitbtc", "huobi", "kraken", "kucoin",
            "lakebtc", "lbank", "livecoin", "zb"}
\* The node reports nothing: every answer is filed under pair 0, or none is asked for.
Silent == {"cexio", "okcoin"}
Supported == Empties \cup Silent \cup {"idcm"}
ASSUME ExchangesOK == Exchanges \subseteq Supported

Requests == IF ex \in Silent THEN {}
            ELSE IF ex \in AsksTogether THEN {Pair} ELSE {{p} : p \in Pair}

-----------------------------------------------------------------------------
(* The node: onRawOrderbooks and rebuildIndexes *)

Row(p, x) == [pair |-> p, rate |-> x[1], amount |-> x[2], fresh |-> TRUE]
Rates(rows) == {x[1] : x \in rows}

\* Rows of p are filed by their rate, whatever pair had it; an amount of 0 removes.
File(idx, p, rows) ==
  {x \in idx : x.rate \notin Rates(rows)} \cup {Row(p, x) : x \in {y \in rows : y[2] > 0}}

\* Rows older than five seconds are passed over.  The loop over the bids ends
\* before it reaches the lowest.
Passed(s, idx) ==
  {x \in idx : x.fresh /\ (s = "bids" => \E y \in idx : y.rate < x.rate)}

Better(s, x, y) == IF s = "asks" THEN x < y ELSE x > y

\* The best RECORDS_LIMIT of them are reported, the others leave the index.
Reported(s, idx) ==
  LET passed == Passed(s, idx)
  IN  {x \in passed :
         Cardinality({y \in passed : Better(s, y.rate, x.rate)}) < RECORDS_LIMIT}
Rebuilt(s, idx) == (idx \ Passed(s, idx)) \cup Reported(s, idx)

\* The controller's onOrderBooks: a pair with rows in the report has just those.
RowsOf(p, report) == {<<x.rate, x.amount>> : x \in {y \in report : y.pair = p}}
\* Mutant: a pair keeps the first rows it had.
NewOrLastFirst(new, last) == IF last = {} THEN new ELSE last

NewOrLast(new, last) == IF new = {} THEN last ELSE new
Updated(report) ==
  [p \in Pair |-> [s \in Side |-> NewOrLast(RowsOf(p, report[s]), books[p][s])]]

\* Mutant: an answer is filed over the rows that are there.
ClearedNot(p, idx) == idx

\* IDCM's node means to empty the rows of p, and files a row without a time, which is
\* never fresh, at the rate that is the number of p.
NoRow(p) == [pair |-> p, rate |-> PairId[p], amount |-> 0, fresh |-> FALSE]
Cleared(p, idx) ==
  IF ex \in Empties THEN {} ELSE {x \in idx : x.rate # PairId[p]} \cup {NoRow(p)}

\* The stream says what it has now, or, on Kraken, what has changed.
Delta(old, new) ==
  (new \ old) \cup {<<r, 0>> : r \in Rates(old) \ Rates(new)}

-----------------------------------------------------------------------------

Start ==
  /\ replies' = {}
  /\ sent' = NoBooks
  /\ index' = NoBook
  /\ books' = NoBooks

Init ==
  /\ ex \in Exchanges
  /\ real \in [Pair -> Books]
  /\ past = [p \in Pair |-> [s \in Side |-> {real[p][s]}]]
  /\ changes = 0
  /\ replies = {}
  /\ sent = NoBooks
  /\ index = NoBook
  /\ books = NoBooks
  /\ window = NoBook
  /\ restarts = 0

\* The exchange (external)
Change(p, book) ==
  /\ changes < MaxChanges /\ changes' = changes + 1
  /\ book # real[p]
  /\ real' = [real EXCEPT ![p] = book]
  /\ past' = [past EXCEPT ![p] = [s \in Side |-> @[s] \cup {book[s]}]]
  /\ UNCHANGED <<ex, node, window, restarts>>

\* The request timer; the answer says what the exchange has now, and may come
\* after that of a later request.
Ask(ps) ==
  /\ ps \in Requests
  /\ Cardinality({x \in replies : DOMAIN x = ps}) < MaxReplies
  /\ replies' = replies \cup {[p \in ps |-> real[p]]}
  /\ UNCHANGED <<ex, real, past, changes, sent, index, books, window, restarts>>

\* An answer is filed and reported pair by pair, and filed by the controller.
OnReply(x) ==
  /\ x \in replies
  /\ replies' = replies \ {x}
  /\ LET Filed(p, s) == File(Cleared(p, index[s]), p, x[p][s])
         report == [s \in Side |-> UNION {Reported(s, Filed(p, s)) : p \in DOMAIN x}]
     IN  /\ \E p \in DOMAIN x : index' = [s \in Side |-> Rebuilt(s, Filed(p, s))]
         /\ books' = Updated(report)
  /\ UNCHANGED <<ex, real, past, changes, sent, window, restarts>>

\* A message of the stream, which may have stopped.
OnStream(p) ==
  /\ ex \in HasStream
  /\ sent[p] # real[p]
  /\ LET Said(s) == IF ex = "kraken" THEN Delta(sent[p][s], real[p][s]) ELSE real[p][s]
         Filed(s) == File(index[s], p, Said(s))
         report == [s \in Side |-> Reported(s, Filed(s))]
     IN  /\ index' = [s \in Side |-> Rebuilt(s, Filed(s))]
         /\ books' = Updated(report)
  /\ sent' = [sent EXCEPT ![p] = real[p]]
  /\ UNCHANGED <<ex, real, past, changes, replies, window, restarts>>

\* Five seconds pass without news of p, at a node whose rows outlive an answer.
Expire(p) ==
  /\ ex \notin Empties \ HasStream
  /\ \E s \in Side : \E x \in index[s] : x.pair = p /\ x.fresh
  /\ index' = [s \in Side |-> {[x EXCEPT !.fresh = @ /\ x.pair # p] : x \in index[s]}]
  /\ UNCHANGED <<ex, real, past, changes, replies, sent, books, window, restarts>>

Traded(s) == IF s = "asks" THEN BuyPair ELSE SellPair

\* sendOrderbooks publishes the rows of all pairs every second, however old.  The bot
\* reads them: OrderbooksKeeper::onOrderBooks, and calculateOrderbooks of the window
\* up to the sides it compares.  A side that is not there keeps its last rows.
Publish ==
  /\ books # NoBooks
  /\ window' = [s \in Side |-> NewOrLast(books[Traded(s)][s], window[s])]
  /\ UNCHANGED <<ex, real, past, changes, node, restarts>>

\* The proxy dies and is started again; the bot goes on.
Restart ==
  /\ restarts < MaxRestarts /\ restarts' = restarts + 1
  /\ Start
  /\ UNCHANGED <<ex, real, past, changes, window>>

Next ==
  \/ \E p \in Pair, book \in Books : Change(p, book)
  \/ \E ps \in Requests : Ask(ps)
  \/ \E x \in replies : OnReply(x)
  \/ \E p \in Pair : OnStream(p) \/ Expire(p)
  \/ Publish
  \/ Restart

\* Every request is made again and again and answered; books are published.
Fairness ==
  /\ \A ps \in SUBSET Pair :
       /\ WF_vars(Ask(ps))
       /\ WF_vars(\E x \in replies : DOMAIN x = ps /\ OnReply(x))
  /\ WF_vars(Publish)

Spec == Init /\ [][Next]_vars /\ Fairness

-----------------------------------------------------------------------------
(* Properties *)

\* What the proxy reports of a side: its best rows, of the bids without the lowest.
CutOf(p, s, rows) == RowsOf(p, Reported(s, File({}, p, rows)))

\* A side was shown by its exchange at some time, as it is, if the node empties its
\* index and has no stream; at the others every row was, at one time or another.
WasReal(p, s, rows) ==
  /\ (rows # {} /\ ex \in Empties \ HasStream)
       => \E g \in past[p][s] : rows = CutOf(p, s, g)
  /\ rows \subseteq UNION past[p][s]

\* The rows of a pair are its own and, where the index is emptied, those of one
\* answer, although one index holds the rows of all pairs by their rates.
ShownWasReal ==
  \A s \in Side :
    /\ \A p \in Pair : WasReal(p, s, books[p][s])
    /\ WasReal(Traded(s), s, window[s])

\* When the exchange's books change no more, the window ends up with them, as far as
\* they have something to report: late answers, other pairs at the same rates and
\* restarts of the proxy do not leave it with older rows.
Arrived ==
  \A s \in Side :
    LET rows == CutOf(Traded(s), s, real[Traded(s)][s])
    IN  rows # {} => window[s] = rows
BooksArrive == ex \in Empties \ HasStream => <>[]Arrived

=============================================================================
