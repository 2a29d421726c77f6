# SwiftBot in TLA+

SwiftBot trades on cryptocurrency exchanges.  It is a set of C++/Qt processes
around a WAMP router (Crossbar): no process shares memory with another, all of
them use the same library (`src/swift-lib`), and almost every object in them
runs on one thread whose event loop is entered again and again from inside its
own handlers.  This directory models that code in TLA+, checks the models with
TLC and proves their main invariants with TLAPS.

`PROJECT.json` holds the same in machine form: the components, the runs, the
lines every definition stands for, the hazards and the properties that watch
them, the theorems.

## 1. The system

    exchanges  <--HTTP-->  api node: one SwiftApiClient process per exchange
                             |  RPC in, results and order feed out
                           router  --- orders process: OrderWorker, OrdersStorage, DbWriter -> MySQL
                             |     --- balances, settings, logs processes
                             |     --- bot: ArbitrageManager, ArbitragePairs, ArbitrageWindows
    order book proxy  ----->-+         (order books in, orders out)

| component | state | operations | who it talks to | what is hard |
|---|---|---|---|---|
| `SwiftApiClient` | uuid counter, queue of requests, dictionary uuid -> method, results and their queue, orders registered by uuid, pause | RPC handlers, 250 ms queue timers, HTTP replies, unfreeze timers | callers, exchange, order feed, results topic, logs, settings | handlers nested inside `Session::call`, replies in any order, pauses, process restarts |
| the 15 exchange clients and parsers | EXMO's cache of open orders, some counters | one method per RPC, one reading per answer | `SwiftApiClient`, exchange | fifteen vocabularies for ids and statuses; answers that say less than the handlers expect |
| `OrdersStorage` / `OrderWorker` | array of records; indexes by remote and local id; open and closed lists; changed marks | feed events, reads, maintenance, 45 s hand-over to the database | order feed, api clients, `DbWriter` | answers that overtake each other, ids that are missing or shared, restarts |
| `DbWriter` | rows of `orders` | save, load at start | MySQL | refused writes, what a crash loses |
| `BalanceWorker` | deposits and withdrawals by id; balances, rates | feed events, polling, tables | api clients, MySQL | memory ahead of the tables; two ways to hear of one withdrawal |
| `ArbitragePair` / `ArbitrageWindow` | lock, candidates, last order books | order books, order events, balances | exchanges, logs, balances, `ArbitrageManager` | calls nested in calls while a lock is held for 45 s of wall-clock time; two orders that must both go out |
| `ArbitrageManager` | linked orders and their file, parameters, pairs | link, save, load, parameters | the file, settings | file and memory overwrite each other; crash in a write |
| `Wamp::Session` | session id, pending calls, subscriptions, registrations | call, publish, provide, subscribe | router | every call runs the event loop; the innermost call returns first |
| `WampClient` / `SwiftWorker` | connection, session pointer, watchdog | connect, reconnect, restart | router | a failed attempt is not repeated; old sessions on a new socket |
| `OrderbooksNode`, `NodesController`, `OrderbooksKeeper` | one index per side, last rows of every pair | requests, streams, publishing each second | exchanges, windows | one index for all pairs; late answers; rows that outlive their stream |
| `ProcWrapper` | child process, restart count | start, stop, restart | api client processes | signal connections pile up |
| `SettingsWorker`, `LogsWorker` | settings, fees; log lists and files | get/set; append, save | MySQL, files | caches next to tables; files emptied before written |

What makes each of them correct:

* **ApiClient**: a request goes out at most once and its result comes out at
  most once; nothing is forgotten; what the order feed says agrees with the
  result; a pause ends; a caller is answered or its request is dropped, not both.
* **Exchange clients and parsers**: an order that the exchange took gets listed, one
  it refused does not; closed means over; a cancel is seen.
* **Orders**: every index leads to its own record; an order is open or closed,
  not both; no live order looks finished; what memory knows the database gets.
* **Balance worker**: hashes and tables agree across restarts; one record for each
  withdrawal; what an exchange calls final gets saved.
* **Arbitrage pair**: a candidate is traded at most once; no leg stays alone;
  candidates do not follow each other faster than the lock allows; the links of
  window and order survive.
* **Session and client**: a call gets its own answer or none, and returns; a worker
  without a session gets one; the router's messages do not end the process.
* **Order books**: what a window compares was on the exchange, and is what is there
  once the exchange is quiet.

## 2. What is modelled

| module | models | kind |
|---|---|---|
| `AsyncUuid` | `SwiftApiClient::getNextUuid` with its unsigned arithmetic (`% Modulus`) and the clock | component |
| `AsyncUuidProofs` | its invariants for every word size | proofs |
| `AsyncApi` | what a caller of an api node may rely on | abstract specification |
| `ApiClient` | the request life cycle of `SwiftApiClient` | component; implements `AsyncApi` |
| `ApiClientProofs` | its invariants for any number of requests, nested loops and crashes | proofs |
| `ExchangeClients` | which methods each exchange client has and when it sends a request | operators |
| `ExchangeParsers` | which ids and statuses each exchange's answers report | operators |
| `OrdersStorage` | the records and indexes, one operator per member function | component without a specification of its own |
| `OrderWorker` | extends it: exchanges, feed, worker, `DbWriter`, database, restarts | composition |
| `OrderWorkerProofs` | its invariants for any orders and any answers; what the worker learned is neither lost nor taken back | proofs |
| `ExchangeOrders` | an exchange's orders from its answers through client and parser to `OrdersStorage` | composition of the three |
| `ExchangeOrdersProofs` | its invariants for any orders, ids and requests, over all fifteen exchanges | proofs |
| `BalanceWorker` | deposits and withdrawals from an exchange's answers to the tables | composition with clients and parsers |
| `BalanceWorkerProofs` | its invariant for any transfers, answers and crashes | proofs |
| `OrderLinks` | `ArbitrageManager`'s linked orders and their file | component without a specification of its own |
| `HedgedTrade` | what a pair promises of its trades | abstract specification |
| `ArbitragePair` | extends `OrderLinks`: lock, candidates, placing, time, restarts | composition; implements `HedgedTrade` |
| `ArbitragePairProofs` | its invariants for any candidates, nested calls and crashes | proofs |
| `WampSession` | `Wamp::Session`, `WampClient`, `SwiftWorker` and an external router | composition |
| `WampSessionProofs` | its invariant for any calls, depth and connections | proofs |
| `OrderBooks` | the order book proxy, the bot's keeper and the sides a window keeps | composition |
| `OrderBooksProofs` | its invariant for any pairs, books and late answers | proofs |
| `MC...` | the small instances | for TLC |

Two components have an abstract specification and map to it at their end:
`ApiClient` to `AsyncApi`, the request life cycle as a caller sees it
(`ImplementsAsyncApi`), and `ArbitragePair` to `HedgedTrade`, the two orders of a
trade as the exchanges see them (`ImplementsHedgedTrade`).  The other components promise
relations between two of their own states (memory and table, index and record,
book and window), which their properties state directly.

### 2.1 Nested event loops

`Session::call` (wamp.cpp 458-529) sends, then reads and runs `processEvents`
until its own answer has come or nothing came for 6 s.  Other handlers of the
same objects therefore run inside a call, they may call in turn, and an outer
call returns only after the inner ones, even if its answer came first.  This is
the one source of concurrency in these single-threaded programs, and it is in
three models the same way: a handler is cut at its calls, what is waiting is a
stack (`stack` in ApiClient and WampSession, `calls` in ArbitragePair), a new handler is pushed
on it, and only the top one can go on.  What a waiting handler remembers (loop
position, copies of lists) is in its frame.

### 2.2 ApiClient

`Accept` is createAsyncWaiter with registerAsyncCall and getNextUuid;
`ProcessAsyncQueue` and `ProcessAsyncQueueResult` are the two 250 ms timers;
`OnNetworkReply` is the HTTP reply with its codes (521, 400, 403, 429, other,
200/201); `CallReturns` is the rest of onApiResponseParsed and sendAsyncResult
after each of their calls; `Unfreeze` is a timer that fires; `Crash` is the
process that quits with its connection (api-node main.cpp) and starts empty.
Methods are grouped by what onApiResponseParsed does with them: place, cancel,
get one order, and everything that returns a list (feed).  A reply is one of the
outcomes a parser can produce.  History variables (`requests`, `sends`,
`answers`, `orderEvents`, `shared`, `abandoned`, `lost`, `keyPause`) are only
read by properties.

Two calls within a millisecond get the same uuid, because the lag test in
getNextUuid is unsigned and sets the counter back to the clock (`AsyncUuid`
shows it).  `SameMs` switches this on in ApiClient; `shared` collects such uuids,
and the properties speak of the others.  The runs have calls of different
milliseconds; with shared uuids their state space is out of reach at a size
where anything else happens, and the proofs cover both values of `SameMs`.

`ReplyBadRequest` leaves no frame although its addError nests an event loop:
nothing follows the call.  Qt does not fire a timer again while its slot runs,
so the two queue timers do not nest in themselves.

Left out: headers, signatures, payloads; the return of createAsyncWaiter for an
account without keys; a result publish that fails because the session is gone
(the process is about to quit).

### 2.3 OrdersStorage and OrderWorker

A record is a remote id, a local id and a status (open, done, cancelled).
`LocalIds` says which local ids the records of an order may carry: its own, its
remote id when the item named none (getLocalIdByRemote), or the empty one.
`addOrder`, `updateOrder`, `getOpenOrders`, `provision` and `getUpdatedOrders`
are one operator each, `QHash::value` of a missing key being slot 0 of the array
(slot 1 here) as in the code.  `getOpenOrders` removes from the map it iterates:
which entries it still reaches after that is undefined and is a free choice.

`OrderWorker` adds the exchanges (`real` is the truth about an order), answers
on their way (`feed`; they overtake each other, as the answers of different calls
do, and `swapped` remembers the orders whose closing came
before an older answer that has them open), the handlers (`Deliver`, then one `HandleItem`
per item; nothing else starts in between), the 45 s `CheckUpdates`, `SaveOrder`
with the upsert of dbwriter.cpp, `SaveOrderFails`, `Crash` and `Restart`, which
loads the rows with status above 1.  The kinds of feed events are not told apart
because every handled kind ends in `addOrder`; ERROR and UPDATED are ignored by
the code (the first has an empty handler, the second is not dispatched).

Met while modelling:
* The cancel replies of exmo, kucoin, kraken, livecoin and cexio carry no ids:
  the item is filed under `"#"`.  `Unnamed` holds such orders.
* Kraken's history gives `local_id ""` to every order: then records overwrite
  one another, and the order whose entry has gone is found only by its remote
  id (`exchange_orders` has Kraken; `StorageHoldsTogether` and
  `AcceptedIsListed` survive it, `IndexesAgree` would not).
* `isExistsLocalId` looks into the index of remote ids (ordersstorage.h 30-32),
  so getOrder never finds a record by its local id.
* A stale open listing puts a closed order back on the open list
  (ordersstorage.cpp 109-115), in the database too, and then it is not loaded
  after a restart.  Nothing in the code keeps the answers in order, so the model has
  it, and `ReopenedOnlyBySwap` says that it is the only way to reopen an order: not a
  row loaded back, not the cancel of another order, not an answer in its turn.
* The table the bot creates names a column `market_id` where DbWriter writes
  `pair_id`; the model takes DbWriter's.

Left out: amounts, rates, the window tag; read-only RPCs; the daily summary.
Polling of the exchanges is in ExchangeOrders (2.5).

### 2.4 OrderLinks and ArbitragePair

`CalculateOrderbooks` is a tick of order books: unlock after 45 s, else
`CheckCandidats`, which moves the candidates into its own list, filters them by
balance (`ReturnFilter`, two calls each), asks for a parameter (`ReturnParams`:
look at the lock again, lock, link both orders), logs twice, and sends the sell
and then the buy order.  `WindowCalculates` and `ReturnBalances` are a window that
asks for balances and adds a candidate.  `SaveLinks` and `LoadLinks` are the two
30 s timers.  `age` is the time since lock_time, capped at `LockSecs` because the
code only asks whether 45 s have passed; time passes in steps, also while calls
wait.

Met while modelling:
* onCompletedOrder and onCanceledOrder read `market_id` from the event, which
  has it only inside its items: they never match, so only time unlocks a pair.
* The 45 s may pass while the calls of a placing still wait.  With slow calls a
  second candidate is placed between the two orders of the first.
* Candidates pile up while the pair is locked and are placed later at the rates
  they were found with.
* A link made after a save and before the next load is overwritten by the file.
  What the file once knew, it keeps.

Left out: prices, sizes, balances (whether a candidate is affordable or
profitable is open), creation of pairs and windows, statistics.

### 2.5 ExchangeClients, ExchangeParsers, ExchangeOrders

`ExchangeClients` has the switch of `processAsyncQueue` and, for each of the fifteen
clients, what a method does: send a request, answer at once, or neither, and
the keys it insists on.  `ExchangeParsers` has, for each answer of each exchange,
the ids its items carry and the words it may use for the state the order had at
the exchange (a set, where one state has several words).  Both are tables: the
fifteen classes differ in nothing else that outlasts a handler.

`ExchangeOrders` picks an exchange.  `Place`, `Cancel`, `Get` and the worker's two
lists (`RequestActives`, `RequestHistory`) put an answer under way that says what is
true at that moment; `ParseOrder` and `ParseList` read it through the tables and hand
its items to `OrdersStorage`, in any order of the answers.  `opn_orders_cache` is
EXMO's: an order in it is left out of the trade history.  `late` remembers cancelled
orders that an older answer spoke of after their cancel was read, `misread` the
orders that an answer about them called closed while they lived.

A parser's branch for every other word is in its table as well: the exchange's words
are not in the code, so an order in any state may have one that the parser does not
name, where the request does not filter by it.

Met while modelling (the properties name the exchanges they except):
* Most parsers call some living order closed, and `TakesForClosed` says which, by
  exchange and method: a partly filled one read as done (Binance, EXMO, HitBTC, Huobi,
  IDCM, Kraken, Livecoin), or one whose word falls to the default branch, which is 4
  (Binance, Huobi, IDCM, OKCoin, Kraken's lists; ZB for a waiting order, whose number
  is 0, in get and in the trade history), 3 (Bitfinex compares a word as a whole, and its
  words have suffixes, swiftapiparserbitfinex.cpp 193) or 2 (CEX.IO's get, HitBTC,
  Livecoin's get).  `ClosedIsOver` excepts the orders this has happened to and no others.
* OKCoin's test of `result` is inverted (swiftapiparserokcoin.cpp 52-70): it
  announces the orders that were refused, and a cancel that failed.
* Bitfinex's answers lose `success`, Huobi's order id goes through
  `QString::number(double)`, IDCM's and LakeBTC's place results carry no usable
  status (`PlacesInSilence`): their orders are learnt from the lists.
* Livecoin's cancelled orders are read for `CANCELED`, which it spells `CANCELLED`.
* OKCoin's history needs a key `limit` that nobody passes; LakeBTC's cancel and get
  need `orders_id`; active orders of Huobi and IDCM need a market.
* The worker polls once per session; the history queue of exchanges listed market
  by market is filled and never drained (orderworker.cpp 264).
* `GetOrderbooks` is registered and unknown to processAsyncQueue.
* KuCoin sends a withdrawal before the inner transfer that its comment says comes
  first (swiftapiclientkucoin.cpp 178-229; 185).

### 2.6 BalanceWorker

`Withdraw`, `Deposit` and `Finish` are users and exchange, `Request` and `ProcessQueue`
the polling chains (all currencies at once, or a queue of them), `Parse` the
answer, `File` one item of onDeposits or onWithdraws (memory, then table, which
may refuse), `Crash` and `Start` the process, whose constructor reads both tables
(`Loaded`).  A record's key is the id the parser gives: the exchange's own, one
built of address and amount (EXMO), `"0"` (Kraken's `refid.toInt()`), or none.

Met while modelling:
* Reading the tables back makes a deposit of every withdrawal
  (balanceworker.cpp 44: `operator[]` of the wrong hash); `Phantom` is such a record.
* A refused write is repeated only by a restart: memory has the new status, so
  later listings look like old news (441, 497).
* Seven exchanges list a withdrawal under another id than its creation gave
  (`TwoIds`): it is filed twice.
* HitBTC's list leaves failed withdrawals out.

Left out: balances, rates and required amounts, of which only the last answer is
kept.

### 2.7 WampSession

One worker process.  The socket (`link`, `in`, `out`), `WampClient` (`isConnected`,
`timer`), `SwiftWorker` (`kept`, `Watchdog`) and the session: handshake, join, goodbye,
`REGISTER` and `SUBSCRIBE` with their confirmations, `CALL` with a nested loop
(`CallOut`, `Return`, `GiveUp`), events and invocations.  A wait's loop runs timers as
well as the socket, so calls of timers nest in it, and so do the watchdog and, after
a goodbye, the reconnect timer: the old session is then still there with the calls
that wait in it.  The watchdog's exit takes effect at once in the model, in the code
when the waits have ended.  The router is external: it
confirms what is asked, answers every call with RESULT or ERROR, sends events and
invocations for what it has confirmed, may say goodbye and nothing after it.

Met while modelling:
* A failed attempt to connect calls no slot, so it is not repeated and the limit of
  25 retries is out of reach; the 25 s watchdog restarts the process.
* After a lost connection a new `Session` takes the socket, while `SwiftWorker` keeps
  its pointer to the deleted one: what its use does is open (the process ends, or
  limps on), so nothing is promised after that (`kept = "freed"`).
* After a goodbye the old session is not deleted and reads the next one's handshake.
* processEvent calls the handlers of the event's subscription and of all that follow
  it in the hash (wamp.cpp 1053), where wamp.h 226 has one handler for each topic.

Left out: a header split between two reads; challenges, WebSocket and
asynchronous endpoints, which no program here uses.

### 2.8 OrderBooks

`Ask`/`OnReply` are a node's timer and its answer, `OnStream` the web socket of Kraken and
LBank, `Expire` the five seconds after which a row is passed over, `Publish` the
controller's second with the keeper and the window behind it, `Restart` the
proxy.  An index row is filed by its rate alone, whatever pair it is of (`File`);
`Reported` cuts to the best rows.

Met while modelling:
* CEX.IO and OKCoin never report anything (`Silent`).
* The loop over the bids ends before it reaches the lowest row.
* IDCM's book is filed with a placeholder (`NoRow`) at the rate that is the pair's id
  (orderbooksnode.cpp 958): it hides a row at that rate, is never reported, and takes
  the place of the lowest bid that the loop leaves out.
* IDCM's index is never emptied, and the streams of Kraken and LBank share theirs with
  the polled answers: rows of different times are mixed, and each row is
  promised only to have been real once (`ShownWasReal`).
* The controller never drops the rows of a pair, the window never those of a side.

Left out: JSON layouts, the middle rates in the database, ClickHouse, statistics.
A node's report of unchanged rows is suppressed in the code; the controller then
has them already, so nothing can tell.

## 3. The runs

| run | configuration | states | shows |
|---|---|---|---|
| `uuids` | word of 16, clock to 5 | 8*10^3 | LaterCallsGetLargerUuids |
| `api_client` | 3 uuids, 2 local ids, place and get, 3 nested loops, 2 timers | 3*10^6 | inductive invariant, SentOnce, AnsweredOnce, NothingForgotten, FeedAgreesWithResult, LocalIdKept, PauseHasTimer |
| `api_client_liveness` | 2 uuids, all methods, a crash, fairness | 10^5 | implements AsyncApi; every request settles |
| `orders` | 2 orders, 3 answers in any order, a crash, a refused write | 9*10^5 | inductive invariant, IndexesAgree, ClosedIsReallyClosed, UnsavedIsMarked, ReopenedOnlyBySwap |
| `orders_liveness` | the same without refused writes, fairness | 4*10^5 | EventuallySaved, CancelIsShown |
| `exchange_orders` | each of 15 exchanges, 2 orders, 2 further requests | 4*10^6 | StorageHoldsTogether, ClosedIsOver, ListedIsAccepted, AcceptedIsListed, CancelledIsClosed |
| `balance_worker` | each exchange, listed whole or by currency, 2 transfers, 2 answers, a crash or refused write | 3*10^6 | MemoryIsSaved, OneRecordEach, FinalIsShown |
| `balance_live` | the same with one transfer of either outcome, two faults, fairness | 2*10^5 | FinalIsSaved |
| `arbitrage_pair` | 3 candidates, 3 nested calls, a crash | 7*10^5 | inductive invariant, UsedOnce, Hedged, DiskKeepsLinks; implements HedgedTrade, whose Start is PlacedApart |
| `arbitrage_pair_liveness` | 2 candidates, 2 nested calls, fairness | 4*10^3 | EventuallyUnlocked, BothSent, CandidatsTaken |
| `wamp_session` | a procedure, a topic, 2 nested calls, 2 faults, fairness | 9*10^4 | AnswerIsOwn, KilledOnlyAfterGoodbye, EveryCallReturns, JoinsInTheEnd |
| `order_books` | 4 kinds of node, 2 pairs, 2 books, a change, a restart, fairness | 1.5*10^5 | ShownWasReal, BooksArrive |

**Why the bounds are enough.**  The hazards need few actors.  Three requests
give two that overtake each other and one that nests inside both; the handlers
of one request never need more than its own frame plus two others to collide on
a table.  Two orders suffice for one index entry to point at another's record,
three answers for a stale one to arrive between two true ones; one crash and one
refused write are each allowed anywhere.  Three candidates of two windows give
one being placed, one nested in it and one still on the list.  `LockSecs = 2`
makes three classes of time: just locked, in between, expired.  In exchange_orders two orders let a nameless
item of one overwrite the record of the other, and two requests beside the
placings let an older answer follow a newer one; every exchange is an initial
state, so nothing depends on one of them.  In balance_worker the two transfers
have one address and amount, so that built ids collide; transfers are
interchangeable there, hence its symmetry set.  A final transfer is "done" in the
safety run, since a failed one takes the same steps with another word;
the liveness run has both.  In wamp_session two calls nest in one another and two
faults give a loss followed by a failed attempt or a goodbye.  In order_books
the two pairs share rates, `RECORDS_LIMIT` cuts a book of three rows, two
answers to one request overtake each other, and the four exchanges stand for a
request per pair, one for all pairs, a stream besides and an index never emptied:
the others differ from one of these in nothing the model has.

Every bound is a
constant (`MaxUuid`, `MaxDepth`, `MaxTimers`, `MaxCrashes`, `MaxFeed`,
`MaxAnswers`, `MaxQueue`, `MaxDbErrors`, `MaxAsked`, `MaxDeposits`, `MaxFaults`,
`MaxReplies`, `MaxChanges`, `MaxRestarts`) and stops only the environment, a
nested loop or a save that would not change the outcome.  `MaxTimers` bounds
pending unfreeze timers (`Room` also keeps a frame free for the handlers that
need one).  Local ids are interchangeable in ApiClient, hence the symmetry set
of the safety run; liveness runs use none.  ApiClient has no crash in the safety
run: a crash empties everything, and the liveness run has it.  Its bounded
counters let the system come to rest, so deadlock is not checked there; the same
holds for the clock of AsyncUuid, the requests of ExchangeOrders, the transfers and faults of
BalanceWorker, the calls of WampSession (whose process may also have ended) and an
order book that changes no more.  The other runs check deadlock.

**Fairness.**  ApiClient: weak fairness of the timers, of the return of calls
(a call ends after 6 s of silence at the latest) and of HTTP replies (Qt reports a
failed request as a reply, too).  Nobody has to call.  OrderWorker: weak fairness
of delivery, of the handler and of the restart (ProcWrapper or systemd), strong
fairness of the two steps that only wait for the loop to be free: their timer
event or queued signal stays in the event queue and is taken in turn.  Exchanges
and crashes are not fair.  ArbitragePair: order books keep coming and wait in the
queue until a loop runs (strong), time passes (weak), and the call that is again
and again on top at a depth returns (strong, one for each depth).  BalanceWorker: strong fairness of the
requests, whose timers are started again from their own handlers and only wait for
room among the unread answers, weak fairness of answers, of the handler and of
the restart (systemd).  WampSession: weak fairness of the socket's connecting, of reading, of
waits that end, of the reconnect timer and of the watchdog (as long as its session
pointer is valid) while nothing waits, and of a router that takes what is sent and answers each call;
losses and goodbyes are not fair.  OrderBooks: weak fairness of requests, of
answers and of publishing (timers and HTTP); streams and expiry are not fair.

**What the liveness properties do not say.**  EventuallySettled excepts a client
that was paused for a refused API key: no timer ends that pause
(swiftapiclient.cpp 505).  CancelIsShown is about exchanges whose cancel replies
name the order, and orders of which no older answer arrives after the reply.  EventuallySaved excepts refused writes, which are never retried:
its run has none.  FinalIsSaved excepts refused writes for the
same reason, and transfers that a list leaves out.  JoinsInTheEnd ends where the
worker has had a session once.  BooksArrive speaks of exchanges whose index is emptied
and that have no stream, and of sides with something to report.

## 4. The proofs

All proofs hold for every value of the constants that satisfies the named
assumptions (`ConstantsOK`, `IdsOK`, `WorkerOK`, `LinksOK`, `PairOK`, `OrdersOK`, `BalanceOK`, `WampOK`,
`BooksOK`, the assumptions of `AsyncUuid`).

* **AsyncUuidProofs.**  `IInv` says the counter is at most one ahead of the
  clock and is an upper bound of what was given in this and in earlier
  milliseconds.  `LaterCallsGetLargerUuids` alone is not inductive: it says
  nothing of the counter, which the wrapped difference moves back.  The
  assumption that matters is that the clock stays below half the word size.
* **ApiClientProofs.**  `SentOnce` and `AnsweredOnce` count events of the past
  and are not inductive.  `IInv` adds where a uuid is: `OnePlace` (queued, or out
  at the exchange, or in a handler's frame, or among the results, and what has
  been counted by then), `NewUuidsUnused`, and that queues and stack repeat no
  uuid but shared ones.  One lemma per action shows that it moves a uuid from one
  place to the next.  `TypeCorrect` and `PauseAlwaysHasTimer` are proved first,
  each inductive by itself with the types.  Three strengthenings rest on it.
  `AllCared` says that a request on its way has the entries the next handler looks
  for, so that no handler lets it fall: with it `NothingForgotten` is inductive.
  `AllStories` says what has been said on the feed at each point where a handler
  waits, which gives `FeedAgreesWithResult`.  `AllIds` follows a local id from the
  registry through the parser into the frame and the events; that no other uuid is
  registered under it (`IdsKnown`) makes `LocalIdKept` provable.  If no two calls
  share a millisecond (`~SameMs`) no uuid is shared, and one lemma per action shows
  its step to be a step of `AsyncApi` or a stutter.
* **OrderWorkerProofs.**  For orders with distinct local ids (`LocalIdsDistinct`:
  Kraken's empty ids break `IndexesAgree`) `IInv` is the types, `IndexesInRange`,
  `ListedOnce`, `IndexesAgree` and `Truthful`.  `Truthful` follows a closing from the
  exchange through feed, items, array, saves and rows: it is what makes
  `ClosedIsReallyClosed` inductive.  `IndexesAgree` makes the open list contain open
  records only, so the undefined iteration in getOpenOrders is never reached.
  Two parts build on it.  `UnsavedIsMarked` has to know where the
  last save of an order is, so `SavesInv` adds that no slot is marked twice and that
  records of different orders have different keys.  `ReopenedOnlyBySwap` needs
  `LineInv`: wherever a closing is known (listed, to be saved, saved), no answer that
  shows the order open is still to come (`Done`), and on the feed such answers come
  before the closing (`Sorted`), unless the order is in `swapped`.  The theorem
  assumes nothing about the order of the feed.
* **ArbitragePairProofs.**  `UsedOnce` and `Hedged` say nothing of a candidate that
  is on the list or still to be found, so neither is inductive.  `IInv` adds that
  such a candidate is `Fresh` (nothing sent) and that the point a handler waits at
  says which orders of its candidate are out (`Progress`).  It splits into three
  parts that hold by themselves: the candidates with the stack of calls
  (`CallsInv`), the links (`LinksInv`) and the lock (`LockInv`).  The stack lemmas
  say what pushing, replacing and popping keep; one lemma per handler uses them.
  `LockSecsApart` needs that no step but the one of `ReturnParams` that looks at the
  lock again starts an order (`WhoPlaces`), and that an unlocked pair is
  `LockSecs` old (`LockInv`).  No assumption on how long calls take is used.
  For the refinement of `HedgedTrade`, `IdleSteps` sorts the steps: those that start,
  sell or buy nothing leave every handler alone that sends orders, and map to
  stutters; one lemma maps each of the others to its abstract step.  That a nested
  handler never has the candidate of another one (`TopAlone`) keeps the trades of
  the other candidates where they are.
* **ExchangeOrdersProofs.**  Here no local id need be distinct, and Kraken's named
  items carry none (`Blank`), so indexes may lead to another order's record; what
  still holds is `StorageHoldsTogether` with `ListsAgree` (a known id that is listed is
  listed with the slot the index has for it).  The other four properties look at the lists and at
  the exchange and say nothing of what lies between.  `IInv` follows both directions.
  Forward, nothing false is on its way: a reply tells what was true when it was made
  and the order can only have gone on since (`RepliesTrue`), items and records tell
  nothing that their exchange has not said (`ItemsTrue`, `RecordsTrue`); that gives
  `ClosedIsOver` and `ListedIsAccepted`.  For the first, an item or a record that calls a
  living order closed is traced to the answer that did, and to `misread`.  Backward, nothing is lost: of an order that
  was taken or cancelled, the reply is unread, or an item that will list or close it
  is in line, or it is listed or closed, or `late` (`PlacesComing`, `CancelsComing`);
  with nothing on its way these are `AcceptedIsListed` and `CancelledIsClosed`.  What
  the proof needs of the fifteen parsers is stated in lemmas read off their tables
  (`PlacesRead`, `CancelsRead`, `GetsRead`, `OpenListsRead`, `HistoriesRead` and which
  answers name their order), so that no later step looks into a table.
* **BalanceWorkerProofs.**  `MemoryIsSaved` says nothing of answers on their way and
  of the shape of the hashes; `IInv` adds both.  Of the fifteen parsers the proof
  needs that an id is of one of five kinds, which is read off their tables.
  `OneRecordEach` counts records, and follows from where ids come from: every answer,
  row and record about a withdrawal carries that withdrawal's own id.  `FinalIsShown`
  needs that what a list said last is in the record or in an item still to be filed,
  and that no item still to be filed says anything else (`Told`).
* **WampSessionProofs.**  `AnswerIsOwn` speaks of the last return only.  `IInv`
  follows request ids: wherever one is found, on the stack, in what was sent, at the
  router, in what comes in, in the table of pending calls, it belongs to one call
  (`Asks`); no id is ahead of the counter; each waiting call has its own entry.
  `KilledOnlyAfterGoodbye` says nothing of a message behind the first one.  Until a
  goodbye, everything the router has sent is what this session, in the order it is
  read, will be ready for: the handshake, then confirmations and invocations for
  what is on file.
* **OrderBooksProofs.**  `ShownWasReal` says nothing of what the next report is made
  of.  `IInv` adds that rows in answers and in the index are rows their pair has had.
  That the index is shared by all pairs is met by the cut: a report made from an
  emptied index has, of a pair, just what its own answer leaves (`ReportOfPair`).

Every invariant and every action property that a run checks has a theorem.
Only model-checked is everything under fairness: `EventuallySettled`,
`EventuallySaved`, `CancelIsShown`, `EventuallyUnlocked`, `BothSent`,
`CandidatsTaken`, `FinalIsSaved`, `EveryCallReturns`, `JoinsInTheEnd` and
`BooksArrive` (liveness and ENABLED are out of the proof system's reach).

## 5. Plan

Done, in the order of what money depends on: AsyncUuid, ApiClient, OrdersStorage
and OrderWorker, OrderLinks and ArbitragePair with HedgedTrade, the fifteen
exchanges (ExchangeClients, ExchangeParsers, ExchangeOrders), BalanceWorker,
WampSession and OrderBooks, with proofs for all of them.  What is left:

1. An abstract specification of a call over `WampSession` (sent once, answered
   with its own answer or none, no answer to a call that was given up) and the
   proof that every step implements it.
2. The theorems of OrderWorkerProofs that do not need distinct local ids, without
   that assumption, as in ExchangeOrdersProofs.
3. `ProcSupervisor` (ProcWrapper), once it is settled what a QProcess that is
   destroyed while its child runs still reports.
4. Window pricing (Asks, Bids, OrdersVariants) as functions against a reference
   definition.
5. Composition of ApiClient with ExchangeOrders, and of both with ArbitragePair:
   a candidate's two orders as seen in the database.

## 6. Not modelled, and why

* String work: signatures, URLs, JSON, topics, formatting, logging.
* Data: amounts, rates, fees, balances.  Pricing is floating-point arithmetic over
  rows and fees; the models keep that a candidate may come out of it.
* Settings worker: its handlers make no calls, so nothing comes between their steps.
  One thing met while reading: fee.set compares with the fee read at the start
  (settingsworker.cpp 138), which is never updated, so setting back the first value is
  skipped.
* Logs worker: two lists that a timer writes to files; no trading state.
* The bot's cache of order books (swift-bot/main.cpp 129) is filled in the keeper's
  thread while an RPC reads it; only a display does.
* Assets tables: filled once, then only read.
* `ProcWrapper`'s list of children (see the plan); a child that ends and is started
  again is ApiClient's `Crash`.
* `AsyncRcpCallerInterface` and other clients that no running program creates, the bot's
  files outside swift-bot.pro, workers that main.cpp does not start, the API
  emulator.
* qmsgpack (vendored), packaging, the router.
