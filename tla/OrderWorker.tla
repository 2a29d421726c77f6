----------------------------- MODULE OrderWorker -----------------------------
(***************************************************************************)
(* The orders process: OrderWorker listens to the order feed and keeps     *)
(* OrdersStorage, checkUpdates hands the changed records to DbWriter every *)
(* 45 s, DbWriter writes them one by one, and a fresh process loads the    *)
(* closed orders back.  The exchanges and the api nodes that publish on    *)
(* the feed are the environment.                                           *)
(***************************************************************************)
EXTENDS OrdersStorage

CONSTANTS
    Unnamed,      \* orders whose exchange does not name them in cancel replies
    MaxFeed,      \* bound: answers on their way at once
    MaxAnswers,   \* bound: answers in all
    MaxQueue,     \* bound: saves DbWriter may still have when more come
    MaxCrashes,   \* bound: how often the process dies
    MaxDbErrors   \* bound: how often the database refuses a write

ASSUME WorkerOK ==
    /\ Unnamed \subseteq Remote
    /\ MaxFeed \in Nat /\ MaxAnswers \in Nat /\ MaxQueue \in Nat
    /\ MaxCrashes \in Nat /\ MaxDbErrors \in Nat

\* Cancel replies are the only items here that name no order.
ASSUME NamelessOK == LocalIds[NoRemote] = {Blank}

VARIABLES
    real,       \* the order at the exchange: 0 before it is placed
    feed,       \* answers of the exchanges on their way to the worker
    up,         \* the process runs
    items,      \* what is left of the items the running handler walks over
    saves,      \* saveOrder signals DbWriter has not handled
    db,         \* the rows of `orders`, whose primary key is local_id
    refused,    \* rows whose last write failed (history)
    swapped,    \* orders of which an answer that has them closed overtook one
                \* that has them open (history)
    answers, crashes, dbErrors

outside == <<real, answers, swapped>>
vars == <<storage, outside, feed, up, items, saves, db, refused, crashes,
          dbErrors>>

Row == [rid : Remote, st : Status]

\* The orders in S in any order, each under one of its local ids.
Listings(S) ==
    {s \in [1 .. Cardinality(S) -> Record] :
        /\ \A r \in S : \E n \in DOMAIN s : s[n].rid = r
        /\ \A n \in DOMAIN s : s[n].rid \in S /\ s[n].st = real[s[n].rid]}

Init ==
    /\ StorageInit
    /\ real = [r \in Remote |-> 0]
    /\ feed = <<>>
    /\ up = TRUE
    /\ items = <<>>
    /\ saves = <<>>
    /\ db = NoOrders
    /\ refused = {} /\ swapped = {}
    /\ answers = 0 /\ crashes = 0 /\ dbErrors = 0

-----------------------------------------------------------------------------
(* The exchanges.  Every answer describes the order as it was when the      *)
(* exchange gave it; it reaches the worker later.                          *)

CanAnswer == Len(feed) < MaxFeed /\ answers < MaxAnswers

Answer(s) ==
    /\ CanAnswer
    /\ feed' = Append(feed, s)
    /\ answers' = answers + 1

Elsewhere == UNCHANGED <<storage, up, items, saves, db, refused, swapped,
                         crashes, dbErrors>>

\* An order is placed; it may be filled at once.  The reply may get lost.
ExchangePlaces(r) ==
    /\ real[r] = 0
    /\ \E s \in {1, 2} :
        /\ real' = [real EXCEPT ![r] = s]
        /\ \/ \E l \in LocalIds[r] :
                 Answer(<<[rid |-> r, lid |-> l, st |-> s]>>)
           \/ UNCHANGED <<feed, answers>>
    /\ Elsewhere

ExchangeFills(r) ==
    /\ real[r] = 1
    /\ real' = [real EXCEPT ![r] = 2]
    /\ UNCHANGED <<feed, answers>>
    /\ Elsewhere

\* A cancel reply carries no local id; some exchanges give no remote id
\* either, and the item is then filed under "#".
ExchangeCancels(r) ==
    /\ real[r] = 1
    /\ real' = [real EXCEPT ![r] = 3]
    /\ IF r \in Unnamed
       THEN Answer(<<[rid |-> NoRemote, lid |-> Blank, st |-> 3]>>)
       ELSE \E l \in LocalIds[r] :
                Answer(<<[rid |-> r, lid |-> l, st |-> 3]>>)
    /\ Elsewhere

\* Answers to trade.active, of one market or of all, and to trade.history.
ExchangeListsOpen ==
    /\ CanAnswer
    /\ \E S \in SUBSET {r \in Remote : real[r] = 1} :
        /\ S # {}
        /\ \E s \in Listings(S) : Answer(s)
        /\ UNCHANGED real
        /\ Elsewhere

ExchangeListsClosed ==
    /\ CanAnswer
    /\ \E S \in SUBSET {r \in Remote : real[r] > 1} :
        /\ S # {}
        /\ \E s \in Listings(S) : Answer(s)
        /\ UNCHANGED real
        /\ Elsewhere

-----------------------------------------------------------------------------
(* OrderWorker.  A handler walks over its items without letting another     *)
(* handler in: one step per item, and nothing else starts while some are   *)
(* left.                                                                    *)

Idle == up /\ items = <<>>

RemoveAt(s, n) ==
    [k \in 1 .. Len(s) - 1 |-> IF k < n THEN s[k] ELSE s[k + 1]]

OpenIn(q, r)   == \E n \in 1 .. Len(q) : q[n].rid = r /\ q[n].st <= 1
ClosedIn(q, r) == \E n \in 1 .. Len(q) : q[n].rid = r /\ q[n].st > 1

\* An event arrives and its handler starts; the answers of different calls
\* overtake each other.  Events that arrive while the
\* process is down are lost.
Deliver ==
    /\ items = <<>>
    /\ \E n \in 1 .. Len(feed) :
        /\ feed' = RemoveAt(feed, n)
        /\ items' = IF up THEN feed[n] ELSE <<>>
        /\ swapped' = swapped \cup
             {r \in Remote : /\ up /\ ClosedIn(feed[n], r)
                            /\ \E m \in 1 .. n - 1 : OpenIn(feed[m], r)}
    /\ UNCHANGED <<storage, real, answers, up, saves, db, refused, crashes, dbErrors>>

\* addOrder for the next item of the event, or of the rows from the database.
HandleItem ==
    /\ items # <<>>
    /\ AddOrder(Head(items))
    /\ items' = Tail(items)
    /\ UNCHANGED <<outside, feed, up, saves, db, refused, crashes, dbErrors>>

\* swift.trade.rpc.active without a pair, and swift.trade.rpc.today.
ReadOpen ==
    /\ Idle
    /\ GetOpenOrders
    /\ UNCHANGED <<outside, feed, up, items, saves, db, refused, crashes,
                   dbErrors>>

Maintain ==
    /\ Idle
    /\ Provision
    /\ UNCHANGED <<outside, feed, up, items, saves, db, refused, crashes,
                   dbErrors>>

\* checkUpdates: every marked record is emitted, and the marks are dropped.
CheckUpdates ==
    /\ Idle
    /\ Len(saves) <= MaxQueue
    /\ saves' = saves \o UpdatedRecords
    /\ updatedOrders' = <<>>
    /\ UNCHANGED <<ordersArray, indexes, outside, feed, up, items, db, refused,
                   crashes, dbErrors>>

-----------------------------------------------------------------------------
(* DbWriter *)

\* An empty local id is written as the remote id.
Key(o) == IF o.lid = Blank THEN o.rid ELSE o.lid

\* INSERT ... ON DUPLICATE KEY UPDATE: a row that exists gets the new status
\* and keeps its remote id.
Upsert(o) ==
    With(db, Key(o),
         [rid |-> IF Key(o) \in DOMAIN db THEN db[Key(o)].rid ELSE o.rid,
          st |-> o.st])

\* A bug that could be: the newest save is written first.
SaveOrderNewestFirst ==
    /\ up /\ items = <<>> /\ saves # <<>>
    /\ LET o == saves[Len(saves)] IN
        /\ db' = IF o.rid = NoRemote THEN db ELSE Upsert(o)
        /\ refused' = refused \ {Key(o)}
    /\ saves' = SubSeq(saves, 1, Len(saves) - 1)
    /\ UNCHANGED <<storage, outside, feed, up, items, crashes, dbErrors>>

\* onSaveOrder: a record without a remote id is skipped.
SaveOrder ==
    /\ Idle /\ saves # <<>>
    /\ LET o == Head(saves) IN
        /\ db' = IF o.rid = NoRemote THEN db ELSE Upsert(o)
        /\ refused' = refused \ {Key(o)}
    /\ saves' = Tail(saves)
    /\ UNCHANGED <<storage, outside, feed, up, items, crashes, dbErrors>>

\* A write that fails is logged, and the record is not tried again.
SaveOrderFails ==
    /\ Idle /\ saves # <<>>
    /\ dbErrors < MaxDbErrors
    /\ dbErrors' = dbErrors + 1
    /\ refused' = refused \cup {Key(Head(saves))}
    /\ saves' = Tail(saves)
    /\ UNCHANGED <<storage, outside, feed, up, items, db, crashes>>

-----------------------------------------------------------------------------
(* Crash and restart *)

Crash ==
    /\ up /\ crashes < MaxCrashes
    /\ crashes' = crashes + 1
    /\ up' = FALSE
    /\ ordersArray' = <<>>
    /\ extId' = NoOrders /\ locId' = NoOrders
    /\ openOrders' = NoOrders /\ closedOrders' = NoOrders
    /\ updatedOrders' = <<>>
    /\ items' = <<>>
    /\ saves' = <<>>
    /\ refused' = {}
    /\ UNCHANGED <<outside, feed, db, dbErrors>>

\* loadTodayOrders and onOrdersFromDb: rows with a status above 1, before the
\* first event.
StoredClosed == {k \in DOMAIN db : db[k].st > 1}

RowItem(k) == [rid |-> db[k].rid, lid |-> k, st |-> db[k].st]

Restart ==
    /\ ~up
    /\ up' = TRUE
    /\ \E s \in [1 .. Cardinality(StoredClosed) -> StoredClosed] :
        /\ \A k \in StoredClosed : \E n \in DOMAIN s : s[n] = k
        /\ items' = [n \in DOMAIN s |-> RowItem(s[n])]
    /\ UNCHANGED <<storage, outside, feed, saves, db, refused, crashes, dbErrors>>

Exchange ==
    \/ \E r \in Remote :
        ExchangePlaces(r) \/ ExchangeFills(r) \/ ExchangeCancels(r)
    \/ ExchangeListsOpen \/ ExchangeListsClosed

Next ==
    \/ Exchange
    \/ Deliver \/ HandleItem \/ ReadOpen \/ Maintain \/ CheckUpdates
    \/ SaveOrder \/ SaveOrderFails
    \/ Crash \/ Restart

Spec == Init /\ [][Next]_vars

\* The event loop runs every handler whose event is there.
Fairness ==
    /\ WF_vars(Deliver)
    /\ WF_vars(HandleItem)
    /\ SF_vars(CheckUpdates)
    /\ SF_vars(SaveOrder)
    /\ WF_vars(Restart)

FairSpec == Spec /\ Fairness

-----------------------------------------------------------------------------
(* Properties *)

TypeOK ==
    /\ StorageTypeOK
    /\ real \in [Remote -> 0 .. 3]
    /\ feed \in Seq(Seq(Record))
    /\ up \in BOOLEAN
    /\ items \in Seq(Record)
    /\ saves \in Seq(Record)
    /\ IsMap(db, Local, Row)
    /\ \A k \in DOMAIN db : k \in LocalIds[db[k].rid]
    /\ refused \subseteq Local \cup {NoRemote}
    /\ answers \in Nat /\ crashes \in Nat /\ dbErrors \in Nat

\* An item or a record that says an order is closed says it rightly.
Honest(o) == o.rid = NoRemote \/ o.st <= 1 \/ real[o.rid] = o.st

Truthful ==
    /\ \A n \in 1 .. Len(feed) : \A k \in 1 .. Len(feed[n]) : Honest(feed[n][k])
    /\ \A n \in 1 .. Len(items) : Honest(items[n])
    /\ \A i \in Slots : Honest(ordersArray[i])
    /\ \A n \in 1 .. Len(saves) : Honest(saves[n])
    /\ \A k \in DOMAIN db : db[k].st > 1 => real[db[k].rid] = db[k].st

\* The inductive invariant: the indexes of the storage agree with its array,
\* and no closing is made up on the way from the exchange to the database.
IInv == TypeOK /\ IndexesInRange /\ ListedOnce /\ IndexesAgree /\ Truthful

\* An order is listed as closed, or loaded back as closed, only when it is
\* closed at the exchange: no mix of stale answers, crashes and cancels of
\* other orders makes a live order look finished.
ClosedIsReallyClosed ==
    /\ \A r \in DOMAIN closedOrders \ {NoRemote} : real[r] > 1
    /\ \A k \in DOMAIN db : db[k].st > 1 => real[db[k].rid] = db[k].st

LastSave(k) ==
    LET mine == {n \in 1 .. Len(saves) : Key(saves[n]) = k} IN
    saves[CHOOSE n \in mine : \A m \in mine : m <= n]

\* The row a record is written to has its status.
Saved(o) == Key(o) \in DOMAIN db /\ db[Key(o)].st = o.st

\* What the database does not have yet is marked or on its way to it, unless
\* the database refused it.
UnsavedIsMarked ==
    \A r \in DOMAIN extId \ {NoRemote} :
        LET o == ordersArray[extId[r]] IN
        \/ Marked(extId[r])
        \/ IF \E n \in 1 .. Len(saves) : Key(saves[n]) = Key(o)
           THEN LastSave(Key(o)).st = o.st
           ELSE Saved(o) \/ Key(o) \in refused

\* A closed order is reopened only where an answer that has it closed overtook
\* one of the same order that has it open: no other answer, no row loaded back
\* and no cancel of another order takes it off the list.  A crash empties it.
ReopenedOnlyBySwap ==
    [][\A r \in DOMAIN closedOrders :
         r \in DOMAIN closedOrders' \/ ~up' \/ r \in swapped]_vars

\* What the worker knows of an order ends up in the database.
EventuallySaved ==
    \A r \in Remote :
        <>[](r \in DOMAIN extId => Saved(ordersArray[extId[r]]))

\* A cancelled order is listed as closed once the reply is handled, where
\* the reply names it, the process lives and no older answer comes after it.
CancelIsShown ==
    \A r \in Remote \ Unnamed :
        (real[r] = 3 /\ crashes = 0)
            ~> (r \in DOMAIN closedOrders \/ crashes > 0 \/ r \in swapped)
=============================================================================
