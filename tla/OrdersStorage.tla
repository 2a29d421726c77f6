---------------------------- MODULE OrdersStorage ----------------------------
(***************************************************************************)
(* OrdersStorage: the order worker's memory.  Order records live in the    *)
(* slots of one array and are never removed; one index finds a slot by the *)
(* exchange's id, one by the bot's own id, two list the open and the       *)
(* closed orders, and a list names the slots the database does not have    *)
(* yet.  Everything runs on one thread, so each member function is a step. *)
(*                                                                         *)
(* The array starts at 0 in the code and at 1 here.                        *)
(***************************************************************************)
EXTENDS Naturals, Sequences, FiniteSets

CONSTANTS
    Remote,     \* the ids the exchanges give to orders
    NoRemote,   \* "#": what an item without remote_id is filed under
    Local,      \* local ids
    Blank,      \* the empty local id
    LocalIds    \* the local ids an order's records may carry, by remote id

ASSUME IdsOK ==
    /\ IsFiniteSet(Remote) /\ IsFiniteSet(Local)
    /\ NoRemote \notin Remote
    /\ Blank \in Local /\ NoRemote \notin Local
    /\ LocalIds \in [Remote \cup {NoRemote} -> SUBSET Local]
    /\ Blank \in LocalIds[NoRemote]
    /\ \A r \in Remote : Blank \in LocalIds[r] => r \in LocalIds[r]

Ids    == Remote \cup {NoRemote}

\* 1 is open, 2 done, 3 cancelled.
Status == 1 .. 3
Record == {o \in [rid : Ids, lid : Local, st : Status] :
                o.lid \in LocalIds[o.rid]}

VARIABLES
    ordersArray,    \* data->orders_array
    extId,          \* _index_ext_id
    locId,          \* _index_loc_id
    openOrders,     \* _index_open_orders
    closedOrders,   \* _index_closed_orders
    updatedOrders   \* _index_updated_orders

indexes == <<extId, locId, openOrders, closedOrders>>
storage == <<ordersArray, indexes, updatedOrders>>

Slots == 1 .. Len(ordersArray)

\* A QHash or QMap: a function on some of the keys.
IsMap(f, K, V) == DOMAIN f \subseteq K /\ f \in [DOMAIN f -> V]

With(f, k, v) ==
    [x \in DOMAIN f \cup {k} |-> IF x = k THEN v ELSE f[x]]
Without(f, k) == [x \in DOMAIN f \ {k} |-> f[x]]

\* The same, but an entry that exists is kept.
WithNew(f, k, v) == IF k \in DOMAIN f THEN f ELSE With(f, k, v)

NoOrders == [x \in {} |-> 1]

StorageInit ==
    /\ ordersArray = <<>>
    /\ extId = NoOrders /\ locId = NoOrders
    /\ openOrders = NoOrders /\ closedOrders = NoOrders
    /\ updatedOrders = <<>>

Marked(i) == \E n \in 1 .. Len(updatedOrders) : updatedOrders[n] = i

Mark(i) ==
    updatedOrders' =
        IF Marked(i) THEN updatedOrders ELSE Append(updatedOrders, i)

-----------------------------------------------------------------------------
(* addOrder and updateOrder *)

\* QHash::value: the slot of a remote id, slot 0 for an id it does not hold.
SlotOf(r) == IF r \in DOMAIN extId THEN extId[r] ELSE 1

\* The last branch of addOrder: a new slot.
AddNew(o) ==
    LET new == Len(ordersArray) + 1 IN
    /\ ordersArray' = Append(ordersArray, o)
    /\ extId' = With(extId, o.rid, new)
    /\ locId' = With(locId, o.lid, new)
    /\ Mark(new)
    /\ IF o.st <= 1
       THEN /\ closedOrders' = Without(closedOrders, o.rid)
            /\ openOrders' = With(openOrders, o.rid, new)
       ELSE /\ openOrders' = Without(openOrders, o.rid)
            /\ closedOrders' = With(closedOrders, o.rid, new)

\* getOrder.  isExistsLocalId looks the local id up among the REMOTE ids.
Stored(o) ==
    IF o.rid \in DOMAIN extId
    THEN {ordersArray[extId[o.rid]]}
    ELSE IF o.lid # Blank /\ o.lid \in DOMAIN extId /\ o.lid \in DOMAIN locId
         THEN {ordersArray[locId[o.lid]]}
         ELSE {}

\* A bug that could be: the record is replaced, and nobody told the database.
ReplaceRecordUnmarked(o) ==
    /\ ordersArray' = [ordersArray EXCEPT ![SlotOf(o.rid)] = o]
    /\ UNCHANGED updatedOrders

\* The record is replaced when it differs.  Two records that agree here may
\* differ in fields left out (rates, amounts, times): both branches are open
\* then.  An id the index does not hold overwrites the first slot.
ReplaceRecord(o) ==
    \/ /\ ordersArray' = [ordersArray EXCEPT ![SlotOf(o.rid)] = o]
       /\ Mark(SlotOf(o.rid))
    \/ /\ o \in Stored(o)
       /\ UNCHANGED <<ordersArray, updatedOrders>>

\* A bug that could be: an order is filed as open and stays listed as closed.
RefileForgetsClosed(o) ==
    IF o.st <= 1
    THEN /\ openOrders' = WithNew(openOrders, o.rid, SlotOf(o.rid))
         /\ UNCHANGED closedOrders
    ELSE /\ openOrders' = Without(openOrders, o.rid)
         /\ closedOrders' = WithNew(closedOrders, o.rid, SlotOf(o.rid))

\* A bug that could be: a closed order stays listed as open.
RefileForgetsOpen(o) ==
    IF o.st <= 1
    THEN /\ closedOrders' = Without(closedOrders, o.rid)
         /\ openOrders' = WithNew(openOrders, o.rid, SlotOf(o.rid))
    ELSE /\ closedOrders' = WithNew(closedOrders, o.rid, SlotOf(o.rid))
         /\ UNCHANGED openOrders

\* A bug that could be: "status < 3" where the code says "status <= 1".
RefileDoneAsOpen(o) ==
    IF o.st < 3
    THEN /\ closedOrders' = Without(closedOrders, o.rid)
         /\ openOrders' = WithNew(openOrders, o.rid, SlotOf(o.rid))
    ELSE /\ openOrders' = Without(openOrders, o.rid)
         /\ closedOrders' = WithNew(closedOrders, o.rid, SlotOf(o.rid))

\* A bug that could be: only open orders are filed.
RefileOpenOnly(o) ==
    IF o.st <= 1
    THEN /\ closedOrders' = Without(closedOrders, o.rid)
         /\ openOrders' = WithNew(openOrders, o.rid, SlotOf(o.rid))
    ELSE UNCHANGED <<openOrders, closedOrders>>

\* The second half of updateOrder: move the id to the list its status calls
\* for.  An entry that is there keeps its slot.
Refile(o) ==
    IF o.st <= 1
    THEN /\ closedOrders' = Without(closedOrders, o.rid)
         /\ openOrders' = WithNew(openOrders, o.rid, SlotOf(o.rid))
    ELSE /\ openOrders' = Without(openOrders, o.rid)
         /\ closedOrders' = WithNew(closedOrders, o.rid, SlotOf(o.rid))

UpdateOrder(o) ==
    /\ ReplaceRecord(o)
    /\ Refile(o)
    /\ UNCHANGED <<extId, locId>>

\* The two conditions under which addOrder takes an item for a known order.
KnownRemote(o) == o.rid # NoRemote /\ o.rid \in DOMAIN extId
KnownLocal(o)  == o.lid \in DOMAIN locId

AddOrder(o) ==
    \/ /\ KnownRemote(o) \/ KnownLocal(o)
       /\ UpdateOrder(o)
    \/ /\ ~KnownRemote(o) /\ ~KnownLocal(o)
       /\ AddNew(o)

-----------------------------------------------------------------------------
(* The other member functions that change something *)

\* A bug that could be: ">= 1" where the code says "> 1".
StaleOpenFromOne ==
    {r \in DOMAIN openOrders : ordersArray[openOrders[r]].st >= 1}

StaleOpen ==
    {r \in DOMAIN openOrders : ordersArray[openOrders[r]].st > 1}

\* getOpenOrders moves the entries whose record is closed to the other list.
\* It removes them from the map it walks: after the first removal the
\* iterator is dangling, and which of the others it reaches is undefined.
GetOpenOrders ==
    \E moved \in SUBSET StaleOpen :
        /\ moved = {} => StaleOpen = {}
        /\ closedOrders' = [r \in DOMAIN closedOrders \cup moved |->
                IF r \in moved THEN openOrders[r] ELSE closedOrders[r]]
        /\ openOrders' = [r \in DOMAIN openOrders \ moved |-> openOrders[r]]
        /\ UNCHANGED <<ordersArray, extId, locId, updatedOrders>>

\* provision: an id in both lists is dropped from the open one.
Provision ==
    /\ openOrders' = [r \in DOMAIN openOrders \ DOMAIN closedOrders |->
                        openOrders[r]]
    /\ UNCHANGED <<ordersArray, extId, locId, closedOrders, updatedOrders>>

\* getUpdatedOrders: the records the database must get, oldest mark first.
UpdatedRecords == [n \in 1 .. Len(updatedOrders) |->
                        ordersArray[updatedOrders[n]]]

-----------------------------------------------------------------------------
(* What the storage promises *)

StorageTypeOK ==
    /\ ordersArray \in Seq(Record)
    /\ IsMap(extId, Ids, Nat)
    /\ IsMap(locId, Local, Nat)
    /\ IsMap(openOrders, Ids, Nat)
    /\ IsMap(closedOrders, Ids, Nat)
    /\ updatedOrders \in Seq(Nat)

\* No index points outside the array: QJsonArray::at and replace assert on
\* that, and the process would die in the middle of a handler.
IndexesInRange ==
    /\ \A r \in DOMAIN extId : extId[r] \in Slots
    /\ \A l \in DOMAIN locId : locId[l] \in Slots
    /\ \A r \in DOMAIN openOrders : openOrders[r] \in Slots
    /\ \A r \in DOMAIN closedOrders : closedOrders[r] \in Slots
    /\ \A n \in 1 .. Len(updatedOrders) : updatedOrders[n] \in Slots

\* Every order the storage knows is listed as open or as closed, and never
\* as both, whatever order its events come in.
ListedOnce ==
    /\ DOMAIN openOrders \cap DOMAIN closedOrders = {}
    /\ DOMAIN extId \subseteq DOMAIN openOrders \cup DOMAIN closedOrders

\* Every index leads to the record it is about, and the list an order is on
\* is the one its record calls for: the iterator of getOpenOrders never
\* loses the entry it stands on.  It takes distinct local ids.
IndexesAgree ==
    /\ \A r \in DOMAIN extId :
        /\ ordersArray[extId[r]].rid = r
        /\ LocalIds[r] \cap DOMAIN locId # {}
    /\ \A i \in Slots :
        LET r == ordersArray[i].rid IN r \in DOMAIN extId /\ extId[r] = i
    /\ \A l \in DOMAIN locId : l \in LocalIds[ordersArray[locId[l]].rid]
    /\ \A r \in DOMAIN openOrders :
        /\ r \in DOMAIN extId /\ openOrders[r] = extId[r]
        /\ ordersArray[extId[r]].st <= 1
    /\ \A r \in DOMAIN closedOrders :
        /\ r \in DOMAIN extId /\ closedOrders[r] = extId[r]
        /\ ordersArray[extId[r]].st > 1

\* Orders do not share local ids.
LocalIdsDistinct ==
    \A r, s \in Ids : r # s => LocalIds[r] \cap LocalIds[s] = {}
=============================================================================
