----------------------------- MODULE ExchangeOrdersProofs -----------------------------
(***************************************************************************)
(* What the fifteen exchanges' answers make of the storage, for any number *)
(* of orders and of requests under way.                                    *)
(*                                                                         *)
(* Nothing is assumed of the local ids that items carry: nameless items    *)
(* and items of other orders may hold any of them, so that the indexes do  *)
(* not agree with the records as they do in OrderWorkerProofs.  What stays *)
(* is StorageInv: an order that the index knows is listed once, with the   *)
(* slot the index has.                                                     *)
(*                                                                         *)
(* The other three parts of the invariant follow an order from the         *)
(* exchange to its record: what an answer says was so once and the order   *)
(* can only have gone on since (RepliesTrue); an item and a record tell    *)
(* nothing their exchange has not said (ItemsTrue, RecordsTrue); a placing *)
(* and a cancel are listed or on their way (PlacesComing, CancelsComing).  *)
(***************************************************************************)
EXTENDS ExchangeOrders, TLAPS

\* What may have become of an order that once was in state s.
Since(s) ==
  CASE s = "open" -> Live \cup Over
    [] s = "partly" -> {"partly"} \cup Over
    [] OTHER -> {s}

\* An order its exchange took, one that is over there or was misread, and one
\* whose cancel has not been read yet.
Accepted(r) == real[r] # "none" /\ (ex # "okcoin" => real[r] # "refused")
Ended(r) == real[r] \in Over \/ r \in misread
CancelUnread(r) == \E p \in replies : p.m = "OrderCancel" /\ p.r = r /\ p.seen = "cancelled"
PlaceUnread(r) ==
  \E p \in replies : p.m = "OrderPlace" /\ p.r = r /\ p.seen \in Live \cup {"done"}

\* A state in which the answer to place, cancel or get can have seen an order.
Seen(m) ==
  CASE m = "OrderPlace" -> {"refused", "open", "partly", "done"}
    [] m = "OrderCancel" -> {"refused", "cancelled"}
    [] OTHER -> Live \cup Over

\* Every answer on its way was true when it was given.
OrderReplyTrue(p) ==
  /\ p \in Reply /\ p.seen \in Seen(p.m)
  /\ IF p.m = "OrderCancel" /\ p.seen = "refused" THEN real[p.r] \in Live \cup Over
     ELSE real[p.r] \in Since(p.seen)
ListReplyTrue(p) ==
  /\ p \in ListReply
  /\ \A r \in DOMAIN p.seen : p.seen[r] \in Live \cup Over => real[r] \in Since(p.seen[r])
RepliesTrue ==
  \A p \in replies : IF p.m \in ListMethods THEN ListReplyTrue(p) ELSE OrderReplyTrue(p)

\* A record tells of its order what the order came to, or was misread as.
Tells(o) ==
  o.rid # NoRemote => Accepted(o.rid) /\ (o.st > 1 => Ended(o.rid))

\* Only an answer older than the cancel speaks of a cancelled order as open.
TellsCancel(o) ==
  (o.rid # NoRemote /\ o.st <= 1 /\ ex \in CancelNamesOrder /\ real[o.rid] = "cancelled")
    => o.rid \in late \/ CancelUnread(o.rid)

ItemsTrue == \A i \in items : i \in Record /\ Tells(i) /\ TellsCancel(i)
RecordsTrue == \A i \in Slots : Tells(ordersArray[i])

\* An order that the index knows is listed with the slot the index has.
ListsAgree ==
  \A r \in DOMAIN extId :
    /\ r \in DOMAIN openOrders => openOrders[r] = extId[r]
    /\ r \in DOMAIN closedOrders => closedOrders[r] = extId[r]

\* A cancelled order is closed, or its cancel is still on the way.
CancelsComing ==
  \A r \in Remote :
    (real[r] = "cancelled" /\ ex \in CancelNamesOrder)
      => \/ r \in DOMAIN closedOrders \cup late
         \/ CancelUnread(r)
         \/ \E i \in items : i.rid = r /\ i.st > 1

\* An order the exchange took is listed, or its placing is still on the way.
PlacesComing ==
  \A r \in Remote :
    (real[r] \in Live \cup Over /\ ex \notin PlacesInSilence)
      => r \in Listed \/ PlaceUnread(r) \/ \E i \in items : i.rid = r

StorageInv == StorageTypeOK /\ IndexesInRange /\ ListedOnce /\ ListsAgree
ExchangeInv ==
  /\ ex \in Exchanges /\ (ex = "lbank" => replies = {})
  /\ real \in [Remote -> States]
  /\ RepliesTrue
ToldInv == ItemsTrue /\ RecordsTrue /\ ListedIsAccepted /\ ClosedIsOver
ComingInv == CancelsComing /\ PlacesComing
IInv == StorageInv /\ ExchangeInv /\ ToldInv /\ ComingInv

-----------------------------------------------------------------------------
(* The storage *)

\* Each of them keeps a map a map.
LEMMA MapsStayMaps ==
  ASSUME NEW K, NEW V, NEW f, IsMap(f, K, V), NEW k \in K, NEW v \in V
  PROVE  /\ IsMap(With(f, k, v), K, V)
         /\ IsMap(Without(f, k), K, V)
         /\ IsMap(WithNew(f, k, v), K, V)
  BY DEF IsMap, With, Without, WithNew

\* What a record looks like.
LEMMA RecordType ==
  ASSUME NEW o \in Record
  PROVE  o.rid \in Ids /\ o.lid \in Local /\ o.st \in 1 .. 3
  BY DEF Record, Status

\* Marking a slot adds nothing but that slot.
LEMMA MarkAdds ==
  ASSUME updatedOrders \in Seq(Nat), NEW i \in Nat, Mark(i)
  PROVE  /\ updatedOrders' \in Seq(Nat)
         /\ \A n \in 1 .. Len(updatedOrders') :
              \/ updatedOrders'[n] = i
              \/ \E k \in 1 .. Len(updatedOrders) : updatedOrders'[n] = updatedOrders[k]
  <1>1. CASE Marked(i)
    BY <1>1 DEF Mark
  <1>2. CASE ~Marked(i)
    BY <1>2 DEF Mark
  <1> QED BY <1>1, <1>2

\* The slot updateOrder writes to is in the array: an order that is known,
\* if only by a local id, means that there is a first slot.
LEMMA SlotInRange ==
  ASSUME StorageInv, NEW o \in Record, KnownRemote(o) \/ KnownLocal(o)
  PROVE  SlotOf(o.rid) \in Slots
  <1>1. ordersArray \in Seq(Record)
    BY DEF StorageInv, StorageTypeOK
  <1>2. CASE o.rid \in DOMAIN extId
    BY <1>2 DEF SlotOf, StorageInv, IndexesInRange
  <1>3. CASE o.rid \notin DOMAIN extId
    <2>1. locId[o.lid] \in Slots
      BY <1>3 DEF KnownRemote, KnownLocal, StorageInv, IndexesInRange
    <2>2. 1 \in Slots
      BY <1>1, <2>1 DEF Slots
    <2> QED BY <1>3, <2>2 DEF SlotOf
  <1> QED BY <1>2, <1>3

\* What filing an item does to the array, to the index and to the lists.
Filed(o) ==
  /\ ordersArray' \in Seq(Record) /\ Slots \subseteq Slots'
  /\ \A i \in Slots' : ordersArray'[i] = o \/ (i \in Slots /\ ordersArray'[i] = ordersArray[i])
  /\ updatedOrders' \in Seq(Nat)
  /\ \A n \in 1 .. Len(updatedOrders') : updatedOrders'[n] \in Slots'
  /\ IsMap(extId', Ids, Nat) /\ IsMap(locId', Local, Nat)
  /\ \A r \in DOMAIN extId' : extId'[r] \in Slots'
  /\ \A l \in DOMAIN locId' : locId'[l] \in Slots'
  /\ DOMAIN extId \subseteq DOMAIN extId' /\ DOMAIN extId' \subseteq DOMAIN extId \cup {o.rid}
  /\ \A r \in DOMAIN extId' : r # o.rid => extId'[r] = extId[r]

LEMMA UpdateFiles ==
  ASSUME StorageInv, NEW o \in Record, KnownRemote(o) \/ KnownLocal(o), UpdateOrder(o)
  PROVE  Filed(o)
  <1> DEFINE e == SlotOf(o.rid)
  <1>1. /\ e \in Slots /\ e \in Nat
        /\ ordersArray \in Seq(Record) /\ updatedOrders \in Seq(Nat)
        /\ \A n \in 1 .. Len(updatedOrders) : updatedOrders[n] \in Slots
    BY SlotInRange DEF StorageInv, StorageTypeOK, IndexesInRange, Slots
  <1>2. extId' = extId /\ locId' = locId
    BY DEF UpdateOrder
  <1>3. /\ ordersArray' \in Seq(Record) /\ Slots' = Slots
        /\ \A i \in Slots : ordersArray'[i] = o \/ ordersArray'[i] = ordersArray[i]
    <2>1. CASE ordersArray' = ordersArray
      BY <1>1, <2>1 DEF Slots
    <2>2. CASE ordersArray' = [ordersArray EXCEPT ![e] = o]
      BY <1>1, <2>2 DEF Slots
    <2> QED BY <2>1, <2>2 DEF UpdateOrder, ReplaceRecord
  <1>4. /\ updatedOrders' \in Seq(Nat)
        /\ \A n \in 1 .. Len(updatedOrders') : updatedOrders'[n] \in Slots'
    <2>1. CASE updatedOrders' = updatedOrders
      BY <1>1, <1>3, <2>1
    <2>2. CASE Mark(e)
      <3> HIDE DEF e
      <3>1. /\ updatedOrders' \in Seq(Nat)
            /\ \A n \in 1 .. Len(updatedOrders') :
                 \/ updatedOrders'[n] = e
                 \/ \E k \in 1 .. Len(updatedOrders) : updatedOrders'[n] = updatedOrders[k]
        BY <1>1, <2>2, MarkAdds
      <3> QED BY <1>1, <1>3, <3>1
    <2> QED BY <2>1, <2>2 DEF UpdateOrder, ReplaceRecord
  <1> QED BY <1>2, <1>3, <1>4 DEF Filed, StorageInv, StorageTypeOK, IndexesInRange

LEMMA NewIsFiled ==
  ASSUME StorageInv, NEW o \in Record, AddNew(o)
  PROVE  Filed(o) /\ extId'[o.rid] = Len(ordersArray) + 1 /\ o.rid \in DOMAIN extId'
  <1> DEFINE new == Len(ordersArray) + 1
  <1>1. /\ ordersArray \in Seq(Record) /\ new \in Nat
        /\ updatedOrders \in Seq(Nat)
        /\ \A n \in 1 .. Len(updatedOrders) : updatedOrders[n] \in Slots
        /\ IsMap(extId, Ids, Nat) /\ IsMap(locId, Local, Nat)
        /\ \A r \in DOMAIN extId : extId[r] \in Slots
        /\ \A l \in DOMAIN locId : locId[l] \in Slots
    BY DEF StorageInv, StorageTypeOK, IndexesInRange
  <1>2. o.rid \in Ids /\ o.lid \in Local
    BY RecordType
  <1>3. /\ ordersArray' = Append(ordersArray, o)
        /\ extId' = With(extId, o.rid, new) /\ locId' = With(locId, o.lid, new)
        /\ Mark(new)
    BY DEF AddNew
  <1>4. /\ ordersArray' \in Seq(Record)
        /\ Slots' = Slots \cup {new} /\ new \in Slots'
        /\ ordersArray'[new] = o
        /\ \A i \in Slots : ordersArray'[i] = ordersArray[i]
    BY <1>1, <1>3 DEF Slots
  <1>5. IsMap(extId', Ids, Nat) /\ IsMap(locId', Local, Nat)
    BY <1>1, <1>2, <1>3, MapsStayMaps
  <1>6. /\ DOMAIN extId' = DOMAIN extId \cup {o.rid} /\ extId'[o.rid] = new
        /\ \A r \in DOMAIN extId \ {o.rid} : extId'[r] = extId[r]
        /\ DOMAIN locId' = DOMAIN locId \cup {o.lid} /\ locId'[o.lid] = new
        /\ \A l \in DOMAIN locId \ {o.lid} : locId'[l] = locId[l]
    BY <1>1, <1>3 DEF With
  <1>7. /\ updatedOrders' \in Seq(Nat)
        /\ \A n \in 1 .. Len(updatedOrders') : updatedOrders'[n] \in Slots'
    <2> HIDE DEF new
    <2>1. /\ updatedOrders' \in Seq(Nat)
          /\ \A n \in 1 .. Len(updatedOrders') :
               \/ updatedOrders'[n] = new
               \/ \E k \in 1 .. Len(updatedOrders) : updatedOrders'[n] = updatedOrders[k]
      BY <1>1, <1>3, MarkAdds
    <2> QED BY <1>1, <1>4, <2>1
  <1> HIDE DEF new
  <1>8. Filed(o)
    BY <1>1, <1>4, <1>5, <1>6, <1>7 DEF Filed
  <1> QED BY <1>6, <1>8 DEF new

\* The lists: the order goes to the list its status calls for and leaves the
\* other; the entries of other orders stay.
Relisted(o) ==
  LET on == IF o.st <= 1 THEN openOrders ELSE closedOrders
      off == IF o.st <= 1 THEN closedOrders ELSE openOrders
      on2 == IF o.st <= 1 THEN openOrders' ELSE closedOrders'
      off2 == IF o.st <= 1 THEN closedOrders' ELSE openOrders'
  IN
  /\ IsMap(openOrders', Ids, Nat) /\ IsMap(closedOrders', Ids, Nat)
  /\ DOMAIN on2 = DOMAIN on \cup {o.rid} /\ DOMAIN off2 = DOMAIN off \ {o.rid}
  /\ \A r \in DOMAIN on \ {o.rid} : on2[r] = on[r]
  /\ \A r \in DOMAIN off2 : off2[r] = off[r]
  /\ on2[o.rid] \in Slots'
  /\ o.rid \in DOMAIN extId' => on2[o.rid] = extId'[o.rid]

LEMMA UpdateRelists ==
  ASSUME StorageInv, NEW o \in Record, KnownRemote(o) \/ KnownLocal(o), UpdateOrder(o)
  PROVE  Relisted(o)
  <1> DEFINE e == SlotOf(o.rid)
  <1>1. /\ IsMap(openOrders, Ids, Nat) /\ IsMap(closedOrders, Ids, Nat)
        /\ \A r \in DOMAIN openOrders : openOrders[r] \in Slots
        /\ \A r \in DOMAIN closedOrders : closedOrders[r] \in Slots
        /\ e \in Slots /\ e \in Nat
    BY SlotInRange DEF StorageInv, StorageTypeOK, IndexesInRange, Slots
  <1>2. Slots \subseteq Slots' /\ extId' = extId
    BY UpdateFiles DEF Filed, UpdateOrder
  <1>3. o.rid \in Ids /\ o.st \in 1 .. 3
    BY RecordType
  <1>4. o.rid \in DOMAIN extId =>
          /\ e = extId[o.rid]
          /\ o.rid \in DOMAIN openOrders => openOrders[o.rid] = e
          /\ o.rid \in DOMAIN closedOrders => closedOrders[o.rid] = e
    BY DEF SlotOf, StorageInv, ListsAgree
  <1>5. CASE o.st <= 1
    <2>1. closedOrders' = Without(closedOrders, o.rid) /\ openOrders' = WithNew(openOrders, o.rid, e)
      BY <1>5 DEF UpdateOrder, Refile
    <2> HIDE DEF e
    <2>2. IsMap(openOrders', Ids, Nat) /\ IsMap(closedOrders', Ids, Nat)
      BY <1>1, <1>3, <2>1, MapsStayMaps
    <2>3. /\ DOMAIN openOrders' = DOMAIN openOrders \cup {o.rid}
          /\ DOMAIN closedOrders' = DOMAIN closedOrders \ {o.rid}
          /\ \A r \in DOMAIN openOrders : openOrders'[r] = openOrders[r]
          /\ \A r \in DOMAIN closedOrders' : closedOrders'[r] = closedOrders[r]
          /\ o.rid \notin DOMAIN openOrders => openOrders'[o.rid] = e
      BY <2>1 DEF Without, WithNew, With
    <2>4. openOrders'[o.rid] \in Slots' /\ (o.rid \in DOMAIN extId' => openOrders'[o.rid] = extId'[o.rid])
      BY <1>1, <1>2, <1>4, <2>3
    <2> QED BY <1>5, <2>2, <2>3, <2>4 DEF Relisted
  <1>6. CASE ~(o.st <= 1)
    <2>1. openOrders' = Without(openOrders, o.rid) /\ closedOrders' = WithNew(closedOrders, o.rid, e)
      BY <1>6 DEF UpdateOrder, Refile
    <2> HIDE DEF e
    <2>2. IsMap(openOrders', Ids, Nat) /\ IsMap(closedOrders', Ids, Nat)
      BY <1>1, <1>3, <2>1, MapsStayMaps
    <2>3. /\ DOMAIN closedOrders' = DOMAIN closedOrders \cup {o.rid}
          /\ DOMAIN openOrders' = DOMAIN openOrders \ {o.rid}
          /\ \A r \in DOMAIN closedOrders : closedOrders'[r] = closedOrders[r]
          /\ \A r \in DOMAIN openOrders' : openOrders'[r] = openOrders[r]
          /\ o.rid \notin DOMAIN closedOrders => closedOrders'[o.rid] = e
      BY <2>1 DEF Without, WithNew, With
    <2>4. closedOrders'[o.rid] \in Slots' /\ (o.rid \in DOMAIN extId' => closedOrders'[o.rid] = extId'[o.rid])
      BY <1>1, <1>2, <1>4, <2>3
    <2> QED BY <1>6, <2>2, <2>3, <2>4 DEF Relisted
  <1> QED BY <1>5, <1>6

LEMMA NewIsListed ==
  ASSUME StorageInv, NEW o \in Record, AddNew(o)
  PROVE  Relisted(o)
  <1> DEFINE new == Len(ordersArray) + 1
  <1>1. IsMap(openOrders, Ids, Nat) /\ IsMap(closedOrders, Ids, Nat) /\ new \in Nat
    BY DEF StorageInv, StorageTypeOK
  <1>2. o.rid \in DOMAIN extId' /\ extId'[o.rid] = new /\ new \in Slots'
    BY NewIsFiled DEF Filed
  <1>3. o.rid \in Ids /\ o.st \in 1 .. 3
    BY RecordType
  <1>4. CASE o.st <= 1
    <2>1. closedOrders' = Without(closedOrders, o.rid) /\ openOrders' = With(openOrders, o.rid, new)
      BY <1>4 DEF AddNew
    <2> HIDE DEF new
    <2>2. IsMap(openOrders', Ids, Nat) /\ IsMap(closedOrders', Ids, Nat)
      BY <1>1, <1>3, <2>1, MapsStayMaps
    <2>3. /\ DOMAIN openOrders' = DOMAIN openOrders \cup {o.rid}
          /\ DOMAIN closedOrders' = DOMAIN closedOrders \ {o.rid}
          /\ \A r \in DOMAIN openOrders \ {o.rid} : openOrders'[r] = openOrders[r]
          /\ \A r \in DOMAIN closedOrders' : closedOrders'[r] = closedOrders[r]
          /\ openOrders'[o.rid] = new
      BY <2>1 DEF With, Without
    <2> QED BY <1>2, <1>4, <2>2, <2>3 DEF Relisted
  <1>5. CASE ~(o.st <= 1)
    <2>1. openOrders' = Without(openOrders, o.rid) /\ closedOrders' = With(closedOrders, o.rid, new)
      BY <1>5 DEF AddNew
    <2> HIDE DEF new
    <2>2. IsMap(openOrders', Ids, Nat) /\ IsMap(closedOrders', Ids, Nat)
      BY <1>1, <1>3, <2>1, MapsStayMaps
    <2>3. /\ DOMAIN closedOrders' = DOMAIN closedOrders \cup {o.rid}
          /\ DOMAIN openOrders' = DOMAIN openOrders \ {o.rid}
          /\ \A r \in DOMAIN closedOrders \ {o.rid} : closedOrders'[r] = closedOrders[r]
          /\ \A r \in DOMAIN openOrders' : openOrders'[r] = openOrders[r]
          /\ closedOrders'[o.rid] = new
      BY <2>1 DEF With, Without
    <2> QED BY <1>2, <1>5, <2>2, <2>3 DEF Relisted
  <1> QED BY <1>4, <1>5

\* addOrder, whichever branch it takes.
LEMMA AddOrderFiles ==
  ASSUME StorageInv, NEW o \in Record, AddOrder(o)
  PROVE  Filed(o) /\ Relisted(o)
  <1>1. CASE (KnownRemote(o) \/ KnownLocal(o)) /\ UpdateOrder(o)
    BY <1>1, UpdateFiles, UpdateRelists
  <1>2. CASE AddNew(o)
    BY <1>2, NewIsFiled, NewIsListed
  <1> QED BY <1>1, <1>2 DEF AddOrder

\* addOrder keeps the storage together.
LEMMA AddOrderKeeps ==
  ASSUME StorageInv, NEW o \in Record, AddOrder(o)
  PROVE  StorageInv'
  <1>1. Filed(o) /\ Relisted(o)
    BY AddOrderFiles
  <1>2. /\ \A r \in DOMAIN openOrders : openOrders[r] \in Slots
        /\ \A r \in DOMAIN closedOrders : closedOrders[r] \in Slots
        /\ DOMAIN openOrders \cap DOMAIN closedOrders = {}
        /\ DOMAIN extId \subseteq DOMAIN openOrders \cup DOMAIN closedOrders
        /\ \A r \in DOMAIN extId :
             /\ r \in DOMAIN openOrders => openOrders[r] = extId[r]
             /\ r \in DOMAIN closedOrders => closedOrders[r] = extId[r]
    BY DEF StorageInv, IndexesInRange, ListedOnce, ListsAgree
  <1>3. o.st \in 1 .. 3
    BY RecordType
  <1>4. StorageTypeOK'
    BY <1>1 DEF Filed, Relisted, StorageTypeOK
  <1>5. IndexesInRange'
    <2>1. CASE o.st <= 1
      BY <1>1, <1>2, <2>1 DEF Filed, Relisted, IndexesInRange
    <2>2. CASE ~(o.st <= 1)
      BY <1>1, <1>2, <2>2 DEF Filed, Relisted, IndexesInRange
    <2> QED BY <2>1, <2>2
  <1>6. ListedOnce'
    <2>1. CASE o.st <= 1
      BY <1>1, <1>2, <2>1 DEF Filed, Relisted, ListedOnce
    <2>2. CASE ~(o.st <= 1)
      BY <1>1, <1>2, <2>2 DEF Filed, Relisted, ListedOnce
    <2> QED BY <2>1, <2>2
  <1>7. ListsAgree'
    <2>1. CASE o.st <= 1
      BY <1>1, <1>2, <2>1 DEF Filed, Relisted, ListsAgree
    <2>2. CASE ~(o.st <= 1)
      BY <1>1, <1>2, <2>2 DEF Filed, Relisted, ListsAgree
    <2> QED BY <2>1, <2>2
  <1> QED BY <1>4, <1>5, <1>6, <1>7 DEF StorageInv

\* getOpenOrders keeps it together, however many entries its iterator reaches.
LEMMA ReadKeeps ==
  ASSUME StorageInv, GetOpenOrders
  PROVE  /\ StorageInv'
         /\ Listed' = Listed /\ DOMAIN closedOrders \subseteq DOMAIN closedOrders'
         /\ UNCHANGED <<ordersArray, extId>>
         /\ \A r \in DOMAIN closedOrders' :
              r \in DOMAIN closedOrders \/ (r \in DOMAIN openOrders /\ ordersArray[openOrders[r]].st > 1)
  <1>1. PICK moved \in SUBSET StaleOpen :
          /\ closedOrders' = [r \in DOMAIN closedOrders \cup moved |->
                                IF r \in moved THEN openOrders[r] ELSE closedOrders[r]]
          /\ openOrders' = [r \in DOMAIN openOrders \ moved |-> openOrders[r]]
          /\ UNCHANGED <<ordersArray, extId, locId, updatedOrders>>
    BY DEF GetOpenOrders
  <1>2. \A r \in moved : r \in DOMAIN openOrders /\ ordersArray[openOrders[r]].st > 1
    BY DEF StaleOpen
  <1>3. Slots' = Slots
    BY <1>1 DEF Slots
  <1>4. IsMap(openOrders', Ids, Nat) /\ IsMap(closedOrders', Ids, Nat)
    BY <1>1, <1>2 DEF StorageInv, StorageTypeOK, IsMap
  <1>5. StorageTypeOK'
    BY <1>1, <1>4 DEF StorageInv, StorageTypeOK
  <1>6. IndexesInRange'
    BY <1>1, <1>2, <1>3 DEF StorageInv, IndexesInRange
  <1>7. ListedOnce'
    BY <1>1, <1>2 DEF StorageInv, ListedOnce
  <1>8. ListsAgree'
    BY <1>1, <1>2 DEF StorageInv, ListsAgree
  <1> QED BY <1>1, <1>2, <1>5, <1>6, <1>7, <1>8 DEF StorageInv, Listed

-----------------------------------------------------------------------------
(* The parsers *)

\* When an answer to m is read as closed, its order is over, or the state it
\* was seen in is one that e takes for closed.
ClosedRead(e, m, seen) == seen \in Over \/ seen \in TakesForClosed(e, m)

\* What the worker relies on when a placing is read: a refusal is not
\* announced, and an exchange that is not silent announces every order it took.
PlaceRead(e, says) ==
  \A seen \in {"refused", "open", "partly", "done"} : \A s \in says.st[seen] :
    /\ s \in Statuses
    /\ (seen = "refused" /\ e # "okcoin") => s \notin {1, 2}
    /\ s = 2 => ClosedRead(e, "OrderPlace", seen)
    /\ (seen # "refused" /\ e \notin PlacesInSilence) => s \in {1, 2}

\* When a cancel is read: where it names its order, it closes it.
CancelRead(e, says) ==
  \A seen \in {"refused", "cancelled"} : \A s \in says.st[seen] :
    /\ s \in Statuses \ {Out}
    /\ s \in {2, 3, 4} => ClosedRead(e, "OrderCancel", seen)
    /\ e \in CancelNamesOrder => s \notin {0, 1}
    /\ (e \in CancelNamesOrder /\ seen = "cancelled") => s \in {3, 4}

GetRead(e, says) ==
  \A seen \in {"open", "partly", "done", "cancelled"} : \A s \in says.st[seen] :
    s \in Statuses /\ (s \in {2, 3, 4} => ClosedRead(e, "OrderGet", seen))

\* Exchanges whose cancels name their order list nothing that is over as open.
ListRead(e, m, says) ==
  \A seen \in {"open", "partly", "done", "cancelled"} : \A s \in says.st[seen] :
    /\ s \in Statuses
    /\ s \in {2, 3, 4} => ClosedRead(e, m, seen)
    /\ (e \in CancelNamesOrder /\ seen \in {"done", "cancelled"}) => s \notin {0, 1}

Ordering == Exchanges \ {"lbank"}

\* Each exchange in turn.
LEMMA PlacesRead == \A e \in Ordering : PlaceRead(e, OrderAnswers[e].place)
  <1> USE DEF PlaceRead, PlaceSays, Statuses, Out, Failure, ClosedRead, TakesForClosed, Live, Over,
              PlacesInSilence
  <1>1. PlaceRead("binance", OrderAnswers["binance"].place)
    BY DEF OrderAnswers, BinanceOrderAnswers
  <1>2. PlaceRead("bitfinex", OrderAnswers["bitfinex"].place)
    BY DEF OrderAnswers, BitfinexOrderAnswers
  <1>3. PlaceRead("bittrex", OrderAnswers["bittrex"].place)
    BY DEF OrderAnswers, BittrexOrderAnswers
  <1>4. PlaceRead("cexio", OrderAnswers["cexio"].place)
    BY DEF OrderAnswers, CexioOrderAnswers
  <1>5. PlaceRead("exmo", OrderAnswers["exmo"].place)
    BY DEF OrderAnswers, ExmoOrderAnswers
  <1>6. PlaceRead("hitbtc", OrderAnswers["hitbtc"].place)
    BY DEF OrderAnswers, HitbtcOrderAnswers
  <1>7. PlaceRead("huobi", OrderAnswers["huobi"].place)
    BY DEF OrderAnswers, HuobiOrderAnswers
  <1>8. PlaceRead("idcm", OrderAnswers["idcm"].place)
    BY DEF OrderAnswers, IDCMOrderAnswers
  <1>9. PlaceRead("kraken", OrderAnswers["kraken"].place)
    BY DEF OrderAnswers, KrakenOrderAnswers
  <1>10. PlaceRead("kucoin", OrderAnswers["kucoin"].place)
    BY DEF OrderAnswers, KuCoinOrderAnswers
  <1>11. PlaceRead("lakebtc", OrderAnswers["lakebtc"].place)
    BY DEF OrderAnswers, LakeBTCOrderAnswers
  <1>12. PlaceRead("livecoin", OrderAnswers["livecoin"].place)
    BY DEF OrderAnswers, LivecoinOrderAnswers
  <1>13. PlaceRead("okcoin", OrderAnswers["okcoin"].place)
    BY DEF OrderAnswers, OkcoinOrderAnswers
  <1>14. PlaceRead("zb", OrderAnswers["zb"].place)
    BY DEF OrderAnswers, ZBOrderAnswers
  <1> HIDE DEF PlaceRead
  <1> QED
    BY <1>1, <1>2, <1>3, <1>4, <1>5, <1>6, <1>7, <1>8, <1>9, <1>10, <1>11, <1>12, <1>13, <1>14 DEF Ordering, Exchanges

LEMMA CancelsRead == \A e \in Ordering : CancelRead(e, OrderAnswers[e].cancel)
  <1> USE DEF CancelRead, CancelSays, Statuses, Out, Failure, ClosedRead, TakesForClosed, Live, Over,
              CancelNamesOrder
  <1>1. CancelRead("binance", OrderAnswers["binance"].cancel)
    BY DEF OrderAnswers, BinanceOrderAnswers
  <1>2. CancelRead("bitfinex", OrderAnswers["bitfinex"].cancel)
    BY DEF OrderAnswers, BitfinexOrderAnswers
  <1>3. CancelRead("bittrex", OrderAnswers["bittrex"].cancel)
    BY DEF OrderAnswers, BittrexOrderAnswers
  <1>4. CancelRead("cexio", OrderAnswers["cexio"].cancel)
    BY DEF OrderAnswers, CexioOrderAnswers
  <1>5. CancelRead("exmo", OrderAnswers["exmo"].cancel)
    BY DEF OrderAnswers, ExmoOrderAnswers
  <1>6. CancelRead("hitbtc", OrderAnswers["hitbtc"].cancel)
    BY DEF OrderAnswers, HitbtcOrderAnswers
  <1>7. CancelRead("huobi", OrderAnswers["huobi"].cancel)
    BY DEF OrderAnswers, HuobiOrderAnswers
  <1>8. CancelRead("idcm", OrderAnswers["idcm"].cancel)
    BY DEF OrderAnswers, IDCMOrderAnswers
  <1>9. CancelRead("kraken", OrderAnswers["kraken"].cancel)
    BY DEF OrderAnswers, KrakenOrderAnswers
  <1>10. CancelRead("kucoin", OrderAnswers["kucoin"].cancel)
    BY DEF OrderAnswers, KuCoinOrderAnswers
  <1>11. CancelRead("lakebtc", OrderAnswers["lakebtc"].cancel)
    BY DEF OrderAnswers, LakeBTCOrderAnswers
  <1>12. CancelRead("livecoin", OrderAnswers["livecoin"].cancel)
    BY DEF OrderAnswers, LivecoinOrderAnswers
  <1>13. CancelRead("okcoin", OrderAnswers["okcoin"].cancel)
    BY DEF OrderAnswers, OkcoinOrderAnswers
  <1>14. CancelRead("zb", OrderAnswers["zb"].cancel)
    BY DEF OrderAnswers, ZBOrderAnswers
  <1> HIDE DEF CancelRead
  <1> QED
    BY <1>1, <1>2, <1>3, <1>4, <1>5, <1>6, <1>7, <1>8, <1>9, <1>10, <1>11, <1>12, <1>13, <1>14 DEF Ordering, Exchanges

LEMMA GetsRead == \A e \in Ordering : GetRead(e, OrderAnswers[e].get)
  <1> USE DEF GetRead, GetSays, Says, Statuses, Out, Failure, ClosedRead, TakesForClosed, Live, Over
  <1>1. GetRead("binance", OrderAnswers["binance"].get)
    BY DEF OrderAnswers, BinanceOrderAnswers
  <1>2. GetRead("bitfinex", OrderAnswers["bitfinex"].get)
    BY DEF OrderAnswers, BitfinexOrderAnswers
  <1>3. GetRead("bittrex", OrderAnswers["bittrex"].get)
    BY DEF OrderAnswers, BittrexOrderAnswers
  <1>4. GetRead("cexio", OrderAnswers["cexio"].get)
    BY DEF OrderAnswers, CexioOrderAnswers
  <1>5. GetRead("exmo", OrderAnswers["exmo"].get)
    BY DEF OrderAnswers, ExmoOrderAnswers
  <1>6. GetRead("hitbtc", OrderAnswers["hitbtc"].get)
    BY DEF OrderAnswers, HitbtcOrderAnswers
  <1>7. GetRead("huobi", OrderAnswers["huobi"].get)
    BY DEF OrderAnswers, HuobiOrderAnswers
  <1>8. GetRead("idcm", OrderAnswers["idcm"].get)
    BY DEF OrderAnswers, IDCMOrderAnswers
  <1>9. GetRead("kraken", OrderAnswers["kraken"].get)
    BY DEF OrderAnswers, KrakenOrderAnswers
  <1>10. GetRead("kucoin", OrderAnswers["kucoin"].get)
    BY DEF OrderAnswers, KuCoinOrderAnswers
  <1>11. GetRead("lakebtc", OrderAnswers["lakebtc"].get)
    BY DEF OrderAnswers, LakeBTCOrderAnswers
  <1>12. GetRead("livecoin", OrderAnswers["livecoin"].get)
    BY DEF OrderAnswers, LivecoinOrderAnswers
  <1>13. GetRead("okcoin", OrderAnswers["okcoin"].get)
    BY DEF OrderAnswers, OkcoinOrderAnswers
  <1>14. GetRead("zb", OrderAnswers["zb"].get)
    BY DEF OrderAnswers, ZBOrderAnswers
  <1> HIDE DEF GetRead
  <1> QED
    BY <1>1, <1>2, <1>3, <1>4, <1>5, <1>6, <1>7, <1>8, <1>9, <1>10, <1>11, <1>12, <1>13, <1>14 DEF Ordering, Exchanges

LEMMA OpenListsRead ==
  \A e \in Ordering : ListRead(e, "TradeOpenOrders", ListAnswers[e].active)
  <1> USE DEF ListRead, Says, Statuses, Out, Failure, ClosedRead, TakesForClosed, Live, Over,
              CancelNamesOrder
  <1>1. ListRead("binance", "TradeOpenOrders", ListAnswers["binance"].active)
    BY DEF ListAnswers, BinanceListAnswers
  <1>2. ListRead("bitfinex", "TradeOpenOrders", ListAnswers["bitfinex"].active)
    BY DEF ListAnswers, BitfinexListAnswers
  <1>3. ListRead("bittrex", "TradeOpenOrders", ListAnswers["bittrex"].active)
    BY DEF ListAnswers, BittrexListAnswers
  <1>4. ListRead("cexio", "TradeOpenOrders", ListAnswers["cexio"].active)
    BY DEF ListAnswers, CexioListAnswers
  <1>5. ListRead("exmo", "TradeOpenOrders", ListAnswers["exmo"].active)
    BY DEF ListAnswers, ExmoListAnswers
  <1>6. ListRead("hitbtc", "TradeOpenOrders", ListAnswers["hitbtc"].active)
    BY DEF ListAnswers, HitbtcListAnswers
  <1>7. ListRead("huobi", "TradeOpenOrders", ListAnswers["huobi"].active)
    BY DEF ListAnswers, HuobiListAnswers
  <1>8. ListRead("idcm", "TradeOpenOrders", ListAnswers["idcm"].active)
    BY DEF ListAnswers, IDCMListAnswers
  <1>9. ListRead("kraken", "TradeOpenOrders", ListAnswers["kraken"].active)
    BY DEF ListAnswers, KrakenListAnswers
  <1>10. ListRead("kucoin", "TradeOpenOrders", ListAnswers["kucoin"].active)
    BY DEF ListAnswers, KuCoinListAnswers
  <1>11. ListRead("lakebtc", "TradeOpenOrders", ListAnswers["lakebtc"].active)
    BY DEF ListAnswers, LakeBTCListAnswers
  <1>12. ListRead("livecoin", "TradeOpenOrders", ListAnswers["livecoin"].active)
    BY DEF ListAnswers, LivecoinListAnswers
  <1>13. ListRead("okcoin", "TradeOpenOrders", ListAnswers["okcoin"].active)
    BY DEF ListAnswers, OkcoinListAnswers
  <1>14. ListRead("zb", "TradeOpenOrders", ListAnswers["zb"].active)
    BY DEF ListAnswers, ZBListAnswers
  <1> HIDE DEF ListRead
  <1> QED
    BY <1>1, <1>2, <1>3, <1>4, <1>5, <1>6, <1>7, <1>8, <1>9, <1>10, <1>11, <1>12, <1>13, <1>14 DEF Ordering, Exchanges

LEMMA HistoriesRead ==
  \A e \in Ordering : ListRead(e, "TradeHistory", ListAnswers[e].history)
  <1> USE DEF ListRead, Says, Statuses, Out, Failure, ClosedRead, TakesForClosed, Live, Over,
              CancelNamesOrder
  <1>1. ListRead("binance", "TradeHistory", ListAnswers["binance"].history)
    BY DEF ListAnswers, BinanceListAnswers
  <1>2. ListRead("bitfinex", "TradeHistory", ListAnswers["bitfinex"].history)
    BY DEF ListAnswers, BitfinexListAnswers
  <1>3. ListRead("bittrex", "TradeHistory", ListAnswers["bittrex"].history)
    BY DEF ListAnswers, BittrexListAnswers
  <1>4. ListRead("cexio", "TradeHistory", ListAnswers["cexio"].history)
    BY DEF ListAnswers, CexioListAnswers
  <1>5. ListRead("exmo", "TradeHistory", ListAnswers["exmo"].history)
    BY DEF ListAnswers, ExmoListAnswers
  <1>6. ListRead("hitbtc", "TradeHistory", ListAnswers["hitbtc"].history)
    BY DEF ListAnswers, HitbtcListAnswers
  <1>7. ListRead("huobi", "TradeHistory", ListAnswers["huobi"].history)
    BY DEF ListAnswers, HuobiListAnswers
  <1>8. ListRead("idcm", "TradeHistory", ListAnswers["idcm"].history)
    BY DEF ListAnswers, IDCMListAnswers
  <1>9. ListRead("kraken", "TradeHistory", ListAnswers["kraken"].history)
    BY DEF ListAnswers, KrakenListAnswers
  <1>10. ListRead("kucoin", "TradeHistory", ListAnswers["kucoin"].history)
    BY DEF ListAnswers, KuCoinListAnswers
  <1>11. ListRead("lakebtc", "TradeHistory", ListAnswers["lakebtc"].history)
    BY DEF ListAnswers, LakeBTCListAnswers
  <1>12. ListRead("livecoin", "TradeHistory", ListAnswers["livecoin"].history)
    BY DEF ListAnswers, LivecoinListAnswers
  <1>13. ListRead("okcoin", "TradeHistory", ListAnswers["okcoin"].history)
    BY DEF ListAnswers, OkcoinListAnswers
  <1>14. ListRead("zb", "TradeHistory", ListAnswers["zb"].history)
    BY DEF ListAnswers, ZBListAnswers
  <1> HIDE DEF ListRead
  <1> QED
    BY <1>1, <1>2, <1>3, <1>4, <1>5, <1>6, <1>7, <1>8, <1>9, <1>10, <1>11, <1>12, <1>13, <1>14 DEF Ordering, Exchanges

\* The answers that name their order.
Naming(says) == says.named = {TRUE}

LEMMA PlacesNamed ==
  \A e \in Ordering \ PlacesInSilence : Naming(OrderAnswers[e].place)
  <1> USE DEF Naming, PlaceSays, Named
  <1>1. Naming(OrderAnswers["binance"].place)
    BY DEF OrderAnswers, BinanceOrderAnswers
  <1>2. Naming(OrderAnswers["bittrex"].place)
    BY DEF OrderAnswers, BittrexOrderAnswers
  <1>3. Naming(OrderAnswers["cexio"].place)
    BY DEF OrderAnswers, CexioOrderAnswers
  <1>4. Naming(OrderAnswers["exmo"].place)
    BY DEF OrderAnswers, ExmoOrderAnswers
  <1>5. Naming(OrderAnswers["hitbtc"].place)
    BY DEF OrderAnswers, HitbtcOrderAnswers
  <1>6. Naming(OrderAnswers["kraken"].place)
    BY DEF OrderAnswers, KrakenOrderAnswers
  <1>7. Naming(OrderAnswers["kucoin"].place)
    BY DEF OrderAnswers, KuCoinOrderAnswers
  <1>8. Naming(OrderAnswers["livecoin"].place)
    BY DEF OrderAnswers, LivecoinOrderAnswers
  <1>9. Naming(OrderAnswers["zb"].place)
    BY DEF OrderAnswers, ZBOrderAnswers
  <1> HIDE DEF Naming
  <1> QED
    BY <1>1, <1>2, <1>3, <1>4, <1>5, <1>6, <1>7, <1>8, <1>9 DEF Ordering, Exchanges, PlacesInSilence

LEMMA CancelsNamed ==
  \A e \in CancelNamesOrder : Naming(OrderAnswers[e].cancel)
  <1> USE DEF Naming, CancelSays, Named
  <1>1. Naming(OrderAnswers["binance"].cancel)
    BY DEF OrderAnswers, BinanceOrderAnswers
  <1>2. Naming(OrderAnswers["bittrex"].cancel)
    BY DEF OrderAnswers, BittrexOrderAnswers
  <1>3. Naming(OrderAnswers["hitbtc"].cancel)
    BY DEF OrderAnswers, HitbtcOrderAnswers
  <1>4. Naming(OrderAnswers["huobi"].cancel)
    BY DEF OrderAnswers, HuobiOrderAnswers
  <1>5. Naming(OrderAnswers["zb"].cancel)
    BY DEF OrderAnswers, ZBOrderAnswers
  <1> HIDE DEF Naming
  <1> QED
    BY <1>1, <1>2, <1>3, <1>4, <1>5 DEF CancelNamesOrder

\* Lbank's client has no method that asks about orders.
LEMMA LbankIsSilent ==
  ASSUME NEW m \in OrderMethods \cup ListMethods, NEW keys
  PROVE  ~SendsRequest("lbank", m, keys)
  <1>1. Clients["lbank"] = LbankMethods
    BY DEF Clients
  <1>2. DOMAIN LbankMethods = {"WithdrawCreate", "GetBalances"}
    BY DEF LbankMethods, Unmarked
  <1>3. m \notin DOMAIN Clients["lbank"]
    BY <1>1, <1>2 DEF OrderMethods, ListMethods
  <1> QED BY <1>3 DEF SendsRequest, Method, Silent

-----------------------------------------------------------------------------
(* Items *)

LEMMA ReadsStatus ==
  ASSUME NEW s \in Statuses \ {Out, Failure}
  PROVE  Read(s) \in 1 .. 3 /\ (Read(s) > 1 <=> s \in {2, 3, 4}) /\ (Read(s) <= 1 <=> s \in {0, 1})
  <1>1. s \in {0, 1, 2, 3, 4}
    BY DEF Statuses, Out, Failure
  <1> QED BY <1>1 DEF Read

\* An item is a record of its order, or of none.
LEMMA ItemMade ==
  ASSUME NEW says, NEW r \in Remote, NEW s \in Statuses \ {Out, Failure}, NEW i \in Items(says, r, s)
  PROVE  /\ i \in Record /\ i.st = Read(s) /\ i.rid \in {r, NoRemote}
         /\ Naming(says) => i.rid = r
  <1>1. PICK named \in says.named : i \in {[rid |-> IF named THEN r ELSE NoRemote, lid |-> l, st |-> Read(s)] :
                                             l \in UNION {LocalId(r, lid, named) : lid \in says.lid}}
    BY DEF Items
  <1>2. PICK l \in UNION {LocalId(r, lid, named) : lid \in says.lid} :
          i = [rid |-> IF named THEN r ELSE NoRemote, lid |-> l, st |-> Read(s)]
    BY <1>1
  <1>3. PICK lid \in says.lid : l \in LocalId(r, lid, named)
    BY <1>2
  <1>4. Read(s) \in 1 .. 3
    BY ReadsStatus
  <1>5. /\ OwnId[r] \in LocalIds[r] /\ r \in LocalIds[r] /\ Blank \in LocalIds[r]
        /\ OwnId[r] \in LocalIds[NoRemote] /\ Blank \in LocalIds[NoRemote]
        /\ LocalIds[r] \subseteq Local /\ LocalIds[NoRemote] \subseteq Local
    BY OrdersOK, IdsOK
  <1>6. CASE named
    <2>1. l \in {OwnId[r], Blank, r}
      BY <1>3, <1>6 DEF LocalId
    <2>2. i = [rid |-> r, lid |-> l, st |-> Read(s)]
      BY <1>2, <1>6
    <2> QED BY <1>4, <1>5, <2>1, <2>2 DEF Record, Ids, Status
  <1>7. CASE ~named
    <2>1. l \in {OwnId[r], Blank}
      BY <1>3, <1>7 DEF LocalId
    <2>2. i = [rid |-> NoRemote, lid |-> l, st |-> Read(s)]
      BY <1>2, <1>7
    <2>3. ASSUME Naming(says) PROVE FALSE
      <3>1. named = TRUE
        BY <1>1, <2>3 DEF Naming
      <3> QED BY <3>1, <1>7
    <2> QED BY <1>4, <1>5, <2>1, <2>2, <2>3 DEF Record, Ids, Status
  <1> QED BY <1>6, <1>7

-----------------------------------------------------------------------------
(* The exchange *)

\* No order goes back.
Onward == \A r \in Remote : real[r] = "none" \/ real'[r] \in Since(real[r])

LEMMA SinceGoesOn ==
  ASSUME NEW s \in States \ {"none"}, NEW a \in Since(s), NEW b \in Since(a)
  PROVE  b \in Since(s) /\ a # "none"
  BY DEF Since, Live, Over, States

\* What the worker was told stays true as the orders go on.
LEMMA OnwardKeepsTold ==
  ASSUME Onward, UNCHANGED <<ex, misread>>, NEW r \in Remote
  PROVE  /\ Accepted(r) => Accepted(r)'
         /\ Ended(r) => Ended(r)'
         /\ \A s \in States \ {"none"} : real[r] \in Since(s) => real'[r] \in Since(s)
         /\ real[r] \in Live \cup Over => real'[r] \in Live \cup Over
  <1>1. real[r] = "none" \/ real'[r] \in Since(real[r])
    BY DEF Onward
  <1>2. Accepted(r) => Accepted(r)'
    BY <1>1 DEF Accepted, Since, Live, Over
  <1>3. Ended(r) => Ended(r)'
    BY <1>1 DEF Ended, Since, Live, Over
  <1>4. ASSUME NEW s \in States \ {"none"}, real[r] \in Since(s)
        PROVE  real'[r] \in Since(s)
    BY <1>1, <1>4 DEF Since, Live, Over, States
  <1>5. real[r] \in Live \cup Over => real'[r] \in Live \cup Over
    BY <1>1 DEF Since, Live, Over
  <1> QED BY <1>2, <1>3, <1>4, <1>5

\* A request, or a filling: the worker learns nothing yet.
LEMMA OutsideKeeps ==
  ASSUME IInv, Quiet, UNCHANGED <<storage, ex, items, late, misread>>,
         real' \in [Remote -> States], Onward,
         replies \subseteq replies', ex = "lbank" => replies' = {},
         \A p \in replies' \ replies :
            IF p.m \in ListMethods THEN ListReplyTrue(p)' ELSE OrderReplyTrue(p)',
         \A r \in Remote : real'[r] = "cancelled" => real[r] = "cancelled" \/ CancelUnread(r)',
         \A r \in Remote :
            real'[r] \in Live \cup Over => real[r] \in Live \cup Over \/ PlaceUnread(r)'
  PROVE  IInv'
  <1>1. StorageInv'
    BY DEF IInv, StorageInv, StorageTypeOK, IndexesInRange, ListedOnce, ListsAgree, Slots, storage, indexes
  <1>2. RepliesTrue'
    <2> SUFFICES ASSUME NEW p \in replies, p \in replies'
                 PROVE  (IF p.m \in ListMethods THEN ListReplyTrue(p) ELSE OrderReplyTrue(p))'
      BY DEF RepliesTrue
    <2>1. CASE p.m \in ListMethods
      <3>1. ListReplyTrue(p)
        BY <2>1 DEF IInv, ExchangeInv, RepliesTrue
      <3>2. \A r \in DOMAIN p.seen : r \in Remote
        BY <3>1 DEF ListReplyTrue, ListReply
      <3>3. \A r \in DOMAIN p.seen : p.seen[r] \in Live \cup Over => real'[r] \in Since(p.seen[r])
        BY <3>1, <3>2, OnwardKeepsTold DEF ListReplyTrue, Live, Over, States
      <3> QED BY <2>1, <3>1, <3>3 DEF ListReplyTrue
    <2>2. CASE p.m \notin ListMethods
      <3>1. OrderReplyTrue(p)
        BY <2>2 DEF IInv, ExchangeInv, RepliesTrue
      <3>2. p.r \in Remote /\ p.seen \in States \ {"none"}
        BY <3>1 DEF OrderReplyTrue, Reply, Seen, States, Live, Over
      <3> QED BY <2>2, <3>1, <3>2, OnwardKeepsTold DEF OrderReplyTrue
    <2> QED BY <2>1, <2>2
  <1>3. ExchangeInv'
    BY <1>2 DEF IInv, ExchangeInv
  <1>4. ToldInv'
    <2>1. ItemsTrue'
      BY DEF ItemsTrue, Quiet
    <2>2. \A i \in Slots : ordersArray[i].rid \in Ids
      BY DEF IInv, StorageInv, StorageTypeOK, Slots, Record
    <2>3. RecordsTrue'
      <3>1. Slots' = Slots /\ ordersArray' = ordersArray
        BY DEF storage, Slots
      <3>2. ASSUME NEW i \in Slots PROVE Tells(ordersArray[i])'
        BY <2>2, <3>1, <3>2, OnwardKeepsTold DEF IInv, ToldInv, RecordsTrue, Tells, Ids
      <3> QED BY <3>1, <3>2 DEF RecordsTrue
    <2>4. Listed \ {NoRemote} \subseteq Remote
      BY DEF IInv, StorageInv, StorageTypeOK, IsMap, Listed, Ids
    <2>5. ListedIsAccepted'
      <3>1. \A r \in Listed \ {NoRemote} : Accepted(r)
        BY DEF IInv, ToldInv, ListedIsAccepted, Accepted
      <3>2. \A r \in Listed \ {NoRemote} : Accepted(r)'
        BY <2>4, <3>1, OnwardKeepsTold
      <3> QED BY <3>2 DEF ListedIsAccepted, Accepted, Listed, storage, indexes
    <2>6. ClosedIsOver'
      <3> SUFFICES ASSUME NEW r \in DOMAIN closedOrders \ {NoRemote},
                          r \in DOMAIN extId, Own(r)
                   PROVE  real'[r] \in Over \/ r \in misread
        BY DEF ClosedIsOver, Own, storage, indexes
      <3>1. Ended(r) /\ r \in Remote
        BY <2>4 DEF IInv, ToldInv, ClosedIsOver, Ended, Listed
      <3> QED BY <3>1, OnwardKeepsTold DEF Ended
    <2> QED BY <2>1, <2>3, <2>5, <2>6 DEF ToldInv
  <1>5. ComingInv'
    <2>1. /\ \A r \in Remote : CancelUnread(r) => CancelUnread(r)'
          /\ \A r \in Remote : PlaceUnread(r) => PlaceUnread(r)'
      BY DEF CancelUnread, PlaceUnread
    <2>2. CancelsComing'
      BY <2>1 DEF IInv, ComingInv, CancelsComing, storage, indexes
    <2>3. PlacesComing'
      BY <2>1 DEF IInv, ComingInv, PlacesComing, Listed, storage, indexes
    <2> QED BY <2>2, <2>3 DEF ComingInv
  <1> QED BY <1>1, <1>3, <1>4, <1>5 DEF IInv

-----------------------------------------------------------------------------
(* Requests *)

LEMMA PlaceKeeps ==
  ASSUME IInv, NEW r \in Remote, Place(r)
  PROVE  IInv'
  <1>1. PICK s \in {"refused", "open", "partly", "done"} :
          /\ real' = [real EXCEPT ![r] = s]
          /\ replies' = replies \cup {[m |-> "OrderPlace", r |-> r, seen |-> s]}
    BY DEF Place
  <1> DEFINE p == [m |-> "OrderPlace", r |-> r, seen |-> s]
  <1>2. Quiet /\ real[r] = "none" /\ UNCHANGED <<storage, ex, items, late, misread>>
    BY DEF Place, exchange
  <1>3. real \in [Remote -> States] /\ real' \in [Remote -> States] /\ real'[r] = s
    BY <1>1 DEF IInv, ExchangeInv, States, Live, Over
  <1>4. Onward
    BY <1>1, <1>2, <1>3 DEF Onward, Since, States, Live, Over
  <1>5. ex # "lbank"
    BY LbankIsSilent DEF Place, OrderMethods
  <1>6. OrderReplyTrue(p)' /\ p.m \notin ListMethods
    BY <1>3 DEF OrderReplyTrue, Reply, Seen, States, Since, Live, Over, ListMethods
  <1>7. real'[r] = "cancelled" => FALSE
    BY <1>3
  <1>8. real'[r] \in Live \cup Over => PlaceUnread(r)'
    <2>1. p \in replies' /\ p.m = "OrderPlace" /\ p.r = r /\ p.seen = s
      BY <1>1
    <2> HIDE DEF p
    <2>2. ASSUME s # "refused" PROVE PlaceUnread(r)'
      BY <2>1, <2>2 DEF PlaceUnread, Live, Over
    <2> QED BY <1>3, <2>2 DEF Live, Over
  <1>9. \A q \in Remote : q # r => real'[q] = real[q]
    BY <1>1, <1>3
  <1> HIDE DEF p
  <1>10. \A q \in replies' \ replies : q = p
    BY <1>1 DEF p
  <1> QED BY <1>1, <1>2, <1>3, <1>4, <1>5, <1>6, <1>7, <1>8, <1>9, <1>10, OutsideKeeps

LEMMA CancelKeeps ==
  ASSUME IInv, NEW r \in Remote, Cancel(r)
  PROVE  IInv'
  <1>a. PICK done \in BOOLEAN :
          /\ done => real[r] \in Live
          /\ real' = [real EXCEPT ![r] = IF done THEN "cancelled" ELSE @]
          /\ replies' = replies \cup {[m |-> "OrderCancel", r |-> r,
                                       seen |-> IF done THEN "cancelled" ELSE "refused"]}
    BY DEF Cancel
  <1>0. PICK p : p = [m |-> "OrderCancel", r |-> r, seen |-> IF done THEN "cancelled" ELSE "refused"]
    OBVIOUS
  <1>1. /\ real' = [real EXCEPT ![r] = IF done THEN "cancelled" ELSE @]
        /\ replies' = replies \cup {p}
        /\ Quiet /\ real[r] \in Live \cup Over /\ UNCHANGED <<storage, ex, items, late, misread>>
    BY <1>a, <1>0 DEF Cancel, exchange
  <1>2. /\ real \in [Remote -> States] /\ real' \in [Remote -> States]
        /\ real'[r] = IF done THEN "cancelled" ELSE real[r]
        /\ \A q \in Remote : q # r => real'[q] = real[q]
    BY <1>1 DEF IInv, ExchangeInv, States, Live, Over
  <1>3. Onward
    BY <1>a, <1>1, <1>2 DEF Onward, Since, States, Live, Over
  <1>4. ex # "lbank"
    BY LbankIsSilent DEF Cancel, OrderMethods
  <1>5. OrderReplyTrue(p)' /\ p.m \notin ListMethods
    BY <1>0, <1>1, <1>2 DEF OrderReplyTrue, Reply, Seen, States, Since, Live, Over, ListMethods
  <1>6. real'[r] = "cancelled" => real[r] = "cancelled" \/ CancelUnread(r)'
    <2>1. p \in replies' /\ p.m = "OrderCancel" /\ p.r = r
      BY <1>0, <1>1
    <2>2. CASE done
      <3>1. p.seen = "cancelled"
        BY <1>0, <2>2
      <3> QED BY <2>1, <3>1 DEF CancelUnread
    <2> QED BY <1>1, <1>2, <2>2
  <1> QED BY <1>1, <1>2, <1>3, <1>4, <1>5, <1>6, OutsideKeeps

LEMMA GetKeeps ==
  ASSUME IInv, NEW r \in Remote, Get(r)
  PROVE  IInv'
  <1>0. PICK p : p = [m |-> "OrderGet", r |-> r, seen |-> real[r]]
    OBVIOUS
  <1>1. /\ replies' = replies \cup {p} /\ real' = real
        /\ Quiet /\ real[r] \in Live \cup Over /\ UNCHANGED <<storage, ex, items, late, misread>>
    BY <1>0 DEF Get, exchange
  <1>2. real \in [Remote -> States]
    BY DEF IInv, ExchangeInv
  <1>3. Onward
    BY <1>1, <1>2 DEF Onward, Since, States, Live, Over
  <1>4. ex # "lbank"
    BY LbankIsSilent DEF Get, OrderMethods
  <1>5. OrderReplyTrue(p)' /\ p.m \notin ListMethods
    BY <1>0, <1>1, <1>2 DEF OrderReplyTrue, Reply, Seen, States, Since, Live, Over, ListMethods
  <1> QED BY <1>1, <1>2, <1>3, <1>4, <1>5, OutsideKeeps

LEMMA ListKeeps ==
  ASSUME IInv, NEW m \in ListMethods, NEW scope \in SUBSET Remote, List(m, scope)
  PROVE  IInv'
  <1>0. PICK p : p = [m |-> m, seen |-> [r \in scope |-> real[r]]]
    OBVIOUS
  <1>1. /\ replies' = replies \cup {p} /\ real' = real
        /\ Quiet /\ UNCHANGED <<storage, ex, items, late, misread>>
    BY <1>0 DEF List, exchange
  <1>2. real \in [Remote -> States]
    BY DEF IInv, ExchangeInv
  <1>3. Onward
    BY <1>1, <1>2 DEF Onward, Since, States, Live, Over
  <1>4. ex # "lbank"
    BY LbankIsSilent DEF List
  <1>5. ListReplyTrue(p)' /\ p.m \in ListMethods
    <2>1. p \in ListReply
      <3>1. p.seen \in [scope -> States]
        BY <1>0, <1>2
      <3> QED BY <1>0, <3>1 DEF ListReply
    <2>2. \A r \in scope : real[r] \in Since(real[r])
      BY <1>2 DEF Since, States, Live, Over
    <2> QED BY <1>0, <1>1, <2>1, <2>2 DEF ListReplyTrue
  <1> QED BY <1>1, <1>2, <1>3, <1>4, <1>5, OutsideKeeps

LEMMA FillKeeps ==
  ASSUME IInv, NEW r \in Remote, Fill(r)
  PROVE  IInv'
  <1>1. PICK s \in {"partly", "done"} : s # real[r] /\ real' = [real EXCEPT ![r] = s]
    BY DEF Fill
  <1>2. Quiet /\ real[r] \in Live /\ UNCHANGED <<storage, ex, items, late, misread, replies>>
    BY DEF Fill, exchange
  <1>3. /\ real \in [Remote -> States] /\ real' \in [Remote -> States] /\ real'[r] = s
        /\ \A q \in Remote : q # r => real'[q] = real[q]
    BY <1>1 DEF IInv, ExchangeInv, States, Live, Over
  <1>4. Onward
    BY <1>1, <1>2, <1>3 DEF Onward, Since, States, Live, Over
  <1>5. ex = "lbank" => replies' = {}
    BY <1>2 DEF IInv, ExchangeInv
  <1> QED BY <1>2, <1>3, <1>4, <1>5, OutsideKeeps

LEMMA PollKeeps ==
  ASSUME IInv, RequestActives \/ RequestHistory
  PROVE  IInv'
  <1>1. CASE RequestActives
    <2>1. PICK scope \in PollScopes : List("TradeOpenOrders", scope)
      BY <1>1 DEF RequestActives
    <2>2. scope \in SUBSET Remote
      BY DEF PollScopes
    <2> QED BY <2>1, <2>2, ListKeeps DEF ListMethods
  <1>2. CASE RequestHistory
    BY <1>2, ListKeeps DEF RequestHistory, ListMethods
  <1> QED BY <1>1, <1>2

-----------------------------------------------------------------------------
(* Answers *)

\* An answer is read: its items are true, and what was on the way in it is an
\* item now.
LEMMA AnswerKeeps ==
  ASSUME IInv, Quiet, NEW p \in replies, replies' = replies \ {p},
         UNCHANGED <<storage, ex, real>>, late \subseteq late', misread \subseteq misread',
         \A i \in items' : i \in Record /\ Tells(i)' /\ TellsCancel(i)',
         (p.m = "OrderCancel" /\ p.seen = "cancelled" /\ ex \in CancelNamesOrder)
            => \E i \in items' : i.rid = p.r /\ i.st > 1,
         (p.m = "OrderPlace" /\ p.seen \in Live \cup {"done"} /\ ex \notin PlacesInSilence)
            => \E i \in items' : i.rid = p.r
  PROVE  IInv'
  <1>1. StorageInv'
    BY DEF IInv, StorageInv, StorageTypeOK, IndexesInRange, ListedOnce, ListsAgree, Slots, storage, indexes
  <1>2. ExchangeInv'
    <2>1. RepliesTrue'
      BY DEF IInv, ExchangeInv, RepliesTrue, ListReplyTrue, OrderReplyTrue
    <2> QED BY <2>1 DEF IInv, ExchangeInv
  <1>3. ToldInv'
    <2>2. ItemsTrue'
      BY DEF ItemsTrue
    <2>3. RecordsTrue'
      BY DEF IInv, ToldInv, RecordsTrue, Tells, Accepted, Ended, Slots, storage
    <2>4. ListedIsAccepted' /\ ClosedIsOver'
      BY DEF IInv, ToldInv, ListedIsAccepted, ClosedIsOver, Listed, Own, storage, indexes
    <2> QED BY <2>2, <2>3, <2>4 DEF ToldInv
  <1>4. CancelsComing'
    <2> SUFFICES ASSUME NEW r \in Remote, real[r] = "cancelled", ex \in CancelNamesOrder
                 PROVE  \/ r \in DOMAIN closedOrders \cup late'
                        \/ CancelUnread(r)'
                        \/ \E i \in items' : i.rid = r /\ i.st > 1
      BY DEF CancelsComing, storage, indexes
    <2>1. r \in DOMAIN closedOrders \cup late \/ CancelUnread(r)
      BY DEF IInv, ComingInv, CancelsComing, Quiet
    <2>2. CASE CancelUnread(r) /\ ~(p.m = "OrderCancel" /\ p.r = r /\ p.seen = "cancelled")
      BY <2>2 DEF CancelUnread
    <2> QED BY <2>1, <2>2
  <1>5. PlacesComing'
    <2> SUFFICES ASSUME NEW r \in Remote, real[r] \in Live \cup Over, ex \notin PlacesInSilence
                 PROVE  r \in Listed \/ PlaceUnread(r)' \/ \E i \in items' : i.rid = r
      BY DEF PlacesComing, Listed, storage, indexes
    <2>1. r \in Listed \/ PlaceUnread(r)
      BY DEF IInv, ComingInv, PlacesComing, Quiet
    <2>2. CASE PlaceUnread(r) /\ ~(p.m = "OrderPlace" /\ p.r = r /\ p.seen \in Live \cup {"done"})
      BY <2>2 DEF PlaceUnread
    <2> QED BY <2>1, <2>2
  <1> QED BY <1>1, <1>2, <1>3, <1>4, <1>5 DEF IInv, ComingInv

\* An order that an answer calls closed is over, or about to be noted as misread.
ClosedTrue(m, r, seen) == real[r] \in Over \/ seen \in TakesForClosed(ex, m)

LEMMA ClosedReadTrue ==
  ASSUME NEW r \in Remote, NEW m, NEW seen, ClosedRead(ex, m, seen), real[r] \in Since(seen)
  PROVE  ClosedTrue(m, r, seen)
  BY DEF ClosedRead, ClosedTrue, Since, Live, Over

\* Only EXMO's history asks the cache.
LEMMA MisreadIs ==
  ASSUME NEW m, NEW r, m = "TradeHistory" => ~(ex = "exmo" /\ r \in opn_orders_cache)
  PROVE  Misread(m, r) = TakesForClosed(ex, m)
  BY DEF Misread, TakesForClosed

\* What the answer to place, cancel or get says is true, and says enough.
OrderAnswerTells(p, s) ==
  /\ Published(p.m, s) =>
      /\ s \in Statuses \ {Out, Failure}
      /\ Accepted(p.r)
      /\ s \in {2, 3, 4} => ClosedTrue(p.m, p.r, p.seen)
      /\ (s \in {0, 1} /\ ex \in CancelNamesOrder /\ real[p.r] = "cancelled")
           => p.seen \in Live /\ p.m # "OrderCancel"
  /\ (p.m = "OrderCancel" /\ p.seen = "cancelled" /\ ex \in CancelNamesOrder)
      => Published(p.m, s) /\ s \in {3, 4} /\ Naming(Answers(p.m))
  /\ (p.m = "OrderPlace" /\ p.seen \in Live \cup {"done"} /\ ex \notin PlacesInSilence)
      => Published(p.m, s) /\ Naming(Answers(p.m))

LEMMA OrderAnswerRead ==
  ASSUME ex \in Ordering, NEW p, p.m \notin ListMethods, OrderReplyTrue(p),
         NEW s \in Answers(p.m).st[p.seen]
  PROVE  OrderAnswerTells(p, s)
  <1>1. p.r \in Remote /\ p.m \in {"OrderPlace", "OrderCancel", "OrderGet"}
    BY DEF OrderReplyTrue, Reply
  <1>2. CASE p.m = "OrderPlace"
    <2>1. s \in OrderAnswers[ex].place.st[p.seen] /\ PlaceRead(ex, OrderAnswers[ex].place)
      BY <1>2, PlacesRead DEF Answers
    <2>2. p.seen \in {"refused", "open", "partly", "done"} /\ real[p.r] \in Since(p.seen)
      BY <1>2 DEF OrderReplyTrue, Seen
    <2>3. /\ s \in Statuses
          /\ (p.seen = "refused" /\ ex # "okcoin") => s \notin {1, 2}
          /\ s = 2 => ClosedRead(ex, p.m, p.seen)
          /\ (p.seen # "refused" /\ ex \notin PlacesInSilence) => s \in {1, 2}
      BY <1>2, <2>1, <2>2 DEF PlaceRead
    <2>4. Published(p.m, s) <=> s \in {1, 2}
      BY <1>2 DEF Published
    <2>5. Published(p.m, s) => Accepted(p.r)
      BY <2>2, <2>3, <2>4 DEF Accepted, Since, Live, Over
    <2>6. s = 2 => ClosedTrue(p.m, p.r, p.seen)
      BY <1>1, <2>2, <2>3, ClosedReadTrue
    <2>7. (ex \in CancelNamesOrder /\ real[p.r] = "cancelled" /\ Published(p.m, s)) => p.seen \in Live
      BY <2>2, <2>3, <2>4 DEF CancelNamesOrder, Since, Live, Over
    <2>8. ex \notin PlacesInSilence => Naming(Answers(p.m))
      BY <1>2, PlacesNamed DEF Answers
    <2>9. p.seen \in Live \cup {"done"} => p.seen # "refused"
      BY DEF Live
    <2> QED BY <1>2, <2>3, <2>4, <2>5, <2>6, <2>7, <2>8, <2>9 DEF OrderAnswerTells, Statuses, Out, Failure
  <1>3. CASE p.m = "OrderCancel"
    <2>1. s \in OrderAnswers[ex].cancel.st[p.seen] /\ CancelRead(ex, OrderAnswers[ex].cancel)
      BY <1>3, CancelsRead DEF Answers
    <2>2. /\ p.seen \in {"refused", "cancelled"} /\ real[p.r] \in Live \cup Over
          /\ p.seen = "cancelled" => real[p.r] \in Over
      BY <1>3 DEF OrderReplyTrue, Seen, Since, Over
    <2>8. s \in {2, 3, 4} => ClosedRead(ex, "OrderCancel", p.seen)
      BY <2>1, <2>2 DEF CancelRead
    <2>3. /\ s \in Statuses \ {Out}
          /\ ex \in CancelNamesOrder => s \notin {0, 1}
          /\ (ex \in CancelNamesOrder /\ p.seen = "cancelled") => s \in {3, 4}
      BY <2>1, <2>2 DEF CancelRead
    <2>4. Published(p.m, s) <=> s # Failure
      BY <1>3 DEF Published
    <2>5. Accepted(p.r)
      BY <2>2 DEF Accepted, Live, Over
    <2>7. s \in {2, 3, 4} => ClosedTrue(p.m, p.r, p.seen)
      <3>1. p.seen \in Over => p.seen = "cancelled"
        BY <2>2 DEF Over
      <3> QED BY <1>3, <2>2, <2>8, <3>1 DEF ClosedRead, ClosedTrue
    <2>6. ex \in CancelNamesOrder => Naming(Answers(p.m))
      BY <1>3, CancelsNamed DEF Answers
    <2> QED BY <1>3, <2>3, <2>4, <2>5, <2>6, <2>7 DEF OrderAnswerTells, Statuses, Out, Failure
  <1>4. CASE p.m = "OrderGet"
    <2>1. s \in OrderAnswers[ex].get.st[p.seen] /\ GetRead(ex, OrderAnswers[ex].get)
      BY <1>4, GetsRead DEF Answers
    <2>2. p.seen \in Live \cup Over /\ real[p.r] \in Since(p.seen)
      BY <1>4 DEF OrderReplyTrue, Seen
    <2>3. s \in Statuses /\ (s \in {2, 3, 4} => ClosedRead(ex, p.m, p.seen))
      BY <1>4, <2>1, <2>2 DEF GetRead, Live, Over
    <2>4. Published(p.m, s) <=> s \in {2, 3, 4}
      BY <1>4 DEF Published
    <2>5. Accepted(p.r)
      BY <2>2 DEF Accepted, Since, Live, Over
    <2>6. s \in {2, 3, 4} => ClosedTrue(p.m, p.r, p.seen)
      BY <1>1, <2>2, <2>3, ClosedReadTrue
    <2> QED BY <1>4, <2>3, <2>4, <2>5, <2>6 DEF OrderAnswerTells, Statuses, Out, Failure
  <1> QED BY <1>1, <1>2, <1>3, <1>4

\* The answers of a list.
LEMMA ListAnswerRead ==
  ASSUME ex \in Ordering, NEW m \in ListMethods, NEW r \in Remote, NEW seen \in Live \cup Over,
         real[r] \in Since(seen), NEW s \in Answers(m).st[seen], Published(m, Cached(m, r, s))
  PROVE  /\ Cached(m, r, s) \in Statuses \ {Out, Failure}
         /\ Accepted(r)
         /\ Cached(m, r, s) \in {2, 3, 4} => real[r] \in Over \/ seen \in Misread(m, r)
         /\ (Cached(m, r, s) \in {0, 1} /\ ex \in CancelNamesOrder) => seen \in Live
  <1>1. ListRead(ex, m, Answers(m)) /\ m \in {"TradeOpenOrders", "TradeHistory"}
    BY OpenListsRead, HistoriesRead DEF Answers, ListMethods
  <1>2. /\ s \in Statuses
        /\ s \in {2, 3, 4} => ClosedRead(ex, m, seen)
        /\ (ex \in CancelNamesOrder /\ seen \in {"done", "cancelled"}) => s \notin {0, 1}
    BY <1>1 DEF ListRead, Live, Over
  <1>3. /\ Cached(m, r, s) = s /\ s \notin {Out, Failure}
        /\ m = "TradeHistory" => ~(ex = "exmo" /\ r \in opn_orders_cache)
    BY <1>1 DEF Cached, Published
  <1>4. Accepted(r)
    BY DEF Accepted, Since, Live, Over
  <1>5. Cached(m, r, s) \in {2, 3, 4} => real[r] \in Over \/ seen \in Misread(m, r)
    BY <1>2, <1>3, ClosedReadTrue, MisreadIs DEF ClosedTrue
  <1>6. (Cached(m, r, s) \in {0, 1} /\ ex \in CancelNamesOrder) => seen \in Live
    BY <1>2, <1>3 DEF CancelNamesOrder, Live, Over
  <1> QED BY <1>2, <1>3, <1>4, <1>5, <1>6 DEF Statuses, Out, Failure

\* An item tells what its answer told.
LEMMA ItemTells ==
  ASSUME NEW says, NEW r \in Remote, NEW s \in Statuses \ {Out, Failure}, NEW i \in Items(says, r, s),
         Accepted(r), (s \in {2, 3, 4} /\ i.st > 1) => real[r] \in Over \/ r \in misread',
         (s \in {0, 1} /\ ex \in CancelNamesOrder /\ real[r] = "cancelled")
            => r \in late' \/ CancelUnread(r)',
         ex' = ex, real' = real
  PROVE  /\ i \in Record /\ Tells(i)' /\ TellsCancel(i)'
         /\ Naming(says) => i.rid = r
         /\ s \in {3, 4} => i.st > 1
  <1>1. /\ i \in Record /\ i.st = Read(s) /\ i.rid \in {r, NoRemote}
        /\ Naming(says) => i.rid = r
    BY ItemMade
  <1>2. (i.st > 1 <=> s \in {2, 3, 4}) /\ (i.st <= 1 <=> s \in {0, 1})
    BY <1>1, ReadsStatus
  <1> QED BY <1>1, <1>2 DEF Tells, TellsCancel, Accepted, Ended

LEMMA ParseOrderKeeps ==
  ASSUME IInv, NEW p \in replies, ParseOrder(p)
  PROVE  IInv'
  <1>1. /\ Quiet /\ p.m \notin ListMethods /\ replies' = replies \ {p}
        /\ UNCHANGED <<storage, ex, real>>
        /\ late' = late \cup {r \in {p.r} : Outdated(p.m, r, p.seen)}
    BY DEF ParseOrder, exchange
  <1>2. PICK s \in Answers(p.m).st[p.seen] :
          IF Published(p.m, s)
          THEN \E i \in Items(Answers(p.m), p.r, s) :
                /\ items' = {i}
                /\ misread' = misread \cup {r \in {p.r} : i.st > 1 /\ p.seen \in Misread(p.m, r)}
          ELSE items' = {} /\ UNCHANGED misread
    BY DEF ParseOrder
  <1>3. OrderReplyTrue(p) /\ ex \in Ordering
    BY <1>1 DEF IInv, ExchangeInv, RepliesTrue, Ordering
  <1>4. p.r \in Remote
    BY <1>3 DEF OrderReplyTrue, Reply
  <1>5. OrderAnswerTells(p, s)
    BY <1>1, <1>3, OrderAnswerRead
  <1>6. ASSUME p.seen \in Live, p.m # "OrderCancel", real[p.r] = "cancelled"
        PROVE  p.r \in late' \/ CancelUnread(p.r)'
    BY <1>1, <1>6 DEF Outdated, CancelUnread
  <1>7. CASE Published(p.m, s)
    <2>1. PICK i \in Items(Answers(p.m), p.r, s) :
            /\ items' = {i}
            /\ misread' = misread \cup {r \in {p.r} : i.st > 1 /\ p.seen \in Misread(p.m, r)}
      BY <1>2, <1>7
    <2>2. s \in Statuses \ {Out, Failure}
      BY <1>5, <1>7 DEF OrderAnswerTells
    <2>3. (s \in {2, 3, 4} /\ i.st > 1) => real[p.r] \in Over \/ p.r \in misread'
      <3>1. Misread(p.m, p.r) = TakesForClosed(ex, p.m)
        BY <1>1, MisreadIs DEF ListMethods
      <3> QED BY <1>5, <1>7, <2>1, <3>1 DEF OrderAnswerTells, ClosedTrue
    <2>4. /\ i \in Record /\ Tells(i)' /\ TellsCancel(i)'
          /\ Naming(Answers(p.m)) => i.rid = p.r
          /\ s \in {3, 4} => i.st > 1
      BY <1>1, <1>4, <1>5, <1>6, <1>7, <2>2, <2>3, ItemTells DEF OrderAnswerTells
    <2> QED BY <1>1, <1>5, <2>1, <2>4, AnswerKeeps DEF OrderAnswerTells
  <1>8. CASE ~Published(p.m, s)
    BY <1>1, <1>2, <1>5, <1>8, AnswerKeeps DEF OrderAnswerTells
  <1> QED BY <1>7, <1>8

LEMMA ParseListKeeps ==
  ASSUME IInv, NEW p \in replies, ParseList(p)
  PROVE  IInv'
  <1> DEFINE listed == {r \in DOMAIN p.seen : p.seen[r] \in Live \cup Over}
  <1>1. /\ Quiet /\ p.m \in ListMethods /\ replies' = replies \ {p}
        /\ UNCHANGED <<storage, ex, real>>
        /\ late' = late \cup {r \in listed : Outdated(p.m, r, p.seen[r])}
    BY DEF ParseList, exchange
  <1>2. PICK st \in [listed -> Statuses] :
          /\ \A r \in listed : \E s \in Answers(p.m).st[p.seen[r]] : st[r] = Cached(p.m, r, s)
          /\ LET shown == {r \in listed : Published(p.m, st[r])} IN
              \E f \in [shown -> UNION {Items(Answers(p.m), r, st[r]) : r \in shown}] :
                /\ \A r \in shown : f[r] \in Items(Answers(p.m), r, st[r])
                /\ items' = {f[r] : r \in shown}
                /\ misread' = misread \cup
                     {r \in shown : f[r].st > 1 /\ p.seen[r] \in Misread(p.m, r)}
    BY DEF ParseList
  <1>3. ListReplyTrue(p) /\ ex \in Ordering
    BY <1>1 DEF IInv, ExchangeInv, RepliesTrue, Ordering
  <1>4. \A r \in listed : r \in Remote /\ p.seen[r] \in Live \cup Over /\ real[r] \in Since(p.seen[r])
    BY <1>3 DEF ListReplyTrue, ListReply
  <1>5. /\ misread \subseteq misread'
        /\ \A i \in items' : \E r \in listed :
             /\ Published(p.m, st[r]) /\ i \in Items(Answers(p.m), r, st[r])
             /\ (i.st > 1 /\ p.seen[r] \in Misread(p.m, r)) => r \in misread'
    BY <1>2
  <1>6. \A r \in listed : p.seen[r] \in Live /\ real[r] = "cancelled" => r \in late' \/ CancelUnread(r)'
    BY <1>1 DEF Outdated, CancelUnread, ListMethods
  <1>7. ASSUME NEW i \in items'
        PROVE  i \in Record /\ Tells(i)' /\ TellsCancel(i)'
    <2>1. PICK r \in listed :
            /\ Published(p.m, st[r]) /\ i \in Items(Answers(p.m), r, st[r])
            /\ (i.st > 1 /\ p.seen[r] \in Misread(p.m, r)) => r \in misread'
      BY <1>5, <1>7
    <2>2. PICK s \in Answers(p.m).st[p.seen[r]] : st[r] = Cached(p.m, r, s)
      BY <1>2
    <2>3. /\ st[r] \in Statuses \ {Out, Failure} /\ Accepted(r)
          /\ st[r] \in {2, 3, 4} => real[r] \in Over \/ p.seen[r] \in Misread(p.m, r)
          /\ (st[r] \in {0, 1} /\ ex \in CancelNamesOrder) => p.seen[r] \in Live
      BY <1>1, <1>3, <1>4, <2>1, <2>2, ListAnswerRead
    <2> HIDE DEF listed
    <2>4. (st[r] \in {2, 3, 4} /\ i.st > 1) => real[r] \in Over \/ r \in misread'
      BY <2>1, <2>3
    <2> QED BY <1>1, <1>4, <1>6, <2>1, <2>3, <2>4, ItemTells
  <1>8. p.m \notin {"OrderCancel", "OrderPlace"} /\ late \subseteq late'
    BY <1>1 DEF ListMethods
  <1> QED BY <1>1, <1>5, <1>7, <1>8, AnswerKeeps

-----------------------------------------------------------------------------
(* Filing and reading *)

LEMMA ItemKeeps ==
  ASSUME IInv, HandleItem
  PROVE  IInv'
  <1>1. PICK o \in items : AddOrder(o) /\ items' = items \ {o}
    BY DEF HandleItem
  <1>2. UNCHANGED <<ex, real, replies, late, misread>>
    BY DEF HandleItem, exchange
  <1>3. /\ StorageInv /\ ExchangeInv /\ ToldInv /\ ComingInv
        /\ o \in Record /\ Tells(o) /\ TellsCancel(o)
    BY DEF IInv, ToldInv, ItemsTrue
  <1>4. StorageInv' /\ Filed(o) /\ Relisted(o)
    BY <1>1, <1>3, AddOrderKeeps, AddOrderFiles
  <1>5. o.rid \in Ids /\ o.st \in 1 .. 3
    BY <1>3, RecordType
  <1>6. ExchangeInv'
    BY <1>2, <1>3 DEF ExchangeInv, RepliesTrue, ListReplyTrue, OrderReplyTrue
  <1>7. /\ Listed' = Listed \cup {o.rid}
        /\ o.st > 1 => DOMAIN closedOrders' = DOMAIN closedOrders \cup {o.rid}
        /\ o.st <= 1 => DOMAIN closedOrders' = DOMAIN closedOrders \ {o.rid}
    <2>1. CASE o.st <= 1
      BY <1>4, <1>5, <2>1 DEF Relisted, Listed
    <2>2. CASE ~(o.st <= 1)
      BY <1>4, <1>5, <2>2 DEF Relisted, Listed
    <2> QED BY <2>1, <2>2
  <1>8. ToldInv'
    <2>1. ItemsTrue'
      BY <1>1, <1>2, <1>3 DEF ToldInv, ItemsTrue, Tells, TellsCancel, Accepted, Ended, CancelUnread
    <2>2. RecordsTrue'
      <3>1. \A i \in Slots' : Tells(ordersArray'[i])
        BY <1>3, <1>4 DEF Filed, ToldInv, RecordsTrue
      <3> QED BY <1>2, <3>1 DEF RecordsTrue, Tells, Accepted, Ended
    <2>3. ListedIsAccepted'
      <3>1. \A r \in Listed \ {NoRemote} : Accepted(r)
        BY <1>3 DEF ToldInv, ListedIsAccepted, Accepted
      <3>2. \A r \in Listed' \ {NoRemote} : Accepted(r)
        BY <1>3, <1>7, <3>1 DEF Tells
      <3> QED BY <1>2, <3>2 DEF ListedIsAccepted, Accepted
    <2>4. ClosedIsOver'
      <3> SUFFICES ASSUME NEW r \in DOMAIN closedOrders' \ {NoRemote},
                          r \in DOMAIN extId', Own(r)'
                   PROVE  Ended(r)
        BY <1>2 DEF ClosedIsOver, Ended
      <3>1. CASE r = o.rid
        BY <1>3, <1>5, <1>7, <3>1 DEF Tells
      <3>2. CASE r # o.rid
        <4>1. r \in DOMAIN closedOrders /\ r \in DOMAIN extId /\ extId'[r] = extId[r]
          BY <1>4, <1>5, <1>7, <3>2 DEF Filed
        <4>2. ordersArray'[extId[r]] = ordersArray[extId[r]]
          BY <1>4, <3>2, <4>1 DEF Filed, Own
        <4>3. Own(r)
          BY <4>1, <4>2 DEF Own
        <4> QED BY <1>3, <4>1, <4>3 DEF ToldInv, ClosedIsOver, Ended
      <3> QED BY <3>1, <3>2
    <2> QED BY <2>1, <2>2, <2>3, <2>4 DEF ToldInv
  <1>9. CancelsComing'
    <2> SUFFICES ASSUME NEW r \in Remote, real[r] = "cancelled", ex \in CancelNamesOrder
                 PROVE  \/ r \in DOMAIN closedOrders' \cup late
                        \/ CancelUnread(r)
                        \/ \E i \in items' : i.rid = r /\ i.st > 1
      BY <1>2 DEF CancelsComing, CancelUnread
    <2>1. \/ r \in DOMAIN closedOrders \cup late
          \/ CancelUnread(r)
          \/ \E i \in items : i.rid = r /\ i.st > 1
      BY <1>3 DEF ComingInv, CancelsComing
    <2>2. r # NoRemote
      BY IdsOK
    <2>3. CASE r = o.rid
      BY <1>3, <1>5, <1>7, <2>2, <2>3 DEF TellsCancel
    <2>4. CASE r # o.rid
      BY <1>1, <1>5, <1>7, <2>1, <2>4
    <2> QED BY <2>3, <2>4
  <1>10. PlacesComing'
    BY <1>1, <1>2, <1>3, <1>7 DEF ComingInv, PlacesComing, PlaceUnread
  <1> QED BY <1>4, <1>6, <1>8, <1>9, <1>10 DEF IInv, ComingInv

LEMMA ReadOpenKeeps ==
  ASSUME IInv, ReadOpen
  PROVE  IInv'
  <1>1. GetOpenOrders /\ UNCHANGED <<ex, real, replies, items, late, misread>>
    BY DEF ReadOpen, exchange
  <1>2. StorageInv /\ ExchangeInv /\ ToldInv /\ ComingInv
    BY DEF IInv
  <1>3. /\ StorageInv'
        /\ Listed' = Listed /\ DOMAIN closedOrders \subseteq DOMAIN closedOrders'
        /\ UNCHANGED <<ordersArray, extId>>
        /\ \A r \in DOMAIN closedOrders' :
             r \in DOMAIN closedOrders \/ (r \in DOMAIN openOrders /\ ordersArray[openOrders[r]].st > 1)
    BY <1>1, <1>2, ReadKeeps
  <1>4. ExchangeInv'
    BY <1>1, <1>2 DEF ExchangeInv, RepliesTrue, ListReplyTrue, OrderReplyTrue
  <1>5. ToldInv'
    <2>1. ItemsTrue'
      BY <1>1, <1>2 DEF ToldInv, ItemsTrue, Tells, TellsCancel, Accepted, Ended, CancelUnread
    <2>2. RecordsTrue'
      BY <1>1, <1>2, <1>3 DEF ToldInv, RecordsTrue, Tells, Accepted, Ended, Slots
    <2>3. ListedIsAccepted'
      BY <1>1, <1>2, <1>3 DEF ToldInv, ListedIsAccepted
    <2>4. ClosedIsOver'
      <3> SUFFICES ASSUME NEW r \in DOMAIN closedOrders' \ {NoRemote},
                          r \in DOMAIN extId, Own(r)
                   PROVE  Ended(r)
        BY <1>1, <1>3 DEF ClosedIsOver, Ended, Own
      <3>1. CASE r \in DOMAIN closedOrders
        BY <1>2, <3>1 DEF ToldInv, ClosedIsOver, Ended
      <3>2. CASE r \in DOMAIN openOrders /\ ordersArray[openOrders[r]].st > 1
        <4>1. openOrders[r] = extId[r] /\ extId[r] \in Slots
          BY <1>2, <3>2 DEF StorageInv, ListsAgree, IndexesInRange
        <4>2. Tells(ordersArray[extId[r]]) /\ ordersArray[extId[r]].rid = r
          BY <1>2, <4>1 DEF ToldInv, RecordsTrue, Own
        <4> QED BY <3>2, <4>1, <4>2 DEF Tells
      <3> QED BY <1>3, <3>1, <3>2
    <2> QED BY <2>1, <2>2, <2>3, <2>4 DEF ToldInv
  <1>6. ComingInv'
    <2>1. CancelsComing'
      BY <1>1, <1>2, <1>3 DEF ComingInv, CancelsComing, CancelUnread
    <2>2. PlacesComing'
      BY <1>1, <1>2, <1>3 DEF ComingInv, PlacesComing, PlaceUnread
    <2> QED BY <2>1, <2>2 DEF ComingInv
  <1> QED BY <1>3, <1>4, <1>5, <1>6 DEF IInv

-----------------------------------------------------------------------------
(* Theorems *)

LEMMA InitInv == Init => IInv
  <1> SUFFICES ASSUME Init PROVE IInv
    OBVIOUS
  <1>1. /\ ordersArray = <<>> /\ updatedOrders = <<>>
        /\ extId = NoOrders /\ locId = NoOrders /\ openOrders = NoOrders /\ closedOrders = NoOrders
        /\ real = [r \in Remote |-> "none"] /\ ex \in Exchanges
        /\ replies = {} /\ items = {} /\ late = {}
    BY DEF Init, StorageInit
  <1>2. DOMAIN NoOrders = {} /\ \A K, V : IsMap(NoOrders, K, V)
    BY DEF NoOrders, IsMap
  <1>3. StorageInv
    BY <1>1, <1>2 DEF StorageInv, StorageTypeOK, IndexesInRange, ListedOnce, ListsAgree, Slots
  <1>4. ExchangeInv
    BY <1>1 DEF ExchangeInv, RepliesTrue, States
  <1>5. ToldInv
    BY <1>1, <1>2 DEF ToldInv, ItemsTrue, RecordsTrue, ListedIsAccepted, ClosedIsOver, Listed, Slots
  <1>6. ComingInv
    BY <1>1 DEF ComingInv, CancelsComing, PlacesComing, Live, Over
  <1> QED BY <1>3, <1>4, <1>5, <1>6 DEF IInv

LEMMA InductiveStep == IInv /\ [Next]_vars => IInv'
  <1> SUFFICES ASSUME IInv, [Next]_vars
               PROVE  IInv'
    OBVIOUS
  <1>1. ASSUME NEW r \in Remote, Place(r) \/ Cancel(r) \/ Get(r) \/ Fill(r)
        PROVE  IInv'
    BY <1>1, PlaceKeeps, CancelKeeps, GetKeeps, FillKeeps
  <1>2. CASE RequestActives \/ RequestHistory
    BY <1>2, PollKeeps
  <1>3. ASSUME NEW p \in replies, ParseOrder(p) \/ ParseList(p)
        PROVE  IInv'
    BY <1>3, ParseOrderKeeps, ParseListKeeps
  <1>4. CASE HandleItem
    BY <1>4, ItemKeeps
  <1>5. CASE ReadOpen
    BY <1>5, ReadOpenKeeps
  <1>6. CASE UNCHANGED vars
    BY <1>6 DEF vars, storage, indexes, exchange, IInv, StorageInv, StorageTypeOK, IndexesInRange,
                ListedOnce, ListsAgree, Slots, ExchangeInv, RepliesTrue, ListReplyTrue, OrderReplyTrue,
                ToldInv, ItemsTrue, RecordsTrue, Tells, TellsCancel, Accepted, Ended, CancelUnread,
                PlaceUnread, ListedIsAccepted, ClosedIsOver, Listed, Own, ComingInv, CancelsComing,
                PlacesComing
  <1> QED BY <1>1, <1>2, <1>3, <1>4, <1>5, <1>6 DEF Next

\* The whole invariant, for any orders and any number of requests.
THEOREM OrdersInvariant == Spec => []IInv
  BY InitInv, InductiveStep, PTL DEF Spec

\* Whatever ids the items carry, no index leaves the array and an order that
\* is known is listed as open or as closed, never as both.
THEOREM StorageAlwaysHolds == Spec => []StorageHoldsTogether
  <1>1. IInv => StorageHoldsTogether
    <2> SUFFICES ASSUME IInv PROVE StorageHoldsTogether
      OBVIOUS
    <2>1. \A p \in replies : IF p.m \in ListMethods THEN p \in ListReply ELSE p \in Reply
      BY DEF IInv, ExchangeInv, RepliesTrue, ListReplyTrue, OrderReplyTrue
    <2>2. items \subseteq Record
      BY DEF IInv, ToldInv, ItemsTrue
    <2> QED BY <2>1, <2>2 DEF IInv, StorageInv, StorageHoldsTogether
  <1> QED BY <1>1, OrdersInvariant, PTL

\* However the answers overtake each other, an order is listed as closed only
\* when it is over at its exchange, or when an answer about it called it closed
\* while it lived, by one of the words that TakesForClosed names.
THEOREM ClosedAlwaysOver == Spec => []ClosedIsOver
  <1>1. IInv => ClosedIsOver
    BY DEF IInv, ToldInv
  <1> QED BY <1>1, OrdersInvariant, PTL

\* The worker lists no order that was never placed or that its exchange
\* refused; okcoin's alone are announced when refused.
THEOREM ListedAlwaysAccepted == Spec => []ListedIsAccepted
  <1>1. IInv => ListedIsAccepted
    BY DEF IInv, ToldInv
  <1> QED BY <1>1, OrdersInvariant, PTL

\* With every answer read and every item filed, what the exchange took is listed.
THEOREM AcceptedAlwaysListed == Spec => []AcceptedIsListed
  <1>1. IInv => AcceptedIsListed
    BY DEF IInv, ComingInv, PlacesComing, AcceptedIsListed, PlaceUnread, Quiet
  <1> QED BY <1>1, OrdersInvariant, PTL

\* With every answer read and every item filed, a cancelled order is closed,
\* unless an answer older than its cancel was read after it.
THEOREM CancelledAlwaysClosed == Spec => []CancelledIsClosed
  <1>1. IInv => CancelledIsClosed
    BY DEF IInv, ComingInv, CancelsComing, CancelledIsClosed, CancelUnread, Quiet
  <1> QED BY <1>1, OrdersInvariant, PTL
=======================================================================================
