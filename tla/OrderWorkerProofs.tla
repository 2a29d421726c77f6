-------------------------- MODULE OrderWorkerProofs --------------------------
(***************************************************************************)
(* Proofs about the orders process.  The first part is about the storage   *)
(* alone: when orders do not share local ids, addOrder keeps every index   *)
(* in step with the array.  The second part follows what the exchange said *)
(* through the feed, the storage, the saves and the database.  The last    *)
(* two show that what the worker learned is neither lost nor taken back,   *)
(* for any orders with distinct local ids, across crashes and refused      *)
(* writes.                                                                 *)
(***************************************************************************)
EXTENDS OrderWorker, FiniteSetTheorems, SequenceTheorems, TLAPS

StorageInv ==
    StorageTypeOK /\ IndexesInRange /\ ListedOnce /\ IndexesAgree

USE DEF Status

-----------------------------------------------------------------------------
(* Maps *)

\* Without drops one entry.
LEMMA WithoutEntry ==
    ASSUME NEW f, NEW k
    PROVE  /\ DOMAIN Without(f, k) = DOMAIN f \ {k}
           /\ \A x \in DOMAIN f \ {k} : Without(f, k)[x] = f[x]
  BY DEF Without

\* Each of them keeps a map a map.
LEMMA MapsStayMaps ==
    ASSUME NEW K, NEW V, NEW f, IsMap(f, K, V), NEW k \in K, NEW v \in V
    PROVE  /\ IsMap(With(f, k, v), K, V)
           /\ IsMap(Without(f, k), K, V)
           /\ IsMap(WithNew(f, k, v), K, V)
  BY DEF IsMap, With, Without, WithNew

-----------------------------------------------------------------------------
(* The storage *)

\* What a record looks like.
LEMMA RecordType ==
    ASSUME NEW o \in Record
    PROVE  /\ o \in Record /\ o.rid \in Ids /\ o.lid \in Local
           /\ o.st \in 1 .. 3 /\ o.lid \in LocalIds[o.rid]
  BY DEF Record

\* What a slot of the array looks like, and that the index leads to it.
LEMMA SlotType ==
    ASSUME StorageTypeOK, NEW i \in Slots
    PROVE  /\ ordersArray[i] \in Record /\ ordersArray[i].rid \in Ids
           /\ ordersArray[i].lid \in Local /\ ordersArray[i].st \in 1 .. 3
  <1>1. ordersArray[i] \in Record
    BY DEF StorageTypeOK, Slots
  <1> QED BY <1>1 DEF Record

\* Marking a slot adds nothing but that slot.
LEMMA MarkAdds ==
    ASSUME updatedOrders \in Seq(Nat), NEW i \in Nat, Mark(i)
    PROVE  /\ updatedOrders' \in Seq(Nat)
           /\ \A n \in 1 .. Len(updatedOrders') :
                \/ updatedOrders'[n] = i
                \/ \E k \in 1 .. Len(updatedOrders) :
                        updatedOrders'[n] = updatedOrders[k]
  <1>1. CASE Marked(i)
    BY <1>1 DEF Mark
  <1>2. CASE ~Marked(i)
    BY <1>2 DEF Mark
  <1> QED BY <1>1, <1>2

\* An item addOrder takes for a known order is about an order the index of
\* remote ids holds: the first slot is never overwritten by mistake.
LEMMA KnownIsIndexed ==
    ASSUME LocalIdsDistinct, StorageInv, NEW o \in Record,
           KnownRemote(o) \/ KnownLocal(o)
    PROVE  /\ o.rid \in DOMAIN extId
           /\ SlotOf(o.rid) = extId[o.rid] /\ extId[o.rid] \in Slots
  <1>1. o.rid \in DOMAIN extId
    <2>1. CASE KnownRemote(o)
      BY <2>1 DEF KnownRemote
    <2>2. CASE KnownLocal(o)
      <3> DEFINE i == locId[o.lid]
                 r == ordersArray[i].rid
      <3>1. i \in Slots /\ o.lid \in LocalIds[r]
        BY <2>2 DEF KnownLocal, StorageInv, IndexesInRange, IndexesAgree
      <3>2. r \in Ids /\ r \in DOMAIN extId
        BY <3>1, SlotType DEF StorageInv, IndexesAgree
      <3>3. r = o.rid
        BY <3>1, <3>2, RecordType DEF LocalIdsDistinct
      <3> QED BY <3>2, <3>3
    <2> QED BY <2>1, <2>2
  <1> QED BY <1>1 DEF SlotOf, StorageInv, IndexesInRange

\* An item addOrder does not know is about an order no index holds.
LEMMA UnknownIsNew ==
    ASSUME StorageInv, NEW o \in Record, ~KnownRemote(o), ~KnownLocal(o)
    PROVE  o.rid \notin DOMAIN extId /\ o.lid \notin DOMAIN locId
  <1>1. o.lid \notin DOMAIN locId
    BY DEF KnownLocal
  <1>2. CASE o.rid # NoRemote
    BY <1>1, <1>2 DEF KnownRemote
  <1>3. CASE o.rid = NoRemote
    <2>1. LocalIds[o.rid] = {o.lid}
      BY <1>3, RecordType, NamelessOK
    <2> QED BY <1>1, <2>1 DEF StorageInv, IndexesAgree
  <1> QED BY <1>2, <1>3

\* updateOrder replaces the order's own record and changes no other.
LEMMA UpdateReplaces ==
    ASSUME LocalIdsDistinct, StorageInv, NEW o \in Record,
           KnownRemote(o) \/ KnownLocal(o), UpdateOrder(o)
    PROVE  /\ ordersArray' = [ordersArray EXCEPT ![extId[o.rid]] = o]
           /\ updatedOrders' = updatedOrders \/ Mark(extId[o.rid])
  <1>1. /\ o.rid \in DOMAIN extId
        /\ SlotOf(o.rid) = extId[o.rid] /\ extId[o.rid] \in Slots
    BY KnownIsIndexed
  <1>2. ASSUME o \in Stored(o), UNCHANGED <<ordersArray, updatedOrders>>
        PROVE  ordersArray' = [ordersArray EXCEPT ![extId[o.rid]] = o]
    <2>1. ordersArray[extId[o.rid]] = o
      BY <1>1, <1>2 DEF Stored
    <2> QED BY <2>1, <1>1, <1>2 DEF StorageInv, StorageTypeOK, Slots
  <1> QED BY <1>1, <1>2 DEF UpdateOrder, ReplaceRecord

\* updateOrder keeps the storage in step.
LEMMA UpdateOrderKeeps ==
    ASSUME LocalIdsDistinct, StorageInv, NEW o \in Record,
           KnownRemote(o) \/ KnownLocal(o), UpdateOrder(o)
    PROVE  StorageInv'
  <1> DEFINE e == extId[o.rid]
  <1>1. /\ o.rid \in DOMAIN extId /\ SlotOf(o.rid) = e
        /\ e \in Slots /\ e \in Nat
    BY KnownIsIndexed DEF Slots
  <1>2. o \in Record /\ o.rid \in Ids /\ o.st \in 1 .. 3
        /\ o.lid \in LocalIds[o.rid]
    BY RecordType
  <1>3. /\ ordersArray \in Seq(Record)
        /\ ordersArray' = [ordersArray EXCEPT ![e] = o]
    BY UpdateReplaces DEF StorageInv, StorageTypeOK
  <1>4. /\ ordersArray' \in Seq(Record) /\ Len(ordersArray') = Len(ordersArray)
        /\ Slots' = Slots /\ ordersArray'[e] = o
        /\ \A i \in Slots \ {e} : ordersArray'[i] = ordersArray[i]
    BY <1>1, <1>2, <1>3 DEF Slots
  <1>5. extId' = extId /\ locId' = locId
    BY DEF UpdateOrder
  <1>6. \A i \in Slots : ordersArray'[i].rid = ordersArray[i].rid
    <2>1. ordersArray[e].rid = o.rid
      BY <1>1 DEF StorageInv, IndexesAgree
    <2> QED BY <1>4, <2>1
  <1>7. /\ updatedOrders' \in Seq(Nat)
        /\ \A n \in 1 .. Len(updatedOrders') : updatedOrders'[n] \in Slots
    <2>1. /\ updatedOrders \in Seq(Nat)
          /\ \A n \in 1 .. Len(updatedOrders) : updatedOrders[n] \in Slots
      BY DEF StorageInv, StorageTypeOK, IndexesInRange
    <2>2. CASE updatedOrders' = updatedOrders
      BY <2>1, <2>2
    <2>3. CASE Mark(e)
      BY <2>1, <2>3, <1>1, MarkAdds
    <2> QED BY <2>2, <2>3, UpdateReplaces
  <1>8. /\ IsMap(openOrders, Ids, Nat) /\ IsMap(closedOrders, Ids, Nat)
        /\ IsMap(extId, Ids, Nat) /\ IsMap(locId, Local, Nat)
    BY DEF StorageInv, StorageTypeOK
  <1>9. /\ IsMap(openOrders', Ids, Nat) /\ IsMap(closedOrders', Ids, Nat)
        /\ ListedOnce'
        /\ \A r \in DOMAIN openOrders' :
            /\ r \in DOMAIN extId /\ openOrders'[r] = extId[r]
            /\ ordersArray'[extId[r]].st <= 1
        /\ \A r \in DOMAIN closedOrders' :
            /\ r \in DOMAIN extId /\ closedOrders'[r] = extId[r]
            /\ ordersArray'[extId[r]].st > 1
    <2>1. \A r \in DOMAIN extId : r # o.rid => extId[r] \in Slots \ {e}
      BY <1>1 DEF StorageInv, IndexesInRange, IndexesAgree
    <2>2. \A r \in DOMAIN extId :
            r # o.rid => ordersArray'[extId[r]] = ordersArray[extId[r]]
      BY <1>4, <2>1
    <2>3. /\ \A r \in DOMAIN openOrders :
            /\ r \in DOMAIN extId /\ openOrders[r] = extId[r]
            /\ ordersArray[extId[r]].st <= 1
          /\ \A r \in DOMAIN closedOrders :
            /\ r \in DOMAIN extId /\ closedOrders[r] = extId[r]
            /\ ordersArray[extId[r]].st > 1
          /\ DOMAIN openOrders \cap DOMAIN closedOrders = {}
          /\ DOMAIN extId \subseteq DOMAIN openOrders \cup DOMAIN closedOrders
      BY DEF StorageInv, IndexesAgree, ListedOnce
    <2>4. CASE o.st <= 1
      <3>1. closedOrders' = Without(closedOrders, o.rid)
            /\ openOrders' = WithNew(openOrders, o.rid, e)
        BY <1>1, <2>4 DEF UpdateOrder, Refile
      <3>2. IsMap(openOrders', Ids, Nat) /\ IsMap(closedOrders', Ids, Nat)
        BY <3>1, <1>1, <1>2, <1>8, MapsStayMaps
      <3>3. /\ DOMAIN closedOrders' = DOMAIN closedOrders \ {o.rid}
            /\ \A r \in DOMAIN closedOrders' : closedOrders'[r] = closedOrders[r]
        BY <3>1, WithoutEntry
      <3>4. /\ DOMAIN openOrders' = DOMAIN openOrders \cup {o.rid}
            /\ openOrders'[o.rid] = e
            /\ \A r \in DOMAIN openOrders : openOrders'[r] = openOrders[r]
        <4>1. CASE o.rid \in DOMAIN openOrders
          BY <3>1, <2>3, <4>1 DEF WithNew
        <4>2. CASE o.rid \notin DOMAIN openOrders
          BY <3>1, <4>2 DEF WithNew, With
        <4> QED BY <4>1, <4>2
      <3>5. DOMAIN openOrders' \cap DOMAIN closedOrders' = {}
        BY <2>3, <3>3, <3>4
      <3>6. DOMAIN extId' \subseteq DOMAIN openOrders' \cup DOMAIN closedOrders'
        BY <1>1, <1>5, <2>3, <3>3, <3>4
      <3>7. \A r \in DOMAIN closedOrders' :
                /\ r \in DOMAIN extId /\ closedOrders'[r] = extId[r]
                /\ ordersArray'[extId[r]].st > 1
        BY <2>2, <2>3, <3>3
      <3>8. \A r \in DOMAIN openOrders' :
                /\ r \in DOMAIN extId /\ openOrders'[r] = extId[r]
                /\ ordersArray'[extId[r]].st <= 1
        <4> SUFFICES ASSUME NEW r \in DOMAIN openOrders'
                     PROVE  /\ r \in DOMAIN extId /\ openOrders'[r] = extId[r]
                            /\ ordersArray'[extId[r]].st <= 1
          OBVIOUS
        <4>1. CASE r = o.rid
          BY <1>1, <1>4, <2>4, <3>4, <4>1
        <4>2. CASE r # o.rid
          BY <2>2, <2>3, <3>4, <4>2
        <4> QED BY <4>1, <4>2
      <3> QED BY <3>2, <3>5, <3>6, <3>7, <3>8 DEF ListedOnce
    <2>5. CASE o.st > 1
      <3>1. openOrders' = Without(openOrders, o.rid)
            /\ closedOrders' = WithNew(closedOrders, o.rid, e)
        BY <1>1, <1>2, <2>5 DEF UpdateOrder, Refile
      <3>2. IsMap(openOrders', Ids, Nat) /\ IsMap(closedOrders', Ids, Nat)
        BY <3>1, <1>1, <1>2, <1>8, MapsStayMaps
      <3>3. /\ DOMAIN openOrders' = DOMAIN openOrders \ {o.rid}
            /\ \A r \in DOMAIN openOrders' : openOrders'[r] = openOrders[r]
        BY <3>1, WithoutEntry
      <3>4. /\ DOMAIN closedOrders' = DOMAIN closedOrders \cup {o.rid}
            /\ closedOrders'[o.rid] = e
            /\ \A r \in DOMAIN closedOrders : closedOrders'[r] = closedOrders[r]
        <4>1. CASE o.rid \in DOMAIN closedOrders
          BY <3>1, <2>3, <4>1 DEF WithNew
        <4>2. CASE o.rid \notin DOMAIN closedOrders
          BY <3>1, <4>2 DEF WithNew, With
        <4> QED BY <4>1, <4>2
      <3>5. DOMAIN openOrders' \cap DOMAIN closedOrders' = {}
        BY <2>3, <3>3, <3>4
      <3>6. DOMAIN extId' \subseteq DOMAIN openOrders' \cup DOMAIN closedOrders'
        BY <1>1, <1>5, <2>3, <3>3, <3>4
      <3>7. \A r \in DOMAIN openOrders' :
                /\ r \in DOMAIN extId /\ openOrders'[r] = extId[r]
                /\ ordersArray'[extId[r]].st <= 1
        BY <2>2, <2>3, <3>3
      <3>8. \A r \in DOMAIN closedOrders' :
                /\ r \in DOMAIN extId /\ closedOrders'[r] = extId[r]
                /\ ordersArray'[extId[r]].st > 1
        <4> SUFFICES ASSUME NEW r \in DOMAIN closedOrders'
                     PROVE  /\ r \in DOMAIN extId /\ closedOrders'[r] = extId[r]
                            /\ ordersArray'[extId[r]].st > 1
          OBVIOUS
        <4>1. CASE r = o.rid
          BY <1>1, <1>4, <2>5, <3>4, <4>1
        <4>2. CASE r # o.rid
          BY <2>2, <2>3, <3>4, <4>2
        <4> QED BY <4>1, <4>2
      <3> QED BY <3>2, <3>5, <3>6, <3>7, <3>8 DEF ListedOnce
    <2> QED BY <1>2, <2>4, <2>5
  <1>10. StorageTypeOK'
    BY <1>4, <1>5, <1>7, <1>8, <1>9 DEF StorageTypeOK
  <1>11. IndexesInRange'
    <2>1. /\ \A r \in DOMAIN extId : extId[r] \in Slots
          /\ \A l \in DOMAIN locId : locId[l] \in Slots
      BY DEF StorageInv, IndexesInRange
    <2> QED BY <1>4, <1>5, <1>7, <1>9, <2>1 DEF IndexesInRange
  <1>12. IndexesAgree'
    <2>1. /\ \A r \in DOMAIN extId :
            /\ ordersArray'[extId[r]].rid = r
            /\ LocalIds[r] \cap DOMAIN locId # {}
      BY <1>6 DEF StorageInv, IndexesAgree, IndexesInRange
    <2>2. \A i \in Slots : /\ ordersArray'[i].rid \in DOMAIN extId
                            /\ extId[ordersArray'[i].rid] = i
      BY <1>6 DEF StorageInv, IndexesAgree
    <2>3. \A l \in DOMAIN locId : l \in LocalIds[ordersArray'[locId[l]].rid]
      BY <1>6 DEF StorageInv, IndexesAgree, IndexesInRange
    <2> QED BY <1>4, <1>5, <1>9, <2>1, <2>2, <2>3 DEF IndexesAgree
  <1> QED BY <1>9, <1>10, <1>11, <1>12 DEF StorageInv

\* A new slot keeps the storage in step.
LEMMA AddNewKeeps ==
    ASSUME StorageInv, NEW o \in Record,
           ~KnownRemote(o), ~KnownLocal(o), AddNew(o)
    PROVE  StorageInv'
  <1> DEFINE new == Len(ordersArray) + 1
             r0 == o.rid
  <1>1. r0 \notin DOMAIN extId /\ o.lid \notin DOMAIN locId
    BY UnknownIsNew
  <1>2. /\ o \in Record /\ r0 \in Ids /\ o.st \in 1 .. 3
        /\ o.lid \in LocalIds[r0] /\ o.lid \in Local
    BY RecordType
  <1>3. /\ ordersArray \in Seq(Record)
        /\ ordersArray' = Append(ordersArray, o)
        /\ new \in Nat
    BY DEF StorageInv, StorageTypeOK, AddNew
  <1>4. /\ ordersArray' \in Seq(Record)
        /\ Len(ordersArray') = new /\ new \in Slots' /\ new \notin Slots
        /\ Slots' = Slots \cup {new}
        /\ ordersArray'[new] = o
        /\ \A i \in Slots : ordersArray'[i] = ordersArray[i]
    BY <1>2, <1>3 DEF Slots
  <1>5. /\ extId' = With(extId, r0, new) /\ locId' = With(locId, o.lid, new)
        /\ Mark(new)
    BY DEF AddNew
  <1>6. /\ DOMAIN extId' = DOMAIN extId \cup {r0} /\ extId'[r0] = new
        /\ \A r \in DOMAIN extId : extId'[r] = extId[r]
    BY <1>1, <1>5 DEF With
  <1>7. /\ DOMAIN locId' = DOMAIN locId \cup {o.lid} /\ locId'[o.lid] = new
        /\ \A l \in DOMAIN locId : locId'[l] = locId[l]
    BY <1>1, <1>5 DEF With
  <1>8. /\ updatedOrders' \in Seq(Nat)
        /\ \A n \in 1 .. Len(updatedOrders') : updatedOrders'[n] \in Slots'
    <2>1. /\ updatedOrders \in Seq(Nat)
          /\ \A n \in 1 .. Len(updatedOrders) : updatedOrders[n] \in Slots
      BY DEF StorageInv, StorageTypeOK, IndexesInRange
    <2> QED BY <1>3, <1>4, <1>5, <2>1, MarkAdds
  <1>9. /\ \A r \in DOMAIN openOrders :
            /\ r \in DOMAIN extId /\ openOrders[r] = extId[r]
            /\ ordersArray[extId[r]].st <= 1
        /\ \A r \in DOMAIN closedOrders :
            /\ r \in DOMAIN extId /\ closedOrders[r] = extId[r]
            /\ ordersArray[extId[r]].st > 1
        /\ DOMAIN openOrders \cap DOMAIN closedOrders = {}
        /\ DOMAIN extId \subseteq DOMAIN openOrders \cup DOMAIN closedOrders
        /\ \A r \in DOMAIN extId : extId[r] \in Slots
        /\ IsMap(openOrders, Ids, Nat) /\ IsMap(closedOrders, Ids, Nat)
        /\ IsMap(extId, Ids, Nat) /\ IsMap(locId, Local, Nat)
    BY DEF StorageInv, StorageTypeOK, IndexesInRange, IndexesAgree, ListedOnce
  <1>10. IsMap(extId', Ids, Nat) /\ IsMap(locId', Local, Nat)
    BY <1>2, <1>3, <1>5, <1>9, MapsStayMaps
  <1>11. /\ IsMap(openOrders', Ids, Nat) /\ IsMap(closedOrders', Ids, Nat)
         /\ ListedOnce'
         /\ \A r \in DOMAIN openOrders' :
            /\ r \in DOMAIN extId' /\ openOrders'[r] = extId'[r]
            /\ ordersArray'[extId'[r]].st <= 1
         /\ \A r \in DOMAIN closedOrders' :
            /\ r \in DOMAIN extId' /\ closedOrders'[r] = extId'[r]
            /\ ordersArray'[extId'[r]].st > 1
    <2>1. r0 \notin DOMAIN openOrders /\ r0 \notin DOMAIN closedOrders
      BY <1>1, <1>9
    <2>2. CASE o.st <= 1
      <3>1. closedOrders' = Without(closedOrders, r0)
            /\ openOrders' = With(openOrders, r0, new)
        BY <2>2 DEF AddNew
      <3>2. IsMap(openOrders', Ids, Nat) /\ IsMap(closedOrders', Ids, Nat)
        BY <3>1, <1>2, <1>3, <1>9, MapsStayMaps
      <3>3. /\ DOMAIN closedOrders' = DOMAIN closedOrders
            /\ \A r \in DOMAIN closedOrders' : closedOrders'[r] = closedOrders[r]
        BY <3>1, <2>1 DEF Without
      <3>4. /\ DOMAIN openOrders' = DOMAIN openOrders \cup {r0}
            /\ openOrders'[r0] = new
            /\ \A r \in DOMAIN openOrders : openOrders'[r] = openOrders[r]
        BY <3>1, <2>1 DEF With
      <3>5. DOMAIN openOrders' \cap DOMAIN closedOrders' = {}
        BY <1>9, <2>1, <3>3, <3>4
      <3>6. DOMAIN extId' \subseteq DOMAIN openOrders' \cup DOMAIN closedOrders'
        BY <1>6, <1>9, <3>3, <3>4
      <3>7. \A r \in DOMAIN closedOrders' :
                /\ r \in DOMAIN extId' /\ closedOrders'[r] = extId'[r]
                /\ ordersArray'[extId'[r]].st > 1
        BY <1>4, <1>6, <1>9, <3>3
      <3>8. \A r \in DOMAIN openOrders' :
                /\ r \in DOMAIN extId' /\ openOrders'[r] = extId'[r]
                /\ ordersArray'[extId'[r]].st <= 1
        <4>1. /\ r0 \in DOMAIN extId' /\ openOrders'[r0] = extId'[r0]
              /\ ordersArray'[extId'[r0]].st <= 1
          BY <1>4, <1>6, <2>2, <3>4
        <4>2. \A r \in DOMAIN openOrders :
                /\ r \in DOMAIN extId' /\ openOrders'[r] = extId'[r]
                /\ ordersArray'[extId'[r]].st <= 1
          BY <1>4, <1>6, <1>9, <3>4
        <4> QED BY <3>4, <4>1, <4>2
      <3> QED BY <3>2, <3>5, <3>6, <3>7, <3>8 DEF ListedOnce
    <2>3. CASE o.st > 1
      <3>1. openOrders' = Without(openOrders, r0)
            /\ closedOrders' = With(closedOrders, r0, new)
        BY <1>2, <2>3 DEF AddNew
      <3>2. IsMap(openOrders', Ids, Nat) /\ IsMap(closedOrders', Ids, Nat)
        BY <3>1, <1>2, <1>3, <1>9, MapsStayMaps
      <3>3. /\ DOMAIN openOrders' = DOMAIN openOrders
            /\ \A r \in DOMAIN openOrders' : openOrders'[r] = openOrders[r]
        BY <3>1, <2>1 DEF Without
      <3>4. /\ DOMAIN closedOrders' = DOMAIN closedOrders \cup {r0}
            /\ closedOrders'[r0] = new
            /\ \A r \in DOMAIN closedOrders : closedOrders'[r] = closedOrders[r]
        BY <3>1, <2>1 DEF With
      <3>5. DOMAIN openOrders' \cap DOMAIN closedOrders' = {}
        BY <1>9, <2>1, <3>3, <3>4
      <3>6. DOMAIN extId' \subseteq DOMAIN openOrders' \cup DOMAIN closedOrders'
        BY <1>6, <1>9, <3>3, <3>4
      <3>7. \A r \in DOMAIN openOrders' :
                /\ r \in DOMAIN extId' /\ openOrders'[r] = extId'[r]
                /\ ordersArray'[extId'[r]].st <= 1
        BY <1>4, <1>6, <1>9, <3>3
      <3>8. \A r \in DOMAIN closedOrders' :
                /\ r \in DOMAIN extId' /\ closedOrders'[r] = extId'[r]
                /\ ordersArray'[extId'[r]].st > 1
        <4>1. /\ r0 \in DOMAIN extId' /\ closedOrders'[r0] = extId'[r0]
              /\ ordersArray'[extId'[r0]].st > 1
          BY <1>4, <1>6, <2>3, <3>4
        <4>2. \A r \in DOMAIN closedOrders :
                /\ r \in DOMAIN extId' /\ closedOrders'[r] = extId'[r]
                /\ ordersArray'[extId'[r]].st > 1
          BY <1>4, <1>6, <1>9, <3>4
        <4> QED BY <3>4, <4>1, <4>2
      <3> QED BY <3>2, <3>5, <3>6, <3>7, <3>8 DEF ListedOnce
    <2> QED BY <1>2, <2>2, <2>3
  <1>12. StorageTypeOK'
    BY <1>4, <1>8, <1>10, <1>11 DEF StorageTypeOK
  <1>13. IndexesInRange'
    <2>1. \A r \in DOMAIN extId' : extId'[r] \in Slots'
      BY <1>4, <1>6, <1>9
    <2>2. \A l \in DOMAIN locId' : locId'[l] \in Slots'
      BY <1>4, <1>7 DEF StorageInv, IndexesInRange
    <2> QED BY <1>8, <1>11, <2>1, <2>2 DEF IndexesInRange
  <1>14. IndexesAgree'
    <2>1. \A r \in DOMAIN extId' :
            /\ ordersArray'[extId'[r]].rid = r
            /\ LocalIds[r] \cap DOMAIN locId' # {}
      <3>1. \A r \in DOMAIN extId :
                /\ ordersArray[extId[r]].rid = r
                /\ LocalIds[r] \cap DOMAIN locId # {}
        BY DEF StorageInv, IndexesAgree
      <3> QED BY <1>2, <1>4, <1>6, <1>7, <1>9, <3>1
    <2>2. \A i \in Slots' : /\ ordersArray'[i].rid \in DOMAIN extId'
                             /\ extId'[ordersArray'[i].rid] = i
      <3>1. \A i \in Slots : /\ ordersArray[i].rid \in DOMAIN extId
                              /\ extId[ordersArray[i].rid] = i
        BY DEF StorageInv, IndexesAgree
      <3> QED BY <1>4, <1>6, <3>1
    <2>3. \A l \in DOMAIN locId' : l \in LocalIds[ordersArray'[locId'[l]].rid]
      <3>1. \A l \in DOMAIN locId : /\ l \in LocalIds[ordersArray[locId[l]].rid]
                                     /\ locId[l] \in Slots
        BY DEF StorageInv, IndexesAgree, IndexesInRange
      <3> QED BY <1>2, <1>4, <1>7, <3>1
    <2> QED BY <1>11, <2>1, <2>2, <2>3 DEF IndexesAgree
  <1> QED BY <1>11, <1>12, <1>13, <1>14 DEF StorageInv

\* addOrder keeps the storage in step.
LEMMA AddOrderKeeps ==
    ASSUME LocalIdsDistinct, StorageInv, NEW o \in Record, AddOrder(o)
    PROVE  StorageInv'
  BY AddNewKeeps, UpdateOrderKeeps DEF AddOrder

\* In a storage in step getOpenOrders finds nothing to move: it never
\* removes an entry of the map it walks.
LEMMA NothingStale ==
    ASSUME StorageInv
    PROVE  StaleOpen = {}
  <1> SUFFICES ASSUME NEW r \in DOMAIN openOrders
               PROVE  ~(ordersArray[openOrders[r]].st > 1)
    BY DEF StaleOpen
  <1>1. /\ r \in DOMAIN extId /\ openOrders[r] = extId[r]
        /\ ordersArray[extId[r]].st <= 1 /\ extId[r] \in Slots
    BY DEF StorageInv, IndexesAgree, IndexesInRange
  <1>2. ordersArray[extId[r]].st \in 1 .. 3
    BY <1>1, SlotType DEF StorageInv
  <1> QED BY <1>1, <1>2

\* getOpenOrders and provision leave such a storage alone.
LEMMA ReadsChangeNothing ==
    ASSUME StorageInv, GetOpenOrders \/ Provision
    PROVE  UNCHANGED storage
  <1>1. /\ openOrders = [r \in DOMAIN openOrders |-> openOrders[r]]
        /\ closedOrders = [r \in DOMAIN closedOrders |-> closedOrders[r]]
        /\ DOMAIN openOrders \ DOMAIN closedOrders = DOMAIN openOrders
    BY DEF StorageInv, StorageTypeOK, IsMap, ListedOnce
  <1>2. CASE GetOpenOrders
    <2>1. PICK moved \in SUBSET StaleOpen :
            /\ closedOrders' = [r \in DOMAIN closedOrders \cup moved |->
                    IF r \in moved THEN openOrders[r] ELSE closedOrders[r]]
            /\ openOrders' = [r \in DOMAIN openOrders \ moved |-> openOrders[r]]
            /\ UNCHANGED <<ordersArray, extId, locId, updatedOrders>>
      BY <1>2 DEF GetOpenOrders
    <2>2. moved = {}
      BY NothingStale
    <2>3. openOrders' = openOrders /\ closedOrders' = closedOrders
      BY <1>1, <2>1, <2>2
    <2> QED BY <2>1, <2>3 DEF storage, indexes
  <1>3. CASE Provision
    BY <1>1, <1>3 DEF Provision, storage, indexes
  <1> QED BY <1>2, <1>3

\* addOrder stores the item it is given and keeps what else there is.
LEMMA AddOrderStores ==
    ASSUME LocalIdsDistinct, StorageInv, NEW o \in Record, AddOrder(o),
           NEW i \in Slots'
    PROVE  ordersArray'[i] = o \/ \E k \in Slots : ordersArray'[i] = ordersArray[k]
  <1>1. ordersArray \in Seq(Record) /\ o \in Record
    BY RecordType DEF StorageInv, StorageTypeOK
  <1>2. CASE AddNew(o)
    <2>1. ordersArray' = Append(ordersArray, o)
      BY <1>2 DEF AddNew
    <2> QED BY <1>1, <2>1 DEF Slots
  <1>3. CASE (KnownRemote(o) \/ KnownLocal(o)) /\ UpdateOrder(o)
    <2>1. ordersArray' = [ordersArray EXCEPT ![extId[o.rid]] = o]
      BY <1>3, UpdateReplaces
    <2> QED BY <1>1, <2>1 DEF Slots
  <1> QED BY <1>2, <1>3 DEF AddOrder

-----------------------------------------------------------------------------
(* The process *)

\* The rows of the database, each under a local id of its order.
DbTyped(d) ==
    IsMap(d, Local, Row) /\ \A k \in DOMAIN d : k \in LocalIds[d[k].rid]

\* TypeOK without the storage.
LEMMA ProcessTypes ==
    ASSUME TypeOK
    PROVE  /\ real \in [Remote -> 0 .. 3] /\ feed \in Seq(Seq(Record))
           /\ up \in BOOLEAN /\ items \in Seq(Record) /\ saves \in Seq(Record)
           /\ DbTyped(db) /\ refused \subseteq Local \cup {NoRemote}
           /\ answers \in Nat /\ crashes \in Nat /\ dbErrors \in Nat
  BY DEF TypeOK, DbTyped

\* Honest, with the state of the exchange as a parameter.
HonestTo(o, f) == o.rid = NoRemote \/ o.st <= 1 \/ f[o.rid] = o.st

\* What an exchange said of a closed order stays true.
LEMMA HonestStays ==
    ASSUME NEW o \in Record, Honest(o),
           \A r \in Remote : real[r] > 1 => real'[r] = real[r]
    PROVE  HonestTo(o, real')
  <1>1. o.rid \in Remote \cup {NoRemote} /\ o.st \in 1 .. 3
    BY DEF Record, Ids
  <1> QED BY <1>1 DEF Honest, HonestTo

\* Truthful of a state and of the next one, spelled out.
LEMMA TruthfulNow ==
    Truthful <=>
    /\ \A n \in 1 .. Len(feed) :
            \A k \in 1 .. Len(feed[n]) : HonestTo(feed[n][k], real)
    /\ \A n \in 1 .. Len(items) : HonestTo(items[n], real)
    /\ \A i \in Slots : HonestTo(ordersArray[i], real)
    /\ \A n \in 1 .. Len(saves) : HonestTo(saves[n], real)
    /\ \A k \in DOMAIN db : db[k].st > 1 => real[db[k].rid] = db[k].st
  BY DEF Truthful, Honest, HonestTo

\* The answers of a list request are items that are true when given.
LEMMA ListingsTrue ==
    ASSUME NEW S \in SUBSET Remote, NEW s \in Listings(S)
    PROVE  s \in Seq(Record) /\ \A n \in 1 .. Len(s) : Honest(s[n])
  <1>1. Cardinality(S) \in Nat
    BY IdsOK, FS_Subset, FS_CardinalityType
  <1>2. s \in [1 .. Cardinality(S) -> Record]
        /\ \A n \in DOMAIN s : s[n].st = real[s[n].rid]
    BY DEF Listings
  <1>3. s \in Seq(Record) /\ Len(s) = Cardinality(S)
    BY <1>1, <1>2
  <1> QED BY <1>2, <1>3 DEF Honest

\* Every step of the exchanges leaves the process alone, changes no closed
\* order, and adds at most one answer, which is true.
LEMMA ExchangeStep ==
    ASSUME TypeOK, Exchange
    PROVE  /\ Elsewhere
           /\ real' \in [Remote -> 0 .. 3] /\ answers' \in Nat
           /\ \A r \in Remote : real[r] > 1 => real'[r] = real[r]
           /\ \/ feed' = feed
              \/ \E s \in Seq(Record) : /\ feed' = Append(feed, s)
                                       /\ \A n \in 1 .. Len(s) : HonestTo(s[n], real')
  <1>1. /\ real \in [Remote -> 0 .. 3] /\ feed \in Seq(Seq(Record))
        /\ answers \in Nat
    BY ProcessTypes
  <1> DEFINE One(q, k, x) == <<[rid |-> q, lid |-> k, st |-> x]>>
  <1>2. ASSUME NEW r \in Ids, NEW l \in LocalIds[r], NEW st \in 1 .. 3
        PROVE  /\ One(r, l, st) \in Seq(Record) /\ Len(One(r, l, st)) = 1
               /\ One(r, l, st)[1].rid = r /\ One(r, l, st)[1].st = st
    <2> DEFINE o == [rid |-> r, lid |-> l, st |-> st]
    <2>1. o \in Record /\ o.rid = r /\ o.st = st
      BY IdsOK DEF Record, Ids
    <2> HIDE DEF o
    <2>2. <<o>> \in Seq(Record) /\ Len(<<o>>) = 1 /\ <<o>>[1] = o
      BY <2>1
    <2> QED BY <2>1, <2>2 DEF o
  <1>3. CASE \E r \in Remote : ExchangePlaces(r)
    <2>1. PICK r \in Remote, st \in {1, 2} :
            /\ real[r] = 0 /\ real' = [real EXCEPT ![r] = st]
            /\ Elsewhere
            /\ \/ \E l \in LocalIds[r] :
                     Answer(<<[rid |-> r, lid |-> l, st |-> st]>>)
               \/ UNCHANGED <<feed, answers>>
      BY <1>3 DEF ExchangePlaces
    <2>2. real' \in [Remote -> 0 .. 3] /\ real'[r] = st
          /\ \A q \in Remote : real[q] > 1 => real'[q] = real[q]
      BY <1>1, <2>1
    <2>3. CASE UNCHANGED <<feed, answers>>
      BY <1>1, <2>1, <2>2, <2>3
    <2>4. CASE \E l \in LocalIds[r] :
                 Answer(<<[rid |-> r, lid |-> l, st |-> st]>>)
      <3>1. PICK l \in LocalIds[r] : Answer(<<[rid |-> r, lid |-> l, st |-> st]>>)
        BY <2>4
      <3> DEFINE s == One(r, l, st)
      <3> HIDE DEF One
      <3>2. s \in Seq(Record) /\ Len(s) = 1 /\ s[1].rid = r /\ s[1].st = st
        <4>1. r \in Ids /\ st \in 1 .. 3
          BY DEF Ids
        <4> QED BY <1>2, <4>1
      <3>3. \A n \in 1 .. Len(s) : HonestTo(s[n], real')
        BY <2>2, <3>2 DEF HonestTo
      <3>4. feed' = Append(feed, s) /\ answers' \in Nat
        BY <1>1, <3>1 DEF Answer, One
      <3> QED BY <2>1, <2>2, <3>2, <3>3, <3>4
    <2> QED BY <2>1, <2>3, <2>4
  <1>4. CASE \E r \in Remote : ExchangeFills(r)
    BY <1>1, <1>4 DEF ExchangeFills
  <1>5. CASE \E r \in Remote : ExchangeCancels(r)
    <2>1. PICK r \in Remote : ExchangeCancels(r)
      BY <1>5
    <2>2. /\ real[r] = 1 /\ real' = [real EXCEPT ![r] = 3] /\ Elsewhere
      BY <2>1 DEF ExchangeCancels
    <2>3. real' \in [Remote -> 0 .. 3] /\ real'[r] = 3
          /\ \A q \in Remote : real[q] > 1 => real'[q] = real[q]
      BY <1>1, <2>2
    <2>4. PICK q \in {r, NoRemote}, l \in Local :
            /\ l \in LocalIds[q]
            /\ Answer(<<[rid |-> q, lid |-> l, st |-> 3]>>)
      <3>1. LocalIds[NoRemote] = {Blank} /\ Blank \in Local
            /\ LocalIds[r] \subseteq Local
        BY IdsOK, NamelessOK
      <3>2. CASE r \in Unnamed
        BY <2>1, <3>1, <3>2 DEF ExchangeCancels
      <3>3. CASE r \notin Unnamed
        BY <2>1, <3>1, <3>3 DEF ExchangeCancels
      <3> QED BY <3>2, <3>3
    <2> DEFINE s == One(q, l, 3)
    <2> HIDE DEF One
    <2>5. s \in Seq(Record) /\ Len(s) = 1 /\ s[1].rid = q /\ s[1].st = 3
      <3>1. q \in Ids /\ 3 \in 1 .. 3
        BY DEF Ids
      <3> QED BY <1>2, <2>4, <3>1
    <2>6. \A n \in 1 .. Len(s) : HonestTo(s[n], real')
      BY <2>3, <2>5 DEF HonestTo
    <2>7. feed' = Append(feed, s) /\ answers' \in Nat
      BY <1>1, <2>4 DEF Answer, One
    <2> QED BY <2>2, <2>3, <2>5, <2>6, <2>7
  <1>6. CASE ExchangeListsOpen \/ ExchangeListsClosed
    <2>1. PICK S \in SUBSET Remote :
            (\E s \in Listings(S) : Answer(s)) /\ UNCHANGED real /\ Elsewhere
      BY <1>6 DEF ExchangeListsOpen, ExchangeListsClosed
    <2> PICK s \in Listings(S) : Answer(s)
      BY <2>1
    <2>2. s \in Seq(Record) /\ \A n \in 1 .. Len(s) : Honest(s[n])
      BY ListingsTrue
    <2>3. \A n \in 1 .. Len(s) : HonestTo(s[n], real')
      BY <2>1, <2>2 DEF Honest, HonestTo
    <2>4. feed' = Append(feed, s) /\ answers' \in Nat
      BY <1>1, <2>1 DEF Answer
    <2> QED BY <1>1, <2>1, <2>2, <2>3, <2>4
  <1> QED BY <1>3, <1>4, <1>5, <1>6 DEF Exchange

\* The parts of the invariant a storage left alone keeps.
LEMMA StorageAlone ==
    ASSUME StorageInv, UNCHANGED storage
    PROVE  StorageInv'
  BY DEF StorageInv, StorageTypeOK, IndexesInRange, ListedOnce, IndexesAgree,
         Slots, storage, indexes

\* Adding one sequence of items to the feed.
LEMMA FeedGrows ==
    ASSUME NEW f \in Seq(Seq(Record)), NEW s \in Seq(Record)
    PROVE  /\ Append(f, s) \in Seq(Seq(Record))
           /\ \A n \in 1 .. Len(Append(f, s)) :
                \/ Append(f, s)[n] = s
                \/ n \in 1 .. Len(f) /\ Append(f, s)[n] = f[n]
  OBVIOUS

\* A function on 1 .. m is a sequence.
LEMMA FunctionIsSeq ==
    ASSUME NEW T, NEW m \in Nat, NEW g \in [1 .. m -> T]
    PROVE  g \in Seq(T) /\ Len(g) = m
  OBVIOUS

\* An event that arrives leaves the others on their way.
LEMMA FeedShrinks ==
    ASSUME NEW f \in Seq(Seq(Record)), NEW n \in 1 .. Len(f),
           NEW g, g = RemoveAt(f, n)
    PROVE  /\ g \in Seq(Seq(Record))
           /\ \A k \in 1 .. Len(g) : \E j \in 1 .. Len(f) : g[k] = f[j]
  <1> DEFINE T == Seq(Record)
             m == Len(f) - 1
  <1>1. f \in Seq(T)
    OBVIOUS
  <1> HIDE DEF T
  <1>2. Len(f) \in Nat /\ n \in Nat /\ \A k \in 1 .. Len(f) : f[k] \in T
    BY <1>1
  <1>3. /\ m \in Nat
        /\ \A k \in 1 .. m : k \in 1 .. Len(f) /\ k + 1 \in 1 .. Len(f)
    BY <1>2
  <1>4. g = [k \in 1 .. m |-> IF k < n THEN f[k] ELSE f[k + 1]]
    BY DEF RemoveAt
  <1> HIDE DEF m
  <1>5. g \in [1 .. m -> T]
    BY <1>2, <1>3, <1>4
  <1>6. \A k \in 1 .. m : g[k] = f[k] \/ g[k] = f[k + 1]
    BY <1>4
  <1>7. g \in Seq(T) /\ Len(g) = m
    BY <1>3, <1>5, FunctionIsSeq
  <1>8. \A k \in 1 .. m : \E j \in 1 .. Len(f) : g[k] = f[j]
    BY <1>3, <1>6
  <1> QED BY <1>7, <1>8 DEF T

\* The initial state is in step.
LEMMA InitInv ==
    ASSUME Init
    PROVE  IInv
  <1>1. StorageInv
    <2>1. IsMap(NoOrders, Ids, Nat) /\ IsMap(NoOrders, Local, Nat)
          /\ DOMAIN NoOrders = {}
      BY DEF IsMap, NoOrders
    <2>2. ordersArray = <<>> /\ Slots = {} /\ updatedOrders = <<>>
          /\ extId = NoOrders /\ locId = NoOrders
          /\ openOrders = NoOrders /\ closedOrders = NoOrders
      BY DEF Init, StorageInit, Slots
    <2> QED BY <2>1, <2>2 DEF StorageInv, StorageTypeOK, IndexesInRange,
                              ListedOnce, IndexesAgree
  <1>2. TypeOK
    <2>1. IsMap(NoOrders, Local, Row) /\ DOMAIN NoOrders = {}
      BY DEF IsMap, NoOrders
    <2>2. real \in [Remote -> 0 .. 3]
      BY DEF Init
    <2> QED BY <1>1, <2>1, <2>2 DEF StorageInv, TypeOK, Init
  <1>3. Truthful
    <2>1. DOMAIN NoOrders = {}
      BY DEF NoOrders
    <2> QED BY <2>1 DEF Init, StorageInit, Truthful, Slots
  <1> QED BY <1>1, <1>2, <1>3 DEF StorageInv, IInv

\* The process variables are typed and nothing in them is made up.
ProcessInv ==
    /\ real \in [Remote -> 0 .. 3] /\ feed \in Seq(Seq(Record))
    /\ up \in BOOLEAN /\ items \in Seq(Record) /\ saves \in Seq(Record)
    /\ DbTyped(db) /\ refused \subseteq Local \cup {NoRemote}
    /\ answers \in Nat /\ crashes \in Nat /\ dbErrors \in Nat
    /\ Truthful

LEMMA InvParts == IInv <=> StorageInv /\ ProcessInv
  BY DEF IInv, StorageInv, ProcessInv, TypeOK, DbTyped

\* The exchanges keep the invariant.
LEMMA ExchangeKeeps ==
    ASSUME IInv, Exchange
    PROVE  IInv'
  <1>1. StorageInv /\ ProcessInv /\ TypeOK /\ Truthful
    BY InvParts DEF IInv
  <1>2. /\ Elsewhere
        /\ real' \in [Remote -> 0 .. 3] /\ answers' \in Nat
        /\ \A r \in Remote : real[r] > 1 => real'[r] = real[r]
        /\ \/ feed' = feed
           \/ \E s \in Seq(Record) : /\ feed' = Append(feed, s)
                                    /\ \A n \in 1 .. Len(s) : HonestTo(s[n], real')
    BY <1>1, ExchangeStep
  <1>3. /\ UNCHANGED storage /\ up' = up /\ items' = items /\ saves' = saves
        /\ db' = db /\ refused' = refused /\ crashes' = crashes
        /\ dbErrors' = dbErrors
    BY <1>2 DEF Elsewhere
  <1>4. StorageInv'
    BY <1>1, <1>3, StorageAlone
  <1>5. \A o \in Record : Honest(o) => HonestTo(o, real')
    BY <1>2, HonestStays
  <1>6. Record \subseteq Record
    BY DEF Record
  <1>7. feed' \in Seq(Seq(Record))
        /\ \A n \in 1 .. Len(feed') : \A k \in 1 .. Len(feed'[n]) : HonestTo(feed'[n][k], real')
    <2>1. feed \in Seq(Seq(Record))
          /\ \A n \in 1 .. Len(feed) : \A k \in 1 .. Len(feed[n]) : Honest(feed[n][k])
      BY <1>1 DEF ProcessInv, Truthful
    <2>2. \A n \in 1 .. Len(feed) : \A k \in 1 .. Len(feed[n]) : HonestTo(feed[n][k], real')
      <3> SUFFICES ASSUME NEW n \in 1 .. Len(feed), NEW k \in 1 .. Len(feed[n])
                   PROVE  HonestTo(feed[n][k], real')
        OBVIOUS
      <3>1. feed[n] \in Seq(Record)
        BY <2>1
      <3>2. feed[n][k] \in Record
        BY <3>1, <1>6
      <3> QED BY <2>1, <3>2, <1>5
    <2>3. CASE feed' = feed
      BY <2>1, <2>2, <2>3
    <2>4. ASSUME NEW s \in Seq(Record), feed' = Append(feed, s),
                 \A n \in 1 .. Len(s) : HonestTo(s[n], real')
          PROVE  feed' \in Seq(Seq(Record))
                 /\ \A n \in 1 .. Len(feed') :
                        \A k \in 1 .. Len(feed'[n]) : HonestTo(feed'[n][k], real')
      BY <2>1, <2>2, <2>4, FeedGrows
    <2> QED BY <1>2, <2>3, <2>4
  <1>8. /\ \A n \in 1 .. Len(items) : HonestTo(items[n], real')
        /\ \A i \in Slots : HonestTo(ordersArray[i], real')
        /\ \A n \in 1 .. Len(saves) : HonestTo(saves[n], real')
    <2>1. /\ \A n \in 1 .. Len(items) : items[n] \in Record /\ Honest(items[n])
          /\ \A i \in Slots : ordersArray[i] \in Record /\ Honest(ordersArray[i])
          /\ \A n \in 1 .. Len(saves) : saves[n] \in Record /\ Honest(saves[n])
      BY <1>1, <1>6 DEF ProcessInv, StorageInv, StorageTypeOK, Slots, Truthful
    <2> QED BY <1>5, <2>1
  <1>9. \A k \in DOMAIN db' : db'[k].st > 1 => real'[db'[k].rid] = db'[k].st
    <2> SUFFICES ASSUME NEW k \in DOMAIN db, db[k].st > 1
                 PROVE  real'[db[k].rid] = db[k].st
      BY <1>3
    <2>1. db[k].rid \in Remote /\ db[k].st \in 1 .. 3 /\ real[db[k].rid] = db[k].st
      BY <1>1 DEF ProcessInv, DbTyped, IsMap, Row, Truthful
    <2> QED BY <1>2, <2>1
  <1>10. Truthful'
    <2>1. Slots' = Slots /\ ordersArray' = ordersArray
      BY <1>3 DEF Slots, storage
    <2> QED BY <1>3, <1>7, <1>8, <1>9, <2>1 DEF Truthful, Honest, HonestTo
  <1>11. ProcessInv'
    BY <1>1, <1>2, <1>3, <1>7, <1>10 DEF ProcessInv
  <1> QED BY <1>4, <1>11, InvParts, PTL

\* The handlers keep the invariant: an arriving event, and one item of it.
LEMMA HandlersKeep ==
    ASSUME LocalIdsDistinct, IInv, Deliver \/ HandleItem
    PROVE  IInv'
  <1>1. StorageInv /\ ProcessInv /\ Truthful
    BY InvParts DEF IInv
  <1>2. /\ feed \in Seq(Seq(Record)) /\ items \in Seq(Record)
        /\ \A n \in 1 .. Len(feed) :
            \A k \in 1 .. Len(feed[n]) : HonestTo(feed[n][k], real)
        /\ \A n \in 1 .. Len(items) : HonestTo(items[n], real)
        /\ \A i \in Slots : HonestTo(ordersArray[i], real)
    BY <1>1, TruthfulNow DEF ProcessInv
  <1>3. CASE Deliver
    <2>1. PICK n \in 1 .. Len(feed) :
            /\ feed' = RemoveAt(feed, n)
            /\ items' = IF up THEN feed[n] ELSE <<>>
      BY <1>3 DEF Deliver
    <2>2. UNCHANGED <<storage, real, answers, up, saves, db, refused, crashes, dbErrors>>
      BY <1>3 DEF Deliver
    <2>3. real' = real /\ answers' = answers /\ UNCHANGED storage
      BY <2>2
    <2>4. items' \in Seq(Record) /\ \A k \in 1 .. Len(items') : HonestTo(items'[k], real)
      BY <1>2, <2>1
    <2>5. /\ feed' \in Seq(Seq(Record))
          /\ \A k \in 1 .. Len(feed') : \E j \in 1 .. Len(feed) : feed'[k] = feed[j]
      <3> DEFINE f == feed
                 g == feed'
      <3>1. f \in Seq(Seq(Record)) /\ n \in 1 .. Len(f) /\ g = RemoveAt(f, n)
        BY <1>2, <2>1
      <3> HIDE DEF f, g
      <3>2. g \in Seq(Seq(Record))
        BY <3>1, FeedShrinks
      <3>3. \A k \in 1 .. Len(g) : \E j \in 1 .. Len(f) : g[k] = f[j]
        BY <3>1, FeedShrinks
      <3> QED BY <3>2, <3>3 DEF f, g
    <2>6. \A j \in 1 .. Len(feed') :
            \A k \in 1 .. Len(feed'[j]) : HonestTo(feed'[j][k], real)
      BY <1>2, <2>5
    <2>7. Slots' = Slots /\ ordersArray' = ordersArray
      BY <2>3 DEF storage, Slots
    <2>8. Truthful'
      BY <1>1, <2>2, <2>3, <2>4, <2>6, <2>7 DEF Truthful, Honest, HonestTo
    <2>9. ProcessInv'
      BY <1>1, <2>2, <2>3, <2>4, <2>5, <2>8 DEF ProcessInv
    <2>10. StorageInv'
      BY <1>1, <2>3, StorageAlone
    <2> QED BY <2>9, <2>10, InvParts, PTL
  <1>4. CASE HandleItem
    <2>1. /\ items # <<>> /\ AddOrder(Head(items)) /\ items' = Tail(items)
          /\ UNCHANGED <<outside, feed, up, saves, db, refused, crashes, dbErrors>>
      BY <1>4 DEF HandleItem
    <2>2. Head(items) \in Record /\ HonestTo(Head(items), real)
      BY <1>2, <2>1
    <2>3. StorageInv'
      BY <1>1, <2>1, <2>2, AddOrderKeeps
    <2>4. \A i \in Slots' : HonestTo(ordersArray'[i], real)
      <3> SUFFICES ASSUME NEW i \in Slots' PROVE HonestTo(ordersArray'[i], real)
        OBVIOUS
      <3>1. ordersArray'[i] = Head(items)
            \/ \E k \in Slots : ordersArray'[i] = ordersArray[k]
        BY <1>1, <2>1, <2>2, AddOrderStores
      <3> QED BY <1>2, <2>2, <3>1
    <2>5. items' \in Seq(Record) /\ \A k \in 1 .. Len(items') : HonestTo(items'[k], real)
      BY <1>2, <2>1
    <2>6. real' = real /\ answers' = answers
      BY <2>1 DEF outside
    <2>7. Truthful'
      BY <1>1, <2>1, <2>4, <2>5, <2>6 DEF Truthful, Honest, HonestTo
    <2>8. ProcessInv'
      BY <1>1, <2>1, <2>5, <2>6, <2>7 DEF ProcessInv
    <2> QED BY <2>3, <2>8, InvParts, PTL
  <1> QED BY <1>3, <1>4

\* The requests and the timers keep the invariant.
LEMMA TimersKeep ==
    ASSUME IInv, ReadOpen \/ Maintain \/ CheckUpdates
    PROVE  IInv'
  <1>1. StorageInv /\ ProcessInv /\ Truthful
    BY InvParts DEF IInv
  <1>2. CASE ReadOpen \/ Maintain
    <2>1. UNCHANGED storage
      BY <1>1, <1>2, ReadsChangeNothing DEF ReadOpen, Maintain
    <2>2. UNCHANGED <<outside, feed, up, items, saves, db, refused, crashes, dbErrors>>
      BY <1>2 DEF ReadOpen, Maintain
    <2>3. StorageInv'
      BY <1>1, <2>1, StorageAlone
    <2>4. real' = real /\ answers' = answers /\ ordersArray' = ordersArray
          /\ Slots' = Slots
      BY <2>1, <2>2 DEF storage, outside, Slots
    <2>5. Truthful'
      BY <1>1, <2>2, <2>4 DEF Truthful, Honest
    <2>6. ProcessInv'
      BY <1>1, <2>2, <2>4, <2>5 DEF ProcessInv
    <2> QED BY <2>3, <2>6, InvParts, PTL
  <1>3. CASE CheckUpdates
    <2>1. /\ saves' = saves \o UpdatedRecords /\ updatedOrders' = <<>>
          /\ UNCHANGED <<ordersArray, indexes, outside, feed, up, items, db, refused,
                         crashes, dbErrors>>
      BY <1>3 DEF CheckUpdates
    <2>2. real' = real /\ answers' = answers /\ ordersArray' = ordersArray
          /\ Slots' = Slots /\ extId' = extId /\ locId' = locId
          /\ openOrders' = openOrders /\ closedOrders' = closedOrders
      BY <2>1 DEF indexes, outside, Slots
    <2>3. StorageInv'
      BY <1>1, <2>1, <2>2 DEF StorageInv, StorageTypeOK, IndexesInRange,
                              ListedOnce, IndexesAgree
    <2>4. /\ UpdatedRecords \in Seq(Record)
          /\ \A n \in 1 .. Len(UpdatedRecords) :
                \E i \in Slots : UpdatedRecords[n] = ordersArray[i]
      <3>1. /\ updatedOrders \in Seq(Nat) /\ Len(updatedOrders) \in Nat
            /\ \A n \in 1 .. Len(updatedOrders) : updatedOrders[n] \in Slots
        BY <1>1 DEF StorageInv, StorageTypeOK, IndexesInRange
      <3>2. \A n \in 1 .. Len(updatedOrders) : ordersArray[updatedOrders[n]] \in Record
        BY <1>1, <3>1, SlotType DEF StorageInv
      <3>3. /\ UpdatedRecords \in [1 .. Len(updatedOrders) -> Record]
            /\ \A n \in 1 .. Len(updatedOrders) :
                    UpdatedRecords[n] = ordersArray[updatedOrders[n]]
        BY <3>2 DEF UpdatedRecords
      <3>4. UpdatedRecords \in Seq(Record)
            /\ Len(UpdatedRecords) = Len(updatedOrders)
        BY <3>1, <3>3
      <3> QED BY <3>1, <3>3, <3>4
    <2>5. /\ saves \in Seq(Record)
          /\ \A n \in 1 .. Len(saves) : HonestTo(saves[n], real)
          /\ \A i \in Slots : HonestTo(ordersArray[i], real)
      BY <1>1, TruthfulNow DEF ProcessInv
    <2>6. \A n \in 1 .. Len(UpdatedRecords) : HonestTo(UpdatedRecords[n], real)
      <3> HIDE DEF UpdatedRecords
      <3> SUFFICES ASSUME NEW n \in 1 .. Len(UpdatedRecords)
                   PROVE  HonestTo(UpdatedRecords[n], real)
        OBVIOUS
      <3>1. PICK i \in Slots : UpdatedRecords[n] = ordersArray[i]
        BY <2>4, Zenon
      <3> QED BY <2>5, <3>1, Zenon
    <2>7. saves' \in Seq(Record) /\ \A n \in 1 .. Len(saves') : HonestTo(saves'[n], real)
      <3> HIDE DEF UpdatedRecords
      <3> QED BY <2>1, <2>4, <2>5, <2>6
    <2>8. Truthful'
      BY <1>1, <2>1, <2>2, <2>7 DEF Truthful, Honest, HonestTo
    <2>9. ProcessInv'
      BY <1>1, <2>1, <2>2, <2>7, <2>8 DEF ProcessInv
    <2> QED BY <2>3, <2>9, InvParts, PTL
  <1> QED BY <1>2, <1>3

\* DbWriter keeps the invariant.
LEMMA WriterKeeps ==
    ASSUME LocalIdsDistinct, IInv, SaveOrder \/ SaveOrderFails
    PROVE  IInv'
  <1>1. StorageInv /\ ProcessInv /\ Truthful
    BY InvParts DEF IInv
  <1> DEFINE o == Head(saves)
  <1>2. /\ saves # <<>> /\ saves' = Tail(saves)
        /\ UNCHANGED <<storage, outside, feed, up, items, crashes>>
    BY DEF SaveOrder, SaveOrderFails
  <1>3. real' = real /\ answers' = answers /\ UNCHANGED storage
        /\ ordersArray' = ordersArray /\ Slots' = Slots
    BY <1>2 DEF storage, outside, Slots
  <1>4. saves \in Seq(Record) /\ \A n \in 1 .. Len(saves) : HonestTo(saves[n], real)
    BY <1>1, TruthfulNow DEF ProcessInv
  <1>5. saves' \in Seq(Record) /\ \A n \in 1 .. Len(saves') : HonestTo(saves'[n], real)
    BY <1>2, <1>4
  <1>6. o \in Record /\ HonestTo(o, real)
    BY <1>2, <1>4
  <1>7. o.rid \in Ids /\ o.lid \in Local /\ o.st \in 1 .. 3
        /\ o.lid \in LocalIds[o.rid]
    BY <1>6, RecordType
  <1>8. /\ IsMap(db, Local, Row)
        /\ \A k \in DOMAIN db : k \in LocalIds[db[k].rid]
        /\ \A k \in DOMAIN db : db[k].st > 1 => real[db[k].rid] = db[k].st
        /\ \A k \in DOMAIN db : db[k].rid \in Remote
    BY <1>1 DEF ProcessInv, DbTyped, Truthful, IsMap, Row
  <1>9. /\ DbTyped(db') /\ refused' \subseteq Local \cup {NoRemote}
        /\ dbErrors' \in Nat
        /\ \A k \in DOMAIN db' : db'[k].st > 1 => real[db'[k].rid] = db'[k].st
    <2> HIDE DEF o
    <2>1. /\ refused \subseteq Local \cup {NoRemote} /\ dbErrors \in Nat
          /\ DbTyped(db)
      BY <1>1 DEF ProcessInv
    <2>2. Key(o) \in LocalIds[o.rid] \cup {NoRemote}
          /\ (o.rid # NoRemote => Key(o) \in LocalIds[o.rid])
      <3>1. CASE o.lid # Blank
        BY <1>7, <3>1 DEF Key
      <3>2. CASE o.lid = Blank
        <4>1. Key(o) = o.rid /\ Blank \in LocalIds[o.rid]
          BY <1>7, <3>2 DEF Key
        <4> QED BY <1>7, <4>1, IdsOK DEF Ids
      <3> QED BY <3>1, <3>2
    <2>3. Key(o) \in Local \cup {NoRemote}
      BY <1>7, <2>2, IdsOK DEF Ids
    <2>4. CASE SaveOrderFails
      <3>1. /\ db' = db /\ refused' = refused \cup {Key(o)}
            /\ dbErrors' = dbErrors + 1
        BY <2>4 DEF SaveOrderFails, o
      <3>2. dbErrors' \in Nat
        BY <2>1, <3>1
      <3> QED BY <1>8, <2>1, <2>3, <3>1, <3>2
    <2>5. CASE SaveOrder /\ o.rid = NoRemote
      <3>1. /\ db' = db /\ refused' = refused \ {Key(o)} /\ dbErrors' = dbErrors
        BY <2>5 DEF SaveOrder, o
      <3> QED BY <1>8, <2>1, <3>1
    <2>6. CASE SaveOrder /\ o.rid # NoRemote
      <3> DEFINE k == Key(o)
                 row == [rid |-> IF k \in DOMAIN db THEN db[k].rid ELSE o.rid,
                         st |-> o.st]
      <3>1. db' = With(db, k, row) /\ refused' = refused \ {k} /\ dbErrors' = dbErrors
        BY <2>6 DEF SaveOrder, o, Upsert
      <3>2. o.rid \in Remote /\ k \in LocalIds[o.rid] /\ k \in Local
        BY <1>7, <2>2, <2>6, IdsOK DEF Ids
      <3>3. k \in DOMAIN db => db[k].rid = o.rid
        BY <1>8, <3>2 DEF LocalIdsDistinct, Ids
      <3>4. row \in Row /\ row.rid = o.rid /\ row.st = o.st
        BY <1>7, <3>2, <3>3 DEF Row
      <3>5. o.st > 1 => real[o.rid] = o.st
        BY <1>6, <1>7, <2>6 DEF HonestTo
      <3> HIDE DEF k, row
      <3>6. IsMap(db', Local, Row)
        BY <1>8, <3>1, <3>2, <3>4, MapsStayMaps, Zenon
      <3>7. /\ DOMAIN db' = DOMAIN db \cup {k} /\ db'[k] = row
            /\ \A x \in DOMAIN db' : x = k \/ (x \in DOMAIN db /\ db'[x] = db[x])
        BY <3>1 DEF With
      <3>8. \A x \in DOMAIN db' : x \in LocalIds[db'[x].rid]
        BY <1>8, <3>2, <3>4, <3>7
      <3>9. \A x \in DOMAIN db' : db'[x].st > 1 => real[db'[x].rid] = db'[x].st
        BY <1>8, <3>4, <3>5, <3>7
      <3> QED BY <2>1, <3>1, <3>6, <3>8, <3>9 DEF DbTyped
    <2> QED BY <2>4, <2>5, <2>6
  <1>10. StorageInv'
    BY <1>1, <1>3, StorageAlone
  <1>11. Truthful'
    BY <1>1, <1>2, <1>3, <1>5, <1>9 DEF Truthful, Honest, HonestTo
  <1>12. ProcessInv'
    BY <1>1, <1>2, <1>3, <1>5, <1>9, <1>11 DEF ProcessInv
  <1> QED BY <1>10, <1>12, InvParts, PTL

\* A crash and a restart keep the invariant.
LEMMA RestartKeeps ==
    ASSUME IInv, Crash \/ Restart
    PROVE  IInv'
  <1>1. StorageInv /\ ProcessInv /\ Truthful
    BY InvParts DEF IInv
  <1>2. CASE Crash
    <2>1. IsMap(NoOrders, Ids, Nat) /\ IsMap(NoOrders, Local, Nat)
          /\ DOMAIN NoOrders = {}
      BY DEF IsMap, NoOrders
    <2>2. ordersArray' = <<>> /\ Slots' = {} /\ updatedOrders' = <<>>
          /\ extId' = NoOrders /\ locId' = NoOrders
          /\ openOrders' = NoOrders /\ closedOrders' = NoOrders
      BY <1>2 DEF Crash, Slots
    <2>3. StorageInv'
      BY <2>1, <2>2 DEF StorageInv, StorageTypeOK, IndexesInRange,
                        ListedOnce, IndexesAgree
    <2>4. items' = <<>> /\ saves' = <<>> /\ refused' = {} /\ up' = FALSE
          /\ real' = real /\ answers' = answers /\ feed' = feed /\ db' = db
          /\ dbErrors' = dbErrors /\ crashes' = crashes + 1
      BY <1>2 DEF Crash, outside
    <2>5. Truthful'
      BY <1>1, <2>2, <2>4 DEF Truthful, Honest
    <2>6. ProcessInv'
      <3>1. items' \in Seq(Record) /\ saves' \in Seq(Record)
            /\ refused' \subseteq Local \cup {NoRemote} /\ up' \in BOOLEAN
        <4>1. <<>> \in Seq(Record)
              /\ FALSE \in BOOLEAN
          BY EmptySeq, Zenon
        <4> QED BY <2>4, <4>1, Zenon
      <3>2. crashes' \in Nat
        <4>1. crashes \in Nat
          BY <1>1 DEF ProcessInv
        <4> QED BY <2>4, <4>1
      <3> QED BY <1>1, <2>4, <2>5, <3>1, <3>2 DEF ProcessInv
    <2> QED BY <2>3, <2>6, InvParts, PTL
  <1>3. CASE Restart
    <2>1. PICK s \in [1 .. Cardinality(StoredClosed) -> StoredClosed] :
            items' = [n \in DOMAIN s |-> RowItem(s[n])]
      BY <1>3 DEF Restart
    <2>2. /\ up' = TRUE
          /\ UNCHANGED <<storage, outside, feed, saves, db, refused, crashes, dbErrors>>
      BY <1>3 DEF Restart
    <2>3. real' = real /\ answers' = answers /\ UNCHANGED storage
          /\ ordersArray' = ordersArray /\ Slots' = Slots
      BY <2>2 DEF storage, outside, Slots
    <2>4. Cardinality(StoredClosed) \in Nat
      <3>1. StoredClosed \subseteq Local
        BY <1>1 DEF StoredClosed, ProcessInv, DbTyped, IsMap
      <3> QED BY <3>1, IdsOK, FS_Subset, FS_CardinalityType
    <2>5. \A k \in StoredClosed : RowItem(k) \in Record /\ HonestTo(RowItem(k), real)
      <3> SUFFICES ASSUME NEW k \in StoredClosed
                   PROVE  RowItem(k) \in Record /\ HonestTo(RowItem(k), real)
        OBVIOUS
      <3>1. /\ k \in DOMAIN db /\ k \in Local /\ db[k].rid \in Remote
            /\ db[k].st \in 1 .. 3 /\ k \in LocalIds[db[k].rid]
            /\ real[db[k].rid] = db[k].st
        BY <1>1 DEF StoredClosed, ProcessInv, DbTyped, IsMap, Row, Truthful
      <3> QED BY <3>1 DEF RowItem, Record, Ids, HonestTo
    <2>6. /\ items' \in [1 .. Cardinality(StoredClosed) -> Record]
          /\ \A n \in 1 .. Cardinality(StoredClosed) : HonestTo(items'[n], real)
      <3> HIDE DEF RowItem
      <3> QED BY <2>1, <2>5
    <2>7. items' \in Seq(Record) /\ \A k \in 1 .. Len(items') : HonestTo(items'[k], real)
      <3>1. items' \in Seq(Record) /\ Len(items') = Cardinality(StoredClosed)
        BY <2>4, <2>6, FunctionIsSeq, Zenon
      <3> QED BY <2>6, <3>1
    <2>8. StorageInv'
      BY <1>1, <2>3, StorageAlone
    <2>9. Truthful'
      BY <1>1, <2>2, <2>3, <2>7 DEF Truthful, Honest, HonestTo
    <2>10. ProcessInv'
      BY <1>1, <2>2, <2>3, <2>7, <2>9 DEF ProcessInv
    <2> QED BY <2>8, <2>10, InvParts, PTL
  <1> QED BY <1>2, <1>3

\* A step that changes nothing keeps the invariant.
LEMMA StutterKeeps ==
    ASSUME IInv, UNCHANGED vars
    PROVE  IInv'
  <1>1. StorageInv /\ ProcessInv
    BY InvParts
  <1>2. UNCHANGED storage /\ real' = real /\ feed' = feed /\ up' = up
        /\ items' = items /\ saves' = saves /\ db' = db /\ refused' = refused
        /\ answers' = answers /\ crashes' = crashes /\ dbErrors' = dbErrors
    BY DEF vars, outside
  <1>3. ordersArray' = ordersArray
    BY <1>2 DEF storage
  <1>4. ProcessInv'
    BY <1>1, <1>2, <1>3 DEF ProcessInv, Truthful, Honest, Slots
  <1>5. StorageInv'
    BY <1>1, <1>2, StorageAlone
  <1> QED BY <1>4, <1>5, InvParts, PTL

-----------------------------------------------------------------------------
(* Theorems *)

\* Every step keeps the invariant, when orders do not share local ids.
LEMMA InductiveStep ==
    ASSUME LocalIdsDistinct, IInv, [Next]_vars
    PROVE  IInv'
  <1>1. CASE Exchange
    BY <1>1, ExchangeKeeps
  <1>2. CASE Deliver \/ HandleItem
    BY <1>2, HandlersKeep
  <1>3. CASE ReadOpen \/ Maintain \/ CheckUpdates
    BY <1>3, TimersKeep
  <1>4. CASE SaveOrder \/ SaveOrderFails
    BY <1>4, WriterKeeps
  <1>5. CASE Crash \/ Restart
    BY <1>5, RestartKeeps
  <1>6. CASE UNCHANGED vars
    BY <1>6, StutterKeeps
  <1> QED BY <1>1, <1>2, <1>3, <1>4, <1>5, <1>6 DEF Next

\* The invariant of the orders process: its types, indexes in step with the
\* array of records, and no closing that the exchange did not report.
THEOREM WorkerInvariant ==
    ASSUME LocalIdsDistinct
    PROVE  Spec => []IInv
  <1>1. Init => IInv
    BY InitInv
  <1>2. IInv /\ [Next]_vars => IInv'
    BY InductiveStep
  <1> QED BY <1>1, <1>2, PTL DEF Spec

\* Whatever the order in which answers arrive, and across crashes and failed
\* writes, every index leads to the record it is about and the open list
\* holds open records only.
THEOREM IndexesAlwaysAgree ==
    ASSUME LocalIdsDistinct
    PROVE  Spec => []IndexesAgree
  <1>1. IInv => IndexesAgree
    BY DEF IInv
  <1> QED BY <1>1, WorkerInvariant, PTL

\* An order listed as closed, or stored as closed, is closed at its exchange.
THEOREM ClosedMeansClosed ==
    ASSUME LocalIdsDistinct
    PROVE  Spec => []ClosedIsReallyClosed
  <1>1. IInv => ClosedIsReallyClosed
    <2> SUFFICES ASSUME IInv PROVE ClosedIsReallyClosed
      OBVIOUS
    <2>1. StorageInv /\ ProcessInv /\ Truthful
      BY InvParts DEF IInv
    <2>2. ASSUME NEW r \in DOMAIN closedOrders \ {NoRemote}
          PROVE  real[r] > 1
      <3>1. /\ r \in DOMAIN extId /\ extId[r] \in Slots
            /\ ordersArray[extId[r]].st > 1 /\ ordersArray[extId[r]].rid = r
        BY <2>1 DEF StorageInv, IndexesAgree, IndexesInRange
      <3>2. ordersArray[extId[r]].st \in 1 .. 3
        BY <2>1, <3>1, SlotType DEF StorageInv
      <3>3. Honest(ordersArray[extId[r]])
        BY <2>1, <3>1 DEF Truthful
      <3> QED BY <2>2, <3>1, <3>2, <3>3 DEF Honest
    <2>3. \A k \in DOMAIN db : db[k].st > 1 => real[db[k].rid] = db[k].st
      BY <2>1 DEF Truthful
    <2> QED BY <2>2, <2>3 DEF ClosedIsReallyClosed
  <1> QED BY <1>1, WorkerInvariant, PTL

-----------------------------------------------------------------------------
(* The way to the database.  UnsavedIsMarked looks at the last of the      *)
(* saves on their way, so SavesInv names its place (Last) and says that no *)
(* slot is marked twice: records that are handed over together have        *)
(* different keys.                                                         *)

Pending(q, k) == \E n \in 1 .. Len(q) : Key(q[n]) = k

\* The last record of q with key k has status st.
Last(q, k, st) ==
    \E n \in 1 .. Len(q) :
        /\ Key(q[n]) = k /\ q[n].st = st
        /\ \A m \in 1 .. Len(q) : m > n => Key(q[m]) # k

\* The row with key k has status st, or gets it, or was refused.
Kept(k, st) ==
    \/ Last(saves, k, st)
    \/ /\ ~Pending(saves, k)
       /\ (k \in DOMAIN db /\ db[k].st = st) \/ k \in refused

MarkedOrKept(r) ==
    LET o == ordersArray[extId[r]] IN Marked(extId[r]) \/ Kept(Key(o), o.st)

MarksDistinct ==
    \A m, n \in 1 .. Len(updatedOrders) :
        updatedOrders[m] = updatedOrders[n] => m = n

Known == DOMAIN extId \ {NoRemote}

SavesInv == MarksDistinct /\ \A r \in Known : MarkedOrKept(r)

-----------------------------------------------------------------------------
(* Keys *)

\* A record of a named order is written under one of its own ids.
LEMMA KeyIsLocal ==
    ASSUME NEW o \in Record, o.rid # NoRemote
    PROVE  Key(o) \in LocalIds[o.rid] /\ Key(o) \in Local
  <1>1. /\ o.rid \in Remote /\ o.lid \in Local /\ o.lid \in LocalIds[o.rid]
        /\ LocalIds[o.rid] \subseteq Local
    BY RecordType, IdsOK DEF Ids
  <1>2. CASE o.lid = Blank
    BY <1>1, <1>2, IdsOK DEF Key
  <1>3. CASE o.lid # Blank
    BY <1>1, <1>3 DEF Key
  <1> QED BY <1>2, <1>3

\* Records with one key are about one order.
LEMMA KeyTellsOrder ==
    ASSUME LocalIdsDistinct, NEW o \in Record, o.rid # NoRemote,
           NEW p \in Record, Key(p) = Key(o)
    PROVE  p.rid = o.rid
  <1>1. Key(o) \in LocalIds[o.rid] /\ Key(o) \in Local
    BY KeyIsLocal
  <1>2. CASE p.rid = NoRemote
    <2>1. p.lid = Blank
      BY <1>2, RecordType, NamelessOK
    <2>2. Key(p) = NoRemote
      BY <1>2, <2>1 DEF Key
    <2> QED BY <1>1, <2>2, IdsOK
  <1>3. CASE p.rid # NoRemote
    <2>1. Key(p) \in LocalIds[p.rid]
      BY <1>3, KeyIsLocal
    <2> QED BY <1>1, <2>1, RecordType DEF LocalIdsDistinct
  <1> QED BY <1>2, <1>3

\* What the index says of a known order.
LEMMA KnownRecord ==
    ASSUME StorageInv, NEW r \in Known
    PROVE  /\ extId[r] \in Slots /\ ordersArray[extId[r]] \in Record
           /\ ordersArray[extId[r]].rid = r /\ r # NoRemote
  <1>1. extId[r] \in Slots /\ ordersArray[extId[r]].rid = r /\ r # NoRemote
    BY DEF StorageInv, IndexesInRange, IndexesAgree, Known
  <1> QED BY <1>1, SlotType DEF StorageInv

-----------------------------------------------------------------------------
(* The queue of saves *)

LEMMA HeadWaits ==
    ASSUME NEW q \in Seq(Record), q # <<>>
    PROVE  /\ Tail(q) \in Seq(Record) /\ Len(q) \in Nat /\ Len(q) >= 1
           /\ Len(Tail(q)) = Len(q) - 1
           /\ \A n \in 1 .. Len(q) - 1 : Tail(q)[n] = q[n + 1]
           /\ Head(q) = q[1] /\ Head(q) \in Record
  OBVIOUS

\* When the head goes, a last record is still the last, or it was the head and
\* none of its key is left.
LEMMA LastInTail ==
    ASSUME NEW q \in Seq(Record), q # <<>>, NEW k, NEW st, Last(q, k, st)
    PROVE  \/ Last(Tail(q), k, st)
           \/ Key(Head(q)) = k /\ Head(q).st = st /\ ~Pending(Tail(q), k)
  <1> DEFINE t == Tail(q)
  <1>1. /\ Len(q) \in Nat /\ Len(t) = Len(q) - 1 /\ Head(q) = q[1]
        /\ \A n \in 1 .. Len(q) - 1 : t[n] = q[n + 1]
    BY HeadWaits
  <1> HIDE DEF t
  <1>2. PICK n \in 1 .. Len(q) : /\ Key(q[n]) = k /\ q[n].st = st
                                 /\ \A m \in 1 .. Len(q) : m > n => Key(q[m]) # k
    BY DEF Last
  <1>3. CASE n = 1
    <2>1. \A m \in 1 .. Len(t) : Key(t[m]) # k
      <3> TAKE m \in 1 .. Len(t)
      <3>1. t[m] = q[m + 1] /\ m + 1 \in 1 .. Len(q) /\ m + 1 > n
        BY <1>1, <1>3
      <3> QED BY <1>2, <3>1
    <2> QED BY <1>1, <1>2, <1>3, <2>1 DEF Pending, t
  <1>4. CASE n # 1
    <2>1. n - 1 \in 1 .. Len(t) /\ t[n - 1] = q[n]
      BY <1>1, <1>4
    <2>2. \A m \in 1 .. Len(t) : m > n - 1 => Key(t[m]) # k
      <3> TAKE m \in 1 .. Len(t)
      <3> HAVE m > n - 1
      <3>1. t[m] = q[m + 1] /\ m + 1 \in 1 .. Len(q) /\ m + 1 > n
        BY <1>1
      <3> QED BY <1>2, <3>1
    <2> QED BY <1>2, <2>1, <2>2 DEF Last, t
  <1> QED BY <1>3, <1>4

LEMMA PendingInTail ==
    ASSUME NEW q \in Seq(Record), q # <<>>, NEW k, ~Pending(q, k)
    PROVE  ~Pending(Tail(q), k) /\ Key(Head(q)) # k
  <1> DEFINE t == Tail(q)
  <1>1. /\ Len(q) \in Nat /\ Len(q) >= 1 /\ Len(t) = Len(q) - 1 /\ Head(q) = q[1]
        /\ \A n \in 1 .. Len(q) - 1 : t[n] = q[n + 1]
    BY HeadWaits
  <1> HIDE DEF t
  <1>2. \A m \in 1 .. Len(t) : t[m] = q[m + 1] /\ m + 1 \in 1 .. Len(q)
    BY <1>1
  <1>3. \A m \in 1 .. Len(t) : Key(t[m]) # k
    BY <1>2 DEF Pending
  <1>4. 1 \in 1 .. Len(q)
    BY <1>1
  <1> QED BY <1>1, <1>3, <1>4 DEF Pending, t

\* Records joined to a queue: a key that is not among them keeps its last
\* record, one that is there once has it there.
LEMMA Joined ==
    ASSUME NEW q \in Seq(Record), NEW u \in Seq(Record), NEW k
    PROVE  /\ ~Pending(u, k) => /\ Pending(q \o u, k) => Pending(q, k)
                                /\ \A st : Last(q, k, st) => Last(q \o u, k, st)
           /\ \A n \in 1 .. Len(u) :
                (Key(u[n]) = k /\ \A m \in 1 .. Len(u) : Key(u[m]) = k => m = n)
                    => Last(q \o u, k, u[n].st)
  <1> DEFINE j == q \o u
  <1>1. /\ Len(q) \in Nat /\ Len(u) \in Nat /\ Len(j) = Len(q) + Len(u)
        /\ \A n \in 1 .. Len(q) : j[n] = q[n]
        /\ \A n \in 1 .. Len(u) : j[Len(q) + n] = u[n]
    OBVIOUS
  <1> HIDE DEF j
  <1>2. ASSUME NEW m \in 1 .. Len(j), m > Len(q)
        PROVE  m - Len(q) \in 1 .. Len(u) /\ j[m] = u[m - Len(q)]
    <2>1. m - Len(q) \in 1 .. Len(u) /\ Len(q) + (m - Len(q)) = m
      BY <1>1, <1>2
    <2> QED BY <1>1, <2>1
  <1>3. ASSUME ~Pending(u, k)
        PROVE  \A m \in 1 .. Len(j) : m > Len(q) => Key(j[m]) # k
    BY <1>2, <1>3 DEF Pending
  <1>4. ASSUME ~Pending(u, k), Pending(j, k)
        PROVE  Pending(q, k)
    <2>1. PICK m \in 1 .. Len(j) : Key(j[m]) = k
      BY <1>4 DEF Pending
    <2>2. m \in 1 .. Len(q)
      BY <1>1, <1>3, <1>4, <2>1
    <2> QED BY <1>1, <2>1, <2>2 DEF Pending
  <1>5. ASSUME ~Pending(u, k), NEW st, Last(q, k, st)
        PROVE  Last(j, k, st)
    <2>1. PICK n \in 1 .. Len(q) : /\ Key(q[n]) = k /\ q[n].st = st
                                   /\ \A m \in 1 .. Len(q) : m > n => Key(q[m]) # k
      BY <1>5 DEF Last
    <2>2. n \in 1 .. Len(j) /\ j[n] = q[n]
      BY <1>1
    <2>3. \A m \in 1 .. Len(j) : m > n => Key(j[m]) # k
      <3> TAKE m \in 1 .. Len(j)
      <3>1. CASE m > Len(q)
        BY <1>3, <1>5, <3>1
      <3>2. CASE ~(m > Len(q))
        <4>1. m \in 1 .. Len(q)
          BY <1>1, <3>2
        <4> QED BY <1>1, <2>1, <4>1
      <3> QED BY <3>1, <3>2
    <2> QED BY <2>1, <2>2, <2>3 DEF Last
  <1>6. ASSUME NEW n \in 1 .. Len(u), Key(u[n]) = k,
               \A m \in 1 .. Len(u) : Key(u[m]) = k => m = n
        PROVE  Last(j, k, u[n].st)
    <2>1. Len(q) + n \in 1 .. Len(j) /\ j[Len(q) + n] = u[n]
      BY <1>1
    <2>2. \A m \in 1 .. Len(j) : m > Len(q) + n => Key(j[m]) # k
      <3> TAKE m \in 1 .. Len(j)
      <3> HAVE m > Len(q) + n
      <3>1. m > Len(q) /\ m - Len(q) # n
        BY <1>1
      <3> QED BY <1>2, <1>6, <3>1
    <2> QED BY <1>6, <2>1, <2>2 DEF Last
  <1> QED BY <1>4, <1>5, <1>6 DEF j

-----------------------------------------------------------------------------
(* Steps *)

\* Marked, with the list as a parameter.
MarkedIn(q, i) == \E n \in 1 .. Len(q) : q[n] = i

\* Marking adds a mark and repeats none.
LEMMA MarkKeeps ==
    ASSUME updatedOrders \in Seq(Nat), MarksDistinct, NEW i \in Nat, Mark(i)
    PROVE  /\ MarksDistinct' /\ MarkedIn(updatedOrders', i)
           /\ \A j : Marked(j) => MarkedIn(updatedOrders', j)
  <1>1. CASE Marked(i)
    BY <1>1 DEF Mark, MarksDistinct, Marked, MarkedIn
  <1>2. CASE ~Marked(i)
    <2>1. updatedOrders' = Append(updatedOrders, i)
      BY <1>2 DEF Mark
    <2>2. /\ Len(updatedOrders) \in Nat
          /\ Len(updatedOrders') = Len(updatedOrders) + 1
          /\ updatedOrders'[Len(updatedOrders) + 1] = i
          /\ \A n \in 1 .. Len(updatedOrders) : updatedOrders'[n] = updatedOrders[n]
      BY <2>1
    <2>3. MarksDistinct'
      <3> SUFFICES ASSUME NEW m \in 1 .. Len(updatedOrders'), NEW n \in 1 .. Len(updatedOrders'),
                          updatedOrders'[m] = updatedOrders'[n]
                   PROVE  m = n
        BY DEF MarksDistinct
      <3>1. \A x \in 1 .. Len(updatedOrders') :
                x \in 1 .. Len(updatedOrders) \/ x = Len(updatedOrders) + 1
        BY <2>2
      <3> QED BY <1>2, <2>2, <3>1 DEF MarksDistinct, Marked
    <2>4. \A x \in 1 .. Len(updatedOrders) : x \in 1 .. Len(updatedOrders')
      BY <2>2
    <2>5. Len(updatedOrders) + 1 \in 1 .. Len(updatedOrders')
      BY <2>2
    <2> QED BY <2>2, <2>3, <2>4, <2>5 DEF Marked, MarkedIn
  <1> QED BY <1>1, <1>2

\* An order whose slot, record, mark and writes stay as they are.
LEMMA StaysMarkedOrKept ==
    ASSUME NEW r \in Known, MarkedOrKept(r), extId'[r] = extId[r],
           ordersArray'[extId[r]] = ordersArray[extId[r]],
           Marked(extId[r]) => MarkedIn(updatedOrders', extId[r]),
           UNCHANGED <<saves, db, refused>>
    PROVE  MarkedOrKept(r)'
  <1> DEFINE o == ordersArray[extId[r]]
  <1>1. ordersArray'[extId'[r]] = o
    OBVIOUS
  <1>2. CASE Marked(extId[r])
    BY <1>2 DEF MarkedOrKept, Marked, MarkedIn
  <1>3. ASSUME NEW k, NEW st, Kept(k, st)
        PROVE  Kept(k, st)'
    BY <1>3 DEF Kept, Last, Pending, Key
  <1>4. CASE Kept(Key(o), o.st)
    <2> PICK x : x = o
      OBVIOUS
    <2>1. Kept(Key(x), x.st)'
      BY <1>3, <1>4 DEF Key
    <2> QED BY <1>1, <2>1 DEF MarkedOrKept
  <1> QED BY <1>2, <1>4 DEF MarkedOrKept

\* An item that comes in marks the slot it changes.
LEMMA ItemKeepsSaves ==
    ASSUME LocalIdsDistinct, StorageInv, SavesInv, NEW o \in Record, AddOrder(o),
           UNCHANGED <<saves, db, refused>>
    PROVE  SavesInv'
  <1>1. /\ ordersArray \in Seq(Record) /\ updatedOrders \in Seq(Nat)
        /\ o \in Record /\ MarksDistinct
    BY RecordType DEF StorageInv, StorageTypeOK, SavesInv
  <1>2. CASE ~KnownRemote(o) /\ ~KnownLocal(o) /\ AddNew(o)
    <2> DEFINE new == Len(ordersArray) + 1
    <2>1. /\ ordersArray' = Append(ordersArray, o) /\ extId' = With(extId, o.rid, new)
          /\ Mark(new) /\ new \in Nat
      BY <1>1, <1>2 DEF AddNew
    <2>2. /\ MarksDistinct' /\ MarkedIn(updatedOrders', new)
          /\ \A j : Marked(j) => MarkedIn(updatedOrders', j)
      BY <1>1, <2>1, MarkKeeps
    <2> HIDE DEF new
    <2>3. ASSUME NEW r \in Known'
          PROVE  MarkedOrKept(r)'
      <3>1. CASE r = o.rid
        <4>1. extId'[r] = new
          BY <2>1, <3>1 DEF With
        <4> QED BY <2>2, <4>1 DEF MarkedOrKept, Marked, MarkedIn
      <3>2. CASE r # o.rid
        <4>1. r \in Known /\ extId'[r] = extId[r]
          BY <2>1, <3>2 DEF With, Known
        <4>2. ordersArray'[extId[r]] = ordersArray[extId[r]]
          BY <1>1, <2>1, <4>1, KnownRecord DEF Slots
        <4> QED BY <2>2, <4>1, <4>2, StaysMarkedOrKept DEF SavesInv
      <3> QED BY <3>1, <3>2
    <2> QED BY <2>2, <2>3 DEF SavesInv
  <1>3. CASE (KnownRemote(o) \/ KnownLocal(o)) /\ UpdateOrder(o)
    <2> DEFINE e == extId[o.rid]
    <2>1. SlotOf(o.rid) = e /\ e \in Slots /\ e \in Nat /\ o.rid \in DOMAIN extId
      BY <1>3, KnownIsIndexed DEF Slots
    <2>2. /\ extId' = extId
          /\ \/ ordersArray' = [ordersArray EXCEPT ![e] = o] /\ Mark(e)
             \/ UNCHANGED <<ordersArray, updatedOrders>>
      BY <1>3, <2>1 DEF UpdateOrder, ReplaceRecord
    <2>3. CASE UNCHANGED <<ordersArray, updatedOrders>>
      <3>1. \A r \in Known : MarkedOrKept(r)'
        BY <2>2, <2>3, StaysMarkedOrKept DEF SavesInv, Marked, MarkedIn
      <3> QED BY <1>1, <2>2, <2>3, <3>1 DEF SavesInv, Known, MarksDistinct
    <2>4. CASE ordersArray' = [ordersArray EXCEPT ![e] = o] /\ Mark(e)
      <3>1. /\ MarksDistinct' /\ MarkedIn(updatedOrders', e)
            /\ \A j : Marked(j) => MarkedIn(updatedOrders', j)
        BY <1>1, <2>1, <2>4, MarkKeeps
      <3>2. ASSUME NEW r \in Known
            PROVE  MarkedOrKept(r)'
        <4>1. CASE r = o.rid
          BY <2>2, <3>1, <4>1 DEF MarkedOrKept, Marked, MarkedIn
        <4>2. CASE r # o.rid
          <5>1. extId[r] # e /\ extId[r] \in Slots
            BY <2>1, <4>2, KnownRecord DEF StorageInv, IndexesAgree
          <5>2. ordersArray'[extId[r]] = ordersArray[extId[r]]
            BY <1>1, <2>4, <5>1 DEF Slots
          <5> QED BY <2>2, <3>1, <5>2, StaysMarkedOrKept DEF SavesInv
        <4> QED BY <4>1, <4>2
      <3> QED BY <2>2, <3>1, <3>2 DEF SavesInv, Known
    <2> QED BY <2>2, <2>3, <2>4
  <1> QED BY <1>2, <1>3 DEF AddOrder

\* checkUpdates hands over what is marked: its records have different keys, and
\* become the last of theirs.
LEMMA UpdatesKeepSaves ==
    ASSUME LocalIdsDistinct, IInv, SavesInv, CheckUpdates
    PROVE  SavesInv'
  <1> DEFINE u == UpdatedRecords
  <1>1. StorageInv /\ saves \in Seq(Record)
    BY InvParts DEF ProcessInv
  <1>2. /\ saves' = saves \o u /\ updatedOrders' = <<>>
        /\ UNCHANGED <<ordersArray, extId, db, refused>>
    BY DEF CheckUpdates, indexes
  <1>3. /\ updatedOrders \in Seq(Nat) /\ Len(updatedOrders) \in Nat
        /\ \A n \in 1 .. Len(updatedOrders) : updatedOrders[n] \in Slots
    BY <1>1 DEF StorageInv, StorageTypeOK, IndexesInRange
  <1>4. u \in Seq(Record) /\ Len(u) = Len(updatedOrders)
        /\ \A n \in 1 .. Len(u) : u[n] = ordersArray[updatedOrders[n]]
    <2>1. \A n \in 1 .. Len(updatedOrders) : ordersArray[updatedOrders[n]] \in Record
      BY <1>1, <1>3, SlotType DEF StorageInv
    <2>2. /\ u \in [1 .. Len(updatedOrders) -> Record]
          /\ \A n \in 1 .. Len(updatedOrders) : u[n] = ordersArray[updatedOrders[n]]
      BY <2>1 DEF UpdatedRecords
    <2> HIDE DEF u
    <2>3. u \in Seq(Record) /\ Len(u) = Len(updatedOrders)
      BY <1>3, <2>2, FunctionIsSeq
    <2> QED BY <2>2, <2>3
  <1> HIDE DEF u
  <1>5. ASSUME NEW r \in Known
        PROVE  LET o == ordersArray[extId[r]] IN Kept(Key(o), o.st)'
    <2> DEFINE o == ordersArray[extId[r]]
               k == Key(o)
               st == o.st
    <2>1. o \in Record /\ o.rid = r /\ r # NoRemote /\ extId[r] \in Slots
      BY <1>1, KnownRecord
    <2>2. ASSUME NEW n \in 1 .. Len(u), Key(u[n]) = k
          PROVE  updatedOrders[n] = extId[r]
      <3>1. u[n] \in Record
        BY <1>4
      <3>2. u[n].rid = r
        BY <2>1, <2>2, <3>1, KeyTellsOrder
      <3> QED BY <1>1, <1>3, <1>4, <3>2 DEF StorageInv, IndexesAgree
    <2>3. CASE Marked(extId[r])
      <3>1. PICK n \in 1 .. Len(u) : updatedOrders[n] = extId[r]
        BY <1>4, <2>3 DEF Marked
      <3>2. u[n] = o
        BY <1>4, <3>1
      <3>3. \A m \in 1 .. Len(u) : Key(u[m]) = k => m = n
        BY <1>4, <2>2, <3>1 DEF SavesInv, MarksDistinct
      <3> HIDE DEF k, o
      <3>4. Last(saves \o u, k, u[n].st)
        BY <1>1, <1>4, <3>2, <3>3, Joined DEF k
      <3>5. Last(saves', k, st)
        BY <1>2, <3>2, <3>4
      <3> QED BY <1>2, <3>5 DEF Kept, Last, k, o, Key
    <2>4. CASE ~Marked(extId[r])
      <3>1. ~Pending(u, k)
        BY <1>4, <2>2, <2>4 DEF Pending, Marked
      <3>2. Kept(k, st)
        BY <2>4 DEF SavesInv, MarkedOrKept
      <3> HIDE DEF k, o, st
      <3>3. /\ Pending(saves \o u, k) => Pending(saves, k)
            /\ Last(saves, k, st) => Last(saves \o u, k, st)
        BY <1>1, <1>4, <3>1, Joined
      <3>4. \/ Last(saves', k, st)
            \/ ~Pending(saves', k) /\ ((k \in DOMAIN db' /\ db'[k].st = st) \/ k \in refused')
        BY <1>2, <3>2, <3>3 DEF Kept
      <3> QED BY <1>2, <3>4 DEF Kept, Last, Pending, k, o, st, Key
    <2> QED BY <2>3, <2>4
  <1>6. MarksDistinct'
    BY <1>2 DEF MarksDistinct
  <1> QED BY <1>2, <1>5, <1>6 DEF SavesInv, MarkedOrKept, Known

\* A save that is handled gives its row its status, or is refused.
LEMMA WriterKeepsSaves ==
    ASSUME LocalIdsDistinct, IInv, SavesInv, SaveOrder \/ SaveOrderFails
    PROVE  SavesInv'
  <1> DEFINE h == Head(saves)
  <1>1. StorageInv /\ saves \in Seq(Record)
    BY InvParts DEF ProcessInv
  <1>2. /\ saves # <<>> /\ saves' = Tail(saves) /\ UNCHANGED storage
    BY DEF SaveOrder, SaveOrderFails
  <1>3. UNCHANGED <<ordersArray, extId, updatedOrders>>
    BY <1>2 DEF storage, indexes
  <1>4. h \in Record
    BY <1>1, <1>2, HeadWaits
  <1>5. \/ /\ SaveOrder /\ refused' = refused \ {Key(h)}
           /\ db' = IF h.rid = NoRemote THEN db ELSE Upsert(h)
        \/ /\ SaveOrderFails /\ refused' = refused \cup {Key(h)} /\ db' = db
    BY DEF SaveOrder, SaveOrderFails
  <1> HIDE DEF h
  <1>6. ASSUME NEW r \in Known, NEW k, NEW st, Kept(k, st),
               k = Key(ordersArray[extId[r]])
        PROVE  \/ Last(saves', k, st)
               \/ ~Pending(saves', k) /\ ((k \in DOMAIN db' /\ db'[k].st = st) \/ k \in refused')
    <2>1. CASE Last(saves', k, st)
      BY <2>1
    <2>2. CASE ~Last(saves', k, st) /\ Last(saves, k, st)
      <3>1. Key(h) = k /\ h.st = st /\ ~Pending(saves', k)
        BY <1>1, <1>2, <2>2, LastInTail DEF h
      <3>2. h.rid # NoRemote
        BY <1>1, <1>4, <1>6, <3>1, KnownRecord, KeyTellsOrder
      <3>3. CASE SaveOrder /\ db' = Upsert(h)
        BY <3>1, <3>3 DEF Upsert, With
      <3>4. CASE k \in refused'
        BY <3>1, <3>4
      <3> QED BY <1>5, <3>1, <3>2, <3>3, <3>4
    <2>3. CASE ~Last(saves, k, st)
      <3>1. ~Pending(saves, k) /\ ((k \in DOMAIN db /\ db[k].st = st) \/ k \in refused)
        BY <1>6, <2>3 DEF Kept
      <3>2. ~Pending(saves', k) /\ Key(h) # k
        BY <1>1, <1>2, <3>1, PendingInTail DEF h
      <3>3. k \in DOMAIN db => k \in DOMAIN db' /\ db'[k] = db[k]
        BY <1>5, <3>2 DEF Upsert, With
      <3> QED BY <1>5, <3>1, <3>2, <3>3
    <2> QED BY <2>1, <2>2, <2>3
  <1>7. ASSUME NEW r \in Known
        PROVE  MarkedOrKept(r)'
    <2> DEFINE k == Key(ordersArray[extId[r]])
               st == ordersArray[extId[r]].st
    <2>1. CASE Marked(extId[r])
      BY <1>3, <2>1 DEF MarkedOrKept, Marked
    <2>2. CASE Kept(k, st)
      <3> HIDE DEF k, st
      <3>1. \/ Last(saves', k, st)
            \/ ~Pending(saves', k) /\ ((k \in DOMAIN db' /\ db'[k].st = st) \/ k \in refused')
        BY <1>6, <2>2 DEF k
      <3> QED BY <1>3, <3>1 DEF MarkedOrKept, Kept, Last, Pending, k, st, Key
    <2> QED BY <2>1, <2>2 DEF SavesInv, MarkedOrKept
  <1> QED BY <1>3, <1>7 DEF SavesInv, Known, MarksDistinct

\* A step that touches neither storage nor saves nor rows.
LEMMA OthersKeepSaves ==
    ASSUME SavesInv, UNCHANGED storage, UNCHANGED <<saves, db, refused>>
    PROVE  SavesInv'
  <1>1. UNCHANGED <<ordersArray, extId, updatedOrders>>
    BY DEF storage, indexes
  <1>2. \A r \in Known : MarkedOrKept(r)'
    BY <1>1, StaysMarkedOrKept DEF SavesInv, Marked, MarkedIn
  <1> QED BY <1>1, <1>2 DEF SavesInv, Known, MarksDistinct

LEMMA SavesStep ==
    ASSUME LocalIdsDistinct, IInv, SavesInv, [Next]_vars
    PROVE  SavesInv'
  <1>1. StorageInv /\ ProcessInv /\ TypeOK
    BY InvParts DEF IInv
  <1>2. CASE Exchange
    <2>1. Elsewhere
      BY <1>1, <1>2, ExchangeStep
    <2> QED BY <2>1, OthersKeepSaves DEF Elsewhere
  <1>3. CASE Deliver \/ Restart
    BY <1>3, OthersKeepSaves DEF Deliver, Restart
  <1>4. CASE HandleItem
    <2>1. Head(items) \in Record
      BY <1>1, <1>4 DEF HandleItem, ProcessInv
    <2> QED BY <1>1, <1>4, <2>1, ItemKeepsSaves DEF HandleItem
  <1>5. CASE ReadOpen \/ Maintain
    BY <1>1, <1>5, ReadsChangeNothing, OthersKeepSaves DEF ReadOpen, Maintain
  <1>6. CASE CheckUpdates
    BY <1>6, UpdatesKeepSaves
  <1>7. CASE SaveOrder \/ SaveOrderFails
    BY <1>7, WriterKeepsSaves
  <1>8. CASE Crash
    <2>1. extId' = NoOrders /\ updatedOrders' = <<>>
      BY <1>8 DEF Crash
    <2> QED BY <2>1 DEF SavesInv, Known, MarksDistinct, NoOrders
  <1>9. CASE UNCHANGED vars
    BY <1>9, OthersKeepSaves DEF vars
  <1> QED BY <1>2, <1>3, <1>4, <1>5, <1>6, <1>7, <1>8, <1>9 DEF Next

-----------------------------------------------------------------------------
(* Theorems *)

\* LastSave is the last one.
LEMMA LastIsLastSave ==
    ASSUME saves \in Seq(Record), NEW k, NEW st, Last(saves, k, st)
    PROVE  Pending(saves, k) /\ LastSave(k).st = st
  <1> DEFINE mine == {n \in 1 .. Len(saves) : Key(saves[n]) = k}
             last == CHOOSE n \in mine : \A m \in mine : m <= n
  <1>1. PICK n \in 1 .. Len(saves) : /\ Key(saves[n]) = k /\ saves[n].st = st
                                     /\ \A m \in 1 .. Len(saves) : m > n => Key(saves[m]) # k
    BY DEF Last
  <1>2. n \in mine /\ \A m \in mine : m <= n
    BY <1>1
  <1>3. last \in mine /\ \A m \in mine : m <= last
    BY <1>2
  <1>4. last <= n /\ n <= last
    BY <1>2, <1>3
  <1>5. last = n
    <2>1. last \in Nat /\ n \in Nat
      BY <1>2, <1>3
    <2> HIDE DEF last
    <2> QED BY <1>4, <2>1
  <1> QED BY <1>1, <1>5 DEF LastSave, Pending

\* In any order of answers, across crashes and refused writes, an order the
\* worker knows has its status in its row, or is marked, or its last save on the
\* way has it, or the database refused it (addOrder, checkUpdates, onSaveOrder).
THEOREM UnsavedAlwaysMarked ==
    ASSUME LocalIdsDistinct
    PROVE  Spec => []UnsavedIsMarked
  <1>1. Init => SavesInv
    <2>1. Init => extId = NoOrders /\ updatedOrders = <<>>
      BY DEF Init, StorageInit
    <2> QED BY <2>1 DEF SavesInv, Known, MarksDistinct, NoOrders
  <1>2. IInv /\ SavesInv /\ [Next]_vars => SavesInv'
    BY SavesStep
  <1>3. IInv /\ SavesInv => UnsavedIsMarked
    <2> SUFFICES ASSUME IInv, SavesInv, NEW r \in Known, ~Marked(extId[r])
                 PROVE  LET o == ordersArray[extId[r]] IN
                        IF \E n \in 1 .. Len(saves) : Key(saves[n]) = Key(o)
                        THEN LastSave(Key(o)).st = o.st
                        ELSE Saved(o) \/ Key(o) \in refused
      BY DEF UnsavedIsMarked, Known
    <2> DEFINE o == ordersArray[extId[r]]
    <2>1. saves \in Seq(Record)
      BY DEF IInv, TypeOK
    <2>2. Kept(Key(o), o.st)
      BY DEF SavesInv, MarkedOrKept
    <2>3. Last(saves, Key(o), o.st)
            => Pending(saves, Key(o)) /\ LastSave(Key(o)).st = o.st
      BY <2>1, LastIsLastSave
    <2> QED BY <2>2, <2>3 DEF Kept, Pending, Saved
  <1> QED BY <1>1, <1>2, <1>3, WorkerInvariant, PTL DEF Spec

-----------------------------------------------------------------------------
(* The way from the exchange.  ReopenedOnlyBySwap says nothing of answers on *)
(* their way; LineInv says that after a closing, wherever it is known, no   *)
(* answer comes that has the order open, unless the two were swapped.       *)

\* The items i being handled, then the answers f on their way.
Event(i, f, n) == IF n = 0 THEN i ELSE f[n]

Opens(i, f, r) == \E n \in 0 .. Len(f) : OpenIn(Event(i, f, n), r)

\* A closing in the line has no opening of its order in its event or behind it.
Sorted(i, f, r) ==
    \A m, n \in 0 .. Len(f) :
        m <= n /\ ClosedIn(Event(i, f, m), r) => ~OpenIn(Event(i, f, n), r)

\* A closing that is listed, to be saved or saved is the last word, but of
\* orders that were swapped.
Done(r) == r \in swapped \/ ~Opens(items, feed, r)
LineInv ==
    /\ \A r \in DOMAIN closedOrders : Done(r)
    /\ \A n \in 1 .. Len(saves) : saves[n].st > 1 => Done(saves[n].rid)
    /\ \A k \in DOMAIN db : db[k].st > 1 => Done(db[k].rid)
    /\ ~Opens(items, feed, NoRemote)
    /\ \A r \in Ids : r \in swapped \/ Sorted(items, feed, r)

\* A line that opens no more and stays sorted, with the closings that were known.
LEMMA LineStays ==
    ASSUME LineInv, swapped \subseteq swapped',
           \A r \in Ids : r \in swapped' \/ (Opens(items, feed, r)' => Opens(items, feed, r)),
           Opens(items, feed, NoRemote)' => Opens(items, feed, NoRemote),
           \A r \in Ids : r \in swapped' \/ (Sorted(items, feed, r) => Sorted(items, feed, r)')
    PROVE  /\ \A r \in Ids : Done(r) => Done(r)'
           /\ ~Opens(items, feed, NoRemote)'
           /\ \A r \in Ids : r \in swapped' \/ Sorted(items, feed, r)'
  BY DEF LineInv, Done

\* The orders that LineInv speaks of.
LEMMA LineIds ==
    ASSUME IInv
    PROVE  /\ DOMAIN closedOrders \subseteq Ids
           /\ \A n \in 1 .. Len(saves) : saves[n].rid \in Ids
           /\ \A k \in DOMAIN db : db[k].rid \in Ids
  <1>1. /\ IsMap(closedOrders, Ids, Nat) /\ saves \in Seq(Record) /\ IsMap(db, Local, Row)
    BY DEF IInv, TypeOK, StorageTypeOK
  <1>2. \A o \in Record : o.rid \in Ids
    BY RecordType
  <1> QED BY <1>1, <1>2 DEF IsMap, Row, Ids

\* What an answer says of a named order is so when it is given.
SaysNow(s, f) ==
    \A n \in 1 .. Len(s) :
        IF s[n].rid = NoRemote THEN s[n].st > 1 ELSE f[s[n].rid] = s[n].st

LEMMA OneItem ==
    ASSUME NEW r \in Ids, NEW l \in LocalIds[r], NEW st \in 1 .. 3
    PROVE  LET s == <<[rid |-> r, lid |-> l, st |-> st]>> IN
           s \in Seq(Record) /\ Len(s) = 1 /\ s[1].rid = r /\ s[1].st = st
  <1> DEFINE o == [rid |-> r, lid |-> l, st |-> st]
  <1>1. o \in Record /\ o.rid = r /\ o.st = st
    BY IdsOK DEF Record, Ids, Status
  <1> HIDE DEF o
  <1>2. <<o>> \in Seq(Record) /\ Len(<<o>>) = 1 /\ <<o>>[1] = o
    BY <1>1
  <1> QED BY <1>1, <1>2 DEF o

LEMMA AnswersSayNow ==
    ASSUME TypeOK, Exchange, feed' # feed
    PROVE  \E s \in Seq(Record) : feed' = Append(feed, s) /\ SaysNow(s, real')
  <1>1. real \in [Remote -> 0 .. 3] /\ NoRemote \notin Remote
    BY ProcessTypes, IdsOK
  <1>2. ASSUME NEW r \in Remote, ExchangePlaces(r)
        PROVE  \E s \in Seq(Record) : feed' = Append(feed, s) /\ SaysNow(s, real')
    <2>1. PICK st \in {1, 2}, l \in LocalIds[r] :
            /\ real' = [real EXCEPT ![r] = st]
            /\ Answer(<<[rid |-> r, lid |-> l, st |-> st]>>)
      BY <1>2 DEF ExchangePlaces
    <2> DEFINE s == <<[rid |-> r, lid |-> l, st |-> st]>>
    <2>2. s \in Seq(Record) /\ Len(s) = 1 /\ s[1].rid = r /\ s[1].st = st
      <3>1. r \in Ids /\ st \in 1 .. 3
        BY DEF Ids
      <3> QED BY <3>1, OneItem
    <2>3. feed' = Append(feed, s)
      BY <2>1 DEF Answer
    <2> HIDE DEF s
    <2>4. SaysNow(s, real')
      BY <1>1, <2>1, <2>2 DEF SaysNow
    <2> QED BY <2>2, <2>3, <2>4
  <1>3. ASSUME NEW r \in Remote, ExchangeCancels(r)
        PROVE  \E s \in Seq(Record) : feed' = Append(feed, s) /\ SaysNow(s, real')
    <2>1. LocalIds[NoRemote] = {Blank}
      BY NamelessOK
    <2>2. PICK q \in {r, NoRemote}, l \in Local :
            /\ l \in LocalIds[q]
            /\ Answer(<<[rid |-> q, lid |-> l, st |-> 3]>>)
      <3>1. CASE r \in Unnamed
        BY <1>3, <2>1, <3>1, IdsOK DEF ExchangeCancels
      <3>2. CASE r \notin Unnamed
        <4>1. PICK l \in LocalIds[r] : Answer(<<[rid |-> r, lid |-> l, st |-> 3]>>)
          BY <1>3, <3>2 DEF ExchangeCancels
        <4>2. l \in Local
          BY IdsOK
        <4> QED BY <4>1, <4>2
      <3> QED BY <3>1, <3>2
    <2> DEFINE s == <<[rid |-> q, lid |-> l, st |-> 3]>>
    <2>3. s \in Seq(Record) /\ Len(s) = 1 /\ s[1].rid = q /\ s[1].st = 3
      <3>1. q \in Ids /\ 3 \in 1 .. 3
        BY DEF Ids
      <3> QED BY <2>2, <3>1, OneItem
    <2>4. feed' = Append(feed, s) /\ real' = [real EXCEPT ![r] = 3]
      BY <1>3, <2>2 DEF Answer, ExchangeCancels
    <2> HIDE DEF s
    <2>5. SaysNow(s, real')
      BY <1>1, <2>3, <2>4 DEF SaysNow
    <2> QED BY <2>3, <2>4, <2>5
  <1>4. CASE ExchangeListsOpen \/ ExchangeListsClosed
    <2>1. PICK S \in SUBSET Remote :
            (\E s \in Listings(S) : Answer(s)) /\ UNCHANGED real
      BY <1>4 DEF ExchangeListsOpen, ExchangeListsClosed
    <2> PICK s \in Listings(S) : Answer(s)
      BY <2>1
    <2>2. s \in Seq(Record) /\ DOMAIN s = 1 .. Len(s)
      BY ListingsTrue
    <2>3. \A n \in DOMAIN s : s[n].rid \in S /\ s[n].st = real[s[n].rid]
      BY DEF Listings
    <2>4. SaysNow(s, real')
      BY <1>1, <2>1, <2>2, <2>3 DEF SaysNow
    <2>5. feed' = Append(feed, s)
      BY DEF Answer
    <2> QED BY <2>2, <2>4, <2>5
  <1>5. ASSUME NEW r \in Remote, ExchangeFills(r)
        PROVE  FALSE
    BY <1>5 DEF ExchangeFills
  <1> QED BY <1>2, <1>3, <1>4, <1>5 DEF Exchange

\* An answer is added to the line.
LEMMA LineGrows ==
    ASSUME NEW i, NEW f \in Seq(Seq(Record)), NEW s \in Seq(Record),
           NEW g, g = Append(f, s), NEW r
    PROVE  /\ Opens(i, g, r) => Opens(i, f, r) \/ OpenIn(s, r)
           /\ (/\ Sorted(i, f, r)
               /\ OpenIn(s, r) =>
                    /\ ~ClosedIn(s, r)
                    /\ \A m \in 0 .. Len(f) : ~ClosedIn(Event(i, f, m), r))
              => Sorted(i, g, r)
  <1>1. /\ Len(f) \in Nat /\ Len(g) = Len(f) + 1 /\ g[Len(f) + 1] = s
        /\ \A n \in 1 .. Len(f) : g[n] = f[n]
    OBVIOUS
  <1>2. \A n \in 0 .. Len(g) :
            \/ n \in 0 .. Len(f) /\ Event(i, g, n) = Event(i, f, n)
            \/ n = Len(f) + 1 /\ Event(i, g, n) = s
    BY <1>1 DEF Event
  <1>3. Opens(i, g, r) => Opens(i, f, r) \/ OpenIn(s, r)
    BY <1>2 DEF Opens
  <1>4. ASSUME Sorted(i, f, r),
               OpenIn(s, r) =>
                    /\ ~ClosedIn(s, r)
                    /\ \A m \in 0 .. Len(f) : ~ClosedIn(Event(i, f, m), r),
               NEW m \in 0 .. Len(g), NEW n \in 0 .. Len(g),
               m <= n, ClosedIn(Event(i, g, m), r)
        PROVE  ~OpenIn(Event(i, g, n), r)
    <2>1. CASE n = Len(f) + 1 /\ Event(i, g, n) = s
      BY <1>2, <1>4, <2>1
    <2>2. CASE n \in 0 .. Len(f) /\ Event(i, g, n) = Event(i, f, n)
      <3>1. m \in 0 .. Len(f) /\ Event(i, g, m) = Event(i, f, m)
        BY <1>1, <1>2, <1>4, <2>2
      <3> QED BY <1>4, <2>2, <3>1 DEF Sorted
    <2> QED BY <1>2, <2>1, <2>2
  <1> QED BY <1>3, <1>4 DEF Sorted

\* Event number n becomes event number at[n], and may lose items on the way.  A
\* closing and an opening that swap places are not both left.
LEMMA LineMoves ==
    ASSUME NEW i, NEW f, NEW j, NEW g, NEW r, NEW at,
           \A n \in 0 .. Len(g) :
                /\ at[n] \in 0 .. Len(f)
                /\ OpenIn(Event(j, g, n), r) => OpenIn(Event(i, f, at[n]), r)
                /\ ClosedIn(Event(j, g, n), r) => ClosedIn(Event(i, f, at[n]), r)
    PROVE  /\ Opens(j, g, r) => Opens(i, f, r)
           /\ (/\ Sorted(i, f, r)
               /\ \A m, n \in 0 .. Len(g) :
                    m <= n /\ ClosedIn(Event(j, g, m), r) /\ OpenIn(Event(j, g, n), r)
                        => at[m] <= at[n])
              => Sorted(j, g, r)
  BY DEF Opens, Sorted

-----------------------------------------------------------------------------
(* Steps of the line *)

\* A closing anywhere in the process is one at the exchange.
LEMMA KnownClosings ==
    ASSUME IInv
    PROVE  /\ \A r \in DOMAIN closedOrders \ {NoRemote} : real[r] > 1
           /\ \A n \in 1 .. Len(saves) :
                saves[n].st > 1 /\ saves[n].rid # NoRemote => real[saves[n].rid] > 1
           /\ \A k \in DOMAIN db : db[k].st > 1 => real[db[k].rid] > 1
           /\ \A n \in 0 .. Len(feed) : \A r \in Ids :
                ClosedIn(Event(items, feed, n), r) /\ r # NoRemote => real[r] > 1
  <1>1. StorageInv /\ ProcessInv /\ Truthful
    BY InvParts DEF IInv
  <1>2. ASSUME NEW r \in DOMAIN closedOrders \ {NoRemote}
        PROVE  real[r] > 1
    <2>1. /\ extId[r] \in Slots /\ ordersArray[extId[r]].rid = r
          /\ ordersArray[extId[r]].st > 1
      BY <1>1 DEF StorageInv, IndexesAgree, IndexesInRange
    <2>2. Honest(ordersArray[extId[r]]) /\ ordersArray[extId[r]].st \in 1 .. 3
      BY <1>1, <2>1, SlotType DEF StorageInv, Truthful
    <2> QED BY <2>1, <2>2 DEF Honest
  <1>3. ASSUME NEW o \in Record, Honest(o), o.st > 1, o.rid # NoRemote
        PROVE  real[o.rid] > 1
    <2>1. o.st \in 1 .. 3
      BY RecordType
    <2> QED BY <1>3, <2>1 DEF Honest
  <1>4. \A n \in 1 .. Len(saves) :
            saves[n].st > 1 /\ saves[n].rid # NoRemote => real[saves[n].rid] > 1
    BY <1>1, <1>3 DEF ProcessInv, Truthful
  <1>5. \A k \in DOMAIN db : db[k].st > 1 => real[db[k].rid] > 1
    BY <1>1 DEF Truthful
  <1>6. ASSUME NEW n \in 0 .. Len(feed), NEW r \in Ids, ClosedIn(Event(items, feed, n), r), r # NoRemote
        PROVE  real[r] > 1
    <2> DEFINE q == Event(items, feed, n)
    <2>1. q \in Seq(Record) /\ \A k \in 1 .. Len(q) : Honest(q[k])
      BY <1>1 DEF ProcessInv, Truthful, Event
    <2> HIDE DEF q
    <2>2. PICK k \in 1 .. Len(q) : q[k].rid = r /\ q[k].st > 1
      BY <1>6 DEF ClosedIn, q
    <2>3. q[k] \in Record
      BY <2>1, <2>2
    <2> QED BY <1>3, <1>6, <2>1, <2>2, <2>3
  <1> QED BY <1>2, <1>4, <1>5, <1>6

\* A new answer comes last, and opens nothing that is known to be closed.
LEMMA AnswersKeepLine ==
    ASSUME IInv, LineInv, Exchange
    PROVE  LineInv'
  <1>1. StorageInv /\ ProcessInv /\ TypeOK
    BY InvParts DEF IInv
  <1>2. /\ UNCHANGED <<closedOrders, saves, db, items>>
        /\ \A r \in Remote : real[r] > 1 => real'[r] = real[r]
        /\ real \in [Remote -> 0 .. 3] /\ feed \in Seq(Seq(Record)) /\ swapped' = swapped
    BY <1>1, ExchangeStep DEF Elsewhere, storage, indexes, ProcessInv
  <1>3. CASE feed' = feed
    BY <1>2, <1>3 DEF LineInv, Done
  <1>4. CASE feed' # feed
    <2>1. PICK s \in Seq(Record) : feed' = Append(feed, s) /\ SaysNow(s, real')
      BY <1>1, <1>4, AnswersSayNow
    <2>2. ASSUME NEW r, OpenIn(s, r)
          PROVE  r \in Remote /\ ~(real[r] > 1) /\ ~ClosedIn(s, r)
      <3>1. PICK n \in 1 .. Len(s) : s[n].rid = r /\ s[n].st <= 1
        BY <2>2 DEF OpenIn
      <3>2. s[n].st \in 1 .. 3 /\ r \in Ids
        BY <3>1, RecordType
      <3>3. r \in Remote /\ real'[r] = s[n].st
        BY <2>1, <3>1, <3>2 DEF SaysNow, Ids
      <3>4. ~(real[r] > 1)
        BY <1>2, <3>1, <3>2, <3>3
      <3>5. ASSUME NEW m \in 1 .. Len(s), s[m].rid = r, s[m].st > 1
            PROVE  FALSE
        BY <2>1, <3>1, <3>2, <3>3, <3>5, IdsOK DEF SaysNow
      <3> QED BY <3>3, <3>4, <3>5 DEF ClosedIn
    <2>3. \A r : /\ Opens(items, feed', r) => Opens(items, feed, r) \/ OpenIn(s, r)
                 /\ (/\ Sorted(items, feed, r)
                     /\ OpenIn(s, r) =>
                          /\ ~ClosedIn(s, r)
                          /\ \A m \in 0 .. Len(feed) : ~ClosedIn(Event(items, feed, m), r))
                    => Sorted(items, feed', r)
      BY <1>2, <2>1, LineGrows
    <2>4. \A r \in Ids : r \in swapped \/ Sorted(items, feed', r)
      BY <2>2, <2>3, KnownClosings, IdsOK DEF LineInv
    <2>5. NoRemote \notin Remote
      BY IdsOK
    <2>6. /\ \A r \in DOMAIN closedOrders : ~OpenIn(s, r)
          /\ \A n \in 1 .. Len(saves) : saves[n].st > 1 => ~OpenIn(s, saves[n].rid)
          /\ \A k \in DOMAIN db : db[k].st > 1 => ~OpenIn(s, db[k].rid)
          /\ ~OpenIn(s, NoRemote)
      BY <2>2, <2>5, KnownClosings
    <2>7. \A r : ~OpenIn(s, r) /\ Done(r) => Done(r)'
      BY <1>2, <2>3 DEF Done
    <2>8. ~Opens(items, feed', NoRemote)
      BY <2>3, <2>6 DEF LineInv
    <2> QED BY <1>2, <2>4, <2>6, <2>7, <2>8 DEF LineInv
  <1> QED BY <1>3, <1>4

\* The event that arrives leaves the line to be handled.  It may overtake others:
\* where it has an order closed that one of them has open, the two are swapped.
LEMMA DeliverKeepsLine ==
    ASSUME IInv, LineInv, Deliver
    PROVE  LineInv'
  <1>1. feed \in Seq(Seq(Record))
    BY DEF IInv, TypeOK
  <1>2. UNCHANGED <<closedOrders, saves, db>>
    BY DEF Deliver, storage, indexes
  <1>3. PICK n \in 1 .. Len(feed) :
            /\ feed' = RemoveAt(feed, n)
            /\ items' = IF up THEN feed[n] ELSE <<>>
            /\ swapped' = swapped \cup
                 {r \in Remote : /\ up /\ ClosedIn(feed[n], r)
                                /\ \E m \in 1 .. n - 1 : OpenIn(feed[m], r)}
    BY DEF Deliver
  <1> DEFINE d == Len(feed) - 1
             at == [k \in 0 .. d |-> IF k = 0 THEN n ELSE IF k < n THEN k ELSE k + 1]
  <1>4. Len(feed) \in Nat /\ d \in Nat /\ n \in 1 .. d + 1
    BY <1>1, <1>3
  <1>5. feed' = [k \in 1 .. d |-> IF k < n THEN feed[k] ELSE feed[k + 1]]
    BY <1>3, <1>4 DEF RemoveAt
  <1>6. \A k \in 1 .. d + 1 : feed[k] \in Seq(Record)
    BY <1>1
  <1>7. feed' \in Seq(Seq(Record)) /\ Len(feed') = d
    <2> HIDE DEF d
    <2>1. feed' \in [1 .. d -> Seq(Record)]
      BY <1>4, <1>5, <1>6
    <2> QED BY <1>4, <2>1, FunctionIsSeq
  <1>8. \A r : ~OpenIn(<<>>, r) /\ ~ClosedIn(<<>>, r)
    BY DEF OpenIn, ClosedIn
  <1> HIDE DEF d
  <1>9. \A k \in 0 .. d :
            /\ at[k] \in 0 .. d + 1
            /\ \/ Event(items', feed', k) = Event(items, feed, at[k])
               \/ ~up /\ k = 0 /\ Event(items', feed', k) = <<>>
    BY <1>3, <1>4, <1>5 DEF Event
  <1>10. \A k, l \in 0 .. d : k <= l => at[k] <= at[l] \/ (k = 0 /\ at[k] = n /\ at[l] \in 1 .. n - 1)
    BY <1>4
  <1>11. \A k \in 1 .. d + 1 : Event(items, feed, k) = feed[k]
    BY DEF Event
  <1> HIDE DEF at
  <1>12. ASSUME NEW r
         PROVE  /\ Opens(items, feed, r)' => Opens(items, feed, r)
                /\ r \in Remote => r \in swapped' \/ (Sorted(items, feed, r) => Sorted(items, feed, r)')
    <2> DEFINE j == items'
               g == feed'
    <2>1. \A k \in 0 .. Len(g) :
            /\ at[k] \in 0 .. Len(feed)
            /\ OpenIn(Event(j, g, k), r) => OpenIn(Event(items, feed, at[k]), r)
            /\ ClosedIn(Event(j, g, k), r) => ClosedIn(Event(items, feed, at[k]), r)
      BY <1>4, <1>7, <1>8, <1>9 DEF d
    <2>2. ASSUME r \in Remote, r \notin swapped',
                 NEW k \in 0 .. Len(g), NEW l \in 0 .. Len(g), k <= l,
                 ClosedIn(Event(j, g, k), r), OpenIn(Event(j, g, l), r)
          PROVE  at[k] <= at[l]
      <3> SUFFICES ASSUME k = 0, at[k] = n, at[l] \in 1 .. n - 1
                   PROVE  FALSE
        BY <1>7, <1>10, <2>2
      <3>1. k \in 0 .. d /\ n \in 1 .. d + 1
        BY <1>4, <1>7
      <3>2. Event(items, feed, at[k]) = feed[n]
        BY <1>11, <3>1
      <3>3. up /\ ClosedIn(feed[n], r)
        <4>1. Event(j, g, k) # <<>>
          BY <1>8, <2>2
        <4>2. Event(j, g, k) = items'
          BY DEF Event
        <4>3. Event(j, g, k) = Event(items, feed, at[k])
          BY <1>9, <3>1, <4>1
        <4>4. up
          BY <1>3, <4>1, <4>2
        <4> QED BY <2>2, <3>2, <4>3, <4>4
      <3>4. OpenIn(feed[at[l]], r)
        BY <1>4, <1>11, <2>1, <2>2
      <3> QED BY <1>3, <2>2, <3>3, <3>4
    <2> HIDE DEF j, g
    <2>3. /\ Opens(j, g, r) => Opens(items, feed, r)
          /\ (/\ Sorted(items, feed, r)
              /\ \A k, l \in 0 .. Len(g) :
                   k <= l /\ ClosedIn(Event(j, g, k), r) /\ OpenIn(Event(j, g, l), r)
                       => at[k] <= at[l])
             => Sorted(j, g, r)
      BY <2>1, LineMoves
    <2> QED BY <2>2, <2>3 DEF j, g
  <1>13. Sorted(items, feed, NoRemote)'
    <2>1. ~Opens(items, feed, NoRemote)'
      BY <1>12 DEF LineInv
    <2> QED BY <2>1 DEF Opens, Sorted
  <1>14. swapped \subseteq swapped'
    BY <1>3
  <1>15. \A r \in Ids : r \in swapped' \/ (Sorted(items, feed, r) => Sorted(items, feed, r)')
    BY <1>12, <1>13 DEF Ids
  <1> QED BY <1>2, <1>12, <1>14, <1>15, LineStays, LineIds DEF LineInv

\* The items of a handler get fewer, or are gone.
LEMMA FewerItems ==
    ASSUME IInv, NEW j \in Seq(Record),
           \A r : /\ OpenIn(j, r) => OpenIn(items, r)
                  /\ ClosedIn(j, r) => ClosedIn(items, r)
    PROVE  \A r : /\ Opens(j, feed, r) => Opens(items, feed, r)
                  /\ Sorted(items, feed, r) => Sorted(j, feed, r)
  <1>1. \A n \in 0 .. Len(feed) : \A r :
            /\ OpenIn(Event(j, feed, n), r) => OpenIn(Event(items, feed, n), r)
            /\ ClosedIn(Event(j, feed, n), r) => ClosedIn(Event(items, feed, n), r)
    BY DEF Event
  <1> QED BY <1>1 DEF Opens, Sorted

\* What an item says of its order: open, and then the order is not listed as
\* closed; or closed, and then nothing behind it opens it; or it was swapped.
LEMMA ItemInLine ==
    ASSUME IInv, LineInv, items # <<>>
    PROVE  LET o == Head(items) IN
           /\ o \in Record
           /\ o.st <= 1 => o.rid \notin DOMAIN closedOrders \/ o.rid \in swapped
           /\ o.st > 1 => Done(o.rid)
           /\ \A r : /\ OpenIn(Tail(items), r) => OpenIn(items, r)
                     /\ ClosedIn(Tail(items), r) => ClosedIn(items, r)
  <1> DEFINE o == Head(items)
  <1>1. items \in Seq(Record) /\ feed \in Seq(Seq(Record)) /\ Len(feed) \in Nat
    BY DEF IInv, TypeOK
  <1>2. /\ Len(items) \in Nat /\ Len(Tail(items)) = Len(items) - 1 /\ o = items[1]
        /\ \A n \in 1 .. Len(items) - 1 : Tail(items)[n] = items[n + 1]
        /\ o \in Record /\ 1 \in 1 .. Len(items)
    BY <1>1, HeadWaits
  <1> HIDE DEF o
  <1>3. o.rid \in Ids
    BY <1>2, RecordType
  <1>4. 0 \in 0 .. Len(feed) /\ Event(items, feed, 0) = items
    BY <1>1 DEF Event
  <1>5. ASSUME o.st <= 1
        PROVE  o.rid \notin DOMAIN closedOrders \/ o.rid \in swapped
    <2>1. OpenIn(items, o.rid)
      BY <1>2, <1>5 DEF OpenIn
    <2> QED BY <1>4, <2>1 DEF LineInv, Opens, Done
  <1>6. ASSUME o.st > 1
        PROVE  Done(o.rid)
    <2>1. ClosedIn(items, o.rid)
      BY <1>2, <1>6 DEF ClosedIn
    <2>2. \A n \in 0 .. Len(feed) : 0 <= n
      BY <1>1
    <2> QED BY <1>3, <1>4, <2>1, <2>2, Zenon DEF LineInv, Opens, Sorted, Done
  <1>7. \A n \in 1 .. Len(Tail(items)) :
            n + 1 \in 1 .. Len(items) /\ Tail(items)[n] = items[n + 1]
    BY <1>2
  <1>8. \A r : /\ OpenIn(Tail(items), r) => OpenIn(items, r)
               /\ ClosedIn(Tail(items), r) => ClosedIn(items, r)
    <2> DEFINE q == Tail(items)
    <2>1. \A n \in 1 .. Len(q) : n + 1 \in 1 .. Len(items) /\ q[n] = items[n + 1]
      BY <1>7
    <2> HIDE DEF q
    <2>2. \A r : OpenIn(q, r) => OpenIn(items, r)
      BY <2>1 DEF OpenIn
    <2>3. \A r : ClosedIn(q, r) => ClosedIn(items, r)
      BY <2>1 DEF ClosedIn
    <2> QED BY <2>2, <2>3 DEF q
  <1> QED BY <1>2, <1>5, <1>6, <1>8 DEF o

\* addOrder lists as closed what the item says is closed, and takes an order off
\* that list only when the item says it is open.
LEMMA ItemCloses ==
    ASSUME LocalIdsDistinct, StorageInv, NEW o \in Record, AddOrder(o)
    PROVE  /\ \A r \in DOMAIN closedOrders' :
                r \in DOMAIN closedOrders \/ (r = o.rid /\ o.st > 1)
           /\ \A r \in DOMAIN closedOrders :
                r \in DOMAIN closedOrders' \/ (r = o.rid /\ o.st <= 1)
  <1>1. o.st <= 1 \/ o.st > 1
    BY RecordType
  <1>2. CASE o.st <= 1
    <2>1. closedOrders' = Without(closedOrders, o.rid)
      BY <1>2 DEF AddOrder, AddNew, UpdateOrder, Refile
    <2>2. DOMAIN closedOrders' = DOMAIN closedOrders \ {o.rid}
      BY <2>1 DEF Without
    <2> QED BY <1>2, <2>2
  <1>3. CASE o.st > 1
    <2>1. ~(o.st <= 1)
      BY <1>3, RecordType
    <2>2. DOMAIN closedOrders' = DOMAIN closedOrders \cup {o.rid}
      BY <2>1 DEF AddOrder, AddNew, UpdateOrder, Refile, With, WithNew
    <2> QED BY <1>3, <2>2
  <1> QED BY <1>1, <1>2, <1>3

LEMMA ItemKeepsLine ==
    ASSUME LocalIdsDistinct, IInv, LineInv, HandleItem
    PROVE  /\ LineInv'
           /\ \A r \in DOMAIN closedOrders : r \in DOMAIN closedOrders' \/ r \in swapped
  <1> DEFINE o == Head(items)
  <1>1. StorageInv /\ ProcessInv
    BY InvParts
  <1>2. /\ items # <<>> /\ AddOrder(o) /\ items' = Tail(items)
        /\ UNCHANGED <<feed, saves, db, swapped>>
    BY DEF HandleItem, outside
  <1>3. /\ o \in Record
        /\ o.st <= 1 => o.rid \notin DOMAIN closedOrders \/ o.rid \in swapped
        /\ o.st > 1 => Done(o.rid)
        /\ \A r : /\ OpenIn(items', r) => OpenIn(items, r)
                  /\ ClosedIn(items', r) => ClosedIn(items, r)
    BY <1>2, ItemInLine
  <1> HIDE DEF o
  <1>4. items' \in Seq(Record)
    BY <1>1, <1>2 DEF ProcessInv
  <1>5. \A r : /\ Opens(items', feed, r) => Opens(items, feed, r)
               /\ Sorted(items, feed, r) => Sorted(items', feed, r)
    <2> DEFINE j == items'
    <2>1. j \in Seq(Record)
      BY <1>4
    <2>2. \A r : /\ OpenIn(j, r) => OpenIn(items, r)
                 /\ ClosedIn(j, r) => ClosedIn(items, r)
      BY <1>3
    <2> HIDE DEF j
    <2> QED BY <2>1, <2>2, FewerItems DEF j
  <1>6. /\ \A r \in DOMAIN closedOrders' :
                r \in DOMAIN closedOrders \/ (r = o.rid /\ o.st > 1)
        /\ \A r \in DOMAIN closedOrders :
                r \in DOMAIN closedOrders' \/ (r = o.rid /\ o.st <= 1)
    BY <1>1, <1>2, <1>3, ItemCloses
  <1>7. \A r : Done(r) => Done(r)'
    BY <1>2, <1>5 DEF Done
  <1>8. \A r \in DOMAIN closedOrders' : Done(r)'
    BY <1>3, <1>6, <1>7 DEF LineInv
  <1>9. /\ ~Opens(items', feed, NoRemote)
        /\ \A r \in Ids : r \in swapped \/ Sorted(items', feed, r)
    BY <1>5 DEF LineInv
  <1>10. LineInv'
    BY <1>2, <1>7, <1>8, <1>9 DEF LineInv
  <1> QED BY <1>3, <1>6, <1>10

\* What is handed over or written as closed is listed as closed, or is a save.
LEMMA SavesKeepLine ==
    ASSUME LocalIdsDistinct, IInv, LineInv, CheckUpdates \/ SaveOrder \/ SaveOrderFails
    PROVE  LineInv' /\ closedOrders' = closedOrders
  <1>1. StorageInv /\ ProcessInv /\ saves \in Seq(Record)
    BY InvParts DEF ProcessInv
  <1>2. CASE CheckUpdates
    <2> DEFINE u == UpdatedRecords
    <2>1. /\ saves' = saves \o u /\ UNCHANGED <<closedOrders, feed, items, db, swapped>>
      BY <1>2 DEF CheckUpdates, indexes, outside
    <2>2. /\ updatedOrders \in Seq(Nat) /\ Len(updatedOrders) \in Nat
          /\ \A n \in 1 .. Len(updatedOrders) : updatedOrders[n] \in Slots
      BY <1>1 DEF StorageInv, StorageTypeOK, IndexesInRange
    <2>3. u \in [1 .. Len(updatedOrders) -> Record]
          /\ \A n \in 1 .. Len(updatedOrders) : u[n] = ordersArray[updatedOrders[n]]
      <3>1. \A n \in 1 .. Len(updatedOrders) : ordersArray[updatedOrders[n]] \in Record
        BY <1>1, <2>2, SlotType DEF StorageInv
      <3> QED BY <3>1 DEF UpdatedRecords
    <2> HIDE DEF u
    <2>4. u \in Seq(Record) /\ Len(u) = Len(updatedOrders)
      BY <2>2, <2>3, FunctionIsSeq
    <2>5. ASSUME NEW i \in Slots, ordersArray[i].st > 1
          PROVE  Done(ordersArray[i].rid)
      <3> DEFINE r == ordersArray[i].rid
      <3>1. r \in DOMAIN extId /\ extId[r] = i /\ ordersArray[i].st \in 1 .. 3
        BY <1>1, SlotType DEF StorageInv, IndexesAgree
      <3>2. r \notin DOMAIN openOrders
        BY <1>1, <2>5, <3>1 DEF StorageInv, IndexesAgree
      <3>3. r \in DOMAIN closedOrders
        BY <1>1, <3>1, <3>2 DEF StorageInv, ListedOnce
      <3> QED BY <3>3 DEF LineInv
    <2>6. \A n \in 1 .. Len(u) : u[n].st > 1 => Done(u[n].rid)
      BY <2>2, <2>3, <2>4, <2>5
    <2>7. \A n \in 1 .. Len(saves') :
            (\E m \in 1 .. Len(saves) : saves'[n] = saves[m])
            \/ (\E m \in 1 .. Len(u) : saves'[n] = u[m])
      <3>1. PICK q : q = saves'
        OBVIOUS
      <3>2. q = saves \o u /\ saves \in Seq(Record) /\ u \in Seq(Record)
        BY <1>1, <2>1, <2>4, <3>1
      <3>3. /\ Len(saves) \in Nat /\ Len(u) \in Nat
            /\ Len(q) = Len(saves) + Len(u)
            /\ \A n \in 1 .. Len(saves) : q[n] = saves[n]
            /\ \A n \in Len(saves) + 1 .. Len(q) : q[n] = u[n - Len(saves)]
        BY <3>2
      <3>4. \A n \in 1 .. Len(q) : n \in 1 .. Len(saves) \/ n - Len(saves) \in 1 .. Len(u)
        BY <3>3
      <3>5. ASSUME NEW n \in 1 .. Len(q), n \notin 1 .. Len(saves)
            PROVE  q[n] = u[n - Len(saves)]
        BY <3>3, <3>5
      <3> QED BY <3>1, <3>3, <3>4, <3>5
    <2>8. \A n \in 1 .. Len(saves') : saves'[n].st > 1 => Done(saves'[n].rid)
      BY <2>6, <2>7 DEF LineInv
    <2> QED BY <2>1, <2>8 DEF LineInv, Done
  <1>3. CASE SaveOrder \/ SaveOrderFails
    <2> DEFINE h == Head(saves)
    <2>1. /\ saves # <<>> /\ saves' = Tail(saves)
          /\ UNCHANGED <<closedOrders, feed, items, swapped>>
      BY <1>3 DEF SaveOrder, SaveOrderFails, storage, indexes, outside
    <2>2. /\ \A n \in 1 .. Len(saves') : \E m \in 1 .. Len(saves) : saves'[n] = saves[m]
          /\ h \in Record /\ \E m \in 1 .. Len(saves) : h = saves[m]
      <3>1. /\ Len(saves) \in Nat /\ Len(saves) >= 1 /\ h = saves[1] /\ h \in Record
            /\ Len(saves') = Len(saves) - 1
            /\ \A n \in 1 .. Len(saves) - 1 : saves'[n] = saves[n + 1]
        BY <1>1, <2>1, HeadWaits
      <3> HIDE DEF h
      <3>2. 1 \in 1 .. Len(saves)
            /\ \A n \in 1 .. Len(saves') : n + 1 \in 1 .. Len(saves)
        BY <3>1
      <3> QED BY <3>1, <3>2
    <2>3. db' = db \/ (h.rid # NoRemote /\ db' = Upsert(h))
      BY <1>3 DEF SaveOrder, SaveOrderFails
    <2> HIDE DEF h
    <2>4. ASSUME NEW k \in DOMAIN db', db'[k].st > 1
          PROVE  Done(db'[k].rid)
      <3>1. CASE k \in DOMAIN db /\ db'[k] = db[k]
        BY <2>4, <3>1 DEF LineInv
      <3>2. CASE h.rid # NoRemote /\ db' = Upsert(h) /\ k = Key(h)
        <4>1. k \in LocalIds[h.rid] /\ h.rid \in Ids
          BY <2>2, <3>2, KeyIsLocal, RecordType
        <4>2. k \in DOMAIN db => db[k].rid = h.rid
          <5>1. k \in DOMAIN db => db[k].rid \in Remote /\ k \in LocalIds[db[k].rid]
            BY <1>1 DEF ProcessInv, DbTyped, IsMap, Row
          <5> QED BY <4>1, <5>1 DEF LocalIdsDistinct, Ids
        <4>3. db'[k].rid = h.rid /\ db'[k].st = h.st
          BY <3>2, <4>2 DEF Upsert, With
        <4> QED BY <2>2, <2>4, <4>3 DEF LineInv
      <3> QED BY <2>3, <2>4, <3>1, <3>2 DEF Upsert, With
    <2>5. \A n \in 1 .. Len(saves') : saves'[n].st > 1 => Done(saves'[n].rid)
      BY <2>2 DEF LineInv
    <2> QED BY <2>1, <2>4, <2>5 DEF LineInv, Done
  <1> QED BY <1>2, <1>3

\* A crash empties memory; the rows loaded after it are closings that were saved.
LEMMA RestartKeepsLine ==
    ASSUME IInv, LineInv, Crash \/ Restart
    PROVE  LineInv' /\ (closedOrders' = closedOrders \/ ~up')
  <1>1. feed \in Seq(Seq(Record)) /\ Len(feed) \in Nat
    BY DEF IInv, TypeOK
  <1>2. \A r : ~OpenIn(<<>>, r) /\ ~ClosedIn(<<>>, r)
    BY DEF OpenIn, ClosedIn
  <1>3. CASE Crash
    <2>1. /\ closedOrders' = NoOrders /\ saves' = <<>> /\ items' = <<>> /\ ~up'
          /\ UNCHANGED <<feed, db, swapped>> /\ DOMAIN NoOrders = {}
      BY <1>3 DEF Crash, NoOrders, outside
    <2>2. <<>> \in Seq(Record)
      OBVIOUS
    <2>3. \A r : /\ Opens(<<>>, feed, r) => Opens(items, feed, r)
                 /\ Sorted(items, feed, r) => Sorted(<<>>, feed, r)
      BY <1>2, <2>2, FewerItems
    <2> QED BY <2>1, <2>3 DEF LineInv, Done
  <1>4. CASE Restart
    <2>1. PICK s \in [1 .. Cardinality(StoredClosed) -> StoredClosed] :
            items' = [n \in DOMAIN s |-> RowItem(s[n])]
      BY <1>4 DEF Restart
    <2>2. UNCHANGED <<closedOrders, saves, feed, db, swapped>>
      BY <1>4 DEF Restart, storage, indexes, outside
    <2>3. Cardinality(StoredClosed) \in Nat
      <3>1. StoredClosed \subseteq Local
        BY DEF StoredClosed, IInv, TypeOK, IsMap
      <3> QED BY <3>1, IdsOK, FS_Subset, FS_CardinalityType
    <2>4. Len(items') = Cardinality(StoredClosed)
      BY <2>1, <2>3
    <2>5. \A n \in 1 .. Len(items') : \E k \in DOMAIN db :
            db[k].st > 1 /\ items'[n].rid = db[k].rid /\ items'[n].st = db[k].st
      BY <2>1, <2>4 DEF StoredClosed, RowItem
    <2>6. \A r : ~OpenIn(items', r)
      <3> SUFFICES ASSUME NEW n \in 1 .. Len(items'), items'[n].st <= 1
                   PROVE  FALSE
        BY DEF OpenIn
      <3>1. PICK k \in DOMAIN db : db[k].st > 1 /\ items'[n].st = db[k].st
        BY <2>5
      <3>2. db[k].st \in 1 .. 3
        BY DEF IInv, TypeOK, IsMap, Row, Status
      <3> QED BY <3>1, <3>2
    <2>7. \A r : ClosedIn(items', r) => Done(r)
      BY <2>5 DEF ClosedIn, LineInv
    <2>8. \A n \in 0 .. Len(feed) :
            \/ n = 0 /\ Event(items', feed, n) = items'
            \/ n # 0 /\ Event(items', feed, n) = Event(items, feed, n)
      BY DEF Event
    <2>9. \A r : Opens(items', feed, r) => Opens(items, feed, r)
      BY <2>6, <2>8 DEF Opens
    <2>10. ASSUME NEW r \in Ids, r \notin swapped
           PROVE  Sorted(items', feed, r)
      <3> SUFFICES ASSUME NEW m \in 0 .. Len(feed), NEW n \in 0 .. Len(feed),
                          m <= n, ClosedIn(Event(items', feed, m), r),
                          OpenIn(Event(items', feed, n), r)
                   PROVE  FALSE
        BY DEF Sorted
      <3>1. n # 0 /\ OpenIn(Event(items, feed, n), r)
        BY <2>6, <2>8
      <3>2. CASE m = 0
        <4>1. ClosedIn(items', r)
          BY <2>8, <3>2
        <4> QED BY <2>7, <2>10, <3>1, <4>1 DEF Opens, Done
      <3>3. CASE m # 0
        <4>1. ClosedIn(Event(items, feed, m), r)
          BY <2>8, <3>3
        <4> QED BY <2>10, <3>1, <4>1 DEF LineInv, Sorted
      <3> QED BY <3>2, <3>3
    <2> QED BY <2>2, <2>9, <2>10 DEF LineInv, Done
  <1> QED BY <1>3, <1>4

\* One step: the line stays sorted but for swapped orders, and of the closed
\* orders only those leave their list.
LEMMA LineStep ==
    ASSUME LocalIdsDistinct, IInv, LineInv, [Next]_vars
    PROVE  /\ LineInv'
           /\ \A r \in DOMAIN closedOrders :
                r \in DOMAIN closedOrders' \/ ~up' \/ r \in swapped
  <1>1. StorageInv /\ TypeOK
    BY InvParts DEF IInv
  <1>2. CASE Exchange
    <2>1. closedOrders' = closedOrders
      BY <1>1, <1>2, ExchangeStep DEF Elsewhere, storage, indexes
    <2> QED BY <1>2, <2>1, AnswersKeepLine
  <1>3. CASE Deliver
    <2>1. closedOrders' = closedOrders
      BY <1>3 DEF Deliver, storage, indexes
    <2> QED BY <1>3, <2>1, DeliverKeepsLine
  <1>4. CASE HandleItem
    BY <1>4, ItemKeepsLine
  <1>5. CASE ReadOpen \/ Maintain
    <2>1. UNCHANGED <<closedOrders, saves, db, items, feed, swapped>>
      BY <1>1, <1>5, ReadsChangeNothing DEF ReadOpen, Maintain, storage, indexes, outside
    <2> QED BY <2>1 DEF LineInv, Done
  <1>6. CASE CheckUpdates \/ SaveOrder \/ SaveOrderFails
    BY <1>6, SavesKeepLine
  <1>7. CASE Crash \/ Restart
    BY <1>7, RestartKeepsLine
  <1>8. CASE UNCHANGED vars
    <2>1. UNCHANGED <<closedOrders, saves, db, items, feed, swapped>>
      BY <1>8 DEF vars, storage, indexes, outside
    <2> QED BY <2>1 DEF LineInv, Done
  <1> QED BY <1>2, <1>3, <1>4, <1>5, <1>6, <1>7, <1>8 DEF Next

\* In whatever order the answers arrive, across crashes, refused writes and rows
\* loaded back, an order that is listed as closed is reopened only where an answer
\* that has it closed overtook one that has it open (addOrder, updateOrder,
\* loadTodayOrders): the feed is the only way back, and one answer is not enough.
THEOREM ReopenedOnlyWhereSwapped ==
    ASSUME LocalIdsDistinct
    PROVE  Spec => ReopenedOnlyBySwap
  <1>1. Init => LineInv
    <2> SUFFICES ASSUME Init PROVE LineInv
      OBVIOUS
    <2>1. /\ closedOrders = NoOrders /\ db = NoOrders /\ saves = <<>>
          /\ items = <<>> /\ feed = <<>> /\ DOMAIN NoOrders = {}
      BY DEF Init, StorageInit, NoOrders
    <2>2. \A n \in 0 .. Len(feed) : Event(items, feed, n) = <<>>
      BY <2>1 DEF Event
    <2>3. \A r : ~OpenIn(<<>>, r) /\ ~ClosedIn(<<>>, r)
      BY DEF OpenIn, ClosedIn
    <2> QED BY <2>1, <2>2, <2>3 DEF LineInv, Opens, Sorted
  <1>2. IInv /\ LineInv /\ [Next]_vars
            => /\ LineInv'
               /\ [\A r \in DOMAIN closedOrders :
                     r \in DOMAIN closedOrders' \/ ~up' \/ r \in swapped]_vars
    BY LineStep
  <1> QED BY <1>1, <1>2, WorkerInvariant, PTL DEF Spec, ReopenedOnlyBySwap
=============================================================================
