--------------------------- MODULE ApiClientProofs ---------------------------
(***************************************************************************)
(* For any number of callers, uuids, nested event loops and crashes: the   *)
(* client keeps its types, sends a request once, publishes its result once *)
(* and never pauses without a timer.                                       *)
(***************************************************************************)
EXTENDS ApiClient, SequenceTheorems, TLAPS

-----------------------------------------------------------------------------
(* Types *)

\* TypeOK without the variables of the stack and the results, which the steps
\* of a handler change together.
LEMMA FrameTypes ==
    /\ Failure \in Parsed
    /\ \A p \in Points, u \in Uuids, r \in Parsed, l \in Locals :
           OrderFrame(p, u, r, l) \in Frames
    /\ \A p \in Points, u \in Uuids : Frame(p, u) \in Frames
    /\ \A u \in Uuids, r \in Parsed : FailureFrame(u, r) \in Frames
<1>1. Failure \in Parsed
  BY DEF Failure, Parsed
<1>2. \A p \in Points, u \in Uuids, r \in Parsed, l \in Locals :
          OrderFrame(p, u, r, l) \in Frames
  BY DEF OrderFrame, Frames
<1>3. \A p \in Points, u \in Uuids : Frame(p, u) \in Frames
  BY <1>1, <1>2 DEF Frame, Locals
<1>4. "keyError" \in Points /\ "register" \in Points
  BY DEF Points
<1>5. \A u \in Uuids, r \in Parsed : FailureFrame(u, r) \in Frames
  BY <1>3, <1>4 DEF FailureFrame
<1>6. QED
  BY <1>1, <1>2, <1>3, <1>5

\* The handler that returns is a frame, and so are the ones below it.
LEMMA StackTypes ==
    ASSUME stack \in Seq(Frames), stack # <<>>
    PROVE  /\ Top \in Frames
           /\ Top.at \in Points /\ Top.uuid \in Uuids
           /\ Top.reply \in Parsed /\ Top.local \in Locals
           /\ Below \in Seq(Frames)
           /\ Len(stack) \in Nat \ {0} /\ Len(Below) = Len(stack) - 1
           /\ \A i \in 1 .. Len(Below) : Below[i] = stack[i]
<1>1. Len(stack) \in Nat \ {0}
  BY EmptySeq
<1>2. Top \in Frames
  BY <1>1, ElementOfSeq DEF Top
<1>3. \A i \in 1 .. Len(stack) - 1 : stack[i] \in Frames
  BY <1>1, ElementOfSeq
<1>4. /\ Below \in Seq(Frames)
      /\ Len(Below) = Len(stack) - 1
      /\ \A i \in 1 .. Len(Below) : Below[i] = stack[i]
  <2> DEFINE n == Len(stack) - 1
  <2>1. n \in Nat
    BY <1>1
  <2>2. \A i \in 1 .. n : stack[i] \in Frames
    BY <1>3
  <2> HIDE DEF n
  <2>3. /\ SubSeq(stack, 1, n) \in Seq(Frames)
        /\ Len(SubSeq(stack, 1, n)) = IF 1 <= n THEN n - 1 + 1 ELSE 0
        /\ \A i \in 1 .. n - 1 + 1 : SubSeq(stack, 1, n)[i] = stack[1 + i - 1]
    BY <2>1, <2>2, SubSeqProperties
  <2>4. \A i \in 1 .. n : SubSeq(stack, 1, n)[i] = stack[i]
    BY <2>1, <2>3
  <2>5. Len(SubSeq(stack, 1, n)) = n
    BY <2>1, <2>3
  <2>6. QED
    BY <2>3, <2>4, <2>5 DEF Below, n
<1>5. QED
  BY <1>1, <1>2, <1>4 DEF Frames

\* Publishing appends an event of a known kind under a known local id.
LEMMA PublishTypes ==
    ASSUME NEW u \in Uuids, NEW k \in EventKinds, NEW l \in Locals,
           orderEvents \in [Uuids -> Seq(OrderEvents)], Publish(u, k, l)
    PROVE  orderEvents' \in [Uuids -> Seq(OrderEvents)]
<1>1. [kind |-> k, local |-> l] \in OrderEvents
  BY DEF OrderEvents
<1>2. Append(orderEvents[u], [kind |-> k, local |-> l]) \in Seq(OrderEvents)
  BY <1>1, AppendProperties
<1>3. QED
  BY <1>2 DEF Publish

LEMMA ResultTypes ==
    ASSUME NEW u \in Uuids, NEW ok \in BOOLEAN,
           asyncResults \in [Uuids -> {"none", "ok", "fail"}],
           asyncResultsQueue \in Seq(Uuids), RegisterAsyncResult(u, ok)
    PROVE  /\ asyncResults' \in [Uuids -> {"none", "ok", "fail"}]
           /\ asyncResultsQueue' \in Seq(Uuids)
<1>1. asyncResultsQueue' \in Seq(Uuids)
  BY AppendProperties DEF RegisterAsyncResult
<1>2. asyncResults' \in [Uuids -> {"none", "ok", "fail"}]
  BY DEF RegisterAsyncResult
<1>3. QED
  BY <1>1, <1>2

LEMMA OrderTypes ==
    ASSUME NEW u \in Uuids, registered \in [Uuids -> Locals],
           objects \in SUBSET Locals
    PROVE  /\ RegisteredLocal(u) \in Locals
           /\ \A l \in Locals : RegisterOrder(u, l) =>
                  registered' \in [Uuids -> Locals] /\ objects' \in SUBSET Locals
           /\ TakeRegisteredOrder(u) =>
                  registered' \in [Uuids -> Locals] /\ objects' \in SUBSET Locals
BY DEF RegisteredLocal, RegisterOrder, TakeRegisteredOrder, Locals

\* What a handler changes, as far as types go.
HandlerTypes ==
    /\ registered \in [Uuids -> Locals]
    /\ objects \in SUBSET Locals
    /\ orderEvents \in [Uuids -> Seq(OrderEvents)]
    /\ asyncResults \in [Uuids -> {"none", "ok", "fail"}]
    /\ asyncResultsQueue \in Seq(Uuids)
    /\ stack \in Seq(Frames)

LEMMA ParsedTypes ==
    ASSUME HandlerTypes, NEW u \in Uuids, NEW r \in Parsed,
           NEW base \in Seq(Frames), OnApiResponseParsed(u, r, base)
    PROVE  HandlerTypes'
<1> DEFINE m == asyncDictionary[u]
           isOrder == m \in OrderMethods /\ registered[u] # NoId
           l == IF isOrder THEN RegisteredLocal(u) ELSE NoId
<1>1. l \in Locals
  BY OrderTypes DEF HandlerTypes, Locals
<1>2. \/ /\ UNCHANGED <<registered, objects, orderEvents, asyncResults,
                         asyncResultsQueue>>
         /\ stack' = base
      \/ /\ IF isOrder THEN TakeRegisteredOrder(u)
                       ELSE UNCHANGED <<registered, objects>>
         /\ \/ /\ stack' = Append(base,
                      OrderFrame(IF r.success THEN "placed" ELSE "placeError",
                                 u, r, l))
               /\ UNCHANGED <<orderEvents, asyncResults, asyncResultsQueue>>
            \/ /\ CASE m = "cancel" -> Publish(u, "CANCELED", l)
                    [] m = "get" -> Publish(u, IF r.status >= 2 THEN "COMPLETED"
                                              ELSE "UPDATED", l)
                    [] OTHER -> UNCHANGED orderEvents
               /\ RegisterAsyncResult(u, TRUE)
               /\ stack' = base
            \/ /\ IF m = "cancel" THEN Publish(u, "ERROR", l)
                                  ELSE UNCHANGED orderEvents
               /\ stack' = Append(base, FailureFrame(u, r))
               /\ UNCHANGED <<asyncResults, asyncResultsQueue>>
  BY Zenon DEF OnApiResponseParsed
<1>3. CASE /\ UNCHANGED <<registered, objects, orderEvents, asyncResults,
                          asyncResultsQueue>>
           /\ stack' = base
  BY <1>3 DEF HandlerTypes
<1>4. CASE IF isOrder THEN TakeRegisteredOrder(u)
                      ELSE UNCHANGED <<registered, objects>>
  <2>1. registered' \in [Uuids -> Locals] /\ objects' \in SUBSET Locals
    BY <1>4, OrderTypes DEF HandlerTypes
  <2>2. CASE /\ stack' = Append(base,
                    OrderFrame(IF r.success THEN "placed" ELSE "placeError", u, r, l))
             /\ UNCHANGED <<orderEvents, asyncResults, asyncResultsQueue>>
    <3>1. stack' \in Seq(Frames)
      BY <1>1, <2>2, FrameTypes, AppendProperties DEF Points
    <3>2. QED
      BY <2>1, <2>2, <3>1 DEF HandlerTypes
  <2>3. CASE /\ CASE m = "cancel" -> Publish(u, "CANCELED", l)
                  [] m = "get" -> Publish(u, IF r.status >= 2 THEN "COMPLETED"
                                            ELSE "UPDATED", l)
                  [] OTHER -> UNCHANGED orderEvents
             /\ RegisterAsyncResult(u, TRUE)
             /\ stack' = base
    <3>1. orderEvents' \in [Uuids -> Seq(OrderEvents)]
      BY <1>1, <2>3, PublishTypes DEF HandlerTypes, EventKinds
    <3>2. QED
      BY <2>1, <2>3, <3>1, ResultTypes DEF HandlerTypes
  <2>4. CASE /\ IF m = "cancel" THEN Publish(u, "ERROR", l)
                                ELSE UNCHANGED orderEvents
             /\ stack' = Append(base, FailureFrame(u, r))
             /\ UNCHANGED <<asyncResults, asyncResultsQueue>>
    <3>1. orderEvents' \in [Uuids -> Seq(OrderEvents)]
      BY <1>1, <2>4, PublishTypes DEF HandlerTypes, EventKinds
    <3>2. stack' \in Seq(Frames)
      BY <2>4, FrameTypes, AppendProperties
    <3>3. QED
      BY <2>1, <2>4, <3>1, <3>2 DEF HandlerTypes
  <2>5. QED
    BY <1>2, <1>3, <2>2, <2>3, <2>4, Zenon
<1>5. QED
  BY <1>2, <1>3, <1>4, Zenon

LEMMA InitTypes == Init => TypeOK
<1> SUFFICES ASSUME Init
             PROVE  TypeOK
  OBVIOUS
<1>1. orderEvents \in [Uuids -> Seq(OrderEvents)]
  BY EmptySeq DEF Init
<1>2. /\ asyncQueue \in Seq(Uuids) /\ asyncResultsQueue \in Seq(Uuids)
      /\ stack \in Seq(Frames)
  BY EmptySeq DEF Init
<1>3. lastUuid \in 0 .. MaxUuid
  BY ConstantsOK DEF Init
<1>4. /\ asyncDictionary \in [Uuids -> Methods \cup {NoMethod}]
      /\ asyncParams \in [Uuids -> Locals] /\ registered \in [Uuids -> Locals]
      /\ asyncResults \in [Uuids -> {"none", "ok", "fail"}]
  BY DEF Init, Locals
<1>5. /\ asyncs \in [Uuids -> Nat] /\ inflight \in [Uuids -> Nat]
      /\ sends \in [Uuids -> Nat] /\ answers \in [Uuids -> Nat]
      /\ unfreezes \in Nat /\ crashes \in Nat
  BY DEF Init
<1>6. QED
  BY <1>1, <1>2, <1>3, <1>4, <1>5 DEF Init, TypeOK

LEMMA AcceptTypes ==
    ASSUME TypeOK, NEW m \in Methods, NEW l \in Locals, NEW u \in Uuids,
           CreateAsyncWaiter(m, l, u)
    PROVE  TypeOK'
<1>1. registered' \in [Uuids -> Locals] /\ objects' \in SUBSET Locals
  BY OrderTypes DEF CreateAsyncWaiter, TypeOK
<1>2. asyncQueue' \in Seq(Uuids)
  BY AppendProperties DEF CreateAsyncWaiter, TypeOK
<1>3. /\ lastUuid' \in 0 .. MaxUuid
      /\ asyncs' \in [Uuids -> Nat]
      /\ asyncDictionary' \in [Uuids -> Methods \cup {NoMethod}]
      /\ asyncParams' \in [Uuids -> Locals]
  <2>1. lastUuid' \in 0 .. MaxUuid
    BY ConstantsOK DEF CreateAsyncWaiter, Uuids
  <2>2. asyncs' \in [Uuids -> Nat]
    BY DEF CreateAsyncWaiter, TypeOK
  <2>3. asyncDictionary' \in [Uuids -> Methods \cup {NoMethod}]
    BY DEF CreateAsyncWaiter, TypeOK
  <2>4. asyncParams' \in [Uuids -> Locals]
    BY DEF CreateAsyncWaiter, TypeOK
  <2>5. QED
    BY <2>1, <2>2, <2>3, <2>4
<1>4. /\ requests' \in SUBSET [uuid : Uuids, method : Methods, local : Locals]
      /\ shared' \in SUBSET Uuids
  BY DEF CreateAsyncWaiter, TypeOK
<1>5. QED
  BY <1>1, <1>2, <1>3, <1>4 DEF CreateAsyncWaiter, TypeOK

LEMMA ProcessQueueTypes == TypeOK /\ ProcessAsyncQueue => TypeOK'
<1> SUFFICES ASSUME TypeOK, ProcessAsyncQueue
             PROVE  TypeOK'
  OBVIOUS
<1> DEFINE u == Head(asyncQueue)
<1>1. u \in Uuids /\ asyncQueue' \in Seq(Uuids)
  BY HeadTailProperties DEF ProcessAsyncQueue, Dequeue, TypeOK
<1>2. registered' \in [Uuids -> Locals] /\ objects' \in SUBSET Locals
  BY <1>1, OrderTypes DEF ProcessAsyncQueue, TypeOK
<1>3. \/ UNCHANGED <<asyncResults, asyncResultsQueue>>
      \/ \E ok \in BOOLEAN : RegisterAsyncResult(u, ok)
  BY DEF ProcessAsyncQueue
<1>4. /\ asyncResults' \in [Uuids -> {"none", "ok", "fail"}]
      /\ asyncResultsQueue' \in Seq(Uuids)
  BY <1>1, <1>3, ResultTypes DEF TypeOK
<1>5. /\ inflight' \in [Uuids -> Nat]
      /\ sends' \in [Uuids -> Nat]
      /\ abandoned' \in SUBSET Uuids
  <2>1. \/ UNCHANGED <<inflight, sends>>
        \/ /\ inflight' = [inflight EXCEPT ![u] = @ + 1]
           /\ sends' = [sends EXCEPT ![u] = @ + 1]
    BY DEF ProcessAsyncQueue
  <2>2. abandoned' = abandoned \/ abandoned' = abandoned \cup {u}
    BY DEF ProcessAsyncQueue
  <2> HIDE DEF u
  <2>3. /\ inflight \in [Uuids -> Nat] /\ sends \in [Uuids -> Nat]
        /\ abandoned \in SUBSET Uuids
    BY DEF TypeOK
  <2>4. inflight' \in [Uuids -> Nat] /\ sends' \in [Uuids -> Nat]
    BY <1>1, <2>1, <2>3
  <2>5. QED
    BY <1>1, <2>2, <2>3, <2>4
<1>6. QED
  BY <1>1, <1>2, <1>4, <1>5 DEF ProcessAsyncQueue, TypeOK

LEMMA ReplyTypes ==
    ASSUME TypeOK, NEW u \in Uuids, OnNetworkReply(u)
    PROVE  TypeOK'
<1>1. /\ TakeReply(u)
      /\ inflight' \in [Uuids -> Nat]
  <2>1. TakeReply(u)
    BY Zenon DEF OnNetworkReply, ReplyParsed, ReplyFreeze, ReplyBadRequest, ReplyForbidden
  <2>2. QED
    BY <2>1 DEF TakeReply, TypeOK
<1>2. HandlerTypes
  BY DEF HandlerTypes, TypeOK
<1>3. HandlerTypes' /\ abandoned' \in SUBSET Uuids
  <2>1. CASE \E r \in Parsed : ReplyParsed(u, r)
    <3>1. PICK r \in Parsed : ReplyParsed(u, r)
      BY <2>1
    <3>2. OnApiResponseParsed(u, r, stack) /\ abandoned' = abandoned
      BY <3>1 DEF ReplyParsed
    <3>3. stack \in Seq(Frames)
      BY DEF TypeOK
    <3>4. HandlerTypes'
      BY <1>2, <3>2, <3>3, ParsedTypes
    <3>5. QED
      BY <3>2, <3>4 DEF TypeOK
  <2>2. CASE ReplyFreeze(u) \/ ReplyForbidden(u)
    <3>1. PICK p \in {"freeze", "freezeFail"} : stack' = Append(stack, Frame(p, u))
      BY <2>2 DEF ReplyFreeze, ReplyForbidden
    <3>2. Frame(p, u) \in Frames
      BY FrameTypes DEF Points
    <3>3. stack' \in Seq(Frames)
      BY <3>1, <3>2, AppendProperties DEF TypeOK
    <3>4. QED
      BY <2>2, <3>3 DEF ReplyFreeze, ReplyForbidden, HandlerTypes, TypeOK
  <2>3. CASE ReplyBadRequest(u)
    BY <1>2, <2>3 DEF ReplyBadRequest, HandlerTypes, TypeOK
  <2>4. QED
    BY <2>1, <2>2, <2>3 DEF OnNetworkReply
<1>4. QED
  BY <1>1, <1>3 DEF TakeReply, HandlerTypes, TypeOK
LEMMA ReturnTypes == TypeOK /\ CallReturns => TypeOK'
<1> SUFFICES ASSUME TypeOK, CallReturns
             PROVE  TypeOK'
  OBVIOUS
<1>1. HandlerTypes /\ stack # <<>>
  BY DEF HandlerTypes, TypeOK, CallReturns, ReturnFreeze, ReturnFreezeFail,
         ReturnPlaced, ReturnPlaceError, ReturnKeyError, ReturnRegister,
         ReturnMethodState
<1>2. /\ Top \in Frames /\ Top.uuid \in Uuids /\ Top.reply \in Parsed
      /\ Top.local \in Locals /\ Below \in Seq(Frames)
  BY <1>1, StackTypes DEF HandlerTypes
<1>3. CASE ReturnFreeze
  <2>1. unfreezes' \in Nat /\ requestPause' \in BOOLEAN
    BY <1>3 DEF ReturnFreeze, Freeze, TypeOK
  <2>2. QED
    BY <1>2, <1>3, <2>1 DEF ReturnFreeze, ReturnFrame, TypeOK
<1>4. CASE ReturnFreezeFail
  <2>1. unfreezes' \in Nat /\ requestPause' \in BOOLEAN
    BY <1>4 DEF ReturnFreezeFail, Freeze, TypeOK
  <2>2. HandlerTypes'
    BY <1>1, <1>2, <1>4, FrameTypes, ParsedTypes DEF ReturnFreezeFail
  <2>3. QED
    BY <1>4, <2>1, <2>2 DEF ReturnFreezeFail, ReturnFrame, HandlerTypes, TypeOK
<1>5. CASE ReturnPlaced
  <2>1. \/ Publish(Top.uuid, "PLACED", Top.local)
        \/ Publish(Top.uuid, "COMPLETED", Top.local)
        \/ UNCHANGED orderEvents
    BY <1>5 DEF ReturnPlaced
  <2>2. orderEvents' \in [Uuids -> Seq(OrderEvents)]
    BY <1>1, <1>2, <2>1, PublishTypes DEF HandlerTypes, EventKinds
  <2>3. /\ asyncResults' \in [Uuids -> {"none", "ok", "fail"}]
        /\ asyncResultsQueue' \in Seq(Uuids)
    BY <1>1, <1>2, <1>5, ResultTypes DEF ReturnPlaced, HandlerTypes
  <2>4. QED
    BY <1>2, <1>5, <2>2, <2>3 DEF ReturnPlaced, ReturnFrame, TypeOK
<1>6. CASE ReturnPlaceError
  <2>1. orderEvents' \in [Uuids -> Seq(OrderEvents)]
    BY <1>1, <1>2, <1>6, PublishTypes DEF ReturnPlaceError, HandlerTypes, EventKinds
  <2>2. stack' \in Seq(Frames)
    BY <1>2, <1>6, FrameTypes, AppendProperties DEF ReturnPlaceError
  <2>3. QED
    BY <1>6, <2>1, <2>2 DEF ReturnPlaceError, ReturnFrame, TypeOK
<1>7. CASE ReturnKeyError
  <2>1. [Top EXCEPT !.at = "register"] \in Frames
    BY <1>2 DEF Frames, Points
  <2>2. stack' \in Seq(Frames)
    BY <1>2, <1>7, <2>1, AppendProperties DEF ReturnKeyError
  <2>3. QED
    BY <1>7, <2>2 DEF ReturnKeyError, ReturnFrame, TypeOK
<1>8. CASE ReturnRegister
  <2>1. /\ asyncResults' \in [Uuids -> {"none", "ok", "fail"}]
        /\ asyncResultsQueue' \in Seq(Uuids)
    BY <1>1, <1>2, <1>8, ResultTypes DEF ReturnRegister, HandlerTypes
  <2>2. QED
    BY <1>2, <1>8, <2>1 DEF ReturnRegister, ReturnFrame, TypeOK
<1>9. CASE ReturnMethodState
  <2>1. /\ asyncParams' \in [Uuids -> Locals]
        /\ asyncDictionary' \in [Uuids -> Methods \cup {NoMethod}]
        /\ asyncResults' \in [Uuids -> {"none", "ok", "fail"}]
    BY <1>2, <1>9 DEF ReturnMethodState, TypeOK, Locals
  <2>2. asyncs' \in [Uuids -> Nat]
    BY <1>2, <1>9 DEF ReturnMethodState, TypeOK
  <2>3. QED
    BY <1>2, <1>9, <2>1, <2>2 DEF ReturnMethodState, ReturnFrame, TypeOK
<1>10. QED
  BY <1>3, <1>4, <1>5, <1>6, <1>7, <1>8, <1>9 DEF CallReturns

LEMMA QueueResultTypes == TypeOK /\ ProcessAsyncQueueResult => TypeOK'
<1> SUFFICES ASSUME TypeOK, ProcessAsyncQueueResult
             PROVE  TypeOK'
  OBVIOUS
<1> DEFINE u == Head(asyncResultsQueue)
<1>1. u \in Uuids /\ asyncResultsQueue' \in Seq(Uuids)
  BY HeadTailProperties DEF ProcessAsyncQueueResult, TypeOK
<1>2. \/ UNCHANGED <<answers, stack>>
      \/ /\ answers' = [answers EXCEPT ![u] = @ + 1]
         /\ stack' = Append(stack, Frame("methodState", u))
  BY DEF ProcessAsyncQueueResult
<1> HIDE DEF u
<1>3. answers' \in [Uuids -> Nat]
  <2>1. answers \in [Uuids -> Nat]
    BY DEF TypeOK
  <2>2. QED
    BY <1>1, <1>2, <2>1
<1>4. stack' \in Seq(Frames)
  <2>1. Frame("methodState", u) \in Frames
    BY <1>1, FrameTypes DEF Points
  <2>2. stack \in Seq(Frames)
    BY DEF TypeOK
  <2>3. QED
    BY <1>2, <2>1, <2>2, AppendProperties
<1>5. QED
  BY <1>1, <1>3, <1>4 DEF ProcessAsyncQueueResult, TypeOK

LEMMA TimerTypes == TypeOK /\ (Unfreeze \/ Crash) => TypeOK'
<1>1. TypeOK /\ Unfreeze => TypeOK'
  <2> SUFFICES ASSUME TypeOK, Unfreeze
               PROVE  TypeOK'
    OBVIOUS
  <2>1. unfreezes \in Nat /\ unfreezes > 0 /\ unfreezes' = unfreezes - 1
    BY DEF Unfreeze, TypeOK
  <2>2. unfreezes' \in Nat
    BY <2>1
  <2>3. requestPause' \in BOOLEAN /\ keyPause' \in BOOLEAN
    BY Zenon DEF Unfreeze
  <2>4. QED
    BY <2>2, <2>3 DEF Unfreeze, TypeOK
<1> SUFFICES ASSUME TypeOK, Crash
             PROVE  TypeOK'
  BY <1>1
<1>2. /\ asyncDictionary' \in [Uuids -> Methods \cup {NoMethod}]
      /\ asyncParams' \in [Uuids -> Locals] /\ registered' \in [Uuids -> Locals]
      /\ asyncResults' \in [Uuids -> {"none", "ok", "fail"}]
      /\ asyncs' \in [Uuids -> Nat] /\ inflight' \in [Uuids -> Nat]
  BY DEF Crash, Locals
<1>3. /\ asyncQueue' \in Seq(Uuids) /\ asyncResultsQueue' \in Seq(Uuids)
      /\ stack' \in Seq(Frames)
  BY EmptySeq DEF Crash
<1>4. /\ lost' \in SUBSET Uuids /\ crashes' \in Nat /\ unfreezes' \in Nat
      /\ objects' \in SUBSET Locals
      /\ requestPause' \in BOOLEAN /\ keyPause' \in BOOLEAN
  <2>1. crashes' \in Nat /\ unfreezes' \in Nat
    BY DEF Crash, TypeOK
  <2>2. lost' \in SUBSET Uuids /\ objects' \in SUBSET Locals
    BY DEF Crash, TypeOK
  <2>3. requestPause' \in BOOLEAN /\ keyPause' \in BOOLEAN
    BY Zenon DEF Crash
  <2>4. QED
    BY <2>1, <2>2, <2>3
<1>5. QED
  BY <1>2, <1>3, <1>4 DEF Crash, TypeOK

LEMMA NextTypes == TypeOK /\ [Next]_vars => TypeOK'
<1>1. TypeOK /\ Accept => TypeOK'
  BY AcceptTypes DEF Accept, Methods, Locals
<1>2. TypeOK /\ UNCHANGED vars => TypeOK'
  BY DEF TypeOK, vars, code, history
<1>3. QED
  BY <1>1, <1>2, ProcessQueueTypes, ReplyTypes, ReturnTypes, QueueResultTypes,
     TimerTypes DEF Next

\* Every variable keeps its type, however handlers nest.
THEOREM TypeCorrect == Spec => []TypeOK
BY InitTypes, NextTypes, PTL DEF Spec

-----------------------------------------------------------------------------
(* Pauses *)

\* A pause comes with its timer in one step; a timer that fires ends the pause.
LEMMA PauseStep == TypeOK /\ PauseHasTimer /\ [Next]_vars => PauseHasTimer'
<1> SUFFICES ASSUME TypeOK, PauseHasTimer, [Next]_vars
             PROVE  PauseHasTimer'
  OBVIOUS
<1>1. unfreezes \in Nat
  BY DEF TypeOK
<1>2. CASE UNCHANGED <<requestPause, unfreezes, keyPause>>
  BY <1>2 DEF PauseHasTimer
<1>3. CASE Freeze
  <2>1. unfreezes' > 0
    BY <1>1, <1>3 DEF Freeze
  <2>2. QED
    BY <2>1, Zenon DEF PauseHasTimer
<1>4. CASE ReturnKeyError
  BY <1>4, Zenon DEF ReturnKeyError, PauseHasTimer
<1>5. CASE Unfreeze \/ Crash
  BY <1>5, Zenon DEF Unfreeze, Crash, PauseHasTimer
<1>6. CallReturns => UNCHANGED <<requestPause, unfreezes, keyPause>>
                     \/ Freeze \/ ReturnKeyError
  <2>1. ReturnFreeze \/ ReturnFreezeFail => Freeze
    BY Zenon DEF ReturnFreeze, ReturnFreezeFail
  <2>2. ReturnPlaced \/ ReturnPlaceError \/ ReturnRegister \/ ReturnMethodState
            => UNCHANGED <<requestPause, unfreezes, keyPause>>
    BY DEF ReturnPlaced, ReturnPlaceError, ReturnRegister, ReturnMethodState
  <2>3. QED
    BY <2>1, <2>2, Zenon DEF CallReturns
<1>7. (\E u \in Uuids : OnNetworkReply(u)) =>
          UNCHANGED <<requestPause, unfreezes, keyPause>>
  BY DEF OnNetworkReply, ReplyParsed, ReplyFreeze, ReplyBadRequest,
         ReplyForbidden, TakeReply
<1>8. Accept \/ ProcessAsyncQueue \/ ProcessAsyncQueueResult \/ UNCHANGED vars
      => UNCHANGED <<requestPause, unfreezes, keyPause>>
  BY DEF Accept, CreateAsyncWaiter, ProcessAsyncQueue,
         ProcessAsyncQueueResult, vars, code, history
<1>9. QED
  BY <1>2, <1>3, <1>4, <1>5, <1>6, <1>7, <1>8, Zenon DEF Next

\* The client never waits paused for a timer nobody started, unless the
\* exchange refused the API key.
THEOREM PauseAlwaysHasTimer == Spec => []PauseHasTimer
<1>1. Init => PauseHasTimer
  BY DEF Init, PauseHasTimer
<1>2. QED
  BY <1>1, PauseStep, TypeCorrect, PTL DEF Spec

-----------------------------------------------------------------------------
(* Queues of uuids *)

\* Appending a uuid adds it and nothing else.
LEMMA OccursInAppend ==
    ASSUME NEW s \in Seq(Uuids), NEW u \in Uuids
    PROVE  \A v : Occurs(v, Append(s, u)) <=> Occurs(v, s) \/ v = u
<1>1. /\ Append(s, u) \in Seq(Uuids)
      /\ Len(Append(s, u)) = Len(s) + 1
      /\ \A i \in 1 .. Len(s) : Append(s, u)[i] = s[i]
      /\ Append(s, u)[Len(s) + 1] = u
  BY AppendProperties
<1>2. Len(s) \in Nat /\ DOMAIN s = 1 .. Len(s)
      /\ DOMAIN Append(s, u) = 1 .. Len(s) + 1
  BY <1>1, LenProperties
<1>3. \A i \in 1 .. Len(s) + 1 : i \in 1 .. Len(s) \/ i = Len(s) + 1
  BY <1>2
<1>4. Len(s) + 1 \in 1 .. Len(s) + 1 /\ \A i \in 1 .. Len(s) : i \in 1 .. Len(s) + 1
  BY <1>2
<1>5. QED
  BY <1>1, <1>2, <1>3, <1>4, Zenon DEF Occurs

\* A queue without repetitions stays one when a uuid is appended that it does
\* not hold.
LEMMA DistinctAppend ==
    ASSUME NEW s \in Seq(Uuids), NEW u \in Uuids, Distinct(s),
           u \in shared \/ ~Occurs(u, s)
    PROVE  Distinct(Append(s, u))
<1>1. /\ Append(s, u) \in Seq(Uuids)
      /\ Len(Append(s, u)) = Len(s) + 1
      /\ \A i \in 1 .. Len(s) : Append(s, u)[i] = s[i]
      /\ Append(s, u)[Len(s) + 1] = u
  BY AppendProperties
<1>2. Len(s) \in Nat /\ DOMAIN s = 1 .. Len(s)
      /\ DOMAIN Append(s, u) = 1 .. Len(s) + 1
  BY <1>1, LenProperties
<1>3. \A i \in 1 .. Len(s) + 1 : i \in 1 .. Len(s) \/ i = Len(s) + 1
  BY <1>2
<1> SUFFICES ASSUME NEW i \in 1 .. Len(s) + 1, NEW j \in 1 .. Len(s) + 1,
                    Append(s, u)[i] = Append(s, u)[j]
             PROVE  i = j \/ Append(s, u)[i] \in shared
  BY <1>2 DEF Distinct
<1>4. CASE i \in 1 .. Len(s) /\ j \in 1 .. Len(s)
  BY <1>1, <1>2, <1>4 DEF Distinct
<1>5. CASE i \in 1 .. Len(s) /\ j = Len(s) + 1
  BY <1>1, <1>2, <1>5 DEF Occurs
<1>6. CASE i = Len(s) + 1 /\ j \in 1 .. Len(s)
  BY <1>1, <1>2, <1>6 DEF Occurs
<1>7. QED
  BY <1>3, <1>4, <1>5, <1>6

\* Taking the head leaves what was queued, and no second copy of the head.
LEMMA OccursInTail ==
    ASSUME NEW s \in Seq(Uuids), s # <<>>
    PROVE  /\ Head(s) \in Uuids /\ Tail(s) \in Seq(Uuids)
           /\ Occurs(Head(s), s)
           /\ \A v : Occurs(v, Tail(s)) => Occurs(v, s)
           /\ Distinct(s) => Distinct(Tail(s))
           /\ Distinct(s) /\ Head(s) \notin shared => ~Occurs(Head(s), Tail(s))
<1>1. /\ Head(s) \in Uuids /\ Tail(s) \in Seq(Uuids)
      /\ Len(Tail(s)) = Len(s) - 1
      /\ \A i \in 1 .. Len(Tail(s)) : Tail(s)[i] = s[i + 1]
  BY HeadTailProperties
<1>2. Len(s) \in Nat \ {0} /\ DOMAIN s = 1 .. Len(s)
  BY EmptySeq, LenProperties
<1>3. DOMAIN Tail(s) = 1 .. Len(s) - 1
  BY <1>1, LenProperties
<1>4. Head(s) = s[1] /\ 1 \in DOMAIN s
  <2>1. 1 \in DOMAIN s
    BY <1>2
  <2>2. Head(s) = s[1]
    BY <1>2
  <2>3. QED
    BY <2>1, <2>2
<1>5. \A i \in DOMAIN Tail(s) : /\ i \in Nat /\ i + 1 \in DOMAIN s /\ i + 1 # 1
                               /\ Tail(s)[i] = s[i + 1]
  BY <1>1, <1>2, <1>3
<1>6. \A i, j \in DOMAIN Tail(s) : i + 1 = j + 1 => i = j
  BY <1>5
<1>7. Occurs(Head(s), s) /\ \A v : Occurs(v, Tail(s)) => Occurs(v, s)
  BY <1>4, <1>5, Zenon DEF Occurs
<1>8. Distinct(s) => Distinct(Tail(s))
  BY <1>5, <1>6, Zenon DEF Distinct
<1>9. Distinct(s) /\ Head(s) \notin shared => ~Occurs(Head(s), Tail(s))
  BY <1>4, <1>5, Zenon DEF Distinct, Occurs
<1>10. QED
  BY <1>1, <1>7, <1>8, <1>9, Zenon

\* The uuids with a handler on a stack s.
Holds(s, u) == \E i \in DOMAIN s : s[i].uuid = u
DistinctHolders(s) ==
    \A i, j \in DOMAIN s : s[i].uuid = s[j].uuid => i = j \/ s[i].uuid \in shared
\* A handler that has not published its result yet.
Unanswered(s, u) ==
    \A i \in DOMAIN s : s[i].uuid = u => s[i].at = "methodState" \/ answers[u] = 0

LEMMA StackNames ==
    /\ \A u : OnStack(u) <=> Holds(stack, u)
    /\ DistinctFrames <=> DistinctHolders(stack)
BY DEF OnStack, Holds, DistinctFrames, DistinctHolders

\* A handler that suspends puts its uuid on the stack, and nothing else.
LEMMA HoldsAppend ==
    ASSUME NEW s \in Seq(Frames), NEW f \in Frames
    PROVE  /\ Append(s, f) \in Seq(Frames)
           /\ \A v : Holds(Append(s, f), v) <=> Holds(s, v) \/ v = f.uuid
           /\ DistinctHolders(s) /\ (f.uuid \in shared \/ ~Holds(s, f.uuid))
                  => DistinctHolders(Append(s, f))
           /\ \A v : Unanswered(s, v)
                     /\ (v = f.uuid => f.at = "methodState" \/ answers[v] = 0)
                         => Unanswered(Append(s, f), v)
<1>1. /\ Append(s, f) \in Seq(Frames)
      /\ Len(Append(s, f)) = Len(s) + 1
      /\ \A i \in 1 .. Len(s) : Append(s, f)[i] = s[i]
      /\ Append(s, f)[Len(s) + 1] = f
  BY AppendProperties
<1>2. Len(s) \in Nat /\ DOMAIN s = 1 .. Len(s)
      /\ DOMAIN Append(s, f) = 1 .. Len(s) + 1
  BY <1>1, LenProperties
<1>3. \A i \in 1 .. Len(s) + 1 : i \in 1 .. Len(s) \/ i = Len(s) + 1
  BY <1>2
<1>4. Len(s) + 1 \in 1 .. Len(s) + 1 /\ \A i \in 1 .. Len(s) : i \in 1 .. Len(s) + 1
  BY <1>2
<1>5. \A v : Holds(Append(s, f), v) <=> Holds(s, v) \/ v = f.uuid
  BY <1>1, <1>2, <1>3, <1>4, Zenon DEF Holds
<1>6. ASSUME DistinctHolders(s), f.uuid \in shared \/ ~Holds(s, f.uuid)
      PROVE  DistinctHolders(Append(s, f))
  <2> SUFFICES ASSUME NEW i \in 1 .. Len(s) + 1, NEW j \in 1 .. Len(s) + 1,
                      Append(s, f)[i].uuid = Append(s, f)[j].uuid
               PROVE  i = j \/ Append(s, f)[i].uuid \in shared
    BY <1>2, Zenon DEF DistinctHolders
  <2>1. CASE i \in 1 .. Len(s) /\ j \in 1 .. Len(s)
    BY <1>1, <1>2, <1>6, <2>1, Zenon DEF DistinctHolders
  <2>2. CASE i \in 1 .. Len(s) /\ j = Len(s) + 1
    BY <1>1, <1>2, <1>6, <2>2, Zenon DEF Holds
  <2>3. CASE i = Len(s) + 1 /\ j \in 1 .. Len(s)
    BY <1>1, <1>2, <1>6, <2>3, Zenon DEF Holds
  <2>4. QED
    BY <1>3, <2>1, <2>2, <2>3
<1>7. \A v : Unanswered(s, v)
            /\ (v = f.uuid => f.at = "methodState" \/ answers[v] = 0)
                => Unanswered(Append(s, f), v)
  BY <1>1, <1>2, <1>3, Zenon DEF Unanswered
<1>8. QED
  BY <1>1, <1>5, <1>6, <1>7, Zenon

\* A handler that returns leaves the others on the stack, and its own uuid
\* only if it is shared.
LEMMA HoldsBelow ==
    ASSUME stack \in Seq(Frames), stack # <<>>
    PROVE  /\ Below \in Seq(Frames)
           /\ Holds(stack, Top.uuid)
           /\ \A v : Holds(Below, v) => Holds(stack, v)
           /\ DistinctHolders(stack) => DistinctHolders(Below)
           /\ DistinctHolders(stack) /\ Top.uuid \notin shared
                  => ~Holds(Below, Top.uuid)
           /\ \A v : Unanswered(stack, v) => Unanswered(Below, v)
           /\ Unanswered(stack, Top.uuid) =>
                  Top.at = "methodState" \/ answers[Top.uuid] = 0
<1>1. /\ Below \in Seq(Frames)
      /\ Len(stack) \in Nat \ {0} /\ Len(Below) = Len(stack) - 1
      /\ \A i \in 1 .. Len(Below) : Below[i] = stack[i]
  BY StackTypes
<1>2. DOMAIN stack = 1 .. Len(stack) /\ DOMAIN Below = 1 .. Len(Below)
  BY <1>1, LenProperties
<1>3. /\ Len(stack) \in DOMAIN stack
      /\ \A i \in DOMAIN Below : /\ i \in DOMAIN stack /\ i # Len(stack)
                               /\ Below[i] = stack[i]
  BY <1>1, <1>2
<1>4. QED
  BY <1>1, <1>3, Zenon DEF Top, Holds, DistinctHolders, Unanswered

-----------------------------------------------------------------------------
(* A uuid is in one place at a time *)

Once ==
    /\ NewUuidsUnused
    /\ OnePlace
    /\ Distinct(asyncQueue) /\ Distinct(asyncResultsQueue) /\ DistinctFrames
    /\ SentOnce
    /\ AnsweredOnce

\* OnePlace for one uuid, in the terms of the lemmas on stacks.
PlaceOf(u) ==
    /\ Occurs(u, asyncQueue) =>
           /\ sends[u] = 0 /\ inflight[u] = 0 /\ answers[u] = 0
           /\ ~Holds(stack, u) /\ ~Occurs(u, asyncResultsQueue)
    /\ inflight[u] > 0 =>
           /\ inflight[u] = 1 /\ answers[u] = 0
           /\ ~Holds(stack, u) /\ ~Occurs(u, asyncResultsQueue)
    /\ Occurs(u, asyncResultsQueue) => answers[u] = 0 /\ ~Holds(stack, u)
    /\ Unanswered(stack, u)

UnusedFrom(u) ==
    /\ ~Occurs(u, asyncQueue) /\ ~Holds(stack, u) /\ ~Occurs(u, asyncResultsQueue)
    /\ sends[u] = 0 /\ inflight[u] = 0 /\ answers[u] = 0

OnceByUuid ==
    /\ \A u \in Uuids : u > lastUuid => UnusedFrom(u)
    /\ \A u \in Uuids \ shared : PlaceOf(u) /\ sends[u] <= 1 /\ answers[u] <= 1
    /\ Distinct(asyncQueue) /\ Distinct(asyncResultsQueue)
    /\ DistinctHolders(stack)

LEMMA OncePerUuid == Once <=> OnceByUuid
BY Zenon DEF Once, OnceByUuid, NewUuidsUnused, OnePlace, SentOnce, AnsweredOnce, PlaceOf,
   UnusedFrom, OnStack, Holds, Unanswered, DistinctFrames, DistinctHolders

\* A handler that returns keeps its uuid on the stack, ends, or hands the uuid
\* over to the results.
LEMMA ReturnKeepsOnce ==
    ASSUME TypeOK, Once, stack # <<>>,
           UNCHANGED <<lastUuid, asyncQueue, inflight, shared, sends, answers>>,
           \/ stack' = Below /\ UNCHANGED asyncResultsQueue
           \/ /\ Top.at # "methodState" /\ stack' = Below
              /\ asyncResultsQueue' = Append(asyncResultsQueue, Top.uuid)
           \/ /\ Top.at # "methodState" /\ UNCHANGED asyncResultsQueue
              /\ \E f \in Frames : f.uuid = Top.uuid /\ stack' = Append(Below, f)
    PROVE  Once'
<1> DEFINE u == Top.uuid
<1>1. /\ stack \in Seq(Frames) /\ asyncResultsQueue \in Seq(Uuids)
      /\ Below \in Seq(Frames) /\ u \in Uuids
  BY StackTypes DEF TypeOK
<1>2. /\ \A v \in Uuids : v > lastUuid => UnusedFrom(v)
      /\ \A v \in Uuids \ shared : PlaceOf(v) /\ sends[v] <= 1 /\ answers[v] <= 1
      /\ Distinct(asyncQueue) /\ Distinct(asyncResultsQueue)
      /\ DistinctHolders(stack)
  BY OncePerUuid DEF OnceByUuid
<1>3. u \notin shared => PlaceOf(u) /\ ~Occurs(u, asyncResultsQueue)
  BY <1>1, <1>2, HoldsBelow, Zenon DEF PlaceOf
<1>4. ~(u > lastUuid)
  BY <1>1, <1>2, HoldsBelow, Zenon DEF UnusedFrom
<1>5. u \notin shared /\ Top.at # "methodState" => answers[u] = 0
  BY <1>1, <1>3, HoldsBelow, Zenon DEF PlaceOf
<1> HIDE DEF u
<1>6. ASSUME NEW v, Unanswered(stack, v)
      PROVE  Unanswered(Below, v)
  BY <1>1, <1>6, HoldsBelow
<1>7. /\ \A v : Holds(stack', v) => Holds(stack, v)
      /\ DistinctHolders(stack')
      /\ \A v \in Uuids \ shared : Unanswered(stack', v)
  <2>1. \A v \in Uuids \ shared : Unanswered(stack, v)
    BY <1>2, Zenon DEF PlaceOf
  <2>2. CASE stack' = Below
    BY <1>1, <1>2, <2>1, <2>2, HoldsBelow
  <2>3. CASE Top.at # "methodState" /\ \E f \in Frames : f.uuid = u /\ stack' = Append(Below, f)
    <3>1. PICK f \in Frames : f.uuid = u /\ stack' = Append(Below, f)
      BY <2>3
    <3>2. Holds(stack, u) /\ (u \in shared \/ ~Holds(Below, u))
      BY <1>1, <1>2, HoldsBelow DEF u
    <3>3. \A v : Holds(stack', v) => Holds(stack, v)
      BY <1>1, <3>1, <3>2, HoldsAppend, HoldsBelow
    <3>4. DistinctHolders(stack')
      BY <1>1, <1>2, <3>1, <3>2, HoldsAppend, HoldsBelow
    <3>5. \A v \in Uuids \ shared : Unanswered(stack', v)
      BY <1>1, <1>5, <2>1, <2>3, <3>1, HoldsAppend, HoldsBelow
    <3>6. QED
      BY <3>3, <3>4, <3>5
  <2>4. QED
    BY <2>2, <2>3 DEF u
<1>8. /\ Distinct(asyncResultsQueue')
      /\ \A v : Occurs(v, asyncResultsQueue') => Occurs(v, asyncResultsQueue) \/ v = u
  <2>1. CASE UNCHANGED asyncResultsQueue
    BY <1>2, <2>1
  <2>2. CASE asyncResultsQueue' = Append(asyncResultsQueue, u)
    BY <1>1, <1>2, <1>3, <2>2, DistinctAppend, OccursInAppend
  <2>3. QED
    BY <2>1, <2>2 DEF u
<1>9. UNCHANGED asyncResultsQueue
      \/ u \in shared \/ (answers[u] = 0 /\ ~Holds(stack', u))
  BY <1>1, <1>2, <1>5, HoldsBelow DEF u
<1>10. \A v \in Uuids : v > lastUuid' => UnusedFrom(v)'
  BY <1>2, <1>4, <1>7, <1>8, Zenon DEF UnusedFrom
<1>11. ASSUME NEW v \in Uuids \ shared'
       PROVE  PlaceOf(v)' /\ sends'[v] <= 1 /\ answers'[v] <= 1
  <2>1. PlaceOf(v) /\ v \notin shared
    BY <1>2
  <2>2. Occurs(v, asyncQueue) \/ inflight[v] > 0 => v # u
    BY <1>1, <2>1, HoldsBelow DEF PlaceOf, u
  <2>3. Occurs(v, asyncResultsQueue') => answers[v] = 0 /\ ~Holds(stack', v)
    BY <1>7, <1>8, <1>9, <2>1, Zenon DEF PlaceOf
  <2>4. Unanswered(stack, v)'
    BY <1>7, <2>1, Zenon DEF Unanswered
  <2>5. PlaceOf(v)'
    BY <1>7, <1>8, <2>1, <2>2, <2>3, <2>4, Zenon DEF PlaceOf
  <2>6. QED
    BY <1>2, <2>5
<1>12. (Distinct(asyncQueue) /\ Distinct(asyncResultsQueue) /\ DistinctHolders(stack))'
  BY <1>2, <1>7, <1>8, Zenon DEF Distinct, DistinctHolders
<1>13. OnceByUuid'
  BY <1>10, <1>11, <1>12, Zenon DEF OnceByUuid
<1>14. QED
  BY <1>13, OncePerUuid, PTL

\* A reply moves its uuid from the exchange to a handler or to the results.
LEMMA ReplyKeepsOnce ==
    ASSUME TypeOK, Once, NEW u \in Uuids, TakeReply(u),
           \/ UNCHANGED <<stack, asyncResultsQueue>>
           \/ /\ UNCHANGED stack
              /\ asyncResultsQueue' = Append(asyncResultsQueue, u)
           \/ /\ UNCHANGED asyncResultsQueue
              /\ \E f \in Frames : f.uuid = u /\ stack' = Append(stack, f)
    PROVE  Once'
<1>1. /\ stack \in Seq(Frames) /\ asyncResultsQueue \in Seq(Uuids)
      /\ inflight \in [Uuids -> Nat]
  BY DEF TypeOK
<1>2. /\ \A v \in Uuids : v > lastUuid => UnusedFrom(v)
      /\ \A v \in Uuids \ shared : PlaceOf(v) /\ sends[v] <= 1 /\ answers[v] <= 1
      /\ Distinct(asyncQueue) /\ Distinct(asyncResultsQueue)
      /\ DistinctHolders(stack)
  BY OncePerUuid DEF OnceByUuid
<1>3. /\ UNCHANGED <<lastUuid, asyncQueue, shared, sends, answers>>
      /\ inflight[u] > 0 /\ inflight' = [inflight EXCEPT ![u] = @ - 1]
  BY DEF TakeReply
<1>4. /\ inflight'[u] = inflight[u] - 1
      /\ \A v \in Uuids : v # u => inflight'[v] = inflight[v]
  BY <1>1, <1>3
<1>5. u \notin shared => /\ inflight'[u] = 0 /\ answers[u] = 0
                         /\ ~Holds(stack, u) /\ ~Occurs(u, asyncResultsQueue)
                         /\ ~Occurs(u, asyncQueue)
  <2>1. \A n \in Nat : n > 0 => n # 0
    OBVIOUS
  <2>2. u \notin shared => PlaceOf(u)
    BY <1>2
  <2>3. u \notin shared => inflight[u] = 1
    BY <1>3, <2>2 DEF PlaceOf
  <2>4. inflight[u] # 0
    BY <1>1, <1>3, <2>1
  <2>5. QED
    BY <1>3, <1>4, <2>2, <2>3, <2>4 DEF PlaceOf
<1>6. ~(u > lastUuid)
  BY <1>1, <1>2, <1>3 DEF UnusedFrom
<1>7. /\ \A v : Holds(stack', v) => Holds(stack, v) \/ v = u
      /\ DistinctHolders(stack')
      /\ \A v \in Uuids \ shared : Unanswered(stack', v)
  <2>1. \A v \in Uuids \ shared : Unanswered(stack, v)
    BY <1>2, Zenon DEF PlaceOf
  <2>2. CASE UNCHANGED stack
    BY <1>2, <2>1, <2>2
  <2>3. CASE \E f \in Frames : f.uuid = u /\ stack' = Append(stack, f)
    BY <1>1, <1>2, <1>5, <2>1, <2>3, HoldsAppend
  <2>4. QED
    BY <2>2, <2>3
<1>8. /\ Distinct(asyncResultsQueue')
      /\ \A v : Occurs(v, asyncResultsQueue') => Occurs(v, asyncResultsQueue) \/ v = u
  <2>1. CASE UNCHANGED asyncResultsQueue
    BY <1>2, <2>1
  <2>2. CASE asyncResultsQueue' = Append(asyncResultsQueue, u)
    BY <1>1, <1>2, <1>5, <2>2, DistinctAppend, OccursInAppend
  <2>3. QED
    BY <2>1, <2>2
<1>9. UNCHANGED stack \/ UNCHANGED asyncResultsQueue
  OBVIOUS
<1>10. \A v \in Uuids : v > lastUuid' => UnusedFrom(v)'
  BY <1>2, <1>3, <1>4, <1>6, <1>7, <1>8, Zenon DEF UnusedFrom
<1>11. ASSUME NEW v \in Uuids \ shared'
       PROVE  PlaceOf(v)' /\ sends'[v] <= 1 /\ answers'[v] <= 1
  <2>1. PlaceOf(v) /\ v \notin shared
    BY <1>2, <1>3
  <2>2. Unanswered(stack, v)'
    BY <1>3, <1>7, <2>1, Zenon DEF Unanswered
  <2>3. ASSUME v # u PROVE PlaceOf(v)'
    <3>1. /\ sends'[v] = sends[v] /\ inflight'[v] = inflight[v]
          /\ answers'[v] = answers[v] /\ asyncQueue' = asyncQueue
      BY <1>3, <1>4, <2>3
    <3>2. /\ Holds(stack', v) => Holds(stack, v)
          /\ Occurs(v, asyncResultsQueue') => Occurs(v, asyncResultsQueue)
      BY <1>7, <1>8, <2>3
    <3>3. Occurs(v, asyncQueue') =>
              /\ sends'[v] = 0 /\ inflight'[v] = 0 /\ answers'[v] = 0
              /\ ~Holds(stack', v) /\ ~Occurs(v, asyncResultsQueue')
      BY <2>1, <3>1, <3>2, Zenon DEF PlaceOf
    <3>4. inflight'[v] > 0 =>
              /\ inflight'[v] = 1 /\ answers'[v] = 0
              /\ ~Holds(stack', v) /\ ~Occurs(v, asyncResultsQueue')
      BY <2>1, <3>1, <3>2, Zenon DEF PlaceOf
    <3>5. Occurs(v, asyncResultsQueue') => answers'[v] = 0 /\ ~Holds(stack', v)
      BY <2>1, <3>1, <3>2, Zenon DEF PlaceOf
    <3>6. QED
      BY <2>2, <3>3, <3>4, <3>5, Zenon DEF PlaceOf
  <2>4. ASSUME v = u PROVE PlaceOf(v)'
    <3>1. ~Occurs(u, asyncQueue') /\ inflight'[u] = 0 /\ answers'[u] = 0
      BY <1>3, <1>5, <2>1, <2>4
    <3>2. ~(inflight'[u] > 0)
      BY <3>1
    <3>3. Occurs(u, asyncResultsQueue') => ~Holds(stack', u)
      BY <1>5, <1>9, <2>1, <2>4
    <3>4. PlaceOf(u)'
      BY <2>2, <2>4, <3>1, <3>2, <3>3, Zenon DEF PlaceOf
    <3>5. QED
      BY <2>4, <3>4
  <2>5. QED
    BY <1>2, <1>3, <2>3, <2>4
<1>12. (Distinct(asyncQueue) /\ Distinct(asyncResultsQueue) /\ DistinctHolders(stack))'
  BY <1>2, <1>3, <1>7, <1>8, Zenon DEF Distinct, DistinctHolders
<1>13. OnceByUuid'
  BY <1>10, <1>11, <1>12, Zenon DEF OnceByUuid
<1>14. QED
  BY <1>13, OncePerUuid, PTL

\* A new request takes the next uuid, which nothing knows yet; a request that
\* repeats the last uuid makes it a shared one.
LEMMA AcceptKeepsOnce ==
    ASSUME TypeOK, Once, NEW m, NEW l, NEW u \in Uuids, CreateAsyncWaiter(m, l, u)
    PROVE  Once'
<1>1. /\ asyncQueue \in Seq(Uuids) /\ lastUuid \in Nat /\ u \in Nat
  BY ConstantsOK DEF TypeOK, Uuids
<1>2. /\ \A v \in Uuids : v > lastUuid => UnusedFrom(v)
      /\ \A v \in Uuids \ shared : PlaceOf(v) /\ sends[v] <= 1 /\ answers[v] <= 1
      /\ Distinct(asyncQueue) /\ Distinct(asyncResultsQueue)
      /\ DistinctHolders(stack)
  BY OncePerUuid DEF OnceByUuid
<1>3. /\ UNCHANGED <<stack, asyncResultsQueue, inflight, sends, answers>>
      /\ asyncQueue' = Append(asyncQueue, u) /\ lastUuid' = u
      /\ u = lastUuid + 1 \/ u = lastUuid
      /\ shared' = IF u = lastUuid THEN shared \cup {u} ELSE shared
  BY DEF CreateAsyncWaiter
<1>4. /\ shared \subseteq shared'
      /\ u \notin shared' => UnusedFrom(u)
  <2>1. u = lastUuid => u \in shared'
    BY <1>3
  <2>2. u = lastUuid + 1 => u > lastUuid
    BY <1>1
  <2>3. QED
    BY <1>2, <1>3, <2>1, <2>2
<1>5. \A v : Occurs(v, asyncQueue') <=> Occurs(v, asyncQueue) \/ v = u
  BY <1>1, <1>3, OccursInAppend
<1>6. \A v \in Uuids : v > lastUuid' => UnusedFrom(v)'
  <2>1. \A v \in Uuids : v > lastUuid' => v > lastUuid /\ v # u
    BY <1>1, <1>3 DEF Uuids
  <2>2. QED
    BY <1>2, <1>3, <1>5, <2>1, Zenon DEF UnusedFrom
<1>7. ASSUME NEW v \in Uuids \ shared'
      PROVE  PlaceOf(v)' /\ sends'[v] <= 1 /\ answers'[v] <= 1
  <2>1. PlaceOf(v) /\ v \notin shared
    BY <1>2, <1>4
  <2>2. Unanswered(stack, v)'
    BY <1>3, <2>1, Zenon DEF PlaceOf, Unanswered
  <2>3. ASSUME v # u PROVE PlaceOf(v)'
    <3>1. Occurs(v, asyncQueue') => Occurs(v, asyncQueue)
      BY <1>5, <2>3
    <3>2. QED
      BY <1>3, <2>1, <2>2, <3>1, Zenon DEF PlaceOf
  <2>4. ASSUME v = u PROVE PlaceOf(v)'
    <3>1. UnusedFrom(u)
      BY <1>4, <2>4
    <3>2. ~(inflight'[u] > 0)
      BY <1>3, <3>1 DEF UnusedFrom
    <3>3. QED
      BY <1>3, <2>2, <2>4, <3>1, <3>2 DEF PlaceOf, UnusedFrom
  <2>5. QED
    BY <1>2, <1>3, <1>4, <2>3, <2>4
<1>8. Distinct(asyncQueue)'
  <2>1. CASE u = lastUuid
    <3>1. Append(asyncQueue, u) \in Seq(Uuids)
          /\ Len(Append(asyncQueue, u)) = Len(asyncQueue) + 1
          /\ (\A i \in 1 .. Len(asyncQueue) : Append(asyncQueue, u)[i] = asyncQueue[i])
          /\ Append(asyncQueue, u)[Len(asyncQueue) + 1] = u
      BY <1>1, AppendProperties
    <3>2. Len(asyncQueue) \in Nat /\ DOMAIN asyncQueue = 1 .. Len(asyncQueue)
          /\ DOMAIN Append(asyncQueue, u) = 1 .. Len(asyncQueue) + 1
      BY <1>1, <3>1, LenProperties
    <3>3. \A i \in 1 .. Len(asyncQueue) + 1 :
              i \in 1 .. Len(asyncQueue) \/ i = Len(asyncQueue) + 1
      BY <3>2
    <3>4. u \in shared'
      BY <1>3, <2>1
    <3>5. \A i \in 1 .. Len(asyncQueue) + 1 : Append(asyncQueue, u)[i] \in shared'
                \/ (i \in 1 .. Len(asyncQueue) /\ Append(asyncQueue, u)[i] = asyncQueue[i])
      BY <3>1, <3>3, <3>4
    <3>6. \A i, j \in 1 .. Len(asyncQueue) :
              asyncQueue[i] = asyncQueue[j] => i = j \/ asyncQueue[i] \in shared'
      BY <1>2, <1>3, <3>2 DEF Distinct
    <3>7. asyncQueue' = Append(asyncQueue, u)
      BY <1>3
    <3>8. QED
      BY <3>2, <3>5, <3>6, <3>7 DEF Distinct
  <2>2. CASE u # lastUuid
    <3>1. shared' = shared /\ ~Occurs(u, asyncQueue)
      BY <1>2, <1>3, <1>1, <2>2 DEF UnusedFrom
    <3>2. Distinct(Append(asyncQueue, u))
      BY <1>1, <1>2, <3>1, DistinctAppend
    <3>3. QED
      BY <1>3, <3>1, <3>2, Zenon DEF Distinct
  <2>3. QED
    BY <2>1, <2>2
<1>9. (Distinct(asyncResultsQueue) /\ DistinctHolders(stack))'
  BY <1>2, <1>3, <1>4, Zenon DEF Distinct, DistinctHolders
<1>10. OnceByUuid'
  BY <1>6, <1>7, <1>8, <1>9, Zenon DEF OnceByUuid
<1>11. QED
  BY <1>10, OncePerUuid, PTL

\* A tick moves the head of the queue to the exchange, to the results, or
\* nowhere.
LEMMA QueueKeepsOnce == TypeOK /\ Once /\ ProcessAsyncQueue => Once'
<1> SUFFICES ASSUME TypeOK, Once, ProcessAsyncQueue
             PROVE  Once'
  OBVIOUS
<1> DEFINE u == Head(asyncQueue)
<1>1. /\ asyncQueue \in Seq(Uuids) /\ asyncQueue # <<>>
      /\ asyncResultsQueue \in Seq(Uuids)
      /\ inflight \in [Uuids -> Nat] /\ sends \in [Uuids -> Nat]
  BY DEF ProcessAsyncQueue, TypeOK
<1>2. /\ \A v \in Uuids : v > lastUuid => UnusedFrom(v)
      /\ \A v \in Uuids \ shared : PlaceOf(v) /\ sends[v] <= 1 /\ answers[v] <= 1
      /\ Distinct(asyncQueue) /\ Distinct(asyncResultsQueue)
      /\ DistinctHolders(stack)
  BY OncePerUuid DEF OnceByUuid
<1>3. /\ UNCHANGED <<stack, lastUuid, shared, answers>>
      /\ asyncQueue' = Tail(asyncQueue)
      /\ \/ UNCHANGED <<inflight, sends, asyncResultsQueue>>
         \/ /\ UNCHANGED asyncResultsQueue
            /\ inflight' = [inflight EXCEPT ![u] = @ + 1]
            /\ sends' = [sends EXCEPT ![u] = @ + 1]
         \/ /\ UNCHANGED <<inflight, sends>>
            /\ asyncResultsQueue' = Append(asyncResultsQueue, u)
  BY DEF ProcessAsyncQueue, Dequeue, RegisterAsyncResult
<1>4. /\ u \in Uuids /\ Occurs(u, asyncQueue) /\ Tail(asyncQueue) \in Seq(Uuids)
      /\ \A v : Occurs(v, asyncQueue') => Occurs(v, asyncQueue)
      /\ Distinct(Tail(asyncQueue))
      /\ u \notin shared => ~Occurs(u, asyncQueue')
  BY <1>1, <1>2, <1>3, OccursInTail
<1> HIDE DEF u
<1>5. u \notin shared => /\ sends[u] = 0 /\ inflight[u] = 0 /\ answers[u] = 0
                         /\ ~Holds(stack, u) /\ ~Occurs(u, asyncResultsQueue)
  BY <1>2, <1>4, Zenon DEF PlaceOf
<1>6. ~(u > lastUuid)
  BY <1>2, <1>4, Zenon DEF UnusedFrom
<1>7. /\ \A v \in Uuids : v # u => inflight'[v] = inflight[v] /\ sends'[v] = sends[v]
      /\ \A v : v # u /\ Occurs(v, asyncResultsQueue') => Occurs(v, asyncResultsQueue)
  <2>1. \A v \in Uuids : v # u => inflight'[v] = inflight[v] /\ sends'[v] = sends[v]
    BY <1>1, <1>3
  <2>2. asyncResultsQueue' = asyncResultsQueue
        \/ asyncResultsQueue' = Append(asyncResultsQueue, u)
    BY <1>3
  <2>3. \A v : v # u /\ Occurs(v, asyncResultsQueue') => Occurs(v, asyncResultsQueue)
    <3>1. \A v : Occurs(v, Append(asyncResultsQueue, u)) =>
                    Occurs(v, asyncResultsQueue) \/ v = u
      BY <1>1, <1>4, OccursInAppend
    <3>2. QED
      BY <2>2, <3>1
  <2>4. QED
    BY <2>1, <2>3
<1>8. Distinct(asyncResultsQueue')
  BY <1>1, <1>2, <1>3, <1>4, <1>5, DistinctAppend
<1>9. u \notin shared =>
          /\ inflight'[u] > 0 => inflight'[u] = 1 /\ ~Occurs(u, asyncResultsQueue')
          /\ sends'[u] <= 1
  <2> SUFFICES ASSUME u \notin shared
               PROVE  /\ inflight'[u] > 0 => /\ inflight'[u] = 1
                                             /\ ~Occurs(u, asyncResultsQueue')
                      /\ sends'[u] <= 1
    OBVIOUS
  <2>1. CASE UNCHANGED <<inflight, sends>>
    <3>1. inflight'[u] = 0 /\ sends'[u] = 0
      BY <1>5, <2>1
    <3>2. QED
      BY <3>1
  <2>2. CASE /\ UNCHANGED asyncResultsQueue
             /\ inflight' = [inflight EXCEPT ![u] = @ + 1]
             /\ sends' = [sends EXCEPT ![u] = @ + 1]
    <3>1. inflight'[u] = 1 /\ sends'[u] = 1
      BY <1>1, <1>4, <1>5, <2>2
    <3>2. ~Occurs(u, asyncResultsQueue')
      BY <1>5, <2>2
    <3>3. QED
      BY <3>1, <3>2
  <2>3. QED
    BY <1>3, <2>1, <2>2
<1>10. \A v \in Uuids : v > lastUuid' => UnusedFrom(v)'
  <2>1. \A v \in Uuids : v > lastUuid' => UnusedFrom(v) /\ v # u
    BY <1>2, <1>3, <1>6
  <2>2. QED
    BY <1>3, <1>4, <1>7, <2>1, Zenon DEF UnusedFrom
<1>11. ASSUME NEW v \in Uuids \ shared'
       PROVE  PlaceOf(v)' /\ sends'[v] <= 1 /\ answers'[v] <= 1
  <2>1. PlaceOf(v) /\ v \notin shared /\ answers'[v] <= 1
    BY <1>2, <1>3
  <2>2. Unanswered(stack, v)'
    BY <1>3, <2>1, Zenon DEF PlaceOf, Unanswered
  <2>3. ASSUME v # u PROVE PlaceOf(v)' /\ sends'[v] <= 1
    <3>1. /\ inflight'[v] = inflight[v] /\ sends'[v] = sends[v]
          /\ answers'[v] = answers[v] /\ stack' = stack
          /\ Occurs(v, asyncQueue') => Occurs(v, asyncQueue)
          /\ Occurs(v, asyncResultsQueue') => Occurs(v, asyncResultsQueue)
      BY <1>3, <1>4, <1>7, <2>3
    <3>2. PlaceOf(v)'
      BY <2>1, <2>2, <3>1, Zenon DEF PlaceOf
    <3>3. QED
      BY <1>2, <2>1, <3>1, <3>2
  <2>4. ASSUME v = u PROVE PlaceOf(v)' /\ sends'[v] <= 1
    <3>1. ~Occurs(u, asyncQueue') /\ answers'[u] = 0 /\ ~Holds(stack', u)
      BY <1>3, <1>4, <1>5, <2>1, <2>4
    <3>2. /\ inflight'[u] > 0 => inflight'[u] = 1 /\ ~Occurs(u, asyncResultsQueue')
          /\ sends'[u] <= 1
      BY <1>9, <2>1, <2>4, Zenon
    <3>3. PlaceOf(v)'
      BY <2>2, <2>4, <3>1, <3>2, Zenon DEF PlaceOf
    <3>4. QED
      BY <2>4, <3>2, <3>3
  <2>5. QED
    BY <2>1, <2>3, <2>4
<1>12. (Distinct(asyncQueue) /\ Distinct(asyncResultsQueue) /\ DistinctHolders(stack))'
  BY <1>2, <1>3, <1>4, <1>8, Zenon DEF Distinct, DistinctHolders
<1>13. OnceByUuid'
  BY <1>10, <1>11, <1>12, Zenon DEF OnceByUuid
<1>14. QED
  BY <1>13, OncePerUuid, PTL

\* A tick publishes the oldest result, which was not published before, and
\* leaves its uuid with methodState's call.
LEMMA QueueResultKeepsOnce == TypeOK /\ Once /\ ProcessAsyncQueueResult => Once'
<1> SUFFICES ASSUME TypeOK, Once, ProcessAsyncQueueResult
             PROVE  Once'
  OBVIOUS
<1> DEFINE u == Head(asyncResultsQueue)
           f == Frame("methodState", u)
<1>1. /\ asyncResultsQueue \in Seq(Uuids) /\ asyncResultsQueue # <<>>
      /\ stack \in Seq(Frames) /\ answers \in [Uuids -> Nat]
  BY DEF ProcessAsyncQueueResult, TypeOK
<1>2. /\ \A v \in Uuids : v > lastUuid => UnusedFrom(v)
      /\ \A v \in Uuids \ shared : PlaceOf(v) /\ sends[v] <= 1 /\ answers[v] <= 1
      /\ Distinct(asyncQueue) /\ Distinct(asyncResultsQueue)
      /\ DistinctHolders(stack)
  BY OncePerUuid DEF OnceByUuid
<1>3. /\ UNCHANGED <<lastUuid, asyncQueue, inflight, shared, sends>>
      /\ asyncResultsQueue' = Tail(asyncResultsQueue)
      /\ \/ UNCHANGED <<answers, stack>>
         \/ /\ answers' = [answers EXCEPT ![u] = @ + 1]
            /\ stack' = Append(stack, f)
  BY DEF ProcessAsyncQueueResult
<1>4. /\ u \in Uuids /\ Occurs(u, asyncResultsQueue)
      /\ \A v : Occurs(v, asyncResultsQueue') => Occurs(v, asyncResultsQueue)
      /\ Distinct(asyncResultsQueue')
      /\ u \notin shared => ~Occurs(u, asyncResultsQueue')
  BY <1>1, <1>2, <1>3, OccursInTail
<1>5. f \in Frames /\ f.uuid = u /\ f.at = "methodState"
  BY <1>4, FrameTypes DEF Points, Frame, OrderFrame
<1> HIDE DEF u, f
<1>6. u \notin shared => /\ answers[u] = 0 /\ ~Holds(stack, u)
                         /\ ~Occurs(u, asyncQueue) /\ ~(inflight[u] > 0)
  BY <1>2, <1>4, Zenon DEF PlaceOf
<1>7. ~(u > lastUuid)
  BY <1>2, <1>4, Zenon DEF UnusedFrom
<1>8. /\ \A v \in Uuids : v # u => answers'[v] = answers[v]
      /\ \A v : Holds(stack', v) => Holds(stack, v) \/ v = u
      /\ DistinctHolders(stack')
  <2>1. \A v \in Uuids : v # u => answers'[v] = answers[v]
    BY <1>1, <1>3
  <2>2. stack' = stack \/ stack' = Append(stack, f)
    BY <1>3
  <2>3. \A v : Holds(stack', v) => Holds(stack, v) \/ v = u
    BY <1>1, <1>5, <2>2, HoldsAppend
  <2>4. DistinctHolders(stack')
    BY <1>1, <1>2, <1>5, <1>6, <2>2, HoldsAppend
  <2>5. QED
    BY <2>1, <2>3, <2>4
<1>9. \A v \in Uuids \ shared : Unanswered(stack, v)'
  <2>1. \A v \in Uuids \ shared : Unanswered(stack, v)
    BY <1>2, Zenon DEF PlaceOf
  <2>2. \A v \in Uuids \ shared : Unanswered(stack', v)
    BY <1>1, <1>3, <1>5, <2>1, HoldsAppend
  <2>3. u \notin shared => \A i \in DOMAIN stack' :
            stack'[i].uuid = u => stack'[i].at = "methodState" \/ answers'[u] = 0
    <3>1. CASE UNCHANGED <<answers, stack>>
      BY <1>6, <3>1
    <3>2. CASE stack' = Append(stack, f)
      <4>1. /\ Len(stack) \in Nat /\ DOMAIN stack = 1 .. Len(stack)
            /\ DOMAIN stack' = 1 .. Len(stack) + 1
            /\ stack'[Len(stack) + 1] = f
            /\ \A i \in 1 .. Len(stack) : stack'[i] = stack[i]
        BY <1>1, <1>5, <3>2, AppendProperties, LenProperties
      <4>2. \A i \in 1 .. Len(stack) + 1 : i \in 1 .. Len(stack) \/ i = Len(stack) + 1
        BY <4>1
      <4>3. QED
        BY <1>5, <1>6, <4>1, <4>2, Zenon DEF Holds
    <3>3. QED
      BY <1>3, <3>1, <3>2
  <2>4. QED
    BY <1>4, <1>8, <2>2, <2>3, Zenon DEF Unanswered
<1>10. \A v \in Uuids : v > lastUuid' => UnusedFrom(v)'
  <2>1. \A v \in Uuids : v > lastUuid' => UnusedFrom(v) /\ v # u
    BY <1>2, <1>3, <1>7
  <2>2. QED
    BY <1>3, <1>4, <1>8, <2>1, Zenon DEF UnusedFrom
<1>11. ASSUME NEW v \in Uuids \ shared'
       PROVE  PlaceOf(v)' /\ sends'[v] <= 1 /\ answers'[v] <= 1
  <2>1. PlaceOf(v) /\ v \notin shared /\ sends'[v] <= 1
    BY <1>2, <1>3
  <2>2. Unanswered(stack, v)'
    BY <1>9, <2>1
  <2>3. ASSUME v # u PROVE PlaceOf(v)' /\ answers'[v] <= 1
    <3>1. /\ inflight'[v] = inflight[v] /\ sends'[v] = sends[v]
          /\ answers'[v] = answers[v] /\ asyncQueue' = asyncQueue
          /\ Holds(stack', v) => Holds(stack, v)
          /\ Occurs(v, asyncResultsQueue') => Occurs(v, asyncResultsQueue)
      BY <1>3, <1>4, <1>8, <2>3
    <3>2. PlaceOf(v)'
      BY <2>1, <2>2, <3>1, Zenon DEF PlaceOf
    <3>3. QED
      BY <1>2, <2>1, <3>1, <3>2
  <2>4. ASSUME v = u PROVE PlaceOf(v)' /\ answers'[v] <= 1
    <3>1. /\ ~Occurs(u, asyncQueue') /\ ~(inflight'[u] > 0)
          /\ ~Occurs(u, asyncResultsQueue')
      BY <1>3, <1>4, <1>6, <2>1, <2>4, Zenon
    <3>2. PlaceOf(v)'
      BY <2>2, <2>4, <3>1, Zenon DEF PlaceOf
    <3>3. answers[u] = 0
      BY <1>6, <2>1, <2>4
    <3>4. answers'[u] = 0 \/ answers'[u] = 1
      BY <1>1, <1>3, <1>4, <3>3
    <3>5. answers'[u] <= 1
      BY <3>4
    <3>6. QED
      BY <2>4, <3>2, <3>5, Zenon
  <2>5. QED
    BY <2>1, <2>3, <2>4
<1>12. (Distinct(asyncQueue) /\ Distinct(asyncResultsQueue) /\ DistinctHolders(stack))'
  BY <1>2, <1>3, <1>4, <1>8, Zenon DEF Distinct, DistinctHolders
<1>13. OnceByUuid'
  BY <1>10, <1>11, <1>12, Zenon DEF OnceByUuid
<1>14. QED
  BY <1>13, OncePerUuid, PTL

\* However a reply is parsed, its handler ends, waits, or has a result.
LEMMA ParsedOutcome ==
    ASSUME TypeOK, NEW u \in Uuids, NEW r \in Parsed, NEW base,
           OnApiResponseParsed(u, r, base)
    PROVE  \/ stack' = base /\ UNCHANGED asyncResultsQueue
           \/ stack' = base /\ asyncResultsQueue' = Append(asyncResultsQueue, u)
           \/ /\ UNCHANGED asyncResultsQueue
              /\ \E f \in Frames : f.uuid = u /\ stack' = Append(base, f)
<1> DEFINE isOrder == asyncDictionary[u] \in OrderMethods /\ registered[u] # NoId
           l == IF isOrder THEN RegisteredLocal(u) ELSE NoId
           p == IF r.success THEN "placed" ELSE "placeError"
<1>1. l \in Locals
  BY OrderTypes DEF TypeOK, Locals
<1>2. \/ stack' = base /\ UNCHANGED asyncResultsQueue
      \/ stack' = base /\ RegisterAsyncResult(u, TRUE)
      \/ /\ UNCHANGED asyncResultsQueue
         /\ \/ stack' = Append(base, OrderFrame(p, u, r, l))
            \/ stack' = Append(base, FailureFrame(u, r))
  BY Zenon DEF OnApiResponseParsed
<1> HIDE DEF l
<1>3. /\ OrderFrame(p, u, r, l) \in Frames
      /\ OrderFrame(p, u, r, l).uuid = u
  BY <1>1, FrameTypes DEF Points, OrderFrame
<1>4. FailureFrame(u, r) \in Frames /\ FailureFrame(u, r).uuid = u
  <2>1. FailureFrame(u, r) \in Frames
    BY FrameTypes
  <2>2. FailureFrame(u, r).uuid = u
    BY DEF FailureFrame, Frame, OrderFrame
  <2>3. QED
    BY <2>1, <2>2
<1>5. RegisterAsyncResult(u, TRUE) => asyncResultsQueue' = Append(asyncResultsQueue, u)
  BY DEF RegisterAsyncResult
<1> HIDE DEF p
<1>6. QED
  BY <1>2, <1>3, <1>4, <1>5

LEMMA RepliesKeepOnce ==
    ASSUME TypeOK, Once, NEW u \in Uuids, OnNetworkReply(u)
    PROVE  Once'
<1>1. CASE \E r \in Parsed : ReplyParsed(u, r)
  <2>1. PICK r \in Parsed : ReplyParsed(u, r)
    BY <1>1
  <2>2. TakeReply(u) /\ OnApiResponseParsed(u, r, stack)
    BY <2>1 DEF ReplyParsed
  <2>3. QED
    BY <2>2, ParsedOutcome, ReplyKeepsOnce
<1>2. CASE ReplyFreeze(u) \/ ReplyForbidden(u)
  <2>1. PICK p \in {"freeze", "freezeFail"} :
            /\ TakeReply(u) /\ UNCHANGED asyncResultsQueue
            /\ stack' = Append(stack, Frame(p, u))
    BY <1>2 DEF ReplyFreeze, ReplyForbidden
  <2>2. Frame(p, u) \in Frames /\ Frame(p, u).uuid = u
    BY FrameTypes DEF Points, Frame, OrderFrame
  <2>3. QED
    BY <2>1, <2>2, ReplyKeepsOnce
<1>3. CASE ReplyBadRequest(u)
  BY <1>3, ReplyKeepsOnce DEF ReplyBadRequest
<1>4. QED
  BY <1>1, <1>2, <1>3 DEF OnNetworkReply

LEMMA ReturnsKeepOnce == TypeOK /\ Once /\ CallReturns => Once'
<1> SUFFICES ASSUME TypeOK, Once, CallReturns
             PROVE  Once'
  OBVIOUS
<1>1. /\ stack # <<>>
      /\ UNCHANGED <<lastUuid, asyncQueue, inflight, shared, sends, answers>>
  BY DEF CallReturns, ReturnFreeze, ReturnFreezeFail, ReturnPlaced,
         ReturnPlaceError, ReturnKeyError, ReturnRegister, ReturnMethodState,
         ReturnFrame
<1>2. /\ Top \in Frames /\ Top.uuid \in Uuids /\ Top.reply \in Parsed
  BY <1>1, StackTypes DEF TypeOK
<1>3. CASE ReturnFreeze \/ ReturnMethodState
  <2>1. stack' = Below /\ UNCHANGED asyncResultsQueue
    BY <1>3 DEF ReturnFreeze, ReturnMethodState
  <2>2. QED
    BY <1>1, <2>1, ReturnKeepsOnce
<1>4. CASE ReturnFreezeFail
  <2>1. Top.at # "methodState" /\ OnApiResponseParsed(Top.uuid, Failure, Below)
    BY <1>4 DEF ReturnFreezeFail
  <2>2. \/ stack' = Below /\ UNCHANGED asyncResultsQueue
        \/ stack' = Below /\ asyncResultsQueue' = Append(asyncResultsQueue, Top.uuid)
        \/ /\ UNCHANGED asyncResultsQueue
           /\ \E f \in Frames : f.uuid = Top.uuid /\ stack' = Append(Below, f)
    BY <1>2, <2>1, FrameTypes, ParsedOutcome
  <2>3. QED
    BY <1>1, <2>1, <2>2, ReturnKeepsOnce
<1>5. CASE ReturnPlaced \/ ReturnRegister
  <2>1. Top.at # "methodState"
    BY <1>5 DEF ReturnPlaced, ReturnRegister
  <2>2. stack' = Below /\ asyncResultsQueue' = Append(asyncResultsQueue, Top.uuid)
    BY <1>5 DEF ReturnPlaced, ReturnRegister, RegisterAsyncResult
  <2>3. QED
    BY <1>1, <2>1, <2>2, ReturnKeepsOnce
<1>6. CASE ReturnPlaceError
  <2>1. /\ Top.at # "methodState" /\ UNCHANGED asyncResultsQueue
        /\ stack' = Append(Below, FailureFrame(Top.uuid, Top.reply))
    BY <1>6 DEF ReturnPlaceError
  <2>2. FailureFrame(Top.uuid, Top.reply) \in Frames
    BY <1>2, FrameTypes
  <2>3. FailureFrame(Top.uuid, Top.reply).uuid = Top.uuid
    BY DEF FailureFrame, Frame, OrderFrame
  <2>4. QED
    BY <1>1, <2>1, <2>2, <2>3, ReturnKeepsOnce
<1>7. CASE ReturnKeyError
  <2>1. /\ Top.at # "methodState" /\ UNCHANGED asyncResultsQueue
        /\ stack' = Append(Below, [Top EXCEPT !.at = "register"])
    BY <1>7 DEF ReturnKeyError
  <2>2. [Top EXCEPT !.at = "register"] \in Frames
        /\ [Top EXCEPT !.at = "register"].uuid = Top.uuid
    BY <1>2 DEF Frames, Points
  <2>3. QED
    BY <1>1, <2>1, <2>2, ReturnKeepsOnce
<1>8. QED
  BY <1>3, <1>4, <1>5, <1>6, <1>7 DEF CallReturns

\* A process that dies forgets every place a uuid could be in.
LEMMA TimersKeepOnce == TypeOK /\ Once /\ (Unfreeze \/ Crash \/ UNCHANGED vars) => Once'
<1>1. ASSUME Once, UNCHANGED <<lastUuid, asyncQueue, asyncResultsQueue, stack,
                               inflight, sends, answers, shared>>
      PROVE  Once'
  BY <1>1 DEF Once, NewUuidsUnused, OnePlace, SentOnce, AnsweredOnce, Distinct,
              DistinctFrames, Occurs, OnStack
<1>2. Unfreeze \/ UNCHANGED vars =>
          UNCHANGED <<lastUuid, asyncQueue, asyncResultsQueue, stack,
                      inflight, sends, answers, shared>>
  BY DEF Unfreeze, vars, code, history
<1>3. ASSUME TypeOK, Once, Crash
      PROVE  Once'
  <2>1. /\ asyncQueue' = <<>> /\ asyncResultsQueue' = <<>> /\ stack' = <<>>
        /\ inflight' = [v \in Uuids |-> 0]
        /\ UNCHANGED <<lastUuid, sends, answers, shared>>
    BY <1>3 DEF Crash
  <2>2. DOMAIN <<>> = {}
    OBVIOUS
  <2>3. /\ \A v : ~Occurs(v, asyncQueue)' /\ ~Occurs(v, asyncResultsQueue)'
                 /\ ~OnStack(v)'
        /\ Distinct(asyncQueue)' /\ Distinct(asyncResultsQueue)' /\ DistinctFrames'
    BY <2>1, <2>2, Zenon DEF Occurs, OnStack, Distinct, DistinctFrames
  <2>4. \A v \in Uuids : inflight'[v] = 0 /\ ~(inflight'[v] > 0)
    BY <2>1
  <2>5. NewUuidsUnused' /\ SentOnce' /\ AnsweredOnce'
    BY <1>3, <2>1, <2>3, <2>4 DEF Once, NewUuidsUnused, SentOnce, AnsweredOnce
  <2>6. OnePlace'
    BY <2>1, <2>2, <2>3, <2>4, Zenon DEF OnePlace
  <2>7. QED
    BY <2>3, <2>5, <2>6, Zenon DEF Once
<1>4. QED
  BY <1>1, <1>2, <1>3

LEMMA InitOnce == Init => Once
<1> SUFFICES ASSUME Init
             PROVE  Once
  OBVIOUS
<1>1. /\ asyncQueue = <<>> /\ asyncResultsQueue = <<>> /\ stack = <<>>
      /\ \A v \in Uuids : inflight[v] = 0 /\ sends[v] = 0 /\ answers[v] = 0
  BY DEF Init
<1>2. DOMAIN <<>> = {}
  OBVIOUS
<1>3. /\ \A v : ~Occurs(v, asyncQueue) /\ ~Occurs(v, asyncResultsQueue) /\ ~OnStack(v)
      /\ Distinct(asyncQueue) /\ Distinct(asyncResultsQueue) /\ DistinctFrames
  BY <1>1, <1>2, Zenon DEF Occurs, OnStack, Distinct, DistinctFrames
<1>4. \A v \in Uuids : ~(inflight[v] > 0) /\ sends[v] <= 1 /\ answers[v] <= 1
  BY <1>1
<1>5. NewUuidsUnused
  BY <1>1, <1>3, Zenon DEF NewUuidsUnused
<1>6. OnePlace
  BY <1>1, <1>2, <1>3, <1>4, Zenon DEF OnePlace
<1>7. QED
  BY <1>3, <1>4, <1>5, <1>6, Zenon DEF Once, SentOnce, AnsweredOnce

LEMMA NextKeepsOnce == TypeOK /\ Once /\ [Next]_vars => Once'
<1>1. TypeOK /\ Once /\ Accept => Once'
  BY AcceptKeepsOnce DEF Accept
<1>2. QED
  BY <1>1, QueueKeepsOnce, RepliesKeepOnce, ReturnsKeepOnce,
     QueueResultKeepsOnce, TimersKeepOnce DEF Next

\* The inductive invariant: a uuid owned by one call is in one place at a time.
THEOREM ClientInvariant == Spec => []IInv
<1>1. IInv <=> TypeOK /\ Once /\ PauseHasTimer
  BY DEF IInv, Once
<1>2. Spec => []Once
  BY InitOnce, NextKeepsOnce, TypeCorrect, PTL DEF Spec
<1>3. QED
  BY <1>1, <1>2, TypeCorrect, PauseAlwaysHasTimer, PTL

\* An accepted request goes to the exchange at most once, whatever nests,
\* fails or crashes, unless its uuid is shared: an order is not placed twice.
THEOREM RequestSentOnce == Spec => []SentOnce
<1>1. IInv => SentOnce
  BY DEF IInv
<1>2. QED
  BY <1>1, ClientInvariant, PTL

\* The result of an accepted request is published at most once, unless its
\* uuid is shared.
THEOREM RequestAnsweredOnce == Spec => []AnsweredOnce
<1>1. IInv => AnsweredOnce
  BY DEF IInv
<1>2. QED
  BY <1>1, ClientInvariant, PTL

-----------------------------------------------------------------------------
(* No request is forgotten *)

\* What the frames of u on a stack s say of its entries: _asyncs is left alone
\* until the result was published.
FramesKnown(s, u) ==
    \A i \in DOMAIN s : s[i].uuid = u =>
        /\ s[i].at # "methodState" => asyncs[u] > 0
        /\ s[i].at = "methodState" => answers[u] > 0
        /\ s[i].at = "freeze" => u \in abandoned

\* A request that still moves has the entries that the next handler looks for,
\* so no handler takes the early return of a request it does not know.
EntriesKnown(u) ==
    /\ Occurs(u, asyncQueue) => asyncDictionary[u] # NoMethod /\ asyncs[u] > 0
    /\ inflight[u] > 0 => asyncs[u] > 0
    /\ Occurs(u, asyncResultsQueue) => asyncResults[u] # "none"
    /\ FramesKnown(stack, u)

\* NothingForgotten for one uuid.
OnItsWay(u) ==
    Accepted(u) /\ ~Settled(u) =>
        \/ Occurs(u, asyncQueue)
        \/ inflight[u] > 0
        \/ Holds(stack, u)
        \/ Occurs(u, asyncResultsQueue)

Cared(u) == EntriesKnown(u) /\ OnItsWay(u)
AllCared == \A u \in Uuids \ shared : Cared(u)

LEMMA CaredForgetsNothing == AllCared => NothingForgotten
BY StackNames, Zenon DEF AllCared, Cared, OnItsWay, NothingForgotten

\* The frames of v on a stack t are those on a stack s.
SameFrames(s, t, v) ==
    /\ Holds(s, v) => Holds(t, v)
    /\ \A i \in DOMAIN t : t[i].uuid = v => \E j \in DOMAIN s : s[j] = t[i]

LEMMA SameFramesTwice ==
    ASSUME NEW r, NEW s, NEW t, NEW v, SameFrames(r, s, v), SameFrames(s, t, v)
    PROVE  SameFrames(r, t, v)
<1>1. ASSUME NEW i \in DOMAIN t, t[i].uuid = v
      PROVE  \E j \in DOMAIN r : r[j] = t[i]
  <2>1. PICK k \in DOMAIN s : s[k] = t[i]
    BY <1>1 DEF SameFrames
  <2>2. PICK j \in DOMAIN r : r[j] = s[k]
    BY <1>1, <2>1 DEF SameFrames
  <2>3. QED
    BY <2>1, <2>2
<1>2. QED
  BY <1>1, Zenon DEF SameFrames

\* Suspending a handler of u leaves the frames of the others.
LEMMA AppendSameFrames ==
    ASSUME NEW s \in Seq(Frames), NEW f \in Frames, NEW v, v # f.uuid
    PROVE  SameFrames(s, Append(s, f), v)
<1>1. /\ Len(Append(s, f)) = Len(s) + 1
      /\ \A i \in 1 .. Len(s) : Append(s, f)[i] = s[i]
      /\ Append(s, f)[Len(s) + 1] = f
      /\ Append(s, f) \in Seq(Frames)
  BY AppendProperties
<1>2. Len(s) \in Nat /\ DOMAIN s = 1 .. Len(s)
      /\ DOMAIN Append(s, f) = 1 .. Len(s) + 1
  BY <1>1, LenProperties
<1>3. \A i \in 1 .. Len(s) + 1 : i \in 1 .. Len(s) \/ i = Len(s) + 1
  BY <1>2
<1>4. Holds(s, v) => Holds(Append(s, f), v)
  BY HoldsAppend
<1>5. QED
  BY <1>1, <1>2, <1>3, <1>4, Zenon DEF SameFrames

\* So does the end of the handler on top.
LEMMA BelowSameFrames ==
    ASSUME stack \in Seq(Frames), stack # <<>>, NEW v, v # Top.uuid
    PROVE  SameFrames(stack, Below, v)
<1>1. /\ Below \in Seq(Frames)
      /\ Len(stack) \in Nat \ {0} /\ Len(Below) = Len(stack) - 1
      /\ \A i \in 1 .. Len(Below) : Below[i] = stack[i]
  BY StackTypes
<1>2. DOMAIN stack = 1 .. Len(stack) /\ DOMAIN Below = 1 .. Len(Below)
  BY <1>1, LenProperties
<1>3. /\ \A i \in DOMAIN Below : i \in DOMAIN stack /\ Below[i] = stack[i]
      /\ \A i \in DOMAIN stack : i \in DOMAIN Below \/ i = Len(stack)
  BY <1>1, <1>2
<1>4. Holds(stack, v) => Holds(Below, v)
  BY <1>3, Zenon DEF Holds, Top
<1>5. QED
  BY <1>3, <1>4, Zenon DEF SameFrames

\* Only the head leaves a queue.
LEMMA TailKeepsOthers ==
    ASSUME NEW s \in Seq(Uuids), s # <<>>, NEW v, v # Head(s), Occurs(v, s)
    PROVE  Occurs(v, Tail(s))
<1>1. /\ Tail(s) \in Seq(Uuids) /\ Len(Tail(s)) = Len(s) - 1
      /\ \A i \in 1 .. Len(Tail(s)) : Tail(s)[i] = s[i + 1]
  BY HeadTailProperties
<1>2. Len(s) \in Nat \ {0} /\ DOMAIN s = 1 .. Len(s)
      /\ DOMAIN Tail(s) = 1 .. Len(s) - 1
  BY <1>1, EmptySeq, LenProperties
<1>3. PICK i \in 1 .. Len(s) : s[i] = v
  BY <1>2 DEF Occurs
<1>4. i # 1
  BY <1>2, <1>3
<1>5. i - 1 \in 1 .. Len(s) - 1 /\ (i - 1) + 1 = i
  BY <1>2, <1>4
<1>6. Tail(s)[i - 1] = v
  BY <1>1, <1>3, <1>5
<1>7. QED
  BY <1>2, <1>5, <1>6, Zenon DEF Occurs

\* A step that is about another uuid.
Untouched(v) ==
    /\ asyncs'[v] = asyncs[v] /\ asyncDictionary'[v] = asyncDictionary[v]
    /\ asyncResults'[v] = asyncResults[v] /\ inflight'[v] = inflight[v]
    /\ answers'[v] = answers[v]
    /\ v \in abandoned => v \in abandoned'
    /\ v \in lost => v \in lost'
    /\ Accepted(v)' => Accepted(v)
    /\ Occurs(v, asyncQueue') <=> Occurs(v, asyncQueue)
    /\ Occurs(v, asyncResultsQueue') <=> Occurs(v, asyncResultsQueue)
    /\ SameFrames(stack, stack', v)

LEMMA UntouchedIsCared ==
    ASSUME NEW v \in Uuids, Cared(v), Untouched(v)
    PROVE  Cared(v)'
<1>1. ASSUME NEW i \in DOMAIN stack', stack'[i].uuid = v
      PROVE  /\ stack'[i].at # "methodState" => asyncs'[v] > 0
             /\ stack'[i].at = "methodState" => answers'[v] > 0
             /\ stack'[i].at = "freeze" => v \in abandoned'
  <2>1. PICK j \in DOMAIN stack : stack[j] = stack'[i]
    BY <1>1 DEF Untouched, SameFrames
  <2>2. QED
    BY <1>1, <2>1 DEF Untouched, Cared, EntriesKnown, FramesKnown
<1>2. EntriesKnown(v)'
  <2>1. FramesKnown(stack, v)'
    BY <1>1, Zenon DEF FramesKnown
  <2>2. QED
    BY <2>1, Zenon DEF Untouched, Cared, EntriesKnown
<1>3. Accepted(v)' /\ ~Settled(v)' => Accepted(v) /\ ~Settled(v)
  BY Zenon DEF Untouched, Settled
<1>4. OnItsWay(v)'
  BY <1>3, Zenon DEF Untouched, Cared, OnItsWay, SameFrames
<1>5. QED
  BY <1>2, <1>4, Zenon DEF Cared

\* A handler of u that has a result, waits, or ends with u settled, and that
\* is the only place of u.
LEMMA HandlerCares ==
    ASSUME NEW u \in Uuids, NEW base \in Seq(Frames), ~Holds(base, u),
           asyncResultsQueue \in Seq(Uuids),
           ~Occurs(u, asyncQueue'), ~(inflight'[u] > 0),
           ~Occurs(u, asyncResultsQueue),
           \/ /\ stack' = base /\ asyncResults'[u] # "none"
              /\ asyncResultsQueue' = Append(asyncResultsQueue, u)
           \/ /\ UNCHANGED asyncResultsQueue
              /\ \E f \in Frames :
                     /\ f.uuid = u /\ stack' = Append(base, f)
                     /\ f.at # "methodState" => asyncs'[u] > 0
                     /\ f.at = "methodState" => answers'[u] > 0
                     /\ f.at = "freeze" => u \in abandoned'
           \/ /\ stack' = base /\ UNCHANGED asyncResultsQueue
              /\ u \in abandoned' \/ answers'[u] > 0
    PROVE  Cared(u)'
<1>1. CASE /\ stack' = base /\ asyncResults'[u] # "none"
           /\ asyncResultsQueue' = Append(asyncResultsQueue, u)
  <2>1. Occurs(u, asyncResultsQueue')
    BY <1>1, OccursInAppend
  <2>2. FramesKnown(stack, u)'
    BY <1>1, Zenon DEF FramesKnown, Holds
  <2>3. QED
    BY <1>1, <2>1, <2>2, Zenon DEF Cared, EntriesKnown, OnItsWay
<1>2. CASE /\ UNCHANGED asyncResultsQueue
           /\ \E f \in Frames :
                  /\ f.uuid = u /\ stack' = Append(base, f)
                  /\ f.at # "methodState" => asyncs'[u] > 0
                  /\ f.at = "methodState" => answers'[u] > 0
                  /\ f.at = "freeze" => u \in abandoned'
  <2>1. PICK f \in Frames :
            /\ f.uuid = u /\ stack' = Append(base, f)
            /\ f.at # "methodState" => asyncs'[u] > 0
            /\ f.at = "methodState" => answers'[u] > 0
            /\ f.at = "freeze" => u \in abandoned'
    BY <1>2
  <2>2. Holds(stack', u)
    BY <2>1, HoldsAppend
  <2>3. /\ Len(base) \in Nat /\ DOMAIN base = 1 .. Len(base)
        /\ DOMAIN stack' = 1 .. Len(base) + 1
        /\ stack'[Len(base) + 1] = f
        /\ \A i \in 1 .. Len(base) : stack'[i] = base[i]
    BY <2>1, AppendProperties, LenProperties
  <2>4. \A i \in 1 .. Len(base) + 1 : i \in 1 .. Len(base) \/ i = Len(base) + 1
    BY <2>3
  <2>5. \A i \in DOMAIN stack' : stack'[i].uuid = u => stack'[i] = f
    BY <2>3, <2>4, Zenon DEF Holds
  <2>6. FramesKnown(stack, u)'
    BY <2>1, <2>5, Zenon DEF FramesKnown
  <2>7. QED
    BY <1>2, <2>2, <2>6, Zenon DEF Cared, EntriesKnown, OnItsWay
<1>3. CASE /\ stack' = base /\ UNCHANGED asyncResultsQueue
           /\ u \in abandoned' \/ answers'[u] > 0
  <2>1. FramesKnown(stack, u)'
    BY <1>3, Zenon DEF FramesKnown, Holds
  <2>2. Settled(u)'
    BY <1>3, Zenon DEF Settled
  <2>3. QED
    BY <1>3, <2>1, <2>2, Zenon DEF Cared, EntriesKnown, OnItsWay
<1>4. QED
  BY <1>1, <1>2, <1>3

\* What Once says of a uuid that one call owns.
LEMMA OnceSays ==
    ASSUME Once
    PROVE  /\ \A v \in Uuids : v > lastUuid => UnusedFrom(v)
           /\ \A v \in Uuids \ shared : PlaceOf(v)
           /\ Distinct(asyncQueue) /\ Distinct(asyncResultsQueue)
           /\ DistinctHolders(stack)
BY OncePerUuid DEF OnceByUuid

LEMMA SameStack == \A v : SameFrames(stack, stack, v)
BY Zenon DEF SameFrames

\* A new request is queued with its entries.
LEMMA AcceptCares ==
    ASSUME TypeOK, Once, AllCared, NEW m, NEW l, NEW u \in Uuids,
           CreateAsyncWaiter(m, l, u)
    PROVE  AllCared'
<1>1. /\ asyncQueue \in Seq(Uuids) /\ lastUuid \in Nat /\ u \in Nat
      /\ asyncs \in [Uuids -> Nat]
      /\ asyncDictionary \in [Uuids -> Methods \cup {NoMethod}]
  BY ConstantsOK DEF TypeOK, Uuids
<1>2. /\ UNCHANGED <<stack, asyncResultsQueue, asyncResults, inflight, answers,
                     abandoned, lost>>
      /\ asyncQueue' = Append(asyncQueue, u)
      /\ asyncs' = [asyncs EXCEPT ![u] = @ + 1]
      /\ asyncDictionary' = [asyncDictionary EXCEPT ![u] = m]
      /\ requests' = requests \cup {[uuid |-> u, method |-> m, local |-> l]}
      /\ u = lastUuid + 1 \/ u = lastUuid
      /\ shared' = IF u = lastUuid THEN shared \cup {u} ELSE shared
      /\ m \in Callable
  BY DEF CreateAsyncWaiter
<1>3. shared \subseteq shared' /\ (u \notin shared' => UnusedFrom(u))
  <2>1. u = lastUuid => u \in shared'
    BY <1>2
  <2>2. u = lastUuid + 1 => u > lastUuid
    BY <1>1
  <2>3. QED
    BY <1>2, <2>1, <2>2, OnceSays
<1>4. \A v : Occurs(v, asyncQueue') <=> Occurs(v, asyncQueue) \/ v = u
  BY <1>1, <1>2, OccursInAppend
<1>5. ASSUME NEW v \in Uuids \ shared', v # u
      PROVE  Cared(v)'
  <2>1. asyncs'[v] = asyncs[v] /\ asyncDictionary'[v] = asyncDictionary[v]
    BY <1>1, <1>2, <1>5
  <2>2. Accepted(v)' => Accepted(v)
    BY <1>2, <1>5 DEF Accepted
  <2>3. SameFrames(stack, stack', v)
    BY <1>2, SameStack
  <2>4. Untouched(v)
    BY <1>2, <1>4, <1>5, <2>1, <2>2, <2>3, Zenon DEF Untouched
  <2>5. Cared(v)
    BY <1>3 DEF AllCared
  <2>6. QED
    BY <2>4, <2>5, UntouchedIsCared
<1>6. ASSUME u \notin shared'
      PROVE  Cared(u)'
  <2>1. asyncs'[u] > 0
    BY <1>1, <1>2
  <2>2. asyncDictionary'[u] = m /\ m # NoMethod
    BY <1>1, <1>2, ConstantsOK DEF NoMethod
  <2>3. /\ UnusedFrom(u) /\ ~(inflight'[u] > 0) /\ Occurs(u, asyncQueue')
        /\ ~Holds(stack', u) /\ ~Occurs(u, asyncResultsQueue')
    BY <1>2, <1>3, <1>4, <1>6 DEF UnusedFrom
  <2>4. FramesKnown(stack, u)'
    BY <2>3, Zenon DEF FramesKnown, Holds
  <2>5. QED
    BY <2>1, <2>2, <2>3, <2>4, Zenon DEF Cared, EntriesKnown, OnItsWay
<1>7. QED
  BY <1>5, <1>6, Zenon DEF AllCared

\* A tick sends the oldest request, answers it, or abandons it.
LEMMA QueueCares == TypeOK /\ Once /\ AllCared /\ ProcessAsyncQueue => AllCared'
<1>0. TypeOK /\ ProcessAsyncQueue => Head(asyncQueue) \in Uuids
  BY OccursInTail DEF TypeOK, ProcessAsyncQueue
<1> SUFFICES ASSUME TypeOK, Once, AllCared, ProcessAsyncQueue,
                    NEW u \in Uuids, u = Head(asyncQueue)
             PROVE  AllCared'
  BY <1>0
<1>1. /\ asyncQueue \in Seq(Uuids) /\ asyncQueue # <<>>
      /\ asyncResultsQueue \in Seq(Uuids) /\ stack \in Seq(Frames)
      /\ inflight \in [Uuids -> Nat]
      /\ asyncResults \in [Uuids -> {"none", "ok", "fail"}]
  BY DEF ProcessAsyncQueue, TypeOK
<1>2. /\ UNCHANGED <<stack, asyncs, asyncDictionary, requests, shared, answers,
                     lost>>
      /\ asyncQueue' = Tail(asyncQueue)
      /\ \/ /\ asyncDictionary[u] = NoMethod
            /\ UNCHANGED <<inflight, asyncResults, asyncResultsQueue, abandoned>>
         \/ /\ inflight' = [inflight EXCEPT ![u] = @ + 1]
            /\ UNCHANGED <<asyncResults, asyncResultsQueue, abandoned>>
         \/ /\ \E ok \in BOOLEAN : RegisterAsyncResult(u, ok)
            /\ UNCHANGED <<inflight, abandoned>>
         \/ /\ abandoned' = abandoned \cup {u}
            /\ UNCHANGED <<inflight, asyncResults, asyncResultsQueue>>
  BY DEF ProcessAsyncQueue, Dequeue
<1>3. /\ Occurs(u, asyncQueue)
      /\ \A v : Occurs(v, Tail(asyncQueue)) => Occurs(v, asyncQueue)
      /\ u \notin shared => ~Occurs(u, Tail(asyncQueue))
      /\ \A v : v # u /\ Occurs(v, asyncQueue) => Occurs(v, Tail(asyncQueue))
  BY <1>1, OccursInTail, OnceSays, TailKeepsOthers
<1>4. ASSUME \E ok \in BOOLEAN : RegisterAsyncResult(u, ok)
      PROVE  /\ asyncResultsQueue' = Append(asyncResultsQueue, u)
             /\ asyncResults'[u] # "none"
             /\ \A v \in Uuids : v # u => asyncResults'[v] = asyncResults[v]
  BY <1>1, <1>3, <1>4 DEF RegisterAsyncResult
<1>5. ASSUME NEW v \in Uuids \ shared', v # u
      PROVE  Cared(v)'
  <2>1. Occurs(v, asyncQueue') <=> Occurs(v, asyncQueue)
    BY <1>2, <1>3, <1>5
  <2>2. Occurs(v, asyncResultsQueue') <=> Occurs(v, asyncResultsQueue)
    <3>1. asyncResultsQueue' = asyncResultsQueue
          \/ asyncResultsQueue' = Append(asyncResultsQueue, u)
      BY <1>2, <1>4
    <3>2. Occurs(v, Append(asyncResultsQueue, u)) <=> Occurs(v, asyncResultsQueue)
      BY <1>1, <1>3, <1>5, OccursInAppend
    <3>3. QED
      BY <3>1, <3>2
  <2>3. asyncResults'[v] = asyncResults[v]
    BY <1>2, <1>4, <1>5
  <2>4. inflight'[v] = inflight[v]
    BY <1>1, <1>2, <1>5
  <2>5. SameFrames(stack, stack', v) /\ (Accepted(v)' => Accepted(v))
    BY <1>2, SameStack DEF Accepted
  <2>6. v \in abandoned => v \in abandoned'
    BY <1>2
  <2>7. Untouched(v)
    BY <1>2, <2>1, <2>2, <2>3, <2>4, <2>5, <2>6, Zenon DEF Untouched
  <2>8. Cared(v)
    BY <1>2 DEF AllCared
  <2>9. QED
    BY <2>7, <2>8, UntouchedIsCared
<1>6. ASSUME u \notin shared'
      PROVE  Cared(u)'
  <2>1. /\ asyncDictionary[u] # NoMethod /\ asyncs[u] > 0
        /\ inflight[u] = 0 /\ ~Holds(stack, u) /\ ~Occurs(u, asyncResultsQueue)
    BY <1>2, <1>3, <1>6, OnceSays DEF AllCared, Cared, EntriesKnown, PlaceOf
  <2>2. ~Occurs(u, asyncQueue') /\ asyncs'[u] > 0 /\ ~Holds(stack', u)
    BY <1>2, <1>3, <1>6, <2>1
  <2>3. FramesKnown(stack, u)'
    BY <2>2, Zenon DEF FramesKnown, Holds
  <2>4. CASE inflight' = [inflight EXCEPT ![u] = @ + 1] /\ UNCHANGED asyncResultsQueue
    <3>1. inflight'[u] > 0
      BY <1>1, <1>3, <2>4
    <3>2. QED
      BY <2>1, <2>2, <2>3, <2>4, <3>1, Zenon DEF Cared, EntriesKnown, OnItsWay
  <2>5. CASE (\E ok \in BOOLEAN : RegisterAsyncResult(u, ok)) /\ UNCHANGED inflight
    <3>1. ~(inflight'[u] > 0) /\ stack' = stack
      BY <1>2, <2>1, <2>5
    <3>2. QED
      BY <1>1, <1>3, <1>4, <2>1, <2>2, <2>5, <3>1, HandlerCares
  <2>6. CASE u \in abandoned' /\ UNCHANGED <<inflight, asyncResultsQueue>>
    <3>1. ~(inflight'[u] > 0) /\ stack' = stack
      BY <1>2, <2>1, <2>6
    <3>2. QED
      BY <1>1, <1>3, <2>1, <2>2, <2>6, <3>1, HandlerCares
  <2>7. QED
    BY <1>2, <2>1, <2>4, <2>5, <2>6
<1>7. QED
  BY <1>5, <1>6, Zenon DEF AllCared

\* What a step of a handler of u makes of it, on the stack below that handler.
HandlerOf(u, base) ==
    \/ /\ stack' = base /\ asyncResults'[u] # "none"
       /\ asyncResultsQueue' = Append(asyncResultsQueue, u)
    \/ /\ UNCHANGED asyncResultsQueue
       /\ \E f \in Frames :
              /\ f.uuid = u /\ stack' = Append(base, f)
              /\ u \notin shared =>
                     /\ f.at # "methodState" => asyncs'[u] > 0
                     /\ f.at = "methodState" => answers'[u] > 0
                     /\ f.at = "freeze" => u \in abandoned'
    \/ /\ stack' = base /\ UNCHANGED asyncResultsQueue
       /\ u \notin shared => u \in abandoned' \/ answers'[u] > 0

\* A step that changes the entries of u only.
EntriesOf(u) ==
    /\ UNCHANGED <<asyncQueue, requests, shared, lost>>
    /\ abandoned \subseteq abandoned'
    /\ \A v \in Uuids : v # u =>
           /\ asyncs'[v] = asyncs[v] /\ asyncDictionary'[v] = asyncDictionary[v]
           /\ asyncResults'[v] = asyncResults[v] /\ inflight'[v] = inflight[v]
           /\ answers'[v] = answers[v]

LEMMA HandlerStepCares ==
    ASSUME TypeOK, AllCared, NEW u \in Uuids, NEW base \in Seq(Frames),
           \A v : v # u => SameFrames(stack, base, v),
           EntriesOf(u), HandlerOf(u, base),
           u \notin shared => /\ ~Holds(base, u) /\ ~Occurs(u, asyncQueue)
                              /\ ~Occurs(u, asyncResultsQueue)
                              /\ ~(inflight'[u] > 0)
    PROVE  AllCared'
<1>1. asyncResultsQueue \in Seq(Uuids)
  BY DEF TypeOK
<1>2. ASSUME NEW v \in Uuids \ shared', v # u
      PROVE  Cared(v)'
  <2>1. SameFrames(base, stack', v)
    <3>1. stack' = base \/ \E f \in Frames : f.uuid = u /\ stack' = Append(base, f)
      BY Zenon DEF HandlerOf
    <3>2. stack' = base => SameFrames(base, stack', v)
      BY Zenon DEF SameFrames
    <3>3. QED
      BY <1>2, <3>1, <3>2, AppendSameFrames
  <2>2. SameFrames(stack, stack', v)
    BY <1>2, <2>1, SameFramesTwice
  <2>3. Occurs(v, asyncResultsQueue') <=> Occurs(v, asyncResultsQueue)
    <3>1. asyncResultsQueue' = asyncResultsQueue
          \/ asyncResultsQueue' = Append(asyncResultsQueue, u)
      BY Zenon DEF HandlerOf
    <3>2. Occurs(v, Append(asyncResultsQueue, u)) <=> Occurs(v, asyncResultsQueue)
      BY <1>1, <1>2, OccursInAppend
    <3>3. QED
      BY <3>1, <3>2
  <2>4. /\ asyncQueue' = asyncQueue /\ requests' = requests /\ shared' = shared
        /\ lost' = lost
    BY DEF EntriesOf
  <2>5. Untouched(v) /\ v \notin shared
    BY <1>2, <2>2, <2>3, <2>4, Zenon DEF EntriesOf, Untouched, Accepted
  <2>6. QED
    BY <1>2, <2>5, UntouchedIsCared DEF AllCared
<1>3. ASSUME u \notin shared'
      PROVE  Cared(u)'
  <2>1. u \notin shared /\ asyncQueue' = asyncQueue
    BY <1>3 DEF EntriesOf
  <2>2. \/ /\ stack' = base /\ asyncResults'[u] # "none"
           /\ asyncResultsQueue' = Append(asyncResultsQueue, u)
        \/ /\ UNCHANGED asyncResultsQueue
           /\ \E f \in Frames :
                  /\ f.uuid = u /\ stack' = Append(base, f)
                  /\ f.at # "methodState" => asyncs'[u] > 0
                  /\ f.at = "methodState" => answers'[u] > 0
                  /\ f.at = "freeze" => u \in abandoned'
        \/ /\ stack' = base /\ UNCHANGED asyncResultsQueue
           /\ u \in abandoned' \/ answers'[u] > 0
    BY <2>1, Zenon DEF HandlerOf
  <2>3. QED
    BY <1>1, <2>1, <2>2, HandlerCares
<1>4. QED
  BY <1>2, <1>3, Zenon DEF AllCared

\* The parser of a request that is known makes a result or goes on.
LEMMA ParsedHandler ==
    ASSUME TypeOK, NEW u \in Uuids, NEW r \in Parsed, NEW base,
           UNCHANGED asyncs, u \notin shared => asyncs[u] > 0,
           OnApiResponseParsed(u, r, base)
    PROVE  /\ HandlerOf(u, base)
           /\ \A v \in Uuids : v # u => asyncResults'[v] = asyncResults[v]
<1> DEFINE isOrder == asyncDictionary[u] \in OrderMethods /\ registered[u] # NoId
           l == IF isOrder THEN RegisteredLocal(u) ELSE NoId
           p == IF r.success THEN "placed" ELSE "placeError"
<1>1. l \in Locals
  BY OrderTypes DEF TypeOK, Locals
<1>2. \/ /\ asyncs[u] = 0 /\ stack' = base
         /\ UNCHANGED <<asyncResults, asyncResultsQueue>>
      \/ stack' = base /\ RegisterAsyncResult(u, TRUE)
      \/ /\ UNCHANGED <<asyncResults, asyncResultsQueue>>
         /\ \/ stack' = Append(base, OrderFrame(p, u, r, l))
            \/ stack' = Append(base, FailureFrame(u, r))
  BY Zenon DEF OnApiResponseParsed
<1> HIDE DEF l
<1>3. /\ OrderFrame(p, u, r, l) \in Frames
      /\ OrderFrame(p, u, r, l).uuid = u
      /\ OrderFrame(p, u, r, l).at \notin {"methodState", "freeze"}
  BY <1>1, FrameTypes DEF Points, OrderFrame
<1>4. /\ FailureFrame(u, r) \in Frames /\ FailureFrame(u, r).uuid = u
      /\ FailureFrame(u, r).at \notin {"methodState", "freeze"}
  <2>1. FailureFrame(u, r) \in Frames
    BY FrameTypes
  <2>2. /\ FailureFrame(u, r).uuid = u
        /\ FailureFrame(u, r).at \notin {"methodState", "freeze"}
    BY DEF FailureFrame, Frame, OrderFrame
  <2>3. QED
    BY <2>1, <2>2
<1> HIDE DEF p
<1>5. CASE asyncs[u] = 0 /\ stack' = base /\ UNCHANGED <<asyncResults, asyncResultsQueue>>
  <2>1. u \in shared
    BY <1>5
  <2>2. HandlerOf(u, base)
    BY <1>5, <2>1, Zenon DEF HandlerOf
  <2>3. QED
    BY <1>5, <2>2
<1>6. CASE stack' = base /\ RegisterAsyncResult(u, TRUE)
  <2>1. /\ asyncResultsQueue' = Append(asyncResultsQueue, u)
        /\ asyncResults'[u] # "none"
        /\ \A v \in Uuids : v # u => asyncResults'[v] = asyncResults[v]
    BY <1>6 DEF RegisterAsyncResult, TypeOK
  <2>2. QED
    BY <1>6, <2>1, Zenon DEF HandlerOf
<1>7. CASE /\ UNCHANGED <<asyncResults, asyncResultsQueue>>
           /\ \/ stack' = Append(base, OrderFrame(p, u, r, l))
              \/ stack' = Append(base, FailureFrame(u, r))
  <2>1. PICK f \in Frames : /\ f.uuid = u /\ stack' = Append(base, f)
                            /\ f.at \notin {"methodState", "freeze"}
    BY <1>3, <1>4, <1>7
  <2>2. f.at # "methodState" /\ f.at # "freeze"
    BY <2>1
  <2>3. u \notin shared => asyncs'[u] > 0
    OBVIOUS
  <2>4. HandlerOf(u, base)
    BY <1>7, <2>1, <2>2, <2>3, Zenon DEF HandlerOf
  <2>5. QED
    BY <1>7, <2>4
<1>8. QED
  BY <1>2, <1>5, <1>6, <1>7

\* A reply finds the entries of its request, or ends it.
LEMMA RepliesCare ==
    ASSUME TypeOK, Once, AllCared, NEW u \in Uuids, OnNetworkReply(u)
    PROVE  AllCared'
<1>1. /\ inflight \in [Uuids -> Nat] /\ stack \in Seq(Frames)
      /\ asyncResults \in [Uuids -> {"none", "ok", "fail"}]
  BY DEF TypeOK
<1>2. TakeReply(u)
  BY DEF OnNetworkReply, ReplyParsed, ReplyFreeze, ReplyBadRequest, ReplyForbidden
<1>3. /\ UNCHANGED <<asyncQueue, requests, shared, lost, asyncs, asyncDictionary,
                     answers>>
      /\ inflight[u] > 0
      /\ inflight' = [inflight EXCEPT ![u] = @ - 1]
  BY <1>2 DEF TakeReply
<1>4. \A v \in Uuids : v # u => inflight'[v] = inflight[v]
  BY <1>1, <1>3
<1>5. ASSUME u \notin shared
      PROVE  /\ ~Holds(stack, u) /\ ~Occurs(u, asyncQueue)
             /\ ~Occurs(u, asyncResultsQueue) /\ ~(inflight'[u] > 0)
             /\ asyncs[u] > 0
  <2>1. PlaceOf(u) /\ Cared(u)
    BY <1>5, OnceSays DEF AllCared
  <2>2. inflight[u] # 0
    BY <1>3
  <2>3. inflight[u] = 1 /\ inflight'[u] = 0
    BY <1>1, <1>3, <2>1 DEF PlaceOf
  <2>4. QED
    BY <1>3, <2>1, <2>2, <2>3 DEF PlaceOf, Cared, EntriesKnown
<1> DEFINE Goal == /\ HandlerOf(u, stack) /\ abandoned \subseteq abandoned'
                  /\ \A v \in Uuids : v # u => asyncResults'[v] = asyncResults[v]
<1>6. Goal
  <2>1. ASSUME NEW r \in Parsed, ReplyParsed(u, r)
        PROVE  Goal
    <3>1. OnApiResponseParsed(u, r, stack) /\ abandoned' = abandoned
      BY <2>1 DEF ReplyParsed
    <3>2. UNCHANGED asyncs /\ (u \notin shared => asyncs[u] > 0)
      BY <1>3, <1>5
    <3>3. QED
      BY <3>1, <3>2, ParsedHandler
  <2>2. ASSUME ReplyFreeze(u) \/ ReplyForbidden(u)
        PROVE  Goal
    <3>1. PICK p \in {"freeze", "freezeFail"} :
              /\ stack' = Append(stack, Frame(p, u))
              /\ p = "freeze" => u \in abandoned'
      BY <2>2 DEF ReplyFreeze, ReplyForbidden
    <3>2. /\ UNCHANGED <<asyncResults, asyncResultsQueue>>
          /\ abandoned \subseteq abandoned'
      BY <2>2 DEF ReplyFreeze, ReplyForbidden
    <3>3. /\ Frame(p, u) \in Frames /\ Frame(p, u).uuid = u
          /\ Frame(p, u).at = p
      BY FrameTypes DEF Points, Frame, OrderFrame
    <3>4. p # "methodState" /\ (u \notin shared => asyncs'[u] > 0)
      BY <1>3, <1>5
    <3>5. HandlerOf(u, stack)
      BY <3>1, <3>2, <3>3, <3>4, Zenon DEF HandlerOf
    <3>6. QED
      BY <3>2, <3>5
  <2>3. ASSUME ReplyBadRequest(u)
        PROVE  Goal
    <3>1. /\ stack' = stack /\ UNCHANGED <<asyncResults, asyncResultsQueue>>
          /\ abandoned' = abandoned \cup {u}
      BY <2>3 DEF ReplyBadRequest
    <3>2. u \in abandoned' /\ abandoned \subseteq abandoned'
      BY <3>1
    <3>3. QED
      BY <3>1, <3>2, Zenon DEF HandlerOf
  <2>4. QED
    BY <2>1, <2>2, <2>3 DEF OnNetworkReply
<1>7. EntriesOf(u)
  BY <1>3, <1>4, <1>6 DEF EntriesOf
<1>8. QED
  BY <1>1, <1>5, <1>6, <1>7, SameStack, HandlerStepCares

\* A handler whose call returns goes on, has its result, or leaves its request
\* settled.
LEMMA ReturnsCare == TypeOK /\ Once /\ AllCared /\ CallReturns => AllCared'
<1>0. TypeOK /\ CallReturns => stack # <<>> /\ Top \in Frames /\ Top.uuid \in Uuids
  BY StackTypes DEF TypeOK, CallReturns, ReturnFreeze, ReturnFreezeFail, ReturnPlaced,
     ReturnPlaceError, ReturnKeyError, ReturnRegister, ReturnMethodState
<1> SUFFICES ASSUME TypeOK, Once, AllCared, CallReturns,
                    NEW u \in Uuids, NEW base, NEW top \in Frames,
                    top = Top, u = top.uuid, base = Below
             PROVE  AllCared'
  BY <1>0
<1>1. /\ stack \in Seq(Frames) /\ stack # <<>>
      /\ asyncs \in [Uuids -> Nat]
      /\ asyncDictionary \in [Uuids -> Methods \cup {NoMethod}]
      /\ asyncResults \in [Uuids -> {"none", "ok", "fail"}]
  BY <1>0 DEF TypeOK
<1>2. /\ base \in Seq(Frames) /\ Holds(stack, u)
      /\ u \notin shared => ~Holds(base, u)
  BY <1>1, HoldsBelow, OnceSays
<1>3. \A v : v # u => SameFrames(stack, base, v)
  BY <1>1, BelowSameFrames
<1>4. UNCHANGED <<asyncQueue, inflight, requests, shared, abandoned, lost, answers>>
  BY DEF CallReturns, ReturnFreeze, ReturnFreezeFail, ReturnPlaced,
         ReturnPlaceError, ReturnKeyError, ReturnRegister, ReturnMethodState,
         ReturnFrame
<1>5. ASSUME u \notin shared
      PROVE  /\ ~Occurs(u, asyncQueue) /\ ~Occurs(u, asyncResultsQueue)
             /\ ~(inflight'[u] > 0)
             /\ top.at # "methodState" => asyncs[u] > 0
             /\ top.at = "methodState" => answers[u] > 0
             /\ top.at = "freeze" => u \in abandoned
  <2>1. PlaceOf(u) /\ FramesKnown(stack, u)
    BY <1>5, OnceSays DEF AllCared, Cared, EntriesKnown
  <2>2. Len(stack) \in DOMAIN stack /\ stack[Len(stack)] = top
    <3>1. Len(stack) \in Nat \ {0} /\ DOMAIN stack = 1 .. Len(stack)
      BY <1>1, StackTypes, LenProperties
    <3>2. QED
      BY <3>1 DEF Top
  <2>3. QED
    BY <1>2, <1>4, <2>1, <2>2, Zenon DEF PlaceOf, FramesKnown
<1> DEFINE Goal == /\ HandlerOf(u, base)
                  /\ \A v \in Uuids : v # u =>
                         /\ asyncs'[v] = asyncs[v]
                         /\ asyncDictionary'[v] = asyncDictionary[v]
                         /\ asyncResults'[v] = asyncResults[v]
<1>6. Goal
  <2>1. ASSUME ReturnFreeze
        PROVE  Goal
    <3>1. /\ top.at = "freeze" /\ stack' = base
          /\ UNCHANGED <<asyncs, asyncDictionary, asyncResults, asyncResultsQueue>>
      BY <2>1 DEF ReturnFreeze
    <3>2. u \notin shared => u \in abandoned'
      BY <1>4, <1>5, <3>1
    <3>3. QED
      BY <3>1, <3>2, Zenon DEF HandlerOf
  <2>2. ASSUME ReturnFreezeFail
        PROVE  Goal
    <3>1. /\ top.at = "freezeFail" /\ OnApiResponseParsed(u, Failure, base)
          /\ UNCHANGED <<asyncs, asyncDictionary>>
      BY <2>2 DEF ReturnFreezeFail
    <3>2. u \notin shared => asyncs[u] > 0
      BY <1>5, <3>1
    <3>3. QED
      BY <3>1, <3>2, FrameTypes, ParsedHandler
  <2>3. ASSUME ReturnPlaced \/ ReturnRegister
        PROVE  Goal
    <3>1. PICK ok \in BOOLEAN : RegisterAsyncResult(u, ok)
      BY <2>3 DEF ReturnPlaced, ReturnRegister
    <3>2. stack' = base /\ UNCHANGED <<asyncs, asyncDictionary>>
      BY <2>3 DEF ReturnPlaced, ReturnRegister
    <3>3. /\ asyncResultsQueue' = Append(asyncResultsQueue, u)
          /\ asyncResults'[u] # "none"
          /\ \A v \in Uuids : v # u => asyncResults'[v] = asyncResults[v]
      BY <1>1, <3>1 DEF RegisterAsyncResult
    <3>4. QED
      BY <3>2, <3>3, Zenon DEF HandlerOf
  <2>4. ASSUME ReturnPlaceError \/ ReturnKeyError
        PROVE  Goal
    <3>1. /\ top.at # "methodState"
          /\ UNCHANGED <<asyncs, asyncDictionary, asyncResults, asyncResultsQueue>>
          /\ \/ stack' = Append(base, FailureFrame(u, top.reply))
             \/ stack' = Append(base, [top EXCEPT !.at = "register"])
      BY <2>4 DEF ReturnPlaceError, ReturnKeyError
    <3>2. top.reply \in Parsed
      BY DEF Frames
    <3>3. /\ FailureFrame(u, top.reply) \in Frames
          /\ FailureFrame(u, top.reply).uuid = u
          /\ FailureFrame(u, top.reply).at \in {"keyError", "register"}
      <4>1. FailureFrame(u, top.reply) \in Frames
        BY <3>2, FrameTypes
      <4>2. /\ FailureFrame(u, top.reply).uuid = u
            /\ FailureFrame(u, top.reply).at \in {"keyError", "register"}
        BY DEF FailureFrame, Frame, OrderFrame
      <4>3. QED
        BY <4>1, <4>2
    <3>4. /\ [top EXCEPT !.at = "register"] \in Frames
          /\ [top EXCEPT !.at = "register"].uuid = u
          /\ [top EXCEPT !.at = "register"].at \in {"keyError", "register"}
      BY DEF Frames, Points
    <3>5. PICK f \in Frames : /\ f.uuid = u /\ stack' = Append(base, f)
                              /\ f.at \in {"keyError", "register"}
      BY <3>1, <3>3, <3>4
    <3>6. f.at # "methodState" /\ f.at # "freeze"
      BY <3>5
    <3>7. u \notin shared => asyncs'[u] > 0
      BY <1>5, <3>1
    <3>8. HandlerOf(u, base)
      BY <3>1, <3>5, <3>6, <3>7, Zenon DEF HandlerOf
    <3>9. QED
      BY <3>1, <3>8
  <2>5. ASSUME ReturnMethodState
        PROVE  Goal
    <3>1. /\ top.at = "methodState" /\ stack' = base
          /\ UNCHANGED asyncResultsQueue
          /\ asyncDictionary' = [asyncDictionary EXCEPT ![u] = NoMethod]
          /\ asyncResults' = [asyncResults EXCEPT ![u] = "none"]
          /\ asyncs' = [asyncs EXCEPT ![u] = IF @ > 0 THEN @ - 1 ELSE 0]
      BY <2>5 DEF ReturnMethodState
    <3>2. u \notin shared => answers'[u] > 0
      BY <1>4, <1>5, <3>1
    <3>3. HandlerOf(u, base)
      BY <3>1, <3>2, Zenon DEF HandlerOf
    <3>4. \A v \in Uuids : v # u =>
             /\ asyncs'[v] = asyncs[v] /\ asyncDictionary'[v] = asyncDictionary[v]
             /\ asyncResults'[v] = asyncResults[v]
      BY <1>1, <3>1
    <3>5. QED
      BY <3>3, <3>4
  <2>6. QED
    BY <2>1, <2>2, <2>3, <2>4, <2>5 DEF CallReturns
<1>7. EntriesOf(u)
  BY <1>4, <1>6 DEF EntriesOf
<1>8. QED
  BY <1>2, <1>3, <1>5, <1>6, <1>7, HandlerStepCares

\* A tick finds the oldest result and publishes it.
LEMMA QueueResultCares ==
    TypeOK /\ Once /\ AllCared /\ ProcessAsyncQueueResult => AllCared'
<1>0. TypeOK /\ ProcessAsyncQueueResult => Head(asyncResultsQueue) \in Uuids
  BY OccursInTail DEF TypeOK, ProcessAsyncQueueResult
<1> SUFFICES ASSUME TypeOK, Once, AllCared, ProcessAsyncQueueResult,
                    NEW u \in Uuids, u = Head(asyncResultsQueue)
             PROVE  AllCared'
  BY <1>0
<1>1. /\ asyncResultsQueue \in Seq(Uuids) /\ asyncResultsQueue # <<>>
      /\ stack \in Seq(Frames) /\ answers \in [Uuids -> Nat]
  BY DEF ProcessAsyncQueueResult, TypeOK
<1>2. /\ UNCHANGED <<asyncQueue, asyncs, asyncDictionary, asyncResults, inflight,
                     requests, shared, abandoned, lost>>
      /\ asyncResultsQueue' = Tail(asyncResultsQueue)
      /\ \/ asyncResults[u] = "none" /\ UNCHANGED <<answers, stack>>
         \/ /\ answers' = [answers EXCEPT ![u] = @ + 1]
            /\ stack' = Append(stack, Frame("methodState", u))
  BY DEF ProcessAsyncQueueResult
<1>3. /\ Occurs(u, asyncResultsQueue)
      /\ \A v : Occurs(v, asyncResultsQueue') => Occurs(v, asyncResultsQueue)
      /\ u \notin shared => ~Occurs(u, asyncResultsQueue')
      /\ \A v : v # u /\ Occurs(v, asyncResultsQueue) => Occurs(v, asyncResultsQueue')
  BY <1>1, <1>2, OccursInTail, OnceSays, TailKeepsOthers
<1>4. /\ Frame("methodState", u) \in Frames /\ Frame("methodState", u).uuid = u
      /\ Frame("methodState", u).at = "methodState"
  BY FrameTypes DEF Points, Frame, OrderFrame
<1>5. ASSUME NEW v \in Uuids \ shared', v # u
      PROVE  Cared(v)'
  <2>1. answers'[v] = answers[v]
    BY <1>1, <1>2, <1>5
  <2>2. SameFrames(stack, stack', v)
    <3>1. SameFrames(stack, Append(stack, Frame("methodState", u)), v)
      BY <1>1, <1>4, <1>5, AppendSameFrames
    <3>2. QED
      BY <1>2, <3>1, SameStack
  <2>3. Untouched(v)
    BY <1>2, <1>3, <1>5, <2>1, <2>2, Zenon DEF Untouched, Accepted
  <2>4. QED
    BY <1>2, <2>3, UntouchedIsCared DEF AllCared
<1>6. ASSUME u \notin shared'
      PROVE  Cared(u)'
  <2>1. /\ asyncResults[u] # "none" /\ ~Holds(stack, u) /\ ~Occurs(u, asyncQueue)
        /\ ~(inflight[u] > 0)
    BY <1>2, <1>3, <1>6, OnceSays, Zenon DEF AllCared, Cared, EntriesKnown, PlaceOf
  <2>2. /\ ~(inflight'[u] > 0) /\ ~Occurs(u, asyncQueue') /\ ~Occurs(u, asyncResultsQueue')
        /\ stack' = Append(stack, Frame("methodState", u))
        /\ answers' = [answers EXCEPT ![u] = @ + 1]
    BY <1>2, <1>3, <1>6, <2>1
  <2>3. answers'[u] > 0
    BY <1>1, <2>2
  <2>4. /\ Len(stack) \in Nat /\ DOMAIN stack = 1 .. Len(stack)
        /\ DOMAIN stack' = 1 .. Len(stack) + 1
        /\ stack'[Len(stack) + 1] = Frame("methodState", u)
        /\ \A i \in 1 .. Len(stack) : stack'[i] = stack[i]
    BY <1>1, <1>4, <2>2, AppendProperties, LenProperties
  <2>5. \A i \in 1 .. Len(stack) + 1 : i \in 1 .. Len(stack) \/ i = Len(stack) + 1
    BY <2>4
  <2>6. \A i \in DOMAIN stack' :
            stack'[i].uuid = u => stack'[i] = Frame("methodState", u)
    BY <2>1, <2>4, <2>5, Zenon DEF Holds
  <2>7. ASSUME NEW i \in DOMAIN stack', stack'[i].uuid = u
        PROVE  stack'[i].at = "methodState" /\ stack'[i].at # "freeze"
    BY <1>4, <2>6, <2>7
  <2>8. FramesKnown(stack, u)'
    BY <2>3, <2>7, Zenon DEF FramesKnown
  <2>9. Settled(u)'
    BY <2>3 DEF Settled
  <2>10. QED
    BY <2>2, <2>8, <2>9, Zenon DEF Cared, EntriesKnown, OnItsWay
<1>7. QED
  BY <1>5, <1>6, Zenon DEF AllCared

\* A process that dies takes what it has not answered with it.
LEMMA TimersCare == TypeOK /\ AllCared /\ (Unfreeze \/ Crash \/ UNCHANGED vars) => AllCared'
<1>1. ASSUME AllCared,
             UNCHANGED <<asyncs, asyncDictionary, asyncQueue, asyncResults,
                         asyncResultsQueue, stack, inflight, requests, shared,
                         answers, abandoned, lost>>
      PROVE  AllCared'
  <2>1. ASSUME NEW v \in Uuids \ shared
        PROVE  Cared(v)'
    <3>1. Untouched(v)
      BY <1>1, SameStack, Zenon DEF Untouched, Accepted
    <3>2. QED
      BY <1>1, <3>1, UntouchedIsCared DEF AllCared
  <2>2. QED
    BY <1>1, <2>1, Zenon DEF AllCared
<1>2. Unfreeze \/ UNCHANGED vars =>
          UNCHANGED <<asyncs, asyncDictionary, asyncQueue, asyncResults,
                      asyncResultsQueue, stack, inflight, requests, shared,
                      answers, abandoned, lost>>
  BY DEF Unfreeze, vars, code, history
<1>3. ASSUME TypeOK, Crash
      PROVE  AllCared'
  <2>1. /\ asyncQueue' = <<>> /\ asyncResultsQueue' = <<>> /\ stack' = <<>>
        /\ inflight' = [v \in Uuids |-> 0]
        /\ lost' = lost \cup {v \in Uuids : Accepted(v) /\ answers[v] = 0
                                            /\ v \notin abandoned}
        /\ UNCHANGED <<requests, answers, abandoned, shared>>
    BY <1>3 DEF Crash
  <2>2. DOMAIN <<>> = {}
    OBVIOUS
  <2>3. ASSUME NEW v \in Uuids
        PROVE  Cared(v)'
    <3>1. ~Occurs(v, asyncQueue)' /\ ~Occurs(v, asyncResultsQueue)'
      BY <2>1, <2>2, Zenon DEF Occurs
    <3>2. FramesKnown(stack, v)'
      BY <2>1, <2>2, Zenon DEF FramesKnown
    <3>3. ~(inflight'[v] > 0)
      BY <2>1
    <3>4. answers[v] \in Nat
      BY <1>3 DEF TypeOK
    <3>5. Accepted(v)' => Settled(v)'
      <4>1. answers[v] = 0 \/ answers[v] > 0
        BY <3>4
      <4>2. QED
        BY <2>1, <4>1 DEF Accepted, Settled
    <3>6. QED
      BY <3>1, <3>2, <3>3, <3>5, Zenon DEF Cared, EntriesKnown, OnItsWay
  <2>4. QED
    BY <2>3, Zenon DEF AllCared
<1>4. QED
  BY <1>1, <1>2, <1>3

LEMMA InitCares == Init => AllCared
<1> SUFFICES ASSUME Init, NEW v \in Uuids
             PROVE  Cared(v)
  BY Zenon DEF AllCared
<1>1. /\ asyncQueue = <<>> /\ asyncResultsQueue = <<>> /\ stack = <<>>
      /\ ~(inflight[v] > 0) /\ requests = {}
  BY DEF Init
<1>2. DOMAIN <<>> = {}
  OBVIOUS
<1>3. ~Accepted(v)
  BY <1>1 DEF Accepted
<1>4. QED
  BY <1>1, <1>2, <1>3, Zenon DEF Cared, EntriesKnown, OnItsWay, FramesKnown, Occurs

LEMMA NextCares == TypeOK /\ Once /\ AllCared /\ [Next]_vars => AllCared'
<1>1. TypeOK /\ Once /\ AllCared /\ Accept => AllCared'
  BY AcceptCares DEF Accept
<1>2. QED
  BY <1>1, QueueCares, RepliesCare, ReturnsCare, QueueResultCares, TimersCare DEF Next

\* Whatever nests, fails, pauses or crashes: a request that is neither
\* answered nor dropped nor lost is still on its way.
THEOREM NoRequestForgotten == Spec => []NothingForgotten
<1>1. Spec => []Once
  BY InitOnce, NextKeepsOnce, TypeCorrect, PTL DEF Spec
<1>2. Spec => []AllCared
  BY <1>1, InitCares, NextCares, TypeCorrect, PTL DEF Spec
<1>3. QED
  BY <1>2, CaredForgetsNothing, PTL

-----------------------------------------------------------------------------
(* The feed and the result say the same *)

Pending(u) == Accepted(u) /\ ~Settled(u)

\* Nothing has been said of u yet, and its method is known.
Fresh(u) ==
    /\ Pending(u) /\ asyncDictionary[u] # NoMethod
    /\ orderEvents[u] = <<>> /\ asyncResults[u] = "none"

\* What has been said of u while a handler of it waits at p.
FrameStory(p, u) ==
    /\ p \in {"freezeFail", "placed", "placeError"} => Fresh(u)
    /\ p \in {"keyError", "register"} =>
           /\ Pending(u) /\ asyncResults[u] = "none"
           /\ MethodOf(u) = {"place"} =>
                  Len(orderEvents[u]) = 1 /\ orderEvents[u][1].kind = "ERROR"

FramesTell(s, u) == \A i \in DOMAIN s : s[i].uuid = u => FrameStory(s[i].at, u)

NewIsSilent(u) ==
    u > lastUuid => /\ ~Accepted(u) /\ u \notin abandoned /\ u \notin lost
                    /\ orderEvents[u] = <<>> /\ asyncResults[u] = "none"

MethodKnown(u) ==
    asyncDictionary[u] # NoMethod => MethodOf(u) = {asyncDictionary[u]}

\* FeedAgreesWithResult for one uuid.
FeedAgrees(u) ==
    MethodOf(u) = {"place"} /\ sends[u] = 1 =>
        /\ asyncResults[u] = "fail" =>
               Len(orderEvents[u]) = 1 /\ orderEvents[u][1].kind = "ERROR"
        /\ asyncResults[u] = "ok" =>
               /\ Len(orderEvents[u]) <= 1
               /\ \A i \in DOMAIN orderEvents[u] :
                      orderEvents[u][i].kind \in {"PLACED", "COMPLETED"}

Story(u) ==
    /\ NewIsSilent(u)
    /\ MethodKnown(u)
    /\ Occurs(u, asyncQueue) \/ inflight[u] > 0 => Fresh(u)
    /\ Occurs(u, asyncResultsQueue) => Pending(u)
    /\ FramesTell(stack, u)
    /\ FeedAgrees(u)
AllStories == \A u \in Uuids \ shared : Story(u)

LEMMA StoriesAgree == AllStories => FeedAgreesWithResult
BY Zenon DEF AllStories, Story, FeedAgrees, FeedAgreesWithResult

RequestsOf(u) == {q \in requests : q.uuid = u}

\* A step that is about another uuid.
NotAbout(v) ==
    /\ asyncDictionary'[v] = asyncDictionary[v]
    /\ asyncResults'[v] = asyncResults[v] /\ inflight'[v] = inflight[v]
    /\ orderEvents'[v] = orderEvents[v] /\ sends'[v] = sends[v]
    /\ answers'[v] = answers[v]
    /\ v \in abandoned' <=> v \in abandoned
    /\ v \in lost' <=> v \in lost
    /\ RequestsOf(v)' = RequestsOf(v)
    /\ v > lastUuid' => v > lastUuid
    /\ Occurs(v, asyncQueue') => Occurs(v, asyncQueue)
    /\ Occurs(v, asyncResultsQueue') => Occurs(v, asyncResultsQueue)
    /\ SameFrames(stack, stack', v)

LEMMA SameRequests ==
    ASSUME NEW v, RequestsOf(v)' = RequestsOf(v)
    PROVE  (Accepted(v)' <=> Accepted(v)) /\ MethodOf(v)' = MethodOf(v)
<1>1. Accepted(v) <=> RequestsOf(v) # {}
  BY DEF Accepted, RequestsOf
<1>2. Accepted(v)' <=> RequestsOf(v)' # {}
  BY DEF Accepted, RequestsOf
<1>3. MethodOf(v) = {q.method : q \in RequestsOf(v)}
  BY DEF MethodOf, RequestsOf
<1>4. MethodOf(v)' = {q.method : q \in RequestsOf(v)'}
  BY DEF MethodOf, RequestsOf
<1>5. QED
  BY <1>1, <1>2, <1>3, <1>4

LEMMA NotAboutKeepsStory ==
    ASSUME NEW v \in Uuids, Story(v), NotAbout(v)
    PROVE  Story(v)'
<1>1. (Accepted(v)' <=> Accepted(v)) /\ MethodOf(v)' = MethodOf(v)
  BY SameRequests DEF NotAbout
<1>2. (Pending(v)' <=> Pending(v)) /\ (Fresh(v)' <=> Fresh(v))
  BY <1>1, Zenon DEF Pending, Fresh, Settled, NotAbout
<1>4. FramesTell(stack, v)'
  <2>1. ASSUME NEW i \in DOMAIN stack', stack'[i].uuid = v
        PROVE  FrameStory(stack[i].at, v)'
    <3>1. PICK j \in DOMAIN stack : stack[j] = stack'[i]
      BY <2>1 DEF NotAbout, SameFrames
    <3>2. FrameStory(stack[j].at, v)
      BY <2>1, <3>1 DEF Story, FramesTell
    <3>3. asyncResults'[v] = asyncResults[v] /\ orderEvents'[v] = orderEvents[v]
      BY DEF NotAbout
    <3>4. QED
      BY <1>1, <1>2, <3>1, <3>2, <3>3 DEF FrameStory
  <2>2. QED
    BY <2>1, Zenon DEF FramesTell
<1>5. NewIsSilent(v)' /\ MethodKnown(v)' /\ FeedAgrees(v)'
  BY <1>1, Zenon DEF Story, NewIsSilent, MethodKnown, FeedAgrees, NotAbout
<1>6. QED
  BY <1>2, <1>4, <1>5, Zenon DEF Story, NotAbout

\* A frame on top of a stack that has none of u is the only one of u.
LEMMA OnlyFrame ==
    ASSUME NEW s \in Seq(Frames), NEW f \in Frames, NEW u, ~Holds(s, u)
    PROVE  \A i \in DOMAIN Append(s, f) :
               Append(s, f)[i].uuid = u => Append(s, f)[i] = f
<1>1. /\ Append(s, f) \in Seq(Frames)
      /\ Len(Append(s, f)) = Len(s) + 1
      /\ \A i \in 1 .. Len(s) : Append(s, f)[i] = s[i]
      /\ Append(s, f)[Len(s) + 1] = f
  BY AppendProperties
<1>2. Len(s) \in Nat /\ DOMAIN s = 1 .. Len(s)
      /\ DOMAIN Append(s, f) = 1 .. Len(s) + 1
  BY <1>1, LenProperties
<1>3. \A i \in 1 .. Len(s) + 1 : i \in 1 .. Len(s) \/ i = Len(s) + 1
  BY <1>2
<1>4. QED
  BY <1>1, <1>2, <1>3, Zenon DEF Holds

\* What a step of a handler of u tells of it.
TellsOf(u, base) ==
    \/ /\ stack' = base /\ asyncResultsQueue' = Append(asyncResultsQueue, u)
       /\ u \notin shared => Pending(u)'
    \/ /\ UNCHANGED asyncResultsQueue
       /\ \E f \in Frames :
              /\ f.uuid = u /\ stack' = Append(base, f)
              /\ u \notin shared => FrameStory(f.at, u)'
    \/ stack' = base /\ UNCHANGED asyncResultsQueue

\* A step that tells something of u only.
SaysOnlyOf(u) ==
    /\ UNCHANGED <<lastUuid, asyncQueue, requests, shared, lost>>
    /\ \A v \in Uuids : v # u =>
           /\ asyncDictionary'[v] = asyncDictionary[v]
           /\ asyncResults'[v] = asyncResults[v] /\ inflight'[v] = inflight[v]
           /\ orderEvents'[v] = orderEvents[v] /\ sends'[v] = sends[v]
           /\ answers'[v] = answers[v]
           /\ v \in abandoned' <=> v \in abandoned

LEMMA HandlerStepTells ==
    ASSUME TypeOK, AllStories, NEW u \in Uuids, NEW base \in Seq(Frames),
           \A v : v # u => SameFrames(stack, base, v),
           SaysOnlyOf(u), TellsOf(u, base),
           u \notin shared => /\ ~Holds(base, u) /\ ~Occurs(u, asyncQueue)
                              /\ ~Occurs(u, asyncResultsQueue)
                              /\ ~(inflight'[u] > 0) /\ ~(u > lastUuid)
                              /\ MethodKnown(u)' /\ FeedAgrees(u)'
    PROVE  AllStories'
<1>1. asyncResultsQueue \in Seq(Uuids)
  BY DEF TypeOK
<1>2. ASSUME NEW v \in Uuids \ shared', v # u
      PROVE  Story(v)'
  <2>1. SameFrames(base, stack', v)
    <3>1. stack' = base \/ \E f \in Frames : f.uuid = u /\ stack' = Append(base, f)
      BY Zenon DEF TellsOf
    <3>2. stack' = base => SameFrames(base, stack', v)
      BY Zenon DEF SameFrames
    <3>3. QED
      BY <1>2, <3>1, <3>2, AppendSameFrames
  <2>2. SameFrames(stack, stack', v)
    BY <1>2, <2>1, SameFramesTwice
  <2>3. Occurs(v, asyncResultsQueue') => Occurs(v, asyncResultsQueue)
    <3>1. asyncResultsQueue' = asyncResultsQueue
          \/ asyncResultsQueue' = Append(asyncResultsQueue, u)
      BY Zenon DEF TellsOf
    <3>2. Occurs(v, Append(asyncResultsQueue, u)) <=> Occurs(v, asyncResultsQueue)
      BY <1>1, <1>2, OccursInAppend
    <3>3. QED
      BY <3>1, <3>2
  <2>4. /\ asyncQueue' = asyncQueue /\ requests' = requests /\ shared' = shared
        /\ lost' = lost /\ lastUuid' = lastUuid
    BY DEF SaysOnlyOf
  <2>5. NotAbout(v) /\ v \notin shared
    BY <1>2, <2>2, <2>3, <2>4, Zenon DEF SaysOnlyOf, NotAbout, RequestsOf
  <2>6. QED
    BY <1>2, <2>5, NotAboutKeepsStory DEF AllStories
<1>3. ASSUME u \notin shared'
      PROVE  Story(u)'
  <2>1. u \notin shared /\ asyncQueue' = asyncQueue /\ lastUuid' = lastUuid
    BY <1>3 DEF SaysOnlyOf
  <2>2. CASE stack' = base
    <3>1. FramesTell(stack, u)'
      BY <2>1, <2>2, Zenon DEF FramesTell, Holds
    <3>2. Occurs(u, asyncResultsQueue') => Pending(u)'
      BY <2>1, Zenon DEF TellsOf
    <3>3. QED
      BY <2>1, <3>1, <3>2, Zenon DEF Story, NewIsSilent
  <2>3. CASE /\ UNCHANGED asyncResultsQueue
             /\ \E f \in Frames : /\ f.uuid = u /\ stack' = Append(base, f)
                                  /\ FrameStory(f.at, u)'
    <3>1. PICK f \in Frames : /\ f.uuid = u /\ stack' = Append(base, f)
                              /\ FrameStory(f.at, u)'
      BY <2>3
    <3>2. \A i \in DOMAIN stack' : stack'[i].uuid = u => stack'[i] = f
      BY <2>1, <3>1, OnlyFrame
    <3>3. ASSUME NEW i \in DOMAIN stack', stack'[i].uuid = u
          PROVE  FrameStory(stack[i].at, u)'
      BY <3>1, <3>2, <3>3, Zenon
    <3>4. FramesTell(stack, u)'
      BY <3>3, Zenon DEF FramesTell
    <3>5. QED
      BY <2>1, <2>3, <3>4, Zenon DEF Story, NewIsSilent
  <2>4. QED
    BY <2>1, <2>2, <2>3, Zenon DEF TellsOf
<1>4. QED
  BY <1>2, <1>3, Zenon DEF AllStories

\* Publishing on a silent feed makes one event.
LEMMA FirstEvent ==
    ASSUME TypeOK, NEW u \in Uuids, NEW k \in EventKinds, NEW l \in Locals,
           Publish(u, k, l)
    PROVE  /\ \A v \in Uuids : v # u => orderEvents'[v] = orderEvents[v]
           /\ orderEvents'[u] = Append(orderEvents[u], [kind |-> k, local |-> l])
           /\ orderEvents[u] = <<>> =>
                  /\ Len(orderEvents'[u]) = 1 /\ DOMAIN orderEvents'[u] = {1}
                  /\ orderEvents'[u][1] = [kind |-> k, local |-> l]
<1> DEFINE e == [kind |-> k, local |-> l]
<1>1. e \in OrderEvents
  BY DEF OrderEvents
<1>2. /\ orderEvents'[u] = Append(orderEvents[u], e)
      /\ \A v \in Uuids : v # u => orderEvents'[v] = orderEvents[v]
  BY DEF TypeOK, Publish
<1> HIDE DEF e
<1>3. <<>> \in Seq(OrderEvents) /\ Len(<<>>) = 0
  BY EmptySeq
<1>4. /\ Append(<<>>, e) \in Seq(OrderEvents)
      /\ Len(Append(<<>>, e)) = 0 + 1 /\ Append(<<>>, e)[0 + 1] = e
  BY <1>1, <1>3, AppendProperties
<1>5. DOMAIN Append(<<>>, e) = 1 .. 1
  BY <1>4, LenProperties
<1>6. 1 .. 1 = {1}
  OBVIOUS
<1>7. QED
  BY <1>2, <1>4, <1>5, <1>6 DEF e

\* The local id the parser reads for u.
LocalRead(u) ==
    IF asyncDictionary[u] \in OrderMethods /\ registered[u] # NoId
       THEN RegisteredLocal(u) ELSE NoId

\* At most one event, and only of u.
Says(u) == UNCHANGED orderEvents \/ \E k \in EventKinds, l \in Locals : Publish(u, k, l)

\* The ways a reply is parsed.
ParseEnds(u, base) ==
    /\ asyncs[u] = 0 /\ stack' = base
    /\ UNCHANGED <<asyncResults, asyncResultsQueue, orderEvents, registered,
                  objects>>
ParsePlaces(u, base) ==
    /\ asyncDictionary[u] = "place"
    /\ UNCHANGED <<asyncResults, asyncResultsQueue, orderEvents>>
    /\ \E f \in Frames : /\ f.uuid = u /\ stack' = Append(base, f)
                         /\ f.at \in {"placed", "placeError"}
                         /\ f.local = LocalRead(u)
ParseResults(u, base) ==
    /\ asyncDictionary[u] # "place" /\ Says(u)
    /\ stack' = base /\ RegisterAsyncResult(u, TRUE)
ParseFails(u, base) ==
    /\ asyncDictionary[u] # "place" /\ Says(u)
    /\ UNCHANGED <<asyncResults, asyncResultsQueue>>
    /\ \E f \in Frames : /\ f.uuid = u /\ stack' = Append(base, f)
                         /\ f.at \in {"keyError", "register"}

LEMMA ParsedShape ==
    ASSUME TypeOK, NEW u \in Uuids, NEW r \in Parsed, NEW base,
           OnApiResponseParsed(u, r, base)
    PROVE  /\ LocalRead(u) \in Locals
           /\ \/ ParseEnds(u, base) \/ ParsePlaces(u, base)
              \/ ParseResults(u, base) \/ ParseFails(u, base)
<1> DEFINE m == asyncDictionary[u]
           l == LocalRead(u)
           p == IF r.success THEN "placed" ELSE "placeError"
<1>1. l \in Locals
  BY OrderTypes DEF TypeOK, Locals, LocalRead
<1>2. \/ /\ asyncs[u] = 0 /\ stack' = base
         /\ UNCHANGED <<asyncResults, asyncResultsQueue, orderEvents,
                       registered, objects>>
      \/ /\ m = "place"
         /\ UNCHANGED <<asyncResults, asyncResultsQueue, orderEvents>>
         /\ stack' = Append(base, OrderFrame(p, u, r, l))
      \/ /\ m # "place" /\ stack' = base /\ RegisterAsyncResult(u, TRUE)
         /\ CASE m = "cancel" -> Publish(u, "CANCELED", l)
              [] m = "get" -> Publish(u, IF r.status >= 2 THEN "COMPLETED"
                                        ELSE "UPDATED", l)
              [] OTHER -> UNCHANGED orderEvents
      \/ /\ m # "place" /\ stack' = Append(base, FailureFrame(u, r))
         /\ UNCHANGED <<asyncResults, asyncResultsQueue>>
         /\ IF m = "cancel" THEN Publish(u, "ERROR", l) ELSE UNCHANGED orderEvents
  BY Zenon DEF OnApiResponseParsed, LocalRead
<1> HIDE DEF l, m
<1>3. /\ OrderFrame(p, u, r, l) \in Frames
      /\ OrderFrame(p, u, r, l).uuid = u /\ OrderFrame(p, u, r, l).local = l
      /\ OrderFrame(p, u, r, l).at \in {"placed", "placeError"}
  BY <1>1, FrameTypes DEF Points, OrderFrame
<1>4. /\ FailureFrame(u, r) \in Frames /\ FailureFrame(u, r).uuid = u
      /\ FailureFrame(u, r).at \in {"keyError", "register"}
  <2>1. FailureFrame(u, r) \in Frames
    BY FrameTypes
  <2>2. /\ FailureFrame(u, r).uuid = u
        /\ FailureFrame(u, r).at \in {"keyError", "register"}
    BY DEF FailureFrame, Frame, OrderFrame
  <2>3. QED
    BY <2>1, <2>2
<1> HIDE DEF p
<1>5. (CASE m = "cancel" -> Publish(u, "CANCELED", l)
         [] m = "get" -> Publish(u, IF r.status >= 2 THEN "COMPLETED"
                                   ELSE "UPDATED", l)
         [] OTHER -> UNCHANGED orderEvents) => Says(u)
  BY <1>1 DEF Says, EventKinds
<1>6. (IF m = "cancel" THEN Publish(u, "ERROR", l) ELSE UNCHANGED orderEvents)
          => Says(u)
  BY <1>1 DEF Says, EventKinds
<1>7. QED
  BY <1>1, <1>2, <1>3, <1>4, <1>5, <1>6, Zenon
     DEF l, m, ParseEnds, ParsePlaces, ParseResults, ParseFails

LEMMA SaysOthers ==
    ASSUME TypeOK, NEW u \in Uuids, Says(u)
    PROVE  \A v \in Uuids : v # u => orderEvents'[v] = orderEvents[v]
BY FirstEvent DEF Says

\* A new request starts fresh.
LEMMA AcceptTells ==
    ASSUME TypeOK, Once, AllStories, NEW m, NEW l, NEW u \in Uuids,
           CreateAsyncWaiter(m, l, u)
    PROVE  AllStories'
<1>1. /\ asyncQueue \in Seq(Uuids) /\ lastUuid \in Nat /\ u \in Nat
      /\ asyncDictionary \in [Uuids -> Methods \cup {NoMethod}]
      /\ answers \in [Uuids -> Nat]
  BY ConstantsOK DEF TypeOK, Uuids
<1>2. /\ UNCHANGED <<stack, asyncResultsQueue, asyncResults, inflight, answers,
                     abandoned, lost, sends, orderEvents>>
      /\ asyncQueue' = Append(asyncQueue, u)
      /\ asyncDictionary' = [asyncDictionary EXCEPT ![u] = m]
      /\ requests' = requests \cup {[uuid |-> u, method |-> m, local |-> l]}
      /\ u = lastUuid + 1 \/ u = lastUuid
      /\ lastUuid' = u
      /\ shared' = IF u = lastUuid THEN shared \cup {u} ELSE shared
      /\ m \in Callable
  BY DEF CreateAsyncWaiter
<1>3. \A v : Occurs(v, asyncQueue') <=> Occurs(v, asyncQueue) \/ v = u
  BY <1>1, <1>2, OccursInAppend
<1>4. ASSUME NEW v \in Uuids \ shared', v # u
      PROVE  Story(v)'
  <2>1. asyncDictionary'[v] = asyncDictionary[v]
    BY <1>1, <1>2, <1>4
  <2>2. RequestsOf(v)' = RequestsOf(v)
    BY <1>2, <1>4 DEF RequestsOf
  <2>3. v > lastUuid' => v > lastUuid
    BY <1>1, <1>2, <1>4 DEF Uuids
  <2>4. SameFrames(stack, stack', v)
    BY <1>2, SameStack
  <2>5. NotAbout(v)
    BY <1>2, <1>3, <1>4, <2>1, <2>2, <2>3, <2>4, Zenon DEF NotAbout
  <2>6. Story(v)
    BY <1>2, <1>4 DEF AllStories
  <2>7. QED
    BY <2>5, <2>6, NotAboutKeepsStory
<1>5. ASSUME u \notin shared'
      PROVE  Story(u)'
  <2>1. u = lastUuid + 1 /\ u > lastUuid /\ u \notin shared
    BY <1>1, <1>2, <1>5
  <2>2. NewIsSilent(u) /\ UnusedFrom(u)
    BY <2>1, OnceSays DEF AllStories, Story
  <2>3. Accepted(u)' /\ MethodOf(u)' = {m} /\ asyncDictionary'[u] = m /\ m # NoMethod
    <3>1. RequestsOf(u) = {}
      BY <2>1, <2>2 DEF NewIsSilent, Accepted, RequestsOf
    <3>2. RequestsOf(u)' = {[uuid |-> u, method |-> m, local |-> l]}
      BY <1>2, <3>1 DEF RequestsOf
    <3>3. MethodOf(u)' = {q.method : q \in RequestsOf(u)'}
      BY DEF MethodOf, RequestsOf
    <3>4. MethodOf(u)' = {m}
      BY <3>2, <3>3
    <3>5. Accepted(u)'
      BY <3>2 DEF Accepted, RequestsOf
    <3>6. QED
      BY <1>1, <1>2, <3>4, <3>5, ConstantsOK DEF NoMethod
  <2>4. ~(answers'[u] > 0) /\ ~(inflight'[u] > 0) /\ sends'[u] # 1
    BY <1>2, <2>2 DEF UnusedFrom
  <2>5. Fresh(u)'
    BY <1>2, <2>1, <2>2, <2>3, <2>4, Zenon DEF Fresh, Pending, Settled, NewIsSilent
  <2>6. /\ ~Occurs(u, asyncResultsQueue') /\ FramesTell(stack, u)'
        /\ FeedAgrees(u)' /\ MethodKnown(u)'
    <3>1. ~Occurs(u, asyncResultsQueue') /\ ~Holds(stack', u)
      BY <1>2, <2>2 DEF UnusedFrom
    <3>2. FramesTell(stack, u)'
      BY <3>1, Zenon DEF FramesTell, Holds
    <3>3. QED
      BY <2>3, <2>4, <3>1, <3>2, Zenon DEF FeedAgrees, MethodKnown
  <2>7. ~(u > lastUuid')
    BY <1>1, <1>2
  <2>8. QED
    BY <2>5, <2>6, <2>7, Zenon DEF Story, NewIsSilent
<1>6. QED
  BY <1>4, <1>5, Zenon DEF AllStories

\* A tick sends a fresh request, or closes it before anything was sent.
LEMMA QueueTells == TypeOK /\ Once /\ AllStories /\ ProcessAsyncQueue => AllStories'
<1>0. TypeOK /\ ProcessAsyncQueue => Head(asyncQueue) \in Uuids
  BY OccursInTail DEF TypeOK, ProcessAsyncQueue
<1> SUFFICES ASSUME TypeOK, Once, AllStories, ProcessAsyncQueue,
                    NEW u \in Uuids, u = Head(asyncQueue)
             PROVE  AllStories'
  BY <1>0
<1>1. /\ asyncQueue \in Seq(Uuids) /\ asyncQueue # <<>>
      /\ asyncResultsQueue \in Seq(Uuids) /\ stack \in Seq(Frames)
      /\ inflight \in [Uuids -> Nat] /\ sends \in [Uuids -> Nat]
      /\ asyncResults \in [Uuids -> {"none", "ok", "fail"}]
  BY DEF ProcessAsyncQueue, TypeOK
<1>2. /\ UNCHANGED <<lastUuid, stack, asyncDictionary, requests, shared, answers,
                     lost, orderEvents>>
      /\ asyncQueue' = Tail(asyncQueue)
      /\ \/ UNCHANGED <<inflight, sends, asyncResults, asyncResultsQueue, abandoned>>
            /\ asyncDictionary[u] = NoMethod
         \/ /\ inflight' = [inflight EXCEPT ![u] = @ + 1]
            /\ sends' = [sends EXCEPT ![u] = @ + 1]
            /\ UNCHANGED <<asyncResults, asyncResultsQueue, abandoned>>
         \/ /\ \E ok \in BOOLEAN : RegisterAsyncResult(u, ok)
            /\ UNCHANGED <<inflight, sends, abandoned>>
         \/ /\ abandoned' = abandoned \cup {u}
            /\ UNCHANGED <<inflight, sends, asyncResults, asyncResultsQueue>>
  BY DEF ProcessAsyncQueue, Dequeue
<1>3. /\ Occurs(u, asyncQueue)
      /\ \A v : Occurs(v, Tail(asyncQueue)) => Occurs(v, asyncQueue)
      /\ u \notin shared => ~Occurs(u, Tail(asyncQueue))
  BY <1>1, OccursInTail, OnceSays
<1>4. ASSUME \E ok \in BOOLEAN : RegisterAsyncResult(u, ok)
      PROVE  /\ asyncResultsQueue' = Append(asyncResultsQueue, u)
             /\ \A v \in Uuids : v # u => asyncResults'[v] = asyncResults[v]
  BY <1>1, <1>4 DEF RegisterAsyncResult
<1>5. ASSUME NEW v \in Uuids \ shared', v # u
      PROVE  Story(v)'
  <2>1. Occurs(v, asyncResultsQueue') => Occurs(v, asyncResultsQueue)
    <3>1. asyncResultsQueue' = asyncResultsQueue
          \/ asyncResultsQueue' = Append(asyncResultsQueue, u)
      BY <1>2, <1>4
    <3>2. Occurs(v, Append(asyncResultsQueue, u)) <=> Occurs(v, asyncResultsQueue)
      BY <1>1, <1>5, OccursInAppend
    <3>3. QED
      BY <3>1, <3>2
  <2>2. asyncResults'[v] = asyncResults[v]
    BY <1>2, <1>4, <1>5
  <2>3. inflight'[v] = inflight[v] /\ sends'[v] = sends[v]
    BY <1>1, <1>2, <1>5
  <2>4. v \in abandoned' <=> v \in abandoned
    BY <1>2, <1>5
  <2>5. SameFrames(stack, stack', v) /\ RequestsOf(v)' = RequestsOf(v)
    BY <1>2, SameStack DEF RequestsOf
  <2>6. NotAbout(v)
    BY <1>2, <1>3, <2>1, <2>2, <2>3, <2>4, <2>5, Zenon DEF NotAbout
  <2>7. QED
    BY <1>2, <1>5, <2>6, NotAboutKeepsStory DEF AllStories
<1>6. ASSUME u \notin shared'
      PROVE  Story(u)'
  <2>1. /\ Story(u) /\ Fresh(u) /\ sends[u] = 0 /\ inflight[u] = 0
        /\ ~Holds(stack, u) /\ ~Occurs(u, asyncResultsQueue)
    BY <1>2, <1>3, <1>6, OnceSays DEF AllStories, Story, PlaceOf
  <2>2. (Accepted(u)' <=> Accepted(u)) /\ MethodOf(u)' = MethodOf(u)
    BY <1>2, SameRequests DEF RequestsOf
  <2>3. ~Occurs(u, asyncQueue') /\ ~Holds(stack', u)
    BY <1>2, <1>3, <1>6, <2>1
  <2>4. FramesTell(stack, u)' /\ NewIsSilent(u)' /\ MethodKnown(u)'
    <3>1. FramesTell(stack, u)'
      BY <2>3, Zenon DEF FramesTell, Holds
    <3>2. MethodKnown(u)'
      BY <1>2, <2>1, <2>2 DEF Story, MethodKnown
    <3>3. ~(u > lastUuid')
      BY <1>2, <1>3, OnceSays DEF UnusedFrom
    <3>4. QED
      BY <3>1, <3>2, <3>3, Zenon DEF NewIsSilent
  <2>5. CASE /\ inflight' = [inflight EXCEPT ![u] = @ + 1]
             /\ sends' = [sends EXCEPT ![u] = @ + 1]
             /\ UNCHANGED <<asyncResults, asyncResultsQueue, abandoned>>
    <3>1. Fresh(u)'
      BY <1>2, <2>1, <2>2, <2>5 DEF Fresh, Pending, Settled
    <3>2. FeedAgrees(u)'
      BY <3>1 DEF Fresh, FeedAgrees
    <3>3. QED
      BY <2>1, <2>3, <2>4, <2>5, <3>1, <3>2, Zenon DEF Story
  <2>6. CASE /\ \E ok \in BOOLEAN : RegisterAsyncResult(u, ok)
             /\ UNCHANGED <<inflight, sends, abandoned>>
    <3>1. Pending(u)'
      BY <1>2, <2>1, <2>2, <2>6 DEF Fresh, Pending, Settled
    <3>2. sends'[u] # 1 /\ ~(inflight'[u] > 0)
      BY <2>1, <2>6
    <3>3. QED
      BY <2>3, <2>4, <3>1, <3>2, Zenon DEF Story, FeedAgrees
  <2>7. CASE UNCHANGED <<inflight, sends, asyncResultsQueue>>
    <3>1. sends'[u] # 1 /\ ~(inflight'[u] > 0)
      BY <2>1, <2>7
    <3>2. QED
      BY <2>1, <2>3, <2>4, <2>7, <3>1, Zenon DEF Story, FeedAgrees
  <2>8. QED
    BY <1>2, <2>5, <2>6, <2>7
<1>7. QED
  BY <1>5, <1>6, Zenon DEF AllStories

\* The parser tells the feed and the result the same.
LEMMA ParsedTells ==
    ASSUME TypeOK, AllStories, NEW u \in Uuids, NEW r \in Parsed, NEW base,
           OnApiResponseParsed(u, r, base),
           UNCHANGED <<requests, asyncDictionary, sends, answers, abandoned, lost, shared>>,
           u \notin shared => asyncs[u] > 0 /\ Fresh(u)
    PROVE  /\ TellsOf(u, base)
           /\ u \notin shared => MethodKnown(u)' /\ FeedAgrees(u)'
           /\ \A v \in Uuids : v # u => /\ asyncResults'[v] = asyncResults[v]
                                        /\ orderEvents'[v] = orderEvents[v]
<1>1. (Accepted(u)' <=> Accepted(u)) /\ MethodOf(u)' = MethodOf(u)
  BY SameRequests DEF RequestsOf
<1>2. ASSUME u \notin shared
      PROVE  /\ MethodKnown(u)' /\ Pending(u)'
             /\ MethodOf(u)' = {asyncDictionary[u]}
             /\ asyncs[u] # 0
  <2>1. Story(u) /\ Fresh(u) /\ asyncs[u] > 0
    BY <1>2 DEF AllStories
  <2>2. MethodKnown(u)' /\ MethodOf(u)' = {asyncDictionary[u]}
    BY <1>1, <2>1 DEF Story, MethodKnown, Fresh
  <2>3. Pending(u)'
    BY <1>1, <2>1 DEF Fresh, Pending, Settled
  <2>4. QED
    BY <2>1, <2>2, <2>3
<1>3. CASE ParseEnds(u, base)
  BY <1>2, <1>3 DEF ParseEnds, TellsOf
<1>4. CASE ParsePlaces(u, base)
  <2>1. PICK f \in Frames : /\ f.uuid = u /\ stack' = Append(base, f)
                            /\ f.at \in {"placed", "placeError"}
    BY <1>4 DEF ParsePlaces
  <2>2. ASSUME u \notin shared
        PROVE  Fresh(u)' /\ FeedAgrees(u)'
    <3>1. Fresh(u)'
      BY <1>2, <1>4, <2>2 DEF Fresh, ParsePlaces
    <3>2. QED
      BY <3>1 DEF Fresh, FeedAgrees
  <2>3. u \notin shared => FrameStory(f.at, u)'
    BY <2>1, <2>2 DEF FrameStory
  <2>4. TellsOf(u, base)
    BY <1>4, <2>1, <2>3, Zenon DEF TellsOf, ParsePlaces
  <2>5. QED
    BY <1>2, <1>4, <2>2, <2>4 DEF ParsePlaces
<1>5. CASE ParseResults(u, base)
  <2>1. /\ asyncResultsQueue' = Append(asyncResultsQueue, u)
        /\ \A v \in Uuids : v # u => asyncResults'[v] = asyncResults[v]
    BY <1>5 DEF ParseResults, RegisterAsyncResult, TypeOK
  <2>2. u \notin shared => MethodOf(u)' # {"place"}
    BY <1>2, <1>5 DEF ParseResults
  <2>3. TellsOf(u, base)
    BY <1>2, <1>5, <2>1, Zenon DEF TellsOf, ParseResults
  <2>4. QED
    BY <1>2, <1>5, <2>1, <2>2, <2>3, SaysOthers DEF FeedAgrees, ParseResults
<1>6. CASE ParseFails(u, base)
  <2>1. PICK f \in Frames : /\ f.uuid = u /\ stack' = Append(base, f)
                            /\ f.at \in {"keyError", "register"}
    BY <1>6 DEF ParseFails
  <2>2. ASSUME u \notin shared
        PROVE  /\ MethodOf(u)' # {"place"} /\ Pending(u)' /\ asyncResults'[u] = "none"
               /\ FeedAgrees(u)'
    BY <1>2, <1>6, <2>2 DEF Fresh, FeedAgrees, ParseFails
  <2>3. u \notin shared => FrameStory(f.at, u)'
    BY <2>1, <2>2 DEF FrameStory
  <2>4. TellsOf(u, base)
    BY <1>6, <2>1, <2>3, Zenon DEF TellsOf, ParseFails
  <2>5. QED
    BY <1>2, <1>6, <2>2, <2>4, SaysOthers DEF ParseFails
<1>7. QED
  BY <1>3, <1>4, <1>5, <1>6, ParsedShape

\* A reply makes its events while its request is fresh.
LEMMA RepliesTell ==
    ASSUME TypeOK, Once, AllCared, AllStories, NEW u \in Uuids, OnNetworkReply(u)
    PROVE  AllStories'
<1>1. /\ inflight \in [Uuids -> Nat] /\ stack \in Seq(Frames)
  BY DEF TypeOK
<1>2. TakeReply(u)
  BY DEF OnNetworkReply, ReplyParsed, ReplyFreeze, ReplyBadRequest, ReplyForbidden
<1>3. /\ UNCHANGED <<lastUuid, asyncQueue, requests, shared, lost, asyncs,
                     asyncDictionary, sends, answers>>
      /\ inflight[u] > 0
      /\ inflight' = [inflight EXCEPT ![u] = @ - 1]
  BY <1>2 DEF TakeReply
<1>4. \A v \in Uuids : v # u => inflight'[v] = inflight[v]
  BY <1>1, <1>3
<1>5. ASSUME u \notin shared
      PROVE  /\ ~Holds(stack, u) /\ ~Occurs(u, asyncQueue)
             /\ ~Occurs(u, asyncResultsQueue) /\ ~(inflight'[u] > 0)
             /\ ~(u > lastUuid) /\ asyncs[u] > 0 /\ Fresh(u) /\ Story(u)
  <2>1. PlaceOf(u) /\ Cared(u) /\ Story(u)
    BY <1>5, OnceSays DEF AllCared, AllStories
  <2>2. inflight[u] # 0
    BY <1>3
  <2>3. inflight[u] = 1 /\ inflight'[u] = 0
    BY <1>1, <1>3, <2>1 DEF PlaceOf
  <2>4. ~(u > lastUuid)
    BY <1>3, <2>2, OnceSays DEF UnusedFrom
  <2>5. QED
    BY <1>3, <2>1, <2>2, <2>3, <2>4 DEF PlaceOf, Cared, EntriesKnown, Story
<1>6. (Accepted(u)' <=> Accepted(u)) /\ MethodOf(u)' = MethodOf(u)
  BY <1>3, SameRequests DEF RequestsOf
<1> DEFINE Told ==
               /\ TellsOf(u, stack)
               /\ u \notin shared => MethodKnown(u)' /\ FeedAgrees(u)'
               /\ \A v \in Uuids : v # u => /\ asyncResults'[v] = asyncResults[v]
                                            /\ orderEvents'[v] = orderEvents[v]
                                            /\ v \in abandoned' <=> v \in abandoned
<1>7. ASSUME UNCHANGED <<asyncResults, orderEvents>>, u \notin shared
      PROVE  MethodKnown(u)' /\ FeedAgrees(u)'
  BY <1>3, <1>5, <1>6, <1>7 DEF Story, MethodKnown, FeedAgrees
<1>8. Told
  <2>1. ASSUME NEW r \in Parsed, ReplyParsed(u, r)
        PROVE  Told
    <3>1. OnApiResponseParsed(u, r, stack) /\ abandoned' = abandoned
      BY <2>1 DEF ReplyParsed
    <3>2. UNCHANGED <<requests, asyncDictionary, sends, answers, abandoned, lost, shared>>
      BY <1>3, <3>1
    <3>3. QED
      BY <1>5, <3>1, <3>2, ParsedTells
  <2>2. ASSUME ReplyFreeze(u)
        PROVE  Told
    <3>1. /\ stack' = Append(stack, Frame("freeze", u))
          /\ UNCHANGED <<asyncResults, asyncResultsQueue, orderEvents>>
          /\ abandoned' = abandoned \cup {u}
      BY <2>2 DEF ReplyFreeze
    <3>2. /\ Frame("freeze", u) \in Frames /\ Frame("freeze", u).uuid = u
          /\ Frame("freeze", u).at = "freeze"
      BY FrameTypes DEF Points, Frame, OrderFrame
    <3>3. FrameStory("freeze", u)'
      BY DEF FrameStory
    <3>4. TellsOf(u, stack)
      BY <3>1, <3>2, <3>3, Zenon DEF TellsOf
    <3>5. QED
      BY <1>7, <3>1, <3>4
  <2>3. ASSUME ReplyForbidden(u)
        PROVE  Told
    <3>1. /\ stack' = Append(stack, Frame("freezeFail", u))
          /\ UNCHANGED <<asyncResults, asyncResultsQueue, orderEvents, abandoned>>
      BY <2>3 DEF ReplyForbidden
    <3>2. /\ Frame("freezeFail", u) \in Frames /\ Frame("freezeFail", u).uuid = u
          /\ Frame("freezeFail", u).at = "freezeFail"
      BY FrameTypes DEF Points, Frame, OrderFrame
    <3>3. u \notin shared => Fresh(u)'
      BY <1>3, <1>5, <1>6, <3>1 DEF Fresh, Pending, Settled
    <3>4. u \notin shared => FrameStory("freezeFail", u)'
      BY <3>3 DEF FrameStory
    <3>5. TellsOf(u, stack)
      BY <3>1, <3>2, <3>4, Zenon DEF TellsOf
    <3>6. QED
      BY <1>7, <3>1, <3>5
  <2>4. ASSUME ReplyBadRequest(u)
        PROVE  Told
    <3>1. /\ UNCHANGED <<stack, asyncResults, asyncResultsQueue, orderEvents>>
          /\ abandoned' = abandoned \cup {u}
      BY <2>4 DEF ReplyBadRequest
    <3>2. TellsOf(u, stack)
      BY <3>1, Zenon DEF TellsOf
    <3>3. QED
      BY <1>7, <3>1, <3>2
  <2>5. QED
    BY <2>1, <2>2, <2>3, <2>4 DEF OnNetworkReply
<1>9. SaysOnlyOf(u)
  BY <1>3, <1>4, <1>8 DEF SaysOnlyOf
<1>10. QED
  BY <1>1, <1>5, <1>8, <1>9, SameStack, HandlerStepTells

\* A handler whose call returns tells the feed before the result.
LEMMA ReturnsTell == TypeOK /\ Once /\ AllCared /\ AllStories /\ CallReturns => AllStories'
<1>0. TypeOK /\ CallReturns => stack # <<>> /\ Top \in Frames /\ Top.uuid \in Uuids
  BY StackTypes DEF TypeOK, CallReturns, ReturnFreeze, ReturnFreezeFail, ReturnPlaced,
     ReturnPlaceError, ReturnKeyError, ReturnRegister, ReturnMethodState
<1> SUFFICES ASSUME TypeOK, Once, AllCared, AllStories, CallReturns,
                    NEW u \in Uuids, NEW base, NEW top \in Frames,
                    top = Top, u = top.uuid, base = Below
             PROVE  AllStories'
  BY <1>0
<1>1. /\ stack \in Seq(Frames) /\ stack # <<>>
      /\ asyncDictionary \in [Uuids -> Methods \cup {NoMethod}]
      /\ asyncResults \in [Uuids -> {"none", "ok", "fail"}]
  BY <1>0 DEF TypeOK
<1>2. /\ base \in Seq(Frames) /\ Holds(stack, u)
      /\ u \notin shared => ~Holds(base, u)
  BY <1>1, HoldsBelow, OnceSays
<1>3. \A v : v # u => SameFrames(stack, base, v)
  BY <1>1, BelowSameFrames
<1>4. UNCHANGED <<lastUuid, asyncQueue, inflight, requests, shared, sends,
                  abandoned, lost, answers>>
  BY DEF CallReturns, ReturnFreeze, ReturnFreezeFail, ReturnPlaced,
         ReturnPlaceError, ReturnKeyError, ReturnRegister, ReturnMethodState,
         ReturnFrame
<1>5. ASSUME u \notin shared
      PROVE  /\ ~Occurs(u, asyncQueue) /\ ~Occurs(u, asyncResultsQueue)
             /\ ~(inflight'[u] > 0) /\ ~(u > lastUuid)
             /\ top.at # "methodState" => asyncs[u] > 0
             /\ FrameStory(top.at, u) /\ Story(u)
  <2>1. PlaceOf(u) /\ FramesKnown(stack, u) /\ Story(u) /\ FramesTell(stack, u)
    BY <1>5, OnceSays DEF AllCared, Cared, EntriesKnown, AllStories, Story
  <2>2. Len(stack) \in DOMAIN stack /\ stack[Len(stack)] = top
    <3>1. Len(stack) \in Nat \ {0} /\ DOMAIN stack = 1 .. Len(stack)
      BY <1>1, StackTypes, LenProperties
    <3>2. QED
      BY <3>1 DEF Top
  <2>3. ~(u > lastUuid)
    BY <1>2, OnceSays DEF UnusedFrom
  <2>4. QED
    BY <1>2, <1>4, <2>1, <2>2, <2>3, Zenon DEF PlaceOf, FramesKnown, FramesTell
<1>6. (Accepted(u)' <=> Accepted(u)) /\ MethodOf(u)' = MethodOf(u)
  BY <1>4, SameRequests DEF RequestsOf
<1>7. (Pending(u)' <=> Pending(u)) /\ (UNCHANGED asyncDictionary /\ u \notin shared
                                          => MethodKnown(u)')
  BY <1>4, <1>5, <1>6 DEF Pending, Settled, Story, MethodKnown
<1> DEFINE Told ==
               /\ TellsOf(u, base)
               /\ u \notin shared => MethodKnown(u)' /\ FeedAgrees(u)'
               /\ \A v \in Uuids : v # u =>
                      /\ asyncDictionary'[v] = asyncDictionary[v]
                      /\ asyncResults'[v] = asyncResults[v]
                      /\ orderEvents'[v] = orderEvents[v]
<1>8. Told
  <2>1. ASSUME ReturnFreeze
        PROVE  Told
    <3>1. /\ stack' = base
          /\ UNCHANGED <<asyncDictionary, asyncResults, asyncResultsQueue, orderEvents>>
      BY <2>1 DEF ReturnFreeze
    <3>2. u \notin shared => FeedAgrees(u)'
      BY <1>4, <1>5, <1>6, <3>1 DEF Story, FeedAgrees
    <3>3. TellsOf(u, base)
      BY <3>1, Zenon DEF TellsOf
    <3>4. QED
      BY <1>7, <3>1, <3>2, <3>3
  <2>2. ASSUME ReturnFreezeFail
        PROVE  Told
    <3>1. /\ top.at = "freezeFail" /\ OnApiResponseParsed(u, Failure, base)
          /\ UNCHANGED asyncDictionary
      BY <2>2 DEF ReturnFreezeFail
    <3>2. u \notin shared => asyncs[u] > 0 /\ Fresh(u)
      BY <1>5, <3>1 DEF FrameStory
    <3>3. UNCHANGED <<requests, asyncDictionary, sends, answers, abandoned, lost, shared>>
      BY <1>4, <3>1
    <3>4. Failure \in Parsed
      BY FrameTypes
    <3>5. QED
      BY <3>1, <3>2, <3>3, <3>4, ParsedTells
  <2>3. ASSUME ReturnPlaced
        PROVE  Told
    <3>1. /\ top.at = "placed" /\ stack' = base /\ UNCHANGED asyncDictionary
          /\ RegisterAsyncResult(u, TRUE)
          /\ \/ UNCHANGED orderEvents
             \/ Publish(u, "PLACED", top.local)
             \/ Publish(u, "COMPLETED", top.local)
      BY <2>3 DEF ReturnPlaced
    <3>2. top.local \in Locals
      BY DEF Frames
    <3>3. /\ asyncResultsQueue' = Append(asyncResultsQueue, u)
          /\ asyncResults'[u] = "ok"
          /\ \A v \in Uuids : v # u => asyncResults'[v] = asyncResults[v]
      BY <1>1, <3>1 DEF RegisterAsyncResult
    <3>4. \A v \in Uuids : v # u => orderEvents'[v] = orderEvents[v]
      BY <3>1, <3>2, FirstEvent DEF EventKinds
    <3>5. ASSUME u \notin shared
          PROVE  Pending(u)' /\ FeedAgrees(u)'
      <4>1. Fresh(u)
        BY <1>5, <3>1, <3>5 DEF FrameStory
      <4>2. CASE UNCHANGED orderEvents
        <5>1. orderEvents'[u] = <<>> /\ Len(<<>>) = 0 /\ DOMAIN <<>> = {}
          BY <4>1, <4>2 DEF Fresh
        <5>2. FeedAgrees(u)'
          BY <3>3, <5>1 DEF FeedAgrees
        <5>3. QED
          BY <1>7, <4>1, <5>2 DEF Fresh
      <4>3. ASSUME NEW k \in {"PLACED", "COMPLETED"}, Publish(u, k, top.local)
            PROVE  Pending(u)' /\ FeedAgrees(u)'
        <5>1. k \in EventKinds /\ orderEvents[u] = <<>>
          BY <4>1 DEF EventKinds, Fresh
        <5>2. /\ Len(orderEvents'[u]) = 1 /\ DOMAIN orderEvents'[u] = {1}
              /\ orderEvents'[u][1] = [kind |-> k, local |-> top.local]
          BY <3>2, <4>3, <5>1, FirstEvent
        <5>3. orderEvents'[u][1].kind = k
          BY <5>2
        <5>4. FeedAgrees(u)'
          BY <3>3, <5>2, <5>3 DEF FeedAgrees
        <5>5. QED
          BY <1>7, <4>1, <5>4 DEF Fresh
      <4>4. QED
        BY <3>1, <4>2, <4>3
    <3>6. TellsOf(u, base)
      BY <3>1, <3>3, <3>5, Zenon DEF TellsOf
    <3>7. QED
      BY <1>7, <3>1, <3>3, <3>4, <3>5, <3>6
  <2>4. ASSUME ReturnPlaceError
        PROVE  Told
    <3>1. /\ top.at = "placeError" /\ Publish(u, "ERROR", top.local)
          /\ UNCHANGED <<asyncDictionary, asyncResults, asyncResultsQueue>>
          /\ stack' = Append(base, FailureFrame(u, top.reply))
      BY <2>4 DEF ReturnPlaceError
    <3>2. top.local \in Locals /\ top.reply \in Parsed /\ "ERROR" \in EventKinds
      BY DEF Frames, EventKinds
    <3>3. FailureFrame(u, top.reply) \in Frames
      BY <3>2, FrameTypes
    <3>4. /\ FailureFrame(u, top.reply).uuid = u
          /\ FailureFrame(u, top.reply).at \in {"keyError", "register"}
      BY DEF FailureFrame, Frame, OrderFrame
    <3>5. PICK f \in Frames : /\ f.uuid = u /\ stack' = Append(base, f)
                              /\ f.at \in {"keyError", "register"}
      BY <3>1, <3>3, <3>4
    <3>6. \A v \in Uuids : v # u => orderEvents'[v] = orderEvents[v]
      BY <3>1, <3>2, FirstEvent
    <3>7. ASSUME u \notin shared
          PROVE  FrameStory(f.at, u)' /\ FeedAgrees(u)'
      <4>1. Fresh(u)
        BY <1>5, <3>1, <3>7 DEF FrameStory
      <4>2. /\ Len(orderEvents'[u]) = 1
            /\ orderEvents'[u][1] = [kind |-> "ERROR", local |-> top.local]
        BY <3>1, <3>2, <4>1, FirstEvent DEF Fresh
      <4>3. orderEvents'[u][1].kind = "ERROR"
        BY <4>2
      <4>4. Pending(u)' /\ asyncResults'[u] = "none"
        BY <1>7, <3>1, <4>1 DEF Fresh
      <4>5. FrameStory(f.at, u)'
        BY <3>5, <4>2, <4>3, <4>4 DEF FrameStory
      <4>6. QED
        BY <4>4, <4>5 DEF FeedAgrees
    <3>8. TellsOf(u, base)
      BY <3>1, <3>5, <3>7, Zenon DEF TellsOf
    <3>9. QED
      BY <1>7, <3>1, <3>6, <3>7, <3>8
  <2>5. ASSUME ReturnKeyError
        PROVE  Told
    <3>1. /\ top.at = "keyError"
          /\ UNCHANGED <<asyncDictionary, asyncResults, asyncResultsQueue, orderEvents>>
          /\ stack' = Append(base, [top EXCEPT !.at = "register"])
      BY <2>5 DEF ReturnKeyError
    <3>2. /\ [top EXCEPT !.at = "register"] \in Frames
          /\ [top EXCEPT !.at = "register"].uuid = u
          /\ [top EXCEPT !.at = "register"].at = "register"
      BY DEF Frames, Points
    <3>3. ASSUME u \notin shared
          PROVE  FrameStory("register", u)' /\ FeedAgrees(u)'
      BY <1>4, <1>5, <1>6, <1>7, <3>1, <3>3 DEF FrameStory, FeedAgrees
    <3>4. TellsOf(u, base)
      BY <3>1, <3>2, <3>3, Zenon DEF TellsOf
    <3>5. QED
      BY <1>7, <3>1, <3>3, <3>4
  <2>6. ASSUME ReturnRegister
        PROVE  Told
    <3>1. /\ top.at = "register" /\ stack' = base
          /\ UNCHANGED <<asyncDictionary, orderEvents>>
          /\ RegisterAsyncResult(u, FALSE)
      BY <2>6 DEF ReturnRegister
    <3>2. /\ asyncResultsQueue' = Append(asyncResultsQueue, u)
          /\ asyncResults'[u] = "fail"
          /\ \A v \in Uuids : v # u => asyncResults'[v] = asyncResults[v]
      BY <1>1, <3>1 DEF RegisterAsyncResult
    <3>3. ASSUME u \notin shared
          PROVE  Pending(u)' /\ FeedAgrees(u)'
      BY <1>5, <1>6, <1>7, <3>1, <3>2, <3>3 DEF FrameStory, FeedAgrees
    <3>4. TellsOf(u, base)
      BY <3>1, <3>2, <3>3, Zenon DEF TellsOf
    <3>5. QED
      BY <1>7, <3>1, <3>2, <3>3, <3>4
  <2>7. ASSUME ReturnMethodState
        PROVE  Told
    <3>1. /\ stack' = base /\ UNCHANGED <<asyncResultsQueue, orderEvents>>
          /\ asyncDictionary' = [asyncDictionary EXCEPT ![u] = NoMethod]
          /\ asyncResults' = [asyncResults EXCEPT ![u] = "none"]
      BY <2>7 DEF ReturnMethodState
    <3>2. /\ asyncDictionary'[u] = NoMethod /\ asyncResults'[u] = "none"
          /\ \A v \in Uuids : v # u => /\ asyncDictionary'[v] = asyncDictionary[v]
                                       /\ asyncResults'[v] = asyncResults[v]
      BY <1>1, <3>1
    <3>3. MethodKnown(u)' /\ FeedAgrees(u)'
      BY <3>2 DEF MethodKnown, FeedAgrees
    <3>4. TellsOf(u, base)
      BY <3>1, Zenon DEF TellsOf
    <3>5. QED
      BY <3>1, <3>2, <3>3, <3>4
  <2>8. QED
    BY <2>1, <2>2, <2>3, <2>4, <2>5, <2>6, <2>7 DEF CallReturns
<1>9. SaysOnlyOf(u)
  BY <1>4, <1>8 DEF SaysOnlyOf
<1>10. QED
  BY <1>2, <1>3, <1>5, <1>8, <1>9, HandlerStepTells

\* A tick says nothing on the order feed.
LEMMA QueueResultTells ==
    TypeOK /\ Once /\ AllCared /\ AllStories /\ ProcessAsyncQueueResult => AllStories'
<1>0. TypeOK /\ ProcessAsyncQueueResult => Head(asyncResultsQueue) \in Uuids
  BY OccursInTail DEF TypeOK, ProcessAsyncQueueResult
<1> SUFFICES ASSUME TypeOK, Once, AllCared, AllStories, ProcessAsyncQueueResult,
                    NEW u \in Uuids, u = Head(asyncResultsQueue)
             PROVE  AllStories'
  BY <1>0
<1> DEFINE f == Frame("methodState", u)
<1>1. /\ asyncResultsQueue \in Seq(Uuids) /\ asyncResultsQueue # <<>>
      /\ stack \in Seq(Frames) /\ answers \in [Uuids -> Nat]
  BY DEF ProcessAsyncQueueResult, TypeOK
<1>2. /\ UNCHANGED <<lastUuid, asyncQueue, asyncDictionary, asyncResults, inflight,
                     requests, shared, abandoned, lost, sends, orderEvents>>
      /\ asyncResultsQueue' = Tail(asyncResultsQueue)
      /\ \/ UNCHANGED <<answers, stack>>
         \/ /\ answers' = [answers EXCEPT ![u] = @ + 1]
            /\ stack' = Append(stack, f)
  BY DEF ProcessAsyncQueueResult
<1>3. /\ Occurs(u, asyncResultsQueue)
      /\ \A v : Occurs(v, asyncResultsQueue') => Occurs(v, asyncResultsQueue)
      /\ u \notin shared => ~Occurs(u, asyncResultsQueue')
  BY <1>1, <1>2, OccursInTail, OnceSays
<1>4. f \in Frames /\ f.uuid = u /\ f.at = "methodState"
  BY FrameTypes DEF Points, Frame, OrderFrame
<1> HIDE DEF f
<1>5. ASSUME NEW v \in Uuids \ shared', v # u
      PROVE  Story(v)'
  <2>1. answers'[v] = answers[v]
    BY <1>1, <1>2, <1>5
  <2>2. SameFrames(stack, stack', v)
    <3>1. SameFrames(stack, Append(stack, f), v)
      BY <1>1, <1>4, <1>5, AppendSameFrames
    <3>2. QED
      BY <1>2, <3>1, SameStack
  <2>3. NotAbout(v)
    BY <1>2, <1>3, <2>1, <2>2, Zenon DEF NotAbout, RequestsOf
  <2>4. QED
    BY <1>2, <1>5, <2>3, NotAboutKeepsStory DEF AllStories
<1>6. ASSUME u \notin shared'
      PROVE  Story(u)'
  <2>1. /\ Story(u) /\ ~Holds(stack, u) /\ ~Occurs(u, asyncQueue)
        /\ ~(inflight[u] > 0) /\ ~(u > lastUuid)
    BY <1>2, <1>3, <1>6, OnceSays DEF AllStories, PlaceOf, UnusedFrom
  <2>2. /\ ~(inflight'[u] > 0) /\ ~Occurs(u, asyncQueue')
        /\ ~Occurs(u, asyncResultsQueue') /\ ~(u > lastUuid')
    BY <1>2, <1>3, <1>6, <2>1
  <2>3. MethodOf(u)' = MethodOf(u)
    BY <1>2, SameRequests DEF RequestsOf
  <2>4. MethodKnown(u)' /\ FeedAgrees(u)'
    BY <1>2, <2>1, <2>3 DEF Story, MethodKnown, FeedAgrees
  <2>5. FramesTell(stack, u)'
    <3>1. CASE UNCHANGED <<answers, stack>>
      BY <2>1, <3>1, Zenon DEF FramesTell, Holds
    <3>2. CASE stack' = Append(stack, f)
      <4>1. \A i \in DOMAIN stack' : stack'[i].uuid = u => stack'[i] = f
        BY <1>1, <1>4, <2>1, <3>2, OnlyFrame
      <4>2. ASSUME NEW i \in DOMAIN stack', stack'[i].uuid = u
            PROVE  FrameStory(stack[i].at, u)'
        BY <1>4, <4>1, <4>2 DEF FrameStory
      <4>3. QED
        BY <4>2, Zenon DEF FramesTell
    <3>3. QED
      BY <1>2, <3>1, <3>2
  <2>6. QED
    BY <2>2, <2>4, <2>5, Zenon DEF Story, NewIsSilent
<1>7. QED
  BY <1>5, <1>6, Zenon DEF AllStories

\* A process that dies has said what it said, and knows of no result.
LEMMA TimersTell ==
    TypeOK /\ AllStories /\ (Unfreeze \/ Crash \/ UNCHANGED vars) => AllStories'
<1>1. ASSUME AllStories,
             UNCHANGED <<lastUuid, asyncDictionary, asyncQueue, asyncResults,
                         asyncResultsQueue, stack, inflight, requests, shared,
                         sends, orderEvents, answers, abandoned, lost>>
      PROVE  AllStories'
  <2>1. ASSUME NEW v \in Uuids \ shared
        PROVE  Story(v)'
    <3>1. NotAbout(v)
      BY <1>1, SameStack, Zenon DEF NotAbout, RequestsOf
    <3>2. QED
      BY <1>1, <3>1, NotAboutKeepsStory DEF AllStories
  <2>2. QED
    BY <1>1, <2>1, Zenon DEF AllStories
<1>2. Unfreeze \/ UNCHANGED vars =>
          UNCHANGED <<lastUuid, asyncDictionary, asyncQueue, asyncResults,
                      asyncResultsQueue, stack, inflight, requests, shared,
                      sends, orderEvents, answers, abandoned, lost>>
  BY DEF Unfreeze, vars, code, history
<1>3. ASSUME AllStories, Crash
      PROVE  AllStories'
  <2>1. /\ asyncQueue' = <<>> /\ asyncResultsQueue' = <<>> /\ stack' = <<>>
        /\ inflight' = [v \in Uuids |-> 0]
        /\ asyncDictionary' = [v \in Uuids |-> NoMethod]
        /\ asyncResults' = [v \in Uuids |-> "none"]
        /\ lost' = lost \cup {v \in Uuids : Accepted(v) /\ answers[v] = 0
                                            /\ v \notin abandoned}
        /\ UNCHANGED <<lastUuid, requests, abandoned, shared, orderEvents>>
    BY <1>3 DEF Crash
  <2>2. DOMAIN <<>> = {}
    OBVIOUS
  <2>3. ASSUME NEW v \in Uuids \ shared'
        PROVE  Story(v)'
    <3>1. ~Occurs(v, asyncQueue)' /\ ~Occurs(v, asyncResultsQueue)'
      BY <2>1, <2>2, Zenon DEF Occurs
    <3>2. FramesTell(stack, v)'
      BY <2>1, <2>2, Zenon DEF FramesTell
    <3>3. /\ ~(inflight'[v] > 0) /\ asyncDictionary'[v] = NoMethod
          /\ asyncResults'[v] = "none"
      BY <2>1
    <3>4. MethodKnown(v)' /\ FeedAgrees(v)'
      BY <3>3 DEF MethodKnown, FeedAgrees
    <3>5. Accepted(v)' <=> Accepted(v)
      BY <2>1 DEF Accepted
    <3>6. NewIsSilent(v)'
      BY <1>3, <2>1, <2>3, <3>3, <3>5 DEF AllStories, Story, NewIsSilent
    <3>7. QED
      BY <3>1, <3>2, <3>3, <3>4, <3>6, Zenon DEF Story
  <2>4. QED
    BY <2>3, Zenon DEF AllStories
<1>4. QED
  BY <1>1, <1>2, <1>3

LEMMA InitTells == Init => AllStories
<1> SUFFICES ASSUME Init, NEW v \in Uuids
             PROVE  Story(v)
  BY Zenon DEF AllStories
<1>1. /\ asyncQueue = <<>> /\ asyncResultsQueue = <<>> /\ stack = <<>>
      /\ ~(inflight[v] > 0) /\ requests = {} /\ abandoned = {} /\ lost = {}
      /\ orderEvents[v] = <<>> /\ asyncResults[v] = "none"
      /\ asyncDictionary[v] = NoMethod
  BY DEF Init
<1>2. DOMAIN <<>> = {}
  OBVIOUS
<1>3. ~Accepted(v) /\ v \notin abandoned /\ v \notin lost
  BY <1>1 DEF Accepted
<1>4. NewIsSilent(v) /\ MethodKnown(v) /\ FeedAgrees(v)
  BY <1>1, <1>3 DEF NewIsSilent, MethodKnown, FeedAgrees
<1>5. QED
  BY <1>1, <1>2, <1>4, Zenon DEF Story, FramesTell, Occurs

LEMMA NextTells ==
    TypeOK /\ Once /\ AllCared /\ AllStories /\ [Next]_vars => AllStories'
<1>1. TypeOK /\ Once /\ AllStories /\ Accept => AllStories'
  BY AcceptTells DEF Accept
<1>2. QED
  BY <1>1, QueueTells, RepliesTell, ReturnsTell, QueueResultTells, TimersTell DEF Next

\* Everything that holds of every uuid in every reachable state.
LEMMA ClientStory == Spec => [](Once /\ AllCared /\ AllStories)
<1>1. Spec => []Once
  BY InitOnce, NextKeepsOnce, TypeCorrect, PTL DEF Spec
<1>2. Spec => []AllCared
  BY <1>1, InitCares, NextCares, TypeCorrect, PTL DEF Spec
<1>3. QED
  BY <1>1, <1>2, InitTells, NextTells, TypeCorrect, PTL DEF Spec

\* An order that failed was announced as failed, and one that succeeded never
\* was, however its handlers were interrupted.
THEOREM FeedTellsTheResult == Spec => []FeedAgreesWithResult
<1>1. QED
  BY ClientStory, StoriesAgree, PTL

-----------------------------------------------------------------------------
(* The client does what AsyncApi promises *)

phases == [u \in Uuids |-> Phase(u)]
announcements == [u \in Uuids |-> Len(orderEvents[u])]

\* A step that is not about v, as its caller sees it.
SameForCaller(v) ==
    /\ RequestsOf(v)' = RequestsOf(v) /\ answers'[v] = answers[v]
    /\ v \in abandoned' <=> v \in abandoned
    /\ v \in lost' <=> v \in lost

LEMMA SamePhase == ASSUME NEW v, SameForCaller(v) PROVE Phase(v)' = Phase(v)
<1>1. Accepted(v)' <=> Accepted(v)
  BY SameRequests DEF SameForCaller
<1>2. QED
  BY <1>1 DEF SameForCaller, Phase

LEMMA PendingPhase ==
    ASSUME TypeOK, NEW v \in Uuids
    PROVE  Pending(v) <=> Phase(v) = "pending"
BY DEF TypeOK, Pending, Settled, Phase

\* A step in which only u moves on, as its caller sees it.
MovesOn(u) ==
    \/ Phase(u)' = Phase(u) /\ Len(orderEvents'[u]) = Len(orderEvents[u])
    \/ /\ Phase(u) = "free" /\ Phase(u)' = "pending"
       /\ Len(orderEvents'[u]) = Len(orderEvents[u])
    \/ /\ Phase(u) = "pending" /\ Phase(u)' = "pending"
       /\ Len(orderEvents[u]) = 0 /\ Len(orderEvents'[u]) = 1
    \/ /\ Phase(u) = "pending" /\ Phase(u)' = "answered"
       /\ Len(orderEvents'[u]) = Len(orderEvents[u])
    \/ /\ Phase(u) = "pending" /\ Phase(u)' = "dropped"
       /\ Len(orderEvents[u]) = 0 /\ Len(orderEvents'[u]) = 0

LEMMA MoveIsAllowed ==
    ASSUME NEW u \in Uuids, MovesOn(u),
           \A v \in Uuids : v # u => SameForCaller(v) /\ orderEvents'[v] = orderEvents[v]
    PROVE  [Abstract!Next]_Abstract!vars
<1>1. /\ phases[u] = Phase(u) /\ phases'[u] = Phase(u)'
      /\ announcements[u] = Len(orderEvents[u])
      /\ announcements'[u] = Len(orderEvents'[u])
  BY DEF phases, announcements
<1>2. \A v \in Uuids : v # u => Phase(v)' = Phase(v)
  BY SamePhase
<1>3. phases' = [phases EXCEPT ![u] = Phase(u)']
  <2>1. phases' = [v \in Uuids |-> Phase(v)']
    BY DEF phases
  <2>2. [phases EXCEPT ![u] = Phase(u)']
            = [v \in Uuids |-> IF v = u THEN Phase(u)' ELSE Phase(v)]
    BY DEF phases
  <2>3. QED
    BY <1>2, <2>1, <2>2
<1>4. announcements' = [announcements EXCEPT ![u] = Len(orderEvents'[u])]
  BY DEF announcements
<1>5. announcements = [announcements EXCEPT ![u] = announcements[u]]
      /\ phases = [phases EXCEPT ![u] = phases[u]]
  BY DEF announcements, phases
<1>6. CASE Phase(u)' = Phase(u) /\ Len(orderEvents'[u]) = Len(orderEvents[u])
  <2>1. phases' = phases /\ announcements' = announcements
    BY <1>1, <1>3, <1>4, <1>5, <1>6
  <2>2. QED
    BY <2>1 DEF Abstract!vars, phases, announcements
<1>7. CASE /\ Phase(u) = "free" /\ Phase(u)' = "pending"
           /\ Len(orderEvents'[u]) = Len(orderEvents[u])
  <2>1. /\ phases[u] = "free" /\ phases' = [phases EXCEPT ![u] = "pending"]
        /\ announcements' = announcements
    BY <1>1, <1>3, <1>4, <1>5, <1>7
  <2>2. Abstract!Accept(u)
    BY <2>1 DEF Abstract!Accept, phases, announcements
  <2>3. QED
    BY <2>2 DEF Abstract!Next
<1>8. CASE /\ Phase(u) = "pending" /\ Phase(u)' = "pending"
           /\ Len(orderEvents[u]) = 0 /\ Len(orderEvents'[u]) = 1
  <2>1. /\ phases[u] = "pending" /\ announcements[u] = 0
        /\ announcements' = [announcements EXCEPT ![u] = 1] /\ phases' = phases
    BY <1>1, <1>3, <1>4, <1>5, <1>8
  <2>2. Abstract!Announce(u)
    BY <2>1 DEF Abstract!Announce, phases, announcements
  <2>3. QED
    BY <2>2 DEF Abstract!Next
<1>9. CASE /\ Phase(u) = "pending" /\ Phase(u)' = "answered"
           /\ Len(orderEvents'[u]) = Len(orderEvents[u])
  <2>1. /\ phases[u] = "pending" /\ phases' = [phases EXCEPT ![u] = "answered"]
        /\ announcements' = announcements
    BY <1>1, <1>3, <1>4, <1>5, <1>9
  <2>2. Abstract!Answer(u)
    BY <2>1 DEF Abstract!Answer, phases, announcements
  <2>3. QED
    BY <2>2 DEF Abstract!Next
<1>10. CASE /\ Phase(u) = "pending" /\ Phase(u)' = "dropped"
            /\ Len(orderEvents[u]) = 0 /\ Len(orderEvents'[u]) = 0
  <2>1. /\ phases[u] = "pending" /\ announcements[u] = 0
        /\ phases' = [phases EXCEPT ![u] = "dropped"] /\ announcements' = announcements
    BY <1>1, <1>3, <1>4, <1>5, <1>10
  <2>2. Abstract!Drop(u)
    BY <2>1 DEF Abstract!Drop, phases, announcements
  <2>3. QED
    BY <2>2 DEF Abstract!Next
<1>11. QED
  BY <1>6, <1>7, <1>8, <1>9, <1>10, Zenon DEF MovesOn

\* A step that only tells the feed of a request about which nothing was said.
LEMMA TellingIsAllowed ==
    ASSUME TypeOK, NEW u \in Uuids, Fresh(u), Says(u),
           UNCHANGED <<requests, answers, abandoned, lost>>
    PROVE  [Abstract!Next]_Abstract!vars
<1>1. \A v \in Uuids : SameForCaller(v)
  BY DEF SameForCaller, RequestsOf
<1>2. Phase(u) = "pending" /\ Phase(u)' = Phase(u) /\ Len(orderEvents[u]) = 0
  <2>1. Phase(u) = "pending" /\ Phase(u)' = Phase(u)
    BY <1>1, PendingPhase, SamePhase DEF Fresh
  <2>2. Len(<<>>) = 0
    OBVIOUS
  <2>3. QED
    BY <2>1, <2>2 DEF Fresh
<1>3. UNCHANGED orderEvents \/ Len(orderEvents'[u]) = 1
  BY FirstEvent DEF Says, Fresh
<1>4. MovesOn(u)
  BY <1>2, <1>3 DEF MovesOn
<1>5. QED
  BY <1>1, <1>4, MoveIsAllowed, SaysOthers

\* A step that gives a request up of which nothing was said.
LEMMA DroppingIsAllowed ==
    ASSUME TypeOK, NEW u \in Uuids, Fresh(u), abandoned' = abandoned \cup {u},
           UNCHANGED <<requests, answers, lost, orderEvents>>
    PROVE  [Abstract!Next]_Abstract!vars
<1>1. \A v \in Uuids : v # u => SameForCaller(v) /\ orderEvents'[v] = orderEvents[v]
  BY DEF SameForCaller, RequestsOf
<1>2. Phase(u) = "pending"
  BY PendingPhase DEF Fresh
<1>3. Phase(u)' = "dropped"
  BY DEF Phase, Fresh, Pending, Settled
<1>4. Len(orderEvents[u]) = 0 /\ Len(orderEvents'[u]) = 0
  <2>1. Len(<<>>) = 0
    OBVIOUS
  <2>2. QED
    BY <2>1 DEF Fresh
<1>5. MovesOn(u)
  BY <1>2, <1>3, <1>4 DEF MovesOn
<1>6. QED
  BY <1>1, <1>5, MoveIsAllowed

LEMMA StutterIsAllowed ==
    ASSUME UNCHANGED <<requests, answers, abandoned, lost, orderEvents>>
    PROVE  [Abstract!Next]_Abstract!vars
<1>1. \A v \in Uuids : Phase(v)' = Phase(v)
  BY DEF Phase, Accepted
<1>2. phases' = phases /\ announcements' = announcements
  BY <1>1 DEF phases, announcements
<1>3. QED
  BY <1>2 DEF Abstract!vars, phases, announcements

Inv == TypeOK /\ Once /\ AllCared /\ AllStories /\ shared = {}

LEMMA AcceptIsAllowed ==
    ASSUME Inv, ~SameMs, NEW m, NEW l, NEW u \in Uuids, CreateAsyncWaiter(m, l, u)
    PROVE  [Abstract!Next]_Abstract!vars /\ shared' = {}
<1>1. /\ lastUuid \in Nat /\ answers \in [Uuids -> Nat]
  BY ConstantsOK DEF Inv, TypeOK, Uuids
<1>2. /\ UNCHANGED <<answers, abandoned, lost, orderEvents>>
      /\ requests' = requests \cup {[uuid |-> u, method |-> m, local |-> l]}
      /\ u = lastUuid + 1
      /\ shared' = IF u = lastUuid THEN shared \cup {u} ELSE shared
  BY DEF CreateAsyncWaiter
<1>3. u > lastUuid /\ u # lastUuid
  BY <1>1, <1>2
<1>4. \A v \in Uuids : v # u => SameForCaller(v) /\ orderEvents'[v] = orderEvents[v]
  BY <1>2 DEF SameForCaller, RequestsOf
<1>5. /\ ~Accepted(u) /\ u \notin abandoned /\ u \notin lost /\ answers[u] = 0
  <2>1. UnusedFrom(u) /\ u > lastUuid
    BY <1>1, <1>3, OnceSays DEF Inv
  <2>2. NewIsSilent(u)
    BY DEF Inv, AllStories, Story
  <2>3. QED
    BY <2>1, <2>2, Zenon DEF NewIsSilent, UnusedFrom
<1>6. Phase(u) = "free"
  BY <1>5 DEF Phase
<1>7. Accepted(u)'
  <2> DEFINE new == [uuid |-> u, method |-> m, local |-> l]
  <2>1. new \in requests' /\ new.uuid = u
    BY <1>2
  <2>2. \E q \in requests' : q.uuid = u
    BY <2>1, Zenon
  <2>3. QED
    BY <2>2, Zenon DEF Accepted
<1>8. Phase(u)' = "pending"
  BY <1>2, <1>5, <1>7 DEF Phase
<1>9. MovesOn(u)
  BY <1>2, <1>6, <1>8 DEF MovesOn
<1>10. QED
  BY <1>2, <1>3, <1>4, <1>9, MoveIsAllowed DEF Inv

LEMMA QueueIsAllowed ==
    Inv /\ ProcessAsyncQueue => [Abstract!Next]_Abstract!vars /\ shared' = {}
<1>0. TypeOK /\ ProcessAsyncQueue => Head(asyncQueue) \in Uuids
  BY OccursInTail DEF TypeOK, ProcessAsyncQueue
<1> SUFFICES ASSUME Inv, ProcessAsyncQueue,
                    NEW u \in Uuids, u = Head(asyncQueue)
             PROVE  [Abstract!Next]_Abstract!vars /\ shared' = {}
  BY <1>0 DEF Inv
<1>1. /\ UNCHANGED <<requests, answers, lost, orderEvents, shared>>
      /\ UNCHANGED abandoned \/ abandoned' = abandoned \cup {u}
  BY DEF ProcessAsyncQueue
<1>2. Fresh(u)
  <2>1. Occurs(u, asyncQueue)
    BY OccursInTail DEF Inv, TypeOK, ProcessAsyncQueue
  <2>2. QED
    BY <2>1 DEF Inv, AllStories, Story
<1>3. QED
  BY <1>1, <1>2, StutterIsAllowed, DroppingIsAllowed DEF Inv

\* What the parser publishes is said of a fresh request.
LEMMA ParsedIsAllowed ==
    ASSUME TypeOK, NEW u \in Uuids, NEW r \in Parsed, NEW base,
           OnApiResponseParsed(u, r, base), Fresh(u),
           UNCHANGED <<requests, answers, abandoned, lost>>
    PROVE  [Abstract!Next]_Abstract!vars
<1>1. Says(u)
  BY ParsedShape DEF ParseEnds, ParsePlaces, ParseResults, ParseFails, Says
<1>2. QED
  BY <1>1, TellingIsAllowed

LEMMA ReplyIsAllowed ==
    ASSUME Inv, NEW u \in Uuids, OnNetworkReply(u)
    PROVE  [Abstract!Next]_Abstract!vars /\ shared' = {}
<1>1. TakeReply(u)
  BY DEF OnNetworkReply, ReplyParsed, ReplyFreeze, ReplyBadRequest, ReplyForbidden
<1>2. /\ UNCHANGED <<requests, answers, lost, shared>> /\ inflight[u] > 0
  BY <1>1 DEF TakeReply
<1>3. Fresh(u)
  BY <1>2 DEF Inv, AllStories, Story
<1>4. CASE \E r \in Parsed : ReplyParsed(u, r)
  <2>1. PICK r \in Parsed : ReplyParsed(u, r)
    BY <1>4
  <2>2. OnApiResponseParsed(u, r, stack) /\ abandoned' = abandoned
    BY <2>1 DEF ReplyParsed
  <2>3. QED
    BY <1>2, <1>3, <2>2, ParsedIsAllowed DEF Inv
<1>5. CASE ReplyFreeze(u) \/ ReplyBadRequest(u)
  <2>1. abandoned' = abandoned \cup {u} /\ orderEvents' = orderEvents
    BY <1>5 DEF ReplyFreeze, ReplyBadRequest
  <2>2. QED
    BY <1>2, <1>3, <2>1, DroppingIsAllowed DEF Inv
<1>6. CASE ReplyForbidden(u)
  <2>1. UNCHANGED <<abandoned, orderEvents>>
    BY <1>6 DEF ReplyForbidden
  <2>2. QED
    BY <1>2, <2>1, StutterIsAllowed DEF Inv
<1>7. QED
  BY <1>4, <1>5, <1>6 DEF OnNetworkReply

LEMMA ReturnIsAllowed ==
    Inv /\ CallReturns => [Abstract!Next]_Abstract!vars /\ shared' = {}
<1>0. TypeOK /\ CallReturns => stack # <<>> /\ Top \in Frames /\ Top.uuid \in Uuids
  BY StackTypes DEF TypeOK, CallReturns, ReturnFreeze, ReturnFreezeFail, ReturnPlaced,
     ReturnPlaceError, ReturnKeyError, ReturnRegister, ReturnMethodState
<1> SUFFICES ASSUME Inv, CallReturns,
                    NEW u \in Uuids, NEW base, NEW top \in Frames,
                    top = Top, u = top.uuid, base = Below
             PROVE  [Abstract!Next]_Abstract!vars /\ shared' = {}
  BY <1>0 DEF Inv
<1>1. UNCHANGED <<requests, shared, abandoned, lost, answers>>
  BY DEF CallReturns, ReturnFreeze, ReturnFreezeFail, ReturnPlaced,
         ReturnPlaceError, ReturnKeyError, ReturnRegister, ReturnMethodState,
         ReturnFrame
<1>2. top.at \in {"freezeFail", "placed", "placeError"} => Fresh(u)
  <2>1. FramesTell(stack, u)
    BY DEF Inv, AllStories, Story
  <2>2. Len(stack) \in DOMAIN stack /\ stack[Len(stack)] = top
    <3>1. stack \in Seq(Frames) /\ stack # <<>>
      BY <1>0 DEF Inv, TypeOK
    <3>2. Len(stack) \in Nat \ {0} /\ DOMAIN stack = 1 .. Len(stack)
      BY <3>1, StackTypes, LenProperties
    <3>3. QED
      BY <3>2 DEF Top
  <2>3. FrameStory(top.at, u)
    BY <2>1, <2>2 DEF FramesTell
  <2>4. QED
    BY <2>3 DEF FrameStory
<1>3. CASE ReturnFreeze \/ ReturnKeyError \/ ReturnRegister \/ ReturnMethodState
  <2>1. UNCHANGED orderEvents
    BY <1>3 DEF ReturnFreeze, ReturnKeyError, ReturnRegister, ReturnMethodState
  <2>2. QED
    BY <1>1, <2>1, StutterIsAllowed DEF Inv
<1>4. CASE ReturnFreezeFail
  <2>1. top.at = "freezeFail" /\ OnApiResponseParsed(u, Failure, base)
    BY <1>4 DEF ReturnFreezeFail
  <2>2. Failure \in Parsed /\ Fresh(u)
    BY <1>2, <2>1, FrameTypes
  <2>3. QED
    BY <1>1, <2>1, <2>2, ParsedIsAllowed DEF Inv
<1>5. CASE ReturnPlaced \/ ReturnPlaceError
  <2>1. top.local \in Locals
    BY DEF Frames
  <2>2. /\ top.at \in {"placed", "placeError"}
        /\ \/ UNCHANGED orderEvents
           \/ \E k \in EventKinds : Publish(u, k, top.local)
    BY <1>5 DEF ReturnPlaced, ReturnPlaceError, EventKinds
  <2>3. Fresh(u) /\ Says(u)
    BY <1>2, <2>1, <2>2 DEF Says
  <2>4. QED
    BY <1>1, <2>3, TellingIsAllowed DEF Inv
<1>6. QED
  BY <1>3, <1>4, <1>5 DEF CallReturns

\* A result is published for a request that was pending.
LEMMA AnswerIsAllowed ==
    Inv /\ ProcessAsyncQueueResult => [Abstract!Next]_Abstract!vars /\ shared' = {}
<1>0. TypeOK /\ ProcessAsyncQueueResult => Head(asyncResultsQueue) \in Uuids
  BY OccursInTail DEF TypeOK, ProcessAsyncQueueResult
<1> SUFFICES ASSUME Inv, ProcessAsyncQueueResult,
                    NEW u \in Uuids, u = Head(asyncResultsQueue)
             PROVE  [Abstract!Next]_Abstract!vars /\ shared' = {}
  BY <1>0 DEF Inv
<1>1. /\ UNCHANGED <<requests, abandoned, lost, orderEvents, shared>>
      /\ UNCHANGED answers \/ answers' = [answers EXCEPT ![u] = @ + 1]
      /\ answers \in [Uuids -> Nat]
  BY DEF ProcessAsyncQueueResult, Inv, TypeOK
<1>2. Pending(u)
  <2>1. Occurs(u, asyncResultsQueue)
    BY OccursInTail DEF Inv, TypeOK, ProcessAsyncQueueResult
  <2>2. QED
    BY <2>1 DEF Inv, AllStories, Story
<1>3. CASE UNCHANGED answers
  BY <1>1, <1>3, StutterIsAllowed DEF Inv
<1>4. CASE answers' = [answers EXCEPT ![u] = @ + 1]
  <2>1. answers'[u] > 0 /\ \A v \in Uuids : v # u => answers'[v] = answers[v]
    BY <1>1, <1>4
  <2>2. Phase(u) = "pending" /\ Phase(u)' = "answered"
    BY <1>2, <2>1, PendingPhase DEF Inv, Phase
  <2>3. \A v \in Uuids : v # u => SameForCaller(v) /\ orderEvents'[v] = orderEvents[v]
    BY <1>1, <2>1 DEF SameForCaller, RequestsOf
  <2>4. MovesOn(u)
    BY <1>1, <2>2 DEF MovesOn
  <2>5. QED
    BY <1>1, <2>3, <2>4, MoveIsAllowed DEF Inv
<1>5. QED
  BY <1>1, <1>3, <1>4

\* A process that dies drops every pending request.
LEMMA CrashIsAllowed ==
    Inv /\ (Unfreeze \/ Crash \/ UNCHANGED vars)
        => [Abstract!Next]_Abstract!vars /\ shared' = {}
<1>1. ASSUME Inv, Unfreeze \/ UNCHANGED vars
      PROVE  [Abstract!Next]_Abstract!vars /\ shared' = {}
  <2>1. UNCHANGED <<requests, answers, abandoned, lost, orderEvents, shared>>
    BY <1>1 DEF Unfreeze, vars, code, history
  <2>2. QED
    BY <1>1, <2>1, StutterIsAllowed DEF Inv
<1>2. ASSUME Inv, Crash
      PROVE  [Abstract!Next]_Abstract!vars /\ shared' = {}
  <2>1. /\ UNCHANGED <<requests, answers, abandoned, orderEvents, shared>>
        /\ lost' = lost \cup {v \in Uuids : Accepted(v) /\ answers[v] = 0
                                            /\ v \notin abandoned}
    BY <1>2 DEF Crash
  <2>2. ASSUME NEW v \in Uuids
        PROVE  Phase(v)' = IF Phase(v) = "pending" THEN "dropped" ELSE Phase(v)
    <3>1. Accepted(v)' <=> Accepted(v)
      BY <2>1 DEF Accepted
    <3>2. answers[v] \in Nat
      BY <1>2 DEF Inv, TypeOK
    <3>3. answers[v] = 0 <=> ~(answers[v] > 0)
      BY <3>2
    <3>4. v \in lost' <=> \/ v \in lost
                          \/ Accepted(v) /\ ~(answers[v] > 0) /\ v \notin abandoned
      BY <2>1, <3>3
    <3>5. QED
      BY <2>1, <3>1, <3>4 DEF Phase
  <2>3. phases' = [v \in Uuids |-> IF phases[v] = "pending" THEN "dropped" ELSE phases[v]]
    BY <2>2 DEF phases
  <2>4. announcements' = announcements
    BY <2>1 DEF announcements
  <2>5. Abstract!DropAll
    BY <2>3, <2>4 DEF Abstract!DropAll, phases, announcements
  <2>6. QED
    BY <1>2, <2>1, <2>5 DEF Abstract!Next, Inv
<1>3. QED
  BY <1>1, <1>2

\* If no two calls fall into one millisecond, the client is an implementation
\* of AsyncApi: callers get uuids of their own, one event at most, while the
\* request is open, and the request is closed once.
THEOREM ClientImplementsAsyncApi ==
    ASSUME ~SameMs
    PROVE  Spec => ImplementsAsyncApi
<1> DEFINE NoneShared == shared = {}
<1>1. Init => Abstract!Init /\ NoneShared
  <2> SUFFICES ASSUME Init
               PROVE  Abstract!Init /\ NoneShared
    OBVIOUS
  <2>1. \A v \in Uuids : Phase(v) = "free" /\ Len(orderEvents[v]) = 0
    BY DEF Init, Phase, Accepted
  <2>2. QED
    BY <2>1 DEF Init, Abstract!Init
<1>2. Inv /\ [Next]_vars => [Abstract!Next]_Abstract!vars /\ NoneShared'
  <2>1. Inv /\ Accept => [Abstract!Next]_Abstract!vars /\ shared' = {}
    BY AcceptIsAllowed DEF Accept
  <2>2. Inv /\ UNCHANGED vars => [Abstract!Next]_Abstract!vars /\ shared' = {}
    BY StutterIsAllowed DEF Inv, vars, code, history
  <2>3. QED
    BY <2>1, <2>2, QueueIsAllowed, ReplyIsAllowed, ReturnIsAllowed, AnswerIsAllowed,
       CrashIsAllowed DEF Next
<1>3. TypeOK /\ (Once /\ AllCared /\ AllStories) /\ NoneShared => Inv
  BY DEF Inv
<1> HIDE DEF NoneShared
<1>4. Spec => Abstract!Spec
  BY <1>1, <1>2, <1>3, TypeCorrect, ClientStory, PTL DEF Spec, Abstract!Spec
<1>5. QED
  BY <1>4 DEF ImplementsAsyncApi

-----------------------------------------------------------------------------
(* An order keeps its local id *)

\* Where the entries of a uuid come from.
Origin(v) ==
    asyncDictionary[v] # NoMethod =>
        [uuid |-> v, method |-> asyncDictionary[v], local |-> asyncParams[v]] \in requests
Registrar(v) ==
    registered[v] # NoId =>
        \E p \in requests : /\ p.uuid = v /\ p.local = registered[v]
                            /\ p.method \in {"place", "get"}
IdsKnown ==
    /\ \A q \in requests : q.method = "place" => q.local \in LocalIds
    /\ \A v \in Uuids : Origin(v) /\ Registrar(v)

\* A step that forgets entries, and makes none.
Forgets ==
    /\ UNCHANGED requests
    /\ \A v \in Uuids : /\ registered'[v] \in {registered[v], NoId}
                        /\ \/ asyncDictionary'[v] = NoMethod
                           \/ /\ asyncDictionary'[v] = asyncDictionary[v]
                              /\ asyncParams'[v] = asyncParams[v]

LEMMA ForgettingKnowsIds == IdsKnown /\ Forgets => IdsKnown'
<1> SUFFICES ASSUME IdsKnown, Forgets
             PROVE  IdsKnown'
  OBVIOUS
<1>1. requests' = requests
  BY DEF Forgets
<1>2. ASSUME NEW v \in Uuids
      PROVE  Origin(v)' /\ Registrar(v)'
  <2>1. Origin(v) /\ Registrar(v)
    BY DEF IdsKnown
  <2>2. Origin(v)'
    BY <1>1, <2>1 DEF Origin, Forgets
  <2>3. Registrar(v)'
    BY <1>1, <2>1 DEF Registrar, Forgets
  <2>4. QED
    BY <2>2, <2>3
<1>3. QED
  BY <1>1, <1>2 DEF IdsKnown

\* Every registration is made by a place or a get request of the same uuid.
LEMMA AcceptKnowsIds == TypeOK /\ IdsKnown /\ Accept => IdsKnown'
<1> SUFFICES ASSUME TypeOK, IdsKnown, NEW m \in Methods, NEW l \in Locals,
                    NEW u \in Uuids, CreateAsyncWaiter(m, l, u),
                    m = "place" => l \in LocalIds
             PROVE  IdsKnown'
  BY DEF Accept, Methods, Locals
<1> DEFINE new == [uuid |-> u, method |-> m, local |-> l]
<1>1. /\ requests' = requests \cup {new}
      /\ asyncDictionary' = [asyncDictionary EXCEPT ![u] = m]
      /\ asyncParams' = [asyncParams EXCEPT ![u] = l]
      /\ IF m = "place" THEN RegisterOrder(u, l) ELSE UNCHANGED <<registered, objects>>
  BY DEF CreateAsyncWaiter
<1>2. new \in requests' /\ new.uuid = u /\ new.method = m /\ new.local = l
  BY <1>1
<1>3. \A p \in requests : p \in requests'
  BY <1>1
<1>4. \A q \in requests' : q.method = "place" => q.local \in LocalIds
  BY <1>1, <1>2 DEF IdsKnown
<1>5. ASSUME NEW v \in Uuids
      PROVE  Origin(v)'
  <2>1. CASE v = u
    BY <1>1, <1>2, <2>1 DEF Origin, TypeOK
  <2>2. CASE v # u
    BY <1>1, <1>3, <2>2 DEF Origin, TypeOK, IdsKnown
  <2>3. QED
    BY <2>1, <2>2
<1> HIDE DEF new
<1>6. ASSUME NEW v \in Uuids
      PROVE  Registrar(v)'
  <2>1. CASE registered'[v] = registered[v]
    <3>1. Registrar(v)
      BY DEF IdsKnown
    <3>2. QED
      BY <1>3, <2>1, <3>1 DEF Registrar
  <2>2. CASE v = u /\ m = "place" /\ registered'[v] = l
    BY <1>2, <2>2 DEF Registrar
  <2>3. registered'[v] = registered[v] \/ (v = u /\ m = "place" /\ registered'[v] = l)
    BY <1>1 DEF RegisterOrder, TypeOK
  <2>4. QED
    BY <2>1, <2>2, <2>3
<1>7. QED
  BY <1>4, <1>5, <1>6 DEF IdsKnown

LEMMA QueueKnowsIds == TypeOK /\ IdsKnown /\ ProcessAsyncQueue => IdsKnown'
<1>0. TypeOK /\ ProcessAsyncQueue => Head(asyncQueue) \in Uuids
  BY OccursInTail DEF TypeOK, ProcessAsyncQueue
<1> SUFFICES ASSUME TypeOK, IdsKnown, ProcessAsyncQueue, NEW u \in Uuids,
                    u = Head(asyncQueue)
             PROVE  IdsKnown'
  BY <1>0
<1>1. /\ UNCHANGED <<requests, asyncDictionary, asyncParams>>
      /\ \/ UNCHANGED registered
         \/ /\ asyncDictionary[u] = "get"
            /\ registered' = [registered EXCEPT ![u] = asyncParams[u]]
  BY DEF ProcessAsyncQueue, RegisterOrder
<1>2. CASE UNCHANGED registered
  <2>1. Forgets
    BY <1>1, <1>2 DEF Forgets
  <2>2. QED
    BY <2>1, ForgettingKnowsIds
<1>3. CASE /\ asyncDictionary[u] = "get"
           /\ registered' = [registered EXCEPT ![u] = asyncParams[u]]
  <2>1. [uuid |-> u, method |-> "get", local |-> asyncParams[u]] \in requests
    BY <1>3 DEF IdsKnown, Origin, NoMethod
  <2>2. ASSUME NEW v \in Uuids
        PROVE  Origin(v)' /\ Registrar(v)'
    <3>1. Origin(v) /\ Registrar(v)
      BY DEF IdsKnown
    <3>2. Origin(v)'
      BY <1>1, <3>1 DEF Origin
    <3>3. CASE v = u
      <4>1. registered'[v] = asyncParams[u]
        BY <1>3, <3>3 DEF TypeOK
      <4> DEFINE p == [uuid |-> u, method |-> "get", local |-> asyncParams[u]]
      <4>2. /\ p \in requests' /\ p.uuid = v /\ p.local = registered'[v]
            /\ p.method \in {"place", "get"}
        BY <1>1, <2>1, <3>3, <4>1
      <4> HIDE DEF p
      <4>3. Registrar(v)'
        BY <4>2, Zenon DEF Registrar
      <4>4. QED
        BY <3>2, <4>3
    <3>4. CASE v # u
      <4>1. registered'[v] = registered[v]
        BY <1>3, <3>4 DEF TypeOK
      <4>2. QED
        BY <1>1, <3>1, <3>2, <4>1 DEF Registrar
    <3>5. QED
      BY <3>2, <3>3, <3>4
  <2>3. QED
    BY <1>1, <2>2 DEF IdsKnown
<1>4. QED
  BY <1>1, <1>2, <1>3

\* What a parsed reply of u leaves in the registry of orders.
TakesOnly(u) ==
    /\ \A v \in Uuids : v # u => registered'[v] = registered[v]
    /\ \/ UNCHANGED <<registered, objects>>
       \/ TakeRegisteredOrder(u)

LEMMA ParsedTakes ==
    ASSUME TypeOK, NEW u \in Uuids, NEW r, NEW base, OnApiResponseParsed(u, r, base)
    PROVE  TakesOnly(u) /\ \A v \in Uuids : registered'[v] \in {registered[v], NoId}
<1>1. UNCHANGED <<registered, objects>> \/ TakeRegisteredOrder(u)
  BY Zenon DEF OnApiResponseParsed
<1>2. QED
  BY <1>1 DEF TakeRegisteredOrder, TakesOnly, TypeOK

LEMMA NextKnowsIds == TypeOK /\ IdsKnown /\ [Next]_vars => IdsKnown'
<1> SUFFICES ASSUME TypeOK, IdsKnown, [Next]_vars
             PROVE  IdsKnown'
  OBVIOUS
<1>1. ASSUME NEW u \in Uuids, OnNetworkReply(u)
      PROVE  Forgets
  <2>1. UNCHANGED <<requests, asyncDictionary, asyncParams>>
    BY <1>1 DEF OnNetworkReply, ReplyParsed, ReplyFreeze, ReplyBadRequest,
       ReplyForbidden, TakeReply
  <2>2. \/ UNCHANGED registered
        \/ \E r : OnApiResponseParsed(u, r, stack)
    BY <1>1 DEF OnNetworkReply, ReplyParsed, ReplyFreeze, ReplyBadRequest,
       ReplyForbidden
  <2>3. QED
    BY <2>1, <2>2, ParsedTakes DEF Forgets
<1>2. ASSUME CallReturns
      PROVE  Forgets
  <2>0. stack # <<>> /\ Top.uuid \in Uuids
    BY <1>2, StackTypes DEF TypeOK, CallReturns, ReturnFreeze, ReturnFreezeFail,
       ReturnPlaced, ReturnPlaceError, ReturnKeyError, ReturnRegister,
       ReturnMethodState
  <2>1. ASSUME ReturnFreezeFail
        PROVE  Forgets
    <3>1. /\ UNCHANGED <<requests, asyncDictionary, asyncParams>>
          /\ OnApiResponseParsed(Top.uuid, Failure, Below)
      BY <2>1 DEF ReturnFreezeFail, ReturnFrame
    <3>2. \A v \in Uuids : registered'[v] \in {registered[v], NoId}
      BY <2>0, <3>1, ParsedTakes
    <3>3. QED
      BY <3>1, <3>2 DEF Forgets
  <2>2. ASSUME ReturnMethodState
        PROVE  Forgets
    <3>1. /\ UNCHANGED <<requests, registered>>
          /\ asyncDictionary' = [asyncDictionary EXCEPT ![Top.uuid] = NoMethod]
          /\ asyncParams' = [asyncParams EXCEPT ![Top.uuid] = NoId]
      BY <2>2 DEF ReturnMethodState, ReturnFrame
    <3>2. QED
      BY <2>0, <3>1 DEF Forgets, TypeOK
  <2>3. ASSUME ReturnFreeze \/ ReturnPlaced \/ ReturnPlaceError \/ ReturnKeyError
               \/ ReturnRegister
        PROVE  Forgets
    <3>1. UNCHANGED <<requests, asyncDictionary, asyncParams, registered>>
      BY <2>3 DEF ReturnFreeze, ReturnPlaced, ReturnPlaceError, ReturnKeyError,
         ReturnRegister, ReturnFrame
    <3>2. QED
      BY <3>1 DEF Forgets
  <2>4. QED
    BY <1>2, <2>1, <2>2, <2>3 DEF CallReturns
<1>3. ASSUME ProcessAsyncQueueResult \/ Unfreeze \/ UNCHANGED vars
      PROVE  Forgets
  <2>1. UNCHANGED <<requests, asyncDictionary, asyncParams, registered>>
    BY <1>3 DEF ProcessAsyncQueueResult, Unfreeze, vars, code, history
  <2>2. QED
    BY <2>1 DEF Forgets
<1>4. ASSUME Crash
      PROVE  Forgets
  <2>1. /\ UNCHANGED requests
        /\ asyncDictionary' = [v \in Uuids |-> NoMethod]
        /\ registered' = [v \in Uuids |-> NoId]
    BY <1>4 DEF Crash
  <2>2. QED
    BY <2>1 DEF Forgets
<1>5. QED
  BY <1>1, <1>2, <1>3, <1>4, AcceptKnowsIds, QueueKnowsIds, ForgettingKnowsIds DEF Next

LEMMA InitKnowsIds == Init => IdsKnown
BY DEF Init, IdsKnown, Origin, Registrar

\* A placed order that shares neither its uuid nor its local id.
OwnOrder(q) == q.method = "place" /\ q.uuid \notin shared /\ ~SharesLocal(q)

\* The parser has not asked for the local id of u yet.
Unread(u) ==
    \/ Occurs(u, asyncQueue) \/ inflight[u] > 0
    \/ \E i \in DOMAIN stack : stack[i].uuid = u /\ stack[i].at = "freezeFail"
RegisteredAs(u, l) == registered[u] = l /\ l \in objects
FramesRead(s, u, l) ==
    \A i \in DOMAIN s :
        s[i].uuid = u /\ s[i].at \in {"placed", "placeError"} => s[i].local = l
EventsTell(u, l) == \A i \in DOMAIN orderEvents[u] : orderEvents[u][i].local = l

IdStory(q) ==
    /\ Unread(q.uuid) => RegisteredAs(q.uuid, q.local)
    /\ FramesRead(stack, q.uuid, q.local)
    /\ EventsTell(q.uuid, q.local)
AllIds == \A q \in requests : OwnOrder(q) => IdStory(q)

LEMMA IdsAreKept == AllIds => LocalIdKept
BY Zenon DEF AllIds, IdStory, OwnOrder, EventsTell, LocalIdKept

\* No other uuid is registered under the local id of an own order.
LEMMA OthersIds ==
    ASSUME IdsKnown, NEW q \in requests, OwnOrder(q), NEW v \in Uuids, v # q.uuid
    PROVE  registered[v] # q.local /\ q.local \in LocalIds
<1>1. q.local \in LocalIds /\ q.local # NoId
  BY ConstantsOK DEF IdsKnown, OwnOrder
<1>2. ASSUME registered[v] = q.local
      PROVE  FALSE
  <2>1. PICK p \in requests : /\ p.uuid = v /\ p.local = registered[v]
                              /\ p.method \in {"place", "get"}
    BY <1>1, <1>2 DEF IdsKnown, Registrar
  <2>2. p # q
    BY <2>1
  <2>3. SharesLocal(q)
    BY <1>2, <2>1, <2>2 DEF SharesLocal
  <2>4. QED
    BY <2>3 DEF OwnOrder
<1>3. QED
  BY <1>1, <1>2

LEMMA SameOwnOrders ==
    ASSUME UNCHANGED <<requests, shared>>, NEW q
    PROVE  OwnOrder(q)' <=> OwnOrder(q)
BY DEF OwnOrder, SharesLocal

\* A request that a step is not about.
NotAboutId(q) ==
    /\ Occurs(q.uuid, asyncQueue') => Occurs(q.uuid, asyncQueue)
    /\ inflight'[q.uuid] > 0 => inflight[q.uuid] > 0
    /\ registered'[q.uuid] = registered[q.uuid]
    /\ q.local \in objects => q.local \in objects'
    /\ orderEvents'[q.uuid] = orderEvents[q.uuid]
    /\ SameFrames(stack, stack', q.uuid)

LEMMA NotAboutKeepsId ==
    ASSUME NEW q, IdStory(q), NotAboutId(q)
    PROVE  IdStory(q)'
<1> DEFINE u == q.uuid
           l == q.local
<1>1. Unread(u)' => RegisteredAs(u, l)'
  <2>1. ASSUME NEW i \in DOMAIN stack', stack'[i].uuid = u, stack'[i].at = "freezeFail"
        PROVE  Unread(u)
    BY <2>1, Zenon DEF NotAboutId, SameFrames, Unread
  <2>2. Unread(u)' => Unread(u)
    BY <2>1, Zenon DEF NotAboutId, Unread, Occurs
  <2>3. QED
    BY <2>2, Zenon DEF NotAboutId, IdStory, RegisteredAs
<1>2. FramesRead(stack, u, l)'
  <2>1. ASSUME NEW i \in DOMAIN stack', stack'[i].uuid = u,
               stack'[i].at \in {"placed", "placeError"}
        PROVE  stack'[i].local = l
    <3>1. PICK j \in DOMAIN stack : stack[j] = stack'[i]
      BY <2>1 DEF NotAboutId, SameFrames
    <3>2. QED
      BY <2>1, <3>1 DEF IdStory, FramesRead
  <2>2. QED
    BY <2>1, Zenon DEF FramesRead
<1>3. EventsTell(u, l)'
  BY DEF NotAboutId, IdStory, EventsTell
<1>4. QED
  BY <1>1, <1>2, <1>3, Zenon DEF IdStory

\* The frame a handler of u leaves, and the events it has made.
TellsIdOf(u, base) ==
    /\ \/ stack' = base
       \/ \E f \in Frames :
              /\ f.uuid = u /\ stack' = Append(base, f)
              /\ \A q \in requests : OwnOrder(q) /\ q.uuid = u =>
                     /\ f.at = "freezeFail" => RegisteredAs(u, q.local)'
                     /\ f.at \in {"placed", "placeError"} => f.local = q.local
    /\ \A q \in requests : OwnOrder(q) /\ q.uuid = u => EventsTell(u, q.local)'

\* A step of u leaves the registrations of the others.
RegistersOnly(u) ==
    /\ UNCHANGED <<requests, shared>>
    /\ \A v \in Uuids : v # u =>
           /\ Occurs(v, asyncQueue') => Occurs(v, asyncQueue)
           /\ inflight'[v] > 0 => inflight[v] > 0
           /\ registered'[v] = registered[v]
           /\ orderEvents'[v] = orderEvents[v]
    /\ \/ \A l \in objects : l \in objects'
       \/ objects' = objects \ {registered[u]}

LEMMA HandlerKeepsIds ==
    ASSUME TypeOK, IdsKnown, AllIds, NEW u \in Uuids, NEW base \in Seq(Frames),
           \A v : v # u => SameFrames(stack, base, v),
           RegistersOnly(u), TellsIdOf(u, base),
           u \notin shared => /\ ~Holds(base, u) /\ ~Occurs(u, asyncQueue')
                              /\ ~(inflight'[u] > 0)
    PROVE  AllIds'
<1>1. requests' = requests /\ shared' = shared
  BY DEF RegistersOnly
<1> SUFFICES ASSUME NEW q \in requests, OwnOrder(q)
             PROVE  IdStory(q)'
  BY <1>1, SameOwnOrders DEF AllIds
<1>2. IdStory(q) /\ q.uuid \in Uuids /\ q.uuid \notin shared
  BY DEF AllIds, TypeOK, OwnOrder
<1>3. CASE q.uuid # u
  <2>1. SameFrames(base, stack', q.uuid)
    <3>1. stack' = base \/ \E f \in Frames : f.uuid = u /\ stack' = Append(base, f)
      BY Zenon DEF TellsIdOf
    <3>2. stack' = base => SameFrames(base, stack', q.uuid)
      BY Zenon DEF SameFrames
    <3>3. QED
      BY <1>3, <3>1, <3>2, AppendSameFrames
  <2>2. SameFrames(stack, stack', q.uuid)
    BY <1>3, <2>1, SameFramesTwice
  <2>3. registered[u] # q.local
    BY <1>2, <1>3, OthersIds
  <2>4. q.local \in objects => q.local \in objects'
    BY <2>3 DEF RegistersOnly
  <2>5. NotAboutId(q)
    BY <1>2, <1>3, <2>2, <2>4 DEF NotAboutId, RegistersOnly
  <2>6. QED
    BY <1>2, <2>5, NotAboutKeepsId
<1>4. CASE q.uuid = u
  <2>1. EventsTell(q.uuid, q.local)'
    BY <1>4 DEF TellsIdOf
  <2>2. ~Holds(base, u) /\ ~Occurs(u, asyncQueue)' /\ ~(inflight'[u] > 0)
    <3>1. ~Holds(base, u) /\ ~Occurs(u, asyncQueue') /\ ~(inflight'[u] > 0)
      BY <1>2, <1>4
    <3>2. QED
      BY <3>1 DEF Occurs
  <2>3. CASE stack' = base
    <3>1. \A i \in DOMAIN stack' : stack'[i].uuid # u
      BY <2>2, <2>3 DEF Holds
    <3>2. ~Unread(u)' /\ FramesRead(stack, u, q.local)'
      BY <2>2, <3>1, Zenon DEF Unread, FramesRead
    <3>3. QED
      BY <1>4, <2>1, <3>2 DEF IdStory
  <2>4. CASE \E f \in Frames :
                 /\ f.uuid = u /\ stack' = Append(base, f)
                 /\ \A p \in requests : OwnOrder(p) /\ p.uuid = u =>
                        /\ f.at = "freezeFail" => RegisteredAs(u, p.local)'
                        /\ f.at \in {"placed", "placeError"} => f.local = p.local
    <3>1. PICK f \in Frames :
                 /\ f.uuid = u /\ stack' = Append(base, f)
                 /\ \A p \in requests : OwnOrder(p) /\ p.uuid = u =>
                        /\ f.at = "freezeFail" => RegisteredAs(u, p.local)'
                        /\ f.at \in {"placed", "placeError"} => f.local = p.local
      BY <2>4
    <3>2. \A i \in DOMAIN stack' : stack'[i].uuid = u => stack'[i] = f
      BY <2>2, <3>1, OnlyFrame
    <3>3. Unread(u)' => f.at = "freezeFail"
      BY <2>2, <3>2, Zenon DEF Unread
    <3>4. Unread(u)' => RegisteredAs(u, q.local)'
      BY <1>4, <3>1, <3>3
    <3>5. f.at \in {"placed", "placeError"} => f.local = q.local
      BY <1>4, <3>1
    <3>6. FramesRead(stack, u, q.local)'
      BY <3>2, <3>5, Zenon DEF FramesRead
    <3>7. QED
      BY <1>4, <2>1, <3>4, <3>6 DEF IdStory
  <2>5. QED
    BY <2>3, <2>4 DEF TellsIdOf
<1>5. QED
  BY <1>3, <1>4

\* An event with the same local id as those before.
LEMMA OneMoreEvent ==
    ASSUME TypeOK, NEW u \in Uuids, NEW k \in EventKinds, NEW l \in Locals,
           EventsTell(u, l), Publish(u, k, l)
    PROVE  EventsTell(u, l)'
<1> DEFINE e == [kind |-> k, local |-> l]
<1>1. e \in OrderEvents /\ e.local = l
  BY DEF OrderEvents
<1>2. orderEvents'[u] = Append(orderEvents[u], e) /\ orderEvents[u] \in Seq(OrderEvents)
  BY FirstEvent DEF TypeOK
<1> HIDE DEF e
<1> DEFINE s == orderEvents[u]
<1>3. /\ Len(Append(s, e)) = Len(s) + 1
      /\ \A i \in 1 .. Len(s) : Append(s, e)[i] = s[i]
      /\ Append(s, e)[Len(s) + 1] = e
      /\ Append(s, e) \in Seq(OrderEvents)
  BY <1>1, <1>2, AppendProperties
<1>4. Len(s) \in Nat /\ DOMAIN s = 1 .. Len(s) /\ DOMAIN Append(s, e) = 1 .. Len(s) + 1
  BY <1>2, <1>3, LenProperties
<1>5. \A i \in 1 .. Len(s) + 1 : i \in 1 .. Len(s) \/ i = Len(s) + 1
  BY <1>4
<1>6. \A i \in DOMAIN Append(s, e) : Append(s, e)[i].local = l
  BY <1>1, <1>3, <1>4, <1>5 DEF EventsTell
<1>7. QED
  BY <1>2, <1>6 DEF EventsTell

\* The parser reads the id the order was registered under, and takes it.
LEMMA ParsedIds ==
    ASSUME TypeOK, AllStories, AllIds, NEW u \in Uuids, NEW r \in Parsed, NEW base,
           OnApiResponseParsed(u, r, base), UNCHANGED <<requests, shared>>,
           u \notin shared => asyncs[u] > 0 /\ Fresh(u) /\ Unread(u)
    PROVE  /\ TellsIdOf(u, base)
           /\ \A v \in Uuids : v # u => orderEvents'[v] = orderEvents[v]
<1>1. ASSUME NEW q \in requests, OwnOrder(q), q.uuid = u
      PROVE  /\ asyncDictionary[u] = "place" /\ asyncs[u] # 0
             /\ LocalRead(u) = q.local /\ EventsTell(u, q.local)
  <2>1. u \notin shared /\ IdStory(q) /\ Story(u) /\ asyncs[u] # 0 /\ Unread(u)
    BY <1>1 DEF OwnOrder, AllIds, AllStories
  <2>2. asyncDictionary[u] # NoMethod /\ MethodOf(u) = {asyncDictionary[u]}
    BY <2>1 DEF Fresh, Story, MethodKnown
  <2>3. "place" \in MethodOf(u)
    BY <1>1 DEF MethodOf, OwnOrder
  <2>4. asyncDictionary[u] = "place"
    BY <2>2, <2>3
  <2>5. RegisteredAs(u, q.local) /\ EventsTell(u, q.local)
    BY <1>1, <2>1 DEF IdStory
  <2>6. LocalRead(u) = q.local
    BY <2>4, <2>5 DEF LocalRead, RegisteredAs, RegisteredLocal, OrderMethods
  <2>7. QED
    BY <2>1, <2>4, <2>5, <2>6
<1>2. CASE ParseEnds(u, base)
  BY <1>1, <1>2 DEF ParseEnds, TellsIdOf
<1>3. CASE ParsePlaces(u, base)
  <2>1. PICK f \in Frames : /\ f.uuid = u /\ stack' = Append(base, f)
                            /\ f.at \in {"placed", "placeError"}
                            /\ f.local = LocalRead(u)
    BY <1>3 DEF ParsePlaces
  <2>2. orderEvents' = orderEvents
    BY <1>3 DEF ParsePlaces
  <2>3. \A q \in requests : OwnOrder(q) /\ q.uuid = u =>
            /\ f.at = "freezeFail" => RegisteredAs(u, q.local)'
            /\ f.at \in {"placed", "placeError"} => f.local = q.local
    BY <1>1, <2>1
  <2>4. \A q \in requests : OwnOrder(q) /\ q.uuid = u => EventsTell(u, q.local)'
    BY <1>1, <2>2 DEF EventsTell
  <2>5. TellsIdOf(u, base)
    BY <2>1, <2>3, <2>4, Zenon DEF TellsIdOf
  <2>6. QED
    BY <2>2, <2>5
<1>4. CASE ParseResults(u, base) \/ ParseFails(u, base)
  <2>1. /\ asyncDictionary[u] # "place" /\ Says(u)
        /\ stack' = base \/ \E f \in Frames : f.uuid = u /\ stack' = Append(base, f)
    BY <1>4 DEF ParseResults, ParseFails
  <2>2. \A q \in requests : ~(OwnOrder(q) /\ q.uuid = u)
    BY <1>1, <2>1
  <2>3. TellsIdOf(u, base)
    BY <2>1, <2>2, Zenon DEF TellsIdOf
  <2>4. QED
    BY <2>1, <2>3, SaysOthers
<1>5. QED
  BY <1>2, <1>3, <1>4, ParsedShape

\* A new order is registered under its id, before any other can use it.
LEMMA AcceptKeepsIds ==
    ASSUME TypeOK, Once, AllStories, AllIds, NEW m, NEW l, NEW u \in Uuids,
           CreateAsyncWaiter(m, l, u)
    PROVE  AllIds'
<1> DEFINE new == [uuid |-> u, method |-> m, local |-> l]
<1>1. /\ asyncQueue \in Seq(Uuids) /\ lastUuid \in Nat
      /\ registered \in [Uuids -> Locals] /\ objects \in SUBSET Locals
  BY ConstantsOK DEF TypeOK, Uuids
<1>2. /\ UNCHANGED <<stack, inflight, orderEvents>>
      /\ asyncQueue' = Append(asyncQueue, u)
      /\ requests' = requests \cup {new}
      /\ u = lastUuid + 1 \/ u = lastUuid
      /\ shared' = IF u = lastUuid THEN shared \cup {u} ELSE shared
      /\ IF m = "place" THEN RegisterOrder(u, l) ELSE UNCHANGED <<registered, objects>>
  BY DEF CreateAsyncWaiter
<1>3. new.uuid = u /\ new.method = m /\ new.local = l
  OBVIOUS
<1> HIDE DEF new
<1>4. \A v : Occurs(v, asyncQueue') <=> Occurs(v, asyncQueue) \/ v = u
  BY <1>1, <1>2, OccursInAppend
<1>5. u \notin shared' => u > lastUuid /\ u \notin shared
  BY <1>1, <1>2
<1>6. u \notin shared' => UnusedFrom(u) /\ NewIsSilent(u) /\ ~Accepted(u)
  BY <1>5, OnceSays DEF AllStories, Story, NewIsSilent
<1>7. ASSUME NEW q \in requests', OwnOrder(q)', q \in requests
      PROVE  IdStory(q)'
  <2>1. OwnOrder(q)
    BY <1>2, <1>7 DEF OwnOrder, SharesLocal
  <2>2. q.uuid \in Uuids /\ q.uuid \notin shared'
    BY <1>7 DEF OwnOrder, TypeOK
  <2>3. q.uuid # u
    BY <1>6, <1>7, <2>2 DEF Accepted
  <2>4. registered'[q.uuid] = registered[q.uuid] /\ \A i \in objects : i \in objects'
    BY <1>1, <1>2, <2>2, <2>3 DEF RegisterOrder
  <2>5. NotAboutId(q)
    BY <1>2, <1>4, <2>3, <2>4, SameStack DEF NotAboutId
  <2>6. QED
    BY <1>7, <2>1, <2>5, NotAboutKeepsId DEF AllIds
<1>8. ASSUME OwnOrder(new)'
      PROVE  IdStory(new)'
  <2>1. m = "place" /\ u \notin shared'
    BY <1>3, <1>8 DEF OwnOrder
  <2>2. RegisteredAs(u, l)'
    BY <1>1, <1>2, <2>1 DEF RegisterOrder, RegisteredAs
  <2>3. \A i \in DOMAIN stack' : stack'[i].uuid # u
    BY <1>2, <1>6, <2>1 DEF UnusedFrom, Holds
  <2>4. orderEvents'[u] = <<>> /\ DOMAIN <<>> = {}
    BY <1>2, <1>5, <1>6, <2>1 DEF NewIsSilent
  <2>5. FramesRead(stack, u, l)'
    BY <2>3, Zenon DEF FramesRead
  <2>6. EventsTell(u, l)'
    BY <2>4 DEF EventsTell
  <2>7. QED
    BY <1>3, <2>2, <2>5, <2>6 DEF IdStory
<1>9. QED
  BY <1>2, <1>7, <1>8 DEF AllIds

LEMMA QueueKeepsIds ==
    TypeOK /\ Once /\ AllStories /\ AllIds /\ ProcessAsyncQueue => AllIds'
<1>0. TypeOK /\ ProcessAsyncQueue => Head(asyncQueue) \in Uuids
  BY OccursInTail DEF TypeOK, ProcessAsyncQueue
<1> SUFFICES ASSUME TypeOK, Once, AllStories, AllIds, ProcessAsyncQueue,
                    NEW u \in Uuids, u = Head(asyncQueue)
             PROVE  AllIds'
  BY <1>0
<1>1. /\ asyncQueue \in Seq(Uuids) /\ asyncQueue # <<>>
      /\ registered \in [Uuids -> Locals] /\ inflight \in [Uuids -> Nat]
  BY DEF ProcessAsyncQueue, TypeOK
<1>2. /\ UNCHANGED <<stack, requests, shared, orderEvents>>
      /\ asyncQueue' = Tail(asyncQueue)
      /\ inflight' = inflight \/ inflight' = [inflight EXCEPT ![u] = @ + 1]
      /\ \/ UNCHANGED <<registered, objects>>
         \/ asyncDictionary[u] = "get" /\ RegisterOrder(u, asyncParams[u])
  BY DEF ProcessAsyncQueue, Dequeue
<1>3. /\ Occurs(u, asyncQueue)
      /\ \A v : Occurs(v, asyncQueue') => Occurs(v, asyncQueue)
  BY <1>1, <1>2, OccursInTail
<1>4. /\ \A v \in Uuids : v # u => /\ registered'[v] = registered[v]
                                  /\ inflight'[v] = inflight[v]
      /\ \A l \in objects : l \in objects'
  BY <1>1, <1>2 DEF RegisterOrder
<1> SUFFICES ASSUME NEW q \in requests, OwnOrder(q)
             PROVE  IdStory(q)'
  BY <1>2, SameOwnOrders DEF AllIds
<1>5. q.uuid \in Uuids /\ q.uuid \notin shared /\ IdStory(q) /\ q.method = "place"
  BY DEF TypeOK, OwnOrder, AllIds
<1>6. CASE q.uuid # u
  <2>1. NotAboutId(q)
    BY <1>2, <1>3, <1>4, <1>5, <1>6, SameStack DEF NotAboutId
  <2>2. QED
    BY <1>5, <2>1, NotAboutKeepsId
<1>7. CASE q.uuid = u
  <2>1. Story(u) /\ Unread(u)
    BY <1>3, <1>5, <1>7 DEF AllStories, Unread
  <2>2. "place" \in MethodOf(u)
    BY <1>5, <1>7 DEF MethodOf
  <2>3. asyncDictionary[u] # "get"
    BY <2>1, <2>2 DEF Story, MethodKnown, NoMethod
  <2>4. RegisteredAs(u, q.local)'
    BY <1>2, <1>5, <1>7, <2>1, <2>3 DEF IdStory, RegisteredAs
  <2>5. FramesRead(stack, u, q.local)'
    BY <1>2, <1>5, <1>7 DEF IdStory, FramesRead
  <2>6. EventsTell(u, q.local)'
    BY <1>2, <1>5, <1>7 DEF IdStory, EventsTell
  <2>7. QED
    BY <1>7, <2>4, <2>5, <2>6, Zenon DEF IdStory
<1>8. QED
  BY <1>6, <1>7

LEMMA RepliesKeepIds ==
    ASSUME TypeOK, Once, AllCared, AllStories, IdsKnown, AllIds, NEW u \in Uuids,
           OnNetworkReply(u)
    PROVE  AllIds'
<1>1. /\ inflight \in [Uuids -> Nat] /\ stack \in Seq(Frames)
  BY DEF TypeOK
<1>2. TakeReply(u)
  BY DEF OnNetworkReply, ReplyParsed, ReplyFreeze, ReplyBadRequest, ReplyForbidden
<1>3. /\ UNCHANGED <<asyncQueue, requests, shared>>
      /\ inflight[u] > 0
      /\ inflight' = [inflight EXCEPT ![u] = @ - 1]
  BY <1>2 DEF TakeReply
<1>4. ASSUME u \notin shared
      PROVE  /\ ~Holds(stack, u) /\ ~Occurs(u, asyncQueue') /\ ~(inflight'[u] > 0)
             /\ asyncs[u] > 0 /\ Fresh(u) /\ Unread(u)
  <2>1. PlaceOf(u) /\ Cared(u) /\ Story(u)
    BY <1>4, OnceSays DEF AllCared, AllStories
  <2>2. inflight[u] = 1 /\ inflight'[u] = 0
    BY <1>1, <1>3, <2>1 DEF PlaceOf
  <2>3. QED
    BY <1>3, <2>1, <2>2 DEF PlaceOf, Cared, EntriesKnown, Story, Unread
<1>5. ASSUME NEW q \in requests, OwnOrder(q), q.uuid = u
      PROVE  RegisteredAs(u, q.local) /\ EventsTell(u, q.local)
  BY <1>4, <1>5 DEF AllIds, OwnOrder, IdStory
<1>6. UNCHANGED orderEvents =>
          \A q \in requests : OwnOrder(q) /\ q.uuid = u => EventsTell(u, q.local)'
  BY <1>5 DEF EventsTell
<1>7. \A v \in Uuids : v # u => inflight'[v] = inflight[v]
  BY <1>1, <1>3
<1>8. /\ TellsIdOf(u, stack) /\ TakesOnly(u)
      /\ \A v \in Uuids : v # u => orderEvents'[v] = orderEvents[v]
  <2>1. ASSUME NEW r \in Parsed, ReplyParsed(u, r)
        PROVE  /\ TellsIdOf(u, stack) /\ TakesOnly(u)
               /\ \A v \in Uuids : v # u => orderEvents'[v] = orderEvents[v]
    <3>1. OnApiResponseParsed(u, r, stack)
      BY <2>1 DEF ReplyParsed
    <3>2. QED
      BY <1>3, <1>4, <3>1, ParsedIds, ParsedTakes
  <2>2. ASSUME ReplyFreeze(u) \/ ReplyForbidden(u) \/ ReplyBadRequest(u)
        PROVE  /\ TellsIdOf(u, stack) /\ TakesOnly(u)
               /\ \A v \in Uuids : v # u => orderEvents'[v] = orderEvents[v]
    <3>1. /\ UNCHANGED <<registered, objects, orderEvents>>
          /\ \/ stack' = stack
             \/ stack' = Append(stack, Frame("freeze", u))
             \/ stack' = Append(stack, Frame("freezeFail", u))
      BY <2>2 DEF ReplyFreeze, ReplyForbidden, ReplyBadRequest
    <3>2. \A p \in {"freeze", "freezeFail"} :
              Frame(p, u) \in Frames /\ Frame(p, u).uuid = u /\ Frame(p, u).at = p
      BY FrameTypes DEF Points, Frame, OrderFrame
    <3>3. \A q \in requests : OwnOrder(q) /\ q.uuid = u => RegisteredAs(u, q.local)'
      BY <1>5, <3>1 DEF RegisteredAs
    <3>4. ASSUME NEW p \in {"freeze", "freezeFail"}, stack' = Append(stack, Frame(p, u))
          PROVE  TellsIdOf(u, stack)
      <4>1. PICK f \in Frames : f = Frame(p, u)
        BY <3>2
      <4>2. /\ f.uuid = u /\ stack' = Append(stack, f)
            /\ f.at \notin {"placed", "placeError"}
        BY <3>2, <3>4, <4>1
      <4>3. QED
        BY <1>6, <3>1, <3>3, <4>2, Zenon DEF TellsIdOf
    <3>5. stack' = stack => TellsIdOf(u, stack)
      BY <1>6, <3>1, Zenon DEF TellsIdOf
    <3>6. TellsIdOf(u, stack)
      BY <3>1, <3>4, <3>5
    <3>7. QED
      BY <3>1, <3>6 DEF TakesOnly
  <2>3. QED
    BY <2>1, <2>2 DEF OnNetworkReply
<1>9. RegistersOnly(u)
  <2>1. (\A l \in objects : l \in objects') \/ objects' = objects \ {registered[u]}
    BY <1>8 DEF TakesOnly, TakeRegisteredOrder
  <2>2. QED
    BY <1>3, <1>7, <1>8, <2>1 DEF RegistersOnly, TakesOnly
<1>10. QED
  BY <1>1, <1>4, <1>8, <1>9, SameStack, HandlerKeepsIds

\* A handler that returns tells the id its frame has kept.
LEMMA ReturnsKeepIds ==
    TypeOK /\ Once /\ AllCared /\ AllStories /\ IdsKnown /\ AllIds /\ CallReturns => AllIds'
<1>0. TypeOK /\ CallReturns => stack # <<>> /\ Top \in Frames /\ Top.uuid \in Uuids
  BY StackTypes DEF TypeOK, CallReturns, ReturnFreeze, ReturnFreezeFail, ReturnPlaced,
     ReturnPlaceError, ReturnKeyError, ReturnRegister, ReturnMethodState
<1> SUFFICES ASSUME TypeOK, Once, AllCared, AllStories, IdsKnown, AllIds, CallReturns,
                    NEW u \in Uuids, NEW base, NEW top \in Frames,
                    top = Top, u = top.uuid, base = Below
             PROVE  AllIds'
  BY <1>0
<1>1. stack \in Seq(Frames) /\ stack # <<>>
  BY <1>0 DEF TypeOK
<1>2. /\ base \in Seq(Frames) /\ Holds(stack, u)
      /\ u \notin shared => ~Holds(base, u)
  BY <1>1, HoldsBelow, OnceSays
<1>3. \A v : v # u => SameFrames(stack, base, v)
  BY <1>1, BelowSameFrames
<1>4. UNCHANGED <<asyncQueue, inflight, requests, shared>>
  BY DEF CallReturns, ReturnFreeze, ReturnFreezeFail, ReturnPlaced,
         ReturnPlaceError, ReturnKeyError, ReturnRegister, ReturnMethodState,
         ReturnFrame
<1>5. Len(stack) \in DOMAIN stack /\ stack[Len(stack)] = top
  <2>1. Len(stack) \in Nat \ {0} /\ DOMAIN stack = 1 .. Len(stack)
    BY <1>1, StackTypes, LenProperties
  <2>2. QED
    BY <2>1 DEF Top
<1>6. ASSUME u \notin shared
      PROVE  /\ ~Occurs(u, asyncQueue') /\ ~(inflight'[u] > 0)
             /\ top.at # "methodState" => asyncs[u] > 0
             /\ FrameStory(top.at, u)
  <2>1. PlaceOf(u) /\ FramesKnown(stack, u) /\ FramesTell(stack, u)
    BY <1>6, OnceSays DEF AllCared, Cared, EntriesKnown, AllStories, Story
  <2>2. QED
    BY <1>2, <1>4, <1>5, <2>1, Zenon DEF PlaceOf, FramesKnown, FramesTell
<1>7. ASSUME NEW q \in requests, OwnOrder(q), q.uuid = u
      PROVE  /\ EventsTell(u, q.local) /\ q.local \in Locals
             /\ top.at \in {"placed", "placeError"} => top.local = q.local
  <2>1. IdStory(q)
    BY <1>7 DEF AllIds
  <2>2. EventsTell(u, q.local) /\ FramesRead(stack, u, q.local)
    BY <1>7, <2>1 DEF IdStory
  <2>3. QED
    BY <1>5, <2>2 DEF FramesRead, TypeOK
<1>8. UNCHANGED orderEvents =>
          \A q \in requests : OwnOrder(q) /\ q.uuid = u => EventsTell(u, q.local)'
  BY <1>7 DEF EventsTell
<1>9. ASSUME NEW k \in EventKinds, Publish(u, k, top.local),
             top.at \in {"placed", "placeError"}
      PROVE  /\ \A q \in requests : OwnOrder(q) /\ q.uuid = u => EventsTell(u, q.local)'
             /\ \A v \in Uuids : v # u => orderEvents'[v] = orderEvents[v]
  <2>1. top.local \in Locals
    BY DEF Frames
  <2>2. QED
    BY <1>7, <1>9, <2>1, OneMoreEvent, FirstEvent
<1> DEFINE Goal == /\ TellsIdOf(u, base) /\ TakesOnly(u)
                   /\ \A v \in Uuids : v # u => orderEvents'[v] = orderEvents[v]
<1>10. ASSUME UNCHANGED <<registered, objects>>
       PROVE  TakesOnly(u)
  BY <1>10 DEF TakesOnly
<1>11. Goal
  <2>1. ASSUME ReturnFreezeFail
        PROVE  Goal
    <3>1. top.at = "freezeFail" /\ OnApiResponseParsed(u, Failure, base)
      BY <2>1 DEF ReturnFreezeFail
    <3>2. Unread(u)
      BY <1>5, <3>1, Zenon DEF Unread
    <3>3. u \notin shared => asyncs[u] > 0 /\ Fresh(u) /\ Unread(u)
      BY <1>6, <3>1, <3>2 DEF FrameStory
    <3>4. Failure \in Parsed
      BY FrameTypes
    <3>5. QED
      BY <1>4, <3>1, <3>3, <3>4, ParsedIds, ParsedTakes
  <2>2. ASSUME ReturnPlaced
        PROVE  Goal
    <3>1. /\ top.at = "placed" /\ stack' = base /\ UNCHANGED <<registered, objects>>
          /\ \/ UNCHANGED orderEvents
             \/ \E k \in EventKinds : Publish(u, k, top.local)
      BY <2>2 DEF ReturnPlaced, EventKinds
    <3>2. /\ \A q \in requests : OwnOrder(q) /\ q.uuid = u => EventsTell(u, q.local)'
          /\ \A v \in Uuids : v # u => orderEvents'[v] = orderEvents[v]
      BY <1>8, <1>9, <3>1
    <3>3. TellsIdOf(u, base)
      BY <3>1, <3>2, Zenon DEF TellsIdOf
    <3>4. QED
      BY <1>10, <3>1, <3>2, <3>3
  <2>3. ASSUME ReturnPlaceError
        PROVE  Goal
    <3>1. /\ top.at = "placeError" /\ UNCHANGED <<registered, objects>>
          /\ Publish(u, "ERROR", top.local)
          /\ stack' = Append(base, FailureFrame(u, top.reply))
      BY <2>3 DEF ReturnPlaceError
    <3>2. top.reply \in Parsed /\ "ERROR" \in EventKinds
      BY DEF Frames, EventKinds
    <3>3. FailureFrame(u, top.reply) \in Frames
      BY <3>2, FrameTypes
    <3>4. /\ FailureFrame(u, top.reply).uuid = u
          /\ FailureFrame(u, top.reply).at \in {"keyError", "register"}
      BY DEF FailureFrame, Frame, OrderFrame
    <3>5. PICK f \in Frames : /\ f.uuid = u /\ stack' = Append(base, f)
                              /\ f.at \in {"keyError", "register"}
      BY <3>1, <3>3, <3>4
    <3>6. f.at \notin {"freezeFail", "placed", "placeError"}
      BY <3>5
    <3>7. /\ \A q \in requests : OwnOrder(q) /\ q.uuid = u => EventsTell(u, q.local)'
          /\ \A v \in Uuids : v # u => orderEvents'[v] = orderEvents[v]
      BY <1>9, <3>1, <3>2
    <3>8. TellsIdOf(u, base)
      BY <3>5, <3>6, <3>7 DEF TellsIdOf
    <3>9. QED
      BY <1>10, <3>1, <3>7, <3>8
  <2>4. ASSUME ReturnKeyError
        PROVE  Goal
    <3>1. /\ UNCHANGED <<registered, objects, orderEvents>>
          /\ stack' = Append(base, [top EXCEPT !.at = "register"])
      BY <2>4 DEF ReturnKeyError
    <3>2. PICK f \in Frames : f = [top EXCEPT !.at = "register"]
      BY DEF Frames, Points
    <3>3. f.uuid = u /\ f.at = "register"
      BY <3>2 DEF Frames
    <3>4. TellsIdOf(u, base)
      BY <1>8, <3>1, <3>2, <3>3 DEF TellsIdOf
    <3>5. QED
      BY <1>10, <3>1, <3>4
  <2>5. ASSUME ReturnFreeze \/ ReturnRegister \/ ReturnMethodState
        PROVE  Goal
    <3>1. UNCHANGED <<registered, objects, orderEvents>> /\ stack' = base
      BY <2>5 DEF ReturnFreeze, ReturnRegister, ReturnMethodState
    <3>2. TellsIdOf(u, base)
      BY <1>8, <3>1, Zenon DEF TellsIdOf
    <3>3. QED
      BY <1>10, <3>1, <3>2
  <2>6. QED
    BY <2>1, <2>2, <2>3, <2>4, <2>5 DEF CallReturns
<1>12. RegistersOnly(u)
  <2>1. (\A l \in objects : l \in objects') \/ objects' = objects \ {registered[u]}
    BY <1>11 DEF TakesOnly, TakeRegisteredOrder
  <2>2. QED
    BY <1>4, <1>11, <2>1 DEF RegistersOnly, TakesOnly
<1>13. QED
  BY <1>2, <1>3, <1>6, <1>11, <1>12, HandlerKeepsIds

LEMMA QueueResultKeepsIds ==
    TypeOK /\ Once /\ IdsKnown /\ AllIds /\ ProcessAsyncQueueResult => AllIds'
<1>0. TypeOK /\ ProcessAsyncQueueResult => Head(asyncResultsQueue) \in Uuids
  BY OccursInTail DEF TypeOK, ProcessAsyncQueueResult
<1> SUFFICES ASSUME TypeOK, Once, IdsKnown, AllIds, ProcessAsyncQueueResult,
                    NEW u \in Uuids, u = Head(asyncResultsQueue)
             PROVE  AllIds'
  BY <1>0
<1> DEFINE f == Frame("methodState", u)
<1>1. /\ asyncResultsQueue \in Seq(Uuids) /\ asyncResultsQueue # <<>>
      /\ stack \in Seq(Frames)
  BY DEF ProcessAsyncQueueResult, TypeOK
<1>2. /\ UNCHANGED <<asyncQueue, inflight, registered, objects, requests, shared,
                     orderEvents>>
      /\ stack' = stack \/ stack' = Append(stack, f)
  BY DEF ProcessAsyncQueueResult
<1>3. f \in Frames /\ f.uuid = u /\ f.at = "methodState"
  BY FrameTypes DEF Points, Frame, OrderFrame
<1> HIDE DEF f
<1>4. ASSUME u \notin shared
      PROVE  ~Holds(stack, u) /\ ~Occurs(u, asyncQueue') /\ ~(inflight'[u] > 0)
  <2>1. Occurs(u, asyncResultsQueue)
    BY <1>1, OccursInTail
  <2>2. QED
    BY <1>2, <1>4, <2>1, OnceSays DEF PlaceOf
<1>5. \A q \in requests : OwnOrder(q) /\ q.uuid = u => EventsTell(u, q.local)'
  BY <1>2 DEF AllIds, IdStory, EventsTell
<1>6. TellsIdOf(u, stack)
  BY <1>2, <1>3, <1>5 DEF TellsIdOf
<1>7. RegistersOnly(u)
  BY <1>2 DEF RegistersOnly
<1>8. QED
  BY <1>1, <1>4, <1>6, <1>7, SameStack, HandlerKeepsIds

LEMMA TimersKeepIds ==
    TypeOK /\ AllIds /\ (Unfreeze \/ Crash \/ UNCHANGED vars) => AllIds'
<1>1. ASSUME AllIds, Unfreeze \/ UNCHANGED vars
      PROVE  AllIds'
  <2>1. UNCHANGED <<asyncQueue, inflight, registered, objects, stack, requests,
                    shared, orderEvents>>
    BY <1>1 DEF Unfreeze, vars, code, history
  <2>2. \A q : NotAboutId(q)
    BY <2>1, SameStack DEF NotAboutId
  <2>3. QED
    BY <1>1, <2>1, <2>2, SameOwnOrders, NotAboutKeepsId DEF AllIds
<1>2. ASSUME TypeOK, AllIds, Crash, NEW q \in requests, OwnOrder(q)
      PROVE  IdStory(q)'
  <2>1. /\ asyncQueue' = <<>> /\ stack' = <<>> /\ inflight' = [v \in Uuids |-> 0]
        /\ UNCHANGED orderEvents
    BY <1>2 DEF Crash
  <2>2. DOMAIN <<>> = {}
    OBVIOUS
  <2>3. ~(inflight'[q.uuid] > 0)
    BY <1>2, <2>1 DEF TypeOK
  <2>4. ~Unread(q.uuid)' /\ FramesRead(stack, q.uuid, q.local)'
    BY <2>1, <2>2, <2>3, Zenon DEF Unread, FramesRead, Occurs
  <2>5. EventsTell(q.uuid, q.local)'
    BY <1>2, <2>1 DEF AllIds, IdStory, EventsTell
  <2>6. QED
    BY <2>4, <2>5, Zenon DEF IdStory
<1>3. Crash => UNCHANGED <<requests, shared>>
  BY DEF Crash
<1>4. QED
  BY <1>1, <1>2, <1>3, SameOwnOrders DEF AllIds

LEMMA NextKeepsIds ==
    TypeOK /\ (Once /\ AllCared /\ AllStories) /\ IdsKnown /\ AllIds /\ [Next]_vars
        => AllIds'
<1>1. TypeOK /\ Once /\ AllStories /\ AllIds /\ Accept => AllIds'
  BY AcceptKeepsIds DEF Accept
<1>2. QED
  BY <1>1, QueueKeepsIds, RepliesKeepIds, ReturnsKeepIds, QueueResultKeepsIds,
     TimersKeepIds DEF Next

LEMMA InitKeepsIds == Init => AllIds
BY DEF Init, AllIds

\* Whatever the others register, an order that shares neither uuid nor local
\* id is announced under the id its caller gave.
THEOREM OrdersKeepTheirIds == Spec => []LocalIdKept
<1>1. Spec => []IdsKnown
  BY InitKnowsIds, NextKnowsIds, TypeCorrect, PTL DEF Spec
<1>2. Spec => []AllIds
  BY <1>1, InitKeepsIds, NextKeepsIds, ClientStory, TypeCorrect, PTL DEF Spec
<1>3. QED
  BY <1>2, IdsAreKept, PTL
=============================================================================
