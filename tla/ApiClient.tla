------------------------------ MODULE ApiClient ------------------------------
(***************************************************************************)
(* SwiftApiClient: the process that talks to one exchange.  A WAMP call    *)
(* registers a request and returns its uuid; a 250 ms timer takes one      *)
(* request per tick from asyncQueue and sends it over HTTP; the reply is   *)
(* parsed, announced on the order feed if it is about an order, and queued *)
(* as a result; the same timer publishes one result per tick.              *)
(*                                                                         *)
(* The process has one thread, but Session::call runs the event loop until *)
(* the router answers.  Every handler that calls the session (addLog,      *)
(* addError, methodState, the user notices) is therefore cut in two: the   *)
(* part before the call leaves a frame on `stack`, other handlers may run, *)
(* and the part after it runs when the frame is on top again.              *)
(***************************************************************************)
EXTENDS Naturals, Sequences, FiniteSets

CONSTANTS
    LocalIds,     \* the local ids callers give to orders
    NoId,         \* the empty local id: QString()
    Callable,     \* the methods callers use
    MaxUuid,      \* bound: how many uuids the process hands out
    MaxDepth,     \* bound: how deep event loops nest
    MaxTimers,    \* bound: how many unfreeze timers are pending
    MaxCrashes,   \* bound: how often the process dies
    SameMs        \* whether two calls may fall into the same millisecond

ASSUME ConstantsOK ==
    /\ NoId \notin LocalIds
    /\ Callable \subseteq {"place", "cancel", "get", "feed"}
    /\ MaxUuid \in Nat /\ MaxDepth \in Nat /\ MaxTimers \in Nat
    /\ MaxCrashes \in Nat
    /\ SameMs \in BOOLEAN

Uuids    == 1 .. MaxUuid
Locals   == LocalIds \cup {NoId}

\* "feed" stands for the methods whose reply is a list (balances, open
\* orders, trade history, deposits, withdrawals).
Methods  == {"place", "cancel", "get", "feed"}
OrderMethods == {"place", "cancel", "get"}
NoMethod == "none"

\* What the parser makes of a 200/201 reply.  Status 3 stands for every order
\* status that is neither 1 (open) nor 2 (done).
Parsed == [success : {TRUE}, status : 1 .. 3, key : {FALSE}]
            \cup [success : {FALSE}, status : {3}, key : BOOLEAN]
Failure == [success |-> FALSE, status |-> 3, key |-> FALSE]

EventKinds == {"PLACED", "COMPLETED", "UPDATED", "CANCELED", "ERROR"}
OrderEvents == [kind : EventKinds, local : Locals]

\* Where a handler waits for Session::call to return.
Points == {"freeze", "freezeFail", "placed", "placeError", "keyError",
           "register", "methodState"}
Frames == [at : Points, uuid : Uuids, reply : Parsed, local : Locals]

VARIABLES
    lastUuid,         \* _uuids_counter, as the rank of the last uuid it gave
    asyncs,           \* _asyncs: how often the list holds each uuid
    asyncDictionary,  \* _async_dictionary
    asyncParams,      \* _async_params: the local id among the parameters
    asyncQueue,       \* _async_queue
    asyncResults,     \* _async_results: "none", or the result's success
    asyncResultsQueue,\* _async_results_queue
    registered,       \* _regitered_orders
    objects,          \* the keys of _regitered_orders_objects
    requestPause,     \* request_pause
    unfreezes,        \* pending single shot timers that call unfreeze
    stack,            \* handlers waiting in a nested event loop, top last
    inflight          \* HTTP requests without a reply, per uuid

\* History, for the properties only.
VARIABLES
    requests,         \* every accepted request
    shared,           \* uuids given to more than one request
    sends,            \* HTTP requests sent, per uuid
    orderEvents,      \* events published on the order feed, per uuid
    answers,          \* results published, per uuid
    abandoned,        \* uuids whose request the code forgot to answer
    lost,             \* uuids whose request died with the process
    keyPause,         \* the pause in force was set for a bad API key
    crashes

code == <<lastUuid, asyncs, asyncDictionary, asyncParams, asyncQueue,
          asyncResults, asyncResultsQueue, registered, objects, requestPause,
          unfreezes, stack, inflight>>
history == <<requests, shared, sends, orderEvents, answers, abandoned, lost,
             keyPause, crashes>>
vars == <<code, history>>

Init ==
    /\ lastUuid = 0
    /\ asyncs = [u \in Uuids |-> 0]
    /\ asyncDictionary = [u \in Uuids |-> NoMethod]
    /\ asyncParams = [u \in Uuids |-> NoId]
    /\ asyncQueue = <<>>
    /\ asyncResults = [u \in Uuids |-> "none"]
    /\ asyncResultsQueue = <<>>
    /\ registered = [u \in Uuids |-> NoId]
    /\ objects = {}
    /\ requestPause = FALSE
    /\ unfreezes = 0
    /\ stack = <<>>
    /\ inflight = [u \in Uuids |-> 0]
    /\ requests = {}
    /\ shared = {}
    /\ sends = [u \in Uuids |-> 0]
    /\ orderEvents = [u \in Uuids |-> <<>>]
    /\ answers = [u \in Uuids |-> 0]
    /\ abandoned = {}
    /\ lost = {}
    /\ keyPause = FALSE
    /\ crashes = 0

-----------------------------------------------------------------------------
(* Helpers *)

\* registerOrder: remember the order's parameters under its local id.
RegisterOrder(u, l) ==
    /\ registered' = [registered EXCEPT ![u] = l]
    /\ objects' = objects \cup {l}

\* A bug that could be: the order registered last, not the one of this uuid.
RegisteredLocalLast(u) ==
    LET last == registered[lastUuid] IN IF last \in objects THEN last ELSE NoId

\* getRegisteredOrder: take() both entries; an absent object reads as empty.
RegisteredLocal(u) == IF registered[u] \in objects THEN registered[u] ELSE NoId
TakeRegisteredOrder(u) ==
    /\ registered' = [registered EXCEPT ![u] = NoId]
    /\ objects' = objects \ {registered[u]}

\* session->publish("swift.orders.feed.events", {kind, result}).
Publish(u, k, l) ==
    orderEvents' = [orderEvents EXCEPT ![u] = Append(@, [kind |-> k, local |-> l])]

\* registerAsyncResult: store the result and queue its uuid.
RegisterAsyncResult(u, ok) ==
    /\ asyncResults' = [asyncResults EXCEPT ![u] = IF ok THEN "ok" ELSE "fail"]
    /\ asyncResultsQueue' = Append(asyncResultsQueue, u)

Top == stack[Len(stack)]
Below == SubSeq(stack, 1, Len(stack) - 1)
\* A frame keeps the captured values its handler still needs.
OrderFrame(p, u, r, l) == [at |-> p, uuid |-> u, reply |-> r, local |-> l]
Frame(p, u) == OrderFrame(p, u, Failure, NoId)

\* A failed reply ends in addError, after a user notice if the key is bad.
FailureFrame(u, r) == Frame(IF r.key THEN "keyError" ELSE "register", u)

\* A timer is not delivered again while its own slot is running.
QueuesTimerIdle == \A i \in DOMAIN stack : stack[i].at # "methodState"
Room == Len(stack) < MaxDepth

-----------------------------------------------------------------------------
(* Requests *)

\* The RPC handler and createAsyncWaiter.  A call made while request_pause is
\* set is refused with 0 and changes nothing.  getNextUuid gives a new uuid,
\* or repeats the last one for a second call in the same millisecond (see
\* AsyncUuid; a third call would repeat it again).
CreateAsyncWaiter(m, l, u) ==
    /\ ~requestPause
    /\ m \in Callable
    /\ \/ u = lastUuid + 1
       \/ SameMs /\ u = lastUuid /\ u \notin shared /\ asyncs[u] = 1
    /\ lastUuid' = u
    /\ asyncs' = [asyncs EXCEPT ![u] = @ + 1]
    /\ asyncDictionary' = [asyncDictionary EXCEPT ![u] = m]
    /\ IF m = "place" THEN RegisterOrder(u, l)
                      ELSE UNCHANGED <<registered, objects>>
    /\ asyncParams' = [asyncParams EXCEPT ![u] = l]
    /\ asyncQueue' = Append(asyncQueue, u)
    /\ requests' = requests \cup {[uuid |-> u, method |-> m, local |-> l]}
    /\ shared' = IF u = lastUuid THEN shared \cup {u} ELSE shared
    /\ UNCHANGED <<asyncResults, asyncResultsQueue, requestPause, unfreezes,
                   stack, inflight, sends, orderEvents, answers, abandoned,
                   lost, keyPause, crashes>>

\* Orders are placed and read under a local id; the other methods have none.
Accept ==
    \/ \E l \in LocalIds, m \in {"place", "get"}, u \in Uuids :
           CreateAsyncWaiter(m, l, u)
    \/ \E m \in {"cancel", "feed"}, u \in Uuids :
           CreateAsyncWaiter(m, NoId, u)

\* A bug that could be: the queue is read with first() and never shortened.
DequeueReadsOnly == UNCHANGED asyncQueue

\* _async_queue.dequeue()
Dequeue == asyncQueue' = Tail(asyncQueue)

\* processAsyncQueue hands the oldest request to the exchange's client, which
\* sends it, answers it at once (a constant result, a parameter it refuses,
\* unrealizedMethod), or does nothing at all (a method with an empty body, a
\* method processAsyncQueue has no branch for).
ProcessAsyncQueue ==
    /\ QueuesTimerIdle
    /\ asyncQueue # <<>> /\ ~requestPause
    /\ Dequeue
    /\ LET u == Head(asyncQueue) IN
       \/ /\ asyncDictionary[u] = NoMethod
          /\ UNCHANGED <<registered, objects, inflight, sends, asyncResults,
                         asyncResultsQueue, abandoned>>
       \/ /\ asyncDictionary[u] # NoMethod
          /\ IF asyncDictionary[u] = "get"
                THEN RegisterOrder(u, asyncParams[u])
                ELSE UNCHANGED <<registered, objects>>
          /\ \/ /\ inflight' = [inflight EXCEPT ![u] = @ + 1]
                /\ sends' = [sends EXCEPT ![u] = @ + 1]
                /\ UNCHANGED <<asyncResults, asyncResultsQueue, abandoned>>
             \/ /\ \E ok \in BOOLEAN : RegisterAsyncResult(u, ok)
                /\ UNCHANGED <<inflight, sends, abandoned>>
             \/ /\ abandoned' = abandoned \cup {u}
                /\ UNCHANGED <<inflight, sends, asyncResults,
                               asyncResultsQueue>>
    /\ UNCHANGED <<lastUuid, asyncs, asyncDictionary, asyncParams,
                   requestPause, unfreezes, stack, requests, shared,
                   orderEvents, answers, lost, keyPause, crashes>>

-----------------------------------------------------------------------------
(* Replies *)

\* onApiResponseParsed up to its first call of the session.  `base` is the
\* stack it runs on.
OnApiResponseParsed(u, r, base) ==
    LET m == asyncDictionary[u]
        isOrder == m \in OrderMethods /\ registered[u] # NoId
        l == IF isOrder THEN RegisteredLocal(u) ELSE NoId
    IN
    \/ /\ asyncs[u] = 0
       /\ stack' = base
       /\ UNCHANGED <<registered, objects, orderEvents, asyncResults,
                      asyncResultsQueue>>
    \/ /\ asyncs[u] > 0
       /\ IF isOrder THEN TakeRegisteredOrder(u)
                     ELSE UNCHANGED <<registered, objects>>
       /\ \/ /\ m = "place"
             /\ stack' = Append(base,
                    OrderFrame(IF r.success THEN "placed" ELSE "placeError",
                               u, r, l))
             /\ UNCHANGED <<orderEvents, asyncResults, asyncResultsQueue>>
          \/ /\ m # "place" /\ r.success
             /\ CASE m = "cancel" -> Publish(u, "CANCELED", l)
                  [] m = "get" -> Publish(u, IF r.status >= 2 THEN "COMPLETED"
                                            ELSE "UPDATED", l)
                  [] OTHER -> UNCHANGED orderEvents
             /\ RegisterAsyncResult(u, TRUE)
             /\ stack' = base
          \/ /\ m # "place" /\ ~r.success
             /\ IF m = "cancel" THEN Publish(u, "ERROR", l)
                                ELSE UNCHANGED orderEvents
             /\ stack' = Append(base, FailureFrame(u, r))
             /\ UNCHANGED <<asyncResults, asyncResultsQueue>>

\* A bug that could be: the finished signal is connected twice, and one more reply than
\* requests sent is taken.
TakeReplyAgain(u) ==
    /\ Room
    /\ sends[u] > 0 /\ asyncs[u] > 0
    /\ inflight' = [inflight EXCEPT ![u] = @ - 1]
    /\ UNCHANGED <<lastUuid, asyncs, asyncDictionary, asyncParams, asyncQueue,
                   requestPause, unfreezes, requests, shared, sends, answers,
                   lost, keyPause, crashes>>

\* The HTTP request of u finishes.
TakeReply(u) ==
    /\ Room
    /\ inflight[u] > 0
    /\ inflight' = [inflight EXCEPT ![u] = @ - 1]
    /\ UNCHANGED <<lastUuid, asyncs, asyncDictionary, asyncParams, asyncQueue,
                   requestPause, unfreezes, requests, shared, sends, answers,
                   lost, keyPause, crashes>>

\* onNetworkReply on 200/201 (the parser answers), or on a code without a
\* branch of its own (a failure).
ReplyParsed(u, r) ==
    /\ TakeReply(u)
    /\ OnApiResponseParsed(u, r, stack)
    /\ UNCHANGED abandoned

\* onNetworkReply on 521 and 429 logs, freezes the client and returns: there
\* is no result and no order event.
ReplyFreeze(u) ==
    /\ TakeReply(u)
    /\ stack' = Append(stack, Frame("freeze", u))
    /\ abandoned' = abandoned \cup {u}
    /\ UNCHANGED <<registered, objects, orderEvents, asyncResults,
                   asyncResultsQueue>>

\* A bug that could be: the return is missing, and the reply is handled as a failure too.
ReplyBadRequestFallsThrough(u) ==
    /\ TakeReply(u)
    /\ abandoned' = abandoned \cup {u}
    /\ OnApiResponseParsed(u, Failure, stack)

\* onNetworkReply on 400 logs and returns.
ReplyBadRequest(u) ==
    /\ TakeReply(u)
    /\ abandoned' = abandoned \cup {u}
    /\ UNCHANGED <<registered, objects, orderEvents, asyncResults,
                   asyncResultsQueue, stack>>

\* onNetworkReply on 403 logs, freezes the client and reports a failure.
ReplyForbidden(u) ==
    /\ TakeReply(u)
    /\ stack' = Append(stack, Frame("freezeFail", u))
    /\ UNCHANGED <<registered, objects, orderEvents, asyncResults,
                   asyncResultsQueue, abandoned>>

OnNetworkReply(u) ==
    \/ \E r \in Parsed : ReplyParsed(u, r)
    \/ ReplyFreeze(u)
    \/ ReplyBadRequest(u)
    \/ ReplyForbidden(u)

-----------------------------------------------------------------------------
(* Session::call returns to the handler on top of the stack *)

\* A bug that could be: the timer of a pause is not started.
FreezeWithoutTimer ==
    /\ requestPause' = TRUE
    /\ unfreezes' = unfreezes

Freeze ==
    /\ requestPause' = TRUE
    /\ unfreezes' = unfreezes + 1

\* What no returning handler below touches.
ReturnFrame ==
    UNCHANGED <<lastUuid, asyncQueue, inflight, requests, shared, sends,
                abandoned, lost, crashes>>

\* 521 and 429: set request_pause and start the timer that clears it.
ReturnFreeze ==
    /\ stack # <<>> /\ Top.at = "freeze"
    /\ unfreezes < MaxTimers /\ Freeze
    /\ stack' = Below
    /\ ReturnFrame
    /\ UNCHANGED <<asyncs, asyncDictionary, asyncParams, asyncResults,
                   asyncResultsQueue, registered, objects, orderEvents,
                   answers, keyPause>>

\* A bug that could be: the failure is registered at once, and not put on the order feed.
ReturnFreezeFailQuietly ==
    /\ stack # <<>> /\ Top.at = "freezeFail"
    /\ unfreezes < MaxTimers /\ Freeze
    /\ RegisterAsyncResult(Top.uuid, FALSE)
    /\ stack' = Below
    /\ ReturnFrame
    /\ UNCHANGED <<asyncs, asyncDictionary, asyncParams, registered, objects,
                   orderEvents, answers, keyPause>>

\* 403: the same, and the failure goes through onApiResponseParsed.
ReturnFreezeFail ==
    /\ stack # <<>> /\ Top.at = "freezeFail"
    /\ unfreezes < MaxTimers /\ Freeze
    /\ OnApiResponseParsed(Top.uuid, Failure, Below)
    /\ ReturnFrame
    /\ UNCHANGED <<asyncs, asyncDictionary, asyncParams, answers, keyPause>>

\* A bug that could be: an order placed with an unexpected status gets no result.
ReturnPlacedKnownStatus ==
    /\ stack # <<>> /\ Top.at = "placed"
    /\ stack' = Below
    /\ IF Top.reply.status = 3
          THEN UNCHANGED <<orderEvents, asyncResults, asyncResultsQueue>>
          ELSE /\ Publish(Top.uuid, "PLACED", Top.local)
               /\ RegisterAsyncResult(Top.uuid, TRUE)
    /\ ReturnFrame
    /\ UNCHANGED <<asyncs, asyncDictionary, asyncParams, registered, objects,
                   requestPause, unfreezes, answers, keyPause>>

\* addLog("Order placed") returned: announce the order, register the result.
ReturnPlaced ==
    /\ stack # <<>> /\ Top.at = "placed"
    /\ stack' = Below
    /\ CASE Top.reply.status = 1 -> Publish(Top.uuid, "PLACED", Top.local)
         [] Top.reply.status = 2 -> Publish(Top.uuid, "COMPLETED", Top.local)
         [] OTHER -> UNCHANGED orderEvents
    /\ RegisterAsyncResult(Top.uuid, TRUE)
    /\ ReturnFrame
    /\ UNCHANGED <<asyncs, asyncDictionary, asyncParams, registered, objects,
                   requestPause, unfreezes, answers, keyPause>>

\* addError("Order place error") returned: announce the failure and go on to
\* the calls every failure makes.
ReturnPlaceError ==
    /\ stack # <<>> /\ Top.at = "placeError"
    /\ Publish(Top.uuid, "ERROR", Top.local)
    /\ stack' = Append(Below, FailureFrame(Top.uuid, Top.reply))
    /\ ReturnFrame
    /\ UNCHANGED <<asyncs, asyncDictionary, asyncParams, asyncResults,
                   asyncResultsQueue, registered, objects, requestPause,
                   unfreezes, answers, keyPause>>

\* A bug that could be: the handler returns once the client is paused.
ReturnKeyErrorEarly ==
    /\ stack # <<>> /\ Top.at = "keyError"
    /\ requestPause' = TRUE
    /\ keyPause' = TRUE
    /\ stack' = Below
    /\ ReturnFrame
    /\ UNCHANGED <<asyncs, asyncDictionary, asyncParams, asyncResults,
                   asyncResultsQueue, registered, objects, unfreezes,
                   orderEvents, answers>>

\* The notice about a bad API key is stored: pause, with no timer to resume.
ReturnKeyError ==
    /\ stack # <<>> /\ Top.at = "keyError"
    /\ requestPause' = TRUE
    /\ keyPause' = TRUE
    /\ stack' = Append(Below, [Top EXCEPT !.at = "register"])
    /\ ReturnFrame
    /\ UNCHANGED <<asyncs, asyncDictionary, asyncParams, asyncResults,
                   asyncResultsQueue, registered, objects, unfreezes,
                   orderEvents, answers>>

\* The last addError of a failure returned: register the result.
ReturnRegister ==
    /\ stack # <<>> /\ Top.at = "register"
    /\ RegisterAsyncResult(Top.uuid, FALSE)
    /\ stack' = Below
    /\ ReturnFrame
    /\ UNCHANGED <<asyncs, asyncDictionary, asyncParams, registered, objects,
                   requestPause, unfreezes, orderEvents, answers, keyPause>>

\* A bug that could be: methodState's failure makes the client publish the result again.
ReturnMethodStateRetries ==
    /\ stack # <<>> /\ Top.at = "methodState"
    /\ asyncResultsQueue' = Append(asyncResultsQueue, Top.uuid)
    /\ stack' = Below
    /\ ReturnFrame
    /\ UNCHANGED <<asyncs, asyncDictionary, asyncParams, asyncResults,
                   registered, objects, requestPause, unfreezes, orderEvents,
                   answers, keyPause>>

\* sendAsyncResult after methodState: forget the request.
ReturnMethodState ==
    /\ stack # <<>> /\ Top.at = "methodState"
    /\ asyncParams' = [asyncParams EXCEPT ![Top.uuid] = NoId]
    /\ asyncDictionary' = [asyncDictionary EXCEPT ![Top.uuid] = NoMethod]
    /\ asyncResults' = [asyncResults EXCEPT ![Top.uuid] = "none"]
    /\ asyncs' = [asyncs EXCEPT ![Top.uuid] = IF @ > 0 THEN @ - 1 ELSE 0]
    /\ stack' = Below
    /\ ReturnFrame
    /\ UNCHANGED <<asyncResultsQueue, registered, objects, requestPause,
                   unfreezes, orderEvents, answers, keyPause>>

CallReturns ==
    \/ ReturnFreeze \/ ReturnFreezeFail \/ ReturnPlaced \/ ReturnPlaceError
    \/ ReturnKeyError \/ ReturnRegister \/ ReturnMethodState

-----------------------------------------------------------------------------
(* Timers and the process *)

\* processAsyncQueueResult: publish the oldest result, then methodState.
ProcessAsyncQueueResult ==
    /\ QueuesTimerIdle /\ Room
    /\ asyncResultsQueue # <<>>
    /\ asyncResultsQueue' = Tail(asyncResultsQueue)
    /\ LET u == Head(asyncResultsQueue) IN
       \/ /\ asyncResults[u] = "none"
          /\ UNCHANGED <<answers, stack>>
       \/ /\ asyncResults[u] # "none"
          /\ answers' = [answers EXCEPT ![u] = @ + 1]
          /\ stack' = Append(stack, Frame("methodState", u))
    /\ UNCHANGED <<lastUuid, asyncs, asyncDictionary, asyncParams, asyncQueue,
                   asyncResults, registered, objects, requestPause, unfreezes,
                   inflight, requests, shared, sends, orderEvents, abandoned,
                   lost, keyPause, crashes>>

\* A single shot timer fires: unfreeze clears the pause, whoever set it.
Unfreeze ==
    /\ unfreezes > 0
    /\ unfreezes' = unfreezes - 1
    /\ requestPause' = FALSE
    /\ keyPause' = FALSE
    /\ UNCHANGED <<lastUuid, asyncs, asyncDictionary, asyncParams, asyncQueue,
                   asyncResults, asyncResultsQueue, registered, objects, stack,
                   inflight, requests, shared, sends, orderEvents, answers,
                   abandoned, lost, crashes>>

Accepted(u) == \E q \in requests : q.uuid = u

\* The process quits (main.cpp on clientdiconnected, the restart command, the
\* watchdog) or dies; ProcWrapper starts it again with nothing in memory.  The
\* uuid counter starts from the clock, which has moved on.
Crash ==
    /\ crashes < MaxCrashes
    /\ crashes' = crashes + 1
    /\ asyncs' = [u \in Uuids |-> 0]
    /\ asyncDictionary' = [u \in Uuids |-> NoMethod]
    /\ asyncParams' = [u \in Uuids |-> NoId]
    /\ asyncQueue' = <<>>
    /\ asyncResults' = [u \in Uuids |-> "none"]
    /\ asyncResultsQueue' = <<>>
    /\ registered' = [u \in Uuids |-> NoId]
    /\ objects' = {}
    /\ requestPause' = FALSE
    /\ unfreezes' = 0
    /\ stack' = <<>>
    /\ inflight' = [u \in Uuids |-> 0]
    /\ lost' = lost \cup {u \in Uuids : Accepted(u) /\ answers[u] = 0
                                        /\ u \notin abandoned}
    /\ keyPause' = FALSE
    /\ UNCHANGED <<lastUuid, requests, shared, sends, orderEvents, answers,
                   abandoned>>

Next ==
    \/ Accept
    \/ ProcessAsyncQueue
    \/ \E u \in Uuids : OnNetworkReply(u)
    \/ CallReturns
    \/ ProcessAsyncQueueResult
    \/ Unfreeze
    \/ Crash

Spec == Init /\ [][Next]_vars

\* The timers fire, the router answers or the call gives up, HTTP requests
\* finish.  Nothing makes callers call.
FairSpec ==
    /\ Spec
    /\ WF_vars(ProcessAsyncQueue)
    /\ WF_vars(ProcessAsyncQueueResult)
    /\ WF_vars(CallReturns)
    /\ WF_vars(Unfreeze)
    /\ \A u \in Uuids : WF_vars(OnNetworkReply(u))

-----------------------------------------------------------------------------
(* Properties *)

TypeOK ==
    /\ lastUuid \in 0 .. MaxUuid
    /\ asyncs \in [Uuids -> Nat]
    /\ asyncDictionary \in [Uuids -> Methods \cup {NoMethod}]
    /\ asyncParams \in [Uuids -> Locals]
    /\ asyncQueue \in Seq(Uuids)
    /\ asyncResults \in [Uuids -> {"none", "ok", "fail"}]
    /\ asyncResultsQueue \in Seq(Uuids)
    /\ registered \in [Uuids -> Locals]
    /\ objects \in SUBSET Locals
    /\ requestPause \in BOOLEAN
    /\ unfreezes \in Nat
    /\ stack \in Seq(Frames)
    /\ inflight \in [Uuids -> Nat]
    /\ requests \in SUBSET [uuid : Uuids, method : Methods, local : Locals]
    /\ shared \in SUBSET Uuids
    /\ sends \in [Uuids -> Nat]
    /\ orderEvents \in [Uuids -> Seq(OrderEvents)]
    /\ answers \in [Uuids -> Nat]
    /\ abandoned \in SUBSET Uuids
    /\ lost \in SUBSET Uuids
    /\ keyPause \in BOOLEAN
    /\ crashes \in Nat

Occurs(u, s) == \E i \in DOMAIN s : s[i] = u
OnStack(u) == \E i \in DOMAIN stack : stack[i].uuid = u
MethodOf(u) == {q.method : q \in {p \in requests : p.uuid = u}}
Settled(u) == answers[u] > 0 \/ u \in abandoned \/ u \in lost

\* An HTTP request goes out at most once for a uuid that one call owns: however
\* event loops nest, an order is not placed twice.
SentOnce == \A u \in Uuids \ shared : sends[u] <= 1

\* A result is published at most once for a uuid that one call owns, although
\* the entries that guard it are removed only after a nested event loop.
AnsweredOnce == \A u \in Uuids \ shared : answers[u] <= 1

\* A request that is neither answered, nor dropped by one of the early returns
\* of onNetworkReply, nor lost with the process is still on its way: queued,
\* out at the exchange, inside a handler, or a result waiting to be published.
NothingForgotten ==
    \A u \in Uuids \ shared :
        Accepted(u) /\ ~Settled(u) =>
            \/ Occurs(u, asyncQueue)
            \/ inflight[u] > 0
            \/ OnStack(u)
            \/ Occurs(u, asyncResultsQueue)

\* What the order feed says of an order sent to the exchange agrees with the
\* result its caller gets: a failure has been announced as ERROR, a success
\* never is.
FeedAgreesWithResult ==
    \A u \in Uuids \ shared :
        MethodOf(u) = {"place"} /\ sends[u] = 1 =>
            /\ asyncResults[u] = "fail" =>
                   /\ Len(orderEvents[u]) = 1
                   /\ orderEvents[u][1].kind = "ERROR"
            /\ asyncResults[u] = "ok" =>
                   /\ Len(orderEvents[u]) <= 1
                   /\ \A i \in DOMAIN orderEvents[u] :
                          orderEvents[u][i].kind \in {"PLACED", "COMPLETED"}

\* Two requests registered under one local id.
SharesLocal(q) ==
    \E p \in requests \ {q} : p.local = q.local /\ p.method \in {"place", "get"}

\* An order's event carries the local id the caller gave, as long as no other
\* call used that id or that uuid: OrdersStorage and the arbitrage pairs can
\* only match the order by it.
LocalIdKept ==
    \A q \in requests :
        q.method = "place" /\ q.uuid \notin shared /\ ~SharesLocal(q) =>
            \A i \in DOMAIN orderEvents[q.uuid] :
                orderEvents[q.uuid][i].local = q.local

\* A pause has a timer that ends it, unless it was set for a bad API key: the
\* nested event loop before `request_pause = true` must not let the timer of
\* this pause be the one that is missing.
PauseHasTimer == requestPause => unfreezes > 0 \/ keyPause

\* Every accepted request is settled in the end, unless the client stays
\* paused for a bad API key.
EventuallySettled ==
    \A u \in Uuids :
        Accepted(u) /\ u \notin shared
            ~> Settled(u) \/ u \in shared \/ (requestPause /\ unfreezes = 0)

\* The strengthening that makes SentOnce and AnsweredOnce inductive: a uuid
\* that one call owns is in one place at a time - queued, out at the exchange,
\* with one handler, or a result - and only ever moves on.
OnePlace ==
    \A u \in Uuids \ shared :
        /\ Occurs(u, asyncQueue) =>
               /\ sends[u] = 0 /\ inflight[u] = 0 /\ answers[u] = 0
               /\ ~OnStack(u) /\ ~Occurs(u, asyncResultsQueue)
        /\ inflight[u] > 0 =>
               /\ inflight[u] = 1 /\ answers[u] = 0
               /\ ~OnStack(u) /\ ~Occurs(u, asyncResultsQueue)
        /\ Occurs(u, asyncResultsQueue) => answers[u] = 0 /\ ~OnStack(u)
        /\ \A i \in DOMAIN stack :
               stack[i].uuid = u => stack[i].at = "methodState" \/ answers[u] = 0

\* Nothing is known of a uuid that was not given out yet.
NewUuidsUnused ==
    \A u \in Uuids : u > lastUuid =>
        /\ ~Occurs(u, asyncQueue) /\ ~OnStack(u) /\ ~Occurs(u, asyncResultsQueue)
        /\ sends[u] = 0 /\ inflight[u] = 0 /\ answers[u] = 0

\* A queue repeats no uuid but the shared ones; neither does the stack.
Distinct(s) == \A i, j \in DOMAIN s : s[i] = s[j] => i = j \/ s[i] \in shared
DistinctFrames ==
    \A i, j \in DOMAIN stack :
        stack[i].uuid = stack[j].uuid => i = j \/ stack[i].uuid \in shared

IInv ==
    /\ TypeOK
    /\ NewUuidsUnused
    /\ OnePlace
    /\ Distinct(asyncQueue) /\ Distinct(asyncResultsQueue) /\ DistinctFrames
    /\ SentOnce
    /\ AnsweredOnce
    /\ PauseHasTimer

-----------------------------------------------------------------------------
(* What the client promises to its callers: see AsyncApi. *)

Phase(u) ==
    IF answers[u] > 0 THEN "answered"
    ELSE IF u \in abandoned \cup lost THEN "dropped"
    ELSE IF Accepted(u) THEN "pending"
    ELSE "free"

Abstract == INSTANCE AsyncApi WITH
    Requests <- Uuids,
    phase <- [u \in Uuids |-> Phase(u)],
    announced <- [u \in Uuids |-> Len(orderEvents[u])]

\* With calls in different milliseconds, the client implements AsyncApi.
ImplementsAsyncApi == Abstract!Spec
=============================================================================
