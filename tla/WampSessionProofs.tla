------------------------------ MODULE WampSessionProofs ------------------------------
(***************************************************************************)
(* Session::call returns the answer to that very call or 0, for any setup, *)
(* any calls and depth, any losses, goodbyes and restarts.                 *)
(*                                                                         *)
(* AnswerIsOwn speaks of the last return only.  IInv follows a request id  *)
(* from the waiting call to the router and back (Asks): wherever an id is  *)
(* found, it is of one call, no id is ahead of the counter, and every      *)
(* waiting call has an entry of its own.                                   *)
(*                                                                         *)
(* KilledOnlyAfterGoodbye speaks of the next message only.  Orderly says   *)
(* what may be on its way as long as no goodbye has been read: before the  *)
(* welcome one known message, after it requests and confirmations of what  *)
(* is on file, each once (OnFile), and no invocation ahead of the          *)
(* confirmation of its procedure (InOrder).                                *)
(***************************************************************************)
EXTENDS WampSession, SequenceTheorems, TLAPS

-----------------------------------------------------------------------------
(* Sequences as the sets of what is in them *)

Elems(s) == {s[k] : k \in 1..Len(s)}

LEMMA ElemsAppend ==
  ASSUME NEW S, NEW s \in Seq(S), NEW x \in S
  PROVE  Append(s, x) \in Seq(S) /\ Elems(Append(s, x)) = Elems(s) \cup {x}
<1>1. /\ Append(s, x) \in Seq(S) /\ Len(Append(s, x)) = Len(s) + 1 /\ Len(s) \in Nat
      /\ Append(s, x)[Len(s) + 1] = x
      /\ \A k \in 1..Len(s) : Append(s, x)[k] = s[k]
  OBVIOUS
<1>2. 1..Len(s) + 1 = (1..Len(s)) \cup {Len(s) + 1}
  BY <1>1
<1> QED
  BY <1>1, <1>2 DEF Elems

LEMMA ElemsTail ==
  ASSUME NEW S, NEW s \in Seq(S), s # <<>>
  PROVE  /\ Tail(s) \in Seq(S) /\ Elems(Tail(s)) \subseteq Elems(s)
         /\ Head(s) \in Elems(s) /\ Head(s) \in S
<1>1. /\ Tail(s) \in Seq(S) /\ Len(Tail(s)) = Len(s) - 1 /\ Len(s) \in Nat /\ Len(s) # 0
      /\ \A k \in 1..Len(s) - 1 : Tail(s)[k] = s[k + 1]
      /\ Head(s) = s[1]
  OBVIOUS
<1>2. 1 \in 1..Len(s) /\ \A k \in 1..Len(s) - 1 : k + 1 \in 1..Len(s)
  BY <1>1
<1> QED
  BY <1>1, <1>2 DEF Elems

LEMMA ElemsPop ==
  ASSUME NEW S, NEW s \in Seq(S), s # <<>>
  PROVE  /\ SubSeq(s, 1, Len(s) - 1) \in Seq(S)
         /\ Len(SubSeq(s, 1, Len(s) - 1)) = Len(s) - 1
         /\ \A k \in 1..Len(s) - 1 : SubSeq(s, 1, Len(s) - 1)[k] = s[k]
         /\ Elems(SubSeq(s, 1, Len(s) - 1)) \subseteq Elems(s)
         /\ Len(s) \in 1..Len(s) /\ s[Len(s)] \in Elems(s) /\ s[Len(s)] \in S
<1> DEFINE k == Len(s) - 1
           t == SubSeq(s, 1, k)
<1>1. Len(s) \in Nat \ {0} /\ \A i \in 1..Len(s) : s[i] \in S
  OBVIOUS
<1>2. k \in Int /\ 1 \in Int /\ k >= 0 /\ k - 1 + 1 = k /\ 1..k \subseteq 1..Len(s)
  BY <1>1
<1> HIDE DEF k
<1>3. /\ t \in Seq(S)
      /\ Len(t) = IF 1 <= k THEN k - 1 + 1 ELSE 0
      /\ \A i \in 1..k - 1 + 1 : t[i] = s[1 + i - 1]
  BY <1>1, <1>2, SubSeqProperties
<1>4. Len(t) = k /\ \A i \in 1..k : t[i] = s[i]
  BY <1>2, <1>3
<1>5. Elems(t) \subseteq Elems(s)
  BY <1>2, <1>4 DEF Elems
<1>6. Len(s) \in 1..Len(s)
  BY <1>1
<1> QED
  BY <1>1, <1>3, <1>4, <1>5, <1>6 DEF Elems, k

LEMMA ElemsConcat ==
  ASSUME NEW S, NEW s \in Seq(S), NEW t \in Seq(S)
  PROVE  s \o t \in Seq(S) /\ Elems(s \o t) \subseteq Elems(s) \cup Elems(t)
<1>1. /\ s \o t \in Seq(S) /\ Len(s \o t) = Len(s) + Len(t)
      /\ Len(s) \in Nat /\ Len(t) \in Nat
  BY ConcatProperties, LenProperties
<1>2. ASSUME NEW k \in 1..Len(s \o t)
      PROVE  (s \o t)[k] \in Elems(s) \cup Elems(t)
  <2>1. CASE k <= Len(s)
    <3>1. (s \o t)[k] = s[k] /\ k \in 1..Len(s)
      BY <1>1, <2>1
    <3> QED
      BY <3>1 DEF Elems
  <2>2. CASE k > Len(s)
    <3>1. (s \o t)[k] = t[k - Len(s)] /\ k - Len(s) \in 1..Len(t)
      BY <1>1, <2>2
    <3> QED
      BY <3>1 DEF Elems
  <2> QED
    BY <1>1, <2>1, <2>2
<1> QED
  BY <1>1, <1>2 DEF Elems

LEMMA ElemsOne ==
  ASSUME NEW S, NEW x \in S
  PROVE  <<x>> \in Seq(S) /\ Elems(<<x>>) = {x}
BY DEF Elems

LEMMA ElemsNone == \A S : <<>> \in Seq(S) /\ Elems(<<>>) = {}
BY DEF Elems

-----------------------------------------------------------------------------
(* Types *)

Answer == {"RESULT", "ERROR"}

\* What the router sends, and what the session sends.
Incoming ==
  [code : {"HANDSHAKE", "WELCOME", "GOODBYE"}]
    \cup [code : {"REGISTERED", "SUBSCRIBED"}, request : Nat, id : STRING]
    \cup [code : {"EVENT", "INVOCATION"}, id : STRING]
    \cup [code : Answer, request : Nat, data : Call]
Outgoing ==
  [code : {"HANDSHAKE", "HELLO", "GOODBYE", "YIELD", "ERROR"}]
    \cup [code : {"REGISTER", "SUBSCRIBE"}, request : Nat, name : STRING]
    \cup [code : {"CALL"}, request : Nat, args : Call]

Frame == [call : Call, request : Nat, inv : BOOLEAN]

EntryOK(e) == e.ready \in BOOLEAN /\ (e.ready => e.result \in Answer \X Call)

TrafficOK ==
  /\ in \in Seq(Incoming) /\ out \in Seq(Outgoing)
  /\ offered \subseteq [code : {"REGISTER", "SUBSCRIBE"}, name : STRING]
  /\ pending \subseteq Nat \X Call

\* Every waiting call has an entry of its own.
CallsOK ==
  /\ requestId \in Nat
  /\ stack \in Seq(Frame)
  /\ DOMAIN callRequests \subseteq Nat
  /\ \A r \in DOMAIN callRequests : EntryOK(callRequests[r])
  /\ \A k \in 1..Len(stack) : stack[k].request \in DOMAIN callRequests
  /\ \A k, n \in 1..Len(stack) : k # n => stack[k].request # stack[n].request

-----------------------------------------------------------------------------
(* Where request ids are *)

AsksStack == {<<f.request, f.call>> : f \in Elems(stack)}
AsksOut == {<<m.request, m.args>> : m \in {x \in Elems(out) : x.code = "CALL"}}
AsksIn == {<<m.request, m.data>> : m \in {x \in Elems(in) : x.code \in Answer}}
AsksTable ==
  {<<r, callRequests[r].result[2]>> : r \in {x \in DOMAIN callRequests : callRequests[x].ready}}
Asks == AsksStack \cup AsksOut \cup pending \cup AsksIn \cup AsksTable

\* An id is of one call, and behind the counter.
AsksOK ==
  /\ \A p, q \in Asks : p[1] = q[1] => p[2] = q[2]
  /\ \A p \in Asks : p[1] <= requestId

Moving == TrafficOK /\ CallsOK /\ AsksOK
IInv == Moving /\ AnswerIsOwn

\* A step that takes ids from one place to another.
LEMMA AsksMove ==
  ASSUME AsksOK, Asks' \subseteq Asks, requestId \in Nat, requestId' \in Nat,
         requestId' >= requestId, \A p \in Asks : p[1] \in Nat
  PROVE  AsksOK'
BY DEF AsksOK

\* A new one is ahead of all others.
LEMMA AsksGrow ==
  ASSUME AsksOK, NEW c, Asks' \subseteq Asks \cup {<<requestId + 1, c>>},
         requestId \in Nat, requestId' = requestId + 1, \A p \in Asks : p[1] \in Nat
  PROVE  AsksOK'
BY DEF AsksOK

LEMMA AsksTyped ==
  ASSUME TrafficOK, CallsOK
  PROVE  \A p \in Asks : p[1] \in Nat
<1>1. \A p \in AsksStack : p[1] \in Nat
  <2>1. Elems(stack) \subseteq Frame
    BY DEF CallsOK, Elems
  <2> QED
    BY <2>1 DEF AsksStack, Frame
<1>2. \A p \in AsksOut : p[1] \in Nat
  <2>1. Elems(out) \subseteq Outgoing
    BY DEF TrafficOK, Elems
  <2> QED
    BY <2>1 DEF AsksOut, Outgoing
<1>3. \A p \in AsksIn : p[1] \in Nat
  <2>1. Elems(in) \subseteq Incoming
    BY DEF TrafficOK, Elems
  <2> QED
    BY <2>1 DEF AsksIn, Incoming, Answer
<1>4. \A p \in AsksTable : p[1] \in Nat
  BY DEF AsksTable, CallsOK
<1>5. \A p \in pending : p[1] \in Nat
  BY DEF TrafficOK
<1> QED
  BY <1>1, <1>2, <1>3, <1>4, <1>5 DEF Asks

\* Each of the five places has what it had, or less.
LEMMA PlacesShrink ==
  ASSUME Moving,
         AsksStack' \subseteq Asks, AsksOut' \subseteq Asks, pending' \subseteq Asks,
         AsksIn' \subseteq Asks, AsksTable' \subseteq Asks,
         requestId' \in Nat, requestId' >= requestId
  PROVE  AsksOK'
<1>1. Asks' \subseteq Asks
  BY DEF Asks
<1>2. requestId \in Nat
  BY DEF Moving, CallsOK
<1> QED
  BY <1>1, <1>2, AsksMove, AsksTyped DEF Moving

-----------------------------------------------------------------------------
(* Sending and reading *)

LEMMA Sent ==
  ASSUME TrafficOK, NEW m \in Seq(Outgoing), Send(m)
  PROVE  out' \in Seq(Outgoing) /\ Elems(out') \subseteq Elems(out) \cup Elems(m)
<1>1. CASE link = "open"
  <2>1. out' = out \o m
    BY <1>1 DEF Send
  <2> QED
    BY <2>1, ElemsConcat DEF TrafficOK
<1>2. CASE link # "open"
  BY <1>2 DEF Send, TrafficOK
<1> QED
  BY <1>1, <1>2

LEMMA SentOne ==
  ASSUME TrafficOK, NEW m \in Outgoing, Send(<<m>>)
  PROVE  out' \in Seq(Outgoing) /\ Elems(out') \subseteq Elems(out) \cup {m}
BY Sent, ElemsOne

LEMMA Consumed ==
  ASSUME TrafficOK, in # <<>>, Consume
  PROVE  /\ in' \in Seq(Incoming) /\ Elems(in') \subseteq Elems(in)
         /\ Msg \in Elems(in) /\ Msg \in Incoming
BY ElemsTail DEF TrafficOK, Consume, Msg

LEMMA Replied ==
  ASSUME TrafficOK, NEW m \in Incoming, Reply(m)
  PROVE  in' \in Seq(Incoming) /\ Elems(in') = Elems(in) \cup {m}
BY ElemsAppend DEF TrafficOK, Reply

LEMMA OutKept ==
  ASSUME \A m \in Elems(out') : m \in Elems(out) \/ m.code # "CALL"
  PROVE  AsksOut' \subseteq AsksOut
BY DEF AsksOut

LEMMA InKept ==
  ASSUME \A m \in Elems(in') : m \in Elems(in) \/ m.code \notin Answer
  PROVE  AsksIn' \subseteq AsksIn
BY DEF AsksIn

-----------------------------------------------------------------------------
(* Kinds of steps *)

\* A session and its traffic begin.
LEMMA BeginsAnew ==
  ASSUME NewSession, NoCalls, NoTraffic, stack' = <<>>
  PROVE  Moving'
<1>1. /\ in' = <<>> /\ out' = <<>> /\ offered' = {} /\ pending' = {}
      /\ requestId' = 0 /\ callRequests' = Empty
  BY DEF NoCalls, NoTraffic
<1>2. Elems(in') = {} /\ Elems(out') = {} /\ Elems(stack') = {}
  BY <1>1, ElemsNone
<1>3. DOMAIN callRequests' = {}
  BY <1>1 DEF Empty
<1>4. AsksStack' = {} /\ AsksOut' = {} /\ AsksIn' = {} /\ AsksTable' = {}
  BY <1>2, <1>3 DEF AsksStack, AsksOut, AsksIn, AsksTable
<1>5. AsksOK'
  BY <1>1, <1>4 DEF AsksOK, Asks
<1>6. TrafficOK'
  BY <1>1, ElemsNone DEF TrafficOK
<1>7. stack' \in Seq(Frame) /\ Len(stack') = 0
  BY ElemsNone
<1>8. CallsOK'
  BY <1>1, <1>3, <1>7 DEF CallsOK
<1> QED
  BY <1>5, <1>6, <1>8 DEF Moving

\* The calls wait on, the traffic brings no answer nobody asked for.
LEMMA CallsWait ==
  ASSUME Moving, UNCHANGED <<requestId, callRequests, stack>>, TrafficOK',
         AsksOut' \subseteq Asks, AsksIn' \subseteq Asks, pending' \subseteq Asks
  PROVE  Moving'
<1>1. CallsOK'
  BY DEF Moving, CallsOK
<1>2. AsksStack' \subseteq Asks /\ AsksTable' \subseteq Asks
  BY DEF Asks, AsksStack, AsksTable
<1>3. requestId' \in Nat /\ requestId' >= requestId
  BY DEF Moving, CallsOK
<1> QED
  BY <1>1, <1>2, <1>3, PlacesShrink DEF Moving

\* The same, when the session reads a message that is no answer.
LEMMA ReadsOn ==
  ASSUME Moving, UNCHANGED <<requestId, callRequests, stack, offered, pending>>,
         in' \in Seq(Incoming), Elems(in') \subseteq Elems(in),
         out' \in Seq(Outgoing),
         \A m \in Elems(out') : m \in Elems(out) \/ m.code # "CALL"
  PROVE  Moving'
<1>1. AsksOut' \subseteq Asks /\ AsksIn' \subseteq Asks /\ pending' \subseteq Asks
  BY OutKept, InKept DEF Asks
<1>2. TrafficOK'
  BY DEF Moving, TrafficOK
<1> QED
  BY <1>1, <1>2, CallsWait

\* A call is made while others wait.
LEMMA CallBegins ==
  ASSUME Moving, NEW c \in Call, NEW inv \in BOOLEAN, BeginCall(c, inv),
         UNCHANGED <<offered, pending>>,
         in' \in Seq(Incoming), Elems(in') \subseteq Elems(in)
  PROVE  Moving' /\ returned' = returned
<1> DEFINE r == requestId + 1
           frame == [call |-> c, request |-> r, inv |-> inv]
           m == [code |-> "CALL", request |-> r, args |-> c]
<1>1. /\ requestId' = r
      /\ callRequests' = Put(callRequests, r, [ready |-> FALSE, result |-> Zero])
      /\ stack' = Append(stack, frame)
      /\ Send(<<m>>)
      /\ returned' = returned
  BY DEF BeginCall, NextRequest
<1>2. r \in Nat /\ frame \in Frame /\ m \in Outgoing
  BY DEF Moving, CallsOK, Frame, Outgoing
<1>3. out' \in Seq(Outgoing) /\ Elems(out') \subseteq Elems(out) \cup {m}
  BY <1>1, <1>2, SentOne DEF Moving
<1>4. stack \in Seq(Frame) /\ stack' \in Seq(Frame) /\ Elems(stack') = Elems(stack) \cup {frame}
  BY <1>1, <1>2, ElemsAppend DEF Moving, CallsOK
<1>5. TrafficOK'
  BY <1>3 DEF Moving, TrafficOK
<1>6. \A f \in Elems(stack) : f.request \in Nat /\ f.request <= requestId
  <2>1. \A f \in Elems(stack) : <<f.request, f.call>> \in Asks
    BY DEF Asks, AsksStack
  <2> QED
    BY <2>1, AsksTyped DEF Moving, AsksOK
<1>7. /\ DOMAIN callRequests' = DOMAIN callRequests \cup {r}
      /\ callRequests'[r] = [ready |-> FALSE, result |-> Zero]
      /\ \A x \in DOMAIN callRequests : x # r => callRequests'[x] = callRequests[x]
  BY <1>1 DEF Put
<1>8. CallsOK'
  <2>1. /\ Len(stack') = Len(stack) + 1 /\ Len(stack) \in Nat
        /\ stack'[Len(stack) + 1] = frame
        /\ \A k \in 1..Len(stack) : stack'[k] = stack[k]
    BY <1>1, <1>2, <1>4
  <2>2. \A k \in 1..Len(stack) : stack[k].request \in DOMAIN callRequests
    BY DEF Moving, CallsOK
  <2>3. \A k \in 1..Len(stack') : stack'[k].request \in DOMAIN callRequests'
    BY <1>7, <2>1, <2>2
  <2>4. \A k \in 1..Len(stack) : stack[k].request # r
    <3>1. \A k \in 1..Len(stack) : stack[k] \in Elems(stack)
      BY DEF Elems
    <3>2. \A k \in 1..Len(stack) : stack[k].request \in Nat /\ stack[k].request <= requestId
      BY <1>6, <3>1
    <3>3. requestId \in Nat
      BY DEF Moving, CallsOK
    <3> QED
      BY <3>2, <3>3
  <2>5. \A k, n \in 1..Len(stack) : k # n => stack[k].request # stack[n].request
    BY DEF Moving, CallsOK
  <2>6. \A k, n \in 1..Len(stack') : k # n => stack'[k].request # stack'[n].request
    BY <2>1, <2>4, <2>5
  <2>7. \A x \in DOMAIN callRequests' : EntryOK(callRequests'[x])
    <3>1. EntryOK([ready |-> FALSE, result |-> Zero])
      BY DEF EntryOK
    <3>2. \A x \in DOMAIN callRequests : EntryOK(callRequests[x])
      BY DEF Moving, CallsOK
    <3> QED
      BY <1>7, <3>1, <3>2
  <2>8. DOMAIN callRequests' \subseteq Nat
    BY <1>2, <1>7 DEF Moving, CallsOK
  <2> QED
    BY <1>1, <1>2, <1>4, <2>3, <2>6, <2>7, <2>8 DEF CallsOK
<1>9. Asks' \subseteq Asks \cup {<<r, c>>}
  <2>1. AsksStack' \subseteq AsksStack \cup {<<r, c>>}
    BY <1>4 DEF AsksStack
  <2>2. AsksOut' \subseteq AsksOut \cup {<<r, c>>}
    BY <1>3 DEF AsksOut
  <2>3. AsksIn' \subseteq AsksIn
    BY InKept
  <2>4. AsksTable' \subseteq AsksTable
    BY <1>7 DEF AsksTable
  <2> QED
    BY <2>1, <2>2, <2>3, <2>4 DEF Asks
<1> QED
  BY <1>1, <1>5, <1>8, <1>9, AsksGrow, AsksTyped DEF Moving, CallsOK

\* The innermost call returns.
LEMMA CallEnds ==
  ASSUME Moving, stack # <<>>, NEW v, EndCall(v)
  PROVE  /\ Moving' /\ returned' = [call |-> Top.call, value |-> v]
         /\ Top.request \in DOMAIN callRequests /\ <<Top.request, Top.call>> \in Asks
<1> DEFINE n == Len(stack) - 1
<1>1. /\ returned' = [call |-> Top.call, value |-> v]
      /\ callRequests' = Remove(callRequests, Top.request)
      /\ stack' = SubSeq(stack, 1, Len(stack) - 1)
      /\ requestId' = requestId /\ in' = in /\ offered' = offered /\ pending' = pending
  BY DEF EndCall, Pop, router
<1>2. Send(IF Top.inv THEN <<[code |-> "YIELD"]>> ELSE <<>>)
  BY DEF EndCall
<1>3. stack \in Seq(Frame) /\ Len(stack) \in Nat
  BY DEF Moving, CallsOK
<1>4. /\ stack' \in Seq(Frame) /\ Len(stack') = Len(stack) - 1
      /\ \A k \in 1..Len(stack) - 1 : stack'[k] = stack[k]
      /\ Elems(stack') \subseteq Elems(stack)
      /\ Len(stack) \in 1..Len(stack) /\ Top \in Elems(stack)
  BY <1>1, <1>3, ElemsPop DEF Top
<1>5. Top.request \in DOMAIN callRequests
  BY <1>4 DEF Top, Moving, CallsOK
<1>6. <<Top.request, Top.call>> \in Asks
  BY <1>4 DEF Asks, AsksStack
<1>7. /\ DOMAIN callRequests' = DOMAIN callRequests \ {Top.request}
      /\ \A x \in DOMAIN callRequests' : callRequests'[x] = callRequests[x]
  BY <1>1 DEF Remove
<1>8. out' \in Seq(Outgoing) /\ \A m \in Elems(out') : m \in Elems(out) \/ m.code # "CALL"
  <2>1. CASE Top.inv
    <3>1. [code |-> "YIELD"] \in Outgoing
      BY DEF Outgoing
    <3> QED
      BY <1>2, <2>1, <3>1, SentOne DEF Moving
  <2>2. CASE ~Top.inv
    <3>1. Send(<<>>)
      BY <1>2, <2>2
    <3>2. <<>> \in Seq(Outgoing) /\ Elems(<<>>) = {}
      BY ElemsNone
    <3>3. out' \in Seq(Outgoing) /\ Elems(out') \subseteq Elems(out) \cup Elems(<<>>)
      BY <3>1, <3>2, Sent DEF Moving
    <3> QED
      BY <3>2, <3>3
  <2> QED
    BY <2>1, <2>2
<1>9. CallsOK'
  <2>1. \A k \in 1..Len(stack') : k \in 1..Len(stack) /\ k # Len(stack)
    BY <1>3, <1>4
  <2>2. \A k \in 1..Len(stack') :
          stack[k].request \in DOMAIN callRequests /\ stack[k].request # Top.request
    BY <1>4, <2>1 DEF Top, Moving, CallsOK
  <2>3. \A k \in 1..Len(stack') : stack'[k].request \in DOMAIN callRequests'
    BY <1>4, <1>7, <2>2
  <2>4. \A k, j \in 1..Len(stack') : k # j => stack'[k].request # stack'[j].request
    BY <1>4, <2>1 DEF Moving, CallsOK
  <2>5. \A x \in DOMAIN callRequests' : x \in Nat /\ EntryOK(callRequests'[x])
    BY <1>7 DEF Moving, CallsOK
  <2> QED
    BY <1>1, <1>4, <2>3, <2>4, <2>5 DEF CallsOK, Moving
<1>10. AsksOK'
  <2>1. AsksStack' \subseteq Asks
    BY <1>4 DEF Asks, AsksStack
  <2>2. AsksTable' \subseteq Asks
    BY <1>7 DEF Asks, AsksTable
  <2>3. AsksOut' \subseteq Asks /\ AsksIn' \subseteq Asks /\ pending' \subseteq Asks
    BY <1>1, <1>8, OutKept, InKept DEF Asks
  <2>4. requestId' \in Nat /\ requestId' >= requestId
    BY <1>1 DEF Moving, CallsOK
  <2> QED
    BY <2>1, <2>2, <2>3, <2>4, PlacesShrink
<1>11. TrafficOK'
  BY <1>1, <1>8 DEF Moving, TrafficOK
<1> QED
  BY <1>1, <1>5, <1>6, <1>9, <1>10, <1>11 DEF Moving

LEMMA ReturnIsOwn ==
  ASSUME Moving, Return
  PROVE  Moving' /\ AnswerIsOwn'
<1> DEFINE r == Top.request
           v == callRequests[r].result
<1>1. stack # <<>> /\ callRequests[r].ready /\ EndCall(v)
  BY DEF Return
<1>2. /\ Moving' /\ returned' = [call |-> Top.call, value |-> v]
      /\ r \in DOMAIN callRequests /\ <<r, Top.call>> \in Asks
  BY <1>1, CallEnds
<1>3. v \in Answer \X Call
  BY <1>1, <1>2 DEF Moving, CallsOK, EntryOK
<1>4. <<r, v[2]>> \in Asks
  BY <1>1, <1>2 DEF Asks, AsksTable
<1>5. v[2] = Top.call
  BY <1>2, <1>4 DEF Moving, AsksOK
<1> QED
  BY <1>2, <1>3, <1>5 DEF AnswerIsOwn, Answer

LEMMA GiveUpIsOwn ==
  ASSUME Moving, GiveUp
  PROVE  Moving' /\ AnswerIsOwn'
<1>1. stack # <<>> /\ EndCall(Zero)
  BY DEF GiveUp
<1>2. Moving' /\ returned' = [call |-> Top.call, value |-> Zero]
  BY <1>1, CallEnds
<1> QED
  BY <1>2 DEF AnswerIsOwn

-----------------------------------------------------------------------------
(* Steps of the client and the session *)

\* The calls of a session that stays on the socket wait on without its traffic.
LEMMA StartMoves ==
  ASSUME Moving, StartClient
  PROVE  Moving'
<1>1. CASE kept = "live"
  <2>1. /\ in' = <<>> /\ out' = <<>> /\ offered' = {} /\ pending' = {}
        /\ UNCHANGED <<requestId, callRequests, stack>>
    BY <1>1 DEF StartClient, NoTraffic, calls
  <2>2. TrafficOK' /\ AsksOut' = {} /\ AsksIn' = {}
    BY <2>1, ElemsNone DEF TrafficOK, AsksOut, AsksIn
  <2> QED
    BY <2>1, <2>2, CallsWait
<1>2. CASE kept # "live"
  BY <1>2, BeginsAnew DEF StartClient
<1> QED
  BY <1>1, <1>2

LEMMA ConnectMoves ==
  ASSUME Moving, Connected \/ ConnectFails \/ Disconnected
  PROVE  Moving'
<1>1. CASE Connected
  <2>1. out' = <<[code |-> "HANDSHAKE"]>> /\ [code |-> "HANDSHAKE"] \in Outgoing
    BY <1>1 DEF Connected, Outgoing
  <2>2. out' \in Seq(Outgoing) /\ Elems(out') = {[code |-> "HANDSHAKE"]}
    BY <2>1, ElemsOne
  <2>3. UNCHANGED <<requestId, callRequests, stack, offered, pending, in>>
    BY <1>1 DEF Connected, waits, calls, router
  <2> QED
    BY <2>2, <2>3, ReadsOn DEF Moving, TrafficOK
<1>2. CASE ConnectFails
  <2>1. UNCHANGED <<requestId, callRequests, stack, offered, pending, in, out>>
    BY <1>2 DEF ConnectFails, waits, calls, router
  <2> QED
    BY <2>1, ReadsOn DEF Moving, TrafficOK
<1>3. CASE Disconnected
  <2>1. /\ in' = <<>> /\ out' = <<>> /\ offered' = {} /\ pending' = {}
        /\ UNCHANGED <<requestId, callRequests, stack>>
    BY <1>3 DEF Disconnected, NoTraffic, waits, calls
  <2>2. TrafficOK' /\ AsksOut' = {} /\ AsksIn' = {}
    BY <2>1, ElemsNone DEF TrafficOK, AsksOut, AsksIn
  <2> QED
    BY <2>1, <2>2, CallsWait
<1> QED
  BY <1>1, <1>2, <1>3

LEMMA ReadMoves ==
  ASSUME Moving, ReadHandshake \/ ReadGoodbye \/ ReadConfirmed
  PROVE  Moving'
<1>1. in # <<>> /\ Consume /\ UNCHANGED <<requestId, callRequests, stack, offered, pending>>
  BY DEF ReadHandshake, ReadGoodbye, ReadConfirmed, Reads, waits, calls, router
<1>2. \/ out' = out
      \/ \E m \in {[code |-> "HELLO"], [code |-> "GOODBYE"]} : Send(<<m>>)
  BY DEF ReadHandshake, ReadGoodbye, ReadConfirmed
<1>3. out' \in Seq(Outgoing) /\ \A m \in Elems(out') : m \in Elems(out) \/ m.code # "CALL"
  <2>1. CASE out' = out
    BY <2>1 DEF Moving, TrafficOK
  <2>2. ASSUME NEW m \in {[code |-> "HELLO"], [code |-> "GOODBYE"]}, Send(<<m>>)
        PROVE  out' \in Seq(Outgoing) /\ \A x \in Elems(out') : x \in Elems(out) \/ x.code # "CALL"
    <3>1. m \in Outgoing /\ m.code # "CALL"
      BY DEF Outgoing
    <3> QED
      BY <2>2, <3>1, SentOne DEF Moving
  <2> QED
    BY <1>2, <2>1, <2>2
<1> QED
  BY <1>1, <1>3, Consumed, ReadsOn DEF Moving

\* The worker asks for its setup on the first session it gets.
LEMMA WelcomeMoves ==
  ASSUME Moving, ReadWelcome
  PROVE  Moving'
<1>1. in # <<>>
  BY DEF ReadWelcome, Reads
<1>2. CASE Restart
  BY <1>2, BeginsAnew DEF Restart
<1>3. CASE Consume /\ UNCHANGED <<waits, out, router>>
  BY <1>1, <1>3, Consumed, ReadsOn DEF waits, calls, router, Moving, TrafficOK
<1>4. CASE SetUp /\ Consume /\ UNCHANGED <<callRequests, stack, router>>
  <2> DEFINE n == Len(Setup)
             asks == [k \in 1..n |-> [code |-> Setup[k].code, request |-> requestId + k,
                                      name |-> Setup[k].name]]
  <2>1. requestId' = requestId + n /\ Send(asks)
    BY <1>4 DEF SetUp
  <2>2. n \in Nat /\ requestId \in Nat
        /\ \A k \in 1..n : Setup[k] \in [code : {"REGISTER", "SUBSCRIBE"}, name : STRING]
    <3>1. Setup \in Seq([code : {"REGISTER", "SUBSCRIBE"}, name : STRING])
      BY WampOK
    <3>2. n \in Nat
      BY <3>1, LenProperties
    <3>3. \A k \in 1..n : Setup[k] \in [code : {"REGISTER", "SUBSCRIBE"}, name : STRING]
      BY <3>1, ElementOfSeq
    <3>4. requestId \in Nat
      BY DEF Moving, CallsOK
    <3> QED
      BY <3>2, <3>3, <3>4
  <2>3. \A k \in 1..n : asks[k] \in Outgoing /\ asks[k].code # "CALL"
    BY <2>2 DEF Outgoing
  <2>4. asks \in Seq(Outgoing) /\ Len(asks) = n
    BY <2>2, <2>3
  <2>5. Elems(asks) \subseteq {m \in Outgoing : m.code # "CALL"}
    BY <2>3, <2>4 DEF Elems
  <2>6. out' \in Seq(Outgoing) /\ \A m \in Elems(out') : m \in Elems(out) \/ m.code # "CALL"
    BY <2>1, <2>4, <2>5, Sent DEF Moving
  <2>7. in' \in Seq(Incoming) /\ Elems(in') \subseteq Elems(in)
    BY <1>1, <1>4, Consumed DEF Moving
  <2>8. UNCHANGED <<callRequests, stack, offered, pending>>
    BY <1>4 DEF router
  <2>9. TrafficOK'
    BY <2>6, <2>7, <2>8 DEF Moving, TrafficOK
  <2>10. CallsOK'
    BY <2>1, <2>2, <2>8 DEF Moving, CallsOK
  <2>11. AsksStack' \subseteq Asks /\ AsksTable' \subseteq Asks /\ pending' \subseteq Asks
    BY <2>8 DEF Asks, AsksStack, AsksTable
  <2>12. AsksOut' \subseteq Asks /\ AsksIn' \subseteq Asks
    BY <2>6, <2>7, OutKept, InKept DEF Asks
  <2>13. requestId' \in Nat /\ requestId' >= requestId
    BY <2>1, <2>2
  <2> QED
    BY <2>9, <2>10, <2>11, <2>12, <2>13, PlacesShrink DEF Moving
<1> QED
  BY <1>2, <1>3, <1>4 DEF ReadWelcome

\* A handler or procedure answers at once or makes a call.
LEMMA HandlerMoves ==
  ASSUME Moving, ReadEvent \/ ReadInvocation
  PROVE  Moving' /\ returned' = returned
<1>1. in # <<>> /\ Consume /\ UNCHANGED <<offered, pending>>
  BY DEF ReadEvent, ReadInvocation, Reads, router
<1>2. in' \in Seq(Incoming) /\ Elems(in') \subseteq Elems(in)
  BY <1>1, Consumed DEF Moving
<1>3. CASE \E c \in Call, inv \in BOOLEAN : BeginCall(c, inv)
  BY <1>1, <1>2, <1>3, CallBegins
<1>4. CASE UNCHANGED waits /\ (out' = out \/ \E code \in {"YIELD", "ERROR"} : Send(<<[code |-> code]>>))
  <2>1. out' \in Seq(Outgoing) /\ \A m \in Elems(out') : m \in Elems(out) \/ m.code # "CALL"
    <3>1. CASE out' = out
      BY <3>1 DEF Moving, TrafficOK
    <3>2. ASSUME NEW code \in {"YIELD", "ERROR"}, Send(<<[code |-> code]>>)
          PROVE  out' \in Seq(Outgoing) /\ \A m \in Elems(out') : m \in Elems(out) \/ m.code # "CALL"
      <4>1. [code |-> code] \in Outgoing /\ [code |-> code].code # "CALL"
        BY DEF Outgoing
      <4> QED
        BY <3>2, <4>1, SentOne DEF Moving
    <3> QED
      BY <1>4, <3>1, <3>2
  <2> QED
    BY <1>1, <1>2, <1>4, <2>1, ReadsOn DEF waits, calls
<1>5. \/ \E c \in Call, inv \in BOOLEAN : BeginCall(c, inv)
      \/ UNCHANGED waits /\ (out' = out \/ \E code \in {"YIELD", "ERROR"} : Send(<<[code |-> code]>>))
  BY DEF ReadEvent, ReadInvocation
<1> QED
  BY <1>3, <1>4, <1>5

\* An answer goes to the entry of its id.
LEMMA AnswerMoves ==
  ASSUME Moving, ReadAnswer
  PROVE  Moving'
<1> DEFINE r == Msg.request
           entry == [ready |-> TRUE, result |-> <<Msg.code, Msg.data>>]
<1>1. /\ in # <<>> /\ Consume /\ Msg.code \in Answer
      /\ UNCHANGED <<requestId, stack, out, offered, pending>>
  BY DEF ReadAnswer, Reads, Answer, router
<1>2. /\ in' \in Seq(Incoming) /\ Elems(in') \subseteq Elems(in)
      /\ Msg \in Elems(in) /\ Msg \in Incoming
  BY <1>1, Consumed DEF Moving
<1>3. r \in Nat /\ Msg.data \in Call
  BY <1>1, <1>2 DEF Incoming, Answer
<1>4. <<r, Msg.data>> \in Asks
  BY <1>1, <1>2 DEF Asks, AsksIn
<1>5. /\ DOMAIN callRequests' = DOMAIN callRequests
      /\ \A x \in DOMAIN callRequests :
           callRequests'[x] = callRequests[x] \/ (x = r /\ callRequests'[x] = entry)
  BY DEF ReadAnswer, Put
<1>6. EntryOK(entry)
  BY <1>1, <1>3 DEF EntryOK
<1>7. CallsOK'
  <2>1. \A x \in DOMAIN callRequests : EntryOK(callRequests[x])
    BY DEF Moving, CallsOK
  <2>2. \A x \in DOMAIN callRequests' : EntryOK(callRequests'[x])
    BY <1>5, <1>6, <2>1
  <2> QED
    BY <1>1, <1>5, <2>2 DEF Moving, CallsOK
<1>8. AsksTable' \subseteq Asks
  <2> SUFFICES ASSUME NEW x \in DOMAIN callRequests', callRequests'[x].ready
               PROVE  <<x, callRequests'[x].result[2]>> \in Asks
    BY DEF AsksTable
  <2>1. CASE callRequests'[x] = callRequests[x]
    BY <1>5, <2>1 DEF Asks, AsksTable
  <2>2. CASE x = r /\ callRequests'[x] = entry
    BY <1>4, <2>2
  <2> QED
    BY <1>5, <2>1, <2>2
<1>9. AsksStack' \subseteq Asks /\ AsksOut' \subseteq Asks /\ pending' \subseteq Asks
  BY <1>1 DEF Asks, AsksStack, AsksOut
<1>10. AsksIn' \subseteq Asks
  BY <1>2, InKept DEF Asks
<1>11. TrafficOK'
  BY <1>1, <1>2 DEF Moving, TrafficOK
<1>12. requestId' \in Nat /\ requestId' >= requestId
  BY <1>1 DEF Moving, CallsOK
<1> QED
  BY <1>7, <1>8, <1>9, <1>10, <1>11, <1>12, PlacesShrink DEF Moving

-----------------------------------------------------------------------------
(* Steps of the router *)

LEMMA RouterReadsMoves ==
  ASSUME Moving, RouterReads
  PROVE  Moving'
<1> DEFINE m == Head(out)
<1>1. /\ out # <<>> /\ out' = Tail(out)
      /\ UNCHANGED <<requestId, callRequests, stack>>
      /\ offered' = IF m.code \in {"REGISTER", "SUBSCRIBE"}
                    THEN offered \cup {[code |-> m.code, name |-> m.name]} ELSE offered
      /\ pending' = IF m.code = "CALL"
                    THEN pending \cup {<<m.request, m.args>>} ELSE pending
  BY DEF RouterReads, waits, calls
<1>2. /\ out' \in Seq(Outgoing) /\ Elems(out') \subseteq Elems(out)
      /\ m \in Elems(out) /\ m \in Outgoing
  BY <1>1, ElemsTail DEF Moving, TrafficOK
<1>3. in' = in \/ \E x \in Incoming : x.code \notin Answer /\ Reply(x)
  <2>1. CASE m.code = "HANDSHAKE"
    <3>1. Reply(m)
      BY <2>1 DEF RouterReads
    <3>2. m \in Incoming
      BY <1>2, <2>1 DEF Outgoing, Incoming
    <3> QED
      BY <2>1, <3>1, <3>2 DEF Answer
  <2>2. CASE m.code = "HELLO"
    <3>1. Reply([code |-> "WELCOME"])
      BY <2>2 DEF RouterReads
    <3>2. [code |-> "WELCOME"] \in Incoming
      BY DEF Incoming
    <3> QED
      BY <3>1, <3>2 DEF Answer
  <2>3. CASE m.code = "REGISTER"
    <3>1. Reply([code |-> "REGISTERED", request |-> m.request, id |-> m.name])
      BY <2>3 DEF RouterReads
    <3>2. [code |-> "REGISTERED", request |-> m.request, id |-> m.name] \in Incoming
      BY <1>2, <2>3 DEF Outgoing, Incoming
    <3> QED
      BY <3>1, <3>2 DEF Answer
  <2>4. CASE m.code = "SUBSCRIBE"
    <3>1. Reply([code |-> "SUBSCRIBED", request |-> m.request, id |-> m.name])
      BY <2>4 DEF RouterReads
    <3>2. [code |-> "SUBSCRIBED", request |-> m.request, id |-> m.name] \in Incoming
      BY <1>2, <2>4 DEF Outgoing, Incoming
    <3> QED
      BY <3>1, <3>2 DEF Answer
  <2>5. CASE m.code \notin {"HANDSHAKE", "HELLO", "REGISTER", "SUBSCRIBE"}
    BY <2>5 DEF RouterReads
  <2> QED
    BY <2>1, <2>2, <2>3, <2>4, <2>5
<1>4. /\ in' \in Seq(Incoming)
      /\ \A x \in Elems(in') : x \in Elems(in) \/ x.code \notin Answer
  <2>1. CASE in' = in
    BY <2>1 DEF Moving, TrafficOK
  <2>2. ASSUME NEW y \in Incoming, y.code \notin Answer, Reply(y)
        PROVE  /\ in' \in Seq(Incoming)
               /\ \A x \in Elems(in') : x \in Elems(in) \/ x.code \notin Answer
    BY <2>2, Replied DEF Moving
  <2> QED
    BY <1>3, <2>1, <2>2
<1>5. offered' \subseteq [code : {"REGISTER", "SUBSCRIBE"}, name : STRING]
  <2>1. CASE m.code \in {"REGISTER", "SUBSCRIBE"}
    <3>1. m.name \in STRING
      BY <1>2, <2>1 DEF Outgoing
    <3> QED
      BY <1>1, <2>1, <3>1 DEF Moving, TrafficOK
  <2>2. CASE m.code \notin {"REGISTER", "SUBSCRIBE"}
    BY <1>1, <2>2 DEF Moving, TrafficOK
  <2> QED
    BY <2>1, <2>2
<1>6. pending' \subseteq Nat \X Call /\ pending' \subseteq Asks
  <2>1. CASE m.code = "CALL"
    <3>1. m.request \in Nat /\ m.args \in Call
      BY <1>2, <2>1 DEF Outgoing
    <3>2. <<m.request, m.args>> \in Asks
      BY <1>2, <2>1 DEF Asks, AsksOut
    <3>3. pending \subseteq Nat \X Call /\ pending \subseteq Asks
      BY DEF Moving, TrafficOK, Asks
    <3>4. pending' = pending \cup {<<m.request, m.args>>}
      BY <1>1, <2>1
    <3> HIDE DEF m
    <3> QED
      BY <3>1, <3>2, <3>3, <3>4
  <2>2. CASE m.code # "CALL"
    BY <1>1, <2>2 DEF Moving, TrafficOK, Asks
  <2> QED
    BY <2>1, <2>2
<1>7. AsksOut' \subseteq Asks /\ AsksIn' \subseteq Asks
  BY <1>2, <1>4, OutKept, InKept DEF Asks
<1>8. TrafficOK'
  BY <1>2, <1>4, <1>5, <1>6 DEF TrafficOK
<1> QED
  BY <1>1, <1>6, <1>7, <1>8, CallsWait

LEMMA RouterAnswersMoves ==
  ASSUME Moving, NEW p \in pending, RouterAnswers(p)
  PROVE  Moving'
<1>1. /\ pending' = pending \ {p}
      /\ UNCHANGED <<requestId, callRequests, stack, out, offered>>
  BY DEF RouterAnswers, waits, calls
<1>2. PICK code \in Answer : Reply([code |-> code, request |-> p[1], data |-> p[2]])
  BY DEF RouterAnswers, Answer
<1> DEFINE m == [code |-> code, request |-> p[1], data |-> p[2]]
<1>3. p[1] \in Nat /\ p[2] \in Call /\ p = <<p[1], p[2]>>
  BY DEF Moving, TrafficOK
<1>4. m \in Incoming
  BY <1>3 DEF Incoming
<1>5. in' \in Seq(Incoming) /\ Elems(in') = Elems(in) \cup {m}
  BY <1>2, <1>4, Replied DEF Moving
<1>6. AsksIn' \subseteq AsksIn \cup {p}
  BY <1>3, <1>5 DEF AsksIn
<1>7. AsksIn' \subseteq Asks /\ AsksOut' \subseteq Asks /\ pending' \subseteq Asks
  BY <1>1, <1>6 DEF Asks, AsksOut
<1>8. TrafficOK'
  BY <1>1, <1>5 DEF Moving, TrafficOK
<1> QED
  BY <1>1, <1>7, <1>8, CallsWait

LEMMA RouterSpeaks ==
  ASSUME Moving, RouterGoodbye \/ \E o \in offered : RouterSends(o)
  PROVE  Moving'
<1>1. UNCHANGED <<requestId, callRequests, stack, out, offered, pending>>
  BY DEF RouterGoodbye, RouterSends, waits, calls
<1>2. PICK m \in Incoming : m.code \notin Answer /\ Reply(m)
  <2>1. CASE RouterGoodbye
    <3>1. [code |-> "GOODBYE"] \in Incoming /\ Reply([code |-> "GOODBYE"])
      BY <2>1 DEF RouterGoodbye, Incoming
    <3> QED
      BY <3>1 DEF Answer
  <2>2. ASSUME NEW o \in offered, RouterSends(o)
        PROVE  \E m \in Incoming : m.code \notin Answer /\ Reply(m)
    <3>1. o.name \in STRING
      BY DEF Moving, TrafficOK
    <3>2. PICK code \in {"EVENT", "INVOCATION"} : Reply([code |-> code, id |-> o.name])
      BY <2>2 DEF RouterSends
    <3> DEFINE m == [code |-> code, id |-> o.name]
    <3>3. m \in Incoming /\ m.code \notin Answer
      BY <3>1 DEF Incoming, Answer
    <3> QED
      BY <3>2, <3>3
  <2> QED
    BY <2>1, <2>2
<1>3. in' \in Seq(Incoming) /\ Elems(in') = Elems(in) \cup {m}
  BY <1>2, Replied DEF Moving
<1>4. AsksIn' \subseteq Asks /\ AsksOut' \subseteq Asks /\ pending' \subseteq Asks
  BY <1>1, <1>2, <1>3, InKept DEF Asks, AsksOut
<1>5. TrafficOK'
  BY <1>1, <1>3 DEF Moving, TrafficOK
<1> QED
  BY <1>1, <1>4, <1>5, CallsWait

-----------------------------------------------------------------------------
(* What session and router say to each other *)

\* Nothing is on its way, and the router has nothing to say.
NoTalk == in = <<>> /\ out = <<>> /\ offered = {} /\ pending = {}

Handshake == [code |-> "HANDSHAKE"]
Hello == [code |-> "HELLO"]
Welcome == [code |-> "WELCOME"]

\* Before the welcome one message is on its way, and nobody calls.
Greets ==
  /\ stack = <<>> /\ offered = {} /\ pending = {}
  /\ \/ stage = "Initial" /\ in = <<>> /\ out = <<Handshake>>
     \/ stage = "Initial" /\ in = <<Handshake>> /\ out = <<>>
     \/ stage = "Started" /\ in = <<>> /\ out = <<Hello>>
     \/ stage = "Started" /\ in = <<Welcome>> /\ out = <<>>

Requests(m) == m.code \in {"REGISTER", "SUBSCRIBE"}
Confirms(m) == m.code \in {"REGISTERED", "SUBSCRIBED"}

\* What is requested and confirmed is on file in d, each under an id of its own.
OnFile(i, o, d) ==
  /\ \A k \in 1..Len(o) : Requests(o[k]) => o[k].request \in d
  /\ \A k \in 1..Len(i) : Confirms(i[k]) => i[k].request \in d
  /\ \A j, k \in 1..Len(o) : j # k /\ Requests(o[j]) /\ Requests(o[k]) => o[j].request # o[k].request
  /\ \A j, k \in 1..Len(i) : j # k /\ Confirms(i[j]) /\ Confirms(i[k]) => i[j].request # i[k].request
  /\ \A j \in 1..Len(o), k \in 1..Len(i) : Requests(o[j]) /\ Confirms(i[k]) => o[j].request # i[k].request

\* Procedure id is filed in e, or its confirmation is among the first n messages of i.
Provided(id, i, n, e) ==
  \/ \E x \in e : x[1] = id
  \/ \E j \in 1..n : i[j].code = "REGISTERED" /\ i[j].id = id

\* The confirmation of a procedure precedes every invocation of it.
InOrder(i, e, off) ==
  /\ \A x \in off : x.code = "REGISTER" => Provided(x.name, i, Len(i), e)
  /\ \A k \in 1..Len(i) : i[k].code = "INVOCATION" => Provided(i[k].id, i, k - 1, e)

\* What is said after the welcome: between them they say i and o, d and e are
\* what is on file, off what the router has confirmed.
InTune(i, o, d, e, off) ==
  /\ \A k \in 1..Len(o) : o[k].code \notin {"HANDSHAKE", "HELLO"}
  /\ \A k \in 1..Len(i) : i[k].code \notin {"HANDSHAKE", "WELCOME"}
  /\ OnFile(i, o, d)
  /\ InOrder(i, e, off)

Talks == stage = "Started" /\ InTune(in, out, DOMAIN setups, endpoints, offered)

\* Until a goodbye is read, a socket has one session.
OneSession ==
  /\ ~stale /\ (timer => stage = "Deleted" /\ link = "down" /\ kept # "live")
  /\ link \in {"down", "connecting", "open"}
  /\ link = "open" => isConnected
  /\ link # "open" => sessionId = 0 /\ NoTalk
  /\ link = "connecting" => stage = "Initial" /\ stack = <<>>
  /\ link = "open" /\ sessionId = 0 => Greets
  /\ link = "open" /\ sessionId # 0 => Talks

Orderly == ~parted => OneSession

-----------------------------------------------------------------------------
(* What keeps router and session in tune *)

LEMMA TailFacts ==
  ASSUME NEW S, NEW s \in Seq(S), s # <<>>
  PROVE  /\ Tail(s) \in Seq(S) /\ Len(s) \in Nat \ {0} /\ Len(Tail(s)) = Len(s) - 1
         /\ \A k \in 1..Len(Tail(s)) : k + 1 \in 1..Len(s) /\ Tail(s)[k] = s[k + 1]
         /\ 1 \in 1..Len(s) /\ Head(s) = s[1]
OBVIOUS

LEMMA AppendFacts ==
  ASSUME NEW S, NEW s \in Seq(S), NEW x \in S
  PROVE  /\ Append(s, x) \in Seq(S) /\ Len(s) \in Nat /\ Len(Append(s, x)) = Len(s) + 1
         /\ \A k \in 1..Len(s) : k \in 1..Len(Append(s, x)) /\ Append(s, x)[k] = s[k]
         /\ Append(s, x)[Len(s) + 1] = x
         /\ 1..Len(Append(s, x)) = 1..Len(s) \cup {Len(s) + 1}
<1>1. /\ Append(s, x) \in Seq(S) /\ Len(s) \in Nat /\ Len(Append(s, x)) = Len(s) + 1
      /\ \A k \in 1..Len(s) : k \in 1..Len(Append(s, x)) /\ Append(s, x)[k] = s[k]
      /\ Append(s, x)[Len(s) + 1] = x
  OBVIOUS
<1> QED
  BY <1>1

\* A procedure that is provided stays so when the messages move up.
LEMMA ProvidedTail ==
  ASSUME NEW S, NEW i \in Seq(S), i # <<>>, NEW e, NEW f, e \subseteq f,
         Head(i).code = "REGISTERED" => \E x \in f : x[1] = Head(i).id,
         NEW id, NEW n \in 1..Len(i), Provided(id, i, n, e)
  PROVE  Provided(id, Tail(i), n - 1, f)
<1>1. CASE \E x \in e : x[1] = id
  BY <1>1 DEF Provided
<1>2. ASSUME NEW j \in 1..n, i[j].code = "REGISTERED", i[j].id = id
      PROVE  Provided(id, Tail(i), n - 1, f)
  <2>1. CASE j = 1
    BY <1>2, <2>1, TailFacts DEF Provided
  <2>2. CASE j # 1
    <3>1. j - 1 \in 1..n - 1 /\ Tail(i)[j - 1] = i[j]
      BY <2>2, TailFacts
    <3> QED
      BY <1>2, <3>1 DEF Provided
  <2> QED
    BY <2>1, <2>2
<1> QED
  BY <1>1, <1>2 DEF Provided

\* The session reads a message; a confirmation takes its request off the file.
LEMMA TuneRead ==
  ASSUME NEW S, NEW i \in Seq(S), i # <<>>, NEW T, NEW o \in Seq(T),
         NEW d, NEW e, NEW off, InTune(i, o, d, e, off),
         NEW f, e \subseteq f, Head(i).code = "REGISTERED" => \E x \in f : x[1] = Head(i).id,
         NEW g, d \subseteq g \cup (IF Confirms(Head(i)) THEN {Head(i).request} ELSE {})
  PROVE  InTune(Tail(i), o, g, f, off)
<1> DEFINE t == Tail(i)
<1>0. /\ Len(i) \in Nat \ {0} /\ Len(t) = Len(i) - 1 /\ 1 \in 1..Len(i) /\ Head(i) = i[1]
      /\ \A k \in 1..Len(t) : k + 1 \in 1..Len(i) /\ t[k] = i[k + 1]
  BY TailFacts
<1> HIDE DEF t
<1>1. \A k \in 1..Len(t) : t[k].code \notin {"HANDSHAKE", "WELCOME"}
  BY <1>0 DEF InTune
<1>2. OnFile(t, o, g)
  <2>1. \A k \in 1..Len(o) : Requests(o[k]) => o[k].request \in g
    BY <1>0 DEF InTune, OnFile
  <2>2. \A k \in 1..Len(t) : Confirms(t[k]) => t[k].request \in g
    BY <1>0 DEF InTune, OnFile
  <2>3. \A j, k \in 1..Len(t) : j # k /\ Confirms(t[j]) /\ Confirms(t[k]) => t[j].request # t[k].request
    <3> SUFFICES ASSUME NEW j \in 1..Len(t), NEW k \in 1..Len(t), j # k, Confirms(t[j]), Confirms(t[k])
                 PROVE  t[j].request # t[k].request
      OBVIOUS
    <3>1. j + 1 \in 1..Len(i) /\ k + 1 \in 1..Len(i) /\ j + 1 # k + 1 /\ t[j] = i[j + 1] /\ t[k] = i[k + 1]
      BY <1>0
    <3> QED
      BY <3>1 DEF InTune, OnFile
  <2>4. \A j \in 1..Len(o), k \in 1..Len(t) : Requests(o[j]) /\ Confirms(t[k]) => o[j].request # t[k].request
    BY <1>0 DEF InTune, OnFile
  <2>5. \A j, k \in 1..Len(o) : j # k /\ Requests(o[j]) /\ Requests(o[k]) => o[j].request # o[k].request
    BY DEF InTune, OnFile
  <2> QED
    BY <2>1, <2>2, <2>3, <2>4, <2>5 DEF OnFile
<1>3. InOrder(t, f, off)
  <2>1. ASSUME NEW x \in off, x.code = "REGISTER"
        PROVE  Provided(x.name, t, Len(t), f)
    <3>1. Provided(x.name, i, Len(i), e) /\ Len(i) \in 1..Len(i)
      BY <1>0, <2>1 DEF InTune, InOrder
    <3> QED
      BY <1>0, <3>1, ProvidedTail DEF t
  <2>2. ASSUME NEW k \in 1..Len(t), t[k].code = "INVOCATION"
        PROVE  Provided(t[k].id, t, k - 1, f)
    <3>1. k + 1 \in 1..Len(i) /\ t[k] = i[k + 1] /\ k \in 1..Len(i) /\ k + 1 - 1 = k
      BY <1>0
    <3>2. Provided(t[k].id, i, k, e)
      BY <2>2, <3>1 DEF InTune, InOrder
    <3> QED
      BY <3>1, <3>2, ProvidedTail DEF t
  <2> QED
    BY <2>1, <2>2 DEF InOrder
<1> QED
  BY <1>1, <1>2, <1>3 DEF InTune, t

\* The session sends what is no request.
LEMMA TuneSend ==
  ASSUME NEW i, NEW T, NEW o \in Seq(T), NEW d, NEW e, NEW off, InTune(i, o, d, e, off),
         NEW m \in T, ~Requests(m), m.code \notin {"HANDSHAKE", "HELLO"}
  PROVE  InTune(i, Append(o, m), d, e, off)
<1> DEFINE t == Append(o, m)
<1>1. /\ Len(o) \in Nat /\ Len(t) = Len(o) + 1 /\ t[Len(o) + 1] = m
      /\ \A k \in 1..Len(t) : t[k] = m \/ (k \in 1..Len(o) /\ t[k] = o[k])
  BY AppendFacts
<1> HIDE DEF t
<1>2. \A k \in 1..Len(t) : t[k].code \notin {"HANDSHAKE", "HELLO"}
  BY <1>1 DEF InTune
<1>3. OnFile(i, t, d)
  <2>1. \A k \in 1..Len(t) : Requests(t[k]) => k \in 1..Len(o) /\ t[k] = o[k]
    BY <1>1
  <2> QED
    BY <2>1 DEF InTune, OnFile
<1> QED
  BY <1>2, <1>3 DEF InTune, t

\* What is provided stays so when a message is added.
LEMMA ProvidedAppend ==
  ASSUME NEW S, NEW i \in Seq(S), NEW m \in S, NEW e, NEW id, NEW n \in 0..Len(i),
         NEW k \in n..Len(i) + 1, Provided(id, i, n, e)
  PROVE  Provided(id, Append(i, m), k, e)
<1>1. Len(i) \in Nat /\ \A j \in 1..n : j \in 1..Len(i) /\ j \in 1..k /\ Append(i, m)[j] = i[j]
  BY AppendFacts
<1> QED
  BY <1>1 DEF Provided

\* The router says what is no confirmation, invocations of what is provided only.
LEMMA TuneReply ==
  ASSUME NEW S, NEW i \in Seq(S), NEW o, NEW d, NEW e, NEW off, InTune(i, o, d, e, off),
         NEW m \in S, ~Confirms(m), m.code \notin {"HANDSHAKE", "WELCOME"},
         m.code = "INVOCATION" => Provided(m.id, i, Len(i), e)
  PROVE  InTune(Append(i, m), o, d, e, off)
<1> DEFINE t == Append(i, m)
           n == Len(i)
<1>1. /\ n \in Nat /\ Len(t) = n + 1 /\ t[n + 1] = m
      /\ \A k \in 1..Len(t) : k = n + 1 \/ (k \in 1..n /\ t[k] = i[k])
  BY AppendFacts
<1>2. \A id : \A k \in 0..n : Provided(id, i, k, e) => Provided(id, t, k, e)
  BY ProvidedAppend, AppendFacts
<1>3. \A id : Provided(id, i, n, e) => Provided(id, t, n + 1, e)
  BY <1>1, ProvidedAppend
<1> HIDE DEF t, n
<1>4. \A k \in 1..Len(t) : t[k].code \notin {"HANDSHAKE", "WELCOME"}
  BY <1>1 DEF InTune, n
<1>5. OnFile(t, o, d)
  <2>1. \A k \in 1..Len(t) : Confirms(t[k]) => k \in 1..n /\ t[k] = i[k]
    BY <1>1
  <2> QED
    BY <2>1 DEF InTune, OnFile, n
<1>6. InOrder(t, e, off)
  <2>1. \A x \in off : x.code = "REGISTER" => Provided(x.name, t, Len(t), e)
    BY <1>1, <1>3 DEF InTune, InOrder, n
  <2>2. ASSUME NEW k \in 1..Len(t), t[k].code = "INVOCATION"
        PROVE  Provided(t[k].id, t, k - 1, e)
    <3>1. CASE k = n + 1
      <4>1. Provided(t[k].id, i, n, e) /\ k - 1 = n /\ n \in 0..n
        BY <1>1, <2>2, <3>1 DEF n
      <4> QED
        BY <1>2, <4>1
    <3>2. CASE k \in 1..n /\ t[k] = i[k]
      <4>1. Provided(t[k].id, i, k - 1, e) /\ k - 1 \in 0..n
        BY <1>1, <2>2, <3>2 DEF InTune, InOrder, n
      <4> QED
        BY <1>2, <4>1
    <3> QED
      BY <1>1, <3>1, <3>2
  <2> QED
    BY <2>1, <2>2 DEF InOrder
<1> QED
  BY <1>4, <1>5, <1>6 DEF InTune, t

\* The router reads a message.
LEMMA TuneTake ==
  ASSUME NEW i, NEW T, NEW o \in Seq(T), o # <<>>, NEW d, NEW e, NEW off, InTune(i, o, d, e, off)
  PROVE  /\ InTune(i, Tail(o), d, e, off)
         /\ Requests(Head(o)) =>
              /\ Head(o).request \in d
              /\ \A k \in 1..Len(Tail(o)) : Requests(Tail(o)[k]) => Tail(o)[k].request # Head(o).request
              /\ \A k \in 1..Len(i) : Confirms(i[k]) => i[k].request # Head(o).request
<1> DEFINE t == Tail(o)
<1>1. /\ Len(o) \in Nat \ {0} /\ Len(t) = Len(o) - 1 /\ 1 \in 1..Len(o) /\ Head(o) = o[1]
      /\ \A k \in 1..Len(t) : k + 1 \in 1..Len(o) /\ k + 1 # 1 /\ t[k] = o[k + 1]
  BY TailFacts
<1> HIDE DEF t
<1>2. \A k \in 1..Len(t) : t[k].code \notin {"HANDSHAKE", "HELLO"}
  BY <1>1 DEF InTune
<1>3. OnFile(i, t, d)
  <2>1. \A k \in 1..Len(t) : Requests(t[k]) => t[k].request \in d
    BY <1>1 DEF InTune, OnFile
  <2>2. \A j, k \in 1..Len(t) : j # k /\ Requests(t[j]) /\ Requests(t[k]) => t[j].request # t[k].request
    <3> SUFFICES ASSUME NEW j \in 1..Len(t), NEW k \in 1..Len(t), j # k, Requests(t[j]), Requests(t[k])
                 PROVE  t[j].request # t[k].request
      OBVIOUS
    <3>1. j + 1 \in 1..Len(o) /\ k + 1 \in 1..Len(o) /\ j + 1 # k + 1 /\ t[j] = o[j + 1] /\ t[k] = o[k + 1]
      BY <1>1
    <3> QED
      BY <3>1 DEF InTune, OnFile
  <2>3. \A j \in 1..Len(t), k \in 1..Len(i) : Requests(t[j]) /\ Confirms(i[k]) => t[j].request # i[k].request
    BY <1>1 DEF InTune, OnFile
  <2> QED
    BY <2>1, <2>2, <2>3 DEF InTune, OnFile
<1>4. Requests(Head(o)) =>
        /\ Head(o).request \in d
        /\ \A k \in 1..Len(t) : Requests(t[k]) => t[k].request # Head(o).request
        /\ \A k \in 1..Len(i) : Confirms(i[k]) => i[k].request # Head(o).request
  <2> SUFFICES ASSUME Requests(o[1])
               PROVE  /\ o[1].request \in d
                      /\ \A k \in 1..Len(t) : Requests(t[k]) => t[k].request # o[1].request
                      /\ \A k \in 1..Len(i) : Confirms(i[k]) => i[k].request # o[1].request
    BY <1>1
  <2> QED
    BY <1>1 DEF InTune, OnFile
<1> QED
  BY <1>2, <1>3, <1>4 DEF InTune, t

\* It confirms a request, and may call the procedure from now on.
LEMMA TuneConfirm ==
  ASSUME NEW S, NEW i \in Seq(S), NEW o, NEW d, NEW e, NEW off, InTune(i, o, d, e, off),
         NEW m \in S, Confirms(m), m.request \in d,
         \A k \in 1..Len(o) : Requests(o[k]) => o[k].request # m.request,
         \A k \in 1..Len(i) : Confirms(i[k]) => i[k].request # m.request,
         NEW x, x.code = "REGISTER" => m.code = "REGISTERED" /\ m.id = x.name
  PROVE  InTune(Append(i, m), o, d, e, off \cup {x})
<1> DEFINE t == Append(i, m)
           n == Len(i)
<1>1. /\ n \in Nat /\ Len(t) = n + 1 /\ n + 1 \in 1..Len(t) /\ t[n + 1] = m
      /\ \A k \in 1..Len(t) : k = n + 1 \/ (k \in 1..n /\ t[k] = i[k])
  BY AppendFacts
<1>2. \A id : \A k \in 0..n : Provided(id, i, k, e) => Provided(id, t, k, e)
  BY ProvidedAppend, AppendFacts
<1>3. \A id : Provided(id, i, n, e) => Provided(id, t, n + 1, e)
  BY <1>1, ProvidedAppend
<1> HIDE DEF t, n
<1>4. \A k \in 1..Len(t) : t[k].code \notin {"HANDSHAKE", "WELCOME"}
  BY <1>1 DEF InTune, Confirms, n
<1>5. OnFile(t, o, d)
  <2>1. \A k \in 1..Len(t) : Confirms(t[k]) => t[k].request \in d
    BY <1>1 DEF InTune, OnFile, n
  <2>2. \A j, k \in 1..Len(t) : j # k /\ Confirms(t[j]) /\ Confirms(t[k]) => t[j].request # t[k].request
    <3> SUFFICES ASSUME NEW j \in 1..Len(t), NEW k \in 1..Len(t), j # k, Confirms(t[j]), Confirms(t[k])
                 PROVE  t[j].request # t[k].request
      OBVIOUS
    <3>1. CASE j = n + 1
      BY <1>1, <3>1 DEF n
    <3>2. CASE k = n + 1
      BY <1>1, <3>2 DEF n
    <3>3. CASE j # n + 1 /\ k # n + 1
      BY <1>1, <3>3 DEF InTune, OnFile, n
    <3> QED
      BY <3>1, <3>2, <3>3
  <2>3. \A j \in 1..Len(o), k \in 1..Len(t) : Requests(o[j]) /\ Confirms(t[k]) => o[j].request # t[k].request
    BY <1>1 DEF InTune, OnFile, n
  <2> QED
    BY <2>1, <2>2, <2>3 DEF InTune, OnFile
<1>6. InOrder(t, e, off \cup {x})
  <2>1. \A y \in off : y.code = "REGISTER" => Provided(y.name, t, Len(t), e)
    BY <1>1, <1>3 DEF InTune, InOrder, n
  <2>2. x.code = "REGISTER" => Provided(x.name, t, Len(t), e)
    BY <1>1 DEF Provided
  <2>3. ASSUME NEW k \in 1..Len(t), t[k].code = "INVOCATION"
        PROVE  Provided(t[k].id, t, k - 1, e)
    <3>1. k \in 1..n /\ t[k] = i[k]
      BY <1>1, <2>3 DEF Confirms
    <3>2. Provided(t[k].id, i, k - 1, e) /\ k - 1 \in 0..n
      BY <1>1, <2>3, <3>1 DEF InTune, InOrder, n
    <3> QED
      BY <1>2, <3>2
  <2> QED
    BY <2>1, <2>2, <2>3 DEF InOrder
<1> QED
  BY <1>4, <1>5, <1>6 DEF InTune, t

\* The first thing said after the welcome.
LEMMA TuneBegins ==
  ASSUME NEW n \in Nat, NEW r \in Nat, NEW o, Len(o) = n,
         \A k \in 1..n : Requests(o[k]) /\ o[k].request = r + k, NEW e
  PROVE  InTune(<<>>, o, r + 1 .. r + n, e, {})
<1>1. OnFile(<<>>, o, r + 1 .. r + n)
  BY DEF OnFile
<1>2. InOrder(<<>>, e, {})
  BY DEF InOrder
<1> QED
  BY <1>1, <1>2 DEF InTune, Requests

-----------------------------------------------------------------------------
(* Until a goodbye is read *)

LEMMA RestartIsOrderly ==
  ASSUME Restart
  PROVE  OneSession'
BY DEF Restart, NewSession, NoTraffic, OneSession, NoTalk

\* A step after the welcome that keeps session and router in tune.
LEMMA StaysInTune ==
  ASSUME OneSession, link = "open", sessionId # 0,
         UNCHANGED <<link, stale, timer, isConnected, stage, sessionId>>,
         InTune(in', out', DOMAIN setups', endpoints', offered')
  PROVE  OneSession'
BY DEF OneSession, Talks

\* Talking means that the session has been welcomed, or that it is being so.
LEMMA WhoReads ==
  ASSUME OneSession, in # <<>>
  PROVE  /\ link = "open" /\ isConnected
         /\ sessionId = 0 => Greets
         /\ sessionId # 0 => Talks
BY DEF OneSession, NoTalk

LEMMA SendOne ==
  ASSUME Moving, NEW m \in Outgoing, Send(<<m>>), link = "open"
  PROVE  out' = Append(out, m)
BY AppendIsConcat DEF Send, Moving, TrafficOK

LEMMA SendNone ==
  ASSUME Moving, Send(<<>>)
  PROVE  out' = out
<1>1. out \in Seq(Outgoing)
  BY DEF Moving, TrafficOK
<1>2. out \o <<>> = out
  BY <1>1, ConcatEmptySeq
<1> QED
  BY <1>2 DEF Send

LEMMA SentNowhere ==
  ASSUME NEW m, Send(m), link # "open"
  PROVE  out' = out
BY DEF Send

\* What is sent after the welcome, when it is no request.
LEMMA SendsOn ==
  ASSUME Moving, OneSession, link = "open", sessionId # 0,
         NEW m \in Outgoing, Send(<<m>>), ~Requests(m), m.code \notin {"HANDSHAKE", "HELLO"}
  PROVE  InTune(in, out', DOMAIN setups, endpoints, offered)
<1>1. out \in Seq(Outgoing) /\ out' = Append(out, m)
  BY SendOne DEF Moving, TrafficOK
<1>2. InTune(in, out, DOMAIN setups, endpoints, offered)
  BY DEF OneSession, Talks
<1> QED
  BY <1>1, <1>2, TuneSend

LEMMA ConnectIsOrderly ==
  ASSUME OneSession, Connected \/ ConnectFails \/ Disconnected \/ StartClient
  PROVE  OneSession'
<1>1. CASE Connected
  BY <1>1 DEF Connected, OneSession, NoTalk, Greets, session, waits, calls, router, Handshake
<1>2. CASE ConnectFails
  BY <1>2 DEF ConnectFails, OneSession, NoTalk, session, waits, calls, router
<1>3. CASE Disconnected
  BY <1>3 DEF Disconnected, OneSession, NoTalk, NoTraffic, Closed
<1>4. CASE StartClient
  BY <1>4 DEF StartClient, OneSession, NoTalk, NewSession, NoTraffic
<1> QED
  BY <1>1, <1>2, <1>3, <1>4

\* A call is made, answered, given up: only after the welcome anything is sent.
LEMMA BeginIsOrderly ==
  ASSUME Moving, OneSession, NEW c \in Call, NEW inv, BeginCall(c, inv)
  PROVE  link = "open" /\ sessionId # 0 /\ InTune(in, out', DOMAIN setups, endpoints, offered)
<1> DEFINE m == [code |-> "CALL", request |-> NextRequest, args |-> c]
<1>1. sessionId # 0 /\ Send(<<m>>)
  BY DEF BeginCall
<1>2. m \in Outgoing
  BY DEF Outgoing, NextRequest, Moving, CallsOK
<1>3. ~Requests(m) /\ m.code \notin {"HANDSHAKE", "HELLO"}
  BY DEF Requests
<1>4. link = "open"
  BY <1>1 DEF OneSession
<1> HIDE DEF m
<1> QED
  BY <1>1, <1>2, <1>3, <1>4, SendsOn

LEMMA CallOutIsOrderly ==
  ASSUME Moving, OneSession, NEW c \in Call, CallOut(c)
  PROVE  OneSession'
<1>1. BeginCall(c, FALSE) /\ UNCHANGED <<client, session, tables, in, router>>
  BY DEF CallOut
<1>2. link = "open" /\ sessionId # 0 /\ InTune(in, out', DOMAIN setups, endpoints, offered)
  BY <1>1, BeginIsOrderly
<1> QED
  BY <1>1, <1>2, StaysInTune DEF client, session, tables, router

LEMMA EndIsOrderly ==
  ASSUME Moving, OneSession, stack # <<>>, NEW v, EndCall(v)
  PROVE  OneSession'
<1>1. UNCHANGED <<client, session, tables, in, router>>
  BY DEF EndCall
<1>2. UNCHANGED <<link, stale, timer, kept, isConnected, stage, sessionId, setups, endpoints,
                 in, offered, pending>>
  BY <1>1 DEF client, session, tables, router
<1>3. Send(IF Top.inv THEN <<[code |-> "YIELD"]>> ELSE <<>>)
  BY DEF EndCall
<1>4. CASE link # "open"
  <2>1. out' = out
    BY <1>3, <1>4, SentNowhere
  <2> QED
    BY <1>2, <1>4, <2>1 DEF OneSession, NoTalk
<1>5. CASE link = "open"
  <2>1. sessionId # 0
    BY <1>5 DEF OneSession, Greets
  <2>2. InTune(in, out', DOMAIN setups, endpoints, offered)
    <3>1. CASE Top.inv
      <4> DEFINE m == [code |-> "YIELD"]
      <4>1. m \in Outgoing /\ ~Requests(m) /\ m.code \notin {"HANDSHAKE", "HELLO"} /\ Send(<<m>>)
        BY <1>3, <3>1 DEF Outgoing, Requests
      <4> HIDE DEF m
      <4> QED
        BY <1>5, <2>1, <4>1, SendsOn
    <3>2. CASE ~Top.inv
      <4>1. out' = out
        BY <1>3, <3>2, SendNone
      <4> QED
        BY <1>5, <2>1, <4>1 DEF OneSession, Talks
    <3> QED
      BY <3>1, <3>2
  <2> QED
    BY <1>2, <1>5, <2>1, <2>2, StaysInTune
<1> QED
  BY <1>4, <1>5

LEMMA HandshakeIsOrderly ==
  ASSUME Moving, OneSession, ReadHandshake
  PROVE  OneSession'
<1>1. in # <<>> /\ Msg.code = "HANDSHAKE" /\ ~stale
  BY DEF ReadHandshake, OneSession
<1>2. in \in Seq(Incoming) /\ 1 \in 1..Len(in) /\ Msg = in[1]
  <2>1. in \in Seq(Incoming)
    BY DEF Moving, TrafficOK
  <2> QED
    BY <1>1, <2>1, TailFacts DEF Msg
<1>3. ~Talks
  BY <1>1, <1>2 DEF Talks, InTune
<1>4. link = "open" /\ isConnected /\ sessionId = 0 /\ Greets
  BY <1>1, <1>3, WhoReads
<1>5. in = <<Handshake>> /\ out = <<>>
  BY <1>1, <1>4 DEF Greets, Msg, Welcome
<1>6. in' = <<>>
  BY <1>5 DEF ReadHandshake, Consume
<1>7. out' = <<Hello>>
  BY <1>4, <1>5 DEF ReadHandshake, Send, Hello
<1>8. stage' = "Started" /\ UNCHANGED <<link, stale, timer, isConnected, sessionId, stack, offered, pending>>
  BY <1>1 DEF ReadHandshake, client, waits, calls, router
<1> QED
  BY <1>4, <1>6, <1>7, <1>8 DEF OneSession, Greets

LEMMA WelcomeIsOrderly ==
  ASSUME Moving, OneSession, ReadWelcome
  PROVE  OneSession'
<1>1. in # <<>> /\ Msg.code = "WELCOME" /\ stage = "Started"
  BY DEF ReadWelcome, Reads
<1>2. in \in Seq(Incoming) /\ 1 \in 1..Len(in) /\ Msg = in[1]
  <2>1. in \in Seq(Incoming)
    BY DEF Moving, TrafficOK
  <2> QED
    BY <1>1, <2>1, TailFacts DEF Msg
<1>3. ~Talks
  BY <1>1, <1>2 DEF Talks, InTune
<1>4. link = "open" /\ isConnected /\ sessionId = 0 /\ Greets
  BY <1>1, <1>3, WhoReads
<1>5. in = <<Welcome>> /\ out = <<>> /\ offered = {}
  BY <1>1, <1>4 DEF Greets
<1>6. CASE Restart
  BY <1>6, RestartIsOrderly
<1>7. CASE /\ Consume /\ SetUp /\ sessionId' = 1
           /\ UNCHANGED <<link, isConnected, timer, stale, stage, endpoints, router>>
  <2>1. in' = <<>>
    BY <1>5, <1>7 DEF Consume
  <2> DEFINE n == Len(Setup)
             asks == [k \in 1..n |-> [code |-> Setup[k].code, request |-> requestId + k,
                                      name |-> Setup[k].name]]
  <2>2. /\ setups' = [r \in requestId + 1 .. requestId + n |-> Setup[r - requestId]]
        /\ Send(asks)
    BY <1>7 DEF SetUp
  <2>3. n \in Nat /\ requestId \in Nat
        /\ \A k \in 1..n : Setup[k] \in [code : {"REGISTER", "SUBSCRIBE"}, name : STRING]
    <3>1. Setup \in Seq([code : {"REGISTER", "SUBSCRIBE"}, name : STRING])
      BY WampOK
    <3>2. n \in Nat
      BY <3>1, LenProperties
    <3>3. \A k \in 1..n : Setup[k] \in [code : {"REGISTER", "SUBSCRIBE"}, name : STRING]
      BY <3>1, ElementOfSeq
    <3>4. requestId \in Nat
      BY DEF Moving, CallsOK
    <3> QED
      BY <3>2, <3>3, <3>4
  <2>4. \A k \in 1..n : asks[k] \in Outgoing /\ Requests(asks[k]) /\ asks[k].request = requestId + k
    BY <2>3 DEF Outgoing, Requests
  <2>5. asks \in Seq(Outgoing) /\ Len(asks) = n
    BY <2>3, <2>4
  <2> HIDE DEF asks
  <2>6. out' = asks
    <3>1. out' = <<>> \o asks
      BY <1>4, <1>5, <2>2 DEF Send
    <3> QED
      BY <2>5, <3>1, ConcatEmptySeq
  <2>7. DOMAIN setups' = requestId + 1 .. requestId + n
    BY <2>2
  <2>8. InTune(in', out', DOMAIN setups', endpoints', offered')
    <3>1. InTune(<<>>, asks, requestId + 1 .. requestId + n, endpoints', {})
      BY <2>3, <2>4, <2>5, TuneBegins
    <3>2. offered' = {}
      BY <1>5, <1>7 DEF router
    <3> QED
      BY <2>1, <2>6, <2>7, <3>1, <3>2
  <2> QED
    BY <1>1, <1>4, <1>7, <2>8 DEF OneSession, Talks
<1>8. CASE Consume /\ sessionId' = 1 /\ UNCHANGED <<client, stage, tables, waits, out, router>>
  <2>1. in' = <<>> /\ out' = <<>> /\ offered' = {}
    BY <1>5, <1>8 DEF Consume, router
  <2>2. InTune(in', out', DOMAIN setups', endpoints', offered')
    BY <2>1 DEF InTune, OnFile, InOrder
  <2> QED
    BY <1>1, <1>4, <1>8, <2>2 DEF OneSession, Talks, client
<1> QED
  BY <1>6, <1>7, <1>8 DEF ReadWelcome

\* What is read after the welcome.
LEMMA TalkRead ==
  ASSUME Moving, OneSession, in # <<>>, stage = "Started", Msg.code # "WELCOME", Consume
  PROVE  /\ link = "open" /\ sessionId # 0 /\ in \in Seq(Incoming) /\ out \in Seq(Outgoing)
         /\ in' = Tail(in) /\ Msg = Head(in)
         /\ InTune(in, out, DOMAIN setups, endpoints, offered)
<1>1. link = "open" /\ (sessionId = 0 => Greets) /\ (sessionId # 0 => Talks)
  BY WhoReads
<1>2. ~Greets
  BY DEF Greets, Msg, Welcome
<1> QED
  BY <1>1, <1>2 DEF Moving, TrafficOK, Talks, Consume, Msg

LEMMA ConfirmedIsOrderly ==
  ASSUME Moving, OneSession, ReadConfirmed
  PROVE  OneSession'
<1>1. /\ in # <<>> /\ stage = "Started" /\ Confirms(Msg) /\ Consume
      /\ setups' = Remove(setups, Msg.request)
      /\ UNCHANGED <<client, session, out, router>>
  BY DEF ReadConfirmed, Reads, Confirms
<1>2. Msg.code # "WELCOME"
  BY <1>1 DEF Confirms
<1>3. /\ link = "open" /\ sessionId # 0 /\ in \in Seq(Incoming) /\ out \in Seq(Outgoing)
      /\ in' = Tail(in) /\ Msg = Head(in)
      /\ InTune(in, out, DOMAIN setups, endpoints, offered)
  BY <1>1, <1>2, TalkRead
<1>4. /\ endpoints \subseteq endpoints'
      /\ Msg.code = "REGISTERED" => \E x \in endpoints' : x[1] = Msg.id
  <2> DEFINE entry == <<Msg.id, setups[Msg.request].name>>
  <2>1. endpoints' = IF Msg.code = "REGISTERED" THEN endpoints \cup {entry} ELSE endpoints
    BY DEF ReadConfirmed
  <2>2. entry[1] = Msg.id
    OBVIOUS
  <2> HIDE DEF entry
  <2> QED
    BY <2>1, <2>2
<1>5. DOMAIN setups \subseteq DOMAIN setups' \cup (IF Confirms(Head(in)) THEN {Head(in).request} ELSE {})
  BY <1>1, <1>3 DEF Remove
<1>6. InTune(in', out, DOMAIN setups', endpoints', offered)
  BY <1>1, <1>3, <1>4, <1>5, TuneRead
<1> QED
  BY <1>1, <1>3, <1>6, StaysInTune DEF client, session, router

\* A message that is no confirmation.
LEMMA OtherRead ==
  ASSUME Moving, OneSession, in # <<>>, stage = "Started", Consume,
         Msg.code \in {"EVENT", "INVOCATION", "RESULT", "ERROR"},
         NEW o, \/ o = out
                \/ \E m \in Outgoing : o = Append(out, m) /\ ~Requests(m) /\ m.code \notin {"HANDSHAKE", "HELLO"}
  PROVE  InTune(in', o, DOMAIN setups, endpoints, offered) /\ link = "open" /\ sessionId # 0
<1>1. /\ link = "open" /\ sessionId # 0 /\ in \in Seq(Incoming) /\ out \in Seq(Outgoing)
      /\ in' = Tail(in) /\ Msg = Head(in)
      /\ InTune(in, out, DOMAIN setups, endpoints, offered)
  BY TalkRead
<1>2. Head(in).code # "REGISTERED"
  BY <1>1
<1>3. InTune(in', out, DOMAIN setups, endpoints, offered)
  BY <1>1, <1>2, TuneRead
<1>4. ASSUME NEW m \in Outgoing, o = Append(out, m), ~Requests(m), m.code \notin {"HANDSHAKE", "HELLO"}
      PROVE  InTune(in', o, DOMAIN setups, endpoints, offered)
  BY <1>1, <1>3, <1>4, TuneSend
<1> QED
  BY <1>1, <1>3, <1>4

LEMMA HandlerIsOrderly ==
  ASSUME Moving, OneSession, ReadEvent \/ ReadInvocation \/ ReadAnswer
  PROVE  OneSession'
<1>1. /\ in # <<>> /\ stage = "Started" /\ Consume
      /\ Msg.code \in {"EVENT", "INVOCATION", "RESULT", "ERROR"}
      /\ UNCHANGED <<client, session, tables, router>>
  BY DEF ReadEvent, ReadInvocation, ReadAnswer, Reads
<1>2. link = "open"
  BY <1>1, WhoReads
<1>3. \/ out' = out
      \/ \E m \in Outgoing : out' = Append(out, m) /\ ~Requests(m) /\ m.code \notin {"HANDSHAKE", "HELLO"}
  <2>1. ASSUME NEW c \in Call, NEW inv, BeginCall(c, inv)
        PROVE  \E m \in Outgoing : out' = Append(out, m) /\ ~Requests(m) /\ m.code \notin {"HANDSHAKE", "HELLO"}
    <3> DEFINE m == [code |-> "CALL", request |-> NextRequest, args |-> c]
    <3>1. m \in Outgoing /\ ~Requests(m) /\ m.code \notin {"HANDSHAKE", "HELLO"} /\ Send(<<m>>)
      BY <2>1 DEF BeginCall, Outgoing, Requests, NextRequest, Moving, CallsOK
    <3> HIDE DEF m
    <3> QED
      BY <1>2, <3>1, SendOne
  <2>2. ASSUME NEW code \in {"YIELD", "ERROR"}, Send(<<[code |-> code]>>)
        PROVE  \E m \in Outgoing : out' = Append(out, m) /\ ~Requests(m) /\ m.code \notin {"HANDSHAKE", "HELLO"}
    <3> DEFINE m == [code |-> code]
    <3>1. m \in Outgoing /\ ~Requests(m) /\ m.code \notin {"HANDSHAKE", "HELLO"} /\ Send(<<m>>)
      BY <2>2 DEF Outgoing, Requests
    <3> HIDE DEF m
    <3> QED
      BY <1>2, <3>1, SendOne
  <2> QED
    BY <2>1, <2>2 DEF ReadEvent, ReadInvocation, ReadAnswer
<1>4. InTune(in', out', DOMAIN setups, endpoints, offered) /\ link = "open" /\ sessionId # 0
  BY <1>1, <1>3, OtherRead
<1> QED
  BY <1>1, <1>4, StaysInTune DEF client, session, tables, router

-----------------------------------------------------------------------------
(* The router, until a goodbye is read *)

LEMMA RouterReadsIsOrderly ==
  ASSUME Moving, OneSession, RouterReads
  PROVE  OneSession'
<1> DEFINE m == Head(out)
<1>1. /\ link = "open" /\ out # <<>> /\ out' = Tail(out)
      /\ UNCHANGED <<client, session, tables, waits>>
      /\ offered' = IF m.code \in {"REGISTER", "SUBSCRIBE"}
                    THEN offered \cup {[code |-> m.code, name |-> m.name]} ELSE offered
      /\ pending' = IF m.code = "CALL"
                    THEN pending \cup {<<m.request, m.args>>} ELSE pending
  BY DEF RouterReads
<1>2. in \in Seq(Incoming) /\ out \in Seq(Outgoing) /\ 1 \in 1..Len(out) /\ m = out[1] /\ m \in Outgoing
  <2>1. in \in Seq(Incoming) /\ out \in Seq(Outgoing)
    BY DEF Moving, TrafficOK
  <2> QED
    BY <1>1, <2>1, TailFacts, ElemsTail
<1>3. /\ m.code = "HANDSHAKE" => Reply(m)
      /\ m.code = "HELLO" => Reply(Welcome)
      /\ m.code = "REGISTER" => Reply([code |-> "REGISTERED", request |-> m.request, id |-> m.name])
      /\ m.code = "SUBSCRIBE" => Reply([code |-> "SUBSCRIBED", request |-> m.request, id |-> m.name])
      /\ m.code \notin {"HANDSHAKE", "HELLO", "REGISTER", "SUBSCRIBE"} => in' = in
  BY DEF RouterReads, Welcome
<1>4. CASE sessionId = 0
  <2>1. Greets /\ stack' = stack
    BY <1>1, <1>4 DEF OneSession, waits, calls
  <2>2. CASE stage = "Initial" /\ in = <<>> /\ out = <<Handshake>>
    <3>1. m = Handshake
      BY <2>2
    <3>2. in' = <<Handshake>> /\ out' = <<>> /\ offered' = offered /\ pending' = pending
      BY <1>1, <1>3, <2>2, <3>1 DEF Handshake, Reply
    <3> QED
      BY <1>1, <1>4, <2>1, <2>2, <3>2 DEF OneSession, Greets, client, session
  <2>3. CASE stage = "Started" /\ in = <<>> /\ out = <<Hello>>
    <3>1. m = Hello
      BY <2>3
    <3>2. in' = <<Welcome>> /\ out' = <<>> /\ offered' = offered /\ pending' = pending
      BY <1>1, <1>3, <2>3, <3>1 DEF Hello, Reply
    <3> QED
      BY <1>1, <1>4, <2>1, <2>3, <3>2 DEF OneSession, Greets, client, session
  <2> QED
    BY <1>1, <2>1, <2>2, <2>3 DEF Greets
<1>5. CASE sessionId # 0
  <2>1. InTune(in, out, DOMAIN setups, endpoints, offered)
    BY <1>1, <1>5 DEF OneSession, Talks
  <2>2. /\ InTune(in, Tail(out), DOMAIN setups, endpoints, offered)
        /\ Requests(m) =>
             /\ m.request \in DOMAIN setups
             /\ \A k \in 1..Len(Tail(out)) : Requests(Tail(out)[k]) => Tail(out)[k].request # m.request
             /\ \A k \in 1..Len(in) : Confirms(in[k]) => in[k].request # m.request
    BY <1>1, <1>2, <2>1, TuneTake
  <2>3. m.code \notin {"HANDSHAKE", "HELLO"}
    BY <1>2, <2>1 DEF InTune
  <2> HIDE DEF m
  <2>4. CASE Requests(m)
    <3> DEFINE code == IF m.code = "REGISTER" THEN "REGISTERED" ELSE "SUBSCRIBED"
               reply == [code |-> code, request |-> m.request, id |-> m.name]
               offer == [code |-> m.code, name |-> m.name]
    <3>1. Reply(reply) /\ offered' = offered \cup {offer}
      BY <1>1, <1>3, <2>4 DEF Requests
    <3>2. m.request \in Nat /\ m.name \in STRING
      BY <1>2, <2>4 DEF Outgoing, Requests
    <3>3. reply \in Incoming /\ Confirms(reply) /\ reply.request = m.request
      BY <3>2 DEF Incoming, Confirms
    <3>4. offer.code = "REGISTER" => reply.code = "REGISTERED" /\ reply.id = offer.name
      OBVIOUS
    <3> HIDE DEF reply, offer
    <3>5. InTune(Append(in, reply), Tail(out), DOMAIN setups, endpoints, offered \cup {offer})
      BY <1>2, <2>2, <2>4, <3>3, <3>4, TuneConfirm
    <3> QED
      BY <1>1, <1>5, <3>1, <3>5, StaysInTune DEF Reply, client, session, tables
  <2>5. CASE ~Requests(m)
    <3>1. in' = in /\ offered' = offered
      BY <1>1, <1>3, <2>3, <2>5 DEF Requests
    <3> QED
      BY <1>1, <1>5, <2>2, <3>1, StaysInTune DEF client, session, tables
  <2> QED
    BY <2>4, <2>5
<1> QED
  BY <1>4, <1>5

\* The router says something by itself: there is a welcome behind it.
LEMMA RouterSaysIsOrderly ==
  ASSUME Moving, OneSession, NEW m \in Incoming, Reply(m), offered # {} \/ pending # {},
         ~Confirms(m), m.code \notin {"HANDSHAKE", "WELCOME"},
         m.code = "INVOCATION" => \E o \in offered : o.code = "REGISTER" /\ o.name = m.id,
         UNCHANGED <<client, session, tables, out, offered>>
  PROVE  OneSession'
<1>1. link = "open" /\ sessionId # 0
  BY DEF OneSession, NoTalk, Greets
<1>2. InTune(in, out, DOMAIN setups, endpoints, offered)
  BY <1>1 DEF OneSession, Talks
<1>3. m.code = "INVOCATION" => Provided(m.id, in, Len(in), endpoints)
  BY <1>2 DEF InTune, InOrder
<1>4. in \in Seq(Incoming)
  BY DEF Moving, TrafficOK
<1>5. InTune(Append(in, m), out, DOMAIN setups, endpoints, offered)
  BY <1>2, <1>3, <1>4, TuneReply
<1> QED
  BY <1>1, <1>5, StaysInTune DEF Reply, client, session, tables

LEMMA RouterIsOrderly ==
  ASSUME Moving, OneSession,
         RouterGoodbye \/ (\E p \in pending : RouterAnswers(p)) \/ \E o \in offered : RouterSends(o)
  PROVE  OneSession'
<1>1. CASE RouterGoodbye
  <2>1. /\ Reply([code |-> "GOODBYE"]) /\ offered # {}
        /\ UNCHANGED <<client, session, tables, out, offered>>
    BY <1>1 DEF RouterGoodbye
  <2>2. [code |-> "GOODBYE"] \in Incoming /\ ~Confirms([code |-> "GOODBYE"])
    BY DEF Incoming, Confirms
  <2> QED
    BY <2>1, <2>2, RouterSaysIsOrderly
<1>2. ASSUME NEW p \in pending, RouterAnswers(p)
      PROVE  OneSession'
  <2>1. PICK code \in Answer : Reply([code |-> code, request |-> p[1], data |-> p[2]])
    BY <1>2 DEF RouterAnswers, Answer
  <2> DEFINE m == [code |-> code, request |-> p[1], data |-> p[2]]
  <2>2. p[1] \in Nat /\ p[2] \in Call
    BY DEF Moving, TrafficOK
  <2>3. m \in Incoming
    BY <2>2 DEF Incoming
  <2>4. m.code = code /\ ~Confirms(m) /\ m.code \notin {"HANDSHAKE", "WELCOME", "INVOCATION"}
    BY DEF Confirms, Answer
  <2>5. Reply(m) /\ UNCHANGED <<client, session, tables, out, offered>>
    BY <1>2, <2>1 DEF RouterAnswers
  <2> HIDE DEF m
  <2> QED
    BY <2>3, <2>4, <2>5, RouterSaysIsOrderly
<1>3. ASSUME NEW o \in offered, RouterSends(o)
      PROVE  OneSession'
  <2> DEFINE code == IF o.code = "REGISTER" THEN "INVOCATION" ELSE "EVENT"
             m == [code |-> code, id |-> o.name]
  <2>1. Reply(m) /\ UNCHANGED <<client, session, tables, out, offered>>
    BY <1>3 DEF RouterSends
  <2>2. o.name \in STRING
    BY DEF Moving, TrafficOK
  <2>3. m \in Incoming /\ m.code = code /\ m.id = o.name /\ code \in {"INVOCATION", "EVENT"}
    BY <2>2 DEF Incoming
  <2>4. ~Confirms(m) /\ m.code \notin {"HANDSHAKE", "WELCOME"}
    BY <2>3 DEF Confirms
  <2>5. m.code = "INVOCATION" => o.code = "REGISTER" /\ o.name = m.id
    OBVIOUS
  <2> HIDE DEF m
  <2> QED
    BY <2>1, <2>3, <2>4, <2>5, RouterSaysIsOrderly
<1> QED
  BY <1>1, <1>2, <1>3

LEMMA OrderlyInit == Init => Orderly
BY DEF Init, Orderly, OneSession, NoTalk

LEMMA OrderlyNext ==
  ASSUME Moving, Orderly, [Next]_vars
  PROVE  Orderly'
<1>1. CASE Dies \/ Watchdog
  BY <1>1, RestartIsOrderly DEF Dies, Watchdog, Orderly
<1>2. CASE ReadGoodbye
  BY <1>2 DEF ReadGoodbye, Orderly
<1>3. ASSUME ~(Dies \/ Watchdog \/ ReadGoodbye), ~Restart
      PROVE  parted' = parted
  <2>1. \A c \in Call : CallOut(c) \/ CallNowhere(c) => parted' = parted
    BY DEF CallOut, CallNowhere
  <2>2. Connected \/ ConnectFails \/ Disconnected \/ StartClient => parted' = parted
    BY DEF Connected, ConnectFails, Disconnected, StartClient
  <2>3. Return \/ GiveUp => parted' = parted
    BY DEF Return, GiveUp, EndCall
  <2>4. ReadHandshake \/ ReadWelcome \/ ReadConfirmed \/ ReadEvent \/ ReadInvocation \/ ReadAnswer => parted' = parted
    BY <1>3 DEF ReadHandshake, ReadWelcome, ReadConfirmed, ReadEvent, ReadInvocation, ReadAnswer
  <2>5. Router => parted' = parted
    BY DEF Router, RouterReads, RouterGoodbye, RouterAnswers, RouterSends
  <2>6. UNCHANGED vars => parted' = parted
    BY DEF vars
  <2> QED
    BY <1>3, <2>1, <2>2, <2>3, <2>4, <2>5, <2>6 DEF Next, Read
<1>4. CASE Restart
  BY <1>4, RestartIsOrderly DEF Orderly
<1>5. CASE ~(Dies \/ Watchdog \/ ReadGoodbye) /\ ~Restart
  <2> SUFFICES ASSUME OneSession PROVE OneSession'
    BY <1>3, <1>5 DEF Orderly
  <2>1. CASE Connected \/ ConnectFails \/ Disconnected \/ StartClient
    BY <2>1, ConnectIsOrderly
  <2>2. ASSUME NEW c \in Call, CallOut(c)
        PROVE  OneSession'
    BY <2>2, CallOutIsOrderly
  <2>3. ASSUME NEW c \in Call, CallNowhere(c)
        PROVE  OneSession'
    BY <2>3 DEF CallNowhere, OneSession, NoTalk, Greets, Talks, client, session, tables, router
  <2>4. CASE Return \/ GiveUp
    BY <2>4, EndIsOrderly DEF Return, GiveUp
  <2>5. CASE Read
    BY <1>5, <2>5, HandshakeIsOrderly, WelcomeIsOrderly, ConfirmedIsOrderly, HandlerIsOrderly DEF Read
  <2>6. CASE Router
    BY <2>6, RouterReadsIsOrderly, RouterIsOrderly DEF Router
  <2>7. CASE UNCHANGED vars
    BY <2>7 DEF vars, OneSession, NoTalk, Greets, Talks, client, session, tables, waits, calls, router
  <2> QED
    BY <1>5, <2>1, <2>2, <2>3, <2>4, <2>5, <2>6, <2>7 DEF Next
<1> QED
  BY <1>1, <1>2, <1>4, <1>5

\* Messages in tune are none the session cannot take.
LEMMA OrderlyIsExpected ==
  ASSUME Moving, Orderly
  PROVE  KilledOnlyAfterGoodbye
<1> SUFFICES ASSUME in # <<>>, OneSession PROVE ~Unexpected
  BY DEF KilledOnlyAfterGoodbye, Orderly
<1>1. in \in Seq(Incoming) /\ 1 \in 1..Len(in) /\ Msg = in[1]
  <2>1. in \in Seq(Incoming)
    BY DEF Moving, TrafficOK
  <2> QED
    BY <2>1, TailFacts DEF Msg
<1>2. CASE Greets
  <2>1. \/ stage = "Initial" /\ Msg = Handshake
        \/ stage = "Started" /\ Msg = Welcome
    BY <1>2 DEF Greets, Msg
  <2> QED
    BY <2>1 DEF Unexpected, Handshake, Welcome
<1>3. CASE Talks
  <2>1. stage = "Started" /\ InTune(in, out, DOMAIN setups, endpoints, offered)
    BY <1>3 DEF Talks
  <2>2. Confirms(Msg) => Msg.request \in DOMAIN setups
    BY <1>1, <2>1 DEF InTune, OnFile
  <2>3. Msg.code = "INVOCATION" => \E x \in endpoints : x[1] = Msg.id
    <3>1. Msg.code = "INVOCATION" => Provided(Msg.id, in, 0, endpoints)
      BY <1>1, <2>1 DEF InTune, InOrder
    <3> QED
      BY <3>1 DEF Provided
  <2> QED
    BY <2>1, <2>2, <2>3 DEF Unexpected, Confirms
<1> QED
  BY <1>2, <1>3, WhoReads

-----------------------------------------------------------------------------
(* Theorems *)

LEMMA InitIInv == Init => IInv
<1> SUFFICES ASSUME Init PROVE IInv
  OBVIOUS
<1>1. /\ in = <<>> /\ out = <<>> /\ stack = <<>> /\ offered = {} /\ pending = {}
      /\ requestId = 0 /\ callRequests = Empty
      /\ returned = [call |-> "none", value |-> Zero]
  BY DEF Init
<1>2. Elems(in) = {} /\ Elems(out) = {} /\ Elems(stack) = {} /\ DOMAIN callRequests = {}
  BY <1>1, ElemsNone DEF Empty
<1>3. AsksStack = {} /\ AsksOut = {} /\ AsksIn = {} /\ AsksTable = {}
  BY <1>2 DEF AsksStack, AsksOut, AsksIn, AsksTable
<1>4. AsksOK
  BY <1>1, <1>3 DEF AsksOK, Asks
<1>5. TrafficOK
  BY <1>1, ElemsNone DEF TrafficOK
<1>6. stack \in Seq(Frame) /\ Len(stack) = 0
  BY <1>1, ElemsNone
<1>7. CallsOK
  BY <1>1, <1>2, <1>6 DEF CallsOK
<1> QED
  BY <1>1, <1>4, <1>5, <1>7 DEF IInv, Moving, AnswerIsOwn

LEMMA NextIInv == IInv /\ [Next]_vars => IInv'
<1> SUFFICES ASSUME Moving, AnswerIsOwn, [Next]_vars
             PROVE  Moving' /\ AnswerIsOwn'
  BY DEF IInv
<1> DEFINE Same == returned' = returned
<1>1. CASE Connected \/ ConnectFails \/ Disconnected
  <2>1. Same
    BY <1>1 DEF Connected, ConnectFails, Disconnected, waits, calls
  <2> QED
    BY <1>1, <2>1, ConnectMoves DEF AnswerIsOwn
<1>2. CASE StartClient \/ Dies \/ Watchdog
  <2>1. Same
    BY <1>2 DEF StartClient, Dies, Watchdog, Restart
  <2>2. Dies \/ Watchdog => NewSession /\ NoCalls /\ NoTraffic /\ stack' = <<>>
    BY DEF Dies, Watchdog, Restart
  <2> QED
    BY <1>2, <2>1, <2>2, BeginsAnew, StartMoves DEF AnswerIsOwn
<1>3. ASSUME NEW c \in Call, CallOut(c)
      PROVE  Moving' /\ AnswerIsOwn'
  <2>1. BeginCall(c, FALSE) /\ UNCHANGED <<in, offered, pending>>
    BY <1>3 DEF CallOut, router
  <2>2. Moving' /\ Same
    BY <2>1, CallBegins DEF Moving, TrafficOK
  <2> QED
    BY <2>2 DEF AnswerIsOwn
<1>4. ASSUME NEW c \in Call, CallNowhere(c)
      PROVE  Moving' /\ AnswerIsOwn'
  <2>1. /\ UNCHANGED <<requestId, callRequests, stack, offered, pending, in, out>>
        /\ returned' = [call |-> c, value |-> Zero]
    BY <1>4 DEF CallNowhere, router
  <2>2. Moving'
    BY <2>1, ReadsOn DEF Moving, TrafficOK
  <2> QED
    BY <2>1, <2>2 DEF AnswerIsOwn
<1>5. CASE Return \/ GiveUp
  BY <1>5, ReturnIsOwn, GiveUpIsOwn
<1>6. CASE ReadHandshake \/ ReadGoodbye \/ ReadConfirmed
  <2>1. Same
    BY <1>6 DEF ReadHandshake, ReadGoodbye, ReadConfirmed, waits, calls
  <2> QED
    BY <1>6, <2>1, ReadMoves DEF AnswerIsOwn
<1>7. CASE ReadWelcome
  <2>1. Same
    BY <1>7 DEF ReadWelcome, Restart, waits, calls
  <2> QED
    BY <1>7, <2>1, WelcomeMoves DEF AnswerIsOwn
<1>8. CASE ReadEvent \/ ReadInvocation
  BY <1>8, HandlerMoves DEF AnswerIsOwn
<1>9. CASE ReadAnswer
  <2>1. Same
    BY <1>9 DEF ReadAnswer
  <2> QED
    BY <1>9, <2>1, AnswerMoves DEF AnswerIsOwn
<1>10. CASE RouterReads
  <2>1. Same
    BY <1>10 DEF RouterReads, waits, calls
  <2> QED
    BY <1>10, <2>1, RouterReadsMoves DEF AnswerIsOwn
<1>11. CASE RouterGoodbye \/ \E o \in offered : RouterSends(o)
  <2>1. Same
    BY <1>11 DEF RouterGoodbye, RouterSends, waits, calls
  <2> QED
    BY <1>11, <2>1, RouterSpeaks DEF AnswerIsOwn
<1>12. ASSUME NEW p \in pending, RouterAnswers(p)
       PROVE  Moving' /\ AnswerIsOwn'
  <2>1. Same
    BY <1>12 DEF RouterAnswers, waits, calls
  <2> QED
    BY <1>12, <2>1, RouterAnswersMoves DEF AnswerIsOwn
<1>13. CASE UNCHANGED vars
  <2>1. UNCHANGED <<requestId, callRequests, stack, offered, pending, in, out, returned>>
    BY <1>13 DEF vars, waits, calls, router
  <2> QED
    BY <2>1, ReadsOn DEF Moving, TrafficOK, AnswerIsOwn
<1> QED
  BY <1>1, <1>2, <1>3, <1>4, <1>5, <1>6, <1>7, <1>8, <1>9, <1>10, <1>11, <1>12, <1>13
  DEF Next, Read, Router

\* Request ids are of one call each wherever they are: the inductive invariant.
THEOREM SessionInvariant == Spec => []IInv
BY InitIInv, NextIInv, PTL DEF Spec

\* Whatever calls nest, and whatever is lost or comes late, a call returns the
\* answer to that very call or 0 (Session::call, processCallResult).
THEOREM AnswerAlwaysOwn == Spec => []AnswerIsOwn
<1>1. IInv => AnswerIsOwn
  BY DEF IInv
<1> QED
  BY <1>1, SessionInvariant, PTL

\* No message ends a process that has not read a goodbye: every confirmation and every
\* invocation is for what is on file, and every session reads its own handshake
\* (Session::readMessage, processInvocation, processRegistered), for any setup, calls,
\* losses of the connection and restarts.
THEOREM NeverKilledBeforeGoodbye == Spec => []KilledOnlyAfterGoodbye
<1>1. IInv /\ Orderly /\ [Next]_vars => Orderly'
  BY OrderlyNext DEF IInv
<1>2. IInv /\ Orderly => KilledOnlyAfterGoodbye
  BY OrderlyIsExpected DEF IInv
<1> QED
  BY <1>1, <1>2, OrderlyInit, SessionInvariant, PTL DEF Spec

=============================================================================
