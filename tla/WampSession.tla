-------------------------------- MODULE WampSession --------------------------------
(***************************************************************************)
(* One worker process: a SwiftWorker, the WampClient that connects it, and *)
(* the Wamp::Session on the socket.  A call waits inside Session::call,    *)
(* which goes on reading: handlers and procedures run meanwhile and may    *)
(* call in turn, so calls nest.  A lost connection is tried again once, by *)
(* a new Session on the same socket; the watchdog restarts a process that  *)
(* has no session.  Messages are read whole; the router is external.       *)
(***************************************************************************)
EXTENDS Naturals, Sequences, FiniteSets

CONSTANTS
  Setup,       \* what the worker asks of a session: a sequence of [code, name]
  Call,        \* calls the worker makes, each once
  MaxDepth,    \* bound: calls waiting inside each other
  MaxFaults    \* bound: lost connections, failed attempts, goodbyes

ASSUME WampOK ==
  /\ Setup \in Seq([code : {"REGISTER", "SUBSCRIBE"}, name : STRING])
  /\ IsFiniteSet(Call)
  /\ MaxDepth \in Nat /\ MaxFaults \in Nat

VARIABLES
  link,                \* the socket: "down", "connecting", "open"
  isConnected, timer,  \* is_connected, and the reconnect timer runs
  stale,               \* a Session of before still reads the socket
  kept,                \* what SwiftWorker::session points to: "none", "live", "freed"
  stage,               \* of the session: "Initial", "Started", "Deleted"
  sessionId, isJoined,
  requestId,           \* m_requestId
  setups,              \* registerRequests and subscribeRequests, by request id
  handlers, endpoints, \* pairs of an id and what was asked
  callRequests,        \* by request id
  stack,               \* calls waiting, the innermost last
  in, out,             \* between router and session
  offered,             \* of the router: names it has confirmed
  pending, invoked,    \* of the router: calls to answer, an invocation on its way
  closing,             \* the router has said GOODBYE
  made, returned,      \* calls made, the last that returned (history)
  parted,              \* this process has read a GOODBYE (history)
  faults

client == <<link, isConnected, timer, stale, kept>>
session == <<stage, sessionId, isJoined>>
tables == <<setups, handlers, endpoints>>
calls == <<requestId, callRequests>>
waits == <<calls, stack, made, returned>>
router == <<offered, pending, invoked, closing>>
vars == <<client, session, tables, waits, in, out, router, parted, faults>>

Zero == <<>>          \* the 0 a call without an answer returns
Empty == [r \in {} |-> {}]
Put(f, r, v) == [x \in DOMAIN f \cup {r} |-> IF x = r THEN v ELSE f[x]]
Remove(f, r) == [x \in DOMAIN f \ {r} |-> f[x]]
Top == stack[Len(stack)]
Pop == SubSeq(stack, 1, Len(stack) - 1)

\* Nothing is written after the read channel has finished.
Send(m) == out' = IF link = "open" THEN out \o m ELSE out

-----------------------------------------------------------------------------
(* Connecting *)

NewSession ==
  /\ stage' = "Initial" /\ sessionId' = 0 /\ isJoined' = FALSE
  /\ setups' = Empty /\ handlers' = {} /\ endpoints' = {}

NoCalls == requestId' = 0 /\ callRequests' = Empty

NoTraffic ==
  /\ in' = <<>> /\ out' = <<>>
  /\ offered' = {} /\ pending' = {} /\ invoked' = FALSE /\ closing' = FALSE

\* A process that ends is started again, by onRestart or by systemd.
Restart ==
  /\ NewSession /\ NoCalls /\ NoTraffic
  /\ link' = "connecting"
  /\ isConnected' = FALSE /\ timer' = FALSE /\ stale' = FALSE
  /\ kept' = "none"
  /\ stack' = <<>>
  /\ parted' = FALSE
  /\ UNCHANGED <<made, returned>>

Init ==
  /\ link = "connecting"
  /\ isConnected = FALSE /\ timer = FALSE /\ stale = FALSE
  /\ kept = "none"
  /\ stage = "Initial" /\ sessionId = 0 /\ isJoined = FALSE
  /\ requestId = 0
  /\ setups = Empty /\ handlers = {} /\ endpoints = {}
  /\ callRequests = Empty /\ stack = <<>>
  /\ in = <<>> /\ out = <<>>
  /\ offered = {} /\ pending = {} /\ invoked = FALSE /\ closing = FALSE
  /\ made = {} /\ returned = [call |-> "none", value |-> Zero]
  /\ parted = FALSE
  /\ faults = 0

\* onConnected
Connected ==
  /\ link = "connecting"
  /\ link' = "open" /\ isConnected' = TRUE
  /\ out' = <<[code |-> "HANDSHAKE"]>>
  /\ UNCHANGED <<timer, stale, kept, session, tables, waits, in, router, faults, parted>>

\* An attempt that fails reaches no slot of WampClient.
ConnectFails ==
  /\ link = "connecting"
  /\ faults < MaxFaults /\ faults' = faults + 1
  /\ link' = "down"
  /\ UNCHANGED <<isConnected, timer, stale, kept, session, tables, waits, in, out, router, parted>>

\* Mutant: the session is left but not deleted.
ClosedKept == "Initial"

Closed == "Deleted"

\* closeConnections leaves and deletes the session; a worker that keeps it is
\* not told.  After a goodbye the client is no longer connected, and neither
\* happens.
Disconnected ==
  /\ link = "open"
  /\ faults < MaxFaults /\ faults' = faults + 1
  /\ link' = "down"
  /\ IF isConnected
     THEN /\ isConnected' = FALSE /\ timer' = TRUE
          /\ sessionId' = 0
          /\ kept' = IF kept = "live" THEN "freed" ELSE kept
          /\ stage' = Closed
     ELSE /\ stage' = "Initial"
          /\ UNCHANGED <<isConnected, timer, sessionId, kept>>
  /\ NoTraffic
  /\ UNCHANGED <<stale, isJoined, tables, waits, parted>>

\* Two seconds later.  A lost connection has ended the waits by then; after a
\* goodbye this may run inside one.  A session that was left but not deleted stays
\* connected to the socket, and the worker's calls are still in its table.
StartClient ==
  /\ timer
  /\ stack = <<>> \/ kept = "live"
  /\ timer' = FALSE
  /\ link' = "connecting"
  /\ stale' = (stale \/ stage # "Deleted")
  /\ IF kept = "live" THEN UNCHANGED calls ELSE NoCalls
  /\ NewSession /\ NoTraffic
  /\ UNCHANGED <<isConnected, kept, stack, made, returned, faults, parted>>

-----------------------------------------------------------------------------
(* Calls *)

\* Mutant: a request takes the place of the last one that gave up.
NextRequestFree == Len(Setup) + Len(stack) + 1

NextRequest == requestId + 1

\* Session::call up to its wait.  inv: an invocation is answered with the result.
BeginCall(c, inv) ==
  /\ c \notin made /\ made' = made \cup {c}
  /\ sessionId # 0
  /\ Len(stack) < MaxDepth
  /\ requestId' = NextRequest
  /\ callRequests' = Put(callRequests, NextRequest, [ready |-> FALSE, result |-> Zero])
  /\ stack' = Append(stack, [call |-> c, request |-> NextRequest, inv |-> inv])
  /\ Send(<<[code |-> "CALL", request |-> NextRequest, args |-> c]>>)
  /\ UNCHANGED returned

\* A call of a timer of the worker, which processEvents may run inside a wait.
CallOut(c) ==
  /\ kept = "live"
  /\ BeginCall(c, FALSE)
  /\ UNCHANGED <<client, session, tables, in, router, faults, parted>>

\* Without a session a call returns 0 at once.
CallNowhere(c) ==
  /\ kept = "freed" \/ (kept = "live" /\ sessionId = 0)
  /\ c \notin made /\ made' = made \cup {c}
  /\ returned' = [call |-> c, value |-> Zero]
  /\ UNCHANGED <<client, session, tables, requestId, callRequests, stack, in, out, router, faults, parted>>

\* The end of Session::call; its caller may be a procedure, which then answers.
EndCall(value) ==
  /\ returned' = [call |-> Top.call, value |-> value]
  /\ callRequests' = Remove(callRequests, Top.request)
  /\ stack' = Pop
  /\ Send(IF Top.inv THEN <<[code |-> "YIELD"]>> ELSE <<>>)
  /\ UNCHANGED <<client, session, tables, requestId, made, in, router, faults, parted>>

Return ==
  /\ stack # <<>>
  /\ callRequests[Top.request].ready
  /\ EndCall(callRequests[Top.request].result)

\* waitForReadyRead: six seconds without a byte, or no connection.
\* Mutant: only silence ends a wait, not a lost connection.
WaitFailsOpen == in = <<>> /\ link = "open"

WaitFails == in = <<>>

GiveUp ==
  /\ stack # <<>>
  /\ ~callRequests[Top.request].ready
  /\ WaitFails
  /\ EndCall(Zero)

-----------------------------------------------------------------------------
(* Reading *)

Msg == Head(in)
Reads(code) == in # <<>> /\ Msg.code = code /\ stage = "Started"
Consume == in' = Tail(in)

\* The session left over reads first: it takes the reply to the handshake, and the
\* session in use, which is still Initial, takes a message for that reply.
ReadHandshake ==
  /\ in # <<>> /\ Msg.code = "HANDSHAKE"
  /\ Consume
  /\ stage' = IF stale THEN "Initial" ELSE "Started"
  /\ Send(<<[code |-> "HELLO"]>>)
  /\ UNCHANGED <<client, sessionId, isJoined, tables, waits, router, faults, parted>>

\* A ProtocolError nobody catches ends the process.
Unexpected ==
  \/ Msg.code # "HANDSHAKE" /\ stage = "Initial"
  \/ Msg.code = "INVOCATION" /\ \A e \in endpoints : e[1] # Msg.id
  \/ Msg.code \in {"REGISTERED", "SUBSCRIBED"} /\ Msg.request \notin DOMAIN setups

Dies ==
  /\ in # <<>> /\ Unexpected
  /\ Restart
  /\ UNCHANGED faults

\* onWampSession of the first session: procedures are provided, topics subscribed.
SetUp ==
  LET n == Len(Setup)
      Asks(k) == [code |-> Setup[k].code, request |-> requestId + k, name |-> Setup[k].name]
  IN  /\ requestId' = requestId + n
      /\ setups' = [r \in requestId + 1 .. requestId + n |-> Setup[r - requestId]]
      /\ Send([k \in 1..n |-> Asks(k)])

\* SwiftWorker keeps its first session: when that is gone, its use is undefined,
\* and what is left of it lets the calls through or ends the process.
ReadWelcome ==
  /\ Reads("WELCOME")
  /\ \/ /\ kept # "freed"
        /\ SetUp
        /\ kept' = "live"
        /\ Consume
        /\ sessionId' = 1 /\ isJoined' = TRUE
        /\ UNCHANGED <<link, isConnected, timer, stale, stage, handlers, endpoints,
                       callRequests, stack, made, returned, router, parted>>
     \/ /\ kept = "freed"
        /\ Consume
        /\ sessionId' = 1 /\ isJoined' = TRUE
        /\ UNCHANGED <<client, stage, tables, waits, out, router, parted>>
     \/ kept = "freed" /\ Restart
  /\ UNCHANGED faults

\* processGoodbye replies; left calls onDisconnected, which starts the timer.
ReadGoodbye ==
  /\ Reads("GOODBYE")
  /\ Consume
  /\ sessionId' = 0 /\ isJoined' = FALSE
  /\ isConnected' = FALSE
  /\ timer' = IF isConnected THEN TRUE ELSE timer
  /\ Send(<<[code |-> "GOODBYE"]>>)
  /\ parted' = TRUE
  /\ UNCHANGED <<link, stale, kept, stage, tables, waits, router, faults>>

\* processRegistered and processSubscribed
ReadConfirmed ==
  /\ Reads("REGISTERED") \/ Reads("SUBSCRIBED")
  /\ Msg.request \in DOMAIN setups
  /\ Consume
  /\ LET entry == <<Msg.id, setups[Msg.request].name>>
         filed == IF Msg.code = "REGISTERED" THEN <<handlers, endpoints \cup {entry}>>
                                             ELSE <<handlers \cup {entry}, endpoints>>
     IN  handlers' = filed[1] /\ endpoints' = filed[2]
  /\ setups' = Remove(setups, Msg.request)
  /\ UNCHANGED <<client, session, waits, out, router, faults, parted>>

\* processEvent: the handler may call before it returns.  Those that follow it in
\* the hash, of whatever topic, are called with it.
ReadEvent ==
  /\ Reads("EVENT")
  /\ Consume
  /\ \/ UNCHANGED <<waits, out>>
     \/ /\ \E h \in handlers : h[1] = Msg.id
        /\ \E c \in Call : BeginCall(c, FALSE)
  /\ UNCHANGED <<client, session, tables, router, faults, parted>>

\* processInvocation answers with what the procedure returns or throws.
ReadInvocation ==
  /\ Reads("INVOCATION")
  /\ \E e \in endpoints : e[1] = Msg.id
  /\ Consume
  /\ \/ \E code \in {"YIELD", "ERROR"} : Send(<<[code |-> code]>>) /\ UNCHANGED waits
     \/ \E c \in Call : BeginCall(c, TRUE)
  /\ UNCHANGED <<client, session, tables, router, faults, parted>>

\* processCallResult, and processError for a call.  No such call: it came too late.
ReadAnswer ==
  /\ Reads("RESULT") \/ Reads("ERROR")
  /\ Consume
  /\ LET r == Msg.request IN
     callRequests' =
       IF r \in DOMAIN callRequests
       THEN Put(callRequests, r, [ready |-> TRUE, result |-> <<Msg.code, Msg.data>>])
       ELSE callRequests
  /\ UNCHANGED <<client, session, tables, requestId, stack, made, returned, out, router, faults, parted>>

-----------------------------------------------------------------------------
(* SwiftWorker's watchdog: every 25 seconds, longer than connecting takes.  It       *)
(* publishes, which changes nothing here, or asks for a restart.  A session that     *)
(* is gone may look joined or not.                                                   *)

\* Mutant: a worker that never had a session waits for one.
LooksDeadPatient == IF kept = "none" THEN FALSE ELSE ~isJoined

LooksDead == IF kept = "live" THEN ~isJoined ELSE TRUE

Watchdog ==
  /\ link = "down" \/ kept # "none"
  /\ LooksDead
  /\ Restart
  /\ UNCHANGED faults

-----------------------------------------------------------------------------
(* The router (external) *)

Reply(m) == in' = Append(in, m)

RouterReads ==
  /\ link = "open" /\ out # <<>> /\ ~closing
  /\ out' = Tail(out)
  /\ LET m == Head(out) IN
     /\ CASE m.code = "HANDSHAKE" -> Reply(m)
          [] m.code = "HELLO"     -> Reply([code |-> "WELCOME"])
          [] m.code = "REGISTER"  ->
               Reply([code |-> "REGISTERED", request |-> m.request, id |-> m.name])
          [] m.code = "SUBSCRIBE" ->
               Reply([code |-> "SUBSCRIBED", request |-> m.request, id |-> m.name])
          [] OTHER -> UNCHANGED in
     /\ offered' = IF m.code \in {"REGISTER", "SUBSCRIBE"}
                   THEN offered \cup {[code |-> m.code, name |-> m.name]} ELSE offered
     /\ pending' = IF m.code = "CALL"
                   THEN pending \cup {<<m.request, m.args>>} ELSE pending
     /\ invoked' = (m.code \notin {"YIELD", "ERROR"} /\ invoked)
  /\ UNCHANGED <<client, session, tables, waits, closing, faults, parted>>

RouterAnswers(p) ==
  /\ p \in pending /\ ~closing
  /\ pending' = pending \ {p}
  /\ \E code \in {"RESULT", "ERROR"} :
       Reply([code |-> code, request |-> p[1], data |-> p[2]])
  /\ UNCHANGED <<client, session, tables, waits, out, offered, invoked, closing, faults, parted>>

\* One event and one invocation on their way at a time.
RouterSends(o) ==
  /\ o \in offered /\ ~closing
  /\ LET code == IF o.code = "REGISTER" THEN "INVOCATION" ELSE "EVENT" IN
     /\ \A k \in 1..Len(in) : in[k].code # code
     /\ code = "INVOCATION" => ~invoked
     /\ invoked' = (invoked \/ code = "INVOCATION")
     /\ Reply([code |-> code, id |-> o.name])
  /\ UNCHANGED <<client, session, tables, waits, out, offered, pending, closing, faults, parted>>

RouterGoodbye ==
  /\ link = "open" /\ offered # {} /\ ~closing
  /\ faults < MaxFaults /\ faults' = faults + 1
  /\ closing' = TRUE
  /\ Reply([code |-> "GOODBYE"])
  /\ UNCHANGED <<client, session, tables, waits, out, offered, pending, invoked, parted>>

-----------------------------------------------------------------------------

Read ==
  \/ ReadHandshake \/ ReadWelcome \/ ReadGoodbye \/ ReadConfirmed
  \/ ReadEvent \/ ReadInvocation \/ ReadAnswer \/ Dies

Router ==
  \/ RouterReads
  \/ RouterGoodbye
  \/ \E p \in pending : RouterAnswers(p)
  \/ \E o \in offered : RouterSends(o)

Next ==
  \/ Connected \/ ConnectFails \/ Disconnected \/ StartClient
  \/ \E c \in Call : CallOut(c) \/ CallNowhere(c)
  \/ Return \/ GiveUp
  \/ Read
  \/ Watchdog
  \/ Router

\* The event loop reads what has arrived, waits end, timers fire, and the router
\* takes what is sent and answers every call it has.  No timer is sure to fire
\* inside a wait.
Fairness ==
  /\ WF_vars(Connected) /\ WF_vars(stack = <<>> /\ StartClient)
  /\ WF_vars(stack = <<>> /\ kept # "freed" /\ Watchdog)
  /\ WF_vars(Return) /\ WF_vars(GiveUp) /\ WF_vars(Read)
  /\ WF_vars(RouterReads)
  /\ \A r \in 1..Len(Setup) + Cardinality(Call), c \in Call : WF_vars(RouterAnswers(<<r, c>>))

Spec == Init /\ [][Next]_vars /\ Fairness

-----------------------------------------------------------------------------
(* Properties *)

\* A call returns the answer to that very call or 0, whatever calls nest in it
\* and however late the answers to calls that gave up come (Session::call).
AnswerIsOwn ==
  returned.value \in {Zero} \cup ({"RESULT", "ERROR"} \X {returned.call})

\* No message ends the process (every invocation and confirmation is for what is
\* on file, every session reads its own handshake), however often the connection
\* is lost and made again; only after a goodbye, which leaves the old session on the
\* socket, the next one reads what is not for it (startClient, closeConnections).
KilledOnlyAfterGoodbye ==
  in # <<>> /\ Unexpected => parted

\* Every call returns: with its answer, or with 0 when the wait fails, also one
\* that waits for the calls made while it waits.
Waiting(c) == \E k \in 1..Len(stack) : stack[k].call = c
EveryCallReturns == \A c \in Call : Waiting(c) ~> ~Waiting(c)

\* A worker whose first attempt to connect fails is not left without a session,
\* although WampClient never repeats the attempt: its watchdog restarts it.
JoinsInTheEnd == (kept = "none") ~> (kept # "none")

=============================================================================
