------------------------------ MODULE AsyncUuid ------------------------------
(***************************************************************************)
(* SwiftApiClient::getNextUuid: uuids come from a counter that follows the *)
(* wall clock in milliseconds.  The test that decides whether the counter  *)
(* lags behind the clock is unsigned, so it also succeeds when the counter *)
(* is ahead of the clock - which it is right after it gave out now + 1.    *)
(***************************************************************************)
EXTENDS Integers

CONSTANTS
    Gap,      \* the lag, in ms, after which the counter is reset (300)
    Modulus,  \* 2^64 for quint64
    MaxMs     \* bound: the last millisecond of the model

ASSUME ConstantsOK ==
    /\ Gap \in Nat /\ MaxMs \in Nat /\ Modulus \in Nat
    /\ Gap + 1 < Modulus /\ MaxMs + 2 < Modulus

Ms == 0 .. MaxMs

VARIABLES
    now,           \* QDateTime::currentMSecsSinceEpoch()
    uuidsCounter,  \* _uuids_counter
    given          \* history: the uuids handed out and when

vars == <<now, uuidsCounter, given>>

\* quint64 subtraction.
Minus(a, b) == IF a >= b THEN a - b ELSE a - b + Modulus

Lags(t, counter) == Minus(t, counter) > Gap

\* The constructor sets the counter to the clock.
Init ==
    /\ now \in Ms
    /\ uuidsCounter = now
    /\ given = {}

Tick ==
    /\ now' \in Ms /\ now' > now
    /\ UNCHANGED <<uuidsCounter, given>>

\* A bug that could be: a counter that is reset is not incremented.
GetNextUuidAtReset ==
    \E later \in {t \in Ms : t >= now} :
        LET uuid == IF Lags(now, uuidsCounter) THEN later ELSE uuidsCounter + 1
        IN
        /\ now' = later
        /\ uuidsCounter' = uuid
        /\ given' = given \cup {[started |-> now, ended |-> later, uuid |-> uuid]}

\* getNextUuid reads the clock to test the lag and again to reset the counter;
\* `later` is the second reading.  The branch for a counter that wrapped while
\* it was incremented is 2^64 ms away.
GetNextUuid ==
    \E later \in {t \in Ms : t >= now} :
        LET counter == IF Lags(now, uuidsCounter) THEN later ELSE uuidsCounter
        IN
        /\ now' = later
        /\ uuidsCounter' = counter + 1
        /\ given' = given \cup
              {[started |-> now, ended |-> later, uuid |-> counter + 1]}

Next == Tick \/ GetNextUuid

Spec == Init /\ [][Next]_vars

-----------------------------------------------------------------------------

TypeOK ==
    /\ now \in Ms
    /\ uuidsCounter \in 0 .. MaxMs + 1
    /\ given \in SUBSET [started : Ms, ended : Ms, uuid : 1 .. MaxMs + 1]

\* A call that starts in a later millisecond than another one ended gets a
\* larger uuid: a uuid is shared by calls of one millisecond only, although the
\* counter runs ahead of the clock and is moved back to it.
LaterCallsGetLargerUuids ==
    \A a, b \in given : a.ended < b.started => a.uuid < b.uuid

\* A call never gets a uuid below the one given before it: the uuid it may
\* share is the last one, not an older one.
CounterNeverFalls == [][uuidsCounter' >= uuidsCounter]_vars

\* The wall clock bounds the uuids: what a restarted process, which starts its
\* counter from the clock, hands out after a millisecond has passed is new.
UuidsFollowClock == \A a \in given : a.uuid <= a.ended + 1

IInv ==
    /\ TypeOK
    /\ uuidsCounter <= now + 1
    /\ UuidsFollowClock
    /\ \A a \in given : a.uuid <= uuidsCounter /\ a.ended <= now
                         /\ a.started <= now
    /\ LaterCallsGetLargerUuids
=============================================================================
