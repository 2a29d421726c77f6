--------------------------- MODULE AsyncUuidProofs ---------------------------
(* For every lag, word size and run length: uuids of different milliseconds *)
(* differ, and the counter never falls.                                     *)
EXTENDS AsyncUuid, TLAPS

\* When the counter is at most one ahead of the clock, the unsigned test resets
\* it exactly when it lags by more than Gap or is that one ahead.
LEMMA LagsExactly ==
    ASSUME NEW t \in Ms, NEW c \in 0 .. MaxMs + 1, c <= t + 1
    PROVE  Lags(t, c) <=> t - c > Gap \/ c = t + 1
<1>1. CASE t >= c
  BY <1>1, ConstantsOK DEF Lags, Minus, Ms
<1>2. CASE ~(t >= c)
  <2>1. c = t + 1
    BY <1>2 DEF Ms
  <2>2. Minus(t, c) = Modulus - 1
    BY <1>2, <2>1, ConstantsOK DEF Minus, Ms
  <2>3. QED
    BY <2>1, <2>2, ConstantsOK DEF Lags
<1>3. QED
  BY <1>1, <1>2

\* The counter a call increments is the clock, or the old counter when that is
\* not ahead of the clock: either way it is no further than the clock and no
\* more than one behind the old counter.
LEMMA ResetCounter ==
    ASSUME NEW t \in Ms, NEW later \in Ms, later >= t,
           NEW c \in 0 .. MaxMs + 1, c <= t + 1
    PROVE  LET k == IF Lags(t, c) THEN later ELSE c IN
           k \in Ms /\ k <= later /\ k + 1 >= c /\ (k >= t \/ k = c)
<1>1. CASE Lags(t, c)
  BY <1>1 DEF Ms
<1>2. CASE ~Lags(t, c)
  <2>1. c <= t
    BY <1>2, LagsExactly DEF Ms
  <2>2. QED
    BY <1>2, <2>1, ConstantsOK DEF Ms
<1>3. QED
  BY <1>1, <1>2

LEMMA InitIInv == Init => IInv
BY ConstantsOK DEF Init, IInv, TypeOK, Ms, UuidsFollowClock, LaterCallsGetLargerUuids

\* Time passes: the bounds by the clock get weaker, the history is the same.
LEMMA TickKeepsIInv == IInv /\ Tick => IInv'
<1> SUFFICES ASSUME IInv, Tick
             PROVE  IInv'
  OBVIOUS
<1>1. /\ now \in Nat
      /\ now' \in Nat
      /\ uuidsCounter \in Nat
      /\ now < now'
      /\ uuidsCounter' = uuidsCounter
      /\ given' = given
  BY ConstantsOK DEF IInv, TypeOK, Tick, Ms
<1>2. TypeOK'
  BY <1>1 DEF IInv, TypeOK, Tick
<1>3. uuidsCounter' <= now' + 1
  <2>1. uuidsCounter <= now + 1
    BY DEF IInv
  <2>2. \A t, later, c \in Nat : t < later /\ c <= t + 1 => c <= later + 1
    OBVIOUS
  <2>3. QED
    BY <1>1, <2>1, <2>2, Zenon
<1>4. UuidsFollowClock' /\ LaterCallsGetLargerUuids'
  BY <1>1 DEF IInv, UuidsFollowClock, LaterCallsGetLargerUuids
<1>5. \A a \in given' : /\ a.uuid <= uuidsCounter' /\ a.ended <= now'
                        /\ a.started <= now'
  <2>1. \A a \in given : a.ended \in Nat /\ a.started \in Nat
    BY DEF IInv, TypeOK, Ms
  <2>2. QED
    BY <1>1, <2>1 DEF IInv
<1>6. QED
  BY <1>2, <1>3, <1>4, <1>5 DEF IInv

\* A call extends the history with a uuid above every uuid that ended earlier.
LEMMA CallKeepsIInv == IInv /\ GetNextUuid => IInv' /\ uuidsCounter' >= uuidsCounter
<1> SUFFICES ASSUME IInv, GetNextUuid
             PROVE  IInv' /\ uuidsCounter' >= uuidsCounter
  OBVIOUS
<1>1. PICK later \in {t \in Ms : t >= now} :
        LET counter == IF Lags(now, uuidsCounter) THEN later ELSE uuidsCounter
        IN  /\ now' = later
            /\ uuidsCounter' = counter + 1
            /\ given' = given \cup
                  {[started |-> now, ended |-> later, uuid |-> counter + 1]}
  BY DEF GetNextUuid
<1> DEFINE k == IF Lags(now, uuidsCounter) THEN later ELSE uuidsCounter
           new == [started |-> now, ended |-> later, uuid |-> k + 1]
<1>2. now \in Ms /\ later \in Ms /\ later >= now
      /\ uuidsCounter \in 0 .. MaxMs + 1 /\ uuidsCounter <= now + 1
  BY <1>1 DEF IInv, TypeOK
<1>3. k \in Ms /\ k <= later /\ k + 1 >= uuidsCounter
      /\ (k >= now \/ k = uuidsCounter)
  BY <1>2, ResetCounter
<1>4. now' = later /\ uuidsCounter' = k + 1 /\ given' = given \cup {new}
  BY <1>1
<1> HIDE DEF k
<1>5. uuidsCounter' >= uuidsCounter
  BY <1>3, <1>4
<1>6. TypeOK'
  <2>1. new \in [started : Ms, ended : Ms, uuid : 1 .. MaxMs + 1]
    BY <1>2, <1>3, ConstantsOK DEF Ms
  <2>2. QED
    BY <1>2, <1>3, <1>4, <2>1, ConstantsOK DEF TypeOK, IInv, Ms
<1>7. uuidsCounter' <= now' + 1
  BY <1>2, <1>3, <1>4 DEF Ms
<1>8. \A a \in given : /\ a.uuid \in Nat /\ a.ended \in Nat /\ a.started \in Nat
                      /\ a.uuid <= a.ended + 1 /\ a.uuid <= uuidsCounter
                      /\ a.ended <= now /\ a.started <= now
  BY DEF IInv, TypeOK, Ms, UuidsFollowClock
<1>9. UuidsFollowClock'
  BY <1>2, <1>3, <1>4, <1>8 DEF UuidsFollowClock, Ms
<1>10. \A a \in given' : /\ a.uuid <= uuidsCounter' /\ a.ended <= now'
                        /\ a.started <= now'
  BY <1>2, <1>3, <1>4, <1>8 DEF Ms
<1>11. LaterCallsGetLargerUuids'
  <2> SUFFICES ASSUME NEW a \in given', NEW b \in given', a.ended < b.started
               PROVE  a.uuid < b.uuid
    BY DEF LaterCallsGetLargerUuids
  <2>1. CASE a \in given /\ b \in given
    BY <2>1 DEF IInv, LaterCallsGetLargerUuids
  <2>2. CASE a \in given /\ b = new
    <3>1. a.ended + 1 <= now /\ a.uuid <= a.ended + 1
      BY <2>2, <1>2, <1>8 DEF Ms
    <3>2. CASE k >= now
      BY <2>2, <3>1, <3>2, <1>2, <1>3, <1>8 DEF Ms
    <3>3. CASE k = uuidsCounter
      BY <2>2, <3>3, <1>2, <1>3, <1>8 DEF Ms
    <3>4. QED
      BY <1>3, <3>2, <3>3
  <2>3. CASE a = new
    <3>1. b.started \in Nat /\ b.started <= now
      BY <1>2, <1>4, <1>8 DEF Ms
    <3>2. a.ended = later
      BY <2>3
    <3>3. QED
      BY <3>1, <3>2, <1>2 DEF Ms
  <2>4. QED
    BY <1>4, <2>1, <2>2, <2>3
<1>12. QED
  BY <1>5, <1>6, <1>7, <1>9, <1>10, <1>11 DEF IInv

\* Uuids handed out in different milliseconds differ and follow time: the
\* caller of SwiftApiClient owns its uuid unless another call was made in the
\* same millisecond.
THEOREM DistinctMsDistinctUuids == Spec => []LaterCallsGetLargerUuids
<1>1. IInv /\ UNCHANGED vars => IInv'
  BY DEF IInv, TypeOK, UuidsFollowClock, LaterCallsGetLargerUuids, vars
<1>2. IInv /\ [Next]_vars => IInv'
  BY <1>1, TickKeepsIInv, CallKeepsIInv DEF Next
<1>3. IInv => LaterCallsGetLargerUuids
  BY DEF IInv
<1>4. QED
  BY InitIInv, <1>2, <1>3, PTL DEF Spec

THEOREM InductiveInvariant == Spec => []IInv
<1>1. IInv /\ UNCHANGED vars => IInv'
  BY DEF IInv, TypeOK, UuidsFollowClock, LaterCallsGetLargerUuids, vars
<1>2. IInv /\ [Next]_vars => IInv'
  BY <1>1, TickKeepsIInv, CallKeepsIInv DEF Next
<1>3. QED
  BY InitIInv, <1>2, PTL DEF Spec

\* The counter never falls, even when the unsigned test moves it back to the
\* clock: a repeated uuid repeats the last one.
THEOREM CounterMonotonic == Spec => CounterNeverFalls
<1>1. IInv /\ [Next]_vars => [uuidsCounter' >= uuidsCounter]_vars
  <2>1. IInv /\ Tick => uuidsCounter' >= uuidsCounter
    BY DEF Tick, IInv, TypeOK
  <2>2. QED
    BY <2>1, CallKeepsIInv DEF Next
<1>2. QED
  BY InductiveInvariant, <1>1, PTL DEF Spec, CounterNeverFalls
=============================================================================
