------------------------- MODULE ArbitragePairProofs -------------------------
(***************************************************************************)
(* For any candidates, any depth of nested calls and any number of         *)
(* crashes: a candidate is used once, no sell order stays without its buy  *)
(* order while the process lives, two candidates are placed LockSecs       *)
(* apart, the file loses no link, and every step is one of HedgedTrade's.  *)
(*                                                                         *)
(* The state falls into three parts that keep their invariants by          *)
(* themselves: the links, the lock, and the candidates with the calls.     *)
(***************************************************************************)
EXTENDS ArbitragePair, SequenceTheorems, TLAPS

-----------------------------------------------------------------------------
(* Stacks *)

\* A handler is pushed.
LEMMA Pushed ==
    ASSUME NEW S, NEW s \in Seq(S), NEW w \in S
    PROVE  /\ Append(s, w) \in Seq(S)
           /\ Len(Append(s, w)) = Len(s) + 1
           /\ Len(s) \in Nat
           /\ Append(s, w)[Len(s) + 1] = w
           /\ \A n \in 1 .. Len(s) : Append(s, w)[n] = s[n]
  OBVIOUS

\* The handler on top goes on to its next call.
LEMMA Replaced ==
    ASSUME NEW S, NEW s \in Seq(S), s # <<>>, NEW w \in S,
           NEW t, t = [s EXCEPT ![Len(s)] = w]
    PROVE  /\ t \in Seq(S)
           /\ Len(t) = Len(s)
           /\ Len(s) \in 1 .. Len(s)
           /\ s[Len(s)] \in S
           /\ t[Len(s)] = w
           /\ \A n \in 1 .. Len(s) : n # Len(s) => t[n] = s[n]
  OBVIOUS

\* The handler on top is done.
LEMMA Popped ==
    ASSUME NEW S, NEW s \in Seq(S), s # <<>>,
           NEW t, t = SubSeq(s, 1, Len(s) - 1)
    PROVE  /\ t \in Seq(S)
           /\ Len(t) \in Nat
           /\ Len(s) = Len(t) + 1
           /\ \A n \in 1 .. Len(t) : n \in 1 .. Len(s) /\ t[n] = s[n]
<1>1. Len(s) \in Nat \ {0} /\ \A i \in 1 .. Len(s) - 1 : s[i] \in S
  OBVIOUS
<1> DEFINE k == Len(s) - 1
<1>2. k \in Int /\ 1 \in Int /\ k >= 0 /\ k - 1 + 1 = k /\ Len(s) = k + 1
  BY <1>1
<1>3. \A i \in 1 .. k : s[i] \in S
  BY <1>1
<1>4. t = SubSeq(s, 1, k)
  OBVIOUS
<1> HIDE DEF k
<1>5. /\ t \in Seq(S)
      /\ Len(t) = IF 1 <= k THEN k - 1 + 1 ELSE 0
      /\ \A i \in 1 .. k - 1 + 1 : t[i] = s[1 + i - 1]
  BY <1>2, <1>3, <1>4, SubSeqProperties
<1>6. Len(t) = k
  BY <1>2, <1>5
<1>7. \A i \in 1 .. k : i \in 1 .. Len(s) /\ 1 + i - 1 = i
  BY <1>2
<1> QED
  BY <1>2, <1>5, <1>6, <1>7

-----------------------------------------------------------------------------
(* Candidates are in one place at a time *)

\* The candidates a handler has.
Spot(w) == Held(w) \cup ({w.c} \ {None})

Sound(w) == w.cc \cap w.filtered = {} /\ w.c \notin Held(w)

Apart(s, k) ==
    \A n \in 1 .. Len(s) :
        /\ Sound(s[n])
        /\ Spot(s[n]) \cap k = {}
        /\ \A m \in 1 .. Len(s) : m # n => Spot(s[n]) \cap Spot(s[m]) = {}

\* A handler that brings in candidates no other handler has.
LEMMA ApartPushed ==
    ASSUME NEW s \in Seq(Waiting), NEW w \in Waiting, NEW k, NEW l,
           Apart(s, k), Sound(w), Spot(w) \cap l = {},
           \A n \in 1 .. Len(s) : Spot(s[n]) \cap (Spot(w) \cup l) = {}
    PROVE  Apart(Append(s, w), l)
<1> DEFINE t == Append(s, w)
<1>1. /\ Len(t) = Len(s) + 1 /\ Len(s) \in Nat /\ t[Len(s) + 1] = w
      /\ \A n \in 1 .. Len(s) : t[n] = s[n]
  BY Pushed
<1>2. \A n \in 1 .. Len(t) : n \in 1 .. Len(s) \/ n = Len(s) + 1
  BY <1>1
<1> HIDE DEF t
<1>3. SUFFICES Apart(t, l)
  BY DEF t
<1>4. \A n \in 1 .. Len(t) : Sound(t[n]) /\ Spot(t[n]) \cap l = {}
  BY <1>1, <1>2 DEF Apart
<1>5. \A m, n \in 1 .. Len(t) : m # n => Spot(t[n]) \cap Spot(t[m]) = {}
  BY <1>1, <1>2 DEF Apart
<1> QED
  BY <1>4, <1>5 DEF Apart

\* A handler that goes on with some of the candidates it had.
LEMMA ApartReplaced ==
    ASSUME NEW s \in Seq(Waiting), s # <<>>, NEW w \in Waiting, NEW k, NEW t,
           t = [s EXCEPT ![Len(s)] = w],
           Apart(s, k), Sound(w), Spot(w) \subseteq Spot(s[Len(s)])
    PROVE  Apart(t, k)
<1>1. /\ Len(t) = Len(s) /\ Len(s) \in 1 .. Len(s) /\ t[Len(s)] = w
      /\ \A n \in 1 .. Len(s) : n # Len(s) => t[n] = s[n]
  BY Replaced
<1>2. \A n \in 1 .. Len(t) : Sound(t[n]) /\ Spot(t[n]) \subseteq Spot(s[n])
  BY <1>1 DEF Apart
<1>3. \A n \in 1 .. Len(t) : Spot(t[n]) \cap k = {}
  <2>1. \A n \in 1 .. Len(s) : Spot(s[n]) \cap k = {}
    BY DEF Apart
  <2> QED
    BY <1>1, <1>2, <2>1
<1>4. ASSUME NEW n \in 1 .. Len(t), NEW m \in 1 .. Len(t), m # n
      PROVE  Spot(t[n]) \cap Spot(t[m]) = {}
  <2>1. Spot(s[n]) \cap Spot(s[m]) = {}
    BY <1>1, <1>4 DEF Apart
  <2> QED
    BY <1>2, <2>1
<1> QED
  BY <1>2, <1>3, <1>4 DEF Apart

\* A handler that ends, and a list that has none of the others' candidates.
LEMMA ApartPopped ==
    ASSUME NEW s \in Seq(Waiting), s # <<>>, NEW k, NEW l, NEW t,
           t = SubSeq(s, 1, Len(s) - 1), Apart(s, k),
           \A n \in 1 .. Len(s) : Spot(s[n]) \cap l = {}
    PROVE  Apart(t, l)
<1>1. \A n \in 1 .. Len(t) : n \in 1 .. Len(s) /\ t[n] = s[n]
  BY Popped
<1> QED
  BY <1>1 DEF Apart

-----------------------------------------------------------------------------
(* The candidates and the calls *)

Quiet(c, se, bu) == se[c] = 0 /\ bu[c] = 0

\* Progress with its variables as parameters.
Fits(w, f, se, bu) ==
    /\ Held(w) \subseteq f
    /\ \A c \in Held(w) : Quiet(c, se, bu)
    /\ w.at \in {"params", "log1", "log2", "sell", "buy"} => w.c \in f
    /\ w.at \in {"balances", "filter", "refused", "report"} => w.c = None
    /\ w.at \in {"params", "log1", "log2"} => Quiet(w.c, se, bu)
    /\ w.at = "sell" => se[w.c] = 1 /\ bu[w.c] = 0
    /\ w.at = "buy" => se[w.c] = 1 /\ bu[w.c] = 1

\* Somebody waits for the answer to c's sell order.
Selling(s, c) == \E n \in 1 .. Len(s) : s[n].at = "sell" /\ s[n].c = c

\* What the handlers on stack s keep up, and what is known of the orders.
StackInv(s, f, k, se, bu) ==
    /\ s \in Seq(Waiting)
    /\ Apart(s, k)
    /\ \A n \in 1 .. Len(s) : Fits(s[n], f, se, bu)

OrdersInv(f, k, se, bu) ==
    /\ f \subseteq Candidats /\ k \subseteq f
    /\ se \in [Candidats -> 0 .. 1] /\ bu \in [Candidats -> 0 .. 1]
    /\ \A c \in k \cup (Candidats \ f) : Quiet(c, se, bu)

HedgedInv(s, se, bu, wd) ==
    /\ wd \subseteq Candidats
    /\ \A c \in Candidats : se[c] # bu[c] => c \in wd \/ Selling(s, c)

CallsInv ==
    /\ StackInv(calls, found, candidats, sells, buys)
    /\ OrdersInv(found, candidats, sells, buys)
    /\ HedgedInv(calls, sells, buys, widowed)
    /\ crashes \in Nat

\* A handler that waits for nobody's sell order goes on with some of the
\* candidates it had.
LEMMA StackReplaced ==
    ASSUME NEW s, NEW f, NEW k, NEW se, NEW bu, NEW wd,
           StackInv(s, f, k, se, bu), HedgedInv(s, se, bu, wd),
           s # <<>>, s[Len(s)].at # "sell",
           NEW w \in Waiting, Sound(w), Spot(w) \subseteq Spot(s[Len(s)]),
           Fits(w, f, se, bu),
           NEW t, t = [s EXCEPT ![Len(s)] = w]
    PROVE  StackInv(t, f, k, se, bu) /\ HedgedInv(t, se, bu, wd)
<1>1. /\ s \in Seq(Waiting) /\ Apart(s, k)
      /\ \A n \in 1 .. Len(s) : Fits(s[n], f, se, bu)
  BY DEF StackInv
<1>2. /\ t \in Seq(Waiting)
      /\ Len(t) = Len(s) /\ Len(s) \in 1 .. Len(s) /\ t[Len(s)] = w
      /\ \A n \in 1 .. Len(s) : n # Len(s) => t[n] = s[n]
  BY <1>1, Replaced
<1>3. Apart(t, k)
  BY <1>1, ApartReplaced
<1>4. \A n \in 1 .. Len(t) : Fits(t[n], f, se, bu)
  BY <1>1, <1>2
<1>5. \A c \in Candidats : Selling(s, c) => Selling(t, c)
  BY <1>2 DEF Selling
<1> QED
  BY <1>2, <1>3, <1>4, <1>5 DEF StackInv, HedgedInv

\* The handler on top is done, with nobody's sell order out.
LEMMA StackPopped ==
    ASSUME NEW s \in Seq(Waiting), NEW f, NEW k, NEW se, NEW bu, NEW wd,
           StackInv(s, f, k, se, bu), HedgedInv(s, se, bu, wd),
           s # <<>>, s[Len(s)].at # "sell",
           NEW t, t = SubSeq(s, 1, Len(s) - 1)
    PROVE  StackInv(t, f, k, se, bu) /\ HedgedInv(t, se, bu, wd)
<1>1. Apart(s, k) /\ \A n \in 1 .. Len(s) : Fits(s[n], f, se, bu)
  BY DEF StackInv
<1>2. t \in Seq(Waiting)
  BY Popped
<1>3. Len(t) \in Nat /\ Len(s) = Len(t) + 1
  BY Popped
<1>4. \A n \in 1 .. Len(t) : n \in 1 .. Len(s) /\ t[n] = s[n]
  BY Popped
<1>5. \A n \in 1 .. Len(s) : Spot(s[n]) \cap k = {}
  BY <1>1 DEF Apart
<1>6. Apart(t, k)
  BY <1>1, <1>5, ApartPopped
<1>7. \A n \in 1 .. Len(t) : Fits(t[n], f, se, bu)
  BY <1>1, <1>4
<1>8. \A n \in 1 .. Len(s) : n # Len(s) => n \in 1 .. Len(t)
  BY <1>3
<1>9. \A c \in Candidats : Selling(s, c) => Selling(t, c)
  BY <1>4, <1>8 DEF Selling
<1> QED
  BY <1>2, <1>6, <1>7, <1>9 DEF StackInv, HedgedInv

\* A handler starts, perhaps with the whole list k, and leaves l of it.
LEMMA StackPushed ==
    ASSUME NEW s, NEW f, NEW k, NEW l, NEW se, NEW bu, NEW wd,
           StackInv(s, f, k, se, bu), HedgedInv(s, se, bu, wd),
           NEW w \in Waiting, Sound(w), Spot(w) \cup l \subseteq k,
           Spot(w) \cap l = {}, Fits(w, f, se, bu),
           NEW t, t = Append(s, w)
    PROVE  StackInv(t, f, l, se, bu) /\ HedgedInv(t, se, bu, wd)
<1>1. /\ s \in Seq(Waiting) /\ Apart(s, k)
      /\ \A n \in 1 .. Len(s) : Fits(s[n], f, se, bu)
  BY DEF StackInv
<1>2. /\ t \in Seq(Waiting) /\ Len(t) = Len(s) + 1 /\ Len(s) \in Nat
      /\ t[Len(s) + 1] = w /\ \A n \in 1 .. Len(s) : t[n] = s[n]
  BY <1>1, Pushed
<1>3. \A n \in 1 .. Len(s) : Spot(s[n]) \cap (Spot(w) \cup l) = {}
  BY <1>1 DEF Apart
<1>4. Apart(t, l)
  BY <1>1, <1>3, ApartPushed
<1>5. \A n \in 1 .. Len(t) : n \in 1 .. Len(s) \/ n = Len(s) + 1
  BY <1>2
<1>6. \A n \in 1 .. Len(t) : Fits(t[n], f, se, bu)
  BY <1>1, <1>2, <1>5
<1>7. \A n \in 1 .. Len(s) : n \in 1 .. Len(t)
  BY <1>2
<1>8. \A c \in Candidats : Selling(s, c) => Selling(t, c)
  BY <1>2, <1>7 DEF Selling
<1> QED
  BY <1>2, <1>4, <1>6, <1>8 DEF StackInv, HedgedInv

-----------------------------------------------------------------------------
(* One lemma per action *)

\* What a fresh frame looks like.
MayWait(p, k, x) ==
    p \in Points /\ k \subseteq Candidats /\ x \in Candidats \cup {None} /\ x \notin k

LEMMA WaitFrame ==
    ASSUME NEW p, NEW k, NEW x, MayWait(p, k, x)
    PROVE  /\ Wait(p, k, x) \in Waiting
           /\ Wait(p, k, x).at = p /\ Wait(p, k, x).c = x
           /\ Held(Wait(p, k, x)) = k
           /\ Spot(Wait(p, k, x)) \subseteq k \cup {x}
           /\ None \notin Spot(Wait(p, k, x))
           /\ Sound(Wait(p, k, x))
<1> DEFINE w == Wait(p, k, x)
<1>1. /\ w \in Waiting /\ w.at = p /\ w.c = x
      /\ w.cc = {} /\ w.filtered = k
  BY DEF MayWait, Wait, Waiting
<1>2. None \notin k /\ x \notin k
  BY PairOK DEF MayWait
<1> HIDE DEF w
<1>3. Held(w) = k
  BY <1>1 DEF Held
<1>4. Spot(w) \subseteq k \cup {x} /\ None \notin Spot(w)
  BY <1>1, <1>2, <1>3 DEF Spot
<1>5. Sound(w)
  BY <1>1, <1>2, <1>3 DEF Sound
<1> QED
  BY <1>1, <1>3, <1>4, <1>5 DEF w

\* And of a handler that has no candidate.
LEMMA BareWait ==
    ASSUME NEW p \in Points
    PROVE  /\ Wait(p, {}, None) \in Waiting
           /\ Wait(p, {}, None).at = p /\ Wait(p, {}, None).c = None
           /\ Held(Wait(p, {}, None)) = {} /\ Spot(Wait(p, {}, None)) = {}
           /\ Sound(Wait(p, {}, None))
<1> DEFINE w == Wait(p, {}, None)
<1>1. MayWait(p, {}, None)
  BY DEF MayWait
<1>2. /\ w \in Waiting /\ w.at = p /\ w.c = None /\ Held(w) = {} /\ Sound(w)
      /\ Spot(w) \subseteq {} \cup {None} /\ None \notin Spot(w)
  BY <1>1, WaitFrame
<1> HIDE DEF w
<1>3. Spot(w) = {}
  BY <1>2
<1> QED
  BY <1>2, <1>3 DEF w

\* What is known of the handler on top.
LEMMA TopFrame ==
    ASSUME CallsInv, calls # <<>>
    PROVE  /\ Top = calls[Len(calls)]
           /\ Len(calls) \in 1 .. Len(calls)
           /\ Top \in Waiting
           /\ Sound(Top)
           /\ Fits(Top, found, sells, buys)
           /\ Spot(Top) \cap candidats = {}
<1>1. calls \in Seq(Waiting) /\ Len(calls) \in 1 .. Len(calls)
  BY DEF CallsInv, StackInv
<1>2. Top \in Waiting
  BY <1>1 DEF Top
<1> QED
  BY <1>1, <1>2 DEF Top, CallsInv, StackInv, Apart

\* And of what its record holds.
LEMMA FrameFields ==
    ASSUME NEW w \in Waiting
    PROVE  /\ w.at \in Points
           /\ w.cc \in SUBSET Candidats /\ w.filtered \in SUBSET Candidats
           /\ w.c \in Candidats \cup {None}
  BY DEF Waiting

\* A handler goes on while the lists and the orders stay as they are.
LEMMA GoesOn ==
    ASSUME CallsInv, calls # <<>>, Top.at # "sell",
           NEW w \in Waiting, Sound(w), Spot(w) \subseteq Spot(Top),
           Fits(w, found, sells, buys), NowAt(w),
           UNCHANGED <<candidats, found, sells, buys, widowed, crashes>>
    PROVE  CallsInv'
<1>1. Top = calls[Len(calls)]
  BY DEF Top
<1>2. /\ StackInv(calls, found, candidats, sells, buys)
      /\ HedgedInv(calls, sells, buys, widowed)
  BY DEF CallsInv
<1>3. calls' = [calls EXCEPT ![Len(calls)] = w]
  BY DEF NowAt
<1>4. /\ StackInv(calls', found, candidats, sells, buys)
      /\ HedgedInv(calls', sells, buys, widowed)
  BY <1>1, <1>2, <1>3, StackReplaced
<1> QED
  BY <1>4 DEF CallsInv

\* The loop over the filtered candidates goes on.
LEMMA LoopGoesOn ==
    ASSUME CallsInv, calls # <<>>, Top.at # "sell",
           NEW k \in SUBSET Held(Top), GoOn(k),
           UNCHANGED <<candidats, found, sells, buys, widowed, crashes>>
    PROVE  CallsInv'
<1>1. /\ Top \in Waiting /\ Sound(Top) /\ Fits(Top, found, sells, buys)
  BY TopFrame
<1>2. /\ k \in SUBSET Candidats /\ k \subseteq Spot(Top) /\ k \subseteq found
      /\ \A c \in k : Quiet(c, sells, buys)
  BY <1>1, FrameFields DEF Held, Spot, Fits
<1>3. ASSUME NowAt(Wait("report", {}, None))
      PROVE  CallsInv'
  <2> DEFINE w == Wait("report", {}, None)
  <2>1. /\ w \in Waiting /\ w.at = "report" /\ w.c = None /\ Held(w) = {}
        /\ Spot(w) = {} /\ Sound(w)
    BY BareWait DEF Points
  <2>2. NowAt(w)
    BY <1>3
  <2> HIDE DEF w
  <2>3. Fits(w, found, sells, buys)
    BY <2>1 DEF Fits
  <2> QED
    BY <2>1, <2>2, <2>3, GoesOn
<1>4. ASSUME NEW c \in k, NowAt(Wait("params", k \ {c}, c))
      PROVE  CallsInv'
  <2> DEFINE l == k \ {c}
         w == Wait("params", l, c)
  <2>1. c \in Candidats \cup {None} /\ l \subseteq Candidats /\ c \notin l
    BY <1>2
  <2>2. MayWait("params", l, c)
    BY <2>1 DEF MayWait, Points
  <2> HIDE DEF l
  <2>3. /\ w \in Waiting /\ w.at = "params" /\ w.c = c /\ Held(w) = l
        /\ Spot(w) \subseteq l \cup {c} /\ Sound(w)
    BY <2>2, WaitFrame
  <2>4. l \subseteq k /\ NowAt(w)
    BY <1>4 DEF l
  <2> HIDE DEF w
  <2>5. Fits(w, found, sells, buys)
    BY <1>2, <2>3, <2>4 DEF Fits
  <2>6. Spot(w) \subseteq Spot(Top)
    BY <1>2, <2>3, <2>4
  <2> QED
    BY <2>3, <2>4, <2>5, <2>6, GoesOn
<1> QED
  BY <1>3, <1>4 DEF GoOn

LEMMA WindowCalculatesKeeps ==
    ASSUME CallsInv, WindowCalculates
    PROVE  CallsInv'
<1> DEFINE w == Wait("balances", {}, None)
<1>1. /\ w \in Waiting /\ w.at = "balances" /\ w.c = None /\ Held(w) = {}
      /\ Spot(w) = {} /\ Sound(w)
  BY BareWait DEF Points
<1>2. calls' = Append(calls, w)
  BY DEF WindowCalculates, Push
<1>3. UNCHANGED <<candidats, found, sells, buys, widowed, crashes>>
  BY DEF WindowCalculates
<1> HIDE DEF w
<1>4. Fits(w, found, sells, buys)
  BY <1>1 DEF Fits
<1>5. /\ StackInv(calls, found, candidats, sells, buys)
      /\ HedgedInv(calls, sells, buys, widowed)
  BY DEF CallsInv
<1>6. Spot(w) \cup candidats \subseteq candidats /\ Spot(w) \cap candidats = {}
  BY <1>1
<1>7. /\ StackInv(calls', found, candidats, sells, buys)
      /\ HedgedInv(calls', sells, buys, widowed)
  BY <1>1, <1>2, <1>4, <1>5, <1>6, StackPushed
<1> QED
  BY <1>3, <1>7 DEF CallsInv

LEMMA CheckCandidatsKeepsCalls ==
    ASSUME CallsInv, CheckCandidats,
           UNCHANGED <<found, sells, buys, widowed, crashes>>
    PROVE  CallsInv'
<1>1. /\ StackInv(calls, found, candidats, sells, buys)
      /\ OrdersInv(found, candidats, sells, buys)
      /\ HedgedInv(calls, sells, buys, widowed)
  BY DEF CallsInv
<1>2. PICK w \in Waiting :
        /\ calls' = Append(calls, w) /\ Sound(w)
        /\ Spot(w) = candidats /\ Held(w) = candidats
        /\ w.at \in {"filter", "report"} /\ w.c = None
  <2>1. candidats \in SUBSET Candidats /\ None \notin candidats
    BY <1>1, PairOK DEF OrdersInv
  <2>2. CASE candidats = {}
    <3> DEFINE w == Wait("report", {}, None)
    <3>1. "report" \in Points
      BY DEF Points
    <3>2. /\ w \in Waiting /\ Sound(w) /\ Spot(w) = {} /\ Held(w) = {}
          /\ w.at = "report" /\ w.c = None
      BY <3>1, BareWait
    <3>3. calls' = Append(calls, w)
      BY <2>2 DEF CheckCandidats, Push
    <3> QED
      BY <2>2, <3>2, <3>3
  <2>3. CASE candidats # {}
    <3> DEFINE w == [at |-> "filter", cc |-> candidats, filtered |-> {},
                     c |-> None]
    <3>1. /\ w \in Waiting /\ w.at = "filter" /\ w.c = None
          /\ w.cc = candidats /\ w.filtered = {}
      BY <2>1 DEF Waiting, Points
    <3>2. calls' = Append(calls, w)
      BY <2>3 DEF CheckCandidats, Push
    <3> HIDE DEF w
    <3>3. Held(w) = candidats /\ Spot(w) = candidats /\ Sound(w)
      BY <2>1, <3>1 DEF Held, Spot, Sound
    <3> QED
      BY <3>1, <3>2, <3>3
  <2> QED
    BY <2>2, <2>3
<1>3. Fits(w, found, sells, buys)
  BY <1>1, <1>2 DEF Fits, OrdersInv
<1>4. Spot(w) \cup {} \subseteq candidats /\ Spot(w) \cap {} = {}
  BY <1>2
<1>5. /\ StackInv(calls', found, {}, sells, buys)
      /\ HedgedInv(calls', sells, buys, widowed)
  BY <1>1, <1>2, <1>3, <1>4, StackPushed
<1>6. OrdersInv(found, {}, sells, buys)
  BY <1>1 DEF OrdersInv
<1>7. candidats' = {}
  BY DEF CheckCandidats
<1> QED
  BY <1>5, <1>6, <1>7 DEF CallsInv

LEMMA CalculateOrderbooksKeeps ==
    ASSUME CallsInv, CalculateOrderbooks
    PROVE  CallsInv'
<1>1. UNCHANGED <<found, sells, buys, widowed, crashes>>
  BY DEF CalculateOrderbooks
<1>2. CheckCandidats \/ UNCHANGED <<candidats, calls>>
  BY DEF CalculateOrderbooks
<1> QED
  BY <1>1, <1>2, CheckCandidatsKeepsCalls DEF CallsInv

\* Every candidate a handler has was found by a window.
LEMMA SpotFound ==
    ASSUME NEW w \in Waiting, NEW f, NEW se, NEW bu, Fits(w, f, se, bu)
    PROVE  Spot(w) \subseteq f
  BY FrameFields DEF Fits, Spot, Points

LEMMA ReturnBalancesKeeps ==
    ASSUME CallsInv, ReturnBalances
    PROVE  CallsInv'
<1>1. /\ StackInv(calls, found, candidats, sells, buys)
      /\ OrdersInv(found, candidats, sells, buys)
      /\ HedgedInv(calls, sells, buys, widowed)
      /\ calls \in Seq(Waiting)
  BY DEF CallsInv, StackInv
<1>2. /\ calls # <<>> /\ calls[Len(calls)].at # "sell"
      /\ calls' = SubSeq(calls, 1, Len(calls) - 1)
      /\ UNCHANGED <<sells, buys, widowed, crashes>>
  BY DEF ReturnBalances, TopIs, Top, Pop
<1>3. /\ StackInv(calls', found, candidats, sells, buys)
      /\ HedgedInv(calls', sells, buys, widowed)
  BY <1>1, <1>2, StackPopped
<1>4. CASE UNCHANGED <<found, candidats>>
  BY <1>1, <1>2, <1>3, <1>4 DEF CallsInv
<1>5. ASSUME NEW c \in Candidats \ found,
             found' = found \cup {c}, candidats' = candidats \cup {c}
      PROVE  CallsInv'
  <2>1. /\ calls' \in Seq(Waiting) /\ Apart(calls', candidats)
        /\ \A n \in 1 .. Len(calls') : Fits(calls'[n], found, sells, buys)
    BY <1>3 DEF StackInv
  <2>2. \A n \in 1 .. Len(calls') : calls'[n] \in Waiting
    BY <2>1
  <2>3. \A n \in 1 .. Len(calls') : c \notin Spot(calls'[n])
    BY <2>1, <2>2, <1>5, SpotFound
  <2>4. Apart(calls', candidats')
    BY <2>1, <2>3, <1>5 DEF Apart
  <2>5. \A n \in 1 .. Len(calls') : Fits(calls'[n], found', sells, buys)
    BY <2>1, <1>5 DEF Fits
  <2>6. StackInv(calls', found', candidats', sells, buys)
    BY <2>1, <2>4, <2>5 DEF StackInv
  <2>7. OrdersInv(found', candidats', sells, buys)
    BY <1>1, <1>5 DEF OrdersInv
  <2> QED
    BY <1>2, <1>3, <2>6, <2>7 DEF CallsInv
<1> QED
  BY <1>4, <1>5 DEF ReturnBalances

LEMMA ReturnFilterKeeps ==
    ASSUME CallsInv, ReturnFilter
    PROVE  CallsInv'
<1>1. /\ calls # <<>> /\ Top.at = "filter"
      /\ UNCHANGED <<candidats, found, sells, buys, widowed, crashes>>
  BY DEF ReturnFilter, TopIs
<1>2. /\ Top \in Waiting /\ Sound(Top) /\ Fits(Top, found, sells, buys)
  BY <1>1, TopFrame
<1>3. PICK c \in Top.cc, kept \in SUBSET Candidats :
        /\ kept \subseteq Top.filtered \cup {c}
        /\ \/ GoOn(kept)
           \/ NowAt([Top EXCEPT !.cc = Top.cc \ {c}, !.filtered = kept])
  <2>1. PICK c \in Top.cc :
          \E kept \in {Top.filtered, Top.filtered \cup {c}} :
            \/ GoOn(kept)
            \/ NowAt([Top EXCEPT !.cc = Top.cc \ {c}, !.filtered = kept])
    BY DEF ReturnFilter
  <2>2. Top.filtered \cup {c} \subseteq Candidats
    BY <1>2, FrameFields
  <2> QED
    BY <2>1, <2>2
<1>4. kept \subseteq Held(Top) /\ (Top.cc \ {c}) \cap kept = {}
  BY <1>2, <1>3 DEF Held, Sound
<1>5. CASE GoOn(kept)
  BY <1>1, <1>4, <1>5, LoopGoesOn
<1>6. CASE NowAt([Top EXCEPT !.cc = Top.cc \ {c}, !.filtered = kept])
  <2> DEFINE w == [Top EXCEPT !.cc = Top.cc \ {c}, !.filtered = kept]
  <2>1. kept \in SUBSET Candidats /\ Top.cc \ {c} \in SUBSET Candidats
    BY <1>2, FrameFields
  <2>2. /\ w \in Waiting /\ w.at = Top.at /\ w.c = Top.c
        /\ w.cc = Top.cc \ {c} /\ w.filtered = kept
    BY <1>2, <2>1 DEF Waiting
  <2>3. NowAt(w)
    BY <1>6
  <2> HIDE DEF w
  <2>4. Held(w) \subseteq Held(Top)
    BY <1>4, <2>2 DEF Held
  <2>5. Sound(w) /\ Spot(w) \subseteq Spot(Top)
    BY <1>2, <1>4, <2>2, <2>4 DEF Sound, Spot
  <2>6. Fits(w, found, sells, buys)
    BY <1>2, <2>2, <2>4 DEF Fits
  <2> QED
    BY <1>1, <2>2, <2>3, <2>5, <2>6, GoesOn
<1> QED
  BY <1>3, <1>5, <1>6

LEMMA ReturnParamsKeeps ==
    ASSUME CallsInv, ReturnParams
    PROVE  CallsInv'
<1>1. /\ calls # <<>> /\ Top.at = "params"
      /\ UNCHANGED <<candidats, found, sells, buys, widowed, crashes>>
  BY DEF ReturnParams, TopIs
<1>2. /\ Top \in Waiting /\ Sound(Top) /\ Fits(Top, found, sells, buys)
  BY <1>1, TopFrame
<1>3. /\ Top.filtered \in SUBSET Candidats /\ Top.filtered \subseteq Held(Top)
      /\ Top.c \in Candidats \cup {None} /\ Top.c \notin Top.filtered
  BY <1>2, FrameFields DEF Held, Sound
<1> DEFINE k == Top.filtered
           r == Wait("refused", k, None)
           g == Wait("log1", k, Top.c)
<1>4. NowAt(r) \/ GoOn(Top.filtered) \/ NowAt(g)
  BY DEF ReturnParams
<1>5. CASE GoOn(Top.filtered)
  BY <1>1, <1>3, <1>5, LoopGoesOn
<1>6. MayWait("refused", k, None) /\ MayWait("log1", k, Top.c)
  BY <1>3, PairOK DEF MayWait, Points
<1> HIDE DEF k
<1>7. /\ r \in Waiting /\ r.at = "refused" /\ r.c = None
      /\ Held(r) = k /\ Spot(r) \subseteq k \cup {None}
      /\ None \notin Spot(r) /\ Sound(r)
  BY <1>6, WaitFrame
<1>8. /\ g \in Waiting /\ g.at = "log1" /\ g.c = Top.c
      /\ Held(g) = k /\ Spot(g) \subseteq k \cup {Top.c}
      /\ None \notin Spot(g) /\ Sound(g)
  BY <1>6, WaitFrame
<1> HIDE DEF r, g
<1> USE DEF k
<1>9. CASE NowAt(r)
  <2>1. Fits(r, found, sells, buys)
    BY <1>2, <1>3, <1>7 DEF Fits
  <2>2. Spot(r) \subseteq Spot(Top)
    BY <1>3, <1>7 DEF Spot
  <2> QED
    BY <1>1, <1>7, <1>9, <2>1, <2>2, GoesOn
<1>10. CASE NowAt(g)
  <2>1. Fits(g, found, sells, buys)
    BY <1>1, <1>2, <1>3, <1>8 DEF Fits
  <2>2. Spot(g) \subseteq Spot(Top)
    BY <1>3, <1>8 DEF Spot
  <2> QED
    BY <1>1, <1>8, <1>10, <2>1, <2>2, GoesOn
<1> QED
  BY <1>4, <1>5, <1>9, <1>10

\* The loop goes on after a message or after the buy order.
LEMMA NextCandidatKeeps ==
    ASSUME CallsInv, ReturnRefused \/ ReturnBuy
    PROVE  CallsInv'
<1>1. /\ calls # <<>> /\ Top.at # "sell" /\ GoOn(Top.filtered)
      /\ UNCHANGED <<candidats, found, sells, buys, widowed, crashes>>
  BY DEF ReturnRefused, ReturnBuy, TopIs
<1>2. Top.filtered \in SUBSET Held(Top)
  BY DEF Held
<1> QED
  BY <1>1, <1>2, LoopGoesOn

\* A handler that only moves on to its next call.
LEMMA MovedOn ==
    ASSUME NEW w \in Waiting, NEW p \in Points
    PROVE  LET v == [w EXCEPT !.at = p] IN
           /\ v \in Waiting /\ v.at = p /\ v.c = w.c
           /\ Held(v) = Held(w) /\ Spot(v) = Spot(w)
           /\ Sound(w) => Sound(v)
<1> DEFINE v == [w EXCEPT !.at = p]
<1>1. /\ v \in Waiting /\ v.at = p /\ v.c = w.c
      /\ v.cc = w.cc /\ v.filtered = w.filtered
  BY DEF Waiting
<1> HIDE DEF v
<1>2. Held(v) = Held(w) /\ Spot(v) = Spot(w) /\ (Sound(w) => Sound(v))
  BY <1>1 DEF Held, Spot, Sound
<1> QED
  BY <1>1, <1>2 DEF v

LEMMA ReturnLog1Keeps ==
    ASSUME CallsInv, ReturnLog1
    PROVE  CallsInv'
<1> DEFINE w == [Top EXCEPT !.at = "log2"]
<1>1. /\ calls # <<>> /\ Top.at = "log1" /\ NowAt(w)
      /\ UNCHANGED <<candidats, found, sells, buys, widowed, crashes>>
  BY DEF ReturnLog1, TopIs
<1>2. /\ Top \in Waiting /\ Sound(Top) /\ Fits(Top, found, sells, buys)
  BY <1>1, TopFrame
<1>3. "log2" \in Points
  BY DEF Points
<1>4. /\ w \in Waiting /\ w.at = "log2" /\ w.c = Top.c
      /\ Held(w) = Held(Top) /\ Spot(w) = Spot(Top) /\ Sound(w)
  BY <1>2, <1>3, MovedOn
<1> HIDE DEF w
<1>5. Fits(w, found, sells, buys)
  BY <1>1, <1>2, <1>4 DEF Fits
<1> QED
  BY <1>1, <1>4, <1>5, GoesOn

\* An order of one candidate changes nothing for the handlers that have
\* others.
LEMMA FitsOthers ==
    ASSUME NEW w \in Waiting, NEW f \in SUBSET Candidats,
           NEW se, NEW bu, NEW se2, NEW bu2, Fits(w, f, se, bu),
           NEW c, c \notin Spot(w),
           \A d \in Candidats \ {c} : se2[d] = se[d] /\ bu2[d] = bu[d]
    PROVE  Fits(w, f, se2, bu2)
<1>1. Spot(w) \subseteq Candidats \ {c}
  BY SpotFound
<1>2. \A d \in Spot(w) : se2[d] = se[d] /\ bu2[d] = bu[d]
  BY <1>1
<1>3. w.at \in {"params", "log1", "log2", "sell", "buy"} => w.c \in Spot(w)
  BY PairOK DEF Fits, Spot
<1>4. Held(w) \subseteq Spot(w)
  BY DEF Spot
<1> QED
  BY <1>2, <1>3, <1>4 DEF Fits, Quiet

\* The handler on top sends an order of its candidate.
LEMMA OrderSent ==
    ASSUME CallsInv, calls # <<>>, Top.c \in found,
           NEW w \in Waiting, w.c = Top.c, Spot(w) = Spot(Top), Sound(w), NowAt(w),
           Fits(w, found, sells', buys'),
           sells' \in [Candidats -> 0 .. 1], buys' \in [Candidats -> 0 .. 1],
           \A d \in Candidats \ {Top.c} :
                sells'[d] = sells[d] /\ buys'[d] = buys[d],
           sells'[Top.c] # buys'[Top.c] => w.at = "sell",
           UNCHANGED <<candidats, found, widowed, crashes>>
    PROVE  CallsInv'
<1>1. /\ calls \in Seq(Waiting) /\ Apart(calls, candidats)
      /\ \A n \in 1 .. Len(calls) : Fits(calls[n], found, sells, buys)
      /\ OrdersInv(found, candidats, sells, buys)
      /\ HedgedInv(calls, sells, buys, widowed) /\ crashes \in Nat
  BY DEF CallsInv, StackInv
<1>2. /\ Top = calls[Len(calls)] /\ Sound(Top) /\ Spot(Top) \cap candidats = {}
      /\ Top \in Waiting
  BY TopFrame
<1>3. /\ calls' \in Seq(Waiting) /\ Len(calls') = Len(calls)
      /\ Len(calls) \in 1 .. Len(calls)
      /\ calls'[Len(calls)] = w
      /\ \A n \in 1 .. Len(calls) : n # Len(calls) => calls'[n] = calls[n]
  BY <1>1, Replaced DEF NowAt
<1>4. Top.c \in Candidats /\ Top.c # None /\ Top.c \in Spot(Top)
  BY <1>1, PairOK DEF OrdersInv, Spot
<1>5. \A n \in 1 .. Len(calls) : n # Len(calls) =>
        calls[n] \in Waiting /\ Top.c \notin Spot(calls[n])
  <2>1. TAKE n \in 1 .. Len(calls)
  <2>2. HAVE n # Len(calls)
  <2>3. Spot(calls[Len(calls)]) \cap Spot(calls[n]) = {}
    BY <1>1, <1>3, <2>2 DEF Apart
  <2>4. calls[n] \in Waiting
    BY <1>1
  <2> QED
    BY <1>2, <1>4, <2>3, <2>4
<1>6. Apart(calls', candidats)
  <2>1. calls' = [calls EXCEPT ![Len(calls)] = w]
    BY DEF NowAt
  <2>2. Spot(w) \subseteq Spot(calls[Len(calls)])
    BY <1>2
  <2> QED
    BY <1>1, <2>1, <2>2, ApartReplaced
<1>7. \A n \in 1 .. Len(calls) : Fits(calls'[n], found, sells', buys')
  <2>1. TAKE n \in 1 .. Len(calls)
  <2>2. CASE n = Len(calls)
    BY <1>3, <2>2
  <2>3. CASE n # Len(calls)
    <3>1. /\ calls[n] \in Waiting /\ Top.c \notin Spot(calls[n])
          /\ Fits(calls[n], found, sells, buys) /\ calls'[n] = calls[n]
          /\ found \in SUBSET Candidats
      BY <1>1, <1>3, <1>5, <2>3 DEF OrdersInv
    <3>2. Fits(calls[n], found, sells', buys')
      BY <3>1, FitsOthers
    <3> QED
      BY <3>1, <3>2
  <2> QED
    BY <2>2, <2>3
<1>8. StackInv(calls', found', candidats', sells', buys')
  BY <1>3, <1>6, <1>7 DEF StackInv
<1>9. OrdersInv(found', candidats', sells', buys')
  BY <1>1, <1>2, <1>4 DEF OrdersInv, Quiet
<1>10. \A c \in Candidats \ {Top.c} : Selling(calls, c) => Selling(calls', c)
  BY <1>2, <1>3 DEF Selling
<1>11. w.at = "sell" => Selling(calls', Top.c)
  BY <1>3 DEF Selling
<1>12. HedgedInv(calls', sells', buys', widowed')
  BY <1>1, <1>10, <1>11 DEF HedgedInv
<1> QED
  BY <1>1, <1>8, <1>9, <1>12 DEF CallsInv

LEMMA ReturnLog2Keeps ==
    ASSUME CallsInv, ReturnLog2
    PROVE  CallsInv'
<1> DEFINE w == [Top EXCEPT !.at = "sell"]
<1>1. /\ calls # <<>> /\ Top.at = "log2" /\ NowAt(w)
      /\ sells' = [sells EXCEPT ![Top.c] = @ + 1] /\ buys' = buys
      /\ UNCHANGED <<candidats, found, widowed, crashes>>
  BY DEF ReturnLog2, TopIs
<1>2. /\ Top \in Waiting /\ Sound(Top) /\ Fits(Top, found, sells, buys)
  BY <1>1, TopFrame
<1>3. /\ OrdersInv(found, candidats, sells, buys)
      /\ "sell" \in Points
  BY DEF CallsInv, Points
<1>4. /\ w \in Waiting /\ w.at = "sell" /\ w.c = Top.c
      /\ Held(w) = Held(Top) /\ Spot(w) = Spot(Top) /\ Sound(w)
  BY <1>2, <1>3, MovedOn
<1>5. Top.c \in found /\ sells[Top.c] = 0 /\ buys[Top.c] = 0
  BY <1>1, <1>2 DEF Fits, Quiet
<1>6. /\ sells' \in [Candidats -> 0 .. 1] /\ buys' \in [Candidats -> 0 .. 1]
      /\ \A d \in Candidats \ {Top.c} : sells'[d] = sells[d] /\ buys'[d] = buys[d]
      /\ sells'[Top.c] = 1 /\ buys'[Top.c] = 0
  BY <1>1, <1>3, <1>5 DEF OrdersInv
<1> HIDE DEF w
<1>7. \A d \in Held(w) : d # Top.c /\ d \in Candidats /\ d \in found
  BY <1>2, <1>3, <1>4 DEF Sound, Fits, OrdersInv
<1>8. Fits(w, found, sells', buys')
  BY <1>2, <1>4, <1>5, <1>6, <1>7 DEF Fits, Quiet
<1> QED
  BY <1>1, <1>4, <1>5, <1>6, <1>8, OrderSent

LEMMA ReturnSellKeeps ==
    ASSUME CallsInv, ReturnSell
    PROVE  CallsInv'
<1> DEFINE w == [Top EXCEPT !.at = "buy"]
<1>1. /\ calls # <<>> /\ Top.at = "sell" /\ NowAt(w)
      /\ buys' = [buys EXCEPT ![Top.c] = @ + 1] /\ sells' = sells
      /\ UNCHANGED <<candidats, found, widowed, crashes>>
  BY DEF ReturnSell, TopIs
<1>2. /\ Top \in Waiting /\ Sound(Top) /\ Fits(Top, found, sells, buys)
  BY <1>1, TopFrame
<1>3. /\ OrdersInv(found, candidats, sells, buys)
      /\ "buy" \in Points
  BY DEF CallsInv, Points
<1>4. /\ w \in Waiting /\ w.at = "buy" /\ w.c = Top.c
      /\ Held(w) = Held(Top) /\ Spot(w) = Spot(Top) /\ Sound(w)
  BY <1>2, <1>3, MovedOn
<1>5. Top.c \in found /\ sells[Top.c] = 1 /\ buys[Top.c] = 0
  BY <1>1, <1>2 DEF Fits
<1>6. /\ sells' \in [Candidats -> 0 .. 1] /\ buys' \in [Candidats -> 0 .. 1]
      /\ \A d \in Candidats \ {Top.c} : sells'[d] = sells[d] /\ buys'[d] = buys[d]
      /\ sells'[Top.c] = 1 /\ buys'[Top.c] = 1
  BY <1>1, <1>3, <1>5 DEF OrdersInv
<1> HIDE DEF w
<1>7. \A d \in Held(w) : d # Top.c /\ d \in Candidats /\ d \in found
  BY <1>2, <1>3, <1>4 DEF Sound, Fits, OrdersInv
<1>8. Fits(w, found, sells', buys')
  BY <1>2, <1>4, <1>5, <1>6, <1>7 DEF Fits, Quiet
<1> QED
  BY <1>1, <1>4, <1>5, <1>6, <1>8, OrderSent

LEMMA ReturnReportKeeps ==
    ASSUME CallsInv, ReturnReport
    PROVE  CallsInv'
<1>1. /\ calls # <<>> /\ calls[Len(calls)].at # "sell"
      /\ calls' = SubSeq(calls, 1, Len(calls) - 1)
      /\ UNCHANGED <<candidats, found, sells, buys, widowed, crashes>>
  BY DEF ReturnReport, TopIs, Top, Pop
<1>2. /\ StackInv(calls, found, candidats, sells, buys)
      /\ HedgedInv(calls, sells, buys, widowed) /\ calls \in Seq(Waiting)
  BY DEF CallsInv, StackInv
<1>3. /\ StackInv(calls', found, candidats, sells, buys)
      /\ HedgedInv(calls', sells, buys, widowed)
  BY <1>1, <1>2, StackPopped
<1> QED
  BY <1>1, <1>3 DEF CallsInv

\* A process that dies forgets its handlers; who waited for the answer to a
\* sell order is widowed.
LEMMA CrashKeeps ==
    ASSUME CallsInv, Crash
    PROVE  CallsInv'
<1>1. /\ OrdersInv(found, candidats, sells, buys)
      /\ HedgedInv(calls, sells, buys, widowed) /\ crashes \in Nat
  BY DEF CallsInv
<1>2. /\ calls' = <<>> /\ candidats' = {} /\ crashes' \in Nat
      /\ widowed' = widowed \cup {c \in Candidats : Selling(calls, c)}
      /\ UNCHANGED <<found, sells, buys>>
  BY <1>1 DEF Crash, Selling
<1>3. StackInv(<<>>, found, {}, sells, buys)
  BY DEF StackInv, Apart
<1>4. OrdersInv(found, {}, sells, buys)
  BY <1>1 DEF OrdersInv
<1>5. HedgedInv(<<>>, sells, buys, widowed')
  BY <1>1, <1>2 DEF HedgedInv
<1> QED
  BY <1>2, <1>3, <1>4, <1>5 DEF CallsInv

LEMMA CallsInit ==
    ASSUME Init
    PROVE  CallsInv
<1>1. StackInv(<<>>, {}, {}, sells, buys)
  BY DEF StackInv, Apart
<1>2. OrdersInv({}, {}, sells, buys) /\ HedgedInv(<<>>, sells, buys, {})
  BY DEF Init, OrdersInv, HedgedInv, Quiet
<1> QED
  BY <1>1, <1>2 DEF Init, CallsInv

LEMMA CallsNext ==
    ASSUME CallsInv, [Next]_vars
    PROVE  CallsInv'
<1>1. CASE UNCHANGED <<candidats, found, calls, sells, buys, widowed, crashes>>
  BY <1>1 DEF CallsInv
<1>2. CASE WindowCalculates
  BY <1>2, WindowCalculatesKeeps
<1>3. CASE CalculateOrderbooks
  BY <1>3, CalculateOrderbooksKeeps
<1>4. CASE CallReturns
  BY <1>4, ReturnBalancesKeeps, ReturnFilterKeeps, ReturnParamsKeeps,
     NextCandidatKeeps, ReturnLog1Keeps, ReturnLog2Keeps, ReturnSellKeeps,
     ReturnReportKeeps DEF CallReturns
<1>5. CASE Elapse \/ SaveLinks \/ LoadLinks
  BY <1>1, <1>5 DEF Elapse, SaveLinks, LoadLinks
<1>6. CASE Crash
  BY <1>6, CrashKeeps
<1>7. CASE UNCHANGED vars
  BY <1>1, <1>7 DEF vars
<1> QED
  BY <1>2, <1>3, <1>4, <1>5, <1>6, <1>7 DEF Next

-----------------------------------------------------------------------------
(* The links and the lock *)

LinksInv ==
    /\ LinksTypeOK
    /\ loaded => \A w \in Windows : disk[w] \subseteq linked[w]

LockInv ==
    /\ locked \in BOOLEAN
    /\ age \in 0 .. LockSecs
    /\ ~locked => age = LockSecs

\* Only a placing links orders, and only orders of a candidate.
LEMMA LinksSteps ==
    ASSUME CallsInv, [Next]_vars
    PROVE  \/ UNCHANGED links
           \/ \E c \in Candidats : LinkOrders(c)
           \/ SaveOrdersRelsToDisk
           \/ LoadOrdersRelFromDisk
           \/ Crash
<1>1. CASE CallReturns
  <2>1. CASE ReturnParams
    <3>1. calls # <<>> /\ Top.at = "params"
      BY <2>1 DEF ReturnParams, TopIs
    <3>2. Top.c \in found /\ found \subseteq Candidats
      BY <3>1, TopFrame DEF Fits, CallsInv, OrdersInv
    <3>3. UNCHANGED links \/ LinkOrders(Top.c)
      BY <2>1 DEF ReturnParams
    <3> QED
      BY <3>2, <3>3
  <2>2. CASE ~ReturnParams
    BY <1>1, <2>2 DEF CallReturns, ReturnBalances, ReturnFilter, ReturnRefused,
       ReturnLog1, ReturnLog2, ReturnSell, ReturnBuy, ReturnReport
  <2> QED
    BY <2>1, <2>2
<1>2. CASE WindowCalculates \/ CalculateOrderbooks \/ Elapse
  BY <1>2 DEF WindowCalculates, CalculateOrderbooks, Elapse
<1>3. CASE SaveLinks \/ LoadLinks \/ Crash
  BY <1>3 DEF SaveLinks, LoadLinks
<1>4. CASE UNCHANGED vars
  BY <1>4 DEF vars
<1> QED
  BY <1>1, <1>2, <1>3, <1>4 DEF Next

LEMMA LinksNext ==
    ASSUME CallsInv, LinksInv, [Next]_vars
    PROVE  LinksInv'
<1>1. CASE UNCHANGED links
  BY <1>1 DEF LinksInv, LinksTypeOK, links
<1>2. ASSUME NEW c \in Candidats, LinkOrders(c)
      PROVE  LinksInv'
  <2>1. WindowOf[c] \in Windows
    BY LinksOK
  <2>2. linked' \in [Windows -> SUBSET Candidats] /\ UNCHANGED <<disk, loaded>>
    BY <1>2, <2>1 DEF LinksInv, LinksTypeOK, LinkOrders
  <2>3. \A w \in Windows : linked[w] \subseteq linked'[w]
    BY <1>2, <2>1 DEF LinksInv, LinksTypeOK, LinkOrders
  <2> QED
    BY <2>2, <2>3 DEF LinksInv, LinksTypeOK
<1>3. CASE SaveOrdersRelsToDisk
  BY <1>3 DEF LinksInv, LinksTypeOK, SaveOrdersRelsToDisk
<1>4. CASE LoadOrdersRelFromDisk
  BY <1>4 DEF LinksInv, LinksTypeOK, LoadOrdersRelFromDisk
<1>5. CASE Crash
  BY <1>5 DEF LinksInv, LinksTypeOK, Crash, LinksCrash, NoLinks
<1> QED
  BY <1>1, <1>2, <1>3, <1>4, <1>5, LinksSteps

\* The four ways in which the lock can change.
LEMMA LockSteps ==
    ASSUME LockInv, [Next]_vars
    PROVE  \/ UNCHANGED <<locked, age>>
           \/ locked' = FALSE /\ age' = LockSecs
           \/ ReturnParams /\ ~locked /\ locked' = TRUE /\ age' = 0
           \/ Elapse
<1>1. LockSecs \in Nat /\ age \in 0 .. LockSecs
  BY PairOK DEF LockInv
<1>2. age >= LockSecs => age = LockSecs
  BY <1>1
<1>3. CASE CalculateOrderbooks
  <2>1. CASE UNCHANGED locked
    BY <1>3, <2>1 DEF CalculateOrderbooks
  <2>2. CASE locked /\ age >= LockSecs /\ locked' = FALSE
    BY <1>2, <1>3, <2>2 DEF CalculateOrderbooks
  <2> QED
    BY <1>3, <2>1, <2>2 DEF CalculateOrderbooks
<1>4. CASE ReturnParams
  BY <1>4 DEF ReturnParams
<1>5. CASE Crash
  BY <1>5 DEF Crash
<1>6. CASE CallReturns /\ ~ReturnParams
  BY <1>6 DEF CallReturns, ReturnBalances, ReturnFilter, ReturnRefused,
     ReturnLog1, ReturnLog2, ReturnSell, ReturnBuy, ReturnReport
<1>7. CASE WindowCalculates \/ SaveLinks \/ LoadLinks \/ UNCHANGED vars
  BY <1>7 DEF WindowCalculates, SaveLinks, LoadLinks, vars
<1> QED
  BY <1>3, <1>4, <1>5, <1>6, <1>7 DEF Next

LEMMA LockNext ==
    ASSUME LockInv, [Next]_vars
    PROVE  LockInv'
<1>1. LockSecs \in Nat \ {0} /\ age \in 0 .. LockSecs
  BY PairOK DEF LockInv
<1>2. 0 \in 0 .. LockSecs /\ LockSecs \in 0 .. LockSecs
  BY <1>1
<1>3. CASE UNCHANGED <<locked, age>>
  BY <1>3 DEF LockInv
<1>4. CASE locked' = FALSE /\ age' = LockSecs
  BY <1>2, <1>4 DEF LockInv
<1>5. CASE locked' = TRUE /\ age' = 0
  BY <1>2, <1>5 DEF LockInv
<1>6. CASE Elapse
  <2>1. age' \in 0 .. LockSecs /\ age # LockSecs
    BY <1>1, <1>6 DEF Elapse
  <2>2. locked' = locked
    BY <1>6 DEF Elapse
  <2>3. locked
    BY <2>1 DEF LockInv
  <2> QED
    BY <2>1, <2>2, <2>3 DEF LockInv
<1> QED
  BY <1>3, <1>4, <1>5, <1>6, LockSteps

LEMMA PairInit ==
    ASSUME Init
    PROVE  CallsInv /\ LinksInv /\ LockInv
<1>1. LinksInv
  BY DEF Init, LinksInit, NoLinks, LinksInv, LinksTypeOK
<1>2. LockSecs \in 0 .. LockSecs
  BY PairOK
<1>3. LockInv
  BY <1>2 DEF Init, LockInv
<1> QED
  BY <1>1, <1>3, CallsInit

-----------------------------------------------------------------------------
(* What the parts amount to *)

LEMMA PartsType ==
    ASSUME CallsInv, LinksInv, LockInv
    PROVE  TypeOK
<1>1. sells \in [Candidats -> Nat] /\ buys \in [Candidats -> Nat]
  BY DEF CallsInv, OrdersInv
<1> QED
  BY <1>1 DEF CallsInv, StackInv, OrdersInv, HedgedInv, LinksInv, LockInv, TypeOK

LEMMA PartsUsedOnce ==
    ASSUME CallsInv
    PROVE  UsedOnce
<1>1. /\ calls \in Seq(Waiting) /\ Apart(calls, candidats)
      /\ \A n \in 1 .. Len(calls) : Fits(calls[n], found, sells, buys)
      /\ candidats \subseteq Candidats
      /\ sells \in [Candidats -> 0 .. 1] /\ buys \in [Candidats -> 0 .. 1]
      /\ \A c \in candidats : Quiet(c, sells, buys)
  BY DEF CallsInv, StackInv, OrdersInv
<1>2. ASSUME NEW n \in 1 .. Len(calls)
      PROVE  /\ Held(calls[n]) \cap candidats = {}
             /\ calls[n].c \notin candidats \cup Held(calls[n])
             /\ calls[n].cc \cap calls[n].filtered = {}
             /\ \A m \in 1 .. Len(calls) : m # n =>
                    /\ Held(calls[n]) \cap Held(calls[m]) = {}
                    /\ calls[n].c \notin Held(calls[m])
                    /\ calls[n].c # None => calls[n].c # calls[m].c
  <2>1. Sound(calls[n]) /\ Spot(calls[n]) \cap candidats = {}
    BY <1>1 DEF Apart
  <2>2. None \notin candidats
    BY <1>1, PairOK
  <2>3. ASSUME NEW m \in 1 .. Len(calls), m # n
        PROVE  /\ Held(calls[n]) \cap Held(calls[m]) = {}
               /\ calls[n].c \notin Held(calls[m])
               /\ calls[n].c # None => calls[n].c # calls[m].c
    <3>1. Spot(calls[n]) \cap Spot(calls[m]) = {}
      BY <1>1, <2>3 DEF Apart
    <3>2. calls[m] \in Waiting
      BY <1>1
    <3>3. None \notin Held(calls[m])
      BY <3>2, FrameFields, PairOK DEF Held
    <3> QED
      BY <3>1, <3>3 DEF Spot
  <2> QED
    BY <2>1, <2>2, <2>3 DEF Sound, Spot
<1>3. \A c \in Candidats :
        /\ sells[c] <= 1 /\ buys[c] <= 1
        /\ sells[c] = 1 =>
            /\ c \notin candidats
            /\ \A n \in 1 .. Len(calls) : c \notin Held(calls[n])
  BY <1>1 DEF Fits, Quiet
<1> QED
  BY <1>2, <1>3 DEF UsedOnce

LEMMA PartsHedged ==
    ASSUME CallsInv
    PROVE  Hedged
  BY DEF CallsInv, HedgedInv, Selling, Hedged

LEMMA PartsInv ==
    ASSUME CallsInv, LinksInv, LockInv
    PROVE  IInv
<1>1. /\ candidats \subseteq found
      /\ \A c \in candidats \cup (Candidats \ found) : Fresh(c)
  BY DEF CallsInv, OrdersInv, Quiet, Fresh
<1>2. \A n \in 1 .. Len(calls) : Progress(calls[n])
  BY DEF CallsInv, StackInv, Fits, Quiet, Progress, Fresh
<1>3. /\ ~locked => age = LockSecs
      /\ loaded => \A w \in Windows : disk[w] \subseteq linked[w]
  BY DEF LinksInv, LockInv
<1> QED
  BY <1>1, <1>2, <1>3, PartsType, PartsUsedOnce, PartsHedged DEF IInv

\* The pair, the calls that wait inside each other, and the links keep their
\* invariant, IInv: for any candidates, depth and number of crashes.
THEOREM PairInvariant == Spec => []IInv
<1>1. Init => CallsInv /\ LinksInv /\ LockInv
  BY PairInit
<1>2. CallsInv /\ LinksInv /\ LockInv /\ [Next]_vars
        => (CallsInv /\ LinksInv /\ LockInv)'
  BY CallsNext, LinksNext, LockNext
<1>3. CallsInv /\ LinksInv /\ LockInv => IInv
  BY PartsInv
<1> QED
  BY <1>1, <1>2, <1>3, PTL DEF Spec

\* Every variable of the pair keeps its type.
THEOREM TypeCorrect == Spec => []TypeOK
<1>1. IInv => TypeOK
  BY DEF IInv
<1> QED
  BY <1>1, PairInvariant, PTL

\* A candidate is in one list or one handler, and its orders are sent once.
THEOREM PlacedOnce == Spec => []UsedOnce
<1>1. IInv => UsedOnce
  BY DEF IInv
<1> QED
  BY <1>1, PairInvariant, PTL

\* A sell order without its buy order is waited for, or the process died on
\* it.
THEOREM AlwaysHedged == Spec => []Hedged
<1>1. IInv => Hedged
  BY DEF IInv
<1> QED
  BY <1>1, PairInvariant, PTL

\* Only a crash takes links off the file.
THEOREM DiskOnlyGrows == Spec => DiskKeepsLinks
<1> DEFINE Kept == \A w \in Windows : disk[w] \subseteq disk'[w] \/ crashes' # crashes
<1>1. ASSUME CallsInv, LinksInv, [Next]_vars
      PROVE  Kept
  <2>1. CASE UNCHANGED links \/ LoadOrdersRelFromDisk
    BY <2>1 DEF links, LoadOrdersRelFromDisk
  <2>2. ASSUME NEW c \in Candidats, LinkOrders(c)
        PROVE  Kept
    BY <2>2 DEF LinkOrders
  <2>3. CASE SaveOrdersRelsToDisk
    BY <1>1, <2>3 DEF SaveOrdersRelsToDisk, LinksInv
  <2>4. CASE Crash
    BY <1>1, <2>4 DEF Crash, CallsInv
  <2> QED
    BY <1>1, <2>1, <2>2, <2>3, <2>4, LinksSteps
<1>2. Init => CallsInv /\ LinksInv /\ LockInv
  BY PairInit
<1>3. CallsInv /\ LinksInv /\ LockInv /\ [Next]_vars
        => (CallsInv /\ LinksInv /\ LockInv)'
  BY CallsNext, LinksNext, LockNext
<1>4. CallsInv /\ LinksInv /\ LockInv /\ [Next]_vars => [Kept]_vars
  BY <1>1
<1> QED
  BY <1>2, <1>3, <1>4, PTL DEF Spec, DiskKeepsLinks

-----------------------------------------------------------------------------
(* Trades *)

\* Whoever is at one of these points sends orders.
Busy == {"log1", "log2", "sell"}

\* Whatever happens to the stack, other than to a handler that sends orders.
IdleChange ==
    \/ \E w \in Waiting : w.at \notin Busy /\ Push(w)
    \/ \E w \in Waiting :
        w.at \notin Busy /\ calls # <<>> /\ Top.at \notin Busy /\ NowAt(w)
    \/ calls # <<>> /\ Top.at \notin Busy /\ Pop
    \/ calls' = calls

\* A handler that starts at none of the points P moves nobody there.
LEMMA PushedHandles ==
    ASSUME calls \in Seq(Waiting), NEW P, NEW c,
           NEW w \in Waiting, w.at \notin P, Push(w)
    PROVE  Handled(P, c)' <=> Handled(P, c)
<1>1. /\ Len(calls') = Len(calls) + 1 /\ Len(calls) \in Nat
      /\ calls'[Len(calls) + 1] = w
      /\ \A n \in 1 .. Len(calls) : calls'[n] = calls[n]
  BY Pushed DEF Push
<1>2. \A n \in 1 .. Len(calls') : n \in 1 .. Len(calls) \/ n = Len(calls) + 1
  BY <1>1
<1>3. \A n \in 1 .. Len(calls) : n \in 1 .. Len(calls')
  BY <1>1
<1> QED
  BY <1>1, <1>2, <1>3 DEF Handled

\* A handler that goes on matters to its candidate only.
LEMMA ReplacedHandles ==
    ASSUME calls \in Seq(Waiting), calls # <<>>, NEW P, NEW c,
           NEW w \in Waiting, NowAt(w)
    PROVE  /\ w.at \in P /\ w.c = c => Handled(P, c)'
           /\ ((w.at \in P /\ w.c = c) <=> (Top.at \in P /\ Top.c = c))
                => (Handled(P, c)' <=> Handled(P, c))
<1>1. /\ Len(calls') = Len(calls) /\ Len(calls) \in 1 .. Len(calls)
      /\ calls'[Len(calls)] = w
      /\ \A n \in 1 .. Len(calls) : n # Len(calls) => calls'[n] = calls[n]
  BY Replaced DEF NowAt
<1> QED
  BY <1>1 DEF Handled, Top

\* Nor does one that ends at none of them.
LEMMA PoppedHandles ==
    ASSUME calls \in Seq(Waiting), calls # <<>>, NEW P, NEW c, Top.at \notin P, Pop
    PROVE  Handled(P, c)' <=> Handled(P, c)
<1>1. calls' = SubSeq(calls, 1, Len(calls) - 1)
  BY DEF Pop
<1>2. Len(calls') \in Nat /\ Len(calls) = Len(calls') + 1
  BY <1>1, Popped
<1>3. \A n \in 1 .. Len(calls') : n \in 1 .. Len(calls) /\ calls'[n] = calls[n]
  BY <1>1, Popped
<1>4. \A n \in 1 .. Len(calls) : n \in 1 .. Len(calls') \/ n = Len(calls)
  BY <1>2
<1> QED
  BY <1>3, <1>4 DEF Handled, Top

LEMMA IdleHandles ==
    ASSUME calls \in Seq(Waiting), IdleChange, NEW P \in SUBSET Busy, NEW c
    PROVE  Handled(P, c)' <=> Handled(P, c)
<1>1. ASSUME NEW w \in Waiting, w.at \notin Busy, Push(w)
      PROVE  Handled(P, c)' <=> Handled(P, c)
  BY <1>1, PushedHandles
<1>2. ASSUME NEW w \in Waiting, w.at \notin Busy, calls # <<>>, Top.at \notin Busy, NowAt(w)
      PROVE  Handled(P, c)' <=> Handled(P, c)
  BY <1>2, ReplacedHandles
<1>3. CASE calls # <<>> /\ Top.at \notin Busy /\ Pop
  BY <1>3, PoppedHandles
<1>4. CASE calls' = calls
  BY <1>4 DEF Handled
<1> QED
  BY <1>1, <1>2, <1>3, <1>4 DEF IdleChange

LEMMA GoOnIsIdle ==
    ASSUME calls # <<>>, Top.at \notin Busy, NEW k \in SUBSET Candidats, GoOn(k)
    PROVE  IdleChange
<1>1. CASE NowAt(Wait("report", {}, None))
  <2> DEFINE w == Wait("report", {}, None)
  <2>1. w \in Waiting /\ w.at = "report"
    BY BareWait DEF Points
  <2> QED
    BY <1>1, <2>1 DEF IdleChange, Busy
<1>2. ASSUME NEW c \in k, NowAt(Wait("params", k \ {c}, c))
      PROVE  IdleChange
  <2> DEFINE l == k \ {c}
             w == Wait("params", l, c)
  <2>1. MayWait("params", l, c)
    BY DEF MayWait, Points
  <2>2. NowAt(w)
    BY <1>2
  <2> HIDE DEF l
  <2>3. w \in Waiting /\ w.at = "params"
    BY <2>1, WaitFrame
  <2> HIDE DEF w
  <2> QED
    BY <1>2, <2>2, <2>3 DEF IdleChange, Busy
<1> QED
  BY <1>1, <1>2 DEF GoOn

LEMMA CheckCandidatsIsIdle ==
    ASSUME candidats \subseteq Candidats, CheckCandidats
    PROVE  IdleChange
<1>1. CASE Push(Wait("report", {}, None))
  <2> DEFINE w == Wait("report", {}, None)
  <2>1. w \in Waiting /\ w.at = "report"
    BY BareWait DEF Points
  <2> QED
    BY <1>1, <2>1 DEF IdleChange, Busy
<1> DEFINE v == [at |-> "filter", cc |-> candidats, filtered |-> {}, c |-> None]
<1>2. CASE Push(v)
  <2>1. v \in Waiting /\ v.at = "filter"
    BY DEF Waiting, Points
  <2> QED
    BY <1>2, <2>1 DEF IdleChange, Busy
<1> QED
  BY <1>1, <1>2 DEF CheckCandidats

\* What a step that starts, sells or buys nothing is.
LEMMA IdleSteps ==
    ASSUME CallsInv, [Next]_vars
    PROVE  \/ IdleChange /\ UNCHANGED <<sells, buys, age>>
           \/ Elapse
           \/ ReturnParams /\ ~locked /\ age' = 0
              /\ NowAt(Wait("log1", Top.filtered, Top.c))
           \/ ReturnLog1 \/ ReturnLog2 \/ ReturnSell
           \/ Crash
<1>1. calls \in Seq(Waiting) /\ candidats \subseteq Candidats
  BY DEF CallsInv, StackInv, OrdersInv
<1>2. calls # <<>> => Top \in Waiting /\ Top.filtered \in SUBSET Candidats
  BY TopFrame, FrameFields
<1>3. CASE WindowCalculates
  <2> DEFINE w == Wait("balances", {}, None)
  <2>1. w \in Waiting /\ w.at = "balances"
    BY BareWait DEF Points
  <2>2. Push(w) /\ UNCHANGED <<sells, buys, age>>
    BY <1>3 DEF WindowCalculates
  <2> QED
    BY <2>1, <2>2 DEF IdleChange, Busy
<1>4. CASE CalculateOrderbooks
  BY <1>1, <1>4, CheckCandidatsIsIdle DEF CalculateOrderbooks, IdleChange
<1>5. CASE ReturnBalances \/ ReturnReport
  <2>1. calls # <<>> /\ Top.at \in {"balances", "report"} /\ Pop
    BY <1>5 DEF ReturnBalances, ReturnReport, TopIs
  <2> QED
    BY <1>5, <2>1 DEF ReturnBalances, ReturnReport, IdleChange, Busy
<1>6. CASE ReturnFilter
  <2>1. PICK c \in Top.cc :
          \E kept \in {Top.filtered, Top.filtered \cup {c}} :
            \/ GoOn(kept)
            \/ NowAt([Top EXCEPT !.cc = Top.cc \ {c}, !.filtered = kept])
    BY <1>6 DEF ReturnFilter
  <2>2. /\ calls # <<>> /\ Top.at = "filter" /\ Top.cc \in SUBSET Candidats
        /\ Top \in Waiting /\ Top.filtered \in SUBSET Candidats
    BY <1>2, <1>6, FrameFields DEF ReturnFilter, TopIs
  <2>3. ASSUME NEW kept \in SUBSET Candidats,
               NowAt([Top EXCEPT !.cc = Top.cc \ {c}, !.filtered = kept])
        PROVE  IdleChange
    <3> DEFINE w == [Top EXCEPT !.cc = Top.cc \ {c}, !.filtered = kept]
    <3>1. w \in Waiting /\ w.at = "filter"
      BY <2>2 DEF Waiting
    <3> QED
      BY <2>2, <2>3, <3>1 DEF IdleChange, Busy
  <2>4. Top.filtered \cup {c} \in SUBSET Candidats
    BY <2>2
  <2>5. Top.at \notin Busy
    BY <2>2 DEF Busy
  <2>6. IdleChange
    BY <2>1, <2>2, <2>3, <2>4, <2>5, GoOnIsIdle
  <2> QED
    BY <1>6, <2>6 DEF ReturnFilter
<1>7. CASE ReturnParams
  <2>1. calls # <<>> /\ Top.at \notin Busy
    BY <1>7 DEF ReturnParams, TopIs, Busy
  <2>2. CASE NowAt(Wait("refused", Top.filtered, None)) /\ age' = age
    <3> DEFINE w == Wait("refused", Top.filtered, None)
    <3>1. MayWait("refused", Top.filtered, None)
      BY <1>2, <2>1, PairOK DEF MayWait, Points
    <3>2. w \in Waiting /\ w.at = "refused"
      BY <3>1, WaitFrame
    <3> QED
      BY <1>7, <2>1, <2>2, <3>2 DEF ReturnParams, IdleChange, Busy
  <2>3. CASE GoOn(Top.filtered) /\ age' = age
    BY <1>2, <1>7, <2>1, <2>3, GoOnIsIdle DEF ReturnParams
  <2> QED
    BY <1>7, <2>2, <2>3 DEF ReturnParams
<1>8. CASE ReturnRefused \/ ReturnBuy
  <2>1. calls # <<>> /\ Top.at \in {"refused", "buy"} /\ GoOn(Top.filtered)
    BY <1>8 DEF ReturnRefused, ReturnBuy, TopIs
  <2>2. IdleChange
    BY <1>2, <2>1, GoOnIsIdle DEF Busy
  <2> QED
    BY <1>8, <2>2 DEF ReturnRefused, ReturnBuy
<1>9. CASE SaveLinks \/ LoadLinks \/ UNCHANGED vars
  BY <1>9 DEF SaveLinks, LoadLinks, vars, IdleChange
<1> QED
  BY <1>3, <1>4, <1>5, <1>6, <1>7, <1>8, <1>9 DEF Next, CallReturns

-----------------------------------------------------------------------------
(* Two candidates are placed LockSecs apart *)

\* Only the handler that finds the pair unlocked after getParam starts a candidate.
LEMMA WhoPlaces ==
    ASSUME CallsInv, [Next]_vars, NEW c, Handled({"log1"}, c)'
    PROVE  Handled({"log1"}, c) \/ (ReturnParams /\ ~locked)
<1>1. calls \in Seq(Waiting) /\ {"log1"} \in SUBSET Busy
  BY DEF CallsInv, StackInv, Busy
<1>2. CASE IdleChange
  BY <1>1, <1>2, IdleHandles
<1>3. ASSUME NEW p \in Points, p # "log1", calls # <<>>, NowAt([Top EXCEPT !.at = p])
      PROVE  Handled({"log1"}, c)
  <2> DEFINE w == [Top EXCEPT !.at = p]
  <2>1. w \in Waiting /\ w.at = p
    BY <1>3, TopFrame, MovedOn
  <2>2. /\ Len(calls') = Len(calls) /\ calls'[Len(calls)] = w
        /\ \A n \in 1 .. Len(calls) : n # Len(calls) => calls'[n] = calls[n]
    BY <1>1, <1>3, <2>1, Replaced DEF NowAt
  <2> QED
    BY <1>3, <2>1, <2>2 DEF Handled
<1>4. CASE ReturnLog1 \/ ReturnLog2 \/ ReturnSell
  <2>1. "log2" \in Points /\ "sell" \in Points /\ "buy" \in Points
    BY DEF Points
  <2> QED
    BY <1>3, <1>4, <2>1 DEF ReturnLog1, ReturnLog2, ReturnSell, TopIs
<1>5. CASE Elapse \/ Crash
  BY <1>5 DEF Elapse, Crash, Handled
<1> QED
  BY <1>2, <1>4, <1>5, IdleSteps

\* However handlers nest, an order of a candidate is only started when the
\* pair was locked LockSecs ago, or never.
THEOREM LockSecsApart == Spec => PlacedApart
<1> DEFINE A == \A c \in Candidats :
                  LET placing == \E n \in 1 .. Len(calls) :
                            calls[n].at = "log1" /\ calls[n].c = c IN
                  (~placing /\ placing') => age = LockSecs
<1>1. ASSUME CallsInv, LockInv, [Next]_vars
      PROVE  A
  <2> SUFFICES ASSUME NEW c \in Candidats, ~Handled({"log1"}, c), Handled({"log1"}, c)'
               PROVE  age = LockSecs
    BY DEF Handled
  <2> QED
    BY <1>1, WhoPlaces DEF LockInv
<1>2. Init => CallsInv /\ LinksInv /\ LockInv
  BY PairInit
<1>3. CallsInv /\ LinksInv /\ LockInv /\ [Next]_vars
        => (CallsInv /\ LinksInv /\ LockInv)'
  BY CallsNext, LinksNext, LockNext
<1>4. CallsInv /\ LinksInv /\ LockInv /\ [Next]_vars => [A]_vars
  BY <1>1
<1> QED
  BY <1>2, <1>3, <1>4, PTL DEF Spec, PlacedApart

-----------------------------------------------------------------------------
(* The pair implements HedgedTrade *)

stages == [c \in Candidats |-> Stage(c)]

\* A candidate whose orders and handlers are as they were is where it was.
LEMMA SameStage ==
    ASSUME NEW c, sells'[c] = sells[c], buys'[c] = buys[c],
           Handled({"log1", "log2"}, c)' <=> Handled({"log1", "log2"}, c),
           Handled({"sell"}, c)' <=> Handled({"sell"}, c)
    PROVE  Stage(c)' = Stage(c)
  BY DEF Stage

\* Only the candidate of the handler on top comes any further.
LEMMA OneStage ==
    ASSUME NEW d \in Candidats, NEW s,
           \A c \in Candidats \ {d} : Stage(c)' = Stage(c),
           Stage(d)' = s
    PROVE  stages' = [stages EXCEPT ![d] = s]
  BY DEF stages

\* What the handler on top holds, no other handler sends orders of.
LEMMA TopAlone ==
    ASSUME CallsInv, calls # <<>>, Top.c # None, NEW P, Top.at \notin P
    PROVE  ~Handled(P, Top.c)
<1>1. /\ Apart(calls, candidats) /\ calls \in Seq(Waiting)
      /\ Len(calls) \in 1 .. Len(calls) /\ Top = calls[Len(calls)]
  BY TopFrame DEF CallsInv, StackInv
<1>2. ASSUME NEW n \in 1 .. Len(calls), calls[n].at \in P, calls[n].c = Top.c
      PROVE  FALSE
  <2>1. n # Len(calls)
    BY <1>1, <1>2
  <2>2. Spot(calls[n]) \cap Spot(calls[Len(calls)]) = {}
    BY <1>1, <2>1 DEF Apart
  <2>3. Top.c \in Spot(calls[n]) /\ Top.c \in Spot(calls[Len(calls)])
    BY <1>1, <1>2 DEF Spot
  <2> QED
    BY <2>2, <2>3
<1> QED
  BY <1>2 DEF Handled

LEMMA IdleIsAllowed ==
    ASSUME CallsInv, IdleChange, UNCHANGED <<sells, buys, age>>
    PROVE  UNCHANGED Trade!vars
<1>1. calls \in Seq(Waiting) /\ {"log1", "log2"} \in SUBSET Busy /\ {"sell"} \in SUBSET Busy
  BY DEF CallsInv, StackInv, Busy
<1>2. \A c \in Candidats : Stage(c)' = Stage(c)
  BY <1>1, IdleHandles, SameStage
<1>3. stages' = stages
  BY <1>2 DEF stages
<1> QED
  BY <1>3 DEF Trade!vars, stages

\* What a handler on top leaves alone when it goes on.
LEMMA OthersStay ==
    ASSUME CallsInv, calls # <<>>, NEW w \in Waiting, w.c = Top.c, NowAt(w),
           NEW c, c # Top.c, sells'[c] = sells[c], buys'[c] = buys[c]
    PROVE  Stage(c)' = Stage(c)
<1>1. calls \in Seq(Waiting)
  BY DEF CallsInv, StackInv
<1>2. \A P : Handled(P, c)' <=> Handled(P, c)
  BY <1>1, ReplacedHandles
<1> QED
  BY <1>2, SameStage

LEMMA StartIsAllowed ==
    ASSUME CallsInv, LockInv, ReturnParams, ~locked, age' = 0,
           NowAt(Wait("log1", Top.filtered, Top.c))
    PROVE  \E d \in Candidats : Trade!Start(d)
<1>1. calls # <<>> /\ Top.at = "params" /\ UNCHANGED <<sells, buys>>
  BY DEF ReturnParams, TopIs
<1>2. /\ Top \in Waiting /\ Top.c \in Candidats /\ Top.c \notin Top.filtered
      /\ sells[Top.c] = 0 /\ buys[Top.c] = 0
  BY <1>1, TopFrame, PairOK DEF Fits, Sound, Quiet, Held, CallsInv, OrdersInv
<1>3. PICK d \in Candidats : d = Top.c
  BY <1>2
<1>4. PICK w : w = Wait("log1", Top.filtered, Top.c)
  OBVIOUS
<1>5. w \in Waiting /\ w.at = "log1" /\ w.c = d /\ NowAt(w)
  BY <1>2, <1>3, <1>4, FrameFields, WaitFrame DEF MayWait, Points
<1>6. ~Handled({"log1", "log2"}, d)
  BY <1>1, <1>3, TopAlone, PairOK
<1>7. Handled({"log1", "log2"}, d)'
  BY <1>1, <1>5, ReplacedHandles DEF CallsInv, StackInv
<1>8. Stage(d) = "idle" /\ Stage(d)' = "started"
  BY <1>1, <1>2, <1>3, <1>6, <1>7 DEF Stage
<1>9. \A c \in Candidats \ {d} : Stage(c)' = Stage(c)
  BY <1>1, <1>3, <1>5, OthersStay
<1>10. stages' = [stages EXCEPT ![d] = "started"] /\ stages[d] = "idle"
  BY <1>8, <1>9, OneStage DEF stages
<1>11. age = LockSecs
  BY DEF LockInv
<1> QED
  BY <1>10, <1>11 DEF Trade!Start, stages

\* A handler that sends the orders of its candidate d goes on to point p.
LEMMA SendsOn ==
    ASSUME CallsInv, calls # <<>>, Top.at \in Busy, NEW p \in Points,
           NowAt([Top EXCEPT !.at = p]), NEW d, d = Top.c
    PROVE  /\ d \in Candidats
           /\ sells[d] = (IF Top.at = "sell" THEN 1 ELSE 0) /\ buys[d] = 0
           /\ Top.at # "sell" => Handled({"log1", "log2"}, d)
           /\ Top.at = "sell" => Handled({"sell"}, d)
           /\ p \in {"log1", "log2"} => Handled({"log1", "log2"}, d)'
           /\ p = "sell" => Handled({"sell"}, d)'
           /\ \A c \in Candidats \ {d} :
                sells'[c] = sells[c] /\ buys'[c] = buys[c] => Stage(c)' = Stage(c)
<1>1. /\ calls \in Seq(Waiting) /\ Top = calls[Len(calls)]
      /\ Len(calls) \in 1 .. Len(calls) /\ Top \in Waiting
  BY TopFrame DEF CallsInv, StackInv
<1>2. /\ d \in Candidats
      /\ sells[d] = (IF Top.at = "sell" THEN 1 ELSE 0) /\ buys[d] = 0
  BY TopFrame DEF Fits, Quiet, CallsInv, OrdersInv, Busy
<1>3. \A P : Top.at \in P => Handled(P, d)
  BY <1>1 DEF Handled
<1>4. PICK w : w = [Top EXCEPT !.at = p]
  OBVIOUS
<1>5. w \in Waiting /\ w.at = p /\ w.c = d /\ NowAt(w)
  BY <1>1, <1>4, MovedOn
<1>6. \A P : p \in P => Handled(P, d)'
  BY <1>1, <1>5, ReplacedHandles
<1>7. \A c \in Candidats \ {d} :
        sells'[c] = sells[c] /\ buys'[c] = buys[c] => Stage(c)' = Stage(c)
  BY <1>5, OthersStay
<1>8. /\ Top.at # "sell" => Handled({"log1", "log2"}, d)
      /\ Top.at = "sell" => Handled({"sell"}, d)
  BY <1>3 DEF Busy
<1> QED
  BY <1>2, <1>6, <1>7, <1>8

\* The second message is logged, and the trade is where it was.
LEMMA LogIsAllowed ==
    ASSUME CallsInv, ReturnLog1
    PROVE  UNCHANGED Trade!vars
<1>1. /\ calls # <<>> /\ Top.at = "log1" /\ NowAt([Top EXCEPT !.at = "log2"])
      /\ UNCHANGED <<sells, buys, age>>
  BY DEF ReturnLog1, TopIs
<1>2. Top.at \in Busy /\ "log2" \in Points
  BY <1>1 DEF Busy, Points
<1>3. PICK d : d = Top.c
  OBVIOUS
<1>4. /\ sells[d] = 0 /\ buys[d] = 0
      /\ Handled({"log1", "log2"}, d) /\ Handled({"log1", "log2"}, d)'
      /\ \A c \in Candidats \ {d} : Stage(c)' = Stage(c)
  BY <1>1, <1>2, <1>3, SendsOn
<1>5. Stage(d)' = Stage(d)
  BY <1>1, <1>4 DEF Stage
<1>6. stages' = stages
  BY <1>4, <1>5 DEF stages
<1> QED
  BY <1>1, <1>6 DEF Trade!vars, stages

LEMMA SellIsAllowed ==
    ASSUME CallsInv, ReturnLog2
    PROVE  \E d \in Candidats : Trade!Sell(d)
<1>1. /\ calls # <<>> /\ Top.at = "log2" /\ NowAt([Top EXCEPT !.at = "sell"])
      /\ sells' = [sells EXCEPT ![Top.c] = @ + 1] /\ UNCHANGED <<buys, age>>
  BY DEF ReturnLog2, TopIs
<1>2. Top.at \in Busy /\ "sell" \in Points
  BY <1>1 DEF Busy, Points
<1>3. PICK d : d = Top.c
  OBVIOUS
<1>4. /\ d \in Candidats /\ sells[d] = 0 /\ buys[d] = 0
      /\ Handled({"log1", "log2"}, d) /\ Handled({"sell"}, d)'
  BY <1>1, <1>2, <1>3, SendsOn
<1>5. sells \in [Candidats -> 0 .. 1]
  BY DEF CallsInv, OrdersInv
<1>6. sells'[d] = 1 /\ \A c \in Candidats \ {d} : sells'[c] = sells[c]
  BY <1>1, <1>3, <1>4, <1>5
<1>7. Stage(d) = "started" /\ Stage(d)' = "sold"
  BY <1>1, <1>4, <1>6 DEF Stage
<1>8. \A c \in Candidats \ {d} : Stage(c)' = Stage(c)
  BY <1>1, <1>2, <1>3, <1>6, SendsOn
<1>9. stages' = [stages EXCEPT ![d] = "sold"] /\ stages[d] = "started"
  BY <1>4, <1>7, <1>8, OneStage DEF stages
<1> QED
  BY <1>1, <1>4, <1>9 DEF Trade!Sell, stages

LEMMA BuyIsAllowed ==
    ASSUME CallsInv, ReturnSell
    PROVE  \E d \in Candidats : Trade!Buy(d)
<1>1. /\ calls # <<>> /\ Top.at = "sell" /\ NowAt([Top EXCEPT !.at = "buy"])
      /\ buys' = [buys EXCEPT ![Top.c] = @ + 1] /\ UNCHANGED <<sells, age>>
  BY DEF ReturnSell, TopIs
<1>2. Top.at \in Busy /\ "buy" \in Points
  BY <1>1 DEF Busy, Points
<1>3. PICK d : d = Top.c
  OBVIOUS
<1>4. d \in Candidats /\ sells[d] = 1 /\ buys[d] = 0 /\ Handled({"sell"}, d)
  BY <1>1, <1>2, <1>3, SendsOn
<1>5. buys \in [Candidats -> 0 .. 1]
  BY DEF CallsInv, OrdersInv
<1>6. buys'[d] = 1 /\ \A c \in Candidats \ {d} : buys'[c] = buys[c]
  BY <1>1, <1>3, <1>4, <1>5
<1>7. Stage(d) = "sold" /\ Stage(d)' = "hedged"
  BY <1>1, <1>4, <1>6 DEF Stage
<1>8. \A c \in Candidats \ {d} : Stage(c)' = Stage(c)
  BY <1>1, <1>2, <1>3, <1>6, SendsOn
<1>9. stages' = [stages EXCEPT ![d] = "hedged"] /\ stages[d] = "sold"
  BY <1>4, <1>7, <1>8, OneStage DEF stages
<1> QED
  BY <1>1, <1>4, <1>9 DEF Trade!Buy, stages

\* Time passes, for the trades too.
LEMMA ElapseIsAllowed ==
    ASSUME Elapse
    PROVE  Trade!Tick
<1>1. UNCHANGED <<sells, buys, calls>>
  BY DEF Elapse
<1>2. \A c \in Candidats : Stage(c)' = Stage(c)
  BY <1>1 DEF Stage, Handled
<1>3. stages' = stages
  BY <1>2 DEF stages
<1> QED
  BY <1>3 DEF Elapse, Trade!Tick, stages

\* A trade whose handler waits for the sell order is left alone.
LEMMA EndIsAllowed ==
    ASSUME CallsInv, Crash
    PROVE  Trade!End
<1>1. calls' = <<>> /\ age' = LockSecs /\ UNCHANGED <<sells, buys>>
  BY DEF Crash
<1>2. sells \in [Candidats -> 0 .. 1] /\ buys \in [Candidats -> 0 .. 1]
  BY DEF CallsInv, OrdersInv
<1>3. ASSUME NEW c \in Candidats
      PROVE  Stage(c)' = CASE Stage(c) = "started" -> "idle"
                           [] Stage(c) = "sold" -> "alone"
                           [] OTHER -> Stage(c)
  <2>1. \A P : ~Handled(P, c)'
    BY <1>1 DEF Handled
  <2> QED
    BY <1>1, <1>2, <2>1 DEF Stage
<1>4. stages' = [c \in Candidats |-> CASE stages[c] = "started" -> "idle"
                                       [] stages[c] = "sold" -> "alone"
                                       [] OTHER -> stages[c]]
  BY <1>3 DEF stages
<1> QED
  BY <1>1, <1>4 DEF Trade!End, stages

\* The pair implements HedgedTrade: each trade is sold once and bought once, in
\* this order, trades start LockSecs apart, and only a crash leaves one alone.
THEOREM PairImplementsHedgedTrade == Spec => ImplementsHedgedTrade
<1>1. Init => Trade!Init
  <2> SUFFICES ASSUME Init PROVE Trade!Init
    OBVIOUS
  <2>1. \A c \in Candidats : Stage(c) = "idle"
    BY DEF Init, Stage, Handled
  <2> QED
    BY <2>1 DEF Init, Trade!Init
<1>2. CallsInv /\ LockInv /\ [Next]_vars => [Trade!Next]_Trade!vars
  BY IdleSteps, IdleIsAllowed, StartIsAllowed, LogIsAllowed, SellIsAllowed,
     BuyIsAllowed, ElapseIsAllowed, EndIsAllowed DEF Trade!Next
<1>3. Init => CallsInv /\ LinksInv /\ LockInv
  BY PairInit
<1>4. CallsInv /\ LinksInv /\ LockInv /\ [Next]_vars
        => (CallsInv /\ LinksInv /\ LockInv)'
  BY CallsNext, LinksNext, LockNext
<1>5. Spec => Trade!Spec
  BY <1>1, <1>2, <1>3, <1>4, PTL DEF Spec, Trade!Spec
<1> QED
  BY <1>5 DEF ImplementsHedgedTrade
=============================================================================
