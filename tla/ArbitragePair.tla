---------------------------- MODULE ArbitragePair ----------------------------
(***************************************************************************)
(* ArbitragePair finds candidates for a pair of opposite orders and places *)
(* the two orders of a candidate, the sell first.  A lock keeps it to one  *)
(* candidate in 45 s.                                                      *)
(*                                                                         *)
(* Every Session::call (to the balances, to the settings, to the logs, to  *)
(* the exchanges) runs the event loop until its answer is there or 6 s     *)
(* pass without data, so other handlers of this object run inside a call,  *)
(* and a call returns only after what was started inside it: `calls` is a  *)
(* stack, and only the call on top can return.  A step is what a handler   *)
(* does from one call to its next.  A call that the code may skip (a       *)
(* balance it has cached) is one during which nothing else happened.       *)
(*                                                                         *)
(* onCompletedOrder and onCanceledOrder would unlock too, but look for     *)
(* market_id where the feed's events have none: they never match, and are  *)
(* left out.  Prices, sizes and balances are left out: whether a candidate *)
(* is affordable or profitable is open.                                    *)
(***************************************************************************)
EXTENDS OrderLinks, Naturals, Sequences

CONSTANTS
    None,        \* no candidate
    LockSecs,    \* how long the lock is held: 45 s, in steps of Elapse
    SlowCalls,   \* may the calls of one placing take LockSecs together?
    MaxDepth,    \* bound: calls waiting at once
    MaxCrashes   \* bound: how often the process dies

ASSUME PairOK ==
    /\ None \notin Candidats
    /\ LockSecs \in Nat \ {0}
    /\ SlowCalls \in BOOLEAN
    /\ MaxDepth \in Nat /\ MaxCrashes \in Nat

VARIABLES
    locked,     \* is_locked
    age,        \* seconds since lock_time; LockSecs: longer, or never locked
    candidats,  \* _classic_candidats
    found,      \* candidates any window has found so far
    calls,      \* handlers that wait for a call, the innermost last
    sells,      \* how often the sell order of a candidate was sent
    buys,       \* how often its buy order was sent
    widowed,    \* candidates whose sell order the process died on (history)
    crashes

vars == <<links, locked, age, candidats, found, calls, sells, buys, widowed,
          crashes>>

\* What a handler waits for, and what it keeps meanwhile: _cc, _filtered and
\* the candidate it is at.
Points  == {"balances", "filter", "params", "refused", "log1", "log2", "sell",
            "buy", "report"}
Waiting == [at : Points, cc : SUBSET Candidats, filtered : SUBSET Candidats,
            c : Candidats \cup {None}]

Wait(p, k, x) == [at |-> p, cc |-> {}, filtered |-> k, c |-> x]

Init ==
    /\ LinksInit
    /\ locked = FALSE
    /\ age = LockSecs
    /\ candidats = {} /\ found = {}
    /\ calls = <<>>
    /\ sells = [c \in Candidats |-> 0]
    /\ buys = [c \in Candidats |-> 0]
    /\ widowed = {}
    /\ crashes = 0

Placing(w) == w.at \in {"log1", "log2", "sell", "buy"}

-----------------------------------------------------------------------------
(* The call on top returns *)

Top    == calls[Len(calls)]
TopIs(p) == calls # <<>> /\ Top.at = p

\* An event is handled by the event loop, or by the one in the call on top.
LoopRuns == Len(calls) < MaxDepth

Push(w)   == calls' = Append(calls, w)
NowAt(w)  == calls' = [calls EXCEPT ![Len(calls)] = w]
Pop       == calls' = SubSeq(calls, 1, Len(calls) - 1)

\* The loop over _filtered goes on: while the pair is locked the candidates
\* are passed over, and after the last one checkCandidats logs a message.
GoOn(k) ==
    \/ /\ locked \/ k = {}
       /\ NowAt(Wait("report", {}, None))
    \/ /\ ~locked
       /\ \E c \in k : NowAt(Wait("params", k \ {c}, c))

-----------------------------------------------------------------------------
(* Handlers *)

\* ArbitrageWindow::calculateOrderbooks asks for the two balances.
WindowCalculates ==
    /\ LoopRuns
    /\ Push(Wait("balances", {}, None))
    /\ UNCHANGED <<links, locked, age, candidats, found, sells, buys, widowed,
                   crashes>>

\* With them it adds a candidate, or none.
ReturnBalances ==
    /\ TopIs("balances")
    /\ Pop
    /\ \/ \E c \in Candidats \ found :
            /\ found' = found \cup {c}
            /\ candidats' = candidats \cup {c}
       \/ UNCHANGED <<found, candidats>>
    /\ UNCHANGED <<links, locked, age, sells, buys, widowed, crashes>>

\* A bug that could be: the list is not cleared when it is copied.
CheckCandidatsKeeps ==
    /\ UNCHANGED candidats
    /\ \/ /\ candidats = {}
          /\ Push(Wait("report", {}, None))
       \/ /\ candidats # {}
          /\ Push([at |-> "filter", cc |-> candidats, filtered |-> {},
                   c |-> None])

\* checkCandidats up to its first call: the candidates are moved into a list
\* of its own.  They are sorted by what their windows show now, which leaves
\* their order open.
CheckCandidats ==
    /\ candidats' = {}
    /\ \/ /\ candidats = {}
          /\ Push(Wait("report", {}, None))
       \/ /\ candidats # {}
          /\ Push([at |-> "filter", cc |-> candidats, filtered |-> {},
                   c |-> None])

\* A bug that could be: the next order books unlock the pair.
CalculateOrderbooksUnlocks ==
    /\ LoopRuns
    /\ \/ /\ locked
          /\ locked' = FALSE
          /\ UNCHANGED <<candidats, calls>>
       \/ /\ ~locked
          /\ CheckCandidats
          /\ UNCHANGED locked
    /\ UNCHANGED <<links, age, found, sells, buys, widowed, crashes>>

\* A bug that could be: order books that find the pair locked lock it anew.
CalculateOrderbooksRelocks ==
    /\ LoopRuns
    /\ \/ /\ locked
          /\ locked' = (age < LockSecs)
          /\ age' = IF age < LockSecs THEN 0 ELSE age
          /\ UNCHANGED <<candidats, calls>>
       \/ /\ ~locked
          /\ CheckCandidats
          /\ UNCHANGED <<locked, age>>
    /\ UNCHANGED <<links, found, sells, buys, widowed, crashes>>

\* ArbitragePair::calculateOrderbooks with order books of this pair.  The
\* handler that unlocks does not look at the candidates.
CalculateOrderbooks ==
    /\ LoopRuns
    /\ \/ /\ locked /\ age >= LockSecs
          /\ locked' = FALSE
          /\ UNCHANGED <<candidats, calls>>
       \/ /\ ~locked
          /\ CheckCandidats
          /\ UNCHANGED locked
    /\ UNCHANGED <<links, age, found, sells, buys, widowed, crashes>>

\* The two balances of one candidate: it stays or is dropped.
ReturnFilter ==
    /\ TopIs("filter")
    /\ \E c \in Top.cc :
        LET rest == Top.cc \ {c} IN
        \E kept \in {Top.filtered, Top.filtered \cup {c}} :
            \/ /\ rest = {}
               /\ GoOn(kept)
            \/ /\ rest # {}
               /\ NowAt([Top EXCEPT !.cc = rest, !.filtered = kept])
    /\ UNCHANGED <<links, locked, age, candidats, found, sells, buys, widowed,
                   crashes>>

\* A bug that could be: the lock is not looked at again after getParam.
ReturnParamsBlindly ==
    /\ TopIs("params")
    /\ \/ /\ NowAt(Wait("refused", Top.filtered, None))
          /\ UNCHANGED <<links, locked, age>>
       \/ /\ GoOn(Top.filtered)
          /\ UNCHANGED <<links, locked, age>>
       \/ /\ locked' = TRUE
          /\ age' = 0
          /\ LinkOrders(Top.c)
          /\ NowAt(Wait("log1", Top.filtered, Top.c))
    /\ UNCHANGED <<candidats, found, sells, buys, widowed, crashes>>

\* getParam: the profit is too low; or placing is switched off, the session
\* is gone or the pair was locked meanwhile; or the pair is locked and the
\* orders are linked.
ReturnParams ==
    /\ TopIs("params")
    /\ \/ /\ NowAt(Wait("refused", Top.filtered, None))
          /\ UNCHANGED <<links, locked, age>>
       \/ /\ GoOn(Top.filtered)
          /\ UNCHANGED <<links, locked, age>>
       \/ /\ ~locked
          /\ locked' = TRUE
          /\ age' = 0
          /\ LinkOrders(Top.c)
          /\ NowAt(Wait("log1", Top.filtered, Top.c))
    /\ UNCHANGED <<candidats, found, sells, buys, widowed, crashes>>

ReturnRefused ==
    /\ TopIs("refused")
    /\ GoOn(Top.filtered)
    /\ UNCHANGED <<links, locked, age, candidats, found, sells, buys, widowed,
                   crashes>>

ReturnLog1 ==
    /\ TopIs("log1")
    /\ NowAt([Top EXCEPT !.at = "log2"])
    /\ UNCHANGED <<links, locked, age, candidats, found, sells, buys, widowed,
                   crashes>>

\* The sell order goes out.
ReturnLog2 ==
    /\ TopIs("log2")
    /\ sells' = [sells EXCEPT ![Top.c] = @ + 1]
    /\ NowAt([Top EXCEPT !.at = "sell"])
    /\ UNCHANGED <<links, locked, age, candidats, found, buys, widowed, crashes>>

\* A bug that could be: the buy order is sent only while the lock is held.
ReturnSellIfLocked ==
    /\ TopIs("sell")
    /\ \/ /\ locked
          /\ buys' = [buys EXCEPT ![Top.c] = @ + 1]
          /\ NowAt([Top EXCEPT !.at = "buy"])
       \/ /\ ~locked
          /\ GoOn(Top.filtered)
          /\ UNCHANGED buys
    /\ UNCHANGED <<links, locked, age, candidats, found, sells, widowed, crashes>>

\* Whatever the answer to the sell order was, the buy order goes out.
ReturnSell ==
    /\ TopIs("sell")
    /\ buys' = [buys EXCEPT ![Top.c] = @ + 1]
    /\ NowAt([Top EXCEPT !.at = "buy"])
    /\ UNCHANGED <<links, locked, age, candidats, found, sells, widowed, crashes>>

ReturnBuy ==
    /\ TopIs("buy")
    /\ GoOn(Top.filtered)
    /\ UNCHANGED <<links, locked, age, candidats, found, sells, buys, widowed,
                   crashes>>

ReturnReport ==
    /\ TopIs("report")
    /\ Pop
    /\ UNCHANGED <<links, locked, age, candidats, found, sells, buys, widowed,
                   crashes>>

CallReturns ==
    \/ ReturnBalances \/ ReturnFilter \/ ReturnParams \/ ReturnRefused
    \/ ReturnLog1 \/ ReturnLog2 \/ ReturnSell \/ ReturnBuy \/ ReturnReport

-----------------------------------------------------------------------------
(* Time, timers and crashes *)

\* Time passes.  Without SlowCalls the calls of one placing return before
\* the lock expires.
Elapse ==
    /\ age < LockSecs
    /\ SlowCalls \/ age + 1 < LockSecs
       \/ \A n \in 1 .. Len(calls) : ~Placing(calls[n])
    /\ age' = age + 1
    /\ UNCHANGED <<links, locked, candidats, found, calls, sells, buys, widowed,
                   crashes>>

SaveLinks ==
    /\ SaveOrdersRelsToDisk
    /\ UNCHANGED <<locked, age, candidats, found, calls, sells, buys, widowed,
                   crashes>>

LoadLinks ==
    /\ LoadOrdersRelFromDisk
    /\ UNCHANGED <<locked, age, candidats, found, calls, sells, buys, widowed,
                   crashes>>

\* The process dies and a fresh one starts.
Crash ==
    /\ crashes < MaxCrashes
    /\ crashes' = crashes + 1
    /\ LinksCrash
    /\ locked' = FALSE
    /\ age' = LockSecs
    /\ candidats' = {}
    /\ calls' = <<>>
    /\ widowed' = widowed \cup
            {c \in Candidats : \E n \in 1 .. Len(calls) :
                                calls[n].at = "sell" /\ calls[n].c = c}
    /\ UNCHANGED <<found, sells, buys>>

Next ==
    \/ WindowCalculates \/ CalculateOrderbooks
    \/ CallReturns
    \/ Elapse \/ SaveLinks \/ LoadLinks
    \/ Crash

Spec == Init /\ [][Next]_vars

\* Order books keep coming and wait in the event queue until a loop runs;
\* time passes; and a call returns when its answer is there or nothing came
\* for 6 s: a call that is again and again the one on top returns in the end.
Fairness ==
    /\ SF_vars(CalculateOrderbooks)
    /\ WF_vars(Elapse)
    /\ \A d \in 1 .. MaxDepth : SF_vars(Len(calls) = d /\ CallReturns)

FairSpec == Spec /\ Fairness

-----------------------------------------------------------------------------
(* Properties *)

TypeOK ==
    /\ LinksTypeOK
    /\ locked \in BOOLEAN
    /\ age \in 0 .. LockSecs
    /\ candidats \subseteq Candidats
    /\ found \subseteq Candidats
    /\ calls \in Seq(Waiting)
    /\ sells \in [Candidats -> Nat]
    /\ buys \in [Candidats -> Nat]
    /\ widowed \subseteq Candidats
    /\ crashes \in Nat

\* The candidates a waiting handler still has to do something about.
Held(w) == w.cc \cup w.filtered

\* A candidate is in one place at a time, and once its orders are on their
\* way no list has it any more: no nested handler places it again.
UsedOnce ==
    /\ \A n \in 1 .. Len(calls) :
        /\ Held(calls[n]) \cap candidats = {}
        /\ calls[n].c \notin candidats \cup Held(calls[n])
        /\ calls[n].cc \cap calls[n].filtered = {}
        /\ \A m \in 1 .. Len(calls) : m # n =>
            /\ Held(calls[n]) \cap Held(calls[m]) = {}
            /\ calls[n].c \notin Held(calls[m])
            /\ calls[n].c # None => calls[n].c # calls[m].c
    /\ \A c \in Candidats :
        /\ sells[c] <= 1 /\ buys[c] <= 1
        /\ sells[c] = 1 =>
            /\ c \notin candidats
            /\ \A n \in 1 .. Len(calls) : c \notin Held(calls[n])

\* No sell order without its buy order, except while the handler that sent
\* it waits for the answer, or when the process died there.
Hedged ==
    \A c \in Candidats :
        sells[c] # buys[c] =>
            \/ c \in widowed
            \/ \E n \in 1 .. Len(calls) : calls[n].at = "sell" /\ calls[n].c = c

\* What the place of a candidate says about its orders.
Fresh(c) == sells[c] = 0 /\ buys[c] = 0

Progress(w) ==
    /\ Held(w) \subseteq found
    /\ \A c \in Held(w) : Fresh(c)
    /\ w.at \in {"params", "log1", "log2", "sell", "buy"} => w.c \in found
    /\ w.at \in {"balances", "filter", "refused", "report"} => w.c = None
    /\ w.at \in {"params", "log1", "log2"} => Fresh(w.c)
    /\ w.at = "sell" => sells[w.c] = 1 /\ buys[w.c] = 0
    /\ w.at = "buy" => sells[w.c] = 1 /\ buys[w.c] = 1

\* The strengthening that makes UsedOnce and Hedged inductive, with what the
\* lock and the file are worth: an unlocked pair was locked LockSecs ago or
\* never, and once the file is loaded memory has all of it.
IInv ==
    /\ TypeOK
    /\ UsedOnce
    /\ Hedged
    /\ candidats \subseteq found
    /\ \A c \in candidats \cup (Candidats \ found) : Fresh(c)
    /\ \A n \in 1 .. Len(calls) : Progress(calls[n])
    /\ ~locked => age = LockSecs
    /\ loaded => \A w \in Windows : disk[w] \subseteq linked[w]

\* Two candidates of one process are never placed within LockSecs of each
\* other, however handlers nest.  TLC checks this as the guard of HedgedTrade's
\* Start.
PlacedApart ==
    [][\A c \in Candidats :
        LET placing == \E n \in 1 .. Len(calls) :
                            calls[n].at = "log1" /\ calls[n].c = c IN
        (~placing /\ placing') => age = LockSecs]_vars

\* What the file knows of a window it keeps, although the file is written
\* from memory and memory from the file: only a crash loses it.
DiskKeepsLinks ==
    [][\A w \in Windows : disk[w] \subseteq disk'[w] \/ crashes' # crashes]_vars

\* The pair does not stay locked.
EventuallyUnlocked == locked ~> ~locked

\* A sell order is followed by its buy order.
BothSent ==
    \A c \in Candidats : sells[c] = 1 ~> (buys[c] = 1 \/ crashes > 0)

\* A candidate is taken off the list, to be placed or dropped.
CandidatsTaken == \A c \in Candidats : c \in candidats ~> c \notin candidats

-----------------------------------------------------------------------------
(* What the pair promises of its trades: see HedgedTrade. *)

\* A handler is at one of these points with candidate c.
Handled(P, c) == \E n \in 1 .. Len(calls) : calls[n].at \in P /\ calls[n].c = c

Stage(c) ==
    CASE sells[c] = 0 /\ buys[c] = 0 ->
            IF Handled({"log1", "log2"}, c) THEN "started" ELSE "idle"
      [] sells[c] = 1 /\ buys[c] = 0 ->
            IF Handled({"sell"}, c) THEN "sold" ELSE "alone"
      [] sells[c] = 1 /\ buys[c] = 1 -> "hedged"
      [] OTHER -> "again"

Trade == INSTANCE HedgedTrade WITH
    Trades <- Candidats,
    Pause <- LockSecs,
    stage <- [c \in Candidats |-> Stage(c)],
    since <- age

\* However the calls of the handlers nest and however long they take, every
\* step of the pair is a step of such trades, or none.
ImplementsHedgedTrade == Trade!Spec
=============================================================================
