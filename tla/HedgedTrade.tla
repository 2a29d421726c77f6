------------------------------ MODULE HedgedTrade ------------------------------
(***************************************************************************)
(* What ArbitragePair promises of its trades, whatever runs inside its     *)
(* calls: of each trade the sell order goes out once and then the buy      *)
(* order once; two trades are started a pause apart; and only the end of   *)
(* the process leaves a sell order alone.                                  *)
(***************************************************************************)
EXTENDS Naturals

CONSTANTS Trades, Pause

VARIABLES
    stage,   \* how far each trade has come
    since    \* time since a trade was started; Pause: longer, or never

vars == <<stage, since>>

Stages == {"idle", "started", "sold", "hedged", "alone"}

Init ==
    /\ stage = [t \in Trades |-> "idle"]
    /\ since = Pause

Start(t) ==
    /\ stage[t] = "idle" /\ since = Pause
    /\ stage' = [stage EXCEPT ![t] = "started"]
    /\ since' = 0

Sell(t) ==
    /\ stage[t] = "started"
    /\ stage' = [stage EXCEPT ![t] = "sold"]
    /\ UNCHANGED since

Buy(t) ==
    /\ stage[t] = "sold"
    /\ stage' = [stage EXCEPT ![t] = "hedged"]
    /\ UNCHANGED since

Tick ==
    /\ since < Pause
    /\ since' = since + 1
    /\ UNCHANGED stage

\* The process dies: what was only started is forgotten, what was sold is
\* not hedged any more, and the next process knows of no pause.
End ==
    /\ stage' = [t \in Trades |-> CASE stage[t] = "started" -> "idle"
                                    [] stage[t] = "sold" -> "alone"
                                    [] OTHER -> stage[t]]
    /\ since' = Pause

Next ==
    \/ \E t \in Trades : Start(t) \/ Sell(t) \/ Buy(t)
    \/ Tick
    \/ End

Spec == Init /\ [][Next]_vars
=============================================================================
