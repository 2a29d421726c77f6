------------------------------- MODULE AsyncApi -------------------------------
(***************************************************************************)
(* What a caller may expect of SwiftApiClient: the uuid it gets back is its *)
(* own, at most one order event is announced for it, only while the request *)
(* is open, and the request is closed once - answered or dropped, not both. *)
(***************************************************************************)
EXTENDS Naturals

CONSTANT Requests

VARIABLES
    phase,      \* what became of each request
    announced   \* how many order events it has caused

vars == <<phase, announced>>

Phases == {"free", "pending", "answered", "dropped"}

TypeOK ==
    /\ phase \in [Requests -> Phases]
    /\ announced \in [Requests -> 0 .. 1]

Init ==
    /\ phase = [u \in Requests |-> "free"]
    /\ announced = [u \in Requests |-> 0]

Accept(u) ==
    /\ phase[u] = "free"
    /\ phase' = [phase EXCEPT ![u] = "pending"]
    /\ UNCHANGED announced

Announce(u) ==
    /\ phase[u] = "pending" /\ announced[u] = 0
    /\ announced' = [announced EXCEPT ![u] = 1]
    /\ UNCHANGED phase

Answer(u) ==
    /\ phase[u] = "pending"
    /\ phase' = [phase EXCEPT ![u] = "answered"]
    /\ UNCHANGED announced

\* A reply the client gives up on, before anything was announced.
Drop(u) ==
    /\ phase[u] = "pending" /\ announced[u] = 0
    /\ phase' = [phase EXCEPT ![u] = "dropped"]
    /\ UNCHANGED announced

\* The process dies: every open request is dropped.
DropAll ==
    /\ phase' = [u \in Requests |->
                   IF phase[u] = "pending" THEN "dropped" ELSE phase[u]]
    /\ UNCHANGED announced

Next ==
    \/ \E u \in Requests : Accept(u) \/ Announce(u) \/ Answer(u) \/ Drop(u)
    \/ DropAll

Spec == Init /\ [][Next]_vars
=============================================================================
