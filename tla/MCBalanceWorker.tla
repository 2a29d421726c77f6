------------------------------ MODULE MCBalanceWorker ------------------------------
(* Two transfers of the same amount to the same address. *)
EXTENDS BalanceWorker

SameBuilt == [t \in Transfer |-> "address"]
Symmetric == Permutations(Transfer)
====================================================================================
