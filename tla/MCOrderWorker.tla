---------------------------- MODULE MCOrderWorker ----------------------------
(* Orders, and the local ids their items carry. *)
EXTENDS OrderWorker, TLC

\* One order is always reported with its own local id; the items of the
\* other one come with its own id or, when they carry none, with the id
\* orders_uuids keeps for it.
DistinctLocalIds ==
    "r1" :> {"a"} @@ "r2" :> {"b", "r2"} @@ "#" :> {""}
=============================================================================
