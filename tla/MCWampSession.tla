------------------------------- MODULE MCWampSession -------------------------------
(***************************************************************************)
(* A worker with one procedure and one topic; two calls, which may nest;   *)
(* two faults.                                                             *)
(***************************************************************************)
EXTENDS WampSession

MCSetup == <<[code |-> "REGISTER", name |-> "status"],
             [code |-> "SUBSCRIBE", name |-> "settings"]>>

=============================================================================
