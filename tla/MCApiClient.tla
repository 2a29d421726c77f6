----------------------------- MODULE MCApiClient -----------------------------
(* Small instances of ApiClient. *)
EXTENDS ApiClient, TLC

\* Local ids are only compared.
LocalIdSymmetry == Permutations(LocalIds)
=============================================================================
