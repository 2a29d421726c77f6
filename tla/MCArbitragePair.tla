--------------------------- MODULE MCArbitragePair ---------------------------
(* Candidates of two windows. *)
EXTENDS ArbitragePair, TLC

CONSTANTS c1, c2, c3, w1, w2

TwoWindows == [c \in Candidats |-> IF c = c2 THEN w2 ELSE w1]
=============================================================================
