--------------------------------- MODULE MCOrderBooks ---------------------------------
(***************************************************************************)
(* Two pairs of one exchange.  A window buys on one and sells on the other.*)
(* Sides overlap in their rates, and the pairs' numbers are among these;   *)
(* two rows are reported.                                                  *)
(***************************************************************************)
EXTENDS OrderBooks

MCPairId == [p \in Pair |-> IF p = "p1" THEN 2 ELSE 1]

MCBooks ==
  {[asks |-> rows, bids |-> rows] :
     rows \in {{<<1, 2>>, <<2, 1>>}, {<<1, 1>>, <<2, 1>>, <<3, 2>>}}}

=============================================================================
