------------------------ MODULE MCPdDataController -------------------------
(* An instance of PdDataController: all directions of up to three steps of  *)
(* three lengths whose average over the samples is a whole number, among     *)
(* them such as have too short a last step and such as are too short.       *)
EXTENDS PdDataController

Lengths == {1, 3, 4}

MCRoutes ==
  {r \in UNION {[1..n -> Lengths] : n \in 1..3} :
     LoadFails(r) \/ Dist(r) % SampleSize(r) = 0}
=============================================================================
