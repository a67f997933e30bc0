---------------------------- MODULE MCWorkQueue ----------------------------
(***************************************************************************)
(* Small instances of WorkQueue: two workers and one or two workflows of    *)
(* one dispatch type.                                                       *)
(***************************************************************************)
EXTENDS WorkQueue

CONSTANTS w1, w2, a, c

OneType == [wf \in Workflows |-> "t"]
Anyone  == [wf \in Workflows |-> "any"]
NoScope == [w \in Workers |-> "any"]
AllTypes == [w \in Workers |-> {"t"}]
OwnProcess == [w \in Workers |-> w]
OneProcess == [w \in Workers |-> "p"]
Uncapped == [t \in Types |-> 0]
CapOne == [t \in Types |-> 1]
(* One workflow is bound to host h; worker w2 claims for h and nothing else. *)
BoundC == [wf \in Workflows |-> IF wf = c THEN "h" ELSE "any"]
SecondForH == [w \in Workers |-> IF w = w2 THEN "h" ELSE "any"]
=============================================================================
