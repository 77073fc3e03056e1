--------------------------- MODULE MCBomOutputTwice ---------------------------
(* Two components that may carry no bom-ref.                                *)
EXTENDS BomOutputTwice, TLC

CONSTANTS c1, c2

MCChildren == (c1 :> {}) @@ (c2 :> {})
MCAttributes == (c1 :> 1) @@ (c2 :> 2)
MCAffects == [v \in {} |-> {}]

MCInit == TwiceInit /\ offending = {}
MCSpec == MCInit /\ [][TwiceNext]_<<outputVars, previous>>
=============================================================================
