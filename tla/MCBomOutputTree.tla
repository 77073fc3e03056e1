--------------------------- MODULE MCBomOutputTree ---------------------------
(* Two equal components without bom-ref, under different parents.           *)
EXTENDS BomOutput, TLC

CONSTANTS t, p, q, n1, n2

MCChildren == (t :> {p, q}) @@ (p :> {n1}) @@ (q :> {n2}) @@ (n1 :> {}) @@ (n2 :> {})
MCAttributes == (t :> 1) @@ (p :> 2) @@ (q :> 3) @@ (n1 :> 4) @@ (n2 :> 4)
MCAffects == [v \in {} |-> {}]

\* Bound: nothing beside the root.
SmallBom == components = {}

Symmetry == Permutations(Random)

MCInit == OutputInit /\ offending = {} /\ value = [r \in Ref |-> None]
MCSpec == MCInit /\ [][OutputNext]_outputVars
=============================================================================
