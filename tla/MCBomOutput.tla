---------------------------- MODULE MCBomOutput ----------------------------
(* Component c1 holds c2, which may also be a top-level component, so that  *)
(* one BomRef object is listed twice; one service; one vulnerability that   *)
(* affects the element called a; one loose ref.                             *)
EXTENDS BomOutput, TLC

CONSTANTS c1, c2, s1, v1, l1, a

MCChildren == (c1 :> {c2}) @@ (c2 :> {}) @@ (s1 :> {})
MCAttributes == (c1 :> 1) @@ (c2 :> 2) @@ (s1 :> 3)
MCAffects == v1 :> {a}

\* Bound: what is in the BOM beside the root, so that Random suffices.
SmallBom == Cardinality(components \cup services \cup vulnerabilities) <= 2

\* Bound: entries of the graph, with which every pair of entries, one that
\* was loaded and one that was registered among them, meets a third.
SmallGraph == Cardinality(DOMAIN dependencies) <= 3

Symmetry == Permutations(Random)

MCInit == OutputInit /\ offending = {}
MCSpec == MCInit /\ [][OutputNext]_outputVars
=============================================================================
