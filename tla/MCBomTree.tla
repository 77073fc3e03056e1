------------------------------ MODULE MCBomTree ------------------------------
(* A component, and a service nested in another; no bom-ref is given, and   *)
(* one element or the metadata may hold offending licenses.                 *)
EXTENDS Bom, TLC

CONSTANTS c1, s1, s2

MCChildren == (c1 :> {}) @@ (s1 :> {s2}) @@ (s2 :> {})
MCAttributes == (c1 :> 1) @@ (s1 :> 2) @@ (s2 :> 3)

MCInit == /\ Init
          /\ value = [r \in Ref |-> None]
          /\ Cardinality(offending) <= 1
MCSpec == MCInit /\ [][Next]_vars
=============================================================================
