-------------------------------- MODULE MCBom --------------------------------
(* Two components, one nested in the other (or beside it), one service, and *)
(* one loose ref; any of the four may hold the same string.                 *)
EXTENDS Bom, TLC

CONSTANTS c1, c2, s1, l1

MCChildren == (c1 :> {c2}) @@ (c2 :> {}) @@ (s1 :> {})
MCAttributes == (c1 :> 1) @@ (c2 :> 2) @@ (s1 :> 4)

\* Licenses that do not go together are at most those of c2, which may be
\* in the BOM, under c1 or at the top, or not be in it; they do not meet the
\* values of bom-refs anywhere in the code, so no values are given then.
MCInit == /\ Init
          /\ offending \in {{}, {c2}}
          /\ offending # {} => \A e \in Element : value[e] = None
MCSpec == MCInit /\ [][Next]_vars
=============================================================================
