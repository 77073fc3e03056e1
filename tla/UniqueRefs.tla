----------------------------- MODULE UniqueRefs -----------------------------
(***************************************************************************)
(* What cyclonedx.output.BomRefDiscriminator promises to whoever writes    *)
(*                                                                         *)
(*     with BomRefDiscriminator(refs):                                     *)
(*         serialize()                                                     *)
(*                                                                         *)
(* with no loop, no snapshot and no list of known values: inside the block *)
(* the listed BomRefs hold pairwise different values, a value that needed  *)
(* no repair is the one the application gave, and leaving the block puts   *)
(* every value back.  BomRefDiscriminator.tla is shown to implement it.    *)
(***************************************************************************)
CONSTANTS Ref,    \* BomRef objects
          Str,    \* the non-empty strings a BomRef may hold
          None    \* Python's None

VARIABLES shown,  \* the value a reader of each BomRef sees
          held,   \* is the with-block open?
          saved,  \* the values to put back when it closes
          listed, \* the BomRefs the open block is for
          once    \* those of them that its iterable names once

vars == <<shown, held, saved, listed, once>>

Val == Str \cup {None}

Init == /\ shown \in [Ref -> Val]
        /\ held = FALSE
        /\ saved = shown
        /\ listed = {}
        /\ once = {}

\* The application gives a BomRef another value; never inside the block.
Assign(r, v) == /\ ~held
                /\ shown' = [shown EXCEPT ![r] = v]
                /\ saved' = shown'
                /\ UNCHANGED <<held, listed, once>>

\* The refs of S whose value is a string that no other ref of S holds.
Sound(S) == {r \in S : /\ shown[r] # None
                       /\ \A q \in S \ {r} : shown[q] # shown[r]}

\* The block is entered for the refs S, of which those of T are listed only once.
Enter(S, T) == /\ ~held
               /\ held' = TRUE
               /\ listed' = S
               /\ once' = T
               /\ shown' \in [Ref -> Val]
               /\ \A r \in S : shown'[r] # None
               /\ \A r, q \in S : shown'[r] = shown'[q] => r = q
               /\ \A r \in (Ref \ S) \cup (T \cap Sound(S)) : shown'[r] = shown[r]
               /\ UNCHANGED saved

Exit == /\ held
        /\ held' = FALSE
        /\ shown' = saved
        /\ listed' = {}
        /\ once' = {}
        /\ UNCHANGED saved

Next == \/ \E r \in Ref, v \in Val : Assign(r, v)
        \/ \E S \in SUBSET Ref : \E T \in SUBSET S : Enter(S, T)
        \/ Exit

Spec == Init /\ [][Next]_vars
=============================================================================
