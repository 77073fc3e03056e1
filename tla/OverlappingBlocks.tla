--------------------------- MODULE OverlappingBlocks ---------------------------
(***************************************************************************)
(* cyclonedx/output/__init__.py, class BomRefDiscriminator, when several   *)
(* threads render one BOM: every thread has a discriminator of its own,    *)
(* with its own snapshot and its own known values, and all of them read    *)
(* and write the one value of each BomRef object.                          *)
(*                                                                         *)
(* The threads take turns between any two accesses to a value: while a     *)
(* snapshot is taken, between the two halves of an iteration of            *)
(* discriminate(), which reads a value and then keeps or replaces it,      *)
(* while the body runs, and between two iterations of reset().             *)
(*                                                                         *)
(* Nobody else changes the BOM meanwhile.  Every thread lists the same     *)
(* BomRef objects, in an order of its own and some of them repeatedly;     *)
(* BOMs with components that are equal but for their bom-refs, of which    *)
(* from_bom lists fewer when another thread has changed the values, are    *)
(* left out.                                                               *)
(***************************************************************************)
EXTENDS Naturals, Sequences

CONSTANTS Thread,
          Ref,       \* the BomRef objects of the BOM
          Listings,  \* the orders in which from_bom may list them
          Given,     \* strings that applications use as bom-refs
          Draws,     \* Draws[r]: what _make_unique may return for r
          None       \* Python's None; and no thread

Val(r) == Given \cup {None} \cup Draws[r]
AnyVal == UNION {Val(r) : r \in Ref}

ASSUME ListingAssumption ==
  \A s \in Listings : s \in Seq(Ref) /\ \A r \in Ref : \E k \in 1..Len(s) : s[k] = r

\* Two 53-bit draws: taken never to return a string that is in use for
\* another BomRef.
ASSUME DrawsAssumption ==
  /\ None \notin Given \cup Thread
  /\ \A r \in Ref : None \notin Draws[r] /\ Draws[r] \cap Given = {}
  /\ \A r, q \in Ref : r # q => Draws[r] \cap Draws[q] = {}

VARIABLES value,    \* value[r]: BomRef._value
          pc,       \* pc[t]: "out", "snapshot", "read", "decide", "body", "reset"
          listing,  \* listing[t]: the order in which t's discriminator has them
          i,        \* i[t]: next index of t's running loop
          taken,    \* taken[t]: the original values in t's snapshot
          known,    \* known[t]: known_values of t's discriminate()
          seen,     \* seen[t]: the value t has read and not yet decided on
          \* histories
          before,   \* the values when the outermost block began
          outer,    \* the thread that began a block when all were out
          nested,   \* all other blocks began and ended inside that of outer
          within,   \* within[t]: the threads in whose body t's block began
          met,      \* met[t]: pairs of a BomRef and a value it had at a moment
                    \* from t's decision on it to the end of t's body
          disturbed \* threads whose values a block from outside put back

threads == <<listing, taken, known, seen>>
histories == <<before, outer, nested, within, met, disturbed>>
vars == <<value, pc, i, threads, histories>>

-----------------------------------------------------------------------------
AllOut == \A t \in Thread : pc[t] = "out"

\* The loop of t is not over, and it is r's turn.
Turn(t, r) == i[t] \in 1..Len(listing[t]) /\ r = listing[t][i[t]]
Over(t) == i[t] > Len(listing[t])

\* The BomRefs on which t has decided in its discriminate() or body, and those
\* it has at least read.
InBlock(t) == pc[t] \in {"read", "decide", "body"}
Decided(t) == IF InBlock(t) THEN {listing[t][k] : k \in 1..(i[t] - 1)} ELSE {}
Read(t) == Decided(t) \cup (IF pc[t] = "decide" THEN {listing[t][i[t]]} ELSE {})

\* What threads meet when t writes v to r, having itself made of it the pairs m.
Met(t, r, v, m) ==
  [u \in Thread |-> IF u = t THEN met[t] \cup m
                    ELSE IF r \in Decided(u) THEN met[u] \cup {<<r, v>>} ELSE met[u]]

\* A thread t writes: the outermost one may still be taking its snapshot.
WritesNested(t) == nested /\ (t = outer \/ pc[outer] # "snapshot")

Init == /\ value \in [Ref -> Given \cup {None}]
        /\ pc = [t \in Thread |-> "out"]
        /\ listing = [t \in Thread |-> <<>>]
        /\ i = [t \in Thread |-> 1]
        /\ taken = [t \in Thread |-> <<>>]
        /\ known = [t \in Thread |-> {}]
        /\ seen = [t \in Thread |-> None]
        /\ before = value
        /\ outer = None
        /\ nested = TRUE
        /\ within = [t \in Thread |-> {}]
        /\ met = [t \in Thread |-> {}]
        /\ disturbed = {}

\* BomRefDiscriminator.from_bom(bom): the iterable, of which the constructor
\* is to take the snapshot
Begin(t, s) ==
  /\ pc[t] = "out"
  /\ pc' = [pc EXCEPT ![t] = "snapshot"]
  /\ listing' = [listing EXCEPT ![t] = s]
  /\ i' = [i EXCEPT ![t] = 1]
  /\ within' = [within EXCEPT ![t] = {u \in Thread : pc[u] = "body"}]
  /\ IF AllOut
     THEN before' = value /\ outer' = t /\ nested' = TRUE
     ELSE /\ nested' = (nested /\ pc[outer] # "reset")
          /\ UNCHANGED <<before, outer>>
  /\ UNCHANGED <<value, taken, known, seen, met, disturbed>>

\* __init__: one pair of the tuple
Take(t, r) ==
  /\ pc[t] = "snapshot" /\ Turn(t, r)
  /\ taken' = [taken EXCEPT ![t] = Append(@, value[r])]
  /\ i' = [i EXCEPT ![t] = @ + 1]
  /\ UNCHANGED <<value, pc, listing, known, seen, histories>>

\* __enter__: discriminate() begins
Enter(t) ==
  /\ pc[t] = "snapshot" /\ Over(t)
  /\ pc' = [pc EXCEPT ![t] = "read"]
  /\ i' = [i EXCEPT ![t] = 1]
  /\ UNCHANGED <<value, threads, histories>>

\* discriminate(): value = bomref.value
Look(t, r) ==
  /\ pc[t] = "read" /\ Turn(t, r)
  /\ pc' = [pc EXCEPT ![t] = "decide"]
  /\ seen' = [seen EXCEPT ![t] = value[r]]
  /\ UNCHANGED <<value, i, listing, taken, known, histories>>

\* Mutant: only made values are remembered.
KeepForgetting(t, r) ==
  /\ pc[t] = "decide" /\ Turn(t, r)
  /\ seen[t] \notin known[t] \cup {None}
  /\ pc' = [pc EXCEPT ![t] = "read"]
  /\ i' = [i EXCEPT ![t] = @ + 1]
  /\ seen' = [seen EXCEPT ![t] = None]
  /\ met' = [met EXCEPT ![t] = @ \cup {<<r, seen[t]>>, <<r, value[r]>>}]
  /\ UNCHANGED <<value, listing, taken, known, before, outer, nested, within, disturbed>>

\* ... which is a string not seen before in this loop
Keep(t, r) ==
  /\ pc[t] = "decide" /\ Turn(t, r)
  /\ seen[t] \notin known[t] \cup {None}
  /\ pc' = [pc EXCEPT ![t] = "read"]
  /\ i' = [i EXCEPT ![t] = @ + 1]
  /\ known' = [known EXCEPT ![t] = @ \cup {seen[t]}]
  /\ seen' = [seen EXCEPT ![t] = None]
  /\ met' = [met EXCEPT ![t] = @ \cup {<<r, seen[t]>>, <<r, value[r]>>}]
  /\ UNCHANGED <<value, listing, taken, before, outer, nested, within, disturbed>>

\* ... or no value, or one already known: a unique one is made and set
Replace(t, r) ==
  /\ pc[t] = "decide" /\ Turn(t, r)
  /\ seen[t] \in known[t] \cup {None}
  /\ \E d \in Draws[r] :
       /\ value' = [value EXCEPT ![r] = d]
       /\ known' = [known EXCEPT ![t] = @ \cup {d}]
       /\ met' = Met(t, r, d, {<<r, d>>})
  /\ pc' = [pc EXCEPT ![t] = "read"]
  /\ i' = [i EXCEPT ![t] = @ + 1]
  /\ seen' = [seen EXCEPT ![t] = None]
  /\ nested' = WritesNested(t)
  /\ UNCHANGED <<listing, taken, before, outer, within, disturbed>>

\* __enter__ returns: t renders the BOM
Entered(t) ==
  /\ pc[t] = "read" /\ Over(t)
  /\ pc' = [pc EXCEPT ![t] = "body"]
  /\ UNCHANGED <<value, i, threads, histories>>

\* The body ends, by its last statement or by an exception: __exit__
Exit(t) ==
  /\ pc[t] = "body"
  /\ pc' = [pc EXCEPT ![t] = "reset"]
  /\ i' = [i EXCEPT ![t] = 1]
  /\ nested' = (nested /\ (t = outer => \A u \in Thread \ {t} : pc[u] = "out"))
  /\ within' = [u \in Thread |-> within[u] \ {t}]
  /\ UNCHANGED <<value, threads, before, outer, met, disturbed>>

\* What a restored BomRef makes of the blocks it was not begun in.
Disturbing(t, r) == {u \in Thread \ {t} : r \in Read(u) /\ u \notin within[t]}

\* Mutant: the values are put back in another order than they were taken in.
RestoreReversed(t, r) ==
  /\ pc[t] = "reset" /\ Turn(t, r)
  /\ LET v == taken[t][Len(taken[t]) + 1 - i[t]]
     IN  value' = [value EXCEPT ![r] = v] /\ met' = Met(t, r, v, {})
  /\ i' = [i EXCEPT ![t] = @ + 1]
  /\ disturbed' = disturbed \cup Disturbing(t, r)
  /\ nested' = WritesNested(t)
  /\ UNCHANGED <<pc, threads, before, outer, within>>

\* Mutant: reset() puts back strings, and forgets that None was a value.
RestoreStrings(t, r) ==
  /\ pc[t] = "reset" /\ Turn(t, r)
  /\ LET v == IF taken[t][i[t]] = None THEN value[r] ELSE taken[t][i[t]]
     IN  value' = [value EXCEPT ![r] = v] /\ met' = Met(t, r, v, {})
  /\ i' = [i EXCEPT ![t] = @ + 1]
  /\ disturbed' = disturbed \cup Disturbing(t, r)
  /\ nested' = WritesNested(t)
  /\ UNCHANGED <<pc, threads, before, outer, within>>

\* reset(): one iteration
Restore(t, r) ==
  /\ pc[t] = "reset" /\ Turn(t, r)
  /\ LET v == taken[t][i[t]]
     IN  value' = [value EXCEPT ![r] = v] /\ met' = Met(t, r, v, {})
  /\ i' = [i EXCEPT ![t] = @ + 1]
  /\ disturbed' = disturbed \cup Disturbing(t, r)
  /\ nested' = WritesNested(t)
  /\ UNCHANGED <<pc, threads, before, outer, within>>

\* __exit__ returns, and the discriminator is dropped
Exited(t) ==
  /\ pc[t] = "reset" /\ Over(t)
  /\ pc' = [pc EXCEPT ![t] = "out"]
  /\ listing' = [listing EXCEPT ![t] = <<>>]
  /\ i' = [i EXCEPT ![t] = 1]
  /\ taken' = [taken EXCEPT ![t] = <<>>]
  /\ known' = [known EXCEPT ![t] = {}]
  /\ met' = [met EXCEPT ![t] = {}]
  /\ within' = [within EXCEPT ![t] = {}]
  /\ disturbed' = disturbed \ {t}
  /\ UNCHANGED <<value, seen, before, outer, nested>>

Step(t) == \/ \E s \in Listings : Begin(t, s)
           \/ \E r \in Ref : \/ Take(t, r) \/ Look(t, r)
                             \/ Keep(t, r) \/ Replace(t, r) \/ Restore(t, r)
           \/ Enter(t) \/ Entered(t) \/ Exit(t) \/ Exited(t)

Next == \E t \in Thread : Step(t)

Spec == Init /\ [][Next]_vars

-----------------------------------------------------------------------------
\* Every variable has its type.  A BomRef's value, and what snapshots and
\* known values have of it, is a given string, none, or one made for it.
TypeOK ==
  /\ value \in [Ref -> AnyVal] /\ before \in [Ref -> AnyVal]
  /\ pc \in [Thread -> {"out", "snapshot", "read", "decide", "body", "reset"}]
  /\ i \in [Thread -> Nat \ {0}]
  /\ listing \in [Thread -> Listings \cup {<<>>}]
  /\ taken \in [Thread -> Seq(AnyVal)]
  /\ known \in [Thread -> SUBSET AnyVal]
  /\ seen \in [Thread -> AnyVal \cup {None}]
  /\ outer \in Thread \cup {None}
  /\ nested \in BOOLEAN
  /\ within \in [Thread -> SUBSET Thread]
  /\ met \in [Thread -> SUBSET (Ref \X AnyVal)]
  /\ disturbed \in SUBSET Thread
  /\ \A r \in Ref : value[r] \in Val(r) /\ before[r] \in Val(r)
  /\ \A t \in Thread :
       /\ \A k \in DOMAIN taken[t] : taken[t][k] \in Val(listing[t][k])
       /\ \A p \in met[t] : p[2] \in Val(p[1])
       /\ pc[t] = "decide" => seen[t] \in Val(listing[t][i[t]])

\* A reader in the body of a with-block, such as the serialiser, meets every
\* BomRef with a value, and no two with the same one, be it at different
\* moments: however the other threads' loops and the own one overlap, replace
\* values this thread has read but not decided on, and replace again what it
\* has decided on.  The one exception are threads that put back, after it has
\* read the value of a BomRef, what they had found before its body began
\* (output/__init__.py:144-169).
UniqueUnlessDisturbed ==
  \A t \in Thread :
    pc[t] = "body" /\ t \notin disturbed =>
      /\ \A r \in Ref : <<r, value[r]>> \in met[t]
      /\ \A p \in met[t] : p[2] # None
      /\ \A p, q \in met[t] : p[2] = q[2] => p[1] = q[1]

\* When all blocks have ended the BOM has the values it had before, if they
\* began and ended inside that of one thread: after its snapshot was taken, as
\* far as they wrote, and before its reset() began; it does not matter how they
\* overlap each other, nor which of them raised (output/__init__.py:149-166).
RestoredIfNested == AllOut /\ nested => value = before
=============================================================================
