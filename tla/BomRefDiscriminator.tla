------------------------- MODULE BomRefDiscriminator -------------------------
(***************************************************************************)
(* cyclonedx/output/__init__.py, class BomRefDiscriminator, on the BomRef  *)
(* objects of cyclonedx/model/bom_ref.py.                                  *)
(*                                                                         *)
(* A BomRef is a mutable object that several owners may share, and the     *)
(* iterable the discriminator is built from may name one object twice.     *)
(* The loops of discriminate() and reset() are modelled one iteration a    *)
(* step: nothing can observe the values between two iterations, but the    *)
(* steps are what an inductive invariant speaks about.                     *)
(***************************************************************************)
EXTENDS Naturals, Sequences

CONSTANTS Ref,      \* BomRef objects (identities)
          Given,    \* strings applications and documents use as bom-refs
          Random,   \* strings _make_unique can draw
          Empty,    \* the empty string
          None,     \* Python's None
          MaxLen    \* bound: longest iterable a discriminator is built from

ASSUME StrAssumption == /\ None \notin Given \cup Random
                        /\ Empty \notin Given \cup Random
                        /\ Empty # None
ASSUME MaxLenAssumption == MaxLen \in Nat

VARIABLES value,    \* value[r]: BomRef._value
          pc,       \* "app", "discriminate", "body" or "reset"
          bomrefs,  \* the snapshot: sequence of [ref, original]
          i,        \* next index of the running loop
          known     \* known_values of discriminate(), as a set

vars == <<value, pc, bomrefs, i, known>>

Str == Given \cup Random
Val == Str \cup {None}
Entry == [ref : Ref, original : Val]
Iterables == UNION {[1..n -> Ref] : n \in 0..MaxLen}

\* Mutant: the setter stores what it is given.
NormalisedAsIs(v) == v

\* The setter of BomRef.value: `value or None`.
Normalised(v) == IF v = Empty THEN None ELSE v

\* The refs a snapshot b lists, and the values v with those of b put back.
RefsOf(b) == {b[k].ref : k \in DOMAIN b}
IndexOf(b, r) == CHOOSE k \in DOMAIN b : b[k].ref = r
PutBack(b, v) ==
  [r \in Ref |-> IF r \in RefsOf(b) THEN b[IndexOf(b, r)].original ELSE v[r]]

\* What the values are outside the block.
Listed == RefsOf(bomrefs)
Before == PutBack(bomrefs, value)

\* Two 53-bit draws: taken never to repeat a string that is in use.
Unused == Random \ (known \cup {value[r] : r \in Ref} \cup {Before[r] : r \in Ref})

Init == /\ value \in [Ref -> Given \cup {None}]
        /\ pc = "app"
        /\ bomrefs = <<>>
        /\ i = 1
        /\ known = {}

\* bomref.value = v
SetValue(r, v) ==
  /\ pc = "app"
  /\ value' = [value EXCEPT ![r] = Normalised(v)]
  /\ UNCHANGED <<pc, bomrefs, i, known>>

\* Mutant: known_values starts with all the values there are.
EnterKnowingAll(s) ==
  /\ pc = "app"
  /\ pc' = "discriminate"
  /\ bomrefs' = [k \in DOMAIN s |-> [ref |-> s[k], original |-> value[s[k]]]]
  /\ i' = 1
  /\ known' = {value[s[k]] : k \in DOMAIN s} \ {None}
  /\ UNCHANGED value

\* with BomRefDiscriminator(s): the constructor's snapshot, then __enter__
Enter(s) ==
  /\ pc = "app"
  /\ pc' = "discriminate"
  /\ bomrefs' = [k \in DOMAIN s |-> [ref |-> s[k], original |-> value[s[k]]]]
  /\ i' = 1
  /\ known' = {}
  /\ UNCHANGED value

\* Mutant: only made values are remembered.
KeepForgetting ==
  /\ pc = "discriminate"
  /\ i \in DOMAIN bomrefs
  /\ value[bomrefs[i].ref] \notin known \cup {None}
  /\ i' = i + 1
  /\ UNCHANGED <<value, pc, bomrefs, known>>

\* discriminate(): the value is a string not seen before in this loop
Keep ==
  /\ pc = "discriminate"
  /\ i \in DOMAIN bomrefs
  /\ LET v == value[bomrefs[i].ref]
     IN  /\ v # None
         /\ v \notin known
         /\ known' = known \cup {v}
  /\ i' = i + 1
  /\ UNCHANGED <<value, pc, bomrefs>>

\* discriminate(): no value, or one already known: a unique one is made
Replace ==
  /\ pc = "discriminate"
  /\ i \in DOMAIN bomrefs
  /\ value[bomrefs[i].ref] \in known \cup {None}
  /\ \E u \in Unused :
       /\ value' = [value EXCEPT ![bomrefs[i].ref] = Normalised(u)]
       /\ known' = known \cup {u}
  /\ i' = i + 1
  /\ UNCHANGED <<pc, bomrefs>>

\* __enter__ returns: the body of the with-block runs
Entered ==
  /\ pc = "discriminate"
  /\ i \notin DOMAIN bomrefs
  /\ pc' = "body"
  /\ UNCHANGED <<value, bomrefs, i, known>>

\* Mutant: reset() is not called when the body ends.
ExitWithoutReset ==
  /\ pc = "body"
  /\ pc' = "app"
  /\ bomrefs' = <<>>
  /\ i' = 1
  /\ known' = {}
  /\ UNCHANGED value

\* the body ends, by its last statement or by an exception: __exit__
Exit ==
  /\ pc = "body"
  /\ pc' = "reset"
  /\ i' = 1
  /\ UNCHANGED <<value, bomrefs, known>>

\* Mutant: reset() puts back strings, and forgets that None was a value.
RestoreStrings ==
  /\ pc = "reset"
  /\ i \in DOMAIN bomrefs
  /\ value' = IF bomrefs[i].original = None THEN value
              ELSE [value EXCEPT ![bomrefs[i].ref] = bomrefs[i].original]
  /\ i' = i + 1
  /\ UNCHANGED <<pc, bomrefs, known>>

\* reset(): one iteration
Restore ==
  /\ pc = "reset"
  /\ i \in DOMAIN bomrefs
  /\ value' = [value EXCEPT ![bomrefs[i].ref] = Normalised(bomrefs[i].original)]
  /\ i' = i + 1
  /\ UNCHANGED <<pc, bomrefs, known>>

\* __exit__ returns and the discriminator is dropped
Exited ==
  /\ pc = "reset"
  /\ i \notin DOMAIN bomrefs
  /\ pc' = "app"
  /\ bomrefs' = <<>>
  /\ i' = 1
  /\ known' = {}
  /\ UNCHANGED value

Loop == Keep \/ Replace \/ Entered \/ Restore \/ Exited

Next == \/ \E r \in Ref, v \in Given \cup {None, Empty} : SetValue(r, v)
        \/ \E s \in Iterables : Enter(s)
        \/ Loop
        \/ Exit

Spec == Init /\ [][Next]_vars

\* The loops run to their end, and a body that never ends is not the
\* discriminator's concern: serialisation is finite.
FairSpec == Spec /\ WF_vars(Loop) /\ WF_vars(Exit)

-----------------------------------------------------------------------------
\* Every variable has its type; BomRefs never hold the empty string.
TypeOK ==
  /\ value \in [Ref -> Val]
  /\ pc \in {"app", "discriminate", "body", "reset"}
  /\ bomrefs \in Seq(Entry)
  /\ i \in 1..(Len(bomrefs) + 1)
  /\ known \in SUBSET Str

\* While the body runs, every listed BomRef has a value and no two listed
\* BomRefs share one, however often the iterable names an object
\* (output/__init__.py:155-162).
UniqueInBody ==
  pc = "body" => /\ \A r \in Listed : value[r] # None
                 /\ \A r, q \in Listed : value[r] = value[q] => r = q

\* The positions at which the iterable names r.
Positions(r) == {k \in DOMAIN bomrefs : bomrefs[k].ref = r}

\* While the body runs, a value that was given keeps naming the same object
\* if that object is listed once and is the first holder of the value: the
\* references other elements make to it as plain strings stay right.
FirstHolderKept ==
  pc = "body" =>
    \A k \in DOMAIN bomrefs :
      ( /\ bomrefs[k].original # None
        /\ Positions(bomrefs[k].ref) = {k}
        /\ \A j \in 1..(k - 1) : bomrefs[j].original # bomrefs[k].original )
      => value[bomrefs[k].ref] = bomrefs[k].original

\* The BomRefs the iterable names once.
ListedOnce == {r \in Listed : \E k \in DOMAIN bomrefs : Positions(r) = {k}}

\* The discriminator implements UniqueRefs: its loops are stuttering steps,
\* __enter__ takes effect when its loop ends and __exit__ when it is called.
Abstract == INSTANCE UniqueRefs
  WITH shown <- IF pc = "body" THEN value ELSE Before,
       held  <- pc = "body",
       saved <- Before,
       listed <- IF pc = "body" THEN Listed ELSE {},
       once  <- IF pc = "body" THEN ListedOnce ELSE {}
ImplementsUniqueRefs == Abstract!Spec

\* Whatever value a BomRef has when a block is entered, listed once, often or
\* not at all, it comes to have that value again in the application's hands,
\* whether the body of the block returns or raises (output/__init__.py:152-166,
\* output/json.py:73).
EventuallyRestored ==
  \A r \in Ref, v \in Given \cup {None} :
    pc = "discriminate" /\ Before[r] = v ~> pc = "app" /\ value[r] = v
=============================================================================
