---------------------- MODULE BomRefDiscriminatorProofs ----------------------
(***************************************************************************)
(* What TLAPS proves of BomRefDiscriminator for all Ref, Given, Random and *)
(* MaxLen: typing, the two safety properties of the body, and that the     *)
(* discriminator implements UniqueRefs.                                    *)
(***************************************************************************)
EXTENDS BomRefDiscriminator, SequenceTheorems, TLAPS

\* A snapshot that gives an object one value, however often it lists it.
OneValueEach(b) == \A j, k \in DOMAIN b :
                     b[j].ref = b[k].ref => b[j].original = b[k].original

\* The objects the running loop has come past.
Done == {bomrefs[k].ref : k \in 1..(i - 1)}

\* The snapshot is taken at one moment, so it gives an object one value.
Consistent == OneValueEach(bomrefs)

InApp == pc = "app" => bomrefs = <<>>

InBody == pc = "body" => i = Len(bomrefs) + 1

\* Objects the loop has not come to hold what they held before.
Ahead == \A r \in Ref \ Done : value[r] = Before[r]

\* Objects it has come past hold different, known strings.
Distinct == /\ \A r \in Done : value[r] \in known
            /\ \A r, q \in Done : value[r] = value[q] => r = q

\* A known string is an old value of an object come past, or nobody's.
KnownOrigin == \A v \in known : \/ \E q \in Done : Before[q] = v
                                \/ \A r \in Ref : Before[r] # v

\* The part of FirstHolderKept that the loop has established.
KeptSoFar ==
  \A k \in 1..(i - 1) :
    ( /\ bomrefs[k].original # None
      /\ \A j \in 1..(i - 1) : bomrefs[j].ref = bomrefs[k].ref => j = k
      /\ \A j \in 1..(k - 1) : bomrefs[j].original # bomrefs[k].original )
    => value[bomrefs[k].ref] = bomrefs[k].original

Discriminating == pc \in {"discriminate", "body"} =>
                    Ahead /\ Distinct /\ KnownOrigin /\ KeptSoFar

Resetting == pc = "reset" => \A r \in Done : value[r] = Before[r]

IInv == TypeOK /\ Consistent /\ InApp /\ InBody /\ Discriminating /\ Resetting

-----------------------------------------------------------------------------
\* Entering keeps the types, whatever finite iterable there is.
LEMMA EnterTypes ==
  ASSUME TypeOK, NEW n \in Nat, NEW s \in [1..n -> Ref], Enter(s)
  PROVE  TypeOK'
<1>1. bomrefs' \in [1..n -> Entry]
  BY DEF Enter, Entry, TypeOK
<1>2. bomrefs' \in Seq(Entry)
  BY <1>1, SeqDef
<1>3. i' \in 1..(Len(bomrefs') + 1) /\ known' \in SUBSET Str
  BY <1>2 DEF Enter
<1> QED
  BY <1>2, <1>3 DEF Enter, TypeOK

LEMMA FiniteIterables ==
  ASSUME NEW s \in Iterables
  PROVE  \E n \in Nat : s \in [1..n -> Ref]
BY MaxLenAssumption DEF Iterables

\* The steps of the loops, and leaving, keep the types.
LEMMA LoopTypes == TypeOK /\ (Loop \/ Exit) => TypeOK'
<1> SUFFICES ASSUME TypeOK, Loop \/ Exit PROVE TypeOK'
  OBVIOUS
<1> USE DEF TypeOK
<1>3. CASE Keep
  <2>1. /\ i \in DOMAIN bomrefs /\ i' = i + 1
        /\ UNCHANGED <<value, pc, bomrefs>>
        /\ value[bomrefs[i].ref] # None
        /\ known' = known \cup {value[bomrefs[i].ref]}
    BY <1>3 DEF Keep
  <2>2. bomrefs[i] \in Entry /\ i' \in 1..(Len(bomrefs) + 1)
    BY <2>1, LenProperties, ElementOfSeq
  <2>3. value[bomrefs[i].ref] \in Str
    BY <2>1, <2>2 DEF Val, Entry
  <2> QED
    BY <2>1, <2>3
<1>4. CASE Replace
  <2>1. PICK u \in Unused : /\ value' = [value EXCEPT ![bomrefs[i].ref] = Normalised(u)]
                            /\ known' = known \cup {u}
    BY <1>4 DEF Replace
  <2>2. u \in Str /\ Normalised(u) = u
    BY StrAssumption DEF Unused, Normalised, Str
  <2>3. i' \in 1..(Len(bomrefs) + 1)
    BY <1>4, LenProperties DEF Replace
  <2> QED
    BY <1>4, <2>1, <2>2, <2>3 DEF Replace, Val
<1>5. CASE Entered
  BY <1>5 DEF Entered
<1>6. CASE Exit
  BY <1>6 DEF Exit
<1>7. CASE Restore
  <2>1. bomrefs[i] \in Entry /\ i' \in 1..(Len(bomrefs) + 1)
    BY <1>7, LenProperties, ElementOfSeq DEF Restore
  <2>2. Normalised(bomrefs[i].original) \in Val
    BY <2>1 DEF Normalised, Val, Entry
  <2> QED
    BY <1>7, <2>1, <2>2 DEF Restore
<1>8. CASE Exited
  BY <1>8 DEF Exited
<1> QED
  BY <1>3, <1>4, <1>5, <1>6, <1>7, <1>8 DEF Loop

\* Every step keeps the types.
LEMMA TypeStep == TypeOK /\ [Next]_vars => TypeOK'
<1> SUFFICES ASSUME TypeOK, [Next]_vars PROVE TypeOK'
  OBVIOUS
<1> USE DEF TypeOK
<1>1. ASSUME NEW r \in Ref, NEW v \in Given \cup {None, Empty}, SetValue(r, v)
      PROVE  TypeOK'
  BY <1>1 DEF SetValue, Normalised, Val, Str
<1>2. ASSUME NEW s \in Iterables, Enter(s)
      PROVE  TypeOK'
  BY <1>2, FiniteIterables, EnterTypes
<1>3. CASE Loop \/ Exit
  BY <1>3, LoopTypes
<1>4. CASE UNCHANGED vars
  BY <1>4 DEF vars
<1> QED
  BY <1>1, <1>2, <1>3, <1>4 DEF Next

\* Typing holds in every reachable state (bom_ref.py:51-54 keeps the empty
\* string out, output/__init__.py:144-169 moves values only between refs).
THEOREM TypeCorrect == Spec => []TypeOK
<1>1. Init => TypeOK
  BY DEF Init, TypeOK, Val, Str
<1> QED
  BY <1>1, TypeStep, PTL DEF Spec

-----------------------------------------------------------------------------
\* PutBack, without the CHOOSE it is written with.
LEMMA PutBackFacts ==
  ASSUME NEW b \in Seq(Entry), NEW v \in [Ref -> Val], OneValueEach(b)
  PROVE  /\ PutBack(b, v) \in [Ref -> Val]
         /\ RefsOf(b) \subseteq Ref
         /\ \A k \in DOMAIN b : PutBack(b, v)[b[k].ref] = b[k].original
         /\ \A r \in Ref \ RefsOf(b) : PutBack(b, v)[r] = v[r]
<1>1. ASSUME NEW k \in DOMAIN b
      PROVE  b[k].ref \in Ref /\ b[k].original \in Val
  <2>1. b[k] \in Entry
    BY LenProperties, ElementOfSeq
  <2> QED
    BY <2>1 DEF Entry
<1>2. RefsOf(b) \subseteq Ref
  BY <1>1 DEF RefsOf
<1>3. ASSUME NEW r \in RefsOf(b)
      PROVE  IndexOf(b, r) \in DOMAIN b /\ b[IndexOf(b, r)].ref = r
  <2>1. \E k \in DOMAIN b : b[k].ref = r
    BY DEF RefsOf
  <2> QED
    BY <2>1 DEF IndexOf
<1>4. PutBack(b, v) \in [Ref -> Val]
  BY <1>1, <1>3 DEF PutBack
<1>5. ASSUME NEW k \in DOMAIN b
      PROVE  PutBack(b, v)[b[k].ref] = b[k].original
  <2>1. b[k].ref \in RefsOf(b)
    BY DEF RefsOf
  <2>2. b[IndexOf(b, b[k].ref)].original = b[k].original
    BY <1>3, <2>1 DEF OneValueEach
  <2> QED
    BY <1>1, <2>1, <2>2 DEF PutBack
<1>6. \A r \in Ref \ RefsOf(b) : PutBack(b, v)[r] = v[r]
  BY DEF PutBack
<1> QED
  BY <1>2, <1>4, <1>5, <1>6

\* Values that agree outside the snapshot have the same put-back values.
LEMMA PutBackSame ==
  ASSUME NEW b \in Seq(Entry), OneValueEach(b),
         NEW v \in [Ref -> Val], NEW w \in [Ref -> Val],
         \A r \in Ref \ RefsOf(b) : w[r] = v[r]
  PROVE  PutBack(b, w) = PutBack(b, v)
BY DEF PutBack

\* The iteration at position i: the facts every loop step starts from.
LEMMA AtPosition ==
  ASSUME TypeOK, Consistent, i \in DOMAIN bomrefs
  PROVE  /\ i \in Nat \ {0}
         /\ i \in 1..Len(bomrefs)
         /\ (i + 1) - 1 = i
         /\ 1..i = 1..(i - 1) \cup {i}
         /\ bomrefs[i].ref \in Listed
         /\ bomrefs[i].ref \in Ref
         /\ bomrefs[i].original \in Val
         /\ Before[bomrefs[i].ref] = bomrefs[i].original
         /\ Done \subseteq Listed
<1>1. /\ i \in 1..Len(bomrefs) /\ Len(bomrefs) \in Nat
      /\ DOMAIN bomrefs = 1..Len(bomrefs)
      /\ bomrefs[i] \in Entry
  BY LenProperties, ElementOfSeq DEF TypeOK
<1>2. i \in Nat \ {0} /\ (i + 1) - 1 = i /\ 1..i = 1..(i - 1) \cup {i}
  BY <1>1
<1>3. bomrefs[i].ref \in Listed
  BY DEF Listed, RefsOf
<1>4. Before[bomrefs[i].ref] = bomrefs[i].original
  BY PutBackFacts DEF TypeOK, Consistent, Before
<1>5. 1..(i - 1) \subseteq DOMAIN bomrefs
  BY <1>1
<1>6. Done \subseteq Listed
  BY <1>5 DEF Done, Listed, RefsOf
<1> QED
  BY <1>1, <1>2, <1>3, <1>4, <1>6 DEF Entry

\* An iteration keeps the snapshot, and what it would put back.
LEMMA IterationKeeps ==
  ASSUME TypeOK, TypeOK', Consistent, i \in DOMAIN bomrefs, i' = i + 1,
         UNCHANGED bomrefs,
         \A r \in Ref \ {bomrefs[i].ref} : value'[r] = value[r]
  PROVE  /\ Consistent'
         /\ Before' = Before
         /\ Done' = Done \cup {bomrefs[i].ref}
<1>1. Consistent'
  BY DEF Consistent, OneValueEach
<1>2. Before' = Before
  <2>1. \A r \in Ref \ RefsOf(bomrefs) : value'[r] = value[r]
    BY AtPosition DEF Listed
  <2>2. PutBack(bomrefs, value') = PutBack(bomrefs, value)
    BY <2>1, PutBackSame DEF TypeOK, Consistent
  <2> QED
    BY <2>2 DEF Before
<1>3. Done' = Done \cup {bomrefs[i].ref}
  BY AtPosition DEF Done
<1> QED
  BY <1>1, <1>2, <1>3

\* Keep: an object not come past, with a string not known.
LEMMA KeepStep == IInv /\ TypeOK' /\ Keep => IInv'
<1> SUFFICES ASSUME IInv, TypeOK', Keep PROVE IInv'
  OBVIOUS
<1> DEFINE r0 == bomrefs[i].ref
<1>1. /\ pc = "discriminate" /\ pc' = "discriminate"
      /\ i \in DOMAIN bomrefs /\ i' = i + 1
      /\ value' = value /\ bomrefs' = bomrefs
      /\ value[r0] # None /\ value[r0] \notin known
      /\ known' = known \cup {value[r0]}
  BY DEF Keep
<1>2. /\ TypeOK /\ Consistent
      /\ Ahead /\ Distinct /\ KnownOrigin /\ KeptSoFar
  BY <1>1 DEF IInv, Discriminating
<1>3. Consistent' /\ Before' = Before /\ Done' = Done \cup {r0}
  BY <1>1, <1>2, IterationKeeps
<1>4. r0 \in Ref /\ Before[r0] = bomrefs[i].original
  BY <1>1, <1>2, AtPosition
<1>5. r0 \notin Done
  BY <1>1, <1>2 DEF Distinct
<1>6. value[r0] = Before[r0]
  BY <1>2, <1>4, <1>5 DEF Ahead
<1>7. Ahead'
  BY <1>1, <1>2, <1>3 DEF Ahead
<1>8. Distinct'
  <2>1. \A r \in Done' : value'[r] \in known'
    BY <1>1, <1>2, <1>3 DEF Distinct
  <2>2. ASSUME NEW r \in Done', NEW q \in Done', value'[r] = value'[q]
        PROVE  r = q
    BY <1>1, <1>2, <1>3, <2>2 DEF Distinct
  <2> QED
    BY <2>1, <2>2 DEF Distinct
<1>9. KnownOrigin'
  BY <1>1, <1>2, <1>3, <1>6 DEF KnownOrigin
<1>10. KeptSoFar'
  <2>1. 1..(i' - 1) = 1..(i - 1) \cup {i}
    BY <1>1, <1>2, AtPosition
  <2> SUFFICES ASSUME NEW k \in 1..(i' - 1),
                      bomrefs[k].original # None,
                      \A j \in 1..(i' - 1) : bomrefs[j].ref = bomrefs[k].ref => j = k,
                      \A j \in 1..(k - 1) : bomrefs[j].original # bomrefs[k].original
               PROVE  value[bomrefs[k].ref] = bomrefs[k].original
    BY <1>1 DEF KeptSoFar
  <2>2. CASE k = i
    BY <1>4, <1>6, <2>2
  <2>3. CASE k \in 1..(i - 1)
    BY <1>2, <2>1, <2>3 DEF KeptSoFar
  <2> QED
    BY <2>1, <2>2, <2>3
<1> QED
  BY <1>1, <1>3, <1>7, <1>8, <1>9, <1>10
     DEF IInv, Discriminating, Resetting, InApp, InBody

\* Replace: the string drawn is used nowhere, so nothing known can clash
\* with it and it is no old value.
LEMMA ReplaceStep == IInv /\ TypeOK' /\ Replace => IInv'
<1> SUFFICES ASSUME IInv, TypeOK', Replace PROVE IInv'
  OBVIOUS
<1> DEFINE r0 == bomrefs[i].ref
<1>1. PICK u \in Unused : value' = [value EXCEPT ![r0] = Normalised(u)]
                          /\ known' = known \cup {u}
  BY DEF Replace
<1>2. /\ pc = "discriminate" /\ pc' = "discriminate"
      /\ i \in DOMAIN bomrefs /\ i' = i + 1 /\ bomrefs' = bomrefs
      /\ value[r0] \in known \cup {None}
  BY DEF Replace
<1>3. /\ TypeOK /\ Consistent
      /\ Ahead /\ Distinct /\ KnownOrigin /\ KeptSoFar
  BY <1>2 DEF IInv, Discriminating
<1>4. /\ r0 \in Ref /\ Before[r0] = bomrefs[i].original
      /\ Done \subseteq Ref
  BY <1>2, <1>3, AtPosition, PutBackFacts DEF TypeOK, Consistent, Listed
<1>5. /\ u \notin known /\ Normalised(u) = u
      /\ \A r \in Ref : value[r] # u /\ Before[r] # u
  BY StrAssumption DEF Unused, Normalised
<1>6. value'[r0] = u /\ \A r \in Ref \ {r0} : value'[r] = value[r]
  BY <1>1, <1>3, <1>4, <1>5 DEF TypeOK
<1>7. Consistent' /\ Before' = Before /\ Done' = Done \cup {r0}
  BY <1>2, <1>3, <1>6, IterationKeeps
<1>8. Ahead'
  BY <1>3, <1>6, <1>7 DEF Ahead
<1>9. Distinct'
  <2>1. \A r \in Done' : value'[r] \in known'
    BY <1>1, <1>3, <1>4, <1>6, <1>7 DEF Distinct
  <2>2. ASSUME NEW r \in Done', NEW q \in Done', value'[r] = value'[q]
        PROVE  r = q
    BY <1>3, <1>4, <1>5, <1>6, <1>7, <2>2 DEF Distinct
  <2> QED
    BY <2>1, <2>2 DEF Distinct
<1>10. KnownOrigin'
  BY <1>1, <1>3, <1>5, <1>7 DEF KnownOrigin
<1>11. KeptSoFar'
  <2>1. 1..(i' - 1) = 1..(i - 1) \cup {i}
    BY <1>2, <1>3, AtPosition
  <2> SUFFICES ASSUME NEW k \in 1..(i' - 1),
                      bomrefs[k].original # None,
                      \A j \in 1..(i' - 1) : bomrefs[j].ref = bomrefs[k].ref => j = k,
                      \A j \in 1..(k - 1) : bomrefs[j].original # bomrefs[k].original
               PROVE  value'[bomrefs[k].ref] = bomrefs[k].original
    BY <1>2 DEF KeptSoFar
  <2>2. CASE k = i
    <3>1. r0 \notin Done
      <4>1. \A j \in 1..(i - 1) : bomrefs[j].ref # r0
        BY <1>2, <1>3, <2>1, <2>2, AtPosition
      <4> QED
        BY <4>1 DEF Done
    <3>2. value[r0] = bomrefs[i].original
      BY <1>3, <1>4, <3>1 DEF Ahead
    <3>3. bomrefs[i].original \in known
      BY <1>2, <2>2, <3>2
    <3>4. PICK q \in Done : Before[q] = bomrefs[i].original
      BY <1>3, <1>4, <3>3 DEF KnownOrigin
    <3>5. PICK j \in 1..(i - 1) : bomrefs[j].ref = q
      BY DEF Done
    <3>6. j \in DOMAIN bomrefs
      BY <1>2, <1>3, LenProperties DEF TypeOK
    <3>7. bomrefs[j].original = bomrefs[i].original
      BY <1>3, <3>4, <3>5, <3>6, PutBackFacts DEF TypeOK, Consistent, Before
    <3> QED
      BY <2>2, <3>7
  <2>3. CASE k \in 1..(i - 1)
    <3>1. value[bomrefs[k].ref] = bomrefs[k].original
      BY <1>3, <2>1, <2>3 DEF KeptSoFar
    <3>2. bomrefs[k].ref # r0
      BY <1>2, <1>3, <2>1, <2>3, AtPosition
    <3>3. bomrefs[k].ref \in Ref
      BY <1>4, <2>3 DEF Done
    <3> QED
      BY <1>6, <3>1, <3>2, <3>3
  <2> QED
    BY <2>1, <2>2, <2>3
<1> QED
  BY <1>2, <1>7, <1>8, <1>9, <1>10, <1>11
     DEF IInv, Discriminating, Resetting, InApp, InBody

\* Restore: the object gets back what its snapshot says.
LEMMA RestoreStep == IInv /\ TypeOK' /\ Restore => IInv'
<1> SUFFICES ASSUME IInv, TypeOK', Restore PROVE IInv'
  OBVIOUS
<1> DEFINE r0 == bomrefs[i].ref
<1>1. /\ pc = "reset" /\ pc' = "reset"
      /\ i \in DOMAIN bomrefs /\ i' = i + 1 /\ bomrefs' = bomrefs
      /\ value' = [value EXCEPT ![r0] = Normalised(bomrefs[i].original)]
  BY DEF Restore
<1>2. TypeOK /\ Consistent /\ \A r \in Done : value[r] = Before[r]
  BY <1>1 DEF IInv, Resetting
<1>3. /\ r0 \in Ref /\ bomrefs[i].original \in Val
      /\ Before[r0] = bomrefs[i].original
  BY <1>1, <1>2, AtPosition
<1>4. Normalised(bomrefs[i].original) = bomrefs[i].original
  BY <1>3, StrAssumption DEF Normalised, Val, Str
<1>5. value'[r0] = Before[r0] /\ \A r \in Ref \ {r0} : value'[r] = value[r]
  BY <1>1, <1>2, <1>3, <1>4 DEF TypeOK
<1>6. Consistent' /\ Before' = Before /\ Done' = Done \cup {r0}
  BY <1>1, <1>2, <1>5, IterationKeeps
<1>7. Done \subseteq Ref
  BY <1>1, <1>2, AtPosition, PutBackFacts DEF TypeOK, Consistent, Listed
<1>8. \A r \in Done' : value'[r] = Before'[r]
  BY <1>2, <1>5, <1>6, <1>7
<1> QED
  BY <1>1, <1>6, <1>8 DEF IInv, Discriminating, Resetting, InApp, InBody

\* Entering takes the snapshot; no object has been come past yet.
LEMMA EnterStep ==
  ASSUME IInv, TypeOK', NEW n \in Nat, NEW s \in [1..n -> Ref], Enter(s)
  PROVE  IInv' /\ Before' = value
<1>2. /\ pc' = "discriminate" /\ i' = 1 /\ known' = {} /\ value' = value
      /\ DOMAIN bomrefs' = 1..n
      /\ \A k \in 1..n : bomrefs'[k].ref = s[k] /\ bomrefs'[k].original = value[s[k]]
  BY DEF Enter
<1>3. Consistent'
  BY <1>2 DEF Consistent, OneValueEach
<1>4. bomrefs' \in Seq(Entry) /\ value \in [Ref -> Val] /\ OneValueEach(bomrefs')
  BY <1>2, <1>3 DEF TypeOK, IInv, Consistent
<1>5. /\ PutBack(bomrefs', value) \in [Ref -> Val]
      /\ \A k \in DOMAIN bomrefs' : PutBack(bomrefs', value)[bomrefs'[k].ref] = bomrefs'[k].original
      /\ \A r \in Ref \ RefsOf(bomrefs') : PutBack(bomrefs', value)[r] = value[r]
  BY <1>4, PutBackFacts
<1>6. ASSUME NEW r \in Ref PROVE PutBack(bomrefs', value)[r] = value[r]
  <2>1. CASE r \in RefsOf(bomrefs')
    <3>1. PICK k \in DOMAIN bomrefs' : bomrefs'[k].ref = r
      BY <2>1 DEF RefsOf
    <3> QED
      BY <1>2, <1>5, <3>1
  <2>2. CASE r \notin RefsOf(bomrefs')
    BY <1>5, <2>2
  <2> QED
    BY <2>1, <2>2
<1>7. PutBack(bomrefs', value) = value
  BY <1>4, <1>5, <1>6
<1>8. Before' = value
  BY <1>2, <1>7 DEF Before
<1>9. 1..(i' - 1) = {} /\ Done' = {}
  BY <1>2 DEF Done
<1>10. Ahead' /\ Distinct' /\ KnownOrigin' /\ KeptSoFar'
  BY <1>2, <1>8, <1>9 DEF Ahead, Distinct, KnownOrigin, KeptSoFar
<1> QED
  BY <1>2, <1>3, <1>8, <1>10 DEF IInv, Discriminating, Resetting, InApp, InBody

\* With nothing listed, there is nothing to put back.
LEMMA NothingListed ==
  ASSUME NEW v \in [Ref -> Val]
  PROVE  OneValueEach(<<>>) /\ RefsOf(<<>>) = {} /\ PutBack(<<>>, v) = v
BY DEF OneValueEach, RefsOf, PutBack

\* At the end of a loop every listed object has been come past.
LEMMA AllDone ==
  ASSUME TypeOK, i \notin DOMAIN bomrefs
  PROVE  /\ i = Len(bomrefs) + 1
         /\ 1..(i - 1) = DOMAIN bomrefs
         /\ Done = Listed
<1>1. DOMAIN bomrefs = 1..Len(bomrefs) /\ Len(bomrefs) \in Nat
  BY LenProperties DEF TypeOK
<1>2. i = Len(bomrefs) + 1
  BY <1>1 DEF TypeOK
<1>3. 1..(i - 1) = DOMAIN bomrefs
  BY <1>1, <1>2
<1> QED
  BY <1>2, <1>3 DEF Done, Listed, RefsOf

\* Leaving drops the snapshot; by then the values are the old ones.
LEMMA ExitedStep ==
  ASSUME IInv, TypeOK', Exited
  PROVE  IInv' /\ Before' = Before
<1>1. /\ pc = "reset" /\ pc' = "app" /\ i \notin DOMAIN bomrefs
      /\ bomrefs' = <<>> /\ value' = value
  BY DEF Exited
<1>2. TypeOK /\ Consistent /\ \A r \in Listed : value[r] = Before[r]
  BY <1>1, AllDone DEF IInv, Resetting
<1>3. Before \in [Ref -> Val] /\ \A r \in Ref \ Listed : Before[r] = value[r]
  BY <1>2, PutBackFacts DEF TypeOK, Consistent, Before, Listed
<1>4. Before = value
  BY <1>2, <1>3 DEF TypeOK
<1>5. Consistent' /\ Before' = value
  BY <1>1, <1>2, NothingListed DEF Consistent, Before, TypeOK
<1> QED
  BY <1>1, <1>4, <1>5 DEF IInv, Discriminating, Resetting, InApp, InBody

\* The steps of the loops, and leaving, keep IInv.
LEMMA LoopStep == IInv /\ (Loop \/ Exit) => IInv'
<1> SUFFICES ASSUME IInv, Loop \/ Exit PROVE IInv'
  OBVIOUS
<1>1. TypeOK /\ TypeOK'
  BY LoopTypes DEF IInv
<1>4. CASE Keep
  BY <1>1, <1>4, KeepStep
<1>5. CASE Replace
  BY <1>1, <1>5, ReplaceStep
<1>6. CASE Entered
  <2>1. /\ pc = "discriminate" /\ pc' = "body" /\ i \notin DOMAIN bomrefs
        /\ UNCHANGED <<value, bomrefs, i, known>>
    BY <1>6 DEF Entered
  <2>2. i' = Len(bomrefs') + 1
    BY <1>1, <2>1, AllDone
  <2>3. Ahead' /\ Distinct' /\ KnownOrigin' /\ KeptSoFar'
    BY <2>1 DEF IInv, Discriminating, Ahead, Distinct, KnownOrigin, KeptSoFar, Done, Before
  <2> QED
    BY <1>1, <2>1, <2>2, <2>3
       DEF IInv, Discriminating, Resetting, Consistent, InApp, InBody
<1>7. CASE Exit
  <2>1. /\ pc = "body" /\ pc' = "reset" /\ i' = 1
        /\ UNCHANGED <<value, bomrefs, known>>
    BY <1>7 DEF Exit
  <2>2. Done' = {}
    BY <2>1 DEF Done
  <2> QED
    BY <1>1, <2>1, <2>2
       DEF IInv, Discriminating, Resetting, Consistent, InApp, InBody
<1>8. CASE Restore
  BY <1>1, <1>8, RestoreStep
<1>9. CASE Exited
  BY <1>1, <1>9, ExitedStep
<1> QED
  BY <1>4, <1>5, <1>6, <1>7, <1>8, <1>9 DEF Loop

\* IInv is inductive.
LEMMA InvStep == IInv /\ [Next]_vars => IInv'
<1> SUFFICES ASSUME IInv, [Next]_vars PROVE IInv'
  OBVIOUS
<1>1. TypeOK /\ TypeOK'
  BY TypeStep DEF IInv
<1>2. ASSUME NEW r \in Ref, NEW v \in Given \cup {None, Empty}, SetValue(r, v)
      PROVE  IInv'
  BY <1>1, <1>2, NothingListed
     DEF IInv, SetValue, Consistent, InApp, InBody, Discriminating, Resetting
<1>3. ASSUME NEW s \in Iterables, Enter(s) PROVE IInv'
  BY <1>1, <1>3, FiniteIterables, EnterStep
<1>4. CASE Loop \/ Exit
  BY <1>4, LoopStep
<1>5. CASE UNCHANGED vars
  <2>1. UNCHANGED <<value, pc, bomrefs, i, known>>
    BY <1>5 DEF vars
  <2>2. Ahead' = Ahead /\ Distinct' = Distinct /\ KnownOrigin' = KnownOrigin
        /\ KeptSoFar' = KeptSoFar /\ Done' = Done /\ Before' = Before
    BY <2>1 DEF Ahead, Distinct, KnownOrigin, KeptSoFar, Done, Before
  <2> QED
    BY <1>1, <2>1, <2>2
       DEF IInv, Discriminating, Resetting, Consistent, InApp, InBody
<1> QED
  BY <1>2, <1>3, <1>4, <1>5 DEF Next

LEMMA InvInit == Init => IInv
<1> SUFFICES ASSUME Init PROVE IInv
  OBVIOUS
<1>1. TypeOK
  BY DEF Init, TypeOK, Val, Str
<1> QED
  BY <1>1, NothingListed
     DEF Init, TypeOK, IInv, Consistent, InApp, InBody, Discriminating, Resetting

LEMMA InvHolds == Spec => []IInv
BY InvInit, InvStep, PTL DEF Spec

-----------------------------------------------------------------------------
LEMMA InvUnique == IInv => UniqueInBody
<1> SUFFICES ASSUME IInv, pc = "body" PROVE UniqueInBody
  BY DEF UniqueInBody
<1>1. TypeOK /\ Distinct /\ i = Len(bomrefs) + 1
  BY DEF IInv, Discriminating, InBody
<1>2. i \notin DOMAIN bomrefs
  BY <1>1, LenProperties DEF TypeOK
<1>3. Done = Listed
  BY <1>1, <1>2, AllDone
<1>4. \A r \in Listed : value[r] # None
  BY <1>1, <1>3, StrAssumption DEF Distinct, TypeOK, Str
<1> QED
  BY <1>1, <1>3, <1>4 DEF Distinct, UniqueInBody

LEMMA InvFirstHolder == IInv => FirstHolderKept
<1> SUFFICES ASSUME IInv, pc = "body",
                    NEW k \in DOMAIN bomrefs,
                    bomrefs[k].original # None,
                    Positions(bomrefs[k].ref) = {k},
                    \A j \in 1..(k - 1) : bomrefs[j].original # bomrefs[k].original
             PROVE  value[bomrefs[k].ref] = bomrefs[k].original
  BY DEF FirstHolderKept
<1>1. TypeOK /\ KeptSoFar /\ i = Len(bomrefs) + 1
  BY DEF IInv, Discriminating, InBody
<1>2. 1..(i - 1) = DOMAIN bomrefs
  BY <1>1, LenProperties, AllDone DEF TypeOK
<1>3. \A j \in DOMAIN bomrefs : bomrefs[j].ref = bomrefs[k].ref => j = k
  BY DEF Positions
<1> QED
  BY <1>1, <1>2, <1>3 DEF KeptSoFar

\* What the values are outside the block, as the snapshot has it.
LEMMA BeforeFacts ==
  ASSUME IInv
  PROVE  /\ Before \in [Ref -> Val]
         /\ Listed \subseteq Ref
         /\ \A k \in DOMAIN bomrefs : Before[bomrefs[k].ref] = bomrefs[k].original
         /\ pc = "body" => \A r \in Ref \ Listed : value[r] = Before[r]
         /\ pc = "app" => bomrefs = <<>> /\ Before = value
<1>1. TypeOK /\ Consistent
  BY DEF IInv
<1>2. pc = "app" => bomrefs = <<>> /\ Before = value
  BY <1>1, NothingListed DEF IInv, InApp, Before, TypeOK
<1> QED
  BY <1>1, <1>2, PutBackFacts DEF TypeOK, Consistent, Before, Listed

\* While the body runs every listed object has a value of its own, for any
\* iterable, any clash of given values and any object listed twice
\* (output/__init__.py:155-162).
THEOREM BodyUnique == Spec => []UniqueInBody
BY InvUnique, InvHolds, PTL

\* While the body runs, the first holder of a given value still has it, if
\* the iterable names that object once (output/__init__.py:155-162).
THEOREM BodyKeepsFirstHolder == Spec => []FirstHolderKept
BY InvFirstHolder, InvHolds, PTL

-----------------------------------------------------------------------------
\* What a reader sees, the state variable `shown` of UniqueRefs.
Seen == IF pc = "body" THEN value ELSE Before

\* A loop iteration is a stuttering step of UniqueRefs.
LEMMA LoopStutters ==
  ASSUME IInv, TypeOK', Keep \/ Replace \/ Restore
  PROVE  pc # "body" /\ UNCHANGED <<Seen, pc, Before>>
<1>1. /\ i \in DOMAIN bomrefs /\ i' = i + 1 /\ bomrefs' = bomrefs /\ pc' = pc
      /\ pc # "body"
      /\ TypeOK /\ Consistent
  BY DEF Keep, Replace, Restore, IInv
<1>2. bomrefs[i].ref \in Ref
  BY <1>1, AtPosition
<1>3. \A r \in Ref \ {bomrefs[i].ref} : value'[r] = value[r]
  BY <1>1, <1>2 DEF Keep, Replace, Restore, TypeOK
<1>4. Before' = Before
  BY <1>1, <1>3, IterationKeeps
<1> QED
  BY <1>1, <1>4 DEF Seen

\* The loops and leaving keep the snapshot until it is dropped, and what it
\* would put back.
LEMMA LoopKeepsBefore ==
  ASSUME IInv, Loop \/ Exit
  PROVE  /\ Before' = Before
         /\ pc # "app"
         /\ pc' # "app" => bomrefs' = bomrefs
<1>1. TypeOK /\ TypeOK'
  BY LoopTypes DEF IInv
<1>2. CASE Keep \/ Replace \/ Restore
  BY <1>1, <1>2, LoopStutters DEF Keep, Replace, Restore
<1>3. CASE Entered \/ Exit
  BY <1>3 DEF Entered, Exit, Before
<1>4. CASE Exited
  BY <1>1, <1>4, ExitedStep DEF Exited
<1> QED
  BY <1>2, <1>3, <1>4 DEF Loop

\* The end of the first loop is UniqueRefs' Enter, for the listed objects
\* and, among them, those listed once.
LEMMA EnteredRefines ==
  ASSUME IInv, IInv', Entered
  PROVE  \E S \in SUBSET Ref : \E T \in SUBSET S : Abstract!Enter(S, T)
<1>1. /\ pc = "discriminate" /\ pc' = "body" /\ i \notin DOMAIN bomrefs
      /\ UNCHANGED <<value, bomrefs, i, known>>
  BY DEF Entered
<1>2. /\ TypeOK /\ Consistent /\ Ahead /\ Distinct /\ KeptSoFar
      /\ 1..(i - 1) = DOMAIN bomrefs /\ Done = Listed
  BY <1>1, AllDone DEF IInv, Discriminating
<1>3. /\ Before \in [Ref -> Val] /\ Listed \subseteq Ref
      /\ \A k \in DOMAIN bomrefs : Before[bomrefs[k].ref] = bomrefs[k].original
      /\ \A r \in Ref \ Listed : Before[r] = value[r]
  BY <1>2, PutBackFacts DEF TypeOK, Consistent, Before, Listed
<1>4. Before' = Before
  BY <1>1 DEF Before
<1>5. \A r \in Listed : value[r] # None
  BY <1>2, StrAssumption DEF Distinct, TypeOK, Str
<1>6. \A r, q \in Listed : value[r] = value[q] => r = q
  BY <1>2 DEF Distinct
<1>7. ASSUME NEW r \in ListedOnce, Before[r] # None,
             \A q \in Listed \ {r} : Before[q] # Before[r]
      PROVE  value[r] = Before[r]
  <2>1. PICK k \in DOMAIN bomrefs : Positions(r) = {k}
    BY DEF ListedOnce
  <2>2. bomrefs[k].ref = r /\ Before[r] = bomrefs[k].original
    BY <1>3, <2>1 DEF Positions
  <2>3. \A j \in 1..(i - 1) : bomrefs[j].ref = bomrefs[k].ref => j = k
    BY <1>2, <2>1, <2>2 DEF Positions
  <2>4. \A j \in 1..(k - 1) : bomrefs[j].original # bomrefs[k].original
    <3> SUFFICES ASSUME NEW j \in 1..(k - 1)
                 PROVE  bomrefs[j].original # bomrefs[k].original
      OBVIOUS
    <3>1. j \in DOMAIN bomrefs /\ j # k
      BY <1>2, LenProperties DEF TypeOK
    <3>2. bomrefs[j].ref \in Listed \ {r}
      BY <1>2, <2>2, <2>3, <3>1 DEF Listed, RefsOf
    <3> QED
      BY <1>3, <1>7, <2>2, <3>1, <3>2
  <2> QED
    BY <1>2, <1>7, <2>2, <2>3, <2>4 DEF KeptSoFar
<1>8. Abstract!Enter(Listed, ListedOnce)
  <2> DEFINE sh == IF pc = "body" THEN value ELSE Before
  <2>1. sh = Before /\ sh' = value /\ (pc = "body") = FALSE /\ (pc = "body")' = TRUE
    BY <1>1
  <2>2. value \in [Ref -> (Given \cup Random) \cup {None}]
    BY <1>2 DEF TypeOK, Val, Str
  <2>3. ASSUME NEW r \in (Ref \ Listed) \cup (ListedOnce \cap Abstract!Sound(Listed))
        PROVE  sh'[r] = sh[r]
    <3>1. CASE r \in Ref \ Listed
      BY <1>3, <2>1, <3>1
    <3>2. CASE r \in ListedOnce \cap Abstract!Sound(Listed)
      <4>1. Before[r] # None /\ \A q \in Listed \ {r} : Before[q] # Before[r]
        BY <2>1, <3>2 DEF Abstract!Sound
      <4> QED
        BY <1>7, <2>1, <3>2, <4>1
    <3> QED
      BY <3>1, <3>2
  <2>4. Listed' = Listed /\ ListedOnce' = ListedOnce
    BY <1>1 DEF Listed, ListedOnce, Positions
  <2> HIDE DEF sh
  <2> QED
    BY <1>1, <1>4, <1>5, <1>6, <2>1, <2>2, <2>3, <2>4 DEF Abstract!Enter, Abstract!Val, Str, sh
<1>9. ListedOnce \subseteq Listed
  BY DEF ListedOnce
<1> QED
  BY <1>3, <1>8, <1>9

\* Entering is a stuttering step of UniqueRefs.
LEMMA EnterStutters ==
  ASSUME IInv, TypeOK', NEW n \in Nat, NEW s \in [1..n -> Ref], Enter(s)
  PROVE  /\ pc # "body" /\ pc' # "body"
         /\ UNCHANGED <<Seen, Before>>
<1>1. pc = "app" /\ pc' = "discriminate" /\ Before' = value
  BY EnterStep DEF Enter
<1>2. Before = value
  BY <1>1, BeforeFacts
<1> QED
  BY <1>1, <1>2 DEF Seen

\* The loops and leaving are stuttering steps of UniqueRefs, or its Enter, or
\* its Exit.
LEMMA LoopRefines ==
  ASSUME IInv, IInv', Loop \/ Exit
  PROVE  [Abstract!Next]_(Abstract!vars)
<1>1. TypeOK /\ TypeOK'
  BY DEF IInv
<1>2. CASE Keep \/ Replace \/ Restore
  BY <1>1, <1>2, LoopStutters DEF Abstract!vars, Seen
<1>3. CASE Entered
  BY <1>3, EnteredRefines DEF Abstract!Next
<1>4. CASE Exit
  <2>1. pc = "body" /\ pc' = "reset" /\ Before' = Before
    BY <1>4 DEF Exit, Before
  <2>2. Abstract!Exit
    BY <2>1 DEF Abstract!Exit
  <2> QED
    BY <2>2 DEF Abstract!Next
<1>5. CASE Exited
  <2>1. pc = "reset" /\ pc' = "app" /\ Before' = Before
    BY <1>1, <1>5, ExitedStep DEF Exited
  <2> QED
    BY <2>1 DEF Abstract!vars
<1> QED
  BY <1>2, <1>3, <1>4, <1>5 DEF Loop

LEMMA InitRefines ==
  ASSUME Init
  PROVE  IInv /\ Before = value /\ Abstract!Init
<1>1. value \in [Ref -> Val] /\ bomrefs = <<>> /\ pc = "app"
  BY DEF Init, Val, Str
<1>2. Before = value
  BY <1>1, NothingListed DEF Before
<1>3. Abstract!Init
  BY <1>1, <1>2 DEF Abstract!Init, Abstract!Val, Val
<1> QED
  BY <1>2, <1>3, InvInit

\* BomRefDiscriminator implements UniqueRefs: whatever the iterable, the
\* body sees unique values and the application gets its own back.
THEOREM Implementation == Spec => ImplementsUniqueRefs
<1>1. Init => Abstract!Init
  BY InitRefines
<1>2. IInv /\ IInv' /\ [Next]_vars => [Abstract!Next]_(Abstract!vars)
  <2> SUFFICES ASSUME IInv, IInv', [Next]_vars
               PROVE  [Abstract!Next]_(Abstract!vars)
    OBVIOUS
  <2>1. TypeOK /\ TypeOK'
    BY DEF IInv
  <2>2. ASSUME NEW r \in Ref, NEW v \in Given \cup {None, Empty}, SetValue(r, v)
        PROVE  Abstract!Next
    <3>1. /\ pc = "app" /\ pc' = "app"
          /\ value' = [value EXCEPT ![r] = Normalised(v)]
          /\ bomrefs = <<>> /\ bomrefs' = <<>>
      BY <2>2 DEF SetValue, IInv, InApp
    <3>2. Before = value /\ Before' = value'
      BY <2>1, <3>1, NothingListed DEF Before, TypeOK
    <3>3. Normalised(v) \in Abstract!Val
      BY DEF Normalised, Abstract!Val, Str
    <3>4. Abstract!Assign(r, Normalised(v))
      BY <3>1, <3>2 DEF Abstract!Assign
    <3> QED
      BY <3>3, <3>4 DEF Abstract!Next
  <2>3. ASSUME NEW s \in Iterables, Enter(s)
        PROVE  UNCHANGED Abstract!vars
    BY <2>1, <2>3, FiniteIterables, EnterStutters DEF Abstract!vars, Seen
  <2>4. CASE Loop \/ Exit
    BY <2>4, LoopRefines
  <2>5. CASE UNCHANGED vars
    BY <2>5 DEF vars, Abstract!vars, Before, Listed, ListedOnce, Positions
  <2> QED
    BY <2>2, <2>3, <2>4, <2>5 DEF Next
<1> QED
  BY <1>1, <1>2, InvHolds, PTL DEF Spec, ImplementsUniqueRefs, Abstract!Spec
=============================================================================
