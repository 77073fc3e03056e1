----------------------- MODULE OverlappingBlocksProofs -----------------------
(***************************************************************************)
(* What TLAPS proves of OverlappingBlocks for every number of threads and  *)
(* BomRefs, whatever values they begin with and in whatever orders, and    *)
(* how often, they are listed.                                             *)
(***************************************************************************)
EXTENDS OverlappingBlocks, SequenceTheorems, TLAPS

-----------------------------------------------------------------------------
\* Where the loops of a thread are, and what they have left.
Loops(t) ==
  /\ pc[t] # "out" => listing[t] \in Listings
  /\ pc[t] = "out" => taken[t] = <<>>
  /\ pc[t] \in {"out", "snapshot"} => met[t] = {} /\ known[t] = {}
  /\ pc[t] = "snapshot" => Len(taken[t]) = i[t] - 1 /\ i[t] <= Len(listing[t]) + 1
  /\ pc[t] \in {"read", "decide", "body", "reset"} => Len(taken[t]) = Len(listing[t])
  /\ pc[t] = "decide" => i[t] <= Len(listing[t])
  /\ pc[t] = "body" => i[t] > Len(listing[t])

\* Blocks begin in bodies that still run.
Bodies == \A u \in Thread : \A t \in within[u] : pc[t] = "body"

\* What t, in its block, has met: no None, strings that it knows or that were
\* drawn, none of two BomRefs, and what the BomRefs it has decided on hold.
Meets(t) ==
  /\ \A p \in met[t] : p[2] # None /\ (p[2] \in known[t] \/ p[2] \in Draws[p[1]])
  /\ \A p, q \in met[t] : p[2] = q[2] => p[1] = q[1]
  /\ \A r \in Decided(t) : <<r, value[r]>> \in met[t]

\* A value that is no longer what t has read was drawn for its BomRef.
Reads(t) == \A r \in Ref : pc[t] = "decide" /\ Turn(t, r) =>
                             value[r] = seen[t] \/ value[r] \in Draws[r]

\* The blocks that began in t's body put back what t has met.
Takes(t) == \A u \in Thread : t \in within[u] =>
              \A k \in DOMAIN taken[u] : <<listing[u][k], taken[u][k]>> \in met[t]

Sound == \A t \in Thread :
           InBlock(t) /\ t \notin disturbed => Meets(t) /\ Reads(t) /\ Takes(t)

\* What the block around all others has taken, has not yet disturbed, and has
\* already put back.
Around(t) ==
  /\ pc[t] = "out" => AllOut /\ value = before
  /\ pc[t] = "snapshot" => value = before
  /\ \A k \in DOMAIN taken[t] : taken[t][k] = before[listing[t][k]]
  /\ pc[t] = "reset" =>
       /\ \A u \in Thread \ {t} : pc[u] = "out"
       /\ \A k \in 1..(i[t] - 1) : value[listing[t][k]] = before[listing[t][k]]

Nests == /\ outer = None => AllOut /\ value = before
         /\ nested /\ outer # None => Around(outer)

Progress == \A t \in Thread : Loops(t)

IInv == TypeOK /\ Progress /\ Bodies /\ Sound /\ Nests

-----------------------------------------------------------------------------
LEMMA Values == \A r \in Ref : Val(r) \subseteq AnyVal
BY DEF AnyVal

\* A listing has BomRefs, and every one of them.
LEMMA ListingFacts ==
  ASSUME NEW s \in Listings
  PROVE  /\ s \in Seq(Ref) /\ Len(s) \in Nat /\ DOMAIN s = 1..Len(s)
         /\ \A k \in 1..Len(s) : s[k] \in Ref
         /\ Ref = {s[k] : k \in 1..Len(s)}
<1>1. s \in Seq(Ref) /\ \A r \in Ref : \E k \in 1..Len(s) : s[k] = r
  BY ListingAssumption
<1>2. Len(s) \in Nat /\ DOMAIN s = 1..Len(s) /\ \A k \in 1..Len(s) : s[k] \in Ref
  BY <1>1, LenProperties, ElementOfSeq
<1> QED
  BY <1>1, <1>2

LEMMA InitOK == Init => IInv
<1> SUFFICES ASSUME Init PROVE IInv
  OBVIOUS
<1> USE DEF Init
<1>1. Given \cup {None} \subseteq AnyVal \/ Ref = {}
  BY DEF AnyVal, Val
<1>2. value \in [Ref -> AnyVal] /\ before \in [Ref -> AnyVal]
  BY <1>1
<1>3. \A r \in Ref : value[r] \in Val(r) /\ before[r] \in Val(r)
  BY DEF Val
<1>4. <<>> \in Seq(AnyVal) /\ DOMAIN <<>> = {} /\ Len(<<>>) = 0
  BY EmptySeq
<1>5. /\ pc \in [Thread -> {"out", "snapshot", "read", "decide", "body", "reset"}]
      /\ i \in [Thread -> Nat \ {0}]
      /\ listing \in [Thread -> Listings \cup {<<>>}]
      /\ seen \in [Thread -> AnyVal \cup {None}]
      /\ outer \in Thread \cup {None}
      /\ nested \in BOOLEAN
      /\ disturbed \in SUBSET Thread
  OBVIOUS
<1>6. /\ taken \in [Thread -> Seq(AnyVal)]
      /\ known \in [Thread -> SUBSET AnyVal]
      /\ within \in [Thread -> SUBSET Thread]
      /\ met \in [Thread -> SUBSET (Ref \X AnyVal)]
  BY <1>4
<1>7. \A t \in Thread :
       /\ \A k \in DOMAIN taken[t] : taken[t][k] \in Val(listing[t][k])
       /\ \A p \in met[t] : p[2] \in Val(p[1])
       /\ pc[t] = "decide" => seen[t] \in Val(listing[t][i[t]])
  BY <1>4
<1>8. TypeOK
  BY <1>2, <1>3, <1>5, <1>6, <1>7 DEF TypeOK
<1>9. Progress
  BY DEF Progress, Loops
<1>10. Bodies /\ Sound
  BY DEF Bodies, Sound, InBlock
<1>11. Nests
  BY DEF Nests, AllOut
<1> QED
  BY <1>8, <1>9, <1>10, <1>11 DEF IInv

-----------------------------------------------------------------------------
\* Typing, and where the loops are.

\* A thread at its turn: the place in its listing, which is one of Listings.
LEMMA TurnFacts ==
  ASSUME TypeOK, Progress, NEW t \in Thread, NEW r \in Ref, pc[t] # "out", Turn(t, r)
  PROVE  /\ listing[t] \in Listings /\ Len(listing[t]) \in Nat
         /\ i[t] \in Nat \ {0} /\ i[t] <= Len(listing[t]) /\ r = listing[t][i[t]]
<1>1. listing[t] \in Listings /\ i[t] \in Nat \ {0}
  BY DEF Progress, Loops, TypeOK
<1>2. Len(listing[t]) \in Nat
  BY <1>1, ListingFacts
<1> QED
  BY <1>1, <1>2 DEF Turn

\* Threads that are out or take their snapshot have decided on nothing.
LEMMA NotInBlock ==
  ASSUME NEW u \in Thread, ~InBlock(u)
  PROVE  Decided(u) = {}
BY DEF Decided

\* A value that is written, and what threads meet by it, have their types.
LEMMA WriteTypes ==
  ASSUME TypeOK, NEW t \in Thread, NEW r \in Ref, NEW v \in Val(r),
         NEW m, m \subseteq {<<r, v>>},
         value' = [value EXCEPT ![r] = v], met' = Met(t, r, v, m)
  PROVE  /\ value' \in [Ref -> AnyVal]
         /\ \A q \in Ref : value'[q] \in Val(q)
         /\ met' \in [Thread -> SUBSET (Ref \X AnyVal)]
         /\ \A u \in Thread : \A p \in met'[u] : p[2] \in Val(p[1])
         /\ \A u \in Thread : u # t /\ ~InBlock(u) => met'[u] = met[u]
         /\ value'[r] = v
         /\ \A q \in Ref \ {r} : value'[q] = value[q]
<1>1. v \in AnyVal
  BY Values
<1>2. value \in [Ref -> AnyVal] /\ \A q \in Ref : value[q] \in Val(q)
  BY DEF TypeOK
<1>3. met \in [Thread -> SUBSET (Ref \X AnyVal)]
      /\ \A u \in Thread : \A p \in met[u] : p[2] \in Val(p[1])
  BY DEF TypeOK
<1>4. \A u \in Thread : met'[u] = met[u] \/ met'[u] = met[u] \cup {<<r, v>>}
                        \/ met'[u] = met[u] \cup m
  BY DEF Met
<1>5. \A u \in Thread : met'[u] \subseteq met[u] \cup {<<r, v>>}
  BY <1>4
<1>6. <<r, v>> \in Ref \X AnyVal
  BY <1>1
<1>7. met' = [u \in Thread |-> met'[u]]
  BY DEF Met
<1>8. met' \in [Thread -> SUBSET (Ref \X AnyVal)]
  BY <1>3, <1>5, <1>6, <1>7
<1>9. \A u \in Thread : \A p \in met'[u] : p[2] \in Val(p[1])
  BY <1>3, <1>5
<1>10. \A u \in Thread : u # t /\ ~InBlock(u) => met'[u] = met[u]
  BY NotInBlock DEF Met
<1> QED
  BY <1>1, <1>2, <1>8, <1>9, <1>10

\* Drawn strings are values.
LEMMA DrawTypes == \A r \in Ref : Draws[r] \subseteq Val(r)
BY DEF Val

LEMMA BeginTypes ==
  ASSUME TypeOK, Progress, NEW t \in Thread, NEW s \in Listings, Begin(t, s)
  PROVE  TypeOK' /\ Progress'
<1> USE DEF Begin
<1>1. pc[t] = "out" /\ taken[t] = <<>> /\ met[t] = {} /\ known[t] = {}
  BY DEF Progress, Loops
<1>2. /\ pc' \in [Thread -> {"out", "snapshot", "read", "decide", "body", "reset"}]
      /\ listing' \in [Thread -> Listings \cup {<<>>}]
      /\ i' \in [Thread -> Nat \ {0}]
      /\ within' \in [Thread -> SUBSET Thread]
      /\ outer' \in Thread \cup {None}
  BY DEF TypeOK
<1>3. nested' \in BOOLEAN /\ before' \in [Ref -> AnyVal] /\ \A r \in Ref : before'[r] \in Val(r)
  <2>1. CASE AllOut
    BY <2>1 DEF TypeOK
  <2>2. CASE ~AllOut
    <3>1. nested' = (nested /\ pc[outer] # "reset") /\ before' = before
      BY <2>2
    <3> QED
      BY <3>1 DEF TypeOK
  <2> QED
    BY <2>1, <2>2
<1>4. /\ pc'[t] = "snapshot" /\ listing'[t] = s /\ i'[t] = 1
      /\ \A u \in Thread \ {t} : pc'[u] = pc[u] /\ listing'[u] = listing[u] /\ i'[u] = i[u]
  BY DEF TypeOK
<1>5. /\ DOMAIN taken[t] = {} /\ Len(taken[t]) = 0 /\ Len(s) \in Nat
  BY <1>1, EmptySeq, ListingFacts
<1>6. \A u \in Thread :
       /\ \A k \in DOMAIN taken[u] : taken[u][k] \in Val(listing'[u][k])
       /\ \A p \in met[u] : p[2] \in Val(p[1])
       /\ pc'[u] = "decide" => seen[u] \in Val(listing'[u][i'[u]])
  BY <1>4, <1>5 DEF TypeOK
<1>7. TypeOK'
  BY <1>2, <1>3, <1>6 DEF TypeOK
<1>8. ASSUME NEW u \in Thread PROVE Loops(u)'
  <2>1. Loops(u)
    BY DEF Progress
  <2> QED
    BY <1>1, <1>4, <1>5, <2>1 DEF Loops
<1> QED
  BY <1>7, <1>8 DEF Progress

LEMMA TakeTypes ==
  ASSUME TypeOK, Progress, NEW t \in Thread, NEW r \in Ref, Take(t, r)
  PROVE  /\ TypeOK' /\ Progress'
         /\ i[t] = Len(taken[t]) + 1 /\ taken'[t] = Append(taken[t], value[r])
         /\ DOMAIN taken'[t] = DOMAIN taken[t] \cup {i[t]} /\ i[t] \notin DOMAIN taken[t]
         /\ \A k \in DOMAIN taken[t] : taken'[t][k] = taken[t][k]
         /\ taken'[t][i[t]] = value[r] /\ r = listing[t][i[t]]
         /\ \A u \in Thread \ {t} : taken'[u] = taken[u]
<1> USE DEF Take, histories
<1>1. /\ i[t] \in Nat \ {0} /\ Len(listing[t]) \in Nat
      /\ i[t] <= Len(listing[t]) /\ r = listing[t][i[t]]
  BY TurnFacts
<1>2. /\ value[r] \in AnyVal /\ value[r] \in Val(r) /\ taken[t] \in Seq(AnyVal)
      /\ Len(taken[t]) = i[t] - 1
  BY DEF TypeOK, Progress, Loops
<1>3. /\ taken'[t] = Append(taken[t], value[r]) /\ i'[t] = i[t] + 1
      /\ \A u \in Thread \ {t} : taken'[u] = taken[u] /\ i'[u] = i[u]
  BY DEF TypeOK
<1>4. /\ Append(taken[t], value[r]) \in Seq(AnyVal)
      /\ Len(taken'[t]) = Len(taken[t]) + 1
      /\ \A k \in 1..Len(taken[t]) : taken'[t][k] = taken[t][k]
      /\ taken'[t][Len(taken[t]) + 1] = value[r]
      /\ DOMAIN taken[t] = 1..Len(taken[t]) /\ DOMAIN taken'[t] = 1..(Len(taken[t]) + 1)
  BY <1>2, <1>3, AppendProperties, LenProperties
<1>5. i[t] = Len(taken[t]) + 1 /\ Len(taken[t]) \in Nat
  BY <1>1, <1>2
<1>6. /\ DOMAIN taken'[t] = DOMAIN taken[t] \cup {i[t]} /\ i[t] \notin DOMAIN taken[t]
      /\ \A k \in DOMAIN taken[t] : taken'[t][k] = taken[t][k]
      /\ taken'[t][i[t]] = value[r]
  BY <1>4, <1>5
<1>7. taken' \in [Thread -> Seq(AnyVal)] /\ i' \in [Thread -> Nat \ {0}]
  BY <1>1, <1>4 DEF TypeOK
<1>8. ASSUME NEW u \in Thread
      PROVE  /\ \A k \in DOMAIN taken'[u] : taken'[u][k] \in Val(listing[u][k])
             /\ \A p \in met[u] : p[2] \in Val(p[1])
             /\ pc[u] = "decide" => seen[u] \in Val(listing[u][i'[u]])
  BY <1>1, <1>2, <1>3, <1>6 DEF TypeOK
<1>9. TypeOK'
  BY <1>7, <1>8 DEF TypeOK
<1>10. ASSUME NEW u \in Thread PROVE Loops(u)'
  <2>1. Loops(u)
    BY DEF Progress
  <2> QED
    BY <1>1, <1>3, <1>4, <1>5, <2>1 DEF Loops
<1> QED
  BY <1>1, <1>3, <1>6, <1>9, <1>10 DEF Progress

LEMMA EnterTypes ==
  ASSUME TypeOK, Progress, NEW t \in Thread, Enter(t)
  PROVE  TypeOK' /\ Progress'
<1> USE DEF Enter, threads, histories
<1>1. /\ pc'[t] = "read" /\ i'[t] = 1
      /\ \A u \in Thread \ {t} : pc'[u] = pc[u] /\ i'[u] = i[u]
  BY DEF TypeOK
<1>2. listing[t] \in Listings
  BY DEF Progress, Loops
<1>3. i[t] \in Nat \ {0} /\ Len(listing[t]) \in Nat
  BY <1>2, ListingFacts DEF TypeOK
<1>4. TypeOK'
  BY <1>1 DEF TypeOK
<1>5. ASSUME NEW u \in Thread PROVE Loops(u)'
  <2>1. Loops(u)
    BY DEF Progress
  <2> QED
    BY <1>1, <1>3, <2>1 DEF Loops, Over
<1> QED
  BY <1>4, <1>5 DEF Progress

LEMMA LookTypes ==
  ASSUME TypeOK, Progress, NEW t \in Thread, NEW r \in Ref, Look(t, r)
  PROVE  TypeOK' /\ Progress'
<1> USE DEF Look, histories
<1>1. /\ pc'[t] = "decide" /\ seen'[t] = value[r]
      /\ \A u \in Thread \ {t} : pc'[u] = pc[u] /\ seen'[u] = seen[u]
  BY DEF TypeOK
<1>2. i[t] <= Len(listing[t]) /\ r = listing[t][i[t]]
  BY TurnFacts
<1>3. value[r] \in AnyVal /\ value[r] \in Val(r)
  BY DEF TypeOK
<1>4. seen' \in [Thread -> AnyVal \cup {None}]
      /\ \A u \in Thread : pc'[u] = "decide" => seen'[u] \in Val(listing[u][i[u]])
  BY <1>1, <1>2, <1>3 DEF TypeOK
<1>5. TypeOK'
  BY <1>4 DEF TypeOK
<1>6. ASSUME NEW u \in Thread PROVE Loops(u)'
  <2>1. Loops(u)
    BY DEF Progress
  <2> QED
    BY <1>1, <1>2, <2>1 DEF Loops
<1> QED
  BY <1>5, <1>6 DEF Progress

LEMMA KeepTypes ==
  ASSUME TypeOK, Progress, NEW t \in Thread, NEW r \in Ref, Keep(t, r)
  PROVE  TypeOK' /\ Progress'
<1> USE DEF Keep
<1>1. /\ i[t] \in Nat \ {0} /\ i[t] <= Len(listing[t]) /\ r = listing[t][i[t]]
  BY TurnFacts
<1>2. /\ pc'[t] = "read" /\ i'[t] = i[t] + 1 /\ seen'[t] = None
      /\ known'[t] = known[t] \cup {seen[t]}
      /\ met'[t] = met[t] \cup {<<r, seen[t]>>, <<r, value[r]>>}
      /\ \A u \in Thread \ {t} :
           /\ pc'[u] = pc[u] /\ i'[u] = i[u] /\ seen'[u] = seen[u]
           /\ known'[u] = known[u] /\ met'[u] = met[u]
  BY DEF TypeOK
<1>3. seen[t] \in Val(r) /\ value[r] \in Val(r) /\ seen[t] \in AnyVal /\ value[r] \in AnyVal
  BY <1>1, Values DEF TypeOK
<1>4. /\ known' \in [Thread -> SUBSET AnyVal]
      /\ met' \in [Thread -> SUBSET (Ref \X AnyVal)]
      /\ i' \in [Thread -> Nat \ {0}] /\ seen' \in [Thread -> AnyVal \cup {None}]
      /\ pc' \in [Thread -> {"out", "snapshot", "read", "decide", "body", "reset"}]
  BY <1>1, <1>3 DEF TypeOK
<1>5. ASSUME NEW u \in Thread
      PROVE  /\ \A k \in DOMAIN taken[u] : taken[u][k] \in Val(listing[u][k])
             /\ \A p \in met'[u] : p[2] \in Val(p[1])
             /\ pc'[u] = "decide" => seen'[u] \in Val(listing[u][i'[u]])
  BY <1>2, <1>3 DEF TypeOK
<1>6. TypeOK'
  BY <1>4, <1>5 DEF TypeOK
<1>7. ASSUME NEW u \in Thread PROVE Loops(u)'
  <2>1. Loops(u)
    BY DEF Progress
  <2> QED
    BY <1>2, <2>1 DEF Loops
<1> QED
  BY <1>6, <1>7 DEF Progress

LEMMA ReplaceTypes ==
  ASSUME TypeOK, Progress, NEW t \in Thread, NEW r \in Ref, Replace(t, r)
  PROVE  /\ TypeOK' /\ Progress'
         /\ value'[r] \in Draws[r] /\ met' = Met(t, r, value'[r], {<<r, value'[r]>>})
         /\ known' = [known EXCEPT ![t] = @ \cup {value'[r]}]
         /\ \A q \in Ref \ {r} : value'[q] = value[q]
<1>1. PICK d \in Draws[r] :
        /\ value' = [value EXCEPT ![r] = d]
        /\ known' = [known EXCEPT ![t] = @ \cup {d}]
        /\ met' = Met(t, r, d, {<<r, d>>})
  BY DEF Replace
<1>2. /\ pc[t] = "decide" /\ Turn(t, r)
      /\ pc' = [pc EXCEPT ![t] = "read"] /\ i' = [i EXCEPT ![t] = @ + 1]
      /\ seen' = [seen EXCEPT ![t] = None] /\ nested' = WritesNested(t)
      /\ UNCHANGED <<listing, taken, before, outer, within, disturbed>>
  BY DEF Replace
<1>3. d \in Val(r) /\ d \in AnyVal
  BY DrawTypes, Values
<1>4. /\ value' \in [Ref -> AnyVal]
      /\ \A q \in Ref : value'[q] \in Val(q)
      /\ met' \in [Thread -> SUBSET (Ref \X AnyVal)]
      /\ \A u \in Thread : \A p \in met'[u] : p[2] \in Val(p[1])
      /\ \A u \in Thread : u # t /\ ~InBlock(u) => met'[u] = met[u]
      /\ value'[r] = d
      /\ \A q \in Ref \ {r} : value'[q] = value[q]
  BY <1>1, <1>3, WriteTypes
<1>5. i[t] \in Nat \ {0} /\ i[t] <= Len(listing[t])
  BY <1>2, TurnFacts
<1>6. /\ pc'[t] = "read"
      /\ \A u \in Thread \ {t} : /\ pc'[u] = pc[u] /\ i'[u] = i[u]
                                 /\ seen'[u] = seen[u] /\ known'[u] = known[u]
  BY <1>1, <1>2 DEF TypeOK
<1>7. /\ known' \in [Thread -> SUBSET AnyVal]
      /\ i' \in [Thread -> Nat \ {0}] /\ seen' \in [Thread -> AnyVal \cup {None}]
      /\ pc' \in [Thread -> {"out", "snapshot", "read", "decide", "body", "reset"}]
  BY <1>1, <1>2, <1>3, <1>5 DEF TypeOK
<1>8. nested' \in BOOLEAN
  BY <1>2 DEF WritesNested
<1>9. ASSUME NEW u \in Thread
      PROVE  /\ \A k \in DOMAIN taken[u] : taken[u][k] \in Val(listing[u][k])
             /\ pc'[u] = "decide" => seen'[u] \in Val(listing[u][i'[u]])
  BY <1>6 DEF TypeOK
<1>10. TypeOK'
  BY <1>2, <1>4, <1>7, <1>8, <1>9 DEF TypeOK
<1>11. ASSUME NEW u \in Thread PROVE Loops(u)'
  <2>1. Loops(u)
    BY DEF Progress
  <2> QED
    BY <1>2, <1>4, <1>6, <2>1 DEF Loops, InBlock
<1> QED
  BY <1>1, <1>4, <1>10, <1>11 DEF Progress

LEMMA EnteredTypes ==
  ASSUME TypeOK, Progress, NEW t \in Thread, Entered(t)
  PROVE  TypeOK' /\ Progress'
<1> USE DEF Entered, threads, histories
<1>1. pc'[t] = "body" /\ \A u \in Thread \ {t} : pc'[u] = pc[u]
  BY DEF TypeOK
<1>2. TypeOK'
  BY <1>1 DEF TypeOK
<1>3. ASSUME NEW u \in Thread PROVE Loops(u)'
  <2>1. Loops(u)
    BY DEF Progress
  <2> QED
    BY <1>1, <2>1 DEF Loops, Over
<1> QED
  BY <1>2, <1>3 DEF Progress

LEMMA ExitTypes ==
  ASSUME TypeOK, Progress, NEW t \in Thread, Exit(t)
  PROVE  TypeOK' /\ Progress'
<1> USE DEF Exit, threads
<1>1. /\ pc'[t] = "reset" /\ i'[t] = 1
      /\ \A u \in Thread \ {t} : pc'[u] = pc[u] /\ i'[u] = i[u]
  BY DEF TypeOK
<1>2. /\ pc' \in [Thread -> {"out", "snapshot", "read", "decide", "body", "reset"}]
      /\ i' \in [Thread -> Nat \ {0}]
      /\ within' \in [Thread -> SUBSET Thread]
  BY DEF TypeOK
<1>3. nested' \in BOOLEAN
  <2>1. nested' = (nested /\ (t = outer => \A u \in Thread \ {t} : pc[u] = "out"))
    OBVIOUS
  <2> QED
    BY <2>1
<1>4. \A u \in Thread : pc'[u] = "decide" => seen[u] \in Val(listing[u][i'[u]])
  BY <1>1 DEF TypeOK
<1>5. TypeOK'
  BY <1>2, <1>3, <1>4 DEF TypeOK
<1>6. ASSUME NEW u \in Thread PROVE Loops(u)'
  <2>1. Loops(u)
    BY DEF Progress
  <2> QED
    BY <1>1, <2>1 DEF Loops
<1> QED
  BY <1>5, <1>6 DEF Progress

LEMMA RestoreTypes ==
  ASSUME TypeOK, Progress, NEW t \in Thread, NEW r \in Ref, Restore(t, r)
  PROVE  /\ TypeOK' /\ Progress'
         /\ i[t] \in DOMAIN taken[t] /\ r = listing[t][i[t]]
         /\ value'[r] = taken[t][i[t]] /\ met' = Met(t, r, taken[t][i[t]], {})
         /\ \A q \in Ref \ {r} : value'[q] = value[q]
<1>1. /\ pc[t] = "reset" /\ Turn(t, r)
      /\ value' = [value EXCEPT ![r] = taken[t][i[t]]]
      /\ met' = Met(t, r, taken[t][i[t]], {})
      /\ i' = [i EXCEPT ![t] = @ + 1]
      /\ disturbed' = disturbed \cup Disturbing(t, r)
      /\ nested' = WritesNested(t)
      /\ UNCHANGED <<pc, listing, taken, known, seen, before, outer, within>>
  BY DEF Restore, threads
<1>2. i[t] \in Nat \ {0} /\ i[t] <= Len(listing[t]) /\ r = listing[t][i[t]]
  BY <1>1, TurnFacts
<1>3. taken[t] \in Seq(AnyVal) /\ Len(taken[t]) = Len(listing[t])
  BY <1>1 DEF TypeOK, Progress, Loops
<1>4. i[t] \in DOMAIN taken[t]
  BY <1>2, <1>3, LenProperties
<1>5. PICK v \in Val(r) : v = taken[t][i[t]]
  BY <1>2, <1>4 DEF TypeOK
<1>6. /\ value' \in [Ref -> AnyVal]
      /\ \A q \in Ref : value'[q] \in Val(q)
      /\ met' \in [Thread -> SUBSET (Ref \X AnyVal)]
      /\ \A u \in Thread : \A p \in met'[u] : p[2] \in Val(p[1])
      /\ \A u \in Thread : u # t /\ ~InBlock(u) => met'[u] = met[u]
      /\ value'[r] = v
      /\ \A q \in Ref \ {r} : value'[q] = value[q]
  <2>1. PICK m : m = {}
    OBVIOUS
  <2>2. m \subseteq {<<r, v>>} /\ value' = [value EXCEPT ![r] = v] /\ met' = Met(t, r, v, m)
    BY <1>1, <1>5, <2>1
  <2> QED
    BY <2>2, WriteTypes
<1>7. i' \in [Thread -> Nat \ {0}] /\ \A u \in Thread \ {t} : i'[u] = i[u]
  BY <1>1, <1>2 DEF TypeOK
<1>8. nested' \in BOOLEAN /\ disturbed' \in SUBSET Thread
  BY <1>1 DEF WritesNested, Disturbing, TypeOK
<1>9. ASSUME NEW u \in Thread, pc[u] = "decide"
      PROVE  seen[u] \in Val(listing[u][i'[u]])
  BY <1>1, <1>7, <1>9 DEF TypeOK
<1>10. TypeOK'
  BY <1>1, <1>6, <1>7, <1>8, <1>9 DEF TypeOK
<1>11. ASSUME NEW u \in Thread PROVE Loops(u)'
  <2>1. Loops(u)
    BY DEF Progress
  <2> QED
    BY <1>1, <1>6, <1>7, <2>1 DEF Loops, InBlock
<1> QED
  BY <1>1, <1>2, <1>4, <1>5, <1>6, <1>10, <1>11 DEF Progress

LEMMA ExitedTypes ==
  ASSUME TypeOK, Progress, NEW t \in Thread, Exited(t)
  PROVE  TypeOK' /\ Progress'
<1> USE DEF Exited
<1>1. /\ pc'[t] = "out" /\ taken'[t] = <<>> /\ known'[t] = {} /\ met'[t] = {}
      /\ \A u \in Thread \ {t} :
           /\ pc'[u] = pc[u] /\ i'[u] = i[u] /\ listing'[u] = listing[u]
           /\ taken'[u] = taken[u] /\ known'[u] = known[u] /\ met'[u] = met[u]
  BY DEF TypeOK
<1>2. <<>> \in Seq(AnyVal) /\ DOMAIN <<>> = {}
  BY EmptySeq
<1>3. /\ pc' \in [Thread -> {"out", "snapshot", "read", "decide", "body", "reset"}]
      /\ i' \in [Thread -> Nat \ {0}]
      /\ listing' \in [Thread -> Listings \cup {<<>>}]
      /\ taken' \in [Thread -> Seq(AnyVal)]
      /\ known' \in [Thread -> SUBSET AnyVal]
      /\ met' \in [Thread -> SUBSET (Ref \X AnyVal)]
      /\ within' \in [Thread -> SUBSET Thread]
      /\ disturbed' \in SUBSET Thread
  BY <1>2 DEF TypeOK
<1>4. ASSUME NEW u \in Thread
      PROVE  /\ \A k \in DOMAIN taken'[u] : taken'[u][k] \in Val(listing'[u][k])
             /\ \A p \in met'[u] : p[2] \in Val(p[1])
             /\ pc'[u] = "decide" => seen[u] \in Val(listing'[u][i'[u]])
  BY <1>1, <1>2 DEF TypeOK
<1>5. TypeOK'
  BY <1>3, <1>4 DEF TypeOK
<1>6. ASSUME NEW u \in Thread PROVE Loops(u)'
  <2>1. Loops(u)
    BY DEF Progress
  <2> QED
    BY <1>1, <2>1 DEF Loops
<1> QED
  BY <1>5, <1>6 DEF Progress

LEMMA StutterTypes == TypeOK /\ Progress /\ UNCHANGED vars => TypeOK' /\ Progress'
<1> SUFFICES ASSUME TypeOK, Progress, UNCHANGED vars PROVE TypeOK' /\ Progress'
  OBVIOUS
<1> USE DEF vars, threads, histories
<1>1. TypeOK'
  BY DEF TypeOK
<1>2. ASSUME NEW u \in Thread PROVE Loops(u)'
  <2>1. Loops(u)
    BY DEF Progress
  <2> QED
    BY <2>1 DEF Loops
<1> QED
  BY <1>1, <1>2 DEF Progress

LEMMA NextTypes == TypeOK /\ Progress /\ [Next]_vars => TypeOK' /\ Progress'
<1> SUFFICES ASSUME TypeOK, Progress, [Next]_vars PROVE TypeOK' /\ Progress'
  OBVIOUS
<1>1. ASSUME NEW t \in Thread, Step(t) PROVE TypeOK' /\ Progress'
  <2>1. ASSUME NEW s \in Listings, Begin(t, s) PROVE TypeOK' /\ Progress'
    BY <2>1, BeginTypes
  <2>2. ASSUME NEW r \in Ref, Take(t, r) \/ Look(t, r) \/ Keep(t, r) PROVE TypeOK' /\ Progress'
    BY <2>2, TakeTypes, LookTypes, KeepTypes
  <2>3. ASSUME NEW r \in Ref, Replace(t, r) \/ Restore(t, r) PROVE TypeOK' /\ Progress'
    BY <2>3, ReplaceTypes, RestoreTypes
  <2>4. CASE Enter(t) \/ Entered(t) \/ Exit(t) \/ Exited(t)
    BY <2>4, EnterTypes, EnteredTypes, ExitTypes, ExitedTypes
  <2> QED
    BY <1>1, <2>1, <2>2, <2>3, <2>4 DEF Step
<1> QED
  BY <1>1, StutterTypes DEF Next

-----------------------------------------------------------------------------
\* What a thread in its block meets.

\* A string that was drawn for a BomRef is a value of no other.
LEMMA DrawnFor ==
  ASSUME NEW r \in Ref, NEW q \in Ref, NEW d \in Draws[r], d \in Val(q)
  PROVE  q = r /\ d # None
BY DrawsAssumption DEF Val

\* In its body a thread has decided on every BomRef.
LEMMA DecidedOnAll ==
  ASSUME TypeOK, Progress, NEW u \in Thread, pc[u] = "body"
  PROVE  Ref \subseteq Decided(u)
<1>1. /\ listing[u] \in Listings /\ i[u] > Len(listing[u]) /\ i[u] \in Nat \ {0}
      /\ Len(taken[u]) = Len(listing[u])
  BY DEF Progress, Loops, TypeOK
<1>2. Len(listing[u]) \in Nat /\ Ref = {listing[u][k] : k \in 1..Len(listing[u])}
  BY <1>1, ListingFacts
<1> QED
  BY <1>1, <1>2 DEF Decided, InBlock

\* A thread meets nothing new where it does not move and no value is written.
LEMMA Unmoved ==
  ASSUME NEW u \in Thread, Sound, InBlock(u)', u \notin disturbed,
         pc'[u] = pc[u], i'[u] = i[u], listing'[u] = listing[u],
         known'[u] = known[u], seen'[u] = seen[u], met'[u] = met[u], value' = value
  PROVE  Meets(u)' /\ Reads(u)' /\ Meets(u) /\ Takes(u) /\ Decided(u)' = Decided(u)
<1>1. InBlock(u)
  BY DEF InBlock
<1>2. Meets(u) /\ Reads(u) /\ Takes(u)
  BY <1>1 DEF Sound
<1>3. Decided(u)' = Decided(u)
  BY DEF Decided, InBlock
<1>4. Meets(u)'
  BY <1>2, <1>3 DEF Meets
<1>5. Reads(u)'
  BY <1>2 DEF Reads, Turn
<1> QED
  BY <1>2, <1>3, <1>4, <1>5

\* A thread that decides on a BomRef is in no other's body.
LEMMA NotWithin ==
  ASSUME Bodies, NEW t \in Thread, pc[t] # "body", NEW u \in Thread
  PROVE  t \notin within[u]
BY DEF Bodies

LEMMA BeginSound ==
  ASSUME TypeOK, Progress, Bodies, Sound, NEW t \in Thread, NEW s \in Listings, Begin(t, s)
  PROVE  Bodies' /\ Sound'
<1> USE DEF Begin
<1>1. /\ pc'[t] = "snapshot" /\ within'[t] = {u \in Thread : pc[u] = "body"}
      /\ \A u \in Thread \ {t} : /\ pc'[u] = pc[u] /\ i'[u] = i[u] /\ listing'[u] = listing[u]
                                 /\ within'[u] = within[u]
      /\ UNCHANGED <<value, taken, known, seen, met, disturbed>> /\ pc[t] = "out"
  BY DEF TypeOK
<1>2. DOMAIN taken[t] = {}
  BY EmptySeq DEF Progress, Loops
<1>3. Bodies'
  BY <1>1 DEF Bodies
<1>4. ASSUME NEW u \in Thread, InBlock(u)', u \notin disturbed'
      PROVE  Meets(u)' /\ Reads(u)' /\ Takes(u)'
  <2>1. u # t
    BY <1>1, <1>4 DEF InBlock
  <2>2. Meets(u)' /\ Reads(u)' /\ Takes(u)
    BY <1>1, <1>4, <2>1, Unmoved
  <2>3. Takes(u)'
    BY <1>1, <1>2, <2>2 DEF Takes
  <2> QED
    BY <2>2, <2>3
<1> QED
  BY <1>3, <1>4 DEF Sound

LEMMA TakeSound ==
  ASSUME TypeOK, Progress, Bodies, Sound, NEW t \in Thread, NEW r \in Ref, Take(t, r)
  PROVE  Bodies' /\ Sound'
<1>1. /\ DOMAIN taken'[t] = DOMAIN taken[t] \cup {i[t]}
      /\ \A k \in DOMAIN taken[t] : taken'[t][k] = taken[t][k]
      /\ taken'[t][i[t]] = value[r] /\ r = listing[t][i[t]]
      /\ \A u \in Thread \ {t} : taken'[u] = taken[u]
  BY TakeTypes
<1>2. /\ \A u \in Thread \ {t} : i'[u] = i[u]
      /\ pc[t] = "snapshot"
      /\ UNCHANGED <<value, pc, listing, known, seen, within, met, disturbed>>
  BY DEF Take, histories, TypeOK
<1>3. Bodies'
  BY <1>2 DEF Bodies
<1>4. ASSUME NEW u \in Thread, InBlock(u)', u \notin disturbed'
      PROVE  Meets(u)' /\ Reads(u)' /\ Takes(u)'
  <2>1. u # t
    BY <1>2, <1>4 DEF InBlock
  <2>2. Meets(u)' /\ Reads(u)' /\ Meets(u) /\ Takes(u)
    BY <1>2, <1>4, <2>1, Unmoved
  <2>3. ASSUME u \in within[t] PROVE <<r, value[r]>> \in met[u]
    <3>1. pc[u] = "body"
      BY <2>3 DEF Bodies
    <3>2. r \in Decided(u)
      BY <3>1, DecidedOnAll
    <3> QED
      BY <2>2, <3>2 DEF Meets
  <2>4. ASSUME NEW w \in Thread, u \in within[w], NEW k \in DOMAIN taken'[w]
        PROVE  <<listing[w][k], taken'[w][k]>> \in met[u]
    <3>1. CASE w = t /\ k = i[t]
      BY <1>1, <2>3, <2>4, <3>1
    <3>2. CASE ~(w = t /\ k = i[t])
      <4>1. k \in DOMAIN taken[w] /\ taken'[w][k] = taken[w][k]
        BY <1>1, <2>4, <3>2
      <4> QED
        BY <2>2, <2>4, <4>1 DEF Takes
    <3> QED
      BY <3>1, <3>2
  <2>5. Takes(u)'
    BY <1>2, <2>4 DEF Takes
  <2> QED
    BY <2>2, <2>5
<1> QED
  BY <1>3, <1>4 DEF Sound

\* Steps of a thread's own that write no value and end outside its block.
LEMMA OwnSound ==
  ASSUME TypeOK, Progress, Bodies, Sound, NEW t \in Thread, Exit(t) \/ Exited(t)
  PROVE  Bodies' /\ Sound'
<1>1. /\ pc'[t] \in {"reset", "out"} /\ UNCHANGED value
      /\ \A u \in Thread \ {t} :
           /\ pc'[u] = pc[u] /\ i'[u] = i[u] /\ listing'[u] = listing[u]
           /\ taken'[u] = taken[u] /\ known'[u] = known[u] /\ seen'[u] = seen[u]
           /\ met'[u] = met[u] /\ within'[u] \subseteq within[u]
           /\ (u \notin disturbed' => u \notin disturbed)
      /\ t \notin within'[t]
  <2>1. CASE Exit(t)
    BY <2>1 DEF Exit, threads, TypeOK
  <2>2. CASE Exited(t)
    BY <2>2 DEF Exited, TypeOK
  <2> QED
    BY <2>1, <2>2
<1>2. ASSUME NEW u \in Thread PROVE t \notin within'[u]
  <2>1. CASE Exit(t)
    BY <2>1 DEF Exit
  <2>2. CASE Exited(t)
    <3>1. pc[t] # "body"
      BY <2>2 DEF Exited
    <3> QED
      BY <1>1, <3>1, NotWithin
  <2> QED
    BY <2>1, <2>2
<1>3. \A u \in within'[t] : u \in within[t] /\ taken'[t] = taken[t] /\ listing'[t] = listing[t]
  <2>1. CASE Exit(t)
    BY <2>1 DEF Exit, threads
  <2>2. CASE Exited(t)
    BY <2>2 DEF Exited, TypeOK
  <2> QED
    BY <2>1, <2>2
<1>4. Bodies'
  <2> SUFFICES ASSUME NEW u \in Thread, NEW w \in within'[u] PROVE pc'[w] = "body"
    BY DEF Bodies
  <2>1. w # t /\ w \in within[u]
    BY <1>1, <1>2, <1>3
  <2>2. within[u] \subseteq Thread
    BY DEF TypeOK
  <2>3. pc[w] = "body"
    BY <2>1 DEF Bodies
  <2> QED
    BY <1>1, <2>1, <2>2, <2>3
<1>5. ASSUME NEW u \in Thread, InBlock(u)', u \notin disturbed'
      PROVE  Meets(u)' /\ Reads(u)' /\ Takes(u)'
  <2>1. u # t
    BY <1>1, <1>5 DEF InBlock
  <2>2. Meets(u)' /\ Reads(u)' /\ Takes(u)
    BY <1>1, <1>5, <2>1, Unmoved
  <2>3. Takes(u)'
    BY <1>1, <1>3, <2>1, <2>2 DEF Takes
  <2> QED
    BY <2>2, <2>3
<1> QED
  BY <1>4, <1>5 DEF Sound

\* Entering, looking and the end of the loop.
LEMMA LoopSound ==
  ASSUME TypeOK, Progress, Bodies, Sound, NEW t \in Thread,
         Enter(t) \/ (\E r \in Ref : Look(t, r)) \/ Entered(t)
  PROVE  Bodies' /\ Sound'
<1>1. /\ UNCHANGED <<value, listing, taken, known, within, met, disturbed>>
      /\ pc[t] \in {"snapshot", "read"} /\ pc'[t] \in {"read", "decide", "body"}
      /\ \A u \in Thread \ {t} : pc'[u] = pc[u] /\ i'[u] = i[u] /\ seen'[u] = seen[u]
  <2>1. CASE Enter(t)
    BY <2>1 DEF Enter, threads, histories, TypeOK
  <2>2. CASE \E r \in Ref : Look(t, r)
    BY <2>2 DEF Look, histories, TypeOK
  <2>3. CASE Entered(t)
    BY <2>3 DEF Entered, threads, histories, TypeOK
  <2> QED
    BY <2>1, <2>2, <2>3
<1>2. \A u \in Thread : t \notin within[u]
  BY <1>1, NotWithin
<1>3. Bodies'
  BY <1>1, <1>2 DEF Bodies, TypeOK
<1>4. Takes(t)'
  BY <1>1, <1>2 DEF Takes
<1>5. ASSUME InBlock(t)', t \notin disturbed'
      PROVE  Meets(t)' /\ Reads(t)'
  <2>1. CASE Enter(t)
    <3>1. met[t] = {} /\ pc'[t] = "read" /\ i'[t] = 1 /\ UNCHANGED met
      BY <2>1 DEF Enter, threads, histories, Progress, Loops, TypeOK
    <3>2. Decided(t)' = {}
      BY <3>1 DEF Decided
    <3> QED
      BY <3>1, <3>2 DEF Meets, Reads
  <2>2. CASE \E r \in Ref : Look(t, r)
    <3>1. PICK r \in Ref : Look(t, r)
      BY <2>2
    <3>2. /\ pc[t] = "read" /\ pc'[t] = "decide" /\ UNCHANGED i /\ seen'[t] = value[r]
          /\ Turn(t, r)
      BY <3>1 DEF Look, TypeOK
    <3>3. Meets(t)
      BY <1>1, <1>5, <3>2 DEF Sound, InBlock
    <3>4. Decided(t)' = Decided(t)
      BY <1>1, <3>2 DEF Decided, InBlock
    <3>5. Reads(t)'
      BY <1>1, <3>2 DEF Reads, Turn
    <3> QED
      BY <1>1, <3>3, <3>4, <3>5 DEF Meets
  <2>3. CASE Entered(t)
    <3>1. pc[t] = "read" /\ pc'[t] = "body" /\ UNCHANGED i
      BY <2>3 DEF Entered, TypeOK
    <3>2. Meets(t)
      BY <1>1, <1>5, <3>1 DEF Sound, InBlock
    <3>3. Decided(t)' = Decided(t)
      BY <1>1, <3>1 DEF Decided, InBlock
    <3> QED
      BY <1>1, <3>1, <3>2, <3>3 DEF Meets, Reads
  <2> QED
    BY <2>1, <2>2, <2>3
<1>6. ASSUME NEW u \in Thread \ {t}, InBlock(u)', u \notin disturbed'
      PROVE  Meets(u)' /\ Reads(u)' /\ Takes(u)'
  <2>1. Meets(u)' /\ Reads(u)' /\ Takes(u)
    BY <1>1, <1>6, Unmoved
  <2> QED
    BY <1>1, <2>1 DEF Takes
<1> QED
  BY <1>3, <1>4, <1>5, <1>6 DEF Sound

\* After its decision on a BomRef a thread knows a value that no other has.
LEMMA DecidedSound ==
  ASSUME TypeOK, Progress, NEW t \in Thread, NEW r \in Ref, Turn(t, r), Meets(t),
         pc[t] = "decide", pc'[t] = "read", i'[t] = i[t] + 1, UNCHANGED listing,
         NEW new, new \in SUBSET Val(r), known[t] \subseteq known'[t],
         \A v \in new : v # None /\ (v \in known'[t] \/ v \in Draws[r])
                                 /\ (v \notin known[t] \/ v \in Draws[r]),
         met'[t] = met[t] \cup {<<r, v>> : v \in new},
         value'[r] \in new, \A q \in Ref \ {r} : value'[q] = value[q]
  PROVE  Meets(t)' /\ Reads(t)'
<1>1. \A p \in met[t] : p \in Ref \X AnyVal /\ p[2] \in Val(p[1])
  BY DEF TypeOK
<1>2. \A p \in met'[t] : p \in met[t] \/ \E v \in new : p = <<r, v>>
  OBVIOUS
<1>3. \A p \in met'[t] : p[2] # None /\ (p[2] \in known'[t] \/ p[2] \in Draws[p[1]])
  BY <1>2 DEF Meets
<1>4. ASSUME NEW p \in met[t], NEW v \in new, p[2] = v PROVE p[1] = r
  <2>1. p[1] \in Ref /\ v \in Val(p[1]) /\ v \in Val(r)
    BY <1>1, <1>4
  <2>2. CASE v \in Draws[r]
    BY <2>1, <2>2, DrawnFor
  <2>3. CASE v \notin Draws[r]
    <3>1. v \in Draws[p[1]]
      BY <1>4, <2>3 DEF Meets
    <3> QED
      BY <2>1, <3>1, DrawnFor
  <2> QED
    BY <2>2, <2>3
<1>5. \A p, q \in met'[t] : p[2] = q[2] => p[1] = q[1]
  BY <1>2, <1>4 DEF Meets
<1>6. /\ i[t] \in Nat \ {0} /\ listing[t] \in Listings /\ i[t] <= Len(listing[t])
      /\ r = listing[t][i[t]] /\ Len(listing[t]) \in Nat
  BY TurnFacts
<1>7. \A k \in 1..(i[t] + 1 - 1) : k \in 1..(i[t] - 1) \/ k = i[t]
  BY <1>6
<1>8. \A q \in Decided(t)' : q \in Ref /\ (q \in Decided(t) \/ q = r)
  <2>1. \A k \in 1..i[t] : listing[t][k] \in Ref
    BY <1>6, ListingFacts
  <2> QED
    BY <1>6, <1>7, <2>1 DEF Decided, InBlock
<1>9. \A q \in Decided(t)' : <<q, value'[q]>> \in met'[t]
  BY <1>8 DEF Meets
<1> QED
  BY <1>3, <1>5, <1>9 DEF Meets, Reads

LEMMA KeepSound ==
  ASSUME TypeOK, Progress, Bodies, Sound, NEW t \in Thread, NEW r \in Ref, Keep(t, r)
  PROVE  Bodies' /\ Sound'
<1>1. /\ pc[t] = "decide" /\ Turn(t, r) /\ seen[t] \notin known[t] \cup {None}
      /\ pc'[t] = "read" /\ i'[t] = i[t] + 1 /\ known'[t] = known[t] \cup {seen[t]}
      /\ met'[t] = met[t] \cup {<<r, seen[t]>>, <<r, value[r]>>}
      /\ UNCHANGED <<value, listing, taken, within, disturbed>>
      /\ \A u \in Thread \ {t} : /\ pc'[u] = pc[u] /\ i'[u] = i[u] /\ known'[u] = known[u]
                                 /\ seen'[u] = seen[u] /\ met'[u] = met[u]
  BY DEF Keep, TypeOK
<1>2. \A u \in Thread : t \notin within[u]
  BY <1>1, NotWithin
<1>3. Bodies'
  BY <1>1, <1>2 DEF Bodies, TypeOK
<1>4. Takes(t)'
  BY <1>1, <1>2 DEF Takes
<1>5. ASSUME t \notin disturbed' PROVE Meets(t)' /\ Reads(t)'
  <2>1. Meets(t) /\ Reads(t)
    BY <1>1, <1>5 DEF Sound, InBlock
  <2>2. value[r] = seen[t] \/ value[r] \in Draws[r]
    BY <1>1, <2>1 DEF Reads
  <2>3. seen[t] \in Val(r) /\ value[r] \in Val(r)
    <3>1. r = listing[t][i[t]]
      BY <1>1 DEF Turn
    <3> QED
      BY <1>1, <3>1 DEF TypeOK
  <2>4. None \notin Draws[r]
    BY DrawsAssumption
  <2>5. PICK new : new = {seen[t], value[r]}
    OBVIOUS
  <2>6. /\ new \in SUBSET Val(r)
        /\ \A v \in new : v # None /\ (v \in known'[t] \/ v \in Draws[r])
                                   /\ (v \notin known[t] \/ v \in Draws[r])
    BY <1>1, <2>2, <2>3, <2>4, <2>5
  <2>7. /\ met'[t] = met[t] \cup {<<r, v>> : v \in new}
        /\ value'[r] \in new /\ known[t] \subseteq known'[t]
        /\ \A q \in Ref \ {r} : value'[q] = value[q]
    BY <1>1, <2>5
  <2> QED
    BY <1>1, <2>1, <2>6, <2>7, DecidedSound
<1>6. ASSUME NEW u \in Thread \ {t}, InBlock(u)', u \notin disturbed'
      PROVE  Meets(u)' /\ Reads(u)' /\ Takes(u)'
  <2>1. Meets(u)' /\ Reads(u)' /\ Takes(u)
    BY <1>1, <1>6, Unmoved
  <2> QED
    BY <1>1, <2>1 DEF Takes
<1> QED
  BY <1>3, <1>4, <1>5, <1>6 DEF Sound

LEMMA ReplaceSound ==
  ASSUME TypeOK, Progress, Bodies, Sound, NEW t \in Thread, NEW r \in Ref, Replace(t, r)
  PROVE  Bodies' /\ Sound'
<1>1. PICK d \in Draws[r] : d = value'[r]
  BY ReplaceTypes
<1>2. /\ pc[t] = "decide" /\ Turn(t, r)
      /\ pc'[t] = "read" /\ i'[t] = i[t] + 1
      /\ UNCHANGED <<listing, taken, within, disturbed>>
      /\ \A u \in Thread \ {t} : pc'[u] = pc[u] /\ i'[u] = i[u] /\ seen'[u] = seen[u]
  BY DEF Replace, TypeOK
<1>3. /\ known'[t] = known[t] \cup {d} /\ \A u \in Thread \ {t} : known'[u] = known[u]
      /\ \A q \in Ref \ {r} : value'[q] = value[q]
  <2>1. /\ known' = [known EXCEPT ![t] = @ \cup {value'[r]}]
        /\ \A q \in Ref \ {r} : value'[q] = value[q]
    BY ReplaceTypes
  <2> QED
    BY <1>1, <2>1 DEF TypeOK
<1>4. /\ met'[t] = met[t] \cup {<<r, d>>}
      /\ \A u \in Thread \ {t} :
           met'[u] = IF r \in Decided(u) THEN met[u] \cup {<<r, d>>} ELSE met[u]
  BY <1>1, ReplaceTypes DEF Met
<1>5. \A u \in Thread : t \notin within[u]
  BY <1>2, NotWithin
<1>6. Bodies'
  BY <1>2, <1>5 DEF Bodies, TypeOK
<1>7. Takes(t)'
  BY <1>2, <1>5 DEF Takes
<1>8. d # None /\ d \in Val(r)
  BY DrawsAssumption, DrawTypes
<1>9. ASSUME t \notin disturbed' PROVE Meets(t)' /\ Reads(t)'
  <2>1. Meets(t)
    BY <1>2, <1>9 DEF Sound, InBlock
  <2>2. PICK new : new = {d}
    OBVIOUS
  <2>3. /\ new \in SUBSET Val(r) /\ known[t] \subseteq known'[t]
        /\ \A v \in new : v # None /\ (v \in known'[t] \/ v \in Draws[r])
                                   /\ (v \notin known[t] \/ v \in Draws[r])
        /\ met'[t] = met[t] \cup {<<r, v>> : v \in new} /\ value'[r] \in new
    BY <1>1, <1>3, <1>4, <1>8, <2>2
  <2> QED
    BY <1>2, <1>3, <2>1, <2>3, DecidedSound
<1>10. ASSUME NEW u \in Thread \ {t}, InBlock(u)', u \notin disturbed'
       PROVE  Meets(u)' /\ Reads(u)' /\ Takes(u)'
  <2>1. InBlock(u) /\ Decided(u)' = Decided(u)
    BY <1>2, <1>10 DEF InBlock, Decided
  <2>2. Meets(u) /\ Reads(u) /\ Takes(u)
    BY <1>2, <1>10, <2>1 DEF Sound
  <2>3. Reads(u)'
    BY <1>1, <1>2, <1>3, <2>2 DEF Reads, Turn
  <2>4. Takes(u)'
    BY <1>2, <1>4, <2>2 DEF Takes
  <2>5. CASE r \notin Decided(u)
    <3>1. \A q \in Decided(u) : <<q, value'[q]>> \in met[u]
      <4>1. met[u] \subseteq Ref \X AnyVal
        BY DEF TypeOK
      <4> QED
        BY <1>3, <2>2, <2>5, <4>1 DEF Meets
    <3> QED
      BY <1>3, <1>4, <2>1, <2>2, <2>3, <2>4, <2>5, <3>1 DEF Meets
  <2>6. CASE r \in Decided(u)
    <3>0. met'[u] = met[u] \cup {<<r, d>>}
      BY <1>4, <2>6
    <3>1. \A p \in met[u] : p \in Ref \X AnyVal /\ p[2] \in Val(p[1])
      BY DEF TypeOK
    <3>2. \A p \in met[u] : p[2] = d => p[1] = r
      BY <3>1, DrawnFor
    <3>3. \A p \in met'[u] : p \in met[u] \/ p = <<r, d>>
      BY <3>0
    <3>4. \A p \in met'[u] : p[2] # None /\ (p[2] \in known'[u] \/ p[2] \in Draws[p[1]])
      BY <1>3, <1>8, <2>2, <3>3 DEF Meets
    <3>5. \A p, q \in met'[u] : p[2] = q[2] => p[1] = q[1]
      BY <2>2, <3>2, <3>3 DEF Meets
    <3>6. \A q \in Decided(u) : <<q, value'[q]>> \in met'[u]
      <4>1. ASSUME NEW q \in Decided(u) PROVE <<q, value'[q]>> \in met'[u]
        <5>1. <<q, value[q]>> \in met[u]
          BY <2>2 DEF Meets
        <5>2. q \in Ref
          BY <3>1, <5>1
        <5> QED
          BY <1>1, <1>3, <3>0, <5>1, <5>2
      <4> QED
        BY <4>1
    <3> QED
      BY <2>1, <2>3, <2>4, <3>4, <3>5, <3>6 DEF Meets
  <2> QED
    BY <2>5, <2>6
<1> QED
  BY <1>6, <1>7, <1>9, <1>10 DEF Sound

LEMMA RestoreSound ==
  ASSUME TypeOK, Progress, Bodies, Sound, NEW t \in Thread, NEW r \in Ref, Restore(t, r)
  PROVE  Bodies' /\ Sound'
<1>1. /\ i[t] \in DOMAIN taken[t] /\ r = listing[t][i[t]]
      /\ value'[r] = taken[t][i[t]] /\ met' = Met(t, r, taken[t][i[t]], {})
      /\ \A q \in Ref \ {r} : value'[q] = value[q]
  BY RestoreTypes
<1>2. /\ pc[t] = "reset" /\ disturbed' = disturbed \cup Disturbing(t, r)
      /\ UNCHANGED <<pc, listing, taken, known, seen, within>>
      /\ \A u \in Thread \ {t} : i'[u] = i[u]
  BY DEF Restore, threads, TypeOK
<1>3. Bodies'
  BY <1>2 DEF Bodies
<1>4. ASSUME NEW u \in Thread, InBlock(u)', u \notin disturbed'
      PROVE  Meets(u)' /\ Reads(u)' /\ Takes(u)'
  <2>1. u # t /\ InBlock(u) /\ u \notin disturbed
    BY <1>2, <1>4 DEF InBlock
  <2>2. Meets(u) /\ Reads(u) /\ Takes(u) /\ Decided(u)' = Decided(u)
    BY <1>2, <2>1 DEF Sound, Decided, InBlock
  <2>3. r \in Read(u) => u \in within[t]
    BY <1>2, <1>4, <2>1 DEF Disturbing
  <2>4. met'[u] = IF r \in Decided(u) THEN met[u] \cup {<<r, value'[r]>>} ELSE met[u]
    BY <1>1, <2>1 DEF Met
  <2>5. CASE u \in within[t]
    <3>1. pc[u] = "body" /\ <<r, value'[r]>> \in met[u]
      BY <1>1, <2>2, <2>5 DEF Bodies, Takes
    <3>2. met'[u] = met[u]
      BY <2>4, <3>1
    <3>3. \A q \in Decided(u) : <<q, value'[q]>> \in met[u]
      <4>1. met[u] \subseteq Ref \X AnyVal
        BY DEF TypeOK
      <4> QED
        BY <1>1, <2>2, <3>1, <4>1 DEF Meets
    <3>4. Meets(u)'
      BY <1>2, <2>2, <3>2, <3>3 DEF Meets
    <3>5. Reads(u)'
      BY <1>2, <3>1 DEF Reads
    <3> QED
      BY <1>2, <2>2, <3>2, <3>4, <3>5 DEF Takes
  <2>6. CASE u \notin within[t]
    <3>1. r \notin Decided(u) /\ met'[u] = met[u]
      BY <2>3, <2>4, <2>6 DEF Read
    <3>2. \A q \in Decided(u) : <<q, value'[q]>> \in met[u]
      <4>1. met[u] \subseteq Ref \X AnyVal
        BY DEF TypeOK
      <4> QED
        BY <1>1, <2>2, <3>1, <4>1 DEF Meets
    <3>3. Meets(u)'
      BY <1>2, <2>2, <3>1, <3>2 DEF Meets
    <3>4. ASSUME NEW q \in Ref, pc[u] = "decide", Turn(u, q)
          PROVE  value'[q] = seen[u] \/ value'[q] \in Draws[q]
      <4>1. q \in Read(u)
        BY <3>4 DEF Read, Turn
      <4>2. q # r
        BY <2>3, <2>6, <4>1
      <4> QED
        BY <1>1, <2>2, <3>4, <4>2 DEF Reads
    <3>5. Reads(u)'
      BY <1>2, <2>1, <3>4 DEF Reads, Turn
    <3> QED
      BY <1>2, <2>2, <3>1, <3>3, <3>5 DEF Takes
  <2> QED
    BY <2>5, <2>6
<1> QED
  BY <1>3, <1>4 DEF Sound

-----------------------------------------------------------------------------
\* The block around all others.

\* While blocks run there is an outermost one, and it is a thread's.
LEMMA OuterThread ==
  ASSUME TypeOK, Nests, NEW t \in Thread, pc[t] # "out"
  PROVE  outer # None /\ outer \in Thread
BY DEF Nests, AllOut, TypeOK

\* A step of another thread, begun inside the block around it.
LEMMA InsideNests ==
  ASSUME TypeOK, Nests, NEW t \in Thread, pc[t] # "out", t # outer,
         UNCHANGED <<before, outer>>, nested' => nested,
         value' = value \/ (nested' => pc[outer] # "snapshot"),
         \A u \in Thread \ {t} : pc'[u] = pc[u] /\ taken'[u] = taken[u] /\ listing'[u] = listing[u]
  PROVE  Nests'
<1>1. outer # None /\ outer \in Thread
  BY OuterThread
<1>2. SUFFICES ASSUME nested' PROVE Around(outer)'
  BY <1>1 DEF Nests
<1>3. Around(outer)
  BY <1>1, <1>2 DEF Nests
<1>4. pc[outer] \notin {"out", "reset"}
  BY <1>1, <1>3 DEF Around, AllOut
<1> QED
  BY <1>1, <1>2, <1>3, <1>4 DEF Around

LEMMA BeginNests ==
  ASSUME TypeOK, Progress, Nests, NEW t \in Thread, NEW s \in Listings, Begin(t, s)
  PROVE  Nests'
<1>1. /\ pc[t] = "out" /\ pc'[t] = "snapshot" /\ UNCHANGED <<value, taken>>
      /\ \A u \in Thread \ {t} : pc'[u] = pc[u] /\ listing'[u] = listing[u]
  BY DEF Begin, TypeOK
<1>2. t # None
  BY DrawsAssumption
<1>3. CASE AllOut
  <2>1. before' = value /\ outer' = t
    BY <1>3 DEF Begin
  <2>2. DOMAIN taken[t] = {}
    BY <1>1, EmptySeq DEF Progress, Loops
  <2>3. Around(t)'
    BY <1>1, <2>1, <2>2 DEF Around
  <2> QED
    BY <1>2, <2>1, <2>3 DEF Nests
<1>4. CASE ~AllOut
  <2>1. nested' = (nested /\ pc[outer] # "reset") /\ UNCHANGED <<before, outer>>
    BY <1>4 DEF Begin
  <2>2. PICK u \in Thread : pc[u] # "out"
    BY <1>4 DEF AllOut
  <2>3. outer # None /\ outer \in Thread
    BY <2>2, OuterThread
  <2>4. SUFFICES ASSUME nested' PROVE Around(outer)'
    BY <2>1, <2>3 DEF Nests
  <2>5. Around(outer) /\ pc[outer] # "reset" /\ pc[outer] # "out"
    BY <1>4, <2>1, <2>3, <2>4 DEF Nests, Around
  <2>6. outer # t
    BY <1>1, <2>5
  <2> QED
    BY <1>1, <2>1, <2>3, <2>5, <2>6 DEF Around
<1> QED
  BY <1>3, <1>4

LEMMA TakeNests ==
  ASSUME TypeOK, Progress, Nests, NEW t \in Thread, NEW r \in Ref, Take(t, r)
  PROVE  Nests'
<1>1. /\ DOMAIN taken'[t] = DOMAIN taken[t] \cup {i[t]}
      /\ \A k \in DOMAIN taken[t] : taken'[t][k] = taken[t][k]
      /\ taken'[t][i[t]] = value[r] /\ r = listing[t][i[t]]
      /\ \A u \in Thread \ {t} : taken'[u] = taken[u]
  BY TakeTypes
<1>2. pc[t] = "snapshot" /\ UNCHANGED <<value, pc, listing, before, outer, nested>>
  BY DEF Take, histories
<1>3. CASE t # outer
  BY <1>1, <1>2, <1>3, InsideNests
<1>4. CASE t = outer
  <2>1. outer # None
    BY <1>2, OuterThread
  <2>2. SUFFICES ASSUME nested PROVE Around(outer)'
    BY <1>2, <2>1 DEF Nests
  <2>3. Around(t)
    BY <1>4, <2>1, <2>2 DEF Nests
  <2>4. \A k \in DOMAIN taken'[t] : taken'[t][k] = before[listing[t][k]]
    BY <1>1, <1>2, <2>3 DEF Around
  <2> QED
    BY <1>2, <1>4, <2>3, <2>4 DEF Around
<1> QED
  BY <1>3, <1>4

\* The steps of discriminate() that write no value, and those around them.
LEMMA LoopNests ==
  ASSUME TypeOK, Progress, Nests, NEW t \in Thread,
         Enter(t) \/ (\E r \in Ref : Look(t, r) \/ Keep(t, r)) \/ Entered(t)
  PROVE  Nests'
<1>1. /\ UNCHANGED <<value, taken, listing, before, outer, nested>>
      /\ pc[t] # "out" /\ pc'[t] \in {"read", "decide", "body"}
      /\ \A u \in Thread \ {t} : pc'[u] = pc[u]
  <2>1. CASE Enter(t)
    BY <2>1 DEF Enter, threads, histories, TypeOK
  <2>2. CASE \E r \in Ref : Look(t, r) \/ Keep(t, r)
    BY <2>2 DEF Look, Keep, histories, TypeOK
  <2>3. CASE Entered(t)
    BY <2>3 DEF Entered, threads, histories, TypeOK
  <2> QED
    BY <2>1, <2>2, <2>3
<1>2. CASE t # outer
  BY <1>1, <1>2, InsideNests
<1>3. CASE t = outer
  BY <1>1, <1>3, OuterThread DEF Nests, Around
<1> QED
  BY <1>2, <1>3

LEMMA ReplaceNests ==
  ASSUME TypeOK, Progress, Nests, NEW t \in Thread, NEW r \in Ref, Replace(t, r)
  PROVE  Nests'
<1>1. /\ UNCHANGED <<taken, listing, before, outer>>
      /\ pc[t] = "decide" /\ pc'[t] = "read"
      /\ \A u \in Thread \ {t} : pc'[u] = pc[u]
  BY DEF Replace, TypeOK
<1>2. nested' => nested /\ (t = outer \/ pc[outer] # "snapshot")
  BY DEF Replace, WritesNested
<1>3. CASE t # outer
  BY <1>1, <1>2, <1>3, InsideNests
<1>4. CASE t = outer
  BY <1>1, <1>2, <1>4 DEF Nests, Around, AllOut
<1> QED
  BY <1>3, <1>4

LEMMA ExitNests ==
  ASSUME TypeOK, Progress, Nests, NEW t \in Thread, Exit(t)
  PROVE  Nests'
<1>1. /\ UNCHANGED <<value, taken, listing, before, outer>>
      /\ pc[t] = "body" /\ pc'[t] = "reset" /\ i'[t] = 1
      /\ \A u \in Thread \ {t} : pc'[u] = pc[u]
  BY DEF Exit, threads, TypeOK
<1>2. nested' => nested /\ (t = outer => \A u \in Thread \ {t} : pc[u] = "out")
  BY DEF Exit
<1>3. CASE t # outer
  BY <1>1, <1>2, <1>3, InsideNests
<1>4. CASE t = outer
  BY <1>1, <1>2, <1>4 DEF Nests, Around, AllOut
<1> QED
  BY <1>3, <1>4

LEMMA RestoreNests ==
  ASSUME TypeOK, Progress, Nests, NEW t \in Thread, NEW r \in Ref, Restore(t, r)
  PROVE  Nests'
<1>1. /\ i[t] \in DOMAIN taken[t] /\ r = listing[t][i[t]]
      /\ value'[r] = taken[t][i[t]]
      /\ \A q \in Ref \ {r} : value'[q] = value[q]
  BY RestoreTypes
<1>2. /\ pc[t] = "reset" /\ Turn(t, r) /\ i'[t] = i[t] + 1
      /\ UNCHANGED <<pc, taken, listing, before, outer>>
  BY DEF Restore, threads, TypeOK
<1>3. nested' => nested /\ (t = outer \/ pc[outer] # "snapshot")
  BY DEF Restore, WritesNested
<1>4. CASE t # outer
  BY <1>2, <1>3, <1>4, InsideNests
<1>5. CASE t = outer
  <2>1. outer # None
    BY <1>2, OuterThread
  <2>2. SUFFICES ASSUME nested' PROVE Around(outer)'
    BY <1>2, <2>1 DEF Nests
  <2>3. Around(t)
    BY <1>3, <1>5, <2>1, <2>2 DEF Nests
  <2>4. /\ listing[t] \in Listings /\ i[t] \in Nat \ {0}
        /\ Len(listing[t]) \in Nat /\ i[t] <= Len(listing[t])
    BY <1>2, TurnFacts
  <2>5. value'[r] = before[r]
    BY <1>1, <2>3 DEF Around
  <2>6. ASSUME NEW k \in 1..(i'[t] - 1) PROVE value'[listing[t][k]] = before[listing[t][k]]
    <3>1. k \in 1..(i[t] - 1) \/ k = i[t]
      BY <1>2, <2>4
    <3>2. k \in 1..Len(listing[t])
      BY <2>4, <3>1
    <3>3. listing[t][k] \in Ref
      BY <2>4, <3>2, ListingFacts
    <3> QED
      BY <1>1, <1>2, <2>3, <2>5, <3>1, <3>3 DEF Around
  <2> QED
    BY <1>2, <1>5, <2>3, <2>6 DEF Around
<1> QED
  BY <1>4, <1>5

LEMMA ExitedNests ==
  ASSUME TypeOK, Progress, Nests, NEW t \in Thread, Exited(t)
  PROVE  Nests'
<1>1. /\ UNCHANGED <<value, before, outer, nested>>
      /\ pc[t] = "reset" /\ pc'[t] = "out" /\ taken'[t] = <<>> /\ Over(t)
      /\ \A u \in Thread \ {t} : pc'[u] = pc[u] /\ taken'[u] = taken[u] /\ listing'[u] = listing[u]
  BY DEF Exited, TypeOK
<1>2. CASE t # outer
  BY <1>1, <1>2, InsideNests
<1>3. CASE t = outer
  <2>1. outer # None
    BY <1>1, OuterThread
  <2>2. SUFFICES ASSUME nested PROVE Around(outer)'
    BY <1>1, <2>1 DEF Nests
  <2>3. Around(t)
    BY <1>3, <2>1, <2>2 DEF Nests
  <2>4. listing[t] \in Listings /\ i[t] \in Nat \ {0}
    BY <1>1 DEF Progress, Loops, TypeOK
  <2>5. Len(listing[t]) \in Nat /\ Ref = {listing[t][k] : k \in 1..Len(listing[t])}
    BY <2>4, ListingFacts
  <2>6. \A k \in 1..Len(listing[t]) : k \in 1..(i[t] - 1)
    BY <1>1, <2>4, <2>5 DEF Over
  <2>7. \A q \in Ref : value[q] = before[q]
    BY <1>1, <2>3, <2>5, <2>6 DEF Around
  <2>8. value = before
    BY <2>7 DEF TypeOK
  <2>9. AllOut'
    BY <1>1, <2>3 DEF Around, AllOut
  <2>10. DOMAIN taken'[t] = {}
    BY <1>1, EmptySeq
  <2> QED
    BY <1>1, <1>3, <2>8, <2>9, <2>10 DEF Around
<1> QED
  BY <1>2, <1>3

-----------------------------------------------------------------------------
LEMMA StutterSound ==
  Bodies /\ Sound /\ Nests /\ UNCHANGED vars => Bodies' /\ Sound' /\ Nests'
BY DEF vars, threads, histories, Bodies, Sound, Nests, Meets, Reads, Takes, Around,
       InBlock, Decided, Turn, AllOut

LEMMA Inductive == IInv /\ [Next]_vars => IInv'
<1> SUFFICES ASSUME IInv, [Next]_vars PROVE IInv'
  OBVIOUS
<1>1. TypeOK /\ Progress /\ Bodies /\ Sound /\ Nests
  BY DEF IInv
<1>2. TypeOK' /\ Progress'
  BY <1>1, NextTypes
<1>3. ASSUME NEW t \in Thread, Step(t) PROVE Bodies' /\ Sound' /\ Nests'
  <2>1. ASSUME NEW s \in Listings, Begin(t, s) PROVE Bodies' /\ Sound' /\ Nests'
    BY <1>1, <2>1, BeginSound, BeginNests
  <2>2. ASSUME NEW r \in Ref, Take(t, r) PROVE Bodies' /\ Sound' /\ Nests'
    BY <1>1, <2>2, TakeSound, TakeNests
  <2>3. CASE Enter(t) \/ (\E r \in Ref : Look(t, r)) \/ Entered(t)
    BY <1>1, <2>3, LoopSound, LoopNests
  <2>4. ASSUME NEW r \in Ref, Keep(t, r) PROVE Bodies' /\ Sound' /\ Nests'
    BY <1>1, <2>4, KeepSound, LoopNests
  <2>5. ASSUME NEW r \in Ref, Replace(t, r) PROVE Bodies' /\ Sound' /\ Nests'
    BY <1>1, <2>5, ReplaceSound, ReplaceNests
  <2>6. ASSUME NEW r \in Ref, Restore(t, r) PROVE Bodies' /\ Sound' /\ Nests'
    BY <1>1, <2>6, RestoreSound, RestoreNests
  <2>7. CASE Exit(t)
    BY <1>1, <2>7, OwnSound, ExitNests
  <2>8. CASE Exited(t)
    BY <1>1, <2>8, OwnSound, ExitedNests
  <2> QED
    BY <1>3, <2>1, <2>2, <2>3, <2>4, <2>5, <2>6, <2>7, <2>8 DEF Step
<1>4. Bodies' /\ Sound' /\ Nests'
  BY <1>1, <1>3, StutterSound DEF Next
<1> QED
  BY <1>2, <1>4 DEF IInv

LEMMA Invariance == Spec => []IInv
BY InitOK, Inductive, PTL DEF Spec

-----------------------------------------------------------------------------
\* Every variable has its type, for any number of threads and BomRefs.
THEOREM TypeCorrect == Spec => []TypeOK
<1>1. IInv => TypeOK
  BY DEF IInv
<1> QED
  BY <1>1, Invariance, PTL

\* However the loops of however many threads overlap: the reader in a thread's
\* body meets every BomRef with a value and no two with the same one, at any
\* moments, unless another thread puts back what it had found before that body
\* began (output/__init__.py:144-169).
THEOREM Unique == Spec => []UniqueUnlessDisturbed
<1>1. IInv => UniqueUnlessDisturbed
  <2> SUFFICES ASSUME IInv, NEW t \in Thread, pc[t] = "body", t \notin disturbed
               PROVE  /\ \A r \in Ref : <<r, value[r]>> \in met[t]
                      /\ \A p \in met[t] : p[2] # None
                      /\ \A p, q \in met[t] : p[2] = q[2] => p[1] = q[1]
    BY DEF UniqueUnlessDisturbed
  <2>1. Meets(t)
    BY DEF IInv, Sound, InBlock
  <2>2. Ref \subseteq Decided(t)
    BY DecidedOnAll DEF IInv
  <2> QED
    BY <2>1, <2>2 DEF Meets
<1> QED
  BY <1>1, Invariance, PTL

\* Blocks that begin and end inside that of one thread leave the BOM with the
\* values it had, however many there are and however they overlap each other
\* (output/__init__.py:149-166).
THEOREM Restored == Spec => []RestoredIfNested
<1>1. IInv => RestoredIfNested
  <2> SUFFICES ASSUME IInv, AllOut, nested PROVE value = before
    BY DEF RestoredIfNested
  <2>1. CASE outer = None
    BY <2>1 DEF IInv, Nests
  <2>2. CASE outer # None
    <3>1. pc[outer] = "out"
      BY <2>2 DEF IInv, TypeOK, AllOut
    <3> QED
      BY <2>2, <3>1 DEF IInv, Nests, Around
  <2> QED
    BY <2>1, <2>2
<1> QED
  BY <1>1, Invariance, PTL
=============================================================================
