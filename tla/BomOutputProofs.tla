--------------------------- MODULE BomOutputProofs ---------------------------
(***************************************************************************)
(* What TLAPS proves of BomOutput for all BOMs: any number of elements,    *)
(* any nesting, bom-refs and graph, and whatever order Python's sets are   *)
(* iterated in.                                                            *)
(***************************************************************************)
EXTENDS BomOutput, BomProofs, SequenceTheorems, FiniteSetTheorems,
        WellFoundedInduction, TLAPS

-----------------------------------------------------------------------------
(***************************************************************************)
(* Facts about the operators of SequencesExt by which a set is visited,    *)
(* and the induction over the naturals they rest on.  The library's own    *)
(* induction theorem takes a predicate; here it is a set, which every      *)
(* prover can instantiate.                                                 *)
(***************************************************************************)

\* A set of numbers that is not empty has a least one.
LEMMA LeastNumber ==
  ASSUME NEW S, S \subseteq Nat, S # {}
  PROVE  \E m \in S : \A k \in S : m <= k
<1>1. PICK m \in S : \A k \in S : ~(<<k, m>> \in OpToRel(<, Nat))
  BY NatLessThanWellFounded, WFMin
<1>2. ASSUME NEW k \in S PROVE m <= k
  <2>1. k \in Nat /\ m \in Nat
    OBVIOUS
  <2>2. k < m => <<k, m>> \in OpToRel(<, Nat)
    BY <2>1 DEF OpToRel
  <2>3. ~(k < m)
    BY <1>1, <2>2
  <2> QED
    BY <2>1, <2>3
<1> QED
  BY <1>2

\* A set of numbers with 0 and the successor of each of its members has all.
LEMMA SetInduction ==
  ASSUME NEW S, 0 \in S, \A n \in Nat : n \in S => n + 1 \in S
  PROVE  Nat \subseteq S
<1> SUFFICES ASSUME Nat \ S # {} PROVE FALSE
  OBVIOUS
<1>1. PICK x \in Nat \ S : \A y \in Nat \ S : x <= y
  BY LeastNumber
<1>2. x # 0 /\ x - 1 \in Nat /\ (x - 1) + 1 = x
  OBVIOUS
<1>3. x - 1 \notin S
  BY <1>2
<1> QED
  BY <1>1, <1>2, <1>3

\* The elements of a sequence.
Members(s) == {s[k] : k \in DOMAIN s}

\* A visit of a finite set comes to every element, and to nothing else.
LEMMA VisitFacts ==
  ASSUME NEW S, IsFiniteSet(S), NEW s \in SetToSeqs(S)
  PROVE  s \in Seq(S) /\ Members(s) = S
<1> DEFINE n == Cardinality(S)
<1>1. n \in Nat
  BY FS_CardinalityType
<1>2. s \in [1..n -> S] /\ \A p, j \in 1..n : p # j => s[p] # s[j]
  BY DEF SetToSeqs
<1>3. s \in Seq(S)
  BY <1>1, <1>2, SeqDef
<1>4. s \in Injection(1..n, S)
  BY <1>2 DEF Injection, IsInjective
<1>5. Cardinality(1..n) = n
  BY <1>1, FS_Interval
<1>6. s \in Surjection(1..n, S)
  BY <1>4, <1>5, FS_Injection
<1> HIDE DEF n
<1>7. \A e \in S : \E k \in 1..n : s[k] = e
  BY <1>6 DEF Surjection
<1> QED
  BY <1>2, <1>3, <1>7 DEF Members

\* What a concatenation has, and that what comes from t comes last.
LEMMA ConcatMembers ==
  ASSUME NEW T, NEW s \in Seq(T), NEW t \in Seq(T)
  PROVE  /\ s \o t \in Seq(T)
         /\ Members(s \o t) = Members(s) \cup Members(t)
         /\ \A p, j \in DOMAIN (s \o t) :
              p < j => (s \o t)[p] \in Members(s) \/ (s \o t)[j] \in Members(t)
<1>1. /\ s \o t \in Seq(T)
      /\ Len(s \o t) = Len(s) + Len(t)
      /\ \A p \in 1..(Len(s) + Len(t)) :
           (s \o t)[p] = IF p <= Len(s) THEN s[p] ELSE t[p - Len(s)]
  BY ConcatProperties
<1>2. /\ Len(s) \in Nat /\ Len(t) \in Nat
      /\ DOMAIN s = 1..Len(s) /\ DOMAIN t = 1..Len(t)
      /\ DOMAIN (s \o t) = 1..(Len(s) + Len(t))
  BY <1>1, LenProperties
<1>3. \A p \in 1..Len(s) : (s \o t)[p] = s[p] /\ p \in DOMAIN (s \o t)
  BY <1>1, <1>2
<1>4. ASSUME NEW p \in 1..Len(t)
      PROVE  (s \o t)[Len(s) + p] = t[p] /\ Len(s) + p \in DOMAIN (s \o t)
  <2>1. Len(s) + p \in 1..(Len(s) + Len(t)) /\ ~(Len(s) + p <= Len(s)) /\ Len(s) + p - Len(s) = p
    BY <1>2
  <2> QED
    BY <1>1, <1>2, <2>1
<1>5. ASSUME NEW p \in DOMAIN (s \o t)
      PROVE  (s \o t)[p] \in IF p <= Len(s) THEN Members(s) ELSE Members(t)
  <2>1. CASE p <= Len(s)
    <3>1. p \in DOMAIN s /\ (s \o t)[p] = s[p]
      BY <1>1, <1>2, <2>1
    <3> QED
      BY <3>1 DEF Members
  <2>2. CASE ~(p <= Len(s))
    <3>1. p - Len(s) \in DOMAIN t /\ (s \o t)[p] = t[p - Len(s)]
      BY <1>1, <1>2, <2>2
    <3> QED
      BY <3>1 DEF Members
  <2> QED
    BY <2>1, <2>2
<1>6. Members(s) \cup Members(t) \subseteq Members(s \o t)
  BY <1>2, <1>3, <1>4 DEF Members
<1>7. Members(s \o t) = Members(s) \cup Members(t)
  BY <1>5, <1>6 DEF Members
<1>8. ASSUME NEW p \in DOMAIN (s \o t), NEW j \in DOMAIN (s \o t), p < j
      PROVE  (s \o t)[p] \in Members(s) \/ (s \o t)[j] \in Members(t)
  <2>1. p <= Len(s) \/ ~(j <= Len(s))
    BY <1>2, <1>8
  <2> QED
    BY <1>5, <2>1
<1> QED
  BY <1>1, <1>7, <1>8

\* FlattenSeq on sequences of sequences: what all of them have.
LEMMA FlattenFacts ==
  ASSUME NEW T, NEW n \in Nat, NEW ss \in [1..n -> Seq(T)]
  PROVE  /\ FlattenSeq(ss) \in Seq(T)
         /\ Members(FlattenSeq(ss)) = UNION {Members(ss[k]) : k \in 1..n}
<1>1. ss \in Seq(Seq(T)) /\ Len(ss) = n
  BY SeqDef
<1>2. CASE n = 0
  <2>1. FlattenSeq(ss) = ss /\ ss = <<>>
    BY <1>1, <1>2 DEF FlattenSeq
  <2> QED
    BY <1>2, <2>1 DEF Members
<1>3. CASE n # 0
  <2> DEFINE Flattens(f, m) ==
               f = [p \in 1..m |-> IF p = 1 THEN ss[p] ELSE f[p - 1] \o ss[p]]
             Has(m) == \E f : Flattens(f, m)
             Defined == {m \in Nat : m <= n => Has(m)}
  \* the recursion defines a function
  <2>1. 0 \in Defined
    <3>1. Flattens([p \in 1..0 |-> ss[p]], 0)
      OBVIOUS
    <3>2. Has(0)
      BY <3>1
    <3> HIDE DEF Has
    <3> QED
      BY <3>2
  <2>2. ASSUME NEW m \in Nat, m \in Defined PROVE m + 1 \in Defined
    <3> SUFFICES ASSUME m + 1 <= n PROVE Has(m + 1)
      <4> HIDE DEF Has
      <4> QED
        OBVIOUS
    <3>0. Has(m)
      <4> HIDE DEF Has
      <4> QED
        BY <2>2
    <3>1. PICK f : Flattens(f, m)
      BY <3>0
    <3> DEFINE g == [p \in 1..(m + 1) |->
                       IF p = 1 THEN ss[p] ELSE IF p = m + 1 THEN f[m] \o ss[p] ELSE f[p]]
    <3>2. ASSUME NEW p \in 1..(m + 1)
          PROVE  g[p] = IF p = 1 THEN ss[p] ELSE g[p - 1] \o ss[p]
      <4>1. CASE p = 1
        BY <4>1
      <4>2. CASE p # 1 /\ p = m + 1
        <5>1. p - 1 \in 1..m /\ p - 1 = m
          BY <4>2
        <5>2. g[m] = f[m]
          BY <3>1, <5>1
        <5> QED
          BY <4>2, <5>1, <5>2
      <4>3. CASE p # 1 /\ p # m + 1
        <5>1. p - 1 \in 1..m /\ p \in 1..m /\ p - 1 # m + 1
          BY <4>3
        <5>2. g[p] = f[p] /\ f[p] = f[p - 1] \o ss[p]
          BY <3>1, <4>3, <5>1
        <5>3. g[p - 1] = f[p - 1]
          BY <3>1, <5>1
        <5> QED
          BY <4>3, <5>2, <5>3
      <4> QED
        BY <4>1, <4>2, <4>3
    <3>3. Flattens(g, m + 1)
      BY <3>2
    <3> QED
      BY <3>3
  <2>3. Nat \subseteq Defined
    <3> HIDE DEF Defined
    <3> QED
      BY <2>1, <2>2, SetInduction
  <2>4. Has(n)
    <3> HIDE DEF Has
    <3> QED
      BY <2>3
  <2> DEFINE F == CHOOSE f : Flattens(f, n)
  <2>5. Flattens(F, n)
    BY <2>4
  <2>6. FlattenSeq(ss) = F[n]
    BY <1>1, <1>3 DEF FlattenSeq
  <2> HIDE DEF F
  \* what it computes
  <2> DEFINE Right == {m \in Nat : m + 1 <= n =>
                         /\ F[m + 1] \in Seq(T)
                         /\ Members(F[m + 1]) = UNION {Members(ss[k]) : k \in 1..(m + 1)}}
  <2>7. 0 \in Right
    <3>1. F[1] = ss[1] /\ ss[1] \in Seq(T)
      BY <1>3, <2>5
    <3>2. UNION {Members(ss[k]) : k \in 1..1} = Members(ss[1])
      OBVIOUS
    <3> QED
      BY <3>1, <3>2
  <2>8. ASSUME NEW m \in Nat, m \in Right PROVE m + 1 \in Right
    <3> SUFFICES ASSUME m + 2 <= n
                 PROVE  /\ F[m + 2] \in Seq(T)
                        /\ Members(F[m + 2]) = UNION {Members(ss[k]) : k \in 1..(m + 2)}
      BY (m + 1) + 1 = m + 2
    <3>1. /\ F[m + 1] \in Seq(T)
          /\ Members(F[m + 1]) = UNION {Members(ss[k]) : k \in 1..(m + 1)}
      BY <2>8
    <3>2. m + 2 \in 1..n /\ m + 2 # 1 /\ (m + 2) - 1 = m + 1 /\ 1..(m + 2) = 1..(m + 1) \cup {m + 2}
      OBVIOUS
    <3>3. F[m + 2] = F[m + 1] \o ss[m + 2] /\ ss[m + 2] \in Seq(T)
      BY <2>5, <3>2
    <3>4. /\ F[m + 2] \in Seq(T)
          /\ Members(F[m + 2]) = Members(F[m + 1]) \cup Members(ss[m + 2])
      BY <3>1, <3>3, ConcatMembers
    <3>5. UNION {Members(ss[k]) : k \in 1..(m + 2)}
            = (UNION {Members(ss[k]) : k \in 1..(m + 1)}) \cup Members(ss[m + 2])
      BY <3>2
    <3> QED
      BY <3>1, <3>4, <3>5
  <2>9. Nat \subseteq Right
    <3> HIDE DEF Right
    <3> QED
      BY <2>7, <2>8, SetInduction
  <2>10. n - 1 \in Nat /\ (n - 1) + 1 = n
    BY <1>3
  <2>11. n - 1 \in Right
    BY <2>9, <2>10
  <2> QED
    BY <2>6, <2>10, <2>11
<1> QED
  BY <1>2, <1>3

-----------------------------------------------------------------------------

DP == INSTANCE BomRefDiscriminatorProofs WITH Given <- Name, MaxLen <- 0

\* The assumptions of the discriminator's theorems, of this instance.
LEMMA DiscriminatorAssumptions ==
  /\ DP!StrAssumption
  /\ DP!MaxLenAssumption
BY TreeAssumption, StringsAssumption DEF DP!StrAssumption, DP!MaxLenAssumption

-----------------------------------------------------------------------------
\* The discriminator, as BomOutput uses it, is the one of DP.
LEMMA SameDiscriminator ==
  /\ Discriminator!Init <=> DP!Init
  /\ Discriminator!Loop <=> DP!Loop
  /\ Discriminator!Exit <=> DP!Exit
  /\ \A s : Discriminator!Enter(s) <=> DP!Enter(s)
  /\ Discriminator!TypeOK <=> DP!TypeOK
  /\ Listed = DP!Listed
  /\ \A r : Discriminator!Positions(r) = DP!Positions(r)
BY DEF Discriminator!Init, DP!Init, Discriminator!Exit, DP!Exit,
       Discriminator!Enter, DP!Enter, Discriminator!TypeOK, DP!TypeOK,
       Discriminator!Positions, DP!Positions,
       Listed, Discriminator!Listed, DP!Listed, Discriminator!RefsOf, DP!RefsOf,
       Discriminator!Val, DP!Val, Discriminator!Str, DP!Str,
       Discriminator!Entry, DP!Entry, Discriminator!Loop, DP!Loop,
       Discriminator!Keep, DP!Keep, Discriminator!Replace, DP!Replace,
       Discriminator!Entered, DP!Entered, Discriminator!Restore, DP!Restore,
       Discriminator!Exited, DP!Exited, Discriminator!Unused, DP!Unused,
       Discriminator!Normalised, DP!Normalised, Discriminator!Before, DP!Before,
       Discriminator!PutBack, DP!PutBack, Discriminator!IndexOf, DP!IndexOf

-----------------------------------------------------------------------------
\* Visits: every tree's components come, nothing else does.
LEMMA VisitsFacts ==
  ASSUME NEW S, IsFiniteSet(S), NEW T, NEW pick,
         \A c \in S : IsFiniteSet(pick[c]) /\ pick[c] \subseteq T,
         NEW s \in Visits(S, pick)
  PROVE  s \in Seq(T) /\ Members(s) = UNION {pick[c] : c \in S}
<1>1. PICK order \in SetToSeqs(S),
           inner \in {f \in [S -> UNION {SetToSeqs(pick[c]) : c \in S}] :
                        \A c \in S : f[c] \in SetToSeqs(pick[c])} :
        s = FlattenSeq([k \in DOMAIN order |-> inner[order[k]]])
  BY DEF Visits
<1>2. order \in Seq(S) /\ Members(order) = S
  BY VisitFacts
<1>3. ASSUME NEW c \in S
      PROVE  inner[c] \in Seq(T) /\ Members(inner[c]) = pick[c]
  <2>1. inner[c] \in SetToSeqs(pick[c])
    BY <1>1
  <2>2. inner[c] \in Seq(pick[c]) /\ Members(inner[c]) = pick[c]
    BY <2>1, VisitFacts
  <2>3. \A k \in 1..Len(inner[c]) : inner[c][k] \in T
    BY <2>2, ElementOfSeq
  <2> QED
    BY <2>2, <2>3, SeqDef
<1> DEFINE n == Len(order)
           ss == [k \in DOMAIN order |-> inner[order[k]]]
<1>4. n \in Nat /\ DOMAIN order = 1..n /\ \A k \in 1..n : order[k] \in S
  BY <1>2, LenProperties, ElementOfSeq
<1>5. ss \in [1..n -> Seq(T)]
  BY <1>3, <1>4
<1>6. \A k \in 1..n : Members(ss[k]) = pick[order[k]]
  BY <1>3, <1>4
<1> HIDE DEF n, ss
<1>7. s \in Seq(T) /\ Members(s) = UNION {Members(ss[k]) : k \in 1..n}
  BY <1>1, <1>4, <1>5, FlattenFacts DEF ss
<1>8. UNION {Members(ss[k]) : k \in 1..n} = UNION {pick[order[k]] : k \in 1..n}
  BY <1>6
<1>9. UNION {pick[order[k]] : k \in 1..n} = UNION {pick[c] : c \in S}
  <2>1. \A c \in S : \E k \in 1..n : order[k] = c
    BY <1>2, <1>4 DEF Members
  <2>2. {pick[order[k]] : k \in 1..n} = {pick[c] : c \in S}
    BY <1>4, <2>1
  <2> QED
    BY <2>2
<1> QED
  BY <1>7, <1>8, <1>9

\* What from_bom lists: the tracked components, the services, and after
\* them the vulnerabilities.
LEMMA FromBomFacts ==
  ASSUME TypeOK, NEW pick \in AllComponents, NEW s \in from_bom(pick)
  PROVE  /\ s \in [1..Len(s) -> Ref] /\ Len(s) \in Nat
         /\ Members(s) = Tracked(pick) \cup services \cup vulnerabilities
         /\ \A j, k \in DOMAIN s :
              j < k => s[j] \in Element \/ s[k] \in Vulnerability
<1>1. /\ root \in Component \cup {None} /\ components \subseteq Component
      /\ services \subseteq Service /\ vulnerabilities \subseteq Vulnerability
      /\ DOMAIN pick = Roots \cup components
      /\ \A c \in Roots \cup components : pick[c] \subseteq Component
  BY DEF TypeOK, AllComponents
<1>2. IsFiniteSet(Component) /\ IsFiniteSet(Service) /\ IsFiniteSet(Vulnerability)
  BY ObjectsAssumption, FS_Subset DEF Element
<1>3. /\ IsFiniteSet(Roots) /\ IsFiniteSet(components)
      /\ IsFiniteSet(services) /\ IsFiniteSet(vulnerabilities)
      /\ \A c \in Roots \cup components : IsFiniteSet(pick[c])
  <2>1. Roots \subseteq Component
    BY <1>1 DEF Roots
  <2> QED
    BY <1>1, <1>2, <2>1, FS_Subset
<1>4. PICK r \in Visits(Roots, pick), c \in Visits(components, pick),
           v \in SetToSeqs(services), w \in SetToSeqs(vulnerabilities) :
        s = r \o c \o v \o w
  BY DEF from_bom
<1>5. r \in Seq(Component) /\ Members(r) = UNION {pick[x] : x \in Roots}
  BY <1>1, <1>3, VisitsFacts
<1>6. c \in Seq(Component) /\ Members(c) = UNION {pick[x] : x \in components}
  BY <1>1, <1>3, VisitsFacts
<1>7. v \in Seq(services) /\ Members(v) = services
  BY <1>3, VisitFacts
<1>8. w \in Seq(vulnerabilities) /\ Members(w) = vulnerabilities
  BY <1>3, VisitFacts
<1>9. /\ r \in Seq(Element) /\ c \in Seq(Element) /\ v \in Seq(Element)
  <2>1. \A k \in 1..Len(r) : r[k] \in Element
    BY <1>5, ElementOfSeq DEF Element
  <2>2. \A k \in 1..Len(c) : c[k] \in Element
    BY <1>6, ElementOfSeq DEF Element
  <2>3. \A k \in 1..Len(v) : v[k] \in Element
    BY <1>1, <1>7, ElementOfSeq DEF Element
  <2> QED
    BY <1>5, <1>6, <1>7, <2>1, <2>2, <2>3, SeqDef
<1>10. /\ r \o c \in Seq(Element)
       /\ Members(r \o c) = Members(r) \cup Members(c)
  BY <1>9, ConcatMembers
<1>11. /\ (r \o c) \o v \in Seq(Element)
       /\ Members((r \o c) \o v) = Members(r) \cup Members(c) \cup services
  <2> DEFINE rc == r \o c
  <2>1. rc \in Seq(Element) /\ Members(rc) = Members(r) \cup Members(c)
    BY <1>10
  <2> HIDE DEF rc
  <2>2. rc \o v \in Seq(Element) /\ Members(rc \o v) = Members(rc) \cup Members(v)
    BY <1>9, <2>1, ConcatMembers
  <2> QED
    BY <1>7, <2>1, <2>2 DEF rc
<1> DEFINE e == (r \o c) \o v
<1>12. Members(e) \subseteq Element
  <2>1. e \in Seq(Element)
    BY <1>11
  <2> HIDE DEF e
  <2>2. DOMAIN e = 1..Len(e) /\ \A k \in 1..Len(e) : e[k] \in Element
    BY <2>1, LenProperties, ElementOfSeq
  <2> QED
    BY <2>2 DEF Members
<1>13. e \in Seq(Ref) /\ w \in Seq(Ref)
  <2>0. e \in Seq(Element)
    BY <1>11
  <2> HIDE DEF e
  <2>1. \A k \in 1..Len(e) : e[k] \in Ref
    BY <2>0, ElementOfSeq DEF Ref
  <2>2. \A k \in 1..Len(w) : w[k] \in Ref
    BY <1>1, <1>8, ElementOfSeq DEF Ref
  <2> QED
    BY <1>8, <2>0, <2>1, <2>2, SeqDef
<1>14. /\ s = e \o w
       /\ Members(e) = Members(r) \cup Members(c) \cup services
  BY <1>4, <1>11
<1> HIDE DEF e
<1>15. /\ s \in Seq(Ref) /\ Members(s) = Members(e) \cup vulnerabilities
       /\ \A j, k \in DOMAIN s : j < k => s[j] \in Members(e) \/ s[k] \in vulnerabilities
  BY <1>8, <1>13, <1>14, ConcatMembers
<1>16. Members(r) \cup Members(c) = Tracked(pick)
  BY <1>1, <1>5, <1>6 DEF Tracked
<1>17. s \in [1..Len(s) -> Ref] /\ Len(s) \in Nat
  BY <1>15, LenProperties
<1> QED
  BY <1>1, <1>12, <1>14, <1>15, <1>16, <1>17

-----------------------------------------------------------------------------
\* The types of a BOM but for the values of the BomRefs.
BomTyped ==
  /\ offending \in SUBSET (Element \cup {"metadata"})
  /\ root \in Component \cup {None}
  /\ components \in SUBSET Component
  /\ services \in SUBSET Service
  /\ vulnerabilities \in SUBSET Vulnerability
  /\ IsGraph(dependencies)
  /\ last \in [op : {"app", "register", "validate"}, on : SUBSET Element,
               verdict : {"none", "ok", "UnknownComponentDependency",
                          "LicenseExpressionAlongWithOthers"},
               warned : BOOLEAN]

\* RefEq, of the values the application gave.
EqualAsGiven(r, q) == r = q \/ (given[r] # None /\ given[r] = given[q])

\* While an output is made, what is listed comes from the BOM, has all but
\* nested services and nested components that equal a listed one, and ends
\* with the vulnerabilities.
Listing ==
  pc # "app" =>
    /\ TopLevel \cup vulnerabilities \subseteq Listed
    /\ Listed \subseteq Rendered
    /\ \A j, k \in DOMAIN bomrefs :
         j < k => bomrefs[j].ref \in Element \/ bomrefs[k].ref \in Vulnerability
    /\ \A c \in Roots \cup components : \A y \in Below[c] :
         \E x \in Listed \cap Everything : Attributes[x] = Attributes[y]

\* While an output is made, validate() has accepted the graph, in the words
\* of the given values.
Accepted ==
  pc # "app" =>
    /\ \A r \in RefsIn(dependencies) :
         \E e \in Listed \cap Everything : EqualAsGiven(r, e)
    /\ \A e \in TopLevel : \E d \in DOMAIN dependencies : EqualAsGiven(d, e)

OutputInv ==
  /\ DP!IInv
  /\ given \in [Ref -> Name \cup {None}]
  /\ DP!Before = given
  /\ BomTyped
  /\ RefsIn(dependencies) \subseteq Element \cup Loose
  /\ Listing
  /\ Accepted

\* Outside an output the values are the given ones, and all of Bom's types
\* are right.
LEMMA InApp ==
  ASSUME OutputInv, pc = "app"
  PROVE  value = given /\ bomrefs = <<>> /\ TypeOK
<1>1. bomrefs = <<>> /\ DP!Before = value
  BY DP!BeforeFacts, DiscriminatorAssumptions DEF OutputInv
<1> QED
  BY <1>1 DEF OutputInv, BomTyped, TypeOK

LEMMA OutputInvInit == OutputInit => OutputInv
<1> SUFFICES ASSUME OutputInit PROVE OutputInv
  OBVIOUS
<1>1. DP!Init /\ Init /\ given = value
  BY SameDiscriminator DEF OutputInit
<1>2. DP!IInv /\ DP!Before = value /\ pc = "app"
  BY <1>1, DP!InitRefines, DiscriminatorAssumptions DEF DP!Init
<1>3. TypeOK
  BY <1>1, InitTypes
<1>4. RefsIn(dependencies) = {}
  BY <1>1 DEF Init, RefsIn
<1> QED
  BY <1>1, <1>2, <1>3, <1>4 DEF OutputInv, TypeOK, BomTyped, Listing, Accepted

\* Nothing the discriminator holds changes.
LEMMA DiscriminatorIdle ==
  ASSUME OutputInv, UNCHANGED <<value, discriminator, given>>
  PROVE  /\ DP!IInv'
         /\ given' \in [Ref -> Name \cup {None}]
         /\ DP!Before' = given'
         /\ Listed' = Listed
<1>1. UNCHANGED DP!vars
  BY DEF discriminator, DP!vars
<1>2. DP!IInv'
  BY <1>1, DP!InvStep, DiscriminatorAssumptions DEF OutputInv
<1>3. UNCHANGED <<value, bomrefs>>
  BY DEF discriminator
<1>4. DP!Before' = DP!Before /\ Listed' = Listed
  BY <1>3 DEF DP!Before, DP!PutBack, DP!RefsOf, DP!IndexOf,
              Listed, Discriminator!Listed, Discriminator!RefsOf
<1> QED
  BY <1>2, <1>4 DEF OutputInv

LEMMA ApplyStep == OutputInv /\ Apply => OutputInv'
<1> SUFFICES ASSUME OutputInv, Apply PROVE OutputInv'
  OBVIOUS
<1>1. pc = "app" /\ Next /\ UNCHANGED <<discriminator, given>>
  BY DEF Apply, Next
<1>2. TypeOK
  BY <1>1, InApp
<1>3. TypeOK' /\ value' = value
  BY <1>1, <1>2, TypeStep, EveryGraphStep
<1>4. RefsIn(dependencies)' \subseteq Element \cup Loose
  BY <1>1, <1>2, RefsStep DEF OutputInv
<1>5. pc' = "app"
  BY <1>1 DEF discriminator
<1>6. /\ DP!IInv' /\ DP!Before' = given'
      /\ given' \in [Ref -> Name \cup {None}]
  BY <1>1, <1>3, DiscriminatorIdle
<1> QED
  BY <1>3, <1>4, <1>5, <1>6 DEF OutputInv, TypeOK, BomTyped, Listing, Accepted

\* validate() rejects the BOM: only the graph and the verdict are new.
LEMMA RejectedStep ==
  ASSUME OutputInv, pc = "app", validate, UNCHANGED <<discriminator, given>>
  PROVE  OutputInv'
<1>1. TypeOK /\ Next
  BY InApp DEF Next
<1>2. TypeOK' /\ value' = value
  BY <1>1, TypeStep, EveryGraphStep
<1>3. RefsIn(dependencies)' \subseteq Element \cup Loose
  BY <1>1, RefsStep DEF OutputInv
<1>4. pc' = "app"
  BY DEF discriminator
<1>5. /\ DP!IInv' /\ DP!Before' = given'
      /\ given' \in [Ref -> Name \cup {None}]
  BY <1>2, DiscriminatorIdle
<1> QED
  BY <1>2, <1>3, <1>4, <1>5 DEF OutputInv, TypeOK, BomTyped, Listing, Accepted

\* What from_bom lists, said of the BOM.
LEMMA ListedFacts ==
  ASSUME TypeOK, NEW pick \in AllComponents
  PROVE  LET L == Tracked(pick) \cup services \cup vulnerabilities
         IN  /\ TopLevel \cup vulnerabilities \subseteq L
             /\ L \subseteq Rendered
             /\ \A c \in Roots \cup components : \A y \in Below[c] :
                  \E x \in L \cap Everything : Attributes[x] = Attributes[y]
<1>1. /\ DOMAIN pick = Roots \cup components
      /\ \A c \in Roots \cup components : pick[c] \in Nested(c)
  BY DEF AllComponents
<1>2. Roots \cup components \subseteq Element
  BY DEF TypeOK, Roots, Element
<1>3. Tracked(pick) \subseteq Everything
  BY TrackedInBom
<1>4. TopLevel \subseteq Tracked(pick) \cup services
  BY <1>1 DEF Nested, TopLevel, Tracked
<1>5. Tracked(pick) \cup services \cup vulnerabilities \subseteq Rendered
  BY <1>3 DEF Rendered, Everything, TopLevel
<1>6. ASSUME NEW c \in Roots \cup components, NEW y \in Below[c]
      PROVE  \E x \in Tracked(pick) : Attributes[x] = Attributes[y]
  <2>1. Below[c] \subseteq Element
    BY <1>2, BelowFacts
  <2>2. PICK x \in pick[c] : Equal(x, y)
    BY <1>1 DEF Nested
  <2>3. x \in Element /\ y \in Element
    BY <1>1, <2>1 DEF Nested
  <2>4. x = y \/ Attributes[x] = Attributes[y]
    BY <2>2, <2>3, SameUnfolds DEF Equal
  <2>5. x \in Tracked(pick)
    BY <1>1 DEF Tracked
  <2> QED
    BY <2>4, <2>5
<1> QED
  BY <1>3, <1>4, <1>5, <1>6

\* validate() accepts the BOM, and the with-block is entered.
LEMMA AcceptedStep ==
  ASSUME OutputInv, pc = "app", NEW pick \in AllComponents,
         validateTracking(Tracked(pick)), last'.verdict = "ok",
         NEW s \in from_bom(pick), Discriminator!Enter(s), given' = given
  PROVE  OutputInv'
<1>1. TypeOK /\ Next /\ value = given
  BY InApp DEF Next, validate
<1>2. TypeOK'
  BY <1>1, TypeStep
<1>3. UNCHANGED content /\ dependencies' \in Prepared
  BY DEF validateTracking
<1>4. RefsIn(dependencies)' \subseteq Element \cup Loose
  BY <1>1, RefsStep DEF OutputInv
<1>5. /\ s \in [1..Len(s) -> Ref] /\ Len(s) \in Nat
      /\ Members(s) = Tracked(pick) \cup services \cup vulnerabilities
      /\ \A j, k \in DOMAIN s : j < k => s[j] \in Element \/ s[k] \in Vulnerability
  BY <1>1, FromBomFacts
<1>6. DP!Enter(s)
  BY SameDiscriminator
<1>7. DP!TypeOK /\ DP!IInv
  BY DEF OutputInv, DP!IInv
<1>8. DP!TypeOK'
  BY <1>5, <1>6, <1>7, DP!EnterTypes, DiscriminatorAssumptions
<1>9. DP!IInv' /\ DP!Before' = value
  BY <1>5, <1>6, <1>7, <1>8, DP!EnterStep, DiscriminatorAssumptions
<1>10. DOMAIN bomrefs' = DOMAIN s /\ \A k \in DOMAIN s : bomrefs'[k].ref = s[k]
  BY <1>6 DEF DP!Enter
<1>11. Listed' = Tracked(pick) \cup services \cup vulnerabilities
  BY <1>5, <1>10 DEF Listed, Discriminator!Listed, Discriminator!RefsOf, Members
<1>12. /\ TopLevel' = TopLevel /\ Everything' = Everything /\ Rendered' = Rendered
       /\ Roots' = Roots /\ components' = components /\ vulnerabilities' = vulnerabilities
       /\ RefsIn(dependencies)' = RefsIn(dependencies')
  BY <1>3 DEF content, TopLevel, Everything, Rendered, Roots, RefsIn
<1>13. Listing'
  <2>1. /\ TopLevel \cup vulnerabilities \subseteq Listed'
        /\ Listed' \subseteq Rendered
        /\ \A c \in Roots \cup components : \A y \in Below[c] :
             \E x \in Listed' \cap Everything : Attributes[x] = Attributes[y]
    BY <1>1, <1>11, ListedFacts
  <2>2. \A j, k \in DOMAIN bomrefs' :
          j < k => bomrefs'[j].ref \in Element \/ bomrefs'[k].ref \in Vulnerability
    BY <1>5, <1>10
  <2> QED
    BY <1>12, <2>1, <2>2 DEF Listing
<1>14. Accepted'
  <2>1. Unknown(dependencies', Tracked(pick)) = {}
    BY DEF validateTracking, Call, Verdict
  <2>2. \A r \in RefsIn(dependencies') : \E e \in Tracked(pick) \cup services : RefEq(r, e)
    BY <2>1 DEF Unknown
  <2>3. Tracked(pick) \cup services \subseteq Listed' \cap Everything
    BY <1>11, TrackedInBom DEF Everything, TopLevel
  <2>4. \A e \in TopLevel : \E d \in DOMAIN dependencies' : RefEq(e, d)
    BY <1>1, <1>3, PreparedFacts
  <2>5. \A r, q : RefEq(r, q) => EqualAsGiven(r, q)' /\ EqualAsGiven(q, r)'
    BY <1>1 DEF RefEq, EqualAsGiven
  <2> QED
    BY <1>12, <2>2, <2>3, <2>4, <2>5 DEF Accepted
<1> QED
  BY <1>1, <1>2, <1>4, <1>9, <1>13, <1>14 DEF OutputInv, TypeOK, BomTyped

\* The loops and the end of the block: the BOM stays as it is.
LEMMA LoopStep ==
  ASSUME OutputInv, DP!Loop \/ DP!Exit,
         UNCHANGED <<offending, root, components, services, vulnerabilities,
                     dependencies, last, given>>
  PROVE  OutputInv'
<1>1. DP!IInv'
  BY DP!LoopStep, DiscriminatorAssumptions DEF OutputInv
<1>2. DP!Before' = DP!Before /\ pc # "app" /\ (pc' # "app" => bomrefs' = bomrefs)
  BY DP!LoopKeepsBefore, DiscriminatorAssumptions DEF OutputInv
<1>3. /\ TopLevel' = TopLevel /\ Everything' = Everything /\ Rendered' = Rendered
      /\ Roots' = Roots /\ RefsIn(dependencies)' = RefsIn(dependencies)
  BY DEF TopLevel, Everything, Rendered, Roots, RefsIn
<1>4. ASSUME pc' # "app" PROVE Listing' /\ Accepted'
  <2>1. Listed' = Listed /\ bomrefs' = bomrefs
    BY <1>2, <1>4 DEF Listed, Discriminator!Listed, Discriminator!RefsOf
  <2>2. \A r, q : EqualAsGiven(r, q)' <=> EqualAsGiven(r, q)
    BY DEF EqualAsGiven
  <2>3. Listing'
    BY <1>2, <1>3, <2>1 DEF OutputInv, Listing
  <2>4. Accepted'
    BY <1>2, <1>3, <2>1, <2>2 DEF OutputInv, Accepted
  <2> QED
    BY <2>3, <2>4
<1>5. Listing' /\ Accepted'
  BY <1>4 DEF Listing, Accepted
<1> QED
  BY <1>1, <1>2, <1>3, <1>5 DEF OutputInv, BomTyped

\* OutputInv is inductive.
LEMMA OutputInvStep == OutputInv /\ [OutputNext]_outputVars => OutputInv'
<1> SUFFICES ASSUME OutputInv, [OutputNext]_outputVars PROVE OutputInv'
  OBVIOUS
<1>1. CASE Apply
  BY <1>1, ApplyStep
<1>2. CASE generate
  <2>1. PICK pick \in AllComponents :
          /\ validateTracking(Tracked(pick))
          /\ \/ /\ last'.verdict = "ok"
                /\ \E s \in from_bom(pick) : Discriminator!Enter(s)
             \/ /\ last'.verdict # "ok"
                /\ UNCHANGED discriminator
    BY <1>2 DEF generate
  <2>2. pc = "app" /\ given' = given
    BY <1>2 DEF generate
  <2>3. validate
    BY <2>1 DEF validate
  <2> QED
    BY <2>1, <2>2, <2>3, AcceptedStep, RejectedStep
<1>3. CASE Discriminating \/ Serialised
  BY <1>3, LoopStep, SameDiscriminator DEF Discriminating, Serialised
<1>4. CASE UNCHANGED outputVars
  <2>1. UNCHANGED <<value, discriminator, given>> /\ UNCHANGED vars
    BY <1>4 DEF outputVars, vars, content
  <2>2. DP!IInv' /\ DP!Before' = given' /\ Listed' = Listed
        /\ given' \in [Ref -> Name \cup {None}]
    BY <2>1, DiscriminatorIdle
  <2>3. UNCHANGED <<offending, root, components, services, vulnerabilities,
                    dependencies, last, given, pc, bomrefs>>
    BY <2>1 DEF vars, content, discriminator
  <2>4. BomTyped' /\ RefsIn(dependencies)' = RefsIn(dependencies)
    BY <2>3 DEF OutputInv, BomTyped, RefsIn
  <2>5. Listing'
    BY <2>2, <2>3 DEF OutputInv, Listing, TopLevel, Everything, Rendered, Roots
  <2>6. Accepted'
    BY <2>2, <2>3
       DEF OutputInv, Accepted, TopLevel, Everything, Roots, RefsIn, EqualAsGiven
  <2> QED
    BY <2>2, <2>4, <2>5, <2>6 DEF OutputInv
<1> QED
  BY <1>1, <1>2, <1>3, <1>4 DEF OutputNext

LEMMA OutputInvHolds == OutputSpec => []OutputInv
BY OutputInvInit, OutputInvStep, PTL DEF OutputSpec

-----------------------------------------------------------------------------
\* While a document is made, every BomRef has its type, outside the whole BOM
\* has (output/__init__.py:144-169, bom.py:781-866).
THEOREM OutputTypeCorrect == OutputSpec => []OutputTypeOK
<1>1. OutputInv => OutputTypeOK
  BY InApp, SameDiscriminator DEF OutputInv, OutputTypeOK, DP!IInv
<1> QED
  BY <1>1, OutputInvHolds, PTL

\* Whatever BOM is rendered, and whether validating or serialising it raises,
\* its bom-refs are the given ones again (output/__init__.py:151-153, 164-166).
THEOREM ValuesAlwaysComeBack == OutputSpec => []ValuesComeBack
<1>1. OutputInv => ValuesComeBack
  BY InApp DEF ValuesComeBack
<1> QED
  BY <1>1, OutputInvHolds, PTL

\* With no service nested and no two elements alike, everything rendered is
\* listed.
LEMMA AllListed ==
  ASSUME OutputInv, pc = "body",
         \A s \in services : Children[s] = {},
         \A e, f \in Everything : Attributes[e] = Attributes[f] => e = f
  PROVE  Rendered \subseteq Listed
<1>1. /\ TopLevel \cup vulnerabilities \subseteq Listed
      /\ \A c \in Roots \cup components : \A y \in Below[c] :
           \E x \in Listed \cap Everything : Attributes[x] = Attributes[y]
  BY DEF OutputInv, Listing
<1>2. ASSUME NEW e \in TopLevel, NEW y \in Below[e] PROVE y \in Listed
  <2>1. CASE e \in Roots \cup components
    <3>1. PICK x \in Listed \cap Everything : Attributes[x] = Attributes[y]
      BY <1>1, <1>2, <2>1
    <3>2. y \in Everything
      BY <1>2 DEF Everything
    <3> QED
      BY <3>1, <3>2
  <2>2. CASE e \in services
    <3>1. e \in Element
      BY <2>2 DEF OutputInv, BomTyped, Element
    <3>2. Below[e] = {e}
      BY <2>2, <3>1, BelowFacts
    <3> QED
      BY <1>1, <1>2, <3>2
  <2> QED
    BY <2>1, <2>2 DEF TopLevel
<1> QED
  BY <1>1, <1>2 DEF Rendered, Everything

\* Every element of a document has a bom-ref of its own, whatever bom-refs were
\* given, if services are not nested and no two components are alike
\* (output/__init__.py:171-177, component.py:1662-1670).
THEOREM UniqueWhenListed == OutputSpec => []RenderedUniqueWhenListed
<1>1. OutputInv => RenderedUniqueWhenListed
  <2> SUFFICES ASSUME OutputInv, pc = "body",
                      \A s \in services : Children[s] = {},
                      \A e, f \in Everything : Attributes[e] = Attributes[f] => e = f
               PROVE  /\ \A e \in Rendered : value[e] # None
                      /\ \A e, f \in Rendered : value[e] = value[f] => e = f
    BY DEF RenderedUniqueWhenListed, RenderedUnique
  <2>1. Rendered \subseteq Listed
    BY AllListed
  <2>2. /\ \A r \in Listed : value[r] # None
        /\ \A r, q \in Listed : value[r] = value[q] => r = q
    BY DP!InvUnique, DiscriminatorAssumptions, SameDiscriminator
       DEF OutputInv, DP!UniqueInBody
  <2> QED
    BY <2>1, <2>2
<1> QED
  BY <1>1, OutputInvHolds, PTL

-----------------------------------------------------------------------------
\* If no object is listed twice, of the listed objects that were given a
\* string one keeps it; if one of them is an element, an element does, since
\* the vulnerabilities come last.
LEMMA FirstElementKeeps ==
  ASSUME OutputInv, pc = "body", NothingShared,
         NEW e \in Listed \cap Element, given[e] # None
  PROVE  \E f \in Listed \cap Element : given[f] = given[e] /\ value[f] = given[e]
<1>1. /\ DP!IInv /\ DP!TypeOK
      /\ \A k \in DOMAIN bomrefs : given[bomrefs[k].ref] = bomrefs[k].original
  BY DP!BeforeFacts, DiscriminatorAssumptions DEF OutputInv, DP!IInv
<1>2. \A k \in DOMAIN bomrefs : bomrefs[k].ref \in Listed
  BY DEF Listed, Discriminator!Listed, Discriminator!RefsOf
<1>3. DOMAIN bomrefs = 1..Len(bomrefs) /\ Len(bomrefs) \in Nat
  BY <1>1, LenProperties DEF DP!TypeOK
<1> DEFINE Holders == {k \in DOMAIN bomrefs : bomrefs[k].original = given[e]}
<1>4. PICK j \in DOMAIN bomrefs : bomrefs[j].ref = e
  BY DEF Listed, Discriminator!Listed, Discriminator!RefsOf
<1>5. j \in Holders /\ Holders \subseteq Nat
  BY <1>1, <1>3, <1>4
<1>6. PICK k \in Holders : \A h \in Holders : k <= h
  BY <1>5, LeastNumber
<1>7. k \in DOMAIN bomrefs /\ bomrefs[k].original = given[e]
  BY <1>6
<1>8. \A h \in 1..(k - 1) : bomrefs[h].original # given[e]
  <2> SUFFICES ASSUME NEW h \in 1..(k - 1), bomrefs[h].original = given[e]
               PROVE  FALSE
    OBVIOUS
  <2>1. h \in DOMAIN bomrefs /\ ~(k <= h)
    BY <1>3, <1>7
  <2> QED
    BY <1>6, <2>1
<1>9. DP!Positions(bomrefs[k].ref) = {k}
  <2> DEFINE P == DP!Positions(bomrefs[k].ref)
  <2>1. Cardinality(P) = 1
    BY <1>2, <1>7, SameDiscriminator DEF NothingShared
  <2>2. P \subseteq 1..Len(bomrefs) /\ k \in P
    BY <1>3, <1>7 DEF DP!Positions
  <2> HIDE DEF P
  <2>3. IsFiniteSet(P)
    <3>1. 1 \in Int /\ Len(bomrefs) \in Int
      BY <1>3
    <3>2. IsFiniteSet(1..Len(bomrefs))
      BY <3>1, FS_Interval
    <3> QED
      BY <2>2, <3>2, FS_Subset
  <2>4. \E x : P = {x}
    BY <2>1, <2>3, FS_Singleton
  <2> QED
    BY <2>2, <2>4 DEF P
<1>10. value[bomrefs[k].ref] = given[e]
  BY <1>1, <1>7, <1>8, <1>9, DP!InvFirstHolder, DiscriminatorAssumptions
     DEF DP!FirstHolderKept
<1>11. bomrefs[k].ref \in Element
  <2>1. CASE k = j
    BY <1>4, <2>1
  <2>2. CASE k < j
    <3>1. bomrefs[k].ref \in Element \/ e \in Vulnerability
      BY <1>4, <1>7, <2>2 DEF OutputInv, Listing
    <3> QED
      BY <3>1, ObjectsAssumption
  <2>3. k = j \/ k < j
    BY <1>3, <1>4, <1>5, <1>6
  <2> QED
    BY <2>1, <2>2, <2>3
<1> QED
  BY <1>1, <1>2, <1>7, <1>10, <1>11

\* Elements that are listed are the BOM's, and BomRefs that are not listed have
\* the values they were given.
LEMMA ListedElements ==
  ASSUME OutputInv, pc = "body"
  PROVE  /\ Listed \cap Element \subseteq Everything
         /\ Listed \ Element \subseteq vulnerabilities
         /\ \A r \in Ref \ Listed : value[r] = given[r]
         /\ \A r \in RefsIn(dependencies) :
              r \in Ref /\ (r \in Listed => r \in Everything)
<1>1. Listed \subseteq Everything \cup vulnerabilities
  BY DEF OutputInv, Listing, Rendered
<1>2. vulnerabilities \subseteq Vulnerability
  BY DEF OutputInv, BomTyped
<1>4. Everything \subseteq Element
  BY ElementsOfBom DEF OutputInv, BomTyped
<1>5. \A r \in Ref \ Listed : value[r] = given[r]
  BY DP!BeforeFacts, DiscriminatorAssumptions, SameDiscriminator DEF OutputInv
<1>6. RefsIn(dependencies) \subseteq Element \cup Loose
  BY DEF OutputInv
<1> QED
  BY <1>1, <1>2, <1>4, <1>5, <1>6, ObjectsAssumption DEF Ref

\* What validate accepted resolves in the document too: a ref of the graph is
\* some element's bom-ref there, if it is a listed object's own or no object is
\* listed twice (bom.py:827-838 with output/__init__.py:155-162).
THEOREM LinksKeepResolving == OutputSpec => []LinksResolveUnlessShared
<1>1. OutputInv => LinksResolveUnlessShared
  <2> SUFFICES ASSUME OutputInv, pc = "body", NEW r \in RefsIn(dependencies),
                      r \in Listed \/ NothingShared
               PROVE  \E e \in Everything : value[e] = value[r]
    BY DEF LinksResolveUnlessShared
  <2>1. CASE r \in Listed
    BY <2>1, ListedElements
  <2>2. CASE NothingShared /\ r \notin Listed
    <3>1. PICK e \in Listed \cap Everything : EqualAsGiven(r, e)
      BY DEF OutputInv, Accepted
    <3>2. given[e] # None /\ given[r] = given[e]
      BY <2>2, <3>1 DEF EqualAsGiven
    <3>3. e \in Element
      BY <3>1, ElementsOfBom DEF OutputInv, BomTyped
    <3>4. PICK f \in Listed \cap Element : value[f] = given[e]
      BY <2>2, <3>1, <3>2, <3>3, FirstElementKeeps
    <3>5. value[r] = given[r]
      BY <2>2, ListedElements
    <3> QED
      BY <3>2, <3>4, <3>5, ListedElements
  <2> QED
    BY <2>1, <2>2
<1> QED
  BY <1>1, OutputInvHolds, PTL

\* The string by which a vulnerability names what it affects still names an
\* element that was given it (vulnerability.py BomTarget.ref), unless an object
\* is listed twice.
THEOREM AffectsKeepResolving == OutputSpec => []AffectsResolveUnlessShared
<1>1. OutputInv => AffectsResolveUnlessShared
  <2> SUFFICES ASSUME OutputInv, pc = "body", NothingShared,
                      NEW v \in vulnerabilities, NEW n \in Affects[v],
                      NEW e \in Everything \cap Listed, given[e] = n
               PROVE  \E f \in Everything : given[f] = n /\ value[f] = n
    BY DEF AffectsResolveUnlessShared
  <2>1. v \in Vulnerability /\ n \in Name
    BY StringsAssumption DEF OutputInv, BomTyped
  <2>2. n # None
    BY <2>1, TreeAssumption
  <2>3. e \in Element
    BY ElementsOfBom DEF OutputInv, BomTyped
  <2> QED
    BY <2>2, <2>3, FirstElementKeeps, ListedElements
<1> QED
  BY <1>1, OutputInvHolds, PTL

\* The document has an entry of the graph for the root and for every top-level
\* element with a given bom-ref of its own (bom.py:819-825), unless an object
\* is listed twice.
THEOREM EntriesAlwaysRendered == OutputSpec => []EntriesRendered
<1>1. OutputInv => EntriesRendered
  <2> SUFFICES ASSUME OutputInv, pc = "body", NothingShared, NEW e \in TopLevel,
                      \A f \in Listed \ {e} : given[f] # None => given[f] # given[e]
               PROVE  \E d \in DOMAIN dependencies : value[d] = value[e]
    BY DEF EntriesRendered
  <2>1. PICK d \in DOMAIN dependencies : EqualAsGiven(d, e)
    BY DEF OutputInv, Accepted
  <2>2. CASE d = e
    BY <2>2
  <2>3. CASE d # e
    <3>1. given[d] # None /\ given[d] = given[e]
      BY <2>1, <2>3 DEF EqualAsGiven
    <3>2. d \notin Listed
      BY <2>3, <3>1
    <3>3. value[d] = given[d]
      BY <3>2, ListedElements DEF RefsIn
    <3>4. e \in Listed /\ e \in Element
      BY ElementsOfBom DEF OutputInv, Listing, BomTyped, Everything
    <3>5. PICK f \in Listed \cap Element : given[f] = given[e] /\ value[f] = given[e]
      BY <3>1, <3>4, FirstElementKeeps
    <3>6. f = e
      BY <3>1, <3>5
    <3> QED
      BY <3>1, <3>3, <3>5, <3>6
  <2> QED
    BY <2>2, <2>3
<1> QED
  BY <1>1, OutputInvHolds, PTL

-----------------------------------------------------------------------------
\* UniqueRefs, seen from BomOutput and from the discriminator's theorems.
LEMMA SameAbstract ==
  /\ Discriminator!Abstract!Init <=> DP!Abstract!Init
  /\ [Discriminator!Abstract!Next]_(Discriminator!Abstract!vars)
       <=> [DP!Abstract!Next]_(DP!Abstract!vars)
<1>1. Discriminator!Before = DP!Before /\ Discriminator!Before' = DP!Before'
  BY DEF Discriminator!Before, DP!Before, Discriminator!PutBack, DP!PutBack,
         Discriminator!RefsOf, DP!RefsOf, Discriminator!IndexOf, DP!IndexOf
<1>2. Discriminator!Str = DP!Str
  BY DEF Discriminator!Str, DP!Str
<1>3. /\ Discriminator!Listed = DP!Listed /\ Discriminator!Listed' = DP!Listed'
      /\ Discriminator!ListedOnce = DP!ListedOnce
      /\ Discriminator!ListedOnce' = DP!ListedOnce'
  BY DEF Discriminator!Listed, DP!Listed, Discriminator!RefsOf, DP!RefsOf,
         Discriminator!ListedOnce, DP!ListedOnce, Discriminator!Positions, DP!Positions
<1> QED
  BY <1>1, <1>2, <1>3
     DEF Discriminator!Abstract!Init, DP!Abstract!Init,
         Discriminator!Abstract!Next, DP!Abstract!Next,
         Discriminator!Abstract!vars, DP!Abstract!vars,
         Discriminator!Abstract!Val, DP!Abstract!Val,
         Discriminator!Abstract!Assign, DP!Abstract!Assign,
         Discriminator!Abstract!Enter, DP!Abstract!Enter,
         Discriminator!Abstract!Exit, DP!Abstract!Exit,
         Discriminator!Abstract!Sound, DP!Abstract!Sound

\* Where neither the values nor the discriminator change, UniqueRefs stutters.
LEMMA IdleStutters ==
  ASSUME UNCHANGED <<value, discriminator>>
  PROVE  UNCHANGED DP!Abstract!vars
<1>1. UNCHANGED <<value, pc, bomrefs>>
  BY DEF discriminator
<1>2. DP!Before' = DP!Before
  BY <1>1 DEF DP!Before, DP!PutBack, DP!RefsOf, DP!IndexOf
<1> QED
  BY <1>1, <1>2 DEF DP!Abstract!vars, DP!Listed, DP!RefsOf, DP!ListedOnce, DP!Positions

\* Entering the with-block for what from_bom lists is a stuttering step.
LEMMA AcceptedStutters ==
  ASSUME OutputInv, OutputInv', pc = "app", NEW pick \in AllComponents,
         NEW s \in from_bom(pick), Discriminator!Enter(s)
  PROVE  UNCHANGED DP!Abstract!vars
<1>1. TypeOK
  BY InApp
<1>2. s \in [1..Len(s) -> Ref] /\ Len(s) \in Nat
  BY <1>1, FromBomFacts
<1>3. DP!Enter(s)
  BY SameDiscriminator
<1>4. DP!IInv /\ DP!TypeOK'
  BY DEF OutputInv, DP!IInv
<1>5. pc # "body" /\ pc' # "body" /\ UNCHANGED <<DP!Seen, DP!Before>>
  BY <1>2, <1>3, <1>4, DP!EnterStutters, DiscriminatorAssumptions
<1> QED
  BY <1>5 DEF DP!Abstract!vars, DP!Seen

\* Generating documents implements UniqueRefs, the specification of the
\* discriminator without loops, for the iterables from_bom makes
\* (output/__init__.py:149-177).
THEOREM OutputImplements == OutputSpec => ImplementsUniqueRefs
<1>1. OutputInit => Discriminator!Abstract!Init
  BY SameDiscriminator, SameAbstract, DP!InitRefines, DiscriminatorAssumptions
     DEF OutputInit
<1>2. OutputInv /\ OutputInv' /\ [OutputNext]_outputVars
        => [Discriminator!Abstract!Next]_(Discriminator!Abstract!vars)
  <2> SUFFICES ASSUME OutputInv, OutputInv', [OutputNext]_outputVars
               PROVE  [DP!Abstract!Next]_(DP!Abstract!vars)
    BY SameAbstract
  <2>1. DP!IInv /\ DP!IInv'
    BY DEF OutputInv
  <2>2. CASE Apply
    <3>1. TypeOK /\ Next
      BY <2>2, InApp DEF Apply, Next
    <3>2. value' = value
      BY <3>1, EveryGraphStep
    <3> QED
      BY <2>2, <3>2, IdleStutters DEF Apply
  <2>3. CASE generate
    <3>1. PICK pick \in AllComponents :
            /\ validateTracking(Tracked(pick))
            /\ \/ \E s \in from_bom(pick) : Discriminator!Enter(s)
               \/ UNCHANGED discriminator
      BY <2>3 DEF generate
    <3>2. value' = value /\ pc = "app"
      BY <2>3, <3>1 DEF generate, validateTracking, content
    <3> QED
      BY <3>1, <3>2, AcceptedStutters, IdleStutters
  <2>4. CASE Discriminating \/ Serialised
    BY <2>1, <2>4, DP!LoopRefines, DiscriminatorAssumptions, SameDiscriminator
       DEF Discriminating, Serialised
  <2>5. CASE UNCHANGED outputVars
    BY <2>5, IdleStutters DEF outputVars, vars, content
  <2> QED
    BY <2>2, <2>3, <2>4, <2>5 DEF OutputNext
<1> QED
  BY <1>1, <1>2, OutputInvHolds, PTL
     DEF OutputSpec, ImplementsUniqueRefs, Discriminator!Abstract!Spec
=============================================================================
