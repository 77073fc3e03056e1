------------------------------ MODULE BomProofs ------------------------------
(***************************************************************************)
(* What TLAPS proves of Bom for every tree of components and services,     *)
(* every assignment of bom-refs and every bound: typing, that registering  *)
(* makes no second entry for a ref and keeps edges, and what a validated   *)
(* BOM looks like.                                                         *)
(***************************************************************************)
EXTENDS Bom, TLAPS

\* Trees.  Below is recursive: the recursion has a solution, the elements
\* that are in every set with e that is closed under Children.
LEMMA BelowUnfolds ==
  Below = [e \in Element |-> {e} \cup UNION {Below[c] : c \in Children[e]}]
<1> DEFINE Closed(X) == \A x \in X : Children[x] \subseteq X
           Inside(e) == {X \in SUBSET Element : e \in X /\ Closed(X)}
           Down == [e \in Element |-> {y \in Element : \A X \in Inside(e) : y \in X}]
           Unfolded(f) == [e \in Element |-> {e} \cup UNION {f[c] : c \in Children[e]}]
<1>1. Down = Unfolded(Down)
  <2> SUFFICES ASSUME NEW e \in Element
               PROVE  Down[e] = {e} \cup UNION {Down[c] : c \in Children[e]}
    OBVIOUS
  <2> DEFINE X == {e} \cup UNION {Down[c] : c \in Children[e]}
  <2>0. \A x \in Element : Children[x] \subseteq Element
    BY TreeAssumption
  <2>1. X \subseteq Down[e]
    BY <2>0
  <2>2. X \in SUBSET Element
    BY <2>0
  <2>3. Closed(X)
    <3> SUFFICES ASSUME NEW x \in X, NEW z \in Children[x] PROVE z \in X
      OBVIOUS
    <3>1. z \in Element
      BY <2>0, <2>2
    <3>2. CASE x = e
      BY <3>1, <3>2
    <3>3. CASE \E c \in Children[e] : x \in Down[c]
      <4>1. PICK c \in Children[e] : x \in Down[c]
        BY <3>3
      <4>2. c \in Element
        BY <2>0
      <4>3. \A Y \in Inside(c) : x \in Y
        BY <4>1, <4>2
      <4>4. \A Y \in Inside(c) : z \in Y
        BY <4>3
      <4> QED
        BY <3>1, <4>2, <4>4
    <3> QED
      BY <3>2, <3>3
  <2>4. X \in Inside(e)
    BY <2>2, <2>3
  <2> HIDE DEF X
  <2>5. Down[e] \subseteq X
    BY <2>4
  <2> QED
    BY <2>1, <2>5 DEF X
<1>2. \E f : f = Unfolded(f)
  BY <1>1
<1> HIDE DEF Down
<1> QED
  BY <1>2 DEF Below

\* What is nested in an element is an element.
LEMMA BelowFacts ==
  ASSUME NEW e \in Element
  PROVE  /\ Below[e] = {e} \cup UNION {Below[c] : c \in Children[e]}
         /\ Below[e] \subseteq Element
<1> DEFINE Astray == {x \in Element : ~(Below[x] \subseteq Element)}
<1>1. \A x \in Element : Below[x] = {x} \cup UNION {Below[c] : c \in Children[x]}
  BY BelowUnfolds
<1>2. ASSUME Astray # {} PROVE FALSE
  <2>1. PICK x \in Astray : Children[x] \cap Astray = {}
    BY <1>2, NestingAssumption
  <2>2. \A c \in Children[x] : Below[c] \subseteq Element
    BY <2>1, TreeAssumption
  <2>3. Below[x] \subseteq Element
    BY <1>1, <2>2
  <2> QED
    BY <2>3
<1> QED
  BY <1>1, <1>2

\* A BOM holds elements only.
LEMMA ElementsOfBom ==
  ASSUME root \in Component \cup {None}, components \in SUBSET Component,
         services \in SUBSET Service
  PROVE  TopLevel \subseteq Element /\ Everything \subseteq Element
<1>1. TopLevel \subseteq Element
  BY DEF TopLevel, Roots, Element
<1> QED
  BY <1>1, BelowFacts DEF Everything

\* Equal elements: the recursion has a solution, the intersection of all
\* relations that are closed under it.
LEMMA SameUnfolds ==
  \A e, f \in Element :
    f \in Same[e] <=>
      \/ f = e
      \/ /\ Attributes[e] = Attributes[f]
         /\ value[e] = value[f]
         /\ e \in offending <=> f \in offending
         /\ \A x \in Children[e] : \E y \in Children[f] : y \in Same[x]
         /\ \A y \in Children[f] : \E x \in Children[e] : y \in Same[x]
<1> DEFINE Step(R, e, f) ==
             \/ f = e
             \/ /\ Attributes[e] = Attributes[f]
                /\ value[e] = value[f]
                /\ e \in offending <=> f \in offending
                /\ \A x \in Children[e] : \E y \in Children[f] : y \in R[x]
                /\ \A y \in Children[f] : \E x \in Children[e] : y \in R[x]
           Relations == [Element -> SUBSET Element]
           Closed(R) == \A e, f \in Element : Step(R, e, f) => f \in R[e]
           Unfolded(R) == [e \in Element |-> {f \in Element : Step(R, e, f)}]
           Least == [e \in Element |->
                       {f \in Element : \A R \in Relations : Closed(R) => f \in R[e]}]
<1>0. \A e \in Element : Children[e] \subseteq Element
  BY TreeAssumption
<1>1. Least \in Relations
  OBVIOUS
<1>2. ASSUME NEW R \in Relations, NEW Q \in Relations,
             \A e \in Element : R[e] \subseteq Q[e],
             NEW e \in Element, NEW f \in Element, Step(R, e, f)
      PROVE  Step(Q, e, f)
  <2> HIDE DEF Relations
  <2> QED
    BY <1>0, <1>2
<1>3. ASSUME NEW R \in Relations, Closed(R), NEW e \in Element
      PROVE  Least[e] \subseteq R[e]
  BY <1>3
<1>4. Closed(Least)
  <2> SUFFICES ASSUME NEW e \in Element, NEW f \in Element, Step(Least, e, f),
                      NEW R \in Relations, Closed(R)
               PROVE  f \in R[e]
    BY DEF Least
  <2>1. Step(R, e, f)
    <3> HIDE DEF Least, Step, Relations, Closed
    <3> QED
      BY <1>1, <1>2, <1>3
  <2> HIDE DEF Step
  <2> QED
    BY <2>1
<1>5. Unfolded(Least) \in Relations
  <2> HIDE DEF Least, Step
  <2> QED
    OBVIOUS
<1>6. \A e \in Element : Unfolded(Least)[e] = {f \in Element : Step(Least, e, f)}
  <2> HIDE DEF Least, Step
  <2> QED
    OBVIOUS
<1>7. \A e \in Element : Unfolded(Least)[e] \subseteq Least[e]
  <2> HIDE DEF Least, Step, Unfolded
  <2> QED
    BY <1>4, <1>6
<1>8. Closed(Unfolded(Least))
  <2> SUFFICES ASSUME NEW e \in Element, NEW f \in Element, Step(Unfolded(Least), e, f)
               PROVE  f \in Unfolded(Least)[e]
    OBVIOUS
  <2>1. Step(Least, e, f)
    <3> HIDE DEF Least, Step, Relations, Unfolded
    <3> QED
      BY <1>1, <1>2, <1>5, <1>7
  <2> HIDE DEF Least, Step, Unfolded
  <2> QED
    BY <1>6, <2>1
<1>9. \A e \in Element : Least[e] = Unfolded(Least)[e]
  <2> HIDE DEF Least, Unfolded, Closed, Relations
  <2> QED
    BY <1>3, <1>5, <1>7, <1>8
<1>10. Least = Unfolded(Least)
  <2>1. Least = [e \in Element |-> Least[e]]
    OBVIOUS
  <2>2. \A e \in Element : Least[e] = {f \in Element : Step(Least, e, f)}
    <3> HIDE DEF Least, Step, Unfolded
    <3> QED
      BY <1>6, <1>9
  <2> HIDE DEF Least, Step
  <2> QED
    BY <2>1, <2>2
<1>11. \E R : R = Unfolded(R)
  <2> HIDE DEF Least, Step
  <2> QED
    BY <1>10
<1>12. Same = Unfolded(Same)
  BY <1>11 DEF Same
<1>13. ASSUME NEW e \in Element, NEW f \in Element PROVE f \in Same[e] <=> Step(Same, e, f)
  <2>1. Same[e] = Unfolded(Same)[e]
    BY <1>12
  <2> HIDE DEF Step
  <2> QED
    BY <2>1
<1> QED
  BY <1>13
-----------------------------------------------------------------------------
\* What Newcomers promises to the set it adds to.
LEMMA NewcomersFacts ==
  ASSUME NEW S, NEW T, NEW A \in Newcomers(S, T)
  PROVE  /\ A \subseteq S
         /\ \A a \in A : \A t \in T : ~RefEq(a, t)
         /\ \A a, b \in A : RefEq(a, b) => a = b
         /\ \A s \in S : \E t \in T \cup A : RefEq(s, t)
BY DEF Newcomers

\* BomRef equality does not depend on the side it is asked from.
LEMMA RefEqSymmetric ==
  ASSUME NEW r, NEW q, RefEq(r, q)
  PROVE  RefEq(q, r)
BY DEF RefEq

\* A graph whose entries name a target once.
SetLike(d) == \A r \in DOMAIN d : \A x, y \in d[r] : RefEq(x, y) => x = y

\* A graph e with no two entries for one ref but those d has.
NoNewTwins(d, e) ==
  \A r, q \in DOMAIN e : RefEq(r, q) /\ r # q => r \in DOMAIN d /\ q \in DOMAIN d

Keeps(d, e) == \A r \in DOMAIN d : r \in DOMAIN e /\ d[r] \subseteq e[r]

LEMMA RegisteredFacts ==
  ASSUME NEW d, IsGraph(d), NEW S \in SUBSET Ref, NEW e \in Registered(d, S)
  PROVE  /\ IsGraph(e)
         /\ Keeps(d, e)
         /\ SetLike(d) => SetLike(e)
         /\ NoNewTwins(d, e)
         /\ \A s \in S : \E r \in DOMAIN e : RefEq(s, r)
         /\ (\A s \in S : \E r \in DOMAIN d : RefEq(s, r)) => e = d
         /\ RefsIn(e) \subseteq RefsIn(d) \cup S
<1>1. PICK A \in Newcomers(S, DOMAIN d) :
        e = [r \in DOMAIN d \cup A |-> IF r \in DOMAIN d THEN d[r] ELSE {}]
  BY DEF Registered
<1>2. /\ A \subseteq S
      /\ \A a \in A : \A t \in DOMAIN d : ~RefEq(a, t)
      /\ \A a, b \in A : RefEq(a, b) => a = b
      /\ \A s \in S : \E t \in DOMAIN d \cup A : RefEq(s, t)
  BY NewcomersFacts
<1>3. PICK D \in SUBSET Ref : d \in [D -> SUBSET Ref]
  BY DEF IsGraph
<1>4. DOMAIN e = D \cup A /\ DOMAIN d = D
  BY <1>1, <1>3
<1>5. IsGraph(e)
  <2>1. e \in [D \cup A -> SUBSET Ref]
    BY <1>1, <1>2, <1>3
  <2> QED
    BY <1>2, <2>1 DEF IsGraph
<1>6. Keeps(d, e)
  BY <1>1, <1>4 DEF Keeps
<1>7. ASSUME SetLike(d) PROVE SetLike(e)
  <2>1. ASSUME NEW r \in D \cup A, NEW x \in e[r], NEW y \in e[r], RefEq(x, y)
        PROVE  x = y
    BY <1>1, <1>4, <1>7, <2>1 DEF SetLike
  <2> QED
    BY <1>4, <2>1 DEF SetLike
<1>11. NoNewTwins(d, e)
  BY <1>2, <1>4, RefEqSymmetric DEF NoNewTwins
<1>8. \A s \in S : \E r \in DOMAIN e : RefEq(s, r)
  BY <1>2, <1>4
<1>9. ASSUME \A s \in S : \E r \in DOMAIN d : RefEq(s, r) PROVE e = d
  <2>1. A = {}
    BY <1>2, <1>9
  <2> QED
    BY <1>1, <1>3, <2>1
<1>10. RefsIn(e) \subseteq RefsIn(d) \cup S
  <2>1. \A r \in D : e[r] = d[r]
    BY <1>1, <1>4
  <2>2. \A r \in A \ D : e[r] = {}
    BY <1>1, <1>4
  <2>3. ASSUME NEW r \in DOMAIN e PROVE e[r] \subseteq RefsIn(d)
    <3>1. CASE r \in D
      BY <1>4, <2>1, <3>1 DEF RefsIn
    <3>2. CASE r \in A \ D
      BY <2>2, <3>2
    <3> QED
      BY <1>4, <2>3, <3>1, <3>2
  <2> QED
    BY <1>2, <1>4, <2>3 DEF RefsIn
<1> QED
  BY <1>5, <1>6, <1>7, <1>8, <1>9, <1>10, <1>11

\* The entry of the target after register_dependency's first half.
LEMMA EntryFacts ==
  ASSUME NEW d, IsGraph(d), NEW target \in Ref, NEW S \in SUBSET Ref,
         NEW e \in Extended(d, target, S) \cup Made(d, target, S)
  PROVE  /\ IsGraph(e)
         /\ Keeps(d, e)
         /\ SetLike(d) => SetLike(e)
         /\ NoNewTwins(d, e)
         /\ RefsIn(e) \subseteq RefsIn(d) \cup S \cup {target}
<1>1. PICK D \in SUBSET Ref : d \in [D -> SUBSET Ref]
  BY DEF IsGraph
<1>2. CASE e \in Extended(d, target, S)
  <2>1. PICK f \in DOMAIN d : /\ RefEq(f, target)
                              /\ \E A \in Newcomers(S, d[f]) :
                                   e = [d EXCEPT ![f] = @ \cup A]
    BY <1>2 DEF Extended
  <2>2. PICK A \in Newcomers(S, d[f]) : e = [d EXCEPT ![f] = @ \cup A]
    BY <2>1
  <2>3. /\ A \subseteq S
        /\ \A a \in A : \A t \in d[f] : ~RefEq(a, t)
        /\ \A a, b \in A : RefEq(a, b) => a = b
    BY <2>2, NewcomersFacts
  <2>4. /\ DOMAIN e = D /\ DOMAIN d = D
        /\ e[f] = d[f] \cup A
        /\ \A r \in D \ {f} : e[r] = d[r]
    BY <1>1, <2>2
  <2>5. e \in [D -> SUBSET Ref]
    BY <1>1, <2>2, <2>3
  <2>6. Keeps(d, e)
    BY <2>4 DEF Keeps
  <2>7. ASSUME SetLike(d) PROVE SetLike(e)
    <3>1. ASSUME NEW r \in D, NEW x \in e[r], NEW y \in e[r], RefEq(x, y)
          PROVE  x = y
      <4>1. CASE r = f
        BY <2>3, <2>4, <2>7, <3>1, <4>1, RefEqSymmetric DEF SetLike
      <4>2. CASE r # f
        BY <2>4, <2>7, <3>1, <4>2 DEF SetLike
      <4> QED
        BY <4>1, <4>2
    <3> QED
      BY <2>4, <2>7, <3>1 DEF SetLike
  <2>8. RefsIn(e) \subseteq RefsIn(d) \cup S
    BY <2>3, <2>4 DEF RefsIn
  <2>9. NoNewTwins(d, e)
    BY <2>4 DEF NoNewTwins
  <2> QED
    BY <2>5, <2>6, <2>7, <2>8, <2>9 DEF IsGraph
<1>3. CASE e \in Made(d, target, S)
  <2>1. /\ \A f \in DOMAIN d : ~RefEq(f, target)
        /\ \E A \in Newcomers(S, {}) :
             e = [r \in DOMAIN d \cup {target} |-> IF r = target THEN A ELSE d[r]]
    BY <1>3 DEF Made
  <2>2. PICK A \in Newcomers(S, {}) :
          e = [r \in DOMAIN d \cup {target} |-> IF r = target THEN A ELSE d[r]]
    BY <2>1
  <2>3. A \subseteq S /\ \A a, b \in A : RefEq(a, b) => a = b
    BY <2>2, NewcomersFacts
  <2>4. /\ DOMAIN e = D \cup {target} /\ DOMAIN d = D
        /\ target \notin D
        /\ e[target] = A
        /\ \A r \in D : e[r] = d[r]
    BY <1>1, <2>1, <2>2 DEF RefEq
  <2>5. e \in [D \cup {target} -> SUBSET Ref]
    BY <1>1, <2>2, <2>3
  <2>6. Keeps(d, e)
    BY <2>4 DEF Keeps
  <2>7. ASSUME SetLike(d) PROVE SetLike(e)
    <3>1. ASSUME NEW r \in D \cup {target}, NEW x \in e[r], NEW y \in e[r], RefEq(x, y)
          PROVE  x = y
      BY <2>3, <2>4, <2>7, <3>1 DEF SetLike
    <3> QED
      BY <2>4, <3>1 DEF SetLike
  <2>8. RefsIn(e) \subseteq RefsIn(d) \cup S \cup {target}
    BY <2>3, <2>4 DEF RefsIn
  <2>9. NoNewTwins(d, e)
    BY <2>1, <2>4, RefEqSymmetric DEF NoNewTwins
  <2> QED
    BY <2>5, <2>6, <2>7, <2>8, <2>9 DEF IsGraph
<1> QED
  BY <1>2, <1>3

\* An entry that is read is added as it is, or dropped for its equal.
LEMMA LoadedFacts ==
  ASSUME NEW d, IsGraph(d), NEW S \in SUBSET Ref,
         NEW r \in Ref, r \notin DOMAIN d, NEW e \in Loaded(d, r, S)
  PROVE  /\ IsGraph(e)
         /\ Keeps(d, e)
         /\ SetLike(d) => SetLike(e)
         /\ RefsIn(e) \subseteq RefsIn(d) \cup S \cup {r}
<1>1. CASE e = d
  BY <1>1 DEF Keeps
<1>2. CASE e # d
  <2>1. PICK D \in SUBSET Ref : d \in [D -> SUBSET Ref]
    BY DEF IsGraph
  <2>2. PICK A \in Newcomers(S, {}) :
          e = [q \in DOMAIN d \cup {r} |-> IF q = r THEN A ELSE d[q]]
    BY <1>2 DEF Loaded
  <2>3. A \subseteq S /\ \A a, b \in A : RefEq(a, b) => a = b
    BY <2>2, NewcomersFacts
  <2>4. /\ DOMAIN e = D \cup {r} /\ DOMAIN d = D /\ r \notin D
        /\ e[r] = A
        /\ \A q \in D : e[q] = d[q]
    BY <2>1, <2>2
  <2>5. e \in [D \cup {r} -> SUBSET Ref]
    BY <2>1, <2>2, <2>3
  <2>6. Keeps(d, e)
    BY <2>4 DEF Keeps
  <2>7. SetLike(d) => SetLike(e)
    BY <2>3, <2>4 DEF SetLike
  <2>8. RefsIn(e) \subseteq RefsIn(d) \cup S \cup {r}
    BY <2>3, <2>4 DEF RefsIn
  <2> QED
    BY <2>5, <2>6, <2>7, <2>8 DEF IsGraph
<1> QED
  BY <1>1, <1>2

\* Validate's step 0 registers the root, the components and the services.
LEMMA PreparedFacts ==
  ASSUME TypeOK, NEW e \in Prepared
  PROVE  /\ IsGraph(e)
         /\ Keeps(dependencies, e)
         /\ SetLike(dependencies) => SetLike(e)
         /\ NoNewTwins(dependencies, e)
         /\ \A s \in TopLevel : \E r \in DOMAIN e : RefEq(s, r)
         /\ (\A s \in TopLevel : \E r \in DOMAIN dependencies : RefEq(s, r))
              => e = dependencies
         /\ RefsIn(e) \subseteq RefsIn(dependencies) \cup TopLevel
<1>1. PICK a \in Registered(dependencies, Roots) :
        e \in UNION {Registered(d, services) : d \in Registered(a, components)}
  BY DEF Prepared
<1>2. PICK b \in Registered(a, components) : e \in Registered(b, services)
  BY <1>1
<1>3. /\ IsGraph(dependencies)
      /\ Roots \in SUBSET Ref /\ components \in SUBSET Ref /\ services \in SUBSET Ref
  BY DEF TypeOK, Roots, Ref, Element
<1>4. /\ IsGraph(a) /\ Keeps(dependencies, a)
      /\ SetLike(dependencies) => SetLike(a)
      /\ NoNewTwins(dependencies, a)
      /\ \A s \in Roots : \E r \in DOMAIN a : RefEq(s, r)
      /\ (\A s \in Roots : \E r \in DOMAIN dependencies : RefEq(s, r)) => a = dependencies
      /\ RefsIn(a) \subseteq RefsIn(dependencies) \cup Roots
  BY <1>3, RegisteredFacts
<1>5. /\ IsGraph(b) /\ Keeps(a, b)
      /\ SetLike(a) => SetLike(b)
      /\ NoNewTwins(a, b)
      /\ \A s \in components : \E r \in DOMAIN b : RefEq(s, r)
      /\ (\A s \in components : \E r \in DOMAIN a : RefEq(s, r)) => b = a
      /\ RefsIn(b) \subseteq RefsIn(a) \cup components
  BY <1>2, <1>3, <1>4, RegisteredFacts
<1>6. /\ IsGraph(e) /\ Keeps(b, e)
      /\ SetLike(b) => SetLike(e)
      /\ NoNewTwins(b, e)
      /\ \A s \in services : \E r \in DOMAIN e : RefEq(s, r)
      /\ (\A s \in services : \E r \in DOMAIN b : RefEq(s, r)) => e = b
      /\ RefsIn(e) \subseteq RefsIn(b) \cup services
  BY <1>2, <1>3, <1>5, RegisteredFacts
<1>7. Keeps(a, e) /\ Keeps(dependencies, e)
  BY <1>4, <1>5, <1>6 DEF Keeps
<1>8. \A s \in TopLevel : \E r \in DOMAIN e : RefEq(s, r)
  BY <1>4, <1>5, <1>6, <1>7 DEF Keeps, TopLevel
<1>9. ASSUME \A s \in TopLevel : \E r \in DOMAIN dependencies : RefEq(s, r)
      PROVE  e = dependencies
  BY <1>4, <1>5, <1>6, <1>9 DEF TopLevel
<1>10. RefsIn(e) \subseteq RefsIn(dependencies) \cup TopLevel
  BY <1>4, <1>5, <1>6 DEF TopLevel
<1>11. NoNewTwins(dependencies, e)
  <2>1. ASSUME NEW r \in DOMAIN e, NEW q \in DOMAIN e, RefEq(r, q), r # q
        PROVE  r \in DOMAIN dependencies /\ q \in DOMAIN dependencies
    <3>1. r \in DOMAIN b /\ q \in DOMAIN b
      BY <1>6, <2>1 DEF NoNewTwins
    <3>2. r \in DOMAIN a /\ q \in DOMAIN a
      BY <1>5, <2>1, <3>1 DEF NoNewTwins
    <3> QED
      BY <1>4, <2>1, <3>2 DEF NoNewTwins
  <2> QED
    BY <2>1 DEF NoNewTwins
<1> QED
  BY <1>4, <1>5, <1>6, <1>7, <1>8, <1>9, <1>10, <1>11

\* Every action either leaves the graph alone, empties it, or turns it into
\* a graph that keeps it, is set-like if it was, and speaks beside of elements
\* and loose refs only; registering and validating make no twins.
GraphStep ==
  \/ dependencies' = dependencies
  \/ dependencies' = [r \in {} |-> {}]
  \/ /\ IsGraph(dependencies')
     /\ Keeps(dependencies, dependencies')
     /\ SetLike(dependencies) => SetLike(dependencies')
     /\ last'.op \in {"register", "validate"} => NoNewTwins(dependencies, dependencies')
     /\ RefsIn(dependencies') \subseteq RefsIn(dependencies) \cup Element \cup Loose

LEMMA EveryGraphStep ==
  ASSUME TypeOK, [Next]_vars
  PROVE  GraphStep /\ value' = value
<1>0. IsGraph(dependencies)
  BY DEF TypeOK
<1>1. ASSUME NEW c \in Component \cup {None}, SetRoot(c)
      PROVE  GraphStep /\ value' = value
  BY <1>1 DEF SetRoot, GraphStep
<1>2. ASSUME NEW c \in Component, AddComponent(c) \/ DiscardComponent(c)
      PROVE  GraphStep /\ value' = value
  BY <1>2 DEF AddComponent, DiscardComponent, GraphStep
<1>3. ASSUME NEW s \in Service, AddService(s) \/ DiscardService(s)
      PROVE  GraphStep /\ value' = value
  BY <1>3 DEF AddService, DiscardService, GraphStep
<1>9. ASSUME NEW v \in Vulnerability, AddVulnerability(v)
      PROVE  GraphStep /\ value' = value
  BY <1>9 DEF AddVulnerability, GraphStep
<1>4. ASSUME NEW r \in Loose, NEW S \in SUBSET Loose, LoadDependency(r, S)
      PROVE  GraphStep /\ value' = value
  <2>1. r \in Ref /\ S \in SUBSET Ref /\ S \cup {r} \subseteq Loose
    BY DEF Ref
  <2>2. /\ r \notin DOMAIN dependencies
        /\ dependencies' \in Loaded(dependencies, r, S)
        /\ value' = value
        /\ last'.op = "app"
    BY <1>4 DEF LoadDependency, content, Idle, Call
  <2> QED
    BY <1>0, <2>1, <2>2, LoadedFacts DEF GraphStep
<1>5. CASE ClearDependencies
  BY <1>5 DEF ClearDependencies, GraphStep, content
<1>6. ASSUME NEW t \in Element, NEW S \in DependsOn, NEW oneShot \in BOOLEAN,
             register_dependency(t, S, oneShot)
      PROVE  GraphStep /\ value' = value
  <2>1. t \in Ref /\ S \in SUBSET Ref
    BY DEF Ref, DependsOn
  <2>2. PICK d \in Extended(dependencies, t, S) \cup Made(dependencies, t, S) :
          dependencies' \in Registered(d, IF oneShot THEN {} ELSE S)
    BY <1>6 DEF register_dependency
  <2>3. /\ IsGraph(d) /\ Keeps(dependencies, d) /\ (SetLike(dependencies) => SetLike(d))
        /\ NoNewTwins(dependencies, d)
        /\ RefsIn(d) \subseteq RefsIn(dependencies) \cup S \cup {t}
    BY <1>0, <2>1, EntryFacts
  <2>4. (IF oneShot THEN {} ELSE S) \in SUBSET Ref /\ S \cup {t} \subseteq Element
    BY <2>1 DEF DependsOn
  <2>5. /\ IsGraph(dependencies') /\ Keeps(d, dependencies')
        /\ SetLike(d) => SetLike(dependencies')
        /\ NoNewTwins(d, dependencies')
        /\ RefsIn(dependencies') \subseteq RefsIn(d) \cup (IF oneShot THEN {} ELSE S)
    BY <2>2, <2>3, <2>4, RegisteredFacts
  <2>6. Keeps(dependencies, dependencies')
    BY <2>3, <2>5 DEF Keeps
  <2>7. RefsIn(dependencies') \subseteq RefsIn(dependencies) \cup Element
    BY <2>3, <2>4, <2>5
  <2>8. NoNewTwins(dependencies, dependencies')
    BY <2>3, <2>5 DEF NoNewTwins
  <2> QED
    BY <1>6, <2>3, <2>5, <2>6, <2>7, <2>8 DEF GraphStep, register_dependency, content
<1>7. CASE validate
  <2>1. TopLevel \subseteq Element
    BY DEF TypeOK, TopLevel, Roots, Element
  <2> QED
    BY <1>7, <2>1, PreparedFacts DEF GraphStep, validate, validateTracking, content
<1>8. CASE UNCHANGED vars
  BY <1>8 DEF vars, content, GraphStep
<1> QED
  BY <1>1, <1>2, <1>3, <1>4, <1>5, <1>6, <1>7, <1>8, <1>9 DEF Next, Edit, Relate

LEMMA EmptyGraph ==
  IsGraph([r \in {} |-> {}]) /\ SetLike([r \in {} |-> {}])
<1>1. [r \in {} |-> {}] \in [{} -> SUBSET Ref]
  OBVIOUS
<1> QED
  BY <1>1 DEF IsGraph, SetLike

-----------------------------------------------------------------------------
\* The result of validate() is one of its three verdicts.
LEMMA VerdictType ==
  ASSUME NEW d, NEW tracked
  PROVE  Verdict(d, tracked) \in {"ok", "UnknownComponentDependency",
                                  "LicenseExpressionAlongWithOthers"}
BY DEF Verdict

\* Every step keeps the types.
LEMMA TypeStep == TypeOK /\ [Next]_vars => TypeOK'
<1> SUFFICES ASSUME TypeOK, [Next]_vars PROVE TypeOK'
  OBVIOUS
<1>1. IsGraph(dependencies') /\ value' = value
  BY EveryGraphStep, EmptyGraph DEF GraphStep, TypeOK
<1>2. Idle \in [op : {"app", "register", "validate"}, on : SUBSET Element,
                verdict : {"none", "ok", "UnknownComponentDependency",
                           "LicenseExpressionAlongWithOthers"},
                warned : BOOLEAN]
  BY DEF Idle, Call
<1>3. ASSUME NEW c \in Component \cup {None}, SetRoot(c) PROVE TypeOK'
  BY <1>1, <1>2, <1>3 DEF SetRoot, TypeOK
<1>4. ASSUME NEW c \in Component, AddComponent(c) \/ DiscardComponent(c) PROVE TypeOK'
  <2>1. /\ components' \in SUBSET Component
        /\ last' = Idle /\ offending' = offending /\ root' = root /\ services' = services
        /\ vulnerabilities' = vulnerabilities
    BY <1>4 DEF AddComponent, DiscardComponent, TypeOK
  <2> QED
    BY <1>1, <1>2, <2>1 DEF TypeOK
<1>5. ASSUME NEW s \in Service, AddService(s) \/ DiscardService(s) PROVE TypeOK'
  <2>1. /\ services' \in SUBSET Service
        /\ last' = Idle /\ offending' = offending /\ root' = root /\ components' = components
        /\ vulnerabilities' = vulnerabilities
    BY <1>5 DEF AddService, DiscardService, TypeOK
  <2> QED
    BY <1>1, <1>2, <2>1 DEF TypeOK
<1>11. ASSUME NEW v \in Vulnerability, AddVulnerability(v) PROVE TypeOK'
  <2>1. /\ vulnerabilities' \in SUBSET Vulnerability
        /\ last' = Idle /\ offending' = offending /\ root' = root
        /\ components' = components /\ services' = services
    BY <1>11 DEF AddVulnerability, TypeOK
  <2> QED
    BY <1>1, <1>2, <2>1 DEF TypeOK
<1>6. ASSUME NEW r \in Loose, NEW S \in SUBSET Loose, LoadDependency(r, S) PROVE TypeOK'
  BY <1>1, <1>2, <1>6 DEF LoadDependency, TypeOK, content
<1>7. CASE ClearDependencies
  BY <1>1, <1>2, <1>7 DEF ClearDependencies, TypeOK, content
<1>8. ASSUME NEW t \in Element, NEW S \in DependsOn, NEW oneShot \in BOOLEAN,
             register_dependency(t, S, oneShot)
      PROVE  TypeOK'
  <2>1. last' = Call("register", S, "none", FALSE) /\ S \in SUBSET Element
    BY <1>8 DEF register_dependency, DependsOn
  <2>2. UNCHANGED content
    BY <1>8 DEF register_dependency
  <2> QED
    BY <1>1, <2>1, <2>2 DEF TypeOK, Call, content
<1>9. CASE validate
  <2>1. UNCHANGED content
    BY <1>9 DEF validate, validateTracking
  <2>2. PICK pick \in AllComponents :
          last' = Call("validate", {}, Verdict(dependencies', Tracked(pick)),
                       /\ Unknown(dependencies', Tracked(pick)) = {}
                       /\ Incomplete(dependencies'))
    BY <1>9 DEF validate, validateTracking
  <2>3. /\ last'.op = "validate" /\ last'.on = {}
        /\ last'.verdict = Verdict(dependencies', Tracked(pick))
        /\ last'.warned \in BOOLEAN
        /\ last' = Call(last'.op, last'.on, last'.verdict, last'.warned)
    BY <2>2 DEF Call
  <2>4. last'.verdict \in {"ok", "UnknownComponentDependency",
                           "LicenseExpressionAlongWithOthers"}
    BY <2>3, VerdictType
  <2> QED
    BY <1>1, <2>1, <2>3, <2>4 DEF TypeOK, Call, content
<1>10. CASE UNCHANGED vars
  BY <1>1, <1>10 DEF vars, TypeOK, content
<1> QED
  BY <1>3, <1>4, <1>5, <1>6, <1>7, <1>8, <1>9, <1>10, <1>11 DEF Next, Edit, Relate

\* The graph never speaks of the bom-ref of a vulnerability.
LEMMA RefsStep ==
  ASSUME TypeOK, RefsIn(dependencies) \subseteq Element \cup Loose, [Next]_vars
  PROVE  RefsIn(dependencies)' \subseteq Element \cup Loose
BY EveryGraphStep DEF GraphStep, RefsIn

LEMMA InitTypes == Init => TypeOK
BY EmptyGraph DEF Init, TypeOK, Idle, Call

\* Typing holds in every reachable state (bom.py:781-866).
THEOREM TypeCorrect == Spec => []TypeOK
BY InitTypes, TypeStep, PTL DEF Spec

\* Registering and validating make no second entry for a ref, and an entry
\* names a target once, for every tree, every assignment of bom-refs and
\* every graph that is loaded, twins in it or not (bom.py:781-797).
THEOREM GraphStaysSet == Spec => NoTwinsMade
<1>1. Init => SetLike(dependencies)
  BY DEF Init, SetLike
<1>2. TypeOK /\ SetLike(dependencies) /\ [Next]_vars => SetLike(dependencies)'
  <2> SUFFICES ASSUME TypeOK, SetLike(dependencies), [Next]_vars
               PROVE  SetLike(dependencies)'
    OBVIOUS
  <2>1. GraphStep /\ value' = value
    BY EveryGraphStep
  <2>2. SetLike(dependencies')
    BY <2>1, EmptyGraph DEF GraphStep
  <2> QED
    BY <2>1, <2>2 DEF SetLike, RefEq
<1>3. TypeOK /\ SetLike(dependencies) /\ [Next]_vars =>
        [/\ last'.op \in {"register", "validate"} =>
              Twins(DOMAIN dependencies') \subseteq Twins(DOMAIN dependencies)
         /\ \A r \in DOMAIN dependencies' : Twins(dependencies'[r]) = {}]_vars
  <2> SUFFICES ASSUME TypeOK, SetLike(dependencies), [Next]_vars
               PROVE  /\ last'.op \in {"register", "validate"} =>
                            Twins(DOMAIN dependencies') \subseteq Twins(DOMAIN dependencies)
                      /\ \A r \in DOMAIN dependencies' : Twins(dependencies'[r]) = {}
    OBVIOUS
  <2>1. GraphStep
    BY EveryGraphStep
  <2>2. SetLike(dependencies')
    BY <2>1, EmptyGraph DEF GraphStep
  <2>3. \A r \in DOMAIN dependencies' : Twins(dependencies'[r]) = {}
    BY <2>2 DEF SetLike, Twins
  <2>4. ASSUME last'.op \in {"register", "validate"}
        PROVE  Twins(DOMAIN dependencies') \subseteq Twins(DOMAIN dependencies)
    <3>1. CASE dependencies' = dependencies
      BY <3>1
    <3>2. CASE dependencies' = [r \in {} |-> {}]
      BY <3>2 DEF Twins
    <3>3. CASE NoNewTwins(dependencies, dependencies')
      BY <3>3 DEF NoNewTwins, Twins
    <3> QED
      BY <2>1, <2>4, <3>1, <3>2, <3>3 DEF GraphStep
  <2> QED
    BY <2>3, <2>4
<1> QED
  BY <1>1, <1>2, <1>3, TypeCorrect, PTL DEF Spec, NoTwinsMade

\* No call removes an entry or an edge (bom.py:786, 789-792).
THEOREM EdgesStay == Spec => EdgesKept
<1>1. TypeOK /\ [Next]_vars =>
        [\/ dependencies' = [r \in {} |-> {}]
         \/ \A r \in DOMAIN dependencies :
              /\ r \in DOMAIN dependencies'
              /\ dependencies[r] \subseteq dependencies'[r]]_vars
  BY EveryGraphStep DEF GraphStep, Keeps
<1> QED
  BY <1>1, TypeCorrect, PTL DEF Spec, EdgesKept

\* What validate tracks are elements of the BOM.
LEMMA TrackedInBom ==
  ASSUME NEW pick \in AllComponents
  PROVE  Tracked(pick) \subseteq Everything
<1>1. /\ DOMAIN pick = Roots \cup components
      /\ \A c \in DOMAIN pick : pick[c] \in Nested(c)
  BY DEF AllComponents
<1>2. ASSUME NEW c \in Roots \cup components
      PROVE  pick[c] \subseteq Below[c] /\ c \in TopLevel
  <2>1. pick[c] \in Nested(c)
    BY <1>1
  <2> QED
    BY <2>1 DEF Nested, TopLevel
<1> QED
  BY <1>1, <1>2 DEF Everything, Tracked

\* An accepted BOM's graph speaks of elements of the BOM only and has every
\* top-level element, until the application changes something (bom.py:820-838).
THEOREM AcceptedIsClosed == Spec => []ValidatedIsClosed
<1>1. Init => ValidatedIsClosed
  BY DEF Init, ValidatedIsClosed, Idle, Call
<1>2. TypeOK /\ ValidatedIsClosed /\ [Next]_vars => ValidatedIsClosed'
  <2> SUFFICES ASSUME TypeOK, ValidatedIsClosed, [Next]_vars PROVE ValidatedIsClosed'
    OBVIOUS
  <2>1. CASE validate
    <3>1. UNCHANGED content /\ dependencies' \in Prepared
      BY <2>1 DEF validate, validateTracking
    <3>2. PICK pick \in AllComponents :
            last'.verdict = Verdict(dependencies', Tracked(pick))
      BY <2>1 DEF validate, validateTracking, Call
    <3>3. ASSUME last'.verdict = "ok"
          PROVE  /\ \A r \in RefsIn(dependencies') : \E e \in Everything : RefEq(r, e)
                 /\ \A e \in TopLevel : \E d \in DOMAIN dependencies' : RefEq(d, e)
      <4>1. Unknown(dependencies', Tracked(pick)) = {}
        BY <3>2, <3>3 DEF Verdict
      <4>2. \A r \in RefsIn(dependencies') : \E e \in Tracked(pick) \cup services : RefEq(r, e)
        BY <4>1 DEF Unknown
      <4>3. Tracked(pick) \cup services \subseteq Everything
        BY TrackedInBom DEF Everything, TopLevel
      <4>4. \A e \in TopLevel : \E d \in DOMAIN dependencies' : RefEq(e, d)
        BY <3>1, PreparedFacts
      <4> QED
        BY <4>2, <4>3, <4>4, RefEqSymmetric
    <3>4. /\ Everything' = Everything /\ TopLevel' = TopLevel
          /\ RefsIn(dependencies)' = RefsIn(dependencies')
          /\ \A x, y : RefEq(x, y)' <=> RefEq(x, y)
      BY <3>1 DEF content, Everything, TopLevel, Roots, RefsIn, RefEq
    <3> QED
      BY <3>3, <3>4 DEF ValidatedIsClosed
  <2>2. CASE UNCHANGED vars
    BY <2>2 DEF vars, content, ValidatedIsClosed, Everything, TopLevel, Roots, RefsIn, RefEq
  <2>3. CASE Next /\ ~validate
    <3>1. last'.verdict = "none"
      BY <2>3 DEF Next, Edit, Relate, AddVulnerability, SetRoot, AddComponent, DiscardComponent, AddService,
                  DiscardService, LoadDependency, ClearDependencies,
                  register_dependency, Idle, Call
    <3> QED
      BY <3>1 DEF ValidatedIsClosed
  <2> QED
    BY <2>1, <2>2, <2>3
<1> QED
  BY <1>1, <1>2, TypeCorrect, PTL DEF Spec

\* Validating an accepted BOM again leaves its graph alone (bom.py:819-825).
THEOREM RevalidatingIsIdle == Spec => ValidateIdempotent
<1>1. TypeOK /\ ValidatedIsClosed /\ [Next]_vars =>
        [last.verdict = "ok" /\ last'.op = "validate" => UNCHANGED dependencies]_vars
  <2> SUFFICES ASSUME TypeOK, ValidatedIsClosed, Next,
                      last.verdict = "ok", last'.op = "validate"
               PROVE  UNCHANGED dependencies
    BY DEF vars
  <2>1. validate
    BY DEF Next, Edit, Relate, AddVulnerability, SetRoot, AddComponent, DiscardComponent, AddService,
           DiscardService, LoadDependency, ClearDependencies,
           register_dependency, Idle, Call
  <2>2. \A s \in TopLevel : \E r \in DOMAIN dependencies : RefEq(s, r)
    BY RefEqSymmetric DEF ValidatedIsClosed
  <2> QED
    BY <2>1, <2>2, PreparedFacts DEF validate, validateTracking
<1> QED
  BY <1>1, TypeCorrect, AcceptedIsClosed, PTL DEF Spec, ValidateIdempotent
=============================================================================
