----------------------------- MODULE HelpersProofs -----------------------------
(***************************************************************************)
(* What the serialisation helpers do, proved for whatever tables, names    *)
(* and number of items.                                                    *)
(***************************************************************************)
EXTENDS Helpers, FiniteSetTheorems, TLAPS

\* The items of a subject with the values the code has.
Own(s) == Items(s, IF s \in Enumeration THEN Values[s] ELSE {})

\* The types with those of the history.
Typed ==
  /\ TypeOK
  /\ origin \subseteq ItemsHere
  /\ IF doc.low = Never THEN doc.of = doc.items ELSE doc.of \subseteq ItemsHere

-------------------------------------------------------------------------------
\* The first of one element is the element.
LEMMA FirstOfOne == ASSUME NEW x PROVE First({x}) = x
  BY DEF First

\* The first of a set is in it.
LEMMA FirstIn == ASSUME NEW S, S # {} PROVE First(S) \in S
  BY DEF First

LEMMA VersionsOrdered ==
  ASSUME NEW v \in Versions, NEW w \in Versions
  PROVE  /\ v \in Nat /\ w \in Nat /\ Older(w, v) \in Versions
         /\ Never \notin Versions
         /\ Older(w, v) = w \/ Older(w, v) = v
         /\ Older(w, v) <= w /\ Older(w, v) <= v
  BY DEF Versions, Older, Never

\* Helpers make items of the items of a subject.
LEMMA ShownItems ==
  ASSUME NEW s \in Subject, NEW v \in Versions, NEW S, S \subseteq Own(s)
  PROVE  Shown(s, v, S) \subseteq Own(s)
<1>1. CASE v < Begins[s]
  BY <1>1 DEF Shown
<1>2. CASE ~(v < Begins[s])
  <2>1. CASE s = "licenses"
    <3>1. Shown(s, v, S) = LicensesShown(S)
      BY <1>2, <2>1 DEF Shown
    <3>2. LicensesShown(S) \subseteq S
      BY FirstIn DEF LicensesShown
    <3> QED BY <3>1, <3>2
  <2>2. CASE s = "tools"
    <3>1. Shown(s, v, S) = ToolsShown(v, S)
      BY <1>2, <2>2 DEF Shown
    <3>2. \A i \in S : AsTool(i) \in Own(s)
      BY <2>2 DEF Own, Items, AsTool
    <3> QED BY <3>1, <3>2 DEF ToolsShown
  <2>3. CASE s = "IdentityField"
    <3>1. Shown(s, v, S) = IdentitiesShown(v, S)
      BY <1>2, <2>3 DEF Shown
    <3> QED BY <3>1, FirstIn DEF IdentitiesShown
  <2>4. CASE s = "HashAlgorithm"
    BY <1>2, <2>4 DEF Shown, HashesShown
  <2>5. CASE s \notin {"licenses", "tools", "IdentityField", "HashAlgorithm"}
    <3>1. Shown(s, v, S) = {Normalized(s, v, i) : i \in S}
      BY <1>2, <2>5 DEF Shown
    <3>2. ASSUME NEW i \in S PROVE Normalized(s, v, i) \in Own(s)
      <4>1. CASE s = "ComponentScope"
        <5>1. Own(s) = [is : {"value"}, name : Names[s], more : {None},
                        code : (IF s \in Enumeration THEN Values[s] ELSE {}) \cup {None}]
          BY <4>1 DEF Own, Items
        <5>2. Replacement[s] = None
          BY <4>1 DEF Replacement
        <5> QED BY <5>1, <5>2, <3>2 DEF Normalized
      <4>2. CASE s \in DOMAIN Replacement /\ s # "ComponentScope"
        <5>1. s \in {"ExternalReferenceType", "VulnerabilityScoreSource"}
          BY <4>2 DEF Replacement
        <5>2. s \in Enumeration
          BY <5>1 DEF Subject
        <5>3. Own(s) = [is : {"value"}, code : Values[s], name : Names[s], more : {None}]
          BY <5>1, <5>2 DEF Own, Items
        <5>4. "other" \in Values[s]
          BY <1>2, <5>1, TablesAssumption DEF Replacement
        <5>5. Replacement[s] = "other"
          BY <5>1 DEF Replacement
        <5> QED BY <5>3, <5>4, <5>5, <3>2 DEF Normalized
      <4>3. CASE s \notin DOMAIN Replacement
        BY <4>3, <3>2 DEF Normalized
      <4> QED BY <4>1, <4>2, <4>3
    <3> QED BY <3>1, <3>2
  <2> QED BY <2>1, <2>2, <2>3, <2>4, <2>5
<1> QED BY <1>1, <1>2

\* A second rendering shows what the older of the two versions does.
LEMMA ShownAgain ==
  ASSUME NEW s \in Subject, NEW v \in Versions, NEW w \in Versions,
         NEW S, S \subseteq Own(s)
  PROVE  Shown(s, v, Shown(s, w, S)) = Shown(s, Older(w, v), S)
<1> DEFINE T == Shown(s, w, S)
<1>0. /\ v \in Nat /\ w \in Nat /\ Begins[s] \in Nat
      /\ Older(w, v) = IF w <= v THEN w ELSE v
  BY TablesAssumption DEF Versions, Older
<1>1. Shown(s, v, {}) = {}
  <2>1. LicensesShown({}) = {}
    BY DEF LicensesShown
  <2>2. ToolsShown(v, {}) = {}
    BY DEF ToolsShown
  <2>3. IdentitiesShown(v, {}) = {}
    BY DEF IdentitiesShown
  <2>4. HashesShown(v, {}) = {}
    BY DEF HashesShown
  <2> QED BY <2>1, <2>2, <2>3, <2>4 DEF Shown
<1>2. CASE w < Begins[s]
  <2>1. T = {}
    BY <1>2 DEF Shown
  <2>2. Older(w, v) < Begins[s]
    BY <1>0, <1>2
  <2> QED BY <2>1, <2>2, <1>1 DEF Shown
<1>3. CASE v < Begins[s]
  <2>1. Older(w, v) < Begins[s]
    BY <1>0, <1>3
  <2> QED BY <2>1, <1>3 DEF Shown
<1>4. CASE ~(w < Begins[s]) /\ ~(v < Begins[s])
  <2>0. ~(Older(w, v) < Begins[s])
    BY <1>0, <1>4
  <2>1. CASE s = "licenses"
    <3>1. \A u, R : ~(u < Begins[s]) => Shown(s, u, R) = LicensesShown(R)
      BY <2>1 DEF Shown
    <3>2. LicensesShown(LicensesShown(S)) = LicensesShown(S)
      <4> DEFINE E == {i \in S : i.is = "expression"}
      <4>1. CASE E = {}
        BY <4>1 DEF LicensesShown
      <4>2. CASE E # {}
        <5>1. LicensesShown(S) = {First(E)} /\ First(E).is = "expression"
          BY <4>2, FirstIn DEF LicensesShown
        <5>2. {i \in {First(E)} : i.is = "expression"} = {First(E)}
          BY <5>1
        <5> QED BY <5>1, <5>2, FirstOfOne DEF LicensesShown
      <4> QED BY <4>1, <4>2
    <3> QED BY <3>1, <3>2, <2>0, <1>4
  <2>2. CASE s = "tools"
    <3>1. \A u, R : ~(u < Begins[s]) => Shown(s, u, R) = ToolsShown(u, R)
      BY <2>2 DEF Shown
    <3>2. \A i : AsTool(AsTool(i)) = AsTool(i) /\ AsTool(i).is = "tool"
      BY DEF AsTool
    <3>3. ToolsShown(v, ToolsShown(w, S)) = ToolsShown(Older(w, v), S)
      <4> DEFINE Flat == {AsTool(i) : i \in S}
      <4>1. {AsTool(i) : i \in Flat} = Flat
        BY <3>2
      <4>2. CASE \E i \in S : i.is = "tool"
        <5>1. \A u : ToolsShown(u, S) = Flat
          BY <4>2 DEF ToolsShown
        <5>2. ToolsShown(v, Flat) = Flat
          <6>1. \E i \in Flat : i.is = "tool"
            BY <4>2, <3>2
          <6> QED BY <6>1, <4>1 DEF ToolsShown
        <5> QED BY <5>1, <5>2
      <4>3. CASE w >= 5 /\ \A i \in S : i.is # "tool"
        <5>1. ToolsShown(w, S) = S
          BY <4>3 DEF ToolsShown
        <5>2. v < 5 => Older(w, v) = v
          BY <4>3, <1>0
        <5>3. v >= 5 => Older(w, v) >= 5
          BY <4>3, <1>0
        <5>4. v >= 5 => ToolsShown(v, S) = S /\ ToolsShown(Older(w, v), S) = S
          BY <5>3, <4>3 DEF ToolsShown
        <5> QED BY <5>1, <5>2, <5>4, <1>0
      <4>4. CASE ~(w >= 5) /\ \A i \in S : i.is # "tool"
        <5>1. ToolsShown(w, S) = Flat
          BY <4>4 DEF ToolsShown
        <5>2. ~(Older(w, v) >= 5)
          BY <4>4, <1>0
        <5>3. ToolsShown(Older(w, v), S) = Flat
          BY <5>2 DEF ToolsShown
        <5>4. ToolsShown(v, Flat) = Flat
          BY <4>1, <3>2 DEF ToolsShown
        <5> QED BY <5>1, <5>3, <5>4
      <4> QED BY <4>2, <4>3, <4>4
    <3> QED BY <3>1, <3>3, <2>0, <1>4
  <2>3. CASE s = "IdentityField"
    <3>1. \A u, R : ~(u < Begins[s]) => Shown(s, u, R) = IdentitiesShown(u, R)
      BY <2>3 DEF Shown
    <3>2. IdentitiesShown(v, IdentitiesShown(w, S)) = IdentitiesShown(Older(w, v), S)
      <4>1. v >= 5 /\ w >= 5
        BY <1>0, <1>4, <2>3, TablesAssumption
      <4>2. CASE S = {}
        BY <4>2 DEF IdentitiesShown
      <4>3. CASE S # {}
        <5>1. \A u : IdentitiesShown(u, S) = IF u = 5 THEN {First(S)} ELSE S
          BY <4>3 DEF IdentitiesShown
        <5>2. \A u : IdentitiesShown(u, {First(S)}) = {First(S)}
          BY FirstOfOne DEF IdentitiesShown
        <5>3. Older(w, v) = 5 <=> (w = 5 \/ v = 5)
          BY <4>1, <1>0
        <5> QED BY <5>1, <5>2, <5>3
      <4> QED BY <4>2, <4>3
    <3> QED BY <3>1, <3>2, <2>0, <1>4
  <2>4. CASE s = "HashAlgorithm"
    <3>1. \A u, R : ~(u < Begins[s]) => Shown(s, u, R) = HashesShown(u, R)
      BY <2>4 DEF Shown
    <3>2. \/ w <= v /\ Cases["HashAlgorithm"][w] \subseteq Cases["HashAlgorithm"][v]
          \/ v <= w /\ v # w /\ Cases["HashAlgorithm"][v] \subseteq Cases["HashAlgorithm"][w]
      BY <1>0, TablesAssumption
    <3>3. HashesShown(v, HashesShown(w, S)) = HashesShown(Older(w, v), S)
      <4>1. CASE w <= v
        BY <4>1, <3>2, <1>0 DEF HashesShown
      <4>2. CASE ~(w <= v)
        BY <4>2, <3>2, <1>0 DEF HashesShown
      <4> QED BY <4>1, <4>2
    <3> QED BY <3>1, <3>3, <2>0, <1>4
  <2>5. CASE s \notin {"licenses", "tools", "IdentityField", "HashAlgorithm"}
    <3>1. \A u, R : ~(u < Begins[s]) => Shown(s, u, R) = {Normalized(s, u, i) : i \in R}
      BY <2>5 DEF Shown
    <3>2. ASSUME NEW i \in S
          PROVE  Normalized(s, v, Normalized(s, w, i)) = Normalized(s, Older(w, v), i)
      <4> DEFINE R == Replacement[s]
                 C == Cases[s]
                 b == [is |-> i.is, code |-> R, name |-> i.name, more |-> i.more]
      <4>1. CASE s \notin DOMAIN Replacement
        BY <4>1 DEF Normalized
      <4>2. CASE s \in DOMAIN Replacement
        <5>1. \A u, j : Normalized(s, u, j) =
                IF j.code \notin C[u]
                THEN [is |-> j.is, code |-> R, name |-> j.name, more |-> j.more] ELSE j
          BY <4>2 DEF Normalized
        <5>2. \/ Older(w, v) = w /\ C[w] \subseteq C[v]
              \/ Older(w, v) = v /\ C[v] \subseteq C[w]
          <6>1. s \in DOMAIN Cases
            BY <4>2, TablesAssumption
          <6> QED BY <6>1, <1>0, TablesAssumption
        <5>3. CASE i.code \in C[w]
          BY <5>1, <5>2, <5>3
        <5>4. CASE i.code \notin C[w]
          <6>1. Normalized(s, w, i) = b
            BY <5>1, <5>4
          <6>2. Normalized(s, v, b) = b
            BY <5>1
          <6>3. Normalized(s, Older(w, v), i) = b
            BY <5>1, <5>2, <5>4
          <6> QED BY <6>1, <6>2, <6>3
        <5> QED BY <5>3, <5>4
      <4> QED BY <4>1, <4>2
    <3>3. {Normalized(s, v, j) : j \in {Normalized(s, w, i) : i \in S}}
            = {Normalized(s, v, Normalized(s, w, i)) : i \in S}
      OBVIOUS
    <3>4. {Normalized(s, v, Normalized(s, w, i)) : i \in S}
            = {Normalized(s, Older(w, v), i) : i \in S}
      BY <3>2
    <3> QED BY <3>1, <3>3, <3>4, <2>0, <1>4
  <2> QED BY <2>1, <2>2, <2>3, <2>4, <2>5
<1> QED BY <1>2, <1>3, <1>4

-------------------------------------------------------------------------------
\* What a version shows of what has come through others.
LEMMA ThroughAgain ==
  ASSUME NEW s \in Subject, NEW v \in Versions, NEW w \in Versions \cup {Never},
         NEW S, S \subseteq Own(s)
  PROVE  Shown(s, v, Through(s, w, S)) = Through(s, Older(w, v), S)
<1>1. CASE w = Never
  BY <1>1 DEF Through, Older, Versions, Never
<1>2. CASE w \in Versions
  <2>1. Older(w, v) \in Versions /\ Never \notin Versions
    BY <1>2, VersionsOrdered
  <2> QED BY <1>2, <2>1, ShownAgain DEF Through
<1> QED BY <1>1, <1>2

LEMMA ThroughItems ==
  ASSUME NEW s \in Subject, NEW w \in Versions \cup {Never}, NEW S, S \subseteq Own(s)
  PROVE  Through(s, w, S) \subseteq Own(s)
  BY ShownItems DEF Through

\* The items of memory are in the forms of the subject.
LEMMA OwnHere == ItemsHere = Own(subject)
  BY DEF ItemsHere, Own

LEMMA TypedInit == Init => Typed
  BY DEF Init, Typed, TypeOK, NoDoc, Versions, Never

LEMMA TypedStep == Typed /\ [Next]_vars => Typed'
<1> SUFFICES ASSUME Typed, [Next]_vars PROVE Typed'
  OBVIOUS
<1> USE DEF Typed
<1>h. ItemsHere = Own(subject)
  BY OwnHere
<1>0. CASE UNCHANGED vars
  BY <1>0 DEF vars, TypeOK, ItemsHere, ItemsAllowed
<1>1. ASSUME NEW i \in ItemsHere, Add(i) \/ Discard(i) PROVE Typed'
  <2>1. PICK S \in SUBSET ItemsHere : Hold(S)
    BY <1>1 DEF Add, Discard, TypeOK
  <2> QED
    BY <2>1 DEF Hold, NoDoc, TypeOK, ItemsHere, ItemsAllowed, Versions, Never
<1>2. ASSUME NEW v \in Versions, Write(v) PROVE Typed'
  <2>1. Shown(subject, v, held) \subseteq ItemsHere
    BY <1>h, ShownItems DEF TypeOK
  <2>2. Older(low, v) \in Versions
    <3>1. low \in Versions \cup {Never}
      BY DEF TypeOK
    <3>2. CASE low \in Versions
      BY <3>2, VersionsOrdered
    <3>3. CASE low = Never
      BY <3>3 DEF Older, Versions, Never
    <3> QED BY <3>1, <3>2, <3>3
  <2>3. UNCHANGED <<subject, held, origin, low>> /\ ItemsHere' = ItemsHere
    BY <1>2 DEF Write, ItemsHere
  <2>4. /\ doc'.version = v /\ doc'.items = Shown(subject, v, held)
        /\ doc'.of = origin /\ doc'.low = Older(low, v)
        /\ told' \in {"nothing", "warning"}
    BY <1>2 DEF Write
  <2>5. Older(low, v) # Never
    BY <2>2, VersionsOrdered DEF Versions, Never
  <2> QED BY <2>1, <2>2, <2>3, <2>4, <2>5 DEF TypeOK
<1>3. ASSUME NEW v \in Versions, WriteRefused(v) PROVE Typed'
  BY <1>3 DEF WriteRefused, TypeOK, ItemsHere, ItemsAllowed
<1>4. ASSUME NEW v \in Versions, Receive(v) PROVE Typed'
  <2>1. PICK f \in [1..MaxItems[subject] -> ItemsAllowed(v)] :
          doc' = [version |-> v, items |-> {f[k] : k \in 1..MaxItems[subject]},
                  of |-> {f[k] : k \in 1..MaxItems[subject]}, low |-> Never]
    BY <1>4 DEF Receive
  <2>2. {f[k] : k \in 1..MaxItems[subject]} \subseteq ItemsAllowed(v)
    OBVIOUS
  <2>3. UNCHANGED <<subject, held, origin, low>> /\ ItemsHere' = ItemsHere
        /\ ItemsAllowed(v)' = ItemsAllowed(v) /\ told' = "nothing"
    BY <1>4 DEF Receive, ItemsHere, ItemsAllowed
  <2>4. /\ doc'.version = v /\ doc'.items \subseteq ItemsAllowed(v)
        /\ doc'.of = doc'.items /\ doc'.low = Never
    BY <2>1, <2>2
  <2> QED BY <2>3, <2>4 DEF TypeOK, ItemsAllowed
<1>5. CASE Read
  BY <1>5 DEF Read, NoDoc, TypeOK, ItemsHere, ItemsAllowed, Versions, Never
<1>6. CASE ReadRefused
  BY <1>6 DEF ReadRefused, TypeOK, ItemsHere, ItemsAllowed
<1> QED BY <1>0, <1>1, <1>2, <1>3, <1>4, <1>5, <1>6 DEF Next

\* In memory there are only items of the subject with values of the code, and
\* in a document only those or what the schema of its version allows
\* (the setters and the deserialisation of cyclonedx/model).
THEOREM TypeCorrect == Spec => []TypeOK
<1>1. Typed => TypeOK
  BY DEF Typed
<1> QED BY TypedInit, TypedStep, <1>1, PTL DEF Spec

-------------------------------------------------------------------------------
LEMMA OldestInit == Init => OnlyOldestMatters
  BY DEF Init, OnlyOldestMatters, NoDoc, Through, Never

LEMMA OldestStep == Typed /\ OnlyOldestMatters /\ [Next]_vars => OnlyOldestMatters'
<1> SUFFICES ASSUME Typed, OnlyOldestMatters, [Next]_vars PROVE OnlyOldestMatters'
  OBVIOUS
<1>h. ItemsHere = Own(subject)
  BY OwnHere
<1>0. CASE UNCHANGED vars
  BY <1>0 DEF vars, OnlyOldestMatters
<1>1. ASSUME NEW i \in ItemsHere, Add(i) \/ Discard(i) PROVE OnlyOldestMatters'
  BY <1>1 DEF Add, Discard, Hold, NoDoc, OnlyOldestMatters, Through
<1>2. ASSUME NEW v \in Versions, Write(v) PROVE OnlyOldestMatters'
  <2>1. Shown(subject, v, held) = Through(subject, Older(low, v), origin)
    BY <1>h, ThroughAgain DEF Typed, TypeOK, OnlyOldestMatters
  <2>2. UNCHANGED <<subject, held, origin, low>>
    BY <1>2 DEF Write
  <2>3. /\ doc'.items = Shown(subject, v, held)
        /\ doc'.of = origin /\ doc'.low = Older(low, v)
    BY <1>2 DEF Write
  <2> QED BY <2>1, <2>2, <2>3 DEF OnlyOldestMatters
<1>3. ASSUME NEW v \in Versions, WriteRefused(v) PROVE OnlyOldestMatters'
  BY <1>3 DEF WriteRefused, OnlyOldestMatters
<1>4. ASSUME NEW v \in Versions, Receive(v) PROVE OnlyOldestMatters'
  BY <1>4 DEF Receive, OnlyOldestMatters, Through
<1>5. CASE Read
  BY <1>5 DEF Read, NoDoc, OnlyOldestMatters, Through
<1>6. CASE ReadRefused
  BY <1>6 DEF ReadRefused, OnlyOldestMatters
<1> QED BY <1>0, <1>1, <1>2, <1>3, <1>4, <1>5, <1>6 DEF Next

\* Writing and reading a BOM in any versions, in any order, leaves what the
\* oldest of them shows of what was put in: the helpers of licenses, tools,
\* hashes, identities and normalised enumerations commute and lose nothing a
\* second time.
THEOREM OldestMatters == Spec => []OnlyOldestMatters
<1>1. Init => Typed /\ OnlyOldestMatters
  BY TypedInit, OldestInit
<1>2. Typed /\ OnlyOldestMatters /\ [Next]_vars => (Typed /\ OnlyOldestMatters)'
  BY TypedStep, OldestStep
<1> QED BY <1>1, <1>2, PTL DEF Spec

-------------------------------------------------------------------------------
\* What a helper leaves out or replaces, it had to, if its tables are those of
\* the schemas.
LEMMA LossOf ==
  ASSUME TablesFitSchemas, NEW s \in Subject, NEW v \in Versions, NEW S, S \subseteq Own(s),
         NEW i \in S, i \notin Shown(s, v, S)
  PROVE  \/ s \in Enumeration /\ i.code \notin Allowed[s][v]
         \/ s = "licenses" /\ (v = 0 \/ \E e \in S \ {i} : e.is = "expression")
         \/ s = "tools" /\ (v < 5 \/ \E t \in S \ {i} : t.is = "tool")
         \/ s = "IdentityField" /\ v = 5 /\ \E o \in S : o # i
<1>0. v \in Nat /\ Begins[s] \in Nat
  BY TablesAssumption DEF Versions
<1>1. CASE v < Begins[s]
  <2>1. CASE s \in Enumeration
    BY <2>1, <1>1 DEF TablesFitSchemas
  <2>2. CASE s = "licenses"
    BY <2>2, <1>0, <1>1 DEF TablesFitSchemas
  <2>3. CASE s = "tools"
    BY <2>3, <1>0, <1>1 DEF TablesFitSchemas
  <2> QED BY <2>1, <2>2, <2>3 DEF Subject
<1>2. CASE ~(v < Begins[s])
  <2>1. CASE s = "licenses"
    <3> DEFINE E == {e \in S : e.is = "expression"}
    <3>1. Shown(s, v, S) = IF E = {} THEN S ELSE {First(E)}
      BY <1>2, <2>1 DEF Shown, LicensesShown
    <3>2. E # {} /\ First(E) # i
      BY <3>1
    <3> QED BY <3>2, <2>1, FirstIn
  <2>2. CASE s = "tools"
    <3>1. Shown(s, v, S) = ToolsShown(v, S)
      BY <1>2, <2>2 DEF Shown
    <3>2. CASE i.is = "tool"
      <4>1. AsTool(i) = i
        BY <3>2, <2>2 DEF Own, Items, AsTool
      <4>2. ToolsShown(v, S) = {AsTool(j) : j \in S}
        BY <3>2 DEF ToolsShown
      <4> QED BY <3>1, <4>1, <4>2
    <3>3. CASE i.is # "tool"
      <4>1. ~(v >= 5 /\ \A j \in S : j.is # "tool")
        BY <3>1 DEF ToolsShown
      <4> QED BY <4>1, <3>3, <2>2, <1>0
    <3> QED BY <3>2, <3>3
  <2>3. CASE s = "IdentityField"
    <3>1. Shown(s, v, S) = IF v = 5 /\ S # {} THEN {First(S)} ELSE S
      BY <1>2, <2>3 DEF Shown, IdentitiesShown
    <3> QED BY <3>1, <2>3, FirstIn
  <2>4. CASE s = "HashAlgorithm"
    <3>1. i.code \notin Cases[s][v]
      BY <1>2, <2>4 DEF Shown, HashesShown
    <3>2. s \in Enumeration \cap DOMAIN Cases
      BY <2>4, TablesAssumption DEF Subject
    <3> QED BY <3>1, <3>2, <1>0, <1>2 DEF TablesFitSchemas
  <2>5. CASE s \notin {"licenses", "tools", "IdentityField", "HashAlgorithm"}
    <3>1. Shown(s, v, S) = {Normalized(s, v, j) : j \in S}
      BY <1>2, <2>5 DEF Shown
    <3>2. s \in DOMAIN Replacement /\ i.code \notin Cases[s][v]
      BY <3>1 DEF Normalized
    <3>3. s \in Enumeration \cap DOMAIN Cases
      BY <3>2, <2>5, TablesAssumption DEF Subject
    <3> QED BY <3>2, <3>3, <1>0, <1>2 DEF TablesFitSchemas
  <2> QED BY <2>1, <2>2, <2>3, <2>4, <2>5
<1> QED BY <1>1, <1>2

\* With tables that fit the schemas, whatever is lost on the way of a BOM through
\* any versions is lost for one of the reasons LossesForced lists.
THEOREM Losses == ASSUME TablesFitSchemas PROVE Spec => []LossesForced
<1>1. Typed /\ OnlyOldestMatters => LossesForced
  <2> SUFFICES ASSUME Typed, OnlyOldestMatters, NEW i \in origin \ held
               PROVE  \/ subject \in Enumeration /\ i.code \notin Allowed[subject][low]
                      \/ subject = "licenses"
                         /\ (low = 0 \/ \E e \in origin \ {i} : e.is = "expression")
                      \/ subject = "tools"
                         /\ (low < 5 \/ \E t \in origin \ {i} : t.is = "tool")
                      \/ subject = "IdentityField" /\ low = 5 /\ \E o \in origin : o # i
    BY DEF LossesForced
  <2>1. low \in Versions /\ held = Shown(subject, low, origin)
    BY DEF Typed, TypeOK, OnlyOldestMatters, Through
  <2>2. origin \subseteq Own(subject) /\ subject \in Subject
    BY OwnHere DEF Typed, TypeOK
  <2> QED BY <2>1, <2>2, LossOf
<1>2. Init => Typed /\ OnlyOldestMatters
  BY TypedInit, OldestInit
<1>3. Typed /\ OnlyOldestMatters /\ [Next]_vars => (Typed /\ OnlyOldestMatters)'
  BY TypedStep, OldestStep
<1> QED BY <1>1, <1>2, <1>3, PTL DEF Spec

-------------------------------------------------------------------------------
\* What a helper renders without refusing is in the schema.
LEMMA ShownInSchema ==
  ASSUME TablesFitSchemas, NEW s \in Subject, NEW v \in Versions, NEW S, S \subseteq Own(s),
         ~Refused(s, v, S)
  PROVE  /\ s \in Enumeration => \A i \in Shown(s, v, S) :
              \/ i.code = None \/ i.code \in Allowed[s][v]
              \/ v = 5 /\ i.code \in {"omniborId", "swhid"}
         /\ s = "licenses" => \A i, j \in Shown(s, v, S) : i.is = "expression" => i = j
         /\ s = "tools" =>
              \A i, j \in Shown(s, v, S) : i.is = "tool" <=> (j.is = "tool" \/ v < 5)
         /\ s = "IdentityField" /\ v = 5 => \A i, j \in Shown(s, v, S) : i = j
<1>0. v \in Nat /\ Begins[s] \in Nat
  BY TablesAssumption DEF Versions
<1>1. CASE v < Begins[s]
  BY <1>1 DEF Shown
<1>2. CASE ~(v < Begins[s])
  <2>1. s \in Enumeration => \A i \in Shown(s, v, S) :
          \/ i.code = None \/ i.code \in Allowed[s][v]
          \/ v = 5 /\ i.code \in {"omniborId", "swhid"}
    <3> SUFFICES ASSUME s \in Enumeration, NEW i \in Shown(s, v, S), i.code # None
                 PROVE  i.code \in Allowed[s][v] \/ (v = 5 /\ i.code \in {"omniborId", "swhid"})
      OBVIOUS
    <3>1. i.code \in Values[s]
      <4>1. i \in Items(s, Values[s])
        BY ShownItems DEF Own
      <4> QED BY <4>1 DEF Items
    <3>2. CASE s \notin DOMAIN Cases
      BY <3>1, <3>2, <1>0, <1>2 DEF TablesFitSchemas
    <3>3. CASE s \in DOMAIN Cases
      <4>1. Cases[s][v] = Allowed[s][v]
        BY <3>3, <1>0, <1>2 DEF TablesFitSchemas
      <4>2. CASE s = "HashAlgorithm"
        BY <4>1, <4>2, <1>2 DEF Shown, HashesShown
      <4>3. CASE s # "HashAlgorithm"
        <5>1. s \in {"ComponentType"} \cup DOMAIN Replacement
          BY <3>3, <4>3, TablesAssumption
        <5>2. Shown(s, v, S) = {Normalized(s, v, j) : j \in S}
          BY <1>2, <5>1 DEF Shown, Replacement
        <5>3. PICK j \in S : i = Normalized(s, v, j)
          BY <5>2
        <5>4. CASE s = "ComponentType"
          <6>1. j.code \in Cases[s][v] /\ s \notin DOMAIN Replacement
            BY <5>4, <1>0, <1>2 DEF Refused, Replacement
          <6> QED BY <5>3, <6>1, <4>1 DEF Normalized
        <5>5. CASE s \in DOMAIN Replacement /\ j.code \in Cases[s][v]
          BY <5>3, <5>5, <4>1 DEF Normalized
        <5>6. CASE s \in DOMAIN Replacement /\ j.code \notin Cases[s][v]
          <6>1. i.code = Replacement[s]
            BY <5>3, <5>6 DEF Normalized
          <6>2. s # "ComponentScope" /\ Replacement[s] = "other"
            BY <6>1, <5>6 DEF Replacement
          <6>3. "other" \in Cases[s][v]
            BY <6>2, <5>6, <1>2, TablesAssumption
          <6> QED BY <6>1, <6>2, <6>3, <4>1
        <5> QED BY <5>1, <5>4, <5>5, <5>6
      <4> QED BY <4>2, <4>3
    <3> QED BY <3>2, <3>3
  <2>2. ASSUME s = "licenses"
        PROVE  \A i, j \in Shown(s, v, S) : i.is = "expression" => i = j
    BY <2>2, <1>2 DEF Shown, LicensesShown
  <2>3. ASSUME s = "tools"
        PROVE  \A i, j \in Shown(s, v, S) : i.is = "tool" <=> (j.is = "tool" \/ v < 5)
    <3>1. Shown(s, v, S) = ToolsShown(v, S)
      BY <1>2, <2>3 DEF Shown
    <3>2. CASE v >= 5 /\ \A k \in S : k.is # "tool"
      BY <3>1, <3>2, <1>0 DEF ToolsShown
    <3>3. CASE ~(v >= 5 /\ \A k \in S : k.is # "tool")
      <4>1. \A i \in Shown(s, v, S) : i.is = "tool"
        BY <3>1, <3>3 DEF ToolsShown, AsTool
      <4> QED BY <4>1
    <3> QED BY <3>2, <3>3
  <2>4. ASSUME s = "IdentityField", v = 5 PROVE \A i, j \in Shown(s, v, S) : i = j
    BY <2>4, <1>2 DEF Shown, IdentitiesShown
  <2> QED BY <2>1, <2>2, <2>3, <2>4
<1> QED BY <1>1, <1>2

\* With tables that fit the schemas, every document that is written has only
\* values and combinations its version allows, but for the two IdentityFields
\* of 1.5.
THEOREM InSchema == ASSUME TablesFitSchemas PROVE Spec => []ValuesInSchema
<1>1. Init => Typed /\ ValuesInSchema
  BY TypedInit DEF Init, ValuesInSchema, NoDoc
<1>2. Typed /\ ValuesInSchema /\ [Next]_vars => (Typed /\ ValuesInSchema)'
  <2> SUFFICES ASSUME Typed, ValuesInSchema, [Next]_vars PROVE ValuesInSchema'
    BY TypedStep
  <2>1. CASE UNCHANGED <<subject, doc>>
    BY <2>1 DEF ValuesInSchema
  <2>2. CASE doc'.low = Never
    BY <2>2 DEF ValuesInSchema
  <2>3. ASSUME NEW v \in Versions, Write(v) PROVE ValuesInSchema'
    <3>1. /\ ~Refused(subject, v, held) /\ held \subseteq Own(subject)
          /\ subject \in Subject
      BY <2>3, OwnHere DEF Write, Typed, TypeOK
    <3>2. /\ doc'.items = Shown(subject, v, held) /\ doc'.version = v
          /\ subject' = subject
      BY <2>3 DEF Write
    <3> QED BY <3>1, <3>2, ShownInSchema DEF ValuesInSchema
  <2>4. ASSUME NEW i \in ItemsHere, Add(i) \/ Discard(i) PROVE ValuesInSchema'
    BY <2>4, <2>2 DEF Add, Discard, Hold, NoDoc
  <2>5. ASSUME NEW v \in Versions, Receive(v) PROVE ValuesInSchema'
    BY <2>5, <2>2 DEF Receive
  <2>6. CASE Read
    BY <2>6, <2>2 DEF Read, NoDoc
  <2>7. ASSUME NEW v \in Versions, WriteRefused(v) PROVE ValuesInSchema'
    BY <2>7, <2>1 DEF WriteRefused
  <2>8. CASE UNCHANGED vars \/ ReadRefused
    BY <2>8, <2>1 DEF vars, ReadRefused
  <2> QED BY <2>3, <2>4, <2>5, <2>6, <2>7, <2>8 DEF Next
<1> QED BY <1>1, <1>2, PTL DEF Spec

-------------------------------------------------------------------------------
\* There are finitely many hashes and identities, in memory and in a document.
\* Of others nobody counts.
Counted == {"HashAlgorithm", "IdentityField"}

FewHeld == subject \in Counted => IsFiniteSet(held) /\ IsFiniteSet(doc.items)

\* Of hashes and identities, helpers render some and put none in their place.
LEMMA SomeShown ==
  ASSUME NEW s \in Counted, NEW v \in Versions, NEW S PROVE Shown(s, v, S) \subseteq S
<1>1. CASE s = "HashAlgorithm"
  BY <1>1 DEF Shown, HashesShown
<1>2. CASE s = "IdentityField"
  <2>1. IdentitiesShown(v, S) \subseteq S
    BY FirstIn DEF IdentitiesShown
  <2> QED BY <1>2, <2>1 DEF Shown
<1> QED BY <1>1, <1>2 DEF Counted

LEMMA FewHeldInit == Init => FewHeld
  BY FS_EmptySet DEF Init, FewHeld, NoDoc

LEMMA FewHeldStep == Typed /\ FewHeld /\ [Next]_vars => FewHeld'
<1> SUFFICES ASSUME Typed, FewHeld, [Next]_vars, subject' \in Counted
             PROVE  IsFiniteSet(held') /\ IsFiniteSet(doc'.items)
  BY DEF FewHeld
<1>0. /\ subject' = subject /\ IsFiniteSet(held) /\ IsFiniteSet(doc.items)
  BY DEF FewHeld, Next, vars, Add, Discard, Hold, Write, WriteRefused, Receive, Read, ReadRefused
<1>n. IsFiniteSet(NoDoc.items)
  BY FS_EmptySet DEF NoDoc
<1>1. ASSUME NEW i \in ItemsHere, Add(i) \/ Discard(i)
      PROVE  IsFiniteSet(held') /\ IsFiniteSet(doc'.items)
  <2>1. IsFiniteSet(held \cup {i}) /\ IsFiniteSet(held \ {i})
    BY <1>0, FS_AddElement, FS_RemoveElement
  <2> QED BY <1>1, <1>n, <2>1 DEF Add, Discard, Hold
<1>2. ASSUME NEW v \in Versions, Write(v) PROVE IsFiniteSet(held') /\ IsFiniteSet(doc'.items)
  <2>1. IsFiniteSet(Shown(subject, v, held))
    BY <1>0, SomeShown, FS_Subset
  <2> QED BY <1>0, <1>2, <2>1 DEF Write
<1>3. ASSUME NEW v \in Versions, Receive(v)
      PROVE  IsFiniteSet(held') /\ IsFiniteSet(doc'.items)
  <2> DEFINE D == 1..MaxItems[subject]
  <2>1. PICK f \in [D -> ItemsAllowed(v)] :
          doc' = [version |-> v, items |-> {f[k] : k \in D},
                  of |-> {f[k] : k \in D}, low |-> Never]
    BY <1>3 DEF Receive
  <2>2. IsFiniteSet(D)
    <3>1. CASE MaxItems[subject] \in Int
      BY <3>1, FS_Interval
    <3>2. subject \in Subject
      BY DEF Typed, TypeOK
    <3> QED BY <3>1, <3>2, TablesAssumption
  <2>3. f \in Surjection(D, {f[k] : k \in D})
    BY DEF Surjection
  <2>4. IsFiniteSet({f[k] : k \in D})
    BY <2>2, <2>3, FS_Surjection
  <2>5. doc'.items = {f[k] : k \in D} /\ held' = held
    BY <1>3, <2>1 DEF Receive
  <2> QED BY <1>0, <2>4, <2>5
<1>4. CASE Read
  BY <1>0, <1>n, <1>4 DEF Read
<1>5. ASSUME NEW v \in Versions, WriteRefused(v)
      PROVE  IsFiniteSet(held') /\ IsFiniteSet(doc'.items)
  BY <1>0, <1>5 DEF WriteRefused
<1>6. CASE ReadRefused \/ UNCHANGED vars
  BY <1>0, <1>6 DEF ReadRefused, vars
<1> QED BY <1>1, <1>2, <1>3, <1>4, <1>5, <1>6 DEF Next

\* A helper warns exactly if it counts fewer in what it renders.
LEMMA WarnedIfFewer ==
  ASSUME NEW s \in Subject, NEW v \in Versions, NEW S, s \in Counted => IsFiniteSet(S)
  PROVE  Warned(s, v, S) <=> /\ s \in Counted
                             /\ Begins[s] <= v
                             /\ Cardinality(Shown(s, v, S)) < Cardinality(S)
<1>0. v \in Nat /\ Begins[s] \in Nat
  BY TablesAssumption DEF Versions
<1>1. CASE s \notin Counted \/ v < Begins[s]
  BY <1>0, <1>1 DEF Warned, Counted
<1>2. CASE s = "HashAlgorithm" /\ ~(v < Begins[s])
  <2>1. Shown(s, v, S) = HashesShown(v, S) /\ IsFiniteSet(S)
    BY <1>2 DEF Shown, Counted
  <2>2. HashesShown(v, S) \in SUBSET S
    BY DEF HashesShown
  <2>3. /\ Cardinality(S) \in Nat /\ Cardinality(HashesShown(v, S)) \in Nat
        /\ Cardinality(HashesShown(v, S)) <= Cardinality(S)
        /\ Cardinality(S) = Cardinality(HashesShown(v, S)) => S = HashesShown(v, S)
    BY <2>1, <2>2, FS_Subset, FS_CardinalityType
  <2>4. Cardinality(HashesShown(v, S)) < Cardinality(S) <=> HashesShown(v, S) # S
    BY <2>3
  <2> QED BY <1>0, <1>2, <2>1, <2>4 DEF Warned, Counted
<1>3. CASE s = "IdentityField" /\ ~(v < Begins[s])
  <2>1. Shown(s, v, S) = IF v = 5 /\ S # {} THEN {First(S)} ELSE S
    BY <1>3 DEF Shown, IdentitiesShown
  <2>2. IsFiniteSet(S) /\ Cardinality(S) \in Nat
    BY <1>3, FS_CardinalityType DEF Counted
  <2>3. CASE v = 5 /\ S # {}
    <3>1. Cardinality(Shown(s, v, S)) = 1
      BY <2>1, <2>3, FS_Singleton
    <3> QED BY <1>0, <1>3, <2>2, <2>3, <3>1 DEF Warned, Counted
  <2>4. CASE v # 5
    BY <1>0, <1>3, <2>1, <2>2, <2>4 DEF Warned, Counted
  <2>5. CASE S = {}
    BY <1>0, <1>3, <2>1, <2>2, <2>5, FS_EmptySet DEF Warned, Counted
  <2> QED BY <2>3, <2>4, <2>5
<1> QED BY <1>1, <1>2, <1>3 DEF Counted

\* Whatever is in the set and in whatever version it is written, the user is
\* warned of hashes and identities that are left out, and of nothing else
\* (the helpers of model/__init__.py and model/component_evidence.py).
THEOREM OmissionsAreTold == Spec => OmissionsTold
<1>1. Typed /\ FewHeld /\ [Next]_vars =>
        [doc'.low # Never /\ told' \in {"nothing", "warning"} =>
           (told' = "warning" <=>
              /\ subject \in {"HashAlgorithm", "IdentityField"}
              /\ Begins[subject] <= doc'.version
              /\ Cardinality(doc'.items) < Cardinality(held))]_vars
  <2> SUFFICES ASSUME Typed, FewHeld, Next, doc'.low # Never, told' \in {"nothing", "warning"}
               PROVE  told' = "warning" <=>
                        /\ subject \in Counted
                        /\ Begins[subject] <= doc'.version
                        /\ Cardinality(doc'.items) < Cardinality(held)
    BY DEF Counted
  <2>1. PICK v \in Versions : Write(v)
    <3>1. \A i : ~Add(i) /\ ~Discard(i)
      BY DEF Add, Discard, Hold, NoDoc
    <3>2. \A v : ~WriteRefused(v) /\ ~Receive(v)
      BY DEF WriteRefused, Receive
    <3>3. ~Read
      <4>1. NoDoc.low = Never
        BY DEF NoDoc
      <4> QED BY <4>1 DEF Read
    <3>4. ~ReadRefused
      BY DEF ReadRefused
    <3> QED BY <3>1, <3>2, <3>3, <3>4 DEF Next
  <2>2. /\ doc'.version = v /\ doc'.items = Shown(subject, v, held)
        /\ told' = IF Warned(subject, v, held) THEN "warning" ELSE "nothing"
    BY <2>1 DEF Write
  <2>3. subject \in Subject /\ (subject \in Counted => IsFiniteSet(held))
    BY DEF Typed, TypeOK, FewHeld
  <2> QED BY <2>2, <2>3, WarnedIfFewer
<1> QED
  BY <1>1, TypedInit, TypedStep, FewHeldInit, FewHeldStep, PTL DEF Spec, OmissionsTold

-------------------------------------------------------------------------------
\* The enumerations of the code have what the schemas allow, but for what 1.7
\* has added.
AddedByNewest == {"key-wrap", "5g-aka", "dtls", "eap-aka", "eap-aka-prime", "prins", "quic"}

CodeKnowsSchemas ==
  \A s \in Enumeration : \A v \in Versions :
    Allowed[s][v] \ Values[s] \subseteq IF v = 7 THEN AddedByNewest ELSE {}

\* What a schema allows and the code has no item for has a value it does not know.
LEMMA AllowedHere ==
  ASSUME CodeKnowsSchemas, subject \in Subject, NEW v \in Versions,
         NEW i \in ItemsAllowed(v), i \notin ItemsHere
  PROVE  v = 7 /\ i.code \in AddedByNewest
<1>1. subject \notin {"licenses", "tools"}
  BY DEF ItemsAllowed
<1>2. subject \in Enumeration
  BY <1>1 DEF Subject
<1>3. i \in Items(subject, Allowed[subject][v]) /\ i \notin Items(subject, Values[subject])
  BY <1>1, <1>2 DEF ItemsAllowed, ItemsHere
<1>4. i.code \in Allowed[subject][v] \ Values[subject]
  BY <1>1, <1>3 DEF Items
<1> QED BY <1>2, <1>4 DEF CodeKnowsSchemas

\* Without a document there are no items of one.
NoItemsWithout == doc.version = Never => doc.items = {}

\* If the enumerations have what the schemas allow up to 1.6, the code reads
\* every document it writes, and every one another program writes but for those
\* with values that 1.7 has added.
THEOREM SchemaValuesAreRead == ASSUME CodeKnowsSchemas PROVE Spec => []SchemaValuesRead
<1>1. Init => Typed /\ NoItemsWithout /\ SchemaValuesRead
  BY TypedInit DEF Init, NoDoc, NoItemsWithout, SchemaValuesRead
<1>2. Typed /\ NoItemsWithout /\ SchemaValuesRead /\ [Next]_vars
        => (Typed /\ NoItemsWithout /\ SchemaValuesRead)'
  <2> SUFFICES ASSUME Typed, NoItemsWithout, SchemaValuesRead, [Next]_vars
               PROVE  (NoItemsWithout /\ SchemaValuesRead)'
    BY TypedStep
  <2>1. CASE UNCHANGED <<doc, told>>
    BY <2>1 DEF NoItemsWithout, SchemaValuesRead
  <2>2. ASSUME NEW i \in ItemsHere, Add(i) \/ Discard(i)
        PROVE  (NoItemsWithout /\ SchemaValuesRead)'
    <3>1. doc' = NoDoc /\ told' = "nothing"
      BY <2>2 DEF Add, Discard, Hold
    <3>2. doc'.items = {}
      BY <3>1 DEF NoDoc
    <3> QED BY <3>1, <3>2 DEF NoItemsWithout, SchemaValuesRead
  <2>3. ASSUME NEW v \in Versions, Write(v) \/ WriteRefused(v) \/ Receive(v)
        PROVE  (NoItemsWithout /\ SchemaValuesRead)'
    <3>1. v # Never
      BY VersionsOrdered
    <3>2. doc'.version = v \/ doc' = doc
      BY <2>3 DEF Write, WriteRefused, Receive
    <3>3. told' # "unknown value"
      BY <2>3 DEF Write, WriteRefused, Receive
    <3> QED BY <3>1, <3>2, <3>3 DEF NoItemsWithout, SchemaValuesRead
  <2>4. CASE Read
    BY <2>4 DEF Read, NoDoc, NoItemsWithout, SchemaValuesRead
  <2>5. CASE ReadRefused
    <3>1. doc' = doc
      BY <2>5 DEF ReadRefused
    <3>2. PICK i \in doc.items : i \notin ItemsHere
      BY <2>5 DEF ReadRefused
    <3>3. doc.version \in Versions
      BY <3>2 DEF NoItemsWithout, Typed, TypeOK
    <3>4. i \in ItemsAllowed(doc.version) /\ subject \in Subject
      BY <3>2, <3>3, VersionsOrdered DEF Typed, TypeOK
    <3>5. doc.version = 7 /\ i.code \in AddedByNewest
      BY <3>2, <3>3, <3>4, AllowedHere
    <3> QED BY <3>1, <3>2, <3>5 DEF NoItemsWithout, SchemaValuesRead, AddedByNewest
  <2> QED BY <2>1, <2>2, <2>3, <2>4, <2>5 DEF Next, vars
<1>3. Typed /\ NoItemsWithout /\ SchemaValuesRead => SchemaValuesRead
  OBVIOUS
<1> QED BY <1>1, <1>2, <1>3, PTL DEF Spec
===============================================================================
