-------------------------------- MODULE Helpers --------------------------------
(***************************************************************************)
(* What the serialisation helpers of cyclonedx/model do to the values of   *)
(* one kind in one place of a BOM - the licenses of a component, the tools *)
(* of the metadata, the hashes, the references of one of 30 enumerations - *)
(* when the BOM is written in one schema version after another and read    *)
(* back in between.  Some helpers let a value through, some leave it out,  *)
(* some put another in its place, one refuses the whole BOM.               *)
(*                                                                         *)
(* The values in the code, the tables of the helpers and the schemas are   *)
(* constants.  An item has of its element what every version shows; the    *)
(* fields that come and go with the version are the subject of Conversion. *)
(***************************************************************************)
EXTENDS Naturals, FiniteSets

CONSTANTS
  Values,    \* enumeration -> the values the code has
  Cases,     \* enumeration with a helper -> version -> the values it lets through
  Begins,    \* subject -> the first version in whose view it is
  Allowed,   \* enumeration -> version -> the values the schema allows
  Names,     \* subject -> what tells two items of one value apart
  None,      \* no value
  MaxItems   \* bound: subject -> how many items it has

Versions == 0..7
Never == 8

Enumeration == DOMAIN Values
Subject == Enumeration \cup {"licenses", "tools"}

\* What a helper renders in the place of a value it does not let through.
Replacement ==
  [ComponentScope |-> None, ExternalReferenceType |-> "other",
   VulnerabilityScoreSource |-> "other"]

ASSUME TablesAssumption ==
  /\ DOMAIN Cases = {"HashAlgorithm", "ComponentType"} \cup DOMAIN Replacement
  /\ \A s \in DOMAIN Cases : \A v, w \in Versions : v <= w => Cases[s][v] \subseteq Cases[s][w]
  /\ \A s \in DOMAIN Replacement \ {"ComponentScope"} : \A v \in Versions :
       v < Begins[s] \/ "other" \in Cases[s][v] \cap Values[s]
  /\ Begins \in [Subject -> Versions] /\ Begins["IdentityField"] = 5
  /\ MaxItems \in [Subject -> Nat \ {0}]

\* What the tables of the code have to be for the schemas: ValuesInSchema and
\* LossesForced follow from it.
TablesFitSchemas ==
  /\ Begins["licenses"] = 1 /\ Begins["tools"] <= 5
  /\ \A s \in Enumeration : \A v \in Versions : v < Begins[s] => Allowed[s][v] = {}
  /\ \A s \in Enumeration \cap DOMAIN Cases : \A v \in Versions :
       v >= Begins[s] => Cases[s][v] = Allowed[s][v]
  /\ \A s \in Enumeration \ DOMAIN Cases : \A v \in Versions :
       v >= Begins[s] =>
         \A code \in Values[s] : \/ code \in Allowed[s][v]
                                 \/ s = "IdentityField" /\ v = 5 /\ code \in {"omniborId", "swhid"}

VARIABLES
  subject,   \* whose items
  held,      \* the items in memory
  origin,    \* the items that were put in, here or by another program
  low,       \* the oldest version they have come through since, or Never
  doc,       \* the document last written or received
  told       \* what the last call said

vars == <<subject, held, origin, low, doc, told>>

-------------------------------------------------------------------------------
\* The items of a subject with the given values.  `more` is what a Tool has no
\* place for, and the text and url of a license.
Items(s, codes) ==
  CASE s = "licenses" ->
         [is : {"license"}, code : {None}, name : Names[s], more : {None, "more"}]
         \cup [is : {"expression"}, code : {None}, name : Names[s], more : {None}]
    [] s = "tools" ->
         [is : {"component", "service"}, code : {None}, name : Names[s], more : {None, "more"}]
         \cup [is : {"tool"}, code : {None}, name : Names[s], more : {None}]
    [] s = "LifecyclePhase" ->
         [is : {"predefined"}, code : codes, name : {None}, more : {None}]
         \cup [is : {"named"}, code : {None}, name : Names[s], more : {None}]
    [] s = "ComponentScope" ->
         [is : {"value"}, code : codes \cup {None}, name : Names[s], more : {None}]
    [] OTHER ->
         [is : {"value"}, code : codes, name : Names[s], more : {None}]

ItemsHere == Items(subject, IF subject \in Enumeration THEN Values[subject] ELSE {})

\* What the schemas know: expressions since 1.1, tools since 1.2, and their
\* components and services since 1.5.
ItemsAllowed(v) ==
  CASE subject = "licenses" -> {i \in ItemsHere : v >= 1 \/ i.is = "license"}
    [] subject = "tools" -> {i \in ItemsHere : v >= 5 \/ (v >= 2 /\ i.is = "tool")}
    [] OTHER -> Items(subject, Allowed[subject][v])

\* The first of a SortedSet: its order is always the same.
First(S) == CHOOSE i \in S : TRUE

\* One expression stands for all there is.
LicensesShown(S) ==
  LET expressions == {i \in S : i.is = "expression"}
  IN  IF expressions = {} THEN S ELSE {First(expressions)}

\* Tool.from_component and Tool.from_service, and a conversion that keeps what
\* a Tool has no place for.
AsToolWithAll(i) == [i EXCEPT !.is = "tool"]
AsTool(i) == [is |-> "tool", code |-> i.code, name |-> i.name, more |-> None]

\* The helper of tools: one Tool makes tools of all; it might leave out all else.
ToolsAlone(v, S) ==
  IF v < 5 THEN {AsTool(i) : i \in S}
  ELSE IF \E i \in S : i.is = "tool" THEN {i \in S : i.is = "tool"} ELSE S
ToolsShown(v, S) ==
  IF v >= 5 /\ \A i \in S : i.is # "tool" THEN S ELSE {AsTool(i) : i \in S}

IdentitiesShown(v, S) == IF v = 5 /\ S # {} THEN {First(S)} ELSE S

HashesOfNewest(v, S) == {i \in S : i.code \in Cases["HashAlgorithm"][7]}
HashesShown(v, S) == {i \in S : i.code \in Cases["HashAlgorithm"][v]}

Normalized(s, v, i) ==
  IF s \in DOMAIN Replacement /\ i.code \notin Cases[s][v]
  THEN [is |-> i.is, code |-> Replacement[s], name |-> i.name, more |-> i.more]
  ELSE i

Shown(s, v, S) ==
  IF v < Begins[s] THEN {}
  ELSE CASE s = "licenses" -> LicensesShown(S)
         [] s = "tools" -> ToolsShown(v, S)
         [] s = "IdentityField" -> IdentitiesShown(v, S)
         [] s = "HashAlgorithm" -> HashesShown(v, S)
         [] OTHER -> {Normalized(s, v, i) : i \in S}

\* The helper of component types raises.
Refused(s, v, S) ==
  s = "ComponentType" /\ v >= Begins[s] /\ \E i \in S : i.code \notin Cases[s][v]

\* The helpers of hashes and identities warn, or only that of hashes.
WarnedOfHashes(s, v, S) == v >= Begins[s] /\ s = "HashAlgorithm" /\ HashesShown(v, S) # S
Warned(s, v, S) ==
  /\ v >= Begins[s]
  /\ \/ s = "HashAlgorithm" /\ HashesShown(v, S) # S
     \/ s = "IdentityField" /\ v = 5 /\ Cardinality(S) > 1

Through(s, v, S) == IF v = Never THEN S ELSE Shown(s, v, S)

Older(v, w) == IF v <= w THEN v ELSE w

NoDoc == [version |-> Never, items |-> {}, of |-> {}, low |-> Never]

-------------------------------------------------------------------------------
Init ==
  /\ subject \in Subject
  /\ held = {} /\ origin = {} /\ low = Never
  /\ doc = NoDoc
  /\ told = "nothing"

\* The set is what the user has made it.
Hold(S) ==
  /\ held' = S /\ origin' = S /\ low' = Never
  /\ doc' = NoDoc /\ told' = "nothing"
  /\ UNCHANGED subject

\* The user adds an element to the set, or discards one.
Add(i) == Cardinality(held) < MaxItems[subject] /\ Hold(held \cup {i})
Discard(i) == i \in held /\ Hold(held \ {i})

\* as_json or as_xml with the view of a version.
Write(v) ==
  /\ ~Refused(subject, v, held)
  /\ doc' = [version |-> v, items |-> Shown(subject, v, held),
             of |-> origin, low |-> Older(low, v)]
  /\ told' = IF Warned(subject, v, held) THEN "warning" ELSE "nothing"
  /\ UNCHANGED <<subject, held, origin, low>>

WriteRefused(v) ==
  /\ Refused(subject, v, held)
  /\ told' = "unsupported"
  /\ UNCHANGED <<subject, held, origin, low, doc>>

\* A document of a version that another program wrote.
Receive(v) ==
  /\ origin = {} /\ low = Never /\ doc = NoDoc
  /\ \E f \in [1..MaxItems[subject] -> ItemsAllowed(v)] :
       LET S == {f[k] : k \in 1..MaxItems[subject]}
       IN  /\ subject = "tools" => \A i, j \in S : i.is = "tool" => j.is = "tool"
           /\ doc' = [version |-> v, items |-> S, of |-> S, low |-> Never]
  /\ told' = "nothing"
  /\ UNCHANGED <<subject, held, origin, low>>

\* from_json or from_xml makes a new set of what the document says.
Read ==
  /\ doc # NoDoc /\ doc.items \subseteq ItemsHere
  /\ held' = doc.items /\ origin' = doc.of /\ low' = doc.low
  /\ doc' = NoDoc /\ told' = "nothing"
  /\ UNCHANGED subject

\* Enum(value) raises for a value that the enumeration does not have.
ReadRefused ==
  /\ doc # NoDoc /\ ~ doc.items \subseteq ItemsHere
  /\ told' = "unknown value"
  /\ UNCHANGED <<subject, held, origin, low, doc>>

Next ==
  \/ \E i \in ItemsHere : Add(i) \/ Discard(i)
  \/ \E v \in Versions : Write(v) \/ WriteRefused(v) \/ Receive(v)
  \/ Read \/ ReadRefused

Spec == Init /\ [][Next]_vars

-------------------------------------------------------------------------------
\* Every item has one of the forms of its subject, in memory with a value of
\* the code.
TypeOK ==
  /\ subject \in Subject
  /\ held \subseteq ItemsHere
  /\ low \in Versions \cup {Never}
  /\ doc.version \in Versions \cup {Never} /\ doc.low \in Versions \cup {Never}
  /\ doc.version # Never => doc.items \subseteq ItemsHere \cup ItemsAllowed(doc.version)
  /\ told \in {"nothing", "warning", "unsupported", "unknown value"}

\* However often and in whatever order a BOM is written, read and written
\* again, what is left is what the oldest of the versions shows of what was put
\* in: the helpers leave out, replace and flatten in an order of no consequence.
OnlyOldestMatters ==
  /\ held = Through(subject, low, origin)
  /\ doc.items = Through(subject, doc.low, doc.of)

\* A document that was written has only values and combinations the schema of
\* its version allows, but for the two IdentityFields that 1.5 has not and no
\* helper holds back (model/component_evidence.py).
ValuesInSchema ==
  doc.low # Never =>
    /\ subject \in Enumeration => \A i \in doc.items :
         \/ i.code = None \/ i.code \in Allowed[subject][doc.version]
         \/ doc.version = 5 /\ i.code \in {"omniborId", "swhid"}
    /\ subject = "licenses" =>
         \A i, j \in doc.items : i.is = "expression" => i = j
    /\ subject = "tools" =>
         \A i, j \in doc.items : i.is = "tool" <=> (j.is = "tool" \/ doc.version < 5)
    /\ subject = "IdentityField" /\ doc.version = 5 => \A i, j \in doc.items : i = j

\* An item that was put in is gone, or says less, only if the schema of the
\* oldest version has no place for it, if it stood beside a license expression,
\* if it became a Tool before 1.5 or beside one, or if 1.5 took one identity of
\* several; and licenses are lost in 1.0, where the schema has a place for them
\* and Component.licenses has no view.
LossesForced ==
  \A i \in origin \ held :
    \/ subject \in Enumeration /\ i.code \notin Allowed[subject][low]
    \/ subject = "licenses" /\ (low = 0 \/ \E e \in origin \ {i} : e.is = "expression")
    \/ subject = "tools" /\ (low < 5 \/ \E t \in origin \ {i} : t.is = "tool")
    \/ subject = "IdentityField" /\ low = 5 /\ \E o \in origin : o # i

\* Writing warns exactly if fewer hashes or identities are in the document than
\* in memory although its version shows them; every other loss is silent.
OmissionsTold ==
  [][doc'.low # Never /\ told' \in {"nothing", "warning"} =>
       (told' = "warning" <=>
          /\ subject \in {"HashAlgorithm", "IdentityField"}
          /\ Begins[subject] <= doc'.version
          /\ Cardinality(doc'.items) < Cardinality(held))]_vars

\* What a schema allows is read, but for these values, which 1.7 has added and
\* the code has not.
SchemaValuesRead ==
  told = "unknown value" =>
    /\ doc.version = 7
    /\ \E i \in doc.items :
         i.code \in {"key-wrap", "5g-aka", "dtls", "eap-aka", "eap-aka-prime", "prins", "quic"}
===============================================================================
