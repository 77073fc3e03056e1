--------------------------------- MODULE Bom ---------------------------------
(***************************************************************************)
(* cyclonedx/model/bom.py, class Bom: the component and service trees, the *)
(* dependency graph, register_dependency and validate.                     *)
(*                                                                         *)
(* An element is its object; its BomRef object is named by the element.    *)
(* Loose are BomRef objects no element owns: a document that was read, or  *)
(* an application that writes Dependency(ref=BomRef('x')), makes them.     *)
(* The bom-ref values are given when the objects are made and stay; how    *)
(* an output changes them for a while is BomOutput.tla's subject.          *)
(***************************************************************************)
EXTENDS Naturals, FiniteSets

CONSTANTS Component, Service,  \* Dependable objects
          Vulnerability,       \* no two of them equal; not Dependable
          Loose,               \* BomRef objects owned by none of them
          Name,                \* strings used as bom-refs
          None,                \* Python's None
          Children,            \* Children[e]: e.components or e.services
          Attributes,          \* Attributes[e]: all that __eq__ compares but
                               \* the bom-ref, the children and the licenses
          MaxDependsOn,        \* bound: most dependents given in one call
          MaxEdges             \* bound: edges with which a graph still grows

Element == Component \cup Service
Ref == Element \cup Vulnerability \cup Loose

ASSUME TreeAssumption ==
  /\ None \notin Name \cup Ref
  /\ Children \in [Element -> SUBSET Element]
  /\ DOMAIN Attributes = Element
  /\ MaxDependsOn \in Nat
  /\ MaxEdges \in Nat

\* The objects a program makes are finitely many, each of one kind.
ASSUME ObjectsAssumption ==
  /\ IsFiniteSet(Element \cup Vulnerability)
  /\ Element \cap Vulnerability = {}
  /\ Loose \cap (Element \cup Vulnerability) = {}

\* No element is nested in itself: the recursion over a tree ends.
ASSUME NestingAssumption ==
  \A S \in (SUBSET Element) \ {{}} : \E e \in S : Children[e] \cap S = {}

VARIABLES value,         \* value[r]: the string of BomRef r, or None
          offending,     \* elements (or "metadata") whose licenses hold an
                         \* expression beside another license
          root,          \* metadata.component, or None
          components,    \* Bom.components
          services,      \* Bom.services
          vulnerabilities, \* Bom.vulnerabilities
          dependencies,  \* Bom.dependencies: entry's ref -> refs it depends on
          last           \* the last call: [op, on, verdict, warned]

content == <<value, offending, root, components, services, vulnerabilities>>
vars == <<content, dependencies, last>>

-----------------------------------------------------------------------------
\* BomRef.__eq__: the same object, or two equal strings.
RefEq(r, q) == r = q \/ (value[r] # None /\ value[r] = value[q])

\* Component.__eq__ / Service.__eq__: the elements whose comparable tuples
\* equal that of e.
Same[e \in Element] ==
  {f \in Element :
     \/ f = e
     \/ /\ Attributes[e] = Attributes[f]
        /\ value[e] = value[f]
        /\ e \in offending <=> f \in offending
        /\ \A x \in Children[e] : \E y \in Children[f] : y \in Same[x]
        /\ \A y \in Children[f] : \E x \in Children[e] : y \in Same[x]}

Equal(e, f) == f \in Same[e]

\* An element with all that is nested in it.
Below[e \in Element] == {e} \cup UNION {Below[c] : c \in Children[e]}

\* get_all_nested_components(include_self=True): a Python set, so of equal
\* components one is left. Which one follows from attributes that are not
\* modelled; the component itself is added first.
Nested(c) == {X \in SUBSET Below[c] :
                /\ c \in X
                /\ \A x, y \in X : Equal(x, y) => x = y
                /\ \A y \in Below[c] : \E x \in X : Equal(x, y)}

Roots == {root} \ {None}

\* What _get_all_components may yield: a choice of Nested for every tree.
AllComponents == {pick \in [Roots \cup components -> SUBSET Component] :
                    \A c \in DOMAIN pick : pick[c] \in Nested(c)}
Tracked(pick) == UNION {pick[c] : c \in DOMAIN pick}

TopLevel == Roots \cup components \cup services

\* Every element the BOM holds, at any depth.
Everything == TopLevel \cup UNION {Below[e] : e \in TopLevel}

\* A dependency graph: for every entry's ref the refs it depends on.
IsGraph(d) == DOMAIN d \in SUBSET Ref /\ d \in [DOMAIN d -> SUBSET Ref]

RefsIn(d) == DOMAIN d \cup UNION {d[r] : r \in DOMAIN d}

Edges(d) == UNION {{r} \X d[r] : r \in DOMAIN d}

\* Adding S to a set that holds T, where equal refs collapse and the first
\* comer stays: the possible sets of refs that get in.
Newcomers(S, T) == {A \in SUBSET S :
                      /\ \A a \in A : \A t \in T \cup (A \ {a}) : ~RefEq(a, t)
                      /\ \A s \in S : \E t \in T \cup A : RefEq(s, t)}

\* Mutant: the entries there are already are not looked at.
RegisteredAfresh(d, S) ==
  {[r \in DOMAIN d \cup A |-> IF r \in DOMAIN d THEN d[r] ELSE {}] :
     A \in Newcomers(S, {})}

\* register_dependency(target) for every target of S, in some order.
Registered(d, S) ==
  {[r \in DOMAIN d \cup A |-> IF r \in DOMAIN d THEN d[r] ELSE {}] :
     A \in Newcomers(S, DOMAIN d)}

\* Mutant: the entry's dependencies are assigned instead of updated.
ExtendedByAssignment(d, target, S) ==
  UNION {{[d EXCEPT ![e] = A] : A \in Newcomers(S, {})} :
           e \in {e \in DOMAIN d : RefEq(e, target)}}

\* The entry that register_dependency finds for its target is extended ...
Extended(d, target, S) ==
  UNION {{[d EXCEPT ![e] = @ \cup A] : A \in Newcomers(S, d[e])} :
           e \in {e \in DOMAIN d : RefEq(e, target)}}

\* Mutant: an entry is looked for by identity, not by equality.
MadeForObject(d, target, S) ==
  IF target \in DOMAIN d THEN {}
  ELSE {[r \in DOMAIN d \cup {target} |-> IF r = target THEN A ELSE d[r]] :
          A \in Newcomers(S, {})}

\* ... or, if there is none, made.
Made(d, target, S) ==
  IF \E e \in DOMAIN d : RefEq(e, target) THEN {}
  ELSE {[r \in DOMAIN d \cup {target} |-> IF r = target THEN A ELSE d[r]] :
          A \in Newcomers(S, {})}

-----------------------------------------------------------------------------
Call(op, on, verdict, warned) ==
  [op |-> op, on |-> on, verdict |-> verdict, warned |-> warned]
Idle == Call("app", {}, "none", FALSE)

Init == /\ value \in [Ref -> Name \cup {None}]
        /\ \A r \in Loose : value[r] # None
        /\ offending \in SUBSET (Element \cup {"metadata"})
        /\ root = None
        /\ components = {}
        /\ services = {}
        /\ vulnerabilities = {}
        /\ dependencies = [r \in {} |-> {}]
        /\ last = Idle

\* bom.metadata.component = c
SetRoot(c) ==
  /\ root' = c
  /\ last' = Idle
  /\ UNCHANGED <<value, offending, components, services, vulnerabilities, dependencies>>

\* bom.components.add(c): a SortedSet takes no second equal element
AddComponent(c) ==
  /\ \A x \in components : ~Equal(x, c)
  /\ components' = components \cup {c}
  /\ last' = Idle
  /\ UNCHANGED <<value, offending, root, services, vulnerabilities, dependencies>>

\* bom.components.discard(c)
DiscardComponent(c) ==
  /\ c \in components
  /\ components' = components \ {c}
  /\ last' = Idle
  /\ UNCHANGED <<value, offending, root, services, vulnerabilities, dependencies>>

\* bom.services.discard(s)
DiscardService(s) ==
  /\ s \in services
  /\ services' = services \ {s}
  /\ last' = Idle
  /\ UNCHANGED <<value, offending, root, components, vulnerabilities, dependencies>>

\* bom.services.add(s)
AddService(s) ==
  /\ \A x \in services : ~Equal(x, s)
  /\ services' = services \cup {s}
  /\ last' = Idle
  /\ UNCHANGED <<value, offending, root, components, vulnerabilities, dependencies>>

\* bom.vulnerabilities.add(v)
AddVulnerability(v) ==
  /\ v \notin vulnerabilities
  /\ vulnerabilities' = vulnerabilities \cup {v}
  /\ last' = Idle
  /\ UNCHANGED <<value, offending, root, components, services, dependencies>>

\* Refs that are in two sorted sets pair by pair the same.
Alike(S, T) == /\ \A x \in S : \E y \in T : RefEq(x, y)
               /\ \A y \in T : \E x \in S : RefEq(x, y)

\* Adding an entry to the SortedSet of entries: one that compares equal in
\* ref and targets may be there already.  It is found if it has not grown
\* since it was added, as its hash has changed then: both are allowed.
Loaded(d, r, S) ==
  {[q \in DOMAIN d \cup {r} |-> IF q = r THEN A ELSE d[q]] : A \in Newcomers(S, {})}
  \cup {d : e \in {e \in DOMAIN d : RefEq(e, r) /\ Alike(d[e], S)}}

\* bom.dependencies.add(Dependency(ref=r, dependencies=S)) with refs of its
\* own, as reading a document does, be there an entry for an equal ref or not.
LoadDependency(r, S) ==
  /\ Cardinality(Edges(dependencies)) < MaxEdges
  /\ r \notin DOMAIN dependencies
  /\ dependencies' \in Loaded(dependencies, r, S)
  /\ last' = Idle
  /\ UNCHANGED content

\* bom.dependencies = []
ClearDependencies ==
  /\ dependencies' = [r \in {} |-> {}]
  /\ last' = Idle
  /\ UNCHANGED content

\* register_dependency(target, S). An iterator (oneShot) is exhausted by
\* the first loop over it, so the closing loop sees nothing.
register_dependency(target, S, oneShot) ==
  /\ Cardinality(Edges(dependencies)) < MaxEdges
  /\ \E d \in Extended(dependencies, target, S) \cup Made(dependencies, target, S) :
       dependencies' \in Registered(d, IF oneShot THEN {} ELSE S)
  /\ last' = Call("register", S, "none", FALSE)
  /\ UNCHANGED content

\* Mutant: services are forgotten in step 0.
PreparedWithoutServices ==
  UNION {Registered(c, components) : c \in Registered(dependencies, Roots)}

\* validate(), step 0: entries for the root and the top-level elements.
Prepared ==
  UNION {UNION {Registered(d, services) : d \in Registered(c, components)} :
           c \in Registered(dependencies, Roots)}

\* Mutant: only the entries' own refs are looked at, not what they depend on.
UnknownEntries(d, tracked) ==
  {r \in DOMAIN d : \A e \in tracked \cup services : ~RefEq(r, e)}

\* step 1: refs of the graph that are no tracked element's.
Unknown(d, tracked) ==
  {r \in RefsIn(d) : \A e \in tracked \cup services : ~RefEq(r, e)}

\* step 2: the root is set, there are components, it depends on nothing.
Incomplete(d) == /\ root # None
                 /\ components # {}
                 /\ \A e \in DOMAIN d : RefEq(e, root) => d[e] = {}

\* step 3: elements whose licenses are looked at.
Offenders(tracked) == offending \cap ({"metadata"} \cup tracked \cup services)

\* Mutant: the warning of step 2 is raised instead of issued.
VerdictRaisingWarnings(d, tracked) ==
  CASE Unknown(d, tracked) # {}  -> "UnknownComponentDependency"
    [] Unknown(d, tracked) = {} /\ Incomplete(d) -> "UserWarning"
    [] OTHER                     -> "ok"

\* The first of steps 1 and 3 to find something decides.
Verdict(d, tracked) ==
  CASE Unknown(d, tracked) # {}  -> "UnknownComponentDependency"
    [] Unknown(d, tracked) = {} /\ Offenders(tracked) # {}
                                 -> "LicenseExpressionAlongWithOthers"
    [] OTHER                     -> "ok"

\* validate(): the entries of step 0 stay whatever the later steps find.
validateTracking(tracked) ==
  /\ dependencies' \in Prepared
  /\ last' = Call("validate", {}, Verdict(dependencies', tracked),
                  Unknown(dependencies', tracked) = {} /\ Incomplete(dependencies'))
  /\ UNCHANGED content

validate == \E pick \in AllComponents : validateTracking(Tracked(pick))

DependsOn == {S \in SUBSET Element : Cardinality(S) <= MaxDependsOn}

\* The application's calls that change what the BOM holds.
Edit == \/ \E c \in Component \cup {None} : SetRoot(c)
        \/ \E c \in Component : AddComponent(c) \/ DiscardComponent(c)
        \/ \E s \in Service : AddService(s) \/ DiscardService(s)
        \/ \E v \in Vulnerability : AddVulnerability(v)

\* Its calls that change the graph.
Relate == \/ \E r \in Loose, S \in SUBSET Loose : LoadDependency(r, S)
          \/ ClearDependencies
          \/ \E t \in Element, S \in DependsOn, oneShot \in BOOLEAN :
               register_dependency(t, S, oneShot)

Next == Edit \/ Relate \/ validate

Spec == Init /\ [][Next]_vars

-----------------------------------------------------------------------------
TypeOK ==
  /\ value \in [Ref -> Name \cup {None}]
  /\ offending \in SUBSET (Element \cup {"metadata"})
  /\ root \in Component \cup {None}
  /\ components \in SUBSET Component
  /\ services \in SUBSET Service
  /\ vulnerabilities \in SUBSET Vulnerability
  /\ IsGraph(dependencies)
  /\ last \in [op : {"app", "register", "validate"}, on : SUBSET Element,
               verdict : {"none", "ok", "UnknownComponentDependency",
                          "LicenseExpressionAlongWithOthers"},
               warned : BOOLEAN]

\* Two refs of a set that are one to whoever compares them.
Twins(S) == {p \in S \X S : p[1] # p[2] /\ RefEq(p[1], p[2])}

\* A graph that was loaded may have two entries for one ref.  The calls of
\* register_dependency and validate make no such pair, whatever mixture of
\* objects, loaded entries and shared strings they find; and no entry ever
\* names a target twice (bom.py:781-797, dependency.py:87-103).
NoTwinsMade ==
  [][ /\ last'.op \in {"register", "validate"} =>
           Twins(DOMAIN dependencies') \subseteq Twins(DOMAIN dependencies)
      /\ \A r \in DOMAIN dependencies' : Twins(dependencies'[r]) = {} ]_vars

\* register_dependency and validate only add: an entry made or an edge given
\* earlier survives every later call (bom.py:786, 789-792).
EdgesKept ==
  [][ \/ dependencies' = [r \in {} |-> {}]
      \/ \A r \in DOMAIN dependencies :
           /\ r \in DOMAIN dependencies'
           /\ dependencies[r] \subseteq dependencies'[r] ]_vars

\* What a BOM accepted by validate() looks like: the graph speaks of nothing
\* but elements of this BOM, and the root and each top-level element can be
\* looked up in it (bom.py:820-838); removing an element after it was
\* registered must not leave an accepted BOM with a stale entry.
ValidatedIsClosed ==
  last.verdict = "ok" =>
    /\ \A r \in RefsIn(dependencies) : \E e \in Everything : RefEq(r, e)
    /\ \A e \in TopLevel :
         \E d \in DOMAIN dependencies : RefEq(d, e)

\* Validating an accepted BOM again changes nothing: generating twice gives
\* the same graph (bom.py:819-825 writes while it validates).
ValidateIdempotent ==
  [][last.verdict = "ok" /\ last'.op = "validate" => UNCHANGED dependencies]_vars

\* bom.py:795, "Ensure dependents are registered": the claim for any iterable.
DependentsRegistered ==
  last.op = "register" =>
    \A s \in last.on : \E d \in DOMAIN dependencies : RefEq(d, s)

\* bom.py:853, "If a LicenseExpression is set, then there must be no other
\* license": the claim for every element of an accepted BOM.
ExpressionStandsAlone ==
  last.verdict = "ok" => offending \cap (Everything \cup {"metadata"}) = {}
=============================================================================
