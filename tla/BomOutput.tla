------------------------------ MODULE BomOutput ------------------------------
(***************************************************************************)
(* Json.generate (cyclonedx/output/json.py) and Xml.generate (xml.py) over *)
(* a Bom: validate(), then BomRefDiscriminator.from_bom around the         *)
(* serialisation.  Composes Bom.tla with BomRefDiscriminator.tla, which    *)
(* share the BomRef values.                                                *)
(*                                                                         *)
(* What a document says is read off the state in which the body of the     *)
(* with-block runs (pc = "body"): every element the BOM holds with its     *)
(* bom-ref, the entries of the graph, and the plain strings by which       *)
(* vulnerabilities name what they affect.                                  *)
(***************************************************************************)
EXTENDS Bom, SequencesExt

CONSTANTS Random,  \* strings _make_unique can draw
          Empty,   \* the empty string
          Affects  \* Affects[v]: the strings v.affects names elements by

ASSUME StringsAssumption ==
  /\ None \notin Random
  /\ Empty \notin Name \cup Random \cup {None}
  /\ Affects \in [Vulnerability -> SUBSET Name]

VARIABLES pc, bomrefs, i, known,  \* of the discriminator
          given                   \* history: the values the application gave

discriminator == <<pc, bomrefs, i, known>>
outputVars == <<vars, discriminator, given>>

\* from_bom gives the iterables, so the bound on arbitrary ones is idle.
Discriminator == INSTANCE BomRefDiscriminator WITH Given <- Name, MaxLen <- 0

-----------------------------------------------------------------------------
\* The sequences obtained by visiting the trees of S in some order, each as
\* a Python set is iterated: in any order.
Visits(S, pick) ==
  {FlattenSeq([k \in DOMAIN order |-> inner[order[k]]]) :
     order \in SetToSeqs(S),
     inner \in {f \in [S -> UNION {SetToSeqs(pick[c]) : c \in S}] :
                  \A c \in S : f[c] \in SetToSeqs(pick[c])}}

\* Mutant: the services' refs are forgotten.
from_bomWithoutServices(pick) ==
  {r \o c \o v : r \in Visits(Roots, pick), c \in Visits(components, pick),
                 v \in SetToSeqs(vulnerabilities)}

\* Mutant: vulnerabilities come first, and so keep a value others share.
from_bomVulnerabilitiesFirst(pick) ==
  {v \o r \o c \o s : r \in Visits(Roots, pick), c \in Visits(components, pick),
                      s \in SetToSeqs(services), v \in SetToSeqs(vulnerabilities)}

\* BomRefDiscriminator.from_bom: the root's tree, the other trees, the
\* services, the vulnerabilities; an object in two trees comes twice.
from_bom(pick) ==
  {r \o c \o s \o v : r \in Visits(Roots, pick), c \in Visits(components, pick),
                      s \in SetToSeqs(services), v \in SetToSeqs(vulnerabilities)}

OutputInit == /\ Init
              /\ Discriminator!Init
              /\ given = value

\* The application works on the BOM between two calls of generate.
Apply == /\ pc = "app"
         /\ Edit \/ Relate
         /\ UNCHANGED <<discriminator, given>>

\* generate(): validate() raises, or the with-block is entered.
generate ==
  /\ pc = "app"
  /\ \E pick \in AllComponents :
       /\ validateTracking(Tracked(pick))
       /\ \/ /\ last'.verdict = "ok"
             /\ \E s \in from_bom(pick) : Discriminator!Enter(s)
          \/ /\ last'.verdict # "ok"
             /\ UNCHANGED discriminator
  /\ UNCHANGED given

\* The loops of the discriminator.
Discriminating ==
  /\ Discriminator!Loop
  /\ UNCHANGED <<offending, root, components, services, vulnerabilities,
                 dependencies, last, given>>

\* as_json / as_xml returns, or raises: __exit__ runs either way.
Serialised ==
  /\ Discriminator!Exit
  /\ UNCHANGED <<offending, root, components, services, vulnerabilities,
                 dependencies, last, given>>

OutputNext == Apply \/ generate \/ Discriminating \/ Serialised

OutputSpec == OutputInit /\ [][OutputNext]_outputVars

-----------------------------------------------------------------------------
OutputTypeOK ==
  /\ pc = "app" => TypeOK
  /\ Discriminator!TypeOK
  /\ given \in [Ref -> Name \cup {None}]

Rendered == Everything \cup vulnerabilities
Listed == Discriminator!Listed

\* No object is listed twice: no component sits in two trees.
NothingShared ==
  \A r \in Listed : Cardinality(Discriminator!Positions(r)) = 1

\* CHANGELOG.md:775, "All bom-refs are guaranteed to have unique values on
\* rendering": the claim for every element of a document.
RenderedUnique ==
  pc = "body" => /\ \A e \in Rendered : value[e] # None
                 /\ \A e, f \in Rendered : value[e] = value[f] => e = f

\* The claim holds when services are not nested and no two components of a
\* BOM are alike but for bom-refs and children: every ref is then listed
\* (output/__init__.py:171-177, component.py:1662-1670).
RenderedUniqueWhenListed ==
  (/\ \A s \in services : Children[s] = {}
   /\ \A e, f \in Everything : Attributes[e] = Attributes[f] => e = f)
  => RenderedUnique

\* bom.py:827, "Make sure dependencies are all in this Bom", said of the
\* document: every ref of the graph is some element's bom-ref in it.
LinksResolve ==
  pc = "body" =>
    \A r \in RefsIn(dependencies) : \E e \in Everything : value[e] = value[r]

\* A ref of the graph resolves in the document if it is a listed object's
\* own BomRef, whatever the discriminator did to it, or if no object is
\* listed twice: validate's promise survives discrimination
\* (bom.py:827-838 with output/__init__.py:155-162).
LinksResolveUnlessShared ==
  pc = "body" =>
    \A r \in RefsIn(dependencies) :
      r \in Listed \/ NothingShared =>
        \E e \in Everything : value[e] = value[r]

\* A vulnerability names what it affects by a string (vulnerability.py
\* BomTarget.ref). If elements were given that string, the document has it
\* as the bom-ref of one of them, unless an object is listed twice.
AffectsResolveUnlessShared ==
  pc = "body" /\ NothingShared =>
    \A v \in vulnerabilities : \A n \in Affects[v] :
      (\E e \in Everything \cap Listed : given[e] = n) =>
        \E e \in Everything : given[e] = n /\ value[e] = n

\* The document has an entry under the rendered bom-ref of the root and of
\* every top-level element whose given bom-ref nothing else holds
\* (bom.py:819-825), unless an object is listed twice.
EntriesRendered ==
  pc = "body" /\ NothingShared =>
    \A e \in TopLevel :
      (\A f \in Listed \ {e} : given[f] # None => given[f] # given[e]) =>
        \E d \in DOMAIN dependencies : value[d] = value[e]

\* Generating, or failing to, leaves every BomRef as the application gave it
\* (output/__init__.py:151-153, 164-166).
ValuesComeBack == pc = "app" => value = given

\* Whoever calls generate meets the specification UniqueRefs, with the BomRefs
\* from_bom lists: a document is made of unique values that are the given
\* ones where nothing clashed, and the application never sees any others.
ImplementsUniqueRefs == Discriminator!Abstract!Spec
=============================================================================
