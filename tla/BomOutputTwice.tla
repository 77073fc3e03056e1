---------------------------- MODULE BomOutputTwice ----------------------------
(***************************************************************************)
(* BomOutput with a memory of the last document, to compare two documents  *)
(* of one BOM.                                                             *)
(***************************************************************************)
EXTENDS BomOutput

VARIABLE previous  \* what was rendered last, and from what; or None

\* What the document says: elements under their bom-refs, the entries of the
\* graph under theirs.
Document ==
  [refs  |-> [e \in Rendered |-> value[e]],
   links |-> {[ref |-> value[d], on |-> {value[r] : r \in dependencies[d]}] :
                d \in DOMAIN dependencies}]

Source == [root |-> root, components |-> components, services |-> services,
           vulnerabilities |-> vulnerabilities, dependencies |-> dependencies]

TwiceInit == OutputInit /\ previous = None

TwiceNext ==
  \/ /\ Apply \/ generate \/ Discriminating
     /\ UNCHANGED previous
  \/ /\ Serialised
     /\ previous' = [document |-> Document, source |-> Source]

TwiceSpec == TwiceInit /\ [][TwiceNext]_<<outputVars, previous>>

\* docs/responsibilities_capabilities.rst:25, serializers "generate
\* reproducible/deterministic results": a BOM rendered again, unchanged,
\* gives the same document.
Reproducible ==
  pc = "body" /\ previous # None =>
    (previous.source = Source => previous.document = Document)
=============================================================================
