------------------------------ MODULE Conversion ------------------------------
(***************************************************************************)
(* What becomes of two elements of one set of a BOM when the BOM is        *)
(* rendered in one schema version after another and read back in between:  *)
(* Json and Xml render the fields of the version's view, reading builds    *)
(* SortedSets, and these keep one of two elements that __eq__ takes for    *)
(* the same.                                                               *)
(*                                                                         *)
(* A behaviour first goes down from the Bom to a set, then from an element *)
(* of it to the one field in which the two differ, and then writes and     *)
(* reads.  The tables of the fields are a constant.                        *)
(***************************************************************************)
EXTENDS Naturals, Sequences

CONSTANTS
  Fields,   \* class name -> field name -> its views, whether many, of what, compared
  Newest,   \* the newest schema version; the oldest is 0
  MaxPath,  \* bound: the fields between the Bom and the set
  MaxDiff   \* bound: the fields between an element and the difference

Versions == 0..Newest

ASSUME FieldsAssumption ==
  /\ Newest \in Nat
  /\ "Bom" \in DOMAIN Fields
  /\ \A class \in DOMAIN Fields : \A f \in DOMAIN Fields[class] :
       Fields[class][f].of \subseteq DOMAIN Fields

VARIABLES
  stage,     \* "path", "diff", then "model"
  path,      \* the fields from the Bom to the set that holds the two
  diff,      \* the fields from an element to the difference
  items,     \* how many of the two the BOM in memory has
  apart,     \* what tells them apart in memory, a set of field paths
  document,  \* the document last rendered
  oldest     \* the oldest version in which a document showed diff, or Newest + 1

vars == <<stage, path, diff, items, apart, document, oldest>>

-------------------------------------------------------------------------------
\* A step from an element of a class to a field, and, unless that is a leaf,
\* to an element of class `to` the field holds.
Steps(class) ==
  {[class |-> class, field |-> f, to |-> to] :
     f \in DOMAIN Fields[class], to \in {"leaf"} \cup DOMAIN Fields}

AllSteps == UNION {Steps(class) : class \in DOMAIN Fields}

Field(step) == Fields[step.class][step.field]

Legal(step) == IF Field(step).of = {} THEN step.to = "leaf" ELSE step.to \in Field(step).of

Last(steps) == steps[Len(steps)]

\* The class of the two elements.
Class == Last(path).to

Rendered(steps, v) == \A i \in DOMAIN steps : v \in Field(steps[i]).views

Compared(steps) == \A i \in DOMAIN steps : Field(steps[i]).compared

\* A from_bom that forgets the nested components.
DiscriminatedTopLevel(p) ==
  [i \in DOMAIN p |-> p[i].field] \in {<<"components">>, <<"services">>, <<"vulnerabilities">>}

\* BomRefDiscriminator.from_bom lists the elements of these sets, so that the
\* two have different bom-refs in every document that shows bom-refs.
Discriminated(p) ==
  \/ [i \in DOMAIN p |-> p[i].field] \in {<<"services">>, <<"vulnerabilities">>}
  \/ \A i \in DOMAIN p : p[i].field = "components"
  \/ /\ Len(p) > 2 /\ p[1].field = "metadata" /\ p[2].field = "component"
     /\ \A i \in 3..Len(p) : p[i].field = "components"

RefPaths == IF Discriminated(path)
            THEN {<<[class |-> Class, field |-> "bom_ref", to |-> "leaf"]>>} ELSE {}

\* The serialisation helpers of licenses and evidence render one element only
\* of several license expressions, and in 1.5 of several identities.
OnlyFirst(v) ==
  \/ Last(path).field = "licenses" /\ Class = "LicenseExpression"
  \/ Last(path).field = "identity" /\ v = 5

Blank == [version |-> Newest + 1, items |-> 0, apart |-> {}]

\* The BOM rendered in version v.
RenderedIn(v) ==
  LET shown == IF ~Rendered(path, v) THEN 0
               ELSE IF items = 2 /\ OnlyFirst(v) THEN 1 ELSE items
  IN  [version |-> v, items |-> shown,
       apart |-> IF shown = 2 THEN {d \in apart \cup RefPaths : Rendered(d, v)} ELSE {}]

\* A reader that builds lists.
ListOf(n, differences) == n

\* A set built of two elements has two unless they are equal.
SetOf(n, differences) ==
  IF n = 2 /\ ~ \E d \in differences : Compared(d) THEN 1 ELSE n

-------------------------------------------------------------------------------
Init ==
  /\ stage = "path"
  /\ path = <<>> /\ diff = <<>>
  /\ items = 0 /\ apart = {}
  /\ document = Blank
  /\ oldest = Newest + 1

\* The choice of the set and of the difference.
Descend ==
  /\ stage = "path" /\ Len(path) < MaxPath
  /\ \E step \in Steps(IF path = <<>> THEN "Bom" ELSE Class) :
       /\ Legal(step) /\ step.to # "leaf"
       /\ path' = Append(path, step)
       /\ stage' \in IF Field(step).many THEN {"path", "diff"} ELSE {"path"}
  /\ UNCHANGED <<diff, items, apart, document, oldest>>

Differ ==
  /\ stage = "diff" /\ Len(diff) < MaxDiff
  /\ \E step \in Steps(IF diff = <<>> THEN Class ELSE Last(diff).to) :
       /\ Legal(step)
       /\ diff' = Append(diff, step)
       /\ IF step.to = "leaf"
          THEN /\ stage' = "model"
               /\ items' = SetOf(2, {diff'})
               /\ apart' = IF items' = 2 THEN {diff'} ELSE {}
          ELSE UNCHANGED <<stage, items, apart>>
  /\ UNCHANGED <<path, document, oldest>>

\* as_json and as_xml of the BOM, with the view of a schema version.
Write(v) ==
  /\ stage = "model"
  /\ document' = RenderedIn(v)
  /\ oldest' = IF diff \in document'.apart /\ v < oldest THEN v ELSE oldest
  /\ UNCHANGED <<stage, path, diff, items, apart>>

\* from_json and from_xml of the document.
Read ==
  /\ stage = "model" /\ document # Blank
  /\ items' = SetOf(document.items, document.apart)
  /\ apart' = IF items' = 2 THEN document.apart ELSE {}
  /\ document' = Blank
  /\ UNCHANGED <<stage, path, diff, oldest>>

Next == Descend \/ Differ \/ Read \/ \E v \in Versions : Write(v)

Spec == Init /\ [][Next]_vars

-------------------------------------------------------------------------------
TypeOK ==
  /\ stage \in {"path", "diff", "model"}
  /\ path \in Seq(AllSteps) /\ diff \in Seq(AllSteps)
  /\ items \in 0..2
  /\ document.version \in 0..(Newest + 1) /\ document.items \in 0..items
  /\ oldest \in 0..(Newest + 1)
  /\ (apart # {}) <=> (items = 2)
  /\ stage # "model" => document = Blank

\* Fields that documents show and __comparable_tuple leaves out.
Uncompared ==
  {<<"OrganizationalEntity", "address">>, <<"PackageURL", "name">>,
   <<"CertificateProperties", "signature_algorithm_ref">>,
   <<"CertificateProperties", "subject_public_key_ref">>,
   <<"VulnerabilityRating", "score_or_0">>}

Through(steps, fields) ==
  \E i \in DOMAIN steps : <<steps[i].class, steps[i].field>> \in fields

\* A set drops one of two elements, when the application fills it or when a
\* document is read, only if no document, or not the one that is read, shows a
\* difference between them: equality ignores nothing that is rendered, the
\* fields of Uncompared aside.
OnlyAlikeMerge ==
  [][items' = 1 /\ (items = 2 \/ stage = "diff") /\ ~Through(diff', Uncompared) =>
       IF stage = "diff" THEN \A v \in Versions : ~Rendered(diff', v)
                         ELSE document.apart = {}]_vars

\* What a document in one version shows of a difference, a later rendering in
\* that version or a newer one shows too, as long as the BOM has it: no view
\* has a gap.  Component.modified, deprecated, is rendered in 1.0 alone.
UpgradeKeeps ==
  /\ document.items = 2 /\ diff \in apart /\ oldest <= document.version
  /\ ~Through(diff, {<<"Component", "modified">>})
  => diff \in document.apart

\* Two elements come through the newest version with their difference.
NewestKeepsAll ==
  [][/\ items = 2 /\ diff \in apart /\ document.version = Newest /\ document' = Blank
     /\ ~Through(diff, {<<"Component", "modified">>}) /\ ~OnlyFirst(Newest)
     => diff \in apart']_vars

\* The JSON schemas want the items of these arrays unique, from 1.2 on, and of
\* vulnerabilities and affects from 1.4 on.  There is no JSON before 1.2.
UniqueArrays ==
  {<<"Bom", "components">>, <<"Bom", "services">>, <<"Component", "components">>,
   <<"Service", "services">>, <<"Bom", "vulnerabilities">>, <<"Vulnerability", "affects">>}

\* The arrays that have to have unique items have, where no nested service and
\* no pedigree is on the way: the bom-refs the discriminator hands out keep
\* components, services and vulnerabilities apart even where the view hides all
\* they differ in.  On the other ways nothing keeps them apart.
UniqueItemsWhereListed ==
  /\ document.items = 2 /\ document.version >= 2 /\ Through(<<Last(path)>>, UniqueArrays)
  /\ ~Through(path, {<<"Service", "services">>, <<"Component", "pedigree">>})
  => document.apart # {}
===============================================================================
