--------------------------- MODULE ConversionProofs ---------------------------
(***************************************************************************)
(* Proofs about Conversion, for every table of fields.                     *)
(***************************************************************************)
EXTENDS Conversion, TLAPS

\* The choice of the set and the difference stays within the tables, and
\* leaves the BOM and the documents alone.
Choosing ==
  /\ path # <<>> => Class \in DOMAIN Fields
  /\ stage = "path" => diff = <<>>
  /\ stage = "diff" => /\ path # <<>>
                       /\ diff # <<>> => Last(diff).to \in DOMAIN Fields
  /\ stage # "model" => items = 0 /\ apart = {} /\ oldest = Newest + 1

TInv == TypeOK /\ Choosing

\* The last element of a sequence just extended is the new one.
LEMMA LastOfAppend ==
  ASSUME NEW S, NEW s \in Seq(S), NEW e \in S
  PROVE  /\ Append(s, e) \in Seq(S)
         /\ Append(s, e) # <<>>
         /\ Last(Append(s, e)) = e
  BY DEF Last

\* A legal step leads to a leaf or to a class of the tables.
LEMMA LegalSteps ==
  ASSUME NEW class \in DOMAIN Fields, NEW step \in Steps(class), Legal(step)
  PROVE  /\ step \in AllSteps
         /\ step.to # "leaf" => step.to \in DOMAIN Fields
<1>1. step \in AllSteps
  BY DEF AllSteps
<1>2. step.class = class /\ step.field \in DOMAIN Fields[class]
  BY DEF Steps
<1>3. Field(step).of \subseteq DOMAIN Fields
  BY <1>2, FieldsAssumption DEF Field
<1> QED
  BY <1>1, <1>3 DEF Legal

LEMMA TInvInit == Init => TInv
<1> SUFFICES ASSUME Init PROVE TInv
  OBVIOUS
<1> QED
  BY FieldsAssumption DEF Init, TInv, TypeOK, Choosing, Blank, Versions

LEMMA TInvNext == TInv /\ [Next]_vars => TInv'
<1> SUFFICES ASSUME TInv, [Next]_vars PROVE TInv'
  OBVIOUS
<1> USE FieldsAssumption DEF TInv, TypeOK
<1>1. CASE Descend
  <2> DEFINE from == IF path = <<>> THEN "Bom" ELSE Class
  <2>1. PICK step \in Steps(from) :
          /\ Legal(step) /\ step.to # "leaf"
          /\ path' = Append(path, step)
          /\ stage' \in IF Field(step).many THEN {"path", "diff"} ELSE {"path"}
    BY <1>1 DEF Descend
  <2>2. from \in DOMAIN Fields
    BY DEF Choosing
  <2>3. step \in AllSteps /\ step.to \in DOMAIN Fields
    BY <2>1, <2>2, LegalSteps
  <2>4. path' \in Seq(AllSteps) /\ path' # <<>> /\ Last(path') = step
    BY <2>1, <2>3, LastOfAppend
  <2>5. stage = "path" /\ stage' \in {"path", "diff"}
        /\ UNCHANGED <<diff, items, apart, document, oldest>>
    BY <1>1, <2>1 DEF Descend
  <2>6. TypeOK'
    BY <2>4, <2>5
  <2>7. Choosing'
    BY <2>3, <2>4, <2>5 DEF Choosing, Class
  <2> QED
    BY <2>6, <2>7
<1>2. CASE Differ
  <2> DEFINE from == IF diff = <<>> THEN Class ELSE Last(diff).to
  <2>1. PICK step \in Steps(from) :
          /\ Legal(step)
          /\ diff' = Append(diff, step)
          /\ IF step.to = "leaf"
             THEN /\ stage' = "model"
                  /\ items' = SetOf(2, {diff'})
                  /\ apart' = IF items' = 2 THEN {diff'} ELSE {}
             ELSE UNCHANGED <<stage, items, apart>>
    BY <1>2 DEF Differ
  <2>2. stage = "diff" /\ UNCHANGED <<path, document, oldest>>
    BY <1>2 DEF Differ
  <2>3. from \in DOMAIN Fields
    BY <2>2 DEF Choosing
  <2>4. step \in AllSteps /\ (step.to # "leaf" => step.to \in DOMAIN Fields)
    BY <2>1, <2>3, LegalSteps
  <2>5. diff' \in Seq(AllSteps) /\ diff' # <<>> /\ Last(diff') = step
    BY <2>1, <2>4, LastOfAppend
  <2>6. document = Blank /\ document'.items = 0
    BY <2>2 DEF Blank
  <2>7. CASE step.to = "leaf"
    <3>1. items' \in {1, 2} /\ ((apart' # {}) <=> (items' = 2))
      BY <2>1, <2>7 DEF SetOf
    <3>2. TypeOK'
      BY <2>1, <2>2, <2>5, <2>6, <2>7, <3>1
    <3>3. Choosing'
      BY <2>1, <2>2, <2>5, <2>7 DEF Choosing, Class
    <3> QED
      BY <3>2, <3>3
  <2>8. CASE step.to # "leaf"
    <3>1. TypeOK'
      BY <2>1, <2>2, <2>5, <2>8
    <3>2. Choosing'
      BY <2>1, <2>2, <2>4, <2>5, <2>8 DEF Choosing, Class
    <3> QED
      BY <3>1, <3>2
  <2> QED
    BY <2>7, <2>8
<1>3. ASSUME NEW v \in Versions, Write(v)
      PROVE  TInv'
  <2>1. stage = "model" /\ UNCHANGED <<stage, path, diff, items, apart>>
        /\ document' = RenderedIn(v)
        /\ oldest' \in {v, oldest}
    BY <1>3 DEF Write
  <2>2. document'.version = v /\ document'.items \in 0..items
    BY <2>1 DEF RenderedIn
  <2>3. TypeOK'
    BY <2>1, <2>2 DEF Versions
  <2>4. Choosing'
    BY <2>1 DEF Choosing, Class
  <2> QED
    BY <2>3, <2>4
<1>4. CASE Read
  <2>1. stage = "model" /\ UNCHANGED <<stage, path, diff, oldest>> /\ document' = Blank
        /\ items' = SetOf(document.items, document.apart)
        /\ apart' = IF items' = 2 THEN document.apart ELSE {}
    BY <1>4 DEF Read
  <2>2. items' \in 0..2 /\ (items' = 2 => document.apart # {})
    BY <2>1 DEF SetOf
  <2>3. TypeOK'
    BY <2>1, <2>2 DEF Blank
  <2>4. Choosing'
    BY <2>1 DEF Choosing, Class
  <2> QED
    BY <2>3, <2>4
<1>5. CASE UNCHANGED vars
  BY <1>5 DEF vars, Choosing, Class
<1> QED
  BY <1>1, <1>2, <1>3, <1>4, <1>5 DEF Next

\* The state has its types, and a BOM with two elements of a set has something
\* that tells them apart.
THEOREM TypeCorrect == Spec => []TypeOK
<1>1. TInv => TypeOK
  BY DEF TInv
<1> QED
  BY TInvInit, TInvNext, <1>1, PTL DEF Spec

-------------------------------------------------------------------------------
\* Of every field but Component.modified: once in the view, always in it.
NoGaps ==
  \A class \in DOMAIN Fields : \A f \in DOMAIN Fields[class] :
    <<class, f>> # <<"Component", "modified">> =>
      \A v, w \in Versions : v \in Fields[class][f].views /\ v <= w => w \in Fields[class][f].views

\* A document shows what its version renders of the difference the BOM has,
\* and the oldest version that showed it is one that renders it.
UInv ==
  /\ document.items = 2 => document.version \in Versions
  /\ document.items = 2 /\ diff \in apart /\ Rendered(diff, document.version)
       => diff \in document.apart
  /\ oldest \in Versions => Rendered(diff, oldest)

LEMMA UInvInit == Init => UInv
  BY FieldsAssumption DEF Init, UInv, Blank, Versions

LEMMA UInvNext == TInv /\ UInv /\ [Next]_vars => UInv'
<1> SUFFICES ASSUME TInv, UInv, [Next]_vars PROVE UInv'
  OBVIOUS
<1>1. CASE Descend
  BY <1>1 DEF Descend, UInv, Rendered
<1>2. CASE Differ
  <2>1. document' = Blank /\ oldest' = Newest + 1
    BY <1>2 DEF Differ, TInv, TypeOK, Choosing
  <2>2. oldest' \notin Versions
    BY <2>1, FieldsAssumption DEF Versions
  <2> QED
    BY <2>1, <2>2 DEF UInv, Blank
<1>3. ASSUME NEW v \in Versions, Write(v)
      PROVE  UInv'
  <2>1. diff' = diff /\ apart' = apart /\ document' = RenderedIn(v)
        /\ oldest' = IF diff \in document'.apart /\ v < oldest THEN v ELSE oldest
    BY <1>3 DEF Write
  <2>2. document'.version = v
    BY <2>1 DEF RenderedIn
  <2>3. document'.items = 2 => document'.apart = {d \in apart \cup RefPaths : Rendered(d, v)}
    BY <2>1 DEF RenderedIn
  <2>4. diff \in document'.apart => Rendered(diff, v)
    BY <2>1 DEF RenderedIn
  <2>5. oldest' \in Versions => Rendered(diff, oldest')
    BY <2>1, <2>4 DEF UInv
  <2>6. \A u : Rendered(diff, u)' = Rendered(diff, u)
    BY <2>1 DEF Rendered
  <2> QED
    BY <2>1, <2>2, <2>3, <2>5 DEF UInv, Rendered
<1>4. CASE Read
  BY <1>4 DEF Read, UInv, Blank, Rendered
<1>5. CASE UNCHANGED vars
  BY <1>5 DEF vars, UInv, Rendered
<1> QED
  BY <1>1, <1>2, <1>3, <1>4, <1>5 DEF Next

\* A path that avoids Component.modified stays rendered.
LEMMA RenderedStays ==
  ASSUME NoGaps, NEW steps \in Seq(AllSteps), ~Through(steps, {<<"Component", "modified">>}),
         NEW v \in Versions, NEW w \in Versions, v <= w, Rendered(steps, v)
  PROVE  Rendered(steps, w)
<1> SUFFICES ASSUME NEW i \in DOMAIN steps PROVE w \in Field(steps[i]).views
  BY DEF Rendered
<1>1. steps[i] \in AllSteps
  OBVIOUS
<1>2. steps[i].class \in DOMAIN Fields /\ steps[i].field \in DOMAIN Fields[steps[i].class]
  BY <1>1 DEF AllSteps, Steps
<1>3. <<steps[i].class, steps[i].field>> # <<"Component", "modified">>
  BY DEF Through
<1>4. v \in Fields[steps[i].class][steps[i].field].views
  BY DEF Rendered, Field
<1> QED
  BY <1>2, <1>3, <1>4 DEF NoGaps, Field

\* Whatever fields the classes get: as long as no view has a gap, what a
\* document shows of a difference, later and newer documents show too.
THEOREM UpgradesKeep == NoGaps => (Spec => []UpgradeKeeps)
<1>1. TInv /\ UInv /\ NoGaps => UpgradeKeeps
  <2> SUFFICES ASSUME TInv, UInv, NoGaps, document.items = 2, diff \in apart,
                      oldest <= document.version,
                      ~Through(diff, {<<"Component", "modified">>})
               PROVE  diff \in document.apart
    BY DEF UpgradeKeeps
  <2>1. document.version \in Versions
    BY DEF UInv
  <2>2. oldest \in Versions
    BY <2>1, FieldsAssumption DEF TInv, TypeOK, Versions
  <2>3. Rendered(diff, oldest)
    BY <2>2 DEF UInv
  <2>4. diff \in Seq(AllSteps)
    BY DEF TInv, TypeOK
  <2>5. Rendered(diff, document.version)
    BY <2>1, <2>2, <2>3, <2>4, RenderedStays
  <2> QED
    BY <2>5 DEF UInv
<1>2. ASSUME NoGaps PROVE Spec => []UpgradeKeeps
  BY <1>1, <1>2, TInvInit, TInvNext, UInvInit, UInvNext, PTL DEF Spec
<1> QED
  BY <1>2

-------------------------------------------------------------------------------
\* The way to the set leads through elements, the two differ in nothing but
\* diff and their bom-refs, and a document is the rendering of what is in
\* memory until it is read.
DInv ==
  /\ stage # "path" => path # <<>>
  /\ \A i \in DOMAIN path : path[i].to \in Field(path[i]).of
  /\ apart \subseteq {diff} \cup RefPaths
  /\ items = 2 => \E d \in apart : Compared(d)
  /\ document # Blank =>
       /\ stage = "model" /\ document.version \in Versions
       /\ document = RenderedIn(document.version)

LEMMA DInvInit == Init => DInv
  BY FieldsAssumption DEF Init, DInv

\* What an appended sequence holds.
LEMMA InAppend ==
  ASSUME NEW S, NEW s \in Seq(S), NEW e \in S, NEW i \in DOMAIN Append(s, e)
  PROVE  Append(s, e)[i] = e \/ (i \in DOMAIN s /\ Append(s, e)[i] = s[i])
  OBVIOUS

LEMMA DInvNext == TInv /\ DInv /\ [Next]_vars => DInv'
<1> SUFFICES ASSUME TInv, DInv, [Next]_vars PROVE DInv'
  OBVIOUS
<1>0. path \in Seq(AllSteps) /\ diff \in Seq(AllSteps)
  BY DEF TInv, TypeOK
<1>1. CASE Descend
  <2> DEFINE from == IF path = <<>> THEN "Bom" ELSE Class
  <2>1. PICK step \in Steps(from) :
          Legal(step) /\ step.to # "leaf" /\ path' = Append(path, step)
    BY <1>1 DEF Descend
  <2>2. step \in AllSteps
    <3>1. from \in DOMAIN Fields
      BY FieldsAssumption DEF TInv, Choosing
    <3> QED BY <3>1, LegalSteps, <2>1
  <2>3. path' # <<>>
    BY <1>0, <2>1, <2>2
  <2>4. step.to \in Field(step).of
    BY <2>1 DEF Legal
  <2>5. \A i \in DOMAIN path' : path'[i].to \in Field(path'[i]).of
    BY <1>0, <2>1, <2>2, <2>4, InAppend DEF DInv
  <2>6. apart' = {} /\ document' = Blank
    BY <1>1 DEF Descend, TInv, TypeOK, Choosing
  <2>7. items' # 2
    BY <1>1 DEF Descend, TInv, Choosing
  <2> QED BY <2>3, <2>5, <2>6, <2>7 DEF DInv, Field, Blank
<1>2. CASE Differ
  <2>1. /\ stage = "diff" /\ path' = path /\ document' = document
        /\ apart' \in {{}, {diff'}, apart}
    BY <1>2 DEF Differ
  <2>2. apart = {} /\ document = Blank
    BY <2>1 DEF TInv, TypeOK, Choosing
  <2>3. items' = 2 => apart' = {diff'} /\ \E d \in {diff'} : Compared(d)
    <3>1. items = 0
      BY <2>1 DEF TInv, Choosing
    <3> QED BY <1>2, <3>1 DEF Differ, SetOf
  <2>4. items' = 2 => \E d \in apart' : Compared(d)'
    BY <2>3 DEF Compared, Field
  <2> QED BY <2>1, <2>2, <2>4 DEF DInv, Field, Blank
<1>3. ASSUME NEW v \in Versions, Write(v) PROVE DInv'
  <2>1. /\ document' = RenderedIn(v) /\ stage = "model"
        /\ UNCHANGED <<stage, path, diff, items, apart>>
    BY <1>3 DEF Write
  <2>2. RenderedIn(v)' = RenderedIn(v) /\ RefPaths' = RefPaths
    BY <2>1 DEF RenderedIn, RefPaths, Rendered, Discriminated, OnlyFirst, Class, Last, Field
  <2>3. document'.version = v
    BY <2>1 DEF RenderedIn
  <2>4. document' = RenderedIn(document.version)'
    BY <2>1, <2>2, <2>3 DEF RenderedIn, RefPaths, Rendered, Discriminated, OnlyFirst, Class, Last, Field
  <2> QED BY <2>1, <2>2, <2>3, <2>4 DEF DInv, Field, Compared
<1>4. CASE Read
  <2>1. /\ document # Blank /\ document' = Blank /\ apart' \subseteq document.apart
        /\ UNCHANGED <<stage, path, diff>>
    BY <1>4 DEF Read
  <2>2. document.apart \subseteq apart \cup RefPaths
    <3>1. RenderedIn(document.version).apart \subseteq apart \cup RefPaths
      BY DEF RenderedIn
    <3> QED BY <2>1, <3>1 DEF DInv
  <2>3. RefPaths' = RefPaths
    BY <2>1 DEF RefPaths, Discriminated, Class, Last
  <2>4. items' = 2 => \E d \in apart' : Compared(d)
    BY <1>4 DEF Read, SetOf
  <2> QED BY <2>1, <2>2, <2>3, <2>4 DEF DInv, Field, Blank, Compared
<1>5. CASE UNCHANGED vars
  BY <1>5 DEF vars, DInv, RenderedIn, RefPaths, Rendered, Discriminated, OnlyFirst, Class, Last,
              Field, Blank, Compared
<1> QED
  BY <1>1, <1>2, <1>3, <1>4, <1>5 DEF Next

-------------------------------------------------------------------------------
\* What has a bom-ref handed out has a field for it.
BomRefsShown ==
  \A class \in DOMAIN Fields :
    \A f \in {"components", "services", "vulnerabilities"} \cap DOMAIN Fields[class] :
      \A to \in Fields[class][f].of : "bom_ref" \in DOMAIN Fields[to]

LEMMA LastStep ==
  ASSUME TInv, DInv, path # <<>>
  PROVE  /\ Len(path) \in DOMAIN path
         /\ Last(path) \in AllSteps /\ Last(path).to \in Field(Last(path)).of
  BY DEF TInv, TypeOK, DInv, Last

LEMMA DiscriminatedField ==
  ASSUME TInv, DInv, path # <<>>, Discriminated(path)
  PROVE  /\ Last(path).field \in {"components", "services", "vulnerabilities"}
         /\ Last(path).class \in DOMAIN Fields
         /\ Last(path).field \in DOMAIN Fields[Last(path).class]
         /\ Class \in DOMAIN Fields
         /\ Class \in Fields[Last(path).class][Last(path).field].of
<1> DEFINE step == Last(path)
<1>1. step.class \in DOMAIN Fields /\ step.field \in DOMAIN Fields[step.class]
  BY LastStep DEF AllSteps, Steps
<1>2. path \in Seq(AllSteps) /\ Len(path) \in Nat /\ DOMAIN path = 1..Len(path)
  BY DEF TInv, TypeOK
<1>3. step.field \in {"components", "services", "vulnerabilities"}
  <2>1. CASE [i \in DOMAIN path |-> path[i].field] \in {<<"services">>, <<"vulnerabilities">>}
    <3> DEFINE names == [i \in DOMAIN path |-> path[i].field]
    <3>1. names[Len(path)] = step.field /\ DOMAIN names = DOMAIN path
      BY LastStep DEF Last
    <3>2. names = <<"services">> \/ names = <<"vulnerabilities">>
      BY <2>1
    <3>3. DOMAIN names = {1}
      BY <3>2
    <3>4. Len(path) = 1
      BY <3>1, <3>3, LastStep
    <3> QED BY <3>1, <3>2, <3>4
  <2>2. CASE \A i \in DOMAIN path : path[i].field = "components"
    BY <2>2, LastStep DEF Last
  <2>3. CASE Len(path) > 2 /\ \A i \in 3..Len(path) : path[i].field = "components"
    BY <2>3, <1>2 DEF Last
  <2> QED BY <2>1, <2>2, <2>3 DEF Discriminated
<1>4. Class \in Fields[step.class][step.field].of
  BY LastStep DEF Class, Field
<1>5. Class \in DOMAIN Fields
  BY DEF TInv, Choosing
<1> QED
  BY <1>1, <1>3, <1>4, <1>5

LEMMA BomRefField ==
  ASSUME BomRefsShown, TInv, DInv, path # <<>>, Discriminated(path)
  PROVE  Class \in DOMAIN Fields /\ "bom_ref" \in DOMAIN Fields[Class]
  BY DiscriminatedField DEF BomRefsShown

\* Every field but Component.modified is in the newest view.
NewestShowsAll ==
  /\ \A class \in DOMAIN Fields : \A f \in DOMAIN Fields[class] :
       <<class, f>> # <<"Component", "modified">> => Newest \in Fields[class][f].views
  /\ Fields["Component"]["modified"].of = {}
  /\ BomRefsShown

LEMMA RenderedInNewest ==
  ASSUME NewestShowsAll, NEW steps \in Seq(AllSteps),
         ~Through(steps, {<<"Component", "modified">>})
  PROVE  Rendered(steps, Newest)
<1> SUFFICES ASSUME NEW i \in DOMAIN steps PROVE Newest \in Field(steps[i]).views
  BY DEF Rendered
<1>1. steps[i] \in AllSteps
  OBVIOUS
<1>2. steps[i].class \in DOMAIN Fields /\ steps[i].field \in DOMAIN Fields[steps[i].class]
  BY <1>1 DEF AllSteps, Steps
<1>3. <<steps[i].class, steps[i].field>> # <<"Component", "modified">>
  BY DEF Through
<1> QED
  BY <1>2, <1>3 DEF NewestShowsAll, Field

\* Whatever fields the classes get: as long as the newest version shows them,
\* and equality sees the difference, it comes through the newest version.
THEOREM NewestKeeps == NewestShowsAll => (Spec => NewestKeepsAll)
<1>1. TInv /\ DInv /\ NewestShowsAll /\ [Next]_vars =>
        [/\ items = 2 /\ diff \in apart /\ document.version = Newest /\ document' = Blank
         /\ ~Through(diff, {<<"Component", "modified">>}) /\ ~OnlyFirst(Newest)
         => diff \in apart']_vars
  <2> SUFFICES ASSUME TInv, DInv, NewestShowsAll, Next, items = 2, diff \in apart,
                      document.version = Newest, document' = Blank,
                      ~Through(diff, {<<"Component", "modified">>}), ~OnlyFirst(Newest)
               PROVE  diff \in apart'
    OBVIOUS
  <2>1. /\ document # Blank /\ Newest \in Versions /\ Newest + 1 \notin Versions
    BY FieldsAssumption DEF Blank, Versions
  <2>2. stage = "model" /\ document = RenderedIn(Newest) /\ path # <<>>
    BY <2>1 DEF DInv
  <2>3. Read
    <3>1. ASSUME NEW v \in Versions, Write(v) PROVE FALSE
      <4>1. document'.version = v
        BY <3>1 DEF Write, RenderedIn
      <4> QED BY <4>1, <2>1 DEF Blank
    <3> QED BY <3>1, <2>2 DEF Next, Descend, Differ
  <2>4. ~Through(path, {<<"Component", "modified">>})
    BY DEF Through, DInv, Field, NewestShowsAll
  <2>5. Rendered(path, Newest) /\ Rendered(diff, Newest)
    BY <2>4, RenderedInNewest DEF TInv, TypeOK
  <2>6. /\ document.items = 2
        /\ document.apart = {d \in apart \cup RefPaths : Rendered(d, Newest)}
    BY <2>2, <2>5 DEF RenderedIn
  <2>7. PICK d \in apart : Compared(d)
    BY DEF DInv
  <2>8. Rendered(d, Newest)
    <3>1. CASE d = diff
      BY <3>1, <2>5
    <3>2. CASE d \in RefPaths
      <4>1. Discriminated(path) /\ d = <<[class |-> Class, field |-> "bom_ref", to |-> "leaf"]>>
        BY <3>2 DEF RefPaths
      <4>2. Class \in DOMAIN Fields /\ "bom_ref" \in DOMAIN Fields[Class]
        BY <4>1, <2>2, BomRefField DEF NewestShowsAll
      <4>3. Newest \in Fields[Class]["bom_ref"].views
        BY <4>2 DEF NewestShowsAll
      <4> QED BY <4>1, <4>3 DEF Rendered, Field
    <3> QED BY <3>1, <3>2 DEF DInv
  <2>9. items' = 2 /\ apart' = document.apart
    BY <2>3, <2>6, <2>7, <2>8 DEF Read, SetOf
  <2> QED BY <2>5, <2>6, <2>9
<1>2. ASSUME NewestShowsAll PROVE Spec => NewestKeepsAll
  BY <1>1, <1>2, TInvInit, TInvNext, DInvInit, DInvNext, PTL DEF Spec, NewestKeepsAll
<1> QED
  BY <1>2

-------------------------------------------------------------------------------
\* Equality has every rendered field but those of Uncompared, and the Bom's
\* definitions; and no set holds a Bom.
EqualitySeesAll ==
  /\ \A class \in DOMAIN Fields \ {"Bom"} : \A f \in DOMAIN Fields[class] :
       /\ <<class, f>> \notin Uncompared
       /\ \E v \in Versions : v \in Fields[class][f].views
       => Fields[class][f].compared
  /\ \A class \in DOMAIN Fields : \A f \in DOMAIN Fields[class] : "Bom" \notin Fields[class][f].of
  /\ BomRefsShown

\* The difference is below an element of a set.
BelowElement == \A i \in DOMAIN diff : diff[i].class # "Bom" /\ diff[i].to # "Bom"

LEMMA BelowNext ==
  EqualitySeesAll /\ TInv /\ DInv /\ BelowElement /\ [Next]_vars => BelowElement'
<1> SUFFICES ASSUME EqualitySeesAll, TInv, DInv, BelowElement, [Next]_vars PROVE BelowElement'
  OBVIOUS
<1>1. CASE Differ
  <2> DEFINE from == IF diff = <<>> THEN Class ELSE Last(diff).to
  <2>1. PICK step \in Steps(from) : Legal(step) /\ diff' = Append(diff, step)
    BY <1>1 DEF Differ
  <2>2. stage = "diff" /\ path # <<>> /\ diff \in Seq(AllSteps)
    BY <1>1 DEF Differ, TInv, TypeOK, Choosing
  <2>3. from \in DOMAIN Fields
    BY <2>2 DEF TInv, Choosing
  <2>4. step \in AllSteps /\ step.class = from /\ step.field \in DOMAIN Fields[from]
    BY <2>1, <2>3, LegalSteps DEF Steps
  <2>5. from # "Bom"
    <3>1. CASE diff = <<>>
      <4>1. Last(path).to \in Field(Last(path)).of /\ Last(path) \in AllSteps
        BY <2>2, LastStep
      <4> QED BY <3>1, <4>1 DEF EqualitySeesAll, Class, Field, AllSteps, Steps
    <3>2. CASE diff # <<>>
      <4>1. Len(diff) \in DOMAIN diff
        BY <3>2, <2>2
      <4> QED BY <3>2, <4>1 DEF BelowElement, Last
    <3> QED BY <3>1, <3>2
  <2>6. step.to # "Bom"
    BY <2>1, <2>3, <2>4 DEF Legal, Field, EqualitySeesAll
  <2> QED BY <2>1, <2>2, <2>4, <2>5, <2>6, InAppend DEF BelowElement
<1>2. CASE UNCHANGED diff
  BY <1>2 DEF BelowElement
<1> QED
  BY <1>1, <1>2 DEF Next, vars, Descend, Read, Write

\* Equality sees what a document shows of a difference.
LEMMA ShownIsCompared ==
  ASSUME EqualitySeesAll, NEW steps \in Seq(AllSteps), NEW v \in Versions,
         \A i \in DOMAIN steps : steps[i].class # "Bom",
         ~Through(steps, Uncompared), Rendered(steps, v)
  PROVE  Compared(steps)
<1> SUFFICES ASSUME NEW i \in DOMAIN steps PROVE Field(steps[i]).compared
  BY DEF Compared
<1>1. steps[i] \in AllSteps
  OBVIOUS
<1>2. steps[i].class \in DOMAIN Fields \ {"Bom"} /\ steps[i].field \in DOMAIN Fields[steps[i].class]
  BY <1>1 DEF AllSteps, Steps
<1>3. <<steps[i].class, steps[i].field>> \notin Uncompared
  BY DEF Through
<1>4. v \in Fields[steps[i].class][steps[i].field].views
  BY DEF Rendered, Field
<1> QED
  BY <1>2, <1>3, <1>4 DEF EqualitySeesAll, Field

\* Whatever fields the classes get: as long as equality has every rendered
\* field, a set drops an element only for another that documents show alike.
THEOREM AlikeMerge == EqualitySeesAll => (Spec => OnlyAlikeMerge)
<1>1. TInv /\ DInv /\ BelowElement /\ BelowElement' /\ TInv' /\ EqualitySeesAll /\ [Next]_vars =>
        [items' = 1 /\ (items = 2 \/ stage = "diff") /\ ~Through(diff', Uncompared) =>
           IF stage = "diff" THEN \A v \in Versions : ~Rendered(diff', v)
                             ELSE document.apart = {}]_vars
  <2> SUFFICES ASSUME TInv, DInv, BelowElement, BelowElement', TInv', EqualitySeesAll, Next,
                      items' = 1, items = 2 \/ stage = "diff", ~Through(diff', Uncompared)
               PROVE  IF stage = "diff" THEN \A v \in Versions : ~Rendered(diff', v)
                                        ELSE document.apart = {}
    OBVIOUS
  <2>1. CASE stage = "diff"
    <3>1. items = 0 /\ Differ
      BY <2>1 DEF Next, Descend, Read, Write, TInv, Choosing
    <3>2. ~Compared(diff')
      BY <3>1 DEF Differ, SetOf
    <3>3. diff' \in Seq(AllSteps) /\ \A i \in DOMAIN diff' : diff'[i].class # "Bom"
      BY DEF TInv, TypeOK, BelowElement
    <3> QED BY <2>1, <3>2, <3>3, ShownIsCompared
  <2>2. CASE stage # "diff"
    <3>1. stage = "model" /\ items = 2
      BY <2>2 DEF TInv, TypeOK, Choosing
    <3>2. Read
      BY <3>1 DEF Next, Descend, Differ, Write
    <3>3. document # Blank /\ diff' = diff /\ items' = SetOf(document.items, document.apart)
      BY <3>2 DEF Read
    <3>4. /\ document.version \in Versions /\ path # <<>>
          /\ document = RenderedIn(document.version)
      BY <3>1, <3>3 DEF DInv
    <3> SUFFICES ASSUME NEW d \in document.apart PROVE FALSE
      BY <2>2
    <3>5. document.items = 2 /\ d \in apart \cup RefPaths /\ Rendered(d, document.version)
      BY <3>4 DEF RenderedIn
    <3>6. ~Compared(d)
      BY <3>3, <3>5 DEF SetOf
    <3>7. CASE d = diff
      BY <3>3, <3>4, <3>5, <3>6, <3>7, ShownIsCompared DEF TInv, TypeOK, BelowElement
    <3>8. CASE d \in RefPaths
      <4>1. Discriminated(path) /\ d = <<[class |-> Class, field |-> "bom_ref", to |-> "leaf"]>>
        BY <3>8 DEF RefPaths
      <4>2. Class \in DOMAIN Fields /\ "bom_ref" \in DOMAIN Fields[Class]
        BY <3>4, <4>1, BomRefField DEF EqualitySeesAll
      <4>3. Class # "Bom"
        BY <3>4, LastStep DEF EqualitySeesAll, Class, Field, AllSteps, Steps
      <4>4. document.version \in Fields[Class]["bom_ref"].views
        BY <3>5, <4>1 DEF Rendered, Field
      <4>5. <<Class, "bom_ref">> \notin Uncompared
        BY DEF Uncompared
      <4>6. Fields[Class]["bom_ref"].compared
        BY <3>4, <4>2, <4>3, <4>4, <4>5 DEF EqualitySeesAll
      <4> QED BY <3>6, <4>1, <4>6 DEF Compared, Field
    <3> QED BY <3>5, <3>7, <3>8 DEF DInv
  <2> QED BY <2>1, <2>2
<1>2. Init => BelowElement
  BY DEF Init, BelowElement
<1>3. ASSUME EqualitySeesAll PROVE Spec => OnlyAlikeMerge
  BY <1>1, <1>2, <1>3, TInvInit, TInvNext, DInvInit, DInvNext, BelowNext,
     PTL DEF Spec, OnlyAlikeMerge
<1> QED
  BY <1>3

-------------------------------------------------------------------------------
\* Where the classes of the listed elements and what vulnerabilities affect can
\* be, pedigrees aside; that the listed have a bom-ref wherever they are shown
\* from 1.2 on; and that what an affect has is shown wherever it is.
AffectClasses == {"BomTarget", "BomTargetVersionRange"}

ListedInPlace ==
  \A class \in DOMAIN Fields : \A f \in DOMAIN Fields[class] :
    LET of == Fields[class][f].of
    IN  /\ "Bom" \notin of
        /\ "Pedigree" \in of => <<class, f>> = <<"Component", "pedigree">>
        /\ "BomMetaData" \in of => <<class, f>> = <<"Bom", "metadata">>
        /\ "Component" \in of =>
             \/ class = "Pedigree"
             \/ <<class, f>> \in {<<"Bom", "components">>, <<"BomMetaData", "component">>,
                                  <<"Component", "components">>}
        /\ "Service" \in of => <<class, f>> \in {<<"Bom", "services">>, <<"Service", "services">>}
        /\ "Vulnerability" \in of => <<class, f>> = <<"Bom", "vulnerabilities">>
        /\ f \in {"components", "services", "vulnerabilities"} =>
             \A v \in Fields[class][f].views : v >= 2 => \A to \in of :
               "bom_ref" \in DOMAIN Fields[to] /\ v \in Fields[to]["bom_ref"].views
        /\ <<class, f>> = <<"Vulnerability", "affects">> => of \subseteq AffectClasses
        /\ class \in AffectClasses =>
             /\ of \subseteq AffectClasses
             /\ "Vulnerability" \in DOMAIN Fields
             /\ "affects" \in DOMAIN Fields["Vulnerability"]
             /\ Fields["Vulnerability"]["affects"].views \subseteq Fields[class][f].views

ByPlace(p) == ~Through(p, {<<"Service", "services">>, <<"Component", "pedigree">>})

BelowMetadata(p) ==
  /\ Len(p) >= 2 /\ p[1].field = "metadata" /\ p[2].field = "component"
  /\ \A i \in 3..Len(p) : p[i].field = "components"

AllComponents(p) == \A i \in DOMAIN p : p[i].field = "components"

OfAffects(p) == Last(p).class = "Vulnerability" /\ Last(p).field = "affects"

\* Without nested services and pedigrees a path leads to the class of its end
\* on the one way there is.
OneWay ==
  path # <<>> /\ ByPlace(path) =>
    /\ Class \notin {"Bom", "Pedigree"}
    /\ Class = "BomMetaData" => Len(path) = 1 /\ path[1].field = "metadata"
    /\ Class = "Component" => AllComponents(path) \/ BelowMetadata(path)
    /\ Through(<<Last(path)>>, UniqueArrays) => Discriminated(path) \/ OfAffects(path)

\* All that an affect differs in is in the affect.
WithinAffect ==
  path # <<>> /\ OfAffects(path) =>
    /\ \A i \in DOMAIN diff : diff[i].class \in AffectClasses
    /\ stage = "diff" /\ diff # <<>> => Last(diff).to \in AffectClasses

LEMMA OneName ==
  ASSUME NEW S, NEW p \in Seq(S), Len(p) = 1
  PROVE  [i \in DOMAIN p |-> p[i].field] = <<p[1].field>>
  OBVIOUS

LEMMA ThroughLast ==
  ASSUME NEW step, NEW fields
  PROVE  Through(<<step>>, fields) <=> <<step.class, step.field>> \in fields
<1> DEFINE one == <<step>>
<1>1. DOMAIN one = {1} /\ one[1] = step
  OBVIOUS
<1> HIDE DEF one
<1>2. Through(one, fields) <=> <<step.class, step.field>> \in fields
  BY <1>1 DEF Through
<1> QED BY <1>2 DEF one

\* From where a step leads to the classes in question.
LEMMA LedFrom ==
  ASSUME ListedInPlace, NEW class \in DOMAIN Fields, NEW f \in DOMAIN Fields[class],
         NEW to \in Fields[class][f].of
  PROVE  /\ to # "Bom"
         /\ to = "Pedigree" => class = "Component" /\ f = "pedigree"
         /\ to = "BomMetaData" => class = "Bom" /\ f = "metadata"
         /\ to = "Component" => \/ class = "Pedigree"
                                \/ class = "Bom" /\ f = "components"
                                \/ class = "BomMetaData" /\ f = "component"
                                \/ class = "Component" /\ f = "components"
<1> DEFINE of == Fields[class][f].of
<1>1. /\ "Bom" \notin of
      /\ "Pedigree" \in of => <<class, f>> = <<"Component", "pedigree">>
      /\ "BomMetaData" \in of => <<class, f>> = <<"Bom", "metadata">>
      /\ "Component" \in of =>
           \/ class = "Pedigree"
           \/ <<class, f>> \in {<<"Bom", "components">>, <<"BomMetaData", "component">>,
                                <<"Component", "components">>}
  BY Zenon DEF ListedInPlace
<1> QED BY <1>1

LEMMA OneWayNext == ListedInPlace /\ TInv /\ DInv /\ OneWay /\ [Next]_vars => OneWay'
<1> SUFFICES ASSUME ListedInPlace, TInv, DInv, OneWay, [Next]_vars PROVE OneWay'
  OBVIOUS
<1>1. CASE Descend
  <2> DEFINE from == IF path = <<>> THEN "Bom" ELSE Class
  <2>1. PICK step \in Steps(from) :
          Legal(step) /\ step.to # "leaf" /\ path' = Append(path, step)
    BY <1>1 DEF Descend
  <2>2. from \in DOMAIN Fields
    BY FieldsAssumption DEF TInv, Choosing
  <2>3. /\ step \in AllSteps /\ step.class = from /\ step.field \in DOMAIN Fields[from]
        /\ step.to \in Fields[from][step.field].of
    BY <2>1, <2>2, LegalSteps DEF Steps, Legal, Field
  <2>4. /\ path \in Seq(AllSteps) /\ Len(path) \in Nat /\ DOMAIN path = 1..Len(path)
        /\ path' \in Seq(AllSteps) /\ Len(path') = Len(path) + 1 /\ path' # <<>>
        /\ Last(path') = step /\ path'[Len(path) + 1] = step
        /\ DOMAIN path' = 1..(Len(path) + 1)
        /\ \A i \in 1..Len(path) : path'[i] = path[i]
    BY <2>1, <2>3 DEF TInv, TypeOK, Last
  <2>5. Class' = step.to
    BY <2>4 DEF Class
  <2> SUFFICES ASSUME ByPlace(path')
               PROVE  /\ step.to \notin {"Bom", "Pedigree"}
                      /\ step.to = "BomMetaData" => Len(path') = 1 /\ path'[1].field = "metadata"
                      /\ step.to = "Component" => AllComponents(path') \/ BelowMetadata(path')
                      /\ <<step.class, step.field>> \in UniqueArrays =>
                           Discriminated(path') \/ OfAffects(path')
    <3>1. Through(<<Last(path')>>, UniqueArrays) => <<step.class, step.field>> \in UniqueArrays
      BY <2>4, ThroughLast
    <3> QED BY <2>5, <3>1 DEF OneWay, UniqueArrays
  <2>6. ByPlace(path) /\ <<step.class, step.field>>
                         \notin {<<"Service", "services">>, <<"Component", "pedigree">>}
    BY <2>4 DEF ByPlace, Through
  <2>9. /\ step.to # "Bom"
        /\ step.to = "Pedigree" => step.class = "Component" /\ step.field = "pedigree"
        /\ step.to = "BomMetaData" => step.class = "Bom" /\ step.field = "metadata"
        /\ step.to = "Component" => \/ step.class = "Pedigree"
                                    \/ step.class = "Bom" /\ step.field = "components"
                                    \/ step.class = "BomMetaData" /\ step.field = "component"
                                    \/ step.class = "Component" /\ step.field = "components"
    BY <2>2, <2>3, LedFrom
  <2>7. CASE path = <<>>
    <3>1. step.class = "Bom" /\ Len(path') = 1 /\ path'[1] = step
      BY <2>3, <2>4, <2>7
    <3>2. step.to \notin {"Bom", "Pedigree"}
      BY <2>9, <3>1
    <3>3. step.to = "BomMetaData" => step.field = "metadata"
      BY <2>9
    <3>4. step.to = "Component" => step.field = "components"
      BY <2>9, <3>1
    <3>5. step.field = "components" => AllComponents(path')
      BY <2>4, <2>7, <3>1 DEF AllComponents
    <3>6. [i \in DOMAIN path' |-> path'[i].field] = <<step.field>>
      BY <2>4, <3>1, OneName
    <3>7. <<step.class, step.field>> \in UniqueArrays =>
            step.field \in {"components", "services", "vulnerabilities"}
      BY <3>1 DEF UniqueArrays
    <3>8. <<step.class, step.field>> \in UniqueArrays => Discriminated(path')
      BY <3>5, <3>6, <3>7 DEF Discriminated, AllComponents
    <3> QED BY <3>1, <3>2, <3>3, <3>4, <3>5, <3>8
  <2>8. CASE path # <<>>
    <3>0. step.class = Class /\ Len(path) >= 1
      BY <2>3, <2>4, <2>8
    <3>1. /\ Class \notin {"Bom", "Pedigree"}
          /\ Class = "BomMetaData" => Len(path) = 1 /\ path[1].field = "metadata"
          /\ Class = "Component" => AllComponents(path) \/ BelowMetadata(path)
      BY <2>6, <2>8 DEF OneWay
    <3>2. step.to \notin {"Bom", "Pedigree", "BomMetaData"}
      BY <2>6, <2>9, <3>0, <3>1
    <3>3. step.to = "Component" => \/ step.class = "BomMetaData" /\ step.field = "component"
                                   \/ step.class = "Component" /\ step.field = "components"
      BY <2>9, <3>0, <3>1
    <3>4. ASSUME Class = "BomMetaData", step.field = "component" PROVE BelowMetadata(path')
      <4>1. Len(path) = 1 /\ path[1].field = "metadata"
        BY <3>1, <3>4
      <4>2. Len(path') = 2 /\ path'[1] = path[1] /\ path'[2] = step
        BY <2>4, <4>1
      <4> QED BY <3>4, <4>1, <4>2 DEF BelowMetadata
    <3>5. ASSUME Class = "Component", step.field = "components"
          PROVE  /\ AllComponents(path') \/ BelowMetadata(path')
                 /\ Discriminated(path')
      <4>1. CASE AllComponents(path)
        <5>1. AllComponents(path')
          BY <2>4, <3>5, <4>1 DEF AllComponents
        <5> QED BY <5>1 DEF AllComponents, Discriminated
      <4>2. CASE BelowMetadata(path)
        <5>1. BelowMetadata(path') /\ Len(path') > 2
          BY <2>4, <3>5, <4>2 DEF BelowMetadata
        <5>2. path'[1].class = path[1].class /\ path'[1].field = "metadata"
              /\ path'[2].field = "component"
          BY <5>1, <2>4, <4>2 DEF BelowMetadata
        <5> QED BY <5>1, <5>2 DEF BelowMetadata, Discriminated
      <4> QED BY <3>1, <3>5, <4>1, <4>2
    <3>6. <<step.class, step.field>> \in UniqueArrays =>
             \/ Class = "Component" /\ step.field = "components"
             \/ step.class = "Vulnerability" /\ step.field = "affects"
      BY <2>6, <3>0, <3>1 DEF UniqueArrays
    <3> QED BY <2>4, <3>0, <3>2, <3>3, <3>4, <3>5, <3>6 DEF OfAffects
  <2> QED BY <2>7, <2>8
<1>2. CASE UNCHANGED path
  BY <1>2 DEF OneWay, Class, Last, Discriminated, OfAffects, AllComponents, BelowMetadata,
              ByPlace, Through
<1> QED
  BY <1>1, <1>2 DEF Next, vars, Differ, Read, Write

LEMMA WithinAffectNext ==
  ListedInPlace /\ TInv /\ DInv /\ WithinAffect /\ [Next]_vars => WithinAffect'
<1> SUFFICES ASSUME ListedInPlace, TInv, DInv, WithinAffect, [Next]_vars PROVE WithinAffect'
  OBVIOUS
<1>1. CASE Descend
  <2>1. diff' = <<>>
    BY <1>1 DEF Descend, TInv, Choosing
  <2> QED BY <2>1 DEF WithinAffect
<1>2. CASE Differ
  <2> DEFINE from == IF diff = <<>> THEN Class ELSE Last(diff).to
  <2>1. PICK step \in Steps(from) :
          /\ Legal(step) /\ diff' = Append(diff, step)
          /\ step.to = "leaf" => stage' = "model"
    BY <1>2 DEF Differ
  <2>2. /\ stage = "diff" /\ path' = path /\ path # <<>> /\ diff \in Seq(AllSteps)
        /\ from \in DOMAIN Fields
    BY <1>2 DEF Differ, TInv, TypeOK, Choosing
  <2>3. /\ step \in AllSteps /\ step.class = from /\ step.field \in DOMAIN Fields[from]
        /\ step.to # "leaf" => step.to \in Fields[from][step.field].of
    BY <2>1, <2>2, LegalSteps DEF Steps, Legal, Field
  <2>4. Last(diff') = step /\ diff' # <<>>
    BY <2>1, <2>2, <2>3, LastOfAppend
  <2> SUFFICES ASSUME OfAffects(path)
               PROVE  /\ \A i \in DOMAIN diff' : diff'[i].class \in AffectClasses
                      /\ stage' = "diff" => step.to \in AffectClasses
    BY <2>2, <2>4 DEF WithinAffect, OfAffects
  <2>5. from \in AffectClasses
    <3>1. CASE diff = <<>>
      <4>1. /\ Last(path).to \in Fields["Vulnerability"]["affects"].of
            /\ "Vulnerability" \in DOMAIN Fields
            /\ "affects" \in DOMAIN Fields["Vulnerability"]
        BY <2>2, LastStep DEF OfAffects, Field, AllSteps, Steps
      <4> QED BY <3>1, <4>1 DEF ListedInPlace, Class
    <3>2. CASE diff # <<>>
      BY <2>2, <3>2 DEF WithinAffect
    <3> QED BY <3>1, <3>2
  <2>6. stage' = "diff" => step.to \in AffectClasses
    BY <2>1, <2>2, <2>3, <2>5 DEF ListedInPlace
  <2>7. \A i \in DOMAIN diff' : diff'[i].class \in AffectClasses
    BY <2>1, <2>2, <2>3, <2>5, InAppend DEF WithinAffect
  <2> QED BY <2>6, <2>7
<1>3. CASE UNCHANGED <<stage, path, diff>>
  BY <1>3 DEF WithinAffect, OfAffects, Last
<1> QED
  BY <1>1, <1>2, <1>3 DEF Next, vars, Read, Write

\* Whatever fields the classes get: as long as components, services and
\* vulnerabilities stay where they are and have their bom-refs, and what is
\* affected is shown in full, two elements in memory are never rendered as equal
\* items of an array that has to be of unique items, nested services and
\* pedigrees aside.
THEOREM UniqueItemsListed == ListedInPlace => (Spec => []UniqueItemsWhereListed)
<1>1. ListedInPlace /\ TInv /\ DInv /\ OneWay /\ WithinAffect => UniqueItemsWhereListed
  <2> SUFFICES ASSUME ListedInPlace, TInv, DInv, OneWay, WithinAffect,
                      document.items = 2, document.version >= 2,
                      Through(<<Last(path)>>, UniqueArrays), ByPlace(path)
               PROVE  document.apart # {}
    BY DEF UniqueItemsWhereListed, ByPlace
  <2> DEFINE v == document.version
  <2>1. document # Blank
    BY DEF Blank
  <2>2. /\ v \in Versions /\ path # <<>> /\ document = RenderedIn(v)
    BY <2>1 DEF DInv
  <2>3. /\ items = 2 /\ Rendered(path, v)
        /\ document.apart = {d \in apart \cup RefPaths : Rendered(d, v)}
    BY <2>2 DEF RenderedIn, TInv, TypeOK
  <2>4. v \in Fields[Last(path).class][Last(path).field].views
    BY <2>2, <2>3, LastStep DEF Rendered, Field, Last
  <2>5. CASE Discriminated(path)
    <3> DEFINE step == [class |-> Class, field |-> "bom_ref", to |-> "leaf"]
    <3>1. "bom_ref" \in DOMAIN Fields[Class] /\ v \in Fields[Class]["bom_ref"].views
      BY <2>2, <2>4, <2>5, DiscriminatedField DEF ListedInPlace
    <3>2. Rendered(<<step>>, v)
      BY <3>1 DEF Rendered, Field
    <3>3. <<step>> \in RefPaths
      BY <2>5 DEF RefPaths
    <3> QED BY <2>3, <3>2, <3>3
  <2>6. CASE ~Discriminated(path)
    <3>1. OfAffects(path)
      BY <2>2, <2>6 DEF OneWay
    <3>2. diff \in apart
      BY <2>3, <2>6 DEF TInv, TypeOK, DInv, RefPaths
    <3>3. ASSUME NEW i \in DOMAIN diff PROVE v \in Field(diff[i]).views
      <4>1. diff[i] \in AllSteps /\ diff[i].class \in AffectClasses
        BY <2>2, <3>1 DEF WithinAffect, TInv, TypeOK
      <4>2. diff[i].class \in DOMAIN Fields /\ diff[i].field \in DOMAIN Fields[diff[i].class]
        BY <4>1 DEF AllSteps, Steps
      <4>3. v \in Fields["Vulnerability"]["affects"].views
        BY <2>4, <3>1 DEF OfAffects
      <4> QED BY <4>1, <4>2, <4>3 DEF ListedInPlace, Field
    <3>4. Rendered(diff, v)
      BY <3>3 DEF Rendered
    <3> QED BY <2>3, <3>2, <3>4
  <2> QED BY <2>5, <2>6
<1>2. Init => OneWay /\ WithinAffect
  BY DEF Init, OneWay, WithinAffect
<1>3. ASSUME ListedInPlace PROVE Spec => []UniqueItemsWhereListed
  BY <1>1, <1>2, <1>3, TInvInit, TInvNext, DInvInit, DInvNext, OneWayNext, WithinAffectNext,
     PTL DEF Spec
<1> QED
  BY <1>3
===============================================================================
