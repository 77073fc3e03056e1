---------------------------- MODULE OutputterProofs ----------------------------
(***************************************************************************)
(* Proofs about Outputter.tla: the types, which say that only sound        *)
(* contents get into documents; what an outputter may hand out; and what   *)
(* writers of one file, those that fail among them, do to it.              *)
(***************************************************************************)
EXTENDS Outputter, TLAPS

\* TypeOK holds throughout: in particular every document, in an outputter or
\* in a file, renders a sound content in a supported format, or is blank.
LEMMA TypeInit == Init => TypeOK
BY DEF Init, TypeOK, Document, File

\* A block is only opened by an outputter whose format has the schema; this
\* is what makes its document one of a supported outputter.
SupportedInside == \A o \in Outputter : renders[o] # None => o \in Supported

LEMMA SupportedStep == TypeOK /\ SupportedInside /\ [Next]_vars => SupportedInside'
<1> SUFFICES ASSUME TypeOK, SupportedInside, [Next]_vars PROVE SupportedInside'
  OBVIOUS
<1> USE DEF SupportedInside, TypeOK
<1>1. ASSUME NEW o \in Outputter, NEW force \in BOOLEAN, Enters(o, force)
      PROVE  SupportedInside'
  BY <1>1 DEF Enters
<1>2. ASSUME NEW o \in Outputter, renders' = [renders EXCEPT ![o] = None]
      PROVE  SupportedInside'
  BY <1>2
<1>3. ASSUME UNCHANGED renders PROVE SupportedInside'
  BY <1>3
<1>4. ASSUME NEW o \in Outputter, NEW force \in BOOLEAN, generate(o, force)
      PROVE  SupportedInside'
  BY <1>1, <1>3, <1>4 DEF generate, Cached, Raises
<1>5. ASSUME NEW o \in Outputter, Output(o) \/ OutputFails(o) PROVE SupportedInside'
  BY <1>1, <1>3, <1>5 DEF Output, OutputFails, Cached, Raises
<1> QED
  BY <1>2, <1>3, <1>4, <1>5
  DEF Next, vars, Change, set_bom, SetGenerated, Rendered, Abandoned, Check, Open,
      OpenFails, Write, WriteRest, WriteFails, Interfere

LEMMA TypeStep == TypeOK /\ SupportedInside /\ [Next]_vars => TypeOK'
<1> SUFFICES ASSUME TypeOK, SupportedInside, [Next]_vars PROVE TypeOK'
  OBVIOUS
<1> USE DEF TypeOK, caching
<1>1. ASSUME NEW b \in Bom, NEW c \in Content, Change(b, c) PROVE TypeOK'
  BY <1>1 DEF Change
<1>2. ASSUME NEW o \in Outputter, NEW b \in Bom, set_bom(o, b) PROVE TypeOK'
  BY <1>2 DEF set_bom
<1>3. ASSUME NEW o \in Outputter, NEW g \in BOOLEAN, SetGenerated(o, g) PROVE TypeOK'
  BY <1>3 DEF SetGenerated
<1>4. ASSUME NEW o \in Outputter, NEW force \in BOOLEAN, Enters(o, force)
      PROVE  UNCHANGED caching /\ renders' \in [Outputter -> Bom \cup {None}]
  BY <1>4 DEF Enters
<1>5. ASSUME NEW o \in Outputter, NEW force \in BOOLEAN, generate(o, force) PROVE TypeOK'
  <2>1. CASE Enters(o, force)
    BY <1>5, <2>1, <1>4 DEF generate
  <2>2. CASE Cached(o, force) \/ Raises(o, force)
    BY <1>5, <2>2 DEF generate, Cached, Raises
  <2> QED BY <1>5, <2>1, <2>2 DEF generate
<1>6. ASSUME NEW o \in Outputter, Rendered(o) PROVE TypeOK'
  <2>1. renders[o] \in Bom /\ o \in Supported
    BY <1>6 DEF Rendered, SupportedInside
  <2>2. [of |-> holds[renders[o]], from |-> renders[o], by |-> o] \in Document
    BY <1>6, <2>1 DEF Rendered, Document, Rendering
  <2>3. At(o, "render") => [call[o] EXCEPT !.pc = "write"] \in Call
    BY DEF At, Call
  <2>4. call' \in [Outputter -> Call \cup {None}]
    BY <1>6, <2>3 DEF Rendered
  <2>5. cache' \in [Outputter -> Document] /\ touched' \in [Outputter -> BOOLEAN]
    BY <1>6, <2>2 DEF Rendered
  <2> QED BY <1>6, <2>4, <2>5 DEF Rendered
<1>7. ASSUME NEW o \in Outputter, Abandoned(o) PROVE TypeOK'
  <2>1. Writing(o) => call[o].path \in Path
    BY DEF Writing, At, Call
  <2> QED BY <1>7, <2>1 DEF Abandoned
<1>8. ASSUME NEW o \in Outputter, NEW p \in Path, NEW allow \in BOOLEAN, Check(o, p, allow)
      PROVE  TypeOK'
  BY <1>8 DEF Check, Call
<1>16. ASSUME NEW o \in Outputter, NEW pc \in {"render", "write", "rest"},
              call[o] # None, call' = [call EXCEPT ![o].pc = pc]
       PROVE  call' \in [Outputter -> Call \cup {None}]
  <2>1. [call[o] EXCEPT !.pc = pc] \in Call
    BY <1>16 DEF Call
  <2> QED BY <1>16, <2>1
<1>9. ASSUME NEW o \in Outputter, Open(o) PROVE TypeOK'
  <2>1. call[o].path \in Path /\ call[o] # None
    BY <1>9 DEF Open, At, Call
  <2>2. call' \in [Outputter -> Call \cup {None}]
    BY <1>9, <1>16, <2>1 DEF Open
  <2>3. file' \in [Path -> File]
    BY <1>9, <2>1 DEF Open, File
  <2> QED BY <1>9, <2>1, <2>2, <2>3 DEF Open
<1>10. ASSUME NEW o \in Outputter, OpenFails(o) PROVE TypeOK'
  BY <1>10 DEF OpenFails
<1>11. ASSUME NEW o \in Outputter, Output(o) PROVE TypeOK'
  <2>1. CASE Enters(o, FALSE) /\ UNCHANGED call
    BY <1>11, <2>1, <1>4 DEF Output
  <2>2. CASE Cached(o, FALSE) /\ call' = [call EXCEPT ![o].pc = "write"]
    BY <1>11, <1>16, <2>2 DEF Output, Cached, At
  <2> QED BY <1>11, <2>1, <2>2 DEF Output
<1>12. ASSUME NEW o \in Outputter, OutputFails(o) \/ WriteFails(o) PROVE TypeOK'
  <2>1. call[o].path \in Path
    BY <1>12 DEF OutputFails, WriteFails, At, Call
  <2> QED BY <1>12, <2>1 DEF OutputFails, WriteFails, Raises
<1>13. ASSUME NEW o \in Outputter, Write(o) \/ WriteRest(o) PROVE TypeOK'
  <2>1. call[o].path \in Path /\ call[o] # None
    BY <1>13 DEF Write, WriteRest, At, Call
  <2>2. [begun |-> o] \in File /\ Torn \in File /\ cache[o] \in File
    BY DEF File, Part
  <2>3. file' \in [Path -> File]
    BY <1>13, <2>1, <2>2 DEF Write, WriteRest
  <2>4. call' \in [Outputter -> Call \cup {None}]
    BY <1>13, <1>16, <2>1 DEF Write, WriteRest
  <2> QED BY <1>13, <2>3, <2>4 DEF Write, WriteRest
<1>14. ASSUME NEW p \in Path, Interfere(p) PROVE TypeOK'
  BY <1>14 DEF Interfere, File
<1>15. CASE UNCHANGED vars
  BY <1>15 DEF vars
<1> QED
  BY <1>1, <1>2, <1>3, <1>5, <1>6, <1>7, <1>8, <1>9, <1>10, <1>11, <1>12, <1>13, <1>14,
     <1>15 DEF Next

\* TypeOK is an invariant of the outputters, whatever fails and interferes.
THEOREM TypeCorrect == Spec => []TypeOK
<1>1. Init => SupportedInside
  BY DEF Init, SupportedInside
<1> QED BY <1>1, TypeInit, TypeStep, SupportedStep, PTL DEF Spec

-----------------------------------------------------------------------------
\* A rendering is not the blank document.
LEMMA RenderingNotBlank ==
  ASSUME TypeOK, SupportedInside, NEW o \in Outputter, Rendered(o)
  PROVE  /\ cache'[o] # Blank
         /\ cache'[o].of = holds[renders[o]]
         /\ cache'[o].from = renders[o]
         /\ cache'[o].by = o
         /\ \A q \in Outputter : q # o => cache'[q] = cache[q]
<1>1. renders[o] \in Bom
  BY DEF Rendered, TypeOK
<1>2. [of |-> holds[renders[o]], from |-> renders[o], by |-> o] \in Rendering
  BY <1>1 DEF Rendered, Rendering, SupportedInside
<1>3. cache'[o] = [of |-> holds[renders[o]], from |-> renders[o], by |-> o]
  BY DEF Rendered, TypeOK
<1>4. \A q \in Outputter : q # o => cache'[q] = cache[q]
  BY DEF Rendered, TypeOK
<1> QED BY <1>2, <1>3, <1>4, NamesAssumption

\* BlankOnlyByHand is inductive beside the types, when a string that is about
\* to be written counts as handed out.
HandedOut ==
  /\ BlankOnlyByHand
  /\ \A o \in Outputter : At(o, "write") \/ At(o, "rest") =>
                            (cache[o] = Blank => marked[o])

LEMMA BlankStep ==
  TypeOK /\ SupportedInside /\ HandedOut /\ [Next]_vars => HandedOut'
<1> SUFFICES ASSUME TypeOK, SupportedInside, HandedOut, [Next]_vars PROVE HandedOut'
  OBVIOUS
<1> USE DEF TypeOK, HandedOut, BlankOnlyByHand, caching, At
<1>1. ASSUME NEW o \in Outputter, NEW g \in BOOLEAN, SetGenerated(o, g)
      PROVE  HandedOut'
  BY <1>1 DEF SetGenerated
<1>2. ASSUME NEW o \in Outputter, Rendered(o) PROVE HandedOut'
  <2>1. \A q \in Outputter \ {o} : generated'[q] = generated[q] /\ call'[q] = call[q]
    BY <1>2 DEF Rendered
  <2>2. marked' = marked /\ file' = file
    BY <1>2 DEF Rendered
  <2> QED BY <2>1, <2>2, <1>2, RenderingNotBlank
<1>10. ASSUME NEW o \in Outputter, call[o] # None, NEW pc \in {"render", "write", "rest"},
              call' = [call EXCEPT ![o].pc = pc]
       PROVE  /\ call'[o] # None /\ call'[o].pc = pc
              /\ \A q \in Outputter \ {o} : call'[q] = call[q]
  <2>1. call'[o] = [call[o] EXCEPT !.pc = pc] /\ call[o] \in Call
    BY <1>10
  <2>2. call'[o] \in Call /\ call'[o].pc = pc
    BY <2>1 DEF Call
  <2> QED BY <1>10, <2>2, NamesAssumption
<1>3. ASSUME NEW o \in Outputter, Open(o) PROVE HandedOut'
  <2>1. \A q \in Outputter \ {o} : call'[q] = call[q]
    BY <1>3, <1>10 DEF Open
  <2>2. call'[o].pc = "render"
    BY <1>3, <1>10 DEF Open
  <2>3. UNCHANGED <<generated, cache, marked>>
    BY <1>3 DEF Open
  <2>4. \A p \in Path : file'[p] = Blank => file[p] = Blank
    BY <1>3, NamesAssumption DEF Open
  <2> QED BY <2>1, <2>2, <2>3, <2>4
<1>4. ASSUME NEW o \in Outputter, Output(o) PROVE HandedOut'
  <2>1. CASE Enters(o, FALSE) /\ UNCHANGED call
    BY <1>4, <2>1 DEF Output, Enters
  <2>2. CASE Cached(o, FALSE) /\ call' = [call EXCEPT ![o].pc = "write"]
    <3>1. generated[o] /\ UNCHANGED <<generated, cache, marked, file>>
      BY <1>4, <2>2 DEF Output, Cached
    <3>2. \A q \in Outputter \ {o} : call'[q] = call[q]
      BY <1>4, <1>10, <2>2 DEF Output
    <3> QED BY <3>1, <3>2
  <2> QED BY <1>4, <2>1, <2>2 DEF Output
<1>5. ASSUME NEW o \in Outputter, Write(o) \/ WriteRest(o) PROVE HandedOut'
  <2>1. call[o].path \in Path /\ call[o] # None
    BY <1>5 DEF Write, WriteRest, Call
  <2>2. [begun |-> o] # Blank
    BY NamesAssumption DEF Part, Document
  <2>3. \A p \in Path : file'[p] = Blank => file[p] = Blank \/ cache[o] = Blank
    BY <1>5, <2>1, <2>2, NamesAssumption DEF Write, WriteRest
  <2>4. cache[o] = Blank => marked[o]
    BY <1>5 DEF Write, WriteRest
  <2>5. UNCHANGED <<generated, cache, marked>>
    BY <1>5 DEF Write, WriteRest
  <2>6. \A q \in Outputter \ {o} : call'[q] = call[q]
    BY <1>5, <1>10, <2>1 DEF Write, WriteRest
  <2> QED BY <2>3, <2>4, <2>5, <2>6
<1>6. ASSUME NEW p \in Path, Interfere(p) PROVE HandedOut'
  BY <1>6, NamesAssumption DEF Interfere
<1>7. ASSUME UNCHANGED <<generated, cache, file, marked, call>> PROVE HandedOut'
  BY <1>7
<1>8. ASSUME NEW o \in Outputter, NEW p \in Path, NEW allow \in BOOLEAN, Check(o, p, allow)
      PROVE  HandedOut'
  BY <1>8 DEF Check
<1>9. ASSUME NEW o \in Outputter, call' = [call EXCEPT ![o] = None],
             UNCHANGED <<generated, cache, file, marked>>
      PROVE  HandedOut'
  BY <1>9
<1> QED
  BY <1>1, <1>2, <1>3, <1>4, <1>5, <1>6, <1>7, <1>8, <1>9
  DEF Next, vars, Change, set_bom, generate, Cached, Raises, Enters, Abandoned, OpenFails,
      OutputFails, WriteFails

\* An outputter hands out the blank document only if its flag was set by hand.
THEOREM BlankByHand == Spec => []BlankOnlyByHand
<1>1. Init => HandedOut /\ SupportedInside
  BY NamesAssumption DEF Init, HandedOut, BlankOnlyByHand, At, SupportedInside
<1>2. HandedOut => BlankOnlyByHand
  BY DEF HandedOut
<1> QED BY <1>1, <1>2, BlankStep, SupportedStep, TypeCorrect, PTL DEF Spec

-----------------------------------------------------------------------------
\* CurrentUntilTouched is inductive beside the types: a BOM does not change
\* while a block is open on it, and set_bom marks the outputter.
LEMMA CurrentStep ==
  TypeOK /\ SupportedInside /\ CurrentUntilTouched /\ [Next]_vars => CurrentUntilTouched'
<1> SUFFICES ASSUME TypeOK, SupportedInside, CurrentUntilTouched, [Next]_vars
             PROVE  CurrentUntilTouched'
  OBVIOUS
<1>1. ASSUME NEW o \in Outputter, Rendered(o)
      PROVE  /\ cache'[o] # Blank
             /\ cache'[o].of = holds[renders[o]]
             /\ cache'[o].from = renders[o]
             /\ cache'[o].by = o
             /\ \A q \in Outputter : q # o => cache'[q] = cache[q]
  BY <1>1, RenderingNotBlank
<1> USE DEF TypeOK, CurrentUntilTouched, caching
<1>2. ASSUME NEW b \in Bom, NEW c \in Content, Change(b, c) PROVE CurrentUntilTouched'
  BY <1>2 DEF Change
<1>3. ASSUME NEW o \in Outputter, NEW b \in Bom, set_bom(o, b) PROVE CurrentUntilTouched'
  BY <1>3 DEF set_bom
<1>4. ASSUME NEW o \in Outputter, Rendered(o) PROVE CurrentUntilTouched'
  <2>1. UNCHANGED <<holds, bom>>
    BY <1>4 DEF Rendered
  <2>2. touched' = [touched EXCEPT ![o] = bom[o] # renders[o]]
    BY <1>4 DEF Rendered
  <2>3. touched'[o] <=> bom[o] # renders[o]
    BY <2>2, Zenon
  <2>4. \A q \in Outputter : q # o => touched'[q] = touched[q]
    BY <2>2, Zenon
  <2>5. ASSUME NEW q \in Outputter, ~touched'[q]
        PROVE  /\ cache'[q] # Blank
               /\ cache'[q].of = holds'[bom'[q]]
               /\ cache'[q].from = bom'[q]
               /\ cache'[q].by = q
    <3>1. CASE q = o
      <4>1. bom[o] = renders[o]
        BY <2>3, <2>5, <3>1, Zenon
      <4> QED BY <1>4, <1>1, <2>1, <3>1, <4>1
    <3>2. CASE q # o
      <4>1. ~touched[q]
        BY <2>4, <2>5, <3>2, Zenon
      <4>2. cache'[q] = cache[q]
        BY <1>4, <1>1, <3>2
      <4> QED BY <2>1, <4>1, <4>2
    <3> QED BY <3>1, <3>2
  <2> QED BY <2>5
<1>5. ASSUME UNCHANGED <<holds, bom, cache, touched>> PROVE CurrentUntilTouched'
  BY <1>5
<1> QED
  BY <1>2, <1>3, <1>4, <1>5
  DEF Next, vars, SetGenerated, generate, Cached, Raises, Enters, Abandoned, Check, Open,
      OpenFails, Output, OutputFails, Write, WriteRest, WriteFails, Interfere

\* A document stays the rendering of what its BOM holds until that changes.
THEOREM Current == Spec => []CurrentUntilTouched
<1>1. Init => CurrentUntilTouched /\ SupportedInside
  BY DEF Init, CurrentUntilTouched, SupportedInside
<1> QED BY <1>1, CurrentStep, SupportedStep, TypeCorrect, PTL DEF Spec

-----------------------------------------------------------------------------
\* No step but a rendering that succeeded touches a document, and that one
\* leaves a sound one.
LEMMA DocumentsStep ==
  TypeOK /\ SupportedInside /\ [Next]_vars =>
    \A o \in Outputter : cache[o] # Blank => cache'[o] # Blank
<1> SUFFICES ASSUME TypeOK, SupportedInside, [Next]_vars
             PROVE  \A o \in Outputter : cache[o] # Blank => cache'[o] # Blank
  OBVIOUS
<1>1. CASE \E o \in Outputter : Rendered(o)
  BY <1>1, RenderingNotBlank
<1>2. CASE UNCHANGED cache
  BY <1>2
<1> QED
  BY <1>1, <1>2
  DEF Next, vars, caching, Change, set_bom, SetGenerated, generate, Cached, Raises, Enters,
      Abandoned, Check, Open, OpenFails, Output, OutputFails, Write, WriteRest, WriteFails, Interfere

\* A failing call takes no document away.
THEOREM Stay == Spec => DocumentsStay
<1>1. Init => SupportedInside
  BY DEF Init, SupportedInside
<1>2. TypeOK /\ SupportedInside /\ [Next]_vars =>
        [\A o \in Outputter : cache[o] # Blank => cache'[o] # Blank]_vars
  BY DocumentsStep
<1> QED BY <1>1, <1>2, SupportedStep, TypeCorrect, PTL DEF Spec, DocumentsStay

-----------------------------------------------------------------------------
\* A path that no two calls had open at once has one writer, who finds it as
\* it left it.
Left(o) == IF At(o, "rest") THEN [begun |-> o] ELSE Truncated
Alone ==
  \A o, q \in Outputter :
    Writing(o) /\ call[o].path \notin shared =>
      /\ file[call[o].path] = Left(o)
      /\ Writing(q) /\ call[q].path = call[o].path => q = o

\* The step of a call to its next pc.
LEMMA Advanced ==
  ASSUME TypeOK, NEW o \in Outputter, call[o] # None, NEW pc \in {"render", "write", "rest"},
         call' = [call EXCEPT ![o].pc = pc]
  PROVE  /\ call[o].path \in Path
         /\ call'[o] # None /\ call'[o].pc = pc /\ call'[o].path = call[o].path
         /\ \A q \in Outputter \ {o} : call'[q] = call[q]
<1>1. call'[o] = [call[o] EXCEPT !.pc = pc] /\ call[o] \in Call
  BY DEF TypeOK
<1>2. call'[o] \in Call /\ call'[o].pc = pc /\ call'[o].path = call[o].path
  BY <1>1 DEF Call
<1>3. \A q \in Outputter \ {o} : call'[q] = call[q]
  BY DEF TypeOK
<1> QED BY <1>1, <1>2, <1>3, NamesAssumption DEF Call

LEMMA AloneStep ==
  TypeOK /\ Alone /\ TornOnlyIfShared /\ [Next]_vars => Alone' /\ TornOnlyIfShared'
<1> SUFFICES ASSUME TypeOK, Alone, TornOnlyIfShared, [Next]_vars
             PROVE  Alone' /\ TornOnlyIfShared'
  OBVIOUS
<1>1. ASSUME UNCHANGED <<file, shared>>,
             \A q \in Outputter : Writing(q)' => /\ Writing(q) /\ Left(q)' = Left(q)
                                                 /\ call'[q].path = call[q].path
      PROVE  Alone' /\ TornOnlyIfShared'
  BY <1>1 DEF Alone, TornOnlyIfShared
<1>2. ASSUME UNCHANGED <<file, call, shared>> PROVE Alone' /\ TornOnlyIfShared'
  BY <1>1, <1>2 DEF Writing, At, Left
<1>3. ASSUME NEW o \in Outputter, UNCHANGED <<file, shared>>,
             call' = [call EXCEPT ![o] = None]
      PROVE  Alone' /\ TornOnlyIfShared'
  BY <1>1, <1>3 DEF TypeOK, Writing, At, Left
<1>4. ASSUME NEW o \in Outputter, At(o, "render"), UNCHANGED <<file, shared>>,
             call' = [call EXCEPT ![o].pc = "write"]
      PROVE  Alone' /\ TornOnlyIfShared'
  <2>1. call'[o].path = call[o].path /\ call'[o].pc = "write"
    BY <1>4, Advanced DEF At
  <2>2. \A q \in Outputter \ {o} : call'[q] = call[q]
    BY <1>4 DEF TypeOK
  <2>3. ASSUME NEW q \in Outputter, Writing(q)'
        PROVE  Writing(q) /\ Left(q)' = Left(q) /\ call'[q].path = call[q].path
    BY <1>4, <2>1, <2>2, <2>3 DEF Writing, At, Left
  <2> QED BY <1>1, <1>4, <2>3
<1>5. ASSUME NEW o \in Outputter, Rendered(o) PROVE Alone' /\ TornOnlyIfShared'
  BY <1>2, <1>4, <1>5 DEF Rendered
<1>6. ASSUME NEW o \in Outputter, Output(o) PROVE Alone' /\ TornOnlyIfShared'
  BY <1>2, <1>4, <1>6 DEF Output
<1>7. ASSUME NEW o \in Outputter, NEW p \in Path, NEW allow \in BOOLEAN, Check(o, p, allow)
      PROVE  Alone' /\ TornOnlyIfShared'
  BY <1>1, <1>7 DEF Check, TypeOK, Writing, At, Left
<1>8. ASSUME NEW o \in Outputter, Open(o) PROVE Alone' /\ TornOnlyIfShared'
  <2> DEFINE p == call[o].path
  <2>1. /\ p \in Path
        /\ call'[o].pc = "render" /\ call'[o].path = p
        /\ \A q \in Outputter \ {o} : call'[q] = call[q]
    BY <1>8, Advanced DEF Open, At
  <2>2. /\ file' = [file EXCEPT ![p] = Truncated]
        /\ shared' = IF Writers(p) # {} THEN shared \cup {p} ELSE shared \ {p}
    BY <1>8 DEF Open
  <2>3. TornOnlyIfShared'
    BY <2>1, <2>2, NamesAssumption DEF TornOnlyIfShared, TypeOK
  <2>4. ASSUME p \notin shared', NEW q \in Outputter, Writing(q)
        PROVE  call[q].path # p
    BY <2>2, <2>4 DEF Writers
  <2>5. ASSUME NEW q \in Outputter, NEW r \in Outputter, Writing(q)', call'[q].path \notin shared'
        PROVE  /\ file'[call'[q].path] = Left(q)'
               /\ Writing(r)' /\ call'[r].path = call'[q].path => r = q
    <3>1. CASE q = o
      <4>1. file'[p] = Truncated /\ Left(o)' = Truncated
        BY <2>1, <2>2 DEF TypeOK, Left, At
      <4>2. ASSUME Writing(r)', r # o PROVE call'[r].path # p
        BY <2>1, <2>4, <2>5, <3>1, <4>2 DEF Writing, At
      <4> QED BY <2>1, <3>1, <4>1, <4>2
    <3>2. CASE q # o
      <4>1. Writing(q) /\ call[q].path = call'[q].path /\ Left(q)' = Left(q)
        BY <2>1, <2>5, <3>2 DEF Writing, At, Left
      <4>2. call[q].path # p
        BY <2>2, <2>4, <2>5, <4>1
      <4>3. call[q].path \notin shared /\ file'[call[q].path] = file[call[q].path]
        BY <2>2, <2>5, <4>1, <4>2 DEF TypeOK
      <4>4. r # o /\ Writing(r)' => Writing(r) /\ call'[r].path = call[r].path
        BY <2>1 DEF Writing, At
      <4> QED BY <2>1, <4>1, <4>2, <4>3, <4>4 DEF Alone
    <3> QED BY <3>1, <3>2
  <2> QED BY <2>3, <2>5 DEF Alone
<1>9. ASSUME NEW o \in Outputter, Write(o) PROVE Alone' /\ TornOnlyIfShared'
  <2> DEFINE p == call[o].path
  <2>1. /\ p \in Path
        /\ call'[o] # None /\ call'[o].pc = "rest" /\ call'[o].path = p
        /\ \A q \in Outputter \ {o} : call'[q] = call[q]
    BY <1>9, Advanced DEF Write, At
  <2>2. /\ \A r \in Path \ {p} : file'[r] = file[r]
        /\ file[p] = Truncated => file'[p] = [begun |-> o]
        /\ shared' = shared
    BY <1>9, <2>1 DEF Write, TypeOK
  <2>3. Writing(o) /\ Writing(o)' /\ Left(o) = Truncated /\ Left(o)' = [begun |-> o]
    BY <1>9, <2>1 DEF Write, Writing, At, Left
  <2>4. [begun |-> o] # Torn
    BY NamesAssumption DEF Part
  <2>5. p \notin shared => file'[p] = [begun |-> o]
    BY <2>2, <2>3 DEF Alone
  <2>6. TornOnlyIfShared'
    BY <2>1, <2>2, <2>4, <2>5 DEF TornOnlyIfShared
  <2>7. \A q \in Outputter : Writing(q)' => Writing(q) /\ call'[q].path = call[q].path
    BY <2>1, <2>3 DEF Writing, At
  <2>8. ASSUME NEW q \in Outputter, NEW r \in Outputter, Writing(q)', call'[q].path \notin shared'
        PROVE  /\ file'[call'[q].path] = Left(q)'
               /\ Writing(r)' /\ call'[r].path = call'[q].path => r = q
    <3>1. CASE q = o
      BY <2>1, <2>2, <2>3, <2>5, <2>7, <2>8, <3>1 DEF Alone
    <3>2. CASE q # o
      <4>1. Left(q)' = Left(q)
        BY <2>1, <3>2 DEF Left, At
      <4>2. call[q].path # p
        BY <2>2, <2>3, <2>7, <2>8, <3>2 DEF Alone
      <4>3. call[q].path \in Path
        BY <2>7, <2>8 DEF TypeOK, Writing, At, Call
      <4> QED BY <2>2, <2>7, <2>8, <4>1, <4>2, <4>3 DEF Alone
    <3> QED BY <3>1, <3>2
  <2> QED BY <2>6, <2>8 DEF Alone
<1>10. ASSUME NEW o \in Outputter, WriteRest(o) PROVE Alone' /\ TornOnlyIfShared'
  <2> DEFINE p == call[o].path
  <2>1. p \in Path /\ Writing(o) /\ Left(o) = [begun |-> o] /\ shared' = shared
    BY <1>10 DEF WriteRest, TypeOK, Call, At, Writing, Left
  <2>2. /\ \A r \in Path \ {p} : file'[r] = file[r]
        /\ file[p] = [begun |-> o] => file'[p] = cache[o]
    BY <1>10, <2>1 DEF WriteRest, TypeOK
  <2>3. ~Writing(o)' /\ \A q \in Outputter \ {o} : call'[q] = call[q]
    BY <1>10 DEF WriteRest, TypeOK, Writing, At
  <2>4. cache[o] # Torn
    BY NamesAssumption DEF TypeOK, Document
  <2>5. TornOnlyIfShared'
    BY <2>1, <2>2, <2>4 DEF TornOnlyIfShared, Alone
  <2>6. ASSUME NEW q \in Outputter, NEW r \in Outputter, Writing(q)', call'[q].path \notin shared'
        PROVE  /\ file'[call'[q].path] = Left(q)'
               /\ Writing(r)' /\ call'[r].path = call'[q].path => r = q
    <3>1. /\ q # o /\ call'[q] = call[q] /\ Writing(q) /\ Left(q)' = Left(q)
          /\ Writing(r)' => Writing(r) /\ call'[r] = call[r]
      BY <2>3, <2>6 DEF Writing, At, Left
    <3>2. call[q].path # p
      BY <2>1, <2>6, <3>1 DEF Alone
    <3>3. call[q].path \in Path
      BY <3>1 DEF TypeOK, Writing, At, Call
    <3> QED BY <2>1, <2>2, <2>6, <3>1, <3>2, <3>3 DEF Alone
  <2> QED BY <2>5, <2>6 DEF Alone
<1>11. ASSUME NEW p \in Path, Interfere(p) PROVE Alone' /\ TornOnlyIfShared'
  <2>1. /\ Writers(p) = {}
        /\ call' = call
        /\ shared' = shared \ {p}
        /\ \A r \in Path \ {p} : file'[r] = file[r]
        /\ file'[p] \in {Foreign, Absent}
    BY <1>11 DEF Interfere, TypeOK
  <2>2. TornOnlyIfShared'
    BY <2>1, NamesAssumption DEF TornOnlyIfShared
  <2>3. \A q \in Outputter : Writing(q) => call[q].path \in Path \ {p}
    BY <2>1 DEF Writers, TypeOK, Call, Writing, At
  <2>4. \A q \in Outputter : (Writing(q)' <=> Writing(q)) /\ Left(q)' = Left(q)
    BY <2>1 DEF Writing, At, Left
  <2>5. Alone'
    BY <2>1, <2>3, <2>4 DEF Alone
  <2> QED BY <2>2, <2>5
<1>12. ASSUME NEW o \in Outputter, NEW force \in BOOLEAN, generate(o, force)
       PROVE  Alone' /\ TornOnlyIfShared'
  BY <1>2, <1>12 DEF generate
<1> QED
  BY <1>2, <1>3, <1>5, <1>6, <1>7, <1>8, <1>9, <1>10, <1>11, <1>12
  DEF Next, vars, Change, set_bom, SetGenerated, Abandoned, OpenFails, OutputFails,
      WriteFails

\* A file is torn only if two calls had it open at once.
THEOREM Untorn == Spec => []TornOnlyIfShared
<1>1. Init => Alone /\ TornOnlyIfShared
  BY NamesAssumption DEF Init, Alone, TornOnlyIfShared, Writing, At
<1> QED BY <1>1, AloneStep, TypeCorrect, PTL DEF Spec

-----------------------------------------------------------------------------
\* DamageMeansFailure is inductive beside the types: who opens a file and who
\* begins to write it has it open, and who closes it has written it or raises.
LEMMA DamageStep ==
  TypeOK /\ DamageMeansFailure /\ [Next]_vars => DamageMeansFailure'
<1> SUFFICES ASSUME TypeOK, DamageMeansFailure, [Next]_vars,
                    NEW p \in Path, file'[p] \in Part \cup {Truncated}, Writers(p)' = {}
             PROVE  p \in failed'
  BY DEF DamageMeansFailure
<1>1. ASSUME UNCHANGED <<file, failed>>,
             \A q \in Outputter : q \in Writers(p) => q \in Writers(p)'
      PROVE  p \in failed'
  <2>1. Writers(p) = {}
    BY <1>1 DEF Writers
  <2> QED BY <1>1, <2>1 DEF DamageMeansFailure
<1>2. ASSUME UNCHANGED <<file, call, failed>> PROVE p \in failed'
  BY <1>1, <1>2 DEF Writers, Writing, At
<1>3. ASSUME NEW o \in Outputter, UNCHANGED file, call' = [call EXCEPT ![o] = None],
             failed' = IF Writing(o) THEN failed \cup {call[o].path} ELSE failed
      PROVE  p \in failed'
  <2>1. \A q \in Outputter \ {o} : q \in Writers(p) => q \in Writers(p)'
    BY <1>3 DEF TypeOK, Writers, Writing, At
  <2>2. Writers(p) = {} \/ o \in Writers(p)
    BY <2>1 DEF Writers
  <2> QED BY <1>3, <2>2 DEF DamageMeansFailure, Writers
<1>4. ASSUME NEW o \in Outputter, At(o, "render"), UNCHANGED <<file, failed>>,
             call' = [call EXCEPT ![o].pc = "write"]
      PROVE  p \in failed'
  <2>1. /\ call'[o] # None /\ call'[o].pc = "write" /\ call'[o].path = call[o].path
        /\ \A q \in Outputter \ {o} : call'[q] = call[q]
    BY <1>4, Advanced DEF At
  <2>2. \A q \in Outputter : q \in Writers(p) => q \in Writers(p)'
    BY <2>1 DEF Writers, Writing, At
  <2> QED BY <1>1, <1>4, <2>2
<1>5. ASSUME NEW o \in Outputter, Rendered(o) \/ Output(o) PROVE p \in failed'
  BY <1>2, <1>4, <1>5 DEF Rendered, Output
<1>6. ASSUME NEW o \in Outputter, Abandoned(o) \/ OpenFails(o) \/ OutputFails(o) \/ WriteFails(o)
      PROVE  p \in failed'
  BY <1>3, <1>6 DEF Abandoned, OpenFails, OutputFails, WriteFails, Writing, At
<1>7. ASSUME NEW o \in Outputter, NEW r \in Path, NEW allow \in BOOLEAN, Check(o, r, allow)
      PROVE  p \in failed'
  <2>1. \A q \in Outputter : q \in Writers(p) => q \in Writers(p)'
    BY <1>7 DEF Check, Idle, TypeOK, Writers, Writing, At
  <2> QED BY <1>1, <1>7, <2>1 DEF Check
<1>8. ASSUME NEW o \in Outputter, Open(o) \/ Write(o) PROVE p \in failed'
  <2> DEFINE r == call[o].path
  <2>1. /\ r \in Path
        /\ call'[o] # None /\ call'[o].pc \in {"render", "rest"} /\ call'[o].path = r
        /\ \A q \in Outputter \ {o} : call'[q] = call[q]
    BY <1>8, Advanced DEF Open, Write, At
  <2>2. Writing(o)'
    BY <2>1 DEF Writing, At
  <2>3. r # p
    BY <2>1, <2>2 DEF Writers
  <2>4. file'[p] = file[p] /\ (p \in failed => p \in failed')
    BY <1>8, <2>1, <2>3 DEF Open, Write, TypeOK
  <2>5. \A q \in Outputter : q \in Writers(p) => q \in Writers(p)'
    BY <2>1, <2>3 DEF Writers, Writing, At
  <2>6. Writers(p) = {}
    BY <2>5 DEF Writers
  <2> QED BY <2>4, <2>6 DEF DamageMeansFailure
<1>9. ASSUME NEW o \in Outputter, WriteRest(o) PROVE p \in failed'
  <2> DEFINE r == call[o].path
  <2>1. r \in Path /\ failed' = failed
    BY <1>9 DEF WriteRest, At, TypeOK, Call
  <2>2. file'[r] \in {cache[o], Torn} /\ \A q \in Path \ {r} : file'[q] = file[q]
    BY <1>9, <2>1 DEF WriteRest, TypeOK
  <2>3. cache[o] \in Document
    BY DEF TypeOK
  <2>4. {cache[o], Torn} \cap (Part \cup {Truncated}) = {}
    BY <2>3, NamesAssumption DEF Document
  <2>5. r # p
    BY <2>2, <2>4
  <2>6. \A q \in Outputter : q \in Writers(p) => q \in Writers(p)'
    BY <1>9, <2>5 DEF WriteRest, TypeOK, Writers, Writing, At
  <2>7. Writers(p) = {}
    BY <2>6 DEF Writers
  <2> QED BY <2>1, <2>2, <2>5, <2>7 DEF DamageMeansFailure
<1>10. ASSUME NEW r \in Path, Interfere(r) PROVE p \in failed'
  <2>1. /\ file'[r] \in {Foreign, Absent}
        /\ \A q \in Path \ {r} : file'[q] = file[q]
        /\ call' = call /\ failed' = failed \ {r}
    BY <1>10 DEF Interfere, TypeOK
  <2>2. r # p
    BY <2>1, NamesAssumption
  <2>3. Writers(p) = {}
    BY <2>1 DEF Writers, Writing, At
  <2> QED BY <2>1, <2>2, <2>3 DEF DamageMeansFailure
<1>11. ASSUME NEW o \in Outputter, NEW force \in BOOLEAN, generate(o, force)
       PROVE  p \in failed'
  BY <1>2, <1>11 DEF generate
<1> QED
  BY <1>2, <1>5, <1>6, <1>7, <1>8, <1>9, <1>10, <1>11
  DEF Next, vars, Change, set_bom, SetGenerated

\* Whatever is left damaged was left by a call that raised.
THEOREM Damage == Spec => []DamageMeansFailure
<1>1. Init => DamageMeansFailure
  BY NamesAssumption DEF Init, DamageMeansFailure
<1> QED BY <1>1, DamageStep, TypeCorrect, PTL DEF Spec
================================================================================
