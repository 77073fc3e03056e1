------------------------------- MODULE Outputter -------------------------------
(***************************************************************************)
(* cyclonedx/output/__init__.py BaseOutput with json.py Json and xml.py    *)
(* Xml: an outputter renders its BOM once and keeps the document;          *)
(* generate and output_to_file go in steps that other processes, and       *)
(* outputters in other threads, can come between.                          *)
(*                                                                         *)
(* A BOM object holds one of a few contents, and the application changes   *)
(* it while nobody renders it.  What rendering does to the bom-refs, in    *)
(* one thread or in several, is the subject of BomOutput.tla and of        *)
(* OverlappingBlocks.tla.                                                  *)
(***************************************************************************)
CONSTANTS Outputter, Bom, Path,
          Content,    \* what a BOM can hold
          Sound,      \* the contents that validate and serialise
          Supported,  \* outputters whose format has the schema version
          None,
          Blank,      \* the document an outputter has before it rendered
          Absent, Foreign, Truncated, Torn  \* what a path can be beside a
                      \* document or a part of one: no file, a file somebody
                      \* else wrote, an empty file, a mixture of two writers'
                      \* bytes

\* What a document says: the content, the BOM and the outputter it is of.
Rendering == [of : Sound, from : Bom, by : Supported]
Document == Rendering \cup {Blank}
Part == [begun : Outputter]
File == Document \cup Part \cup {Absent, Foreign, Truncated, Torn}
Call == [pc : {"open", "render", "write", "rest"}, path : Path]

ASSUME SoundAssumption == Sound \subseteq Content /\ Supported \subseteq Outputter
ASSUME NamesAssumption ==
  /\ Blank \notin Rendering \cup {Absent, Foreign, Truncated, Torn}
  /\ {Absent, Foreign, Truncated, Torn} \cap Rendering = {}
  /\ Part \cap (Document \cup {Absent, Foreign, Truncated, Torn}) = {}
  /\ Absent \notin {Foreign, Truncated, Torn}
  /\ Foreign # Truncated
  /\ Torn \notin {Foreign, Truncated}
  /\ None \notin Call \cup Bom

VARIABLES holds,      \* holds[b]: content of BOM b
          bom,        \* bom[o]: outputter o's BOM
          generated,  \* generated[o]
          cache,      \* cache[o]: _bom_json / _bom_xml
          renders,    \* renders[o]: the BOM of the with-block o is in, or None
          file,       \* file[p]
          call,       \* call[o]: the output_to_file that runs, or None
          touched,    \* history: o's BOM changed since o rendered it
          marked,     \* history: o.generated was set to True by hand
          shared,     \* history: paths that two calls had open at once since
                      \* a lone one opened them
          failed      \* history: paths of which a call, since the last one
                      \* that opened them, raised with the file open

caching == <<generated, cache, touched>>
vars == <<holds, bom, caching, renders, file, call, marked, shared, failed>>

Init == /\ holds \in [Bom -> Content]
        /\ bom \in [Outputter -> Bom]
        /\ generated = [o \in Outputter |-> FALSE]
        /\ cache = [o \in Outputter |-> Blank]
        /\ renders = [o \in Outputter |-> None]
        /\ file \in [Path -> {Absent, Foreign}]
        /\ call = [o \in Outputter |-> None]
        /\ touched = [o \in Outputter |-> TRUE]
        /\ marked = [o \in Outputter |-> FALSE]
        /\ shared = {}
        /\ failed = {}

At(o, pc) == call[o] # None /\ call[o].pc = pc
Writing(o) == At(o, "render") \/ At(o, "write") \/ At(o, "rest")
Writers(p) == {o \in Outputter : Writing(o) /\ call[o].path = p}

\* One thread uses one outputter: it is in no call and in no block.
Idle(o) == call[o] = None /\ renders[o] = None

-----------------------------------------------------------------------------
\* The application works on the BOM b.
Change(b, c) ==
  /\ \A o \in Outputter : renders[o] # b
  /\ holds' = [holds EXCEPT ![b] = c]
  /\ touched' = [o \in Outputter |-> touched[o] \/ bom[o] = b]
  /\ UNCHANGED <<bom, generated, cache, renders, file, call, marked, shared, failed>>

\* set_bom(b), perhaps from another thread: the document that is there stays
set_bom(o, b) ==
  /\ bom' = [bom EXCEPT ![o] = b]
  /\ touched' = [touched EXCEPT ![o] = TRUE]
  /\ UNCHANGED <<holds, generated, cache, renders, file, call, marked, shared, failed>>

\* o.generated = g
SetGenerated(o, g) ==
  /\ generated' = [generated EXCEPT ![o] = g]
  /\ marked' = [marked EXCEPT ![o] = @ \/ g]
  /\ UNCHANGED <<holds, bom, cache, renders, file, call, touched, shared, failed>>

-----------------------------------------------------------------------------
\* generate(force) comes back at once, ...
Cached(o, force) ==
  /\ generated[o] /\ ~force
  /\ UNCHANGED <<caching, renders>>

\* Mutant: generated is set before the rendering instead of after it.
RaisesMarked(o, force) ==
  /\ ~generated[o] \/ force
  /\ ~(o \in Supported /\ holds[bom[o]] \in Sound)
  /\ generated' = [generated EXCEPT ![o] = TRUE]
  /\ UNCHANGED <<cache, touched, renders>>

\* Mutant: the document is dropped before it is rendered anew.
RaisesBlanked(o, force) ==
  /\ ~generated[o] \/ force
  /\ ~(o \in Supported /\ holds[bom[o]] \in Sound)
  /\ cache' = [cache EXCEPT ![o] = Blank]
  /\ UNCHANGED <<generated, touched, renders>>

\* ... raises, as there is no schema or the BOM does not validate, ...
Raises(o, force) ==
  /\ ~generated[o] \/ force
  /\ ~(o \in Supported /\ holds[bom[o]] \in Sound)
  /\ UNCHANGED <<caching, renders>>

\* ... or gets into the with-block, with a BOM that may yet fail to serialise.
Enters(o, force) ==
  /\ ~generated[o] \/ force
  /\ o \in Supported
  /\ renders' = [renders EXCEPT ![o] = bom[o]]
  /\ UNCHANGED caching

\* generate(force); output_as_string() does it with force = FALSE
generate(o, force) ==
  /\ Idle(o)
  /\ Cached(o, force) \/ Raises(o, force) \/ Enters(o, force)
  /\ UNCHANGED <<holds, bom, file, call, marked, shared, failed>>

\* Mutant: what as_json made of a BOM that cannot be serialised is kept.
RenderedWhatever(o) ==
  /\ renders[o] # None
  /\ renders' = [renders EXCEPT ![o] = None]
  /\ LET b == renders[o]
     IN  /\ cache' = [cache EXCEPT ![o] = [of |-> holds[b], from |-> b, by |-> o]]
         /\ touched' = [touched EXCEPT ![o] = bom[o] # b]
  /\ generated' = [generated EXCEPT ![o] = TRUE]
  /\ call' = IF At(o, "render") THEN [call EXCEPT ![o].pc = "write"] ELSE call
  /\ UNCHANGED <<holds, bom, file, marked, shared, failed>>

\* Mutant: a document that is there is not replaced.
RenderedOnce(o) ==
  /\ renders[o] # None
  /\ holds[renders[o]] \in Sound
  /\ renders' = [renders EXCEPT ![o] = None]
  /\ LET b == renders[o]
     IN  /\ cache' = IF cache[o] # Blank THEN cache
                     ELSE [cache EXCEPT ![o] = [of |-> holds[b], from |-> b, by |-> o]]
         /\ touched' = [touched EXCEPT ![o] = bom[o] # b]
  /\ generated' = [generated EXCEPT ![o] = TRUE]
  /\ call' = IF At(o, "render") THEN [call EXCEPT ![o].pc = "write"] ELSE call
  /\ UNCHANGED <<holds, bom, file, marked, shared, failed>>

\* The body comes to its end: the document is kept, of the BOM that get_bom()
\* had returned.  output_to_file then has the string to write.
Rendered(o) ==
  /\ renders[o] # None
  /\ holds[renders[o]] \in Sound
  /\ renders' = [renders EXCEPT ![o] = None]
  /\ LET b == renders[o]
     IN  /\ cache' = [cache EXCEPT ![o] = [of |-> holds[b], from |-> b, by |-> o]]
         /\ touched' = [touched EXCEPT ![o] = bom[o] # b]
  /\ generated' = [generated EXCEPT ![o] = TRUE]
  /\ call' = IF At(o, "render") THEN [call EXCEPT ![o].pc = "write"] ELSE call
  /\ UNCHANGED <<holds, bom, file, marked, shared, failed>>

\* The body raises, and with it the call it is in.
Abandoned(o) ==
  /\ renders[o] # None
  /\ renders' = [renders EXCEPT ![o] = None]
  /\ call' = [call EXCEPT ![o] = None]
  /\ failed' = IF Writing(o) THEN failed \cup {call[o].path} ELSE failed
  /\ UNCHANGED <<holds, bom, caching, file, marked, shared>>

-----------------------------------------------------------------------------
\* output_to_file(p, allow): the checks.  PermissionError and
\* FileExistsError end the call with nothing done.
Check(o, p, allow) ==
  /\ Idle(o)
  /\ file[p] = Absent \/ allow
  /\ call' = [call EXCEPT ![o] = [pc |-> "open", path |-> p]]
  /\ UNCHANGED <<holds, bom, caching, renders, file, marked, shared, failed>>

\* Mutant: mode 'r+b', which leaves what is in the file.
OpenKeeping(o) ==
  /\ At(o, "open")
  /\ LET p == call[o].path
     IN  /\ file' = [file EXCEPT ![p] = IF @ = Absent THEN Truncated ELSE @]
         /\ shared' = IF Writers(p) # {} THEN shared \cup {p} ELSE shared \ {p}
         /\ failed' = failed \ {p}
  /\ call' = [call EXCEPT ![o].pc = "render"]
  /\ UNCHANGED <<holds, bom, caching, renders, marked>>

\* open(mode='wb'): the file is made or truncated
Open(o) ==
  /\ At(o, "open")
  /\ LET p == call[o].path
     IN  /\ file' = [file EXCEPT ![p] = Truncated]
         /\ shared' = IF Writers(p) # {} THEN shared \cup {p} ELSE shared \ {p}
         /\ failed' = failed \ {p}
  /\ call' = [call EXCEPT ![o].pc = "render"]
  /\ UNCHANGED <<holds, bom, caching, renders, marked>>

\* open() raises
OpenFails(o) ==
  /\ At(o, "open")
  /\ call' = [call EXCEPT ![o] = None]
  /\ UNCHANGED <<holds, bom, caching, renders, file, marked, shared, failed>>

\* output_as_string(), within output_to_file: the document that is there, or
\* a with-block, whose end is Rendered or Abandoned.
Output(o) ==
  /\ At(o, "render") /\ renders[o] = None
  /\ \/ /\ Cached(o, FALSE)
        /\ call' = [call EXCEPT ![o].pc = "write"]
     \/ /\ Enters(o, FALSE)
        /\ UNCHANGED call
  /\ UNCHANGED <<holds, bom, file, marked, shared, failed>>

\* output_as_string() raises: the file was opened already
OutputFails(o) ==
  /\ At(o, "render") /\ renders[o] = None
  /\ Raises(o, FALSE)
  /\ call' = [call EXCEPT ![o] = None]
  /\ failed' = failed \cup {call[o].path}
  /\ UNCHANGED <<holds, bom, file, marked, shared>>

\* write(): the first bytes go to the start of the file, over those of a
\* writer that came between, of which a longer rest stays.
Write(o) ==
  /\ At(o, "write")
  /\ LET p == call[o].path
         part == [begun |-> o]
     IN  \E f \in IF file[p] = Truncated THEN {part} ELSE {part, Torn} :
           file' = [file EXCEPT ![p] = f]
  /\ call' = [call EXCEPT ![o].pc = "rest"]
  /\ UNCHANGED <<holds, bom, caching, renders, marked, shared, failed>>

\* Mutant: the file is not closed, and its buffer not written.
WriteRestUnflushed(o) ==
  /\ At(o, "rest")
  /\ call' = [call EXCEPT ![o] = None]
  /\ UNCHANGED <<holds, bom, caching, renders, file, marked, shared, failed>>

\* The rest of write(), and close(): the document is in the file, or, when
\* the file is not as this call left it, what the writers make of it.
WriteRest(o) ==
  /\ At(o, "rest")
  /\ LET p == call[o].path
     IN  \E f \in IF file[p] = [begun |-> o] THEN {cache[o]} ELSE {cache[o], Torn} :
           file' = [file EXCEPT ![p] = f]
  /\ call' = [call EXCEPT ![o] = None]
  /\ UNCHANGED <<holds, bom, caching, renders, marked, shared, failed>>

\* json_dumps or encode raises when the document is there already; or
\* write() does, at once or with a part of the bytes written, or close().
WriteFails(o) ==
  /\ At(o, "write") \/ At(o, "rest")
  /\ call' = [call EXCEPT ![o] = None]
  /\ failed' = failed \cup {call[o].path}
  /\ UNCHANGED <<holds, bom, caching, renders, file, marked, shared>>

\* Another process makes a file, or removes one that no call has open.
Interfere(p) ==
  /\ Writers(p) = {}
  /\ file' = [file EXCEPT ![p] = IF @ = Absent THEN Foreign ELSE Absent]
  /\ shared' = shared \ {p}
  /\ failed' = failed \ {p}
  /\ UNCHANGED <<holds, bom, caching, renders, call, marked>>

Next == \/ \E b \in Bom, c \in Content : Change(b, c)
        \/ \E o \in Outputter :
             \/ \E b \in Bom : set_bom(o, b)
             \/ \E g \in BOOLEAN : SetGenerated(o, g)
             \/ \E force \in BOOLEAN : generate(o, force)
             \/ Rendered(o) \/ Abandoned(o)
             \/ \E p \in Path, allow \in BOOLEAN : Check(o, p, allow)
             \/ Open(o) \/ OpenFails(o) \/ Output(o) \/ OutputFails(o)
             \/ Write(o) \/ WriteRest(o) \/ WriteFails(o)
        \/ \E p \in Path : Interfere(p)

Spec == Init /\ [][Next]_vars

-----------------------------------------------------------------------------
\* Every variable has its type.  As Rendering says: no document is of a
\* content that does not validate or of a format without a schema, neither
\* in an outputter nor in a file, whatever failed between.
TypeOK ==
  /\ holds \in [Bom -> Content]
  /\ bom \in [Outputter -> Bom]
  /\ generated \in [Outputter -> BOOLEAN]
  /\ cache \in [Outputter -> Document]
  /\ renders \in [Outputter -> Bom \cup {None}]
  /\ file \in [Path -> File]
  /\ call \in [Outputter -> Call \cup {None}]
  /\ touched \in [Outputter -> BOOLEAN]
  /\ marked \in [Outputter -> BOOLEAN]
  /\ shared \in SUBSET Path
  /\ failed \in SUBSET Path

\* An outputter hands out the blank document it was made with only if the
\* application set its flag: a failed generate is not taken for a rendering
\* by the next call (json.py:57-79, xml.py:56-74).
BlankOnlyByHand ==
  /\ \A o \in Outputter : generated[o] /\ cache[o] = Blank => marked[o]
  /\ \A p \in Path : file[p] = Blank => \E o \in Outputter : marked[o]

\* From a successful generate until its BOM changes or is exchanged, an
\* outputter's document is the rendering of what the BOM holds, also across
\* failed and repeated calls of every kind.
CurrentUntilTouched ==
  \A o \in Outputter :
    ~touched[o] => /\ cache[o] # Blank
                   /\ cache[o].of = holds[bom[o]]
                   /\ cache[o].from = bom[o]
                   /\ cache[o].by = o

\* A failing call takes no document away: one that was rendered is replaced
\* by another rendering or stays (json.py:73-79 assigns last).
DocumentsStay ==
  [][\A o \in Outputter : cache[o] # Blank => cache'[o] # Blank]_vars

\* A file is a mixture of two documents only if, since the last call that
\* opened it alone, two calls had it open at once; one writer after the other
\* mixes nothing, whatever the first had left there (output/__init__.py:91-92).
TornOnlyIfShared == \A p \in Path : file[p] = Torn => p \in shared

\* An empty or half-written file that nobody has open is the work of a call
\* that raised, and told its caller so, since the file was last opened: no
\* call returns as if it had written what is not there, though the file is
\* truncated before there is anything to write, and though another call may
\* truncate it again between any two steps (output/__init__.py:91-92).
DamageMeansFailure ==
  \A p \in Path :
    file[p] \in Part \cup {Truncated} /\ Writers(p) = {} => p \in failed
=============================================================================
