# Verification of cyclonedx-python-lib

TLA+ models of the core of the library, model-checked with TLC and, where a
statement matters for every size, proved with TLAPS. Everything is translated
from the Python source; `PROJECT.json` (`map`) names the lines of every
definition, the runs, the mutants that show each property can fail, the hazards
and the theorems.

## 1. The system

The library holds a CycloneDX bill of materials in memory, checks it, renders it
as JSON or XML in one of the schema versions 1.0 to 1.7, and reads it back.
There are no threads, servers or sockets of its own, but programs may use threads. What
is hard is shared mutable objects, state changed for a while and put back, sets of mutable elements
with structural equality, caches, and a schema that has eight versions.

| component | source (`src/cyclonedx/`) | state | operations | interacts with |
|---|---|---|---|---|
| bom-refs | `model/bom_ref.py` | `_value`, a mutable string or None; one object may have several owners | setter (normalises `''` to None), `__eq__`, `__hash__` | everything that can be linked to |
| discriminator | `output/__init__.py` `BomRefDiscriminator` | snapshot of `(ref, value)` pairs | `__enter__`/`discriminate`, `__exit__`/`reset`, `from_bom` | changes the BomRefs of a BOM while it is serialised |
| BOM | `model/bom.py`, `model/dependency.py` | root component, component and service trees, vulnerabilities, dependency graph | set edits, `register_dependency`, `validate` | `validate` writes to the graph; outputters call it |
| outputters | `output/__init__.py`, `json.py`, `xml.py` | the BOM, `generated`, the kept document | `generate`, `set_bom`, `output_as_string`, `output_to_file` | BOM, discriminator, file system |
| model classes | `model/*.py` | 55 classes of fields, most in SortedSets | setters, `__eq__`/`__lt__`/`__hash__`, views per schema version | serialiser, sets |
| serialisation helpers | helpers in `model/*.py`, `serialization/__init__.py` | tables of values per schema version | normalise, denormalise | outputters, sets of the model |
| validators | `validation/*.py` | a lazily made schema | `validate_str` | schemas |
| factories and builders | `factory`, `builder`, `contrib` | none | licenses, hashes, CVSS, components | model classes |

### What makes it correct

* **Discriminator.** In the with-block the listed BomRefs have different values;
  the first holder of a given value keeps it, since strings elsewhere name it; the
  application gets back exactly what it gave, also when the body raises. Of several threads that
  render one BOM this holds for those whose blocks are nested, and each has unique
  values in its body until a block from outside puts others back.
* **BOM.** Whatever mixture of objects, strings and loaded entries it finds, the library
  makes no second entry for a ref; nothing given to `register_dependency` is
  lost; what `validate` accepts is closed and stays as it is when validated again.
* **Output.** What `validate` promises of refs is still true of the document after
  the discriminator has changed them.
* **Outputter.** A kept document is a whole rendering of what the BOM holds, or
  knowingly out of date; a failure neither loses it nor leaves the blank initial
  value behind; a file is torn only by calls that had it open at once, and empty or
  half written only by a call that raised.
* **Helpers.** A document has only values its version knows; what is lost on the way
  of a BOM through several versions is what the oldest of them has no place for, in
  whatever order it went; a warning means that something was left out.
* **Factories.** A string, a digest, a score or a vector gets the value it is of.
* **Fields and views.** Equality ignores nothing a document shows; no view has a
  gap; the newest version shows every difference; arrays that have to have unique
  items have.

The full list of what is hard to test, with the line where it bites and the
properties that cover it, is `hazards` in `PROJECT.json`.

## 2. The modules

```
OverlappingBlocks <-- OverlappingBlocksProofs   (the same, for several threads)
UniqueRefs  <-- implemented by --  BomRefDiscriminator <-- BomRefDiscriminatorProofs
                                          |  INSTANCE
Bom  <-- BomProofs                        v
 \------------- EXTENDS ------------> BomOutput --> BomOutputTwice
                                          \--> BomOutputProofs
Outputter  <-- OutputterProofs
Conversion <-- ConversionProofs        ModelFields (tables)
      \------------- MCConversion -------------/   |
                                                   | first views
Helpers <-- HelpersProofs                          v
   \------> Factories ----------------------> MCHelpers
                 \--> FactoriesProofs            ^
     Enumerations, SchemaEnumerations (tables) ---/
```

**`BomRefDiscriminator`.** `value` is `BomRef._value` by object identity;
`bomrefs` is the snapshot, a sequence, as an object may be listed twice; `i` and
`known` are the locals of the two loops. `Enter` is the constructor with
`__enter__`; `Keep` and `Replace` are one iteration each of `discriminate`;
`Entered` its end; `Exit` is `__exit__`, by the last statement or an exception;
`Restore`, `Exited` are `reset`. `SetValue` is the setter, outside the block.

**`UniqueRefs`** says what the with-block promises with no loop, no snapshot and
no list: assign, enter, exit, each atomic. `BomRefDiscriminator` implements it under
`shown` (the values in the body, else those the application has), `held` (the
body runs), `saved` (the values to put back), and `listed` and `once` (the BomRefs the
block is for, and those its iterable names once).

**`OverlappingBlocks`** is the same class when several threads render one BOM. Each thread
has a discriminator of its own; they share the values. A step is one access to a value:
`Take` one pair of a snapshot, `Look` the reading half of an iteration of
`discriminate`, `Keep` or `Replace` the other half, `Restore` one assignment of `reset`;
a switch can come between any two. `met` is what a reader in a body can have seen of
every BomRef since its own thread decided on it; `before`, `outer`, `nested`, `within`
and `disturbed` say how the blocks lie to each other. All of these are history.

**`Bom`.** An element is its object and names its BomRef; `Loose` are BomRefs no
element owns, as reading a document makes them. `dependencies` maps the ref of
an entry to the refs it depends on. Equality is the code's: of BomRefs by identity
or value (`RefEq`), of elements by structure and *not* identity (`Same[e]` is the set of
the elements that equal `e`, a recursive function); where a
Python set keeps one of several equal elements the model takes any
(`Nested`, `Newcomers`). Actions are `SetRoot`, `AddComponent`, ...,
`register_dependency` (with `oneShot` for an iterator), `LoadDependency` (reading, or an
application that adds a `Dependency`; a second entry for a ref is taken if its targets
differ, or if the first was hashed before it grew),
`ClearDependencies`, and `validate`, which first writes the entries of its step 0,
and leaves them whatever the later steps raise.

**`BomOutput`** composes the two: `generate` is `validate` and, if that accepts,
the entry of a discriminator over `from_bom`, whose order is the code's up to the
iteration order of Python sets. The document is read off the state in which the
body runs. Whoever calls `generate` meets `UniqueRefs` (`ImplementsUniqueRefs`). `BomOutputTwice` remembers the previous document.

**`Outputter`** abstracts rendering to success or failure and has what lasts: the
BOMs, the flag, the document and the files. `generate` either
returns the kept document (`Cached`), raises before it renders (`Raises`), or goes
into a with-block (`Enters`), and later out of it by `Rendered` or `Abandoned`.
`output_to_file` is a step each for the check (`Check`), the opening (`Open`,
`OpenFails`), the rendering (`Output`, `OutputFails`, `Abandoned`), the first bytes
(`Write`) and the rest with `close` (`WriteRest`); `WriteFails` is a write that
raises before any byte, or after some. Between the steps the other outputter, the application
and another process (`Interfere`) act. A file that two calls have open takes the bytes
of both, and so may end as either document or as a mixture (`Torn`). `touched`, `marked`,
`shared` and `failed` are history.

**`ModelFields`** has a table for each model class: field, views, what it holds, and
whether `__comparable_tuple` has it. **`Conversion`** takes any such tables. A
behaviour chooses a set of the BOM (`Descend`) and the field in which two of its
elements differ (`Differ`), and then renders in any version (`Write`) and reads
back (`Read`) in any order. `Discriminated` is where `from_bom` gives
bom-refs, `OnlyFirst` where a helper renders one element of several.

**`Helpers`** takes one kind of values in one place of a BOM, the `subject`: one of the
30 enumerations, the licenses of a component or the tools of the metadata. An item is
a record of what kind of object it is, its value, a name that tells two of one value
apart, and `more`, what some versions have no place for. `Shown` is what the helpers
make of a set of items in a version: let through, leave out, replace, flatten to tools,
or keep the first; `Refused` is the helper that raises. The actions are the calls of
the application (`Add`, `Discard`), of the outputters (`Write`, `WriteRefused`), of
another program (`Receive`) and of the readers (`Read`, `ReadRefused`). `origin` and
`low` are history: what was put in, and the oldest version it came through since.
**`Enumerations`** has the values and the helpers' tables as the code has them,
**`SchemaEnumerations`** what the schemas of `schema/_res` allow in the same places;
neither is made from the other. The first version that shows a value at all is
a table of `MCHelpers`, which `FirstViewsAssumption` compares with the views of `ModelFields`.

**`Factories`** adds the ways to make a first element from foreign data: hashes from
composite strings and from names of `hashlib`, severities from CVSS scores, ratings
from vectors, licenses from strings. Strings are records of what the code tells apart
in them: the family, the separator and the digits of a prefix, the scheme and the
minor version of a vector, whether a license string is an id or an expression; `"none"`
stands where the string has nothing. A prefix has between family and digits nothing, a
hyphen, one other character (`sha3_256`, `sha38256`) or several, as the code drops one
character whichever it is. What the
factories make is then written and read by the actions of `Helpers`, so that every
property of `Helpers` is checked for it too.

## 3. The runs

Passing runs, every property with a mutant that breaks it:

| run | instance | shows |
|---|---|---|
| `discriminator` | 3 BomRefs, 2 given and 3 drawn strings, iterables to length 3 | unique values in the body, first holders kept, values always restored, `UniqueRefs` implemented |
| `bom` | `c1` above `c2`, a service, a loose ref, one string or none for each; calls with up to 2 dependents | no call makes a second entry for a ref, edges are kept, accepted BOMs are closed and stable |
| `output` | the same with a vulnerability, at most 2 elements beside the root | unique refs, links and entries in the document under the stated conditions; values come back; `UniqueRefs` implemented by all of `generate` |
| `threads` | 2 threads, 2 BomRefs, one given string or none for each and one drawn, three listings, two with other orders and one with a repeated object | what a thread meets while others enter, render and leave; what is left when all are out |
| `outputter` | 2 outputters, 2 BOMs, two sound contents and a bad one, 1 path | currency of documents, safety of files, with a failure of every step |
| `conversion` | all 56 tables, sets up to 3 fields below the BOM, differences up to 4 fields deep, all 8 versions | equality, views and unique items |
| `helpers` | all 30 enumerations, licenses and tools, with 2 or 3 items each, all 8 versions, 101 scores, all prefixes and vectors | what the helpers and factories make of values, through any series of renderings and readings |

Runs that find what the repository says to be untrue of the code (`findings`):

| run | the text | what happens |
|---|---|---|
| `claim_dependents` | `bom.py:795` "Ensure dependents are registered" | `depends_on` is iterated twice; of an iterator nothing is left for the second loop |
| `claim_expression` | `bom.py:853` "If a LicenseExpression is set, then there must be no other license" | services nested in services are not looked at |
| `claim_unique` | `CHANGELOG.md:775` "All bom-refs are guaranteed to have unique values on rendering" | of two equal nested components one is not listed and has no bom-ref in the document |
| `claim_links` | `bom.py:827` "Make sure dependencies are all in this Bom" | a component held twice is renamed at its second turn, and a dependency that names it by another BomRef of the same value resolves to nothing |
| `claim_reproducible` | `responsibilities_capabilities.rst:25` "generate reproducible/deterministic results" | missing bom-refs are drawn anew for every document |

Two more disagreements met on the way have no run of their own. Step 0 of
`validate` gives entries to the root and the top-level elements, while the comment
at `bom.py:819` speaks of all dependable elements: nested ones get none
(`ValidatedIsClosed` is stated for the top level). And a component that is in the BOM
but equal to another in the same tree is dropped from the set of
`component.py:1668`, so that `validate` raises
`UnknownComponentDependencyException` for a ref the BOM does have, against
`exception/model.py:110`.

The `helpers` run met four more, which its properties name as exceptions: the hash
factory takes `sha384`, which its docstring lists (`contrib/hash/factories.py:81`), for
a SHA3 and raises `AttributeError`, and takes any character for the hyphen of a SHA3
(`CompositeTyped`); documents of 1.5 get the identity
fields `omniborId` and `swhid`, which that schema does not have (`ValuesInSchema`);
seven values that schema 1.7 added to primitives and protocol types are refused on
reading (`SchemaValuesRead`); and documents of 1.0 have no licenses, although that
schema has a place for them (`LossesForced`).

And the `conversion` run one: services nested in services are not discriminated, so that
two without bom-refs that differ in a field an older version does not have are two equal
items of an array with `"uniqueItems": true`
(`schema/_res/bom-1.2.SNAPSHOT.schema.json:923`), against `docs/responsibilities_capabilities.rst:24`,
"generates valid output accordingly". `UniqueItemsWhereListed` names this exception too.

### Bounds, and why they are enough

* `MaxLen` is the longest iterable of a discriminator: at 3 there are a repeated
  object, two objects with one given value, and one without a value, together
  and in every order. The proofs have no bound but the name.
* `MaxDependsOn` and `MaxEdges` cap one call and the graph's growth: with 2 edges
  two entries can merge, share a target, and be extended after a load. Licenses that do
  not go together are given to `c2` alone, and bom-ref values not at the same time, as the
  two never meet in the code.
* `SmallBom` keeps the elements beside the root to two, so that `Random` always has
  an unused string: `c2` under `c1` and at the top is the case that
  lists an object twice, and it is in. `SmallGraph` keeps the graph to three entries, with
  which every two, one that was loaded and one that was registered among them, meet a
  third.
* Two outputters on one path are the fewest that interfere, and two BOMs let `set_bom`
  exchange one. Outputters, BOMs and sound contents are interchangeable, and the
  run says so (`SYMMETRY`); a call's record holds only what is still read of it. A write
  in two parts is enough for a file to be half written, and for one writer to come
  between the bytes of another.
* Two threads and two BomRefs are the fewest of which one can find the other's draw and
  take it for its own original. A repeated object, a shared value and a missing one are
  all in. The run draws one string for each BomRef, however often it draws; that draws differ
  from each other is left to the proofs, which have any number of everything.
* `FewItems` are three licenses or tools, as an expression, a license and another
  expression, or a tool, a component and a service, stand beside each other; two of
  everything else, as the helpers treat items one by one but for counting them.
  `FewNames` are two where a helper makes two values one, so that
  items can merge and can stay apart. `AnyScore` is every score of one decimal from 0
  to 10. Documents of another program and factories come first, in an empty set:
  what they bring together with items from elsewhere `Add` brings too.
* `MaxPath` is 3, `MaxDiff` 4: a path's effect is the conjunction of its fields', so
  that depth adds no new kind of behaviour. Three fields reach
  `metadata.component.components`, components in a pedigree and standards'
  requirements; four more reach every class that an element of a set holds, such
  as cipher suites and stack frames. What the Bom and its metadata hold outside any set
  (serial number, timestamp, distribution constraints) never tells two elements
  of a set apart: those rows of the tables are not exercised.

### Fairness

Liveness is checked for the discriminator alone: weak fairness of `Loop` (a Python
`for` over a finite list goes on by itself) and of `Exit` (serialising a finite
tree returns or raises). No scheduler is assumed. `EventuallyRestored` then
says of every BomRef and every value it can have when a block is entered that it comes to
have that very value again, with the application running.

### Assumptions

* The objects of a program are finitely many, and in `Bom` a BomRef has one owner or
  none (`ObjectsAssumption`; the discriminator's module is general), and no component is nested in itself, directly or through
  others (`NestingAssumption`): rendering one that is does not end in the code either.
* Two drawn 53-bit numbers never give a string that is in use (`Unused`). The code
  does not compare the draw with `known_values`.
* Bom-ref values are given when the
  objects are made (`SetValue` in the discriminator's module is general).
* Nobody edits a BOM while it is rendered, an outputter belongs to one thread, and no
  process removes a file while it is open. In `Outputter` a BOM is rendered in any number of
  threads, but what that does to its bom-refs is left to `OverlappingBlocks`. There every
  thread lists the same objects: BOMs with look-alike components, of which `from_bom` may
  list fewer while another thread's draws tell them apart or not, are left out. The
  draws for one BomRef are not those for another (`DrawsAssumption`).
* The order of a SortedSet does not depend on the schema version (`First`), and a set
  of items is rendered and read as a set. A rating's method and vector are those its
  constructor got; setters that change one of them later are not followed.
* Fields hold values that the serialiser can render, and unset parts stay unset. The
  libraries (py-serializable, sortedcontainers, packageurl) do what the code
  expects of them; these definitions are marked external.

## 4. The proofs

All theorems hold for every value of the constants under the modules' named
assumptions.

* `BomRefDiscriminatorProofs`: `TypeCorrect`; `BodyUnique` (the values listed up to
  `i` are in `known` and different: the invariant of the loop, which speaks of
  prefixes, as the property itself does not survive an iteration); `BodyKeepsFirstHolder`
  (what is yet to come still has its original value); `Implementation`, the
  refinement of `UniqueRefs`: each iteration leaves `Before`, the values with the
  snapshot put back, as it is.
* `BomProofs`: `TypeCorrect`; `GraphStaysSet` (a twin of an entry the library makes
  would have been found by `register_dependency`, which compares by value; the targets of
  an entry are free of twins whoever made it); `EdgesStay`; `AcceptedIsClosed`, with
  step 0 followed through its three rounds of `Registered`; `RevalidatingIsIdle`:
  in an accepted BOM step 0 finds an entry for everything it looks up.
* `BomOutputProofs`, for any number of elements, any nesting, and whatever order Python's
  sets are iterated in: all properties of the `output` run. The discriminator's theorems
  are used as they are (`DP` is an instance of `BomRefDiscriminatorProofs`), and
  `BomProofs`' of what step 0 and the verdict of `validate` leave. What has to be carried
  from the moment `validate` returns through every iteration of the loops is `OutputInv`:
  the given values are what the snapshot puts back (`DP!Before = given`, from which
  `ValuesAlwaysComeBack` and `OutputImplements` follow); what is listed comes from the BOM,
  stands with the vulnerabilities last, and has all but nested services and components
  that equal a listed one (`Listing`); and what `validate` accepted is true in the words of
  the *given* values (`Accepted`), since the words it was checked in are what the loop is
  changing. No property of the run is inductive by itself: none of them says anything
  while the loop runs. `LinksKeepResolving`, `AffectsKeepResolving` and
  `EntriesAlwaysRendered` then rest on `FirstElementKeeps`: of the elements given one value
  the first that is listed still has it in the body if nothing is listed twice, and as
  vulnerabilities come last none of them is in its way. `UniqueWhenListed` needs
  `AllListed`: without nested services and look-alikes everything rendered is listed. The
  module begins with what the others lack: the least number of a set of numbers, induction
  over a finite set, the elements of sequences that visit a set, of a concatenation and of
  `FlattenSeq`.
* `OutputterProofs`: `TypeCorrect`, `BlankByHand`, `Current`, `Stay`: the invariants
  relate flag, document and history of each outputter; in `HandedOut` a document that
  is about to be written counts as handed out. `Untorn`: a path that never had two
  writers since a lone one opened it has, while one writes, no other writer, and in the file
  what that one left there (`Alone`). `Damage` needs no more than the types: whoever truncates
  a file has it open from then on, and gives it up written or raising.
* `OverlappingBlocksProofs`, for any number of threads and BomRefs, and a switch between any two
  accesses to a value. `Unique`: until it is disturbed, what a thread has met are strings
  it knows or that were drawn for the BomRef (`Meets`); what it has read and not decided on
  is there yet or was replaced by a draw (`Reads`), since the only blocks that put values
  back are those begun in its body, whose snapshots are of what it has met (`Takes`). Draws
  for different BomRefs are different, so that another thread's replacements break nothing.
  `Restored`: the outermost block has taken the values that were there, whatever the others do
  before it begins to put them back, and meanwhile none is left (`Around`). Neither property is
  inductive, as both speak of a moment at which no loop runs.
* `ConversionProofs`, for whatever classes and fields. `UpgradesKeep`: if no view has a
  gap (`NoGaps`), then what a document shows of a difference later and newer documents
  show; the strengthening says that the oldest version that showed it is one that
  renders it. `AlikeMerge`: if equality has every rendered field but the five of
  `Uncompared`, and bom-refs are fields of what they are handed out to
  (`EqualitySeesAll`), a set drops an element only for one that documents show alike.
  `NewestKeeps`: if the newest version shows all (`NewestShowsAll`), a difference comes
  through it. `UniqueItemsListed`: if listed elements are only where `from_bom` looks and
  their bom-refs are shown from 1.2 on (`ListedInPlace`), arrays of unique items have them
  where no nested service and no pedigree is on the way. Its invariants are that to every
  class in question there is one way from the Bom (`OneWay`), and that what two affects
  differ in is in the affects (`WithinAffect`). The invariant of the last three
  (`DInv`) is that a document, until it is read, is the rendering of what is in memory, and that two elements differ in nothing but
  the chosen field and their bom-refs.
* `HelpersProofs`, for whatever tables, names and number of items. `OldestMatters` rests
  on one lemma, `ShownAgain`: showing in a version what another version has shown is
  showing in the older of the two; for this the tables may only grow with the version.
  `Losses` and `InSchema` have `TablesFitSchemas` as their hypothesis: from the version
  on that shows a value at all, a helper's table is what the schema allows, and an
  enumeration without a helper has no value that some schema lacks, the two identity
  fields aside. So a value that is added to an enumeration and forgotten in a table,
  or the other way round, breaks nothing but that hypothesis. `OmissionsAreTold` has no
  hypothesis: it needs that the sets of hashes and identities stay finite in memory and in
  the document (`FewHeld`), as a part of a finite set that has as many elements is the set.
  `SchemaValuesAreRead` has `CodeKnowsSchemas`: the enumerations have what the schemas
  allow, but for the seven values of 1.7.
* `FactoriesProofs`: `FactoriesOnlyAdd`, a behaviour with factories is one of `Helpers`,
  if the enumerations have the values the factories name (`EnumerationsFit`): this is
  what carries the theorems about `Spec` over to `FactoriesSpec`, which the run checks.
  `CompositesTyped` and `SchemesKept` go through all listed prefixes and all vectors, with
  no hypothesis; `SeveritiesByScale` takes whatever scores, from 0 to 100 tenths.

The hypotheses about tables (`NoGaps`, `EqualitySeesAll`, `NewestShowsAll`,
`ListedInPlace`, `TablesFitSchemas`, `CodeKnowsSchemas`, `EnumerationsFit`) are true of
the tables in `ModelFields`, `Enumerations` and `SchemaEnumerations`, as TLC finds when it
is given them as assumptions. They are hypotheses and not assumptions of the modules, so
that a run in which a table is wrong ends with the property that is violated and not
with an assumption.

Three things about how the models are written come from the prover. The library's
induction theorems take an operator, which the provers cannot instantiate; where
a proof needs induction it is over a set (`SetInduction`, `LeastNumber`), to which a
statement about a tree or a sequence is first turned, as in `FlattenFacts`. Recursive
functions have to have one argument, so `Same` maps an element to a set; `Below` and
`FlattenSeq` are unfolded once at a time. And the SMT backend cannot take the empty
string, so that what is missing in a string of `Factories` is `"none"`.

Every invariant and action property of the passing runs is a theorem. Left to TLC: the
liveness property `EventuallyRestored` (fairness is beyond the prover), and what the
violated claims say, each of which is a counterexample. The hypotheses above are about
finite tables and are evaluated, not proved.

## 5. Not modelled, and what could follow

Not modelled: builders (they read package metadata and files); validators (schemas
made when first used, around libraries, on whose state nothing depends); exceptions as
classes; deprecation warnings; conversions of single values in `serialization`, and
setters that check or convert one (`XsUri`, `Identifier`); wording and layout of
documents; the libraries; the data of SPDX. Partly modelled: see the status of each
component in `PROJECT.json`.

One hazard stays without a property, for the reason in `PROJECT.json`: `Bom.__eq__`
without `definitions`, as a BOM is never an element of a set.

Done, in the order of importance: discriminator and its abstract specification; BOM
graph and validation; their composition; outputters and files; renderings of one
BOM by several threads; fields, views and conversions; helpers, enumerations and factories. What
could follow: `ComparableTuple` as a strict weak order with None last; and
the edits of a BOM that another thread renders.
