------------------------------- MODULE Factories -------------------------------
(***************************************************************************)
(* The factories that make the first element of a set from foreign data    *)
(* (cyclonedx/contrib, VulnerabilityScoreSource.get_from_vector), beside   *)
(* the serialisation helpers that then write it.  Strings are records of   *)
(* what the code tells apart in them.                                      *)
(***************************************************************************)
EXTENDS Helpers

CONSTANTS
  Scores,    \* the CVSS scores, in tenths, of which a tuple has one or two
  NoText     \* a prefix that no case of a factory takes

VARIABLE made   \* the last factory call: by which, of what, and the result

Nothing == [by |-> "nobody", of |-> None, is |-> None]

Unknown == {"UnknownHashTypeException", "AttributeError"}

-------------------------------------------------------------------------------
\* 'sha3-256' is [family |-> "sha3", gap |-> "-", size |-> 256], and 'md5' has
\* the gap "none" and the size 0; 'sha3_256' and 'sha38256' have the gap "other",
\* one character with which the string is none of the others here, and what has
\* more characters between, like 'sha3--256', has the gap "several".
Prefixes ==
  [family : {"md5", "sha", "sha3", "blake2", "blake2b", "blake3", NoText},
   gap : {"none", "-", "other", "several"}, size : {0, 1, 224, 256, 384, 512}]

\* getattr(HashAlgorithm, f'{family}_{rest}'), the rest with what stands before
\* the digits or, wrongly, without.
HashAlgorithmMembers ==
  {<<"SHA", 1, "SHA-1">>, <<"SHA", 256, "SHA-256">>, <<"SHA", 384, "SHA-384">>,
   <<"SHA", 512, "SHA-512">>, <<"SHA3", 256, "SHA3-256">>, <<"SHA3", 384, "SHA3-384">>,
   <<"SHA3", 512, "SHA3-512">>, <<"BLAKE2B", 256, "BLAKE2b-256">>,
   <<"BLAKE2B", 384, "BLAKE2b-384">>, <<"BLAKE2B", 512, "BLAKE2b-512">>}

MembersOf(family, size) == {m[3] : m \in {n \in HashAlgorithmMembers : n[1] = family /\ n[2] = size}}

MemberPastGap(family, gap, size) ==
  IF MembersOf(family, size) # {} THEN CHOOSE a \in MembersOf(family, size) : TRUE
  ELSE "AttributeError"
Member(family, gap, size) ==
  IF gap = "none" /\ MembersOf(family, size) # {}
  THEN CHOOSE a \in MembersOf(family, size) : TRUE
  ELSE "AttributeError"

OneDropped(gap) == gap \in {"-", "other"}

\* HashTypeFactory.from_composite_str compares the first characters of the
\* prefix: 'sha384' begins with 'sha3'.  Of the rest after 'sha3' it drops one
\* character, whichever it is.
CompositeAlgorithm(p) ==
  CASE p.family = "md5" /\ p.gap = "none" /\ p.size = 0 -> "MD5"
    [] p.family = "sha3" -> Member("SHA3", "none", IF OneDropped(p.gap) THEN p.size ELSE 0)
    [] p.family = "sha" /\ p.gap = "none" /\ p.size = 384 -> "AttributeError"
    [] p.family = "sha" /\ ~(p.gap = "none" /\ p.size = 384) -> Member("SHA", p.gap, p.size)
    [] p.family \in {"blake2", "blake2b"} -> Member("BLAKE2B", p.gap, p.size)
    [] p.family = "blake3" -> "BLAKE3"
    [] OTHER -> "UnknownHashTypeException"

\* _MAP_HASHLIB of HashTypeFactory.from_hashlib_alg.
HashlibAlgorithm ==
  [md5 |-> "MD5", sha1 |-> "SHA-1", sha256 |-> "SHA-256", sha384 |-> "SHA-384",
   sha512 |-> "SHA-512", sha3_256 |-> "SHA3-256", sha3_384 |-> "SHA3-384",
   sha3_512 |-> "SHA3-512"]

Exceeds(scores, bound) == scores # None /\ \E x \in scores : x > bound
Reaches(scores, bound) == scores # None /\ \E x \in scores : x >= bound

\* vs_from_cvss_scores of None, or of a tuple of scores.
Severity(scores) ==
  CASE scores = None -> "unknown"
    [] Reaches(scores, 90) -> "critical"
    [] Reaches(scores, 70) /\ ~Reaches(scores, 90) -> "high"
    [] Reaches(scores, 40) /\ ~Reaches(scores, 70) -> "medium"
    [] Reaches(scores, 1) /\ ~Reaches(scores, 40) -> "low"
    [] OTHER -> "none"

\* 'CVSS:3.1/AV:L' is [scheme |-> "CVSS:3.", minor |-> "1"]; what a vector does
\* not have is "none".
Vectors ==
  [scheme : {"CVSS:4.", "CVSS:3.", "CVSS:2.", "OWASP", "none"}, minor : {"none", "0", "1"}]

\* VulnerabilityScoreSource.get_from_vector
SourceOfVector(vector) ==
  CASE vector.scheme = "CVSS:4." -> "CVSSv4"
    [] vector.scheme = "CVSS:3." -> IF vector.minor = "1" THEN "CVSSv31" ELSE "CVSSv3"
    [] vector.scheme = "CVSS:2." -> "CVSSv2"
    [] vector.scheme = "OWASP" -> "OWASP"
    [] OTHER -> "other"

\* VulnerabilityScoreSource.get_localised_vector, and one that knows the
\* prefix of CVSS 3.1 only.
FitsNewest(source, vector) ==
  \/ vector.minor # "none" /\ <<source, vector.scheme>> \in
       {<<"CVSSv4", "CVSS:4.">>, <<"CVSSv31", "CVSS:3.">>, <<"CVSSv2", "CVSS:2.">>}
  \/ source = "OWASP" /\ vector.scheme = "OWASP"
Fits(source, vector) ==
  \/ vector.minor # "none" /\ <<source, vector.scheme>> \in
       {<<"CVSSv4", "CVSS:4.">>, <<"CVSSv31", "CVSS:3.">>, <<"CVSSv3", "CVSS:3.">>,
        <<"CVSSv2", "CVSS:2.">>}
  \/ source = "OWASP" /\ vector.scheme = "OWASP"

LocalisedVector(source, vector) ==
  IF Fits(source, vector) THEN [vector EXCEPT !.scheme = "none", !.minor = "none"]
  ELSE vector

\* What LicenseFactory tells apart: fixup_id knows the string, or the parser of
\* expressions takes it.
LicenseStrings == [id : BOOLEAN, expression : BOOLEAN]

\* LicenseFactory.make_from_string: an expression takes no text and no url.
LicenseOf(string, name, more) ==
  IF string.expression /\ ~string.id
  THEN [is |-> "expression", code |-> None, name |-> name, more |-> None]
  ELSE [is |-> "license", code |-> None, name |-> name, more |-> more]

-------------------------------------------------------------------------------
Value(code, name) == [is |-> "value", code |-> code, name |-> name, more |-> None]

\* The factories are called for the first element of a set.
FirstOf(s) == subject = s /\ origin = {} /\ low = Never /\ doc = NoDoc

FactoriesInit == Init /\ made = Nothing

FromCompositeStr ==
  /\ FirstOf("HashAlgorithm")
  /\ \E p \in Prefixes, n \in Names[subject] :
       /\ made' = [by |-> "from_composite_str", of |-> p, is |-> CompositeAlgorithm(p)]
       /\ IF made'.is \in Unknown THEN UNCHANGED vars ELSE Add(Value(made'.is, n))

FromHashlibAlg ==
  /\ FirstOf("HashAlgorithm")
  /\ \E h \in DOMAIN HashlibAlgorithm \cup {NoText}, n \in Names[subject] :
       /\ made' = [by |-> "from_hashlib_alg", of |-> h,
                   is |-> IF h = NoText THEN "UnknownHashTypeException" ELSE HashlibAlgorithm[h]]
       /\ IF made'.is \in Unknown THEN UNCHANGED vars ELSE Add(Value(made'.is, n))

FromCvssScores ==
  /\ FirstOf("VulnerabilitySeverity")
  /\ \E scores \in {None} \cup {{x, y} : x, y \in Scores}, n \in Names[subject] :
       /\ made' = [by |-> "vs_from_cvss_scores", of |-> scores, is |-> Severity(scores)]
       /\ Add(Value(made'.is, n))

\* VulnerabilityRating(vector=v, method=get_from_vector(v))
RateVector ==
  /\ FirstOf("VulnerabilityScoreSource")
  /\ \E v \in Vectors, n \in Names[subject] :
       LET source == SourceOfVector(v)
       IN  /\ made' = [by |-> "VulnerabilityRating", of |-> v,
                       is |-> [method |-> source, vector |-> LocalisedVector(source, v)]]
           /\ Add(Value(source, n))

MakeFromString ==
  /\ FirstOf("licenses")
  /\ \E string \in LicenseStrings, n \in Names[subject], more \in {None, "more"} :
       /\ made' = [by |-> "make_from_string", of |-> string,
                   is |-> LicenseOf(string, n, more)]
       /\ Add(made'.is)

FactoriesNext ==
  \/ FromCompositeStr \/ FromHashlibAlg \/ FromCvssScores \/ RateVector \/ MakeFromString
  \/ Next /\ made' = Nothing

FactoriesSpec == FactoriesInit /\ [][FactoriesNext]_<<vars, made>>

-------------------------------------------------------------------------------
\* What the docstring of from_composite_str lists.
ListedPrefixes ==
  {<<"md5", "none", 0, "MD5">>, <<"sha", "none", 1, "SHA-1">>,
   <<"sha", "none", 256, "SHA-256">>, <<"sha", "none", 384, "SHA-384">>,
   <<"sha", "none", 512, "SHA-512">>,
   <<"blake2b", "none", 256, "BLAKE2b-256">>, <<"blake2b", "none", 384, "BLAKE2b-384">>,
   <<"blake2b", "none", 512, "BLAKE2b-512">>, <<"blake2", "none", 256, "BLAKE2b-256">>,
   <<"blake2", "none", 384, "BLAKE2b-384">>, <<"blake2", "none", 512, "BLAKE2b-512">>,
   <<"sha3", "-", 256, "SHA3-256">>, <<"sha3", "-", 384, "SHA3-384">>,
   <<"sha3", "-", 512, "SHA3-512">>, <<"blake3", "none", 0, "BLAKE3">>}

\* A composite hash gets the algorithm its prefix is listed for, all but
\* 'sha384', which is taken for a SHA3 and raises.  A prefix that is not listed
\* raises, all but those that go on after 'blake3', and those that have another
\* character in place of the '-' of a listed SHA3, whose algorithm they get.
CompositeTyped ==
  made.by = "from_composite_str" =>
    LET listed == {l \in ListedPrefixes : <<l[1], l[2], l[3]>>
                                            = <<made.of.family, made.of.gap, made.of.size>>}
    IN  IF \E l \in listed : l[4] # "SHA-384"
        THEN \A l \in listed : made.is = l[4]
        ELSE \/ made.is \in Unknown
             \/ made.of.family = "blake3"
             \/ /\ made.of.gap = "other"
                /\ <<made.of.family, "-", made.of.size, made.is>> \in ListedPrefixes

\* The severity is the qualitative rating of the highest score: the highest
\* score, and no other, decides, and the bounds belong to the upper rating.
SeverityByScale ==
  made.by = "vs_from_cvss_scores" /\ made.of # None =>
    \A x \in made.of :
      CASE made.is = "critical" -> \E y \in made.of : y \in 90..100
        [] made.is = "high" -> x < 90 /\ \E y \in made.of : y \in 70..89
        [] made.is = "medium" -> x < 70 /\ \E y \in made.of : y \in 40..69
        [] made.is = "low" -> x < 40 /\ \E y \in made.of : y \in 1..39
        [] made.is = "none" -> x = 0
        [] OTHER -> FALSE

\* A rating made of a vector and the source of the vector keeps which scheme
\* the vector was of: the constructor takes the prefix off only where the
\* method says the same, and what it leaves is not shortened again when the
\* rating is read.
SchemeKept ==
  made.by = "VulnerabilityRating" =>
    LET method == made.is.method
        vector == made.is.vector
    IN  /\ LocalisedVector(method, vector) = vector
        /\ SourceOfVector(vector) \in {method, "other"}
        /\ SourceOfVector(vector) = method \/ method = SourceOfVector(made.of)
        /\ made.of.minor # "none" => vector.scheme = "none"
===============================================================================
