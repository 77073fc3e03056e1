---------------------------- MODULE FactoriesProofs ----------------------------
(***************************************************************************)
(* The factories are one more way to fill a set: what is proved of the     *)
(* serialisation helpers in HelpersProofs holds of elements they make.     *)
(***************************************************************************)
EXTENDS Factories, TLAPS

\* What the factories can make.
HashAlgorithmsMade ==
  {"MD5", "SHA-1", "SHA-256", "SHA-384", "SHA-512", "SHA3-256", "SHA3-384", "SHA3-512",
   "BLAKE2b-256", "BLAKE2b-384", "BLAKE2b-512", "BLAKE3"}
SeveritiesMade == {"unknown", "critical", "high", "medium", "low", "none"}
SourcesMade == {"CVSSv4", "CVSSv31", "CVSSv3", "CVSSv2", "OWASP", "other"}

\* The enumerations have what the factories make.
EnumerationsFit ==
  /\ {"HashAlgorithm", "VulnerabilitySeverity", "VulnerabilityScoreSource"} \subseteq Enumeration
  /\ HashAlgorithmsMade \subseteq Values["HashAlgorithm"]
  /\ SeveritiesMade \subseteq Values["VulnerabilitySeverity"]
  /\ SourcesMade \subseteq Values["VulnerabilityScoreSource"]

-------------------------------------------------------------------------------
LEMMA MembersMade ==
  ASSUME NEW family, NEW gap, NEW size
  PROVE  Member(family, gap, size) \in HashAlgorithmsMade \cup Unknown
<1>1. MembersOf(family, size) \subseteq HashAlgorithmsMade
  BY DEF MembersOf, HashAlgorithmMembers, HashAlgorithmsMade
<1> QED BY <1>1 DEF Member, Unknown

\* Whatever the prefix, a composite hash is refused or gets an algorithm.
LEMMA CompositeMade ==
  ASSUME NEW p PROVE CompositeAlgorithm(p) \in HashAlgorithmsMade \cup Unknown
<1>1. /\ "MD5" \in HashAlgorithmsMade /\ "BLAKE3" \in HashAlgorithmsMade
      /\ "AttributeError" \in Unknown /\ "UnknownHashTypeException" \in Unknown
  BY DEF HashAlgorithmsMade, Unknown
<1> QED BY MembersMade, <1>1, Zenon DEF CompositeAlgorithm

LEMMA HashlibMade ==
  \A h \in DOMAIN HashlibAlgorithm : HashlibAlgorithm[h] \in HashAlgorithmsMade
  BY DEF HashlibAlgorithm, HashAlgorithmsMade

LEMMA SeverityMade == ASSUME NEW scores PROVE Severity(scores) \in SeveritiesMade
<1>1. /\ "unknown" \in SeveritiesMade /\ "critical" \in SeveritiesMade
      /\ "high" \in SeveritiesMade /\ "medium" \in SeveritiesMade
      /\ "low" \in SeveritiesMade /\ "none" \in SeveritiesMade
  BY DEF SeveritiesMade
<1> QED BY <1>1, Zenon DEF Severity

LEMMA SourceMade == ASSUME NEW vector PROVE SourceOfVector(vector) \in SourcesMade
<1>1. /\ "CVSSv4" \in SourcesMade /\ "CVSSv31" \in SourcesMade /\ "CVSSv3" \in SourcesMade
      /\ "CVSSv2" \in SourcesMade /\ "OWASP" \in SourcesMade /\ "other" \in SourcesMade
  BY DEF SourcesMade
<1> QED BY <1>1, Zenon DEF SourceOfVector

\* A value of the enumeration is an item of its subject.
LEMMA ValueHere ==
  ASSUME subject \in {"HashAlgorithm", "VulnerabilitySeverity", "VulnerabilityScoreSource"},
         subject \in Enumeration, NEW code \in Values[subject], NEW n \in Names[subject]
  PROVE  Value(code, n) \in ItemsHere
<1>1. ItemsHere = [is : {"value"}, code : Values[subject], name : Names[subject], more : {None}]
  BY DEF ItemsHere, Items
<1> QED BY <1>1 DEF Value

\* Every call of a factory adds an element the enumerations have, or fails and
\* leaves the set as it is: a behaviour with factories is one without.
THEOREM FactoriesOnlyAdd == ASSUME EnumerationsFit PROVE FactoriesSpec => Spec
<1>1. FactoriesInit => Init
  BY DEF FactoriesInit
<1>2. [FactoriesNext]_<<vars, made>> => [Next]_vars
  <2> SUFFICES ASSUME FactoriesNext PROVE Next \/ UNCHANGED vars
    OBVIOUS
  <2>0. /\ HashAlgorithmsMade \subseteq Values["HashAlgorithm"]
        /\ SeveritiesMade \subseteq Values["VulnerabilitySeverity"]
        /\ SourcesMade \subseteq Values["VulnerabilityScoreSource"]
        /\ "HashAlgorithm" \in Enumeration /\ "VulnerabilitySeverity" \in Enumeration
        /\ "VulnerabilityScoreSource" \in Enumeration
    BY DEF EnumerationsFit
  <2>1. CASE FromCompositeStr
    <3>1. PICK p \in Prefixes, n \in Names[subject] :
            /\ made'.is = CompositeAlgorithm(p)
            /\ IF made'.is \in Unknown THEN UNCHANGED vars ELSE Add(Value(made'.is, n))
      BY <2>1 DEF FromCompositeStr
    <3>2. subject = "HashAlgorithm"
      BY <2>1 DEF FromCompositeStr, FirstOf
    <3>3. CASE made'.is \notin Unknown
      <4>1. CompositeAlgorithm(p) \in Values[subject]
        BY <3>1, <3>2, <3>3, <2>0, CompositeMade
      <4>2. Value(CompositeAlgorithm(p), n) \in ItemsHere
        BY <3>2, <4>1, <2>0, ValueHere
      <4> QED BY <3>1, <3>3, <4>2 DEF Next
    <3> QED BY <3>1, <3>3
  <2>2. CASE FromHashlibAlg
    <3>1. PICK h \in DOMAIN HashlibAlgorithm \cup {NoText}, n \in Names[subject] :
            /\ made'.is = IF h = NoText THEN "UnknownHashTypeException" ELSE HashlibAlgorithm[h]
            /\ IF made'.is \in Unknown THEN UNCHANGED vars ELSE Add(Value(made'.is, n))
      BY <2>2 DEF FromHashlibAlg
    <3>2. subject = "HashAlgorithm"
      BY <2>2 DEF FromHashlibAlg, FirstOf
    <3>3. CASE made'.is \notin Unknown
      <4>1. h \in DOMAIN HashlibAlgorithm /\ made'.is = HashlibAlgorithm[h]
        BY <3>1, <3>3 DEF Unknown
      <4>2. HashlibAlgorithm[h] \in Values[subject]
        BY <3>2, <4>1, <2>0, HashlibMade
      <4>3. Value(HashlibAlgorithm[h], n) \in ItemsHere
        BY <3>2, <4>2, <2>0, ValueHere
      <4> QED BY <3>1, <3>3, <4>1, <4>3 DEF Next
    <3> QED BY <3>1, <3>3
  <2>3. CASE FromCvssScores
    <3>1. PICK scores \in {None} \cup {{x, y} : x, y \in Scores}, n \in Names[subject] :
            made'.is = Severity(scores) /\ Add(Value(made'.is, n))
      BY <2>3 DEF FromCvssScores
    <3>2. subject = "VulnerabilitySeverity"
      BY <2>3 DEF FromCvssScores, FirstOf
    <3>3. Value(Severity(scores), n) \in ItemsHere
      BY <3>2, <2>0, SeverityMade, ValueHere
    <3> QED BY <3>1, <3>3 DEF Next
  <2>4. CASE RateVector
    <3>1. PICK v \in Vectors, n \in Names[subject] : Add(Value(SourceOfVector(v), n))
      BY <2>4 DEF RateVector
    <3>2. subject = "VulnerabilityScoreSource"
      BY <2>4 DEF RateVector, FirstOf
    <3>3. Value(SourceOfVector(v), n) \in ItemsHere
      BY <3>2, <2>0, SourceMade, ValueHere
    <3> QED BY <3>1, <3>3 DEF Next
  <2>5. CASE MakeFromString
    <3>1. PICK string \in LicenseStrings, n \in Names[subject], more \in {None, "more"} :
            made'.is = LicenseOf(string, n, more) /\ Add(made'.is)
      BY <2>5 DEF MakeFromString
    <3>2. subject = "licenses"
      BY <2>5 DEF MakeFromString, FirstOf
    <3>3. LicenseOf(string, n, more) \in ItemsHere
      BY <3>2 DEF LicenseOf, ItemsHere, Items
    <3> QED BY <3>1, <3>3 DEF Next
  <2> QED BY <2>1, <2>2, <2>3, <2>4, <2>5 DEF FactoriesNext
<1> QED BY <1>1, <1>2, PTL DEF Spec, FactoriesSpec

-------------------------------------------------------------------------------
\* The members one by one.
LEMMA MemberCases ==
  ASSUME NEW m \in HashAlgorithmMembers
  PROVE  \/ m[1] = "SHA" /\ m[2] = 1 /\ m[3] = "SHA-1"
         \/ m[1] = "SHA" /\ m[2] = 256 /\ m[3] = "SHA-256"
         \/ m[1] = "SHA" /\ m[2] = 384 /\ m[3] = "SHA-384"
         \/ m[1] = "SHA" /\ m[2] = 512 /\ m[3] = "SHA-512"
         \/ m[1] = "SHA3" /\ m[2] = 256 /\ m[3] = "SHA3-256"
         \/ m[1] = "SHA3" /\ m[2] = 384 /\ m[3] = "SHA3-384"
         \/ m[1] = "SHA3" /\ m[2] = 512 /\ m[3] = "SHA3-512"
         \/ m[1] = "BLAKE2B" /\ m[2] = 256 /\ m[3] = "BLAKE2b-256"
         \/ m[1] = "BLAKE2B" /\ m[2] = 384 /\ m[3] = "BLAKE2b-384"
         \/ m[1] = "BLAKE2B" /\ m[2] = 512 /\ m[3] = "BLAKE2b-512"
  BY DEF HashAlgorithmMembers

\* What getattr finds: the member of the family and the size, if there is one
\* and nothing stands before the digits.
LEMMA MemberFound ==
  /\ Member("SHA", "none", 1) = "SHA-1" /\ Member("SHA", "none", 256) = "SHA-256"
  /\ Member("SHA", "none", 512) = "SHA-512"
  /\ Member("SHA3", "none", 256) = "SHA3-256" /\ Member("SHA3", "none", 384) = "SHA3-384"
  /\ Member("SHA3", "none", 512) = "SHA3-512"
  /\ Member("BLAKE2B", "none", 256) = "BLAKE2b-256" /\ Member("BLAKE2B", "none", 384) = "BLAKE2b-384"
  /\ Member("BLAKE2B", "none", 512) = "BLAKE2b-512"
<1>1. ASSUME NEW family, NEW size, NEW a,
             \E m \in HashAlgorithmMembers : m[1] = family /\ m[2] = size /\ m[3] = a,
             \A n \in HashAlgorithmMembers : n[1] = family /\ n[2] = size => n[3] = a
      PROVE  Member(family, "none", size) = a
  <2>1. MembersOf(family, size) = {a}
    BY <1>1 DEF MembersOf
  <2> QED BY <2>1 DEF Member
<1>2. Member("SHA", "none", 1) = "SHA-1"
  <2>1. \E m \in HashAlgorithmMembers : m[1] = "SHA" /\ m[2] = 1 /\ m[3] = "SHA-1"
    <3>1. <<"SHA", 1, "SHA-1">> \in HashAlgorithmMembers
      BY DEF HashAlgorithmMembers
    <3> QED BY <3>1, Zenon
  <2>2. \A n \in HashAlgorithmMembers : n[1] = "SHA" /\ n[2] = 1 => n[3] = "SHA-1"
    BY MemberCases
  <2> QED BY <1>1, <2>1, <2>2
<1>3. Member("SHA", "none", 256) = "SHA-256"
  <2>1. \E m \in HashAlgorithmMembers : m[1] = "SHA" /\ m[2] = 256 /\ m[3] = "SHA-256"
    <3>1. <<"SHA", 256, "SHA-256">> \in HashAlgorithmMembers
      BY DEF HashAlgorithmMembers
    <3> QED BY <3>1, Zenon
  <2>2. \A n \in HashAlgorithmMembers : n[1] = "SHA" /\ n[2] = 256 => n[3] = "SHA-256"
    BY MemberCases
  <2> QED BY <1>1, <2>1, <2>2
<1>4. Member("SHA", "none", 512) = "SHA-512"
  <2>1. \E m \in HashAlgorithmMembers : m[1] = "SHA" /\ m[2] = 512 /\ m[3] = "SHA-512"
    <3>1. <<"SHA", 512, "SHA-512">> \in HashAlgorithmMembers
      BY DEF HashAlgorithmMembers
    <3> QED BY <3>1, Zenon
  <2>2. \A n \in HashAlgorithmMembers : n[1] = "SHA" /\ n[2] = 512 => n[3] = "SHA-512"
    BY MemberCases
  <2> QED BY <1>1, <2>1, <2>2
<1>5. Member("SHA3", "none", 256) = "SHA3-256"
  <2>1. \E m \in HashAlgorithmMembers : m[1] = "SHA3" /\ m[2] = 256 /\ m[3] = "SHA3-256"
    <3>1. <<"SHA3", 256, "SHA3-256">> \in HashAlgorithmMembers
      BY DEF HashAlgorithmMembers
    <3> QED BY <3>1, Zenon
  <2>2. \A n \in HashAlgorithmMembers : n[1] = "SHA3" /\ n[2] = 256 => n[3] = "SHA3-256"
    BY MemberCases
  <2> QED BY <1>1, <2>1, <2>2
<1>6. Member("SHA3", "none", 384) = "SHA3-384"
  <2>1. \E m \in HashAlgorithmMembers : m[1] = "SHA3" /\ m[2] = 384 /\ m[3] = "SHA3-384"
    <3>1. <<"SHA3", 384, "SHA3-384">> \in HashAlgorithmMembers
      BY DEF HashAlgorithmMembers
    <3> QED BY <3>1, Zenon
  <2>2. \A n \in HashAlgorithmMembers : n[1] = "SHA3" /\ n[2] = 384 => n[3] = "SHA3-384"
    BY MemberCases
  <2> QED BY <1>1, <2>1, <2>2
<1>7. Member("SHA3", "none", 512) = "SHA3-512"
  <2>1. \E m \in HashAlgorithmMembers : m[1] = "SHA3" /\ m[2] = 512 /\ m[3] = "SHA3-512"
    <3>1. <<"SHA3", 512, "SHA3-512">> \in HashAlgorithmMembers
      BY DEF HashAlgorithmMembers
    <3> QED BY <3>1, Zenon
  <2>2. \A n \in HashAlgorithmMembers : n[1] = "SHA3" /\ n[2] = 512 => n[3] = "SHA3-512"
    BY MemberCases
  <2> QED BY <1>1, <2>1, <2>2
<1>8. Member("BLAKE2B", "none", 256) = "BLAKE2b-256"
  <2>1. \E m \in HashAlgorithmMembers : m[1] = "BLAKE2B" /\ m[2] = 256 /\ m[3] = "BLAKE2b-256"
    <3>1. <<"BLAKE2B", 256, "BLAKE2b-256">> \in HashAlgorithmMembers
      BY DEF HashAlgorithmMembers
    <3> QED BY <3>1, Zenon
  <2>2. \A n \in HashAlgorithmMembers : n[1] = "BLAKE2B" /\ n[2] = 256 => n[3] = "BLAKE2b-256"
    BY MemberCases
  <2> QED BY <1>1, <2>1, <2>2
<1>9. Member("BLAKE2B", "none", 384) = "BLAKE2b-384"
  <2>1. \E m \in HashAlgorithmMembers : m[1] = "BLAKE2B" /\ m[2] = 384 /\ m[3] = "BLAKE2b-384"
    <3>1. <<"BLAKE2B", 384, "BLAKE2b-384">> \in HashAlgorithmMembers
      BY DEF HashAlgorithmMembers
    <3> QED BY <3>1, Zenon
  <2>2. \A n \in HashAlgorithmMembers : n[1] = "BLAKE2B" /\ n[2] = 384 => n[3] = "BLAKE2b-384"
    BY MemberCases
  <2> QED BY <1>1, <2>1, <2>2
<1>10. Member("BLAKE2B", "none", 512) = "BLAKE2b-512"
  <2>1. \E m \in HashAlgorithmMembers : m[1] = "BLAKE2B" /\ m[2] = 512 /\ m[3] = "BLAKE2b-512"
    <3>1. <<"BLAKE2B", 512, "BLAKE2b-512">> \in HashAlgorithmMembers
      BY DEF HashAlgorithmMembers
    <3> QED BY <3>1, Zenon
  <2>2. \A n \in HashAlgorithmMembers : n[1] = "BLAKE2B" /\ n[2] = 512 => n[3] = "BLAKE2b-512"
    BY MemberCases
  <2> QED BY <1>1, <2>1, <2>2
<1> QED BY <1>2, <1>3, <1>4, <1>5, <1>6, <1>7, <1>8, <1>9, <1>10

LEMMA NoMember ==
  ASSUME NEW family, NEW gap, NEW size, Member(family, gap, size) \notin Unknown
  PROVE  gap = "none" /\ \E m \in HashAlgorithmMembers : m[1] = family /\ m[2] = size
<1>1. Member(family, gap, size) # "AttributeError"
  BY DEF Unknown
<1>2. gap = "none" /\ MembersOf(family, size) # {}
  BY <1>1 DEF Member
<1> QED BY <1>2 DEF MembersOf

\* The listed prefixes one by one.
LEMMA ListedCases ==
  ASSUME NEW l \in ListedPrefixes
  PROVE  \/ l[1] = "md5" /\ l[2] = "none" /\ l[3] = 0 /\ l[4] = "MD5"
         \/ l[1] = "sha" /\ l[2] = "none" /\ l[3] = 1 /\ l[4] = "SHA-1"
         \/ l[1] = "sha" /\ l[2] = "none" /\ l[3] = 256 /\ l[4] = "SHA-256"
         \/ l[1] = "sha" /\ l[2] = "none" /\ l[3] = 384 /\ l[4] = "SHA-384"
         \/ l[1] = "sha" /\ l[2] = "none" /\ l[3] = 512 /\ l[4] = "SHA-512"
         \/ l[1] \in {"blake2", "blake2b"} /\ l[2] = "none" /\ l[3] = 256 /\ l[4] = "BLAKE2b-256"
         \/ l[1] \in {"blake2", "blake2b"} /\ l[2] = "none" /\ l[3] = 384 /\ l[4] = "BLAKE2b-384"
         \/ l[1] \in {"blake2", "blake2b"} /\ l[2] = "none" /\ l[3] = 512 /\ l[4] = "BLAKE2b-512"
         \/ l[1] = "sha3" /\ l[2] = "-" /\ l[3] = 256 /\ l[4] = "SHA3-256"
         \/ l[1] = "sha3" /\ l[2] = "-" /\ l[3] = 384 /\ l[4] = "SHA3-384"
         \/ l[1] = "sha3" /\ l[2] = "-" /\ l[3] = 512 /\ l[4] = "SHA3-512"
         \/ l[1] = "blake3" /\ l[2] = "none" /\ l[3] = 0 /\ l[4] = "BLAKE3"
  BY DEF ListedPrefixes

\* from_composite_str, family by family.
LEMMA CompositeByFamily ==
  ASSUME NEW p
  PROVE  /\ p.family = "md5" => CompositeAlgorithm(p) = IF p.gap = "none" /\ p.size = 0 THEN "MD5"
                                                        ELSE "UnknownHashTypeException"
         /\ p.family = "sha3" => CompositeAlgorithm(p)
                                   = Member("SHA3", "none", IF OneDropped(p.gap) THEN p.size ELSE 0)
         /\ p.family = "sha" => CompositeAlgorithm(p)
                                  = IF p.gap = "none" /\ p.size = 384 THEN "AttributeError"
                                    ELSE Member("SHA", p.gap, p.size)
         /\ p.family \in {"blake2", "blake2b"} => CompositeAlgorithm(p)
                                                    = Member("BLAKE2B", p.gap, p.size)
         /\ p.family = "blake3" => CompositeAlgorithm(p) = "BLAKE3"
         /\ p.family \notin {"md5", "sha", "sha3", "blake2", "blake2b", "blake3"} =>
              CompositeAlgorithm(p) = "UnknownHashTypeException"
<1>1. p.family = "md5" => CompositeAlgorithm(p) = IF p.gap = "none" /\ p.size = 0 THEN "MD5"
                                                  ELSE "UnknownHashTypeException"
  BY DEF CompositeAlgorithm
<1>2. p.family = "sha3" => CompositeAlgorithm(p)
                            = Member("SHA3", "none", IF OneDropped(p.gap) THEN p.size ELSE 0)
  BY DEF CompositeAlgorithm
<1>3. p.family = "sha" => CompositeAlgorithm(p)
                           = IF p.gap = "none" /\ p.size = 384 THEN "AttributeError"
                             ELSE Member("SHA", p.gap, p.size)
  BY DEF CompositeAlgorithm
<1>4. p.family \in {"blake2", "blake2b"} => CompositeAlgorithm(p)
                                             = Member("BLAKE2B", p.gap, p.size)
  BY DEF CompositeAlgorithm
<1>5. p.family = "blake3" => CompositeAlgorithm(p) = "BLAKE3"
  BY DEF CompositeAlgorithm
<1>6. p.family \notin {"md5", "sha", "sha3", "blake2", "blake2b", "blake3"} =>
        CompositeAlgorithm(p) = "UnknownHashTypeException"
  BY DEF CompositeAlgorithm
<1> QED BY <1>1, <1>2, <1>3, <1>4, <1>5, <1>6

\* A listed prefix is a prefix of the same parts.
Lists(l, p) == <<l[1], l[2], l[3]>> = <<p.family, p.gap, p.size>>

\* A listed prefix gets its algorithm.
LEMMA ListedMade ==
  ASSUME NEW p, NEW l \in ListedPrefixes, Lists(l, p), l[4] # "SHA-384"
  PROVE  CompositeAlgorithm(p) = l[4]
<1>1. l[1] = p.family /\ l[2] = p.gap /\ l[3] = p.size
  BY DEF Lists
<1>2. CASE l[1] \in {"md5", "blake3"}
  BY <1>1, <1>2, ListedCases, CompositeByFamily
<1>3. CASE l[1] = "sha"
  <2>1. l[2] = "none" /\ l[3] # 384
    BY <1>3, ListedCases
  <2>2. CompositeAlgorithm(p) = Member("SHA", "none", l[3])
    <3>1. p.family = "sha" /\ p.gap = "none" /\ p.size # 384
      BY <1>1, <1>3, <2>1, Zenon
    <3>2. CompositeAlgorithm(p) = Member("SHA", p.gap, p.size)
      BY <3>1, CompositeByFamily, Zenon
    <3> QED BY <1>1, <3>1, <3>2, SMT
  <2> QED BY <1>3, <2>2, ListedCases, MemberFound
<1>4. CASE l[1] = "sha3"
  <2>1. l[2] = "-"
    BY <1>4, ListedCases
  <2>2. CompositeAlgorithm(p) = Member("SHA3", "none", l[3])
    <3>1. p.family = "sha3" /\ p.gap = "-"
      BY <1>1, <1>4, <2>1, Zenon
    <3>2. CompositeAlgorithm(p) = Member("SHA3", "none", p.size)
      <4>1. OneDropped(p.gap)
        BY <3>1 DEF OneDropped
      <4> QED BY <3>1, <4>1, CompositeByFamily, Zenon
    <3> QED BY <1>1, <3>2, Zenon
  <2> QED BY <1>4, <2>2, ListedCases, MemberFound
<1>5. CASE l[1] \in {"blake2", "blake2b"}
  BY <1>1, <1>5, ListedCases, CompositeByFamily, MemberFound
<1> QED BY <1>2, <1>3, <1>4, <1>5, ListedCases

\* What gets an algorithm is listed, with a '-' for a character dropped, or
\* begins with 'blake3'.
LEMMA MadeListed ==
  ASSUME NEW p \in Prefixes, CompositeAlgorithm(p) \notin Unknown, p.family # "blake3"
  PROVE  \/ \E l \in ListedPrefixes : Lists(l, p) /\ l[4] # "SHA-384"
         \/ p.gap = "other" /\ <<p.family, "-", p.size, CompositeAlgorithm(p)>> \in ListedPrefixes
<1> DEFINE Dropped == /\ p.gap = "other"
                      /\ <<p.family, "-", p.size, CompositeAlgorithm(p)>> \in ListedPrefixes
<1> DEFINE Listed(family, gap, size) ==
             \E l \in ListedPrefixes : /\ <<l[1], l[2], l[3]>> = <<family, gap, size>>
                                       /\ l[4] # "SHA-384"
<1>1. /\ CompositeAlgorithm(p) # "AttributeError"
      /\ CompositeAlgorithm(p) # "UnknownHashTypeException"
  BY DEF Unknown
<1>2. /\ Listed("md5", "none", 0) /\ Listed("sha", "none", 1) /\ Listed("sha", "none", 256)
      /\ Listed("sha", "none", 512)
  BY DEF ListedPrefixes
<1>3. Listed("sha3", "-", 256) /\ Listed("sha3", "-", 384) /\ Listed("sha3", "-", 512)
  BY DEF ListedPrefixes
<1>4. Listed("blake2", "none", 256) /\ Listed("blake2", "none", 384) /\ Listed("blake2", "none", 512)
  BY DEF ListedPrefixes
<1>5. Listed("blake2b", "none", 256) /\ Listed("blake2b", "none", 384) /\ Listed("blake2b", "none", 512)
  BY DEF ListedPrefixes
<1> HIDE DEF Listed
<1>6. Listed(p.family, p.gap, p.size) \/ Dropped
  <2>1. CASE p.family = "md5"
    BY <1>1, <1>2, <2>1, CompositeByFamily
  <2>2. CASE p.family = "sha3"
    <3> DEFINE size == IF OneDropped(p.gap) THEN p.size ELSE 0
    <3>1. PICK m \in HashAlgorithmMembers : m[1] = "SHA3" /\ m[2] = size
      BY <2>2, CompositeByFamily, NoMember
    <3>2. size \in {256, 384, 512}
      BY <3>1, MemberCases
    <3>3. OneDropped(p.gap) /\ p.size = size
      BY <3>2
    <3>4. CASE p.gap = "-"
      BY <1>3, <2>2, <3>2, <3>3, <3>4
    <3>5. CASE p.gap = "other"
      <4>1. p.size \in {256, 384, 512} /\ CompositeAlgorithm(p) = Member("SHA3", "none", p.size)
        BY <2>2, <3>2, <3>3, CompositeByFamily
      <4>2. <<"sha3", "-", p.size, CompositeAlgorithm(p)>> \in ListedPrefixes
        BY <4>1, MemberFound DEF ListedPrefixes
      <4> QED BY <2>2, <3>5, <4>2
    <3> QED BY <3>3, <3>4, <3>5 DEF OneDropped
  <2>3. CASE p.family = "sha"
    <3>1. ~(p.gap = "none" /\ p.size = 384)
      BY <1>1, <2>3, CompositeByFamily
    <3>2. CompositeAlgorithm(p) = Member("SHA", p.gap, p.size)
      BY <2>3, <3>1, CompositeByFamily
    <3>3. p.gap = "none" /\ \E m \in HashAlgorithmMembers : m[1] = "SHA" /\ m[2] = p.size
      BY <3>2, NoMember
    <3>4. p.size \in {1, 256, 512}
      BY <3>1, <3>3, MemberCases
    <3> QED BY <1>2, <2>3, <3>3, <3>4
  <2>4. CASE p.family \in {"blake2", "blake2b"}
    <3>1. CompositeAlgorithm(p) = Member("BLAKE2B", p.gap, p.size)
      BY <2>4, CompositeByFamily
    <3>2. p.gap = "none" /\ \E m \in HashAlgorithmMembers : m[1] = "BLAKE2B" /\ m[2] = p.size
      BY <3>1, NoMember
    <3>3. p.size \in {256, 384, 512}
      BY <3>2, MemberCases
    <3> QED BY <1>4, <1>5, <2>4, <3>2, <3>3
  <2> QED BY <1>1, <2>1, <2>2, <2>3, <2>4, CompositeByFamily
<1> QED BY <1>6 DEF Listed, Lists

\* The algorithm of a listed prefix is the listed one, and other prefixes raise,
\* if they have neither blake3 nor one character for the '-' of a listed one.
LEMMA CompositeListed ==
  ASSUME NEW p \in Prefixes
  PROVE  LET listed == {l \in ListedPrefixes : <<l[1], l[2], l[3]>> = <<p.family, p.gap, p.size>>}
         IN  IF \E l \in listed : l[4] # "SHA-384"
             THEN \A l \in listed : CompositeAlgorithm(p) = l[4]
             ELSE \/ CompositeAlgorithm(p) \in Unknown
                  \/ p.family = "blake3"
                  \/ /\ p.gap = "other"
                     /\ <<p.family, "-", p.size, CompositeAlgorithm(p)>> \in ListedPrefixes
<1> DEFINE listed == {l \in ListedPrefixes : Lists(l, p)}
<1>1. listed = {l \in ListedPrefixes : <<l[1], l[2], l[3]>> = <<p.family, p.gap, p.size>>}
  BY DEF Lists
<1>2. CASE \E l \in listed : l[4] # "SHA-384"
  <2>1. \A l \in listed : l[4] # "SHA-384"
    <3>1. \A l \in listed : l[1] = p.family /\ l[2] = p.gap /\ l[3] = p.size
      BY DEF Lists
    <3> QED BY <1>2, <3>1, ListedCases
  <2> QED BY <1>1, <1>2, <2>1, ListedMade
<1>3. CASE ~ \E l \in listed : l[4] # "SHA-384"
  BY <1>1, <1>3, MadeListed
<1> QED BY <1>2, <1>3

-------------------------------------------------------------------------------
\* The rating of a tuple of scores.
LEMMA SeverityScale ==
  ASSUME NEW scores \in SUBSET (0..100), scores # None
  PROVE  LET is == Severity(scores)
         IN  \A x \in scores :
               CASE is = "critical" -> \E y \in scores : y \in 90..100
                 [] is = "high" -> x < 90 /\ \E y \in scores : y \in 70..89
                 [] is = "medium" -> x < 70 /\ \E y \in scores : y \in 40..69
                 [] is = "low" -> x < 40 /\ \E y \in scores : y \in 1..39
                 [] is = "none" -> x = 0
                 [] OTHER -> FALSE
<1> DEFINE At(b) == \E x \in scores : x >= b
<1>0. \A x \in scores : x \in Nat /\ x <= 100
  OBVIOUS
<1>r. \A b : Reaches(scores, b) <=> At(b)
  BY DEF Reaches
<1>1. CASE At(90)
  <2>1. Severity(scores) = "critical"
    <3>1. At(70) /\ At(40) /\ At(1)
      BY <1>0, <1>1
    <3> HIDE DEF At
    <3> QED BY <1>1, <1>r, <3>1 DEF Severity
  <2>2. \E y \in scores : y \in 90..100
    BY <1>0, <1>1
  <2> QED BY <2>1, <2>2
<1>2. CASE At(70) /\ ~At(90)
  <2>1. Severity(scores) = "high"
    <3>1. At(40) /\ At(1)
      BY <1>0, <1>2
    <3> HIDE DEF At
    <3> QED BY <1>2, <1>r, <3>1 DEF Severity
  <2>2. (\A x \in scores : x < 90) /\ \E y \in scores : y \in 70..89
    BY <1>0, <1>2
  <2> QED BY <2>1, <2>2
<1>3. CASE At(40) /\ ~At(70)
  <2>1. Severity(scores) = "medium"
    <3>1. ~At(90) /\ At(1)
      BY <1>0, <1>3
    <3> HIDE DEF At
    <3> QED BY <1>3, <1>r, <3>1 DEF Severity
  <2>2. (\A x \in scores : x < 70) /\ \E y \in scores : y \in 40..69
    BY <1>0, <1>3
  <2> QED BY <2>1, <2>2
<1>4. CASE At(1) /\ ~At(40)
  <2>1. Severity(scores) = "low"
    <3>1. ~At(90) /\ ~At(70)
      BY <1>0, <1>4
    <3> HIDE DEF At
    <3> QED BY <1>4, <1>r, <3>1 DEF Severity
  <2>2. (\A x \in scores : x < 40) /\ \E y \in scores : y \in 1..39
    BY <1>0, <1>4
  <2> QED BY <2>1, <2>2
<1>5. CASE ~At(1)
  <2>1. Severity(scores) = "none"
    <3>1. ~At(90) /\ ~At(70) /\ ~At(40)
      BY <1>0, <1>5
    <3> HIDE DEF At
    <3> QED BY <1>5, <1>r, <3>1 DEF Severity
  <2>2. \A x \in scores : x = 0
    BY <1>0, <1>5
  <2> QED BY <2>1, <2>2
<1> QED BY <1>1, <1>2, <1>3, <1>4, <1>5

-------------------------------------------------------------------------------
\* A vector without a minor version and without OWASP stays as it is.
LEMMA LeftAlone ==
  ASSUME NEW source, NEW vector, vector.minor = "none", vector.scheme # "OWASP"
  PROVE  LocalisedVector(source, vector) = vector
  BY DEF LocalisedVector, Fits

\* What the constructor of a rating makes of a vector and its source.
LEMMA VectorKept ==
  ASSUME NEW v \in Vectors
  PROVE  LET source == SourceOfVector(v)
             vector == LocalisedVector(source, v)
         IN  /\ LocalisedVector(source, vector) = vector
             /\ SourceOfVector(vector) \in {source, "other"}
             /\ v.minor # "none" => vector.scheme = "none"
<1> DEFINE source == SourceOfVector(v)
           bare == [scheme |-> "none", minor |-> "none"]
<1>v. /\ v.minor \in {"none", "0", "1"} /\ v = [scheme |-> v.scheme, minor |-> v.minor]
      /\ v.scheme \in {"CVSS:4.", "CVSS:3.", "CVSS:2.", "OWASP", "none"}
  BY DEF Vectors
<1>1. CASE Fits(source, v)
  <2>1. LocalisedVector(source, v) = bare
    BY <1>1, <1>v DEF LocalisedVector
  <2>0. bare.minor = "none" /\ bare.scheme = "none"
    OBVIOUS
  <2> HIDE DEF bare
  <2>2. LocalisedVector(source, bare) = bare
    BY <2>0, LeftAlone
  <2>3. SourceOfVector(bare) = "other"
    BY <2>0 DEF SourceOfVector
  <2> QED BY <2>0, <2>1, <2>2, <2>3
<1>2. CASE ~Fits(source, v)
  <2>1. LocalisedVector(source, v) = v
    BY <1>2 DEF LocalisedVector
  <2>2. v.minor # "none" => v.scheme = "none"
    <3>1. CASE v.scheme = "CVSS:4."
      BY <1>2, <3>1 DEF Fits, SourceOfVector
    <3>2. CASE v.scheme = "CVSS:3."
      BY <1>2, <3>2 DEF Fits, SourceOfVector
    <3>3. CASE v.scheme = "CVSS:2."
      BY <1>2, <3>3 DEF Fits, SourceOfVector
    <3>4. CASE v.scheme = "OWASP"
      BY <1>2, <3>4 DEF Fits, SourceOfVector
    <3> QED BY <1>v, <3>1, <3>2, <3>3, <3>4
  <2> QED BY <2>1, <2>2
<1> QED BY <1>1, <1>2

-------------------------------------------------------------------------------
\* Only the factory that made it speaks of what was made.
LEMMA MadeBy ==
  ASSUME FactoriesNext
  PROVE  /\ made'.by = "from_composite_str" => FromCompositeStr
         /\ made'.by = "vs_from_cvss_scores" => FromCvssScores
         /\ made'.by = "VulnerabilityRating" => RateVector
<1>1. Nothing.by = "nobody"
  BY DEF Nothing
<1>2. FromCompositeStr => made'.by = "from_composite_str"
  BY DEF FromCompositeStr
<1>3. FromHashlibAlg => made'.by = "from_hashlib_alg"
  BY DEF FromHashlibAlg
<1>4. FromCvssScores => made'.by = "vs_from_cvss_scores"
  BY DEF FromCvssScores
<1>5. RateVector => made'.by = "VulnerabilityRating"
  BY DEF RateVector
<1>6. MakeFromString => made'.by = "make_from_string"
  BY DEF MakeFromString
<1> QED BY <1>1, <1>2, <1>3, <1>4, <1>5, <1>6 DEF FactoriesNext

\* Every prefix the docstring of from_composite_str lists gets its algorithm,
\* all but 'sha384'; every other raises, but for those that go on after 'blake3'
\* or have one other character for the '-' of a listed SHA3
\* (cyclonedx/contrib/hash/factories.py), in whatever order factories, setters,
\* writing and reading come.
THEOREM CompositesTyped == FactoriesSpec => []CompositeTyped
<1>1. FactoriesInit => CompositeTyped
  BY DEF FactoriesInit, Nothing, CompositeTyped
<1>2. CompositeTyped /\ [FactoriesNext]_<<vars, made>> => CompositeTyped'
  <2>1. ASSUME CompositeTyped, UNCHANGED made PROVE CompositeTyped'
    BY <2>1 DEF CompositeTyped
  <2>2. ASSUME FactoriesNext, made'.by # "from_composite_str" PROVE CompositeTyped'
    BY <2>2 DEF CompositeTyped
  <2>3. ASSUME FactoriesNext, made'.by = "from_composite_str" PROVE CompositeTyped'
    <3>1. PICK p \in Prefixes : made'.of = p /\ made'.is = CompositeAlgorithm(p)
      BY <2>3, MadeBy DEF FromCompositeStr
    <3> QED BY <3>1, CompositeListed DEF CompositeTyped
  <2> QED BY <2>1, <2>2, <2>3
<1> QED BY <1>1, <1>2, PTL DEF FactoriesSpec

\* Whatever the scores of a tuple, the severity is the rating of the highest
\* (cyclonedx/contrib/vulnerability/cvss.py).
THEOREM SeveritiesByScale ==
  ASSUME Scores \subseteq 0..100
  PROVE  FactoriesSpec => []SeverityByScale
<1>1. FactoriesInit => SeverityByScale
  BY DEF FactoriesInit, Nothing, SeverityByScale
<1>2. SeverityByScale /\ [FactoriesNext]_<<vars, made>> => SeverityByScale'
  <2>1. ASSUME SeverityByScale, UNCHANGED made PROVE SeverityByScale'
    BY <2>1 DEF SeverityByScale
  <2>2. ASSUME FactoriesNext, made'.by # "vs_from_cvss_scores" PROVE SeverityByScale'
    BY <2>2 DEF SeverityByScale
  <2>3. ASSUME FactoriesNext, made'.by = "vs_from_cvss_scores" PROVE SeverityByScale'
    <3>1. PICK scores \in {None} \cup {{x, y} : x, y \in Scores} :
            made'.of = scores /\ made'.is = Severity(scores)
      BY <2>3, MadeBy DEF FromCvssScores
    <3>2. CASE scores = None
      BY <3>1, <3>2 DEF SeverityByScale
    <3>3. CASE scores # None
      <4>1. scores \in SUBSET (0..100)
        BY <3>1, <3>3
      <4> QED BY <3>1, <3>3, <4>1, SeverityScale DEF SeverityByScale
    <3> QED BY <3>2, <3>3
  <2> QED BY <2>1, <2>2, <2>3
<1> QED BY <1>1, <1>2, PTL DEF FactoriesSpec

\* A rating of a vector keeps its scheme, in the vector or in the method
\* (VulnerabilityRating.__init__ and VulnerabilityScoreSource of
\* model/vulnerability.py).
THEOREM SchemesKept == FactoriesSpec => []SchemeKept
<1>1. FactoriesInit => SchemeKept
  <2>1. ASSUME FactoriesInit PROVE made.by = "nobody"
    BY <2>1 DEF FactoriesInit, Nothing
  <2> QED BY <2>1 DEF SchemeKept
<1>2. SchemeKept /\ [FactoriesNext]_<<vars, made>> => SchemeKept'
  <2>1. ASSUME SchemeKept, UNCHANGED made PROVE SchemeKept'
    BY <2>1 DEF SchemeKept
  <2>2. ASSUME FactoriesNext, made'.by # "VulnerabilityRating" PROVE SchemeKept'
    BY <2>2 DEF SchemeKept
  <2>3. ASSUME FactoriesNext, made'.by = "VulnerabilityRating" PROVE SchemeKept'
    <3>1. PICK v \in Vectors :
            /\ made'.of = v
            /\ made'.is = [method |-> SourceOfVector(v),
                           vector |-> LocalisedVector(SourceOfVector(v), v)]
      BY <2>3, MadeBy DEF RateVector
    <3>2. /\ made'.is.method = SourceOfVector(v)
          /\ made'.is.vector = LocalisedVector(SourceOfVector(v), v)
      BY <3>1
    <3> QED BY <3>1, <3>2, VectorKept DEF SchemeKept
  <2> QED BY <2>1, <2>2, <2>3
<1> QED BY <1>1, <1>2, PTL DEF FactoriesSpec
===============================================================================
