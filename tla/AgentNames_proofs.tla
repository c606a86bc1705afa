-------------------------- MODULE AgentNames_proofs --------------------------
(* Theorems about the names of agents and packages, of any length, over any
   characters. *)
EXTENDS AgentNames, SequenceTheorems, TLAPS

(* The checked names are sequences of characters. *)
LEMMA NamesAreSequences ==
  ASSUME NEW name \in Names
  PROVE  /\ name \in Seq(Char)
         /\ DOMAIN name = 1..Len(name)
         /\ Len(name) \in Nat
<1>1. PICK n \in 0..MaxName : name \in [1..n -> Char]
  BY DEF Names
<1>2. n \in Nat
  BY MaxNameAssumption
<1> QED BY <1>1, <1>2

(* Replacing gives as many characters, all of which a name may contain. *)
LEMMA ReplacedFacts ==
  ASSUME NEW name \in Seq(Char)
  PROVE  /\ Replaced(name) \in Seq(WordChar)
         /\ Len(Replaced(name)) = Len(name)
         /\ \A i \in DOMAIN name : Replaced(name)[i] = IF name[i] \in WordChar THEN name[i] ELSE Underscore
<1>1. \A i \in DOMAIN name : (IF name[i] \in WordChar THEN name[i] ELSE Underscore) \in WordChar
  BY DEF WordChar
<1>2. Replaced(name) \in [1..Len(name) -> WordChar]
  BY <1>1 DEF Replaced
<1> QED BY <1>2 DEF Replaced

(* normalizeAgentName: whatever the name, the result is an identifier. *)
THEOREM NormalizedIsIdentifier ==
  ASSUME NEW name \in Seq(Char)
  PROVE  Identifier(NormalizeAgentName(name))
<1>1. CASE name = << >>
  BY <1>1 DEF NormalizeAgentName, Identifier, WordChar
<1>2. CASE name # << >> /\ name[1] \in Digit
  <2>1. NormalizeAgentName(name) = <<Underscore>> \o Replaced(name)
    BY <1>2 DEF NormalizeAgentName
  <2>2. <<Underscore>> \in Seq(WordChar)
    BY DEF WordChar
  <2>3. /\ <<Underscore>> \o Replaced(name) \in Seq(WordChar)
        /\ (<<Underscore>> \o Replaced(name))[1] = Underscore
        /\ Len(<<Underscore>> \o Replaced(name)) = 1 + Len(name)
    BY <2>2, ReplacedFacts
  <2> QED BY <2>1, <2>3 DEF Identifier
<1>3. CASE name # << >> /\ name[1] \notin Digit
  <2>1. NormalizeAgentName(name) = Replaced(name)
    BY <1>3 DEF NormalizeAgentName
  <2>2. 1 \in DOMAIN name
    BY <1>3
  <2>3. Replaced(name)[1] \in Letter \union {Underscore}
    BY <1>3, <2>2, ReplacedFacts DEF WordChar
  <2>4. Replaced(name) \in Seq(WordChar) /\ Replaced(name) # << >>
    BY <2>2, ReplacedFacts
  <2> QED BY <2>1, <2>3, <2>4 DEF Identifier
<1> QED BY <1>1, <1>2, <1>3

(* normalizeAgentName leaves an identifier as it is. *)
THEOREM IdentifiersKept ==
  ASSUME NEW name \in Seq(Char), Identifier(name)
  PROVE  NormalizeAgentName(name) = name
<1>1. name # << >> /\ name[1] \notin Digit
  BY CharAssumption DEF Identifier
<1>2. Replaced(name) = name
  <2>1. \A i \in DOMAIN name : Replaced(name)[i] = name[i]
    BY ReplacedFacts DEF Identifier
  <2>2. Replaced(name) \in Seq(WordChar) /\ Len(Replaced(name)) = Len(name)
    BY ReplacedFacts
  <2> QED BY <2>1, <2>2, SeqEqual
<1> QED BY <1>1, <1>2 DEF NormalizeAgentName

(* The two together, over the names that TLC checks, for every bound. *)
THEOREM AllNormalized == NamesNormalized
BY NamesAreSequences, NormalizedIsIdentifier, IdentifiersKept DEF NamesNormalized
-----------------------------------------------------------------------------
(* What is left of a name when its first characters are cut off *)
LEMMA Suffix ==
  ASSUME NEW s \in Seq(Char), NEW m \in Nat \ {0}, m <= Len(s) + 1
  PROVE  /\ SubSeq(s, m, Len(s)) \in Seq(Char)
         /\ Len(SubSeq(s, m, Len(s))) = Len(s) - m + 1
         /\ \A i \in 1..(Len(s) - m + 1) : SubSeq(s, m, Len(s))[i] = s[m + i - 1]
<1>1. Len(s) \in Nat /\ \A i \in m..Len(s) : s[i] \in Char
  OBVIOUS
<1> QED BY <1>1, SubSeqProperties

(* A text whose first dot is known splits there. *)
LEMMA SplitAtFirstDot ==
  ASSUME NEW ref \in Seq(Char), NEW n \in Nat, n < Len(ref),
         ref[n + 1] = Dot, \A i \in 1..n : ref[i] # Dot
  PROVE  /\ ~DotFree(ref)
         /\ BeforeDot(ref) = SubSeq(ref, 1, n)
         /\ AfterDot(ref) = SubSeq(ref, n + 2, Len(ref))
<1>1. ~DotFree(ref)
  <2>1. n + 1 \in DOMAIN ref
    OBVIOUS
  <2> QED BY <2>1 DEF DotFree
<1>2. FirstDot(ref) = n + 1
  <2> DEFINE First(i) == i \in DOMAIN ref /\ ref[i] = Dot /\ \A j \in 1..(i - 1) : ref[j] # Dot
  <2>1. First(n + 1)
    OBVIOUS
  <2>2. ASSUME NEW i, First(i) PROVE i = n + 1
    <3>1. i \in Nat /\ i >= 1
      BY <2>2
    <3>2. ~(i < n + 1) /\ ~(i > n + 1)
      BY <2>2, <3>1
    <3> QED BY <3>1, <3>2
  <2> QED BY <2>1, <2>2 DEF FirstDot
<1>3. FirstDot(ref) - 1 = n /\ FirstDot(ref) + 1 = n + 2
  BY <1>2
<1> QED BY <1>1, <1>3, Zenon DEF BeforeDot, AfterDot

(* What is on either side of the first dot of "namespace.name" *)
LEMMA SplitAtDot ==
  ASSUME NEW ns \in Seq(Char), NEW name \in Seq(Char), DotFree(ns),
         NEW ref \in Seq(Char), Len(ref) = Len(ns) + 1 + Len(name),
         \A i \in 1..Len(ns) : ref[i] = ns[i],
         ref[Len(ns) + 1] = Dot,
         \A i \in 1..Len(name) : ref[Len(ns) + 1 + i] = name[i]
  PROVE  ~DotFree(ref) /\ BeforeDot(ref) = ns /\ AfterDot(ref) = name
<1>n. Len(ns) \in Nat /\ Len(name) \in Nat
  OBVIOUS
<1>1. /\ ~DotFree(ref)
      /\ BeforeDot(ref) = SubSeq(ref, 1, Len(ns))
      /\ AfterDot(ref) = SubSeq(ref, Len(ns) + 2, Len(ref))
  <2>1. \A i \in 1..Len(ns) : ref[i] # Dot
    BY DEF DotFree
  <2>2. Len(ns) < Len(ref)
    BY <1>n
  <2> QED BY <1>n, <2>1, <2>2, SplitAtFirstDot
<1>2. SubSeq(ref, 1, Len(ns)) = ns
  <2>1. /\ SubSeq(ref, 1, Len(ns)) \in Seq(Char)
        /\ Len(SubSeq(ref, 1, Len(ns))) = Len(ns)
        /\ \A i \in 1..Len(ns) : SubSeq(ref, 1, Len(ns))[i] = ns[i]
    BY <1>n
  <2> QED BY <2>1, SeqEqual
<1>3. SubSeq(ref, Len(ns) + 2, Len(ref)) = name
  <2> DEFINE m == Len(ns) + 2
  <2>1. m \in Nat \ {0} /\ m <= Len(ref) + 1 /\ Len(ref) - m + 1 = Len(name)
    BY <1>n
  <2>2. \A i \in 1..Len(name) : ref[m + i - 1] = name[i]
    <3>1. \A i \in 1..Len(name) : m + i - 1 = Len(ns) + 1 + i
      BY <1>n
    <3> QED BY <3>1
  <2> HIDE DEF m
  <2>3. /\ SubSeq(ref, m, Len(ref)) \in Seq(Char)
        /\ Len(SubSeq(ref, m, Len(ref))) = Len(name)
        /\ \A i \in 1..Len(name) : SubSeq(ref, m, Len(ref))[i] = name[i]
    BY <2>1, <2>2, Suffix
  <2>4. SubSeq(ref, m, Len(ref)) = name
    BY <2>3, SeqEqual
  <2> QED BY <2>4 DEF m
<1> QED BY <1>1, <1>2, <1>3

(* parsePackageRef reads "namespace.name" as it is written, and a bare name as
   one of the namespace "default", for names of any length. *)
THEOREM ReferenceParsed ==
  ASSUME NEW name \in Seq(Char), name # << >>, DotFree(name)
  PROVE  /\ ParsePackageRef(name) = <<DefaultNamespace, name>>
         /\ \A ns \in Seq(Char) :
              DotFree(ns) => ParsePackageRef(ns \o <<Dot>> \o name) = <<ns, name>>
<1>1. ParsePackageRef(name) = <<DefaultNamespace, name>>
  BY DEF ParsePackageRef
<1>2. ASSUME NEW ns \in Seq(Char), DotFree(ns)
      PROVE  ParsePackageRef(ns \o <<Dot>> \o name) = <<ns, name>>
  <2> DEFINE ref == ns \o <<Dot>> \o name
  <2>0. /\ ref \in Seq(Char)
        /\ Len(ref) = Len(ns) + 1 + Len(name)
        /\ \A i \in 1..Len(ns) : ref[i] = ns[i]
        /\ ref[Len(ns) + 1] = Dot
        /\ \A i \in 1..Len(name) : ref[Len(ns) + 1 + i] = name[i]
    BY <1>2, CharAssumption DEF Char
  <2> HIDE DEF ref
  <2>1. ~DotFree(ref) /\ BeforeDot(ref) = ns /\ AfterDot(ref) = name
    BY <1>2, <2>0, SplitAtDot
  <2>2. ref # << >>
    BY <2>1 DEF DotFree
  <2>3. ParsePackageRef(ref) = <<ns, name>>
    BY <2>1, <2>2 DEF ParsePackageRef
  <2> QED BY <2>3 DEF ref
<1> QED BY <1>1, <1>2

(* The same over the names that TLC checks, for every bound. *)
THEOREM AllParsed == ReferencesParsed
BY NamesAreSequences, ReferenceParsed DEF ReferencesParsed
=============================================================================
