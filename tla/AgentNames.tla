----------------------------- MODULE AgentNames -----------------------------
(***************************************************************************)
(* The pure functions on names of the operator: normalizeAgentName, which  *)
(* makes of a Kubernetes name one that the agent library takes, and        *)
(* parsePackageRef, which reads the operator's --agent-package flag.       *)
(* A name is a sequence of characters; a character is what tests tell it   *)
(* to be.                                                                  *)
(***************************************************************************)
EXTENDS Integers, Sequences

CONSTANTS Letter, Digit, OtherChar, \* disjoint sets of characters
          Underscore, Dot,
          DefaultNamespace, DefaultPackage, \* the names "default" and "agent"
          MaxName                           \* bound: the length of a checked name

ASSUME CharAssumption ==
  /\ Letter \intersect Digit = {}
  /\ Underscore \notin Letter \union Digit
  /\ Dot \in OtherChar
ASSUME MaxNameAssumption == MaxName \in Nat

Char == Letter \union Digit \union OtherChar \union {Underscore}
WordChar == Letter \union Digit \union {Underscore}

-----------------------------------------------------------------------------
(* Each character stays or becomes an underscore. *)
Replaced(name) == [i \in DOMAIN name |-> IF name[i] \in WordChar THEN name[i] ELSE Underscore]

NormalizeAgentName(name) ==
  IF name = << >> THEN <<Underscore>>
  ELSE IF name[1] \in Digit THEN <<Underscore>> \o Replaced(name)
  ELSE Replaced(name)

(* What the agent library takes for a name. *)
Identifier(s) ==
  /\ s # << >>
  /\ s[1] \in Letter \union {Underscore}
  /\ \A i \in DOMAIN s : s[i] \in WordChar

-----------------------------------------------------------------------------
DotFree(s) == \A i \in DOMAIN s : s[i] # Dot
FirstDot(s) == CHOOSE i \in DOMAIN s : s[i] = Dot /\ \A j \in 1..(i - 1) : s[j] # Dot
BeforeDot(s) == SubSeq(s, 1, FirstDot(s) - 1)
AfterDot(s) == SubSeq(s, FirstDot(s) + 1, Len(s))

(* strings.Split at the dots; what follows a second dot is ignored. *)
ParsePackageRef(ref) ==
  IF ref = << >> THEN <<DefaultNamespace, DefaultPackage>>
  ELSE IF DotFree(ref) THEN <<DefaultNamespace, ref>>
  ELSE <<BeforeDot(ref),
         IF DotFree(AfterDot(ref)) THEN AfterDot(ref) ELSE BeforeDot(AfterDot(ref))>>

-----------------------------------------------------------------------------
(* Properties, over all names up to MaxName characters *)

Names == UNION {[1..n -> Char] : n \in 0..MaxName}

(* Whatever the name of an Agent, the agent library accepts what it is called
   in its configuration, and a name that was acceptable is not changed. *)
NamesNormalized ==
  \A name \in Names :
    /\ Identifier(NormalizeAgentName(name))
    /\ Identifier(name) => NormalizeAgentName(name) = name

(* "namespace.name" or "name", which defaults to the namespace "default". *)
ReferencesParsed ==
  \A name \in Names :
    DotFree(name) /\ name # << >> =>
      /\ ParsePackageRef(name) = <<DefaultNamespace, name>>
      /\ \A ns \in Names :
           DotFree(ns) => ParsePackageRef(ns \o <<Dot>> \o name) = <<ns, name>>
=============================================================================
