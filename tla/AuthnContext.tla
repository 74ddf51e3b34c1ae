---------------------------- MODULE AuthnContext ----------------------------
(***************************************************************************)
(* The RequestedAuthnContext comparator (src/src/authn_context.rs): the    *)
(* strength ladder of the standard class references and                    *)
(* StandardComparator::evaluate. A class reference stands for its URI; a   *)
(* reference outside the ladder is a Custom one and has no rank. A request *)
(* is [comparison, class_refs] with class_refs the set of references       *)
(* asked for (the code's Vec is only searched and folded).                 *)
(***************************************************************************)
EXTENDS Integers

Comparisons == {"Exact", "Minimum", "Maximum", "Better"}

StandardClassRefs ==
  {"Unspecified", "PreviousSession", "Password", "PasswordProtectedTransport",
   "TimeSyncToken", "Kerberos", "TlsClient", "Smartcard", "SmartcardPki",
   "MultiFactorAuth"}

(* class_ref_strength, on the references it ranks.                         *)
class_ref_strength(cr) ==
  CASE cr = "Unspecified"                -> 0
    [] cr = "PreviousSession"            -> 1
    [] cr = "Password"                   -> 2
    [] cr = "PasswordProtectedTransport" -> 3
    [] cr = "TimeSyncToken"              -> 4
    [] cr \in {"Kerberos", "TlsClient"}  -> 5
    [] cr = "Smartcard"                  -> 6
    [] cr = "SmartcardPki"               -> 7
    [] cr = "MultiFactorAuth"            -> 8

Weakest(refs) ==
  CHOOSE m \in {class_ref_strength(c) : c \in refs} :
    \A c \in refs : m <= class_ref_strength(c)

Strongest(refs) ==
  CHOOSE m \in {class_ref_strength(c) : c \in refs} :
    \A c \in refs : m >= class_ref_strength(c)

(* Mutant: Minimum taken as a strict bound.                                *)
OrderedExclusiveMinimum(requested, actual) ==
  LET a == class_ref_strength(actual) IN
  CASE requested.comparison = "Minimum" -> a > Weakest(requested.class_refs)
    [] requested.comparison = "Maximum" -> a <= Strongest(requested.class_refs)
    [] requested.comparison = "Better"  -> a > Strongest(requested.class_refs)

(* The strength-ordered comparisons, on a request that can be ranked.      *)
Ordered(requested, actual) ==
  LET a == class_ref_strength(actual) IN
  CASE requested.comparison = "Minimum" -> a >= Weakest(requested.class_refs)
    [] requested.comparison = "Maximum" -> a <= Strongest(requested.class_refs)
    [] requested.comparison = "Better"  -> a > Strongest(requested.class_refs)

(* StandardComparator::evaluate. Exact is URI equality and works for       *)
(* Custom references; the others need both sides on the ladder.            *)
evaluate(requested, actual) ==
  IF requested.comparison = "Exact"
    THEN IF actual \in requested.class_refs THEN "Satisfied" ELSE "NotSatisfied"
  ELSE IF \/ actual \notin StandardClassRefs
          \/ ~(requested.class_refs \subseteq StandardClassRefs)
          \/ requested.class_refs = {}
    THEN "NotComparable"
  ELSE IF Ordered(requested, actual) THEN "Satisfied" ELSE "NotSatisfied"

is_satisfied(requested, actual) == evaluate(requested, actual) = "Satisfied"
=============================================================================
