---------------------------- MODULE Signatures ----------------------------
(***************************************************************************)
(* Verdicts, and the signature verification every inbound message goes     *)
(* through (src/src/dsig/verify.rs, src/src/dsig/reference.rs).            *)
(*                                                                         *)
(* A verdict is "Ok" or the name of the Error variant returned. A          *)
(* signature is [cert : the key that made it, covers : the element its     *)
(* Reference resolves to, intact : whether digest and value verify].       *)
(***************************************************************************)
EXTENDS Integers

(* The error-propagation operator: the first verdict that is not Ok.       *)
first && second == IF first = "Ok" THEN second ELSE first

Reject(condition, error) == IF condition THEN error ELSE "Ok"

(* Mutant: the signed element is not compared with the one used.           *)
VerifyAnyElement(sig, certs, element) ==
  Reject(sig.cert \notin certs \/ ~sig.intact, "SignatureVerification")

(* verify_signature with the candidate certificates, followed by the check *)
(* that the element it signs is the one about to be used (the XSW defence).*)
verify_signature(sig, certs, element) ==
  Reject(sig.cert \notin certs \/ ~sig.intact \/ sig.covers # element,
         "SignatureVerification")

VerifyPresent(sigs, certs, element) ==
  IF \A sig \in sigs : verify_signature(sig, certs, element) = "Ok"
    THEN "Ok" ELSE "SignatureVerification"

VerifyRequired(sigs, certs, element) ==
  Reject(sigs = {}, "SignatureMissing") && VerifyPresent(sigs, certs, element)
=============================================================================
