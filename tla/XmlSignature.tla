----------------------------- MODULE XmlSignature -----------------------------
(* Canonical XML and enveloped signatures. Canonicalization                  *)
(* (src/dsig/c14n.rs) is exclusive or inclusive, with or without comments;   *)
(* the canonical form is a sequence of reader events whose declarations and  *)
(* attributes are in canonical order, character data one fragment at a time. *)
EXTENDS XmlTree

CONSTANT Lexicon     \* the names and URIs of an instance, in byte order

Rank(s) == CHOOSE i \in DOMAIN Lexicon : Lexicon[i] = s
Before(s, t) == Rank(s) < Rank(t)

C14nAlgorithms == {"exclusive", "exclusive#WithComments", "inclusive", "inclusive#WithComments"}
is_exclusive(alg) == alg \in {"exclusive", "exclusive#WithComments"}
includes_comments(alg) == alg \in {"exclusive#WithComments", "inclusive#WithComments"}

(* Insert or overwrite a binding in its place.                               *)
merge_rendered(bindings, decl) ==
  IF \E i \in DOMAIN bindings : bindings[i][1] = decl[1]
  THEN [i \in DOMAIN bindings |-> IF bindings[i][1] = decl[1] THEN decl ELSE bindings[i]]
  ELSE Append(bindings, decl)

RECURSIVE MergeAll(_, _)
MergeAll(bindings, decls) ==
  IF decls = <<>> THEN bindings ELSE MergeAll(merge_rendered(bindings, Head(decls)), Tail(decls))

namespaces_in_scope(e, ancestors) ==
  MergeAll(<<>>, FlattenSeq([i \in DOMAIN ancestors |-> ancestors[i].decls]) \o e.decls)

(* A mutant: the innermost binding of the URI, whatever the source wrote.    *)
PrefixIgnoringSource(in_scope, uri, is_attribute, source_prefix) ==
  LET hits == {i \in DOMAIN in_scope : in_scope[i][2] = uri
                                       /\ (is_attribute => in_scope[i][1] # "")}
  IN  CASE uri = ""     -> ""
        [] uri = XML_NS -> "xml"
        [] hits = {}    -> "!"
        [] OTHER        -> in_scope[CHOOSE i \in hits : \A j \in hits : j <= i][1]

(* The prefix the source wrote where it is still bound to the URI; for an    *)
(* unprefixed element the default namespace; else the innermost binding.     *)
prefix_for_uri(in_scope, uri, is_attribute, source_prefix) ==
  LET bound(prefix) == \E i \in DOMAIN in_scope : in_scope[i] = <<prefix, uri>>
      hits == {i \in DOMAIN in_scope : in_scope[i][2] = uri
                                       /\ (is_attribute => in_scope[i][1] # "")}
  IN  CASE uri = ""     -> ""
        [] uri = XML_NS -> "xml"
        [] source_prefix # "" /\ bound(source_prefix)             -> source_prefix
        [] source_prefix = "" /\ ~is_attribute /\ bound("")       -> ""
        [] hits = {}    -> "!"
        [] OTHER        -> in_scope[CHOOSE i \in hits : \A j \in hits : j <= i][1]

lookup_in_scope(in_scope, prefix) ==
  {in_scope[i][2] : i \in {j \in DOMAIN in_scope : in_scope[j][1] = prefix}}

(* The prefix of the element's name and of its qualified attributes.         *)
utilized_prefixes(e, in_scope) ==
  {prefix_for_uri(in_scope, e.ns, FALSE, e.source_prefix)} \cup
  {prefix_for_uri(in_scope, e.attrs[i].ns, TRUE, e.attrs[i].source_prefix) :
     i \in {j \in DOMAIN e.attrs : e.attrs[j].ns \notin {"", XML_NS}}}

(* Nothing to render when the output already has the binding, or when no     *)
(* default namespace is there to be cancelled.                               *)
should_render(decl, rendered) ==
  /\ decl # <<"xml", XML_NS>>
  /\ LET prev == lookup_in_scope(rendered, decl[1]) IN
     IF prev = {} THEN decl # <<"", "">> ELSE prev # {decl[2]}

(* The bindings of a set of prefixes; an undeclared default is xmlns="".     *)
BindingsOf(prefixes, in_scope) ==
  {in_scope[i] : i \in {j \in DOMAIN in_scope : in_scope[j][1] \in prefixes}}
  \cup {<<p, "">> : p \in {q \in prefixes : q = "" /\ lookup_in_scope(in_scope, q) = {}}}

compute_exclusive(e, in_scope, rendered, prefix_list) ==
  {decl \in BindingsOf(utilized_prefixes(e, in_scope) \cup prefix_list, in_scope) :
     should_render(decl, rendered)}

(* The apex renders all that is in scope, a descendant what it declares.     *)
compute_inclusive(e, in_scope, rendered, is_apex) ==
  {decl \in IF is_apex THEN {in_scope[i] : i \in DOMAIN in_scope} \ {<<"", "">>}
                       ELSE {e.decls[i] : i \in DOMAIN e.decls} :
     should_render(decl, rendered)}

compute_rendered_namespaces(e, ancestors, rendered, is_apex, alg, prefix_list) ==
  LET in_scope == namespaces_in_scope(e, ancestors) IN
  IF is_exclusive(alg) THEN compute_exclusive(e, in_scope, rendered, prefix_list)
                       ELSE compute_inclusive(e, in_scope, rendered, is_apex)

(* Declarations by prefix (the default first), attributes by URI and name.   *)
ns_sort_key(S) ==
  LET prefixes == SelectSeq(Lexicon, LAMBDA p : \E decl \in S : decl[1] = p)
  IN  [i \in DOMAIN prefixes |-> CHOOSE decl \in S : decl[1] = prefixes[i]]
attr_sort_key(attrs) ==
  SortSeq(attrs, LAMBDA a, b : Before(a.ns, b.ns) \/ (a.ns = b.ns /\ Before(a.local, b.local)))

RECURSIVE emit_canonical(_, _, _, _, _, _)
emit_canonical(e, ancestors, rendered, is_apex, alg, prefix_list) ==
  LET in_scope == namespaces_in_scope(e, ancestors)
      decls == ns_sort_key(compute_rendered_namespaces(e, ancestors, rendered, is_apex,
                                                       alg, prefix_list))
      name == Name(prefix_for_uri(in_scope, e.ns, FALSE, e.source_prefix), e.local)
      sorted == attr_sort_key(e.attrs)
      attrs == [i \in DOMAIN sorted |->
                  [name |-> Name(prefix_for_uri(in_scope, sorted[i].ns, TRUE,
                                                sorted[i].source_prefix), sorted[i].local),
                   value |-> sorted[i].value]]
      node(n) ==
        CASE n.kind = "element" -> emit_canonical(n, Append(ancestors, e),
                                                  MergeAll(rendered, decls), FALSE, alg, prefix_list)
          [] n.kind = "text"    -> [i \in DOMAIN n.text |-> TextRun(<<n.text[i]>>)]
          [] n.kind = "comment" -> IF includes_comments(alg) THEN <<Comment(n.text)>> ELSE <<>>
      content == FlattenSeq([i \in DOMAIN e.children |-> node(e.children[i])])
  IN  IF name.prefix = "!" \/ \E i \in DOMAIN attrs : attrs[i].name.prefix = "!"
      THEN <<Broken>>
      ELSE <<Start(name, decls, attrs)>> \o content \o <<End(name)>>

canonicalize(e, ancestors, alg, prefix_list) ==
  emit_canonical(e, ancestors, <<>>, TRUE, alg, prefix_list)
-----------------------------------------------------------------------------
(* Enveloped signatures on trees with prefixes: signing (src/dsig/sign.rs)   *)
(* and verification (src/dsig/verify.rs, src/dsig/reference.rs). A digest is *)
(* the canonical form itself and a signature value names its key and the     *)
(* form it was made over: the primitives are taken to be ideal.              *)

Digest(canonical) == <<<<"digest", canonical>>>>
Signed(key, canonical) == <<<<"signed", key, canonical>>>>

ds(local, attrs, children) == Elem(DS_NS, local, attrs, children)

-----------------------------------------------------------------------------
(* Signing.                                                                  *)

(* The transforms are enveloped-signature and the canonicalization, with the *)
(* prefix list inside the latter when it is exclusive.                       *)
build_signed_info(alg, id_value, digest, prefix_list) ==
  LET list == Built(EC_NS, "InclusiveNamespaces", <<<<"ec", EC_NS>>>>,
                    <<At("PrefixList", prefix_list)>>, <<>>)
      c14n == ds("Transform", <<At("Algorithm", alg)>>,
                 IF is_exclusive(alg) /\ prefix_list # {} THEN <<list>> ELSE <<>>)
      transforms == ds("Transforms", <<>>, <<ds("Transform", <<At("Algorithm", "enveloped")>>, <<>>), c14n>>)
      reference == ds("Reference", <<At("URI", id_value)>>,
                      <<transforms, ds("DigestValue", <<>>, <<TextNode(digest)>>)>>)
  IN  ds("SignedInfo", <<>>,
         <<ds("CanonicalizationMethod", <<At("Algorithm", alg)>>, <<>>), reference>>)

build_x509_key_info(key) ==
  ds("KeyInfo", <<>>, <<ds("X509Data", <<>>, <<ds("X509Certificate", <<>>, <<TextNode(Chars(key))>>)>>)>>)

build_signature_element(signed_info, value, key) ==
  Built(DS_NS, "Signature", <<<<"ds", DS_NS>>>>, <<>>,
        <<signed_info, ds("SignatureValue", <<>>, <<TextNode(value)>>), build_x509_key_info(key)>>)

clone_with_namespace(e, decl) == [e EXCEPT !.decls = <<decl>> \o @]

(* After the first saml:Issuer, else first.                                  *)
signature_insertion_index(e) ==
  LET issuers == {i \in DOMAIN e.children : /\ e.children[i].kind = "element"
                                            /\ e.children[i].ns = SAML_NS
                                            /\ e.children[i].local = "Issuer"}
  IN  IF issuers = {} THEN 1 ELSE 1 + (CHOOSE i \in issuers : \A j \in issuers : i <= j)

(* sign_element: the target is canonicalized as it stands, without           *)
(* ancestors, and SignedInfo as the root of a document of its own.           *)
sign_element(e, key, alg, prefix_list) ==
  LET id_value == CHOOSE v \in attribute(e, "ID") : TRUE
      digest == Digest(canonicalize(e, <<>>, alg, prefix_list))
      signed_info == build_signed_info(alg, id_value, digest, prefix_list)
      alone == clone_with_namespace(signed_info, <<"ds", DS_NS>>)
      value == Signed(key, canonicalize(alone, <<>>, alg, prefix_list))
  IN  insert_child(e, signature_insertion_index(e), build_signature_element(signed_info, value, key))

-----------------------------------------------------------------------------
(* Verification.                                                             *)

(* A mutant: every signature in the subtree is left out.                     *)
RECURSIVE CloneWithoutSignatures(_, _)
CloneWithoutSignatures(e, excluded) ==
  LET kept == SelectSeq(e.children, LAMBDA n : ~(n.kind = "element" /\ n.local = "Signature"))
  IN  [e EXCEPT !.children = [i \in DOMAIN kept |->
         IF kept[i].kind = "element" THEN CloneWithoutSignatures(kept[i], excluded) ELSE kept[i]]]

(* The subtree without the one signature being verified.                     *)
RECURSIVE clone_excluding_id(_, _)
clone_excluding_id(e, excluded) ==
  LET kept == SelectSeq(e.children, LAMBDA n : ~(n.kind = "element" /\ n.id = excluded))
  IN  [e EXCEPT !.children = [i \in DOMAIN kept |->
         IF kept[i].kind = "element" THEN clone_excluding_id(kept[i], excluded) ELSE kept[i]]]

(* parse_reference: the target, the transforms and the prefix list; "bad"    *)
(* for a transform off the list or a canonicalization that is not last.      *)
AllowedTransforms == {"enveloped"} \cup C14nAlgorithms
parse_reference(doc, reference) ==
  LET group == all_child_elements(reference, DS_NS, "Transforms")
      all == IF group = <<>> THEN <<>> ELSE all_child_elements(group[1], DS_NS, "Transform")
      transforms == [i \in DOMAIN all |-> CHOOSE a \in attribute(all[i], "Algorithm") : TRUE]
      lists == UNION {attribute(l, "PrefixList") :
                        l \in UNION {ToSet(all_child_elements(all[i], EC_NS, "InclusiveNamespaces")) :
                                       i \in DOMAIN all}}
      c14n == {i \in DOMAIN transforms : transforms[i] \in C14nAlgorithms}
      target == UNION {IF uri = "" THEN {<<>>} ELSE element_by_id_attr(doc, uri) :
                         uri \in attribute(reference, "URI")}
  IN  [ok |-> /\ target # {}
              /\ ToSet(transforms) \subseteq AllowedTransforms
              /\ c14n \subseteq {Len(transforms)},
       target |-> target, enveloped |-> "enveloped" \in ToSet(transforms),
       alg |-> IF c14n = {} THEN "exclusive" ELSE transforms[Len(transforms)],
       prefix_list |-> UNION lists]

compute_reference_digest(doc, parsed, signature_id) ==
  LET path == CHOOSE p \in parsed.target : TRUE
      target == ElementAt(root(doc), path)
      pruned == IF parsed.enveloped THEN clone_excluding_id(target, signature_id) ELSE target
  IN  Digest(canonicalize(pruned, ancestor_chain(root(doc), path), parsed.alg, parsed.prefix_list))

(* verify_signature_with: the path of the element the signature covers, if   *)
(* the signature at that path was made with the key.                         *)
verify_signature_with(doc, signature_id, key, allowed_c14n) ==
  LET signature == ElementAt(root(doc), signature_id)
      signed_info == all_child_elements(signature, DS_NS, "SignedInfo")[1]
      alg == CHOOSE a \in attribute(all_child_elements(signed_info, DS_NS, "CanonicalizationMethod")[1],
                                 "Algorithm") : TRUE
      references == all_child_elements(signed_info, DS_NS, "Reference")
      parsed == parse_reference(doc, references[1])
      value == text_content(all_child_elements(signature, DS_NS, "SignatureValue")[1])
      over == canonicalize(signed_info, ancestor_chain(root(doc), signed_info.id), alg, {})
  IN  IF /\ alg \in allowed_c14n
         /\ Len(references) = 1 /\ parsed.ok /\ parsed.alg \in allowed_c14n
         /\ compute_reference_digest(doc, parsed, signature_id)
              = text_content(all_child_elements(references[1], DS_NS, "DigestValue")[1])
         /\ value = Signed(key, over)
      THEN parsed.target ELSE {}
=============================================================================
