-------------------------------- MODULE XmlTree --------------------------------
(* XML with prefixes: the tree builder over reader events (src/xml/parse.rs) *)
(* and the serializer back to events (src/xml/emit.rs). A namespace "" is    *)
(* none, a prefix "" is none (the default namespace for elements); character *)
(* data is a sequence of fragments. An element is known by its path, the     *)
(* child positions from the root (Document::paths). Then what is asked of    *)
(* every document: its shape, and the instants in its attributes.            *)
EXTENDS Sequences, SequencesExt, Integers, FiniteSets

XML_NS     == "xml-ns"
SAMLP_NS   == "samlp-ns"
SAML_NS    == "saml-ns"
DS_NS      == "ds-ns"
EC_NS      == "ec-ns"
MD_NS      == "md-ns"
SOAP_NS    == "soap-ns"
IDPDISC_NS == "idpdisc-ns"

(* Character data: a word, or a run of white space.                          *)
Chars(word) == <<<<"chars", word>>>>
Blank == <<<<"blank">>>>

(* str::trim.                                                                *)
trim(text) ==
  LET ink == {i \in DOMAIN text : <<text[i]>> # Blank}
  IN  IF ink = {} THEN <<>>
      ELSE SubSeq(text, Min(ink), Max(ink))

(* The string a one-word text stands for.                                    *)
Word(text) == text[1][2]

(* The member of an option that is known to be there.                        *)
The(opt) == CHOOSE x \in opt : TRUE

-----------------------------------------------------------------------------
(* Reader events, as configure_reader has them: empty elements apart from    *)
(* start and end tags, white space kept.                                     *)

Name(prefix, local) == [prefix |-> prefix, local |-> local]
Tag(ev, name, decls, attrs) == [ev |-> ev, name |-> name, decls |-> decls, attrs |-> attrs]
Start(name, decls, attrs) == Tag("Start", name, decls, attrs)
Empty(name, decls, attrs) == Tag("Empty", name, decls, attrs)
End(name) == [ev |-> "End", name |-> name]
TextRun(fragments) == [ev |-> "Text", text |-> fragments]
Comment(text) == [ev |-> "Comment", text |-> text]
Broken == [ev |-> "Error"]     \* what a failed serialization leaves

-----------------------------------------------------------------------------
(* Parsing.                                                                  *)

(* A layer is the sequence of <<prefix, uri>> declared on one start tag. The *)
(* innermost layer and in it the last declaration of the prefix wins; the    *)
(* result "" is no namespace.                                                *)
resolve_prefix(ns_stack, prefix) ==
  LET flat == FlattenSeq(ns_stack)
      hits == {i \in DOMAIN flat : flat[i][1] = prefix}
  IN  CASE prefix = "xml" -> XML_NS
        [] hits = {}      -> ""
        [] OTHER          -> flat[Max(hits)][2]

resolve_qname(name, ns_stack, is_attribute) ==
  IF is_attribute /\ name.prefix = "" THEN "" ELSE resolve_prefix(ns_stack, name.prefix)

Unbound(name, ns_stack) == name.prefix # "" /\ resolve_prefix(ns_stack, name.prefix) = ""

IsId(attr) == \/ attr.ns = "" /\ attr.local = "ID"
              \/ attr.ns = XML_NS /\ attr.local = "id"

(* TreeBuilder: the open elements, the namespace layers, the ID index, the   *)
(* finished root, the nodes counted, and why it has failed.                  *)
NewBuilder(seed) ==
  [stack |-> <<>>, ns_stack |-> seed, ids |-> {}, root |-> {}, nodes |-> 0,
   pending_text |-> <<>>, error |-> ""]

(* The seed is one layer of scope: no element declares it.                   *)
with_seed_scope(decls) == NewBuilder(<<decls>>)

Fail(b, why) == [b EXCEPT !.error = why]

bump_nodes(b, limits) ==
  IF b.nodes + 1 > limits.max_total_nodes THEN Fail(b, "max nodes exceeded")
  ELSE [b EXCEPT !.nodes = @ + 1]

(* A node becomes the last child of the innermost open element. This and the *)
(* next steps are skipped once the builder has failed.                       *)
AppendChild(b, node) ==
  IF b.error # "" THEN b ELSE [b EXCEPT !.stack[Len(b.stack)].children = Append(@, node)]

push_text(b, text, limits) ==
  IF b.stack = <<>> THEN b
  ELSE AppendChild(bump_nodes(b, limits), [kind |-> "text", text |-> text])

flush_text(b, limits) ==
  IF b.pending_text = <<>> THEN b
  ELSE push_text([b EXCEPT !.pending_text = <<>>], b.pending_text, limits)

(* The element of a start tag, its own declarations in scope for its own     *)
(* name and attributes.                                                      *)
ElementOf(tag, ns_stack, path) ==
  [kind |-> "element", ns |-> resolve_qname(tag.name, ns_stack, FALSE),
   local |-> tag.name.local, source_prefix |-> tag.name.prefix, decls |-> tag.decls,
   attrs |-> [i \in DOMAIN tag.attrs |->
                [ns |-> resolve_qname(tag.attrs[i].name, ns_stack, TRUE),
                 local |-> tag.attrs[i].name.local,
                 source_prefix |-> tag.attrs[i].name.prefix, value |-> tag.attrs[i].value]],
   children |-> <<>>, id |-> path]

NextPath(stack) == IF stack = <<>> THEN <<>> ELSE Append(Last(stack).id, Len(Last(stack).children) + 1)

IdAttrs(element) == {i \in DOMAIN element.attrs : IsId(element.attrs[i])}
DuplicateId(b, element) ==
  \/ \E i \in IdAttrs(element) : \E known \in b.ids : known[1] = element.attrs[i].value
  \/ \E i, j \in IdAttrs(element) : i # j /\ element.attrs[i].value = element.attrs[j].value

Push(b, element) ==
  [b EXCEPT !.ns_stack = Append(@, element.decls), !.stack = Append(@, element),
            !.ids = @ \cup {<<element.attrs[i].value, element.id>> : i \in IdAttrs(element)}]

OpenUnlessDuplicate(b, element) ==
  IF DuplicateId(b, element) THEN Fail(b, "duplicate ID") ELSE Push(b, element)

open_element(b, tag, limits) ==
  LET ns_stack == Append(b.ns_stack, tag.decls)
      names == {tag.name} \cup {tag.attrs[i].name : i \in DOMAIN tag.attrs}
  IN  CASE b.error # "" -> b
        [] Len(tag.decls) + Len(tag.attrs) > limits.max_attribute_count
             -> Fail(b, "max attributes per element exceeded")
        [] \E name \in names : Unbound(name, ns_stack) -> Fail(b, "unbound namespace prefix")
        [] OTHER -> OpenUnlessDuplicate(b, ElementOf(tag, ns_stack, NextPath(b.stack)))

(* The innermost open element goes to its parent, or becomes the root.       *)
Attach(b, element) ==
  CASE b.stack # <<>> -> AppendChild(b, element)
    [] b.root # {}    -> Fail(b, "multiple root elements not allowed")
    [] OTHER          -> [b EXCEPT !.root = {element}]

close_element(b) ==
  IF b.error # "" THEN b
  ELSE Attach([b EXCEPT !.stack = Front(@), !.ns_stack = Front(@)], Last(b.stack))

DepthChecked(b, limits) ==
  IF Len(b.stack) > limits.max_depth THEN Fail(b, "max depth exceeded") ELSE b

feed_structural(b, event, limits) ==
  CASE b.error # "" -> b
    [] event.ev = "Empty" -> close_element(open_element(bump_nodes(b, limits), event, limits))
    [] event.ev = "Start" -> DepthChecked(open_element(bump_nodes(b, limits), event, limits), limits)
    [] event.ev = "End" ->
         CASE b.stack = <<>> -> Fail(b, "unmatched end tag")
           [] Last(b.stack).local # event.name.local -> Fail(b, "end tag mismatch")
           [] OTHER -> close_element(b)
    [] event.ev = "Comment" ->
         IF b.stack = <<>> THEN bump_nodes(b, limits)
         ELSE AppendChild(bump_nodes(b, limits), [kind |-> "comment", text |-> event.text])
    [] OTHER -> Fail(b, "not allowed")

(* Character data is gathered into one run; anything else ends the run.      *)
feed(b, event, limits) ==
  CASE b.error # "" -> b
    [] event.ev = "Text" ->
         IF Len(b.pending_text) + Len(event.text) > limits.max_text_length
         THEN Fail(b, "max text length exceeded")
         ELSE [b EXCEPT !.pending_text = @ \o event.text]
    [] OTHER -> feed_structural(flush_text(b, limits), event, limits)

finish(b) ==
  CASE b.error # ""    -> b
    [] b.stack # <<>>  -> Fail(b, "unclosed element at EOF")
    [] b.root = {}     -> Fail(b, "empty document")
    [] OTHER           -> b

RECURSIVE ParseFrom(_, _, _)
ParseFrom(builder, events, limits) ==
  IF events = <<>> THEN finish(builder)
  ELSE ParseFrom(feed(builder, Head(events), limits), Tail(events), limits)

parse(events, limits) == ParseFrom(NewBuilder(<<>>), events, limits)

Parsed(b) == b.error = ""
root(b) == CHOOSE e \in b.root : TRUE

-----------------------------------------------------------------------------
(* Reading an element.                                                       *)

child_elements(e) == SelectSeq(e.children, LAMBDA n : n.kind = "element")
all_child_elements(e, ns, local) ==
  SelectSeq(child_elements(e), LAMBDA n : n.ns = ns /\ n.local = local)
child_element(e, ns, local) ==
  LET all == all_child_elements(e, ns, local) IN IF all = <<>> THEN {} ELSE {all[1]}

(* The value of an unqualified attribute.                                    *)
attribute(e, local) ==
  {e.attrs[i].value : i \in {j \in DOMAIN e.attrs : e.attrs[j].ns = "" /\ e.attrs[j].local = local}}

(* The text between the child elements, not the text inside them.            *)
text_content(e) == FlattenSeq([i \in DOMAIN e.children |->
                     IF e.children[i].kind = "text" THEN e.children[i].text ELSE <<>>])

element_by_id_attr(b, value) == {known[2] : known \in {k \in b.ids : k[1] = value}}

(* The chain root .. parent of the element at a path, and the element.       *)
RECURSIVE ElementAt(_, _)
ElementAt(e, path) == IF path = <<>> THEN e ELSE ElementAt(e.children[Head(path)], Tail(path))
ancestor_chain(e, path) ==
  [i \in 1..Len(path) |-> ElementAt(e, SubSeq(path, 1, i - 1))]

-----------------------------------------------------------------------------
(* Building and serializing.                                                 *)

(* A built element has no source prefix; identities come with the document.  *)
At(local, value) == [ns |-> "", local |-> local, source_prefix |-> "", value |-> value]
OptAt(local, opt) == IF opt = {} THEN <<>> ELSE <<At(local, The(opt))>>

Built(ns, local, decls, attrs, children) ==
  [kind |-> "element", ns |-> ns, local |-> local, source_prefix |-> "", decls |-> decls,
   attrs |-> attrs, children |-> children, id |-> <<>>]

TextNode(fragments) == [kind |-> "text", text |-> fragments]

Elem(ns, local, attrs, children) == Built(ns, local, <<>>, attrs, children)
TextElem(ns, local, text) == Elem(ns, local, <<>>, <<TextNode(text)>>)

insert_child(e, i, node) == [e EXCEPT !.children = InsertAt(@, i, node)]

(* The most recent declaration of the URI, whether or not its prefix has     *)
(* been declared again since; "!" when there is none.                        *)
ResolveForEmit(uri, ns_stack, named_only) ==
  LET flat == FlattenSeq(ns_stack)
      hits == {i \in DOMAIN flat : flat[i][2] = uri /\ (named_only => flat[i][1] # "")}
  IN  CASE uri = ""     -> ""
        [] uri = XML_NS -> "xml"
        [] hits = {}    -> "!"
        [] OTHER        -> flat[Max(hits)][1]

resolve_prefix_for_emit(uri, ns_stack) == ResolveForEmit(uri, ns_stack, FALSE)
resolve_prefix_for_attribute(uri, ns_stack) == ResolveForEmit(uri, ns_stack, TRUE)

RECURSIVE emit_element_inner(_, _)
emit_element_inner(e, above) ==
  LET ns_stack == Append(above, e.decls)
      name == Name(resolve_prefix_for_emit(e.ns, ns_stack), e.local)
      attrs == [i \in DOMAIN e.attrs |->
                  [name |-> Name(resolve_prefix_for_attribute(e.attrs[i].ns, ns_stack),
                                 e.attrs[i].local),
                   value |-> e.attrs[i].value]]
      node(n) == CASE n.kind = "element" -> emit_element_inner(n, ns_stack)
                   [] n.kind = "text"    -> <<TextRun(n.text)>>
                   [] n.kind = "comment" -> <<Comment(n.text)>>
      content == FlattenSeq([i \in DOMAIN e.children |-> node(e.children[i])])
  IN  CASE name.prefix = "!" \/ \E i \in DOMAIN attrs : attrs[i].name.prefix = "!" -> <<Broken>>
        [] e.children = <<>> -> <<Empty(name, e.decls, attrs)>>
        [] OTHER -> <<Start(name, e.decls, attrs)>> \o content \o <<End(name)>>

emit_element(e) == emit_element_inner(e, <<>>)

-----------------------------------------------------------------------------
(* The structural gate every inbound message passes before anything else     *)
(* (src/schema.rs): the catalogue of shapes and the walker over them.        *)

SAMLP(local) == <<SAMLP_NS, local>>
SAML(local)  == <<SAML_NS, local>>

(* ElementShape: the name, the required attributes (the optional ones bind   *)
(* nothing), the ordered slots for children, and the namespaces whose        *)
(* elements may stand anywhere unshaped. "Any" has no child constraint.      *)
ElementShape(qname, required, model, slots, wildcard_namespaces) ==
  [qname |-> qname, required |-> required, model |-> model, slots |-> slots,
   wildcard_namespaces |-> wildcard_namespaces]

(* ChildShape: at least `min` of them; their own shape, if they have one.    *)
ChildShape(qname, min, shape) == [qname |-> qname, min |-> min, shape |-> shape]
Shaped(min, shape) == ChildShape(shape.qname, min, {shape})
Opaque(qname) == ChildShape(qname, 0, {})

AnyContent(qname) == ElementShape(qname, {}, "Any", <<>>, {})
Seq_(qname, required, slots) == ElementShape(qname, required, "Sequence", slots, {})
Extensible(qname, required, slots) ==
  ElementShape(qname, required, "Sequence", slots, {SAML_NS})

SignatureSlot == Opaque(<<DS_NS, "Signature">>)
MessageAttributes == {"ID", "Version", "IssueInstant"}

SHAPE_ISSUER == AnyContent(SAML("Issuer"))
SHAPE_NAMEID == AnyContent(SAML("NameID"))
SHAPE_STATUS_CODE ==
  Seq_(SAMLP("StatusCode"), {"Value"}, <<Opaque(SAMLP("StatusCode"))>>)
SHAPE_STATUS_MESSAGE == AnyContent(SAMLP("StatusMessage"))
SHAPE_STATUS_DETAIL == AnyContent(SAMLP("StatusDetail"))
SHAPE_STATUS ==
  Seq_(SAMLP("Status"), {},
       <<Shaped(1, SHAPE_STATUS_CODE), Shaped(0, SHAPE_STATUS_MESSAGE),
         Shaped(0, SHAPE_STATUS_DETAIL)>>)

SHAPE_AUDIENCE == AnyContent(SAML("Audience"))
SHAPE_AUDIENCE_RESTRICTION ==
  Seq_(SAML("AudienceRestriction"), {}, <<Shaped(1, SHAPE_AUDIENCE)>>)
SHAPE_ONE_TIME_USE == Seq_(SAML("OneTimeUse"), {}, <<>>)
SHAPE_PROXY_RESTRICTION == Seq_(SAML("ProxyRestriction"), {}, <<Shaped(0, SHAPE_AUDIENCE)>>)
SHAPE_CONDITIONS ==
  Extensible(SAML("Conditions"), {},
       <<Shaped(0, SHAPE_AUDIENCE_RESTRICTION), Shaped(0, SHAPE_ONE_TIME_USE),
         Shaped(0, SHAPE_PROXY_RESTRICTION)>>)

SHAPE_SUBJECT_CONFIRMATION_DATA == AnyContent(SAML("SubjectConfirmationData"))
SHAPE_SUBJECT_CONFIRMATION ==
  Seq_(SAML("SubjectConfirmation"), {"Method"},
       <<Shaped(0, SHAPE_NAMEID), Shaped(0, SHAPE_SUBJECT_CONFIRMATION_DATA)>>)
SHAPE_SUBJECT ==
  Extensible(SAML("Subject"), {},
       <<Shaped(0, SHAPE_NAMEID), Shaped(0, SHAPE_SUBJECT_CONFIRMATION)>>)

SHAPE_AUTHN_CONTEXT_CLASS_REF == AnyContent(SAML("AuthnContextClassRef"))
SHAPE_AUTHN_CONTEXT_DECL_REF == AnyContent(SAML("AuthnContextDeclRef"))
SHAPE_AUTHN_CONTEXT_DECL == AnyContent(SAML("AuthnContextDecl"))
SHAPE_AUTHENTICATING_AUTHORITY == AnyContent(SAML("AuthenticatingAuthority"))
SHAPE_AUTHN_CONTEXT ==
  Seq_(SAML("AuthnContext"), {},
       <<Shaped(0, SHAPE_AUTHN_CONTEXT_CLASS_REF), Shaped(0, SHAPE_AUTHN_CONTEXT_DECL),
         Shaped(0, SHAPE_AUTHN_CONTEXT_DECL_REF), Shaped(0, SHAPE_AUTHENTICATING_AUTHORITY)>>)
SHAPE_SUBJECT_LOCALITY == Seq_(SAML("SubjectLocality"), {}, <<>>)
SHAPE_AUTHN_STATEMENT ==
  Seq_(SAML("AuthnStatement"), {"AuthnInstant"},
       <<Shaped(0, SHAPE_SUBJECT_LOCALITY), Shaped(1, SHAPE_AUTHN_CONTEXT)>>)

SHAPE_ATTRIBUTE_VALUE == AnyContent(SAML("AttributeValue"))
SHAPE_ATTRIBUTE == Seq_(SAML("Attribute"), {"Name"}, <<Shaped(0, SHAPE_ATTRIBUTE_VALUE)>>)
SHAPE_ATTRIBUTE_STATEMENT ==
  Seq_(SAML("AttributeStatement"), {},
       <<Shaped(1, SHAPE_ATTRIBUTE), Opaque(SAML("EncryptedAttribute"))>>)

SHAPE_ASSERTION ==
  Extensible(SAML("Assertion"), MessageAttributes,
       <<Shaped(1, SHAPE_ISSUER), SignatureSlot, Shaped(0, SHAPE_SUBJECT),
         Shaped(0, SHAPE_CONDITIONS), Opaque(SAML("Advice")),
         Shaped(0, SHAPE_AUTHN_STATEMENT), Shaped(0, SHAPE_ATTRIBUTE_STATEMENT)>>)

SHAPE_EXTENSIONS == AnyContent(SAMLP("Extensions"))
SHAPE_RESPONSE ==
  Seq_(SAMLP("Response"), MessageAttributes,
       <<Shaped(0, SHAPE_ISSUER), SignatureSlot, Shaped(0, SHAPE_EXTENSIONS),
         Shaped(1, SHAPE_STATUS), Shaped(0, SHAPE_ASSERTION),
         Opaque(SAML("EncryptedAssertion"))>>)

SHAPE_NAMEID_POLICY == Seq_(SAMLP("NameIDPolicy"), {}, <<>>)
SHAPE_REQUESTED_AUTHN_CONTEXT ==
  Seq_(SAMLP("RequestedAuthnContext"), {},
       <<Shaped(0, SHAPE_AUTHN_CONTEXT_CLASS_REF), Shaped(0, SHAPE_AUTHN_CONTEXT_DECL_REF)>>)
SHAPE_SCOPING == AnyContent(SAMLP("Scoping"))
SHAPE_REQUEST_CONDITIONS == AnyContent(SAMLP("Conditions"))
SHAPE_AUTHN_REQUEST ==
  Seq_(SAMLP("AuthnRequest"), MessageAttributes,
       <<Shaped(0, SHAPE_ISSUER), SignatureSlot, Shaped(0, SHAPE_EXTENSIONS),
         Shaped(0, SHAPE_SUBJECT), Shaped(0, SHAPE_NAMEID_POLICY),
         Shaped(0, SHAPE_REQUEST_CONDITIONS), Shaped(0, SHAPE_REQUESTED_AUTHN_CONTEXT),
         Shaped(0, SHAPE_SCOPING)>>)

SHAPE_SESSION_INDEX == AnyContent(SAMLP("SessionIndex"))
SHAPE_LOGOUT_REQUEST ==
  Extensible(SAMLP("LogoutRequest"), MessageAttributes,
       <<Shaped(0, SHAPE_ISSUER), SignatureSlot, Shaped(0, SHAPE_EXTENSIONS),
         Shaped(0, SHAPE_NAMEID), Shaped(0, SHAPE_SESSION_INDEX)>>)
SHAPE_LOGOUT_RESPONSE ==
  Seq_(SAMLP("LogoutResponse"), MessageAttributes,
       <<Shaped(0, SHAPE_ISSUER), SignatureSlot, Shaped(0, SHAPE_EXTENSIONS),
         Shaped(1, SHAPE_STATUS)>>)

-----------------------------------------------------------------------------
(* The walker.                                                               *)

RECURSIVE validate_against_shape(_, _)

(* The first slot with the child's name, 0 if there is none.                 *)
matched_slot(child, slots) ==
  LET fits == {i \in DOMAIN slots : slots[i].qname = <<child.ns, child.local>>}
  IN  IF fits = {} THEN 0 ELSE CHOOSE i \in fits : \A j \in fits : i <= j

(* The cursor over the slots never goes back, an unlisted child must come    *)
(* from a wildcard namespace, listed children satisfy their own shape, and   *)
(* every slot is filled as often as it has to be.                            *)
walk_sequence(parent, slots, wildcard_namespaces) ==
  LET kids == child_elements(parent)
      slot == [k \in DOMAIN kids |-> matched_slot(kids[k], slots)]
      listed == {k \in DOMAIN kids : slot[k] # 0}
  IN  /\ \A k \in DOMAIN kids \ listed : kids[k].ns \in wildcard_namespaces
      /\ \A j, k \in listed : j < k => slot[j] <= slot[k]
      /\ \A k \in listed : \A shape \in slots[slot[k]].shape :
           validate_against_shape(kids[k], shape)
      /\ \A i \in DOMAIN slots : Cardinality({k \in listed : slot[k] = i}) >= slots[i].min

validate_against_shape(element, shape) ==
  /\ <<element.ns, element.local>> = shape.qname
  /\ \A name \in shape.required : attribute(element, name) # {}
  /\ shape.model = "Sequence" =>
       walk_sequence(element, shape.slots, shape.wildcard_namespaces)
-----------------------------------------------------------------------------
(* xs:dateTime parsing and emission (src/time.rs). A text is the record of   *)
(* its fields: [year, month, day, hour, minute, second, fraction : digits,   *)
(* offset : minutes east of UTC, 0 for Z and for no designator]. A           *)
(* SystemTime is [day, sec, nanos]: days since the epoch, the second of the  *)
(* day and the nanoseconds in it. An option is a set of at most one.         *)

DaySeconds == 86400

(* A mutant: the Julian rule.                                                *)
EveryFourthYear(y) == y % 4 = 0

is_leap_year(y) == (y % 4 = 0 /\ y % 100 # 0) \/ y % 400 = 0

days_in_month(year, month) ==
  CASE month \in {1, 3, 5, 7, 8, 10, 12} -> 31
    [] month \in {4, 6, 9, 11} -> 30
    [] month = 2 -> IF is_leap_year(year) THEN 29 ELSE 28

(* Days since 1970-01-01 of a civil date, none if there is no such date. The *)
(* year is counted from March, so that the leap day ends it.                 *)
days_from_civil(year, m, d) ==
  IF m \notin 1..12 \/ d \notin 1..days_in_month(year, m) THEN {}
  ELSE LET y == IF m <= 2 THEN year - 1 ELSE year
           era == y \div 400
           yoe == y - era * 400
           doy == (153 * (IF m > 2 THEN m - 3 ELSE m + 9) + 2) \div 5 + d - 1
           doe == yoe * 365 + yoe \div 4 - yoe \div 100 + doy
       IN  {era * 146097 + doe - 719468}

(* Its inverse: the date of a day count.                                     *)
civil_from_days(days) ==
  LET z == days + 719468
      era == z \div 146097
      doe == z - era * 146097
      yoe == (doe - doe \div 1460 + doe \div 36524 - doe \div 146096) \div 365
      doy == doe - (365 * yoe + yoe \div 4 - yoe \div 100)
      mp == (5 * doy + 2) \div 153
      m == IF mp < 10 THEN mp + 3 ELSE mp - 9
      y == yoe + era * 400
  IN  [year |-> IF m <= 2 THEN y + 1 ELSE y, month |-> m,
       day |-> doy - (153 * mp + 2) \div 5 + 1]

(* The digits, cut at nine or filled with zeros, read as one number.         *)
parse_fraction_to_nanos(digits) ==
  LET digit(i) == IF i \in DOMAIN digits THEN digits[i] ELSE 0
      f[i \in 0..9] == IF i = 0 THEN 0 ELSE 10 * f[i - 1] + digit(i)
  IN  f[9]

(* The offset is within 14 hours and 59 minutes.                             *)
split_offset(offset) == offset \in -899..899

parse_xs_datetime(text) ==
  LET days == days_from_civil(text.year, text.month, text.day)
      second == IF text.second > 59 THEN 59 ELSE text.second
      local == text.hour * 3600 + text.minute * 60 + second - text.offset * 60
      instants == {[day |-> day + local \div DaySeconds, sec |-> local % DaySeconds,
                    nanos |-> parse_fraction_to_nanos(text.fraction)] : day \in days}
  IN  IF /\ text.year \in 1..9999 /\ text.month \in 1..12 /\ text.day \in 1..31
         /\ split_offset(text.offset)
         /\ text.hour <= 23 /\ text.minute <= 59 /\ text.second <= 60
      THEN {t \in instants : t.day >= 0}     \* none before the epoch
      ELSE {}

(* UTC, with three digits of fraction if there is any.                       *)
format_xs_datetime(t) ==
  LET civil == civil_from_days(t.day)
      millis == t.nanos \div 1000000
  IN  [year |-> civil.year, month |-> civil.month, day |-> civil.day,
       hour |-> t.sec \div 3600, minute |-> (t.sec % 3600) \div 60, second |-> t.sec % 60,
       fraction |-> IF t.nanos = 0 THEN <<>>
                    ELSE <<millis \div 100, (millis \div 10) % 10, millis % 10>>,
       offset |-> 0]
=============================================================================
