--------------------------- MODULE DeliveryContract ---------------------------
(* What a reader is owed of a document, stated from what its writer was      *)
(* given and without any of the steps in between.                            *)
EXTENDS Delivery

Delivered == outcome # <<>>
Got == outcome[1]

(* The instant as the wire can say it.                                       *)
Wire(t) == [t EXCEPT !.nanos = (@ \div 1000000) * 1000000]
WireOpt(opt) == {Wire(t) : t \in opt}

(* An application's own format with a standard URI is the standard one.      *)
Normal(format) == [format EXCEPT !.variant = IF format.uri \in StandardFormats THEN "Standard" ELSE "Custom"]

-----------------------------------------------------------------------------
(* Messages.                                                                 *)

OwedStatement(p) ==
  [authn_instant |-> {Wire(p.instants.authn)}, session_index |-> {p.session_index},
   session_not_on_or_after |-> WireOpt(p.instants.session_end), class_ref |-> {Chars(p.class_ref)}]

OwedConfirmation(p) ==
  [method |-> IF p.holder_of_key_cert = {} THEN "bearer" ELSE "holder-of-key",
   recipient |-> {p.acs}, not_on_or_after |-> {Wire(p.instants.subject_confirmation)},
   not_before |-> {}, in_response_to |-> p.in_response_to,
   keys |-> {Chars(cert) : cert \in p.holder_of_key_cert}]

(* A persistent identifier is scoped to the service provider.                *)
OwedNameId(p) ==
  [p.name_id EXCEPT !.format = Normal(@), !.value = trim(@),
     !.sp_name_qualifier = IF p.name_id.format = Persistent THEN {p.sp} ELSE @]

OwedAssertion(p) ==
  [id |-> p.id, issue_instant |-> {Wire(p.instants.now)}, issuer |-> Chars(p.idp),
   name_id |-> OwedNameId(p), confirmations |-> <<OwedConfirmation(p)>>,
   conditions |-> [not_before |-> {Wire(p.instants.not_before)},
                   not_on_or_after |-> {Wire(p.instants.not_on_or_after)},
                   audience_restrictions |-> <<{Chars(p.sp)}>>, one_time_use |-> FALSE,
                   proxy_restriction |-> {}],
   authn_statements |-> <<OwedStatement(p)>>, attributes |-> p.attributes]

(* The assertion of a successful response, and whose signature each carries. *)
ResponseAsIssued(j, got) ==
  LET p == j.assertion IN
  /\ \A r \in got.response :
       /\ r.destination = {p.acs} /\ r.in_response_to = p.in_response_to
       /\ r.issuer = {Chars(p.idp)} /\ r.status_code = j.status.code
       /\ r.status_message = j.status.message
  /\ got.response # {}
  /\ got.assertion = IF j.status.code = "Success" THEN {OwedAssertion(p)} ELSE {}
  /\ got.response_signed <=> j.response_signer = {"k1"}
  /\ got.assertion_signed <=> j.assertion_signer = {"k1"} /\ j.status.code = "Success"

(* The certificate an identity provider encrypts for, and whether it does.   *)
RsaOf(certs) == {c \in certs : c.family = "RSA"}
Recipient(j) == {c \in RsaOf(j.sp_certs) : \A d \in RsaOf(j.sp_certs) : c.fingerprint <= d.fingerprint}
Encrypts(j) == IF j.force = {} THEN j.when_possible /\ RsaOf(j.sp_certs) # {} ELSE j.force = {TRUE}
Encryptable(j) ==
  /\ RsaOf(j.sp_certs) # {}
  /\ j.transport \in OaepTransports /\ (j.transport = "rsa-oaep-mgf1p" => j.weak_algos)

(* What the recipient opens: its key, algorithms its policy accepts as they  *)
(* were used, and nothing its build cannot do or the standard forbids.       *)
Openable(j, digest, mgf1, mgf1_declared) ==
  /\ \E k \in ToSet(j.keys) : k.family = "RSA" /\ k.name \in {c.name : c \in Recipient(j)}
  /\ j.data_algorithm \in j.policy.data /\ j.transport \in j.policy.transport
  /\ IF j.transport = "rsa-1_5" THEN j.weak_algos
     ELSE /\ digest \in j.policy.oaep_digest /\ mgf1 \in j.policy.mgf1_digest
          /\ "sha1" \in {digest, mgf1} => j.weak_algos
          /\ j.transport = "rsa-oaep-mgf1p" => ~mgf1_declared

OpenableOwn(j) == IF j.transport = "rsa-oaep" THEN Openable(j, "sha256", "sha256", TRUE)
                                              ELSE Openable(j, "sha1", "sha1", FALSE)
OpenablePeer(j) ==
  LET used(declared) == IF declared = {} THEN "sha1" ELSE The(declared)
  IN  Openable(j, used(j.peer.digest), used(j.peer.mgf1), j.peer.mgf1 # {})

(* An assertion that was encrypted is read as if it had not been, its own    *)
(* signature still good, or not at all.                                      *)
EncryptedAsIssued(j, openable, got) ==
  IF openable THEN ResponseAsIssued(j, got) ELSE got.response # {} /\ got.assertion = {}

(* A form longer than the decoder's limit is refused.                        *)
Fits(j) == j.carrier = "SOAP" \/ Len(emit_element(ResponseElement(j))) <= MaxDecoded

(* The answer of an identity provider that reads the ACS differently, or to  *)
(* another exchange, goes nowhere.                                           *)
EcpOwed(j) == /\ j.idp_acs = j.ecp.response_consumer_url
              /\ j.expected_message_id = j.ecp.message_id

OwedMessage(j) ==
  LET p == j.message
      at == {Wire(p.issue_instant)}
  IN
  CASE j.type = "AuthnRequest" ->
         [id |-> p.id, issue_instant |-> at, destination |-> {p.destination},
          issuer |-> Chars(p.issuer), force_authn |-> p.force_authn, is_passive |-> p.is_passive,
          acs_url |-> IF p.acs[1] = "Url" THEN {p.acs[2]} ELSE {},
          acs_index |-> IF p.acs[1] = "Index" THEN {p.acs[2]} ELSE {},
          protocol_binding |-> p.protocol_binding,
          name_id_format |-> {Normal(f) : f \in p.name_id_format},
          authn_context |-> p.authn_context]
    [] j.type = "LogoutRequest" ->
         [id |-> p.id, issue_instant |-> at, destination |-> p.destination,
          not_on_or_after |-> WireOpt(p.not_on_or_after), reason |-> p.reason,
          issuer |-> Chars(p.issuer), name_id |-> [p.name_id EXCEPT !.format = Normal(@)],
          session_index |-> SetToSeq(p.session_index)]
    [] j.type = "LogoutResponse" ->
         [issuer |-> Chars(p.issuer), destination |-> p.destination,
          in_response_to |-> p.in_response_to, message |-> p.message,
          outcome |-> IF p.status \in {"Success", "PartialLogout"} THEN <<p.status>>
                      ELSE <<"Failure", p.status>>]

(* A logout response is read for its outcome.                                *)
AsRead(j, m) ==
  IF j.type # "LogoutResponse" THEN m
  ELSE [issuer |-> m.issuer, destination |-> m.destination, in_response_to |-> m.in_response_to,
        message |-> m.message, outcome |-> to_outcome(m)]

MessageAsSent(j, got) ==
  /\ {AsRead(j, m) : m \in got.message} = {OwedMessage(j)}
  /\ got.relay_state = j.relay_state
  /\ got.signed <=> j.signer = {"k1"}

(* A question the service may answer: one it can tell from its own query,    *)
(* with somewhere to return to that the service provider registered.         *)
Askable(j) ==
  /\ j.request.sp_entity_id # "" /\ ensure_safe_param_name(AwaitedParam(j.request))
  /\ \A pair \in ToSet(j.service.query) : pair[1] \notin KnownParams

Registered(j, url) ==
  \E e \in ToSet(j.endpoints) : e.url.site = url.site /\ e.url.path = url.path

Returnable(j) ==
  IF j.request.return_url = {} THEN j.endpoints # <<>>
  ELSE \A url \in j.request.return_url :
         Registered(j, url) /\ Absolute(url) /\ url.fragment = {} /\ url.userinfo = {}

(* Where the user agent should come back to: the address asked for, or the   *)
(* endpoint flagged as default, if there is any, or the first.               *)
Returns(j) ==
  LET flagged == {e \in ToSet(j.endpoints) : e.is_default} IN
  CASE j.request.return_url # {} -> j.request.return_url
    [] flagged # {}              -> {e.url : e \in flagged}
    [] OTHER                     -> {j.endpoints[1].url}

(* The service knows what was asked; the user agent comes back with the      *)
(* query the address had and the service's choice, which the service         *)
(* provider reads unless the address names another itself.                   *)
DiscoveryAnswered(j, got) ==
  LET param == AwaitedParam(j.request) IN
  /\ got.request = [sp_entity_id |-> j.request.sp_entity_id, return_url |-> j.request.return_url,
                    return_id_param |-> param, is_passive |-> j.request.is_passive]
  /\ \E url \in Returns(j) :
       /\ [got.to EXCEPT !.query = url.query] = [url EXCEPT !.fragment = {}]
       /\ IsPrefix(url.query, got.to.query)
       /\ IF Given(url.query, param) = {} THEN got.read = {[chosen |-> j.chosen]}
          ELSE \A read \in got.read : read.chosen \subseteq Given(url.query, param)

InOrder(s, positions) ==
  LET order == SetToSortSeq(positions, <) IN [k \in DOMAIN order |-> s[order[k]]]

(* The identity providers by their last visit, as many of the latest as fit, *)
(* whether the cookie was cut once or at every visit.                        *)
CookieOwed(j) ==
  LET all == [i \in DOMAIN j.value |-> j.value[i][2]] \o j.visits
      last == {i \in DOMAIN all : \A k \in DOMAIN all : all[k] = all[i] => k <= i}
      kept == {i \in last : EncodedLen(InOrder(all, {k \in last : k >= i})) <= j.max_value_len}
  IN  InOrder(all, kept)

CookieKept(j, got) ==
  /\ got.entity_ids = CookieOwed(j)
  /\ got.most_recent = IF got.entity_ids = <<>> THEN {} ELSE {Last(j.visits)}

(* Every message of either role - built, signed in either place or not at    *)
(* all, serialized, carried by a form, by a query whose endpoint has a query *)
(* of its own and whose pairs a peer may spell and order differently, by a   *)
(* SOAP envelope or through an enhanced client - is read as it was written:  *)
(* no schema, no trimming, no re-rooting and no second signature changes     *)
(* it, a signature counts exactly when the trusted key made it, and a        *)
(* response reaches the service provider through a client only at the        *)
(* address and in the exchange it was asked for; an assertion encrypted for  *)
(* the service provider, by this library or by another one with parameters   *)
(* of its own, is opened exactly when the policy accepts what was used and   *)
(* the key is one the service provider still has. Before any message, the     *)
(* identity provider a discovery service chose is the one the service        *)
(* provider reads, at an address it registered and nowhere else; and the     *)
(* cookie of the common domain holds the latest of the providers visited.    *)
MessageDelivered ==
  Delivered => \A j \in job :
    CASE j.kind = "response" ->
           IF ensure_name_id_sp_qualifier(j.assertion.name_id, j.assertion.sp) /\ Fits(j)
           THEN Got # {} /\ \A got \in Got : ResponseAsIssued(j, got) ELSE Got = {}
      [] j.kind = "encrypted" ->
           IF Encrypts(j) => Encryptable(j)
           THEN Got # {} /\ \A got \in Got : EncryptedAsIssued(j, Encrypts(j) => OpenableOwn(j), got)
           ELSE Got = {}
      [] j.kind = "peer encrypted" ->
           Got # {} /\ \A got \in Got : EncryptedAsIssued(j, OpenablePeer(j), got)
      [] j.kind = "ecp" -> IF EcpOwed(j) THEN Got # {} /\ \A got \in Got : ResponseAsIssued(j, got)
                           ELSE Got = {}
      [] j.kind = "message" -> Got # {} /\ \A got \in Got : MessageAsSent(j, got)
      [] j.kind = "discovery" -> IF Askable(j) /\ Returnable(j)
                                 THEN Got # {} /\ \A got \in Got : DiscoveryAnswered(j, got)
                                 ELSE Got = {}
      [] j.kind = "cookie" -> IF \E token \in ToSet(j.value) : token[1] # "base64" THEN Got = {}
                              ELSE Got # {} /\ \A got \in Got : CookieKept(j, got)
      [] OTHER -> TRUE

-----------------------------------------------------------------------------
(* Metadata.                                                                 *)

Whole(opt) == {[d EXCEPT !.nanos = 0] : d \in opt}
OwedCommon(p) ==
  [entity_id |-> p.entity_id, signing_certs |-> SetToSeq(p.signing_cert),
   encryption_certs |-> SetToSeq(p.encryption_cert),
   name_id_formats |-> [i \in DOMAIN p.name_id_formats |-> Normal(p.name_id_formats[i])],
   slo |-> [i \in DOMAIN p.slo |-> [p.slo[i] EXCEPT !.index = {}, !.is_default = FALSE]],
   valid_until |-> WireOpt(p.valid_until), cache_duration |-> Whole(p.cache_duration)]

OwedEntry(p) ==
  IF p.role = "idp"
  THEN [sp |-> {},
        idp |-> {[common |-> OwedCommon(p), artifact_resolution |-> p.artifact_resolution,
                  sso |-> [i \in DOMAIN p.sso |-> [p.sso[i] EXCEPT !.index = {}, !.is_default = FALSE]],
                  want_authn_requests_signed |-> p.want_authn_requests_signed]}]
  ELSE [idp |-> {},
        sp |-> {[common |-> OwedCommon(p), acs |-> p.acs, discovery |-> p.extras.discovery,
                 authn_requests_signed |-> p.authn_requests_signed,
                 want_assertions_signed |-> p.want_assertions_signed]}]

Owed(j) == LET all == Members(j.root) IN [i \in DOMAIN all |-> OwedEntry(all[i])]

Publishable(j) ==
  \A p \in ToSet(Members(j.root)) : p.role = "idp" =>
    LET services == ToSet(p.artifact_resolution) IN
    /\ \A s \in services : s.binding = "SOAP" /\ s.index # {}
    /\ \A m, n \in DOMAIN p.artifact_resolution :
         m < n => p.artifact_resolution[m].index # p.artifact_resolution[n].index

(* The first of the entries of the role by the name, and none by another.    *)
LookupsFit(entries) ==
  \A id \in UNION {entity_id(entry) : entry \in ToSet(entries)} :
    LET listed == SelectSeq(entries, LAMBDA e : id \in entity_id(e)) IN
    /\ by_entity_id(entries, id) = {listed[1]}
    /\ find_idp(entries, id) = LET idps == SelectSeq(listed, LAMBDA e : e.idp # {})
                               IN  IF idps = <<>> THEN {} ELSE idps[1].idp
    /\ find_sp(entries, id) = LET sps == SelectSeq(listed, LAMBDA e : e.sp # {})
                              IN  IF sps = <<>> THEN {} ELSE sps[1].sp

(* What a party publishes, alone or in an aggregate, signed or not, is what  *)
(* its peers read; the eager reader, the reader of one entity at a time that *)
(* never builds the document, the one over a verified document and a reader  *)
(* that stops early agree on it, however a federation nests its wrappers and *)
(* declares its prefixes; a document is trusted exactly when the trusted key *)
(* signed it; and a lookup finds the entry a scan would find first.          *)
MetadataFaithful ==
  Delivered => \A j \in {k \in job : k.kind = "metadata"} :
    IF ~Publishable(j) THEN Got = {}
    ELSE Got # {} /\ \A got \in Got :
      /\ {read.entities : read \in got.eager} = {Owed(j)}
      /\ got.stream = {Owed(j)} /\ got.first = {SubSeq(Owed(j), 1, 1)}
      /\ got.verified = IF j.signer = {"k1"} THEN got.eager ELSE {}
      /\ got.signed_stream = IF j.signer = {"k1"} THEN {Owed(j)} ELSE {}
      /\ LookupsFit(Owed(j))

-----------------------------------------------------------------------------
(* Canonical forms.                                                          *)

(* What an element says: its names with the prefixes the source wrote, its   *)
(* attributes in no order, its characters in one run, and no comments.       *)
RECURSIVE Content(_)
Content(e) ==
  LET inked == SelectSeq(e.children, LAMBDA n : n.kind # "comment") IN
  [name |-> <<e.ns, e.local, e.source_prefix>>,
   attrs |-> {<<a.ns, a.local, a.source_prefix, a.value>> : a \in ToSet(e.attrs)},
   content |-> FlattenSeq([i \in DOMAIN inked |->
                 IF inked[i].kind = "element" THEN <<<<"element", Content(inked[i])>>>>
                 ELSE inked[i].text])]

(* A canonical form reads as the element it was made of, with the prefixes   *)
(* the source wrote even where several are bound to one URI, rebound or      *)
(* cancelled; it is its own canonical form; and the exclusive form does not  *)
(* change when the document is put into another one that declares prefixes.  *)
CanonicalFaithful ==
  Delivered => \A j \in {k \in job : k.kind = "canonical"} : \A got \in Got :
    /\ {Content(e) : e \in got.reread} = {Content(got.element)}
    /\ \A e \in got.reread : canonicalize(e, <<>>, j.alg, {}) = got.form
    /\ is_exclusive(j.alg) => got.moved = got.form

-----------------------------------------------------------------------------
(* Instants.                                                                 *)

(* The calendar by counting: leap days since the epoch and days in the year. *)
LeapYear(y) == \/ y % 400 = 0
               \/ y % 4 = 0 /\ y % 100 # 0
MonthLengths(y) == <<31, IF LeapYear(y) THEN 29 ELSE 28, 31, 30, 31, 30, 31, 31, 30, 31, 30, 31>>
DayCount(y, m, d) ==
  LET before[k \in 0..(m - 1)] == IF k = 0 THEN 0 ELSE before[k - 1] + MonthLengths(y)[k]
  IN  365 * (y - 1970) + Cardinality({x \in 1970..(y - 1) : LeapYear(x)}) + before[m - 1] + d - 1

SecondOf(text) == text.hour * 3600 + text.minute * 60 - text.offset * 60
                  + IF text.second = 60 THEN 59 ELSE text.second

(* A time of day and an offset that can be written, a date that exists, and  *)
(* no instant before the epoch.                                              *)
Denotes(text) ==
  /\ text.month \in 1..12 /\ text.day \in 1..MonthLengths(text.year)[text.month]
  /\ text.hour < 24 /\ text.minute < 60 /\ text.second <= 60
  /\ DayCount(text.year, text.month, text.day) * 24 + SecondOf(text) \div 3600 >= 0

(* A text is read as the instant a calendar counts for it, in every offset,  *)
(* and refused exactly when it denotes none; an instant that is written and  *)
(* read again is the same to the millisecond, never later.                   *)
InstantsFaithful ==
  Delivered => \A j \in job :
    CASE j.kind = "text" ->
           IF Denotes(j.text)
           THEN LET days == DayCount(j.text.year, j.text.month, j.text.day)
                    second == SecondOf(j.text)
                IN  {<<t.day, t.sec>> : t \in Got} = {<<days + second \div 86400, second % 86400>>}
           ELSE Got = {}
      [] j.kind = "clock" -> Got = {Wire(j.instant)}
      [] OTHER -> TRUE
=============================================================================
