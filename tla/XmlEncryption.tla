----------------------------- MODULE XmlEncryption -----------------------------
(* Encrypted assertions and identifiers: writing (src/xmlenc/encrypt.rs) and *)
(* reading (src/xmlenc/decrypt.rs). The ciphers are ideal: data opens with   *)
(* its algorithm and session key, a wrapped key with the private half of the *)
(* certificate and the padding it was wrapped with. A certificate or a key   *)
(* is [name, family]; a text a cipher leaves is one fragment.                *)
EXTENDS Bindings

XENC_NS   == "xenc-ns"
XENC11_NS == "xenc11-ns"

DataEncryptionAlgorithms == {"aes128-cbc", "aes256-cbc", "aes128-gcm", "aes256-gcm"}
key_size(alg) == IF alg \in {"aes128-cbc", "aes128-gcm"} THEN 16 ELSE 32

OaepTransports == {"rsa-oaep", "rsa-oaep-mgf1p"}
OaepDigests == {"sha1", "sha256", "sha384", "sha512"}

(* What a build can name and do: PKCS #1 v1.5, and SHA-1 in a padding, come  *)
(* with the weak-algos feature. A padding is <<digest, mgf1>>, or <<>>.      *)
KeyTransports(weak_algos) == OaepTransports \cup (IF weak_algos THEN {"rsa-1_5"} ELSE {})
oaep_padding(padding, weak_algos) == weak_algos \/ \A i \in DOMAIN padding : padding[i] # "sha1"

(* PeerCryptoPolicy: what a reader accepts of a peer.                        *)
strong_defaults ==
  [data |-> {"aes128-gcm", "aes256-gcm"}, transport |-> {"rsa-oaep"},
   oaep_digest |-> OaepDigests \ {"sha1"}, mgf1_digest |-> OaepDigests]

-----------------------------------------------------------------------------
(* Writing.                                                                  *)

xenc(local, attrs, children) == Elem(XENC_NS, local, attrs, children)
CipherData(value) == xenc("CipherData", <<>>, <<TextElem(XENC_NS, "CipherValue", value)>>)
Hashed(ns, local, hash) ==
  [i \in 1..Cardinality(hash) |-> Elem(ns, local, <<At("Algorithm", The(hash))>>, <<>>)]

(* The digest and the mask generation function a key method declares.        *)
key_encryption_method(transport, digest, mgf1) ==
  xenc("EncryptionMethod", <<At("Algorithm", transport)>>,
       Hashed(DS_NS, "DigestMethod", digest) \o Hashed(XENC11_NS, "MGF", mgf1))

build_key_transport_encryption_method(transport) ==
  CASE transport = "rsa-oaep"       -> key_encryption_method(transport, {"sha256"}, {"sha256"})
    [] transport = "rsa-oaep-mgf1p" -> key_encryption_method(transport, {"sha1"}, {})

(* All prefixes are declared on the wrapper, xenc11 if it is used.           *)
build_encrypted_element(local, data_algorithm, key_em, wrapped_key, cipher) ==
  LET encrypted_key == xenc("EncryptedKey", <<>>, <<key_em, CipherData(wrapped_key)>>)
      encrypted_data ==
        xenc("EncryptedData", <<At("Type", "Element")>>,
             <<xenc("EncryptionMethod", <<At("Algorithm", data_algorithm)>>, <<>>),
               Elem(DS_NS, "KeyInfo", <<>>, <<encrypted_key>>), CipherData(cipher)>>)
      mgf_decl == IF child_element(key_em, XENC11_NS, "MGF") = {} THEN <<>>
                  ELSE <<<<"xenc11", XENC11_NS>>>>
  IN  Built(SAML_NS, local,
            <<<<"saml", SAML_NS>>, <<"xenc", XENC_NS>>, <<"ds", DS_NS>>>> \o mgf_decl, <<>>,
            <<encrypted_data>>)

SessionKey(data_algorithm) == <<"session", key_size(data_algorithm)>>
encrypt_data(data_algorithm, session, xml) == <<<<"data", data_algorithm, session, xml>>>>
wrap_session_key(cert, padding, session) == <<<<"wrapped", cert.name, padding, session>>>>

(* The padding of an outbound transport, if the build can write it.          *)
OutboundPadding(transport, weak_algos) ==
  CASE transport = "rsa-oaep"       -> {<<"sha256", "sha256">>}
    [] transport = "rsa-oaep-mgf1p" -> IF weak_algos THEN {<<"sha1", "sha1">>} ELSE {}
    [] OTHER                        -> {}

encrypt_assertion(assertion, cert, data_algorithm, transport, weak_algos) ==
  LET session == SessionKey(data_algorithm) IN
  IF cert.family # "RSA" THEN {}
  ELSE {build_encrypted_element("EncryptedAssertion", data_algorithm,
          build_key_transport_encryption_method(transport), wrap_session_key(cert, padding, session),
          encrypt_data(data_algorithm, session, emit_element(assertion))) :
            padding \in OutboundPadding(transport, weak_algos)}

(* SpDescriptor::encryption_cert: the RSA one with the least fingerprint.    *)
encryption_cert(certs) ==
  LET usable == {c \in certs : c.family = "RSA"}
  IN  {c \in usable : \A other \in usable : c.fingerprint <= other.fingerprint}

-----------------------------------------------------------------------------
(* Reading.                                                                  *)

AlgorithmsOf(elements) == UNION {attribute(e, "Algorithm") : e \in elements}

(* The digest is SHA-1 unless it is declared, under either transport.        *)
oaep_digest_from_method(key_em) ==
  LET declared == child_element(key_em, DS_NS, "DigestMethod")
  IN  IF declared = {} THEN {"sha1"} ELSE AlgorithmsOf(declared) \cap OaepDigests

(* The mask is SHA-1's unless it is declared, which mgf1p does not allow.    *)
mgf1_digest_from_method(key_em, transport) ==
  LET declared == child_element(key_em, XENC11_NS, "MGF")
  IN  CASE declared = {}          -> {"sha1"}
        [] transport = "rsa-oaep" -> AlgorithmsOf(declared) \cap OaepDigests
        [] OTHER                  -> {}

ResolvedPadding(key_em, transport, policy) ==
  IF transport = "rsa-1_5" THEN {<<>>}
  ELSE (oaep_digest_from_method(key_em) \cap policy.oaep_digest)
       \X (mgf1_digest_from_method(key_em, transport) \cap policy.mgf1_digest)

(* base64 text may be folded into lines.                                     *)
extract_cipher_value(parent) ==
  LET values == UNION {child_element(d, XENC_NS, "CipherValue") :
                         d \in child_element(parent, XENC_NS, "CipherData")}
  IN  UNION {ToSet(SelectSeq(text_content(v), LAMBDA fragment : <<fragment>> # Blank)) : v \in values}

(* The first key that opens it; a wrapped key opens with one key only.       *)
unwrap_session_key(wrapped, keys, padding, weak_algos) ==
  LET rsa == {k.name : k \in {k \in ToSet(keys) : k.family = "RSA"}}
  IN  {w[4] : w \in {w \in wrapped : /\ w[2] \in rsa /\ w[3] = padding
                                     /\ oaep_padding(padding, weak_algos)}}

decrypt_data(data_algorithm, session, cipher) ==
  {c[4] : c \in {c \in cipher : <<c[2], c[3]>> = <<data_algorithm, session>>}}

SessionKeys(encrypted_key, keys, policy, weak_algos) ==
  LET key_em == child_element(encrypted_key, XENC_NS, "EncryptionMethod")
      transports == AlgorithmsOf(key_em) \cap policy.transport \cap KeyTransports(weak_algos)
      paddings == UNION {ResolvedPadding(The(key_em), t, policy) : t \in transports}
  IN  UNION {unwrap_session_key(extract_cipher_value(encrypted_key), keys, p, weak_algos) : p \in paddings}

(* decrypt_encrypted_assertion: the document the plaintext parses to, if   *)
(* the policy accepts every algorithm and some key opens it.                 *)
Opened(encrypted_data, keys, policy, weak_algos) ==
  LET algs == AlgorithmsOf(child_element(encrypted_data, XENC_NS, "EncryptionMethod"))
              \cap DataEncryptionAlgorithms \cap policy.data
      encrypted_key == UNION {child_element(i, XENC_NS, "EncryptedKey") :
                                i \in child_element(encrypted_data, DS_NS, "KeyInfo")}
      sessions == UNION {SessionKeys(k, keys, policy, weak_algos) : k \in encrypted_key}
  IN  UNION {decrypt_data(a, s, extract_cipher_value(encrypted_data)) :
               a \in algs, s \in {s \in sessions : \A a \in algs : s[2] = key_size(a)}}

decrypt_encrypted_element(encrypted, keys, policy, weak_algos) ==
  LET plain == UNION {Opened(d, keys, policy, weak_algos) :
                        d \in child_element(encrypted, XENC_NS, "EncryptedData")}
  IN  {doc \in {parse(xml, Limits) : xml \in plain} : Parsed(doc)}
=============================================================================
