------------------------------- MODULE WebApp -------------------------------
(***************************************************************************)
(* What the two example applications have in common                        *)
(* (src/examples/idp, src/examples/demo): signed session cookies, the      *)
(* replies handlers give a browser, and the operators of the library they  *)
(* call.                                                                   *)
(*                                                                         *)
(* request: [to : a site, path, body]                                      *)
(* reply:   [cookie : what Set-Cookie does, go : option of the request a   *)
(*          redirect or an auto-submitted form makes next, page : what the *)
(*          browser shows meanwhile [kind, about]]                         *)
(***************************************************************************)
EXTENDS IdpSso, ConsumeResponse

CONSTANTS
  SESSION_TTL,          \* age beyond which a session cookie is refused
  PENDING_STALE_AFTER, MAX_PENDING,    \* PendingStore of the IdP
  TRACKER_STALE_AFTER, MAX_TRACKERS,   \* the tracker stores of both
  MaxRequestAge,        \* max_authn_request_age
  AssertionLifetime,
  ClockSkew

ASSUME WebAppAssumption ==
  /\ {SESSION_TTL, MaxRequestAge, AssertionLifetime, ClockSkew} \subseteq Nat
  /\ {PENDING_STALE_AFTER, TRACKER_STALE_AFTER, MAX_PENDING, MAX_TRACKERS} \subseteq Nat \ {0}

Store == INSTANCE ExpiringStore
Slo == INSTANCE LogoutMessages

-----------------------------------------------------------------------------
(* session.rs: a cookie is a payload and a tag made with the site's key.   *)

encode(session, key) == [payload |-> session, tag |-> key]

SessionVerdict(cookie, key, now) ==
     Reject(cookie.tag # key, "BadSignature")
  && Reject(now - cookie.payload.issued_at > SESSION_TTL, "Expired")

(* extract_session: the option of session a browser's cookie stands for.   *)
decode(cookies, key, now) ==
  {c.payload : c \in {c \in cookies : SessionVerdict(c, key, now) = "Ok"}}

-----------------------------------------------------------------------------
(* Replies.                                                                *)

KeepCookie == [change |-> FALSE, to |-> {}]
ClearCookie == [change |-> TRUE, to |-> {}]
SetCookie(cookie) == [change |-> TRUE, to |-> {cookie}]

Request(to, path, body) == [to |-> to, path |-> path, body |-> body]

Page(kind, about) ==
  [cookie |-> KeepCookie, go |-> {}, page |-> [kind |-> kind, about |-> about]]

error_page(about) == Page("error", about)

Landing(msg, about) == [Page(msg, about) EXCEPT !.cookie = ClearCookie]

(* A redirect, or a page with a form that submits itself.                  *)
Onward(request, cookie) ==
  [cookie |-> cookie, go |-> {request}, page |-> [kind |-> "onward", about |-> {}]]

(* finalize_logout_dispatch: the message to the peer's SLO endpoint.       *)
SendLogout(peer, message, relay_state, cookie) ==
  Onward(Request(peer, "/saml/slo", [message |-> message, relay_state |-> relay_state]), cookie)

Usable(party, bindings) == {b \in bindings : Slo!Endpoints(party, b) # {}}
=============================================================================
