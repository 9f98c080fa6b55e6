------------------------ MODULE ClientAuthentication ------------------------
(***************************************************************************)
(* How a request at the token, introspection, revocation and PAR endpoints *)
(* is tied to a client (OAuth2Validator, oauth2_validators.py): HTTP Basic *)
(* credentials, credentials in the body, an RFC 7523 assertion, or a bare  *)
(* client_id.  One request may carry several of them, for several clients. *)
(*                                                                         *)
(* Everything here is a function of the registered clients and the         *)
(* request.  `clients` maps a client_id to its registration, as Application*)
(* clean() accepts it; a secret is blank or named after its client.  What  *)
(* makes a signature and a jti good is in ClientAssertion.  Slip...        *)
(* operators are wrong variants, used to test the properties.              *)
(***************************************************************************)
EXTENDS Integers, FiniteSets

AssertionMethods == {"client_secret_jwt", "private_key_jwt"}
RegisteredMethods == {"unset", "none", "client_secret_basic", "client_secret_post"} \cup AssertionMethods

\* Application.clean() on the client type, the method and a secret that was left blank.
ClientRecord ==
  {c \in [type: {"public", "confidential"}, method: RegisteredMethods, blank: BOOLEAN] :
     /\ c.method = "none" => c.type = "public"
     /\ c.method \in AssertionMethods => c.type = "confidential"
     /\ c.method = "client_secret_jwt" => ~c.blank}

\* A request: `basic` is a set of at most one decoded Authorization header that says Basic,
\* "basic" standing for one that is not taken; `id`, `secret`, `type` and `assertion` are the
\* body parameters, "absent" without one and "" with an empty one; `device` says the grant is device_code.
Given(x) == x \notin {"absent", ""}

Known(clients, id) == id \in DOMAIN clients
JwtOnly(clients, id) == clients[id].method \in AssertionMethods

----------------------------------------------------------------------------
(* Secrets.                                                                *)

\* _extract_basic_auth takes the scheme "Basic" in exactly this case.
PresentsBasic(r) == \E h \in r.basic : h.scheme = "Basic"

\* _check_secret: the hash of a blank secret is opened by a blank one, as the text is.
Secret(clients, id) == IF clients[id].blank THEN "" ELSE id

\* A client registered for assertions may not use a secret; a public one needs none for the
\* device grant.
SlipSecretOpens(clients, r, id, secret) ==
  /\ Known(clients, id)
  /\ \/ clients[id].type = "public" /\ r.device
     \/ secret = Secret(clients, id)
SecretOpens(clients, r, id, secret) ==
  /\ Known(clients, id) /\ ~JwtOnly(clients, id)
  /\ \/ clients[id].type = "public" /\ r.device
     \/ secret = Secret(clients, id)

BasicClients(clients, r) ==
  {h.id : h \in {h \in r.basic : h.scheme = "Basic" /\ SecretOpens(clients, r, h.id, h.secret)}}
\* client_secret or "".
BodySecret(r) == IF r.secret = "absent" THEN "" ELSE r.secret
BodyClients(clients, r) == {id \in {r.id} : SecretOpens(clients, r, id, BodySecret(r))}

----------------------------------------------------------------------------
(* Assertions.                                                             *)

\* Presence counts, of either parameter and with an empty value.
SlipPresentsAssertion(r) == Given(r.type) /\ r.assertion # {}
PresentsAssertion(r) == r.type # "absent" \/ r.assertion # {}

\* `assertion` is a set of at most one assertion: a malformed one has no sub.
OtherMechanism(r) == (\E h \in r.basic : h.scheme \in {"Basic", "basic"}) \/ r.secret # "absent"

AllowedAlg(clients, id, alg) ==
  \/ clients[id].method = "private_key_jwt" /\ alg = "asymmetric"
  \/ clients[id].method = "client_secret_jwt" /\ alg = "hmac"

\* What this server answers to: the configured list and nothing else when there is one, else
\* its issuer, where one can be told, and the endpoint under an allowed Host.
AcceptedAudiences(server) ==
  IF server.configured # "derived" THEN server.audiences
  ELSE (IF server.hasIssuer THEN {"issuer"} ELSE {})
       \cup (IF server.hostAllowed THEN {"endpoint"} ELSE {})

AssertionClients(clients, server, r) ==
  {a.sub : a \in {a \in r.assertion :
     /\ r.type = "jwt-bearer" /\ ~OtherMechanism(r)
     /\ a.sub = a.iss /\ r.id \in {"absent", a.sub}
     /\ Known(clients, a.sub)
     /\ AllowedAlg(clients, a.sub, a.alg) /\ a.signed = a.sub
     /\ a.aud \cap AcceptedAudiences(server) # {}}}

----------------------------------------------------------------------------
(* The decisions: each is the set of clients the request ends up with.     *)

\* authenticate_client: no falling back from an assertion, and from Basic only to the body.
AuthenticateClient(clients, server, r) ==
  IF PresentsAssertion(r) THEN AssertionClients(clients, server, r)
  ELSE IF BasicClients(clients, r) # {} THEN BasicClients(clients, r)
  ELSE BodyClients(clients, r)

AuthenticateClientId(clients, r) == {id \in {r.id} : Known(clients, id) /\ clients[id].type = "public"}

AuthenticationRequired(clients, r) ==
  \/ PresentsAssertion(r) \/ PresentsBasic(r)
  \/ Given(r.id) /\ Given(r.secret)
  \/ Known(clients, r.id) => clients[r.id].type = "confidential"

\* The endpoints of oauthlib authenticate where the validator requires it.
Admitted(clients, server, r) ==
  IF AuthenticationRequired(clients, r) THEN AuthenticateClient(clients, server, r)
  ELSE AuthenticateClientId(clients, r)

\* The PAR endpoint tries authentication, and a bare client_id after it.
AdmittedToPAR(clients, server, r) ==
  IF AuthenticateClient(clients, server, r) # {} THEN AuthenticateClient(clients, server, r)
  ELSE AuthenticateClientId(clients, r)

----------------------------------------------------------------------------
(* Properties, over two registered clients, an unknown id, and             *)
(* combinations of what a request may carry for them.                      *)

ClientIds == {"c", "d"}
SomeTables == {[id \in ClientIds |-> IF id = "c" THEN c ELSE d] :
                 c \in ClientRecord,
                 d \in {r \in ClientRecord : r.method \in {"unset", "private_key_jwt"} /\ ~r.blank}}
Server(configured, audiences, hasIssuer, hostAllowed) ==
  [configured |-> configured, audiences |-> audiences,
   hasIssuer |-> hasIssuer, hostAllowed |-> hostAllowed]
SomeServers == {Server("derived", {}, TRUE, FALSE), Server("derived", {}, FALSE, TRUE),
                Server("list", {}, TRUE, TRUE), Server("list", {"endpoint"}, TRUE, FALSE)}
Upto1(S) == {{}} \cup {{x} : x \in S}
\* Addressed to the endpoint; the good ones to others as well.
SomeAssertions ==
  {a \in [sub: {"c", "x"}, iss: {"c", "d"}, alg: {"hmac", "asymmetric"}, signed: {"c", "d"},
          aud: {{"endpoint"}, {"issuer"}, {"elsewhere"}}] :
     /\ a.sub = "x" => a.signed = "d"
     /\ a.aud # {"endpoint"} => a.sub = "c" /\ a.iss = "c" /\ a.signed = "c"}
\* A device_code grant is tried without assertions.
SomeRequests ==
  {r \in [basic: Upto1([scheme: {"Basic"}, id: {"c", "x"}, secret: ClientIds \cup {""}]
                      \cup {[scheme |-> "basic", id |-> "c", secret |-> "c"]}),
          id: {"absent", "", "c", "d"}, secret: {"absent", "", "c", "d"},
          type: {"absent", "", "jwt-bearer"}, assertion: Upto1(SomeAssertions), device: BOOLEAN] :
     r.device => r.assertion = {}}

\* What it takes to be a client registered for assertions: one of its own making, meant for
\* this server, with the kind of key it registered, and no other credentials beside it.
MeantForUs(server, a) ==
  \E aud \in a.aud :
    \/ server.configured # "derived" /\ aud \in server.audiences
    \/ server.configured = "derived" /\ aud = "issuer" /\ server.hasIssuer
    \/ server.configured = "derived" /\ aud = "endpoint" /\ server.hostAllowed
Asserted(clients, server, r, id) ==
  /\ Known(clients, id) /\ r.type = "jwt-bearer"
  /\ r.basic = {} /\ r.secret = "absent" /\ r.id \in {"absent", id}
  /\ \E a \in r.assertion :
       /\ a.sub = id /\ a.iss = id /\ a.signed = id /\ MeantForUs(server, a)
       /\ <<clients[id].method, a.alg>> \in {<<"private_key_jwt", "asymmetric">>,
                                            <<"client_secret_jwt", "hmac">>}
PresentsAnything(r) == r.type # "absent" \/ r.assertion # {}

\* And any other: its secret, where it has one.
ShowsSecret(r, id) ==
  \/ \E h \in r.basic : h.scheme = "Basic" /\ h.id = id /\ h.secret = id
  \/ r.id = id /\ r.secret = id
Names(r, id) == r.id = id \/ \E h \in r.basic : h.scheme = "Basic" /\ h.id = id

\* Whoever is admitted was registered, and is who it says: an assertion that is presented has
\* to be good and alone; a client registered for assertions gets in with nothing else, so
\* a leaked secret opens no side door; a confidential client shows its secret, unless the
\* one it was registered with is blank, when its name is enough
\* (oauth2_validators.py:354-447, RFC 7521 section 4.2 and RFC 9700 section 2.5).
AdmissionIsSound(clients, server, r) ==
  \A id \in Admitted(clients, server, r) :
    /\ Known(clients, id)
    /\ PresentsAnything(r) \/ JwtOnly(clients, id) => Asserted(clients, server, r, id)
    /\ ~Asserted(clients, server, r, id) => Names(r, id)
    /\ clients[id].type = "confidential" /\ ~clients[id].blank =>
         Asserted(clients, server, r, id) \/ ShowsSecret(r, id)

\* The PAR endpoint lets a public client in on its client_id whatever else fails, and otherwise
\* only one whose secret is blank.
PushIsSound(clients, server, r) ==
  \A id \in AdmittedToPAR(clients, server, r) :
    /\ Asserted(clients, server, r, id) \/ Names(r, id)
    /\ clients[id].type = "confidential" /\ ~clients[id].blank =>
         Asserted(clients, server, r, id) \/ ShowsSecret(r, id)

\* And no client is locked out: a good assertion that is alone is enough for a client that
\* registered for it, at the PAR endpoint too; its own secret in one place is enough for any
\* other, whatever the body names beside a Basic header; a public client's id is.
AdmissionIsOpen(clients, server, r) ==
  /\ \A a \in r.assertion : Asserted(clients, server, r, a.sub) =>
       Admitted(clients, server, r) = {a.sub} /\ AdmittedToPAR(clients, server, r) = {a.sub}
  /\ \A h \in r.basic :
       ~PresentsAnything(r) /\ h.scheme = "Basic" /\ Known(clients, h.id)
         /\ h.secret = Secret(clients, h.id) /\ clients[h.id].method \notin AssertionMethods =>
           Admitted(clients, server, r) = {h.id}
  /\ ~PresentsAnything(r) /\ r.basic = {} /\ Known(clients, r.id) =>
       /\ clients[r.id].type = "public" /\ ~Given(r.secret) => Admitted(clients, server, r) = {r.id}
       /\ clients[r.id].method \notin AssertionMethods /\ BodySecret(r) = Secret(clients, r.id) =>
            Admitted(clients, server, r) = {r.id}

TableIsSound(clients, server) ==
  \A r \in SomeRequests :
    /\ AdmissionIsSound(clients, server, r)
    /\ PushIsSound(clients, server, r)
    /\ AdmissionIsOpen(clients, server, r)
=============================================================================
