------------------------ MODULE ClientConfiguration ------------------------
(***************************************************************************)
(* What an Application may be configured to, and by whom: the registration *)
(* endpoint and its updates (views/dynamic_client_registration.py), and    *)
(* the form, the admin site and the createapplication command of an        *)
(* operator.  All of them end in Application.clean() and save(), which     *)
(* hashes the secret; fields left alone keep what an earlier save made of  *)
(* them, so that what is accepted depends on the history of the row.       *)
(*                                                                         *)
(* One row, one writer at a time: ClientRegistration has the races.  The   *)
(* secret is the one generated with the row unless an operator enters      *)
(* another, or leaves it blank.                                            *)
(* Slip... operators are wrong variants, used to test the properties.      *)
(***************************************************************************)
EXTENDS FiniteSets, Integers

VARIABLES
  row,     \* the Application row, as a set of at most one
  held,    \* whether the client was given the secret the row holds
  edited,  \* history: whether an operator made or changed the row
  rsa      \* whether OIDC_RSA_PRIVATE_KEY is set

configuration == <<row, held, edited, rsa>>

JwtMethods == {"client_secret_jwt", "private_key_jwt"}
Methods == {"unset", "none", "client_secret_basic", "client_secret_post"} \cup JwtMethods
\* The password and the device grant are told apart from client_credentials nowhere here.
Grants == {"authorization_code", "implicit", "client_credentials", "openid-hybrid"}
RowType == [source: {"dcr", "manual"}, type: {"public", "confidential"}, method: Methods, grant: Grants,
            redirects: {"none", "good", "bad"}, keys: {"none", "stored", "remote", "bad"},
            algorithm: {"none", "RS256", "HS256"}, hash: BOOLEAN, hashed: BOOLEAN, blank: BOOLEAN]

----------------------------------------------------------------------------
(* The model: clean(), save(), and the keys made of the row.               *)

RedirectGrants == {"authorization_code", "implicit", "openid-hybrid"}

\* The secret is an HMAC key: there has to be one, and it has to be, and to stay, in plain text.
SlipPlain(r) == ~r.blank /\ ~r.hash
Plain(r) == ~r.blank /\ ~r.hash /\ ~r.hashed

CleanSigning(r) ==
  /\ r.algorithm = "RS256" => rsa
  /\ r.algorithm = "HS256" =>
       r.grant \notin {"implicit", "openid-hybrid"} /\ r.type # "public" /\ Plain(r)
CleanAssertion(r) ==
  /\ r.keys # "bad"
  /\ r.method = "none" => r.type = "public"
  /\ r.method \in JwtMethods => r.type = "confidential"
  /\ r.method = "private_key_jwt" => r.keys # "none"
  /\ r.method = "client_secret_jwt" => Plain(r)
Clean(r) ==
  /\ r.redirects # "bad"
  /\ r.grant \in RedirectGrants => r.redirects # "none"
  /\ CleanSigning(r) /\ CleanAssertion(r)

\* ClientSecretField.pre_save: a blank secret is hashed too, and what is stored then is a hash.
Saved(r) == [r EXCEPT !.hashed = r.hashed \/ r.hash, !.blank = r.blank /\ ~r.hash]

\* jwk_key and get_client_secret_hmac_jwk find a key.
HasSigningKey(r) == (r.algorithm = "RS256" => rsa) /\ (r.algorithm = "HS256" => ~r.blank /\ ~r.hashed)
HasHmacKey(r) == ~r.blank /\ ~r.hash /\ ~r.hashed

----------------------------------------------------------------------------
(* RFC 7591 metadata, as a client sends it.                                *)

Metadata ==
  [grants: {{"omitted"}, {}, {"refresh_token"}, {"authorization_code", "refresh_token"},
            {"authorization_code", "implicit"}, {"implicit"}, {"client_credentials"},
            {"openid-hybrid"}},
   redirects: {"none", "good", "bad"}, method: (Methods \ {"unset"}) \cup {"omitted", "other"},
   jwks: {"absent", "good", "bad"}, uri: {"absent", "good", "bad"}]

\* _resolve_grant_type: one grant beside refresh_token, and one that is known.
Meaningful(m) == IF m.grants = {"omitted"} THEN {"authorization_code"} ELSE m.grants \ {"refresh_token"}
HasOneGrant(m) == \E g \in Grants \ {"openid-hybrid"} : Meaningful(m) = {g}

MethodOf(m) == IF m.method = "omitted" THEN "client_secret_basic" ELSE m.method
KeysOf(m) == IF m.jwks = "good" THEN "stored" ELSE IF m.uri = "good" THEN "remote" ELSE "none"

WellFormed(m) ==
  /\ HasOneGrant(m)
  /\ Meaningful(m) \cap {"authorization_code", "implicit"} # {} => m.redirects # "none"
  /\ m.method # "other"
  /\ m.jwks # "bad" /\ m.uri # "bad"
  /\ m.jwks = "absent" \/ m.uri = "absent"
  /\ m.method = "private_key_jwt" => KeysOf(m) # "none"

\* _build_application_kwargs: the whole of the metadata replaces what `r` had; the secret and
\* the signing algorithm are not metadata.
Replace(r, m) ==
  [r EXCEPT !.type = IF MethodOf(m) = "none" THEN "public" ELSE "confidential",
            !.method = MethodOf(m), !.grant = CHOOSE g \in Meaningful(m) : TRUE,
            !.redirects = m.redirects, !.keys = KeysOf(m),
            !.hash = MethodOf(m) # "client_secret_jwt"]

\* _application_to_response: the metadata a client reads back.
SlipResponse(r) ==
  [grants |-> IF r.grant = "authorization_code" THEN {r.grant, "refresh_token"} ELSE {r.grant},
   redirects |-> r.redirects,
   method |-> IF r.type = "public" THEN "none" ELSE "client_secret_basic",
   jwks |-> IF r.keys = "stored" THEN "good" ELSE "absent",
   uri |-> IF r.keys = "remote" THEN "good" ELSE "absent"]
Response(r) ==
  [grants |-> IF r.grant = "authorization_code" THEN {r.grant, "refresh_token"} ELSE {r.grant},
   redirects |-> r.redirects,
   method |-> IF r.method # "unset" THEN r.method
              ELSE IF r.type = "public" THEN "none" ELSE "client_secret_basic",
   jwks |-> IF r.keys = "stored" THEN "good" ELSE "absent",
   uri |-> IF r.keys = "remote" THEN "good" ELSE "absent"]

----------------------------------------------------------------------------
(* The operations.                                                         *)

NewRow == [source |-> "dcr", type |-> "confidential", method |-> "unset", grant |-> "authorization_code",
           redirects |-> "none", keys |-> "none", algorithm |-> "none", hash |-> TRUE,
           hashed |-> FALSE, blank |-> FALSE]
ConfigurationInit == row = {} /\ held = FALSE /\ edited = FALSE /\ rsa \in BOOLEAN

\* A client that authenticates with its secret is told it.
SlipToldSecret(r) == r.type = "confidential" /\ r.method \notin JwtMethods
ToldSecret(r) == r.type = "confidential" /\ r.method # "private_key_jwt"

\* POST /register/.
RegisterClient(m) ==
  LET r == Replace(NewRow, m) IN
  /\ row = {} /\ WellFormed(m) /\ Clean(r)
  /\ row' = {Saved(r)}
  /\ held' = ToldSecret(r)
  /\ UNCHANGED <<edited, rsa>>

\* PUT /register/{client_id}/, for a client that registered itself; the answer holds no secret.
UpdateClient(m) ==
  \E old \in row :
    /\ old.source = "dcr" /\ WellFormed(m) /\ Clean(Replace(old, m))
    /\ row' = {Saved(Replace(old, m))}
    /\ UNCHANGED <<held, edited, rsa>>

\* The form, the admin site, createapplication: any fields, and the secret that is shown.
CreateByHand(r) ==
  /\ row = {} /\ r.source = "manual" /\ ~r.hashed /\ Clean(r)
  /\ row' = {Saved(r)}
  /\ held' = TRUE /\ edited' = TRUE
  /\ UNCHANGED rsa

\* A change of any fields with the secret left as it is, or with a new one, which may be blank.
EditByHand(r, newSecret) ==
  \E old \in row :
    /\ r.source = old.source /\ r.hashed = (~newSecret /\ old.hashed)
    /\ newSecret \/ r.blank = old.blank
    /\ Clean(r)
    /\ row' = {Saved(r)}
    /\ held' = (held \/ newSecret) /\ edited' = TRUE
    /\ UNCHANGED rsa

DeleteClient ==
  /\ row # {} /\ row' = {} /\ held' = FALSE /\ edited' = FALSE
  /\ UNCHANGED rsa

----------------------------------------------------------------------------
(* Properties.                                                             *)

\* However a row came to be, what signs its tokens and what verifies its assertions is there:
\* no order of registrations, updates and edits leaves a hashed or blank secret where an HMAC
\* key is needed, or an assertion client without keys.  clean() looks at the row before save()
\* hashes the secret, and at fields an earlier save left (models.py:66, models.py:530-604).
KeysAreUsable ==
  \A r \in row :
    /\ HasSigningKey(r)
    /\ r.method = "client_secret_jwt" => HasHmacKey(r)
    /\ r.method = "private_key_jwt" => r.keys \in {"stored", "remote"}

\* A client that reads its registration and sends it back changes nothing, as long as no
\* operator touched the row (_application_to_response against _build_application_kwargs).
ReadBackIsStable ==
  \A r \in row : ~edited =>
    /\ WellFormed(Response(r)) /\ Clean(Replace(r, Response(r)))
    /\ Saved(Replace(r, Response(r))) = r

\* Locked out: it has to show a secret, or sign with it, that nobody told it.
LockedOut ==
  \E r \in row : ~held /\ (\/ r.type = "confidential" /\ r.method # "private_key_jwt"
                          \/ r.algorithm = "HS256")

\* A registration never locks its client out, nor does a move between two methods that use
\* the secret: only gaining a need for a secret does, as a PUT from `none` or private_key_jwt
\* that is answered without one (dynamic_client_registration.py:447, 566-596).
OnlyNewNeedsLockOut ==
  [][LockedOut' /\ ~LockedOut =>
       \E r \in row : r.type = "public" \/ r.method = "private_key_jwt"]_configuration
=============================================================================
