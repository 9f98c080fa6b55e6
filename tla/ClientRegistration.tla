------------------------- MODULE ClientRegistration -------------------------
(***************************************************************************)
(* Dynamic client registration (views/dynamic_client_registration.py): an  *)
(* Application row with a registration access token, and the management    *)
(* endpoint on which that token reads, replaces or deletes the row.        *)
(*                                                                         *)
(* A management request reads the token, then the application, and only    *)
(* then writes.  PUT runs in one transaction; DELETE first collects the    *)
(* rows that go with the application and then deletes them in one.  The    *)
(* database keeps a foreign key from every token to its application.       *)
(* Metadata is left out: a request's is valid or not, and PUT replaces all *)
(* of it.  A registration token that expires, where the settings give it   *)
(* an end, is as good as dropped.  Slip... operators are wrong variants,   *)
(* used to test the properties.                                            *)
(***************************************************************************)
EXTENDS Integers, FiniteSets

CONSTANTS
  Client, Token, Request,
  Rotate,   \* DCR_ROTATE_REGISTRATION_TOKEN_ON_UPDATE
  Null

ASSUME RegistrationAssumption ==
  /\ Rotate \in BOOLEAN /\ IsFiniteSet(Token)
  /\ Null \notin Client /\ Null \notin Token

VARIABLES
  client,     \* the Application table
  token,      \* the AccessToken rows that carry DCR_REGISTRATION_SCOPE
  req,        \* the local state of each management request
  overlapped, \* history: clients two management requests were at work on at once
  dropped     \* history: clients that lost a token for another reason than PUT and DELETE

vars == <<client, token, req, overlapped, dropped>>

----------------------------------------------------------------------------

ClientRow == [status: {"free", "stored", "gone"}, source: {"dcr", "manual"}]
TokenRow == [status: {"free", "stored", "gone"}, client: Client \cup {Null},
             kind: {"registration", "flow"}]
NoClient == [status |-> "free", source |-> "manual"]
NoToken == [status |-> "free", client |-> Null, kind |-> "flow"]
NewToken(c, k) == [status |-> "stored", client |-> c, kind |-> k]

\* "token": the presented token is loaded; "auth": and its application; "collected": DELETE
\* knows the rows that go with it.
RequestState == [phase: {"idle", "token", "auth", "collected"}, client: Client \cup {Null},
                 token: Token \cup {Null}, rows: SUBSET Token]
Idle == [phase |-> "idle", client |-> Null, token |-> Null, rows |-> {}]

StoredClient(c) == client[c].status = "stored"
Stored(t) == token[t].status = "stored"
TokensOf(c) == {t \in Token : Stored(t) /\ token[t].client = c}
RegistrationTokens(c) == {t \in TokensOf(c) : token[t].kind = "registration"}

Init == /\ client = [c \in Client |-> NoClient]
        /\ token = [t \in Token |-> NoToken]
        /\ req = [q \in Request |-> Idle]
        /\ overlapped = {} /\ dropped = {}

\* POST /register/: row and token in one transaction.
Register(c, t) ==
  /\ client[c].status = "free" /\ token[t].status = "free"
  /\ client' = [client EXCEPT ![c] = [status |-> "stored", source |-> "dcr"]]
  /\ token' = [token EXCEPT ![t] = NewToken(c, "registration")]
  /\ UNCHANGED <<req, overlapped, dropped>>

\* A client somebody provisions by hand.
Provision(c) ==
  /\ client[c].status = "free"
  /\ client' = [client EXCEPT ![c] = [status |-> "stored", source |-> "manual"]]
  /\ UNCHANGED <<token, req, overlapped, dropped>>

\* The scope is configured for ordinary tokens too, and an authorization flow issues one.
IssueFlowToken(c, t) ==
  /\ StoredClient(c) /\ token[t].status = "free"
  /\ token' = [token EXCEPT ![t] = NewToken(c, "flow")]
  /\ UNCHANGED <<client, req, overlapped, dropped>>

\* /revoke/ by the client, logout and the authorized-tokens page of the user who registered it
\* (do_logout), expiry and cleartokens remove tokens of any kind.
DropToken(t) ==
  /\ Stored(t)
  /\ token' = [token EXCEPT ![t].status = "gone"]
  /\ dropped' = dropped \cup {token[t].client}
  /\ UNCHANGED <<client, req, overlapped>>

----------------------------------------------------------------------------
(* GET, PUT, DELETE /register/{client_id}/.                                *)

\* What becomes of req[q]; two requests with one client at a time are noted.
AtWork(c) == {q \in Request : req[q].client = c}
Become(q, r) == req' = [req EXCEPT ![q] = r]

\* The checksum finds the token; an unknown one is answered 401.  c is the client_id of the path.
LoadToken(q, c, t) ==
  /\ req[q].phase = "idle" /\ Stored(t)
  /\ Become(q, [phase |-> "token", client |-> c, token |-> t, rows |-> {}])
  /\ overlapped' = IF AtWork(c) = {} THEN overlapped ELSE overlapped \cup {c}
  /\ UNCHANGED <<client, token, dropped>>

SlipRegistered(c) == TRUE
Registered(c) == client[c].source = "dcr"

\* token.application: the token's own client must be the one in the path, and a registered one.
LoadApplication(q) ==
  LET c == req[q].client IN
  /\ req[q].phase = "token" /\ StoredClient(c)
  /\ token[req[q].token].client = c /\ Registered(c)
  /\ Become(q, [req[q] EXCEPT !.phase = "auth"])
  /\ UNCHANGED <<client, token, overlapped, dropped>>

\* The end of a request that writes nothing: GET is answered, the token or the metadata is
\* refused, the application is gone, or the request dies.
Finish(q) ==
  /\ req[q].phase # "idle"
  /\ Become(q, Idle)
  /\ UNCHANGED <<client, token, overlapped, dropped>>

\* save() of a row that was loaded: UPDATE, or INSERT when the row is no longer there.
SaveApplication(c) == client' = [client EXCEPT ![c].status = "stored"]

\* The token n replaces the presented one, whether or not that is still stored.
SlipReplaceToken(old, n, c) ==
  token' = [token EXCEPT ![n] = NewToken(c, "registration")]
SlipReplaceIfStored(old, n, c) ==
  token' = IF Stored(old)
           THEN [token EXCEPT ![n] = NewToken(c, "registration"), ![old].status = "gone"]
           ELSE token
ReplaceToken(old, n, c) ==
  token' = [token EXCEPT ![n] = NewToken(c, "registration"), ![old].status = "gone"]

Put(q, n) ==
  /\ req[q].phase = "auth"
  /\ SaveApplication(req[q].client)
  /\ IF Rotate THEN /\ token[n].status = "free"
                    /\ ReplaceToken(req[q].token, n, req[q].client)
               ELSE UNCHANGED token
  /\ Become(q, Idle)
  /\ UNCHANGED <<overlapped, dropped>>

\* DELETE: the rows to delete are selected before the transaction that deletes them.
CollectTokens(q) ==
  /\ req[q].phase = "auth"
  /\ Become(q, [req[q] EXCEPT !.phase = "collected", !.rows = TokensOf(req[q].client)])
  /\ UNCHANGED <<client, token, overlapped, dropped>>

\* The foreign key refuses the transaction if a token has been stored since.
SlipDeletable(c, rows) == TRUE
Deletable(c, rows) == TokensOf(c) \subseteq rows

CommitDelete(q) ==
  LET c == req[q].client IN
  /\ req[q].phase = "collected"
  /\ Deletable(c, req[q].rows)
  /\ client' = [client EXCEPT ![c].status = "gone"]
  /\ token' = [t \in Token |-> IF t \in req[q].rows THEN [token[t] EXCEPT !.status = "gone"]
                                                    ELSE token[t]]
  /\ Become(q, Idle)
  /\ UNCHANGED <<overlapped, dropped>>

Next ==
  \/ \E c \in Client, t \in Token : Register(c, t) \/ IssueFlowToken(c, t)
  \/ \E c \in Client : Provision(c)
  \/ \E t \in Token : DropToken(t)
  \/ \E q \in Request, c \in Client, t \in Token : LoadToken(q, c, t)
  \/ \E q \in Request : LoadApplication(q) \/ Finish(q) \/ CollectTokens(q) \/ CommitDelete(q)
  \/ \E q \in Request, n \in Token : Put(q, n)

Spec == Init /\ [][Next]_vars

----------------------------------------------------------------------------
(* Properties.                                                             *)

\* Types; and every stored token has its client, deleted and replaced rows included.
TypeOK ==
  /\ client \in [Client -> ClientRow]
  /\ token \in [Token -> TokenRow]
  /\ req \in [Request -> RequestState]
  /\ overlapped \subseteq Client /\ dropped \subseteq Client
  /\ \A t \in Token : Stored(t) => token[t].client \in Client /\ StoredClient(token[t].client)

\* A registered client stays manageable: whatever updates, deletions and failures race on it, one
\* that exists has a registration token, unless a token of it was revoked, ran out or went in a
\* logout.  A PUT that finds its token replaced, or its client deleted and so stored anew, must
\* still issue one.
Manageable ==
  Rotate => \A c \in Client :
    StoredClient(c) /\ Registered(c) /\ c \notin dropped => RegistrationTokens(c) # {}

\* And the other way round: no token outlives its client.  When a rotation adds a token behind
\* the selection of a racing DELETE, application.delete() fails on the foreign key and leaves
\* both (views/dynamic_client_registration.py:603).
TokensAndClientsMeet ==
  /\ Manageable
  /\ \A t \in Token : Stored(t) => StoredClient(token[t].client)

\* The registration token is rotated, not multiplied: a client has at most one unless requests
\* overlapped on it (each of two PUTs leaves its own) or an ordinary token with the scope was
\* used in the place of the registration token.
OneTokenUnlessRaced ==
  \A c \in Client :
    \/ Cardinality(RegistrationTokens(c)) <= 1 \/ ~Rotate
    \/ c \in overlapped
    \/ \E t \in Token : token[t].client = c /\ token[t].kind = "flow"

\* A client provisioned by hand is out of the reach of the management endpoint, although its
\* ordinary tokens may carry the scope: it is not deleted and gets no registration token.
ManualIsNotManaged ==
  [][\A c \in Client : StoredClient(c) /\ client[c].source = "manual" =>
       /\ client'[c] = client[c]
       /\ \A t \in Token : token'[t].client = c => token'[t].kind = "flow"]_vars
=============================================================================
