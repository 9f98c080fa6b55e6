------------------------- MODULE AuthorizationCode -------------------------
(***************************************************************************)
(* The authorization code from its row in the Grant table to the tokens it *)
(* buys: _create_authorization_code, the token request that redeems a code *)
(* (validate_code, get_code_challenge, confirm_redirect_uri,               *)
(* save_bearer_token, invalidate_authorization_code, TokenView) and the    *)
(* grant stage of cleartokens.                                             *)
(*                                                                         *)
(* Nothing holds these database steps together: tokens are committed       *)
(* before the code is deleted, so redemptions of one code may overlap at   *)
(* any point, and the deletion decides between them.  The order of the     *)
(* calls is oauthlib's (AuthorizationCodeGrant.create_token_response).     *)
(* Slip... definitions are wrong variants, as in RefreshTokens.            *)
(***************************************************************************)
EXTENDS Integers, FiniteSets

CONSTANTS
  Code,             \* authorization codes
  Request,          \* token requests; each redeems one code once
  Client, Proof,    \* clients; (redirect_uri, PKCE verifier) pairs a code is bound to
  Scope, Resource,  \* scope values; RFC 8707 resource indicators
  CodeLife,         \* AUTHORIZATION_CODE_EXPIRE_SECONDS
  MaxTime,          \* bound: the clock
  Null

ASSUME CodeAssumption ==
  CodeLife \in Nat /\ MaxTime \in Nat /\ Null \notin Code /\ Null \notin Nat

VARIABLES
  now,     \* timezone.now()
  grant,   \* the Grant table; a deleted row keeps its contents for the properties only
  req,     \* the local state of each token request
  pair,    \* the token pair each request has stored, if any
  cutoff   \* `now` of a running clear_expired(), or Null

vars == <<now, grant, req, pair, cutoff>>

----------------------------------------------------------------------------

GrantRow == [status: {"free", "stored", "gone"}, client: Client \cup {Null},
             proof: Proof \cup {Null}, scope: SUBSET Scope, resource: SUBSET Resource,
             expires: Nat]
NoGrant == [status |-> "free", client |-> Null, proof |-> Null, scope |-> {},
            resource |-> {}, expires |-> 0]

Running == {"valid", "proved", "saved", "respond"}
Phase == {"new", "rejected", "delivered", "lost", "crashed"} \cup Running
RequestState == [phase: Phase, code: Code \cup {Null}, client: Client \cup {Null},
                 proof: Proof \cup {Null}, scope: SUBSET Scope, resource: SUBSET Resource]
NotSent == [phase |-> "new", code |-> Null, client |-> Null, proof |-> Null,
            scope |-> {}, resource |-> {}]

PairRow == [status: {"none", "stored", "gone"}, scope: SUBSET Scope, resource: SUBSET Resource]
NoPair == [status |-> "none", scope |-> {}, resource |-> {}]

Stored(c) == grant[c].status = "stored"
Expired(c) == now >= grant[c].expires
Audience(res) == IF res = {} THEN Resource ELSE res

Init == /\ now = 0
        /\ grant = [c \in Code |-> NoGrant]
        /\ req = [q \in Request |-> NotSent]
        /\ pair = [q \in Request |-> NoPair]
        /\ cutoff = Null

Tick == /\ now < MaxTime
        /\ now' = now + 1
        /\ UNCHANGED <<grant, req, pair, cutoff>>

SlipExpiry == now - CodeLife
Expiry == now + CodeLife

\* The authorization endpoint stores a grant for the client, redirect URI and PKCE challenge
\* of the authorization request.
CreateAuthorizationCode(c, cl, pf, sc, res) ==
  /\ grant[c].status = "free"
  /\ grant' = [grant EXCEPT ![c] = [status |-> "stored", client |-> cl, proof |-> pf,
                scope |-> sc, resource |-> res, expires |-> Expiry]]
  /\ UNCHANGED <<now, req, pair, cutoff>>

----------------------------------------------------------------------------
(* The token request.                                                      *)

\* validate_code: the code is stored for this client and has not expired.
SlipValidateCode(q, c, cl, pf, ask) ==
  /\ req[q].phase = "new"
  /\ Stored(c) /\ grant[c].client = cl /\ ~Expired(c)
  /\ req' = [req EXCEPT ![q] = [phase |-> "valid", code |-> c, client |-> cl, proof |-> pf,
                                scope |-> grant[c].scope, resource |-> ask]]
  /\ grant' = [grant EXCEPT ![c].status = "gone"]
  /\ UNCHANGED <<now, pair, cutoff>>
ValidateCode(q, c, cl, pf, ask) ==
  /\ req[q].phase = "new"
  /\ Stored(c) /\ grant[c].client = cl /\ ~Expired(c)
  /\ req' = [req EXCEPT ![q] = [phase |-> "valid", code |-> c, client |-> cl, proof |-> pf,
                                scope |-> grant[c].scope, resource |-> ask]]
  /\ UNCHANGED <<now, grant, pair, cutoff>>

\* get_code_challenge, get_code_challenge_method and confirm_redirect_uri load the row
\* again; without it (DoesNotExist) or on a mismatch the request fails.
ConfirmBinding(q) ==
  /\ req[q].phase = "valid"
  /\ Stored(req[q].code) /\ grant[req[q].code].proof = req[q].proof
  /\ req' = [req EXCEPT ![q].phase = "proved"]
  /\ UNCHANGED <<now, grant, pair, cutoff>>

\* _check_and_set_request_resource: a grant that is gone, or holds no resource, restricts
\* nothing; otherwise the request inherits its resources or names some of them.
SlipRequestResource(q) == {req[q].resource}
RequestResource(q) ==
  LET c == req[q].code
      held == IF Stored(c) THEN grant[c].resource ELSE {} IN
  CASE held = {} -> {req[q].resource}
    [] held # {} /\ req[q].resource = {} -> {held}
    [] OTHER -> {req[q].resource} \cap SUBSET held

\* save_bearer_token, without a refresh token: a new pair is committed.
SaveTokens(q) ==
  /\ req[q].phase = "proved"
  /\ \E res \in RequestResource(q) :
       pair' = [pair EXCEPT ![q] = [status |-> "stored", scope |-> req[q].scope, resource |-> res]]
  /\ req' = [req EXCEPT ![q].phase = "saved"]
  /\ UNCHANGED <<now, grant, cutoff>>

\* invalidate_authorization_code: the DELETE must find the row, or the request is answered
\* invalid_grant and its pair stays behind.
SlipInvalidateCode(q) ==
  /\ req[q].phase = "saved"
  /\ grant' = [grant EXCEPT ![req[q].code].status = "gone"]
  /\ req' = [req EXCEPT ![q].phase = "respond"]
  /\ UNCHANGED <<now, pair, cutoff>>
InvalidateCode(q) ==
  /\ req[q].phase = "saved"
  /\ Stored(req[q].code)
  /\ grant' = [grant EXCEPT ![req[q].code].status = "gone"]
  /\ req' = [req EXCEPT ![q].phase = "respond"]
  /\ UNCHANGED <<now, pair, cutoff>>
CodeAlreadyGone(q) ==
  /\ req[q].phase = "saved"
  /\ ~Stored(req[q].code)
  /\ req' = [req EXCEPT ![q].phase = "rejected"]
  /\ UNCHANGED <<now, grant, pair, cutoff>>

\* TokenView reads the access token back before it answers 200; without the row (DoesNotExist)
\* the answer is lost.
Respond(q) ==
  /\ req[q].phase = "respond"
  /\ req' = [req EXCEPT ![q].phase = IF pair[q].status = "stored" THEN "delivered" ELSE "lost"]
  /\ UNCHANGED <<now, grant, pair, cutoff>>

\* A mismatch, invalid_target, a row that vanished or a crashed worker ends the request; once
\* the code is spent only the crash is left.
Fail(q) ==
  /\ req[q].phase \in Running
  /\ req' = [req EXCEPT ![q].phase = IF req[q].phase = "respond" THEN "crashed" ELSE "rejected"]
  /\ UNCHANGED <<now, grant, pair, cutoff>>

\* The user deletes an authorized token, or logs out: the pair goes, whoever waits for it.
DropPair(q) ==
  /\ pair[q].status = "stored"
  /\ pair' = [pair EXCEPT ![q].status = "gone"]
  /\ UNCHANGED <<now, grant, req, cutoff>>

----------------------------------------------------------------------------
(* The grant stage of clear_expired().                                     *)

StartCleanup == /\ cutoff = Null
                /\ cutoff' = now
                /\ UNCHANGED <<now, grant, req, pair>>

SlipOverdue == {c \in Code : Stored(c) /\ grant[c].expires - CodeLife <= cutoff}
Overdue == {c \in Code : Stored(c) /\ grant[c].expires < cutoff}

DeleteBatch(B) == /\ cutoff # Null
                  /\ B # {} /\ B \subseteq Overdue
                  /\ grant' = [c \in Code |-> IF c \in B THEN [grant[c] EXCEPT !.status = "gone"]
                                                         ELSE grant[c]]
                  /\ UNCHANGED <<now, req, pair, cutoff>>

\* The command ends, or is killed between two batches.
StopCleanup == /\ cutoff # Null
               /\ cutoff' = Null
               /\ UNCHANGED <<now, grant, req, pair>>

----------------------------------------------------------------------------

Redemption(q) ==
  \/ \E c \in Code, cl \in Client, pf \in Proof, ask \in SUBSET Resource :
       ValidateCode(q, c, cl, pf, ask)
  \/ ConfirmBinding(q) \/ SaveTokens(q) \/ InvalidateCode(q) \/ CodeAlreadyGone(q)
  \/ Respond(q) \/ Fail(q) \/ DropPair(q)

Next ==
  \/ Tick
  \/ \E c \in Code, cl \in Client, pf \in Proof, sc \in SUBSET Scope, res \in SUBSET Resource :
       CreateAuthorizationCode(c, cl, pf, sc, res)
  \/ \E q \in Request : Redemption(q)
  \/ StartCleanup \/ StopCleanup \/ \E B \in SUBSET Code : DeleteBatch(B)

Spec == Init /\ [][Next]_vars

----------------------------------------------------------------------------
(* Properties.                                                             *)

\* Every table and every local state keeps its shape.
TypeOK == /\ now \in Nat
          /\ grant \in [Code -> GrantRow]
          /\ req \in [Request -> RequestState]
          /\ pair \in [Request -> PairRow]
          /\ cutoff \in Nat \cup {Null}
          /\ \A q \in Request : req[q].phase # "new" => req[q].code \in Code

\* The request whose DELETE found the code; it is the only one that may be answered 200.  Its
\* answer is on its way or out, or was lost because somebody deleted its tokens first, or its
\* worker crashed between the DELETE and the answer.
Answered(q) == req[q].phase \in {"respond", "delivered"}
Undone(q) == req[q].phase = "lost" /\ pair[q].status = "gone"
Crashed(q) == req[q].phase = "crashed"
Won(q) == req[q].phase \in {"respond", "delivered", "lost", "crashed"}

\* However many redemptions of a code run at once, at most one is answered with tokens,
\* although each of them may have stored a pair.
OneDelivery ==
  \A p, q \in Request : Won(p) /\ Won(q) /\ req[p].code = req[q].code => p = q

\* Tokens that leave the server hold the scope and audience of the grant they were bought
\* with, and went to the client, redirect URI and verifier it is bound to.  A request that
\* saves after the grant is gone stores an unrestricted pair; it is never answered with it.
DeliveredWithinGrant ==
  \A q \in Request : Won(q) =>
    LET g == grant[req[q].code] IN
      /\ g.client = req[q].client /\ g.proof = req[q].proof
      /\ pair[q].scope = g.scope
      /\ Audience(pair[q].resource) \subseteq Audience(g.resource)

\* Racing redemptions do not make each other lose: a code that disappears before it expires
\* was spent by a request that answers with its tokens.  Two things alone take that answer
\* away, neither of them another redemption: a deletion of the tokens themselves before
\* TokenView reads them back, and a crash after the DELETE.
SpentCodeWasWon ==
  \A c \in Code : grant[c].status = "gone" /\ ~Expired(c) =>
    \E q \in Request : req[q].code = c /\ (Answered(q) \/ Undone(q) \/ Crashed(q))

\* What the invariants above rest on: the code of a request in flight was issued, to the
\* client and with the scope the request carries; a winner's code is gone; and a pair saved
\* while its code is still stored is within the grant.
RequestBound ==
  \A q \in Request : req[q].phase # "new" =>
    LET g == grant[req[q].code] IN
      /\ g.status # "free" /\ g.client = req[q].client /\ g.scope = req[q].scope
      /\ Won(q) \/ req[q].phase \in {"proved", "saved"} => g.proof = req[q].proof
WonIsGone == \A q \in Request : Won(q) => grant[req[q].code].status = "gone"
SavedWithinGrant ==
  \A q \in Request : Won(q) \/ (req[q].phase = "saved" /\ Stored(req[q].code)) =>
    /\ pair[q].scope = req[q].scope
    /\ Audience(pair[q].resource) \subseteq Audience(grant[req[q].code].resource)
Redemptions == RequestBound /\ WonIsGone /\ SavedWithinGrant /\ OneDelivery

\* cleartokens works from the clock it read when it started; it never deletes a code that
\* could still be redeemed.
CleanupSparesLiveCodes ==
  [][\A c \in Code : \A B \in SUBSET Code : DeleteBatch(B) /\ c \in B => Expired(c)]_vars

\* A code is a single-use ticket held by the request that won it.
TicketState == [c \in Code |-> CASE grant[c].status = "free" -> "unissued"
                                 [] grant[c].status = "stored" -> "open"
                                 [] OTHER -> "spent"]
TicketHolders == [c \in Code |-> {q \in Request : Won(q) /\ req[q].code = c}]
Ticket == INSTANCE SingleUse WITH
  Ticket <- Code, Holder <- Request, state <- TicketState, holders <- TicketHolders
IsSingleUse == Ticket!Spec
=============================================================================
