------------------------ MODULE PushedAuthorization ------------------------
(***************************************************************************)
(* Pushed authorization requests (RFC 9126): the PAR endpoint stores the   *)
(* parameters of an authorization request under a request_uri, and the     *)
(* authorization endpoint (AuthorizationView.get, form_valid) consumes it  *)
(* once, before the login, consent and code of the ordinary flow.          *)
(*                                                                         *)
(* A visit is one browser's way through the authorization endpoint: it     *)
(* submits the form it was served, or is a POST whose form fields no page  *)
(* of the server filled in.  Slip... definitions are wrong variants of the *)
(* definition after them, as in RefreshTokens.                             *)
(***************************************************************************)
EXTENDS Integers, FiniteSets

CONSTANTS
  Uri,         \* request_uri values, one per push
  Client, Visit,
  Lifetime,    \* PAR_REQUEST_URI_LIFETIME_SECONDS
  Mandatory,   \* the clients PAR is mandatory for: those with the flag, or all of them under
               \* REQUIRE_PUSHED_AUTHORIZATION_REQUESTS
  MaxTime,     \* bound: the clock
  MaxSubmits,  \* bound: how often a browser submits one form
  Null

ASSUME PushAssumption ==
  /\ Lifetime \in Nat /\ MaxTime \in Nat /\ MaxSubmits \in Nat /\ Mandatory \subseteq Client
  /\ Null \notin Uri /\ Null \notin Client /\ Null \notin Nat

VARIABLES
  now,     \* timezone.now()
  pushed,  \* the PushedAuthorizationRequest table; a deleted row keeps its contents for the properties only
  visit,   \* where each browser is
  reaper   \* `now` of a running clear_expired(), or Null

vars == <<now, pushed, visit, reaper>>

----------------------------------------------------------------------------

\* `prompt` says whether the pushed parameters include prompt=login.
PushedRow == [status: {"free", "stored", "gone"}, client: Client \cup {Null},
              prompt: BOOLEAN, expires: Nat]
NotPushed == [status |-> "free", client |-> Null, prompt |-> FALSE, expires |-> 0]

\* "get": about to load the authorization endpoint; "login": sent to the login page;
\* "resolved": its request_uri is consumed; "form": the consent form is shown; "posted": the
\* visit was nothing but a POST with form fields of its own.
\* `uri` and `prompt` are the parameters of the next GET, `source` the request_uri the
\* visit consumed, `codes` how many codes it obtained.
VisitState == [phase: {"new", "get", "login", "resolved", "form", "done", "error", "posted"},
               client: Client \cup {Null}, uri: Uri \cup {Null}, prompt: BOOLEAN,
               session: BOOLEAN, source: Uri \cup {Null}, usedAt: Nat, codes: 0..MaxSubmits]
NotStarted == [phase |-> "new", client |-> Null, uri |-> Null, prompt |-> FALSE,
               session |-> FALSE, source |-> Null, usedAt |-> 0, codes |-> 0]

Stored(u) == pushed[u].status = "stored"
Expired(u) == now >= pushed[u].expires
Delete(U) == [u \in Uri |-> IF u \in U THEN [pushed[u] EXCEPT !.status = "gone"] ELSE pushed[u]]

Init == /\ now = 0
        /\ pushed = [u \in Uri |-> NotPushed]
        /\ visit = [v \in Visit |-> NotStarted]
        /\ reaper = Null

Tick == /\ now < MaxTime
        /\ now' = now + 1
        /\ UNCHANGED <<pushed, visit, reaper>>

SlipExpiry == now - Lifetime
Expiry == now + Lifetime

\* POST /par/ by an authenticated client with valid parameters.
Push(u, c, prompt) ==
  /\ pushed[u].status = "free"
  /\ pushed' = [pushed EXCEPT ![u] = [status |-> "stored", client |-> c, prompt |-> prompt,
                                      expires |-> Expiry]]
  /\ UNCHANGED <<now, visit, reaper>>

----------------------------------------------------------------------------
(* The authorization endpoint.                                             *)

\* A browser, signed in or not, follows a link with a request_uri and a client_id, or with
\* plain parameters.
Start(v, c, u, signedIn, prompt) ==
  /\ visit[v].phase = "new"
  /\ u # Null => pushed[u].status # "free" /\ ~prompt
  /\ visit' = [visit EXCEPT ![v] = [NotStarted EXCEPT !.phase = "get", !.client = c, !.uri = u,
                                                      !.prompt = prompt, !.session = signedIn]]
  /\ UNCHANGED <<now, pushed, reaper>>

\* LoginRequiredMixin comes before get(): nothing is consumed, `next` is the URL as it is.
RequireLogin(v) ==
  /\ visit[v].phase = "get" /\ ~visit[v].session
  /\ visit' = [visit EXCEPT ![v].phase = "login", ![v].prompt = FALSE]
  /\ UNCHANGED <<now, pushed, reaper>>

Login(v) ==
  /\ visit[v].phase = "login"
  /\ visit' = [visit EXCEPT ![v].phase = "get", ![v].session = TRUE]
  /\ UNCHANGED <<now, pushed, reaper>>

\* consume_pushed_request, one transaction under the row lock.  The binding is checked
\* before the row is deleted, the expiry after.
Arrives(v) == visit[v].phase = "get" /\ visit[v].session /\ visit[v].uri # Null

SlipConsume(v) ==
  LET u == visit[v].uri IN
  /\ Arrives(v)
  /\ pushed[u].status # "free" /\ pushed[u].client = visit[v].client /\ ~Expired(u)
  /\ pushed' = Delete({u})
  /\ visit' = [visit EXCEPT ![v].phase = "resolved", ![v].uri = Null, ![v].source = u,
                            ![v].usedAt = now, ![v].prompt = pushed[u].prompt]
  /\ UNCHANGED <<now, reaper>>
Consume(v) ==
  LET u == visit[v].uri IN
  /\ Arrives(v)
  /\ Stored(u) /\ pushed[u].client = visit[v].client /\ ~Expired(u)
  /\ pushed' = Delete({u})
  /\ visit' = [visit EXCEPT ![v].phase = "resolved", ![v].uri = Null, ![v].source = u,
                            ![v].usedAt = now, ![v].prompt = pushed[u].prompt]
  /\ UNCHANGED <<now, reaper>>
ConsumeExpired(v) ==
  LET u == visit[v].uri IN
  /\ Arrives(v)
  /\ Stored(u) /\ pushed[u].client = visit[v].client /\ Expired(u)
  /\ pushed' = Delete({u})
  /\ visit' = [visit EXCEPT ![v].phase = "error"]
  /\ UNCHANGED <<now, reaper>>
SlipConsumeRefused(v) ==
  /\ Arrives(v)
  /\ ~Stored(visit[v].uri) \/ pushed[visit[v].uri].client # visit[v].client
  /\ visit' = [visit EXCEPT ![v].phase = "error"]
  /\ pushed' = IF Stored(visit[v].uri) THEN Delete({visit[v].uri}) ELSE pushed
  /\ UNCHANGED <<now, reaper>>
ConsumeRefused(v) ==
  /\ Arrives(v)
  /\ ~Stored(visit[v].uri) \/ pushed[visit[v].uri].client # visit[v].client
  /\ visit' = [visit EXCEPT ![v].phase = "error"]
  /\ UNCHANGED <<now, pushed, reaper>>

\* A GET without a request_uri: refused where PAR is mandatory, whatever led to it.
Required(v) == visit[v].client \in Mandatory
ArrivesPlain(v) == visit[v].phase = "get" /\ visit[v].session /\ visit[v].uri = Null

RefusePlain(v) ==
  /\ ArrivesPlain(v) /\ Required(v)
  /\ visit' = [visit EXCEPT ![v].phase = "error"]
  /\ UNCHANGED <<now, pushed, reaper>>
SlipAcceptPlain(v) ==
  /\ ArrivesPlain(v)
  /\ visit' = [visit EXCEPT ![v].phase = "resolved"]
  /\ UNCHANGED <<now, pushed, reaper>>
AcceptPlain(v) ==
  /\ ArrivesPlain(v) /\ ~Required(v)
  /\ visit' = [visit EXCEPT ![v].phase = "resolved"]
  /\ UNCHANGED <<now, pushed, reaper>>

\* handle_prompt_login: back to the login page with prompt dropped; `next` is the rewritten
\* query string, which holds the pushed parameters and no request_uri.
PromptLogin(v) ==
  /\ visit[v].phase = "resolved" /\ visit[v].prompt
  /\ visit' = [visit EXCEPT ![v].phase = "login", ![v].prompt = FALSE]
  /\ UNCHANGED <<now, pushed, reaper>>

\* The rest of get(): the consent form, or a code at once for a trusted application or an
\* earlier approval.
ShowForm(v) ==
  /\ visit[v].phase = "resolved" /\ ~visit[v].prompt
  /\ visit' = [visit EXCEPT ![v].phase = "form"]
  /\ UNCHANGED <<now, pushed, reaper>>
SkipForm(v) ==
  /\ visit[v].phase = "resolved" /\ ~visit[v].prompt /\ MaxSubmits > 0
  /\ visit' = [visit EXCEPT ![v].phase = "done", ![v].codes = 1]
  /\ UNCHANGED <<now, pushed, reaper>>

\* form_valid: a code per submission; a browser may go back and submit again, or deny.
SubmitForm(v) ==
  /\ visit[v].phase = "form" /\ visit[v].codes < MaxSubmits
  /\ visit' = [visit EXCEPT ![v].codes = @ + 1]
  /\ UNCHANGED <<now, pushed, reaper>>

\* form_valid again, reached without get(): a POST by a signed-in browser with fields that were
\* in no form it was served.  The client and its redirect URI are what the fields say; whether
\* PAR is mandatory is asked in get() only.  The approval reads and changes nothing of another
\* visit, so it is a visit of its own.
PostFields(v, c) ==
  /\ visit[v].phase = "new" /\ MaxSubmits > 0
  /\ visit' = [visit EXCEPT ![v] = [NotStarted EXCEPT !.phase = "posted", !.client = c,
                                                      !.session = TRUE, !.codes = 1]]
  /\ UNCHANGED <<now, pushed, reaper>>

\* The user denies or leaves, validation fails, a worker crashes after the request_uri was
\* consumed.
Abandon(v) ==
  /\ visit[v].phase \in {"get", "login", "resolved", "form"}
  /\ visit' = [visit EXCEPT ![v].phase = "done"]
  /\ UNCHANGED <<now, pushed, reaper>>

----------------------------------------------------------------------------
(* The last stage of clear_expired().                                      *)

StartCleanup == /\ reaper = Null
                /\ reaper' = now
                /\ UNCHANGED <<now, pushed, visit>>

Overdue == {u \in Uri : Stored(u) /\ pushed[u].expires < reaper}

DeleteBatch(U) == /\ reaper # Null
                  /\ U # {} /\ U \subseteq Overdue
                  /\ pushed' = Delete(U)
                  /\ UNCHANGED <<now, visit, reaper>>

StopCleanup == /\ reaper # Null
               /\ reaper' = Null
               /\ UNCHANGED <<now, pushed, visit>>

----------------------------------------------------------------------------

Browse(v) ==
  \/ \E c \in Client, u \in Uri \cup {Null}, signedIn, prompt \in BOOLEAN :
       Start(v, c, u, signedIn, prompt)
  \/ \E c \in Client : PostFields(v, c)
  \/ RequireLogin(v) \/ Login(v)
  \/ Consume(v) \/ ConsumeExpired(v) \/ ConsumeRefused(v)
  \/ RefusePlain(v) \/ AcceptPlain(v)
  \/ PromptLogin(v) \/ ShowForm(v) \/ SkipForm(v) \/ SubmitForm(v) \/ Abandon(v)

Next ==
  \/ Tick
  \/ \E u \in Uri, c \in Client, prompt \in BOOLEAN : Push(u, c, prompt)
  \/ \E v \in Visit : Browse(v)
  \/ StartCleanup \/ StopCleanup \/ \E U \in SUBSET Uri : DeleteBatch(U)

Spec == Init /\ [][Next]_vars

----------------------------------------------------------------------------
(* Properties.                                                             *)

\* Every table and every local state keeps its shape.
TypeOK == /\ now \in Nat
          /\ pushed \in [Uri -> PushedRow]
          /\ visit \in [Visit -> VisitState]
          /\ reaper \in Nat \cup {Null}

OutOfPush(v) ==
  LET u == visit[v].source IN
    /\ u # Null
    /\ pushed[u].client = visit[v].client
    /\ visit[v].usedAt < pushed[u].expires

\* Where PAR is mandatory, a visit that enters by get() obtains codes out of a pushed request
\* only, through logins, prompts and repeated submissions: one that it consumed itself, before
\* it expired, and that was pushed by the client the codes are for.  The exception is named: a
\* POST that brings form fields of its own (form_valid) is not asked for a pushed request.
CodesWerePushed ==
  \A v \in Visit : Required(v) /\ visit[v].codes > 0 /\ visit[v].phase # "posted" => OutOfPush(v)

\* However many browsers hold a request_uri, one of them at most gets past it.
OneConsumer ==
  \A v, w \in Visit : visit[v].source # Null /\ visit[v].source = visit[w].source => v = w

\* What the invariants above rest on: a consumed request_uri is deleted, and belonged to the
\* visit's client when it was consumed unexpired.
ConsumedIsGone ==
  \A v \in Visit : visit[v].source # Null =>
    LET u == visit[v].source IN
      /\ pushed[u].status = "gone"
      /\ pushed[u].client = visit[v].client
      /\ visit[v].usedAt < pushed[u].expires
PlainHasNoForm ==
  \A v \in Visit : Required(v) /\ visit[v].source = Null =>
    visit[v].phase = "posted" \/ (visit[v].codes = 0 /\ visit[v].phase \notin {"resolved", "form"})
Visits == OneConsumer /\ ConsumedIsGone /\ PlainHasNoForm

\* A request_uri that has not expired disappears only into a visit of the client it was
\* pushed by: another client presenting it, or a cleanup, leaves it usable.
OnlyItsClientUsesIt ==
  [][\A u \in Uri : Stored(u) /\ pushed'[u].status = "gone" /\ ~Expired(u) =>
       \E v \in Visit : visit[v].source = Null /\ visit'[v].source = u
                          /\ visit[v].client = pushed[u].client]_vars

\* A request_uri is a single-use ticket held by the visit that consumed it.
TicketState == [u \in Uri |-> CASE pushed[u].status = "free" -> "unissued"
                                [] pushed[u].status = "stored" -> "open"
                                [] OTHER -> "spent"]
TicketHolders == [u \in Uri |-> {v \in Visit : visit[v].source = u}]
Ticket == INSTANCE SingleUse WITH
  Ticket <- Uri, Holder <- Visit, state <- TicketState, holders <- TicketHolders
IsSingleUse == Ticket!Spec
=============================================================================
