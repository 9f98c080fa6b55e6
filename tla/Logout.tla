------------------------------- MODULE Logout -------------------------------
(***************************************************************************)
(* RP-initiated logout (RPInitiatedLogoutView, oidc/views.py) beside the   *)
(* users who log in, the clients that refresh their tokens, and the        *)
(* cleartokens command.  A logout deletes what the user's clients hold row *)
(* by row, in no transaction: it lists the refresh tokens, then the access *)
(* tokens, then deletes the ones and revokes the others.                   *)
(*                                                                         *)
(* One browser, whose session several logouts may share.  The rows of one  *)
(* issuance have one name: an access token, the refresh token bound to it  *)
(* and the ID token issued along.  A hint is a genuine ID token, and the   *)
(* URI to return to was checked (RedirectMatching).  Reuse, the grace      *)
(* period and idle expiry are in RefreshTokens.                            *)
(* Slip... operators are wrong variants, used to test the properties.      *)
(***************************************************************************)
EXTENDS Integers, FiniteSets

CONSTANTS
  User,
  Token,         \* the names of issuances
  Attempt,       \* the logout requests
  Kinds,         \* of issuances: for a device, with an ID token, with a refresh token
  AccessLife,    \* ACCESS_TOKEN_EXPIRE_SECONDS; ID tokens live as long
  AlwaysPrompt,  \* OIDC_RP_INITIATED_LOGOUT_ALWAYS_PROMPT
  MaxTime,       \* bound on the clock
  Null

ASSUME LogoutAssumption ==
  /\ Kinds \subseteq [device: BOOLEAN, oidc: BOOLEAN, offline: BOOLEAN]
  /\ AccessLife \in Nat /\ MaxTime \in Nat /\ AlwaysPrompt \in BOOLEAN
  /\ Null \notin User \cup Token \cup Nat

VARIABLES
  now,
  access,   \* [Token -> OrNull(AccessRow)]
  refresh,  \* [Token -> OrNull(RefreshRow)]
  idToken,  \* [Token -> OrNull([user, expires])]
  issued,   \* the names already used
  session,  \* the user signed in with the browser
  attempt   \* the local state of each logout

serverVars == <<now, access, refresh, idToken, issued, session, attempt>>

OrNull(S) == S \cup {Null}

\* `device` says that the application is one of the device grant, `oidc` that an ID token was
\* issued along, `bound` that the refresh token has its access token.
AccessRow == [user: User, device: BOOLEAN, oidc: BOOLEAN, expires: Nat]
RefreshRow == [user: User, device: BOOLEAN, oidc: BOOLEAN, bound: BOOLEAN, revoked: BOOLEAN]

ASSUME RowAssumption == Null \notin AccessRow

\* History: `before` is what the user's clients held when the logout was let through, and
\* `alone` says that no other logout of the user ran since.
Nothing == [access |-> {}, usable |-> {}]
Fresh == [stage |-> "idle", hint |-> Null, user |-> Null, access |-> {}, refresh |-> {},
          before |-> Nothing, alone |-> TRUE]

LogoutInit ==
  /\ now = 0 /\ issued = {} /\ session = Null
  /\ access = [t \in Token |-> Null] /\ refresh = [t \in Token |-> Null]
  /\ idToken = [t \in Token |-> Null]
  /\ attempt = [l \in Attempt |-> Fresh]

LogoutTick == now < MaxTime /\ now' = now + 1 /\ UNCHANGED <<access, refresh, idToken, issued, session, attempt>>

----------------------------------------------------------------------------
(* Tables.                                                                 *)

Has(table, x) == table[x] # Null
Live(r) == Has(refresh, r) /\ ~refresh[r].revoked

\* Deleting rows: a refresh token is left without its access token (SET_NULL), an access token
\* goes with its ID token (CASCADE).
Without(table, gone) == [x \in DOMAIN table |-> IF x \in gone THEN Null ELSE table[x]]
Unbound(table, gone) ==
  [t \in DOMAIN table |-> IF t \in gone /\ table[t] # Null THEN [table[t] EXCEPT !.bound = FALSE] ELSE table[t]]

\* The tables with what save_bearer_token makes as `t` for the user and the application of
\* `row`, whose access, refresh and ID token are given.
Issue(t, row, tables) ==
  /\ t \notin issued /\ issued' = issued \cup {t}
  /\ access' = [tables.access EXCEPT ![t] = [user |-> row.user, device |-> row.device, oidc |-> row.oidc,
                                             expires |-> now + AccessLife]]
  /\ refresh' = IF row.offline
                THEN [tables.refresh EXCEPT ![t] = [user |-> row.user, device |-> row.device, oidc |-> row.oidc,
                                                    bound |-> TRUE, revoked |-> FALSE]]
                ELSE tables.refresh
  /\ idToken' = IF row.oidc THEN [idToken EXCEPT ![t] = [user |-> row.user, expires |-> now + AccessLife]]
                ELSE idToken

----------------------------------------------------------------------------
(* Users and clients.                                                      *)

SignIn(u) ==
  /\ session = Null /\ session' = u
  /\ UNCHANGED <<now, access, refresh, idToken, issued, attempt>>

\* The signed-in user authorises a client, or a device.
Authorise(t, kind) ==
  /\ session # Null
  /\ Issue(t, [user |-> session, device |-> kind.device, oidc |-> kind.oidc, offline |-> kind.offline],
           [access |-> access, refresh |-> refresh])
  /\ UNCHANGED <<now, session, attempt>>

\* RefreshToken.revoke.
Revoked(r) ==
  [access |-> Without(access, {r}),
   refresh |-> [refresh EXCEPT ![r].revoked = TRUE, ![r].bound = FALSE]]

\* A rotation is one transaction: the presented token is revoked, its access token deleted, and
\* their ID token is left behind.
Rotate(r, t) ==
  /\ Live(r)
  /\ Issue(t, [user |-> refresh[r].user, device |-> refresh[r].device, oidc |-> refresh[r].oidc, offline |-> TRUE],
           Revoked(r))
  /\ UNCHANGED <<now, session, attempt>>

\* An access token is kept for the refresh token that is bound to it.
SlipKept(t) == FALSE
Kept(t) == Has(refresh, t) /\ refresh[t].bound

\* clear_expired, one row at a time: a refresh token without access token, an expired access
\* token without refresh token, an expired ID token without access token.
Clear(t) ==
  /\ \/ /\ Live(t) /\ ~refresh[t].bound
        /\ refresh' = Without(refresh, {t}) /\ UNCHANGED <<access, idToken>>
     \/ /\ Has(access, t) /\ access[t].expires < now /\ ~Kept(t)
        /\ access' = Without(access, {t}) /\ refresh' = Unbound(refresh, {t}) /\ UNCHANGED idToken
     \/ /\ Has(idToken, t) /\ idToken[t].expires < now /\ ~Has(access, t)
        /\ idToken' = Without(idToken, {t}) /\ UNCHANGED <<access, refresh>>
  /\ UNCHANGED <<now, issued, session, attempt>>

----------------------------------------------------------------------------
(* A logout.                                                               *)

\* The grant types of applications whose tokens are deleted: all but the device grant.
Deletes(row) == ~row.device

AccessOf(u) == {t \in Token : Has(access, t) /\ access[t].user = u /\ Deletes(access[t])}
SlipRefreshOf(u) == {}
RefreshOf(u) == {t \in AccessOf(u) : Has(refresh, t) /\ refresh[t].bound}

UsableBy(u) == {t \in Token : Live(t) /\ refresh[t].user = u}

\* The user of the hint, as long as its ID token is stored.
HintUser(hint) == IF hint # Null /\ Has(idToken, hint) THEN idToken[hint].user ELSE Null

MustPrompt(u) == session # Null /\ (AlwaysPrompt \/ u # session)

Running(u) == {l \in Attempt : attempt[l].user = u /\ attempt[l].stage \in {"started", "listed", "deleting"}}

\* do_logout begins: for the user of the hint, or the one signed in, or nobody.
Begin(l, hint) ==
  LET u == IF HintUser(hint) # Null THEN HintUser(hint) ELSE session
      others == Running(u)
      begun == IF u = Null THEN [Fresh EXCEPT !.stage = "deleting"]
               ELSE [Fresh EXCEPT !.stage = "started", !.user = u, !.alone = others = {},
                       !.before = [access |-> AccessOf(u), usable |-> UsableBy(u)]]
  IN  attempt' = [m \in Attempt |->
        IF m = l THEN begun ELSE IF m \in others THEN [attempt[m] EXCEPT !.alone = FALSE] ELSE attempt[m]]

RequestLogout(l, hint) ==
  /\ attempt[l].stage = "idle"
  /\ hint # Null => hint \in issued
  /\ IF MustPrompt(HintUser(hint))
       THEN attempt' = [attempt EXCEPT ![l] = [Fresh EXCEPT !.stage = "prompted", !.hint = hint]]
       ELSE Begin(l, hint)
  /\ UNCHANGED <<now, access, refresh, idToken, issued, session>>

\* The answer to the prompt is validated again from the start.
ConfirmLogout(l, allow) ==
  /\ attempt[l].stage = "prompted"
  /\ IF allow \/ ~MustPrompt(HintUser(attempt[l].hint))
       THEN Begin(l, attempt[l].hint)
       ELSE attempt' = [attempt EXCEPT ![l] = Fresh]
  /\ UNCHANGED <<now, access, refresh, idToken, issued, session>>

ListRefresh(l) ==
  /\ attempt[l].stage = "started"
  /\ attempt' = [attempt EXCEPT ![l].stage = "listed", ![l].refresh = RefreshOf(attempt[l].user)]
  /\ UNCHANGED <<now, access, refresh, idToken, issued, session>>

ListAccess(l) ==
  /\ attempt[l].stage = "listed"
  /\ attempt' = [attempt EXCEPT ![l].stage = "deleting",
                                ![l].access = {[id |-> a, oidc |-> access[a].oidc] : a \in AccessOf(attempt[l].user)}]
  /\ UNCHANGED <<now, access, refresh, idToken, issued, session>>

\* The ID token of a listed row is fetched now: without it, DoesNotExist ends the request.
DeleteOne(l, row) ==
  /\ attempt[l].stage = "deleting" /\ row \in attempt[l].access
  /\ IF row.oidc /\ ~Has(idToken, row.id)
       THEN /\ attempt' = [attempt EXCEPT ![l].stage = "failed"]
            /\ UNCHANGED <<access, refresh, idToken>>
       ELSE /\ access' = Without(access, {row.id})
            /\ refresh' = Unbound(refresh, {row.id})
            /\ idToken' = Without(idToken, {row.id})
            /\ attempt' = [attempt EXCEPT ![l].access = @ \ {row}]
  /\ UNCHANGED <<now, issued, session>>

\* RefreshToken.revoke, which takes the row as it is by then.
RevokeOne(l, r) ==
  /\ attempt[l].stage = "deleting" /\ attempt[l].access = {} /\ r \in attempt[l].refresh
  /\ IF Live(r)
       THEN access' = Revoked(r).access /\ refresh' = Revoked(r).refresh
       ELSE UNCHANGED <<access, refresh>>
  /\ attempt' = [attempt EXCEPT ![l].refresh = @ \ {r}]
  /\ UNCHANGED <<now, idToken, issued, session>>

EndSession(l) ==
  /\ attempt[l].stage = "deleting" /\ attempt[l].access = {} /\ attempt[l].refresh = {}
  /\ session' = Null
  /\ attempt' = [attempt EXCEPT ![l].stage = "done"]
  /\ UNCHANGED <<now, access, refresh, idToken, issued>>

LogoutStep(l) ==
  \/ \E hint \in OrNull(Token) : RequestLogout(l, hint)
  \/ \E allow \in BOOLEAN : ConfirmLogout(l, allow)
  \/ ListRefresh(l) \/ ListAccess(l)
  \/ \E row \in attempt[l].access : DeleteOne(l, row)
  \/ \E r \in attempt[l].refresh : RevokeOne(l, r)
  \/ EndSession(l)

ServerNext ==
  \/ LogoutTick
  \/ \E u \in User : SignIn(u)
  \/ \E t \in Token :
       \/ \E kind \in Kinds : Authorise(t, kind)
       \/ \E r \in Token : Rotate(r, t)
       \/ Clear(t)
  \/ \E l \in Attempt : LogoutStep(l)

LogoutSpec == LogoutInit /\ [][ServerNext]_serverVars

----------------------------------------------------------------------------
(* Properties.                                                             *)

\* A logout that came to its end took everything the user's clients held when it began, but
\* for the device grant: none of those access tokens is left, and none of those refresh tokens
\* can be used, whatever rotations and cleartokens do during the sweep.  It is sure of the
\* refresh tokens only while no other logout of the user runs: that may delete the access token
\* behind one, which neither then lists (oidc/views.py:541-559).
LogoutSweeps ==
  \A l \in Attempt : attempt[l].stage = "done" =>
    /\ \A a \in attempt[l].before.access : ~Has(access, a)
    /\ attempt[l].alone => \A t \in attempt[l].before.usable \cap attempt[l].before.access : ~Live(t)

\* A refresh token lives with an access token of the same user and application, unless a logout
\* deleted that behind a rotation (models.py:1566 calls the rest out-of-band).
OnlyLogoutsOrphan ==
  \A t \in Token : Live(t) =>
    IF refresh[t].bound
    THEN Has(access, t) /\ access[t].user = refresh[t].user /\ access[t].device = refresh[t].device
    ELSE \E l \in Attempt : attempt[l].user = refresh[t].user
=============================================================================
