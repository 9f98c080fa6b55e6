--------------------------- MODULE RefreshTokens ---------------------------
(***************************************************************************)
(* The access-token and refresh-token tables of django-oauth-toolkit and   *)
(* everything that changes them together: the refresh_token grant          *)
(* (validate_refresh_token, get_original_scopes, save_bearer_token), the   *)
(* revocation endpoint (revoke_token, revoke_access_token), reuse          *)
(* detection (RefreshToken.revoke_family) and the cleartokens command      *)
(* (clear_expired).                                                        *)
(*                                                                         *)
(* Isolation.  Every transaction.atomic() block of the code is one action, *)
(* placed at the point where it holds its row locks, except                *)
(* revoke_family(), whose two statements see different snapshots under     *)
(* READ COMMITTED: it locks rows in one step and takes effect in another.  *)
(* Reads outside a transaction are steps of their own.                     *)
(*                                                                         *)
(* A definition named Slip... is a wrong variant of the definition after   *)
(* it, a mistake the properties are known to notice; nothing uses it.      *)
(***************************************************************************)
EXTENDS Integers, FiniteSets

CONSTANTS
  RefreshId, AccessId,  \* primary keys; a key is used once
  Request,              \* concurrent HTTP requests to the token and revocation endpoints
  Scope, Resource,      \* scope values; RFC 8707 resource indicators
  AccessLife,           \* ACCESS_TOKEN_EXPIRE_SECONDS
  Grace,                \* REFRESH_TOKEN_GRACE_PERIOD_SECONDS
  IdleLife,             \* REFRESH_TOKEN_EXPIRE_SECONDS, 0 when age expiry is off
  Rotation,             \* the answers of rotate_refresh_token(request) there may be
  ReuseProtection,      \* REFRESH_TOKEN_REUSE_PROTECTION
  BatchSize,            \* CLEAR_EXPIRED_TOKENS_BATCH_SIZE
  MaxTime, MaxGrants,   \* bounds: the clock; token pairs issued by other grants
  MaxRevocations,       \* bound: refresh tokens presented to /revoke/
  RunCleanup,           \* whether cleartokens is ever run
  Null

ASSUME IdAssumption ==
  /\ Null \notin RefreshId /\ Null \notin AccessId /\ Null \notin Nat
  /\ Null \notin [scope : SUBSET Scope, resource : SUBSET Resource]
  /\ IsFiniteSet(RefreshId) /\ IsFiniteSet(AccessId)
ASSUME SettingAssumption ==
  /\ AccessLife \in Nat /\ Grace \in Nat /\ IdleLife \in Nat
  /\ BatchSize \in Nat /\ BatchSize > 0
  /\ Rotation \subseteq BOOLEAN /\ ReuseProtection \in BOOLEAN
ASSUME BoundAssumption ==
  MaxTime \in Nat /\ MaxGrants \in Nat /\ MaxRevocations \in Nat /\ RunCleanup \in BOOLEAN

VARIABLES
  now,         \* timezone.now()
  refresh,     \* the RefreshToken table
  access,      \* the AccessToken table
  granted,     \* history: what each family's first token pair was granted
  repudiated,  \* refresh tokens their owner presented to /revoke/, which MaxRevocations counts
  req,         \* the local state of each request between its database steps
  cleaner      \* the local state of the cleartokens command

vars == <<now, refresh, access, granted, repudiated, req, cleaner>>

----------------------------------------------------------------------------
(* Rows.  "free" is a key not allocated yet, "gone" a deleted row.  The    *)
(* family of a token is named after the key of its first refresh token.    *)

Status == {"free", "stored", "gone"}
OrNull(S) == S \cup {Null}

RefreshRow == [status: Status, family: OrNull(RefreshId), access: OrNull(AccessId),
               resource: SUBSET Resource, revoked: OrNull(Nat)]
AccessRow  == [status: Status, family: OrNull(RefreshId), source: OrNull(RefreshId),
               scope: SUBSET Scope, resource: SUBSET Resource, expires: Nat]

EmptyRefresh(st) == [status |-> st, family |-> Null, access |-> Null,
                     resource |-> {}, revoked |-> Null]
EmptyAccess(st)  == [status |-> st, family |-> Null, source |-> Null,
                     scope |-> {}, resource |-> {}, expires |-> 0]

NewRefresh(f, a, res) == [status |-> "stored", family |-> f, access |-> a,
                          resource |-> res, revoked |-> Null]
SlipNewAccess(f, s, sc, res) == [status |-> "stored", family |-> f, source |-> s,
                                 scope |-> sc, resource |-> res, expires |-> Null]
NewAccess(f, s, sc, res) == [status |-> "stored", family |-> f, source |-> s,
                             scope |-> sc, resource |-> res,
                             expires |-> now + AccessLife]

Stored(r)  == refresh[r].status = "stored"
Live(r)    == Stored(r) /\ refresh[r].revoked = Null
Revoked(r) == Stored(r) /\ refresh[r].revoked # Null
StoredAccess(a) == access[a].status = "stored"

Members(f)    == {r \in RefreshId : Stored(r) /\ refresh[r].family = f}
SlipSuccessors(r) == {a \in AccessId : StoredAccess(a) /\ access[a].source = r
                                         /\ access[a].expires > now}
Successors(r) == {a \in AccessId : StoredAccess(a) /\ access[a].source = r}
BoundTo(a)    == {r \in RefreshId : Stored(r) /\ refresh[r].access = a}

\* An empty resource list is an unrestricted token (AbstractAccessToken.allows_audience).
Audience(res) == IF res = {} THEN Resource ELSE res

\* What a refresh request may end up with when the presented token holds `held`:
\* it inherits, or names a non-empty subset; an unrestricted token may be narrowed at will.
SlipNarrowedResource(held) == IF held = {} THEN SUBSET Resource ELSE SUBSET held
NarrowedResource(held) == IF held = {} THEN SUBSET Resource
                                       ELSE (SUBSET held) \ {{}}

\* get_original_scopes: from the bound access token, else from the successor (if any).
SlipOriginalScopes(r) ==
  IF refresh[r].access # Null THEN access[refresh[r].access].scope ELSE Scope
OriginalScopes(r) ==
  IF refresh[r].access # Null THEN access[refresh[r].access].scope
                              ELSE UNION {access[a].scope : a \in Successors(r)}

\* _create_refresh_token keeps the family of the token it replaces.
SlipChildFamily(old, r) == r
ChildFamily(old, r) == refresh[old].family

\* Deleting access rows nulls RefreshToken.access_token, deleting refresh rows nulls
\* AccessToken.source_refresh_token (both SET_NULL).
WithoutAccess(A) == [a \in AccessId |-> IF a \in A THEN EmptyAccess("gone") ELSE access[a]]
Unbound(A) == [r \in RefreshId |-> IF refresh[r].access \in A
                                     THEN [refresh[r] EXCEPT !.access = Null]
                                     ELSE refresh[r]]
WithoutRefresh(R) == [r \in RefreshId |-> IF r \in R THEN EmptyRefresh("gone") ELSE refresh[r]]
SlipUnsourced(R) == access
Unsourced(R) == [a \in AccessId |-> IF access[a].source \in R
                                      THEN [access[a] EXCEPT !.source = Null]
                                      ELSE access[a]]

\* RefreshToken.revoke(): a no-op unless the row is live; else delete the access token
\* bound to it and stamp it.
SlipAccessAfterRevoke(r) == access
AccessAfterRevoke(r)  == IF Live(r) THEN WithoutAccess({refresh[r].access}) ELSE access
SlipUnstampedRevoke(r) == IF Live(r) THEN Unbound({refresh[r].access}) ELSE refresh
SlipRestampedRevoke(r) ==
  IF Stored(r) THEN [Unbound({refresh[r].access}) EXCEPT ![r].access = Null, ![r].revoked = now]
               ELSE refresh
RefreshAfterRevoke(r) ==
  IF Live(r) THEN [Unbound({refresh[r].access}) EXCEPT ![r].access = Null, ![r].revoked = now]
             ELSE refresh

----------------------------------------------------------------------------
(* Local states.                                                           *)

Phase == {"idle", "recent", "late", "scopes", "save", "sweep", "revoke"}
RequestState == [phase: Phase, token: OrNull(RefreshId), family: OrNull(RefreshId),
                 access: OrNull(AccessId), scope: SUBSET Scope, resource: SUBSET Resource,
                 rows: SUBSET RefreshId, at: Nat]
Idle == [phase |-> "idle", token |-> Null, family |-> Null, access |-> Null,
         scope |-> {}, resource |-> {}, rows |-> {}, at |-> 0]

Stage == {"idle", "revoked", "orphans", "expired", "access"}
\* `renewed` is history: the access tokens prolonged in place since the batch was selected.
Resting == [stage |-> "idle", at |-> 0, batch |-> {}, renewed |-> {}]

\* Rows a running revoke_family() has updated and not yet committed.
Locked(r) == \E q \in Request : req[q].phase = "sweep" /\ r \in req[q].rows

AgeExpired(r) == IdleLife > 0 /\ access[refresh[r].access].expires + IdleLife <= now
Usable(r) == Live(r) /\ refresh[r].access # Null /\ ~AgeExpired(r)
GraceExpired(r) == refresh[r].revoked + Grace <= now
Superseded(r) == Successors(r) # {}

Init ==
  /\ now = 0
  /\ refresh = [r \in RefreshId |-> EmptyRefresh("free")]
  /\ access = [a \in AccessId |-> EmptyAccess("free")]
  /\ granted = [r \in RefreshId |-> Null]
  /\ repudiated = {}
  /\ req = [q \in Request |-> Idle]
  /\ cleaner = Resting

Tick == /\ now < MaxTime
        /\ now' = now + 1
        /\ UNCHANGED <<refresh, access, granted, repudiated, req, cleaner>>

\* Another grant type (authorization_code, password, device_code) issues the first pair
\* of a new family: the branch of _save_bearer_token without a refresh_token_instance.
IssuePair(r, a, sc, res) ==
  /\ Cardinality({f \in RefreshId : granted[f] # Null}) < MaxGrants
  /\ refresh[r].status = "free" /\ access[a].status = "free"
  /\ access' = [access EXCEPT ![a] = NewAccess(r, Null, sc, res)]
  /\ refresh' = [refresh EXCEPT ![r] = NewRefresh(r, a, res)]
  /\ granted' = [granted EXCEPT ![r] = [scope |-> sc, resource |-> res]]
  /\ UNCHANGED <<now, repudiated, req, cleaner>>

----------------------------------------------------------------------------
(* The refresh_token grant.                                                *)

\* validate_refresh_token accepts a live token; get_original_scopes then answers from the
\* access token already joined to the row, so the request keeps that snapshot.
AcceptLive(q, r, sc) ==
  /\ req[q].phase = "idle"
  /\ Usable(r)
  /\ sc \subseteq OriginalScopes(r)
  /\ req' = [req EXCEPT ![q] = [Idle EXCEPT
               !.phase = "save", !.token = r, !.family = refresh[r].family,
               !.access = refresh[r].access, !.scope = sc,
               !.resource = refresh[r].resource]]
  /\ UNCHANGED <<now, refresh, access, granted, repudiated, cleaner>>

\* validate_refresh_token reads a revoked row and compares its timestamp with the clock ...
ReadRevoked(q, r) ==
  /\ req[q].phase = "idle"
  /\ Revoked(r)
  /\ req' = [req EXCEPT ![q] = [Idle EXCEPT
               !.phase = IF GraceExpired(r) THEN "late" ELSE "recent",
               !.token = r, !.family = refresh[r].family, !.resource = refresh[r].resource]]
  /\ UNCHANGED <<now, refresh, access, granted, repudiated, cleaner>>

\* ... then looks for a successor, and accepts the token if it was inside its grace window
\* and a rotation superseded it.
AcceptSuperseded(q) ==
  /\ req[q].phase = "recent" /\ Superseded(req[q].token)
  /\ req' = [req EXCEPT ![q].phase = "scopes"]
  /\ UNCHANGED <<now, refresh, access, granted, repudiated, cleaner>>

\* get_original_scopes for such a token queries the successor, which may be gone by now.
LoadScopes(q, sc) ==
  /\ req[q].phase = "scopes"
  /\ sc \subseteq OriginalScopes(req[q].token)
  /\ req' = [req EXCEPT ![q].phase = "save", ![q].scope = sc]
  /\ UNCHANGED <<now, refresh, access, granted, repudiated, cleaner>>

\* Not rotating: the access row joined at validation is locked and rewritten in place.
Renewed(a) == IF cleaner.batch = {} THEN cleaner
                                    ELSE [cleaner EXCEPT !.renewed = @ \cup {a}]
SaveInPlace(q, res) ==
  LET a == req[q].access IN
  /\ req[q].phase = "save" /\ FALSE \in Rotation /\ a # Null
  /\ StoredAccess(a)
  /\ res \in NarrowedResource(req[q].resource)
  /\ access' = [access EXCEPT ![a].scope = req[q].scope, ![a].resource = res,
                              ![a].expires = now + AccessLife]
  /\ req' = [req EXCEPT ![q] = Idle]
  /\ cleaner' = Renewed(a)
  /\ UNCHANGED <<now, refresh, granted, repudiated>>

\* The rotating branch locks the presented row, looks up the access token an earlier
\* rotation of it minted, and revokes it (a no-op when it already is).
Rotating(q) == /\ req[q].phase = "save" /\ (TRUE \in Rotation \/ req[q].access = Null)
               /\ Stored(req[q].token) /\ ~Locked(req[q].token)

\* No earlier successor: mint a fresh pair in the family.
SaveFreshPair(q, r, a, res) ==
  LET old == req[q].token IN
  /\ Rotating(q) /\ Successors(old) = {}
  /\ res \in NarrowedResource(req[q].resource)
  /\ refresh[r].status = "free" /\ access[a].status = "free"
  /\ access' = [AccessAfterRevoke(old) EXCEPT ![a] =
                 NewAccess(refresh[old].family, old, req[q].scope, res)]
  /\ refresh' = [RefreshAfterRevoke(old) EXCEPT ![r] =
                 NewRefresh(ChildFamily(old, r), a, res)]
  /\ req' = [req EXCEPT ![q] = Idle]
  /\ UNCHANGED <<now, granted, repudiated, cleaner>>

\* The successor still has its refresh token: hand the same pair out again.
SaveReturnExisting(q) ==
  LET old == req[q].token IN
  /\ Rotating(q)
  /\ \E p \in Successors(old) : BoundTo(p) # {}
  /\ refresh' = RefreshAfterRevoke(old)
  /\ access' = AccessAfterRevoke(old)
  /\ req' = [req EXCEPT ![q] = Idle]
  /\ UNCHANGED <<now, granted, repudiated, cleaner>>

\* The successor lost its refresh token: re-issue one for it.
SaveReissueRefresh(q, r, res) ==
  LET old == req[q].token IN
  /\ Rotating(q)
  /\ res \in NarrowedResource(req[q].resource)
  /\ refresh[r].status = "free"
  /\ \E p \in Successors(old) :
       /\ BoundTo(p) = {}
       /\ refresh' = [RefreshAfterRevoke(old) EXCEPT
                        ![r] = NewRefresh(ChildFamily(old, r), p, res)]
  /\ access' = AccessAfterRevoke(old)
  /\ req' = [req EXCEPT ![q] = Idle]
  /\ UNCHANGED <<now, granted, repudiated, cleaner>>

\* Any failure between the steps -- a refused token, invalid_scope, invalid_target, a row gone
\* (DoesNotExist), a crashed worker -- ends the request; an open transaction rolls back.
Fail(q) == /\ req[q].phase # "idle"
           /\ req' = [req EXCEPT ![q] = Idle]
           /\ UNCHANGED <<now, refresh, access, granted, repudiated, cleaner>>

----------------------------------------------------------------------------
(* Reuse detection and revocation.                                         *)

\* validate_refresh_token refuses the token otherwise and calls revoke_family(): the UPDATE
\* locks the live members it sees (waiting for another sweep that holds one of them).
DetectReuse(q) ==
  LET live == {m \in Members(req[q].family) : Live(m)} IN
  /\ ReuseProtection
  /\ req[q].phase = "late" \/ (req[q].phase = "recent" /\ ~Superseded(req[q].token))
  /\ \A m \in live : ~Locked(m)
  /\ req' = [req EXCEPT ![q] = [Idle EXCEPT !.phase = "sweep", !.family = req[q].family,
                                            !.rows = live, !.at = now]]
  /\ UNCHANGED <<now, refresh, access, granted, repudiated, cleaner>>

\* The access tokens the DELETE of revoke_family() finds: the family is read again.
SlipSnapshotSweep(q) == {refresh[m].access : m \in req[q].rows} \ {Null}
SweptAccess(q) == {refresh[m].access : m \in Members(req[q].family)} \ {Null}

CommitSweep(q) ==
  LET A == SweptAccess(q) IN
  /\ req[q].phase = "sweep"
  /\ \A r \in RefreshId : refresh[r].access \in A => ~Locked(r) \/ r \in req[q].rows
  /\ access' = WithoutAccess(A)
  /\ refresh' = [r \in RefreshId |-> IF r \in req[q].rows
                   THEN [Unbound(A)[r] EXCEPT !.revoked = req[q].at] ELSE Unbound(A)[r]]
  /\ req' = [req EXCEPT ![q] = Idle]
  /\ UNCHANGED <<now, granted, repudiated, cleaner>>

\* /revoke/ with a refresh token.
RevokeRefresh(r) ==
  /\ Cardinality(repudiated \cup {r}) <= MaxRevocations
  /\ Stored(r) /\ ~Locked(r)
  /\ refresh' = RefreshAfterRevoke(r)
  /\ access' = AccessAfterRevoke(r)
  /\ repudiated' = repudiated \cup {r}
  /\ UNCHANGED <<now, granted, req, cleaner>>

\* /revoke/ with an access token: revoke_access_token looks the refresh token up without
\* a lock ...
BeginRevokeAccess(q, a) ==
  /\ req[q].phase = "idle" /\ StoredAccess(a)
  /\ \E r \in OrNull(RefreshId) :
       /\ IF BoundTo(a) = {} THEN r = Null ELSE r \in BoundTo(a)
       /\ req' = [req EXCEPT ![q] = [Idle EXCEPT !.phase = "revoke", !.access = a, !.token = r]]
  /\ UNCHANGED <<now, refresh, access, granted, repudiated, cleaner>>

\* ... and revokes what it found: the refresh token if there was one, else the access token.
FinishRevokeAccess(q) ==
  LET r == req[q].token
      a == req[q].access IN
  /\ req[q].phase = "revoke"
  /\ IF r # Null
       THEN /\ ~Locked(r)
            /\ refresh' = RefreshAfterRevoke(r) /\ access' = AccessAfterRevoke(r)
       ELSE /\ \A b \in BoundTo(a) : ~Locked(b)
            /\ refresh' = Unbound({a}) /\ access' = WithoutAccess({a})
  /\ req' = [req EXCEPT ![q] = Idle]
  /\ UNCHANGED <<now, granted, repudiated, cleaner>>

----------------------------------------------------------------------------
(* cleartokens.  Each stage deletes what its query matches, batch by       *)
(* batch; a batch reads keys and then deletes by key, whatever the rows    *)
(* have become.                                                            *)

\* refresh_revoked_at and refresh_expire_at; a stage whose cutoff is None is skipped.
SlipRevokedBefore(r) == refresh[r].revoked <= cleaner.at
RevokedBefore(r) == IF ReuseProtection
                      THEN IdleLife > 0 /\ refresh[r].revoked + IdleLife <= cleaner.at
                      ELSE refresh[r].revoked + Grace <= cleaner.at
SlipIdleBefore(r) == IdleLife > 0 /\ access[refresh[r].access].expires <= cleaner.at
IdleBefore(r) == IdleLife > 0 /\ access[refresh[r].access].expires + IdleLife <= cleaner.at

Matching(stage) ==
  CASE stage = "revoked" -> {r \in RefreshId : Revoked(r) /\ RevokedBefore(r)}
    [] stage = "orphans" -> {r \in RefreshId : Live(r) /\ refresh[r].access = Null}
    [] stage = "expired" -> {r \in RefreshId : Live(r) /\ refresh[r].access # Null /\ IdleBefore(r)}
    [] stage = "access"  -> {a \in AccessId : StoredAccess(a) /\ BoundTo(a) = {}
                                              /\ access[a].expires < cleaner.at}
    [] OTHER -> {}

FollowingStage(stage) == CASE stage = "revoked" -> "orphans"
                           [] stage = "orphans" -> "expired"
                           [] stage = "expired" -> "access"
                           [] OTHER -> "idle"

StartCleanup == /\ RunCleanup /\ cleaner.stage = "idle"
                /\ cleaner' = [stage |-> "revoked", at |-> now, batch |-> {}, renewed |-> {}]
                /\ UNCHANGED <<now, refresh, access, granted, repudiated, req>>

SlipSelectBatch ==
  /\ cleaner.stage # "idle" /\ cleaner.batch = {}
  /\ \E B \in SUBSET Matching(cleaner.stage) :
       Cardinality(B) = BatchSize /\ cleaner' = [cleaner EXCEPT !.batch = B, !.renewed = {}]
  /\ UNCHANGED <<now, refresh, access, granted, repudiated, req>>
SelectBatch ==
  /\ cleaner.stage # "idle" /\ cleaner.batch = {}
  /\ \E B \in SUBSET Matching(cleaner.stage) :
       /\ B # {}
       /\ Cardinality(B) = BatchSize \/ (B = Matching(cleaner.stage) /\ Cardinality(B) < BatchSize)
       /\ cleaner' = [cleaner EXCEPT !.batch = B, !.renewed = {}]
  /\ UNCHANGED <<now, refresh, access, granted, repudiated, req>>

DeleteRefreshBatch ==
  /\ cleaner.stage \in {"revoked", "orphans", "expired"} /\ cleaner.batch # {}
  /\ \A r \in cleaner.batch : ~Locked(r)
  /\ refresh' = WithoutRefresh(cleaner.batch \cap RefreshId)
  /\ access' = Unsourced(cleaner.batch \cap RefreshId)
  /\ cleaner' = [cleaner EXCEPT !.batch = {}, !.renewed = {}]
  /\ UNCHANGED <<now, granted, repudiated, req>>

DeleteAccessBatch ==
  /\ cleaner.stage = "access" /\ cleaner.batch # {}
  /\ \A a \in cleaner.batch : \A r \in BoundTo(a) : ~Locked(r)
  /\ refresh' = Unbound(cleaner.batch \cap AccessId)
  /\ access' = WithoutAccess(cleaner.batch \cap AccessId)
  /\ cleaner' = [cleaner EXCEPT !.batch = {}, !.renewed = {}]
  /\ UNCHANGED <<now, granted, repudiated, req>>

NextStage ==
  /\ cleaner.stage # "idle" /\ cleaner.batch = {} /\ Matching(cleaner.stage) = {}
  /\ cleaner' = IF cleaner.stage = "access" THEN Resting
                ELSE [cleaner EXCEPT !.stage = FollowingStage(cleaner.stage)]
  /\ UNCHANGED <<now, refresh, access, granted, repudiated, req>>

\* The command is killed; every batch already deleted stays deleted.
KillCleanup == /\ cleaner.stage # "idle"
               /\ cleaner' = Resting
               /\ UNCHANGED <<now, refresh, access, granted, repudiated, req>>

----------------------------------------------------------------------------

RefreshGrant(q) ==
  \/ \E r \in RefreshId : \/ ReadRevoked(q, r)
                          \/ \E sc \in SUBSET Scope : AcceptLive(q, r, sc)
  \/ AcceptSuperseded(q)
  \/ \E sc \in SUBSET Scope : LoadScopes(q, sc)
  \/ \E res \in SUBSET Resource :
       \/ SaveInPlace(q, res)
       \/ \E r \in RefreshId : \/ SaveReissueRefresh(q, r, res)
                               \/ \E a \in AccessId : SaveFreshPair(q, r, a, res)
  \/ SaveReturnExisting(q)
  \/ Fail(q)

Revocation(q) ==
  \/ DetectReuse(q)
  \/ CommitSweep(q)
  \/ \E a \in AccessId : BeginRevokeAccess(q, a)
  \/ FinishRevokeAccess(q)

DeleteBatch == DeleteRefreshBatch \/ DeleteAccessBatch
Cleanup == StartCleanup \/ SelectBatch \/ DeleteBatch \/ NextStage \/ KillCleanup

Next ==
  \/ Tick
  \/ \E r \in RefreshId, a \in AccessId, sc \in SUBSET Scope, res \in SUBSET Resource :
       IssuePair(r, a, sc, res)
  \/ \E q \in Request : RefreshGrant(q) \/ Revocation(q)
  \/ \E r \in RefreshId : RevokeRefresh(r)
  \/ Cleanup

Spec == Init /\ [][Next]_vars

\* A running cleartokens keeps going; a batch delete waiting for row locks is served in
\* turn by the database, and a sweep holding locks commits or rolls back.
CleanupFairness ==
  /\ WF_vars(SelectBatch) /\ WF_vars(NextStage) /\ SF_vars(DeleteBatch)
  /\ \A q \in Request : WF_vars(CommitSweep(q))
FairSpec == Spec /\ CleanupFairness

----------------------------------------------------------------------------
(* Properties.                                                             *)

RequestsOK ==
  /\ req \in [Request -> RequestState]
  /\ \A q \in Request : /\ req[q].phase \in {"recent", "late", "scopes", "save"} => req[q].token \in RefreshId
                        /\ req[q].phase = "revoke" => req[q].access \in AccessId

\* Every table and every local state keeps its shape.
TypeOK ==
  /\ now \in Nat
  /\ refresh \in [RefreshId -> RefreshRow]
  /\ access \in [AccessId -> AccessRow]
  /\ granted \in [RefreshId -> OrNull([scope : SUBSET Scope, resource : SUBSET Resource])]
  /\ repudiated \subseteq RefreshId
  /\ RequestsOK
  /\ cleaner \in [stage : Stage, at : Nat, batch : SUBSET (RefreshId \cup AccessId),
                   renewed : SUBSET AccessId]

\* A refresh token that has minted a successor access token is revoked: no token is both
\* live and superseded, so one secret never leads two lives (rotation in _save_bearer_token).
SupersededIsRevoked == \A r \in RefreshId : Stored(r) /\ Superseded(r) => Revoked(r)

\* Rotating the same refresh token twice never gives it two successors: the second save
\* would otherwise hit the OneToOne source_refresh_token constraint, which nothing catches.
OneSuccessor ==
  \A a, b \in AccessId :
    StoredAccess(a) /\ StoredAccess(b) /\ access[a].source # Null
      /\ access[a].source = access[b].source => a = b

\* No two refresh tokens share an access token (OneToOne RefreshToken.access_token), also
\* when a refresh token is re-issued for a surviving successor (#1687).
OneRefreshPerAccess ==
  \A r, s \in RefreshId :
    refresh[r].access # Null /\ refresh[r].access = refresh[s].access => r = s

\* A revoked refresh token holds no access token, whoever revoked it -- rotation, /revoke/
\* or a family sweep that ran while members were being added -- and every pointer between
\* the two tables leads to a stored row.
RevokedIsUnbound == \A r \in RefreshId : Revoked(r) => refresh[r].access = Null
PointersAreStored ==
  /\ \A r \in RefreshId : refresh[r].access # Null =>
       Stored(r) /\ StoredAccess(refresh[r].access)
  /\ \A a \in AccessId : access[a].source # Null =>
       StoredAccess(a) /\ Stored(access[a].source)

\* A token pair, and the token it came from, belong to one family: a refresh never hands
\* out or re-pairs a token of another session.
LineageStaysInFamily ==
  /\ \A r \in RefreshId : refresh[r].access # Null =>
       access[refresh[r].access].family = refresh[r].family
  /\ \A a \in AccessId : access[a].source # Null =>
       refresh[access[a].source].family = access[a].family

\* However many refreshes, retries and races lie between, no token of a family exceeds
\* what the family was granted, where an empty resource list is unrestricted (RFC 8707).
Within(sc, res, f) == /\ f # Null /\ granted[f] # Null
                      /\ sc \subseteq granted[f].scope
                      /\ Audience(res) \subseteq Audience(granted[f].resource)
AuthorityWithinGrant ==
  /\ \A a \in AccessId : StoredAccess(a) =>
       Within(access[a].scope, access[a].resource, access[a].family)
  /\ \A r \in RefreshId : Stored(r) => Within({}, refresh[r].resource, refresh[r].family)

\* What the invariants above rest on: the rows a running sweep holds are live members of
\* its family and of no other sweep's; a key not allocated yet names no family; and what a
\* request carries from one transaction into the next is within its family's grant.
LockedRowsAreLive ==
  \A q \in Request : req[q].phase = "sweep" =>
    \A r \in req[q].rows :
      /\ Live(r) /\ refresh[r].family = req[q].family
      /\ \A p \in Request : req[p].phase = "sweep" /\ r \in req[p].rows => p = q
FreeNamesNoFamily == \A r \in RefreshId : refresh[r].status = "free" => granted[r] = Null
RequestWithin(q) ==
  /\ Within(req[q].scope, req[q].resource, req[q].family)
  /\ refresh[req[q].token].status # "free"
  /\ Stored(req[q].token) => refresh[req[q].token].family = req[q].family
  /\ req[q].access # Null =>
       /\ access[req[q].access].status # "free"
       /\ StoredAccess(req[q].access) => access[req[q].access].family = req[q].family
RequestsWithinGrant ==
  \A q \in Request : req[q].phase \in {"recent", "late", "scopes", "save"} => RequestWithin(q)

\* The two tables fit together, through every rotation, revocation, sweep and interrupted
\* cleanup: no pointer dangles, no two refresh tokens lead to one access token, a revoked or
\* superseded token leads to none and has one successor at most.
Structure == /\ PointersAreStored /\ OneRefreshPerAccess /\ RevokedIsUnbound
             /\ SupersededIsRevoked /\ OneSuccessor /\ LockedRowsAreLive
\* Families never mix and never grow: what a token, a row or a request in flight may do is
\* within what its family was granted, even after the rows it was read from are gone.
Authority == /\ LineageStaysInFamily /\ AuthorityWithinGrant
             /\ FreeNamesNoFamily /\ RequestsWithinGrant

\* Revocation is final and is stamped once: no step makes a revoked refresh token live,
\* rebinds it, or moves its timestamp (which would reopen the grace window).
RevocationIsFinal ==
  [][\A r \in RefreshId : Revoked(r) =>
       refresh'[r].status = "gone" \/ (refresh'[r] = refresh[r])]_vars

\* When a family sweep commits, no refresh token of the family can be used, including
\* members a rotation inserted while the sweep was running (models.py, revoke_family).
SweepLeavesNothingUsable ==
  [][\A q \in Request : CommitSweep(q) =>
       \A r \in Members(req[q].family) : refresh'[r].access = Null]_vars

\* The stage of cleartokens that deletes revoked refresh tokens never takes a superseded
\* one whose grace window is still open: the client that lost a response can still retry.
CleanupKeepsGrace ==
  [][\A r \in RefreshId :
       cleaner.stage = "revoked" /\ Superseded(r) /\ refresh'[r].status = "gone"
         => Revoked(r) /\ GraceExpired(r)]_vars

\* cleartokens decides in one transaction and deletes in another, and deletes by key.  The one
\* usable refresh token it can take is one that a refresh with rotation off prolonged in place
\* between the two, after its batch had been selected; no other step of another process makes
\* a selected row usable again, and no selection takes one that still is.
CleanupSparesUsable ==
  [][\A r \in RefreshId : Usable(r) /\ refresh'[r].status = "gone"
       => refresh[r].access \in cleaner.renewed]_vars

\* Once /revoke/ has answered for an access token, that token is gone or has expired,
\* although the refresh token it was looked up with may have been rotated or reaped since.
RevokedAccessIsDead ==
  [][\A q \in Request : FinishRevokeAccess(q) =>
       \/ access'[req[q].access].status = "gone"
       \/ access'[req[q].access].expires <= now]_vars

\* clear_expired() terminates: a running command reaches its end (or is killed).
CleanupTerminates == cleaner.stage # "idle" ~> cleaner.stage = "idle"
=============================================================================
