# django-oauth-toolkit in TLA+

This directory models the parts of django-oauth-toolkit in which several requests, management
commands and clocks meet over the same database rows: what a token, a code or a request_uri may
be used for, how often, by whom, and what is left behind when something fails half-way. The
modules are translated from the code; TLC checks them on small tables, and theorems say the same
of tables of any size, for every safety property that the passing runs check.

## The system

Everything is a Django application: HTTP views that call oauthlib, whose calls land in
`OAuth2Validator` (`authorization_server`, `oauth2_validators.py`), which reads and writes rows.
The only shared state is the database and the cache. A request is a sequence of database steps,
most of them outside any transaction, so every step of one request can fall between any two
steps of another.

| Component | State | Operations | What makes it correct |
|---|---|---|---|
| Refresh and access tokens (`oauth2_validators.py`, `models.py`) | `RefreshToken`, `AccessToken` tables | issue, rotate, refresh in place, replay, revoke, sweep a family, clean up | one successor per token, revocation final, a replay kills its family, no widening of scope or audience |
| Authorization codes | `Grant` table | issue, redeem, clean up | single use under races; tokens within the grant |
| Pushed authorization requests (`par.py`, `views/par.py`, `views/base.py`) | `PushedAuthorizationRequest` table, browser session | push, consume, login and prompt round trips, consent | single use, bound to its client; mandatory PAR holds for what enters by GET |
| Device grant (`views/device.py`, `views/base.py`, `core/utils.py`) | `DeviceGrant` table | create, enter code, claim, decide, poll | tokens follow the consent of their owner |
| `cleartokens` (`models.py`, `clear_expired`) | the tables above | stages of batched deletes | deletes nothing usable, leaves no dangling pointer, terminates |
| Client ID metadata documents (`cimd.py`, `clearcimdapplications`) | `Application` rows, back-off and in-flight counters in the cache | resolve, renew, back off, prune | one row per URL, never a hand-made client, no fetch slot lost, nothing in use pruned |
| Dynamic client registration (`dcr.py`, its views) | `Application` rows, registration tokens | register, read, update, delete | a client stays manageable, hand-made clients out of reach |
| Client assertions (`client_assertions.py`, `safe_fetch.py`) | jti cache, key cache, failure back-off | present, look up or fetch keys, verify, remember | an assertion is accepted once; keys are current; a failing host is left alone |
| Client authentication (`oauth2_validators.py`, `par.py`) | none | decide which mechanism and which client | nobody in as a client without what it registered |
| Applications (`models.py`, `dcr.py` views, `createapplication`, edit views) | one `Application` row | create, register, edit, update, delete | a row that is saved can be used; a read-back changes nothing |
| Redirect URI and origin matching, audience matching | none | pure functions | only what is registered matches, and it does |
| RP-initiated logout (`oidc/views.py`) | browser session; `AccessToken`, `RefreshToken`, `IDToken` tables | request, confirm, list, delete, revoke | a finished logout swept the user's tokens |
| Resource server (`resource_server/validators.py`, `views/introspect.py`) | its table of cached answers | introspect, cache, accept | a deleted token is accepted for a bounded time |
| Admin, discovery, userinfo, settings, framework adapters | single rows or none | documents | not modelled: nothing happens over time |

How they meet: PAR feeds the authorization endpoint, which issues codes; a code or a device
grant is exchanged for a first token pair, which starts a refresh-token family; revocation,
logout and `cleartokens` delete rows under all of them; a resource server works on copies it
learns of by introspection. In front of the token endpoint stands client authentication, which
reads the `Application` row that registration, the command line or a form configured.

What is hard in this code is (1) read-then-write over rows without a lock (codes, device grants,
`revoke_access_token`), (2) operations under a lock that rely on a check made before it (rotation),
(3) a bulk update that sees a different snapshot from the delete after it (`revoke_family` under
READ COMMITTED), (4) batches that select keys and delete by key, (5) the same instant compared with
`<`, `<=`, `>` in different places, (6) a browser that leaves the endpoint and returns with other
parameters, (7) caches whose entries outlive or underlive what they stand for, and (8) rules that
decide from parameters anyone may combine (authentication mechanisms, URI patterns, configurations
reached by a sequence of edits). `PROJECT.json` lists each at its line.

## The modules

| Module | Models | Actions |
|---|---|---|
| `RefreshTokens` | the `refresh_token` grant, `/revoke/`, reuse detection, the token stages of `clear_expired` | one per `transaction.atomic()` block, plus one per query outside a transaction |
| `AuthorizationCode` | issue, validate, save, spend and answer a code | one per database step of `create_token_response` |
| `PushedAuthorization` | `par.py` and the way of a browser through `AuthorizationView` | one per request to the server |
| `SingleUse` | the promise of the last two: a ticket is redeemed by at most one holder, and never after it was withdrawn | abstract |
| `DeviceFlow` | user code, claim, decision, polling | one per read and one per write of the row |
| `ClientMetadata` | resolution of a metadata URL, the fetch cap, the back-off, pruning | one per database, cache or network step |
| `ClientRegistration` | registration and the management endpoint | one per database step; PUT's transaction is one |
| `ClientAssertion` | the key cache, back-off, time window and jti cache of assertions | one per cache call, fetch and verification |
| `ClientAuthentication` | `authenticate_client`, `client_authentication_required`, `authenticate_par_client` | operators over tables of clients and requests |
| `RedirectMatching` | the validators of URIs and origins, the matching of redirect URIs, the redirect itself | operators over a small set of URIs |
| `ResourceAudience` | `validate_resource_as_url_prefix` | operators over a small set of URIs |
| `ClientConfiguration` | `Application.clean`, hashing, registration metadata and its read-back | one per way to write the row |
| `Decisions` | composition of the four above | configure, or ask one question |
| `Logout` | RP-initiated logout, ID tokens and their cleanup | one per query of `do_logout`, of a rotation, of `clear_expired` |
| `TokenCache` | composition: a resource server over `Logout` | one per lookup, question, answer |
| `RefreshTokensProofs`, `AuthorizationCodeProofs`, `PushedAuthorizationProofs`, `DeviceFlowProofs`, `ClientMetadataProofs`, `ClientRegistrationProofs`, `ClientAssertionProofs`, `TokenCacheProofs` | theorems; those of `Decisions` are in `ClientRegistrationProofs`, those of `Logout` in `TokenCacheProofs` | |
| `MC...` | symmetry sets for the runs | |

Common to all of them: rows are records in a function over primary keys, a key is used once, a
row is `free` (never stored), `stored` or `gone`. A request is a record with a phase and what it
has read; a crash or an error is an action that puts it back to `idle`. A clock `now` only moves
forward. Variables called history in their declaration record what happened so that a property
can speak of it; no guard reads them. An operator called `Slip...` is a wrong variant of the
definition after it, a bug that could have been written there: each property is known to fail when
some definition is replaced by its slip, so none of them holds by accident. A property that a module
states and no run lists is part of an argument: a type invariant, or what another property rests on.

**RefreshTokens.** `validate_refresh_token` is `AcceptLive` for a live token; for a revoked one it
is `ReadRevoked`, which compares the row with the clock, and then, after a query for its successor
of its own, `AcceptSuperseded` or `DetectReuse`. The request keeps the scopes and resources it read.
`SaveInPlace`, `SaveFreshPair`, `SaveReturnExisting`, `SaveReissueRefresh` are the branches of
`_save_bearer_token`. `DetectReuse` and `CommitSweep` are the two moments of `revoke_family`: the
UPDATE takes row locks, the deletion of access tokens takes effect later, with whatever a rotation
inserted meanwhile. A family is named after its first refresh token. `cleaner` walks the stages of
`clear_expired` batch by batch and may be killed at any point; `cleaner.renewed`, history, holds the
access tokens a refresh in place prolonged while a batch was selected and not deleted.

**AuthorizationCode.** Any client may present any code with any proof (a redirect URI and PKCE
verifier, one value). Two requests can both validate a code and both store tokens; the DELETE that
finds the row decides who is answered. Its answer can still fail: `TokenView` reads the access token
back, which somebody may have deleted (phase `lost`), and a worker may crash between the two
(`crashed`). `SpentCodeWasWon` names both. The order of the calls is oauthlib's, which is outside
the repository; the module takes it from how the validator is written.

**PushedAuthorization.** A visit is a browser that follows a `request_uri`, leaves for the login
page, returns with a rewritten query string, and submits the consent form it was served, possibly
more than once. `PostFields` is a POST that reaches `form_valid` without any of this, with form
fields of its own: whether PAR is mandatory is asked in `get()` only. `Mandatory` is the set of
clients that must push, by setting or by flag.

**DeviceFlow.** Every browser request reads the row, decides on what it read and writes it in
another step. `overlapped` and the history of approvals tell a race from a rule.

**ClientMetadata.** `LoadApplication` is the entry in `OAuth2Validator._load_application`; then come
the back-off, the fetch slot (`TakeSlot`), the fetch, and an INSERT or an UPDATE that can
meet another request's row, an operator's, or none. `Disturb` marks requests whose row somebody
else touched. The document is valid or not: URL validation, the hardened fetch and parsing are
its ways not to be.

**ClientRegistration.** `LoadToken`, `LoadApplication` are the two queries of
`_authenticate_registration_request`; `Put` is one transaction; `CollectTokens`, `CommitDelete`
are the two halves of Django's `delete()`. The foreign key from tokens to applications is what
stops a DELETE whose selection is out of date. The metadata of a request is valid or not;
what it turns into is in `ClientConfiguration`.

**ClientAssertion.** Time counts in ticks, several to a second, because claims are fractions and
cache timeouts are not: `RememberFor` is `int(timeout) + 1`. `ReadCachedKeys` to `ReceiveKeys` are
`fetch_remote_jwks`; `Unmatched` is the forced refetch for a `kid` that names nothing; `Evict` is a
cache that makes room. Signatures hold or not. `held` is history: the signing key was published
ever since the request began.

**ClientAuthentication, RedirectMatching, ResourceAudience.** The functions of the code as operators
over records: a request is what it carries (Basic, body, `client_id`, assertion), a URI is its
parts. Each is compared with a reference definition: who has shown what it registered (`Asserted`:
an assertion of its own making, meant for this server, under a key of the kind it registered, and
alone; `ShowsSecret`: its secret, where that is not blank); which URIs RFC 6749, RFC 8252 and the
documented wildcards allow; which paths lie below a resource.

**ClientConfiguration.** One row and the fields that decide over one another: grant, method,
algorithms, secret (blank, hashed, known, told), keys. `Clean` judges the secret before `Saved`
hashes it, as `clean()` and `ClientSecretField.pre_save` do. Metadata is translated (`Replace`) and
translated back (`Response`).

**Logout.** The names of access token, refresh token and ID token of one issuance coincide, so a
pointer is a flag. `ListRefresh` and `ListAccess` are the two queries, `DeleteOne` and `RevokeOne` the
loops; a missing ID token ends the request, as `DoesNotExist` does. `before` and `alone` are history.

**TokenCache.** A visit finds a good row or asks; `Introspect` is the moment the server answers,
`Receive` the moment the answer is stored, and another visit's answer may come between. `vouched` is
history: when a token was last called active.

## The runs

| Run | Bounds | Shows |
|---|---|---|
| `RefreshRotation` | 3 + 3 keys, 2 requests, clock 0..2, grace 1, one family, one revocation, one resource, rotation on or off | two rotations, refreshes in place, replays, sweeps and revocations in every order |
| `RefreshCleanup` | 3 + 2 keys, 2 requests, clock 0..3, grace 3, batches of 2, rotation on or off, no scopes, `FairSpec` | `cleartokens` against two requests, interrupted anywhere: sound pointers, what it deletes, the one usable token it may take; it terminates |
| `CodeRace` | one code, 2 requests, 2 clients, 2 proofs, 2 resources | single use; delivery within the grant |
| `PushRaces` | 2 request_uris, 2 clients (one must push), 2 visits, 2 submissions | single use; mandatory PAR for what enters by GET |
| `DeviceRaces` | one device, 2 users, 2 browser requests, 1 poll | what an approval guarantees |
| `DeviceOwner` | as `DeviceRaces` | *violated*: see Findings |
| `MetadataRaces` | one URL, 2 requests, 3 rows, cap 2, one slot used elsewhere, `FairSpec` | cap, insert race, collision guard, pruning |
| `RegistrationRaces` | 2 clients, 4 tokens, 2 requests, rotation on | races of PUT, DELETE and token removal; no token without its client |
| `AssertionRaces` | one assertion, 2 keys, 2 requests, 2 ticks to a second, leeway 1, lifetimes 1 and 3, a client's clock 0 or 2 ticks ahead, clock 0..3 | replays, key changes, fetches, back-off |
| `Decisions` | one row at a time, every sequence of edits; tables of 2 clients, all requests; URIs of the small domains | the decision rules agree with their reference definitions |
| `LogoutRaces` | 2 users, 3 issuances of 3 kinds, 2 logouts, clock 0..1, tokens that expire at once | what sweeps miss, and only why |
| `CacheRaces` | one user, one token, one logout, 2 visits, clock 0..4, caching time 1, timeout 1 | late and overtaking answers |

Two requests are enough for every race the properties speak of, because each is about what one
request does with something another changed since it was read; a third would have to be waited for,
and no step waits for more than one other. Three keys give a family of three generations: two
rotations and a replay, or a rotation, the loss of its pair, and a re-issue. The clock needs one
instant before, one on and one after each deadline. One grant suffices for the rotation runs, since
no step relates two families. A resource list is empty (unrestricted) or not, so that one resource
shows an emptied narrowing. One assertion suffices for replays and for keys, as assertions share
nothing but the keys; in `CacheRaces` the bound concerns one token, and what a rotation puts beside
it is left to the theorem. A client whose clock runs 2 ticks ahead, with a leeway of 1, is refused
at first and accepted when the clock has come up to the leeway. Deadlock is checked in the two runs
of `RefreshTokens`, where some request can always act; the others set `CHECK_DEADLOCK FALSE` because
keys, tokens, names and submissions run out there. `Decisions` has no parameters: the records it
ranges over are the bounds, chosen so that every branch of the functions is taken by some record.

**Fairness.** Only two runs use any, `RefreshCleanup` and `MetadataRaces`. `CleanupFairness` is weak
fairness of selecting a batch and of moving to the next stage (the command's own loop), strong
fairness of deleting a batch (a DELETE that waits for row locks gets them some time between the
sweeps that hold them), and weak fairness of committing a sweep (a transaction ends). The run
has reuse protection off, so no sweep holds a row there; with `ReuseProtection = TRUE` (and two
refresh keys, to stay small) the last two are what termination needs. `PruneFairness` is weak fairness of each statement of `clearcimdapplications`.
Requests, users and the clock are never forced to act.

## What is proved

The invariants of the passing runs, their action properties and both
refinements of `SingleUse` are theorems for every value of the constants, two of them under an
assumption on settings that is stated with them. Each proof module has one lemma per action, or
per kind of step where actions share one, and inductive invariants that its header or its comments name.
What follows is why a property alone is not inductive, and what it takes.

**`RefreshTokensProofs`**, for every number of keys, requests, scopes and resources:

- `TypeCorrect`, `PointersSound`, `RotationSound`, `FamiliesSound`: types, pointers, one successor,
  no widening;
- `RevocationsAreFinal`, `SweepsAreComplete`: what a revocation and a family sweep leave;
- `CleanupHonoursGrace`, `CleanupIsHarmless`, `RotatingCleanupIsHarmless`, `AnsweredRevocationsHold`: what
  `cleartokens` takes, and what an answer of `/revoke/` means.

The invariant is `TypeOK /\ Structure /\ Authority`. `SupersededIsRevoked` needs `OneSuccessor` (a
fresh pair makes no second one), `OneRefreshPerAccess` (revoking a row unbinds nothing else) and
`LockedRowsAreLive` (for a late `CommitSweep`). `Authority` needs, for requests in flight, that what
they read is within the grant (`RequestsWithinGrant`), since the rows may be gone when they save.
The last four theorems carry a second invariant, `InFlight`: the command's clock is past
(`CleanerRuns`), a selected batch stays revoked or idle (`BatchRevoked`, `BatchUnusable`, but for
what was prolonged in place since), and the access token a `/revoke/` aims at is gone, or still
bound to the refresh token it was looked up with, or ran out before a cleanup took that one
(`RevokeAims`). Two assume something of the settings, which the code needs: `CleanupHonoursGrace`
that, under replay protection, the grace window is no longer than `REFRESH_TOKEN_EXPIRE_SECONDS`,
since `clear_expired` then waits for that instead; `AnsweredRevocationsHold` that refreshes rotate
or no cleanup runs. `CleanupIsHarmless` assumes nothing, and names the one usable token that a
cleanup can take, which needs a refresh in place; where refreshes rotate there is none
(`RotatingCleanupIsHarmless`).

**`AuthorizationCodeProofs`**: `CodesAreSingleUse` (the refinement), `CodesAreBounds`, `CodesAreWon`,
`CleanupSparesCodes`, `CodesAreTyped`. The invariant is `Redemptions`: what a request in flight carries
is the grant's (`RequestBound`), a winner's code is gone (`WonIsGone`), so no second request wins
it (`OneDelivery`), and a pair saved while its code is stored is within it (`SavedWithinGrant`). For
`SpentCodeWasWon` the proofs add that a code gone early has a winner (`SpentByWinner`) and that a winner
without an answer lost its pair to a deletion (`LostIsUndone`, `SavedHasPair`), or crashed.
A step of the model is a step of the abstract one or a stutter, because only the DELETE that finds the
row moves a ticket to a holder.

**`PushedAuthorizationProofs`**: `RequestUrisAreSingleUse` (the refinement), `MandatoryIsPushed`,
`RequestUriIsBound`, `PushesAreTyped`. The invariant is `Visits`, with `ConsumesOnce`: a visit that
consumed a `request_uri` has none left to present, since `get()` rewrites the query.
`MandatoryIsPushed` is about visits that enter by `get()`; a POST with fields of its own is the
exception it names (see the observations).

**`DeviceFlowProofs`**: `TokensNeedConsent`, `TokensAreTheApprovers`, `DecisionsAreFinal`,
`GrantsAreTyped`. `ClaimedBeforeDecided` is what the first rests on; the other two need that of a
grant nobody overlapped on, one browser request at most is at work, what it loaded is not stale, and
polls in flight carry the approver (`Undisturbed`).

**`ClientMetadataProofs`**, for every number of URLs, requests, rows and slots: `PermitsAreReturned`,
`UrlsAreUnique`, `DocumentsTakeNothing`, `LosersAreServed`, `PruningSparesLive`, `MetadataIsTyped`.
`PermitsAreHeld` is an equation over a cardinality, so requests must be finitely many. `RequestsSound`
says that a key stands for one URL for ever, and what a request knows of the row it goes for: that it
is there, renewable and not made by hand, unless somebody disturbed the request. `LocksHold` says
that the rows the pruner locked are still expired.

**`ClientRegistrationProofs`**, for every number of clients, tokens and requests:
`AlwaysManageable`, `OneToken`, `ManualIsSafe`, `RegistrationTypes`. The invariant adds where tokens
point (`Rooted`) and what a request in flight holds (`Held`); `OneToken` adds that a client the
property makes no exception for has one registration token, which the one request on it holds
(`OnlyOne`).

Its last parts are about the decision rules, each first for more than the run asks, then for `Decisions`
itself (`ConfigurationHolds`, `AuthenticationHolds`, `RedirectsHold`, `AudienceHolds`):

- `KeysStayUsable`, `ReadBackHolds`, `LockOutsAreNew`: an operator enters any fields, not only those
  of `ByHand`. `RowInv` says that `clean()` accepts the row as it was saved, hashed secret and all,
  and what metadata alone makes of a row (`Derived`).
- `AdmissionHolds`: any table of clients, any server and any request, not only tables of two. Both
  ways: who is admitted showed a good assertion that was alone, or its secret, unless that is blank;
  and a good assertion that is alone, or the client's own secret, is enough.
- `RedirectsMatch`: any settings, and URIs with hosts of any letters and length, any paths, queries
  and ports. What a wildcard matches has the dots of the wildcard (`WildcardDots`, by an injection),
  which is why an accepted one covers no second level domain.
- `AudienceMatches`: any URIs, with paths of any number of segments and any letters. It takes three
  steps. *Resolving leads where the path does*: `Resolved` goes segment by segment and forgets a
  name when a `..` follows, `Leads` (the reference) looks at the whole path and counts; along the
  path, what is resolved so far lists the places not taken back yet (`ResolvedIsListed`, with
  `ListKept`, `ListGrown` and `ListShrunk` for the three kinds of segment). *Texts tell names
  apart*: with a slash behind each name and none within, two texts with a common beginning have the
  names of it in common (`TextsTell`, `NamesTell`), so that a prefix of the text is a prefix of the
  names. *Origins*: `AtApi`. That a recursive function has the values of its equation, which both
  `Resolved` and `Slashed` need, is proved by well-founded induction over the set of indices where
  it fails (`UpTo`, `RecursionExists`), since induction theorems that take an operator cannot be
  instantiated.

**`ClientAssertionProofs`**, for every number of assertions, keys and requests: `ReplayIsStopped`,
`KeysStayCurrent`, `BackoffIsKept`. The replay argument is `ReplayInv`: a remembered jti leaves the
cache no earlier than its assertion dies, which `Rounding` (a timeout in whole seconds is longer
than the time it was made from) carries through `Remember`. For keys the invariant follows them from
the host through the answer and the cache into the request (`RequestInv`, `CacheInv`).

**`TokenCacheProofs`**, for every number of users, tokens, logouts and visits: `CachingIsBounded`,
`LogoutsSweep`, `OrphansAreLogouts`. A token has one expiry for ever, because names are not used
twice (`ServerInv`, `OneExpiry`); an answer on its way and a cached row are bounded by the last time
the token was vouched for. For logouts, what the sweep has not come to yet is still listed
(`DeletesAll`, `RevokesAll`), a refresh token is bound while its access token is stored (`RowsFit`),
and a logout that counts as alone is the only one of its user under way (`AloneInv`).
`VisitsLeaveTheServer` says that the composition with a resource server implements the server alone,
so that what is proved of `Logout` holds beside any number of visits (`LogoutsSweepBesideVisits`).

Assumptions beyond the two on settings are those in the modules: keys and `Null` are distinct, key sets,
and the requests of `ClientMetadata`, are finite, `Null` is no row, settings are naturals or Booleans.

**Only model-checked.** The liveness properties `CleanupTerminates` and `PruningTerminates`
(fairness and ENABLED are out of the prover's reach).

## Findings

A run that TLC refutes, with the sentence it contradicts in `PROJECT.json`:

- `DeviceOwner`: a claim read while the grant was pending is written after another user
  approved; the tokens go to a user who never accepted.

Met on the way, as observations without a run of their own. On tokens and codes:

- `/revoke/` on a token that a rotation superseded changes nothing, since `RefreshToken.revoke()`
  returns at once for a revoked row (models.py:1097), so the token is accepted again inside its
  grace window; docs/settings.rst:301-305 says a token that was revoked rather than rotated never
  is.
- With rotation off, `cleartokens` can delete a usable refresh token: one that was refreshed in
  place between the selection of its batch and the deletion by key. `CleanupSparesUsable` says that
  this is the one way.
- The save step of a rotation does not look at `revoked` again, so a token revoked after its
  validation still mints a pair.
- An approved device grant is exchanged for tokens after it expired (views/base.py:589);
  core/utils.py:98 says that its validity window is enforced.
- Where PAR is mandatory, a POST of the consent form whose fields name the client is issued a code without
  any pushed request: `form_valid` (views/base.py:124-179) does not ask what `get()` asked
  (views/base.py:230-233). docs/settings.rst:610-611 says that the endpoint only accepts requests that were
  pushed. Without its exception for such posts, TLC refutes `CodesWerePushed` at once.
- A pushed request with `prompt=login` comes back from the login page without its (consumed)
  `request_uri`, and mandatory PAR refuses it (views/base.py:372); base.py:204-205 says that the
  existing flow proceeds unchanged.

On clients:

- A confidential client may have a blank secret (`blank=True`, models.py:258-260; `clean()` refuses one
  only where it is an HMAC key). Its `client_id` alone then authenticates it, since a missing
  `client_secret` is compared as blank (oauth2_validators.py:238, 259).
- PUT saves a row it has read: when a DELETE was answered 204 in between, the client is stored
  anew (with its old metadata replaced and a new registration token).
- Two PUTs with one registration token leave two live registration tokens;
  `OneTokenUnlessRaced` says that nothing but overlap, or an ordinary token with the scope, does.
- PUT from `none` or `private_key_jwt` to a method with a secret delivers no secret; PUT to
  `client_secret_jwt` is refused while the stored secret is hashed; `client_name: null` ends in 500.
- A renewal of a metadata document writes every column: an operator's edit made during the
  fetch is lost, and a row whose provenance an operator changed by hand is taken back by a save in
  flight. `ManualIsNeverTaken` is therefore about rows that were made by hand.
- The PAR endpoint lets a public client in on its `client_id` even when it sends an assertion that
  fails (par.py:68-73), which the token endpoint does not (oauth2_validators.py:372-375).
- A cache that evicts entries early (Django's local-memory cache culls) forgets jti values, and
  a replay is accepted; `AcceptedOnce` excludes exactly that.

On URIs:

- `ALLOW_URI_WILDCARDS` is documented for origins too (docs/settings.rst:402-408); the check of an
  origin (`is_origin_allowed`) compares exactly.
- A scheme that `get_allowed_schemes()` spells in upper case passes the validator and is refused by the
  redirect. `URIValidator` is not anchored at the host: userinfo passes. `app:///cb` and `app:/cb` match
  each other. `post_logout_redirect_uris` are not validated by `clean()`.
- `posixpath.normpath` in the audience check collapses empty segments, which RFC 3986 5.2.4 does not.

On logout and resource servers:

- `do_logout` leaves the tokens of device-grant applications, although docs/settings.rst:914-916 says
  all applications; the docs of the override name an attribute that does not exist
  (`token_types_to_delete`).
- Two logouts of one user, or `cleartokens`, may delete an ID token another logout has listed: it
  ends in `IDToken.DoesNotExist` (a 500), the session still alive (oidc/views.py:560).
- A rotation between the two listings of one logout leaves a live refresh token without access
  token until `cleartokens` takes it: `OnlyLogoutsOrphan` says that this is the one way to get there.
- With the hint of another user and a confirmation, that user's tokens are deleted, not those of
  the user signed in, whose session ends.
- A resource server that is told "inactive" keeps the row it cached before, and another request
  for fewer scopes is served from it until it runs out; `CacheIsBounded` allows for it.

## Not modelled

- Clients and users as rows with a life of their own (deletion cascades), the
  `client_credentials` and `password` branches, deletions by an operator of token rows, token values
  and hashing.
- `prompt=none` and `prompt=create`, approval details, the implicit and hybrid response types.
- The client and scope of a device grant; a poll that changes nothing but its answer.
- More than one server process in `ClientMetadata` (the cap is per process), the clamp of
  cache lifetimes, `ATOMIC_REQUESTS`, and databases without row locks.
- Permission classes of dynamic registration; names, logos and other display fields.
- The encoding of tokens and assertions: JWT parsing, signatures, claims of ID tokens.
- Discovery, key set and userinfo documents, admin lists, settings and system checks, framework
  adapters: they read single rows or none and nothing happens over time. Settings are CONSTANTS
  of the modules that read them. Migrations, translations and templates have no logic to model.

## Plan

What is left, in order:

1. A composition of a pushed request, the code it leads to and the family that code starts: the
   scopes of every token of the family lie within what was pushed and consented to; its invariant
   would be the conjunction of `Redemptions`, `Visits` and `Authority` and a link between their keys.
2. `prompt=none` and `prompt=create` in `PushedAuthorization`.

Runs stay one per question: when a component is added, runs that ask about the same races are
merged before a new one is written.
