--------------------------- MODULE ClientMetadata ---------------------------
(***************************************************************************)
(* Clients known by the URL of a metadata document (authorization_server/  *)
(* cimd.py): the Application row that resolving such a URL creates or      *)
(* renews, the failure back-off and the cap on concurrent fetches around   *)
(* it, the caller in OAuth2Validator._load_application, and the            *)
(* clearcimdapplications command that deletes what nobody uses.            *)
(*                                                                         *)
(* Nothing spans the steps of a resolution: the row read before the save   *)
(* may be deleted, or its URL taken, before the save reaches the database. *)
(* save() is an UPDATE by primary key and, when that finds nothing, an     *)
(* INSERT with the same key.  Slip... definitions are wrong variants of    *)
(* the definition after them, as in RefreshTokens.                         *)
(***************************************************************************)
EXTENDS Integers, FiniteSets, FiniteSetsExt

CONSTANTS
  Url,          \* client_id URLs
  Request,      \* concurrent authorization and token requests
  Cap,          \* CIMD_MAX_CONCURRENT_FETCHES
  Backoff,      \* CIMD_FAILURE_BACKOFF_SECONDS
  MaxAge,       \* the cache lifetime of a document
  BatchSize,    \* --batch-size of clearcimdapplications
  MaxKey,       \* bound: primary keys the Application table hands out
  MaxTime,      \* bound: the clock
  MaxElsewhere, \* bound: concurrent fetches of URLs outside the model
  Null

ASSUME MetadataAssumption ==
  /\ Cap \in Nat \ {0} /\ BatchSize \in Nat \ {0} /\ MaxKey \in Nat /\ MaxTime \in Nat
  /\ MaxElsewhere \in Nat
  /\ Backoff \in Nat /\ MaxAge \in Nat
  /\ Null \notin Nat /\ Null \notin Url
  /\ IsFiniteSet(Request)

VARIABLES
  now,        \* timezone.now()
  app,        \* the Application table, by primary key
  lastKey,    \* the sequence primary keys come from
  alive,      \* applications with a token or code that has neither expired nor been revoked
  backoff,    \* until when the cache holds a failure for each URL
  permits,    \* fetch slots taken from the semaphore
  elsewhere,  \* how many of them went to requests for other URLs
  req,        \* the local state of each request
  pruner      \* the local state of clearcimdapplications

vars == <<now, app, lastKey, alive, backoff, permits, elsewhere, req, pruner>>

----------------------------------------------------------------------------

Key == 1..MaxKey
\* `born` is history: how the row came to be; registration_source may be changed later.
Row == [url: Url, source: {"cimd", "manual"}, born: {"cimd", "manual"}, expires: Nat]
ASSUME RowAssumption == Null \notin Row

\* "asked": no usable row, or a stale one kept as `stored`; "slot": the back-off is over;
\* "fetch": holds a permit; "fetched": the document is valid; "update", "insert", "reload":
\* inside and after save(); "served": has a client.
Holding == {"fetch", "fetched", "update", "insert", "reload"}
RequestState == [phase: {"idle", "asked", "slot", "served"} \cup Holding, url: Url \cup {Null},
                 stored: Key \cup {Null}, key: Key \cup {Null}, expires: Nat, disturbed: BOOLEAN]
Idle == [phase |-> "idle", url |-> Null, stored |-> Null, key |-> Null, expires |-> 0,
         disturbed |-> FALSE]

Resting == [phase |-> "idle", at |-> 0, cursor |-> 0, batch |-> {}]

KeysOf(u) == {k \in Key : app[k] # Null /\ app[k].url = u}
Locked(k) == pruner.phase = "locked" /\ k \in pruner.batch

\* History: an operator or the pruner touched the row of a URL a request is resolving.
Disturb(U) == req' = [q \in Request |-> IF req[q].phase \notin {"idle", "served"} /\ req[q].url \in U
                                          THEN [req[q] EXCEPT !.disturbed = TRUE] ELSE req[q]]
UrlsOf(K) == {app[k].url : k \in {k \in K : app[k] # Null}}

Init == /\ now = 0
        /\ app = [k \in Key |-> Null]
        /\ lastKey = 0
        /\ alive = {}
        /\ backoff = [u \in Url |-> 0]
        /\ permits = 0 /\ elsewhere = 0
        /\ req = [q \in Request |-> Idle]
        /\ pruner = Resting

Tick == /\ now < MaxTime
        /\ now' = now + 1
        /\ UNCHANGED <<app, lastKey, alive, backoff, permits, elsewhere, req, pruner>>

----------------------------------------------------------------------------
(* Resolving a client_id.                                                  *)

Answer(q, k) == [Idle EXCEPT !.phase = IF k = Null THEN "idle" ELSE "served",
                             !.url = req[q].url, !.key = k]
Leave(q, k) == req' = [req EXCEPT ![q] = IF k = Null THEN Idle ELSE Answer(q, k)]

\* _load_application: a row that is fresh, or was not made from a document, is used as it
\* is; a missing or stale one is resolved (refresh_if_stale keeps the stale one at hand).
LoadApplication(q, u) ==
  /\ req[q].phase = "idle"
  /\ IF KeysOf(u) = {}
       THEN req' = [req EXCEPT ![q] = [Idle EXCEPT !.phase = "asked", !.url = u]]
       ELSE \E k \in KeysOf(u) :
              req' = [req EXCEPT ![q] =
                IF app[k].source = "cimd" /\ now > app[k].expires
                  THEN [Idle EXCEPT !.phase = "asked", !.url = u, !.stored = k]
                  ELSE [Idle EXCEPT !.phase = "served", !.url = u, !.key = k]]
  /\ UNCHANGED <<now, alive, app, lastKey, backoff, permits, elsewhere, pruner>>

\* The permission classes refuse, or the URL is backed off, or the cap is reached: nothing
\* is fetched, and a stale row is good enough.
Decline(q) ==
  /\ req[q].phase = "asked"
  /\ Leave(q, req[q].stored)
  /\ UNCHANGED <<now, alive, app, lastKey, backoff, permits, elsewhere, pruner>>
PassBackoff(q) ==
  /\ req[q].phase = "asked"
  /\ now >= backoff[req[q].url]
  /\ req' = [req EXCEPT ![q].phase = "slot"]
  /\ UNCHANGED <<now, alive, app, lastKey, backoff, permits, elsewhere, pruner>>
CapReached(q) ==
  /\ req[q].phase = "slot" /\ permits = Cap
  /\ Leave(q, req[q].stored)
  /\ UNCHANGED <<now, alive, app, lastKey, backoff, permits, elsewhere, pruner>>
SlipTakeSlot(q) ==
  /\ req[q].phase = "slot"
  /\ permits' = permits + 1
  /\ req' = [req EXCEPT ![q].phase = "fetch"]
  /\ UNCHANGED <<now, alive, app, lastKey, backoff, elsewhere, pruner>>
TakeSlot(q) ==
  /\ req[q].phase = "slot" /\ permits < Cap
  /\ permits' = permits + 1
  /\ req' = [req EXCEPT ![q].phase = "fetch"]
  /\ UNCHANGED <<now, alive, app, lastKey, backoff, elsewhere, pruner>>

\* A fetch of another URL takes a slot and gives it back.
FetchElsewhere ==
  /\ permits < Cap /\ elsewhere < MaxElsewhere
  /\ permits' = permits + 1 /\ elsewhere' = elsewhere + 1
  /\ UNCHANGED <<now, alive, app, lastKey, backoff, req, pruner>>
FinishElsewhere ==
  /\ elsewhere > 0
  /\ permits' = permits - 1 /\ elsewhere' = elsewhere - 1
  /\ UNCHANGED <<now, alive, app, lastKey, backoff, req, pruner>>

\* The document arrived, names this URL and describes a public client.
FetchDocument(q) ==
  /\ req[q].phase = "fetch"
  /\ req' = [req EXCEPT ![q].phase = "fetched"]
  /\ UNCHANGED <<now, alive, app, lastKey, backoff, permits, elsewhere, pruner>>

\* CIMDError or any other exception: back off, release the slot, answer with the stale row.
SlipGiveUp(q) ==
  /\ backoff' = [backoff EXCEPT ![req[q].url] = now + Backoff]
  /\ Leave(q, req[q].stored)
  /\ UNCHANGED <<now, alive, app, lastKey, permits, elsewhere, pruner>>
GiveUp(q) ==
  /\ backoff' = [backoff EXCEPT ![req[q].url] = now + Backoff]
  /\ permits' = permits - 1
  /\ Leave(q, req[q].stored)
  /\ UNCHANGED <<now, alive, app, lastKey, elsewhere, pruner>>
FetchFails(q) == req[q].phase = "fetch" /\ GiveUp(q)

\* The row of this URL is looked up: it is renewed, unless it is nobody's document.
SlipRenewable(k) == TRUE
Renewable(k) == app[k].source = "cimd"
LookUp(q) ==
  /\ req[q].phase = "fetched"
  /\ IF KeysOf(req[q].url) = {}
       THEN req' = [req EXCEPT ![q].phase = "insert", ![q].key = Null, ![q].expires = now + MaxAge]
       ELSE \E k \in KeysOf(req[q].url) :
              /\ Renewable(k)
              /\ req' = [req EXCEPT ![q].phase = "update", ![q].key = k, ![q].expires = now + MaxAge]
  /\ UNCHANGED <<now, alive, app, lastKey, backoff, permits, elsewhere, pruner>>
LookUpCollides(q) ==
  /\ req[q].phase = "fetched"
  /\ \E k \in KeysOf(req[q].url) : ~Renewable(k)
  /\ GiveUp(q)

Document(q, b) == [url |-> req[q].url, source |-> "cimd", born |-> b, expires |-> req[q].expires]
Release(q, k) == permits' = permits - 1 /\ Leave(q, k)

\* save() of a row that was found: UPDATE by key ...
UpdateRow(q) ==
  LET k == req[q].key IN
  /\ req[q].phase = "update" /\ ~Locked(k)
  /\ IF app[k] # Null
       THEN /\ app' = [app EXCEPT ![k] = Document(q, app[k].born)]
            /\ Release(q, k)
       ELSE /\ req' = [req EXCEPT ![q].phase = "insert"]
            /\ UNCHANGED <<app, permits>>
  /\ UNCHANGED <<now, alive, lastKey, backoff, elsewhere, pruner>>

\* ... else INSERT, with the key it had or with a new one; the unique client_id and the
\* primary key decide between concurrent requests.
NewKey == lastKey + 1
InsertKey(q) == IF req[q].key = Null THEN NewKey ELSE req[q].key
SlipInsertRow(q) ==
  LET k == InsertKey(q) IN
  /\ req[q].phase = "insert" /\ k \in Key
  /\ app[k] = Null
  /\ app' = [app EXCEPT ![k] = Document(q, "cimd")]
  /\ lastKey' = IF req[q].key = Null THEN k ELSE lastKey
  /\ Release(q, k)
  /\ UNCHANGED <<now, alive, backoff, elsewhere, pruner>>
InsertRow(q) ==
  LET k == InsertKey(q) IN
  /\ req[q].phase = "insert" /\ k \in Key
  /\ KeysOf(req[q].url) = {} /\ app[k] = Null
  /\ app' = [app EXCEPT ![k] = Document(q, "cimd")]
  /\ lastKey' = IF req[q].key = Null THEN k ELSE lastKey
  /\ Release(q, k)
  /\ UNCHANGED <<now, alive, backoff, elsewhere, pruner>>
SlipInsertConflicts(q) ==
  /\ req[q].phase = "insert" /\ InsertKey(q) \in Key
  /\ KeysOf(req[q].url) # {} \/ app[InsertKey(q)] # Null
  /\ GiveUp(q)
InsertConflicts(q) ==
  /\ req[q].phase = "insert" /\ InsertKey(q) \in Key
  /\ KeysOf(req[q].url) # {} \/ app[InsertKey(q)] # Null
  /\ req' = [req EXCEPT ![q].phase = "reload"]
  /\ UNCHANGED <<now, alive, app, lastKey, backoff, permits, elsewhere, pruner>>

\* IntegrityError: use the row of whoever won, unless it is not a document's.
ReloadWinner(q) ==
  /\ req[q].phase = "reload"
  /\ \E k \in KeysOf(req[q].url) : Renewable(k) /\ Release(q, k)
  /\ UNCHANGED <<now, alive, app, lastKey, backoff, elsewhere, pruner>>
ReloadFails(q) ==
  /\ req[q].phase = "reload"
  /\ \A k \in KeysOf(req[q].url) : ~Renewable(k)
  /\ GiveUp(q)

\* The request goes on to obtain tokens or a code; the foreign key makes the insert wait for
\* a locked application and fail without one.
ObtainTokens(q) ==
  LET k == req[q].key IN
  /\ req[q].phase = "served" /\ ~Locked(k)
  /\ alive' = IF app[k] # Null THEN alive \cup {k} ELSE alive
  /\ req' = [req EXCEPT ![q] = Idle]
  /\ UNCHANGED <<now, app, lastKey, backoff, permits, elsewhere, pruner>>
Finish(q) ==
  /\ req[q].phase = "served"
  /\ req' = [req EXCEPT ![q] = Idle]
  /\ UNCHANGED <<now, alive, app, lastKey, backoff, permits, elsewhere, pruner>>

----------------------------------------------------------------------------
(* Operators, and revocations.                                             *)

Provision(u) ==
  /\ NewKey \in Key /\ KeysOf(u) = {} /\ app[NewKey] = Null
  /\ app' = [app EXCEPT ![NewKey] = [url |-> u, source |-> "manual", born |-> "manual", expires |-> 0]]
  /\ lastKey' = NewKey
  /\ Disturb({u})
  /\ UNCHANGED <<now, alive, backoff, permits, elsewhere, pruner>>

\* Rows go with their tokens (ON DELETE CASCADE).
Delete(K) == /\ app' = [k \in Key |-> IF k \in K THEN Null ELSE app[k]]
             /\ alive' = alive \ K
             /\ Disturb(UrlsOf(K))
DeleteApplication(k) ==
  /\ app[k] # Null /\ ~Locked(k)
  /\ Delete({k})
  /\ UNCHANGED <<now, lastKey, backoff, permits, elsewhere, pruner>>

\* The provenance of a row changes outside the toolkit (its forms keep it read-only).
Adopt(k) ==
  /\ app[k] # Null /\ app[k].source = "cimd" /\ ~Locked(k)
  /\ app' = [app EXCEPT ![k].source = "manual"]
  /\ Disturb({app[k].url})
  /\ UNCHANGED <<now, alive, lastKey, backoff, permits, elsewhere, pruner>>

\* The last token or code of an application expires or is revoked.
Lapse(k) ==
  /\ k \in alive
  /\ alive' = alive \ {k}
  /\ UNCHANGED <<now, app, lastKey, backoff, permits, elsewhere, req, pruner>>

----------------------------------------------------------------------------
(* clearcimdapplications.                                                  *)

Expired(k) == app[k] # Null /\ app[k].source = "cimd" /\ app[k].expires < pruner.at

StartPruning ==
  /\ pruner.phase = "idle"
  /\ pruner' = [Resting EXCEPT !.phase = "page", !.at = now]
  /\ UNCHANGED <<now, alive, app, lastKey, backoff, permits, elsewhere, req>>

\* The next page of candidates after the cursor, in key order; the cursor moves behind it.
SlipCandidates == {k \in Key : Expired(k)}
Candidates == {k \in Key : Expired(k) /\ k > pruner.cursor}
FirstOf(K) == {k \in K : Cardinality({j \in K : j < k}) < BatchSize}
SelectPage ==
  /\ pruner.phase = "page" /\ Candidates # {}
  /\ pruner' = [pruner EXCEPT !.phase = "selected", !.batch = FirstOf(Candidates),
                              !.cursor = Max(FirstOf(Candidates))]
  /\ UNCHANGED <<now, alive, app, lastKey, backoff, permits, elsewhere, req>>

\* In one transaction: lock what is still an expired document row ...
SlipStillExpired == {k \in pruner.batch : app[k] # Null /\ app[k].source = "cimd"}
StillExpired == {k \in pruner.batch : Expired(k)}
LockBatch ==
  /\ pruner.phase = "selected"
  /\ pruner' = [pruner EXCEPT !.phase = "locked", !.batch = StillExpired]
  /\ UNCHANGED <<now, alive, app, lastKey, backoff, permits, elsewhere, req>>

\* ... and delete those of them that hold nothing live.
Prunable == pruner.batch \ alive
DeleteBatch ==
  /\ pruner.phase = "locked"
  /\ Delete(Prunable)
  /\ pruner' = [pruner EXCEPT !.phase = "page", !.batch = {}]
  /\ UNCHANGED <<now, lastKey, backoff, permits, elsewhere>>

FinishPruning ==
  /\ pruner.phase = "page" /\ Candidates = {}
  /\ pruner' = Resting
  /\ UNCHANGED <<now, alive, app, lastKey, backoff, permits, elsewhere, req>>
KillPruning ==
  /\ pruner.phase # "idle"
  /\ pruner' = Resting
  /\ UNCHANGED <<now, alive, app, lastKey, backoff, permits, elsewhere, req>>

----------------------------------------------------------------------------

Resolve(q) ==
  \/ \E u \in Url : LoadApplication(q, u)
  \/ Decline(q) \/ PassBackoff(q) \/ CapReached(q) \/ TakeSlot(q)
  \/ FetchDocument(q) \/ FetchFails(q) \/ LookUp(q) \/ LookUpCollides(q)
  \/ UpdateRow(q) \/ InsertRow(q) \/ InsertConflicts(q) \/ ReloadWinner(q) \/ ReloadFails(q)
  \/ ObtainTokens(q) \/ Finish(q)

Operate == \/ \E u \in Url : Provision(u)
           \/ \E k \in Key : DeleteApplication(k) \/ Adopt(k) \/ Lapse(k)

Prune == StartPruning \/ SelectPage \/ LockBatch \/ DeleteBatch \/ FinishPruning \/ KillPruning

Next == Tick \/ FetchElsewhere \/ FinishElsewhere \/ (\E q \in Request : Resolve(q)) \/ Operate \/ Prune

Spec == Init /\ [][Next]_vars

\* A running command goes on from statement to statement.
PruneFairness == /\ WF_vars(SelectPage) /\ WF_vars(LockBatch)
                 /\ WF_vars(DeleteBatch) /\ WF_vars(FinishPruning)
FairSpec == Spec /\ PruneFairness

----------------------------------------------------------------------------
(* Properties.                                                             *)

\* Every table and every local state keeps its shape.
TypeOK == /\ now \in Nat
          /\ app \in [Key -> Row \cup {Null}]
          /\ lastKey \in 0..MaxKey
          /\ alive \subseteq Key
          /\ backoff \in [Url -> Nat]
          /\ permits \in 0..Cap /\ elsewhere \in 0..MaxElsewhere
          /\ req \in [Request -> RequestState]
          /\ pruner \in [phase : {"idle", "page", "selected", "locked"}, at : Nat,
                         cursor : 0..MaxKey, batch : SUBSET Key]

\* Every permit belongs to a request inside _fetch_slot(): whichever of the many ways out a
\* resolution takes, its slot is free again, and the cap never refuses below its limit.
PermitsAreHeld == permits = elsewhere + Cardinality({q \in Request : req[q].phase \in Holding})

\* One row per client_id, however many requests saw the URL first at once and whichever
\* deleted rows an UPDATE turned INSERT brings back.
OneRowPerUrl == \A j, k \in Key : app[j] # Null /\ app[k] # Null /\ app[j].url = app[k].url => j = k

\* A fetched document never takes over a client that was provisioned by hand: no resolution
\* changes such a row or answers with one it did not find by loading it (cimd.py: "never let
\* a fetched document take it over").
ManualIsNeverTaken ==
  [][\A q \in Request : req[q].phase \in Holding /\ req'[q] # req[q] =>
       /\ \A k \in Key : app[k] # Null /\ app[k].born = "manual" => app'[k] = app[k]
       /\ req'[q].phase = "served" /\ req'[q].key # req[q].stored =>
            app'[req'[q].key].source = "cimd"]_vars

\* Concurrent first sights of a URL do not fail one another: a request that fetched a valid
\* document is left without a client only if an operator or the pruner touched that client
\* while it ran (cimd.py, the IntegrityError handler).
LoserIsServed ==
  [][\A q \in Request : req[q].phase \in Holding \ {"fetch"} /\ req'[q].phase = "idle" =>
       req[q].disturbed]_vars

\* clearcimdapplications deletes an application only while its document is expired and nothing
\* it issued is alive, although it chose it earlier and renewals and new tokens keep coming.
PruneSparesLive ==
  [][DeleteBatch => \A k \in Key : app[k] # Null /\ app'[k] = Null =>
       app[k].source = "cimd" /\ app[k].expires < now /\ k \notin alive]_vars

\* The command terminates although it steps over expired applications it must keep.
PruningTerminates == pruner.phase # "idle" ~> pruner.phase = "idle"
=============================================================================
