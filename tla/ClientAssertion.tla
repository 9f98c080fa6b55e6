-------------------------- MODULE ClientAssertion --------------------------
(***************************************************************************)
(* Clients that authenticate with a signed JWT (authorization_server/      *)
(* client_assertions.py, RFC 7523): the keys an assertion is verified      *)
(* with, the cache and the failure back-off in front of a remote key set,  *)
(* the time window, and the cache of seen `jti` values that stops replays. *)
(*                                                                         *)
(* Requests run concurrently and share nothing but the Django cache; every *)
(* cache call, the fetch and the verification are separate steps, and the  *)
(* clock moves between them.  Time counts in ticks, `Second` of them to a  *)
(* second: claims and time.time() are fractional, cache timeouts are not.  *)
(* What a request carries is checked in ClientAuthentication; here every   *)
(* assertion is well formed, and names its client and this server.         *)
(* Slip... operators are wrong variants, used to test the properties.      *)
(***************************************************************************)
EXTENDS Integers, FiniteSets

CONSTANTS
  Assertion,    \* signed assertions, each with a jti of its own
  Key,          \* signing keys, of the client or of anybody else
  Request,      \* concurrent requests
  Second,       \* ticks in a second
  Leeway,       \* CLIENT_ASSERTION_LEEWAY
  MaxLifetime,  \* CLIENT_ASSERTION_MAX_LIFETIME
  CacheLife,    \* CLIENT_ASSERTION_JWKS_CACHE_TIMEOUT
  FetchTimeout, \* CLIENT_ASSERTION_JWKS_FETCH_TIMEOUT_SECONDS
  BackoffLife,  \* CLIENT_ASSERTION_JWKS_FAILURE_BACKOFF_SECONDS
  Lifetimes,    \* from minting to `exp`, as clients choose it
  Skews,        \* how far the clock of a client may run ahead
  MaxTime,      \* bound: the clock
  Null

ASSUME AssertionAssumption ==
  /\ Second \in Nat \ {0} /\ Leeway \in Nat /\ MaxLifetime \in Nat /\ CacheLife \in Nat
  /\ FetchTimeout \in Nat /\ BackoffLife \in Nat /\ MaxTime \in Nat
  /\ Lifetimes \subseteq Nat /\ Skews \subseteq Nat
  /\ Null \notin Key \cup Assertion \cup Nat

VARIABLES
  now,       \* time.time()
  remote,    \* whether the client registered a client_jwks_uri, or keys that are stored here
  published, \* the client's keys: at that address, or in its Application row
  lastSeen,  \* history: until when each key was among them, Null for never
  assertion, \* the assertions that exist
  jwks,      \* the cached key set
  backoff,   \* until when the cache holds a failure
  seen,      \* the cached jti values: until when each is remembered
  accepted, replayed, evicted, \* history: assertions accepted, accepted again, forgotten
  req        \* the local state of each request

vars == <<now, remote, published, lastSeen, assertion, jwks, backoff, seen, accepted,
          replayed, evicted, req>>

----------------------------------------------------------------------------

\* `kid` is what the header says of the key: it may say nothing, or name another one.
Signed == [key: Key, kid: Key \cup {Null}, exp: Nat, iat: Nat]

\* "keys": a key set is wanted; "backoff": it has to be fetched; "fetch", "answer": it is on
\* its way; "verify": candidate keys are known; "jti": the signature and the times are good.
\* `forced` marks the fetch that passes the cached set by; `at` is when the fetch began or
\* the keys were taken; `held`, history: the signing key was published ever since the
\* request began.
RequestState == [phase: {"idle", "keys", "backoff", "fetch", "answer", "verify", "jti"},
                 assertion: Assertion \cup {Null}, forced: BOOLEAN, keys: SUBSET Key,
                 at: Nat, held: BOOLEAN]
Idle == [phase |-> "idle", assertion |-> Null, forced |-> FALSE, keys |-> {}, at |-> 0,
         held |-> FALSE]

NoKeys == [keys |-> {}, until |-> 0]

Init == /\ now = 0
        /\ remote \in BOOLEAN
        /\ published \in SUBSET Key \ {{}}
        /\ lastSeen = [k \in Key |-> IF k \in published THEN 0 ELSE Null]
        /\ assertion = [a \in Assertion |-> Null]
        /\ jwks = NoKeys
        /\ backoff = 0
        /\ seen = [a \in Assertion |-> 0]
        /\ accepted = {} /\ replayed = {} /\ evicted = {}
        /\ req = [q \in Request |-> Idle]

Presented(q) == assertion[req[q].assertion]
Become(q, r) == req' = [req EXCEPT ![q] = r]
Cached == jwks.until > now

----------------------------------------------------------------------------
(* The client, the host of its key set, and the clock.                     *)

\* What the cache holds expires.
Left(until, time) == IF until > time THEN until ELSE 0
Tick ==
  /\ now < MaxTime
  /\ now' = now + 1
  /\ lastSeen' = [k \in Key |-> IF k \in published THEN now + 1 ELSE lastSeen[k]]
  /\ jwks' = IF jwks.until > now + 1 THEN jwks ELSE NoKeys
  /\ backoff' = Left(backoff, now + 1)
  /\ seen' = [a \in Assertion |-> Left(seen[a], now + 1)]
  /\ UNCHANGED <<remote, published, assertion, accepted, replayed, evicted, req>>

Mint(a, k, kid, life, skew) ==
  /\ assertion[a] = Null
  /\ assertion' = [assertion EXCEPT ![a] =
                     [key |-> k, kid |-> kid, exp |-> now + life, iat |-> now + skew]]
  /\ UNCHANGED <<now, remote, published, lastSeen, jwks, backoff, seen, accepted, replayed,
                 evicted, req>>

PublishKeys(K) ==
  /\ K # published /\ K # {}
  /\ published' = K
  /\ lastSeen' = [k \in Key |-> IF k \in K THEN now ELSE lastSeen[k]]
  /\ req' = [q \in Request |-> [req[q] EXCEPT !.held = @ /\ Presented(q).key \in K]]
  /\ UNCHANGED <<now, remote, assertion, jwks, backoff, seen, accepted, replayed, evicted>>

\* The cache may drop an entry early to make room.
Evict(a) ==
  /\ seen[a] > now
  /\ seen' = [seen EXCEPT ![a] = 0]
  /\ evicted' = evicted \cup {a}
  /\ UNCHANGED <<now, remote, published, lastSeen, assertion, jwks, backoff, accepted,
                 replayed, req>>

----------------------------------------------------------------------------
(* A request presents an assertion, and candidate keys are looked for.     *)

Present(q, a) ==
  /\ req[q].phase = "idle" /\ assertion[a] # Null
  /\ Become(q, [Idle EXCEPT !.phase = "keys", !.assertion = a,
                            !.held = assertion[a].key \in published])
  /\ UNCHANGED <<now, remote, published, lastSeen, assertion, jwks, backoff, seen, accepted,
                 replayed, evicted>>

\* Any failure is answered invalid_client.
Refuse(q) == Become(q, Idle)

\* _signing_keys: the key the kid names, or all of them without one.
Named(K, kid) == IF kid = Null THEN K ELSE K \cap {kid}

\* The kid is a hint: when it names nothing, every key is tried.
Candidates(K, kid) == IF Named(K, kid) # {} THEN Named(K, kid) ELSE K

Choose(q, K) ==
  Become(q, [req[q] EXCEPT !.phase = "verify", !.forced = FALSE, !.at = now,
                           !.keys = Candidates(K, Presented(q).kid)])
Refetch(q) == Become(q, [req[q] EXCEPT !.phase = "backoff", !.forced = TRUE, !.keys = {}, !.at = 0])

\* The kid names no key of a set, which may be old: one more fetch, past the cache.
SlipUnmatched(q, K) == FALSE
Unmatched(q, K) == ~req[q].forced /\ Named(K, Presented(q).kid) = {}
TakeKeys(q, K) == IF Unmatched(q, K) THEN Refetch(q) ELSE Choose(q, K)

ReadStoredKeys(q) ==
  /\ req[q].phase = "keys" /\ ~remote
  /\ Choose(q, published)
  /\ UNCHANGED <<now, remote, published, lastSeen, assertion, jwks, backoff, seen, accepted,
                 replayed, evicted>>

ReadCachedKeys(q) ==
  /\ req[q].phase = "keys" /\ remote
  /\ IF Cached THEN TakeKeys(q, jwks.keys) ELSE Become(q, [req[q] EXCEPT !.phase = "backoff"])
  /\ UNCHANGED <<now, remote, published, lastSeen, assertion, jwks, backoff, seen, accepted,
                 replayed, evicted>>

SlipBackedOff(q) == backoff > now /\ ~req[q].forced
BackedOff(q) == backoff > now
CheckBackoff(q) ==
  /\ req[q].phase = "backoff"
  /\ IF BackedOff(q) THEN Refuse(q) ELSE Become(q, [req[q] EXCEPT !.phase = "fetch", !.at = now])
  /\ UNCHANGED <<now, remote, published, lastSeen, assertion, jwks, backoff, seen, accepted,
                 replayed, evicted>>

\* The host sends what it publishes.
HostAnswers(q) ==
  /\ req[q].phase = "fetch"
  /\ Become(q, [req[q] EXCEPT !.phase = "answer", !.keys = published])
  /\ UNCHANGED <<now, remote, published, lastSeen, assertion, jwks, backoff, seen, accepted,
                 replayed, evicted>>

\* No answer within the time budget, a refused address, or a document without usable keys.
FetchFails(q) ==
  /\ req[q].phase \in {"fetch", "answer"}
  /\ backoff' = now + BackoffLife
  /\ Refuse(q)
  /\ UNCHANGED <<now, remote, published, lastSeen, assertion, jwks, seen, accepted, replayed, evicted>>

\* The answer is complete within the budget, and cached.
SlipStillTimely(q) == TRUE
StillTimely(q) == now < req[q].at + FetchTimeout
ReceiveKeys(q) ==
  /\ req[q].phase = "answer" /\ StillTimely(q)
  /\ jwks' = [keys |-> req[q].keys, until |-> now + CacheLife]
  /\ TakeKeys(q, req[q].keys)
  /\ UNCHANGED <<now, remote, published, lastSeen, assertion, backoff, seen, accepted,
                 replayed, evicted>>

----------------------------------------------------------------------------
(* Signature, times, and replay.                                           *)

\* jwcrypto verifies the signature and `exp`; _check_times caps `exp` and refuses a future `iat`.
Timely(s) == /\ now <= s.exp + Leeway
             /\ s.exp <= now + MaxLifetime + Leeway
             /\ s.iat <= now + Leeway

Verify(q) ==
  /\ req[q].phase = "verify"
  /\ IF Presented(q).key \in req[q].keys /\ Timely(Presented(q))
       THEN Become(q, [Idle EXCEPT !.phase = "jti", !.assertion = req[q].assertion])
       ELSE Refuse(q)
  /\ UNCHANGED <<now, remote, published, lastSeen, assertion, jwks, backoff, seen, accepted,
                 replayed, evicted>>

\* int(timeout) + 1 seconds, in ticks.
SlipRememberFor(timeout) == timeout - (timeout % Second)
RememberFor(timeout) == timeout - (timeout % Second) + Second

\* cache.add: only one request can be the first to remember a jti.
Remember(q) ==
  LET a == req[q].assertion
      timeout == assertion[a].exp + Leeway - now
  IN
  /\ req[q].phase = "jti"
  /\ IF timeout > 0 /\ seen[a] <= now
       THEN /\ seen' = [seen EXCEPT ![a] = now + RememberFor(timeout)]
            /\ accepted' = accepted \cup {a}
            /\ replayed' = IF a \in accepted THEN replayed \cup {a} ELSE replayed
       ELSE UNCHANGED <<seen, accepted, replayed>>
  /\ Refuse(q)
  /\ UNCHANGED <<now, remote, published, lastSeen, assertion, jwks, backoff, evicted>>

RequestStep(q) ==
  \/ \E a \in Assertion : Present(q, a)
  \/ ReadStoredKeys(q)
  \/ ReadCachedKeys(q)
  \/ CheckBackoff(q)
  \/ HostAnswers(q)
  \/ FetchFails(q)
  \/ ReceiveKeys(q)
  \/ Verify(q)
  \/ Remember(q)

MintAny ==
  \E a \in Assertion, k \in Key, kid \in Key \cup {Null}, life \in Lifetimes, skew \in Skews :
    Mint(a, k, kid, life, skew)

Next ==
  \/ Tick
  \/ MintAny
  \/ \E K \in SUBSET Key : PublishKeys(K)
  \/ \E a \in Assertion : Evict(a)
  \/ \E q \in Request : RequestStep(q)

Spec == Init /\ [][Next]_vars

----------------------------------------------------------------------------
(* Properties.                                                             *)

OrNull(S) == S \cup {Null}

TypeOK ==
  /\ now \in Nat /\ remote \in BOOLEAN /\ published \subseteq Key
  /\ lastSeen \in [Key -> OrNull(Nat)]
  /\ assertion \in [Assertion -> OrNull(Signed)]
  /\ jwks \in [keys: SUBSET Key, until: Nat]
  /\ backoff \in Nat
  /\ seen \in [Assertion -> Nat]
  /\ accepted \subseteq Assertion /\ replayed \subseteq Assertion /\ evicted \subseteq Assertion
  /\ req \in [Request -> RequestState]

\* An assertion is accepted once unless the cache forgot it (client_assertions.py:335): a cached
\* jti outlives its assertion, whatever time passed between the verification and the cache.
DeadAt(a) == assertion[a].exp + Leeway
Remembered(a) == a \in accepted \ evicted => seen[a] > DeadAt(a) \/ now >= DeadAt(a)
ReplayInv == /\ \A a \in Assertion : assertion[a] = Null => a \notin accepted
             /\ \A a \in Assertion : Remembered(a)
AcceptedOnce == replayed \subseteq evicted

\* A key the client withdrew dies with the cached set: what an assertion is verified with was
\* published when it was taken from the row, or less than a fetch and a cache lifetime before
\* it was taken from the cache (fetch_remote_jwks).
Recent(k, at) == /\ lastSeen[k] # Null
                 /\ IF remote THEN at < lastSeen[k] + FetchTimeout + CacheLife ELSE at <= lastSeen[k]
WithdrawnKeysDie ==
  \A q \in Request : req[q].phase = "verify" => \A k \in req[q].keys : Recent(k, req[q].at)

\* A freshly published key is honoured at once when the kid names it, whatever is cached.
NewKeysAreFound ==
  \A q \in Request :
    req[q].phase = "verify" /\ req[q].held /\ Presented(q).kid = Presented(q).key =>
      Presented(q).key \in req[q].keys

KeysAreCurrent == WithdrawnKeysDie /\ NewKeysAreFound

\* No fetch, a forced one included, begins while a failure is remembered.
BackoffHolds ==
  [][\A q \in Request :
       req[q].phase # "fetch" /\ req'[q].phase = "fetch" =>
         now >= backoff]_vars
=============================================================================
