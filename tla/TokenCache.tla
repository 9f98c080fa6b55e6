----------------------------- MODULE TokenCache -----------------------------
(***************************************************************************)
(* A resource server that asks this server's introspection endpoint about  *)
(* the access tokens it is shown and caches the answers in its own table   *)
(* (resource_server/validators.py, views/introspect.py), while users log   *)
(* out and clients refresh (Logout).  Several requests may be in flight,   *)
(* for the same token, and answers overtake each other.                    *)
(*                                                                         *)
(* The introspection settings are complete and `exp` is in UTC; where a    *)
(* restricted token is good is in ResourceAudience.                        *)
(* Slip... operators are wrong variants, used to test the properties.      *)
(***************************************************************************)
EXTENDS Logout

CONSTANTS
  Visit,         \* requests to the resource server
  CacheLife,     \* RESOURCE_SERVER_TOKEN_CACHING_SECONDS
  AnswerTimeout  \* RESOURCE_SERVER_INTROSPECTION_TIMEOUT_SECONDS

ASSUME CacheAssumption == /\ CacheLife \in Nat /\ AnswerTimeout \in Nat
                          /\ Null \notin [at: Nat, expires: Nat]

VARIABLES
  cache,    \* [Token -> until when the cached row is good, or Null]
  visit,    \* the local state of each request
  vouched   \* history: the last time introspection called a token active, and its expiry

cacheVars == <<cache, visit, vouched>>
vars == <<serverVars, cacheVars>>

\* `wide` says that the view wants scopes the token does not have; `at` is when the question
\* was sent or the token was accepted, `answer` the exp of an active answer.
Idle == [stage |-> "idle", token |-> Null, wide |-> FALSE, at |-> 0, answer |-> Null]

Init ==
  /\ LogoutInit
  /\ cache = [a \in Token |-> Null] /\ vouched = [a \in Token |-> Null]
  /\ visit = [v \in Visit |-> Idle]

Becomes(v, record) == visit' = [visit EXCEPT ![v] = record]
Accepted(v) == [visit[v] EXCEPT !.stage = "accepted", !.at = now, !.answer = Null]

Good(until) == until # Null /\ now < until

\* validate_bearer_token finds the token in the table, or asks about it.
Visiting(v, a, wide) ==
  /\ visit[v].stage = "idle" /\ a \in issued
  /\ Becomes(v, [Idle EXCEPT !.stage = IF Good(cache[a]) /\ ~wide THEN "accepted" ELSE "asked",
                             !.token = a, !.wide = wide, !.at = now])
  /\ UNCHANGED <<cache, vouched>>

\* IntrospectTokenView.get_token_response.
Active(a) == Has(access, a) /\ now < access[a].expires
Introspect(v) ==
  LET a == visit[v].token IN
  /\ visit[v].stage = "asked"
  /\ Becomes(v, [visit[v] EXCEPT !.stage = "answered", !.answer = IF Active(a) THEN access[a].expires ELSE Null])
  /\ vouched' = IF Active(a) THEN [vouched EXCEPT ![a] = [at |-> now, expires |-> access[a].expires]] ELSE vouched
  /\ UNCHANGED cache

\* An active answer in time replaces the cached row, an inactive one leaves it; the request
\* goes by the row that was just written, if any.
SlipCachedUntil(exp) == exp
CachedUntil(exp) == IF exp > now + CacheLife THEN now + CacheLife ELSE exp
Receive(v) ==
  LET exp == visit[v].answer IN
  /\ visit[v].stage = "answered"
  /\ now <= visit[v].at + AnswerTimeout
  /\ cache' = IF exp = Null THEN cache ELSE [cache EXCEPT ![visit[v].token] = CachedUntil(exp)]
  /\ Becomes(v, IF exp # Null /\ Good(CachedUntil(exp)) /\ ~visit[v].wide THEN Accepted(v) ELSE Idle)
  /\ UNCHANGED vouched

\* No answer, an error, or one that cannot be read (a malformed `aud` among them).
Fail(v) ==
  /\ visit[v].stage \in {"asked", "answered"}
  /\ Becomes(v, Idle)
  /\ UNCHANGED <<cache, vouched>>

Served(v) == visit[v].stage = "accepted" /\ Becomes(v, Idle) /\ UNCHANGED <<cache, vouched>>

VisitStep(v) ==
  \/ \E a \in Token, wide \in BOOLEAN : Visiting(v, a, wide)
  \/ Introspect(v) \/ Receive(v) \/ Fail(v) \/ Served(v)

Next ==
  \/ ServerNext /\ UNCHANGED cacheVars
  \/ (\E v \in Visit : VisitStep(v)) /\ UNCHANGED serverVars

Spec == Init /\ [][Next]_vars

----------------------------------------------------------------------------
(* Properties.                                                             *)

\* However long ago a token was deleted at this server, a resource server accepts it for less
\* than the caching time and one introspection timeout after it was last told that the token
\* is active, and never once it has expired (validators.py:248, the docs of the caching time):
\* a late answer, or one that overtook another, stretches that no further.
CacheIsBounded ==
  \A v \in Visit : visit[v].stage = "accepted" =>
    LET told == vouched[visit[v].token] IN
      /\ told # Null
      /\ visit[v].at < told.expires
      /\ visit[v].at < told.at + AnswerTimeout + CacheLife
=============================================================================
