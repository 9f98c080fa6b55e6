----------------------- MODULE ClientAssertionProofs -----------------------
(***************************************************************************)
(* Theorems about client assertions for any number of assertions, keys and *)
(* requests, any settings and any clock.  KeysAreCurrent is not inductive  *)
(* alone: what a request takes from an answer or from the cache is as      *)
(* current as what the host sent (RequestInv) and the cache keeps it       *)
(* (CacheInv).                                                             *)
(***************************************************************************)
EXTENDS ClientAssertion, TLAPS

\* A published key is current; a cached key will have left the cache in time.
CacheInv ==
  /\ \A k \in published : lastSeen[k] = now
  /\ \A k \in Key : lastSeen[k] # Null => lastSeen[k] <= now
  /\ \A k \in jwks.keys :
       lastSeen[k] # Null /\ jwks.until < lastSeen[k] + FetchTimeout + CacheLife

\* What a request in flight has read.
RequestInv(q) ==
  LET r == req[q] IN
  /\ r.phase # "idle" => r.assertion \in Assertion /\ assertion[r.assertion] # Null
  /\ r.phase # "idle" /\ r.held => Presented(q).key \in published
  /\ r.phase = "keys" => ~r.forced
  /\ r.phase \in {"backoff", "fetch", "answer"} => remote
  /\ r.phase = "fetch" => r.at <= now
  /\ r.phase = "answer" =>
       /\ \A k \in r.keys : lastSeen[k] # Null /\ r.at <= lastSeen[k]
       /\ r.held => Presented(q).key \in r.keys
  /\ r.phase = "verify" =>
       /\ \A k \in r.keys : Recent(k, r.at)
       /\ r.held /\ Presented(q).kid = Presented(q).key => Presented(q).key \in r.keys

Inv == /\ TypeOK /\ CacheInv /\ ReplayInv /\ AcceptedOnce
       /\ \A q \in Request : RequestInv(q)

\* A cache timeout in whole seconds is longer than the time it was made from.
LEMMA Rounding ==
  ASSUME NEW timeout \in Nat
  PROVE  RememberFor(timeout) \in Nat /\ RememberFor(timeout) > timeout
<1>1. Second \in Nat /\ Second > 0
  BY AssertionAssumption
<1>2. timeout % Second \in 0..(Second - 1)
  BY <1>1
<1> DEFINE m == timeout % Second
<1> HIDE DEF m
<1>3. m \in 0..(Second - 1)
  BY <1>2 DEF m
<1>4. timeout - m + Second \in Nat /\ timeout - m + Second > timeout
  BY <1>1, <1>3
<1> QED BY <1>4 DEF RememberFor, m

LEMMA InitInv == Init => Inv
BY AssertionAssumption
   DEF Init, Inv, TypeOK, CacheInv, ReplayInv, Remembered, AcceptedOnce, RequestInv, NoKeys, Idle,
       RequestState, OrNull

----------------------------------------------------------------------------
(* What most steps leave alone.                                            *)

\* Time goes on and minted assertions stay what they are.
Onward == /\ now' >= now /\ remote' = remote
          /\ \A k \in Key : lastSeen[k] # Null => lastSeen'[k] # Null /\ lastSeen'[k] >= lastSeen[k]
          /\ \A a \in Assertion : assertion[a] # Null => assertion'[a] = assertion[a]

LEMMA RequestStays ==
  ASSUME TypeOK, TypeOK', Onward, published' = published, NEW q \in Request, RequestInv(q),
         req'[q] = req[q]
  PROVE  RequestInv(q)'
<1>1. req[q] \in RequestState
  BY DEF TypeOK
<1>2. /\ req[q].keys \subseteq Key /\ req[q].at \in Nat
  BY <1>1 DEF RequestState
<1>3. \A k \in Key : lastSeen[k] # Null => lastSeen[k] \in Nat /\ lastSeen'[k] \in Nat
  BY DEF TypeOK, OrNull, Onward
<1>4. \A k \in Key : Recent(k, req[q].at) => Recent(k, req[q].at)'
  BY <1>2, <1>3, AssertionAssumption DEF Recent, Onward, TypeOK
<1>5. now \in Nat /\ now' \in Nat
  BY DEF TypeOK
<1>6. req[q].phase # "idle" => Presented(q)' = Presented(q)
  BY DEF RequestInv, Presented, Onward
<1>7. req[q].phase = "verify" => \A k \in req[q].keys : Recent(k, req[q].at)'
  BY <1>2, <1>4 DEF RequestInv
<1>8. req[q].phase = "answer" =>
        \A k \in req[q].keys : lastSeen'[k] # Null /\ req[q].at <= lastSeen'[k]
  BY <1>2, <1>3 DEF RequestInv, Onward
<1> QED BY <1>2, <1>5, <1>6, <1>7, <1>8 DEF RequestInv, Onward

\* Where neither the keys nor the cached set change.
LEMMA CacheStays ==
  ASSUME CacheInv, UNCHANGED <<now, published, lastSeen, jwks>>
  PROVE  CacheInv'
BY DEF CacheInv

----------------------------------------------------------------------------
(* Types.                                                                  *)

LEMMA RequestTypes ==
  /\ Idle \in RequestState
  /\ \A a \in Assertion, h \in BOOLEAN :
       [Idle EXCEPT !.phase = "keys", !.assertion = a, !.held = h] \in RequestState
  /\ \A r \in RequestState :
       /\ [Idle EXCEPT !.phase = "jti", !.assertion = r.assertion] \in RequestState
       /\ [r EXCEPT !.phase = "backoff"] \in RequestState
       /\ [r EXCEPT !.phase = "backoff", !.forced = TRUE, !.keys = {}, !.at = 0] \in RequestState
  /\ \A r \in RequestState, at \in Nat : [r EXCEPT !.phase = "fetch", !.at = at] \in RequestState
  /\ \A r \in RequestState, K \in SUBSET Key : [r EXCEPT !.phase = "answer", !.keys = K] \in RequestState
  /\ \A r \in RequestState, K \in SUBSET Key, at \in Nat :
       [r EXCEPT !.phase = "verify", !.forced = FALSE, !.at = at, !.keys = K] \in RequestState
  /\ \A r \in RequestState, h \in BOOLEAN : [r EXCEPT !.held = h] \in RequestState
<1>1. Idle \in RequestState
  BY DEF RequestState, Idle
<1>2. \A a \in Assertion, h \in BOOLEAN :
        [Idle EXCEPT !.phase = "keys", !.assertion = a, !.held = h] \in RequestState
  BY DEF RequestState, Idle
<1>3. \A r \in RequestState :
        [Idle EXCEPT !.phase = "jti", !.assertion = r.assertion] \in RequestState
  BY DEF RequestState, Idle
<1>4. \A r \in RequestState : [r EXCEPT !.phase = "backoff"] \in RequestState
  BY DEF RequestState
<1>5. \A r \in RequestState :
        [r EXCEPT !.phase = "backoff", !.forced = TRUE, !.keys = {}, !.at = 0] \in RequestState
  BY DEF RequestState
<1>6. \A r \in RequestState, at \in Nat : [r EXCEPT !.phase = "fetch", !.at = at] \in RequestState
  BY DEF RequestState
<1>7. \A r \in RequestState, K \in SUBSET Key : [r EXCEPT !.phase = "answer", !.keys = K] \in RequestState
  BY DEF RequestState
<1>8. \A r \in RequestState, K \in SUBSET Key, at \in Nat :
        [r EXCEPT !.phase = "verify", !.forced = FALSE, !.at = at, !.keys = K] \in RequestState
  BY DEF RequestState
<1>9. \A r \in RequestState, h \in BOOLEAN : [r EXCEPT !.held = h] \in RequestState
  BY DEF RequestState
<1> QED BY <1>1, <1>2, <1>3, <1>4, <1>5, <1>6, <1>7, <1>8, <1>9

LEMMA TakeKeysTypes ==
  ASSUME TypeOK, NEW q \in Request, NEW K \in SUBSET Key, TakeKeys(q, K) \/ Choose(q, K)
  PROVE  req' \in [Request -> RequestState]
<1>1. now \in Nat /\ req[q] \in RequestState
  BY DEF TypeOK
<1>2. Candidates(K, Presented(q).kid) \in SUBSET Key
  BY DEF Candidates, Named
<1>3. ASSUME Choose(q, K) PROVE req' \in [Request -> RequestState]
  BY <1>1, <1>2, <1>3, RequestTypes DEF Become, TypeOK, Choose
<1>4. ASSUME Refetch(q) PROVE req' \in [Request -> RequestState]
  BY <1>1, <1>4, RequestTypes DEF Become, TypeOK, Refetch
<1> QED BY <1>3, <1>4 DEF TakeKeys

\* The rest of the state, where only a request moves.
LEMMA OthersTyped ==
  ASSUME TypeOK, req' \in [Request -> RequestState],
         UNCHANGED <<now, remote, published, lastSeen, assertion, jwks, backoff, seen, accepted,
                     replayed, evicted>>
  PROVE  TypeOK'
BY DEF TypeOK, Signed, RequestState

LEMMA StepTypes ==
  ASSUME TypeOK, NEW q \in Request, RequestInv(q), RequestStep(q)
  PROVE  TypeOK'
<1>0. now \in Nat /\ req[q] \in RequestState /\ published \in SUBSET Key /\ jwks.keys \in SUBSET Key
  BY DEF TypeOK
<1>01. req[q].keys \in SUBSET Key
  BY <1>0 DEF RequestState
<1>1. CASE \E a \in Assertion : Present(q, a)
  <2> PICK a \in Assertion : Present(q, a) BY <1>1
  <2> DEFINE h == assertion[a].key \in published
  <2>1. h \in BOOLEAN /\ req' = [req EXCEPT ![q] = [Idle EXCEPT !.phase = "keys", !.assertion = a, !.held = h]]
    BY DEF Present, Become
  <2> HIDE DEF h
  <2>2. req' \in [Request -> RequestState]
    BY <2>1, RequestTypes DEF TypeOK
  <2> QED BY <2>2, OthersTyped DEF Present
<1>2. CASE ReadStoredKeys(q)
  BY <1>0, <1>2, TakeKeysTypes, OthersTyped DEF ReadStoredKeys
<1>3. CASE ReadCachedKeys(q)
  <2>1. req' \in [Request -> RequestState]
    <3>1. CASE Cached
      BY <1>0, <1>3, <3>1, TakeKeysTypes DEF ReadCachedKeys
    <3>2. CASE ~Cached
      BY <1>0, <1>3, <3>2, RequestTypes DEF Become, TypeOK, ReadCachedKeys
    <3> QED BY <3>1, <3>2
  <2> QED BY <1>3, <2>1, OthersTyped DEF ReadCachedKeys
<1>4. CASE CheckBackoff(q)
  <2>1. req' \in [Request -> RequestState]
    <3>1. CASE BackedOff(q)
      BY <1>4, <3>1, RequestTypes DEF Become, TypeOK, CheckBackoff, Refuse
    <3>2. CASE ~BackedOff(q)
      <4> DEFINE r == [req[q] EXCEPT !.phase = "fetch", !.at = now]
      <4>1. req' = [req EXCEPT ![q] = r]
        BY <1>4, <3>2 DEF CheckBackoff, Become
      <4>2. r \in RequestState
        BY <1>0, RequestTypes
      <4> HIDE DEF r
      <4> QED BY <4>1, <4>2 DEF TypeOK
    <3> QED BY <3>1, <3>2
  <2> QED BY <1>4, <2>1, OthersTyped DEF CheckBackoff
<1>5. CASE HostAnswers(q)
  <2>1. req' \in [Request -> RequestState]
    BY <1>0, <1>5, RequestTypes DEF Become, TypeOK, HostAnswers
  <2> QED BY <1>5, <2>1, OthersTyped DEF HostAnswers
<1>6. CASE FetchFails(q)
  <2>1. req' \in [Request -> RequestState]
    BY <1>6, RequestTypes DEF Become, TypeOK, FetchFails, Refuse
  <2> QED BY <1>0, <1>6, <2>1, AssertionAssumption DEF FetchFails, TypeOK
<1>7. CASE ReceiveKeys(q)
  <2>1. req' \in [Request -> RequestState]
    BY <1>01, <1>7, TakeKeysTypes DEF ReceiveKeys
  <2> QED BY <1>0, <1>01, <1>7, <2>1, AssertionAssumption
          DEF ReceiveKeys, TypeOK
<1>8. CASE Verify(q)
  BY <1>0, <1>8, RequestTypes, OthersTyped
     DEF Become, TypeOK, Verify, Refuse, RequestInv
<1>9. CASE Remember(q)
  <2> DEFINE a == req[q].assertion
             timeout == assertion[a].exp + Leeway - now
  <2>1. req' \in [Request -> RequestState]
    BY <1>9, RequestTypes DEF Become, TypeOK, Remember, Refuse
  <2>2. a \in Assertion /\ assertion[a] \in Signed
    BY <1>9 DEF Remember, RequestInv, TypeOK, OrNull
  <2>3. timeout \in Int
    BY <1>0, <2>2, AssertionAssumption DEF Signed
  <2>4. timeout > 0 => now + RememberFor(timeout) \in Nat
    BY <1>0, <2>3, Rounding
  <2> HIDE DEF timeout
  <2> QED BY <1>9, <2>1, <2>2, <2>4 DEF Remember, TypeOK, timeout
<1> QED BY <1>1, <1>2, <1>3, <1>4, <1>5, <1>6, <1>7, <1>8, <1>9 DEF RequestStep

LEMMA NextTypes ==
  ASSUME TypeOK, \A q \in Request : RequestInv(q), [Next]_vars
  PROVE  TypeOK'
<1>1. CASE Tick
  BY <1>1, AssertionAssumption DEF Tick, TypeOK, Left, NoKeys, OrNull, Signed, RequestState
<1>2. CASE MintAny
  <2> PICK a \in Assertion, k \in Key, kid \in Key \cup {Null}, life \in Lifetimes, skew \in Skews :
        Mint(a, k, kid, life, skew)
    BY <1>2 DEF MintAny
  <2>1. [key |-> k, kid |-> kid, exp |-> now + life, iat |-> now + skew] \in Signed
    BY AssertionAssumption DEF TypeOK, Signed
  <2> QED BY <2>1 DEF Mint, TypeOK, OrNull
<1>3. CASE \E K \in SUBSET Key : PublishKeys(K)
  <2> PICK K \in SUBSET Key : PublishKeys(K) BY <1>3
  <2>1. req' \in [Request -> RequestState]
    <3>2. ASSUME NEW q \in Request
          PROVE  [req[q] EXCEPT !.held = @ /\ Presented(q).key \in K] \in RequestState
      <4> DEFINE h == req[q].held /\ Presented(q).key \in K
      <4>1. h \in BOOLEAN
        OBVIOUS
      <4> HIDE DEF h
      <4>2. [req[q] EXCEPT !.held = h] \in RequestState
        BY <4>1, RequestTypes DEF TypeOK
      <4> QED BY <4>2 DEF h
    <3> QED BY <3>2 DEF PublishKeys
  <2> QED BY <2>1 DEF PublishKeys, TypeOK, OrNull
<1>4. CASE \E a \in Assertion : Evict(a)
  BY <1>4 DEF Evict, TypeOK
<1>5. CASE \E q \in Request : RequestStep(q)
  BY <1>5, StepTypes
<1>6. CASE UNCHANGED vars
  BY <1>6 DEF vars, TypeOK
<1> QED BY <1>1, <1>2, <1>3, <1>4, <1>5, <1>6 DEF Next

----------------------------------------------------------------------------
(* Replay.                                                                 *)

LEMMA Deadlines ==
  ASSUME TypeOK, ReplayInv, NEW a \in accepted
  PROVE  a \in Assertion /\ assertion[a] \in Signed /\ DeadAt(a) \in Nat /\ seen[a] \in Nat
<1>1. a \in Assertion /\ assertion[a] \in Signed /\ seen[a] \in Nat
  BY DEF TypeOK, ReplayInv, OrNull
<1> QED BY <1>1, AssertionAssumption DEF DeadAt, Signed

LEMMA NextReplay ==
  ASSUME TypeOK, TypeOK', \A q \in Request : RequestInv(q), ReplayInv, AcceptedOnce, [Next]_vars
  PROVE  ReplayInv' /\ AcceptedOnce'
<1>1. CASE Tick
  <2>1. now \in Nat /\ now' = now + 1 /\ assertion' = assertion /\ accepted' = accepted
        /\ evicted' = evicted /\ replayed' = replayed
    BY <1>1 DEF Tick, TypeOK
  <2>2. ASSUME NEW a \in Assertion, a \in accepted \ evicted
        PROVE  seen'[a] > DeadAt(a)' \/ now' >= DeadAt(a)'
    <3>1. DeadAt(a)' = DeadAt(a) /\ DeadAt(a) \in Nat /\ seen[a] \in Nat
      BY <2>1, <2>2, Deadlines DEF DeadAt
    <3>2. seen'[a] = IF seen[a] > now + 1 THEN seen[a] ELSE 0
      BY <1>1, <2>2 DEF Tick, Left
    <3>3. seen[a] > DeadAt(a) \/ now >= DeadAt(a)
      BY <2>2 DEF ReplayInv, Remembered
    <3> QED BY <2>1, <3>1, <3>2, <3>3
  <2> QED BY <2>1, <2>2 DEF ReplayInv, Remembered, AcceptedOnce
<1>2. CASE MintAny
  <2> PICK a \in Assertion, k \in Key, kid \in Key \cup {Null}, life \in Lifetimes, skew \in Skews :
        Mint(a, k, kid, life, skew)
    BY <1>2 DEF MintAny
  <2>1. a \notin accepted /\ \A b \in Assertion : b # a => assertion'[b] = assertion[b]
    BY DEF Mint, ReplayInv, TypeOK
  <2>2. UNCHANGED <<now, seen, accepted, replayed, evicted>>
    BY DEF Mint
  <2>3. \A b \in Assertion : b # a => DeadAt(b)' = DeadAt(b)
    BY <2>1 DEF DeadAt
  <2> QED BY <2>1, <2>2, <2>3 DEF ReplayInv, Remembered, AcceptedOnce
<1>3. CASE \E K \in SUBSET Key : PublishKeys(K)
  BY <1>3 DEF PublishKeys, ReplayInv, Remembered, DeadAt, AcceptedOnce
<1>4. CASE \E a \in Assertion : Evict(a)
  BY <1>4 DEF Evict, ReplayInv, Remembered, DeadAt, AcceptedOnce, TypeOK
<1>5. ASSUME NEW q \in Request, RequestStep(q)
      PROVE  ReplayInv' /\ AcceptedOnce'
  <2>1. CASE Remember(q) /\ assertion[req[q].assertion].exp + Leeway - now > 0
                         /\ seen[req[q].assertion] <= now
    <3> DEFINE a == req[q].assertion
               timeout == assertion[a].exp + Leeway - now
    <3>1. a \in Assertion /\ assertion[a] # Null /\ assertion[a] \in Signed
      BY <2>1 DEF Remember, RequestInv, TypeOK, OrNull
    <3>2. now \in Nat /\ assertion[a].exp \in Nat /\ Leeway \in Nat
      BY <3>1, AssertionAssumption DEF TypeOK, Signed
    <3>3. RememberFor(timeout) \in Nat /\ RememberFor(timeout) > timeout
      BY <2>1, <3>2, Rounding
    <3>4. now + RememberFor(timeout) > DeadAt(a)
      BY <3>2, <3>3 DEF DeadAt
    <3>5. /\ seen' = [seen EXCEPT ![a] = now + RememberFor(timeout)]
          /\ accepted' = accepted \cup {a}
          /\ replayed' = IF a \in accepted THEN replayed \cup {a} ELSE replayed
          /\ UNCHANGED <<now, assertion, evicted>>
      BY <2>1 DEF Remember
    <3>6. a \in accepted => a \in evicted
      <4>1. ASSUME a \in accepted \ evicted PROVE FALSE
        <5>1. seen[a] > DeadAt(a) \/ now >= DeadAt(a)
          BY <3>1, <4>1 DEF ReplayInv, Remembered
        <5>2. seen[a] \in Nat
          BY <3>1 DEF TypeOK
        <5> QED BY <2>1, <3>2, <5>1, <5>2 DEF DeadAt
      <4> QED BY <4>1
    <3>7. \A b \in Assertion : DeadAt(b)' = DeadAt(b)
      BY <3>5 DEF DeadAt
    <3>8. seen'[a] > DeadAt(a) /\ \A b \in Assertion : b # a => seen'[b] = seen[b]
      BY <3>1, <3>4, <3>5 DEF TypeOK
    <3> HIDE DEF timeout
    <3> QED BY <3>1, <3>5, <3>6, <3>7, <3>8 DEF ReplayInv, Remembered, AcceptedOnce
  <2>2. CASE UNCHANGED <<now, assertion, seen, accepted, replayed, evicted>>
    BY <2>2 DEF ReplayInv, Remembered, DeadAt, AcceptedOnce
  <2> QED BY <1>5, <2>1, <2>2
          DEF RequestStep, Present, ReadStoredKeys, ReadCachedKeys, CheckBackoff, HostAnswers,
              FetchFails, ReceiveKeys, Verify, Remember
<1>6. CASE UNCHANGED vars
  BY <1>6 DEF vars, ReplayInv, Remembered, DeadAt, AcceptedOnce
<1> QED BY <1>1, <1>2, <1>3, <1>4, <1>5, <1>6 DEF Next

----------------------------------------------------------------------------
(* Keys.                                                                   *)

LEMMA TickInv ==
  ASSUME TypeOK, TypeOK', CacheInv, \A q \in Request : RequestInv(q), Tick
  PROVE  CacheInv' /\ \A q \in Request : RequestInv(q)'
<1>1. now \in Nat /\ now' = now + 1 /\ UNCHANGED <<remote, published, assertion, req>>
  BY DEF Tick, TypeOK
<1>2. /\ \A k \in published : lastSeen'[k] = now + 1
      /\ \A k \in Key \ published : lastSeen'[k] = lastSeen[k]
  BY DEF Tick, TypeOK
<1>3. \A k \in Key : lastSeen[k] # Null => lastSeen[k] \in Nat
  BY DEF TypeOK, OrNull
<1>4. published \subseteq Key /\ jwks.keys \subseteq Key /\ jwks.until \in Nat
  BY DEF TypeOK
<1>5. Onward
  BY <1>1, <1>2, <1>3, AssertionAssumption DEF Onward, CacheInv
<1>6. \A k \in jwks'.keys : lastSeen'[k] # Null /\ jwks'.until < lastSeen'[k] + FetchTimeout + CacheLife
  <2>1. CASE jwks' = jwks
    <3>1. ASSUME NEW k \in jwks.keys
          PROVE  lastSeen'[k] # Null /\ jwks.until < lastSeen'[k] + FetchTimeout + CacheLife
      <4>1. lastSeen[k] \in Nat /\ jwks.until < lastSeen[k] + FetchTimeout + CacheLife
        BY <1>3, <1>4, <3>1 DEF CacheInv
      <4>2. lastSeen'[k] # Null /\ lastSeen'[k] >= lastSeen[k]
        BY <1>4, <1>5, <4>1, AssertionAssumption DEF Onward
      <4>3. lastSeen'[k] \in Nat
        BY <1>4, <4>2 DEF TypeOK, OrNull
      <4> QED BY <1>4, <4>1, <4>2, <4>3, AssertionAssumption
    <3> QED BY <2>1, <3>1
  <2>2. CASE jwks' = NoKeys
    BY <2>2 DEF NoKeys
  <2> QED BY <2>1, <2>2 DEF Tick
<1>7. CacheInv'
  BY <1>1, <1>2, <1>3, <1>4, <1>6, AssertionAssumption DEF CacheInv
<1> QED BY <1>1, <1>5, <1>7, RequestStays

LEMMA MintInv ==
  ASSUME TypeOK, TypeOK', CacheInv, \A q \in Request : RequestInv(q),
         NEW a \in Assertion, NEW k, NEW kid, NEW life, NEW skew, Mint(a, k, kid, life, skew)
  PROVE  CacheInv' /\ \A q \in Request : RequestInv(q)'
<1>1. UNCHANGED <<now, remote, published, lastSeen, jwks, req>>
  BY DEF Mint
<1>2. Onward
  BY <1>1 DEF Mint, Onward, TypeOK, OrNull
<1> QED BY <1>1, <1>2, RequestStays, CacheStays

LEMMA PublishInv ==
  ASSUME TypeOK, TypeOK', CacheInv, \A q \in Request : RequestInv(q),
         NEW K \in SUBSET Key, PublishKeys(K)
  PROVE  CacheInv' /\ \A q \in Request : RequestInv(q)'
<1>1. now \in Nat /\ published' = K /\ UNCHANGED <<now, remote, assertion, jwks>>
  BY DEF PublishKeys, TypeOK
<1>2. /\ \A k \in K : lastSeen'[k] = now
      /\ \A k \in Key \ K : lastSeen'[k] = lastSeen[k]
  BY DEF PublishKeys
<1>3. \A k \in Key : lastSeen[k] # Null => lastSeen[k] \in Nat /\ lastSeen[k] <= now
  BY DEF TypeOK, OrNull, CacheInv
<1>4. Onward
  BY <1>1, <1>2, <1>3, AssertionAssumption DEF Onward
<1>5. jwks.keys \subseteq Key /\ jwks.until \in Nat
  BY DEF TypeOK
<1>6. ASSUME NEW k \in jwks.keys
      PROVE  lastSeen'[k] # Null /\ jwks.until < lastSeen'[k] + FetchTimeout + CacheLife
  <2>1. lastSeen[k] \in Nat /\ jwks.until < lastSeen[k] + FetchTimeout + CacheLife
    BY <1>3, <1>5, <1>6 DEF CacheInv
  <2>2. lastSeen'[k] # Null /\ lastSeen'[k] >= lastSeen[k] /\ lastSeen'[k] \in Nat
    BY <1>4, <1>5, <2>1, AssertionAssumption DEF Onward, TypeOK, OrNull
  <2> QED BY <1>5, <2>1, <2>2, AssertionAssumption
<1>7. CacheInv'
  BY <1>1, <1>2, <1>3, <1>6, AssertionAssumption DEF CacheInv
<1>8. ASSUME NEW q \in Request PROVE RequestInv(q)'
  <2>1. /\ req'[q].phase = req[q].phase /\ req'[q].assertion = req[q].assertion
        /\ req'[q].forced = req[q].forced /\ req'[q].keys = req[q].keys /\ req'[q].at = req[q].at
        /\ req'[q].held => req[q].held /\ Presented(q).key \in K
    <3>1. req'[q] = [req[q] EXCEPT !.held = @ /\ Presented(q).key \in K]
      BY DEF PublishKeys
    <3>2. req[q] \in RequestState
      BY DEF TypeOK
    <3> QED BY <3>1, <3>2 DEF RequestState
  <2>2. Presented(q)' = Presented(q)
    BY <1>1, <2>1 DEF Presented
  <2>3. req[q].keys \subseteq Key /\ req[q].at \in Nat
    BY DEF TypeOK, RequestState
  <2>4. \A k \in Key : lastSeen[k] # Null => lastSeen'[k] \in Nat
    BY <1>4, AssertionAssumption DEF Onward, TypeOK, OrNull
  <2>5. \A k \in Key : Recent(k, req[q].at) =>
          /\ lastSeen'[k] # Null
          /\ IF remote THEN req[q].at < lastSeen'[k] + FetchTimeout + CacheLife
                       ELSE req[q].at <= lastSeen'[k]
    BY <1>1, <1>3, <1>4, <2>3, <2>4, AssertionAssumption DEF Recent, Onward
  <2>6. req'[q].phase = "verify" => \A k \in req'[q].keys : Recent(k, req[q].at)'
    BY <1>1, <2>1, <2>3, <2>5 DEF RequestInv, Recent
  <2>7. req[q].phase = "answer" =>
          \A k \in req[q].keys : lastSeen'[k] # Null /\ req[q].at <= lastSeen'[k]
    BY <1>3, <1>4, <2>3, <2>4 DEF RequestInv, Onward
  <2>8. RequestInv(q) /\ remote' = remote /\ assertion' = assertion /\ published' = K /\ now' = now
    BY <1>1
  <2> QED BY <2>1, <2>2, <2>6, <2>7, <2>8 DEF RequestInv
<1> QED BY <1>7, <1>8

\* A request that takes keys which are current, to verify with or to ask for others.
LEMMA TakeKeysInv ==
  ASSUME TypeOK, TypeOK', CacheInv, NEW q \in Request, RequestInv(q), req[q].phase # "idle",
         UNCHANGED <<now, remote, published, lastSeen, assertion>>,
         NEW K \in SUBSET Key, \A k \in K : Recent(k, now),
         \/ Choose(q, K) /\ (req[q].held => Presented(q).key \in K)
         \/ TakeKeys(q, K) /\ remote /\ (req[q].held /\ req[q].forced => Presented(q).key \in K)
  PROVE  RequestInv(q)'
<1>1. req[q] \in RequestState /\ req[q].assertion \in Assertion /\ assertion[req[q].assertion] # Null
  BY DEF TypeOK, RequestInv
<1>2. Presented(q).key \in Key
  BY <1>1 DEF Presented, TypeOK, OrNull, Signed
<1>3. CASE Refetch(q) /\ remote
  <2>1. /\ req'[q].phase = "backoff" /\ req'[q].assertion = req[q].assertion
        /\ req'[q].held = req[q].held
    BY <1>1, <1>3 DEF Refetch, Become, TypeOK, RequestState
  <2> QED BY <1>1, <1>3, <2>1 DEF RequestInv, Presented
<1>4. CASE /\ Choose(q, K)
           /\ req[q].held /\ Presented(q).kid = Presented(q).key => Presented(q).key \in K
  <2>1. /\ req'[q].phase = "verify" /\ req'[q].assertion = req[q].assertion
        /\ req'[q].held = req[q].held /\ req'[q].at = now
        /\ req'[q].keys = Candidates(K, Presented(q).kid)
    BY <1>1, <1>4 DEF Choose, Become, TypeOK, RequestState
  <2>2. Candidates(K, Presented(q).kid) \subseteq K
    BY DEF Candidates, Named
  <2>3. req[q].held /\ Presented(q).kid = Presented(q).key =>
          Presented(q).key \in Candidates(K, Presented(q).kid)
    BY <1>2, <1>4, AssertionAssumption DEF Candidates, Named
  <2>4. \A k \in req'[q].keys : Recent(k, req'[q].at)
    BY <2>1, <2>2
  <2> QED BY <1>1, <2>1, <2>3, <2>4 DEF RequestInv, Presented, Recent
<1>5. CASE TakeKeys(q, K) /\ remote /\ (req[q].held /\ req[q].forced => Presented(q).key \in K)
  <2>1. CASE Unmatched(q, K)
    BY <1>3, <1>5, <2>1 DEF TakeKeys
  <2>2. CASE ~Unmatched(q, K)
    <3>1. req[q].held /\ Presented(q).kid = Presented(q).key => Presented(q).key \in K
      BY <1>2, <1>5, <2>2, AssertionAssumption DEF Unmatched, Named
    <3> QED BY <1>4, <1>5, <2>2, <3>1 DEF TakeKeys
  <2> QED BY <2>1, <2>2
<1> QED BY <1>4, <1>5

LEMMA StepInv ==
  ASSUME TypeOK, TypeOK', CacheInv, \A q \in Request : RequestInv(q), NEW q \in Request, RequestStep(q)
  PROVE  CacheInv' /\ \A p \in Request : RequestInv(p)'
<1>1. UNCHANGED <<now, remote, published, lastSeen, assertion>>
  BY DEF RequestStep, Present, ReadStoredKeys, ReadCachedKeys, CheckBackoff, HostAnswers, FetchFails,
         ReceiveKeys, Verify, Remember
<1>2. now \in Nat /\ req[q] \in RequestState /\ published \subseteq Key /\ jwks.keys \subseteq Key
      /\ jwks.until \in Nat /\ req[q].keys \subseteq Key /\ req[q].at \in Nat
  BY DEF TypeOK, RequestState
<1>3. \A k \in Key : lastSeen[k] # Null => lastSeen[k] \in Nat
  BY DEF TypeOK, OrNull
<1>4. Onward
  BY <1>1, <1>2, <1>3 DEF Onward
<1>5. \A p \in Request : p # q => req'[p] = req[p]
  BY DEF RequestStep, Present, ReadStoredKeys, ReadCachedKeys, CheckBackoff, HostAnswers, FetchFails,
         ReceiveKeys, Verify, Remember, Refuse, TakeKeys, Choose, Refetch, Become, TypeOK
<1>6. SUFFICES CacheInv' /\ RequestInv(q)'
  BY <1>1, <1>4, <1>5, RequestStays
<1>7. ASSUME Refuse(q) PROVE RequestInv(q)'
  <2>1. req'[q] = Idle
    BY <1>7 DEF Refuse, Become, TypeOK
  <2> QED BY <2>1 DEF RequestInv, Idle
<1>8. CASE \E a \in Assertion : Present(q, a)
  <2> PICK a \in Assertion : Present(q, a) BY <1>8
  <2>1. /\ req'[q].phase = "keys" /\ req'[q].assertion = a /\ ~req'[q].forced
        /\ req'[q].held => assertion[a].key \in published
    BY DEF Present, Become, Idle, TypeOK
  <2> QED BY <1>1, <2>1, CacheStays DEF Present, RequestInv, Presented
<1>9. CASE ReadStoredKeys(q)
  <2>1. \A k \in published : Recent(k, now)
    BY <1>2, <1>9, AssertionAssumption DEF CacheInv, Recent, ReadStoredKeys
  <2>2. req[q].held => Presented(q).key \in published
    BY <1>9 DEF ReadStoredKeys, RequestInv
  <2> QED BY <1>1, <1>2, <1>9, <2>1, <2>2, TakeKeysInv, CacheStays DEF ReadStoredKeys
<1>10. CASE ReadCachedKeys(q)
  <2>1. CASE Cached
    <3>1. ASSUME NEW k \in jwks.keys PROVE Recent(k, now)
      <4>1. lastSeen[k] \in Nat /\ lastSeen[k] # Null /\ jwks.until < lastSeen[k] + FetchTimeout + CacheLife
        BY <1>2, <1>3, <3>1 DEF CacheInv
      <4> QED BY <1>2, <1>10, <2>1, <4>1, AssertionAssumption DEF Recent, Cached, ReadCachedKeys
    <3>2. ~req[q].forced
      BY <1>10 DEF ReadCachedKeys, RequestInv
    <3> QED BY <1>1, <1>2, <1>10, <2>1, <3>1, <3>2, TakeKeysInv, CacheStays DEF ReadCachedKeys
  <2>2. CASE ~Cached
    <3>1. /\ req'[q].phase = "backoff" /\ req'[q].assertion = req[q].assertion
          /\ req'[q].held = req[q].held
      BY <1>2, <1>10, <2>2 DEF ReadCachedKeys, Become, TypeOK, RequestState
    <3> QED BY <1>1, <1>10, <3>1, CacheStays DEF ReadCachedKeys, RequestInv, Presented
  <2> QED BY <2>1, <2>2
<1>11. CASE CheckBackoff(q)
  <2>1. CASE BackedOff(q)
    BY <1>7, <1>11, <2>1, CacheStays DEF CheckBackoff
  <2>2. CASE ~BackedOff(q)
    <3>1. /\ req'[q].phase = "fetch" /\ req'[q].assertion = req[q].assertion
          /\ req'[q].held = req[q].held /\ req'[q].at = now
      <4>1. Become(q, [req[q] EXCEPT !.phase = "fetch", !.at = now])
        BY <1>11, <2>2 DEF CheckBackoff
      <4> QED BY <1>2, <4>1 DEF Become, TypeOK, RequestState
    <3> QED BY <1>1, <1>2, <1>11, <3>1, CacheStays DEF CheckBackoff, RequestInv, Presented
  <2> QED BY <2>1, <2>2
<1>12. CASE HostAnswers(q)
  <2>1. /\ req'[q].phase = "answer" /\ req'[q].assertion = req[q].assertion
        /\ req'[q].held = req[q].held /\ req'[q].at = req[q].at /\ req'[q].keys = published
    BY <1>2, <1>12 DEF HostAnswers, Become, TypeOK, RequestState
  <2>2. req[q].at <= now
    BY <1>12 DEF HostAnswers, RequestInv
  <2>3. \A k \in published : lastSeen[k] # Null /\ req[q].at <= lastSeen[k]
    BY <1>2, <2>2, AssertionAssumption DEF CacheInv
  <2> QED BY <1>1, <1>12, <2>1, <2>3, CacheStays DEF HostAnswers, RequestInv, Presented
<1>13. CASE FetchFails(q)
  BY <1>7, <1>13, CacheStays DEF FetchFails
<1>14. CASE ReceiveKeys(q)
  <2>1. /\ req[q].phase = "answer" /\ now < req[q].at + FetchTimeout /\ TakeKeys(q, req[q].keys)
        /\ jwks' = [keys |-> req[q].keys, until |-> now + CacheLife]
    BY <1>14 DEF ReceiveKeys, StillTimely
  <2>2. ASSUME NEW k \in req[q].keys
        PROVE  /\ lastSeen[k] # Null /\ now < lastSeen[k] + FetchTimeout + CacheLife
               /\ now + CacheLife < lastSeen[k] + FetchTimeout + CacheLife
    <3>1. lastSeen[k] # Null /\ lastSeen[k] \in Nat /\ req[q].at <= lastSeen[k]
      BY <1>2, <1>3, <2>1, <2>2 DEF RequestInv
    <3> QED BY <1>2, <2>1, <3>1, AssertionAssumption
  <2>3. remote /\ (req[q].held => Presented(q).key \in req[q].keys)
    BY <2>1 DEF RequestInv
  <2>4. \A k \in req[q].keys : Recent(k, now)
    BY <2>2, <2>3 DEF Recent
  <2>5. RequestInv(q)'
    BY <1>1, <1>2, <2>1, <2>3, <2>4, TakeKeysInv
  <2>6. CacheInv'
    BY <1>1, <2>1, <2>2 DEF CacheInv
  <2> QED BY <2>5, <2>6
<1>15. CASE Verify(q)
  <2>1. CASE Refuse(q)
    BY <1>7, <1>15, <2>1, CacheStays DEF Verify
  <2>2. CASE Become(q, [Idle EXCEPT !.phase = "jti", !.assertion = req[q].assertion])
    <3>1. req'[q].phase = "jti" /\ req'[q].assertion = req[q].assertion /\ ~req'[q].held
      BY <2>2 DEF Become, Idle, TypeOK
    <3> QED BY <1>1, <1>15, <3>1, CacheStays DEF Verify, RequestInv, Presented
  <2> QED BY <1>15, <2>1, <2>2 DEF Verify
<1>16. CASE Remember(q)
  BY <1>7, <1>16, CacheStays DEF Remember
<1> QED BY <1>8, <1>9, <1>10, <1>11, <1>12, <1>13, <1>14, <1>15, <1>16 DEF RequestStep

LEMMA NextInv == Inv /\ [Next]_vars => Inv'
<1> SUFFICES ASSUME Inv, [Next]_vars PROVE Inv'
  OBVIOUS
<1>1. TypeOK /\ TypeOK' /\ CacheInv /\ ReplayInv /\ AcceptedOnce /\ \A q \in Request : RequestInv(q)
  BY NextTypes DEF Inv
<1>2. ReplayInv' /\ AcceptedOnce'
  BY <1>1, NextReplay
<1>3. CacheInv' /\ \A q \in Request : RequestInv(q)'
  <2>1. CASE Tick
    BY <1>1, <2>1, TickInv
  <2>2. CASE MintAny
    BY <1>1, <2>2, MintInv DEF MintAny
  <2>3. CASE \E K \in SUBSET Key : PublishKeys(K)
    BY <1>1, <2>3, PublishInv
  <2>4. CASE \E q \in Request : RequestStep(q)
    BY <1>1, <2>4, StepInv
  <2>5. CASE (\E a \in Assertion : Evict(a)) \/ UNCHANGED vars
    <3>1. UNCHANGED <<now, remote, published, lastSeen, assertion, jwks, req>>
      BY <2>5 DEF Evict, vars
    <3>2. Onward
      BY <1>1, <3>1 DEF Onward, TypeOK, OrNull
    <3> QED BY <1>1, <3>1, <3>2, RequestStays, CacheStays
  <2> QED BY <2>1, <2>2, <2>3, <2>4, <2>5 DEF Next
<1> QED BY <1>1, <1>2, <1>3 DEF Inv

----------------------------------------------------------------------------

\* No assertion is accepted twice while the cache keeps its entries, however the clock, the
\* leeway and the rounding of cache timeouts fall together (_check_jti_replay).
THEOREM ReplayIsStopped == Spec => []AcceptedOnce
<1>1. Inv => AcceptedOnce
  BY DEF Inv
<1> QED BY <1>1, InitInv, NextInv, PTL DEF Spec

\* Keys that are verified with are current, and a key the client has published is found
\* (_candidate_keys, fetch_remote_jwks).
THEOREM KeysStayCurrent == Spec => []KeysAreCurrent
<1>1. ASSUME Inv PROVE KeysAreCurrent
  <2>1. \A q \in Request : RequestInv(q)
    BY <1>1 DEF Inv
  <2> QED BY <2>1 DEF KeysAreCurrent, WithdrawnKeysDie, NewKeysAreFound, RequestInv
<1>2. Inv => KeysAreCurrent
  BY <1>1
<1> QED BY <1>2, InitInv, NextInv, PTL DEF Spec

\* A host whose last fetch failed is left alone until the back-off is over (fetch_remote_jwks).
THEOREM BackoffIsKept == Spec => BackoffHolds
<1>1. ASSUME TypeOK, Next, NEW q \in Request, req[q].phase # "fetch", req'[q].phase = "fetch"
      PROVE  now >= backoff
  <2>1. PICK p \in Request : RequestStep(p)
    BY <1>1 DEF Next, Tick, MintAny, Mint, PublishKeys, Evict, TypeOK, RequestState
  <2>2. p = q /\ req \in [Request -> RequestState]
    <3>1. PICK r : Become(p, r)
      BY <2>1 DEF RequestStep, Present, ReadStoredKeys, ReadCachedKeys, CheckBackoff, HostAnswers,
                  FetchFails, ReceiveKeys, Verify, Remember, Refuse, TakeKeys, Choose, Refetch
    <3> QED BY <1>1, <3>1 DEF Become, TypeOK
  <2>3. /\ ~Refuse(p) /\ ~Refetch(p) /\ (\A K : ~Choose(p, K)) /\ \A a : ~Present(p, a)
    <3>1. \A r : Become(p, r) => r = req'[q]
      BY <2>2 DEF Become
    <3>2. ~Refuse(p)
      BY <1>1, <3>1 DEF Refuse, Idle
    <3>3. ~Refetch(p)
      BY <1>1, <2>2, <3>1 DEF Refetch, RequestState
    <3>4. ASSUME NEW K, Choose(p, K) PROVE FALSE
      <4> DEFINE C == Candidates(K, Presented(p).kid)
                 r == [req[p] EXCEPT !.phase = "verify", !.forced = FALSE, !.at = now, !.keys = C]
      <4>1. req'[q] = r
        BY <3>1, <3>4 DEF Choose
      <4>2. r.phase = "verify"
        BY <1>1, <2>2 DEF RequestState
      <4> QED BY <1>1, <4>1, <4>2
    <3>5. ASSUME NEW a PROVE ~Present(p, a)
      BY <1>1, <3>1 DEF Present, Idle
    <3> QED BY <3>2, <3>3, <3>4, <3>5
  <2>4. ~ReadCachedKeys(p) /\ ~HostAnswers(p) /\ ~Verify(p)
    <3>1. ~ReadCachedKeys(p)
      BY <1>1, <2>2, <2>3 DEF ReadCachedKeys, TakeKeys, Become, RequestState
    <3>2. ~HostAnswers(p)
      BY <1>1, <2>2 DEF HostAnswers, Become, RequestState
    <3>3. ~Verify(p)
      BY <1>1, <2>2, <2>3 DEF Verify, Become, Idle
    <3> QED BY <3>1, <3>2, <3>3
  <2>5. CheckBackoff(p) /\ ~BackedOff(p)
    BY <2>1, <2>3, <2>4
       DEF RequestStep, ReadStoredKeys, CheckBackoff, FetchFails, ReceiveKeys, Remember, TakeKeys
  <2> QED BY <1>1, <2>5 DEF BackedOff, TypeOK
<1>2. TypeOK /\ [Next]_vars =>
        [\A q \in Request : req[q].phase # "fetch" /\ req'[q].phase = "fetch" => now >= backoff]_vars
  BY <1>1 DEF vars
<1>3. Inv => TypeOK
  BY DEF Inv
<1> QED BY <1>2, <1>3, InitInv, NextInv, PTL DEF Spec, BackoffHolds
=============================================================================
