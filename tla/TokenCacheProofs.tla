-------------------------- MODULE TokenCacheProofs --------------------------
(***************************************************************************)
(* The bound on what a resource server accepts, and what a logout leaves   *)
(* behind, for any number of users, tokens, logouts and visits, and any    *)
(* lifetimes and timeouts.  The bound rests on a token having one expiry   *)
(* for ever (ServerInv, OneExpiry), and on where a cached row and an       *)
(* answer on its way come from (CacheInv).  The invariant of the logouts   *)
(* (LogoutInv) is about LogoutSpec, the server without its visitors, which *)
(* the composition implements (VisitsLeaveTheServer).                      *)
(***************************************************************************)
EXTENDS TokenCache, TLAPS

ServerInv ==
  /\ now \in Nat
  /\ access = [t \in Token |-> access[t]]
  /\ \A t \in Token : access[t] # Null => t \in issued /\ access[t].expires \in Nat

OneExpiry(t) == access[t] # Null => access[t].expires = vouched[t].expires

Vouched(t) == /\ vouched[t] # Null /\ t \in issued
              /\ vouched[t].at \in Nat /\ vouched[t].at <= now
              /\ vouched[t].expires \in Nat
              /\ OneExpiry(t)

VisitState == [stage: {"idle", "asked", "answered", "accepted"}, token: OrNull(Token),
               wide: BOOLEAN, at: Nat, answer: OrNull(Nat)]

\* What a visit holds or was granted, by its stage.
VisitInv(v) ==
  LET t == visit[v].token IN
  /\ visit[v].stage # "idle" => t \in Token
  /\ visit[v].stage = "asked" => visit[v].at <= now
  /\ visit[v].stage = "answered" /\ visit[v].answer # Null =>
       /\ vouched[t] # Null
       /\ visit[v].answer <= vouched[t].expires
       /\ visit[v].at <= vouched[t].at
  /\ visit[v].stage = "accepted" =>
       /\ vouched[t] # Null
       /\ visit[v].at < vouched[t].expires
       /\ visit[v].at < vouched[t].at + AnswerTimeout + CacheLife

CacheInv ==
  /\ cache \in [Token -> OrNull(Nat)] /\ visit \in [Visit -> VisitState]
  /\ vouched = [t \in Token |-> vouched[t]]
  /\ \A t \in Token : vouched[t] # Null => Vouched(t)
  /\ \A t \in Token : cache[t] # Null =>
       /\ vouched[t] # Null
       /\ cache[t] <= vouched[t].expires
       /\ cache[t] <= vouched[t].at + AnswerTimeout + CacheLife
  /\ \A v \in Visit : VisitInv(v)

Inv == ServerInv /\ CacheInv

LEMMA InitInv == Init => Inv
BY CacheAssumption
   DEF Init, LogoutInit, Inv, ServerInv, CacheInv, VisitInv, VisitState, Idle, OrNull

----------------------------------------------------------------------------
(* The server under the resource server.                                   *)

\* A token that was issued keeps its row or loses it.
Onward == /\ now' \in Nat /\ now' >= now /\ issued \subseteq issued'
          /\ \A t \in Token : t \in issued => access'[t] = access[t] \/ access'[t] = Null

LEMMA IssueSteps ==
  ASSUME ServerInv, NEW t \in Token, NEW row, NEW tables, Issue(t, row, tables), now' = now,
         tables.access = access \/ \E gone : tables.access = Without(access, gone)
  PROVE  ServerInv' /\ Onward
<1>1. /\ tables.access = [s \in Token |-> tables.access[s]]
      /\ \A s \in Token : tables.access[s] = access[s] \/ tables.access[s] = Null
  BY DEF ServerInv, Without
<1>2. /\ access' = [s \in Token |-> access'[s]]
      /\ access'[t].expires = now + AccessLife
      /\ \A s \in Token : s # t => access'[s] = tables.access[s]
      /\ issued' = issued \cup {t} /\ t \notin issued
  BY <1>1 DEF Issue
<1>3. \A s \in Token : access'[s] # Null => s \in issued' /\ access'[s].expires \in Nat
  BY <1>1, <1>2, LogoutAssumption DEF ServerInv
<1>4. \A s \in Token : s \in issued => access'[s] = access[s] \/ access'[s] = Null
  BY <1>1, <1>2
<1> QED BY <1>2, <1>3, <1>4 DEF ServerInv, Onward

LEMMA DeletionSteps ==
  ASSUME ServerInv, UNCHANGED <<now, issued>>,
         access' = access \/ \E gone : access' = Without(access, gone)
  PROVE  ServerInv' /\ Onward
<1>1. /\ access' = [s \in Token |-> access'[s]]
      /\ \A s \in Token : access'[s] = access[s] \/ access'[s] = Null
  BY DEF ServerInv, Without
<1> QED BY <1>1 DEF ServerInv, Onward

LEMMA ServerSteps ==
  ASSUME ServerInv, ServerNext
  PROVE  ServerInv' /\ Onward
<1>1. CASE LogoutTick
  BY <1>1 DEF LogoutTick, ServerInv, Onward
<1>2. CASE \E u \in User : SignIn(u)
  BY <1>2, DeletionSteps DEF SignIn
<1>3. ASSUME NEW t \in Token, NEW kind \in Kinds, Authorise(t, kind)
      PROVE  ServerInv' /\ Onward
  <2> DEFINE row == [user |-> session, device |-> kind.device, oidc |-> kind.oidc, offline |-> kind.offline]
             tables == [access |-> access, refresh |-> refresh]
  <2>1. Issue(t, row, tables) /\ now' = now /\ tables.access = access
    BY <1>3 DEF Authorise
  <2> HIDE DEF row, tables
  <2> QED BY <2>1, IssueSteps
<1>4. ASSUME NEW t \in Token, NEW r \in Token, Rotate(r, t)
      PROVE  ServerInv' /\ Onward
  <2> DEFINE row == [user |-> refresh[r].user, device |-> refresh[r].device, oidc |-> refresh[r].oidc,
                     offline |-> TRUE]
             tables == Revoked(r)
  <2>1. Issue(t, row, tables) /\ now' = now
    BY <1>4 DEF Rotate
  <2>2. tables.access = Without(access, {r})
    BY DEF Revoked
  <2> HIDE DEF row, tables
  <2> QED BY <2>1, <2>2, IssueSteps
<1>5. ASSUME NEW t \in Token, Clear(t)
      PROVE  ServerInv' /\ Onward
  BY <1>5, DeletionSteps DEF Clear
<1>6. ASSUME NEW l \in Attempt, LogoutStep(l)
      PROVE  ServerInv' /\ Onward
  <2>1. UNCHANGED <<now, issued>> /\ (access' = access \/ \E gone : access' = Without(access, gone))
    <3>1. CASE \E r \in attempt[l].refresh : RevokeOne(l, r)
      BY <3>1 DEF RevokeOne, Revoked
    <3>2. CASE \E row \in attempt[l].access : DeleteOne(l, row)
      BY <3>2 DEF DeleteOne
    <3>3. CASE UNCHANGED <<now, issued, access>>
      BY <3>3
    <3> QED BY <1>6, <3>1, <3>2, <3>3
            DEF LogoutStep, RequestLogout, ConfirmLogout, ListRefresh, ListAccess, EndSession
  <2> QED BY <2>1, DeletionSteps
<1> QED BY <1>1, <1>2, <1>3, <1>4, <1>5, <1>6 DEF ServerNext

LEMMA ServerKeepsCache ==
  ASSUME ServerInv, CacheInv, Onward, UNCHANGED cacheVars
  PROVE  CacheInv'
<1>1. UNCHANGED <<cache, visit, vouched>>
  BY DEF cacheVars
<1>2. now \in Nat
  BY DEF ServerInv
<1>3. \A t \in Token : vouched[t] # Null => Vouched(t)'
  BY <1>1, <1>2 DEF CacheInv, Vouched, OneExpiry, Onward
<1>4. ASSUME NEW v \in Visit PROVE VisitInv(v)'
  <2>1. VisitInv(v) /\ visit[v].at \in Nat
    BY DEF CacheInv, VisitState
  <2> QED BY <1>1, <1>2, <2>1 DEF VisitInv, Onward
<1> QED BY <1>1, <1>3, <1>4 DEF CacheInv

----------------------------------------------------------------------------
(* The resource server.                                                    *)

\* What a visit was told stays true while introspection answers others.
LEMMA VisitStays ==
  ASSUME ServerInv, CacheInv, now' = now, NEW v \in Visit, visit'[v] = visit[v],
         \A t \in Token : vouched[t] # Null => /\ vouched'[t] # Null
                                              /\ vouched'[t].at \in Nat /\ vouched'[t].at >= vouched[t].at
                                              /\ vouched'[t].expires = vouched[t].expires
  PROVE  VisitInv(v)'
<1>1. /\ VisitInv(v) /\ visit[v].at \in Nat /\ now \in Nat
      /\ visit[v].answer # Null => visit[v].answer \in Nat
  BY DEF CacheInv, VisitState, ServerInv, OrNull
<1>2. visit[v].stage # "idle" => visit[v].token \in Token
  BY <1>1 DEF VisitInv
<1>3. \A t \in Token : vouched[t] # Null => vouched[t].at \in Nat /\ vouched[t].expires \in Nat
  BY DEF CacheInv, Vouched
<1> QED BY <1>1, <1>2, <1>3, CacheAssumption DEF VisitInv

\* A step of one visit that tells nothing new.
LEMMA VisitMoves ==
  ASSUME ServerInv, CacheInv, UNCHANGED <<serverVars, cache, vouched>>, NEW v \in Visit,
         NEW r \in VisitState, Becomes(v, r), VisitInv(v)'
  PROVE  CacheInv'
<1>1. UNCHANGED <<now, access, issued, cache, vouched>>
  BY DEF serverVars
<1>2. visit' \in [Visit -> VisitState] /\ \A w \in Visit : w # v => visit'[w] = visit[w]
  BY DEF Becomes, CacheInv
<1>3. \A w \in Visit : VisitInv(w)'
  <2>1. \A t \in Token : vouched[t] # Null => vouched[t].at \in Nat /\ vouched'[t].at >= vouched[t].at
    BY <1>1 DEF CacheInv, Vouched
  <2> QED BY <1>1, <1>2, <2>1, VisitStays
<1>4. \A t \in Token : Vouched(t)' <=> Vouched(t)
  BY <1>1 DEF Vouched, OneExpiry
<1> QED BY <1>1, <1>2, <1>3, <1>4 DEF CacheInv

LEMMA VisitTypes ==
  /\ Idle \in VisitState
  /\ \A stage \in {"accepted", "asked"}, t \in Token, wide \in BOOLEAN, at \in Nat :
       [Idle EXCEPT !.stage = stage, !.token = t, !.wide = wide, !.at = at] \in VisitState
  /\ \A r \in VisitState, answer \in OrNull(Nat) :
       [r EXCEPT !.stage = "answered", !.answer = answer] \in VisitState
  /\ \A r \in VisitState, at \in Nat :
       [r EXCEPT !.stage = "accepted", !.at = at, !.answer = Null] \in VisitState
<1>1. Idle \in VisitState
  BY DEF VisitState, Idle, OrNull
<1>2. \A stage \in {"accepted", "asked"}, t \in Token, wide \in BOOLEAN, at \in Nat :
        [Idle EXCEPT !.stage = stage, !.token = t, !.wide = wide, !.at = at] \in VisitState
  BY DEF VisitState, Idle, OrNull
<1>3. \A r \in VisitState, answer \in OrNull(Nat) :
        [r EXCEPT !.stage = "answered", !.answer = answer] \in VisitState
  BY DEF VisitState
<1>4. \A r \in VisitState, at \in Nat :
        [r EXCEPT !.stage = "accepted", !.at = at, !.answer = Null] \in VisitState
  BY DEF VisitState, OrNull
<1> QED BY <1>1, <1>2, <1>3, <1>4

LEMMA EndsIdle ==
  ASSUME ServerInv, CacheInv, UNCHANGED <<serverVars, cache, vouched>>, NEW v \in Visit,
         Becomes(v, Idle)
  PROVE  CacheInv'
<1>1. visit'[v] = Idle
  BY DEF Becomes, CacheInv
<1>2. VisitInv(v)'
  BY <1>1 DEF VisitInv, Idle
<1> QED BY <1>2, VisitTypes, VisitMoves

LEMMA VisitingInv ==
  ASSUME ServerInv, CacheInv, UNCHANGED serverVars, NEW v \in Visit, NEW t \in Token,
         NEW wide \in BOOLEAN, Visiting(v, t, wide)
  PROVE  CacheInv'
<1>1. UNCHANGED <<now, access, issued, cache, vouched>> /\ now \in Nat
  BY DEF serverVars, Visiting, ServerInv
<1> DEFINE stage == IF Good(cache[t]) /\ ~wide THEN "accepted" ELSE "asked"
           r == [Idle EXCEPT !.stage = stage, !.token = t, !.wide = wide, !.at = now]
<1>2. Becomes(v, r) /\ stage \in {"accepted", "asked"} /\ (stage = "accepted" => Good(cache[t]))
  BY DEF Visiting
<1>3. r.stage = stage /\ r.token = t /\ r.at = now
  BY DEF Idle
<1> HIDE DEF stage
<1>4. r \in VisitState
  BY <1>1, <1>2, VisitTypes
<1> HIDE DEF r
<1>5. visit'[v] = r
  BY <1>2 DEF Becomes, CacheInv
<1>6. stage = "accepted" => /\ vouched[t] # Null
                            /\ now < vouched[t].expires
                            /\ now < vouched[t].at + AnswerTimeout + CacheLife
  <2>1. ASSUME stage = "accepted"
        PROVE  /\ cache[t] \in Nat /\ now < cache[t] /\ vouched[t] # Null
               /\ cache[t] <= vouched[t].expires
               /\ cache[t] <= vouched[t].at + AnswerTimeout + CacheLife
    BY <1>2, <2>1 DEF Good, CacheInv, OrNull
  <2>2. vouched[t] # Null => vouched[t].at \in Nat /\ vouched[t].expires \in Nat
    BY DEF CacheInv, Vouched
  <2> QED BY <1>1, <2>1, <2>2, CacheAssumption
<1>7. VisitInv(v)'
  BY <1>1, <1>2, <1>3, <1>5, <1>6 DEF VisitInv
<1> QED BY <1>1, <1>2, <1>4, <1>7, VisitMoves

LEMMA IntrospectInv ==
  ASSUME ServerInv, CacheInv, UNCHANGED serverVars, NEW v \in Visit, Introspect(v)
  PROVE  CacheInv'
<1> DEFINE t == visit[v].token
<1>1. UNCHANGED <<now, access, issued, cache>> /\ now \in Nat
  BY DEF serverVars, Introspect, ServerInv
<1>2. visit[v] \in VisitState /\ t \in Token /\ visit[v].at \in Nat /\ visit[v].at <= now
  BY DEF Introspect, CacheInv, VisitInv, VisitState
<1>3. CASE ~Active(t)
  <2> DEFINE r == [visit[v] EXCEPT !.stage = "answered", !.answer = Null]
  <2>1. Becomes(v, r) /\ vouched' = vouched
    BY <1>3 DEF Introspect
  <2>2. r.stage = "answered" /\ r.answer = Null /\ r.token = t
    BY <1>2 DEF VisitState
  <2>3. r \in VisitState
    BY <1>2, VisitTypes DEF OrNull
  <2> HIDE DEF r
  <2>4. visit'[v] = r
    BY <2>1 DEF Becomes, CacheInv
  <2>5. VisitInv(v)'
    BY <1>2, <2>2, <2>4 DEF VisitInv
  <2> QED BY <1>1, <2>1, <2>3, <2>5, VisitMoves
<1>4. CASE Active(t)
  <2> DEFINE expires == access[t].expires
             r == [visit[v] EXCEPT !.stage = "answered", !.answer = expires]
  <2>1. access[t] # Null /\ expires \in Nat /\ t \in issued
    BY <1>2, <1>4 DEF Active, Has, ServerInv
  <2>2. Becomes(v, r) /\ vouched' = [vouched EXCEPT ![t] = [at |-> now, expires |-> expires]]
    BY <1>4 DEF Introspect
  <2>3. r.stage = "answered" /\ r.answer = expires /\ r.token = t /\ r.at = visit[v].at
    BY <1>2 DEF VisitState
  <2>4. r \in VisitState
    BY <1>2, <2>1, VisitTypes DEF OrNull
  <2> HIDE DEF r
  <2>5. visit' \in [Visit -> VisitState] /\ visit'[v] = r /\ \A w \in Visit : w # v => visit'[w] = visit[w]
    BY <2>2, <2>4 DEF Becomes, CacheInv
  <2>6. [at |-> now, expires |-> expires] # Null
    BY <1>1, <2>1, CacheAssumption
  <2>7. /\ vouched' = [s \in Token |-> vouched'[s]]
        /\ vouched'[t] # Null /\ vouched'[t].at = now /\ vouched'[t].expires = expires
        /\ \A s \in Token : s # t => vouched'[s] = vouched[s]
    BY <1>2, <2>2, <2>6 DEF CacheInv
  <2>8. \A s \in Token : vouched'[s] # Null => Vouched(s)'
    <3>1. \A s \in Token : s = t => Vouched(s)'
      BY <1>1, <2>1, <2>7 DEF Vouched, OneExpiry
    <3>2. \A s \in Token : s # t /\ vouched[s] # Null => Vouched(s)'
      BY <1>1, <2>7 DEF CacheInv, Vouched, OneExpiry
    <3> QED BY <2>7, <3>1, <3>2
  <2>9. \A s \in Token : vouched[s] # Null => /\ vouched'[s] # Null
                                              /\ vouched'[s].at \in Nat /\ vouched'[s].at >= vouched[s].at
                                              /\ vouched'[s].expires = vouched[s].expires
    BY <1>1, <2>1, <2>7 DEF CacheInv, Vouched, OneExpiry
  <2>10. \A s \in Token : cache'[s] # Null =>
           /\ vouched'[s] # Null
           /\ cache'[s] <= vouched'[s].expires
           /\ cache'[s] <= vouched'[s].at + AnswerTimeout + CacheLife
    <3>1. \A s \in Token : cache[s] # Null =>
            /\ cache[s] \in Nat /\ vouched[s] # Null /\ vouched[s].at \in Nat
            /\ cache[s] <= vouched[s].expires /\ cache[s] <= vouched[s].at + AnswerTimeout + CacheLife
      BY DEF CacheInv, Vouched, OrNull
    <3> QED BY <1>1, <2>9, <3>1, CacheAssumption
  <2>11. VisitInv(v)'
    BY <1>1, <1>2, <2>1, <2>3, <2>5, <2>7 DEF VisitInv
  <2>12. \A w \in Visit : VisitInv(w)'
    BY <1>1, <2>5, <2>9, <2>11, VisitStays
  <2>13. cache' \in [Token -> OrNull(Nat)]
    BY <1>1 DEF CacheInv
  <2> HIDE DEF t
  <2> QED BY <2>5, <2>7, <2>8, <2>10, <2>12, <2>13 DEF CacheInv
<1> QED BY <1>3, <1>4

LEMMA ReceiveInv ==
  ASSUME ServerInv, CacheInv, UNCHANGED serverVars, NEW v \in Visit, Receive(v)
  PROVE  CacheInv'
<1> DEFINE t == visit[v].token
           exp == visit[v].answer
<1>1. UNCHANGED <<now, access, issued, vouched>> /\ now \in Nat
  BY DEF serverVars, Receive, ServerInv
<1>2. /\ visit[v] \in VisitState /\ t \in Token /\ visit[v].at \in Nat
      /\ now <= visit[v].at + AnswerTimeout
  BY DEF Receive, CacheInv, VisitInv, VisitState
<1>3. CASE exp = Null
  BY <1>3, EndsIdle DEF Receive
<1>4. CASE exp # Null
  <2> DEFINE until == CachedUntil(exp)
  <2>1. cache' = [cache EXCEPT ![t] = until]
    BY <1>4 DEF Receive
  <2>2. /\ exp \in Nat /\ vouched[t] # Null /\ exp <= vouched[t].expires
        /\ visit[v].at <= vouched[t].at
        /\ vouched[t].at \in Nat /\ vouched[t].expires \in Nat
    BY <1>2, <1>4 DEF Receive, CacheInv, VisitInv, VisitState, Vouched, OrNull
  <2>3. until \in Nat /\ until <= exp /\ until <= now + CacheLife
    BY <1>1, <2>2, CacheAssumption DEF CachedUntil
  <2>4. until <= vouched[t].expires /\ until <= vouched[t].at + AnswerTimeout + CacheLife
    BY <1>1, <1>2, <2>2, <2>3, CacheAssumption
  <2>5. Becomes(v, Idle) \/ (Good(until) /\ Becomes(v, Accepted(v)))
    BY <1>4 DEF Receive
  <2> HIDE DEF until, exp
  <2>6. /\ cache' \in [Token -> OrNull(Nat)]
        /\ \A s \in Token : cache'[s] # Null =>
             /\ vouched'[s] # Null
             /\ cache'[s] <= vouched'[s].expires
             /\ cache'[s] <= vouched'[s].at + AnswerTimeout + CacheLife
    BY <1>1, <1>2, <2>1, <2>2, <2>3, <2>4 DEF CacheInv, OrNull
  <2>7. \E r \in VisitState : Becomes(v, r) /\ (r.stage = "idle" \/
          (/\ r.stage = "accepted" /\ r.token = t /\ r.at = now
           /\ now < vouched[t].expires /\ now < vouched[t].at + AnswerTimeout + CacheLife))
    <3>1. CASE Becomes(v, Idle)
      BY <3>1, VisitTypes DEF Idle
    <3>2. CASE Good(until) /\ Becomes(v, Accepted(v))
      <4>1. Accepted(v) \in VisitState
        BY <1>1, <1>2, VisitTypes DEF Accepted
      <4>2. Accepted(v).stage = "accepted" /\ Accepted(v).token = t /\ Accepted(v).at = now
        BY <1>2 DEF Accepted, VisitState
      <4>3. now < vouched[t].expires /\ now < vouched[t].at + AnswerTimeout + CacheLife
        BY <1>1, <2>2, <2>3, <2>4, <3>2, CacheAssumption DEF Good
      <4> QED BY <3>2, <4>1, <4>2, <4>3
    <3> QED BY <2>5, <3>1, <3>2
  <2>8. PICK r \in VisitState :
          Becomes(v, r) /\ (r.stage = "idle" \/
            (/\ r.stage = "accepted" /\ r.token = t /\ r.at = now
             /\ now < vouched[t].expires /\ now < vouched[t].at + AnswerTimeout + CacheLife))
    BY <2>7
  <2>9. visit' \in [Visit -> VisitState] /\ visit'[v] = r /\ \A w \in Visit : w # v => visit'[w] = visit[w]
    BY <2>8 DEF Becomes, CacheInv
  <2>10. VisitInv(v)'
    BY <1>1, <1>2, <2>2, <2>8, <2>9 DEF VisitInv
  <2>11. \A s \in Token : vouched[s] # Null => vouched'[s].at \in Nat /\ vouched'[s].at >= vouched[s].at
    BY <1>1 DEF CacheInv, Vouched
  <2>12. \A w \in Visit : VisitInv(w)'
    BY <1>1, <2>9, <2>10, <2>11, VisitStays
  <2>13. vouched' = [s \in Token |-> vouched'[s]] /\ \A s \in Token : vouched'[s] # Null => Vouched(s)'
    BY <1>1 DEF CacheInv, Vouched, OneExpiry
  <2> HIDE DEF t
  <2> QED BY <2>6, <2>9, <2>12, <2>13 DEF CacheInv
<1> QED BY <1>3, <1>4

LEMMA NextInv == Inv /\ [Next]_vars => Inv'
<1> SUFFICES ASSUME ServerInv, CacheInv, [Next]_vars PROVE ServerInv' /\ CacheInv'
  BY DEF Inv
<1>1. CASE ServerNext /\ UNCHANGED cacheVars
  BY <1>1, ServerSteps, ServerKeepsCache
<1>2. CASE UNCHANGED vars
  <2>1. UNCHANGED serverVars /\ UNCHANGED cacheVars
    BY <1>2 DEF vars
  <2>2. ServerInv' /\ Onward
    BY <2>1, DeletionSteps DEF serverVars
  <2> QED BY <2>1, <2>2, ServerKeepsCache
<1>3. ASSUME UNCHANGED serverVars, NEW v \in Visit, VisitStep(v)
      PROVE  ServerInv' /\ CacheInv'
  <2>1. ServerInv'
    BY <1>3 DEF serverVars, ServerInv
  <2>2. ASSUME NEW t \in Token, NEW wide \in BOOLEAN, Visiting(v, t, wide)
        PROVE  CacheInv'
    BY <1>3, <2>2, VisitingInv
  <2>3. CASE Introspect(v)
    BY <1>3, <2>1, <2>3, IntrospectInv
  <2>4. CASE Receive(v)
    BY <1>3, <2>1, <2>4, ReceiveInv
  <2>5. CASE Fail(v) \/ Served(v)
    BY <1>3, <2>1, <2>5, EndsIdle DEF Fail, Served
  <2> QED BY <1>3, <2>1, <2>2, <2>3, <2>4, <2>5 DEF VisitStep
<1> QED BY <1>1, <1>2, <1>3 DEF Next

----------------------------------------------------------------------------

\* However answers are delayed and overtake each other, and whatever logouts, rotations and
\* cleartokens do meanwhile, a resource server accepts a token for less than the caching time
\* and one timeout after it was last vouched for, and not beyond its expiry (validators.py:248).
THEOREM CachingIsBounded == Spec => []CacheIsBounded
<1>1. ASSUME Inv PROVE CacheIsBounded
  <2>1. \A v \in Visit : VisitInv(v)
    BY <1>1 DEF Inv, CacheInv
  <2> QED BY <2>1 DEF CacheIsBounded, VisitInv
<1>2. Inv => CacheIsBounded
  BY <1>1
<1> QED BY <1>2, InitInv, NextInv, PTL DEF Spec

----------------------------------------------------------------------------
(* The logouts (LogoutSpec).  A sweep works from lists it made earlier, so *)
(* the invariant says what those lists still are worth: a name belongs to  *)
(* one user for ever (RowsFit, OwnRows), what is on neither list is gone   *)
(* (DeletesAll, RevokesAll), and a logout that is alone knows that no      *)
(* other one unbinds its refresh tokens (AloneInv).                        *)

AttemptState == [stage: {"idle", "prompted", "started", "listed", "deleting", "done", "failed"},
                 hint: OrNull(Token), user: OrNull(User),
                 access: SUBSET [id: Token, oidc: BOOLEAN], refresh: SUBSET Token,
                 before: [access: SUBSET Token, usable: SUBSET Token], alone: BOOLEAN]

LogoutTypes ==
  /\ now \in Nat /\ issued \subseteq Token /\ session \in OrNull(User)
  /\ access \in [Token -> OrNull(AccessRow)] /\ refresh \in [Token -> OrNull(RefreshRow)]
  /\ idToken \in [Token -> OrNull([user: User, expires: Nat])]
  /\ attempt \in [Attempt -> AttemptState]

\* The rows of one issuance: both are of one user and one application, and the refresh token is
\* bound as long as its access token is stored.
RowsFit ==
  \A t \in Token :
    /\ Has(access, t) \/ Has(refresh, t) => t \in issued
    /\ Has(refresh, t) => (refresh[t].bound <=> Has(access, t))
    /\ Has(refresh, t) /\ Has(access, t) => /\ access[t].user = refresh[t].user
                                            /\ access[t].device = refresh[t].device

BelongsTo(t, u) == /\ t \in issued
                   /\ Has(access, t) => access[t].user = u
                   /\ Has(refresh, t) => refresh[t].user = u
OwnRows(l) ==
  /\ \A row \in attempt[l].access : BelongsTo(row.id, attempt[l].user)
  /\ \A t \in attempt[l].before.access :
       BelongsTo(t, attempt[l].user) /\ (Has(access, t) => ~access[t].device)
Unstarted(l) == attempt[l].stage \in {"idle", "prompted"} => attempt[l].user = Null
DeletesAll(l) ==
  \A a \in attempt[l].before.access : Has(access, a) =>
    /\ attempt[l].stage = "deleting" => \E row \in attempt[l].access : row.id = a
    /\ attempt[l].stage # "done"
RevokesAll(l) ==
  attempt[l].alone => \A t \in attempt[l].before.usable \cap attempt[l].before.access : Live(t) =>
    /\ attempt[l].stage = "started" => refresh[t].bound
    /\ attempt[l].stage \in {"listed", "deleting"} => t \in attempt[l].refresh
    /\ attempt[l].stage # "done"
AttemptInv(l) == OwnRows(l) /\ Unstarted(l) /\ DeletesAll(l) /\ RevokesAll(l)

Runs(l) == attempt[l].stage \in {"started", "listed", "deleting"}
AloneInv == \A l, m \in Attempt :
  Runs(l) /\ Runs(m) /\ attempt[l].user = attempt[m].user /\ attempt[l].user # Null
  /\ attempt[l].alone => l = m

LogoutInv == /\ LogoutTypes /\ RowsFit /\ OnlyLogoutsOrphan
             /\ (\A l \in Attempt : AttemptInv(l)) /\ AloneInv

----------------------------------------------------------------------------
(* What the tables may do in a step.                                       *)

\* A and R come from the tables by deleting and revoking, and still fit each other ...
Thins(A, R) ==
  /\ A \in [Token -> OrNull(AccessRow)] /\ R \in [Token -> OrNull(RefreshRow)]
  /\ \A s \in Token :
       /\ A[s] \in {access[s], Null}
       /\ R[s] # Null => /\ refresh[s] # Null
                         /\ R[s].user = refresh[s].user /\ R[s].device = refresh[s].device
                         /\ refresh[s].revoked => R[s].revoked
                         /\ R[s].bound <=> A[s] # Null
\* ... and no token that can still be used lost its access token.
Unbinds(R, s) == R[s] # Null /\ ~R[s].revoked /\ refresh[s].bound /\ ~R[s].bound

LEMMA RowsHaveShape ==
  ASSUME LogoutTypes, NEW t \in Token
  PROVE  /\ Has(access, t) => access[t] \in AccessRow
         /\ Has(refresh, t) => refresh[t] \in RefreshRow
BY DEF LogoutTypes, OrNull, Has

LEMMA SameThins ==
  ASSUME LogoutTypes, RowsFit
  PROVE  Thins(access, refresh) /\ \A s \in Token : ~Unbinds(refresh, s)
BY DEF Thins, Unbinds, RowsFit, LogoutTypes, Has

\* Deleting an access token leaves its refresh token unbound.
LEMMA DropThins ==
  ASSUME LogoutTypes, RowsFit, NEW t \in Token
  PROVE  /\ Thins(Without(access, {t}), Unbound(refresh, {t}))
         /\ \A s \in Token : Unbinds(Unbound(refresh, {t}), s) => s = t
<1> DEFINE A == Without(access, {t})
           R == Unbound(refresh, {t})
<1>1. A = [s \in Token |-> IF s = t THEN Null ELSE access[s]]
  BY DEF Without, LogoutTypes
<1>2. R = [s \in Token |-> IF s = t /\ refresh[s] # Null THEN [refresh[s] EXCEPT !.bound = FALSE]
                                                          ELSE refresh[s]]
  BY DEF Unbound, LogoutTypes
<1>3. refresh[t] # Null => /\ refresh[t] \in RefreshRow
                           /\ [refresh[t] EXCEPT !.bound = FALSE] \in RefreshRow
  BY RowsHaveShape DEF Has, RefreshRow
<1>4. A \in [Token -> OrNull(AccessRow)] /\ R \in [Token -> OrNull(RefreshRow)]
  <2>1. A \in [Token -> OrNull(AccessRow)]
    BY <1>1 DEF LogoutTypes, OrNull
  <2>2. \A s \in Token : R[s] \in OrNull(RefreshRow)
    <3> SUFFICES ASSUME NEW s \in Token PROVE R[s] \in OrNull(RefreshRow)
      OBVIOUS
    <3>1. CASE s = t /\ refresh[t] # Null
      <4>1. R[s] = [refresh[t] EXCEPT !.bound = FALSE]
        BY <1>2, <3>1
      <4> QED BY <1>3, <3>1, <4>1 DEF OrNull
    <3>2. CASE ~(s = t /\ refresh[t] # Null)
      <4>1. R[s] = refresh[s]
        BY <1>2, <3>2
      <4> QED BY <4>1 DEF LogoutTypes
    <3> QED BY <3>1, <3>2
  <2>3. R = [s \in Token |-> R[s]]
    BY <1>2
  <2> HIDE DEF R
  <2> QED BY <2>1, <2>2, <2>3
<1>5. A[t] = Null /\ \A s \in Token \ {t} : A[s] = access[s] /\ R[s] = refresh[s]
  BY <1>1, <1>2
<1>6. IF refresh[t] = Null THEN R[t] = Null ELSE R[t] = [refresh[t] EXCEPT !.bound = FALSE]
  BY <1>2
<1>7. refresh[t] # Null => /\ R[t].user = refresh[t].user /\ R[t].device = refresh[t].device
                           /\ R[t].revoked = refresh[t].revoked /\ R[t].bound = FALSE
  BY <1>3, <1>6 DEF RefreshRow
<1> HIDE DEF A, R
<1>8. Thins(A, R) /\ \A s \in Token : Unbinds(R, s) => s = t
  BY <1>4, <1>5, <1>6, <1>7 DEF Thins, Unbinds, RowsFit, Has
<1> QED BY <1>8 DEF A, R

LEMMA RevokedThins ==
  ASSUME LogoutTypes, RowsFit, NEW r \in Token, Has(refresh, r)
  PROVE  /\ Thins(Revoked(r).access, Revoked(r).refresh)
         /\ \A s \in Token : ~Unbinds(Revoked(r).refresh, s)
         /\ Revoked(r).refresh[r].revoked
<1> DEFINE A == Revoked(r).access
           R == Revoked(r).refresh
<1>1. A = [s \in Token |-> IF s = r THEN Null ELSE access[s]]
  BY DEF Revoked, Without, LogoutTypes
<1>2. R = [refresh EXCEPT ![r] = [refresh[r] EXCEPT !.revoked = TRUE, !.bound = FALSE]]
  BY DEF Revoked, LogoutTypes
<1>3. refresh[r] \in RefreshRow /\ [refresh[r] EXCEPT !.revoked = TRUE, !.bound = FALSE] \in RefreshRow
  BY RowsHaveShape DEF RefreshRow
<1>4. A \in [Token -> OrNull(AccessRow)] /\ R \in [Token -> OrNull(RefreshRow)]
  <2>1. A \in [Token -> OrNull(AccessRow)]
    BY <1>1 DEF LogoutTypes, OrNull
  <2> DEFINE row == [refresh[r] EXCEPT !.revoked = TRUE, !.bound = FALSE]
  <2>2. row \in OrNull(RefreshRow)
    BY <1>3 DEF OrNull
  <2> HIDE DEF row
  <2>3. R \in [Token -> OrNull(RefreshRow)]
    <3>1. R = [refresh EXCEPT ![r] = row]
      BY <1>2 DEF row
    <3> HIDE DEF R
    <3> QED BY <2>2, <3>1 DEF LogoutTypes
  <2> QED BY <2>1, <2>3
<1>5. A[r] = Null /\ \A s \in Token \ {r} : A[s] = access[s] /\ R[s] = refresh[s]
  BY <1>1, <1>2 DEF LogoutTypes
<1>6. R[r] = [refresh[r] EXCEPT !.revoked = TRUE, !.bound = FALSE]
  BY <1>2 DEF LogoutTypes
<1>7. /\ R[r].user = refresh[r].user /\ R[r].device = refresh[r].device
      /\ R[r].revoked = TRUE /\ R[r].bound = FALSE
  BY <1>3, <1>6 DEF RefreshRow
<1> HIDE DEF A, R
<1>8. Thins(A, R) /\ (\A s \in Token : ~Unbinds(R, s)) /\ R[r].revoked
  BY <1>4, <1>5, <1>7 DEF Thins, Unbinds, RowsFit, Has
<1> QED BY <1>8 DEF A, R

\* What the lists of a logout rely on.
RowsOnward ==
  /\ issued \subseteq issued'
  /\ \A s \in issued :
       /\ access'[s] \in {access[s], Null}
       /\ refresh'[s] # Null => /\ refresh[s] # Null
                                /\ refresh'[s].user = refresh[s].user
                                /\ refresh'[s].device = refresh[s].device
                                /\ refresh[s].revoked => refresh'[s].revoked
  /\ \A s \in Token \ issued : refresh'[s] # Null => refresh'[s].bound
TablesType == /\ now \in Nat /\ issued \subseteq Token /\ session \in OrNull(User)
              /\ access \in [Token -> OrNull(AccessRow)] /\ refresh \in [Token -> OrNull(RefreshRow)]
              /\ idToken \in [Token -> OrNull([user: User, expires: Nat])]
TablesMove == TablesType' /\ RowsFit' /\ RowsOnward

LEMMA ThinMoves ==
  ASSUME LogoutTypes, RowsFit, Thins(access', refresh'), issued' = issued, now' \in Nat,
         session' \in OrNull(User), idToken' \in [Token -> OrNull([user: User, expires: Nat])]
  PROVE  TablesMove
<1>1. TablesType'
  BY DEF LogoutTypes, TablesType, Thins
<1>2. RowsFit'
  BY DEF RowsFit, Thins, Has
<1>3. RowsOnward
  BY DEF RowsOnward, RowsFit, Thins, Has, LogoutTypes
<1> QED BY <1>1, <1>2, <1>3 DEF TablesMove

----------------------------------------------------------------------------
(* One logout moves: the others keep what they know.                       *)

\* A logout another one acts beside: at most it is no longer alone.
Beside(m) ==
  /\ attempt'[m].stage = attempt[m].stage /\ attempt'[m].user = attempt[m].user
  /\ attempt'[m].access = attempt[m].access /\ attempt'[m].refresh = attempt[m].refresh
  /\ attempt'[m].before = attempt[m].before
  /\ attempt'[m].alone => attempt[m].alone
\* A logout that is alone and has no list yet needs its refresh tokens to stay bound.
Spared(m) ==
  attempt[m].stage = "started" /\ attempt[m].alone =>
    \A s \in Token : refresh[s] # Null /\ refresh[s].user = attempt[m].user => ~Unbinds(refresh', s)

LEMMA AttemptTypes ==
  ASSUME LogoutTypes, NEW l \in Attempt
  PROVE  /\ attempt[l] \in AttemptState
         /\ attempt[l].user \in OrNull(User)
         /\ attempt[l].access \subseteq [id: Token, oidc: BOOLEAN] /\ attempt[l].refresh \subseteq Token
         /\ attempt[l].before.access \subseteq Token /\ attempt[l].before.usable \subseteq Token
BY DEF LogoutTypes, AttemptState

\* Tokens can only stop being live, or are new.
LEMMA LiveOnward ==
  ASSUME RowsOnward, NEW t \in issued, Live(t)'
  PROVE  Live(t) /\ refresh'[t].user = refresh[t].user /\ refresh'[t].device = refresh[t].device
BY DEF RowsOnward, Live, Has

LEMMA BelongingStays ==
  ASSUME RowsOnward, NEW t, NEW u, BelongsTo(t, u)
  PROVE  t \in issued' /\ (Has(access, t)' => access'[t].user = u) /\ (Has(refresh, t)' => refresh'[t].user = u)
BY DEF RowsOnward, BelongsTo, Has

LEMMA OthersKeep ==
  ASSUME LogoutTypes, RowsOnward, NEW m \in Attempt, AttemptInv(m), Beside(m), Spared(m)
  PROVE  AttemptInv(m)'
<1>1. OwnRows(m)'
  <2>1. ASSUME NEW row \in attempt[m].access PROVE BelongsTo(row.id, attempt[m].user)
    BY DEF AttemptInv, OwnRows
  <2>2. ASSUME NEW t \in attempt[m].before.access
        PROVE  BelongsTo(t, attempt[m].user) /\ (Has(access, t) => ~access[t].device)
    BY DEF AttemptInv, OwnRows
  <2>3. ASSUME NEW t \in attempt[m].before.access, Has(access, t)' PROVE ~access'[t].device
    BY <2>2, <2>3 DEF RowsOnward, BelongsTo, Has
  <2> QED BY <2>1, <2>2, <2>3, BelongingStays DEF OwnRows, BelongsTo, Beside
<1>2. Unstarted(m)'
  BY DEF AttemptInv, Unstarted, Beside
<1>3. DeletesAll(m)'
  <2> SUFFICES ASSUME NEW a \in attempt[m].before.access, Has(access, a)'
               PROVE  Has(access, a)
    BY DEF AttemptInv, DeletesAll, Beside
  <2>1. a \in issued
    BY DEF AttemptInv, OwnRows, BelongsTo
  <2> QED BY <2>1 DEF RowsOnward, Has
<1>4. RevokesAll(m)'
  <2> SUFFICES ASSUME attempt[m].alone, NEW t \in attempt[m].before.usable \cap attempt[m].before.access, Live(t)'
               PROVE  /\ attempt[m].stage = "started" => refresh'[t].bound
                      /\ attempt[m].stage \in {"listed", "deleting"} => t \in attempt[m].refresh
                      /\ attempt[m].stage # "done"
    BY DEF RevokesAll, Beside
  <2>1. t \in issued /\ t \in Token /\ (Has(refresh, t) => refresh[t].user = attempt[m].user)
    BY AttemptTypes DEF AttemptInv, OwnRows, BelongsTo
  <2>2. Live(t)
    BY <2>1, LiveOnward
  <2>3. /\ attempt[m].stage = "started" => refresh[t].bound
        /\ attempt[m].stage \in {"listed", "deleting"} => t \in attempt[m].refresh
        /\ attempt[m].stage # "done"
    BY <2>2 DEF AttemptInv, RevokesAll
  <2>4. ASSUME attempt[m].stage = "started" PROVE refresh'[t].bound
    <3>1. ~Unbinds(refresh', t)
      BY <2>1, <2>2, <2>4 DEF Spared, Live, Has
    <3>2. refresh'[t] # Null /\ ~refresh'[t].revoked
      BY DEF Live, Has
    <3> QED BY <2>3, <2>4, <3>1, <3>2 DEF Unbinds
  <2> QED BY <2>3, <2>4
<1> QED BY <1>1, <1>2, <1>3, <1>4 DEF AttemptInv

\* No user of a logout is forgotten, so neither is the reason why a token is an orphan.
LEMMA OrphansKeep ==
  ASSUME LogoutTypes, RowsFit, OnlyLogoutsOrphan, TablesMove,
         \A l \in Attempt : attempt[l].user # Null => attempt'[l].user = attempt[l].user,
         \A s \in issued : Unbinds(refresh', s) => \E l \in Attempt : attempt'[l].user = refresh[s].user
  PROVE  OnlyLogoutsOrphan'
<1> SUFFICES ASSUME NEW t \in Token, Live(t)'
             PROVE  IF refresh'[t].bound
                    THEN Has(access, t)' /\ access'[t].user = refresh'[t].user
                                         /\ access'[t].device = refresh'[t].device
                    ELSE \E l \in Attempt : attempt'[l].user = refresh'[t].user
  BY DEF OnlyLogoutsOrphan
<1>1. refresh'[t] # Null /\ ~refresh'[t].revoked
  BY DEF Live, Has
<1>2. CASE refresh'[t].bound
  BY <1>1, <1>2 DEF TablesMove, RowsFit, Has
<1>3. CASE ~refresh'[t].bound
  <2>1. t \in issued
    BY <1>1, <1>3 DEF TablesMove, RowsOnward
  <2>2. Live(t) /\ refresh'[t].user = refresh[t].user
    BY <2>1, LiveOnward DEF TablesMove
  <2>3. CASE refresh[t].bound
    BY <1>1, <1>3, <2>1, <2>2, <2>3 DEF Unbinds
  <2>4. CASE ~refresh[t].bound
    <3>1. PICK l \in Attempt : attempt[l].user = refresh[t].user
      BY <2>2, <2>4 DEF OnlyLogoutsOrphan
    <3>2. refresh[t].user # Null
      BY <2>2, RowsHaveShape, LogoutAssumption DEF Live, RefreshRow
    <3> QED BY <1>3, <2>2, <3>1, <3>2
  <2> QED BY <1>3, <2>3, <2>4
<1> QED BY <1>2, <1>3

LEMMA OneMoves ==
  ASSUME LogoutInv, TablesMove, attempt' \in [Attempt -> AttemptState], NEW l \in Attempt,
         \A m \in Attempt \ {l} : Beside(m) /\ Spared(m),
         attempt[l].user # Null => attempt'[l].user = attempt[l].user,
         \A s \in issued : Unbinds(refresh', s) => refresh[s].user = attempt'[l].user,
         AttemptInv(l)', AloneInv'
  PROVE  LogoutInv'
<1>1. LogoutTypes'
  BY DEF TablesMove, TablesType, LogoutTypes
<1>2. \A m \in Attempt : AttemptInv(m)'
  <2> SUFFICES ASSUME NEW m \in Attempt, m # l PROVE AttemptInv(m)'
    OBVIOUS
  <2> QED BY OthersKeep DEF LogoutInv, TablesMove
<1>3. \A m \in Attempt : attempt[m].user # Null => attempt'[m].user = attempt[m].user
  BY DEF Beside
<1>4. OnlyLogoutsOrphan'
  BY <1>3, OrphansKeep DEF LogoutInv
<1> QED BY <1>1, <1>2, <1>4 DEF LogoutInv, TablesMove

\* A logout that was running already is as alone as it was.
LEMMA AloneKeeps ==
  ASSUME AloneInv, NEW l \in Attempt, \A m \in Attempt \ {l} : Beside(m),
         Runs(l)' => Runs(l) /\ attempt'[l].user = attempt[l].user /\ (attempt'[l].alone => attempt[l].alone)
  PROVE  AloneInv'
<1>1. ASSUME NEW m \in Attempt, Runs(m)'
      PROVE  Runs(m) /\ attempt'[m].user = attempt[m].user /\ (attempt'[m].alone => attempt[m].alone)
  BY <1>1 DEF Beside, Runs
<1> QED BY <1>1 DEF AloneInv

\* The steps of the others: the tables move and no logout acts.
LEMMA TablesKeep ==
  ASSUME LogoutInv, TablesMove, attempt' = attempt, \A s \in issued : ~Unbinds(refresh', s)
  PROVE  LogoutInv'
<1>1. LogoutTypes'
  BY DEF TablesMove, TablesType, LogoutTypes, LogoutInv
<1>2. \A m \in Attempt : AttemptInv(m)'
  <2> SUFFICES ASSUME NEW m \in Attempt PROVE AttemptInv(m)'
    OBVIOUS
  <2>1. Beside(m)
    BY DEF Beside
  <2>2. Spared(m)
    BY DEF Spared, LogoutInv, RowsFit, Has
  <2> QED BY <2>1, <2>2, OthersKeep DEF LogoutInv, TablesMove
<1>3. OnlyLogoutsOrphan'
  BY OrphansKeep DEF LogoutInv
<1>4. AloneInv'
  BY DEF LogoutInv, AloneInv, Runs
<1> QED BY <1>1, <1>2, <1>3, <1>4 DEF LogoutInv, TablesMove

\* Nothing happens to the tables.
LEMMA StillMoves ==
  ASSUME LogoutTypes, RowsFit, UNCHANGED <<access, refresh, idToken, issued>>,
         now' \in Nat, session' \in OrNull(User)
  PROVE  TablesMove /\ \A s \in Token : ~Unbinds(refresh', s)
<1>1. Thins(access', refresh')
  BY SameThins
<1>2. idToken' \in [Token -> OrNull([user: User, expires: Nat])]
  BY DEF LogoutTypes
<1>3. \A s \in Token : ~Unbinds(refresh', s)
  BY SameThins
<1> QED BY <1>1, <1>2, <1>3, ThinMoves

----------------------------------------------------------------------------
(* The users, the clients and cleartokens.                                 *)

LEMMA IdTokensTyped ==
  ASSUME LogoutTypes, NEW gone
  PROVE  Without(idToken, gone) \in [Token -> OrNull([user: User, expires: Nat])]
BY DEF LogoutTypes, Without, OrNull

\* Issuing gives a fresh name to an access token and, maybe, to a refresh token bound to it.
LEMMA IssueMoves ==
  ASSUME LogoutTypes, RowsFit, NEW t \in Token, NEW row, NEW tables, Issue(t, row, tables),
         row.user \in User, row.device \in BOOLEAN, row.oidc \in BOOLEAN,
         Thins(tables.access, tables.refresh), \A s \in Token : ~Unbinds(tables.refresh, s),
         UNCHANGED <<now, session>>
  PROVE  TablesMove /\ \A s \in issued : ~Unbinds(refresh', s)
<1> DEFINE A == tables.access
           R == tables.refresh
           Arow == [user |-> row.user, device |-> row.device, oidc |-> row.oidc, expires |-> now + AccessLife]
           Rrow == [user |-> row.user, device |-> row.device, oidc |-> row.oidc, bound |-> TRUE, revoked |-> FALSE]
           I == [user |-> row.user, expires |-> now + AccessLife]
<1>1. now + AccessLife \in Nat
  BY LogoutAssumption DEF LogoutTypes
<1>2. /\ Arow \in AccessRow /\ Arow.user = row.user /\ Arow.device = row.device
      /\ Rrow \in RefreshRow /\ Rrow.user = row.user /\ Rrow.device = row.device
      /\ Rrow.bound = TRUE /\ Rrow.revoked = FALSE
      /\ I \in [user: User, expires: Nat]
  BY <1>1 DEF AccessRow, RefreshRow
<1>3. /\ t \notin issued /\ issued' = issued \cup {t}
      /\ access' = [A EXCEPT ![t] = Arow]
      /\ refresh' = [R EXCEPT ![t] = Rrow] \/ refresh' = R
      /\ idToken' = [idToken EXCEPT ![t] = I] \/ idToken' = idToken
  BY DEF Issue
<1> HIDE DEF A, R, Arow, Rrow, I
<1>4. Thins(A, R) /\ \A s \in Token : ~Unbinds(R, s)
  BY DEF A, R
<1>5. Arow # Null
  BY <1>2, RowAssumption
<1>6. A \in [Token -> OrNull(AccessRow)] /\ R \in [Token -> OrNull(RefreshRow)]
  BY <1>4 DEF Thins
<1>7. A[t] = Null /\ R[t] = Null
  BY <1>3, <1>4 DEF Thins, RowsFit, Has
<1>8. /\ access'[t] = Arow /\ \A s \in Token \ {t} : access'[s] = A[s] /\ refresh'[s] = R[s]
      /\ refresh'[t] \in {Rrow, Null}
  BY <1>3, <1>6, <1>7
<1>9. TablesType'
  <2>1. now' \in Nat /\ issued' \subseteq Token /\ session' \in OrNull(User)
    BY <1>3 DEF LogoutTypes
  <2>2. access' \in [Token -> OrNull(AccessRow)]
    BY <1>2, <1>3, <1>6 DEF OrNull
  <2>3. refresh' \in [Token -> OrNull(RefreshRow)]
    BY <1>2, <1>3, <1>6 DEF OrNull
  <2>4. idToken' \in [Token -> OrNull([user: User, expires: Nat])]
    BY <1>2, <1>3 DEF OrNull, LogoutTypes
  <2> QED BY <2>1, <2>2, <2>3, <2>4 DEF TablesType
<1>10. RowsFit'
  <2> SUFFICES ASSUME NEW s \in Token
               PROVE  /\ access'[s] # Null \/ refresh'[s] # Null => s \in issued'
                      /\ refresh'[s] # Null => (refresh'[s].bound <=> access'[s] # Null)
                      /\ refresh'[s] # Null /\ access'[s] # Null => /\ access'[s].user = refresh'[s].user
                                                                   /\ access'[s].device = refresh'[s].device
    BY DEF RowsFit, Has
  <2>1. CASE s = t
    BY <1>2, <1>3, <1>5, <1>8, <2>1
  <2>2. CASE s # t
    <3>1. /\ access[s] # Null \/ refresh[s] # Null => s \in issued
          /\ refresh[s] # Null /\ access[s] # Null => /\ access[s].user = refresh[s].user
                                                     /\ access[s].device = refresh[s].device
      BY DEF RowsFit, Has
    <3>2. /\ A[s] \in {access[s], Null}
          /\ R[s] # Null => /\ refresh[s] # Null
                            /\ R[s].user = refresh[s].user /\ R[s].device = refresh[s].device
                            /\ R[s].bound <=> A[s] # Null
      BY <1>4 DEF Thins
    <3>3. access'[s] = A[s] /\ refresh'[s] = R[s]
      BY <1>8, <2>2
    <3> QED BY <1>3, <3>1, <3>2, <3>3
  <2> QED BY <2>1, <2>2
<1>11. RowsOnward
  <2>1. ASSUME NEW s \in issued
        PROVE  /\ access'[s] \in {access[s], Null}
               /\ refresh'[s] # Null => /\ refresh[s] # Null
                                        /\ refresh'[s].user = refresh[s].user
                                        /\ refresh'[s].device = refresh[s].device
                                        /\ refresh[s].revoked => refresh'[s].revoked
    <3>1. s \in Token /\ s # t
      BY <1>3 DEF LogoutTypes
    <3> QED BY <1>4, <1>8, <3>1 DEF Thins
  <2>2. ASSUME NEW s \in Token \ issued, refresh'[s] # Null PROVE refresh'[s].bound
    <3>1. CASE s = t
      BY <1>2, <1>8, <2>2, <3>1
    <3>2. CASE s # t
      BY <1>4, <1>8, <2>2, <3>2 DEF Thins, RowsFit, Has
    <3> QED BY <3>1, <3>2
  <2> QED BY <1>3, <2>1, <2>2 DEF RowsOnward
<1>12. ASSUME NEW s \in issued PROVE ~Unbinds(refresh', s)
  <2>1. s \in Token /\ s # t
    BY <1>3 DEF LogoutTypes
  <2> QED BY <1>4, <1>8, <2>1 DEF Unbinds
<1> QED BY <1>9, <1>10, <1>11, <1>12 DEF TablesMove

LEMMA LogoutTickKeeps == ASSUME LogoutInv, LogoutTick PROVE LogoutInv'
<1>1. now' \in Nat /\ session' \in OrNull(User)
  BY DEF LogoutTick, LogoutInv, LogoutTypes
<1>2. TablesMove /\ \A s \in Token : ~Unbinds(refresh', s)
  BY <1>1, StillMoves DEF LogoutTick, LogoutInv
<1> QED BY <1>2, TablesKeep DEF LogoutTick, LogoutInv, LogoutTypes

LEMMA SignInKeeps == ASSUME LogoutInv, NEW u \in User, SignIn(u) PROVE LogoutInv'
<1>1. now' \in Nat /\ session' \in OrNull(User)
  BY DEF SignIn, LogoutInv, LogoutTypes, OrNull
<1>2. TablesMove /\ \A s \in Token : ~Unbinds(refresh', s)
  BY <1>1, StillMoves DEF SignIn, LogoutInv
<1> QED BY <1>2, TablesKeep DEF SignIn, LogoutInv, LogoutTypes

LEMMA AuthoriseKeeps ==
  ASSUME LogoutInv, NEW t \in Token, NEW kind \in Kinds, Authorise(t, kind) PROVE LogoutInv'
<1> DEFINE row == [user |-> session, device |-> kind.device, oidc |-> kind.oidc, offline |-> kind.offline]
           tables == [access |-> access, refresh |-> refresh]
<1>1. row.user \in User /\ row.device \in BOOLEAN /\ row.oidc \in BOOLEAN
  BY LogoutAssumption DEF Authorise, LogoutInv, LogoutTypes, OrNull
<1>2. Issue(t, row, tables) /\ attempt' = attempt /\ UNCHANGED <<now, session>>
  BY DEF Authorise
<1>3. tables.access = access /\ tables.refresh = refresh
  OBVIOUS
<1> HIDE DEF row, tables
<1>4. Thins(tables.access, tables.refresh) /\ \A s \in Token : ~Unbinds(tables.refresh, s)
  BY <1>3, SameThins DEF LogoutInv
<1>5. TablesMove /\ \A s \in issued : ~Unbinds(refresh', s)
  BY <1>1, <1>2, <1>4, IssueMoves DEF LogoutInv
<1> QED BY <1>2, <1>5, TablesKeep

LEMMA RotateKeeps ==
  ASSUME LogoutInv, NEW r \in Token, NEW t \in Token, Rotate(r, t) PROVE LogoutInv'
<1> DEFINE row == [user |-> refresh[r].user, device |-> refresh[r].device, oidc |-> refresh[r].oidc,
                   offline |-> TRUE]
           tables == Revoked(r)
<1>1. Has(refresh, r) /\ refresh[r] \in RefreshRow
  BY RowsHaveShape DEF Rotate, Live, LogoutInv
<1>2. row.user \in User /\ row.device \in BOOLEAN /\ row.oidc \in BOOLEAN
  BY <1>1 DEF RefreshRow
<1>3. Issue(t, row, tables) /\ attempt' = attempt /\ UNCHANGED <<now, session>>
  BY DEF Rotate
<1>4. Thins(tables.access, tables.refresh) /\ \A s \in Token : ~Unbinds(tables.refresh, s)
  BY <1>1, RevokedThins DEF LogoutInv
<1> HIDE DEF row, tables
<1>5. TablesMove /\ \A s \in issued : ~Unbinds(refresh', s)
  BY <1>2, <1>3, <1>4, IssueMoves DEF LogoutInv
<1> QED BY <1>3, <1>5, TablesKeep

LEMMA ClearKeeps ==
  ASSUME LogoutInv, NEW t \in Token, Clear(t) PROVE LogoutInv'
<1> DEFINE Safe == Thins(access', refresh') /\ \A s \in Token : ~Unbinds(refresh', s)
<1>1. LogoutTypes /\ RowsFit
  BY DEF LogoutInv
<1>2. UNCHANGED <<now, issued, session, attempt>>
  BY DEF Clear
<1>3. now' \in Nat /\ session' \in OrNull(User)
  BY <1>1, <1>2 DEF LogoutTypes
<1>4. idToken' \in [Token -> OrNull([user: User, expires: Nat])]
  BY <1>1, IdTokensTyped DEF Clear, LogoutTypes
<1>5. Safe
  <2>1. CASE Live(t) /\ ~refresh[t].bound /\ refresh' = Without(refresh, {t}) /\ UNCHANGED <<access, idToken>>
    <3>1. refresh' = [s \in Token |-> IF s = t THEN Null ELSE refresh[s]]
      BY <1>1, <2>1 DEF Without, LogoutTypes
    <3>2. refresh' \in [Token -> OrNull(RefreshRow)]
      BY <1>1, <3>1 DEF LogoutTypes, OrNull
    <3>3. refresh'[t] = Null /\ \A s \in Token \ {t} : refresh'[s] = refresh[s]
      BY <3>1
    <3>4. access' = access
      BY <2>1
    <3>5. Thins(access', refresh')
      BY <1>1, <3>2, <3>3, <3>4 DEF Thins, RowsFit, Has, LogoutTypes
    <3> QED BY <1>1, <3>3, <3>5 DEF Unbinds
  <2>2. CASE /\ Has(access, t) /\ access[t].expires < now /\ ~Kept(t)
             /\ access' = Without(access, {t}) /\ refresh' = Unbound(refresh, {t}) /\ UNCHANGED idToken
    <3>1. refresh[t] = Null
      BY <1>1, <2>2 DEF RowsFit, Kept, Has
    <3>2. Thins(access', refresh') /\ \A s \in Token : Unbinds(refresh', s) => s = t
      BY <1>1, <2>2, DropThins
    <3>3. refresh'[t] = Null
      BY <3>1, <3>2 DEF Thins
    <3> QED BY <3>2, <3>3 DEF Unbinds
  <2>3. CASE UNCHANGED <<access, refresh>>
    BY <1>1, <2>3, SameThins
  <2> QED BY <2>1, <2>2, <2>3 DEF Clear
<1>6. TablesMove
  BY <1>1, <1>2, <1>3, <1>4, <1>5, ThinMoves
<1> QED BY <1>1, <1>2, <1>5, <1>6, TablesKeep DEF LogoutTypes

----------------------------------------------------------------------------
(* The steps of a logout.                                                  *)

LEMMA HintUserTyped ==
  ASSUME LogoutTypes, NEW hint \in OrNull(Token)
  PROVE  HintUser(hint) \in OrNull(User)
BY DEF LogoutTypes, HintUser, OrNull, Has

\* A logout begins: what it takes down as the user's fits, and who is alone is settled.
LEMMA BeginKeeps ==
  ASSUME LogoutInv, NEW l \in Attempt, attempt[l].stage \in {"idle", "prompted"},
         NEW hint \in OrNull(Token), Begin(l, hint),
         UNCHANGED <<now, access, refresh, idToken, issued, session>>
  PROVE  LogoutInv'
<1> DEFINE u == IF HintUser(hint) # Null THEN HintUser(hint) ELSE session
           others == Running(u)
           begun == IF u = Null THEN [Fresh EXCEPT !.stage = "deleting"]
                    ELSE [Fresh EXCEPT !.stage = "started", !.user = u, !.alone = others = {},
                            !.before = [access |-> AccessOf(u), usable |-> UsableBy(u)]]
<1>1. LogoutTypes /\ RowsFit /\ AloneInv /\ attempt[l].user = Null
  BY DEF LogoutInv, AttemptInv, Unstarted
<1>2. u \in OrNull(User)
  BY <1>1, HintUserTyped DEF LogoutTypes
<1>3. attempt' = [m \in Attempt |-> IF m = l THEN begun
                    ELSE IF m \in others THEN [attempt[m] EXCEPT !.alone = FALSE] ELSE attempt[m]]
  BY DEF Begin
<1>4. \A m \in Attempt : m \in others <=> attempt[m].user = u /\ Runs(m)
  BY DEF Running, Runs
<1>5. /\ begun.user = u /\ begun.access = {} /\ begun.refresh = {} /\ begun.hint = Null
      /\ begun.alone \in BOOLEAN /\ (begun.alone /\ u # Null => others = {})
      /\ begun.stage = IF u = Null THEN "deleting" ELSE "started"
      /\ begun.before.access = IF u = Null THEN {} ELSE AccessOf(u)
      /\ begun.before.usable = IF u = Null THEN {} ELSE UsableBy(u)
  BY DEF Fresh, Nothing
<1>6. AccessOf(u) \subseteq Token /\ UsableBy(u) \subseteq Token
  BY DEF AccessOf, UsableBy
<1>7. begun \in AttemptState
  BY <1>2, <1>6 DEF Fresh, Nothing, AttemptState, OrNull
<1> HIDE DEF begun, others, u
<1>8. attempt'[l] = begun
  BY <1>3
<1>9. ASSUME NEW m \in Attempt \ {l}
      PROVE  /\ attempt'[m] = [attempt[m] EXCEPT !.alone = FALSE] \/ attempt'[m] = attempt[m]
             /\ m \in others => attempt'[m].alone = FALSE
             /\ Beside(m) /\ attempt'[m] \in AttemptState
  <2>1. attempt[m] \in AttemptState
    BY <1>1, AttemptTypes
  <2>2. CASE m \in others
    <3>1. attempt'[m] = [attempt[m] EXCEPT !.alone = FALSE]
      BY <1>3, <2>2
    <3> QED BY <2>1, <3>1 DEF AttemptState, Beside
  <2>3. CASE m \notin others
    <3>1. attempt'[m] = attempt[m]
      BY <1>3, <2>3
    <3> QED BY <2>1, <2>3, <3>1 DEF Beside
  <2> QED BY <2>2, <2>3
<1>10. attempt' \in [Attempt -> AttemptState]
  <2>1. \A m \in Attempt : attempt'[m] \in AttemptState
    BY <1>7, <1>8, <1>9
  <2>2. attempt' = [m \in Attempt |-> attempt'[m]]
    BY <1>3
  <2> QED BY <2>1, <2>2
<1>11. TablesMove /\ \A s \in Token : ~Unbinds(refresh', s)
  BY <1>1, StillMoves DEF LogoutTypes
<1>12. AttemptInv(l)'
  <2>1. OwnRows(l)'
    <3> SUFFICES ASSUME NEW t \in AccessOf(u)
                 PROVE  BelongsTo(t, u) /\ (Has(access, t) => ~access[t].device)
      BY <1>5, <1>8 DEF OwnRows, BelongsTo, Has
    <3> QED BY <1>1 DEF AccessOf, Deletes, BelongsTo, RowsFit
  <2>2. Unstarted(l)'
    BY <1>5, <1>8 DEF Unstarted
  <2>3. DeletesAll(l)'
    BY <1>5, <1>8 DEF DeletesAll
  <2>4. RevokesAll(l)'
    <3> SUFFICES ASSUME u # Null, NEW t \in AccessOf(u), Live(t) PROVE refresh[t].bound
      BY <1>5, <1>8 DEF RevokesAll, Live, Has
    <3> QED BY <1>1 DEF AccessOf, Live, RowsFit
  <2> QED BY <2>1, <2>2, <2>3, <2>4 DEF AttemptInv
<1>13. AloneInv'
  <2> SUFFICES ASSUME NEW k \in Attempt, NEW m \in Attempt, Runs(k)', Runs(m)', k # m,
                      attempt'[k].user = attempt'[m].user, attempt'[k].user # Null, attempt'[k].alone
               PROVE  FALSE
    BY DEF AloneInv
  <2>1. CASE k = l
    <3>1. attempt[m].user = u /\ Runs(m) /\ u # Null
      BY <1>5, <1>8, <1>9, <2>1 DEF Beside, Runs
    <3> QED BY <1>4, <1>5, <1>8, <2>1, <3>1
  <2>2. CASE m = l
    <3>1. attempt[k].user = u /\ Runs(k)
      BY <1>5, <1>8, <1>9, <2>2 DEF Beside, Runs
    <3> QED BY <1>4, <1>9, <2>2, <3>1
  <2>3. CASE k # l /\ m # l
    <3>1. Runs(k) /\ Runs(m) /\ attempt[k].user = attempt[m].user /\ attempt[k].user # Null /\ attempt[k].alone
      BY <1>9, <2>3 DEF Beside, Runs
    <3> QED BY <1>1, <3>1 DEF AloneInv
  <2> QED BY <2>1, <2>2, <2>3
<1>14. \A m \in Attempt \ {l} : Beside(m) /\ Spared(m)
  BY <1>9, <1>11 DEF Spared
<1>15. \A s \in issued : ~Unbinds(refresh', s)
  BY <1>1, <1>11 DEF LogoutTypes
<1> QED BY <1>1, <1>10, <1>11, <1>12, <1>13, <1>14, <1>15, OneMoves

\* A logout that has no user yet keeps none.
LEMMA PromptKeeps ==
  ASSUME LogoutInv, NEW l \in Attempt, attempt[l].stage \in {"idle", "prompted"},
         NEW n \in {Fresh} \cup {[Fresh EXCEPT !.stage = "prompted", !.hint = hint] : hint \in OrNull(Token)},
         attempt' = [attempt EXCEPT ![l] = n],
         UNCHANGED <<now, access, refresh, idToken, issued, session>>
  PROVE  LogoutInv'
<1>1. LogoutTypes /\ RowsFit /\ AloneInv /\ attempt[l].user = Null
  BY DEF LogoutInv, AttemptInv, Unstarted
<1>2. /\ n.stage \in {"idle", "prompted"} /\ n.user = Null /\ n.access = {} /\ n.before.access = {} /\ n.before.usable = {}
      /\ n \in AttemptState
  <2>1. CASE n = Fresh
    BY <2>1 DEF Fresh, Nothing, AttemptState, OrNull
  <2>2. ASSUME NEW hint \in OrNull(Token), n = [Fresh EXCEPT !.stage = "prompted", !.hint = hint]
        PROVE  /\ n.stage = "prompted" /\ n.user = Null /\ n.access = {}
               /\ n.before.access = {} /\ n.before.usable = {}
               /\ n \in AttemptState
    BY <2>2 DEF Fresh, Nothing, AttemptState, OrNull
  <2> QED BY <2>1, <2>2
<1>3. attempt' \in [Attempt -> AttemptState] /\ attempt'[l] = n
      /\ \A m \in Attempt \ {l} : attempt'[m] = attempt[m]
  BY <1>1, <1>2 DEF LogoutTypes
<1>4. TablesMove /\ \A s \in Token : ~Unbinds(refresh', s)
  BY <1>1, StillMoves DEF LogoutTypes
<1>5. \A m \in Attempt \ {l} : Beside(m) /\ Spared(m)
  BY <1>3, <1>4 DEF Beside, Spared
<1>6. AttemptInv(l)'
  BY <1>2, <1>3 DEF AttemptInv, OwnRows, Unstarted, DeletesAll, RevokesAll
<1>7. AloneInv'
  BY <1>1, <1>2, <1>3, <1>5, AloneKeeps DEF Runs
<1>8. \A s \in issued : ~Unbinds(refresh', s)
  BY <1>1, <1>4 DEF LogoutTypes
<1> QED BY <1>1, <1>3, <1>4, <1>5, <1>6, <1>7, <1>8, OneMoves

LEMMA RequestLogoutKeeps ==
  ASSUME LogoutInv, NEW l \in Attempt, NEW hint \in OrNull(Token), RequestLogout(l, hint)
  PROVE  LogoutInv'
<1>1. CASE MustPrompt(HintUser(hint))
  <2> DEFINE n == [Fresh EXCEPT !.stage = "prompted", !.hint = hint]
             prompts == {[Fresh EXCEPT !.stage = "prompted", !.hint = h] : h \in OrNull(Token)}
  <2>1. attempt' = [attempt EXCEPT ![l] = n] /\ n \in {Fresh} \cup prompts
    BY <1>1 DEF RequestLogout
  <2> HIDE DEF n
  <2> QED BY <2>1, PromptKeeps DEF RequestLogout
<1>2. CASE ~MustPrompt(HintUser(hint))
  <2>1. Begin(l, hint)
    BY <1>2 DEF RequestLogout
  <2> QED BY <2>1, BeginKeeps DEF RequestLogout
<1> QED BY <1>1, <1>2

LEMMA ConfirmLogoutKeeps ==
  ASSUME LogoutInv, NEW l \in Attempt, NEW allow \in BOOLEAN, ConfirmLogout(l, allow)
  PROVE  LogoutInv'
<1>1. attempt[l].hint \in OrNull(Token)
  BY AttemptTypes DEF LogoutInv, AttemptState
<1>2. CASE Begin(l, attempt[l].hint)
  BY <1>1, <1>2, BeginKeeps DEF ConfirmLogout
<1>3. CASE attempt' = [attempt EXCEPT ![l] = Fresh]
  BY <1>3, PromptKeeps DEF ConfirmLogout
<1> QED BY <1>2, <1>3 DEF ConfirmLogout

\* The steps of a running logout keep it running, or end it, for the same user.
Sweeps(l) ==
  /\ attempt' \in [Attempt -> AttemptState]
  /\ \A m \in Attempt \ {l} : attempt'[m] = attempt[m]
  /\ Runs(l)
  /\ attempt'[l].user = attempt[l].user /\ attempt'[l].alone = attempt[l].alone
  /\ attempt'[l].before = attempt[l].before
  /\ attempt'[l].stage \in {"listed", "deleting", "done", "failed"}

LEMMA SweepKeeps ==
  ASSUME LogoutInv, TablesMove, NEW l \in Attempt, Sweeps(l),
         \A s \in issued : Unbinds(refresh', s) => refresh[s].user = attempt[l].user,
         OwnRows(l)', DeletesAll(l)', RevokesAll(l)'
  PROVE  LogoutInv'
<1>1. \A m \in Attempt \ {l} : Beside(m)
  BY DEF Sweeps, Beside
<1>2. ASSUME NEW m \in Attempt \ {l} PROVE Spared(m)
  <2> SUFFICES ASSUME attempt[m].stage = "started", attempt[m].alone, NEW s \in Token, refresh[s] # Null,
                      refresh[s].user = attempt[m].user, Unbinds(refresh', s)
               PROVE  FALSE
    BY DEF Spared
  <2>1. s \in issued
    BY DEF LogoutInv, RowsFit, Has
  <2>2. refresh[s].user = attempt[l].user
    BY <2>1
  <2>3. attempt[m].user # Null
    BY RowsHaveShape, LogoutAssumption DEF LogoutInv, RefreshRow, Has
  <2> QED BY <2>2, <2>3 DEF LogoutInv, AloneInv, Sweeps, Runs
<1>3. AloneInv'
  BY <1>1, AloneKeeps DEF Sweeps, LogoutInv
<1>4. AttemptInv(l)'
  BY DEF AttemptInv, Unstarted, Sweeps
<1> QED BY <1>1, <1>2, <1>3, <1>4, OneMoves DEF Sweeps

LEMMA ListRefreshKeeps ==
  ASSUME LogoutInv, NEW l \in Attempt, ListRefresh(l) PROVE LogoutInv'
<1> DEFINE L == RefreshOf(attempt[l].user)
<1>1. LogoutTypes /\ RowsFit /\ AttemptInv(l) /\ attempt[l] \in AttemptState /\ attempt[l].stage = "started"
  BY AttemptTypes DEF LogoutInv, ListRefresh
<1>2. L \subseteq Token
  BY DEF RefreshOf, AccessOf
<1>3. attempt' = [attempt EXCEPT ![l] = [attempt[l] EXCEPT !.stage = "listed", !.refresh = L]]
  BY <1>1 DEF ListRefresh, LogoutTypes
<1> HIDE DEF L
<1>4. attempt'[l] = [attempt[l] EXCEPT !.stage = "listed", !.refresh = L]
      /\ \A m \in Attempt \ {l} : attempt'[m] = attempt[m]
  BY <1>1, <1>3 DEF LogoutTypes
<1>5. [attempt[l] EXCEPT !.stage = "listed", !.refresh = L] \in AttemptState
  BY <1>1, <1>2 DEF AttemptState
<1>6. /\ attempt'[l].stage = "listed" /\ attempt'[l].refresh = L
      /\ attempt'[l].user = attempt[l].user /\ attempt'[l].alone = attempt[l].alone
      /\ attempt'[l].before = attempt[l].before /\ attempt'[l].access = attempt[l].access
  BY <1>1, <1>4 DEF AttemptState
<1>7. attempt' \in [Attempt -> AttemptState]
  BY <1>1, <1>3, <1>5 DEF LogoutTypes
<1>8. Sweeps(l)
  BY <1>1, <1>4, <1>6, <1>7 DEF Sweeps, Runs
<1>9. TablesMove /\ (\A s \in Token : ~Unbinds(refresh', s)) /\ UNCHANGED <<access, refresh, issued>>
  BY <1>1, StillMoves DEF ListRefresh, LogoutTypes
<1>10. OwnRows(l)' /\ DeletesAll(l)'
  BY <1>1, <1>6, <1>9 DEF AttemptInv, OwnRows, DeletesAll, BelongsTo, Has
<1>11. RevokesAll(l)'
  <2> SUFFICES ASSUME attempt[l].alone, NEW t \in attempt[l].before.usable \cap attempt[l].before.access, Live(t)
               PROVE  t \in L
    BY <1>6, <1>9 DEF RevokesAll, Live, Has
  <2>1. t \in Token /\ Has(refresh, t) /\ refresh[t].bound /\ Has(access, t)
    BY <1>1, AttemptTypes DEF AttemptInv, RevokesAll, Live, RowsFit
  <2>2. access[t].user = attempt[l].user /\ ~access[t].device
    BY <1>1, <2>1 DEF AttemptInv, OwnRows, BelongsTo
  <2> QED BY <2>1, <2>2 DEF L, RefreshOf, AccessOf, Deletes
<1> QED BY <1>1, <1>8, <1>9, <1>10, <1>11, SweepKeeps DEF LogoutTypes

LEMMA ListAccessKeeps ==
  ASSUME LogoutInv, NEW l \in Attempt, ListAccess(l) PROVE LogoutInv'
<1> DEFINE L == {[id |-> a, oidc |-> access[a].oidc] : a \in AccessOf(attempt[l].user)}
<1>1. LogoutTypes /\ RowsFit /\ AttemptInv(l) /\ attempt[l] \in AttemptState /\ attempt[l].stage = "listed"
  BY AttemptTypes DEF LogoutInv, ListAccess
<1>2. ASSUME NEW a \in AccessOf(attempt[l].user)
      PROVE  a \in Token /\ Has(access, a) /\ access[a].oidc \in BOOLEAN /\ access[a].user = attempt[l].user
  BY <1>1, RowsHaveShape DEF AccessOf, AccessRow
<1>3. L \subseteq [id: Token, oidc: BOOLEAN]
  BY <1>2
<1>4. \A row \in L : row.id \in AccessOf(attempt[l].user)
  OBVIOUS
<1>5. ASSUME NEW a \in AccessOf(attempt[l].user) PROVE \E row \in L : row.id = a
  <2> DEFINE row == [id |-> a, oidc |-> access[a].oidc]
  <2>1. row \in L /\ row.id = a
    OBVIOUS
  <2> HIDE DEF row, L
  <2> QED BY <2>1
<1>6. attempt' = [attempt EXCEPT ![l] = [attempt[l] EXCEPT !.stage = "deleting", !.access = L]]
  BY <1>1 DEF ListAccess, LogoutTypes
<1> HIDE DEF L
<1>7. attempt'[l] = [attempt[l] EXCEPT !.stage = "deleting", !.access = L]
      /\ \A m \in Attempt \ {l} : attempt'[m] = attempt[m]
  BY <1>1, <1>6 DEF LogoutTypes
<1>8. [attempt[l] EXCEPT !.stage = "deleting", !.access = L] \in AttemptState
  BY <1>1, <1>3 DEF AttemptState
<1>9. /\ attempt'[l].stage = "deleting" /\ attempt'[l].access = L
      /\ attempt'[l].user = attempt[l].user /\ attempt'[l].alone = attempt[l].alone
      /\ attempt'[l].before = attempt[l].before /\ attempt'[l].refresh = attempt[l].refresh
  BY <1>1, <1>7 DEF AttemptState
<1>10. attempt' \in [Attempt -> AttemptState]
  BY <1>1, <1>6, <1>8 DEF LogoutTypes
<1>11. Sweeps(l)
  BY <1>1, <1>7, <1>9, <1>10 DEF Sweeps, Runs
<1>12. TablesMove /\ (\A s \in Token : ~Unbinds(refresh', s)) /\ UNCHANGED <<access, refresh, issued>>
  BY <1>1, StillMoves DEF ListAccess, LogoutTypes
<1>13. OwnRows(l)'
  <2>1. ASSUME NEW row \in L PROVE BelongsTo(row.id, attempt[l].user)
    BY <1>1, <1>2, <1>4 DEF BelongsTo, RowsFit
  <2> QED BY <1>1, <1>9, <1>12, <2>1 DEF AttemptInv, OwnRows, BelongsTo, Has
<1>14. DeletesAll(l)'
  <2> SUFFICES ASSUME NEW a \in attempt[l].before.access, Has(access, a)
               PROVE  \E row \in L : row.id = a
    BY <1>9, <1>12 DEF DeletesAll, Has
  <2>1. a \in Token
    BY <1>1, AttemptTypes
  <2>2. access[a].user = attempt[l].user /\ ~access[a].device
    BY <1>1 DEF AttemptInv, OwnRows, BelongsTo
  <2> QED BY <1>5, <2>1, <2>2 DEF AccessOf, Deletes
<1>15. RevokesAll(l)'
  BY <1>1, <1>9, <1>12 DEF AttemptInv, RevokesAll, Live, Has
<1> QED BY <1>1, <1>11, <1>12, <1>13, <1>14, <1>15, SweepKeeps DEF LogoutTypes

LEMMA DeleteOneKeeps ==
  ASSUME LogoutInv, NEW l \in Attempt, NEW row \in attempt[l].access, DeleteOne(l, row)
  PROVE  LogoutInv'
<1>1. LogoutTypes /\ RowsFit /\ AttemptInv(l) /\ attempt[l] \in AttemptState /\ attempt[l].stage = "deleting"
  BY AttemptTypes DEF LogoutInv, DeleteOne
<1>2. row.id \in Token /\ BelongsTo(row.id, attempt[l].user)
  BY <1>1, AttemptTypes DEF AttemptInv, OwnRows
<1>3. now' \in Nat /\ session' \in OrNull(User) /\ issued' = issued
  BY <1>1 DEF DeleteOne, LogoutTypes
<1>4. CASE attempt' = [attempt EXCEPT ![l].stage = "failed"] /\ UNCHANGED <<access, refresh, idToken>>
  <2>1. attempt' = [attempt EXCEPT ![l] = [attempt[l] EXCEPT !.stage = "failed"]]
    BY <1>1, <1>4 DEF LogoutTypes
  <2>2. attempt'[l] = [attempt[l] EXCEPT !.stage = "failed"]
        /\ \A m \in Attempt \ {l} : attempt'[m] = attempt[m]
    BY <1>1, <2>1 DEF LogoutTypes
  <2>3. [attempt[l] EXCEPT !.stage = "failed"] \in AttemptState
    BY <1>1 DEF AttemptState
  <2>4. /\ attempt'[l].stage = "failed" /\ attempt'[l].access = attempt[l].access
        /\ attempt'[l].user = attempt[l].user /\ attempt'[l].alone = attempt[l].alone
        /\ attempt'[l].before = attempt[l].before
    BY <1>1, <2>2 DEF AttemptState
  <2>5. attempt' \in [Attempt -> AttemptState]
    BY <1>1, <2>1, <2>3 DEF LogoutTypes
  <2>6. Sweeps(l)
    BY <1>1, <2>2, <2>4, <2>5 DEF Sweeps, Runs
  <2>7. TablesMove /\ \A s \in Token : ~Unbinds(refresh', s)
    BY <1>1, <1>3, <1>4, StillMoves
  <2>8. OwnRows(l)'
    BY <1>1, <1>3, <1>4, <2>4 DEF AttemptInv, OwnRows, BelongsTo, Has
  <2>9. DeletesAll(l)' /\ RevokesAll(l)'
    BY <2>4 DEF DeletesAll, RevokesAll
  <2> QED BY <1>1, <2>6, <2>7, <2>8, <2>9, SweepKeeps DEF LogoutTypes
<1>5. CASE /\ access' = Without(access, {row.id}) /\ refresh' = Unbound(refresh, {row.id})
           /\ idToken' = Without(idToken, {row.id})
           /\ attempt' = [attempt EXCEPT ![l].access = @ \ {row}]
  <2> DEFINE L == attempt[l].access \ {row}
  <2>1. attempt' = [attempt EXCEPT ![l] = [attempt[l] EXCEPT !.access = L]]
    BY <1>1, <1>5 DEF LogoutTypes
  <2>2. L \subseteq attempt[l].access /\ \A a : (\E r \in attempt[l].access : r.id = a) /\ a # row.id
                                                  => \E r \in L : r.id = a
    OBVIOUS
  <2> HIDE DEF L
  <2>3. attempt'[l] = [attempt[l] EXCEPT !.access = L] /\ \A m \in Attempt \ {l} : attempt'[m] = attempt[m]
    BY <1>1, <2>1 DEF LogoutTypes
  <2>4. [attempt[l] EXCEPT !.access = L] \in AttemptState
    BY <1>1, <2>2 DEF AttemptState
  <2>5. /\ attempt'[l].stage = "deleting" /\ attempt'[l].access = L /\ attempt'[l].refresh = attempt[l].refresh
        /\ attempt'[l].user = attempt[l].user /\ attempt'[l].alone = attempt[l].alone
        /\ attempt'[l].before = attempt[l].before
    BY <1>1, <2>3 DEF AttemptState
  <2>6. attempt' \in [Attempt -> AttemptState]
    BY <1>1, <2>1, <2>4 DEF LogoutTypes
  <2>7. Sweeps(l)
    BY <1>1, <2>3, <2>5, <2>6 DEF Sweeps, Runs
  <2>8. Thins(access', refresh') /\ \A s \in Token : Unbinds(refresh', s) => s = row.id
    BY <1>1, <1>2, <1>5, DropThins
  <2>9. TablesMove
    BY <1>1, <1>3, <1>5, <2>8, IdTokensTyped, ThinMoves
  <2>10. ASSUME NEW s \in issued, Unbinds(refresh', s) PROVE refresh[s].user = attempt[l].user
    <3>1. s = row.id /\ s \in Token
      BY <1>1, <2>8, <2>10 DEF LogoutTypes
    <3>2. Has(refresh, s)
      BY <2>8, <2>10, <3>1 DEF Thins, Unbinds, Has
    <3> QED BY <1>2, <3>1, <3>2 DEF BelongsTo
  <2>11. access'[row.id] = Null
    BY <1>1, <1>2, <1>5 DEF Without, LogoutTypes
  <2>12. OwnRows(l)'
    <3>1. ASSUME NEW r \in L PROVE BelongsTo(r.id, attempt[l].user)
      BY <1>1, <2>2 DEF AttemptInv, OwnRows
    <3>2. ASSUME NEW t \in attempt[l].before.access
          PROVE  BelongsTo(t, attempt[l].user) /\ (Has(access, t)' => ~access'[t].device)
      BY <1>1, <2>9 DEF AttemptInv, OwnRows, TablesMove, RowsOnward, BelongsTo, Has
    <3> QED BY <2>5, <2>9, <3>1, <3>2, BelongingStays DEF OwnRows, BelongsTo, TablesMove
  <2>13. DeletesAll(l)'
    <3> SUFFICES ASSUME NEW a \in attempt[l].before.access, Has(access, a)'
                 PROVE  \E r \in L : r.id = a
      BY <2>5 DEF DeletesAll
    <3>1. a \in Token /\ a # row.id
      BY <1>1, <2>11, AttemptTypes DEF Has
    <3>2. Has(access, a)
      BY <2>8, <3>1 DEF Thins, Has
    <3>3. \E r \in attempt[l].access : r.id = a
      BY <1>1, <3>2 DEF AttemptInv, DeletesAll
    <3> QED BY <2>2, <3>1, <3>3
  <2>14. RevokesAll(l)'
    <3> SUFFICES ASSUME attempt[l].alone, NEW t \in attempt[l].before.usable \cap attempt[l].before.access,
                        Live(t)'
                 PROVE  t \in attempt[l].refresh
      BY <2>5 DEF RevokesAll
    <3>1. t \in issued
      BY <1>1 DEF AttemptInv, OwnRows, BelongsTo
    <3>2. Live(t)
      BY <2>9, <3>1, LiveOnward DEF TablesMove
    <3> QED BY <1>1, <3>2 DEF AttemptInv, RevokesAll
  <2> QED BY <2>7, <2>9, <2>10, <2>12, <2>13, <2>14, SweepKeeps
<1> QED BY <1>4, <1>5 DEF DeleteOne

LEMMA RevokeOneKeeps ==
  ASSUME LogoutInv, NEW l \in Attempt, NEW r \in attempt[l].refresh, RevokeOne(l, r)
  PROVE  LogoutInv'
<1> DEFINE L == attempt[l].refresh \ {r}
<1>1. LogoutTypes /\ RowsFit /\ AttemptInv(l) /\ attempt[l] \in AttemptState /\ attempt[l].stage = "deleting"
  BY AttemptTypes DEF LogoutInv, RevokeOne
<1>2. r \in Token
  BY <1>1, AttemptTypes
<1>3. now' \in Nat /\ session' \in OrNull(User) /\ issued' = issued /\ idToken' = idToken
  BY <1>1 DEF RevokeOne, LogoutTypes
<1>4. attempt' = [attempt EXCEPT ![l] = [attempt[l] EXCEPT !.refresh = L]]
  BY <1>1 DEF RevokeOne, LogoutTypes
<1>5. L \subseteq attempt[l].refresh /\ \A t \in attempt[l].refresh : t # r => t \in L
  OBVIOUS
<1> HIDE DEF L
<1>6. attempt'[l] = [attempt[l] EXCEPT !.refresh = L] /\ \A m \in Attempt \ {l} : attempt'[m] = attempt[m]
  BY <1>1, <1>4 DEF LogoutTypes
<1>7. [attempt[l] EXCEPT !.refresh = L] \in AttemptState
  BY <1>1, <1>5 DEF AttemptState
<1>8. /\ attempt'[l].stage = "deleting" /\ attempt'[l].refresh = L /\ attempt'[l].access = attempt[l].access
      /\ attempt'[l].user = attempt[l].user /\ attempt'[l].alone = attempt[l].alone
      /\ attempt'[l].before = attempt[l].before
  BY <1>1, <1>6 DEF AttemptState
<1>9. attempt' \in [Attempt -> AttemptState]
  BY <1>1, <1>4, <1>7 DEF LogoutTypes
<1>10. Sweeps(l)
  BY <1>1, <1>6, <1>8, <1>9 DEF Sweeps, Runs
<1>11. Thins(access', refresh') /\ (\A s \in Token : ~Unbinds(refresh', s)) /\ ~Live(r)'
  <2>1. CASE Live(r)
    <3>1. access' = Revoked(r).access /\ refresh' = Revoked(r).refresh
      BY <2>1 DEF RevokeOne
    <3> QED BY <1>1, <1>2, <2>1, <3>1, RevokedThins DEF Live, Has
  <2>2. CASE ~Live(r)
    <3>1. access' = access /\ refresh' = refresh
      BY <2>2 DEF RevokeOne
    <3> QED BY <1>1, <2>2, <3>1, SameThins DEF Live, Has
  <2> QED BY <2>1, <2>2
<1>12. idToken' \in [Token -> OrNull([user: User, expires: Nat])]
  BY <1>1, <1>3 DEF LogoutTypes
<1>13. TablesMove
  BY <1>1, <1>3, <1>11, <1>12, ThinMoves
<1>14. OwnRows(l)'
  <2>1. ASSUME NEW row \in attempt[l].access PROVE BelongsTo(row.id, attempt[l].user)
    BY <1>1 DEF AttemptInv, OwnRows
  <2>2. ASSUME NEW t \in attempt[l].before.access
        PROVE  BelongsTo(t, attempt[l].user) /\ (Has(access, t)' => ~access'[t].device)
    BY <1>1, <1>13 DEF AttemptInv, OwnRows, TablesMove, RowsOnward, BelongsTo, Has
  <2> QED BY <1>8, <1>13, <2>1, <2>2, BelongingStays DEF OwnRows, BelongsTo, TablesMove
<1>15. DeletesAll(l)'
  <2> SUFFICES ASSUME NEW a \in attempt[l].before.access, Has(access, a)'
               PROVE  \E row \in attempt[l].access : row.id = a
    BY <1>8 DEF DeletesAll
  <2>1. Has(access, a)
    BY <1>1, <1>11, AttemptTypes DEF Thins, Has
  <2> QED BY <1>1, <2>1 DEF AttemptInv, DeletesAll
<1>16. RevokesAll(l)'
  <2> SUFFICES ASSUME attempt[l].alone, NEW t \in attempt[l].before.usable \cap attempt[l].before.access,
                      Live(t)'
               PROVE  t \in L
    BY <1>8 DEF RevokesAll
  <2>1. t \in issued
    BY <1>1 DEF AttemptInv, OwnRows, BelongsTo
  <2>2. Live(t) /\ t # r
    BY <1>11, <1>13, <2>1, LiveOnward DEF TablesMove
  <2> QED BY <1>1, <1>5, <2>2 DEF AttemptInv, RevokesAll
<1> QED BY <1>1, <1>10, <1>11, <1>13, <1>14, <1>15, <1>16, SweepKeeps DEF LogoutTypes

LEMMA EndSessionKeeps ==
  ASSUME LogoutInv, NEW l \in Attempt, EndSession(l) PROVE LogoutInv'
<1>1. /\ LogoutTypes /\ RowsFit /\ AttemptInv(l) /\ attempt[l] \in AttemptState
      /\ attempt[l].stage = "deleting" /\ attempt[l].access = {} /\ attempt[l].refresh = {}
  BY AttemptTypes DEF LogoutInv, EndSession
<1>2. attempt' = [attempt EXCEPT ![l] = [attempt[l] EXCEPT !.stage = "done"]]
  BY <1>1 DEF EndSession, LogoutTypes
<1>3. attempt'[l] = [attempt[l] EXCEPT !.stage = "done"] /\ \A m \in Attempt \ {l} : attempt'[m] = attempt[m]
  BY <1>1, <1>2 DEF LogoutTypes
<1>4. [attempt[l] EXCEPT !.stage = "done"] \in AttemptState
  BY <1>1 DEF AttemptState
<1>5. /\ attempt'[l].stage = "done" /\ attempt'[l].access = attempt[l].access
      /\ attempt'[l].user = attempt[l].user /\ attempt'[l].alone = attempt[l].alone
      /\ attempt'[l].before = attempt[l].before
  BY <1>1, <1>3 DEF AttemptState
<1>6. attempt' \in [Attempt -> AttemptState]
  BY <1>1, <1>2, <1>4 DEF LogoutTypes
<1>7. Sweeps(l)
  BY <1>1, <1>3, <1>5, <1>6 DEF Sweeps, Runs
<1>8. now' \in Nat /\ session' \in OrNull(User) /\ UNCHANGED <<access, refresh, idToken, issued>>
  BY <1>1 DEF EndSession, LogoutTypes, OrNull
<1>9. TablesMove /\ \A s \in Token : ~Unbinds(refresh', s)
  BY <1>1, <1>8, StillMoves
<1>10. OwnRows(l)'
  BY <1>1, <1>5, <1>8 DEF AttemptInv, OwnRows, BelongsTo, Has
<1>11. DeletesAll(l)'
  BY <1>1, <1>5, <1>8 DEF AttemptInv, DeletesAll, Has
<1>12. RevokesAll(l)'
  BY <1>1, <1>5, <1>8 DEF AttemptInv, RevokesAll, Live, Has
<1> QED BY <1>1, <1>7, <1>9, <1>10, <1>11, <1>12, SweepKeeps DEF LogoutTypes

----------------------------------------------------------------------------
LEMMA LogoutStarts == ASSUME LogoutInit PROVE LogoutInv
<1>1. LogoutTypes
  <2>1. Fresh \in AttemptState
    BY DEF Fresh, Nothing, AttemptState, OrNull
  <2>2. attempt \in [Attempt -> AttemptState]
    BY <2>1 DEF LogoutInit
  <2> QED BY <2>2 DEF LogoutInit, LogoutTypes, OrNull
<1>2. RowsFit /\ OnlyLogoutsOrphan
  BY DEF LogoutInit, RowsFit, OnlyLogoutsOrphan, Live, Has
<1>3. \A l \in Attempt : AttemptInv(l)
  BY DEF LogoutInit, Fresh, Nothing, AttemptInv, OwnRows, Unstarted, DeletesAll, RevokesAll
<1>4. AloneInv
  BY DEF LogoutInit, Fresh, AloneInv, Runs
<1> QED BY <1>1, <1>2, <1>3, <1>4 DEF LogoutInv

LEMMA LogoutKeeps == ASSUME LogoutInv, [ServerNext]_serverVars PROVE LogoutInv'
<1>1. CASE LogoutTick
  BY <1>1, LogoutTickKeeps
<1>2. ASSUME NEW u \in User, SignIn(u) PROVE LogoutInv'
  BY <1>2, SignInKeeps
<1>3. ASSUME NEW t \in Token, NEW kind \in Kinds, Authorise(t, kind) PROVE LogoutInv'
  BY <1>3, AuthoriseKeeps
<1>4. ASSUME NEW t \in Token, NEW r \in Token, Rotate(r, t) PROVE LogoutInv'
  BY <1>4, RotateKeeps
<1>5. ASSUME NEW t \in Token, Clear(t) PROVE LogoutInv'
  BY <1>5, ClearKeeps
<1>6. ASSUME NEW l \in Attempt, LogoutStep(l) PROVE LogoutInv'
  <2>1. ASSUME NEW hint \in OrNull(Token), RequestLogout(l, hint) PROVE LogoutInv'
    BY <2>1, RequestLogoutKeeps
  <2>2. ASSUME NEW allow \in BOOLEAN, ConfirmLogout(l, allow) PROVE LogoutInv'
    BY <2>2, ConfirmLogoutKeeps
  <2>3. CASE ListRefresh(l)
    BY <2>3, ListRefreshKeeps
  <2>4. CASE ListAccess(l)
    BY <2>4, ListAccessKeeps
  <2>5. ASSUME NEW row \in attempt[l].access, DeleteOne(l, row) PROVE LogoutInv'
    BY <2>5, DeleteOneKeeps
  <2>6. ASSUME NEW r \in attempt[l].refresh, RevokeOne(l, r) PROVE LogoutInv'
    BY <2>6, RevokeOneKeeps
  <2>7. CASE EndSession(l)
    BY <2>7, EndSessionKeeps
  <2> QED BY <1>6, <2>1, <2>2, <2>3, <2>4, <2>5, <2>6, <2>7 DEF LogoutStep
<1>7. CASE UNCHANGED serverVars
  <2>1. now' \in Nat /\ session' \in OrNull(User)
    BY <1>7 DEF serverVars, LogoutInv, LogoutTypes
  <2>2. TablesMove /\ \A s \in Token : ~Unbinds(refresh', s)
    BY <1>7, <2>1, StillMoves DEF serverVars, LogoutInv
  <2> QED BY <1>7, <2>2, TablesKeep DEF serverVars, LogoutInv, LogoutTypes
<1> QED BY <1>1, <1>2, <1>3, <1>4, <1>5, <1>6, <1>7 DEF ServerNext

\* What a logout has listed, and whether it is alone, is as LogoutInv says in every reachable
\* state (RPInitiatedLogoutView.do_logout).
THEOREM LogoutInvCorrect == LogoutSpec => []LogoutInv
<1>1. LogoutInit => LogoutInv
  BY LogoutStarts
<1>2. LogoutInv /\ [ServerNext]_serverVars => LogoutInv'
  BY LogoutKeeps
<1> QED BY <1>1, <1>2, PTL DEF LogoutSpec

\* A logout that came to its end left none of the access tokens it found, and none of the
\* refresh tokens behind them if no other logout of the user ran meanwhile, however many
\* requests, rotations and cleartokens runs there are (RPInitiatedLogoutView.do_logout).
THEOREM LogoutsSweep == LogoutSpec => []LogoutSweeps
<1>1. LogoutInv => LogoutSweeps
  BY DEF LogoutInv, AttemptInv, DeletesAll, RevokesAll, LogoutSweeps
<1> QED BY <1>1, LogoutInvCorrect, PTL

\* A refresh token that can be used has its access token, of the same user and application,
\* unless a logout of that user deleted it (RefreshToken.revoke, clear_expired, do_logout).
THEOREM OrphansAreLogouts == LogoutSpec => []OnlyLogoutsOrphan
<1>1. LogoutInv => OnlyLogoutsOrphan
  BY DEF LogoutInv
<1> QED BY <1>1, LogoutInvCorrect, PTL

----------------------------------------------------------------------------
(* The server beside its visitors.                                         *)

\* Introspection reads the tables and writes none: with the visits to a resource server between
\* its steps, the server takes the steps it takes alone (IntrospectTokenView).
THEOREM VisitsLeaveTheServer == Spec => LogoutSpec
<1>1. Init => LogoutInit
  BY DEF Init
<1>2. [Next]_vars => [ServerNext]_serverVars
  BY DEF Next, vars
<1> QED BY <1>1, <1>2, PTL DEF Spec, LogoutSpec

\* So a logout sweeps as it does alone, and orphans what it does alone, while tokens are asked
\* about (RPInitiatedLogoutView.do_logout, IntrospectTokenView).
THEOREM LogoutsSweepBesideVisits == Spec => [](LogoutSweeps /\ OnlyLogoutsOrphan)
BY VisitsLeaveTheServer, LogoutsSweep, OrphansAreLogouts, PTL
=============================================================================
