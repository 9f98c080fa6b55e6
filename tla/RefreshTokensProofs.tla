------------------------ MODULE RefreshTokensProofs ------------------------
(***************************************************************************)
(* Type correctness of RefreshTokens, for every number of keys, requests   *)
(* and settings, the inductive invariants behind its safety properties,    *)
(* and what no step may do to a revoked or a live row.                     *)
(***************************************************************************)
EXTENDS RefreshTokens, TLAPS

(* The table operators return tables.                                      *)
LEMMA TableTypes ==
  ASSUME TypeOK
  PROVE  /\ \A A : WithoutAccess(A) \in [AccessId -> AccessRow]
         /\ \A A : Unbound(A) \in [RefreshId -> RefreshRow]
         /\ \A R : WithoutRefresh(R) \in [RefreshId -> RefreshRow]
         /\ \A R : Unsourced(R) \in [AccessId -> AccessRow]
         /\ \A r \in RefreshId : RefreshAfterRevoke(r) \in [RefreshId -> RefreshRow]
         /\ \A r \in RefreshId : AccessAfterRevoke(r) \in [AccessId -> AccessRow]
<1>1. \A A : WithoutAccess(A) \in [AccessId -> AccessRow]
  BY DEF TypeOK, WithoutAccess, EmptyAccess, AccessRow, Status, OrNull
<1>2. \A A : Unbound(A) \in [RefreshId -> RefreshRow]
  BY DEF TypeOK, Unbound, RefreshRow, OrNull
<1>3. \A R : WithoutRefresh(R) \in [RefreshId -> RefreshRow]
  BY DEF TypeOK, WithoutRefresh, EmptyRefresh, RefreshRow, Status, OrNull
<1>4. \A R : Unsourced(R) \in [AccessId -> AccessRow]
  BY DEF TypeOK, Unsourced, AccessRow, OrNull
<1>5. \A r \in RefreshId : RefreshAfterRevoke(r) \in [RefreshId -> RefreshRow]
  <2> SUFFICES ASSUME NEW r \in RefreshId
               PROVE  RefreshAfterRevoke(r) \in [RefreshId -> RefreshRow]
    OBVIOUS
  <2> DEFINE U == Unbound({refresh[r].access})
  <2>1. U \in [RefreshId -> RefreshRow]
    BY <1>2
  <2>2. CASE Live(r)
    <3>1. [U[r] EXCEPT !.access = Null, !.revoked = now] \in RefreshRow
      BY <2>1 DEF TypeOK, RefreshRow, OrNull
    <3>2. RefreshAfterRevoke(r) = [U EXCEPT ![r] = [U[r] EXCEPT !.access = Null, !.revoked = now]]
      BY <2>1, <2>2 DEF RefreshAfterRevoke
    <3> HIDE DEF U
    <3> QED BY <2>1, <3>1, <3>2
  <2>3. CASE ~Live(r)
    BY <2>3 DEF TypeOK, RefreshAfterRevoke
  <2> QED BY <2>2, <2>3
<1>6. \A r \in RefreshId : AccessAfterRevoke(r) \in [AccessId -> AccessRow]
  BY <1>1 DEF TypeOK, AccessAfterRevoke
<1> QED BY <1>1, <1>2, <1>3, <1>4, <1>5, <1>6

LEMMA RowUpdate ==
  ASSUME NEW row \in RefreshRow, NEW t
  PROVE  LET new == [row EXCEPT !.access = Null, !.revoked = t] IN
         /\ new.status = row.status /\ new.family = row.family /\ new.resource = row.resource
         /\ new.access = Null /\ new.revoked = t
BY DEF RefreshRow

LEMMA NewRowTypes ==
  ASSUME TypeOK
  PROVE  /\ \A f, a, res : f \in OrNull(RefreshId) /\ a \in AccessId /\ res \in SUBSET Resource
              => NewRefresh(f, a, res) \in RefreshRow
         /\ \A f, s, sc, res : f \in OrNull(RefreshId) /\ s \in OrNull(RefreshId)
                /\ sc \in SUBSET Scope /\ res \in SUBSET Resource
              => NewAccess(f, s, sc, res) \in AccessRow
BY SettingAssumption DEF TypeOK, NewRefresh, NewAccess, RefreshRow, AccessRow, OrNull, Status

LEMMA IdleRequest ==
  ASSUME RequestsOK, NEW q \in Request, req' = [req EXCEPT ![q] = Idle]
  PROVE  RequestsOK'
BY DEF RequestsOK, Idle, RequestState, Phase, OrNull

LEMMA RequestBegins ==
  ASSUME RequestsOK, NEW q \in Request, NEW row \in RequestState, req' = [req EXCEPT ![q] = row],
         row.phase \in {"recent", "late", "scopes", "save"} => row.token \in RefreshId,
         row.phase = "revoke" => row.access \in AccessId
  PROVE  RequestsOK'
BY DEF RequestsOK

LEMMA SameRequests == RequestsOK /\ UNCHANGED req => RequestsOK'
BY DEF RequestsOK

LEMMA BatchType ==
  ASSUME NEW stage PROVE Matching(stage) \subseteq RefreshId \cup AccessId
BY DEF Matching

LEMMA InitTypeOK == Init => TypeOK
BY DEF Init, TypeOK, RequestsOK, EmptyRefresh, EmptyAccess, RefreshRow, AccessRow, Status, OrNull,
       Idle, RequestState, Phase, Resting, Stage

LEMMA NextTypeOK == TypeOK /\ [Next]_vars => TypeOK'
<1> SUFFICES ASSUME TypeOK, [Next]_vars PROVE TypeOK'
  OBVIOUS
<1> USE DEF TypeOK
<1>1. CASE Tick
  <2>1. now' \in Nat
    BY <1>1 DEF Tick
  <2> QED BY <1>1, <2>1, SameRequests DEF Tick
<1>2. ASSUME NEW r \in RefreshId, NEW a \in AccessId, NEW sc \in SUBSET Scope,
             NEW res \in SUBSET Resource, IssuePair(r, a, sc, res)
      PROVE  TypeOK'
  BY <1>2, NewRowTypes, SameRequests DEF IssuePair, OrNull
<1>3. ASSUME NEW q \in Request, RefreshGrant(q)
      PROVE  TypeOK'
  <2>0. req[q] \in RequestState /\ Idle \in RequestState
    BY DEF RequestsOK, Idle, RequestState, Phase, OrNull
  <2>1. ASSUME NEW r \in RefreshId, ReadRevoked(q, r)
        PROVE  TypeOK'
    <3> DEFINE ph == IF GraceExpired(r) THEN "late" ELSE "recent"
               row == [Idle EXCEPT !.phase = ph, !.token = r,
                         !.family = refresh[r].family, !.resource = refresh[r].resource]
    <3>1. req' = [req EXCEPT ![q] = row]
      BY <2>1 DEF ReadRevoked
    <3>2. ph \in {"late", "recent"}
      OBVIOUS
    <3> HIDE DEF ph
    <3>3. row \in RequestState /\ row.phase = ph /\ row.token = r
      BY <3>2 DEF Idle, RequestState, Phase, OrNull, RefreshRow
    <3> HIDE DEF row
    <3>4. RequestsOK'
      BY <3>1, <3>2, <3>3, RequestBegins
    <3> QED BY <2>1, <3>4 DEF ReadRevoked
  <2>9. CASE AcceptSuperseded(q)
    BY <2>0, <2>9 DEF AcceptSuperseded, RequestsOK, RequestState, Phase
  <2>2. ASSUME NEW r \in RefreshId, NEW sc \in SUBSET Scope, AcceptLive(q, r, sc)
        PROVE  TypeOK'
    <3> DEFINE row == [Idle EXCEPT !.phase = "save", !.token = r, !.family = refresh[r].family,
                         !.access = refresh[r].access, !.scope = sc, !.resource = refresh[r].resource]
    <3>1. req' = [req EXCEPT ![q] = row]
      BY <2>2 DEF AcceptLive
    <3>2. row \in RequestState /\ row.phase = "save" /\ row.token = r
      BY DEF Idle, RequestState, Phase, OrNull, RefreshRow
    <3> HIDE DEF row
    <3>3. RequestsOK'
      BY <3>1, <3>2, RequestBegins
    <3> QED BY <2>2, <3>3 DEF AcceptLive
  <2>3. ASSUME NEW sc \in SUBSET Scope, LoadScopes(q, sc)
        PROVE  TypeOK'
    BY <2>0, <2>3 DEF LoadScopes, RequestsOK, RequestState, Phase
  <2>4. ASSUME NEW res \in SUBSET Resource, SaveInPlace(q, res)
        PROVE  TypeOK'
    <3> DEFINE a == req[q].access
    <3>1. access' \in [AccessId -> AccessRow]
      <4>1. now + AccessLife \in Nat /\ req[q].scope \in SUBSET Scope
        BY <2>0, SettingAssumption DEF RequestState
      <4>2. a \in AccessId
        BY <2>0, <2>4 DEF SaveInPlace, RequestState, OrNull
      <4>3. [access[a] EXCEPT !.scope = req[q].scope, !.resource = res,
                              !.expires = now + AccessLife] \in AccessRow
        BY <4>1, <4>2 DEF AccessRow
      <4>4. access' = [access EXCEPT ![a] =
              [access[a] EXCEPT !.scope = req[q].scope, !.resource = res,
                                !.expires = now + AccessLife]]
        BY <2>4, <4>2 DEF SaveInPlace
      <4> QED BY <4>2, <4>3, <4>4
    <3>2. Renewed(a) \in [stage : Stage, at : Nat, batch : SUBSET (RefreshId \cup AccessId),
                          renewed : SUBSET AccessId]
      BY <2>0, <2>4 DEF SaveInPlace, Renewed, RequestState, OrNull
    <3>3. cleaner' = Renewed(a) /\ req' = [req EXCEPT ![q] = Idle]
          /\ UNCHANGED <<now, refresh, granted, repudiated>>
      BY <2>4 DEF SaveInPlace
    <3> QED BY <3>1, <3>2, <3>3, IdleRequest
  <2>5. ASSUME NEW res \in SUBSET Resource, NEW r \in RefreshId,
               SaveReissueRefresh(q, r, res)
        PROVE  TypeOK'
    <3> DEFINE old == req[q].token
    <3>1. old \in RefreshId
      BY <2>5 DEF SaveReissueRefresh, Rotating, RequestsOK
    <3>2. refresh' \in [RefreshId -> RefreshRow]
      <4>1. ChildFamily(old, r) \in OrNull(RefreshId)
        BY <3>1 DEF ChildFamily, RefreshRow
      <4>2. PICK p \in AccessId : refresh' = [RefreshAfterRevoke(old) EXCEPT
                                     ![r] = NewRefresh(ChildFamily(old, r), p, res)]
        BY <2>5 DEF SaveReissueRefresh, Successors
      <4> QED BY <3>1, <4>1, <4>2, TableTypes, NewRowTypes
    <3> QED BY <2>5, <3>1, <3>2, TableTypes, IdleRequest DEF SaveReissueRefresh
  <2>6. ASSUME NEW res \in SUBSET Resource, NEW r \in RefreshId, NEW a \in AccessId,
               SaveFreshPair(q, r, a, res)
        PROVE  TypeOK'
    <3> DEFINE old == req[q].token
    <3>1. old \in RefreshId
      BY <2>6 DEF SaveFreshPair, Rotating, RequestsOK
    <3>2. refresh' \in [RefreshId -> RefreshRow] /\ access' \in [AccessId -> AccessRow]
      <4>1. ChildFamily(old, r) \in OrNull(RefreshId) /\ refresh[old].family \in OrNull(RefreshId)
            /\ old \in OrNull(RefreshId) /\ req[q].scope \in SUBSET Scope
        BY <2>0, <3>1 DEF ChildFamily, RefreshRow, OrNull, RequestState
      <4>2. /\ NewRefresh(ChildFamily(old, r), a, res) \in RefreshRow
            /\ NewAccess(refresh[old].family, old, req[q].scope, res) \in AccessRow
        BY <4>1, NewRowTypes
      <4>3. /\ access' = [AccessAfterRevoke(old) EXCEPT ![a] =
                           NewAccess(refresh[old].family, old, req[q].scope, res)]
            /\ refresh' = [RefreshAfterRevoke(old) EXCEPT ![r] =
                           NewRefresh(ChildFamily(old, r), a, res)]
        BY <2>6 DEF SaveFreshPair
      <4> QED BY <3>1, <4>2, <4>3, TableTypes
    <3> QED BY <2>6, <3>2, IdleRequest DEF SaveFreshPair
  <2>7. CASE SaveReturnExisting(q)
    <3>1. req[q].token \in RefreshId
      BY <2>7 DEF SaveReturnExisting, Rotating, RequestsOK
    <3> QED BY <2>7, <3>1, TableTypes, IdleRequest DEF SaveReturnExisting
  <2>8. CASE Fail(q)
    BY <2>8, IdleRequest DEF Fail
  <2> QED BY <1>3, <2>1, <2>2, <2>3, <2>4, <2>5, <2>6, <2>7, <2>8, <2>9 DEF RefreshGrant
<1>4. ASSUME NEW q \in Request, Revocation(q)
      PROVE  TypeOK'
  <2>0. req[q] \in RequestState /\ Idle \in RequestState
    BY DEF RequestsOK, Idle, RequestState, Phase, OrNull
  <2>1. CASE DetectReuse(q)
    <3> DEFINE live == {m \in Members(req[q].family) : Live(m)}
               row == [Idle EXCEPT !.phase = "sweep", !.family = req[q].family,
                                   !.rows = live, !.at = now]
    <3>1. req' = [req EXCEPT ![q] = row]
      BY <2>1 DEF DetectReuse
    <3>2. req[q].family \in OrNull(RefreshId) /\ live \in SUBSET RefreshId
      BY <2>0 DEF RequestState, Members
    <3> HIDE DEF live
    <3>3. row \in RequestState /\ row.phase = "sweep"
      BY <3>2 DEF Idle, RequestState, Phase, OrNull
    <3> HIDE DEF row
    <3>4. RequestsOK'
      BY <3>1, <3>3, RequestBegins
    <3> QED BY <2>1, <3>4 DEF DetectReuse
  <2>2. CASE CommitSweep(q)
    <3>1. refresh' \in [RefreshId -> RefreshRow]
      <4> DEFINE U == Unbound(SweptAccess(q))
      <4>1. U \in [RefreshId -> RefreshRow] /\ req[q].at \in Nat
        BY <2>0, TableTypes DEF RequestState
      <4>2. \A r \in RefreshId : [U[r] EXCEPT !.revoked = req[q].at] \in RefreshRow
        BY <4>1 DEF RefreshRow, OrNull
      <4>3. refresh' = [r \in RefreshId |-> IF r \in req[q].rows
                          THEN [U[r] EXCEPT !.revoked = req[q].at] ELSE U[r]]
        BY <2>2 DEF CommitSweep
      <4> HIDE DEF U
      <4> QED BY <4>1, <4>2, <4>3
    <3> QED BY <2>2, <3>1, TableTypes, IdleRequest DEF CommitSweep
  <2>3. ASSUME NEW a \in AccessId, BeginRevokeAccess(q, a)
        PROVE  TypeOK'
    <3>1. PICK r \in OrNull(RefreshId) :
            req' = [req EXCEPT ![q] = [Idle EXCEPT !.phase = "revoke", !.access = a, !.token = r]]
      BY <2>3 DEF BeginRevokeAccess
    <3> DEFINE row == [Idle EXCEPT !.phase = "revoke", !.access = a, !.token = r]
    <3>2. req' = [req EXCEPT ![q] = row]
      BY <3>1
    <3>3. row \in RequestState /\ row.phase = "revoke" /\ row.access = a
      BY DEF Idle, RequestState, Phase, OrNull
    <3> HIDE DEF row
    <3>4. RequestsOK'
      BY <3>2, <3>3, RequestBegins
    <3> QED BY <2>3, <3>4 DEF BeginRevokeAccess
  <2>4. CASE FinishRevokeAccess(q)
    <3> DEFINE r == req[q].token
    <3>1. CASE r = Null
      <4>1. /\ refresh' = Unbound({req[q].access}) /\ access' = WithoutAccess({req[q].access})
            /\ req' = [req EXCEPT ![q] = Idle] /\ UNCHANGED <<now, granted, repudiated, cleaner>>
        BY <2>4, <3>1 DEF FinishRevokeAccess
      <4> QED BY <4>1, TableTypes, IdleRequest
    <3>2. CASE r # Null
      <4>1. r \in RefreshId
        BY <2>0, <3>2 DEF RequestState, OrNull
      <4>2. /\ refresh' = RefreshAfterRevoke(r) /\ access' = AccessAfterRevoke(r)
            /\ req' = [req EXCEPT ![q] = Idle] /\ UNCHANGED <<now, granted, repudiated, cleaner>>
        BY <2>4, <3>2 DEF FinishRevokeAccess
      <4> QED BY <4>1, <4>2, TableTypes, IdleRequest
    <3> QED BY <3>1, <3>2
  <2> QED BY <1>4, <2>1, <2>2, <2>3, <2>4 DEF Revocation
<1>5. ASSUME NEW r \in RefreshId, RevokeRefresh(r)
      PROVE  TypeOK'
  BY <1>5, TableTypes, SameRequests DEF RevokeRefresh
<1>6. CASE Cleanup
  <2>1. CASE StartCleanup
    BY <2>1, SameRequests DEF StartCleanup, Stage
  <2>2. CASE SelectBatch
    BY <2>2, BatchType, SameRequests DEF SelectBatch, Stage
  <2>3. CASE DeleteBatch
    <3> DEFINE R == cleaner.batch \cap RefreshId
               A == cleaner.batch \cap AccessId
    <3>1. /\ WithoutRefresh(R) \in [RefreshId -> RefreshRow]
          /\ Unbound(A) \in [RefreshId -> RefreshRow]
          /\ Unsourced(R) \in [AccessId -> AccessRow]
          /\ WithoutAccess(A) \in [AccessId -> AccessRow]
      BY TableTypes
    <3>2. CASE DeleteRefreshBatch
      <4>1. refresh' = WithoutRefresh(R) /\ access' = Unsourced(R)
        BY <3>2 DEF DeleteRefreshBatch
      <4>2. UNCHANGED <<now, granted, repudiated, req>>
            /\ cleaner' = [cleaner EXCEPT !.batch = {}, !.renewed = {}]
        BY <3>2 DEF DeleteRefreshBatch
      <4> HIDE DEF R, A
      <4> QED BY <3>1, <4>1, <4>2, SameRequests
    <3>3. CASE DeleteAccessBatch
      <4>1. refresh' = Unbound(A) /\ access' = WithoutAccess(A)
        BY <3>3 DEF DeleteAccessBatch
      <4>2. UNCHANGED <<now, granted, repudiated, req>>
            /\ cleaner' = [cleaner EXCEPT !.batch = {}, !.renewed = {}]
        BY <3>3 DEF DeleteAccessBatch
      <4> HIDE DEF R, A
      <4> QED BY <3>1, <4>1, <4>2, SameRequests
    <3> QED BY <2>3, <3>2, <3>3 DEF DeleteBatch
  <2>4. CASE NextStage
    BY <2>4, SameRequests DEF NextStage, FollowingStage, Resting, Stage
  <2>5. CASE KillCleanup
    BY <2>5, SameRequests DEF KillCleanup, Resting, Stage
  <2> QED BY <1>6, <2>1, <2>2, <2>3, <2>4, <2>5 DEF Cleanup
<1>7. CASE UNCHANGED vars
  BY <1>7, SameRequests DEF vars
<1> QED BY <1>1, <1>2, <1>3, <1>4, <1>5, <1>6, <1>7 DEF Next

\* The tables and the local states keep their shape in every behaviour.
THEOREM TypeCorrect == Spec => []TypeOK
<1>1. Init => TypeOK
  BY InitTypeOK
<1>2. TypeOK /\ [Next]_vars => TypeOK'
  BY NextTypeOK
<1> QED BY <1>1, <1>2, PTL DEF Spec

----------------------------------------------------------------------------
(* The pointers between the two tables.                                    *)

(* Under OneRefreshPerAccess a revocation touches one refresh row and the  *)
(* one access row bound to it.                                             *)
LEMMA RevokeEffect ==
  ASSUME TypeOK, OneRefreshPerAccess, NEW r \in RefreshId
  PROVE  /\ Live(r) =>
              /\ RefreshAfterRevoke(r) = [s \in RefreshId |-> IF s = r
                    THEN [refresh[r] EXCEPT !.access = Null, !.revoked = now] ELSE refresh[s]]
              /\ AccessAfterRevoke(r) = [a \in AccessId |-> IF a = refresh[r].access
                    THEN EmptyAccess("gone") ELSE access[a]]
         /\ ~Live(r) => RefreshAfterRevoke(r) = refresh /\ AccessAfterRevoke(r) = access
<1>1. ASSUME Live(r)
      PROVE  RefreshAfterRevoke(r) = [s \in RefreshId |-> IF s = r
               THEN [refresh[r] EXCEPT !.access = Null, !.revoked = now] ELSE refresh[s]]
  <2> DEFINE U == Unbound({refresh[r].access})
  <2>1. RefreshAfterRevoke(r) = [U EXCEPT ![r] = [U[r] EXCEPT !.access = Null, !.revoked = now]]
    BY <1>1 DEF RefreshAfterRevoke, Unbound
  <2>2. \A s \in RefreshId : s # r => U[s] = refresh[s]
    BY DEF TypeOK, RefreshRow, OrNull, Unbound, OneRefreshPerAccess
  <2>3. [U[r] EXCEPT !.access = Null, !.revoked = now]
          = [refresh[r] EXCEPT !.access = Null, !.revoked = now]
    BY DEF TypeOK, RefreshRow, Unbound
  <2>4. DOMAIN U = RefreshId
    BY DEF Unbound
  <2> HIDE DEF U
  <2> QED BY <2>1, <2>2, <2>3, <2>4
<1>2. ASSUME Live(r)
      PROVE  AccessAfterRevoke(r) = [a \in AccessId |-> IF a = refresh[r].access
                    THEN EmptyAccess("gone") ELSE access[a]]
  BY <1>2 DEF AccessAfterRevoke, WithoutAccess
<1>3. ~Live(r) => RefreshAfterRevoke(r) = refresh /\ AccessAfterRevoke(r) = access
  BY DEF RefreshAfterRevoke, AccessAfterRevoke
<1> QED BY <1>1, <1>2, <1>3

\* A revocation of one unlocked row, with the requests going on or going idle.
LEMMA RevokeKeepsStructure ==
  ASSUME TypeOK, Structure, NEW r \in RefreshId, ~Locked(r),
         refresh' = RefreshAfterRevoke(r), access' = AccessAfterRevoke(r),
         \A q \in Request : req'[q] = req[q] \/ req'[q].phase # "sweep"
  PROVE  Structure'
<1> DEFINE x == refresh[r].access
<1>1. CASE Live(r)
  <2>1. /\ refresh' = [s \in RefreshId |-> IF s = r
               THEN [refresh[r] EXCEPT !.access = Null, !.revoked = now] ELSE refresh[s]]
        /\ access' = [a \in AccessId |-> IF a = x THEN EmptyAccess("gone") ELSE access[a]]
    BY <1>1, RevokeEffect DEF Structure
  <2>2. /\ \A s \in RefreshId : s # r => refresh'[s] = refresh[s]
        /\ refresh'[r].status = refresh[r].status /\ refresh'[r].access = Null
        /\ refresh'[r].family = refresh[r].family /\ refresh'[r].revoked = now /\ now # Null
    <3>1. now # Null
      BY IdAssumption DEF TypeOK
    <3>2. refresh[r] \in RefreshRow
      BY DEF TypeOK
    <3>3. /\ refresh'[r] = [refresh[r] EXCEPT !.access = Null, !.revoked = now]
          /\ \A s \in RefreshId : s # r => refresh'[s] = refresh[s]
      BY <2>1
    <3> QED BY <3>1, <3>2, <3>3 DEF RefreshRow
  <2>3. /\ \A a \in AccessId : a # x => access'[a] = access[a]
        /\ \A a \in AccessId : a = x => access'[a].source = Null /\ access'[a].status = "gone"
    BY <2>1 DEF EmptyAccess
  <2>4. \A s \in RefreshId : refresh[s].access # Null => refresh[s].access \in AccessId
    BY DEF TypeOK, RefreshRow, OrNull
  <2>5. \A a \in AccessId : access[a].source # Null => access[a].source \in RefreshId
    BY DEF TypeOK, AccessRow, OrNull
  <2>6. PointersAreStored'
    BY <2>2, <2>3, <2>4, <2>5
       DEF Structure, PointersAreStored, OneRefreshPerAccess, Stored, StoredAccess
  <2>7. OneRefreshPerAccess'
    BY <2>2 DEF Structure, OneRefreshPerAccess
  <2>8. RevokedIsUnbound'
    BY <2>2 DEF Structure, RevokedIsUnbound, Revoked, Stored
  <2>9. SupersededIsRevoked'
    BY <2>2, <2>3 DEF Structure, SupersededIsRevoked, Superseded, Successors, Revoked, Stored, StoredAccess
  <2>10. OneSuccessor'
    BY <2>3 DEF Structure, OneSuccessor, StoredAccess
  <2>11. LockedRowsAreLive'
    <3> SUFFICES ASSUME NEW q \in Request, req'[q].phase = "sweep", NEW s \in req'[q].rows
                 PROVE  /\ Live(s)' /\ refresh'[s].family = req'[q].family
                        /\ \A p \in Request : req'[p].phase = "sweep" /\ s \in req'[p].rows => p = q
      BY DEF LockedRowsAreLive
    <3>1. req'[q] = req[q]
      OBVIOUS
    <3>2. s \in RefreshId /\ s # r
      BY <3>1 DEF TypeOK, RequestsOK, RequestState, Locked
    <3> QED BY <2>2, <3>1, <3>2 DEF Structure, LockedRowsAreLive, Live, Stored
  <2> QED BY <2>6, <2>7, <2>8, <2>9, <2>10, <2>11 DEF Structure
<1>2. CASE ~Live(r)
  <2>1. refresh' = refresh /\ access' = access
    BY <1>2, RevokeEffect DEF Structure
  <2>2. LockedRowsAreLive'
    BY <2>1 DEF Structure, LockedRowsAreLive, Live, Stored
  <2> QED BY <2>1, <2>2 DEF Structure, PointersAreStored, OneRefreshPerAccess, RevokedIsUnbound,
             SupersededIsRevoked, OneSuccessor, Superseded, Successors, Revoked, Stored, StoredAccess
<1> QED BY <1>1, <1>2

\* Nothing but the requests' local state changes, and no request enters a sweep.
LEMMA LocalStepKeepsStructure ==
  ASSUME TypeOK, Structure, UNCHANGED <<refresh, access>>,
         \A q \in Request : req'[q] = req[q] \/ req'[q].phase # "sweep"
  PROVE  Structure'
<1>1. LockedRowsAreLive'
  BY DEF Structure, LockedRowsAreLive, Live, Stored
<1> QED BY <1>1 DEF Structure, PointersAreStored, OneRefreshPerAccess, RevokedIsUnbound,
           SupersededIsRevoked, OneSuccessor, Superseded, Successors, Revoked, Stored, StoredAccess

\* A pair of fresh keys: r bound to a, and a's source (if any) revoked and without successor.
LEMMA PairStructure ==
  ASSUME TypeOK, Structure, NEW r \in RefreshId, NEW a \in AccessId, NEW s,
         refresh[r].status = "free", access[a].status = "free",
         \A t \in RefreshId : t # r => refresh'[t] = refresh[t],
         refresh'[r].status = "stored", refresh'[r].access = a, refresh'[r].revoked = Null,
         \A b \in AccessId : b # a => access'[b] = access[b],
         access'[a].status = "stored", access'[a].source = s,
         s = Null \/ (s \in RefreshId /\ Revoked(s) /\ Successors(s) = {}),
         \A q \in Request : req'[q] = req[q] \/ req'[q].phase # "sweep"
  PROVE  Structure'
<1>1. /\ \A t \in RefreshId : t # r => refresh'[t] = refresh[t]
      /\ refresh'[r].status = "stored" /\ refresh'[r].access = a /\ refresh'[r].revoked = Null
      /\ \A b \in AccessId : b # a => access'[b] = access[b]
      /\ access'[a].status = "stored" /\ access'[a].source = s
  OBVIOUS
<1>2. /\ \A t \in RefreshId : refresh[t].access # Null => refresh[t].access \in AccessId
      /\ \A b \in AccessId : access[b].source # Null => access[b].source \in RefreshId
  BY DEF TypeOK, RefreshRow, AccessRow, OrNull
<1>3. a # Null /\ r # Null
  BY IdAssumption
<1>4. \A t \in RefreshId : refresh[t].access # a
  BY <1>2, <1>3 DEF Structure, PointersAreStored, StoredAccess
<1>5. \A b \in AccessId : access[b].source # r
  BY <1>2, <1>3 DEF Structure, PointersAreStored, Stored
<1>6. s # r
  BY <1>3 DEF Revoked, Stored
<1>7. PointersAreStored'
  BY <1>1, <1>2, <1>6 DEF Structure, PointersAreStored, Stored, StoredAccess, Revoked
<1>8. OneRefreshPerAccess'
  BY <1>1, <1>4 DEF Structure, OneRefreshPerAccess
<1>9. RevokedIsUnbound'
  BY <1>1 DEF Structure, RevokedIsUnbound, Revoked, Stored
<1>10. SupersededIsRevoked'
  <2> SUFFICES ASSUME NEW t \in RefreshId, NEW b \in AccessId,
                      access'[b].status = "stored", access'[b].source = t
               PROVE  refresh'[t].status = "stored" /\ refresh'[t].revoked # Null
    BY DEF SupersededIsRevoked, Superseded, Successors, Revoked, Stored, StoredAccess
  <2>1. CASE b = a
    BY <1>1, <1>3, <1>6, <2>1, IdAssumption DEF Revoked, Stored
  <2>2. CASE b # a
    <3>1. access[b].status = "stored" /\ access[b].source = t /\ t # Null
      BY <1>1, <2>2, IdAssumption
    <3>2. t # r /\ Stored(t)
      BY <1>5, <3>1 DEF Structure, PointersAreStored
    <3>3. Revoked(t)
      BY <3>1, <3>2 DEF Structure, SupersededIsRevoked, Superseded, Successors, StoredAccess
    <3> QED BY <1>1, <3>2, <3>3 DEF Revoked, Stored
  <2> QED BY <2>1, <2>2
<1>11. OneSuccessor'
  BY <1>1, <1>3 DEF Structure, OneSuccessor, Successors, StoredAccess
<1>12. LockedRowsAreLive'
  <2> SUFFICES ASSUME NEW q \in Request, req'[q].phase = "sweep", NEW t \in req'[q].rows
               PROVE  /\ Live(t)' /\ refresh'[t].family = req'[q].family
                      /\ \A p \in Request : req'[p].phase = "sweep" /\ t \in req'[p].rows => p = q
    BY DEF LockedRowsAreLive
  <2>1. req'[q] = req[q]
    OBVIOUS
  <2>2. t \in RefreshId /\ t # r
    BY <2>1 DEF TypeOK, RequestsOK, RequestState, Structure, LockedRowsAreLive, Live, Stored
  <2> QED BY <1>1, <2>1, <2>2 DEF Structure, LockedRowsAreLive, Live, Stored
<1> QED BY <1>7, <1>8, <1>9, <1>10, <1>11, <1>12 DEF Structure

\* Rotation proper: old is revoked, and its bound access token replaced, in one step.
LEMMA RotationKeepsStructure ==
  ASSUME TypeOK, Structure, NEW old \in RefreshId, Stored(old), ~Locked(old), Successors(old) = {},
         NEW r \in RefreshId, NEW a \in AccessId, NEW f, NEW g, NEW sc, NEW res,
         refresh[r].status = "free", access[a].status = "free",
         refresh' = [RefreshAfterRevoke(old) EXCEPT ![r] = NewRefresh(f, a, res)],
         access' = [AccessAfterRevoke(old) EXCEPT ![a] = NewAccess(g, old, sc, res)],
         \A q \in Request : req'[q] = req[q] \/ req'[q].phase # "sweep"
  PROVE  Structure'
<1> DEFINE x == refresh[old].access
<1>1. CASE Live(old)
  <2>1. /\ RefreshAfterRevoke(old) = [s \in RefreshId |-> IF s = old
               THEN [refresh[old] EXCEPT !.access = Null, !.revoked = now] ELSE refresh[s]]
        /\ AccessAfterRevoke(old) = [b \in AccessId |-> IF b = x THEN EmptyAccess("gone") ELSE access[b]]
    BY <1>1, RevokeEffect DEF Structure
  <2>2. now # Null /\ a # Null /\ r # Null /\ old # Null /\ r # old /\ refresh[old] \in RefreshRow
    BY IdAssumption DEF TypeOK, Stored
  <2>3. /\ \A s \in RefreshId : s # old /\ s # r => refresh'[s] = refresh[s]
        /\ refresh'[old] = [refresh[old] EXCEPT !.access = Null, !.revoked = now]
        /\ refresh'[r] = NewRefresh(f, a, res)
    BY <2>1, <2>2
  <2>4. /\ refresh'[old].status = "stored" /\ refresh'[old].access = Null
        /\ refresh'[old].revoked = now /\ refresh'[old].family = refresh[old].family
        /\ refresh'[r].status = "stored" /\ refresh'[r].access = a /\ refresh'[r].revoked = Null
    <3>1. /\ refresh'[old].status = refresh[old].status /\ refresh'[old].access = Null
          /\ refresh'[old].revoked = now /\ refresh'[old].family = refresh[old].family
      <4>1. refresh'[old] = [refresh[old] EXCEPT !.access = Null, !.revoked = now]
        BY <2>3
      <4>2. refresh[old] \in RefreshRow
        BY <2>2
      <4>3. \A row \in RefreshRow : \A new :
              new = [row EXCEPT !.access = Null, !.revoked = now]
                => /\ new.status = row.status /\ new.access = Null
                   /\ new.revoked = now /\ new.family = row.family
        BY RowUpdate
      <4> QED BY <4>1, <4>2, <4>3
    <3>2. refresh'[r].status = "stored" /\ refresh'[r].access = a /\ refresh'[r].revoked = Null
      BY <2>3 DEF NewRefresh
    <3> QED BY <3>1, <3>2 DEF Stored
  <2>5. a # x
    BY <2>2 DEF Structure, PointersAreStored, StoredAccess
  <2>6. /\ \A b \in AccessId : b # a /\ b # x => access'[b] = access[b]
        /\ access'[a].status = "stored" /\ access'[a].source = old
        /\ \A b \in AccessId : b = x => access'[b].status = "gone" /\ access'[b].source = Null
    BY <2>1, <2>5 DEF NewAccess, EmptyAccess
  <2>7. /\ \A t \in RefreshId : refresh[t].access # Null => refresh[t].access \in AccessId
        /\ \A b \in AccessId : access[b].source # Null => access[b].source \in RefreshId
    BY DEF TypeOK, RefreshRow, AccessRow, OrNull
  <2>8. /\ \A t \in RefreshId : refresh[t].access # a
        /\ \A b \in AccessId : access[b].source # r
    BY <2>2, <2>7 DEF Structure, PointersAreStored, StoredAccess, Stored
  <2>9. PointersAreStored'
    <3>1. ASSUME NEW t \in RefreshId, refresh'[t].access # Null
          PROVE  refresh'[t].status = "stored" /\ access'[refresh'[t].access].status = "stored"
      <4>1. CASE t = r
        BY <2>4, <2>6, <4>1 DEF Stored, StoredAccess
      <4>2. CASE t # r
        BY <2>3, <2>4, <2>6, <2>7, <2>8, <3>1, <4>2
           DEF Structure, PointersAreStored, OneRefreshPerAccess, Stored, StoredAccess
      <4> QED BY <4>1, <4>2
    <3>2. ASSUME NEW b \in AccessId, access'[b].source # Null
          PROVE  access'[b].status = "stored" /\ refresh'[access'[b].source].status = "stored"
      <4>1. CASE b = a
        BY <2>4, <2>6, <4>1 DEF Stored, StoredAccess
      <4>2. CASE b # a
        BY <2>3, <2>4, <2>6, <2>7, <2>8, <3>2, <4>2
           DEF Structure, PointersAreStored, Stored, StoredAccess
      <4> QED BY <4>1, <4>2
    <3> QED BY <3>1, <3>2 DEF PointersAreStored, Stored, StoredAccess
  <2>10. OneRefreshPerAccess'
    BY <2>3, <2>4, <2>8 DEF Structure, OneRefreshPerAccess
  <2>11. RevokedIsUnbound'
    BY <2>3, <2>4 DEF Structure, RevokedIsUnbound, Revoked, Stored
  <2>12. SupersededIsRevoked'
    <3> SUFFICES ASSUME NEW t \in RefreshId, NEW b \in AccessId,
                        access'[b].status = "stored", access'[b].source = t
                 PROVE  refresh'[t].status = "stored" /\ refresh'[t].revoked # Null
      BY DEF SupersededIsRevoked, Superseded, Successors, Revoked, Stored, StoredAccess
    <3>1. CASE b = a
      BY <2>2, <2>4, <2>6, <3>1
    <3>2. CASE b # a
      <4>1. access[b].status = "stored" /\ access[b].source = t /\ t # Null
        BY <2>6, <3>2, IdAssumption
      <4>2. t # r /\ Stored(t)
        BY <2>8, <4>1 DEF Structure, PointersAreStored
      <4>3. Revoked(t)
        BY <4>1, <4>2 DEF Structure, SupersededIsRevoked, Superseded, Successors, StoredAccess
      <4> QED BY <2>2, <2>3, <2>4, <4>2, <4>3 DEF Revoked, Stored
    <3> QED BY <3>1, <3>2
  <2>13. OneSuccessor'
    BY <2>2, <2>6 DEF Structure, OneSuccessor, Successors, StoredAccess
  <2>14. LockedRowsAreLive'
    <3> SUFFICES ASSUME NEW q \in Request, req'[q].phase = "sweep", NEW t \in req'[q].rows
                 PROVE  /\ Live(t)' /\ refresh'[t].family = req'[q].family
                        /\ \A p \in Request : req'[p].phase = "sweep" /\ t \in req'[p].rows => p = q
      BY DEF LockedRowsAreLive
    <3>1. req'[q] = req[q]
      OBVIOUS
    <3>2. t \in RefreshId /\ t # r /\ t # old
      BY <3>1 DEF TypeOK, RequestsOK, RequestState, Structure, LockedRowsAreLive, Live, Stored, Locked
    <3> QED BY <2>3, <3>1, <3>2 DEF Structure, LockedRowsAreLive, Live, Stored
  <2> QED BY <2>9, <2>10, <2>11, <2>12, <2>13, <2>14 DEF Structure
<1>2. CASE ~Live(old)
  <2>1. RefreshAfterRevoke(old) = refresh /\ AccessAfterRevoke(old) = access
    BY <1>2, RevokeEffect DEF Structure
  <2>2. Revoked(old)
    BY <1>2 DEF Live, Revoked
  <2>3. /\ refresh' = [refresh EXCEPT ![r] = NewRefresh(f, a, res)]
        /\ access' = [access EXCEPT ![a] = NewAccess(g, old, sc, res)]
    BY <2>1
  <2>4. old = Null \/ (old \in RefreshId /\ Revoked(old) /\ Successors(old) = {})
    BY <2>2
  <2>5. /\ \A t \in RefreshId : t # r => refresh'[t] = refresh[t]
        /\ refresh'[r].status = "stored" /\ refresh'[r].access = a /\ refresh'[r].revoked = Null
        /\ \A b \in AccessId : b # a => access'[b] = access[b]
        /\ access'[a].status = "stored" /\ access'[a].source = old
    BY <2>3 DEF TypeOK, NewRefresh, NewAccess
  <2> QED BY <2>4, <2>5, PairStructure
<1> QED BY <1>1, <1>2

\* Deleting any set of access rows, with the SET_NULL it entails.
LEMMA DeleteAccessKeepsStructure ==
  ASSUME TypeOK, Structure, NEW A, refresh' = Unbound(A), access' = WithoutAccess(A),
         \A q \in Request : req'[q] = req[q] \/ req'[q].phase # "sweep"
  PROVE  Structure'
<1>1. \A t \in RefreshId :
        /\ refresh'[t].access = IF refresh[t].access \in A THEN Null ELSE refresh[t].access
        /\ refresh'[t].status = refresh[t].status /\ refresh'[t].revoked = refresh[t].revoked
        /\ refresh'[t].family = refresh[t].family
  BY DEF TypeOK, RefreshRow, Unbound
<1>2. \A b \in AccessId : IF b \in A THEN access'[b].status = "gone" /\ access'[b].source = Null
                                    ELSE access'[b] = access[b]
  BY DEF WithoutAccess, EmptyAccess
<1>3. /\ \A t \in RefreshId : refresh[t].access # Null => refresh[t].access \in AccessId
      /\ \A b \in AccessId : access[b].source # Null => access[b].source \in RefreshId
  BY DEF TypeOK, RefreshRow, AccessRow, OrNull
<1>4. PointersAreStored'
  BY <1>1, <1>2, <1>3 DEF Structure, PointersAreStored, Stored, StoredAccess
<1>5. OneRefreshPerAccess'
  BY <1>1 DEF Structure, OneRefreshPerAccess
<1>6. RevokedIsUnbound'
  BY <1>1 DEF Structure, RevokedIsUnbound, Revoked, Stored
<1>7. SupersededIsRevoked'
  BY <1>1, <1>2 DEF Structure, SupersededIsRevoked, Superseded, Successors, Revoked, Stored, StoredAccess
<1>8. OneSuccessor'
  BY <1>2 DEF Structure, OneSuccessor, StoredAccess
<1>9. LockedRowsAreLive'
  <2> SUFFICES ASSUME NEW q \in Request, req'[q].phase = "sweep", NEW t \in req'[q].rows
               PROVE  /\ Live(t)' /\ refresh'[t].family = req'[q].family
                      /\ \A p \in Request : req'[p].phase = "sweep" /\ t \in req'[p].rows => p = q
    BY DEF LockedRowsAreLive
  <2>1. req'[q] = req[q]
    OBVIOUS
  <2>2. t \in RefreshId
    BY <2>1 DEF TypeOK, RequestsOK, RequestState
  <2> QED BY <1>1, <2>1, <2>2 DEF Structure, LockedRowsAreLive, Live, Stored
<1> QED BY <1>4, <1>5, <1>6, <1>7, <1>8, <1>9 DEF Structure

\* Deleting unlocked refresh rows.
LEMMA DeleteRefreshKeepsStructure ==
  ASSUME TypeOK, Structure, NEW R, \A r \in R : ~Locked(r), UNCHANGED req,
         refresh' = WithoutRefresh(R), access' = Unsourced(R)
  PROVE  Structure'
<1>1. \A t \in RefreshId : IF t \in R THEN refresh'[t].status = "gone" /\ refresh'[t].access = Null
                                     ELSE refresh'[t] = refresh[t]
  BY DEF WithoutRefresh, EmptyRefresh
<1>2. \A b \in AccessId :
        /\ access'[b].source = IF access[b].source \in R THEN Null ELSE access[b].source
        /\ access'[b].status = access[b].status
  BY DEF TypeOK, AccessRow, Unsourced
<1>3. /\ \A t \in RefreshId : refresh[t].access # Null => refresh[t].access \in AccessId
      /\ \A b \in AccessId : access[b].source # Null => access[b].source \in RefreshId
  BY DEF TypeOK, RefreshRow, AccessRow, OrNull
<1>4. PointersAreStored'
  BY <1>1, <1>2, <1>3 DEF Structure, PointersAreStored, Stored, StoredAccess
<1>5. OneRefreshPerAccess'
  BY <1>1 DEF Structure, OneRefreshPerAccess
<1>6. RevokedIsUnbound'
  BY <1>1 DEF Structure, RevokedIsUnbound, Revoked, Stored
<1>7. SupersededIsRevoked'
  BY <1>1, <1>2, IdAssumption
     DEF Structure, SupersededIsRevoked, Superseded, Successors, Revoked, Stored, StoredAccess
<1>8. OneSuccessor'
  BY <1>2 DEF Structure, OneSuccessor, StoredAccess
<1>9. LockedRowsAreLive'
  <2> SUFFICES ASSUME NEW q \in Request, req[q].phase = "sweep", NEW t \in req[q].rows
               PROVE  /\ Live(t)' /\ refresh'[t].family = req[q].family
                      /\ \A p \in Request : req[p].phase = "sweep" /\ t \in req[p].rows => p = q
    BY DEF LockedRowsAreLive
  <2>1. t \in RefreshId /\ t \notin R
    BY DEF TypeOK, RequestsOK, RequestState, Locked
  <2> QED BY <1>1, <2>1 DEF Structure, LockedRowsAreLive, Live, Stored
<1> QED BY <1>4, <1>5, <1>6, <1>7, <1>8, <1>9 DEF Structure

LEMMA SweepKeepsStructure ==
  ASSUME TypeOK, Structure, NEW q \in Request, CommitSweep(q)
  PROVE  Structure'
<1> DEFINE A == SweptAccess(q)
           S == req[q].rows
<1>0. S \subseteq RefreshId /\ req[q].at \in Nat /\ req[q].at # Null /\ req[q].phase = "sweep"
  <2>1. req[q].at \in Nat /\ S \subseteq RefreshId
    BY DEF TypeOK, RequestsOK, RequestState
  <2> QED BY <2>1, IdAssumption DEF CommitSweep
<1>1. \A t \in RefreshId :
        /\ refresh'[t].access = IF refresh[t].access \in A THEN Null ELSE refresh[t].access
        /\ refresh'[t].status = refresh[t].status /\ refresh'[t].family = refresh[t].family
        /\ refresh'[t].revoked = IF t \in S THEN req[q].at ELSE refresh[t].revoked
  <2> DEFINE U == Unbound(A)
  <2>1. \A t \in RefreshId :
          /\ U[t] \in RefreshRow
          /\ U[t].access = IF refresh[t].access \in A THEN Null ELSE refresh[t].access
          /\ U[t].status = refresh[t].status /\ U[t].family = refresh[t].family
          /\ U[t].revoked = refresh[t].revoked
    BY DEF TypeOK, RefreshRow, OrNull, Unbound
  <2>2. \A t \in RefreshId : refresh'[t] = IF t \in S THEN [U[t] EXCEPT !.revoked = req[q].at] ELSE U[t]
    BY DEF CommitSweep
  <2> HIDE DEF U, A, S
  <2>3. ASSUME NEW row \in RefreshRow
        PROVE  LET new == [row EXCEPT !.revoked = req[q].at]
               IN  /\ new.access = row.access /\ new.status = row.status
                   /\ new.family = row.family /\ new.revoked = req[q].at
    BY DEF RefreshRow
  <2> TAKE t \in RefreshId
  <2>4. CASE t \in S
    <3>1. refresh'[t] = [U[t] EXCEPT !.revoked = req[q].at]
      BY <2>2, <2>4
    <3> QED BY <2>1, <2>3, <2>4, <3>1
  <2>5. CASE t \notin S
    <3>1. refresh'[t] = U[t]
      BY <2>2, <2>5
    <3> QED BY <2>1, <2>5, <3>1
  <2> QED BY <2>4, <2>5
<1>2. \A b \in AccessId : IF b \in A THEN access'[b].status = "gone" /\ access'[b].source = Null
                                    ELSE access'[b] = access[b]
  BY DEF CommitSweep, WithoutAccess, EmptyAccess
<1>3. /\ \A t \in RefreshId : refresh[t].access # Null => refresh[t].access \in AccessId
      /\ \A b \in AccessId : access[b].source # Null => access[b].source \in RefreshId
  BY DEF TypeOK, RefreshRow, AccessRow, OrNull
<1>4. \A t \in S : t \in Members(req[q].family)
  BY <1>0 DEF Structure, LockedRowsAreLive, Live, Members
<1>5. \A t \in S : refresh[t].access # Null => refresh[t].access \in A
  BY <1>4 DEF SweptAccess
<1>6. \A p \in Request : p # q => req'[p] = req[p]
  BY DEF CommitSweep, TypeOK, RequestsOK
<1>7. req'[q].phase # "sweep"
  BY DEF CommitSweep, TypeOK, RequestsOK, Idle
<1> HIDE DEF A, S
<1>8. PointersAreStored'
  BY <1>1, <1>2, <1>3 DEF Structure, PointersAreStored, Stored, StoredAccess
<1>9. OneRefreshPerAccess'
  BY <1>1 DEF Structure, OneRefreshPerAccess
<1>10. RevokedIsUnbound'
  BY <1>1, <1>5 DEF Structure, RevokedIsUnbound, Revoked, Stored
<1>11. SupersededIsRevoked'
  BY <1>0, <1>1, <1>2
     DEF Structure, SupersededIsRevoked, Superseded, Successors, Revoked, Stored, StoredAccess
<1>12. OneSuccessor'
  BY <1>2 DEF Structure, OneSuccessor, StoredAccess
<1>13. LockedRowsAreLive'
  <2> SUFFICES ASSUME NEW p \in Request, req'[p].phase = "sweep", NEW t \in req'[p].rows
               PROVE  /\ Live(t)' /\ refresh'[t].family = req'[p].family
                      /\ \A o \in Request : req'[o].phase = "sweep" /\ t \in req'[o].rows => o = p
    BY DEF LockedRowsAreLive
  <2>1. p # q /\ req'[p] = req[p]
    BY <1>6, <1>7
  <2>2. t \in RefreshId
    BY <2>1 DEF TypeOK, RequestsOK, RequestState
  <2>3. t \notin S
    BY <1>0, <2>1 DEF Structure, LockedRowsAreLive, S
  <2> QED BY <1>1, <1>6, <1>7, <2>1, <2>2, <2>3 DEF Structure, LockedRowsAreLive, Live, Stored
<1> QED BY <1>8, <1>9, <1>10, <1>11, <1>12, <1>13 DEF Structure

LEMMA InPlaceKeepsStructure ==
  ASSUME TypeOK, Structure, NEW q \in Request, NEW res, SaveInPlace(q, res)
  PROVE  Structure'
<1> DEFINE x == req[q].access
<1>1. /\ refresh' = refresh
      /\ \A b \in AccessId : access'[b].status = access[b].status /\ access'[b].source = access[b].source
  <2>1. \A b \in AccessId : access'[b] = IF b = x
           THEN [access[b] EXCEPT !.scope = req[q].scope, !.resource = res, !.expires = now + AccessLife]
           ELSE access[b]
    BY DEF SaveInPlace, TypeOK
  <2>2. \A b \in AccessId : access[b] \in AccessRow
    BY DEF TypeOK
  <2>3. \A row \in AccessRow : \A new :
          new = [row EXCEPT !.scope = req[q].scope, !.resource = res, !.expires = now + AccessLife]
            => new.status = row.status /\ new.source = row.source
    BY DEF AccessRow
  <2>4. \A b \in AccessId : access'[b].status = access[b].status /\ access'[b].source = access[b].source
    <3> HIDE DEF x
    <3> TAKE b \in AccessId
    <3>1. CASE b = x
      BY <2>1, <2>2, <2>3, <3>1
    <3>2. CASE b # x
      BY <2>1, <3>2
    <3> QED BY <3>1, <3>2
  <2> QED BY <2>4 DEF SaveInPlace
<1>2. \A p \in Request : req'[p] = req[p] \/ req'[p].phase # "sweep"
  BY DEF SaveInPlace, TypeOK, RequestsOK, Idle
<1>3. LockedRowsAreLive'
  BY <1>1, <1>2 DEF Structure, LockedRowsAreLive, Live, Stored
<1>4. \A t \in RefreshId : refresh[t].access # Null => refresh[t].access \in AccessId
  BY DEF TypeOK, RefreshRow, OrNull
<1>5. PointersAreStored'
  BY <1>1, <1>4 DEF Structure, PointersAreStored, Stored, StoredAccess
<1> QED BY <1>1, <1>3, <1>5 DEF Structure, OneRefreshPerAccess, RevokedIsUnbound,
           SupersededIsRevoked, OneSuccessor, Superseded, Successors, Revoked, Stored, StoredAccess

(* A superseded token is revoked, so re-issuing for its successor only     *)
(* inserts a row.                                                          *)
LEMMA ReissueKeepsStructure ==
  ASSUME TypeOK, Structure, NEW q \in Request, NEW r \in RefreshId, NEW res,
         SaveReissueRefresh(q, r, res)
  PROVE  Structure'
<1> DEFINE old == req[q].token
<1>1. old \in RefreshId /\ Stored(old)
  BY DEF SaveReissueRefresh, Rotating, TypeOK, RequestsOK
<1>2. PICK p \in Successors(old) :
        /\ BoundTo(p) = {}
        /\ refresh' = [RefreshAfterRevoke(old) EXCEPT ![r] = NewRefresh(ChildFamily(old, r), p, res)]
  BY DEF SaveReissueRefresh
<1>3. Revoked(old) /\ ~Live(old)
  BY <1>1, <1>2 DEF Structure, SupersededIsRevoked, Superseded, Revoked, Live
<1>4. RefreshAfterRevoke(old) = refresh /\ access' = access
  BY <1>1, <1>3, RevokeEffect DEF Structure, SaveReissueRefresh
<1>5. p \in AccessId /\ p # Null /\ access[p].status = "stored"
  BY <1>2, IdAssumption DEF Successors, StoredAccess
<1>6. /\ \A t \in RefreshId : t # r => refresh'[t] = refresh[t]
      /\ refresh'[r].status = "stored" /\ refresh'[r].access = p /\ refresh'[r].revoked = Null
  BY <1>2, <1>4 DEF NewRefresh, TypeOK
<1>7. refresh[r].status = "free"
  BY DEF SaveReissueRefresh
<1>8. \A t \in RefreshId : refresh[t].access # p
  BY <1>2, <1>5 DEF BoundTo, Structure, PointersAreStored
<1>9. \A t \in RefreshId : refresh[t].access # Null => refresh[t].access \in AccessId
  BY DEF TypeOK, RefreshRow, OrNull
<1>10. \A b \in AccessId : access[b].source # Null => access[b].source # r
  BY <1>7 DEF Structure, PointersAreStored, Stored
<1>11. \A b \in AccessId : access[b].source # Null => access[b].source \in RefreshId
  BY DEF TypeOK, AccessRow, OrNull
<1>12. PointersAreStored'
  BY <1>4, <1>5, <1>6, <1>9, <1>10, <1>11 DEF Structure, PointersAreStored, Stored, StoredAccess
<1>13. OneRefreshPerAccess'
  BY <1>6, <1>8 DEF Structure, OneRefreshPerAccess
<1>14. RevokedIsUnbound'
  BY <1>6 DEF Structure, RevokedIsUnbound, Revoked, Stored
<1>15. SupersededIsRevoked'
  BY <1>4, <1>6, <1>10, IdAssumption
     DEF Structure, SupersededIsRevoked, Superseded, Successors, Revoked, Stored, StoredAccess
<1>16. OneSuccessor'
  BY <1>4 DEF Structure, OneSuccessor, StoredAccess
<1>17. LockedRowsAreLive'
  <2> SUFFICES ASSUME NEW o \in Request, req'[o].phase = "sweep", NEW t \in req'[o].rows
               PROVE  /\ Live(t)' /\ refresh'[t].family = req'[o].family
                      /\ \A n \in Request : req'[n].phase = "sweep" /\ t \in req'[n].rows => n = o
    BY DEF LockedRowsAreLive
  <2>1. \A n \in Request : req'[n] = req[n] \/ req'[n].phase # "sweep"
    BY DEF SaveReissueRefresh, TypeOK, RequestsOK, Idle
  <2>2. t \in RefreshId /\ t # r
    BY <1>7, <2>1 DEF TypeOK, RequestsOK, RequestState, Structure, LockedRowsAreLive, Live, Stored
  <2> QED BY <1>6, <2>1, <2>2 DEF Structure, LockedRowsAreLive, Live, Stored
<1> QED BY <1>12, <1>13, <1>14, <1>15, <1>16, <1>17 DEF Structure

LEMMA DetectKeepsStructure ==
  ASSUME TypeOK, Structure, NEW q \in Request, DetectReuse(q)
  PROVE  Structure'
<1>1. refresh' = refresh /\ access' = access
  BY DEF DetectReuse
<1>2. /\ \A p \in Request : p # q => req'[p] = req[p]
      /\ req'[q].rows = {m \in Members(req[q].family) : Live(m)}
      /\ req'[q].family = req[q].family
  BY DEF DetectReuse, Idle, TypeOK, RequestsOK
<1>3. \A m \in RefreshId : m \in req'[q].rows => Live(m) /\ ~Locked(m) /\ refresh[m].family = req[q].family
  BY <1>2 DEF DetectReuse, Members
<1>4. req'[q].rows \subseteq RefreshId
  BY <1>2 DEF Members
<1>5. LockedRowsAreLive'
  <2> SUFFICES ASSUME NEW p \in Request, req'[p].phase = "sweep", NEW t \in req'[p].rows
               PROVE  /\ Live(t)' /\ refresh'[t].family = req'[p].family
                      /\ \A o \in Request : req'[o].phase = "sweep" /\ t \in req'[o].rows => o = p
    BY DEF LockedRowsAreLive
  <2>1. CASE p = q
    BY <1>1, <1>2, <1>3, <1>4, <2>1 DEF Locked, Live, Stored
  <2>2. CASE p # q
    <3>1. /\ Live(t) /\ refresh[t].family = req[p].family /\ Locked(t)
          /\ \A o \in Request : req[o].phase = "sweep" /\ t \in req[o].rows => o = p
      BY <1>2, <2>2 DEF Structure, LockedRowsAreLive, Locked
    <3>2. t \notin req'[q].rows
      BY <1>3, <1>4, <3>1
    <3> QED BY <1>1, <1>2, <2>2, <3>1, <3>2 DEF Live, Stored
  <2> QED BY <2>1, <2>2
<1> QED BY <1>1, <1>5 DEF Structure, PointersAreStored, OneRefreshPerAccess, RevokedIsUnbound,
           SupersededIsRevoked, OneSuccessor, Superseded, Successors, Revoked, Stored, StoredAccess

LEMMA InitStructure == Init => Structure
BY DEF Init, EmptyRefresh, EmptyAccess, Idle, Structure, PointersAreStored, OneRefreshPerAccess,
       RevokedIsUnbound, SupersededIsRevoked, OneSuccessor, LockedRowsAreLive,
       Superseded, Successors, Revoked, Stored, StoredAccess

LEMMA NextStructure == TypeOK /\ Structure /\ [Next]_vars => Structure'
<1> SUFFICES ASSUME TypeOK, Structure, [Next]_vars PROVE Structure'
  OBVIOUS
<1>0. \A q \in Request : req' = [req EXCEPT ![q] = Idle]
        => \A p \in Request : req'[p] = req[p] \/ req'[p].phase # "sweep"
  BY DEF TypeOK, RequestsOK, Idle
<1>1. CASE Tick
  BY <1>1, LocalStepKeepsStructure DEF Tick
<1>2. ASSUME NEW r \in RefreshId, NEW a \in AccessId, NEW sc \in SUBSET Scope,
             NEW res \in SUBSET Resource, IssuePair(r, a, sc, res)
      PROVE  Structure'
  <2>1. /\ refresh[r].status = "free" /\ access[a].status = "free" /\ req' = req
        /\ \A t \in RefreshId : t # r => refresh'[t] = refresh[t]
        /\ refresh'[r].status = "stored" /\ refresh'[r].access = a /\ refresh'[r].revoked = Null
        /\ \A b \in AccessId : b # a => access'[b] = access[b]
        /\ access'[a].status = "stored" /\ access'[a].source = Null
    BY <1>2 DEF IssuePair, NewRefresh, NewAccess, TypeOK
  <2> QED BY <2>1, PairStructure
<1>3. ASSUME NEW q \in Request, RefreshGrant(q)
      PROVE  Structure'
  <2>1. ASSUME NEW r \in RefreshId, ReadRevoked(q, r)
        PROVE  Structure'
    <3>1. \A p \in Request : req'[p] = req[p] \/ req'[p].phase # "sweep"
      BY <2>1 DEF ReadRevoked, TypeOK, RequestsOK, Idle
    <3> QED BY <2>1, <3>1, LocalStepKeepsStructure DEF ReadRevoked
  <2>9. CASE AcceptSuperseded(q)
    <3>1. \A p \in Request : req'[p] = req[p] \/ req'[p].phase # "sweep"
      BY <2>9 DEF AcceptSuperseded, TypeOK, RequestsOK, RequestState
    <3> QED BY <2>9, <3>1, LocalStepKeepsStructure DEF AcceptSuperseded
  <2>2. ASSUME NEW r \in RefreshId, NEW sc \in SUBSET Scope, AcceptLive(q, r, sc)
        PROVE  Structure'
    <3>1. \A p \in Request : req'[p] = req[p] \/ req'[p].phase # "sweep"
      BY <2>2 DEF AcceptLive, TypeOK, RequestsOK, Idle
    <3> QED BY <2>2, <3>1, LocalStepKeepsStructure DEF AcceptLive
  <2>3. ASSUME NEW sc \in SUBSET Scope, LoadScopes(q, sc)
        PROVE  Structure'
    <3>1. \A p \in Request : req'[p] = req[p] \/ req'[p].phase # "sweep"
      BY <2>3 DEF LoadScopes, TypeOK, RequestsOK, RequestState
    <3> QED BY <2>3, <3>1, LocalStepKeepsStructure DEF LoadScopes
  <2>4. ASSUME NEW res \in SUBSET Resource, SaveInPlace(q, res)
        PROVE  Structure'
    BY <2>4, InPlaceKeepsStructure
  <2>5. ASSUME NEW res \in SUBSET Resource, NEW r \in RefreshId, SaveReissueRefresh(q, r, res)
        PROVE  Structure'
    BY <2>5, ReissueKeepsStructure
  <2>6. ASSUME NEW res \in SUBSET Resource, NEW r \in RefreshId, NEW a \in AccessId,
               SaveFreshPair(q, r, a, res)
        PROVE  Structure'
    <3> DEFINE old == req[q].token
               f == ChildFamily(old, r)
               g == refresh[old].family
               sc == req[q].scope
    <3>1. /\ old \in RefreshId /\ Stored(old) /\ ~Locked(old) /\ Successors(old) = {}
          /\ refresh[r].status = "free" /\ access[a].status = "free"
          /\ refresh' = [RefreshAfterRevoke(old) EXCEPT ![r] = NewRefresh(f, a, res)]
          /\ access' = [AccessAfterRevoke(old) EXCEPT ![a] = NewAccess(g, old, sc, res)]
          /\ \A p \in Request : req'[p] = req[p] \/ req'[p].phase # "sweep"
      BY <1>0, <2>6 DEF SaveFreshPair, Rotating, TypeOK, RequestsOK
    <3> HIDE DEF old, f, g, sc
    <3> QED BY <3>1, RotationKeepsStructure
  <2>7. CASE SaveReturnExisting(q)
    <3>1. req[q].token \in RefreshId /\ ~Locked(req[q].token)
      BY <2>7 DEF SaveReturnExisting, Rotating, TypeOK, RequestsOK
    <3> QED BY <1>0, <2>7, <3>1, RevokeKeepsStructure DEF SaveReturnExisting
  <2>8. CASE Fail(q)
    BY <1>0, <2>8, LocalStepKeepsStructure DEF Fail
  <2> QED BY <1>3, <2>1, <2>2, <2>3, <2>4, <2>5, <2>6, <2>7, <2>8, <2>9 DEF RefreshGrant
<1>4. ASSUME NEW q \in Request, Revocation(q)
      PROVE  Structure'
  <2>1. CASE DetectReuse(q)
    BY <2>1, DetectKeepsStructure
  <2>2. CASE CommitSweep(q)
    BY <2>2, SweepKeepsStructure
  <2>3. ASSUME NEW a \in AccessId, BeginRevokeAccess(q, a)
        PROVE  Structure'
    <3>1. \A p \in Request : req'[p] = req[p] \/ req'[p].phase # "sweep"
      BY <2>3 DEF BeginRevokeAccess, TypeOK, RequestsOK, Idle
    <3> QED BY <2>3, <3>1, LocalStepKeepsStructure DEF BeginRevokeAccess
  <2>4. CASE FinishRevokeAccess(q)
    <3>1. CASE req[q].token = Null
      BY <1>0, <2>4, <3>1, DeleteAccessKeepsStructure DEF FinishRevokeAccess
    <3>2. CASE req[q].token # Null
      <4>1. req[q].token \in RefreshId
        BY <3>2 DEF TypeOK, RequestsOK, RequestState, OrNull
      <4> QED BY <1>0, <2>4, <3>2, <4>1, RevokeKeepsStructure DEF FinishRevokeAccess
    <3> QED BY <3>1, <3>2
  <2> QED BY <1>4, <2>1, <2>2, <2>3, <2>4 DEF Revocation
<1>5. ASSUME NEW r \in RefreshId, RevokeRefresh(r)
      PROVE  Structure'
  BY <1>5, RevokeKeepsStructure DEF RevokeRefresh
<1>6. CASE Cleanup
  <2>1. CASE DeleteRefreshBatch
    BY <2>1, DeleteRefreshKeepsStructure DEF DeleteRefreshBatch
  <2>2. CASE DeleteAccessBatch
    BY <2>2, DeleteAccessKeepsStructure DEF DeleteAccessBatch
  <2>3. CASE StartCleanup \/ SelectBatch \/ NextStage \/ KillCleanup
    BY <2>3, LocalStepKeepsStructure DEF StartCleanup, SelectBatch, NextStage, KillCleanup
  <2> QED BY <1>6, <2>1, <2>2, <2>3 DEF Cleanup, DeleteBatch
<1>7. CASE UNCHANGED vars
  BY <1>7, LocalStepKeepsStructure DEF vars
<1> QED BY <1>1, <1>2, <1>3, <1>4, <1>5, <1>6, <1>7 DEF Next

\* Rotation, retries, revocations, family sweeps and cleanups, interleaved in any way, keep
\* the pointers between refresh and access tokens sound: they lead to stored rows, no two
\* refresh tokens share an access token, and a revoked one holds none.
THEOREM PointersSound == Spec => []Structure
<1>1. Init => TypeOK /\ Structure
  BY InitTypeOK, InitStructure
<1>2. TypeOK /\ Structure /\ [Next]_vars => TypeOK' /\ Structure'
  BY NextTypeOK, NextStructure
<1> QED BY <1>1, <1>2, PTL DEF Spec

\* One refresh token never leads two lives: a token with a successor is revoked, and it
\* never has two successors, however many requests present it at once.
THEOREM RotationSound == Spec => [](SupersededIsRevoked /\ OneSuccessor)
<1>1. Init => TypeOK /\ Structure
  BY InitTypeOK, InitStructure
<1>2. TypeOK /\ Structure /\ [Next]_vars => TypeOK' /\ Structure'
  BY NextTypeOK, NextStructure
<1>3. Structure => SupersededIsRevoked /\ OneSuccessor
  BY DEF Structure
<1> QED BY <1>1, <1>2, <1>3, PTL DEF Spec

----------------------------------------------------------------------------
(* Families and what they were granted.                                    *)

LEMMA NarrowedAudience ==
  ASSUME NEW held \in SUBSET Resource, NEW res \in NarrowedResource(held)
  PROVE  res \subseteq Resource /\ Audience(res) \subseteq Audience(held)
BY DEF NarrowedResource, Audience

\* A row that stays, loses pointers, or goes.
RefreshShrinks(t) ==
  \/ refresh'[t].status = "gone" /\ refresh'[t].access = Null
  \/ /\ refresh'[t].status = refresh[t].status /\ refresh'[t].family = refresh[t].family
     /\ refresh'[t].resource = refresh[t].resource
     /\ refresh'[t].access \in {Null, refresh[t].access}
AccessShrinks(b) ==
  \/ access'[b].status = "gone" /\ access'[b].source = Null
  \/ /\ access'[b].status = access[b].status /\ access'[b].family = access[b].family
     /\ access'[b].source \in {Null, access[b].source}
     /\ access'[b].scope = access[b].scope /\ access'[b].resource = access[b].resource
RefreshAppears(t) ==
  /\ refresh[t].status = "free" /\ refresh'[t].status = "stored"
  /\ Within({}, refresh[t].resource, refresh[t].family)'
  /\ access'[refresh'[t].access].family = refresh'[t].family
AccessAppears(b) ==
  /\ access[b].status = "free" /\ access'[b].status = "stored"
  /\ Within(access[b].scope, access[b].resource, access[b].family)'
  /\ access'[b].source # Null => refresh'[access'[b].source].family = access'[b].family
AccessRewritten(b) ==
  /\ access'[b].status = access[b].status /\ access'[b].family = access[b].family
  /\ access'[b].source = access[b].source
  /\ Within(access[b].scope, access[b].resource, access[b].family)'

\* Every step moves the rows in one of these ways; then the families stay within their grant.
LEMMA RowStepsKeepAuthority ==
  ASSUME TypeOK, TypeOK', Structure, Structure', Authority,
         \A t \in RefreshId : RefreshShrinks(t) \/ RefreshAppears(t),
         \A b \in AccessId : AccessShrinks(b) \/ AccessAppears(b) \/ AccessRewritten(b),
         \A f \in RefreshId : granted[f] # Null => granted'[f] = granted[f],
         \A f \in RefreshId : refresh'[f].status = "free" => granted'[f] = Null,
         \A q \in Request : \/ req'[q] = req[q]
                           \/ req'[q].phase \notin {"recent", "late", "scopes", "save"}
                           \/ RequestWithin(q)'
  PROVE  Authority'
<1>1. /\ \A t \in RefreshId : /\ refresh[t].access # Null => refresh[t].access \in AccessId
                              /\ refresh[t].family # Null => refresh[t].family \in RefreshId
                              /\ refresh'[t].access # Null => refresh'[t].access \in AccessId
      /\ \A b \in AccessId : /\ access[b].source # Null => access[b].source \in RefreshId
                             /\ access[b].family # Null => access[b].family \in RefreshId
                             /\ access'[b].source # Null => access'[b].source \in RefreshId
  BY DEF TypeOK, RefreshRow, AccessRow, OrNull
<1>3. LineageStaysInFamily'
  <2>1. ASSUME NEW t \in RefreshId, refresh'[t].access # Null
        PROVE  access'[refresh'[t].access].family = refresh'[t].family
    <3>1. CASE RefreshAppears(t)
      BY <3>1 DEF RefreshAppears
    <3>2. CASE RefreshShrinks(t)
      <4> DEFINE b == refresh[t].access
      <4>1. refresh'[t].access = b /\ refresh'[t].family = refresh[t].family
        BY <2>1, <3>2 DEF RefreshShrinks
      <4>2. b \in AccessId /\ access[b].status = "stored" /\ access'[b].status = "stored"
        BY <1>1, <2>1, <4>1 DEF Structure, PointersAreStored, StoredAccess
      <4>3. access'[b].family = access[b].family
        BY <4>2 DEF AccessShrinks, AccessAppears, AccessRewritten
      <4> QED BY <2>1, <4>1, <4>2, <4>3 DEF Authority, LineageStaysInFamily
    <3> QED BY <3>1, <3>2
  <2>2. ASSUME NEW b \in AccessId, access'[b].source # Null
        PROVE  refresh'[access'[b].source].family = access'[b].family
    <3>1. CASE AccessAppears(b)
      BY <2>2, <3>1 DEF AccessAppears
    <3>2. CASE AccessShrinks(b) \/ AccessRewritten(b)
      <4> DEFINE t == access[b].source
      <4>1. access'[b].source = t /\ access'[b].family = access[b].family
        BY <2>2, <3>2 DEF AccessShrinks, AccessRewritten
      <4>2. t \in RefreshId /\ refresh[t].status = "stored" /\ refresh'[t].status = "stored"
        BY <1>1, <2>2, <4>1 DEF Structure, PointersAreStored, Stored
      <4>3. refresh'[t].family = refresh[t].family
        BY <4>2 DEF RefreshShrinks, RefreshAppears
      <4> QED BY <2>2, <4>1, <4>2, <4>3 DEF Authority, LineageStaysInFamily
    <3> QED BY <3>1, <3>2
  <2> QED BY <2>1, <2>2 DEF LineageStaysInFamily
<1>4. AuthorityWithinGrant'
  <2>1. ASSUME NEW b \in AccessId, access'[b].status = "stored"
        PROVE  Within(access[b].scope, access[b].resource, access[b].family)'
    <3>1. CASE AccessAppears(b) \/ AccessRewritten(b)
      BY <3>1 DEF AccessAppears, AccessRewritten
    <3>2. CASE AccessShrinks(b)
      <4>1. /\ access[b].status = "stored" /\ access'[b].family = access[b].family
            /\ access'[b].scope = access[b].scope /\ access'[b].resource = access[b].resource
        BY <2>1, <3>2 DEF AccessShrinks
      <4>2. Within(access[b].scope, access[b].resource, access[b].family)
        BY <4>1 DEF Authority, AuthorityWithinGrant, StoredAccess
      <4>3. access[b].family \in RefreshId
        BY <1>1, <4>2 DEF Within
      <4>4. granted'[access[b].family] = granted[access[b].family]
        BY <4>2, <4>3 DEF Within
      <4> QED BY <4>1, <4>2, <4>4 DEF Within, Audience
    <3> QED BY <3>1, <3>2
  <2>2. ASSUME NEW t \in RefreshId, refresh'[t].status = "stored"
        PROVE  Within({}, refresh[t].resource, refresh[t].family)'
    <3>1. CASE RefreshAppears(t)
      BY <3>1 DEF RefreshAppears
    <3>2. CASE RefreshShrinks(t)
      <4>1. /\ refresh[t].status = "stored" /\ refresh'[t].family = refresh[t].family
            /\ refresh'[t].resource = refresh[t].resource
        BY <2>2, <3>2 DEF RefreshShrinks
      <4>2. Within({}, refresh[t].resource, refresh[t].family)
        BY <4>1 DEF Authority, AuthorityWithinGrant, Stored
      <4>3. refresh[t].family \in RefreshId
        BY <1>1, <4>2 DEF Within
      <4>4. granted'[refresh[t].family] = granted[refresh[t].family]
        BY <4>2, <4>3 DEF Within
      <4> QED BY <4>1, <4>2, <4>4 DEF Within, Audience
    <3> QED BY <3>1, <3>2
  <2> QED BY <2>1, <2>2 DEF AuthorityWithinGrant, Stored, StoredAccess
<1>5. FreeNamesNoFamily'
  BY DEF FreeNamesNoFamily
<1>6. RequestsWithinGrant'
  <2> SUFFICES ASSUME NEW q \in Request, req'[q].phase \in {"recent", "late", "scopes", "save"}
               PROVE  RequestWithin(q)'
    BY DEF RequestsWithinGrant
  <2>1. CASE RequestWithin(q)'
    BY <2>1
  <2>2. CASE req'[q] = req[q]
    <3> DEFINE t == req[q].token
               b == req[q].access
               f == req[q].family
    <3>1. RequestWithin(q)
      BY <2>2 DEF Authority, RequestsWithinGrant
    <3>2. t \in RefreshId /\ (b # Null => b \in AccessId) /\ f \in RefreshId
      BY <2>2, <3>1 DEF TypeOK, RequestsOK, RequestState, OrNull, RequestWithin, Within
    <3>3. granted'[f] = granted[f]
      BY <3>1, <3>2 DEF RequestWithin, Within
    <3>4. /\ refresh'[t].status # "free"
          /\ refresh'[t].status = "stored" => refresh'[t].family = f
      BY <3>1, <3>2 DEF RefreshShrinks, RefreshAppears, RequestWithin, Stored
    <3>5. b # Null => /\ access'[b].status # "free"
                      /\ access'[b].status = "stored" => access'[b].family = f
      BY <3>1, <3>2 DEF AccessShrinks, AccessAppears, AccessRewritten, RequestWithin, StoredAccess
    <3>6. Within(req[q].scope, req[q].resource, f)'
      BY <2>2, <3>1, <3>3 DEF RequestWithin, Within, Audience
    <3> QED BY <2>2, <3>4, <3>5, <3>6 DEF RequestWithin, Stored, StoredAccess
  <2> QED BY <2>1, <2>2
<1> QED BY <1>3, <1>4, <1>5, <1>6 DEF Authority

(* The table operators shrink rows.                                        *)
LEMMA DeletionsShrink ==
  ASSUME TypeOK
  PROVE  /\ \A A : refresh' = Unbound(A) => \A t \in RefreshId : RefreshShrinks(t)
         /\ \A A : access' = WithoutAccess(A) => \A b \in AccessId : AccessShrinks(b)
         /\ \A R : refresh' = WithoutRefresh(R) => \A t \in RefreshId : RefreshShrinks(t)
         /\ \A R : access' = Unsourced(R) => \A b \in AccessId : AccessShrinks(b)
<1>1. \A A : refresh' = Unbound(A) => \A t \in RefreshId : RefreshShrinks(t)
  BY DEF TypeOK, RefreshRow, Unbound, RefreshShrinks
<1>2. \A A : access' = WithoutAccess(A) => \A b \in AccessId : AccessShrinks(b)
  BY DEF WithoutAccess, EmptyAccess, AccessShrinks
<1>3. \A R : refresh' = WithoutRefresh(R) => \A t \in RefreshId : RefreshShrinks(t)
  BY DEF WithoutRefresh, EmptyRefresh, RefreshShrinks
<1>4. \A R : access' = Unsourced(R) => \A b \in AccessId : AccessShrinks(b)
  BY DEF TypeOK, AccessRow, Unsourced, AccessShrinks
<1> QED BY <1>1, <1>2, <1>3, <1>4

LEMMA SameRowsShrink ==
  /\ UNCHANGED refresh => \A t \in RefreshId : RefreshShrinks(t)
  /\ UNCHANGED access => \A b \in AccessId : AccessShrinks(b)
BY DEF RefreshShrinks, AccessShrinks

\* Everywhere but at the key a rotation inserts, revoking a row shrinks the tables.
LEMMA RevokeShrinks ==
  ASSUME TypeOK, Structure, NEW old \in RefreshId
  PROVE  /\ \A t \in RefreshId : refresh'[t] = RefreshAfterRevoke(old)[t] => RefreshShrinks(t)
         /\ \A b \in AccessId : access'[b] = AccessAfterRevoke(old)[b] => AccessShrinks(b)
<1>1. CASE Live(old)
  <2> DEFINE new == [refresh[old] EXCEPT !.access = Null, !.revoked = now]
  <2>1. /\ RefreshAfterRevoke(old) = [s \in RefreshId |-> IF s = old THEN new ELSE refresh[s]]
        /\ AccessAfterRevoke(old) = [a \in AccessId |-> IF a = refresh[old].access
                    THEN EmptyAccess("gone") ELSE access[a]]
    BY <1>1, RevokeEffect DEF Structure
  <2>2. /\ new.status = refresh[old].status /\ new.family = refresh[old].family
        /\ new.resource = refresh[old].resource /\ new.access = Null
    BY RowUpdate DEF TypeOK
  <2> HIDE DEF new
  <2> QED BY <2>1, <2>2 DEF RefreshShrinks, AccessShrinks, EmptyAccess
<1>2. CASE ~Live(old)
  BY <1>2, RevokeEffect DEF Structure, RefreshShrinks, AccessShrinks
<1> QED BY <1>1, <1>2

LEMMA SweepShrinks ==
  ASSUME TypeOK, NEW q \in Request, CommitSweep(q)
  PROVE  \A t \in RefreshId : RefreshShrinks(t)
<1> DEFINE U == Unbound(SweptAccess(q))
<1>1. \A t \in RefreshId :
        /\ U[t] \in RefreshRow
        /\ U[t].access \in {Null, refresh[t].access} /\ U[t].status = refresh[t].status
        /\ U[t].family = refresh[t].family /\ U[t].resource = refresh[t].resource
  BY DEF TypeOK, RefreshRow, OrNull, Unbound
<1>2. \A t \in RefreshId :
        refresh'[t] = IF t \in req[q].rows THEN [U[t] EXCEPT !.revoked = req[q].at] ELSE U[t]
  BY DEF CommitSweep
<1> HIDE DEF U
<1> QED BY <1>1, <1>2 DEF RefreshRow, RefreshShrinks

LEMMA InitAuthority == Init => Authority
BY DEF Init, EmptyRefresh, EmptyAccess, Idle, Authority, LineageStaysInFamily, AuthorityWithinGrant,
       FreeNamesNoFamily, RequestsWithinGrant, Stored, StoredAccess

\* No key that is not free becomes free, so while the history stands, free keys name no family.
LEMMA KeysStayUsed ==
  ASSUME TypeOK, Authority, UNCHANGED granted,
         \A t \in RefreshId : RefreshShrinks(t) \/ RefreshAppears(t)
  PROVE  /\ \A f \in RefreshId : granted[f] # Null => granted'[f] = granted[f]
         /\ \A f \in RefreshId : refresh'[f].status = "free" => granted'[f] = Null
BY DEF RefreshShrinks, RefreshAppears, Authority, FreeNamesNoFamily

\* A step that inserts nothing and validates no request.
LEMMA ShrinkKeepsAuthority ==
  ASSUME TypeOK, TypeOK', Structure, Structure', Authority, UNCHANGED granted,
         \A t \in RefreshId : RefreshShrinks(t), \A b \in AccessId : AccessShrinks(b),
         \A q \in Request : req'[q] = req[q] \/ req'[q].phase \notin {"recent", "late", "scopes", "save"}
  PROVE  Authority'
BY KeysStayUsed, RowStepsKeepAuthority

\* Validation leaves the tables alone and puts one request within its family's grant.
LEMMA ValidationKeepsAuthority ==
  ASSUME TypeOK, TypeOK', Structure, Structure', Authority,
         UNCHANGED refresh, UNCHANGED access, UNCHANGED granted,
         NEW q \in Request, \A p \in Request : p # q => req'[p] = req[p],
         RequestWithin(q)'
  PROVE  Authority'
<1>1. /\ \A t \in RefreshId : RefreshShrinks(t)
      /\ \A b \in AccessId : AccessShrinks(b)
  BY SameRowsShrink
<1> QED BY <1>1, KeysStayUsed, RowStepsKeepAuthority

LEMMA AcceptKeepsAuthority ==
  ASSUME TypeOK, TypeOK', Structure, Structure', Authority,
         NEW q \in Request, NEW r \in RefreshId,
         ReadRevoked(q, r) \/ \E sc \in SUBSET Scope : AcceptLive(q, r, sc)
  PROVE  Authority'
<1>1. /\ UNCHANGED refresh /\ UNCHANGED access /\ UNCHANGED granted
      /\ \A p \in Request : p # q => req'[p] = req[p]
      /\ Stored(r)
      /\ req'[q].token = r /\ req'[q].family = refresh[r].family
      /\ req'[q].resource = refresh[r].resource
  <2>1. CASE ReadRevoked(q, r)
    BY <2>1 DEF ReadRevoked, Revoked, Idle, TypeOK, RequestsOK
  <2>2. ASSUME NEW sc \in SUBSET Scope, AcceptLive(q, r, sc)
        PROVE  /\ UNCHANGED refresh /\ UNCHANGED access /\ UNCHANGED granted
               /\ \A p \in Request : p # q => req'[p] = req[p]
               /\ Stored(r)
               /\ req'[q].token = r /\ req'[q].family = refresh[r].family
               /\ req'[q].resource = refresh[r].resource
    BY <2>2 DEF AcceptLive, Usable, Live, Idle, TypeOK, RequestsOK
  <2> QED BY <2>1, <2>2
<1>2. Within({}, refresh[r].resource, refresh[r].family)
  BY <1>1 DEF Authority, AuthorityWithinGrant
<1>3. RequestWithin(q)'
  <2>1. CASE ReadRevoked(q, r)
    <3>1. req'[q].scope = {} /\ req'[q].access = Null
      BY <2>1 DEF ReadRevoked, Idle, TypeOK, RequestsOK
    <3> QED BY <1>1, <1>2, <3>1 DEF RequestWithin, Within, Audience, Stored
  <2>2. ASSUME NEW sc \in SUBSET Scope, AcceptLive(q, r, sc)
        PROVE  RequestWithin(q)'
    <3> DEFINE b == refresh[r].access
    <3>1. /\ req'[q].scope = sc /\ req'[q].access = b /\ b # Null
          /\ sc \subseteq access[b].scope
      BY <2>2 DEF AcceptLive, Usable, OriginalScopes, Idle, TypeOK, RequestsOK
    <3>2. b \in AccessId /\ access[b].status = "stored"
      BY <1>1, <3>1 DEF TypeOK, RefreshRow, OrNull, Structure, PointersAreStored, StoredAccess
    <3>3. access[b].family = refresh[r].family
      BY <3>1 DEF Authority, LineageStaysInFamily
    <3>4. Within(access[b].scope, access[b].resource, refresh[r].family)
      BY <3>2, <3>3 DEF Authority, AuthorityWithinGrant, StoredAccess
    <3>5. Within(sc, refresh[r].resource, refresh[r].family)
      BY <1>2, <3>1, <3>4 DEF Within
    <3> HIDE DEF b
    <3> QED BY <1>1, <3>1, <3>2, <3>3, <3>5
            DEF RequestWithin, Within, Audience, Stored, StoredAccess
  <2> QED BY <2>1, <2>2
<1> QED BY <1>1, <1>3, ValidationKeepsAuthority

LEMMA SupersededKeepsAuthority ==
  ASSUME TypeOK, TypeOK', Structure, Structure', Authority,
         NEW q \in Request, AcceptSuperseded(q)
  PROVE  Authority'
<1>1. /\ UNCHANGED refresh /\ UNCHANGED access /\ UNCHANGED granted
      /\ \A p \in Request : p # q => req'[p] = req[p]
      /\ RequestWithin(q)
  BY DEF AcceptSuperseded, TypeOK, RequestsOK, Authority, RequestsWithinGrant
<1>2. /\ req'[q].token = req[q].token /\ req'[q].family = req[q].family
      /\ req'[q].scope = req[q].scope
      /\ req'[q].resource = req[q].resource /\ req'[q].access = req[q].access
  BY DEF AcceptSuperseded, TypeOK, RequestsOK, RequestState
<1>3. RequestWithin(q)'
  BY <1>1, <1>2 DEF RequestWithin, Within, Audience, Stored, StoredAccess
<1> QED BY <1>1, <1>3, ValidationKeepsAuthority

LEMMA LoadKeepsAuthority ==
  ASSUME TypeOK, TypeOK', Structure, Structure', Authority,
         NEW q \in Request, NEW sc \in SUBSET Scope, LoadScopes(q, sc)
  PROVE  Authority'
<1> DEFINE t == req[q].token
           f == req[q].family
<1>1. /\ UNCHANGED refresh /\ UNCHANGED access /\ UNCHANGED granted
      /\ \A p \in Request : p # q => req'[p] = req[p]
      /\ t \in RefreshId /\ t # Null
      /\ sc \subseteq OriginalScopes(t)
      /\ RequestWithin(q)
  BY IdAssumption DEF LoadScopes, TypeOK, RequestsOK, Authority, RequestsWithinGrant
<1>2. /\ req'[q].token = t /\ req'[q].family = f /\ req'[q].scope = sc
      /\ req'[q].resource = req[q].resource /\ req'[q].access = req[q].access
  BY DEF LoadScopes, TypeOK, RequestsOK, RequestState
<1>3. ASSUME NEW b \in AccessId, refresh[t].access = b \/ b \in Successors(t)
      PROVE  access[b].scope \subseteq granted[f].scope
  <2>1. access[b].status = "stored" /\ refresh[t].status = "stored"
    BY <1>1, <1>3, IdAssumption DEF Structure, PointersAreStored, Successors, Stored, StoredAccess
  <2>2. access[b].family = refresh[t].family
    BY <1>1, <1>3, IdAssumption DEF Authority, LineageStaysInFamily, Successors
  <2>3. access[b].family = f
    BY <1>1, <2>1, <2>2 DEF RequestWithin, Stored
  <2> QED BY <2>1, <2>3 DEF Authority, AuthorityWithinGrant, StoredAccess, Within
<1>4. sc \subseteq granted[f].scope
  <2>1. CASE refresh[t].access = Null
    BY <1>1, <1>3, <2>1 DEF OriginalScopes, Successors
  <2>2. CASE refresh[t].access # Null
    <3>1. refresh[t].access \in AccessId
      BY <1>1, <2>2 DEF TypeOK, RefreshRow, OrNull
    <3> QED BY <1>1, <1>3, <2>2, <3>1 DEF OriginalScopes
  <2> QED BY <2>1, <2>2
<1>5. RequestWithin(q)'
  <2> HIDE DEF t, f
  <2>1. Within(sc, req[q].resource, f)
    BY <1>1, <1>4 DEF RequestWithin, Within, f
  <2> QED BY <1>1, <1>2, <2>1 DEF RequestWithin, Within, Audience, Stored, StoredAccess, t, f
<1> QED BY <1>1, <1>5, ValidationKeepsAuthority

\* What a request saves is within the grant it carries: it keeps the scope it validated and
\* narrows the resource.
LEMMA SavedWithin ==
  ASSUME TypeOK, Authority, UNCHANGED granted, NEW q \in Request, req[q].phase = "save",
         NEW res \in NarrowedResource(req[q].resource)
  PROVE  /\ RequestWithin(q)
         /\ req[q].family \in RefreshId
         /\ Within(req[q].scope, res, req[q].family)
         /\ \A sc, rs, f : (sc = req[q].scope \/ sc = {}) /\ rs = res /\ f = req[q].family
              => /\ f # Null /\ granted'[f] # Null /\ sc \subseteq granted'[f].scope
                 /\ Audience(rs) \subseteq Audience(granted'[f].resource)
<1>1. RequestWithin(q) /\ req[q].resource \in SUBSET Resource
  BY DEF Authority, RequestsWithinGrant, TypeOK, RequestsOK, RequestState
<1>2. Audience(res) \subseteq Audience(req[q].resource)
  BY <1>1, NarrowedAudience
<1>3. Within(req[q].scope, res, req[q].family)
  BY <1>1, <1>2 DEF RequestWithin, Within
<1>4. req[q].family \in RefreshId
  BY <1>1 DEF RequestWithin, Within, TypeOK, RequestsOK, RequestState, OrNull
<1> QED BY <1>1, <1>3, <1>4 DEF Within

LEMMA InPlaceKeepsAuthority ==
  ASSUME TypeOK, TypeOK', Structure, Structure', Authority,
         NEW q \in Request, NEW res \in SUBSET Resource, SaveInPlace(q, res)
  PROVE  Authority'
<1>0. PICK a \in AccessId : a = req[q].access
  BY DEF SaveInPlace, TypeOK, RequestsOK, RequestState, OrNull
<1>1. /\ UNCHANGED refresh /\ UNCHANGED granted
      /\ req[q].phase = "save" /\ res \in NarrowedResource(req[q].resource)
      /\ a # Null /\ access[a].status = "stored"
      /\ \A p \in Request : req'[p] = req[p] \/ req'[p].phase \notin {"recent", "late", "scopes", "save"}
  BY <1>0 DEF SaveInPlace, TypeOK, RequestsOK, RequestState, OrNull, StoredAccess, Idle
<1>2. /\ \A b \in AccessId : b # a => access'[b] = access[b]
      /\ access'[a].status = access[a].status /\ access'[a].family = access[a].family
      /\ access'[a].source = access[a].source
      /\ access'[a].scope = req[q].scope /\ access'[a].resource = res
  <2>1. access \in [AccessId -> AccessRow]
    BY DEF TypeOK
  <2>2. access' = [access EXCEPT ![a].scope = req[q].scope, ![a].resource = res,
                                 ![a].expires = now + AccessLife]
    BY <1>0 DEF SaveInPlace
  <2>3. \A row \in AccessRow : \A new :
          new = [row EXCEPT !.scope = req[q].scope, !.resource = res, !.expires = now + AccessLife]
            => /\ new.status = row.status /\ new.family = row.family /\ new.source = row.source
               /\ new.scope = req[q].scope /\ new.resource = res
    BY DEF AccessRow
  <2>4. /\ \A b \in AccessId : b # a => access'[b] = access[b]
        /\ access'[a] = [access[a] EXCEPT !.scope = req[q].scope, !.resource = res,
                                          !.expires = now + AccessLife]
    BY <1>1, <2>1, <2>2
  <2>5. access[a] \in AccessRow
    BY <1>1, <2>1
  <2>6. /\ access'[a].status = access[a].status /\ access'[a].family = access[a].family
        /\ access'[a].source = access[a].source
        /\ access'[a].scope = req[q].scope /\ access'[a].resource = res
    BY <2>3, <2>4, <2>5
  <2> QED BY <2>4, <2>6
<1>3. access[a].family = req[q].family
  BY <1>0, <1>1 DEF Authority, RequestsWithinGrant, RequestWithin, StoredAccess
<1>4. Within(access[a].scope, access[a].resource, access[a].family)'
  <2>1. Within(req[q].scope, res, req[q].family) /\ UNCHANGED granted
    BY <1>1, SavedWithin
  <2> QED BY <1>2, <1>3, <2>1 DEF Within, Audience
<1>5. \A b \in AccessId : AccessShrinks(b) \/ AccessRewritten(b)
  <2> QED BY <1>2, <1>4 DEF AccessShrinks, AccessRewritten
<1>6. \A t \in RefreshId : RefreshShrinks(t)
  BY <1>1, SameRowsShrink
<1> QED BY <1>1, <1>5, <1>6, KeysStayUsed, RowStepsKeepAuthority

\* Every action that ends a request or starts one that validates nothing.
LEMMA RequestEnds ==
  ASSUME TypeOK, NEW q \in Request, req' = [req EXCEPT ![q] = Idle]
  PROVE  \A p \in Request : req'[p] = req[p] \/ req'[p].phase \notin {"recent", "late", "scopes", "save"}
BY DEF TypeOK, RequestsOK, Idle

LEMMA FreshPairKeepsAuthority ==
  ASSUME TypeOK, TypeOK', Structure, Structure', Authority, NEW q \in Request,
         NEW res \in SUBSET Resource, NEW r \in RefreshId, NEW a \in AccessId,
         SaveFreshPair(q, r, a, res)
  PROVE  Authority'
<1>1. PICK old \in RefreshId : old = req[q].token
  BY DEF SaveFreshPair, Rotating, TypeOK, RequestsOK
<1>2. PICK f : f = req[q].family
  OBVIOUS
<1>3. PICK sc \in SUBSET Scope : sc = req[q].scope
  BY DEF TypeOK, RequestsOK, RequestState
<1>4. /\ UNCHANGED granted /\ req[q].phase = "save" /\ res \in NarrowedResource(req[q].resource)
      /\ Stored(old) /\ refresh[r].status = "free" /\ access[a].status = "free"
      /\ access' = [AccessAfterRevoke(old) EXCEPT ![a] = NewAccess(refresh[old].family, old, sc, res)]
      /\ refresh' = [RefreshAfterRevoke(old) EXCEPT ![r] = NewRefresh(refresh[old].family, a, res)]
      /\ req' = [req EXCEPT ![q] = Idle]
  BY <1>1, <1>3 DEF SaveFreshPair, Rotating, ChildFamily
<1>5. /\ RequestWithin(q) /\ f \in RefreshId
      /\ Within(sc, res, f)
  BY <1>2, <1>3, <1>4, SavedWithin
<1>6. refresh[old].family = f /\ old # r
  BY <1>1, <1>2, <1>4, <1>5 DEF RequestWithin, Stored
<1>7. /\ RefreshAfterRevoke(old) \in [RefreshId -> RefreshRow]
      /\ AccessAfterRevoke(old) \in [AccessId -> AccessRow]
  BY TableTypes
<1>8. /\ \A t \in RefreshId : t # r => refresh'[t] = RefreshAfterRevoke(old)[t]
      /\ \A b \in AccessId : b # a => access'[b] = AccessAfterRevoke(old)[b]
      /\ refresh'[r].status = "stored" /\ refresh'[r].family = f
      /\ refresh'[r].access = a /\ refresh'[r].resource = res
      /\ access'[a].status = "stored" /\ access'[a].family = f /\ access'[a].source = old
      /\ access'[a].scope = sc /\ access'[a].resource = res
  BY <1>4, <1>6, <1>7 DEF NewAccess, NewRefresh
<1>9. Within(sc, res, f)' /\ Within({}, res, f)'
  BY <1>4, <1>5 DEF Within, Audience
<1>10. /\ \A t \in RefreshId : t # r => RefreshShrinks(t)
       /\ \A b \in AccessId : b # a => AccessShrinks(b)
  BY <1>8, RevokeShrinks
<1>11. refresh'[old].family = f
  <2>1. RefreshShrinks(old)
    BY <1>6, <1>10
  <2>2. refresh'[old].status = "stored"
    BY <1>8, IdAssumption DEF Structure, PointersAreStored, Stored
  <2> QED BY <1>6, <2>1, <2>2 DEF RefreshShrinks
<1>12. RefreshAppears(r)
  BY <1>4, <1>8, <1>9 DEF RefreshAppears, Within, Audience
<1>13. AccessAppears(a)
  BY <1>4, <1>8, <1>9, <1>11 DEF AccessAppears, Within, Audience
<1>14. \A p \in Request : req'[p] = req[p] \/ req'[p].phase \notin {"recent", "late", "scopes", "save"}
  BY <1>4, RequestEnds
<1>15. \A t \in RefreshId : RefreshShrinks(t) \/ RefreshAppears(t)
  BY <1>10, <1>12
<1>16. \A b \in AccessId : AccessShrinks(b) \/ AccessAppears(b) \/ AccessRewritten(b)
  BY <1>10, <1>13
<1> QED BY <1>4, <1>14, <1>15, <1>16, KeysStayUsed, RowStepsKeepAuthority

LEMMA ReissueKeepsAuthority ==
  ASSUME TypeOK, TypeOK', Structure, Structure', Authority, NEW q \in Request,
         NEW res \in SUBSET Resource, NEW r \in RefreshId, SaveReissueRefresh(q, r, res)
  PROVE  Authority'
<1>1. PICK old \in RefreshId : old = req[q].token
  BY DEF SaveReissueRefresh, Rotating, TypeOK, RequestsOK
<1>2. PICK f : f = req[q].family
  OBVIOUS
<1>3. /\ UNCHANGED granted /\ req[q].phase = "save" /\ res \in NarrowedResource(req[q].resource)
      /\ Stored(old) /\ refresh[r].status = "free"
      /\ access' = AccessAfterRevoke(old)
      /\ req' = [req EXCEPT ![q] = Idle]
  BY <1>1 DEF SaveReissueRefresh, Rotating
<1>4. PICK p \in AccessId :
        /\ p \in Successors(old)
        /\ refresh' = [RefreshAfterRevoke(old) EXCEPT ![r] = NewRefresh(refresh[old].family, p, res)]
  BY <1>1 DEF SaveReissueRefresh, Successors, ChildFamily
<1>5. /\ RequestWithin(q) /\ f \in RefreshId
      /\ Within(req[q].scope, res, f)
  BY <1>2, <1>3, SavedWithin
<1>6. refresh[old].family = f /\ old # r
  BY <1>1, <1>2, <1>3, <1>5 DEF RequestWithin, Stored
<1>7. RefreshAfterRevoke(old) \in [RefreshId -> RefreshRow]
  BY TableTypes
<1>8. /\ \A t \in RefreshId : t # r => refresh'[t] = RefreshAfterRevoke(old)[t]
      /\ \A b \in AccessId : access'[b] = AccessAfterRevoke(old)[b]
      /\ refresh'[r].status = "stored" /\ refresh'[r].family = f
      /\ refresh'[r].access = p /\ refresh'[r].resource = res
  BY <1>3, <1>4, <1>6, <1>7 DEF NewRefresh
<1>9. Within({}, res, f)'
  BY <1>3, <1>5 DEF Within, Audience
<1>10. /\ \A t \in RefreshId : t # r => RefreshShrinks(t)
       /\ \A b \in AccessId : AccessShrinks(b)
  BY <1>8, RevokeShrinks
<1>11. access'[p].family = f
  <2>1. AccessShrinks(p)
    BY <1>10
  <2>2. access'[p].status = "stored" /\ p # Null
    BY <1>8, IdAssumption DEF Structure, PointersAreStored, StoredAccess
  <2>3. access[p].source = old /\ old # Null
    BY <1>4, IdAssumption DEF Successors
  <2>4. access[p].family = f
    BY <1>6, <2>3 DEF Authority, LineageStaysInFamily
  <2> QED BY <2>1, <2>2, <2>4 DEF AccessShrinks
<1>12. RefreshAppears(r)
  BY <1>3, <1>8, <1>9, <1>11 DEF RefreshAppears, Within, Audience
<1>13. \A o \in Request : req'[o] = req[o] \/ req'[o].phase \notin {"recent", "late", "scopes", "save"}
  BY <1>3, RequestEnds
<1>14. \A t \in RefreshId : RefreshShrinks(t) \/ RefreshAppears(t)
  BY <1>10, <1>12
<1> QED BY <1>3, <1>10, <1>13, <1>14, KeysStayUsed, RowStepsKeepAuthority

\* Another grant opens a family under a key no family is named after.
LEMMA IssueKeepsAuthority ==
  ASSUME TypeOK, TypeOK', Structure, Structure', Authority,
         NEW r \in RefreshId, NEW a \in AccessId, NEW sc \in SUBSET Scope, NEW res \in SUBSET Resource,
         IssuePair(r, a, sc, res)
  PROVE  Authority'
<1>1. /\ refresh[r].status = "free" /\ access[a].status = "free" /\ UNCHANGED req
      /\ \A t \in RefreshId : t # r => refresh'[t] = refresh[t]
      /\ refresh'[r].status = "stored" /\ refresh'[r].access = a
      /\ refresh'[r].family = r /\ refresh'[r].resource = res
      /\ \A b \in AccessId : b # a => access'[b] = access[b]
      /\ access'[a].status = "stored" /\ access'[a].source = Null
      /\ access'[a].family = r
      /\ access'[a].scope = sc /\ access'[a].resource = res
  BY DEF IssuePair, NewRefresh, NewAccess, TypeOK
<1>2. /\ \A f \in RefreshId : f # r => granted'[f] = granted[f]
      /\ granted'[r] = [scope |-> sc, resource |-> res]
      /\ granted[r] = Null
  BY <1>1 DEF IssuePair, TypeOK, Authority, FreeNamesNoFamily
<1>3. granted'[r] # Null /\ granted'[r].scope = sc /\ granted'[r].resource = res /\ r # Null
  BY <1>2, IdAssumption
<1>4. Within(sc, res, r)' /\ Within({}, res, r)'
  BY <1>3 DEF Within, Audience
<1>5. RefreshAppears(r)
  BY <1>1, <1>4 DEF RefreshAppears, Within, Audience
<1>6. AccessAppears(a)
  BY <1>1, <1>4 DEF AccessAppears, Within, Audience
<1>7. \A t \in RefreshId : RefreshShrinks(t) \/ RefreshAppears(t)
  BY <1>1, <1>5 DEF RefreshShrinks
<1>8. \A b \in AccessId : AccessShrinks(b) \/ AccessAppears(b) \/ AccessRewritten(b)
  BY <1>1, <1>6 DEF AccessShrinks
<1>9. /\ \A f \in RefreshId : granted[f] # Null => granted'[f] = granted[f]
      /\ \A f \in RefreshId : refresh'[f].status = "free" => granted'[f] = Null
  BY <1>1, <1>2 DEF Authority, FreeNamesNoFamily
<1> QED BY <1>1, <1>7, <1>8, <1>9, RowStepsKeepAuthority

LEMMA NextAuthority == TypeOK /\ Structure /\ Authority /\ [Next]_vars => Authority'
<1> SUFFICES ASSUME TypeOK, Structure, Authority, [Next]_vars PROVE Authority'
  OBVIOUS
<1>0. TypeOK' /\ Structure'
  BY NextTypeOK, NextStructure
<1>1. CASE Tick
  BY <1>0, <1>1, SameRowsShrink, ShrinkKeepsAuthority DEF Tick
<1>2. ASSUME NEW r \in RefreshId, NEW a \in AccessId, NEW sc \in SUBSET Scope,
             NEW res \in SUBSET Resource, IssuePair(r, a, sc, res)
      PROVE  Authority'
  BY <1>0, <1>2, IssueKeepsAuthority
<1>3. ASSUME NEW q \in Request, RefreshGrant(q)
      PROVE  Authority'
  <2>1. ASSUME NEW r \in RefreshId, ReadRevoked(q, r) \/ \E sc \in SUBSET Scope : AcceptLive(q, r, sc)
        PROVE  Authority'
    BY <1>0, <2>1, AcceptKeepsAuthority
  <2>8. CASE AcceptSuperseded(q)
    BY <1>0, <2>8, SupersededKeepsAuthority
  <2>2. ASSUME NEW sc \in SUBSET Scope, LoadScopes(q, sc)
        PROVE  Authority'
    BY <1>0, <2>2, LoadKeepsAuthority
  <2>3. ASSUME NEW res \in SUBSET Resource, SaveInPlace(q, res)
        PROVE  Authority'
    BY <1>0, <2>3, InPlaceKeepsAuthority
  <2>4. ASSUME NEW res \in SUBSET Resource, NEW r \in RefreshId, SaveReissueRefresh(q, r, res)
        PROVE  Authority'
    BY <1>0, <2>4, ReissueKeepsAuthority
  <2>5. ASSUME NEW res \in SUBSET Resource, NEW r \in RefreshId, NEW a \in AccessId,
               SaveFreshPair(q, r, a, res)
        PROVE  Authority'
    BY <1>0, <2>5, FreshPairKeepsAuthority
  <2>6. CASE SaveReturnExisting(q)
    <3>1. req[q].token \in RefreshId
      BY <2>6 DEF SaveReturnExisting, Rotating, TypeOK, RequestsOK
    <3>2. /\ \A t \in RefreshId : RefreshShrinks(t)
          /\ \A b \in AccessId : AccessShrinks(b)
      BY <2>6, <3>1, RevokeShrinks DEF SaveReturnExisting
    <3> QED BY <1>0, <2>6, <3>2, RequestEnds, ShrinkKeepsAuthority DEF SaveReturnExisting
  <2>7. CASE Fail(q)
    BY <1>0, <2>7, SameRowsShrink, RequestEnds, ShrinkKeepsAuthority DEF Fail
  <2> QED BY <1>3, <2>1, <2>2, <2>3, <2>4, <2>5, <2>6, <2>7, <2>8 DEF RefreshGrant
<1>4. ASSUME NEW q \in Request, Revocation(q)
      PROVE  Authority'
  <2>1. CASE DetectReuse(q)
    <3>1. \A p \in Request : req'[p] = req[p] \/ req'[p].phase \notin {"recent", "late", "scopes", "save"}
      BY <2>1 DEF DetectReuse, TypeOK, RequestsOK, Idle
    <3> QED BY <1>0, <2>1, <3>1, SameRowsShrink, ShrinkKeepsAuthority DEF DetectReuse
  <2>2. CASE CommitSweep(q)
    <3>1. \A b \in AccessId : AccessShrinks(b)
      BY <2>2, DeletionsShrink DEF CommitSweep
    <3> QED BY <1>0, <2>2, <3>1, SweepShrinks, RequestEnds, ShrinkKeepsAuthority DEF CommitSweep
  <2>3. ASSUME NEW a \in AccessId, BeginRevokeAccess(q, a)
        PROVE  Authority'
    <3>1. \A p \in Request : req'[p] = req[p] \/ req'[p].phase \notin {"recent", "late", "scopes", "save"}
      BY <2>3 DEF BeginRevokeAccess, TypeOK, RequestsOK, Idle
    <3> QED BY <1>0, <2>3, <3>1, SameRowsShrink, ShrinkKeepsAuthority DEF BeginRevokeAccess
  <2>4. CASE FinishRevokeAccess(q)
    <3>1. /\ \A t \in RefreshId : RefreshShrinks(t)
          /\ \A b \in AccessId : AccessShrinks(b)
      <4>1. CASE req[q].token = Null
        BY <2>4, <4>1, DeletionsShrink DEF FinishRevokeAccess
      <4>2. CASE req[q].token # Null
        <5>1. req[q].token \in RefreshId
          BY <4>2 DEF TypeOK, RequestsOK, RequestState, OrNull
        <5> QED BY <2>4, <4>2, <5>1, RevokeShrinks DEF FinishRevokeAccess
      <4> QED BY <4>1, <4>2
    <3> QED BY <1>0, <2>4, <3>1, RequestEnds, ShrinkKeepsAuthority DEF FinishRevokeAccess
  <2> QED BY <1>4, <2>1, <2>2, <2>3, <2>4 DEF Revocation
<1>5. ASSUME NEW r \in RefreshId, RevokeRefresh(r)
      PROVE  Authority'
  <2>1. /\ \A t \in RefreshId : RefreshShrinks(t)
        /\ \A b \in AccessId : AccessShrinks(b)
    BY <1>5, RevokeShrinks DEF RevokeRefresh
  <2> QED BY <1>0, <1>5, <2>1, ShrinkKeepsAuthority DEF RevokeRefresh
<1>6. CASE Cleanup
  <2>1. CASE DeleteRefreshBatch
    BY <1>0, <2>1, DeletionsShrink, ShrinkKeepsAuthority DEF DeleteRefreshBatch
  <2>2. CASE DeleteAccessBatch
    BY <1>0, <2>2, DeletionsShrink, ShrinkKeepsAuthority DEF DeleteAccessBatch
  <2>3. CASE StartCleanup \/ SelectBatch \/ NextStage \/ KillCleanup
    BY <1>0, <2>3, SameRowsShrink, ShrinkKeepsAuthority
       DEF StartCleanup, SelectBatch, NextStage, KillCleanup
  <2> QED BY <1>6, <2>1, <2>2, <2>3 DEF Cleanup, DeleteBatch
<1>7. CASE UNCHANGED vars
  BY <1>0, <1>7, SameRowsShrink, ShrinkKeepsAuthority DEF vars
<1> QED BY <1>1, <1>2, <1>3, <1>4, <1>5, <1>6, <1>7 DEF Next

\* Sessions never mix and never grow: through any interleaving of refreshes, retries,
\* revocations and cleanups every token pair stays in its family, no token holds a scope or
\* an audience its family was not granted, and no request is about to give it one.
THEOREM FamiliesSound == Spec => []Authority
<1>1. Init => TypeOK /\ Structure /\ Authority
  BY InitTypeOK, InitStructure, InitAuthority
<1>2. TypeOK /\ Structure /\ Authority /\ [Next]_vars => TypeOK' /\ Structure' /\ Authority'
  BY NextTypeOK, NextStructure, NextAuthority
<1> QED BY <1>1, <1>2, PTL DEF Spec

----------------------------------------------------------------------------
(* What a step may do to a row in use.                                     *)

Reaped(r) == DeleteRefreshBatch /\ r \in cleaner.batch

\* A refresh row keeps its access token or loses it, a revoked one stays as it is; a row that
\* goes was in a batch; and a bound access token goes whenever its refresh token is revoked.
RowOnward(r) ==
  /\ refresh'[r].status \in {refresh[r].status, "gone"}
  /\ refresh'[r].access \in {refresh[r].access, Null}
  /\ Revoked(r) => refresh'[r] = refresh[r] \/ refresh'[r].status = "gone"
  /\ refresh'[r].status = "gone" => refresh[r].status = "gone" \/ Reaped(r)
  /\ refresh[r].access # Null =>
       \/ access'[refresh[r].access].status = "gone"
       \/ refresh'[r].access = refresh[r].access /\ Live(r)'
       \/ Reaped(r)
\* An access row goes or stays; only a refresh that does not rotate prolongs it, which the
\* history keeps while a batch is pending.
AccessOnward(a) ==
  \/ access'[a].status = "gone"
  \/ /\ access'[a].status = access[a].status
     /\ \/ access'[a].expires = access[a].expires
        \/ FALSE \in Rotation /\ (cleaner.batch # {} => a \in cleaner'.renewed)

RowsOnward ==
  /\ \A r \in RefreshId : refresh[r].status # "free" => RowOnward(r)
  /\ \A a \in AccessId : access[a].status # "free" => AccessOnward(a)

\* A bound refresh token is live, and its access token is stored.
LEMMA BoundIsLive ==
  ASSUME TypeOK, Structure, NEW r \in RefreshId, refresh[r].access # Null
  PROVE  Live(r) /\ refresh[r].access \in AccessId /\ StoredAccess(refresh[r].access)
BY DEF Structure, PointersAreStored, RevokedIsUnbound, Revoked, Live, Stored, TypeOK, RefreshRow, OrNull

\* Steps that only insert rows, or do not touch the tables.
LEMMA InsertOnward ==
  ASSUME TypeOK, Structure,
         \A r \in RefreshId : refresh[r].status # "free" => refresh'[r] = refresh[r],
         \A a \in AccessId : access[a].status # "free" => access'[a] = access[a]
  PROVE  RowsOnward
<1>1. ASSUME NEW r \in RefreshId, refresh[r].status # "free" PROVE RowOnward(r)
  BY <1>1, BoundIsLive DEF RowOnward, Live, Stored
<1> QED BY <1>1 DEF RowsOnward, AccessOnward

\* Steps that revoke one row, and may insert others.
LEMMA RevokeOnward ==
  ASSUME TypeOK, Structure, NEW old \in RefreshId,
         \A r \in RefreshId : refresh[r].status # "free" => refresh'[r] = RefreshAfterRevoke(old)[r],
         \A a \in AccessId : access[a].status # "free" => access'[a] = AccessAfterRevoke(old)[a]
  PROVE  RowsOnward
<1>1. CASE ~Live(old)
  <2>1. RefreshAfterRevoke(old) = refresh /\ AccessAfterRevoke(old) = access
    BY <1>1, RevokeEffect DEF Structure
  <2> QED BY <2>1, InsertOnward
<1>2. CASE Live(old)
  <2> DEFINE new == [refresh[old] EXCEPT !.access = Null, !.revoked = now]
  <2>1. /\ \A r \in RefreshId : refresh[r].status # "free" =>
             refresh'[r] = IF r = old THEN new ELSE refresh[r]
        /\ \A a \in AccessId : access[a].status # "free" =>
             access'[a] = IF a = refresh[old].access THEN EmptyAccess("gone") ELSE access[a]
    <3>1. /\ RefreshAfterRevoke(old) = [s \in RefreshId |-> IF s = old THEN new ELSE refresh[s]]
          /\ AccessAfterRevoke(old) = [a \in AccessId |-> IF a = refresh[old].access
                THEN EmptyAccess("gone") ELSE access[a]]
      BY <1>2, RevokeEffect DEF Structure
    <3> HIDE DEF new
    <3> QED BY <3>1
  <2>2. new.status = "stored" /\ new.access = Null
    BY <1>2, RowUpdate DEF TypeOK, Live, Stored
  <2> HIDE DEF new
  <2>3. ASSUME NEW r \in RefreshId, refresh[r].status # "free", r # old PROVE RowOnward(r)
    BY <2>1, <2>3, BoundIsLive DEF RowOnward, Live, Stored
  <2>4. RowOnward(old)
    <3>1. ~Revoked(old) /\ refresh[old].status = "stored"
      BY <1>2 DEF Live, Revoked, Stored
    <3>2. ASSUME refresh[old].access # Null PROVE access'[refresh[old].access].status = "gone"
      BY <2>1, <3>2, BoundIsLive DEF StoredAccess, EmptyAccess
    <3> QED BY <2>1, <2>2, <3>1, <3>2 DEF RowOnward
  <2>5. ASSUME NEW a \in AccessId, access[a].status # "free" PROVE AccessOnward(a)
    <3>1. access'[a] = EmptyAccess("gone") \/ access'[a] = access[a]
      BY <2>1, <2>5
    <3>2. EmptyAccess("gone").status = "gone"
      BY DEF EmptyAccess
    <3> QED BY <3>1, <3>2 DEF AccessOnward
  <2> QED BY <2>3, <2>4, <2>5 DEF RowsOnward
<1> QED BY <1>1, <1>2

\* Steps that delete access rows, where some refresh rows without one may be stamped.
LEMMA DeleteAccessOnward ==
  ASSUME TypeOK, Structure, NEW A, NEW t,
         access' = WithoutAccess(A),
         \A r \in RefreshId :
           \/ refresh'[r] = Unbound(A)[r]
           \/ /\ refresh'[r] = [Unbound(A)[r] EXCEPT !.revoked = t]
              /\ Live(r) /\ refresh[r].access \in A \cup {Null}
  PROVE  RowsOnward
<1>1. ASSUME NEW r \in RefreshId, refresh[r].status # "free" PROVE RowOnward(r)
  <2>0. refresh[r] \in RefreshRow
    BY DEF TypeOK
  <2> DEFINE u == Unbound(A)[r]
  <2>1. /\ u \in RefreshRow
        /\ u.status = refresh[r].status /\ u.revoked = refresh[r].revoked
        /\ u.access = (IF refresh[r].access \in A THEN Null ELSE refresh[r].access)
        /\ refresh[r].access = Null => u = refresh[r]
    BY <2>0 DEF Unbound, RefreshRow, OrNull
  <2>2. \/ refresh'[r] = u
        \/ /\ refresh'[r] = [u EXCEPT !.revoked = t]
           /\ Live(r) /\ refresh[r].access \in A \cup {Null}
    OBVIOUS
  <2> HIDE DEF u
  <2>3. refresh'[r].status = refresh[r].status /\ refresh'[r].access = u.access
    BY <2>1, <2>2 DEF RefreshRow
  <2>4. Revoked(r) => refresh'[r] = refresh[r]
    <3>1. Revoked(r) => ~Live(r) /\ refresh[r].access = Null
      BY DEF Structure, RevokedIsUnbound, Revoked, Live
    <3> QED BY <2>1, <2>2, <3>1
  <2>5. ASSUME refresh[r].access # Null
        PROVE  \/ access'[refresh[r].access].status = "gone"
               \/ refresh'[r].access = refresh[r].access /\ Live(r)'
    <3>1. CASE refresh[r].access \in A
      BY <2>5, <3>1, BoundIsLive DEF WithoutAccess, EmptyAccess
    <3>2. CASE refresh[r].access \notin A
      <4>1. refresh'[r] = u
        BY <2>2, <2>5, <3>2
      <4> QED BY <2>1, <2>5, <3>2, <4>1, BoundIsLive DEF Live, Stored
    <3> QED BY <3>1, <3>2
  <2> QED BY <1>1, <2>1, <2>3, <2>4, <2>5 DEF RowOnward
<1>2. ASSUME NEW a \in AccessId PROVE AccessOnward(a)
  BY DEF WithoutAccess, EmptyAccess, AccessOnward
<1> QED BY <1>1, <1>2 DEF RowsOnward

LEMMA UnbindOnward ==
  ASSUME TypeOK, Structure, NEW A, access' = WithoutAccess(A), refresh' = Unbound(A)
  PROVE  RowsOnward
BY DeleteAccessOnward

LEMMA SweepOnward ==
  ASSUME TypeOK, Structure, NEW q \in Request, CommitSweep(q)
  PROVE  RowsOnward
<1> DEFINE A == SweptAccess(q)
<1>1. ASSUME NEW r \in req[q].rows PROVE Live(r) /\ refresh[r].access \in A \cup {Null}
  <2>1. r \in RefreshId /\ Live(r) /\ refresh[r].family = req[q].family
    BY DEF Structure, LockedRowsAreLive, CommitSweep, TypeOK, RequestsOK, RequestState
  <2> QED BY <2>1 DEF SweptAccess, Members, Live
<1>2. /\ access' = WithoutAccess(A)
      /\ \A r \in RefreshId : refresh'[r] = IF r \in req[q].rows
           THEN [Unbound(A)[r] EXCEPT !.revoked = req[q].at] ELSE Unbound(A)[r]
  BY DEF CommitSweep
<1> HIDE DEF A
<1>3. \A r \in RefreshId :
        \/ refresh'[r] = Unbound(A)[r]
        \/ /\ refresh'[r] = [Unbound(A)[r] EXCEPT !.revoked = req[q].at]
           /\ Live(r) /\ refresh[r].access \in A \cup {Null}
  BY <1>1, <1>2
<1> QED BY <1>2, <1>3, DeleteAccessOnward

LEMMA ReapOnward ==
  ASSUME TypeOK, Structure, DeleteRefreshBatch
  PROVE  RowsOnward
<1>1. ASSUME NEW r \in RefreshId, refresh[r].status # "free" PROVE RowOnward(r)
  <2>1. CASE r \in cleaner.batch
    <3>1. refresh'[r] = EmptyRefresh("gone")
      BY <2>1 DEF DeleteRefreshBatch, WithoutRefresh
    <3> QED BY <2>1, <3>1 DEF RowOnward, Reaped, EmptyRefresh
  <2>2. CASE r \notin cleaner.batch
    <3>1. refresh'[r] = refresh[r]
      BY <2>2 DEF DeleteRefreshBatch, WithoutRefresh
    <3> QED BY <1>1, <3>1, BoundIsLive DEF RowOnward, Live, Stored
  <2> QED BY <2>1, <2>2
<1>2. ASSUME NEW a \in AccessId PROVE AccessOnward(a)
  BY DEF DeleteRefreshBatch, Unsourced, TypeOK, AccessRow, AccessOnward
<1> QED BY <1>1, <1>2 DEF RowsOnward

LEMMA InPlaceOnward ==
  ASSUME TypeOK, Structure, NEW q \in Request, NEW res \in SUBSET Resource, SaveInPlace(q, res)
  PROVE  RowsOnward
<1>1. ASSUME NEW r \in RefreshId, refresh[r].status # "free" PROVE RowOnward(r)
  BY <1>1, BoundIsLive DEF SaveInPlace, RowOnward, Live, Stored
<1>2. ASSUME NEW a \in AccessId PROVE AccessOnward(a)
  <2>1. cleaner.batch # {} => cleaner'.renewed = cleaner.renewed \cup {req[q].access}
    BY DEF SaveInPlace, Renewed, TypeOK
  <2> QED BY <2>1 DEF SaveInPlace, TypeOK, AccessRow, AccessOnward
<1> QED BY <1>1, <1>2 DEF RowsOnward

LEMMA NextOnward ==
  ASSUME TypeOK, Structure, [Next]_vars
  PROVE  RowsOnward
<1>1. CASE UNCHANGED <<refresh, access>>
  BY <1>1, InsertOnward
<1>2. ASSUME NEW r \in RefreshId, NEW a \in AccessId, NEW sc \in SUBSET Scope,
             NEW res \in SUBSET Resource, IssuePair(r, a, sc, res)
      PROVE  RowsOnward
  BY <1>2, InsertOnward DEF IssuePair, TypeOK
<1>3. ASSUME NEW q \in Request, RefreshGrant(q)
      PROVE  RowsOnward
  <2>0. Rotating(q) => req[q].token \in RefreshId
    BY DEF Rotating, TypeOK, RequestsOK
  <2>1. ASSUME NEW res \in SUBSET Resource, SaveInPlace(q, res)
        PROVE  RowsOnward
    BY <2>1, InPlaceOnward
  <2>2. ASSUME NEW res \in SUBSET Resource, NEW r \in RefreshId, SaveReissueRefresh(q, r, res)
        PROVE  RowsOnward
    <3>1. \A s \in RefreshId : refresh[s].status # "free" =>
            refresh'[s] = RefreshAfterRevoke(req[q].token)[s]
      BY <2>2 DEF SaveReissueRefresh
    <3> QED BY <2>0, <2>2, <3>1, RevokeOnward DEF SaveReissueRefresh
  <2>3. ASSUME NEW res \in SUBSET Resource, NEW r \in RefreshId, NEW a \in AccessId,
               SaveFreshPair(q, r, a, res)
        PROVE  RowsOnward
    <3>1. /\ \A s \in RefreshId : refresh[s].status # "free" =>
               refresh'[s] = RefreshAfterRevoke(req[q].token)[s]
          /\ \A b \in AccessId : access[b].status # "free" =>
               access'[b] = AccessAfterRevoke(req[q].token)[b]
      BY <2>3 DEF SaveFreshPair
    <3> QED BY <2>0, <2>3, <3>1, RevokeOnward DEF SaveFreshPair
  <2>4. CASE SaveReturnExisting(q)
    BY <2>0, <2>4, RevokeOnward DEF SaveReturnExisting
  <2> QED BY <1>1, <1>3, <2>1, <2>2, <2>3, <2>4 DEF RefreshGrant, ReadRevoked, AcceptSuperseded, AcceptLive,
                                                    LoadScopes, Fail
<1>4. ASSUME NEW q \in Request, Revocation(q)
      PROVE  RowsOnward
  <2>1. CASE CommitSweep(q)
    BY <2>1, SweepOnward
  <2>2. CASE FinishRevokeAccess(q)
    <3>1. req[q].token # Null => req[q].token \in RefreshId
      BY DEF TypeOK, RequestsOK, RequestState, OrNull
    <3> QED BY <2>2, <3>1, RevokeOnward, UnbindOnward DEF FinishRevokeAccess
  <2> QED BY <1>1, <1>4, <2>1, <2>2 DEF Revocation, DetectReuse, BeginRevokeAccess
<1>5. ASSUME NEW r \in RefreshId, RevokeRefresh(r)
      PROVE  RowsOnward
  BY <1>5, RevokeOnward DEF RevokeRefresh
<1>6. CASE Cleanup
  BY <1>1, <1>6, ReapOnward, UnbindOnward
     DEF Cleanup, StartCleanup, SelectBatch, NextStage, KillCleanup, DeleteBatch, DeleteAccessBatch
<1> QED BY <1>1, <1>2, <1>3, <1>4, <1>5, <1>6 DEF Next, Tick, vars

\* A revoked refresh token never becomes live or bound again, and is stamped once: no rotation,
\* /revoke/ or sweep that overlaps another reopens a grace window (RefreshToken.revoke).
THEOREM RevocationsAreFinal == Spec => RevocationIsFinal
<1>1. TypeOK /\ Structure /\ [Next]_vars =>
        [\A r \in RefreshId : Revoked(r) =>
           refresh'[r].status = "gone" \/ (refresh'[r] = refresh[r])]_vars
  BY NextOnward DEF RowsOnward, RowOnward, Revoked, Stored
<1> QED BY <1>1, TypeCorrect, PointersSound, PTL DEF Spec, RevocationIsFinal

\* revoke_family() leaves no usable member behind, whatever a rotation inserted between its
\* UPDATE and its DELETE.
THEOREM SweepsAreComplete == Spec => SweepLeavesNothingUsable
<1>1. ASSUME TypeOK, NEW q \in Request, CommitSweep(q), NEW r \in Members(req[q].family)
      PROVE  refresh'[r].access = Null
  <2>1. r \in RefreshId /\ refresh[r] \in RefreshRow
    BY <1>1 DEF Members, TypeOK
  <2>2. Unbound(SweptAccess(q))[r] \in RefreshRow /\ Unbound(SweptAccess(q))[r].access = Null
    BY <1>1, <2>1 DEF Unbound, SweptAccess, RefreshRow, OrNull
  <2> DEFINE u == Unbound(SweptAccess(q))[r]
  <2>3. refresh'[r] = u \/ refresh'[r] = [u EXCEPT !.revoked = req[q].at]
    BY <1>1, <2>1 DEF CommitSweep
  <2> HIDE DEF u
  <2>4. u \in RefreshRow /\ u.access = Null
    BY <2>2 DEF u
  <2> QED BY <2>3, <2>4 DEF RefreshRow
<1>2. TypeOK /\ [Next]_vars =>
        [\A q \in Request : CommitSweep(q) =>
           \A r \in Members(req[q].family) : refresh'[r].access = Null]_vars
  BY <1>1
<1> QED BY <1>2, TypeCorrect, PTL DEF Spec, SweepLeavesNothingUsable

----------------------------------------------------------------------------
(* What cleartokens and the revocation of an access token carry from one   *)
(* transaction into the next.                                              *)

CleanerRuns == /\ cleaner.stage # "idle" => RunCleanup /\ cleaner.at <= now
               /\ FALSE \notin Rotation => cleaner.renewed = {}

\* What a batch was selected for still holds of its rows, those gone meanwhile apart.
BatchRevoked ==
  cleaner.stage = "revoked" => \A r \in cleaner.batch \cap RefreshId :
    refresh[r].status = "gone" \/ (Revoked(r) /\ RevokedBefore(r))
\* An access token that a row of the batch is bound to is idle for good, unless a refresh that
\* does not rotate has prolonged it since the row was selected.
Idles(r) == refresh[r].access # Null => IdleBefore(r) \/ refresh[r].access \in cleaner.renewed
BatchUnusable ==
  cleaner.stage \in {"revoked", "orphans", "expired"} =>
    \A r \in cleaner.batch \cap RefreshId : refresh[r].status # "free" /\ Idles(r)

\* The access token that a revocation of a pair aims at is gone, or still bound to the refresh
\* token it was looked up with, or the cleanup took that one away after it had expired.
RevokeAim(q) ==
  LET r == req[q].token
      a == req[q].access IN
    \/ access[a].status = "gone"
    \/ Live(r) /\ refresh[r].access = a
    \/ StoredAccess(a) /\ access[a].expires <= now /\ RunCleanup
RevokeAims == FALSE \notin Rotation \/ ~RunCleanup =>
  \A q \in Request : req[q].phase = "revoke" /\ req[q].token # Null => RevokeAim(q)

InFlight == CleanerRuns /\ BatchRevoked /\ BatchUnusable /\ RevokeAims

LEMMA InitInFlight == Init => InFlight
<1>1. Init => cleaner.stage = "idle" /\ cleaner.renewed = {} /\ \A q \in Request : req[q].phase = "idle"
  BY DEF Init, Resting, Idle
<1> QED BY <1>1 DEF InFlight, CleanerRuns, BatchRevoked, BatchUnusable, RevokeAims

\* The cleaner goes on with its batch, drops it, or selects one.
KeepsBatch == /\ cleaner'.stage = cleaner.stage /\ cleaner'.at = cleaner.at
              /\ cleaner'.batch = cleaner.batch
              /\ cleaner.renewed \subseteq cleaner'.renewed
LEMMA CleanerSteps ==
  ASSUME TypeOK, [Next]_vars
  PROVE  /\ KeepsBatch \/ cleaner'.batch = {} \/ SelectBatch
         /\ \/ cleaner'.stage = "idle"
            \/ StartCleanup
            \/ cleaner'.at = cleaner.at /\ (cleaner.stage = "idle" => cleaner'.stage = "idle")
         /\ now' \in Nat /\ now' >= now
<1>1. /\ cleaner \in [stage : Stage, at : Nat, batch : SUBSET (RefreshId \cup AccessId),
                       renewed : SUBSET AccessId]
      /\ now \in Nat
  BY DEF TypeOK
<1>2. CASE UNCHANGED <<cleaner, now>>
  BY <1>1, <1>2 DEF KeepsBatch
<1>3. CASE Tick
  BY <1>1, <1>3 DEF Tick, KeepsBatch
<1>4. CASE Cleanup
  <2>1. CASE StartCleanup
    BY <1>1, <2>1 DEF StartCleanup
  <2>2. CASE SelectBatch
    <3>1. cleaner.stage # "idle" /\ cleaner'.at = cleaner.at /\ now' = now
      BY <1>1, <2>2 DEF SelectBatch
    <3> QED BY <1>1, <2>2, <3>1
  <2>3. CASE DeleteBatch
    <3>1. /\ cleaner.stage # "idle" /\ cleaner'.at = cleaner.at /\ now' = now
          /\ cleaner'.batch = {}
      BY <1>1, <2>3 DEF DeleteBatch, DeleteRefreshBatch, DeleteAccessBatch
    <3> QED BY <1>1, <3>1
  <2>4. CASE NextStage
    BY <1>1, <2>4 DEF NextStage, Resting
  <2>5. CASE KillCleanup
    BY <1>1, <2>5 DEF KillCleanup, Resting
  <2> QED BY <1>4, <2>1, <2>2, <2>3, <2>4, <2>5 DEF Cleanup
<1>5. ASSUME NEW q \in Request, RefreshGrant(q) \/ Revocation(q)
      PROVE  KeepsBatch /\ now' = now
  <2>1. ASSUME NEW res \in SUBSET Resource, SaveInPlace(q, res) PROVE KeepsBatch /\ now' = now
    BY <1>1, <2>1 DEF SaveInPlace, Renewed, KeepsBatch
  <2>2. CASE UNCHANGED <<cleaner, now>>
    BY <2>2 DEF KeepsBatch
  <2> QED BY <1>5, <2>1, <2>2
          DEF RefreshGrant, ReadRevoked, AcceptSuperseded, AcceptLive, LoadScopes, SaveReissueRefresh,
              SaveFreshPair, SaveReturnExisting, Fail, Revocation, DetectReuse, CommitSweep,
              BeginRevokeAccess, FinishRevokeAccess
<1>6. CASE KeepsBatch /\ now' = now
  BY <1>1, <1>6 DEF KeepsBatch
<1> QED BY <1>2, <1>3, <1>4, <1>5, <1>6 DEF Next, IssuePair, RevokeRefresh, vars

\* Where refreshes always rotate, nothing is prolonged in place.
LEMMA RotationRenewsNothing ==
  ASSUME TypeOK, FALSE \notin Rotation, cleaner.renewed = {}, [Next]_vars
  PROVE  cleaner'.renewed = {}
<1>0. cleaner \in [stage : Stage, at : Nat, batch : SUBSET (RefreshId \cup AccessId),
                   renewed : SUBSET AccessId]
  BY DEF TypeOK
<1>1. CASE Cleanup
  <2>1. CASE StartCleanup
    BY <2>1 DEF StartCleanup
  <2>2. CASE SelectBatch
    BY <1>0, <2>2 DEF SelectBatch
  <2>3. CASE DeleteBatch
    BY <1>0, <2>3 DEF DeleteBatch, DeleteRefreshBatch, DeleteAccessBatch
  <2>4. CASE NextStage
    BY <1>0, <2>4 DEF NextStage, Resting
  <2>5. CASE KillCleanup
    BY <2>5 DEF KillCleanup, Resting
  <2> QED BY <1>1, <2>1, <2>2, <2>3, <2>4, <2>5 DEF Cleanup
<1>2. ASSUME NEW q \in Request, RefreshGrant(q) \/ Revocation(q) PROVE UNCHANGED cleaner
  BY <1>2 DEF RefreshGrant, ReadRevoked, AcceptSuperseded, AcceptLive, LoadScopes, SaveInPlace, SaveReissueRefresh,
              SaveFreshPair, SaveReturnExisting, Fail, Revocation, DetectReuse, CommitSweep,
              BeginRevokeAccess, FinishRevokeAccess
<1> QED BY <1>1, <1>2 DEF Next, Tick, IssuePair, RevokeRefresh, vars

LEMMA NextCleaner ==
  ASSUME TypeOK, CleanerRuns, [Next]_vars
  PROVE  CleanerRuns'
<1>1. cleaner.at \in Nat /\ now \in Nat
  BY DEF TypeOK
<1>2. cleaner'.stage # "idle" => RunCleanup /\ cleaner'.at <= now'
  <2>1. CASE StartCleanup
    BY <1>1, <2>1 DEF StartCleanup
  <2>2. CASE ~StartCleanup
    BY <1>1, <2>2, CleanerSteps DEF CleanerRuns
  <2> QED BY <2>1, <2>2
<1> QED BY <1>2, RotationRenewsNothing DEF CleanerRuns

\* Rows of a batch that is kept.
LEMMA BatchOnward ==
  ASSUME TypeOK, Structure, Structure', RowsOnward, KeepsBatch, NEW r \in RefreshId
  PROVE  /\ Revoked(r) /\ RevokedBefore(r) =>
              refresh'[r].status = "gone" \/ (Revoked(r)' /\ RevokedBefore(r)')
         /\ refresh[r].status # "free" => refresh'[r].status # "free"
         /\ refresh[r].status # "free" /\ cleaner.batch # {} /\ Idles(r) => Idles(r)'
<1>1. Revoked(r) /\ RevokedBefore(r) =>
        refresh'[r].status = "gone" \/ (Revoked(r)' /\ RevokedBefore(r)')
  BY DEF RowsOnward, RowOnward, Revoked, Stored, RevokedBefore, KeepsBatch
<1>2. ASSUME refresh[r].status # "free", cleaner.batch # {}, Idles(r), refresh'[r].access # Null
      PROVE  IdleBefore(r)' \/ refresh'[r].access \in cleaner'.renewed
  <2> DEFINE a == refresh[r].access
  <2>1. refresh'[r].access = a /\ (IdleBefore(r) \/ a \in cleaner.renewed)
    BY <1>2 DEF RowsOnward, RowOnward, Idles
  <2>2. a \in AccessId /\ StoredAccess(a)
    BY <1>2, <2>1, BoundIsLive
  <2>3. access'[a].status = "stored"
    BY <1>2, <2>1 DEF Structure, PointersAreStored, StoredAccess
  <2>4. access'[a].expires = access[a].expires \/ a \in cleaner'.renewed
    <3>1. AccessOnward(a) /\ access'[a].status # "gone"
      BY <2>2, <2>3 DEF RowsOnward, StoredAccess
    <3> QED BY <1>2, <3>1 DEF AccessOnward
  <2> HIDE DEF a
  <2>5. a \in cleaner.renewed \/ (IdleLife > 0 /\ access[a].expires + IdleLife <= cleaner.at)
    BY <2>1 DEF IdleBefore, a
  <2> QED BY <2>1, <2>4, <2>5 DEF IdleBefore, KeepsBatch
<1>3. refresh[r].status # "free" /\ cleaner.batch # {} /\ Idles(r) => Idles(r)'
  BY <1>2 DEF Idles
<1> QED BY <1>1, <1>3 DEF RowsOnward, RowOnward

LEMMA NextBatches ==
  ASSUME TypeOK, Structure, Structure', RowsOnward, BatchRevoked, BatchUnusable, [Next]_vars
  PROVE  BatchRevoked' /\ BatchUnusable'
<1>1. CASE KeepsBatch
  <2>1. BatchRevoked'
    <3> SUFFICES ASSUME cleaner'.stage = "revoked", NEW r \in cleaner'.batch \cap RefreshId
                 PROVE  refresh'[r].status = "gone" \/ (Revoked(r)' /\ RevokedBefore(r)')
      BY DEF BatchRevoked
    <3>1. refresh[r].status = "gone" \/ (Revoked(r) /\ RevokedBefore(r))
      BY <1>1 DEF BatchRevoked, KeepsBatch
    <3>2. refresh[r].status = "gone" => refresh'[r].status = "gone"
      BY DEF RowsOnward, RowOnward
    <3> QED BY <1>1, <3>1, <3>2, BatchOnward
  <2>2. BatchUnusable'
    BY <1>1, BatchOnward DEF BatchUnusable, KeepsBatch
  <2> QED BY <2>1, <2>2
<1>2. CASE cleaner'.batch = {}
  BY <1>2 DEF BatchRevoked, BatchUnusable
<1>3. CASE SelectBatch
  <2>1. /\ cleaner'.stage = cleaner.stage /\ cleaner'.at = cleaner.at
        /\ cleaner'.batch \subseteq Matching(cleaner.stage)
        /\ UNCHANGED <<refresh, access>>
    BY <1>3 DEF SelectBatch, TypeOK
  <2>2. BatchRevoked'
    BY <2>1 DEF BatchRevoked, Matching, Revoked, Stored, RevokedBefore
  <2>3. BatchUnusable'
    BY <2>1 DEF BatchUnusable, Idles, Matching, Revoked, Live, Stored, IdleBefore, Structure, RevokedIsUnbound
  <2> QED BY <2>2, <2>3
<1> QED BY <1>1, <1>2, <1>3, CleanerSteps

----------------------------------------------------------------------------

\* A request that revokes an access token began to, or was about to already.
LEMMA RevokePhase ==
  ASSUME TypeOK, [Next]_vars, NEW q \in Request, req'[q].phase = "revoke"
  PROVE  req'[q] = req[q] \/ \E a \in AccessId : BeginRevokeAccess(q, a)
<1>0. req \in [Request -> RequestState]
  BY DEF TypeOK, RequestsOK
<1>1. ASSUME NEW p \in Request, req' = [req EXCEPT ![p] = Idle]
      PROVE  req'[q] = req[q]
  BY <1>0, <1>1 DEF Idle
<1>2. ASSUME NEW p \in Request, RefreshGrant(p)
      PROVE  req'[q] = req[q]
  <2>1. ASSUME NEW r \in RefreshId, ReadRevoked(p, r) PROVE req'[q] = req[q]
    <3>1. \E ph \in {"late", "recent"} :
            req' = [req EXCEPT ![p] = [Idle EXCEPT !.phase = ph, !.token = r,
                      !.family = refresh[r].family, !.resource = refresh[r].resource]]
      BY <2>1 DEF ReadRevoked
    <3> QED BY <1>0, <3>1 DEF Idle
  <2>5. CASE AcceptSuperseded(p)
    BY <1>0, <2>5 DEF AcceptSuperseded, RequestState
  <2>4. ASSUME NEW r \in RefreshId, NEW sc \in SUBSET Scope, AcceptLive(p, r, sc) PROVE req'[q] = req[q]
    <3>1. req' = [req EXCEPT ![p] = [Idle EXCEPT !.phase = "save", !.token = r,
                    !.family = refresh[r].family, !.access = refresh[r].access, !.scope = sc,
                    !.resource = refresh[r].resource]]
      BY <2>4 DEF AcceptLive
    <3> QED BY <1>0, <3>1 DEF Idle
  <2>2. ASSUME NEW sc \in SUBSET Scope, LoadScopes(p, sc) PROVE req'[q] = req[q]
    BY <1>0, <2>2 DEF LoadScopes, RequestState
  <2>3. CASE req' = [req EXCEPT ![p] = Idle]
    BY <1>1, <2>3
  <2> QED BY <1>2, <2>1, <2>2, <2>3, <2>4, <2>5 DEF RefreshGrant, SaveInPlace, SaveReissueRefresh, SaveFreshPair,
                                        SaveReturnExisting, Fail
<1>3. ASSUME NEW p \in Request, Revocation(p)
      PROVE  req'[q] = req[q] \/ \E a \in AccessId : BeginRevokeAccess(q, a)
  <2>1. ASSUME DetectReuse(p) PROVE req'[q] = req[q]
    BY <1>0, <2>1 DEF DetectReuse, Idle
  <2>2. ASSUME NEW a \in AccessId, BeginRevokeAccess(p, a)
        PROVE  req'[q] = req[q] \/ \E b \in AccessId : BeginRevokeAccess(q, b)
    <3>1. CASE p = q
      BY <2>2, <3>1
    <3>2. CASE p # q
      BY <1>0, <2>2, <3>2 DEF BeginRevokeAccess
    <3> QED BY <3>1, <3>2
  <2> QED BY <1>1, <1>3, <2>1, <2>2 DEF Revocation, CommitSweep, FinishRevokeAccess
<1> QED BY <1>2, <1>3 DEF Next, Tick, IssuePair, RevokeRefresh, Cleanup, StartCleanup,
          SelectBatch, DeleteBatch, DeleteRefreshBatch, DeleteAccessBatch, NextStage, KillCleanup, vars

LEMMA AimOnward ==
  ASSUME TypeOK, Structure, RowsOnward, CleanerRuns, BatchUnusable,
         FALSE \notin Rotation \/ ~RunCleanup, now' \in Nat, now' >= now,
         NEW q \in Request, req[q].phase = "revoke", req[q].token # Null, req'[q] = req[q],
         RevokeAim(q)
  PROVE  RevokeAim(q)'
<1> DEFINE r == req[q].token
           a == req[q].access
<1>0. r \in RefreshId /\ a \in AccessId /\ now \in Nat
  BY DEF TypeOK, RequestsOK, RequestState, OrNull
<1>1. CASE access[a].status = "gone"
  BY <1>0, <1>1 DEF RowsOnward, AccessOnward, RevokeAim
<1>2. CASE Live(r) /\ refresh[r].access = a
  <2>1. a # Null /\ StoredAccess(a) /\ RowOnward(r) /\ AccessOnward(a)
    <3>1. a # Null /\ StoredAccess(a)
      BY <1>0, <1>2, IdAssumption, BoundIsLive
    <3>2. refresh[r].status # "free" /\ access[a].status # "free"
      BY <1>2, <3>1 DEF Live, Stored, StoredAccess
    <3> QED BY <1>0, <3>1, <3>2 DEF RowsOnward
  <2>2. CASE Reaped(r)
    <3>1. r \in cleaner.batch /\ cleaner.stage \in {"revoked", "orphans", "expired"}
      BY <2>2 DEF Reaped, DeleteRefreshBatch
    <3>2. RunCleanup /\ cleaner.at <= now
      BY <3>1 DEF CleanerRuns
    <3>3. IdleBefore(r) /\ FALSE \notin Rotation
      BY <1>0, <1>2, <2>1, <3>1, <3>2 DEF BatchUnusable, Idles, CleanerRuns
    <3>4. access[a].expires \in Nat /\ cleaner.at \in Nat
      BY <1>0 DEF TypeOK, AccessRow
    <3>5. access[a].expires <= now'
      BY <1>0, <1>2, <3>2, <3>3, <3>4, SettingAssumption DEF IdleBefore
    <3> QED BY <2>1, <3>2, <3>3, <3>5 DEF AccessOnward, StoredAccess, RevokeAim
  <2>3. CASE ~Reaped(r)
    BY <1>0, <1>2, <2>1, <2>3 DEF RowOnward, RevokeAim
  <2> QED BY <2>2, <2>3
<1>3. CASE StoredAccess(a) /\ access[a].expires <= now /\ RunCleanup
  <2>1. AccessOnward(a) /\ access[a].status = "stored" /\ access[a].expires \in Nat
    BY <1>0, <1>3 DEF RowsOnward, StoredAccess, TypeOK, AccessRow
  <2>2. CASE access'[a].status = "gone"
    BY <2>2 DEF RevokeAim
  <2>3. CASE access'[a].status = "stored" /\ access'[a].expires = access[a].expires
    BY <1>0, <1>3, <2>1, <2>3 DEF RevokeAim, StoredAccess
  <2> QED BY <1>3, <2>1, <2>2, <2>3 DEF AccessOnward
<1> QED BY <1>1, <1>2, <1>3 DEF RevokeAim

LEMMA NextAims ==
  ASSUME TypeOK, Structure, RowsOnward, InFlight, [Next]_vars
  PROVE  RevokeAims'
<1> SUFFICES ASSUME FALSE \notin Rotation \/ ~RunCleanup,
                    NEW q \in Request, req'[q].phase = "revoke", req'[q].token # Null
             PROVE  RevokeAim(q)'
  BY DEF RevokeAims
<1>1. ASSUME NEW a \in AccessId, BeginRevokeAccess(q, a) PROVE RevokeAim(q)'
  <2>1. /\ UNCHANGED <<refresh, access>>
        /\ req'[q].access = a /\ req'[q].token \in BoundTo(a)
    BY <1>1 DEF BeginRevokeAccess, TypeOK, RequestsOK, Idle, OrNull
  <2>2. req'[q].token \in RefreshId /\ refresh[req'[q].token].access = a /\ a # Null
    BY <2>1, IdAssumption DEF BoundTo
  <2>3. Live(req'[q].token)
    BY <2>2, BoundIsLive
  <2> QED BY <2>1, <2>2, <2>3 DEF RevokeAim, Live, Stored
<1>2. CASE req'[q] = req[q]
  <2>1. RevokeAim(q)
    BY <1>2 DEF InFlight, RevokeAims
  <2> QED BY <1>2, <2>1, AimOnward, CleanerSteps DEF InFlight
<1> QED BY <1>1, <1>2, RevokePhase

LEMMA NextInFlight == TypeOK /\ Structure /\ InFlight /\ [Next]_vars => InFlight'
BY NextOnward, NextStructure, NextCleaner, NextBatches, NextAims DEF InFlight

LEMMA InFlightHolds == Spec => [](TypeOK /\ Structure /\ InFlight)
<1>1. Init => TypeOK /\ Structure /\ InFlight
  BY InitTypeOK, InitStructure, InitInFlight
<1>2. TypeOK /\ Structure /\ InFlight /\ [Next]_vars => TypeOK' /\ Structure' /\ InFlight'
  BY NextTypeOK, NextStructure, NextInFlight
<1> QED BY <1>1, <1>2, PTL DEF Spec

\* A superseded refresh token is never reaped as revoked while its grace window is open, so the
\* client that lost a rotation's response can still retry.  Under reuse protection clear_expired()
\* keeps revoked tokens for REFRESH_TOKEN_EXPIRE_SECONDS instead, which is then assumed to be no
\* shorter than the window.
THEOREM CleanupHonoursGrace ==
  ASSUME ~ReuseProtection \/ Grace <= IdleLife
  PROVE  Spec => CleanupKeepsGrace
<1> DEFINE Act == \A r \in RefreshId :
             cleaner.stage = "revoked" /\ Superseded(r) /\ refresh'[r].status = "gone"
               => Revoked(r) /\ GraceExpired(r)
<1>1. TypeOK /\ Structure /\ InFlight /\ [Next]_vars => [Act]_vars
  <2> SUFFICES ASSUME TypeOK, Structure, InFlight, [Next]_vars, NEW r \in RefreshId,
                      cleaner.stage = "revoked", Superseded(r), refresh'[r].status = "gone"
               PROVE  Revoked(r) /\ GraceExpired(r)
    OBVIOUS
  <2>1. refresh[r].status = "stored"
    BY IdAssumption DEF Superseded, Successors, Structure, PointersAreStored, Stored
  <2>2. Reaped(r)
    BY <2>1, NextOnward DEF RowsOnward, RowOnward
  <2>3. Revoked(r) /\ RevokedBefore(r) /\ cleaner.at <= now
    BY <2>1, <2>2 DEF Reaped, InFlight, BatchRevoked, CleanerRuns
  <2>4. cleaner.at \in Nat /\ now \in Nat /\ refresh[r].revoked \in Nat
    BY <2>3 DEF TypeOK, RefreshRow, OrNull, Revoked
  <2>5. refresh[r].revoked + Grace <= now
    BY <2>3, <2>4, SettingAssumption DEF RevokedBefore
  <2> QED BY <2>3, <2>5 DEF GraceExpired
<1> QED BY <1>1, InFlightHolds, PTL DEF Spec, CleanupKeepsGrace

\* The one usable refresh token that cleartokens deletes is one that a refresh with rotation off
\* prolonged in place after its batch had been selected: clear_expired() decides in one
\* transaction and deletes in another.  Where refreshes always rotate there is none.
THEOREM CleanupIsHarmless == Spec => CleanupSparesUsable
<1> DEFINE Act == \A r \in RefreshId : Usable(r) /\ refresh'[r].status = "gone"
                                          => refresh[r].access \in cleaner.renewed
<1>1. TypeOK /\ Structure /\ InFlight /\ [Next]_vars => [Act]_vars
  <2> SUFFICES ASSUME TypeOK, Structure, InFlight, [Next]_vars, NEW r \in RefreshId,
                      Usable(r), refresh'[r].status = "gone"
               PROVE  refresh[r].access \in cleaner.renewed
    OBVIOUS
  <2>1. refresh[r].status = "stored" /\ refresh[r].access # Null /\ refresh[r].access \in AccessId
    BY BoundIsLive DEF Usable, Live, Stored
  <2>2. Reaped(r)
    BY <2>1, NextOnward DEF RowsOnward, RowOnward
  <2>3. Idles(r) /\ cleaner.at <= now
    BY <2>1, <2>2 DEF Reaped, DeleteRefreshBatch, InFlight, BatchUnusable, CleanerRuns
  <2>4. cleaner.at \in Nat /\ now \in Nat /\ access[refresh[r].access].expires \in Nat
    BY <2>1 DEF TypeOK, AccessRow
  <2> QED BY <2>1, <2>3, <2>4, SettingAssumption DEF Idles, IdleBefore, Usable, AgeExpired
<1> QED BY <1>1, InFlightHolds, PTL DEF Spec, CleanupSparesUsable

\* Where refreshes always rotate, no row is ever prolonged in place, so cleartokens deletes no
\* refresh token that could still be used.
THEOREM RotatingCleanupIsHarmless ==
  ASSUME FALSE \notin Rotation
  PROVE  Spec => [][\A r \in RefreshId : Usable(r) => refresh'[r].status # "gone"]_vars
<1> DEFINE Harm == \A r \in RefreshId : Usable(r) /\ refresh'[r].status = "gone"
                                           => refresh[r].access \in cleaner.renewed
           Act == \A r \in RefreshId : Usable(r) => refresh'[r].status # "gone"
<1>1. InFlight /\ [Harm]_vars => [Act]_vars
  BY DEF InFlight, CleanerRuns
<1>2. Spec => [][Harm]_vars
  BY CleanupIsHarmless DEF CleanupSparesUsable
<1> QED BY <1>1, <1>2, InFlightHolds, PTL

\* Once /revoke/ has answered for an access token, that token is gone or has expired, although its
\* refresh token was looked up without a lock and may have been rotated, revoked or reaped since
\* (revoke_access_token).  A refresh that does not rotate can prolong an access token whose refresh
\* token a cleanup is about to take, so one of the two is excluded.
THEOREM AnsweredRevocationsHold ==
  ASSUME FALSE \notin Rotation \/ ~RunCleanup
  PROVE  Spec => RevokedAccessIsDead
<1> DEFINE Act == \A q \in Request : FinishRevokeAccess(q) =>
                    \/ access'[req[q].access].status = "gone"
                    \/ access'[req[q].access].expires <= now
<1>1. TypeOK /\ Structure /\ InFlight /\ [Next]_vars => [Act]_vars
  <2> SUFFICES ASSUME TypeOK, Structure, InFlight, NEW q \in Request, FinishRevokeAccess(q)
               PROVE  \/ access'[req[q].access].status = "gone"
                      \/ access'[req[q].access].expires <= now
    OBVIOUS
  <2> DEFINE r == req[q].token
             a == req[q].access
  <2>0. a \in AccessId /\ req[q].phase = "revoke"
    BY DEF FinishRevokeAccess, TypeOK, RequestsOK
  <2>1. CASE r = Null
    BY <2>0, <2>1 DEF FinishRevokeAccess, WithoutAccess, EmptyAccess
  <2>2. CASE r # Null
    <3>1. RevokeAim(q)
      BY <2>0, <2>2 DEF InFlight, RevokeAims
    <3>2. access' = AccessAfterRevoke(r)
      BY <2>2 DEF FinishRevokeAccess
    <3>3. CASE Live(r) /\ refresh[r].access = a
      BY <2>0, <3>2, <3>3 DEF AccessAfterRevoke, WithoutAccess, EmptyAccess
    <3>4. access'[a] = access[a] \/ access'[a].status = "gone"
      BY <2>0, <3>2 DEF AccessAfterRevoke, WithoutAccess, EmptyAccess
    <3> QED BY <3>1, <3>3, <3>4 DEF RevokeAim
  <2> QED BY <2>1, <2>2
<1> QED BY <1>1, InFlightHolds, PTL DEF Spec, RevokedAccessIsDead
=============================================================================
