----------------------- MODULE AuthorizationCodeProofs -----------------------
(***************************************************************************)
(* Single use of authorization codes and the bounds on what they buy, for  *)
(* any number of codes, requests, clients, scopes and resources.  The      *)
(* invariant is Redemptions, which AuthorizationCode states, with where a  *)
(* cleanup stands (CutoffPast), who won a code that is gone                *)
(* (SpentByWinner) and why a winner goes without its answer (LostIsUndone).*)
(***************************************************************************)
EXTENDS AuthorizationCode, TLAPS

\* A cleanup started in the past.
CutoffPast == cutoff # Null => cutoff <= now

\* A code that went before it expired has a winner, and a winner that cannot answer lost its
\* tokens to somebody who deleted them.
SpentByWinner == \A c \in Code : grant[c].status = "gone" /\ ~Expired(c) =>
                   \E q \in Request : Won(q) /\ req[q].code = c
LostIsUndone == \A q \in Request : req[q].phase = "lost" => pair[q].status = "gone"
SavedHasPair == \A q \in Request : Won(q) \/ req[q].phase = "saved" => pair[q].status # "none"

Inv == TypeOK /\ Redemptions /\ CutoffPast /\ SpentByWinner /\ SavedHasPair /\ LostIsUndone

LEMMA InitInv == Init => Inv
BY CodeAssumption
   DEF Init, Inv, TypeOK, Redemptions, RequestBound, WonIsGone, SavedWithinGrant, OneDelivery,
       CutoffPast, SpentByWinner, SavedHasPair, LostIsUndone, Won, NoGrant, GrantRow, NotSent, RequestState, Phase, Running,
       NoPair, PairRow

----------------------------------------------------------------------------
(* Types.                                                                  *)

\* A request that only moves on to another phase.
LEMMA PhaseTypes ==
  ASSUME TypeOK, NEW q \in Request, req[q].phase # "new", NEW ph \in Phase \ {"new"},
         req' = [req EXCEPT ![q].phase = ph]
  PROVE  /\ req' \in [Request -> RequestState]
         /\ \A p \in Request : req'[p].phase # "new" => req'[p].code \in Code
         /\ req'[q].phase = ph
         /\ \A p \in Request : /\ req'[p].code = req[p].code /\ req'[p].client = req[p].client
                               /\ req'[p].proof = req[p].proof /\ req'[p].scope = req[p].scope
                               /\ req'[p].resource = req[p].resource
                               /\ p # q => req'[p] = req[p]
BY DEF TypeOK, RequestState

LEMMA NextTypeOK == TypeOK /\ [Next]_vars => TypeOK'
<1> SUFFICES ASSUME TypeOK, [Next]_vars PROVE TypeOK'
  OBVIOUS
<1>1. CASE Tick
  BY <1>1 DEF Tick, TypeOK
<1>2. ASSUME NEW c \in Code, NEW cl \in Client, NEW pf \in Proof, NEW sc \in SUBSET Scope,
             NEW res \in SUBSET Resource, CreateAuthorizationCode(c, cl, pf, sc, res)
      PROVE  TypeOK'
  BY <1>2, CodeAssumption DEF CreateAuthorizationCode, Expiry, TypeOK, GrantRow
<1>3. ASSUME NEW q \in Request, Redemption(q)
      PROVE  TypeOK'
  <2>1. ASSUME NEW c \in Code, NEW cl \in Client, NEW pf \in Proof, NEW ask \in SUBSET Resource,
               ValidateCode(q, c, cl, pf, ask)
        PROVE  TypeOK'
    BY <2>1 DEF ValidateCode, TypeOK, GrantRow, RequestState, Phase, Running
  <2>2. CASE ConfirmBinding(q)
    BY <2>2, PhaseTypes DEF ConfirmBinding, TypeOK, Phase, Running
  <2>3. CASE SaveTokens(q)
    <3>1. PICK res \in RequestResource(q) :
            pair' = [pair EXCEPT ![q] = [status |-> "stored", scope |-> req[q].scope, resource |-> res]]
      BY <2>3 DEF SaveTokens
    <3>2. res \subseteq Resource /\ req[q].scope \subseteq Scope
      BY <2>3, <3>1 DEF SaveTokens, RequestResource, Stored, TypeOK, RequestState, GrantRow
    <3> QED BY <2>3, <3>1, <3>2, PhaseTypes DEF SaveTokens, TypeOK, PairRow, Phase, Running
  <2>4. CASE InvalidateCode(q)
    <3>1. grant' \in [Code -> GrantRow]
      BY <2>4 DEF InvalidateCode, TypeOK, GrantRow
    <3> QED BY <2>4, <3>1, PhaseTypes DEF InvalidateCode, TypeOK, Phase, Running
  <2>5. CASE CodeAlreadyGone(q)
    BY <2>5, PhaseTypes DEF CodeAlreadyGone, TypeOK, Phase, Running
  <2>6. CASE Respond(q)
    BY <2>6, PhaseTypes DEF Respond, TypeOK, Phase, Running
  <2>7. CASE Fail(q)
    BY <2>7, PhaseTypes DEF Fail, TypeOK, Phase, Running
  <2>8. CASE DropPair(q)
    BY <2>8 DEF DropPair, TypeOK, PairRow
  <2> QED BY <1>3, <2>1, <2>2, <2>3, <2>4, <2>5, <2>6, <2>7, <2>8 DEF Redemption
<1>4. CASE StartCleanup \/ StopCleanup
  BY <1>4 DEF StartCleanup, StopCleanup, TypeOK
<1>5. ASSUME NEW B \in SUBSET Code, DeleteBatch(B)
      PROVE  TypeOK'
  BY <1>5 DEF DeleteBatch, TypeOK, GrantRow
<1>6. CASE UNCHANGED vars
  BY <1>6 DEF vars, TypeOK
<1> QED BY <1>1, <1>2, <1>3, <1>4, <1>5, <1>6 DEF Next

----------------------------------------------------------------------------
(* Redemptions.                                                            *)

\* A row that is stored keeps its contents until it is stored no more, and never returns.
RowsOnward ==
  \A c \in Code :
    /\ grant'[c].status # "free" \/ grant[c].status = "free"
    /\ grant[c].status = "gone" => grant'[c].status = "gone"
    /\ grant[c].status # "free" =>
         /\ grant'[c].client = grant[c].client /\ grant'[c].proof = grant[c].proof
         /\ grant'[c].scope = grant[c].scope /\ grant'[c].resource = grant[c].resource
         /\ grant'[c].expires = grant[c].expires

\* Steps of the Grant table alone keep what requests rest on.
LEMMA TableStepRedemptions ==
  ASSUME TypeOK, Redemptions, RowsOnward, UNCHANGED <<req, pair>>
  PROVE  Redemptions'
<1> USE DEF Won
<1>1. RequestBound'
  BY DEF TypeOK, Redemptions, RequestBound, RowsOnward
<1>2. WonIsGone'
  BY DEF TypeOK, Redemptions, WonIsGone, RowsOnward
<1>3. SavedWithinGrant'
  <2> SUFFICES ASSUME NEW q \in Request,
                      Won(q) \/ (req[q].phase = "saved" /\ grant'[req[q].code].status = "stored")
               PROVE  /\ pair[q].scope = req[q].scope
                      /\ Audience(pair[q].resource) \subseteq Audience(grant'[req[q].code].resource)
    BY DEF SavedWithinGrant, Stored
  <2>1. req[q].code \in Code /\ grant[req[q].code].status # "free"
    BY DEF TypeOK, Redemptions, RequestBound
  <2>2. Won(q) \/ (req[q].phase = "saved" /\ Stored(req[q].code))
    BY <2>1 DEF RowsOnward, Stored, TypeOK, GrantRow
  <2> QED BY <2>1, <2>2 DEF Redemptions, SavedWithinGrant, RowsOnward
<1>4. OneDelivery'
  BY DEF Redemptions, OneDelivery
<1> QED BY <1>1, <1>2, <1>3, <1>4 DEF Redemptions

\* A request that moves on and neither wins, saves nor is proved.
LEMMA PhaseStepRedemptions ==
  ASSUME TypeOK, Redemptions, UNCHANGED <<grant, pair>>, NEW q \in Request,
         req[q].phase # "new", NEW ph \in Phase \ {"new", "saved"},
         req' = [req EXCEPT ![q].phase = ph],
         ph \in {"respond", "delivered", "lost", "crashed"} => Won(q),
         ph = "proved" => grant[req[q].code].proof = req[q].proof
  PROVE  Redemptions'
<1> USE DEF Won
<1>1. /\ req'[q].phase = ph
      /\ \A p \in Request : /\ req'[p].code = req[p].code /\ req'[p].client = req[p].client
                            /\ req'[p].proof = req[p].proof /\ req'[p].scope = req[p].scope
                            /\ p # q => req'[p] = req[p]
  BY PhaseTypes
<1>2. RequestBound'
  BY <1>1 DEF Redemptions, RequestBound
<1>3. WonIsGone'
  BY <1>1 DEF Redemptions, WonIsGone
<1>4. SavedWithinGrant'
  <2> SUFFICES ASSUME NEW p \in Request, (Won(p) \/ (req[p].phase = "saved" /\ Stored(req[p].code)))'
               PROVE  /\ pair'[p].scope = req'[p].scope
                      /\ Audience(pair'[p].resource) \subseteq Audience(grant'[req'[p].code].resource)
    BY DEF SavedWithinGrant
  <2> QED BY <1>1 DEF Redemptions, SavedWithinGrant, Stored
<1>5. OneDelivery'
  BY <1>1 DEF Redemptions, OneDelivery
<1> QED BY <1>2, <1>3, <1>4, <1>5 DEF Redemptions

LEMMA ValidateRedemptions ==
  ASSUME TypeOK, Redemptions, NEW q \in Request, NEW c \in Code, NEW cl \in Client,
         NEW pf \in Proof, NEW ask \in SUBSET Resource, ValidateCode(q, c, cl, pf, ask)
  PROVE  Redemptions'
<1> USE DEF Won
<1>1. /\ req'[q].phase = "valid" /\ req'[q].code = c /\ req'[q].client = cl
      /\ req'[q].scope = grant[c].scope
      /\ \A p \in Request : p # q => req'[p] = req[p]
      /\ Stored(c) /\ grant[c].client = cl
      /\ UNCHANGED <<grant, pair>>
  BY DEF ValidateCode, TypeOK
<1>2. RequestBound'
  BY <1>1 DEF Redemptions, RequestBound, Stored
<1>3. WonIsGone'
  BY <1>1 DEF Redemptions, WonIsGone
<1>4. SavedWithinGrant'
  <2> SUFFICES ASSUME NEW p \in Request, (Won(p) \/ (req[p].phase = "saved" /\ Stored(req[p].code)))'
               PROVE  /\ pair'[p].scope = req'[p].scope
                      /\ Audience(pair'[p].resource) \subseteq Audience(grant'[req'[p].code].resource)
    BY DEF SavedWithinGrant
  <2> QED BY <1>1 DEF Redemptions, SavedWithinGrant, Stored
<1>5. OneDelivery'
  BY <1>1 DEF Redemptions, OneDelivery
<1> QED BY <1>2, <1>3, <1>4, <1>5 DEF Redemptions

\* What is saved while the code is stored is no wider than the code.
LEMMA ResourceWithin ==
  ASSUME TypeOK, NEW q \in Request, Stored(req[q].code), req[q].code \in Code,
         NEW res \in RequestResource(q)
  PROVE  Audience(res) \subseteq Audience(grant[req[q].code].resource)
BY DEF RequestResource, Audience, TypeOK, RequestState, GrantRow

LEMMA SaveRedemptions ==
  ASSUME TypeOK, Redemptions, NEW q \in Request, SaveTokens(q)
  PROVE  Redemptions'
<1> USE DEF Won
<1>1. PICK res \in RequestResource(q) :
        pair' = [pair EXCEPT ![q] = [status |-> "stored", scope |-> req[q].scope, resource |-> res]]
  BY DEF SaveTokens
<1>2. /\ req[q].phase = "proved" /\ req' = [req EXCEPT ![q].phase = "saved"]
      /\ UNCHANGED grant /\ "saved" \in Phase \ {"new"}
  BY DEF SaveTokens, Phase, Running
<1>3. /\ req'[q].phase = "saved"
      /\ \A p \in Request : /\ req'[p].code = req[p].code /\ req'[p].client = req[p].client
                            /\ req'[p].proof = req[p].proof /\ req'[p].scope = req[p].scope
                            /\ p # q => req'[p] = req[p]
  BY <1>2, PhaseTypes
<1>4. /\ pair'[q].scope = req[q].scope /\ pair'[q].resource = res
      /\ \A p \in Request : p # q => pair'[p] = pair[p]
  BY <1>1 DEF TypeOK
<1>5. RequestBound'
  BY <1>2, <1>3 DEF Redemptions, RequestBound
<1>6. WonIsGone'
  BY <1>2, <1>3 DEF Redemptions, WonIsGone
<1>7. SavedWithinGrant'
  <2>1. req[q].code \in Code
    BY <1>2 DEF TypeOK
  <2>2. Stored(req[q].code) => Audience(res) \subseteq Audience(grant[req[q].code].resource)
    BY <2>1, ResourceWithin
  <2> SUFFICES ASSUME NEW p \in Request, (Won(p) \/ (req[p].phase = "saved" /\ Stored(req[p].code)))'
               PROVE  /\ pair'[p].scope = req'[p].scope
                      /\ Audience(pair'[p].resource) \subseteq Audience(grant'[req'[p].code].resource)
    BY DEF SavedWithinGrant
  <2>3. CASE p = q
    <3>1. Stored(req[q].code)
      BY <1>2, <1>3, <2>3 DEF Stored
    <3> QED BY <1>2, <1>3, <1>4, <2>2, <2>3, <3>1
  <2>4. CASE p # q
    BY <1>2, <1>3, <1>4, <2>4 DEF Redemptions, SavedWithinGrant, Stored
  <2> QED BY <2>3, <2>4
<1>8. OneDelivery'
  BY <1>2, <1>3 DEF Redemptions, OneDelivery
<1> QED BY <1>5, <1>6, <1>7, <1>8 DEF Redemptions

\* The DELETE that finds the row: nobody else has won the code, whose row was there until now.
LEMMA InvalidateRedemptions ==
  ASSUME TypeOK, Redemptions, NEW q \in Request, InvalidateCode(q)
  PROVE  Redemptions'
<1> USE DEF Won
<1> DEFINE c == req[q].code
<1>1. /\ req[q].phase = "saved" /\ req' = [req EXCEPT ![q].phase = "respond"]
      /\ Stored(c) /\ c \in Code /\ grant' = [grant EXCEPT ![c].status = "gone"]
      /\ UNCHANGED pair /\ "respond" \in Phase \ {"new"}
  BY DEF InvalidateCode, Phase, Running, TypeOK
<1>2. /\ req'[q].phase = "respond"
      /\ \A p \in Request : /\ req'[p].code = req[p].code /\ req'[p].client = req[p].client
                            /\ req'[p].proof = req[p].proof /\ req'[p].scope = req[p].scope
                            /\ p # q => req'[p] = req[p]
  BY <1>1, PhaseTypes
<1>3. /\ grant'[c].status = "gone" /\ \A d \in Code : d # c => grant'[d] = grant[d]
      /\ grant'[c].client = grant[c].client /\ grant'[c].proof = grant[c].proof
      /\ grant'[c].scope = grant[c].scope /\ grant'[c].resource = grant[c].resource
  BY <1>1 DEF TypeOK, GrantRow
<1>4. \A p \in Request : Won(p) => req[p].code # c
  BY <1>1 DEF Redemptions, WonIsGone, Stored
<1>5. \A p \in Request : req[p].phase # "new" => req[p].code \in Code
  BY DEF TypeOK
<1> HIDE DEF c
<1>6. RequestBound'
  BY <1>1, <1>2, <1>3, <1>5 DEF Redemptions, RequestBound, c
<1>7. WonIsGone'
  BY <1>1, <1>2, <1>3, <1>5 DEF Redemptions, WonIsGone, c
<1>8. SavedWithinGrant'
  <2> SUFFICES ASSUME NEW p \in Request, (Won(p) \/ (req[p].phase = "saved" /\ Stored(req[p].code)))'
               PROVE  /\ pair'[p].scope = req'[p].scope
                      /\ Audience(pair'[p].resource) \subseteq Audience(grant'[req'[p].code].resource)
    BY DEF SavedWithinGrant
  <2>0. pair[q].scope = req[q].scope /\ Audience(pair[q].resource) \subseteq Audience(grant[c].resource)
    BY <1>1 DEF Redemptions, SavedWithinGrant, c
  <2>1. CASE p = q
    BY <1>1, <1>2, <1>3, <2>0, <2>1 DEF c
  <2>2. CASE p # q
    <3>1. req'[p] = req[p] /\ pair'[p] = pair[p] /\ req[p].code \in Code
      BY <1>1, <1>2, <1>5, <2>2
    <3>2. req[p].code # c /\ grant'[req[p].code] = grant[req[p].code]
      BY <1>3, <1>4, <3>1 DEF Stored
    <3> QED BY <3>1, <3>2 DEF Redemptions, SavedWithinGrant, Stored
  <2> QED BY <2>1, <2>2
<1>9. OneDelivery'
  BY <1>1, <1>2, <1>4 DEF Redemptions, OneDelivery, c
<1> QED BY <1>6, <1>7, <1>8, <1>9 DEF Redemptions

LEMMA DropRedemptions ==
  ASSUME TypeOK, Redemptions, NEW q \in Request, DropPair(q)
  PROVE  Redemptions'
<1>1. /\ UNCHANGED <<grant, req>>
      /\ \A p \in Request : pair'[p].scope = pair[p].scope /\ pair'[p].resource = pair[p].resource
  BY DEF DropPair, TypeOK, PairRow
<1>2. RequestBound' /\ WonIsGone' /\ OneDelivery'
  BY <1>1 DEF Redemptions, RequestBound, WonIsGone, OneDelivery, Won
<1>3. SavedWithinGrant'
  <2> SUFFICES ASSUME NEW p \in Request, (Won(p) \/ (req[p].phase = "saved" /\ Stored(req[p].code)))'
               PROVE  /\ pair'[p].scope = req'[p].scope
                      /\ Audience(pair'[p].resource) \subseteq Audience(grant'[req'[p].code].resource)
    BY DEF SavedWithinGrant
  <2> QED BY <1>1 DEF Redemptions, SavedWithinGrant, Stored, Won
<1> QED BY <1>2, <1>3 DEF Redemptions

LEMMA NextRedemptions == TypeOK /\ Redemptions /\ [Next]_vars => Redemptions'
<1> SUFFICES ASSUME TypeOK, Redemptions, [Next]_vars PROVE Redemptions'
  OBVIOUS
<1>1. CASE UNCHANGED <<grant, req, pair>>
  BY <1>1, TableStepRedemptions DEF RowsOnward
<1>2. ASSUME NEW c \in Code, NEW cl \in Client, NEW pf \in Proof, NEW sc \in SUBSET Scope,
             NEW res \in SUBSET Resource, CreateAuthorizationCode(c, cl, pf, sc, res)
      PROVE  Redemptions'
  <2>1. RowsOnward
    BY <1>2 DEF CreateAuthorizationCode, RowsOnward, TypeOK
  <2> QED BY <1>2, <2>1, TableStepRedemptions DEF CreateAuthorizationCode
<1>3. ASSUME NEW q \in Request, Redemption(q)
      PROVE  Redemptions'
  <2>1. ASSUME NEW c \in Code, NEW cl \in Client, NEW pf \in Proof, NEW ask \in SUBSET Resource,
               ValidateCode(q, c, cl, pf, ask)
        PROVE  Redemptions'
    BY <2>1, ValidateRedemptions
  <2>2. CASE ConfirmBinding(q)
    <3>1. "proved" \in Phase \ {"new", "saved"}
      BY DEF Phase, Running
    <3> QED BY <2>2, <3>1, PhaseStepRedemptions DEF ConfirmBinding
  <2>3. CASE SaveTokens(q)
    BY <2>3, SaveRedemptions
  <2>4. CASE InvalidateCode(q)
    BY <2>4, InvalidateRedemptions
  <2>5. CASE CodeAlreadyGone(q)
    <3>1. "rejected" \in Phase \ {"new", "saved"}
      BY DEF Phase
    <3> QED BY <2>5, <3>1, PhaseStepRedemptions DEF CodeAlreadyGone
  <2>6. CASE Respond(q)
    <3> DEFINE ph == IF pair[q].status = "stored" THEN "delivered" ELSE "lost"
    <3>1. ph \in Phase \ {"new", "saved"} /\ ph # "proved"
      BY DEF Phase
    <3>2. Won(q) /\ req[q].phase # "new" /\ req' = [req EXCEPT ![q].phase = ph] /\ UNCHANGED <<grant, pair>>
      BY <2>6 DEF Respond, Won
    <3> HIDE DEF ph
    <3> QED BY <3>1, <3>2, PhaseStepRedemptions
  <2>7. CASE Fail(q)
    <3> DEFINE ph == IF req[q].phase = "respond" THEN "crashed" ELSE "rejected"
    <3>1. ph \in Phase \ {"new", "saved"} /\ ph # "proved"
      BY DEF Phase
    <3>2. ph \in {"respond", "delivered", "lost", "crashed"} => Won(q)
      BY DEF Won
    <3>3. req[q].phase # "new" /\ req' = [req EXCEPT ![q].phase = ph] /\ UNCHANGED <<grant, pair>>
      BY <2>7 DEF Fail, Running
    <3> HIDE DEF ph
    <3> QED BY <3>1, <3>2, <3>3, PhaseStepRedemptions
  <2>8. CASE DropPair(q)
    BY <2>8, DropRedemptions
  <2> QED BY <1>3, <2>1, <2>2, <2>3, <2>4, <2>5, <2>6, <2>7, <2>8 DEF Redemption
<1>4. ASSUME NEW B \in SUBSET Code, DeleteBatch(B)
      PROVE  Redemptions'
  <2>1. RowsOnward
    BY <1>4 DEF DeleteBatch, RowsOnward, TypeOK, GrantRow
  <2> QED BY <1>4, <2>1, TableStepRedemptions DEF DeleteBatch
<1> QED BY <1>1, <1>2, <1>3, <1>4 DEF Next, Tick, StartCleanup, StopCleanup, vars

----------------------------------------------------------------------------
(* What becomes of codes and of winners.                                   *)

LEMMA NextCutoff == TypeOK /\ CutoffPast /\ [Next]_vars => CutoffPast' /\ now' >= now
<1> SUFFICES ASSUME TypeOK, CutoffPast, [Next]_vars PROVE CutoffPast' /\ now' >= now
  OBVIOUS
<1>1. CASE Tick \/ StartCleanup
  BY <1>1, CodeAssumption DEF Tick, StartCleanup, TypeOK, CutoffPast
<1>2. CASE UNCHANGED now /\ (UNCHANGED cutoff \/ cutoff' = Null)
  BY <1>2 DEF TypeOK, CutoffPast
<1>3. ASSUME NEW q \in Request, Redemption(q) PROVE UNCHANGED <<now, cutoff>>
  BY <1>3 DEF Redemption, ValidateCode, ConfirmBinding, SaveTokens, InvalidateCode, CodeAlreadyGone,
              Respond, Fail, DropPair
<1> QED BY <1>1, <1>2, <1>3 DEF Next, CreateAuthorizationCode, StopCleanup, DeleteBatch, vars

\* Who won stays a winner of the same code, through a lost answer or a logout.
LEMMA WinnersStay ==
  ASSUME TypeOK, [Next]_vars, NEW q \in Request
  PROVE  /\ Won(q) => Won(q)' /\ req'[q].code = req[q].code
         /\ Won(q)' => Won(q) \/ InvalidateCode(q)
<1> USE DEF Won
<1>1. CASE UNCHANGED req
  BY <1>1
<1>2. ASSUME NEW p \in Request, Redemption(p)
      PROVE  /\ Won(q) => Won(q)' /\ req'[q].code = req[q].code
             /\ Won(q)' => Won(q) \/ InvalidateCode(q)
  <2>1. ASSUME NEW c \in Code, NEW cl \in Client, NEW pf \in Proof, NEW ask \in SUBSET Resource,
               ValidateCode(p, c, cl, pf, ask)
        PROVE  /\ Won(q) => Won(q)' /\ req'[q].code = req[q].code
               /\ Won(q)' => Won(q)
    BY <2>1 DEF ValidateCode, TypeOK
  <2>2. CASE InvalidateCode(p)
    BY <2>2 DEF InvalidateCode, TypeOK, RequestState
  <2>3. CASE ConfirmBinding(p) \/ SaveTokens(p) \/ CodeAlreadyGone(p)
    BY <2>3 DEF ConfirmBinding, SaveTokens, CodeAlreadyGone, TypeOK, RequestState
  <2>4. CASE Respond(p) \/ Fail(p)
    BY <2>4 DEF Respond, Fail, Running, TypeOK, RequestState
  <2>5. CASE DropPair(p)
    BY <2>5 DEF DropPair
  <2> QED BY <1>2, <2>1, <2>2, <2>3, <2>4, <2>5 DEF Redemption
<1> QED BY <1>1, <1>2
        DEF Next, Tick, CreateAuthorizationCode, StartCleanup, StopCleanup, DeleteBatch, vars

\* What a step does to the Grant table: it adds a row, a winner takes one, or a cleanup that
\* started after they expired deletes some.
TableStep ==
  \/ UNCHANGED grant
  \/ \E c \in Code : /\ grant[c].status = "free" /\ grant'[c].status = "stored"
                      /\ \A d \in Code \ {c} : grant'[d] = grant[d]
  \/ \E q \in Request : InvalidateCode(q)
  \/ \E B \in SUBSET Code : DeleteBatch(B)

LEMMA NextTable == TypeOK /\ [Next]_vars => TableStep
<1> SUFFICES ASSUME TypeOK, [Next]_vars PROVE TableStep
  OBVIOUS
<1>1. ASSUME NEW c \in Code, NEW cl \in Client, NEW pf \in Proof, NEW sc \in SUBSET Scope,
             NEW res \in SUBSET Resource, CreateAuthorizationCode(c, cl, pf, sc, res)
      PROVE  TableStep
  BY <1>1 DEF CreateAuthorizationCode, TableStep, TypeOK
<1>2. ASSUME NEW q \in Request, Redemption(q) PROVE TableStep
  BY <1>2 DEF Redemption, ValidateCode, ConfirmBinding, SaveTokens, CodeAlreadyGone, Respond, Fail,
              DropPair, TableStep
<1>3. ASSUME NEW B \in SUBSET Code, DeleteBatch(B) PROVE TableStep
  BY <1>3 DEF TableStep
<1> QED BY <1>1, <1>2, <1>3 DEF Next, Tick, StartCleanup, StopCleanup, vars, TableStep

\* A cleanup takes expired codes only.
LEMMA BatchExpired ==
  ASSUME TypeOK, CutoffPast, NEW B \in SUBSET Code, DeleteBatch(B), NEW c \in B
  PROVE  Expired(c) /\ Stored(c)
BY CodeAssumption DEF DeleteBatch, Overdue, CutoffPast, Expired, TypeOK, GrantRow

LEMMA NextSpent ==
  ASSUME TypeOK, CutoffPast, SpentByWinner, [Next]_vars
  PROVE  SpentByWinner'
<1> SUFFICES ASSUME NEW c \in Code, grant'[c].status = "gone", ~Expired(c)'
             PROVE  \E q \in Request : Won(q)' /\ req'[q].code = c
  BY DEF SpentByWinner
<1>1. now \in Nat /\ now' \in Nat /\ now' >= now
  BY NextTypeOK, NextCutoff DEF TypeOK
<1>2. ASSUME grant[c].status = "gone", grant'[c].expires = grant[c].expires
      PROVE  \E q \in Request : Won(q)' /\ req'[q].code = c
  <2>1. ~Expired(c)
    BY <1>1, <1>2 DEF Expired, TypeOK, GrantRow
  <2>2. PICK q \in Request : Won(q) /\ req[q].code = c
    BY <1>2, <2>1 DEF SpentByWinner
  <2> QED BY <2>2, WinnersStay
<1>3. CASE UNCHANGED grant
  BY <1>2, <1>3
<1>4. ASSUME NEW d \in Code, grant[d].status = "free", grant'[d].status = "stored",
             \A e \in Code \ {d} : grant'[e] = grant[e]
      PROVE  \E q \in Request : Won(q)' /\ req'[q].code = c
  BY <1>2, <1>4
<1>5. ASSUME NEW q \in Request, InvalidateCode(q)
      PROVE  \E p \in Request : Won(p)' /\ req'[p].code = c
  <2>1. CASE req[q].code = c
    BY <1>5, <2>1 DEF InvalidateCode, Won, TypeOK, RequestState
  <2>2. CASE req[q].code # c
    BY <1>2, <1>5, <2>2 DEF InvalidateCode, TypeOK
  <2> QED BY <2>1, <2>2
<1>6. ASSUME NEW B \in SUBSET Code, DeleteBatch(B)
      PROVE  \E q \in Request : Won(q)' /\ req'[q].code = c
  <2>1. CASE c \in B
    <3>1. Expired(c)
      BY <1>6, <2>1, BatchExpired
    <3>2. grant'[c].expires = grant[c].expires
      BY <1>6, <2>1 DEF DeleteBatch, TypeOK, GrantRow
    <3> QED BY <1>1, <3>1, <3>2 DEF Expired, TypeOK, GrantRow
  <2>2. CASE c \notin B
    BY <1>2, <1>6, <2>2 DEF DeleteBatch
  <2> QED BY <2>1, <2>2
<1> QED BY <1>3, <1>4, <1>5, <1>6, NextTable DEF TableStep

\* A request that saved has its pair, whose row is stored until somebody deletes it.
LEMMA NextPairs ==
  ASSUME TypeOK, SavedHasPair, LostIsUndone, [Next]_vars
  PROVE  SavedHasPair' /\ LostIsUndone'
<1> USE DEF Won, SavedHasPair, LostIsUndone
<1>1. CASE UNCHANGED <<req, pair>>
  BY <1>1
<1>2. ASSUME NEW q \in Request, Redemption(q) PROVE SavedHasPair' /\ LostIsUndone'
  <2>1. ASSUME NEW c \in Code, NEW cl \in Client, NEW pf \in Proof, NEW ask \in SUBSET Resource,
               ValidateCode(q, c, cl, pf, ask)
        PROVE  SavedHasPair' /\ LostIsUndone'
    BY <2>1 DEF ValidateCode, TypeOK
  <2>2. CASE ConfirmBinding(q) \/ InvalidateCode(q) \/ CodeAlreadyGone(q)
    BY <2>2 DEF ConfirmBinding, InvalidateCode, CodeAlreadyGone, TypeOK, RequestState
  <2>3. CASE SaveTokens(q)
    BY <2>3 DEF SaveTokens, TypeOK, RequestState
  <2>4. CASE Respond(q)
    BY <2>4 DEF Respond, TypeOK, RequestState, PairRow
  <2>5. CASE Fail(q)
    BY <2>5 DEF Fail, Running, TypeOK, RequestState
  <2>6. CASE DropPair(q)
    BY <2>6 DEF DropPair, TypeOK, PairRow
  <2> QED BY <1>2, <2>1, <2>2, <2>3, <2>4, <2>5, <2>6 DEF Redemption
<1> QED BY <1>1, <1>2
        DEF Next, Tick, CreateAuthorizationCode, StartCleanup, StopCleanup, DeleteBatch, vars

LEMMA NextInv == Inv /\ [Next]_vars => Inv'
BY NextTypeOK, NextRedemptions, NextCutoff, NextSpent, NextPairs DEF Inv

LEMMA InvHolds == Spec => []Inv
BY InitInv, NextInv, PTL DEF Spec

\* Every table and every request in flight keeps its shape (create_token_response).
THEOREM CodesAreTyped == Spec => []TypeOK
BY InvHolds, PTL DEF Inv

\* Tokens that are answered hold the scope and audience of the grant they were bought with and
\* went to the client, redirect URI and verifier it is bound to, although each racing request
\* stores a pair and reads the grant several times before it (save_bearer_token).
THEOREM CodesAreBounds == Spec => []DeliveredWithinGrant
<1>1. Redemptions => DeliveredWithinGrant
  BY DEF Redemptions, RequestBound, SavedWithinGrant, DeliveredWithinGrant, Won
<1> QED BY <1>1, InvHolds, PTL DEF Inv

\* A code that went before it expired was spent by a request that answers with its tokens, unless
\* somebody deleted those tokens before TokenView read them back, or its worker crashed after the
\* DELETE: no other redemption takes the answer away (invalidate_authorization_code).
THEOREM CodesAreWon == Spec => []SpentCodeWasWon
<1>1. SpentByWinner /\ LostIsUndone => SpentCodeWasWon
  BY DEF SpentByWinner, LostIsUndone, SpentCodeWasWon, Won, Answered, Undone, Crashed
<1> QED BY <1>1, InvHolds, PTL DEF Inv

\* cleartokens deletes expired codes only, whenever it started and whatever it was overtaken by.
THEOREM CleanupSparesCodes == Spec => CleanupSparesLiveCodes
<1>1. Inv /\ [Next]_vars =>
        [\A c \in Code : \A B \in SUBSET Code : DeleteBatch(B) /\ c \in B => Expired(c)]_vars
  BY BatchExpired DEF Inv
<1> QED BY <1>1, InvHolds, PTL DEF Spec, CleanupSparesLiveCodes

----------------------------------------------------------------------------
(* A code is a single-use ticket.                                          *)

TicketStep == [Ticket!Next]_<<TicketState, TicketHolders>>

\* Requests that do not win leave the holders alone.
LEMMA HoldersStay ==
  ASSUME TypeOK, [Next]_vars, \A q \in Request : ~InvalidateCode(q)
  PROVE  TicketHolders' = TicketHolders
BY WinnersStay DEF TicketHolders

LEMMA RedeemTicket ==
  ASSUME TypeOK, Redemptions, [Next]_vars, NEW q \in Request, InvalidateCode(q)
  PROVE  Ticket!Redeem(req[q].code, q)
<1> DEFINE c == req[q].code
<1>1. /\ c \in Code /\ grant[c].status = "stored" /\ grant'[c].status = "gone"
      /\ \A d \in Code : d # c => grant'[d] = grant[d]
      /\ Won(q)' /\ req'[q].code = c
      /\ \A p \in Request : p # q => req'[p] = req[p]
  BY DEF InvalidateCode, Stored, Won, TypeOK, GrantRow, RequestState
<1>2. \A p \in Request : Won(p) => req[p].code # c
  BY <1>1 DEF Redemptions, WonIsGone
<1>3. ~Won(q)
  BY DEF InvalidateCode, Won
<1> HIDE DEF c
<1>4. TicketState' = [TicketState EXCEPT ![c] = "spent"] /\ TicketState[c] = "open"
  BY <1>1 DEF TicketState
<1>5. TicketHolders' = [TicketHolders EXCEPT ![c] = {q}]
  <2>1. {p \in Request : Won(p)' /\ req'[p].code = c} = {q}
    BY <1>1, <1>2, <1>3 DEF Won
  <2>2. \A d \in Code : d # c =>
          {p \in Request : Won(p)' /\ req'[p].code = d} = {p \in Request : Won(p) /\ req[p].code = d}
    BY <1>1, <1>3 DEF Won
  <2> QED BY <1>1, <2>1, <2>2 DEF TicketHolders
<1> QED BY <1>4, <1>5 DEF Ticket!Redeem, c

LEMMA NextTicket ==
  ASSUME TypeOK, Redemptions, CutoffPast, [Next]_vars
  PROVE  TicketStep
<1>1. CASE UNCHANGED grant
  <2>1. \A q \in Request : ~InvalidateCode(q)
    BY <1>1 DEF InvalidateCode, Stored, TypeOK, GrantRow
  <2>2. TicketState' = TicketState
    BY <1>1 DEF TicketState
  <2> QED BY <2>1, <2>2, HoldersStay DEF TicketStep
<1>2. ASSUME NEW c \in Code, grant[c].status = "free", grant'[c].status = "stored",
             \A d \in Code \ {c} : grant'[d] = grant[d]
      PROVE  TicketStep
  <2>1. \A q \in Request : ~InvalidateCode(q)
    BY <1>2 DEF InvalidateCode, Stored, TypeOK, GrantRow
  <2>2. TicketState[c] = "unissued" /\ TicketState' = [TicketState EXCEPT ![c] = "open"]
    BY <1>2 DEF TicketState
  <2>3. Ticket!Issue(c)
    BY <2>1, <2>2, HoldersStay DEF Ticket!Issue
  <2> QED BY <2>3 DEF TicketStep, Ticket!Next
<1>3. ASSUME NEW q \in Request, InvalidateCode(q)
      PROVE  TicketStep
  <2>1. req[q].code \in Code
    BY <1>3 DEF InvalidateCode, TypeOK
  <2> QED BY <1>3, <2>1, RedeemTicket DEF TicketStep, Ticket!Next
<1>4. ASSUME NEW B \in SUBSET Code, DeleteBatch(B)
      PROVE  TicketStep
  <2>1. \A q \in Request : ~InvalidateCode(q)
    BY <1>4 DEF InvalidateCode, DeleteBatch, TypeOK, RequestState
  <2>2. /\ B # {} /\ \A c \in B : TicketState[c] = "open"
        /\ TicketState' = [c \in Code |-> IF c \in B THEN "spent" ELSE TicketState[c]]
    BY <1>4 DEF DeleteBatch, Overdue, Stored, TicketState, TypeOK, GrantRow
  <2>3. Ticket!Withdraw(B)
    BY <2>1, <2>2, HoldersStay DEF Ticket!Withdraw
  <2> QED BY <2>3 DEF TicketStep, Ticket!Next
<1> QED BY <1>1, <1>2, <1>3, <1>4, NextTable DEF TableStep

\* Authorization codes implement SingleUse: whatever overlaps, a code is issued once and spent by
\* at most one request, never after a cleanup withdrew it.  (Whose it is and what it buys is
\* CodesAreBounds; a request that validated it in time may spend it after its expiry.)
THEOREM CodesAreSingleUse == Spec => IsSingleUse
<1>1. Init => Ticket!Init
  BY DEF Init, Ticket!Init, TicketState, TicketHolders, NoGrant, NotSent, Won
<1>2. Inv /\ [Next]_vars => TicketStep
  BY NextTicket DEF Inv
<1> QED BY <1>1, <1>2, InvHolds, PTL DEF Spec, IsSingleUse, Ticket!Spec, TicketStep
=============================================================================
