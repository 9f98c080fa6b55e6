---------------------- MODULE PushedAuthorizationProofs ----------------------
(***************************************************************************)
(* Single use of request_uri values, and what mandatory PAR secures for    *)
(* visits that enter by get(), for any number of pushes, clients and       *)
(* visits, any number of submissions and any lifetime.  The invariant is   *)
(* Visits, which PushedAuthorization states, with where a cleanup stands   *)
(* (ReaperPast) and that a visit consumes one request_uri at most          *)
(* (ConsumesOnce).                                                         *)
(***************************************************************************)
EXTENDS PushedAuthorization, TLAPS

\* A cleanup started in the past.
ReaperPast == reaper # Null => reaper <= now

\* A visit that consumed a request_uri is under way and has none left to present: get() rewrites
\* the query.
ConsumesOnce == \A v \in Visit : visit[v].source # Null =>
                  visit[v].uri = Null /\ visit[v].phase # "new"

Inv == TypeOK /\ Visits /\ ReaperPast /\ ConsumesOnce

LEMMA InitInv == Init => Inv
<1> SUFFICES ASSUME Init PROVE Inv
  OBVIOUS
<1>1. NotStarted \in VisitState /\ NotPushed \in PushedRow
  BY PushAssumption DEF NotStarted, VisitState, NotPushed, PushedRow
<1>2. TypeOK
  BY <1>1 DEF Init, TypeOK
<1>3. Visits /\ ReaperPast /\ ConsumesOnce
  BY DEF Init, Visits, OneConsumer, ConsumedIsGone, PlainHasNoForm, ReaperPast, ConsumesOnce, NotStarted
<1> QED BY <1>2, <1>3 DEF Inv

----------------------------------------------------------------------------
(* What the steps of a visit do.                                           *)

\* Visit v becomes r, the others stay.
Becomes(v, r) == /\ visit' = [visit EXCEPT ![v] = r]
                 /\ r \in VisitState

LEMMA BecomesEffect ==
  ASSUME TypeOK, NEW v \in Visit, NEW r, Becomes(v, r)
  PROVE  /\ visit' \in [Visit -> VisitState]
         /\ visit'[v] = r
         /\ \A w \in Visit : w # v => visit'[w] = visit[w]
BY DEF Becomes, TypeOK

\* The kinds of steps: the visit starts, or is a POST with fields of its own, goes on with nothing new, finds its request_uri expired,
\* consumes it, or leaves the consent page with a code.
Keeps(v, r) ==
  /\ Becomes(v, r)
  /\ r.client = visit[v].client /\ r.source = visit[v].source /\ r.usedAt = visit[v].usedAt
  /\ r.uri = visit[v].uri /\ r.phase # "new" /\ visit[v].phase # "posted"
Starts(v, r) ==
  /\ Becomes(v, r) /\ UNCHANGED pushed
  /\ visit[v].phase = "new" /\ r.source = Null
  /\ (r.codes = 0 /\ r.phase = "get") \/ r.phase = "posted"
Moves(v, r) ==
  /\ Keeps(v, r) /\ UNCHANGED pushed /\ r.codes = visit[v].codes
  /\ r.phase = "resolved" => ~Required(v)
  /\ r.phase = "form" => visit[v].phase = "resolved"
Expires(v, r) ==
  /\ Keeps(v, r) /\ r.codes = visit[v].codes /\ r.phase = "error"
  /\ visit[v].uri \in Uri /\ Stored(visit[v].uri) /\ Expired(visit[v].uri)
  /\ pushed' = Delete({visit[v].uri})
Consumes(v, r) ==
  /\ Becomes(v, r)
  /\ visit[v].uri \in Uri /\ Stored(visit[v].uri) /\ ~Expired(visit[v].uri)
  /\ pushed[visit[v].uri].client = visit[v].client
  /\ pushed' = Delete({visit[v].uri})
  /\ r.client = visit[v].client /\ r.source = visit[v].uri /\ r.usedAt = now /\ r.uri = Null
  /\ r.phase = "resolved"
Obtains(v, r) ==
  /\ Keeps(v, r) /\ UNCHANGED pushed
  /\ visit[v].phase \in {"resolved", "form"} /\ r.phase \in {"done", "form"}

VisitStep(v) ==
  \E r : Starts(v, r) \/ Moves(v, r) \/ Expires(v, r) \/ Consumes(v, r) \/ Obtains(v, r)

LEMMA BrowseSteps ==
  ASSUME TypeOK, NEW v \in Visit, Browse(v)
  PROVE  VisitStep(v)
<1> USE DEF Becomes
<1>0. visit[v] \in VisitState /\ visit \in [Visit -> VisitState] /\ now \in Nat
  BY DEF TypeOK
<1>1. ASSUME NEW c \in Client, NEW u \in Uri \cup {Null}, NEW signedIn \in BOOLEAN,
             NEW prompt \in BOOLEAN, Start(v, c, u, signedIn, prompt)
      PROVE  VisitStep(v)
  <2> DEFINE r == [NotStarted EXCEPT !.phase = "get", !.client = c, !.uri = u,
                                     !.prompt = prompt, !.session = signedIn]
  <2>0. NotStarted \in VisitState
    <3>1. 0 \in 0..MaxSubmits
      BY PushAssumption
    <3> QED BY <3>1 DEF NotStarted, VisitState
  <2>1. /\ r \in VisitState
        /\ r.source = NotStarted.source /\ r.codes = NotStarted.codes /\ r.phase = "get"
    BY <2>0 DEF VisitState
  <2>2. visit' = [visit EXCEPT ![v] = r] /\ UNCHANGED pushed /\ visit[v].phase = "new"
    BY <1>1 DEF Start
  <2> HIDE DEF r
  <2> QED BY <2>1, <2>2 DEF VisitStep, Starts, NotStarted
<1>2. ASSUME NEW ph \in {"get", "login", "resolved", "form", "done", "error"},
             NEW prompt \in BOOLEAN, NEW session \in BOOLEAN,
             visit' = [visit EXCEPT ![v] = [visit[v] EXCEPT !.phase = ph, !.prompt = prompt,
                                                            !.session = session]],
             UNCHANGED pushed,
             visit[v].phase # "posted",
             ph = "resolved" => ~Required(v), ph = "form" => visit[v].phase = "resolved"
      PROVE  VisitStep(v)
  <2> DEFINE r == [visit[v] EXCEPT !.phase = ph, !.prompt = prompt, !.session = session]
  <2>1. /\ r \in VisitState /\ r.phase = ph /\ r.client = visit[v].client
        /\ r.source = visit[v].source /\ r.usedAt = visit[v].usedAt /\ r.uri = visit[v].uri
        /\ r.codes = visit[v].codes
    BY <1>0 DEF VisitState
  <2>2. visit' = [visit EXCEPT ![v] = r]
    BY <1>2
  <2> HIDE DEF r
  <2> QED BY <1>2, <2>1, <2>2 DEF VisitStep, Moves, Keeps
<1>3. CASE RequireLogin(v)
  <2>1. visit' = [visit EXCEPT ![v] = [visit[v] EXCEPT !.phase = "login", !.prompt = FALSE,
                                                       !.session = visit[v].session]]
    BY <1>0, <1>3 DEF RequireLogin, VisitState
  <2> QED BY <1>0, <1>2, <1>3, <2>1 DEF RequireLogin, VisitState
<1>4. CASE Login(v)
  <2>1. visit' = [visit EXCEPT ![v] = [visit[v] EXCEPT !.phase = "get", !.prompt = visit[v].prompt,
                                                       !.session = TRUE]]
    BY <1>0, <1>4 DEF Login, VisitState
  <2> QED BY <1>0, <1>2, <1>4, <2>1 DEF Login, VisitState
<1>5. CASE PromptLogin(v)
  <2>1. visit' = [visit EXCEPT ![v] = [visit[v] EXCEPT !.phase = "login", !.prompt = FALSE,
                                                       !.session = visit[v].session]]
    BY <1>0, <1>5 DEF PromptLogin, VisitState
  <2> QED BY <1>0, <1>2, <1>5, <2>1 DEF PromptLogin, VisitState
<1>6. ASSUME NEW ph \in {"get", "login", "resolved", "form", "done", "error"},
             visit' = [visit EXCEPT ![v].phase = ph], UNCHANGED pushed,
             visit[v].phase # "posted",
             ph = "resolved" => ~Required(v), ph = "form" => visit[v].phase = "resolved"
      PROVE  VisitStep(v)
  <2>1. visit' = [visit EXCEPT ![v] = [visit[v] EXCEPT !.phase = ph, !.prompt = visit[v].prompt,
                                                       !.session = visit[v].session]]
    BY <1>0, <1>6 DEF VisitState
  <2> QED BY <1>0, <1>2, <1>6, <2>1 DEF VisitState
<1>7. CASE ConsumeRefused(v) \/ RefusePlain(v) \/ Abandon(v)
  BY <1>6, <1>7 DEF ConsumeRefused, RefusePlain, Abandon, Arrives, ArrivesPlain
<1>8. CASE AcceptPlain(v)
  BY <1>6, <1>8 DEF AcceptPlain, ArrivesPlain
<1>9. CASE ShowForm(v)
  BY <1>6, <1>9 DEF ShowForm
<1>10. CASE ConsumeExpired(v)
  <2> DEFINE r == [visit[v] EXCEPT !.phase = "error"]
  <2>1. /\ r \in VisitState /\ r.phase = "error" /\ r.client = visit[v].client
        /\ r.source = visit[v].source /\ r.usedAt = visit[v].usedAt /\ r.uri = visit[v].uri
        /\ r.codes = visit[v].codes
    BY <1>0 DEF VisitState
  <2>2. visit' = [visit EXCEPT ![v] = r] /\ visit[v].uri \in Uri
    BY <1>0, <1>10 DEF ConsumeExpired, Arrives, VisitState
  <2> HIDE DEF r
  <2> QED BY <1>10, <2>1, <2>2 DEF VisitStep, Expires, Keeps, ConsumeExpired, Arrives
<1>11. CASE Consume(v)
  <2> DEFINE u == visit[v].uri
             r == [visit[v] EXCEPT !.phase = "resolved", !.uri = Null, !.source = u,
                                   !.usedAt = now, !.prompt = pushed[u].prompt]
  <2>1. u \in Uri /\ pushed[u].prompt \in BOOLEAN
    BY <1>0, <1>11 DEF Consume, Arrives, VisitState, TypeOK, PushedRow
  <2>2. /\ r \in VisitState /\ r.phase = "resolved" /\ r.client = visit[v].client
        /\ r.source = u /\ r.usedAt = now /\ r.uri = Null
    BY <1>0, <2>1 DEF VisitState
  <2>3. visit' = [visit EXCEPT ![v] = r]
    BY <1>0, <1>11 DEF Consume
  <2> HIDE DEF r
  <2> QED BY <1>11, <2>1, <2>2, <2>3 DEF VisitStep, Consumes, Consume
<1>12. CASE SkipForm(v)
  <2> DEFINE r == [visit[v] EXCEPT !.phase = "done", !.codes = 1]
  <2>0. 1 \in 0..MaxSubmits
    BY <1>12, PushAssumption DEF SkipForm
  <2>1. /\ r \in VisitState /\ r.phase = "done" /\ r.client = visit[v].client
        /\ r.source = visit[v].source /\ r.usedAt = visit[v].usedAt /\ r.uri = visit[v].uri
    BY <1>0, <2>0 DEF VisitState
  <2>2. visit' = [visit EXCEPT ![v] = r] /\ UNCHANGED pushed /\ visit[v].phase = "resolved"
    BY <1>0, <1>12 DEF SkipForm
  <2> HIDE DEF r
  <2> QED BY <2>1, <2>2 DEF VisitStep, Obtains, Keeps
<1>13. CASE SubmitForm(v)
  <2> DEFINE r == [visit[v] EXCEPT !.codes = @ + 1]
  <2>1. /\ r \in VisitState /\ r.phase = "form" /\ r.client = visit[v].client
        /\ r.source = visit[v].source /\ r.usedAt = visit[v].usedAt /\ r.uri = visit[v].uri
    BY <1>0, <1>13, PushAssumption DEF VisitState, SubmitForm
  <2>2. visit' = [visit EXCEPT ![v] = r] /\ UNCHANGED pushed /\ visit[v].phase = "form"
    BY <1>0, <1>13 DEF SubmitForm
  <2> HIDE DEF r
  <2> QED BY <2>1, <2>2 DEF VisitStep, Obtains, Keeps
<1>14. ASSUME NEW c \in Client, PostFields(v, c) PROVE VisitStep(v)
  <2> DEFINE r == [NotStarted EXCEPT !.phase = "posted", !.client = c, !.session = TRUE, !.codes = 1]
  <2>0. NotStarted \in VisitState /\ 1 \in 0..MaxSubmits
    <3>1. 0 \in 0..MaxSubmits /\ 1 \in 0..MaxSubmits
      BY <1>14, PushAssumption DEF PostFields
    <3> QED BY <3>1 DEF NotStarted, VisitState
  <2>1. r \in VisitState /\ r.source = NotStarted.source /\ r.phase = "posted"
    BY <2>0 DEF VisitState
  <2>2. visit' = [visit EXCEPT ![v] = r] /\ UNCHANGED pushed /\ visit[v].phase = "new"
    BY <1>14 DEF PostFields
  <2> HIDE DEF r
  <2> QED BY <2>1, <2>2 DEF VisitStep, Starts, NotStarted
<1> QED BY <1>1, <1>3, <1>4, <1>5, <1>7, <1>8, <1>9, <1>10, <1>11, <1>12, <1>13, <1>14 DEF Browse

----------------------------------------------------------------------------
(* The table.                                                              *)

LEMMA DeleteEffect ==
  ASSUME TypeOK, NEW U \in SUBSET Uri, pushed' = Delete(U)
  PROVE  /\ pushed' \in [Uri -> PushedRow]
         /\ \A u \in U : pushed'[u].status = "gone"
         /\ \A u \in Uri : u \notin U => pushed'[u] = pushed[u]
         /\ \A u \in Uri : /\ pushed'[u].client = pushed[u].client
                           /\ pushed'[u].expires = pushed[u].expires
BY DEF TypeOK, Delete, PushedRow

\* A cleanup takes expired rows only.
LEMMA BatchExpired ==
  ASSUME TypeOK, ReaperPast, NEW U \in SUBSET Uri, DeleteBatch(U), NEW u \in U
  PROVE  Expired(u) /\ Stored(u)
BY PushAssumption DEF DeleteBatch, Overdue, ReaperPast, Expired, TypeOK, PushedRow

\* A row that is gone stays so, and keeps what the properties know it by.
RowsOnward == \A u \in Uri : pushed[u].status = "gone" =>
  /\ pushed'[u].status = "gone"
  /\ pushed'[u].client = pushed[u].client /\ pushed'[u].expires = pushed[u].expires

\* What a step does: a request is pushed, a visit takes a step, a cleanup deletes a batch, or
\* neither table nor visits change.
LEMMA NextSteps ==
  ASSUME TypeOK, [Next]_vars
  PROVE  \/ UNCHANGED <<pushed, visit>>
         \/ \E u \in Uri, c \in Client, prompt \in BOOLEAN : Push(u, c, prompt)
         \/ UNCHANGED <<now, reaper>> /\ \E v \in Visit : VisitStep(v)
         \/ \E U \in SUBSET Uri : DeleteBatch(U)
<1>1. ASSUME NEW v \in Visit, Browse(v) PROVE UNCHANGED <<now, reaper>> /\ VisitStep(v)
  <2>1. UNCHANGED <<now, reaper>>
    BY <1>1 DEF Browse, Start, PostFields, RequireLogin, Login, Consume, ConsumeExpired, ConsumeRefused,
                RefusePlain, AcceptPlain, PromptLogin, ShowForm, SkipForm, SubmitForm, Abandon
  <2> QED BY <1>1, <2>1, BrowseSteps
<1> QED BY <1>1 DEF Next, Tick, StartCleanup, StopCleanup, vars

LEMMA NextClock == TypeOK /\ ReaperPast /\ [Next]_vars =>
                     /\ ReaperPast' /\ now' >= now
                     /\ now' \in Nat /\ reaper' \in Nat \cup {Null}
<1> SUFFICES ASSUME TypeOK, ReaperPast, [Next]_vars
             PROVE  ReaperPast' /\ now' >= now /\ now' \in Nat /\ reaper' \in Nat \cup {Null}
  OBVIOUS
<1>1. CASE Tick \/ StartCleanup
  BY <1>1, PushAssumption DEF Tick, StartCleanup, TypeOK, ReaperPast
<1>2. CASE UNCHANGED now /\ (UNCHANGED reaper \/ reaper' = Null)
  BY <1>2 DEF TypeOK, ReaperPast
<1>3. ASSUME NEW v \in Visit, Browse(v) PROVE UNCHANGED <<now, reaper>>
  BY <1>3 DEF Browse, Start, PostFields, RequireLogin, Login, Consume, ConsumeExpired, ConsumeRefused,
              RefusePlain, AcceptPlain, PromptLogin, ShowForm, SkipForm, SubmitForm, Abandon
<1> QED BY <1>1, <1>2, <1>3 DEF Next, Push, StopCleanup, DeleteBatch, vars

LEMMA NextTypeOK ==
  ASSUME TypeOK, ReaperPast, [Next]_vars
  PROVE  TypeOK'
<1>1. now' \in Nat /\ reaper' \in Nat \cup {Null}
  BY NextClock
<1>2. CASE UNCHANGED <<pushed, visit>>
  BY <1>1, <1>2 DEF TypeOK
<1>3. ASSUME NEW u \in Uri, NEW c \in Client, NEW prompt \in BOOLEAN, Push(u, c, prompt)
      PROVE  TypeOK'
  <2>1. now + Lifetime \in Nat
    BY PushAssumption DEF TypeOK
  <2>2. [status |-> "stored", client |-> c, prompt |-> prompt, expires |-> now + Lifetime] \in PushedRow
    BY <2>1 DEF PushedRow
  <2> QED BY <1>1, <1>3, <2>2 DEF Push, Expiry, TypeOK
<1>4. ASSUME NEW v \in Visit, VisitStep(v) PROVE TypeOK'
  <2>1. PICK r : Starts(v, r) \/ Moves(v, r) \/ Expires(v, r) \/ Consumes(v, r) \/ Obtains(v, r)
    BY <1>4 DEF VisitStep
  <2>2. visit' \in [Visit -> VisitState]
    BY <2>1, BecomesEffect DEF Starts, Moves, Expires, Consumes, Obtains, Keeps
  <2>3. pushed' = pushed \/ pushed' \in [Uri -> PushedRow]
    BY <2>1, DeleteEffect DEF Starts, Moves, Expires, Consumes, Obtains, Keeps
  <2> QED BY <1>1, <2>2, <2>3 DEF TypeOK
<1>5. ASSUME NEW U \in SUBSET Uri, DeleteBatch(U) PROVE TypeOK'
  BY <1>1, <1>5, DeleteEffect DEF DeleteBatch, TypeOK
<1> QED BY <1>2, <1>3, <1>4, <1>5, NextSteps

----------------------------------------------------------------------------
(* Visits.                                                                 *)

LEMMA TableStepVisits ==
  ASSUME TypeOK, Visits, ConsumesOnce, RowsOnward, UNCHANGED visit
  PROVE  Visits' /\ ConsumesOnce'
<1>1. ConsumedIsGone'
  BY PushAssumption DEF Visits, ConsumedIsGone, RowsOnward, TypeOK, VisitState
<1>2. OneConsumer' /\ PlainHasNoForm' /\ ConsumesOnce'
  BY DEF Visits, OneConsumer, PlainHasNoForm, ConsumesOnce, Required
<1> QED BY <1>1, <1>2 DEF Visits

LEMMA VisitStepVisits ==
  ASSUME TypeOK, Visits, ConsumesOnce, NEW v \in Visit, VisitStep(v)
  PROVE  Visits' /\ ConsumesOnce'
<1>1. PICK r : Starts(v, r) \/ Moves(v, r) \/ Expires(v, r) \/ Consumes(v, r) \/ Obtains(v, r)
  BY DEF VisitStep
<1>2. visit'[v] = r /\ \A w \in Visit : w # v => visit'[w] = visit[w]
  BY <1>1, BecomesEffect DEF Starts, Moves, Expires, Consumes, Obtains, Keeps
<1>3. \A w \in Visit : visit[w].source # Null => visit[w].source \in Uri
  BY DEF TypeOK, VisitState
<1>4. RowsOnward
  BY <1>1, DeleteEffect DEF Starts, Moves, Expires, Consumes, Obtains, Keeps, RowsOnward
<1>5. CASE Consumes(v, r)
  <2> DEFINE u == visit[v].uri
  <2>1. /\ u \in Uri /\ pushed[u].status = "stored" /\ pushed'[u].status = "gone"
        /\ pushed'[u].client = visit[v].client /\ now < pushed'[u].expires
        /\ r.client = visit[v].client /\ r.source = u /\ r.usedAt = now /\ r.uri = Null
        /\ r.phase = "resolved"
    <3>1. u \in Uri /\ pushed' = Delete({u}) /\ ~(now >= pushed[u].expires)
      BY <1>5 DEF Consumes, Expired
    <3>2. /\ pushed'[u].status = "gone" /\ pushed'[u].client = pushed[u].client
          /\ pushed'[u].expires = pushed[u].expires
      BY <3>1, DeleteEffect
    <3>3. now < pushed[u].expires
      BY <3>1 DEF TypeOK, PushedRow
    <3> QED BY <1>5, <3>1, <3>2, <3>3 DEF Consumes, Stored
  <2>2. \A w \in Visit : visit[w].source # u
    BY <2>1, PushAssumption DEF Visits, ConsumedIsGone
  <2> HIDE DEF u
  <2>3. OneConsumer'
    BY <1>2, <2>1, <2>2 DEF Visits, OneConsumer
  <2>4. ConsumedIsGone'
    BY <1>2, <1>3, <1>4, <2>1 DEF Visits, ConsumedIsGone, RowsOnward
  <2>5. PlainHasNoForm' /\ ConsumesOnce'
    BY <1>2, <2>1, PushAssumption DEF Visits, PlainHasNoForm, ConsumesOnce, Required
  <2> QED BY <2>3, <2>4, <2>5 DEF Visits
<1>6. CASE Starts(v, r) \/ Moves(v, r) \/ Expires(v, r) \/ Obtains(v, r)
  <2>1. r.source = Null \/ (/\ r.source = visit[v].source /\ r.client = visit[v].client
                            /\ r.usedAt = visit[v].usedAt /\ r.uri = visit[v].uri
                            /\ r.phase # "new")
    BY <1>6 DEF Starts, Moves, Expires, Obtains, Keeps
  <2>2. OneConsumer'
    BY <1>2, <2>1 DEF Visits, OneConsumer
  <2>3. ConsumedIsGone'
    BY <1>2, <1>3, <1>4, <2>1 DEF Visits, ConsumedIsGone, RowsOnward
  <2>4. ConsumesOnce'
    BY <1>2, <2>1 DEF ConsumesOnce
  <2>5. r.client \in Mandatory /\ r.source = Null =>
          r.phase = "posted" \/ (r.codes = 0 /\ r.phase \notin {"resolved", "form"})
    BY <1>6 DEF Starts, Moves, Expires, Obtains, Keeps, Visits, PlainHasNoForm, Required
  <2>6. PlainHasNoForm'
    BY <1>2, <2>5 DEF Visits, PlainHasNoForm, Required
  <2> QED BY <2>2, <2>3, <2>4, <2>6 DEF Visits
<1> QED BY <1>1, <1>5, <1>6

LEMMA NextInv == Inv /\ [Next]_vars => Inv'
<1> SUFFICES ASSUME TypeOK, Visits, ReaperPast, ConsumesOnce, [Next]_vars
             PROVE  Visits' /\ ConsumesOnce'
  BY NextTypeOK, NextClock DEF Inv
<1>1. CASE UNCHANGED <<pushed, visit>>
  BY <1>1, TableStepVisits DEF RowsOnward
<1>2. ASSUME NEW u \in Uri, NEW c \in Client, NEW prompt \in BOOLEAN, Push(u, c, prompt)
      PROVE  Visits' /\ ConsumesOnce'
  <2>1. RowsOnward /\ UNCHANGED visit
    BY <1>2 DEF Push, RowsOnward, TypeOK
  <2> QED BY <2>1, TableStepVisits
<1>3. ASSUME NEW v \in Visit, VisitStep(v)
      PROVE  Visits' /\ ConsumesOnce'
  BY <1>3, VisitStepVisits
<1>4. ASSUME NEW U \in SUBSET Uri, DeleteBatch(U)
      PROVE  Visits' /\ ConsumesOnce'
  <2>1. RowsOnward /\ UNCHANGED visit
    BY <1>4, DeleteEffect DEF DeleteBatch, RowsOnward
  <2> QED BY <2>1, TableStepVisits
<1> QED BY <1>1, <1>2, <1>3, <1>4, NextSteps

LEMMA InvHolds == Spec => []Inv
BY InitInv, NextInv, PTL DEF Spec

\* Every table and every visit keeps its shape (AuthorizationView).
THEOREM PushesAreTyped == Spec => []TypeOK
BY InvHolds, PTL DEF Inv

\* Where PAR is mandatory, a visit that enters by get() obtains no code but for a request that its
\* client pushed, and that it consumed in time: not through the login page, which rewrites the
\* query, nor by submitting the form it was served again, nor with a request_uri that somebody
\* else presents too.  A POST with form fields of its own is outside the statement.
THEOREM MandatoryIsPushed == Spec => []CodesWerePushed
<1>1. Visits => CodesWerePushed
  BY DEF Visits, PlainHasNoForm, ConsumedIsGone, CodesWerePushed, OutOfPush
<1> QED BY <1>1, InvHolds, PTL DEF Inv

\* A request_uri that disappears before it expires went into a visit of its own client: neither
\* another client that presents it nor cleartokens can use it up.
THEOREM RequestUriIsBound == Spec => OnlyItsClientUsesIt
<1> DEFINE Act == \A u \in Uri : Stored(u) /\ pushed'[u].status = "gone" /\ ~Expired(u) =>
                    \E v \in Visit : visit[v].source = Null /\ visit'[v].source = u
                                       /\ visit[v].client = pushed[u].client
<1>1. Inv /\ [Next]_vars => [Act]_vars
  <2> SUFFICES ASSUME Inv, [Next]_vars, NEW u \in Uri,
                      Stored(u), pushed'[u].status = "gone", ~Expired(u)
               PROVE  \E v \in Visit : visit[v].source = Null /\ visit'[v].source = u
                                         /\ visit[v].client = pushed[u].client
    OBVIOUS
  <2>0. TypeOK
    BY DEF Inv
  <2>1. ~UNCHANGED pushed
    BY DEF Stored
  <2>2. ASSUME NEW x \in Uri, NEW c \in Client, NEW prompt \in BOOLEAN, Push(x, c, prompt)
        PROVE  FALSE
    BY <2>2 DEF Push, Stored, Inv, TypeOK
  <2>3. ASSUME NEW U \in SUBSET Uri, DeleteBatch(U) PROVE FALSE
    <3>1. u \in U
      BY <2>3, DeleteEffect DEF DeleteBatch, Stored, Inv
    <3> QED BY <2>3, <3>1, BatchExpired DEF Inv
  <2>4. PICK v \in Visit : VisitStep(v)
    BY <2>1, <2>2, <2>3, NextSteps DEF Inv
  <2>5. PICK r : Expires(v, r) \/ Consumes(v, r)
    BY <2>1, <2>4 DEF VisitStep, Starts, Moves, Obtains
  <2>6. pushed' = Delete({visit[v].uri}) /\ visit[v].uri \in Uri
    BY <2>5 DEF Expires, Consumes
  <2>7. u = visit[v].uri
    <3>1. \A x \in Uri : x \notin {visit[v].uri} => pushed'[x] = pushed[x]
      BY <2>0, <2>6, DeleteEffect
    <3> QED BY <3>1 DEF Stored
  <2>8. Consumes(v, r)
    BY <2>5, <2>7 DEF Expires
  <2>9. visit[v].source = Null
    BY <2>6, PushAssumption DEF Inv, ConsumesOnce
  <2> QED BY <2>7, <2>8, <2>9, BecomesEffect DEF Consumes, Inv
<1> QED BY <1>1, InvHolds, PTL DEF Spec, OnlyItsClientUsesIt

----------------------------------------------------------------------------
(* A request_uri is a single-use ticket.                                   *)

TicketStep == [Ticket!Next]_<<TicketState, TicketHolders>>

LEMMA VisitTicket ==
  ASSUME Inv, NEW v \in Visit, VisitStep(v)
  PROVE  TicketStep
<1>0. TypeOK /\ Visits /\ ConsumesOnce
  BY DEF Inv
<1>1. PICK r : Starts(v, r) \/ Moves(v, r) \/ Expires(v, r) \/ Consumes(v, r) \/ Obtains(v, r)
  BY DEF VisitStep
<1>2. visit'[v] = r /\ \A w \in Visit : w # v => visit'[w] = visit[w]
  BY <1>0, <1>1, BecomesEffect DEF Starts, Moves, Expires, Consumes, Obtains, Keeps
<1>3. ASSUME NEW u \in Uri, pushed' = Delete({u}), Stored(u)
      PROVE  TicketState[u] = "open" /\ TicketState' = [TicketState EXCEPT ![u] = "spent"]
  <2>1. /\ pushed'[u].status = "gone"
        /\ \A x \in Uri : x # u => pushed'[x] = pushed[x]
    BY <1>0, <1>3 DEF Delete, TypeOK, PushedRow
  <2>2. pushed[u].status = "stored"
    BY <1>3 DEF Stored
  <2> QED BY <2>1, <2>2 DEF TicketState
<1>4. CASE Moves(v, r) \/ Obtains(v, r)
  <2>1. UNCHANGED pushed /\ r.source = visit[v].source
    BY <1>4 DEF Moves, Obtains, Keeps
  <2>2. TicketState' = TicketState /\ TicketHolders' = TicketHolders
    BY <1>2, <2>1 DEF TicketState, TicketHolders
  <2> QED BY <2>2 DEF TicketStep
<1>5. CASE Starts(v, r)
  <2>1. UNCHANGED pushed /\ r.source = visit[v].source
    BY <1>0, <1>5 DEF Starts, ConsumesOnce
  <2>2. TicketState' = TicketState /\ TicketHolders' = TicketHolders
    BY <1>2, <2>1 DEF TicketState, TicketHolders
  <2> QED BY <2>2 DEF TicketStep
<1>6. CASE Expires(v, r)
  <2> DEFINE u == visit[v].uri
  <2>1. u \in Uri /\ Stored(u) /\ pushed' = Delete({u}) /\ r.source = visit[v].source
    BY <1>6 DEF Expires, Keeps
  <2> HIDE DEF u
  <2>2. TicketHolders' = TicketHolders
    BY <1>2, <2>1 DEF TicketHolders
  <2>3. TicketState[u] = "open" /\ TicketState' = [TicketState EXCEPT ![u] = "spent"]
    BY <1>3, <2>1
  <2>4. TicketState' = [x \in Uri |-> IF x \in {u} THEN "spent" ELSE TicketState[x]]
    BY <2>1, <2>3 DEF TicketState
  <2>5. Ticket!Withdraw({u})
    BY <2>2, <2>3, <2>4 DEF Ticket!Withdraw
  <2> QED BY <2>1, <2>5 DEF TicketStep, Ticket!Next
<1>7. CASE Consumes(v, r)
  <2> DEFINE u == visit[v].uri
  <2>1. u \in Uri /\ Stored(u) /\ pushed' = Delete({u}) /\ r.source = u
    BY <1>7 DEF Consumes
  <2>2. visit[v].source = Null
    BY <1>0, <2>1, PushAssumption DEF ConsumesOnce
  <2>3. \A w \in Visit : visit[w].source # u
    BY <1>0, <2>1, PushAssumption DEF Visits, ConsumedIsGone, Stored
  <2> HIDE DEF u
  <2>4. TicketHolders' = [TicketHolders EXCEPT ![u] = {v}]
    <3>1. {w \in Visit : visit'[w].source = u} = {v}
      BY <1>2, <2>1, <2>3
    <3>2. \A x \in Uri : x # u =>
            {w \in Visit : visit'[w].source = x} = {w \in Visit : visit[w].source = x}
      BY <1>2, <2>1, <2>2, PushAssumption
    <3> QED BY <2>1, <3>1, <3>2 DEF TicketHolders
  <2>5. Ticket!Redeem(u, v)
    BY <1>3, <2>1, <2>4 DEF Ticket!Redeem
  <2> QED BY <2>1, <2>5 DEF TicketStep, Ticket!Next
<1> QED BY <1>1, <1>4, <1>5, <1>6, <1>7

LEMMA NextTicket ==
  ASSUME Inv, [Next]_vars
  PROVE  TicketStep
<1>0. TypeOK
  BY DEF Inv
<1>1. CASE UNCHANGED <<pushed, visit>>
  BY <1>1 DEF TicketStep, TicketState, TicketHolders
<1>2. ASSUME NEW u \in Uri, NEW c \in Client, NEW prompt \in BOOLEAN, Push(u, c, prompt)
      PROVE  TicketStep
  <2>1. /\ pushed[u].status = "free" /\ pushed'[u].status = "stored" /\ UNCHANGED visit
        /\ \A x \in Uri : x # u => pushed'[x] = pushed[x]
    BY <1>0, <1>2 DEF Push, TypeOK
  <2>2. TicketState[u] = "unissued" /\ TicketState' = [TicketState EXCEPT ![u] = "open"]
    BY <2>1 DEF TicketState
  <2>3. TicketHolders' = TicketHolders
    BY <2>1 DEF TicketHolders
  <2>4. Ticket!Issue(u)
    BY <2>2, <2>3 DEF Ticket!Issue
  <2> QED BY <2>4 DEF TicketStep, Ticket!Next
<1>3. ASSUME NEW v \in Visit, VisitStep(v)
      PROVE  TicketStep
  BY <1>3, VisitTicket
<1>4. ASSUME NEW U \in SUBSET Uri, DeleteBatch(U)
      PROVE  TicketStep
  <2>1. /\ \A u \in U : pushed'[u].status = "gone"
        /\ \A u \in Uri : u \notin U => pushed'[u] = pushed[u]
    BY <1>0, <1>4, DeleteEffect DEF DeleteBatch
  <2>2. U # {} /\ (\A u \in U : pushed[u].status = "stored") /\ UNCHANGED visit
    BY <1>4 DEF DeleteBatch, Overdue, Stored
  <2>3. /\ \A u \in U : TicketState[u] = "open"
        /\ TicketState' = [u \in Uri |-> IF u \in U THEN "spent" ELSE TicketState[u]]
    BY <2>1, <2>2 DEF TicketState
  <2>4. TicketHolders' = TicketHolders
    BY <2>2 DEF TicketHolders
  <2>5. Ticket!Withdraw(U)
    BY <2>2, <2>3, <2>4 DEF Ticket!Withdraw
  <2> QED BY <2>5 DEF TicketStep, Ticket!Next
<1> QED BY <1>0, <1>1, <1>2, <1>3, <1>4, NextSteps

\* Pushed requests implement SingleUse: however many browsers present a request_uri, one visit at
\* most gets past it, and none does after it was withdrawn or consumed.
THEOREM RequestUrisAreSingleUse == Spec => IsSingleUse
<1>1. Init => Ticket!Init
  BY PushAssumption DEF Init, Ticket!Init, TicketState, TicketHolders, NotPushed, NotStarted
<1>2. Inv /\ [Next]_vars => TicketStep
  BY NextTicket
<1> QED BY <1>1, <1>2, InvHolds, PTL DEF Spec, IsSingleUse, Ticket!Spec, TicketStep
=============================================================================
