------------------------ MODULE ClientMetadataProofs ------------------------
(***************************************************************************)
(* Clients known by the URL of a metadata document, for every number of    *)
(* URLs, requests and keys: the fetch slots are all accounted for, a       *)
(* document never takes over a client provisioned by hand, a request that  *)
(* loses a race is served, and pruning spares what is live.                *)
(***************************************************************************)
EXTENDS ClientMetadata, TLAPS, FiniteSetTheorems, WellFoundedInduction

(* The inductive invariant.  A resolution refers to rows it read earlier;  *)
(* what it may still believe about them is `Sound`.                        *)

Active(row) == row.phase \notin {"idle", "served"}

\* What a request's local state says about the table, urlOf naming the URL of each key that
\* was ever handed out: the rows it refers to are about its URL, whether or not they are
\* still there; it renews documents only; it does not work on a provisioned client, nor
\* waits for a row that is gone, unless it was disturbed.
Refers(row, urlOf) ==
  \A k \in Key : k = row.key \/ k = row.stored => k <= lastKey /\ row.url = urlOf[k]
Renews(row) ==
  row.phase \in {"update", "insert"} =>
    \A k \in Key : k = row.key /\ app[k] # Null => app[k].born = "cimd"
Warned(row) ==
  /\ Active(row) => \A k \in KeysOf(row.url) : app[k].source = "manual" => row.disturbed
  /\ row.phase = "reload" /\ KeysOf(row.url) = {} => row.disturbed
Sound(row, urlOf) == Refers(row, urlOf) /\ Renews(row) /\ Warned(row)

RowsSound(urlOf) ==
  \A k \in Key : app[k] # Null => /\ k <= lastKey /\ app[k].url = urlOf[k]
                                  /\ app[k].born = "manual" => app[k].source = "manual"
RequestsSound == \E urlOf \in [Key -> Url \cup {Null}] :
                   RowsSound(urlOf) /\ \A q \in Request : Sound(req[q], urlOf)

\* What the pruner has locked stays as it found it.
LocksHold == /\ pruner.at <= now
             /\ pruner.phase = "locked" => \A k \in pruner.batch : Expired(k)

\* A request at work knows its URL; one that is about to update a row, or has a client,
\* knows its key.
Filled(row) == /\ row.phase # "idle" => row.url # Null
               /\ row.phase \in {"update", "served"} => row.key # Null
RequestsFilled == \A q \in Request : Filled(req[q])

IndInv == TypeOK /\ PermitsAreHeld /\ OneRowPerUrl /\ RequestsSound /\ LocksHold /\ RequestsFilled

----------------------------------------------------------------------------
(* The fetch slots.                                                        *)

Holders == {q \in Request : req[q].phase \in Holding}

\* Finitely many requests hold slots, before and after a step.
LEMMA HoldersFinite ==
  /\ IsFiniteSet(Holders) /\ Cardinality(Holders) \in Nat
  /\ IsFiniteSet(Holders') /\ Cardinality(Holders') \in Nat
<1>1. IsFiniteSet(Request)
  BY MetadataAssumption
<1>2. Holders \in SUBSET Request /\ Holders' \in SUBSET Request
  BY DEF Holders
<1> QED BY <1>1, <1>2, FS_Subset, FS_CardinalityType

\* A step of one request that keeps it on the same side leaves the holders as they are.
LEMMA SlotKept ==
  ASSUME \A p \in Request : req'[p].phase \in Holding <=> req[p].phase \in Holding
  PROVE  Holders' = Holders
BY DEF Holders, Holding

LEMMA SlotTaken ==
  ASSUME NEW q \in Request, req[q].phase \notin Holding, req'[q].phase \in Holding,
         \A p \in Request \ {q} : req'[p] = req[p]
  PROVE  Cardinality(Holders') = Cardinality(Holders) + 1
<1>1. q \notin Holders /\ Holders' = Holders \cup {q}
  BY DEF Holders, Holding
<1> QED BY <1>1, HoldersFinite, FS_AddElement

LEMMA SlotFreed ==
  ASSUME NEW q \in Request, req[q].phase \in Holding, req'[q].phase \notin Holding,
         \A p \in Request \ {q} : req'[p] = req[p]
  PROVE  Cardinality(Holders') = Cardinality(Holders) - 1 /\ Cardinality(Holders) >= 1
<1>1. q \in Holders /\ Holders' = Holders \ {q}
  BY DEF Holders, Holding
<1>2. Cardinality(Holders') = Cardinality(Holders) - 1
  BY <1>1, HoldersFinite, FS_RemoveElement
<1> QED BY <1>2, HoldersFinite

LEMMA HoldersCounted == PermitsAreHeld <=> permits = elsewhere + Cardinality(Holders)
BY DEF PermitsAreHeld, Holders

----------------------------------------------------------------------------
(* The page the pruner selects.                                            *)

\* A set of keys that is not empty has a least and a greatest member.
LEMMA KeysHaveBounds ==
  ASSUME NEW K \in SUBSET Key, K # {}
  PROVE  /\ \E k \in K : \A j \in K : k <= j
         /\ \E k \in K : \A j \in K : k >= j
<1>1. MaxKey \in Nat /\ Key \subseteq Nat /\ \A k \in Key : MaxKey - k \in Nat
  BY MetadataAssumption DEF Key
<1>2. ASSUME NEW T \in SUBSET Nat, T # {}
      PROVE  \E x \in T : \A y \in T : x <= y
  <2>1. PICK x \in T : \A y \in T : ~ (<<y, x>> \in OpToRel(<, Nat))
    BY <1>2, NatLessThanWellFounded, WFMin
  <2>2. \A y \in T : ~ (y < x)
    BY <1>2, <2>1, Zenon DEF OpToRel
  <2> QED BY <2>2
<1>3. \E k \in K : \A j \in K : k <= j
  BY <1>1, <1>2
<1>4. \E k \in K : \A j \in K : k >= j
  <2> DEFINE T == {MaxKey - k : k \in K}
  <2>1. T \in SUBSET Nat /\ T # {}
    BY <1>1
  <2>2. PICK x \in T : \A y \in T : x <= y
    BY <2>1, <1>2
  <2>3. PICK k \in K : x = MaxKey - k
    BY <2>2
  <2>4. \A j \in K : MaxKey - k <= MaxKey - j
    BY <2>2, <2>3
  <2> QED BY <1>1, <2>3, <2>4
<1> QED BY <1>3, <1>4

\* The cursor moves behind a page that holds at least one key.
LEMMA PageType ==
  ASSUME TypeOK, Candidates # {}
  PROVE  FirstOf(Candidates) \in SUBSET Key /\ Max(FirstOf(Candidates)) \in Key
<1> DEFINE C == Candidates
           F == FirstOf(C)
<1>1. C \in SUBSET Key
  BY DEF Candidates
<1>2. F \in SUBSET C
  BY DEF FirstOf
<1>3. PICK k \in C : \A j \in C : k <= j
  BY <1>1, KeysHaveBounds
<1>4. {j \in C : j < k} = {}
  <2>1. C \subseteq Int
    BY <1>1, MetadataAssumption DEF Key
  <2> HIDE DEF C
  <2>2. \A j \in C : ~ (j < k)
    BY <2>1, <1>3
  <2> QED BY <2>2
<1>5. k \in F
  <2>1. Cardinality({j \in C : j < k}) = 0
    BY <1>4, FS_EmptySet
  <2> QED BY <2>1, <1>3, MetadataAssumption DEF FirstOf
<1>6. F # {} /\ F \in SUBSET Key
  BY <1>1, <1>2, <1>5
<1>7. \E x \in F : \A y \in F : x >= y
  BY <1>6, KeysHaveBounds
<1>8. Max(F) \in F
  BY <1>7 DEF Max
<1> QED BY <1>6, <1>8

----------------------------------------------------------------------------
(* The shape of a step.                                                    *)

LEMMA NullIsNoKey == Null \notin Key
BY MetadataAssumption DEF Key

\* The local state a request leaves its resolution with, given the key of its client.
Answered(q, k) == IF k = Null THEN Idle ELSE Answer(q, k)

LEMMA AnsweredRow ==
  ASSUME TypeOK, RequestsFilled, NEW q \in Request, NEW k \in Key \cup {Null},
         req[q].phase # "idle"
  PROVE  /\ Answered(q, k) \in RequestState /\ Filled(Answered(q, k))
         /\ Answered(q, k).phase \in {"idle", "served"} /\ Answered(q, k).phase \notin Holding
         /\ Answered(q, k).phase = "idle" <=> k = Null
         /\ k # Null => Answered(q, k).key = k /\ Answered(q, k).url = req[q].url
         /\ Answered(q, k).stored = Null /\ (k = Null => Answered(q, k).key = Null)
<1>1. req[q] \in RequestState
  BY DEF TypeOK
<1>2. CASE k = Null
  BY <1>2 DEF Answered, Idle, RequestState, Filled, Holding
<1>3. CASE k # Null
  <2>1. Answered(q, k) = [phase |-> "served", url |-> req[q].url, stored |-> Null, key |-> k,
                          expires |-> 0, disturbed |-> FALSE]
    BY <1>3 DEF Answered, Answer, Idle
  <2>2. req[q].url \in Url /\ req[q].url # Null /\ k \in Key
    BY <1>1, <1>3, MetadataAssumption DEF RequestState, RequestsFilled, Filled
  <2> QED BY <2>1, <2>2, <1>3 DEF RequestState, Filled, Holding
<1> QED BY <1>2, <1>3

LEMMA LeaveAnswers ==
  ASSUME NEW q, NEW k, Leave(q, k)
  PROVE  req' = [req EXCEPT ![q] = Answered(q, k)]
BY DEF Leave, Answered

\* What a step of q makes of its own row: it keeps, takes or gives back its slot.
Keeps(q, row) == permits' = permits /\ (row.phase \in Holding <=> req[q].phase \in Holding)
Takes(q, row) == /\ permits < Cap /\ permits' = permits + 1
                 /\ row.phase \in Holding /\ req[q].phase \notin Holding
Frees(q, row) == /\ permits' = permits - 1
                 /\ row.phase \notin Holding /\ req[q].phase \in Holding
Moves(q, row) == /\ row \in RequestState /\ Filled(row)
                 /\ req' = [req EXCEPT ![q] = row]
                 /\ Keeps(q, row) \/ Takes(q, row) \/ Frees(q, row)

LEMMA GiveUpMoves ==
  ASSUME TypeOK, RequestsFilled, NEW q \in Request, GiveUp(q), req[q].phase \in Holding
  PROVE  Moves(q, Answered(q, req[q].stored))
<1>1. req[q].stored \in Key \cup {Null}
  BY DEF TypeOK, RequestState
<1>2. req' = [req EXCEPT ![q] = Answered(q, req[q].stored)] /\ permits' = permits - 1
  BY LeaveAnswers DEF GiveUp
<1> QED BY <1>1, <1>2, AnsweredRow DEF Moves, Frees, Holding

LEMMA ReleaseMoves ==
  ASSUME TypeOK, RequestsFilled, NEW q \in Request, NEW k \in Key, Release(q, k), req[q].phase \in Holding
  PROVE  Moves(q, Answered(q, k))
<1>1. req' = [req EXCEPT ![q] = Answered(q, k)] /\ permits' = permits - 1
  BY LeaveAnswers DEF Release
<1> QED BY <1>1, AnsweredRow DEF Moves, Frees, Holding

\* A request that believes only what is so goes on doing so while it resolves ...
LEMMA PhaseSound ==
  ASSUME TypeOK, NEW q \in Request, NEW row, NEW urlOf,
         RowsSound(urlOf), Sound(req[q], urlOf), Active(req[q]),
         row.url = req[q].url, row.stored = req[q].stored, row.disturbed = req[q].disturbed,
         \/ row.key = req[q].key /\ (row.phase \in {"update", "insert"} =>
                                       req[q].phase \in {"update", "insert"})
         \/ row.key = Null
         \/ row.key \in KeysOf(req[q].url) /\ Renewable(row.key),
         row.phase = "reload" => KeysOf(req[q].url) # {}
  PROVE  Sound(row, urlOf)
<1>1. Refers(row, urlOf)
  BY NullIsNoKey DEF Sound, Refers, RowsSound, KeysOf
<1>2. Renews(row)
  <2>1. CASE row.key = req[q].key /\ (row.phase \in {"update", "insert"} =>
                                       req[q].phase \in {"update", "insert"})
    BY <2>1 DEF Sound, Renews
  <2>2. CASE row.key = Null
    BY <2>2, NullIsNoKey DEF Renews
  <2>3. CASE row.key \in KeysOf(req[q].url) /\ Renewable(row.key)
    <3>1. row.key \in Key /\ app[row.key] # Null /\ app[row.key].source = "cimd"
      BY <2>3 DEF KeysOf, Renewable
    <3>2. app[row.key] \in Row /\ app[row.key].born # "manual"
      BY <3>1 DEF TypeOK, RowsSound
    <3> QED BY <3>2 DEF Renews, Row
  <2> QED BY <2>1, <2>2, <2>3
<1>3. Warned(row)
  BY DEF Sound, Warned, Active
<1> QED BY <1>1, <1>2, <1>3 DEF Sound

\* ... and when it leaves its resolution, with the row it had kept or one it found.
LEMMA AnswerSound ==
  ASSUME TypeOK, RequestsFilled, NEW q \in Request, req[q].phase # "idle", NEW k \in Key \cup {Null}, NEW urlOf,
         RowsSound(urlOf), Sound(req[q], urlOf),
         k = req[q].stored \/ k \in KeysOf(req[q].url)
  PROVE  Sound(Answered(q, k), urlOf)
<1> DEFINE row == Answered(q, k)
<1>1. /\ row.phase \in {"idle", "served"} /\ row.stored = Null
      /\ k # Null => row.key = k /\ row.url = req[q].url
      /\ k = Null => row.key = Null
  BY AnsweredRow
<1> HIDE DEF row
<1>2. Refers(row, urlOf)
  BY <1>1, NullIsNoKey DEF Sound, Refers, RowsSound, KeysOf
<1>3. Renews(row) /\ Warned(row)
  BY <1>1 DEF Renews, Warned, Active
<1> QED BY <1>2, <1>3 DEF Sound, row

\* A request that loads a client starts out right: what it would work on is no one's, or
\* one stale document that no provisioned client shares the URL with.
LEMMA LoadMoves ==
  ASSUME TypeOK, OneRowPerUrl, NEW q \in Request, NEW u \in Url, LoadApplication(q, u)
  PROVE  \E row : /\ Moves(q, row)
                  /\ \A urlOf : RowsSound(urlOf) => Sound(row, urlOf)
<1>0. req[q].phase = "idle" /\ permits' = permits /\ KeysOf(u) \subseteq Key /\ u # Null
  BY MetadataAssumption DEF LoadApplication, KeysOf
<1>1. CASE KeysOf(u) = {}
  <2> DEFINE row == [Idle EXCEPT !.phase = "asked", !.url = u]
  <2>1. req' = [req EXCEPT ![q] = row]
    BY <1>1 DEF LoadApplication
  <2>2. /\ row \in RequestState /\ row.phase = "asked" /\ row.url = u
        /\ row.key = Null /\ row.stored = Null
    BY DEF Idle, RequestState
  <2> HIDE DEF row
  <2>3. \A urlOf : Sound(row, urlOf)
    BY <1>1, <2>2, NullIsNoKey DEF Sound, Refers, Renews, Warned
  <2> QED BY <1>0, <2>1, <2>2, <2>3 DEF Moves, Keeps, Filled, Holding
<1>2. ASSUME NEW k \in KeysOf(u), app[k].source = "cimd",
             req' = [req EXCEPT ![q] = [Idle EXCEPT !.phase = "asked", !.url = u, !.stored = k]]
      PROVE  \E row : Moves(q, row) /\ \A urlOf : RowsSound(urlOf) => Sound(row, urlOf)
  <2> DEFINE row == [Idle EXCEPT !.phase = "asked", !.url = u, !.stored = k]
  <2>0. k \in Key
    BY <1>0
  <2>1. req' = [req EXCEPT ![q] = row]
    BY <1>2
  <2>2. /\ row \in RequestState /\ row.phase = "asked" /\ row.url = u
        /\ row.key = Null /\ row.stored = k
    BY <2>0 DEF Idle, RequestState
  <2> HIDE DEF row
  <2>3. \A j \in KeysOf(u) : j = k
    BY DEF OneRowPerUrl, KeysOf
  <2>4. \A urlOf : RowsSound(urlOf) => Sound(row, urlOf)
    BY <1>2, <2>0, <2>2, <2>3, NullIsNoKey DEF Sound, Refers, Renews, Warned, RowsSound, KeysOf
  <2> QED BY <1>0, <2>1, <2>2, <2>4 DEF Moves, Keeps, Filled, Holding
<1>3. ASSUME NEW k \in KeysOf(u),
             req' = [req EXCEPT ![q] = [Idle EXCEPT !.phase = "served", !.url = u, !.key = k]]
      PROVE  \E row : Moves(q, row) /\ \A urlOf : RowsSound(urlOf) => Sound(row, urlOf)
  <2> DEFINE row == [Idle EXCEPT !.phase = "served", !.url = u, !.key = k]
  <2>0. k \in Key
    BY <1>0
  <2>1. req' = [req EXCEPT ![q] = row]
    BY <1>3
  <2>2. /\ row \in RequestState /\ row.phase = "served" /\ row.url = u
        /\ row.key = k /\ row.stored = Null
    BY <2>0 DEF Idle, RequestState
  <2> HIDE DEF row
  <2>4. \A urlOf : RowsSound(urlOf) => Sound(row, urlOf)
    BY <2>0, <2>2, NullIsNoKey DEF Sound, Refers, Renews, Warned, Active, RowsSound, KeysOf
  <2> QED BY <1>0, <2>0, <2>1, <2>2, <2>4, NullIsNoKey DEF Moves, Keeps, Filled, Holding
<1> QED BY <1>1, <1>2, <1>3 DEF LoadApplication

\* A change of phase, written as the actions write it.
Advances(q, p) ==
  /\ req' = [req EXCEPT ![q].phase = p]
  /\ Active(req[q]) /\ p \in {"asked", "slot"} \cup Holding
  /\ p \in {"update", "insert"} => req[q].phase \in {"update", "insert"}
  /\ p = "update" => req[q].phase = "update"
  /\ \/ permits' = permits /\ (p \in Holding <=> req[q].phase \in Holding)
     \/ permits' = permits + 1 /\ permits < Cap /\ p \in Holding /\ req[q].phase \notin Holding
LEMMA PhaseStep ==
  ASSUME TypeOK, RequestsFilled, NEW q \in Request, NEW p, Advances(q, p)
  PROVE  \E row : /\ Moves(q, row)
                  /\ \A urlOf : /\ RowsSound(urlOf) /\ Sound(req[q], urlOf)
                                /\ p = "reload" => KeysOf(req[q].url) # {}
                                => Sound(row, urlOf)
<1> DEFINE row == [req[q] EXCEPT !.phase = p]
<1>1. req[q] \in RequestState
  BY DEF TypeOK
<1>2. req' = [req EXCEPT ![q] = row]
  BY DEF Advances, TypeOK
<1>3. /\ row \in RequestState /\ row.phase = p
      /\ row.url = req[q].url /\ row.stored = req[q].stored
      /\ row.key = req[q].key /\ row.disturbed = req[q].disturbed
  BY <1>1 DEF Advances, RequestState, Holding
<1>4. Filled(row)
  BY <1>3 DEF Advances, Active, Filled, RequestsFilled, Holding
<1>5. Keeps(q, row) \/ Takes(q, row)
  BY <1>3 DEF Advances, Keeps, Takes
<1> HIDE DEF row
<1>6. Moves(q, row)
  BY <1>2, <1>3, <1>4, <1>5 DEF Moves
<1>7. ASSUME NEW urlOf, RowsSound(urlOf), Sound(req[q], urlOf),
             p = "reload" => KeysOf(req[q].url) # {}
      PROVE  Sound(row, urlOf)
  BY <1>3, <1>7, PhaseSound DEF Advances
<1> QED BY <1>6, <1>7

\* Steps that leave the table alone: q moves, and goes on believing what is so.
Saves(q) == (UpdateRow(q) /\ app[req[q].key] # Null) \/ InsertRow(q)
LEMMA QuietMoves ==
  ASSUME TypeOK, OneRowPerUrl, RequestsFilled, NEW q \in Request, Resolve(q), ~Saves(q)
  PROVE  \E row : /\ Moves(q, row)
                  /\ \A urlOf : RowsSound(urlOf) /\ Sound(req[q], urlOf) => Sound(row, urlOf)
<1> DEFINE Goal == \E row : /\ Moves(q, row)
                            /\ \A urlOf : RowsSound(urlOf) /\ Sound(req[q], urlOf)
                                          => Sound(row, urlOf)
<1>0. req[q] \in RequestState /\ req[q].stored \in Key \cup {Null}
  BY DEF TypeOK, RequestState
<1>1. ASSUME NEW u \in Url, LoadApplication(q, u)
      PROVE  Goal
  BY <1>1, LoadMoves
<1>2. ASSUME Leave(q, req[q].stored), permits' = permits,
             req[q].phase \notin Holding, req[q].phase # "idle"
      PROVE  Goal
  <2>1. Moves(q, Answered(q, req[q].stored))
    BY <1>0, <1>2, LeaveAnswers, AnsweredRow DEF Moves, Keeps
  <2>2. \A urlOf : RowsSound(urlOf) /\ Sound(req[q], urlOf)
                     => Sound(Answered(q, req[q].stored), urlOf)
    BY <1>0, <1>2, AnswerSound
  <2> QED BY <2>1, <2>2
<1>3. ASSUME GiveUp(q), req[q].phase \in Holding
      PROVE  Goal
  <2>1. Moves(q, Answered(q, req[q].stored))
    BY <1>3, GiveUpMoves
  <2>2. \A urlOf : RowsSound(urlOf) /\ Sound(req[q], urlOf)
                     => Sound(Answered(q, req[q].stored), urlOf)
    BY <1>0, <1>3, AnswerSound DEF Holding
  <2> QED BY <2>1, <2>2
<1>4. CASE Decline(q) \/ CapReached(q)
  BY <1>2, <1>4 DEF Decline, CapReached, Holding
<1>5. CASE FetchFails(q) \/ LookUpCollides(q) \/ ReloadFails(q)
  BY <1>3, <1>5 DEF FetchFails, LookUpCollides, ReloadFails, Holding
<1>6. CASE PassBackoff(q)
  <2>1. Advances(q, "slot")
    BY <1>6 DEF PassBackoff, Advances, Active, Holding
  <2> QED BY <2>1, PhaseStep
<1>7. CASE TakeSlot(q)
  <2>1. Advances(q, "fetch")
    BY <1>7 DEF TakeSlot, Advances, Active, Holding
  <2> QED BY <2>1, PhaseStep
<1>8. CASE FetchDocument(q)
  <2>1. Advances(q, "fetched")
    BY <1>8 DEF FetchDocument, Advances, Active, Holding
  <2> QED BY <2>1, PhaseStep
<1>9. CASE LookUp(q)
  <2>1. PICK p \in {"insert", "update"}, k \in Key \cup {Null} :
          /\ req' = [req EXCEPT ![q] = [req[q] EXCEPT !.phase = p, !.key = k, !.expires = now + MaxAge]]
          /\ p = "update" => k # Null
          /\ k = Null \/ (k \in KeysOf(req[q].url) /\ Renewable(k))
    <3>1. CASE KeysOf(req[q].url) = {}
      <4>1. req' = [req EXCEPT ![q].phase = "insert", ![q].key = Null, ![q].expires = now + MaxAge]
        BY <1>9, <3>1 DEF LookUp
      <4>2. req' = [req EXCEPT ![q] = [req[q] EXCEPT !.phase = "insert", !.key = Null,
                                                      !.expires = now + MaxAge]]
        BY <1>0, <4>1 DEF TypeOK
      <4> QED BY <4>2
    <3>2. CASE KeysOf(req[q].url) # {}
      <4>1. PICK k \in KeysOf(req[q].url) :
              /\ Renewable(k)
              /\ req' = [req EXCEPT ![q].phase = "update", ![q].key = k, ![q].expires = now + MaxAge]
        BY <1>9, <3>2 DEF LookUp
      <4>2. req' = [req EXCEPT ![q] = [req[q] EXCEPT !.phase = "update", !.key = k,
                                                      !.expires = now + MaxAge]]
        BY <1>0, <4>1 DEF TypeOK
      <4>3. k \in Key /\ k # Null
        BY <4>1, NullIsNoKey DEF KeysOf
      <4> QED BY <4>1, <4>2, <4>3
    <3> QED BY <3>1, <3>2
  <2> DEFINE e == now + MaxAge
             row == [req[q] EXCEPT !.phase = p, !.key = k, !.expires = e]
  <2>2. /\ row \in RequestState /\ Filled(row) /\ row.phase = p
        /\ row.url = req[q].url /\ row.stored = req[q].stored /\ row.key = k
        /\ row.disturbed = req[q].disturbed
    <3>1. e \in Nat /\ p \in {"asked", "slot"} \cup Holding
      BY MetadataAssumption DEF TypeOK, Holding
    <3> HIDE DEF e
    <3>2. req[q].url # Null
      BY <1>9 DEF LookUp, RequestsFilled, Filled
    <3> QED BY <1>0, <2>1, <3>1, <3>2 DEF RequestState, Filled, Holding
  <2>3. req' = [req EXCEPT ![q] = row] /\ permits' = permits /\ req[q].phase = "fetched"
    BY <1>9, <2>1 DEF LookUp
  <2> HIDE DEF row
  <2>4. Moves(q, row)
    BY <2>1, <2>2, <2>3 DEF Moves, Keeps, Holding
  <2>5. ASSUME NEW urlOf, RowsSound(urlOf), Sound(req[q], urlOf)
        PROVE  Sound(row, urlOf)
    <3>1. Active(req[q]) /\ row.phase # "reload"
      BY <2>1, <2>2, <2>3 DEF Active
    <3> QED BY <2>1, <2>2, <2>5, <3>1, PhaseSound
  <2> QED BY <2>4, <2>5
<1>10. CASE UpdateRow(q)
  <2>1. Advances(q, "insert")
    BY <1>10 DEF UpdateRow, Saves, Advances, Active, Holding
  <2> QED BY <2>1, PhaseStep
<1>11. CASE InsertConflicts(q)
  <2>1. Advances(q, "reload")
    BY <1>11 DEF InsertConflicts, Advances, Active, Holding
  <2>2. PICK row : /\ Moves(q, row)
                   /\ \A urlOf : RowsSound(urlOf) /\ Sound(req[q], urlOf) /\ KeysOf(req[q].url) # {}
                                   => Sound(row, urlOf)
    BY <2>1, PhaseStep
  <2>3. ASSUME NEW urlOf, RowsSound(urlOf), Sound(req[q], urlOf)
        PROVE  KeysOf(req[q].url) # {}
    <3>1. ASSUME req[q].key = Null
          PROVE  app[InsertKey(q)] = Null
      <4>1. InsertKey(q) = lastKey + 1 /\ InsertKey(q) \in Key /\ lastKey \in Nat
        BY <1>11, <3>1, MetadataAssumption DEF InsertConflicts, InsertKey, NewKey, TypeOK
      <4> QED BY <2>3, <4>1 DEF RowsSound
    <3>2. ASSUME req[q].key # Null, app[InsertKey(q)] # Null
          PROVE  InsertKey(q) \in KeysOf(req[q].url)
      BY <1>11, <2>3, <3>2 DEF InsertConflicts, InsertKey, Sound, Refers, RowsSound, KeysOf
    <3> QED BY <1>11, <3>1, <3>2 DEF InsertConflicts
  <2> QED BY <2>2, <2>3
<1>12. CASE ReloadWinner(q)
  <2>1. PICK k \in KeysOf(req[q].url) : Release(q, k)
    BY <1>12 DEF ReloadWinner
  <2>2. k \in Key /\ req[q].phase \in Holding /\ req[q].phase # "idle"
    BY <1>12 DEF KeysOf, ReloadWinner, Holding
  <2>3. Moves(q, Answered(q, k))
    BY <2>1, <2>2, ReleaseMoves
  <2>4. \A urlOf : RowsSound(urlOf) /\ Sound(req[q], urlOf) => Sound(Answered(q, k), urlOf)
    BY <2>2, AnswerSound
  <2> QED BY <2>3, <2>4
<1>13. CASE ObtainTokens(q) \/ Finish(q)
  <2>1. /\ req[q].phase = "served" /\ permits' = permits
        /\ req' = [req EXCEPT ![q] = Idle]
    BY <1>13 DEF ObtainTokens, Finish
  <2>2. Idle \in RequestState /\ Filled(Idle) /\ Idle.phase = "idle"
        /\ Idle.key = Null /\ Idle.stored = Null
    BY DEF Idle, RequestState, Filled
  <2>3. Moves(q, Idle)
    BY <2>1, <2>2 DEF Moves, Keeps, Holding
  <2>4. \A urlOf : Sound(Idle, urlOf)
    BY <2>2, NullIsNoKey DEF Sound, Refers, Renews, Warned, Active
  <2> QED BY <2>3, <2>4
<1>14. ~InsertRow(q)
  BY DEF Saves
<1> QED BY <1>1, <1>4, <1>5, <1>6, <1>7, <1>8, <1>9, <1>10, <1>11, <1>12, <1>13, <1>14 DEF Resolve

----------------------------------------------------------------------------
(* Saving a document.                                                      *)

\* What save() does to the table: it renews the row it found, or stores a new one, with a
\* new key or with the key of the row that went away, when nothing has the URL.
Renewal(q, k, doc) == /\ req[q].phase = "update" /\ k = req[q].key /\ app[k] # Null
                      /\ ~Locked(k) /\ doc.born = app[k].born /\ lastKey' = lastKey
Insertion(q, k, doc) == /\ req[q].phase = "insert" /\ app[k] = Null /\ KeysOf(req[q].url) = {}
                        /\ doc.born = "cimd"
                        /\ \/ k = req[q].key /\ lastKey' = lastKey
                           \/ k = lastKey + 1 /\ lastKey' = k
Writes(q, k, doc) == /\ doc \in Row /\ doc.url = req[q].url /\ doc.source = "cimd"
                     /\ app' = [app EXCEPT ![k] = doc]
                     /\ Renewal(q, k, doc) \/ Insertion(q, k, doc)

LEMMA SaveWrites ==
  ASSUME TypeOK, RequestsFilled, NEW q \in Request, Saves(q)
  PROVE  \E k \in Key, doc \in Row :
           /\ Writes(q, k, doc)
           /\ Moves(q, Answered(q, k))
           /\ UNCHANGED <<now, pruner, elsewhere>>
<1>0. /\ req[q] \in RequestState /\ Filled(req[q])
      /\ req[q].phase \in {"update", "insert"}
      /\ req[q].url \in Url /\ req[q].expires \in Nat
  BY DEF TypeOK, Saves, UpdateRow, InsertRow, RequestsFilled, Filled, RequestState
<1>1. CASE UpdateRow(q) /\ app[req[q].key] # Null
  <2> DEFINE k == req[q].key
             doc == Document(q, app[k].born)
  <2>1. k \in Key /\ app[k] \in Row
    BY <1>0, <1>1 DEF UpdateRow, Filled, RequestState, TypeOK
  <2>2. doc \in Row /\ doc.url = req[q].url /\ doc.source = "cimd" /\ doc.born = app[k].born
    BY <1>0, <2>1 DEF Document, Row
  <2>3. /\ app' = [app EXCEPT ![k] = doc] /\ Release(q, k) /\ ~Locked(k) /\ lastKey' = lastKey
        /\ UNCHANGED <<now, pruner, elsewhere>> /\ req[q].phase = "update"
    BY <1>1 DEF UpdateRow
  <2>4. Moves(q, Answered(q, k))
    BY <2>1, <2>3, ReleaseMoves DEF Holding
  <2> HIDE DEF doc
  <2>5. Writes(q, k, doc)
    BY <1>1, <2>2, <2>3 DEF Writes, Renewal
  <2> QED BY <2>1, <2>2, <2>3, <2>4, <2>5
<1>2. CASE InsertRow(q)
  <2> DEFINE k == InsertKey(q)
             doc == Document(q, "cimd")
  <2>1. k \in Key /\ app[k] = Null
    BY <1>2 DEF InsertRow
  <2>2. doc \in Row /\ doc.url = req[q].url /\ doc.source = "cimd" /\ doc.born = "cimd"
    BY <1>0 DEF Document, Row
  <2>3. /\ app' = [app EXCEPT ![k] = doc] /\ Release(q, k)
        /\ KeysOf(req[q].url) = {} /\ req[q].phase = "insert"
        /\ UNCHANGED <<now, pruner, elsewhere>>
    BY <1>2 DEF InsertRow
  <2>4. (k = req[q].key /\ lastKey' = lastKey) \/ (k = lastKey + 1 /\ lastKey' = k)
    BY <1>2 DEF InsertRow, InsertKey, NewKey
  <2>5. Moves(q, Answered(q, k))
    BY <2>1, <2>3, ReleaseMoves DEF Holding
  <2> HIDE DEF doc, k
  <2>6. Writes(q, k, doc)
    BY <2>1, <2>2, <2>3, <2>4 DEF Writes, Insertion
  <2> QED BY <2>1, <2>2, <2>3, <2>5, <2>6
<1> QED BY <1>1, <1>2 DEF Saves

----------------------------------------------------------------------------
(* Types and slots.                                                        *)

Shape == TypeOK /\ PermitsAreHeld /\ RequestsFilled
RequestsShaped == /\ req \in [Request -> RequestState] /\ RequestsFilled
                  /\ permits \in 0..Cap /\ PermitsAreHeld

LEMMA MovesShape ==
  ASSUME Shape, NEW q \in Request, NEW row, Moves(q, row), elsewhere' = elsewhere
  PROVE  RequestsShaped'
<1>1. /\ row \in RequestState /\ Filled(row)
      /\ req' = [req EXCEPT ![q] = row] /\ req \in [Request -> RequestState]
  BY DEF Moves, Shape, TypeOK
<1>2. req' \in [Request -> RequestState] /\ RequestsFilled'
  BY <1>1 DEF Shape, RequestsFilled
<1>3. req'[q] = row /\ \A p \in Request \ {q} : req'[p] = req[p]
  BY <1>1
<1>4. /\ permits = elsewhere + Cardinality(Holders)
      /\ permits \in 0..Cap /\ elsewhere \in Nat /\ Cap \in Nat
      /\ Cardinality(Holders) \in Nat
  BY HoldersCounted, HoldersFinite, MetadataAssumption DEF Shape, TypeOK
<1>5. permits' = elsewhere + Cardinality(Holders') /\ permits' \in 0..Cap
  <2>1. CASE Keeps(q, row)
    <3>1. Holders' = Holders
      BY <1>3, <2>1, SlotKept DEF Keeps
    <3> QED BY <1>4, <2>1, <3>1 DEF Keeps
  <2>2. CASE Takes(q, row)
    <3>1. Cardinality(Holders') = Cardinality(Holders) + 1
      BY <1>3, <2>2, SlotTaken DEF Takes
    <3> QED BY <1>4, <2>2, <3>1 DEF Takes
  <2>3. CASE Frees(q, row)
    <3>1. Cardinality(Holders') = Cardinality(Holders) - 1 /\ Cardinality(Holders) >= 1
      BY <1>3, <2>3, SlotFreed DEF Frees
    <3> QED BY <1>4, <2>3, <3>1 DEF Frees
  <2> QED BY <2>1, <2>2, <2>3 DEF Moves
<1>6. PermitsAreHeld'
  BY <1>5 DEF PermitsAreHeld, Holders
<1> QED BY <1>2, <1>5, <1>6 DEF RequestsShaped

\* Operators and the pruner do no more to a request than disturb it.
LEMMA DisturbShape ==
  ASSUME Shape, NEW U, Disturb(U), UNCHANGED <<permits, elsewhere>>
  PROVE  /\ RequestsShaped'
         /\ \A q \in Request :
              /\ req'[q] \in {req[q], [req[q] EXCEPT !.disturbed = TRUE]}
              /\ Active(req[q]) /\ req[q].url \in U => req'[q].disturbed
<1>1. \A q \in Request : req[q] \in RequestState
  BY DEF Shape, TypeOK
<1>2. \A q \in Request :
        /\ req'[q] \in {req[q], [req[q] EXCEPT !.disturbed = TRUE]}
        /\ Active(req[q]) /\ req[q].url \in U => req'[q] = [req[q] EXCEPT !.disturbed = TRUE]
  BY DEF Disturb, Active
<1>3. \A q \in Request : /\ [req[q] EXCEPT !.disturbed = TRUE] \in RequestState
                         /\ [req[q] EXCEPT !.disturbed = TRUE].disturbed
                         /\ [req[q] EXCEPT !.disturbed = TRUE].phase = req[q].phase
                         /\ [req[q] EXCEPT !.disturbed = TRUE].url = req[q].url
                         /\ [req[q] EXCEPT !.disturbed = TRUE].key = req[q].key
  BY <1>1 DEF RequestState
<1>4. req' \in [Request -> RequestState]
  BY <1>1, <1>3 DEF Disturb
<1>5. \A q \in Request : req'[q].phase = req[q].phase /\ req'[q].url = req[q].url
                         /\ req'[q].key = req[q].key
  BY <1>2, <1>3
<1>6. RequestsFilled'
  BY <1>5 DEF Shape, RequestsFilled, Filled
<1>7. Holders' = Holders
  BY <1>5, SlotKept
<1>8. permits \in 0..Cap /\ PermitsAreHeld'
  BY <1>7, HoldersCounted DEF Shape, TypeOK, PermitsAreHeld, Holders
<1> QED BY <1>2, <1>3, <1>4, <1>6, <1>8 DEF RequestsShaped

LEMMA SameShape ==
  ASSUME Shape, UNCHANGED <<req, permits, elsewhere>>
  PROVE  RequestsShaped'
<1>1. Holders' = Holders
  BY DEF Holders
<1>2. PermitsAreHeld'
  BY <1>1, HoldersCounted DEF Shape, PermitsAreHeld, Holders
<1> QED BY <1>2 DEF Shape, RequestsShaped, TypeOK, RequestsFilled

LEMMA QuietTables ==
  ASSUME NEW q \in Request, Resolve(q), ~Saves(q)
  PROVE  UNCHANGED <<now, app, lastKey, pruner>>
BY DEF Resolve, Saves, LoadApplication, Decline, PassBackoff, CapReached, TakeSlot, FetchDocument,
       FetchFails, LookUp, LookUpCollides, UpdateRow, InsertConflicts, ReloadWinner, ReloadFails,
       GiveUp, ObtainTokens, Finish

\* What a resolution does to everything but the requests.
LEMMA ResolveTables ==
  ASSUME Shape, NEW q \in Request, Resolve(q)
  PROVE  /\ app' \in [Key -> Row \cup {Null}] /\ lastKey' \in 0..MaxKey
         /\ alive' \subseteq Key /\ backoff' \in [Url -> Nat]
         /\ UNCHANGED <<now, elsewhere, pruner>>
<1> USE DEF Shape
<1>1. now + Backoff \in Nat
  BY MetadataAssumption DEF TypeOK
<1>2. CASE GiveUp(q) /\ lastKey' = lastKey
  BY <1>1, <1>2 DEF GiveUp, TypeOK
<1>3. CASE ObtainTokens(q)
  BY <1>3, NullIsNoKey DEF ObtainTokens, TypeOK, RequestsFilled, Filled, RequestState
<1>4. CASE Saves(q)
  <2>1. PICK k \in Key, doc \in Row : Writes(q, k, doc) /\ UNCHANGED <<now, pruner, elsewhere>>
    BY <1>4, SaveWrites
  <2>2. app' \in [Key -> Row \cup {Null}]
    BY <2>1 DEF Writes, TypeOK
  <2>3. lastKey' \in 0..MaxKey
    BY <2>1, MetadataAssumption DEF Writes, Renewal, Insertion, TypeOK, Key
  <2>4. UNCHANGED <<alive, backoff>>
    BY <1>4 DEF Saves, UpdateRow, InsertRow
  <2> QED BY <2>1, <2>2, <2>3, <2>4 DEF TypeOK
<1>5. ASSUME UNCHANGED <<now, alive, app, lastKey, backoff, elsewhere, pruner>>
      PROVE  /\ app' \in [Key -> Row \cup {Null}] /\ lastKey' \in 0..MaxKey
             /\ alive' \subseteq Key /\ backoff' \in [Url -> Nat]
             /\ UNCHANGED <<now, elsewhere, pruner>>
  BY <1>5 DEF TypeOK
<1>6. CASE FetchFails(q) \/ LookUpCollides(q) \/ ReloadFails(q)
  BY <1>2, <1>6 DEF FetchFails, LookUpCollides, ReloadFails, GiveUp
<1>7. CASE UpdateRow(q) /\ app[req[q].key] = Null
  BY <1>5, <1>7 DEF UpdateRow
<1>8. CASE \E u \in Url : LoadApplication(q, u)
  BY <1>5, <1>8 DEF LoadApplication
<1>9. CASE \/ Decline(q) \/ PassBackoff(q) \/ CapReached(q) \/ TakeSlot(q)
           \/ FetchDocument(q) \/ LookUp(q)
  BY <1>5, <1>9 DEF Decline, PassBackoff, CapReached, TakeSlot, FetchDocument, LookUp
<1>10. CASE InsertConflicts(q) \/ ReloadWinner(q) \/ Finish(q)
  BY <1>5, <1>10 DEF InsertConflicts, ReloadWinner, Finish
<1> QED BY <1>3, <1>4, <1>6, <1>7, <1>8, <1>9, <1>10 DEF Resolve, Saves

LEMMA StepMoves ==
  ASSUME Shape, OneRowPerUrl, NEW q \in Request, Resolve(q)
  PROVE  \E row : Moves(q, row)
<1>1. CASE Saves(q)
  BY <1>1, SaveWrites DEF Shape
<1>2. CASE ~Saves(q)
  BY <1>2, QuietMoves DEF Shape
<1> QED BY <1>1, <1>2

LEMMA DeleteTables ==
  ASSUME TypeOK, NEW K, Delete(K)
  PROVE  app' \in [Key -> Row \cup {Null}] /\ alive' \subseteq Key
BY DEF Delete, TypeOK

LEMMA NextShape ==
  ASSUME Shape, OneRowPerUrl, [Next]_vars
  PROVE  Shape'
<1> USE DEF Shape
<1>1. ASSUME NEW q \in Request, Resolve(q)
      PROVE  Shape'
  <2>1. PICK row : Moves(q, row)
    BY <1>1, StepMoves
  <2>2. /\ app' \in [Key -> Row \cup {Null}] /\ lastKey' \in 0..MaxKey
        /\ alive' \subseteq Key /\ backoff' \in [Url -> Nat]
        /\ UNCHANGED <<now, elsewhere, pruner>>
    BY <1>1, ResolveTables
  <2>3. RequestsShaped'
    BY <2>1, <2>2, MovesShape
  <2> QED BY <2>2, <2>3 DEF TypeOK, RequestsShaped
<1>2. CASE Tick
  <2>1. RequestsShaped'
    BY <1>2, SameShape DEF Tick
  <2> QED BY <1>2, <2>1 DEF Tick, TypeOK, RequestsShaped
<1>3. CASE FetchElsewhere \/ FinishElsewhere
  <2>1. Holders' = Holders
    BY <1>3 DEF FetchElsewhere, FinishElsewhere, Holders
  <2>2. /\ permits = elsewhere + Cardinality(Holders) /\ Cardinality(Holders) \in Nat
        /\ permits \in 0..Cap /\ elsewhere \in 0..MaxElsewhere
        /\ Cap \in Nat /\ MaxElsewhere \in Nat
    BY HoldersCounted, HoldersFinite, MetadataAssumption DEF TypeOK
  <2>3. /\ permits' = elsewhere' + Cardinality(Holders)
        /\ permits' \in 0..Cap /\ elsewhere' \in 0..MaxElsewhere
    BY <1>3, <2>2 DEF FetchElsewhere, FinishElsewhere
  <2>4. PermitsAreHeld'
    BY <2>1, <2>3 DEF PermitsAreHeld, Holders
  <2>5. UNCHANGED <<now, alive, app, lastKey, backoff, req, pruner>>
    BY <1>3 DEF FetchElsewhere, FinishElsewhere
  <2> QED BY <2>3, <2>4, <2>5 DEF TypeOK, RequestsFilled
<1>4. ASSUME NEW u \in Url, Provision(u)
      PROVE  Shape'
  <2>1. RequestsShaped'
    BY <1>4, DisturbShape DEF Provision
  <2>2. [url |-> u, source |-> "manual", born |-> "manual", expires |-> 0] \in Row
    BY DEF Row
  <2>3. app' \in [Key -> Row \cup {Null}] /\ lastKey' \in 0..MaxKey
    BY <1>4, <2>2, MetadataAssumption DEF Provision, TypeOK, Key
  <2> QED BY <1>4, <2>1, <2>3 DEF Provision, TypeOK, RequestsShaped
<1>5. ASSUME NEW k \in Key, DeleteApplication(k)
      PROVE  Shape'
  <2>1. RequestsShaped'
    BY <1>5, DisturbShape DEF DeleteApplication, Delete
  <2>2. app' \in [Key -> Row \cup {Null}] /\ alive' \subseteq Key
    BY <1>5, DeleteTables DEF DeleteApplication
  <2> QED BY <1>5, <2>1, <2>2 DEF DeleteApplication, TypeOK, RequestsShaped
<1>6. ASSUME NEW k \in Key, Adopt(k)
      PROVE  Shape'
  <2>1. RequestsShaped'
    BY <1>6, DisturbShape DEF Adopt
  <2>2. app' \in [Key -> Row \cup {Null}]
    BY <1>6 DEF Adopt, TypeOK, Row
  <2> QED BY <1>6, <2>1, <2>2 DEF Adopt, TypeOK, RequestsShaped
<1>7. ASSUME NEW k \in Key, Lapse(k)
      PROVE  Shape'
  <2>1. RequestsShaped'
    BY <1>7, SameShape DEF Lapse
  <2> QED BY <1>7, <2>1 DEF Lapse, TypeOK, RequestsShaped
<1>8. CASE Prune
  <2>1. CASE DeleteBatch
    <3>1. RequestsShaped'
      BY <2>1, DisturbShape DEF DeleteBatch, Delete
    <3>2. app' \in [Key -> Row \cup {Null}] /\ alive' \subseteq Key
      BY <2>1, DeleteTables DEF DeleteBatch
    <3> QED BY <2>1, <3>1, <3>2 DEF DeleteBatch, TypeOK, RequestsShaped
  <2>2. CASE SelectPage
    <3>1. FirstOf(Candidates) \in SUBSET Key /\ Max(FirstOf(Candidates)) \in 0..MaxKey
      BY <2>2, PageType, MetadataAssumption DEF SelectPage, Key
    <3>2. RequestsShaped'
      BY <2>2, SameShape DEF SelectPage
    <3> QED BY <2>2, <3>1, <3>2 DEF SelectPage, TypeOK, RequestsShaped
  <2>3. CASE StartPruning \/ LockBatch \/ FinishPruning \/ KillPruning
    <3>1. RequestsShaped'
      BY <2>3, SameShape DEF StartPruning, LockBatch, FinishPruning, KillPruning
    <3>2. pruner' \in [phase : {"idle", "page", "selected", "locked"}, at : Nat,
                       cursor : 0..MaxKey, batch : SUBSET Key]
      <4>1. 0 \in 0..MaxKey
        BY MetadataAssumption
      <4>2. CASE StartPruning
        BY <4>1, <4>2 DEF StartPruning, Resting, TypeOK
      <4>3. CASE LockBatch
        <5>1. StillExpired \in SUBSET Key
          BY DEF StillExpired, TypeOK
        <5> QED BY <4>3, <5>1 DEF LockBatch, TypeOK
      <4>4. CASE FinishPruning \/ KillPruning
        BY <4>1, <4>4 DEF FinishPruning, KillPruning, Resting
      <4> QED BY <2>3, <4>2, <4>3, <4>4
    <3> QED BY <2>3, <3>1, <3>2 DEF StartPruning, LockBatch, FinishPruning, KillPruning,
                                    TypeOK, RequestsShaped
  <2> QED BY <1>8, <2>1, <2>2, <2>3 DEF Prune
<1>9. CASE UNCHANGED vars
  <2>1. RequestsShaped'
    BY <1>9, SameShape DEF vars
  <2> QED BY <1>9, <2>1 DEF vars, TypeOK, RequestsShaped
<1> QED BY <1>1, <1>2, <1>3, <1>4, <1>5, <1>6, <1>7, <1>8, <1>9 DEF Next, Operate

----------------------------------------------------------------------------
(* One row per URL, and what requests believe about the rows.              *)

LEMMA NextOneRow ==
  ASSUME Shape, OneRowPerUrl, RequestsSound, [Next]_vars
  PROVE  OneRowPerUrl'
<1> USE DEF Shape
<1>0. PICK urlOf : RowsSound(urlOf) /\ \A q \in Request : Sound(req[q], urlOf)
  BY DEF RequestsSound
<1>1. ASSUME NEW k \in Key, NEW doc \in Row, app' = [app EXCEPT ![k] = doc],
             (app[k] # Null /\ doc.url = app[k].url) \/ KeysOf(doc.url) = {}
      PROVE  OneRowPerUrl'
  <2>1. \A j \in Key : app'[j] = IF j = k THEN doc ELSE app[j]
    BY <1>1 DEF TypeOK
  <2>2. CASE app[k] # Null /\ doc.url = app[k].url
    BY <2>1, <2>2 DEF OneRowPerUrl
  <2>3. CASE KeysOf(doc.url) = {}
    BY <2>1, <2>3 DEF OneRowPerUrl, KeysOf
  <2> QED BY <1>1, <2>2, <2>3
<1>2. ASSUME NEW K, app' = [k \in Key |-> IF k \in K THEN Null ELSE app[k]]
      PROVE  OneRowPerUrl'
  BY <1>2 DEF OneRowPerUrl
<1>3. ASSUME UNCHANGED app
      PROVE  OneRowPerUrl'
  BY <1>3 DEF OneRowPerUrl
<1>4. ASSUME NEW q \in Request, Resolve(q)
      PROVE  OneRowPerUrl'
  <2>1. CASE Saves(q)
    <3>1. PICK k \in Key, doc \in Row : Writes(q, k, doc)
      BY <2>1, SaveWrites
    <3>2. Renewal(q, k, doc) => app[k] # Null /\ doc.url = app[k].url
      BY <1>0, <3>1 DEF Writes, Renewal, Sound, Refers, RowsSound
    <3>3. Insertion(q, k, doc) => KeysOf(doc.url) = {}
      BY <3>1 DEF Writes, Insertion
    <3> QED BY <1>1, <3>1, <3>2, <3>3 DEF Writes
  <2>2. CASE ~Saves(q)
    <3>1. UNCHANGED app
      BY <1>4, <2>2, QuietTables
    <3> QED BY <1>3, <3>1
  <2> QED BY <2>1, <2>2
<1>5. ASSUME NEW u \in Url, Provision(u)
      PROVE  OneRowPerUrl'
  <2> DEFINE doc == [url |-> u, source |-> "manual", born |-> "manual", expires |-> 0]
  <2>1. doc \in Row /\ doc.url = u
    BY DEF Row
  <2>2. NewKey \in Key /\ KeysOf(u) = {} /\ app' = [app EXCEPT ![NewKey] = doc]
    BY <1>5 DEF Provision
  <2> HIDE DEF doc
  <2> QED BY <1>1, <2>1, <2>2
<1>6. ASSUME NEW k \in Key, Adopt(k)
      PROVE  OneRowPerUrl'
  <2> DEFINE doc == [app[k] EXCEPT !.source = "manual"]
  <2>1. doc \in Row /\ doc.url = app[k].url /\ app[k] # Null
    BY <1>6 DEF Adopt, Row, TypeOK
  <2>2. app' = [app EXCEPT ![k] = doc]
    BY <1>6 DEF Adopt, TypeOK
  <2> HIDE DEF doc
  <2> QED BY <1>1, <2>1, <2>2
<1>7. CASE \E k \in Key : DeleteApplication(k)
  BY <1>2, <1>7 DEF DeleteApplication, Delete
<1>8. CASE DeleteBatch
  BY <1>2, <1>8 DEF DeleteBatch, Delete
<1>9. CASE \/ Tick \/ FetchElsewhere \/ FinishElsewhere
           \/ StartPruning \/ SelectPage \/ LockBatch \/ FinishPruning \/ KillPruning
           \/ (\E k \in Key : Lapse(k)) \/ UNCHANGED vars
  BY <1>3, <1>9 DEF Tick, FetchElsewhere, FinishElsewhere, StartPruning, SelectPage, LockBatch,
                    FinishPruning, KillPruning, Lapse, vars
<1> QED BY <1>4, <1>5, <1>6, <1>7, <1>8, <1>9 DEF Next, Operate, Prune

\* A disturbed request believes what it believed.
LEMMA DisturbSound ==
  ASSUME Shape, NEW q \in Request, NEW urlOf, Sound(req[q], urlOf),
         NEW row \in {req[q], [req[q] EXCEPT !.disturbed = TRUE]}
  PROVE  Sound(row, urlOf) /\ row.url = req[q].url /\ row.phase = req[q].phase
<1>1. req[q] \in RequestState
  BY DEF Shape, TypeOK
<1>2. /\ row.url = req[q].url /\ row.phase = req[q].phase
      /\ row.key = req[q].key /\ row.stored = req[q].stored
      /\ req[q].disturbed => row.disturbed
  BY <1>1 DEF RequestState
<1> QED BY <1>2 DEF Sound, Refers, Renews, Warned, Active

LEMMA SameTableSound ==
  ASSUME NEW q \in Request, NEW urlOf, NEW row, Sound(row, urlOf), req'[q] = row,
         UNCHANGED <<app, lastKey>>
  PROVE  Sound(req[q], urlOf)'
BY DEF Sound, Refers, Renews, Warned, Active, KeysOf

\* One row is stored: what others believe holds, unless a provisioned client now has the URL
\* they work on, of which they are warned.
Stores(urlOf, urlOf2, k, doc) ==
  /\ app' = [app EXCEPT ![k] = doc] /\ doc # Null /\ doc.url = urlOf2[k]
  /\ lastKey' \in Nat /\ lastKey' >= lastKey /\ k <= lastKey'
  /\ \A j \in Key : j <= lastKey => urlOf2[j] = urlOf[j]
  /\ k <= lastKey => doc.born = "cimd" \/ (app[k] # Null /\ doc.born = app[k].born)
  /\ doc.born = "manual" => doc.source = "manual"

LEMMA StoreSound ==
  ASSUME Shape, NEW urlOf, NEW urlOf2, NEW k \in Key, NEW doc, Stores(urlOf, urlOf2, k, doc),
         RowsSound(urlOf)
  PROVE  /\ RowsSound(urlOf2)'
         /\ \A q \in Request : \A row :
              /\ req'[q] = row /\ Sound(row, urlOf)
              /\ doc.source = "manual" =>
                   \/ app[k] # Null /\ app[k].source = "manual"
                   \/ Active(row) /\ row.url = doc.url => row.disturbed
              => Sound(req[q], urlOf2)'
<1>1. /\ app'[k] = doc /\ \A j \in Key : j # k => app'[j] = app[j]
      /\ lastKey \in Nat /\ lastKey' \in Nat /\ Key \subseteq Nat
  <2>1. lastKey \in Nat /\ Key \subseteq Nat
    BY MetadataAssumption DEF Shape, TypeOK, Key
  <2> QED BY <2>1 DEF Stores, Shape, TypeOK
<1>2. app[k] # Null => k <= lastKey /\ urlOf2[k] = app[k].url
  BY DEF RowsSound, Stores
<1>3. RowsSound(urlOf2)'
  <2> SUFFICES ASSUME NEW j \in Key, app'[j] # Null
               PROVE  /\ j <= lastKey' /\ app'[j].url = urlOf2[j]
                      /\ app'[j].born = "manual" => app'[j].source = "manual"
    BY DEF RowsSound
  <2>1. CASE j = k
    BY <1>1, <2>1 DEF Stores
  <2>2. CASE j # k
    <3>1. app[j] # Null /\ app'[j] = app[j]
      BY <1>1, <2>2
    <3>2. j <= lastKey
      BY <3>1 DEF RowsSound
    <3>3. j <= lastKey'
      BY <1>1, <3>2 DEF Stores
    <3> QED BY <3>1, <3>2, <3>3 DEF RowsSound, Stores
  <2> QED BY <2>1, <2>2
<1>4. ASSUME NEW q \in Request, NEW row, req'[q] = row, Sound(row, urlOf),
             doc.source = "manual" =>
                   \/ app[k] # Null /\ app[k].source = "manual"
                   \/ Active(row) /\ row.url = doc.url => row.disturbed
      PROVE  Sound(req[q], urlOf2)'
  <2>1. \A j \in Key : j = row.key \/ j = row.stored =>
          j <= lastKey /\ j <= lastKey' /\ row.url = urlOf2[j]
    <3>1. \A j \in Key : j = row.key \/ j = row.stored => j <= lastKey /\ row.url = urlOf[j]
      BY <1>4 DEF Sound, Refers
    <3>2. \A j \in Key : j <= lastKey => j <= lastKey' /\ urlOf2[j] = urlOf[j]
      <4>1. lastKey' >= lastKey /\ \A j \in Key : j <= lastKey => urlOf2[j] = urlOf[j]
        BY DEF Stores
      <4> QED BY <1>1, <4>1
    <3> QED BY <3>1, <3>2
  <2>2. Refers(req[q], urlOf2)'
    BY <1>4, <2>1 DEF Refers
  <2>3. Renews(req[q])'
    BY <1>1, <1>4, <2>1 DEF Sound, Renews, Stores
  <2>4. ASSUME Active(row), NEW j \in Key, app'[j] # Null, app'[j].url = row.url,
               app'[j].source = "manual"
        PROVE  row.disturbed
    <3>1. CASE j # k
      BY <1>1, <1>4, <2>4, <3>1 DEF Sound, Warned, KeysOf
    <3>2. CASE j = k /\ app[k] # Null /\ app[k].source = "manual"
      <4>1. k \in KeysOf(row.url)
        BY <1>1, <1>2, <2>4, <3>2 DEF KeysOf, Stores
      <4> QED BY <1>4, <2>4, <3>2, <4>1 DEF Sound, Warned
    <3>3. CASE j = k /\ ~(app[k] # Null /\ app[k].source = "manual")
      BY <1>1, <1>4, <2>4, <3>3
    <3> QED BY <3>1, <3>2, <3>3
  <2>5. ASSUME row.phase = "reload", KeysOf(row.url)' = {}
        PROVE  row.disturbed
    <3>1. \A j \in Key : ~(app'[j] # Null /\ app'[j].url = row.url)
      BY <2>5 DEF KeysOf
    <3>2. ASSUME NEW j \in Key, app[j] # Null, app[j].url = row.url
          PROVE  app'[j] # Null /\ app'[j].url = row.url
      <4>1. CASE j = k
        BY <1>1, <1>2, <3>2, <4>1 DEF Stores
      <4>2. CASE j # k
        BY <1>1, <3>2, <4>2
      <4> QED BY <4>1, <4>2
    <3>3. KeysOf(row.url) = {}
      BY <3>1, <3>2 DEF KeysOf
    <3> QED BY <1>4, <2>5, <3>3 DEF Sound, Warned
  <2>6. Warned(req[q])'
    BY <1>4, <2>4, <2>5 DEF Warned, Active, KeysOf
  <2> QED BY <2>2, <2>3, <2>6 DEF Sound
<1> QED BY <1>3, <1>4

\* Rows that are deleted take nothing from what is believed of them; a request that waits for
\* one of them is disturbed.
LEMMA DeleteSound ==
  ASSUME Shape, NEW K \in SUBSET Key, Delete(K), UNCHANGED <<lastKey, permits, elsewhere>>,
         NEW urlOf, RowsSound(urlOf), \A q \in Request : Sound(req[q], urlOf)
  PROVE  RowsSound(urlOf)' /\ \A q \in Request : Sound(req[q], urlOf)'
<1>1. \A k \in Key : app'[k] = IF k \in K THEN Null ELSE app[k]
  BY DEF Delete
<1>2. RowsSound(urlOf)'
  BY <1>1 DEF RowsSound
<1>3. ASSUME NEW q \in Request
      PROVE  Sound(req[q], urlOf)'
  <2> DEFINE row == req'[q]
  <2>1. /\ row \in {req[q], [req[q] EXCEPT !.disturbed = TRUE]}
        /\ Active(req[q]) /\ req[q].url \in UrlsOf(K) => row.disturbed
    BY DisturbShape DEF Delete
  <2> HIDE DEF row
  <2>2. Sound(row, urlOf) /\ row.url = req[q].url /\ row.phase = req[q].phase
    BY <2>1, DisturbSound
  <2>3. Refers(req[q], urlOf)'
    BY <2>2 DEF Sound, Refers, row
  <2>4. Renews(req[q])'
    BY <1>1, <2>2 DEF Sound, Renews, row
  <2>5. ASSUME NEW j \in Key, app'[j] # Null, app'[j].url = row.url, app'[j].source = "manual",
               Active(row)
        PROVE  row.disturbed
    BY <1>1, <2>2, <2>5 DEF Sound, Warned, KeysOf
  <2>6. ASSUME row.phase = "reload", \A j \in Key : ~(app'[j] # Null /\ app'[j].url = row.url)
        PROVE  row.disturbed
    <3>1. CASE KeysOf(row.url) = {}
      BY <2>2, <2>6, <3>1 DEF Sound, Warned
    <3>2. ASSUME NEW j \in Key, app[j] # Null, app[j].url = row.url
          PROVE  row.disturbed
      <4>1. j \in K
        BY <1>1, <2>6, <3>2
      <4>2. req[q].url \in UrlsOf(K)
        BY <2>2, <3>2, <4>1 DEF UrlsOf
      <4> QED BY <2>1, <2>2, <2>6, <4>2 DEF Active
    <3> QED BY <3>1, <3>2 DEF KeysOf
  <2>7. Warned(req[q])'
    BY <2>5, <2>6 DEF Warned, Active, KeysOf, row
  <2> QED BY <2>3, <2>4, <2>7 DEF Sound
<1> QED BY <1>2, <1>3

LEMMA NextSound ==
  ASSUME Shape, OneRowPerUrl, RequestsSound, [Next]_vars
  PROVE  RequestsSound'
<1> USE DEF Shape
<1>0. PICK urlOf \in [Key -> Url \cup {Null}] :
        RowsSound(urlOf) /\ \A q \in Request : Sound(req[q], urlOf)
  BY DEF RequestsSound
<1>a. lastKey \in Nat /\ Key \subseteq Nat /\ MaxKey \in Nat
  BY MetadataAssumption DEF TypeOK, Key
<1>1. ASSUME NEW q \in Request, Resolve(q), ~Saves(q)
      PROVE  RequestsSound'
  <2>1. PICK row : Moves(q, row) /\ Sound(row, urlOf)
    BY <1>0, <1>1, QuietMoves
  <2>2. \A p \in Request : req'[p] = IF p = q THEN row ELSE req[p]
    BY <2>1 DEF Moves, TypeOK
  <2>3. UNCHANGED <<app, lastKey>>
    BY <1>1, QuietTables
  <2>4. RowsSound(urlOf)'
    BY <1>0, <2>3 DEF RowsSound
  <2>5. ASSUME NEW p \in Request
        PROVE  Sound(req[p], urlOf)'
    <3>1. CASE p = q
      BY <2>1, <2>2, <2>3, <3>1, SameTableSound
    <3>2. CASE p # q
      BY <1>0, <2>2, <2>3, <3>2, SameTableSound
    <3> QED BY <3>1, <3>2
  <2> QED BY <2>4, <2>5 DEF RequestsSound
<1>2. ASSUME NEW q \in Request, Saves(q)
      PROVE  RequestsSound'
  <2>1. PICK k \in Key, doc \in Row : Writes(q, k, doc) /\ Moves(q, Answered(q, k))
    BY <1>2, SaveWrites
  <2> DEFINE urlOf2 == [urlOf EXCEPT ![k] = doc.url]
             row == Answered(q, k)
  <2>2. urlOf2 \in [Key -> Url \cup {Null}] /\ urlOf2[k] = doc.url
        /\ \A j \in Key : j # k => urlOf2[j] = urlOf[j]
    BY <2>1 DEF Row
  <2>3. k <= lastKey => urlOf[k] = doc.url
    BY <1>0, <1>a, <2>1 DEF Writes, Renewal, Insertion, Sound, Refers, RowsSound
  <2>4. Stores(urlOf, urlOf2, k, doc)
    <3>1. lastKey' \in Nat /\ lastKey' >= lastKey /\ k <= lastKey'
      BY <1>0, <1>a, <2>1 DEF Writes, Renewal, Insertion, Sound, Refers
    <3>2. doc.born = "manual" => doc.source = "manual"
      BY <1>0, <2>1 DEF Writes, Renewal, Insertion, RowsSound, Sound, Renews, Row
    <3>3. doc # Null
      BY <2>1, RowAssumption
    <3>4. k <= lastKey => doc.born = "cimd" \/ (app[k] # Null /\ doc.born = app[k].born)
      BY <2>1 DEF Writes, Renewal, Insertion
    <3> HIDE DEF urlOf2
    <3> QED BY <2>1, <2>2, <2>3, <3>1, <3>2, <3>3, <3>4 DEF Stores, Writes
  <2>5. doc.source # "manual"
    BY <2>1 DEF Writes
  <2>6. /\ row.phase = "served" /\ row.key = k /\ row.stored = Null /\ row.url = doc.url
        /\ req'[q] = row /\ \A p \in Request \ {q} : req'[p] = req[p]
    <3>1. req[q].phase # "idle" /\ k # Null
      BY <2>1, NullIsNoKey DEF Writes, Renewal, Insertion
    <3>2. /\ row.phase = "served" /\ row.key = k /\ row.stored = Null /\ row.url = req[q].url
      BY <3>1, AnsweredRow
    <3>3. req' = [req EXCEPT ![q] = row] /\ req \in [Request -> RequestState]
      BY <2>1 DEF Moves, TypeOK
    <3> HIDE DEF row
    <3> QED BY <2>1, <3>2, <3>3 DEF Writes
  <2> HIDE DEF urlOf2, row
  <2>7. RowsSound(urlOf2)' /\ \A p \in Request \ {q} : Sound(req[p], urlOf2)'
    BY <1>0, <2>4, <2>5, <2>6, StoreSound
  <2>8. Sound(req[q], urlOf2)'
    <3>1. Refers(req[q], urlOf2)'
      BY <2>2, <2>4, <2>6, NullIsNoKey DEF Refers, Stores
    <3> QED BY <2>6, <3>1 DEF Sound, Renews, Warned, Active
  <2> QED BY <2>2, <2>7, <2>8 DEF RequestsSound
<1>3. ASSUME NEW u \in Url, Provision(u)
      PROVE  RequestsSound'
  <2>0. PICK k \in Key : k = lastKey + 1 /\ k = NewKey
    BY <1>3 DEF Provision, NewKey
  <2> DEFINE doc == [url |-> u, source |-> "manual", born |-> "manual", expires |-> 0]
             urlOf2 == [urlOf EXCEPT ![k] = u]
  <2>1. /\ app' = [app EXCEPT ![k] = doc] /\ lastKey' = k
        /\ Disturb({u}) /\ UNCHANGED <<permits, elsewhere>>
    BY <1>3, <2>0 DEF Provision
  <2>2. /\ doc \in Row /\ doc # Null
        /\ doc.url = u /\ doc.source = "manual" /\ doc.born = "manual"
    <3>1. doc \in Row
      BY DEF Row
    <3> QED BY <3>1, RowAssumption
  <2> HIDE DEF doc
  <2>3. urlOf2 \in [Key -> Url \cup {Null}] /\ urlOf2[k] = doc.url
        /\ \A j \in Key : j # k => urlOf2[j] = urlOf[j]
    BY <2>2
  <2> HIDE DEF urlOf2
  <2>4. Stores(urlOf, urlOf2, k, doc)
    <3>1. /\ lastKey' \in Nat /\ lastKey' >= lastKey /\ k <= lastKey'
          /\ ~(k <= lastKey) /\ \A j \in Key : j <= lastKey => j # k
      BY <1>a, <2>0, <2>1
    <3> QED BY <2>1, <2>2, <2>3, <3>1 DEF Stores
  <2>5. RowsSound(urlOf2)'
    BY <1>0, <2>1, <2>4, StoreSound
  <2>6. ASSUME NEW q \in Request
        PROVE  Sound(req[q], urlOf2)'
    <3>1. /\ req'[q] \in {req[q], [req[q] EXCEPT !.disturbed = TRUE]}
          /\ Active(req[q]) /\ req[q].url = u => req'[q].disturbed
      BY <2>1, DisturbShape
    <3>2. Sound(req'[q], urlOf) /\ req'[q].url = req[q].url /\ req'[q].phase = req[q].phase
      BY <1>0, <3>1, DisturbSound
    <3>3. Active(req'[q]) /\ req'[q].url = doc.url => req'[q].disturbed
      BY <2>2, <3>1, <3>2 DEF Active
    <3> QED BY <1>0, <2>1, <2>4, <3>2, <3>3, StoreSound
  <2> QED BY <2>3, <2>5, <2>6 DEF RequestsSound
<1>4. ASSUME NEW k \in Key, Adopt(k)
      PROVE  RequestsSound'
  <2> DEFINE doc == [app[k] EXCEPT !.source = "manual"]
  <2>1. /\ app' = [app EXCEPT ![k] = doc] /\ lastKey' = lastKey
        /\ Disturb({app[k].url}) /\ UNCHANGED <<permits, elsewhere>>
        /\ app[k] \in Row /\ app[k] # Null
    BY <1>4 DEF Adopt, TypeOK
  <2>2. doc \in Row /\ doc.url = app[k].url /\ doc.source = "manual" /\ doc.born = app[k].born
    BY <2>1 DEF Row
  <2>3. k <= lastKey /\ app[k].url = urlOf[k] /\ doc # Null
    BY <1>0, <2>1, <2>2, RowAssumption DEF RowsSound
  <2> HIDE DEF doc
  <2>4. Stores(urlOf, urlOf, k, doc)
    BY <1>a, <2>1, <2>2, <2>3 DEF Stores
  <2>5. RowsSound(urlOf)'
    BY <1>0, <2>4, StoreSound
  <2>6. ASSUME NEW q \in Request
        PROVE  Sound(req[q], urlOf)'
    <3>1. /\ req'[q] \in {req[q], [req[q] EXCEPT !.disturbed = TRUE]}
          /\ Active(req[q]) /\ req[q].url = app[k].url => req'[q].disturbed
      BY <2>1, DisturbShape
    <3>2. Sound(req'[q], urlOf) /\ req'[q].url = req[q].url /\ req'[q].phase = req[q].phase
      BY <1>0, <3>1, DisturbSound
    <3>3. Active(req'[q]) /\ req'[q].url = doc.url => req'[q].disturbed
      BY <2>2, <3>1, <3>2 DEF Active
    <3> QED BY <1>0, <2>4, <3>2, <3>3, StoreSound
  <2> QED BY <2>5, <2>6 DEF RequestsSound
<1>5. ASSUME NEW K \in SUBSET Key, Delete(K), UNCHANGED <<lastKey, permits, elsewhere>>
      PROVE  RequestsSound'
  BY <1>0, <1>5, DeleteSound DEF RequestsSound
<1>6. CASE \E k \in Key : DeleteApplication(k)
  <2>1. PICK k \in Key : DeleteApplication(k)
    BY <1>6
  <2> DEFINE K == {k}
  <2>2. K \in SUBSET Key /\ Delete(K) /\ UNCHANGED <<lastKey, permits, elsewhere>>
    BY <2>1 DEF DeleteApplication
  <2> HIDE DEF K
  <2> QED BY <1>5, <2>2
<1>7. CASE DeleteBatch
  <2>1. Prunable \in SUBSET Key /\ Delete(Prunable) /\ UNCHANGED <<lastKey, permits, elsewhere>>
    BY <1>7 DEF DeleteBatch, Prunable, TypeOK
  <2> QED BY <1>5, <2>1
<1>8. CASE \/ Tick \/ FetchElsewhere \/ FinishElsewhere
           \/ StartPruning \/ SelectPage \/ LockBatch \/ FinishPruning \/ KillPruning
           \/ (\E k \in Key : Lapse(k)) \/ UNCHANGED vars
  <2>1. UNCHANGED <<app, lastKey, req>>
    BY <1>8 DEF Tick, FetchElsewhere, FinishElsewhere, StartPruning, SelectPage, LockBatch,
                FinishPruning, KillPruning, Lapse, vars
  <2>2. RowsSound(urlOf)'
    BY <1>0, <2>1 DEF RowsSound
  <2>3. \A q \in Request : Sound(req[q], urlOf)'
    BY <1>0, <2>1, SameTableSound
  <2> QED BY <2>2, <2>3 DEF RequestsSound
<1> QED BY <1>1, <1>2, <1>3, <1>4, <1>6, <1>7, <1>8 DEF Next, Operate, Prune

----------------------------------------------------------------------------
(* What the pruner has locked.                                             *)

LEMMA NextLocks ==
  ASSUME Shape, LocksHold, [Next]_vars
  PROVE  LocksHold'
<1> USE DEF Shape
<1>0. now \in Nat /\ pruner.at \in Nat /\ pruner.at <= now
  BY DEF TypeOK, LocksHold
<1>1. ASSUME UNCHANGED <<now, pruner>>,
             \A k \in Key : pruner.phase = "locked" /\ k \in pruner.batch => app'[k] = app[k]
      PROVE  LocksHold'
  <2>1. pruner.batch \subseteq Key
    BY DEF TypeOK
  <2> QED BY <1>1, <2>1 DEF LocksHold, Expired
<1>2. ASSUME NEW q \in Request, Resolve(q)
      PROVE  LocksHold'
  <2>1. CASE Saves(q)
    <3>1. PICK k \in Key, doc \in Row : Writes(q, k, doc) /\ UNCHANGED <<now, pruner>>
      BY <2>1, SaveWrites
    <3>2. app[k] = Null \/ ~Locked(k)
      BY <3>1 DEF Writes, Renewal, Insertion
    <3>3. ~(pruner.phase = "locked" /\ k \in pruner.batch)
      BY <3>2 DEF Locked, LocksHold, Expired
    <3> QED BY <1>1, <3>1, <3>3 DEF Writes, TypeOK
  <2>2. CASE ~Saves(q)
    BY <1>1, <1>2, <2>2, QuietTables
  <2> QED BY <2>1, <2>2
<1>3. CASE Tick
  BY <1>0, <1>3 DEF Tick, LocksHold, Expired
<1>4. CASE FetchElsewhere \/ FinishElsewhere \/ (\E k \in Key : Lapse(k)) \/ UNCHANGED vars
  BY <1>1, <1>4 DEF FetchElsewhere, FinishElsewhere, Lapse, vars
<1>5. CASE \E u \in Url : Provision(u)
  <2>1. /\ app[NewKey] = Null /\ UNCHANGED <<now, pruner>>
        /\ \A k \in Key : k # NewKey => app'[k] = app[k]
    BY <1>5 DEF Provision, TypeOK
  <2>2. ~(pruner.phase = "locked" /\ NewKey \in pruner.batch)
    BY <2>1 DEF LocksHold, Expired
  <2> QED BY <1>1, <2>1, <2>2
<1>6. ASSUME NEW k \in Key, DeleteApplication(k) \/ Adopt(k)
      PROVE  LocksHold'
  <2>1. ~Locked(k) /\ UNCHANGED <<now, pruner>> /\ \A j \in Key : j # k => app'[j] = app[j]
    BY <1>6 DEF DeleteApplication, Adopt, Delete, TypeOK
  <2> QED BY <1>1, <2>1 DEF Locked
<1>7. CASE LockBatch
  <2>1. /\ pruner' = [pruner EXCEPT !.phase = "locked", !.batch = StillExpired]
        /\ UNCHANGED <<now, app>>
    BY <1>7 DEF LockBatch
  <2>2. pruner'.at = pruner.at /\ pruner'.batch = StillExpired
    BY <2>1 DEF TypeOK
  <2>3. \A k \in StillExpired : Expired(k)'
    BY <2>1, <2>2 DEF StillExpired, Expired
  <2> QED BY <1>0, <2>1, <2>2, <2>3 DEF LocksHold
<1>8. CASE StartPruning \/ SelectPage \/ DeleteBatch \/ FinishPruning \/ KillPruning
  <2>1. pruner'.phase # "locked" /\ pruner'.at \in {0, now, pruner.at} /\ now' = now
    <3>1. CASE StartPruning
      BY <3>1 DEF StartPruning, Resting
    <3>2. CASE SelectPage
      BY <3>2 DEF SelectPage, TypeOK
    <3>3. CASE DeleteBatch
      BY <3>3 DEF DeleteBatch, TypeOK
    <3>4. CASE FinishPruning \/ KillPruning
      BY <3>4 DEF FinishPruning, KillPruning, Resting
    <3> QED BY <1>8, <3>1, <3>2, <3>3, <3>4
  <2> QED BY <1>0, <2>1 DEF LocksHold
<1> QED BY <1>2, <1>3, <1>4, <1>5, <1>6, <1>7, <1>8 DEF Next, Operate, Prune

----------------------------------------------------------------------------
(* The invariant.                                                          *)

LEMMA InitInv == Init => IndInv
<1> SUFFICES ASSUME Init PROVE IndInv
  OBVIOUS
<1>1. Idle \in RequestState /\ Filled(Idle) /\ Idle.phase = "idle"
      /\ Idle.key = Null /\ Idle.stored = Null
  BY DEF Idle, RequestState, Filled
<1>2. /\ req = [q \in Request |-> Idle] /\ app = [k \in Key |-> Null] /\ permits = 0
      /\ elsewhere = 0 /\ pruner = Resting /\ now = 0
  BY DEF Init
<1>3. TypeOK
  <2>1. 0 \in 0..MaxKey /\ 0 \in 0..Cap /\ 0 \in 0..MaxElsewhere
    BY MetadataAssumption
  <2>2. Resting \in [phase : {"idle", "page", "selected", "locked"}, at : Nat,
                     cursor : 0..MaxKey, batch : SUBSET Key]
    BY <2>1 DEF Resting
  <2> QED BY <1>1, <2>1, <2>2 DEF Init, TypeOK
<1>4. PermitsAreHeld
  <2>1. Holders = {}
    BY <1>1, <1>2 DEF Holders, Holding
  <2> QED BY <1>2, <2>1, FS_EmptySet, HoldersCounted
<1>5. OneRowPerUrl /\ LocksHold /\ RequestsFilled
  BY <1>1, <1>2 DEF OneRowPerUrl, LocksHold, Resting, RequestsFilled
<1>6. RequestsSound
  <2> DEFINE urlOf == [k \in Key |-> Null]
  <2>1. RowsSound(urlOf)
    BY <1>2 DEF RowsSound
  <2>2. \A q \in Request : Sound(req[q], urlOf)
    BY <1>1, <1>2, NullIsNoKey DEF Sound, Refers, Renews, Warned, Active
  <2>3. urlOf \in [Key -> Url \cup {Null}]
    OBVIOUS
  <2> HIDE DEF urlOf
  <2> QED BY <2>1, <2>2, <2>3 DEF RequestsSound
<1> QED BY <1>3, <1>4, <1>5, <1>6 DEF IndInv

LEMMA NextInv == IndInv /\ [Next]_vars => IndInv'
<1> SUFFICES ASSUME IndInv, [Next]_vars PROVE IndInv'
  OBVIOUS
<1>1. Shape /\ OneRowPerUrl /\ RequestsSound /\ LocksHold
  BY DEF IndInv, Shape
<1>2. Shape' /\ OneRowPerUrl' /\ RequestsSound' /\ LocksHold'
  BY <1>1, NextShape, NextOneRow, NextSound, NextLocks
<1> QED BY <1>2 DEF IndInv, Shape

\* The invariant holds in every behaviour.
THEOREM InvCorrect == Spec => []IndInv
BY InitInv, NextInv, PTL DEF Spec

\* Tables and local states keep their shape.
THEOREM MetadataIsTyped == Spec => []TypeOK
<1>1. IndInv => TypeOK
  BY DEF IndInv
<1> QED BY <1>1, InvCorrect, PTL

\* _fetch_slot(): every permit taken is one that a running resolution gives back, so the cap
\* never refuses below its limit, whichever way a resolution ends.
THEOREM PermitsAreReturned == Spec => []PermitsAreHeld
<1>1. IndInv => PermitsAreHeld
  BY DEF IndInv
<1> QED BY <1>1, InvCorrect, PTL

\* The unique client_id holds although a deleted row may come back under its old key.
THEOREM UrlsAreUnique == Spec => []OneRowPerUrl
<1>1. IndInv => OneRowPerUrl
  BY DEF IndInv
<1> QED BY <1>1, InvCorrect, PTL

----------------------------------------------------------------------------
(* What a step may not do.                                                 *)

\* A request that was inside save() and its surroundings stays there, gives up where a
\* document must not be used, or is served with a document's row.
LEMMA HoldingOutcome ==
  ASSUME Shape, NEW q \in Request, Resolve(q), req[q].phase \in Holding
  PROVE  \/ req'[q].phase \in Holding
         \/ /\ req'[q] = Answered(q, req[q].stored)
            /\ req[q].phase = "fetch" \/ LookUpCollides(q) \/ ReloadFails(q)
         \/ req'[q].phase = "served" /\ app'[req'[q].key].source = "cimd"
<1> USE DEF Shape
<1>0. req \in [Request -> RequestState] /\ req[q].phase # "idle"
      /\ req[q].stored \in Key \cup {Null}
  BY DEF TypeOK, Holding, RequestState
<1>1. CASE FetchDocument(q) \/ InsertConflicts(q) \/ (UpdateRow(q) /\ app[req[q].key] = Null)
  <2>1. \E p \in Holding : req' = [req EXCEPT ![q].phase = p]
    BY <1>1 DEF FetchDocument, InsertConflicts, UpdateRow, Holding
  <2> QED BY <1>0, <2>1 DEF RequestState
<1>2. CASE LookUp(q)
  <2>1. PICK p \in Holding, k \in Key \cup {Null} :
          req' = [req EXCEPT ![q].phase = p, ![q].key = k, ![q].expires = now + MaxAge]
    <3>1. CASE KeysOf(req[q].url) = {}
      <4>1. req' = [req EXCEPT ![q].phase = "insert", ![q].key = Null, ![q].expires = now + MaxAge]
        BY <1>2, <3>1 DEF LookUp
      <4> QED BY <4>1 DEF Holding
    <3>2. CASE KeysOf(req[q].url) # {}
      <4>1. \E k \in KeysOf(req[q].url) :
              req' = [req EXCEPT ![q].phase = "update", ![q].key = k, ![q].expires = now + MaxAge]
        BY <1>2, <3>2 DEF LookUp
      <4> QED BY <4>1 DEF Holding, KeysOf
    <3> QED BY <3>1, <3>2
  <2> QED BY <1>0, <2>1 DEF RequestState
<1>3. CASE FetchFails(q) \/ LookUpCollides(q) \/ ReloadFails(q)
  <2>1. req' = [req EXCEPT ![q] = Answered(q, req[q].stored)]
    BY <1>3, LeaveAnswers DEF FetchFails, LookUpCollides, ReloadFails, GiveUp
  <2> QED BY <1>0, <1>3, <2>1 DEF FetchFails
<1>4. CASE Saves(q)
  <2>1. PICK k \in Key, doc \in Row : Writes(q, k, doc) /\ Moves(q, Answered(q, k))
    BY <1>4, SaveWrites
  <2>2. req'[q] = Answered(q, k)
    BY <1>0, <2>1 DEF Moves
  <2>3. Answered(q, k).phase = "served" /\ Answered(q, k).key = k
    BY <1>0, AnsweredRow, NullIsNoKey
  <2>4. app'[k].source = "cimd"
    BY <2>1 DEF Writes, TypeOK
  <2> QED BY <2>2, <2>3, <2>4
<1>5. CASE ReloadWinner(q)
  <2>1. PICK k \in KeysOf(req[q].url) : Renewable(k) /\ Release(q, k)
    BY <1>5 DEF ReloadWinner
  <2>2. k \in Key /\ app'[k] = app[k] /\ app[k].source = "cimd"
    BY <1>5, <2>1 DEF KeysOf, ReloadWinner, Renewable
  <2>3. req' = [req EXCEPT ![q] = Answered(q, k)]
    BY <2>1, LeaveAnswers DEF Release
  <2>4. Answered(q, k).phase = "served" /\ Answered(q, k).key = k
    BY <1>0, <2>2, AnsweredRow, NullIsNoKey
  <2> QED BY <1>0, <2>2, <2>3, <2>4
<1> QED BY <1>1, <1>2, <1>3, <1>4, <1>5
        DEF Resolve, Saves, Holding, LoadApplication, Decline, PassBackoff, CapReached, TakeSlot,
            ObtainTokens, Finish

\* A step of another process at most disturbs a request.
LEMMA OthersDisturb ==
  ASSUME Shape, OneRowPerUrl, NEW q \in Request, [Next]_vars, ~Resolve(q)
  PROVE  req'[q] \in {req[q], [req[q] EXCEPT !.disturbed = TRUE]}
<1> USE DEF Shape
<1>1. ASSUME NEW p \in Request, Resolve(p)
      PROVE  req'[q] = req[q]
  <2>1. PICK row : Moves(p, row)
    BY <1>1, StepMoves
  <2> QED BY <1>1, <2>1 DEF Moves, TypeOK
<1>2. ASSUME NEW U, Disturb(U)
      PROVE  req'[q] \in {req[q], [req[q] EXCEPT !.disturbed = TRUE]}
  BY <1>2 DEF Disturb
<1>3. CASE Operate \/ DeleteBatch
  BY <1>2, <1>3 DEF Operate, Provision, DeleteApplication, Adopt, Lapse, DeleteBatch, Delete
<1>4. CASE \/ Tick \/ FetchElsewhere \/ FinishElsewhere
           \/ StartPruning \/ SelectPage \/ LockBatch \/ FinishPruning \/ KillPruning
           \/ UNCHANGED vars
  BY <1>4 DEF Tick, FetchElsewhere, FinishElsewhere, StartPruning, SelectPage, LockBatch,
              FinishPruning, KillPruning, vars
<1> QED BY <1>1, <1>3, <1>4 DEF Next, Prune

\* No step changes the row of a provisioned client, but for an operator who deletes it.
LEMMA ManualRowsStay ==
  ASSUME IndInv, [Next]_vars, NEW k \in Key, app[k] # Null, app[k].born = "manual"
  PROVE  app'[k] = app[k] \/ DeleteApplication(k)
<1>1. Shape /\ app[k].source = "manual"
  BY DEF IndInv, Shape, RequestsSound, RowsSound
<1>2. ASSUME NEW q \in Request, Resolve(q)
      PROVE  app'[k] = app[k]
  <2>1. CASE Saves(q)
    <3>1. PICK j \in Key, doc \in Row : Writes(q, j, doc)
      BY <1>1, <2>1, SaveWrites DEF Shape
    <3>2. j # k
      BY <3>1 DEF Writes, Renewal, Insertion, IndInv, RequestsSound, Sound, Renews
    <3> QED BY <1>1, <3>1, <3>2 DEF Writes, Shape, TypeOK
  <2>2. CASE ~Saves(q)
    BY <1>2, <2>2, QuietTables
  <2> QED BY <2>1, <2>2
<1>3. CASE \E u \in Url : Provision(u)
  BY <1>1, <1>3 DEF Provision, Shape, TypeOK
<1>4. ASSUME NEW j \in Key, DeleteApplication(j) \/ Adopt(j) \/ Lapse(j)
      PROVE  app'[k] = app[k] \/ DeleteApplication(k)
  BY <1>1, <1>4 DEF DeleteApplication, Delete, Adopt, Lapse, Shape, TypeOK
<1>5. CASE DeleteBatch
  <2>1. k \notin pruner.batch
    BY <1>1, <1>5 DEF DeleteBatch, IndInv, LocksHold, Expired
  <2> QED BY <1>5, <2>1 DEF DeleteBatch, Delete, Prunable
<1>6. CASE \/ Tick \/ FetchElsewhere \/ FinishElsewhere
           \/ StartPruning \/ SelectPage \/ LockBatch \/ FinishPruning \/ KillPruning
           \/ UNCHANGED vars
  BY <1>6 DEF Tick, FetchElsewhere, FinishElsewhere, StartPruning, SelectPage, LockBatch,
              FinishPruning, KillPruning, vars
<1> QED BY <1>2, <1>3, <1>4, <1>5, <1>6 DEF Next, Operate, Prune

\* cimd.py, "never let a fetched document take it over": while a request resolves a URL, no
\* step of it changes the row of a client provisioned by hand, and it is served with a
\* document's row or with the one it had loaded.
THEOREM DocumentsTakeNothing == Spec => ManualIsNeverTaken
<1> DEFINE A(q) == /\ \A k \in Key : app[k] # Null /\ app[k].born = "manual" => app'[k] = app[k]
                   /\ req'[q].phase = "served" /\ req'[q].key # req[q].stored =>
                        app'[req'[q].key].source = "cimd"
<1>1. ASSUME IndInv, [Next]_vars, NEW q \in Request, req[q].phase \in Holding, req'[q] # req[q]
      PROVE  A(q)
  <2>0. Shape /\ OneRowPerUrl /\ req[q] \in RequestState
    BY <1>1 DEF IndInv, Shape, TypeOK
  <2>1. ASSUME NEW k \in Key, app[k] # Null, app[k].born = "manual"
        PROVE  app'[k] = app[k]
    <3> SUFFICES ASSUME DeleteApplication(k) PROVE FALSE
      BY <1>1, <2>1, ManualRowsStay
    <3>1. Disturb(UrlsOf({k})) /\ UNCHANGED <<permits, elsewhere>>
      BY DEF DeleteApplication, Delete
    <3>2. req[q].url \in UrlsOf({k}) /\ ~req[q].disturbed
      BY <1>1, <2>0, <3>1 DEF Disturb, RequestState
    <3>3. k \in KeysOf(req[q].url) /\ app[k].source = "manual"
      BY <1>1, <2>1, <3>2 DEF UrlsOf, KeysOf, IndInv, RequestsSound, RowsSound
    <3> QED BY <1>1, <3>2, <3>3 DEF IndInv, RequestsSound, Sound, Warned, Active, Holding
  <2>2. ASSUME req'[q].phase = "served", req'[q].key # req[q].stored
        PROVE  app'[req'[q].key].source = "cimd"
    <3>1. Resolve(q)
      <4> SUFFICES ASSUME ~Resolve(q) PROVE FALSE
        OBVIOUS
      <4>1. req'[q] = [req[q] EXCEPT !.disturbed = TRUE]
        BY <1>1, <2>0, OthersDisturb
      <4> QED BY <1>1, <2>0, <2>2, <4>1 DEF RequestState, Holding
    <3>2. req'[q] # Answered(q, req[q].stored)
      <4>1. req[q].stored \in Key \cup {Null} /\ req[q].phase # "idle"
        BY <1>1, <2>0 DEF RequestState, Holding
      <4> QED BY <2>0, <2>2, <4>1, AnsweredRow DEF Shape
    <3>3. req'[q].phase \notin Holding
      BY <2>2 DEF Holding
    <3> QED BY <1>1, <2>0, <3>1, <3>2, <3>3, HoldingOutcome
  <2> QED BY <2>1, <2>2
<1>2. IndInv /\ [Next]_vars =>
        [\A q \in Request : req[q].phase \in Holding /\ req'[q] # req[q] => A(q)]_vars
  BY <1>1
<1> QED BY <1>2, InvCorrect, PTL DEF Spec, ManualIsNeverTaken

\* cimd.py, the IntegrityError handler: a request that fetched a valid document and lost the
\* race to store it is answered with the winner's row, unless an operator or the pruner
\* touched that row meanwhile.
THEOREM LosersAreServed == Spec => LoserIsServed
<1>1. ASSUME IndInv, [Next]_vars, NEW q \in Request, req[q].phase \in Holding \ {"fetch"},
             req'[q].phase = "idle"
      PROVE  req[q].disturbed
  <2>0. Shape /\ OneRowPerUrl /\ req[q] \in RequestState /\ Warned(req[q])
    BY <1>1 DEF IndInv, Shape, TypeOK, RequestsSound, Sound
  <2>1. Resolve(q)
    <3> SUFFICES ASSUME ~Resolve(q) PROVE FALSE
      OBVIOUS
    <3>1. req'[q] \in {req[q], [req[q] EXCEPT !.disturbed = TRUE]}
      BY <1>1, <2>0, OthersDisturb
    <3> QED BY <1>1, <2>0, <3>1 DEF RequestState, Holding
  <2>2. LookUpCollides(q) \/ ReloadFails(q)
    BY <1>1, <2>0, <2>1, HoldingOutcome DEF Holding
  <2>3. KeysOf(req[q].url) = {} => req[q].phase = "reload"
    BY <2>2 DEF LookUpCollides, ReloadFails
  <2>4. KeysOf(req[q].url) # {} => \E k \in KeysOf(req[q].url) : app[k].source = "manual"
    <3>1. KeysOf(req[q].url) # {} => \E k \in KeysOf(req[q].url) : app[k].source # "cimd"
      BY <2>2 DEF LookUpCollides, ReloadFails, Renewable
    <3>2. \A k \in KeysOf(req[q].url) : app[k].source \in {"cimd", "manual"}
      BY <2>0 DEF KeysOf, Shape, TypeOK, Row
    <3> QED BY <3>1, <3>2
  <2> QED BY <1>1, <2>0, <2>3, <2>4 DEF Warned, Active, Holding
<1>2. IndInv /\ [Next]_vars =>
        [\A q \in Request : req[q].phase \in Holding \ {"fetch"} /\ req'[q].phase = "idle" =>
           req[q].disturbed]_vars
  BY <1>1
<1> QED BY <1>2, InvCorrect, PTL DEF Spec, LoserIsServed

\* clearcimdapplications chooses applications in one statement and deletes them in another:
\* what it deletes is still expired, and nothing it issued is alive.
THEOREM PruningSparesLive == Spec => PruneSparesLive
<1>1. ASSUME IndInv, DeleteBatch, NEW k \in Key, app[k] # Null, app'[k] = Null
      PROVE  app[k].source = "cimd" /\ app[k].expires < now /\ k \notin alive
  <2>1. k \in pruner.batch /\ k \notin alive /\ pruner.phase = "locked"
    BY <1>1 DEF DeleteBatch, Delete, Prunable
  <2>2. Expired(k) /\ pruner.at <= now
    BY <1>1, <2>1 DEF IndInv, LocksHold
  <2>3. app[k].expires \in Nat /\ pruner.at \in Nat /\ now \in Nat
    BY <1>1 DEF IndInv, TypeOK, Row
  <2> QED BY <2>1, <2>2, <2>3 DEF Expired
<1>2. IndInv /\ [Next]_vars =>
        [DeleteBatch => \A k \in Key : app[k] # Null /\ app'[k] = Null =>
           app[k].source = "cimd" /\ app[k].expires < now /\ k \notin alive]_vars
  BY <1>1
<1> QED BY <1>2, InvCorrect, PTL DEF Spec, PruneSparesLive
=============================================================================
