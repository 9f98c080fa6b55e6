-------------------------- MODULE DeviceFlowProofs --------------------------
(***************************************************************************)
(* Consent in the device grant, for any number of devices, users, browser  *)
(* requests and polls, and any lifetime.  No view locks the row, so what a *)
(* request loaded may be stale when it writes.  The invariant says what    *)
(* holds in spite of that (ClaimedBeforeDecided, WebsSound, PollsSound),   *)
(* and what more holds of a grant that two browser requests were never at  *)
(* work on at once (Undisturbed).                                          *)
(***************************************************************************)
EXTENDS DeviceFlow, TLAPS

\* A browser request at work has a user, and a grant that exists.
WebsSound ==
  \A w \in Web :
    /\ web[w].phase # "idle" => web[w].device # Null /\ web[w].user # Null
    /\ web[w].device # Null => device[web[w].device].status # "free"

PollsSound ==
  \A p \in Poll : poll[p].phase # "idle" =>
    poll[p].device # Null /\ device[poll[p].device].status # "free"

\* One browser request at most is at work on d, and what it loaded is not stale.
WebsAgree(d) ==
  /\ \A w, x \in Web : web[w].device = d /\ web[x].device = d => w = x
  /\ \A w \in Web : web[w].device = d =>
       /\ web[w].seen = device[d].status
       /\ web[w].phase \in {"claim", "decide"} => web[w].seen = "pending"
       /\ web[w].phase = "decide" => web[w].user = device[d].user

\* The user of an approved grant approved it, also once it is marked expired under a poll.
PollsAgree(d) ==
  /\ device[d].status = "authorized" => device[d].user \in consent[d]
  /\ \A p \in Poll : poll[p].phase # "idle" /\ poll[p].device = d =>
       /\ device[d].status \in {"authorized", "expired"}
       /\ device[d].user \in consent[d]
       /\ poll[p].phase = "save" => poll[p].user \in consent[d]
  /\ \A pair \in minted : pair.device = d => pair.user \in consent[d]

Undisturbed == \A d \in Device \ overlapped : WebsAgree(d) /\ PollsAgree(d)

Inv == /\ TypeOK /\ ClaimedBeforeDecided /\ TokensFollowConsent
       /\ WebsSound /\ PollsSound /\ Undisturbed

LEMMA InitInv == Init => Inv
<1> SUFFICES ASSUME Init PROVE Inv
  OBVIOUS
<1>1. NoWeb \in WebState /\ NoPoll \in PollState
  BY DEF NoWeb, WebState, Status, NoPoll, PollState
<1>2. TypeOK
  BY <1>1 DEF Init, TypeOK, DeviceRow, Status
<1>3. /\ \A w \in Web : web[w].phase = "idle" /\ web[w].device = Null
      /\ \A p \in Poll : poll[p].phase = "idle"
      /\ \A d \in Device : device[d].status = "free"
      /\ minted = {}
  BY DEF Init, NoWeb, NoPoll
<1>4. ClaimedBeforeDecided /\ TokensFollowConsent /\ WebsSound /\ PollsSound
  BY <1>3 DEF ClaimedBeforeDecided, TokensFollowConsent, WebsSound, PollsSound
<1>5. Undisturbed
  BY <1>3, DeviceAssumption DEF Undisturbed, WebsAgree, PollsAgree
<1> QED BY <1>2, <1>4, <1>5 DEF Inv

----------------------------------------------------------------------------
(* What the steps of a browser request do.                                 *)

\* Request w becomes r, the others stay.
WebBecomes(w, r) == web' = [web EXCEPT ![w] = r] /\ r \in WebState

\* It loads a row, goes on with what it loaded, or writes one column back and ends.
Loads(w, r) ==
  /\ WebBecomes(w, r)
  /\ r.device \in Device /\ r.user \in User /\ r.phase \in {"loaded", "decide"}
  /\ device[r.device].status # "free" /\ r.seen = device[r.device].status
  /\ r.phase = "decide" => r.seen = "pending" /\ r.user = device[r.device].user
  /\ NoteOverlap(w, r.device)
  /\ UNCHANGED <<device, consent>>
GoesOn(w, r) ==
  /\ WebBecomes(w, r)
  /\ web[w].phase # "idle" /\ r.phase \in {"expire", "claim"}
  /\ r.device = web[w].device /\ r.user = web[w].user /\ r.seen = web[w].seen
  /\ r.phase = "claim" => web[w].seen = "pending"
  /\ UNCHANGED <<device, consent, overlapped>>
Ends(w) == WebBecomes(w, NoWeb) /\ UNCHANGED <<device, consent, overlapped>>
Writes(w) ==
  /\ WebBecomes(w, NoWeb)
  /\ MarkExpired(w) \/ Claim(w) \/ Decide(w)

WebStep(w) == (\E r : Loads(w, r) \/ GoesOn(w, r)) \/ Ends(w) \/ Writes(w)

LEMMA WebEffect ==
  ASSUME TypeOK, NEW w \in Web, NEW r, WebBecomes(w, r)
  PROVE  /\ web' \in [Web -> WebState]
         /\ web'[w] = r
         /\ \A x \in Web : x # w => web'[x] = web[x]
BY DEF WebBecomes, TypeOK

LEMMA BrowserSteps ==
  ASSUME TypeOK, NEW w \in Web, Browser(w)
  PROVE  WebStep(w) /\ UNCHANGED <<now, poll, minted>>
<1> SUFFICES WebStep(w)
  BY DEF Browser, EnterUserCode, LoadConfirm, CleanUserCode, MarkExpired, Claim, Decide, AbandonWeb
<1>0. web[w] \in WebState /\ NoWeb \in WebState
  BY DEF TypeOK, NoWeb, WebState, Status
<1>1. ASSUME NEW u \in User, NEW d \in Device, EnterUserCode(w, u, d)
      PROVE  \E r : Loads(w, r)
  <2> DEFINE r == [phase |-> "loaded", user |-> u, device |-> d,
                   seen |-> device[d].status, accept |-> FALSE]
  <2>1. r \in WebState
    BY DEF WebState, TypeOK, DeviceRow
  <2>2. Loads(w, r)
    BY <1>1, <2>1 DEF EnterUserCode, Loads, WebBecomes
  <2> QED BY <2>2
<1>2. ASSUME NEW u \in User, NEW d \in Device, NEW accept \in BOOLEAN, LoadConfirm(w, u, d, accept)
      PROVE  \E r : Loads(w, r)
  <2> DEFINE r == [phase |-> "decide", user |-> u, device |-> d,
                   seen |-> "pending", accept |-> accept]
  <2>1. r \in WebState
    BY DEF WebState, Status
  <2>2. Loads(w, r)
    BY <1>2, <2>1 DEF LoadConfirm, Confirmable, Loads, WebBecomes
  <2> QED BY <2>2
<1>3. CASE CleanUserCode(w) /\ Verdict(w) # "idle"
  <2> DEFINE r == [web[w] EXCEPT !.phase = Verdict(w)]
  <2>1. /\ Verdict(w) \in {"expire", "claim"}
        /\ Verdict(w) = "claim" => web[w].seen = "pending"
    BY <1>3 DEF Verdict
  <2>2. /\ r \in WebState /\ r.phase = Verdict(w)
        /\ r.device = web[w].device /\ r.user = web[w].user /\ r.seen = web[w].seen
    BY <1>0, <2>1 DEF WebState
  <2>3. web' = [web EXCEPT ![w] = r] /\ web[w].phase = "loaded" /\ UNCHANGED <<device, consent, overlapped>>
    BY <1>3 DEF CleanUserCode, TypeOK
  <2> HIDE DEF r
  <2> QED BY <2>1, <2>2, <2>3 DEF WebStep, GoesOn, WebBecomes
<1>4. CASE CleanUserCode(w) /\ Verdict(w) = "idle"
  BY <1>0, <1>4 DEF CleanUserCode, TypeOK, WebStep, Ends, WebBecomes
<1>5. CASE AbandonWeb(w)
  BY <1>0, <1>5 DEF AbandonWeb, WebStep, Ends, WebBecomes
<1>6. CASE MarkExpired(w) \/ Claim(w) \/ Decide(w)
  BY <1>0, <1>6 DEF MarkExpired, Claim, Decide, WebStep, Writes, WebBecomes
<1> QED BY <1>1, <1>2, <1>3, <1>4, <1>5, <1>6 DEF Browser, WebStep

\* What a write leaves behind, whatever it found.
LEMMA WriteEffect ==
  ASSUME TypeOK, WebsSound, ClaimedBeforeDecided, NEW w \in Web, Writes(w)
  PROVE  /\ web[w].device \in Device
         /\ device' \in [Device -> DeviceRow]
         /\ \A d \in Device : d # web[w].device => device'[d] = device[d] /\ consent'[d] = consent[d]
         /\ device'[web[w].device].status # "free"
         /\ consent' \in [Device -> SUBSET User]
         /\ \A d \in Device : consent[d] \subseteq consent'[d]
         /\ \A d \in Device : device[d].user # Null => device'[d].user # Null
         /\ device'[web[w].device].status \in {"authorized", "denied"} =>
              device'[web[w].device].user # Null
         /\ device'[web[w].device].status = "authorized" => consent'[web[w].device] # {}
         /\ UNCHANGED overlapped
<1>0. web[w].phase # "idle" /\ web[w] \in WebState
  BY DEF Writes, MarkExpired, Claim, Decide, TypeOK
<1>1. /\ web[w].device \in Device /\ web[w].user \in User
      /\ device[web[w].device].status # "free" /\ device[web[w].device] \in DeviceRow
  BY <1>0 DEF WebsSound, WebState, TypeOK
<1> DEFINE e == web[w].device
<1>2. CASE MarkExpired(w)
  <2>1. /\ device'[e] = [device[e] EXCEPT !.status = "expired"]
        /\ \A d \in Device : d # e => device'[d] = device[d]
        /\ device' \in [Device -> DeviceRow] /\ UNCHANGED <<consent, overlapped>>
    BY <1>1, <1>2 DEF MarkExpired, TypeOK, DeviceRow, Status
  <2> QED BY <1>1, <2>1 DEF TypeOK, DeviceRow
<1>3. CASE Claim(w)
  <2>1. /\ device'[e] = [device[e] EXCEPT !.user = web[w].user]
        /\ \A d \in Device : d # e => device'[d] = device[d]
        /\ device' \in [Device -> DeviceRow] /\ UNCHANGED <<consent, overlapped>>
    BY <1>1, <1>3 DEF Claim, TypeOK, DeviceRow
  <2>2. device'[e].user # Null /\ device'[e].status = device[e].status
    BY <1>1, <2>1, DeviceAssumption DEF DeviceRow
  <2> QED BY <1>1, <2>1, <2>2 DEF TypeOK, ClaimedBeforeDecided
<1>4. CASE Decide(w)
  <2> DEFINE st == IF web[w].accept THEN "authorized" ELSE "denied"
  <2>1. /\ device'[e] = [device[e] EXCEPT !.status = st]
        /\ \A d \in Device : d # e => device'[d] = device[d]
        /\ device' \in [Device -> DeviceRow] /\ UNCHANGED overlapped
    BY <1>1, <1>4 DEF Decide, TypeOK, DeviceRow, Status
  <2>2. device[e].user # Null /\ device'[e].user = device[e].user /\ device'[e].status = st
    BY <1>1, <1>4, <2>1 DEF Decide, ClaimedBeforeDecided, DeviceRow
  <2>3. /\ consent' \in [Device -> SUBSET User]
        /\ \A d \in Device : consent[d] \subseteq consent'[d]
        /\ \A d \in Device : d # e => consent'[d] = consent[d]
        /\ web[w].accept => web[w].user \in consent'[e]
    BY <1>1, <1>4 DEF Decide, TypeOK
  <2> QED BY <1>1, <2>1, <2>2, <2>3
<1> QED BY <1>2, <1>3, <1>4 DEF Writes

----------------------------------------------------------------------------
(* What the steps of a poll do.                                            *)

PollBecomes(p, r) == poll' = [poll EXCEPT ![p] = r] /\ r \in PollState

\* It finds an approval, reads the user, saves a token pair, or ends.
Approved(p, r) ==
  /\ PollBecomes(p, r) /\ UNCHANGED minted
  /\ r.device \in Device /\ r.phase = "authorized" /\ device[r.device].status = "authorized"
ReadsUser(p, r) ==
  /\ PollBecomes(p, r) /\ UNCHANGED minted
  /\ poll[p].phase # "idle" /\ r.device = poll[p].device /\ r.phase = "save"
  /\ r.user = device[r.device].user
Saves(p) ==
  /\ PollBecomes(p, NoPoll) /\ poll[p].phase = "save"
  /\ minted' = minted \cup {[device |-> poll[p].device, user |-> poll[p].user, at |-> now]}
Fails(p) == PollBecomes(p, NoPoll) /\ UNCHANGED minted

PollStep(p) == (\E r : Approved(p, r) \/ ReadsUser(p, r)) \/ Saves(p) \/ Fails(p)

LEMMA PollEffect ==
  ASSUME TypeOK, NEW p \in Poll, NEW r, PollBecomes(p, r)
  PROVE  /\ poll' \in [Poll -> PollState]
         /\ poll'[p] = r
         /\ \A q \in Poll : q # p => poll'[q] = poll[q]
BY DEF PollBecomes, TypeOK

LEMMA PollingSteps ==
  ASSUME TypeOK, PollsSound, NEW p \in Poll, Polling(p)
  PROVE  PollStep(p) /\ UNCHANGED <<now, device, web, consent, overlapped>>
<1> SUFFICES PollStep(p)
  BY DEF Polling, PollStatus, PollUser, PollSave, FailPoll
<1>0. poll[p] \in PollState /\ NoPoll \in PollState
  BY DEF TypeOK, NoPoll, PollState
<1>1. ASSUME NEW d \in Device, PollStatus(p, d) PROVE \E r : Approved(p, r)
  <2> DEFINE r == [phase |-> "authorized", device |-> d, user |-> Null]
  <2>1. r \in PollState
    BY DEF PollState
  <2>2. Approved(p, r)
    BY <1>1, <2>1 DEF PollStatus, Pollable, Approved, PollBecomes
  <2> QED BY <2>2
<1>2. CASE PollUser(p)
  <2> DEFINE r == [poll[p] EXCEPT !.phase = "save", !.user = device[poll[p].device].user]
  <2>1. poll[p].device \in Device
    BY <1>0, <1>2 DEF PollUser, PollsSound, PollState
  <2>2. /\ r \in PollState /\ r.phase = "save" /\ r.device = poll[p].device
        /\ r.user = device[poll[p].device].user
    BY <1>0, <2>1 DEF PollState, TypeOK, DeviceRow
  <2>3. poll' = [poll EXCEPT ![p] = r] /\ poll[p].phase = "authorized" /\ UNCHANGED minted
    BY <1>0, <1>2 DEF PollUser, TypeOK
  <2> HIDE DEF r
  <2> QED BY <2>2, <2>3 DEF PollStep, ReadsUser, PollBecomes
<1>3. CASE PollSave(p)
  BY <1>0, <1>3 DEF PollSave, PollStep, Saves, PollBecomes
<1>4. CASE FailPoll(p)
  BY <1>0, <1>4 DEF FailPoll, PollStep, Fails, PollBecomes
<1> QED BY <1>1, <1>2, <1>3, <1>4 DEF Polling, PollStep

\* What a step does: time passes, a device asks for a grant, a browser request or a poll moves.
StepKinds ==
  \/ UNCHANGED <<device, web, poll, consent, minted, overlapped>> /\ now' \in Nat
  \/ \E d \in Device : Authorize(d)
  \/ UNCHANGED <<now, poll, minted>> /\ \E w \in Web : WebStep(w)
  \/ UNCHANGED <<now, device, web, consent, overlapped>> /\ \E p \in Poll : PollStep(p)

LEMMA NextSteps ==
  ASSUME TypeOK, PollsSound, [Next]_vars
  PROVE  StepKinds
<1>1. CASE Tick \/ UNCHANGED vars
  BY <1>1 DEF Tick, vars, StepKinds, TypeOK
<1>2. ASSUME NEW d \in Device, Authorize(d) PROVE StepKinds
  BY <1>2 DEF StepKinds
<1>3. ASSUME NEW w \in Web, Browser(w) PROVE StepKinds
  BY <1>3, BrowserSteps DEF StepKinds
<1>4. ASSUME NEW p \in Poll, Polling(p) PROVE StepKinds
  BY <1>4, PollingSteps DEF StepKinds
<1> QED BY <1>1, <1>2, <1>3, <1>4 DEF Next

----------------------------------------------------------------------------
(* Types.                                                                  *)

\* A grant that is asked for.
LEMMA AuthorizeEffect ==
  ASSUME TypeOK, NEW d \in Device, Authorize(d)
  PROVE  /\ device[d].status = "free" /\ device'[d].status = "pending"
         /\ \A e \in Device : e # d => device'[e] = device[e]
         /\ device' \in [Device -> DeviceRow]
         /\ UNCHANGED <<now, web, poll, consent, minted, overlapped>>
<1>1. now + Life \in Nat
  BY DeviceAssumption DEF TypeOK
<1>2. [status |-> "pending", user |-> Null, expires |-> now + Life] \in DeviceRow
  BY <1>1 DEF DeviceRow, Status
<1> QED BY <1>2 DEF Authorize, Expiry, TypeOK

\* What a browser request does to the grant it is at work on, and to no other.
LEMMA WebStepEffect ==
  ASSUME TypeOK, WebsSound, ClaimedBeforeDecided, NEW w \in Web, WebStep(w)
  PROVE  /\ web' \in [Web -> WebState]
         /\ device' \in [Device -> DeviceRow]
         /\ consent' \in [Device -> SUBSET User] /\ overlapped' \subseteq Device
         /\ \A d \in Device : consent[d] \subseteq consent'[d]
         /\ \A d \in Device : device[d].user # Null => device'[d].user # Null
         /\ \A d \in Device : device[d].status # "free" => device'[d].status # "free"
         /\ overlapped \subseteq overlapped'
<1>1. ASSUME NEW r, Loads(w, r) \/ GoesOn(w, r)
      PROVE  /\ web' \in [Web -> WebState] /\ UNCHANGED <<device, consent>>
             /\ overlapped \subseteq overlapped' /\ overlapped' \subseteq Device
  BY <1>1, WebEffect DEF Loads, GoesOn, NoteOverlap, TypeOK
<1>2. CASE Ends(w)
  BY <1>2, WebEffect DEF Ends, TypeOK
<1>3. CASE Writes(w)
  <2>1. web' \in [Web -> WebState]
    BY <1>3, WebEffect DEF Writes
  <2> QED BY <1>3, <2>1, WriteEffect DEF TypeOK
<1> QED BY <1>1, <1>2, <1>3 DEF WebStep, TypeOK

LEMMA NextTypeOK ==
  ASSUME TypeOK, WebsSound, PollsSound, ClaimedBeforeDecided, [Next]_vars
  PROVE  TypeOK'
<1>1. CASE UNCHANGED <<device, web, poll, consent, minted, overlapped>> /\ now' \in Nat
  BY <1>1 DEF TypeOK
<1>2. ASSUME NEW d \in Device, Authorize(d) PROVE TypeOK'
  BY <1>2, AuthorizeEffect DEF TypeOK
<1>3. ASSUME NEW w \in Web, WebStep(w), UNCHANGED <<now, poll, minted>> PROVE TypeOK'
  BY <1>3, WebStepEffect DEF TypeOK
<1>4. ASSUME NEW p \in Poll, PollStep(p), UNCHANGED <<now, device, web, consent, overlapped>>
      PROVE  TypeOK'
  <2>1. poll' \in [Poll -> PollState]
    BY <1>4, PollEffect DEF PollStep, Approved, ReadsUser, Saves, Fails
  <2>2. CASE Saves(p)
    <3>1. [device |-> poll[p].device, user |-> poll[p].user, at |-> now] \in Pair
      BY <2>2 DEF Saves, PollsSound, TypeOK, PollState, Pair
    <3> QED BY <1>4, <2>1, <2>2, <3>1 DEF Saves, TypeOK
  <2>3. CASE UNCHANGED minted
    BY <1>4, <2>1, <2>3 DEF TypeOK
  <2> QED BY <1>4, <2>2, <2>3 DEF PollStep, Approved, ReadsUser, Fails
<1> QED BY <1>1, <1>2, <1>3, <1>4, NextSteps DEF StepKinds

----------------------------------------------------------------------------
(* What holds whatever races.                                              *)

Sound == ClaimedBeforeDecided /\ TokensFollowConsent /\ WebsSound /\ PollsSound

LEMMA AuthorizeSound ==
  ASSUME TypeOK, Sound, NEW d \in Device, Authorize(d)
  PROVE  Sound'
<1>0. /\ device[d].status = "free" /\ device'[d].status = "pending"
      /\ \A e \in Device : e # d => device'[e] = device[e]
      /\ UNCHANGED <<web, poll, consent, minted>>
  BY AuthorizeEffect
<1>1. /\ \A w \in Web : web[w].device # Null => web[w].device \in Device \ {d}
      /\ \A w \in Web : web[w].phase # "idle" => web[w].device # Null
      /\ \A p \in Poll : poll[p].phase # "idle" => poll[p].device \in Device \ {d}
  BY <1>0 DEF Sound, WebsSound, PollsSound, TypeOK, WebState, PollState
<1>2. ClaimedBeforeDecided'
  BY <1>0, <1>1 DEF Sound, ClaimedBeforeDecided
<1>3. WebsSound' /\ PollsSound'
  BY <1>0, <1>1 DEF Sound, WebsSound, PollsSound
<1>4. TokensFollowConsent'
  BY <1>0 DEF Sound, TokensFollowConsent
<1> QED BY <1>2, <1>3, <1>4 DEF Sound

LEMMA WebSound ==
  ASSUME TypeOK, Sound, NEW w \in Web, WebStep(w), UNCHANGED <<poll, minted>>
  PROVE  Sound'
<1>0. TypeOK /\ ClaimedBeforeDecided /\ TokensFollowConsent /\ WebsSound /\ PollsSound
  BY DEF Sound
<1>1. /\ \A d \in Device : consent[d] # {} => consent'[d] # {}
      /\ \A d \in Device : device[d].user # Null => device'[d].user # Null
      /\ \A d \in Device : device[d].status # "free" => device'[d].status # "free"
  <2>1. \A d \in Device : consent[d] \subseteq consent'[d]
    BY <1>0, WebStepEffect
  <2> QED BY <1>0, <2>1, WebStepEffect
<1> DEFINE Fine ==
      /\ \A x \in Web : x # w => web'[x] = web[x]
      /\ web'[w].device = Null \/ (web'[w].device \in Device /\ device'[web'[w].device].status # "free")
      /\ web'[w].phase # "idle" => web'[w].device # Null /\ web'[w].user # Null
      /\ web'[w].phase = "decide" => device'[web'[w].device].user # Null
<1>2. Fine
  <2>1. ASSUME NEW r, Loads(w, r) PROVE Fine
    BY <2>1, WebEffect, DeviceAssumption DEF Loads
  <2>2. ASSUME NEW r, GoesOn(w, r) PROVE Fine
    <3>1. /\ web'[w] = r /\ \A x \in Web : x # w => web'[x] = web[x]
      BY <2>2, WebEffect DEF GoesOn
    <3>2. web[w] \in WebState
      BY DEF TypeOK
    <3> QED BY <1>0, <2>2, <3>1, <3>2 DEF GoesOn, WebsSound, WebState
  <2>3. CASE Ends(w) \/ Writes(w)
    <3>1. web'[w] = NoWeb /\ \A x \in Web : x # w => web'[x] = web[x]
      BY <2>3, WebEffect DEF Ends, Writes
    <3> QED BY <3>1 DEF NoWeb
  <2> QED BY <2>1, <2>2, <2>3 DEF WebStep
<1>3. /\ \A x \in Web : web[x].device # Null => web[x].device \in Device
      /\ \A p \in Poll : poll[p].phase # "idle" => poll[p].device \in Device
      /\ \A x \in Web : web[x].phase = "decide" => web[x].device \in Device
      /\ \A pair \in minted : pair.device \in Device
  BY <1>0 DEF TypeOK, WebState, PollState, WebsSound, PollsSound, Pair
<1>4. WebsSound' /\ PollsSound'
  BY <1>0, <1>1, <1>2, <1>3 DEF WebsSound, PollsSound
<1>5. TokensFollowConsent'
  BY <1>0, <1>1, <1>3 DEF TokensFollowConsent
<1>6. \A d \in Device : /\ device'[d].status \in {"authorized", "denied"} => device'[d].user # Null
                        /\ device'[d].status = "authorized" => consent'[d] # {}
  <2>1. CASE UNCHANGED <<device, consent>>
    BY <1>0, <2>1 DEF ClaimedBeforeDecided
  <2>2. CASE Writes(w)
    <3> SUFFICES ASSUME NEW d \in Device
                 PROVE  /\ device'[d].status \in {"authorized", "denied"} => device'[d].user # Null
                        /\ device'[d].status = "authorized" => consent'[d] # {}
      OBVIOUS
    <3>1. CASE d = web[w].device
      BY <1>0, <2>2, <3>1, WriteEffect
    <3>2. CASE d # web[w].device
      <4>1. device'[d] = device[d] /\ consent'[d] = consent[d]
        BY <1>0, <2>2, <3>2, WriteEffect
      <4> QED BY <1>0, <4>1 DEF ClaimedBeforeDecided
    <3> QED BY <3>1, <3>2
  <2> QED BY <2>1, <2>2 DEF WebStep, Loads, GoesOn, Ends
<1>7. ClaimedBeforeDecided'
  BY <1>0, <1>1, <1>2, <1>3, <1>6 DEF ClaimedBeforeDecided
<1> QED BY <1>4, <1>5, <1>7 DEF Sound

LEMMA PollSound ==
  ASSUME TypeOK, Sound, NEW p \in Poll, PollStep(p), UNCHANGED <<device, web, consent>>
  PROVE  Sound'
<1>0. ClaimedBeforeDecided /\ TokensFollowConsent /\ WebsSound /\ PollsSound /\ poll[p] \in PollState
  BY DEF Sound, TypeOK
<1>1. \A q \in Poll : q # p => poll'[q] = poll[q]
  BY PollEffect DEF PollStep, Approved, ReadsUser, Saves, Fails
<1> DEFINE Fine == poll'[p].phase # "idle" =>
        /\ poll'[p].device # Null /\ device[poll'[p].device].status # "free"
        /\ consent[poll'[p].device] # {} /\ device[poll'[p].device].user # Null
        /\ poll'[p].phase = "save" => poll'[p].user # Null
<1>2. Fine
  <2>1. ASSUME NEW r, Approved(p, r) PROVE Fine
    <3>1. poll'[p] = r
      BY <2>1, PollEffect DEF Approved
    <3> QED BY <1>0, <2>1, <3>1, DeviceAssumption DEF Approved, ClaimedBeforeDecided
  <2>2. ASSUME NEW r, ReadsUser(p, r) PROVE Fine
    <3>1. poll'[p] = r
      BY <2>2, PollEffect DEF ReadsUser
    <3> QED BY <1>0, <2>2, <3>1 DEF ReadsUser, ClaimedBeforeDecided, PollsSound
  <2>3. CASE Saves(p) \/ Fails(p)
    <3>1. poll'[p] = NoPoll
      BY <2>3, PollEffect DEF Saves, Fails
    <3> QED BY <3>1 DEF NoPoll
  <2> QED BY <2>1, <2>2, <2>3 DEF PollStep
<1>3. PollsSound' /\ ClaimedBeforeDecided' /\ WebsSound'
  BY <1>0, <1>1, <1>2 DEF PollsSound, ClaimedBeforeDecided, WebsSound
<1>4. TokensFollowConsent'
  <2>1. CASE UNCHANGED minted
    BY <1>0, <2>1 DEF TokensFollowConsent
  <2>2. CASE Saves(p)
    BY <1>0, <2>2 DEF Saves, TokensFollowConsent, ClaimedBeforeDecided
  <2> QED BY <2>1, <2>2 DEF PollStep, Approved, ReadsUser, Fails
<1> QED BY <1>3, <1>4 DEF Sound

LEMMA NextSound ==
  ASSUME TypeOK, Sound, [Next]_vars
  PROVE  Sound'
<1>1. CASE UNCHANGED <<device, web, poll, consent, minted, overlapped>>
  BY <1>1 DEF Sound, ClaimedBeforeDecided, TokensFollowConsent, WebsSound, PollsSound
<1>2. PollsSound
  BY DEF Sound
<1> QED BY <1>1, <1>2, NextSteps, AuthorizeSound, WebSound, PollSound DEF StepKinds

----------------------------------------------------------------------------
(* What holds where no two browser requests overlap.                       *)

Agree(d) == WebsAgree(d) /\ PollsAgree(d)

LEMMA AuthorizeUndisturbed ==
  ASSUME TypeOK, Sound, NEW e \in Device, Authorize(e), NEW d \in Device, Agree(d)
  PROVE  Agree(d)'
<1>0. /\ device[e].status = "free" /\ device'[e].status = "pending"
      /\ \A x \in Device : x # e => device'[x] = device[x]
      /\ UNCHANGED <<web, poll, consent, minted>>
  BY AuthorizeEffect
<1>1. CASE d # e
  BY <1>0, <1>1 DEF Agree, WebsAgree, PollsAgree
<1>2. CASE d = e
  <2>1. /\ \A w \in Web : web[w].device # d
        /\ \A p \in Poll : poll[p].phase # "idle" => poll[p].device # d
    BY <1>0, <1>2, DeviceAssumption DEF Sound, WebsSound, PollsSound
  <2> QED BY <1>0, <1>2, <2>1 DEF Agree, WebsAgree, PollsAgree
<1> QED BY <1>1, <1>2

\* A write to d by the one request that is at work on it: d was still as that request loaded it.
LEMMA WriteUndisturbed ==
  ASSUME TypeOK, Sound, NEW w \in Web, Writes(w), UNCHANGED <<poll, minted>>,
         NEW d \in Device, Agree(d), web[w].device = d
  PROVE  Agree(d)'
<1>0. /\ web'[w] = NoWeb /\ \A x \in Web : x # w => web'[x] = web[x]
  BY WebEffect DEF Writes
<1>1. WebsAgree(d)'
  <2>1. \A x \in Web : web'[x].device # d
    BY <1>0, DeviceAssumption DEF Agree, WebsAgree, NoWeb
  <2> QED BY <2>1 DEF WebsAgree
<1>2. device[d] \in DeviceRow /\ consent[d] \subseteq User
  BY DEF TypeOK
<1>3. CASE MarkExpired(w)
  <2>1. /\ device'[d].status = "expired" /\ device'[d].user = device[d].user
        /\ UNCHANGED <<consent, poll, minted>>
    BY <1>2, <1>3 DEF MarkExpired, TypeOK, DeviceRow
  <2> QED BY <1>1, <2>1 DEF Agree, PollsAgree
<1>4. CASE Claim(w)
  <2>1. device[d].status = "pending"
    BY <1>4 DEF Claim, Agree, WebsAgree
  <2>2. device'[d].status = "pending" /\ UNCHANGED <<consent, poll, minted>>
    BY <1>2, <1>4, <2>1 DEF Claim, TypeOK, DeviceRow
  <2> QED BY <1>1, <2>1, <2>2 DEF Agree, PollsAgree
<1>5. CASE Decide(w)
  <2>1. device[d].status = "pending" /\ web[w].user = device[d].user
    BY <1>5 DEF Decide, Agree, WebsAgree
  <2>2. /\ device'[d].status = (IF web[w].accept THEN "authorized" ELSE "denied")
        /\ device'[d].user = device[d].user
        /\ consent[d] \subseteq consent'[d]
        /\ web[w].accept => web[w].user \in consent'[d]
    BY <1>2, <1>5 DEF Decide, TypeOK, DeviceRow
  <2>3. \A p \in Poll : poll[p].phase # "idle" => poll[p].device # d
    BY <2>1 DEF Agree, PollsAgree
  <2> QED BY <1>1, <2>1, <2>2, <2>3 DEF Agree, PollsAgree
<1> QED BY <1>3, <1>4, <1>5 DEF Writes

LEMMA WebUndisturbed ==
  ASSUME TypeOK, Sound, NEW w \in Web, WebStep(w), UNCHANGED <<poll, minted>>,
         NEW d \in Device, Agree(d), d \notin overlapped'
  PROVE  Agree(d)'
<1>0. d # Null
  BY DeviceAssumption
<1>1. ASSUME NEW r, Loads(w, r) PROVE Agree(d)'
  <2>1. /\ web'[w] = r /\ \A x \in Web : x # w => web'[x] = web[x]
    BY <1>1, WebEffect DEF Loads
  <2>2. r.device = d => \A x \in Web \ {w} : web[x].device # d
    BY <1>1 DEF Loads, NoteOverlap
  <2>3. WebsAgree(d)'
    BY <1>1, <2>1, <2>2 DEF Loads, Agree, WebsAgree
  <2> QED BY <1>1, <2>3 DEF Loads, Agree, PollsAgree
<1>2. ASSUME NEW r, GoesOn(w, r) PROVE Agree(d)'
  <2>1. /\ web'[w] = r /\ \A x \in Web : x # w => web'[x] = web[x]
    BY <1>2, WebEffect DEF GoesOn
  <2>2. WebsAgree(d)'
    BY <1>2, <2>1 DEF GoesOn, Agree, WebsAgree
  <2> QED BY <1>2, <2>2 DEF GoesOn, Agree, PollsAgree
<1>3. CASE Ends(w) \/ (Writes(w) /\ web[w].device # d)
  <2>1. /\ web'[w].device = Null /\ \A x \in Web : x # w => web'[x] = web[x]
    <3>1. web'[w] = NoWeb /\ \A x \in Web : x # w => web'[x] = web[x]
      BY <1>3, WebEffect DEF Ends, Writes
    <3> QED BY <3>1 DEF NoWeb
  <2>2. device'[d] = device[d] /\ consent'[d] = consent[d]
    BY <1>3, WriteEffect DEF Ends, Sound
  <2>3. WebsAgree(d)'
    BY <1>0, <2>1, <2>2 DEF Agree, WebsAgree
  <2> QED BY <2>2, <2>3 DEF Agree, PollsAgree
<1>4. CASE Writes(w) /\ web[w].device = d
  BY <1>4, WriteUndisturbed
<1> QED BY <1>1, <1>2, <1>3, <1>4 DEF WebStep

LEMMA PollUndisturbed ==
  ASSUME TypeOK, Sound, NEW p \in Poll, PollStep(p), UNCHANGED <<device, web, consent>>,
         NEW d \in Device, Agree(d)
  PROVE  Agree(d)'
<1>0. WebsAgree(d)'
  BY DEF Agree, WebsAgree
<1>1. \A q \in Poll : q # p => poll'[q] = poll[q]
  BY PollEffect DEF PollStep, Approved, ReadsUser, Saves, Fails
<1>2. ASSUME NEW r, Approved(p, r) PROVE Agree(d)'
  <2>1. poll'[p] = r
    BY <1>2, PollEffect DEF Approved
  <2> QED BY <1>0, <1>1, <1>2, <2>1 DEF Approved, Agree, PollsAgree
<1>3. ASSUME NEW r, ReadsUser(p, r) PROVE Agree(d)'
  <2>1. poll'[p] = r
    BY <1>3, PollEffect DEF ReadsUser
  <2> QED BY <1>0, <1>1, <1>3, <2>1 DEF ReadsUser, Agree, PollsAgree
<1>4. CASE Saves(p)
  <2>1. poll'[p].phase = "idle"
    <3>1. poll'[p] = NoPoll
      BY <1>4, PollEffect DEF Saves
    <3> QED BY <3>1 DEF NoPoll
  <2>2. \A pair \in minted' : pair.device = d => pair.user \in consent[d]
    BY <1>4 DEF Saves, Agree, PollsAgree
  <2> QED BY <1>0, <1>1, <2>1, <2>2 DEF Agree, PollsAgree
<1>5. CASE Fails(p)
  <2>1. poll'[p].phase = "idle"
    <3>1. poll'[p] = NoPoll
      BY <1>5, PollEffect DEF Fails
    <3> QED BY <3>1 DEF NoPoll
  <2> QED BY <1>0, <1>1, <1>5, <2>1 DEF Fails, Agree, PollsAgree
<1> QED BY <1>2, <1>3, <1>4, <1>5 DEF PollStep

LEMMA NextUndisturbed ==
  ASSUME TypeOK, Sound, Undisturbed, [Next]_vars
  PROVE  Undisturbed'
<1> SUFFICES ASSUME NEW d \in Device, d \notin overlapped' PROVE Agree(d)'
  BY DEF Undisturbed, Agree
<1>0. PollsSound /\ WebsSound /\ ClaimedBeforeDecided
  BY DEF Sound
<1>1. StepKinds
  BY <1>0, NextSteps
<1>2. overlapped \subseteq overlapped'
  BY <1>0, <1>1, AuthorizeEffect, WebStepEffect DEF StepKinds
<1>3. Agree(d)
  BY <1>2 DEF Undisturbed, Agree
<1>4. CASE UNCHANGED <<device, web, poll, consent, minted, overlapped>>
  BY <1>3, <1>4 DEF Agree, WebsAgree, PollsAgree
<1> QED BY <1>1, <1>3, <1>4, AuthorizeUndisturbed, WebUndisturbed, PollUndisturbed DEF StepKinds

----------------------------------------------------------------------------

LEMMA NextInv == Inv /\ [Next]_vars => Inv'
BY NextTypeOK, NextSound, NextUndisturbed DEF Inv, Sound

LEMMA InvHolds == Spec => []Inv
BY InitInv, NextInv, PTL DEF Spec

\* Every table, browser request and poll keeps its shape (DeviceConfirmView, TokenView).
THEOREM GrantsAreTyped == Spec => []TypeOK
BY InvHolds, PTL DEF Inv

\* No token pair is issued for a grant that nobody accepted, and none without a user, whatever
\* claims, decisions and expiries race with the polls (device_flow_token_response reads the row
\* twice, the browser views write back what they loaded earlier).
THEOREM TokensNeedConsent == Spec => []TokensFollowConsent
BY InvHolds, PTL DEF Inv

\* While at most one browser request at a time is at work on a grant, its tokens are those of
\* the user who accepted it, through any number of claims, decisions, expiries and polls.
THEOREM TokensAreTheApprovers == Spec => []OnlyRacesMoveTokens
<1>1. Inv => OnlyRacesMoveTokens
  BY DEF Inv, TypeOK, Pair, Undisturbed, PollsAgree, OnlyRacesMoveTokens
<1> QED BY <1>1, InvHolds, PTL

\* And then its decision is final but for expiry: DeviceConfirmView finds pending grants only, so
\* it takes a second request between its load and its save to overrule a decision.
THEOREM DecisionsAreFinal == Spec => OnlyRacesOverrule
<1> DEFINE Act == \A d \in Device : device[d].status \in {"authorized", "denied"} =>
                    \/ device'[d].status \in {device[d].status, "expired"}
                    \/ d \in overlapped
<1>1. Inv /\ [Next]_vars => [Act]_vars
  <2> SUFFICES ASSUME Inv, [Next]_vars, NEW d \in Device,
                      device[d].status \in {"authorized", "denied"}, d \notin overlapped
               PROVE  device'[d].status \in {device[d].status, "expired"}
    OBVIOUS
  <2>0. TypeOK /\ Sound /\ WebsAgree(d)
    BY DEF Inv, Sound, Undisturbed
  <2>1. CASE UNCHANGED device
    BY <2>1
  <2>2. ASSUME NEW e \in Device, Authorize(e) PROVE device'[d] = device[d]
    BY <2>0, <2>2, AuthorizeEffect
  <2>3. ASSUME NEW w \in Web, Writes(w)
        PROVE  device'[d].status \in {device[d].status, "expired"}
    <3>1. CASE web[w].device # d
      BY <2>0, <2>3, <3>1, WriteEffect DEF Sound
    <3>2. CASE web[w].device = d
      <4>1. ~Decide(w)
        BY <2>0, <3>2 DEF Decide, WebsAgree
      <4>2. MarkExpired(w) \/ Claim(w)
        BY <2>3, <4>1 DEF Writes
      <4> QED BY <2>0, <3>2, <4>2 DEF MarkExpired, Claim, TypeOK, DeviceRow
    <3> QED BY <3>1, <3>2
  <2>4. StepKinds
    BY <2>0, NextSteps DEF Sound
  <2> QED BY <2>1, <2>2, <2>3, <2>4 DEF StepKinds, WebStep, Loads, GoesOn, Ends
<1> QED BY <1>1, InvHolds, PTL DEF Spec, OnlyRacesOverrule
=============================================================================
