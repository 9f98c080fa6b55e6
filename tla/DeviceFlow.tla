----------------------------- MODULE DeviceFlow -----------------------------
(***************************************************************************)
(* The device authorization grant (RFC 8628): the DeviceGrant row from     *)
(* DeviceAuthorizationView, through the browser pages where a user enters  *)
(* the user code and confirms (DeviceUserCodeView, DeviceConfirmView), to  *)
(* the device polling TokenView.                                           *)
(*                                                                         *)
(* No view locks the row: each loads it, decides, and later writes one     *)
(* column back.  The grant is neither consumed by a poll nor deleted by    *)
(* cleartokens.  The polling client is not compared with the row's         *)
(* client_id anywhere, so clients are left out, and so are scopes, which   *)
(* no step changes.  Slip... definitions are wrong variants.               *)
(***************************************************************************)
EXTENDS Integers, FiniteSets

CONSTANTS
  Device,   \* device grants, with their device_code and user_code
  User,
  Web,      \* concurrent browser requests
  Poll,     \* concurrent polls of the token endpoint
  Life,     \* expires_in of the device authorization response
  MaxTime,  \* bound: the clock
  Null

ASSUME DeviceAssumption == Life \in Nat /\ MaxTime \in Nat /\ Null \notin User \cup Device

VARIABLES
  now,      \* the clock
  device,   \* the DeviceGrant table
  web,      \* the local state of each browser request
  poll,     \* the local state of each poll
  consent,  \* history: who accepted each grant
  minted,   \* history: the token pairs issued for device grants
  overlapped  \* history: the grants two browser requests were at work on at once

vars == <<now, device, web, poll, consent, minted, overlapped>>

----------------------------------------------------------------------------

Status == {"free", "pending", "authorized", "denied", "expired"}
DeviceRow == [status: Status, user: User \cup {Null}, expires: Nat]

WebState == [phase: {"idle", "loaded", "expire", "claim", "decide"}, user: User \cup {Null},
             device: Device \cup {Null}, seen: Status, accept: BOOLEAN]
NoWeb == [phase |-> "idle", user |-> Null, device |-> Null, seen |-> "free", accept |-> FALSE]

PollState == [phase: {"idle", "authorized", "save"}, device: Device \cup {Null},
              user: User \cup {Null}]
NoPoll == [phase |-> "idle", device |-> Null, user |-> Null]

Pair == [device: Device, user: User \cup {Null}, at: Nat]

Init == /\ now = 0
        /\ device = [d \in Device |-> [status |-> "free", user |-> Null, expires |-> 0]]
        /\ web = [w \in Web |-> NoWeb]
        /\ poll = [p \in Poll |-> NoPoll]
        /\ consent = [d \in Device |-> {}]
        /\ minted = {}
        /\ overlapped = {}

Tick == /\ now < MaxTime
        /\ now' = now + 1
        /\ UNCHANGED <<device, web, poll, consent, minted, overlapped>>

SlipExpiry == now - Life
Expiry == now + Life

\* create_device_grant
Authorize(d) ==
  /\ device[d].status = "free"
  /\ device' = [device EXCEPT ![d] = [status |-> "pending", user |-> Null, expires |-> Expiry]]
  /\ UNCHANGED <<now, web, poll, consent, minted, overlapped>>

----------------------------------------------------------------------------
(* The browser.                                                            *)

\* A browser request w begins to work on grant d.
NoteOverlap(w, d) ==
  overlapped' = IF \E x \in Web \ {w} : web[x].device = d THEN overlapped \cup {d} ELSE overlapped

\* clean_user_code loads the row ...
EnterUserCode(w, u, d) ==
  /\ web[w].phase = "idle" /\ device[d].status # "free"
  /\ web' = [web EXCEPT ![w] = [phase |-> "loaded", user |-> u, device |-> d,
                                seen |-> device[d].status, accept |-> FALSE]]
  /\ NoteOverlap(w, d)
  /\ UNCHANGED <<now, device, poll, consent, minted>>

\* ... and decides on what it loaded: expired, already used, or claimable.
SlipVerdict(w) ==
  IF web[w].seen = "expired" THEN "idle"
  ELSE IF now >= device[web[w].device].expires THEN "expire" ELSE "claim"
Verdict(w) ==
  CASE web[w].seen = "expired" -> "idle"
    [] web[w].seen # "expired" /\ now >= device[web[w].device].expires -> "expire"
    [] web[w].seen = "pending" /\ now < device[web[w].device].expires -> "claim"
    [] OTHER -> "idle"
CleanUserCode(w) ==
  /\ web[w].phase = "loaded"
  /\ web' = [web EXCEPT ![w] = IF Verdict(w) = "idle" THEN NoWeb ELSE [@ EXCEPT !.phase = Verdict(w)]]
  /\ UNCHANGED <<now, device, poll, consent, minted, overlapped>>

\* is_expired() saves the status.
MarkExpired(w) ==
  /\ web[w].phase = "expire"
  /\ device' = [device EXCEPT ![web[w].device].status = "expired"]
  /\ web' = [web EXCEPT ![w] = NoWeb]
  /\ UNCHANGED <<now, poll, consent, minted, overlapped>>

\* DeviceUserCodeView.form_valid saves the user.
Claim(w) ==
  /\ web[w].phase = "claim"
  /\ device' = [device EXCEPT ![web[w].device].user = web[w].user]
  /\ web' = [web EXCEPT ![w] = NoWeb]
  /\ UNCHANGED <<now, poll, consent, minted, overlapped>>

\* DeviceConfirmView.get_object finds a pending grant of this user, whatever its expiry ...
SlipConfirmable(u, d) == device[d].status # "free" /\ device[d].user = u
Confirmable(u, d) == device[d].status = "pending" /\ device[d].user = u
LoadConfirm(w, u, d, accept) ==
  /\ web[w].phase = "idle" /\ Confirmable(u, d)
  /\ web' = [web EXCEPT ![w] = [phase |-> "decide", user |-> u, device |-> d,
                                seen |-> "pending", accept |-> accept]]
  /\ NoteOverlap(w, d)
  /\ UNCHANGED <<now, device, poll, consent, minted>>

\* ... and form_valid saves the status the user chose.
Decide(w) ==
  LET d == web[w].device IN
  /\ web[w].phase = "decide"
  /\ device' = [device EXCEPT ![d].status = IF web[w].accept THEN "authorized" ELSE "denied"]
  /\ consent' = IF web[w].accept THEN [consent EXCEPT ![d] = @ \cup {web[w].user}] ELSE consent
  /\ web' = [web EXCEPT ![w] = NoWeb]
  /\ UNCHANGED <<now, poll, minted, overlapped>>

AbandonWeb(w) == /\ web[w].phase # "idle"
                 /\ web' = [web EXCEPT ![w] = NoWeb]
                 /\ UNCHANGED <<now, device, poll, consent, minted, overlapped>>

----------------------------------------------------------------------------
(* The device.  A poll that finds any other status answers its error and   *)
(* changes nothing.                                                        *)

SlipPollable(d) == device[d].status \notin {"free", "denied", "expired"}
Pollable(d) == device[d].status = "authorized"

\* device_flow_token_response
PollStatus(p, d) ==
  /\ poll[p].phase = "idle" /\ Pollable(d)
  /\ poll' = [poll EXCEPT ![p] = [phase |-> "authorized", device |-> d, user |-> Null]]
  /\ UNCHANGED <<now, device, web, consent, minted, overlapped>>

\* set_oauthlib_user_to_device_request_user loads the row again for its user.
PollUser(p) ==
  /\ poll[p].phase = "authorized"
  /\ poll' = [poll EXCEPT ![p].phase = "save", ![p].user = device[poll[p].device].user]
  /\ UNCHANGED <<now, device, web, consent, minted, overlapped>>

\* save_bearer_token
PollSave(p) ==
  /\ poll[p].phase = "save"
  /\ minted' = minted \cup {[device |-> poll[p].device, user |-> poll[p].user, at |-> now]}
  /\ poll' = [poll EXCEPT ![p] = NoPoll]
  /\ UNCHANGED <<now, device, web, consent, overlapped>>

FailPoll(p) == /\ poll[p].phase # "idle"
               /\ poll' = [poll EXCEPT ![p] = NoPoll]
               /\ UNCHANGED <<now, device, web, consent, minted, overlapped>>

----------------------------------------------------------------------------

Browser(w) ==
  \/ \E u \in User, d \in Device :
       \/ EnterUserCode(w, u, d)
       \/ \E accept \in BOOLEAN : LoadConfirm(w, u, d, accept)
  \/ CleanUserCode(w) \/ MarkExpired(w) \/ Claim(w) \/ Decide(w) \/ AbandonWeb(w)

Polling(p) == \/ \E d \in Device : PollStatus(p, d)
              \/ PollUser(p) \/ PollSave(p) \/ FailPoll(p)

Next == \/ Tick
        \/ \E d \in Device : Authorize(d)
        \/ \E w \in Web : Browser(w)
        \/ \E p \in Poll : Polling(p)

Spec == Init /\ [][Next]_vars

----------------------------------------------------------------------------
(* Properties.                                                             *)

\* Every table and every local state keeps its shape.
TypeOK == /\ now \in Nat
          /\ device \in [Device -> DeviceRow]
          /\ web \in [Web -> WebState]
          /\ poll \in [Poll -> PollState]
          /\ consent \in [Device -> SUBSET User]
          /\ minted \subseteq Pair
          /\ overlapped \subseteq Device

\* Tokens always follow an approval: whatever races with the polls, none is issued for a
\* grant nobody accepted, and none without a user.
TokensFollowConsent ==
  \A pair \in minted : consent[pair.device] # {} /\ pair.user # Null

\* What it rests on: only a claimed grant leaves "pending", and a poll in flight saw an
\* approval.
ClaimedBeforeDecided ==
  /\ \A d \in Device : device[d].status \in {"authorized", "denied"} => device[d].user # Null
  /\ \A d \in Device : device[d].status = "authorized" => consent[d] # {}
  /\ \A w \in Web : web[w].phase = "decide" => device[web[w].device].user # Null
  /\ \A p \in Poll : poll[p].phase # "idle" =>
       /\ consent[poll[p].device] # {} /\ device[poll[p].device].user # Null
       /\ poll[p].phase = "save" => poll[p].user # Null

\* tests/test_device.py: a user cannot approve a grant that belongs to another user, so the
\* tokens of a device are tokens of a user who accepted it.
ApproverOwnsTokens == \A pair \in minted : pair.user \in consent[pair.device]

\* It takes browser requests that overlap to break it: while a grant is worked on by one
\* request at a time, through any number of claims, decisions, expiries and polls, its
\* tokens are the approver's ...
OnlyRacesMoveTokens ==
  \A pair \in minted : pair.user \in consent[pair.device] \/ pair.device \in overlapped

\* ... and its decision is final: a refused device does not become authorized afterwards,
\* nor an authorized one refused.
OnlyRacesOverrule ==
  [][\A d \in Device : device[d].status \in {"authorized", "denied"} =>
       \/ device'[d].status \in {device[d].status, "expired"}
       \/ d \in overlapped]_vars
=============================================================================
