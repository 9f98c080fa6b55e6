----------------------------- MODULE SingleUse -----------------------------
(***************************************************************************)
(* What an authorization code and a pushed request_uri both promise: a     *)
(* ticket is redeemed by at most one holder, and never after it was        *)
(* withdrawn.  AuthorizationCode and PushedAuthorization implement it.     *)
(***************************************************************************)
CONSTANTS Ticket, Holder

VARIABLES
  state,   \* [Ticket -> {"unissued", "open", "spent"}]
  holders  \* [Ticket -> SUBSET Holder], who redeemed the ticket

Init == /\ state = [t \in Ticket |-> "unissued"]
        /\ holders = [t \in Ticket |-> {}]

Issue(t) == /\ state[t] = "unissued"
            /\ state' = [state EXCEPT ![t] = "open"]
            /\ UNCHANGED holders

Redeem(t, h) == /\ state[t] = "open"
                /\ state' = [state EXCEPT ![t] = "spent"]
                /\ holders' = [holders EXCEPT ![t] = {h}]

\* Tickets that expire or are thrown away, possibly several at once.
Withdraw(T) == /\ T # {} /\ \A t \in T : state[t] = "open"
               /\ state' = [t \in Ticket |-> IF t \in T THEN "spent" ELSE state[t]]
               /\ UNCHANGED holders

Next == \/ \E t \in Ticket : Issue(t)
        \/ \E t \in Ticket, h \in Holder : Redeem(t, h)
        \/ \E T \in SUBSET Ticket : Withdraw(T)

Spec == Init /\ [][Next]_<<state, holders>>
=============================================================================
