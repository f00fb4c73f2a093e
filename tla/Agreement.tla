------------------------------ MODULE Agreement ------------------------------
(***************************************************************************)
(* What pairing promises, without tables, credentials or time (ADRs 0002,  *)
(* 0017 and 0018): a phone and an OpenCode instance trust each other when  *)
(* an account claimed an offer of the one for the other and the person at  *)
(* OpenCode approved, whoever leaves keeps nobody's trust, and the relay   *)
(* is told of exactly the partners a party has at that moment.             *)
(***************************************************************************)
CONSTANTS Users, DeviceKeys, ConnectorKeys, Pairings, Tickets, NONE

VARIABLES
    offer,           \* by pairing: the connector that opened it
    claim,           \* by pairing: the account and the device that claimed it
    approved,        \* pairings approved at OpenCode
    over,            \* pairings that ended, in trust or without
    deviceOwner,     \* the account of each device, once it has one
    connectorOwner,
    left,            \* <<role, key>> of who was revoked
    trust,
    admission        \* by ticket: <<role, key, partners>> once the relay traded it

agreementVars ==
    <<offer, claim, approved, over, deviceOwner, connectorOwner, left, trust, admission>>

Init ==
    /\ offer = [p \in Pairings |-> NONE]
    /\ claim = [p \in Pairings |-> NONE]
    /\ approved = {} /\ over = {}
    /\ deviceOwner = [d \in DeviceKeys |-> NONE]
    /\ connectorOwner = [c \in ConnectorKeys |-> NONE]
    /\ left = {} /\ trust = {}
    /\ admission = [t \in Tickets |-> NONE]

\* A connector makes an offer, and has no other.
Offer(p) ==
    /\ offer[p] = NONE
    /\ \E c \in ConnectorKeys :
          /\ offer' = [offer EXCEPT ![p] = c]
          /\ over' = over \cup {q \in Pairings : offer[q] = c}
    /\ UNCHANGED <<claim, approved, deviceOwner, connectorOwner, left, trust, admission>>

\* A device belongs to the account that first claims with it, for good.
Claim(p) ==
    /\ offer[p] # NONE /\ p \notin over
    /\ claim[p] = NONE
    /\ \E u \in Users, d \in DeviceKeys :
          /\ deviceOwner[d] \in {NONE, u}
          /\ <<"client", d>> \notin left
          /\ claim' = [claim EXCEPT ![p] = <<u, d>>]
          /\ deviceOwner' = [deviceOwner EXCEPT ![d] = u]
    /\ UNCHANGED <<offer, approved, over, connectorOwner, left, trust, admission>>

Approve(p) ==
    /\ \E u \in Users, d \in DeviceKeys : claim[p] = <<u, d>>
    /\ p \notin approved \cup over
    /\ approved' = approved \cup {p}
    /\ UNCHANGED <<offer, claim, over, deviceOwner, connectorOwner, left, trust, admission>>

\* And so does a connector to the account that first completes a pairing with it.
Settle(p) ==
    LET u == claim[p][1]
        d == claim[p][2]
        c == offer[p]
    IN  /\ p \in approved /\ p \notin over
        /\ <<"client", d>> \notin left /\ <<"connector", c>> \notin left
        /\ connectorOwner[c] \in {NONE, u}
        /\ connectorOwner' = [connectorOwner EXCEPT ![c] = u]
        /\ trust' = trust \cup {<<u, d, c>>}
        /\ over' = over \cup {p}
        /\ UNCHANGED <<offer, claim, approved, deviceOwner, left, admission>>

\* An offer lapses, is declined or given up.
Close(p) ==
    /\ offer[p] # NONE /\ p \notin over
    /\ over' = over \cup {p}
    /\ UNCHANGED <<offer, claim, approved, deviceOwner, connectorOwner, left, trust, admission>>

DeviceLeaves(d) ==
    /\ <<"client", d>> \notin left
    /\ left' = left \cup {<<"client", d>>}
    /\ trust' = {e \in trust : e[2] # d}
    /\ UNCHANGED <<offer, claim, approved, over, deviceOwner, connectorOwner, admission>>

ConnectorLeaves(c) ==
    /\ <<"connector", c>> \notin left
    /\ left' = left \cup {<<"connector", c>>}
    /\ trust' = {e \in trust : e[3] # c}
    /\ UNCHANGED <<offer, claim, approved, over, deviceOwner, connectorOwner, admission>>

\* A ticket admits once, a party that has not left, to its partners of now.
AdmitDevice(t, d) ==
    /\ admission[t] = NONE
    /\ deviceOwner[d] # NONE /\ <<"client", d>> \notin left
    /\ admission' = [admission EXCEPT
           ![t] = <<"client", d, {c \in ConnectorKeys : <<deviceOwner[d], d, c>> \in trust}>>]
    /\ UNCHANGED <<offer, claim, approved, over, deviceOwner, connectorOwner, left, trust>>

AdmitConnector(t, c) ==
    /\ admission[t] = NONE
    /\ connectorOwner[c] # NONE /\ <<"connector", c>> \notin left
    /\ admission' = [admission EXCEPT
           ![t] = <<"connector", c, {d \in DeviceKeys : <<connectorOwner[c], d, c>> \in trust}>>]
    /\ UNCHANGED <<offer, claim, approved, over, deviceOwner, connectorOwner, left, trust>>

Next ==
    \/ \E p \in Pairings : Offer(p) \/ Claim(p) \/ Approve(p) \/ Settle(p) \/ Close(p)
    \/ \E d \in DeviceKeys : DeviceLeaves(d) \/ \E t \in Tickets : AdmitDevice(t, d)
    \/ \E c \in ConnectorKeys : ConnectorLeaves(c) \/ \E t \in Tickets : AdmitConnector(t, c)

Spec == Init /\ [][Next]_agreementVars
=============================================================================
