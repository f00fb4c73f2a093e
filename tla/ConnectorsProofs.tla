--------------------------- MODULE ConnectorsProofs ----------------------------
(***************************************************************************)
(* Proofs about the connectors service, for any number of accounts, keys,  *)
(* pairings, credentials and tickets.                                      *)
(***************************************************************************)
EXTENDS Connectors, TLAPS

-------------------------------------------------------------------------------
(* The life of a pairing row.  A claim must find a row nobody has claimed   *)
(* and no trust rests on, an approval one device, a confirmation a          *)
(* connector: this is what makes the properties below inductive.            *)

RowLife(r) ==
    /\ r.state \in {"none", "pending"} =>
          r.user = NONE /\ r.device = NONE /\ r.reviewed = NONE
    /\ r.state \in {"none", "pending", "verification"} => r.seed = NONE
    /\ r.state = "none" <=> r.connector = NONE
    /\ r.user = NONE <=> r.device = NONE
    /\ r.state = "verification" \/ r.seed # NONE => r.user # NONE
    /\ r.reviewed # NONE => r.reviewed = r.device

PairingLife == \A p \in Pairings : RowLife(pairing[p])

-------------------------------------------------------------------------------
(* Type correctness.                                                       *)

\* What the operations do to a pairing row leaves it a pairing row.
LEMMA PairingEdits ==
    ASSUME NEW r \in Pairing
    PROVE  /\ [r EXCEPT !.state = "expired"] \in Pairing
           /\ [r EXCEPT !.lapsed = TRUE] \in Pairing
           /\ \A d \in DeviceKeys : [r EXCEPT !.reviewed = d] \in Pairing
           /\ \A u \in Users, d \in DeviceKeys :
                 [r EXCEPT !.state = "verification", !.user = u, !.device = d] \in Pairing
           /\ \A x \in Tokens : [r EXCEPT !.state = "completed", !.seed = x] \in Pairing
<1>1. /\ [r EXCEPT !.state = "expired"] \in Pairing
      /\ [r EXCEPT !.lapsed = TRUE] \in Pairing
      /\ \A d \in DeviceKeys : [r EXCEPT !.reviewed = d] \in Pairing
  BY DEF Pairing
<1>2. \A u \in Users, d \in DeviceKeys :
         [r EXCEPT !.state = "verification", !.user = u, !.device = d] \in Pairing
  BY DEF Pairing
<1>3. \A x \in Tokens : [r EXCEPT !.state = "completed", !.seed = x] \in Pairing
  BY DEF Pairing
<1> QED
  BY <1>1, <1>2, <1>3

\* A pairing begins as a pairing row.
LEMMA PairingBegins ==
    ASSUME NEW c \in ConnectorKeys, NEW n \in Names
    PROVE  [NoPairing EXCEPT !.state = "pending", !.connector = c, !.name = n] \in Pairing
  BY DEF NoPairing, Pairing

\* What the operations do to a device row leaves it a device row.
LEMMA DeviceEdits ==
    ASSUME NEW r \in Device
    PROVE  /\ \A u \in Users : [r EXCEPT !.user = u] \in Device
           /\ [r EXCEPT !.lapsed = TRUE] \in Device
           /\ [r EXCEPT !.pendingLapsed = TRUE] \in Device
           /\ \A x \in Tokens : [r EXCEPT !.credential = x, !.lapsed = FALSE] \in Device
           /\ \A x \in Tokens : StartRotation(r, x) \in Device
           /\ CancelRotation(r) \in Device
           /\ PromotePending(r) \in Device
           /\ [CancelRotation(r) EXCEPT !.revoked = TRUE] \in Device
  BY DEF Device, StartRotation, CancelRotation, PromotePending

\* What the operations do to a connector row leaves it a connector row.
LEMMA ConnectorEdits ==
    ASSUME NEW r \in Connector
    PROVE  /\ [r EXCEPT !.revoked = TRUE] \in Connector
           /\ [r EXCEPT !.lapsed = TRUE] \in Connector
           /\ [r EXCEPT !.pendingLapsed = TRUE] \in Connector
           /\ \A n \in Names : [r EXCEPT !.name = n] \in Connector
           /\ \A x \in Tokens : StartRotation(r, x) \in Connector
           /\ CancelRotation(r) \in Connector
           /\ PromotePending(r) \in Connector
           /\ \A u \in Users, p \in Pairings : pairing[p] \in Pairing =>
                 Install(r, u, p) \in Connector
<1>1. /\ [r EXCEPT !.revoked = TRUE] \in Connector
      /\ [r EXCEPT !.lapsed = TRUE] \in Connector
      /\ [r EXCEPT !.pendingLapsed = TRUE] \in Connector
      /\ \A n \in Names : [r EXCEPT !.name = n] \in Connector
  BY DEF Connector
<1>2. \A x \in Tokens : StartRotation(r, x) \in Connector
  BY DEF Connector, StartRotation
<1>3. CancelRotation(r) \in Connector
  BY DEF Connector, CancelRotation
<1>4. PromotePending(r) \in Connector
  BY DEF Connector, ConnectorCredentials, PromotePending
<1>5. ASSUME NEW u \in Users, NEW p \in Pairings, pairing[p] \in Pairing
      PROVE  Install(r, u, p) \in Connector
  BY <1>5 DEF Connector, ConnectorCredentials, Pairing, Install
<1> QED
  BY <1>1, <1>2, <1>3, <1>4, <1>5

\* What the operations do to a ticket row leaves it a ticket row.
LEMMA TicketEdits ==
    ASSUME NEW r \in Ticket
    PROVE  /\ [r EXCEPT !.lapsed = TRUE] \in Ticket
           /\ \A k \in SUBSET (DeviceKeys \cup ConnectorKeys) :
                 [r EXCEPT !.consumed = TRUE, !.trusted = k] \in Ticket
  BY DEF Ticket

\* A ticket begins as a ticket row, whoever it is issued to.
LEMMA TicketBegins ==
    ASSUME NEW u \in Users \cup {NONE}
    PROVE  /\ \A d \in DeviceKeys, s \in Sessions :
                 [NoTicket EXCEPT !.role = "client", !.user = u, !.subject = d,
                                  !.session = s] \in Ticket
           /\ \A c \in ConnectorKeys :
                 [NoTicket EXCEPT !.role = "connector", !.user = u, !.subject = c] \in Ticket
  BY DEF NoTicket, Ticket

\* The empty database is typed.
LEMMA TypeOKInit == Init => TypeOK
  BY ConnectorsAssumption DEF Init, TypeOK, NoPairing, NoDevice, NoConnector, NoTicket,
     Pairing, Device, Connector, Ticket, ConnectorCredentials

\* The pairing ceremony leaves the state typed: a confirmation needs that the
\* pairing it completes names a connector, which PairingLife gives.
LEMMA TypeOKCeremony == TypeOK /\ PairingLife /\ Ceremony => TypeOK'
<1> SUFFICES ASSUME TypeOK, PairingLife, Ceremony PROVE TypeOK'
  OBVIOUS
<1>1. ASSUME NEW who \in Users \cup {NONE}, IssueChallenge(who) PROVE TypeOK'
  BY <1>1 DEF IssueChallenge, TypeOK
<1>2. ASSUME NEW p \in Pairings, NEW c \in ConnectorKeys, NEW n \in Names,
             BeginPairing(p, c, n)
      PROVE  TypeOK'
  <2>1. pairing' \in [Pairings -> Pairing]
    BY <1>2, PairingBegins, PairingEdits DEF BeginPairing, TypeOK
  <2>2. challenge' \in [Users \cup {NONE} -> Nat]
    BY <1>2 DEF BeginPairing, SpendChallenge, TypeOK
  <2> QED
    BY <1>2, <2>1, <2>2 DEF BeginPairing, TypeOK
<1>3. ASSUME NEW u \in Users, NEW p \in Pairings, NEW d \in DeviceKeys, ClaimPairing(u, p, d)
      PROVE  TypeOK'
  <2>1. pairing' \in [Pairings -> Pairing]
    BY <1>3, PairingEdits DEF ClaimPairing, TypeOK
  <2>2. device' \in [DeviceKeys -> Device]
    BY <1>3, DeviceEdits DEF ClaimPairing, TypeOK
  <2>3. challenge' \in [Users \cup {NONE} -> Nat]
    BY <1>3 DEF ClaimPairing, StartClaim, SpendChallenge, TypeOK
  <2> QED
    BY <1>3, <2>1, <2>2, <2>3 DEF ClaimPairing, TypeOK
<1>4. ASSUME NEW u \in Users, NEW p \in Pairings, ClaimLapsedPairing(u, p) PROVE TypeOK'
  <2>1. pairing' \in [Pairings -> Pairing]
    BY <1>4, PairingEdits DEF ClaimLapsedPairing, TypeOK
  <2>2. challenge' \in [Users \cup {NONE} -> Nat]
    BY <1>4 DEF ClaimLapsedPairing, StartClaim, SpendChallenge, TypeOK
  <2> QED
    BY <1>4, <2>1, <2>2 DEF ClaimLapsedPairing, TypeOK
<1>5. ASSUME NEW u \in Users, ClaimWrongCode(u) PROVE TypeOK'
  <2>1. challenge' \in [Users \cup {NONE} -> Nat]
    BY <1>5 DEF ClaimWrongCode, StartClaim, SpendChallenge, TypeOK
  <2>2. failures' \in [Users -> [hour : Nat, minute : Nat]]
    BY <1>5 DEF ClaimWrongCode, TypeOK
  <2> QED
    BY <1>5, <2>1, <2>2 DEF ClaimWrongCode, TypeOK
<1>6. ASSUME NEW p \in Pairings, ExpireLapsed(p) PROVE TypeOK'
  BY <1>6, PairingEdits DEF ExpireLapsed, TypeOK
<1>7. ASSUME NEW p \in Pairings, NEW d \in DeviceKeys, ApprovePairing(p, d) PROVE TypeOK'
  <2>1. CASE ExpireLapsed(p)
    BY <1>6, <2>1
  <2>2. CASE ~ExpireLapsed(p)
    <3>1. [pairing[p] EXCEPT !.reviewed = d] \in Pairing
      BY PairingEdits DEF TypeOK
    <3>2. pairing' = [pairing EXCEPT ![p] = [@ EXCEPT !.reviewed = d]]
      BY <1>7, <2>2 DEF ApprovePairing
    <3> QED
      BY <1>7, <2>2, <3>1, <3>2 DEF ApprovePairing, TypeOK
  <2> QED
    BY <2>1, <2>2
<1>8. ASSUME NEW p \in Pairings, CancelPairing(p) PROVE TypeOK'
  BY <1>8, PairingEdits DEF CancelPairing, TypeOK
<1>9. ASSUME NEW u \in Users, NEW p \in Pairings, NEW d \in DeviceKeys, NEW x \in Tokens,
             ConfirmPairing(u, p, d, x)
      PROVE  TypeOK'
  <2>1. pairing[p] \in Pairing /\ pairing[p].connector \in ConnectorKeys
    BY <1>9 DEF TypeOK, Pairing, PairingLife, RowLife, ConfirmPairing, Approved
  <2>2. pairing' \in [Pairings -> Pairing]
    BY <1>9, PairingEdits DEF ConfirmPairing, TypeOK
  <2>3. device' \in [DeviceKeys -> Device]
    BY <1>9, DeviceEdits DEF ConfirmPairing, TypeOK
  <2>4. connector' \in [ConnectorKeys -> Connector]
    BY <1>9, <2>1, ConnectorEdits DEF ConfirmPairing, TypeOK
  <2>5. drawn' \subseteq Tokens
    BY <1>9 DEF ConfirmPairing, Draw, TypeOK
  <2>6. trust' \subseteq Users \X DeviceKeys \X ConnectorKeys
    BY <1>9, <2>1 DEF ConfirmPairing, TypeOK
  <2> QED
    BY <1>9, <2>2, <2>3, <2>4, <2>5, <2>6 DEF ConfirmPairing, TypeOK
<1> QED
  BY <1>1, <1>2, <1>3, <1>4, <1>5, <1>6, <1>7, <1>8, <1>9 DEF Ceremony, PollPairing

\* Starting and activating a rotation leave the state typed.
LEMMA TypeOKRotation == TypeOK /\ Rotation => TypeOK'
<1> SUFFICES ASSUME TypeOK, Rotation PROVE TypeOK'
  OBVIOUS
<1>1. ASSUME NEW s \in Sessions, NEW d \in DeviceKeys, NEW x \in Tokens,
             RotateDeviceCredential(s, d, x)
      PROVE  TypeOK'
  BY <1>1, DeviceEdits DEF RotateDeviceCredential, Draw, TypeOK
<1>2. ASSUME NEW s \in Sessions, NEW d \in DeviceKeys, ActivateDeviceCredential(s, d)
      PROVE  TypeOK'
  BY <1>2, DeviceEdits DEF ActivateDeviceCredential, TypeOK
<1>3. ASSUME NEW c \in ConnectorKeys, NEW x \in Tokens, RotateConnectorCredential(c, x)
      PROVE  TypeOK'
  BY <1>3, ConnectorEdits DEF RotateConnectorCredential, Draw, TypeOK
<1>4. ASSUME NEW c \in ConnectorKeys, ActivateConnectorCredential(c) PROVE TypeOK'
  BY <1>4, ConnectorEdits DEF ActivateConnectorCredential, TypeOK
<1> QED
  BY <1>1, <1>2, <1>3, <1>4 DEF Rotation

\* Issuing and consuming relay tickets leave the state typed.
LEMMA TypeOKTicketing == TypeOK /\ Ticketing => TypeOK'
<1> SUFFICES ASSUME TypeOK, Ticketing PROVE TypeOK'
  OBVIOUS
<1>1. ASSUME NEW s \in Sessions, NEW d \in DeviceKeys, NEW t \in Tickets,
             IssueBrowserTicket(s, d, t)
      PROVE  TypeOK'
  <2>1. device[d].user \in Users \cup {NONE}
    BY DEF TypeOK, Device
  <2>2. ticket' \in [Tickets -> Ticket]
    BY <1>1, <2>1, TicketBegins DEF IssueBrowserTicket, TypeOK
  <2>3. device' \in [DeviceKeys -> Device]
    BY <1>1, DeviceEdits DEF IssueBrowserTicket, TypeOK
  <2> QED
    BY <1>1, <2>2, <2>3 DEF IssueBrowserTicket, TypeOK
<1>2. ASSUME NEW c \in ConnectorKeys, NEW t \in Tickets, IssueConnectorTicket(c, t)
      PROVE  TypeOK'
  <2>1. connector[c].user \in Users \cup {NONE}
    BY DEF TypeOK, Connector
  <2>2. ticket' \in [Tickets -> Ticket]
    BY <1>2, <2>1, TicketBegins DEF IssueConnectorTicket, TypeOK
  <2>3. connector' \in [ConnectorKeys -> Connector]
    BY <1>2, ConnectorEdits DEF IssueConnectorTicket, TypeOK
  <2> QED
    BY <1>2, <2>2, <2>3 DEF IssueConnectorTicket, TypeOK
<1>3. ASSUME NEW t \in Tickets, ConsumeRelayTicket(t) PROVE TypeOK'
  <2>1. TrustedIdentities(ticket[t].user, ticket[t].role, ticket[t].subject)
           \in SUBSET (DeviceKeys \cup ConnectorKeys)
    BY DEF TrustedIdentities
  <2> QED
    BY <1>3, <2>1, TicketEdits DEF ConsumeRelayTicket, TypeOK
<1> QED
  BY <1>1, <1>2, <1>3 DEF Ticketing

\* Revocations and renaming leave the state typed.
LEMMA TypeOKManagement == TypeOK /\ Management => TypeOK'
<1> SUFFICES ASSUME TypeOK, Management PROVE TypeOK'
  OBVIOUS
<1>1. ASSUME NEW c \in ConnectorKeys, RevokeConnector(c) PROVE TypeOK'
  BY <1>1, ConnectorEdits DEF RevokeConnector, TypeOK
<1>2. ASSUME NEW u \in Users, NEW c \in ConnectorKeys, RevokeAccountConnector(u, c)
      PROVE  TypeOK'
  BY <1>2, ConnectorEdits DEF RevokeAccountConnector, TypeOK
<1>3. ASSUME NEW u \in Users, NEW d \in DeviceKeys, RevokeAccountDevice(u, d)
      PROVE  TypeOK'
  BY <1>3, DeviceEdits DEF RevokeAccountDevice, TypeOK
<1>4. ASSUME NEW u \in Users, NEW c \in ConnectorKeys, NEW n \in Names,
             RenameAccountConnector(u, c, n)
      PROVE  TypeOK'
  BY <1>4, ConnectorEdits DEF RenameAccountConnector, TypeOK
<1> QED
  BY <1>1, <1>2, <1>3, <1>4 DEF Management

\* The passing of time and what the identity module does leave the state typed.
LEMMA TypeOKEnvironment == TypeOK /\ Environment => TypeOK'
<1> SUFFICES ASSUME TypeOK, Environment PROVE TypeOK'
  OBVIOUS
<1>0. \A role, k : LapseTicketsOf(role, k) \in [Tickets -> Ticket]
  BY TicketEdits DEF LapseTicketsOf, TypeOK
<1>1. ASSUME NEW who \in Users \cup {NONE}, LapseChallenge(who) PROVE TypeOK'
  BY <1>1 DEF LapseChallenge, TypeOK
<1>2. ASSUME NEW u \in Users, FailureLeavesWindow(u) PROVE TypeOK'
  <2>1. failures' \in [Users -> [hour : Nat, minute : Nat]]
    BY <1>2 DEF FailureLeavesWindow, TypeOK
  <2> QED
    BY <1>2, <2>1 DEF FailureLeavesWindow, TypeOK
<1>3. ASSUME NEW p \in Pairings, LapsePairing(p) PROVE TypeOK'
  BY <1>3, PairingEdits DEF LapsePairing, TypeOK
<1>4. ASSUME NEW d \in DeviceKeys, LapseDeviceCredential(d) PROVE TypeOK'
  BY <1>0, <1>4, DeviceEdits DEF LapseDeviceCredential, TypeOK
<1>5. ASSUME NEW c \in ConnectorKeys, LapseConnectorCredential(c) PROVE TypeOK'
  BY <1>0, <1>5, ConnectorEdits DEF LapseConnectorCredential, TypeOK
<1>6. ASSUME NEW d \in DeviceKeys, LapseDeviceRotation(d) PROVE TypeOK'
  BY <1>6, DeviceEdits DEF LapseDeviceRotation, TypeOK
<1>7. ASSUME NEW c \in ConnectorKeys, LapseConnectorRotation(c) PROVE TypeOK'
  BY <1>7, ConnectorEdits DEF LapseConnectorRotation, TypeOK
<1>8. ASSUME NEW t \in Tickets, LapseTicket(t) PROVE TypeOK'
  BY <1>8, TicketEdits DEF LapseTicket, TypeOK
<1>9. ASSUME NEW u \in Users, DisableAccount(u) PROVE TypeOK'
  BY <1>9 DEF DisableAccount, TypeOK
<1>10. ASSUME NEW s \in Sessions, EndSession(s) PROVE TypeOK'
  BY <1>10 DEF EndSession, TypeOK
<1>11. ASSUME NEW s \in Sessions, ResumeSession(s) PROVE TypeOK'
  BY <1>11 DEF ResumeSession, TypeOK
<1> QED
  BY <1>1, <1>2, <1>3, <1>4, <1>5, <1>6, <1>7, <1>8, <1>9, <1>10, <1>11
     DEF Environment

\* Every operation leaves the state typed.
LEMMA TypeOKStep == TypeOK /\ PairingLife /\ [Next]_vars => TypeOK'
<1>1. ASSUME TypeOK, UNCHANGED vars PROVE TypeOK'
  BY <1>1 DEF TypeOK, vars
<1> QED
  BY <1>1, TypeOKCeremony, TypeOKRotation, TypeOKTicketing, TypeOKManagement,
     TypeOKEnvironment DEF Next
-------------------------------------------------------------------------------
(* What a step may do to a pairing row.                                    *)

\* Each edit of a row, made under its guard, keeps the row's life in order.
LEMMA RowMoves ==
    ASSUME NEW r \in Pairing, RowLife(r)
    PROVE  /\ \A r2 \in {[r EXCEPT !.state = "expired"]} :
                 /\ r.state # "none" => RowLife(r2)
                 /\ r.state # "completed" \/ r.lapsed => Advances(r, r2)
           /\ \A r2 \in {[r EXCEPT !.lapsed = TRUE]} : RowLife(r2) /\ Advances(r, r2)
           /\ \A u \in Users, d \in DeviceKeys :
                 \A r2 \in {[r EXCEPT !.state = "verification", !.user = u, !.device = d]} :
                    r.state = "pending" => RowLife(r2) /\ Advances(r, r2)
           /\ \A d \in DeviceKeys : \A r2 \in {[r EXCEPT !.reviewed = d]} :
                 r.state = "verification" /\ r.device = d /\ r.reviewed = NONE =>
                    RowLife(r2) /\ Advances(r, r2)
           /\ \A x \in Tokens : \A r2 \in {[r EXCEPT !.state = "completed", !.seed = x]} :
                 r.state = "verification" => RowLife(r2) /\ Advances(r, r2)
  BY ConnectorsAssumption DEF Pairing, RowLife, Advances

\* BeginPairing starts the life of an unused row.
LEMMA RowBegins ==
    ASSUME NEW r \in Pairing, RowLife(r), r.state = "none",
           NEW c \in ConnectorKeys, NEW n \in Names,
           NEW r2, r2 = [NoPairing EXCEPT !.state = "pending", !.connector = c, !.name = n]
    PROVE  RowLife(r2) /\ Advances(r, r2)
  BY ConnectorsAssumption DEF NoPairing, Pairing, RowLife, Advances

\* A row that does not change goes back on nothing.
LEMMA RowStays ==
    ASSUME NEW r PROVE Advances(r, r)
  BY DEF Advances

\* No pairing has begun, so every row's life is in order.
LEMMA PairingLifeInit == Init => PairingLife
  BY DEF Init, PairingLife, RowLife, NoPairing

\* Only the ceremony and the clock write pairings.
LEMMA OthersLeavePairings ==
    Rotation \/ Ticketing \/ Management => UNCHANGED pairing
  BY DEF Rotation, RotateDeviceCredential, ActivateDeviceCredential,
     RotateConnectorCredential, ActivateConnectorCredential,
     Ticketing, IssueBrowserTicket, IssueConnectorTicket, ConsumeRelayTicket,
     Management, RevokeConnector, RevokeAccountConnector, RevokeAccountDevice,
     RenameAccountConnector

\* And only tickets' own operations and the clock write tickets.
LEMMA OthersLeaveTickets ==
    Ceremony \/ Rotation \/ Management => UNCHANGED ticket
<1>1. \A who : IssueChallenge(who) => UNCHANGED ticket
  BY DEF IssueChallenge
<1>2. \A p, c, n : BeginPairing(p, c, n) => UNCHANGED ticket
  BY DEF BeginPairing
<1>3. \A u, p, d : ClaimPairing(u, p, d) => UNCHANGED ticket
  BY DEF ClaimPairing
<1>4. \A u, p : ClaimLapsedPairing(u, p) => UNCHANGED ticket
  BY DEF ClaimLapsedPairing
<1>5. \A u : ClaimWrongCode(u) => UNCHANGED ticket
  BY DEF ClaimWrongCode
<1>6. \A p : ExpireLapsed(p) => UNCHANGED ticket
  BY DEF ExpireLapsed
<1>7. \A p : PollPairing(p) => UNCHANGED ticket
  BY <1>6 DEF PollPairing
<1>8. \A p, d : ApprovePairing(p, d) => UNCHANGED ticket
  BY <1>6 DEF ApprovePairing
<1>9. \A p : CancelPairing(p) => UNCHANGED ticket
  BY <1>6 DEF CancelPairing
<1>10. \A u, p, d, x : ConfirmPairing(u, p, d, x) => UNCHANGED ticket
  BY DEF ConfirmPairing
<1>11. CASE Ceremony
  BY <1>1, <1>2, <1>3, <1>4, <1>5, <1>7, <1>8, <1>9, <1>10, <1>11 DEF Ceremony
<1>12. CASE Rotation
  BY <1>12 DEF Rotation, RotateDeviceCredential, ActivateDeviceCredential,
     RotateConnectorCredential, ActivateConnectorCredential
<1>13. CASE Management
  BY <1>13 DEF Management, RevokeConnector, RevokeAccountConnector, RevokeAccountDevice,
     RenameAccountConnector
<1> QED
  BY <1>11, <1>12, <1>13

\* What the environment does to a pairing is at most to let it lapse.
LEMMA TimeLapsesPairings ==
    Environment => UNCHANGED pairing \/ \E p \in Pairings : LapsePairing(p)
  BY DEF Environment, LapseChallenge, FailureLeavesWindow, LapseDeviceCredential,
     LapseDeviceRotation, LapseConnectorCredential, LapseConnectorRotation,
     LapseTicket, DisableAccount, EndSession, ResumeSession

\* Every step keeps the life of every row in order and advances it.
LEMMA PairingStep ==
    ASSUME TypeOK, PairingLife, [Next]_vars, NEW p \in Pairings
    PROVE  RowLife(pairing'[p]) /\ Advances(pairing[p], pairing'[p])
<1> USE DEF PairingLife
<1>0. pairing \in [Pairings -> Pairing] /\ pairing[p] \in Pairing /\ RowLife(pairing[p])
  BY DEF TypeOK
<1>1. CASE UNCHANGED pairing
  BY <1>0, <1>1, RowStays
<1>2. ASSUME NEW q \in Pairings, NEW c \in ConnectorKeys, NEW n \in Names,
             BeginPairing(q, c, n)
      PROVE  RowLife(pairing'[p]) /\ Advances(pairing[p], pairing'[p])
  <2>1. CASE p = q
    BY <1>0, <1>2, <2>1, RowBegins DEF BeginPairing
  <2>2. CASE p # q /\ pairing[p].connector = c /\ Pending(p)
    <3>1. pairing'[p] = [pairing[p] EXCEPT !.state = "expired"]
      BY <1>0, <1>2, <2>2 DEF BeginPairing
    <3>2. pairing[p].state \notin {"none", "completed"}
      BY <2>2 DEF Pending
    <3> QED
      BY <1>0, <3>1, <3>2, RowMoves
  <2>3. CASE p # q /\ ~(pairing[p].connector = c /\ Pending(p))
    BY <1>0, <1>2, <2>3, RowStays DEF BeginPairing
  <2> QED
    BY <2>1, <2>2, <2>3
<1>3. ASSUME NEW u \in Users, NEW q \in Pairings, NEW d \in DeviceKeys, ClaimPairing(u, q, d)
      PROVE  RowLife(pairing'[p]) /\ Advances(pairing[p], pairing'[p])
  BY <1>0, <1>3, RowMoves, RowStays DEF ClaimPairing
<1>4. ASSUME NEW u \in Users, NEW q \in Pairings, ClaimLapsedPairing(u, q)
      PROVE  RowLife(pairing'[p]) /\ Advances(pairing[p], pairing'[p])
  BY <1>0, <1>4, RowMoves, RowStays DEF ClaimLapsedPairing
<1>5. ASSUME NEW q \in Pairings, ExpireLapsed(q)
      PROVE  RowLife(pairing'[p]) /\ Advances(pairing[p], pairing'[p])
  <2>1. CASE p = q
    BY <1>0, <1>5, <2>1, RowMoves DEF ExpireLapsed, Pending
  <2>2. CASE p # q
    BY <1>0, <1>5, <2>2, RowStays DEF ExpireLapsed
  <2> QED
    BY <2>1, <2>2
<1>6. ASSUME NEW q \in Pairings, NEW d \in DeviceKeys, ApprovePairing(q, d)
      PROVE  RowLife(pairing'[p]) /\ Advances(pairing[p], pairing'[p])
  <2>1. CASE ExpireLapsed(q)
    BY <1>5, <2>1
  <2>2. CASE ~ExpireLapsed(q) /\ p = q
    <3>1. pairing'[p] = [pairing[p] EXCEPT !.reviewed = d]
      BY <1>0, <1>6, <2>2 DEF ApprovePairing
    <3>2. pairing[p].state = "verification" /\ pairing[p].device = d
          /\ pairing[p].reviewed = NONE
      BY <1>6, <2>2 DEF ApprovePairing
    <3> DEFINE r == pairing[p]
               r2 == pairing'[p]
    <3>3. r \in Pairing /\ RowLife(r)
      BY <1>0
    <3>4. r2 \in {[r EXCEPT !.reviewed = d]}
      BY <3>1
    <3> HIDE DEF r, r2
    <3>5. RowLife(r2) /\ Advances(r, r2)
      BY <3>2, <3>3, <3>4, RowMoves DEF r
    <3> QED
      BY <3>5 DEF r, r2
  <2>3. CASE ~ExpireLapsed(q) /\ p # q
    BY <1>0, <1>6, <2>3, RowStays DEF ApprovePairing
  <2> QED
    BY <2>1, <2>2, <2>3
<1>7. ASSUME NEW q \in Pairings, CancelPairing(q)
      PROVE  RowLife(pairing'[p]) /\ Advances(pairing[p], pairing'[p])
  BY <1>0, <1>7, RowMoves, RowStays DEF CancelPairing, Pending
<1>8. ASSUME NEW u \in Users, NEW q \in Pairings, NEW d \in DeviceKeys, NEW x \in Tokens,
             ConfirmPairing(u, q, d, x)
      PROVE  RowLife(pairing'[p]) /\ Advances(pairing[p], pairing'[p])
  BY <1>0, <1>8, RowMoves, RowStays DEF ConfirmPairing, Approved
<1>9. ASSUME NEW q \in Pairings, LapsePairing(q)
      PROVE  RowLife(pairing'[p]) /\ Advances(pairing[p], pairing'[p])
  BY <1>0, <1>9, RowMoves, RowStays DEF LapsePairing
<1>10. ASSUME Ceremony
       PROVE  RowLife(pairing'[p]) /\ Advances(pairing[p], pairing'[p])
  <2>1. CASE \E who \in Users \cup {NONE} : IssueChallenge(who)
    BY <1>1, <2>1 DEF IssueChallenge
  <2>2. CASE \E u \in Users : ClaimWrongCode(u)
    BY <1>1, <2>2 DEF ClaimWrongCode
  <2> QED
    BY <1>2, <1>3, <1>4, <1>5, <1>6, <1>7, <1>8, <1>10, <2>1, <2>2
       DEF Ceremony, PollPairing
<1> QED
  BY <1>1, <1>9, <1>10, OthersLeavePairings, TimeLapsesPairings DEF Next, vars

\* A pairing is claimed once, its approval stands and an end is an end: no
\* interleaving of retries, expiries, claims and confirmations undoes them.
THEOREM ClaimedOnce == Spec => PairingClaimedOnce
<1>1. Init => TypeOK /\ PairingLife
  BY TypeOKInit, PairingLifeInit
<1>2. TypeOK /\ PairingLife /\ [Next]_vars => (TypeOK /\ PairingLife)'
  BY TypeOKStep, PairingStep DEF PairingLife
<1>3. TypeOK /\ PairingLife /\ [Next]_vars => AllPairingsAdvance
  BY PairingStep DEF AllPairingsAdvance
<1> QED
  BY <1>1, <1>2, <1>3, PTL DEF Spec, PairingClaimedOnce
-------------------------------------------------------------------------------
(* What a step may do to a device, a connector and the trust between them. *)

RevokedIsQuiet(r) == r.revoked => r.pending = NONE

DeviceKeeps(r, r2) ==
    /\ r.user # NONE => r2.user = r.user
    /\ RevokedIsQuiet(r) => RevokedIsQuiet(r2)

\* A device is revoked by its account alone.
RevokedByAccount(d) ==
    device'[d].revoked => \/ device[d].revoked
                          \/ \E u \in Users : RevokeAccountDevice(u, d)

\* A device stays its account's, and no rotation of it outlives a revocation.
LEMMA DeviceStep ==
    ASSUME TypeOK, [Next]_vars, NEW d \in DeviceKeys
    PROVE  DeviceKeeps(device[d], device'[d]) /\ RevokedByAccount(d)
<1> USE DEF DeviceKeeps, RevokedIsQuiet
<1> DEFINE StillRevoked == device'[d].revoked => device[d].revoked
<1>a. StillRevoked => RevokedByAccount(d)
  BY DEF RevokedByAccount
<1>0. device \in [DeviceKeys -> Device] /\ device[d] \in Device
  BY DEF TypeOK
<1>1. CASE UNCHANGED device
  BY <1>1, <1>a
<1>2. CASE Ceremony
  <2>1. ASSUME NEW u \in Users, NEW p \in Pairings, NEW e \in DeviceKeys, ClaimPairing(u, p, e)
        PROVE  DeviceKeeps(device[d], device'[d]) /\ StillRevoked
    BY <1>0, <2>1 DEF ClaimPairing, Device
  <2>2. ASSUME NEW u \in Users, NEW p \in Pairings, NEW e \in DeviceKeys, NEW x \in Tokens,
               ConfirmPairing(u, p, e, x)
        PROVE  DeviceKeeps(device[d], device'[d]) /\ StillRevoked
    BY <1>0, <2>2 DEF ConfirmPairing, Device
  <2> QED
    BY <1>1, <1>a, <1>2, <2>1, <2>2
       DEF Ceremony, IssueChallenge, BeginPairing, ClaimLapsedPairing, ClaimWrongCode,
           PollPairing, ExpireLapsed, ApprovePairing, CancelPairing
<1>3. CASE Rotation
  <2>1. ASSUME NEW s \in Sessions, NEW e \in DeviceKeys, NEW x \in Tokens,
               RotateDeviceCredential(s, e, x)
        PROVE  DeviceKeeps(device[d], device'[d]) /\ StillRevoked
    BY <1>0, <2>1 DEF RotateDeviceCredential, DeviceAuthenticates, StartRotation, Device
  <2>2. ASSUME NEW s \in Sessions, NEW e \in DeviceKeys, ActivateDeviceCredential(s, e)
        PROVE  DeviceKeeps(device[d], device'[d]) /\ StillRevoked
    BY <1>0, <2>2 DEF ActivateDeviceCredential, RotationOpen, PromotePending, Device
  <2> QED
    BY <1>1, <1>a, <1>3, <2>1, <2>2
       DEF Rotation, RotateConnectorCredential, ActivateConnectorCredential
<1>4. CASE Ticketing
  <2>1. ASSUME NEW s \in Sessions, NEW e \in DeviceKeys, NEW t \in Tickets,
               IssueBrowserTicket(s, e, t)
        PROVE  DeviceKeeps(device[d], device'[d]) /\ StillRevoked
    BY <1>0, <2>1 DEF IssueBrowserTicket, CancelRotation, Device
  <2> QED
    BY <1>1, <1>a, <1>4, <2>1 DEF Ticketing, IssueConnectorTicket, ConsumeRelayTicket
<1>5. CASE Management
  <2>1. ASSUME NEW u \in Users, NEW e \in DeviceKeys, RevokeAccountDevice(u, e)
        PROVE  DeviceKeeps(device[d], device'[d]) /\ RevokedByAccount(d)
    <3>1. DeviceKeeps(device[d], device'[d]) /\ (d # e => StillRevoked)
      BY <1>0, <2>1 DEF RevokeAccountDevice, CancelRotation, Device
    <3> QED
      BY <1>a, <2>1, <3>1 DEF RevokedByAccount
  <2> QED
    BY <1>1, <1>a, <1>5, <2>1
       DEF Management, RevokeConnector, RevokeAccountConnector, RenameAccountConnector
<1>6. CASE Environment
  <2>1. ASSUME NEW e \in DeviceKeys, LapseDeviceCredential(e)
        PROVE  DeviceKeeps(device[d], device'[d]) /\ StillRevoked
    BY <1>0, <2>1 DEF LapseDeviceCredential, Device
  <2>2. ASSUME NEW e \in DeviceKeys, LapseDeviceRotation(e)
        PROVE  DeviceKeeps(device[d], device'[d]) /\ StillRevoked
    BY <1>0, <2>2 DEF LapseDeviceRotation, Device
  <2> QED
    BY <1>1, <1>a, <1>6, <2>1, <2>2
       DEF Environment, LapseChallenge, FailureLeavesWindow, LapsePairing,
           LapseConnectorCredential, LapseConnectorRotation, LapseTicket,
           DisableAccount, EndSession, ResumeSession
<1> QED
  BY <1>1, <1>2, <1>3, <1>4, <1>5, <1>6 DEF Next, vars

\* In the ceremony only a confirmation writes connectors and trust.
LEMMA CeremonyInstallsOnce ==
    Ceremony => \/ UNCHANGED <<connector, trust>>
                \/ \E u \in Users, p \in Pairings, d \in DeviceKeys, x \in Tokens :
                      ConfirmPairing(u, p, d, x)
  BY DEF Ceremony, IssueChallenge, BeginPairing, ClaimPairing, ClaimLapsedPairing,
     ClaimWrongCode, PollPairing, ExpireLapsed, ApprovePairing, CancelPairing

\* A connector stays its account's.
LEMMA ConnectorStep ==
    ASSUME TypeOK, [Next]_vars, NEW c \in ConnectorKeys
    PROVE  connector[c].user # NONE => connector'[c].user = connector[c].user
<1> DEFINE Keeps == connector[c].user # NONE => connector'[c].user = connector[c].user
<1>0. connector \in [ConnectorKeys -> Connector] /\ connector[c] \in Connector
  BY DEF TypeOK
<1>1. CASE UNCHANGED connector
  BY <1>1
<1>2. CASE Ceremony
  <2>1. ASSUME NEW u \in Users, NEW p \in Pairings, NEW d \in DeviceKeys, NEW x \in Tokens,
               ConfirmPairing(u, p, d, x)
        PROVE  Keeps
    <3>1. connector' = [connector EXCEPT ![pairing[p].connector] = Install(@, u, p)]
      BY <2>1 DEF ConfirmPairing
    <3> QED
      BY <1>0, <3>1 DEF Install, Connector
  <2> QED
    BY <1>1, <1>2, <2>1, CeremonyInstallsOnce
<1>3. CASE Rotation
  <2>1. ASSUME NEW k \in ConnectorKeys, NEW x \in Tokens, RotateConnectorCredential(k, x)
        PROVE  Keeps
    BY <1>0, <2>1 DEF RotateConnectorCredential, StartRotation, Connector
  <2>2. ASSUME NEW k \in ConnectorKeys, ActivateConnectorCredential(k)
        PROVE  Keeps
    BY <1>0, <2>2 DEF ActivateConnectorCredential, PromotePending, Connector
  <2> QED
    BY <1>1, <1>3, <2>1, <2>2 DEF Rotation, RotateDeviceCredential, ActivateDeviceCredential
<1>4. CASE Ticketing
  <2>1. ASSUME NEW k \in ConnectorKeys, NEW t \in Tickets, IssueConnectorTicket(k, t)
        PROVE  Keeps
    BY <1>0, <2>1 DEF IssueConnectorTicket, CancelRotation, Connector
  <2> QED
    BY <1>1, <1>4, <2>1 DEF Ticketing, IssueBrowserTicket, ConsumeRelayTicket
<1>5. CASE Management
  <2>1. ASSUME NEW k \in ConnectorKeys,
               RevokeConnector(k) \/ \E u \in Users : RevokeAccountConnector(u, k)
        PROVE  Keeps
    BY <1>0, <2>1 DEF RevokeConnector, RevokeAccountConnector, Connector
  <2>2. ASSUME NEW u \in Users, NEW k \in ConnectorKeys, NEW n \in Names,
               RenameAccountConnector(u, k, n)
        PROVE  Keeps
    BY <1>0, <2>2 DEF RenameAccountConnector, Connector
  <2> QED
    BY <1>1, <1>5, <2>1, <2>2 DEF Management, RevokeAccountDevice
<1>6. CASE Environment
  BY <1>0, <1>6 DEF Environment, LapseChallenge, FailureLeavesWindow, LapsePairing,
     LapseDeviceCredential, LapseDeviceRotation, LapseConnectorCredential,
     LapseConnectorRotation, LapseTicket, DisableAccount, EndSession, ResumeSession, Connector
<1> QED
  BY <1>1, <1>2, <1>3, <1>4, <1>5, <1>6 DEF Next, vars

\* Outside the ceremony trust only ever shrinks, when a device is revoked.
LEMMA OthersShrinkTrust ==
    Rotation \/ Ticketing \/ Management \/ Environment =>
        \/ UNCHANGED trust
        \/ \E u \in Users, d \in DeviceKeys : RevokeAccountDevice(u, d)
<1>1. Rotation => UNCHANGED trust
  BY DEF Rotation, RotateDeviceCredential, ActivateDeviceCredential,
     RotateConnectorCredential, ActivateConnectorCredential
<1>2. Ticketing => UNCHANGED trust
  BY DEF Ticketing, IssueBrowserTicket, IssueConnectorTicket, ConsumeRelayTicket
<1>3. Management => \/ UNCHANGED trust
                    \/ \E u \in Users, d \in DeviceKeys : RevokeAccountDevice(u, d)
  BY DEF Management, RevokeConnector, RevokeAccountConnector, RenameAccountConnector
<1>4. Environment => UNCHANGED trust
  BY DEF Environment, LapseChallenge, FailureLeavesWindow, LapsePairing,
     LapseDeviceCredential, LapseDeviceRotation, LapseConnectorCredential,
     LapseConnectorRotation, LapseTicket, DisableAccount, EndSession, ResumeSession
<1> QED
  BY <1>1, <1>2, <1>3, <1>4
-------------------------------------------------------------------------------
(* Safety.                                                                 *)

IInv ==
    /\ TypeOK
    /\ PairingLife
    /\ AccountIsolation
    /\ RevokedDeviceHoldsNothing
    /\ TrustNeedsConsent
    /\ AdmissionsNeedConsent

\* The invariant holds of the empty database.
LEMMA IInvInit == Init => IInv
<1> SUFFICES ASSUME Init PROVE IInv
  OBVIOUS
<1>1. TypeOK /\ PairingLife
  BY TypeOKInit, PairingLifeInit
<1>2. AccountIsolation /\ RevokedDeviceHoldsNothing /\ TrustNeedsConsent
  BY DEF Init, AccountIsolation, RevokedDeviceHoldsNothing, TrustNeedsConsent,
     NoPairing, NoDevice
<1>3. AdmissionsNeedConsent
  BY DEF Init, AdmissionsNeedConsent, NoTicket
<1> QED
  BY <1>1, <1>2, <1>3 DEF IInv

\* Consented(u, d, c) of the next state, for values of this one.
ConsentedNext(u, d, c) ==
    \E p \in Pairings : /\ pairing'[p].seed # NONE
                        /\ pairing'[p].user = u
                        /\ pairing'[p].connector = c
                        /\ pairing'[p].device = d
                        /\ pairing'[p].reviewed = d

\* Consent once given is on record for good.
LEMMA ConsentStep ==
    ASSUME TypeOK, PairingLife, [Next]_vars, NEW u, NEW d, NEW c, Consented(u, d, c)
    PROVE  ConsentedNext(u, d, c)
<1>1. PICK p \in Pairings : /\ pairing[p].seed # NONE
                            /\ pairing[p].user = u
                            /\ pairing[p].connector = c
                            /\ pairing[p].device = d
                            /\ pairing[p].reviewed = d
  BY DEF Consented
<1>2. u # NONE /\ d # NONE /\ pairing[p].state # "none"
  BY <1>1 DEF PairingLife, RowLife
<1>3. Advances(pairing[p], pairing'[p])
  BY PairingStep
<1> QED
  BY <1>1, <1>2, <1>3 DEF ConsentedNext, Advances

\* A trust edge is an old one, or one a confirmation has just installed with
\* the consent of both ends.
LEMMA TrustStep ==
    ASSUME IInv, [Next]_vars, NEW e \in trust'
    PROVE  \/ e \in trust
           \/ /\ ConsentedNext(e[1], e[2], e[3])
              /\ device'[e[2]].user = e[1] /\ connector'[e[3]].user = e[1]
              /\ ~device'[e[2]].revoked
<1>1. ASSUME NEW u \in Users, NEW p \in Pairings, NEW d \in DeviceKeys, NEW x \in Tokens,
             ConfirmPairing(u, p, d, x), e \notin trust
      PROVE  /\ ConsentedNext(e[1], e[2], e[3])
             /\ device'[e[2]].user = e[1] /\ connector'[e[3]].user = e[1]
             /\ ~device'[e[2]].revoked
  <2>0. /\ pairing \in [Pairings -> Pairing] /\ pairing[p] \in Pairing
        /\ device \in [DeviceKeys -> Device] /\ device[d] \in Device
        /\ connector \in [ConnectorKeys -> Connector]
        /\ x # NONE /\ u # NONE
    BY ConnectorsAssumption DEF IInv, TypeOK
  <2>1. /\ e = <<u, d, pairing[p].connector>>
        /\ pairing[p].user = u /\ pairing[p].device = d
        /\ pairing[p].reviewed # NONE /\ pairing[p].state = "verification"
    BY <1>1 DEF ConfirmPairing, Approved
  <2>2. pairing[p].reviewed = d /\ pairing[p].connector \in ConnectorKeys
    BY <2>0, <2>1 DEF IInv, PairingLife, RowLife, Pairing
  <2>3. ConsentedNext(e[1], e[2], e[3])
    <3>1. pairing'[p] = [pairing[p] EXCEPT !.state = "completed", !.seed = x]
      BY <1>1, <2>0 DEF ConfirmPairing
    <3> QED
      BY <2>0, <2>1, <2>2, <3>1 DEF ConsentedNext, Pairing
  <2>4. device'[e[2]].user = e[1] /\ ~device'[e[2]].revoked
    BY <1>1, <2>0, <2>1 DEF ConfirmPairing, DeviceConfirms, Device
  <2>5. connector'[e[3]].user = e[1]
    <3> DEFINE c == pairing[p].connector
    <3>1. connector'[c] = Install(connector[c], u, p)
      BY <1>1, <2>0, <2>2 DEF ConfirmPairing
    <3>2. connector[c].user \in {NONE, u} /\ connector[c] \in Connector
      BY <1>1, <2>0, <2>2 DEF ConfirmPairing, ConnectorConfirms
    <3> QED
      BY <2>1, <3>1, <3>2 DEF Install, Connector
  <2> QED
    BY <2>3, <2>4, <2>5
<1>2. ASSUME NEW u \in Users, NEW d \in DeviceKeys, RevokeAccountDevice(u, d)
      PROVE  e \in trust
  BY <1>2 DEF RevokeAccountDevice
<1>3. UNCHANGED trust => e \in trust
  OBVIOUS
<1>4. CASE Ceremony
  BY <1>1, <1>3, <1>4, CeremonyInstallsOnce
<1>5. CASE Rotation \/ Ticketing \/ Management \/ Environment
  BY <1>2, <1>3, <1>5, OthersShrinkTrust
<1> QED
  BY <1>3, <1>4, <1>5 DEF Next, vars

\* A pairing gets its device from a claim by the device's account.
LEMMA ClaimStep ==
    ASSUME TypeOK, PairingLife, [Next]_vars, NEW p \in Pairings,
           pairing[p].device = NONE, pairing'[p].device # NONE
    PROVE  device'[pairing'[p].device].user = pairing'[p].user
<1> DEFINE Same == pairing'[p].device = pairing[p].device
<1>0. /\ pairing \in [Pairings -> Pairing] /\ pairing[p] \in Pairing
      /\ device \in [DeviceKeys -> Device]
  BY DEF TypeOK
<1>1. ASSUME NEW u \in Users, NEW q \in Pairings, NEW d \in DeviceKeys, ClaimPairing(u, q, d)
      PROVE  Same \/ device'[pairing'[p].device].user = pairing'[p].user
  BY <1>0, <1>1 DEF ClaimPairing, Pairing, Device
<1>2. ASSUME NEW q \in Pairings, NEW c \in ConnectorKeys, NEW n \in Names,
             BeginPairing(q, c, n)
      PROVE  Same
  BY <1>0, <1>2 DEF BeginPairing, NoPairing, Pairing, PairingLife, RowLife
<1>3. ASSUME NEW q \in Pairings,
             \/ ExpireLapsed(q) \/ CancelPairing(q) \/ LapsePairing(q)
             \/ \E u \in Users : ClaimLapsedPairing(u, q)
      PROVE  Same
  BY <1>0, <1>3 DEF ExpireLapsed, CancelPairing, LapsePairing, ClaimLapsedPairing, Pairing
<1>4. ASSUME NEW q \in Pairings, NEW d \in DeviceKeys, ApprovePairing(q, d)
      PROVE  Same
  <2>1. CASE ~ExpireLapsed(q)
    BY <1>0, <1>4, <2>1 DEF ApprovePairing, Pairing
  <2> QED
    BY <1>3, <2>1
<1>5. ASSUME NEW u \in Users, NEW q \in Pairings, NEW d \in DeviceKeys, NEW x \in Tokens,
             ConfirmPairing(u, q, d, x)
      PROVE  Same
  BY <1>0, <1>5 DEF ConfirmPairing, Pairing
<1>6. UNCHANGED pairing => Same
  OBVIOUS
<1> HIDE DEF Same
<1>7. ASSUME Ceremony PROVE Same \/ device'[pairing'[p].device].user = pairing'[p].user
  <2>1. CASE \/ \E who \in Users \cup {NONE} : IssueChallenge(who)
             \/ \E u \in Users : ClaimWrongCode(u)
    BY <1>6, <2>1 DEF IssueChallenge, ClaimWrongCode
  <2> QED
    BY <1>1, <1>2, <1>3, <1>4, <1>5, <1>7, <2>1 DEF Ceremony, PollPairing
<1>8. Same \/ device'[pairing'[p].device].user = pairing'[p].user
  BY <1>3, <1>6, <1>7, OthersLeavePairings, TimeLapsesPairings DEF Next, vars
<1> QED
  BY <1>8 DEF Same

\* Every step keeps accounts apart: new trust comes from a confirmation, which
\* checks both ends, and a new claim binds its device to its own account.
LEMMA AccountIsolationStep == IInv /\ [Next]_vars => AccountIsolation'
<1> SUFFICES ASSUME IInv, [Next]_vars PROVE AccountIsolation'
  OBVIOUS
<1> USE DEF IInv
<1>1. ASSUME NEW e \in trust'
      PROVE  device'[e[2]].user = e[1] /\ connector'[e[3]].user = e[1]
  <2>1. CASE e \in trust
    <3>1. /\ device[e[2]].user = e[1] /\ connector[e[3]].user = e[1]
          /\ e[1] \in Users /\ e[2] \in DeviceKeys /\ e[3] \in ConnectorKeys
      BY <2>1 DEF AccountIsolation, TypeOK
    <3>2. e[1] # NONE
      BY <3>1, ConnectorsAssumption
    <3> QED
      BY <3>1, <3>2, DeviceStep, ConnectorStep DEF DeviceKeeps
  <2> QED
    BY <2>1, TrustStep
<1>2. ASSUME NEW p \in Pairings, pairing'[p].device # NONE
      PROVE  device'[pairing'[p].device].user = pairing'[p].user
  <2>1. CASE pairing[p].device = NONE
    BY <1>2, <2>1, ClaimStep
  <2>2. CASE pairing[p].device # NONE
    <3>1. pairing[p].user # NONE /\ pairing[p].device \in DeviceKeys
      BY <2>2 DEF PairingLife, RowLife, TypeOK, Pairing
    <3>2. device[pairing[p].device].user = pairing[p].user
      BY <2>2 DEF AccountIsolation
    <3>3. pairing'[p].user = pairing[p].user /\ pairing'[p].device = pairing[p].device
      BY <3>1, PairingStep DEF Advances
    <3>4. device'[pairing[p].device].user = device[pairing[p].device].user
      BY <3>1, <3>2, DeviceStep DEF DeviceKeeps
    <3> QED
      BY <3>2, <3>3, <3>4
  <2> QED
    BY <2>1, <2>2
<1> QED
  BY <1>1, <1>2 DEF AccountIsolation

\* Every step leaves a revoked device with nothing: no step gives it a rotation
\* or trust, and the revocation itself takes both away.
LEMMA RevokedDeviceStep == IInv /\ [Next]_vars => RevokedDeviceHoldsNothing'
<1> SUFFICES ASSUME IInv, [Next]_vars, NEW d \in DeviceKeys, device'[d].revoked
             PROVE  device'[d].pending = NONE /\ \A e \in trust' : e[2] # d
  BY DEF RevokedDeviceHoldsNothing
<1> USE DEF IInv
<1>1. device'[d].pending = NONE
  BY DeviceStep DEF DeviceKeeps, RevokedIsQuiet, RevokedDeviceHoldsNothing
<1>2. ASSUME NEW e \in trust', e[2] = d PROVE FALSE
  <2>1. e \in trust
    BY <1>2, TrustStep
  <2>2. ~device[d].revoked
    BY <1>2, <2>1 DEF RevokedDeviceHoldsNothing
  <2>3. PICK u \in Users : RevokeAccountDevice(u, d)
    BY <2>2, DeviceStep DEF RevokedByAccount
  <2>4. e[1] = u
    BY <1>2, <2>1, <2>3 DEF AccountIsolation, RevokeAccountDevice
  <2> QED
    BY <1>2, <2>3, <2>4 DEF RevokeAccountDevice
<1> QED
  BY <1>1, <1>2

\* Every step keeps the consent behind every edge of trust, old or new.
LEMMA TrustNeedsConsentStep == IInv /\ [Next]_vars => TrustNeedsConsent'
<1> SUFFICES ASSUME IInv, [Next]_vars, NEW e \in trust'
             PROVE  ConsentedNext(e[1], e[2], e[3])
  BY DEF TrustNeedsConsent, Consented, ConsentedNext
<1>1. CASE e \in trust
  <2>1. Consented(e[1], e[2], e[3])
    BY <1>1 DEF IInv, TrustNeedsConsent
  <2> QED
    BY <2>1, ConsentStep DEF IInv
<1> QED
  BY <1>1, TrustStep

TicketKeeps(r, r2) == r2.role = r.role /\ r2.user = r.user /\ r2.subject = r.subject

\* A ticket lists peers only from the moment it is consumed, and then those
\* its subject trusts.
LEMMA TicketStep ==
    ASSUME TypeOK, [Next]_vars, NEW t \in Tickets
    PROVE  \/ ticket'[t].trusted = {}
           \/ /\ TicketKeeps(ticket[t], ticket'[t])
              /\ ticket'[t].trusted \in
                    {ticket[t].trusted,
                     TrustedIdentities(ticket[t].user, ticket[t].role, ticket[t].subject)}
<1> DEFINE Listed == TicketKeeps(ticket[t], ticket'[t]) /\ ticket'[t].trusted = ticket[t].trusted
<1>0. ticket \in [Tickets -> Ticket] /\ ticket[t] \in Ticket
  BY DEF TypeOK
<1>1. UNCHANGED ticket => Listed
  BY DEF TicketKeeps
<1>2. ASSUME NEW s \in Sessions, NEW d \in DeviceKeys, NEW x \in Tickets,
             IssueBrowserTicket(s, d, x)
      PROVE  Listed \/ ticket'[t].trusted = {}
  BY <1>0, <1>2 DEF IssueBrowserTicket, NoTicket, TicketKeeps
<1>3. ASSUME NEW c \in ConnectorKeys, NEW x \in Tickets, IssueConnectorTicket(c, x)
      PROVE  Listed \/ ticket'[t].trusted = {}
  BY <1>0, <1>3 DEF IssueConnectorTicket, NoTicket, TicketKeeps
<1>4. ASSUME NEW x \in Tickets, ConsumeRelayTicket(x)
      PROVE  /\ TicketKeeps(ticket[t], ticket'[t])
             /\ ticket'[t].trusted \in
                    {ticket[t].trusted,
                     TrustedIdentities(ticket[t].user, ticket[t].role, ticket[t].subject)}
  BY <1>0, <1>4 DEF ConsumeRelayTicket, TicketKeeps, Ticket
<1>5. ASSUME NEW x \in Tickets, LapseTicket(x) PROVE Listed
  BY <1>0, <1>5 DEF LapseTicket, TicketKeeps, Ticket
<1>6. ASSUME NEW role, NEW k, ticket' = LapseTicketsOf(role, k) PROVE Listed
  BY <1>0, <1>6 DEF LapseTicketsOf, TicketKeeps, Ticket
<1> HIDE DEF Listed
<1>7. Ceremony \/ Rotation \/ Management => Listed
  BY <1>1, OthersLeaveTickets
<1>8. Environment => Listed
  <2>1. Environment => \/ UNCHANGED ticket
                       \/ \E d \in DeviceKeys : ticket' = LapseTicketsOf("client", d)
                       \/ \E c \in ConnectorKeys : ticket' = LapseTicketsOf("connector", c)
                       \/ \E x \in Tickets : LapseTicket(x)
    BY DEF Environment, LapseChallenge, FailureLeavesWindow, LapsePairing,
       LapseDeviceCredential, LapseDeviceRotation, LapseConnectorCredential,
       LapseConnectorRotation, DisableAccount, EndSession, ResumeSession
  <2> QED
    BY <1>1, <1>5, <1>6, <2>1
<1>9. Listed \/ Ticketing
  BY <1>1, <1>7, <1>8 DEF Next, vars
<1> QED
  BY <1>2, <1>3, <1>4, <1>9 DEF Ticketing, Listed

\* Peers listed now were consented to, whether listed before or read from the
\* trust of this state.
LEMMA AdmissionsStep == IInv /\ [Next]_vars => AdmissionsNeedConsent'
<1> SUFFICES ASSUME IInv, [Next]_vars, NEW t \in Tickets, NEW k \in ticket'[t].trusted
             PROVE  IF ticket'[t].role = "client"
                    THEN ConsentedNext(ticket'[t].user, ticket'[t].subject, k)
                    ELSE ConsentedNext(ticket'[t].user, k, ticket'[t].subject)
  BY DEF AdmissionsNeedConsent, Consented, ConsentedNext
<1> DEFINE r == ticket[t]
<1> USE DEF IInv
<1>1. TicketKeeps(r, ticket'[t])
  BY TicketStep
<1>2. k \in r.trusted \/ k \in TrustedIdentities(r.user, r.role, r.subject)
  BY TicketStep
<1>3. CASE r.role = "client"
  <2>1. Consented(r.user, r.subject, k)
    BY <1>2, <1>3 DEF AdmissionsNeedConsent, TrustedIdentities, TrustNeedsConsent
  <2>2. ConsentedNext(r.user, r.subject, k)
    BY <2>1, ConsentStep
  <2> QED
    BY <1>1, <1>3, <2>2 DEF TicketKeeps
<1>4. CASE r.role # "client"
  <2>1. Consented(r.user, k, r.subject)
    BY <1>2, <1>4 DEF AdmissionsNeedConsent, TrustedIdentities, TrustNeedsConsent
  <2>2. ConsentedNext(r.user, k, r.subject)
    BY <2>1, ConsentStep
  <2> QED
    BY <1>1, <1>4, <2>2 DEF TicketKeeps
<1> QED
  BY <1>3, <1>4

\* Every step preserves the invariant.
LEMMA IInvStep == IInv /\ [Next]_vars => IInv'
  BY TypeOKStep, PairingStep, AccountIsolationStep, RevokedDeviceStep,
     TrustNeedsConsentStep, AdmissionsStep DEF IInv, PairingLife

\* The invariant holds of every reachable state.
LEMMA Invariance == Spec => []IInv
  BY IInvInit, IInvStep, PTL DEF Spec

\* The state of the connectors service stays typed.
THEOREM TypeCorrect == Spec => []TypeOK
<1>1. IInv => TypeOK
  BY DEF IInv
<1> QED
  BY <1>1, Invariance, PTL

\* No device is ever trusted without the approval given at OpenCode in a
\* pairing its account claimed.
THEOREM Consent == Spec => []TrustNeedsConsent
<1>1. IInv => TrustNeedsConsent
  BY DEF IInv
<1> QED
  BY <1>1, Invariance, PTL

\* And no admission lists a peer without it: ConsumeRelayTicket reads the trust
\* edges, whatever became of their pairings since.
THEOREM AdmissionConsent == Spec => []AdmissionsNeedConsent
<1>1. IInv => AdmissionsNeedConsent
  BY DEF IInv
<1> QED
  BY <1>1, Invariance, PTL

\* Accounts never mix, whoever claims a key first.
THEOREM Isolation == Spec => []AccountIsolation
<1>1. IInv => AccountIsolation
  BY DEF IInv
<1> QED
  BY <1>1, Invariance, PTL

\* Nothing outlives a device's revocation, even a ceremony or a rotation of it
\* that was under way.
THEOREM Revocation == Spec => []RevokedDeviceHoldsNothing
<1>1. IInv => RevokedDeviceHoldsNothing
  BY DEF IInv
<1> QED
  BY <1>1, Invariance, PTL
===============================================================================
