--------------------------- MODULE CredentialProofs ----------------------------
(***************************************************************************)
(* Proofs about the credentials the connectors service hands out and the   *)
(* relay tickets they buy, and that the service keeps the agreement of     *)
(* pairing, for any number of accounts, keys, pairings, random values and  *)
(* tickets.                                                                *)
(***************************************************************************)
EXTENDS ConnectorsProofs

-------------------------------------------------------------------------------
(* What a step may do to the two slots of a row.                           *)

SlotsStay(r, r2) == r2.credential = r.credential /\ r2.pending = r.pending

\* A row that is given nothing new may lose its pending credential, or have it
\* made the current one while its rotation is open.
Settles(r, r2) ==
    /\ r2.credential # r.credential =>
          r2.credential = r.pending /\ ~r.pendingLapsed /\ ~r.revoked
    /\ r2.pending # NONE => SlotsStay(r, r2)

DevicesSettle == \A d \in DeviceKeys : Settles(device[d], device'[d])
ConnectorsSettle == \A c \in ConnectorKeys : Settles(connector[c], connector'[c])
SeedsStay == \A p \in Pairings : pairing'[p].seed = pairing[p].seed

DevicesStay(D) == \A d \in D : SlotsStay(device[d], device'[d])
ConnectorsStay(C) == \A c \in C : SlotsStay(connector[c], connector'[c])

\* The four kinds of step: nothing new, a rotation of a device or of a connector,
\* and a confirmation, which gives a device and a connector a credential each.
NothingNew == DevicesSettle /\ ConnectorsSettle /\ SeedsStay /\ drawn' = drawn

DeviceRotates(d, x) ==
    /\ Draw(x) /\ SeedsStay
    /\ device'[d].credential = device[d].credential /\ device'[d].pending = x
    /\ DevicesStay(DeviceKeys \ {d}) /\ ConnectorsStay(ConnectorKeys)

ConnectorRotates(c, x) ==
    /\ Draw(x) /\ SeedsStay
    /\ connector'[c].credential = connector[c].credential /\ connector'[c].pending = x
    /\ DevicesStay(DeviceKeys) /\ ConnectorsStay(ConnectorKeys \ {c})

Confirms(p, d, c, x) ==
    /\ Draw(x)
    /\ device'[d].credential = x /\ device'[d].pending = device[d].pending
    /\ DevicesStay(DeviceKeys \ {d})
    /\ connector'[c].credential = p /\ connector'[c].pending = connector[c].pending
    /\ ConnectorsStay(ConnectorKeys \ {c})
    /\ pairing[p].seed = NONE /\ pairing'[p].seed = x
    /\ pairing'[p].device = d /\ pairing'[p].connector = c
    /\ \A q \in Pairings \ {p} : pairing'[q].seed = pairing[q].seed

GivesOut ==
    \/ NothingNew
    \/ \E d \in DeviceKeys, x \in Tokens : DeviceRotates(d, x)
    \/ \E c \in ConnectorKeys, x \in Tokens : ConnectorRotates(c, x)
    \/ \E p \in Pairings, d \in DeviceKeys, c \in ConnectorKeys, x \in Tokens :
          Confirms(p, d, c, x)

\* A row that keeps its slots settles.
LEMMA StaysSettle ==
    ASSUME NEW r, NEW r2, SlotsStay(r, r2) PROVE Settles(r, r2)
  BY DEF SlotsStay, Settles

\* A step of the ceremony gives out credentials only when it confirms.
LEMMA CeremonyGives == TypeOK /\ PairingLife /\ Ceremony => GivesOut
<1> SUFFICES ASSUME TypeOK, PairingLife, Ceremony PROVE GivesOut
  OBVIOUS
<1>0. /\ pairing \in [Pairings -> Pairing] /\ device \in [DeviceKeys -> Device]
      /\ connector \in [ConnectorKeys -> Connector]
  BY DEF TypeOK
<1>1. (UNCHANGED device => DevicesSettle) /\ (UNCHANGED connector => ConnectorsSettle)
  BY DEF DevicesSettle, ConnectorsSettle, Settles, SlotsStay
<1>2. ASSUME NEW u \in Users, NEW p \in Pairings, NEW d \in DeviceKeys, ClaimPairing(u, p, d)
      PROVE  NothingNew
  <2>1. DevicesSettle
    BY <1>0, <1>2 DEF ClaimPairing, Device, DevicesSettle, Settles, SlotsStay
  <2>2. SeedsStay
    BY <1>0, <1>2 DEF ClaimPairing, Pairing, SeedsStay
  <2> QED
    BY <1>1, <1>2, <2>1, <2>2 DEF ClaimPairing, NothingNew
<1>3. ASSUME NEW p \in Pairings, NEW c \in ConnectorKeys, NEW n \in Names, BeginPairing(p, c, n)
      PROVE  NothingNew
  <2>1. SeedsStay
    BY <1>0, <1>3 DEF BeginPairing, NoPairing, Pairing, PairingLife, RowLife, SeedsStay
  <2> QED
    BY <1>1, <1>3, <2>1 DEF BeginPairing, NothingNew
<1>4. ASSUME NEW p \in Pairings,
             ExpireLapsed(p) \/ CancelPairing(p) \/ \E u \in Users : ClaimLapsedPairing(u, p)
      PROVE  NothingNew
  <2>1. SeedsStay
    BY <1>0, <1>4 DEF ExpireLapsed, CancelPairing, ClaimLapsedPairing, Pairing, SeedsStay
  <2> QED
    BY <1>1, <1>4, <2>1 DEF ExpireLapsed, CancelPairing, ClaimLapsedPairing, NothingNew
<1>5. ASSUME NEW p \in Pairings, NEW d \in DeviceKeys, ApprovePairing(p, d)
      PROVE  NothingNew
  <2>1. CASE ~ExpireLapsed(p)
    <3>1. SeedsStay
      BY <1>0, <1>5, <2>1 DEF ApprovePairing, Pairing, SeedsStay
    <3> QED
      BY <1>1, <1>5, <2>1, <3>1 DEF ApprovePairing, NothingNew
  <2> QED
    BY <1>4, <2>1
<1>6. ASSUME NEW u \in Users, NEW p \in Pairings, NEW d \in DeviceKeys, NEW x \in Tokens,
             ConfirmPairing(u, p, d, x)
      PROVE  \E c \in ConnectorKeys : Confirms(p, d, c, x)
  <2> DEFINE c == pairing[p].connector
  <2>1. /\ c \in ConnectorKeys /\ pairing[p].seed = NONE /\ pairing[p].device = d
        /\ pairing[p] \in Pairing /\ connector[c] \in Connector
    BY <1>0, <1>6 DEF PairingLife, RowLife, ConfirmPairing, Approved, Pairing
  <2>2. /\ pairing'[p] = [pairing[p] EXCEPT !.state = "completed", !.seed = x]
        /\ \A q \in Pairings \ {p} : pairing'[q] = pairing[q]
    BY <1>0, <1>6 DEF ConfirmPairing
  <2>3. /\ pairing'[p].seed = x /\ pairing'[p].device = d /\ pairing'[p].connector = c
        /\ \A q \in Pairings \ {p} : pairing'[q].seed = pairing[q].seed
    BY <2>1, <2>2 DEF Pairing
  <2>4. /\ device'[d].credential = x /\ device'[d].pending = device[d].pending
        /\ DevicesStay(DeviceKeys \ {d})
    BY <1>0, <1>6 DEF ConfirmPairing, Device, DevicesStay, SlotsStay
  <2>5. /\ connector'[c] = Install(connector[c], u, p)
        /\ \A k \in ConnectorKeys \ {c} : connector'[k] = connector[k]
    BY <1>0, <1>6, <2>1 DEF ConfirmPairing
  <2>6. /\ connector'[c].credential = p /\ connector'[c].pending = connector[c].pending
        /\ ConnectorsStay(ConnectorKeys \ {c})
    BY <2>1, <2>5 DEF Install, Connector, ConnectorsStay, SlotsStay
  <2>7. Draw(x)
    BY <1>6 DEF ConfirmPairing
  <2> QED
    BY <2>1, <2>3, <2>4, <2>6, <2>7 DEF Confirms
<1>7. CASE \/ \E who \in Users \cup {NONE} : IssueChallenge(who)
           \/ \E u \in Users : ClaimWrongCode(u)
  BY <1>1, <1>7 DEF IssueChallenge, ClaimWrongCode, NothingNew, SeedsStay, GivesOut
<1>8. (\E u \in Users, p \in Pairings, d \in DeviceKeys, x \in Tokens :
           ConfirmPairing(u, p, d, x)) => GivesOut
  BY <1>6 DEF GivesOut
<1>9. NothingNew => GivesOut
  BY DEF GivesOut
<1> QED
  BY <1>2, <1>3, <1>4, <1>5, <1>7, <1>8, <1>9 DEF Ceremony, PollPairing

\* Starting a rotation gives out one credential, activating one gives out none.
LEMMA RotationGives == TypeOK /\ Rotation => GivesOut
<1> SUFFICES ASSUME TypeOK, Rotation PROVE GivesOut
  OBVIOUS
<1>0. device \in [DeviceKeys -> Device] /\ connector \in [ConnectorKeys -> Connector]
  BY DEF TypeOK
<1>1. /\ UNCHANGED device => DevicesStay(DeviceKeys) /\ DevicesSettle
      /\ UNCHANGED connector => ConnectorsStay(ConnectorKeys) /\ ConnectorsSettle
      /\ UNCHANGED pairing => SeedsStay
  BY DEF DevicesStay, ConnectorsStay, DevicesSettle, ConnectorsSettle, Settles, SlotsStay,
         SeedsStay
<1>2. ASSUME NEW s \in Sessions, NEW d \in DeviceKeys, NEW x \in Tokens,
             RotateDeviceCredential(s, d, x)
      PROVE  DeviceRotates(d, x)
  <2>1. /\ device'[d].credential = device[d].credential /\ device'[d].pending = x
        /\ DevicesStay(DeviceKeys \ {d})
    BY <1>0, <1>2 DEF RotateDeviceCredential, StartRotation, Device, DevicesStay, SlotsStay
  <2> QED
    BY <1>1, <1>2, <2>1 DEF RotateDeviceCredential, DeviceRotates
<1>3. ASSUME NEW s \in Sessions, NEW d \in DeviceKeys, ActivateDeviceCredential(s, d)
      PROVE  NothingNew
  <2>1. DevicesSettle
    BY <1>0, <1>3 DEF ActivateDeviceCredential, PromotePending, RotationOpen, Device,
                      DevicesSettle, Settles, SlotsStay
  <2> QED
    BY <1>1, <1>3, <2>1 DEF ActivateDeviceCredential, NothingNew
<1>4. ASSUME NEW c \in ConnectorKeys, NEW x \in Tokens, RotateConnectorCredential(c, x)
      PROVE  ConnectorRotates(c, x)
  <2>1. /\ connector'[c].credential = connector[c].credential /\ connector'[c].pending = x
        /\ ConnectorsStay(ConnectorKeys \ {c})
    BY <1>0, <1>4 DEF RotateConnectorCredential, StartRotation, Connector, ConnectorsStay,
                      SlotsStay
  <2> QED
    BY <1>1, <1>4, <2>1 DEF RotateConnectorCredential, ConnectorRotates
<1>5. ASSUME NEW c \in ConnectorKeys, ActivateConnectorCredential(c) PROVE NothingNew
  <2>1. ConnectorsSettle
    BY <1>0, <1>5 DEF ActivateConnectorCredential, PromotePending, RotationOpen, Connector,
                      ConnectorsSettle, Settles, SlotsStay
  <2> QED
    BY <1>1, <1>5, <2>1 DEF ActivateConnectorCredential, NothingNew
<1> QED
  BY <1>2, <1>3, <1>4, <1>5 DEF Rotation, GivesOut

\* Tickets, revocations, names and the clock give nothing out.
LEMMA OthersGiveNothing ==
    TypeOK /\ (Ticketing \/ Management \/ Environment) => NothingNew
<1> SUFFICES ASSUME TypeOK, Ticketing \/ Management \/ Environment PROVE NothingNew
  OBVIOUS
<1>0. /\ device \in [DeviceKeys -> Device] /\ connector \in [ConnectorKeys -> Connector]
      /\ pairing \in [Pairings -> Pairing]
  BY DEF TypeOK
<1>1. /\ UNCHANGED device => DevicesSettle
      /\ UNCHANGED connector => ConnectorsSettle
      /\ UNCHANGED pairing => SeedsStay
  BY DEF DevicesSettle, ConnectorsSettle, Settles, SlotsStay, SeedsStay
<1>2. DevicesSettle
  <2>1. ASSUME NEW d \in DeviceKeys, device' = [device EXCEPT ![d] = CancelRotation(@)]
        PROVE  DevicesSettle
    BY <1>0, <2>1 DEF CancelRotation, Device, DevicesSettle, Settles, SlotsStay
  <2>2. ASSUME NEW d \in DeviceKeys, NEW u \in Users, RevokeAccountDevice(u, d)
        PROVE  DevicesSettle
    BY <1>0, <2>2 DEF RevokeAccountDevice, CancelRotation, Device, DevicesSettle, Settles,
                      SlotsStay
  <2>3. ASSUME NEW d \in DeviceKeys, LapseDeviceCredential(d) \/ LapseDeviceRotation(d)
        PROVE  DevicesSettle
    BY <1>0, <2>3 DEF LapseDeviceCredential, LapseDeviceRotation, Device, DevicesSettle,
                      Settles, SlotsStay
  <2>4. CASE Ticketing
    BY <1>1, <2>1, <2>4 DEF Ticketing, IssueBrowserTicket, IssueConnectorTicket,
                            ConsumeRelayTicket
  <2>5. CASE Management
    BY <1>1, <2>2, <2>5 DEF Management, RevokeConnector, RevokeAccountConnector,
                            RenameAccountConnector
  <2>6. CASE Environment
    BY <1>1, <2>3, <2>6 DEF Environment, LapseChallenge, FailureLeavesWindow, LapsePairing,
           LapseConnectorCredential, LapseConnectorRotation, LapseTicket, DisableAccount,
           EndSession, ResumeSession
  <2> QED
    BY <2>4, <2>5, <2>6
<1>3. ConnectorsSettle
  <2>1. ASSUME NEW c \in ConnectorKeys, connector' = [connector EXCEPT ![c] = CancelRotation(@)]
        PROVE  ConnectorsSettle
    BY <1>0, <2>1 DEF CancelRotation, Connector, ConnectorsSettle, Settles, SlotsStay
  <2>2. ASSUME NEW c \in ConnectorKeys,
               \/ RevokeConnector(c)
               \/ \E u \in Users : RevokeAccountConnector(u, c)
               \/ \E u \in Users, n \in Names : RenameAccountConnector(u, c, n)
        PROVE  ConnectorsSettle
    BY <1>0, <2>2 DEF RevokeConnector, RevokeAccountConnector, RenameAccountConnector,
                      Connector, ConnectorsSettle, Settles, SlotsStay
  <2>3. ASSUME NEW c \in ConnectorKeys, LapseConnectorCredential(c) \/ LapseConnectorRotation(c)
        PROVE  ConnectorsSettle
    BY <1>0, <2>3 DEF LapseConnectorCredential, LapseConnectorRotation, Connector,
                      ConnectorsSettle, Settles, SlotsStay
  <2>4. CASE Ticketing
    BY <1>1, <2>1, <2>4 DEF Ticketing, IssueBrowserTicket, IssueConnectorTicket,
                            ConsumeRelayTicket
  <2>5. CASE Management
    BY <1>1, <2>2, <2>5 DEF Management, RevokeAccountDevice
  <2>6. CASE Environment
    BY <1>1, <2>3, <2>6 DEF Environment, LapseChallenge, FailureLeavesWindow, LapsePairing,
           LapseDeviceCredential, LapseDeviceRotation, LapseTicket, DisableAccount,
           EndSession, ResumeSession
  <2> QED
    BY <2>4, <2>5, <2>6
<1>4. SeedsStay
  <2>1. ASSUME NEW p \in Pairings, LapsePairing(p) PROVE SeedsStay
    BY <1>0, <2>1 DEF LapsePairing, Pairing, SeedsStay
  <2> QED
    BY <1>1, <2>1, OthersLeavePairings, TimeLapsesPairings
<1>5. drawn' = drawn
  <2>1. Ticketing => drawn' = drawn
    BY DEF Ticketing, IssueBrowserTicket, IssueConnectorTicket, ConsumeRelayTicket
  <2>2. Management => drawn' = drawn
    BY DEF Management, RevokeConnector, RevokeAccountConnector, RevokeAccountDevice,
           RenameAccountConnector
  <2>3. Environment => drawn' = drawn
    BY DEF Environment, LapseChallenge, FailureLeavesWindow, LapsePairing,
           LapseDeviceCredential, LapseDeviceRotation, LapseConnectorCredential,
           LapseConnectorRotation, LapseTicket, DisableAccount, EndSession, ResumeSession
  <2> QED
    BY <2>1, <2>2, <2>3
<1> QED
  BY <1>2, <1>3, <1>4, <1>5 DEF NothingNew

LEMMA CredentialStep == TypeOK /\ PairingLife /\ [Next]_vars => GivesOut
<1>1. UNCHANGED vars => NothingNew
  BY DEF vars, NothingNew, DevicesSettle, ConnectorsSettle, Settles, SlotsStay, SeedsStay
<1> QED
  BY <1>1, CeremonyGives, RotationGives, OthersGiveNothing DEF Next, GivesOut

-------------------------------------------------------------------------------
(* Credentials.                                                            *)

\* What a row holds has been issued, so that nothing issued now can be held.
SlotsIssued ==
    /\ \A d \in DeviceKeys : DeviceInUse(d) \subseteq drawn
    /\ \A c \in ConnectorKeys : /\ ConnectorInUse(c) \subseteq Issued
                               /\ connector[c].pending \in drawn \cup {NONE}

CredentialsInv == SlotsIssued /\ CredentialsNotShared

LEMMA CredentialsInit == Init => CredentialsInv
  BY DEF Init, CredentialsInv, SlotsIssued, CredentialsNotShared, DeviceInUse, ConnectorInUse,
         NoDevice, NoConnector

\* Facts about the values credentials are drawn from.
LEMMA Values ==
    ASSUME TypeOK
    PROVE  /\ NONE \notin Pairings /\ NONE \notin Tokens /\ Pairings \cap Tokens = {}
           /\ drawn \subseteq Tokens
  BY ConnectorsAssumption DEF TypeOK

\* A row that settles holds no credential it did not hold.
LEMMA SettlesHolds ==
    ASSUME NEW r, NEW r2, Settles(r, r2)
    PROVE  /\ ({r2.credential, r2.pending} \ {NONE}) \subseteq ({r.credential, r.pending} \ {NONE})
           /\ r2.pending # NONE => r2.pending = r.pending /\ r2.credential = r.credential
  BY DEF Settles, SlotsStay

\* What has been issued stays issued.
LEMMA IssuedGrows ==
    ASSUME TypeOK, GivesOut
    PROVE  drawn \subseteq drawn' /\ Issued \subseteq Issued'
<1>1. drawn \subseteq drawn'
  BY DEF GivesOut, NothingNew, DeviceRotates, ConnectorRotates, Confirms, Draw
<1>2. \A p \in Pairings : pairing[p].seed # NONE => pairing'[p].seed # NONE
  BY DEF GivesOut, NothingNew, DeviceRotates, ConnectorRotates, Confirms, SeedsStay
<1> QED
  BY <1>1, <1>2 DEF Issued

\* Each step keeps credentials apart: what it gives out was not issued before.
LEMMA CredentialsNext ==
    ASSUME TypeOK, CredentialsInv, GivesOut
    PROVE  CredentialsInv'
<1> USE DEF CredentialsInv
<1>0. drawn \subseteq drawn' /\ Issued \subseteq Issued'
  BY IssuedGrows
<1> DEFINE DevicesApart ==
             \A d, e \in DeviceKeys :
               /\ d # e => DeviceInUse(d) \cap DeviceInUse(e) = {}
               /\ device[d].pending # NONE => device[d].pending # device[d].credential
           ConnectorsApart ==
             \A c, e \in ConnectorKeys :
               /\ c # e => ConnectorInUse(c) \cap ConnectorInUse(e) = {}
               /\ connector[c].pending # NONE => connector[c].pending # connector[c].credential
           DevicesDrawn == \A d \in DeviceKeys : DeviceInUse(d) \subseteq drawn
           ConnectorsDrawn == \A c \in ConnectorKeys :
               /\ ConnectorInUse(c) \subseteq Issued
               /\ connector[c].pending \in drawn \cup {NONE}
<1>1. DevicesApart /\ ConnectorsApart /\ DevicesDrawn /\ ConnectorsDrawn
  BY DEF CredentialsNotShared, SlotsIssued
<1>2. ASSUME DevicesSettle PROVE DevicesApart' /\ DevicesDrawn'
  <2>1. \A d \in DeviceKeys :
           /\ DeviceInUse(d)' \subseteq DeviceInUse(d)
           /\ device'[d].pending # NONE =>
                 device'[d].pending = device[d].pending /\ device'[d].credential = device[d].credential
    BY <1>2, SettlesHolds DEF DevicesSettle, DeviceInUse
  <2> QED
    BY <1>0, <1>1, <2>1
<1>3. ASSUME ConnectorsSettle PROVE ConnectorsApart' /\ ConnectorsDrawn'
  <2>1. \A c \in ConnectorKeys :
           /\ ConnectorInUse(c)' \subseteq ConnectorInUse(c)
           /\ connector'[c].pending # NONE =>
                 /\ connector'[c].pending = connector[c].pending
                 /\ connector'[c].credential = connector[c].credential
    BY <1>3, SettlesHolds DEF ConnectorsSettle, ConnectorInUse
  <2> QED
    BY <1>0, <1>1, <2>1
<1>4. ASSUME NEW d \in DeviceKeys, NEW x \in Tokens, Draw(x), DevicesStay(DeviceKeys \ {d}),
             \/ device'[d].credential = device[d].credential /\ device'[d].pending = x
             \/ device'[d].credential = x /\ device'[d].pending = device[d].pending
      PROVE  DevicesApart' /\ DevicesDrawn'
  <2>1. /\ x \notin drawn /\ x \in drawn' /\ x # NONE
        /\ DeviceInUse(d)' \subseteq DeviceInUse(d) \cup {x}
        /\ device'[d].pending # NONE => device'[d].pending # device'[d].credential
    <3>1. x \notin drawn /\ x \in drawn' /\ x # NONE
      BY <1>4, Values DEF Draw
    <3>2. device[d].pending # x /\ device[d].credential # x
      BY <1>1, <3>1 DEF DeviceInUse
    <3> QED
      BY <1>1, <1>4, <3>1, <3>2 DEF DeviceInUse
  <2>2. \A e \in DeviceKeys \ {d} :
           /\ DeviceInUse(e)' = DeviceInUse(e)
           /\ device'[e].pending = device[e].pending /\ device'[e].credential = device[e].credential
    BY <1>4 DEF DevicesStay, SlotsStay, DeviceInUse
  <2>3. DevicesDrawn'
    BY <1>0, <1>1, <2>1, <2>2
  <2>4. DevicesApart'
    BY <1>1, <2>1, <2>2
  <2> QED
    BY <2>3, <2>4
<1>5. ASSUME NEW c \in ConnectorKeys, NEW x, x \notin Issued, x \in Issued', x # NONE,
             ConnectorsStay(ConnectorKeys \ {c}),
             \/ /\ connector'[c].credential = connector[c].credential
                /\ connector'[c].pending = x /\ x \in drawn'
             \/ connector'[c].credential = x /\ connector'[c].pending = connector[c].pending
      PROVE  ConnectorsApart' /\ ConnectorsDrawn'
  <2>1. /\ ConnectorInUse(c)' \subseteq ConnectorInUse(c) \cup {x}
        /\ connector'[c].pending # NONE => connector'[c].pending # connector'[c].credential
        /\ connector'[c].pending \in drawn' \cup {NONE}
    <3>1. connector[c].pending # x /\ connector[c].credential # x
      BY <1>1, <1>5 DEF ConnectorInUse
    <3> QED
      BY <1>0, <1>1, <1>5, <3>1 DEF ConnectorInUse
  <2>2. \A e \in ConnectorKeys \ {c} :
           /\ ConnectorInUse(e)' = ConnectorInUse(e)
           /\ connector'[e].pending = connector[e].pending
           /\ connector'[e].credential = connector[e].credential
    BY <1>5 DEF ConnectorsStay, SlotsStay, ConnectorInUse
  <2>3. ConnectorsDrawn'
    BY <1>0, <1>1, <1>5, <2>1, <2>2
  <2>4. ConnectorsApart'
    BY <1>1, <1>5, <2>1, <2>2
  <2> QED
    BY <2>3, <2>4
<1>6. ConnectorsStay(ConnectorKeys) => ConnectorsSettle
  BY StaysSettle DEF ConnectorsStay, ConnectorsSettle
<1>7. DevicesStay(DeviceKeys) => DevicesSettle
  BY StaysSettle DEF DevicesStay, DevicesSettle
<1>8. ASSUME NEW x \in Tokens, Draw(x)
      PROVE  x \notin Issued /\ x \in Issued' /\ x # NONE /\ x \in drawn'
  BY <1>8, Values DEF Draw, Issued
<1>9. DevicesApart' /\ DevicesDrawn' /\ ConnectorsApart' /\ ConnectorsDrawn'
  <2>1. CASE NothingNew
    BY <1>2, <1>3, <2>1 DEF NothingNew
  <2>2. ASSUME NEW d \in DeviceKeys, NEW x \in Tokens, DeviceRotates(d, x)
        PROVE  DevicesApart' /\ DevicesDrawn' /\ ConnectorsApart' /\ ConnectorsDrawn'
    BY <1>3, <1>4, <1>6, <2>2 DEF DeviceRotates
  <2>3. ASSUME NEW c \in ConnectorKeys, NEW x \in Tokens, ConnectorRotates(c, x)
        PROVE  DevicesApart' /\ DevicesDrawn' /\ ConnectorsApart' /\ ConnectorsDrawn'
    BY <1>2, <1>5, <1>7, <1>8, <2>3 DEF ConnectorRotates
  <2>4. ASSUME NEW p \in Pairings, NEW d \in DeviceKeys, NEW c \in ConnectorKeys,
               NEW x \in Tokens, Confirms(p, d, c, x)
        PROVE  DevicesApart' /\ DevicesDrawn' /\ ConnectorsApart' /\ ConnectorsDrawn'
    <3>1. p \notin Issued /\ p \in Issued' /\ p # NONE
      BY <2>4, Values DEF Confirms, Issued
    <3>2. DevicesApart' /\ DevicesDrawn'
      BY <1>4, <2>4 DEF Confirms
    <3>3. ConnectorsApart' /\ ConnectorsDrawn'
      BY <1>5, <2>4, <3>1 DEF Confirms
    <3> QED
      BY <3>2, <3>3
  <2> HIDE DEF DevicesApart, DevicesDrawn, ConnectorsApart, ConnectorsDrawn
  <2> QED
    BY <2>1, <2>2, <2>3, <2>4 DEF GivesOut
<1> QED
  BY <1>9 DEF CredentialsNotShared, SlotsIssued

\* What a step puts in use was in use already or was not issued before.
LEMMA InUseStep ==
    ASSUME TypeOK, GivesOut, NEW y \in Issued, y \in InUse'
    PROVE  y \in InUse
<1> DEFINE Held(d) == {device[d].credential, device[d].pending}
           Kept(c) == {connector[c].credential, connector[c].pending}
           Old == \/ \E d \in DeviceKeys : y \in Held(d)
                  \/ \E c \in ConnectorKeys : y \in Kept(c)
<1>0. y # NONE
  BY Values DEF Issued
<1>1. \/ \E d \in DeviceKeys : y \in {device'[d].credential, device'[d].pending}
      \/ \E c \in ConnectorKeys : y \in {connector'[c].credential, connector'[c].pending}
  BY DEF InUse, DeviceInUse, ConnectorInUse
<1>2. Old
  <2>1. CASE NothingNew
    BY <1>0, <1>1, <2>1 DEF NothingNew, DevicesSettle, ConnectorsSettle, Settles, SlotsStay
  <2>2. ASSUME NEW d \in DeviceKeys, NEW x \in Tokens, DeviceRotates(d, x) PROVE Old
    <3>1. y # x
      BY <2>2, Values DEF DeviceRotates, Draw, Issued
    <3> QED
      BY <1>1, <2>2, <3>1 DEF DeviceRotates, DevicesStay, ConnectorsStay, SlotsStay
  <2>3. ASSUME NEW c \in ConnectorKeys, NEW x \in Tokens, ConnectorRotates(c, x) PROVE Old
    <3>1. y # x
      BY <2>3, Values DEF ConnectorRotates, Draw, Issued
    <3> QED
      BY <1>1, <2>3, <3>1 DEF ConnectorRotates, DevicesStay, ConnectorsStay, SlotsStay
  <2>4. ASSUME NEW p \in Pairings, NEW d \in DeviceKeys, NEW c \in ConnectorKeys,
               NEW x \in Tokens, Confirms(p, d, c, x)
        PROVE  Old
    <3>1. y # x /\ y # p
      BY <2>4, Values DEF Confirms, Draw, Issued
    <3> QED
      BY <1>1, <2>4, <3>1 DEF Confirms, DevicesStay, ConnectorsStay, SlotsStay
  <2> HIDE DEF Old
  <2> QED
    BY <2>1, <2>2, <2>3, <2>4 DEF GivesOut
<1>3. CASE \E d \in DeviceKeys : y \in Held(d)
  <2>1. PICK d \in DeviceKeys : y \in DeviceInUse(d)
    BY <1>0, <1>3 DEF DeviceInUse
  <2> QED
    BY <2>1 DEF InUse
<1>4. CASE \E c \in ConnectorKeys : y \in Kept(c)
  <2>1. PICK c \in ConnectorKeys : y \in ConnectorInUse(c)
    BY <1>0, <1>4 DEF ConnectorInUse
  <2> QED
    BY <2>1 DEF InUse
<1> QED
  BY <1>2, <1>3, <1>4

LEMMA Typed == Spec => [](TypeOK /\ PairingLife)
<1>1. Init => TypeOK /\ PairingLife
  BY TypeOKInit, PairingLifeInit
<1>2. TypeOK /\ PairingLife /\ [Next]_vars => (TypeOK /\ PairingLife)'
  BY TypeOKStep, PairingStep DEF PairingLife
<1> QED
  BY <1>1, <1>2, PTL DEF Spec

\* A credential identifies one row and one slot of it, whatever confirmations and
\* rotations run: a lookup by any credential finds one answer.
THEOREM OneRowPerCredential == Spec => []CredentialsNotShared
<1>1. Init => CredentialsInv
  BY CredentialsInit
<1>2. TypeOK /\ PairingLife /\ CredentialsInv /\ [Next]_vars => CredentialsInv'
  BY CredentialStep, CredentialsNext
<1>3. CredentialsInv => CredentialsNotShared
  BY DEF CredentialsInv
<1> QED
  BY <1>1, <1>2, <1>3, Typed, PTL DEF Spec

\* A credential no longer accepted is never accepted again: no confirmation,
\* rotation or activation revives one.
THEOREM RetiredForGood == Spec => RetiredStayRetired
<1>1. TypeOK /\ PairingLife /\ [Next]_vars =>
        (\A x \in Issued : x \notin InUse => x \notin InUse')
  BY CredentialStep, InUseStep
<1> QED
  BY <1>1, Typed, PTL DEF Spec, RetiredStayRetired

\* How the current credentials may change, as ReplacementIsDeliberate states it.
DeviceReplaced(d) ==
    \/ device'[d].credential = device[d].pending /\ ~device[d].pendingLapsed /\ ~device[d].revoked
    \/ \E p \in Pairings : /\ pairing[p].seed = NONE
                           /\ pairing'[p].seed = device'[d].credential
                           /\ pairing'[p].device = d
ConnectorReplaced(c) ==
    \/ /\ connector'[c].credential = connector[c].pending
       /\ ~connector[c].pendingLapsed /\ ~connector[c].revoked
    \/ \E p \in Pairings : /\ pairing[p].seed = NONE /\ pairing'[p].seed # NONE
                           /\ connector'[c].credential = p
                           /\ pairing'[p].connector = c

\* A current credential is replaced by a confirmation completing now or by a
\* rotation whose window is open, and by nothing else.
THEOREM Deliberate == Spec => ReplacementIsDeliberate
<1>1. TypeOK /\ PairingLife /\ [Next]_vars => ReplacementsDeliberate
  <2> DEFINE Sound ==
               /\ \A d \in DeviceKeys :
                     device'[d].credential # device[d].credential => DeviceReplaced(d)
               /\ \A c \in ConnectorKeys :
                     connector'[c].credential # connector[c].credential => ConnectorReplaced(c)
  <2>s. Sound => ReplacementsDeliberate
    BY DEF ReplacementsDeliberate, DeviceReplaced, ConnectorReplaced
  <2> SUFFICES ASSUME TypeOK, PairingLife, [Next]_vars PROVE Sound
    BY <2>s
  <2>0. GivesOut
    BY CredentialStep
  <2>1. CASE NothingNew
    BY <2>1 DEF NothingNew, DevicesSettle, ConnectorsSettle, Settles, DeviceReplaced,
                ConnectorReplaced
  <2>2. CASE \E d \in DeviceKeys, x \in Tokens : DeviceRotates(d, x)
    BY <2>2 DEF DeviceRotates, DevicesStay, ConnectorsStay, SlotsStay
  <2>3. CASE \E c \in ConnectorKeys, x \in Tokens : ConnectorRotates(c, x)
    BY <2>3 DEF ConnectorRotates, DevicesStay, ConnectorsStay, SlotsStay
  <2>4. ASSUME NEW p \in Pairings, NEW d \in DeviceKeys, NEW c \in ConnectorKeys,
               NEW x \in Tokens, Confirms(p, d, c, x)
        PROVE  Sound
    <3>1. x # NONE
      BY Values
    <3>2. \A e \in DeviceKeys : device'[e].credential # device[e].credential => DeviceReplaced(e)
      BY <2>4 DEF Confirms, DevicesStay, SlotsStay, DeviceReplaced
    <3>3. \A e \in ConnectorKeys :
             connector'[e].credential # connector[e].credential => ConnectorReplaced(e)
      BY <2>4, <3>1 DEF Confirms, ConnectorsStay, SlotsStay, ConnectorReplaced
    <3> QED
      BY <3>2, <3>3
  <2> HIDE DEF Sound
  <2> QED
    BY <2>0, <2>1, <2>2, <2>3, <2>4 DEF GivesOut
<1> QED
  BY <1>1, Typed, PTL DEF Spec, ReplacementIsDeliberate

-------------------------------------------------------------------------------
(* Relay tickets.                                                          *)

\* A ticket in force has a subject whose credential is: a ticket lapses with the
\* credential that bought it, and no other credential of the subject is older.
TicketStands(t) ==
    /\ ticket[t].user # NONE =>
          IF ticket[t].role = "client" THEN ticket[t].subject \in DeviceKeys
                                       ELSE ticket[t].subject \in ConnectorKeys
    /\ ticket[t].user # NONE /\ ~ticket[t].lapsed => ~Subject(t).lapsed
TicketsStand == \A t \in Tickets : TicketStands(t)

\* A credential lapses only with the tickets it bought.
DeviceLapses(d) == ~device[d].lapsed /\ device'[d].lapsed => ticket' = LapseTicketsOf("client", d)
ConnectorLapses(c) ==
    ~connector[c].lapsed /\ connector'[c].lapsed => ticket' = LapseTicketsOf("connector", c)

LEMMA LapsesTogether ==
    ASSUME TypeOK, [Next]_vars
    PROVE  /\ \A d \in DeviceKeys : DeviceLapses(d)
           /\ \A c \in ConnectorKeys : ConnectorLapses(c)
<1> USE DEF DeviceLapses, ConnectorLapses
<1>0. /\ device \in [DeviceKeys -> Device] /\ connector \in [ConnectorKeys -> Connector]
      /\ pairing \in [Pairings -> Pairing]
  BY DEF TypeOK
<1> DEFINE Goal == /\ \A d \in DeviceKeys : DeviceLapses(d)
                   /\ \A c \in ConnectorKeys : ConnectorLapses(c)
<1>1. CASE UNCHANGED <<device, connector>>
  BY <1>1
<1>2. ASSUME NEW u \in Users, NEW p \in Pairings, NEW d \in DeviceKeys, ClaimPairing(u, p, d)
      PROVE  Goal
  BY <1>0, <1>2 DEF ClaimPairing, Device
<1>3. ASSUME NEW u \in Users, NEW p \in Pairings, NEW d \in DeviceKeys, NEW x \in Tokens,
             ConfirmPairing(u, p, d, x)
      PROVE  Goal
  <2>1. \A e \in DeviceKeys : DeviceLapses(e)
    BY <1>0, <1>3 DEF ConfirmPairing, Device
  <2>2. connector' = [connector EXCEPT ![pairing[p].connector] = Install(@, u, p)]
    BY <1>3 DEF ConfirmPairing
  <2>3. \A c \in ConnectorKeys : ConnectorLapses(c)
    BY <1>0, <2>2 DEF Install, Connector
  <2> QED
    BY <2>1, <2>3
<1>4. CASE Ceremony
  <2> HIDE DEF Goal, DeviceLapses, ConnectorLapses
  <2>1. UNCHANGED <<device, connector>> => Goal
    BY <1>1 DEF Goal
  <2>2. Goal
    BY <1>2, <1>3, <1>4, <2>1 DEF Ceremony, IssueChallenge, BeginPairing, ClaimLapsedPairing,
           ClaimWrongCode, PollPairing, ExpireLapsed, ApprovePairing, CancelPairing
  <2> QED
    BY <2>2 DEF Goal
<1>5. CASE Rotation
  <2>1. ASSUME NEW s \in Sessions, NEW d \in DeviceKeys,
               \/ ActivateDeviceCredential(s, d)
               \/ \E x \in Tokens : RotateDeviceCredential(s, d, x)
        PROVE  Goal
    <3>1. CASE ActivateDeviceCredential(s, d)
      BY <1>0, <3>1 DEF ActivateDeviceCredential, PromotePending, Device
    <3>2. CASE \E x \in Tokens : RotateDeviceCredential(s, d, x)
      BY <1>0, <3>2 DEF RotateDeviceCredential, StartRotation, Device
    <3> QED
      BY <2>1, <3>1, <3>2
  <2>2. ASSUME NEW c \in ConnectorKeys,
               \/ ActivateConnectorCredential(c)
               \/ \E x \in Tokens : RotateConnectorCredential(c, x)
        PROVE  Goal
    <3>1. CASE ActivateConnectorCredential(c)
      BY <1>0, <3>1 DEF ActivateConnectorCredential, PromotePending, Connector
    <3>2. CASE \E x \in Tokens : RotateConnectorCredential(c, x)
      BY <1>0, <3>2 DEF RotateConnectorCredential, StartRotation, Connector
    <3> QED
      BY <2>2, <3>1, <3>2
  <2> QED
    BY <1>5, <2>1, <2>2 DEF Rotation
<1>6. CASE Ticketing
  <2>1. ASSUME NEW s \in Sessions, NEW d \in DeviceKeys, NEW t \in Tickets,
               IssueBrowserTicket(s, d, t)
        PROVE  Goal
    BY <1>0, <2>1 DEF IssueBrowserTicket, CancelRotation, Device
  <2>2. ASSUME NEW c \in ConnectorKeys, NEW t \in Tickets, IssueConnectorTicket(c, t)
        PROVE  Goal
    BY <1>0, <2>2 DEF IssueConnectorTicket, CancelRotation, Connector
  <2>3. ASSUME NEW t \in Tickets, ConsumeRelayTicket(t) PROVE Goal
    BY <1>1, <2>3 DEF ConsumeRelayTicket
  <2> QED
    BY <1>6, <2>1, <2>2, <2>3 DEF Ticketing
<1>7. CASE Management
  <2>1. ASSUME NEW c \in ConnectorKeys,
               \/ RevokeConnector(c)
               \/ \E u \in Users : RevokeAccountConnector(u, c)
               \/ \E u \in Users, n \in Names : RenameAccountConnector(u, c, n)
        PROVE  Goal
    BY <1>0, <2>1 DEF RevokeConnector, RevokeAccountConnector, RenameAccountConnector, Connector
  <2>2. ASSUME NEW u \in Users, NEW d \in DeviceKeys, RevokeAccountDevice(u, d) PROVE Goal
    BY <1>0, <2>2 DEF RevokeAccountDevice, CancelRotation, Device
  <2> QED
    BY <1>7, <2>1, <2>2 DEF Management
<1>8. CASE Environment
  <2>1. ASSUME NEW d \in DeviceKeys, LapseDeviceCredential(d) \/ LapseDeviceRotation(d)
        PROVE  Goal
    BY <1>0, <2>1 DEF LapseDeviceCredential, LapseDeviceRotation, Device
  <2>2. ASSUME NEW c \in ConnectorKeys, LapseConnectorCredential(c) \/ LapseConnectorRotation(c)
        PROVE  Goal
    BY <1>0, <2>2 DEF LapseConnectorCredential, LapseConnectorRotation, Connector
  <2> HIDE DEF Goal, DeviceLapses, ConnectorLapses
  <2>3. UNCHANGED <<device, connector>> => Goal
    BY <1>1 DEF Goal
  <2>4. Goal
    BY <1>8, <2>1, <2>2, <2>3 DEF Environment, LapseChallenge, FailureLeavesWindow,
           LapsePairing, LapseTicket, DisableAccount, EndSession, ResumeSession
  <2> QED
    BY <2>4 DEF Goal
<1> QED
  BY <1>1, <1>4, <1>5, <1>6, <1>7, <1>8 DEF Next, vars

LEMMA LapseSubject ==
    ASSUME NEW t \in Tickets, NEW k, ticket[t].subject = k,
           ticket' = LapseTicketsOf(ticket[t].role, k), TypeOK
    PROVE  ticket'[t].lapsed
<1>1. ticket[t] \in Ticket
  BY DEF TypeOK
<1> QED
  BY <1>1 DEF LapseTicketsOf, Ticket

\* What a step may do to a ticket: it is bought by a credential in force,
\* traded for an admission, or lapses.
Bought(t) ==
    /\ ticket[t].user = NONE /\ ~ticket'[t].consumed
    /\ \/ /\ ticket'[t].role = "client" /\ ticket'[t].subject \in DeviceKeys
          /\ ~device'[ticket'[t].subject].lapsed
       \/ /\ ticket'[t].role = "connector" /\ ticket'[t].subject \in ConnectorKeys
          /\ ~connector'[ticket'[t].subject].lapsed
LapsesNow(t) == ticket'[t] = [ticket[t] EXCEPT !.lapsed = TRUE]
Traded(t) == ConsumeRelayTicket(t) /\ TicketKeeps(ticket[t], ticket'[t])
                                  /\ ticket'[t].lapsed = ticket[t].lapsed

LEMMA TicketMoves ==
    ASSUME TypeOK, [Next]_vars, NEW t \in Tickets
    PROVE  ticket'[t] = ticket[t] \/ Bought(t) \/ LapsesNow(t) \/ Traded(t)
<1> DEFINE Goal == ticket'[t] = ticket[t] \/ Bought(t) \/ LapsesNow(t) \/ Traded(t)
<1>0. ticket \in [Tickets -> Ticket] /\ ticket[t] \in Ticket
  BY DEF TypeOK
<1>1. ASSUME NEW s \in Sessions, NEW d \in DeviceKeys, NEW x \in Tickets,
             IssueBrowserTicket(s, d, x)
      PROVE  Goal
  <2>1. device \in [DeviceKeys -> Device]
    BY DEF TypeOK
  <2>2. ~device[d].lapsed /\ device' = [device EXCEPT ![d] = CancelRotation(@)]
    BY <1>1 DEF IssueBrowserTicket, DeviceAuthenticates
  <2>3. ~device'[d].lapsed
    BY <2>1, <2>2 DEF CancelRotation, Device
  <2> QED
    BY <1>0, <1>1, <2>3 DEF IssueBrowserTicket, NoTicket, Bought
<1>2. ASSUME NEW c \in ConnectorKeys, NEW x \in Tickets, IssueConnectorTicket(c, x)
      PROVE  Goal
  <2>1. connector \in [ConnectorKeys -> Connector]
    BY DEF TypeOK
  <2>2. ~connector[c].lapsed /\ connector' = [connector EXCEPT ![c] = CancelRotation(@)]
    BY <1>2 DEF IssueConnectorTicket, ConnectorAuthenticates
  <2>3. ~connector'[c].lapsed
    BY <2>1, <2>2 DEF CancelRotation, Connector
  <2> QED
    BY <1>0, <1>2, <2>3 DEF IssueConnectorTicket, NoTicket, Bought
<1>3. ASSUME NEW x \in Tickets, ConsumeRelayTicket(x) PROVE Goal
  BY <1>0, <1>3 DEF ConsumeRelayTicket, TicketKeeps, Ticket, Traded
<1>4. ASSUME NEW x \in Tickets, LapseTicket(x) PROVE Goal
  BY <1>0, <1>4 DEF LapseTicket, Ticket, LapsesNow
<1>5. ASSUME NEW role, NEW k, ticket' = LapseTicketsOf(role, k) PROVE Goal
  BY <1>0, <1>5 DEF LapseTicketsOf, LapsesNow
<1>6. UNCHANGED ticket => Goal
  OBVIOUS
<1> HIDE DEF Goal
<1>7. Ceremony \/ Rotation \/ Management => UNCHANGED ticket
  BY OthersLeaveTickets
<1>8. Environment => \/ UNCHANGED ticket
                     \/ \E d \in DeviceKeys : ticket' = LapseTicketsOf("client", d)
                     \/ \E c \in ConnectorKeys : ticket' = LapseTicketsOf("connector", c)
                     \/ \E x \in Tickets : LapseTicket(x)
  BY DEF Environment, LapseChallenge, FailureLeavesWindow, LapsePairing,
     LapseDeviceCredential, LapseDeviceRotation, LapseConnectorCredential,
     LapseConnectorRotation, DisableAccount, EndSession, ResumeSession
<1>9. Goal
  BY <1>1, <1>2, <1>3, <1>4, <1>5, <1>6, <1>7, <1>8 DEF Next, Ticketing, vars
<1> QED
  BY <1>9 DEF Goal

LEMMA TicketsStandInit == Init => TicketsStand
  BY DEF Init, TicketsStand, TicketStands, NoTicket

\* A ticket that keeps its subject keeps standing: what lapses its subject's
\* credential lapses it.
LEMMA SubjectKeeps ==
    ASSUME TypeOK, [Next]_vars, NEW t \in Tickets, TicketStands(t),
           ticket'[t].user = ticket[t].user, ticket'[t].role = ticket[t].role,
           ticket'[t].subject = ticket[t].subject,
           ticket[t].lapsed => ticket'[t].lapsed
    PROVE  TicketStands(t)'
<1>1. CASE ticket[t].user = NONE
  BY <1>1 DEF TicketStands
<1>2. CASE ticket[t].user # NONE /\ ticket[t].role = "client"
  <2> DEFINE d == ticket[t].subject
  <2>1. d \in DeviceKeys /\ (~ticket[t].lapsed => ~device[d].lapsed)
    BY <1>2 DEF TicketStands, Subject
  <2>2. DeviceLapses(d)
    BY <2>1, LapsesTogether
  <2>3. ticket' = LapseTicketsOf("client", d) => ticket'[t].lapsed
    BY <1>2, LapseSubject
  <2>4. ~ticket'[t].lapsed => ~device'[d].lapsed
    BY <2>1, <2>2, <2>3 DEF DeviceLapses
  <2> QED
    BY <1>2, <2>1, <2>4 DEF TicketStands, Subject
<1>3. CASE ticket[t].user # NONE /\ ticket[t].role # "client"
  <2> DEFINE c == ticket[t].subject
  <2>0. ticket[t].role = "connector"
    BY <1>3 DEF TypeOK, Ticket
  <2>1. c \in ConnectorKeys /\ (~ticket[t].lapsed => ~connector[c].lapsed)
    BY <1>3 DEF TicketStands, Subject
  <2>2. ConnectorLapses(c)
    BY <2>1, LapsesTogether
  <2>3. ticket' = LapseTicketsOf("connector", c) => ticket'[t].lapsed
    BY <2>0, LapseSubject
  <2>4. ~ticket'[t].lapsed => ~connector'[c].lapsed
    BY <2>1, <2>2, <2>3 DEF ConnectorLapses
  <2> QED
    BY <1>3, <2>1, <2>4 DEF TicketStands, Subject
<1> QED
  BY <1>1, <1>2, <1>3

LEMMA TicketsStandNext ==
    ASSUME TypeOK, TicketsStand, [Next]_vars
    PROVE  TicketsStand'
<1> SUFFICES ASSUME NEW t \in Tickets PROVE TicketStands(t)'
  BY DEF TicketsStand
<1>0. TicketStands(t) /\ ticket[t] \in Ticket
  BY DEF TypeOK, TicketsStand
<1>1. CASE ticket'[t] = ticket[t]
  BY <1>0, <1>1, SubjectKeeps
<1>2. CASE Bought(t)
  BY <1>2 DEF Bought, TicketStands, Subject
<1>3. CASE LapsesNow(t)
  <2>1. /\ ticket'[t].user = ticket[t].user /\ ticket'[t].role = ticket[t].role
        /\ ticket'[t].subject = ticket[t].subject /\ ticket'[t].lapsed
    BY <1>0, <1>3 DEF LapsesNow, Ticket
  <2> QED
    BY <1>0, <2>1, SubjectKeeps
<1>4. CASE Traded(t)
  BY <1>0, <1>4, SubjectKeeps DEF Traded, TicketKeeps
<1> QED
  BY <1>1, <1>2, <1>3, <1>4, TicketMoves

\* Nobody is admitted whose authority has ended: ConsumeRelayTicket reads no
\* credential's expiry, and a ticket that stands does not need it to.
THEOREM LiveAuthority == Spec => AdmissionNeedsLiveAuthority
<1> DEFINE Earned(t) ==
             /\ ~ticket[t].consumed
             /\ ticket[t].user \in active
             /\ ticket[t].role = "client" => ticket[t].session \in live
             /\ ~Subject(t).revoked /\ ~Subject(t).lapsed
<1>1. TypeOK /\ TicketsStand /\ [Next]_vars => AdmissionsHaveAuthority
  <2> SUFFICES ASSUME TypeOK, TicketsStand, [Next]_vars, NEW t \in Tickets,
                      ticket'[t].consumed, ticket'[t] # ticket[t]
               PROVE  ticket'[t] = [ticket[t] EXCEPT !.lapsed = TRUE] \/ Earned(t)
    BY DEF AdmissionsHaveAuthority
  <2>1. LapsesNow(t) \/ Traded(t)
    BY TicketMoves DEF Bought
  <2>2. CASE Traded(t)
    <3>1. /\ ticket[t].user \in active /\ ~ticket[t].consumed /\ ~ticket[t].lapsed
          /\ ticket[t].role = "client" => ticket[t].session \in live
          /\ SubjectStands(t)
      BY <2>2 DEF Traded, ConsumeRelayTicket
    <3>2. ticket[t].user # NONE
      BY <3>1, ConnectorsAssumption DEF TypeOK
    <3>3. ~Subject(t).lapsed
      BY <3>1, <3>2 DEF TicketsStand, TicketStands
    <3>4. ~Subject(t).revoked
      BY <3>1 DEF SubjectStands, Subject
    <3> QED
      BY <3>1, <3>3, <3>4
  <2> QED
    BY <2>1, <2>2 DEF LapsesNow
<1>2. TypeOK /\ PairingLife /\ TicketsStand /\ [Next]_vars => TicketsStand'
  BY TicketsStandNext
<1> QED
  BY <1>1, <1>2, TicketsStandInit, Typed, PTL DEF Spec, AdmissionNeedsLiveAuthority
-------------------------------------------------------------------------------
(* The agreement the tables keep.                                          *)

\* What the agreement sees of a pairing, of the parties and of a ticket is as
\* it was.
Over(r) == r.state \in {"completed", "expired"}

PairingSeenSame(p) ==
    /\ pairing'[p].connector = pairing[p].connector
    /\ pairing'[p].user = pairing[p].user /\ pairing'[p].device = pairing[p].device
    /\ pairing'[p].reviewed = pairing[p].reviewed
    /\ Over(pairing'[p]) <=> Over(pairing[p])
PairingsSeenSame == \A p \in Pairings : PairingSeenSame(p)

PartySeenSame(r, r2) == r2.user = r.user /\ r2.revoked = r.revoked
PartiesSeenSame ==
    /\ \A d \in DeviceKeys : PartySeenSame(device[d], device'[d])
    /\ \A c \in ConnectorKeys : PartySeenSame(connector[c], connector'[c])

AdmissionSeenSame(r, r2) ==
    /\ r2.consumed = r.consumed
    /\ r.consumed => r2.role = r.role /\ r2.subject = r.subject /\ r2.trusted = r.trusted
AdmissionsSeenSame == \A t \in Tickets : AdmissionSeenSame(ticket[t], ticket'[t])

LEMMA PairingsSeen ==
    ASSUME PairingsSeenSame PROVE UNCHANGED <<Offers, Claims, ApprovedOnes, Ended>>
  BY DEF PairingsSeenSame, PairingSeenSame, Over, Offers, Claims, ApprovedOnes, Ended

LEMMA AdmissionsSeen ==
    ASSUME AdmissionsSeenSame PROVE UNCHANGED Admissions
  BY DEF AdmissionsSeenSame, AdmissionSeenSame, Admissions

\* Who left, by role.
LEMMA GoneIs ==
    /\ \A d \in DeviceKeys : <<"client", d>> \in Gone <=> device[d].revoked
    /\ \A c \in ConnectorKeys : <<"connector", c>> \in Gone <=> connector[c].revoked
  BY DEF Gone

LEMMA PartiesSeen ==
    ASSUME TypeOK, PartiesSeenSame, UNCHANGED trust
    PROVE  UNCHANGED <<DeviceOwners, ConnectorOwners, Gone, LiveTrust>>
<1>1. UNCHANGED <<DeviceOwners, ConnectorOwners>>
  BY DEF PartiesSeenSame, PartySeenSame, DeviceOwners, ConnectorOwners
<1>2. UNCHANGED Gone
  BY DEF PartiesSeenSame, PartySeenSame, Gone
<1>3. UNCHANGED LiveTrust
  BY DEF PartiesSeenSame, PartySeenSame, LiveTrust, TypeOK
<1> QED
  BY <1>1, <1>2, <1>3

\* Rows nobody wrote look the same.
LEMMA UnwrittenSeen ==
    /\ UNCHANGED pairing => PairingsSeenSame
    /\ UNCHANGED <<device, connector>> => PartiesSeenSame
    /\ UNCHANGED ticket => AdmissionsSeenSame
  BY DEF PairingsSeenSame, PairingSeenSame, PartiesSeenSame, PartySeenSame,
     AdmissionsSeenSame, AdmissionSeenSame

\* Most steps are none of the agreement's: a credential, a challenge, an
\* account, a session, a name or the clock.
LEMMA AgreementStands ==
    ASSUME TypeOK, PairingsSeenSame, PartiesSeenSame, AdmissionsSeenSame, UNCHANGED trust
    PROVE  UNCHANGED Agreed!agreementVars
  BY PairingsSeen, PartiesSeen, AdmissionsSeen DEF Agreed!agreementVars

\* A pairing ends without trust when it lapses, is declined or is given up.
LEMMA Closes ==
    ASSUME TypeOK, PairingLife, NEW p \in Pairings, pairing[p].state # "none", ~Over(pairing[p]),
           pairing' = [pairing EXCEPT ![p].state = "expired"],
           UNCHANGED <<device, connector, trust, ticket>>
    PROVE  Agreed!Close(p)
<1>1. pairing[p].connector # NONE
  BY DEF PairingLife, RowLife
<1>2. /\ \A q \in Pairings \ {p} : pairing'[q] = pairing[q]
      /\ pairing'[p] = [pairing[p] EXCEPT !.state = "expired"]
      /\ pairing[p] \in Pairing
  BY DEF TypeOK
<1>3. UNCHANGED <<Offers, Claims, ApprovedOnes>>
  BY <1>2 DEF Offers, Claims, ApprovedOnes, Pairing
<1>4. Ended' = Ended \cup {p} /\ p \notin Ended
  BY <1>2 DEF Ended, Over, Pairing
<1>5. UNCHANGED <<DeviceOwners, ConnectorOwners, Gone, LiveTrust, Admissions>>
  BY PartiesSeen, AdmissionsSeen, UnwrittenSeen
<1> QED
  BY <1>1, <1>3, <1>4, <1>5 DEF Agreed!Close, Offers

LEMMA Offered ==
    ASSUME TypeOK, PairingLife, NEW p \in Pairings, NEW c \in ConnectorKeys, NEW n \in Names,
           BeginPairing(p, c, n)
    PROVE  Agreed!Offer(p)
<1> DEFINE Drops(q) == pairing[q].connector = c /\ Pending(q)
<1>1. pairing[p].state = "none" /\ pairing \in [Pairings -> Pairing] /\ c # NONE
  BY ConnectorsAssumption DEF BeginPairing, TypeOK
<1>2. /\ pairing[p].connector = NONE /\ pairing[p].user = NONE /\ pairing[p].reviewed = NONE
      /\ \A q \in Pairings : pairing[q].connector = c => pairing[q].state # "none"
  BY <1>1 DEF PairingLife, RowLife
<1>3. /\ pairing'[p].state = "pending" /\ pairing'[p].connector = c
      /\ pairing'[p].user = NONE /\ pairing'[p].reviewed = NONE
  BY DEF BeginPairing, NoPairing
<1>4. ASSUME NEW q \in Pairings \ {p}
      PROVE  /\ pairing'[q].connector = pairing[q].connector
             /\ pairing'[q].user = pairing[q].user /\ pairing'[q].device = pairing[q].device
             /\ pairing'[q].reviewed = pairing[q].reviewed
             /\ Over(pairing'[q]) <=> Over(pairing[q]) \/ pairing[q].connector = c
  <2>0. pairing[q] \in Pairing
    BY <1>1
  <2>1. CASE Drops(q)
    <3>1. pairing'[q] = [pairing[q] EXCEPT !.state = "expired"]
      BY <2>1 DEF BeginPairing
    <3> QED
      BY <2>0, <2>1, <3>1 DEF Over, Pairing
  <2>2. CASE ~Drops(q)
    <3>1. pairing'[q] = pairing[q]
      BY <2>2 DEF BeginPairing
    <3>2. pairing[q].connector = c => Over(pairing[q])
      BY <1>2, <2>0, <2>2 DEF Over, Pending, Pairing
    <3> QED
      BY <3>1, <3>2
  <2> QED
    BY <2>1, <2>2
<1>5. Offers' = [Offers EXCEPT ![p] = c] /\ Offers[p] = NONE
  BY <1>2, <1>3, <1>4 DEF Offers
<1>6. UNCHANGED <<Claims, ApprovedOnes>>
  BY <1>2, <1>3, <1>4 DEF Claims, ApprovedOnes
<1>7. Ended' = Ended \cup {q \in Pairings : Offers[q] = c}
  BY <1>1, <1>2, <1>3, <1>4 DEF Ended, Offers, Over
<1>8. UNCHANGED <<DeviceOwners, ConnectorOwners, Gone, LiveTrust, Admissions>>
  <2>1. UNCHANGED <<device, connector, trust, ticket>>
    BY DEF BeginPairing
  <2> QED
    BY <2>1, PartiesSeen, AdmissionsSeen, UnwrittenSeen
<1> QED
  BY <1>5, <1>6, <1>7, <1>8 DEF Agreed!Offer

LEMMA Claimed ==
    ASSUME TypeOK, PairingLife, NEW u \in Users, NEW p \in Pairings, NEW d \in DeviceKeys,
           ClaimPairing(u, p, d)
    PROVE  Agreed!Claim(p)
<1>0. /\ pairing \in [Pairings -> Pairing] /\ pairing[p] \in Pairing
      /\ device \in [DeviceKeys -> Device] /\ device[d] \in Device /\ u # NONE
  BY ConnectorsAssumption DEF TypeOK
<1>1. /\ pairing[p].state = "pending" /\ device[d].user \in {NONE, u} /\ ~device[d].revoked
  BY DEF ClaimPairing
<1>2. pairing[p].connector # NONE /\ pairing[p].user = NONE
  BY <1>1 DEF PairingLife, RowLife
<1>3. /\ \A q \in Pairings \ {p} : pairing'[q] = pairing[q]
      /\ pairing'[p] = [pairing[p] EXCEPT !.state = "verification", !.user = u, !.device = d]
  BY <1>0 DEF ClaimPairing
<1>4. /\ \A e \in DeviceKeys \ {d} : device'[e] = device[e]
      /\ device'[d] = [device[d] EXCEPT !.user = u]
  BY <1>0 DEF ClaimPairing
<1>5. UNCHANGED <<connector, trust, ticket>>
  BY DEF ClaimPairing
<1>6. UNCHANGED <<Offers, ApprovedOnes, Ended>>
  <2>1. /\ pairing'[p].connector = pairing[p].connector
        /\ pairing'[p].reviewed = pairing[p].reviewed
        /\ pairing'[p].state = "verification"
    BY <1>0, <1>3 DEF Pairing
  <2>2. UNCHANGED Offers
    BY <1>3, <2>1 DEF Offers
  <2>3. UNCHANGED ApprovedOnes
    BY <1>3, <2>1 DEF ApprovedOnes
  <2>4. UNCHANGED Ended
    BY <1>1, <1>3, <2>1 DEF Ended
  <2> QED
    BY <2>2, <2>3, <2>4
<1>7. Claims' = [Claims EXCEPT ![p] = <<u, d>>] /\ Claims[p] = NONE
  <2>1. pairing'[p].user = u /\ pairing'[p].device = d
    BY <1>0, <1>3 DEF Pairing
  <2> QED
    BY <1>0, <1>2, <1>3, <2>1 DEF Claims
<1>8. DeviceOwners' = [DeviceOwners EXCEPT ![d] = u] /\ DeviceOwners[d] \in {NONE, u}
  <2>1. device'[d].user = u
    BY <1>0, <1>4 DEF Device
  <2> QED
    BY <1>1, <1>4, <2>1 DEF DeviceOwners
<1>9. UNCHANGED <<ConnectorOwners, Gone, LiveTrust, Admissions>>
  <2>1. \A e \in DeviceKeys : device'[e].revoked = device[e].revoked
    BY <1>0, <1>4 DEF Device
  <2>2. UNCHANGED Gone
    BY <1>5, <2>1 DEF Gone
  <2> QED
    BY <1>5, <2>2 DEF ConnectorOwners, LiveTrust, Admissions
<1>10. Offers[p] # NONE /\ p \notin Ended /\ <<"client", d>> \notin Gone
  BY <1>1, <1>2, GoneIs DEF Offers, Ended
<1> QED
  BY <1>6, <1>7, <1>8, <1>9, <1>10 DEF Agreed!Claim

LEMMA Approves ==
    ASSUME TypeOK, PairingLife, NEW p \in Pairings, NEW d \in DeviceKeys,
           ApprovePairing(p, d), ~ExpireLapsed(p)
    PROVE  Agreed!Approve(p)
<1>0. pairing \in [Pairings -> Pairing] /\ pairing[p] \in Pairing /\ d # NONE
  BY ConnectorsAssumption DEF TypeOK
<1>1. /\ pairing[p].state = "verification" /\ pairing[p].reviewed = NONE
      /\ pairing' = [pairing EXCEPT ![p] = [@ EXCEPT !.reviewed = d]]
      /\ UNCHANGED <<device, connector, trust, ticket>>
  BY DEF ApprovePairing
<1>2. pairing[p].user \in Users /\ pairing[p].device \in DeviceKeys /\ pairing[p].user # NONE
  BY <1>0, <1>1 DEF PairingLife, RowLife, Pairing
<1>3. /\ \A q \in Pairings \ {p} : pairing'[q] = pairing[q]
      /\ pairing'[p] = [pairing[p] EXCEPT !.reviewed = d]
  BY <1>0, <1>1
<1>4. UNCHANGED <<Offers, Claims, Ended>>
  <2>1. /\ pairing'[p].connector = pairing[p].connector
        /\ pairing'[p].user = pairing[p].user /\ pairing'[p].device = pairing[p].device
        /\ pairing'[p].state = pairing[p].state
    BY <1>0, <1>3 DEF Pairing
  <2> QED
    BY <1>3, <2>1 DEF Offers, Claims, Ended
<1>5. ApprovedOnes' = ApprovedOnes \cup {p}
  <2>1. pairing'[p].reviewed = d
    BY <1>0, <1>3 DEF Pairing
  <2> QED
    BY <1>0, <1>3, <2>1 DEF ApprovedOnes
<1>6. UNCHANGED <<DeviceOwners, ConnectorOwners, Gone, LiveTrust, Admissions>>
  BY <1>1, PartiesSeen, AdmissionsSeen, UnwrittenSeen
<1>7. Claims[p] = <<pairing[p].user, pairing[p].device>> /\ p \notin ApprovedOnes \cup Ended
  BY <1>1, <1>2 DEF Claims, ApprovedOnes, Ended
<1> QED
  BY <1>2, <1>4, <1>5, <1>6, <1>7 DEF Agreed!Approve

LEMMA Settled ==
    ASSUME TypeOK, PairingLife, NEW u \in Users, NEW p \in Pairings, NEW d \in DeviceKeys,
           NEW x \in Tokens, ConfirmPairing(u, p, d, x)
    PROVE  Agreed!Settle(p)
<1> DEFINE c == pairing[p].connector
<1>0. /\ pairing \in [Pairings -> Pairing] /\ pairing[p] \in Pairing
      /\ device \in [DeviceKeys -> Device] /\ device[d] \in Device
      /\ connector \in [ConnectorKeys -> Connector] /\ u # NONE
      /\ trust \subseteq Users \X DeviceKeys \X ConnectorKeys
  BY ConnectorsAssumption DEF TypeOK
<1>1. /\ pairing[p].state = "verification" /\ pairing[p].reviewed # NONE
      /\ pairing[p].user = u /\ pairing[p].device = d
      /\ ~device[d].revoked /\ connector[c].user \in {NONE, u} /\ ~connector[c].revoked
  BY DEF ConfirmPairing, Approved, DeviceConfirms, ConnectorConfirms
<1>2. c \in ConnectorKeys /\ connector[c] \in Connector
  BY <1>0, <1>1 DEF PairingLife, RowLife, Pairing
<1>3. /\ \A q \in Pairings \ {p} : pairing'[q] = pairing[q]
      /\ pairing'[p] = [pairing[p] EXCEPT !.state = "completed", !.seed = x]
  BY <1>0 DEF ConfirmPairing
<1>4. /\ \A e \in DeviceKeys \ {d} : device'[e] = device[e]
      /\ device'[d] = [device[d] EXCEPT !.credential = x, !.lapsed = FALSE]
  BY <1>0 DEF ConfirmPairing
<1>5. /\ \A k \in ConnectorKeys \ {c} : connector'[k] = connector[k]
      /\ connector'[c] = Install(connector[c], u, p)
  BY <1>0, <1>2 DEF ConfirmPairing
<1>6. trust' = trust \cup {<<u, d, c>>} /\ UNCHANGED ticket
  BY DEF ConfirmPairing
<1>7. UNCHANGED <<Offers, Claims, ApprovedOnes>> /\ Ended' = Ended \cup {p}
  <2>1. /\ pairing'[p].connector = pairing[p].connector
        /\ pairing'[p].user = pairing[p].user /\ pairing'[p].device = pairing[p].device
        /\ pairing'[p].reviewed = pairing[p].reviewed
        /\ pairing'[p].state = "completed"
    BY <1>0, <1>3 DEF Pairing
  <2>2. UNCHANGED <<Offers, Claims, ApprovedOnes>>
    BY <1>3, <2>1 DEF Offers, Claims, ApprovedOnes
  <2>3. Ended' = Ended \cup {p}
    BY <1>3, <2>1 DEF Ended
  <2> QED
    BY <2>2, <2>3
<1>8. \A e \in DeviceKeys : PartySeenSame(device[e], device'[e])
  <2>1. device'[d].user = device[d].user /\ device'[d].revoked = device[d].revoked
    BY <1>0, <1>4 DEF Device
  <2> QED
    BY <1>4, <2>1 DEF PartySeenSame
<1>9. /\ connector'[c].user = u
      /\ \A k \in ConnectorKeys : connector'[k].revoked = connector[k].revoked
  <2>1. connector'[c].user = u /\ connector'[c].revoked = connector[c].revoked
    BY <1>1, <1>2, <1>5 DEF Install, Connector
  <2> QED
    BY <1>5, <2>1
<1>10. UNCHANGED <<DeviceOwners, Gone, Admissions>>
  <2>1. UNCHANGED DeviceOwners
    BY <1>8 DEF DeviceOwners, PartySeenSame
  <2>2. UNCHANGED Gone
    BY <1>8, <1>9 DEF Gone, PartySeenSame
  <2> QED
    BY <1>6, <2>1, <2>2 DEF Admissions
<1>11. ConnectorOwners' = [ConnectorOwners EXCEPT ![c] = u]
  BY <1>2, <1>5, <1>9 DEF ConnectorOwners
<1>12. LiveTrust' = LiveTrust \cup {<<u, d, c>>}
  BY <1>0, <1>1, <1>2, <1>6, <1>9 DEF LiveTrust
<1>13. /\ p \in ApprovedOnes /\ p \notin Ended
       /\ Claims[p] = <<u, d>> /\ Offers[p] = c
       /\ ConnectorOwners[c] \in {NONE, u}
  BY <1>0, <1>1, <1>2 DEF ApprovedOnes, Ended, Claims, Offers, ConnectorOwners
<1>14. <<"client", d>> \notin Gone /\ <<"connector", c>> \notin Gone
  BY <1>1, <1>2, GoneIs
<1>15. Claims[p][1] = u /\ Claims[p][2] = d
  BY <1>13
<1> HIDE DEF c
<1> QED
  BY <1>7, <1>10, <1>11, <1>12, <1>13, <1>14, <1>15 DEF Agreed!Settle

\* A device leaves with all its trust, for its trust is all its account's.
LEMMA DeviceGoes ==
    ASSUME TypeOK, AccountIsolation, NEW u \in Users, NEW d \in DeviceKeys,
           RevokeAccountDevice(u, d)
    PROVE  Agreed!DeviceLeaves(d)
<1>0. device \in [DeviceKeys -> Device] /\ device[d] \in Device
  BY DEF TypeOK
<1>1. /\ device[d].user = u /\ ~device[d].revoked
      /\ trust' = {e \in trust : ~(e[1] = u /\ e[2] = d)}
      /\ UNCHANGED <<pairing, connector, ticket>>
  BY DEF RevokeAccountDevice
<1>2. /\ \A e \in DeviceKeys \ {d} : device'[e] = device[e]
      /\ device'[d] = [CancelRotation(device[d]) EXCEPT !.revoked = TRUE]
  BY <1>0 DEF RevokeAccountDevice
<1>3. device'[d].user = device[d].user /\ device'[d].revoked
  BY <1>0, <1>2 DEF CancelRotation, Device
<1>4. UNCHANGED <<Offers, Claims, ApprovedOnes, Ended, ConnectorOwners, Admissions>>
  BY <1>1 DEF Offers, Claims, ApprovedOnes, Ended, ConnectorOwners, Admissions
<1>5. UNCHANGED DeviceOwners
  BY <1>2, <1>3 DEF DeviceOwners
<1>6. Gone' = Gone \cup {<<"client", d>>}
  BY <1>1, <1>2, <1>3 DEF Gone
<1>7. LiveTrust' = {e \in LiveTrust : e[2] # d}
  <2>1. \A e \in trust : e[2] = d => e[1] = u
    BY <1>1 DEF AccountIsolation
  <2> QED
    BY <1>1, <2>1 DEF LiveTrust
<1>8. <<"client", d>> \notin Gone
  BY <1>1, GoneIs
<1> QED
  BY <1>4, <1>5, <1>6, <1>7, <1>8 DEF Agreed!DeviceLeaves

LEMMA ConnectorGoes ==
    ASSUME TypeOK, NEW c \in ConnectorKeys,
           RevokeConnector(c) \/ \E u \in Users : RevokeAccountConnector(u, c)
    PROVE  Agreed!ConnectorLeaves(c)
<1>0. /\ connector \in [ConnectorKeys -> Connector] /\ connector[c] \in Connector
      /\ trust \subseteq Users \X DeviceKeys \X ConnectorKeys
  BY DEF TypeOK
<1>1. /\ ~connector[c].revoked
      /\ connector' = [connector EXCEPT ![c].revoked = TRUE]
      /\ UNCHANGED <<pairing, device, trust, ticket>>
  BY DEF RevokeConnector, RevokeAccountConnector
<1>2. /\ \A k \in ConnectorKeys \ {c} : connector'[k] = connector[k]
      /\ connector'[c].user = connector[c].user /\ connector'[c].revoked
  BY <1>0, <1>1 DEF Connector
<1>3. UNCHANGED <<Offers, Claims, ApprovedOnes, Ended, DeviceOwners, Admissions>>
  BY <1>1 DEF Offers, Claims, ApprovedOnes, Ended, DeviceOwners, Admissions
<1>4. UNCHANGED ConnectorOwners
  BY <1>2 DEF ConnectorOwners
<1>5. Gone' = Gone \cup {<<"connector", c>>}
  BY <1>1, <1>2 DEF Gone
<1>6. LiveTrust' = {e \in LiveTrust : e[3] # c}
  BY <1>0, <1>1, <1>2 DEF LiveTrust
<1>7. <<"connector", c>> \notin Gone
  BY <1>1, GoneIs
<1> QED
  BY <1>3, <1>4, <1>5, <1>6, <1>7 DEF Agreed!ConnectorLeaves

\* The partners an admission lists are those the agreement names: a device's
\* edges are its account's, and trust with whoever is revoked does not count.
LEMMA Admits ==
    ASSUME TypeOK, AccountIsolation, RevokedDeviceHoldsNothing,
           NEW t \in Tickets, ConsumeRelayTicket(t)
    PROVE  \/ \E d \in DeviceKeys : Agreed!AdmitDevice(t, d)
           \/ \E c \in ConnectorKeys : Agreed!AdmitConnector(t, c)
<1> DEFINE r == ticket[t]
           L == TrustedIdentities(r.user, r.role, r.subject)
<1>0. /\ ticket \in [Tickets -> Ticket] /\ r \in Ticket
      /\ trust \subseteq Users \X DeviceKeys \X ConnectorKeys
  BY DEF TypeOK
<1>1. /\ ~r.consumed /\ SubjectStands(t) /\ r.user # NONE
      /\ ticket' = [ticket EXCEPT ![t] = [@ EXCEPT !.consumed = TRUE, !.trusted = L]]
      /\ UNCHANGED <<pairing, device, connector, trust>>
  <2>1. r.user # NONE
    BY ConnectorsAssumption DEF ConsumeRelayTicket, TypeOK
  <2> QED
    BY <2>1 DEF ConsumeRelayTicket
<1>2. /\ \A x \in Tickets \ {t} : ticket'[x] = ticket[x]
      /\ ticket'[t] = [r EXCEPT !.consumed = TRUE, !.trusted = L]
  BY <1>0, <1>1
<1>3. ticket'[t].consumed /\ ticket'[t].role = r.role /\ ticket'[t].subject = r.subject
      /\ ticket'[t].trusted = L
  BY <1>0, <1>2 DEF Ticket
<1>4. Admissions[t] = NONE /\ Admissions' = [Admissions EXCEPT ![t] = <<r.role, r.subject, L>>]
  <2>1. \A x \in Tickets \ {t} : ticket'[x] = ticket[x]
    BY <1>2
  <2>2. Admissions[t] = NONE
    BY <1>1 DEF Admissions
  <2>3. Admissions' = [x \in Tickets |-> IF x = t THEN <<r.role, r.subject, L>> ELSE Admissions[x]]
    <3> HIDE DEF L
    <3> QED
      BY <1>3, <2>1 DEF Admissions
  <2> QED
    BY <2>2, <2>3 DEF Admissions
<1>5. UNCHANGED <<Offers, Claims, ApprovedOnes, Ended, DeviceOwners, ConnectorOwners, Gone,
                  LiveTrust>>
  <2>1. UNCHANGED <<Offers, Claims, ApprovedOnes, Ended>>
    BY <1>1, PairingsSeen, UnwrittenSeen
  <2> QED
    BY <1>1, <2>1, PartiesSeen, UnwrittenSeen
<1>6. ASSUME NEW d \in DeviceKeys, r.role = "client", r.subject = d,
             device[d].user = r.user, ~device[d].revoked
      PROVE  Agreed!AdmitDevice(t, d)
  <2>1. L = {c \in ConnectorKeys : <<DeviceOwners[d], d, c>> \in LiveTrust}
    <3>1. \A c \in ConnectorKeys : <<r.user, d, c>> \in trust => connector[c].user = r.user
      BY DEF AccountIsolation
    <3> QED
      BY <1>6, <3>1 DEF TrustedIdentities, LiveTrust, DeviceOwners
  <2>2. DeviceOwners[d] # NONE /\ <<"client", d>> \notin Gone
    BY <1>1, <1>6, GoneIs DEF DeviceOwners
  <2> HIDE DEF L
  <2> QED
    BY <1>4, <1>5, <1>6, <2>1, <2>2 DEF Agreed!AdmitDevice
<1>7. ASSUME NEW c \in ConnectorKeys, r.role = "connector", r.subject = c,
             connector[c].user = r.user, ~connector[c].revoked
      PROVE  Agreed!AdmitConnector(t, c)
  <2>1. L = {d \in DeviceKeys : <<ConnectorOwners[c], d, c>> \in LiveTrust}
    <3>1. \A d \in DeviceKeys : <<r.user, d, c>> \in trust =>
             device[d].user = r.user /\ ~device[d].revoked
      BY DEF AccountIsolation, RevokedDeviceHoldsNothing
    <3> QED
      BY <1>7, <3>1 DEF TrustedIdentities, LiveTrust, ConnectorOwners
  <2>2. ConnectorOwners[c] # NONE /\ <<"connector", c>> \notin Gone
    BY <1>1, <1>7, GoneIs DEF ConnectorOwners
  <2> HIDE DEF L
  <2> QED
    BY <1>4, <1>5, <1>7, <2>1, <2>2 DEF Agreed!AdmitConnector
<1> QED
  BY <1>1, <1>6, <1>7 DEF SubjectStands

\* A ticket is issued to an account before it is traded.
TradedHaveUser == \A t \in Tickets : ticket[t].consumed => ticket[t].user # NONE

LEMMA TradedStep ==
    ASSUME TypeOK, TradedHaveUser, [Next]_vars PROVE TradedHaveUser'
<1> SUFFICES ASSUME NEW t \in Tickets, ticket'[t].consumed PROVE ticket'[t].user # NONE
  BY DEF TradedHaveUser
<1>0. ticket[t] \in Ticket /\ (ticket[t].consumed => ticket[t].user # NONE)
  BY DEF TypeOK, TradedHaveUser
<1>1. CASE LapsesNow(t)
  BY <1>0, <1>1 DEF LapsesNow, Ticket
<1>2. CASE Traded(t)
  <2>1. ticket[t].user # NONE
    BY <1>2, ConnectorsAssumption DEF Traded, ConsumeRelayTicket, TypeOK
  <2> QED
    BY <1>2, <2>1 DEF Traded, TicketKeeps
<1> QED
  BY <1>0, <1>1, <1>2, TicketMoves DEF Bought

\* Lapsing a ticket or issuing one is not seen.
LEMMA TicketsLapseUnseen ==
    ASSUME TypeOK, NEW role, NEW k, ticket' = LapseTicketsOf(role, k) PROVE AdmissionsSeenSame
  BY DEF LapseTicketsOf, AdmissionsSeenSame, AdmissionSeenSame, TypeOK, Ticket

Agrees == [Agreed!Next]_(Agreed!agreementVars)

LEMMA PairingAgrees ==
    ASSUME NEW p \in Pairings,
           Agreed!Offer(p) \/ Agreed!Claim(p) \/ Agreed!Approve(p) \/ Agreed!Settle(p)
           \/ Agreed!Close(p)
    PROVE  Agrees
  BY DEF Agrees, Agreed!Next

LEMMA CeremonyAgrees == TypeOK /\ PairingLife /\ Ceremony => Agrees
<1> SUFFICES ASSUME TypeOK, PairingLife, Ceremony PROVE Agrees
  OBVIOUS
<1>0. UNCHANGED <<pairing, device, connector, trust, ticket>> => Agrees
  BY AgreementStands, UnwrittenSeen DEF Agrees
<1>1. ASSUME NEW p \in Pairings, NEW c \in ConnectorKeys, NEW n \in Names, BeginPairing(p, c, n)
      PROVE  Agrees
  BY <1>1, Offered, PairingAgrees
<1>2. ASSUME NEW u \in Users, NEW p \in Pairings, NEW d \in DeviceKeys, ClaimPairing(u, p, d)
      PROVE  Agrees
  BY <1>2, Claimed, PairingAgrees
<1>3. ASSUME NEW u \in Users, NEW p \in Pairings, ClaimLapsedPairing(u, p) PROVE Agrees
  <2>1. /\ pairing[p].state # "none"
        /\ pairing' = [pairing EXCEPT ![p].state = "expired"]
        /\ UNCHANGED <<device, connector, trust, ticket>>
    BY <1>3 DEF ClaimLapsedPairing
  <2>2. CASE ~Over(pairing[p])
    BY <2>1, <2>2, Closes, PairingAgrees
  <2>3. CASE Over(pairing[p])
    <3>1. PairingsSeenSame
      BY <2>1, <2>3 DEF PairingsSeenSame, PairingSeenSame, Over, TypeOK, Pairing
    <3> QED
      BY <2>1, <3>1, AgreementStands, UnwrittenSeen DEF Agrees
  <2> QED
    BY <2>2, <2>3
<1>4. ASSUME NEW p \in Pairings, ExpireLapsed(p) \/ CancelPairing(p) PROVE Agrees
  <2>1. /\ Pending(p)
        /\ pairing' = [pairing EXCEPT ![p].state = "expired"]
        /\ UNCHANGED <<device, connector, trust, ticket>>
    BY <1>4 DEF ExpireLapsed, CancelPairing
  <2> QED
    BY <2>1, Closes, PairingAgrees DEF Pending, Over
<1>5. ASSUME NEW p \in Pairings, NEW d \in DeviceKeys, ApprovePairing(p, d) PROVE Agrees
  BY <1>4, <1>5, Approves, PairingAgrees
<1>6. ASSUME NEW u \in Users, NEW p \in Pairings, NEW d \in DeviceKeys, NEW x \in Tokens,
             ConfirmPairing(u, p, d, x)
      PROVE  Agrees
  BY <1>6, Settled, PairingAgrees
<1>7. ASSUME NEW who \in Users \cup {NONE}, IssueChallenge(who) PROVE Agrees
  BY <1>0, <1>7 DEF IssueChallenge
<1>8. ASSUME NEW u \in Users, ClaimWrongCode(u) PROVE Agrees
  BY <1>0, <1>8 DEF ClaimWrongCode
<1> QED
  BY <1>1, <1>2, <1>3, <1>4, <1>5, <1>6, <1>7, <1>8 DEF Ceremony, PollPairing

\* A rotation is the credentials' business.
LEMMA RotationUnseen == TypeOK /\ Rotation => PartiesSeenSame
<1> SUFFICES ASSUME TypeOK, Rotation PROVE PartiesSeenSame
  OBVIOUS
<1>0. /\ device \in [DeviceKeys -> Device] /\ connector \in [ConnectorKeys -> Connector]
  BY DEF TypeOK
<1> USE DEF PartiesSeenSame, PartySeenSame
<1>1. ASSUME NEW s \in Sessions, NEW d \in DeviceKeys, NEW x \in Tokens,
             RotateDeviceCredential(s, d, x)
      PROVE  PartiesSeenSame
  BY <1>0, <1>1 DEF RotateDeviceCredential, StartRotation, Device
<1>2. ASSUME NEW s \in Sessions, NEW d \in DeviceKeys, ActivateDeviceCredential(s, d)
      PROVE  PartiesSeenSame
  BY <1>0, <1>2 DEF ActivateDeviceCredential, PromotePending, Device
<1>3. ASSUME NEW c \in ConnectorKeys, NEW x \in Tokens, RotateConnectorCredential(c, x)
      PROVE  PartiesSeenSame
  BY <1>0, <1>3 DEF RotateConnectorCredential, StartRotation, Connector
<1>4. ASSUME NEW c \in ConnectorKeys, ActivateConnectorCredential(c) PROVE PartiesSeenSame
  BY <1>0, <1>4 DEF ActivateConnectorCredential, PromotePending, Connector
<1> QED
  BY <1>1, <1>2, <1>3, <1>4 DEF Rotation

LEMMA RotationAgrees == TypeOK /\ Rotation => Agrees
<1>1. Rotation => UNCHANGED <<pairing, trust, ticket>>
  BY DEF Rotation, RotateDeviceCredential, ActivateDeviceCredential,
     RotateConnectorCredential, ActivateConnectorCredential
<1> QED
  BY <1>1, RotationUnseen, AgreementStands, UnwrittenSeen DEF Agrees

LEMMA TicketingAgrees ==
    IInv /\ TradedHaveUser /\ Ticketing => Agrees
<1> SUFFICES ASSUME IInv, TradedHaveUser, Ticketing PROVE Agrees
  OBVIOUS
<1>0. /\ TypeOK /\ ticket \in [Tickets -> Ticket]
      /\ device \in [DeviceKeys -> Device] /\ connector \in [ConnectorKeys -> Connector]
  BY DEF IInv, TypeOK
<1>a. \A t \in Tickets : ticket[t].consumed \in BOOLEAN
  BY <1>0 DEF Ticket
<1>1. ASSUME NEW s \in Sessions, NEW d \in DeviceKeys, NEW t \in Tickets,
             IssueBrowserTicket(s, d, t)
      PROVE  Agrees
  <2>1. PartiesSeenSame
    BY <1>0, <1>1 DEF IssueBrowserTicket, CancelRotation, Device, PartiesSeenSame, PartySeenSame
  <2>2. ~ticket[t].consumed
    BY <1>1 DEF IssueBrowserTicket, TradedHaveUser
  <2>3. ticket'[t].consumed = FALSE /\ \A x \in Tickets \ {t} : ticket'[x] = ticket[x]
    BY <1>0, <1>1 DEF IssueBrowserTicket, NoTicket
  <2>4. AdmissionsSeenSame
    BY <2>2, <2>3, <1>a DEF AdmissionsSeenSame, AdmissionSeenSame
  <2>5. UNCHANGED <<pairing, trust>>
    BY <1>1 DEF IssueBrowserTicket
  <2> QED
    BY <1>0, <2>1, <2>4, <2>5, AgreementStands, UnwrittenSeen DEF Agrees
<1>2. ASSUME NEW c \in ConnectorKeys, NEW t \in Tickets, IssueConnectorTicket(c, t)
      PROVE  Agrees
  <2>1. PartiesSeenSame
    BY <1>0, <1>2 DEF IssueConnectorTicket, CancelRotation, Connector, PartiesSeenSame,
       PartySeenSame
  <2>2. ~ticket[t].consumed
    BY <1>2 DEF IssueConnectorTicket, TradedHaveUser
  <2>3. ticket'[t].consumed = FALSE /\ \A x \in Tickets \ {t} : ticket'[x] = ticket[x]
    BY <1>0, <1>2 DEF IssueConnectorTicket, NoTicket
  <2>4. AdmissionsSeenSame
    BY <2>2, <2>3, <1>a DEF AdmissionsSeenSame, AdmissionSeenSame
  <2>5. UNCHANGED <<pairing, trust>>
    BY <1>2 DEF IssueConnectorTicket
  <2> QED
    BY <1>0, <2>1, <2>4, <2>5, AgreementStands, UnwrittenSeen DEF Agrees
<1>3. ASSUME NEW t \in Tickets, ConsumeRelayTicket(t) PROVE Agrees
  BY <1>3, Admits DEF IInv, Agrees, Agreed!Next
<1> QED
  BY <1>1, <1>2, <1>3 DEF Ticketing

LEMMA ManagementAgrees == IInv /\ Management => Agrees
<1> SUFFICES ASSUME IInv, Management PROVE Agrees
  OBVIOUS
<1>1. ASSUME NEW c \in ConnectorKeys,
             RevokeConnector(c) \/ \E u \in Users : RevokeAccountConnector(u, c)
      PROVE  Agrees
  BY <1>1, ConnectorGoes DEF IInv, Agrees, Agreed!Next
<1>2. ASSUME NEW u \in Users, NEW d \in DeviceKeys, RevokeAccountDevice(u, d) PROVE Agrees
  BY <1>2, DeviceGoes DEF IInv, Agrees, Agreed!Next
<1>3. ASSUME NEW u \in Users, NEW c \in ConnectorKeys, NEW n \in Names,
             RenameAccountConnector(u, c, n)
      PROVE  Agrees
  <2>1. PartiesSeenSame
    BY <1>3 DEF RenameAccountConnector, PartiesSeenSame, PartySeenSame, IInv, TypeOK, Connector
  <2>2. UNCHANGED <<pairing, trust, ticket>>
    BY <1>3 DEF RenameAccountConnector
  <2> QED
    BY <2>1, <2>2, AgreementStands, UnwrittenSeen DEF IInv, Agrees
<1> QED
  BY <1>1, <1>2, <1>3 DEF Management

LEMMA EnvironmentAgrees == TypeOK /\ Environment => Agrees
<1> SUFFICES ASSUME TypeOK, Environment PROVE Agrees
  OBVIOUS
<1>1. Environment => UNCHANGED trust
  BY DEF Environment, LapseChallenge, FailureLeavesWindow, LapsePairing,
     LapseDeviceCredential, LapseDeviceRotation, LapseConnectorCredential,
     LapseConnectorRotation, LapseTicket, DisableAccount, EndSession, ResumeSession
<1>2. PairingsSeenSame
  <2>1. ASSUME NEW p \in Pairings, LapsePairing(p) PROVE PairingsSeenSame
    BY <2>1 DEF LapsePairing, PairingsSeenSame, PairingSeenSame, Over, TypeOK, Pairing
  <2> QED
    BY <2>1, TimeLapsesPairings, UnwrittenSeen
<1>3. PartiesSeenSame
  <2> USE DEF PartiesSeenSame, PartySeenSame
  <2>1. Environment => \/ UNCHANGED <<device, connector>>
                       \/ \E d \in DeviceKeys : LapseDeviceCredential(d) \/ LapseDeviceRotation(d)
                       \/ \E c \in ConnectorKeys :
                             LapseConnectorCredential(c) \/ LapseConnectorRotation(c)
    BY DEF Environment, LapseChallenge, FailureLeavesWindow, LapsePairing,
       LapseTicket, DisableAccount, EndSession, ResumeSession
  <2>2. ASSUME NEW d \in DeviceKeys, LapseDeviceCredential(d) \/ LapseDeviceRotation(d)
        PROVE  PartiesSeenSame
    <3>1. CASE LapseDeviceCredential(d)
      BY <3>1 DEF LapseDeviceCredential, TypeOK, Device
    <3>2. CASE LapseDeviceRotation(d)
      BY <3>2 DEF LapseDeviceRotation, TypeOK, Device
    <3> QED
      BY <2>2, <3>1, <3>2
  <2>3. ASSUME NEW c \in ConnectorKeys, LapseConnectorCredential(c) \/ LapseConnectorRotation(c)
        PROVE  PartiesSeenSame
    <3>1. CASE LapseConnectorCredential(c)
      BY <3>1 DEF LapseConnectorCredential, TypeOK, Connector
    <3>2. CASE LapseConnectorRotation(c)
      BY <3>2 DEF LapseConnectorRotation, TypeOK, Connector
    <3> QED
      BY <2>3, <3>1, <3>2
  <2> QED
    BY <2>1, <2>2, <2>3, UnwrittenSeen
<1>4. AdmissionsSeenSame
  <2>1. Environment => \/ UNCHANGED ticket
                       \/ \E d \in DeviceKeys : ticket' = LapseTicketsOf("client", d)
                       \/ \E c \in ConnectorKeys : ticket' = LapseTicketsOf("connector", c)
                       \/ \E x \in Tickets : LapseTicket(x)
    BY DEF Environment, LapseChallenge, FailureLeavesWindow, LapsePairing,
       LapseDeviceCredential, LapseDeviceRotation, LapseConnectorCredential,
       LapseConnectorRotation, DisableAccount, EndSession, ResumeSession
  <2>2. ASSUME NEW x \in Tickets, LapseTicket(x) PROVE AdmissionsSeenSame
    BY <2>2 DEF LapseTicket, AdmissionsSeenSame, AdmissionSeenSame, TypeOK, Ticket
  <2> QED
    BY <2>1, <2>2, TicketsLapseUnseen, UnwrittenSeen
<1> QED
  BY <1>1, <1>2, <1>3, <1>4, AgreementStands DEF Agrees

\* Every commit of the service is a step of the agreement, or none.
LEMMA AgreementStep == IInv /\ TradedHaveUser /\ [Next]_vars => Agrees
<1>1. ASSUME IInv, UNCHANGED vars PROVE Agrees
  BY <1>1, AgreementStands, UnwrittenSeen DEF IInv, vars, Agrees
<1> QED
  BY <1>1, CeremonyAgrees, RotationAgrees, TicketingAgrees, ManagementAgrees,
     EnvironmentAgrees DEF IInv, Next

LEMMA AgreementInit == Init => Agreed!Init /\ TradedHaveUser
<1> SUFFICES ASSUME Init PROVE Agreed!Init /\ TradedHaveUser
  OBVIOUS
<1>1. TradedHaveUser /\ Admissions = [t \in Tickets |-> NONE]
  BY DEF Init, NoTicket, TradedHaveUser, Admissions
<1>2. /\ Offers = [p \in Pairings |-> NONE] /\ Claims = [p \in Pairings |-> NONE]
      /\ ApprovedOnes = {} /\ Ended = {}
  BY DEF Init, NoPairing, Offers, Claims, ApprovedOnes, Ended
<1>3. /\ DeviceOwners = [d \in DeviceKeys |-> NONE]
      /\ ConnectorOwners = [c \in ConnectorKeys |-> NONE]
      /\ Gone = {} /\ LiveTrust = {}
  BY DEF Init, NoDevice, NoConnector, DeviceOwners, ConnectorOwners, Gone, LiveTrust
<1> QED
  BY <1>1, <1>2, <1>3 DEF Agreed!Init

\* The tables keep the agreement: whatever ceremonies, rotations, revocations,
\* lapses and tickets run, each commit makes an offer, a claim, an approval,
\* trust, an end, a departure or an admission of the agreement, or none of them.
THEOREM Refinement == Spec => AgreementSpec
<1>1. IInv /\ TradedHaveUser /\ [Next]_vars => [Agreed!Next]_(Agreed!agreementVars)
  BY AgreementStep DEF Agrees
<1>2. IInv /\ TradedHaveUser /\ [Next]_vars => TradedHaveUser'
  BY TradedStep DEF IInv
<1> QED
  BY <1>1, <1>2, AgreementInit, Invariance, PTL DEF Spec, AgreementSpec, Agreed!Spec
===============================================================================
