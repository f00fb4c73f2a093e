------------------------------ MODULE Connectors ------------------------------
(***************************************************************************)
(* The connectors service: the pairing ceremony that binds a phone (a      *)
(* "device") to an OpenCode instance (a "connector"), the two credentials  *)
(* it installs, their rotation, the relay tickets they buy and the         *)
(* revocations that end them (src/internal/connectors).                    *)
(*                                                                         *)
(* Every operation of the service runs in one database transaction that    *)
(* locks the rows it reads FOR UPDATE, so each is one action here.  A      *)
(* request that is refused rolls its transaction back: it is no step at    *)
(* all, unless the code commits something on the way (an expired pairing,  *)
(* a spent challenge), and then it is an action of its own.                *)
(*                                                                         *)
(* Rows are never deleted and a key ID is unique among devices and among   *)
(* connectors, so a device or a connector is named by its key.  Secrets    *)
(* are the values they are drawn as; hashing loses nothing the code        *)
(* compares.  The connector credential a pairing issues is derived from    *)
(* that pairing's secret alone, so it is written as the pairing itself;    *)
(* every other credential is a fresh draw.                                 *)
(*                                                                         *)
(* Time passes through the Lapse actions: an expiry timestamp is the flag  *)
(* "lapsed", raised once, by the environment, when its deadline passes.    *)
(***************************************************************************)
EXTENDS Naturals, FiniteSets, FiniteSetsExt

CONSTANTS
    Users,          \* accounts of the identity module
    Sessions,       \* account sessions
    SessionOwner,   \* the account of each session
    DeviceKeys,     \* key IDs of client devices
    ConnectorKeys,  \* key IDs of OpenCode instances
    Pairings,       \* pairings that may be begun; each stands for its secret too
    Tokens,         \* random values that may be drawn for credentials
    Tickets,        \* relay tickets that may be issued
    Names,          \* connector names
    AccountLimit,   \* defaultAccountClaimFailureLimit
    GlobalLimit,    \* defaultGlobalClaimFailureLimit
    MaxChallenges,  \* bound: unspent challenges held at once
    MaxFailures,    \* bound: wrong codes recorded at once
    NONE            \* a nil pointer, an absent row

ASSUME ConnectorsAssumption ==
    /\ SessionOwner \in [Sessions -> Users]
    /\ Pairings \cap Tokens = {}
    /\ NONE \notin UNION {Users, Sessions, DeviceKeys, ConnectorKeys,
                          Pairings, Tokens, Tickets, Names}

VARIABLES
    pairing,    \* rows of connector_pairings, by pairing
    device,     \* rows of devices, by key
    connector,  \* rows of connectors, by key
    trust,      \* live rows of connector_trust: <<user, device, connector>>
    ticket,     \* rows of relay_tickets and the admission each was traded for
    challenge,  \* usable challenges, by account; those for connectors under NONE
    failures,   \* incorrect codes in the hour and in the minute window, by account
    drawn,      \* random values drawn so far
    active,     \* accounts that are active (identity module)
    live        \* sessions with an access token in force (AuthorizeSession of identity)

vars == <<pairing, device, connector, trust, ticket, challenge, failures,
          drawn, active, live>>
-------------------------------------------------------------------------------
(* Rows.                                                                   *)

ConnectorCredentials == Pairings \cup Tokens

Pairing == [state     : {"none", "pending", "verification", "completed", "expired"},
            connector : ConnectorKeys \cup {NONE},
            name      : Names \cup {NONE},
            user      : Users \cup {NONE},
            device    : DeviceKeys \cup {NONE},
            reviewed  : DeviceKeys \cup {NONE},  \* the key ConnectorReviewedAt approved
            seed      : Tokens \cup {NONE},
            lapsed    : BOOLEAN]

Device == [user          : Users \cup {NONE},
           credential    : Tokens \cup {NONE},
           lapsed        : BOOLEAN,
           pending       : Tokens \cup {NONE},
           pendingLapsed : BOOLEAN,
           revoked       : BOOLEAN]

Connector == [user          : Users \cup {NONE},
              name          : Names \cup {NONE},
              credential    : ConnectorCredentials \cup {NONE},
              lapsed        : BOOLEAN,
              pending       : Tokens \cup {NONE},
              pendingLapsed : BOOLEAN,
              revoked       : BOOLEAN]

Ticket == [role     : {"client", "connector"},
           user     : Users \cup {NONE},
           subject  : DeviceKeys \cup ConnectorKeys \cup {NONE},
           session  : Sessions \cup {NONE},
           lapsed   : BOOLEAN,
           consumed : BOOLEAN,
           trusted  : SUBSET (DeviceKeys \cup ConnectorKeys)]

NoPairing == [state |-> "none", connector |-> NONE, name |-> NONE, user |-> NONE,
              device |-> NONE, reviewed |-> NONE, seed |-> NONE, lapsed |-> FALSE]

NoDevice == [user |-> NONE, credential |-> NONE, lapsed |-> FALSE, pending |-> NONE,
             pendingLapsed |-> FALSE, revoked |-> FALSE]

NoConnector == [user |-> NONE, name |-> NONE, credential |-> NONE, lapsed |-> FALSE,
                pending |-> NONE, pendingLapsed |-> FALSE, revoked |-> FALSE]

NoTicket == [role |-> "client", user |-> NONE, subject |-> NONE, session |-> NONE,
             lapsed |-> FALSE, consumed |-> FALSE, trusted |-> {}]

Init ==
    /\ pairing = [p \in Pairings |-> NoPairing]
    /\ device = [d \in DeviceKeys |-> NoDevice]
    /\ connector = [c \in ConnectorKeys |-> NoConnector]
    /\ trust = {}
    /\ ticket = [t \in Tickets |-> NoTicket]
    /\ challenge = [u \in Users \cup {NONE} |-> 0]
    /\ failures = [u \in Users |-> [hour |-> 0, minute |-> 0]]
    /\ drawn = {}
    /\ active = Users
    /\ live = Sessions
-------------------------------------------------------------------------------
(* Challenges and the budget of incorrect codes.                           *)

Challenges == MapThenSumSet(LAMBDA who : challenge[who], Users \cup {NONE})

\* A challenge is issued: to anyone for a connector (who = NONE), to an
\* account for its device.
IssueChallenge(who) ==
    /\ Challenges < MaxChallenges
    /\ challenge' = [challenge EXCEPT ![who] = @ + 1]
    /\ UNCHANGED <<pairing, device, connector, trust, ticket, failures, drawn,
                   active, live>>

\* A challenge is good for one proof: whoever uses it spends it.  (The mutant,
\* here and below, is a mistake the properties must notice; nothing uses it.)
MutantSpendAgain(who) == challenge' = [challenge EXCEPT ![who] = @ - 1]

SpendChallenge(who) ==
    /\ challenge[who] > 0
    /\ challenge' = [challenge EXCEPT ![who] = @ - 1]

GlobalFailures == MapThenSumSet(LAMBDA u : failures[u].minute, Users)
AllFailures == MapThenSumSet(LAMBDA u : failures[u].hour, Users)

\* Both budgets of incorrect codes still have room for this account.
WithinClaimCaps(u) ==
    /\ failures[u].hour < AccountLimit
    /\ GlobalFailures < GlobalLimit

\* A random value is drawn for a credential.
MutantDeriveAgain(x) == drawn' = drawn \cup {x}

Draw(x) ==
    /\ x \notin drawn
    /\ drawn' = drawn \cup {x}

\* What every claim does before it looks its code up.
StartClaim(u) ==
    /\ u \in active
    /\ WithinClaimCaps(u)
    /\ SpendChallenge(u)
-------------------------------------------------------------------------------
(* The pairing ceremony.                                                   *)

Pending(p) == pairing[p].state \in {"pending", "verification"}

\* A connector opens a pairing.  Lapsed pairings of the same key are expired
\* on the way; a live one makes the insertion fail on its unique index.
BeginPairing(p, c, n) ==
    /\ pairing[p].state = "none"
    /\ SpendChallenge(NONE)
    /\ \A q \in Pairings :
          pairing[q].connector = c /\ Pending(q) => pairing[q].lapsed
    /\ pairing' = [q \in Pairings |->
                     IF q = p
                     THEN [NoPairing EXCEPT !.state = "pending",
                                            !.connector = c, !.name = n]
                     ELSE IF pairing[q].connector = c /\ Pending(q)
                     THEN [pairing[q] EXCEPT !.state = "expired"]
                     ELSE pairing[q]]
    /\ UNCHANGED <<device, connector, trust, ticket, failures, drawn, active, live>>

MutantReclaimPairing(u, p, d) ==
    /\ StartClaim(u)
    /\ Pending(p)
    /\ ~pairing[p].lapsed
    /\ device[d].user \in {NONE, u}
    /\ ~device[d].revoked
    /\ device' = [device EXCEPT ![d].user = u]
    /\ pairing' = [pairing EXCEPT
                     ![p] = [@ EXCEPT !.state = "verification", !.user = u, !.device = d]]
    /\ UNCHANGED <<connector, trust, ticket, failures, drawn, active, live>>

\* An account presents the right code of a pending pairing with a proof of
\* its device key.  An unknown key gets a device row; a known one must belong
\* to the account and be unrevoked.
ClaimPairing(u, p, d) ==
    /\ StartClaim(u)
    /\ pairing[p].state = "pending"
    /\ ~pairing[p].lapsed
    /\ device[d].user \in {NONE, u}
    /\ ~device[d].revoked
    /\ device' = [device EXCEPT ![d].user = u]
    /\ pairing' = [pairing EXCEPT
                     ![p] = [@ EXCEPT !.state = "verification", !.user = u, !.device = d]]
    /\ UNCHANGED <<connector, trust, ticket, failures, drawn, active, live>>

\* The code is right but its pairing has lapsed, in whatever state.
ClaimLapsedPairing(u, p) ==
    /\ StartClaim(u)
    /\ pairing[p].state # "none"
    /\ pairing[p].lapsed
    /\ pairing' = [pairing EXCEPT ![p].state = "expired"]
    /\ UNCHANGED <<device, connector, trust, ticket, failures, drawn, active, live>>

\* The code matches no pairing: the failure is recorded and the challenge is
\* spent, though the request is answered with an error.
ClaimWrongCode(u) ==
    /\ StartClaim(u)
    /\ AllFailures < MaxFailures
    /\ failures' = [failures EXCEPT ![u] = [hour |-> @.hour + 1, minute |-> @.minute + 1]]
    /\ UNCHANGED <<pairing, device, connector, trust, ticket, drawn, active, live>>

\* The bookkeeping Poll and Approve do on a lapsed pairing: it is expired
\* unless it completed.
ExpireLapsed(p) ==
    /\ Pending(p)
    /\ pairing[p].lapsed
    /\ pairing' = [pairing EXCEPT ![p].state = "expired"]
    /\ UNCHANGED <<device, connector, trust, ticket, challenge, failures, drawn,
                   active, live>>

\* The connector asks how its pairing stands; every other answer reads only.
PollPairing(p) == ExpireLapsed(p)

\* The person at OpenCode approves device d, the one the connector was shown.
ApprovePairing(p, d) ==
    \/ ExpireLapsed(p)
    \/ /\ pairing[p].state = "verification"
       /\ ~pairing[p].lapsed
       /\ pairing[p].device = d
       /\ pairing[p].reviewed = NONE
       /\ pairing' = [pairing EXCEPT ![p].reviewed = d]
       /\ UNCHANGED <<device, connector, trust, ticket, challenge, failures,
                      drawn, active, live>>

\* The person at OpenCode declines, or the plugin gives up.
CancelPairing(p) ==
    /\ Pending(p)
    /\ pairing' = [pairing EXCEPT ![p].state = "expired"]
    /\ UNCHANGED <<device, connector, trust, ticket, challenge, failures, drawn,
                   active, live>>

\* The claim was approved at OpenCode.
MutantApproveByClaim(p) == pairing[p].state = "verification"

Approved(p) ==
    /\ pairing[p].state = "verification"
    /\ pairing[p].reviewed # NONE

\* The device that confirms is the account's and not revoked.
MutantConfirmRevokedDevice(u, d) == device[d].user = u

DeviceConfirms(u, d) ==
    /\ device[d].user = u
    /\ ~device[d].revoked

\* The connector's key is unknown, or is the account's and not revoked.
MutantConfirmForeignConnector(u, c) == ~connector[c].revoked

ConnectorConfirms(u, c) ==
    /\ connector[c].user \in {NONE, u}
    /\ ~connector[c].revoked

\* The connector's row, created under the pairing's account and name unless it
\* exists, with the credential derived from the pairing.
Install(row, u, p) ==
    IF row.user = NONE
    THEN [row EXCEPT !.user = u, !.name = pairing[p].name,
                     !.credential = p, !.lapsed = FALSE]
    ELSE [row EXCEPT !.credential = p, !.lapsed = FALSE]

\* The account confirms an approved pairing: trust and both credentials are
\* installed at once, on an existing connector row of its own or a new one.
\* A pending rotation of either row is left as it stands.  Confirming a
\* completed pairing again only reads.
ConfirmPairing(u, p, d, seed) ==
    LET c == pairing[p].connector IN
    /\ u \in active
    /\ ~pairing[p].lapsed
    /\ pairing[p].user = u /\ pairing[p].device = d
    /\ DeviceConfirms(u, d)
    /\ Approved(p)
    /\ ConnectorConfirms(u, c)
    /\ Draw(seed)
    /\ device' = [device EXCEPT ![d] = [@ EXCEPT !.credential = seed, !.lapsed = FALSE]]
    /\ trust' = trust \cup {<<u, d, c>>}
    /\ connector' = [connector EXCEPT ![c] = Install(@, u, p)]
    /\ pairing' = [pairing EXCEPT ![p] = [@ EXCEPT !.state = "completed", !.seed = seed]]
    /\ UNCHANGED <<ticket, challenge, failures, active, live>>
-------------------------------------------------------------------------------
(* Authentication by a credential, an account and a session.               *)

\* A device presents its current credential under a session of its account.
DeviceAuthenticates(s, d) ==
    /\ device[d].credential # NONE
    /\ ~device[d].revoked
    /\ ~device[d].lapsed
    /\ device[d].user = SessionOwner[s]
    /\ device[d].user \in active
    /\ s \in live

\* A connector presents its current credential.
ConnectorAuthenticates(c) ==
    /\ connector[c].credential # NONE
    /\ ~connector[c].revoked
    /\ ~connector[c].lapsed
    /\ connector[c].user \in active
-------------------------------------------------------------------------------
(* Credential rotation: provisional until the new credential is activated. *)

StartRotation(row, x) == [row EXCEPT !.pending = x, !.pendingLapsed = FALSE]
CancelRotation(row) == [row EXCEPT !.pending = NONE, !.pendingLapsed = FALSE]

\* A rotation of this row may still be activated.
MutantRotationNeverCloses(row) == row.pending # NONE /\ ~row.revoked

RotationOpen(row) ==
    /\ row.pending # NONE
    /\ ~row.pendingLapsed
    /\ ~row.revoked

\* The row with its pending credential made the current one.
MutantPromoteTwice(row) == [row EXCEPT !.credential = row.pending, !.lapsed = FALSE]

PromotePending(row) ==
    [row EXCEPT !.credential = row.pending, !.lapsed = FALSE,
                !.pending = NONE, !.pendingLapsed = FALSE]

RotateDeviceCredential(s, d, x) ==
    /\ DeviceAuthenticates(s, d)
    /\ Draw(x)
    /\ device' = [device EXCEPT ![d] = StartRotation(@, x)]
    /\ UNCHANGED <<pairing, connector, trust, ticket, challenge, failures, active, live>>

\* The pending credential is presented and becomes the current one.  (Presenting
\* the current credential here reads only.)
ActivateDeviceCredential(s, d) ==
    /\ RotationOpen(device[d])
    /\ device[d].credential # NONE
    /\ device[d].user = SessionOwner[s]
    /\ device[d].user \in active
    /\ s \in live
    /\ device' = [device EXCEPT ![d] = PromotePending(@)]
    /\ UNCHANGED <<pairing, connector, trust, ticket, challenge, failures, drawn,
                   active, live>>

RotateConnectorCredential(c, x) ==
    /\ ConnectorAuthenticates(c)
    /\ Draw(x)
    /\ connector' = [connector EXCEPT ![c] = StartRotation(@, x)]
    /\ UNCHANGED <<pairing, device, trust, ticket, challenge, failures, active, live>>

ActivateConnectorCredential(c) ==
    /\ RotationOpen(connector[c])
    /\ connector[c].user \in active
    /\ connector' = [connector EXCEPT ![c] = PromotePending(@)]
    /\ UNCHANGED <<pairing, device, trust, ticket, challenge, failures, drawn,
                   active, live>>
-------------------------------------------------------------------------------
(* Relay tickets.                                                          *)

\* Connecting on the current credential proves a pending rotation was not
\* taken up: it is discarded with the ticket's transaction.
IssueBrowserTicket(s, d, t) ==
    /\ ticket[t].user = NONE
    /\ DeviceAuthenticates(s, d)
    /\ device' = [device EXCEPT ![d] = CancelRotation(@)]
    /\ ticket' = [ticket EXCEPT ![t] =
                    [NoTicket EXCEPT !.role = "client", !.user = device[d].user,
                                     !.subject = d, !.session = s]]
    /\ UNCHANGED <<pairing, connector, trust, challenge, failures, drawn, active, live>>

IssueConnectorTicket(c, t) ==
    /\ ticket[t].user = NONE
    /\ ConnectorAuthenticates(c)
    /\ connector' = [connector EXCEPT ![c] = CancelRotation(@)]
    /\ ticket' = [ticket EXCEPT ![t] =
                    [NoTicket EXCEPT !.role = "connector", !.user = connector[c].user,
                                     !.subject = c]]
    /\ UNCHANGED <<pairing, device, trust, challenge, failures, drawn, active, live>>

\* The peers a subject may reach: the far end of each live trust edge of the
\* account, unless that end is revoked.
TrustedIdentities(u, role, k) ==
    IF role = "client"
    THEN {c \in ConnectorKeys : /\ <<u, k, c>> \in trust
                                /\ connector[c].user = u
                                /\ ~connector[c].revoked}
    ELSE {d \in DeviceKeys : /\ <<u, d, k>> \in trust
                             /\ device[d].user = u
                             /\ ~device[d].revoked}

\* The subject of a ticket is still the account's and is not revoked.
SubjectStands(t) ==
    LET r == ticket[t] IN
    \/ /\ r.role = "client"
       /\ \E d \in DeviceKeys : /\ r.subject = d
                                /\ device[d].user = r.user
                                /\ device[d].credential # NONE
                                /\ ~device[d].revoked
    \/ /\ r.role = "connector"
       /\ \E c \in ConnectorKeys : /\ r.subject = c
                                   /\ connector[c].user = r.user
                                   /\ ~connector[c].revoked

\* The relay trades a ticket for an admission, once.
ConsumeRelayTicket(t) ==
    LET r == ticket[t] IN
    /\ r.user \in active
    /\ ~r.consumed
    /\ ~r.lapsed
    /\ r.role = "client" => r.session \in live
    /\ SubjectStands(t)
    /\ ticket' = [ticket EXCEPT
                    ![t] = [@ EXCEPT !.consumed = TRUE,
                                     !.trusted = TrustedIdentities(r.user, r.role, r.subject)]]
    /\ UNCHANGED <<pairing, device, connector, trust, challenge, failures, drawn,
                   active, live>>
-------------------------------------------------------------------------------
(* Revocation and renaming.  An account is checked before the transaction  *)
(* of these operations begins, so it may have been disabled since: the     *)
(* transaction only requires that the row is the account's.                *)

\* A connector revokes itself with its current credential.
RevokeConnector(c) ==
    /\ connector[c].credential # NONE
    /\ ~connector[c].revoked
    /\ ~connector[c].lapsed
    /\ connector' = [connector EXCEPT ![c].revoked = TRUE]
    /\ UNCHANGED <<pairing, device, trust, ticket, challenge, failures, drawn,
                   active, live>>

RevokeAccountConnector(u, c) ==
    /\ connector[c].user = u
    /\ ~connector[c].revoked
    /\ connector' = [connector EXCEPT ![c].revoked = TRUE]
    /\ UNCHANGED <<pairing, device, trust, ticket, challenge, failures, drawn,
                   active, live>>

\* A device loses its pending rotation and all its trust with its revocation.
RevokeAccountDevice(u, d) ==
    /\ device[d].user = u
    /\ ~device[d].revoked
    /\ device' = [device EXCEPT ![d] = [CancelRotation(@) EXCEPT !.revoked = TRUE]]
    /\ trust' = {e \in trust : ~(e[1] = u /\ e[2] = d)}
    /\ UNCHANGED <<pairing, connector, ticket, challenge, failures, drawn, active, live>>

RenameAccountConnector(u, c, n) ==
    /\ connector[c].user = u
    /\ ~connector[c].revoked
    /\ connector[c].name # n
    /\ connector' = [connector EXCEPT ![c].name = n]
    /\ UNCHANGED <<pairing, device, trust, ticket, challenge, failures, drawn,
                   active, live>>
-------------------------------------------------------------------------------
(* Time, and the identity module.                                          *)

LapseChallenge(who) ==
    /\ challenge[who] > 0
    /\ challenge' = [challenge EXCEPT ![who] = @ - 1]
    /\ UNCHANGED <<pairing, device, connector, trust, ticket, failures, drawn,
                   active, live>>

\* A failure leaves the minute window, and later the hour window.
FailureLeavesWindow(u) ==
    /\ \/ /\ failures[u].minute > 0
          /\ failures' = [failures EXCEPT ![u].minute = @ - 1]
       \/ /\ failures[u].hour > failures[u].minute
          /\ failures' = [failures EXCEPT ![u].hour = @ - 1]
    /\ UNCHANGED <<pairing, device, connector, trust, ticket, challenge, drawn,
                   active, live>>

LapsePairing(p) ==
    /\ pairing[p].state # "none"
    /\ ~pairing[p].lapsed
    /\ pairing' = [pairing EXCEPT ![p].lapsed = TRUE]
    /\ UNCHANGED <<device, connector, trust, ticket, challenge, failures, drawn,
                   active, live>>

MutantTicketOutlives(role, k) == ticket

\* A ticket is authorized no longer than the credential that bought it, so
\* when a credential lapses every ticket of its subject has.
LapseTicketsOf(role, k) ==
    [t \in Tickets |-> IF ticket[t].role = role /\ ticket[t].subject = k
                       THEN [ticket[t] EXCEPT !.lapsed = TRUE]
                       ELSE ticket[t]]

LapseDeviceCredential(d) ==
    /\ device[d].credential # NONE
    /\ ~device[d].lapsed
    /\ device' = [device EXCEPT ![d].lapsed = TRUE]
    /\ ticket' = LapseTicketsOf("client", d)
    /\ UNCHANGED <<pairing, connector, trust, challenge, failures, drawn, active, live>>

LapseConnectorCredential(c) ==
    /\ connector[c].credential # NONE
    /\ ~connector[c].lapsed
    /\ connector' = [connector EXCEPT ![c].lapsed = TRUE]
    /\ ticket' = LapseTicketsOf("connector", c)
    /\ UNCHANGED <<pairing, device, trust, challenge, failures, drawn, active, live>>

\* The activation window of a rotation closes.
LapseDeviceRotation(d) ==
    /\ device[d].pending # NONE
    /\ ~device[d].pendingLapsed
    /\ device' = [device EXCEPT ![d].pendingLapsed = TRUE]
    /\ UNCHANGED <<pairing, connector, trust, ticket, challenge, failures, drawn,
                   active, live>>

LapseConnectorRotation(c) ==
    /\ connector[c].pending # NONE
    /\ ~connector[c].pendingLapsed
    /\ connector' = [connector EXCEPT ![c].pendingLapsed = TRUE]
    /\ UNCHANGED <<pairing, device, trust, ticket, challenge, failures, drawn,
                   active, live>>

LapseTicket(t) ==
    /\ ticket[t].user # NONE
    /\ ~ticket[t].lapsed
    /\ ticket' = [ticket EXCEPT ![t].lapsed = TRUE]
    /\ UNCHANGED <<pairing, device, connector, trust, challenge, failures, drawn,
                   active, live>>

DisableAccount(u) ==
    /\ u \in active
    /\ active' = active \ {u}
    /\ UNCHANGED <<pairing, device, connector, trust, ticket, challenge, failures,
                   drawn, live>>

\* A session is revoked, or its access token lapses.
EndSession(s) ==
    /\ s \in live
    /\ live' = live \ {s}
    /\ UNCHANGED <<pairing, device, connector, trust, ticket, challenge, failures,
                   drawn, active>>

\* A refresh gives a session whose access token had lapsed a new one.
ResumeSession(s) ==
    /\ s \notin live
    /\ live' = live \cup {s}
    /\ UNCHANGED <<pairing, device, connector, trust, ticket, challenge, failures,
                   drawn, active>>
-------------------------------------------------------------------------------
Ceremony ==
    \/ \E who \in Users \cup {NONE} : IssueChallenge(who)
    \/ \E p \in Pairings, c \in ConnectorKeys, n \in Names : BeginPairing(p, c, n)
    \/ \E u \in Users, p \in Pairings, d \in DeviceKeys : ClaimPairing(u, p, d)
    \/ \E u \in Users, p \in Pairings : ClaimLapsedPairing(u, p)
    \/ \E u \in Users : ClaimWrongCode(u)
    \/ \E p \in Pairings : PollPairing(p)
    \/ \E p \in Pairings, d \in DeviceKeys : ApprovePairing(p, d)
    \/ \E p \in Pairings : CancelPairing(p)
    \/ \E u \in Users, p \in Pairings, d \in DeviceKeys, x \in Tokens :
          ConfirmPairing(u, p, d, x)

Rotation ==
    \/ \E s \in Sessions, d \in DeviceKeys, x \in Tokens : RotateDeviceCredential(s, d, x)
    \/ \E s \in Sessions, d \in DeviceKeys : ActivateDeviceCredential(s, d)
    \/ \E c \in ConnectorKeys, x \in Tokens : RotateConnectorCredential(c, x)
    \/ \E c \in ConnectorKeys : ActivateConnectorCredential(c)

Ticketing ==
    \/ \E s \in Sessions, d \in DeviceKeys, t \in Tickets : IssueBrowserTicket(s, d, t)
    \/ \E c \in ConnectorKeys, t \in Tickets : IssueConnectorTicket(c, t)
    \/ \E t \in Tickets : ConsumeRelayTicket(t)

Management ==
    \/ \E c \in ConnectorKeys : RevokeConnector(c)
    \/ \E u \in Users, c \in ConnectorKeys : RevokeAccountConnector(u, c)
    \/ \E u \in Users, d \in DeviceKeys : RevokeAccountDevice(u, d)
    \/ \E u \in Users, c \in ConnectorKeys, n \in Names : RenameAccountConnector(u, c, n)

Environment ==
    \/ \E who \in Users \cup {NONE} : LapseChallenge(who)
    \/ \E u \in Users : FailureLeavesWindow(u)
    \/ \E p \in Pairings : LapsePairing(p)
    \/ \E d \in DeviceKeys : LapseDeviceCredential(d) \/ LapseDeviceRotation(d)
    \/ \E c \in ConnectorKeys : LapseConnectorCredential(c) \/ LapseConnectorRotation(c)
    \/ \E t \in Tickets : LapseTicket(t)
    \/ \E u \in Users : DisableAccount(u)
    \/ \E s \in Sessions : EndSession(s) \/ ResumeSession(s)

Next == Ceremony \/ Rotation \/ Ticketing \/ Management \/ Environment

Spec == Init /\ [][Next]_vars
-------------------------------------------------------------------------------
(* Properties.                                                             *)

TypeOK ==
    /\ pairing \in [Pairings -> Pairing]
    /\ device \in [DeviceKeys -> Device]
    /\ connector \in [ConnectorKeys -> Connector]
    /\ trust \subseteq Users \X DeviceKeys \X ConnectorKeys
    /\ ticket \in [Tickets -> Ticket]
    /\ challenge \in [Users \cup {NONE} -> Nat]
    /\ failures \in [Users -> [hour : Nat, minute : Nat]]
    /\ drawn \subseteq Tokens
    /\ active \subseteq Users
    /\ live \subseteq Sessions

\* Account u, device d and connector c went through one pairing together, and
\* the approval given at OpenCode named that very device.
Consented(u, d, c) ==
    \E p \in Pairings : /\ pairing[p].seed # NONE
                        /\ pairing[p].user = u
                        /\ pairing[p].connector = c
                        /\ pairing[p].device = d
                        /\ pairing[p].reviewed = d

\* No device is trusted by a connector unless the person at OpenCode approved
\* that device, in a pairing its account claimed: ApprovePairing's promise
\* that a pairing completes only with consent on both sides.
TrustNeedsConsent == \A e \in trust : Consented(e[1], e[2], e[3])

\* The same promise, where it bites: every peer an admission lists was paired
\* with the admitted subject, whatever happened since the ticket was issued.
AdmissionsNeedConsent ==
    \A t \in Tickets : \A k \in ticket[t].trusted :
        IF ticket[t].role = "client"
        THEN Consented(ticket[t].user, ticket[t].subject, k)
        ELSE Consented(ticket[t].user, k, ticket[t].subject)

\* Accounts do not mix: a trust edge joins a device and a connector of its own
\* account, and so do a pairing and its device, though keys are claimed on
\* first use by whichever account comes first.
AccountIsolation ==
    /\ \A e \in trust : device[e[2]].user = e[1] /\ connector[e[3]].user = e[1]
    /\ \A p \in Pairings : pairing[p].device # NONE =>
          device[pairing[p].device].user = pairing[p].user

\* A revoked device keeps nothing, even when a pairing or a rotation of it
\* was under way: no trust, and no credential waiting to be activated.
RevokedDeviceHoldsNothing ==
    \A d \in DeviceKeys : device[d].revoked =>
        /\ device[d].pending = NONE
        /\ \A e \in trust : e[2] # d

\* The credentials the service accepts now, current or awaiting activation.
DeviceInUse(d) == {device[d].credential, device[d].pending} \ {NONE}
ConnectorInUse(c) == {connector[c].credential, connector[c].pending} \ {NONE}
InUse == UNION ({DeviceInUse(d) : d \in DeviceKeys} \cup
                {ConnectorInUse(c) : c \in ConnectorKeys})

\* A credential identifies one row and one slot of it, so looking a request's
\* hash up in two columns (...ByAnyCredentialForUpdate) finds one answer.
CredentialsNotShared ==
    /\ \A d, e \in DeviceKeys :
          /\ d # e => DeviceInUse(d) \cap DeviceInUse(e) = {}
          /\ device[d].pending # NONE => device[d].pending # device[d].credential
    /\ \A c, e \in ConnectorKeys :
          /\ c # e => ConnectorInUse(c) \cap ConnectorInUse(e) = {}
          /\ connector[c].pending # NONE => connector[c].pending # connector[c].credential

\* Credentials that have been issued: the draws, and the connector credential
\* of every pairing that completed.
Issued == drawn \cup {p \in Pairings : pairing[p].seed # NONE}

\* Once a credential stops being accepted it is never accepted again: neither
\* a retried confirmation, a re-pairing nor a late activation revives one.
RetiredStayRetired == [][\A x \in Issued : x \notin InUse => x \notin InUse']_vars

\* A current credential is replaced only by a confirmation completing now or
\* by a rotation of that row whose activation window is still open.
ReplacementsDeliberate ==
    /\ \A d \in DeviceKeys : device'[d].credential # device[d].credential =>
          \/ /\ device'[d].credential = device[d].pending
             /\ ~device[d].pendingLapsed /\ ~device[d].revoked
          \/ \E p \in Pairings : /\ pairing[p].seed = NONE
                                 /\ pairing'[p].seed = device'[d].credential
                                 /\ pairing'[p].device = d
    /\ \A c \in ConnectorKeys : connector'[c].credential # connector[c].credential =>
          \/ /\ connector'[c].credential = connector[c].pending
             /\ ~connector[c].pendingLapsed /\ ~connector[c].revoked
          \/ \E p \in Pairings : /\ pairing[p].seed = NONE /\ pairing'[p].seed # NONE
                                 /\ connector'[c].credential = p
                                 /\ pairing'[p].connector = c
ReplacementIsDeliberate == [][ReplacementsDeliberate]_vars

\* A step may give a pairing what it lacks, and may not take back what it has.
Advances(r, r2) ==
    /\ r.user # NONE => r2.user = r.user /\ r2.device = r.device
    /\ r.reviewed # NONE => r2.reviewed = r.reviewed
    /\ r.seed # NONE => r2.seed = r.seed
    /\ r.state # "none" => r2.connector = r.connector
    /\ r.state = "expired" => r2.state = "expired"
    /\ r.state = "completed" /\ ~r.lapsed => r2.state = "completed"

\* A pairing is claimed once: neither who claimed it nor which device it is
\* for changes afterwards, an approval is never withdrawn from it or moved,
\* and one that ended without completing stays ended.
AllPairingsAdvance == \A p \in Pairings : Advances(pairing[p], pairing'[p])
PairingClaimedOnce == [][AllPairingsAdvance]_vars

\* The relay admits nobody whose authority has ended by then: not on a
\* consumed ticket, a revoked or lapsed subject, a disabled account or an
\* ended session, though a ticket may have been bought before any of these
\* and ConsumeRelayTicket does not look at the credential's expiry.
Subject(t) == IF ticket[t].role = "client" THEN device[ticket[t].subject]
                                           ELSE connector[ticket[t].subject]
AdmissionsHaveAuthority ==
    \A t \in Tickets : ticket'[t].consumed /\ ticket'[t] # ticket[t] =>
         \/ ticket'[t] = [ticket[t] EXCEPT !.lapsed = TRUE]
         \/ /\ ~ticket[t].consumed
            /\ ticket[t].user \in active
            /\ ticket[t].role = "client" => ticket[t].session \in live
            /\ ~Subject(t).revoked /\ ~Subject(t).lapsed
AdmissionNeedsLiveAuthority == [][AdmissionsHaveAuthority]_vars
-------------------------------------------------------------------------------
(* The agreement the tables stand for.                                     *)

Offers == [p \in Pairings |-> pairing[p].connector]
Claims == [p \in Pairings |->
              IF pairing[p].user = NONE THEN NONE ELSE <<pairing[p].user, pairing[p].device>>]
ApprovedOnes == {p \in Pairings : pairing[p].reviewed # NONE}
Ended == {p \in Pairings : pairing[p].state \in {"completed", "expired"}}
DeviceOwners == [d \in DeviceKeys |-> device[d].user]
ConnectorOwners == [c \in ConnectorKeys |-> connector[c].user]
Gone == {<<"client", d>> : d \in {e \in DeviceKeys : device[e].revoked}} \cup
        {<<"connector", c>> : c \in {e \in ConnectorKeys : connector[e].revoked}}
\* A revoked connector keeps its rows of trust, which no longer count.
LiveTrust == {e \in trust : ~connector[e[3]].revoked}
Admissions == [t \in Tickets |->
                  IF ticket[t].consumed
                  THEN <<ticket[t].role, ticket[t].subject, ticket[t].trusted>> ELSE NONE]

Agreed == INSTANCE Agreement WITH
    offer <- Offers, claim <- Claims, approved <- ApprovedOnes, over <- Ended,
    deviceOwner <- DeviceOwners, connectorOwner <- ConnectorOwners, left <- Gone,
    trust <- LiveTrust, admission <- Admissions

\* The service's tables keep the agreement that pairing promises: whatever
\* ceremonies, rotations, revocations and tickets run, every commit is one step
\* of it or none, and an admission lists exactly the partners of that moment.
AgreementSpec == Agreed!Spec
===============================================================================
