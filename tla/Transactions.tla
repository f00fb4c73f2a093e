----------------------------- MODULE Transactions -----------------------------
(* What the requests of the server take from each other, in which order: the *)
(* programs of module Waits.  Any two requests are taken to want the same    *)
(* rows, the worst case.  A transaction locks at most one row of a table, so *)
(* the name of the table stands for the row.  The names of unique indexes    *)
(* (emailKey, ...) stand for the wait of an insertion for another one of the *)
(* same key; rows of foreign keys are locked in mode "share".                *)
EXTENDS Naturals, Sequences

Take(r) == [do |-> "take", what |-> r, mode |-> "update"]
\* SELECT FOR UPDATE, DELETE, or the insertion of a unique key.
Lock(r) == Take(r)
\* UPDATE of columns that are no key.
Change(r) == [do |-> "take", what |-> r, mode |-> "change"]
\* A foreign key to the row is inserted.
Share(r) == [do |-> "take", what |-> r, mode |-> "share"]
MayLock(r) == [do |-> "may", what |-> r, mode |-> "update"]
GiveBack(r) == [do |-> "return", what |-> r, mode |-> "update"]
End(r) == [do |-> "commit", what |-> r, mode |-> "update"]

\* Every transaction of identity takes a connection of one pool, and every one
\* of connectors a connection of another.
MutantSharedPool == "identity"
ConnectorsPool == "connectors"

\* A single read outside a transaction has its connection for that read.
Read == <<Take("identity"), End("identity")>>
Hashing == <<Take("hash"), GiveBack("hash")>>
\* What connectors asks identity inside its own transaction.
Authorize == <<Take("identity"), GiveBack("identity")>>
Identity(steps) == <<Take("identity")>> \o steps \o <<End("identity")>>
Connectors(steps) == <<Take(ConnectorsPool)>> \o steps \o <<End(ConnectorsPool)>>

\* The mark a delivery leaves on an account, after the transaction.
RecordDelivery == Identity(<<Change("users")>>)

-----------------------------------------------------------------------------
(* Identity.                                                                *)

Register == Hashing \o Identity(<<Lock("emailKey")>>) \o RecordDelivery

\* The address is taken: the attempt is recorded without a user, its owner
\* is told by mail and looked up for the mark.
DecoyRegistration ==
    Hashing \o Identity(<<Lock("emailKey")>>) \o Identity(<<>>) \o Read \o RecordDelivery

\* A mistake: the password is compared while a connection is held.
MutantLogin == Read \o Identity(Hashing \o <<Share("users")>>)

Login == Read \o Hashing \o Identity(<<Share("users")>>)

ReissueVerification ==
    Read \o Hashing \o Identity(<<Lock("verification"), Share("users")>>) \o RecordDelivery

\* A mistake: the account is activated before the code is looked at.
MutantVerifyEmail == Identity(<<Change("users"), Lock("verification")>>)

VerifyEmail == Identity(<<Lock("verification"), Change("users")>>)

ResendVerification ==
    Identity(<<Lock("verification"), Share("users")>>) \o RecordDelivery

\* And Logout, which takes the same.
Refresh == Identity(<<Lock("refresh"), Lock("session"), Share("users")>>)

GoogleNewAccount == Identity(<<Lock("emailKey"), Lock("linkKey")>>)

GoogleReturningUser == Identity(<<Lock("link"), Share("users")>>)

GoogleLinkExisting ==
    Identity(<<Lock("users"), MayLock("verification"), MayLock("link"), Lock("linkKey")>>)

-----------------------------------------------------------------------------
(* Connectors.                                                              *)

IssueChallenge == Connectors(<<Share("users")>>)

BeginPairing == Connectors(<<Lock("challenge"), Change("pairing"), Lock("pairingKey")>>)

\* A mistake: the phone is looked up before the code.
MutantClaimPairing ==
    Connectors(Authorize \o <<Lock("challenge"), Lock("claims"), MayLock("device"),
                              MayLock("deviceKey"), Lock("pairing"), Share("users")>>)

\* The advisory lock of an account is taken before its failures are counted.
ClaimPairing ==
    Connectors(Authorize \o <<Lock("challenge"), Lock("claims"), Lock("pairing"),
                              MayLock("device"), MayLock("deviceKey"), Share("users")>>)

\* A wrong code: failures too old to count are removed, whose they may be.
ClaimWrongCode ==
    Connectors(Authorize \o <<Lock("challenge"), Lock("claims"), Lock("failures"),
                              Share("users")>>)

ConfirmPairing ==
    Connectors(Authorize \o <<Lock("pairing"), Lock("device"), MayLock("connector"),
                              MayLock("connectorKey"), MayLock("trust"), Share("users")>>)

\* PollPairing, ApprovePairing, CancelPairing.
PairingCall == Connectors(<<Lock("pairing"), MayLock("device"), MayLock("connector")>>)

\* Rotation and activation of a phone's credential, its tickets and the checks
\* of its admission.
DeviceCall == Connectors(<<Lock("device")>> \o Authorize)

\* The same of a connector, and its own metadata.
ConnectorCall == Connectors(<<Lock("connector")>> \o Authorize)

ConsumeRelayTicket ==
    Connectors(<<Lock("ticket")>> \o Authorize \o <<MayLock("device"), MayLock("connector")>>)

RevokeAccountDevice == Read \o Connectors(<<Lock("device"), Change("trust")>>)

\* RevokeAccountConnector and RenameAccountConnector.
ManageConnector == Read \o Connectors(<<Lock("connector")>>)

\* Listings, and the readiness check.
List == Connectors(<<>>)

-----------------------------------------------------------------------------
Programs == [
    read |-> Read,
    register |-> Register,
    decoyRegistration |-> DecoyRegistration,
    login |-> Login,
    reissueVerification |-> ReissueVerification,
    verifyEmail |-> VerifyEmail,
    resendVerification |-> ResendVerification,
    refresh |-> Refresh,
    googleNewAccount |-> GoogleNewAccount,
    googleReturningUser |-> GoogleReturningUser,
    googleLinkExisting |-> GoogleLinkExisting,
    issueChallenge |-> IssueChallenge,
    beginPairing |-> BeginPairing,
    claimPairing |-> ClaimPairing,
    claimWrongCode |-> ClaimWrongCode,
    confirmPairing |-> ConfirmPairing,
    pairingCall |-> PairingCall,
    deviceCall |-> DeviceCall,
    connectorCall |-> ConnectorCall,
    consumeRelayTicket |-> ConsumeRelayTicket,
    revokeAccountDevice |-> RevokeAccountDevice,
    manageConnector |-> ManageConnector,
    list |-> List]

\* The order in which the transactions take things.
Order == <<"hash", "connectors", "challenge", "claims", "failures", "ticket",
           "pairing", "pairingKey", "device", "deviceKey", "connector",
           "connectorKey", "trust", "identity", "refresh", "session",
           "verification", "link", "emailKey", "linkKey", "users">>

RankOf == [r \in {Order[i] : i \in 1 .. Len(Order)} |->
              CHOOSE i \in 1 .. Len(Order) : Order[i] = r]
=============================================================================
