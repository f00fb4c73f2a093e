------------------------------- MODULE Accounts -------------------------------
(***************************************************************************)
(* How accounts come to be and are signed in to: registration with a       *)
(* mailed code, password sign-in and sign-in with Google                   *)
(* (src/internal/identity: service.go, google.go and their store).         *)
(*                                                                         *)
(* An account is named by its normalized address, which is unique; rows    *)
(* are never deleted.  A password is written as the person who chose it, a *)
(* verification ticket as the person it was handed to last, and a session  *)
(* as the person who was given its tokens.                                 *)
(*                                                                         *)
(* A transaction that locks the row it decides on is one action.  Two      *)
(* operations decide on what they read without a lock, and other requests  *)
(* come in between: a password sign-in reads the account before its        *)
(* transaction begins, and a sign-in with Google that finds no row has     *)
(* nothing to lock.                                                        *)
(***************************************************************************)
EXTENDS Naturals, FiniteSets

CONSTANTS
    People,        \* whoever may use the service
    Addresses,     \* normalized e-mail addresses
    Owner,         \* whose mailbox each address is
    Legacy,        \* addresses whose accounts predate verification
    LegacyHolder,  \* who chose the password of each of those
    Subjects,      \* Google accounts
    PersonOf,      \* whose each Google account is
    Asserts,       \* <<subject, address>>: addresses Google may vouch for
    Codes,         \* verification codes that may be drawn
    Requests,      \* sign-ins in flight at once
    MaxAttempts,   \* maxVerificationAttempts
    Retries,       \* googleConflictRetries
    NONE           \* an absent row or value

ASSUME AccountsAssumption ==
    /\ Owner \in [Addresses -> People]
    /\ Legacy \subseteq Addresses
    /\ LegacyHolder \in [Legacy -> People]
    /\ PersonOf \in [Subjects -> People]
    /\ Asserts \subseteq Subjects \X Addresses
    /\ \A e \in Asserts : PersonOf[e[1]] = Owner[e[2]]
    /\ MaxAttempts \in Nat /\ Retries \in Nat
    /\ NONE \notin People \cup Addresses \cup Subjects \cup Codes

VARIABLES
    account,       \* rows of users, by address
    verification,  \* rows of email_verifications, by address
    link,          \* rows of federated_identities: the account of each subject
    request,       \* sign-ins in flight, with what they read
    mail,          \* codes committed and not sent yet, with their address
    inbox,         \* codes that reached the mailbox of their address
    sessions,      \* sessions opened: <<account, person given the tokens>>
    tried,         \* wrong codes tried against each code
    recent         \* addresses a code was issued for less than the cooldown ago

vars == <<account, verification, link, request, mail, inbox, sessions, tried, recent>>

Account == [status   : {"none", "pending", "active", "disabled"},
            password : People \cup {NONE},
            verified : BOOLEAN]

Verification == [holder   : People \cup {NONE},  \* NONE: there is no row
                 code     : Codes \cup {NONE},
                 attempts : 0..MaxAttempts,
                 cooling  : BOOLEAN,              \* created_at is within the cooldown
                 lapsed   : BOOLEAN]

\* A sign-in as it begins, with what it is about and the status it read.
Begin(step, p, g, a, status) == [step |-> step, who |-> p, subject |-> g, address |-> a,
                                 read |-> status, retried |-> 0]
Idle == Begin("idle", NONE, NONE, NONE, "none")

Request == [step    : {"idle", "login", "google", "unlinked", "vacant", "taken",
                       "conflict"},
            who     : People \cup {NONE},
            subject : Subjects \cup {NONE},
            address : Addresses \cup {NONE},
            read    : {"none", "pending", "active"},
            retried : 0..Retries]

NoAccount == [status |-> "none", password |-> NONE, verified |-> FALSE]

NoVerification == [holder |-> NONE, code |-> NONE, attempts |-> 0,
                   cooling |-> FALSE, lapsed |-> FALSE]

Init ==
    /\ account = [a \in Addresses |->
                    IF a \in Legacy
                    THEN [status |-> "active", password |-> LegacyHolder[a],
                          verified |-> FALSE]
                    ELSE NoAccount]
    /\ verification = [a \in Addresses |-> NoVerification]
    /\ link = [g \in Subjects |-> NONE]
    /\ request = [r \in Requests |-> Idle]
    /\ mail = {}
    /\ inbox = {}
    /\ sessions = {}
    /\ tried = [k \in Codes |-> 0]
    /\ recent = {}
-------------------------------------------------------------------------------
(* Verification rows.                                                      *)

Drawn == {verification[a].code : a \in Addresses} \cup {m[2] : m \in mail \cup inbox}
Outstanding(a) == verification[a].holder # NONE

\* Inserting a verification for an address, or replacing the one it has.  The
\* upsert updates every column except created_at: gorm takes a field of that
\* name to be set when the row is created, and leaves it alone on a conflict.
Replace(a, p, k, n) ==
    verification' = [verification EXCEPT
        ![a] = [holder |-> p, code |-> k, attempts |-> n, lapsed |-> FALSE,
                cooling |-> Outstanding(a) => verification[a].cooling]]

\* A new code is drawn for p, to be mailed to address a after the commit.
IssueCode(a, p, k) ==
    /\ k \notin Drawn
    /\ Replace(a, p, k, 0)
    /\ tried' = [tried EXCEPT ![k] = 0]
    /\ mail' = mail \cup {<<a, k>>}
    /\ recent' = recent \cup {a}
    /\ UNCHANGED inbox

\* The outstanding code is handed out again under a new ticket, with the
\* wrong tries counted against it.  (The mutant, here and below, is a mistake
\* the properties must notice; nothing uses it.)
MutantReissueForgives(a, p) ==
    /\ Replace(a, p, verification[a].code, 0)
    /\ UNCHANGED <<mail, inbox, tried, recent>>

ReissueCode(a, p) ==
    /\ Replace(a, p, verification[a].code, verification[a].attempts)
    /\ UNCHANGED <<mail, inbox, tried, recent>>

\* An account opens a session for p.
OpenSession(a, p) == sessions' = sessions \cup {<<a, p>>}
-------------------------------------------------------------------------------
(* Registration and verification.                                          *)

\* Person p registers address a.  An address that is taken is answered with a
\* ticket backed by nothing, and a notice to its mailbox: no step here.
Register(p, a, k) ==
    /\ account[a].status = "none"
    /\ account' = [account EXCEPT ![a] = [status |-> "pending", password |-> p,
                                          verified |-> FALSE]]
    /\ IssueCode(a, p, k)
    /\ UNCHANGED <<link, request, sessions>>

\* The mail goes out after the commit, and may never arrive.
SendCode(m) ==
    /\ m \in mail
    /\ mail' = mail \ {m}
    /\ inbox' \in {inbox, inbox \cup {m}}
    /\ UNCHANGED <<account, verification, link, request, sessions, tried, recent>>

\* The person holding the ticket tries a code.
MutantTryForever(p, a) ==
    /\ verification[a].holder = p
    /\ ~verification[a].lapsed

MayTry(p, a) ==
    /\ verification[a].holder = p
    /\ ~verification[a].lapsed
    /\ verification[a].attempts < MaxAttempts

TryWrongCode(p, a) ==
    /\ MayTry(p, a)
    /\ verification' = [verification EXCEPT ![a].attempts = verification[a].attempts + 1]
    /\ tried' = [k \in Codes |-> IF k = verification[a].code THEN tried[k] + 1 ELSE tried[k]]
    /\ UNCHANGED <<account, link, request, mail, inbox, sessions, recent>>

\* The right code, read in the mailbox it was sent to, activates a pending
\* account and opens its first session.
VerifyEmail(p, a) ==
    /\ MayTry(p, a)
    /\ account[a].status = "pending"
    /\ p = Owner[a] /\ <<a, verification[a].code>> \in inbox
    /\ account' = [account EXCEPT ![a] = [@ EXCEPT !.status = "active", !.verified = TRUE]]
    /\ verification' = [verification EXCEPT ![a] = NoVerification]
    /\ OpenSession(a, p)
    /\ UNCHANGED <<link, request, mail, inbox, tried, recent>>

ResendVerification(p, a, k) ==
    /\ verification[a].holder = p
    /\ ~verification[a].cooling
    /\ account[a].status = "pending"
    /\ IssueCode(a, p, k)
    /\ UNCHANGED <<account, link, request, sessions>>
-------------------------------------------------------------------------------
(* Sign-in with a password.                                                *)

\* The account is read and the password checked, outside any transaction.
Login(r, p, a) ==
    /\ request[r].step = "idle"
    /\ account[a].password = p
    /\ account[a].status \in {"pending", "active"}
    /\ request' = [request EXCEPT ![r] = Begin("login", p, NONE, a, account[a].status)]
    /\ UNCHANGED <<account, verification, link, mail, inbox, sessions, tried, recent>>

\* It was active: a session opens.
LoginOpens(r) ==
    /\ request[r].step = "login" /\ request[r].read = "active"
    /\ OpenSession(request[r].address, request[r].who)
    /\ request' = [request EXCEPT ![r] = Idle]
    /\ UNCHANGED <<account, verification, link, mail, inbox, tried, recent>>

\* It was pending: a challenge is handed out, with the outstanding code within
\* the cooldown and a new one after it.
LoginReissues(r, k) ==
    LET a == request[r].address
        p == request[r].who
    IN  /\ request[r].step = "login" /\ request[r].read = "pending"
        /\ \/ /\ Outstanding(a) /\ verification[a].cooling /\ ~verification[a].lapsed
              /\ ReissueCode(a, p)
           \/ /\ ~(Outstanding(a) /\ verification[a].cooling /\ ~verification[a].lapsed)
              /\ IssueCode(a, p, k)
        /\ request' = [request EXCEPT ![r] = Idle]
        /\ UNCHANGED <<account, link, sessions>>
-------------------------------------------------------------------------------
(* Sign-in with Google: person PersonOf[g] signs in, and Google asserts    *)
(* that the mailbox of address a is theirs.  A transaction reads the link  *)
(* of the subject, then the account of the address, and locks what it      *)
(* finds; what it does not find another request may insert meanwhile.      *)

AlreadyLinked(a) == \E h \in Subjects : link[h] = a

GoogleSignIn(r, g, a) ==
    /\ request[r].step = "idle"
    /\ <<g, a>> \in Asserts
    /\ request' = [request EXCEPT ![r] = Begin("google", NONE, g, a, "none")]
    /\ UNCHANGED <<account, verification, link, mail, inbox, sessions, tried, recent>>

\* The subject is linked: its account is signed in to, if active.
GoogleReturns(r) ==
    LET g == request[r].subject IN
    /\ request[r].step = "google"
    /\ link[g] # NONE
    /\ \/ /\ account[link[g]].status = "active"
          /\ OpenSession(link[g], PersonOf[g])
       \/ /\ account[link[g]].status # "active"
          /\ UNCHANGED sessions
    /\ request' = [request EXCEPT ![r] = Idle]
    /\ UNCHANGED <<account, verification, link, mail, inbox, tried, recent>>

\* The subject's link is looked up and not found, which locks nothing.
GoogleFindsNoLink(r) ==
    /\ request[r].step = "google"
    /\ link[request[r].subject] = NONE
    /\ request' = [request EXCEPT ![r].step = "unlinked"]
    /\ UNCHANGED <<account, verification, link, mail, inbox, sessions, tried, recent>>

\* An insertion hits a unique index: the transaction is rolled back and the
\* sign-in starts over, a bounded number of times.
MutantGiveUp(r) ==
    /\ request' = [request EXCEPT ![r].step = "conflict"]
    /\ UNCHANGED <<account, verification, link, mail, inbox, sessions, tried, recent>>

Retry(r) ==
    /\ \/ /\ request[r].retried < Retries
          /\ request' = [request EXCEPT ![r].step = "google",
                                        ![r].retried = request[r].retried + 1]
       \/ /\ request[r].retried = Retries
          /\ request' = [request EXCEPT ![r].step = "conflict"]
    /\ UNCHANGED <<account, verification, link, mail, inbox, sessions, tried, recent>>

\* Next the account of the address is looked up, and found missing.
GoogleFindsNobody(r) ==
    /\ request[r].step = "unlinked"
    /\ account[request[r].address].status = "none"
    /\ request' = [request EXCEPT ![r].step = "vacant"]
    /\ UNCHANGED <<account, verification, link, mail, inbox, sessions, tried, recent>>

\* A new account is inserted with its link: active, verified, no password.
GoogleCreates(r) ==
    LET a == request[r].address
        g == request[r].subject
    IN  /\ request[r].step = "vacant"
        /\ \/ /\ account[a].status = "none" /\ link[g] = NONE
              /\ account' = [account EXCEPT ![a] = [status |-> "active", password |-> NONE,
                                                    verified |-> TRUE]]
              /\ link' = [link EXCEPT ![g] = a]
              /\ OpenSession(a, PersonOf[g])
              /\ request' = [request EXCEPT ![r] = Idle]
              /\ UNCHANGED <<verification, mail, inbox, tried, recent>>
           \/ /\ ~(account[a].status = "none" /\ link[g] = NONE)
              /\ Retry(r)

\* The address is proved: verified here before, or pending and proved by
\* Google now.
MutantLinkUnproved(a) == account[a].status \in {"pending", "active"}

Linkable(a) ==
    \/ account[a].status = "pending"
    \/ account[a].status = "active" /\ account[a].verified

\* A pending account Google vouches for is activated without its password.
MutantActivateKeepingPassword(a) ==
    [account[a] EXCEPT !.status = "active", !.verified = TRUE]

Vouched(a) == [status |-> "active", password |-> NONE, verified |-> TRUE]

\* The account is found, and locked: the subject is linked to it.
GoogleLinks(r) ==
    LET a == request[r].address
        g == request[r].subject
    IN  /\ request[r].step = "unlinked"
        /\ account[a].status # "none"
        /\ Linkable(a) /\ ~AlreadyLinked(a)
        /\ \/ /\ link[g] = NONE
              /\ link' = [link EXCEPT ![g] = a]
              /\ \/ /\ account[a].status = "pending"
                    /\ account' = [account EXCEPT ![a] = Vouched(a)]
                    /\ verification' = [verification EXCEPT ![a] = NoVerification]
                 \/ /\ account[a].status = "active"
                    /\ UNCHANGED <<account, verification>>
              /\ OpenSession(a, PersonOf[g])
              /\ request' = [request EXCEPT ![r] = Idle]
              /\ UNCHANGED <<mail, inbox, tried, recent>>
           \/ /\ link[g] # NONE
              /\ Retry(r)

\* The account holds a Google identity already: refused with
\* ErrIdentityAlreadyLinked.
GoogleRefusesLinked(r) ==
    LET a == request[r].address IN
    /\ request[r].step = "unlinked"
    /\ Linkable(a) /\ AlreadyLinked(a)
    /\ request' = [request EXCEPT ![r].step = "taken"]
    /\ UNCHANGED <<account, verification, link, mail, inbox, sessions, tried, recent>>

\* The account is disabled, or active and never verified: refused.
GoogleRefusesUnproved(r) ==
    LET a == request[r].address IN
    /\ request[r].step = "unlinked"
    /\ account[a].status # "none" /\ ~Linkable(a)
    /\ request' = [request EXCEPT ![r] = Idle]
    /\ UNCHANGED <<account, verification, link, mail, inbox, sessions, tried, recent>>

\* The refusal, or the conflict that survived its retry, is answered.
AnswerFailure(r) ==
    /\ request[r].step \in {"taken", "conflict"}
    /\ request' = [request EXCEPT ![r] = Idle]
    /\ UNCHANGED <<account, verification, link, mail, inbox, sessions, tried, recent>>
-------------------------------------------------------------------------------
(* Time, and the operator of the database.                                 *)

\* The cooldown of a row ends, and with it or later the one of its last code.
CooldownEnds(a) ==
    /\ \/ /\ verification[a].cooling
          /\ verification' = [verification EXCEPT ![a].cooling = FALSE]
          /\ recent' = recent \ {a}
       \/ /\ ~verification[a].cooling
          /\ a \in recent
          /\ recent' = recent \ {a}
          /\ UNCHANGED verification
    /\ UNCHANGED <<account, link, request, mail, inbox, sessions, tried>>

LapseVerification(a) ==
    /\ Outstanding(a) /\ ~verification[a].cooling /\ ~verification[a].lapsed
    /\ a \notin recent
    /\ verification' = [verification EXCEPT ![a].lapsed = TRUE]
    /\ UNCHANGED <<account, link, request, mail, inbox, sessions, tried, recent>>

DisableAccount(a) ==
    /\ account[a].status \in {"pending", "active"}
    /\ account' = [account EXCEPT ![a].status = "disabled"]
    /\ UNCHANGED <<verification, link, request, mail, inbox, sessions, tried, recent>>
-------------------------------------------------------------------------------
SignUp ==
    \E p \in People, a \in Addresses :
        \/ \E k \in Codes : Register(p, a, k) \/ ResendVerification(p, a, k)
        \/ TryWrongCode(p, a)
        \/ VerifyEmail(p, a)

SignIn ==
    \E r \in Requests :
        \/ \E p \in People, a \in Addresses : Login(r, p, a)
        \/ LoginOpens(r)
        \/ \E k \in Codes : LoginReissues(r, k)

Federated ==
    \E r \in Requests :
        \/ \E g \in Subjects, a \in Addresses : GoogleSignIn(r, g, a)
        \/ GoogleReturns(r)
        \/ GoogleFindsNoLink(r)
        \/ GoogleFindsNobody(r)
        \/ GoogleCreates(r)
        \/ GoogleLinks(r)
        \/ GoogleRefusesLinked(r)
        \/ GoogleRefusesUnproved(r)
        \/ AnswerFailure(r)

Environment ==
    \/ \E m \in mail : SendCode(m)
    \/ \E a \in Addresses : CooldownEnds(a) \/ LapseVerification(a) \/ DisableAccount(a)

Next == SignUp \/ SignIn \/ Federated \/ Environment

Spec == Init /\ [][Next]_vars
-------------------------------------------------------------------------------
(* Properties.                                                             *)

TypeOK ==
    /\ account \in [Addresses -> Account]
    /\ verification \in [Addresses -> Verification]
    /\ link \in [Subjects -> Addresses \cup {NONE}]
    /\ request \in [Requests -> Request]
    /\ mail \subseteq Addresses \X Codes
    /\ inbox \subseteq Addresses \X Codes
    /\ sessions \subseteq Addresses \X People
    /\ tried \in [Codes -> Nat]
    /\ recent \subseteq Addresses

\* Only the owner of an address ever gets a session of its account, though
\* anyone may register it first and sign in to it meanwhile; of an account
\* older than verification, only the person who knows its password does,
\* whoever owns the mailbox now.
Entitled(a) == IF a \in Legacy THEN LegacyHolder[a] ELSE Owner[a]
SessionsBelong == \A e \in sessions : e[2] = Entitled(e[1])

\* "The cap belongs to the code, not to the ticket" (reissueVerification): no
\* code is tried more often than that, however often its ticket is rotated.
TriesCapped == \A k \in Codes : tried[k] <= MaxAttempts

\* A Google identity is linked only to an account whose address was proved,
\* here or by Google, and each account has at most one.
LinksNeedProof ==
    \A g \in Subjects : link[g] # NONE =>
        /\ account[link[g]].verified
        /\ PersonOf[g] = Owner[link[g]]
        /\ \A h \in Subjects : link[h] = link[g] => h = g

\* "A conflict surviving the retry is a real constraint problem, not
\* contention" (docs/adr/0009): among sign-ins that race each other and a
\* registration, none hits a unique index twice.
RetrySuffices == \A r \in Requests : request[r].step # "conflict"

\* ErrIdentityAlreadyLinked is returned "when the account holding this address
\* is already linked to a different account at the same provider" (types.go).
RefusalNamesAnother ==
    \A r \in Requests : request[r].step = "taken" =>
        \E h \in Subjects : h # request[r].subject /\ link[h] = request[r].address

\* "Within the thirty-second resend cooldown the outstanding code is reused"
\* (docs/adr/0008): a code is replaced only once its cooldown is over.
CooldownKept ==
    [][\A a \in Addresses :
          verification[a].code # NONE
          /\ verification'[a].code \notin {NONE, verification[a].code}
             => a \notin recent]_vars
===============================================================================
