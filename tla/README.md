# A verification of the Open Remote Code server

The server (Go, `src/`) lets a phone drive OpenCode instances through a relay
that sees only encrypted frames. It is one process over one PostgreSQL
database. What it must get right is authority: who may sign in, which phone
may talk to which OpenCode instance, how the credentials for that are replaced,
and how quickly all of it ends when somebody revokes it. This directory holds
TLA+ models of those parts, the TLC runs that check them on small instances, and
proofs for every value of the constants.

    tlc -workers 2 -config ceremony.cfg MCConnectors     # any run of the table below
    tlapm ConnectorsProofs.tla                           # any module named ...Proofs

The modules with proofs are `ConnectorsProofs`, `CredentialProofs`, `SessionsProofs`,
`AccountsProofs`, `RelayHubProofs`, `WaitsProofs`, `RateLimiterProofs` and
`ClaimGuardProofs`; each takes tlapm a few minutes at most.

## 1. Inventory

| component | source | state | operations | correct when |
|---|---|---|---|---|
| connectors service and store | `internal/connectors` | pairings, devices, connectors, trust edges, relay tickets, challenges, claim failures | issue a challenge; begin, claim, poll, approve, confirm, cancel a pairing; rotate and activate both kinds of credential; issue and consume a ticket; validate an admission; revoke and rename | trust needs consent on both sides; accounts do not mix; credentials identify one row and never come back; revoked or lapsed authority buys nothing |
| relay hub | `internal/relay/production.go` | map of live sockets; per socket: queue, `done`, connection, admission | admit, register, route, unregister, monitor, lease, disconnect, close | a revocation reaches every socket it covers; one socket per identity; only trusted traffic; partners know of each other |
| account sessions | `internal/identity/service.go`, store | sessions, refresh credentials | open, refresh, log out, authenticate, authorize | token pairs form a chain; reuse ends the session; no end is silent |
| accounts and sign-in | `internal/identity/service.go`, `google.go`, store | users, e-mail verifications, federated identities | register, verify, resend, log in, sign in with Google | a session only for who is entitled; tries are capped; links need proof; races end well |
| identity primitives | `token.go`, `password.go` | pool of hashing workers | draw, hash, compare | values are unique; workers come back |
| mail | `*_mailer.go` | none | send | may fail, after the commit |
| Google verifier | `googleid/` | cached keys (library) | verify | says only what Google says |
| disposable addresses | `disposableemail/` | one loaded list | load, check, close | registration never depends on it |
| rate limiter | `platform/httpserver/rate_limit.go` | bounded table of windows | allow | at most `maximum` a window; at most `capacity` keys |
| connection pools | `platform/database`, `cmd/server/setup.go` | two pools of 20 | acquire, release | transactions never wait for each other's connection |
| HTTP handlers, router, health | `*/httpapi`, `platform/` | none beyond limiters | decode, answer | wording and statuses |
| server process | `cmd/server` | none | start, shut down | the hub is closed on the way out |
| development relay, load test | `relay/development.go`, `cmd/loadtest` | a toy hub, a client | | not part of production |

How they meet. `setup.go` gives the connectors service the identity service's
`AuthorizeAccount` and `AuthorizeSession` (called inside connector transactions,
on a pool of their own) and gives both services the hub's `Disconnect` as the
callback of a revocation. The relay calls `ConsumeRelayTicket` when a WebSocket
opens and `ValidateAdmission` about every second while it lives. Everything
persistent is in PostgreSQL, so a crash of the process loses exactly the hub,
with all its sockets; what remains is a state of Connectors, Sessions and
Accounts between two actions, and no module needs a crash action for that.

What is hard here:

- revocation against admission: consume a ticket, register, revoke, announce and
  check are five steps of three goroutines and a database;
- the hub decides under its mutex and acts after releasing it;
- a ceremony of six calls from three parties, with keys that belong to whoever
  pairs them first, and two-step credential rotations running across it;
- answers that get lost after a commit: refreshes, rotations, confirmations;
- rows that do not exist cannot be locked: first sign-ins with Google;
- data read outside the transaction that acts on it: password sign-ins;
- counters that must be committed by requests that fail;
- times read before a lock is waited for, and budgets counted with no lock;
- requests that hold one thing while they wait for another: workers, connections
  of two pools, rows, unique keys.

`PROJECT.json` lists each of these, as a hazard at its line, with the properties
that cover it or the reason none does.

## 2. Modules

### Connectors, AuthenticatedCalls, Agreement

One variable per table, indexed by key because key IDs are unique and rows are
never deleted; `active` and `live` are what identity answers. Each service
method is one database transaction that locks (`FOR UPDATE`) the rows it decides
on, hence one action; its guard is the conjunction of the method's early
returns. A refused request rolls back and is no step, except where the code
commits on the way to refusing: a wrong code (`ClaimWrongCode`), a lapsed pairing
(`ClaimLapsedPairing`, `ExpireLapsed`).

Expiry is a flag that the environment raises. A method compares with a `now` it
read before waiting for its locks; that is the same as having taken the step just
before the deadline, so flags lose nothing any property looks at. A ticket's
expiry is bounded by its credential's, which is why a lapsing credential takes
its tickets along (`LapseTicketsOf`). It is also bounded by the session's access
token; the model does not use that (tickets may stay unlapsed when a session
ends, and the session may come back), which allows more than the code does.

A connector credential is `HMAC(pairing secret)`, so it is written as the
pairing itself; a device credential is derived from a seed drawn at confirmation,
so it is the seed. That is what lets RetiredStayRetired notice a retried
confirmation bringing an old credential back.

AuthenticatedCalls adds the connector calls that authenticate and change nothing
and remembers who called last, for one statement about them.

Agreement is what ADRs 0002, 0017 and 0018 promise of pairing, with no tables,
credentials, codes or time: a connector makes an offer, one account claims it for
one phone, the person at OpenCode approves, and only then is there trust; who
leaves keeps nobody's trust; a ticket admits once, to the partners of that moment.
Connectors implements it. Its state is read off the tables: `Offers` and `Claims`
are the connector and the claimant of a pairing's row, `ApprovedOnes` its approved
or completed rows and `Ended` its completed or expired ones, `DeviceOwners` and
`ConnectorOwners` the accounts of the rows, `Gone` the revoked ones, `LiveTrust`
the edges whose connector was not revoked (the code deletes a revoked device's
edges and only ignores a revoked connector's), and `Admissions` what the consumed
tickets were answered.

Left out: audit events, listings, the legacy pairing state `confirmed`, and the
use of one key for both roles.

### ClaimGuard, RateLimiter

In Connectors a claim is one step, which is right for the rows it locks. What
stands between a client and a *guess* is not covered by one lock, so ClaimGuard
takes a claim apart: the handler reads the time and asks the limiter of the network
(`Arrive`, `Limit`), the service reads the time again before its transaction
(`ReadTime`), the challenge's row is locked (`TakeChallenge`), then the account's
advisory lock, under which its wrong codes are counted (`CountAccount`), then
everybody's are counted with no lock at all (`CountGlobal`); then the code is wrong,
which records and purges and commits (`WrongCode`), or right or lapsed (`FoundCode`),
or the claim conflicts and the transaction rolls back, the challenge with it
(`RollBack`). The clock runs between any two steps, and claims count with the time
they read, however old it is.

RateLimiter is `rate_limit.go` as operators on a value: fixed windows in a map with
a list in order of opening, expired windows leaving from the front, the oldest
evicted when the table is full. `Allow` runs under a mutex and takes its time as an
argument that was read before, so times arrive out of order; that is why an expired
window can stand behind one that is not (`Reopened`).

A conflict that gives its challenge back is contrary to the comment at
`service.go:269-271` and to ADR 0019, which say that every claim spends one. The
property GuessesCostChallenges states what remains true: whoever learned whether a
code exists has spent a challenge of its own.

### Waits, Transactions

Who waits for whom. A request has a program: what it takes, in which order, and
where it gives things back. Waits runs any programs over bounded pools and row
locks (with the lock modes of PostgreSQL); Transactions has the programs of the
server's 23 kinds of request, read off the two services and their stores: the
slots of the password workers, of the identity pool and of the connectors pool,
and the rows in the order they are locked, a unique key that is being inserted
included. At any step a request may return early, fail, be cancelled or run into
its deadline (`Leave`), which is what the deferred releases are for.

Any two requests are taken to want the same rows, the worst case. A transaction
takes one row of a table; bulk statements (the expiry of older pairings of a key,
the deletion of a revoked device's edges, the purge of wrong codes) count as
taking one. For the first two that is what they do to others: a key has at most one
open pairing, and whoever touches the edges of a device holds the device's row. Two
purges that cross are the case this leaves out. Requests that hold nothing while they wait (between a read and
its transaction, or before a callback announces a revocation) are in nobody's way,
so a call that authenticates first is a `read` followed by its own program.

Google's linking locks a user and then its verification, against the order of
everything else (`google.go:221`): it is the one kind in `Unordered`. PostgreSQL
detects that wait and aborts one of the two; requests waiting for *slots* would be
detected by nobody, which is why the two pools are apart (`setup.go:26-31`).
`Layered` is what the separation comes to as a rule on programs that Google's linking
obeys too: a slot is asked for above everything held, and who is inside a pool asks
for nothing below it. PoolsInOrder is the same of the requests as they run.

### RelayHub, RelaySeats

The one module that is about goroutines. `stage` is where `ServeHTTP` stands;
every critical section of the hub's mutex is one action, and what it decided is
put in `todo` and carried out one channel operation at a time (`CarryOut`). The
write pump (`Deliver`, `CloseStopped`), the monitor (`Check`), the lease timer and
the announcers of revocations run in between. `Enqueue` has the three outcomes of
the `select` in the code, including the free choice when a peer is stopped and
there is room. Map iteration order is a free choice of sequence. `Revoke` is a
commit in the database by either service and `Collect`/`StopMatched` the
announcement after it, so the module composes the hub with Connectors' and
Sessions' promises in the form the hub sees them: a ticket can be consumed only
while nothing covering it is revoked (AdmissionNeedsLiveAuthority), and every end
of a session is announced (NoSilentEnd). `view` is what the far end was last
told. A ping that goes unanswered, a read error and a failed write are all
`ConnectionLost`; a malformed frame ends the loop like a refused one.

RelaySeats is what ADRs 0014 and 0021 promise of who is connected, with no mutex,
queues or goroutines: each identity has one seat; a socket admitted while its
authority was live takes it, at once from whoever sat there; a revocation, once
announced, clears every seat it covers and no other; so do a look at the authority
that finds it gone, and shutdown; nobody comes back. RelayHub implements it: a socket
sits (`Seated`) from `register` until its `done` is closed *or somebody has decided
to close it* and has that stop still to carry out, so what is decided under the mutex
counts as done. A revocation is `announced` once its announcer has collected its
peers, and a socket `checked` once it has completed a check of its admission.

### Sessions, TokenChain

The two tokens handed out together are one "pair". A refresh locks the
credential and then the session and is one action, by outcome: `RefreshReused`,
`RefreshLapsed`, `RefreshInactive`, `RefreshRotates`. Any pair ever handed out may
be presented at any time, which covers retries, two tabs and copies.
TokenChain is what ADR 0001 promises with no tables at all: each session has a
tip, a pair is handed out once, and nothing moves after the end. Sessions
implements it under the mapping `Tip` (the only unused credential), `Spent` (rows
of the table), `Ended` (revoked sessions).

### Accounts

A password is written as the person who chose it and a session as the person
who was given it, so that SessionsBelong can speak of people. Login is two
actions, its read and its transaction, and so is each path of a Google sign-in
that finds no row: `GoogleFindsNoLink`, `GoogleFindsNobody` lock nothing, the step
after them may hit a unique index, and `Retry` is the loop of
`AuthenticateWithGoogle`. `Replace` keeps `created_at` (`cooling`) of an existing row:
gorm's `UpdateAll` updates every column except those with a default or a creation
time, and `CreatedAt` is one by its name.

What Google asserts is external: a subject asserts addresses whose mailbox is its
owner's. In the instance each subject asserts one address, and under that the
conflict branch of `GoogleLinks` is not reached. A subject that asserts two
addresses, as `google.go:18` says it can in the course of time, may lose on two
indexes in turn: a sign-in with the first address loses its insert to a registration
of that address and starts over; a sign-in with the second address creates an account
and links the subject; the first one, which had looked for a link before that, hits
the index of links and has no retry left. So "one retry is enough"
(`google.go:9-12`) is true of one address per subject only; with two retries it would
be true of any number. That is how RetryEnough states it, and the reason for its
hypothesis.

Left out: the mark a bounced mail leaves, and the decoy ticket answered to a
registration of a taken address.

## 3. Runs

| run | module | instance | question | states |
|---|---|---|---|---|
| ceremony | MCConnectors | 2 accounts, 2 phones, 1 connector, 2 pairings, wrong codes, 2 draws | do competing accounts get trust only by consent, apart from each other, one claim per pairing? do the tables implement Agreement? | 0.8 M |
| credentials | MCConnectors | 1 account, 1 session, 1 device, 1 connector, 2 pairings, 2 draws, 1 ticket, 2 names | do credentials stay unique and dead once retired, over pairing, re-pairing, rotation and revocation? does a ticket bought earlier admit only live, consented authority? | 1.7 M |
| claims | MCClaimGuard | 3 claims from 3 networks over a table of 2, 2 accounts, 4 challenges, clock to 2 | are the budgets kept and innocents let through, with time running between any two steps? | 0.2 M |
| waits | MCWaits | 3 requests of 23 kinds, 1 worker, 2 + 2 connections | who can wait for whom, and is all given back? | 0.7 M |
| revocation | MCRelayHub | 3 sockets: a device renewing over a connector, its revocation | do announcement and check together reach every socket, through supersession and a lost connection? do the goroutines implement RelaySeats? | 3.1 M |
| lifetime | MCRelayHub, fair | 2 sockets, queue of 2, talk, lease, new trust, shutdown | does every revoked socket leave? is anything untrusted queued? | 0.6 M |
| sessions | Sessions | 2 accounts, 2 sessions, 4 pairs | do the tables implement the chain, with no silent end? | 0.5 M |
| accounts | MCAccounts | 2 people, a new and an old address, 3 Google accounts, 2 requests | are sessions, links and tries as promised under races? | 1.1 M |
| presence, calls, firstsignin, cooldown | | | findings, below | |

Bounds. Every hazard concerns at most two actors of a kind. Two accounts and two
devices compete for one connector because the rows of different connectors share
no guard; two pairings are enough for a re-pairing that meets an old row. Two draws
in `credentials` are a confirmation and a rotation, or two confirmations; longer
chains of draws are covered by the proofs, which have no bound. `ceremony` has
tickets in none of its actions, so the admissions of Agreement are the proof's too.
`MaxChallenges` and `MaxFailures` bound totals; a challenge can be issued whenever
none is out, so no other variable loses a value by it.

In `claims` the limits are small and of different sizes (one request per network in
a window of two ticks, two wrong codes per account, one in all per tick) so that
each is reached alone and together with the others; the code's are 10 a minute per
network with 10,000 networks, 10 an hour per account and 120 a minute in all. Three
networks over a table of two make eviction happen. In `waits` three requests can
fill every pool, and a circle of waits with more members always has a shorter one
in it or is excluded by the proof for any number of requests.

Three sockets of two identities are the smallest set with a renewal and a partner;
capacity 3 holds the greetings of one partner and, with another notice, overflows.
In accounts, `MaxAttempts` 1 and `Retries` 1 are a cap that is reached and the code's
own number of retries. Deadlock is checked in `waits`; the other runs use bounded
draws, tickets, clocks and sockets and so come to a legitimate end.

Fairness (lifetime only). A goroutine that can run does; a pump's `select`, taken
again and again, sees `done` in the end (a blocked write is ended by the write
timeout); a check that failed for another reason is retried after a second and
answered in the end; announcements proceed. Nothing is asked of the far end, the
network or the lease, so RevokedSocketLeaves does not hold thanks to the lease.
The hub's mutex is held for no blocking operation, so weak fairness is enough.

### Properties

Connectors: **TrustNeedsConsent**, **AdmissionsNeedConsent** (a pairing claimed by
the account and approved at OpenCode for that very device stands behind every
edge and every listed peer), **AccountIsolation**, **RevokedDeviceHoldsNothing**,
**CredentialsNotShared** (the lookup by current-or-pending hash has one answer),
**RetiredStayRetired**, **ReplacementIsDeliberate**, **PairingClaimedOnce**,
**AdmissionNeedsLiveAuthority**, **AgreementSpec** (the refinement).
ClaimGuard: **LimiterBounded**, **RefusalEarned** (who is refused has used up a
window, whoever else filled the table), **AccountBudget** (exact, though times are
read before the lock), **GlobalBudget** (passed by less than one code per account),
**GuessesCostChallenges**. Waits: **SlotsReturned**, **TakenInOrder**,
**OnlyUnorderedStall** (in every circle of waits there is a linking request),
**PoolsNeverStall** (every circle has one of row locks alone in it), **PoolsInOrder**
(the rule on what is asked for and held that makes it so).
RelayHub: **RevocationReachesSocket**, **OneSocketPerIdentity**,
**PartnersIntroduced**, **OnlyTrustedMessages**, **TeardownSparesSuccessor**,
**RevokedSocketLeaves**, **SeatsSpec** (the refinement). Sessions: **OneTradableCredential**, **NoSilentEnd**,
**ChainSpec**. Accounts: **SessionsBelong**, **TriesCapped**, **LinksNeedProof**,
**RetrySuffices**. Each has beside its module's definitions a `Mutant...` operator, a
plausible mistake in the code under which the run refutes it.

### What the violation runs show

- **presence** - the hub's notices are enqueued after its mutex is released, so
  the offline notice of a lost socket can arrive after the hello of the socket
  that replaced it, and nothing corrects it: the partner shows a connected peer
  as offline until the next reconnection (`production.go:397-399, 434-436`, against
  its comments at 370-371 and 389 and ADR 0014).
- **calls** - reading `/v1/connectors/self`, or retrying an activation, with the
  current credential leaves a pending rotation in place, though ADR 0012 says that
  a match on the current credential cancels it (`service.go:823-844, 916-921`).
- **firstsignin** - of two simultaneous first sign-ins of one Google account the
  second may be told that the account is linked to a *different* Google account
  (`google.go:251`, against `types.go:50-53` and ADR 0009): no unique index was hit,
  so nothing is retried.
- **cooldown** - the cooldown of the mailed code works once per registration, since
  a replaced row keeps its first `created_at` (`identity/postgres/store.go:283`,
  against ADR 0008).

## 4. Proofs

Every theorem is for all values of the constants, from the one named assumption of
its module (`ConnectorsAssumption` and so on), which asks for no more than distinct
values, owners of sessions, positive limits and, where something is counted, finite
sets. Bounds that a run needs (`MaxTime`, the sets of draws) are arbitrary.

**ConnectorsProofs**: TypeCorrect, Consent, AdmissionConsent, Isolation, Revocation
(the invariants TypeOK, TrustNeedsConsent, AdmissionsNeedConsent, AccountIsolation,
RevokedDeviceHoldsNothing) and ClaimedOnce (the action property). The invariants are
not inductive one by one, so they are proved together as `IInv`, with one addition,
`PairingLife`: a pairing has a connector exactly when it exists, its claimant and its
device come together, an approval names the device of the claim, and no seed is
there before it completes. It is needed because ConfirmPairing creates trust from a
*row*, and only the history of that row (claimed once, approved for its device,
never reopened) makes the edge a consented one. Consent of older edges survives
because pairings only advance (`Advances`), which is also ClaimedOnce. Consent of
admissions follows from that of trust at the moment a ticket is consumed. One lemma
per group of actions has one step per action.

**CredentialProofs** builds on it. Every step is first put into one of a few kinds
(`GivesOut`: nothing new, a device or a connector rotates, a pairing is confirmed);
the facts about credentials are then proved per kind and not per action.
OneRowPerCredential needs `SlotsIssued`: what stands in a slot was drawn, or is the
secret of a completed pairing of that connector, so a fresh draw is in no slot.
RetiredForGood and Deliberate follow from the kinds. LiveAuthority needs
`TicketsStand`: an unlapsed ticket belongs to a subject whose credential has not
lapsed, because a credential lapses with its tickets. Refinement shows
`Spec => AgreementSpec`: one lemma per action of Agreement, each action of the
tables mapped to one of them or to a stutter; beside `IInv` it needs only that
consumed tickets have a user (`TradedHaveUser`).

**SessionsProofs**: SessionsTyped, OneCredential, NothingSilent, Refinement. `IInv` adds
`Unopened` and `Opened` (an open session's current pair is its unused row, and every
other row of it is used), `FreshUnused` and `OwedTruly` (an announcement owed is of a
session that was revoked). Opened determines the `CHOOSE` of `Tip`: the tip of an open
session is its current pair, so each action maps to HandOut, End or a stutter.

**AccountsProofs**: TypeCorrect, Belong, Capped, Linked, RetryEnough. `AccountsInv` joins them with
`AllEarned` (a request that read an account knew its password, or is backed by what
Google asserts), `Rows` (whose a pending password may be, and what an active account
proved) and `CodesCounted` (a row's counter is at least the tries of its code, and no
two rows have the same code). AllEarned is what carries a decision over the gap
between Login's read and its transaction. RetryEnough needs two more facts: `Asserted`
(every link is of an address that its subject asserts) and `AllRaced`,
which says what a request that has started over knows: an insert that lost leaves a
row, rows of accounts and links stay, and so the second pass finds what the first one
hit. A second conflict can only be on the other index, and if the subject asserts one
address, that link would have been found.

**RelayHubProofs**: TypeCorrect, Reached, OneSocket, SuccessorSpared, OnlyTrusted,
PartnersTold, Refinement.
`HubInv` says what each goroutine's position guarantees: `Threads` (an idle or ended
goroutine owes nothing), `Places` (a place in the map is a registered socket's of that
identity), `Announced` (announcers follow the commit and collect once), `Placed` (a
serving socket holds its place or is being stopped), and RevocationReachesSocket
itself. OneSocket follows from Placed; the messages queued and owed are `Honest`,
which gives OnlyTrusted. PartnersTold rests on `Introduced`: of two registered sockets
that may talk each is `Told` of the other, in its view, its queue or in what a
goroutine still owes it, or can be told nothing any more. It is inductive because
`register` decides both hellos under the mutex that makes the two partners, and from
then on a hello only moves: from the goroutine that owes it to the queue (or the full
queue stops the socket) and from there to the far end, who forgets nobody. Refinement maps every
step of a goroutine to a step of RelaySeats or a stutter. `Targets` (whoever is
stopped, owed a stop or collected for one has registered) keeps a stop from reaching a
socket that is only admitted; then a decision under the mutex clears seats at once,
and carrying it out changes no phase (`CarryOutStops`), except where `Enqueue` finds a
queue full, which is a Leave. That an announcement clears *every* seat of a
revocation is Placed: who is seated holds its place in the map that is collected.

**WaitsProofs**: OrderKept, SlotsAccounted, OnlyUnordered, for any programs that are
`Disciplined` and `TakenOnce`, LayersKept and PoolsGoOn for any that are `Layered` and
`TakenOnce`. The invariant is that a request holds what its program
has taken so far (`HeldByProgram`). Among requests that wait for each other, take the
one that holds the highest resource: it waits for something higher, whose holder
would hold a higher one still, unless a request outside the order is involved. For
PoolsGoOn take, among those that wait for ever on account of a pool, the one whose
pool ranks highest: the holders of its slots (`FullPoolHeld`) can only wait for rows
at or above that pool, and nobody blocks those but holders of such rows, so they wait
for each other through rows alone (`RowsAlone`), which the database ends. That
the server's programs satisfy the hypotheses is what the run checks, as TakenInOrder,
PoolsInOrder and SlotsReturned over every program.

**RateLimiterProofs**: AllowKeeps, one lemma about one call for ClaimGuard: a table that
is `Sound` (map and list name the same clients, each once) and within its capacity
stays so, and a client's entry changes only as its window says. **ClaimGuardProofs**:
LimiterHolds and RefusalsHold (`LimiterInv`: every entry is `Backed` by the last visits
let through), ChallengesHold (`TurnsInv`: a challenge and an account have one holder, a
held challenge is unspent), AccountBudgetHolds and GlobalBudgetHolds (`BudgetInv`: no
row that anyone may still count is purged; a claim past the account's count leaves
room for itself; recent codes and cleared claims together stay below the limit plus
the other accounts).

Only model-checked: RevokedSocketLeaves, which as a liveness property under fairness
is out of the proof system's reach, and the four findings, which are refutations on an
instance. Every other property of a passing run is a theorem.

## 5. Plan

Done, in this order: Connectors (ceremony, rotation, tickets, revocation), RelayHub,
AuthenticatedCalls, Sessions with TokenChain, Accounts, Agreement, Waits with
Transactions, RateLimiter, ClaimGuard, the proofs of each, and RelaySeats with the proof
that the hub implements it.

Left, by importance:

1. The purge of wrong codes as a statement on many rows: two purges of different
   accounts may cross, and PostgreSQL then aborts one.
2. In Accounts, the mark a bounced mail leaves and the decoy ticket of a
   registration of a taken address (Transactions has their locks).

## 6. Not modelled

- *HTTP handlers, router, health, access tag*: decoding, signatures over requests,
  statuses. They keep no state but the limiters; the one in front of claims is in
  ClaimGuard, the others are the same code with other numbers.
- *Mail protocols, Google's keys and signatures*: I/O and a library. That a mail may
  not arrive and what Google may assert are in Accounts.
- *Hashing and drawing of tokens*: values in the models, distinct by assumption; the
  workers that hash are in Waits.
- *Disposable address detector*: loads a list with retries and answers from it;
  nothing else depends on its state.
- *Configuration and start of the process*: fixed before anything runs. Its shutdown
  is `CloseHub`.
- *Development relay, load test*: the first is built only without a database and
  authenticates nobody, the second is a client. Neither is part of the service.
