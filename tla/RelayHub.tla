-------------------------------- MODULE RelayHub ------------------------------
(***************************************************************************)
(* The relay's hub of live WebSockets (src/internal/relay/production.go):  *)
(* what the goroutines of each socket do, in the order the code does it,   *)
(* against revocations that commit and announce themselves meanwhile.      *)
(*                                                                         *)
(* A socket is served by one goroutine (ServeHTTP, which becomes its read  *)
(* loop), a write pump, a monitor of its authorization and a lease timer.  *)
(* The hub's mutex covers only its map of peers: what a goroutine decides  *)
(* under the mutex it carries out after releasing it, one channel send at  *)
(* a time.  Those effects are "todo" here, and other goroutines run        *)
(* between them.                                                           *)
(*                                                                         *)
(* The model follows the sockets of one account; securePeerID keeps those  *)
(* of different accounts apart.                                            *)
(***************************************************************************)
EXTENDS Naturals, Sequences, FiniteSets, SequencesExt

CONSTANTS
    ClientKeys,      \* key IDs of the account's devices
    ConnectorKeys,   \* key IDs of its connectors
    Sockets,         \* sockets that may be opened, each with one ticket
    KeyOf,           \* the identity the ticket of each socket names
    SessionOf,       \* the account session of a client's ticket, else NONE
    Trust,           \* trust edges <<device, connector>> that exist from the start
    NewTrust,        \* trust edges a pairing may add later
    Revocations,     \* what may be revoked: keys, sessions, the whole account
    Account,         \* the revocation of the whole account
    Capacity,        \* outboundQueueCapacity
    Talkers,         \* bound: sockets whose far end sends frames
    Leased,          \* bound: sockets whose lease may end
    Fragile,         \* bound: sockets whose connection may be lost
    Closes,          \* bound: whether the server may shut down
    NONE             \* no peer registered, no session

Keys == ClientKeys \cup ConnectorKeys

ASSUME RelayHubAssumption ==
    /\ ClientKeys \cap ConnectorKeys = {}
    /\ KeyOf \in [Sockets -> Keys]
    /\ Trust \cup NewTrust \subseteq ClientKeys \X ConnectorKeys
    /\ Capacity \in Nat \ {0}
    /\ IsFiniteSet(Sockets)
    /\ Talkers \cup Leased \cup Fragile \subseteq Sockets
    /\ Closes \in BOOLEAN
    /\ NONE \notin Sockets \cup Revocations
    /\ "close" \notin Revocations

VARIABLES
    \* the database
    trust,      \* committed trust edges
    revoked,    \* committed revocations
    \* the hub
    peers,      \* the registered socket of each key, or NONE
    closed,     \* the hub was closed: the server is shutting down
    \* the goroutines of each socket
    stage,      \* where ServeHTTP stands
    trusted,    \* keys the admission lists, fixed when the ticket is consumed
    todo,       \* effects decided under the mutex and not yet carried out, in order
    done,       \* peer.done is closed
    open,       \* the connection is open
    queue,      \* the outbound channel
    checked,    \* the monitor has completed a check
    \* the goroutines that announce a revocation or close the hub
    announcer,  \* where each announcement stands
    matched,    \* peers collected under the mutex and not stopped yet
    \* the far ends
    view        \* what each far end was last told of each key

dbVars == <<trust, revoked>>
hubVars == <<peers, closed>>
announcerVars == <<announcer, matched>>
vars == <<dbVars, hubVars, stage, trusted, todo, done, open, queue, checked,
          announcerVars, view>>

Closing == {"close"}
Announcers == Revocations \cup Closing

Stages == {"idle", "admitted", "registering", "serving", "ending", "leaving", "finished"}
Message == [type : {"ready", "hello", "offline", "frame"}, from : Sockets]
Effect == [act : {"stop"}, to : Sockets] \cup [act : {"send"}, to : Sockets, msg : Message]

OtherRole(k) == IF k \in ClientKeys THEN ConnectorKeys ELSE ClientKeys
Edge(k, l) == IF k \in ClientKeys THEN <<k, l>> ELSE <<l, k>>

\* Revocation.Covers: a revocation names a device or connector, a session, or
\* with nothing more every socket of the account.
Covers(r, s) == r \in {KeyOf[s], SessionOf[s], Account}
Ended(s) == \E r \in revoked : Covers(r, s)

Trusts(s, t) == KeyOf[t] \in trusted[s]
MutualTrust(s, t) == Trusts(s, t) /\ Trusts(t, s)
Registered == {peers[k] : k \in Keys} \ {NONE}
RegisteredOpposite(s) == {peers[k] : k \in OtherRole(KeyOf[s])} \ {NONE}

Send(t, type, s) == [act |-> "send", to |-> t, msg |-> [type |-> type, from |-> s]]
Stop(t) == [act |-> "stop", to |-> t]

Init ==
    /\ trust = Trust
    /\ revoked = {}
    /\ peers = [k \in Keys |-> NONE]
    /\ closed = FALSE
    /\ stage = [s \in Sockets |-> "idle"]
    /\ trusted = [s \in Sockets |-> {}]
    /\ todo = [s \in Sockets |-> <<>>]
    /\ done = [s \in Sockets |-> FALSE]
    /\ open = [s \in Sockets |-> FALSE]
    /\ queue = [s \in Sockets |-> <<>>]
    /\ checked = [s \in Sockets |-> FALSE]
    /\ announcer = [r \in Announcers |-> "idle"]
    /\ matched = [r \in Announcers |-> {}]
    /\ view = [s \in Sockets |-> [k \in Keys |-> "unknown"]]
-------------------------------------------------------------------------------
(* The serving goroutine.                                                  *)

\* The ticket is consumed against the database, which fixes whom the admission
\* trusts.
Admit(s) ==
    /\ stage[s] = "idle"
    /\ ~Ended(s)
    /\ stage' = [stage EXCEPT ![s] = "admitted"]
    /\ open' = [open EXCEPT ![s] = TRUE]
    /\ trusted' = [trusted EXCEPT ![s] =
                     {k \in OtherRole(KeyOf[s]) \ revoked : Edge(KeyOf[s], k) \in trust}]
    /\ UNCHANGED <<dbVars, hubVars, todo, done, queue, checked, announcerVars, view>>

\* The hello does not arrive, does not match or arrives after the lease.
RefuseHello(s) ==
    /\ stage[s] = "admitted"
    /\ stage' = [stage EXCEPT ![s] = "finished"]
    /\ open' = [open EXCEPT ![s] = FALSE]
    /\ UNCHANGED <<dbVars, hubVars, trusted, todo, done, queue, checked,
                   announcerVars, view>>

\* What a registration tells of each other, pair by pair: the newcomer and a
\* registered socket of the other role when each admission trusts the other.
MutantIntroduceOneWay(s, order) == [i \in DOMAIN order |-> Send(order[i], "hello", s)]

Introductions(s, order) ==
    [i \in 1..(2 * Len(order)) |-> IF i % 2 = 1 THEN Send(order[(i + 1) \div 2], "hello", s)
                                               ELSE Send(s, "hello", order[i \div 2])]

\* The socket the newcomer takes the place of is stopped.  (The mutant, here and
\* elsewhere, is a mistake the properties must notice; nothing uses it.)
MutantSupersedeQuietly(s) == <<>>

Superseded(s) == IF peers[KeyOf[s]] = NONE THEN <<>> ELSE <<Stop(peers[KeyOf[s]])>>

\* relay.ready enters the new queue; under the mutex the socket takes its
\* identity's place in the map, and what it owes others is decided (partners
\* in the map's iteration order, that is any order).
Register(s) ==
    /\ stage[s] = "admitted"
    /\ stage' = [stage EXCEPT ![s] = "registering"]
    /\ queue' = [queue EXCEPT ![s] = <<[type |-> "ready", from |-> s]>>]
    /\ peers' = [peers EXCEPT ![KeyOf[s]] = s]
    /\ \E order \in SetToSeqs({t \in RegisteredOpposite(s) : MutualTrust(s, t)}) :
          todo' = [todo EXCEPT ![s] = Superseded(s) \o Introductions(s, order)]
    /\ UNCHANGED <<dbVars, closed, trusted, done, open, checked, announcerVars, view>>

\* A message for a peer: queued; dropped if the peer is stopped (when both are
\* possible the select takes either); a full queue stops the peer.
MutantEnqueueBeyond(t, m) ==
    /\ queue' = [queue EXCEPT ![t] = Append(@, m)]
    /\ UNCHANGED done

Enqueue(t, m) ==
    \/ /\ Len(queue[t]) < Capacity
       /\ queue' = [queue EXCEPT ![t] = Append(@, m)]
       /\ UNCHANGED done
    \/ /\ done[t]
       /\ UNCHANGED <<queue, done>>
    \/ /\ Len(queue[t]) = Capacity
       /\ ~done[t]
       /\ done' = [done EXCEPT ![t] = TRUE]
       /\ UNCHANGED queue

\* The next effect is carried out.
CarryOut(s) ==
    /\ todo[s] # <<>>
    /\ LET e == Head(todo[s]) IN
          \/ /\ e.act = "stop"
             /\ done' = [done EXCEPT ![e.to] = TRUE]
             /\ UNCHANGED queue
          \/ /\ e.act = "send"
             /\ Enqueue(e.to, e.msg)
    /\ todo' = [todo EXCEPT ![s] = Tail(@)]
    /\ UNCHANGED <<dbVars, hubVars, stage, trusted, open, checked, announcerVars, view>>

\* Registration is over: the write pump, the monitor and the lease timer start.
Serve(s) ==
    /\ stage[s] = "registering"
    /\ todo[s] = <<>>
    /\ stage' = [stage EXCEPT ![s] = "serving"]
    /\ UNCHANGED <<dbVars, hubVars, trusted, todo, done, open, queue, checked,
                   announcerVars, view>>

\* A frame for key k may be routed: the sender trusts k, and so does k's socket
\* the sender, if it has one.
MutantRouteOneWay(s, k) == k \in trusted[s]

MayRoute(s, k) ==
    /\ k \in trusted[s]
    /\ peers[k] # NONE => Trusts(peers[k], s)

\* The read loop reads a frame for key k.  A frame for nobody is dropped; one
\* that may not be routed ends the loop, as does a malformed frame.
Route(s, k) ==
    /\ s \in Talkers
    /\ stage[s] = "serving" /\ open[s] /\ todo[s] = <<>>
    /\ MayRoute(s, k) /\ peers[k] # NONE
    /\ todo' = [todo EXCEPT ![s] = <<Send(peers[k], "frame", s)>>]
    /\ UNCHANGED <<dbVars, hubVars, stage, trusted, done, open, queue, checked,
                   announcerVars, view>>

\* A frame is refused, or the connection is closed: the read loop returns,
\* which ends the monitor and the timer.
ReadLoopReturns(s) ==
    /\ stage[s] = "serving" /\ todo[s] = <<>>
    /\ \/ ~open[s]
       \/ s \in Talkers /\ \E k \in Keys : ~MayRoute(s, k)
    /\ stage' = [stage EXCEPT ![s] = "ending"]
    /\ UNCHANGED <<dbVars, hubVars, trusted, todo, done, open, queue, checked,
                   announcerVars, view>>

\* Under the mutex: a socket that still holds its place gives it up and owes
\* the partners that trust it an offline notice; a superseded one owes nothing.
MutantUnregisterAnyway(s) == peers[KeyOf[s]] # NONE

StillRegistered(s) == peers[KeyOf[s]] = s

Unregister(s) ==
    /\ stage[s] = "ending"
    /\ stage' = [stage EXCEPT ![s] = "leaving"]
    /\ \/ /\ StillRegistered(s)
          /\ peers' = [peers EXCEPT ![KeyOf[s]] = NONE]
          /\ \E order \in SetToSeqs({t \in RegisteredOpposite(s) : Trusts(t, s)}) :
                todo' = [todo EXCEPT ![s] =
                           [i \in DOMAIN order |-> Send(order[i], "offline", s)]]
       \/ /\ ~StillRegistered(s)
          /\ UNCHANGED <<peers, todo>>
    /\ UNCHANGED <<dbVars, closed, trusted, done, open, queue, checked,
                   announcerVars, view>>

\* The deferred calls end by stopping the peer.
Finish(s) ==
    /\ stage[s] = "leaving" /\ todo[s] = <<>>
    /\ stage' = [stage EXCEPT ![s] = "finished"]
    /\ done' = [done EXCEPT ![s] = TRUE]
    /\ UNCHANGED <<dbVars, hubVars, trusted, todo, open, queue, checked,
                   announcerVars, view>>
-------------------------------------------------------------------------------
(* The write pump, the monitor, the lease timer and the network.           *)

PumpRuns(s) == stage[s] \in {"serving", "ending", "leaving", "finished"} /\ open[s]

\* A message is written; the far end learns of its partner.
Deliver(s) ==
    LET m == Head(queue[s]) IN
    /\ PumpRuns(s)
    /\ queue[s] # <<>>
    /\ queue' = [queue EXCEPT ![s] = Tail(@)]
    /\ view' = IF m.type \in {"hello", "offline"}
               THEN [view EXCEPT ![s][KeyOf[m.from]] = m.type]
               ELSE view
    /\ UNCHANGED <<dbVars, hubVars, stage, trusted, todo, done, open, checked,
                   announcerVars>>

\* The connection is gone, and nothing drains the queue any more.
Disconnected(s) ==
    /\ open' = [open EXCEPT ![s] = FALSE]
    /\ UNCHANGED <<dbVars, hubVars, stage, trusted, todo, done, queue, checked,
                   announcerVars, view>>

\* The pump of a stopped peer closes the connection.
MutantCloseFinished(s) == PumpRuns(s) /\ stage[s] = "finished" /\ Disconnected(s)

CloseStopped(s) == PumpRuns(s) /\ done[s] /\ Disconnected(s)

\* The far end or the network closes the connection, or a write fails.
ConnectionLost(s) == s \in Fragile /\ open[s] /\ Disconnected(s)

\* The monitor checks the admission against the database.  A refusal stops
\* the peer.  (A check that fails for another reason changes nothing.)
MutantCheckEarly(s) ==
    /\ stage[s] = "admitted" /\ ~checked[s]
    /\ done' = [done EXCEPT ![s] = Ended(s)]
    /\ checked' = [checked EXCEPT ![s] = TRUE]
    /\ UNCHANGED <<dbVars, hubVars, stage, trusted, todo, open, queue,
                   announcerVars, view>>

Check(s) ==
    /\ stage[s] = "serving" /\ ~done[s]
    /\ done' = [done EXCEPT ![s] = Ended(s)]
    /\ checked' = [checked EXCEPT ![s] = TRUE]
    /\ UNCHANGED <<dbVars, hubVars, stage, trusted, todo, open, queue,
                   announcerVars, view>>

\* The authorization lease ends.
LeaseEnds(s) ==
    /\ s \in Leased
    /\ stage[s] \in {"serving", "ending", "leaving"} /\ ~done[s]
    /\ done' = [done EXCEPT ![s] = TRUE]
    /\ UNCHANGED <<dbVars, hubVars, stage, trusted, todo, open, queue, checked,
                   announcerVars, view>>
-------------------------------------------------------------------------------
(* The database, the announcement of what it commits, and shutdown.        *)

\* A pairing completes elsewhere; admissions already given do not change.
Pair(e) ==
    /\ e \in NewTrust \ trust
    /\ e[1] \notin revoked /\ e[2] \notin revoked
    /\ trust' = trust \cup {e}
    /\ UNCHANGED <<revoked, hubVars, stage, trusted, todo, done, open, queue,
                   checked, announcerVars, view>>

\* A revocation commits; a revoked device's trust goes with it.
Revoke(r) ==
    /\ announcer[r] = "idle"
    /\ revoked' = revoked \cup {r}
    /\ trust' = {e \in trust : e[1] # r}
    /\ announcer' = [announcer EXCEPT ![r] = "committed"]
    /\ UNCHANGED <<hubVars, stage, trusted, todo, done, open, queue, checked,
                   matched, view>>

\* Under the mutex: the registered peers the revocation covers are collected,
\* after its commit.
Collect(r) ==
    /\ announcer[r] = "committed"
    /\ matched' = [matched EXCEPT ![r] = {s \in Registered : Covers(r, s)}]
    /\ announcer' = [announcer EXCEPT ![r] = "stopping"]
    /\ UNCHANGED <<dbVars, hubVars, stage, trusted, todo, done, open, queue,
                   checked, view>>

\* On shutdown the map is emptied and every peer in it is stopped.
CloseHub ==
    /\ Closes /\ ~closed
    /\ closed' = TRUE
    /\ peers' = [k \in Keys |-> NONE]
    /\ matched' = [matched EXCEPT !["close"] = Registered]
    /\ UNCHANGED <<dbVars, stage, trusted, todo, done, open, queue, checked,
                   announcer, view>>

\* The peers collected are stopped one by one, in any order.
StopMatched(r) ==
    \E s \in matched[r] :
        /\ matched' = [matched EXCEPT ![r] = @ \ {s}]
        /\ done' = [done EXCEPT ![s] = TRUE]
        /\ UNCHANGED <<dbVars, hubVars, stage, trusted, todo, open, queue, checked,
                       announcer, view>>
-------------------------------------------------------------------------------
Goroutine(s) ==
    \/ Register(s)
    \/ CarryOut(s)
    \/ Serve(s)
    \/ ReadLoopReturns(s)
    \/ Unregister(s)
    \/ Finish(s)

SocketStep(s) ==
    \/ Admit(s)
    \/ RefuseHello(s)
    \/ Goroutine(s)
    \/ \E k \in Keys : Route(s, k)
    \/ Deliver(s)
    \/ CloseStopped(s)
    \/ ConnectionLost(s)
    \/ Check(s)
    \/ LeaseEnds(s)

Outside ==
    \/ \E e \in NewTrust : Pair(e)
    \/ \E r \in Revocations : Revoke(r) \/ Collect(r)
    \/ \E r \in Announcers : StopMatched(r)
    \/ CloseHub

Next == Outside \/ \E s \in Sockets : SocketStep(s)

Spec == Init /\ [][Next]_vars

\* Goroutines that can run do; the select of a pump, taken again and again,
\* eventually sees done; every check ends with the database's answer in the
\* end, since a failed one is retried.  Neither the lease nor the far end nor
\* the network is counted on.
Fairness ==
    /\ \A s \in Sockets : /\ WF_vars(Goroutine(s))
                          /\ WF_vars(CloseStopped(s))
                          /\ WF_vars(Check(s))
    /\ \A r \in Revocations : WF_vars(Collect(r))
    /\ \A r \in Announcers : WF_vars(StopMatched(r))

FairSpec == Spec /\ Fairness
-------------------------------------------------------------------------------
(* Properties.                                                             *)

TypeOK ==
    /\ trust \subseteq Trust \cup NewTrust
    /\ revoked \subseteq Revocations
    /\ peers \in [Keys -> Sockets \cup {NONE}]
    /\ closed \in BOOLEAN
    /\ stage \in [Sockets -> Stages]
    /\ trusted \in [Sockets -> SUBSET Keys]
    /\ todo \in [Sockets -> Seq(Effect)]
    /\ done \in [Sockets -> BOOLEAN]
    /\ open \in [Sockets -> BOOLEAN]
    /\ queue \in [Sockets -> Seq(Message)]
    /\ \A s \in Sockets : Len(queue[s]) <= Capacity
    /\ checked \in [Sockets -> BOOLEAN]
    /\ announcer \in [Announcers -> {"idle", "committed", "stopping"}]
    /\ matched \in [Announcers -> SUBSET Sockets]
    /\ view \in [Sockets -> [Keys -> {"unknown", "hello", "offline"}]]

\* Some goroutine is about to stop the peer of s.
StopPending(s) ==
    \/ \E r \in Announcers : s \in matched[r]
    \/ \E t \in Sockets : Stop(s) \in ToSet(todo[t])

\* A socket sits when it is registered or serves and no stop is under way.
Seated(s) == stage[s] \in {"registering", "serving"} /\ ~done[s] /\ ~StopPending(s)

Phase ==
    [s \in Sockets |-> IF stage[s] \in {"idle", "admitted"} THEN stage[s]
                       ELSE IF Seated(s) THEN "seated" ELSE "gone"]

\* The hub, with its mutex, queues and goroutines, gives each identity one seat
\* and clears it at once: what is decided under the mutex is as good as done,
\* though stops are carried out later, one by one, by whoever decided them, and
\* no socket that is stopped or superseded comes back.
Seats == INSTANCE RelaySeats WITH
             phase <- Phase,
             announced <- {r \in Revocations : announcer[r] = "stopping"},
             checked <- {s \in Sockets : checked[s]}
SeatsSpec == Seats!Spec

\* Disconnect's promise: a socket registering while a revocation that covers
\* it commits is closed by the announcement or by the check it runs right
\* after registering.  Once both have happened, neither alone sufficing, it
\* is stopped or about to be.
RevocationReachesSocket ==
    \A s \in Sockets, r \in Revocations :
        stage[s] = "serving" /\ checked[s] /\ Covers(r, s) /\ announcer[r] = "stopping"
            => done[s] \/ StopPending(s)

\* Two sockets of one identity are never both left to serve: all but the one
\* in the map are stopped or about to be, while a registration's effects lag
\* behind its place in the map.
OneSocketPerIdentity ==
    \A s, t \in Sockets :
        s # t /\ KeyOf[s] = KeyOf[t] /\ {stage[s], stage[t]} \subseteq {"registering", "serving"}
            => \E x \in {s, t} : done[x] \/ StopPending(x)

\* Whatever is queued for a socket comes from a socket both admissions trust:
\* trust given since admission counts for nothing, and an offline notice too
\* goes only to a socket that trusts the one that left.
OnlyTrustedMessages ==
    \A s \in Sockets : \A m \in ToSet(queue[s]) :
        /\ m.type \in {"hello", "frame"} => MutualTrust(s, m.from)
        /\ m.type = "offline" => Trusts(s, m.from)

\* Two registered sockets that trust each other have been introduced: the far
\* end of each was told of the other's key, or a message about it is under
\* way, or the socket cannot be told any more.
PartnersIntroduced ==
    \A s \in Registered : \A t \in RegisteredOpposite(s) : MutualTrust(s, t) =>
        \/ view[s][KeyOf[t]] # "unknown"
        \/ done[s] \/ StopPending(s) \/ ~open[s]
        \/ \E m \in ToSet(queue[s]) : m.type = "hello" /\ m.from = t
        \/ \E u \in Sockets : Send(s, "hello", t) \in ToSet(todo[u])

\* The stale-write guard of unregister: a socket's teardown never removes the
\* registration that superseded it.
TeardownSparesSuccessor ==
    [][\A k \in Keys : peers[k] # NONE /\ peers'[k] = NONE =>
          closed' # closed \/ stage[peers[k]] = "ending"]_vars

\* A socket whose authority was revoked stops serving and leaves the hub, with
\* or without the cooperation of its far end, even if it was registering when
\* the revocation was announced.
RevokedSocketLeaves ==
    \A s \in Sockets :
        (stage[s] \in {"registering", "serving"} /\ Ended(s))
            ~> (stage[s] = "finished" /\ ~open[s] /\ s \notin Registered)

\* Nothing is under way.
Settled ==
    /\ \A s \in Sockets : /\ stage[s] \in {"idle", "serving", "finished"}
                          /\ todo[s] = <<>>
                          /\ stage[s] = "serving" =>
                                open[s] /\ ~done[s] /\ queue[s] = <<>>
    /\ \A r \in Announcers : matched[r] = {} /\ announcer[r] # "committed"

\* register's comments: a replacement lets "no spurious offline event" reach
\* other peers and each side is told of the other, so once nothing is under
\* way a far end last heard "hello" of every partner that is registered.
PresenceConverges ==
    Settled => \A s \in Registered : \A t \in RegisteredOpposite(s) :
        MutualTrust(s, t) => view[s][KeyOf[t]] = "hello"
===============================================================================
