-------------------------------- MODULE Waits --------------------------------
(* Requests that wait for each other: for a worker that hashes passwords,   *)
(* for a connection of a pool, for a row another transaction has locked.    *)
(* What a request takes, and in which order, is its program (Transactions   *)
(* has the programs of the server); this module is about who waits for whom.*)
EXTENDS Naturals, FiniteSets, Sequences

CONSTANTS
    Requests,   \* requests that may be under way at once
    Program,    \* by kind of request: the sequence of its steps
    Slots,      \* what is taken from a bounded pool
    Capacity,   \* by slot: the size of the pool
    Rank,       \* by resource: its place in the order in which they are taken
    MaxRank,
    Unordered,  \* the kinds of request that do not keep that order
    NONE

Kinds == DOMAIN Program
Resources == DOMAIN Rank
Rows == Resources \ Slots
Modes == {"update", "change", "share"}
Takes == {"take", "may"}

\* What a request of kind k has taken before its step i and not given back.
HeldAt(k, i) ==
    {r \in Resources : \E j \in 1 .. (i - 1) :
        /\ Program[k][j].do \in Takes /\ Program[k][j].what = r
        /\ \A n \in (j + 1) .. (i - 1) :
              /\ Program[k][n].do # "commit"
              /\ ~(Program[k][n].do = "return" /\ Program[k][n].what = r)}

\* A request of kind k asks only for what ranks above everything it holds.
InOrder(k) ==
    \A i \in 1 .. Len(Program[k]) :
        Program[k][i].do \in Takes =>
            \A r \in HeldAt(k, i) : Rank[r] < Rank[Program[k][i].what]

\* All kinds of request do, but the excepted ones.
Disciplined == \A k \in Kinds \ Unordered : InOrder(k)

\* And no kind asks for what it holds.
TakenOnce ==
    \A k \in Kinds : \A i \in 1 .. Len(Program[k]) :
        Program[k][i].do \in Takes => Program[k][i].what \notin HeldAt(k, i)

\* And every kind, the excepted ones too, keeps to the pools: a slot ranks above
\* all that is held when it is asked for, and what is asked for while something
\* at or above a pool is held is not below that pool.
Layered ==
    \A k \in Kinds : \A i \in 1 .. Len(Program[k]) :
        Program[k][i].do \in Takes =>
            \A r \in HeldAt(k, i) :
                /\ Program[k][i].what \in Slots => Rank[r] < Rank[Program[k][i].what]
                /\ \A x \in Slots : Rank[x] <= Rank[r] => Rank[x] <= Rank[Program[k][i].what]

Steps == [do : Takes \cup {"return", "commit"}, what : Resources, mode : Modes]

ASSUME WaitsAssumption ==
    /\ IsFiniteSet(Requests)
    /\ MaxRank \in Nat
    /\ Rank \in [Resources -> 0 .. MaxRank]
    /\ Slots \subseteq Resources
    /\ Capacity \in [Slots -> Nat \ {0}]
    /\ NONE \notin Kinds
    /\ \A k \in Kinds :
          /\ Program[k] \in Seq(Steps)
          /\ Len(Program[k]) > 0
          /\ Program[k][Len(Program[k])].do = "commit"

VARIABLES
    kind,   \* what each request is, NONE when it is not under way
    pc,     \* the step it is at
    held,   \* the resources it holds, with the mode of a row's lock
    used    \* by slot: how many are out

vars == <<kind, pc, held, used>>

Init ==
    /\ kind = [q \in Requests |-> NONE]
    /\ pc = [q \in Requests |-> 1]
    /\ held = [q \in Requests |-> {}]
    /\ used = [r \in Slots |-> 0]

Running(q) == kind[q] # NONE
Step(q) == Program[kind[q]][pc[q]]
Holds(q, r) == \E m \in Modes : <<r, m>> \in held[q]

\* Row locks of PostgreSQL: SELECT FOR UPDATE (as DELETE, a changed key and a
\* unique key being inserted), UPDATE, and the FOR KEY SHARE of a foreign key.
Conflict(m, n) ==
    \/ m = "update" \/ n = "update"
    \/ m = "change" /\ n = "change"

\* p stands in the way of q.
Blocks(p, q) ==
    \E m \in Modes : <<Step(q).what, m>> \in held[p] /\ Conflict(m, Step(q).mode)

Advance(q) == pc' = [pc EXCEPT ![q] = @ + 1]

Arrive(q, k) ==
    /\ ~Running(q)
    /\ kind' = [kind EXCEPT ![q] = k]
    /\ UNCHANGED <<pc, held, used>>

\* A worker or a connection is free.
TakeSlot(q) ==
    /\ Running(q)
    /\ Step(q).do = "take" /\ Step(q).what \in Slots
    /\ used[Step(q).what] < Capacity[Step(q).what]
    /\ used' = [used EXCEPT ![Step(q).what] = @ + 1]
    /\ held' = [held EXCEPT ![q] = @ \cup {<<Step(q).what, Step(q).mode>>}]
    /\ Advance(q)
    /\ UNCHANGED kind

\* The database grants the lock on a row.
LockRow(q) ==
    /\ Running(q)
    /\ Step(q).do \in Takes /\ Step(q).what \in Rows
    /\ \A p \in Requests \ {q} : ~Blocks(p, q)
    /\ held' = [held EXCEPT ![q] = @ \cup {<<Step(q).what, Step(q).mode>>}]
    /\ Advance(q)
    /\ UNCHANGED <<kind, used>>

\* A row that only some requests of this kind lock.
PassOver(q) ==
    /\ Running(q)
    /\ Step(q).do = "may"
    /\ Advance(q)
    /\ UNCHANGED <<kind, held, used>>

\* A mistake: only a connection comes back, a worker does not.
MutantKeepsWorker(q, R) ==
    [r \in Slots |-> IF r \in R \cap {"connectors", "identity"} /\ Holds(q, r)
                     THEN used[r] - 1 ELSE used[r]]

\* The pools after q gave back the slots among R.
GivenBack(q, R) ==
    [r \in Slots |-> IF r \in R /\ Holds(q, r) THEN used[r] - 1 ELSE used[r]]

\* A worker after hashing, or a connection after a single read.
Return(q) ==
    /\ Running(q)
    /\ Step(q).do = "return"
    /\ used' = GivenBack(q, {Step(q).what})
    /\ held' = [held EXCEPT ![q] = {h \in @ : h[1] # Step(q).what}]
    /\ Advance(q)
    /\ UNCHANGED kind

\* A transaction ends: its locks and its connection are free.  The last commit
\* of a program is the end of the request.
Commit(q) ==
    /\ Running(q)
    /\ Step(q).do = "commit"
    /\ used' = GivenBack(q, Slots)
    /\ held' = [held EXCEPT ![q] = {}]
    /\ IF pc[q] = Len(Program[kind[q]])
       THEN /\ kind' = [kind EXCEPT ![q] = NONE]
            /\ pc' = [pc EXCEPT ![q] = 1]
       ELSE Advance(q) /\ UNCHANGED kind

\* At any step, waiting or not, a request may return early, fail, be cancelled
\* or run into its deadline: the transaction is rolled back or committed, and
\* what is deferred gives the slots back.
Leave(q) ==
    /\ Running(q)
    /\ kind' = [kind EXCEPT ![q] = NONE]
    /\ pc' = [pc EXCEPT ![q] = 1]
    /\ held' = [held EXCEPT ![q] = {}]
    /\ used' = GivenBack(q, Slots)

Next ==
    \E q \in Requests :
        \/ \E k \in Kinds : Arrive(q, k)
        \/ TakeSlot(q) \/ LockRow(q) \/ PassOver(q)
        \/ Return(q) \/ Commit(q) \/ Leave(q)

Spec == Init /\ [][Next]_vars

-----------------------------------------------------------------------------
\* Each of C waits for a row that another of C has locked, or for a pool whose
\* slots are all out to C: as long as none of C gives up, none of them goes on.
WaitsForRow(q, C) ==
    /\ Running(q) /\ Step(q).do \in Takes /\ Step(q).what \in Rows
    /\ \E p \in C \ {q} : Blocks(p, q)
WaitsForSlot(q, C) ==
    /\ Running(q) /\ Step(q).do \in Takes /\ Step(q).what \in Slots
    /\ used[Step(q).what] >= Capacity[Step(q).what]
    /\ {p \in Requests : Holds(p, Step(q).what)} \subseteq C

Stalled(C) == C # {} /\ \A q \in C : WaitsForRow(q, C) \/ WaitsForSlot(q, C)

\* Counters and holders agree: no exit keeps a worker or a connection, or gives
\* one back twice (password.go:120-131, the deferred release and the database's
\* pools), and no pool is overdrawn.
SlotsReturned ==
    \A r \in Slots :
        /\ used[r] = Cardinality({q \in Requests : Holds(q, r)})
        /\ used[r] <= Capacity[r]

\* A request asks for nothing that ranks at or below what it holds: that is what
\* the code's transactions have in common, in both services.
TakenInOrder ==
    \A q \in Requests :
        Running(q) /\ kind[q] \notin Unordered /\ Step(q).do \in Takes =>
            \A h \in held[q] : Rank[h[1]] < Rank[Step(q).what]

\* Nobody, not even an excepted request, goes back to a pool: a slot is asked for
\* only above all that is held, and what is asked for while a pool's slot or
\* something above it is held is not below that pool.  Passwords are hashed before
\* a connection is taken (password.go:120), and connectors' transactions ask
\* identity (service.go:836) but never the other way round (setup.go:31).
PoolsInOrder ==
    \A q \in Requests :
        Running(q) /\ Step(q).do \in Takes =>
            \A h \in held[q] :
                /\ Step(q).what \in Slots => Rank[h[1]] < Rank[Step(q).what]
                /\ \A x \in Slots : Rank[x] <= Rank[h[1]] => Rank[x] <= Rank[Step(q).what]

\* Whoever stalls, a request that does not keep the order is among them: rows
\* and slots are taken in one order by the transactions of both services, except
\* by Google's linking (google.go:221), so no others can wait for each other.
OnlyUnorderedStall ==
    \A C \in SUBSET Requests :
        Stalled(C) => \E q \in C : kind[q] \in Unordered

\* Whoever stalls, some of them wait for each other's rows alone, which the
\* database detects and ends.  Requests that wait for slots only would wait
\* until their callers give up (setup.go:26-31): the pools are apart so that
\* this cannot happen.
PoolsNeverStall ==
    \A C \in SUBSET Requests :
        Stalled(C) => \E D \in SUBSET C : D # {} /\ \A q \in D : WaitsForRow(q, D)
=============================================================================
