----------------------------- MODULE RateLimiter -----------------------------
(* The limiter of requests by client: fixed windows in a table that never    *)
(* holds more than Capacity clients, in the order their windows were opened. *)
(* A table is a value here; whoever owns one calls Allow under its mutex.    *)
EXTENDS Integers, FiniteSets, Sequences, Functions

CONSTANTS
    Maximum,    \* requests of a client in one window
    Window,     \* the length of a window
    Capacity    \* clients the table may hold

ASSUME LimiterAssumption ==
    /\ Maximum \in Nat \ {0}
    /\ Window \in Nat \ {0}
    /\ Capacity \in Nat \ {0}

\* entries: by client, the window it is in; order: the list of the clients.
EmptyTable == [entries |-> <<>>, order |-> <<>>]

Tracked(table) == DOMAIN table.entries
Listed(table) == Range(table.order)

\* A mistake: the map forgets a client, the list does not.
MutantDrop(table, n) ==
    [table EXCEPT !.entries = Restrict(@, DOMAIN @ \ {table.order[i] : i \in 1 .. n})]

\* The first n clients of the list leave.
Drop(table, n) ==
    LET rest == SubSeq(table.order, n + 1, Len(table.order))
        gone == {table.order[i] : i \in 1 .. n}
    IN [entries |-> Restrict(table.entries, Tracked(table) \ gone), order |-> rest]

\* A mistake: a window lasts one moment longer than it should.
MutantExpired(entry, now) == now - entry.startedAt > Window

Expired(entry, now) == now - entry.startedAt >= Window

\* Windows that are over leave from the front, up to the first that is not.
RemoveExpired(table, now) ==
    LET over(n) == \A i \in 1 .. n : Expired(table.entries[table.order[i]], now)
    IN Drop(table, CHOOSE n \in 0 .. Len(table.order) :
                       over(n) /\ \A m \in 0 .. Len(table.order) : over(m) => m <= n)

\* The oldest windows leave until there is room for one more client.
Evict(table) ==
    LET excess == Cardinality(Tracked(table)) - Capacity + 1
    IN IF excess > 0 THEN Drop(table, excess) ELSE table

\* One more request in the client's window.
Counted(table, key) == [table EXCEPT !.entries[key].count = @ + 1]

\* The client's window starts again, at the back of the list.
Reopened(table, key, now) ==
    LET i == CHOOSE j \in DOMAIN table.order : table.order[j] = key
        before == SubSeq(table.order, 1, i - 1)
        after == SubSeq(table.order, i + 1, Len(table.order))
    IN [entries |-> [table.entries EXCEPT ![key] = [startedAt |-> now, count |-> 1]],
        order |-> Append(before \o after, key)]

Opened(table, key, now) ==
    [entries |-> [k \in Tracked(table) \cup {key} |->
                     IF k = key THEN [startedAt |-> now, count |-> 1] ELSE table.entries[k]],
     order |-> Append(table.order, key)]

\* Allow(key, now): whether the request passes, and the table after it.
Allow(table, key, now) ==
    LET swept == RemoveExpired(table, now) IN
    IF key \notin Tracked(swept)
    THEN [allowed |-> TRUE, table |-> Opened(Evict(swept), key, now)]
    ELSE IF Expired(swept.entries[key], now)
    THEN [allowed |-> TRUE, table |-> Reopened(swept, key, now)]
    ELSE IF swept.entries[key].count >= Maximum
    THEN [allowed |-> FALSE, table |-> swept]
    ELSE [allowed |-> TRUE, table |-> Counted(swept, key)]
=============================================================================
