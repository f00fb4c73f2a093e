------------------------------- MODULE MCWaits -------------------------------
(* The requests of the server, a few at a time, over the smallest pools.     *)
EXTENDS Waits, Transactions, TLC

\* The pools hold 20 connections each and the workers are few (setup.go,
\* database.go, password.go): three requests fill these.
PoolSizes == [hash |-> 1, identity |-> 2, connectors |-> 2]
PoolNames == DOMAIN PoolSizes
Last == Len(Order)

Symmetry == Permutations(Requests)
=============================================================================
