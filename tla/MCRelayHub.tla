------------------------------ MODULE MCRelayHub ------------------------------
(* RelayHub on small instances: sockets named after the identity they       *)
(* prove.  Client sockets belong to one session.                            *)
EXTENDS RelayHub, TLC

CONSTANTS a1, a2, b1, b2, d1, c1, s1

\* a1 and a2 are two connections of one device (a renewal), b1 and b2 those
\* of one connector.
Key == [s \in Sockets |-> IF s \in {a1, a2} THEN d1 ELSE c1]
Session == [s \in Sockets |-> IF s \in {a1, a2} THEN s1 ELSE NONE]

Paired == {<<d1, c1>>}
===============================================================================
