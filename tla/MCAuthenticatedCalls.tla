------------------------- MODULE MCAuthenticatedCalls --------------------------
(* AuthenticatedCalls on one account with one device and one connector.     *)
EXTENDS AuthenticatedCalls, TLC

CONSTANT u1

Owner == [s \in Sessions |-> u1]
===============================================================================
