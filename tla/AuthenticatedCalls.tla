-------------------------- MODULE AuthenticatedCalls ---------------------------
(***************************************************************************)
(* Connectors with the connector calls that present a current credential   *)
(* and change nothing, and with a record of the connector that made the    *)
(* last authenticated call: what such a call owes a pending rotation is a  *)
(* matter of these calls too.                                              *)
(***************************************************************************)
EXTENDS Connectors

VARIABLE caller  \* the connector whose current credential the last step presented

callVars == <<vars, caller>>

\* GET /v1/connectors/self: a connector reads its own metadata.
OwnConnector(c) ==
    /\ ConnectorAuthenticates(c)
    /\ UNCHANGED vars

\* An activation that presents the credential that is already current: the
\* retry of an activation whose answer was lost.
RetryActivation(c) ==
    /\ ConnectorAuthenticates(c)
    /\ UNCHANGED vars

\* The calls a current credential authorizes, other than those that start a
\* rotation or end the connector.
Call(c) ==
    \/ OwnConnector(c)
    \/ RetryActivation(c)
    \/ \E t \in Tickets : IssueConnectorTicket(c, t)

CallInit == Init /\ caller = NONE

CallNext ==
    \/ \E c \in ConnectorKeys : Call(c) /\ caller' = c
    \/ Next /\ caller' = NONE

CallSpec == CallInit /\ [][CallNext]_callVars

\* "A match on the current one cancels any pending rotation in the same
\* transaction that authorizes the request" (docs/adr/0012, Consequences): a
\* connector whose current credential has just authorized a call has no
\* rotation pending.
CurrentCredentialCancelsRotation ==
    caller # NONE => connector[caller].pending = NONE
===============================================================================
