------------------------------ MODULE TokenChain ------------------------------
(***************************************************************************)
(* What the account sessions promise: the pairs of tokens of a session     *)
(* form a chain of which only the last one is good, and once a session has *)
(* ended nothing is good any more (docs/adr/0001-revocable-auth-sessions).  *)
(***************************************************************************)
CONSTANTS Sessions, Pairs, NONE

VARIABLES
    tip,    \* the good pair of each session, NONE before it opens
    spent,  \* every pair handed out so far
    ended   \* sessions that have ended

chainVars == <<tip, spent, ended>>

Init ==
    /\ tip = [s \in Sessions |-> NONE]
    /\ spent = {}
    /\ ended = {}

\* A pair never handed out before becomes the tip of a session, its first or
\* the successor of its tip.
HandOut(s, y) ==
    /\ s \notin ended
    /\ y \notin spent
    /\ tip' = [tip EXCEPT ![s] = y]
    /\ spent' = spent \cup {y}
    /\ UNCHANGED ended

End(s) ==
    /\ tip[s] # NONE
    /\ ended' = ended \cup {s}
    /\ UNCHANGED <<tip, spent>>

Next == \E s \in Sessions : End(s) \/ \E y \in Pairs : HandOut(s, y)

Spec == Init /\ [][Next]_chainVars
===============================================================================
