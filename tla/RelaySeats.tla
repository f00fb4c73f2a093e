------------------------------ MODULE RelaySeats ------------------------------
(***************************************************************************)
(* What the relay promises about who is connected (ADRs 0014 and 0021),    *)
(* with no goroutines, queues or mutex: an identity has one seat, a socket *)
(* admitted while its authority was live may take it from whoever sits     *)
(* there, and a revocation, once announced, clears every seat it covers.   *)
(* Nobody sits twice, and everything happens at once.                      *)
(***************************************************************************)
CONSTANTS Sockets, KeyOf, SessionOf, Revocations, Account

VARIABLES
    phase,      \* of each socket: idle, admitted, seated, gone
    revoked,    \* committed revocations
    announced,  \* those the relay was told of
    checked     \* sockets whose authority was looked at again while they sat

seatVars == <<phase, revoked, announced, checked>>

Covers(r, s) == r \in {KeyOf[s], SessionOf[s], Account}
Ended(s) == \E r \in revoked : Covers(r, s)

\* Those of S who sit get up.
Cleared(S) ==
    [s \in Sockets |-> IF s \in S /\ phase[s] = "seated" THEN "gone" ELSE phase[s]]

Init ==
    /\ phase = [s \in Sockets |-> "idle"]
    /\ revoked = {}
    /\ announced = {}
    /\ checked = {}

Admit(s) ==
    /\ phase[s] = "idle" /\ ~Ended(s)
    /\ phase' = [phase EXCEPT ![s] = "admitted"]
    /\ UNCHANGED <<revoked, announced, checked>>

\* A renewal takes the place of the socket before it in the same instant.
Sit(s) ==
    /\ phase[s] = "admitted"
    /\ phase' = [Cleared({t \in Sockets : KeyOf[t] = KeyOf[s]}) EXCEPT ![s] = "seated"]
    /\ UNCHANGED <<revoked, announced, checked>>

\* Anybody may leave at any time, for whatever reason, and does not come back.
Leave(s) ==
    /\ phase[s] \in {"admitted", "seated"}
    /\ phase' = [phase EXCEPT ![s] = "gone"]
    /\ UNCHANGED <<revoked, announced, checked>>

\* The authority of who sits is looked at: it sits on only if that is live.
Look(s) ==
    /\ phase[s] \in {"seated", "gone"}
    /\ checked' = checked \cup {s}
    /\ phase' = IF Ended(s) THEN Cleared({s}) ELSE phase
    /\ UNCHANGED <<revoked, announced>>

Revoke(r) ==
    /\ r \notin revoked
    /\ revoked' = revoked \cup {r}
    /\ UNCHANGED <<phase, announced, checked>>

\* Every seat the revocation covers is cleared, whether or not its socket has
\* been looked at, and nobody else's.
Announce(r) ==
    /\ r \in revoked
    /\ announced' = announced \cup {r}
    /\ phase' = Cleared({s \in Sockets : Covers(r, s)})
    /\ UNCHANGED <<revoked, checked>>

ShutDown ==
    /\ phase' = Cleared(Sockets)
    /\ UNCHANGED <<revoked, announced, checked>>

Next ==
    \/ \E s \in Sockets : Admit(s) \/ Sit(s) \/ Leave(s) \/ Look(s)
    \/ \E r \in Revocations : Revoke(r) \/ Announce(r)
    \/ ShutDown

Spec == Init /\ [][Next]_seatVars
===============================================================================
