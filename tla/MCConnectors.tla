----------------------------- MODULE MCConnectors -----------------------------
(* Connectors on small instances.  Values the actions treat alike are       *)
(* permuted; no run that uses a symmetry checks a liveness property.        *)
EXTENDS Connectors, TLC

CONSTANTS u1, u2

\* Every session belongs to the first account.
Owner == [s \in Sessions |-> u1]

Symmetry == Permutations(Tokens) \cup Permutations(Pairings) \cup
            Permutations(Tickets) \cup Permutations(Names)

\* Without sessions the accounts are interchangeable too, and so are the devices.
CeremonySymmetry == Symmetry \cup Permutations(Users) \cup Permutations(DeviceKeys)
===============================================================================
