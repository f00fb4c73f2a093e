------------------------------ MODULE MCAccounts ------------------------------
(* Accounts on small instances: alice owns every mailbox and Google account, *)
(* bob registers and signs in with her addresses.                           *)
EXTENDS Accounts, TLC

CONSTANTS alice, bob, a1, a2, g1, g2, g3

OwnerOf == [a \in Addresses |-> alice]
Holder == [a \in Legacy |-> bob]
Person == [g \in Subjects |-> alice]

\* Every Google account asserts one address: g3 that of the old account.
OneAddress == {e \in Subjects \X Addresses : (e[1] = g3) <=> (e[2] = a2)}

Symmetry == Permutations(Codes) \cup Permutations(Requests) \cup Permutations({g1, g2})
===============================================================================
