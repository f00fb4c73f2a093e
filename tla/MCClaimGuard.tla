----------------------------- MODULE MCClaimGuard -----------------------------
(* Three claims of two accounts over a limiter of two places.                *)
EXTENDS ClaimGuard, TLC

CONSTANTS a1, a2, h1, h2, h3, h4

\* The first account has three challenges, the second one.
Owner == h1 :> a1 @@ h2 :> a1 @@ h3 :> a1 @@ h4 :> a2

Symmetry == Permutations(Claims) \cup Permutations(Clients) \cup
            Permutations({h1, h2, h3})
=============================================================================
