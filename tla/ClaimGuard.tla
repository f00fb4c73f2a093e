------------------------------ MODULE ClaimGuard ------------------------------
(* What stands between a client and a guess at a pairing code: the limiter of *)
(* its network, a challenge that each guess spends, and the budgets of wrong  *)
(* codes of its account and of the service.  Claims run side by side; a step  *)
(* is what a claim does between two waits.  Times are read where the code     *)
(* reads them and used later.                                                 *)
EXTENDS RateLimiter

CONSTANTS
    Claims,             \* requests to claim a pairing
    Clients,            \* keys of the limiter
    Accounts,
    Challenges,
    ChallengeOwner,     \* by challenge: the account it was issued to
    AccountLimit, AccountWindow,
    GlobalLimit, GlobalWindow,
    MaxTime,            \* bound of the clock
    NONE

ASSUME ClaimGuardAssumption ==
    /\ IsFiniteSet(Claims) /\ IsFiniteSet(Accounts)
    /\ ChallengeOwner \in [Challenges -> Accounts]
    /\ AccountLimit \in Nat \ {0} /\ GlobalLimit \in Nat \ {0}
    /\ GlobalWindow \in Nat \ {0} /\ AccountWindow \in Nat /\ AccountWindow >= GlobalWindow
    /\ MaxTime \in Nat
    /\ NONE \notin Challenges \cup Clients

VARIABLES
    clock,
    limiter,    \* claimLimiter
    failures,   \* the rows of wrong codes: [claim, account, at]
    spent,      \* challenges that were used
    claim,      \* where each claim is, with what it has read
    codes,      \* every wrong code ever answered, as failures
    visits      \* by client: the times of the requests let through, in the limiter's order

vars == <<clock, limiter, failures, spent, claim, codes, visits>>

\* A claim waits with the time it read last: "arrived" with the limiter's,
\* "allowed", "read" with the service's, "challenged" with the row of its
\* challenge locked, "counted" with its account locked too, "cleared" by both
\* budgets.  It ends "over", or having learned whether a pairing has its code.
Locked == {"challenged", "counted", "cleared"}
Claim == [stage : {"idle", "arrived", "allowed", "read", "over", "learned"} \cup Locked,
          client : Clients \cup {NONE}, challenge : Challenges \cup {NONE},
          time : 0 .. MaxTime]
Stage(s, k, h, t) == [stage |-> s, client |-> k, challenge |-> h, time |-> t]
Idle == Stage("idle", NONE, NONE, 0)
Failure == [claim : Claims, account : Accounts, at : 0 .. MaxTime]

Init ==
    /\ clock = 0
    /\ limiter = EmptyTable
    /\ failures = {} /\ spent = {}
    /\ claim = [c \in Claims |-> Idle]
    /\ codes = {}
    /\ visits = [k \in Clients |-> <<>>]

AccountOf(c) == ChallengeOwner[claim[c].challenge]
At(c, stage) == claim[c].stage = stage
Goes(c, stage) == claim' = [claim EXCEPT ![c].stage = stage]
Ends(c) == claim' = [claim EXCEPT ![c] = Stage("over", NONE, NONE, 0)]
Learns(c) ==
    claim' = [claim EXCEPT ![c] = Stage("learned", NONE, claim[c].challenge, 0)]

\* A transaction keeps the row of its challenge and the lock of its account
\* until it ends.
HoldsChallenge(c, h) == claim[c].stage \in Locked /\ claim[c].challenge = h
HoldsAccount(c, a) == claim[c].stage \in Locked \ {"challenged"} /\ AccountOf(c) = a

Tick ==
    /\ clock < MaxTime
    /\ clock' = clock + 1
    /\ UNCHANGED <<limiter, failures, spent, claim, codes, visits>>

\* The handler reads the time; the limiter's mutex is taken afterwards.
Arrive(c, k, h) ==
    /\ At(c, "idle")
    /\ claim' = [claim EXCEPT ![c] = Stage("arrived", k, h, clock)]
    /\ UNCHANGED <<clock, limiter, failures, spent, codes, visits>>

Limit(c) ==
    LET k == claim[c].client
        answer == Allow(limiter, k, claim[c].time)
    IN /\ At(c, "arrived")
       /\ limiter' = answer.table
       /\ IF answer.allowed
          THEN /\ claim' = [claim EXCEPT ![c] = Stage("allowed", NONE, claim[c].challenge, 0)]
               /\ visits' = [visits EXCEPT ![k] = Append(@, claim[c].time)]
          ELSE Ends(c) /\ UNCHANGED visits
       /\ UNCHANGED <<clock, failures, spent, codes>>

\* The service reads the time, before its transaction begins.
ReadTime(c) ==
    /\ At(c, "allowed")
    /\ claim' = [claim EXCEPT ![c] = Stage("read", NONE, claim[c].challenge, clock)]
    /\ UNCHANGED <<clock, limiter, failures, spent, codes, visits>>

\* The row of the challenge is locked; a used one is refused.
TakeChallenge(c) ==
    LET h == claim[c].challenge IN
    /\ At(c, "read")
    /\ \A d \in Claims : ~HoldsChallenge(d, h)
    /\ IF h \in spent THEN Ends(c) ELSE Goes(c, "challenged")
    /\ UNCHANGED <<clock, limiter, failures, spent, codes, visits>>

\* A mistake: the claims of an account do not take turns.
MutantMayLock(c) == TRUE

\* The advisory lock of the account.
MayLock(c) == \A d \in Claims : ~HoldsAccount(d, AccountOf(c))

AccountFailures(c) ==
    {f \in failures : f.account = AccountOf(c) /\ f.at > claim[c].time - AccountWindow}
GlobalFailures(c) == {f \in failures : f.at > claim[c].time - GlobalWindow}

\* The account's wrong codes are counted under its lock.
CountAccount(c) ==
    /\ At(c, "challenged")
    /\ MayLock(c)
    /\ IF Cardinality(AccountFailures(c)) >= AccountLimit THEN Ends(c) ELSE Goes(c, "counted")
    /\ UNCHANGED <<clock, limiter, failures, spent, codes, visits>>

\* A mistake: the limit itself is let through.
MutantWithinGlobal(c) == Cardinality(GlobalFailures(c)) <= GlobalLimit

WithinGlobal(c) == Cardinality(GlobalFailures(c)) < GlobalLimit

\* Everybody's wrong codes are counted, with no lock.
CountGlobal(c) ==
    /\ At(c, "counted")
    /\ IF WithinGlobal(c) THEN Goes(c, "cleared") ELSE Ends(c)
    /\ UNCHANGED <<clock, limiter, failures, spent, codes, visits>>

\* A mistake: only a code that was right spends its challenge.
MutantSpend(c, right) == IF right THEN spent \cup {claim[c].challenge} ELSE spent

Spend(c, right) == spent \cup {claim[c].challenge}

\* Rows that no claim of this time would count.
Purged(c) == {f \in failures : f.at > claim[c].time - AccountWindow}

\* No pairing has this code: the failure is recorded, and commits.
WrongCode(c) ==
    LET f == [claim |-> c, account |-> AccountOf(c), at |-> claim[c].time] IN
    /\ At(c, "cleared")
    /\ failures' = Purged(c) \cup {f}
    /\ codes' = codes \cup {f}
    /\ spent' = Spend(c, FALSE)
    /\ Learns(c)
    /\ UNCHANGED <<clock, limiter, visits>>

\* A pairing has it: it is claimed now, or found lapsed, and both commit.
FoundCode(c) ==
    /\ At(c, "cleared")
    /\ spent' = Spend(c, TRUE)
    /\ Learns(c)
    /\ UNCHANGED <<clock, limiter, failures, codes, visits>>

\* The account is inactive, the challenge has lapsed, the pairing is claimed
\* already, the phone is another account's, or the request is given up: the
\* transaction rolls back, and the challenge with it.
RollBack(c) ==
    /\ claim[c].stage \in {"read"} \cup Locked
    /\ Ends(c)
    /\ UNCHANGED <<clock, limiter, failures, spent, codes, visits>>

Next ==
    \/ Tick
    \/ \E c \in Claims :
          \/ \E k \in Clients, h \in Challenges : Arrive(c, k, h)
          \/ Limit(c) \/ ReadTime(c) \/ TakeChallenge(c)
          \/ CountAccount(c) \/ CountGlobal(c)
          \/ WrongCode(c) \/ FoundCode(c) \/ RollBack(c)

Spec == Init /\ [][Next]_vars

-----------------------------------------------------------------------------
\* The limiter's map and its list name the same clients, each once, and never
\* more than the table may hold (rate_limit.go:69-85): a removal that misses one
\* of the two would leave a client limited for ever or the table growing.
LimiterBounded ==
    /\ Tracked(limiter) = Listed(limiter)
    /\ Cardinality(Tracked(limiter)) <= Capacity
    /\ Len(limiter.order) = Cardinality(Tracked(limiter))

\* Who is refused has used its window up: one of its requests let through was of
\* a time less than a window ago, and Maximum were let through from that one on
\* (rate_limit.go:62-72).  Times may reach the limiter out of order, and other
\* clients may have filled the table; neither gets an innocent client refused.
Earned(c) ==
    LET seen == visits[claim[c].client] IN
    \E i \in DOMAIN seen : seen[i] > claim[c].time - Window /\ Len(seen) - i + 1 >= Maximum
RefusalEarned ==
    [][\A c \in Claims : At(c, "arrived") /\ claim'[c].stage = "over" => Earned(c)]_vars

\* The wrong codes of an account in its last window are within its limit,
\* whenever its claims read their times, and whoever removes old rows meanwhile
\* (store.go:232-268).
AccountBudget ==
    \A a \in Accounts :
        Cardinality({f \in codes : f.account = a /\ f.at > clock - AccountWindow}) <= AccountLimit

\* The service's limit may be passed, as no lock covers its count, but by no more
\* than one code for each other account (store.go:252, ADR 0019).
GlobalBudget ==
    Cardinality({f \in codes : f.at > clock - GlobalWindow})
        <= GlobalLimit + Cardinality(Accounts) - 1

\* No two claims learn from their codes with one challenge (service.go:259-275);
\* a conflict gives its challenge back, and is the only answer that does.
GuessesCostChallenges ==
    \A c, d \in Claims :
        c # d /\ At(c, "learned") /\ At(d, "learned")
            => claim[c].challenge # claim[d].challenge
=============================================================================
