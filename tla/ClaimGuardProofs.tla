--------------------------- MODULE ClaimGuardProofs ---------------------------
(* For any number of claims, clients, accounts and challenges, any limits and *)
(* any windows: the limiter stays within its table and refuses nobody without *)
(* cause, an account keeps to its budget, the service passes its own by less  *)
(* than one code for each account, and each answer costs a challenge.         *)
EXTENDS ClaimGuard, RateLimiterProofs

Asking == {"arrived", "allowed", "read", "learned"} \cup Locked

ClaimsTyped ==
    /\ clock \in 0 .. MaxTime
    /\ claim \in [Claims -> Claim]
    /\ \A c \in Claims :
          /\ claim[c].time <= clock
          /\ claim[c].stage \in Asking => claim[c].challenge \in Challenges
          /\ At(c, "arrived") => claim[c].client \in Clients

RowsTyped ==
    /\ failures \subseteq codes /\ codes \subseteq Failure /\ IsFiniteSet(codes)
    /\ spent \subseteq Challenges
    /\ visits \in [Clients -> Seq(Nat)]

Typed == ClaimsTyped /\ RowsTyped

\* A claim under way has an account, and its times are numbers.
LEMMA ClaimTyped ==
    ASSUME ClaimsTyped, NEW c \in Claims
    PROVE  /\ claim[c] \in Claim /\ claim[c].time \in 0 .. MaxTime /\ claim[c].time <= clock
           /\ claim[c].time \in Nat /\ clock \in Nat /\ MaxTime \in Nat
           /\ claim[c].stage \in Asking =>
                 claim[c].challenge \in Challenges /\ AccountOf(c) \in Accounts
  BY ClaimGuardAssumption DEF ClaimsTyped, Claim, AccountOf

\* What a step makes of the claim that takes it.
Becomes(c, r) ==
    /\ claim' = [claim EXCEPT ![c] = r]
    /\ r \in Claim /\ r.time <= clock
    /\ r.stage \in Asking => r.challenge \in Challenges
    /\ r.stage = "arrived" => r.client \in Clients

LEMMA BecomesTyped ==
    ASSUME ClaimsTyped, NEW c \in Claims, NEW r, Becomes(c, r), clock' = clock
    PROVE  ClaimsTyped'
  BY DEF ClaimsTyped, Becomes, At

LEMMA IdleTyped == Idle \in Claim /\ Idle.time = 0 /\ Idle.stage = "idle"
  BY ClaimGuardAssumption DEF Idle, Stage, Claim

LEMMA GoesTyped ==
    ASSUME ClaimsTyped, NEW c \in Claims, claim[c].stage \in Asking,
           NEW s \in Locked, Goes(c, s), clock' = clock
    PROVE  ClaimsTyped'
  <1> DEFINE r == [stage |-> s, client |-> claim[c].client,
                   challenge |-> claim[c].challenge, time |-> claim[c].time]
  <1>1. claim[c] \in Claim /\ claim \in [Claims -> Claim]
    BY DEF ClaimsTyped
  <1>2. [claim[c] EXCEPT !.stage = s] = r
    BY <1>1 DEF Claim
  <1>3. claim' = [claim EXCEPT ![c] = r]
    BY <1>2 DEF Goes
  <1>4. Becomes(c, r)
    BY <1>1, <1>3, ClaimTyped DEF Becomes, Claim, Locked, Asking
  <1> HIDE DEF r
  <1> QED BY <1>4, BecomesTyped

LEMMA EndsTyped ==
    ASSUME ClaimsTyped, NEW c \in Claims, Ends(c), clock' = clock
    PROVE  ClaimsTyped'
  <1> DEFINE r == Stage("over", NONE, NONE, 0)
  <1>1. Becomes(c, r)
    BY ClaimTyped DEF Becomes, Ends, Claim, Stage, Asking, Locked
  <1> HIDE DEF r
  <1> QED BY <1>1, BecomesTyped

LEMMA LearnsTyped ==
    ASSUME ClaimsTyped, NEW c \in Claims, claim[c].stage \in Asking, Learns(c), clock' = clock
    PROVE  ClaimsTyped'
  <1> DEFINE r == Stage("learned", NONE, claim[c].challenge, 0)
  <1>1. Becomes(c, r)
    BY ClaimTyped DEF Becomes, Learns, Claim, Stage, Asking, Locked
  <1> HIDE DEF r
  <1> QED BY <1>1, BecomesTyped

LEMMA TypedInit == Init => Typed
  <1> SUFFICES ASSUME Init PROVE Typed
    OBVIOUS
  <1>1. MaxTime \in Nat /\ 0 \in 0 .. MaxTime
    BY ClaimGuardAssumption
  <1>2. ClaimsTyped
    BY <1>1, IdleTyped DEF Init, ClaimsTyped, At, Asking, Locked
  <1>3. RowsTyped
    BY FS_EmptySet DEF Init, RowsTyped
  <1> QED BY <1>2, <1>3 DEF Typed

LEMMA TypedNext == Typed /\ [Next]_vars => Typed'
  <1> SUFFICES ASSUME ClaimsTyped, RowsTyped, [Next]_vars PROVE ClaimsTyped' /\ RowsTyped'
    BY DEF Typed
  <1> DEFINE Rows == <<failures, codes, spent, visits>>
  <1>0. ASSUME UNCHANGED Rows PROVE RowsTyped'
    BY <1>0 DEF RowsTyped
  <1>1. CASE Tick
    <2>1. ClaimsTyped'
      BY <1>1, ClaimGuardAssumption, ClaimTyped DEF Tick, ClaimsTyped, At
    <2> QED BY <2>1, <1>0, <1>1 DEF Tick
  <1>2. ASSUME NEW c \in Claims, NEW k \in Clients, NEW h \in Challenges, Arrive(c, k, h)
        PROVE  ClaimsTyped' /\ RowsTyped'
    <2> DEFINE r == Stage("arrived", k, h, clock)
    <2>1. claim' = [claim EXCEPT ![c] = r] /\ clock' = clock
      BY <1>2 DEF Arrive
    <2>2. Becomes(c, r)
      BY <2>1 DEF Becomes, Claim, Stage, ClaimsTyped, Asking, Locked
    <2> HIDE DEF r
    <2>3. ClaimsTyped'
      BY <2>1, <2>2, BecomesTyped
    <2> QED BY <2>3, <1>0, <1>2 DEF Arrive
  <1>3. ASSUME NEW c \in Claims, Limit(c)
        PROVE  ClaimsTyped' /\ RowsTyped'
    <2> DEFINE answer == Allow(limiter, claim[c].client, claim[c].time)
    <2>1. claim[c].client \in Clients /\ claim[c].stage \in Asking
      BY <1>3 DEF Limit, ClaimsTyped, Asking, At
    <2>2. CASE answer.allowed
      <3> DEFINE r == Stage("allowed", NONE, claim[c].challenge, 0)
      <3>1. claim' = [claim EXCEPT ![c] = r]
        BY <1>3, <2>2 DEF Limit
      <3>2. Becomes(c, r)
        BY <2>1, <3>1, ClaimTyped DEF Becomes, Claim, Stage, Asking, Locked
      <3> HIDE DEF r
      <3>5. ClaimsTyped'
        BY <1>3, <3>2, BecomesTyped DEF Limit
      <3>6. visits' = [visits EXCEPT ![claim[c].client] = Append(@, claim[c].time)]
        BY <1>3, <2>2 DEF Limit
      <3>7. visits' \in [Clients -> Seq(Nat)]
        BY <3>6, <2>1, ClaimTyped, AppendProperties DEF RowsTyped
      <3>8. UNCHANGED <<failures, codes, spent>>
        BY <1>3 DEF Limit
      <3> QED BY <3>5, <3>7, <3>8 DEF RowsTyped
    <2>3. CASE ~answer.allowed
      <3>1. Ends(c) /\ UNCHANGED <<clock, failures, codes, spent, visits>>
        BY <1>3, <2>3 DEF Limit
      <3> QED BY <3>1, <1>0, EndsTyped
    <2> QED BY <2>2, <2>3
  <1>4. ASSUME NEW c \in Claims, ReadTime(c)
        PROVE  ClaimsTyped' /\ RowsTyped'
    <2> DEFINE r == Stage("read", NONE, claim[c].challenge, clock)
    <2>1. claim' = [claim EXCEPT ![c] = r] /\ claim[c].stage \in Asking
      BY <1>4 DEF ReadTime, At, Asking
    <2>4. Becomes(c, r)
      BY <2>1, ClaimTyped DEF Becomes, Claim, Stage, ClaimsTyped, Asking, Locked
    <2> HIDE DEF r
    <2>5. ClaimsTyped'
      BY <1>4, <2>4, BecomesTyped DEF ReadTime
    <2> QED BY <2>5, <1>0, <1>4 DEF ReadTime
  <1>5. ASSUME NEW c \in Claims, TakeChallenge(c) \/ CountAccount(c) \/ CountGlobal(c) \/ RollBack(c)
        PROVE  ClaimsTyped' /\ RowsTyped'
    <2>1. clock' = clock /\ UNCHANGED Rows /\ claim[c].stage \in Asking
      BY <1>5 DEF TakeChallenge, CountAccount, CountGlobal, RollBack, At, Asking, Locked
    <2>2. Ends(c) \/ \E s \in Locked : Goes(c, s)
      BY <1>5 DEF TakeChallenge, CountAccount, CountGlobal, RollBack, Locked
    <2> QED BY <2>1, <2>2, <1>0, EndsTyped, GoesTyped
  <1>6. ASSUME NEW c \in Claims, WrongCode(c)
        PROVE  ClaimsTyped' /\ RowsTyped'
    <2> DEFINE f == [claim |-> c, account |-> AccountOf(c), at |-> claim[c].time]
    <2>1. claim[c].stage \in Asking
      BY <1>6 DEF WrongCode, At, Asking, Locked
    <2>2. ClaimsTyped'
      BY <1>6, <2>1, LearnsTyped DEF WrongCode
    <2>3. f \in Failure
      BY <2>1, ClaimTyped DEF Failure
    <2>4. /\ codes' = codes \cup {f} /\ failures' = Purged(c) \cup {f}
          /\ spent' = spent \cup {claim[c].challenge} /\ visits' = visits
      BY <1>6 DEF WrongCode, Spend
    <2> HIDE DEF f
    <2>5. IsFiniteSet(codes')
      BY <2>4, FS_AddElement DEF RowsTyped
    <2>6. RowsTyped'
      BY <2>1, <2>3, <2>4, <2>5, ClaimTyped DEF RowsTyped, Purged
    <2> QED BY <2>2, <2>6
  <1>7. ASSUME NEW c \in Claims, FoundCode(c)
        PROVE  ClaimsTyped' /\ RowsTyped'
    <2>1. claim[c].stage \in Asking
      BY <1>7 DEF FoundCode, At, Asking, Locked
    <2>2. ClaimsTyped'
      BY <1>7, <2>1, LearnsTyped DEF FoundCode
    <2>3. RowsTyped'
      BY <1>7, <2>1, ClaimTyped DEF FoundCode, Spend, RowsTyped
    <2> QED BY <2>2, <2>3
  <1>8. CASE UNCHANGED vars
    BY <1>8 DEF vars, ClaimsTyped, RowsTyped, At
  <1> QED BY <1>1, <1>2, <1>3, <1>4, <1>5, <1>6, <1>7, <1>8 DEF Next

-----------------------------------------------------------------------------
\* A window of the limiter is backed by requests that were let through: the one
\* that opened it, and as many as it counts since.
Backed(e, seen) == e.count \in 1 .. Len(seen) /\ seen[Len(seen) - e.count + 1] = e.startedAt

LimiterInv ==
    /\ Sound(limiter, Clients)
    /\ Cardinality(Tracked(limiter)) <= Capacity
    /\ \A k \in Tracked(limiter) : Backed(limiter.entries[k], visits[k])

LEMMA LimiterInit == Init => LimiterInv
  <1> DEFINE f == [k \in {} |-> [startedAt |-> 0, count |-> 0]]
  <1> SUFFICES ASSUME Init PROVE LimiterInv
    OBVIOUS
  <1>1. limiter.order = <<>> /\ limiter.entries = <<>> /\ limiter = EmptyTable
    BY DEF Init, EmptyTable
  <1>2. Len(limiter.order) = 0 /\ limiter.order \in Seq(Clients) /\ 1 .. 0 = {}
    BY <1>1
  <1>3. Tracked(limiter) = {}
    BY <1>1, <1>2 DEF Tracked
  <1>4. limiter.entries \in [{} -> Entry]
    BY <1>1
  <1>5. limiter.entries \in UNION {[S -> Entry] : S \in SUBSET Clients}
    <2> DEFINE none == {}
    <2>1. limiter.entries \in [none -> Entry] /\ none \in SUBSET Clients
      BY <1>4
    <2> HIDE DEF none
    <2> QED BY <2>1
  <1>6. limiter \in Tables(Clients)
    BY <1>1, <1>2, <1>5 DEF Tables, EmptyTable
  <1>7. Cardinality(Tracked(limiter)) <= Capacity
    BY <1>3, FS_EmptySet, LimiterAssumption
  <1> QED BY <1>2, <1>3, <1>6, <1>7 DEF LimiterInv, Sound

\* One more request let through keeps a window backed, whether it counts in the
\* window or opens it.
LEMMA BackedNext ==
    ASSUME NEW seen \in Seq(Nat), NEW now \in Nat, NEW e
    PROVE  LET more == Append(seen, now) IN
           /\ e = [startedAt |-> now, count |-> 1] => Backed(e, more)
           /\ \A o \in Entry : Backed(o, seen) /\ e = Again(o) => Backed(e, more)
  <1> DEFINE more == Append(seen, now)
             n == Len(seen)
  <1>1. /\ n \in Nat /\ Len(more) = n + 1 /\ more[n + 1] = now
        /\ \A i \in 1 .. n : more[i] = seen[i]
    BY AppendProperties
  <1> HIDE DEF more
  <1>2. ASSUME e = [startedAt |-> now, count |-> 1] PROVE Backed(e, more)
    BY <1>1, <1>2 DEF Backed
  <1>3. ASSUME NEW o \in Entry, Backed(o, seen), e = Again(o) PROVE Backed(e, more)
    <2>1. e.count = o.count + 1 /\ e.startedAt = o.startedAt /\ o.count \in 1 .. n
      BY <1>3 DEF Again, Backed
    <2>2. n - o.count + 1 \in 1 .. n /\ n + 1 - e.count + 1 = n - o.count + 1
      <3>1. n \in Nat
        BY <1>1
      <3> HIDE DEF n
      <3> QED BY <3>1, <2>1
    <2>3. e.count \in 1 .. Len(more)
      <3>1. n \in Nat /\ Len(more) = n + 1
        BY <1>1
      <3> HIDE DEF n
      <3> QED BY <3>1, <2>1
    <2>4. more[n - o.count + 1] = o.startedAt
      <3>1. more[n - o.count + 1] = seen[n - o.count + 1]
        BY <1>1, <2>2
      <3> QED BY <3>1, <1>3 DEF Backed
    <2>5. Len(more) - e.count + 1 = n - o.count + 1
      <3>1. n \in Nat /\ Len(more) = n + 1
        BY <1>1
      <3>2. o.count \in Nat /\ e.count = o.count + 1
        BY <2>1, <3>1
      <3> DEFINE l == Len(more)
                 c == o.count
                 d == e.count
      <3>3. n \in Nat /\ l = n + 1 /\ c \in Nat /\ d = c + 1
        BY <3>1, <3>2
      <3> HIDE DEF l, n, c, d
      <3>4. l - d + 1 = n - c + 1
        BY <3>3
      <3> QED BY <3>4 DEF l, c, d
    <2> QED BY <2>1, <2>3, <2>4, <2>5 DEF Backed
  <1> QED BY <1>2, <1>3 DEF more

\* A claim that asks the limiter.
LEMMA LimitKeeps ==
    ASSUME Typed, LimiterInv, NEW c \in Claims, Limit(c)
    PROVE  LimiterInv' /\ (claim'[c].stage = "over" => Earned(c))
  <1> DEFINE k == claim[c].client
             now == claim[c].time
             a == Allow(limiter, k, now)
  <1>1. /\ k \in Clients /\ now \in Nat /\ visits \in [Clients -> Seq(Nat)]
        /\ claim \in [Claims -> Claim]
    BY ClaimTyped DEF Typed, Limit, ClaimsTyped, RowsTyped
  <1>2. now \in Int
    BY <1>1
  <1>3. Kept(limiter, k, now, a, Clients)
    BY <1>1, <1>2, AllowKeeps DEF LimiterInv
  <1>4. /\ limiter' = a.table
        /\ a.allowed => /\ visits' = [visits EXCEPT ![k] = Append(@, now)]
                        /\ claim' = [claim EXCEPT ![c] = Stage("allowed", NONE, claim[c].challenge, 0)]
        /\ ~a.allowed => visits' = visits
    BY DEF Limit
  <1>5. \A j \in Tracked(limiter) : limiter.entries[j] \in Entry /\ j \in Clients
    BY SoundTyped DEF LimiterInv
  <1> HIDE DEF a, k, now
  <1>6. CASE a.allowed
    <2> DEFINE e == a.table.entries[k]
    <2>1. visits'[k] = Append(visits[k], now) /\ \A j \in Clients \ {k} : visits'[j] = visits[j]
      BY <1>1, <1>4, <1>6
    <2>2. \/ e = [startedAt |-> now, count |-> 1]
          \/ k \in Tracked(limiter) /\ e = Again(limiter.entries[k])
      BY <1>3, <1>6 DEF Kept
    <2>3. Backed(e, visits'[k])
      <3>1. visits[k] \in Seq(Nat)
        BY <1>1
      <3>2. k \in Tracked(limiter) => limiter.entries[k] \in Entry /\ Backed(limiter.entries[k], visits[k])
        BY <1>5 DEF LimiterInv
      <3> HIDE DEF e
      <3> QED BY <1>1, <2>1, <2>2, <3>1, <3>2, BackedNext
    <2>4. \A j \in Tracked(a.table) \ {k} : Backed(a.table.entries[j], visits'[j])
      BY <1>3, <1>5, <2>1 DEF Kept, LimiterInv
    <2>5. claim'[c].stage = "allowed"
      BY <1>1, <1>4, <1>6 DEF Stage
    <2> QED BY <1>3, <1>4, <2>3, <2>4, <2>5 DEF Kept, LimiterInv
  <1>7. CASE ~a.allowed
    <2>1. \A j \in Tracked(a.table) : Backed(a.table.entries[j], visits'[j])
      BY <1>3, <1>4, <1>5, <1>7 DEF Kept, LimiterInv
    <2>2. Earned(c)
      <3> DEFINE e == limiter.entries[k]
                 seen == visits[k]
                 i == Len(seen) - e.count + 1
      <3>1. Backed(e, seen) /\ e.startedAt > now - Window /\ e.count >= Maximum
        BY <1>3, <1>7 DEF Kept, LimiterInv
      <3>2. seen \in Seq(Nat) /\ Len(seen) \in Nat
        BY <1>1
      <3>3. e.count \in 1 .. Len(seen) /\ seen[i] = e.startedAt
        BY <3>1 DEF Backed
      <3>4. i \in DOMAIN seen /\ Len(seen) - i + 1 = e.count
        BY <3>2, <3>3
      <3>5. seen[i] > now - Window /\ Len(seen) - i + 1 >= Maximum
        BY <3>1, <3>3, <3>4
      <3> QED BY <3>4, <3>5 DEF Earned, k, now
    <2> QED BY <1>3, <1>4, <2>1, <2>2 DEF Kept, LimiterInv
  <1> QED BY <1>3, <1>6, <1>7 DEF Kept

LEMMA LimiterNext == Typed /\ LimiterInv /\ [Next]_vars => LimiterInv'
  <1> SUFFICES ASSUME Typed, LimiterInv, [Next]_vars PROVE LimiterInv'
    OBVIOUS
  <1>1. ASSUME UNCHANGED <<limiter, visits>> PROVE LimiterInv'
    BY <1>1 DEF LimiterInv
  <1>2. CASE \E c \in Claims : Limit(c)
    BY <1>2, LimitKeeps
  <1>3. CASE ~\E c \in Claims : Limit(c)
    <2>1. UNCHANGED <<limiter, visits>>
      BY <1>3 DEF Next, vars, Tick, Arrive, ReadTime, TakeChallenge, CountAccount, CountGlobal,
                  WrongCode, FoundCode, RollBack
    <2> QED BY <2>1, <1>1
  <1> QED BY <1>2, <1>3

\* The limiter's table is bounded, and its map and list agree
\* (rate_limit.go:54-79).
THEOREM LimiterHolds == Spec => []LimiterBounded
  <1>1. Init => Typed /\ LimiterInv
    BY TypedInit, LimiterInit
  <1>2. Typed /\ LimiterInv /\ [Next]_vars => Typed' /\ LimiterInv'
    BY TypedNext, LimiterNext
  <1>3. LimiterInv => LimiterBounded
    <2> SUFFICES ASSUME LimiterInv PROVE LimiterBounded
      OBVIOUS
    <2>1. Sound(limiter, Clients) /\ Len(limiter.order) \in Nat /\ limiter.order \in Seq(Clients)
      BY SoundTyped DEF LimiterInv
    <2>2. Cardinality(Tracked(limiter)) = Len(limiter.order)
      BY <2>1, SoundCount
    <2>3. Listed(limiter) = {limiter.order[i] : i \in 1 .. Len(limiter.order)}
      BY <2>1 DEF Listed, Range
    <2>4. Tracked(limiter) = Listed(limiter)
      BY <2>1, <2>3 DEF Sound
    <2> QED BY <2>2, <2>4 DEF LimiterInv, LimiterBounded
  <1> QED BY <1>1, <1>2, <1>3, PTL DEF Spec

\* Nobody is refused who did not use its window up (rate_limit.go:62-72).
THEOREM RefusalsHold == Spec => RefusalEarned
  <1> DEFINE Fair == \A c \in Claims : At(c, "arrived") /\ claim'[c].stage = "over" => Earned(c)
  <1>1. Init => Typed /\ LimiterInv
    BY TypedInit, LimiterInit
  <1>2. Typed /\ LimiterInv /\ [Next]_vars => Typed' /\ LimiterInv'
    BY TypedNext, LimiterNext
  <1>3. Typed /\ LimiterInv /\ [Next]_vars => [Fair]_vars
    <2> SUFFICES ASSUME Typed, LimiterInv, Next, NEW c \in Claims,
                        At(c, "arrived"), claim'[c].stage = "over"
                 PROVE  Earned(c)
      OBVIOUS
    <2>1. claim \in [Claims -> Claim] /\ claim'[c] # claim[c]
      BY DEF Typed, ClaimsTyped, At
    <2>2. CASE Limit(c)
      BY <2>2, LimitKeeps
    <2>3. ASSUME NEW d \in Claims, NEW r, claim' = [claim EXCEPT ![d] = r]
          PROVE  d = c
      BY <2>1, <2>3
    <2>4. ASSUME NEW d \in Claims, Limit(d) PROVE d = c
      BY <2>3, <2>4 DEF Limit, Ends
    <2>5. ASSUME NEW d \in Claims, NEW k \in Clients, NEW h \in Challenges, Arrive(d, k, h)
          PROVE  FALSE
      BY <2>3, <2>5 DEF Arrive, At
    <2>6. ASSUME NEW d \in Claims,
                 ReadTime(d) \/ TakeChallenge(d) \/ CountAccount(d) \/ CountGlobal(d)
                   \/ WrongCode(d) \/ FoundCode(d) \/ RollBack(d)
          PROVE  FALSE
      <3>1. claim[d].stage # "arrived"
        BY <2>6 DEF ReadTime, TakeChallenge, CountAccount, CountGlobal, WrongCode, FoundCode,
                    RollBack, At, Locked
      <3>2. \E r : claim' = [claim EXCEPT ![d] = r]
        BY <2>6 DEF ReadTime, TakeChallenge, CountAccount, CountGlobal, WrongCode, FoundCode,
                    RollBack, Ends, Learns, Goes
      <3> QED BY <2>3, <3>1, <3>2 DEF At
    <2>7. CASE Tick
      BY <2>1, <2>7 DEF Tick
    <2> QED BY <2>2, <2>4, <2>5, <2>6, <2>7 DEF Next
  <1>4. Spec => [](Typed /\ LimiterInv)
    BY <1>1, <1>2, PTL DEF Spec
  <1>5. Spec => [][Fair]_vars
    BY <1>3, <1>4, PTL DEF Spec
  <1> QED BY <1>5 DEF RefusalEarned

-----------------------------------------------------------------------------
\* What the invariants below see of a step of claim c.
Rows == <<clock, failures, codes, spent>>
Moved(c, s) ==
    /\ claim' \in [Claims -> Claim] /\ \A d \in Claims \ {c} : claim'[d] = claim[d]
    /\ claim'[c].stage = s
Keeps(c, s) == Moved(c, s) /\ claim'[c].challenge = claim[c].challenge
Outside(c) ==
    UNCHANGED Rows /\ \E s \in {"arrived", "allowed", "read", "over"} : Moved(c, s)
Took(c) ==
    /\ UNCHANGED Rows /\ Keeps(c, "challenged")
    /\ claim[c].challenge \in Challenges \ spent
    /\ \A d \in Claims : ~HoldsChallenge(d, claim[c].challenge)
CountedOwn(c) ==
    /\ UNCHANGED Rows /\ Keeps(c, "counted") /\ At(c, "challenged")
    /\ MayLock(c) /\ Cardinality(AccountFailures(c)) < AccountLimit
CountedAll(c) ==
    UNCHANGED Rows /\ Keeps(c, "cleared") /\ At(c, "counted") /\ WithinGlobal(c)
Guessed(c) ==
    LET f == [claim |-> c, account |-> AccountOf(c), at |-> claim[c].time] IN
    /\ Keeps(c, "learned") /\ At(c, "cleared")
    /\ clock' = clock /\ spent' = spent \cup {claim[c].challenge}
    /\ \/ UNCHANGED <<failures, codes>>
       \/ codes' = codes \cup {f} /\ failures' = Purged(c) \cup {f}
Waited == UNCHANGED <<claim, failures, codes, spent>> /\ clock' \in Nat /\ clock' >= clock

LEMMA EndsOutside ==
    ASSUME Typed, NEW c \in Claims, Ends(c), UNCHANGED Rows
    PROVE  Outside(c)
  <1>1. claim \in [Claims -> Claim] /\ Stage("over", NONE, NONE, 0) \in Claim
    BY ClaimGuardAssumption DEF Typed, ClaimsTyped, Stage, Claim
  <1>2. Moved(c, "over")
    BY <1>1 DEF Ends, Moved, Stage
  <1> QED BY <1>2 DEF Outside

LEMMA GoesKeeps ==
    ASSUME Typed, NEW c \in Claims, NEW s \in Locked, Goes(c, s)
    PROVE  Keeps(c, s)
  BY DEF Typed, ClaimsTyped, Claim, Locked, Goes, Keeps, Moved

LEMMA Steps ==
    ASSUME Typed, [Next]_vars
    PROVE  \/ Waited
           \/ \E c \in Claims :
                 Outside(c) \/ Took(c) \/ CountedOwn(c) \/ CountedAll(c) \/ Guessed(c)
  <1>0. claim \in [Claims -> Claim] /\ clock \in 0 .. MaxTime /\ clock \in Nat
    BY ClaimGuardAssumption DEF Typed, ClaimsTyped
  <1>1. CASE Tick \/ UNCHANGED vars
    BY <1>0, <1>1 DEF Tick, vars, Waited
  <1>2. ASSUME NEW c \in Claims, NEW k \in Clients, NEW h \in Challenges, Arrive(c, k, h)
        PROVE  Outside(c)
    <2>1. Stage("arrived", k, h, clock) \in Claim
      BY <1>0 DEF Stage, Claim
    <2>2. UNCHANGED Rows /\ Moved(c, "arrived")
      BY <1>0, <1>2, <2>1 DEF Arrive, Rows, Moved, Stage
    <2> QED BY <2>2 DEF Outside
  <1>3. ASSUME NEW c \in Claims, Limit(c) PROVE Outside(c)
    <2> DEFINE answer == Allow(limiter, claim[c].client, claim[c].time)
    <2>1. UNCHANGED Rows
      BY <1>3 DEF Limit, Rows
    <2>2. CASE answer.allowed
      <3>1. claim' = [claim EXCEPT ![c] = Stage("allowed", NONE, claim[c].challenge, 0)]
        BY <1>3, <2>2 DEF Limit
      <3>2. Stage("allowed", NONE, claim[c].challenge, 0) \in Claim
        BY <1>0, ClaimGuardAssumption DEF Stage, Claim
      <3>3. Moved(c, "allowed")
        BY <1>0, <3>1, <3>2 DEF Moved, Stage
      <3> QED BY <2>1, <3>3 DEF Outside
    <2>3. CASE ~answer.allowed
      <3>1. Ends(c)
        BY <1>3, <2>3 DEF Limit
      <3> QED BY <2>1, <3>1, EndsOutside
    <2> QED BY <2>2, <2>3
  <1>4. ASSUME NEW c \in Claims, ReadTime(c) PROVE Outside(c)
    <2>1. Stage("read", NONE, claim[c].challenge, clock) \in Claim
      BY <1>0 DEF Stage, Claim
    <2>2. UNCHANGED Rows /\ Moved(c, "read")
      BY <1>0, <1>4, <2>1 DEF ReadTime, Rows, Moved, Stage
    <2> QED BY <2>2 DEF Outside
  <1>5. ASSUME NEW c \in Claims, TakeChallenge(c) PROVE Outside(c) \/ Took(c)
    <2>1. UNCHANGED Rows /\ claim[c].challenge \in Challenges
      BY <1>5 DEF TakeChallenge, Rows, At, Typed, ClaimsTyped, Asking
    <2> QED BY <1>5, <2>1, EndsOutside, GoesKeeps DEF TakeChallenge, Took, Locked
  <1>6. ASSUME NEW c \in Claims, CountAccount(c) PROVE Outside(c) \/ CountedOwn(c)
    <2>1. UNCHANGED Rows
      BY <1>6 DEF CountAccount, Rows
    <2>2. Cardinality(AccountFailures(c)) \in Nat /\ AccountLimit \in Nat
      <3>1. AccountFailures(c) \in SUBSET codes /\ IsFiniteSet(codes)
        BY DEF AccountFailures, Typed, RowsTyped
      <3> QED BY <3>1, FS_Subset, FS_CardinalityType, ClaimGuardAssumption
    <2>3. CASE Cardinality(AccountFailures(c)) >= AccountLimit
      <3>1. Ends(c)
        BY <1>6, <2>3 DEF CountAccount
      <3> QED BY <2>1, <3>1, EndsOutside
    <2>4. CASE ~(Cardinality(AccountFailures(c)) >= AccountLimit)
      <3>1. Goes(c, "counted") /\ At(c, "challenged") /\ MayLock(c)
        BY <1>6, <2>4 DEF CountAccount
      <3>2. Keeps(c, "counted")
        BY <3>1, GoesKeeps DEF Locked
      <3>3. Cardinality(AccountFailures(c)) < AccountLimit
        BY <2>2, <2>4
      <3> QED BY <2>1, <3>1, <3>2, <3>3 DEF CountedOwn
    <2> QED BY <2>3, <2>4
  <1>7. ASSUME NEW c \in Claims, CountGlobal(c) PROVE Outside(c) \/ CountedAll(c)
    <2>1. UNCHANGED Rows
      BY <1>7 DEF CountGlobal, Rows
    <2> QED BY <1>7, <2>1, EndsOutside, GoesKeeps DEF CountGlobal, CountedAll, Locked
  <1>8. ASSUME NEW c \in Claims, WrongCode(c) \/ FoundCode(c) PROVE Guessed(c)
    <2>1. Stage("learned", NONE, claim[c].challenge, 0) \in Claim
      BY <1>0, ClaimGuardAssumption DEF Stage, Claim
    <2>2. claim' = [claim EXCEPT ![c] = Stage("learned", NONE, claim[c].challenge, 0)]
      BY <1>8 DEF WrongCode, FoundCode, Learns
    <2>3. Keeps(c, "learned")
      BY <1>0, <2>1, <2>2 DEF Keeps, Moved, Stage
    <2> QED BY <1>8, <2>3 DEF WrongCode, FoundCode, Guessed, Spend
  <1>9. ASSUME NEW c \in Claims, RollBack(c) PROVE Outside(c)
    BY <1>9, EndsOutside DEF RollBack, Rows
  <1> QED BY <1>1, <1>2, <1>3, <1>4, <1>5, <1>6, <1>7, <1>8, <1>9 DEF Next

-----------------------------------------------------------------------------
\* Claims take turns at a challenge and at an account, and what a claim learned
\* from is spent.
TurnsInv ==
    /\ \A c, d \in Claims : c # d /\ claim[c].stage \in Locked =>
          ~HoldsChallenge(d, claim[c].challenge)
    /\ \A c, d \in Claims : c # d /\ claim[c].stage \in Locked \ {"challenged"} =>
          ~HoldsAccount(d, AccountOf(c))
    /\ \A c \in Claims : claim[c].stage \in Locked => claim[c].challenge \notin spent
    /\ \A c \in Claims : At(c, "learned") => claim[c].challenge \in spent
    /\ GuessesCostChallenges

LEMMA TurnsInit == Init => TurnsInv
  BY DEF Init, Idle, Stage, TurnsInv, Locked, At, GuessesCostChallenges

LEMMA TurnsNext == Typed /\ TurnsInv /\ [Next]_vars => TurnsInv'
  <1> SUFFICES ASSUME Typed, TurnsInv, [Next]_vars PROVE TurnsInv'
    OBVIOUS
  <1> USE DEF TurnsInv, HoldsChallenge, HoldsAccount, AccountOf, Locked, At, GuessesCostChallenges
  <1>1. CASE Waited
    BY <1>1 DEF Waited
  <1>2. ASSUME NEW c \in Claims, Outside(c) PROVE TurnsInv'
    BY <1>2 DEF Outside, Moved, Rows
  <1>3. ASSUME NEW c \in Claims, Took(c) PROVE TurnsInv'
    BY <1>3 DEF Took, Keeps, Moved, Rows
  <1>4. ASSUME NEW c \in Claims, CountedOwn(c) PROVE TurnsInv'
    BY <1>4 DEF CountedOwn, MayLock, Keeps, Moved, Rows
  <1>5. ASSUME NEW c \in Claims, CountedAll(c) PROVE TurnsInv'
    BY <1>5 DEF CountedAll, Keeps, Moved, Rows
  <1>6. ASSUME NEW c \in Claims, Guessed(c) PROVE TurnsInv'
    BY <1>6 DEF Guessed, Keeps, Moved
  <1> QED BY <1>1, <1>2, <1>3, <1>4, <1>5, <1>6, Steps

\* No two claims learn from their codes with one challenge (service.go:259-275).
THEOREM ChallengesHold == Spec => []GuessesCostChallenges
  <1>1. Init => Typed /\ TurnsInv
    BY TypedInit, TurnsInit
  <1>2. Typed /\ TurnsInv /\ [Next]_vars => Typed' /\ TurnsInv'
    BY TypedNext, TurnsNext
  <1>3. TurnsInv => GuessesCostChallenges
    BY DEF TurnsInv
  <1> QED BY <1>1, <1>2, <1>3, PTL DEF Spec

-----------------------------------------------------------------------------
\* The codes a claim that reads the time now would count, its account's and all.
RecentOf(a) == {f \in codes : f.account = a /\ f.at > clock - AccountWindow}
Recent == {f \in codes : f.at > clock - GlobalWindow}
Cleared == {c \in Claims : At(c, "cleared")}

\* No recent code is purged; a claim that was counted in keeps its account's room
\* until it ends; those that both budgets let through are room that is taken.
BudgetInv ==
    /\ \A f \in codes : f.at > clock - AccountWindow => f \in failures
    /\ \A c \in Claims : claim[c].stage \in {"counted", "cleared"} =>
          Cardinality(RecentOf(AccountOf(c))) < AccountLimit
    /\ AccountBudget
    /\ Cleared # {} => Cardinality(Recent) + Cardinality(Cleared)
                          <= GlobalLimit + Cardinality(Accounts) - 1
    /\ GlobalBudget

LEMMA Numbers ==
    /\ AccountLimit \in Nat \ {0} /\ GlobalLimit \in Nat \ {0} /\ AccountWindow \in Nat
    /\ GlobalWindow \in Nat /\ AccountWindow >= GlobalWindow /\ MaxTime \in Nat
    /\ Cardinality(Accounts) \in Nat /\ IsFiniteSet(Accounts) /\ IsFiniteSet(Claims)
  BY ClaimGuardAssumption, FS_CardinalityType

\* Times are numbers, and sets of codes and of claims are finite.
LEMMA Sizes ==
    ASSUME Typed
    PROVE  /\ clock \in Nat /\ \A f \in codes : f.at \in Nat
           /\ \A S \in SUBSET codes : IsFiniteSet(S) /\ Cardinality(S) \in Nat
           /\ \A S \in SUBSET Claims : IsFiniteSet(S) /\ Cardinality(S) \in Nat
           /\ Recent \in SUBSET codes /\ Cleared \in SUBSET Claims
           /\ \A a : RecentOf(a) \in SUBSET codes
           /\ AccountBudget <=> \A a \in Accounts : Cardinality(RecentOf(a)) <= AccountLimit
           /\ GlobalBudget <=> Cardinality(Recent) <= GlobalLimit + Cardinality(Accounts) - 1
  <1>1. clock \in Nat /\ \A f \in codes : f.at \in Nat
    BY Numbers DEF Typed, ClaimsTyped, RowsTyped, Failure
  <1>2. IsFiniteSet(codes) /\ IsFiniteSet(Claims)
    BY Numbers DEF Typed, RowsTyped
  <1>3. \A S \in SUBSET codes : IsFiniteSet(S) /\ Cardinality(S) \in Nat
    BY <1>2, FS_Subset, FS_CardinalityType
  <1>4. \A S \in SUBSET Claims : IsFiniteSet(S) /\ Cardinality(S) \in Nat
    BY <1>2, FS_Subset, FS_CardinalityType
  <1>5. AccountBudget <=> \A a \in Accounts : Cardinality(RecentOf(a)) <= AccountLimit
    BY DEF AccountBudget, RecentOf
  <1>6. GlobalBudget <=> Cardinality(Recent) <= GlobalLimit + Cardinality(Accounts) - 1
    BY DEF GlobalBudget, Recent
  <1> QED BY <1>1, <1>3, <1>4, <1>5, <1>6 DEF Recent, RecentOf, Cleared

\* The claims let through by both budgets are of different accounts.
LEMMA ClearedFewer ==
    ASSUME Typed, TurnsInv
    PROVE  Cardinality(Cleared) <= Cardinality(Accounts)
  <1> DEFINE g == [c \in Cleared |-> AccountOf(c)]
  <1>1. \A c \in Cleared : AccountOf(c) \in Accounts
    BY ClaimTyped DEF Typed, Cleared, At, Asking, Locked
  <1>2. \A c, d \in Cleared : AccountOf(c) = AccountOf(d) => c = d
    BY DEF TurnsInv, HoldsAccount, Cleared, At, Locked
  <1>3. g \in Injection(Cleared, Accounts)
    BY <1>1, <1>2 DEF Injection, IsInjective
  <1> HIDE DEF g
  <1>4. Cardinality(Cleared) <= Cardinality(Accounts)
    BY <1>3, Numbers, FS_Injection
  <1> QED BY <1>4

\* The rows a claim counts hold every code that is recent when it counts.
LEMMA CountsAll ==
    ASSUME Typed, BudgetInv, NEW c \in Claims
    PROVE  /\ RecentOf(AccountOf(c)) \subseteq AccountFailures(c)
           /\ Recent \subseteq GlobalFailures(c)
           /\ Cardinality(RecentOf(AccountOf(c))) <= Cardinality(AccountFailures(c))
           /\ Cardinality(Recent) <= Cardinality(GlobalFailures(c))
           /\ Cardinality(AccountFailures(c)) \in Nat /\ Cardinality(GlobalFailures(c)) \in Nat
  <1>1. claim[c].time \in Nat /\ clock \in Nat /\ claim[c].time <= clock
    BY ClaimTyped DEF Typed
  <1>2. RecentOf(AccountOf(c)) \subseteq AccountFailures(c)
    <2> SUFFICES ASSUME NEW f \in codes, f.account = AccountOf(c), f.at > clock - AccountWindow
                 PROVE  f \in AccountFailures(c)
      BY DEF RecentOf
    <2>1. f \in failures
      BY DEF BudgetInv
    <2>2. f.at > claim[c].time - AccountWindow
      BY <1>1, Numbers, Sizes
    <2> QED BY <2>1, <2>2 DEF AccountFailures
  <1>3. Recent \subseteq GlobalFailures(c)
    <2> SUFFICES ASSUME NEW f \in codes, f.at > clock - GlobalWindow
                 PROVE  f \in GlobalFailures(c)
      BY DEF Recent
    <2>1. f.at > clock - AccountWindow
      BY <1>1, Numbers, Sizes
    <2>2. f.at > claim[c].time - GlobalWindow
      BY <1>1, Numbers, Sizes
    <2> QED BY <2>1, <2>2 DEF GlobalFailures, BudgetInv
  <1>4. AccountFailures(c) \in SUBSET codes /\ GlobalFailures(c) \in SUBSET codes
    BY DEF AccountFailures, GlobalFailures, Typed, RowsTyped
  <1>5. /\ IsFiniteSet(AccountFailures(c)) /\ Cardinality(AccountFailures(c)) \in Nat
        /\ IsFiniteSet(GlobalFailures(c)) /\ Cardinality(GlobalFailures(c)) \in Nat
    BY <1>4, Sizes
  <1> QED BY <1>2, <1>3, <1>5, FS_Subset

LEMMA BudgetInit == Init => BudgetInv
  <1> SUFFICES ASSUME Init PROVE BudgetInv
    OBVIOUS
  <1>1. codes = {} /\ Recent = {} /\ \A a : RecentOf(a) = {}
    BY DEF Init, Recent, RecentOf
  <1>2. Cleared = {} /\ \A c \in Claims : claim[c].stage = "idle"
    BY DEF Init, Cleared, At, Idle, Stage
  <1>3. Typed
    BY TypedInit
  <1>4. Cardinality({}) = 0
    BY FS_EmptySet
  <1>5. AccountBudget /\ GlobalBudget
    BY <1>1, <1>3, <1>4, Sizes, Numbers
  <1> QED BY <1>1, <1>2, <1>5 DEF BudgetInv

\* Nothing recent is added: less is recent, and no claim takes room.
LEMMA BudgetShrinks ==
    ASSUME Typed, Typed', BudgetInv, codes' = codes, clock' >= clock,
           \A f \in codes : f.at > clock' - AccountWindow => f \in failures',
           \A c \in Claims : claim'[c].stage \in {"counted", "cleared"} =>
               Cardinality(RecentOf(AccountOf(c)')) < AccountLimit,
           Cleared' # {} => Cardinality(Recent) + Cardinality(Cleared')
                              <= GlobalLimit + Cardinality(Accounts) - 1
    PROVE  BudgetInv'
  <1>1. /\ clock \in Nat /\ clock' \in Nat
        /\ \A a : RecentOf(a) \in SUBSET codes /\ RecentOf(a)' \in SUBSET codes
        /\ Recent \in SUBSET codes /\ Recent' \in SUBSET codes /\ Cleared' \in SUBSET Claims
        /\ \A f \in codes : f.at \in Nat
    <2>1. /\ clock \in Nat /\ \A a : RecentOf(a) \in SUBSET codes /\ Recent \in SUBSET codes
          /\ \A f \in codes : f.at \in Nat
      BY Sizes
    <2>2. clock' \in Nat
      BY Numbers DEF Typed, ClaimsTyped
    <2> QED BY <2>1, <2>2 DEF RecentOf, Recent, Cleared
  <1>2. \A a : RecentOf(a)' \subseteq RecentOf(a)
    BY <1>1, Numbers DEF RecentOf
  <1>3. Recent' \subseteq Recent
    BY <1>1, Numbers DEF Recent
  <1>4. \A a : /\ Cardinality(RecentOf(a)') <= Cardinality(RecentOf(a))
               /\ Cardinality(RecentOf(a)') \in Nat /\ Cardinality(RecentOf(a)) \in Nat
    <2> TAKE a
    <2> DEFINE S == RecentOf(a)
               T == RecentOf(a)'
    <2>1. IsFiniteSet(S) /\ T \in SUBSET S /\ Cardinality(S) \in Nat /\ Cardinality(T) \in Nat
      BY <1>1, <1>2, Sizes
    <2> HIDE DEF S, T
    <2>2. Cardinality(T) <= Cardinality(S)
      BY <2>1, FS_Subset
    <2> QED BY <2>1, <2>2 DEF S, T
  <1>5. /\ Cardinality(Recent') <= Cardinality(Recent)
        /\ Cardinality(Recent') \in Nat /\ Cardinality(Recent) \in Nat
    <2> DEFINE S == Recent
               T == Recent'
    <2>1. IsFiniteSet(S) /\ T \in SUBSET S /\ Cardinality(S) \in Nat /\ Cardinality(T) \in Nat
      BY <1>1, <1>3, Sizes
    <2> HIDE DEF S, T
    <2>2. Cardinality(T) <= Cardinality(S)
      BY <2>1, FS_Subset
    <2> QED BY <2>1, <2>2 DEF S, T
  <1>6. Cardinality(Cleared') \in Nat
    BY <1>1, Sizes
  <1>7. \A c \in Claims : claim'[c].stage \in {"counted", "cleared"} =>
            Cardinality(RecentOf(AccountOf(c))') < AccountLimit
    <2> SUFFICES ASSUME NEW c \in Claims, claim'[c].stage \in {"counted", "cleared"}
                 PROVE  Cardinality(RecentOf(AccountOf(c))') < AccountLimit
      OBVIOUS
    <2>1. RecentOf(AccountOf(c))' = {f \in codes' : f.account = AccountOf(c)' /\ f.at > clock' - AccountWindow}
      BY DEF RecentOf
    <2> DEFINE a == AccountOf(c)'
               T == RecentOf(AccountOf(c))'
               S == RecentOf(AccountOf(c)')
    <2>2. S \in SUBSET codes /\ T \in SUBSET S
      BY <1>1, <2>1, Numbers DEF RecentOf
    <2>3. IsFiniteSet(S) /\ Cardinality(S) \in Nat /\ Cardinality(T) \in Nat
      BY <2>2, Sizes
    <2>4. Cardinality(S) < AccountLimit
      OBVIOUS
    <2> HIDE DEF S, T
    <2>5. Cardinality(T) <= Cardinality(S)
      BY <2>2, <2>3, FS_Subset
    <2>6. Cardinality(T) < AccountLimit
      BY <2>3, <2>4, <2>5, Numbers
    <2> QED BY <2>6 DEF T
  <1>8. AccountBudget'
    <2>1. \A a \in Accounts : Cardinality(RecentOf(a)) <= AccountLimit
      BY Sizes DEF BudgetInv
    <2>2. \A a \in Accounts : Cardinality(RecentOf(a)') <= AccountLimit
      BY <2>1, <1>4, Numbers
    <2> QED BY <2>2 DEF AccountBudget, RecentOf
  <1>9. GlobalBudget'
    <2>1. Cardinality(Recent) <= GlobalLimit + Cardinality(Accounts) - 1
      BY Sizes DEF BudgetInv
    <2>2. Cardinality(Recent') <= GlobalLimit + Cardinality(Accounts) - 1
      BY <2>1, <1>5, Numbers
    <2> QED BY <2>2 DEF GlobalBudget, Recent
  <1>10. Cleared' # {} => Cardinality(Recent') + Cardinality(Cleared')
                            <= GlobalLimit + Cardinality(Accounts) - 1
    BY <1>5, <1>6, Numbers
  <1> QED BY <1>7, <1>8, <1>9, <1>10 DEF BudgetInv

\* A step that records no code, of a claim that is not let through by both
\* budgets, nor into its account's but when there is room.
LEMMA BudgetAside ==
    ASSUME Typed, Typed', BudgetInv, NEW c \in Claims, NEW s, Moved(c, s), s # "cleared",
           clock' = clock, codes' = codes, failures' = failures,
           s = "counted" => /\ claim'[c].challenge = claim[c].challenge
                            /\ Cardinality(RecentOf(AccountOf(c))) < AccountLimit
    PROVE  BudgetInv'
  <1>1. clock' >= clock /\ \A f \in codes : f.at > clock' - AccountWindow => f \in failures'
    BY Sizes DEF BudgetInv
  <1>2. \A d \in Claims : claim'[d].stage \in {"counted", "cleared"} =>
            Cardinality(RecentOf(AccountOf(d)')) < AccountLimit
    <2> SUFFICES ASSUME NEW d \in Claims, claim'[d].stage \in {"counted", "cleared"}
                 PROVE  Cardinality(RecentOf(AccountOf(d)')) < AccountLimit
      OBVIOUS
    <2>1. AccountOf(d)' = AccountOf(d)
      BY DEF Moved, AccountOf
    <2>2. Cardinality(RecentOf(AccountOf(d))) < AccountLimit
      BY DEF Moved, BudgetInv
    <2> HIDE DEF AccountOf
    <2> QED BY <2>1, <2>2
  <1>3. Cleared' \in SUBSET Cleared
    BY DEF Cleared, At, Moved
  <1>4. Cardinality(Cleared') <= Cardinality(Cleared) /\ Cardinality(Cleared') \in Nat
        /\ Cardinality(Cleared) \in Nat /\ Cardinality(Recent) \in Nat
    <2>1. IsFiniteSet(Cleared) /\ Cleared' \in SUBSET Claims
      BY <1>3, Sizes
    <2> QED BY <2>1, <1>3, Sizes, FS_Subset
  <1>5. Cleared' # {} => Cardinality(Recent) + Cardinality(Cleared')
                           <= GlobalLimit + Cardinality(Accounts) - 1
    BY <1>3, <1>4, Numbers DEF BudgetInv
  <1> QED BY <1>1, <1>2, <1>5, BudgetShrinks

\* A claim that both budgets let through takes its account's room of the service's.
LEMMA BudgetLetsThrough ==
    ASSUME Typed, Typed', TurnsInv', BudgetInv, NEW c \in Claims, CountedAll(c)
    PROVE  BudgetInv'
  <1>1. /\ clock' = clock /\ codes' = codes /\ failures' = failures
        /\ Keeps(c, "cleared") /\ claim[c].stage = "counted"
        /\ Cardinality(GlobalFailures(c)) < GlobalLimit
    BY DEF CountedAll, Rows, At, WithinGlobal
  <1>2. clock' >= clock /\ \A f \in codes : f.at > clock' - AccountWindow => f \in failures'
    BY <1>1, Sizes DEF BudgetInv
  <1>3. \A d \in Claims : claim'[d].stage \in {"counted", "cleared"} =>
            Cardinality(RecentOf(AccountOf(d)')) < AccountLimit
    <2> SUFFICES ASSUME NEW d \in Claims, claim'[d].stage \in {"counted", "cleared"}
                 PROVE  Cardinality(RecentOf(AccountOf(d)')) < AccountLimit
      OBVIOUS
    <2>1. AccountOf(d)' = AccountOf(d)
      BY <1>1 DEF Keeps, Moved, AccountOf
    <2>2. Cardinality(RecentOf(AccountOf(d))) < AccountLimit
      BY <1>1 DEF Keeps, Moved, BudgetInv
    <2> HIDE DEF AccountOf
    <2> QED BY <2>1, <2>2
  <1>4. (Typed /\ TurnsInv => Cardinality(Cleared) <= Cardinality(Accounts))'
    BY ClearedFewer, PTL
  <1>5. Cardinality(Cleared') <= Cardinality(Accounts)
    BY <1>4
  <1>6. /\ Cardinality(Recent) <= Cardinality(GlobalFailures(c)) /\ Cardinality(Recent) \in Nat
        /\ Cardinality(GlobalFailures(c)) \in Nat
    BY CountsAll, Sizes
  <1>7. Cleared' \in SUBSET Claims
    BY DEF Cleared
  <1>8. Cardinality(Cleared') \in Nat
    BY <1>7, Sizes
  <1>9. Cardinality(Recent) + Cardinality(Cleared') <= GlobalLimit + Cardinality(Accounts) - 1
    BY <1>1, <1>5, <1>6, <1>8, Numbers
  <1> QED BY <1>1, <1>2, <1>3, <1>9, BudgetShrinks

LEMMA OneMore ==
    ASSUME NEW S, NEW T, NEW x, IsFiniteSet(S), T \subseteq S \cup {x}
    PROVE  /\ Cardinality(T) <= Cardinality(S) + 1
           /\ Cardinality(T) \in Nat /\ Cardinality(S) \in Nat
  <1>1. /\ IsFiniteSet(S \cup {x}) /\ Cardinality(S) \in Nat
        /\ Cardinality(S \cup {x}) = IF x \in S THEN Cardinality(S) ELSE Cardinality(S) + 1
    BY FS_AddElement, FS_CardinalityType
  <1>2. T \in SUBSET (S \cup {x})
    OBVIOUS
  <1>3. IsFiniteSet(T) /\ Cardinality(T) <= Cardinality(S \cup {x})
    BY <1>1, <1>2, FS_Subset
  <1>4. Cardinality(T) \in Nat /\ Cardinality(S \cup {x}) \in Nat
    BY <1>1, <1>3, FS_CardinalityType
  <1> QED BY <1>1, <1>3, <1>4

\* A wrong code takes the room its claim kept.
LEMMA BudgetSpent ==
    ASSUME Typed, Typed', TurnsInv, BudgetInv, NEW c \in Claims, NEW f,
           Keeps(c, "learned"), At(c, "cleared"), clock' = clock,
           f = [claim |-> c, account |-> AccountOf(c), at |-> claim[c].time],
           codes' = codes \cup {f}, failures' = Purged(c) \cup {f}
    PROVE  BudgetInv'
  <1>1. /\ clock \in Nat /\ claim[c].time \in Nat /\ claim[c].time <= clock
        /\ \A g \in codes : g.at \in Nat
    BY ClaimTyped, Sizes DEF Typed
  <1>2. \A g \in codes' : g.at > clock' - AccountWindow => g \in failures'
    <2> SUFFICES ASSUME NEW g \in codes, g.at > clock - AccountWindow PROVE g \in Purged(c)
      OBVIOUS
    <2>1. g \in failures /\ g.at > claim[c].time - AccountWindow
      BY <1>1, Numbers DEF BudgetInv
    <2> QED BY <2>1 DEF Purged
  <1>3. /\ \A a : RecentOf(a)' \subseteq RecentOf(a) \cup {f}
        /\ \A a : a # AccountOf(c) => RecentOf(a)' = RecentOf(a)
        /\ Recent' \subseteq Recent \cup {f}
    BY DEF RecentOf, Recent
  <1>4. \A d \in Claims : claim'[d].stage \in {"counted", "cleared"} =>
            Cardinality(RecentOf(AccountOf(d))') < AccountLimit
    <2> SUFFICES ASSUME NEW d \in Claims, claim'[d].stage \in {"counted", "cleared"}
                 PROVE  Cardinality(RecentOf(AccountOf(d))') < AccountLimit
      OBVIOUS
    <2>1. d # c /\ claim'[d] = claim[d]
      BY DEF Keeps, Moved
    <2>2. AccountOf(d) # AccountOf(c)
      BY <2>1 DEF TurnsInv, HoldsAccount, At, Locked
    <2>3. AccountOf(d)' = AccountOf(d)
      BY <2>1 DEF AccountOf
    <2>4. RecentOf(AccountOf(d))' = RecentOf(AccountOf(d))
      <3>1. RecentOf(AccountOf(d))' =
              {g \in codes' : g.account = AccountOf(d)' /\ g.at > clock' - AccountWindow}
        BY DEF RecentOf
      <3> QED BY <2>2, <2>3, <3>1 DEF RecentOf
    <2>5. Cardinality(RecentOf(AccountOf(d))) < AccountLimit
      BY <2>1 DEF BudgetInv
    <2> QED BY <2>4, <2>5
  <1>5. AccountOf(c) \in Accounts
    BY ClaimTyped DEF Typed, At, Asking, Locked
  <1>6. AccountBudget'
    <2>1. \A a \in Accounts : Cardinality(RecentOf(a)') <= AccountLimit
      <3> SUFFICES ASSUME NEW a \in Accounts PROVE Cardinality(RecentOf(a)') <= AccountLimit
        OBVIOUS
      <3>1. CASE a # AccountOf(c)
        BY <1>3, <3>1, Sizes DEF BudgetInv
      <3>2. CASE a = AccountOf(c)
        <4> DEFINE S == RecentOf(a)
                   T == RecentOf(a)'
        <4>1. Cardinality(S) < AccountLimit
          BY <3>2 DEF BudgetInv, At
        <4>2. IsFiniteSet(S) /\ T \subseteq S \cup {f}
          BY <1>3, Sizes
        <4> HIDE DEF S, T
        <4>3. Cardinality(T) <= Cardinality(S) + 1 /\ Cardinality(T) \in Nat
              /\ Cardinality(S) \in Nat
          BY <4>2, OneMore
        <4>4. Cardinality(T) <= AccountLimit
          BY <4>1, <4>3, Numbers
        <4> QED BY <4>4 DEF T
      <3> QED BY <3>1, <3>2
    <2> QED BY <2>1 DEF AccountBudget, RecentOf
  <1>7. Cardinality(Recent') <= Cardinality(Recent) + 1
        /\ Cardinality(Recent') \in Nat /\ Cardinality(Recent) \in Nat
    <2>1. IsFiniteSet(Recent) /\ Recent' \subseteq Recent \cup {f}
      BY <1>3, Sizes
    <2> HIDE DEF Recent
    <2> QED BY <2>1, OneMore
  <1>8. c \in Cleared /\ Cleared' = Cleared \ {c}
    BY DEF Cleared, At, Keeps, Moved
  <1>9. /\ Cardinality(Cleared') = Cardinality(Cleared) - 1
        /\ Cardinality(Cleared) \in Nat /\ Cardinality(Cleared') \in Nat
    BY <1>8, Sizes, FS_RemoveElement, FS_CardinalityType
  <1>10. Cardinality(Recent) + Cardinality(Cleared) <= GlobalLimit + Cardinality(Accounts) - 1
    BY <1>8 DEF BudgetInv
  <1>11. Cardinality(Recent') + Cardinality(Cleared') <= GlobalLimit + Cardinality(Accounts) - 1
    BY <1>7, <1>9, <1>10, Numbers
  <1>12. GlobalBudget'
    <2>1. Cardinality(Recent') <= GlobalLimit + Cardinality(Accounts) - 1
      BY <1>7, <1>9, <1>11, Numbers
    <2> QED BY <2>1 DEF GlobalBudget, Recent
  <1> QED BY <1>2, <1>4, <1>6, <1>11, <1>12 DEF BudgetInv

LEMMA BudgetNext == Typed /\ TurnsInv /\ BudgetInv /\ [Next]_vars => BudgetInv'
  <1> SUFFICES ASSUME Typed, TurnsInv, BudgetInv, [Next]_vars PROVE BudgetInv'
    OBVIOUS
  <1>0. Typed' /\ TurnsInv'
    BY TypedNext, TurnsNext
  <1>1. CASE Waited
    <2>1. clock \in Nat /\ \A f \in codes : f.at \in Nat
      BY Sizes
    <2>2. \A f \in codes : f.at > clock' - AccountWindow => f \in failures'
      BY <1>1, <2>1, Numbers DEF Waited, BudgetInv
    <2>3. \A c \in Claims : claim'[c].stage \in {"counted", "cleared"} =>
              Cardinality(RecentOf(AccountOf(c)')) < AccountLimit
      <3>1. \A c \in Claims : AccountOf(c)' = AccountOf(c)
        BY <1>1 DEF Waited, AccountOf
      <3> QED BY <1>1, <3>1 DEF Waited, BudgetInv
    <2>4. Cleared' = Cleared
      BY <1>1 DEF Waited, Cleared, At
    <2>5. Cleared' # {} => Cardinality(Recent) + Cardinality(Cleared')
                             <= GlobalLimit + Cardinality(Accounts) - 1
      BY <2>4 DEF BudgetInv
    <2> QED BY <1>0, <1>1, <2>2, <2>3, <2>5, BudgetShrinks DEF Waited
  <1>2. ASSUME NEW c \in Claims, Outside(c) PROVE BudgetInv'
    BY <1>0, <1>2, BudgetAside DEF Outside, Rows
  <1>3. ASSUME NEW c \in Claims, Took(c) PROVE BudgetInv'
    BY <1>0, <1>3, BudgetAside DEF Took, Keeps, Rows
  <1>4. ASSUME NEW c \in Claims, CountedOwn(c) PROVE BudgetInv'
    <2>1. Cardinality(RecentOf(AccountOf(c))) < AccountLimit
      <3>1. RecentOf(AccountOf(c)) \in SUBSET codes
        BY Sizes
      <3>2. Cardinality(RecentOf(AccountOf(c))) \in Nat
        BY <3>1, Sizes
      <3> QED BY <1>4, <3>2, CountsAll, Numbers DEF CountedOwn
    <2> QED BY <1>0, <1>4, <2>1, BudgetAside DEF CountedOwn, Keeps, Rows
  <1>5. ASSUME NEW c \in Claims, CountedAll(c) PROVE BudgetInv'
    BY <1>0, <1>5, BudgetLetsThrough
  <1>6. ASSUME NEW c \in Claims, Guessed(c) PROVE BudgetInv'
    <2>1. CASE UNCHANGED <<failures, codes>>
      BY <1>0, <1>6, <2>1, BudgetAside DEF Guessed, Keeps
    <2>2. CASE ~UNCHANGED <<failures, codes>>
      BY <1>0, <1>6, <2>2, BudgetSpent DEF Guessed
    <2> QED BY <2>1, <2>2
  <1> QED BY <1>1, <1>2, <1>3, <1>4, <1>5, <1>6, Steps

\* What a claim may rely on about the others.
ClaimsInv == Typed /\ TurnsInv /\ BudgetInv

LEMMA ClaimsHold == Spec => []ClaimsInv
  <1>1. Init => ClaimsInv
    BY TypedInit, TurnsInit, BudgetInit DEF ClaimsInv
  <1>2. ClaimsInv /\ [Next]_vars => ClaimsInv'
    BY TypedNext, TurnsNext, BudgetNext DEF ClaimsInv
  <1> QED BY <1>1, <1>2, PTL DEF Spec

\* An account keeps to its budget of wrong codes (store.go:232-268), whenever its
\* claims read their times and whoever purges old rows.
THEOREM AccountBudgetHolds == Spec => []AccountBudget
  BY ClaimsHold, PTL DEF ClaimsInv, BudgetInv

\* The service passes its budget by less than a code for each account
\* (store.go:249-253), though no lock covers its count.
THEOREM GlobalBudgetHolds == Spec => []GlobalBudget
  BY ClaimsHold, PTL DEF ClaimsInv, BudgetInv
=============================================================================
