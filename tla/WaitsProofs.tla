----------------------------- MODULE WaitsProofs -----------------------------
(* For any programs in one order: nobody but the exceptions stalls.  For any *)
(* programs that take nothing twice: the pools' counters are right.  For any *)
(* that never go back to a pool: only rows are ever waited for in a circle.  *)
EXTENDS Waits, FiniteSetTheorems, WellFoundedInduction, TLAPS

Typed ==
    /\ kind \in [Requests -> Kinds \cup {NONE}]
    /\ pc \in [Requests -> Nat]
    /\ held \in [Requests -> SUBSET (Resources \X Modes)]
    /\ used \in [Slots -> Int]
    /\ \A q \in Requests : Running(q) => pc[q] \in 1 .. Len(Program[kind[q]])

\* What a request holds is what its program has taken so far.
HeldByProgram ==
    \A q \in Requests :
        /\ Running(q) => \A h \in held[q] : h[1] \in HeldAt(kind[q], pc[q])
        /\ ~Running(q) => held[q] = {} /\ pc[q] = 1

IInv == Typed /\ HeldByProgram

\* The step of a request under way is one of its program's.
LEMMA StepTyped ==
    ASSUME Typed, NEW q \in Requests, Running(q)
    PROVE  /\ kind[q] \in Kinds
           /\ pc[q] \in 1 .. Len(Program[kind[q]])
           /\ Step(q) \in Steps
           /\ Step(q).what \in Resources
           /\ Program[kind[q]][Len(Program[kind[q]])].do = "commit"
           /\ Len(Program[kind[q]]) \in Nat
  <1>1. kind[q] \in Kinds /\ pc[q] \in 1 .. Len(Program[kind[q]])
    BY DEF Typed, Running
  <1>2. /\ Program[kind[q]] \in Seq(Steps)
        /\ Program[kind[q]][Len(Program[kind[q]])].do = "commit"
    BY <1>1, WaitsAssumption
  <1>3. Step(q) \in Steps
    BY <1>1, <1>2 DEF Step
  <1> QED BY <1>1, <1>2, <1>3 DEF Steps

\* What has been taken before a step is still taken after it, with what the
\* step takes and without what it gives back.
LEMMA HeldAtNext ==
    ASSUME NEW k \in Kinds, NEW i \in Nat, i >= 1, NEW r \in Resources
    PROVE  /\ Program[k][i].do \in Takes /\ Program[k][i].what = r => r \in HeldAt(k, i + 1)
           /\ r \in HeldAt(k, i) /\ Program[k][i].do # "commit"
              /\ ~(Program[k][i].do = "return" /\ Program[k][i].what = r)
              => r \in HeldAt(k, i + 1)
  <1>1. ASSUME Program[k][i].do \in Takes, Program[k][i].what = r
        PROVE  r \in HeldAt(k, i + 1)
    <2>1. i \in 1 .. ((i + 1) - 1) /\ (i + 1) .. ((i + 1) - 1) = {}
      OBVIOUS
    <2> QED BY <1>1, <2>1 DEF HeldAt
  <1>2. ASSUME r \in HeldAt(k, i), Program[k][i].do # "commit",
               ~(Program[k][i].do = "return" /\ Program[k][i].what = r)
        PROVE  r \in HeldAt(k, i + 1)
    <2>1. PICK j \in 1 .. (i - 1) :
              /\ Program[k][j].do \in Takes /\ Program[k][j].what = r
              /\ \A n \in (j + 1) .. (i - 1) :
                    /\ Program[k][n].do # "commit"
                    /\ ~(Program[k][n].do = "return" /\ Program[k][n].what = r)
      BY <1>2 DEF HeldAt
    <2>2. j \in 1 .. ((i + 1) - 1)
      OBVIOUS
    <2>3. \A n \in (j + 1) .. ((i + 1) - 1) : n \in (j + 1) .. (i - 1) \/ n = i
      OBVIOUS
    <2>4. \A n \in (j + 1) .. ((i + 1) - 1) :
              /\ Program[k][n].do # "commit"
              /\ ~(Program[k][n].do = "return" /\ Program[k][n].what = r)
      BY <1>2, <2>1, <2>3
    <2> QED BY <2>1, <2>2, <2>4 DEF HeldAt
  <1> QED BY <1>1, <1>2

LEMMA Initially == Init => IInv
  BY DEF Init, IInv, Typed, HeldByProgram, Running

LEMMA GivenBackTyped ==
    ASSUME Typed, NEW q, NEW R
    PROVE  GivenBack(q, R) \in [Slots -> Int]
  BY DEF Typed, GivenBack

\* One step per action.
LEMMA Inductive == IInv /\ [Next]_vars => IInv'
  <1> SUFFICES ASSUME IInv, [Next]_vars PROVE IInv'
    OBVIOUS
  <1> USE DEF IInv
  <1>1. ASSUME NEW q \in Requests, NEW k \in Kinds, Arrive(q, k)
        PROVE  IInv'
    <2>1. Len(Program[k]) >= 1
      BY WaitsAssumption DEF Kinds
    <2>2. k # NONE
      BY WaitsAssumption
    <2> QED
      BY <1>1, <2>1, <2>2 DEF Arrive, Typed, HeldByProgram, Running
  <1>2. ASSUME NEW q \in Requests, TakeSlot(q) \/ LockRow(q)
        PROVE  IInv'
    <2>1. Running(q) /\ Step(q).do \in Takes
      BY <1>2 DEF TakeSlot, LockRow, Takes
    <2> DEFINE k == kind[q]
               h == <<Step(q).what, Step(q).mode>>
    <2>2. /\ UNCHANGED kind /\ pc' = [pc EXCEPT ![q] = @ + 1]
          /\ held' = [held EXCEPT ![q] = @ \cup {h}]
      BY <1>2 DEF TakeSlot, LockRow, Advance
    <2>3. /\ k \in Kinds /\ pc[q] \in 1 .. Len(Program[k]) /\ Len(Program[k]) \in Nat
          /\ h \in Resources \X Modes
          /\ Program[k][Len(Program[k])].do = "commit"
      BY <2>1, StepTyped DEF Steps
    <2>4. pc[q] # Len(Program[k])
      BY <2>1, <2>3 DEF Step, Takes
    <2>5. used' \in [Slots -> Int]
      BY <1>2 DEF TakeSlot, LockRow, Typed
    <2>6. Typed'
      BY <2>2, <2>3, <2>4, <2>5 DEF Typed, Running
    <2>7. \A g \in held'[q] : g[1] \in HeldAt(k, pc[q] + 1)
      <3> SUFFICES ASSUME NEW g \in held'[q]
                   PROVE  g[1] \in HeldAt(k, pc[q] + 1)
        OBVIOUS
      <3>1. g \in held[q] \/ g = h
        BY <2>2 DEF Typed
      <3>2. g[1] \in Resources
        BY <3>1, <2>3 DEF Typed
      <3>3. Program[k][pc[q]].do \in Takes /\ Program[k][pc[q]].what = h[1]
        BY <2>1 DEF Step
      <3>4. CASE g = h
        BY <3>2, <3>3, <3>4, <2>3, HeldAtNext
      <3>5. CASE g \in held[q]
        <4>1. g[1] \in HeldAt(k, pc[q])
          BY <3>5, <2>1 DEF HeldByProgram
        <4> QED BY <4>1, <3>2, <3>3, <2>3, HeldAtNext DEF Takes
      <3> QED BY <3>1, <3>4, <3>5
    <2>8. HeldByProgram'
      BY <2>1, <2>2, <2>7 DEF HeldByProgram, Running, Typed
    <2> QED BY <2>6, <2>8
  <1>3. ASSUME NEW q \in Requests, PassOver(q) \/ Return(q)
        PROVE  IInv'
    <2> DEFINE k == kind[q]
    <2>1. Running(q) /\ (Step(q).do = "may" \/ Step(q).do = "return")
      BY <1>3 DEF PassOver, Return
    <2>2. /\ UNCHANGED kind /\ pc' = [pc EXCEPT ![q] = @ + 1]
          /\ \E S : held' = [held EXCEPT ![q] = S] /\ S \subseteq held[q]
                    /\ (Step(q).do = "return" => \A g \in S : g[1] # Step(q).what)
      <3>1. CASE PassOver(q)
        <4>1. held' = [held EXCEPT ![q] = held[q]] /\ Step(q).do = "may"
          BY <3>1 DEF PassOver, Typed
        <4> QED BY <3>1, <4>1 DEF PassOver, Advance
      <3>2. CASE Return(q)
        <4> DEFINE T == {h \in held[q] : h[1] # Step(q).what}
        <4>1. held' = [held EXCEPT ![q] = T]
          BY <3>2 DEF Return
        <4>2. T \subseteq held[q] /\ \A g \in T : g[1] # Step(q).what
          OBVIOUS
        <4> HIDE DEF T
        <4> QED BY <3>2, <4>1, <4>2 DEF Return, Advance
      <3> QED BY <1>3, <3>1, <3>2
    <2>3. /\ k \in Kinds /\ pc[q] \in 1 .. Len(Program[k]) /\ Len(Program[k]) \in Nat
          /\ Program[k][Len(Program[k])].do = "commit"
      BY <2>1, StepTyped
    <2>4. pc[q] # Len(Program[k])
      BY <2>1, <2>3 DEF Step
    <2>5. used' \in [Slots -> Int]
      BY <1>3, GivenBackTyped DEF PassOver, Return, Typed
    <2>6. PICK S : /\ held' = [held EXCEPT ![q] = S] /\ S \subseteq held[q]
                   /\ (Step(q).do = "return" => \A g \in S : g[1] # Step(q).what)
      BY <2>2
    <2>7. Typed'
      BY <2>2, <2>3, <2>4, <2>5, <2>6 DEF Typed, Running
    <2>8. \A g \in S : g[1] \in HeldAt(k, pc[q] + 1)
      <3> SUFFICES ASSUME NEW g \in S
                   PROVE  g[1] \in HeldAt(k, pc[q] + 1)
        OBVIOUS
      <3>1. g[1] \in Resources /\ g[1] \in HeldAt(k, pc[q])
        BY <2>1, <2>6 DEF Typed, HeldByProgram
      <3>2. /\ Program[k][pc[q]].do # "commit"
            /\ ~(Program[k][pc[q]].do = "return" /\ Program[k][pc[q]].what = g[1])
        BY <2>1, <2>6 DEF Step
      <3> QED BY <3>1, <3>2, <2>3, HeldAtNext
    <2>9. HeldByProgram'
      BY <2>1, <2>2, <2>6, <2>8 DEF HeldByProgram, Running, Typed
    <2> QED BY <2>7, <2>9
  <1>4. ASSUME NEW q \in Requests, Commit(q)
        PROVE  IInv'
    <2>1. Running(q) /\ held' = [held EXCEPT ![q] = {}] /\ used' \in [Slots -> Int]
      BY <1>4, GivenBackTyped DEF Commit
    <2>2. /\ kind[q] \in Kinds /\ pc[q] \in 1 .. Len(Program[kind[q]])
          /\ Len(Program[kind[q]]) \in Nat
      BY <2>1, StepTyped
    <2>3. CASE pc[q] = Len(Program[kind[q]])
      <3>1. kind' = [kind EXCEPT ![q] = NONE] /\ pc' = [pc EXCEPT ![q] = 1]
        BY <1>4, <2>3 DEF Commit
      <3> QED BY <2>1, <3>1 DEF Typed, HeldByProgram, Running
    <2>4. CASE pc[q] # Len(Program[kind[q]])
      <3>1. kind' = kind /\ pc' = [pc EXCEPT ![q] = @ + 1]
        BY <1>4, <2>4 DEF Commit, Advance
      <3>2. pc[q] + 1 \in 1 .. Len(Program[kind[q]])
        BY <2>2, <2>4
      <3> QED BY <2>1, <3>1, <3>2 DEF Typed, HeldByProgram, Running
    <2> QED BY <2>3, <2>4
  <1>5. ASSUME NEW q \in Requests, Leave(q)
        PROVE  IInv'
    BY <1>5, GivenBackTyped DEF Leave, Typed, HeldByProgram, Running
  <1>6. CASE UNCHANGED vars
    BY <1>6 DEF vars, Typed, HeldByProgram, Running
  <1> QED BY <1>1, <1>2, <1>3, <1>4, <1>5, <1>6 DEF Next

\* Whatever a request holds, its program took and has not given back: no exit
\* leaves a lock, a connection or a worker behind.
THEOREM Invariant == Spec => []IInv
  BY Initially, Inductive, PTL DEF Spec

-----------------------------------------------------------------------------
LEMMA Ordered ==
    ASSUME IInv, Disciplined
    PROVE  TakenInOrder
  <1> SUFFICES ASSUME NEW q \in Requests, Running(q), kind[q] \notin Unordered,
                      Step(q).do \in Takes, NEW h \in held[q]
               PROVE  Rank[h[1]] < Rank[Step(q).what]
    BY DEF TakenInOrder
  <1>1. kind[q] \in Kinds /\ pc[q] \in 1 .. Len(Program[kind[q]])
    BY StepTyped DEF IInv
  <1>2. InOrder(kind[q])
    BY <1>1 DEF Disciplined
  <1>3. h[1] \in HeldAt(kind[q], pc[q])
    BY DEF IInv, HeldByProgram
  <1> QED BY <1>1, <1>2, <1>3 DEF InOrder, Step

\* If the programs keep the order, so do the requests, at every step of every
\* interleaving.
THEOREM OrderKept ==
    ASSUME Disciplined
    PROVE  Spec => []TakenInOrder
  BY Invariant, Ordered, PTL

-----------------------------------------------------------------------------
Holders(r) == {q \in Requests : Holds(q, r)}

LEMMA HoldersFinite ==
    ASSUME NEW r
    PROVE  IsFiniteSet(Holders(r)) /\ Cardinality(Holders(r)) \in Nat
  BY WaitsAssumption, FS_Subset, FS_CardinalityType DEF Holders

\* A request that gives back the slots among R and keeps the others.
LEMMA GiveBackAccounted ==
    ASSUME Typed, SlotsReturned, NEW q \in Requests, NEW R,
           used' = GivenBack(q, R),
           NEW S, held' = [held EXCEPT ![q] = S],
           \A r \in Slots : \A m \in Modes :
               <<r, m>> \in S <=> r \notin R /\ <<r, m>> \in held[q]
    PROVE  SlotsReturned'
  <1> SUFFICES ASSUME NEW r \in Slots
               PROVE  used'[r] = Cardinality(Holders(r)') /\ used'[r] <= Capacity[r]
    BY DEF SlotsReturned, Holders
  <1>1. used[r] = Cardinality(Holders(r)) /\ used[r] <= Capacity[r]
    BY DEF SlotsReturned, Holders
  <1>2. \A p \in Requests \ {q} : Holds(p, r)' <=> Holds(p, r)
    BY DEF Holds, Typed
  <1>3. Holds(q, r)' <=> r \notin R /\ Holds(q, r)
    BY DEF Holds, Typed
  <1>4. Capacity[r] \in Nat /\ Cardinality(Holders(r)) \in Nat /\ IsFiniteSet(Holders(r))
    BY HoldersFinite, WaitsAssumption
  <1>5. CASE r \in R /\ Holds(q, r)
    <2>1. Holders(r)' = Holders(r) \ {q} /\ q \in Holders(r)
      BY <1>2, <1>3, <1>5 DEF Holders
    <2>2. Cardinality(Holders(r)') = Cardinality(Holders(r)) - 1
      BY <2>1, <1>4, FS_RemoveElement
    <2>3. used'[r] = used[r] - 1
      BY <1>5 DEF GivenBack
    <2> QED BY <2>2, <2>3, <1>1, <1>4
  <1>6. CASE ~(r \in R /\ Holds(q, r))
    <2>1. Holders(r)' = Holders(r)
      BY <1>2, <1>3, <1>6 DEF Holders
    <2>2. used'[r] = used[r]
      BY <1>6 DEF GivenBack
    <2> QED BY <2>1, <2>2, <1>1
  <1> QED BY <1>5, <1>6

\* A slot is taken by a request that does not have one.
LEMMA TakeAccounted ==
    ASSUME IInv, TakenOnce, SlotsReturned, NEW q \in Requests, TakeSlot(q)
    PROVE  SlotsReturned'
  <1> DEFINE s == Step(q).what
  <1>1. /\ Running(q) /\ Step(q).do \in Takes /\ s \in Slots
        /\ used[s] < Capacity[s]
        /\ used' = [used EXCEPT ![s] = @ + 1]
        /\ held' = [held EXCEPT ![q] = @ \cup {<<s, Step(q).mode>>}]
    BY DEF TakeSlot, Takes
  <1>2. kind[q] \in Kinds /\ pc[q] \in 1 .. Len(Program[kind[q]]) /\ Step(q).mode \in Modes
    BY <1>1, StepTyped DEF IInv, Steps
  <1>3. s \notin HeldAt(kind[q], pc[q])
    BY <1>1, <1>2 DEF TakenOnce, Step
  <1>4. q \notin Holders(s)
    BY <1>1, <1>3 DEF Holders, Holds, IInv, HeldByProgram
  <1> SUFFICES ASSUME NEW r \in Slots
               PROVE  used'[r] = Cardinality(Holders(r)') /\ used'[r] <= Capacity[r]
    BY DEF SlotsReturned, Holders
  <1>5. used[r] = Cardinality(Holders(r)) /\ used[r] <= Capacity[r]
    BY DEF SlotsReturned, Holders
  <1>6. \A p \in Requests : Holds(p, r)' <=> Holds(p, r) \/ (p = q /\ r = s)
    BY <1>1, <1>2 DEF Holds, IInv, Typed
  <1>7. Capacity[r] \in Nat /\ Cardinality(Holders(r)) \in Nat /\ IsFiniteSet(Holders(r))
    BY HoldersFinite, WaitsAssumption
  <1>8. CASE r = s
    <2>1. Holders(r)' = Holders(r) \cup {q}
      BY <1>6, <1>8 DEF Holders
    <2>2. Cardinality(Holders(r)') = Cardinality(Holders(r)) + 1
      BY <2>1, <1>4, <1>7, <1>8, FS_AddElement
    <2>3. used'[r] = used[r] + 1
      BY <1>1, <1>8 DEF IInv, Typed
    <2> QED BY <2>2, <2>3, <1>1, <1>5, <1>7, <1>8
  <1>9. CASE r # s
    <2>1. Holders(r)' = Holders(r)
      BY <1>6, <1>9 DEF Holders
    <2>2. used'[r] = used[r]
      BY <1>1, <1>9 DEF IInv, Typed
    <2> QED BY <2>1, <2>2, <1>5
  <1> QED BY <1>8, <1>9

LEMMA NothingOut == Init => SlotsReturned
  <1> SUFFICES ASSUME Init, NEW r \in Slots
               PROVE  used[r] = Cardinality(Holders(r)) /\ used[r] <= Capacity[r]
    BY DEF SlotsReturned, Holders
  <1>1. Holders(r) = {} /\ used[r] = 0
    BY DEF Init, Holders, Holds
  <1> QED BY <1>1, FS_EmptySet, WaitsAssumption

LEMMA SlotsInductive ==
    ASSUME IInv, TakenOnce, SlotsReturned, [Next]_vars
    PROVE  SlotsReturned'
  <1>1. ASSUME NEW q \in Requests, NEW k \in Kinds, Arrive(q, k)
        PROVE  SlotsReturned'
    BY <1>1 DEF Arrive, SlotsReturned, Holds
  <1>2. ASSUME NEW q \in Requests, TakeSlot(q)
        PROVE  SlotsReturned'
    BY <1>2, TakeAccounted
  <1>3. ASSUME NEW q \in Requests, LockRow(q)
        PROVE  SlotsReturned'
    <2> DEFINE S == held[q] \cup {<<Step(q).what, Step(q).mode>>}
               R == {}
    <2>1. held' = [held EXCEPT ![q] = S] /\ Step(q).what \notin Slots /\ used' = used
      BY <1>3 DEF LockRow, Rows
    <2>2. used' = GivenBack(q, R)
      BY <2>1 DEF GivenBack, IInv, Typed
    <2>3. \A r \in Slots : \A m \in Modes :
              <<r, m>> \in S <=> r \notin R /\ <<r, m>> \in held[q]
      BY <2>1
    <2> HIDE DEF S, R
    <2> QED BY <2>1, <2>2, <2>3, GiveBackAccounted DEF IInv
  <1>4. ASSUME NEW q \in Requests, PassOver(q)
        PROVE  SlotsReturned'
    BY <1>4 DEF PassOver, SlotsReturned, Holds
  <1>5. ASSUME NEW q \in Requests, Return(q)
        PROVE  SlotsReturned'
    <2> DEFINE S == {h \in held[q] : h[1] # Step(q).what}
    <2>1. held' = [held EXCEPT ![q] = S] /\ used' = GivenBack(q, {Step(q).what})
      BY <1>5 DEF Return
    <2>2. \A r \in Slots : \A m \in Modes :
              <<r, m>> \in S <=> r \notin {Step(q).what} /\ <<r, m>> \in held[q]
      OBVIOUS
    <2> HIDE DEF S
    <2> QED BY <2>1, <2>2, GiveBackAccounted DEF IInv
  <1>6. ASSUME NEW q \in Requests, Commit(q) \/ Leave(q)
        PROVE  SlotsReturned'
    <2> DEFINE S == {}
    <2>1. held' = [held EXCEPT ![q] = S] /\ used' = GivenBack(q, Slots)
      BY <1>6 DEF Commit, Leave
    <2>2. \A r \in Slots : \A m \in Modes :
              <<r, m>> \in S <=> r \notin Slots /\ <<r, m>> \in held[q]
      OBVIOUS
    <2> HIDE DEF S
    <2> QED BY <2>1, <2>2, GiveBackAccounted DEF IInv
  <1>7. CASE UNCHANGED vars
    BY <1>7 DEF vars, SlotsReturned, Holds
  <1> QED BY <1>1, <1>2, <1>3, <1>4, <1>5, <1>6, <1>7 DEF Next

\* If no program takes a slot twice, the pools' counters are right whatever
\* way every request ends, and no pool is overdrawn.
THEOREM SlotsAccounted ==
    ASSUME TakenOnce
    PROVE  Spec => []SlotsReturned
  BY Invariant, NothingOut, SlotsInductive, PTL DEF Spec

-----------------------------------------------------------------------------
\* Among requests under way one asks for what ranks highest.
LEMMA Highest ==
    ASSUME Typed, NEW C \in SUBSET Requests, C # {}, \A q \in C : Running(q)
    PROVE  \E q \in C : \A p \in C : Rank[Step(p).what] <= Rank[Step(q).what]
  <1> DEFINE below(q) == MaxRank - Rank[Step(q).what]
             T == {below(q) : q \in C}
  <1>1. \A q \in C : Rank[Step(q).what] \in 0 .. MaxRank
    BY StepTyped, WaitsAssumption
  <1>2. MaxRank \in Nat
    BY WaitsAssumption
  <1>3. T \subseteq Nat /\ T # {}
    BY <1>1, <1>2
  <1> HIDE DEF T
  <1>4. PICK x \in T : \A y \in T : ~(<<y, x>> \in OpToRel(<, Nat))
    BY <1>3, NatLessThanWellFounded, WFMin
  <1>5. \A y \in T : x <= y
    <2>1. OpToRel(<, Nat) = {ss \in Nat \X Nat : ss[1] < ss[2]}
      BY DEF OpToRel
    <2> SUFFICES ASSUME NEW y \in T PROVE x <= y
      OBVIOUS
    <2>2. x \in Nat /\ y \in Nat
      BY <1>3
    <2>3. ~(y < x)
      BY <1>4, <2>1, <2>2
    <2> QED BY <2>2, <2>3
  <1>6. PICK q \in C : x = below(q)
    BY DEF T
  <1>7. \A p \in C : below(q) <= below(p)
    BY <1>5, <1>6 DEF T
  <1> QED BY <1>1, <1>2, <1>7

\* A stalled request that keeps the order waits for one of C, and that one asks
\* for more.
LEMMA StallOutranked ==
    ASSUME IInv, TakenInOrder, SlotsReturned,
           NEW C \in SUBSET Requests, Stalled(C), \A q \in C : kind[q] \notin Unordered,
           NEW q \in C
    PROVE  \E p \in C : Rank[Step(q).what] < Rank[Step(p).what]
  <1>1. \A p \in C : Running(p) /\ Step(p).do \in Takes
    BY DEF Stalled, WaitsForRow, WaitsForSlot
  <1>2. \E p \in C : Holds(p, Step(q).what)
    <2>1. CASE WaitsForRow(q, C)
      BY <2>1 DEF WaitsForRow, Blocks, Holds
    <2>2. CASE WaitsForSlot(q, C)
      <3>1. /\ Step(q).what \in Slots /\ used[Step(q).what] >= Capacity[Step(q).what]
            /\ Holders(Step(q).what) \subseteq C
        BY <2>2 DEF WaitsForSlot, Holders
      <3>2. Cardinality(Holders(Step(q).what)) >= Capacity[Step(q).what]
        BY <3>1 DEF SlotsReturned, Holders
      <3>3. Capacity[Step(q).what] >= 1
        BY <3>1, WaitsAssumption
      <3>4. Cardinality(Holders(Step(q).what)) # 0
        BY <3>1, <3>2, <3>3, HoldersFinite, WaitsAssumption
      <3>5. Holders(Step(q).what) # {}
        BY <3>4, FS_EmptySet
      <3> QED BY <3>1, <3>5 DEF Holders
    <2> QED BY <2>1, <2>2 DEF Stalled
  <1>3. PICK p \in C : Holds(p, Step(q).what)
    BY <1>2
  <1>4. PICK m \in Modes : <<Step(q).what, m>> \in held[p]
    BY <1>3 DEF Holds
  <1>5. Rank[Step(q).what] < Rank[Step(p).what]
    BY <1>1, <1>4 DEF TakenInOrder
  <1> QED BY <1>5

LEMMA NobodyElseStalls ==
    ASSUME IInv, TakenInOrder, SlotsReturned
    PROVE  OnlyUnorderedStall
  <1> SUFFICES ASSUME NEW C \in SUBSET Requests, Stalled(C),
                      \A q \in C : kind[q] \notin Unordered
               PROVE  FALSE
    BY DEF OnlyUnorderedStall
  <1>1. C # {} /\ \A q \in C : Running(q)
    BY DEF Stalled, WaitsForRow, WaitsForSlot
  <1>2. PICK q \in C : \A p \in C : Rank[Step(p).what] <= Rank[Step(q).what]
    BY <1>1, Highest DEF IInv
  <1>3. PICK p \in C : Rank[Step(q).what] < Rank[Step(p).what]
    BY StallOutranked
  <1>4. Rank[Step(q).what] \in Int /\ Rank[Step(p).what] \in Int
    BY <1>1, StepTyped, WaitsAssumption DEF IInv
  <1> QED BY <1>2, <1>3, <1>4

\* Whatever the programs and however many requests: when all kinds but the
\* excepted ones keep the order and nothing is taken twice, every stall has an
\* excepted request in it.
THEOREM OnlyUnordered ==
    ASSUME Disciplined, TakenOnce
    PROVE  Spec => []OnlyUnorderedStall
  BY OrderKept, SlotsAccounted, Invariant, NobodyElseStalls, PTL
-----------------------------------------------------------------------------
LEMMA Layers ==
    ASSUME IInv, Layered
    PROVE  PoolsInOrder
  <1> SUFFICES ASSUME NEW q \in Requests, Running(q), Step(q).do \in Takes, NEW h \in held[q]
               PROVE  /\ Step(q).what \in Slots => Rank[h[1]] < Rank[Step(q).what]
                      /\ \A x \in Slots : Rank[x] <= Rank[h[1]] => Rank[x] <= Rank[Step(q).what]
    BY DEF PoolsInOrder
  <1>1. kind[q] \in Kinds /\ pc[q] \in 1 .. Len(Program[kind[q]])
    BY StepTyped DEF IInv
  <1>2. h[1] \in HeldAt(kind[q], pc[q])
    BY DEF IInv, HeldByProgram
  <1> QED BY <1>1, <1>2 DEF Layered, Step

\* If no program goes back to a pool, no request does.
THEOREM LayersKept ==
    ASSUME Layered
    PROVE  Spec => []PoolsInOrder
  BY Invariant, Layers, PTL

\* Somebody holds a slot of a pool that is all out.
LEMMA FullPoolHeld ==
    ASSUME SlotsReturned, NEW C, NEW q \in C, WaitsForSlot(q, C)
    PROVE  \E p \in C : Holds(p, Step(q).what)
  <1> DEFINE x == Step(q).what
  <1>1. x \in Slots /\ used[x] >= Capacity[x] /\ Holders(x) \subseteq C
    BY DEF WaitsForSlot, Holders
  <1>2. Cardinality(Holders(x)) >= Capacity[x] /\ Capacity[x] >= 1
    BY <1>1, WaitsAssumption DEF SlotsReturned, Holders
  <1>3. Cardinality(Holders(x)) # 0
    BY <1>1, <1>2, WaitsAssumption
  <1>4. Holders(x) # {}
    BY <1>3, FS_EmptySet
  <1> QED BY <1>1, <1>4 DEF Holders

\* Of the stalled, take one whose pool ranks highest: its slots are with others
\* of them, who can then wait only for rows, and only for each other's.
LEMMA RowsAlone ==
    ASSUME IInv, PoolsInOrder, SlotsReturned, NEW C \in SUBSET Requests, Stalled(C)
    PROVE  \E D \in SUBSET C : D # {} /\ \A q \in D : WaitsForRow(q, D)
  <1> DEFINE S == {q \in C : WaitsForSlot(q, C)}
  <1>1. /\ C # {}
        /\ \A q \in C : /\ Running(q) /\ Step(q).do \in Takes
                         /\ Step(q).what \in Resources /\ Rank[Step(q).what] \in Nat
    <2>1. C # {} /\ \A q \in C : Running(q) /\ Step(q).do \in Takes
      BY DEF Stalled, WaitsForRow, WaitsForSlot
    <2>2. \A q \in C : Step(q).what \in Resources
      BY <2>1, StepTyped DEF IInv
    <2> QED BY <2>1, <2>2, WaitsAssumption
  <1>2. \A q \in C : Step(q).what \in Rows => WaitsForRow(q, C)
    BY DEF Stalled, WaitsForSlot, Rows
  <1>3. \A q \in C : q \in S <=> Step(q).what \notin Rows
    BY DEF Stalled, WaitsForSlot, WaitsForRow, Rows
  <1>4. CASE S = {}
    BY <1>1, <1>2, <1>3, <1>4
  <1>5. CASE S # {}
    <2>1. S \in SUBSET Requests /\ \A q \in S : Running(q)
      BY <1>1
    <2>2. PICK q \in S : \A p \in S : Rank[Step(p).what] <= Rank[Step(q).what]
      <3> HIDE DEF S
      <3> QED BY <1>5, <2>1, Highest DEF IInv
    <2> DEFINE x == Step(q).what
               D == {p \in C : Step(p).what \in Rows /\ Rank[x] <= Rank[Step(p).what]}
    <2>3. /\ x \in Slots /\ x \in Resources /\ Rank[x] \in Nat
          /\ \A p \in C : Step(p).what \notin Rows => Rank[Step(p).what] <= Rank[x]
      BY <1>1, <1>3, <2>2 DEF WaitsForSlot
    \* Whoever of C holds something at or above that pool is in D.
    <2>4. ASSUME NEW p \in C, NEW r \in Resources, Holds(p, r), Rank[x] <= Rank[r]
          PROVE  p \in D
      <3>1. /\ Step(p).what \in Slots => Rank[r] < Rank[Step(p).what]
            /\ Rank[x] <= Rank[Step(p).what]
        <4>1. PICK m \in Modes : <<r, m>> \in held[p]
          BY <2>4 DEF Holds
        <4>2. Running(p) /\ Step(p).do \in Takes /\ <<r, m>>[1] = r
          BY <1>1
        <4> QED BY <2>3, <2>4, <4>1, <4>2 DEF PoolsInOrder
      <3>2. Step(p).what \in Rows
        <4> SUFFICES ASSUME Step(p).what \notin Rows PROVE FALSE
          OBVIOUS
        <4>1. Step(p).what \in Slots /\ Rank[Step(p).what] <= Rank[x]
          BY <1>1, <2>3 DEF Rows
        <4> QED BY <1>1, <2>3, <2>4, <3>1, <4>1, WaitsAssumption
      <3> QED BY <3>1, <3>2
    <2>5. D # {}
      <3>1. PICK p \in C : Holds(p, x)
        BY FullPoolHeld
      <3> QED BY <2>3, <2>4, <3>1
    <2>6. ASSUME NEW p \in D
          PROVE  WaitsForRow(p, D)
      <3>1. PICK o \in C \ {p} : Blocks(o, p)
        BY <1>2 DEF WaitsForRow
      <3>2. Holds(o, Step(p).what)
        BY <3>1 DEF Blocks, Holds
      <3>3. o \in D
        BY <1>1, <2>4, <3>2
      <3> QED BY <1>1, <3>1, <3>3 DEF WaitsForRow
    <2>7. D \in SUBSET C
      OBVIOUS
    <2> HIDE DEF D
    <2> QED BY <2>5, <2>6, <2>7
  <1> QED BY <1>4, <1>5

\* Whatever the programs, the pools' sizes and however many requests: when a
\* slot is only asked for above all that is held, and rows of a pool's
\* transactions rank above that pool, no request waits for a slot for ever
\* without a wait for rows that the database ends.
THEOREM PoolsGoOn ==
    ASSUME Layered, TakenOnce
    PROVE  Spec => []PoolsNeverStall
  <1>1. ASSUME IInv, PoolsInOrder, SlotsReturned
        PROVE  PoolsNeverStall
    BY <1>1, RowsAlone DEF PoolsNeverStall
  <1> QED BY <1>1, Invariant, LayersKept, SlotsAccounted, PTL
=============================================================================
