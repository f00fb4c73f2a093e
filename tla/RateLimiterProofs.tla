-------------------------- MODULE RateLimiterProofs --------------------------
(* What Allow keeps, for any limit, window and capacity and any order of the *)
(* times it is called with: the map and the list of the table agree, and a   *)
(* client's entry only ever grows, is opened again, or is forgotten.         *)
EXTENDS RateLimiter, FiniteSetTheorems, SequenceTheorems, WellFoundedInduction, TLAPS

Entry == [startedAt : Int, count : Nat]
Tables(Keys) == [entries : UNION {[S -> Entry] : S \in SUBSET Keys}, order : Seq(Keys)]

\* The list has every client of the map, once.
Sound(t, Keys) ==
    /\ t \in Tables(Keys)
    /\ \A k \in Tracked(t) : \E i \in 1 .. Len(t.order) : t.order[i] = k
    /\ \A i \in 1 .. Len(t.order) : t.order[i] \in Tracked(t)
    /\ \A i, j \in 1 .. Len(t.order) : t.order[i] = t.order[j] => i = j

LEMMA SoundTyped ==
    ASSUME NEW Keys, NEW t, Sound(t, Keys)
    PROVE  /\ t.order \in Seq(Keys) /\ Len(t.order) \in Nat
           /\ Tracked(t) \in SUBSET Keys
           /\ t.entries \in [Tracked(t) -> Entry]
  BY DEF Sound, Tables, Tracked

LEMMA SoundCount ==
    ASSUME NEW Keys, NEW t, Sound(t, Keys)
    PROVE  IsFiniteSet(Tracked(t)) /\ Cardinality(Tracked(t)) = Len(t.order)
  <1> DEFINE f == [i \in 1 .. Len(t.order) |-> t.order[i]]
  <1>1. f \in Bijection(1 .. Len(t.order), Tracked(t))
    <2>1. /\ \A k \in Tracked(t) : \E i \in 1 .. Len(t.order) : f[i] = k
          /\ \A i, j \in 1 .. Len(t.order) : f[i] = f[j] => i = j
          /\ f \in [1 .. Len(t.order) -> Tracked(t)]
      BY DEF Sound
    <2> HIDE DEF f
    <2> QED BY <2>1 DEF Bijection, Injection, Surjection, IsInjective
  <1>2. IsFiniteSet(1 .. Len(t.order)) /\ Cardinality(1 .. Len(t.order)) = Len(t.order)
    BY SoundTyped, FS_Interval
  <1> QED BY <1>1, <1>2, FS_Bijection DEF ExistsBijection

\* Dropping the front of the list drops the same clients from the map.
LEMMA DropSound ==
    ASSUME NEW Keys, NEW t, Sound(t, Keys), NEW n \in 0 .. Len(t.order)
    PROVE  /\ Sound(Drop(t, n), Keys)
           /\ Len(Drop(t, n).order) = Len(t.order) - n
           /\ Tracked(Drop(t, n)) \subseteq Tracked(t)
           /\ \A k \in Tracked(Drop(t, n)) : Drop(t, n).entries[k] = t.entries[k]
  <1> DEFINE m == Len(t.order)
             rest == SubSeq(t.order, n + 1, m)
             gone == {t.order[i] : i \in 1 .. n}
             kept == Tracked(t) \ gone
             d == Drop(t, n)
  <1>1. /\ t.order \in Seq(Keys) /\ m \in Nat /\ Tracked(t) \in SUBSET Keys
        /\ t.entries \in [Tracked(t) -> Entry] /\ n \in Nat /\ n <= m
    BY SoundTyped
  <1>2. /\ d.entries = [k \in kept |-> t.entries[k]]
        /\ d.order = rest
        /\ Tracked(d) = kept
        /\ d = [entries |-> d.entries, order |-> d.order]
    BY DEF Drop, Restrict, Tracked
  <1>3. rest \in Seq(Keys) /\ Len(rest) = m - n /\ \A i \in 1 .. (m - n) : rest[i] = t.order[n + i]
    BY <1>1
  <1>4. d.entries \in [kept -> Entry] /\ kept \in SUBSET Keys
    BY <1>1, <1>2
  <1>5. d \in Tables(Keys)
    BY <1>2, <1>3, <1>4 DEF Tables
  <1>6. \A k \in kept : \E i \in 1 .. Len(rest) : rest[i] = k
    <2> SUFFICES ASSUME NEW k \in kept PROVE \E i \in 1 .. Len(rest) : rest[i] = k
      OBVIOUS
    <2>1. PICK j \in 1 .. m : t.order[j] = k
      BY DEF Sound
    <2>2. j > n
      BY <2>1, <1>1
    <2>3. j - n \in 1 .. (m - n) /\ rest[j - n] = t.order[j]
      BY <2>2, <1>1, <1>3
    <2> QED BY <2>1, <2>3, <1>3
  <1>7. \A i \in 1 .. Len(rest) : rest[i] \in kept
    <2> SUFFICES ASSUME NEW i \in 1 .. Len(rest) PROVE rest[i] \in kept
      OBVIOUS
    <2>1. rest[i] = t.order[n + i]
      BY <1>3
    <2>0. n + i \in 1 .. m /\ n + i > n
      <3>1. i \in 1 .. (m - n)
        BY <1>3
      <3> QED BY <3>1, <1>1
    <2>2. t.order[n + i] \in Tracked(t)
      BY <2>0 DEF Sound
    <2>3. \A j \in 1 .. n : t.order[j] # t.order[n + i]
      BY <2>0, <1>1 DEF Sound
    <2> QED BY <2>1, <2>2, <2>3
  <1>8. \A i, j \in 1 .. Len(rest) : rest[i] = rest[j] => i = j
    <2> SUFFICES ASSUME NEW i \in 1 .. Len(rest), NEW j \in 1 .. Len(rest), rest[i] = rest[j]
                 PROVE  i = j
      OBVIOUS
    <2>1. n + i \in 1 .. m /\ n + j \in 1 .. m /\ t.order[n + i] = t.order[n + j]
      BY <1>1, <1>3
    <2>2. n + i = n + j
      BY <2>1 DEF Sound
    <2> QED BY <2>2, <1>1
  <1>9. Sound(d, Keys)
    BY <1>2, <1>5, <1>6, <1>7, <1>8 DEF Sound
  <1> HIDE DEF d
  <1> QED BY <1>2, <1>3, <1>9 DEF d

LEMMA ReopenedSound ==
    ASSUME NEW Keys, NEW t, Sound(t, Keys), NEW key \in Tracked(t), NEW now \in Int
    PROVE  /\ Sound(Reopened(t, key, now), Keys)
           /\ Tracked(Reopened(t, key, now)) = Tracked(t)
           /\ Reopened(t, key, now).entries
                  = [t.entries EXCEPT ![key] = [startedAt |-> now, count |-> 1]]
  <1> DEFINE m == Len(t.order)
             i == CHOOSE j \in DOMAIN t.order : t.order[j] = key
             before == SubSeq(t.order, 1, i - 1)
             after == SubSeq(t.order, i + 1, m)
             both == before \o after
             d == Reopened(t, key, now)
  <1>1. /\ t.order \in Seq(Keys) /\ m \in Nat /\ Tracked(t) \in SUBSET Keys
        /\ t.entries \in [Tracked(t) -> Entry] /\ key \in Keys
    BY SoundTyped
  <1>2. DOMAIN t.order = 1 .. m
    BY <1>1
  <1>3. i \in 1 .. m /\ t.order[i] = key
    BY <1>2 DEF Sound
  <1> HIDE DEF i
  <1>4. /\ before \in Seq(Keys) /\ Len(before) = i - 1
        /\ \A j \in 1 .. (i - 1) : before[j] = t.order[j]
    BY <1>1, <1>3
  <1>5. /\ after \in Seq(Keys) /\ Len(after) = m - i
        /\ \A j \in 1 .. (m - i) : after[j] = t.order[i + j]
    BY <1>1, <1>3
  <1> HIDE DEF before, after
  <1>6. /\ both \in Seq(Keys) /\ Len(both) = m - 1
        /\ \A j \in 1 .. (i - 1) : both[j] = t.order[j]
        /\ \A j \in i .. (m - 1) : both[j] = t.order[j + 1]
    <2>0. /\ both \in Seq(Keys) /\ Len(both) = Len(before) + Len(after)
          /\ \A j \in 1 .. Len(before) + Len(after) :
                 both[j] = IF j <= Len(before) THEN before[j] ELSE after[j - Len(before)]
      <3>1. before \in Seq(Keys) /\ after \in Seq(Keys)
        BY <1>4, <1>5
      <3> QED BY <3>1, ConcatProperties, Zenon
    <2>1. both \in Seq(Keys) /\ Len(both) = m - 1
      <3>1. (i - 1) + (m - i) = m - 1
        BY <1>1, <1>3
      <3> QED BY <2>0, <3>1, <1>4, <1>5
    <2>2. ASSUME NEW j \in 1 .. (i - 1) PROVE both[j] = t.order[j]
      <3>1. j \in 1 .. (Len(before) + Len(after)) /\ j <= Len(before)
        BY <1>1, <1>3, <1>4, <1>5
      <3> QED BY <3>1, <2>0, <1>4
    <2>3. ASSUME NEW j \in i .. (m - 1) PROVE both[j] = t.order[j + 1]
      <3>1. j - (i - 1) \in 1 .. (m - i) /\ j > i - 1 /\ j <= (i - 1) + (m - i) /\ j \in Nat
        BY <1>1, <1>3
      <3>2. both[j] = after[j - (i - 1)]
        <4>1. j \in 1 .. (Len(before) + Len(after)) /\ ~(j <= Len(before))
          BY <3>1, <1>1, <1>3, <1>4, <1>5
        <4>2. j - Len(before) = j - (i - 1)
          BY <1>4
        <4> QED BY <4>1, <4>2, <2>0
      <3>3. i + (j - (i - 1)) = j + 1
        BY <3>1, <1>3
      <3> QED BY <3>1, <3>2, <3>3, <1>5
    <2> HIDE DEF both
    <2> QED BY <2>1, <2>2, <2>3
  <1> HIDE DEF both
  <1>7. /\ d.entries = [t.entries EXCEPT ![key] = [startedAt |-> now, count |-> 1]]
        /\ d.order = Append(both, key)
        /\ d = [entries |-> d.entries, order |-> d.order]
    <2>1. d = [entries |-> [t.entries EXCEPT ![key] = [startedAt |-> now, count |-> 1]],
               order |-> Append(both, key)]
      BY DEF Reopened, i, before, after, both
    <2> HIDE DEF d
    <2> QED BY <2>1
  <1> HIDE DEF d
  <1>8. /\ d.order \in Seq(Keys) /\ Len(d.order) = m
        /\ d.order[m] = key
        /\ \A j \in 1 .. (m - 1) : d.order[j] = IF j < i THEN t.order[j] ELSE t.order[j + 1]
    <2>1. d.order \in Seq(Keys) /\ Len(d.order) = m /\ d.order[m] = key
      BY <1>1, <1>3, <1>6, <1>7, AppendProperties
    <2>2. \A j \in 1 .. (m - 1) : d.order[j] = both[j]
      BY <1>1, <1>3, <1>6, <1>7, AppendProperties
    <2> QED BY <2>1, <2>2, <1>1, <1>3, <1>6
  <1>9. d.entries \in [Tracked(t) -> Entry] /\ Tracked(d) = Tracked(t)
    BY <1>1, <1>7 DEF Entry, Tracked
  <1>10. d \in Tables(Keys)
    BY <1>1, <1>7, <1>8, <1>9 DEF Tables
  <1>11. \A k \in Tracked(t) : \E j \in 1 .. m : d.order[j] = k
    <2> SUFFICES ASSUME NEW k \in Tracked(t) PROVE \E j \in 1 .. m : d.order[j] = k
      OBVIOUS
    <2>1. PICK j \in 1 .. m : t.order[j] = k
      BY DEF Sound
    <2>2. CASE j < i
      BY <2>1, <2>2, <1>1, <1>3, <1>8
    <2>3. CASE j = i
      BY <2>1, <2>3, <1>1, <1>3, <1>8
    <2>4. CASE j > i
      <3>1. j - 1 \in 1 .. (m - 1) /\ ~(j - 1 < i) /\ (j - 1) + 1 = j
        BY <2>4, <1>1, <1>3
      <3>2. d.order[j - 1] = k
        BY <3>1, <2>1, <1>8
      <3> QED BY <3>1, <3>2, <1>1
    <2> QED BY <2>2, <2>3, <2>4, <1>3
  <1> DEFINE at(j) == IF j = m THEN i ELSE IF j < i THEN j ELSE j + 1
  <1>12. \A j \in 1 .. m : at(j) \in 1 .. m /\ d.order[j] = t.order[at(j)]
    BY <1>1, <1>3, <1>8
  <1>13. \A j, n \in 1 .. m : at(j) = at(n) => j = n
    BY <1>1, <1>3
  <1> HIDE DEF at
  <1>14. \A j \in 1 .. m : d.order[j] \in Tracked(t)
    BY <1>12 DEF Sound
  <1>15. \A j, n \in 1 .. m : d.order[j] = d.order[n] => j = n
    BY <1>12, <1>13 DEF Sound
  <1>16. Sound(d, Keys)
    BY <1>8, <1>9, <1>10, <1>11, <1>14, <1>15 DEF Sound
  <1> QED BY <1>7, <1>9, <1>16 DEF d

LEMMA OpenedSound ==
    ASSUME NEW Keys, NEW t, Sound(t, Keys), NEW key \in Keys \ Tracked(t), NEW now \in Int
    PROVE  /\ Sound(Opened(t, key, now), Keys)
           /\ Len(Opened(t, key, now).order) = Len(t.order) + 1
           /\ Tracked(Opened(t, key, now)) = Tracked(t) \cup {key}
           /\ Opened(t, key, now).entries[key] = [startedAt |-> now, count |-> 1]
           /\ \A k \in Tracked(t) : Opened(t, key, now).entries[k] = t.entries[k]
  <1> DEFINE m == Len(t.order)
             d == Opened(t, key, now)
  <1>1. /\ t.order \in Seq(Keys) /\ m \in Nat /\ Tracked(t) \in SUBSET Keys
        /\ t.entries \in [Tracked(t) -> Entry] /\ key \notin Tracked(t)
    BY SoundTyped
  <1>2. /\ d.entries = [k \in Tracked(t) \cup {key} |->
                           IF k = key THEN [startedAt |-> now, count |-> 1] ELSE t.entries[k]]
        /\ d.order = Append(t.order, key)
        /\ d = [entries |-> d.entries, order |-> d.order]
    BY DEF Opened
  <1> HIDE DEF d
  <1>3. /\ d.order \in Seq(Keys) /\ Len(d.order) = m + 1 /\ d.order[m + 1] = key
        /\ \A j \in 1 .. m : d.order[j] = t.order[j]
    BY <1>1, <1>2, AppendProperties
  <1>4. /\ Tracked(d) = Tracked(t) \cup {key}
        /\ d.entries \in [Tracked(d) -> Entry] /\ Tracked(d) \in SUBSET Keys
        /\ d.entries[key] = [startedAt |-> now, count |-> 1]
        /\ \A k \in Tracked(t) : d.entries[k] = t.entries[k]
    BY <1>1, <1>2 DEF Entry, Tracked
  <1>5. d \in Tables(Keys)
    BY <1>2, <1>3, <1>4 DEF Tables
  <1>6. \A k \in Tracked(d) : \E j \in 1 .. (m + 1) : d.order[j] = k
    <2>1. ASSUME NEW k \in Tracked(t) PROVE \E j \in 1 .. (m + 1) : d.order[j] = k
      <3>1. PICK j \in 1 .. m : t.order[j] = k
        BY DEF Sound
      <3> QED BY <3>1, <1>1, <1>3
    <2>2. m + 1 \in 1 .. (m + 1)
      BY <1>1
    <2> QED BY <2>1, <2>2, <1>3, <1>4
  <1>7. \A j \in 1 .. (m + 1) : d.order[j] \in Tracked(d)
    <2>1. \A j \in 1 .. m : d.order[j] \in Tracked(t)
      BY <1>3 DEF Sound
    <2>2. \A j \in 1 .. (m + 1) : j \in 1 .. m \/ j = m + 1
      BY <1>1
    <2> QED BY <2>1, <2>2, <1>3, <1>4
  <1>8. \A j, n \in 1 .. (m + 1) : d.order[j] = d.order[n] => j = n
    <2>1. \A j, n \in 1 .. m : d.order[j] = d.order[n] => j = n
      BY <1>3 DEF Sound
    <2>2. \A j \in 1 .. m : d.order[j] # d.order[m + 1]
      BY <1>1, <1>3 DEF Sound
    <2>3. \A j \in 1 .. (m + 1) : j \in 1 .. m \/ j = m + 1
      BY <1>1
    <2> QED BY <2>1, <2>2, <2>3
  <1>9. Sound(d, Keys)
    BY <1>3, <1>5, <1>6, <1>7, <1>8 DEF Sound
  <1> QED BY <1>3, <1>4, <1>9 DEF d

LEMMA CountedSound ==
    ASSUME NEW Keys, NEW t, Sound(t, Keys), NEW key \in Tracked(t)
    PROVE  /\ Sound(Counted(t, key), Keys)
           /\ Tracked(Counted(t, key)) = Tracked(t)
           /\ Counted(t, key).entries = [t.entries EXCEPT ![key].count = @ + 1]
  <1> DEFINE d == Counted(t, key)
  <1>1. /\ t.order \in Seq(Keys) /\ Tracked(t) \in SUBSET Keys
        /\ t.entries \in [Tracked(t) -> Entry]
        /\ t = [entries |-> t.entries, order |-> t.order]
    BY SoundTyped DEF Sound, Tables
  <1>2. d = [entries |-> [t.entries EXCEPT ![key].count = @ + 1], order |-> t.order]
    BY <1>1 DEF Counted
  <1> HIDE DEF d
  <1>3. d.entries \in [Tracked(t) -> Entry] /\ Tracked(d) = Tracked(t)
    BY <1>1, <1>2 DEF Entry, Tracked
  <1>4. d \in Tables(Keys)
    BY <1>1, <1>2, <1>3 DEF Tables
  <1>5. Sound(d, Keys)
    BY <1>2, <1>3, <1>4 DEF Sound
  <1> QED BY <1>2, <1>3, <1>5 DEF d

\* A bounded set of numbers has a greatest one.
LEMMA Greatest ==
    ASSUME NEW N \in Nat, NEW S \in SUBSET (0 .. N), S # {}
    PROVE  \E n \in S : \A m \in S : m <= n
  <1> DEFINE T == {N - n : n \in S}
  <1>1. T \subseteq Nat /\ T # {}
    <2>1. \A n \in S : n \in Nat /\ n <= N
      OBVIOUS
    <2>2. \A n \in S : N - n \in Nat
      BY <2>1
    <2> QED BY <2>2
  <1> HIDE DEF T
  <1>2. PICK x \in T : \A y \in T : ~(<<y, x>> \in OpToRel(<, Nat))
    BY <1>1, NatLessThanWellFounded, WFMin
  <1>3. OpToRel(<, Nat) = {ss \in Nat \X Nat : ss[1] < ss[2]}
    BY DEF OpToRel
  <1>4. \A y \in T : x <= y
    <2> SUFFICES ASSUME NEW y \in T PROVE x <= y
      OBVIOUS
    <2>1. x \in Nat /\ y \in Nat /\ ~(y < x)
      BY <1>1, <1>2, <1>3
    <2> QED BY <2>1
  <1>5. PICK n \in S : x = N - n
    BY DEF T
  <1>6. \A m \in S : N - n <= N - m
    BY <1>4, <1>5 DEF T
  <1> QED BY <1>6

\* Sweeping drops some number of clients from the front.
LEMMA SweepDrops ==
    ASSUME NEW Keys, NEW t, Sound(t, Keys), NEW now \in Int
    PROVE  \E n \in 0 .. Len(t.order) : RemoveExpired(t, now) = Drop(t, n)
  <1> DEFINE over(n) == \A i \in 1 .. n : Expired(t.entries[t.order[i]], now)
             S == {n \in 0 .. Len(t.order) : over(n)}
             best(n) == over(n) /\ \A m \in 0 .. Len(t.order) : over(m) => m <= n
  <1>1. Len(t.order) \in Nat
    BY SoundTyped
  <1>2. 0 \in S
    BY <1>1
  <1>3. \E n \in S : \A m \in S : m <= n
    BY <1>1, <1>2, Greatest
  <1>4. \E n \in 0 .. Len(t.order) : best(n)
    BY <1>3
  <1>5. (CHOOSE n \in 0 .. Len(t.order) : best(n)) \in 0 .. Len(t.order)
    BY <1>4
  <1>6. RemoveExpired(t, now) = Drop(t, CHOOSE n \in 0 .. Len(t.order) : best(n))
    BY DEF RemoveExpired
  <1> QED BY <1>5, <1>6

\* An entry with one more request counted.
Again(entry) == [startedAt |-> entry.startedAt, count |-> entry.count + 1]

\* What a call leaves of the table.  A refused client is in a window that is not
\* over and used up; other clients keep their entries or lose them.
Kept(t, key, now, a, Keys) ==
    /\ Sound(a.table, Keys)
    /\ Cardinality(Tracked(a.table)) <= Capacity
    /\ \A k \in Tracked(a.table) \ {key} :
          k \in Tracked(t) /\ a.table.entries[k] = t.entries[k]
    /\ a.allowed \in BOOLEAN
    /\ a.allowed =>
          /\ key \in Tracked(a.table)
          /\ \/ a.table.entries[key] = [startedAt |-> now, count |-> 1]
             \/ /\ key \in Tracked(t)
                /\ a.table.entries[key] = Again(t.entries[key])
    /\ ~a.allowed =>
          /\ key \in Tracked(t) /\ key \in Tracked(a.table)
          /\ a.table.entries[key] = t.entries[key]
          /\ t.entries[key].startedAt > now - Window
          /\ t.entries[key].count >= Maximum

\* Room is made for one more client, and not more than the table has.
LEMMA EvictSound ==
    ASSUME NEW Keys, NEW t, Sound(t, Keys), Cardinality(Tracked(t)) <= Capacity
    PROVE  /\ Sound(Evict(t), Keys)
           /\ Len(Evict(t).order) < Capacity
           /\ Tracked(Evict(t)) \subseteq Tracked(t)
           /\ \A k \in Tracked(Evict(t)) : Evict(t).entries[k] = t.entries[k]
  <1> DEFINE m == Len(t.order)
             excess == m - Capacity + 1
  <1>1. Cardinality(Tracked(t)) = m /\ m \in Nat /\ Capacity \in Nat \ {0}
    BY SoundCount, SoundTyped, LimiterAssumption
  <1>2. Evict(t) = IF excess > 0 THEN Drop(t, excess) ELSE t
    BY <1>1 DEF Evict
  <1>3. CASE excess > 0
    <2>1. excess \in 0 .. m /\ m - excess < Capacity
      BY <1>1, <1>3
    <2>2. Evict(t) = Drop(t, excess)
      BY <1>2, <1>3
    <2> HIDE DEF excess
    <2> QED BY <2>1, <2>2, DropSound
  <1>4. CASE ~(excess > 0)
    BY <1>1, <1>2, <1>4
  <1> QED BY <1>3, <1>4

\* Every call of Allow, at whatever time it was given, keeps the table sound and
\* within its capacity, and refuses only a client whose window is used up.
THEOREM AllowKeeps ==
    ASSUME NEW Keys, NEW t, Sound(t, Keys), Cardinality(Tracked(t)) <= Capacity,
           NEW key \in Keys, NEW now \in Int
    PROVE  Kept(t, key, now, Allow(t, key, now), Keys)
  <1> DEFINE s == RemoveExpired(t, now)
             a == Allow(t, key, now)
  <1> SUFFICES Kept(t, key, now, a, Keys)
    OBVIOUS
  <1>1. Window \in Nat /\ Maximum \in Nat /\ Capacity \in Nat
    BY LimiterAssumption
  <1>2. /\ Sound(s, Keys) /\ Tracked(s) \subseteq Tracked(t)
        /\ \A k \in Tracked(s) : s.entries[k] = t.entries[k]
        /\ Cardinality(Tracked(s)) <= Capacity
    <2>1. PICK n \in 0 .. Len(t.order) : s = Drop(t, n)
      BY SweepDrops
    <2>2. /\ Sound(s, Keys) /\ Tracked(s) \subseteq Tracked(t)
          /\ \A k \in Tracked(s) : s.entries[k] = t.entries[k]
          /\ Len(s.order) = Len(t.order) - n
      BY <2>1, DropSound
    <2>3. Cardinality(Tracked(s)) = Len(t.order) - n /\ Cardinality(Tracked(t)) = Len(t.order)
      BY <2>2, SoundCount
    <2>4. Len(t.order) \in Nat /\ n \in Nat
      BY SoundTyped
    <2> QED BY <2>2, <2>3, <2>4, <1>1
  <1> HIDE DEF s
  <1>3. a = IF key \notin Tracked(s)
            THEN [allowed |-> TRUE, table |-> Opened(Evict(s), key, now)]
            ELSE IF Expired(s.entries[key], now)
            THEN [allowed |-> TRUE, table |-> Reopened(s, key, now)]
            ELSE IF s.entries[key].count >= Maximum
            THEN [allowed |-> FALSE, table |-> s]
            ELSE [allowed |-> TRUE, table |-> Counted(s, key)]
    BY DEF Allow, s
  <1> HIDE DEF a
  <1>4. CASE key \notin Tracked(s)
    <2> DEFINE e == Evict(s)
               d == Opened(e, key, now)
    <2>1. a.allowed = TRUE /\ a.table = d
      BY <1>3, <1>4
    <2>2. /\ Sound(e, Keys) /\ Len(e.order) < Capacity /\ Tracked(e) \subseteq Tracked(s)
          /\ \A k \in Tracked(e) : e.entries[k] = s.entries[k]
      BY <1>2, EvictSound
    <2>3. key \in Keys \ Tracked(e)
      BY <1>4, <2>2
    <2> HIDE DEF e
    <2>4. /\ Sound(d, Keys) /\ Len(d.order) = Len(e.order) + 1
          /\ Tracked(d) = Tracked(e) \cup {key}
          /\ d.entries[key] = [startedAt |-> now, count |-> 1]
          /\ \A k \in Tracked(e) : d.entries[k] = e.entries[k]
      BY <2>2, <2>3, OpenedSound
    <2> HIDE DEF d
    <2>5. Cardinality(Tracked(d)) <= Capacity
      <3>1. Cardinality(Tracked(d)) = Len(d.order) /\ Len(e.order) \in Nat
        BY <2>2, <2>4, SoundCount, SoundTyped
      <3> QED BY <3>1, <2>2, <2>4, <1>1
    <2> QED BY <2>1, <2>2, <2>4, <2>5, <1>2 DEF Kept
  <1>5. CASE key \in Tracked(s) /\ Expired(s.entries[key], now)
    <2>1. a.allowed = TRUE /\ a.table = Reopened(s, key, now)
      BY <1>3, <1>5
    <2>2. s.entries \in [Tracked(s) -> Entry]
      BY <1>2, SoundTyped
    <2>3. /\ Sound(a.table, Keys) /\ Tracked(a.table) = Tracked(s)
          /\ a.table.entries = [s.entries EXCEPT ![key] = [startedAt |-> now, count |-> 1]]
      BY <2>1, <1>2, <1>5, ReopenedSound
    <2> QED BY <2>1, <2>2, <2>3, <1>2, <1>5 DEF Kept
  <1>6. CASE /\ key \in Tracked(s) /\ ~Expired(s.entries[key], now)
             /\ s.entries[key].count >= Maximum
    <2>1. a.allowed = FALSE /\ a.table = s
      BY <1>3, <1>6
    <2>2. s.entries[key] \in Entry /\ s.entries[key] = t.entries[key]
      BY <1>2, <1>6, SoundTyped
    <2>3. t.entries[key].startedAt > now - Window
      BY <2>2, <1>1, <1>6 DEF Expired, Entry
    <2> QED BY <2>1, <2>2, <2>3, <1>2, <1>6 DEF Kept
  <1>7. CASE /\ key \in Tracked(s) /\ ~Expired(s.entries[key], now)
             /\ ~(s.entries[key].count >= Maximum)
    <2>1. a.allowed = TRUE /\ a.table = Counted(s, key)
      BY <1>3, <1>7
    <2>2. s.entries \in [Tracked(s) -> Entry]
      BY <1>2, SoundTyped
    <2>3. /\ Sound(a.table, Keys) /\ Tracked(a.table) = Tracked(s)
          /\ a.table.entries = [s.entries EXCEPT ![key].count = @ + 1]
      BY <2>1, <1>2, <1>7, CountedSound
    <2>4. a.table.entries[key] = Again(t.entries[key])
      BY <2>2, <2>3, <1>2, <1>7 DEF Again, Entry
    <2>5. \A k \in Tracked(a.table) \ {key} : a.table.entries[k] = t.entries[k]
      BY <2>2, <2>3, <1>2
    <2> QED BY <2>1, <2>3, <2>4, <2>5, <1>2, <1>7 DEF Kept
  <1> QED BY <1>4, <1>5, <1>6, <1>7
=============================================================================
