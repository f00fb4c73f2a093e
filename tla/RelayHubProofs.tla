---------------------------- MODULE RelayHubProofs ----------------------------
(***************************************************************************)
(* Theorems about RelayHub: whatever the sockets, keys, trust and          *)
(* revocations, the hub keeps at most one socket of an identity, a         *)
(* revocation reaches a socket that was registering when it committed,     *)
(* nothing is queued for a socket but what trusted sockets sent, partners  *)
(* are told of each other, and all of it is RelaySeats done step by step.  *)
(***************************************************************************)
EXTENDS RelayHub, FiniteSetTheorems, TLAPS

-------------------------------------------------------------------------------
(* Sequences of effects.                                                   *)

\* The partners of a socket, in any order the map yields them.
LEMMA OrderIsSeq ==
    ASSUME NEW S \in SUBSET Sockets, NEW order \in SetToSeqs(S)
    PROVE  /\ Len(order) \in Nat /\ DOMAIN order = 1..Len(order)
           /\ \A i \in 1..Len(order) : order[i] \in S
<1>1. Cardinality(S) \in Nat
  BY RelayHubAssumption, FS_Subset, FS_CardinalityType
<1>2. order \in [1..Cardinality(S) -> S]
  BY DEF SetToSeqs
<1>3. order \in Seq(S) /\ Len(order) = Cardinality(S)
  BY <1>1, <1>2
<1> QED
  BY <1>1, <1>2, <1>3

LEMMA SendIsEffect ==
    ASSUME NEW s \in Sockets, NEW t \in Sockets, NEW type \in {"ready", "hello", "offline", "frame"}
    PROVE  Send(t, type, s) \in Effect
  BY DEF Send, Effect, Message

\* A newcomer's introductions go to its partners and come from them.
LEMMA IntroductionsAre ==
    ASSUME NEW s \in Sockets, NEW S \in SUBSET Sockets, NEW order \in SetToSeqs(S)
    PROVE  /\ Introductions(s, order) \in Seq(Effect)
           /\ \A e \in ToSet(Introductions(s, order)) :
                 \E t \in S : e = Send(t, "hello", s) \/ e = Send(s, "hello", t)
<1> DEFINE n == 2 * Len(order)
           I == Introductions(s, order)
<1>1. Len(order) \in Nat /\ \A i \in 1..Len(order) : order[i] \in S
  BY OrderIsSeq
<1>2. I = [i \in 1..n |-> IF i % 2 = 1 THEN Send(order[(i + 1) \div 2], "hello", s)
                                      ELSE Send(s, "hello", order[i \div 2])]
  BY DEF Introductions
<1>3. \A i \in 1..n : \E t \in S : I[i] = Send(t, "hello", s) \/ I[i] = Send(s, "hello", t)
  <2> SUFFICES ASSUME NEW i \in 1..n
               PROVE  \E t \in S : I[i] = Send(t, "hello", s) \/ I[i] = Send(s, "hello", t)
    OBVIOUS
  <2>1. CASE i % 2 = 1
    <3>1. (i + 1) \div 2 \in 1..Len(order)
      BY <1>1, <2>1
    <3> QED
      BY <1>1, <1>2, <2>1, <3>1
  <2>2. CASE i % 2 # 1
    <3>1. i \div 2 \in 1..Len(order)
      BY <1>1, <2>2
    <3> QED
      BY <1>1, <1>2, <2>2, <3>1
  <2> QED
    BY <2>1, <2>2
<1>4. n \in Nat /\ DOMAIN I = 1..n
  BY <1>1, <1>2
<1> HIDE DEF I, n
<1>5. \A i \in 1..n : I[i] \in Effect
  BY <1>3, SendIsEffect
<1>6. I \in [1..n -> Effect]
  BY <1>2, <1>4, <1>5
<1>7. I \in Seq(Effect)
  BY <1>4, <1>6
<1> QED
  BY <1>3, <1>4, <1>7 DEF I, ToSet

\* The offline notices of a socket that leaves.
LEMMA NoticesAre ==
    ASSUME NEW s \in Sockets, NEW S \in SUBSET Sockets, NEW order \in SetToSeqs(S), NEW q,
           q = [i \in DOMAIN order |-> Send(order[i], "offline", s)]
    PROVE  /\ q \in Seq(Effect)
           /\ \A e \in ToSet(q) : \E t \in S : e = Send(t, "offline", s)
<1>1. /\ Len(order) \in Nat /\ DOMAIN order = 1..Len(order)
      /\ \A i \in 1..Len(order) : order[i] \in S
  BY OrderIsSeq
<1>2. \A i \in 1..Len(order) : q[i] \in Effect
  BY <1>1, SendIsEffect
<1>3. q \in [1..Len(order) -> Effect]
  BY <1>1, <1>2
<1> QED
  BY <1>1, <1>3 DEF ToSet

LEMMA Concatenation ==
    ASSUME NEW S, NEW p \in Seq(S), NEW q \in Seq(S)
    PROVE  p \o q \in Seq(S) /\ ToSet(p \o q) = ToSet(p) \cup ToSet(q)
<1> DEFINE r == p \o q
           m == Len(p)
           n == Len(q)
<1>1. /\ r \in Seq(S) /\ DOMAIN r = 1..(m + n)
      /\ DOMAIN p = 1..m /\ DOMAIN q = 1..n /\ m \in Nat /\ n \in Nat
  OBVIOUS
<1>2. \A i \in 1..m : r[i] = p[i]
  OBVIOUS
<1>3. \A i \in 1..n : r[m + i] = q[i]
  OBVIOUS
<1> HIDE DEF r, m, n
<1>4. ToSet(r) \subseteq ToSet(p) \cup ToSet(q)
  <2> SUFFICES ASSUME NEW i \in 1..(m + n) PROVE r[i] \in ToSet(p) \cup ToSet(q)
    BY <1>1 DEF ToSet
  <2>1. CASE i \in 1..m
    BY <2>1, <1>1, <1>2 DEF ToSet
  <2>2. CASE i \notin 1..m
    <3>1. i - m \in 1..n /\ i = m + (i - m)
      BY <2>2, <1>1
    <3> QED
      BY <3>1, <1>1, <1>3 DEF ToSet
  <2> QED
    BY <2>1, <2>2
<1>5. ToSet(p) \subseteq ToSet(r)
  <2> SUFFICES ASSUME NEW i \in 1..m PROVE p[i] \in ToSet(r)
    BY <1>1 DEF ToSet
  <2>1. i \in DOMAIN r
    BY <1>1
  <2> QED
    BY <2>1, <1>2 DEF ToSet
<1>6. ToSet(q) \subseteq ToSet(r)
  <2> SUFFICES ASSUME NEW i \in 1..n PROVE q[i] \in ToSet(r)
    BY <1>1 DEF ToSet
  <2>1. m + i \in DOMAIN r
    BY <1>1
  <2> QED
    BY <2>1, <1>3 DEF ToSet
<1> QED
  BY <1>1, <1>4, <1>5, <1>6 DEF r

LEMMA HeadAndTail ==
    ASSUME NEW S, NEW q \in Seq(S), q # <<>>
    PROVE  /\ Head(q) \in S /\ Tail(q) \in Seq(S) /\ Len(Tail(q)) = Len(q) - 1
           /\ ToSet(q) = {Head(q)} \cup ToSet(Tail(q))
<1>1. Len(q) \in Nat \ {0} /\ Tail(q) \in Seq(S) /\ Len(Tail(q)) = Len(q) - 1
  OBVIOUS
<1>2. \A i \in 1..Len(Tail(q)) : Tail(q)[i] = q[i + 1] /\ i + 1 \in 1..Len(q)
  BY <1>1
<1>3. Head(q) = q[1] /\ 1 \in 1..Len(q)
  BY <1>1
<1>4. \A i \in 1..Len(q) : i = 1 \/ (i - 1 \in 1..Len(Tail(q)) /\ i = (i - 1) + 1)
  BY <1>1
<1> DEFINE h == Head(q)
           r == Tail(q)
<1> HIDE DEF h, r
<1>5. ToSet(q) \subseteq {h} \cup ToSet(r)
  <2> SUFFICES ASSUME NEW i \in 1..Len(q) PROVE q[i] \in {h} \cup ToSet(r)
    BY <1>1 DEF ToSet
  <2>1. CASE i = 1
    BY <1>3, <2>1 DEF h
  <2>2. CASE i # 1
    <3>1. i - 1 \in 1..Len(r) /\ q[i] = r[i - 1]
      BY <1>2, <1>4, <2>2 DEF r
    <3>2. DOMAIN r = 1..Len(r)
      BY <1>1 DEF r
    <3> QED
      BY <3>1, <3>2 DEF ToSet
  <2> QED
    BY <2>1, <2>2
<1>6. {h} \cup ToSet(r) \subseteq ToSet(q)
  BY <1>1, <1>2, <1>3 DEF ToSet, h, r
<1> QED
  BY <1>1, <1>3, <1>5, <1>6 DEF h, r

LEMMA Appended ==
    ASSUME NEW S, NEW q \in Seq(S), NEW m \in S
    PROVE  /\ Append(q, m) \in Seq(S) /\ Len(Append(q, m)) = Len(q) + 1
           /\ ToSet(Append(q, m)) = ToSet(q) \cup {m}
<1>1. Append(q, m) \in Seq(S) /\ Len(Append(q, m)) = Len(q) + 1 /\ Len(q) \in Nat
  OBVIOUS
<1>2. \A i \in 1..Len(q) : Append(q, m)[i] = q[i] /\ i \in 1..Len(Append(q, m))
  BY <1>1
<1>3. Append(q, m)[Len(q) + 1] = m /\ Len(q) + 1 \in 1..Len(Append(q, m))
  BY <1>1
<1>4. \A i \in 1..Len(Append(q, m)) : i \in 1..Len(q) \/ i = Len(q) + 1
  BY <1>1
<1>5. DOMAIN Append(q, m) = 1..Len(Append(q, m)) /\ DOMAIN q = 1..Len(q)
  BY <1>1
<1> DEFINE r == Append(q, m)
<1> HIDE DEF r
<1>6. ToSet(r) \subseteq ToSet(q) \cup {m}
  BY <1>2, <1>3, <1>4, <1>5 DEF ToSet, r
<1>7. ToSet(q) \cup {m} \subseteq ToSet(r)
  BY <1>2, <1>3, <1>5 DEF ToSet, r
<1> QED
  BY <1>1, <1>6, <1>7 DEF r

-------------------------------------------------------------------------------
(* Types.                                                                  *)

\* What queueing a message changes.
LEMMA EnqueueKeeps ==
    ASSUME TypeOK, NEW t \in Sockets, NEW m \in Message, Enqueue(t, m)
    PROVE  /\ queue' \in [Sockets -> Seq(Message)]
           /\ \A s \in Sockets : Len(queue'[s]) <= Capacity
           /\ \A s \in Sockets : ToSet(queue'[s]) \subseteq
                                    ToSet(queue[s]) \cup IF s = t THEN {m} ELSE {}
           /\ done' \in [Sockets -> BOOLEAN]
           /\ \A s \in Sockets : done[s] => done'[s]
<1>0. /\ queue \in [Sockets -> Seq(Message)] /\ done \in [Sockets -> BOOLEAN]
      /\ \A s \in Sockets : Len(queue[s]) <= Capacity
  BY DEF TypeOK
<1>1. CASE UNCHANGED queue /\ (UNCHANGED done \/ done' = [done EXCEPT ![t] = TRUE])
  BY <1>0, <1>1
<1>2. CASE Len(queue[t]) < Capacity /\ queue' = [queue EXCEPT ![t] = Append(@, m)] /\ UNCHANGED done
  <2>1. queue'[t] = Append(queue[t], m) /\ \A s \in Sockets : s # t => queue'[s] = queue[s]
    BY <1>0, <1>2
  <2>2. /\ Append(queue[t], m) \in Seq(Message)
        /\ Len(Append(queue[t], m)) = Len(queue[t]) + 1
        /\ ToSet(Append(queue[t], m)) = ToSet(queue[t]) \cup {m}
    <3> DEFINE q == queue[t]
    <3>1. q \in Seq(Message)
      BY <1>0
    <3> HIDE DEF q
    <3>2. /\ Append(q, m) \in Seq(Message) /\ Len(Append(q, m)) = Len(q) + 1
          /\ ToSet(Append(q, m)) = ToSet(q) \cup {m}
      BY <3>1, Appended
    <3> QED
      BY <3>2 DEF q
  <2>3. Len(queue[t]) + 1 <= Capacity
    BY <1>0, <1>2, RelayHubAssumption
  <2>4. queue' \in [Sockets -> Seq(Message)]
    BY <1>0, <1>2, <2>2
  <2>5. \A s \in Sockets : Len(queue'[s]) <= Capacity
    BY <1>0, <2>1, <2>2, <2>3
  <2>6. \A s \in Sockets : ToSet(queue'[s]) \subseteq
                             ToSet(queue[s]) \cup IF s = t THEN {m} ELSE {}
    BY <2>1, <2>2
  <2> QED
    BY <1>0, <1>2, <2>4, <2>5, <2>6
<1> QED
  BY <1>1, <1>2 DEF Enqueue

\* What carrying the next effect out changes.
LEMMA CarryOutKeeps ==
    ASSUME TypeOK, NEW s \in Sockets, CarryOut(s)
    PROVE  /\ todo[s] # <<>> /\ todo[s] \in Seq(Effect) /\ Head(todo[s]) \in Effect
           /\ todo' = [todo EXCEPT ![s] = Tail(@)] /\ todo' \in [Sockets -> Seq(Effect)]
           /\ ToSet(todo[s]) = {Head(todo[s])} \cup ToSet(todo'[s])
           /\ queue' \in [Sockets -> Seq(Message)]
           /\ \A x \in Sockets : Len(queue'[x]) <= Capacity
           /\ done' \in [Sockets -> BOOLEAN]
           /\ \A x \in Sockets : done[x] => done'[x]
           /\ Head(todo[s]).act = "stop" => done'[Head(todo[s]).to]
           /\ \A x \in Sockets : \A m \in ToSet(queue'[x]) :
                 \/ m \in ToSet(queue[x])
                 \/ /\ Head(todo[s]).act = "send"
                    /\ x = Head(todo[s]).to /\ m = Head(todo[s]).msg
<1> DEFINE e == Head(todo[s])
<1>0. /\ todo \in [Sockets -> Seq(Effect)] /\ todo[s] # <<>>
      /\ queue \in [Sockets -> Seq(Message)] /\ done \in [Sockets -> BOOLEAN]
      /\ \A x \in Sockets : Len(queue[x]) <= Capacity
      /\ todo' = [todo EXCEPT ![s] = Tail(@)]
  BY DEF TypeOK, CarryOut
<1>1. /\ e \in Effect /\ Tail(todo[s]) \in Seq(Effect)
      /\ ToSet(todo[s]) = {e} \cup ToSet(Tail(todo[s]))
  BY <1>0, HeadAndTail, Zenon
<1>2. todo'[s] = Tail(todo[s]) /\ todo' \in [Sockets -> Seq(Effect)] /\ todo[s] \in Seq(Effect)
  BY <1>0, <1>1
<1>3. e.to \in Sockets /\ (e.act = "send" => e.msg \in Message)
  BY <1>1 DEF Effect
<1>4. \/ e.act = "stop" /\ done' = [done EXCEPT ![e.to] = TRUE] /\ UNCHANGED queue
      \/ e.act = "send" /\ Enqueue(e.to, e.msg)
  BY DEF CarryOut
<1> HIDE DEF e
<1>5. CASE e.act = "stop" /\ done' = [done EXCEPT ![e.to] = TRUE] /\ UNCHANGED queue
  <2>1. /\ done' \in [Sockets -> BOOLEAN] /\ done'[e.to]
        /\ \A x \in Sockets : done[x] => done'[x]
    BY <1>0, <1>3, <1>5
  <2> QED
    BY <1>0, <1>1, <1>2, <1>5, <2>1 DEF e
<1>6. CASE e.act = "send" /\ Enqueue(e.to, e.msg)
  <2>1. e.msg \in Message /\ e.act # "stop"
    BY <1>3, <1>6
  <2>2. /\ queue' \in [Sockets -> Seq(Message)]
        /\ \A x \in Sockets : Len(queue'[x]) <= Capacity
        /\ \A x \in Sockets : ToSet(queue'[x]) \subseteq
                                ToSet(queue[x]) \cup IF x = e.to THEN {e.msg} ELSE {}
        /\ done' \in [Sockets -> BOOLEAN]
        /\ \A x \in Sockets : done[x] => done'[x]
    BY <1>3, <1>6, <2>1, EnqueueKeeps
  <2> QED
    BY <1>0, <1>1, <1>2, <1>6, <2>1, <2>2 DEF e
<1> QED
  BY <1>4, <1>5, <1>6

\* The effects a registration, a frame and a departure leave to carry out.
LEMMA RegisterOwes ==
    ASSUME TypeOK, NEW s \in Sockets, Register(s)
    PROVE  /\ todo' \in [Sockets -> Seq(Effect)]
           /\ \A x \in Sockets \ {s} : todo'[x] = todo[x]
           /\ peers[KeyOf[s]] # NONE => Stop(peers[KeyOf[s]]) \in ToSet(todo'[s])
           /\ \A e \in ToSet(todo'[s]) :
                 \/ e.act = "stop" /\ peers[KeyOf[s]] # NONE /\ e = Stop(peers[KeyOf[s]])
                 \/ \E t \in RegisteredOpposite(s) :
                       MutualTrust(s, t) /\ (e = Send(t, "hello", s) \/ e = Send(s, "hello", t))
<1> DEFINE S == {t \in RegisteredOpposite(s) : MutualTrust(s, t)}
<1>0. todo \in [Sockets -> Seq(Effect)] /\ peers \in [Keys -> Sockets \cup {NONE}]
      /\ KeyOf[s] \in Keys
  BY RelayHubAssumption DEF TypeOK
<1>1. PICK order \in SetToSeqs(S) :
        todo' = [todo EXCEPT ![s] = Superseded(s) \o Introductions(s, order)]
  BY DEF Register
<1>2. S \in SUBSET Sockets
  BY <1>0 DEF RegisteredOpposite, OtherRole, Keys
<1> HIDE DEF S
<1> DEFINE I == Introductions(s, order)
           Q == Superseded(s)
<1>3. /\ I \in Seq(Effect)
      /\ \A e \in ToSet(I) : \E t \in S : e = Send(t, "hello", s) \/ e = Send(s, "hello", t)
  BY <1>2, IntroductionsAre
<1>4. /\ Q \in Seq(Effect)
      /\ peers[KeyOf[s]] # NONE => Stop(peers[KeyOf[s]]) \in ToSet(Q)
      /\ \A e \in ToSet(Q) :
            e.act = "stop" /\ peers[KeyOf[s]] # NONE /\ e = Stop(peers[KeyOf[s]])
  <2>1. CASE peers[KeyOf[s]] = NONE
    BY <2>1 DEF Superseded, ToSet
  <2>2. CASE peers[KeyOf[s]] # NONE
    <3>1. Stop(peers[KeyOf[s]]) \in Effect /\ Stop(peers[KeyOf[s]]).act = "stop"
      BY <1>0, <2>2 DEF Stop, Effect
    <3>2. Q = <<Stop(peers[KeyOf[s]])>>
      BY <2>2 DEF Superseded
    <3>3. ToSet(Q) = {Stop(peers[KeyOf[s]])}
      BY <3>2 DEF ToSet
    <3>4. Q \in Seq(Effect)
      BY <3>1, <3>2
    <3> HIDE DEF Q
    <3> QED
      BY <2>2, <3>1, <3>3, <3>4
  <2> QED
    BY <2>1, <2>2
<1> HIDE DEF I, Q
<1>5. Q \o I \in Seq(Effect) /\ ToSet(Q \o I) = ToSet(Q) \cup ToSet(I)
  <2>1. Q \in Seq(Effect) /\ I \in Seq(Effect)
    BY <1>3, <1>4
  <2> QED
    BY <2>1, Concatenation
<1>6. todo'[s] = Q \o I /\ \A x \in Sockets \ {s} : todo'[x] = todo[x]
  BY <1>0, <1>1 DEF Q, I
<1>7. todo' \in [Sockets -> Seq(Effect)]
  BY <1>0, <1>1, <1>5 DEF Q, I
<1>8. \A e \in ToSet(todo'[s]) :
         \/ e.act = "stop" /\ peers[KeyOf[s]] # NONE /\ e = Stop(peers[KeyOf[s]])
         \/ \E t \in RegisteredOpposite(s) :
               MutualTrust(s, t) /\ (e = Send(t, "hello", s) \/ e = Send(s, "hello", t))
  BY <1>3, <1>4, <1>5, <1>6 DEF S
<1> QED
  BY <1>4, <1>5, <1>6, <1>7, <1>8

LEMMA UnregisterOwes ==
    ASSUME TypeOK, NEW s \in Sockets, Unregister(s)
    PROVE  /\ todo' \in [Sockets -> Seq(Effect)]
           /\ \A x \in Sockets \ {s} : todo'[x] = todo[x]
           /\ \A e \in ToSet(todo'[s]) :
                 \/ e \in ToSet(todo[s])
                 \/ \E t \in RegisteredOpposite(s) : Trusts(t, s) /\ e = Send(t, "offline", s)
<1>0. todo \in [Sockets -> Seq(Effect)] /\ peers \in [Keys -> Sockets \cup {NONE}]
  BY DEF TypeOK
<1>1. CASE UNCHANGED todo
  BY <1>0, <1>1
<1>2. ASSUME NEW order \in SetToSeqs({t \in RegisteredOpposite(s) : Trusts(t, s)}),
             todo' = [todo EXCEPT ![s] = [i \in DOMAIN order |-> Send(order[i], "offline", s)]]
      PROVE  /\ todo' \in [Sockets -> Seq(Effect)]
             /\ \A x \in Sockets \ {s} : todo'[x] = todo[x]
             /\ \A e \in ToSet(todo'[s]) :
                   \/ e \in ToSet(todo[s])
                   \/ \E t \in RegisteredOpposite(s) : Trusts(t, s) /\ e = Send(t, "offline", s)
  <2> DEFINE S == {t \in RegisteredOpposite(s) : Trusts(t, s)}
             q == [i \in DOMAIN order |-> Send(order[i], "offline", s)]
  <2>1. S \in SUBSET Sockets
    BY <1>0 DEF RegisteredOpposite, OtherRole, Keys
  <2>2. q \in Seq(Effect) /\ \A e \in ToSet(q) : \E t \in S : e = Send(t, "offline", s)
    BY <2>1, NoticesAre
  <2>3. todo' = [todo EXCEPT ![s] = q]
    BY <1>2
  <2> HIDE DEF q
  <2>4. todo'[s] = q /\ todo' \in [Sockets -> Seq(Effect)]
        /\ \A x \in Sockets \ {s} : todo'[x] = todo[x]
    BY <1>0, <2>2, <2>3
  <2> QED
    BY <2>2, <2>4
<1> QED
  BY <1>1, <1>2 DEF Unregister

LEMMA TypeOKInit == Init => TypeOK
<1> SUFFICES ASSUME Init PROVE TypeOK
  OBVIOUS
<1>1. todo \in [Sockets -> Seq(Effect)] /\ queue \in [Sockets -> Seq(Message)]
  BY DEF Init
<1>2. \A s \in Sockets : Len(queue[s]) <= Capacity
  BY RelayHubAssumption DEF Init
<1> QED
  BY <1>1, <1>2 DEF Init, TypeOK, Stages

LEMMA TypeOKServes ==
    ASSUME TypeOK, NEW s \in Sockets, Goroutine(s)
    PROVE  TypeOK'
<1>0. KeyOf[s] \in Keys
  BY RelayHubAssumption
<1>1. CASE Register(s)
  <2>1. todo' \in [Sockets -> Seq(Effect)]
    BY <1>1, RegisterOwes
  <2>2. queue' \in [Sockets -> Seq(Message)] /\ \A x \in Sockets : Len(queue'[x]) <= Capacity
    <3> DEFINE m == [type |-> "ready", from |-> s]
    <3>1. m \in Message
      BY DEF Message
    <3> HIDE DEF m
    <3>2. <<m>> \in Seq(Message) /\ Len(<<m>>) = 1 /\ 1 <= Capacity
      BY <3>1, RelayHubAssumption
    <3>3. queue' = [queue EXCEPT ![s] = <<m>>]
      BY <1>1 DEF Register, m
    <3> QED
      BY <3>2, <3>3 DEF TypeOK
  <2> QED
    <3>1. /\ stage' = [stage EXCEPT ![s] = "registering"]
          /\ peers' = [peers EXCEPT ![KeyOf[s]] = s]
          /\ UNCHANGED <<trust, revoked, closed, trusted, done, open, checked, announcer,
                         matched, view>>
      BY <1>1 DEF Register, dbVars, announcerVars
    <3>2. stage' \in [Sockets -> Stages] /\ peers' \in [Keys -> Sockets \cup {NONE}]
      BY <1>0, <3>1 DEF TypeOK, Stages
    <3> QED
      BY <2>1, <2>2, <3>1, <3>2 DEF TypeOK
<1>2. CASE CarryOut(s)
  <2>1. /\ todo' \in [Sockets -> Seq(Effect)] /\ queue' \in [Sockets -> Seq(Message)]
        /\ \A x \in Sockets : Len(queue'[x]) <= Capacity
        /\ done' \in [Sockets -> BOOLEAN]
    BY <1>2, CarryOutKeeps
  <2> QED
    BY <1>2, <2>1 DEF TypeOK, CarryOut, dbVars, hubVars, announcerVars
<1>3. CASE Serve(s)
  BY <1>3 DEF TypeOK, Serve, Stages, dbVars, hubVars, announcerVars
<1>4. CASE ReadLoopReturns(s)
  BY <1>4 DEF TypeOK, ReadLoopReturns, Stages, dbVars, hubVars, announcerVars
<1>5. CASE Unregister(s)
  <2>1. todo' \in [Sockets -> Seq(Effect)]
    BY <1>5, UnregisterOwes
  <2>2. peers' \in [Keys -> Sockets \cup {NONE}]
    BY <1>0, <1>5 DEF TypeOK, Unregister
  <2> QED
    BY <1>5, <2>1, <2>2 DEF TypeOK, Unregister, Stages, dbVars, announcerVars
<1>6. CASE Finish(s)
  BY <1>6 DEF TypeOK, Finish, Stages, dbVars, hubVars, announcerVars
<1> QED
  BY <1>1, <1>2, <1>3, <1>4, <1>5, <1>6 DEF Goroutine

LEMMA TypeOKSocket ==
    ASSUME TypeOK, NEW s \in Sockets, SocketStep(s)
    PROVE  TypeOK'
<1> USE DEF dbVars, hubVars, announcerVars
<1>1. CASE Admit(s) \/ RefuseHello(s)
  <2>1. CASE Admit(s)
    <3>1. /\ stage' = [stage EXCEPT ![s] = "admitted"] /\ open' = [open EXCEPT ![s] = TRUE]
          /\ UNCHANGED <<trust, revoked, peers, closed, todo, done, queue, checked,
                         announcer, matched, view>>
      BY <2>1 DEF Admit
    <3>2. trusted' \in [Sockets -> SUBSET Keys]
      BY <2>1 DEF Admit, TypeOK, OtherRole, Keys
    <3>3. stage' \in [Sockets -> Stages] /\ open' \in [Sockets -> BOOLEAN]
      BY <3>1 DEF TypeOK, Stages
    <3> QED
      BY <3>1, <3>2, <3>3 DEF TypeOK
  <2>2. CASE RefuseHello(s)
    BY <2>2 DEF TypeOK, RefuseHello, Stages
  <2> QED
    BY <1>1, <2>1, <2>2
<1>2. CASE Goroutine(s)
  BY <1>2, TypeOKServes
<1>3. ASSUME NEW k \in Keys, Route(s, k) PROVE TypeOK'
  <2> DEFINE e == Send(peers[k], "frame", s)
  <2>1. todo' = [todo EXCEPT ![s] = <<e>>] /\ peers[k] \in Sockets
    BY <1>3 DEF Route, TypeOK
  <2>2. e \in Effect
    BY <2>1, SendIsEffect
  <2> HIDE DEF e
  <2>3. todo' \in [Sockets -> Seq(Effect)]
    BY <2>1, <2>2 DEF TypeOK
  <2> QED
    BY <1>3, <2>3 DEF TypeOK, Route
<1>4. CASE Deliver(s)
  <2>1. queue[s] \in Seq(Message) /\ queue[s] # <<>> /\ queue' = [queue EXCEPT ![s] = Tail(@)]
    BY <1>4 DEF Deliver, TypeOK
  <2>2. Head(queue[s]) \in Message /\ Tail(queue[s]) \in Seq(Message)
        /\ Len(Tail(queue[s])) = Len(queue[s]) - 1
    BY <2>1, HeadAndTail, Zenon
  <2>3. queue' \in [Sockets -> Seq(Message)]
    BY <2>1, <2>2 DEF TypeOK
  <2>4. \A x \in Sockets : Len(queue'[x]) <= Capacity
    <3>1. Len(queue[s]) \in Nat /\ Capacity \in Nat
      BY <2>1, RelayHubAssumption
    <3> QED
      BY <2>1, <2>2, <3>1 DEF TypeOK
  <2>5. view' \in [Sockets -> [Keys -> {"unknown", "hello", "offline"}]]
    BY <1>4, <2>2 DEF TypeOK, Deliver, Message
  <2> QED
    BY <1>4, <2>3, <2>4, <2>5 DEF TypeOK, Deliver
<1>5. CASE CloseStopped(s) \/ ConnectionLost(s)
  BY <1>5 DEF TypeOK, CloseStopped, ConnectionLost, Disconnected
<1>6. CASE Check(s)
  BY <1>6 DEF TypeOK, Check, Ended
<1>7. CASE LeaseEnds(s)
  BY <1>7 DEF TypeOK, LeaseEnds
<1> QED
  BY <1>1, <1>2, <1>3, <1>4, <1>5, <1>6, <1>7 DEF SocketStep

LEMMA TypeOKOutside == TypeOK /\ Outside => TypeOK'
<1> SUFFICES ASSUME TypeOK, Outside PROVE TypeOK'
  OBVIOUS
<1> USE DEF dbVars, hubVars, announcerVars, Announcers, Closing
<1>1. ASSUME NEW e \in NewTrust, Pair(e) PROVE TypeOK'
  BY <1>1 DEF TypeOK, Pair
<1>2. ASSUME NEW r \in Revocations, Revoke(r) PROVE TypeOK'
  BY <1>2 DEF TypeOK, Revoke
<1>3. ASSUME NEW r \in Revocations, Collect(r) PROVE TypeOK'
  BY <1>3 DEF TypeOK, Collect, Registered
<1>4. ASSUME NEW r \in Announcers, StopMatched(r) PROVE TypeOK'
  BY <1>4 DEF TypeOK, StopMatched
<1>5. CASE CloseHub
  BY <1>5 DEF TypeOK, CloseHub, Registered
<1> QED
  BY <1>1, <1>2, <1>3, <1>4, <1>5 DEF Outside

LEMMA TypeOKStep == TypeOK /\ [Next]_vars => TypeOK'
<1>1. TypeOK /\ UNCHANGED vars => TypeOK'
  BY DEF TypeOK, vars, dbVars, hubVars, announcerVars
<1> QED
  BY <1>1, TypeOKSocket, TypeOKOutside DEF Next

\* The variables keep their types; in particular no outbound queue holds more
\* than outboundQueueCapacity messages.
THEOREM TypeCorrect == Spec => []TypeOK
  BY TypeOKInit, TypeOKStep, PTL DEF Spec

-------------------------------------------------------------------------------
(* Places in the hub, and stops under way.                                 *)

\* A goroutine owes effects only while it registers, routes a frame or leaves,
\* and its monitor checks only once it serves.
Threads ==
    \A s \in Sockets :
        /\ stage[s] \in {"idle", "admitted", "ending", "finished"} => todo[s] = <<>>
        /\ checked[s] => stage[s] \notin {"idle", "admitted", "registering"}

\* A place in the map is held by a socket of that identity that registered.
Places ==
    \A k \in Keys : peers[k] # NONE => /\ KeyOf[peers[k]] = k
                                       /\ stage[peers[k]] \notin {"idle", "admitted"}

\* An announcement follows its commit and collects peers once.
Announced ==
    /\ \A r \in Revocations : /\ announcer[r] # "idle" => r \in revoked
                              /\ announcer[r] # "stopping" => matched[r] = {}
    /\ ~closed => matched["close"] = {}

\* A socket that serves holds its place in the map, or is being stopped.
Stopping(s) == done[s] \/ StopPending(s)
Placed ==
    \A s \in Sockets : stage[s] \in {"registering", "serving"} =>
        peers[KeyOf[s]] = s \/ Stopping(s)

HubInv == TypeOK /\ Threads /\ Places /\ Announced /\ Placed /\ RevocationReachesSocket

\* The steps that neither owe, carry out nor collect anything.
Quiet == UNCHANGED <<peers, closed, todo, matched>>

LEMMA QuietSteps ==
    ASSUME NEW s \in Sockets,
           \/ Admit(s) \/ RefuseHello(s) \/ Serve(s) \/ ReadLoopReturns(s) \/ Finish(s)
           \/ Deliver(s) \/ CloseStopped(s) \/ ConnectionLost(s) \/ Check(s) \/ LeaseEnds(s)
    PROVE  Quiet
<1>1. Admit(s) \/ RefuseHello(s) \/ Serve(s) \/ ReadLoopReturns(s) \/ Finish(s) => Quiet
  BY DEF Quiet, Admit, RefuseHello, Serve, ReadLoopReturns, Finish, hubVars, announcerVars
<1>2. CloseStopped(s) \/ ConnectionLost(s) \/ Check(s) \/ LeaseEnds(s) => Quiet
  BY DEF Quiet, CloseStopped, ConnectionLost, Disconnected, Check, LeaseEnds, hubVars,
         announcerVars
<1>3. Deliver(s) => Quiet
  BY DEF Quiet, Deliver, hubVars, announcerVars
<1> QED
  BY <1>1, <1>2, <1>3

LEMMA QuietOutside ==
    Outside => \/ Quiet
               \/ \E r \in Revocations : Collect(r)
               \/ \E r \in Announcers : StopMatched(r)
               \/ CloseHub
  BY DEF Outside, Quiet, Pair, Revoke, hubVars, announcerVars

\* The steps, seen from the map, the effects owed and the peers collected.
LEMMA HubSteps ==
    ASSUME [Next]_vars
    PROVE  \/ Quiet
           \/ \E s \in Sockets : \/ Register(s) \/ CarryOut(s) \/ Unregister(s)
                                 \/ \E k \in Keys : Route(s, k)
           \/ \E r \in Revocations : Collect(r)
           \/ \E r \in Announcers : StopMatched(r)
           \/ CloseHub
<1>1. UNCHANGED vars => Quiet
  BY DEF vars, Quiet, hubVars, announcerVars
<1>2. ASSUME NEW s \in Sockets, SocketStep(s)
      PROVE  \/ Quiet
             \/ Register(s) \/ CarryOut(s) \/ Unregister(s) \/ \E k \in Keys : Route(s, k)
  BY <1>2, QuietSteps DEF SocketStep, Goroutine
<1> QED
  BY <1>1, <1>2, QuietOutside DEF Next

\* A peer stopped stays stopped.
LEMMA DoneStays ==
    ASSUME TypeOK, [Next]_vars, NEW s \in Sockets, done[s]
    PROVE  done'[s]
<1>0. done \in [Sockets -> BOOLEAN]
  BY DEF TypeOK
<1>1. UNCHANGED done => done'[s]
  OBVIOUS
<1>2. ASSUME NEW x \in Sockets, SocketStep(x) PROVE done'[s]
  <2>1. CarryOut(x) => done'[s]
    BY CarryOutKeeps
  <2>2. Check(x) \/ LeaseEnds(x) \/ Finish(x) => done'[s]
    BY <1>0 DEF Check, LeaseEnds, Finish
  <2>3. Admit(x) \/ RefuseHello(x) \/ Register(x) \/ Serve(x) \/ ReadLoopReturns(x) => UNCHANGED done
    BY DEF Admit, RefuseHello, Register, Serve, ReadLoopReturns
  <2>4. Unregister(x) \/ Deliver(x) \/ CloseStopped(x) \/ ConnectionLost(x) => UNCHANGED done
    BY DEF Unregister, Deliver, CloseStopped, ConnectionLost, Disconnected
  <2>5. \A k \in Keys : Route(x, k) => UNCHANGED done
    BY DEF Route
  <2> QED
    BY <1>1, <1>2, <2>1, <2>2, <2>3, <2>4, <2>5 DEF SocketStep, Goroutine
<1>3. CASE Outside
  BY <1>0, <1>3 DEF Outside, Pair, Revoke, Collect, CloseHub, StopMatched
<1> QED
  BY <1>1, <1>2, <1>3 DEF Next, vars

\* A stop under way is carried out, not lost.
LEMMA StopsStay ==
    ASSUME TypeOK, Threads, Announced, [Next]_vars, NEW s \in Sockets, Stopping(s)
    PROVE  Stopping(s)'
<1>0. /\ todo \in [Sockets -> Seq(Effect)] /\ matched \in [Announcers -> SUBSET Sockets]
      /\ done \in [Sockets -> BOOLEAN]
  BY DEF TypeOK
<1>d. done[s] => Stopping(s)'
  BY DoneStays DEF Stopping
<1>m. ASSUME NEW r \in Announcers, s \in matched'[r] PROVE Stopping(s)'
  BY <1>m DEF Stopping, StopPending
<1>t. ASSUME NEW x \in Sockets, Stop(s) \in ToSet(todo'[x]) PROVE Stopping(s)'
  BY <1>t DEF Stopping, StopPending, Stop
<1> SUFFICES ASSUME StopPending(s) PROVE Stopping(s)'
  BY <1>d DEF Stopping
<1>e. ToSet(<<>>) = {}
  BY DEF ToSet
<1>1. CASE Quiet
  BY <1>1, <1>m, <1>t DEF Quiet, StopPending
<1>2. ASSUME NEW x \in Sockets, todo[x] = <<>>, UNCHANGED matched,
             \A y \in Sockets \ {x} : todo'[y] = todo[y]
      PROVE  Stopping(s)'
  BY <1>2, <1>e, <1>m, <1>t DEF StopPending
<1>3. ASSUME NEW x \in Sockets, Register(x) \/ Unregister(x) PROVE Stopping(s)'
  <2>1. todo[x] = <<>>
    BY <1>3 DEF Register, Unregister, Threads
  <2>2. UNCHANGED matched
    BY <1>3 DEF Register, Unregister, announcerVars
  <2>3. \A y \in Sockets \ {x} : todo'[y] = todo[y]
    BY <1>3, RegisterOwes, UnregisterOwes
  <2> QED
    BY <1>2, <2>1, <2>2, <2>3
<1>4. ASSUME NEW x \in Sockets, NEW k \in Keys, Route(x, k) PROVE Stopping(s)'
  BY <1>0, <1>2, <1>4 DEF Route, announcerVars
<1>5. ASSUME NEW x \in Sockets, CarryOut(x) PROVE Stopping(s)'
  <2>1. /\ todo' = [todo EXCEPT ![x] = Tail(@)]
        /\ ToSet(todo[x]) = {Head(todo[x])} \cup ToSet(todo'[x])
        /\ Head(todo[x]).act = "stop" => done'[Head(todo[x]).to]
    BY <1>5, CarryOutKeeps
  <2>2. UNCHANGED matched
    BY <1>5 DEF CarryOut, announcerVars
  <2>3. Stop(s).act = "stop" /\ Stop(s).to = s
    BY DEF Stop
  <2>4. CASE \E r \in Announcers : s \in matched[r]
    BY <1>m, <2>2, <2>4
  <2>5. ASSUME NEW y \in Sockets, Stop(s) \in ToSet(todo[y]) PROVE Stopping(s)'
    <3>1. CASE y = x /\ Stop(s) = Head(todo[x])
      BY <2>1, <2>3, <3>1 DEF Stopping
    <3>2. CASE ~(y = x /\ Stop(s) = Head(todo[x]))
      <4>1. Stop(s) \in ToSet(todo'[y])
        BY <1>0, <2>1, <2>5, <3>2
      <4> QED
        BY <1>t, <4>1
    <3> QED
      BY <3>1, <3>2
  <2> QED
    BY <2>4, <2>5 DEF StopPending
<1>6. ASSUME NEW r \in Announcers, matched[r] = {}, UNCHANGED todo,
             \A q \in Announcers \ {r} : matched'[q] = matched[q]
      PROVE  Stopping(s)'
  BY <1>6, <1>m, <1>t DEF StopPending
<1>7. ASSUME NEW r \in Revocations, Collect(r) PROVE Stopping(s)'
  <2>1. r \in Announcers /\ matched[r] = {}
    BY <1>7 DEF Collect, Announced, Announcers
  <2> QED
    BY <1>0, <1>6, <1>7, <2>1 DEF Collect
<1>8. CASE CloseHub
  <2>1. "close" \in Announcers /\ matched["close"] = {}
    BY <1>8 DEF CloseHub, Announced, Announcers, Closing
  <2> QED
    BY <1>0, <1>6, <1>8, <2>1 DEF CloseHub
<1>9. ASSUME NEW r \in Announcers, StopMatched(r) PROVE Stopping(s)'
  <2>1. PICK x \in matched[r] : /\ matched' = [matched EXCEPT ![r] = @ \ {x}]
                               /\ done' = [done EXCEPT ![x] = TRUE]
    BY <1>9 DEF StopMatched
  <2>2. x \in Sockets
    BY <1>0, <2>1
  <2>3. CASE x = s
    BY <1>0, <2>1, <2>3 DEF Stopping
  <2>4. CASE x # s
    <3>1. UNCHANGED todo /\ \A q \in Announcers : s \in matched[q] => s \in matched'[q]
      BY <1>0, <1>9, <2>1, <2>4 DEF StopMatched
    <3> QED
      BY <1>m, <1>t, <3>1 DEF StopPending
  <2> QED
    BY <2>3, <2>4
<1> QED
  BY <1>1, <1>3, <1>4, <1>5, <1>7, <1>8, <1>9, HubSteps

\* How a step moves a socket along and what becomes of its check.
LEMMA StageMoves ==
    ASSUME TypeOK, [Next]_vars, NEW s \in Sockets
    PROVE  \/ stage'[s] = stage[s] /\ checked'[s] = checked[s]
           \/ Admit(s) \/ RefuseHello(s) \/ Register(s) \/ Serve(s) \/ ReadLoopReturns(s)
           \/ Unregister(s) \/ Finish(s) \/ Check(s)
<1> DEFINE Same == stage'[s] = stage[s] /\ checked'[s] = checked[s]
           Moves == \/ Admit(s) \/ RefuseHello(s) \/ Register(s) \/ Serve(s)
                    \/ ReadLoopReturns(s) \/ Unregister(s) \/ Finish(s) \/ Check(s)
<1>0. stage \in [Sockets -> Stages] /\ checked \in [Sockets -> BOOLEAN]
  BY DEF TypeOK
<1>1. ASSUME NEW x \in Sockets, SocketStep(x) PROVE Same \/ Moves
  <2>1. Admit(x) \/ RefuseHello(x) \/ Register(x) \/ Serve(x) => Same \/ x = s
    BY <1>0 DEF Admit, RefuseHello, Register, Serve
  <2>2. ReadLoopReturns(x) \/ Unregister(x) \/ Finish(x) \/ Check(x) => Same \/ x = s
    BY <1>0 DEF ReadLoopReturns, Unregister, Finish, Check
  <2>3. Deliver(x) \/ CloseStopped(x) \/ ConnectionLost(x) \/ LeaseEnds(x) \/ CarryOut(x) => Same
    BY DEF Deliver, CloseStopped, ConnectionLost, Disconnected, LeaseEnds, CarryOut
  <2>4. \A k \in Keys : Route(x, k) => Same
    BY DEF Route
  <2> HIDE DEF Same
  <2> QED
    BY <1>1, <2>1, <2>2, <2>3, <2>4 DEF SocketStep, Goroutine
<1>2. Outside => Same
  BY DEF Outside, Pair, Revoke, Collect, CloseHub, StopMatched
<1>3. UNCHANGED vars => Same
  BY DEF vars
<1> QED
  BY <1>1, <1>2, <1>3 DEF Next

LEMMA ThreadsStep ==
    ASSUME TypeOK, Threads, [Next]_vars
    PROVE  Threads'
<1> DEFINE Rests == {"idle", "admitted", "ending", "finished"}
<1> SUFFICES ASSUME NEW s \in Sockets
             PROVE  /\ stage'[s] \in Rests => todo'[s] = <<>>
                    /\ checked'[s] => stage'[s] \notin {"idle", "admitted", "registering"}
  BY DEF Threads
<1>0. /\ stage \in [Sockets -> Stages] /\ checked \in [Sockets -> BOOLEAN]
      /\ todo \in [Sockets -> Seq(Effect)]
      /\ stage[s] \in Rests => todo[s] = <<>>
      /\ checked[s] => stage[s] \notin {"idle", "admitted", "registering"}
  BY DEF TypeOK, Threads
<1>1. checked'[s] => stage'[s] \notin {"idle", "admitted", "registering"}
  <2>1. Admit(s) \/ RefuseHello(s) \/ Register(s) \/ Serve(s) =>
           checked'[s] = checked[s] /\ (checked[s] => stage'[s] # "registering" /\ stage'[s] # "admitted"
                                                      /\ stage'[s] # "idle")
    BY <1>0 DEF Admit, RefuseHello, Register, Serve
  <2>2. ReadLoopReturns(s) \/ Unregister(s) \/ Finish(s) \/ Check(s) =>
           stage'[s] \notin {"idle", "admitted", "registering"}
    BY <1>0 DEF ReadLoopReturns, Unregister, Finish, Check
  <2> QED
    BY <1>0, <2>1, <2>2, StageMoves
<1>2. stage'[s] \in Rests /\ stage'[s] # stage[s] => UNCHANGED todo /\ todo[s] = <<>>
  <2>1. Admit(s) \/ RefuseHello(s) \/ ReadLoopReturns(s) \/ Finish(s) => UNCHANGED todo /\ todo[s] = <<>>
    BY <1>0 DEF Admit, RefuseHello, ReadLoopReturns, Finish
  <2>2. Register(s) \/ Serve(s) \/ Unregister(s) \/ Check(s) => stage'[s] \notin Rests \/ stage'[s] = stage[s]
    BY <1>0 DEF Register, Serve, Unregister, Check
  <2> QED
    BY <2>1, <2>2, StageMoves
<1>3. stage'[s] \in Rests /\ stage'[s] = stage[s] => todo'[s] = <<>>
  <2> SUFFICES ASSUME stage'[s] \in Rests, stage'[s] = stage[s] PROVE todo'[s] = todo[s]
    BY <1>0
  <2>1. ASSUME NEW x \in Sockets, Register(x) \/ CarryOut(x) \/ Unregister(x)
        PROVE  x # s
    BY <1>0, <2>1 DEF Register, CarryOut, Unregister
  <2>2. ASSUME NEW x \in Sockets, Register(x) \/ CarryOut(x) \/ Unregister(x)
        PROVE  todo'[s] = todo[s]
    BY <1>0, <2>1, <2>2, RegisterOwes, UnregisterOwes, CarryOutKeeps
  <2>3. ASSUME NEW x \in Sockets, NEW k \in Keys, Route(x, k) PROVE todo'[s] = todo[s]
    BY <1>0, <2>3 DEF Route
  <2>4. ASSUME NEW r \in Announcers, StopMatched(r) PROVE UNCHANGED todo
    BY <2>4 DEF StopMatched
  <2>5. ASSUME NEW r \in Revocations, Collect(r) PROVE UNCHANGED todo
    BY <2>5 DEF Collect
  <2> QED
    BY <2>2, <2>3, <2>4, <2>5, HubSteps DEF Quiet, CloseHub
<1> QED
  BY <1>1, <1>2, <1>3

LEMMA PlacesStep ==
    ASSUME TypeOK, Places, [Next]_vars
    PROVE  Places'
<1>0. /\ stage \in [Sockets -> Stages] /\ peers \in [Keys -> Sockets \cup {NONE}]
      /\ KeyOf \in [Sockets -> Keys]
  BY RelayHubAssumption DEF TypeOK
<1>1. ASSUME NEW s \in Sockets, stage[s] \notin {"idle", "admitted"}
      PROVE  stage'[s] \notin {"idle", "admitted"}
  <2>1. Admit(s) \/ RefuseHello(s) \/ Register(s) \/ Serve(s) => stage'[s] \notin {"idle", "admitted"}
    BY <1>0, <1>1 DEF Admit, RefuseHello, Register, Serve
  <2>2. ReadLoopReturns(s) \/ Unregister(s) \/ Finish(s) \/ Check(s) =>
           stage'[s] \notin {"idle", "admitted"}
    BY <1>0, <1>1 DEF ReadLoopReturns, Unregister, Finish, Check
  <2> QED
    BY <1>1, <2>1, <2>2, StageMoves
<1> SUFFICES ASSUME NEW k \in Keys, peers'[k] # NONE
             PROVE  KeyOf[peers'[k]] = k /\ stage'[peers'[k]] \notin {"idle", "admitted"}
  BY DEF Places
<1>2. CASE peers'[k] = peers[k]
  BY <1>0, <1>1, <1>2 DEF Places
<1>3. CASE peers'[k] # peers[k]
  <2>1. ASSUME NEW s \in Sockets, Register(s)
        PROVE  KeyOf[peers'[k]] = k /\ stage'[peers'[k]] \notin {"idle", "admitted"}
    BY <1>0, <1>3, <2>1 DEF Register
  <2>2. ASSUME NEW s \in Sockets, Unregister(s) PROVE FALSE
    BY <1>0, <1>3, <2>2 DEF Unregister
  <2>3. ~CloseHub
    BY <1>3 DEF CloseHub
  <2>4. ~Quiet
    BY <1>3 DEF Quiet
  <2>5. \A s \in Sockets : ~CarryOut(s) /\ \A l \in Keys : ~Route(s, l)
    BY <1>3 DEF CarryOut, Route, hubVars
  <2>6. \A r \in Revocations : ~Collect(r)
    BY <1>3 DEF Collect, hubVars
  <2>7. \A r \in Announcers : ~StopMatched(r)
    BY <1>3 DEF StopMatched, hubVars
  <2> QED
    BY <2>1, <2>2, <2>3, <2>4, <2>5, <2>6, <2>7, HubSteps
<1> QED
  BY <1>2, <1>3

LEMMA AnnouncedStep ==
    ASSUME TypeOK, Announced, [Next]_vars
    PROVE  Announced'
<1> USE DEF dbVars, hubVars, announcerVars
<1>0. /\ announcer \in [Announcers -> {"idle", "committed", "stopping"}]
      /\ matched \in [Announcers -> SUBSET Sockets] /\ "close" \notin Revocations
      /\ Announcers = Revocations \cup {"close"}
  BY RelayHubAssumption DEF TypeOK, Announcers, Closing
<1>1. UNCHANGED <<revoked, closed, announcer, matched>> => Announced'
  BY DEF Announced
<1>2. ASSUME NEW s \in Sockets, SocketStep(s) PROVE Announced'
  <2>1. Admit(s) \/ RefuseHello(s) \/ Register(s) \/ Serve(s) \/ ReadLoopReturns(s) \/ CarryOut(s)
           => UNCHANGED <<revoked, closed, announcer, matched>>
    BY DEF Admit, RefuseHello, Register, Serve, ReadLoopReturns, CarryOut
  <2>2. Unregister(s) \/ Finish(s) \/ Check(s) \/ Deliver(s) \/ CloseStopped(s)
        \/ ConnectionLost(s) \/ LeaseEnds(s) => UNCHANGED <<revoked, closed, announcer, matched>>
    BY DEF Unregister, Finish, Check, Deliver, CloseStopped, ConnectionLost, Disconnected, LeaseEnds
  <2>3. \A k \in Keys : Route(s, k) => UNCHANGED <<revoked, closed, announcer, matched>>
    BY DEF Route
  <2> QED
    BY <1>1, <1>2, <2>1, <2>2, <2>3 DEF SocketStep, Goroutine
<1>3. ASSUME NEW e \in NewTrust, Pair(e) PROVE Announced'
  BY <1>1, <1>3 DEF Pair
<1>4. ASSUME NEW r \in Revocations, Revoke(r) PROVE Announced'
  BY <1>0, <1>4 DEF Revoke, Announced
<1>5. ASSUME NEW r \in Revocations, Collect(r) PROVE Announced'
  BY <1>0, <1>5 DEF Collect, Announced
<1>6. ASSUME NEW r \in Announcers, StopMatched(r) PROVE Announced'
  BY <1>0, <1>6 DEF StopMatched, Announced
<1>7. CASE CloseHub
  BY <1>0, <1>7 DEF CloseHub, Announced
<1> QED
  BY <1>1, <1>2, <1>3, <1>4, <1>5, <1>6, <1>7 DEF Next, Outside, vars

LEMMA PlacedStep ==
    ASSUME TypeOK, Threads, Places, Announced, Placed, [Next]_vars
    PROVE  Placed'
<1> SUFFICES ASSUME NEW s \in Sockets, stage'[s] \in {"registering", "serving"}
             PROVE  peers'[KeyOf[s]] = s \/ Stopping(s)'
  BY DEF Placed
<1>0. /\ stage \in [Sockets -> Stages] /\ peers \in [Keys -> Sockets \cup {NONE}]
      /\ KeyOf \in [Sockets -> Keys] /\ NONE \notin Sockets
      /\ matched \in [Announcers -> SUBSET Sockets]
  BY RelayHubAssumption DEF TypeOK
<1>1. CASE Register(s)
  BY <1>0, <1>1 DEF Register
<1>2. CASE ~Register(s)
  <2>1. stage[s] \in {"registering", "serving"}
    <3>1. Admit(s) \/ RefuseHello(s) \/ Finish(s) \/ Unregister(s) \/ ReadLoopReturns(s) => FALSE
      BY <1>0 DEF Admit, RefuseHello, Finish, Unregister, ReadLoopReturns
    <3>2. Serve(s) \/ Check(s) => stage[s] \in {"registering", "serving"}
      BY DEF Serve, Check
    <3> QED
      BY <1>2, <3>1, <3>2, StageMoves
  <2>2. CASE Stopping(s)
    BY <2>2, StopsStay
  <2>3. CASE peers[KeyOf[s]] = s /\ peers'[KeyOf[s]] # s
    <3>1. ASSUME NEW x \in Sockets, Register(x) PROVE Stopping(s)'
      <4>1. KeyOf[x] = KeyOf[s]
        BY <1>0, <2>3, <3>1 DEF Register
      <4>2. Stop(s) \in ToSet(todo'[x])
        BY <1>0, <2>3, <3>1, <4>1, RegisterOwes
      <4> QED
        BY <4>2 DEF Stopping, StopPending, Stop
    <3>2. ASSUME NEW x \in Sockets, Unregister(x) PROVE FALSE
      BY <1>0, <2>1, <2>3, <3>2 DEF Unregister, StillRegistered
    <3>3. CASE CloseHub
      <4>1. s \in matched'["close"]
        BY <1>0, <2>3, <3>3 DEF CloseHub, Registered, Announcers, Closing
      <4> QED
        BY <4>1 DEF Stopping, StopPending, Announcers, Closing
    <3>4. ~Quiet
      BY <2>3 DEF Quiet
    <3>5. \A x \in Sockets : ~CarryOut(x) /\ \A l \in Keys : ~Route(x, l)
      BY <2>3 DEF CarryOut, Route, hubVars
    <3>6. \A r \in Revocations : ~Collect(r)
      BY <2>3 DEF Collect, hubVars
    <3>7. \A r \in Announcers : ~StopMatched(r)
      BY <2>3 DEF StopMatched, hubVars
    <3> QED
      BY <3>1, <3>2, <3>3, <3>4, <3>5, <3>6, <3>7, HubSteps
  <2> QED
    BY <2>1, <2>2, <2>3 DEF Placed
<1> QED
  BY <1>1, <1>2

LEMMA ReachedStep ==
    ASSUME HubInv, [Next]_vars
    PROVE  RevocationReachesSocket'
<1> USE DEF HubInv
<1> SUFFICES ASSUME NEW s \in Sockets, NEW r \in Revocations, stage'[s] = "serving", checked'[s],
                    Covers(r, s), announcer'[r] = "stopping"
             PROVE  Stopping(s)'
  BY DEF RevocationReachesSocket, Stopping, Covers
<1>0. /\ stage \in [Sockets -> Stages] /\ checked \in [Sockets -> BOOLEAN]
      /\ announcer \in [Announcers -> {"idle", "committed", "stopping"}]
      /\ matched \in [Announcers -> SUBSET Sockets] /\ r \in Announcers
      /\ KeyOf \in [Sockets -> Keys] /\ NONE \notin Sockets
      /\ done \in [Sockets -> BOOLEAN]
  BY RelayHubAssumption DEF TypeOK, Announcers
<1>1. CASE Check(s)
  <2>1. announcer[r] = "stopping"
    BY <1>1 DEF Check, announcerVars
  <2>2. r \in revoked
    BY <2>1 DEF Announced
  <2>3. done'[s]
    BY <1>0, <1>1, <2>2 DEF Check, Ended
  <2> QED
    BY <2>3 DEF Stopping
<1>2. CASE ~Check(s)
  <2>1. stage[s] = "serving" /\ checked[s]
    <3>1. Admit(s) \/ RefuseHello(s) \/ Finish(s) \/ Unregister(s) \/ ReadLoopReturns(s)
          \/ Register(s) => FALSE
      BY <1>0 DEF Admit, RefuseHello, Finish, Unregister, ReadLoopReturns, Register
    <3>2. Serve(s) => FALSE
      BY DEF Serve, Threads
    <3> QED
      BY <1>2, <3>1, <3>2, StageMoves
  <2>2. CASE announcer[r] = "stopping"
    BY <2>1, <2>2, StopsStay DEF RevocationReachesSocket, Stopping
  <2>3. CASE Collect(r)
    <3>1. CASE Stopping(s)
      BY <3>1, StopsStay
    <3>2. CASE peers[KeyOf[s]] = s
      <4>1. s \in matched'[r]
        BY <1>0, <2>3, <3>2 DEF Collect, Registered
      <4> QED
        BY <1>0, <4>1 DEF Stopping, StopPending
    <3> QED
      BY <2>1, <3>1, <3>2 DEF Placed
  <2>4. announcer[r] # "stopping" => Collect(r)
    <3> SUFFICES ASSUME announcer[r] # "stopping" PROVE Collect(r)
      OBVIOUS
    <3>1. ASSUME NEW x \in Sockets, SocketStep(x) PROVE UNCHANGED announcer
      <4> USE DEF announcerVars
      <4>1. Admit(x) \/ RefuseHello(x) \/ Register(x) \/ Serve(x) \/ ReadLoopReturns(x)
            \/ CarryOut(x) => UNCHANGED announcer
        BY DEF Admit, RefuseHello, Register, Serve, ReadLoopReturns, CarryOut
      <4>2. Unregister(x) \/ Finish(x) \/ Check(x) \/ Deliver(x) \/ CloseStopped(x)
            \/ ConnectionLost(x) \/ LeaseEnds(x) => UNCHANGED announcer
        BY DEF Unregister, Finish, Check, Deliver, CloseStopped, ConnectionLost, Disconnected,
               LeaseEnds
      <4>3. \A k \in Keys : Route(x, k) => UNCHANGED announcer
        BY DEF Route
      <4> QED
        BY <3>1, <4>1, <4>2, <4>3 DEF SocketStep, Goroutine
    <3>2. ASSUME NEW q \in Revocations, Revoke(q) PROVE announcer'[r] # "stopping"
      BY <1>0, <3>2 DEF Revoke
    <3>3. ASSUME NEW q \in Revocations, Collect(q) PROVE q = r
      BY <1>0, <3>3 DEF Collect
    <3>4. (\E e \in NewTrust : Pair(e)) \/ (\E q \in Announcers : StopMatched(q)) \/ CloseHub
             => UNCHANGED announcer
      BY DEF Pair, StopMatched, CloseHub, announcerVars
    <3>5. ~UNCHANGED announcer
      OBVIOUS
    <3>6. ~UNCHANGED vars
      BY <3>5 DEF vars, announcerVars
    <3> QED
      BY <3>1, <3>2, <3>3, <3>4, <3>5, <3>6 DEF Next, Outside
  <2> QED
    BY <2>2, <2>3, <2>4
<1> QED
  BY <1>1, <1>2

LEMMA HubInvInit == Init => HubInv
<1> SUFFICES ASSUME Init PROVE HubInv
  OBVIOUS
<1>1. TypeOK
  BY TypeOKInit
<1>2. Threads /\ Places /\ Placed /\ RevocationReachesSocket
  BY DEF Init, Threads, Places, Placed, RevocationReachesSocket
<1>3. Announced
  BY DEF Init, Announced, Announcers, Closing
<1> QED
  BY <1>1, <1>2, <1>3 DEF HubInv

LEMMA HubInvariant == Spec => []HubInv
<1>1. HubInv /\ [Next]_vars => HubInv'
  BY TypeOKStep, ThreadsStep, PlacesStep, AnnouncedStep, PlacedStep, ReachedStep DEF HubInv
<1> QED
  BY <1>1, HubInvInit, PTL DEF Spec

\* Disconnect's promise: once the announcement of a revocation and the check a
\* socket runs after registering have both happened, in whichever order, a
\* socket the revocation covers is stopped or about to be.
THEOREM Reached == Spec => []RevocationReachesSocket
<1>1. HubInv => RevocationReachesSocket
  BY DEF HubInv
<1> QED
  BY <1>1, HubInvariant, PTL

\* Of the sockets of one identity only the one in the map is left to serve:
\* register stops the one it replaces.
THEOREM OneSocket == Spec => []OneSocketPerIdentity
<1>1. HubInv => OneSocketPerIdentity
  BY DEF HubInv, Placed, Stopping, OneSocketPerIdentity
<1> QED
  BY <1>1, HubInvariant, PTL

\* A socket's teardown never takes its successor's place in the map away:
\* unregister checks that the place is still its own.
THEOREM SuccessorSpared == Spec => TeardownSparesSuccessor
<1>1. TypeOK /\ [Next]_vars =>
        \A k \in Keys : peers[k] # NONE /\ peers'[k] = NONE =>
          closed' # closed \/ stage[peers[k]] = "ending"
  <2> SUFFICES ASSUME TypeOK, [Next]_vars, NEW k \in Keys, peers[k] # NONE, peers'[k] = NONE
               PROVE  closed' # closed \/ stage[peers[k]] = "ending"
    OBVIOUS
  <2>0. peers \in [Keys -> Sockets \cup {NONE}] /\ NONE \notin Sockets
        /\ KeyOf \in [Sockets -> Keys] /\ closed \in BOOLEAN
    BY RelayHubAssumption DEF TypeOK
  <2>1. ASSUME NEW x \in Sockets, Unregister(x) PROVE stage[peers[k]] = "ending"
    BY <2>0, <2>1 DEF Unregister, StillRegistered
  <2>2. \A x \in Sockets : ~Register(x)
    BY <2>0 DEF Register
  <2>3. ASSUME CloseHub PROVE closed' # closed
    <3>1. ~closed /\ closed' = TRUE
      BY <2>3 DEF CloseHub
    <3>2. closed = FALSE
      BY <2>0, <3>1
    <3>3. FALSE # TRUE
      OBVIOUS
    <3> QED
      BY <3>1, <3>2, <3>3, Zenon
  <2>4. ~Quiet
    BY DEF Quiet
  <2>5. \A x \in Sockets : ~CarryOut(x) /\ \A l \in Keys : ~Route(x, l)
    BY DEF CarryOut, Route, hubVars
  <2>6. \A r \in Revocations : ~Collect(r)
    BY DEF Collect, hubVars
  <2>7. \A r \in Announcers : ~StopMatched(r)
    BY DEF StopMatched, hubVars
  <2> QED
    BY <2>1, <2>2, <2>3, <2>4, <2>5, <2>6, <2>7, HubSteps
<1> QED
  BY <1>1, TypeCorrect, PTL DEF Spec, TeardownSparesSuccessor

-------------------------------------------------------------------------------
(* What is said, and to whom.                                              *)

\* A message for t says nothing t may not hear.  Both ends were admitted, so
\* neither list of trusted keys changes any more.
Sound(t, m) ==
    /\ stage[t] # "idle" /\ stage[m.from] # "idle"
    /\ m.type \in {"hello", "frame"} => MutualTrust(t, m.from)
    /\ m.type = "offline" => Trusts(t, m.from)

\* That holds of messages queued and of messages still owed.
Honest ==
    \A s \in Sockets :
        /\ \A m \in ToSet(queue[s]) : Sound(s, m)
        /\ \A e \in ToSet(todo[s]) : e.act = "send" => Sound(e.to, e.msg)

LEMMA AdmittedOnce ==
    ASSUME TypeOK, [Next]_vars, NEW s \in Sockets, stage[s] # "idle"
    PROVE  stage'[s] # "idle" /\ trusted'[s] = trusted[s]
<1>0. stage \in [Sockets -> Stages] /\ trusted \in [Sockets -> SUBSET Keys]
  BY DEF TypeOK
<1>1. stage'[s] # "idle"
  <2>1. Admit(s) \/ RefuseHello(s) \/ Register(s) \/ Serve(s) => stage'[s] # "idle"
    BY <1>0 DEF Admit, RefuseHello, Register, Serve
  <2>2. ReadLoopReturns(s) \/ Unregister(s) \/ Finish(s) \/ Check(s) => stage'[s] # "idle"
    BY <1>0 DEF ReadLoopReturns, Unregister, Finish, Check
  <2> QED
    BY <2>1, <2>2, StageMoves
<1>2. trusted'[s] = trusted[s]
  <2>1. ASSUME NEW x \in Sockets, SocketStep(x) PROVE trusted'[s] = trusted[s]
    <3>1. Admit(x) => trusted'[s] = trusted[s]
      BY <1>0 DEF Admit
    <3>2. RefuseHello(x) \/ Register(x) \/ Serve(x) \/ ReadLoopReturns(x) \/ CarryOut(x)
             => UNCHANGED trusted
      BY DEF RefuseHello, Register, Serve, ReadLoopReturns, CarryOut
    <3>3. Unregister(x) \/ Finish(x) \/ Check(x) \/ Deliver(x) \/ CloseStopped(x)
          \/ ConnectionLost(x) \/ LeaseEnds(x) => UNCHANGED trusted
      BY DEF Unregister, Finish, Check, Deliver, CloseStopped, ConnectionLost, Disconnected,
             LeaseEnds
    <3>4. \A k \in Keys : Route(x, k) => UNCHANGED trusted
      BY DEF Route
    <3> QED
      BY <2>1, <3>1, <3>2, <3>3, <3>4 DEF SocketStep, Goroutine
  <2>2. Outside => UNCHANGED trusted
    BY DEF Outside, Pair, Revoke, Collect, CloseHub, StopMatched
  <2> QED
    BY <2>1, <2>2 DEF Next, vars
<1> QED
  BY <1>1, <1>2

LEMMA SoundStays ==
    ASSUME TypeOK, [Next]_vars, NEW t \in Sockets, NEW m \in Message, Sound(t, m)
    PROVE  Sound(t, m)'
<1>1. m.from \in Sockets
  BY DEF Message
<1> QED
  BY <1>1, AdmittedOnce DEF Sound, MutualTrust, Trusts

\* The queues, step by step.
LEMMA QueueMoves ==
    ASSUME TypeOK, [Next]_vars
    PROVE  UNCHANGED queue \/ \E s \in Sockets : Register(s) \/ CarryOut(s) \/ Deliver(s)
<1>1. ASSUME NEW x \in Sockets, SocketStep(x)
      PROVE  UNCHANGED queue \/ Register(x) \/ CarryOut(x) \/ Deliver(x)
  <2>1. Admit(x) \/ RefuseHello(x) \/ Serve(x) \/ ReadLoopReturns(x) \/ Unregister(x) => UNCHANGED queue
    BY DEF Admit, RefuseHello, Serve, ReadLoopReturns, Unregister
  <2>2. Finish(x) \/ Check(x) \/ CloseStopped(x) \/ ConnectionLost(x) \/ LeaseEnds(x) => UNCHANGED queue
    BY DEF Finish, Check, CloseStopped, ConnectionLost, Disconnected, LeaseEnds
  <2>3. \A k \in Keys : Route(x, k) => UNCHANGED queue
    BY DEF Route
  <2> QED
    BY <1>1, <2>1, <2>2, <2>3 DEF SocketStep, Goroutine
<1>2. Outside => UNCHANGED queue
  BY DEF Outside, Pair, Revoke, Collect, CloseHub, StopMatched
<1> QED
  BY <1>1, <1>2 DEF Next, vars

LEMMA QueuesHonest ==
    ASSUME TypeOK, Honest, [Next]_vars, NEW s \in Sockets, NEW m \in ToSet(queue'[s])
    PROVE  Sound(s, m)'
<1>0. queue \in [Sockets -> Seq(Message)] /\ stage \in [Sockets -> Stages]
  BY DEF TypeOK
<1>1. ASSUME m \in ToSet(queue[s]) PROVE Sound(s, m)'
  <2>1. m \in Message
    BY <1>0, <1>1 DEF ToSet
  <2> QED
    BY <1>1, <2>1, SoundStays DEF Honest
<1>2. ASSUME NEW x \in Sockets, Register(x) PROVE Sound(s, m)'
  <2>1. CASE s # x
    BY <1>0, <1>1, <1>2, <2>1 DEF Register
  <2>2. CASE s = x
    <3>1. queue'[s] = <<[type |-> "ready", from |-> s]>> /\ stage'[s] = "registering"
      BY <1>0, <1>2, <2>2 DEF Register
    <3>2. m = [type |-> "ready", from |-> s]
      BY <3>1 DEF ToSet
    <3> QED
      BY <3>1, <3>2 DEF Sound
  <2> QED
    BY <2>1, <2>2
<1>3. ASSUME NEW x \in Sockets, CarryOut(x) PROVE Sound(s, m)'
  <2> DEFINE e == Head(todo[x])
  <2>0. e \in Effect /\ ToSet(todo[x]) = {e} \cup ToSet(todo'[x])
    BY <1>3, CarryOutKeeps
  <2>1. e \in Effect /\ e \in ToSet(todo[x])
    BY <2>0
  <2>3. m \in ToSet(queue[s]) \/ (e.act = "send" /\ s = e.to /\ m = e.msg)
    BY <1>3, CarryOutKeeps
  <2> HIDE DEF e
  <2>2. CASE e.act = "send" /\ s = e.to /\ m = e.msg
    <3>1. m \in Message /\ Sound(s, m)
      BY <2>1, <2>2 DEF Effect, Honest
    <3> QED
      BY <3>1, SoundStays
  <2> QED
    BY <1>1, <2>2, <2>3
<1>4. ASSUME NEW x \in Sockets, Deliver(x) PROVE Sound(s, m)'
  <2>1. queue[x] # <<>> /\ queue' = [queue EXCEPT ![x] = Tail(@)]
    BY <1>4 DEF Deliver
  <2>2. queue[x] \in Seq(Message)
    BY <1>0
  <2>3. ToSet(queue[x]) = {Head(queue[x])} \cup ToSet(Tail(queue[x]))
    BY <2>1, <2>2, HeadAndTail, Zenon
  <2>4. queue'[s] = IF s = x THEN Tail(queue[x]) ELSE queue[s]
    BY <1>0, <2>1
  <2>5. m \in ToSet(queue[s])
    BY <2>3, <2>4
  <2> QED
    BY <1>1, <2>5
<1> QED
  BY <1>1, <1>2, <1>3, <1>4, QueueMoves

LEMMA EffectsHonest ==
    ASSUME HubInv, Honest, [Next]_vars, NEW s \in Sockets, NEW e \in ToSet(todo'[s]),
           e.act = "send"
    PROVE  Sound(e.to, e.msg)'
<1> USE DEF HubInv
<1>0. /\ todo \in [Sockets -> Seq(Effect)] /\ stage \in [Sockets -> Stages]
      /\ peers \in [Keys -> Sockets \cup {NONE}] /\ KeyOf \in [Sockets -> Keys]
      /\ NONE \notin Sockets
  BY RelayHubAssumption DEF TypeOK
<1>1. ASSUME NEW x \in Sockets, e \in ToSet(todo[x]) PROVE Sound(e.to, e.msg)'
  <2>1. e \in Effect
    BY <1>0, <1>1 DEF ToSet
  <2>2. e.to \in Sockets /\ e.msg \in Message /\ Sound(e.to, e.msg)
    BY <1>1, <2>1 DEF Effect, Honest
  <2> QED
    BY <2>2, SoundStays
<1>2. \A k \in Keys : peers[k] # NONE =>
         peers[k] \in Sockets /\ KeyOf[peers[k]] = k /\ stage[peers[k]] # "idle"
  BY <1>0 DEF Places
<1>3. ASSUME NEW x \in Sockets, NEW t \in Sockets, NEW type \in {"hello", "offline", "frame"},
             e = Send(t, type, x), stage[x] # "idle", stage[t] # "idle", Trusts(t, x),
             type = "offline" \/ Trusts(x, t)
      PROVE  Sound(e.to, e.msg)'
  <2> DEFINE m == [type |-> type, from |-> x]
  <2>1. e.to = t /\ e.msg = m
    BY <1>3 DEF Send
  <2>2. m \in Message /\ m.type = type /\ m.from = x
    BY DEF Message
  <2> HIDE DEF m
  <2>3. Sound(t, m)
    BY <1>3, <2>2 DEF Sound, MutualTrust
  <2> QED
    BY <2>1, <2>2, <2>3, SoundStays
<1>4. ASSUME NEW x \in Sockets, NEW t \in RegisteredOpposite(x)
      PROVE  t \in Sockets /\ stage[t] # "idle"
  BY <1>0, <1>2, <1>4 DEF RegisteredOpposite, OtherRole, Keys
<1>5. ASSUME NEW x \in Sockets, Register(x) PROVE Sound(e.to, e.msg)'
  <2>1. CASE s # x
    BY <1>1, <1>5, <2>1, RegisterOwes
  <2>2. CASE s = x
    <3>1. PICK t \in RegisteredOpposite(x) :
             MutualTrust(x, t) /\ (e = Send(t, "hello", x) \/ e = Send(x, "hello", t))
      BY <1>5, <2>2, RegisterOwes
    <3>2. stage[x] # "idle"
      BY <1>5 DEF Register
    <3> QED
      BY <1>3, <1>4, <3>1, <3>2 DEF MutualTrust
  <2> QED
    BY <2>1, <2>2
<1>6. ASSUME NEW x \in Sockets, Unregister(x) PROVE Sound(e.to, e.msg)'
  <2>1. CASE e \in ToSet(todo[s])
    BY <1>1, <2>1
  <2>2. CASE e \notin ToSet(todo[s])
    <3>1. PICK t \in RegisteredOpposite(x) : Trusts(t, x) /\ e = Send(t, "offline", x)
      BY <1>6, <2>2, UnregisterOwes
    <3>2. stage[x] # "idle"
      BY <1>6 DEF Unregister
    <3> QED
      BY <1>3, <1>4, <3>1, <3>2
  <2> QED
    BY <2>1, <2>2
<1>7. ASSUME NEW x \in Sockets, CarryOut(x) PROVE Sound(e.to, e.msg)'
  <2>1. todo' = [todo EXCEPT ![x] = Tail(@)] /\ ToSet(todo[x]) = {Head(todo[x])} \cup ToSet(todo'[x])
    BY <1>7, CarryOutKeeps
  <2>2. e \in ToSet(todo[s])
    BY <1>0, <2>1
  <2> QED
    BY <1>1, <2>2
<1>8. ASSUME NEW x \in Sockets, NEW k \in Keys, Route(x, k) PROVE Sound(e.to, e.msg)'
  <2>1. /\ todo' = [todo EXCEPT ![x] = <<Send(peers[k], "frame", x)>>]
        /\ peers[k] # NONE /\ MayRoute(x, k) /\ stage[x] = "serving"
    BY <1>8 DEF Route
  <2>2. CASE s # x
    BY <1>0, <1>1, <2>1, <2>2
  <2>3. CASE s = x
    <3>1. todo'[s] = <<Send(peers[k], "frame", x)>>
      BY <1>0, <2>1, <2>3
    <3>2. e = Send(peers[k], "frame", x)
      BY <3>1 DEF ToSet
    <3>3. Trusts(x, peers[k]) /\ Trusts(peers[k], x)
      BY <1>2, <2>1 DEF MayRoute, Trusts
    <3> QED
      BY <1>2, <1>3, <2>1, <3>2, <3>3
  <2> QED
    BY <2>2, <2>3
<1>9. ASSUME UNCHANGED todo PROVE Sound(e.to, e.msg)'
  BY <1>1, <1>9
<1> QED
  BY <1>5, <1>6, <1>7, <1>8, <1>9, HubSteps DEF Quiet, Collect, StopMatched, CloseHub

\* Whatever is queued for a socket comes from a socket both admissions trust;
\* an offline notice goes only to a socket that trusts the one that left.
THEOREM OnlyTrusted == Spec => []OnlyTrustedMessages
<1>1. Init => Honest
  BY DEF Init, Honest, ToSet
<1>2. HubInv /\ Honest /\ [Next]_vars => Honest'
  <2> SUFFICES ASSUME HubInv, Honest, [Next]_vars PROVE Honest'
    OBVIOUS
  <2>1. \A s \in Sockets : \A m \in ToSet(queue'[s]) : Sound(s, m)'
    BY QueuesHonest DEF HubInv
  <2>2. \A s \in Sockets : \A e \in ToSet(todo'[s]) : e.act = "send" => Sound(e.to, e.msg)'
    BY EffectsHonest
  <2> QED
    BY <2>1, <2>2 DEF Honest
<1>3. Honest => OnlyTrustedMessages
  BY DEF Honest, Sound, OnlyTrustedMessages
<1> QED
  BY <1>1, <1>2, <1>3, HubInvariant, PTL DEF Spec
-------------------------------------------------------------------------------
(* Introductions.                                                          *)

\* The map's iteration leaves no partner out.
LEMMA OrderIsAll ==
    ASSUME NEW S \in SUBSET Sockets, NEW order \in SetToSeqs(S), NEW t \in S
    PROVE  \E j \in 1..Len(order) : order[j] = t
<1> DEFINE D == 1..Cardinality(S)
<1>1. IsFiniteSet(S) /\ Cardinality(S) \in Nat
  BY RelayHubAssumption, FS_Subset, FS_CardinalityType
<1>2. order \in [D -> S] /\ \A i, j \in D : i # j => order[i] # order[j]
  BY DEF SetToSeqs
<1>3. Cardinality(D) = Cardinality(S)
  <2>1. Cardinality(S) >= 1 => Cardinality(D) = Cardinality(S) - 1 + 1
    BY <1>1, FS_Interval
  <2>2. Cardinality(S) < 1 => D = {} /\ Cardinality(S) = 0
    BY <1>1
  <2> QED
    BY <1>1, <2>1, <2>2, FS_EmptySet
<1>4. order \in Injection(D, S)
  BY <1>2 DEF Injection, IsInjective
<1>5. order \in Surjection(D, S)
  BY <1>1, <1>3, <1>4, FS_Injection
<1>6. \E j \in D : order[j] = t
  BY <1>5 DEF Surjection
<1>7. Len(order) = Cardinality(S)
  BY <1>1, <1>2
<1> QED
  BY <1>6, <1>7

\* Each partner is told of the newcomer, and the newcomer of each partner.
LEMMA IntroductionsReach ==
    ASSUME NEW s \in Sockets, NEW S \in SUBSET Sockets, NEW order \in SetToSeqs(S), NEW t \in S
    PROVE  {Send(t, "hello", s), Send(s, "hello", t)} \subseteq ToSet(Introductions(s, order))
<1> DEFINE n == 2 * Len(order)
           I == Introductions(s, order)
<1>1. PICK j \in 1..Len(order) : order[j] = t
  BY OrderIsAll
<1>2. Len(order) \in Nat
  BY OrderIsSeq
<1>3. I = [i \in 1..n |-> IF i % 2 = 1 THEN Send(order[(i + 1) \div 2], "hello", s)
                                      ELSE Send(s, "hello", order[i \div 2])]
  BY DEF Introductions
<1>4. 2 * j - 1 \in 1..n /\ (2 * j - 1) % 2 = 1 /\ ((2 * j - 1) + 1) \div 2 = j
  BY <1>2
<1>5. 2 * j \in 1..n /\ (2 * j) % 2 # 1 /\ (2 * j) \div 2 = j
  BY <1>2
<1> HIDE DEF n
<1>6. I[2 * j - 1] = Send(t, "hello", s)
  BY <1>1, <1>3, <1>4
<1>7. I[2 * j] = Send(s, "hello", t)
  BY <1>1, <1>3, <1>5
<1>8. DOMAIN I = 1..n
  BY <1>3
<1> HIDE DEF I
<1> QED
  BY <1>4, <1>5, <1>6, <1>7, <1>8 DEF ToSet, I

LEMMA RegisterIntroduces ==
    ASSUME TypeOK, NEW s \in Sockets, Register(s),
           NEW t \in RegisteredOpposite(s), MutualTrust(s, t)
    PROVE  {Send(t, "hello", s), Send(s, "hello", t)} \subseteq ToSet(todo'[s])
<1> DEFINE S == {x \in RegisteredOpposite(s) : MutualTrust(s, x)}
<1>0. todo \in [Sockets -> Seq(Effect)] /\ peers \in [Keys -> Sockets \cup {NONE}]
      /\ KeyOf[s] \in Keys
  BY RelayHubAssumption DEF TypeOK
<1>1. PICK order \in SetToSeqs(S) :
        todo' = [todo EXCEPT ![s] = Superseded(s) \o Introductions(s, order)]
  BY DEF Register
<1>2. S \in SUBSET Sockets /\ t \in S
  BY <1>0 DEF RegisteredOpposite, OtherRole, Keys
<1> HIDE DEF S
<1> DEFINE I == Introductions(s, order)
           Q == Superseded(s)
<1>3. I \in Seq(Effect) /\ {Send(t, "hello", s), Send(s, "hello", t)} \subseteq ToSet(I)
  BY <1>2, IntroductionsAre, IntroductionsReach
<1>4. Q \in Seq(Effect)
  <2>1. peers[KeyOf[s]] # NONE => Stop(peers[KeyOf[s]]) \in Effect
    BY <1>0 DEF Stop, Effect
  <2> QED
    BY <2>1 DEF Superseded
<1>5. todo'[s] = Q \o I
  BY <1>0, <1>1
<1> HIDE DEF I, Q
<1>6. ToSet(Q \o I) = ToSet(Q) \cup ToSet(I)
  BY <1>3, <1>4, Concatenation
<1> QED
  BY <1>3, <1>5, <1>6

\* Queueing a message takes none out; unless the peer is stopped, it is there.
LEMMA EnqueueAdds ==
    ASSUME TypeOK, NEW t \in Sockets, NEW m \in Message, Enqueue(t, m)
    PROVE  /\ m \in ToSet(queue'[t]) \/ done'[t]
           /\ \A s \in Sockets : ToSet(queue[s]) \subseteq ToSet(queue'[s])
<1>0. queue \in [Sockets -> Seq(Message)] /\ done \in [Sockets -> BOOLEAN]
  BY DEF TypeOK
<1>1. CASE UNCHANGED queue /\ ((done[t] /\ UNCHANGED done) \/ done' = [done EXCEPT ![t] = TRUE])
  BY <1>0, <1>1
<1>2. CASE queue' = [queue EXCEPT ![t] = Append(@, m)]
  <2> DEFINE q == queue[t]
  <2>1. q \in Seq(Message) /\ queue'[t] = Append(q, m)
        /\ \A s \in Sockets : s # t => queue'[s] = queue[s]
    BY <1>0, <1>2
  <2> HIDE DEF q
  <2>2. ToSet(Append(q, m)) = ToSet(q) \cup {m}
    BY <2>1, Appended
  <2> QED
    BY <2>1, <2>2 DEF q
<1> QED
  BY <1>1, <1>2 DEF Enqueue

LEMMA CarryOutAdds ==
    ASSUME TypeOK, NEW x \in Sockets, CarryOut(x)
    PROVE  /\ \A s \in Sockets : ToSet(queue[s]) \subseteq ToSet(queue'[s])
           /\ \A s, t \in Sockets : Head(todo[x]) = Send(s, "hello", t) =>
                 [type |-> "hello", from |-> t] \in ToSet(queue'[s]) \/ done'[s]
<1> DEFINE e == Head(todo[x])
<1>1. e \in Effect
  BY CarryOutKeeps
<1>2. (e.act = "stop" /\ UNCHANGED queue) \/ (e.act = "send" /\ Enqueue(e.to, e.msg))
  BY DEF CarryOut
<1> HIDE DEF e
<1>3. CASE e.act = "stop" /\ UNCHANGED queue
  <2>1. \A s, t \in Sockets : e # Send(s, "hello", t)
    BY <1>3 DEF Send
  <2> QED
    BY <1>3, <2>1 DEF e
<1>4. CASE e.act = "send" /\ Enqueue(e.to, e.msg)
  <2>1. e.to \in Sockets /\ e.msg \in Message
    BY <1>1, <1>4 DEF Effect
  <2>2. /\ e.msg \in ToSet(queue'[e.to]) \/ done'[e.to]
        /\ \A s \in Sockets : ToSet(queue[s]) \subseteq ToSet(queue'[s])
    BY <1>4, <2>1, EnqueueAdds
  <2>3. \A s, t \in Sockets : e = Send(s, "hello", t) =>
           e.to = s /\ e.msg = [type |-> "hello", from |-> t]
    BY DEF Send
  <2> QED
    BY <2>2, <2>3 DEF e
<1> QED
  BY <1>2, <1>3, <1>4

\* The far end of s was told of t, is about to be, or cannot be told any more.
Queued(s, t) == \E m \in ToSet(queue[s]) : m.type = "hello" /\ m.from = t
Owed(s, t) == \E u \in Sockets : Send(s, "hello", t) \in ToSet(todo[u])
Told(s, t) ==
    \/ view[s][KeyOf[t]] # "unknown"
    \/ Stopping(s) \/ ~open[s]
    \/ Queued(s, t)
    \/ Owed(s, t)

\* What each far end was told is forgotten by no step.
LEMMA ViewStays ==
    ASSUME TypeOK, [Next]_vars, NEW s \in Sockets, NEW k \in Keys, view[s][k] # "unknown"
    PROVE  view'[s][k] # "unknown"
<1>0. view \in [Sockets -> [Keys -> {"unknown", "hello", "offline"}]]
      /\ KeyOf \in [Sockets -> Keys]
  BY RelayHubAssumption DEF TypeOK
<1>1. ASSUME NEW x \in Sockets, Deliver(x) PROVE view'[s][k] # "unknown"
  <2> DEFINE m == Head(queue[x])
  <2>1. \/ UNCHANGED view
        \/ m.type \in {"hello", "offline"} /\ view' = [view EXCEPT ![x][KeyOf[m.from]] = m.type]
    BY <1>1 DEF Deliver
  <2> HIDE DEF m
  <2> QED
    BY <1>0, <2>1
<1>2. ASSUME NEW x \in Sockets, SocketStep(x) PROVE UNCHANGED view \/ Deliver(x)
  <2>1. Admit(x) \/ RefuseHello(x) \/ Register(x) \/ Serve(x) \/ ReadLoopReturns(x)
        \/ CarryOut(x) => UNCHANGED view
    BY DEF Admit, RefuseHello, Register, Serve, ReadLoopReturns, CarryOut
  <2>2. Unregister(x) \/ Finish(x) \/ Check(x) \/ CloseStopped(x) \/ ConnectionLost(x)
        \/ LeaseEnds(x) => UNCHANGED view
    BY DEF Unregister, Finish, Check, CloseStopped, ConnectionLost, Disconnected, LeaseEnds
  <2>3. \A l \in Keys : Route(x, l) => UNCHANGED view
    BY DEF Route
  <2> QED
    BY <1>2, <2>1, <2>2, <2>3 DEF SocketStep, Goroutine
<1>3. Outside => UNCHANGED view
  BY DEF Outside, Pair, Revoke, Collect, CloseHub, StopMatched
<1> QED
  BY <1>1, <1>2, <1>3 DEF Next, vars

\* A connection once lost is not opened again.
LEMMA ClosedStays ==
    ASSUME TypeOK, [Next]_vars, NEW s \in Sockets, stage[s] # "idle", ~open[s]
    PROVE  ~open'[s]
<1>0. open \in [Sockets -> BOOLEAN]
  BY DEF TypeOK
<1>1. ASSUME NEW x \in Sockets, SocketStep(x) PROVE ~open'[s]
  <2>1. Admit(x) \/ RefuseHello(x) => ~open'[s]
    BY <1>0 DEF Admit, RefuseHello
  <2>2. CloseStopped(x) \/ ConnectionLost(x) => ~open'[s]
    BY <1>0 DEF CloseStopped, ConnectionLost, Disconnected
  <2>3. Register(x) \/ Serve(x) \/ ReadLoopReturns(x) \/ CarryOut(x) \/ Unregister(x)
        \/ Finish(x) \/ Check(x) \/ Deliver(x) \/ LeaseEnds(x) => UNCHANGED open
    BY DEF Register, Serve, ReadLoopReturns, CarryOut, Unregister, Finish, Check, Deliver, LeaseEnds
  <2>4. \A k \in Keys : Route(x, k) => UNCHANGED open
    BY DEF Route
  <2> QED
    BY <1>1, <2>1, <2>2, <2>3, <2>4 DEF SocketStep, Goroutine
<1>2. Outside => UNCHANGED open
  BY DEF Outside, Pair, Revoke, Collect, CloseHub, StopMatched
<1> QED
  BY <1>1, <1>2 DEF Next, vars

\* A hello queued stays so until it is delivered.
LEMMA QueuedStays ==
    ASSUME TypeOK, [Next]_vars, NEW s \in Sockets, NEW t \in Sockets, stage[s] # "admitted",
           Queued(s, t)
    PROVE  Told(s, t)'
<1>0. /\ queue \in [Sockets -> Seq(Message)] /\ KeyOf \in [Sockets -> Keys]
      /\ view \in [Sockets -> [Keys -> {"unknown", "hello", "offline"}]]
  BY RelayHubAssumption DEF TypeOK
<1>1. PICK m \in ToSet(queue[s]) : m.type = "hello" /\ m.from = t
  BY DEF Queued
<1>2. m \in ToSet(queue'[s]) => Told(s, t)'
  BY <1>1 DEF Told, Queued
<1>3. UNCHANGED queue => Told(s, t)'
  BY <1>1, <1>2
<1>4. ASSUME NEW x \in Sockets, Register(x) PROVE Told(s, t)'
  <2>1. x # s
    BY <1>4 DEF Register
  <2>2. queue'[s] = queue[s]
    BY <1>0, <1>4, <2>1 DEF Register
  <2> QED
    BY <1>1, <1>2, <2>2
<1>5. ASSUME NEW x \in Sockets, CarryOut(x) PROVE Told(s, t)'
  BY <1>1, <1>2, <1>5, CarryOutAdds
<1>6. ASSUME NEW x \in Sockets, Deliver(x) PROVE Told(s, t)'
  <2>1. queue[x] # <<>> /\ queue' = [queue EXCEPT ![x] = Tail(@)]
    BY <1>6 DEF Deliver
  <2>2. CASE x # s
    BY <1>0, <1>1, <1>2, <2>1, <2>2
  <2>3. CASE x = s /\ m = Head(queue[s])
    <3>1. view' = [view EXCEPT ![s][KeyOf[t]] = "hello"]
      BY <1>1, <1>6, <2>3 DEF Deliver
    <3>2. view'[s][KeyOf[t]] = "hello"
      BY <1>0, <3>1
    <3> QED
      BY <3>2 DEF Told
  <2>4. CASE x = s /\ m # Head(queue[s])
    <3>1. queue[s] \in Seq(Message) /\ queue[s] # <<>>
      BY <1>0, <2>1, <2>4
    <3>2. ToSet(queue[s]) = {Head(queue[s])} \cup ToSet(Tail(queue[s]))
      BY <3>1, HeadAndTail, Zenon
    <3>3. queue'[s] = Tail(queue[s])
      BY <1>0, <2>1, <2>4
    <3> QED
      BY <1>1, <1>2, <2>4, <3>2, <3>3
  <2> QED
    BY <2>2, <2>3, <2>4
<1> QED
  BY <1>3, <1>4, <1>5, <1>6, QueueMoves

\* A hello owed stays so until it is queued, or the socket is stopped.
LEMMA OwedStays ==
    ASSUME TypeOK, Threads, [Next]_vars, NEW s \in Sockets, NEW t \in Sockets, Owed(s, t)
    PROVE  Told(s, t)'
<1> DEFINE e == Send(s, "hello", t)
<1>0. todo \in [Sockets -> Seq(Effect)]
  BY DEF TypeOK
<1>1. PICK u \in Sockets : e \in ToSet(todo[u])
  BY DEF Owed
<1>e. ToSet(<<>>) = {}
  BY DEF ToSet
<1>2. e \in ToSet(todo'[u]) => Told(s, t)'
  BY DEF Told, Owed, Send
<1>3. UNCHANGED todo => Told(s, t)'
  BY <1>1, <1>2
<1>4. ASSUME NEW x \in Sockets, Register(x) \/ Unregister(x) PROVE Told(s, t)'
  <2>1. todo[x] = <<>>
    BY <1>4 DEF Register, Unregister, Threads
  <2>2. \A y \in Sockets \ {x} : todo'[y] = todo[y]
    BY <1>4, RegisterOwes, UnregisterOwes
  <2> QED
    BY <1>1, <1>e, <1>2, <2>1, <2>2
<1>5. ASSUME NEW x \in Sockets, NEW k \in Keys, Route(x, k) PROVE Told(s, t)'
  <2>1. todo[x] = <<>> /\ \A y \in Sockets \ {x} : todo'[y] = todo[y]
    BY <1>0, <1>5 DEF Route
  <2> QED
    BY <1>1, <1>e, <1>2, <2>1
<1>6. ASSUME NEW x \in Sockets, CarryOut(x) PROVE Told(s, t)'
  <2>1. /\ todo' = [todo EXCEPT ![x] = Tail(@)]
        /\ ToSet(todo[x]) = {Head(todo[x])} \cup ToSet(todo'[x])
    BY <1>6, CarryOutKeeps
  <2>2. CASE u = x /\ e = Head(todo[x])
    <3>1. [type |-> "hello", from |-> t] \in ToSet(queue'[s]) \/ done'[s]
      BY <1>6, <2>2, CarryOutAdds
    <3>2. [type |-> "hello", from |-> t].type = "hello" /\ [type |-> "hello", from |-> t].from = t
      OBVIOUS
    <3> QED
      BY <3>1, <3>2 DEF Told, Queued, Stopping
  <2>3. CASE ~(u = x /\ e = Head(todo[x]))
    <3>1. e \in ToSet(todo'[u])
      BY <1>0, <1>1, <2>1, <2>3
    <3> QED
      BY <1>2, <3>1
  <2> QED
    BY <2>2, <2>3
<1> QED
  BY <1>3, <1>4, <1>5, <1>6, HubSteps DEF Quiet, Collect, StopMatched, CloseHub

LEMMA ToldStays ==
    ASSUME HubInv, [Next]_vars, NEW s \in Sockets, NEW t \in Sockets,
           stage[s] \notin {"idle", "admitted"}, Told(s, t)
    PROVE  Told(s, t)'
<1> USE DEF HubInv
<1>0. KeyOf[t] \in Keys
  BY RelayHubAssumption
<1>1. view[s][KeyOf[t]] # "unknown" => Told(s, t)'
  BY <1>0, ViewStays DEF Told
<1>2. Stopping(s) => Told(s, t)'
  BY StopsStay DEF Told
<1>3. ~open[s] => Told(s, t)'
  BY ClosedStays DEF Told
<1> QED
  BY <1>1, <1>2, <1>3, QueuedStays, OwedStays DEF Told

\* A place changes hands only when a socket of that identity registers.
LEMMA NewPlace ==
    ASSUME TypeOK, [Next]_vars, NEW k \in Keys, peers'[k] # NONE, peers'[k] # peers[k]
    PROVE  \E x \in Sockets : Register(x) /\ KeyOf[x] = k /\ peers'[k] = x
<1>0. peers \in [Keys -> Sockets \cup {NONE}] /\ KeyOf \in [Sockets -> Keys]
  BY RelayHubAssumption DEF TypeOK
<1>1. ASSUME NEW x \in Sockets, Register(x) PROVE KeyOf[x] = k /\ peers'[k] = x
  BY <1>0, <1>1 DEF Register
<1>2. ASSUME NEW x \in Sockets, Unregister(x) PROVE FALSE
  BY <1>0, <1>2 DEF Unregister
<1>3. ~CloseHub
  BY DEF CloseHub
<1>4. ~Quiet
  BY DEF Quiet
<1>5. \A x \in Sockets : ~CarryOut(x) /\ \A l \in Keys : ~Route(x, l)
  BY DEF CarryOut, Route, hubVars
<1>6. \A r \in Revocations : ~Collect(r)
  BY DEF Collect, hubVars
<1>7. \A r \in Announcers : ~StopMatched(r)
  BY DEF StopMatched, hubVars
<1> QED
  BY <1>1, <1>2, <1>3, <1>4, <1>5, <1>6, <1>7, HubSteps

\* Registered sockets that trust each other have been told of each other.
Introduced ==
    \A k, l \in Keys :
        l \in OtherRole(k) /\ peers[k] # NONE /\ peers[l] # NONE /\ MutualTrust(peers[k], peers[l])
            => Told(peers[k], peers[l])

LEMMA IntroducedStep ==
    ASSUME HubInv, Introduced, [Next]_vars
    PROVE  Introduced'
<1> USE DEF HubInv
<1> SUFFICES ASSUME NEW k \in Keys, NEW l \in Keys, l \in OtherRole(k), peers'[k] # NONE,
                    peers'[l] # NONE, MutualTrust(peers[k], peers[l])'
             PROVE  Told(peers[k], peers[l])'
  BY DEF Introduced, OtherRole
<1>0. /\ peers \in [Keys -> Sockets \cup {NONE}] /\ KeyOf \in [Sockets -> Keys]
      /\ NONE \notin Sockets /\ TypeOK' /\ ClientKeys \cap ConnectorKeys = {}
      /\ todo \in [Sockets -> Seq(Effect)]
  BY RelayHubAssumption, TypeOKStep DEF TypeOK
<1>1. PICK s \in Sockets, t \in Sockets : peers'[k] = s /\ peers'[l] = t
  BY <1>0 DEF TypeOK
<1>2. k # l /\ k \in OtherRole(l)
  BY <1>0 DEF OtherRole, Keys
<1>3. ASSUME s = peers[k], t = peers[l] PROVE Told(s, t)'
  <2>1. stage[s] \notin {"idle", "admitted"} /\ stage[t] \notin {"idle", "admitted"}
    BY <1>0, <1>1, <1>3 DEF Places
  <2>2. trusted'[s] = trusted[s] /\ trusted'[t] = trusted[t]
    BY <1>1, <2>1, AdmittedOnce
  <2>3. MutualTrust(s, t)
    BY <1>1, <2>2 DEF MutualTrust, Trusts
  <2>4. Told(s, t)
    BY <1>0, <1>1, <1>3, <2>3 DEF Introduced
  <2> QED
    BY <1>1, <2>1, <2>4, ToldStays
<1>4. ASSUME NEW x \in Sockets, Register(x), {Send(s, "hello", t)} \subseteq ToSet(todo'[x])
      PROVE  Told(s, t)'
  BY <1>4 DEF Told, Owed, Send
<1>5. ASSUME s # peers[k] PROVE Told(s, t)'
  <2>1. Register(s) /\ KeyOf[s] = k
    BY <1>0, <1>1, <1>5, NewPlace
  <2>2. peers[l] = t
    BY <1>0, <1>1, <1>2, <2>1 DEF Register
  <2>3. t \in RegisteredOpposite(s)
    BY <1>0, <1>1, <2>1, <2>2 DEF RegisteredOpposite
  <2>4. MutualTrust(s, t)
    BY <1>1, <2>1 DEF MutualTrust, Trusts, Register
  <2> QED
    BY <1>1, <1>4, <2>1, <2>3, <2>4, RegisterIntroduces
<1>6. ASSUME t # peers[l] PROVE Told(s, t)'
  <2>1. Register(t) /\ KeyOf[t] = l
    BY <1>0, <1>1, <1>6, NewPlace
  <2>2. peers[k] = s
    BY <1>0, <1>1, <1>2, <2>1 DEF Register
  <2>3. s \in RegisteredOpposite(t)
    BY <1>0, <1>1, <1>2, <2>1, <2>2 DEF RegisteredOpposite
  <2>4. MutualTrust(t, s)
    BY <1>1, <2>1 DEF MutualTrust, Trusts, Register
  <2> QED
    BY <1>1, <1>4, <2>1, <2>3, <2>4, RegisterIntroduces
<1>7. Told(s, t)'
  BY <1>3, <1>5, <1>6
<1> QED
  BY <1>1, <1>7 DEF Told, Stopping, StopPending, Queued, Owed, Send, Stop

\* Two registered sockets that trust each other have been introduced: the far
\* end of each was told of the other's key, or a message about it is under
\* way, or the socket cannot be told any more.  register decides both hellos
\* under the mutex, with the map that makes the two partners.
THEOREM PartnersTold == Spec => []PartnersIntroduced
<1>1. Init => Introduced
  BY DEF Init, Introduced
<1>2. HubInv /\ Introduced /\ [Next]_vars => Introduced'
  BY IntroducedStep
<1>3. HubInv /\ Introduced => PartnersIntroduced
  <2> SUFFICES ASSUME HubInv, Introduced, NEW s \in Registered, NEW t \in RegisteredOpposite(s),
                      MutualTrust(s, t)
               PROVE  Told(s, t)
    BY DEF PartnersIntroduced, Told, Stopping, Queued, Owed
  <2>1. PICK k \in Keys : peers[k] = s /\ s # NONE
    BY DEF Registered
  <2>2. PICK l \in OtherRole(KeyOf[s]) : peers[l] = t /\ t # NONE
    BY DEF RegisteredOpposite
  <2>3. KeyOf[s] = k
    BY <2>1 DEF HubInv, Places
  <2>4. l \in Keys
    BY DEF OtherRole, Keys
  <2> QED
    BY <2>1, <2>2, <2>3, <2>4 DEF Introduced
<1> QED
  BY <1>1, <1>2, <1>3, HubInvariant, PTL DEF Spec
-------------------------------------------------------------------------------
(* Seats.                                                                  *)

\* Whoever is stopped, or owed or about to be told anything, has registered.
Begun(s) == stage[s] \notin {"idle", "admitted"}
Targets ==
    \A s \in Sockets :
        /\ done[s] => Begun(s)
        /\ \A r \in Announcers : s \in matched[r] => Begun(s)
        /\ \A e \in ToSet(todo[s]) : Begun(e.to)

LEMMA BegunStays ==
    ASSUME TypeOK, [Next]_vars, NEW s \in Sockets, Begun(s)
    PROVE  Begun(s)'
<1>0. stage \in [Sockets -> Stages]
  BY DEF TypeOK
<1>1. Admit(s) \/ RefuseHello(s) \/ Register(s) \/ Serve(s) => Begun(s)'
  BY <1>0 DEF Begun, Admit, RefuseHello, Register, Serve
<1>2. ReadLoopReturns(s) \/ Unregister(s) \/ Finish(s) \/ Check(s) => Begun(s)'
  BY <1>0 DEF Begun, ReadLoopReturns, Unregister, Finish, Check
<1> QED
  BY <1>1, <1>2, StageMoves DEF Begun

\* Carrying an effect out stops nobody but the one it is for.
LEMMA CarryOutStops ==
    ASSUME TypeOK, NEW x \in Sockets, CarryOut(x), NEW s \in Sockets, done'[s], ~done[s]
    PROVE  s = Head(todo[x]).to
  BY DEF TypeOK, CarryOut, Enqueue

\* Who is stopped by a step.
LEMMA StoppedBy ==
    ASSUME TypeOK, [Next]_vars, NEW s \in Sockets, done'[s], ~done[s]
    PROVE  \/ \E x \in Sockets : CarryOut(x) /\ s = Head(todo[x]).to
           \/ Check(s) \/ LeaseEnds(s) \/ Finish(s)
           \/ \E r \in Announcers : s \in matched[r]
<1>0. done \in [Sockets -> BOOLEAN]
  BY DEF TypeOK
<1>1. ASSUME NEW x \in Sockets, SocketStep(x)
      PROVE  \/ CarryOut(x) /\ s = Head(todo[x]).to
             \/ Check(s) \/ LeaseEnds(s) \/ Finish(s)
  <2>1. CarryOut(x) => s = Head(todo[x]).to
    BY CarryOutStops
  <2>2. Check(x) \/ LeaseEnds(x) \/ Finish(x) => x = s
    BY <1>0 DEF Check, LeaseEnds, Finish
  <2>3. Admit(x) \/ RefuseHello(x) \/ Register(x) \/ Serve(x) \/ ReadLoopReturns(x) => FALSE
    BY DEF Admit, RefuseHello, Register, Serve, ReadLoopReturns
  <2>4. Unregister(x) \/ Deliver(x) \/ CloseStopped(x) \/ ConnectionLost(x) => FALSE
    BY DEF Unregister, Deliver, CloseStopped, ConnectionLost, Disconnected
  <2>5. \A k \in Keys : ~Route(x, k)
    BY DEF Route
  <2> QED
    BY <1>1, <2>1, <2>2, <2>3, <2>4, <2>5 DEF SocketStep, Goroutine
<1>2. ASSUME NEW r \in Announcers, StopMatched(r) PROVE s \in matched[r]
  BY <1>0, <1>2 DEF StopMatched
<1>3. Outside => \E r \in Announcers : StopMatched(r)
  BY DEF Outside, Pair, Revoke, Collect, CloseHub
<1>4. ~UNCHANGED vars
  BY DEF vars
<1> QED
  BY <1>1, <1>2, <1>3, <1>4 DEF Next

\* The effects a step adds are for sockets that have registered.
LEMMA OwedTargets ==
    ASSUME HubInv, Targets, [Next]_vars, NEW s \in Sockets, NEW e \in ToSet(todo'[s])
    PROVE  Begun(e.to)'
<1> USE DEF HubInv
<1>0. /\ todo \in [Sockets -> Seq(Effect)] /\ stage \in [Sockets -> Stages]
      /\ peers \in [Keys -> Sockets \cup {NONE}] /\ KeyOf \in [Sockets -> Keys]
      /\ NONE \notin Sockets
  BY RelayHubAssumption DEF TypeOK
<1>1. ASSUME NEW x \in Sockets, e \in ToSet(todo[x]) PROVE Begun(e.to)'
  <2>0. todo[x] \in Seq(Effect)
    BY <1>0
  <2>1. e \in Effect
    BY <1>1, <2>0 DEF ToSet
  <2>3. Begun(e.to)
    BY <1>1 DEF Targets
  <2>2. e.to \in Sockets
    BY <2>1 DEF Effect
  <2> QED
    BY <2>2, <2>3, BegunStays
<1>2. ASSUME NEW k \in Keys, NEW t, t = peers[k], t # NONE
      PROVE  t \in Sockets /\ Begun(t)'
  <2>1. t \in Sockets /\ Begun(t)
    BY <1>0, <1>2 DEF Places, Begun
  <2> QED
    BY <2>1, BegunStays
<1>3. ASSUME NEW x \in Sockets, NEW t \in RegisteredOpposite(x)
      PROVE  Begun(t)'
  BY <1>2, <1>3 DEF RegisteredOpposite, OtherRole, Keys
<1>4. ASSUME NEW x \in Sockets, Register(x) PROVE Begun(e.to)'
  <2>1. CASE s # x
    BY <1>1, <1>4, <2>1, RegisterOwes
  <2>2. CASE s = x
    <3>1. Begun(x)'
      BY <1>0, <1>4 DEF Register, Begun
    <3>2. CASE peers[KeyOf[x]] # NONE /\ e = Stop(peers[KeyOf[x]])
      <4>1. e.to = peers[KeyOf[x]]
        BY <3>2 DEF Stop
      <4> QED
        BY <1>0, <1>2, <3>2, <4>1
    <3>3. ASSUME NEW t \in RegisteredOpposite(x),
                 e = Send(t, "hello", x) \/ e = Send(x, "hello", t)
          PROVE  Begun(e.to)'
      <4>1. e.to = t \/ e.to = x
        BY <3>3 DEF Send
      <4> QED
        BY <1>3, <3>1, <4>1
    <3> QED
      BY <1>4, <2>2, <3>2, <3>3, RegisterOwes
  <2> QED
    BY <2>1, <2>2
<1>5. ASSUME NEW x \in Sockets, Unregister(x) PROVE Begun(e.to)'
  <2>1. CASE e \in ToSet(todo[s])
    BY <1>1, <2>1
  <2>2. CASE e \notin ToSet(todo[s])
    <3>1. PICK t \in RegisteredOpposite(x) : e = Send(t, "offline", x)
      BY <1>5, <2>2, UnregisterOwes
    <3>2. e.to = t
      BY <3>1 DEF Send
    <3> QED
      BY <1>3, <3>2
  <2> QED
    BY <2>1, <2>2
<1>6. ASSUME NEW x \in Sockets, CarryOut(x) PROVE Begun(e.to)'
  <2>1. todo' = [todo EXCEPT ![x] = Tail(@)] /\ ToSet(todo[x]) = {Head(todo[x])} \cup ToSet(todo'[x])
    BY <1>6, CarryOutKeeps
  <2>2. e \in ToSet(todo[s])
    BY <1>0, <2>1
  <2> QED
    BY <1>1, <2>2
<1>7. ASSUME NEW x \in Sockets, NEW k \in Keys, Route(x, k) PROVE Begun(e.to)'
  <2>1. todo' = [todo EXCEPT ![x] = <<Send(peers[k], "frame", x)>>] /\ peers[k] # NONE
    BY <1>7 DEF Route
  <2>2. CASE s # x
    BY <1>0, <1>1, <2>1, <2>2
  <2>3. CASE s = x
    <3>1. todo'[s] = <<Send(peers[k], "frame", x)>>
      BY <1>0, <2>1, <2>3
    <3>2. e.to = peers[k]
      BY <3>1 DEF ToSet, Send
    <3> QED
      BY <1>2, <2>1, <3>2
  <2> QED
    BY <2>2, <2>3
<1>8. ASSUME UNCHANGED todo PROVE Begun(e.to)'
  BY <1>1, <1>8
<1> QED
  BY <1>4, <1>5, <1>6, <1>7, <1>8, HubSteps DEF Quiet, Collect, StopMatched, CloseHub

LEMMA TargetsStep ==
    ASSUME HubInv, Targets, [Next]_vars
    PROVE  Targets'
<1> USE DEF HubInv
<1> SUFFICES ASSUME NEW s \in Sockets
             PROVE  /\ done'[s] => Begun(s)'
                    /\ \A r \in Announcers : s \in matched'[r] => Begun(s)'
  BY OwedTargets DEF Targets
<1>0. /\ todo \in [Sockets -> Seq(Effect)] /\ stage \in [Sockets -> Stages]
      /\ peers \in [Keys -> Sockets \cup {NONE}]
      /\ matched \in [Announcers -> SUBSET Sockets]
  BY DEF TypeOK
<1>1. ASSUME done'[s] PROVE Begun(s)'
  <2>1. CASE Begun(s)
    BY <2>1, BegunStays
  <2>2. CASE ~done[s]
    <3>1. ASSUME NEW x \in Sockets, CarryOut(x), s = Head(todo[x]).to PROVE Begun(s)
      <4>0. ToSet(todo[x]) = {Head(todo[x])} \cup ToSet(todo'[x])
        BY <3>1, CarryOutKeeps
      <4>1. Head(todo[x]) \in ToSet(todo[x])
        BY <4>0
      <4> QED
        BY <3>1, <4>1 DEF Targets, Begun
    <3>2. Check(s) \/ LeaseEnds(s) \/ Finish(s) => Begun(s)
      BY DEF Check, LeaseEnds, Finish, Begun
    <3> QED
      BY <1>1, <2>1, <2>2, <3>1, <3>2, StoppedBy DEF Targets
  <2> QED
    BY <2>1, <2>2 DEF Targets
<1>2. ASSUME NEW r \in Announcers, s \in matched'[r] PROVE Begun(s)'
  <2>1. CASE Begun(s)
    BY <2>1, BegunStays
  <2>2. s \in matched[r] \/ s \in Registered
    <3>1. ASSUME NEW q \in Revocations, Collect(q) PROVE s \in matched[r] \/ s \in Registered
      BY <1>0, <1>2, <3>1 DEF Collect
    <3>2. CloseHub => s \in matched[r] \/ s \in Registered
      BY <1>0, <1>2 DEF CloseHub
    <3>3. ASSUME NEW q \in Announcers, StopMatched(q) PROVE s \in matched[r]
      BY <1>0, <1>2, <3>3 DEF StopMatched
    <3>4. \A x \in Sockets : \/ Register(x) \/ CarryOut(x) \/ Unregister(x)
                             \/ \E k \in Keys : Route(x, k)
            => UNCHANGED matched
      BY DEF Register, CarryOut, Unregister, Route, announcerVars
    <3> QED
      BY <1>2, <3>1, <3>2, <3>3, <3>4, HubSteps DEF Quiet
  <2>3. Begun(s)
    BY <1>0, <2>2 DEF Targets, Registered, Places, Begun
  <2> QED
    BY <2>1, <2>3
<1> QED
  BY <1>1, <1>2

LEMMA TargetsInit == Init => Targets
  BY DEF Init, Targets, ToSet, Begun

\* Who sits is in the map.
LEMMA SeatedPlaced ==
    ASSUME HubInv, NEW s \in Sockets, Seated(s)
    PROVE  peers[KeyOf[s]] = s /\ s \in Registered
<1>1. peers[KeyOf[s]] = s
  BY DEF HubInv, Placed, Seated, Stopping
<1>2. KeyOf[s] \in Keys /\ s # NONE
  BY RelayHubAssumption
<1> QED
  BY <1>1, <1>2 DEF Registered

\* Only by registering does a socket come to sit.
LEMMA SeatTaken ==
    ASSUME HubInv, [Next]_vars, NEW s \in Sockets, Seated(s)', ~Seated(s)
    PROVE  Register(s)
<1>1. stage \in [Sockets -> Stages]
  BY DEF HubInv, TypeOK
<1>2. ~Stopping(s)'
  BY DEF Seated, Stopping
<1>3. ~Stopping(s)
  BY <1>2, StopsStay DEF HubInv
<1>4. stage[s] \notin {"registering", "serving"} /\ stage'[s] \in {"registering", "serving"}
  BY <1>3 DEF Seated, Stopping
<1>5. Admit(s) \/ RefuseHello(s) \/ Serve(s) \/ ReadLoopReturns(s) => FALSE
  BY <1>1, <1>4 DEF Admit, RefuseHello, Serve, ReadLoopReturns
<1>6. Unregister(s) \/ Finish(s) \/ Check(s) => FALSE
  BY <1>1, <1>4 DEF Unregister, Finish, Check
<1> QED
  BY <1>4, <1>5, <1>6, StageMoves DEF HubInv

\* A step in which nobody is admitted, refused or registered changes who sits
\* and nothing else.
LEMMA GetUp ==
    ASSUME HubInv, [Next]_vars, NEW S,
           \A t \in Sockets : stage'[t] = stage[t] \/ (Begun(t) /\ stage[t] # "admitted"),
           \A t \in Sockets : Seated(t) => (Seated(t)' <=> t \notin S)
    PROVE  Phase' = Seats!Cleared(S)
<1> SUFFICES ASSUME NEW t \in Sockets
             PROVE  Phase'[t] = IF t \in S /\ Phase[t] = "seated" THEN "gone" ELSE Phase[t]
  BY DEF Phase, Seats!Cleared
<1>1. CASE ~Begun(t)
  BY <1>1 DEF Phase, Begun
<1>2. CASE Begun(t)
  <2>1. Begun(t)'
    BY <1>2, BegunStays DEF HubInv
  <2>2. Seated(t)' => Seated(t)
    BY <1>2, SeatTaken DEF Register, Begun
  <2>3. /\ Phase[t] = IF Seated(t) THEN "seated" ELSE "gone"
        /\ Phase'[t] = IF Seated(t)' THEN "seated" ELSE "gone"
    BY <1>2, <2>1 DEF Phase, Begun
  <2> QED
    BY <2>2, <2>3
<1> QED
  BY <1>1, <1>2

\* Nobody gets up when nobody is stopped, owes more stops or ends its loop.
LEMMA SitsOn ==
    ASSUME NEW t \in Sockets, Seated(t),
           stage'[t] \in {"registering", "serving"}, ~done'[t],
           \A r \in Announcers : t \notin matched'[r],
           \A x \in Sockets : Stop(t) \in ToSet(todo'[x]) => Stop(t) \in ToSet(todo[x])
    PROVE  Seated(t)'
<1>1. \A x \in Sockets : Stop(t) \notin ToSet(todo'[x])
  BY DEF Seated, StopPending
<1> QED
  BY <1>1 DEF Seated, StopPending, Stop

LEMMA NobodyUp ==
    ASSUME HubInv, [Next]_vars, Phase' = Seats!Cleared({})
    PROVE  Phase' = Phase
  BY DEF Phase, Seats!Cleared

LEMMA OneUp ==
    ASSUME NEW s \in Sockets, Phase' = Seats!Cleared({s})
    PROVE  \/ Phase' = Phase
           \/ Phase[s] = "seated" /\ Phase' = [Phase EXCEPT ![s] = "gone"]
  BY DEF Phase, Seats!Cleared

\* The rest of the abstract state.
RestSame == UNCHANGED <<revoked, announcer, checked>>
LEMMA RestStays ==
    ASSUME RestSame
    PROVE  /\ revoked' = revoked
           /\ {r \in Revocations : announcer[r] = "stopping"}'
                = {r \in Revocations : announcer[r] = "stopping"}
           /\ {s \in Sockets : checked[s]}' = {s \in Sockets : checked[s]}
  BY DEF RestSame

\* Where nothing is owed, collected or carried out, one socket may get up.
LEMMA QuietUp ==
    ASSUME HubInv, [Next]_vars, Quiet, NEW s \in Sockets,
           \A t \in Sockets \ {s} : stage'[t] = stage[t] /\ done'[t] = done[t],
           stage'[s] = stage[s] \/ Begun(s)
    PROVE  \/ Phase' = Phase
           \/ Phase[s] = "seated" /\ Phase' = [Phase EXCEPT ![s] = "gone"]
<1>1. \A t \in Sockets \ {s} : Seated(t) => Seated(t)'
  BY DEF Quiet, Seated, StopPending, Stop
<1>2. \A t \in Sockets : stage'[t] = stage[t] \/ (Begun(t) /\ stage[t] # "admitted")
  BY DEF Begun
<1>3. CASE Seated(s) /\ ~Seated(s)'
  <2>1. \A t \in Sockets : Seated(t) => (Seated(t)' <=> t \notin {s})
    BY <1>1, <1>3
  <2> QED
    BY <1>2, <2>1, GetUp, OneUp
<1>4. CASE ~(Seated(s) /\ ~Seated(s)')
  <2>1. \A t \in Sockets : Seated(t) => (Seated(t)' <=> t \notin {})
    BY <1>1, <1>4
  <2> QED
    BY <1>2, <2>1, GetUp, NobodyUp
<1> QED
  BY <1>3, <1>4

LEMMA QuietSeats ==
    ASSUME HubInv, [Next]_vars, NEW s \in Sockets,
           \/ Serve(s) \/ ReadLoopReturns(s) \/ Finish(s) \/ Deliver(s)
           \/ CloseStopped(s) \/ ConnectionLost(s) \/ LeaseEnds(s)
    PROVE  Seats!Leave(s) \/ UNCHANGED Seats!seatVars
<1>0. stage \in [Sockets -> Stages] /\ done \in [Sockets -> BOOLEAN]
  BY DEF HubInv, TypeOK
<1>1. Quiet
  BY QuietSteps
<1>2. Serve(s) \/ ReadLoopReturns(s) \/ Finish(s) =>
        /\ \A t \in Sockets \ {s} : stage'[t] = stage[t] /\ done'[t] = done[t]
        /\ Begun(s) /\ RestSame
  BY <1>0 DEF Serve, ReadLoopReturns, Finish, Begun, RestSame, dbVars, announcerVars
<1>3. Deliver(s) \/ CloseStopped(s) \/ ConnectionLost(s) =>
        UNCHANGED <<stage, done>> /\ RestSame
  BY DEF Deliver, CloseStopped, ConnectionLost, Disconnected, RestSame, dbVars, announcerVars
<1>4. LeaseEnds(s) =>
        /\ \A t \in Sockets \ {s} : stage'[t] = stage[t] /\ done'[t] = done[t]
        /\ Begun(s) /\ RestSame
  BY <1>0 DEF LeaseEnds, Begun, RestSame, dbVars, announcerVars
<1>5. /\ \A t \in Sockets \ {s} : stage'[t] = stage[t] /\ done'[t] = done[t]
      /\ stage'[s] = stage[s] \/ Begun(s)
      /\ RestSame
  BY <1>2, <1>3, <1>4
<1>6. \/ Phase' = Phase
      \/ Phase[s] = "seated" /\ Phase' = [Phase EXCEPT ![s] = "gone"]
  BY <1>1, <1>5, QuietUp
<1> QED
  BY <1>5, <1>6, RestStays DEF Seats!Leave, Seats!seatVars

LEMMA CheckSeats ==
    ASSUME HubInv, [Next]_vars, NEW s \in Sockets, Check(s)
    PROVE  Seats!Look(s)
<1>0. stage \in [Sockets -> Stages] /\ done \in [Sockets -> BOOLEAN]
      /\ checked \in [Sockets -> BOOLEAN]
  BY DEF HubInv, TypeOK
<1>1. /\ Quiet /\ UNCHANGED <<revoked, stage, announcer>>
      /\ stage[s] = "serving" /\ ~done[s]
      /\ done' = [done EXCEPT ![s] = Ended(s)]
      /\ checked' = [checked EXCEPT ![s] = TRUE]
  BY QuietSteps DEF Check, dbVars, announcerVars
<1>2. Phase[s] \in {"seated", "gone"}
  BY <1>1 DEF Phase
<1>3. Ended(s) <=> Seats!Ended(s)
  BY DEF Ended, Covers, Seats!Ended, Seats!Covers
<1>4. {x \in Sockets : checked'[x]} = {x \in Sockets : checked[x]} \cup {s}
  BY <1>0, <1>1
<1>5. \A t \in Sockets \ {s} : Seated(t) => Seated(t)'
  BY <1>0, <1>1 DEF Quiet, Seated, StopPending, Stop
<1>6. CASE Ended(s)
  <2>1. done'[s]
    BY <1>0, <1>1, <1>6
  <2>2. \A t \in Sockets : Seated(t) => (Seated(t)' <=> t \notin {s})
    BY <1>5, <2>1 DEF Seated
  <2>3. Phase' = Seats!Cleared({s})
    BY <1>1, <2>2, GetUp
  <2> QED
    BY <1>1, <1>2, <1>3, <1>4, <1>6, <2>3 DEF Seats!Look
<1>7. CASE ~Ended(s)
  <2>1. \A t \in Sockets : done'[t] <=> done[t]
    BY <1>0, <1>1, <1>7
  <2>2. Phase' = Phase
    BY <1>1, <2>1 DEF Phase, Quiet, Seated, StopPending, Stop
  <2> QED
    BY <1>1, <1>2, <1>3, <1>4, <1>7, <2>2 DEF Seats!Look
<1> QED
  BY <1>6, <1>7

LEMMA AdmitSeats ==
    ASSUME HubInv, [Next]_vars, NEW s \in Sockets
    PROVE  /\ Admit(s) => Seats!Admit(s)
           /\ RefuseHello(s) => Seats!Leave(s)
<1>0. stage \in [Sockets -> Stages]
  BY DEF HubInv, TypeOK
<1>1. ASSUME Quiet, UNCHANGED done, NEW S, stage' = [stage EXCEPT ![s] = S]
      PROVE  \A t \in Sockets \ {s} : Phase'[t] = Phase[t]
  BY <1>0, <1>1 DEF Phase, Quiet, Seated, StopPending, Stop
<1>2. ASSUME Admit(s) PROVE Seats!Admit(s)
  <2>1. /\ Quiet /\ RestSame /\ UNCHANGED done /\ stage[s] = "idle"
        /\ stage' = [stage EXCEPT ![s] = "admitted"] /\ ~Ended(s)
    BY <1>2, QuietSteps DEF Admit, RestSame, dbVars, announcerVars
  <2>2. Phase[s] = "idle" /\ Phase'[s] = "admitted"
    BY <1>0, <2>1 DEF Phase
  <2>3. \A t \in Sockets \ {s} : Phase'[t] = Phase[t]
    BY <1>1, <2>1
  <2>4. Phase' = [Phase EXCEPT ![s] = "admitted"]
    BY <2>2, <2>3 DEF Phase
  <2>5. ~Seats!Ended(s)
    BY <2>1 DEF Ended, Covers, Seats!Ended, Seats!Covers
  <2> QED
    BY <2>1, <2>2, <2>4, <2>5, RestStays DEF Seats!Admit
<1>3. ASSUME RefuseHello(s) PROVE Seats!Leave(s)
  <2>1. /\ Quiet /\ RestSame /\ UNCHANGED done /\ stage[s] = "admitted"
        /\ stage' = [stage EXCEPT ![s] = "finished"]
    BY <1>3, QuietSteps DEF RefuseHello, RestSame, dbVars, announcerVars
  <2>2. Phase[s] = "admitted" /\ Phase'[s] = "gone"
    BY <1>0, <2>1 DEF Phase, Seated
  <2>3. \A t \in Sockets \ {s} : Phase'[t] = Phase[t]
    BY <1>1, <2>1
  <2>4. Phase' = [Phase EXCEPT ![s] = "gone"]
    BY <2>2, <2>3 DEF Phase
  <2> QED
    BY <2>1, <2>2, <2>4, RestStays DEF Seats!Leave
<1> QED
  BY <1>2, <1>3

\* A registration seats the newcomer and gets the one before it up, though that
\* one is stopped only later.
LEMMA RegisterSeats ==
    ASSUME HubInv, Targets, [Next]_vars, NEW s \in Sockets, Register(s)
    PROVE  Seats!Sit(s)
<1> USE DEF HubInv
<1>0. /\ stage \in [Sockets -> Stages] /\ done \in [Sockets -> BOOLEAN]
      /\ peers \in [Keys -> Sockets \cup {NONE}] /\ KeyOf \in [Sockets -> Keys]
      /\ NONE \notin Sockets
  BY RelayHubAssumption DEF TypeOK
<1>1. /\ RestSame /\ UNCHANGED <<done, matched>>
      /\ stage[s] = "admitted" /\ stage' = [stage EXCEPT ![s] = "registering"]
  BY DEF Register, RestSame, dbVars, announcerVars
<1>2. \A t \in Sockets : \A x \in Sockets :
         Stop(t) \in ToSet(todo'[x]) =>
            Stop(t) \in ToSet(todo[x]) \/ (x = s /\ t = peers[KeyOf[s]])
  <2> SUFFICES ASSUME NEW t \in Sockets, Stop(t) \in ToSet(todo'[s])
               PROVE  t = peers[KeyOf[s]]
    BY RegisterOwes
  <2>1. Stop(t).act = "stop" /\ Stop(t).to = t
    BY DEF Stop
  <2>2. \A x, y \in Sockets : Stop(t) # Send(x, "hello", y)
    BY <2>1 DEF Send
  <2>3. RegisteredOpposite(s) \subseteq Sockets
    BY <1>0 DEF RegisteredOpposite, OtherRole, Keys
  <2>4. Stop(t) = Stop(peers[KeyOf[s]])
    BY <2>2, <2>3, RegisterOwes
  <2> QED
    BY <2>1, <2>4 DEF Stop
<1>3. peers[KeyOf[s]] # NONE =>
         /\ peers[KeyOf[s]] \in Sockets /\ KeyOf[peers[KeyOf[s]]] = KeyOf[s]
         /\ stage[peers[KeyOf[s]]] # "admitted"
  BY <1>0 DEF Places
<1>4. Seated(s)'
  <2>1. ~done'[s] /\ \A r \in Announcers : s \notin matched'[r]
    BY <1>1 DEF Targets, Begun
  <2>2. \A x \in Sockets : Stop(s) \notin ToSet(todo'[x])
    <3> SUFFICES ASSUME NEW x \in Sockets, Stop(s) \in ToSet(todo'[x]) PROVE FALSE
      OBVIOUS
    <3>1. CASE Stop(s) \in ToSet(todo[x])
      <4>1. Stop(s).to = s
        BY DEF Stop
      <4> QED
        BY <1>1, <3>1, <4>1 DEF Targets, Begun
    <3>2. CASE s = peers[KeyOf[s]]
      BY <1>0, <1>1, <1>3, <3>2
    <3> QED
      BY <1>2, <3>1, <3>2
  <2> QED
    BY <1>0, <1>1, <2>1, <2>2 DEF Seated, StopPending, Stop
<1>5. ASSUME NEW t \in Sockets \ {s}
      PROVE  Phase'[t] = IF KeyOf[t] = KeyOf[s] /\ Phase[t] = "seated" THEN "gone" ELSE Phase[t]
  <2>1. stage'[t] = stage[t] /\ done'[t] = done[t]
    BY <1>0, <1>1
  <2>2. CASE ~Seated(t)
    <3>1. ~Seated(t)'
      BY <1>0, <2>1, <2>2, SeatTaken DEF Register, Seated
    <3> QED
      BY <2>1, <2>2, <3>1 DEF Phase
  <2>3. CASE Seated(t) /\ KeyOf[t] = KeyOf[s]
    <3>1. t = peers[KeyOf[s]]
      BY <2>3, SeatedPlaced
    <3>2. Stop(t) \in ToSet(todo'[s])
      BY <1>0, <3>1, RegisterOwes
    <3>3. ~Seated(t)'
      BY <3>2 DEF Seated, StopPending, Stop
    <3> QED
      BY <2>1, <2>3, <3>3 DEF Phase, Seated
  <2>4. CASE Seated(t) /\ KeyOf[t] # KeyOf[s]
    <3>1. t # peers[KeyOf[s]]
      BY <1>3, <2>4, <1>0
    <3>2. Seated(t)'
      BY <1>1, <1>2, <2>1, <2>4, <3>1, SitsOn DEF Seated, StopPending
    <3> QED
      BY <2>1, <2>4, <3>2 DEF Phase
  <2> QED
    BY <2>2, <2>3, <2>4
<1>6. Phase[s] = "admitted" /\ Phase'[s] = "seated"
  BY <1>0, <1>1, <1>4 DEF Phase
<1> DEFINE S == {t \in Sockets : KeyOf[t] = KeyOf[s]}
<1>7. Phase' = [Seats!Cleared(S) EXCEPT ![s] = "seated"]
  BY <1>5, <1>6 DEF Phase, Seats!Cleared
<1> QED
  BY <1>1, <1>6, <1>7, RestStays DEF Seats!Sit

\* An effect stops at most the one it is for, who may sit.
LEMMA CarryOutSeats ==
    ASSUME HubInv, Targets, [Next]_vars, NEW s \in Sockets, CarryOut(s)
    PROVE  (\E t \in Sockets : Seats!Leave(t)) \/ UNCHANGED Seats!seatVars
<1> DEFINE e == Head(todo[s])
<1>0. TypeOK /\ todo \in [Sockets -> Seq(Effect)] /\ stage \in [Sockets -> Stages]
  BY DEF HubInv, TypeOK
<1>1. RestSame /\ UNCHANGED <<stage, matched>>
  BY DEF CarryOut, RestSame, dbVars, announcerVars
<1>2. /\ e \in Effect /\ ToSet(todo[s]) = {e} \cup ToSet(todo'[s])
      /\ todo' = [todo EXCEPT ![s] = Tail(@)]
  BY <1>0, CarryOutKeeps
<1>3. e.to \in Sockets
  BY <1>2 DEF Effect
<1>4. \A x \in Sockets : ToSet(todo'[x]) \subseteq ToSet(todo[x])
  BY <1>0, <1>2
<1>5. \A t \in Sockets : done'[t] /\ ~done[t] => t = e.to
  BY <1>0, CarryOutStops
<1> HIDE DEF e
<1>6. \A t \in Sockets \ {e.to} : Seated(t) => Seated(t)'
  BY <1>1, <1>4, <1>5, SitsOn DEF Seated, StopPending
<1>7. \A t \in Sockets : stage'[t] = stage[t]
  BY <1>1
<1>8. \/ Phase' = Phase
      \/ Phase[e.to] = "seated" /\ Phase' = [Phase EXCEPT ![e.to] = "gone"]
  <2>1. CASE Seated(e.to) /\ ~(e.to \in {t \in Sockets : Seated(t)'})
    <3>1. \A t \in Sockets : Seated(t) => (Seated(t)' <=> t \notin {e.to})
      BY <1>6, <2>1
    <3>2. Phase' = Seats!Cleared({e.to})
      BY <1>7, <3>1, GetUp
    <3> QED
      BY <1>3, <3>2 DEF Phase, Seats!Cleared
  <2>2. CASE ~(Seated(e.to) /\ ~(e.to \in {t \in Sockets : Seated(t)'}))
    <3>1. \A t \in Sockets : Seated(t) => (Seated(t)' <=> t \notin {})
      BY <1>6, <2>2
    <3> QED
      BY <1>7, <3>1, GetUp, NobodyUp
  <2> QED
    BY <2>1, <2>2
<1> QED
  BY <1>1, <1>3, <1>8, RestStays DEF Seats!Leave, Seats!seatVars

\* A frame and an offline notice stop nobody by being owed.
LEMMA OwingSeats ==
    ASSUME HubInv, [Next]_vars, NEW s \in Sockets,
           Unregister(s) \/ \E k \in Keys : Route(s, k)
    PROVE  UNCHANGED Seats!seatVars
<1>0. TypeOK /\ todo \in [Sockets -> Seq(Effect)] /\ stage \in [Sockets -> Stages]
      /\ peers \in [Keys -> Sockets \cup {NONE}]
  BY DEF HubInv, TypeOK
<1>1. RestSame /\ UNCHANGED <<done, matched>>
  <2>1. Unregister(s) => RestSame /\ UNCHANGED <<done, matched>>
    BY DEF Unregister, RestSame, dbVars, announcerVars
  <2>2. \A k \in Keys : Route(s, k) => RestSame /\ UNCHANGED <<done, matched>>
    BY DEF Route, RestSame, dbVars, announcerVars
  <2> QED
    BY <2>1, <2>2
<1>2. \A t \in Sockets : /\ stage'[t] = stage[t] \/ (Begun(t) /\ stage[t] # "admitted")
                         /\ Seated(t) => stage'[t] = stage[t]
  <2>1. Unregister(s) => /\ stage[s] = "ending"
                         /\ \A t \in Sockets \ {s} : stage'[t] = stage[t]
    BY <1>0 DEF Unregister
  <2>2. \A k \in Keys : Route(s, k) => UNCHANGED stage
    BY DEF Route
  <2> QED
    BY <2>1, <2>2 DEF Begun, Seated
<1>3. \A t \in Sockets : \A x \in Sockets :
         Stop(t) \in ToSet(todo'[x]) => Stop(t) \in ToSet(todo[x])
  <2> SUFFICES ASSUME NEW t \in Sockets, NEW x \in Sockets, Stop(t) \in ToSet(todo'[x])
               PROVE  Stop(t) \in ToSet(todo[x])
    OBVIOUS
  <2>1. \A y, z, m : Stop(t) # Send(y, m, z)
    <3>1. Stop(t).act = "stop" /\ \A y, z, m : Send(y, m, z).act = "send"
      BY DEF Stop, Send
    <3> QED
      BY <3>1
  <2>2. CASE Unregister(s)
    <3>1. /\ x # s => todo'[x] = todo[x]
          /\ \A e \in ToSet(todo'[s]) :
                \/ e \in ToSet(todo[s])
                \/ \E y \in RegisteredOpposite(s) : e = Send(y, "offline", s)
      BY <1>0, <2>2, UnregisterOwes
    <3> QED
      BY <2>1, <3>1
  <2>3. ASSUME NEW k \in Keys, Route(s, k) PROVE Stop(t) \in ToSet(todo[x])
    <3>1. todo' = [todo EXCEPT ![s] = <<Send(peers[k], "frame", s)>>]
      BY <2>3 DEF Route
    <3>2. CASE x = s
      <4>1. todo'[x] = <<Send(peers[k], "frame", s)>>
        BY <1>0, <3>1, <3>2
      <4>2. Stop(t) = Send(peers[k], "frame", s)
        BY <4>1 DEF ToSet
      <4> QED
        BY <2>1, <4>2
    <3>3. CASE x # s
      BY <1>0, <3>1, <3>3
    <3> QED
      BY <3>2, <3>3
  <2> QED
    BY <2>2, <2>3
<1>4. \A t \in Sockets : Seated(t) => (Seated(t)' <=> t \notin {})
  BY <1>1, <1>2, <1>3, SitsOn DEF Seated, StopPending
<1>5. Phase' = Phase
  BY <1>2, <1>4, GetUp, NobodyUp
<1> QED
  BY <1>1, <1>5, RestStays DEF Seats!seatVars

\* The announcement of a revocation clears its seats under the mutex, at once.
LEMMA CollectSeats ==
    ASSUME HubInv, [Next]_vars, NEW r \in Revocations, Collect(r)
    PROVE  Seats!Announce(r)
<1> DEFINE S == {t \in Sockets : Seats!Covers(r, t)}
<1>0. /\ announcer \in [Announcers -> {"idle", "committed", "stopping"}]
      /\ matched \in [Announcers -> SUBSET Sockets] /\ r \in Announcers
  BY DEF HubInv, TypeOK, Announcers
<1>1. /\ UNCHANGED <<revoked, stage, todo, done, checked>>
      /\ announcer[r] = "committed" /\ announcer' = [announcer EXCEPT ![r] = "stopping"]
      /\ matched' = [matched EXCEPT ![r] = {t \in Registered : Covers(r, t)}]
  BY DEF Collect, dbVars
<1>2. r \in revoked
  BY <1>1 DEF HubInv, Announced
<1>3. {q \in Revocations : announcer'[q] = "stopping"}
        = {q \in Revocations : announcer[q] = "stopping"} \cup {r}
  BY <1>0, <1>1 DEF Announcers
<1>4. ASSUME NEW t \in Sockets, Seated(t)
      PROVE  Seated(t)' <=> t \notin S
  <2>0. Covers(r, t) <=> t \in S
    BY DEF Covers, Seats!Covers
  <2>1. CASE Covers(r, t)
    <3>1. t \in matched'[r]
      BY <1>0, <1>1, <1>4, <2>1, SeatedPlaced
    <3> QED
      BY <1>0, <2>0, <2>1, <3>1 DEF Seated, StopPending
  <2>2. CASE ~Covers(r, t)
    <3>1. \A q \in Announcers : t \notin matched'[q]
      BY <1>0, <1>1, <1>4, <2>2 DEF Seated, StopPending
    <3> QED
      BY <1>1, <1>4, <2>0, <2>2, <3>1, SitsOn DEF Seated
  <2> QED
    BY <2>1, <2>2
<1> HIDE DEF S
<1>5. \A t \in Sockets : stage'[t] = stage[t]
  BY <1>1
<1>6. Phase' = Seats!Cleared(S)
  BY <1>4, <1>5, GetUp
<1> QED
  BY <1>1, <1>2, <1>3, <1>6 DEF Seats!Announce, S

LEMMA CloseSeats ==
    ASSUME HubInv, [Next]_vars, CloseHub
    PROVE  Seats!ShutDown
<1>0. "close" \in Announcers /\ matched \in [Announcers -> SUBSET Sockets]
  BY DEF HubInv, TypeOK, Announcers, Closing
<1>1. RestSame /\ UNCHANGED stage /\ matched' = [matched EXCEPT !["close"] = Registered]
  BY DEF CloseHub, RestSame, dbVars
<1>2. \A t \in Sockets : Seated(t) => (Seated(t)' <=> t \notin Sockets)
  BY <1>0, <1>1, SeatedPlaced DEF Seated, StopPending
<1>3. \A t \in Sockets : stage'[t] = stage[t]
  BY <1>1
<1>4. Phase' = Seats!Cleared(Sockets)
  BY <1>2, <1>3, GetUp
<1> QED
  BY <1>1, <1>4, RestStays DEF Seats!ShutDown

LEMMA OutsideSeats ==
    ASSUME HubInv, [Next]_vars
    PROVE  /\ \A e \in NewTrust : Pair(e) => UNCHANGED Seats!seatVars
           /\ \A r \in Revocations : Revoke(r) => Seats!Revoke(r) \/ UNCHANGED Seats!seatVars
           /\ \A r \in Announcers : StopMatched(r) => UNCHANGED Seats!seatVars
<1>0. TypeOK
  BY DEF HubInv
<1>1. UNCHANGED <<stage, done, todo, matched>> => Phase' = Phase
  BY DEF Phase, Seated, StopPending, Stop
<1>2. ASSUME NEW e \in NewTrust, Pair(e) PROVE UNCHANGED Seats!seatVars
  <2>1. RestSame /\ UNCHANGED <<stage, done, todo, matched>>
    BY <1>2 DEF Pair, RestSame, announcerVars
  <2> QED
    BY <1>1, <2>1, RestStays DEF Seats!seatVars
<1>3. ASSUME NEW r \in Revocations, Revoke(r)
      PROVE  Seats!Revoke(r) \/ UNCHANGED Seats!seatVars
  <2>1. /\ UNCHANGED <<stage, done, todo, matched, checked>>
        /\ revoked' = revoked \cup {r} /\ announcer[r] = "idle"
        /\ announcer' = [announcer EXCEPT ![r] = "committed"]
    BY <1>3 DEF Revoke
  <2>2. {q \in Revocations : announcer'[q] = "stopping"}
          = {q \in Revocations : announcer[q] = "stopping"}
    BY <1>0, <2>1 DEF TypeOK, Announcers
  <2>3. CASE r \notin revoked
    BY <1>1, <2>1, <2>2, <2>3 DEF Seats!Revoke
  <2>4. CASE r \in revoked
    <3>1. revoked' = revoked
      BY <2>1, <2>4
    <3> QED
      BY <1>1, <2>1, <2>2, <3>1 DEF Seats!seatVars
  <2> QED
    BY <2>3, <2>4
<1>4. ASSUME NEW r \in Announcers, StopMatched(r) PROVE UNCHANGED Seats!seatVars
  <2>1. PICK s \in matched[r] : /\ matched' = [matched EXCEPT ![r] = @ \ {s}]
                               /\ done' = [done EXCEPT ![s] = TRUE]
    BY <1>4 DEF StopMatched
  <2>2. RestSame /\ UNCHANGED <<stage, todo>>
    BY <1>4 DEF StopMatched, RestSame, dbVars
  <2>3. \A t \in Sockets : Seated(t) => t # s /\ ~done'[t] /\ \A q \in Announcers : t \notin matched'[q]
    BY <1>0, <2>1 DEF TypeOK, Seated, StopPending
  <2>4. \A t \in Sockets : Seated(t) => (Seated(t)' <=> t \notin {})
    BY <2>2, <2>3, SitsOn DEF Seated
  <2>5. \A t \in Sockets : stage'[t] = stage[t]
    BY <2>2
  <2>6. Phase' = Phase
    BY <2>4, <2>5, GetUp, NobodyUp
  <2> QED
    BY <2>2, <2>6, RestStays DEF Seats!seatVars
<1> QED
  BY <1>2, <1>3, <1>4

LEMMA SeatsInit == Init => Seats!Init
  BY DEF Init, Seats!Init, Phase, Announcers

LEMMA SeatsStep ==
    ASSUME HubInv, Targets, [Next]_vars
    PROVE  [Seats!Next]_(Seats!seatVars)
<1>1. ASSUME NEW s \in Sockets, SocketStep(s) PROVE [Seats!Next]_(Seats!seatVars)
  <2>1. CASE Admit(s) \/ RefuseHello(s)
    BY <2>1, AdmitSeats DEF Seats!Next
  <2>2. CASE Register(s)
    BY <2>2, RegisterSeats DEF Seats!Next
  <2>3. CASE CarryOut(s)
    BY <2>3, CarryOutSeats DEF Seats!Next
  <2>4. CASE Check(s)
    BY <2>4, CheckSeats DEF Seats!Next
  <2>5. CASE Unregister(s) \/ \E k \in Keys : Route(s, k)
    BY <2>5, OwingSeats
  <2>6. CASE \/ Serve(s) \/ ReadLoopReturns(s) \/ Finish(s) \/ Deliver(s)
             \/ CloseStopped(s) \/ ConnectionLost(s) \/ LeaseEnds(s)
    BY <2>6, QuietSeats DEF Seats!Next
  <2> QED
    BY <1>1, <2>1, <2>2, <2>3, <2>4, <2>5, <2>6 DEF SocketStep, Goroutine
<1>2. CASE Outside
  BY <1>2, OutsideSeats, CollectSeats, CloseSeats DEF Outside, Seats!Next
<1>3. CASE UNCHANGED vars
  <2>1. RestSame /\ UNCHANGED <<stage, done, todo, matched>>
    BY <1>3 DEF vars, RestSame, dbVars, announcerVars
  <2>2. Phase' = Phase
    BY <2>1 DEF Phase, Seated, StopPending, Stop
  <2> QED
    BY <2>1, <2>2, RestStays DEF Seats!seatVars
<1> QED
  BY <1>1, <1>2, <1>3 DEF Next

\* The hub implements one seat for each identity, cleared at once: register
\* supersedes, Disconnect and close clear, and nobody stopped comes back,
\* whichever goroutine carries the stops out, and when.
THEOREM Refinement == Spec => SeatsSpec
<1>1. Spec => []Targets
  <2>1. HubInv /\ Targets /\ [Next]_vars => Targets'
    BY TargetsStep
  <2> QED
    BY <2>1, TargetsInit, HubInvariant, PTL DEF Spec
<1>2. HubInv /\ Targets /\ [Next]_vars => [Seats!Next]_(Seats!seatVars)
  BY SeatsStep
<1> QED
  BY <1>1, <1>2, SeatsInit, HubInvariant, PTL DEF Spec, SeatsSpec, Seats!Spec
=============================================================================
