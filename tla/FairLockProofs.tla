--------------------------- MODULE FairLockProofs ---------------------------
(* What joining and leaving the mutex queue do to it. *)
EXTENDS FairLock, SequenceTheorems, TLAPS

\* lock().await by a task that is not in the queue: it becomes a member, the
\* owner does not change, and a free mutex is owned at once.
LEMMA AcquireLemma ==
    ASSUME NEW S, NEW q \in Seq(S), NEW t \in S, Distinct(q), t \notin ToSet(q)
    PROVE  /\ Acquire(q, t) \in Seq(S)
           /\ Distinct(Acquire(q, t))
           /\ ToSet(Acquire(q, t)) = ToSet(q) \cup {t}
           /\ \A u : Owns(q, u) => Owns(Acquire(q, t), u)
           /\ IsFree(q) => Owns(Acquire(q, t), t)
<1> DEFINE a == Append(q, t)
<1>1. /\ a \in Seq(S) /\ Len(a) = Len(q) + 1 /\ DOMAIN a = 1..(Len(q) + 1)
      /\ DOMAIN q = 1..Len(q) /\ Len(q) \in Nat
      /\ \A i \in 1..Len(q) : a[i] = q[i]
      /\ a[Len(q) + 1] = t
  OBVIOUS
<1>2. Distinct(a)
  BY <1>1 DEF Distinct, ToSet
<1>3. ToSet(a) = ToSet(q) \cup {t}
  BY <1>1 DEF ToSet
<1> HIDE DEF a
<1>4. a # <<>> /\ Head(a) = a[1] /\ (q # <<>> => Len(q) > 0 /\ Head(q) = q[1])
  <2>1. \A s \in Seq(S) : Len(s) > 0 => s # <<>> /\ Head(s) = s[1]
    OBVIOUS
  <2>2. \A s \in Seq(S) : s # <<>> => Len(s) > 0
    OBVIOUS
  <2>3. Len(a) > 0
    BY <1>1
  <2> QED BY <1>1, <2>1, <2>2, <2>3
<1>5. \A u : Owns(q, u) => Owns(a, u)
  BY <1>1, <1>4 DEF Owns
<1>6. IsFree(q) => Owns(a, t)
  BY <1>1, <1>4 DEF Owns, IsFree
<1> QED BY <1>1, <1>2, <1>3, <1>5, <1>6 DEF Acquire, a

\* Dropping a guard or a place in the queue: the task and nobody else leaves,
\* and another owner stays the owner.
LEMMA LeaveLemma ==
    ASSUME NEW S, NEW q \in Seq(S), NEW t, Distinct(q)
    PROVE  /\ Leave(q, t) \in Seq(S)
           /\ Distinct(Leave(q, t))
           /\ ToSet(Leave(q, t)) = ToSet(q) \ {t}
           /\ \A u : u # t /\ Owns(q, u) => Owns(Leave(q, t), u)
<1> DEFINE l == Leave(q, t)
<1>0. Len(q) \in Nat /\ DOMAIN q = 1..Len(q)
  OBVIOUS
<1>1. CASE ~ \E i \in 1..Len(q) : q[i] = t
  <2>1. l = q
    BY <1>1 DEF Leave, RemoveFirst
  <2>2. t \notin ToSet(q)
    BY <1>1, <1>0 DEF ToSet
  <2> QED BY <2>1, <2>2
<1>2. CASE \E i \in 1..Len(q) : q[i] = t
  <2>1. PICK p \in 1..Len(q) : q[p] = t
    BY <1>2
  <2>2. SelectInSeq(q, LAMBDA v : v = t) = p
    <3> DEFINE I == {i \in 1..Len(q) : q[i] = t}
    <3>1. I = {p}
      BY <2>1, <1>0 DEF Distinct
    <3>2. Min(I) = p
      BY <3>1 DEF Min
    <3> QED BY <3>1, <3>2 DEF SelectInSeq
  <2>3. l = SubSeq(q, 1, p - 1) \o SubSeq(q, p + 1, Len(q))
    BY <1>2, <2>2 DEF Leave, RemoveFirst, RemoveAt
  <2>4. /\ l \in Seq(S) /\ Len(l) = Len(q) - 1
        /\ \A i \in 1..(Len(q) - 1) : l[i] = IF i < p THEN q[i] ELSE q[i + 1]
    <3> DEFINE a == SubSeq(q, 1, p - 1)
               b == SubSeq(q, p + 1, Len(q))
    <3>0. \A i \in 1..Len(q) : q[i] \in S
      BY <1>0
    <3>1. /\ a \in Seq(S) /\ Len(a) = p - 1
          /\ \A i \in 1..(p - 1) : a[i] = q[i]
      <4>1. \A i \in 1..(p - 1) : q[i] \in S
        BY <1>0, <3>0
      <4> HIDE DEF a
      <4>2. /\ a \in Seq(S) /\ Len(a) = IF 1 <= p - 1 THEN p - 1 - 1 + 1 ELSE 0
            /\ \A i \in 1..(p - 1 - 1 + 1) : a[i] = q[1 + i - 1]
        BY <1>0, <4>1, SubSeqProperties DEF a
      <4> QED BY <1>0, <4>2
    <3>2. /\ b \in Seq(S) /\ Len(b) = Len(q) - p
          /\ \A i \in 1..(Len(q) - p) : b[i] = q[i + p]
      <4>1. \A i \in (p + 1)..Len(q) : q[i] \in S
        BY <1>0, <3>0
      <4> HIDE DEF b
      <4>2. /\ b \in Seq(S)
            /\ Len(b) = IF p + 1 <= Len(q) THEN Len(q) - (p + 1) + 1 ELSE 0
            /\ \A i \in 1..(Len(q) - (p + 1) + 1) : b[i] = q[p + 1 + i - 1]
        BY <1>0, <4>1, SubSeqProperties DEF b
      <4>3. Len(b) = Len(q) - p
        <5>1. Len(b) = IF p + 1 <= Len(q) THEN Len(q) - (p + 1) + 1 ELSE 0
          BY <4>2
        <5>2. Len(q) \in Nat /\ p \in Nat /\ p <= Len(q)
          BY <1>0
        <5>3. (IF p + 1 <= Len(q) THEN Len(q) - (p + 1) + 1 ELSE 0) = Len(q) - p
          BY <5>2
        <5> QED BY <5>1, <5>3
      <4>4. ASSUME NEW i \in 1..(Len(q) - p) PROVE b[i] = q[i + p]
        <5>1. i \in 1..(Len(q) - (p + 1) + 1) /\ p + 1 + i - 1 = i + p
          BY <1>0
        <5> QED BY <5>1, <4>2
      <4> QED BY <4>2, <4>3, <4>4
    <3>3. l = a \o b
      BY <2>3
    <3> HIDE DEF l, a, b
    <3>4. /\ l \in Seq(S) /\ Len(l) = Len(a) + Len(b)
          /\ \A i \in 1..(Len(a) + Len(b)) :
                 l[i] = IF i <= Len(a) THEN a[i] ELSE b[i - Len(a)]
      BY <3>1, <3>2, <3>3, ConcatProperties
    <3>5. Len(a) + Len(b) = Len(q) - 1
      BY <1>0, <3>1, <3>2
    <3>6. ASSUME NEW i \in 1..(Len(q) - 1)
          PROVE  l[i] = IF i < p THEN q[i] ELSE q[i + 1]
      <4>1. CASE i < p
        BY <4>1, <1>0, <3>1, <3>4, <3>5
      <4>2. CASE i >= p
        <5>1. l[i] = b[i - (p - 1)]
          <6>1. i \in 1..(Len(a) + Len(b)) /\ ~(i <= Len(a)) /\ i - Len(a) = i - (p - 1)
            BY <4>2, <1>0, <3>1, <3>5
          <6> QED BY <6>1, <3>4
        <5>2. i - (p - 1) \in 1..(Len(q) - p) /\ i - (p - 1) + p = i + 1
          BY <4>2, <1>0
        <5> QED BY <5>1, <5>2, <3>2, <4>2, <1>0
      <4> QED BY <4>1, <4>2, <1>0
    <3> QED BY <3>4, <3>5, <3>6
  <2>5. DOMAIN l = 1..(Len(q) - 1)
    BY <2>4, <1>0
  <2> HIDE DEF l
  <2>6. Distinct(l)
    <3> DEFINE at(i) == IF i < p THEN i ELSE i + 1
    <3>1. \A i \in 1..(Len(q) - 1) : at(i) \in 1..Len(q) /\ l[i] = q[at(i)]
      BY <2>4, <1>0
    <3>2. \A i, j \in 1..(Len(q) - 1) : at(i) = at(j) => i = j
      BY <1>0
    <3> HIDE DEF at
    <3> QED BY <3>1, <3>2, <2>5, <1>0 DEF Distinct
  <2>7. ToSet(l) = ToSet(q) \ {t}
    <3>1. ASSUME NEW x \in ToSet(l) PROVE x \in ToSet(q) /\ x # t
      <4>1. PICK i \in 1..(Len(q) - 1) : l[i] = x
        BY <2>5 DEF ToSet
      <4>2. PICK j \in 1..Len(q) : j # p /\ q[j] = x
        <5>1. CASE i < p
          BY <5>1, <4>1, <2>4, <1>0
        <5>2. CASE ~(i < p)
          BY <5>2, <4>1, <2>4, <1>0, i + 1 \in 1..Len(q)
        <5> QED BY <5>1, <5>2
      <4>3. x # t
        BY <4>2, <2>1, <1>0 DEF Distinct
      <4> QED BY <4>2, <4>3, <1>0 DEF ToSet
    <3>2. ASSUME NEW x \in ToSet(q), x # t PROVE x \in ToSet(l)
      <4>1. PICK i \in 1..Len(q) : q[i] = x
        BY <1>0 DEF ToSet
      <4>2. CASE i < p
        BY <4>1, <4>2, <2>4, <2>5, <1>0, i \in DOMAIN l, l[i] = x DEF ToSet
      <4>3. CASE i > p
        BY <4>1, <4>3, <2>4, <2>5, <1>0, i - 1 \in DOMAIN l, l[i - 1] = x DEF ToSet
      <4> QED BY <4>1, <4>2, <4>3, <3>2, <2>1
    <3> QED BY <3>1, <3>2
  <2>8. ASSUME NEW u, u # t, Owns(q, u) PROVE Owns(l, u)
    <3>1. Head(q) = q[1] /\ q[1] = u /\ p # 1
      BY <2>8, <2>1, <1>0 DEF Owns
    <3>2. l # <<>> /\ Head(l) = l[1] /\ l[1] = q[1]
      BY <3>1, <2>4, <2>1, <1>0
    <3> QED BY <3>1, <3>2 DEF Owns
  <2> QED BY <2>4, <2>6, <2>7, <2>8 DEF l
<1> QED BY <1>1, <1>2
-----------------------------------------------------------------------------
(* The mutex and the tasks that use it: where[t] is the place task t is at, In the
   places at which a guard is owned or awaited, Holds those at which it is owned. *)

\* The queue is the set of tasks that own or await the guard; only its head is inside.
Disciplined(q, T, where, In, Holds) ==
    /\ Distinct(q)
    /\ ToSet(q) = {t \in T : where[t] \in In}
    /\ \A t \in T : where[t] \in Holds => Owns(q, t)

\* A task moves without touching the queue.
LEMMA StayLemma ==
    ASSUME NEW T, NEW P, NEW In, NEW Holds, NEW q, NEW where \in [T -> P], NEW t \in T, NEW l,
           Disciplined(q, T, where, In, Holds),
           l \in In <=> where[t] \in In,
           l \in Holds => Owns(q, t)
    PROVE  Disciplined(q, T, [where EXCEPT ![t] = l], In, Holds)
<1> DEFINE w == [where EXCEPT ![t] = l]
<1>1. w[t] = l /\ \A u \in T \ {t} : w[u] = where[u]
  OBVIOUS
<1> HIDE DEF w
<1>2. {u \in T : w[u] \in In} = {u \in T : where[u] \in In}
  BY <1>1
<1>3. \A u \in T : w[u] \in Holds => Owns(q, u)
  BY <1>1 DEF Disciplined
<1>4. Disciplined(q, T, w, In, Holds)
  BY <1>2, <1>3 DEF Disciplined
<1> QED BY <1>4 DEF w

\* A task joins the queue; it is inside at once only if the mutex was free.
LEMMA JoinLemma ==
    ASSUME NEW T, NEW P, NEW In, NEW Holds, NEW q \in Seq(T), NEW where \in [T -> P],
           NEW t \in T, NEW l,
           Disciplined(q, T, where, In, Holds),
           where[t] \notin In, l \in In,
           l \in Holds => IsFree(q)
    PROVE  /\ Acquire(q, t) \in Seq(T)
           /\ Disciplined(Acquire(q, t), T, [where EXCEPT ![t] = l], In, Holds)
<1> DEFINE w == [where EXCEPT ![t] = l]
           r == Acquire(q, t)
<1>1. w[t] = l /\ \A u \in T \ {t} : w[u] = where[u]
  OBVIOUS
<1>2. Distinct(q) /\ t \notin ToSet(q)
  BY DEF Disciplined
<1>3. /\ r \in Seq(T) /\ Distinct(r) /\ ToSet(r) = ToSet(q) \cup {t}
      /\ \A u : Owns(q, u) => Owns(r, u)
      /\ IsFree(q) => Owns(r, t)
  BY <1>2, AcquireLemma
<1> HIDE DEF w, r
<1>4. {u \in T : w[u] \in In} = {u \in T : where[u] \in In} \cup {t}
  BY <1>1
<1>5. \A u \in T : w[u] \in Holds => Owns(r, u)
  BY <1>1, <1>3 DEF Disciplined
<1>6. r \in Seq(T) /\ Disciplined(r, T, w, In, Holds)
  BY <1>3, <1>4, <1>5 DEF Disciplined
<1> QED BY <1>6 DEF w, r

\* A task drops its guard or its place in the queue.
LEMMA DropLemma ==
    ASSUME NEW T, NEW P, NEW In, NEW Holds, NEW q \in Seq(T), NEW where \in [T -> P],
           NEW t \in T, NEW l,
           Disciplined(q, T, where, In, Holds),
           l \notin In, Holds \subseteq In
    PROVE  /\ Leave(q, t) \in Seq(T)
           /\ Disciplined(Leave(q, t), T, [where EXCEPT ![t] = l], In, Holds)
<1> DEFINE w == [where EXCEPT ![t] = l]
           r == Leave(q, t)
<1>1. w[t] = l /\ \A u \in T \ {t} : w[u] = where[u]
  OBVIOUS
<1>2. Distinct(q)
  BY DEF Disciplined
<1>3. /\ r \in Seq(T) /\ Distinct(r) /\ ToSet(r) = ToSet(q) \ {t}
      /\ \A u : u # t /\ Owns(q, u) => Owns(r, u)
  BY <1>2, LeaveLemma
<1> HIDE DEF w, r
<1>4. {u \in T : w[u] \in In} = {u \in T : where[u] \in In} \ {t}
  BY <1>1
<1>5. \A u \in T : w[u] \in Holds => Owns(r, u)
  BY <1>1, <1>3 DEF Disciplined
<1>6. r \in Seq(T) /\ Disciplined(r, T, w, In, Holds)
  BY <1>3, <1>4, <1>5 DEF Disciplined
<1> QED BY <1>6 DEF w, r
=============================================================================
