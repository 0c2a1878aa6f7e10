-------------------------- MODULE PacketQueueProofs --------------------------
(***************************************************************************)
(* Theorems about PacketQueue, for packets of every size, every number of  *)
(* packets and every set of callbacks that reconnect.                      *)
(***************************************************************************)
EXTENDS PacketQueue, Integers, MessageListProofs

Queues ==
  [out : 0..MaxPackets, last : 0..MaxPackets, count : 0..MaxPackets,
   current : 0..MaxPackets, next : [Ids -> 0..MaxPackets]]

\* The list k after n packets were queued: from out on it holds every packet
\* that was queued since.
WellFormed(k, n) ==
  /\ k \in Queues
  /\ \A i \in Ids : k.next[i] \in {NULL, i + 1} /\ (i >= n => k.next[i] = NULL)
  /\ k.out # NULL =>
       k.out <= n /\ k.last = n /\ \A i \in k.out..(n - 1) : k.next[i] = i + 1
  /\ k.current <= n
  /\ k.current # NULL /\ k.out # NULL => k.current < k.out
  /\ k.count = IF k.out = NULL THEN 0 ELSE n - k.out + 1

Current(k) == IF k.current = NULL THEN {} ELSE {k.current}
InList(k, n) == IF k.out = NULL THEN {} ELSE k.out..n
Held(k, n) == Current(k) \cup InList(k, n)

-----------------------------------------------------------------------------
(***************************************************************************)
(* The packets that are reached along next.                                *)
(***************************************************************************)
\* A list in which each packet comes before the next.
Forward(next) == next \in [Ids -> 0..MaxPackets] /\ \A i \in Ids : next[i] \in {NULL, i + 1}

IsEnd(next, i, e) ==
  e \in Ids /\ i <= e /\ next[e] = NULL /\ \A j \in i..(e - 1) : next[j] = j + 1

LEMMA EndExists ==
  ASSUME NEW next, Forward(next), NEW i \in Ids
  PROVE  \E e : IsEnd(next, i, e)
<1> DEFINE T == {e \in Ids : i <= e /\ next[e] = NULL}
<1>1. MaxPackets \in T /\ T \subseteq Nat
  <2>1. MaxPackets \in Nat /\ i \in Nat /\ MaxPackets \in Ids /\ i <= MaxPackets
    BY BoundsAssumption DEF Ids
  <2>2. next[MaxPackets] = NULL
    BY <2>1 DEF Forward
  <2> QED  BY <2>1, <2>2 DEF Ids
<1>2. PICK e \in T : \A j \in T : ~(<<j, e>> \in OpToRel(<, Nat))
  BY <1>1, NatLessThanWellFounded, WFMin
<1>3. ASSUME NEW j \in i..(e - 1) PROVE next[j] = j + 1
  <2>1. j \in Ids /\ i <= j /\ j < e /\ j \in Nat /\ e \in Nat
    BY <1>1, BoundsAssumption DEF Ids
  <2>2. j \notin T
    BY <1>2, <2>1 DEF OpToRel
  <2> QED  BY <2>1, <2>2 DEF Forward
<1> QED  BY <1>2, <1>3 DEF IsEnd

\* Chain is a function with the equation it is defined by.
Steps(f, next) ==
  f = [i \in 0..MaxPackets |-> IF i = NULL THEN <<>> ELSE <<i>> \o f[next[i]]]

LEMMA ChainSteps ==
  ASSUME NEW next, Forward(next)
  PROVE  \E f : Steps(f, next) /\ \A p : Chain(next, p) = f[p]
<1> DEFINE End(i) == CHOOSE e : IsEnd(next, i, e)
           Run(i) == [k \in 1..(End(i) - i + 1) |-> i + k - 1]
           g == [i \in 0..MaxPackets |-> IF i = NULL THEN <<>> ELSE Run(i)]
<1>1. \A i \in Ids : IsEnd(next, i, End(i))
  BY EndExists
<1> HIDE DEF End
<1>2. ASSUME NEW i \in Ids PROVE Run(i) = <<i>> \o g[next[i]]
  <2>1. End(i) \in Ids /\ i <= End(i) /\ next[End(i)] = NULL /\ i \in Nat /\ End(i) \in Nat
        /\ \A j \in i..(End(i) - 1) : next[j] = j + 1
    BY <1>1 DEF IsEnd, Ids
  <2>2. CASE i = End(i)
    <3>1. g[next[i]] = <<>>
      BY <2>1, <2>2, BoundsAssumption DEF NULL
    <3> HIDE DEF g
    <3> QED  BY <2>1, <2>2, <3>1
  <2>3. CASE i < End(i)
    <3>0. i \in i..(End(i) - 1) /\ i + 1 \in Ids
      BY <2>1, <2>3, BoundsAssumption DEF Ids
    <3>1. next[i] = i + 1 /\ i + 1 \in Ids
      BY <2>1, <3>0
    <3>2. IsEnd(next, i + 1, End(i))
      BY <2>1, <2>3 DEF IsEnd
    <3>3. End(i + 1) = End(i)
      <4>1. IsEnd(next, i + 1, End(i + 1))
        BY <1>1, <3>1
      <4> SUFFICES ASSUME NEW a \in Nat, NEW b \in Nat, a < b,
                          IsEnd(next, i + 1, a), IsEnd(next, i + 1, b)
                   PROVE  FALSE
        BY <3>2, <4>1 DEF IsEnd, Ids
      <4>2. next[a] = a + 1 /\ next[a] = NULL
        BY <2>1 DEF IsEnd
      <4> QED  BY <4>2 DEF NULL
    <3>4. g[next[i]] = Run(i + 1)
      BY <3>1, BoundsAssumption DEF NULL, Ids
    <3> HIDE DEF g
    <3>5. Run(i + 1) = [k \in 1..(End(i) - i) |-> i + k]
      <4>1. End(i + 1) - (i + 1) + 1 = End(i) - i
            /\ \A k \in 1..(End(i) - i) : (i + 1) + k - 1 = i + k
        BY <2>1, <3>3
      <4> QED  BY <4>1
    <3>6. Run(i) = <<i>> \o [k \in 1..(End(i) - i) |-> i + k]
      BY <2>1, <2>3
    <3> QED  BY <3>4, <3>5, <3>6
  <2>4. i = End(i) \/ i < End(i)
    BY ONLY <2>1
  <2> QED  BY ONLY <2>2, <2>3, <2>4
<1>3. Steps(g, next)
  <2>1. ASSUME NEW i \in 0..MaxPackets
        PROVE  g[i] = IF i = NULL THEN <<>> ELSE <<i>> \o g[next[i]]
    <3>1. CASE i = NULL
      BY <3>1
    <3>2. CASE i # NULL
      <4>1. i \in Ids
        BY <3>2, BoundsAssumption DEF Ids, NULL
      <4>2. g[i] = Run(i)
        BY <3>2
      <4> HIDE DEF g, Run
      <4> QED  BY <1>2, <3>2, <4>1, <4>2
    <3> QED  BY <3>1, <3>2
  <2>2. g = [i \in 0..MaxPackets |-> g[i]]
    OBVIOUS
  <2> HIDE DEF g
  <2> QED  BY <2>1, <2>2 DEF Steps
<1> HIDE DEF Run
<1> DEFINE c == CHOOSE f : Steps(f, next)
<1>4. Steps(c, next)
  BY <1>3
<1>5. \A p : Chain(next, p) = c[p]
  BY DEF Chain, Steps
<1> QED  BY <1>4, <1>5

LEMMA MembersPut ==
  ASSUME NEW i \in Nat, NEW s \in Seq(Nat)
  PROVE  <<i>> \o s \in Seq(Nat) /\ Members(<<i>> \o s) = {i} \cup Members(s)
<1> DEFINE a == <<i>>
           r == a \o s
<1>1. a \in Seq(Nat) /\ Len(a) = 1 /\ a[1] = i
  OBVIOUS
<1> HIDE DEF a
<1>2. /\ r \in Seq(Nat) /\ Len(r) = Len(a) + Len(s)
      /\ \A k \in 1..(Len(a) + Len(s)) : r[k] = IF k <= Len(a) THEN a[k] ELSE s[k - Len(a)]
  BY <1>1, ConcatProperties
<1>3. Len(s) \in Nat /\ DOMAIN s = 1..Len(s)
  OBVIOUS
<1> HIDE DEF r
<1>4. DOMAIN r = 1..(Len(s) + 1) /\ r[1] = i /\ \A k \in 1..Len(s) : r[k + 1] = s[k]
  <2>1. DOMAIN r = 1..Len(r)
    BY <1>2
  <2>2. r[1] = i
    BY <1>1, <1>2, <1>3
  <2>3. ASSUME NEW k \in 1..Len(s) PROVE r[k + 1] = s[k]
    <3>1. k + 1 \in 1..(Len(a) + Len(s)) /\ ~(k + 1 <= Len(a)) /\ (k + 1) - Len(a) = k
      BY <1>1, <1>3
    <3> QED  BY <1>2, <3>1
  <2> QED  BY <1>1, <1>2, <1>3, <2>1, <2>2, <2>3
<1>5. ASSUME NEW x \in Members(r) PROVE x \in {i} \cup Members(s)
  <2>1. PICK k \in 1..(Len(s) + 1) : x = r[k]
    BY <1>4 DEF Members
  <2>2. CASE k = 1
    BY <1>4, <2>1, <2>2
  <2>3. CASE k # 1
    <3>1. k - 1 \in 1..Len(s) /\ (k - 1) + 1 = k
      BY <1>3, <2>3
    <3>2. x = s[k - 1]
      BY <1>4, <2>1, <3>1
    <3> QED  BY <1>3, <3>1, <3>2 DEF Members
  <2> QED  BY <2>2, <2>3
<1>6. ASSUME NEW k \in 1..Len(s) PROVE s[k] \in Members(r)
  <2>1. k + 1 \in DOMAIN r
    BY <1>3, <1>4
  <2> QED  BY <1>4, <2>1 DEF Members
<1>7. i \in Members(r)
  <2>1. 1 \in DOMAIN r
    BY <1>3, <1>4
  <2> QED  BY <1>4, <2>1 DEF Members
<1>8. Members(r) = {i} \cup Members(s)
  <2>1. \A x \in Members(s) : \E k \in 1..Len(s) : x = s[k]
    BY <1>3 DEF Members
  <2> QED  BY <1>5, <1>6, <1>7, <2>1
<1> QED  BY <1>2, <1>8 DEF r, a

\* A list without gaps up to n holds all the packets up to n.
LEMMA ChainHolds ==
  ASSUME NEW next, Forward(next), NEW n \in Ids, NEW p \in 1..n,
         next[n] = NULL, \A i \in p..(n - 1) : next[i] = i + 1
  PROVE  Chain(next, p) \in Seq(Nat) /\ Members(Chain(next, p)) = p..n
<1>1. PICK f : Steps(f, next) /\ \A i : Chain(next, i) = f[i]
  BY ChainSteps
<1>2. n \in Nat /\ p \in Nat /\ p <= n /\ 1 <= p /\ n <= MaxPackets /\ MaxPackets \in Nat
  BY BoundsAssumption DEF Ids
<1>3. f[0] = <<>> /\ \A i \in p..n : f[i] = <<i>> \o f[next[i]]
  <2>1. \A i \in 0..MaxPackets : f[i] = IF i = NULL THEN <<>> ELSE <<i>> \o f[next[i]]
    BY <1>1 DEF Steps
  <2>2. 0 \in 0..MaxPackets /\ \A i \in p..n : i \in 0..MaxPackets /\ i # 0
    BY <1>2
  <2> QED  BY <2>1, <2>2 DEF NULL
<1> DEFINE Good(i) == f[i] \in Seq(Nat) /\ Members(f[i]) = i..n
           B == {k \in Nat : k <= n - p /\ ~Good(n - k)}
<1>4. ASSUME B # {} PROVE FALSE
  <2>1. B \subseteq Nat
    OBVIOUS
  <2>2. PICK k \in B : \A j \in B : ~(<<j, k>> \in OpToRel(<, Nat))
    BY <1>4, <2>1, NatLessThanWellFounded, WFMin
  <2>3. k \in Nat /\ k <= n - p /\ ~Good(n - k)
    BY <2>2
  <2> HIDE DEF Good
  <2>4. CASE k = 0
    <3>1. Members(<<>>) = {} /\ <<>> \in Seq(Nat)
      BY DEF Members
    <3>2. f[n] = <<n>> \o <<>>
      <4>1. n \in p..n /\ next[n] = 0
        BY <1>2 DEF NULL
      <4> QED  BY <1>3, <4>1
    <3>3. <<n>> \o <<>> \in Seq(Nat) /\ Members(<<n>> \o <<>>) = {n} \cup Members(<<>>)
      BY <1>2, <3>1, MembersPut
    <3>4. {n} \cup {} = n..n
      BY <1>2
    <3>5. Good(n)
      BY <3>1, <3>2, <3>3, <3>4 DEF Good
    <3> QED  BY <1>2, <2>3, <2>4, <3>5
  <2>5. CASE k # 0
    <3> DEFINE i == n - k
    <3>1. i \in p..(n - 1) /\ i \in p..n /\ i + 1 = n - (k - 1) /\ k - 1 \in Nat
          /\ k - 1 <= n - p /\ k - 1 < k /\ i \in Nat
      BY <1>2, <2>3, <2>5
    <3>2. k - 1 \notin B
      BY <2>2, <2>3, <3>1 DEF OpToRel
    <3>3. Good(i + 1)
      BY <3>1, <3>2
    <3>4. f[i] = <<i>> \o f[i + 1]
      BY <1>3, <3>1
    <3>5. f[i] \in Seq(Nat) /\ Members(f[i]) = {i} \cup ((i + 1)..n)
      BY <3>1, <3>3, <3>4, MembersPut DEF Good
    <3>6. {i} \cup ((i + 1)..n) = i..n
      BY ONLY <1>2, <3>1
    <3>7. Good(i)
      BY <3>5, <3>6 DEF Good
    <3> QED  BY <2>3, <3>7
  <2> QED  BY <2>4, <2>5
<1>5. n - p \in Nat /\ n - (n - p) = p
  BY <1>2
<1>6. Good(p)
  BY <1>4, <1>5
<1> QED  BY <1>1, <1>6

-----------------------------------------------------------------------------
(***************************************************************************)
(* What the operations do to a list.                                       *)
(***************************************************************************)
\* What current_out_packet and the list reach.
LEMMA OwnedIs ==
  ASSUME NEW n \in 0..MaxPackets, WellFormed(q, n)
  PROVE  Members(Owned) = Held(q, n)
<1> DEFINE w == Chain(q.next, q.out)
<1>1. Forward(q.next) /\ q.out \in 0..MaxPackets /\ q.current \in 0..MaxPackets
      /\ MaxPackets \in Nat
  BY BoundsAssumption DEF WellFormed, Queues, Forward
<1>2. w \in Seq(Nat) /\ Members(w) = InList(q, n)
  <2>1. CASE q.out = NULL
    <3>1. PICK f : Steps(f, q.next) /\ \A i : Chain(q.next, i) = f[i]
      BY <1>1, ChainSteps
    <3>2. w = <<>>
      BY <1>1, <2>1, <3>1 DEF Steps
    <3> QED  BY <2>1, <3>2 DEF Members, InList
  <2>2. CASE q.out # NULL
    <3>1. n \in Ids /\ q.out \in 1..n /\ q.next[n] = NULL
          /\ \A i \in q.out..(n - 1) : q.next[i] = i + 1
      BY <1>1, <2>2 DEF WellFormed, Ids, NULL
    <3> QED  BY <1>1, <2>2, <3>1, ChainHolds DEF InList
  <2> QED  BY <2>1, <2>2
<1> HIDE DEF w
<1>3. Owned = (IF q.current = NULL THEN <<>> ELSE <<q.current>>) \o w
  BY DEF Owned, Waiting, w
<1>4. CASE q.current = NULL
  <2>1. Owned = w
    BY <1>2, <1>3, <1>4
  <2> QED  BY <1>2, <1>4, <2>1 DEF Held, Current
<1>5. CASE q.current # NULL
  <2>1. q.current \in Nat
    BY <1>1
  <2> QED  BY <1>2, <1>3, <1>5, <2>1, MembersPut DEF Held, Current
<1> QED  BY <1>4, <1>5

LEMMA EnqueueKeeps ==
  ASSUME NEW n \in Nat, n < MaxPackets, NEW k, WellFormed(k, n)
  PROVE  /\ WellFormed(Enqueue(k, n + 1), n + 1)
         /\ Held(Enqueue(k, n + 1), n + 1) = Held(k, n) \cup {n + 1}
         /\ Enqueue(k, n + 1).current = k.current
         /\ n + 1 \in InList(Enqueue(k, n + 1), n + 1)
<1> DEFINE m == Enqueue(k, n + 1)
           next == IF k.out # NULL THEN [k.next EXCEPT ![k.last] = n + 1] ELSE k.next
<1>1. /\ k = [out |-> k.out, last |-> k.last, count |-> k.count, current |-> k.current,
              next |-> k.next]
      /\ k.out \in 0..MaxPackets /\ k.last \in 0..MaxPackets /\ k.count \in 0..MaxPackets
      /\ k.current \in 0..MaxPackets /\ k.next \in [Ids -> 0..MaxPackets]
      /\ MaxPackets \in Nat
  BY BoundsAssumption DEF WellFormed, Queues
<1>2. m = [out |-> IF k.out = NULL THEN n + 1 ELSE k.out, last |-> n + 1,
           count |-> k.count + 1, current |-> k.current, next |-> next]
  <2>1. m = [k EXCEPT !.next = next, !.out = IF k.out = NULL THEN n + 1 ELSE k.out,
                      !.last = n + 1, !.count = k.count + 1]
    BY DEF Enqueue
  <2>2. k \in Queues
    BY DEF WellFormed
  <2> HIDE DEF m, next
  <2> QED  BY <2>1, <2>2 DEF Queues
<1> HIDE DEF m
<1>3. /\ m.out = (IF k.out = NULL THEN n + 1 ELSE k.out) /\ m.last = n + 1
      /\ m.count = k.count + 1 /\ m.current = k.current /\ m.next = next
  BY <1>2
<1>4. /\ next \in [Ids -> 0..MaxPackets]
      /\ \A i \in Ids : next[i] = IF k.out # NULL /\ i = n THEN n + 1 ELSE k.next[i]
  <2>1. n + 1 \in 0..MaxPackets
    BY <1>1
  <2>2. k.out # NULL => k.last = n /\ n \in Ids
    BY <1>1 DEF WellFormed, Ids, NULL
  <2> QED  BY <1>1, <2>1, <2>2
<1> HIDE DEF next
<1>5. \A i \in Ids : next[i] \in {NULL, i + 1} /\ (i >= n + 1 => next[i] = NULL)
  <2>1. \A i \in Ids : i \in Nat
    BY DEF Ids
  <2> QED  BY <1>4, <2>1 DEF WellFormed
<1>6. m.out <= n + 1 /\ \A i \in m.out..n : next[i] = i + 1
  <2>1. CASE k.out = NULL
    <3>1. m.out = n + 1 /\ m.out..n = {}
      BY <1>3, <2>1
    <3> QED  BY <3>1
  <2>2. CASE k.out # NULL
    <3>1. ASSUME NEW i \in k.out..n PROVE next[i] = i + 1
      <4>1. i \in Ids /\ i \in Nat
        BY <1>1, <2>2 DEF Ids, NULL
      <4>2. CASE i = n
        BY <1>4, <2>2, <4>1, <4>2
      <4>3. CASE i # n
        <5>1. i \in k.out..(n - 1)
          BY <1>1, <4>1, <4>3
        <5> QED  BY <1>4, <2>2, <4>1, <4>3, <5>1 DEF WellFormed
      <4> QED  BY <4>2, <4>3
    <3>2. m.out = k.out /\ k.out <= n
      BY <1>3, <2>2 DEF WellFormed
    <3> QED  BY <1>1, <3>1, <3>2
  <2> QED  BY <2>1, <2>2
<1>7. m.count = n + 1 - m.out + 1 /\ m.out # NULL /\ m.out \in 0..MaxPackets
      /\ m.count \in 0..MaxPackets
  <2>1. CASE k.out = NULL
    BY <1>1, <1>3, <2>1 DEF WellFormed, NULL
  <2>2. CASE k.out # NULL
    BY <1>1, <1>3, <2>2 DEF WellFormed, NULL
  <2> QED  BY <2>1, <2>2
<1>8. m \in Queues
  <2>1. m.last \in 0..MaxPackets
    BY <1>1, <1>3
  <2> QED  BY <1>1, <1>2, <1>3, <1>4, <1>7, <2>1 DEF Queues
<1>9. m.current <= n + 1 /\ (m.current # NULL => m.current < m.out)
  <2>1. k.current <= n
    BY DEF WellFormed
  <2>2. CASE k.out = NULL
    BY <1>1, <1>3, <2>1, <2>2
  <2>3. CASE k.out # NULL
    BY <1>1, <1>3, <2>1, <2>3 DEF WellFormed
  <2> QED  BY <2>2, <2>3
<1>10. WellFormed(m, n + 1)
  <2>1. (n + 1) - 1 = n
    OBVIOUS
  <2> QED  BY <1>3, <1>5, <1>6, <1>7, <1>8, <1>9, <2>1 DEF WellFormed
<1>11. InList(m, n + 1) = InList(k, n) \cup {n + 1}
  <2>1. CASE k.out = NULL
    BY <1>3, <1>7, <2>1 DEF InList
  <2>2. CASE k.out # NULL
    <3>1. k.out <= n
      BY <2>2 DEF WellFormed
    <3> QED  BY <1>1, <1>3, <1>7, <2>2, <3>1 DEF InList
  <2> QED  BY <2>1, <2>2
<1>12. Current(m) = Current(k)
  BY <1>3 DEF Current
<1> QED  BY <1>3, <1>10, <1>11, <1>12 DEF Held, m

LEMMA AdvanceKeeps ==
  ASSUME NEW n \in 0..MaxPackets, NEW k, WellFormed(k, n)
  PROVE  /\ WellFormed(Advance(k), n)
         /\ Held(Advance(k), n) = InList(k, n)
         /\ Advance(k).current = k.out
<1> DEFINE m == Advance(k)
           rest == k.next[k.out]
<1>1. /\ k = [out |-> k.out, last |-> k.last, count |-> k.count, current |-> k.current,
              next |-> k.next]
      /\ k.out \in 0..MaxPackets /\ k.last \in 0..MaxPackets /\ k.count \in 0..MaxPackets
      /\ k.current \in 0..MaxPackets /\ k.next \in [Ids -> 0..MaxPackets]
      /\ MaxPackets \in Nat /\ n \in Nat
  BY BoundsAssumption DEF WellFormed, Queues
<1>2. CASE k.out = NULL
  <2>1. m = [out |-> k.out, last |-> k.last, count |-> k.count, current |-> NULL,
             next |-> k.next]
    BY <1>1, <1>2 DEF Advance
  <2> HIDE DEF m
  <2>2. /\ m.out = NULL /\ m.last = k.last /\ m.count = k.count /\ m.current = NULL
        /\ m.next = k.next
    BY <1>2, <2>1
  <2>3. m \in Queues
    BY <1>1, <2>1 DEF Queues, NULL
  <2>4. WellFormed(m, n)
    BY <1>1, <1>2, <2>2, <2>3 DEF WellFormed, NULL
  <2>5. Held(m, n) = InList(k, n)
    BY <1>2, <2>2 DEF Held, InList, Current
  <2> QED  BY <1>2, <2>2, <2>4, <2>5 DEF m
<1>3. CASE k.out # NULL
  <2>1. m = [out |-> rest, last |-> IF rest = NULL THEN NULL ELSE k.last,
             count |-> k.count - 1, current |-> k.out, next |-> k.next]
    BY <1>1, <1>3 DEF Advance
  <2> HIDE DEF m
  <2>2. /\ m.out = rest /\ m.last = (IF rest = NULL THEN NULL ELSE k.last)
        /\ m.count = k.count - 1 /\ m.current = k.out /\ m.next = k.next
    BY <2>1
  <2>3. /\ k.out \in Ids /\ k.out \in Nat /\ k.out <= n /\ k.last = n
        /\ rest \in {NULL, k.out + 1} /\ (k.out = n <=> rest = NULL)
        /\ k.count = n - k.out + 1
    <3>1. k.out \in Ids /\ k.out \in Nat /\ k.out <= n /\ k.last = n /\ k.count = n - k.out + 1
      BY <1>1, <1>3 DEF WellFormed, Ids, NULL
    <3>2. k.out # n => k.out \in k.out..(n - 1)
      BY <1>1, <3>1
    <3>3. k.out # n => rest = k.out + 1
      BY <1>3, <3>2 DEF WellFormed
    <3>4. k.out = n => rest = NULL
      BY <1>1, <3>1 DEF WellFormed
    <3> QED  BY <3>1, <3>3, <3>4 DEF NULL
  <2> HIDE DEF rest
  <2>4. rest \in 0..MaxPackets /\ k.count - 1 \in 0..MaxPackets
        /\ (IF rest = NULL THEN NULL ELSE k.last) \in 0..MaxPackets
    BY <1>1, <2>3 DEF NULL
  <2>5. m \in Queues
    BY <1>1, <2>1, <2>4 DEF Queues
  <2>6. m.out # NULL => m.out <= n /\ m.last = n /\ m.out = k.out + 1
                        /\ m.count = n - m.out + 1
    BY <1>1, <2>2, <2>3 DEF NULL
  <2>7. m.out # NULL => \A i \in m.out..(n - 1) : m.next[i] = i + 1
    <3>1. ASSUME m.out # NULL, NEW i \in m.out..(n - 1) PROVE i \in k.out..(n - 1)
      BY <1>1, <2>3, <2>6, <3>1
    <3>2. \A i \in k.out..(n - 1) : k.next[i] = i + 1
      BY <1>3 DEF WellFormed
    <3> QED  BY <2>2, <3>1, <3>2
  <2>8. m.out = NULL => m.count = 0
    BY <1>1, <2>2, <2>3
  <2>9. m.current <= n /\ (m.out # NULL => m.current < m.out)
    BY <1>1, <2>2, <2>3, <2>6
  <2>10. \A i \in Ids : m.next[i] \in {NULL, i + 1} /\ (i >= n => m.next[i] = NULL)
    BY <2>2 DEF WellFormed
  <2>11. WellFormed(m, n)
    BY <2>5, <2>6, <2>7, <2>8, <2>9, <2>10 DEF WellFormed
  <2>12. Held(m, n) = InList(k, n)
    <3>1. CASE rest = NULL
      <4>1. k.out..n = {k.out}
        BY <2>3, <3>1
      <4> QED  BY <1>3, <2>2, <3>1, <4>1 DEF Held, InList, Current
    <3>2. CASE rest # NULL
      <4>1. k.out..n = {k.out} \cup (rest..n)
        BY <1>1, <2>3, <3>2
      <4> QED  BY <1>3, <2>2, <3>2, <4>1 DEF Held, InList, Current
    <3> QED  BY <3>1, <3>2
  <2> QED  BY <2>2, <2>11, <2>12 DEF m
<1> QED  BY <1>2, <1>3

LEMMA TakeKeeps ==
  ASSUME NEW n \in 0..MaxPackets, NEW k, WellFormed(k, n)
  PROVE  /\ WellFormed(Take(k), n)
         /\ Held(Take(k), n) = Held(k, n)
<1>1. CASE k.current = NULL
  BY <1>1, AdvanceKeeps DEF Take, Held, Current
<1>2. CASE k.current # NULL
  BY <1>2 DEF Take
<1> QED  BY <1>1, <1>2

LEMMA CleanupKeeps ==
  ASSUME NEW n \in 0..MaxPackets, NEW k, WellFormed(k, n)
  PROVE  /\ WellFormed(CleanupAll(k), n)
         /\ Held(CleanupAll(k), n) = {} /\ CleanupAll(k).current = NULL
<1> DEFINE m == CleanupAll(k)
<1>1. /\ k = [out |-> k.out, last |-> k.last, count |-> k.count, current |-> k.current,
              next |-> k.next]
      /\ k.last \in 0..MaxPackets /\ k.next \in [Ids -> 0..MaxPackets]
      /\ MaxPackets \in Nat /\ n \in Nat
  BY BoundsAssumption DEF WellFormed, Queues
<1>2. m = [out |-> NULL, last |-> k.last, count |-> 0, current |-> NULL, next |-> k.next]
  <2>1. k \in Queues
    BY DEF WellFormed
  <2>2. m = [k EXCEPT !.current = NULL, !.out = NULL, !.count = 0]
    BY DEF CleanupAll
  <2> HIDE DEF m
  <2> QED  BY <2>1, <2>2 DEF Queues
<1> HIDE DEF m
<1>3. m.out = NULL /\ m.count = 0 /\ m.current = NULL /\ m.next = k.next
  BY <1>2
<1>4. m \in Queues
  BY <1>1, <1>2 DEF Queues, NULL
<1>5. WellFormed(m, n)
  BY <1>1, <1>3, <1>4 DEF WellFormed, NULL
<1> QED  BY <1>3, <1>5 DEF Held, InList, Current, m

-----------------------------------------------------------------------------
(***************************************************************************)
(* The invariant.                                                          *)
(***************************************************************************)
Queued == Len(kind)

\* What is held is not freed; packet__write holds one packet more in a callback,
\* which is out of the list, and after a DISCONNECT not the current one either.
Sound ==
  /\ kind \in Seq(Commands \cup {"CONNECT"}) /\ Queued <= MaxPackets
  /\ left \in [Ids -> 0..Size]
  /\ pc \in {"idle", "write"} \cup Callbacks
  /\ sock \in {"none", "open", "broken"}
  /\ WellFormed(q, Queued)
  /\ freed \subseteq 1..Queued
  /\ Held(q, Queued) \cap freed = {}
  /\ pc \in Callbacks => packet \in 1..Queued /\ packet \notin InList(q, Queued)
  /\ pc = "on_disconnect" => packet \notin Held(q, Queued)

\* A packet that was reported is written and freed, or on_publish still runs.
Reported ==
  /\ told \in Seq(Ids)
  /\ \A i, j \in 1..Len(told) : told[i] = told[j] => i = j
  /\ \A i \in 1..Len(told) :
       /\ told[i] \in 1..Queued /\ left[told[i]] = 0
       /\ told[i] \in freed \/ (pc = "on_publish" /\ told[i] = packet)

\* Nothing is freed twice, or forgotten.
Exact ==
  /\ pc = "on_publish" => packet = q.current
  /\ pc \in Callbacks => packet \notin freed
  /\ \A p \in 1..Queued :
       p \in freed \cup Held(q, Queued) \/ (pc = "on_disconnect" /\ p = packet)

IInv == Sound /\ Reported /\ ("on_publish" \notin ReconnectsIn => Exact)

LEMMA InitIInv == Init => IInv
<1> SUFFICES ASSUME Init PROVE IInv
  OBVIOUS
<1>1. q = [out |-> 0, last |-> 0, count |-> 0, current |-> 0, next |-> [p \in Ids |-> 0]]
  BY DEF Init, NULL
<1>2. q.out = 0 /\ q.current = 0 /\ q.count = 0 /\ q.next = [p \in Ids |-> 0]
  BY <1>1
<1>3. kind = <<>> /\ Len(kind) = 0 /\ kind \in Seq(Commands \cup {"CONNECT"})
      /\ told = <<>> /\ Len(told) = 0 /\ told \in Seq(Ids)
      /\ MaxPackets \in Nat /\ 1..0 = {}
  BY BoundsAssumption DEF Init
<1>4. q \in Queues
  <2>1. [p \in Ids |-> 0] \in [Ids -> 0..MaxPackets] /\ 0 \in 0..MaxPackets
    BY <1>3
  <2> QED  BY <1>1, <2>1 DEF Queues
<1>5. WellFormed(q, 0)
  BY <1>2, <1>3, <1>4 DEF WellFormed, NULL
<1>6. Held(q, 0) = {}
  BY <1>2 DEF Held, Current, InList, NULL
<1>7. left \in [Ids -> 0..Size]
  <2>1. 0 \in 0..Size
    BY SizeAssumption
  <2> QED  BY <2>1 DEF Init
<1>8. Sound
  BY <1>3, <1>5, <1>6, <1>7 DEF Init, Sound, Queued, Callbacks
<1>9. Reported /\ Exact
  BY <1>3 DEF Init, Reported, Exact, Queued, Callbacks
<1> QED  BY <1>8, <1>9 DEF IInv

\* The facts about types that the steps need.
LEMMA Numbers ==
  ASSUME Sound
  PROVE  /\ Queued \in Nat /\ Queued \in 0..MaxPackets /\ MaxPackets \in Nat
         /\ q.out \in 0..MaxPackets /\ q.current \in 0..MaxPackets
         /\ q.current <= Queued
         /\ q.current # NULL =>
              /\ q.current \in Held(q, Queued) /\ q.current \in 1..Queued
              /\ q.current \in Ids /\ q.current \notin InList(q, Queued)
         /\ Held(q, Queued) = Current(q) \cup InList(q, Queued)
         /\ Held(q, Queued) \subseteq 1..Queued
<1>1. Queued \in Nat /\ Queued \in 0..MaxPackets /\ MaxPackets \in Nat
  BY BoundsAssumption DEF Sound, Queued
<1>2. q.out \in 0..MaxPackets /\ q.current \in 0..MaxPackets /\ q.current <= Queued
  BY DEF Sound, WellFormed, Queues
<1>3. q.current # NULL => q.current \in 1..Queued /\ q.current \in Ids
  BY <1>1, <1>2 DEF NULL, Ids
<1>4. q.current # NULL => q.current \notin InList(q, Queued)
  BY <1>1, <1>2 DEF Sound, WellFormed, InList
<1>5. q.current # NULL => q.current \in Held(q, Queued)
  BY DEF Held, Current
<1>6. Held(q, Queued) \subseteq 1..Queued
  BY <1>1, <1>2, <1>3 DEF Held, Current, InList, NULL
<1> QED  BY <1>1, <1>2, <1>3, <1>4, <1>5, <1>6 DEF Held

-----------------------------------------------------------------------------
(***************************************************************************)
(* The steps.                                                              *)
(***************************************************************************)
\* A packet joins the list k, which is q or, after packet__cleanup_all, empty.
LEMMA QueueStep ==
  ASSUME IInv, NEW command \in Commands \cup {"CONNECT"}, NewPacket(command),
         NEW k, WellFormed(k, Queued), Held(k, Queued) \subseteq Held(q, Queued),
         InList(k, Queued) \subseteq InList(q, Queued),
         freed' = freed \cup (Held(q, Queued) \ Held(k, Queued)),
         k.current = q.current \/ pc \in {"idle"} \cup ReconnectsIn,
         \/ q' = Enqueue(k, Queued + 1) /\ pc' = pc /\ pc # "write"
         \/ q' = Take(Enqueue(k, Queued + 1)) /\ pc = "idle" /\ pc' = "write",
         sock' \in {"none", "open", "broken"}, UNCHANGED <<packet, told>>
  PROVE  IInv'
<1> DEFINE n == Queued
           e == Enqueue(k, n + 1)
<1>1. /\ n \in Nat /\ n < MaxPackets /\ MaxPackets \in Nat /\ n + 1 \in 0..MaxPackets
      /\ kind' \in Seq(Commands \cup {"CONNECT"}) /\ Queued' = n + 1
      /\ n + 1 \in Ids
  <2>1. n \in Nat /\ MaxPackets \in Nat
    BY Numbers DEF IInv
  <2>2. kind \in Seq(Commands \cup {"CONNECT"}) /\ n < MaxPackets
    BY DEF IInv, Sound, NewPacket, Queued
  <2>3. kind' \in Seq(Commands \cup {"CONNECT"}) /\ Len(kind') = n + 1
    BY <2>2, AppendFacts DEF NewPacket, Queued
  <2> QED  BY <2>1, <2>2, <2>3 DEF Queued, Ids
<1>2. left' \in [Ids -> 0..Size] /\ \A p \in 1..n : left'[p] = left[p]
  <2>1. left' = [left EXCEPT ![n + 1] = Size] /\ left \in [Ids -> 0..Size] /\ Size \in 0..Size
    BY SizeAssumption DEF NewPacket, IInv, Sound, Queued
  <2>2. \A p \in 1..n : p \in Ids /\ p # n + 1
    BY <1>1 DEF Ids
  <2> HIDE DEF n
  <2> QED  BY <2>1, <2>2
<1>3. /\ WellFormed(e, n + 1) /\ Held(e, n + 1) = Held(k, n) \cup {n + 1}
      /\ e.current = k.current
  BY <1>1, EnqueueKeeps
<1>4. /\ WellFormed(Take(e), n + 1) /\ Held(Take(e), n + 1) = Held(e, n + 1)
  BY <1>1, <1>3, TakeKeeps
<1>5. WellFormed(q', n + 1) /\ Held(q', n + 1) = Held(k, n) \cup {n + 1}
  BY <1>3, <1>4
<1>6. InList(e, n + 1) \subseteq InList(k, n) \cup {n + 1}
  <2>1. ASSUME k.current # NULL PROVE k.current \notin InList(e, n + 1)
    <3>1. e.current # NULL /\ e.out \in 0..MaxPackets /\ e.current \in 0..MaxPackets
          /\ (e.out # NULL => e.current < e.out)
      BY <1>3, <2>1 DEF WellFormed, Queues
    <3> HIDE DEF e
    <3> QED  BY <1>1, <1>3, <3>1 DEF InList
  <2> QED  BY <1>3, <2>1 DEF Held, Current
<1>7. freed \subseteq 1..n /\ Held(q, n) \subseteq 1..n /\ Held(q, n) \cap freed = {}
  BY Numbers DEF IInv, Sound
<1>8. \A p \in 1..n : p \in 1..(n + 1) /\ p # n + 1
  BY <1>1
<1>9. freed' \subseteq 1..n /\ Held(q', n + 1) \cap freed' = {}
  BY <1>5, <1>7, <1>8
<1> HIDE DEF n, e
<1>10. pc' \in Callbacks =>
         /\ pc' = pc /\ q' = e /\ packet \in 1..n /\ packet \in 1..(n + 1)
         /\ packet \notin InList(q', n + 1)
  <2>1. pc' \in Callbacks => pc' = pc /\ q' = e
    BY DEF Callbacks, e, n
  <2>2. pc \in Callbacks => packet \in 1..n /\ packet \notin InList(q, n)
    BY DEF IInv, Sound, n
  <2>3. InList(k, n) \subseteq InList(q, n)
    BY DEF n
  <2> QED  BY <1>6, <1>8, <2>1, <2>2, <2>3
<1>11. pc' = "on_disconnect" => packet \notin Held(q', n + 1)
  <2>1. pc' = "on_disconnect" => packet \in 1..n /\ packet \notin Held(q, n)
    BY <1>10 DEF IInv, Sound, Callbacks, n
  <2>2. Held(k, n) \subseteq Held(q, n)
    BY DEF n
  <2> QED  BY <1>5, <1>8, <2>1, <2>2
<1>12. Sound'
  <2>1. pc' \in {"idle", "write"} \cup Callbacks
    BY DEF IInv, Sound
  <2>2. freed' \subseteq 1..(n + 1)
    BY <1>8, <1>9
  <2>3. n + 1 <= MaxPackets
    BY <1>1
  <2> QED  BY <1>1, <1>2, <1>5, <1>9, <1>10, <1>11, <2>1, <2>2, <2>3 DEF Sound
<1>13. Reported'
  <2>1. \A i \in 1..Len(told) :
          /\ told[i] \in 1..(n + 1) /\ left'[told[i]] = 0
          /\ told[i] \in freed' \/ (pc' = "on_publish" /\ told[i] = packet)
    <3>1. \A i \in 1..Len(told) :
            /\ told[i] \in 1..n /\ left[told[i]] = 0
            /\ told[i] \in freed \/ (pc = "on_publish" /\ told[i] = packet)
      BY DEF IInv, Reported, n
    <3>2. pc = "on_publish" => pc' = "on_publish"
      OBVIOUS
    <3> QED  BY <1>2, <1>8, <3>1, <3>2
  <2> QED  BY <1>1, <2>1 DEF IInv, Reported
<1>14. ASSUME "on_publish" \notin ReconnectsIn PROVE Exact'
  <2>1. Exact
    BY <1>14 DEF IInv
  <2>2. ASSUME pc' = "on_publish" PROVE packet = q'.current
    <3>1. pc = "on_publish" /\ q' = e
      BY <1>10, <2>2 DEF Callbacks
    <3> QED  BY <1>3, <1>14, <2>1, <3>1 DEF Exact
  <2>3. ASSUME pc' \in Callbacks PROVE packet \notin freed'
    <3>1. pc' = pc /\ packet \notin freed
      BY <1>10, <2>1, <2>3 DEF Exact
    <3>2. CASE pc = "on_disconnect"
      BY <3>1, <3>2 DEF IInv, Sound
    <3>3. CASE pc = "on_publish"
      <4>1. packet = q.current /\ k.current = q.current /\ packet \in 1..n
        BY <1>14, <2>1, <1>10, <2>3, <3>3 DEF Exact
      <4>2. packet \in Held(k, n)
        <5>1. q.current # NULL
          BY <4>1, <1>1 DEF NULL
        <5> QED  BY <4>1, <5>1 DEF Held, Current
      <4> QED  BY <3>1, <4>2 DEF n
    <3> QED  BY <2>3, <3>1, <3>2, <3>3 DEF Callbacks
  <2>4. ASSUME NEW p \in 1..(n + 1)
        PROVE  p \in freed' \cup Held(q', n + 1) \/ (pc' = "on_disconnect" /\ p = packet)
    <3>1. CASE p = n + 1
      BY <1>5, <3>1
    <3>2. CASE p \in 1..n
      <4>1. p \in freed \cup Held(q, n) \/ (pc = "on_disconnect" /\ p = packet)
        BY <2>1, <3>2 DEF Exact, n
      <4>2. pc = "on_disconnect" => pc' = "on_disconnect"
        OBVIOUS
      <4>3. Held(k, n) \subseteq Held(q', n + 1)
        BY <1>5
      <4> QED  BY <4>1, <4>2, <4>3 DEF n
    <3> QED  BY <1>1, <3>1, <3>2
  <2> QED  BY <1>1, <2>2, <2>3, <2>4 DEF Exact
<1> QED  BY <1>12, <1>13, <1>14 DEF IInv

LEMMA CallsStep ==
  ASSUME IInv, Calls
  PROVE  IInv'
<1>1. WellFormed(q, Queued) /\ Queued \in 0..MaxPackets
      /\ sock \in {"none", "open", "broken"}
  BY Numbers DEF IInv, Sound
<1>2. freed \cup (Held(q, Queued) \ Held(q, Queued)) = freed
  OBVIOUS
<1>3. ASSUME NEW command \in Commands, PacketQueue(command) PROVE IInv'
  <2>1. /\ NewPacket(command) /\ pc # "write"
        /\ \/ pc = "idle" /\ pc' = "write" /\ q' = Take(Enqueue(q, Queued + 1))
           \/ pc # "idle" /\ pc' = pc /\ q' = Enqueue(q, Queued + 1)
        /\ UNCHANGED <<freed, packet, sock, told>>
    BY <1>3 DEF PacketQueue, AfterQueue, Queued
  <2> QED  BY <1>1, <1>2, <2>1, QueueStep
<1>4. ASSUME NEW command \in Commands, PacketQueueInOtherCallback(command) PROVE IInv'
  <2>1. /\ NewPacket(command) /\ pc = "idle" /\ pc' = pc /\ q' = Enqueue(q, Queued + 1)
        /\ UNCHANGED <<freed, packet, sock, told>>
    BY <1>4 DEF PacketQueueInOtherCallback, Queued
  <2> QED  BY <1>1, <1>2, <2>1, QueueStep
<1>5. ASSUME Reconnect PROVE IInv'
  <2> DEFINE k == CleanupAll(q)
  <2>1. WellFormed(k, Queued) /\ Held(k, Queued) = {}
    BY <1>1, CleanupKeeps
  <2>2. InList(k, Queued) = {}
    BY <2>1 DEF Held
  <2>3. CleanupFrees = Held(q, Queued)
    BY <1>1, OwnedIs DEF CleanupFrees
  <2> HIDE DEF k
  <2>4. /\ NewPacket("CONNECT") /\ pc \in {"idle"} \cup ReconnectsIn
        /\ freed' = freed \cup Held(q, Queued) /\ sock' = "open"
        /\ \/ pc = "idle" /\ pc' = "write" /\ q' = Take(Enqueue(k, Queued + 1))
           \/ pc # "idle" /\ pc' = pc /\ q' = Enqueue(k, Queued + 1)
        /\ UNCHANGED <<packet, told>>
    BY <1>5, <2>3 DEF Reconnect, AfterQueue, Queued, k
  <2>5. freed' = freed \cup (Held(q, Queued) \ Held(k, Queued))
    BY <2>1, <2>4
  <2>6. pc # "write"
    BY <2>4, ReconnectsAssumption DEF Callbacks
  <2> QED  BY <2>1, <2>2, <2>4, <2>5, <2>6, QueueStep
<1> QED  BY <1>3, <1>4, <1>5 DEF Calls

\* Steps of packet__write and the loop: the packets that were held are held, or
\* freed, or the one that a callback is called for.
LEMMA WriteStep ==
  ASSUME IInv, UNCHANGED kind, sock' \in {"none", "open", "broken"},
         pc' \in {"idle", "write"} \cup Callbacks,
         left' \in [Ids -> 0..Size],
         freed' \subseteq 1..Queued, freed \subseteq freed',
         WellFormed(q', Queued), InList(q', Queued) \subseteq InList(q, Queued),
         Held(q', Queued) \cap freed' = {},
         Held(q, Queued) \subseteq
           freed' \cup Held(q', Queued) \cup (IF pc' = "on_disconnect" THEN {packet'} ELSE {}),
         pc' \in Callbacks =>
           packet' = q.current /\ q.current # NULL /\ packet' \notin freed',
         pc' = "on_disconnect" => packet' \notin Held(q', Queued),
         pc' = "on_publish" => q' = q,
         pc = "on_disconnect" => packet \in freed',
         Reported'
  PROVE  IInv'
<1>1. Queued' = Queued
  BY DEF Queued
<1>2. Sound
  BY DEF IInv
<1>3. pc' \in Callbacks => packet' \in 1..Queued /\ packet' \notin InList(q', Queued)
  BY <1>2, Numbers
<1>4. Sound'
  BY <1>1, <1>2, <1>3 DEF Sound
<1>5. ASSUME "on_publish" \notin ReconnectsIn PROVE Exact'
  <2>1. Exact
    BY <1>5 DEF IInv
  <2>2. pc' = "on_publish" => packet' = q'.current
    BY DEF Callbacks
  <2>3. ASSUME NEW p \in 1..Queued
        PROVE  p \in freed' \cup Held(q', Queued) \/ (pc' = "on_disconnect" /\ p = packet')
    <3>1. p \in freed \cup Held(q, Queued) \/ (pc = "on_disconnect" /\ p = packet)
      BY <2>1, <2>3 DEF Exact
    <3> QED  BY <3>1
  <2> QED  BY <1>1, <2>2, <2>3 DEF Exact
<1> QED  BY <1>4, <1>5 DEF IInv

\* The reports are kept by a step that reports nothing.
LEMMA ReportsKept ==
  ASSUME IInv, UNCHANGED <<kind, told>>, freed \subseteq freed',
         \A p \in freed : left'[p] = left[p],
         pc = "on_publish" =>
           left' = left /\ (packet \in freed' \/ (pc' = pc /\ packet' = packet))
  PROVE  Reported'
<1>1. Queued' = Queued
  BY DEF Queued
<1>2. \A i \in 1..Len(told) :
        /\ told[i] \in 1..Queued /\ left[told[i]] = 0
        /\ told[i] \in freed \/ (pc = "on_publish" /\ told[i] = packet)
  BY DEF IInv, Reported
<1>3. \A i \in 1..Len(told) :
        /\ left'[told[i]] = 0
        /\ told[i] \in freed' \/ (pc' = "on_publish" /\ told[i] = packet')
  BY <1>2
<1> QED  BY <1>1, <1>2, <1>3 DEF IInv, Reported

LEMMA AdvanceStep ==
  ASSUME Sound
  PROVE  /\ WellFormed(Advance(q), Queued)
         /\ Held(Advance(q), Queued) = InList(q, Queued)
         /\ InList(Advance(q), Queued) \subseteq InList(q, Queued)
<1>1. WellFormed(q, Queued) /\ Queued \in 0..MaxPackets
  BY Numbers DEF Sound
<1>2. Held(Advance(q), Queued) = InList(q, Queued) /\ WellFormed(Advance(q), Queued)
  BY <1>1, AdvanceKeeps
<1>3. InList(Advance(q), Queued) \subseteq Held(Advance(q), Queued)
  BY DEF Held
<1> QED  BY <1>2, <1>3

LEMMA IdleStep ==
  ASSUME IInv, NetWriteStops \/ WriteReturns \/ LoopClosesSocket \/ LoopWrite
  PROVE  IInv'
<1>0. Sound
  BY DEF IInv
<1>1. /\ UNCHANGED <<kind, left, freed, packet, told>>
      /\ pc \in {"idle", "write"} /\ pc' \in {"idle", "write"}
      /\ sock' \in {"none", "open", "broken"}
      /\ q' = q \/ q' = Take(q)
  BY <1>0 DEF NetWriteStops, WriteReturns, LoopClosesSocket, LoopWrite, Sound
<1>2. pc \notin Callbacks /\ pc' \notin Callbacks /\ pc # "on_disconnect" /\ pc' # "on_disconnect"
      /\ pc # "on_publish" /\ pc' # "on_publish"
  BY <1>1 DEF Callbacks
<1>3. WellFormed(q, Queued) /\ Queued \in 0..MaxPackets
  BY <1>0, Numbers DEF Sound
<1>4. WellFormed(Take(q), Queued) /\ Held(Take(q), Queued) = Held(q, Queued)
      /\ InList(Take(q), Queued) \subseteq InList(q, Queued)
  BY <1>0, <1>3, TakeKeeps, AdvanceStep DEF Take
<1>5. /\ WellFormed(q', Queued) /\ Held(q', Queued) = Held(q, Queued)
      /\ InList(q', Queued) \subseteq InList(q, Queued)
  BY <1>1, <1>3, <1>4
<1>6. Reported'
  BY <1>1, <1>2, ReportsKept
<1>7. left \in [Ids -> 0..Size] /\ freed \subseteq 1..Queued /\ Held(q, Queued) \cap freed = {}
  BY <1>0 DEF Sound
<1> QED  BY <1>1, <1>2, <1>5, <1>6, <1>7, WriteStep

LEMMA NetWriteStep ==
  ASSUME IInv, NEW b \in 1..Size, NetWrite(b)
  PROVE  IInv'
<1>0. Sound
  BY DEF IInv
<1>1. /\ pc = "write" /\ pc' = pc /\ q.current # NULL /\ b <= left[q.current]
      /\ left' = [left EXCEPT ![q.current] = @ - b]
      /\ UNCHANGED <<q, kind, freed, packet, sock, told>>
  BY DEF NetWrite
<1>2. q.current \in Ids /\ q.current \notin freed
  BY <1>0, <1>1, Numbers DEF Sound
<1>3. left \in [Ids -> 0..Size] /\ Size \in Nat
  BY <1>0, SizeAssumption DEF Sound
<1>4. left[q.current] - b \in 0..Size
  BY <1>1, <1>2, <1>3
<1>5. left' \in [Ids -> 0..Size]
  BY <1>1, <1>2, <1>3, <1>4
<1>6. \A p \in freed : left'[p] = left[p]
  <2>1. freed \subseteq Ids
    BY <1>0, Numbers DEF Sound, Ids
  <2> QED  BY <1>1, <1>2, <1>3, <2>1
<1>7. Reported'
  BY <1>1, <1>6, ReportsKept
<1>8. pc' \notin Callbacks /\ pc # "on_disconnect" /\ pc' # "on_disconnect" /\ pc' # "on_publish"
  BY <1>1 DEF Callbacks
<1>9. /\ freed \subseteq 1..Queued /\ Held(q, Queued) \cap freed = {}
      /\ WellFormed(q, Queued) /\ sock \in {"none", "open", "broken"}
      /\ pc \in {"idle", "write"} \cup Callbacks
  BY <1>0 DEF Sound
<1> QED  BY <1>1, <1>5, <1>7, <1>8, <1>9, WriteStep

LEMMA SentStep ==
  ASSUME IInv, SentOther \/ SentPublish \/ SentDisconnect
  PROVE  IInv'
<1>0. Sound
  BY DEF IInv
<1>1. /\ pc = "write" /\ q.current # NULL /\ left[q.current] = 0
      /\ UNCHANGED <<kind, left>>
  BY DEF SentOther, SentPublish, SentDisconnect, Written
<1>2. /\ q.current \in Held(q, Queued) /\ q.current \in 1..Queued /\ q.current \in Ids
      /\ q.current \notin InList(q, Queued)
      /\ Held(q, Queued) = {q.current} \cup InList(q, Queued)
  BY <1>0, <1>1, Numbers DEF Current
<1>3. q.current \notin freed /\ freed \subseteq 1..Queued /\ Held(q, Queued) \cap freed = {}
      /\ WellFormed(q, Queued) /\ left \in [Ids -> 0..Size]
      /\ sock \in {"none", "open", "broken"}
  BY <1>0, <1>2 DEF Sound
<1>4. /\ WellFormed(Advance(q), Queued) /\ Held(Advance(q), Queued) = InList(q, Queued)
      /\ InList(Advance(q), Queued) \subseteq InList(q, Queued)
  BY <1>0, AdvanceStep
<1>5. CASE SentOther
  <2>1. q' = Advance(q) /\ freed' = freed \cup {q.current} /\ UNCHANGED <<pc, packet, sock, told>>
    BY <1>5 DEF SentOther, Free
  <2>2. pc' \notin Callbacks /\ pc # "on_disconnect" /\ pc' # "on_disconnect"
        /\ pc' # "on_publish" /\ pc # "on_publish" /\ pc' \in {"idle", "write"} \cup Callbacks
    BY <1>1, <2>1 DEF Callbacks
  <2>3. Reported'
    BY <1>1, <2>1, <2>2, ReportsKept
  <2>4. Held(q', Queued) \cap freed' = {} /\ freed' \subseteq 1..Queued
    BY <1>2, <1>3, <1>4, <2>1
  <2> QED  BY <1>1, <1>2, <1>3, <1>4, <2>1, <2>2, <2>3, <2>4, WriteStep
<1>6. CASE SentPublish
  <2>1. /\ pc' = "on_publish" /\ packet' = q.current /\ told' = Append(told, q.current)
        /\ UNCHANGED <<q, freed, sock>>
    BY <1>6 DEF SentPublish
  <2>2. told \in Seq(Ids) /\ Reported
    BY DEF IInv, Reported
  <2>3. /\ told' \in Seq(Ids) /\ told'[Len(told) + 1] = q.current
        /\ \A i \in 1..Len(told) : told'[i] = told[i]
        /\ \A i \in 1..Len(told') : i \in 1..Len(told) \/ i = Len(told) + 1
    BY <1>2, <2>1, <2>2, AppendFacts
  <2>4. \A i \in 1..Len(told) : told[i] \in freed
    BY <1>1, <2>2 DEF Reported
  <2>5. Reported'
    <3>1. \A i, j \in 1..Len(told') : told'[i] = told'[j] => i = j
      <4>1. \A i \in 1..Len(told) : told'[i] \in freed
        BY <2>3, <2>4
      <4>2. \A i, j \in 1..Len(told) : told[i] = told[j] => i = j
        BY <2>2 DEF Reported
      <4> QED  BY ONLY <1>3, <2>3, <4>1, <4>2
    <3>2. \A i \in 1..Len(told') :
            /\ told'[i] \in 1..Queued /\ left[told'[i]] = 0
            /\ told'[i] \in freed \/ told'[i] = q.current
      BY <1>1, <1>2, <2>2, <2>3, <2>4 DEF Reported
    <3>3. Queued' = Queued
      BY <1>1 DEF Queued
    <3> QED  BY <1>1, <2>1, <2>3, <3>1, <3>2, <3>3 DEF Reported
  <2>6. pc' # "on_disconnect" /\ pc # "on_disconnect" /\ pc' \in {"idle", "write"} \cup Callbacks
    BY <1>1, <2>1 DEF Callbacks
  <2> QED  BY <1>1, <1>2, <1>3, <2>1, <2>5, <2>6, WriteStep
<1>7. CASE SentDisconnect
  <2>1. /\ pc' = "on_disconnect" /\ packet' = q.current /\ q' = Advance(q) /\ sock' = "none"
        /\ UNCHANGED <<freed, told>>
    BY <1>7 DEF SentDisconnect
  <2>2. pc' # "on_publish" /\ pc # "on_publish" /\ pc # "on_disconnect"
        /\ pc' \in {"idle", "write"} \cup Callbacks
    BY <1>1, <2>1 DEF Callbacks
  <2>3. Reported'
    BY <1>1, <2>1, <2>2, ReportsKept
  <2>4. Held(q', Queued) \cap freed' = {} /\ packet' \notin Held(q', Queued)
    BY <1>2, <1>3, <1>4, <2>1
  <2> QED  BY <1>1, <1>2, <1>3, <1>4, <2>1, <2>2, <2>3, <2>4, WriteStep
<1> QED  BY <1>5, <1>6, <1>7

LEMMA ReturnStep ==
  ASSUME IInv, OnPublishReturns \/ OnDisconnectReturns
  PROVE  IInv'
<1>0. Sound
  BY DEF IInv
<1>1. /\ UNCHANGED <<kind, left, packet, sock, told>> /\ freed' = freed \cup {packet}
      /\ \/ pc = "on_publish" /\ pc' = "write" /\ q' = Advance(q)
         \/ pc = "on_disconnect" /\ pc' = "idle" /\ q' = q
  BY DEF OnPublishReturns, OnDisconnectReturns, Free
<1>2. /\ pc' \notin Callbacks /\ pc' # "on_publish" /\ pc' # "on_disconnect"
      /\ pc' \in {"idle", "write"} \cup Callbacks /\ pc \in Callbacks
  BY <1>1 DEF Callbacks
<1>3. /\ packet \in 1..Queued /\ packet \notin InList(q, Queued)
      /\ pc = "on_disconnect" => packet \notin Held(q, Queued)
      /\ freed \subseteq 1..Queued /\ Held(q, Queued) \cap freed = {}
      /\ WellFormed(q, Queued) /\ left \in [Ids -> 0..Size]
      /\ sock \in {"none", "open", "broken"}
  BY <1>0, <1>2 DEF Sound
<1>4. /\ WellFormed(Advance(q), Queued) /\ Held(Advance(q), Queued) = InList(q, Queued)
      /\ InList(Advance(q), Queued) \subseteq InList(q, Queued)
      /\ InList(q, Queued) \subseteq Held(q, Queued)
  BY <1>0, AdvanceStep DEF Held
<1>5. Held(q', Queued) \cap freed' = {} /\ freed' \subseteq 1..Queued
  BY <1>1, <1>3, <1>4
<1>6. Reported'
  BY <1>1, ReportsKept
<1>7. Sound'
  <2>1. Queued' = Queued
    BY <1>1 DEF Queued
  <2> QED  BY <1>1, <1>2, <1>3, <1>4, <1>5, <2>1, <1>0 DEF Sound
<1>8. ASSUME "on_publish" \notin ReconnectsIn PROVE Exact'
  <2>1. Exact
    BY <1>8 DEF IInv
  <2>2. CASE pc = "on_disconnect"
    BY <1>1, <1>2, <2>1, <2>2 DEF Exact, Queued
  <2>3. CASE pc = "on_publish"
    <3>1. Held(q, Queued) = {packet} \cup InList(q, Queued)
      <4>1. q.current = packet /\ q.current # NULL
        BY <1>3, <2>1, <2>3 DEF Exact, NULL
      <4> QED  BY <4>1 DEF Held, Current
    <3>2. \A p \in 1..Queued : p \in freed \cup Held(q, Queued)
      BY <2>1, <2>3 DEF Exact
    <3>3. Queued' = Queued /\ Held(q', Queued) = InList(q, Queued)
      BY <1>1, <1>4, <2>3 DEF Queued
    <3> QED  BY <1>1, <1>2, <3>1, <3>2, <3>3 DEF Exact
  <2> QED  BY <1>1, <2>2, <2>3
<1> QED  BY <1>6, <1>7, <1>8 DEF IInv

LEMMA Inductive == IInv /\ [Next]_vars => IInv'
<1> SUFFICES ASSUME IInv, [Next]_vars PROVE IInv'
  OBVIOUS
<1>1. CASE UNCHANGED vars
  BY <1>1 DEF vars, IInv, Sound, Reported, Exact, Queued
<1>2. CASE Write
  BY <1>2, NetWriteStep, IdleStep, SentStep, ReturnStep DEF Write
<1>3. CASE Calls \/ LoopWrite \/ LoopClosesSocket
  BY <1>3, CallsStep, IdleStep
<1> QED  BY <1>1, <1>2, <1>3 DEF Next

LEMMA Invariant == Spec => []IInv
<1>1. IInv /\ [Next]_vars => IInv'
  BY Inductive
<1> QED  BY <1>1, InitIInv, PTL DEF Spec

-----------------------------------------------------------------------------
(***************************************************************************)
(* The bytes of a sequence of packets.                                     *)
(***************************************************************************)
\* PendingOf, with the bytes left of each packet as a parameter.
Sums(f, s, l) ==
  f = [i \in 0..Len(s) |-> IF i = 0 THEN <<>> ELSE f[i - 1] \o Bytes(s[i], l[s[i]])]

Pending(s, l) == (CHOOSE f : Sums(f, s, l))[Len(s)]

Remaining == [Ids -> 0..Size]
Pieces == Seq(Nat \X Int)

LEMMA BytesAre ==
  ASSUME NEW p \in Nat, NEW n \in Nat
  PROVE  /\ Bytes(p, n) \in Pieces /\ Len(Bytes(p, n)) = n
         /\ \A i \in 1..n : Bytes(p, n)[i] = <<p, Size - n + i>>
<1>1. Bytes(p, n) = [i \in 1..n |-> <<p, Size - n + i>>]
  BY DEF Bytes, Byte
<1>2. \A i \in 1..n : <<p, Size - n + i>> \in Nat \X Int
  BY SizeAssumption
<1> QED  BY <1>1, <1>2 DEF Pieces

\* The partial sums that PendingOf chooses exist.
LEMMA SumsExist ==
  ASSUME NEW s, NEW l, Len(s) \in Nat
  PROVE  \E f : Sums(f, s, l)
<1> DEFINE Upto(f, m) ==
             f = [i \in 0..m |-> IF i = 0 THEN <<>> ELSE f[i - 1] \o Bytes(s[i], l[s[i]])]
           B == {m \in Nat : ~\E f : Upto(f, m)}
<1>1. ASSUME B # {} PROVE FALSE
  <2>1. B \subseteq Nat
    OBVIOUS
  <2>2. PICK m \in B : \A k \in B : ~(<<k, m>> \in OpToRel(<, Nat))
    BY <1>1, <2>1, NatLessThanWellFounded, WFMin
  <2>3. m \in Nat /\ ~\E f : Upto(f, m)
    OBVIOUS
  <2>4. CASE m = 0
    <3> DEFINE f == [i \in 0..0 |-> <<>>]
    <3>1. f = [i \in 0..0 |-> IF i = 0 THEN <<>> ELSE f[i - 1] \o Bytes(s[i], l[s[i]])]
      OBVIOUS
    <3> HIDE DEF f
    <3> QED  BY <2>3, <2>4, <3>1
  <2>5. CASE m # 0
    <3>1. m - 1 \in Nat /\ m - 1 < m
      BY <2>3, <2>5
    <3>2. PICK f : Upto(f, m - 1)
      <4>1. m - 1 \notin B
        BY <2>2, <2>3, <3>1 DEF OpToRel
      <4> QED  BY <3>1, <4>1
    <3> DEFINE g == [i \in 0..m |-> IF i = m THEN f[m - 1] \o Bytes(s[m], l[s[m]]) ELSE f[i]]
    <3>3. \A i \in 0..(m - 1) :
            f[i] = IF i = 0 THEN <<>> ELSE f[i - 1] \o Bytes(s[i], l[s[i]])
      BY <3>2
    <3>4. \A i \in 0..m :
            g[i] = IF i = 0 THEN <<>> ELSE g[i - 1] \o Bytes(s[i], l[s[i]])
      <4> SUFFICES ASSUME NEW i \in 0..m
                   PROVE  g[i] = IF i = 0 THEN <<>> ELSE g[i - 1] \o Bytes(s[i], l[s[i]])
        OBVIOUS
      <4>1. CASE i = m
        <5>1. m - 1 \in 0..m /\ m - 1 # m /\ m \in 0..m
          BY <2>3, <3>1
        <5>2. g[m - 1] = f[m - 1] /\ g[m] = f[m - 1] \o Bytes(s[m], l[s[m]])
          BY <5>1
        <5> HIDE DEF g
        <5> QED  BY <2>5, <4>1, <5>2
      <4>2. CASE i # m
        <5>1. i \in 0..(m - 1) /\ (i # 0 => i - 1 \in 0..m /\ i - 1 # m)
          BY <2>3, <4>2
        <5>2. g[i] = f[i] /\ (i # 0 => g[i - 1] = f[i - 1])
          BY <4>2, <5>1
        <5> HIDE DEF g
        <5> QED  BY <3>3, <5>1, <5>2
      <4> QED  BY <4>1, <4>2
    <3>5. g = [i \in 0..m |-> g[i]]
      OBVIOUS
    <3> HIDE DEF g
    <3>6. Upto(g, m)
      BY <3>4, <3>5
    <3> QED  BY <2>3, <3>6
  <2> QED  BY <2>4, <2>5
<1>2. \E f : Upto(f, Len(s))
  BY <1>1
<1> QED  BY <1>2 DEF Sums

\* Pending is the last of these sums.
LEMMA PendingIs ==
  ASSUME NEW s \in Seq(Ids), NEW l \in Remaining
  PROVE  \E f : /\ Pending(s, l) = f[Len(s)] /\ f[0] = <<>>
                /\ \A i \in 1..Len(s) : f[i] = f[i - 1] \o Bytes(s[i], l[s[i]])
                /\ \A i \in 0..Len(s) : f[i] \in Pieces
<1> DEFINE f == CHOOSE f : Sums(f, s, l)
<1>1. Len(s) \in Nat
  OBVIOUS
<1>2. Sums(f, s, l)
  BY <1>1, SumsExist
<1>3. Pending(s, l) = f[Len(s)]
  BY DEF Pending
<1> HIDE DEF f
<1>4. /\ f[0] = <<>>
      /\ \A i \in 1..Len(s) : f[i] = f[i - 1] \o Bytes(s[i], l[s[i]])
  <2>1. \A i \in 0..Len(s) : f[i] = IF i = 0 THEN <<>> ELSE f[i - 1] \o Bytes(s[i], l[s[i]])
    BY <1>2 DEF Sums
  <2>2. 0 \in 0..Len(s) /\ \A i \in 1..Len(s) : i \in 0..Len(s) /\ i # 0
    BY <1>1
  <2> QED  BY <2>1, <2>2
<1> DEFINE B == {i \in Nat : i <= Len(s) /\ f[i] \notin Pieces}
<1>5. ASSUME B # {} PROVE FALSE
  <2>1. B \subseteq Nat
    OBVIOUS
  <2>2. PICK i \in B : \A k \in B : ~(<<k, i>> \in OpToRel(<, Nat))
    BY <1>5, <2>1, NatLessThanWellFounded, WFMin
  <2>3. i \in Nat /\ i <= Len(s) /\ f[i] \notin Pieces
    OBVIOUS
  <2>4. i # 0
    <3>1. f[0] = <<>>
      BY <1>4
    <3>2. <<>> \in Pieces
      BY DEF Pieces
    <3> QED  BY <2>3, <3>1, <3>2
  <2>5. i - 1 \in Nat /\ i - 1 <= Len(s) /\ i - 1 < i /\ i \in 1..Len(s)
    BY <1>1, <2>3, <2>4
  <2>6. f[i - 1] \in Pieces
    <3>1. i - 1 \notin B
      BY <2>2, <2>3, <2>5 DEF OpToRel
    <3> QED  BY <2>5, <3>1
  <2>7. s[i] \in Nat /\ l[s[i]] \in Nat
    <3>1. s[i] \in Ids
      BY <2>5
    <3> QED  BY <3>1, SizeAssumption DEF Remaining, Ids
  <2>8. Bytes(s[i], l[s[i]]) \in Pieces
    BY <2>7, BytesAre
  <2>9. f[i - 1] \o Bytes(s[i], l[s[i]]) \in Pieces
    BY <2>6, <2>8 DEF Pieces
  <2> QED  BY <1>4, <2>3, <2>5, <2>9
<1>6. \A i \in 0..Len(s) : f[i] \in Pieces
  BY <1>1, <1>5
<1> QED  BY <1>3, <1>4, <1>6

LEMMA PendingEmpty ==
  ASSUME NEW l \in Remaining
  PROVE  Pending(<<>>, l) = <<>>
<1>1. <<>> \in Seq(Ids) /\ Len(<<>>) = 0
  OBVIOUS
<1> DEFINE s == <<>>
<1>2. s \in Seq(Ids) /\ Len(s) = 0
  BY <1>1
<1> HIDE DEF s
<1>3. PICK f : /\ Pending(s, l) = f[Len(s)] /\ f[0] = <<>>
               /\ \A i \in 1..Len(s) : f[i] = f[i - 1] \o Bytes(s[i], l[s[i]])
               /\ \A i \in 0..Len(s) : f[i] \in Pieces
  BY <1>2, PendingIs
<1> QED  BY <1>2, <1>3 DEF s

LEMMA Associative ==
  ASSUME NEW a \in Pieces, NEW b \in Pieces, NEW c \in Pieces
  PROVE  (a \o b) \o c = a \o (b \o c)
<1> DEFINE P == Nat \X Int
<1>1. a \in Seq(P) /\ b \in Seq(P) /\ c \in Seq(P)
  BY DEF Pieces
<1> HIDE DEF P
<1> QED  BY ONLY <1>1, ConcatAssociative

\* The bytes of a first packet come first.
LEMMA PendingPut ==
  ASSUME NEW e \in Ids, NEW s \in Seq(Ids), NEW l \in Remaining
  PROVE  /\ <<e>> \o s \in Seq(Ids)
         /\ Pending(<<e>> \o s, l) = Bytes(e, l[e]) \o Pending(s, l)
<1> DEFINE r == <<e>> \o s
           b == Bytes(e, l[e])
<1>1. <<e>> \in Seq(Ids) /\ Len(<<e>>) = 1 /\ <<e>>[1] = e /\ Len(s) \in Nat
  OBVIOUS
<1>2. /\ r \in Seq(Ids) /\ Len(r) = Len(s) + 1 /\ r[1] = e
      /\ \A i \in 1..Len(s) : r[i + 1] = s[i]
  OBVIOUS
<1> HIDE DEF r
<1>3. b \in Pieces
  <2>1. e \in Nat /\ l[e] \in Nat
    BY SizeAssumption DEF Remaining, Ids
  <2> QED  BY <2>1, BytesAre
<1>4. PICK f : /\ Pending(s, l) = f[Len(s)] /\ f[0] = <<>>
               /\ \A i \in 1..Len(s) : f[i] = f[i - 1] \o Bytes(s[i], l[s[i]])
               /\ \A i \in 0..Len(s) : f[i] \in Pieces
  BY PendingIs
<1>5. PICK g : /\ Pending(r, l) = g[Len(r)] /\ g[0] = <<>>
               /\ \A i \in 1..Len(r) : g[i] = g[i - 1] \o Bytes(r[i], l[r[i]])
               /\ \A i \in 0..Len(r) : g[i] \in Pieces
  BY <1>2, PendingIs
<1> DEFINE B == {i \in Nat : i <= Len(s) /\ g[i + 1] # b \o f[i]}
<1>6. ASSUME B # {} PROVE FALSE
  <2>1. B \subseteq Nat
    OBVIOUS
  <2>2. PICK i \in B : \A k \in B : ~(<<k, i>> \in OpToRel(<, Nat))
    BY <1>6, <2>1, NatLessThanWellFounded, WFMin
  <2>3. i \in Nat /\ i <= Len(s) /\ g[i + 1] # b \o f[i]
    OBVIOUS
  <2>4. CASE i = 0
    <3>1. g[1] = g[0] \o b
      <4>1. 1 \in 1..Len(r) /\ 1 - 1 = 0
        BY <1>1, <1>2
      <4>2. g[1] = g[1 - 1] \o Bytes(r[1], l[r[1]])
        BY <1>5, <4>1
      <4> QED  BY <1>2, <4>1, <4>2
    <3> HIDE DEF b
    <3>2. <<>> \o b = b /\ b \o <<>> = b
      BY <1>3, ConcatEmptySeq DEF Pieces
    <3>3. f[0] = <<>> /\ g[0] = <<>>
      BY <1>4, <1>5
    <3>4. g[i + 1] = g[1] /\ f[i] = f[0]
      BY <2>4
    <3> QED  BY <2>3, <3>1, <3>2, <3>3, <3>4
  <2>5. CASE i # 0
    <3>1. i - 1 \in Nat /\ i - 1 <= Len(s) /\ i - 1 < i /\ i \in 1..Len(s)
          /\ i + 1 \in 1..Len(r) /\ (i + 1) - 1 = i /\ (i - 1) + 1 = i /\ i - 1 \in 0..Len(s)
      BY <1>1, <1>2, <2>3, <2>5
    <3>2. g[i] = b \o f[i - 1]
      <4>1. i - 1 \notin B
        BY <2>2, <2>3, <3>1 DEF OpToRel
      <4> QED  BY <3>1, <4>1
    <3> DEFINE t == Bytes(s[i], l[s[i]])
    <3>3. g[i + 1] = g[i] \o t /\ f[i] = f[i - 1] \o t
      BY <1>2, <1>4, <1>5, <3>1
    <3>4. t \in Pieces
      <4>1. s[i] \in Ids
        BY <3>1
      <4>2. s[i] \in Nat /\ l[s[i]] \in Nat
        BY <4>1, SizeAssumption DEF Remaining, Ids
      <4> QED  BY <4>2, BytesAre
    <3> HIDE DEF t, b
    <3> DEFINE u == f[i - 1]
    <3>5. u \in Pieces
      BY <1>4, <3>1
    <3>6. (b \o u) \o t = b \o (u \o t)
      <4> HIDE DEF u
      <4> QED  BY <1>3, <3>4, <3>5, Associative
    <3> QED  BY <2>3, <3>2, <3>3, <3>6
  <2> QED  BY <2>4, <2>5
<1>7. g[Len(s) + 1] = b \o f[Len(s)]
  <2> HIDE DEF b
  <2>1. Len(s) \in Nat /\ Len(s) <= Len(s)
    BY <1>1
  <2> QED  BY <1>6, <2>1
<1>8. Pending(r, l) = b \o Pending(s, l)
  <2> HIDE DEF b
  <2>1. Pending(r, l) = g[Len(r)] /\ Pending(s, l) = f[Len(s)]
    BY <1>4, <1>5
  <2> QED  BY <1>2, <1>7, <2>1
<1> QED  BY <1>2, <1>8 DEF r

\* Packets whose bytes are the same give the same bytes.
LEMMA PendingAgree ==
  ASSUME NEW s \in Seq(Ids), NEW r \in Seq(Ids), NEW l \in Remaining, NEW m \in Remaining,
         Len(s) <= Len(r), \A i \in 1..Len(s) : r[i] = s[i] /\ m[s[i]] = l[s[i]]
  PROVE  \E g : /\ Pending(r, m) = g[Len(r)] /\ g[Len(s)] = Pending(s, l)
                /\ \A i \in 1..Len(r) : g[i] = g[i - 1] \o Bytes(r[i], m[r[i]])
<1>1. PICK f : /\ Pending(s, l) = f[Len(s)] /\ f[0] = <<>>
               /\ \A i \in 1..Len(s) : f[i] = f[i - 1] \o Bytes(s[i], l[s[i]])
               /\ \A i \in 0..Len(s) : f[i] \in Pieces
  BY PendingIs
<1>2. PICK g : /\ Pending(r, m) = g[Len(r)] /\ g[0] = <<>>
               /\ \A i \in 1..Len(r) : g[i] = g[i - 1] \o Bytes(r[i], m[r[i]])
               /\ \A i \in 0..Len(r) : g[i] \in Pieces
  BY PendingIs
<1>3. Len(s) \in Nat /\ Len(r) \in Nat
  OBVIOUS
<1> DEFINE B == {i \in Nat : i <= Len(s) /\ g[i] # f[i]}
<1>4. ASSUME B # {} PROVE FALSE
  <2>1. B \subseteq Nat
    OBVIOUS
  <2>2. PICK i \in B : \A k \in B : ~(<<k, i>> \in OpToRel(<, Nat))
    BY <1>4, <2>1, NatLessThanWellFounded, WFMin
  <2>3. i \in Nat /\ i <= Len(s) /\ g[i] # f[i]
    OBVIOUS
  <2>4. i # 0
    BY <1>1, <1>2, <2>3
  <2>5. i - 1 \in Nat /\ i - 1 <= Len(s) /\ i - 1 < i /\ i \in 1..Len(s) /\ i \in 1..Len(r)
    BY <1>3, <2>3, <2>4
  <2>6. g[i - 1] = f[i - 1]
    <3>1. i - 1 \notin B
      BY <2>2, <2>3, <2>5 DEF OpToRel
    <3> QED  BY <2>5, <3>1
  <2> QED  BY <1>1, <1>2, <2>3, <2>5, <2>6
<1>5. g[Len(s)] = f[Len(s)]
  BY <1>3, <1>4
<1>6. /\ Pending(r, m) = g[Len(r)] /\ g[Len(s)] = Pending(s, l)
      /\ \A i \in 1..Len(r) : g[i] = g[i - 1] \o Bytes(r[i], m[r[i]])
  BY <1>1, <1>2, <1>5
<1> QED  BY ONLY <1>6

LEMMA PendingSame ==
  ASSUME NEW s \in Seq(Ids), NEW l \in Remaining, NEW m \in Remaining,
         \A i \in 1..Len(s) : m[s[i]] = l[s[i]]
  PROVE  Pending(s, m) = Pending(s, l)
<1>1. Len(s) \in Nat /\ Len(s) <= Len(s)
  OBVIOUS
<1>2. \A i \in 1..Len(s) : s[i] = s[i] /\ m[s[i]] = l[s[i]]
  OBVIOUS
<1>3. PICK g : /\ Pending(s, m) = g[Len(s)] /\ g[Len(s)] = Pending(s, l)
               /\ \A i \in 1..Len(s) : g[i] = g[i - 1] \o Bytes(s[i], m[s[i]])
  BY <1>1, <1>2, PendingAgree
<1> QED  BY <1>3

\* A new packet adds its bytes at the end.
LEMMA PendingAppend ==
  ASSUME NEW s \in Seq(Ids), NEW e \in Ids, NEW l \in Remaining, NEW m \in Remaining,
         \A i \in 1..Len(s) : m[s[i]] = l[s[i]]
  PROVE  Pending(Append(s, e), m) = Pending(s, l) \o Bytes(e, m[e])
<1> DEFINE r == Append(s, e)
<1>1. /\ r \in Seq(Ids) /\ Len(r) = Len(s) + 1 /\ r[Len(s) + 1] = e /\ Len(s) \in Nat
      /\ \A i \in 1..Len(s) : r[i] = s[i]
  OBVIOUS
<1> HIDE DEF r
<1>2. Len(s) <= Len(r) /\ Len(s) + 1 \in 1..Len(r) /\ (Len(s) + 1) - 1 = Len(s)
  BY <1>1
<1>3. PICK g : /\ Pending(r, m) = g[Len(r)] /\ g[Len(s)] = Pending(s, l)
               /\ \A i \in 1..Len(r) : g[i] = g[i - 1] \o Bytes(r[i], m[r[i]])
  BY <1>1, <1>2, PendingAgree
<1> QED  BY <1>1, <1>2, <1>3 DEF r

LEMMA PendingType ==
  ASSUME NEW s \in Seq(Ids), NEW l \in Remaining
  PROVE  Pending(s, l) \in Pieces
<1>1. Len(s) \in 0..Len(s)
  OBVIOUS
<1> QED  BY <1>1, PendingIs

\* What a sequence is without its first n elements.
LEMMA Dropped ==
  ASSUME NEW P, NEW s \in Seq(P), NEW n \in 1..Len(s)
  PROVE  /\ SubSeq(s, n + 1, Len(s)) \in Seq(P)
         /\ Len(SubSeq(s, n + 1, Len(s))) = Len(s) - n
         /\ \A i \in 1..(Len(s) - n) : SubSeq(s, n + 1, Len(s))[i] = s[n + i]
<1> DEFINE l == Len(s)
           u == SubSeq(s, n + 1, l)
<1>1. l \in Nat /\ n \in Nat /\ n <= l
  OBVIOUS
<1>2. \A i \in (n + 1)..l : s[i] \in P
  OBVIOUS
<1> HIDE DEF l
<1>3. /\ u \in Seq(P)
      /\ Len(u) = IF n + 1 <= l THEN l - (n + 1) + 1 ELSE 0
      /\ \A i \in 1..(l - (n + 1) + 1) : u[i] = s[(n + 1) + i - 1]
  BY <1>1, <1>2, SubSeqProperties
<1> HIDE DEF u
<1>4. l - (n + 1) + 1 = l - n /\ \A i \in 1..(l - n) : (n + 1) + i - 1 = n + i
  BY <1>1
<1>5. Len(u) = l - n
  <2>1. CASE n + 1 <= l
    BY <1>3, <1>4, <2>1
  <2>2. CASE ~(n + 1 <= l)
    <3>1. l - n = 0
      BY <1>1, <2>2
    <3> QED  BY <1>3, <2>2, <3>1
  <2> QED  BY <2>1, <2>2
<1>6. ASSUME NEW i \in 1..(l - n) PROVE u[i] = s[n + i]
  BY <1>3, <1>4
<1> QED  BY <1>3, <1>5, <1>6 DEF u, l

\* What is written is taken from the front.
LEMMA Cut ==
  ASSUME NEW P, NEW b \in Seq(P), NEW t \in Seq(P), NEW n \in 1..Len(b)
  PROVE  /\ SubSeq(b \o t, 1, n) = SubSeq(b, 1, n)
         /\ SubSeq(b \o t, n + 1, Len(b \o t)) = SubSeq(b, n + 1, Len(b)) \o t
         /\ Len(b \o t) = Len(b) + Len(t)
<1>1. Len(b) \in Nat /\ Len(t) \in Nat /\ n \in Nat /\ 1 \in 1..Len(b)
  OBVIOUS
<1>2. SubSeq(b \o t, 1, n) = SubSeq(b, 1, n)
  BY <1>1, SubSeqOfConcat1
<1> DEFINE r == b \o t
           u == SubSeq(b, n + 1, Len(b))
           x == SubSeq(r, n + 1, Len(r))
<1>3. /\ r \in Seq(P) /\ Len(r) = Len(b) + Len(t)
      /\ \A i \in 1..(Len(b) + Len(t)) : r[i] = IF i <= Len(b) THEN b[i] ELSE t[i - Len(b)]
  BY ConcatProperties
<1> HIDE DEF r
<1>4. /\ u \in Seq(P) /\ Len(u) = Len(b) - n
      /\ \A i \in 1..(Len(b) - n) : u[i] = b[n + i]
  BY Dropped
<1>5. /\ x \in Seq(P) /\ Len(x) = Len(r) - n
      /\ \A i \in 1..(Len(r) - n) : x[i] = r[n + i]
  <2>1. n \in 1..Len(r)
    BY <1>1, <1>3
  <2> QED  BY <1>3, <2>1, Dropped
<1> HIDE DEF u, x
<1> DEFINE y == u \o t
<1>6. /\ y \in Seq(P) /\ Len(y) = Len(u) + Len(t)
      /\ \A i \in 1..(Len(u) + Len(t)) : y[i] = IF i <= Len(u) THEN u[i] ELSE t[i - Len(u)]
  BY <1>4, ConcatProperties
<1> HIDE DEF y
<1>7. Len(x) = Len(y) /\ Len(x) = Len(b) + Len(t) - n
  BY <1>1, <1>3, <1>4, <1>5, <1>6
<1>8. ASSUME NEW i \in 1..Len(x) PROVE x[i] = y[i]
  <2>1. /\ i \in Nat /\ i \in 1..(Len(r) - n) /\ i \in 1..(Len(u) + Len(t))
        /\ n + i \in 1..(Len(b) + Len(t))
    BY <1>1, <1>3, <1>4, <1>7
  <2>2. x[i] = IF n + i <= Len(b) THEN b[n + i] ELSE t[n + i - Len(b)]
    BY <1>3, <1>5, <2>1
  <2>3. y[i] = IF i <= Len(b) - n THEN u[i] ELSE t[i - (Len(b) - n)]
    BY <1>4, <1>6, <2>1
  <2>4. CASE i <= Len(b) - n
    <3>1. n + i <= Len(b) /\ i \in 1..(Len(b) - n)
      BY <1>1, <2>1, <2>4
    <3> QED  BY <1>4, <2>2, <2>3, <2>4, <3>1
  <2>5. CASE ~(i <= Len(b) - n)
    <3>1. ~(n + i <= Len(b)) /\ n + i - Len(b) = i - (Len(b) - n)
      BY <1>1, <2>1, <2>5
    <3> QED  BY <2>2, <2>3, <2>5, <3>1
  <2> QED  BY <2>4, <2>5
<1>9. x = y
  BY <1>5, <1>6, <1>7, <1>8, SeqEqual
<1> QED  BY <1>2, <1>3, <1>9 DEF r, x, y, u

\* What is left of a packet when n bytes more are out.
LEMMA BytesTail ==
  ASSUME NEW p \in Nat, NEW l \in Nat, NEW n \in 1..l
  PROVE  SubSeq(Bytes(p, l), n + 1, l) = Bytes(p, l - n)
<1>1. /\ Bytes(p, l) \in Pieces /\ Len(Bytes(p, l)) = l
      /\ \A i \in 1..l : Bytes(p, l)[i] = <<p, Size - l + i>>
  BY BytesAre
<1>2. l - n \in Nat /\ n \in Nat /\ Size \in Nat
  BY SizeAssumption
<1>3. /\ Bytes(p, l - n) \in Pieces /\ Len(Bytes(p, l - n)) = l - n
      /\ \A i \in 1..(l - n) : Bytes(p, l - n)[i] = <<p, Size - (l - n) + i>>
  BY <1>2, BytesAre
<1> DEFINE S == Nat \X Int
           b == Bytes(p, l)
           u == SubSeq(b, n + 1, l)
           x == Bytes(p, l - n)
<1>4. b \in Seq(S) /\ x \in Seq(S)
  BY <1>1, <1>3 DEF Pieces
<1> HIDE DEF S, b, x
<1>5. /\ u \in Seq(S) /\ Len(u) = l - n
      /\ \A i \in 1..(l - n) : u[i] = b[n + i]
  <2>1. Len(b) = l
    BY <1>1 DEF b
  <2>2. n \in 1..Len(b)
    BY <2>1
  <2>3. /\ SubSeq(b, n + 1, Len(b)) \in Seq(S) /\ Len(SubSeq(b, n + 1, Len(b))) = Len(b) - n
        /\ \A i \in 1..(Len(b) - n) : SubSeq(b, n + 1, Len(b))[i] = b[n + i]
    BY <1>4, <2>2, Dropped
  <2> QED  BY <2>1, <2>3
<1> HIDE DEF u
<1>6. ASSUME NEW i \in 1..Len(u) PROVE u[i] = x[i]
  <2>1. i \in 1..(l - n) /\ n + i \in 1..l /\ Size - l + (n + i) = Size - (l - n) + i
    BY <1>2, <1>5
  <2>2. b[n + i] = <<p, Size - l + (n + i)>> /\ x[i] = <<p, Size - (l - n) + i>>
    BY <1>1, <1>3, <2>1 DEF b, x
  <2> QED  BY <1>5, <2>1, <2>2
<1>7. Len(u) = Len(x)
  BY <1>3, <1>5 DEF x
<1>8. u = x
  BY <1>4, <1>5, <1>6, <1>7, SeqEqual
<1> QED  BY <1>8 DEF u, b, x

-----------------------------------------------------------------------------
(***************************************************************************)
(* The packets of a list, in order.                                        *)
(***************************************************************************)
\* What a list reaches, in order.
First(k) == IF k.current = NULL THEN <<>> ELSE <<k.current>>
Reached(k) == First(k) \o Chain(k.next, k.out)

\* Following next from p.
LEMMA ChainNext ==
  ASSUME NEW next, Forward(next), NEW p \in 0..MaxPackets
  PROVE  Chain(next, p) = IF p = NULL THEN <<>> ELSE <<p>> \o Chain(next, next[p])
<1>1. PICK f : Steps(f, next) /\ \A i : Chain(next, i) = f[i]
  BY ChainSteps
<1>2. f[p] = IF p = NULL THEN <<>> ELSE <<p>> \o f[next[p]]
  BY <1>1 DEF Steps
<1> QED  BY <1>1, <1>2

\* A list without gaps up to n holds the packets up to n in their order.
Run(p, n) == [j \in 1..(n - p + 1) |-> p + j - 1]

LEMMA RunPut ==
  ASSUME NEW i \in Nat, NEW n \in Nat, i <= n
  PROVE  Run(i, n) = <<i>> \o Run(i + 1, n)
<1>1. n - (i + 1) + 1 = n - i /\ \A k \in 1..(n - i) : (i + 1) + k - 1 = i + k
  OBVIOUS
<1>2. Run(i + 1, n) = [k \in 1..(n - i) |-> i + k]
  BY <1>1 DEF Run
<1>3. Run(i, n) = <<i>> \o [k \in 1..(n - i) |-> i + k]
  BY DEF Run
<1> QED  BY <1>2, <1>3

LEMMA ChainRun ==
  ASSUME NEW next, Forward(next), NEW n \in Ids, NEW p \in 1..n,
         next[n] = NULL, \A i \in p..(n - 1) : next[i] = i + 1
  PROVE  Chain(next, p) = Run(p, n)
<1>1. n \in Nat /\ p \in Nat /\ p <= n /\ 1 <= p /\ n <= MaxPackets /\ MaxPackets \in Nat
  BY BoundsAssumption DEF Ids
<1> DEFINE Good(i) == Chain(next, i) = Run(i, n)
           B == {k \in Nat : k <= n - p /\ ~Good(n - k)}
<1>2. ASSUME B # {} PROVE FALSE
  <2>1. B \subseteq Nat
    OBVIOUS
  <2>2. PICK k \in B : \A j \in B : ~(<<j, k>> \in OpToRel(<, Nat))
    BY <1>2, <2>1, NatLessThanWellFounded, WFMin
  <2>3. k \in Nat /\ k <= n - p /\ ~Good(n - k)
    BY <2>2
  <2> DEFINE i == n - k
  <2>4. i \in p..n /\ i \in 0..MaxPackets /\ i \in Nat /\ i # NULL /\ i <= n
    BY <1>1, <2>3 DEF NULL
  <2>5. Chain(next, i) = <<i>> \o Chain(next, next[i])
    BY <2>4, ChainNext
  <2>6. Run(i, n) = <<i>> \o Run(i + 1, n)
    BY <1>1, <2>4, RunPut
  <2>7. Chain(next, next[i]) = Run(i + 1, n)
    <3>1. CASE k = 0
      <4>1. i = n /\ next[i] = NULL
        BY <1>1, <3>1
      <4>2. Chain(next, next[i]) = <<>>
        <5>1. NULL \in 0..MaxPackets
          BY <1>1 DEF NULL
        <5>2. Chain(next, NULL) = <<>>
          BY <5>1, ChainNext
        <5> QED  BY <4>1, <5>2
      <4>3. Run(n + 1, n) = <<>>
        <5>1. n - (n + 1) + 1 = 0
          BY <1>1
        <5> QED  BY <5>1 DEF Run
      <4> QED  BY <4>1, <4>2, <4>3
    <3>2. CASE k # 0
      <4>1. k - 1 \in Nat /\ k - 1 <= n - p /\ k - 1 < k /\ i + 1 = n - (k - 1) /\ i \in p..(n - 1)
        BY <1>1, <2>3, <3>2
      <4>2. Good(n - (k - 1))
        <5>1. k - 1 \notin B
          BY <2>2, <2>3, <4>1 DEF OpToRel
        <5> HIDE DEF Good
        <5> QED  BY <4>1, <5>1
      <4>3. next[i] = i + 1
        BY <4>1
      <4> QED  BY <4>1, <4>2, <4>3
    <3> QED  BY <3>1, <3>2
  <2>8. Good(i)
    BY <2>5, <2>6, <2>7
  <2> QED  BY <2>3, <2>8
<1>3. n - p \in Nat /\ n - (n - p) = p
  BY <1>1
<1> HIDE DEF Good
<1>4. Good(p)
  BY <1>2, <1>3
<1> QED  BY <1>4 DEF Good

LEMMA RunAppend ==
  ASSUME NEW p \in Nat, NEW n \in Nat, p <= n + 1
  PROVE  Run(p, n + 1) = Append(Run(p, n), n + 1)
<1>1. n + 1 - p + 1 = (n - p + 1) + 1 /\ p + (n + 1 - p + 1) - 1 = n + 1 /\ n - p + 1 \in Nat
  OBVIOUS
<1>2. Run(p, n) \in Seq(Nat) /\ Len(Run(p, n)) = n - p + 1
  BY <1>1 DEF Run
<1> QED  BY <1>1, <1>2 DEF Run

LEMMA ListIs ==
  ASSUME NEW n \in 0..MaxPackets, NEW k, WellFormed(k, n)
  PROVE  /\ Forward(k.next) /\ k.out \in 0..MaxPackets /\ k.current \in 0..MaxPackets
         /\ Chain(k.next, k.out) = IF k.out = NULL THEN <<>> ELSE Run(k.out, n)
         /\ Chain(k.next, k.out) \in Seq(Ids) /\ First(k) \in Seq(Ids)
         /\ \A i \in 1..Len(Chain(k.next, k.out)) : Chain(k.next, k.out)[i] \in InList(k, n)
<1>1. Forward(k.next) /\ k.out \in 0..MaxPackets /\ k.current \in 0..MaxPackets
      /\ MaxPackets \in Nat /\ n \in Nat /\ k.current <= n
  BY BoundsAssumption DEF WellFormed, Queues, Forward
<1>4. First(k) \in Seq(Ids)
  <2>1. CASE k.current = NULL
    BY <2>1 DEF First
  <2>2. CASE k.current # NULL
    <3>1. k.current \in Ids
      BY <1>1, <2>2 DEF Ids, NULL
    <3>2. <<k.current>> \in Seq(Ids)
      BY <3>1
    <3> QED  BY <2>2, <3>2 DEF First
  <2> QED  BY <2>1, <2>2
<1> DEFINE w == Chain(k.next, k.out)
<1>2. CASE k.out = NULL
  <2>1. w = <<>>
    BY <1>1, <1>2, ChainNext
  <2> HIDE DEF w
  <2>2. w \in Seq(Ids) /\ Len(w) = 0
    BY <2>1
  <2> QED  BY <1>1, <1>2, <1>4, <2>1, <2>2 DEF w
<1>3. CASE k.out # NULL
  <2>1. n \in Ids /\ k.out \in 1..n /\ k.next[n] = NULL
        /\ \A i \in k.out..(n - 1) : k.next[i] = i + 1
    BY <1>1, <1>3 DEF WellFormed, Ids, NULL
  <2>2. w = Run(k.out, n)
    BY <1>1, <2>1, ChainRun
  <2> HIDE DEF w
  <2>3. k.out \in Nat /\ n - k.out + 1 \in Nat
    BY <1>1, <2>1
  <2>4. \A j \in 1..(n - k.out + 1) : k.out + j - 1 \in Ids /\ k.out + j - 1 \in k.out..n
    BY <1>1, <2>1, <2>3 DEF Ids
  <2>5. w = [j \in 1..(n - k.out + 1) |-> k.out + j - 1]
    BY <2>2 DEF Run
  <2>6. w \in Seq(Ids) /\ Len(w) = n - k.out + 1 /\ \A j \in 1..Len(w) : w[j] \in k.out..n
    BY <2>3, <2>4, <2>5
  <2> QED  BY <1>1, <1>3, <1>4, <2>2, <2>6 DEF w, InList
<1> QED  BY <1>2, <1>3

\* packet__queue adds the packet at the end.
LEMMA ReachedEnqueue ==
  ASSUME NEW n \in Nat, n < MaxPackets, NEW k, WellFormed(k, n)
  PROVE  Reached(Enqueue(k, n + 1)) = Append(Reached(k), n + 1)
<1> DEFINE e == Enqueue(k, n + 1)
           w == Chain(k.next, k.out)
           x == Chain(e.next, e.out)
<1>1. n \in 0..MaxPackets /\ n + 1 \in 0..MaxPackets /\ n + 1 \in Ids /\ MaxPackets \in Nat
  BY BoundsAssumption DEF Ids
<1>2. WellFormed(e, n + 1) /\ e.current = k.current
  BY EnqueueKeeps
<1>3. e.out = IF k.out = NULL THEN n + 1 ELSE k.out
  <2>1. k \in Queues
    BY DEF WellFormed
  <2>2. e = [k EXCEPT !.next = IF k.out # NULL THEN [@ EXCEPT ![k.last] = n + 1] ELSE @,
                      !.out = IF @ = NULL THEN n + 1 ELSE @, !.last = n + 1, !.count = @ + 1]
    BY DEF Enqueue
  <2> QED  BY <2>1, <2>2 DEF Queues
<1> HIDE DEF e
<1>4. /\ w = IF k.out = NULL THEN <<>> ELSE Run(k.out, n)
      /\ w \in Seq(Ids) /\ First(k) \in Seq(Ids) /\ k.out \in 0..MaxPackets
  BY <1>1, ListIs
<1>5. x = Run(e.out, n + 1)
  <2>1. x = IF e.out = NULL THEN <<>> ELSE Run(e.out, n + 1)
    BY <1>1, <1>2, ListIs
  <2>2. e.out # NULL
    BY <1>1, <1>3 DEF NULL
  <2> QED  BY <2>1, <2>2
<1>6. x = Append(w, n + 1)
  <2>1. CASE k.out = NULL
    <3>1. n + 1 <= n + 1 /\ Run(n + 1, n + 1) = Append(Run(n + 1, n), n + 1)
      BY RunAppend
    <3>2. Run(n + 1, n) = <<>>
      <4>1. n - (n + 1) + 1 = 0
        OBVIOUS
      <4> QED  BY <4>1 DEF Run
    <3> HIDE DEF x, w
    <3> QED  BY <1>3, <1>4, <1>5, <2>1, <3>1, <3>2
  <2>2. CASE k.out # NULL
    <3>1. k.out \in Nat /\ k.out <= n + 1
      BY <1>1, <1>4, <2>2 DEF WellFormed
    <3>2. Run(k.out, n + 1) = Append(Run(k.out, n), n + 1)
      BY <3>1, RunAppend
    <3> HIDE DEF x, w
    <3> QED  BY <1>3, <1>4, <1>5, <2>2, <3>2
  <2> QED  BY <2>1, <2>2
<1>7. First(e) = First(k)
  BY <1>2 DEF First
<1> DEFINE c == First(k)
<1> HIDE DEF w, x, c
<1>8. c \o Append(w, n + 1) = Append(c \o w, n + 1)
  <2>1. c \in Seq(Ids) /\ w \in Seq(Ids) /\ n + 1 \in Ids
    BY <1>1, <1>4 DEF c
  <2> QED  BY <2>1
<1>9. Reached(e) = c \o x /\ Reached(k) = c \o w
  BY <1>7 DEF Reached, x, w, c
<1> QED  BY <1>6, <1>8, <1>9 DEF e

\* The packet that was current goes, and nothing else.
LEMMA ReachedAdvance ==
  ASSUME NEW n \in 0..MaxPackets, NEW k, WellFormed(k, n)
  PROVE  Reached(Advance(k)) = Chain(k.next, k.out)
<1>1. /\ Forward(k.next) /\ k.out \in 0..MaxPackets /\ Chain(k.next, k.out) \in Seq(Ids)
      /\ k \in Queues
  BY ListIs DEF WellFormed
<1>2. Chain(k.next, k.out)
        = IF k.out = NULL THEN <<>> ELSE <<k.out>> \o Chain(k.next, k.next[k.out])
  BY <1>1, ChainNext
<1> DEFINE m == Advance(k)
<1>3. CASE k.out = NULL
  <2>1. m.current = NULL /\ m.out = k.out /\ m.next = k.next
    BY <1>1, <1>3 DEF Advance, Queues
  <2> HIDE DEF m
  <2>2. Reached(m) = <<>> \o Chain(k.next, k.out)
    BY <2>1 DEF Reached, First
  <2> QED  BY <1>2, <1>3, <2>2 DEF m
<1>4. CASE k.out # NULL
  <2>1. m.current = k.out /\ m.out = k.next[k.out] /\ m.next = k.next
    BY <1>1, <1>4 DEF Advance, Queues
  <2> HIDE DEF m
  <2>2. Reached(m) = <<k.out>> \o Chain(k.next, k.next[k.out])
    BY <1>4, <2>1 DEF Reached, First
  <2> QED  BY <1>2, <1>4, <2>2 DEF m
<1> QED  BY <1>3, <1>4

\* Taking the head as the packet to write keeps the order.
LEMMA ReachedTake ==
  ASSUME NEW n \in 0..MaxPackets, NEW k, WellFormed(k, n)
  PROVE  Reached(Take(k)) = Reached(k)
<1>1. CASE k.current = NULL
  <2> DEFINE w == Chain(k.next, k.out)
  <2>1. Reached(Take(k)) = w
    BY <1>1, ReachedAdvance DEF Take
  <2>2. w \in Seq(Ids)
    BY ListIs
  <2>3. Reached(k) = <<>> \o w
    BY <1>1 DEF Reached, First
  <2> HIDE DEF w
  <2> QED  BY <2>1, <2>2, <2>3
<1>2. CASE k.current # NULL
  BY <1>2 DEF Take
<1> QED  BY <1>1, <1>2

LEMMA ReachedCleanup ==
  ASSUME NEW n \in 0..MaxPackets, NEW k, WellFormed(k, n)
  PROVE  Reached(CleanupAll(k)) = <<>>
<1> DEFINE m == CleanupAll(k)
<1>1. k \in Queues /\ Forward(k.next) /\ NULL \in 0..MaxPackets
  BY BoundsAssumption, ListIs DEF WellFormed, NULL
<1>2. m.current = NULL /\ m.out = NULL /\ m.next = k.next
  BY <1>1 DEF CleanupAll, Queues
<1> HIDE DEF m
<1>3. Chain(k.next, NULL) = <<>>
  BY <1>1, ChainNext
<1>4. Reached(m) = <<>> \o <<>>
  BY <1>2, <1>3 DEF Reached, First
<1> QED  BY <1>4 DEF m

-----------------------------------------------------------------------------
(***************************************************************************)
(* The queue implements ByteStream.                                        *)
(***************************************************************************)
\* A packet that on_publish is called for has no bytes left.
Drained == pc = "on_publish" /\ q.current # NULL => left[q.current] = 0

\* The same queue, or one that lost only bytes that are out.
LEMMA Stutters ==
  ASSUME Sound,
         \/ UNCHANGED <<q, left>>
         \/ UNCHANGED left /\ q' = Take(q)
         \/ UNCHANGED left /\ q' = Advance(q) /\ (q.current # NULL => left[q.current] = 0)
  PROVE  Pending(Reached(q'), left') = Pending(Reached(q), left)
<1>1. WellFormed(q, Queued) /\ Queued \in 0..MaxPackets /\ left \in Remaining
  BY Numbers DEF Sound, Remaining
<1>2. CASE UNCHANGED <<q, left>>
  BY <1>2
<1>3. CASE UNCHANGED left /\ q' = Take(q)
  BY <1>1, <1>3, ReachedTake
<1>4. CASE UNCHANGED left /\ q' = Advance(q) /\ (q.current # NULL => left[q.current] = 0)
  <2> DEFINE w == Chain(q.next, q.out)
  <2>1. Reached(q') = w
    BY <1>1, <1>4, ReachedAdvance
  <2>2. w \in Seq(Ids) /\ q.current \in 0..MaxPackets
    BY <1>1, ListIs
  <2>3. Reached(q) = First(q) \o w
    BY DEF Reached
  <2> HIDE DEF w
  <2>4. CASE q.current = NULL
    <3>1. Reached(q) = w
      BY <2>2, <2>3, <2>4 DEF First
    <3> QED  BY <1>4, <2>1, <3>1
  <2>5. CASE q.current # NULL
    <3> DEFINE c == q.current
    <3>1. c \in Ids /\ c \in Nat /\ left[c] = 0
      BY <1>4, <2>2, <2>5, BoundsAssumption DEF Ids, NULL
    <3>2. Reached(q) = <<c>> \o w
      BY <2>3, <2>5 DEF First
    <3> HIDE DEF c
    <3>3. Pending(<<c>> \o w, left) = Bytes(c, left[c]) \o Pending(w, left)
      BY <1>1, <2>2, <3>1, PendingPut
    <3>4. Bytes(c, 0) = <<>>
      BY DEF Bytes
    <3>5. Pending(w, left) \in Pieces
      BY <1>1, <2>2, PendingType
    <3>6. <<>> \o Pending(w, left) = Pending(w, left)
      <4> DEFINE S == Nat \X Int
                 x == Pending(w, left)
      <4>1. x \in Seq(S)
        BY <3>5 DEF Pieces
      <4> HIDE DEF S, x
      <4>2. <<>> \o x = x
        BY <4>1
      <4> QED  BY <4>2 DEF x
    <3> QED  BY <1>4, <2>1, <3>1, <3>2, <3>3, <3>4, <3>6
  <2> QED  BY <2>4, <2>5
<1> QED  BY <1>2, <1>3, <1>4

\* What a new packet adds, at the end of the queue or to an empty one.
LEMMA Accepts ==
  ASSUME Sound, NEW command, NewPacket(command),
         NEW k, k = q \/ k = CleanupAll(q),
         q' = Enqueue(k, Queued + 1) \/ q' = Take(Enqueue(k, Queued + 1))
  PROVE  /\ Queued + 1 \in Ids
         /\ Pending(Reached(q'), left')
              = (IF k = q THEN Pending(Reached(q), left) ELSE <<>>) \o Bytes(Queued + 1, Size)
<1> DEFINE n == Queued
           s == Reached(k)
<1>1. /\ WellFormed(q, n) /\ n \in Nat /\ n < MaxPackets /\ n \in 0..MaxPackets
      /\ n + 1 \in 0..MaxPackets /\ n + 1 \in Ids /\ left \in Remaining
  BY Numbers DEF Sound, Remaining, NewPacket, Queued, Ids
<1>2. WellFormed(k, n)
  BY <1>1, CleanupKeeps
<1>3. WellFormed(Enqueue(k, n + 1), n + 1)
  BY <1>1, <1>2, EnqueueKeeps
<1>4. Reached(q') = Append(s, n + 1)
  BY <1>1, <1>2, <1>3, ReachedEnqueue, ReachedTake
<1>5. s \in Seq(Ids) /\ \A i \in 1..Len(s) : s[i] \in 1..n
  <2> DEFINE c == First(k)
             w == Chain(k.next, k.out)
  <2>1. c \in Seq(Ids) /\ w \in Seq(Ids) /\ \A i \in 1..Len(w) : w[i] \in InList(k, n)
    BY <1>1, <1>2, ListIs
  <2>2. k.out \in 0..MaxPackets /\ k.current \in 0..MaxPackets /\ k.current <= n
    BY <1>2 DEF WellFormed, Queues
  <2>3. InList(k, n) \subseteq 1..n
    BY <1>1, <2>2 DEF InList, NULL
  <2>4. \A i \in 1..Len(c) : c[i] \in 1..n
    BY <1>1, <2>2 DEF First, NULL
  <2> HIDE DEF c, w
  <2>5. \A i \in 1..Len(w) : w[i] \in 1..n
    BY <2>1, <2>3
  <2>6. c \o w \in Seq(Ids) /\ \A i \in 1..Len(c \o w) : (c \o w)[i] \in 1..n
    BY <2>1, <2>4, <2>5
  <2> QED  BY <2>6 DEF Reached, c, w
<1> HIDE DEF s
<1>6. /\ left' \in Remaining /\ left'[n + 1] = Size
      /\ \A i \in 1..Len(s) : left'[s[i]] = left[s[i]]
  <2>1. left' = [left EXCEPT ![n + 1] = Size] /\ left \in [Ids -> 0..Size] /\ Size \in 0..Size
    BY <1>1, SizeAssumption DEF NewPacket, Remaining, Queued
  <2>2. \A i \in 1..n : i # n + 1 /\ i \in Ids
    <3>1. MaxPackets \in Nat /\ n \in Nat /\ n < MaxPackets
      BY <1>1, BoundsAssumption
    <3> HIDE DEF n
    <3> QED  BY <3>1 DEF Ids
  <2>3. left' \in [Ids -> 0..Size] /\ left'[n + 1] = Size /\ \A i \in 1..n : left'[i] = left[i]
    BY <1>1, <2>1, <2>2
  <2> QED  BY <1>5, <2>3 DEF Remaining
<1> HIDE DEF n
<1>7. Pending(Append(s, n + 1), left') = Pending(s, left) \o Bytes(n + 1, left'[n + 1])
  BY <1>1, <1>5, <1>6, PendingAppend
<1>8. Pending(s, left) = IF k = q THEN Pending(Reached(q), left) ELSE <<>>
  <2>1. CASE k = q
    BY <2>1 DEF s
  <2>2. CASE k # q
    <3>1. s = <<>>
      BY <1>1, <2>2, ReachedCleanup DEF s
    <3> QED  BY <1>1, <2>2, <3>1, PendingEmpty
  <2> QED  BY <2>1, <2>2
<1> QED  BY <1>1, <1>4, <1>6, <1>7, <1>8 DEF n

\* net__write takes bytes from the front.
LEMMA Writes ==
  ASSUME Sound, NEW n \in 1..Size, NetWrite(n)
  PROVE  LET p == Pending(Reached(q), left)
         IN  /\ n \in 1..Len(p)
             /\ wire' = wire \o SubSeq(p, 1, n)
             /\ Pending(Reached(q'), left') = SubSeq(p, n + 1, Len(p))
<1> DEFINE c == q.current
           l == left[c]
           w == Chain(q.next, q.out)
           p == Pending(Reached(q), left)
           t == Pending(w, left)
           b == Bytes(c, l)
<1>1. /\ WellFormed(q, Queued) /\ Queued \in 0..MaxPackets /\ left \in Remaining
      /\ q.current # NULL => c \in Ids /\ c \notin InList(q, Queued)
  BY Numbers DEF Sound, Remaining
<1>2. c # NULL /\ n <= l /\ q' = q /\ left' = [left EXCEPT ![c] = l - n]
      /\ wire' = wire \o SubSeq(b, 1, n)
  BY DEF NetWrite
<1>3. c \in Ids /\ c \in Nat /\ l \in 0..Size /\ l \in Nat /\ n \in 1..l /\ l - n \in Nat
      /\ l - n \in 0..Size
  <2>1. c \in Ids /\ c \in Nat
    BY <1>1, <1>2 DEF Ids
  <2>2. l \in 0..Size
    BY <1>1, <2>1 DEF Remaining
  <2> HIDE DEF c, l
  <2> QED  BY <1>2, <2>1, <2>2, SizeAssumption
<1>4. /\ w \in Seq(Ids) /\ \A i \in 1..Len(w) : w[i] \in InList(q, Queued)
  BY <1>1, ListIs
<1>5. Reached(q) = <<c>> \o w
  BY <1>2 DEF Reached, First
<1> HIDE DEF c, w
<1>6. p = b \o t
  BY <1>1, <1>3, <1>4, <1>5, PendingPut
<1>7. /\ left' \in Remaining /\ left'[c] = l - n
      /\ \A i \in 1..Len(w) : left'[w[i]] = left[w[i]]
  <2>1. left' \in Remaining /\ left'[c] = l - n /\ \A i \in Ids : i # c => left'[i] = left[i]
    <3> HIDE DEF l
    <3> QED  BY <1>1, <1>2, <1>3 DEF Remaining
  <2>2. \A i \in 1..Len(w) : w[i] \in Ids /\ w[i] # c
    BY <1>1, <1>2, <1>4 DEF c
  <2> QED  BY <2>1, <2>2
<1>8. Pending(Reached(q'), left') = Bytes(c, l - n) \o t
  <2>1. Pending(<<c>> \o w, left') = Bytes(c, left'[c]) \o Pending(w, left')
    BY <1>3, <1>4, <1>7, PendingPut
  <2>2. Pending(w, left') = t
    BY <1>1, <1>4, <1>7, PendingSame
  <2> HIDE DEF l, t
  <2> QED  BY <1>2, <1>5, <1>7, <2>1, <2>2
<1> HIDE DEF l
<1>9. b \in Pieces /\ Len(b) = l
  BY <1>3, BytesAre
<1>10. t \in Pieces
  BY <1>1, <1>4, PendingType
<1>11. SubSeq(b, n + 1, l) = Bytes(c, l - n)
  BY <1>3, BytesTail
<1> HIDE DEF b, t, p
<1>12. /\ SubSeq(b \o t, 1, n) = SubSeq(b, 1, n)
       /\ SubSeq(b \o t, n + 1, Len(b \o t)) = SubSeq(b, n + 1, Len(b)) \o t
       /\ Len(b \o t) = Len(b) + Len(t) /\ Len(t) \in Nat
  <2> DEFINE S == Nat \X Int
  <2>1. b \in Seq(S) /\ t \in Seq(S) /\ n \in 1..Len(b)
    BY <1>3, <1>9, <1>10 DEF Pieces
  <2>2. Len(t) \in Nat
    BY <2>1
  <2> HIDE DEF S
  <2>3. /\ SubSeq(b \o t, 1, n) = SubSeq(b, 1, n)
        /\ SubSeq(b \o t, n + 1, Len(b \o t)) = SubSeq(b, n + 1, Len(b)) \o t
        /\ Len(b \o t) = Len(b) + Len(t)
    BY ONLY <2>1, Cut
  <2> QED  BY <2>2, <2>3
<1>13. n \in 1..Len(p)
  BY <1>3, <1>6, <1>9, <1>12
<1>14. wire' = wire \o SubSeq(p, 1, n)
  BY <1>2, <1>6, <1>12
<1>15. Pending(Reached(q'), left') = SubSeq(p, n + 1, Len(p))
  BY <1>6, <1>8, <1>9, <1>11, <1>12
<1> QED  BY <1>13, <1>14, <1>15 DEF p


LEMMA InitDrained == Init => Drained
BY DEF Init, Drained

\* packet__write calls on_publish only for a packet that is out, and a callback
\* that reconnects leaves no current packet.
LEMMA DrainedStep ==
  ASSUME Sound, Drained, [Next]_vars
  PROVE  Drained'
<1> SUFFICES ASSUME pc' = "on_publish", q'.current # NULL
             PROVE  left'[q'.current] = 0
  BY DEF Drained
<1>1. CASE UNCHANGED vars
  BY <1>1 DEF vars, Drained
<1>2. ASSUME NEW command \in Commands \cup {"CONNECT"}, NewPacket(command),
             NEW k, k = q \/ k = CleanupAll(q), AfterQueue(Enqueue(k, Queued + 1))
      PROVE  left'[q'.current] = 0
  <2>1. pc = "on_publish" /\ q' = Enqueue(k, Queued + 1)
    BY <1>2 DEF AfterQueue
  <2>2. /\ WellFormed(q, Queued) /\ Queued \in Nat /\ Queued < MaxPackets
        /\ Queued \in 0..MaxPackets
    BY <1>2, Numbers DEF Sound, NewPacket, Queued
  <2>3. WellFormed(k, Queued) /\ (k # q => k.current = NULL)
    BY <1>2, <2>2, CleanupKeeps
  <2>4. q'.current = k.current
    BY <2>1, <2>2, <2>3, EnqueueKeeps
  <2>5. q'.current = q.current /\ q.current # NULL
    BY <2>3, <2>4
  <2>6. left[q.current] = 0
    BY <2>1, <2>5 DEF Drained
  <2>7. q.current \in Ids /\ q.current <= Queued /\ Queued \in Nat /\ q.current # Queued + 1
    BY <2>5, Numbers DEF Ids
  <2>8. left' = [left EXCEPT ![Queued + 1] = Size] /\ left \in [Ids -> 0..Size]
    BY <1>2 DEF NewPacket, Sound, Queued
  <2> QED  BY <2>5, <2>6, <2>7, <2>8
<1>3. CASE Calls
  <2>1. ASSUME NEW command \in Commands, PacketQueue(command) PROVE left'[q'.current] = 0
    BY <1>2, <2>1 DEF PacketQueue, Queued
  <2>2. ASSUME NEW command \in Commands, PacketQueueInOtherCallback(command) PROVE FALSE
    BY <2>2 DEF PacketQueueInOtherCallback
  <2>3. ASSUME Reconnect PROVE left'[q'.current] = 0
    BY <1>2, <2>3 DEF Reconnect, Queued
  <2> QED  BY <1>3, <2>1, <2>2, <2>3 DEF Calls
<1>4. CASE Write
  <2>1. SentPublish
    BY <1>4 DEF Write, NetWrite, NetWriteStops, SentOther, SentDisconnect, Written,
                OnPublishReturns, OnDisconnectReturns, WriteReturns
  <2> QED  BY <2>1 DEF SentPublish, Written
<1>5. CASE LoopWrite \/ LoopClosesSocket
  BY <1>5 DEF LoopWrite, LoopClosesSocket
<1> QED  BY <1>1, <1>3, <1>4, <1>5 DEF Next

LEMMA PendingIsOf == PendingOf(Owned) = Pending(Reached(q), left)
BY DEF PendingOf, Pending, Sums, Owned, Waiting, Reached, First

LEMMA PendingIsOfNext == PendingOf(Owned)' = Pending(Reached(q'), left')
BY DEF PendingOf, Pending, Sums, Owned, Waiting, Reached, First

LEMMA InitStream == Init => Stream!Init
<1> SUFFICES ASSUME Init PROVE PendingOf(Owned) = <<>> /\ wire = <<>>
  BY DEF Stream!Init
<1>1. WellFormed(q, 0) /\ 0 \in 0..MaxPackets /\ left \in Remaining
  <2>1. IInv /\ Len(kind) = 0
    BY InitIInv DEF Init
  <2> QED  BY <2>1, Numbers DEF IInv, Sound, Queued, Remaining
<1>2. q.out = NULL /\ q.current = NULL
  BY DEF Init
<1>3. Chain(q.next, q.out) = <<>>
  BY <1>1, <1>2, ListIs
<1>4. Reached(q) = <<>>
  BY <1>2, <1>3 DEF Reached, First
<1> QED  BY <1>1, <1>4, PendingIsOf, PendingEmpty DEF Init

\* A queued packet is an Accept, mosquitto__reconnect a Restart, net__write a
\* Write; the other steps leave the stream as it is.
LEMMA StreamStep ==
  ASSUME IInv, Drained, [Next]_vars
  PROVE  [Stream!Next]_(Stream!vars)
<1> DEFINE p == PendingOf(Owned)
           Same == p' = p /\ wire' = wire
           Put == \E i \in Ids : p' = p \o Bytes(i, Size) /\ wire' = wire
           New == \E i \in Ids : p' = Bytes(i, Size) /\ wire' = <<>>
           Out == \E n \in 1..Len(p) :
                    wire' = wire \o SubSeq(p, 1, n) /\ p' = SubSeq(p, n + 1, Len(p))
<1>1. Sound
  BY DEF IInv
<1>2. p = Pending(Reached(q), left) /\ p' = Pending(Reached(q'), left')
  BY PendingIsOf, PendingIsOfNext
<1>3. SUFFICES Same \/ Put \/ New \/ Out
  BY DEF Stream!Next, Stream!vars, Stream!Accept, Stream!Write, Stream!Restart
<1> HIDE DEF p
<1>4. CASE UNCHANGED vars
  BY <1>1, <1>2, <1>4, Stutters DEF vars
<1>5. ASSUME NEW command \in Commands,
             PacketQueue(command) \/ PacketQueueInOtherCallback(command)
      PROVE  Put
  <2>1. /\ NewPacket(command) /\ UNCHANGED wire
        /\ q' = Enqueue(q, Queued + 1) \/ q' = Take(Enqueue(q, Queued + 1))
    BY <1>5 DEF PacketQueue, PacketQueueInOtherCallback, AfterQueue, Queued
  <2>2. Queued + 1 \in Ids /\ p' = p \o Bytes(Queued + 1, Size)
    BY <1>1, <1>2, <2>1, Accepts
  <2> QED  BY <2>1, <2>2
<1>6. CASE Reconnect
  <2> DEFINE k == CleanupAll(q)
  <2>1. /\ NewPacket("CONNECT") /\ wire' = <<>>
        /\ q' = Enqueue(k, Queued + 1) \/ q' = Take(Enqueue(k, Queued + 1))
    BY <1>6 DEF Reconnect, AfterQueue, Queued
  <2>2. Queued + 1 \in Ids /\ p' = (IF k = q THEN p ELSE <<>>) \o Bytes(Queued + 1, Size)
    BY <1>1, <1>2, <2>1, Accepts
  <2>3. k = q => p = <<>>
    <3>1. Reached(k) = <<>>
      BY <1>1, Numbers, ReachedCleanup DEF Sound
    <3>2. left \in Remaining
      BY <1>1 DEF Sound, Remaining
    <3> QED  BY <1>2, <3>1, <3>2, PendingEmpty
  <2> DEFINE b == Bytes(Queued + 1, Size)
  <2>4. b \in Pieces
    BY <2>2, BytesAre, SizeAssumption DEF Ids
  <2>5. <<>> \o b = b
    <3> DEFINE S == Nat \X Int
    <3>1. b \in Seq(S)
      BY <2>4 DEF Pieces
    <3> HIDE DEF S, b
    <3> QED  BY <3>1
  <2>6. p' = b
    BY <2>2, <2>3, <2>5
  <2> QED  BY <2>1, <2>2, <2>6
<1>7. ASSUME NEW n \in 1..Size, NetWrite(n) PROVE Out
  <2>1. /\ n \in 1..Len(p) /\ wire' = wire \o SubSeq(p, 1, n)
        /\ p' = SubSeq(p, n + 1, Len(p))
    BY <1>1, <1>2, <1>7, Writes
  <2> QED  BY <2>1
<1>8. CASE NetWriteStops \/ SentPublish \/ OnDisconnectReturns \/ WriteReturns
           \/ LoopClosesSocket
  <2>1. UNCHANGED <<q, left, wire>>
    BY <1>8 DEF NetWriteStops, SentPublish, OnDisconnectReturns, WriteReturns, LoopClosesSocket
  <2> QED  BY <1>1, <1>2, <2>1, Stutters
<1>9. CASE LoopWrite
  <2>1. UNCHANGED <<left, wire>> /\ q' = Take(q)
    BY <1>9 DEF LoopWrite
  <2> QED  BY <1>1, <1>2, <2>1, Stutters
<1>10. CASE SentOther \/ SentDisconnect \/ OnPublishReturns
  <2>1. UNCHANGED <<left, wire>> /\ q' = Advance(q) /\ (q.current # NULL => left[q.current] = 0)
    BY <1>10 DEF SentOther, SentDisconnect, OnPublishReturns, Written, Drained
  <2> QED  BY <1>1, <1>2, <2>1, Stutters
<1> HIDE DEF Same, Put, New, Out
<1> QED  BY <1>4, <1>5, <1>6, <1>7, <1>8, <1>9, <1>10 DEF Next, Calls, Write

-----------------------------------------------------------------------------
(***************************************************************************)
(* The theorems.                                                           *)
(***************************************************************************)
\* out_packet, out_packet_last, the count, the next pointers and the packet being
\* written keep their types.
THEOREM TypeCorrect == Spec => []TypeOK
<1>1. IInv => TypeOK
  BY DEF IInv, Sound, TypeOK, WellFormed, Queues, Queued
<1> QED  BY <1>1, Invariant, PTL

\* on_publish is called once for a packet and only when all of its bytes are out,
\* whatever the application does in its callbacks.
THEOREM ToldOnceWritten == Spec => []ToldWhenWritten
<1>1. IInv => ToldWhenWritten
  <2>1. IInv => DOMAIN told = 1..Len(told)
    BY DEF IInv, Reported
  <2> QED  BY <2>1 DEF IInv, Reported, ToldWhenWritten
<1> QED  BY <1>1, Invariant, PTL

\* Every packet is freed once, and none is forgotten, as long as on_publish does
\* not reconnect: the list may be emptied at any moment, in on_disconnect too.
THEOREM FreedExactlyOnce ==
  ASSUME "on_publish" \notin ReconnectsIn
  PROVE  Spec => []FreedOnce
<1>1. IInv => FreedOnce
  <2> SUFFICES ASSUME IInv PROVE FreedOnce
    OBVIOUS
  <2>1. Sound /\ Exact
    BY DEF IInv
  <2>2. Members(Owned) = Held(q, Queued)
    BY <2>1, Numbers, OwnedIs DEF Sound
  <2>3. DOMAIN kind = 1..Queued
    BY <2>1 DEF Sound, Queued
  <2> QED  BY <2>1, <2>2, <2>3 DEF Sound, Exact, FreedOnce
<1> QED  BY <1>1, Invariant, PTL

\* The bytes of the packets come out of the socket once each and in order, however
\* the socket cuts them and whatever the application does in on_publish and
\* on_disconnect, and a new connection starts with none of those of the old one.
THEOREM BytesInOrder == Spec => ImplementsStream
<1>1. Init => IInv /\ Drained /\ Stream!Init
  BY InitIInv, InitDrained, InitStream
<1>2. IInv /\ Drained /\ [Next]_vars => IInv' /\ Drained' /\ [Stream!Next]_(Stream!vars)
  BY Inductive, DrainedStep, StreamStep DEF IInv
<1> QED  BY <1>1, <1>2, PTL DEF Spec, ImplementsStream, Stream!Spec
=============================================================================
