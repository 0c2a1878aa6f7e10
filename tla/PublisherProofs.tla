--------------------------- MODULE PublisherProofs ---------------------------
(***************************************************************************)
(* Theorems about Publisher, for every window size, every range of message *)
(* ids and any number of publishes and faults: first facts about the       *)
(* operations on the list of outgoing messages, for every list, quota and  *)
(* value of the constants, then the invariants of the client, and that it  *)
(* implements Delivery.                                                    *)
(***************************************************************************)
EXTENDS Publisher, MessageListProofs, FiniteSetTheorems

-----------------------------------------------------------------------------
(***************************************************************************)
(* The list of outgoing messages.  The facts are stated through            *)
(* Split(q, k): exactly the first k messages of q are in flight.           *)
(***************************************************************************)
Split(q, k) ==
  /\ k \in 0..Len(q)
  /\ \A i \in 1..Len(q) : Held(q[i]) <=> i > k

Least(a, b) == IF a <= b THEN a ELSE b

\* What holds of the list and the quota whenever no handler is running.  up
\* says that the connection works.
Window(q, quota, up) ==
  \E k \in 0..Len(q) :
    /\ Split(q, k)
    /\ k < Len(q) => k >= InflightMaximum
    /\ quota + k >= InflightMaximum
    /\ up => quota + k = InflightMaximum

\* What holds in the middle of a handler: a unit of the window may be free
\* while messages are held back, but not more than one.
Room(q, quota, up) ==
  \E k \in 0..Len(q) :
    /\ Split(q, k)
    /\ k < Len(q) => k + 1 >= InflightMaximum
    /\ quota + k >= InflightMaximum
    /\ up => quota + k = InflightMaximum

-----------------------------------------------------------------------------
\* In a split list the messages in flight are a prefix, counted by its length.
LEMMA SplitInflight ==
  ASSUME NEW q \in Seq(Message), NEW k, Split(q, k)
  PROVE  /\ Inflight(q) = 1..k
         /\ Cardinality(Inflight(q)) = k
<1>1. k \in Nat /\ k <= Len(q) /\ Len(q) \in Nat /\ DOMAIN q = 1..Len(q)
  BY DEF Split
<1>2. Inflight(q) = 1..k
  BY <1>1 DEF Inflight, Split
<1>3. Cardinality(1..k) = k
  BY <1>1, FS_Interval
<1> QED  BY <1>2, <1>3

\* The first n held messages of a split list are those right after the prefix.
LEMMA FirstHeldInterval ==
  ASSUME NEW q \in Seq(Message), NEW k, Split(q, k), NEW n \in Nat
  PROVE  FirstHeld(q, n) = (k + 1)..Least(k + n, Len(q))
<1>1. k \in Nat /\ k <= Len(q) /\ Len(q) \in Nat /\ DOMAIN q = 1..Len(q)
  BY DEF Split
<1>2. ASSUME NEW i \in 1..Len(q), i > k
      PROVE  Cardinality({j \in 1..i : Held(q[j])}) = i - k
  <2>1. {j \in 1..i : Held(q[j])} = (k + 1)..i
    BY <1>1, <1>2 DEF Split
  <2>2. Cardinality((k + 1)..i) = i - k
    BY <1>1, <1>2, FS_Interval
  <2> QED  BY <2>1, <2>2
<1>3. ASSUME NEW i \in 1..Len(q)
      PROVE  i \in FirstHeld(q, n) <=> i > k /\ i <= k + n
  <2>1. Held(q[i]) <=> i > k
    BY DEF Split
  <2>2. CASE i > k
    BY <1>1, <1>2, <2>1, <2>2 DEF FirstHeld
  <2>3. CASE ~(i > k)
    BY <1>1, <2>1, <2>3 DEF FirstHeld
  <2> QED  BY <2>2, <2>3
<1>4. FirstHeld(q, n) \subseteq 1..Len(q)
  BY <1>1 DEF FirstHeld
<1>5. \A i \in Int : i \in (k + 1)..Least(k + n, Len(q))
                       <=> i \in 1..Len(q) /\ i > k /\ i <= k + n
  BY <1>1 DEF Least
<1>6. (k + 1)..Least(k + n, Len(q)) \subseteq Int
  OBVIOUS
<1>7. \A i : i \in FirstHeld(q, n) <=> i \in (k + 1)..Least(k + n, Len(q))
  BY <1>1, <1>3, <1>4, <1>5, <1>6
<1> QED  BY <1>7

-----------------------------------------------------------------------------
LEMMA WaitingType ==
  ASSUME NEW m \in Message
  PROVE  Waiting(m) \in Message /\ ~Held(Waiting(m))
BY DEF Waiting, Message, MsgStates, Held

\* Moving a range right after the prefix into flight makes the prefix longer.
LEMMA MoveSplit ==
  ASSUME NEW q \in Seq(Message), NEW k, Split(q, k),
         NEW m \in Nat, k <= m, m <= Len(q)
  PROVE  /\ MoveToInflight(q, (k + 1)..m) \in Seq(Message)
         /\ Len(MoveToInflight(q, (k + 1)..m)) = Len(q)
         /\ Split(MoveToInflight(q, (k + 1)..m), m)
<1> DEFINE r == MoveToInflight(q, (k + 1)..m)
<1>1. k \in Nat /\ Len(q) \in Nat /\ DOMAIN q = 1..Len(q)
  BY DEF Split
<1>2. ASSUME NEW i \in 1..Len(q)
      PROVE  /\ Waiting(q[i]) \in Message
             /\ ~Held(Waiting(q[i]))
             /\ q[i] \in Message
  BY <1>1, WaitingType
<1>3. r = [i \in 1..Len(q) |-> IF i \in (k + 1)..m THEN Waiting(q[i]) ELSE q[i]]
  BY <1>1 DEF MoveToInflight
<1> HIDE DEF r
<1>4. r \in Seq(Message) /\ Len(r) = Len(q)
  BY <1>1, <1>2, <1>3
<1>5. ASSUME NEW i \in 1..Len(q)
      PROVE  Held(r[i]) <=> i > m
  <2>1. CASE i \in (k + 1)..m
    BY <1>1, <1>2, <1>3, <2>1
  <2>2. CASE i \notin (k + 1)..m
    BY <1>1, <1>3, <2>2 DEF Split
  <2> QED  BY <2>1, <2>2
<1> QED  BY <1>4, <1>5 DEF Split, r

\* message__release_to_inflight keeps or restores the window, whether its
\* sends succeed or not; on a working connection they succeed.
LEMMA ReleaseWindow ==
  ASSUME NEW q \in Seq(Message), NEW quota \in 0..InflightMaximum,
         NEW ok \in BOOLEAN, NEW up \in BOOLEAN, up => ok,
         NEW k, Split(q, k),
         k < Len(q) => k + 1 >= InflightMaximum \/ k + 1 = Len(q),
         quota + k >= InflightMaximum,
         up => quota + k = InflightMaximum
  PROVE  LET r == ReleaseToInflight(q, quota, ok)
         IN /\ r.inflight \in Seq(Message)
            /\ r.quota \in 0..InflightMaximum
            /\ Window(r.inflight, r.quota, up)
<1> DEFINE r == ReleaseToInflight(q, quota, ok)
<1> SUFFICES /\ r.inflight \in Seq(Message)
             /\ r.quota \in 0..InflightMaximum
             /\ Window(r.inflight, r.quota, up)
  OBVIOUS
<1>1. k \in Nat /\ k <= Len(q) /\ Len(q) \in Nat /\ quota \in Nat
      /\ InflightMaximum \in Nat \ {0}
  BY InflightMaximumAssumption DEF Split
<1>2. CASE ok
  <2> DEFINE m == Least(k + quota, Len(q))
  <2>1. m \in Nat /\ k <= m /\ m <= Len(q) /\ m - k <= quota
    BY <1>1 DEF Least
  <2>2. ReleasedSet(q, quota, ok) = (k + 1)..m
    BY <1>1, <1>2, FirstHeldInterval DEF ReleasedSet
  <2> HIDE DEF m
  <2>3. Cardinality((k + 1)..m) = m - k
    <3>1. k + 1 \in Int /\ m \in Int
      BY <1>1, <2>1
    <3>2. Cardinality((k + 1)..m) = IF k + 1 > m THEN 0 ELSE m - (k + 1) + 1
      BY <3>1, FS_Interval
    <3> QED  BY <1>1, <2>1, <3>2
  <2>4. r.inflight = MoveToInflight(q, (k + 1)..m) /\ r.quota = quota - (m - k)
    BY <1>2, <2>2, <2>3 DEF ReleaseToInflight
  <2>5. r.inflight \in Seq(Message) /\ Len(r.inflight) = Len(q) /\ Split(r.inflight, m)
    BY <2>1, <2>4, MoveSplit
  <2>6. r.quota + m = quota + k /\ r.quota \in 0..InflightMaximum
    BY <1>1, <2>1, <2>4
  <2>7. m < Len(q) => m >= InflightMaximum
    BY <1>1, <2>1 DEF Least, m
  <2> HIDE DEF r
  <2>8. r.quota + m >= InflightMaximum /\ (up => r.quota + m = InflightMaximum)
    BY <2>6
  <2> QED  BY <2>1, <2>5, <2>6, <2>7, <2>8 DEF Window, Split
<1>3. CASE ~ok /\ quota > 0 /\ k < Len(q)
  <2>1. ReleasedSet(q, quota, ok) = (k + 1)..(k + 1)
    BY <1>1, <1>3, FirstHeldInterval DEF ReleasedSet, Least
  <2>2. r.inflight = MoveToInflight(q, (k + 1)..(k + 1)) /\ r.quota = quota
    BY <1>3, <2>1 DEF ReleaseToInflight
  <2>3. r.inflight \in Seq(Message) /\ Len(r.inflight) = Len(q) /\ Split(r.inflight, k + 1)
    <3> DEFINE m == k + 1
    <3>1. m \in Nat /\ k <= m /\ m <= Len(q)
      BY <1>1, <1>3
    <3>2. r.inflight = MoveToInflight(q, (k + 1)..m)
      BY <2>2
    <3> HIDE DEF m, r
    <3>3. r.inflight \in Seq(Message) /\ Len(r.inflight) = Len(q) /\ Split(r.inflight, m)
      BY <3>1, <3>2, MoveSplit
    <3> QED  BY <3>3 DEF m
  <2> HIDE DEF r
  <2>4. k + 1 < Len(q) => k + 1 >= InflightMaximum
    BY <1>1
  <2>5. r.quota + (k + 1) >= InflightMaximum /\ r.quota \in 0..InflightMaximum
    BY <1>1, <2>2
  <2>6. ~up
    BY <1>3
  <2> QED  BY <2>3, <2>4, <2>5, <2>6 DEF Window, Split
<1>4. CASE ~ok /\ ~(quota > 0 /\ k < Len(q))
  <2>1. ReleasedSet(q, quota, ok) = (k + 1)..k
    <3>1. CASE quota > 0
      BY <1>1, <1>4, <3>1, FirstHeldInterval DEF ReleasedSet, Least
    <3>2. CASE ~(quota > 0)
      BY <1>1, <1>4, <3>2 DEF ReleasedSet
    <3> QED  BY <3>1, <3>2
  <2>2. r.inflight = MoveToInflight(q, (k + 1)..k) /\ r.quota = quota
    BY <1>4, <2>1 DEF ReleaseToInflight
  <2>3. r.inflight \in Seq(Message) /\ Len(r.inflight) = Len(q) /\ Split(r.inflight, k)
    <3>1. k \in Nat /\ k <= k /\ k <= Len(q)
      BY <1>1
    <3> HIDE DEF r
    <3> QED  BY <2>2, <3>1, MoveSplit
  <2>4. k < Len(q) => k >= InflightMaximum
    BY <1>1, <1>4
  <2> HIDE DEF r
  <2>5. r.quota + k >= InflightMaximum /\ r.quota \in 0..InflightMaximum
    BY <1>1, <2>2
  <2>6. ~up
    BY <1>4
  <2> QED  BY <2>3, <2>4, <2>5, <2>6 DEF Window, Split
<1> QED  BY <1>2, <1>3, <1>4

-----------------------------------------------------------------------------
\* message__queue: a new message joins the list and the window is kept.  It
\* may be called from a callback in the middle of handle__pubackcomp.
LEMMA QueueWindow ==
  ASSUME NEW q \in Seq(Message), NEW quota \in 0..InflightMaximum,
         NEW m \in Message, Held(m),
         NEW ok \in BOOLEAN, NEW up \in BOOLEAN, up => ok,
         Room(q, quota, up)
  PROVE  LET r == MessageQueue(q, quota, m, ok)
         IN /\ r.inflight \in Seq(Message)
            /\ r.quota \in 0..InflightMaximum
            /\ Window(r.inflight, r.quota, up)
<1> DEFINE a == Append(q, m)
<1>1. PICK k \in 0..Len(q) :
        /\ Split(q, k)
        /\ k < Len(q) => k + 1 >= InflightMaximum
        /\ quota + k >= InflightMaximum
        /\ up => quota + k = InflightMaximum
  BY DEF Room
<1>2. a \in Seq(Message) /\ Len(a) = Len(q) + 1 /\ Len(q) \in Nat
  OBVIOUS
<1>3. Split(a, k)
  <2>1. ASSUME NEW i \in 1..Len(a)
        PROVE  Held(a[i]) <=> i > k
    <3>1. CASE i = Len(q) + 1
      BY <1>1, <1>2, <3>1
    <3>2. CASE i # Len(q) + 1
      <4>1. i \in 1..Len(q) /\ a[i] = q[i]
        BY <1>2, <3>2
      <4> QED  BY <1>1, <4>1 DEF Split
    <3> QED  BY <3>1, <3>2
  <2> QED  BY <1>1, <1>2, <2>1 DEF Split
<1>4. k < Len(a) => k + 1 >= InflightMaximum \/ k + 1 = Len(a)
  BY <1>1, <1>2
<1> HIDE DEF a
<1>5. LET r == ReleaseToInflight(a, quota, ok)
      IN /\ r.inflight \in Seq(Message)
         /\ r.quota \in 0..InflightMaximum
         /\ Window(r.inflight, r.quota, up)
  BY <1>1, <1>2, <1>3, <1>4, ReleaseWindow
<1> QED  BY <1>5 DEF MessageQueue, a

\* The release at the end of handle__pubackcomp.
LEMMA ReleaseRoom ==
  ASSUME NEW q \in Seq(Message), NEW quota \in 0..InflightMaximum,
         NEW ok \in BOOLEAN, NEW up \in BOOLEAN, up => ok,
         Room(q, quota, up)
  PROVE  LET r == ReleaseToInflight(q, quota, ok)
         IN /\ r.inflight \in Seq(Message)
            /\ r.quota \in 0..InflightMaximum
            /\ Window(r.inflight, r.quota, up)
<1>1. PICK k \in 0..Len(q) :
        /\ Split(q, k)
        /\ k < Len(q) => k + 1 >= InflightMaximum
        /\ quota + k >= InflightMaximum
        /\ up => quota + k = InflightMaximum
  BY DEF Room
<1> QED  BY <1>1, ReleaseWindow

LEMMA WindowRoom ==
  ASSUME NEW q \in Seq(Message), NEW quota, NEW up, Window(q, quota, up)
  PROVE  Room(q, quota, up)
BY InflightMaximumAssumption DEF Window, Room

-----------------------------------------------------------------------------
\* handle__pubackcomp: removing a message in flight and giving its unit back.
LEMMA RemoveRoom ==
  ASSUME NEW q \in Seq(Message), NEW quota \in 0..InflightMaximum, NEW up \in BOOLEAN,
         Window(q, quota, up), NEW i \in DOMAIN q, ~Held(q[i])
  PROVE  /\ RemoveFrom(q, i) \in Seq(Message)
         /\ IncrementQuota(quota) \in 0..InflightMaximum
         /\ Room(RemoveFrom(q, i), IncrementQuota(quota), up)
<1> DEFINE r == RemoveFrom(q, i)
           n == IncrementQuota(quota)
<1>1. PICK k \in 0..Len(q) :
        /\ Split(q, k)
        /\ k < Len(q) => k >= InflightMaximum
        /\ quota + k >= InflightMaximum
        /\ up => quota + k = InflightMaximum
  BY DEF Window
<1>2. Len(q) \in Nat /\ i \in 1..Len(q) /\ i <= k /\ k \in Nat \ {0}
  BY <1>1 DEF Split
<1>3. r = [j \in 1..(Len(q) - 1) |-> IF j < i THEN q[j] ELSE q[j + 1]]
  BY DEF RemoveFrom
<1>4. r \in Seq(Message) /\ Len(r) = Len(q) - 1
  BY <1>2, <1>3
<1>5. Split(r, k - 1)
  <2>1. ASSUME NEW j \in 1..Len(r)
        PROVE  Held(r[j]) <=> j > k - 1
    <3>1. CASE j < i
      BY <1>1, <1>2, <1>3, <1>4, <3>1 DEF Split
    <3>2. CASE ~(j < i)
      <4>1. r[j] = q[j + 1] /\ j + 1 \in 1..Len(q)
        BY <1>2, <1>3, <1>4, <3>2
      <4>2. Held(q[j + 1]) <=> j + 1 > k
        BY <1>1, <4>1 DEF Split
      <4> QED  BY <1>2, <4>1, <4>2
    <3> QED  BY <3>1, <3>2
  <2> QED  BY <1>2, <1>4, <2>1 DEF Split
<1>6. n \in 0..InflightMaximum /\ n + (k - 1) >= InflightMaximum
  BY <1>1, <1>2, InflightMaximumAssumption DEF IncrementQuota
<1>7. quota + k = InflightMaximum => n + (k - 1) = InflightMaximum
  BY <1>1, <1>2, InflightMaximumAssumption DEF IncrementQuota
<1>8. k - 1 < Len(r) => (k - 1) + 1 >= InflightMaximum
  BY <1>1, <1>2, <1>4
<1>9. up => n + (k - 1) = InflightMaximum
  BY <1>1, <1>7
<1>10. k - 1 \in 0..Len(r)
  BY <1>2, <1>4
<1> HIDE DEF r, n
<1>11. Room(r, n, up)
  BY <1>5, <1>6, <1>8, <1>9, <1>10 DEF Room
<1> QED  BY <1>4, <1>6, <1>11 DEF r, n

\* handle__pubrec: a message in flight moves on and stays in flight.
LEMMA UpdateWindow ==
  ASSUME NEW q \in Seq(Message), NEW quota, NEW up,
         Window(q, quota, up), NEW i \in DOMAIN q, ~Held(q[i])
  PROVE  LET r == [q EXCEPT ![i].state = "wait_for_pubcomp"]
         IN r \in Seq(Message) /\ Window(r, quota, up)
<1> DEFINE r == [q EXCEPT ![i].state = "wait_for_pubcomp"]
<1>1. i \in 1..Len(q) /\ q[i] \in Message /\ Len(q) \in Nat
  OBVIOUS
<1>2. [q[i] EXCEPT !.state = "wait_for_pubcomp"] \in Message
  BY <1>1 DEF Message, MsgStates
<1>3. r \in Seq(Message) /\ Len(r) = Len(q)
  BY <1>1, <1>2
<1>4. ASSUME NEW j \in 1..Len(q)
      PROVE  Held(r[j]) <=> Held(q[j])
  BY <1>1, <1>2 DEF Held, Message
<1> HIDE DEF r
<1>5. ASSUME NEW k, Split(q, k)
      PROVE  Split(r, k)
  BY <1>3, <1>4, <1>5 DEF Split
<1>6. Window(r, quota, up)
  BY <1>3, <1>5 DEF Window
<1> QED  BY <1>3, <1>6 DEF r

-----------------------------------------------------------------------------
\* A message in flight stays in flight when it is reset or marked for retry.
LEMMA ResendType ==
  ASSUME NEW m \in Message
  PROVE  /\ [m EXCEPT !.state = ResendState(m)] \in Message
         /\ [m EXCEPT !.state = "invalid"] \in Message
         /\ Held([m EXCEPT !.state = "invalid"])
         /\ [m EXCEPT !.dup = TRUE] \in Message
         /\ Held([m EXCEPT !.dup = TRUE]) <=> Held(m)
         /\ ~Held(m) => ~Held([m EXCEPT !.state = ResendState(m)])
<1>1. ResendState(m) \in MsgStates /\ (m.state # "invalid" => ResendState(m) # "invalid")
  BY DEF ResendState, Message, MsgStates
<1> QED  BY <1>1 DEF Message, Held, MsgStates

\* message__reconnect_reset: whatever the window looked like, and however
\* many sends had failed, it is exactly full or holds the whole list.
LEMMA ResetWindow ==
  ASSUME NEW q \in Seq(Message), NEW quota, NEW up, NEW b \in BOOLEAN, NEW now,
         Window(q, quota, up)
  PROVE  /\ ReconnectReset(q, b) \in Seq(Message)
         /\ QuotaAfterReset(q) \in 0..InflightMaximum
         /\ Window(ReconnectReset(q, b), QuotaAfterReset(q), now)
<1> DEFINE r == ReconnectReset(q, b)
           k == Least(InflightMaximum, Len(q))
<1>1. PICK h \in 0..Len(q) : Split(q, h) /\ (h < Len(q) => h >= InflightMaximum)
  BY DEF Window
<1>2. Len(q) \in Nat /\ DOMAIN q = 1..Len(q) /\ InflightMaximum \in Nat \ {0}
  BY InflightMaximumAssumption
<1>3. k \in 0..Len(q) /\ k <= InflightMaximum
  BY <1>2 DEF Least
<1>4. r = [i \in 1..Len(q) |->
             IF i > InflightMaximum THEN [q[i] EXCEPT !.state = "invalid"]
             ELSE IF b THEN q[i]
             ELSE [q[i] EXCEPT !.state = ResendState(q[i])]]
  BY <1>2 DEF ReconnectReset
<1> HIDE DEF r
<1>5. ASSUME NEW i \in 1..Len(q)
      PROVE  r[i] \in Message /\ (Held(r[i]) <=> i > k)
  <2>1. q[i] \in Message
    OBVIOUS
  <2>2. CASE i > InflightMaximum
    <3>1. r[i] = [q[i] EXCEPT !.state = "invalid"]
      BY <1>2, <1>4, <2>2
    <3>2. i > k
      BY <1>2, <1>3, <2>2
    <3>3. /\ [q[i] EXCEPT !.state = "invalid"] \in Message
          /\ Held([q[i] EXCEPT !.state = "invalid"])
      BY <2>1, ResendType
    <3> QED  BY <3>1, <3>2, <3>3
  <2>3. CASE ~(i > InflightMaximum)
    <3>1. ~Held(q[i])
      BY <1>1, <1>2, <2>3 DEF Split
    <3>2. ~(i > k)
      BY <1>2, <2>3 DEF Least
    <3>3. /\ [q[i] EXCEPT !.state = ResendState(q[i])] \in Message
          /\ ~Held([q[i] EXCEPT !.state = ResendState(q[i])])
      BY <2>1, <3>1, ResendType
    <3>4. r[i] = q[i] \/ r[i] = [q[i] EXCEPT !.state = ResendState(q[i])]
      BY <1>4, <2>3, <1>2
    <3>5. r[i] \in Message /\ ~Held(r[i])
      <4>1. CASE r[i] = q[i]
        BY <2>1, <3>1, <4>1
      <4>2. CASE r[i] = [q[i] EXCEPT !.state = ResendState(q[i])]
        BY <3>3, <4>2
      <4> QED  BY <3>4, <4>1, <4>2
    <3> QED  BY <3>2, <3>5
  <2> QED  BY <2>2, <2>3
<1>6. r \in Seq(Message) /\ Len(r) = Len(q)
  BY <1>2, <1>4, <1>5
<1>7. Split(r, k)
  BY <1>3, <1>5, <1>6 DEF Split
<1>8. QuotaAfterReset(q) \in 0..InflightMaximum /\ QuotaAfterReset(q) + k = InflightMaximum
  <2>1. ASSUME NEW n \in Nat
        PROVE  LET d == IF n < InflightMaximum THEN InflightMaximum - n ELSE 0
               IN d \in 0..InflightMaximum /\ d + Least(InflightMaximum, n) = InflightMaximum
    BY <1>2 DEF Least
  <2> QED  BY <1>2, <2>1 DEF QuotaAfterReset
<1>9. k < Len(r) => k >= InflightMaximum
  BY <1>2, <1>6 DEF Least
<1>10. QuotaAfterReset(q) + k >= InflightMaximum
  BY <1>2, <1>8
<1> HIDE DEF k
<1>11. Window(r, QuotaAfterReset(q), now)
  BY <1>3, <1>6, <1>7, <1>8, <1>9, <1>10 DEF Window
<1> QED  BY <1>6, <1>8, <1>11 DEF r

\* message__retry_check changes no state.
LEMMA RetryWindow ==
  ASSUME NEW q \in Seq(Message), NEW quota, NEW up, Window(q, quota, up)
  PROVE  RetryMark(q) \in Seq(Message) /\ Window(RetryMark(q), quota, up)
<1> DEFINE r == RetryMark(q)
<1>1. Len(q) \in Nat /\ DOMAIN q = 1..Len(q)
  OBVIOUS
<1>2. r = [i \in 1..Len(q) |-> IF MustPublishAgain(q[i]) \/ MustRelAgain(q[i])
                               THEN [q[i] EXCEPT !.dup = TRUE] ELSE q[i]]
  BY <1>1 DEF RetryMark
<1> HIDE DEF r
<1>3. ASSUME NEW i \in 1..Len(q)
      PROVE  r[i] \in Message /\ (Held(r[i]) <=> Held(q[i]))
  <2>1. q[i] \in Message
    OBVIOUS
  <2>2. /\ [q[i] EXCEPT !.dup = TRUE] \in Message
        /\ Held([q[i] EXCEPT !.dup = TRUE]) <=> Held(q[i])
    BY <2>1, ResendType
  <2>3. CASE r[i] = q[i]
    BY <2>1, <2>3
  <2>4. CASE r[i] = [q[i] EXCEPT !.dup = TRUE]
    BY <2>2, <2>4
  <2>5. r[i] = q[i] \/ r[i] = [q[i] EXCEPT !.dup = TRUE]
    BY <1>2
  <2> QED  BY <2>3, <2>4, <2>5
<1>4. r \in Seq(Message) /\ Len(r) = Len(q)
  BY <1>1, <1>2, <1>3
<1>5. ASSUME NEW k, Split(q, k)
      PROVE  Split(r, k)
  BY <1>3, <1>4, <1>5 DEF Split
<1>6. Window(r, quota, up)
  BY <1>4, <1>5 DEF Window
<1> QED  BY <1>4, <1>6 DEF r

-----------------------------------------------------------------------------
\* At most n messages are released when n units of the window are free.
LEMMA FirstHeldBound ==
  ASSUME NEW q \in Seq(Message), NEW n \in Nat
  PROVE  IsFiniteSet(FirstHeld(q, n)) /\ Cardinality(FirstHeld(q, n)) <= n
<1> DEFINE R == FirstHeld(q, n)
           H(i) == {j \in 1..i : Held(q[j])}
           rank == [i \in R |-> Cardinality(H(i))]
<1>1. R \subseteq 1..Len(q) /\ Len(q) \in Nat
      /\ \A i \in R : Held(q[i]) /\ Cardinality(H(i)) <= n
  BY DEF FirstHeld
<1>2. ASSUME NEW i \in Nat
      PROVE  IsFiniteSet(H(i)) /\ Cardinality(H(i)) \in Nat
  <2>1. IsFiniteSet(1..i)
    BY FS_Interval
  <2>2. H(i) \in SUBSET (1..i)
    OBVIOUS
  <2> HIDE DEF H
  <2>3. IsFiniteSet(H(i))
    BY <2>1, <2>2, FS_Subset
  <2> QED  BY <2>3, FS_CardinalityType
<1>3. ASSUME NEW i \in R
      PROVE  i \in Nat /\ i \in H(i)
  <2>1. i \in 1..Len(q) /\ Held(q[i])
    BY <1>1
  <2> HIDE DEF R
  <2> QED  BY <1>1, <2>1
<1>4. ASSUME NEW i \in R, NEW j \in R, i < j
      PROVE  Cardinality(H(i)) # Cardinality(H(j))
  <2>1. i \in Nat /\ j \in Nat
    BY <1>3
  <2>2. H(i) \in SUBSET H(j) /\ j \in H(j) /\ j \notin H(i)
    BY <1>3, <1>4, <2>1
  <2> HIDE DEF H
  <2>3. Cardinality(H(j)) = Cardinality(H(i)) => H(j) = H(i)
    BY <1>2, <2>1, <2>2, FS_Subset
  <2> QED  BY <2>2, <2>3
<1>5. ASSUME NEW i \in R
      PROVE  Cardinality(H(i)) \in 1..n
  <2>1. i \in Nat /\ H(i) # {}
    BY <1>3
  <2> HIDE DEF H
  <2>2. Cardinality(H(i)) # 0
    BY <1>2, <2>1, FS_EmptySet
  <2>3. Cardinality(H(i)) <= n
    BY <1>1
  <2> QED  BY <1>2, <2>1, <2>2, <2>3
<1>6. rank \in Injection(R, 1..n)
  <2> HIDE DEF H, R
  <2>1. rank \in [R -> 1..n]
    BY <1>5
  <2>2. ASSUME NEW i \in R, NEW j \in R, rank[i] = rank[j]
        PROVE  i = j
    <3>1. i \in Nat /\ j \in Nat /\ Cardinality(H(i)) = Cardinality(H(j))
      BY <1>3, <2>2
    <3>2. ~(i < j) /\ ~(j < i)
      BY <1>4, <3>1
    <3> QED  BY <3>1, <3>2
  <2> QED  BY <2>1, <2>2 DEF Injection, IsInjective
<1>7. IsFiniteSet(1..n) /\ Cardinality(1..n) = n
  BY FS_Interval
<1> HIDE DEF rank, R
<1>8. IsFiniteSet(R) /\ Cardinality(R) <= Cardinality(1..n)
  BY <1>6, <1>7, FS_Injection
<1> QED  BY <1>7, <1>8 DEF R

\* The operations return a list of messages and a quota within its range.
LEMMA ReleaseType ==
  ASSUME NEW q \in Seq(Message), NEW quota \in 0..InflightMaximum, NEW ok \in BOOLEAN
  PROVE  LET r == ReleaseToInflight(q, quota, ok)
         IN r.inflight \in Seq(Message) /\ r.quota \in 0..InflightMaximum
<1> DEFINE R == ReleasedSet(q, quota, ok)
<1>1. MoveToInflight(q, R) \in Seq(Message)
  <2>1. \A i \in DOMAIN q : q[i] \in Message /\ Waiting(q[i]) \in Message
    BY WaitingType
  <2>2. DOMAIN q = 1..Len(q) /\ Len(q) \in Nat
    OBVIOUS
  <2> HIDE DEF R
  <2> QED  BY <2>1, <2>2 DEF MoveToInflight
<1>2. InflightMaximum \in Nat /\ quota \in Nat
  BY InflightMaximumAssumption
<1>3. ok => Cardinality(R) \in 0..quota
  <2>1. IsFiniteSet(FirstHeld(q, quota)) /\ Cardinality(FirstHeld(q, quota)) <= quota
    BY <1>2, FirstHeldBound
  <2>2. Cardinality(FirstHeld(q, quota)) \in Nat
    BY <2>1, FS_CardinalityType
  <2> QED  BY <1>2, <2>1, <2>2 DEF ReleasedSet
<1> HIDE DEF R
<1>4. (IF ok THEN quota - Cardinality(R) ELSE quota) \in 0..InflightMaximum
  BY <1>2, <1>3
<1> QED  BY <1>1, <1>4 DEF ReleaseToInflight, R

LEMMA RemoveType ==
  ASSUME NEW q \in Seq(Message), NEW mid
  PROVE  MessageRemove(q, mid) \in Seq(Message)
<1>1. CASE Known(q, mid)
  <2> DEFINE i == FirstAt(q, mid)
  <2>1. i \in 1..Len(q) /\ Len(q) \in Nat
    BY <1>1, FirstAtIs
  <2> HIDE DEF i
  <2>2. \A j \in 1..(Len(q) - 1) : (IF j < i THEN q[j] ELSE q[j + 1]) \in Message
    BY <2>1
  <2>3. RemoveFrom(q, i) \in Seq(Message)
    BY <2>1, <2>2 DEF RemoveFrom
  <2> QED  BY <1>1, <2>3 DEF MessageRemove, i
<1>2. CASE ~Known(q, mid)
  BY <1>2 DEF MessageRemove
<1> QED  BY <1>1, <1>2

LEMMA UpdateType ==
  ASSUME NEW q \in Seq(Message), NEW mid, NEW new \in MsgStates
  PROVE  OutUpdate(q, mid, new) \in Seq(Message)
<1>1. CASE Known(q, mid)
  <2> DEFINE i == FirstAt(q, mid)
  <2>1. i \in 1..Len(q) /\ q[i] \in Message
    BY <1>1, FirstAtIs
  <2>2. [q[i] EXCEPT !.state = new] \in Message
    BY <2>1 DEF Message
  <2> HIDE DEF i
  <2>3. [q EXCEPT ![i].state = new] \in Seq(Message)
    BY <2>1, <2>2
  <2> QED  BY <1>1, <2>3 DEF OutUpdate, i
<1>2. CASE ~Known(q, mid)
  BY <1>2 DEF OutUpdate
<1> QED  BY <1>1, <1>2

LEMMA ResetType ==
  ASSUME NEW q \in Seq(Message), NEW b \in BOOLEAN
  PROVE  /\ ReconnectReset(q, b) \in Seq(Message)
         /\ QuotaAfterReset(q) \in 0..InflightMaximum
<1>1. DOMAIN q = 1..Len(q) /\ Len(q) \in Nat /\ InflightMaximum \in Nat \ {0}
  BY InflightMaximumAssumption
<1>2. ASSUME NEW i \in DOMAIN q
      PROVE  /\ q[i] \in Message
             /\ [q[i] EXCEPT !.state = "invalid"] \in Message
             /\ [q[i] EXCEPT !.state = ResendState(q[i])] \in Message
  <2>1. q[i] \in Message
    OBVIOUS
  <2> QED  BY <2>1, ResendType
<1>3. ReconnectReset(q, b) \in Seq(Message)
  BY <1>1, <1>2 DEF ReconnectReset
<1>4. QuotaAfterReset(q) \in 0..InflightMaximum
  BY <1>1 DEF QuotaAfterReset
<1> QED  BY <1>3, <1>4

LEMMA RetryType ==
  ASSUME NEW q \in Seq(Message)
  PROVE  RetryMark(q) \in Seq(Message)
<1>1. DOMAIN q = 1..Len(q) /\ Len(q) \in Nat
  OBVIOUS
<1>2. ASSUME NEW i \in DOMAIN q
      PROVE  q[i] \in Message /\ [q[i] EXCEPT !.dup = TRUE] \in Message
  <2>1. q[i] \in Message
    OBVIOUS
  <2> QED  BY <2>1, ResendType
<1> QED  BY <1>1, <1>2 DEF RetryMark

-----------------------------------------------------------------------------
(***************************************************************************)
(* Parts of sequences, and how many members of a set a sequence has.       *)
(***************************************************************************)
Count(s, P) == Cardinality({i \in 1..Len(s) : s[i] \in P})

\* The positions are counted through: every number has its position.
LEMMA NthIs ==
  ASSUME NEW I \in SUBSET Nat, IsFiniteSet(I), NEW n \in 1..Cardinality(I)
  PROVE  Nth(I, n) \in I /\ Cardinality({j \in I : j <= Nth(I, n)}) = n
<1> DEFINE upto(i) == {j \in I : j <= i}
           rank == [i \in I |-> Cardinality(upto(i))]
<1>1. Cardinality(I) \in Nat
  BY FS_CardinalityType
<1>2. ASSUME NEW i \in I
      PROVE  /\ upto(i) \in SUBSET I /\ i \in upto(i) /\ IsFiniteSet(upto(i))
             /\ Cardinality(upto(i)) \in 1..Cardinality(I)
  <2>1. upto(i) \in SUBSET I /\ i \in upto(i)
    OBVIOUS
  <2> HIDE DEF upto
  <2>2. IsFiniteSet(upto(i)) /\ Cardinality(upto(i)) <= Cardinality(I)
    BY <2>1, FS_Subset
  <2>3. Cardinality(upto(i)) \in Nat /\ Cardinality(upto(i)) # 0
    BY <2>1, <2>2, FS_CardinalityType, FS_EmptySet
  <2> QED  BY <1>1, <2>1, <2>2, <2>3
<1>3. ASSUME NEW i \in I, NEW j \in I, i < j
      PROVE  Cardinality(upto(i)) # Cardinality(upto(j))
  <2>1. upto(i) \in SUBSET upto(j) /\ j \in upto(j) /\ j \notin upto(i)
    <3>1. i \in Nat /\ j \in Nat /\ j <= j /\ ~(j <= i)
      BY <1>3
    <3>2. ASSUME NEW x \in upto(i) PROVE x \in upto(j)
      <4>1. x \in I /\ x \in Nat /\ x <= i
        OBVIOUS
      <4>2. x <= j
        BY <1>3, <3>1, <4>1
      <4> QED  BY <4>1, <4>2
    <3> QED  BY <3>1, <3>2
  <2>2. IsFiniteSet(upto(j))
    BY <1>2
  <2> HIDE DEF upto
  <2> QED  BY <2>1, <2>2, FS_Subset
<1>4. rank \in Injection(I, 1..Cardinality(I))
  <2> HIDE DEF upto
  <2>1. rank \in [I -> 1..Cardinality(I)]
    BY <1>2
  <2>2. ASSUME NEW i \in I, NEW j \in I, rank[i] = rank[j]
        PROVE  i = j
    <3>1. Cardinality(upto(i)) = Cardinality(upto(j)) /\ i \in Nat /\ j \in Nat
      BY <2>2
    <3>2. ~(i < j) /\ ~(j < i)
      BY <1>3, <3>1
    <3> QED  BY <3>1, <3>2
  <2> QED  BY <2>1, <2>2 DEF Injection, IsInjective
<1>5. IsFiniteSet(1..Cardinality(I)) /\ Cardinality(1..Cardinality(I)) = Cardinality(I)
  BY <1>1, FS_Interval
<1>6. rank \in Surjection(I, 1..Cardinality(I))
  <2> HIDE DEF rank
  <2> QED  BY <1>4, <1>5, FS_Injection
<1>7. \E i \in I : rank[i] = n
  <2> HIDE DEF rank
  <2> QED  BY <1>6 DEF Surjection
<1>8. \E i \in I : Cardinality({j \in I : j <= i}) = n
  BY <1>7
<1> QED  BY <1>8 DEF Nth

\* Later numbers have later positions.
LEMMA NthOrder ==
  ASSUME NEW I \in SUBSET Nat, IsFiniteSet(I),
         NEW n \in 1..Cardinality(I), NEW k \in 1..Cardinality(I), n < k
  PROVE  Nth(I, n) < Nth(I, k)
<1> DEFINE upto(i) == {j \in I : j <= i}
           a == Nth(I, n)
           b == Nth(I, k)
<1>1. /\ a \in I /\ Cardinality(upto(a)) = n
      /\ b \in I /\ Cardinality(upto(b)) = k
  BY NthIs
<1> HIDE DEF a, b
<1>2. ASSUME b <= a
      PROVE  FALSE
  <2>1. upto(b) \in SUBSET upto(a) /\ upto(a) \in SUBSET I
    <3>1. a \in Nat /\ b \in Nat
      BY <1>1
    <3>2. ASSUME NEW x \in upto(b) PROVE x \in upto(a)
      <4>1. x \in I /\ x \in Nat /\ x <= b
        OBVIOUS
      <4>2. x <= a
        BY <1>2, <3>1, <4>1
      <4> QED  BY <4>1, <4>2
    <3>3. upto(a) \in SUBSET I
      OBVIOUS
    <3> QED  BY <3>2, <3>3
  <2> HIDE DEF upto
  <2>2. IsFiniteSet(upto(a))
    BY <2>1, FS_Subset
  <2>3. k <= n
    BY <1>1, <2>1, <2>2, FS_Subset
  <2> QED  BY <2>3
<1>3. a \in Nat /\ b \in Nat
  BY <1>1
<1>4. a < b
  BY <1>2, <1>3
<1> QED  BY <1>4 DEF a, b

\* A part of a sequence has the members at its positions, and no more of a
\* set than there are at them.
LEMMA SublistFacts ==
  ASSUME NEW S, NEW s \in Seq(S), NEW I \in SUBSET (1..Len(s))
  PROVE  /\ Sublist(s, I) \in Seq(S) /\ Len(Sublist(s, I)) = Cardinality(I)
         /\ IsFiniteSet(I) /\ Cardinality(I) \in Nat
         /\ \A n \in 1..Cardinality(I) :
              Nth(I, n) \in I /\ Sublist(s, I)[n] = s[Nth(I, n)]
<1>1. Len(s) \in Nat /\ IsFiniteSet(1..Len(s))
  BY FS_Interval
<1>2. IsFiniteSet(I) /\ I \in SUBSET Nat
  <2>1. IsFiniteSet(I)
    BY <1>1, FS_Subset
  <2>2. 1..Len(s) \subseteq Nat
    BY <1>1
  <2> QED  BY <2>1, <2>2
<1>3. Cardinality(I) \in Nat
  BY <1>2, FS_CardinalityType
<1>4. \A n \in 1..Cardinality(I) : Nth(I, n) \in I
  BY <1>2, NthIs
<1>5. \A n \in 1..Cardinality(I) : s[Nth(I, n)] \in S
  <2>1. \A i \in 1..Len(s) : s[i] \in S
    OBVIOUS
  <2> QED  BY <1>4, <2>1
<1>6. Sublist(s, I) = [n \in 1..Cardinality(I) |-> s[Nth(I, n)]]
  BY DEF Sublist
<1> QED  BY <1>2, <1>3, <1>4, <1>5, <1>6

LEMMA SublistCount ==
  ASSUME NEW S, NEW s \in Seq(S), NEW I \in SUBSET (1..Len(s)), NEW P
  PROVE  /\ IsFiniteSet({i \in I : s[i] \in P})
         /\ Count(Sublist(s, I), P) <= Cardinality({i \in I : s[i] \in P})
<1> DEFINE r == Sublist(s, I)
           A == {n \in 1..Len(r) : r[n] \in P}
           B == {i \in I : s[i] \in P}
           f == [n \in A |-> Nth(I, n)]
<1>1. /\ Len(r) = Cardinality(I) /\ IsFiniteSet(I) /\ Cardinality(I) \in Nat
      /\ \A n \in 1..Cardinality(I) : Nth(I, n) \in I /\ r[n] = s[Nth(I, n)]
  BY SublistFacts
<1> HIDE DEF r
<1>2. I \in SUBSET Nat
  OBVIOUS
<1>3. B \in SUBSET I /\ A \subseteq 1..Cardinality(I)
  BY <1>1
<1>4. f \in [A -> B]
  BY <1>1
<1>5. ASSUME NEW n \in A, NEW k \in A, f[n] = f[k]
      PROVE  n = k
  <2>1. n \in 1..Cardinality(I) /\ k \in 1..Cardinality(I) /\ Nth(I, n) = Nth(I, k)
    BY <1>3, <1>5
  <2>2. Nth(I, n) \in Nat
    BY <1>1, <1>2, <2>1
  <2>3. ~(n < k) /\ ~(k < n)
    BY <1>1, <1>2, <2>1, <2>2, NthOrder
  <2> QED  BY <2>1, <2>3
<1>6. IsFiniteSet(B)
  BY <1>1, <1>3, FS_Subset
<1>7. f \in Injection(A, B)
  <2> HIDE DEF A, B, f
  <2> QED  BY <1>4, <1>5 DEF Injection, IsInjective
<1>8. Cardinality(A) <= Cardinality(B)
  <2> HIDE DEF A, B, f
  <2> QED  BY <1>6, <1>7, FS_Injection
<1> QED  BY <1>6, <1>8 DEF Count, r

\* Counting in sequences.
LEMMA CountType ==
  ASSUME NEW S, NEW s \in Seq(S), NEW P
  PROVE  /\ IsFiniteSet({i \in 1..Len(s) : s[i] \in P})
         /\ Count(s, P) \in Nat
<1>1. IsFiniteSet(1..Len(s)) /\ {i \in 1..Len(s) : s[i] \in P} \in SUBSET (1..Len(s))
  BY FS_Interval
<1>2. IsFiniteSet({i \in 1..Len(s) : s[i] \in P})
  BY ONLY <1>1, FS_Subset
<1> QED  BY <1>2, FS_CardinalityType DEF Count

LEMMA CountConcat ==
  ASSUME NEW S, NEW s \in Seq(S), NEW t \in Seq(S), NEW P
  PROVE  Count(s \o t, P) <= Count(s, P) + Count(t, P)
<1> DEFINE A == {i \in 1..Len(s) : s[i] \in P}
           B == {i \in 1..Len(t) : t[i] \in P}
           C == {i \in 1..Len(s \o t) : (s \o t)[i] \in P}
           D == C \ A
           f == [i \in D |-> i - Len(s)]
<1>1. /\ Len(s) \in Nat /\ Len(t) \in Nat /\ Len(s \o t) = Len(s) + Len(t)
      /\ \A i \in 1..Len(s) : (s \o t)[i] = s[i]
      /\ \A i \in 1..(Len(s) + Len(t)) : i > Len(s) => (s \o t)[i] = t[i - Len(s)]
  OBVIOUS
<1>2. IsFiniteSet(A) /\ IsFiniteSet(B) /\ IsFiniteSet(C)
  <2>1. s \o t \in Seq(S)
    OBVIOUS
  <2> QED  BY <2>1, CountType
<1>3. f \in Injection(D, B)
  <2>1. ASSUME NEW i \in D
        PROVE  i \in Nat /\ i - Len(s) \in B
    BY <1>1
  <2>2. f \in [D -> B] /\ \A i, j \in D : f[i] = f[j] => i = j
    BY <1>1, <2>1
  <2> HIDE DEF f, D, B
  <2> QED  BY <2>2 DEF Injection, IsInjective
<1> HIDE DEF A, B, C, f
<1>4. IsFiniteSet(D) /\ Cardinality(D) <= Cardinality(B)
  BY <1>2, <1>3, FS_Injection
<1>5. Cardinality(D) = Cardinality(C) - Cardinality(C \cap A)
      /\ Cardinality(C \cap A) <= Cardinality(A) /\ IsFiniteSet(C \cap A)
  BY <1>2, FS_Difference, FS_Intersection
<1>6. /\ Cardinality(A) \in Nat /\ Cardinality(B) \in Nat /\ Cardinality(C) \in Nat
      /\ Cardinality(D) \in Nat /\ Cardinality(C \cap A) \in Nat
  BY <1>2, <1>4, <1>5, FS_CardinalityType
<1>7. Cardinality(C) <= Cardinality(A) + Cardinality(B)
  BY <1>4, <1>5, <1>6
<1> QED  BY <1>7 DEF Count, A, B, C

LEMMA CountSingle ==
  ASSUME NEW p, NEW P
  PROVE  /\ p \in P => Count(<<p>>, P) = 1
         /\ p \notin P => Count(<<p>>, P) = 0
<1>1. Len(<<p>>) = 1 /\ <<p>>[1] = p /\ 1..1 = {1}
  OBVIOUS
<1>2. ASSUME p \in P PROVE {i \in 1..Len(<<p>>) : <<p>>[i] \in P} = {1}
  BY <1>1, <1>2
<1>3. ASSUME p \notin P PROVE {i \in 1..Len(<<p>>) : <<p>>[i] \in P} = {}
  BY <1>1, <1>3
<1> QED  BY <1>2, <1>3, FS_Singleton, FS_EmptySet DEF Count

LEMMA CountEmpty ==
  ASSUME NEW P
  PROVE  Count(<<>>, P) = 0
<1>1. {i \in 1..Len(<<>>) : <<>>[i] \in P} = {}
  OBVIOUS
<1> QED  BY <1>1, FS_EmptySet DEF Count

LEMMA CountAppend ==
  ASSUME NEW S, NEW s \in Seq(S), NEW p \in S, NEW P
  PROVE  /\ Count(Append(s, p), P) <= Count(s, P) + 1
         /\ p \notin P => Count(Append(s, p), P) <= Count(s, P)
<1>1. Append(s, p) = s \o <<p>> /\ <<p>> \in Seq(S)
  OBVIOUS
<1>2. Count(s \o <<p>>, P) <= Count(s, P) + Count(<<p>>, P)
  BY <1>1, CountConcat
<1>3. Count(s, P) \in Nat /\ Count(s \o <<p>>, P) \in Nat
  <2>1. s \o <<p>> \in Seq(S)
    BY <1>1
  <2> QED  BY <2>1, CountType
<1>4. Count(<<p>>, P) \in {0, 1} /\ (p \notin P => Count(<<p>>, P) = 0)
  BY CountSingle
<1> QED  BY <1>1, <1>2, <1>3, <1>4

LEMMA CountTail ==
  ASSUME NEW S, NEW s \in Seq(S), s # <<>>, NEW P
  PROVE  /\ Count(Tail(s), P) <= Count(s, P)
         /\ Head(s) \in P => Count(Tail(s), P) + 1 <= Count(s, P)
<1> DEFINE A == {i \in 1..Len(s) : s[i] \in P}
           B == {i \in 1..Len(Tail(s)) : Tail(s)[i] \in P}
           f == [i \in B |-> i + 1]
           C == A \ {1}
<1>1. /\ Len(s) \in Nat /\ Len(Tail(s)) = Len(s) - 1 /\ Len(s) >= 1
      /\ \A i \in 1..(Len(s) - 1) : Tail(s)[i] = s[i + 1]
      /\ Head(s) = s[1] /\ Tail(s) \in Seq(S)
  OBVIOUS
<1>2. IsFiniteSet(A) /\ IsFiniteSet(B)
  BY <1>1, CountType
<1>3. f \in Injection(B, C)
  <2>1. ASSUME NEW i \in B
        PROVE  i \in Nat /\ i + 1 \in C
    BY <1>1
  <2>2. f \in [B -> C] /\ \A i, j \in B : f[i] = f[j] => i = j
    BY <2>1
  <2> HIDE DEF f, B, C
  <2> QED  BY <2>2 DEF Injection, IsInjective
<1>4. Head(s) \in P => 1 \in A
  BY <1>1
<1> HIDE DEF A, B, f
<1>5. IsFiniteSet(C) /\ Cardinality(C) = IF 1 \in A THEN Cardinality(A) - 1 ELSE Cardinality(A)
  BY <1>2, FS_RemoveElement
<1>6. Cardinality(B) <= Cardinality(C)
  BY <1>3, <1>5, FS_Injection
<1>7. Cardinality(A) \in Nat /\ Cardinality(B) \in Nat /\ Cardinality(C) \in Nat
  BY <1>2, <1>5, FS_CardinalityType
<1>8. /\ Cardinality(B) <= Cardinality(A)
      /\ Head(s) \in P => Cardinality(B) + 1 <= Cardinality(A)
  BY <1>4, <1>5, <1>6, <1>7
<1> QED  BY <1>8 DEF Count, A, B

-----------------------------------------------------------------------------
(***************************************************************************)
(* Every packet that asks the broker for an answer belongs to a message in *)
(* flight: what an operation sends, and what it does to the messages that  *)
(* await an answer.  fresh is TRUE from a reconnection to the CONNACK: only *)
(* messages that were sent after the reset await one.  Messages beyond the *)
(* window got there by failed sends: nothing answers them.                 *)
(***************************************************************************)
\* What the list sends.
ListPacket ==
  [type : {"PUBREL"}, mid : 1..MaxMid]
  \cup [type : {"PUBLISH"}, id : Nat, mid : 1..MaxMid, qos : {0, 1, 2}, dup : BOOLEAN]

Asking(mid) ==
  {p \in ListPacket : p.mid = mid /\ (p.type = "PUBLISH" => p.qos > 0)}

Awaited(q, mid, fresh) ==
  {i \in 1..Len(q) :
     /\ q[i].mid = mid /\ i <= InflightMaximum
     /\ IF fresh THEN q[i].state \in {"wait_for_puback", "wait_for_pubrec"}
        ELSE ~Held(q[i])}

LEMMA AwaitedType ==
  ASSUME NEW q \in Seq(Message), NEW mid, NEW fresh
  PROVE  /\ IsFiniteSet(Awaited(q, mid, fresh))
         /\ Cardinality(Awaited(q, mid, fresh)) \in Nat
<1>1. IsFiniteSet(1..Len(q)) /\ Awaited(q, mid, fresh) \in SUBSET (1..Len(q))
  BY FS_Interval DEF Awaited
<1>2. IsFiniteSet(Awaited(q, mid, fresh))
  BY ONLY <1>1, FS_Subset
<1> QED  BY <1>2, FS_CardinalityType

LEMMA PacketTypes ==
  ASSUME NEW m \in Message
  PROVE  /\ PublishPacket(m) \in ListPacket
         /\ PublishPacket([m EXCEPT !.dup = TRUE]) \in ListPacket
         /\ MidPacket("PUBREL", m.mid) \in ListPacket
         /\ PublishPacket(m).mid = m.mid /\ MidPacket("PUBREL", m.mid).mid = m.mid
         /\ PublishPacket([m EXCEPT !.dup = TRUE]).mid = m.mid
BY DEF Message, PublishPacket, MidPacket, ListPacket

\* Messages that move into flight await an answer with those that did before.
LEMMA MoveAwaited ==
  ASSUME NEW q \in Seq(Message), NEW R \in SUBSET (1..Len(q)), \A i \in R : Held(q[i]),
         NEW mid, NEW fresh \in BOOLEAN
  PROVE  LET J == {i \in R : q[i].mid = mid /\ i <= InflightMaximum}
         IN /\ IsFiniteSet(J) /\ Cardinality(J) \in Nat
            /\ Cardinality(J) + Cardinality(Awaited(q, mid, fresh))
                 <= Cardinality(Awaited(MoveToInflight(q, R), mid, fresh))
<1> DEFINE J == {i \in R : q[i].mid = mid /\ i <= InflightMaximum}
           r == MoveToInflight(q, R)
           A == Awaited(q, mid, fresh)
           B == Awaited(r, mid, fresh)
<1> SUFFICES /\ IsFiniteSet(J) /\ Cardinality(J) \in Nat
             /\ Cardinality(J) + Cardinality(A) <= Cardinality(B)
  OBVIOUS
<1>1. /\ DOMAIN q = 1..Len(q) /\ Len(q) \in Nat
      /\ \A i \in 1..Len(q) : q[i] \in Message /\ Waiting(q[i]) \in Message
  BY WaitingType
<1>2. r = [i \in 1..Len(q) |-> IF i \in R THEN Waiting(q[i]) ELSE q[i]]
  BY <1>1 DEF MoveToInflight
<1>3. r \in Seq(Message) /\ Len(r) = Len(q)
  <2> HIDE DEF r
  <2> QED  BY <1>1, <1>2
<1> HIDE DEF r
<1>4. J \subseteq B
  <2>1. ASSUME NEW i \in J PROVE i \in B
    <3>1. i \in R /\ i \in 1..Len(q) /\ q[i].mid = mid /\ i <= InflightMaximum
      OBVIOUS
    <3>2. r[i] = Waiting(q[i]) /\ q[i] \in Message
      BY <1>1, <1>2, <3>1
    <3>3. r[i].mid = mid /\ r[i].state \in {"wait_for_puback", "wait_for_pubrec"}
      BY <3>1, <3>2 DEF Waiting, Message
    <3> QED  BY <1>3, <3>1, <3>3 DEF Awaited, Held
  <2> QED  BY <2>1
<1>5. A \subseteq B /\ A \cap J = {}
  <2>1. ASSUME NEW i \in A PROVE i \in B /\ i \notin R
    <3>1. i \in 1..Len(q) /\ i \notin R
      BY DEF Awaited, Held
    <3>2. r[i] = q[i]
      BY <1>2, <3>1
    <3> QED  BY <1>3, <3>1, <3>2 DEF Awaited
  <2> QED  BY <2>1
<1>6. IsFiniteSet(A) /\ IsFiniteSet(B) /\ Cardinality(A) \in Nat /\ Cardinality(B) \in Nat
  BY <1>3, AwaitedType
<1> HIDE DEF A, B, J
<1>7. IsFiniteSet(J)
  BY <1>4, <1>6, FS_Subset
<1>8. Cardinality(J) \in Nat
  BY <1>7, FS_CardinalityType
<1>9. Cardinality(A \cup J) = Cardinality(A) + Cardinality(J) - Cardinality(A \cap J)
      /\ Cardinality(A \cap J) = 0
  BY <1>5, <1>6, <1>7, FS_Union, FS_EmptySet
<1>10. Cardinality(A \cup J) <= Cardinality(B)
  <2>1. A \cup J \in SUBSET B
    BY <1>4, <1>5
  <2> QED  BY <1>6, <2>1, FS_Subset
<1> QED  BY <1>6, <1>7, <1>8, <1>9, <1>10

\* No more packets ask for an answer than messages begin to await one.
Sending(sent, q, r, mid, fresh, up) ==
  /\ Cardinality(Awaited(q, mid, fresh)) <= Cardinality(Awaited(r, mid, fresh))
  /\ up => Count(sent, Asking(mid)) + Cardinality(Awaited(q, mid, fresh))
             <= Cardinality(Awaited(r, mid, fresh))

\* message__release_to_inflight sends one packet for each message it moves.
LEMMA ReleaseSends ==
  ASSUME NEW q \in Seq(Message), NEW quota \in 0..InflightMaximum, NEW ok \in BOOLEAN,
         NEW fresh \in BOOLEAN, NEW up,
         up => ok /\ \E k \in 0..Len(q) : Split(q, k) /\ quota + k = InflightMaximum
  PROVE  LET r == ReleaseToInflight(q, quota, ok)
         IN /\ r.sent \in Seq(ListPacket)
            /\ \A mid : Sending(r.sent, q, r.inflight, mid, fresh, up)
<1> DEFINE r == ReleaseToInflight(q, quota, ok)
           R == ReleasedSet(q, quota, ok)
           s == [i \in DOMAIN q |-> PublishPacket(q[i])]
<1> SUFFICES /\ r.sent \in Seq(ListPacket)
             /\ \A mid : Sending(r.sent, q, r.inflight, mid, fresh, up)
  OBVIOUS
<1>1. /\ DOMAIN q = 1..Len(q) /\ Len(q) \in Nat
      /\ \A i \in 1..Len(q) : q[i] \in Message
      /\ quota \in Nat /\ InflightMaximum \in Nat
  BY InflightMaximumAssumption
<1>2. /\ r.inflight = MoveToInflight(q, R)
      /\ r.sent = IF ok THEN Sublist(s, R) ELSE <<>>
  BY DEF ReleaseToInflight
<1>3. R \in SUBSET (1..Len(q)) /\ \A i \in R : Held(q[i])
  BY <1>1 DEF ReleasedSet, FirstHeld
<1>4. s \in Seq(ListPacket) /\ Len(s) = Len(q) /\ \A i \in 1..Len(q) : s[i].mid = q[i].mid
  <2>1. \A i \in 1..Len(q) : s[i] = PublishPacket(q[i]) /\ s[i] \in ListPacket
    BY <1>1, PacketTypes
  <2>2. \A i \in 1..Len(q) : s[i].mid = q[i].mid
    BY <1>1, <2>1, PacketTypes
  <2>3. s = [i \in 1..Len(q) |-> s[i]]
    BY <1>1
  <2> HIDE DEF s
  <2> QED  BY <1>1, <2>1, <2>2, <2>3
<1>5. up => \A i \in R : i <= InflightMaximum
  <2> SUFFICES ASSUME up, NEW i \in R PROVE i <= InflightMaximum
    OBVIOUS
  <2>1. PICK k \in 0..Len(q) : Split(q, k) /\ quota + k = InflightMaximum
    OBVIOUS
  <2>2. R = (k + 1)..Least(k + quota, Len(q))
    BY <1>1, <2>1, FirstHeldInterval DEF ReleasedSet
  <2> HIDE DEF R
  <2>3. Least(k + quota, Len(q)) <= InflightMaximum /\ Least(k + quota, Len(q)) \in Int
    BY <1>1, <2>1 DEF Least
  <2>4. i \in Int /\ i <= Least(k + quota, Len(q))
    BY <1>1, <2>1, <2>2, <2>3
  <2> QED  BY <1>1, <2>3, <2>4
<1> HIDE DEF r, R, s
<1>6. r.sent \in Seq(ListPacket)
  <2>1. R \in SUBSET (1..Len(s))
    BY <1>3, <1>4
  <2>2. Sublist(s, R) \in Seq(ListPacket)
    BY <1>4, <2>1, SublistFacts
  <2> QED  BY <1>2, <2>2
<1>7. ASSUME NEW mid
      PROVE  Sending(r.sent, q, r.inflight, mid, fresh, up)
  <2> DEFINE J == {i \in R : q[i].mid = mid /\ i <= InflightMaximum}
             K == {i \in R : s[i] \in Asking(mid)}
  <2>1. /\ IsFiniteSet(J) /\ Cardinality(J) \in Nat
        /\ Cardinality(J) + Cardinality(Awaited(q, mid, fresh))
             <= Cardinality(Awaited(r.inflight, mid, fresh))
    BY <1>2, <1>3, MoveAwaited
  <2>2. Count(r.sent, Asking(mid)) \in Nat
    BY <1>6, CountType
  <2>3. up => Count(r.sent, Asking(mid)) <= Cardinality(J)
    <3>1. CASE ~up
      BY <3>1
    <3>2. CASE up
      <4>1. R \in SUBSET (1..Len(s))
        BY <1>3, <1>4
      <4>2. Count(Sublist(s, R), Asking(mid)) <= Cardinality(K) /\ IsFiniteSet(K)
        BY <1>4, <4>1, SublistCount
      <4>3. K \in SUBSET J
        BY <1>3, <1>4, <1>5, <3>2 DEF Asking
      <4> HIDE DEF J, K
      <4>4. Cardinality(K) <= Cardinality(J) /\ Cardinality(K) \in Nat
        BY <2>1, <4>2, <4>3, FS_Subset, FS_CardinalityType
      <4>5. r.sent = Sublist(s, R)
        BY <1>2, <3>2
      <4> QED  BY <2>1, <2>2, <4>2, <4>4, <4>5
    <3> QED  BY <3>1, <3>2
  <2>4. Cardinality(Awaited(q, mid, fresh)) \in Nat
    BY AwaitedType
  <2>5. Cardinality(Awaited(r.inflight, mid, fresh)) \in Nat
    <3>1. MoveToInflight(q, R) \in Seq(Message)
      <4>1. \A i \in 1..Len(q) : Waiting(q[i]) \in Message
        BY <1>1, WaitingType
      <4> QED  BY <1>1, <4>1 DEF MoveToInflight
    <3> QED  BY <1>2, <3>1, AwaitedType
  <2> HIDE DEF J
  <2> QED  BY <2>1, <2>2, <2>3, <2>4, <2>5 DEF Sending
<1> QED  BY <1>6, <1>7

\* message__queue: a message that joins the list does not await anything.
LEMMA QueueSends ==
  ASSUME NEW q \in Seq(Message), NEW quota \in 0..InflightMaximum, NEW ok \in BOOLEAN,
         NEW m \in Message, Held(m), NEW fresh \in BOOLEAN, NEW up,
         up => ok /\ \E k \in 0..Len(q) : Split(q, k) /\ quota + k = InflightMaximum
  PROVE  LET r == MessageQueue(q, quota, m, ok)
         IN /\ r.sent \in Seq(ListPacket)
            /\ \A mid : Sending(r.sent, q, r.inflight, mid, fresh, up)
<1> DEFINE a == Append(q, m)
<1>1. /\ a \in Seq(Message) /\ Len(a) = Len(q) + 1 /\ Len(q) \in Nat
      /\ a[Len(q) + 1] = m /\ \A i \in 1..Len(q) : a[i] = q[i]
  OBVIOUS
<1> HIDE DEF a
<1>2. ASSUME NEW k \in 0..Len(q), Split(q, k)
      PROVE  k \in 0..Len(a) /\ Split(a, k)
  <2>1. \A i \in 1..Len(a) : i \in 1..Len(q) \/ i = Len(q) + 1
    BY <1>1
  <2> QED  BY <1>1, <1>2, <2>1 DEF Split
<1>3. \A mid : Awaited(a, mid, fresh) = Awaited(q, mid, fresh)
  <2> TAKE mid
  <2>1. \A i \in 1..Len(a) : i \in 1..Len(q) \/ (i = Len(q) + 1 /\ a[i] = m)
    BY <1>1
  <2>2. \A i \in 1..Len(q) : i \in 1..Len(a)
    BY <1>1
  <2> QED  BY <1>1, <2>1, <2>2 DEF Awaited, Held
<1>4. up => ok /\ \E k \in 0..Len(a) : Split(a, k) /\ quota + k = InflightMaximum
  BY <1>2
<1>5. LET r == ReleaseToInflight(a, quota, ok)
      IN /\ r.sent \in Seq(ListPacket)
         /\ \A mid : Sending(r.sent, a, r.inflight, mid, fresh, up)
  BY <1>1, <1>4, ReleaseSends
<1> QED  BY <1>3, <1>5 DEF MessageQueue, Sending, a

\* message__remove takes one message that awaits an answer with its id.
LEMMA RemoveAwaited ==
  ASSUME NEW q \in Seq(Message), NEW f \in 1..Len(q), NEW mid
  PROVE  /\ Cardinality(Awaited(q, mid, FALSE))
              <= Cardinality(Awaited(RemoveFrom(q, f), mid, FALSE)) + 1
         /\ q[f].mid # mid => Cardinality(Awaited(q, mid, FALSE))
                                <= Cardinality(Awaited(RemoveFrom(q, f), mid, FALSE))
<1> DEFINE r == RemoveFrom(q, f)
           A == Awaited(q, mid, FALSE)
           B == Awaited(r, mid, FALSE)
           C == A \ {f}
           g == [i \in C |-> IF i < f THEN i ELSE i - 1]
<1>1. Len(q) \in Nat /\ f \in 1..Len(q)
  OBVIOUS
<1>2. r = [j \in 1..(Len(q) - 1) |-> IF j < f THEN q[j] ELSE q[j + 1]]
  BY DEF RemoveFrom
<1>3. r \in Seq(Message) /\ Len(r) = Len(q) - 1
  <2>1. \A j \in 1..(Len(q) - 1) : (IF j < f THEN q[j] ELSE q[j + 1]) \in Message
    <3>1. \A j \in 1..(Len(q) - 1) : j \in 1..Len(q) /\ j + 1 \in 1..Len(q)
      BY <1>1
    <3>2. \A j \in 1..Len(q) : q[j] \in Message
      OBVIOUS
    <3> QED  BY <3>1, <3>2
  <2> HIDE DEF r
  <2> QED  BY <1>1, <1>2, <2>1
<1> HIDE DEF r
<1>4. g \in Injection(C, B)
  <2>1. ASSUME NEW i \in C
        PROVE  i \in Nat /\ (IF i < f THEN i ELSE i - 1) \in B
    <3>1. i \in 1..Len(q) /\ i # f /\ q[i].mid = mid /\ ~Held(q[i]) /\ i <= InflightMaximum
      BY DEF Awaited
    <3>2. CASE i < f
      <4>1. i \in 1..Len(r) /\ r[i] = q[i]
        BY <1>1, <1>2, <1>3, <3>1, <3>2
      <4> QED  BY <3>1, <3>2, <4>1 DEF Awaited
    <3>3. CASE ~(i < f)
      <4>1. i - 1 \in 1..Len(r) /\ ~(i - 1 < f) /\ (i - 1) + 1 = i
            /\ i - 1 <= InflightMaximum
        BY <1>1, <1>3, <3>1, <3>3, InflightMaximumAssumption
      <4>2. r[i - 1] = q[i]
        BY <1>2, <1>3, <4>1
      <4> QED  BY <3>1, <3>3, <4>1, <4>2 DEF Awaited
    <3> QED  BY <3>2, <3>3
  <2>2. g \in [C -> B]
    BY <2>1
  <2>3. ASSUME NEW i \in C, NEW j \in C, g[i] = g[j]
        PROVE  i = j
    <3>1. i \in Nat /\ j \in Nat
      BY <2>1
    <3>2. i # f /\ j # f /\ f \in Nat
      BY <1>1
    <3>3. g[i] = (IF i < f THEN i ELSE i - 1) /\ g[j] = (IF j < f THEN j ELSE j - 1)
      OBVIOUS
    <3>4. (IF i < f THEN i ELSE i - 1) = (IF j < f THEN j ELSE j - 1)
      BY <2>3, <3>3
    <3> QED  BY ONLY <3>1, <3>2, <3>4
  <2> HIDE DEF g, C, B
  <2> QED  BY <2>2, <2>3 DEF Injection, IsInjective
<1>5. IsFiniteSet(A) /\ IsFiniteSet(B) /\ Cardinality(A) \in Nat /\ Cardinality(B) \in Nat
  BY <1>3, AwaitedType
<1>6. q[f].mid # mid => f \notin A
  BY DEF Awaited
<1> HIDE DEF A, B, g
<1>7. /\ IsFiniteSet(C)
      /\ Cardinality(C) = IF f \in A THEN Cardinality(A) - 1 ELSE Cardinality(A)
  BY <1>5, FS_RemoveElement
<1>8. Cardinality(C) <= Cardinality(B)
  BY <1>4, <1>5, FS_Injection
<1>9. Cardinality(C) \in Nat
  BY <1>7, FS_CardinalityType
<1> HIDE DEF C
<1>10. /\ Cardinality(A) <= Cardinality(B) + 1
       /\ q[f].mid # mid => Cardinality(A) <= Cardinality(B)
  BY <1>5, <1>6, <1>7, <1>8, <1>9
<1> QED  BY <1>10 DEF A, B, r

\* message__out_update: a message in flight goes on awaiting an answer.
LEMMA UpdateAwaited ==
  ASSUME NEW q \in Seq(Message), NEW i \in 1..Len(q), ~Held(q[i]), NEW mid
  PROVE  Awaited([q EXCEPT ![i].state = "wait_for_pubcomp"], mid, FALSE)
           = Awaited(q, mid, FALSE)
<1> DEFINE r == [q EXCEPT ![i].state = "wait_for_pubcomp"]
<1>1. Len(r) = Len(q) /\ \A j \in 1..Len(q) : j # i => r[j] = q[j]
  OBVIOUS
<1>2. r[i] = [q[i] EXCEPT !.state = "wait_for_pubcomp"] /\ q[i] \in Message
  OBVIOUS
<1>3. r[i].mid = q[i].mid /\ ~Held(r[i])
  BY <1>2 DEF Message, Held
<1> HIDE DEF r
<1>4. \A j \in 1..Len(q) : r[j].mid = q[j].mid /\ (Held(r[j]) <=> Held(q[j]))
  BY <1>1, <1>3
<1>5. Awaited(r, mid, FALSE) = Awaited(q, mid, FALSE)
  BY <1>1, <1>4 DEF Awaited
<1> QED  BY <1>5 DEF r

\* The reset at the CONNACK keeps what was sent since the reconnection.
LEMMA ResetAwaited ==
  ASSUME NEW q \in Seq(Message), NEW mid
  PROVE  Awaited(ReconnectReset(q, TRUE), mid, TRUE) = Awaited(q, mid, TRUE)
<1> DEFINE r == ReconnectReset(q, TRUE)
<1>1. DOMAIN q = 1..Len(q) /\ Len(q) \in Nat /\ InflightMaximum \in Nat
  BY InflightMaximumAssumption
<1>2. r = [i \in 1..Len(q) |->
             IF i > InflightMaximum THEN [q[i] EXCEPT !.state = "invalid"] ELSE q[i]]
  BY <1>1 DEF ReconnectReset
<1> HIDE DEF r
<1>3. Len(r) = Len(q) /\ \A i \in 1..Len(q) : i <= InflightMaximum => r[i] = q[i]
  BY <1>1, <1>2
<1>4. Awaited(r, mid, TRUE) = Awaited(q, mid, TRUE)
  BY <1>3 DEF Awaited
<1> QED  BY <1>4 DEF r

\* message__retry_check sends what is in flight and was not sent before.
LEMMA RetrySends ==
  ASSUME NEW q \in Seq(Message), NEW up,
         up => \A i \in 1..Len(q) : i > InflightMaximum => Held(q[i])
  PROVE  /\ RetryPackets(q) \in Seq(ListPacket)
         /\ \A mid :
              /\ Cardinality(Awaited(q, mid, TRUE)) <= Cardinality(Awaited(RetryMark(q), mid, FALSE))
              /\ up => Count(RetryPackets(q), Asking(mid)) + Cardinality(Awaited(q, mid, TRUE))
                         <= Cardinality(Awaited(RetryMark(q), mid, FALSE))
<1> DEFINE again(m) == MustPublishAgain(m) \/ MustRelAgain(m)
           I == {i \in DOMAIN q : again(q[i])}
           s == [i \in DOMAIN q |->
                   IF MustPublishAgain(q[i]) THEN PublishPacket([q[i] EXCEPT !.dup = TRUE])
                   ELSE MidPacket("PUBREL", q[i].mid)]
           r == RetryMark(q)
<1>1. DOMAIN q = 1..Len(q) /\ Len(q) \in Nat /\ \A i \in 1..Len(q) : q[i] \in Message
  OBVIOUS
<1>2. RetryPackets(q) = Sublist(s, I)
  BY DEF RetryPackets
<1>3. s \in Seq(ListPacket) /\ Len(s) = Len(q) /\ \A i \in 1..Len(q) : s[i].mid = q[i].mid
  <2>1. \A i \in 1..Len(q) : s[i] \in ListPacket /\ s[i].mid = q[i].mid
    BY <1>1, PacketTypes
  <2>2. s = [i \in 1..Len(q) |-> s[i]]
    BY <1>1
  <2> HIDE DEF s
  <2> QED  BY <1>1, <2>1, <2>2
<1>4. I \in SUBSET (1..Len(s))
  BY <1>1, <1>3
<1>5. /\ r = [i \in 1..Len(q) |-> IF again(q[i]) THEN [q[i] EXCEPT !.dup = TRUE] ELSE q[i]]
      /\ r \in Seq(Message) /\ Len(r) = Len(q)
  <2>1. r = [i \in 1..Len(q) |-> IF again(q[i]) THEN [q[i] EXCEPT !.dup = TRUE] ELSE q[i]]
    BY <1>1 DEF RetryMark
  <2>2. \A i \in 1..Len(q) : [q[i] EXCEPT !.dup = TRUE] \in Message
    BY <1>1, ResendType
  <2> HIDE DEF r
  <2> QED  BY <1>1, <2>1, <2>2
<1>6. \A i \in 1..Len(q) : r[i].mid = q[i].mid /\ r[i].state = q[i].state
  <2>1. ASSUME NEW i \in 1..Len(q)
        PROVE  r[i].mid = q[i].mid /\ r[i].state = q[i].state
    <3>1. r[i] = [q[i] EXCEPT !.dup = TRUE] \/ r[i] = q[i]
      BY <1>5
    <3> HIDE DEF r
    <3> QED  BY <1>1, <3>1 DEF Message
  <2> QED  BY <2>1
<1>7. \A i \in I : ~Held(q[i]) /\ q[i].state \notin {"wait_for_puback", "wait_for_pubrec"}
  BY DEF Held, MustPublishAgain, MustRelAgain
<1> HIDE DEF s, I, r
<1>8. RetryPackets(q) \in Seq(ListPacket)
  BY <1>2, <1>3, <1>4, SublistFacts
<1>9. ASSUME NEW mid
      PROVE  /\ Cardinality(Awaited(q, mid, TRUE)) <= Cardinality(Awaited(r, mid, FALSE))
             /\ up => Count(RetryPackets(q), Asking(mid)) + Cardinality(Awaited(q, mid, TRUE))
                        <= Cardinality(Awaited(r, mid, FALSE))
  <2> DEFINE K == {i \in I : s[i] \in Asking(mid)}
             A == Awaited(q, mid, TRUE)
             B == Awaited(r, mid, FALSE)
  <2>1. IsFiniteSet(K) /\ Count(RetryPackets(q), Asking(mid)) <= Cardinality(K)
    BY <1>2, <1>3, <1>4, SublistCount
  <2>2. up => K \subseteq B
    <3>1. ASSUME up, NEW i \in K PROVE i \in B
      <4>1. i \in 1..Len(q) /\ s[i].mid = mid /\ ~Held(q[i])
        BY <1>3, <1>4, <1>7 DEF Asking
      <4>2. i <= InflightMaximum
        BY <1>1, <3>1, <4>1, InflightMaximumAssumption
      <4> QED  BY <1>3, <1>5, <1>6, <4>1, <4>2 DEF Awaited, Held
    <3> QED  BY <3>1
  <2>3. A \subseteq B /\ A \cap K = {}
    <3>1. ASSUME NEW i \in A PROVE i \in B /\ i \notin K
      <4>1. /\ i \in 1..Len(q) /\ q[i].mid = mid
            /\ q[i].state \in {"wait_for_puback", "wait_for_pubrec"}
        BY DEF Awaited
      <4> QED  BY <1>5, <1>6, <1>7, <4>1 DEF Awaited, Held
    <3> QED  BY <3>1
  <2>4. IsFiniteSet(A) /\ IsFiniteSet(B) /\ Cardinality(A) \in Nat /\ Cardinality(B) \in Nat
    BY <1>5, AwaitedType
  <2>5. Count(RetryPackets(q), Asking(mid)) \in Nat
    BY <1>8, CountType
  <2> HIDE DEF A, B, K
  <2>6. Cardinality(K) \in Nat
    BY <2>1, FS_CardinalityType
  <2>7. Cardinality(A \cup K) = Cardinality(A) + Cardinality(K) - Cardinality(A \cap K)
        /\ Cardinality(A \cap K) = 0
    BY <2>1, <2>3, <2>4, FS_Union, FS_EmptySet
  <2>8. Cardinality(A) <= Cardinality(B)
    <3>1. A \in SUBSET B
      BY <2>3
    <3> QED  BY <2>4, <3>1, FS_Subset
  <2>9. ASSUME up
        PROVE  Count(RetryPackets(q), Asking(mid)) + Cardinality(A) <= Cardinality(B)
    <3>1. A \cup K \in SUBSET B
      BY <2>2, <2>3, <2>9
    <3>2. Cardinality(A \cup K) <= Cardinality(B)
      BY <2>4, <3>1, FS_Subset
    <3> QED  BY <2>1, <2>4, <2>5, <2>6, <2>7, <3>2
  <2> QED  BY <2>8, <2>9 DEF A, B
<1> QED  BY <1>8, <1>9 DEF r

-----------------------------------------------------------------------------
(***************************************************************************)
(* The order of the messages, and of the packets sent from the list.       *)
(***************************************************************************)
\* m may be the i-th message of a list after n calls of mosquitto_publish: only
\* within the window it can be sent again or be past its PUBREC, as those of
\* the set D of ids are.
Fits(m, i, n, D) ==
  /\ m.id <= n
  /\ i > InflightMaximum => ~m.dup /\ ~MustPublishAgain(m) /\ ~MustRelAgain(m)
  /\ Held(m) => ~m.dup
  /\ MustRelAgain(m) => m.qos = 2
  /\ m.id \in D => MustRelAgain(m)

Numbered(q) == \A i, j \in 1..Len(q) : i < j => q[i].id < q[j].id

Listed(q, n, D) == Numbered(q) /\ \A i \in 1..Len(q) : Fits(q[i], i, n, D)

LEMMA SameListed ==
  ASSUME NEW q \in Seq(Message), NEW r \in Seq(Message), NEW n, NEW D,
         Listed(q, n, D), Len(r) = Len(q),
         \A i \in 1..Len(q) : r[i].id = q[i].id /\ Fits(r[i], i, n, D)
  PROVE  Listed(r, n, D)
BY DEF Listed, Numbered

LEMMA WaitingFits ==
  ASSUME NEW m \in Message, NEW i, NEW n, NEW D, Held(m), Fits(m, i, n, D)
  PROVE  Waiting(m).id = m.id /\ Waiting(m).dup = m.dup /\ Fits(Waiting(m), i, n, D)
         /\ ~MustPublishAgain(Waiting(m))
BY DEF Fits, Waiting, Held, MustPublishAgain, MustRelAgain, Message

LEMMA MoveFacts ==
  ASSUME NEW q \in Seq(Message), NEW R \in SUBSET (1..Len(q))
  PROVE  /\ MoveToInflight(q, R) \in Seq(Message) /\ Len(MoveToInflight(q, R)) = Len(q)
         /\ \A i \in 1..Len(q) :
              MoveToInflight(q, R)[i] = IF i \in R THEN Waiting(q[i]) ELSE q[i]
<1>1. \A i \in 1..Len(q) : q[i] \in Message /\ Waiting(q[i]) \in Message
  BY WaitingType
<1>2. DOMAIN q = 1..Len(q) /\ Len(q) \in Nat
  OBVIOUS
<1> QED  BY <1>1, <1>2 DEF MoveToInflight

LEMMA MoveListed ==
  ASSUME NEW q \in Seq(Message), NEW R \in SUBSET (1..Len(q)), \A i \in R : Held(q[i]),
         NEW n, NEW D, Listed(q, n, D)
  PROVE  Listed(MoveToInflight(q, R), n, D)
<1> DEFINE r == MoveToInflight(q, R)
<1>1. r \in Seq(Message) /\ Len(r) = Len(q)
      /\ \A i \in 1..Len(q) : r[i] = IF i \in R THEN Waiting(q[i]) ELSE q[i]
  BY MoveFacts
<1> HIDE DEF r
<1>2. \A i \in 1..Len(q) : r[i].id = q[i].id /\ Fits(r[i], i, n, D)
  BY <1>1, WaitingFits DEF Listed
<1>3. Listed(r, n, D)
  BY <1>1, <1>2, SameListed
<1> QED  BY <1>3 DEF r

\* message__release_to_inflight moves held messages on, the first ones first.
LEMMA ReleasedFacts ==
  ASSUME NEW q \in Seq(Message), NEW quota, NEW ok \in BOOLEAN, quota \in Nat
  PROVE  LET R == ReleasedSet(q, quota, ok)
         IN /\ R \in SUBSET (1..Len(q)) /\ \A i \in R : Held(q[i])
            /\ ok => \A i \in R, j \in 1..Len(q) : Held(q[j]) /\ j \notin R => i < j
<1> DEFINE R == ReleasedSet(q, quota, ok)
<1>1. R \in SUBSET (1..Len(q)) /\ \A i \in R : Held(q[i])
  BY DEF ReleasedSet, FirstHeld
<1>2. ASSUME ok, NEW i \in R, NEW j \in 1..Len(q), Held(q[j]), j \notin R
      PROVE  i < j
  <2> DEFINE H(k) == {x \in 1..k : Held(q[x])}
  <2>1. R = FirstHeld(q, quota)
    BY <1>2 DEF ReleasedSet
  <2>2. Cardinality(H(i)) <= quota /\ ~(Cardinality(H(j)) <= quota)
    <3>1. R = {x \in 1..Len(q) : Held(q[x]) /\ Cardinality(H(x)) <= quota}
      BY <2>1 DEF FirstHeld
    <3> HIDE DEF R, H
    <3> QED  BY <1>2, <3>1
  <2>3. i \in Nat /\ j \in Nat
    BY <1>1
  <2>4. ASSUME j <= i
        PROVE  FALSE
    <3>1. H(j) \in SUBSET H(i)
      BY <2>3, <2>4
    <3>2. IsFiniteSet(1..i) /\ H(i) \in SUBSET (1..i)
      BY <2>3, FS_Interval
    <3> HIDE DEF H
    <3>3. IsFiniteSet(H(i))
      BY <3>2, FS_Subset
    <3>4. Cardinality(H(j)) <= Cardinality(H(i)) /\ IsFiniteSet(H(j))
      BY <3>1, <3>3, FS_Subset
    <3>5. Cardinality(H(j)) \in Nat /\ Cardinality(H(i)) \in Nat
      BY <3>3, <3>4, FS_CardinalityType
    <3> QED  BY <2>2, <3>4, <3>5
  <2> QED  BY <2>3, <2>4
<1> QED  BY <1>1, <1>2

LEMMA ReleaseListed ==
  ASSUME NEW q \in Seq(Message), NEW quota \in Nat, NEW ok \in BOOLEAN,
         NEW n, NEW D, Listed(q, n, D)
  PROVE  Listed(ReleaseToInflight(q, quota, ok).inflight, n, D)
<1> DEFINE R == ReleasedSet(q, quota, ok)
<1>1. R \in SUBSET (1..Len(q)) /\ \A i \in R : Held(q[i])
  BY ReleasedFacts
<1>2. ReleaseToInflight(q, quota, ok).inflight = MoveToInflight(q, R)
  BY DEF ReleaseToInflight
<1> HIDE DEF R
<1> QED  BY <1>1, <1>2, MoveListed

LEMMA AppendListed ==
  ASSUME NEW q \in Seq(Message), NEW m \in Message, Held(m), ~m.dup,
         NEW n \in Nat, NEW D \in SUBSET (0..n), m.id = n + 1, Listed(q, n, D)
  PROVE  Append(q, m) \in Seq(Message) /\ Listed(Append(q, m), n + 1, D)
<1> DEFINE a == Append(q, m)
<1>1. /\ a \in Seq(Message) /\ Len(a) = Len(q) + 1 /\ Len(q) \in Nat
      /\ a[Len(q) + 1] = m /\ \A i \in 1..Len(q) : a[i] = q[i] /\ q[i].id \in Nat
  <2>1. ASSUME NEW i \in 1..Len(q)
        PROVE  q[i].id \in Nat
    <3>1. q[i] \in Message
      OBVIOUS
    <3> QED  BY <3>1 DEF Message
  <2> QED  BY <2>1
<1>2. \A i \in 1..Len(a) : i \in 1..Len(q) \/ i = Len(q) + 1
  BY <1>1
<1> HIDE DEF a
<1>3. ASSUME NEW i \in 1..Len(q)
      PROVE  Fits(a[i], i, n + 1, D) /\ a[i].id <= n
  BY <1>1 DEF Listed, Fits
<1>4. Fits(m, Len(q) + 1, n + 1, D)
  BY DEF Fits, Held, MustPublishAgain, MustRelAgain
<1>5. Numbered(a)
  <2> SUFFICES ASSUME NEW i \in 1..Len(a), NEW j \in 1..Len(a), i < j
               PROVE  a[i].id < a[j].id
    BY DEF Numbered
  <2>1. i \in 1..Len(q)
    BY <1>1
  <2>2. CASE j \in 1..Len(q)
    BY <1>1, <2>1, <2>2 DEF Listed, Numbered
  <2>3. CASE j = Len(q) + 1
    BY <1>1, <1>3, <2>1, <2>3
  <2> QED  BY <1>2, <2>2, <2>3
<1>6. Listed(a, n + 1, D)
  BY <1>1, <1>2, <1>3, <1>4, <1>5 DEF Listed
<1> QED  BY <1>1, <1>6 DEF a

LEMMA QueueListed ==
  ASSUME NEW q \in Seq(Message), NEW quota \in Nat, NEW ok \in BOOLEAN,
         NEW m \in Message, Held(m), ~m.dup,
         NEW n \in Nat, NEW D \in SUBSET (0..n), m.id = n + 1, Listed(q, n, D)
  PROVE  Listed(MessageQueue(q, quota, m, ok).inflight, n + 1, D)
<1> DEFINE a == Append(q, m)
<1>1. a \in Seq(Message) /\ Listed(a, n + 1, D)
  BY AppendListed
<1> HIDE DEF a
<1>2. Listed(ReleaseToInflight(a, quota, ok).inflight, n + 1, D)
  BY <1>1, ReleaseListed
<1> QED  BY <1>2 DEF MessageQueue, a

LEMMA RemovedAre ==
  ASSUME NEW q \in Seq(Message), NEW f \in 1..Len(q)
  PROVE  /\ RemoveFrom(q, f) \in Seq(Message) /\ Len(RemoveFrom(q, f)) = Len(q) - 1
         /\ \A j \in 1..(Len(q) - 1) : \E i \in 1..Len(q) :
              /\ RemoveFrom(q, f)[j] = q[i]
              /\ i = IF j < f THEN j ELSE j + 1
<1>1. Len(q) \in Nat /\ \A i \in 1..Len(q) : q[i] \in Message
  OBVIOUS
<1>2. RemoveFrom(q, f) = [j \in 1..(Len(q) - 1) |-> IF j < f THEN q[j] ELSE q[j + 1]]
  BY DEF RemoveFrom
<1> QED  BY <1>1, <1>2

LEMMA RemoveListed ==
  ASSUME NEW q \in Seq(Message), NEW f \in 1..Len(q), NEW n, NEW D, Listed(q, n, D)
  PROVE  Listed(RemoveFrom(q, f), n, D)
<1> DEFINE r == RemoveFrom(q, f)
<1>0. /\ r \in Seq(Message) /\ Len(r) = Len(q) - 1
      /\ \A j \in 1..(Len(q) - 1) : \E i \in 1..Len(q) :
           /\ r[j] = q[i]
           /\ i = IF j < f THEN j ELSE j + 1
  BY ONLY q \in Seq(Message), f \in 1..Len(q), RemovedAre
<1> HIDE DEF r
<1>1. /\ r \in Seq(Message) /\ Len(r) = Len(q) - 1 /\ Len(q) \in Nat /\ f \in Nat
      /\ \A j \in 1..(Len(q) - 1) : \E i \in 1..Len(q) :
           r[j] = q[i] /\ i = IF j < f THEN j ELSE j + 1
  BY <1>0
<1>2. ASSUME NEW j \in 1..Len(r)
      PROVE  Fits(r[j], j, n, D)
  <2>1. PICK i \in 1..Len(q) : r[j] = q[i] /\ i = IF j < f THEN j ELSE j + 1
    BY <1>1
  <2>2. Fits(q[i], i, n, D) /\ (j > InflightMaximum => i > InflightMaximum)
    BY <1>1, <2>1, InflightMaximumAssumption DEF Listed
  <2> QED  BY <2>1, <2>2 DEF Fits
<1>3. ASSUME NEW j \in 1..Len(r), NEW k \in 1..Len(r), j < k
      PROVE  r[j].id < r[k].id
  <2>1. PICK i \in 1..Len(q) : r[j] = q[i] /\ i = IF j < f THEN j ELSE j + 1
    BY <1>1
  <2>2. PICK x \in 1..Len(q) : r[k] = q[x] /\ x = IF k < f THEN k ELSE k + 1
    BY <1>1
  <2>3. i < x
    BY <1>1, <1>3, <2>1, <2>2
  <2> QED  BY <2>1, <2>2, <2>3 DEF Listed, Numbered
<1>4. Listed(r, n, D)
  BY <1>2, <1>3 DEF Listed, Numbered
<1> QED  BY <1>4 DEF r

\* A message past its PUBREC stays past it at a reconnection: it is within the
\* window, and ResendState keeps it there.
LEMMA ResetListed ==
  ASSUME NEW q \in Seq(Message), NEW b \in BOOLEAN, NEW n, NEW D, Listed(q, n, D)
  PROVE  Listed(ReconnectReset(q, b), n, D)
<1> DEFINE r == ReconnectReset(q, b)
<1>1. DOMAIN q = 1..Len(q) /\ Len(q) \in Nat /\ InflightMaximum \in Nat
  BY InflightMaximumAssumption
<1>2. r \in Seq(Message)
  BY ResetType
<1>3. r = [i \in 1..Len(q) |->
             IF i > InflightMaximum THEN [q[i] EXCEPT !.state = "invalid"]
             ELSE IF b THEN q[i] ELSE [q[i] EXCEPT !.state = ResendState(q[i])]]
  BY <1>1 DEF ReconnectReset
<1> HIDE DEF r
<1>4. Len(r) = Len(q)
  BY <1>1, <1>2, <1>3
<1>5. ASSUME NEW i \in 1..Len(q)
      PROVE  r[i].id = q[i].id /\ Fits(r[i], i, n, D)
  <2>1. q[i] \in Message /\ Fits(q[i], i, n, D) /\ i \in Nat
    BY DEF Listed
  <2>2. CASE i > InflightMaximum
    <3>1. r[i] = [q[i] EXCEPT !.state = "invalid"]
      BY <1>3, <2>2
    <3>2. /\ r[i].id = q[i].id /\ r[i].dup = q[i].dup /\ r[i].state = "invalid"
          /\ r[i].qos = q[i].qos
      BY <2>1, <3>1 DEF Message
    <3> QED  BY <2>1, <2>2, <3>2 DEF Fits, Held, MustPublishAgain, MustRelAgain
  <2>3. CASE ~(i > InflightMaximum) /\ b
    BY <1>3, <2>1, <2>3
  <2>4. CASE ~(i > InflightMaximum) /\ ~b
    <3>1. r[i] = [q[i] EXCEPT !.state = ResendState(q[i])]
      BY <1>3, <2>4
    <3>2. /\ r[i].id = q[i].id /\ r[i].dup = q[i].dup /\ r[i].state = ResendState(q[i])
          /\ r[i].qos = q[i].qos /\ q[i].qos \in {1, 2}
      BY <2>1, <3>1 DEF Message
    <3>3. /\ r[i].state = "invalid" => q[i].state = "invalid"
          /\ MustRelAgain(r[i]) <=> MustRelAgain(q[i])
      BY <2>1, <3>2 DEF ResendState, MustRelAgain, Fits
    <3> QED  BY <2>1, <2>4, <3>2, <3>3 DEF Fits, Held
  <2> QED  BY <2>2, <2>3, <2>4
<1>6. Listed(r, n, D)
  BY <1>2, <1>4, <1>5, SameListed
<1> QED  BY <1>6 DEF r

LEMMA RetryFacts ==
  ASSUME NEW q \in Seq(Message)
  PROVE  /\ RetryMark(q) \in Seq(Message) /\ Len(RetryMark(q)) = Len(q)
         /\ \A i \in 1..Len(q) :
              LET r == RetryMark(q)[i]
              IN /\ r.id = q[i].id /\ r.state = q[i].state /\ r.qos = q[i].qos
                 /\ r.dup = (q[i].dup \/ MustPublishAgain(q[i]) \/ MustRelAgain(q[i]))
<1>1. DOMAIN q = 1..Len(q) /\ Len(q) \in Nat
  OBVIOUS
<1>2. RetryMark(q) \in Seq(Message)
  BY RetryType
<1>3. RetryMark(q) = [i \in 1..Len(q) |->
                        IF MustPublishAgain(q[i]) \/ MustRelAgain(q[i])
                        THEN [q[i] EXCEPT !.dup = TRUE] ELSE q[i]]
  BY <1>1 DEF RetryMark
<1>4. ASSUME NEW i \in 1..Len(q)
      PROVE  LET r == RetryMark(q)[i]
             IN /\ r.id = q[i].id /\ r.state = q[i].state /\ r.qos = q[i].qos
                /\ r.dup = (q[i].dup \/ MustPublishAgain(q[i]) \/ MustRelAgain(q[i]))
  <2>1. q[i] \in Message
    OBVIOUS
  <2>2. /\ [q[i] EXCEPT !.dup = TRUE].id = q[i].id
        /\ [q[i] EXCEPT !.dup = TRUE].state = q[i].state
        /\ [q[i] EXCEPT !.dup = TRUE].qos = q[i].qos
        /\ [q[i] EXCEPT !.dup = TRUE].dup = TRUE /\ q[i].dup \in BOOLEAN
    BY <2>1 DEF Message
  <2> QED  BY <1>3, <2>2
<1>5. Len(RetryMark(q)) = Len(q)
  BY <1>1, <1>3
<1> QED  BY <1>2, <1>4, <1>5, Zenon

LEMMA RetryListed ==
  ASSUME NEW q \in Seq(Message), NEW n, NEW D, Listed(q, n, D)
  PROVE  Listed(RetryMark(q), n, D)
<1> DEFINE r == RetryMark(q)
<1>1. /\ r \in Seq(Message) /\ Len(r) = Len(q)
      /\ \A i \in 1..Len(q) :
           /\ r[i].id = q[i].id /\ r[i].state = q[i].state /\ r[i].qos = q[i].qos
           /\ r[i].dup = (q[i].dup \/ MustPublishAgain(q[i]) \/ MustRelAgain(q[i]))
  BY RetryFacts
<1> HIDE DEF r
<1>2. ASSUME NEW i \in 1..Len(q)
      PROVE  r[i].id = q[i].id /\ Fits(r[i], i, n, D)
  <2>1. Fits(q[i], i, n, D)
    BY DEF Listed
  <2>2. /\ r[i].id = q[i].id /\ r[i].state = q[i].state /\ r[i].qos = q[i].qos
        /\ r[i].dup = (q[i].dup \/ MustPublishAgain(q[i]) \/ MustRelAgain(q[i]))
    BY <1>1
  <2> QED  BY <2>1, <2>2 DEF Fits, Held, MustPublishAgain, MustRelAgain
<1>3. Listed(r, n, D)
  BY <1>1, <1>2, SameListed
<1> QED  BY <1>3 DEF r

LEMMA UpdateListed ==
  ASSUME NEW q \in Seq(Message), NEW i \in 1..Len(q), i <= InflightMaximum,
         q[i].qos = 2, ~Held(q[i]), NEW n, NEW D, Listed(q, n, D)
  PROVE  Listed([q EXCEPT ![i].state = "wait_for_pubcomp"], n, D)
<1> DEFINE r == [q EXCEPT ![i].state = "wait_for_pubcomp"]
           m == [q[i] EXCEPT !.state = "wait_for_pubcomp"]
<1>1. q[i] \in Message
  OBVIOUS
<1>2. m \in Message /\ m.id = q[i].id /\ m.qos = 2 /\ m.state = "wait_for_pubcomp"
  BY <1>1 DEF Message, MsgStates
<1>3. /\ r \in Seq(Message) /\ Len(r) = Len(q) /\ r[i] = m
      /\ \A j \in 1..Len(q) : j # i => r[j] = q[j]
  BY <1>1, <1>2
<1> HIDE DEF r, m
<1>4. Fits(m, i, n, D)
  <2>1. Fits(q[i], i, n, D) /\ ~(i > InflightMaximum)
    BY InflightMaximumAssumption DEF Listed
  <2> QED  BY <1>2, <2>1 DEF Fits, Held, MustPublishAgain, MustRelAgain
<1>5. \A j \in 1..Len(q) : r[j].id = q[j].id /\ Fits(r[j], j, n, D)
  BY <1>2, <1>3, <1>4 DEF Listed
<1>6. Listed(r, n, D)
  BY <1>3, <1>5, SameListed
<1> QED  BY <1>6 DEF r

-----------------------------------------------------------------------------
\* The packet b may follow a on a connection.
Follows(a, b) == a.id # b.id /\ (a.dup = b.dup => a.id < b.id)

InOrder(w) == \A i, j \in Publishes(w) : i < j => Follows(w[i], w[j])

\* After the packet p, m does not travel again, and not before its turn: it is
\* not sent by a release nor, before the retry at the CONNACK (fresh), by that.
Clear(p, m, fresh) ==
  /\ Held(m) => p.id # m.id /\ (~p.dup => p.id < m.id)
  /\ fresh /\ p.id = m.id => ~MustPublishAgain(m)

Behind(w, q, n, fresh) ==
  \A i \in Publishes(w) :
    /\ w[i].id <= n /\ (fresh => ~w[i].dup)
    /\ \A j \in 1..Len(q) : Clear(w[i], q[j], fresh)

\* w is what has travelled on a connection when the list is q.
Trail(w, q, n, fresh) == w \in Seq(ListPacket) /\ InOrder(w) /\ Behind(w, q, n, fresh)

LEMMA PublishesType ==
  ASSUME NEW w \in Seq(ListPacket)
  PROVE  /\ Publishes(w) \subseteq 1..Len(w)
         /\ \A i \in Publishes(w) : w[i].id \in Nat /\ w[i].dup \in BOOLEAN
<1>1. DOMAIN w = 1..Len(w) /\ \A i \in 1..Len(w) : w[i] \in ListPacket
  OBVIOUS
<1> QED  BY <1>1 DEF Publishes, ListPacket

LEMMA ConcatPublishes ==
  ASSUME NEW w \in Seq(ListPacket), NEW s \in Seq(ListPacket),
         NEW i \in Publishes(w \o s)
  PROVE  /\ i \in Nat
         /\ \/ i \in Publishes(w) /\ (w \o s)[i] = w[i] /\ i <= Len(w)
            \/ i - Len(w) \in Publishes(s) /\ (w \o s)[i] = s[i - Len(w)] /\ i > Len(w)
<1>1. /\ Len(w) \in Nat /\ Len(s) \in Nat /\ DOMAIN (w \o s) = 1..(Len(w) + Len(s))
      /\ DOMAIN w = 1..Len(w) /\ DOMAIN s = 1..Len(s)
      /\ \A x \in 1..Len(w) : (w \o s)[x] = w[x]
      /\ \A x \in 1..(Len(w) + Len(s)) : x > Len(w) => (w \o s)[x] = s[x - Len(w)]
  OBVIOUS
<1>2. i \in 1..(Len(w) + Len(s)) /\ (w \o s)[i].type = "PUBLISH" /\ (w \o s)[i].qos > 0
  BY <1>1 DEF Publishes
<1>3. CASE i <= Len(w)
  BY <1>1, <1>2, <1>3 DEF Publishes
<1>4. CASE i > Len(w)
  <2>1. i - Len(w) \in 1..Len(s) /\ (w \o s)[i] = s[i - Len(w)]
    BY <1>1, <1>2, <1>4
  <2> QED  BY <1>1, <1>2, <1>4, <2>1 DEF Publishes
<1> QED  BY <1>1, <1>2, <1>3, <1>4

LEMMA TrailGrows ==
  ASSUME NEW w \in Seq(ListPacket), NEW s \in Seq(ListPacket), InOrder(w), InOrder(s),
         \A i \in Publishes(w), j \in Publishes(s) : Follows(w[i], s[j]),
         NEW q, NEW n, NEW fresh, Behind(w, q, n, fresh), Behind(s, q, n, fresh)
  PROVE  Trail(w \o s, q, n, fresh)
<1> DEFINE t == w \o s
<1>1. t \in Seq(ListPacket) /\ Len(w) \in Nat
  OBVIOUS
<1>2. \A i \in Publishes(t) :
        /\ i \in Nat
        /\ \/ i \in Publishes(w) /\ t[i] = w[i] /\ i <= Len(w)
           \/ i - Len(w) \in Publishes(s) /\ t[i] = s[i - Len(w)] /\ i > Len(w)
  BY ConcatPublishes
<1> HIDE DEF t
<1>3. Behind(t, q, n, fresh)
  BY <1>2 DEF Behind
<1>4. ASSUME NEW i \in Publishes(t), NEW j \in Publishes(t), i < j
      PROVE  Follows(t[i], t[j])
  <2>1. CASE i <= Len(w) /\ j <= Len(w)
    BY <1>1, <1>2, <1>4, <2>1 DEF InOrder
  <2>2. CASE i <= Len(w) /\ j > Len(w)
    BY <1>1, <1>2, <2>2
  <2>3. CASE i > Len(w) /\ j > Len(w)
    <3>1. /\ i - Len(w) \in Publishes(s) /\ t[i] = s[i - Len(w)]
          /\ j - Len(w) \in Publishes(s) /\ t[j] = s[j - Len(w)]
          /\ i - Len(w) < j - Len(w)
      BY <1>1, <1>2, <1>4, <2>3
    <3> QED  BY <3>1 DEF InOrder
  <2> QED  BY <1>1, <1>2, <1>4, <2>1, <2>2, <2>3
<1>5. Trail(t, q, n, fresh)
  BY <1>1, <1>3, <1>4 DEF Trail, InOrder
<1> QED  BY <1>5 DEF t

LEMMA TrailSame ==
  ASSUME NEW w, NEW q, NEW r, NEW n, NEW k, NEW fresh, NEW later, Trail(w, q, n, fresh),
         n \in Nat, k \in Nat, n <= k, later => fresh,
         \A p, j : j \in 1..Len(r) /\ p.id \in Nat /\ p.id <= n
                   /\ (\A i \in 1..Len(q) : Clear(p, q[i], fresh)) => Clear(p, r[j], later)
  PROVE  Trail(w, r, k, later)
<1>1. w \in Seq(ListPacket) /\ InOrder(w) /\ Behind(w, q, n, fresh)
  BY DEF Trail
<1>2. ASSUME NEW i \in Publishes(w)
      PROVE  /\ w[i].id <= k /\ (later => ~w[i].dup)
             /\ \A j \in 1..Len(r) : Clear(w[i], r[j], later)
  <2>1. w[i].id \in Nat
    BY <1>1, PublishesType
  <2>2. w[i].id <= n /\ (fresh => ~w[i].dup)
        /\ \A j \in 1..Len(q) : Clear(w[i], q[j], fresh)
    BY <1>1 DEF Behind
  <2> QED  BY <2>1, <2>2
<1> QED  BY <1>1, <1>2 DEF Trail, Behind

\* The packets at some positions of s, in their order.
LEMMA SublistOrder ==
  ASSUME NEW s \in Seq(ListPacket), NEW I \in SUBSET (1..Len(s)),
         \A i, j \in I : i < j /\ i \in Publishes(s) /\ j \in Publishes(s)
                         => Follows(s[i], s[j])
  PROVE  /\ Sublist(s, I) \in Seq(ListPacket) /\ InOrder(Sublist(s, I))
         /\ \A n \in Publishes(Sublist(s, I)) :
              \E i \in I : i \in Publishes(s) /\ Sublist(s, I)[n] = s[i]
<1> DEFINE r == Sublist(s, I)
<1>1. /\ r \in Seq(ListPacket) /\ Len(r) = Cardinality(I) /\ IsFiniteSet(I)
      /\ \A n \in 1..Cardinality(I) : Nth(I, n) \in I /\ r[n] = s[Nth(I, n)]
  BY SublistFacts
<1> HIDE DEF r
<1>2. ASSUME NEW n \in Publishes(r)
      PROVE  /\ n \in 1..Cardinality(I) /\ n \in Nat
             /\ Nth(I, n) \in I /\ Nth(I, n) \in Publishes(s) /\ r[n] = s[Nth(I, n)]
  <2>1. n \in 1..Cardinality(I) /\ n \in Nat /\ r[n].type = "PUBLISH" /\ r[n].qos > 0
    BY <1>1 DEF Publishes
  <2>2. DOMAIN s = 1..Len(s)
    OBVIOUS
  <2> QED  BY <1>1, <2>1, <2>2 DEF Publishes
<1>3. ASSUME NEW n \in Publishes(r), NEW k \in Publishes(r), n < k
      PROVE  Follows(r[n], r[k])
  <2>1. Nth(I, n) < Nth(I, k)
    <3>1. I \in SUBSET Nat
      OBVIOUS
    <3> QED  BY <1>1, <1>2, <1>3, <3>1, NthOrder
  <2> QED  BY <1>2, <2>1
<1>4. InOrder(r)
  BY <1>3 DEF InOrder
<1> QED  BY <1>1, <1>2, <1>4 DEF r

-----------------------------------------------------------------------------
LEMMA PublishPacketIs ==
  ASSUME NEW m \in Message
  PROVE  LET p == PublishPacket(m)
         IN /\ p \in ListPacket /\ p.type = "PUBLISH" /\ p.qos > 0
            /\ p.id = m.id /\ p.dup = m.dup
BY DEF Message, PublishPacket, ListPacket

\* A release sends messages that had not travelled, in their order, and those
\* it leaves held back come after them.
LEMMA ReleaseTrail ==
  ASSUME NEW q \in Seq(Message), NEW quota \in Nat, NEW ok \in BOOLEAN,
         NEW n \in Nat, Listed(q, n, {}), NEW w, NEW fresh \in BOOLEAN, Trail(w, q, n, fresh)
  PROVE  LET r == ReleaseToInflight(q, quota, ok)
         IN /\ r.sent \in Seq(ListPacket)
            /\ Trail(w \o r.sent, r.inflight, n, fresh)
<1> DEFINE R == ReleasedSet(q, quota, ok)
           s == [i \in DOMAIN q |-> PublishPacket(q[i])]
           sent == Sublist(s, R)
           r == MoveToInflight(q, R)
<1>1. /\ R \in SUBSET (1..Len(q)) /\ \A i \in R : Held(q[i])
      /\ ok => \A i \in R, j \in 1..Len(q) : Held(q[j]) /\ j \notin R => i < j
  BY ReleasedFacts
<1>2. /\ ReleaseToInflight(q, quota, ok).inflight = r
      /\ ReleaseToInflight(q, quota, ok).sent = IF ok THEN sent ELSE <<>>
  BY DEF ReleaseToInflight
<1>3. /\ DOMAIN q = 1..Len(q) /\ Len(q) \in Nat
      /\ \A i \in 1..Len(q) : q[i] \in Message
  OBVIOUS
<1>4. /\ s \in Seq(ListPacket) /\ Len(s) = Len(q)
      /\ \A i \in 1..Len(q) : s[i].id = q[i].id /\ s[i].dup = q[i].dup
  BY <1>3, PublishPacketIs
<1> HIDE DEF R, s
<1>5. /\ r \in Seq(Message) /\ Len(r) = Len(q)
      /\ \A i \in 1..Len(q) : r[i] = IF i \in R THEN Waiting(q[i]) ELSE q[i]
  BY <1>1, MoveFacts
<1> HIDE DEF r
<1>6. ASSUME NEW i \in R
      PROVE  /\ r[i].id = q[i].id /\ ~MustPublishAgain(r[i]) /\ ~Held(r[i])
             /\ q[i].id \in Nat /\ q[i].id <= n /\ ~q[i].dup /\ Held(q[i])
  <2>1. q[i] \in Message /\ Fits(q[i], i, n, {}) /\ Held(q[i])
    BY <1>1, <1>3 DEF Listed
  <2>2. r[i] = Waiting(q[i])
    BY <1>1, <1>5
  <2>3. Waiting(q[i]).id = q[i].id /\ ~MustPublishAgain(Waiting(q[i])) /\ ~Held(Waiting(q[i]))
    BY <2>1, WaitingFits, WaitingType
  <2>4. q[i].id \in Nat
    BY <2>1 DEF Message
  <2> QED  BY <2>1, <2>2, <2>3, <2>4 DEF Fits
<1>7. Trail(w, r, n, fresh)
  <2>1. ASSUME NEW p, NEW j \in 1..Len(r), \A i \in 1..Len(q) : Clear(p, q[i], fresh)
        PROVE  Clear(p, r[j], fresh)
    <3>1. CASE j \in R
      BY <1>6, <3>1 DEF Clear
    <3>2. CASE j \notin R
      BY <1>5, <2>1, <3>2
    <3> QED  BY <3>1, <3>2
  <2>2. \A p, j : j \in 1..Len(r) /\ p.id \in Nat /\ p.id <= n
                  /\ (\A i \in 1..Len(q) : Clear(p, q[i], fresh)) => Clear(p, r[j], fresh)
    BY <2>1
  <2>3. n <= n /\ (fresh => fresh)
    OBVIOUS
  <2> HIDE DEF sent
  <2> QED  BY ONLY Trail(w, q, n, fresh), n \in Nat, <2>2, <2>3, TrailSame
<1>8. CASE ok
  <2>1. /\ sent \in Seq(ListPacket) /\ InOrder(sent)
        /\ \A x \in Publishes(sent) : \E i \in R : i \in Publishes(s) /\ sent[x] = s[i]
    <3>1. ASSUME NEW i \in R, NEW j \in R, i < j
          PROVE  Follows(s[i], s[j])
      <4>1. q[i].id < q[j].id /\ q[i].id \in Nat /\ q[j].id \in Nat
        BY <1>1, <1>6, <3>1 DEF Listed, Numbered
      <4> QED  BY <1>1, <1>4, <4>1 DEF Follows
    <3>2. R \in SUBSET (1..Len(s))
      BY <1>1, <1>4
    <3> QED  BY <1>4, <3>1, <3>2, SublistOrder
  <2> HIDE DEF sent
  <2>2. ASSUME NEW x \in Publishes(sent)
        PROVE  \E i \in R : i \in 1..Len(q) /\ sent[x].id = q[i].id /\ sent[x].dup = q[i].dup
    BY <1>1, <1>4, <2>1
  <2>3. w \in Seq(ListPacket) /\ InOrder(w) /\ Behind(w, q, n, fresh) /\ Behind(w, r, n, fresh)
    BY <1>7 DEF Trail
  <2>4. ASSUME NEW y \in Publishes(w), NEW x \in Publishes(sent)
        PROVE  Follows(w[y], sent[x])
    <3>1. PICK i \in R : i \in 1..Len(q) /\ sent[x].id = q[i].id /\ sent[x].dup = q[i].dup
      BY <2>2
    <3>2. Clear(w[y], q[i], fresh) /\ w[y].dup \in BOOLEAN
      BY <2>3, <3>1, PublishesType DEF Behind
    <3> QED  BY <1>6, <3>1, <3>2 DEF Clear, Follows
  <2>5. ASSUME NEW x \in Publishes(sent), NEW j \in 1..Len(r)
        PROVE  sent[x].id <= n /\ ~sent[x].dup /\ Clear(sent[x], r[j], fresh)
    <3>1. PICK i \in R : i \in 1..Len(q) /\ sent[x].id = q[i].id /\ sent[x].dup = q[i].dup
      BY <2>2
    <3>2. sent[x].id <= n /\ ~sent[x].dup
      BY <1>6, <3>1
    <3>3. CASE j \in R
      BY <1>6, <3>2, <3>3 DEF Clear
    <3>4. CASE j \notin R
      <4>1. r[j] = q[j] /\ j \in 1..Len(q) /\ i # j
        BY <1>5, <3>4
      <4>2. Held(q[j]) => i < j
        BY <1>1, <1>8, <3>4, <4>1
      <4>3. i < j => q[i].id < q[j].id
        BY <3>1, <4>1 DEF Listed, Numbered
      <4>4. j < i => q[j].id < q[i].id
        BY <3>1, <4>1 DEF Listed, Numbered
      <4>5. q[i].id \in Nat /\ q[j].id \in Nat /\ i \in Nat /\ j \in Nat
        BY <1>3, <3>1, <4>1 DEF Message
      <4>6. q[i].id # q[j].id
        BY <4>1, <4>3, <4>4, <4>5
      <4> QED  BY <3>1, <3>2, <4>1, <4>2, <4>3, <4>5, <4>6 DEF Clear
    <3> QED  BY <3>2, <3>3, <3>4
  <2>6. ASSUME NEW x \in Publishes(sent)
        PROVE  sent[x].id <= n /\ ~sent[x].dup
    BY <1>6, <2>2
  <2>7. Behind(sent, r, n, fresh)
    BY <2>5, <2>6 DEF Behind
  <2>8. Trail(w \o sent, r, n, fresh)
    BY <2>1, <2>3, <2>4, <2>7, TrailGrows
  <2> QED  BY <1>2, <1>8, <2>1, <2>8
<1>9. CASE ~ok
  <2>1. w \o <<>> = w /\ <<>> \in Seq(ListPacket)
    BY <1>7 DEF Trail
  <2> QED  BY <1>2, <1>7, <1>9, <2>1
<1> QED  BY <1>8, <1>9

LEMMA QueueTrail ==
  ASSUME NEW q \in Seq(Message), NEW quota \in Nat, NEW ok \in BOOLEAN,
         NEW m \in Message, Held(m), ~m.dup, NEW n \in Nat, m.id = n + 1, Listed(q, n, {}),
         NEW w, NEW fresh \in BOOLEAN, Trail(w, q, n, fresh)
  PROVE  LET r == MessageQueue(q, quota, m, ok)
         IN /\ r.sent \in Seq(ListPacket)
            /\ Trail(w \o r.sent, r.inflight, n + 1, fresh)
<1> DEFINE a == Append(q, m)
<1>1. a \in Seq(Message) /\ Listed(a, n + 1, {}) /\ n + 1 \in Nat
  BY AppendListed
<1>2. /\ Len(a) = Len(q) + 1 /\ Len(q) \in Nat
      /\ a[Len(q) + 1] = m /\ \A i \in 1..Len(q) : a[i] = q[i]
  OBVIOUS
<1> HIDE DEF a
<1>3. ASSUME NEW p, NEW j \in 1..Len(a), p.id \in Nat, p.id <= n,
             \A i \in 1..Len(q) : Clear(p, q[i], fresh)
      PROVE  Clear(p, a[j], fresh)
  <2>1. CASE j \in 1..Len(q)
    BY <1>2, <1>3, <2>1
  <2>2. CASE j = Len(q) + 1
    BY <1>2, <1>3, <2>2 DEF Clear
  <2> QED  BY <1>2, <2>1, <2>2
<1>4. Trail(w, a, n + 1, fresh)
  BY <1>1, <1>3, TrailSame
<1> DEFINE r == ReleaseToInflight(a, quota, ok)
<1>5. r.sent \in Seq(ListPacket) /\ Trail(w \o r.sent, r.inflight, n + 1, fresh)
  BY <1>1, <1>4, ReleaseTrail
<1> QED  BY <1>5 DEF MessageQueue, a

LEMMA RemoveTrail ==
  ASSUME NEW q \in Seq(Message), NEW f \in 1..Len(q), NEW n \in Nat, NEW w, NEW fresh,
         Trail(w, q, n, fresh)
  PROVE  Trail(w, RemoveFrom(q, f), n, fresh)
<1> DEFINE r == RemoveFrom(q, f)
<1>1. \A j \in 1..Len(r) : \E i \in 1..Len(q) : r[j] = q[i]
  BY RemovedAre
<1> HIDE DEF r
<1>2. Trail(w, r, n, fresh)
  BY <1>1, TrailSame
<1> QED  BY <1>2 DEF r

LEMMA UpdateTrail ==
  ASSUME NEW q \in Seq(Message), NEW i \in 1..Len(q), NEW n \in Nat, NEW w, NEW fresh,
         Trail(w, q, n, fresh)
  PROVE  Trail(w, [q EXCEPT ![i].state = "wait_for_pubcomp"], n, fresh)
<1> DEFINE r == [q EXCEPT ![i].state = "wait_for_pubcomp"]
<1>1. q[i] \in Message /\ Len(r) = Len(q) /\ \A j \in 1..Len(q) : j # i => r[j] = q[j]
  OBVIOUS
<1>2. r[i] = [q[i] EXCEPT !.state = "wait_for_pubcomp"]
  OBVIOUS
<1>3. ~Held(r[i]) /\ ~MustPublishAgain(r[i])
  BY <1>1, <1>2 DEF Held, MustPublishAgain, Message
<1> HIDE DEF r
<1>4. ASSUME NEW p, NEW j \in 1..Len(r), \A k \in 1..Len(q) : Clear(p, q[k], fresh)
      PROVE  Clear(p, r[j], fresh)
  BY <1>1, <1>3, <1>4 DEF Clear
<1>5. \A p, j : j \in 1..Len(r) /\ p.id \in Nat /\ p.id <= n
                /\ (\A k \in 1..Len(q) : Clear(p, q[k], fresh)) => Clear(p, r[j], fresh)
  BY <1>4
<1>6. n <= n /\ (fresh => fresh)
  OBVIOUS
<1>7. Trail(w, r, n, fresh)
  BY ONLY Trail(w, q, n, fresh), n \in Nat, <1>5, <1>6, TrailSame
<1> QED  BY <1>7 DEF r

\* The reset at a CONNACK changes nothing while the window is exact.
LEMMA ResetTrail ==
  ASSUME NEW q \in Seq(Message), \A i \in 1..Len(q) : i > InflightMaximum => Held(q[i]),
         NEW n \in Nat, NEW w, NEW fresh, Trail(w, q, n, fresh)
  PROVE  Trail(w, ReconnectReset(q, TRUE), n, fresh)
<1> DEFINE r == ReconnectReset(q, TRUE)
<1>1. DOMAIN q = 1..Len(q) /\ Len(q) \in Nat
  OBVIOUS
<1>2. r = [i \in 1..Len(q) |->
             IF i > InflightMaximum THEN [q[i] EXCEPT !.state = "invalid"] ELSE q[i]]
  BY <1>1 DEF ReconnectReset
<1>3. Len(r) = Len(q)
  <2>1. r \in Seq(Message)
    BY ResetType
  <2> HIDE DEF r
  <2> QED  BY <1>1, <1>2, <2>1
<1> HIDE DEF r
<1>4. ASSUME NEW p, NEW j \in 1..Len(r), \A k \in 1..Len(q) : Clear(p, q[k], fresh)
      PROVE  Clear(p, r[j], fresh)
  <2>1. j \in 1..Len(q) /\ q[j] \in Message /\ Clear(p, q[j], fresh)
    BY <1>1, <1>3, <1>4
  <2>2. CASE j > InflightMaximum
    <3>1. r[j] = [q[j] EXCEPT !.state = "invalid"] /\ Held(q[j])
      BY <1>2, <2>1, <2>2
    <3>2. r[j].id = q[j].id /\ Held(r[j]) /\ ~MustPublishAgain(r[j])
      BY <2>1, <3>1 DEF Message, Held, MustPublishAgain
    <3> QED  BY <2>1, <3>1, <3>2 DEF Clear
  <2>3. CASE ~(j > InflightMaximum)
    BY <1>2, <2>1, <2>3
  <2> QED  BY <2>2, <2>3
<1>5. \A p, j : j \in 1..Len(r) /\ p.id \in Nat /\ p.id <= n
                /\ (\A k \in 1..Len(q) : Clear(p, q[k], fresh)) => Clear(p, r[j], fresh)
  BY <1>4
<1>6. n <= n /\ (fresh => fresh)
  OBVIOUS
<1>7. Trail(w, r, n, fresh)
  BY ONLY Trail(w, q, n, fresh), n \in Nat, <1>5, <1>6, TrailSame
<1> QED  BY <1>7 DEF r

\* The retry at the CONNACK sends what has not travelled on this connection.
LEMMA RetryTrail ==
  ASSUME NEW q \in Seq(Message), NEW n \in Nat, Listed(q, n, {}), NEW w,
         Trail(w, q, n, TRUE)
  PROVE  /\ RetryPackets(q) \in Seq(ListPacket)
         /\ Trail(w \o RetryPackets(q), RetryMark(q), n, FALSE)
         /\ Trail(w, RetryMark(q), n, FALSE)
<1> DEFINE I == {i \in DOMAIN q : MustPublishAgain(q[i]) \/ MustRelAgain(q[i])}
           s == [i \in DOMAIN q |->
                   IF MustPublishAgain(q[i]) THEN PublishPacket([q[i] EXCEPT !.dup = TRUE])
                   ELSE MidPacket("PUBREL", q[i].mid)]
           r == RetryMark(q)
           sent == Sublist(s, I)
<1>1. DOMAIN q = 1..Len(q) /\ Len(q) \in Nat /\ \A i \in 1..Len(q) : q[i] \in Message
  OBVIOUS
<1>2. RetryPackets(q) = sent
  BY DEF RetryPackets
<1>3. ASSUME NEW i \in 1..Len(q)
      PROVE  /\ q[i] \in Message /\ q[i].id \in Nat /\ q[i].id <= n
             /\ PublishPacket([q[i] EXCEPT !.dup = TRUE]) \in ListPacket
             /\ PublishPacket([q[i] EXCEPT !.dup = TRUE]).id = q[i].id
             /\ PublishPacket([q[i] EXCEPT !.dup = TRUE]).dup = TRUE
             /\ MidPacket("PUBREL", q[i].mid) \in ListPacket
             /\ MidPacket("PUBREL", q[i].mid).type = "PUBREL"
  <2>1. q[i] \in Message /\ Fits(q[i], i, n, {})
    BY <1>1 DEF Listed
  <2>2. q[i].id \in Nat /\ q[i].id <= n /\ q[i].mid \in 1..MaxMid
    BY <2>1 DEF Message, Fits
  <2>3. /\ [q[i] EXCEPT !.dup = TRUE] \in Message
        /\ [q[i] EXCEPT !.dup = TRUE].id = q[i].id /\ [q[i] EXCEPT !.dup = TRUE].dup = TRUE
    BY <2>1 DEF Message
  <2>4. MidPacket("PUBREL", q[i].mid) \in ListPacket
        /\ MidPacket("PUBREL", q[i].mid).type = "PUBREL"
    BY <2>2 DEF MidPacket, ListPacket
  <2> QED  BY <2>1, <2>2, <2>3, <2>4, PublishPacketIs
<1>4. /\ s \in Seq(ListPacket) /\ Len(s) = Len(q) /\ I \in SUBSET (1..Len(s))
  <2>1. \A i \in 1..Len(q) : s[i] \in ListPacket
    BY <1>1, <1>3
  <2>2. s = [i \in 1..Len(q) |-> s[i]]
    BY <1>1
  <2>3. I \in SUBSET (1..Len(q))
    BY <1>1
  <2> HIDE DEF s, I
  <2>4. s \in Seq(ListPacket) /\ Len(s) = Len(q)
    BY <1>1, <2>1, <2>2
  <2> QED  BY <2>3, <2>4
<1>5. ASSUME NEW i \in 1..Len(q), i \in Publishes(s)
      PROVE  MustPublishAgain(q[i]) /\ s[i].id = q[i].id /\ s[i].dup = TRUE
  <2>1. s[i].type = "PUBLISH"
    BY <1>5 DEF Publishes
  <2>2. CASE MustPublishAgain(q[i])
    BY <1>1, <1>3, <2>2
  <2>3. CASE ~MustPublishAgain(q[i])
    BY <1>1, <1>3, <2>1, <2>3
  <2> QED  BY <2>2, <2>3
<1> HIDE DEF I, s
<1>6. /\ Len(r) = Len(q)
      /\ \A i \in 1..Len(q) : r[i].id = q[i].id /\ r[i].state = q[i].state
  BY RetryFacts
<1> HIDE DEF r
<1>7. ASSUME NEW i \in 1..Len(q), NEW j \in 1..Len(q), i # j
      PROVE  q[i].id # q[j].id
  <2>1. i < j \/ j < i
    BY <1>1, <1>7
  <2>2. q[i].id \in Nat /\ q[j].id \in Nat
    BY <1>3
  <2> QED  BY <2>1, <2>2 DEF Listed, Numbered
<1>8. /\ sent \in Seq(ListPacket) /\ InOrder(sent)
      /\ \A x \in Publishes(sent) : \E i \in I : i \in Publishes(s) /\ sent[x] = s[i]
  <2>1. ASSUME NEW i \in I, NEW j \in I, i < j, i \in Publishes(s), j \in Publishes(s)
        PROVE  Follows(s[i], s[j])
    <3>1. i \in 1..Len(q) /\ j \in 1..Len(q)
      BY <1>4
    <3>2. q[i].id < q[j].id /\ q[i].id \in Nat /\ q[j].id \in Nat
      BY <1>3, <2>1, <3>1 DEF Listed, Numbered
    <3>3. s[i].id = q[i].id /\ s[j].id = q[j].id
      BY <1>5, <2>1, <3>1
    <3> QED  BY <3>2, <3>3 DEF Follows
  <2> QED  BY <1>4, <2>1, SublistOrder
<1> HIDE DEF sent
<1>9. ASSUME NEW x \in Publishes(sent)
      PROVE  \E i \in 1..Len(q) : /\ MustPublishAgain(q[i]) /\ sent[x].id = q[i].id
                                  /\ sent[x].dup = TRUE
  <2>1. PICK i \in I : i \in Publishes(s) /\ sent[x] = s[i]
    BY <1>8
  <2> QED  BY <1>4, <1>5, <2>1
<1>10. Trail(w, r, n, FALSE)
  <2>1. ASSUME NEW p, NEW j \in 1..Len(r), \A k \in 1..Len(q) : Clear(p, q[k], TRUE)
        PROVE  Clear(p, r[j], FALSE)
    BY <1>6, <2>1 DEF Clear, Held
  <2>2. \A p, j : j \in 1..Len(r) /\ p.id \in Nat /\ p.id <= n
                  /\ (\A k \in 1..Len(q) : Clear(p, q[k], TRUE)) => Clear(p, r[j], FALSE)
    BY <2>1
  <2>3. n <= n /\ (FALSE => TRUE)
    OBVIOUS
  <2> QED  BY ONLY Trail(w, q, n, TRUE), n \in Nat, <2>2, <2>3, TrailSame
<1>11. w \in Seq(ListPacket) /\ InOrder(w) /\ Behind(w, q, n, TRUE) /\ Behind(w, r, n, FALSE)
  BY <1>10 DEF Trail
<1>12. ASSUME NEW y \in Publishes(w), NEW x \in Publishes(sent)
       PROVE  Follows(w[y], sent[x])
  <2>1. PICK i \in 1..Len(q) : /\ MustPublishAgain(q[i]) /\ sent[x].id = q[i].id
                               /\ sent[x].dup = TRUE
    BY <1>9
  <2>2. Clear(w[y], q[i], TRUE) /\ ~w[y].dup
    BY <1>11 DEF Behind
  <2> QED  BY <2>1, <2>2 DEF Clear, Follows
<1>13. ASSUME NEW x \in Publishes(sent)
       PROVE  sent[x].id <= n /\ \A j \in 1..Len(r) : Clear(sent[x], r[j], FALSE)
  <2>1. PICK i \in 1..Len(q) : /\ MustPublishAgain(q[i]) /\ sent[x].id = q[i].id
                               /\ sent[x].dup = TRUE
    BY <1>9
  <2>2. ASSUME NEW j \in 1..Len(q), Held(r[j])
        PROVE  sent[x].id # r[j].id
    <3>1. Held(q[j]) /\ ~Held(q[i]) /\ r[j].id = q[j].id
      BY <1>6, <2>1, <2>2 DEF Held, MustPublishAgain
    <3> QED  BY <1>7, <2>1, <3>1
  <2>3. \A j \in 1..Len(r) : Clear(sent[x], r[j], FALSE)
    BY <1>6, <2>1, <2>2 DEF Clear
  <2> QED  BY <1>3, <2>1, <2>3
<1>14. Behind(sent, r, n, FALSE)
  BY <1>13 DEF Behind
<1>15. Trail(w \o sent, r, n, FALSE)
  BY <1>8, <1>11, <1>12, <1>14, TrailGrows
<1> QED  BY <1>2, <1>8, <1>10, <1>15 DEF r

\* What a handler's packets leave in the history: those that carry a message.
LEMMA PublishesTrail ==
  ASSUME NEW w \in Seq(ListPacket), NEW s \in Seq(ListPacket), NEW q, NEW n, NEW fresh,
         Trail(w \o s, q, n, fresh), Publishes(w) = DOMAIN w
  PROVE  LET t == w \o Sublist(s, Publishes(s))
         IN Trail(t, q, n, fresh) /\ Publishes(t) = DOMAIN t
<1> DEFINE I == Publishes(s)
           r == Sublist(s, I)
           v == w \o s
<1>1. /\ Len(w) \in Nat /\ Len(s) \in Nat /\ DOMAIN v = 1..(Len(w) + Len(s))
      /\ DOMAIN w = 1..Len(w) /\ DOMAIN s = 1..Len(s)
      /\ \A x \in 1..Len(w) : v[x] = w[x]
      /\ \A x \in 1..(Len(w) + Len(s)) : x > Len(w) => v[x] = s[x - Len(w)]
  OBVIOUS
<1>2. InOrder(v) /\ Behind(v, q, n, fresh)
  BY DEF Trail
<1> HIDE DEF v
<1>3. I \in SUBSET (1..Len(s))
  BY PublishesType
<1>4. ASSUME NEW i \in Publishes(w)
      PROVE  i \in 1..Len(w) /\ i \in Publishes(v) /\ v[i] = w[i]
  BY <1>1 DEF Publishes
<1>5. ASSUME NEW i \in I
      PROVE  /\ Len(w) + i \in Publishes(v) /\ v[Len(w) + i] = s[i]
             /\ i \in Nat /\ i > 0
  <2>1. i \in 1..Len(s) /\ s[i].type = "PUBLISH" /\ s[i].qos > 0
    BY <1>3 DEF Publishes
  <2>2. /\ Len(w) + i \in 1..(Len(w) + Len(s)) /\ Len(w) + i > Len(w)
        /\ (Len(w) + i) - Len(w) = i
    BY <1>1, <2>1
  <2>3. v[Len(w) + i] = s[i]
    BY <1>1, <2>2
  <2> QED  BY <1>1, <2>1, <2>2, <2>3 DEF Publishes
<1>6. /\ r \in Seq(ListPacket) /\ InOrder(r)
      /\ \A x \in Publishes(r) : \E i \in I : r[x] = s[i]
  <2>1. ASSUME NEW i \in I, NEW j \in I, i < j
        PROVE  Follows(s[i], s[j])
    <3>1. Len(w) + i < Len(w) + j
      BY <1>1, <1>5, <2>1
    <3> QED  BY <1>2, <1>5, <3>1 DEF InOrder
  <2> HIDE DEF I
  <2> QED  BY <1>3, <2>1, SublistOrder
<1>7. InOrder(w) /\ Behind(w, q, n, fresh)
  BY <1>2, <1>4 DEF InOrder, Behind
<1>8. Publishes(r) = DOMAIN r
  <2>1. \A x \in DOMAIN r : \E i \in I : r[x] = s[i]
    <3>1. DOMAIN r = 1..Cardinality(I)
      BY DEF Sublist
    <3>2. \A x \in 1..Cardinality(I) : Nth(I, x) \in I /\ r[x] = s[Nth(I, x)]
      BY <1>3, SublistFacts
    <3> QED  BY <3>1, <3>2
  <2>2. \A x \in DOMAIN r : r[x].type = "PUBLISH" /\ r[x].qos > 0
    BY <2>1 DEF Publishes
  <2> HIDE DEF r
  <2> QED  BY <2>2 DEF Publishes
<1> HIDE DEF r
<1>9. ASSUME NEW i \in Publishes(w), NEW x \in Publishes(r)
      PROVE  Follows(w[i], r[x])
  <2>1. PICK j \in I : r[x] = s[j]
    BY <1>6
  <2>2. i \in 1..Len(w) /\ i < Len(w) + j
    BY <1>1, <1>4, <1>5, <2>1
  <2> QED  BY <1>2, <1>4, <1>5, <2>1, <2>2 DEF InOrder
<1>10. Behind(r, q, n, fresh)
  <2> HIDE DEF I
  <2> QED  BY <1>2, <1>5, <1>6 DEF Behind
<1>11. Trail(w \o r, q, n, fresh)
  BY <1>6, <1>7, <1>9, <1>10, TrailGrows
<1>12. Publishes(w \o r) = DOMAIN (w \o r)
  <2>1. /\ DOMAIN (w \o r) = 1..(Len(w) + Len(r)) /\ Len(r) \in Nat /\ DOMAIN r = 1..Len(r)
        /\ \A x \in 1..Len(w) : (w \o r)[x] = w[x]
        /\ \A x \in 1..(Len(w) + Len(r)) : x > Len(w) => (w \o r)[x] = r[x - Len(w)]
    BY <1>6
  <2>2. ASSUME NEW x \in 1..(Len(w) + Len(r))
        PROVE  (w \o r)[x].type = "PUBLISH" /\ (w \o r)[x].qos > 0
    <3>1. CASE x <= Len(w)
      BY <1>1, <2>1, <3>1 DEF Publishes
    <3>2. CASE x > Len(w)
      <4>1. x - Len(w) \in 1..Len(r)
        BY <1>1, <2>1, <3>2
      <4>2. r[x - Len(w)].type = "PUBLISH" /\ r[x - Len(w)].qos > 0
        BY <1>8, <2>1, <4>1 DEF Publishes
      <4> QED  BY <2>1, <3>2, <4>2
    <3> QED  BY <1>1, <2>1, <3>1, <3>2
  <2> QED  BY <2>1, <2>2 DEF Publishes
<1> QED  BY <1>11, <1>12 DEF r

-----------------------------------------------------------------------------
(***************************************************************************)
(* The client.                                                             *)
(***************************************************************************)
\* The part of the client that handlers thread through their calls.
ClientOK(c) ==
  /\ c.inflight \in Seq(Message)
  /\ c.quota \in 0..InflightMaximum
  /\ c.mid \in 0..MaxMid
  /\ c.submitted \in Seq(QosLevels)

-----------------------------------------------------------------------------
(***************************************************************************)
(* Types.                                                                  *)
(***************************************************************************)
LEMMA NextMidType ==
  ASSUME NEW mid \in 0..MaxMid
  PROVE  NextMid(mid) \in 1..MaxMid
BY MaxMidAssumption DEF NextMid

LEMMA NewMessageType ==
  ASSUME NEW id \in Nat, NEW mid \in 1..MaxMid, NEW qos \in {1, 2}
  PROVE  NewMessage(id, mid, qos) \in Message /\ Held(NewMessage(id, mid, qos))
BY DEF NewMessage, Message, MsgStates, Held

LEMMA PublishCallType ==
  ASSUME NEW c, ClientOK(c), NEW qos \in QosLevels, NEW ok \in BOOLEAN
  PROVE  ClientOK(PublishCall(c, qos, ok))
<1> DEFINE mid == NextMid(c.mid)
           m   == NewMessage(Len(c.submitted) + 1, mid, qos)
           p   == PublishCall(c, qos, ok)
<1>1. mid \in 1..MaxMid /\ mid \in 0..MaxMid
  <2>1. c.mid \in 0..MaxMid
    BY DEF ClientOK
  <2>2. mid \in 1..MaxMid
    BY <2>1, NextMidType
  <2> HIDE DEF mid
  <2> QED  BY <2>2, MaxMidAssumption
<1>2. Len(c.submitted) + 1 \in Nat /\ Append(c.submitted, qos) \in Seq(QosLevels)
  BY DEF ClientOK
<1>3. CASE qos = 0
  <2>1. /\ p.inflight = c.inflight
        /\ p.quota = c.quota
        /\ p.mid = mid
        /\ p.submitted = Append(c.submitted, qos)
    BY <1>3 DEF PublishCall
  <2> HIDE DEF p, mid
  <2> QED  BY <1>1, <1>2, <2>1 DEF ClientOK, p
<1>4. CASE qos # 0
  <2> DEFINE a == Append(c.inflight, m)
             r == ReleaseToInflight(a, c.quota, ok)
  <2>1. /\ p.inflight = r.inflight
        /\ p.quota = r.quota
        /\ p.mid = mid
        /\ p.submitted = Append(c.submitted, qos)
    BY <1>4 DEF PublishCall, MessageQueue
  <2>2. qos \in {1, 2}
    BY <1>4, QosLevelsAssumption
  <2> HIDE DEF p, mid
  <2>3. m \in Message
    BY <1>1, <1>2, <2>2, NewMessageType
  <2> HIDE DEF m
  <2>4. a \in Seq(Message)
    BY <2>3 DEF ClientOK
  <2> HIDE DEF a
  <2>5. r.inflight \in Seq(Message) /\ r.quota \in 0..InflightMaximum
    BY <2>4, ReleaseType DEF ClientOK
  <2> HIDE DEF r
  <2> QED  BY <1>1, <1>2, <2>1, <2>5 DEF ClientOK, p
<1> QED  BY <1>3, <1>4

LEMMA CallbackCallsType ==
  ASSUME NEW calls \in CallbackCalls, calls # <<>>
  PROVE  Head(calls) \in QosLevels
BY DEF CallbackCalls

LEMMA InCallbackType ==
  ASSUME NEW c, ClientOK(c), NEW calls \in CallbackCalls
  PROVE  ClientOK(InCallback(c, calls))
<1>1. CASE calls = <<>>
  BY <1>1 DEF InCallback
<1>2. CASE calls # <<>>
  <2>1. Head(calls) \in QosLevels /\ (link # "none") \in BOOLEAN
    BY <1>2, CallbackCallsType
  <2>2. ClientOK(PublishCall(c, Head(calls), link # "none"))
    BY <2>1, PublishCallType
  <2> QED  BY <1>2, <2>2 DEF InCallback
<1> QED  BY <1>1, <1>2

LEMMA ReleasedType ==
  ASSUME NEW c, ClientOK(c), NEW ok \in BOOLEAN
  PROVE  ClientOK(Released(c, ok))
<1> DEFINE r == ReleaseToInflight(c.inflight, c.quota, ok)
<1>1. r.inflight \in Seq(Message) /\ r.quota \in 0..InflightMaximum
  BY ReleaseType DEF ClientOK
<1>2. /\ Released(c, ok).inflight = r.inflight
      /\ Released(c, ok).quota = r.quota
      /\ Released(c, ok).mid = c.mid
      /\ Released(c, ok).submitted = c.submitted
  BY DEF Released
<1> HIDE DEF r
<1> QED  BY <1>1, <1>2 DEF ClientOK

LEMMA ClientIsOK ==
  ASSUME ClientTypeOK
  PROVE  ClientOK(Client)
BY DEF ClientTypeOK, ClientOK, Client

LEMMA BecomeType ==
  ASSUME NEW c, ClientOK(c), Become(c), state' \in States, link' \in Links
  PROVE  ClientTypeOK'
BY DEF ClientOK, Become, ClientTypeOK

LEMMA IncrementQuotaType ==
  ASSUME NEW n \in 0..InflightMaximum
  PROVE  IncrementQuota(n) \in 0..InflightMaximum
BY InflightMaximumAssumption DEF IncrementQuota

\* The list and the quota after a reconnect or at a CONNACK.
LEMMA ResetIsOK ==
  ASSUME ClientTypeOK
  PROVE  ClientOK([Client EXCEPT !.inflight = ReconnectReset(@, TRUE),
                                 !.quota = QuotaAfterReset(msgs_out)])
<1>1. /\ ReconnectReset(msgs_out, TRUE) \in Seq(Message)
      /\ QuotaAfterReset(msgs_out) \in 0..InflightMaximum
  BY ResetType DEF ClientTypeOK
<1> QED  BY <1>1 DEF ClientTypeOK, ClientOK, Client

\* Every step keeps the types.
LEMMA TypeStep == ClientTypeOK /\ [Next]_vars => ClientTypeOK'
<1> SUFFICES ASSUME ClientTypeOK, [Next]_vars
             PROVE  ClientTypeOK'
  OBVIOUS
<1>0. state \in States /\ link \in Links /\ ClientOK(Client)
  BY ClientIsOK DEF ClientTypeOK
<1>1. ASSUME NEW qos \in QosLevels, Publish(qos)
      PROVE  ClientTypeOK'
  <2>1. ClientOK(PublishCall(Client, qos, link = "up"))
    BY <1>0, PublishCallType
  <2>2. state' \in States /\ link' \in Links
    BY <1>0, <1>1 DEF Publish, connVars
  <2>3. Become(PublishCall(Client, qos, link = "up"))
    BY <1>1 DEF Publish
  <2> QED  BY <2>1, <2>2, <2>3, BecomeType
<1>2. CASE Disconnect
  BY <1>2 DEF Disconnect, CloseLink, msgVars, ClientTypeOK, States, Links
<1>3. ASSUME ResetForReconnect, state' \in States, link' \in Links
      PROVE  ClientTypeOK'
  <2>1. /\ ReconnectReset(msgs_out, FALSE) \in Seq(Message)
        /\ QuotaAfterReset(msgs_out) \in 0..InflightMaximum
    BY ResetType DEF ClientTypeOK
  <2> QED  BY <1>3, <2>1 DEF ResetForReconnect, ClientTypeOK
<1>4. CASE Reconnect
  BY <1>3, <1>4 DEF Reconnect, States, Links
<1>5. CASE ReconnectFails
  BY <1>3, <1>5 DEF ReconnectFails, States, Links
<1>6. CASE ConnectAgain
  BY <1>6, InflightMaximumAssumption, MaxMidAssumption
     DEF ConnectAgain, ClientTypeOK, States, Links
<1>7. CASE HandleConnack
  <2> DEFINE c0 == [Client EXCEPT !.inflight = ReconnectReset(@, TRUE),
                                  !.quota = QuotaAfterReset(msgs_out)]
  <2>0. PICK calls \in CallbackCalls :
          \E sent : Become([InCallback(c0, calls) EXCEPT !.inflight = RetryMark(@),
                                                         !.sent = @ \o sent])
    BY <1>7 DEF HandleConnack
  <2>1. PICK sent : Become([InCallback(c0, calls) EXCEPT !.inflight = RetryMark(@),
                                                         !.sent = @ \o sent])
    BY <2>0
  <2>2. ClientOK(c0)
    BY ResetIsOK
  <2> HIDE DEF c0
  <2> DEFINE c1 == InCallback(c0, calls)
  <2>3. ClientOK(c1)
    BY <2>2, InCallbackType
  <2> HIDE DEF c1
  <2>4. RetryMark(c1.inflight) \in Seq(Message)
    BY <2>3, RetryType DEF ClientOK
  <2>5. Become([c1 EXCEPT !.inflight = RetryMark(@), !.sent = @ \o sent])
    BY <2>1 DEF c1
  <2>6. state' \in States /\ link' \in Links
    BY <1>0, <1>7 DEF HandleConnack, States
  <2>7. /\ msgs_out' = [c1 EXCEPT !.inflight = RetryMark(@), !.sent = @ \o sent].inflight
        /\ inflight_quota' = c1.quota
        /\ last_mid' = c1.mid
        /\ submitted' = c1.submitted
    BY <2>5 DEF Become
  <2> QED  BY <2>3, <2>4, <2>6, <2>7 DEF ClientOK, ClientTypeOK
<1>8. CASE HandleConnackRefused
  <2> DEFINE c0 == [Client EXCEPT !.inflight = ReconnectReset(@, TRUE),
                                  !.quota = QuotaAfterReset(msgs_out)]
  <2>1. PICK calls \in CallbackCalls : Become(InCallback(c0, calls))
    BY <1>8 DEF HandleConnackRefused
  <2>2. ClientOK(c0)
    BY ResetIsOK
  <2> HIDE DEF c0
  <2>3. ClientOK(InCallback(c0, calls))
    BY <2>2, InCallbackType
  <2>4. state' \in States /\ link' \in Links
    BY <1>0, <1>8 DEF HandleConnackRefused, CloseLink, Links
  <2> QED  BY <2>1, <2>3, <2>4, BecomeType
<1>9. CASE Refuse
  BY <1>9 DEF Refuse, CloseLink, msgVars, ClientTypeOK, Links
<1>10. CASE HandlePubackcomp
  <2> DEFINE p  == Head(toClient)
             c0 == [Client EXCEPT !.quota = IncrementQuota(@),
                                  !.inflight = MessageRemove(@, p.mid)]
  <2>1. <<>> \in CallbackCalls
    BY DEF CallbackCalls
  <2>2. PICK calls \in CallbackCalls :
          Become(Released(InCallback(c0, calls), link = "up"))
    BY <1>10, <2>1 DEF HandlePubackcomp
  <2>3. /\ MessageRemove(msgs_out, p.mid) \in Seq(Message)
        /\ IncrementQuota(inflight_quota) \in 0..InflightMaximum
    BY RemoveType, IncrementQuotaType DEF ClientTypeOK
  <2>4. ClientOK(c0)
    BY <2>3 DEF ClientOK, ClientTypeOK, Client
  <2> HIDE DEF c0
  <2>5. ClientOK(InCallback(c0, calls))
    BY <2>4, InCallbackType
  <2>6. ClientOK(Released(InCallback(c0, calls), link = "up"))
    BY <2>5, ReleasedType
  <2>7. state' \in States /\ link' \in Links
    BY <1>0, <1>10 DEF HandlePubackcomp, connVars
  <2> QED  BY <2>2, <2>6, <2>7, BecomeType
<1>11. CASE HandlePubackcompMismatch
  <2>1. IncrementQuota(inflight_quota) \in 0..InflightMaximum
    BY IncrementQuotaType DEF ClientTypeOK
  <2> QED  BY <1>11, <2>1 DEF HandlePubackcompMismatch, CloseLink, ClientTypeOK, Links
<1>12. CASE HandlePubrec
  <2>1. OutUpdate(msgs_out, Head(toClient).mid, "wait_for_pubcomp") \in Seq(Message)
    BY UpdateType DEF ClientTypeOK, MsgStates
  <2>2. msgs_out' \in Seq(Message) /\ link' \in Links
    BY <1>12, <2>1 DEF HandlePubrec, CloseLink, ClientTypeOK, Links
  <2> QED  BY <1>12, <2>2 DEF HandlePubrec, ClientTypeOK
<1>13. CASE DetectLoss
  BY <1>13 DEF DetectLoss, CloseLink, msgVars, ClientTypeOK, Links
<1>14. CASE BreakLink
  BY <1>14 DEF BreakLink, msgVars, ClientTypeOK, Links
<1>15. CASE Broker
  BY <1>15 DEF Broker, BrokerConnect, BrokerPublish, BrokerPubrel, BrokerHangUp,
               connVars, msgVars, ClientTypeOK
<1>16. CASE UNCHANGED vars \/ Quiescent
  BY <1>16 DEF Quiescent, vars, ClientTypeOK
<1> QED
  BY <1>1, <1>2, <1>4, <1>5, <1>6, <1>7, <1>8, <1>9, <1>10, <1>11, <1>12, <1>13,
     <1>14, <1>15, <1>16
     DEF Next, Application, HandlePacket

\* Whatever the client receives and whatever fails, its list holds messages
\* with ids between 1 and MaxMid, and its quota stays between 0 and the
\* maximum: it never goes below zero in message__release_to_inflight.
THEOREM TypeCorrect == Spec => []ClientTypeOK
<1>1. Init => ClientTypeOK
  BY InflightMaximumAssumption, MaxMidAssumption
     DEF Init, ClientTypeOK, States, Links
<1> QED  BY <1>1, TypeStep, PTL DEF Spec

-----------------------------------------------------------------------------
(***************************************************************************)
(* The window.                                                             *)
(***************************************************************************)
Up == link = "up"

\* An acknowledgment in the middle of handle__pubackcomp leaves Room; every
\* handler ends with the Window.
ClientRoom(c, up) == Room(c.inflight, c.quota, up)
ClientWindow(c, up) == Window(c.inflight, c.quota, up)

LEMMA PublishCallWindow ==
  ASSUME NEW c, ClientOK(c), NEW qos \in QosLevels, NEW ok \in BOOLEAN,
         NEW up \in BOOLEAN, up => ok, ClientRoom(c, up)
  PROVE  /\ ClientRoom(PublishCall(c, qos, ok), up)
         /\ ClientWindow(c, up) => ClientWindow(PublishCall(c, qos, ok), up)
<1> DEFINE mid == NextMid(c.mid)
           m   == NewMessage(Len(c.submitted) + 1, mid, qos)
           p   == PublishCall(c, qos, ok)
<1>1. CASE qos = 0
  <2>1. p.inflight = c.inflight /\ p.quota = c.quota
    BY <1>1 DEF PublishCall
  <2> HIDE DEF p
  <2> QED  BY <2>1 DEF ClientRoom, ClientWindow, p
<1>2. CASE qos # 0
  <2> DEFINE r == MessageQueue(c.inflight, c.quota, m, ok)
  <2>1. p.inflight = r.inflight /\ p.quota = r.quota
    BY <1>2 DEF PublishCall
  <2>2. mid \in 1..MaxMid /\ Len(c.submitted) + 1 \in Nat
    BY NextMidType DEF ClientOK
  <2>3. qos \in {1, 2}
    BY <1>2, QosLevelsAssumption
  <2> HIDE DEF p, mid
  <2>4. m \in Message /\ Held(m)
    BY <2>2, <2>3, NewMessageType
  <2> HIDE DEF m
  <2>5. /\ r.inflight \in Seq(Message)
        /\ r.quota \in 0..InflightMaximum
        /\ Window(r.inflight, r.quota, up)
    BY <2>4, QueueWindow DEF ClientOK, ClientRoom
  <2> HIDE DEF r
  <2>6. Window(p.inflight, p.quota, up)
    BY <2>1, <2>5
  <2>7. Room(p.inflight, p.quota, up)
    BY <2>1, <2>5, <2>6, WindowRoom
  <2> QED  BY <2>6, <2>7 DEF ClientRoom, ClientWindow, p
<1> QED  BY <1>1, <1>2

LEMMA InCallbackWindow ==
  ASSUME NEW c, ClientOK(c), NEW calls \in CallbackCalls,
         NEW up \in BOOLEAN, up => link # "none", ClientRoom(c, up)
  PROVE  /\ ClientRoom(InCallback(c, calls), up)
         /\ ClientWindow(c, up) => ClientWindow(InCallback(c, calls), up)
<1>1. CASE calls = <<>>
  BY <1>1 DEF InCallback
<1>2. CASE calls # <<>>
  <2> DEFINE p == PublishCall(c, Head(calls), link # "none")
  <2>1. Head(calls) \in QosLevels /\ (link # "none") \in BOOLEAN
    BY <1>2, CallbackCallsType
  <2>2. ClientRoom(p, up) /\ (ClientWindow(c, up) => ClientWindow(p, up))
    BY <2>1, PublishCallWindow
  <2> QED  BY <1>2, <2>2 DEF InCallback
<1> QED  BY <1>1, <1>2

LEMMA ReleasedWindow ==
  ASSUME NEW c, ClientOK(c), NEW ok \in BOOLEAN, NEW up \in BOOLEAN, up => ok,
         ClientRoom(c, up)
  PROVE  ClientWindow(Released(c, ok), up)
<1> DEFINE r == ReleaseToInflight(c.inflight, c.quota, ok)
<1>1. Window(r.inflight, r.quota, up)
  BY ReleaseRoom DEF ClientOK, ClientRoom
<1>2. Released(c, ok).inflight = r.inflight /\ Released(c, ok).quota = r.quota
  BY DEF Released
<1> HIDE DEF r
<1> QED  BY <1>1, <1>2 DEF ClientWindow

LEMMA WindowWeakens ==
  ASSUME NEW q, NEW quota, NEW up, NEW down, Window(q, quota, up), down => up
  PROVE  Window(q, quota, down)
BY DEF Window

LEMMA EmptyWindow ==
  ASSUME NEW up
  PROVE  Window(<<>>, InflightMaximum, up)
<1>1. Split(<<>>, 0) /\ Len(<<>>) = 0
  BY DEF Split
<1> QED  BY <1>1, InflightMaximumAssumption DEF Window

\* The inductive invariant: the list is a prefix of messages in flight and a
\* rest of held ones, the prefix fills the window when there is a rest, and the
\* quota completes the prefix.  HeldAreLast, HeldOnlyWhenFull and QuotaAccounts
\* are not inductive one by one: each handler needs the three.
IInv == ClientTypeOK /\ Window(msgs_out, inflight_quota, Up)

LEMMA BecomeWindow ==
  ASSUME NEW c, Become(c), ClientWindow(c, Up'), ClientTypeOK'
  PROVE  IInv'
BY DEF Become, ClientWindow, IInv, Up

LEMMA IInvImplies == IInv => HeldAreLast /\ HeldOnlyWhenFull /\ QuotaAccounts
<1> SUFFICES ASSUME IInv
             PROVE  HeldAreLast /\ HeldOnlyWhenFull /\ QuotaAccounts
  OBVIOUS
<1>1. msgs_out \in Seq(Message) /\ inflight_quota \in Nat
  BY InflightMaximumAssumption DEF IInv, ClientTypeOK
<1>2. PICK k \in 0..Len(msgs_out) :
        /\ Split(msgs_out, k)
        /\ k < Len(msgs_out) => k >= InflightMaximum
        /\ inflight_quota + k >= InflightMaximum
        /\ Up => inflight_quota + k = InflightMaximum
  BY DEF IInv, Window
<1>3. Len(msgs_out) \in Nat /\ k \in Nat /\ DOMAIN msgs_out = 1..Len(msgs_out)
  BY <1>1
<1>4. Cardinality(Inflight(msgs_out)) = k
  BY <1>1, <1>2, SplitInflight
<1>5. HeldAreLast
  BY <1>2, <1>3 DEF HeldAreLast, Split
<1>6. HeldOnlyWhenFull
  <2>1. ASSUME NEW i \in DOMAIN msgs_out, Held(msgs_out[i])
        PROVE  k < Len(msgs_out)
    BY <1>2, <1>3, <2>1 DEF Split
  <2> QED  BY <1>2, <1>4, <2>1 DEF HeldOnlyWhenFull
<1>7. QuotaAccounts
  BY <1>2, <1>4 DEF QuotaAccounts, Up
<1> QED  BY <1>5, <1>6, <1>7

-----------------------------------------------------------------------------
\* The list after the reset at a CONNACK has the window back, whatever was lost.
LEMMA ResetIsWindow ==
  ASSUME IInv, NEW now
  PROVE  ClientWindow([Client EXCEPT !.inflight = ReconnectReset(@, TRUE),
                                     !.quota = QuotaAfterReset(msgs_out)], now)
<1>1. Window(ReconnectReset(msgs_out, TRUE), QuotaAfterReset(msgs_out), now)
  BY ResetWindow DEF IInv, ClientTypeOK
<1> QED  BY <1>1 DEF ClientWindow, Client

LEMMA WindowStep == IInv /\ AcksMatch /\ [Next]_vars => IInv'
<1> SUFFICES ASSUME IInv, AcksMatch, [Next]_vars
             PROVE  IInv'
  OBVIOUS
<1>0. ClientTypeOK /\ ClientTypeOK' /\ ClientOK(Client) /\ Up \in BOOLEAN
  BY TypeStep, ClientIsOK DEF IInv, Up
<1>w. Window(msgs_out, inflight_quota, Up)
  BY DEF IInv
\* Steps that leave the list alone and do not repair the connection.
<1>s. ASSUME UNCHANGED <<msgs_out, inflight_quota>>, Up' => Up
      PROVE  IInv'
  <2>1. Window(msgs_out, inflight_quota, Up')
    BY <1>w, <1>s, WindowWeakens
  <2> QED  BY <1>0, <1>s, <2>1 DEF IInv
<1>1. ASSUME NEW qos \in QosLevels, Publish(qos)
      PROVE  IInv'
  <2> DEFINE c == PublishCall(Client, qos, link = "up")
  <2>1. ClientRoom(Client, Up) /\ ClientWindow(Client, Up)
    BY <1>0, <1>w, WindowRoom DEF ClientRoom, ClientWindow, Client, ClientTypeOK
  <2>2. ClientWindow(c, Up)
    BY <1>0, <2>1, PublishCallWindow DEF Up
  <2>3. Become(c) /\ Up' = Up
    BY <1>1 DEF Publish, connVars, Up
  <2> HIDE DEF c
  <2> QED  BY <1>0, <2>2, <2>3, BecomeWindow
<1>2. CASE Disconnect
  BY <1>2, <1>s DEF Disconnect, CloseLink, msgVars, Up
<1>3. ASSUME ResetForReconnect
      PROVE  IInv'
  <2>1. Window(ReconnectReset(msgs_out, FALSE), QuotaAfterReset(msgs_out), Up')
    BY <1>0, <1>w, ResetWindow DEF ClientTypeOK
  <2> QED  BY <1>0, <1>3, <2>1 DEF ResetForReconnect, IInv
<1>4. CASE Reconnect \/ ReconnectFails
  BY <1>3, <1>4 DEF Reconnect, ReconnectFails
<1>5. CASE ConnectAgain
  <2>1. msgs_out' = <<>> /\ inflight_quota' = InflightMaximum
    BY <1>5 DEF ConnectAgain
  <2>2. Window(<<>>, InflightMaximum, Up')
    BY EmptyWindow
  <2> QED  BY <1>0, <2>1, <2>2 DEF IInv
<1>6. CASE HandleConnack
  <2> DEFINE c0 == [Client EXCEPT !.inflight = ReconnectReset(@, TRUE),
                                  !.quota = QuotaAfterReset(msgs_out)]
  <2>0. PICK calls \in CallbackCalls :
          \E sent : Become([InCallback(c0, calls) EXCEPT !.inflight = RetryMark(@),
                                                         !.sent = @ \o sent])
    BY <1>6 DEF HandleConnack
  <2>1. PICK sent : Become([InCallback(c0, calls) EXCEPT !.inflight = RetryMark(@),
                                                         !.sent = @ \o sent])
    BY <2>0
  <2>2. ClientOK(c0) /\ ClientWindow(c0, Up)
    BY <1>0, ResetIsOK, ResetIsWindow
  <2> HIDE DEF c0
  <2>3. ClientRoom(c0, Up)
    BY <2>2, WindowRoom DEF ClientOK, ClientWindow, ClientRoom
  <2> DEFINE c1 == InCallback(c0, calls)
  <2>4. ClientOK(c1) /\ ClientWindow(c1, Up)
    BY <1>0, <2>2, <2>3, InCallbackType, InCallbackWindow DEF Up
  <2>5. msgs_out' = [c1 EXCEPT !.inflight = RetryMark(@), !.sent = @ \o sent].inflight
        /\ inflight_quota' = c1.quota
    BY <2>1 DEF Become
  <2> HIDE DEF c1
  <2>6. Window(RetryMark(c1.inflight), c1.quota, Up)
    BY <2>4, RetryWindow DEF ClientOK, ClientWindow
  <2>7. Up' = Up
    BY <1>6 DEF HandleConnack, Up
  <2>8. msgs_out' = RetryMark(c1.inflight) \/ msgs_out' = c1.inflight
    BY <2>5
  <2> QED  BY <1>0, <2>4, <2>5, <2>6, <2>7, <2>8 DEF IInv, ClientWindow
<1>7. CASE HandleConnackRefused
  <2> DEFINE c0 == [Client EXCEPT !.inflight = ReconnectReset(@, TRUE),
                                  !.quota = QuotaAfterReset(msgs_out)]
  <2>1. PICK calls \in CallbackCalls : Become(InCallback(c0, calls))
    BY <1>7 DEF HandleConnackRefused
  <2>2. ClientOK(c0) /\ ClientWindow(c0, FALSE)
    BY <1>0, ResetIsOK, ResetIsWindow
  <2> HIDE DEF c0
  <2>3. ClientRoom(c0, FALSE)
    BY <2>2, WindowRoom DEF ClientOK, ClientWindow, ClientRoom
  <2>4. ClientWindow(InCallback(c0, calls), FALSE)
    BY <2>2, <2>3, InCallbackWindow
  <2>5. Up' = FALSE
    BY <1>7 DEF HandleConnackRefused, CloseLink, Up
  <2> QED  BY <1>0, <2>1, <2>4, <2>5, BecomeWindow
<1>8. CASE Refuse
  BY <1>8, <1>s DEF Refuse, CloseLink, msgVars, Up
\* What AcksMatch gives: the acknowledgment finds a message in flight.
<1>9. ASSUME Incoming({"PUBACK", "PUBREC", "PUBCOMP"})
      PROVE  LET i == FirstAt(msgs_out, Head(toClient).mid)
             IN /\ Known(msgs_out, Head(toClient).mid)
                /\ i \in DOMAIN msgs_out
                /\ ~Held(msgs_out[i])
  <2>1. PICK i \in DOMAIN msgs_out :
          IsFirstAt(msgs_out, Head(toClient).mid, i) /\ ~Held(msgs_out[i])
    BY <1>9 DEF Incoming, AcksMatch
  <2>2. Known(msgs_out, Head(toClient).mid) /\ FirstAt(msgs_out, Head(toClient).mid) = i
    BY <1>0, <2>1, FirstAtUnique DEF ClientTypeOK
  <2> QED  BY <2>1, <2>2
<1>10. CASE HandlePubackcomp
  <2> DEFINE p  == Head(toClient)
             i  == FirstAt(msgs_out, p.mid)
             c0 == [Client EXCEPT !.quota = IncrementQuota(@),
                                  !.inflight = MessageRemove(@, p.mid)]
  <2>1. <<>> \in CallbackCalls
    BY DEF CallbackCalls
  <2>2. PICK calls \in CallbackCalls :
          Become(Released(InCallback(c0, calls), link = "up"))
    BY <1>10, <2>1 DEF HandlePubackcomp
  <2>3. Known(msgs_out, p.mid) /\ i \in DOMAIN msgs_out /\ ~Held(msgs_out[i])
    BY <1>9, <1>10 DEF HandlePubackcomp, Incoming
  <2>4. MessageRemove(msgs_out, p.mid) = RemoveFrom(msgs_out, i)
    BY <2>3 DEF MessageRemove
  <2> HIDE DEF i
  <2>5. /\ RemoveFrom(msgs_out, i) \in Seq(Message)
        /\ IncrementQuota(inflight_quota) \in 0..InflightMaximum
        /\ Room(RemoveFrom(msgs_out, i), IncrementQuota(inflight_quota), Up)
    BY <1>0, <1>w, <2>3, RemoveRoom DEF ClientTypeOK
  <2>6. ClientOK(c0) /\ ClientRoom(c0, Up)
    BY <1>0, <2>4, <2>5 DEF ClientOK, ClientRoom, Client, ClientTypeOK
  <2> HIDE DEF c0
  <2>7. ClientOK(InCallback(c0, calls)) /\ ClientRoom(InCallback(c0, calls), Up)
    BY <1>0, <2>6, InCallbackType, InCallbackWindow DEF Up
  <2>8. ClientWindow(Released(InCallback(c0, calls), link = "up"), Up)
    BY <1>0, <2>7, ReleasedWindow DEF Up
  <2>9. Up' = Up
    BY <1>10 DEF HandlePubackcomp, connVars, Up
  <2> QED  BY <1>0, <2>2, <2>8, <2>9, BecomeWindow
<1>11. CASE HandlePubackcompMismatch
  <2>1. /\ msgs_out' = msgs_out
        /\ inflight_quota' = IncrementQuota(inflight_quota)
        /\ Up' = FALSE
    BY <1>11 DEF HandlePubackcompMismatch, CloseLink, Up
  <2>2. inflight_quota \in Nat /\ InflightMaximum \in Nat
    BY <1>0, InflightMaximumAssumption DEF ClientTypeOK
  <2>3. ASSUME NEW k \in Nat, inflight_quota + k >= InflightMaximum
        PROVE  IncrementQuota(inflight_quota) + k >= InflightMaximum
    BY <2>2, <2>3 DEF IncrementQuota
  <2>4. PICK k \in 0..Len(msgs_out) :
          /\ Split(msgs_out, k)
          /\ k < Len(msgs_out) => k >= InflightMaximum
          /\ inflight_quota + k >= InflightMaximum
    BY <1>w DEF Window
  <2>5. IncrementQuota(inflight_quota) + k >= InflightMaximum
    BY <1>0, <2>3, <2>4
  <2>6. Window(msgs_out, IncrementQuota(inflight_quota), FALSE)
    BY <2>4, <2>5 DEF Window
  <2> QED  BY <1>0, <2>1, <2>6 DEF IInv
<1>12. CASE HandlePubrec
  <2> DEFINE mid == Head(toClient).mid
             i   == FirstAt(msgs_out, mid)
             r   == [msgs_out EXCEPT ![i].state = "wait_for_pubcomp"]
  <2>1. Known(msgs_out, mid) /\ i \in DOMAIN msgs_out /\ ~Held(msgs_out[i])
    BY <1>9, <1>12 DEF HandlePubrec, Incoming
  <2>2. OutUpdate(msgs_out, mid, "wait_for_pubcomp") = r
    BY <2>1 DEF OutUpdate
  <2> HIDE DEF i
  <2>3. Window(r, inflight_quota, Up)
    BY <1>0, <1>w, <2>1, UpdateWindow DEF ClientTypeOK
  <2>4. msgs_out' = r \/ msgs_out' = msgs_out
    BY <1>12, <2>2 DEF HandlePubrec
  <2>5. inflight_quota' = inflight_quota /\ (Up' => Up)
    BY <1>12 DEF HandlePubrec, CloseLink, Up
  <2> HIDE DEF r
  <2>6. Window(msgs_out', inflight_quota, Up)
    BY <1>w, <2>3, <2>4
  <2>7. Window(msgs_out', inflight_quota', Up')
    BY <2>5, <2>6, WindowWeakens
  <2> QED  BY <1>0, <2>7 DEF IInv
<1>13. CASE DetectLoss
  BY <1>13, <1>s DEF DetectLoss, CloseLink, msgVars, Up
<1>14. CASE BreakLink
  BY <1>14, <1>s DEF BreakLink, msgVars, Up
<1>15. CASE Broker
  BY <1>15, <1>s DEF Broker, BrokerConnect, BrokerPublish, BrokerPubrel, BrokerHangUp,
                     connVars, msgVars, Up
<1>16. CASE UNCHANGED vars \/ Quiescent
  BY <1>16, <1>s DEF Quiescent, vars, Up
<1> QED
  BY <1>1, <1>2, <1>4, <1>5, <1>6, <1>7, <1>8, <1>10, <1>11, <1>12, <1>13, <1>14,
     <1>15, <1>16
     DEF Next, Application, HandlePacket

-----------------------------------------------------------------------------
(***************************************************************************)
(* Acknowledgments.                                                        *)
(***************************************************************************)
BrokerPacket == ListPacket \cup [type : {"CONNECT", "DISCONNECT"}]

ClientPacket ==
  [type : {"CONNACK"}, accepted : BOOLEAN]
  \cup [type : {"PUBACK", "PUBREC", "PUBCOMP"}, mid : 1..MaxMid]

Answering(mid) == {p \in ClientPacket : p.type # "CONNACK" /\ p.mid = mid}

Has(s, t) == \E i \in 1..Len(s) : s[i].type = t

\* A packet of this type is the first of s, if there is one.
OnlyFirst(s, t) == \A i \in 1..Len(s) : s[i].type = t => i = 1

\* A CONNECT is the first packet on a connection, and a CONNACK the first back.
Traffic ==
  /\ toBroker \in Seq(BrokerPacket) /\ OnlyFirst(toBroker, "CONNECT")
  /\ toClient \in Seq(ClientPacket) /\ OnlyFirst(toClient, "CONNACK")
  /\ Up /\ Has(toBroker, "CONNECT") => toClient = <<>>

\* From the reconnection to the CONNACK.
Fresh == (Up /\ Has(toBroker, "CONNECT")) \/ Has(toClient, "CONNACK")

\* The answers on their way and those that packets on their way will get.
Owed(b, c, up, mid) ==
  (IF up THEN Count(b, Asking(mid)) ELSE 0) + Count(c, Answering(mid))

\* No more of them than messages that await one with the id.  A count is
\* needed, as ids wrap: two messages in flight may have the same.
Balanced ==
  \A mid \in 1..MaxMid :
    Owed(toBroker, toClient, Up, mid) <= Cardinality(Awaited(msgs_out, mid, Fresh))

AInv == IInv /\ Traffic /\ Balanced

\* Between c and d a handler sends no more than messages begin to await; what
\* it sends counts on a working connection.
Pays(c, d, fresh, up) ==
  /\ d.sent \in Seq(ListPacket)
  /\ \A mid \in 1..MaxMid :
       /\ Cardinality(Awaited(c.inflight, mid, fresh))
            <= Cardinality(Awaited(d.inflight, mid, fresh))
       /\ up => Count(d.sent, Asking(mid)) + Cardinality(Awaited(c.inflight, mid, fresh))
                  <= Count(c.sent, Asking(mid)) + Cardinality(Awaited(d.inflight, mid, fresh))

-----------------------------------------------------------------------------
LEMMA PaysNothing ==
  ASSUME NEW c, ClientOK(c), c.sent \in Seq(ListPacket), NEW fresh, NEW up
  PROVE  Pays(c, c, fresh, up)
<1>1. \A mid : /\ Count(c.sent, Asking(mid)) \in Nat
               /\ Cardinality(Awaited(c.inflight, mid, fresh)) \in Nat
  BY CountType, AwaitedType DEF ClientOK
<1> QED  BY <1>1 DEF Pays

LEMMA PaysTwice ==
  ASSUME NEW c, NEW d, NEW e, NEW fresh, NEW up, ClientOK(c), ClientOK(d), ClientOK(e),
         c.sent \in Seq(ListPacket), Pays(c, d, fresh, up), Pays(d, e, fresh, up)
  PROVE  Pays(c, e, fresh, up)
<1>1. d.sent \in Seq(ListPacket) /\ e.sent \in Seq(ListPacket)
  BY DEF Pays
<1>2. ASSUME NEW mid \in 1..MaxMid
      PROVE  /\ Cardinality(Awaited(c.inflight, mid, fresh))
                  <= Cardinality(Awaited(e.inflight, mid, fresh))
             /\ up => Count(e.sent, Asking(mid)) + Cardinality(Awaited(c.inflight, mid, fresh))
                        <= Count(c.sent, Asking(mid)) + Cardinality(Awaited(e.inflight, mid, fresh))
  <2>1. /\ Count(c.sent, Asking(mid)) \in Nat /\ Count(d.sent, Asking(mid)) \in Nat
        /\ Count(e.sent, Asking(mid)) \in Nat
    BY <1>1, CountType
  <2>2. /\ Cardinality(Awaited(c.inflight, mid, fresh)) \in Nat
        /\ Cardinality(Awaited(d.inflight, mid, fresh)) \in Nat
        /\ Cardinality(Awaited(e.inflight, mid, fresh)) \in Nat
    BY AwaitedType DEF ClientOK
  <2>3. /\ Cardinality(Awaited(c.inflight, mid, fresh))
             <= Cardinality(Awaited(d.inflight, mid, fresh))
        /\ Cardinality(Awaited(d.inflight, mid, fresh))
             <= Cardinality(Awaited(e.inflight, mid, fresh))
    BY DEF Pays
  <2>4. ASSUME up
        PROVE  /\ Count(d.sent, Asking(mid)) + Cardinality(Awaited(c.inflight, mid, fresh))
                    <= Count(c.sent, Asking(mid)) + Cardinality(Awaited(d.inflight, mid, fresh))
               /\ Count(e.sent, Asking(mid)) + Cardinality(Awaited(d.inflight, mid, fresh))
                    <= Count(d.sent, Asking(mid)) + Cardinality(Awaited(e.inflight, mid, fresh))
    BY <2>4 DEF Pays
  <2> QED  BY <2>1, <2>2, <2>3, <2>4
<1> QED  BY <1>1, <1>2 DEF Pays

\* What a handler does when it sends packets and moves messages on.
LEMMA PaysBySending ==
  ASSUME NEW c, NEW d, NEW sent \in Seq(ListPacket), NEW fresh, NEW up,
         ClientOK(c), ClientOK(d), c.sent \in Seq(ListPacket), d.sent = c.sent \o sent,
         \A mid : Sending(sent, c.inflight, d.inflight, mid, fresh, up)
  PROVE  Pays(c, d, fresh, up)
<1>1. d.sent \in Seq(ListPacket)
  OBVIOUS
<1>2. ASSUME NEW mid \in 1..MaxMid
      PROVE  /\ Cardinality(Awaited(c.inflight, mid, fresh))
                  <= Cardinality(Awaited(d.inflight, mid, fresh))
             /\ up => Count(d.sent, Asking(mid)) + Cardinality(Awaited(c.inflight, mid, fresh))
                        <= Count(c.sent, Asking(mid)) + Cardinality(Awaited(d.inflight, mid, fresh))
  <2>1. /\ Count(c.sent, Asking(mid)) \in Nat /\ Count(d.sent, Asking(mid)) \in Nat
        /\ Count(sent, Asking(mid)) \in Nat
    BY <1>1, CountType
  <2>2. /\ Cardinality(Awaited(c.inflight, mid, fresh)) \in Nat
        /\ Cardinality(Awaited(d.inflight, mid, fresh)) \in Nat
    BY AwaitedType DEF ClientOK
  <2>3. Count(d.sent, Asking(mid)) <= Count(c.sent, Asking(mid)) + Count(sent, Asking(mid))
    BY CountConcat
  <2>4. /\ Cardinality(Awaited(c.inflight, mid, fresh))
             <= Cardinality(Awaited(d.inflight, mid, fresh))
        /\ up => Count(sent, Asking(mid)) + Cardinality(Awaited(c.inflight, mid, fresh))
                   <= Cardinality(Awaited(d.inflight, mid, fresh))
    BY DEF Sending
  <2> QED  BY <2>1, <2>2, <2>3, <2>4
<1> QED  BY <1>1, <1>2 DEF Pays

\* On a working connection the quota completes the messages in flight.
LEMMA RoomIsExact ==
  ASSUME NEW c, NEW up, ClientRoom(c, up), up
  PROVE  \E k \in 0..Len(c.inflight) : Split(c.inflight, k) /\ c.quota + k = InflightMaximum
BY DEF ClientRoom, Room

LEMMA WindowExact ==
  ASSUME NEW q \in Seq(Message), NEW quota \in 0..InflightMaximum, NEW up,
         Window(q, quota, up), up
  PROVE  \A i \in 1..Len(q) : i > InflightMaximum => Held(q[i])
<1>1. PICK k \in 0..Len(q) : Split(q, k) /\ quota + k = InflightMaximum
  BY DEF Window
<1>2. k <= InflightMaximum /\ k \in Nat /\ InflightMaximum \in Nat
  BY <1>1, InflightMaximumAssumption
<1> QED  BY <1>1, <1>2 DEF Split

LEMMA PublishCallPays ==
  ASSUME NEW c, ClientOK(c), c.sent \in Seq(ListPacket), NEW qos \in QosLevels,
         NEW ok \in BOOLEAN, NEW fresh \in BOOLEAN, NEW up \in BOOLEAN, up => ok,
         ClientRoom(c, up)
  PROVE  Pays(c, PublishCall(c, qos, ok), fresh, up)
<1> DEFINE mid == NextMid(c.mid)
           m   == NewMessage(Len(c.submitted) + 1, mid, qos)
           p   == PublishCall(c, qos, ok)
<1>1. ClientOK(p)
  BY PublishCallType
<1>2. mid \in 1..MaxMid /\ Len(c.submitted) + 1 \in Nat
  BY NextMidType DEF ClientOK
<1>3. c.inflight \in Seq(Message) /\ c.quota \in 0..InflightMaximum
  BY DEF ClientOK
<1>4. CASE qos = 0
  <2> DEFINE sent == IF ok THEN <<PublishPacket(m)>> ELSE <<>>
  <2>1. p.inflight = c.inflight /\ p.sent = c.sent \o sent
    BY <1>4 DEF PublishCall
  <2>2. PublishPacket(m) \in ListPacket /\ PublishPacket(m).type = "PUBLISH"
        /\ PublishPacket(m).qos = 0
    BY <1>2, <1>4 DEF PublishPacket, NewMessage, ListPacket
  <2>3. \A i : PublishPacket(m) \notin Asking(i)
    BY <2>2 DEF Asking
  <2>4. sent \in Seq(ListPacket)
    BY <2>2
  <2>5. \A i : Count(sent, Asking(i)) = 0
    BY <2>3, CountSingle, CountEmpty
  <2>6. \A i : Cardinality(Awaited(c.inflight, i, fresh)) \in Nat
    BY <1>3, AwaitedType
  <2> HIDE DEF sent, p, m
  <2>7. \A i : Sending(sent, c.inflight, p.inflight, i, fresh, up)
    BY <2>1, <2>5, <2>6 DEF Sending
  <2>8. Pays(c, p, fresh, up)
    BY <1>1, <2>1, <2>4, <2>7, PaysBySending
  <2> QED  BY <2>8 DEF p
<1>5. CASE qos # 0
  <2> DEFINE r == MessageQueue(c.inflight, c.quota, m, ok)
  <2>1. p.inflight = r.inflight /\ p.sent = c.sent \o r.sent
    BY <1>5 DEF PublishCall
  <2>2. qos \in {1, 2}
    BY <1>5, QosLevelsAssumption
  <2>3. m \in Message /\ Held(m)
    <3> HIDE DEF mid
    <3> QED  BY <1>2, <2>2, NewMessageType
  <2>4. up => ok /\ \E k \in 0..Len(c.inflight) :
                      Split(c.inflight, k) /\ c.quota + k = InflightMaximum
    BY RoomIsExact
  <2> HIDE DEF m, p
  <2>5. /\ r.sent \in Seq(ListPacket)
        /\ \A i : Sending(r.sent, c.inflight, r.inflight, i, fresh, up)
    BY <1>3, <2>3, <2>4, QueueSends
  <2> HIDE DEF r
  <2>6. Pays(c, p, fresh, up)
    BY <1>1, <2>1, <2>5, PaysBySending
  <2> QED  BY <2>6 DEF p
<1> QED  BY <1>4, <1>5

LEMMA InCallbackPays ==
  ASSUME NEW c, ClientOK(c), c.sent \in Seq(ListPacket), NEW calls \in CallbackCalls,
         NEW fresh \in BOOLEAN, NEW up \in BOOLEAN, up => link # "none", ClientRoom(c, up)
  PROVE  Pays(c, InCallback(c, calls), fresh, up)
<1>1. CASE calls = <<>>
  BY <1>1, PaysNothing DEF InCallback
<1>2. CASE calls # <<>>
  <2>1. Head(calls) \in QosLevels /\ (link # "none") \in BOOLEAN
    BY <1>2, CallbackCallsType
  <2>2. Pays(c, PublishCall(c, Head(calls), link # "none"), fresh, up)
    BY <2>1, PublishCallPays
  <2> QED  BY <1>2, <2>2 DEF InCallback
<1> QED  BY <1>1, <1>2

LEMMA ReleasedPays ==
  ASSUME NEW c, ClientOK(c), c.sent \in Seq(ListPacket), NEW ok \in BOOLEAN,
         NEW fresh \in BOOLEAN, NEW up \in BOOLEAN, up => ok, ClientRoom(c, up)
  PROVE  Pays(c, Released(c, ok), fresh, up)
<1> DEFINE r == ReleaseToInflight(c.inflight, c.quota, ok)
           d == Released(c, ok)
<1>1. c.inflight \in Seq(Message) /\ c.quota \in 0..InflightMaximum
  BY DEF ClientOK
<1>2. /\ r.sent \in Seq(ListPacket)
      /\ \A mid : Sending(r.sent, c.inflight, r.inflight, mid, fresh, up)
  BY <1>1, RoomIsExact, ReleaseSends
<1>3. d.inflight = r.inflight /\ d.sent = c.sent \o r.sent
  BY DEF Released
<1>4. ClientOK(d)
  BY ReleasedType
<1> HIDE DEF r, d
<1>5. Pays(c, d, fresh, up)
  BY <1>2, <1>3, <1>4, PaysBySending
<1> QED  BY <1>5 DEF d

-----------------------------------------------------------------------------
\* Packets to the broker, with a CONNECT only in front.
Ordered(b) == b \in Seq(BrokerPacket) /\ OnlyFirst(b, "CONNECT")

LEMMA ConcatOrdered ==
  ASSUME NEW b, Ordered(b), NEW sent \in Seq(ListPacket)
  PROVE  /\ Ordered(b \o sent)
         /\ Has(b \o sent, "CONNECT") <=> Has(b, "CONNECT")
<1>1. b \in Seq(BrokerPacket) /\ sent \in Seq(BrokerPacket)
  BY DEF Ordered, BrokerPacket
<1>2. \A i \in 1..Len(sent) : sent[i].type # "CONNECT"
  <2>1. \A i \in 1..Len(sent) : sent[i] \in ListPacket
    OBVIOUS
  <2> QED  BY <2>1 DEF ListPacket
<1>3. /\ b \o sent \in Seq(BrokerPacket) /\ Len(b \o sent) = Len(b) + Len(sent)
      /\ Len(b) \in Nat /\ Len(sent) \in Nat
      /\ \A i \in 1..Len(b) : (b \o sent)[i] = b[i]
      /\ \A i \in 1..(Len(b) + Len(sent)) : i > Len(b) => (b \o sent)[i] = sent[i - Len(b)]
  BY <1>1
<1>4. ASSUME NEW i \in 1..Len(b \o sent), (b \o sent)[i].type = "CONNECT"
      PROVE  i \in 1..Len(b) /\ b[i].type = "CONNECT"
  <2>1. CASE i > Len(b)
    <3>1. i - Len(b) \in 1..Len(sent) /\ (b \o sent)[i] = sent[i - Len(b)]
      BY <1>3, <2>1
    <3> QED  BY <1>2, <1>4, <3>1
  <2>2. CASE ~(i > Len(b))
    BY <1>3, <1>4, <2>2
  <2> QED  BY <2>1, <2>2
<1>5. \A i \in 1..Len(b) : i \in 1..Len(b \o sent)
  BY <1>3
<1> QED  BY <1>3, <1>4, <1>5 DEF Ordered, OnlyFirst, Has

LEMMA AppendOrdered ==
  ASSUME NEW b, Ordered(b), NEW p \in BrokerPacket, p.type # "CONNECT"
  PROVE  Ordered(Append(b, p)) /\ (Has(Append(b, p), "CONNECT") <=> Has(b, "CONNECT"))
<1>1. b \in Seq(BrokerPacket)
  BY DEF Ordered
<1>2. /\ Append(b, p) \in Seq(BrokerPacket) /\ Len(Append(b, p)) = Len(b) + 1
      /\ Len(b) \in Nat /\ Append(b, p)[Len(b) + 1] = p
      /\ \A i \in 1..Len(b) : Append(b, p)[i] = b[i]
  BY <1>1
<1>3. /\ \A i \in 1..Len(Append(b, p)) : i \in 1..Len(b) \/ i = Len(b) + 1
      /\ \A i \in 1..Len(b) : i \in 1..Len(Append(b, p))
  BY <1>2
<1> QED  BY <1>2, <1>3 DEF Ordered, OnlyFirst, Has

LEMMA TailOrdered ==
  ASSUME NEW b, Ordered(b), b # <<>>
  PROVE  /\ Ordered(Tail(b)) /\ ~Has(Tail(b), "CONNECT")
         /\ Has(b, "CONNECT") <=> Head(b).type = "CONNECT"
         /\ Head(b) \in BrokerPacket
<1>1. b \in Seq(BrokerPacket)
  BY DEF Ordered
<1>2. /\ Tail(b) \in Seq(BrokerPacket) /\ Len(Tail(b)) = Len(b) - 1 /\ Len(b) \in Nat
      /\ Len(b) >= 1 /\ Head(b) = b[1] /\ b[1] \in BrokerPacket
      /\ \A i \in 1..(Len(b) - 1) : Tail(b)[i] = b[i + 1]
  BY <1>1
<1>3. /\ \A i \in 1..Len(Tail(b)) : Tail(b)[i] = b[i + 1] /\ i + 1 \in 1..Len(b) /\ i + 1 # 1
      /\ 1 \in 1..Len(b)
  BY <1>2
<1>4. \A i \in 1..Len(Tail(b)) : Tail(b)[i].type # "CONNECT"
  BY <1>3 DEF Ordered, OnlyFirst
<1> QED  BY <1>2, <1>3, <1>4 DEF Ordered, OnlyFirst, Has

\* Packets to the client.
Answered(c) == c \in Seq(ClientPacket) /\ OnlyFirst(c, "CONNACK")

LEMMA AppendAnswered ==
  ASSUME NEW c, Answered(c), NEW p \in ClientPacket, p.type = "CONNACK" => c = <<>>
  PROVE  /\ Answered(Append(c, p))
         /\ Has(Append(c, p), "CONNACK") <=> Has(c, "CONNACK") \/ p.type = "CONNACK"
<1>1. c \in Seq(ClientPacket)
  BY DEF Answered
<1>2. /\ Append(c, p) \in Seq(ClientPacket) /\ Len(Append(c, p)) = Len(c) + 1
      /\ Len(c) \in Nat /\ Append(c, p)[Len(c) + 1] = p
      /\ \A i \in 1..Len(c) : Append(c, p)[i] = c[i]
      /\ c = <<>> => Len(c) + 1 = 1
  BY <1>1
<1>3. /\ \A i \in 1..Len(Append(c, p)) : i \in 1..Len(c) \/ i = Len(c) + 1
      /\ \A i \in 1..Len(c) : i \in 1..Len(Append(c, p))
      /\ Len(c) + 1 \in 1..Len(Append(c, p))
  BY <1>2
<1> QED  BY <1>2, <1>3 DEF Answered, OnlyFirst, Has

LEMMA TailAnswered ==
  ASSUME NEW c, Answered(c), c # <<>>
  PROVE  /\ Answered(Tail(c)) /\ ~Has(Tail(c), "CONNACK")
         /\ Has(c, "CONNACK") <=> Head(c).type = "CONNACK"
         /\ Head(c) \in ClientPacket
<1>1. c \in Seq(ClientPacket)
  BY DEF Answered
<1>2. /\ Tail(c) \in Seq(ClientPacket) /\ Len(Tail(c)) = Len(c) - 1 /\ Len(c) \in Nat
      /\ Len(c) >= 1 /\ Head(c) = c[1] /\ c[1] \in ClientPacket
      /\ \A i \in 1..(Len(c) - 1) : Tail(c)[i] = c[i + 1]
  BY <1>1
<1>3. /\ \A i \in 1..Len(Tail(c)) : Tail(c)[i] = c[i + 1] /\ i + 1 \in 1..Len(c) /\ i + 1 # 1
      /\ 1 \in 1..Len(c)
  BY <1>2
<1>4. \A i \in 1..Len(Tail(c)) : Tail(c)[i].type # "CONNACK"
  BY <1>3 DEF Answered, OnlyFirst
<1> QED  BY <1>2, <1>3, <1>4 DEF Answered, OnlyFirst, Has

LEMMA Nothing == Answered(<<>>) /\ ~Has(<<>>, "CONNACK")
BY DEF Answered, OnlyFirst, Has

LEMMA ConnectOrdered ==
  /\ Ordered(<<ConnectPacket>>) /\ Has(<<ConnectPacket>>, "CONNECT")
  /\ \A mid : Count(<<ConnectPacket>>, Asking(mid)) = 0
<1>1. ConnectPacket \in BrokerPacket /\ ConnectPacket.type = "CONNECT"
  BY DEF ConnectPacket, BrokerPacket
<1>2. ConnectPacket \notin ListPacket
  BY DEF ConnectPacket, ListPacket
<1>3. \A mid : ConnectPacket \notin Asking(mid)
  BY <1>2 DEF Asking
<1>4. <<ConnectPacket>> \in Seq(BrokerPacket) /\ Len(<<ConnectPacket>>) = 1 /\ 1..1 = {1}
      /\ <<ConnectPacket>>[1] = ConnectPacket
  BY <1>1
<1>5. \A mid : Count(<<ConnectPacket>>, Asking(mid)) = 0
  BY <1>3, CountSingle
<1> QED  BY <1>1, <1>4, <1>5 DEF Ordered, OnlyFirst, Has

LEMMA OwedType ==
  ASSUME NEW b, Ordered(b), NEW c, Answered(c), NEW up \in BOOLEAN, NEW mid
  PROVE  /\ Owed(b, c, up, mid) \in Nat
         /\ Count(b, Asking(mid)) \in Nat /\ Count(c, Answering(mid)) \in Nat
<1>1. Count(b, Asking(mid)) \in Nat /\ Count(c, Answering(mid)) \in Nat
  BY CountType DEF Ordered, Answered
<1> QED  BY <1>1 DEF Owed

LEMMA TrafficIs ==
  Traffic <=> /\ Ordered(toBroker) /\ Answered(toClient)
              /\ Up /\ Has(toBroker, "CONNECT") => toClient = <<>>
BY DEF Traffic, Ordered, Answered

-----------------------------------------------------------------------------
\* After an acknowledgment the connection is not fresh any more.
LEMMA NotFresh ==
  ASSUME Traffic, toClient # <<>>, Head(toClient).type # "CONNACK"
  PROVE  ~Fresh /\ ~(Up /\ Has(toBroker, "CONNECT")) /\ ~Has(toClient, "CONNACK")
<1>1. Answered(toClient) /\ (Up /\ Has(toBroker, "CONNECT") => toClient = <<>>)
  BY TrafficIs
<1>2. Has(toClient, "CONNACK") <=> Head(toClient).type = "CONNACK"
  BY <1>1, TailAnswered
<1> QED  BY <1>1, <1>2 DEF Fresh

\* AcksMatch from the count: an answer is on its way, so a message awaits it,
\* and as held messages are last, the first one with the id is in flight.
LEMMA AckedFirst ==
  ASSUME AInv, toClient # <<>>, Head(toClient).type \in {"PUBACK", "PUBREC", "PUBCOMP"}
  PROVE  LET i == FirstAt(msgs_out, Head(toClient).mid)
         IN /\ Known(msgs_out, Head(toClient).mid) /\ i \in 1..Len(msgs_out)
            /\ IsFirstAt(msgs_out, Head(toClient).mid, i)
            /\ ~Held(msgs_out[i]) /\ i <= InflightMaximum
<1> DEFINE p   == Head(toClient)
           mid == p.mid
<1>1. /\ Traffic /\ Balanced /\ Ordered(toBroker) /\ Answered(toClient)
      /\ msgs_out \in Seq(Message) /\ Window(msgs_out, inflight_quota, Up)
  BY TrafficIs DEF AInv, IInv, ClientTypeOK
<1>2. p \in ClientPacket /\ p.type # "CONNACK"
  BY <1>1, TailAnswered
<1>3. mid \in 1..MaxMid /\ p \in Answering(mid)
  BY <1>2 DEF ClientPacket, Answering
<1>4. ~Fresh
  BY <1>1, <1>2, NotFresh
<1> HIDE DEF mid, p
<1>5. Count(Tail(toClient), Answering(mid)) + 1 <= Count(toClient, Answering(mid))
  BY <1>1, <1>3, CountTail DEF Answered, p
<1>6. /\ Count(Tail(toClient), Answering(mid)) \in Nat
      /\ Count(toClient, Answering(mid)) \in Nat /\ Count(toBroker, Asking(mid)) \in Nat
  <2>1. Answered(Tail(toClient))
    BY <1>1, TailAnswered
  <2> QED  BY <1>1, <2>1, OwedType DEF Up
<1>7. Owed(toBroker, toClient, Up, mid) >= 1
  BY <1>5, <1>6 DEF Owed
<1>8. Owed(toBroker, toClient, Up, mid) <= Cardinality(Awaited(msgs_out, mid, FALSE))
  <2>1. Owed(toBroker, toClient, Up, mid) <= Cardinality(Awaited(msgs_out, mid, Fresh))
    BY <1>1, <1>3 DEF Balanced
  <2>2. Fresh = FALSE
    BY <1>4 DEF Fresh
  <2> QED  BY <2>1, <2>2
<1>9. Awaited(msgs_out, mid, FALSE) # {}
  <2>1. Owed(toBroker, toClient, Up, mid) \in Nat
    BY <1>6 DEF Owed
  <2>2. Cardinality(Awaited(msgs_out, mid, FALSE)) \in Nat
    BY <1>1, AwaitedType
  <2>3. ASSUME NEW a \in Nat, NEW b \in Nat, a >= 1, a <= b
        PROVE  b # 0
    BY ONLY <2>3
  <2>4. Cardinality(Awaited(msgs_out, mid, FALSE)) # 0
    BY ONLY <1>7, <1>8, <2>1, <2>2, <2>3
  <2> QED  BY <2>4, FS_EmptySet
<1>10. PICK i \in 1..Len(msgs_out) :
         msgs_out[i].mid = mid /\ ~Held(msgs_out[i]) /\ i <= InflightMaximum
  BY <1>9 DEF Awaited
<1> DEFINE f == FirstAt(msgs_out, mid)
<1>11. i \in At(msgs_out, mid) /\ Known(msgs_out, mid)
  BY <1>1, <1>10 DEF At, Known
<1>12. IsFirstAt(msgs_out, mid, f) /\ f \in 1..Len(msgs_out)
  BY <1>1, <1>11, FirstAtIs
<1>13. f <= i
  BY <1>11, <1>12 DEF IsFirstAt
<1> HIDE DEF f
<1>14. PICK k \in 0..Len(msgs_out) : Split(msgs_out, k)
  BY <1>1 DEF Window
<1>15. ~Held(msgs_out[f])
  BY <1>1, <1>10, <1>12, <1>13, <1>14 DEF Split
<1>16. f <= InflightMaximum
  BY <1>10, <1>12, <1>13, InflightMaximumAssumption
<1> QED  BY <1>11, <1>12, <1>15, <1>16 DEF p, mid, f

LEMMA AcksFound ==
  ASSUME AInv
  PROVE  AcksMatch
<1>1. msgs_out \in Seq(Message)
  BY DEF AInv, IInv, ClientTypeOK
<1>2. DOMAIN msgs_out = 1..Len(msgs_out)
  BY <1>1
<1> QED  BY <1>2, AckedFirst DEF AcksMatch

-----------------------------------------------------------------------------
\* Steps after which nothing is on its way to the client, nor to the broker
\* but a CONNECT.
LEMMA Settled ==
  ASSUME toClient' = <<>>, Ordered(toBroker'), ClientTypeOK',
         ~Up' \/ toBroker' = <<ConnectPacket>>
  PROVE  Traffic' /\ Balanced'
<1>1. Answered(toClient')
  BY Nothing
<1>2. Traffic'
  BY <1>1 DEF Traffic, Ordered, Answered
<1>3. ASSUME NEW mid \in 1..MaxMid
      PROVE  Owed(toBroker', toClient', Up', mid) <= Cardinality(Awaited(msgs_out', mid, Fresh'))
  <2>1. Count(toClient', Answering(mid)) = 0
    BY CountEmpty
  <2>2. Up' => Count(toBroker', Asking(mid)) = 0
    BY ConnectOrdered
  <2>3. Owed(toBroker', toClient', Up', mid) = 0
    BY <2>1, <2>2 DEF Owed
  <2>4. msgs_out' \in Seq(Message)
    BY DEF ClientTypeOK
  <2>5. Cardinality(Awaited(msgs_out', mid, Fresh')) \in Nat
    BY ONLY <2>4, AwaitedType
  <2> QED  BY <2>3, <2>5
<1> QED  BY <1>2, <1>3 DEF Balanced

\* What is left to show of a handler that sends packets, after it read one or not.
LEMMA SendingBalanced ==
  ASSUME Traffic, ClientTypeOK', NEW sent \in Seq(ListPacket),
         toBroker' = IF Up THEN toBroker \o sent ELSE toBroker, Up' = Up,
         toClient' = toClient \/ (toClient # <<>> /\ toClient' = Tail(toClient)),
         NEW fresh, Fresh' = fresh,
         \A mid \in 1..MaxMid :
           /\ Owed(toBroker, toClient', Up, mid) <= Cardinality(Awaited(msgs_out', mid, fresh))
           /\ Up => Owed(toBroker, toClient', Up, mid) + Count(sent, Asking(mid))
                      <= Cardinality(Awaited(msgs_out', mid, fresh))
  PROVE  Traffic' /\ Balanced'
<1>1. /\ Ordered(toBroker) /\ Answered(toClient)
      /\ Up /\ Has(toBroker, "CONNECT") => toClient = <<>>
  BY TrafficIs
<1>2. Ordered(toBroker') /\ (Has(toBroker', "CONNECT") <=> Has(toBroker, "CONNECT"))
  <2>1. Ordered(toBroker \o sent) /\ (Has(toBroker \o sent, "CONNECT") <=> Has(toBroker, "CONNECT"))
    BY <1>1, ConcatOrdered
  <2> QED  BY <1>1, <2>1
<1>3. Answered(toClient')
  BY <1>1, TailAnswered
<1>4. Up' /\ Has(toBroker', "CONNECT") => toClient' = <<>>
  BY <1>1, <1>2
<1>5. Traffic'
  BY <1>2, <1>3, <1>4 DEF Traffic, Ordered, Answered
<1>6. ASSUME NEW mid \in 1..MaxMid
      PROVE  Owed(toBroker', toClient', Up', mid) <= Cardinality(Awaited(msgs_out', mid, Fresh'))
  <2> DEFINE a  == Cardinality(Awaited(msgs_out', mid, fresh))
             b  == Count(toBroker, Asking(mid))
             b2 == Count(toBroker', Asking(mid))
             c  == Count(toClient', Answering(mid))
             s  == Count(sent, Asking(mid))
  <2>1. msgs_out' \in Seq(Message)
    BY DEF ClientTypeOK
  <2>2. a \in Nat
    BY ONLY <2>1, AwaitedType
  <2>3. b \in Nat /\ b2 \in Nat /\ c \in Nat /\ s \in Nat
    BY <1>1, <1>2, <1>3, CountType DEF Ordered, Answered
  <2>4. Up => b2 <= b + s
    <3>1. sent \in Seq(BrokerPacket) /\ toBroker \in Seq(BrokerPacket)
      BY <1>1 DEF BrokerPacket, Ordered
    <3>2. Count(toBroker \o sent, Asking(mid)) <= b + s
      BY ONLY <3>1, CountConcat
    <3> QED  BY <3>2
  <2>5. CASE Up
    <3>1. Owed(toBroker', toClient', Up', mid) = b2 + c /\ Owed(toBroker, toClient', Up, mid) = b + c
      BY <2>5 DEF Owed
    <3>2. b + c + s <= a
      BY <2>5, <3>1
    <3> HIDE DEF a, b, b2, c, s
    <3>3. b2 + c <= a
      BY <2>2, <2>3, <2>4, <2>5, <3>2
    <3> QED  BY <3>1, <3>3 DEF a
  <2>6. CASE ~Up
    <3>1. Owed(toBroker', toClient', Up', mid) = Owed(toBroker, toClient', Up, mid)
      BY <2>6 DEF Owed
    <3> QED  BY <3>1
  <2> QED  BY <2>5, <2>6
<1> QED  BY <1>5, <1>6 DEF Balanced

\* The client of a handler before it has sent anything.
LEMMA ClientSends == Client.sent = <<>> /\ Client.sent \in Seq(ListPacket)
BY DEF Client

LEMMA PublishBalanced ==
  ASSUME AInv, ClientTypeOK', NEW qos \in QosLevels, Publish(qos)
  PROVE  Traffic' /\ Balanced'
<1> DEFINE c == PublishCall(Client, qos, link = "up")
<1>1. ClientOK(Client) /\ Traffic /\ Balanced /\ Window(msgs_out, inflight_quota, Up)
      /\ ClientTypeOK /\ Ordered(toBroker) /\ Answered(toClient)
  BY ClientIsOK, TrafficIs DEF AInv, IInv
<1>2. ClientRoom(Client, Up)
  BY <1>1, WindowRoom DEF ClientRoom, Client, ClientTypeOK
<1>3. Pays(Client, c, Fresh, Up)
  <2>1. (link = "up") \in BOOLEAN /\ Fresh \in BOOLEAN /\ Up \in BOOLEAN /\ (Up => link = "up")
    BY DEF Fresh, Up
  <2> QED  BY <1>1, <1>2, <2>1, ClientSends, PublishCallPays
<1>4. Become(c) /\ Up' = Up /\ toClient' = toClient
  BY DEF Publish, connVars, Up
<1> HIDE DEF c
<1>6. c.sent \in Seq(ListPacket) /\ msgs_out' = c.inflight
      /\ toBroker' = IF Up THEN toBroker \o c.sent ELSE toBroker
  BY <1>3, <1>4 DEF Pays, Become, Up
<1>8. Fresh' = Fresh
  BY <1>1, <1>4, <1>6, ConcatOrdered DEF Fresh
<1>9. ASSUME NEW mid \in 1..MaxMid
      PROVE  LET a2 == Cardinality(Awaited(msgs_out', mid, Fresh))
             IN /\ Owed(toBroker, toClient', Up, mid) <= a2
                /\ Up => Owed(toBroker, toClient', Up, mid) + Count(c.sent, Asking(mid)) <= a2
  <2> DEFINE owed == Owed(toBroker, toClient', Up, mid)
             a    == Cardinality(Awaited(msgs_out, mid, Fresh))
             a2   == Cardinality(Awaited(msgs_out', mid, Fresh))
             s    == Count(c.sent, Asking(mid))
  <2>1. owed <= a /\ owed \in Nat
    BY <1>1, <1>4, OwedType DEF Balanced, Up
  <2>2. a <= a2 /\ (Up => s + a <= 0 + a2)
    <3>1. Client.inflight = msgs_out /\ Count(Client.sent, Asking(mid)) = 0
      BY ClientSends, CountEmpty DEF Client
    <3> QED  BY <1>3, <1>6, <3>1 DEF Pays
  <2>3. msgs_out' \in Seq(Message)
    BY DEF ClientTypeOK
  <2>4. a \in Nat /\ a2 \in Nat /\ s \in Nat
    BY <1>1, <1>6, <2>3, AwaitedType, CountType DEF ClientTypeOK
  <2> HIDE DEF owed, a, a2, s
  <2>5. owed <= a2 /\ (Up => owed + s <= a2)
    BY <2>1, <2>2, <2>4
  <2> QED  BY <2>5 DEF owed, a2, s
<1> QED  BY <1>1, <1>4, <1>6, <1>8, <1>9, SendingBalanced

\* What an acknowledgment that was read answers is not owed any more.
LEMMA OwedAfterTail ==
  ASSUME Traffic, toClient # <<>>, toClient' = Tail(toClient), NEW mid
  PROVE  /\ Owed(toBroker, toClient', Up, mid) \in Nat
         /\ Owed(toBroker, toClient, Up, mid) \in Nat
         /\ Owed(toBroker, toClient', Up, mid) <= Owed(toBroker, toClient, Up, mid)
         /\ Head(toClient) \in Answering(mid) =>
              Owed(toBroker, toClient', Up, mid) + 1 <= Owed(toBroker, toClient, Up, mid)
<1>1. Ordered(toBroker) /\ Answered(toClient) /\ Up \in BOOLEAN
  BY TrafficIs DEF Up
<1>2. Answered(toClient')
  BY <1>1, TailAnswered
<1>3. /\ Count(Tail(toClient), Answering(mid)) <= Count(toClient, Answering(mid))
      /\ Head(toClient) \in Answering(mid) =>
           Count(Tail(toClient), Answering(mid)) + 1 <= Count(toClient, Answering(mid))
  BY <1>1, CountTail DEF Answered
<1>4. /\ Count(toBroker, Asking(mid)) \in Nat /\ Count(toClient, Answering(mid)) \in Nat
      /\ Count(toClient', Answering(mid)) \in Nat
  BY <1>1, <1>2, CountType DEF Ordered, Answered
<1> QED  BY <1>3, <1>4 DEF Owed

\* The fields of the client in a handler.
FieldsOf(c) == [inflight |-> c.inflight, quota |-> c.quota, mid |-> c.mid,
                submitted |-> c.submitted, sent |-> c.sent]

LEMMA InCallbackFields ==
  ASSUME NEW c, c = FieldsOf(c), NEW calls
  PROVE  InCallback(c, calls) = FieldsOf(InCallback(c, calls))
<1>1. CASE calls = <<>>
  BY <1>1 DEF InCallback
<1>2. CASE calls # <<>>
  BY <1>2 DEF InCallback, PublishCall, FieldsOf
<1> QED  BY <1>1, <1>2

LEMMA ClientWith ==
  ASSUME NEW q, NEW n
  PROVE  [Client EXCEPT !.inflight = q, !.quota = n]
           = [inflight |-> q, quota |-> n, mid |-> last_mid, submitted |-> submitted,
              sent |-> <<>>]
<1> DEFINE c == [Client EXCEPT !.inflight = q]
<1>1. c = [inflight |-> q, quota |-> inflight_quota, mid |-> last_mid,
           submitted |-> submitted, sent |-> <<>>]
  BY DEF Client
<1> HIDE DEF c
<1>2. [c EXCEPT !.quota = n]
        = [inflight |-> q, quota |-> n, mid |-> last_mid, submitted |-> submitted,
           sent |-> <<>>]
  BY <1>1
<1> QED  BY <1>2 DEF c

\* An accepted CONNACK: the retry sends what no packet of this connection has
\* sent yet.
LEMMA ConnackBalanced ==
  ASSUME AInv, HandleConnack, ClientTypeOK'
  PROVE  Traffic' /\ Balanced'
<1> DEFINE c0 == [Client EXCEPT !.inflight = ReconnectReset(@, TRUE),
                                !.quota = QuotaAfterReset(msgs_out)]
<1>1. PICK calls \in CallbackCalls :
        LET c1   == InCallback(c0, calls)
            sent == IF link = "up" THEN RetryPackets(c1.inflight) ELSE <<>>
        IN Become([c1 EXCEPT !.inflight = RetryMark(@), !.sent = @ \o sent])
  BY DEF HandleConnack
<1>2. /\ IInv /\ Traffic /\ Balanced /\ ClientTypeOK /\ Ordered(toBroker)
      /\ Answered(toClient) /\ msgs_out \in Seq(Message)
  BY TrafficIs DEF AInv, IInv, ClientTypeOK
<1>3. ClientOK(c0) /\ ClientWindow(c0, Up)
  BY <1>2, ResetIsOK, ResetIsWindow
<1>4. /\ c0 = FieldsOf(c0) /\ c0.sent = <<>> /\ c0.sent \in Seq(ListPacket)
      /\ c0.inflight = ReconnectReset(msgs_out, TRUE)
  <2>1. c0 = [inflight |-> ReconnectReset(msgs_out, TRUE), quota |-> QuotaAfterReset(msgs_out),
              mid |-> last_mid, submitted |-> submitted, sent |-> <<>>]
    BY ClientWith DEF Client
  <2> HIDE DEF c0
  <2> QED  BY <2>1 DEF FieldsOf
<1> HIDE DEF c0
<1> DEFINE c1   == InCallback(c0, calls)
           sent == IF link = "up" THEN RetryPackets(c1.inflight) ELSE <<>>
           c2   == [c1 EXCEPT !.inflight = RetryMark(@), !.sent = @ \o sent]
           all  == c1.sent \o RetryPackets(c1.inflight)
<1>5. ClientRoom(c0, Up) /\ Up \in BOOLEAN /\ (Up => link # "none")
  BY <1>3, WindowRoom DEF ClientRoom, ClientWindow, ClientOK, Up
<1>6. /\ ClientOK(c1) /\ c1 = FieldsOf(c1) /\ Pays(c0, c1, TRUE, Up)
      /\ ClientWindow(c1, Up)
  BY <1>3, <1>4, <1>5, InCallbackType, InCallbackFields, InCallbackPays, InCallbackWindow
<1>7. Become(c2)
  BY <1>1
<1> HIDE DEF c1, sent
<1>8. c2.inflight = RetryMark(c1.inflight) /\ c2.sent = c1.sent \o sent
  BY <1>6 DEF FieldsOf
<1>9. /\ c1.inflight \in Seq(Message) /\ c1.sent \in Seq(ListPacket)
      /\ RetryPackets(c1.inflight) \in Seq(ListPacket)
      /\ Up => \A n \in 1..Len(c1.inflight) : n > InflightMaximum => Held(c1.inflight[n])
  <2>1. c1.inflight \in Seq(Message) /\ c1.quota \in 0..InflightMaximum
    BY <1>6 DEF ClientOK
  <2>2. Up => \A n \in 1..Len(c1.inflight) : n > InflightMaximum => Held(c1.inflight[n])
    BY <1>6, <2>1, WindowExact DEF ClientWindow
  <2> QED  BY <1>6, <2>1, <2>2, RetrySends DEF Pays
<1>10. /\ msgs_out' = RetryMark(c1.inflight)
       /\ toBroker' = IF Up THEN toBroker \o all ELSE toBroker
  <2> HIDE DEF c2
  <2> QED  BY <1>7, <1>8 DEF Become, Up, sent
<1>11. /\ toClient # <<>> /\ Head(toClient).type = "CONNACK" /\ toClient' = Tail(toClient)
       /\ Up' = Up
  BY DEF HandleConnack, Incoming, Up
<1>12. all \in Seq(ListPacket)
  BY <1>9
<1>13. Fresh = TRUE /\ ~(Up /\ Has(toBroker, "CONNECT"))
  BY <1>2, <1>11, TailAnswered DEF Fresh, Traffic
<1>14. Fresh' = FALSE
  <2>1. ~Has(toClient', "CONNACK")
    BY <1>2, <1>11, TailAnswered
  <2>2. Up => ~Has(toBroker', "CONNECT")
    BY <1>2, <1>10, <1>12, <1>13, ConcatOrdered
  <2> QED  BY <1>11, <2>1, <2>2 DEF Fresh
<1> HIDE DEF c2
<1>15. ASSUME NEW mid \in 1..MaxMid
       PROVE  LET a2 == Cardinality(Awaited(msgs_out', mid, FALSE))
              IN /\ Owed(toBroker, toClient', Up, mid) <= a2
                 /\ Up => Owed(toBroker, toClient', Up, mid) + Count(all, Asking(mid)) <= a2
  <2> DEFINE before == Owed(toBroker, toClient, Up, mid)
             owed   == Owed(toBroker, toClient', Up, mid)
             a0     == Cardinality(Awaited(c0.inflight, mid, TRUE))
             a1     == Cardinality(Awaited(c1.inflight, mid, TRUE))
             a2     == Cardinality(Awaited(msgs_out', mid, FALSE))
             s      == Count(all, Asking(mid))
             s1     == Count(c1.sent, Asking(mid))
             s2     == Count(RetryPackets(c1.inflight), Asking(mid))
  <2>1. owed \in Nat /\ before \in Nat /\ owed <= before
    BY <1>2, <1>11, OwedAfterTail
  <2>2. before <= a0
    BY <1>2, <1>4, <1>13, ResetAwaited DEF Balanced
  <2>3. a0 <= a1 /\ (Up => s1 + a0 <= 0 + a1)
    <3>1. Count(c0.sent, Asking(mid)) = 0
      BY <1>4, CountEmpty
    <3> QED  BY <1>6, <3>1 DEF Pays
  <2>4. a1 <= a2 /\ (Up => s2 + a1 <= a2)
    BY <1>9, <1>10, RetrySends
  <2>5. s <= s1 + s2
    BY <1>9, CountConcat
  <2>6. s \in Nat /\ s1 \in Nat /\ s2 \in Nat
    BY <1>9, <1>12, CountType
  <2>7. msgs_out' \in Seq(Message) /\ c0.inflight \in Seq(Message)
    BY <1>3 DEF ClientTypeOK, ClientOK
  <2>8. a0 \in Nat /\ a1 \in Nat /\ a2 \in Nat
    BY <1>9, <2>7, AwaitedType
  <2> HIDE DEF owed, before, a0, a1, a2, s, s1, s2
  <2>9. owed <= a2 /\ (Up => owed + s <= a2)
    BY <2>1, <2>2, <2>3, <2>4, <2>5, <2>6, <2>8
  <2> QED  BY <2>9 DEF owed, a2, s
<1> HIDE DEF all
<1> QED  BY <1>2, <1>10, <1>11, <1>12, <1>14, <1>15, SendingBalanced

\* An acknowledgment: the message that awaited it leaves the list, and the
\* window moves on.
LEMMA PubackcompBalanced ==
  ASSUME AInv, HandlePubackcomp, ClientTypeOK'
  PROVE  Traffic' /\ Balanced'
<1> DEFINE p  == Head(toClient)
           i  == FirstAt(msgs_out, p.mid)
           c0 == [Client EXCEPT !.quota = IncrementQuota(@),
                                !.inflight = MessageRemove(@, p.mid)]
<1>1. <<>> \in CallbackCalls
  BY DEF CallbackCalls
<1>2. PICK calls \in CallbackCalls : Become(Released(InCallback(c0, calls), link = "up"))
  BY <1>1 DEF HandlePubackcomp
<1>3. /\ Traffic /\ Balanced /\ AcksMatch /\ ClientTypeOK /\ Ordered(toBroker)
      /\ Answered(toClient) /\ msgs_out \in Seq(Message)
      /\ Window(msgs_out, inflight_quota, Up)
  BY AcksFound, TrafficIs DEF AInv, IInv, ClientTypeOK
<1>4. /\ toClient # <<>> /\ p.type \in {"PUBACK", "PUBCOMP"} /\ toClient' = Tail(toClient)
      /\ Up' = Up
  BY DEF HandlePubackcomp, Incoming, connVars, Up
<1>5. p \in ClientPacket
  BY <1>3, <1>4, TailAnswered
<1>6. p.mid \in 1..MaxMid /\ p \in Answering(p.mid)
  BY <1>4, <1>5 DEF ClientPacket, Answering
<1>7. /\ Known(msgs_out, p.mid) /\ i \in 1..Len(msgs_out) /\ msgs_out[i].mid = p.mid
      /\ i \in DOMAIN msgs_out /\ ~Held(msgs_out[i])
  <2>1. PICK f \in DOMAIN msgs_out : IsFirstAt(msgs_out, p.mid, f) /\ ~Held(msgs_out[f])
    BY <1>3, <1>4 DEF AcksMatch
  <2>2. Known(msgs_out, p.mid) /\ i = f /\ i \in 1..Len(msgs_out) /\ ~Held(msgs_out[i])
    BY <1>3, <2>1, FirstAtUnique
  <2>3. IsFirstAt(msgs_out, p.mid, i)
    BY <2>1, <2>2
  <2> QED  BY <2>2, <2>3 DEF IsFirstAt, At
<1>8. ~Fresh /\ ~(Up /\ Has(toBroker, "CONNECT")) /\ ~Has(toClient, "CONNACK")
  BY <1>3, <1>4, NotFresh
<1> HIDE DEF p, i
<1>9. /\ c0.inflight = RemoveFrom(msgs_out, i) /\ c0.sent = <<>>
      /\ c0.quota = IncrementQuota(inflight_quota) /\ c0.mid = last_mid
      /\ c0.submitted = submitted
  <2>1. MessageRemove(msgs_out, p.mid) = RemoveFrom(msgs_out, i)
    BY <1>7 DEF MessageRemove, i
  <2> QED  BY <2>1 DEF Client
<1>10. /\ RemoveFrom(msgs_out, i) \in Seq(Message)
       /\ IncrementQuota(inflight_quota) \in 0..InflightMaximum
       /\ Room(RemoveFrom(msgs_out, i), IncrementQuota(inflight_quota), Up)
  <2>1. inflight_quota \in 0..InflightMaximum /\ Up \in BOOLEAN
    BY <1>3 DEF ClientTypeOK, Up
  <2> QED  BY <1>3, <1>7, <2>1, RemoveRoom
<1> HIDE DEF c0
<1>11. ClientOK(c0) /\ c0.sent \in Seq(ListPacket) /\ ClientRoom(c0, Up)
       /\ Up \in BOOLEAN /\ (Up => link # "none")
  BY <1>3, <1>9, <1>10 DEF ClientOK, ClientTypeOK, ClientRoom, Up
<1> DEFINE c1 == InCallback(c0, calls)
           c2 == Released(c1, link = "up")
<1>12. ClientOK(c1) /\ Pays(c0, c1, FALSE, Up) /\ ClientRoom(c1, Up)
  BY <1>11, InCallbackType, InCallbackPays, InCallbackWindow
<1>13. Become(c2)
  BY <1>2
<1> HIDE DEF c1
<1>14. c1.sent \in Seq(ListPacket)
  BY <1>12 DEF Pays
<1>15. ClientOK(c2) /\ Pays(c1, c2, FALSE, Up)
  BY <1>11, <1>12, <1>14, ReleasedType, ReleasedPays DEF Up
<1> HIDE DEF c2
<1>16. Pays(c0, c2, FALSE, Up)
  BY <1>11, <1>12, <1>15, PaysTwice
<1>17. /\ c2.sent \in Seq(ListPacket) /\ msgs_out' = c2.inflight
       /\ toBroker' = IF Up THEN toBroker \o c2.sent ELSE toBroker
  BY <1>13, <1>16 DEF Become, Pays, Up
<1>18. Fresh' = FALSE
  <2>1. ~Has(toClient', "CONNACK")
    BY <1>3, <1>4, TailAnswered
  <2>2. Up => ~Has(toBroker', "CONNECT")
    BY <1>3, <1>8, <1>17, ConcatOrdered
  <2> QED  BY <1>4, <2>1, <2>2 DEF Fresh
<1>19. ASSUME NEW mid \in 1..MaxMid
       PROVE  LET a2 == Cardinality(Awaited(msgs_out', mid, FALSE))
              IN /\ Owed(toBroker, toClient', Up, mid) <= a2
                 /\ Up => Owed(toBroker, toClient', Up, mid) + Count(c2.sent, Asking(mid)) <= a2
  <2> DEFINE before == Owed(toBroker, toClient, Up, mid)
             owed   == Owed(toBroker, toClient', Up, mid)
             a      == Cardinality(Awaited(msgs_out, mid, FALSE))
             a0     == Cardinality(Awaited(RemoveFrom(msgs_out, i), mid, FALSE))
             a2     == Cardinality(Awaited(msgs_out', mid, FALSE))
             s      == Count(c2.sent, Asking(mid))
  <2>1. owed \in Nat /\ before \in Nat /\ owed <= before
        /\ (p.mid = mid => owed + 1 <= before)
    BY <1>3, <1>4, <1>6, OwedAfterTail DEF p
  <2>2. before <= a
    BY <1>3, <1>8 DEF Balanced, Fresh
  <2>3. a <= a0 + 1 /\ (p.mid # mid => a <= a0)
    BY <1>3, <1>7, RemoveAwaited
  <2>4. a0 <= a2 /\ (Up => s + a0 <= 0 + a2)
    <3>1. Count(c0.sent, Asking(mid)) = 0
      BY <1>9, CountEmpty
    <3> QED  BY <1>9, <1>16, <1>17, <3>1 DEF Pays
  <2>5. s \in Nat
    BY <1>17, CountType
  <2>6. msgs_out' \in Seq(Message)
    BY DEF ClientTypeOK
  <2>7. a \in Nat /\ a0 \in Nat /\ a2 \in Nat
    BY <1>3, <1>10, <2>6, AwaitedType
  <2> HIDE DEF owed, before, a, a0, a2, s
  <2>8. CASE p.mid = mid
    <3>1. owed <= a2 /\ (Up => owed + s <= a2)
      BY <2>1, <2>2, <2>3, <2>4, <2>5, <2>7, <2>8
    <3> QED  BY <3>1 DEF owed, a2, s
  <2>9. CASE p.mid # mid
    <3>1. owed <= a2 /\ (Up => owed + s <= a2)
      BY <2>1, <2>2, <2>3, <2>4, <2>5, <2>7, <2>9
    <3> QED  BY <3>1 DEF owed, a2, s
  <2> QED  BY <2>8, <2>9
<1> QED  BY <1>3, <1>4, <1>17, <1>18, <1>19, SendingBalanced

\* A PUBREC turns the answer that was awaited into a PUBREL that asks for one.
LEMMA PubrecBalanced ==
  ASSUME AInv, HandlePubrec, ClientTypeOK'
  PROVE  Traffic' /\ Balanced'
<1> DEFINE p == Head(toClient)
           i == FirstAt(msgs_out, p.mid)
           sent == <<MidPacket("PUBREL", p.mid)>>
<1>1. /\ Traffic /\ Balanced /\ AcksMatch /\ ClientTypeOK /\ Ordered(toBroker)
      /\ Answered(toClient) /\ msgs_out \in Seq(Message)
  BY AcksFound, TrafficIs DEF AInv, IInv, ClientTypeOK
<1>2. toClient # <<>> /\ p.type = "PUBREC"
  BY DEF HandlePubrec, Incoming
<1>3. p \in ClientPacket
  BY <1>1, <1>2, TailAnswered
<1>4. p.mid \in 1..MaxMid /\ p \in Answering(p.mid)
  BY <1>2, <1>3 DEF ClientPacket, Answering
<1>5. PICK f \in DOMAIN msgs_out : IsFirstAt(msgs_out, p.mid, f) /\ ~Held(msgs_out[f])
  BY <1>1, <1>2 DEF AcksMatch
<1>6. Known(msgs_out, p.mid) /\ i = f /\ i \in 1..Len(msgs_out) /\ ~Held(msgs_out[i])
  BY <1>1, <1>5, FirstAtUnique
<1>7. ~Fresh /\ ~(Up /\ Has(toBroker, "CONNECT")) /\ ~Has(toClient, "CONNACK")
  BY <1>1, <1>2, NotFresh
<1>8. CASE QosMatches(msgs_out, p.mid, 2) /\ link = "up"
  <2>1. /\ msgs_out' = OutUpdate(msgs_out, p.mid, "wait_for_pubcomp")
        /\ toBroker' = Append(toBroker, MidPacket("PUBREL", p.mid))
        /\ toClient' = Tail(toClient) /\ Up' = Up /\ Up
    BY <1>8 DEF HandlePubrec, Up
  <2>2. msgs_out' = [msgs_out EXCEPT ![i].state = "wait_for_pubcomp"]
    BY <1>6, <2>1 DEF OutUpdate
  <2> HIDE DEF i, p
  <2>3. MidPacket("PUBREL", p.mid) \in ListPacket
    BY <1>4 DEF MidPacket, ListPacket
  <2>4. sent \in Seq(ListPacket)
    BY <2>3
  <2>5. toBroker' = IF Up THEN toBroker \o sent ELSE toBroker
    <3>1. toBroker \in Seq(BrokerPacket) /\ MidPacket("PUBREL", p.mid) \in BrokerPacket
      BY <1>1, <2>3 DEF Ordered, BrokerPacket
    <3> QED  BY <2>1, <3>1
  <2> HIDE DEF sent
  <2>6. Fresh' = FALSE
    <3>1. ~Has(toClient', "CONNACK")
      BY <1>1, <1>2, <2>1, TailAnswered
    <3>2. ~Has(toBroker', "CONNECT")
      BY <1>1, <1>7, <2>1, <2>4, <2>5, ConcatOrdered
    <3> QED  BY <3>1, <3>2 DEF Fresh
  <2>7. ASSUME NEW mid \in 1..MaxMid
        PROVE  LET a == Cardinality(Awaited(msgs_out', mid, FALSE))
               IN /\ Owed(toBroker, toClient', Up, mid) <= a
                  /\ Owed(toBroker, toClient', Up, mid) + Count(sent, Asking(mid)) <= a
    <3> DEFINE before == Owed(toBroker, toClient, Up, mid)
               owed   == Owed(toBroker, toClient', Up, mid)
               a      == Cardinality(Awaited(msgs_out, mid, FALSE))
               s      == Count(sent, Asking(mid))
    <3>1. owed \in Nat /\ before \in Nat /\ owed <= before
          /\ (p.mid = mid => owed + 1 <= before)
      BY <1>1, <1>2, <1>4, <2>1, OwedAfterTail DEF p
    <3>2. before <= a
      BY <1>1, <1>7 DEF Balanced, Fresh
    <3>3. s \in {0, 1} /\ (p.mid # mid => s = 0)
      <4>1. p.mid # mid => MidPacket("PUBREL", p.mid) \notin Asking(mid)
        BY DEF MidPacket, Asking
      <4> QED  BY <4>1, CountSingle DEF sent
    <3>4. a \in Nat
      BY <1>1, AwaitedType
    <3>5. Awaited(msgs_out', mid, FALSE) = Awaited(msgs_out, mid, FALSE)
      <4>1. Awaited([msgs_out EXCEPT ![i].state = "wait_for_pubcomp"], mid, FALSE)
              = Awaited(msgs_out, mid, FALSE)
        <5>1. msgs_out \in Seq(Message)
          BY <1>1
        <5>2. i \in 1..Len(msgs_out) /\ ~Held(msgs_out[i])
          BY <1>6
        <5> QED  BY ONLY <5>1, <5>2, UpdateAwaited
      <4> QED  BY <2>2, <4>1
    <3> HIDE DEF owed, before, a, s
    <3>6. owed <= a /\ owed + s <= a
      BY <3>1, <3>2, <3>3, <3>4
    <3> QED  BY <3>5, <3>6 DEF owed, a, s
  <2> QED  BY <1>1, <1>2, <2>1, <2>4, <2>5, <2>6, <2>7, SendingBalanced DEF p
<1>9. CASE ~(QosMatches(msgs_out, p.mid, 2) /\ link = "up")
  <2>1. toClient' = <<>> /\ ~Up' /\ toBroker' = toBroker
    BY <1>9 DEF HandlePubrec, CloseLink, Up
  <2> QED  BY <1>1, <2>1, Settled
<1> QED  BY <1>8, <1>9

\* The broker takes a packet and answers what it asks for, or nothing.
LEMMA TakenBalanced ==
  ASSUME Traffic, Balanced, ClientTypeOK, msgs_out' = msgs_out, Up' = Up,
         toBroker # <<>>, toBroker' = Tail(toBroker),
         \/ toClient' = toClient /\ (Up => Head(toBroker).type # "CONNECT")
         \/ /\ Up
            /\ \E p \in ClientPacket :
                 /\ toClient' = Append(toClient, p)
                 /\ p.type = "CONNACK" <=> Head(toBroker).type = "CONNECT"
                 /\ \A mid : p \in Answering(mid) => Head(toBroker) \in Asking(mid)
  PROVE  Traffic' /\ Balanced'
<1>1. /\ Ordered(toBroker) /\ Answered(toClient) /\ Up \in BOOLEAN
      /\ Up /\ Has(toBroker, "CONNECT") => toClient = <<>>
  BY TrafficIs DEF Up
<1>2. /\ Ordered(toBroker') /\ ~Has(toBroker', "CONNECT")
      /\ Has(toBroker, "CONNECT") <=> Head(toBroker).type = "CONNECT"
  BY <1>1, TailOrdered
<1>3. \A mid : /\ Count(Tail(toBroker), Asking(mid)) <= Count(toBroker, Asking(mid))
               /\ Head(toBroker) \in Asking(mid) =>
                    Count(Tail(toBroker), Asking(mid)) + 1 <= Count(toBroker, Asking(mid))
  BY <1>1, CountTail DEF Ordered
<1>4. Answered(toClient') /\ Fresh' = Fresh
      /\ \A mid : Owed(toBroker', toClient', Up', mid) <= Owed(toBroker, toClient, Up, mid)
  <2>1. CASE toClient' = toClient /\ (Up => Head(toBroker).type # "CONNECT")
    <3>1. Fresh' = Fresh
      BY <1>2, <2>1 DEF Fresh
    <3>2. \A mid : /\ Count(toBroker, Asking(mid)) \in Nat /\ Count(toBroker', Asking(mid)) \in Nat
                   /\ Count(toClient, Answering(mid)) \in Nat
      BY <1>1, <1>2, CountType DEF Ordered, Answered
    <3>3. \A mid : Owed(toBroker', toClient', Up', mid) <= Owed(toBroker, toClient, Up, mid)
      BY <1>3, <2>1, <3>2 DEF Owed
    <3> QED  BY <1>1, <2>1, <3>1, <3>3
  <2>2. ASSUME Up, NEW p \in ClientPacket, toClient' = Append(toClient, p),
               p.type = "CONNACK" <=> Head(toBroker).type = "CONNECT",
               \A mid : p \in Answering(mid) => Head(toBroker) \in Asking(mid)
        PROVE  Answered(toClient') /\ Fresh' = Fresh
               /\ \A mid : Owed(toBroker', toClient', Up', mid) <= Owed(toBroker, toClient, Up, mid)
    <3>1. /\ Answered(toClient')
          /\ Has(toClient', "CONNACK") <=> Has(toClient, "CONNACK") \/ p.type = "CONNACK"
      BY <1>1, <1>2, <2>2, AppendAnswered
    <3>2. Fresh' = Fresh
      BY <1>2, <2>2, <3>1 DEF Fresh
    <3>3. ASSUME NEW mid
          PROVE  Owed(toBroker', toClient', Up', mid) <= Owed(toBroker, toClient, Up, mid)
      <4> DEFINE b  == Count(toBroker, Asking(mid))
                 b2 == Count(toBroker', Asking(mid))
                 c  == Count(toClient, Answering(mid))
                 c2 == Count(toClient', Answering(mid))
      <4>1. b \in Nat /\ b2 \in Nat /\ c \in Nat /\ c2 \in Nat
        BY <1>1, <1>2, <3>1, CountType DEF Ordered, Answered
      <4>2. b2 <= b /\ (Head(toBroker) \in Asking(mid) => b2 + 1 <= b)
        BY <1>3
      <4>3. c2 <= c + 1 /\ (p \notin Answering(mid) => c2 <= c)
        BY <1>1, <2>2, CountAppend DEF Answered
      <4>4. p \in Answering(mid) => Head(toBroker) \in Asking(mid)
        BY <2>2
      <4>5. Owed(toBroker', toClient', Up', mid) = b2 + c2
            /\ Owed(toBroker, toClient, Up, mid) = b + c
        BY <2>2 DEF Owed
      <4> HIDE DEF b, b2, c, c2
      <4>6. b2 + c2 <= b + c
        BY <4>1, <4>2, <4>3, <4>4
      <4> QED  BY <4>5, <4>6
    <3> QED  BY <3>1, <3>2, <3>3
  <2> QED  BY <2>1, <2>2
<1>5. Traffic'
  BY <1>2, <1>4 DEF Traffic, Ordered, Answered
<1>6. ASSUME NEW mid \in 1..MaxMid
      PROVE  Owed(toBroker', toClient', Up', mid) <= Cardinality(Awaited(msgs_out', mid, Fresh'))
  <2> DEFINE before == Owed(toBroker, toClient, Up, mid)
             owed   == Owed(toBroker', toClient', Up', mid)
             a      == Cardinality(Awaited(msgs_out, mid, Fresh))
  <2>1. before \in Nat /\ owed \in Nat
    BY <1>1, <1>2, <1>4, OwedType
  <2>2. a \in Nat
    BY AwaitedType DEF ClientTypeOK
  <2>3. owed <= before /\ before <= a
    BY <1>4 DEF Balanced
  <2>4. Cardinality(Awaited(msgs_out', mid, Fresh')) = a
    BY <1>4
  <2> HIDE DEF before, owed, a
  <2>5. owed <= a
    BY <2>1, <2>2, <2>3
  <2> QED  BY <2>4, <2>5 DEF owed
<1> QED  BY <1>5, <1>6 DEF Balanced

LEMMA BrokerBalanced ==
  ASSUME AInv, Broker
  PROVE  Traffic' /\ Balanced'
<1>1. Traffic /\ Balanced /\ ClientTypeOK
  BY DEF AInv, IInv
<1>2. /\ msgs_out' = msgs_out /\ Up' = Up /\ toBroker # <<>> /\ toBroker' = Tail(toBroker)
  BY DEF Broker, BrokerConnect, BrokerPublish, BrokerPubrel, BrokerHangUp, connVars,
         msgVars, Up
<1>3. Head(toBroker) \in BrokerPacket
  BY <1>1, <1>2, TrafficIs, TailOrdered
<1> DEFINE Answer(p) == /\ p.type = "CONNACK" <=> Head(toBroker).type = "CONNECT"
                        /\ \A mid : p \in Answering(mid) => Head(toBroker) \in Asking(mid)
\* The answers of the broker answer the packet it has taken.
<1>4. ASSUME NEW t \in {"PUBACK", "PUBREC", "PUBCOMP"}, Head(toBroker) \in ListPacket,
             Head(toBroker).type = "PUBLISH" => Head(toBroker).qos > 0
      PROVE  LET p == MidPacket(t, Head(toBroker).mid)
             IN p \in ClientPacket /\ Answer(p)
  BY <1>4 DEF MidPacket, ClientPacket, ListPacket, Answering, Asking
<1>5. \A p : Reply(p) => IF Up THEN toClient' = Append(toClient, p) ELSE toClient' = toClient
  BY DEF Reply, Up
<1>6. CASE BrokerConnect
  <2>1. PICK accepted \in BOOLEAN : Reply([type |-> "CONNACK", accepted |-> accepted])
    BY <1>6 DEF BrokerConnect
  <2> DEFINE p == [type |-> "CONNACK", accepted |-> accepted]
  <2>2. p \in ClientPacket /\ Answer(p)
    BY <1>6 DEF ClientPacket, Answering, BrokerConnect
  <2> HIDE DEF p
  <2>3. Reply(p)
    BY <2>1 DEF p
  <2> QED  BY <1>1, <1>2, <1>5, <2>2, <2>3, TakenBalanced
<1>7. CASE BrokerPublish
  <2>1. Head(toBroker) \in ListPacket /\ Head(toBroker).type = "PUBLISH"
        /\ Head(toBroker).qos \in {0, 1, 2}
    BY <1>3, <1>7 DEF BrokerPublish, BrokerPacket, ListPacket
  <2>2. CASE Head(toBroker).qos = 0
    <3>1. toClient' = toClient
      BY <1>7, <2>2 DEF BrokerPublish
    <3> QED  BY <1>1, <1>2, <2>1, <3>1, TakenBalanced
  <2>3. CASE Head(toBroker).qos = 1
    <3>1. Reply(MidPacket("PUBACK", Head(toBroker).mid))
      BY <1>7, <2>3 DEF BrokerPublish
    <3>2. MidPacket("PUBACK", Head(toBroker).mid) \in ClientPacket
          /\ Answer(MidPacket("PUBACK", Head(toBroker).mid))
      BY <1>4, <2>1, <2>3
    <3> QED  BY <1>1, <1>2, <1>5, <2>1, <3>1, <3>2, TakenBalanced
  <2>4. CASE Head(toBroker).qos = 2
    <3>1. Reply(MidPacket("PUBREC", Head(toBroker).mid))
      BY <1>7, <2>4 DEF BrokerPublish
    <3>2. MidPacket("PUBREC", Head(toBroker).mid) \in ClientPacket
          /\ Answer(MidPacket("PUBREC", Head(toBroker).mid))
      BY <1>4, <2>1, <2>4
    <3> QED  BY <1>1, <1>2, <1>5, <2>1, <3>1, <3>2, TakenBalanced
  <2> QED  BY <2>1, <2>2, <2>3, <2>4
<1>8. CASE BrokerPubrel
  <2>1. Head(toBroker) \in ListPacket /\ Head(toBroker).type = "PUBREL"
    BY <1>3, <1>8 DEF BrokerPubrel, BrokerPacket, ListPacket
  <2>2. Reply(MidPacket("PUBCOMP", Head(toBroker).mid))
    BY <1>8 DEF BrokerPubrel
  <2>3. MidPacket("PUBCOMP", Head(toBroker).mid) \in ClientPacket
        /\ Answer(MidPacket("PUBCOMP", Head(toBroker).mid))
    BY <1>4, <2>1
  <2> QED  BY <1>1, <1>2, <1>5, <2>1, <2>2, <2>3, TakenBalanced
<1>9. CASE BrokerHangUp
  <2>1. toClient' = toClient /\ Head(toBroker).type # "CONNECT"
    BY <1>9 DEF BrokerHangUp
  <2> QED  BY <1>1, <1>2, <2>1, TakenBalanced
<1> QED  BY <1>6, <1>7, <1>8, <1>9 DEF Broker

\* When the connection breaks nothing is asked for any more.
LEMMA BreakBalanced ==
  ASSUME AInv, BreakLink
  PROVE  Traffic' /\ Balanced'
<1>1. /\ Traffic /\ Balanced /\ ClientTypeOK /\ Ordered(toBroker) /\ Answered(toClient)
      /\ Up /\ Has(toBroker, "CONNECT") => toClient = <<>>
  BY TrafficIs DEF AInv, IInv
<1>2. Up /\ ~Up' /\ toBroker' = toBroker /\ toClient' = toClient /\ msgs_out' = msgs_out
  BY DEF BreakLink, msgVars, Up
<1>3. Traffic'
  BY <1>1, <1>2 DEF Traffic
<1>4. ASSUME NEW mid \in 1..MaxMid
      PROVE  Owed(toBroker', toClient', Up', mid) <= Cardinality(Awaited(msgs_out', mid, Fresh'))
  <2> DEFINE a == Cardinality(Awaited(msgs_out, mid, Fresh'))
             c == Count(toClient, Answering(mid))
             b == Count(toBroker, Asking(mid))
  <2>1. c \in Nat /\ b \in Nat
    BY <1>1, CountType DEF Ordered, Answered
  <2>2. a \in Nat
    BY <1>1, AwaitedType DEF ClientTypeOK
  <2>3. Owed(toBroker', toClient', Up', mid) = 0 + c /\ Owed(toBroker, toClient, Up, mid) = b + c
    BY <1>2 DEF Owed
  <2>4. CASE Has(toBroker, "CONNECT")
    <3>1. c = 0
      BY <1>1, <1>2, <2>4, CountEmpty
    <3> HIDE DEF a, c
    <3>2. 0 + c <= a
      BY <2>2, <3>1
    <3> QED  BY <1>2, <2>3, <3>2 DEF a
  <2>5. CASE ~Has(toBroker, "CONNECT")
    <3>1. Fresh' = Fresh
      BY <1>2, <2>5 DEF Fresh
    <3>2. b + c <= a
      BY <1>1, <2>3, <3>1 DEF Balanced
    <3> HIDE DEF a, b, c
    <3>3. 0 + c <= a
      BY <2>1, <2>2, <3>2
    <3> QED  BY <1>2, <2>3, <3>3 DEF a
  <2> QED  BY <2>4, <2>5
<1> QED  BY <1>3, <1>4 DEF Balanced

\* A refused CONNACK closes the socket, whatever its callback published.
LEMMA RefusedOrdered ==
  ASSUME AInv, HandleConnackRefused
  PROVE  Ordered(toBroker')
<1> DEFINE c0 == [Client EXCEPT !.inflight = ReconnectReset(@, TRUE),
                                !.quota = QuotaAfterReset(msgs_out)]
<1>1. PICK calls \in CallbackCalls : Become(InCallback(c0, calls))
  BY DEF HandleConnackRefused
<1>2. ClientTypeOK /\ Ordered(toBroker)
  BY TrafficIs DEF AInv, IInv
<1>3. ClientOK(c0)
  BY <1>2, ResetIsOK
<1>4. c0.sent \in Seq(ListPacket)
  BY DEF Client
<1> HIDE DEF c0
<1> DEFINE c1 == InCallback(c0, calls)
<1>5. Pays(c0, c1, FALSE, FALSE)
  <2>1. ClientWindow(c0, FALSE)
    BY ResetIsWindow DEF AInv, c0
  <2>2. ClientRoom(c0, FALSE)
    BY <1>3, <2>1, WindowRoom DEF ClientRoom, ClientWindow, ClientOK
  <2> QED  BY <1>3, <1>4, <2>2, InCallbackPays
<1> HIDE DEF c1
<1>6. c1.sent \in Seq(ListPacket)
  BY <1>5 DEF Pays
<1>7. Ordered(toBroker \o c1.sent)
  BY <1>2, <1>6, ConcatOrdered
<1>8. toBroker' = toBroker \o c1.sent \/ toBroker' = toBroker
  BY <1>1 DEF Become, c1
<1> QED  BY <1>2, <1>7, <1>8

LEMMA BalanceStep ==
  ASSUME AInv, [Next]_vars
  PROVE  Traffic' /\ Balanced'
<1>1. ClientTypeOK' /\ Ordered(toBroker)
  BY TypeStep, TrafficIs DEF AInv, IInv
<1>2. CASE \E qos \in QosLevels : Publish(qos)
  BY <1>1, <1>2, PublishBalanced
<1>3. CASE Disconnect
  <2>1. CASE link = "up"
    <3> DEFINE p == [type |-> "DISCONNECT"]
    <3>1. toClient' = <<>> /\ ~Up' /\ toBroker' = Append(toBroker, p)
      BY <1>3, <2>1 DEF Disconnect, CloseLink, Up
    <3>2. p \in BrokerPacket /\ p.type # "CONNECT"
      BY DEF BrokerPacket
    <3> HIDE DEF p
    <3>3. Ordered(toBroker')
      BY <1>1, <3>1, <3>2, AppendOrdered
    <3> QED  BY <1>1, <3>1, <3>3, Settled
  <2>2. CASE link # "up"
    <3>1. UNCHANGED <<link, toBroker, toClient, msgs_out>>
      BY <1>3, <2>2 DEF Disconnect, msgVars
    <3> QED  BY <3>1 DEF AInv, Traffic, Balanced, Fresh, Up
  <2> QED  BY <2>1, <2>2
<1>4. CASE Reconnect \/ ReconnectFails
  <2>1. toClient' = <<>> /\ (toBroker' = <<ConnectPacket>> \/ (~Up' /\ toBroker' = toBroker))
    BY <1>4 DEF Reconnect, ReconnectFails, ResetForReconnect, Up
  <2> QED  BY <1>1, <2>1, ConnectOrdered, Settled
<1>5. CASE ConnectAgain
  <2>1. toClient' = <<>> /\ (toBroker' = <<ConnectPacket>> \/ (~Up' /\ toBroker' = toBroker))
    BY <1>5 DEF ConnectAgain, Up
  <2> QED  BY <1>1, <2>1, ConnectOrdered, Settled
<1>6. CASE HandleConnack
  BY <1>1, <1>6, ConnackBalanced
<1>7. CASE HandleConnackRefused
  <2>1. toClient' = <<>> /\ ~Up'
    BY <1>7 DEF HandleConnackRefused, CloseLink, Up
  <2> QED  BY <1>1, <1>7, <2>1, RefusedOrdered, Settled
<1>8. CASE Refuse \/ HandlePubackcompMismatch \/ DetectLoss
  <2>1. toClient' = <<>> /\ ~Up' /\ toBroker' = toBroker
    BY <1>8 DEF Refuse, HandlePubackcompMismatch, DetectLoss, CloseLink, Up
  <2> QED  BY <1>1, <2>1, Settled
<1>9. CASE HandlePubackcomp
  BY <1>1, <1>9, PubackcompBalanced
<1>10. CASE HandlePubrec
  BY <1>1, <1>10, PubrecBalanced
<1>11. CASE BreakLink
  BY <1>11, BreakBalanced
<1>12. CASE Broker
  BY <1>12, BrokerBalanced
<1>13. CASE Quiescent \/ UNCHANGED vars
  <2>1. UNCHANGED <<link, toBroker, toClient, msgs_out>>
    BY <1>13 DEF Quiescent, vars
  <2> QED  BY <2>1 DEF AInv, Traffic, Balanced, Fresh, Up
<1> QED
  BY <1>2, <1>3, <1>4, <1>5, <1>6, <1>7, <1>8, <1>9, <1>10, <1>11, <1>12, <1>13
     DEF Next, Application, HandlePacket

LEMMA BalanceInvariant == Spec => []AInv
<1>1. Init => AInv
  <2> SUFFICES ASSUME Init
               PROVE  AInv
    OBVIOUS
  <2>1. /\ msgs_out = <<>> /\ inflight_quota = InflightMaximum /\ toBroker = <<>>
        /\ toClient = <<>> /\ ~Up
    BY DEF Init, Up
  <2>2. ClientTypeOK
    BY InflightMaximumAssumption, MaxMidAssumption
       DEF Init, ClientTypeOK, States, Links
  <2>3. Window(msgs_out, inflight_quota, Up)
    BY <2>1, EmptyWindow
  <2>4. Traffic
    BY <2>1 DEF Traffic, OnlyFirst, Has
  <2>5. ASSUME NEW mid \in 1..MaxMid
        PROVE  Owed(toBroker, toClient, Up, mid) <= Cardinality(Awaited(msgs_out, mid, Fresh))
    <3>1. Owed(toBroker, toClient, Up, mid) = 0
      BY <2>1, CountEmpty DEF Owed
    <3>2. Cardinality(Awaited(msgs_out, mid, Fresh)) \in Nat
      BY <2>2, AwaitedType DEF ClientTypeOK
    <3> QED  BY <3>1, <3>2
  <2> QED  BY <2>2, <2>3, <2>4, <2>5 DEF AInv, IInv, Balanced
<1>2. AInv /\ [Next]_vars => AInv'
  BY AcksFound, WindowStep, BalanceStep DEF AInv
<1> QED  BY <1>1, <1>2, PTL DEF Spec

\* A PUBACK, PUBREC or PUBCOMP that handle__pubackcomp or handle__pubrec reads
\* belongs to a message in flight: losses, refusals, the two resets of a
\* reconnection, publishes from callbacks and ids that wrap to one still in use
\* never leave an acknowledgment without its message or with a held one.
THEOREM AcksAlwaysMatch == Spec => []AcksMatch
<1>1. AInv => AcksMatch
  BY AcksFound
<1> QED  BY <1>1, BalanceInvariant, PTL

\* A message held back is never in front of one given to the network, whichever
\* sends fail and however often message__reconnect_reset runs.
THEOREM HeldStayLast == Spec => []HeldAreLast
<1>1. AInv => HeldAreLast
  BY IInvImplies DEF AInv
<1> QED  BY <1>1, BalanceInvariant, PTL

\* No handler, callback, failed send or reconnection leaves a message held back
\* while the window has room for it.
THEOREM NoStall == Spec => []HeldOnlyWhenFull
<1>1. AInv => HeldOnlyWhenFull
  BY IInvImplies DEF AInv
<1> QED  BY <1>1, BalanceInvariant, PTL

\* On a working connection inflight_quota is the part of the window that the
\* messages in flight leave free, across every path that adds or takes a unit.
THEOREM QuotaExact == Spec => []QuotaAccounts
<1>1. AInv => QuotaAccounts
  BY IInvImplies DEF AInv
<1> QED  BY <1>1, BalanceInvariant, PTL

-----------------------------------------------------------------------------
(***************************************************************************)
(* The order of the messages and of what is sent.                          *)
(***************************************************************************)
\* Listed, for the client in a handler; D is a set of ids past their PUBREC.
ClientListed(c, D) == Listed(c.inflight, Len(c.submitted), D)

LEMMA NewMessageIs ==
  ASSUME NEW c, ClientOK(c), NEW qos \in QosLevels, qos # 0
  PROVE  LET m == NewMessage(Len(c.submitted) + 1, NextMid(c.mid), qos)
         IN m \in Message /\ Held(m) /\ ~m.dup /\ m.id = Len(c.submitted) + 1
<1> DEFINE mid == NextMid(c.mid)
<1>1. mid \in 1..MaxMid /\ Len(c.submitted) + 1 \in Nat
  BY NextMidType DEF ClientOK
<1>2. qos \in {1, 2}
  BY QosLevelsAssumption
<1> HIDE DEF mid
<1>3. LET m == NewMessage(Len(c.submitted) + 1, mid, qos)
      IN m \in Message /\ Held(m)
  BY <1>1, <1>2, NewMessageType
<1>4. LET m == NewMessage(Len(c.submitted) + 1, mid, qos)
      IN ~m.dup /\ m.id = Len(c.submitted) + 1
  BY DEF NewMessage
<1> QED  BY <1>3, <1>4 DEF mid

LEMMA ClientTypes ==
  ASSUME NEW c, ClientOK(c)
  PROVE  /\ c.inflight \in Seq(Message) /\ c.quota \in Nat /\ Len(c.submitted) \in Nat
         /\ \A qos \in QosLevels : Len(Append(c.submitted, qos)) = Len(c.submitted) + 1
BY InflightMaximumAssumption DEF ClientOK

LEMMA PublishCallListed ==
  ASSUME NEW c, ClientOK(c), NEW qos \in QosLevels, NEW ok \in BOOLEAN,
         NEW D \in SUBSET (0..Len(c.submitted)), ClientListed(c, D)
  PROVE  ClientListed(PublishCall(c, qos, ok), D)
<1> DEFINE m == NewMessage(Len(c.submitted) + 1, NextMid(c.mid), qos)
           p == PublishCall(c, qos, ok)
           n == Len(c.submitted)
<1>1. c.inflight \in Seq(Message) /\ c.quota \in Nat /\ n \in Nat
      /\ Len(Append(c.submitted, qos)) = n + 1
  BY ClientTypes
<1>2. CASE qos = 0
  <2>1. p.inflight = c.inflight /\ p.submitted = Append(c.submitted, qos)
    BY <1>2 DEF PublishCall
  <2> HIDE DEF p
  <2>2. c.inflight \in Seq(Message) /\ Listed(c.inflight, n, D)
    BY <1>1 DEF ClientListed
  <2> HIDE DEF n
  <2>3. Listed(c.inflight, n + 1, D)
    <3>1. ASSUME NEW i \in 1..Len(c.inflight)
          PROVE  c.inflight[i].id \in Nat
      <4>1. c.inflight[i] \in Message
        BY <2>2
      <4> QED  BY <4>1 DEF Message
    <3> QED  BY <1>1, <2>2, <3>1 DEF Listed, Fits
  <2> QED  BY <1>1, <2>1, <2>3 DEF ClientListed, p
<1>3. CASE qos # 0
  <2>1. p.inflight = MessageQueue(c.inflight, c.quota, m, ok).inflight
        /\ p.submitted = Append(c.submitted, qos)
    BY <1>3 DEF PublishCall
  <2>2. m \in Message /\ Held(m) /\ ~m.dup /\ m.id = n + 1
    BY <1>3, NewMessageIs
  <2> HIDE DEF p, m
  <2>3. Listed(MessageQueue(c.inflight, c.quota, m, ok).inflight, n + 1, D)
    BY <1>1, <2>2, QueueListed DEF ClientListed
  <2> QED  BY <1>1, <2>1, <2>3 DEF ClientListed, p
<1> QED  BY <1>2, <1>3

LEMMA InCallbackListed ==
  ASSUME NEW c, ClientOK(c), NEW calls \in CallbackCalls,
         NEW D \in SUBSET (0..Len(c.submitted)), ClientListed(c, D)
  PROVE  ClientListed(InCallback(c, calls), D)
<1>1. CASE calls = <<>>
  BY <1>1 DEF InCallback
<1>2. CASE calls # <<>>
  <2>1. Head(calls) \in QosLevels /\ (link # "none") \in BOOLEAN
    BY <1>2, CallbackCallsType
  <2>2. ClientListed(PublishCall(c, Head(calls), link # "none"), D)
    BY <2>1, PublishCallListed
  <2> QED  BY <1>2, <2>2 DEF InCallback
<1> QED  BY <1>1, <1>2

LEMMA ReleasedListed ==
  ASSUME NEW c, ClientOK(c), NEW ok \in BOOLEAN, NEW D, ClientListed(c, D)
  PROVE  ClientListed(Released(c, ok), D)
<1> DEFINE r == ReleaseToInflight(c.inflight, c.quota, ok)
<1>1. c.inflight \in Seq(Message) /\ c.quota \in Nat
  BY ClientTypes
<1>2. Listed(r.inflight, Len(c.submitted), D)
  BY <1>1, ReleaseListed DEF ClientListed
<1>3. Released(c, ok).inflight = r.inflight /\ Released(c, ok).submitted = c.submitted
  BY DEF Released
<1> QED  BY <1>2, <1>3 DEF ClientListed

\* Every step keeps the order of the list, and leaves the ids of D past their
\* PUBREC for as long as they are in it.
LEMMA ListedStep ==
  ASSUME AInv, ClientTypeOK', [Next]_vars,
         NEW D \in SUBSET (0..Len(submitted)), Listed(msgs_out, Len(submitted), D)
  PROVE  Listed(msgs_out', Len(submitted'), D)
<1>0. ClientTypeOK /\ ClientOK(Client) /\ msgs_out \in Seq(Message)
  BY ClientIsOK DEF AInv, IInv, ClientTypeOK
<1>c. Client.inflight = msgs_out /\ Client.submitted = submitted /\ ClientListed(Client, D)
  BY DEF Client, ClientListed
<1>1. CASE UNCHANGED <<msgs_out, submitted>>
  BY <1>1
<1>2. ASSUME NEW qos \in QosLevels, Publish(qos)
      PROVE  Listed(msgs_out', Len(submitted'), D)
  <2> DEFINE c == PublishCall(Client, qos, link = "up")
  <2>1. ClientListed(c, D)
    <3>1. (link = "up") \in BOOLEAN /\ D \in SUBSET (0..Len(Client.submitted))
      BY <1>c
    <3> QED  BY <1>0, <1>c, <3>1, PublishCallListed
  <2>2. msgs_out' = c.inflight /\ submitted' = c.submitted
    BY <1>2 DEF Publish, Become
  <2> QED  BY <2>1, <2>2 DEF ClientListed
<1>3. CASE Reconnect \/ ReconnectFails
  <2>1. msgs_out' = ReconnectReset(msgs_out, FALSE) /\ submitted' = submitted
    BY <1>3 DEF Reconnect, ReconnectFails, ResetForReconnect
  <2> QED  BY <1>0, <2>1, ResetListed
<1>4. CASE ConnectAgain
  <2>1. msgs_out' = <<>>
    BY <1>4 DEF ConnectAgain
  <2> QED  BY <2>1 DEF Listed, Numbered
\* The handlers of a CONNACK start with the list after the reset.
<1> DEFINE c0 == [Client EXCEPT !.inflight = ReconnectReset(@, TRUE),
                                !.quota = QuotaAfterReset(msgs_out)]
<1>5. ClientOK(c0) /\ ClientListed(c0, D) /\ c0.submitted = submitted /\ c0 = FieldsOf(c0)
  <2>1. c0 = [inflight |-> ReconnectReset(msgs_out, TRUE), quota |-> QuotaAfterReset(msgs_out),
              mid |-> last_mid, submitted |-> submitted, sent |-> <<>>]
    BY ClientWith DEF Client
  <2>2. ClientOK(c0)
    BY <1>0, ResetIsOK
  <2> HIDE DEF c0
  <2>3. Listed(ReconnectReset(msgs_out, TRUE), Len(submitted), D)
    BY <1>0, ResetListed
  <2> QED  BY <2>1, <2>2, <2>3 DEF ClientListed, FieldsOf
<1> HIDE DEF c0
<1>6. ASSUME NEW calls \in CallbackCalls
      PROVE  LET c1 == InCallback(c0, calls)
             IN ClientOK(c1) /\ ClientListed(c1, D) /\ c1 = FieldsOf(c1)
  <2>1. D \in SUBSET (0..Len(c0.submitted))
    BY <1>5
  <2> QED  BY <1>5, <2>1, InCallbackType, InCallbackListed, InCallbackFields
<1>7. CASE HandleConnack
  <2>1. PICK calls \in CallbackCalls :
          \E sent : Become([InCallback(c0, calls) EXCEPT !.inflight = RetryMark(@),
                                                         !.sent = @ \o sent])
    BY <1>7 DEF HandleConnack, c0
  <2> DEFINE c1 == InCallback(c0, calls)
  <2>2. PICK sent : Become([c1 EXCEPT !.inflight = RetryMark(@), !.sent = @ \o sent])
    BY <2>1
  <2>3. ClientOK(c1) /\ ClientListed(c1, D) /\ c1 = FieldsOf(c1)
    BY <1>6
  <2> HIDE DEF c1
  <2> DEFINE c2 == [c1 EXCEPT !.inflight = RetryMark(@), !.sent = @ \o sent]
  <2>4. c2.inflight = RetryMark(c1.inflight) /\ c2.submitted = c1.submitted
    BY <2>3 DEF FieldsOf
  <2>5. msgs_out' = c2.inflight /\ submitted' = c2.submitted
    BY <2>2 DEF Become
  <2>6. c1.inflight \in Seq(Message)
    BY <2>3 DEF ClientOK
  <2> HIDE DEF c2
  <2>7. Listed(RetryMark(c1.inflight), Len(c1.submitted), D)
    BY <2>3, <2>6, RetryListed DEF ClientListed
  <2> QED  BY <2>4, <2>5, <2>7
<1>8. CASE HandleConnackRefused
  <2>1. PICK calls \in CallbackCalls : Become(InCallback(c0, calls))
    BY <1>8 DEF HandleConnackRefused, c0
  <2>2. ClientListed(InCallback(c0, calls), D)
    BY <1>6
  <2> QED  BY <2>1, <2>2 DEF Become, ClientListed
<1>9. ASSUME Incoming({"PUBACK", "PUBREC", "PUBCOMP"})
      PROVE  LET i == FirstAt(msgs_out, Head(toClient).mid)
             IN /\ Known(msgs_out, Head(toClient).mid) /\ i \in 1..Len(msgs_out)
                /\ ~Held(msgs_out[i]) /\ i <= InflightMaximum
  BY <1>9, AckedFirst DEF Incoming
<1>10. CASE HandlePubackcomp
  <2> DEFINE p  == Head(toClient)
             i  == FirstAt(msgs_out, p.mid)
             a0 == [Client EXCEPT !.quota = IncrementQuota(@),
                                  !.inflight = MessageRemove(@, p.mid)]
  <2>1. <<>> \in CallbackCalls
    BY DEF CallbackCalls
  <2>2. PICK calls \in CallbackCalls :
          Become(Released(InCallback(a0, calls), link = "up"))
    BY <1>10, <2>1 DEF HandlePubackcomp
  <2>3. Known(msgs_out, p.mid) /\ i \in 1..Len(msgs_out)
    BY <1>9, <1>10 DEF HandlePubackcomp, Incoming
  <2>4. /\ MessageRemove(msgs_out, p.mid) \in Seq(Message)
        /\ IncrementQuota(inflight_quota) \in 0..InflightMaximum
        /\ MessageRemove(msgs_out, p.mid) = RemoveFrom(msgs_out, i)
    BY <1>0, <2>3, RemoveType, IncrementQuotaType DEF ClientTypeOK, MessageRemove
  <2>5. /\ a0.inflight = MessageRemove(msgs_out, p.mid) /\ a0.submitted = submitted
        /\ a0.quota = IncrementQuota(inflight_quota) /\ a0.mid = last_mid
    BY DEF Client
  <2> HIDE DEF a0, i
  <2>6. ClientOK(a0)
    BY <1>0, <2>4, <2>5 DEF ClientOK, ClientTypeOK
  <2>7. ClientListed(a0, D)
    BY <1>0, <2>3, <2>4, <2>5, RemoveListed DEF ClientListed
  <2>8. ClientOK(InCallback(a0, calls)) /\ ClientListed(InCallback(a0, calls), D)
    BY <2>5, <2>6, <2>7, InCallbackType, InCallbackListed
  <2>9. ClientListed(Released(InCallback(a0, calls), link = "up"), D)
    BY <2>8, ReleasedListed
  <2> QED  BY <2>2, <2>9 DEF Become, ClientListed
<1>11. CASE HandlePubrec
  <2> DEFINE mid == Head(toClient).mid
             i   == FirstAt(msgs_out, mid)
             r   == [msgs_out EXCEPT ![i].state = "wait_for_pubcomp"]
  <2>1. /\ Known(msgs_out, mid) /\ i \in 1..Len(msgs_out)
        /\ ~Held(msgs_out[i]) /\ i <= InflightMaximum
    BY <1>9, <1>11 DEF HandlePubrec, Incoming
  <2>2. submitted' = submitted
        /\ \/ msgs_out' = msgs_out
           \/ QosMatches(msgs_out, mid, 2)
              /\ msgs_out' = OutUpdate(msgs_out, mid, "wait_for_pubcomp")
    BY <1>11 DEF HandlePubrec
  <2>3. OutUpdate(msgs_out, mid, "wait_for_pubcomp") = r
    BY <2>1 DEF OutUpdate
  <2>4. QosMatches(msgs_out, mid, 2) => msgs_out[i].qos = 2
    BY <2>1 DEF QosMatches
  <2> HIDE DEF i, mid
  <2>5. QosMatches(msgs_out, mid, 2) => Listed(r, Len(submitted), D)
    BY <1>0, <2>1, <2>4, UpdateListed
  <2> QED  BY <2>2, <2>3, <2>5
<1>12. CASE \/ Disconnect \/ Refuse \/ HandlePubackcompMismatch \/ DetectLoss
            \/ BreakLink \/ Broker \/ Quiescent \/ UNCHANGED vars
  <2>1. UNCHANGED <<msgs_out, submitted>>
    BY <1>12 DEF Disconnect, Refuse, HandlePubackcompMismatch, DetectLoss, BreakLink,
                 Broker, BrokerConnect, BrokerPublish, BrokerPubrel, BrokerHangUp,
                 Quiescent, vars, msgVars
  <2> QED  BY <1>1, <2>1
<1> QED
  BY <1>2, <1>3, <1>4, <1>7, <1>8, <1>10, <1>11, <1>12
     DEF Next, Application, HandlePacket

LEMMA ListedInvariant == Spec => [](AInv /\ Listed(msgs_out, Len(submitted), {}))
<1> DEFINE L == Listed(msgs_out, Len(submitted), {})
<1>1. Init => L
  BY DEF Init, Listed, Numbered
<1>2. AInv /\ L /\ AInv' /\ [Next]_vars => L'
  <2> SUFFICES ASSUME AInv, L, AInv', [Next]_vars
               PROVE  Listed(msgs_out', Len(submitted'), {})
    OBVIOUS
  <2>1. ClientTypeOK'
    BY DEF AInv, IInv
  <2> QED  BY <2>1, ListedStep
<1> HIDE DEF L
<1>3. Spec => []L
  BY <1>1, <1>2, BalanceInvariant, PTL DEF Spec
<1> QED  BY <1>3, BalanceInvariant, PTL DEF L

\* The ids in the list are different, so a QoS 2 message past its PUBREC is the
\* only one with its id; message__reconnect_reset, the retry, the release and a
\* callback leave it there until its PUBCOMP removes it.
THEOREM PubrecStays == Spec => PubrecIsFinal
<1> DEFINE Final == \A i \in DOMAIN msgs_out : PastPubrec(msgs_out[i]) =>
                      \A j \in DOMAIN msgs_out' :
                        msgs_out'[j].id = msgs_out[i].id => PastPubrec(msgs_out'[j])
           L == Listed(msgs_out, Len(submitted), {})
<1>1. ASSUME AInv, L, AInv', [Next]_vars
      PROVE  Final
  <2> DEFINE Past == {i \in DOMAIN msgs_out : PastPubrec(msgs_out[i])}
             D == {msgs_out[i].id : i \in Past}
  <2>1. /\ ClientTypeOK' /\ msgs_out \in Seq(Message) /\ msgs_out' \in Seq(Message)
        /\ Len(submitted) \in Nat
    BY <1>1 DEF AInv, IInv, ClientTypeOK
  <2>2. ASSUME NEW i \in 1..Len(msgs_out)
        PROVE  /\ msgs_out[i].id \in 0..Len(submitted) /\ Fits(msgs_out[i], i, Len(submitted), {})
               /\ PastPubrec(msgs_out[i]) <=> MustRelAgain(msgs_out[i])
    <3>1. msgs_out[i] \in Message /\ Fits(msgs_out[i], i, Len(submitted), {})
      BY <1>1, <2>1 DEF Listed
    <3>2. msgs_out[i].id \in Nat /\ msgs_out[i].id <= Len(submitted)
      BY <3>1 DEF Message, Fits
    <3> QED  BY <2>1, <3>1, <3>2 DEF PastPubrec, MustRelAgain
  <2>3. DOMAIN msgs_out = 1..Len(msgs_out) /\ DOMAIN msgs_out' = 1..Len(msgs_out')
    BY <2>1
  <2>4. D \in SUBSET (0..Len(submitted))
    BY <2>2, <2>3
  <2>5. ASSUME NEW i \in 1..Len(msgs_out), NEW j \in 1..Len(msgs_out),
               msgs_out[i].id = msgs_out[j].id
        PROVE  i = j
    <3>1. msgs_out[i].id \in Nat /\ i \in Nat /\ j \in Nat
      BY <2>1, <2>2
    <3>2. ~(i < j) /\ ~(j < i)
      BY <1>1, <2>5, <3>1 DEF Listed, Numbered
    <3> QED  BY <3>1, <3>2
  <2>6. ASSUME NEW j \in 1..Len(msgs_out), msgs_out[j].id \in D
        PROVE  MustRelAgain(msgs_out[j])
    <3>1. PICK i \in DOMAIN msgs_out : PastPubrec(msgs_out[i]) /\ msgs_out[j].id = msgs_out[i].id
      BY <2>6
    <3>2. i = j
      BY <2>3, <2>5, <3>1
    <3> QED  BY <2>2, <3>1, <3>2
  <2>7. \A i \in DOMAIN msgs_out : PastPubrec(msgs_out[i]) => msgs_out[i].id \in D
    OBVIOUS
  <2> HIDE DEF D
  <2>8. Listed(msgs_out, Len(submitted), D)
    BY <1>1, <2>2, <2>6 DEF Listed, Fits
  <2>9. Listed(msgs_out', Len(submitted'), D)
    BY <1>1, <2>1, <2>4, <2>8, ListedStep
  <2>10. \A j \in 1..Len(msgs_out') : msgs_out'[j].id \in D => PastPubrec(msgs_out'[j])
    BY <2>9 DEF Listed, Fits, PastPubrec, MustRelAgain
  <2> QED  BY <2>3, <2>7, <2>10
<1>2. AInv /\ L /\ AInv' /\ [Next]_vars => [Final]_vars
  BY <1>1
<1> HIDE DEF Final, L
<1>3. Spec => [][Final]_vars
  <2>1. Spec => []L
    BY ListedInvariant, PTL DEF L
  <2> QED  BY <1>2, <2>1, BalanceInvariant, PTL DEF Spec
<1> QED  BY <1>3 DEF Final, PubrecIsFinal

-----------------------------------------------------------------------------
\* Trail, for the client in a handler; w has travelled before the handler.
ClientTrail(w, c, fresh) ==
  /\ c.sent \in Seq(ListPacket)
  /\ Trail(w \o c.sent, c.inflight, Len(c.submitted), fresh)

\* What a handler sends follows what has travelled, whichever call it comes from.
LEMMA Regroup ==
  ASSUME NEW w \in Seq(ListPacket), NEW s \in Seq(ListPacket), NEW t \in Seq(ListPacket)
  PROVE  (w \o s) \o t = w \o (s \o t) /\ s \o t \in Seq(ListPacket)
<1>1. (w \o s) \o t = w \o (s \o t)
  BY ConcatAssociative
<1>2. s \o t \in Seq(ListPacket)
  OBVIOUS
<1> QED  BY <1>1, <1>2

LEMMA PublishCallTrail ==
  ASSUME NEW c, ClientOK(c), NEW qos \in QosLevels, NEW ok \in BOOLEAN,
         ClientListed(c, {}), NEW w \in Seq(ListPacket), NEW fresh \in BOOLEAN,
         ClientTrail(w, c, fresh)
  PROVE  ClientTrail(w, PublishCall(c, qos, ok), fresh)
<1> DEFINE m == NewMessage(Len(c.submitted) + 1, NextMid(c.mid), qos)
           p == PublishCall(c, qos, ok)
           n == Len(c.submitted)
           v == w \o c.sent
<1>1. c.inflight \in Seq(Message) /\ c.quota \in Nat /\ n \in Nat
      /\ Len(Append(c.submitted, qos)) = n + 1
  BY ClientTypes
<1>2. c.sent \in Seq(ListPacket) /\ v \in Seq(ListPacket) /\ Trail(v, c.inflight, n, fresh)
  BY DEF ClientTrail
<1>3. CASE qos = 0
  <2> DEFINE sent == IF ok THEN <<PublishPacket(m)>> ELSE <<>>
  <2>1. p.inflight = c.inflight /\ p.submitted = Append(c.submitted, qos)
        /\ p.sent = c.sent \o sent
    BY <1>3 DEF PublishCall
  <2>2. NextMid(c.mid) \in 1..MaxMid /\ n + 1 \in Nat
    BY <1>1, NextMidType DEF ClientOK
  <2>3. PublishPacket(m) \in ListPacket /\ PublishPacket(m).qos = 0
    BY <1>3, <2>2 DEF PublishPacket, NewMessage, ListPacket
  <2>4. sent \in Seq(ListPacket)
    BY <2>3
  <2>5. Publishes(sent) = {}
    BY <2>3 DEF Publishes
  <2> HIDE DEF sent, p, m, v, n
  <2>6. Trail(v, c.inflight, n + 1, fresh)
    <3>1. \A x, j : j \in 1..Len(c.inflight) /\ x.id \in Nat /\ x.id <= n
                    /\ (\A i \in 1..Len(c.inflight) : Clear(x, c.inflight[i], fresh))
                      => Clear(x, c.inflight[j], fresh)
      OBVIOUS
    <3>2. n <= n + 1 /\ n \in Nat /\ n + 1 \in Nat /\ (fresh => fresh)
      BY <1>1
    <3> QED  BY ONLY <1>2, <3>1, <3>2, TrailSame
  <2>7. Trail(v \o sent, c.inflight, n + 1, fresh)
    <3>1. InOrder(sent) /\ Behind(sent, c.inflight, n + 1, fresh)
      BY <2>5 DEF InOrder, Behind
    <3>2. InOrder(v) /\ Behind(v, c.inflight, n + 1, fresh)
      BY <2>6 DEF Trail
    <3> QED  BY <1>2, <2>4, <2>5, <3>1, <3>2, TrailGrows
  <2>8. v \o sent = w \o (c.sent \o sent) /\ c.sent \o sent \in Seq(ListPacket)
    BY <1>2, <2>4, Regroup DEF v
  <2> QED  BY <1>1, <2>1, <2>7, <2>8 DEF ClientTrail, p, n
<1>4. CASE qos # 0
  <2> DEFINE r == MessageQueue(c.inflight, c.quota, m, ok)
  <2>1. p.inflight = r.inflight /\ p.submitted = Append(c.submitted, qos)
        /\ p.sent = c.sent \o r.sent
    BY <1>4 DEF PublishCall
  <2>2. m \in Message /\ Held(m) /\ ~m.dup /\ m.id = n + 1
    BY <1>4, NewMessageIs
  <2>3. Listed(c.inflight, n, {})
    BY DEF ClientListed
  <2> HIDE DEF p, m, n, v
  <2>4. r.sent \in Seq(ListPacket) /\ Trail(v \o r.sent, r.inflight, n + 1, fresh)
    BY <1>1, <1>2, <2>2, <2>3, QueueTrail
  <2> HIDE DEF r
  <2>5. v \o r.sent = w \o (c.sent \o r.sent) /\ c.sent \o r.sent \in Seq(ListPacket)
    BY <1>2, <2>4, Regroup DEF v
  <2> QED  BY <1>1, <2>1, <2>4, <2>5 DEF ClientTrail, p, n
<1> QED  BY <1>3, <1>4

LEMMA InCallbackTrail ==
  ASSUME NEW c, ClientOK(c), NEW calls \in CallbackCalls, ClientListed(c, {}),
         NEW w \in Seq(ListPacket), NEW fresh \in BOOLEAN, ClientTrail(w, c, fresh)
  PROVE  ClientTrail(w, InCallback(c, calls), fresh)
<1>1. CASE calls = <<>>
  BY <1>1 DEF InCallback
<1>2. CASE calls # <<>>
  <2>1. Head(calls) \in QosLevels /\ (link # "none") \in BOOLEAN
    BY <1>2, CallbackCallsType
  <2>2. ClientTrail(w, PublishCall(c, Head(calls), link # "none"), fresh)
    BY <2>1, PublishCallTrail
  <2> QED  BY <1>2, <2>2 DEF InCallback
<1> QED  BY <1>1, <1>2

LEMMA ReleasedTrail ==
  ASSUME NEW c, ClientOK(c), NEW ok \in BOOLEAN, ClientListed(c, {}),
         NEW w \in Seq(ListPacket), NEW fresh \in BOOLEAN, ClientTrail(w, c, fresh)
  PROVE  ClientTrail(w, Released(c, ok), fresh)
<1> DEFINE r == ReleaseToInflight(c.inflight, c.quota, ok)
           d == Released(c, ok)
           v == w \o c.sent
           n == Len(c.submitted)
<1>1. c.inflight \in Seq(Message) /\ c.quota \in Nat /\ n \in Nat
  BY ClientTypes
<1>2. c.sent \in Seq(ListPacket) /\ Trail(v, c.inflight, n, fresh)
      /\ Listed(c.inflight, n, {})
  BY DEF ClientTrail, ClientListed
<1>3. d.inflight = r.inflight /\ d.sent = c.sent \o r.sent /\ d.submitted = c.submitted
  BY DEF Released
<1> HIDE DEF d, v
<1>4. r.sent \in Seq(ListPacket) /\ Trail(v \o r.sent, r.inflight, n, fresh)
  <2> HIDE DEF n
  <2> QED  BY <1>1, <1>2, ReleaseTrail
<1> HIDE DEF r
<1>5. v \o r.sent = w \o (c.sent \o r.sent) /\ c.sent \o r.sent \in Seq(ListPacket)
  BY <1>2, <1>4, Regroup DEF v
<1> QED  BY <1>3, <1>4, <1>5 DEF ClientTrail, d

\* What has travelled on the connection, when no handler is running.
Travelled ==
  /\ transmitted \in Seq(ListPacket) /\ Publishes(transmitted) = DOMAIN transmitted
  /\ InOrder(transmitted)
  /\ Up => Behind(transmitted, msgs_out, Len(submitted), Fresh)

LEMMA NothingTravelled ==
  ASSUME transmitted' = <<>>
  PROVE  Travelled'
<1>1. transmitted' \in Seq(ListPacket) /\ Publishes(transmitted') = {} /\ DOMAIN transmitted' = {}
  BY DEF Publishes
<1> QED  BY <1>1 DEF Travelled, InOrder, Behind

\* A connection that does not work keeps what travelled on it.
LEMMA DownTravelled ==
  ASSUME Travelled, transmitted' = transmitted, ~Up'
  PROVE  Travelled'
BY DEF Travelled

\* Sending changes nothing of Fresh, and reading a packet ends it.
LEMMA FreshAfter ==
  ASSUME Traffic, Up, Up', NEW c, Become(c), c.sent \in Seq(ListPacket)
  PROVE  /\ toClient' = toClient => (Fresh' <=> Fresh)
         /\ toClient # <<>> /\ toClient' = Tail(toClient) => ~Fresh'
<1>1. /\ Ordered(toBroker) /\ Answered(toClient)
      /\ Has(toBroker, "CONNECT") => toClient = <<>>
  BY TrafficIs
<1>2. toBroker' = toBroker \o c.sent
  BY DEF Become, Up
<1>3. Has(toBroker', "CONNECT") <=> Has(toBroker, "CONNECT")
  <2> DEFINE sent == c.sent
  <2> HIDE DEF sent
  <2>1. sent \in Seq(ListPacket) /\ toBroker' = toBroker \o sent
    BY <1>2 DEF sent
  <2> QED  BY ONLY <1>1, <2>1, ConcatOrdered
<1>4. toClient # <<>> => ~Has(Tail(toClient), "CONNACK")
  BY <1>1, TailAnswered
<1> QED  BY <1>1, <1>3, <1>4 DEF Fresh

LEMMA BecomeTravelled ==
  ASSUME Travelled, NEW c, Become(c), Up' => Up, NEW fresh \in BOOLEAN,
         Up /\ Up' => (Fresh' => fresh), Up => ClientTrail(transmitted, c, fresh)
  PROVE  Travelled'
<1>1. /\ msgs_out' = c.inflight /\ submitted' = c.submitted
      /\ transmitted' = IF Up THEN transmitted \o Sublist(c.sent, Publishes(c.sent))
                        ELSE transmitted
  BY DEF Become, Up
<1>2. CASE Up
  <2> DEFINE t == transmitted \o Sublist(c.sent, Publishes(c.sent))
  <2>1. Trail(t, c.inflight, Len(c.submitted), fresh) /\ Publishes(t) = DOMAIN t
    BY <1>2, PublishesTrail DEF Travelled, ClientTrail
  <2>2. transmitted' = t
    BY <1>1, <1>2
  <2> HIDE DEF t
  <2>3. Trail(transmitted', msgs_out', Len(submitted'), fresh)
        /\ Publishes(transmitted') = DOMAIN transmitted'
    BY <1>1, <2>1, <2>2
  <2>4. Up' => Behind(transmitted', msgs_out', Len(submitted'), Fresh')
    <3>1. Fresh' \in BOOLEAN
      BY DEF Fresh
    <3> QED  BY <1>2, <2>3, <3>1 DEF Trail, Behind, Clear
  <2> QED  BY <2>3, <2>4 DEF Travelled, Trail
<1>3. CASE ~Up
  BY <1>1, <1>3 DEF Travelled
<1> QED  BY <1>2, <1>3

\* The client at the start of a handler, with the list it starts from.
LEMMA StartTrail ==
  ASSUME Travelled, NEW c, c.sent = <<>>, NEW fresh,
         Trail(transmitted, c.inflight, Len(c.submitted), fresh)
  PROVE  ClientTrail(transmitted, c, fresh)
<1>1. transmitted \in Seq(ListPacket) /\ <<>> \in Seq(ListPacket)
  BY DEF Travelled
<1>2. transmitted \o <<>> = transmitted
  BY <1>1, ConcatEmptySeq
<1> QED  BY <1>1, <1>2 DEF ClientTrail

LEMMA UpTrail ==
  ASSUME Travelled, Up
  PROVE  Trail(transmitted, msgs_out, Len(submitted), Fresh)
BY DEF Travelled, Trail

\* The handlers of a CONNACK, after the reset and the callback: nothing of the
\* window has been sent again on this connection yet.
LEMMA ConnackTrail ==
  ASSUME AInv, Listed(msgs_out, Len(submitted), {}), Travelled, Incoming({"CONNACK"}),
         Up, NEW calls \in CallbackCalls
  PROVE  LET c1 == InCallback([Client EXCEPT !.inflight = ReconnectReset(@, TRUE),
                                             !.quota = QuotaAfterReset(msgs_out)], calls)
         IN /\ ClientOK(c1) /\ ClientListed(c1, {}) /\ c1 = FieldsOf(c1)
            /\ ClientTrail(transmitted, c1, TRUE)
<1> DEFINE c0 == [Client EXCEPT !.inflight = ReconnectReset(@, TRUE),
                                !.quota = QuotaAfterReset(msgs_out)]
<1>1. /\ ClientTypeOK /\ Traffic /\ msgs_out \in Seq(Message) /\ Len(submitted) \in Nat
      /\ inflight_quota \in 0..InflightMaximum /\ Window(msgs_out, inflight_quota, Up)
      /\ Answered(toClient)
  BY TrafficIs DEF AInv, IInv, ClientTypeOK
<1>2. c0 = [inflight |-> ReconnectReset(msgs_out, TRUE), quota |-> QuotaAfterReset(msgs_out),
            mid |-> last_mid, submitted |-> submitted, sent |-> <<>>]
  BY ClientWith DEF Client
<1>3. ClientOK(c0)
  BY <1>1, ResetIsOK
<1> HIDE DEF c0
<1>4. Listed(ReconnectReset(msgs_out, TRUE), Len(submitted), {})
  BY <1>1, ResetListed
<1>5. ClientListed(c0, {}) /\ c0 = FieldsOf(c0) /\ c0.sent = <<>> /\ c0.submitted = submitted
      /\ c0.inflight = ReconnectReset(msgs_out, TRUE)
  BY <1>2, <1>4 DEF ClientListed, FieldsOf
<1>6. Fresh = TRUE
  <2>1. Has(toClient, "CONNACK")
    BY <1>1, TailAnswered DEF Incoming
  <2> QED  BY <2>1 DEF Fresh
<1>7. Trail(transmitted, msgs_out, Len(submitted), TRUE)
  BY <1>6, UpTrail
<1>8. \A i \in 1..Len(msgs_out) : i > InflightMaximum => Held(msgs_out[i])
  <2> DEFINE up == Up
  <2>1. up /\ Window(msgs_out, inflight_quota, up)
    BY <1>1
  <2> HIDE DEF up
  <2> QED  BY ONLY <1>1, <2>1, WindowExact
<1>9. Trail(transmitted, ReconnectReset(msgs_out, TRUE), Len(submitted), TRUE)
  BY ONLY <1>1, <1>7, <1>8, ResetTrail
<1>10. ClientTrail(transmitted, c0, TRUE)
  BY <1>5, <1>9, StartTrail
<1>11. transmitted \in Seq(ListPacket) /\ {} \in SUBSET (0..Len(c0.submitted))
  BY DEF Travelled
<1>12. /\ ClientOK(InCallback(c0, calls)) /\ ClientListed(InCallback(c0, calls), {})
       /\ InCallback(c0, calls) = FieldsOf(InCallback(c0, calls))
  BY <1>3, <1>5, <1>11, InCallbackType, InCallbackListed, InCallbackFields
<1>13. ClientTrail(transmitted, InCallback(c0, calls), TRUE)
  BY <1>3, <1>5, <1>10, <1>11, InCallbackTrail
<1> QED  BY <1>12, <1>13 DEF c0

LEMMA ConnackTravelled ==
  ASSUME AInv, Listed(msgs_out, Len(submitted), {}), Travelled, HandleConnack
  PROVE  Travelled'
<1> DEFINE c0 == [Client EXCEPT !.inflight = ReconnectReset(@, TRUE),
                                !.quota = QuotaAfterReset(msgs_out)]
<1>1. PICK calls \in CallbackCalls :
        LET c1   == InCallback(c0, calls)
            sent == IF link = "up" THEN RetryPackets(c1.inflight) ELSE <<>>
        IN Become([c1 EXCEPT !.inflight = RetryMark(@), !.sent = @ \o sent])
  BY DEF HandleConnack
<1>2. /\ Incoming({"CONNACK"}) /\ Traffic /\ Up' = Up /\ toClient # <<>>
      /\ toClient' = Tail(toClient)
  BY DEF AInv, HandleConnack, Incoming, Up
<1> DEFINE c1   == InCallback(c0, calls)
           sent == IF link = "up" THEN RetryPackets(c1.inflight) ELSE <<>>
           c2   == [c1 EXCEPT !.inflight = RetryMark(@), !.sent = @ \o sent]
<1>3. Become(c2)
  BY <1>1
<1>4. CASE Up
  <2>1. /\ ClientOK(c1) /\ ClientListed(c1, {}) /\ c1 = FieldsOf(c1)
        /\ ClientTrail(transmitted, c1, TRUE)
    BY <1>2, <1>4, ConnackTrail
  <2>2. sent = RetryPackets(c1.inflight)
    BY <1>4 DEF Up
  <2> HIDE DEF c1, sent
  <2>3. /\ c2.inflight = RetryMark(c1.inflight) /\ c2.submitted = c1.submitted
        /\ c2.sent = c1.sent \o sent
    BY <2>1 DEF FieldsOf
  <2> HIDE DEF c2
  <2> DEFINE q == c1.inflight
             n == Len(c1.submitted)
             s == c1.sent
             w == transmitted \o s
  <2>4. q \in Seq(Message) /\ n \in Nat /\ Listed(q, n, {})
    BY <2>1, ClientTypes DEF ClientListed
  <2>5. transmitted \in Seq(ListPacket) /\ s \in Seq(ListPacket) /\ Trail(w, q, n, TRUE)
    BY <2>1 DEF ClientTrail, Travelled
  <2> HIDE DEF q, n, s
  <2>6. RetryPackets(q) \in Seq(ListPacket) /\ Trail(w \o RetryPackets(q), RetryMark(q), n, FALSE)
    <3> HIDE DEF w
    <3> QED  BY ONLY <2>4, <2>5, RetryTrail
  <2>7. w \o RetryPackets(q) = transmitted \o (s \o RetryPackets(q))
        /\ s \o RetryPackets(q) \in Seq(ListPacket)
    BY <2>5, <2>6, Regroup
  <2>8. ClientTrail(transmitted, c2, FALSE)
    BY <2>2, <2>3, <2>6, <2>7 DEF ClientTrail, q, n, s
  <2>9. c2.sent \in Seq(ListPacket)
    BY <2>8 DEF ClientTrail
  <2>10. ~Fresh'
    BY <1>2, <1>3, <1>4, <2>9, FreshAfter DEF c2
  <2> QED  BY <1>2, <1>3, <2>8, <2>10, BecomeTravelled DEF c2
<1>5. CASE ~Up
  <2> HIDE DEF c2
  <2>1. Up' => Up
    BY <1>2
  <2> QED  BY <1>3, <1>5, <2>1, BecomeTravelled
<1> QED  BY <1>4, <1>5

LEMMA RefusedTravelled ==
  ASSUME AInv, Listed(msgs_out, Len(submitted), {}), Travelled, HandleConnackRefused
  PROVE  Travelled'
<1> DEFINE c0 == [Client EXCEPT !.inflight = ReconnectReset(@, TRUE),
                                !.quota = QuotaAfterReset(msgs_out)]
<1>1. PICK calls \in CallbackCalls : Become(InCallback(c0, calls))
  BY DEF HandleConnackRefused
<1>2. Incoming({"CONNACK"}) /\ ~Up'
  BY DEF HandleConnackRefused, CloseLink, Up
<1> DEFINE c1 == InCallback(c0, calls)
<1>3. Up => ClientTrail(transmitted, c1, TRUE)
  BY <1>2, ConnackTrail
<1>4. Become(c1)
  BY <1>1
<1> HIDE DEF c1
<1> QED  BY <1>2, <1>3, <1>4, BecomeTravelled

LEMMA PublishTravelled ==
  ASSUME AInv, Listed(msgs_out, Len(submitted), {}), Travelled,
         NEW qos \in QosLevels, Publish(qos)
  PROVE  Travelled'
<1> DEFINE c == PublishCall(Client, qos, link = "up")
<1>1. Become(c) /\ Up' = Up /\ toClient' = toClient
  BY DEF Publish, connVars, Up
<1>2. /\ Traffic /\ ClientTypeOK /\ ClientOK(Client) /\ Client.sent = <<>>
      /\ Client.inflight = msgs_out /\ Client.submitted = submitted
      /\ ClientListed(Client, {}) /\ Fresh \in BOOLEAN /\ (link = "up") \in BOOLEAN
      /\ transmitted \in Seq(ListPacket)
  BY ClientIsOK DEF AInv, IInv, Client, ClientListed, Fresh, Travelled
<1>3. Up => ClientTrail(transmitted, c, Fresh)
  <2> SUFFICES ASSUME Up
               PROVE  ClientTrail(transmitted, c, Fresh)
    OBVIOUS
  <2>1. ClientTrail(transmitted, Client, Fresh)
    BY <1>2, UpTrail, StartTrail
  <2> QED  BY <1>2, <2>1, PublishCallTrail
<1> HIDE DEF c
<1>4. Up /\ Up' => (Fresh' => Fresh)
  <2>1. Up => c.sent \in Seq(ListPacket)
    BY <1>3 DEF ClientTrail
  <2> QED  BY <1>1, <1>2, <2>1, FreshAfter
<1> QED  BY <1>1, <1>2, <1>3, <1>4, BecomeTravelled

LEMMA PubackcompTravelled ==
  ASSUME AInv, Listed(msgs_out, Len(submitted), {}), Travelled, HandlePubackcomp
  PROVE  Travelled'
<1> DEFINE p  == Head(toClient)
           i  == FirstAt(msgs_out, p.mid)
           a0 == [Client EXCEPT !.quota = IncrementQuota(@),
                                !.inflight = MessageRemove(@, p.mid)]
<1>1. <<>> \in CallbackCalls
  BY DEF CallbackCalls
<1>2. PICK calls \in CallbackCalls :
        Become(Released(InCallback(a0, calls), link = "up"))
  BY <1>1 DEF HandlePubackcomp
<1> DEFINE a1 == InCallback(a0, calls)
           a2 == Released(a1, link = "up")
<1>3. /\ Traffic /\ ClientTypeOK /\ msgs_out \in Seq(Message) /\ Len(submitted) \in Nat
      /\ ClientOK(Client) /\ transmitted \in Seq(ListPacket)
  BY ClientIsOK DEF AInv, IInv, ClientTypeOK, Travelled
<1>4. /\ toClient # <<>> /\ Head(toClient).type \in {"PUBACK", "PUBREC", "PUBCOMP"}
      /\ Up' = Up
  BY DEF HandlePubackcomp, Incoming, connVars, Up
<1>5. Known(msgs_out, p.mid) /\ i \in 1..Len(msgs_out)
  BY <1>4, AckedFirst
<1>6. /\ MessageRemove(msgs_out, p.mid) \in Seq(Message)
      /\ IncrementQuota(inflight_quota) \in 0..InflightMaximum
      /\ MessageRemove(msgs_out, p.mid) = RemoveFrom(msgs_out, i)
  BY <1>3, <1>5, RemoveType, IncrementQuotaType DEF ClientTypeOK, MessageRemove
<1>7. /\ a0.inflight = RemoveFrom(msgs_out, i) /\ a0.submitted = submitted
      /\ a0.quota = IncrementQuota(inflight_quota) /\ a0.mid = last_mid /\ a0.sent = <<>>
  BY <1>6 DEF Client
<1> HIDE DEF a0, i, p
<1>8. ClientOK(a0)
  BY <1>3, <1>6, <1>7 DEF ClientOK, ClientTypeOK
<1>9. ClientListed(a0, {})
  BY <1>3, <1>5, <1>7, RemoveListed DEF ClientListed
<1>10. Fresh = FALSE
  BY <1>3, <1>4, NotFresh DEF Fresh
<1>11. ASSUME Up
       PROVE  ClientTrail(transmitted, a2, FALSE)
  <2>1. Trail(transmitted, msgs_out, Len(submitted), FALSE)
    BY <1>10, <1>11, UpTrail
  <2>2. Trail(transmitted, RemoveFrom(msgs_out, i), Len(submitted), FALSE)
    BY ONLY <1>3, <1>5, <2>1, RemoveTrail
  <2>3. ClientTrail(transmitted, a0, FALSE)
    BY <1>7, <2>2, StartTrail
  <2>4. {} \in SUBSET (0..Len(a0.submitted)) /\ FALSE \in BOOLEAN
    OBVIOUS
  <2>5. ClientOK(a1) /\ ClientListed(a1, {}) /\ ClientTrail(transmitted, a1, FALSE)
    BY <1>3, <1>8, <1>9, <2>3, <2>4, InCallbackType, InCallbackListed, InCallbackTrail
  <2> HIDE DEF a1
  <2> QED  BY <1>3, <2>5, ReleasedTrail
<1>12. Become(a2)
  BY <1>2
<1> HIDE DEF a2
<1>13. Up /\ Up' => ~Fresh'
  <2>1. Up => a2.sent \in Seq(ListPacket)
    BY <1>11 DEF ClientTrail
  <2>2. toClient' = Tail(toClient)
    BY DEF HandlePubackcomp
  <2> QED  BY <1>3, <1>4, <1>12, <2>1, <2>2, FreshAfter
<1> QED  BY <1>4, <1>11, <1>12, <1>13, BecomeTravelled

LEMMA PubrecTravelled ==
  ASSUME AInv, Travelled, HandlePubrec
  PROVE  Travelled'
<1> DEFINE mid == Head(toClient).mid
           i   == FirstAt(msgs_out, mid)
           r   == [msgs_out EXCEPT ![i].state = "wait_for_pubcomp"]
<1>1. /\ Traffic /\ msgs_out \in Seq(Message) /\ Len(submitted) \in Nat
      /\ Ordered(toBroker) /\ Answered(toClient)
      /\ toClient # <<>> /\ Head(toClient).type \in {"PUBACK", "PUBREC", "PUBCOMP"}
      /\ submitted' = submitted /\ transmitted' = transmitted
  BY TrafficIs DEF AInv, IInv, ClientTypeOK, HandlePubrec, Incoming
<1>2. CASE QosMatches(msgs_out, mid, 2) /\ Up
  <2>1. Known(msgs_out, mid) /\ i \in 1..Len(msgs_out)
    BY <1>1, AckedFirst
  <2>2. /\ msgs_out' = r /\ toClient' = Tail(toClient) /\ Up'
        /\ toBroker' = Append(toBroker, MidPacket("PUBREL", mid))
    BY <1>2, <2>1 DEF HandlePubrec, OutUpdate, Up
  <2>3. mid \in 1..MaxMid
    <3>1. Head(toClient) \in ClientPacket
      BY <1>1, TailAnswered
    <3> QED  BY <1>1, <3>1 DEF ClientPacket
  <2> HIDE DEF i, mid
  <2>4. ~Fresh /\ ~Fresh'
    <3>1. ~Has(toBroker, "CONNECT") /\ ~Fresh
      BY <1>1, <1>2, NotFresh
    <3>2. ~Has(Tail(toClient), "CONNACK")
      BY <1>1, TailAnswered
    <3> DEFINE p == MidPacket("PUBREL", mid)
    <3>3. p \in BrokerPacket /\ p.type # "CONNECT"
      BY <2>3 DEF MidPacket, BrokerPacket, ListPacket
    <3> HIDE DEF p
    <3>4. ~Has(Append(toBroker, p), "CONNECT")
      BY <1>1, <3>1, <3>3, AppendOrdered
    <3> QED  BY <2>2, <3>1, <3>2, <3>4 DEF Fresh, p
  <2>5. Trail(transmitted, msgs_out, Len(submitted), FALSE)
    <3>1. Fresh = FALSE
      BY <2>4 DEF Fresh
    <3> QED  BY <1>2, <3>1, UpTrail
  <2>6. Trail(transmitted, r, Len(submitted), FALSE)
    BY ONLY <1>1, <2>1, <2>5, UpdateTrail
  <2>7. Fresh' = FALSE
    BY <2>4 DEF Fresh
  <2> HIDE DEF r
  <2>8. Behind(transmitted', msgs_out', Len(submitted'), Fresh')
    BY <1>1, <2>2, <2>6, <2>7 DEF Trail
  <2> QED  BY <1>1, <2>8 DEF Travelled
<1>3. CASE ~(QosMatches(msgs_out, mid, 2) /\ Up)
  <2>1. ~Up'
    BY <1>3 DEF HandlePubrec, CloseLink, Up
  <2> QED  BY <1>1, <2>1, DownTravelled
<1> QED  BY <1>2, <1>3

\* The broker takes a CONNECT before it sends the CONNACK.
LEMMA BrokerTravelled ==
  ASSUME AInv, Travelled, Broker
  PROVE  Travelled'
<1>1. /\ Traffic /\ Ordered(toBroker) /\ Answered(toClient)
  BY TrafficIs DEF AInv
<1>2. /\ msgs_out' = msgs_out /\ submitted' = submitted /\ transmitted' = transmitted
      /\ Up' = Up /\ toBroker # <<>> /\ toBroker' = Tail(toBroker)
  BY DEF Broker, BrokerConnect, BrokerPublish, BrokerPubrel, BrokerHangUp, connVars,
         msgVars, Up
<1>3. ~Has(Tail(toBroker), "CONNECT") /\ (Has(toBroker, "CONNECT") <=> Head(toBroker).type = "CONNECT")
  BY <1>1, <1>2, TailOrdered
<1>4. ASSUME NEW p, Head(toBroker).type # "CONNECT" => p.type # "CONNACK", Reply(p), Up,
             Has(toClient', "CONNACK")
      PROVE  Has(toClient, "CONNACK") \/ Has(toBroker, "CONNECT")
  <2>1. toClient' = Append(toClient, p)
    BY <1>4 DEF Reply, Up
  <2>2. /\ Len(Append(toClient, p)) = Len(toClient) + 1 /\ Len(toClient) \in Nat
        /\ Append(toClient, p)[Len(toClient) + 1] = p
        /\ \A k \in 1..Len(toClient) : Append(toClient, p)[k] = toClient[k]
    BY <1>1 DEF Answered
  <2>3. PICK k \in 1..Len(Append(toClient, p)) : Append(toClient, p)[k].type = "CONNACK"
    BY <1>4, <2>1 DEF Has
  <2>4. k \in 1..Len(toClient) \/ k = Len(toClient) + 1
    BY <2>2
  <2> QED  BY <1>3, <1>4, <2>2, <2>3, <2>4 DEF Has
<1>5. toClient' = toClient
      \/ \E p : Reply(p) /\ (Head(toBroker).type # "CONNECT" => p.type # "CONNACK")
  <2>1. CASE BrokerConnect
    BY <2>1 DEF BrokerConnect
  <2>2. CASE BrokerPublish
    BY <2>2 DEF BrokerPublish, MidPacket
  <2>3. CASE BrokerPubrel
    BY <2>3 DEF BrokerPubrel, MidPacket
  <2>4. CASE BrokerHangUp
    BY <2>4 DEF BrokerHangUp
  <2> QED  BY <2>1, <2>2, <2>3, <2>4 DEF Broker
<1>6. CASE Up
  <2>1. Has(toClient', "CONNACK") => Has(toClient, "CONNACK") \/ Has(toBroker, "CONNECT")
    BY <1>4, <1>5, <1>6
  <2>2. Fresh' => Fresh
    BY <1>2, <1>3, <1>6, <2>1 DEF Fresh
  <2>3. Behind(transmitted, msgs_out, Len(submitted), Fresh) /\ Fresh' \in BOOLEAN
    BY <1>6 DEF Travelled, Fresh
  <2>4. Behind(transmitted, msgs_out, Len(submitted), Fresh')
    BY <2>2, <2>3 DEF Behind, Clear
  <2> QED  BY <1>2, <2>4 DEF Travelled
<1>7. CASE ~Up
  BY <1>2, <1>7, DownTravelled
<1> QED  BY <1>6, <1>7

LEMMA TravelledStep ==
  ASSUME AInv, Listed(msgs_out, Len(submitted), {}), Travelled, [Next]_vars
  PROVE  Travelled'
<1>1. CASE \E qos \in QosLevels : Publish(qos)
  BY <1>1, PublishTravelled
<1>2. CASE Reconnect \/ ReconnectFails \/ ConnectAgain
  <2>1. transmitted' = <<>>
    BY <1>2 DEF Reconnect, ReconnectFails, ConnectAgain, ResetForReconnect
  <2> QED  BY <2>1, NothingTravelled
<1>3. CASE \/ Disconnect \/ Refuse \/ HandlePubackcompMismatch \/ DetectLoss \/ BreakLink
  <2>1. transmitted' = transmitted /\ ~Up'
    BY <1>3 DEF Disconnect, Refuse, HandlePubackcompMismatch, DetectLoss, BreakLink,
                CloseLink, Up
  <2> QED  BY <2>1, DownTravelled
<1>4. CASE Quiescent \/ UNCHANGED vars
  BY <1>4 DEF Quiescent, vars, Travelled, Fresh, Up
<1> QED
  BY <1>1, <1>2, <1>3, <1>4, ConnackTravelled, RefusedTravelled, PubackcompTravelled,
     PubrecTravelled, BrokerTravelled DEF Next, Application, HandlePacket

\* A PUBLISH travels at most once on a connection, and those sent for the first
\* time, like those sent again, keep the order of the mosquitto_publish calls:
\* a callback that publishes while the CONNACK is handled, the retry after it
\* and the release of held messages never send one message twice or past another.
THEOREM SentInOrder == Spec => []OrderKept
<1> DEFINE L == Listed(msgs_out, Len(submitted), {})
<1>1. Init => Travelled
  BY DEF Init, Travelled, Publishes, InOrder, Up
<1>2. AInv /\ L /\ Travelled /\ [Next]_vars => Travelled'
  BY TravelledStep
<1>3. Travelled => OrderKept
  BY DEF Travelled, InOrder, Follows, OrderKept
<1> HIDE DEF L
<1>4. Spec => [](AInv /\ L)
  BY ListedInvariant DEF L
<1> QED  BY <1>1, <1>2, <1>3, <1>4, PTL DEF Spec

-----------------------------------------------------------------------------
(***************************************************************************)
(* Delivery.  What the list says of a message, in the set of its entries:  *)
(* most operations leave that set as it is.                                *)
(***************************************************************************)
Entry(m) == [id |-> m.id, mid |-> m.mid, qos |-> m.qos, past |-> PastPubrec(m)]

Entries(q) == {Entry(q[i]) : i \in 1..Len(q)}

\* The entry once its PUBREC is handled.
Passed(e) == [id |-> e.id, mid |-> e.mid, qos |-> e.qos, past |-> TRUE]

Apart(A) == \A e, f \in A : e.id = f.id \/ e.mid = f.mid => e = f

\* p is about a message of the list, in the part of its flow it is in.
Carries(p, A) ==
  \/ p.type = "PUBREL" /\ \E e \in A : e.mid = p.mid /\ e.past
  \/ /\ p.type = "PUBLISH" /\ p.qos > 0
     /\ \E e \in A : e.id = p.id /\ e.mid = p.mid /\ e.qos = p.qos /\ ~e.past

AllCarry(s, A) == s \in Seq(ListPacket) /\ \A i \in 1..Len(s) : Carries(s[i], A)

LEMMA EntriesSame ==
  ASSUME NEW q, NEW r, Len(r) = Len(q), \A i \in 1..Len(q) : Entry(r[i]) = Entry(q[i])
  PROVE  Entries(r) = Entries(q)
BY DEF Entries

LEMMA HeldEntry ==
  ASSUME NEW m \in Message, Held(m)
  PROVE  Entry(m).past = FALSE /\ Entry(Waiting(m)) = Entry(m)
<1>1. m.qos \in {1, 2} /\ ~PastPubrec(m) /\ m.state = "invalid"
  BY DEF Message, Held, PastPubrec
<1>2. Waiting(m).id = m.id /\ Waiting(m).mid = m.mid /\ Waiting(m).qos = m.qos
      /\ Waiting(m).state \in {"wait_for_puback", "wait_for_pubrec"}
  BY DEF Message, Waiting
<1>3. ~PastPubrec(Waiting(m))
  BY <1>2 DEF PastPubrec
<1>4. PastPubrec(m) = PastPubrec(Waiting(m)) /\ PastPubrec(m) = FALSE
  BY <1>1, <1>3 DEF PastPubrec
<1> QED  BY <1>2, <1>4 DEF Entry

LEMMA PublishCarries ==
  ASSUME NEW m \in Message, ~PastPubrec(m), NEW A, Entry(m) \in A, NEW d \in BOOLEAN
  PROVE  /\ Carries(PublishPacket(m), A)
         /\ Carries(PublishPacket([m EXCEPT !.dup = d]), A)
<1>1. /\ Entry(m).id = m.id /\ Entry(m).mid = m.mid /\ Entry(m).qos = m.qos
      /\ ~Entry(m).past /\ m.qos > 0
  BY DEF Entry, Message
<1>2. LET p == PublishPacket(m)
      IN p.type = "PUBLISH" /\ p.id = m.id /\ p.mid = m.mid /\ p.qos = m.qos
  BY DEF PublishPacket
<1>3. LET p == PublishPacket([m EXCEPT !.dup = d])
      IN p.type = "PUBLISH" /\ p.id = m.id /\ p.mid = m.mid /\ p.qos = m.qos
  BY DEF PublishPacket, Message
<1> QED  BY <1>1, <1>2, <1>3 DEF Carries

\* What message__release_to_inflight sends is about messages of the list.
LEMMA ReleaseCarries ==
  ASSUME NEW q \in Seq(Message), NEW quota \in Nat, NEW ok \in BOOLEAN
  PROVE  LET r == ReleaseToInflight(q, quota, ok)
         IN Entries(r.inflight) = Entries(q) /\ AllCarry(r.sent, Entries(q))
<1> DEFINE R == ReleasedSet(q, quota, ok)
           s == [i \in DOMAIN q |-> PublishPacket(q[i])]
           r == ReleaseToInflight(q, quota, ok)
<1>1. R \in SUBSET (1..Len(q)) /\ \A i \in R : Held(q[i])
  BY ReleasedFacts
<1>2. r.inflight = MoveToInflight(q, R) /\ r.sent = IF ok THEN Sublist(s, R) ELSE <<>>
  BY DEF ReleaseToInflight
<1>3. \A i \in 1..Len(q) : q[i] \in Message /\ Entry(q[i]) \in Entries(q)
  BY DEF Entries
<1> HIDE DEF R, r
<1>4. Entries(MoveToInflight(q, R)) = Entries(q)
  <2> DEFINE m == MoveToInflight(q, R)
  <2>1. Len(m) = Len(q) /\ \A i \in 1..Len(q) : m[i] = IF i \in R THEN Waiting(q[i]) ELSE q[i]
    BY <1>1, MoveFacts
  <2> HIDE DEF m
  <2>2. \A i \in 1..Len(q) : Entry(m[i]) = Entry(q[i])
    BY <1>1, <1>3, <2>1, HeldEntry
  <2>3. Entries(m) = Entries(q)
    BY <2>1, <2>2, EntriesSame
  <2> QED  BY <2>3 DEF m
<1>5. AllCarry(Sublist(s, R), Entries(q))
  <2>1. s \in Seq(ListPacket) /\ Len(s) = Len(q) /\ \A i \in 1..Len(q) : s[i] = PublishPacket(q[i])
    <3>0. DOMAIN q = 1..Len(q) /\ \A i \in 1..Len(q) : q[i] \in Message
      OBVIOUS
    <3>1. \A i \in 1..Len(q) : s[i] = PublishPacket(q[i]) /\ s[i] \in ListPacket
      BY ONLY <3>0, PacketTypes
    <3>2. s = [i \in 1..Len(q) |-> s[i]]
      OBVIOUS
    <3> HIDE DEF s
    <3> QED  BY <3>1, <3>2
  <2> HIDE DEF s
  <2>2. /\ Sublist(s, R) \in Seq(ListPacket) /\ Len(Sublist(s, R)) = Cardinality(R)
        /\ \A n \in 1..Cardinality(R) : Nth(R, n) \in R /\ Sublist(s, R)[n] = s[Nth(R, n)]
    BY <1>1, <2>1, SublistFacts
  <2>3. \A i \in R : Carries(s[i], Entries(q))
    <3> SUFFICES ASSUME NEW i \in R
                 PROVE  Carries(s[i], Entries(q))
      OBVIOUS
    <3>1. q[i] \in Message /\ Entry(q[i]) \in Entries(q) /\ ~PastPubrec(q[i])
          /\ s[i] = PublishPacket(q[i])
      BY <1>1, <1>3, <2>1 DEF Held, PastPubrec
    <3> QED  BY <3>1, PublishCarries
  <2> QED  BY <2>2, <2>3 DEF AllCarry
<1>6. AllCarry(<<>>, Entries(q))
  BY DEF AllCarry
<1> QED  BY <1>2, <1>4, <1>5, <1>6 DEF r

\* The entries once m is in the list, too.
With(A, m) == A \cup {Entry(m)}

LEMMA QueueCarries ==
  ASSUME NEW q \in Seq(Message), NEW quota \in Nat, NEW ok \in BOOLEAN, NEW m \in Message
  PROVE  LET r == MessageQueue(q, quota, m, ok)
         IN /\ Entries(r.inflight) = With(Entries(q), m)
            /\ AllCarry(r.sent, With(Entries(q), m))
<1> DEFINE a == Append(q, m)
<1>1. /\ a \in Seq(Message) /\ Len(a) = Len(q) + 1 /\ Len(q) \in Nat
      /\ a[Len(q) + 1] = m /\ \A i \in 1..Len(q) : a[i] = q[i]
      /\ \A i \in 1..Len(a) : i \in 1..Len(q) \/ i = Len(q) + 1
      /\ \A i \in 1..Len(q) : i \in 1..Len(a)
      /\ Len(q) + 1 \in 1..Len(a)
  OBVIOUS
<1>2. MessageQueue(q, quota, m, ok) = ReleaseToInflight(a, quota, ok)
  BY DEF MessageQueue
<1> HIDE DEF a
<1>3. Entries(a) = With(Entries(q), m)
  BY <1>1 DEF Entries, With
<1>4. LET r == ReleaseToInflight(a, quota, ok)
      IN Entries(r.inflight) = Entries(a) /\ AllCarry(r.sent, Entries(a))
  BY <1>1, ReleaseCarries
<1> QED  BY <1>2, <1>3, <1>4

\* message__reconnect_reset keeps every message on its side of the PUBREC.
LEMMA ResetEntries ==
  ASSUME NEW q \in Seq(Message), NEW b \in BOOLEAN, NEW n, NEW D, Listed(q, n, D)
  PROVE  Entries(ReconnectReset(q, b)) = Entries(q)
<1> DEFINE r == ReconnectReset(q, b)
<1>0. r = [i \in 1..Len(q) |->
             IF i > InflightMaximum THEN [q[i] EXCEPT !.state = "invalid"]
             ELSE IF b THEN q[i] ELSE [q[i] EXCEPT !.state = ResendState(q[i])]]
  <2>1. DOMAIN q = 1..Len(q)
    OBVIOUS
  <2> QED  BY <2>1 DEF ReconnectReset
<1>1. Len(r) = Len(q)
  BY DEF ReconnectReset
<1>2. ASSUME NEW i \in 1..Len(q)
      PROVE  Entry(r[i]) = Entry(q[i])
  <2>1. q[i] \in Message /\ Fits(q[i], i, n, D)
    BY DEF Listed
  <2>2. /\ i > InflightMaximum => ~PastPubrec(q[i])
        /\ PastPubrec(q[i]) => q[i].qos = 2
    BY <2>1 DEF Fits, MustRelAgain, PastPubrec
  <2>3. r[i] = IF i > InflightMaximum THEN [q[i] EXCEPT !.state = "invalid"]
               ELSE IF b THEN q[i] ELSE [q[i] EXCEPT !.state = ResendState(q[i])]
    <3> HIDE DEF r
    <3> QED  BY <1>0
  <2> HIDE DEF r
  <2>4. ASSUME NEW s \in MsgStates, s \in {"wait_for_pubcomp", "resend_pubrel"} <=> PastPubrec(q[i])
        PROVE  Entry([q[i] EXCEPT !.state = s]) = Entry(q[i])
    <3>1. [q[i] EXCEPT !.state = s] = [id |-> q[i].id, mid |-> q[i].mid, qos |-> q[i].qos,
                                       state |-> s, dup |-> q[i].dup]
      BY <2>1 DEF Message
    <3>2. PastPubrec([q[i] EXCEPT !.state = s]) = PastPubrec(q[i])
      BY <2>4, <3>1 DEF PastPubrec
    <3> QED  BY <3>1, <3>2 DEF Entry
  <2>5. CASE i > InflightMaximum
    <3>1. "invalid" \in MsgStates /\ "invalid" \notin {"wait_for_pubcomp", "resend_pubrel"}
      BY DEF MsgStates
    <3> QED  BY <2>2, <2>3, <2>4, <2>5, <3>1
  <2>6. CASE ~(i > InflightMaximum)
    <3>1. ResendState(q[i]) \in MsgStates
          /\ (ResendState(q[i]) \in {"wait_for_pubcomp", "resend_pubrel"} <=> PastPubrec(q[i]))
      BY <2>1, <2>2 DEF ResendState, Message, MsgStates, PastPubrec
    <3>2. Entry([q[i] EXCEPT !.state = ResendState(q[i])]) = Entry(q[i])
      BY <2>4, <3>1
    <3> QED  BY <2>3, <2>6, <3>2
  <2> QED  BY <2>5, <2>6
<1> QED  BY <1>1, <1>2, EntriesSame

\* So does message__retry_check, and it sends what the side asks for.
LEMMA RetryCarries ==
  ASSUME NEW q \in Seq(Message)
  PROVE  Entries(RetryMark(q)) = Entries(q) /\ AllCarry(RetryPackets(q), Entries(q))
<1> DEFINE r == RetryMark(q)
           s == [i \in DOMAIN q |->
                   IF MustPublishAgain(q[i]) THEN PublishPacket([q[i] EXCEPT !.dup = TRUE])
                   ELSE MidPacket("PUBREL", q[i].mid)]
           I == {i \in DOMAIN q : MustPublishAgain(q[i]) \/ MustRelAgain(q[i])}
<1>1. \A i \in 1..Len(q) : q[i] \in Message /\ Entry(q[i]) \in Entries(q)
  BY DEF Entries
<1>2. Len(r) = Len(q) /\ \A i \in 1..Len(q) : r[i] = q[i] \/ r[i] = [q[i] EXCEPT !.dup = TRUE]
  <2>1. r = [i \in 1..Len(q) |->
               IF MustPublishAgain(q[i]) \/ MustRelAgain(q[i])
               THEN [q[i] EXCEPT !.dup = TRUE] ELSE q[i]]
    <3>1. DOMAIN q = 1..Len(q)
      OBVIOUS
    <3> QED  BY <3>1 DEF RetryMark
  <2>2. Len(r) = Len(q)
    BY RetryFacts
  <2> HIDE DEF r
  <2> QED  BY <2>1, <2>2
<1> HIDE DEF r
<1>3. ASSUME NEW i \in 1..Len(q)
      PROVE  Entry(r[i]) = Entry(q[i])
  <2> DEFINE m == [q[i] EXCEPT !.dup = TRUE]
  <2>1. m.id = q[i].id /\ m.mid = q[i].mid /\ m.qos = q[i].qos /\ m.state = q[i].state
    BY <1>1 DEF Message
  <2> HIDE DEF m
  <2>2. PastPubrec(m) = PastPubrec(q[i])
    BY <2>1 DEF PastPubrec
  <2>3. Entry(m) = Entry(q[i])
    BY <2>1, <2>2 DEF Entry
  <2> QED  BY <1>2, <2>3 DEF m
<1>4. Entries(r) = Entries(q)
  BY <1>2, <1>3, EntriesSame
<1>5. s \in Seq(ListPacket) /\ Len(s) = Len(q) /\ I \in SUBSET (1..Len(q))
      /\ RetryPackets(q) = Sublist(s, I)
  <2>0. DOMAIN q = 1..Len(q) /\ \A i \in 1..Len(q) : q[i] \in Message
    OBVIOUS
  <2>1. \A i \in 1..Len(q) : s[i] \in ListPacket
    BY ONLY <2>0, PacketTypes
  <2>2. s = [i \in 1..Len(q) |-> s[i]] /\ I \in SUBSET (1..Len(q))
    OBVIOUS
  <2>3. RetryPackets(q) = Sublist(s, I)
    BY DEF RetryPackets
  <2> HIDE DEF s, I
  <2> QED  BY <2>1, <2>2, <2>3
<1>6. ASSUME NEW i \in I
      PROVE  Carries(s[i], Entries(q))
  <2>1. i \in 1..Len(q) /\ q[i] \in Message /\ Entry(q[i]) \in Entries(q)
    BY <1>1
  <2>2. CASE MustPublishAgain(q[i])
    <3>1. ~PastPubrec(q[i]) /\ s[i] = PublishPacket([q[i] EXCEPT !.dup = TRUE])
      BY <2>1, <2>2 DEF MustPublishAgain, PastPubrec
    <3> HIDE DEF s, I
    <3> QED  BY <2>1, <3>1, PublishCarries
  <2>3. CASE ~MustPublishAgain(q[i])
    <3>1. PastPubrec(q[i]) /\ s[i] = MidPacket("PUBREL", q[i].mid)
      BY <2>1, <2>3 DEF MustRelAgain, PastPubrec
    <3>2. Entry(q[i]).mid = q[i].mid /\ Entry(q[i]).past
      BY <3>1 DEF Entry
    <3>3. s[i].type = "PUBREL" /\ s[i].mid = q[i].mid
      BY <3>1 DEF MidPacket
    <3> HIDE DEF s, I
    <3> QED  BY <2>1, <3>2, <3>3 DEF Carries
  <2> QED  BY <2>2, <2>3
<1> HIDE DEF s, I
<1>7. /\ Sublist(s, I) \in Seq(ListPacket) /\ Len(Sublist(s, I)) = Cardinality(I)
      /\ \A n \in 1..Cardinality(I) : Nth(I, n) \in I /\ Sublist(s, I)[n] = s[Nth(I, n)]
  BY <1>5, SublistFacts
<1> QED  BY <1>4, <1>5, <1>6, <1>7 DEF AllCarry, r

MidsDiffer(q) == \A i, j \in 1..Len(q) : q[i].mid = q[j].mid => i = j

LEMMA NumberedDiffer ==
  ASSUME NEW q \in Seq(Message), Numbered(q), NEW i \in 1..Len(q), NEW j \in 1..Len(q),
         q[i].id = q[j].id
  PROVE  i = j
<1>1. q[i].id \in Nat /\ q[j].id \in Nat
  <2>1. q[i] \in Message /\ q[j] \in Message
    OBVIOUS
  <2> QED  BY <2>1 DEF Message
<1>2. i \in Nat /\ j \in Nat
  OBVIOUS
<1>3. ~(i < j) /\ ~(j < i)
  BY <1>1 DEF Numbered
<1> QED  BY <1>2, <1>3

LEMMA EntriesApart ==
  ASSUME NEW q \in Seq(Message), Numbered(q), MidsDiffer(q)
  PROVE  Apart(Entries(q))
<1> SUFFICES ASSUME NEW i \in 1..Len(q), NEW j \in 1..Len(q),
                    q[i].id = q[j].id \/ q[i].mid = q[j].mid
             PROVE  i = j
  BY DEF Apart, Entries, Entry
<1> QED  BY NumberedDiffer DEF MidsDiffer

LEMMA RemoveEntries ==
  ASSUME NEW q \in Seq(Message), NEW f \in 1..Len(q), Numbered(q)
  PROVE  Entries(RemoveFrom(q, f)) = Entries(q) \ {Entry(q[f])}
<1> DEFINE r == RemoveFrom(q, f)
<1>1. /\ Len(r) = Len(q) - 1 /\ Len(q) \in Nat /\ f \in Nat
      /\ \A j \in 1..(Len(q) - 1) : r[j] = IF j < f THEN q[j] ELSE q[j + 1]
  BY DEF RemoveFrom
<1> HIDE DEF r
<1>2. \A i \in 1..Len(q) : i # f => Entry(q[i]) # Entry(q[f])
  <2>1. \A i \in 1..Len(q) : Entry(q[i]) = Entry(q[f]) => q[i].id = q[f].id
    BY DEF Entry
  <2> QED  BY <2>1, NumberedDiffer
<1>3. ASSUME NEW j \in 1..Len(r)
      PROVE  \E i \in 1..Len(q) : i # f /\ r[j] = q[i]
  <2>1. CASE j < f
    BY <1>1, <2>1
  <2>2. CASE ~(j < f)
    <3>1. j + 1 \in 1..Len(q) /\ j + 1 # f /\ r[j] = q[j + 1]
      BY <1>1, <2>2
    <3> QED  BY <3>1
  <2> QED  BY <2>1, <2>2
<1>4. ASSUME NEW i \in 1..Len(q), i # f
      PROVE  \E j \in 1..Len(r) : r[j] = q[i]
  <2>1. CASE i < f
    <3>1. i \in 1..Len(r) /\ r[i] = q[i]
      BY <1>1, <2>1
    <3> QED  BY <3>1
  <2>2. CASE ~(i < f)
    <3>1. i - 1 \in 1..Len(r) /\ ~(i - 1 < f) /\ (i - 1) + 1 = i
      BY <1>1, <1>4, <2>2
    <3>2. r[i - 1] = q[i]
      BY <1>1, <3>1
    <3> QED  BY <3>1, <3>2
  <2> QED  BY <2>1, <2>2
<1>5. Entries(r) = Entries(q) \ {Entry(q[f])}
  <2>1. ASSUME NEW e \in Entries(r)
        PROVE  e \in Entries(q) \ {Entry(q[f])}
    <3>1. PICK j \in 1..Len(r) : e = Entry(r[j])
      BY DEF Entries
    <3>2. PICK i \in 1..Len(q) : i # f /\ r[j] = q[i]
      BY <1>3
    <3> QED  BY <1>2, <3>1, <3>2 DEF Entries
  <2>2. ASSUME NEW e \in Entries(q) \ {Entry(q[f])}
        PROVE  e \in Entries(r)
    <3>1. PICK i \in 1..Len(q) : e = Entry(q[i])
      BY DEF Entries
    <3>2. PICK j \in 1..Len(r) : r[j] = q[i]
      BY <1>4, <3>1
    <3> QED  BY <3>1, <3>2 DEF Entries
  <2> QED  BY <2>1, <2>2
<1> QED  BY <1>5 DEF r

LEMMA UpdateEntries ==
  ASSUME NEW q \in Seq(Message), NEW i \in 1..Len(q), Numbered(q)
  PROVE  Entries([q EXCEPT ![i].state = "wait_for_pubcomp"])
           = (Entries(q) \ {Entry(q[i])}) \cup {Passed(Entry(q[i]))}
<1> DEFINE r == [q EXCEPT ![i].state = "wait_for_pubcomp"]
<1>1. /\ Len(r) = Len(q) /\ r[i] = [q[i] EXCEPT !.state = "wait_for_pubcomp"]
      /\ \A j \in 1..Len(q) : j # i => r[j] = q[j]
  OBVIOUS
<1> HIDE DEF r
<1>2. Entry(r[i]) = Passed(Entry(q[i]))
  <2>1. q[i] \in Message
    OBVIOUS
  <2>2. r[i].id = q[i].id /\ r[i].mid = q[i].mid /\ r[i].qos = q[i].qos
        /\ r[i].state = "wait_for_pubcomp"
    BY <1>1, <2>1 DEF Message
  <2>3. PastPubrec(r[i]) = TRUE
    BY <2>2 DEF PastPubrec
  <2>4. Entry(r[i]) = [id |-> q[i].id, mid |-> q[i].mid, qos |-> q[i].qos, past |-> TRUE]
    BY <2>2, <2>3 DEF Entry
  <2> QED  BY <2>4 DEF Entry, Passed
<1>3. \A j \in 1..Len(q) : j # i => Entry(q[j]) # Entry(q[i])
  <2>1. \A j \in 1..Len(q) : Entry(q[j]) = Entry(q[i]) => q[j].id = q[i].id
    BY DEF Entry
  <2> QED  BY <2>1, NumberedDiffer
<1>4. Entries(r) = (Entries(q) \ {Entry(q[i])}) \cup {Entry(r[i])}
  BY <1>1, <1>3 DEF Entries
<1> QED  BY <1>2, <1>4 DEF r

-----------------------------------------------------------------------------
(***************************************************************************)
(* What the client, the packets on their way and the broker know together. *)
(* A is the set of entries of the list, b and w.back the packets on their  *)
(* way, sub the QoS of the messages submitted so far.                      *)
(***************************************************************************)
\* A message of the list is not reported yet.  Once past its PUBREC it has been
\* passed on; before, a broker that passed it on and keeps its session knows.
Kept(e, sub, w) ==
  /\ e.id \in 1..Len(sub) /\ sub[e.id] = e.qos /\ e.qos \in {1, 2} /\ e.id \notin w.acked
  /\ e.past => e.qos = 2 /\ w.delivered[e.id] > 0
  /\ ~w.clean /\ e.qos = 2 /\ ~e.past /\ w.delivered[e.id] > 0 => e.mid \in w.stored

QosZero(p) == p.type = "PUBLISH" /\ p.qos = 0

\* A packet on its way to the broker is about a message of the list, or it is a
\* QoS 0 message that has not been passed on.
Backed(p, A, sub, w) ==
  \/ p.type \in {"CONNECT", "DISCONNECT"}
  \/ Carries(p, A)
  \/ QosZero(p) /\ p.id \in 1..Len(sub) /\ sub[p.id] = 0 /\ w.delivered[p.id] = 0

Backs(A, b, sub, w) ==
  /\ \A i \in 1..Len(b) : Backed(b[i], A, sub, w)
  /\ \A i, j \in 1..Len(b) : i < j /\ QosZero(b[i]) /\ QosZero(b[j]) => b[i].id # b[j].id

\* An answer on its way to the client is about a message of the list that has
\* been passed on; a PUBCOMP about one that the broker does not store any more.
Earned(p, A, w) ==
  p.type # "CONNACK" =>
    \E e \in A : /\ e.mid = p.mid /\ w.delivered[e.id] > 0
                 /\ p.type = "PUBCOMP" => p.mid \notin w.stored

StoredFor(mid, A, w) == \E e \in A : e.mid = mid /\ e.qos = 2 /\ w.delivered[e.id] > 0

Histories(sub, w) ==
  /\ \A id \in 1..MaxPublish : id > Len(sub) => w.delivered[id] = 0
  /\ \A id \in w.acked : id \in 1..Len(sub) /\ sub[id] > 0

ToldTypes(b, sub, w) ==
  /\ b \in Seq(BrokerPacket) /\ w.back \in Seq(ClientPacket)
  /\ sub \in Seq(QosLevels) /\ Len(sub) <= MaxPublish
  /\ w.delivered \in [1..MaxPublish -> Nat]

Told(A, b, sub, w) ==
  /\ ToldTypes(b, sub, w)
  /\ \A e \in A : Kept(e, sub, w)
  /\ Backs(A, b, sub, w)
  /\ \A i \in 1..Len(w.back) : Earned(w.back[i], A, w)
  /\ \A mid \in w.stored : StoredFor(mid, A, w)
  /\ Histories(sub, w)

-----------------------------------------------------------------------------
LEMMA AppendSub ==
  ASSUME NEW sub \in Seq(QosLevels), NEW qos \in QosLevels
  PROVE  /\ Append(sub, qos) \in Seq(QosLevels) /\ Len(Append(sub, qos)) = Len(sub) + 1
         /\ Len(sub) \in Nat /\ Append(sub, qos)[Len(sub) + 1] = qos
         /\ Len(sub) + 1 \in 1..Len(Append(sub, qos))
         /\ \A id \in 1..Len(sub) : id \in 1..Len(Append(sub, qos)) /\ Append(sub, qos)[id] = sub[id]
OBVIOUS

\* More messages, in the list or submitted, leave true what was.
LEMMA ToldGrows ==
  ASSUME NEW A, NEW B, NEW b, NEW sub, NEW qos \in QosLevels, NEW w, Told(A, b, sub, w),
         Len(sub) < MaxPublish, A \subseteq B,
         \A e \in B \ A : /\ e.id = Len(sub) + 1 /\ e.qos = qos /\ ~e.past /\ qos \in {1, 2}
  PROVE  Told(B, b, Append(sub, qos), w)
<1> DEFINE s == Append(sub, qos)
           n == Len(sub)
<1>1. /\ b \in Seq(BrokerPacket) /\ w.back \in Seq(ClientPacket) /\ sub \in Seq(QosLevels)
      /\ w.delivered \in [1..MaxPublish -> Nat]
  BY DEF Told, ToldTypes
<1>2. /\ s \in Seq(QosLevels) /\ Len(s) = n + 1 /\ n \in Nat /\ s[n + 1] = qos
      /\ n + 1 \in 1..Len(s) /\ \A id \in 1..n : id \in 1..Len(s) /\ s[id] = sub[id]
  BY <1>1, AppendSub
<1>3. MaxPublish \in Nat /\ n < MaxPublish
  BY BoundsAssumption
<1>4. /\ \A e \in A : Kept(e, sub, w)
      /\ Backs(A, b, sub, w)
      /\ \A i \in 1..Len(w.back) : Earned(w.back[i], A, w)
      /\ \A mid \in w.stored : StoredFor(mid, A, w)
      /\ \A id \in 1..MaxPublish : id > n => w.delivered[id] = 0
      /\ \A id \in w.acked : id \in 1..n /\ sub[id] > 0
  BY DEF Told, Histories
<1>5. \A e \in B \ A : e.id = n + 1 /\ e.qos = qos /\ ~e.past /\ qos \in {1, 2}
  OBVIOUS
<1> HIDE DEF s, n
<1>6. ToldTypes(b, s, w)
  BY <1>1, <1>2, <1>3 DEF ToldTypes
<1>7. ASSUME NEW e \in B
      PROVE  Kept(e, s, w)
  <2>1. CASE e \in A
    <3>1. Kept(e, sub, w)
      BY <1>4, <2>1
    <3>2. e.id \in 1..n
      BY <3>1 DEF Kept, n
    <3>3. e.id \in 1..Len(s) /\ s[e.id] = sub[e.id]
      BY <1>2, <3>2
    <3> QED  BY ONLY <3>1, <3>3 DEF Kept
  <2>2. CASE e \notin A
    <3>1. e.id = n + 1 /\ e.qos = qos /\ ~e.past /\ qos \in {1, 2}
      BY <1>5, <2>2
    <3>2. n + 1 \in 1..MaxPublish /\ n + 1 > n /\ n + 1 \notin 1..n
      BY <1>2, <1>3
    <3>3. w.delivered[n + 1] = 0 /\ n + 1 \notin w.acked
      BY <1>4, <3>2
    <3> QED  BY <1>2, <3>1, <3>3 DEF Kept
  <2> QED  BY <2>1, <2>2
<1>8. Backs(B, b, s, w)
  <2>1. ASSUME NEW p, Backed(p, A, sub, w)
        PROVE  Backed(p, B, s, w)
    <3>1. CASE Carries(p, A)
      BY <3>1 DEF Carries, Backed
    <3>2. CASE QosZero(p) /\ p.id \in 1..Len(sub) /\ sub[p.id] = 0 /\ w.delivered[p.id] = 0
      <4>1. p.id \in 1..Len(s) /\ s[p.id] = sub[p.id]
        BY <1>2, <3>2 DEF n
      <4> QED  BY <3>2, <4>1 DEF Backed
    <3> QED  BY <2>1, <3>1, <3>2 DEF Backed
  <2>2. /\ \A i \in 1..Len(b) : Backed(b[i], A, sub, w)
        /\ \A i, j \in 1..Len(b) : i < j /\ QosZero(b[i]) /\ QosZero(b[j]) => b[i].id # b[j].id
    BY <1>4 DEF Backs
  <2> QED  BY <2>1, <2>2 DEF Backs
<1>9. /\ \A i \in 1..Len(w.back) : Earned(w.back[i], B, w)
      /\ \A mid \in w.stored : StoredFor(mid, B, w)
  BY <1>4 DEF Earned, StoredFor
<1>10. Histories(s, w)
  BY <1>2, <1>4 DEF Histories
<1> QED  BY <1>6, <1>7, <1>8, <1>9, <1>10 DEF Told, s

\* Packets about messages of the list may be sent at any time.
LEMMA ToldSends ==
  ASSUME NEW A, NEW b, NEW sub, NEW w, Told(A, b, sub, w), NEW s, AllCarry(s, A)
  PROVE  Told(A, b \o s, sub, w)
<1>1. b \in Seq(BrokerPacket) /\ s \in Seq(BrokerPacket) /\ s \in Seq(ListPacket)
  BY DEF Told, ToldTypes, AllCarry, BrokerPacket
<1>2. /\ b \o s \in Seq(BrokerPacket)
      /\ \A i \in 1..Len(b \o s) :
           \/ i \in 1..Len(b) /\ (b \o s)[i] = b[i]
           \/ i - Len(b) \in 1..Len(s) /\ (b \o s)[i] = s[i - Len(b)]
  BY <1>1, ConcatFacts
<1>3. \A i \in 1..Len(s) : Carries(s[i], A) /\ ~QosZero(s[i])
  BY DEF AllCarry, Carries, QosZero
<1>4. \A i \in 1..Len(b) : Backed(b[i], A, sub, w)
  BY DEF Told, Backs
<1>5. \A i \in 1..Len(b \o s) : Backed((b \o s)[i], A, sub, w)
  BY <1>2, <1>3, <1>4 DEF Backed
<1>6. ASSUME NEW i \in 1..Len(b \o s), NEW j \in 1..Len(b \o s), i < j,
             QosZero((b \o s)[i]), QosZero((b \o s)[j])
      PROVE  (b \o s)[i].id # (b \o s)[j].id
  <2>1. /\ i \in 1..Len(b) /\ (b \o s)[i] = b[i]
        /\ j \in 1..Len(b) /\ (b \o s)[j] = b[j]
    BY <1>2, <1>3, <1>6
  <2>2. b[i].id # b[j].id
    BY <1>6, <2>1 DEF Told, Backs
  <2> QED  BY <2>1, <2>2
<1> HIDE DEF Backed
<1> DEFINE t == b \o s
<1> HIDE DEF t
<1>7. Backs(A, t, sub, w) /\ t \in Seq(BrokerPacket)
  BY <1>2, <1>5, <1>6 DEF Backs, t
<1>8. Told(A, t, sub, w)
  BY <1>7 DEF Told, ToldTypes
<1> QED  BY <1>8 DEF t

LEMMA ToldOther ==
  ASSUME NEW A, NEW b, NEW sub, NEW w, Told(A, b, sub, w), NEW t \in Seq(BrokerPacket),
         Backs(A, t, sub, w)
  PROVE  Told(A, t, sub, w)
BY DEF Told, ToldTypes

\* A QoS 0 message that is new may be sent.
LEMMA ToldQosZero ==
  ASSUME NEW A, NEW b, NEW sub, NEW w, Told(A, b, sub, w), 0 \in QosLevels,
         Len(sub) < MaxPublish, NEW p \in ListPacket, QosZero(p), p.id = Len(sub) + 1
  PROVE  Told(A, Append(b, p), Append(sub, 0), w)
<1> DEFINE s == Append(sub, 0)
           n == Len(sub)
           t == Append(b, p)
<1>1. /\ s \in Seq(QosLevels) /\ Len(s) = n + 1 /\ n \in Nat /\ s[n + 1] = 0
      /\ n + 1 \in 1..Len(s) /\ sub \in Seq(QosLevels)
  BY AppendSub DEF Told, ToldTypes
<1>2. b \in Seq(BrokerPacket) /\ p \in BrokerPacket
  BY DEF Told, ToldTypes, BrokerPacket
<1>3. /\ t \in Seq(BrokerPacket) /\ Len(t) = Len(b) + 1 /\ t[Len(b) + 1] = p
      /\ \A i \in 1..Len(b) : t[i] = b[i]
      /\ \A i \in 1..Len(t) : i \in 1..Len(b) \/ i = Len(b) + 1
      /\ Len(b) \in Nat
  BY <1>2, AppendFacts
<1>4. Told(A, b, s, w)
  BY ToldGrows
<1>5. \A i \in 1..Len(b) : QosZero(b[i]) => b[i].id \in 1..n
  <2>1. \A i \in 1..Len(b) : Backed(b[i], A, sub, w)
    BY DEF Told, Backs
  <2> QED  BY <2>1 DEF Backed, QosZero, Carries
<1>6. w.delivered[n + 1] = 0
  <2>1. n + 1 \in 1..MaxPublish /\ n + 1 > n
    BY <1>1, BoundsAssumption
  <2> QED  BY <2>1 DEF Told, Histories
<1> HIDE DEF s, n, t
<1>7. /\ \A i \in 1..Len(b) : Backed(b[i], A, s, w)
      /\ \A i, j \in 1..Len(b) : i < j /\ QosZero(b[i]) /\ QosZero(b[j]) => b[i].id # b[j].id
  BY <1>4 DEF Told, Backs
<1>8. Backed(p, A, s, w)
  BY <1>1, <1>6 DEF Backed, n
<1>9. p.id \notin 1..n
  BY <1>1 DEF n
<1>10. \A i \in 1..Len(t) : Backed(t[i], A, s, w)
  BY <1>3, <1>7, <1>8
<1>11. ASSUME NEW i \in 1..Len(t), NEW j \in 1..Len(t), i < j, QosZero(t[i]), QosZero(t[j])
       PROVE  t[i].id # t[j].id
  <2>1. i \in 1..Len(b)
    BY <1>3, <1>11
  <2>2. CASE j \in 1..Len(b)
    BY <1>3, <1>7, <1>11, <2>1, <2>2
  <2>3. CASE j = Len(b) + 1
    BY <1>3, <1>5, <1>9, <1>11, <2>1, <2>3
  <2> QED  BY <1>3, <2>2, <2>3
<1>12. Backs(A, t, s, w)
  BY <1>10, <1>11 DEF Backs
<1> QED  BY <1>3, <1>4, <1>12, ToldOther DEF s, t

\* Packets may get lost, all of them or those sent last; the first may be read.
LEMMA ToldFewer ==
  ASSUME NEW A, NEW b, NEW sub, NEW w, Told(A, b, sub, w), NEW k \in Nat,
         NEW t \in Seq(BrokerPacket),
         \A i \in 1..Len(t) : i + k \in 1..Len(b) /\ t[i] = b[i + k]
  PROVE  Told(A, t, sub, w)
<1>1. /\ \A i \in 1..Len(b) : Backed(b[i], A, sub, w)
      /\ \A i, j \in 1..Len(b) : i < j /\ QosZero(b[i]) /\ QosZero(b[j]) => b[i].id # b[j].id
  BY DEF Told, Backs
<1>2. \A i \in 1..Len(t) : Backed(t[i], A, sub, w)
  BY <1>1
<1>3. ASSUME NEW i \in 1..Len(t), NEW j \in 1..Len(t), i < j, QosZero(t[i]), QosZero(t[j])
      PROVE  t[i].id # t[j].id
  <2>1. i + k < j + k /\ i + k \in 1..Len(b) /\ j + k \in 1..Len(b)
    BY <1>3
  <2> QED  BY <1>1, <1>3, <2>1
<1>4. Backs(A, t, sub, w)
  BY <1>2, <1>3 DEF Backs
<1> QED  BY <1>4, ToldOther

LEMMA ToldTail ==
  ASSUME NEW A, NEW b, NEW sub, NEW w, Told(A, b, sub, w), b # <<>>
  PROVE  Told(A, Tail(b), sub, w)
<1>1. b \in Seq(BrokerPacket)
  BY DEF Told, ToldTypes
<1>2. /\ Tail(b) \in Seq(BrokerPacket) /\ 1 \in Nat
      /\ \A i \in 1..Len(Tail(b)) : i + 1 \in 1..Len(b) /\ Tail(b)[i] = b[i + 1]
  BY <1>1, TailFacts
<1> QED  BY <1>2, ToldFewer

LEMMA ToldDropped ==
  ASSUME NEW A, NEW b \in Seq(BrokerPacket), NEW s \in Seq(BrokerPacket), NEW sub, NEW w,
         Told(A, b \o s, sub, w)
  PROVE  Told(A, b, sub, w)
<1>1. \A i \in 1..Len(b) : i + 0 \in 1..Len(b \o s) /\ b[i] = (b \o s)[i + 0]
  <2>1. \A i \in 1..Len(b) : i \in 1..Len(b \o s) /\ (b \o s)[i] = b[i]
    BY ConcatFacts
  <2> QED  BY <2>1
<1> QED  BY <1>1, ToldFewer

LEMMA ToldConnect ==
  ASSUME NEW A, NEW b, NEW sub, NEW w, Told(A, b, sub, w)
  PROVE  Told(A, <<ConnectPacket>>, sub, w)
<1>1. /\ <<ConnectPacket>> \in Seq(BrokerPacket) /\ ConnectPacket.type = "CONNECT"
      /\ Len(<<ConnectPacket>>) = 1 /\ <<ConnectPacket>>[1] = ConnectPacket /\ 1..1 = {1}
  BY DEF ConnectPacket, BrokerPacket
<1>2. Backs(A, <<ConnectPacket>>, sub, w)
  BY <1>1 DEF Backs, Backed
<1> QED  BY <1>1, <1>2, ToldOther

LEMMA ToldDisconnect ==
  ASSUME NEW A, NEW b, NEW sub, NEW w, Told(A, b, sub, w)
  PROVE  Told(A, Append(b, [type |-> "DISCONNECT"]), sub, w)
<1> DEFINE p == [type |-> "DISCONNECT"]
           t == Append(b, p)
<1>1. b \in Seq(BrokerPacket) /\ p \in BrokerPacket /\ p.type = "DISCONNECT"
  BY DEF Told, ToldTypes, BrokerPacket
<1> HIDE DEF p
<1>2. /\ t \in Seq(BrokerPacket) /\ Len(t) = Len(b) + 1 /\ t[Len(b) + 1] = p
      /\ \A i \in 1..Len(b) : t[i] = b[i]
      /\ \A i \in 1..Len(t) : i \in 1..Len(b) \/ i = Len(b) + 1
      /\ Len(b) \in Nat
  BY <1>1, AppendFacts
<1> HIDE DEF t
<1>3. /\ \A i \in 1..Len(b) : Backed(b[i], A, sub, w)
      /\ \A i, j \in 1..Len(b) : i < j /\ QosZero(b[i]) /\ QosZero(b[j]) => b[i].id # b[j].id
  BY DEF Told, Backs
<1>4. Backed(p, A, sub, w) /\ ~QosZero(p)
  BY <1>1 DEF Backed, QosZero
<1>5. Backs(A, t, sub, w)
  BY <1>2, <1>3, <1>4 DEF Backs
<1> QED  BY <1>2, <1>5, ToldOther DEF p, t

\* The same world, but for the packets on their way to the client.
SameBut(w, w2) ==
  w2.stored = w.stored /\ w2.clean = w.clean /\ w2.delivered = w.delivered /\ w2.acked = w.acked

LEMMA ToldBack ==
  ASSUME NEW A, NEW b, NEW sub, NEW w, Told(A, b, sub, w), NEW w2, SameBut(w, w2),
         w2.back \in Seq(ClientPacket), \A i \in 1..Len(w2.back) : Earned(w2.back[i], A, w)
  PROVE  Told(A, b, sub, w2)
<1>1. w2.stored = w.stored /\ w2.clean = w.clean /\ w2.delivered = w.delivered /\ w2.acked = w.acked
  BY DEF SameBut
<1>2. ToldTypes(b, sub, w2)
  BY <1>1 DEF Told, ToldTypes
<1>3. \A e \in A : Kept(e, sub, w2)
  BY <1>1 DEF Told, Kept
<1>4. Backs(A, b, sub, w2)
  BY <1>1 DEF Told, Backs, Backed
<1>5. \A i \in 1..Len(w2.back) : Earned(w2.back[i], A, w2)
  BY <1>1 DEF Earned
<1>6. (\A mid \in w2.stored : StoredFor(mid, A, w2)) /\ Histories(sub, w2)
  BY <1>1 DEF Told, StoredFor, Histories
<1> QED  BY <1>2, <1>3, <1>4, <1>5, <1>6 DEF Told

LEMMA ToldReads ==
  ASSUME NEW A, NEW b, NEW sub, NEW w, Told(A, b, sub, w), NEW w2, SameBut(w, w2),
         w2.back = <<>> \/ w2.back = w.back \/ (w.back # <<>> /\ w2.back = Tail(w.back))
  PROVE  Told(A, b, sub, w2)
<1>1. w.back \in Seq(ClientPacket) /\ \A i \in 1..Len(w.back) : Earned(w.back[i], A, w)
  BY DEF Told, ToldTypes
<1>2. w2.back \in Seq(ClientPacket) /\ \A i \in 1..Len(w2.back) : Earned(w2.back[i], A, w)
  <2>0. CASE w2.back = <<>>
    <3>1. Len(w2.back) = 0 /\ 1..0 = {} /\ w2.back \in Seq(ClientPacket)
      BY <2>0
    <3> QED  BY <3>1
  <2>1. CASE w2.back = w.back
    BY <1>1, <2>1
  <2>2. CASE w.back # <<>> /\ w2.back = Tail(w.back)
    <3>1. /\ Tail(w.back) \in Seq(ClientPacket)
          /\ \A i \in 1..Len(Tail(w.back)) : i + 1 \in 1..Len(w.back) /\ Tail(w.back)[i] = w.back[i + 1]
      BY <1>1, <2>2, TailFacts
    <3> QED  BY <1>1, <2>2, <3>1
  <2> QED  BY <2>0, <2>1, <2>2
<1> QED  BY <1>2, ToldBack

LEMMA ToldReplies ==
  ASSUME NEW A, NEW b, NEW sub, NEW w, Told(A, b, sub, w), NEW w2, SameBut(w, w2),
         NEW p \in ClientPacket, Earned(p, A, w), w2.back = Append(w.back, p)
  PROVE  Told(A, b, sub, w2)
<1>1. w.back \in Seq(ClientPacket) /\ \A i \in 1..Len(w.back) : Earned(w.back[i], A, w)
  BY DEF Told, ToldTypes
<1> DEFINE c == Append(w.back, p)
<1>2. /\ c \in Seq(ClientPacket) /\ c[Len(w.back) + 1] = p
      /\ \A i \in 1..Len(w.back) : c[i] = w.back[i]
      /\ \A i \in 1..Len(c) : i \in 1..Len(w.back) \/ i = Len(w.back) + 1
  BY <1>1, AppendFacts
<1> HIDE DEF c
<1>3. w2.back = c
  BY DEF c
<1> QED  BY <1>1, <1>2, <1>3, ToldBack

-----------------------------------------------------------------------------
NoneAsks(b, mid) == \A i \in 1..Len(b) : b[i] \notin Asking(mid)
NoneAnswers(c, mid) == \A i \in 1..Len(c) : c[i] \notin Answering(mid)

\* What a packet about a message asks for.
LEMMA CarriesAsks ==
  ASSUME NEW p \in BrokerPacket, NEW A, Carries(p, A)
  PROVE  \E e \in A : e.mid = p.mid /\ p \in Asking(e.mid)
                      /\ (p.type = "PUBREL" => e.past)
                      /\ (p.type = "PUBLISH" => e.id = p.id /\ e.qos = p.qos /\ ~e.past)
<1>1. p \in ListPacket /\ p.type \in {"PUBLISH", "PUBREL"} /\ (p.type = "PUBLISH" => p.qos > 0)
  BY DEF BrokerPacket, Carries
<1>2. PICK e \in A : e.mid = p.mid /\ (p.type = "PUBREL" => e.past)
                     /\ (p.type = "PUBLISH" => e.id = p.id /\ e.qos = p.qos /\ ~e.past)
  BY DEF Carries
<1>3. p \in Asking(e.mid)
  BY <1>1, <1>2 DEF Asking
<1> QED  BY <1>2, <1>3

\* The message that an acknowledgment names is reported and leaves the list.
LEMMA ToldRemoves ==
  ASSUME NEW A, NEW b, NEW sub, NEW w, Told(A, b, sub, w), Apart(A), NEW e \in A,
         e.mid \notin w.stored, NoneAsks(b, e.mid), NEW w2,
         w2.stored = w.stored, w2.clean = w.clean, w2.delivered = w.delivered,
         w2.acked = w.acked \cup {e.id},
         w.back # <<>>, w2.back = Tail(w.back), NoneAnswers(w2.back, e.mid)
  PROVE  Told(A \ {e}, b, sub, w2)
<1> DEFINE B == A \ {e}
<1>1. /\ b \in Seq(BrokerPacket) /\ w.back \in Seq(ClientPacket)
      /\ \A f \in A : Kept(f, sub, w)
      /\ \A i \in 1..Len(b) : Backed(b[i], A, sub, w)
      /\ \A i, j \in 1..Len(b) : i < j /\ QosZero(b[i]) /\ QosZero(b[j]) => b[i].id # b[j].id
      /\ \A i \in 1..Len(w.back) : Earned(w.back[i], A, w)
      /\ \A mid \in w.stored : StoredFor(mid, A, w)
      /\ Histories(sub, w)
  BY DEF Told, ToldTypes, Backs
<1>2. B \subseteq A /\ \A f \in A : f \in B \/ f = e
  OBVIOUS
<1>3. \A f \in B : f.id # e.id
  BY DEF Apart
<1>4. Kept(e, sub, w)
  BY <1>1
<1> HIDE DEF B
<1>5. ASSUME NEW f \in B
      PROVE  Kept(f, sub, w2)
  <2>1. Kept(f, sub, w) /\ f.id \notin w2.acked
    BY <1>1, <1>2, <1>3 DEF Kept
  <2> QED  BY <2>1 DEF Kept
<1>6. ASSUME NEW i \in 1..Len(b)
      PROVE  Backed(b[i], B, sub, w2)
  <2>1. CASE Carries(b[i], A)
    <3>1. b[i] \in BrokerPacket /\ b[i] \notin Asking(e.mid)
      BY <1>1 DEF NoneAsks
    <3>2. PICK f \in A : f.mid = b[i].mid /\ b[i] \in Asking(f.mid)
                         /\ (b[i].type = "PUBREL" => f.past)
                         /\ (b[i].type = "PUBLISH" => f.id = b[i].id /\ f.qos = b[i].qos /\ ~f.past)
      BY <2>1, <3>1, CarriesAsks
    <3>3. f \in B
      BY <1>2, <3>1, <3>2
    <3>4. Carries(b[i], B)
      BY <2>1, <3>2, <3>3 DEF Carries
    <3> QED  BY <3>4 DEF Backed
  <2>2. CASE ~Carries(b[i], A)
    <3>1. Backed(b[i], A, sub, w)
      BY <1>1
    <3> QED  BY <2>2, <3>1 DEF Backed
  <2> QED  BY <2>1, <2>2
<1>7. ASSUME NEW i \in 1..Len(w2.back)
      PROVE  Earned(w2.back[i], B, w2)
  <2>1. i + 1 \in 1..Len(w.back) /\ w2.back[i] = w.back[i + 1] /\ w.back[i + 1] \in ClientPacket
    BY <1>1, TailFacts
  <2>2. Earned(w2.back[i], A, w) /\ w2.back[i] \in ClientPacket /\ w2.back[i] \notin Answering(e.mid)
    BY <1>1, <2>1 DEF NoneAnswers
  <2>3. w2.back[i].type # "CONNACK" => w2.back[i].mid # e.mid
    BY <2>2 DEF Answering
  <2> QED  BY <1>2, <2>2, <2>3 DEF Earned
<1>8. ASSUME NEW mid \in w2.stored
      PROVE  StoredFor(mid, B, w2)
  <2>1. StoredFor(mid, A, w) /\ mid # e.mid
    BY <1>1
  <2> QED  BY <1>2, <2>1 DEF StoredFor
<1>9. Histories(sub, w2)
  BY <1>1, <1>4 DEF Histories, Kept
<1>10. ToldTypes(b, sub, w2)
  <2>1. w2.back \in Seq(ClientPacket)
    BY <1>1, TailFacts
  <2> QED  BY <2>1 DEF Told, ToldTypes
<1>11. Backs(B, b, sub, w2)
  BY <1>1, <1>6 DEF Backs
<1>12. Told(B, b, sub, w2)
  BY <1>5, <1>7, <1>8, <1>9, <1>10, <1>11 DEF Told
<1> QED  BY <1>12 DEF B

\* The message that a PUBREC names is past it.
LEMMA ToldPasses ==
  ASSUME NEW A, NEW b, NEW sub, NEW w, Told(A, b, sub, w), NEW e \in A,
         e.qos = 2, w.delivered[e.id] > 0, NoneAsks(b, e.mid)
  PROVE  Told((A \ {e}) \cup {Passed(e)}, b, sub, w)
<1> DEFINE B == (A \ {e}) \cup {Passed(e)}
<1>1. /\ b \in Seq(BrokerPacket)
      /\ \A f \in A : Kept(f, sub, w)
      /\ \A i \in 1..Len(b) : Backed(b[i], A, sub, w)
      /\ \A i, j \in 1..Len(b) : i < j /\ QosZero(b[i]) /\ QosZero(b[j]) => b[i].id # b[j].id
      /\ \A i \in 1..Len(w.back) : Earned(w.back[i], A, w)
      /\ \A mid \in w.stored : StoredFor(mid, A, w)
  BY DEF Told, ToldTypes, Backs
<1>2. /\ Passed(e) \in B /\ Passed(e).id = e.id /\ Passed(e).mid = e.mid
      /\ Passed(e).qos = e.qos /\ Passed(e).past
  BY DEF Passed
<1>3. \A f \in A : f \in B \/ f = e
  OBVIOUS
<1>4. \A f \in B : f \in A \/ f = Passed(e)
  OBVIOUS
<1> HIDE DEF B
<1>5. ASSUME NEW f \in B
      PROVE  Kept(f, sub, w)
  <2>1. CASE f \in A
    BY <1>1, <2>1
  <2>2. CASE f = Passed(e)
    <3>1. Kept(e, sub, w)
      BY <1>1
    <3> QED  BY <1>2, <2>2, <3>1 DEF Kept
  <2> QED  BY <1>4, <2>1, <2>2
<1>6. ASSUME NEW i \in 1..Len(b)
      PROVE  Backed(b[i], B, sub, w)
  <2>1. CASE Carries(b[i], A)
    <3>1. b[i] \in BrokerPacket /\ b[i] \notin Asking(e.mid)
      BY <1>1 DEF NoneAsks
    <3>2. PICK f \in A : f.mid = b[i].mid /\ b[i] \in Asking(f.mid)
                         /\ (b[i].type = "PUBREL" => f.past)
                         /\ (b[i].type = "PUBLISH" => f.id = b[i].id /\ f.qos = b[i].qos /\ ~f.past)
      BY <2>1, <3>1, CarriesAsks
    <3>3. f \in B
      BY <1>3, <3>1, <3>2
    <3>4. Carries(b[i], B)
      BY <2>1, <3>2, <3>3 DEF Carries
    <3> QED  BY <3>4 DEF Backed
  <2>2. CASE ~Carries(b[i], A)
    <3>1. Backed(b[i], A, sub, w)
      BY <1>1
    <3> QED  BY <2>2, <3>1 DEF Backed
  <2> QED  BY <2>1, <2>2
<1>7. \A i \in 1..Len(w.back) : Earned(w.back[i], B, w)
  BY <1>1, <1>2, <1>3 DEF Earned
<1>8. \A mid \in w.stored : StoredFor(mid, B, w)
  BY <1>1, <1>2, <1>3 DEF StoredFor
<1>9. Backs(B, b, sub, w)
  BY <1>1, <1>6 DEF Backs
<1>10. Told(B, b, sub, w)
  BY <1>5, <1>7, <1>8, <1>9 DEF Told
<1> QED  BY <1>10 DEF B

\* The broker may forget ids that no unacknowledged PUBLISH needs.
LEMMA ToldForgets ==
  ASSUME NEW A, NEW b, NEW sub, NEW w, Told(A, b, sub, w), NEW w2,
         w2.back = w.back, w2.clean = w.clean, w2.delivered = w.delivered,
         w2.acked = w.acked, w2.stored \subseteq w.stored,
         \A e \in A : ~w.clean /\ ~e.past /\ e.mid \in w.stored => e.mid \in w2.stored
  PROVE  Told(A, b, sub, w2)
<1>1. ToldTypes(b, sub, w2) /\ Histories(sub, w2) /\ Backs(A, b, sub, w2)
  BY DEF Told, ToldTypes, Histories, Backs, Backed
<1>2. \A e \in A : Kept(e, sub, w2)
  BY DEF Told, Kept
<1>3. \A i \in 1..Len(w2.back) : Earned(w2.back[i], A, w2)
  BY DEF Told, Earned
<1>4. \A mid \in w2.stored : StoredFor(mid, A, w2)
  BY DEF Told, StoredFor
<1> QED  BY <1>1, <1>2, <1>3, <1>4 DEF Told

\* What the broker notes of a PUBLISH that it passes on.
OnceMore(d, p) == [d EXCEPT ![p.id] = @ + 1]
Storing(s, p) == IF p.qos = 2 THEN s \cup {p.mid} ELSE s

LEMMA ToldDelivers ==
  ASSUME NEW A, NEW b, NEW sub, NEW w, Told(A, b, sub, w), Apart(A), b # <<>>,
         Head(b).type = "PUBLISH", NEW w2,
         w2.back = w.back, w2.clean = w.clean, w2.acked = w.acked,
         w2.delivered = OnceMore(w.delivered, Head(b)),
         w2.stored = Storing(w.stored, Head(b)),
         Head(b).qos = 2 => NoneAnswers(w.back, Head(b).mid)
  PROVE  /\ Told(A, Tail(b), sub, w2)
         /\ Head(b).id \in 1..Len(sub) /\ sub[Head(b).id] = Head(b).qos
         /\ Head(b).id \in 1..MaxPublish /\ w2.delivered[Head(b).id] > 0
         /\ Head(b).qos > 0 => \E e \in A : e.id = Head(b).id /\ e.mid = Head(b).mid
<1> DEFINE h == Head(b)
           t == Tail(b)
<1>1. /\ b \in Seq(BrokerPacket) /\ w.back \in Seq(ClientPacket)
      /\ sub \in Seq(QosLevels) /\ Len(sub) <= MaxPublish
      /\ w.delivered \in [1..MaxPublish -> Nat]
      /\ \A f \in A : Kept(f, sub, w)
      /\ \A i \in 1..Len(b) : Backed(b[i], A, sub, w)
      /\ \A i, j \in 1..Len(b) : i < j /\ QosZero(b[i]) /\ QosZero(b[j]) => b[i].id # b[j].id
      /\ \A i \in 1..Len(w.back) : Earned(w.back[i], A, w)
      /\ \A mid \in w.stored : StoredFor(mid, A, w)
      /\ Histories(sub, w)
  BY DEF Told, ToldTypes, Backs
<1>2. /\ h = b[1] /\ 1 \in 1..Len(b) /\ h \in BrokerPacket /\ t \in Seq(BrokerPacket)
      /\ \A i \in 1..Len(t) : i + 1 \in 1..Len(b) /\ t[i] = b[i + 1]
  BY <1>1, TailFacts
<1>3. Backed(h, A, sub, w) /\ h.type = "PUBLISH"
  BY <1>1, <1>2
<1>4. Len(sub) \in Nat /\ MaxPublish \in Nat
  BY <1>1, BoundsAssumption
<1> HIDE DEF h, t
<1>5. h.id \in 1..Len(sub) /\ sub[h.id] = h.qos
      /\ (h.qos > 0 => \E e \in A : e.id = h.id /\ e.mid = h.mid /\ e.qos = h.qos)
  <2>1. CASE Carries(h, A)
    <3>1. h.qos > 0 /\ \E e \in A : e.id = h.id /\ e.mid = h.mid /\ e.qos = h.qos
      BY <1>3, <2>1 DEF Carries
    <3>2. PICK e \in A : e.id = h.id /\ e.mid = h.mid /\ e.qos = h.qos
      BY <3>1
    <3>3. Kept(e, sub, w)
      BY <1>1
    <3> QED  BY <3>1, <3>2, <3>3 DEF Kept
  <2>2. CASE ~Carries(h, A)
    BY <1>3, <2>2 DEF Backed, QosZero
  <2> QED  BY <2>1, <2>2
<1>6. h.id \in 1..MaxPublish
  BY <1>1, <1>4, <1>5
<1>7. /\ w2.delivered \in [1..MaxPublish -> Nat]
      /\ w2.delivered[h.id] > 0
      /\ \A id \in 1..MaxPublish : /\ id # h.id => w2.delivered[id] = w.delivered[id]
                                   /\ w.delivered[id] > 0 => w2.delivered[id] > 0
  <2> DEFINE d == w.delivered
             n == h.id
             d2 == [d EXCEPT ![n] = @ + 1]
  <2>1. w2.delivered = d2 /\ d \in [1..MaxPublish -> Nat] /\ n \in 1..MaxPublish
    BY <1>1, <1>6 DEF h, OnceMore
  <2> HIDE DEF d, n
  <2>2. /\ d2 \in [1..MaxPublish -> Nat] /\ d2[n] > 0
        /\ \A id \in 1..MaxPublish : /\ id # n => d2[id] = d[id]
                                     /\ d[id] > 0 => d2[id] > 0
    BY ONLY <2>1
  <2> HIDE DEF d2
  <2> QED  BY <2>1, <2>2 DEF d, n
<1>8. \A id \in 1..Len(sub) : id \in 1..MaxPublish
  BY <1>1, <1>4
<1>9. w.stored \subseteq w2.stored
      /\ \A mid \in w2.stored : mid \in w.stored \/ (h.qos = 2 /\ mid = h.mid)
  BY DEF h, Storing
<1>10. ASSUME NEW f \in A
       PROVE  Kept(f, sub, w2)
  <2>1. Kept(f, sub, w) /\ f.id \in 1..Len(sub) /\ f.id \in 1..MaxPublish
    BY <1>1, <1>8 DEF Kept
  <2>2. f.past => w2.delivered[f.id] > 0
    BY <1>7, <2>1 DEF Kept
  <2>3. ASSUME ~w2.clean, f.qos = 2, ~f.past, w2.delivered[f.id] > 0
        PROVE  f.mid \in w2.stored
    <3>1. CASE f.id = h.id
      <4>1. h.qos = 2
        BY <1>5, <2>1, <2>3, <3>1 DEF Kept
      <4>2. PICK e \in A : e.id = h.id /\ e.mid = h.mid
        BY <1>5, <4>1
      <4>3. f.mid = h.mid
        BY <3>1, <4>2 DEF Apart
      <4> QED  BY <4>1, <4>3 DEF h, Storing
    <3>2. CASE f.id # h.id
      <4>1. w.delivered[f.id] > 0
        BY <1>7, <2>1, <2>3, <3>2
      <4>2. f.mid \in w.stored
        BY <2>1, <2>3, <4>1 DEF Kept
      <4> QED  BY <1>9, <4>2
    <3> QED  BY <3>1, <3>2
  <2> QED  BY <2>1, <2>2, <2>3 DEF Kept
<1>11. ASSUME NEW i \in 1..Len(t)
       PROVE  Backed(t[i], A, sub, w2)
  <2>0. i + 1 \in 1..Len(b) /\ t[i] = b[i + 1] /\ 1 < i + 1
    BY <1>2
  <2>1. i + 1 \in 1..Len(b) /\ t[i] = b[i + 1] /\ Backed(t[i], A, sub, w) /\ 1 < i + 1
    BY <1>1, <2>0
  <2>2. CASE QosZero(t[i]) /\ t[i].id \in 1..Len(sub) /\ sub[t[i].id] = 0
             /\ w.delivered[t[i].id] = 0
    <3>1. t[i].id # h.id
      <4>1. CASE QosZero(h)
        BY <1>1, <1>2, <2>1, <2>2, <4>1
      <4>2. CASE ~QosZero(h)
        <5>1. h.qos # 0
          BY <1>3, <4>2 DEF QosZero
        <5> QED  BY <1>5, <2>2, <5>1
      <4> QED  BY <4>1, <4>2
    <3>2. w2.delivered[t[i].id] = 0
      BY <1>7, <1>8, <2>2, <3>1
    <3> QED  BY <2>2, <3>2 DEF Backed
  <2> QED  BY <2>1, <2>2 DEF Backed
<1>12. ASSUME NEW i \in 1..Len(t), NEW j \in 1..Len(t), i < j, QosZero(t[i]), QosZero(t[j])
       PROVE  t[i].id # t[j].id
  <2>1. /\ i + 1 \in 1..Len(b) /\ t[i] = b[i + 1] /\ j + 1 \in 1..Len(b) /\ t[j] = b[j + 1]
        /\ i + 1 < j + 1
    BY <1>2, <1>12
  <2> QED  BY <1>1, <1>12, <2>1
<1>13. ASSUME NEW i \in 1..Len(w.back)
       PROVE  Earned(w.back[i], A, w2)
  <2> DEFINE p == w.back[i]
  <2>1. p \in ClientPacket /\ Earned(p, A, w) /\ (h.qos = 2 => p \notin Answering(h.mid))
    BY <1>1 DEF NoneAnswers, h
  <2> HIDE DEF p
  <2>2. SUFFICES ASSUME p.type # "CONNACK"
                 PROVE  \E e \in A : /\ e.mid = p.mid /\ w2.delivered[e.id] > 0
                                     /\ p.type = "PUBCOMP" => p.mid \notin w2.stored
    BY DEF Earned, p
  <2>3. PICK e \in A : /\ e.mid = p.mid /\ w.delivered[e.id] > 0
                       /\ p.type = "PUBCOMP" => p.mid \notin w.stored
    BY <2>1, <2>2 DEF Earned
  <2>4. e.id \in 1..MaxPublish
    BY <1>1, <1>8 DEF Kept
  <2>5. h.qos = 2 => p.mid # h.mid
    BY <2>1, <2>2 DEF Answering
  <2> QED  BY <1>7, <1>9, <2>3, <2>4, <2>5
<1>14. ASSUME NEW mid \in w2.stored
       PROVE  StoredFor(mid, A, w2)
  <2>1. CASE mid \in w.stored
    <3>1. PICK e \in A : e.mid = mid /\ e.qos = 2 /\ w.delivered[e.id] > 0
      BY <1>1, <2>1 DEF StoredFor
    <3>2. e.id \in 1..MaxPublish
      BY <1>1, <1>8 DEF Kept
    <3> QED  BY <1>7, <3>1, <3>2 DEF StoredFor
  <2>2. CASE h.qos = 2 /\ mid = h.mid
    <3>1. PICK e \in A : e.id = h.id /\ e.mid = h.mid /\ e.qos = h.qos
      BY <1>5, <2>2
    <3> QED  BY <1>7, <2>2, <3>1 DEF StoredFor
  <2> QED  BY <1>9, <2>1, <2>2
<1>15. Histories(sub, w2)
  <2>1. ASSUME NEW id \in 1..MaxPublish, id > Len(sub)
        PROVE  w2.delivered[id] = 0
    <3>1. id # h.id
      BY <1>4, <1>5, <2>1
    <3> QED  BY <1>1, <1>7, <2>1, <3>1 DEF Histories
  <2> QED  BY <1>1, <2>1 DEF Histories
<1>16. ToldTypes(t, sub, w2) /\ Backs(A, t, sub, w2)
  BY <1>1, <1>2, <1>7, <1>11, <1>12 DEF ToldTypes, Backs
<1>17. Told(A, t, sub, w2)
  BY <1>10, <1>13, <1>14, <1>15, <1>16 DEF Told
<1> QED  BY <1>5, <1>6, <1>7, <1>17 DEF h, t

-----------------------------------------------------------------------------
\* What a handler has done so far, with b on its way when it began.
ClientTold(c, b, w) ==
  /\ c.sent \in Seq(ListPacket) /\ b \in Seq(BrokerPacket)
  /\ Told(Entries(c.inflight), b \o c.sent, c.submitted, w)

LEMMA Longer ==
  ASSUME NEW b \in Seq(BrokerPacket), NEW s \in Seq(ListPacket), NEW t \in Seq(ListPacket)
  PROVE  (b \o s) \o t = b \o (s \o t) /\ s \o t \in Seq(ListPacket)
<1>1. s \in Seq(BrokerPacket) /\ t \in Seq(BrokerPacket)
  BY DEF BrokerPacket
<1>2. (b \o s) \o t = b \o (s \o t)
  BY <1>1, ConcatAssociative
<1>3. s \o t \in Seq(ListPacket)
  OBVIOUS
<1> QED  BY <1>2, <1>3

LEMMA PublishCallTold ==
  ASSUME NEW c, ClientOK(c), NEW qos \in QosLevels, NEW ok \in BOOLEAN,
         Len(c.submitted) < MaxPublish, NEW b, NEW w, ClientTold(c, b, w)
  PROVE  ClientTold(PublishCall(c, qos, ok), b, w)
<1> DEFINE m == NewMessage(Len(c.submitted) + 1, NextMid(c.mid), qos)
           p == PublishCall(c, qos, ok)
           n == Len(c.submitted)
           v == b \o c.sent
           A == Entries(c.inflight)
           s == Append(c.submitted, qos)
<1>1. c.inflight \in Seq(Message) /\ c.quota \in Nat /\ n \in Nat /\ p.submitted = s
  BY ClientTypes DEF PublishCall
<1>2. /\ c.sent \in Seq(ListPacket) /\ b \in Seq(BrokerPacket) /\ Told(A, v, c.submitted, w)
      /\ Len(c.submitted) < MaxPublish
  BY DEF ClientTold
<1>3. CASE qos = 0
  <2> DEFINE k == PublishPacket(m)
             sent == IF ok THEN <<k>> ELSE <<>>
  <2>1. p.inflight = c.inflight /\ p.sent = c.sent \o sent
    BY <1>3 DEF PublishCall
  <2>2. NextMid(c.mid) \in 1..MaxMid /\ n + 1 \in Nat
    BY <1>1, NextMidType DEF ClientOK
  <2>3. k \in ListPacket /\ QosZero(k) /\ k.id = n + 1
    BY <1>3, <2>2 DEF PublishPacket, NewMessage, ListPacket, QosZero
  <2> HIDE DEF k, p, m, A
  <2>4. sent \in Seq(ListPacket) /\ v \in Seq(BrokerPacket)
    BY <1>2, <2>3 DEF Told, ToldTypes
  <2>5. Told(A, v \o sent, s, w)
    <3>1. CASE ok
      <4>1. Told(A, Append(v, k), s, w)
        <5>1. 0 \in QosLevels
          BY <1>3
        <5> HIDE DEF v
        <5> QED  BY <1>2, <1>3, <2>3, <5>1, ToldQosZero
      <4>2. v \o sent = Append(v, k)
        <5>1. k \in BrokerPacket
          BY <2>3 DEF BrokerPacket
        <5> HIDE DEF v
        <5> QED  BY <2>4, <3>1, <5>1
      <4> QED  BY <4>1, <4>2
    <3>2. CASE ~ok
      <4>1. \A e \in A \ A : e.id = Len(c.submitted) + 1 /\ e.qos = qos /\ ~e.past /\ qos \in {1, 2}
        OBVIOUS
      <4>2. Told(A, v, s, w)
        <5> HIDE DEF v
        <5> QED  BY <1>2, <4>1, ToldGrows
      <4>3. v \o sent = v
        <5> HIDE DEF v
        <5> QED  BY <2>4, <3>2
      <4> QED  BY <4>2, <4>3
    <3> QED  BY <3>1, <3>2
  <2> HIDE DEF sent, v
  <2>6. v \o sent = b \o (c.sent \o sent) /\ c.sent \o sent \in Seq(ListPacket)
    BY <1>2, <2>4, Longer DEF v
  <2> QED  BY <1>1, <1>2, <2>1, <2>5, <2>6 DEF ClientTold, A, p
<1>4. CASE qos # 0
  <2> DEFINE r == MessageQueue(c.inflight, c.quota, m, ok)
             B == With(A, m)
  <2>1. p.inflight = r.inflight /\ p.sent = c.sent \o r.sent
    BY <1>4 DEF PublishCall
  <2>2. m \in Message /\ Held(m) /\ m.id = n + 1 /\ m.qos = qos
    BY <1>4, NewMessageIs DEF NewMessage
  <2>3. Entry(m).id = n + 1 /\ Entry(m).qos = qos /\ ~Entry(m).past /\ qos \in {1, 2}
    <3>1. m.qos \in {1, 2}
      BY <2>2 DEF Message
    <3>2. Entry(m).past = FALSE
      <4> HIDE DEF m
      <4> QED  BY <2>2, HeldEntry
    <3> QED  BY <2>2, <3>1, <3>2 DEF Entry
  <2> HIDE DEF p, m, v, s
  <2>4. Entries(r.inflight) = B /\ AllCarry(r.sent, B)
    <3> HIDE DEF A
    <3> QED  BY <1>1, <2>2, QueueCarries DEF A
  <2> HIDE DEF r, A
  <2>5. A \subseteq B /\ \A e \in B \ A :
          e.id = Len(c.submitted) + 1 /\ e.qos = qos /\ ~e.past /\ qos \in {1, 2}
    BY <2>3 DEF With
  <2> HIDE DEF B
  <2>6. Told(B, v, s, w)
    BY <1>2, <2>5, ToldGrows DEF s
  <2>7. Told(B, v \o r.sent, s, w) /\ r.sent \in Seq(ListPacket)
    BY <2>4, <2>6, ToldSends DEF AllCarry
  <2>8. v \o r.sent = b \o (c.sent \o r.sent) /\ c.sent \o r.sent \in Seq(ListPacket)
    BY <1>2, <2>7, Longer DEF v
  <2> QED  BY <1>1, <1>2, <2>1, <2>4, <2>7, <2>8 DEF ClientTold, p
<1> QED  BY <1>3, <1>4

LEMMA InCallbackTold ==
  ASSUME NEW c, ClientOK(c), c.submitted = submitted, NEW calls \in CallbackCalls,
         NEW b, NEW w, ClientTold(c, b, w)
  PROVE  ClientTold(InCallback(c, calls), b, w)
<1>1. CASE calls = <<>>
  BY <1>1 DEF InCallback
<1>2. CASE calls # <<>>
  <2>1. Head(calls) \in QosLevels /\ (link # "none") \in BOOLEAN
    BY <1>2, CallbackCallsType
  <2>2. Len(c.submitted) < MaxPublish
    BY <1>2 DEF CallbackCalls
  <2>3. ClientTold(PublishCall(c, Head(calls), link # "none"), b, w)
    BY <2>1, <2>2, PublishCallTold
  <2> QED  BY <1>2, <2>3 DEF InCallback
<1> QED  BY <1>1, <1>2

LEMMA ReleasedTold ==
  ASSUME NEW c, ClientOK(c), NEW ok \in BOOLEAN, NEW b, NEW w, ClientTold(c, b, w)
  PROVE  ClientTold(Released(c, ok), b, w)
<1> DEFINE r == ReleaseToInflight(c.inflight, c.quota, ok)
           d == Released(c, ok)
           v == b \o c.sent
           A == Entries(c.inflight)
<1>1. c.inflight \in Seq(Message) /\ c.quota \in Nat
  BY ClientTypes
<1>2. c.sent \in Seq(ListPacket) /\ b \in Seq(BrokerPacket) /\ Told(A, v, c.submitted, w)
  BY DEF ClientTold
<1>3. d.inflight = r.inflight /\ d.sent = c.sent \o r.sent /\ d.submitted = c.submitted
  BY DEF Released
<1>4. Entries(r.inflight) = A /\ AllCarry(r.sent, A)
  BY <1>1, ReleaseCarries
<1> HIDE DEF d, v, r, A
<1>5. Told(A, v \o r.sent, c.submitted, w) /\ r.sent \in Seq(ListPacket)
  BY <1>2, <1>4, ToldSends DEF AllCarry
<1>6. v \o r.sent = b \o (c.sent \o r.sent) /\ c.sent \o r.sent \in Seq(ListPacket)
  BY <1>2, <1>5, Longer DEF v
<1> QED  BY <1>2, <1>3, <1>4, <1>5, <1>6 DEF ClientTold, d

\* What mosquitto_publish calls do to the record of submitted messages.
Submits(sub, s) == s = sub \/ \E qos \in QosLevels : Len(sub) < MaxPublish /\ s = Append(sub, qos)

LEMMA InCallbackSubmits ==
  ASSUME NEW c, c.submitted = submitted, NEW calls \in CallbackCalls
  PROVE  Submits(submitted, InCallback(c, calls).submitted)
<1>1. CASE calls = <<>>
  BY <1>1 DEF InCallback, Submits
<1>2. CASE calls # <<>>
  <2>1. Head(calls) \in QosLevels /\ Len(submitted) < MaxPublish
    BY <1>2, CallbackCallsType DEF CallbackCalls
  <2>2. InCallback(c, calls).submitted = Append(submitted, Head(calls))
    BY <1>2 DEF InCallback, PublishCall
  <2> QED  BY <2>1, <2>2 DEF Submits
<1> QED  BY <1>1, <1>2

\* Packets that a handler cannot write are lost; the rest is as it was told.
LEMMA BecomeTold ==
  ASSUME NEW c, Become(c), NEW w, ClientTold(c, toBroker, w)
  PROVE  Told(Entries(msgs_out'), toBroker', submitted', w)
<1>1. /\ msgs_out' = c.inflight /\ submitted' = c.submitted
      /\ toBroker' = IF link = "up" THEN toBroker \o c.sent ELSE toBroker
  BY DEF Become
<1>2. /\ c.sent \in Seq(BrokerPacket) /\ toBroker \in Seq(BrokerPacket)
      /\ Told(Entries(c.inflight), toBroker \o c.sent, c.submitted, w)
  BY DEF ClientTold, BrokerPacket
<1>3. Told(Entries(c.inflight), toBroker, c.submitted, w)
  BY <1>2, ToldDropped
<1> QED  BY <1>1, <1>2, <1>3

LEMMA StartTold ==
  ASSUME NEW c, c.sent = <<>>, NEW b, NEW w, Told(Entries(c.inflight), b, c.submitted, w)
  PROVE  ClientTold(c, b, w)
<1>1. b \in Seq(BrokerPacket)
  BY DEF Told, ToldTypes
<1>2. b \o <<>> = b /\ <<>> \in Seq(ListPacket)
  BY <1>1
<1> QED  BY <1>1, <1>2 DEF ClientTold

-----------------------------------------------------------------------------
\* An id is not given to a message while another message of the list has it.
IdsDiffer == MidsDiffer(msgs_out)

\* For each id at most one packet is on its way that asks for an answer or is
\* one.  It holds for what a dead connection has left, too.
Once ==
  \A mid \in 1..MaxMid :
    Count(toBroker, Asking(mid)) + Count(toClient, Answering(mid)) <= 1

LEMMA CountNone ==
  ASSUME NEW S, NEW s \in Seq(S), NEW P, Count(s, P) = 0
  PROVE  \A i \in 1..Len(s) : s[i] \notin P
<1>1. IsFiniteSet({i \in 1..Len(s) : s[i] \in P})
  BY CountType
<1>2. {i \in 1..Len(s) : s[i] \in P} = {}
  BY <1>1, FS_EmptySet DEF Count
<1> QED  BY <1>2

LEMMA OnceTypes ==
  ASSUME Traffic
  PROVE  /\ toBroker \in Seq(BrokerPacket) /\ toClient \in Seq(ClientPacket)
         /\ \A mid : /\ Count(toBroker, Asking(mid)) \in Nat
                     /\ Count(toClient, Answering(mid)) \in Nat
<1>1. toBroker \in Seq(BrokerPacket) /\ toClient \in Seq(ClientPacket)
  BY DEF Traffic
<1> QED  BY <1>1, CountType

LEMMA AckIsLast ==
  ASSUME Traffic, Once, toClient # <<>>,
         Head(toClient).type \in {"PUBACK", "PUBREC", "PUBCOMP"}
  PROVE  LET mid == Head(toClient).mid
         IN /\ mid \in 1..MaxMid /\ NoneAsks(toBroker, mid)
            /\ NoneAnswers(Tail(toClient), mid)
<1> DEFINE mid == Head(toClient).mid
           a == Count(toBroker, Asking(mid))
           b == Count(toClient, Answering(mid))
           d == Count(Tail(toClient), Answering(mid))
<1>1. /\ toBroker \in Seq(BrokerPacket) /\ toClient \in Seq(ClientPacket)
      /\ a \in Nat /\ b \in Nat
  BY OnceTypes
<1>2. Head(toClient) \in ClientPacket /\ Tail(toClient) \in Seq(ClientPacket)
  BY <1>1, TailFacts
<1>3. mid \in 1..MaxMid /\ Head(toClient) \in Answering(mid)
  BY <1>2 DEF ClientPacket, Answering
<1>4. d + 1 <= b
  BY <1>1, <1>3, CountTail
<1>5. d \in Nat
  BY <1>2, CountType
<1>6. a + b <= 1
  BY <1>3 DEF Once
<1> HIDE DEF a, b, d
<1>7. a = 0 /\ d = 0
  BY <1>1, <1>4, <1>5, <1>6
<1> HIDE DEF mid
<1>8. NoneAsks(toBroker, mid)
  BY <1>1, <1>7, CountNone DEF NoneAsks, a
<1>9. NoneAnswers(Tail(toClient), mid)
  BY <1>2, <1>7, CountNone DEF NoneAnswers, d
<1> QED  BY <1>3, <1>8, <1>9 DEF mid

LEMMA AskIsAlone ==
  ASSUME Traffic, Once, toBroker # <<>>, NEW mid \in 1..MaxMid, Head(toBroker) \in Asking(mid)
  PROVE  NoneAnswers(toClient, mid)
<1> DEFINE a == Count(toBroker, Asking(mid))
           b == Count(toClient, Answering(mid))
           d == Count(Tail(toBroker), Asking(mid))
<1>1. /\ toBroker \in Seq(BrokerPacket) /\ toClient \in Seq(ClientPacket)
      /\ a \in Nat /\ b \in Nat
  BY OnceTypes
<1>2. Tail(toBroker) \in Seq(BrokerPacket)
  BY <1>1, TailFacts
<1>3. d + 1 <= a
  BY <1>1, CountTail
<1>4. d \in Nat
  BY <1>2, CountType
<1>5. a + b <= 1
  BY DEF Once
<1> HIDE DEF a, b, d
<1>6. b = 0
  BY <1>1, <1>3, <1>4, <1>5
<1> QED  BY <1>1, <1>6, CountNone DEF NoneAnswers, b

LEMMA AwaitedOne ==
  ASSUME NEW q \in Seq(Message), MidsDiffer(q), NEW mid, NEW fresh
  PROVE  Cardinality(Awaited(q, mid, fresh)) <= 1
<1> DEFINE W == Awaited(q, mid, fresh)
<1>1. IsFiniteSet(W) /\ Cardinality(W) \in Nat
  BY AwaitedType
<1>2. W \subseteq 1..Len(q) /\ \A i \in W : q[i].mid = mid
  BY DEF Awaited
<1>3. \A i, j \in W : i = j
  BY <1>2 DEF MidsDiffer
<1> HIDE DEF W
<1>4. Cardinality(W) <= 1
  <2>1. CASE W = {}
    BY <1>1, <2>1, FS_EmptySet
  <2>2. CASE W # {}
    <3>1. PICK i \in W : TRUE
      BY <2>2
    <3>2. W = {i}
      BY <1>3, <3>1
    <3>3. Cardinality({i}) = 1
      BY FS_Singleton
    <3> QED  BY <3>2, <3>3
  <2> QED  BY <2>1, <2>2
<1> QED  BY <1>4 DEF W

\* While the connection works, Once is what the count of Balanced says.
LEMMA OnceUp ==
  ASSUME Balanced', Traffic', ClientTypeOK', IdsDiffer', Up'
  PROVE  Once'
<1>1. /\ msgs_out' \in Seq(Message) /\ MidsDiffer(msgs_out')
      /\ toBroker' \in Seq(BrokerPacket) /\ toClient' \in Seq(ClientPacket)
  BY DEF ClientTypeOK, Traffic, IdsDiffer
<1> SUFFICES ASSUME NEW mid \in 1..MaxMid
             PROVE  Count(toBroker', Asking(mid)) + Count(toClient', Answering(mid)) <= 1
  BY DEF Once
<1> DEFINE a == Count(toBroker', Asking(mid))
           b == Count(toClient', Answering(mid))
           n == Cardinality(Awaited(msgs_out', mid, Fresh'))
<1>2. a + b <= n
  BY DEF Balanced, Owed
<1>3. n <= 1
  BY <1>1, AwaitedOne
<1>4. a \in Nat /\ b \in Nat
  BY <1>1, CountType
<1>5. n \in Nat
  BY <1>1, AwaitedType
<1> HIDE DEF a, b, n
<1>6. a + b <= 1
  BY <1>2, <1>3, <1>4, <1>5
<1> QED  BY <1>6 DEF a, b

LEMMA OnceFewer ==
  ASSUME Traffic, Once, Traffic',
         toBroker' = toBroker \/ (toBroker # <<>> /\ toBroker' = Tail(toBroker))
           \/ toBroker' = Append(toBroker, [type |-> "DISCONNECT"]),
         toClient' = toClient \/ toClient' = <<>>
           \/ (toClient # <<>> /\ toClient' = Tail(toClient))
  PROVE  Once'
<1>1. toBroker \in Seq(BrokerPacket) /\ toClient \in Seq(ClientPacket)
  BY DEF Traffic
<1>2. /\ toBroker' \in Seq(BrokerPacket) /\ toClient' \in Seq(ClientPacket)
  BY DEF Traffic
<1> SUFFICES ASSUME NEW mid \in 1..MaxMid
             PROVE  Count(toBroker', Asking(mid)) + Count(toClient', Answering(mid)) <= 1
  BY DEF Once
<1> DEFINE a == Count(toBroker, Asking(mid))
           b == Count(toClient, Answering(mid))
           a2 == Count(toBroker', Asking(mid))
           b2 == Count(toClient', Answering(mid))
<1>3. a \in Nat /\ b \in Nat /\ a2 \in Nat /\ b2 \in Nat
  BY <1>1, <1>2, CountType
<1>4. a2 <= a
  <2>1. CASE toBroker' = toBroker
    BY <1>3, <2>1
  <2>2. CASE toBroker # <<>> /\ toBroker' = Tail(toBroker)
    BY <1>1, <2>2, CountTail
  <2>3. CASE toBroker' = Append(toBroker, [type |-> "DISCONNECT"])
    <3> DEFINE p == [type |-> "DISCONNECT"]
    <3>1. p \in BrokerPacket /\ p \notin Asking(mid)
      BY DEF BrokerPacket, Asking, ListPacket
    <3> HIDE DEF p
    <3>2. Count(Append(toBroker, p), Asking(mid)) <= Count(toBroker, Asking(mid))
      BY <1>1, <3>1, CountAppend
    <3> QED  BY <2>3, <3>2 DEF p
  <2> QED  BY <2>1, <2>2, <2>3
<1>5. b2 <= b
  <2>1. CASE toClient' = toClient
    BY <1>3, <2>1
  <2>2. CASE toClient # <<>> /\ toClient' = Tail(toClient)
    BY <1>1, <2>2, CountTail
  <2>3. CASE toClient' = <<>>
    BY <1>3, <2>3, CountEmpty
  <2> QED  BY <2>1, <2>2, <2>3
<1>6. a + b <= 1
  BY DEF Once
<1> HIDE DEF a, b, a2, b2
<1>7. a2 + b2 <= 1
  BY <1>3, <1>4, <1>5, <1>6
<1> QED  BY <1>7 DEF a2, b2

LEMMA OnceRefused ==
  ASSUME AInv, Once, HandleConnackRefused, ClientTypeOK', Traffic', IdsDiffer'
  PROVE  Once'
<1> DEFINE c0 == [Client EXCEPT !.inflight = ReconnectReset(@, TRUE),
                                !.quota = QuotaAfterReset(msgs_out)]
<1>1. PICK calls \in CallbackCalls : Become(InCallback(c0, calls))
  BY DEF HandleConnackRefused
<1>2. /\ IInv /\ Traffic /\ Balanced /\ ClientTypeOK /\ msgs_out \in Seq(Message)
      /\ Answered(toClient) /\ toBroker \in Seq(BrokerPacket)
  BY TrafficIs DEF AInv, IInv, ClientTypeOK, Traffic
<1>3. ClientOK(c0) /\ ClientWindow(c0, Up)
  BY <1>2, ResetIsOK, ResetIsWindow
<1>4. /\ c0.sent = <<>> /\ c0.sent \in Seq(ListPacket)
      /\ c0.inflight = ReconnectReset(msgs_out, TRUE)
  <2>1. c0 = [inflight |-> ReconnectReset(msgs_out, TRUE), quota |-> QuotaAfterReset(msgs_out),
              mid |-> last_mid, submitted |-> submitted, sent |-> <<>>]
    BY ClientWith DEF Client
  <2> HIDE DEF c0
  <2> QED  BY <2>1
<1> HIDE DEF c0
<1> DEFINE c1 == InCallback(c0, calls)
<1>5. ClientRoom(c0, Up) /\ Up \in BOOLEAN /\ (Up => link # "none")
  BY <1>3, WindowRoom DEF ClientRoom, ClientWindow, ClientOK, Up
<1>6. ClientOK(c1) /\ Pays(c0, c1, TRUE, Up)
  BY <1>3, <1>4, <1>5, InCallbackType, InCallbackPays
<1>7. Become(c1)
  BY <1>1
<1> HIDE DEF c1
<1>8. /\ c1.inflight \in Seq(Message) /\ c1.sent \in Seq(ListPacket)
      /\ c1.sent \in Seq(BrokerPacket) /\ msgs_out' = c1.inflight
      /\ toBroker' = IF Up THEN toBroker \o c1.sent ELSE toBroker
  BY <1>6, <1>7 DEF ClientOK, Pays, Become, Up, BrokerPacket
<1>9. toClient # <<>> /\ Head(toClient).type = "CONNACK" /\ toClient' = <<>>
  BY DEF HandleConnackRefused, Incoming, CloseLink
<1>10. Fresh = TRUE
  BY <1>2, <1>9, TailAnswered DEF Fresh
<1>11. CASE ~Up
  BY <1>2, <1>8, <1>9, <1>11, OnceFewer
<1>12. CASE Up
  <2> SUFFICES ASSUME NEW mid \in 1..MaxMid
               PROVE  Count(toBroker', Asking(mid)) + Count(toClient', Answering(mid)) <= 1
    BY DEF Once
  <2> DEFINE a0 == Cardinality(Awaited(c0.inflight, mid, TRUE))
             a1 == Cardinality(Awaited(c1.inflight, mid, TRUE))
             b  == Count(toBroker, Asking(mid))
             c  == Count(toClient, Answering(mid))
             s  == Count(c1.sent, Asking(mid))
             d  == Count(toBroker \o c1.sent, Asking(mid))
  <2>1. b + c <= a0
    <3>1. b + c = Owed(toBroker, toClient, Up, mid)
      BY <1>12 DEF Owed
    <3>2. Owed(toBroker, toClient, Up, mid) <= Cardinality(Awaited(msgs_out, mid, Fresh))
      BY <1>2 DEF Balanced
    <3> HIDE DEF b, c
    <3> QED  BY <1>2, <1>4, <1>10, <3>1, <3>2, ResetAwaited
  <2>2. s + a0 <= 0 + a1
    <3>1. Count(c0.sent, Asking(mid)) = 0
      BY <1>4, CountEmpty
    <3> QED  BY <1>6, <1>12, <3>1 DEF Pays
  <2>3. a1 <= 1
    BY <1>8, AwaitedOne DEF IdsDiffer
  <2>4. d <= b + s
    BY <1>2, <1>8, CountConcat
  <2>5. c0.inflight \in Seq(Message) /\ toClient \in Seq(ClientPacket)
        /\ toBroker \o c1.sent \in Seq(BrokerPacket)
    BY <1>2, <1>3, <1>8 DEF ClientOK, Traffic
  <2>6. /\ a0 \in Nat /\ a1 \in Nat
        /\ b \in Nat /\ c \in Nat /\ s \in Nat /\ d \in Nat
    BY <1>2, <1>8, <2>5, AwaitedType, CountType
  <2> HIDE DEF a0, a1, b, c, s
  <2>7. d <= 1
    <3> HIDE DEF d
    <3> QED  BY <2>1, <2>2, <2>3, <2>4, <2>6
  <2>8. Count(toClient', Answering(mid)) = 0
    BY <1>9, CountEmpty
  <2>9. toBroker' = toBroker \o c1.sent
    BY <1>8, <1>12
  <2> QED  BY <2>6, <2>7, <2>8, <2>9
<1> QED  BY <1>11, <1>12

-----------------------------------------------------------------------------
World == [back |-> toClient, stored |-> session.stored, clean |-> session.clean,
          delivered |-> delivered, acked |-> acked]

\* The list, the packets on their way, the broker and the reports agree.
AllTold == Told(Entries(msgs_out), toBroker, submitted, World)

TInv == AInv /\ Listed(msgs_out, Len(submitted), {}) /\ AllTold /\ Once /\ IdsDiffer

LEMMA WorldIs ==
  /\ World.back = toClient /\ World.stored = session.stored
  /\ World.clean = session.clean /\ World.delivered = delivered /\ World.acked = acked
BY DEF World

LEMMA WorldNext ==
  /\ World'.back = toClient' /\ World'.stored = session'.stored
  /\ World'.clean = session'.clean /\ World'.delivered = delivered' /\ World'.acked = acked'
BY DEF World

\* Steps that leave the broker and the reports as they are.
LEMMA WorldReads ==
  ASSUME AllTold, session' = session, delivered' = delivered, acked' = acked,
         toClient' = <<>> \/ toClient' = toClient \/ (toClient # <<>> /\ toClient' = Tail(toClient))
  PROVE  Told(Entries(msgs_out), toBroker, submitted, World')
<1>1. SameBut(World, World')
  BY WorldIs, WorldNext DEF SameBut
<1>2. World'.back = <<>> \/ World'.back = World.back
        \/ (World.back # <<>> /\ World'.back = Tail(World.back))
  BY WorldIs, WorldNext
<1> QED  BY <1>1, <1>2, ToldReads DEF AllTold

LEMMA ListTypes ==
  ASSUME AInv, Listed(msgs_out, Len(submitted), {})
  PROVE  /\ ClientTypeOK /\ msgs_out \in Seq(Message) /\ Numbered(msgs_out) /\ Traffic
         /\ ClientOK(Client) /\ Client.sent = <<>>
         /\ Client.inflight = msgs_out /\ Client.submitted = submitted
BY ClientIsOK DEF AInv, IInv, ClientTypeOK, Listed, Client

LEMMA PublishTold ==
  ASSUME AInv, Listed(msgs_out, Len(submitted), {}), AllTold, NEW qos \in QosLevels, Publish(qos)
  PROVE  AllTold'
<1> DEFINE c == PublishCall(Client, qos, link = "up")
<1>1. /\ Become(c) /\ toClient' = toClient /\ Len(submitted) < MaxPublish
      /\ session' = session /\ delivered' = delivered /\ acked' = acked
  BY DEF Publish, brokerVars
<1>2. Told(Entries(msgs_out), toBroker, submitted, World')
  BY <1>1, WorldReads
<1>3. ClientTold(Client, toBroker, World')
  BY <1>2, ListTypes, StartTold
<1>4. ClientTold(c, toBroker, World')
  <2>1. (link = "up") \in BOOLEAN
    OBVIOUS
  <2> QED  BY <1>1, <1>3, <2>1, ListTypes, PublishCallTold
<1> HIDE DEF c
<1>5. Told(Entries(msgs_out'), toBroker', submitted', World')
  BY <1>1, <1>4, BecomeTold
<1> QED  BY <1>5 DEF AllTold

\* The handler of a CONNACK up to its callback.
LEMMA ResetTold ==
  ASSUME AInv, Listed(msgs_out, Len(submitted), {}), NEW w,
         Told(Entries(msgs_out), toBroker, submitted, w), NEW calls \in CallbackCalls
  PROVE  LET c1 == InCallback([Client EXCEPT !.inflight = ReconnectReset(@, TRUE),
                                             !.quota = QuotaAfterReset(msgs_out)], calls)
         IN ClientOK(c1) /\ c1 = FieldsOf(c1) /\ ClientTold(c1, toBroker, w)
            /\ Submits(submitted, c1.submitted)
<1> DEFINE c0 == [Client EXCEPT !.inflight = ReconnectReset(@, TRUE),
                                !.quota = QuotaAfterReset(msgs_out)]
<1>1. ClientTypeOK /\ msgs_out \in Seq(Message)
  BY ListTypes
<1>2. c0 = [inflight |-> ReconnectReset(msgs_out, TRUE), quota |-> QuotaAfterReset(msgs_out),
            mid |-> last_mid, submitted |-> submitted, sent |-> <<>>]
  BY ClientWith DEF Client
<1>3. ClientOK(c0)
  BY <1>1, ResetIsOK
<1> HIDE DEF c0
<1>4. /\ c0 = FieldsOf(c0) /\ c0.sent = <<>> /\ c0.submitted = submitted
      /\ c0.inflight = ReconnectReset(msgs_out, TRUE)
  BY <1>2 DEF FieldsOf
<1>5. Entries(c0.inflight) = Entries(msgs_out)
  BY <1>1, <1>4, ResetEntries
<1>6. ClientTold(c0, toBroker, w)
  BY <1>4, <1>5, StartTold
<1> DEFINE c1 == InCallback(c0, calls)
<1>7. ClientOK(c1) /\ c1 = FieldsOf(c1) /\ ClientTold(c1, toBroker, w)
  BY <1>3, <1>4, <1>6, InCallbackType, InCallbackFields, InCallbackTold
<1>8. Submits(submitted, c1.submitted)
  BY <1>4, InCallbackSubmits
<1> QED  BY <1>7, <1>8 DEF c0

LEMMA ConnackTold ==
  ASSUME AInv, Listed(msgs_out, Len(submitted), {}), AllTold, HandleConnack
  PROVE  AllTold' /\ Submits(submitted, submitted')
<1> DEFINE c0 == [Client EXCEPT !.inflight = ReconnectReset(@, TRUE),
                                !.quota = QuotaAfterReset(msgs_out)]
<1>1. PICK calls \in CallbackCalls :
        LET c1   == InCallback(c0, calls)
            sent == IF link = "up" THEN RetryPackets(c1.inflight) ELSE <<>>
        IN Become([c1 EXCEPT !.inflight = RetryMark(@), !.sent = @ \o sent])
  BY DEF HandleConnack
<1> DEFINE c1   == InCallback(c0, calls)
           sent == IF link = "up" THEN RetryPackets(c1.inflight) ELSE <<>>
           c2   == [c1 EXCEPT !.inflight = RetryMark(@), !.sent = @ \o sent]
<1>2. /\ toClient # <<>> /\ toClient' = Tail(toClient)
      /\ session' = session /\ delivered' = delivered /\ acked' = acked
  BY DEF HandleConnack, Incoming, brokerVars
<1>3. Told(Entries(msgs_out), toBroker, submitted, World')
  BY <1>2, WorldReads
<1>4. /\ ClientOK(c1) /\ c1 = FieldsOf(c1) /\ ClientTold(c1, toBroker, World')
      /\ Submits(submitted, c1.submitted)
  BY <1>3, ResetTold
<1>5. Become(c2)
  BY <1>1
<1> HIDE DEF c1, sent
<1>6. /\ c2.inflight = RetryMark(c1.inflight) /\ c2.sent = c1.sent \o sent
      /\ c2.submitted = c1.submitted
  BY <1>4 DEF FieldsOf
<1> HIDE DEF c2
<1>7. /\ c1.inflight \in Seq(Message) /\ c1.sent \in Seq(ListPacket)
      /\ toBroker \in Seq(BrokerPacket)
      /\ Told(Entries(c1.inflight), toBroker \o c1.sent, c1.submitted, World')
  BY <1>4 DEF ClientOK, ClientTold
<1>8. Entries(c2.inflight) = Entries(c1.inflight) /\ AllCarry(sent, Entries(c1.inflight))
  <2>1. Entries(RetryMark(c1.inflight)) = Entries(c1.inflight)
        /\ AllCarry(RetryPackets(c1.inflight), Entries(c1.inflight))
    BY <1>7, RetryCarries
  <2>2. AllCarry(<<>>, Entries(c1.inflight))
    BY DEF AllCarry
  <2> QED  BY <1>6, <2>1, <2>2 DEF sent
<1> DEFINE v == toBroker \o c1.sent
<1>9. Told(Entries(c1.inflight), v \o sent, c1.submitted, World') /\ sent \in Seq(ListPacket)
  <2>1. Told(Entries(c1.inflight), v, c1.submitted, World')
    BY <1>7
  <2> HIDE DEF v
  <2> QED  BY <1>8, <2>1, ToldSends DEF AllCarry
<1>10. v \o sent = toBroker \o c2.sent /\ c2.sent \in Seq(ListPacket)
  <2>1. sent \in Seq(ListPacket)
    BY <1>9
  <2>2. v \o sent = toBroker \o (c1.sent \o sent) /\ c1.sent \o sent \in Seq(ListPacket)
    BY <1>7, <2>1, Longer
  <2> HIDE DEF v
  <2> QED  BY <1>6, <2>2
<1> HIDE DEF v
<1>11. ClientTold(c2, toBroker, World')
  BY <1>6, <1>7, <1>8, <1>9, <1>10 DEF ClientTold
<1>12. Told(Entries(msgs_out'), toBroker', submitted', World')
  BY <1>5, <1>11, BecomeTold
<1>13. submitted' = c1.submitted
  BY <1>5, <1>6 DEF Become
<1> QED  BY <1>4, <1>12, <1>13 DEF AllTold

LEMMA RefusedTold ==
  ASSUME AInv, Listed(msgs_out, Len(submitted), {}), AllTold, HandleConnackRefused
  PROVE  AllTold' /\ Submits(submitted, submitted')
<1> DEFINE c0 == [Client EXCEPT !.inflight = ReconnectReset(@, TRUE),
                                !.quota = QuotaAfterReset(msgs_out)]
<1>1. PICK calls \in CallbackCalls : Become(InCallback(c0, calls))
  BY DEF HandleConnackRefused
<1> DEFINE c1 == InCallback(c0, calls)
<1>2. toClient' = <<>> /\ session' = session /\ delivered' = delivered /\ acked' = acked
  BY DEF HandleConnackRefused, CloseLink, brokerVars
<1>3. Told(Entries(msgs_out), toBroker, submitted, World')
  BY <1>2, WorldReads
<1>4. ClientTold(c1, toBroker, World') /\ Submits(submitted, c1.submitted)
  BY <1>3, ResetTold
<1>5. Become(c1)
  BY <1>1
<1> HIDE DEF c1
<1>6. Told(Entries(msgs_out'), toBroker', submitted', World')
  BY <1>4, <1>5, BecomeTold
<1>7. submitted' = c1.submitted
  BY <1>5 DEF Become
<1> QED  BY <1>4, <1>6, <1>7 DEF AllTold

-----------------------------------------------------------------------------
\* An acknowledgment is for a message of the list that has been passed on and
\* not yet reported.
LEMMA AckIsFor ==
  ASSUME TInv, toClient # <<>>, Head(toClient).type \in {"PUBACK", "PUBREC", "PUBCOMP"}
  PROVE  LET i == FirstAt(msgs_out, Head(toClient).mid)
             e == Entry(msgs_out[i])
         IN /\ Known(msgs_out, Head(toClient).mid) /\ i \in 1..Len(msgs_out)
            /\ msgs_out[i].mid = Head(toClient).mid
            /\ e \in Entries(msgs_out) /\ e.id = msgs_out[i].id /\ e.mid = Head(toClient).mid
            /\ e.qos = msgs_out[i].qos
            /\ Kept(e, submitted, World) /\ delivered[e.id] > 0
            /\ (Head(toClient).type = "PUBCOMP" \/ e.qos = 1) => e.mid \notin session.stored
<1> DEFINE p == Head(toClient)
           i == FirstAt(msgs_out, p.mid)
           e == Entry(msgs_out[i])
           A == Entries(msgs_out)
<1>1. /\ msgs_out \in Seq(Message) /\ Apart(A)
      /\ toClient \in Seq(ClientPacket)
  BY ListTypes, EntriesApart DEF TInv, IdsDiffer, Traffic
<1>2. Known(msgs_out, p.mid) /\ i \in 1..Len(msgs_out) /\ IsFirstAt(msgs_out, p.mid, i)
  BY AckedFirst DEF TInv
<1>3. msgs_out[i].mid = p.mid
  BY <1>2 DEF IsFirstAt, At
<1> HIDE DEF i
<1>4. e \in A /\ e.id = msgs_out[i].id /\ e.mid = p.mid /\ e.qos = msgs_out[i].qos
  BY <1>2, <1>3 DEF Entries, Entry
<1>5. p = toClient[1] /\ 1 \in 1..Len(toClient) /\ p.type # "CONNACK"
  BY <1>1, TailFacts
<1>6. /\ \A f \in A : Kept(f, submitted, World)
      /\ \A n \in 1..Len(toClient) : Earned(toClient[n], A, World)
      /\ \A mid \in session.stored : StoredFor(mid, A, World)
  BY WorldIs DEF TInv, AllTold, Told
<1> HIDE DEF A, e
<1>7. \A f \in A : f.mid = p.mid => f = e
  BY <1>1, <1>4 DEF Apart
<1>8. delivered[e.id] > 0 /\ (p.type = "PUBCOMP" => e.mid \notin session.stored)
  <2>1. Earned(p, A, World)
    BY <1>5, <1>6
  <2>2. PICK f \in A : /\ f.mid = p.mid /\ World.delivered[f.id] > 0
                       /\ p.type = "PUBCOMP" => p.mid \notin World.stored
    BY <1>5, <2>1 DEF Earned
  <2> QED  BY <1>4, <1>7, <2>2, WorldIs
<1>9. e.qos = 1 => e.mid \notin session.stored
  <2> SUFFICES ASSUME e.mid \in session.stored
               PROVE  e.qos = 2
    OBVIOUS
  <2>1. StoredFor(e.mid, A, World)
    BY <1>6
  <2>2. PICK f \in A : f.mid = e.mid /\ f.qos = 2
    BY <2>1 DEF StoredFor
  <2> QED  BY <1>4, <1>7, <2>2
<1>10. Kept(e, submitted, World)
  BY <1>4, <1>6
<1> QED  BY <1>2, <1>3, <1>4, <1>8, <1>9, <1>10 DEF e, A, i

LEMMA PubackcompTold ==
  ASSUME TInv, HandlePubackcomp
  PROVE  AllTold' /\ Submits(submitted, submitted')
         /\ \E e \in Entries(msgs_out) : /\ Kept(e, submitted, World) /\ delivered[e.id] > 0
                                         /\ acked' = acked \cup {e.id}
<1> DEFINE p  == Head(toClient)
           i  == FirstAt(msgs_out, p.mid)
           e  == Entry(msgs_out[i])
           a0 == [Client EXCEPT !.quota = IncrementQuota(@),
                                !.inflight = MessageRemove(@, p.mid)]
           A  == Entries(msgs_out)
<1>1. <<>> \in CallbackCalls
  BY DEF CallbackCalls
<1>2. PICK calls \in CallbackCalls :
        Become(Released(InCallback(a0, calls), link = "up"))
  BY <1>1 DEF HandlePubackcomp
<1> DEFINE a1 == InCallback(a0, calls)
           a2 == Released(a1, link = "up")
<1>3. /\ toClient # <<>> /\ p.type \in {"PUBACK", "PUBCOMP"}
      /\ p.type \in {"PUBACK", "PUBREC", "PUBCOMP"}
      /\ toClient' = Tail(toClient) /\ session' = session /\ delivered' = delivered
      /\ QosMatches(msgs_out, p.mid, AckQos(p))
      /\ Known(msgs_out, p.mid) => acked' = acked \cup {msgs_out[i].id}
  BY DEF HandlePubackcomp, Incoming, brokerVars
<1>4. /\ Known(msgs_out, p.mid) /\ i \in 1..Len(msgs_out)
      /\ e \in A /\ e.id = msgs_out[i].id /\ e.mid = p.mid /\ e.qos = msgs_out[i].qos
      /\ Kept(e, submitted, World) /\ delivered[e.id] > 0
      /\ (p.type = "PUBCOMP" \/ e.qos = 1) => e.mid \notin session.stored
  BY <1>3, AckIsFor
<1>5. e.mid \notin session.stored
  <2>1. p.type = "PUBACK" => msgs_out[i].qos = 1
    BY <1>3, <1>4 DEF QosMatches, AckQos
  <2> HIDE DEF e, i, p
  <2> QED  BY <1>3, <1>4, <2>1
<1>6. acked' = acked \cup {e.id}
  <2> HIDE DEF e, i, p
  <2> QED  BY <1>3, <1>4
<1>7. /\ Numbered(msgs_out) /\ ClientTypeOK /\ msgs_out \in Seq(Message) /\ Apart(A)
      /\ Traffic
  BY ListTypes, EntriesApart DEF TInv, IdsDiffer
<1>8. NoneAsks(toBroker, e.mid) /\ NoneAnswers(toClient', e.mid)
  <2>1. NoneAsks(toBroker, p.mid) /\ NoneAnswers(Tail(toClient), p.mid)
    BY <1>3, <1>7, AckIsLast DEF TInv
  <2> HIDE DEF e, i, p
  <2> QED  BY <1>3, <1>4, <2>1
<1>9. Told(A \ {e}, toBroker, submitted, World')
  <2> DEFINE w == World
             w2 == World'
  <2>1. /\ w2.stored = w.stored /\ w2.clean = w.clean /\ w2.delivered = w.delivered
        /\ w2.acked = w.acked \cup {e.id}
        /\ w.back # <<>> /\ w2.back = Tail(w.back)
        /\ e.mid \notin w.stored /\ NoneAnswers(w2.back, e.mid)
    <3> HIDE DEF e
    <3> QED  BY <1>3, <1>5, <1>6, <1>8, WorldIs, WorldNext
  <2>2. Told(A, toBroker, submitted, w)
    BY DEF TInv, AllTold
  <2> HIDE DEF w, w2, A, e
  <2>3. Told(A \ {e}, toBroker, submitted, w2)
    BY <1>4, <1>7, <1>8, <2>1, <2>2, ToldRemoves
  <2> QED  BY <2>3 DEF w2
<1>10. /\ MessageRemove(msgs_out, p.mid) = RemoveFrom(msgs_out, i)
       /\ MessageRemove(msgs_out, p.mid) \in Seq(Message)
       /\ IncrementQuota(inflight_quota) \in 0..InflightMaximum
  BY <1>4, <1>7, RemoveType, IncrementQuotaType DEF ClientTypeOK, MessageRemove
<1>11. /\ a0.inflight = RemoveFrom(msgs_out, i) /\ a0.submitted = submitted
       /\ a0.quota = IncrementQuota(inflight_quota) /\ a0.mid = last_mid /\ a0.sent = <<>>
  BY <1>10 DEF Client
<1> HIDE DEF a0, i, p
<1>12. ClientOK(a0)
  BY <1>7, <1>10, <1>11 DEF ClientOK, ClientTypeOK
<1>13. Entries(a0.inflight) = A \ {e}
  <2>1. Entries(RemoveFrom(msgs_out, i)) = Entries(msgs_out) \ {Entry(msgs_out[i])}
    BY <1>4, <1>7, RemoveEntries
  <2> QED  BY <1>11, <2>1
<1> HIDE DEF A, e
<1>14. ClientTold(a0, toBroker, World')
  BY <1>9, <1>11, <1>13, StartTold
<1>15. ClientOK(a1) /\ ClientTold(a1, toBroker, World') /\ Submits(submitted, a1.submitted)
  BY <1>11, <1>12, <1>14, InCallbackType, InCallbackTold, InCallbackSubmits
<1> HIDE DEF a1
<1>16. ClientTold(a2, toBroker, World') /\ a2.submitted = a1.submitted
  <2>1. (link = "up") \in BOOLEAN
    OBVIOUS
  <2> QED  BY <1>15, <2>1, ReleasedTold DEF Released
<1>17. Become(a2)
  BY <1>2 DEF a1
<1> HIDE DEF a2
<1>18. Told(Entries(msgs_out'), toBroker', submitted', World')
  BY <1>16, <1>17, BecomeTold
<1>19. submitted' = a1.submitted
  BY <1>16, <1>17 DEF Become
<1> QED  BY <1>4, <1>6, <1>15, <1>18, <1>19 DEF AllTold, A

LEMMA PubrecTold ==
  ASSUME TInv, HandlePubrec
  PROVE  AllTold'
<1> DEFINE p == Head(toClient)
           i == FirstAt(msgs_out, p.mid)
           e == Entry(msgs_out[i])
           A == Entries(msgs_out)
           B == (A \ {e}) \cup {Passed(e)}
<1>1. /\ toClient # <<>> /\ p.type = "PUBREC"
      /\ p.type \in {"PUBACK", "PUBREC", "PUBCOMP"}
      /\ toClient' = <<>> \/ toClient' = Tail(toClient)
      /\ session' = session /\ delivered' = delivered /\ acked' = acked
      /\ submitted' = submitted
      /\ msgs_out' = IF QosMatches(msgs_out, p.mid, 2)
                     THEN OutUpdate(msgs_out, p.mid, "wait_for_pubcomp") ELSE msgs_out
      /\ \/ toBroker' = toBroker
         \/ QosMatches(msgs_out, p.mid, 2) /\ toBroker' = Append(toBroker, MidPacket("PUBREL", p.mid))
  BY DEF HandlePubrec, Incoming, CloseLink, brokerVars
<1>2. /\ Known(msgs_out, p.mid) /\ i \in 1..Len(msgs_out)
      /\ e \in A /\ e.mid = p.mid /\ e.qos = msgs_out[i].qos /\ delivered[e.id] > 0
  BY <1>1, AckIsFor
<1>3. /\ Numbered(msgs_out) /\ msgs_out \in Seq(Message) /\ Traffic
      /\ toBroker \in Seq(BrokerPacket)
  BY ListTypes DEF TInv, Traffic
<1>4. NoneAsks(toBroker, e.mid) /\ p.mid \in 1..MaxMid
  <2>1. NoneAsks(toBroker, p.mid) /\ p.mid \in 1..MaxMid
    BY <1>1, <1>3, AckIsLast DEF TInv
  <2> HIDE DEF e, i, p
  <2> QED  BY <1>2, <2>1
<1>5. Told(A, toBroker, submitted, World')
  BY <1>1, WorldReads DEF TInv
<1>6. CASE ~QosMatches(msgs_out, p.mid, 2)
  BY <1>1, <1>5, <1>6 DEF AllTold
<1>7. CASE QosMatches(msgs_out, p.mid, 2)
  <2>1. msgs_out' = [msgs_out EXCEPT ![i].state = "wait_for_pubcomp"] /\ msgs_out[i].qos = 2
    BY <1>1, <1>2, <1>7 DEF OutUpdate, QosMatches
  <2> HIDE DEF i, p
  <2>2. Entries(msgs_out') = B
    <3>1. Entries([msgs_out EXCEPT ![i].state = "wait_for_pubcomp"])
            = (Entries(msgs_out) \ {Entry(msgs_out[i])}) \cup {Passed(Entry(msgs_out[i]))}
      BY <1>2, <1>3, UpdateEntries
    <3> QED  BY <2>1, <3>1
  <2>3. World'.delivered[e.id] > 0
    BY <1>1, <1>2, WorldNext
  <2>4. Passed(e) \in B /\ Passed(e).mid = e.mid /\ Passed(e).past
    BY DEF Passed
  <2> HIDE DEF e, A
  <2>5. Told((A \ {e}) \cup {Passed(e)}, toBroker, submitted, World')
    <3> DEFINE w2 == World'
    <3>1. w2.delivered[e.id] > 0 /\ Told(A, toBroker, submitted, w2)
      BY <1>5, <2>3
    <3> HIDE DEF w2
    <3>2. Told((A \ {e}) \cup {Passed(e)}, toBroker, submitted, w2)
      BY <1>2, <1>4, <2>1, <3>1, ToldPasses
    <3> QED  BY <3>2 DEF w2
  <2>6. Told(B, toBroker, submitted, World')
    BY <2>5
  <2> DEFINE r == MidPacket("PUBREL", p.mid)
  <2>7. Carries(r, B) /\ r \in ListPacket
    BY <1>2, <1>4, <2>4 DEF MidPacket, Carries, ListPacket
  <2> HIDE DEF r, B
  <2>8. Told(B, toBroker \o <<r>>, submitted, World')
    <3>1. AllCarry(<<r>>, B)
      BY <2>7 DEF AllCarry
    <3> QED  BY <2>6, <3>1, ToldSends
  <2>9. toBroker' = toBroker \/ toBroker' = toBroker \o <<r>>
    <3>1. r \in BrokerPacket
      BY <2>7 DEF BrokerPacket
    <3>2. toBroker \o <<r>> = Append(toBroker, r)
      BY <1>3, <3>1
    <3> QED  BY <1>1, <3>2 DEF r
  <2> QED  BY <1>1, <2>2, <2>6, <2>8, <2>9 DEF AllTold
<1> QED  BY <1>6, <1>7

-----------------------------------------------------------------------------
\* The broker answers with p, if anybody is there to read it.
LEMMA ToldAnswers ==
  ASSUME NEW A, NEW b, NEW sub, NEW w, Told(A, b, sub, w), NEW w2, SameBut(w, w2),
         NEW p \in ClientPacket, Earned(p, A, w),
         w2.back = Append(w.back, p) \/ w2.back = w.back
  PROVE  Told(A, b, sub, w2)
BY ToldReplies, ToldReads

\* The world after the broker's step, but for its answer.
Unanswered(s, d) == [back |-> toClient, stored |-> s, clean |-> session.clean,
                     delivered |-> d, acked |-> acked]

LEMMA UnansweredIs ==
  ASSUME NEW s, NEW d, NEW p, Reply(p), session'.stored = s, session'.clean = session.clean,
         delivered' = d, acked' = acked
  PROVE  LET w == Unanswered(s, d)
         IN /\ SameBut(w, World') /\ (World'.back = Append(w.back, p) \/ World'.back = w.back)
            /\ w.back = World.back /\ w.clean = World.clean /\ w.acked = World.acked
            /\ w.stored = s /\ w.delivered = d
<1> DEFINE w == Unanswered(s, d)
<1>1. /\ w.back = toClient /\ w.stored = s /\ w.clean = session.clean
      /\ w.delivered = d /\ w.acked = acked
  BY DEF Unanswered
<1> HIDE DEF w
<1>2. toClient' = Append(toClient, p) \/ toClient' = toClient
  BY DEF Reply
<1>3. SameBut(w, World') /\ (World'.back = Append(w.back, p) \/ World'.back = w.back)
  BY <1>1, <1>2, WorldNext DEF SameBut
<1> QED  BY <1>1, <1>3, WorldIs DEF w

\* The broker's session has its type.
SessionOK ==
  session \in [accepted : BOOLEAN, stored : SUBSET (1..MaxMid), clean : CleanSessions]

\* What the broker does to its session, action by action.
LEMMA ConnectSession ==
  ASSUME SessionOK, BrokerConnect
  PROVE  /\ SessionOK' /\ session'.clean = session.clean
         /\ session'.stored = session.stored \/ (session.clean /\ session'.stored = {})
<1>1. PICK accepted \in BOOLEAN :
        session' = [session EXCEPT !.accepted = accepted,
                      !.stored = IF accepted /\ session.clean THEN {} ELSE @]
  BY DEF BrokerConnect
<1>2. session' = [accepted |-> accepted,
                  stored |-> IF accepted /\ session.clean THEN {} ELSE session.stored,
                  clean |-> session.clean]
  BY <1>1 DEF SessionOK
<1> QED  BY <1>2 DEF SessionOK

LEMMA StoredSession ==
  ASSUME SessionOK, NEW s \in SUBSET (1..MaxMid), session' = [session EXCEPT !.stored = s]
  PROVE  SessionOK' /\ session'.clean = session.clean /\ session'.stored = s
<1>1. session' = [accepted |-> session.accepted, stored |-> s, clean |-> session.clean]
  BY DEF SessionOK
<1> QED  BY <1>1 DEF SessionOK

LEMMA HangUpSession ==
  ASSUME SessionOK, BrokerHangUp
  PROVE  SessionOK' /\ session'.clean = session.clean /\ session'.stored = session.stored
<1>1. session' = [session EXCEPT !.accepted = FALSE]
  BY DEF BrokerHangUp
<1>2. session' = [accepted |-> FALSE, stored |-> session.stored, clean |-> session.clean]
  BY <1>1 DEF SessionOK
<1> QED  BY <1>2 DEF SessionOK

LEMMA AskedMid ==
  ASSUME Traffic, toBroker # <<>>, Head(toBroker).type \in {"PUBLISH", "PUBREL"}
  PROVE  /\ Head(toBroker) \in ListPacket /\ Head(toBroker) \in BrokerPacket
         /\ Head(toBroker).mid \in 1..MaxMid
<1>1. Head(toBroker) \in BrokerPacket
  BY TailFacts DEF Traffic
<1> QED  BY <1>1 DEF BrokerPacket, ListPacket

LEMMA ConnectTold ==
  ASSUME TInv, SessionOK, BrokerConnect
  PROVE  AllTold' /\ SessionOK' /\ session'.clean = session.clean
<1> DEFINE A == Entries(msgs_out)
           t == Tail(toBroker)
<1>1. /\ SessionOK' /\ session'.clean = session.clean
      /\ session'.stored = session.stored \/ (session.clean /\ session'.stored = {})
  BY ConnectSession
<1>2. PICK accepted \in BOOLEAN : Reply([type |-> "CONNACK", accepted |-> accepted])
  BY DEF BrokerConnect
<1> DEFINE p == [type |-> "CONNACK", accepted |-> accepted]
           w == Unanswered(session'.stored, delivered)
<1>3. /\ toBroker # <<>> /\ toBroker' = t /\ msgs_out' = msgs_out /\ submitted' = submitted
      /\ delivered' = delivered /\ acked' = acked
  BY DEF BrokerConnect, msgVars
<1>4. /\ SameBut(w, World') /\ (World'.back = Append(w.back, p) \/ World'.back = w.back)
      /\ w.back = World.back /\ w.clean = World.clean /\ w.acked = World.acked
      /\ w.stored = session'.stored /\ w.delivered = delivered
  BY <1>1, <1>2, <1>3, UnansweredIs
<1> HIDE DEF w, A, t
<1>5. Told(A, t, submitted, World)
  BY <1>3, ToldTail DEF TInv, AllTold, A, t
<1>6. Told(A, t, submitted, w)
  <2>1. /\ w.stored \subseteq World.stored /\ w.delivered = World.delivered
        /\ \A e \in A : ~World.clean /\ ~e.past /\ e.mid \in World.stored => e.mid \in w.stored
    BY <1>1, <1>4, WorldIs
  <2> QED  BY <1>4, <1>5, <2>1, ToldForgets
<1>7. p \in ClientPacket /\ Earned(p, A, w)
  BY DEF ClientPacket, Earned
<1> HIDE DEF p
<1>8. Told(A, t, submitted, World')
  BY <1>4, <1>6, <1>7, ToldAnswers
<1> QED  BY <1>1, <1>3, <1>8 DEF AllTold, A

LEMMA PubrelTold ==
  ASSUME TInv, SessionOK, BrokerPubrel
  PROVE  AllTold' /\ SessionOK' /\ session'.clean = session.clean
<1> DEFINE A == Entries(msgs_out)
           t == Tail(toBroker)
           h == Head(toBroker)
           s == session.stored \ {h.mid}
           p == MidPacket("PUBCOMP", h.mid)
           w == Unanswered(s, delivered)
<1>1. /\ toBroker # <<>> /\ toBroker' = t /\ msgs_out' = msgs_out /\ submitted' = submitted
      /\ delivered' = delivered /\ acked' = acked /\ h.type = "PUBREL" /\ Reply(p)
      /\ session' = [session EXCEPT !.stored = @ \ {h.mid}]
  BY DEF BrokerPubrel, msgVars
<1>2. /\ Traffic /\ Apart(A) /\ toBroker \in Seq(BrokerPacket)
  BY ListTypes, EntriesApart DEF TInv, IdsDiffer, Traffic
<1>3. h \in BrokerPacket /\ h.mid \in 1..MaxMid
  BY <1>1, <1>2, AskedMid
<1>4. SessionOK' /\ session'.clean = session.clean /\ session'.stored = s
  <2>1. session' = [session EXCEPT !.stored = s] /\ s \in SUBSET (1..MaxMid)
    BY <1>1 DEF SessionOK
  <2> HIDE DEF s
  <2> QED  BY <2>1, StoredSession
<1>5. /\ SameBut(w, World') /\ (World'.back = Append(w.back, p) \/ World'.back = w.back)
      /\ w.back = World.back /\ w.clean = World.clean /\ w.acked = World.acked
      /\ w.stored = s /\ w.delivered = delivered
  <2> HIDE DEF s, p
  <2> QED  BY <1>1, <1>4, UnansweredIs
<1> HIDE DEF w, A, t
<1>6. Told(A, toBroker, submitted, World) /\ Told(A, t, submitted, World)
  BY <1>1, ToldTail DEF TInv, AllTold, A, t
<1>7. PICK e \in A : e.mid = h.mid /\ e.past
  <2>1. Backed(h, A, submitted, World)
    <3>1. h = toBroker[1] /\ 1 \in 1..Len(toBroker)
      BY <1>1, <1>2, TailFacts
    <3> QED  BY <1>6, <3>1 DEF Told, Backs
  <2> QED  BY <1>1, <2>1 DEF Backed, QosZero, Carries
<1>8. \A f \in A : f.mid = h.mid => f = e
  BY <1>2, <1>7 DEF Apart
<1>9. Told(A, t, submitted, w)
  <2>1. /\ w.stored \subseteq World.stored /\ w.delivered = World.delivered
        /\ \A f \in A : ~World.clean /\ ~f.past /\ f.mid \in World.stored => f.mid \in w.stored
    BY <1>5, <1>7, <1>8, WorldIs
  <2> QED  BY <1>5, <1>6, <2>1, ToldForgets
<1>10. p \in ClientPacket /\ p.type = "PUBCOMP" /\ p.mid = h.mid
  BY <1>3 DEF MidPacket, ClientPacket
<1>11. Earned(p, A, w)
  <2>1. w.delivered[e.id] > 0
    BY <1>7, <1>9 DEF Told, Kept
  <2>2. h.mid \notin w.stored
    BY <1>5
  <2> HIDE DEF p, h
  <2> QED  BY <1>7, <1>10, <2>1, <2>2 DEF Earned
<1> HIDE DEF p
<1>12. Told(A, t, submitted, World')
  BY <1>5, <1>9, <1>10, <1>11, ToldAnswers
<1> QED  BY <1>1, <1>4, <1>12 DEF AllTold, A

-----------------------------------------------------------------------------
\* A PUBLISH that the broker passes on may be passed on.
LEMMA MayPass ==
  ASSUME NEW A, NEW b, NEW sub, NEW w, Told(A, b, sub, w), b # <<>>,
         Head(b).type = "PUBLISH", Head(b).qos = 2 => Head(b).mid \notin w.stored
  PROVE  LET id == Head(b).id
         IN /\ id \in 1..Len(sub) /\ id \notin w.acked
            /\ sub[id] = 0 \/ (sub[id] = 2 /\ ~w.clean) => w.delivered[id] = 0
<1> DEFINE h == Head(b)
<1>1. /\ b \in Seq(BrokerPacket) /\ \A i \in 1..Len(b) : Backed(b[i], A, sub, w)
      /\ \A e \in A : Kept(e, sub, w)
      /\ \A id \in w.acked : sub[id] > 0
      /\ sub \in Seq(QosLevels) /\ Len(sub) <= MaxPublish
      /\ w.delivered \in [1..MaxPublish -> Nat]
  BY DEF Told, ToldTypes, Backs, Histories
<1>2. h = b[1] /\ 1 \in 1..Len(b)
  BY <1>1, TailFacts
<1>3. Backed(h, A, sub, w)
  BY <1>1, <1>2
<1>4. CASE Carries(h, A)
  <2>1. h.qos > 0 /\ \E e \in A : e.id = h.id /\ e.mid = h.mid /\ e.qos = h.qos /\ ~e.past
    BY <1>4 DEF Carries
  <2>2. PICK e \in A : e.id = h.id /\ e.mid = h.mid /\ e.qos = h.qos /\ ~e.past
    BY <2>1
  <2>3. Kept(e, sub, w)
    BY <1>1
  <2>4. e.id \in 1..Len(sub) /\ e.id \notin w.acked /\ sub[e.id] = e.qos /\ e.qos \in {1, 2}
    BY <2>3 DEF Kept
  <2>5. w.delivered[e.id] \in Nat
    <3>1. e.id \in 1..MaxPublish
      <4>1. Len(sub) \in Nat /\ MaxPublish \in Nat
        BY <1>1, BoundsAssumption
      <4> QED  BY <1>1, <2>4, <4>1
    <3> QED  BY <1>1, <3>1
  <2>6. e.qos = 2 /\ ~w.clean => ~(w.delivered[e.id] > 0)
    BY <2>2, <2>3 DEF Kept
  <2> HIDE DEF h
  <2>7. e.qos = 2 /\ ~w.clean => w.delivered[e.id] = 0
    BY <2>5, <2>6
  <2>8. /\ h.id \in 1..Len(sub) /\ h.id \notin w.acked
        /\ sub[h.id] = 0 \/ (sub[h.id] = 2 /\ ~w.clean) => w.delivered[h.id] = 0
    BY <2>2, <2>4, <2>7
  <2> QED  BY <2>8 DEF h
<1>5. CASE ~Carries(h, A)
  <2>1. h.id \in 1..Len(sub) /\ sub[h.id] = 0 /\ w.delivered[h.id] = 0
    BY <1>3, <1>5 DEF Backed
  <2>2. h.id \notin w.acked
    BY <1>1, <2>1
  <2> QED  BY <2>1, <2>2
<1> QED  BY <1>4, <1>5

\* The broker passes on the message of the PUBLISH it reads, or it had done so.
PassesOn ==
  \/ delivered' = delivered
  \/ \E id \in 1..Len(submitted) :
       /\ id \notin acked
       /\ submitted[id] = 0 \/ (submitted[id] = 2 /\ ~session.clean) => delivered[id] = 0
       /\ delivered' = [delivered EXCEPT ![id] = @ + 1]

LEMMA BrokerPublishTold ==
  ASSUME TInv, SessionOK, BrokerPublish
  PROVE  AllTold' /\ SessionOK' /\ session'.clean = session.clean /\ PassesOn
<1> DEFINE A == Entries(msgs_out)
           t == Tail(toBroker)
           h == Head(toBroker)
           s == session.stored \cup {h.mid}
           d == OnceMore(delivered, h)
<1>1. /\ toBroker # <<>> /\ toBroker' = t /\ msgs_out' = msgs_out /\ submitted' = submitted
      /\ acked' = acked /\ h.type = "PUBLISH"
      /\ \/ h.qos = 0 /\ delivered' = d /\ session' = session /\ toClient' = toClient
         \/ /\ h.qos = 1 /\ delivered' = d /\ Reply(MidPacket("PUBACK", h.mid))
            /\ session' = session
         \/ /\ h.qos = 2
            /\ delivered' = IF h.mid \in session.stored THEN delivered ELSE d
            /\ session' = [session EXCEPT !.stored = s]
            /\ Reply(MidPacket("PUBREC", h.mid))
  <2> HIDE DEF t, d, s
  <2>1. BrokerPublish
    OBVIOUS
  <2> QED  BY <2>1 DEF BrokerPublish, msgVars, Deliver, OnceMore, t, d, s
<1>2. /\ Traffic /\ Once /\ Apart(A) /\ Told(A, toBroker, submitted, World)
  BY ListTypes, EntriesApart DEF TInv, IdsDiffer, AllTold
<1>3. h \in BrokerPacket /\ h \in ListPacket /\ h.mid \in 1..MaxMid
  BY <1>1, <1>2, AskedMid
<1>4. h.qos = 0 \/ h.qos = 1 \/ h.qos = 2
  BY <1>1
<1>5. h.qos > 0 => NoneAnswers(toClient, h.mid)
  <2> SUFFICES ASSUME h.qos > 0
               PROVE  NoneAnswers(toClient, h.mid)
    OBVIOUS
  <2>1. h \in Asking(h.mid)
    BY <1>1, <1>3 DEF Asking
  <2> QED  BY <1>1, <1>2, <1>3, <2>1, AskIsAlone
<1>6. session' = session => SessionOK' /\ session'.clean = session.clean
                            /\ session'.stored = session.stored
  BY DEF SessionOK
<1>7. session' = [session EXCEPT !.stored = s]
        => SessionOK' /\ session'.clean = session.clean /\ session'.stored = s
  <2>1. s \in SUBSET (1..MaxMid)
    BY <1>3 DEF SessionOK
  <2> HIDE DEF s
  <2> QED  BY <2>1, StoredSession
<1>8. /\ MidPacket("PUBACK", h.mid) \in ClientPacket /\ MidPacket("PUBREC", h.mid) \in ClientPacket
      /\ MidPacket("PUBACK", h.mid).mid = h.mid /\ MidPacket("PUBREC", h.mid).mid = h.mid
      /\ MidPacket("PUBACK", h.mid).type = "PUBACK" /\ MidPacket("PUBREC", h.mid).type = "PUBREC"
  BY <1>3 DEF MidPacket, ClientPacket
<1>10. ASSUME h.qos = 2 => h.mid \notin session.stored, delivered' = d
       PROVE  PassesOn
  <2>1. h.qos = 2 => h.mid \notin World.stored
    BY <1>10, WorldIs
  <2>2. /\ h.id \in 1..Len(submitted) /\ h.id \notin World.acked
        /\ submitted[h.id] = 0 \/ (submitted[h.id] = 2 /\ ~World.clean) => World.delivered[h.id] = 0
    <3> HIDE DEF A
    <3> QED  BY <1>1, <1>2, <2>1, MayPass
  <2> HIDE DEF h
  <2> QED  BY <1>10, <2>2, WorldIs DEF PassesOn, OnceMore
\* The world once the message is passed on.
<1> DEFINE u == Storing(session.stored, h)
           v == Unanswered(u, d)
<1>11. /\ Told(A, t, submitted, v)
       /\ h.qos > 0 => \E e \in A : e.mid = h.mid /\ v.delivered[e.id] > 0
  <2>1. /\ v.back = World.back /\ v.clean = World.clean /\ v.acked = World.acked
        /\ v.stored = u /\ v.delivered = d
        /\ World.back = toClient /\ World.stored = session.stored /\ World.delivered = delivered
    BY WorldIs DEF Unanswered
  <2> HIDE DEF v, A
  <2>2. /\ v.delivered = OnceMore(World.delivered, h) /\ v.stored = Storing(World.stored, h)
        /\ h.qos = 2 => NoneAnswers(World.back, h.mid)
    BY <1>5, <2>1
  <2>3. /\ Told(A, t, submitted, v) /\ v.delivered[h.id] > 0
        /\ h.qos > 0 => \E e \in A : e.id = h.id /\ e.mid = h.mid
    BY <1>1, <1>2, <2>1, <2>2, ToldDelivers
  <2>4. h.qos > 0 => \E e \in A : e.mid = h.mid /\ v.delivered[e.id] > 0
    BY <2>3
  <2> QED  BY <2>3, <2>4
<1>12. CASE h.qos = 0
  <2>1. delivered' = d /\ session' = session /\ toClient' = toClient /\ u = session.stored
    BY <1>1, <1>12 DEF Storing
  <2>2. World' = v
    BY <1>1, <1>6, <2>1 DEF World, Unanswered
  <2> HIDE DEF v
  <2>3. Told(A, t, submitted, v)
    BY <1>11
  <2>4. Told(A, t, submitted, World')
    BY <2>2, <2>3
  <2> QED  BY <1>1, <1>6, <1>10, <1>12, <2>1, <2>4 DEF AllTold
<1>13. CASE h.qos = 1
  <2> DEFINE p == MidPacket("PUBACK", h.mid)
  <2>1. delivered' = d /\ session' = session /\ Reply(p) /\ u = session.stored
    BY <1>1, <1>13 DEF Storing
  <2>2. SameBut(v, World') /\ (World'.back = Append(v.back, p) \/ World'.back = v.back)
    <3>1. session'.stored = u /\ session'.clean = session.clean
      BY <1>6, <2>1
    <3> HIDE DEF d, p, u
    <3> QED  BY <1>1, <2>1, <3>1, UnansweredIs
  <2> HIDE DEF v
  <2>3. Told(A, t, submitted, v) /\ \E e \in A : e.mid = h.mid /\ v.delivered[e.id] > 0
    <3> HIDE DEF A
    <3> QED  BY <1>11, <1>13
  <2>4. p \in ClientPacket /\ Earned(p, A, v)
    <3> HIDE DEF A
    <3> QED  BY <1>8, <2>3 DEF Earned
  <2>5. Told(A, t, submitted, World')
    <3> HIDE DEF A, t, p
    <3> QED  BY <2>2, <2>3, <2>4, ToldAnswers
  <2> QED  BY <1>1, <1>6, <1>10, <1>13, <2>1, <2>5 DEF AllTold
<1>14. CASE h.qos = 2
  <2> DEFINE p == MidPacket("PUBREC", h.mid)
             d2 == IF h.mid \in session.stored THEN delivered ELSE d
             w == Unanswered(s, d2)
  <2>1. /\ delivered' = d2 /\ Reply(p) /\ session' = [session EXCEPT !.stored = s]
        /\ SessionOK' /\ session'.clean = session.clean /\ session'.stored = s
    <3> HIDE DEF s, d, t
    <3> QED  BY <1>1, <1>7, <1>14
  <2>2. SameBut(w, World') /\ (World'.back = Append(w.back, p) \/ World'.back = w.back)
    <3> HIDE DEF d2, p, s
    <3> QED  BY <1>1, <2>1, UnansweredIs
  <2>3. Told(A, t, submitted, w) /\ \E e \in A : e.mid = h.mid /\ w.delivered[e.id] > 0
    <3>1. CASE h.mid \notin session.stored
      <4>1. w = v
        BY <1>14, <3>1 DEF Storing
      <4> HIDE DEF w, v, A
      <4> QED  BY <1>11, <1>14, <4>1
    <3>2. CASE h.mid \in session.stored
      <4>1. w = World
        <5>1. s = session.stored /\ d2 = delivered
          BY <3>2
        <5> QED  BY <5>1 DEF Unanswered, World
      <4>2. Told(A, t, submitted, World)
        <5> HIDE DEF A
        <5> QED  BY <1>1, <1>2, ToldTail
      <4>3. \E e \in A : e.mid = h.mid /\ World.delivered[e.id] > 0
        <5>1. StoredFor(h.mid, A, World)
          <6> HIDE DEF A
          <6> QED  BY <1>2, <3>2, WorldIs DEF Told
        <5> QED  BY <5>1 DEF StoredFor
      <4> HIDE DEF w, A, t
      <4> QED  BY <4>1, <4>2, <4>3
    <3> QED  BY <3>1, <3>2
  <2> HIDE DEF w
  <2>4. p \in ClientPacket /\ Earned(p, A, w)
    <3> HIDE DEF A
    <3> QED  BY <1>8, <2>3 DEF Earned
  <2>5. Told(A, t, submitted, World')
    <3> HIDE DEF A, t, p
    <3> QED  BY <2>2, <2>3, <2>4, ToldAnswers
  <2>6. PassesOn
    <3>1. CASE h.mid \in session.stored
      BY <2>1, <3>1 DEF PassesOn
    <3>2. CASE h.mid \notin session.stored
      BY <1>10, <2>1, <3>2
    <3> QED  BY <3>1, <3>2
  <2> QED  BY <1>1, <2>1, <2>5, <2>6 DEF AllTold
<1> QED  BY <1>4, <1>12, <1>13, <1>14

LEMMA HangUpTold ==
  ASSUME TInv, SessionOK, BrokerHangUp
  PROVE  AllTold' /\ SessionOK' /\ session'.clean = session.clean
<1>1. SessionOK' /\ session'.clean = session.clean /\ session'.stored = session.stored
  BY HangUpSession
<1>2. /\ toBroker # <<>> /\ toBroker' = Tail(toBroker) /\ msgs_out' = msgs_out
      /\ submitted' = submitted /\ delivered' = delivered /\ acked' = acked
      /\ toClient' = toClient
  BY DEF BrokerHangUp, msgVars
<1>3. World' = World
  BY <1>1, <1>2 DEF World
<1>4. Told(Entries(msgs_out), Tail(toBroker), submitted, World)
  BY <1>2, ToldTail DEF TInv, AllTold
<1> QED  BY <1>1, <1>2, <1>3, <1>4 DEF AllTold

-----------------------------------------------------------------------------
\* What a step means to the application.
Quiet == submitted' = submitted /\ delivered' = delivered /\ acked' = acked

Submitting == Submits(submitted, submitted') /\ delivered' = delivered /\ acked' = acked

Reporting ==
  /\ Submits(submitted, submitted') /\ delivered' = delivered
  /\ \E e \in Entries(msgs_out) : /\ Kept(e, submitted, World) /\ delivered[e.id] > 0
                                  /\ acked' = acked \cup {e.id}

Passing == PassesOn /\ submitted' = submitted /\ acked' = acked

Promised == session'.clean = session.clean /\ (Submitting \/ Reporting \/ Passing)

LEMMA QuietPromised ==
  ASSUME Quiet, session' = session
  PROVE  Promised
BY DEF Quiet, Promised, Submitting, Submits

LEMMA SameSession ==
  ASSUME SessionOK, session' = session
  PROVE  SessionOK'
BY DEF SessionOK

\* Steps that leave the list and the packets on their way to the broker alone.
LEMMA ReadingTold ==
  ASSUME TInv, SessionOK, UNCHANGED <<msgs_out, toBroker, submitted, session, delivered, acked>>,
         toClient' = <<>> \/ toClient' = toClient \/ (toClient # <<>> /\ toClient' = Tail(toClient))
  PROVE  AllTold' /\ SessionOK' /\ Promised
<1>1. Told(Entries(msgs_out), toBroker, submitted, World')
  BY WorldReads DEF TInv
<1>2. SessionOK' /\ Promised
  BY SameSession, QuietPromised DEF Quiet
<1> QED  BY <1>1, <1>2 DEF AllTold

LEMMA DisconnectTold ==
  ASSUME TInv, SessionOK, Disconnect
  PROVE  AllTold' /\ SessionOK' /\ Promised
<1>1. /\ UNCHANGED <<msgs_out, submitted, session, delivered, acked>>
      /\ toClient' = <<>> \/ toClient' = toClient
      /\ toBroker' = toBroker \/ toBroker' = Append(toBroker, [type |-> "DISCONNECT"])
  BY DEF Disconnect, CloseLink, msgVars, brokerVars
<1>2. Told(Entries(msgs_out), toBroker, submitted, World')
  BY <1>1, WorldReads DEF TInv
<1>3. Told(Entries(msgs_out), toBroker', submitted, World')
  BY <1>1, <1>2, ToldDisconnect
<1>4. SessionOK' /\ Promised
  BY <1>1, SameSession, QuietPromised DEF Quiet
<1> QED  BY <1>1, <1>3, <1>4 DEF AllTold

LEMMA ReconnectTold ==
  ASSUME TInv, SessionOK, Reconnect \/ ReconnectFails
  PROVE  AllTold' /\ SessionOK' /\ Promised
<1>1. /\ UNCHANGED <<submitted, session, delivered, acked>> /\ toClient' = <<>>
      /\ msgs_out' = ReconnectReset(msgs_out, FALSE)
      /\ toBroker' = toBroker \/ toBroker' = <<ConnectPacket>>
  BY DEF Reconnect, ReconnectFails, ResetForReconnect, brokerVars
<1>2. Told(Entries(msgs_out), toBroker, submitted, World')
  BY <1>1, WorldReads DEF TInv
<1>3. Told(Entries(msgs_out), toBroker', submitted, World')
  BY <1>1, <1>2, ToldConnect
<1>4. Entries(ReconnectReset(msgs_out, FALSE)) = Entries(msgs_out)
  <2>1. msgs_out \in Seq(Message) /\ Listed(msgs_out, Len(submitted), {}) /\ FALSE \in BOOLEAN
    BY ListTypes DEF TInv
  <2> QED  BY ONLY <2>1, ResetEntries
<1>5. SessionOK' /\ Promised
  BY <1>1, SameSession, QuietPromised DEF Quiet
<1> QED  BY <1>1, <1>3, <1>4, <1>5 DEF AllTold

LEMMA HandlerTold ==
  ASSUME TInv, SessionOK, HandlePacket
  PROVE  AllTold' /\ SessionOK' /\ Promised
<1>1. AInv /\ Listed(msgs_out, Len(submitted), {}) /\ AllTold
  BY DEF TInv
<1>2. CASE HandleConnack \/ HandleConnackRefused
  <2>1. session' = session /\ delivered' = delivered /\ acked' = acked
    BY <1>2 DEF HandleConnack, HandleConnackRefused, brokerVars
  <2>2. AllTold' /\ Submits(submitted, submitted')
    BY <1>1, <1>2, ConnackTold, RefusedTold
  <2> QED  BY <2>1, <2>2, SameSession DEF Promised, Submitting
<1>3. CASE Refuse
  <2>1. UNCHANGED <<msgs_out, toBroker, submitted, session, delivered, acked>> /\ toClient' = <<>>
    BY <1>3 DEF Refuse, CloseLink, msgVars, brokerVars
  <2> QED  BY <2>1, ReadingTold
<1>4. CASE HandlePubackcomp
  <2>1. session' = session /\ delivered' = delivered
    BY <1>4 DEF HandlePubackcomp, brokerVars
  <2>2. AllTold' /\ Submits(submitted, submitted')
        /\ \E e \in Entries(msgs_out) : /\ Kept(e, submitted, World) /\ delivered[e.id] > 0
                                        /\ acked' = acked \cup {e.id}
    BY <1>4, PubackcompTold
  <2> QED  BY <2>1, <2>2, SameSession DEF Promised, Reporting
<1>5. CASE HandlePubackcompMismatch
  <2>1. UNCHANGED <<msgs_out, toBroker, submitted, session, delivered, acked>> /\ toClient' = <<>>
    BY <1>5 DEF HandlePubackcompMismatch, CloseLink, brokerVars
  <2> QED  BY <2>1, ReadingTold
<1>6. CASE HandlePubrec
  <2>1. session' = session /\ delivered' = delivered /\ acked' = acked /\ submitted' = submitted
    BY <1>6 DEF HandlePubrec, brokerVars
  <2>2. AllTold'
    BY <1>6, PubrecTold
  <2> QED  BY <2>1, <2>2, SameSession, QuietPromised DEF Quiet
<1> QED  BY <1>2, <1>3, <1>4, <1>5, <1>6 DEF HandlePacket

LEMMA BrokerTold ==
  ASSUME TInv, SessionOK, Broker
  PROVE  AllTold' /\ SessionOK' /\ Promised
<1>1. CASE BrokerConnect
  <2>1. Quiet
    BY <1>1 DEF BrokerConnect, Quiet
  <2> QED  BY <1>1, <2>1, ConnectTold DEF Promised, Quiet, Submitting, Submits
<1>2. CASE BrokerPublish
  <2>1. submitted' = submitted /\ acked' = acked
    BY <1>2 DEF BrokerPublish
  <2> QED  BY <1>2, <2>1, BrokerPublishTold DEF Promised, Passing
<1>3. CASE BrokerPubrel
  <2>1. Quiet
    BY <1>3 DEF BrokerPubrel, Quiet
  <2> QED  BY <1>3, <2>1, PubrelTold DEF Promised, Quiet, Submitting, Submits
<1>4. CASE BrokerHangUp
  <2>1. Quiet
    BY <1>4 DEF BrokerHangUp, Quiet
  <2> QED  BY <1>4, <2>1, HangUpTold DEF Promised, Quiet, Submitting, Submits
<1> QED  BY <1>1, <1>2, <1>3, <1>4 DEF Broker

LEMMA ToldStep ==
  ASSUME TInv, SessionOK, [Next]_vars, ~ConnectsAgain
  PROVE  AllTold' /\ SessionOK' /\ Promised
<1>1. CASE Application
  <2>1. CASE \E qos \in QosLevels : Publish(qos)
    <3>1. PICK qos \in QosLevels : Publish(qos)
      BY <2>1
    <3>2. AllTold'
      BY <3>1, PublishTold DEF TInv
    <3>3. session' = session /\ delivered' = delivered /\ acked' = acked
          /\ Submits(submitted, submitted')
      <4>1. /\ Len(submitted) < MaxPublish /\ submitted' = Append(submitted, qos)
            /\ session' = session /\ delivered' = delivered /\ acked' = acked
        BY <3>1 DEF Publish, Become, PublishCall, Client, brokerVars
      <4> QED  BY <4>1 DEF Submits
    <3> QED  BY <3>2, <3>3, SameSession DEF Promised, Submitting
  <2>2. CASE Disconnect
    BY <2>2, DisconnectTold
  <2>3. CASE Reconnect \/ ReconnectFails
    BY <2>3, ReconnectTold
  <2>4. ~ConnectAgain
    BY DEF ConnectAgain
  <2> QED  BY <1>1, <2>1, <2>2, <2>3, <2>4 DEF Application
<1>2. CASE HandlePacket
  BY <1>2, HandlerTold
<1>3. CASE DetectLoss \/ BreakLink
  <2>1. UNCHANGED <<msgs_out, toBroker, submitted, session, delivered, acked>>
        /\ (toClient' = <<>> \/ toClient' = toClient)
    BY <1>3 DEF DetectLoss, BreakLink, CloseLink, msgVars, brokerVars
  <2> QED  BY <2>1, ReadingTold
<1>4. CASE Broker
  BY <1>4, BrokerTold
<1>5. CASE Quiescent \/ UNCHANGED vars
  <2>1. UNCHANGED <<msgs_out, toBroker, submitted, session, delivered, acked>>
        /\ toClient' = toClient
    BY <1>5 DEF Quiescent, vars
  <2> QED  BY <2>1, ReadingTold
<1> QED  BY <1>1, <1>2, <1>3, <1>4, <1>5 DEF Next

LEMMA OnceStep ==
  ASSUME AInv, Once, AInv', IdsDiffer', [Next]_vars, ~ConnectsAgain
  PROVE  Once'
<1>1. Traffic /\ Traffic' /\ Balanced' /\ ClientTypeOK'
  BY DEF AInv, IInv
<1>2. CASE Up'
  BY <1>1, <1>2, OnceUp DEF Once, Up
<1>3. CASE ~Up' /\ ~HandleConnackRefused
  <2>1. \/ toBroker' = toBroker \/ (toBroker # <<>> /\ toBroker' = Tail(toBroker))
        \/ toBroker' = Append(toBroker, [type |-> "DISCONNECT"])
    BY <1>3
    DEF Next, Application, HandlePacket, Broker, Publish, Disconnect, Reconnect, ReconnectFails,
        ResetForReconnect, ConnectAgain, HandleConnack, Refuse, HandlePubackcomp,
        HandlePubackcompMismatch, HandlePubrec, DetectLoss, BreakLink, BrokerConnect,
        BrokerPublish, BrokerPubrel, BrokerHangUp, Quiescent, vars, CloseLink, Become, Up, connVars
  <2>2. toClient' = toClient \/ toClient' = <<>> \/ (toClient # <<>> /\ toClient' = Tail(toClient))
    BY <1>3
    DEF Next, Application, HandlePacket, Broker, Publish, Disconnect, Reconnect, ReconnectFails,
        ResetForReconnect, ConnectAgain, HandleConnack, Refuse, HandlePubackcomp, Incoming,
        HandlePubackcompMismatch, HandlePubrec, DetectLoss, BreakLink, BrokerConnect, Reply,
        BrokerPublish, BrokerPubrel, BrokerHangUp, Quiescent, vars, CloseLink, Up, connVars
  <2> QED  BY <1>1, <2>1, <2>2, OnceFewer
<1>4. CASE HandleConnackRefused
  BY <1>1, <1>4, OnceRefused
<1> QED  BY <1>2, <1>3, <1>4

-----------------------------------------------------------------------------
LEMMA ImplementsStep ==
  ASSUME TInv, Promised
  PROVE  [Abstract!Next]_(Abstract!vars)
<1>1. /\ session'.clean = session.clean /\ submitted \in Seq(QosLevels)
      /\ DOMAIN submitted = 1..Len(submitted)
  BY DEF Promised, TInv, AllTold, Told, ToldTypes
<1>2. CASE Submitting
  <2>1. CASE submitted' = submitted
    BY <1>1, <1>2, <2>1 DEF Submitting, Abstract!vars
  <2>2. CASE submitted' # submitted
    <3>1. PICK qos \in QosLevels : Len(submitted) < MaxPublish /\ submitted' = Append(submitted, qos)
      BY <1>2, <2>2 DEF Submitting, Submits
    <3>2. Abstract!Submit(qos)
      BY <1>1, <1>2, <3>1 DEF Submitting, Abstract!Submit
    <3> QED  BY <3>2 DEF Abstract!Next
  <2> QED  BY <2>1, <2>2
<1>3. CASE Reporting
  <2>1. /\ delivered' = delivered
        /\ submitted' = submitted
             \/ \E qos \in QosLevels : Len(submitted) < MaxPublish /\ submitted' = Append(submitted, qos)
    BY <1>3 DEF Reporting, Submits
  <2>2. PICK e \in Entries(msgs_out) : /\ Kept(e, submitted, World) /\ delivered[e.id] > 0
                                        /\ acked' = acked \cup {e.id}
    BY <1>3 DEF Reporting
  <2>3. e.id \in DOMAIN submitted /\ submitted[e.id] > 0 /\ e.id \notin acked
    BY <1>1, <2>2, WorldIs DEF Kept
  <2>4. Abstract!Report(e.id)
    BY <1>1, <2>1, <2>2, <2>3 DEF Abstract!Report
  <2> QED  BY <2>3, <2>4 DEF Abstract!Next
<1>4. CASE Passing
  <2>1. CASE delivered' = delivered
    BY <1>1, <1>4, <2>1 DEF Passing, Abstract!vars
  <2>2. CASE delivered' # delivered
    <3>1. PICK id \in 1..Len(submitted) :
            /\ id \notin acked
            /\ submitted[id] = 0 \/ (submitted[id] = 2 /\ ~session.clean) => delivered[id] = 0
            /\ delivered' = [delivered EXCEPT ![id] = @ + 1]
      BY <1>4, <2>2 DEF Passing, PassesOn
    <3>2. Abstract!PassOn(id)
      BY <1>1, <1>4, <3>1 DEF Passing, Abstract!PassOn, Abstract!AtMostOnce
    <3> QED  BY <1>1, <3>1, <3>2 DEF Abstract!Next
  <2> QED  BY <2>1, <2>2
<1> QED  BY <1>1, <1>2, <1>3, <1>4 DEF Promised

LEMMA ToldStart ==
  ASSUME Init
  PROVE  AllTold /\ Once /\ SessionOK /\ Abstract!Init
<1>1. /\ msgs_out = <<>> /\ toBroker = <<>> /\ toClient = <<>> /\ submitted = <<>>
      /\ delivered = [id \in 1..MaxPublish |-> 0] /\ acked = {}
      /\ session \in [accepted : {FALSE}, stored : {{}}, clean : CleanSessions]
  BY DEF Init
<1>2. /\ session.stored = {} /\ session.clean \in BOOLEAN /\ SessionOK
  BY <1>1, FlagsAssumption DEF SessionOK
<1>3. Abstract!Init
  BY <1>1, <1>2 DEF Abstract!Init
<1>4. Once
  <2>1. \A mid : Count(toBroker, Asking(mid)) = 0 /\ Count(toClient, Answering(mid)) = 0
    BY <1>1, CountEmpty
  <2> QED  BY <2>1 DEF Once
<1>5. AllTold
  <2>1. Entries(msgs_out) = {}
    BY <1>1 DEF Entries
  <2>2. ToldTypes(toBroker, submitted, World)
    <3>1. toBroker \in Seq(BrokerPacket) /\ toClient \in Seq(ClientPacket)
          /\ submitted \in Seq(QosLevels) /\ Len(submitted) = 0
      BY <1>1
    <3>2. 0 <= MaxPublish /\ delivered \in [1..MaxPublish -> Nat]
      BY <1>1, BoundsAssumption
    <3> QED  BY <3>1, <3>2, WorldIs DEF ToldTypes
  <2>3. Histories(submitted, World)
    BY <1>1, WorldIs DEF Histories
  <2>4. /\ \A i : i \notin 1..Len(toBroker) /\ i \notin 1..Len(toClient)
        /\ World.back = toClient /\ World.stored = {}
    BY <1>1, <1>2, WorldIs
  <2> QED  BY <2>1, <2>2, <2>3, <2>4 DEF AllTold, Told, Backs
<1> QED  BY <1>2, <1>3, <1>4, <1>5

\* The broker passes on what was submitted and the client reports what was
\* passed on, whatever is lost, sent again or refused on the way, as long as
\* no id is given to a message while another one that waits has it.
THEOREM DeliversOnce ==
  ASSUME ~ConnectsAgain
  PROVE  Spec /\ []IdsDiffer => ImplementsDelivery
<1> DEFINE L == AInv /\ Listed(msgs_out, Len(submitted), {})
           K == AllTold /\ Once /\ SessionOK
           A == [Abstract!Next]_(Abstract!vars)
<1>1. Init => K /\ Abstract!Init
  BY ToldStart
<1>2. L /\ L' /\ K /\ IdsDiffer /\ IdsDiffer' /\ [Next]_vars => K' /\ A
  <2> SUFFICES ASSUME L, L', K, IdsDiffer, IdsDiffer', [Next]_vars
               PROVE  K' /\ A
    OBVIOUS
  <2>1. TInv /\ SessionOK /\ AInv' /\ AInv
    BY DEF TInv
  <2>2. AllTold' /\ SessionOK' /\ Promised
    BY <2>1, ToldStep
  <2>3. Once'
    BY <2>1, OnceStep
  <2>4. [Abstract!Next]_(Abstract!vars)
    BY <2>1, <2>2, ImplementsStep
  <2> QED  BY <2>2, <2>3, <2>4
<1>3. Spec => []L
  BY ListedInvariant
<1> HIDE DEF L, K
<1> QED  BY <1>1, <1>2, <1>3, PTL DEF Spec, ImplementsDelivery, Abstract!Spec

-----------------------------------------------------------------------------
\* Until the counter of ids wraps, each id is the rank of its message.
MidsAreIds(A) == \A e \in A : e.mid = e.id

ClientCounts(c) == c.mid = Len(c.submitted) /\ MidsAreIds(Entries(c.inflight))

Counts == last_mid = Len(submitted) /\ MidsAreIds(Entries(msgs_out))

LEMMA CountsDiffer ==
  ASSUME NEW q \in Seq(Message), Numbered(q), MidsAreIds(Entries(q))
  PROVE  MidsDiffer(q)
<1>1. \A i \in 1..Len(q) : q[i].mid = q[i].id
  <2>1. \A i \in 1..Len(q) : Entry(q[i]) \in Entries(q) /\ Entry(q[i]).mid = q[i].mid
                             /\ Entry(q[i]).id = q[i].id
    BY DEF Entries, Entry
  <2> QED  BY <2>1 DEF MidsAreIds
<1> QED  BY <1>1, NumberedDiffer DEF MidsDiffer

LEMMA PublishCallCounts ==
  ASSUME MaxPublish <= MaxMid, NEW c, ClientOK(c), NEW qos \in QosLevels, NEW ok \in BOOLEAN,
         Len(c.submitted) < MaxPublish, ClientCounts(c)
  PROVE  ClientCounts(PublishCall(c, qos, ok))
<1> DEFINE mid == NextMid(c.mid)
           m == NewMessage(Len(c.submitted) + 1, mid, qos)
           p == PublishCall(c, qos, ok)
           r == MessageQueue(c.inflight, c.quota, m, ok)
<1>1. /\ c.inflight \in Seq(Message) /\ c.quota \in Nat /\ Len(c.submitted) \in Nat
      /\ Len(Append(c.submitted, qos)) = Len(c.submitted) + 1
  BY ClientTypes
<1>2. mid = Len(c.submitted) + 1
  BY <1>1, MaxMidAssumption, BoundsAssumption DEF ClientCounts, NextMid
<1>3. /\ p.mid = mid /\ p.submitted = Append(c.submitted, qos)
      /\ p.inflight = IF qos = 0 THEN c.inflight ELSE r.inflight
  BY DEF PublishCall
<1> HIDE DEF p, r
<1>4. MidsAreIds(Entries(p.inflight))
  <2>1. CASE qos = 0
    BY <1>3, <2>1 DEF ClientCounts
  <2>2. CASE qos # 0
    <3>1. m \in Message /\ m.id = Len(c.submitted) + 1
      BY <2>2, NewMessageIs
    <3>2. m.mid = mid
      BY DEF NewMessage
    <3> HIDE DEF m, mid
    <3>3. Entries(r.inflight) = With(Entries(c.inflight), m)
      BY <1>1, <3>1, QueueCarries DEF r
    <3>4. Entry(m).mid = Entry(m).id
      BY <1>2, <3>1, <3>2 DEF Entry
    <3> QED  BY <1>3, <2>2, <3>3, <3>4 DEF ClientCounts, MidsAreIds, With
  <2> QED  BY <2>1, <2>2
<1> HIDE DEF mid
<1> QED  BY <1>1, <1>2, <1>3, <1>4 DEF ClientCounts, p

LEMMA InCallbackCounts ==
  ASSUME MaxPublish <= MaxMid, NEW c, ClientOK(c), c.submitted = submitted,
         NEW calls \in CallbackCalls, ClientCounts(c)
  PROVE  ClientCounts(InCallback(c, calls))
<1>1. CASE calls = <<>>
  BY <1>1 DEF InCallback
<1>2. CASE calls # <<>>
  <2>1. Head(calls) \in QosLevels /\ (link # "none") \in BOOLEAN
    BY <1>2, CallbackCallsType
  <2>2. Len(c.submitted) < MaxPublish
    BY <1>2 DEF CallbackCalls
  <2>3. ClientCounts(PublishCall(c, Head(calls), link # "none"))
    BY <2>1, <2>2, PublishCallCounts
  <2> QED  BY <1>2, <2>3 DEF InCallback
<1> QED  BY <1>1, <1>2

\* The handlers of a CONNACK, up to the callback and after it.
LEMMA ResetCounts ==
  ASSUME MaxPublish <= MaxMid, AInv, Listed(msgs_out, Len(submitted), {}), Counts,
         NEW calls \in CallbackCalls
  PROVE  LET c1 == InCallback([Client EXCEPT !.inflight = ReconnectReset(@, TRUE),
                                             !.quota = QuotaAfterReset(msgs_out)], calls)
         IN ClientOK(c1) /\ c1 = FieldsOf(c1) /\ ClientCounts(c1)
<1> DEFINE c0 == [Client EXCEPT !.inflight = ReconnectReset(@, TRUE),
                                !.quota = QuotaAfterReset(msgs_out)]
           c1 == InCallback(c0, calls)
<1>1. ClientTypeOK /\ msgs_out \in Seq(Message)
  BY ListTypes
<1>2. c0 = [inflight |-> ReconnectReset(msgs_out, TRUE), quota |-> QuotaAfterReset(msgs_out),
            mid |-> last_mid, submitted |-> submitted, sent |-> <<>>]
  BY ClientWith DEF Client
<1>3. ClientOK(c0)
  BY <1>1, ResetIsOK
<1> HIDE DEF c0
<1>4. /\ c0 = FieldsOf(c0) /\ c0.submitted = submitted /\ c0.mid = last_mid
      /\ c0.inflight = ReconnectReset(msgs_out, TRUE)
  BY <1>2 DEF FieldsOf
<1>5. Entries(c0.inflight) = Entries(msgs_out)
  BY <1>1, <1>4, ResetEntries
<1>6. ClientCounts(c0)
  BY <1>4, <1>5 DEF ClientCounts, Counts
<1>7. ClientOK(c1) /\ c1 = FieldsOf(c1) /\ ClientCounts(c1)
  BY <1>3, <1>4, <1>6, InCallbackType, InCallbackFields, InCallbackCounts
<1> QED  BY <1>7 DEF c0

LEMMA ConnackCounts ==
  ASSUME MaxPublish <= MaxMid, AInv, Listed(msgs_out, Len(submitted), {}), Counts,
         HandleConnack \/ HandleConnackRefused
  PROVE  Counts'
<1> DEFINE c0 == [Client EXCEPT !.inflight = ReconnectReset(@, TRUE),
                                !.quota = QuotaAfterReset(msgs_out)]
<1>1. PICK calls \in CallbackCalls :
        \/ Become(InCallback(c0, calls))
        \/ \E sent : Become([InCallback(c0, calls) EXCEPT !.inflight = RetryMark(@),
                                                          !.sent = @ \o sent])
  BY DEF HandleConnack, HandleConnackRefused
<1> DEFINE c1 == InCallback(c0, calls)
<1>2. ClientOK(c1) /\ c1 = FieldsOf(c1) /\ ClientCounts(c1)
  BY ResetCounts
<1>3. PICK sent : Become(c1) \/ Become([c1 EXCEPT !.inflight = RetryMark(@), !.sent = @ \o sent])
  BY <1>1
<1> HIDE DEF c1
<1> DEFINE c2 == [c1 EXCEPT !.inflight = RetryMark(@), !.sent = @ \o sent]
<1>4. c2.inflight = RetryMark(c1.inflight) /\ c2.submitted = c1.submitted /\ c2.mid = c1.mid
  BY <1>2 DEF FieldsOf
<1> HIDE DEF c2
<1>5. Entries(RetryMark(c1.inflight)) = Entries(c1.inflight)
  <2>1. c1.inflight \in Seq(Message)
    BY <1>2 DEF ClientOK
  <2> QED  BY <2>1, RetryCarries
<1>6. ClientCounts(c2)
  BY <1>2, <1>4, <1>5 DEF ClientCounts
<1> QED  BY <1>2, <1>3, <1>6 DEF Become, Counts, ClientCounts, c2

LEMMA PubackcompCounts ==
  ASSUME MaxPublish <= MaxMid, AInv, Listed(msgs_out, Len(submitted), {}), Counts,
         HandlePubackcomp
  PROVE  Counts'
<1> DEFINE p  == Head(toClient)
           i  == FirstAt(msgs_out, p.mid)
           a0 == [Client EXCEPT !.quota = IncrementQuota(@),
                                !.inflight = MessageRemove(@, p.mid)]
<1>1. <<>> \in CallbackCalls
  BY DEF CallbackCalls
<1>2. PICK calls \in CallbackCalls :
        Become(Released(InCallback(a0, calls), link = "up"))
  BY <1>1 DEF HandlePubackcomp
<1> DEFINE a1 == InCallback(a0, calls)
           r  == ReleaseToInflight(a1.inflight, a1.quota, link = "up")
<1>3. Incoming({"PUBACK", "PUBREC", "PUBCOMP"})
  BY DEF HandlePubackcomp, Incoming
<1>4. Known(msgs_out, p.mid) /\ i \in 1..Len(msgs_out)
  BY <1>3, AckedFirst DEF Incoming
<1>5. /\ Numbered(msgs_out) /\ ClientTypeOK /\ msgs_out \in Seq(Message)
  BY ListTypes
<1>6. /\ MessageRemove(msgs_out, p.mid) = RemoveFrom(msgs_out, i)
      /\ MessageRemove(msgs_out, p.mid) \in Seq(Message)
      /\ IncrementQuota(inflight_quota) \in 0..InflightMaximum
  BY <1>4, <1>5, RemoveType, IncrementQuotaType DEF ClientTypeOK, MessageRemove
<1>7. /\ a0.inflight = RemoveFrom(msgs_out, i) /\ a0.submitted = submitted
      /\ a0.quota = IncrementQuota(inflight_quota) /\ a0.mid = last_mid
  BY <1>6 DEF Client
<1> HIDE DEF a0, i, p
<1>8. ClientOK(a0)
  BY <1>5, <1>6, <1>7 DEF ClientOK, ClientTypeOK
<1>9. ClientCounts(a0)
  <2>1. Entries(a0.inflight) = Entries(msgs_out) \ {Entry(msgs_out[i])}
    BY <1>4, <1>5, <1>7, RemoveEntries
  <2> QED  BY <1>7, <2>1 DEF Counts, ClientCounts, MidsAreIds
<1>10. ClientOK(a1) /\ ClientCounts(a1)
  BY <1>7, <1>8, <1>9, InCallbackType, InCallbackCounts
<1>11. Become(Released(a1, link = "up"))
  BY <1>2
<1> HIDE DEF a1
<1>12. Entries(r.inflight) = Entries(a1.inflight)
  <2>1. a1.inflight \in Seq(Message) /\ a1.quota \in Nat /\ (link = "up") \in BOOLEAN
    BY <1>10, ClientTypes
  <2> QED  BY <2>1, ReleaseCarries
<1>13. msgs_out' = r.inflight /\ last_mid' = a1.mid /\ submitted' = a1.submitted
  BY <1>11 DEF Become, Released
<1> HIDE DEF r
<1> QED  BY <1>10, <1>12, <1>13 DEF Counts, ClientCounts

LEMMA PubrecCounts ==
  ASSUME AInv, Listed(msgs_out, Len(submitted), {}), Counts, HandlePubrec
  PROVE  Counts'
<1> DEFINE mid == Head(toClient).mid
           i   == FirstAt(msgs_out, mid)
<1>1. Incoming({"PUBACK", "PUBREC", "PUBCOMP"})
  BY DEF HandlePubrec, Incoming
<1>2. Known(msgs_out, mid) /\ i \in 1..Len(msgs_out)
  BY <1>1, AckedFirst DEF Incoming
<1>3. /\ msgs_out' = msgs_out \/ msgs_out' = OutUpdate(msgs_out, mid, "wait_for_pubcomp")
      /\ UNCHANGED <<last_mid, submitted>>
  BY DEF HandlePubrec
<1>4. OutUpdate(msgs_out, mid, "wait_for_pubcomp") = [msgs_out EXCEPT ![i].state = "wait_for_pubcomp"]
  BY <1>2 DEF OutUpdate
<1>5. msgs_out \in Seq(Message) /\ Numbered(msgs_out)
  BY ListTypes
<1> HIDE DEF i, mid
<1> DEFINE q == [msgs_out EXCEPT ![i].state = "wait_for_pubcomp"]
<1>6. MidsAreIds(Entries(q))
  <2>1. Entries(q) = (Entries(msgs_out) \ {Entry(msgs_out[i])}) \cup {Passed(Entry(msgs_out[i]))}
    BY <1>2, <1>5, UpdateEntries
  <2>2. Entry(msgs_out[i]) \in Entries(msgs_out)
    BY <1>2 DEF Entries
  <2> HIDE DEF q
  <2> QED  BY <2>1, <2>2 DEF Counts, MidsAreIds, Passed
<1> HIDE DEF q
<1> QED  BY <1>3, <1>4, <1>6 DEF Counts, q

LEMMA CountsStep ==
  ASSUME ~ConnectsAgain, MaxPublish <= MaxMid, AInv, Listed(msgs_out, Len(submitted), {}),
         Counts, [Next]_vars
  PROVE  Counts'
<1>1. ASSUME NEW qos \in QosLevels, Publish(qos)
      PROVE  Counts'
  <2> DEFINE c == PublishCall(Client, qos, link = "up")
  <2>1. ClientOK(Client) /\ ClientCounts(Client) /\ Len(Client.submitted) < MaxPublish
    BY <1>1, ListTypes DEF Counts, ClientCounts, Client, Publish
  <2>2. ClientCounts(c)
    <3>1. (link = "up") \in BOOLEAN
      OBVIOUS
    <3> QED  BY <2>1, <3>1, PublishCallCounts
  <2>3. Become(c)
    BY <1>1 DEF Publish
  <2> HIDE DEF c
  <2> QED  BY <2>2, <2>3 DEF Become, Counts, ClientCounts
<1>2. CASE Reconnect \/ ReconnectFails
  <2>1. msgs_out' = ReconnectReset(msgs_out, FALSE) /\ UNCHANGED <<last_mid, submitted>>
    BY <1>2 DEF Reconnect, ReconnectFails, ResetForReconnect
  <2>2. msgs_out \in Seq(Message) /\ FALSE \in BOOLEAN
    BY ListTypes
  <2>3. Entries(ReconnectReset(msgs_out, FALSE)) = Entries(msgs_out)
    BY <2>2, ResetEntries
  <2> QED  BY <2>1, <2>3 DEF Counts
<1>3. CASE HandleConnack \/ HandleConnackRefused
  BY <1>3, ConnackCounts
<1>4. CASE HandlePubackcomp
  BY <1>4, PubackcompCounts
<1>5. CASE HandlePubrec
  BY <1>5, PubrecCounts
<1>6. CASE \/ Disconnect \/ Refuse \/ HandlePubackcompMismatch \/ DetectLoss
           \/ BreakLink \/ Broker \/ Quiescent \/ UNCHANGED vars
  <2>1. UNCHANGED <<msgs_out, submitted, last_mid>>
    BY <1>6 DEF Disconnect, Refuse, HandlePubackcompMismatch, DetectLoss, BreakLink,
                Broker, BrokerConnect, BrokerPublish, BrokerPubrel, BrokerHangUp,
                Quiescent, vars, msgVars
  <2> QED  BY <2>1 DEF Counts
<1>7. ~ConnectAgain
  BY DEF ConnectAgain
<1> QED  BY <1>1, <1>2, <1>3, <1>4, <1>5, <1>6, <1>7 DEF Next, Application, HandlePacket

\* An id is used again after MaxMid publishes.  Before that every id belongs to
\* one message, and no hypothesis about the ids is needed.
THEOREM DeliversOnceAtFirst ==
  ASSUME ~ConnectsAgain, MaxPublish <= MaxMid
  PROVE  Spec => ImplementsDelivery
<1> DEFINE L == AInv /\ Listed(msgs_out, Len(submitted), {})
<1>1. Init => Counts
  BY DEF Init, Counts, Entries, MidsAreIds
<1>2. L /\ Counts /\ [Next]_vars => Counts'
  BY CountsStep
<1>3. L /\ Counts => IdsDiffer
  <2> SUFFICES ASSUME L, Counts
               PROVE  MidsDiffer(msgs_out)
    BY DEF IdsDiffer
  <2>1. msgs_out \in Seq(Message) /\ Numbered(msgs_out) /\ MidsAreIds(Entries(msgs_out))
    BY ListTypes DEF Counts
  <2> QED  BY <2>1, CountsDiffer
<1>4. Spec => []L
  BY ListedInvariant
<1> HIDE DEF L
<1>5. Spec => []IdsDiffer
  BY <1>1, <1>2, <1>3, <1>4, PTL DEF Spec
<1> QED  BY <1>5, DeliversOnce, PTL

==============================================================================
