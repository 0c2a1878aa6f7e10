--------------------------- MODULE MessageListProofs ---------------------------
(***************************************************************************)
(* Facts about sequences, lists of messages and recursive functions that   *)
(* the proofs about several components share.                              *)
(***************************************************************************)
EXTENDS MessageList, SequenceTheorems, WellFoundedInduction, TLAPS

\* What is appended to a list comes last.
LEMMA AppendFacts ==
  ASSUME NEW S, NEW q \in Seq(S), NEW e \in S
  PROVE  /\ Append(q, e) \in Seq(S) /\ Len(Append(q, e)) = Len(q) + 1
         /\ Append(q, e)[Len(q) + 1] = e /\ Len(q) + 1 \in 1..Len(Append(q, e))
         /\ \A i \in 1..Len(q) : i \in 1..Len(Append(q, e)) /\ Append(q, e)[i] = q[i]
         /\ \A i \in 1..Len(Append(q, e)) : i \in 1..Len(q) \/ i = Len(q) + 1
OBVIOUS

\* Taking the head away shifts the rest.
LEMMA TailFacts ==
  ASSUME NEW S, NEW q \in Seq(S), q # <<>>
  PROVE  /\ Head(q) \in S /\ Head(q) = q[1] /\ 1 \in 1..Len(q)
         /\ Tail(q) \in Seq(S) /\ Len(Tail(q)) = Len(q) - 1
         /\ \A i \in 1..Len(Tail(q)) : i + 1 \in 1..Len(q) /\ Tail(q)[i] = q[i + 1]
OBVIOUS

LEMMA ConcatFacts ==
  ASSUME NEW S, NEW q \in Seq(S), NEW r \in Seq(S)
  PROVE  /\ q \o r \in Seq(S) /\ Len(q \o r) = Len(q) + Len(r)
         /\ \A i \in 1..Len(q) : i \in 1..Len(q \o r) /\ (q \o r)[i] = q[i]
         /\ \A i \in 1..Len(q \o r) :
              \/ i \in 1..Len(q) /\ (q \o r)[i] = q[i]
              \/ i - Len(q) \in 1..Len(r) /\ (q \o r)[i] = r[i - Len(q)]
<1>1. /\ q \o r \in Seq(S) /\ Len(q \o r) = Len(q) + Len(r)
      /\ \A i \in 1..(Len(q) + Len(r)) :
           (q \o r)[i] = IF i <= Len(q) THEN q[i] ELSE r[i - Len(q)]
      /\ Len(q) \in Nat /\ Len(r) \in Nat
  BY ConcatProperties
<1> QED  BY <1>1

-----------------------------------------------------------------------------
\* The first message with an id is there when one is.
LEMMA FirstAtIs ==
  ASSUME NEW S, NEW q \in Seq(S), NEW mid, Known(q, mid)
  PROVE  IsFirstAt(q, mid, FirstAt(q, mid)) /\ FirstAt(q, mid) \in 1..Len(q)
         /\ q[FirstAt(q, mid)].mid = mid
<1>1. At(q, mid) \subseteq Nat /\ At(q, mid) # {} /\ DOMAIN q = 1..Len(q)
  BY DEF At, Known
<1>2. PICK i \in At(q, mid) : \A j \in At(q, mid) : ~(<<j, i>> \in OpToRel(<, Nat))
  BY <1>1, NatLessThanWellFounded, WFMin
<1>3. ASSUME NEW j \in At(q, mid)
      PROVE  i <= j
  <2>1. <<j, i>> \in Nat \X Nat /\ ~(j < i)
    BY <1>1, <1>2 DEF OpToRel
  <2> QED  BY <1>1, <2>1
<1>4. i \in DOMAIN q /\ IsFirstAt(q, mid, i)
  BY <1>2, <1>3 DEF IsFirstAt, At
<1>5. FirstAt(q, mid) \in DOMAIN q /\ IsFirstAt(q, mid, FirstAt(q, mid))
  BY <1>4 DEF FirstAt
<1> QED  BY <1>1, <1>5 DEF IsFirstAt, At

\* There is one first message only.
LEMMA FirstAtUnique ==
  ASSUME NEW S, NEW q \in Seq(S), NEW mid, NEW i, IsFirstAt(q, mid, i)
  PROVE  Known(q, mid) /\ FirstAt(q, mid) = i /\ i \in 1..Len(q)
<1>1. Known(q, mid) /\ i \in At(q, mid)
  BY DEF Known, IsFirstAt
<1>2. i \in 1..Len(q) /\ i \in Nat
  BY <1>1 DEF At
<1>3. IsFirstAt(q, mid, FirstAt(q, mid)) /\ FirstAt(q, mid) \in 1..Len(q)
  BY <1>1, FirstAtIs
<1>4. i <= FirstAt(q, mid) /\ FirstAt(q, mid) <= i
  BY <1>3 DEF IsFirstAt
<1> QED  BY <1>1, <1>2, <1>3, <1>4

\* What removing a message leaves: one message less, the others in their order.
LEMMA RemoveIs ==
  ASSUME NEW S, NEW q \in Seq(S), NEW f \in 1..Len(q)
  PROVE  /\ RemoveFrom(q, f) \in Seq(S) /\ Len(RemoveFrom(q, f)) = Len(q) - 1
         /\ \A i \in 1..(Len(q) - 1) :
              RemoveFrom(q, f)[i] = IF i < f THEN q[i] ELSE q[i + 1]
<1> DEFINE r == RemoveFrom(q, f)
<1>1. Len(q) \in Nat /\ Len(q) - 1 \in Nat /\ DOMAIN q = 1..Len(q)
  OBVIOUS
<1>2. r = [i \in 1..(Len(q) - 1) |-> IF i < f THEN q[i] ELSE q[i + 1]]
  BY DEF RemoveFrom
<1> HIDE DEF r
<1>3. \A i \in 1..(Len(q) - 1) :
        /\ i \in 1..Len(q) /\ i + 1 \in 1..Len(q)
        /\ q[i] \in S /\ q[i + 1] \in S
  BY <1>1
<1>4. r \in Seq(S) /\ Len(r) = Len(q) - 1
  BY <1>1, <1>2, <1>3
<1>5. \A i \in 1..(Len(q) - 1) : r[i] = IF i < f THEN q[i] ELSE q[i + 1]
  BY <1>2
<1> QED  BY <1>4, <1>5 DEF r

\* Removing a message keeps the others, in their order.
LEMMA RemoveFacts ==
  ASSUME NEW S, NEW q \in Seq(S), NEW f \in 1..Len(q)
  PROVE  /\ RemoveFrom(q, f) \in Seq(S) /\ Len(RemoveFrom(q, f)) = Len(q) - 1
         /\ \A i \in 1..(Len(q) - 1) :
              RemoveFrom(q, f)[i] = IF i < f THEN q[i] ELSE q[i + 1]
         /\ \A i \in 1..(Len(q) - 1) :
              IF i < f THEN i \in 1..Len(q) /\ i # f ELSE i + 1 \in 1..Len(q) /\ i + 1 # f
         /\ \A j \in 1..Len(q) :
              j # f => \E i \in 1..(Len(q) - 1) : RemoveFrom(q, f)[i] = q[j]
<1> DEFINE r == RemoveFrom(q, f)
<1>1. Len(q) \in Nat /\ Len(q) - 1 \in Nat
  OBVIOUS
<1>2. /\ r \in Seq(S) /\ Len(r) = Len(q) - 1
      /\ \A i \in 1..(Len(q) - 1) : r[i] = IF i < f THEN q[i] ELSE q[i + 1]
  BY RemoveIs
<1> HIDE DEF r
<1>5. ASSUME NEW j \in 1..Len(q), j # f
      PROVE  \E i \in 1..(Len(q) - 1) : r[i] = q[j]
  <2>1. CASE j < f
    <3>1. j \in 1..(Len(q) - 1) /\ r[j] = q[j]
      BY <1>1, <1>2, <2>1
    <3> QED  BY <3>1
  <2>2. CASE j > f
    <3>1. j - 1 \in 1..(Len(q) - 1) /\ ~(j - 1 < f) /\ (j - 1) + 1 = j
      BY <1>1, <2>2
    <3>2. r[j - 1] = q[j]
      BY <1>2, <3>1
    <3> QED  BY <3>1, <3>2
  <2> QED  BY <1>5, <2>1, <2>2
<1>6. \A i \in 1..(Len(q) - 1) :
        IF i < f THEN i \in 1..Len(q) /\ i # f ELSE i + 1 \in 1..Len(q) /\ i + 1 # f
  BY <1>1
<1> QED  BY <1>2, <1>5, <1>6 DEF r

-----------------------------------------------------------------------------
(***************************************************************************)
(* Induction and recursion over the numbers up to n.                       *)
(***************************************************************************)
LEMMA Induction ==
  ASSUME NEW n \in Nat, NEW Q, 0 \in Q, \A i \in 1..n : i - 1 \in Q => i \in Q
  PROVE  \A i \in 0..n : i \in Q
<1> DEFINE Bad == (0..n) \ Q
<1> SUFFICES ASSUME Bad # {}
             PROVE  FALSE
  OBVIOUS
<1>1. PICK k \in Bad : \A j \in Bad : ~(<<j, k>> \in OpToRel(<, Nat))
  <2>1. Bad \subseteq Nat
    OBVIOUS
  <2> QED  BY <2>1, NatLessThanWellFounded, WFMin
<1>2. k \in 1..n /\ k - 1 \in 0..n /\ k - 1 \in Nat /\ k - 1 < k /\ k \in Nat /\ k \notin Q
  <2>1. k \in 0..n /\ k \notin Q /\ k # 0
    OBVIOUS
  <2> QED  BY <2>1
<1>3. k - 1 \notin Bad
  <2>1. <<k - 1, k>> \in OpToRel(<, Nat)
    BY <1>2 DEF OpToRel
  <2> QED  BY <1>1, <2>1
<1> QED  BY <1>2, <1>3

\* f starts with a, and step gives each of its values from the one before.
Recurs(f, S, a, n, step) ==
  /\ f \in [0..n -> S] /\ f[0] = a
  /\ \A i \in 1..n : f[i] = step[<<f[i - 1], i>>]

StepFunctions(S, n) == [S \X (1..n) -> S]

\* A function that is defined by recursion exists.
LEMMA Recursion ==
  ASSUME NEW S, NEW a \in S, NEW n \in Nat, NEW step \in StepFunctions(S, n)
  PROVE  \E f : Recurs(f, S, a, n, step)
<1> USE DEF StepFunctions
<1> DEFINE Good(k, f) == f \in [0..k -> S] /\ f[0] = a
                         /\ \A i \in 1..k : f[i] = step[<<f[i - 1], i>>]
           Q == {k \in 0..n : \E f : Good(k, f)}
<1>1. 0 \in Q
  <2>1. Good(0, [i \in 0..0 |-> a]) /\ 0 \in 0..n
    OBVIOUS
  <2> QED  BY <2>1
<1>2. ASSUME NEW k \in 1..n, k - 1 \in Q
      PROVE  k \in Q
  <2>1. k - 1 \in Nat /\ k \in Nat /\ k - 1 \in 0..n /\ k \in 0..n
    OBVIOUS
  <2>3. PICK f : Good(k - 1, f)
    BY <1>2
  <2> DEFINE g == [i \in 0..k |-> IF i = k THEN step[<<f[k - 1], k>>] ELSE f[i]]
  <2>4. f[k - 1] \in S /\ step[<<f[k - 1], k>>] \in S
    <3>1. f[k - 1] \in S /\ k \in 1..n
      BY <2>1, <2>3
    <3> QED  BY <3>1
  <2>5. Good(k, g)
    <3>1. g \in [0..k -> S] /\ g[0] = a
      BY <2>1, <2>3, <2>4
    <3>2. ASSUME NEW i \in 1..k
          PROVE  g[i] = step[<<g[i - 1], i>>]
      <4>1. CASE i = k
        <5>1. k \in 0..k /\ k - 1 \in 0..k /\ k - 1 # k
          BY <2>1
        <5>2. g[k] = step[<<f[k - 1], k>>] /\ g[k - 1] = f[k - 1]
          BY <5>1
        <5> QED  BY <4>1, <5>2
      <4>2. CASE i # k
        <5>1. i \in 1..(k - 1) /\ i - 1 \in 0..k /\ i - 1 # k /\ i \in 0..k
          BY <2>1, <4>2
        <5> QED  BY <2>3, <4>2, <5>1
      <4> QED  BY <4>1, <4>2
    <3> QED  BY <3>1, <3>2
  <2> QED  BY <2>1, <2>5
<1>3. \A k \in 1..n : k - 1 \in Q => k \in Q
  BY <1>2
<1> HIDE DEF Q
<1>4. n \in 0..n
  OBVIOUS
<1>5. n \in Q
  BY <1>1, <1>3, <1>4, Induction
<1>6. \E f : Good(n, f)
  BY <1>5 DEF Q
<1> QED  BY <1>6 DEF Recurs

==============================================================================
