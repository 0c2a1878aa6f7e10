-------------------------- MODULE PacketReaderProofs --------------------------
(***************************************************************************)
(* Theorems about PacketReader, for every set of streams, every number of  *)
(* connections and every weight of a digit.                                *)
(***************************************************************************)
EXTENDS PacketReader, MessageListProofs

\* The weight of the next digit exceeds what the digits so far stand for; a
\* payload is there when the length is complete, and is as long as that.
Counted(p, r) ==
  /\ p.remaining_length < p.remaining_mult
  /\ p.remaining_count > 0 => Len(p.payload) + p.to_process = p.remaining_length
  /\ p.remaining_count <= 0 => p.payload = <<>> /\ p.to_process = 0
  /\ p.remaining_count <= 0 /\ r = "success" =>
       /\ p.remaining_count >= -4
       /\ p.remaining_mult = Weight(0 - p.remaining_count)

Located ==
  /\ at # "idle" => rc = "success"
  /\ at = "length" => in_packet.remaining_count <= 0
  /\ at = "payload" => in_packet.remaining_count > 0

IInv == TypeOK /\ Counted(in_packet, rc) /\ Located

InPacket ==
  [command : Byte, remaining_count : -5..4, remaining_mult : {Weight(i) : i \in 0..4},
   remaining_length : 0..(Weight(4) - 1), payload : Seq(Byte),
   to_process : 0..(Weight(4) - 1)]

-----------------------------------------------------------------------------
(***************************************************************************)
(* Weights of digits.                                                      *)
(***************************************************************************)
LEMMA ProductGrows ==
  ASSUME NEW a \in Nat, a > 0, NEW d \in Nat, d < Base, NEW l \in Nat, l < a
  PROVE  /\ a * Base \in Nat /\ a <= a * Base
         /\ d * a \in Nat /\ l + d * a < a * Base
<1>1. Base \in Nat /\ Base > 1 /\ Base - 1 - d \in Nat
  BY BaseAssumption
<1>2. a * Base \in Nat /\ d * a \in Nat /\ (Base - 1 - d) * a \in Nat /\ (Base - 1) * a \in Nat
  BY <1>1
<1>3. a * Base = a + d * a + (Base - 1 - d) * a
  BY <1>1
<1>4. a * Base = a + (Base - 1) * a
  BY <1>1
<1> QED  BY <1>1, <1>2, <1>3, <1>4

LEMMA WeightFacts ==
  /\ \A i \in 0..4 : Weight(i) \in Nat /\ Weight(i) > 0 /\ Weight(i) <= Weight(4)
  /\ \A i \in 0..3 : Weight(i + 1) = Weight(i) * Base
  /\ Weight(0) = 1
<1> DEFINE b2 == Base * Base
           b3 == b2 * Base
           b4 == b3 * Base
<1>1. Weight(0) = 1 /\ Weight(1) = Base /\ Weight(2) = b2 /\ Weight(3) = b3 /\ Weight(4) = b4
  BY DEF Weight
<1>2. Base \in Nat /\ 0 < Base /\ Base > 0 /\ 0 \in Nat /\ 0 < 1 /\ 1 \in Nat
  BY BaseAssumption
<1>3. b2 \in Nat /\ Base <= b2
  BY <1>2, ProductGrows
<1>4. b2 > 0
  BY <1>2, <1>3
<1> HIDE DEF b2
<1>5. b3 \in Nat /\ b2 <= b3
  BY <1>2, <1>3, <1>4, ProductGrows
<1>6. b3 > 0
  BY <1>3, <1>4, <1>5
<1> HIDE DEF b3
<1>7. b4 \in Nat /\ b3 <= b4
  BY <1>2, <1>5, <1>6, ProductGrows
<1>8. b4 > 0
  BY <1>5, <1>6, <1>7
<1>9. Weight(2) = Weight(1) * Base /\ Weight(3) = Weight(2) * Base /\ Weight(4) = Weight(3) * Base
      /\ Weight(1) = Weight(0) * Base
  BY <1>1, <1>2 DEF b2, b3, b4
<1> HIDE DEF b4
<1>10. \A i \in 0..4 : i = 0 \/ i = 1 \/ i = 2 \/ i = 3 \/ i = 4
  OBVIOUS
<1>11. ASSUME NEW i \in 0..4
       PROVE  Weight(i) \in Nat /\ Weight(i) > 0 /\ Weight(i) <= Weight(4)
  <2>1. 1 <= Base
    BY <1>2
  <2> QED  BY <1>1, <1>2, <1>3, <1>4, <1>5, <1>6, <1>7, <1>8, <1>10, <2>1
<1>12. ASSUME NEW i \in 0..3
       PROVE  Weight(i + 1) = Weight(i) * Base
  <2>1. i = 0 \/ i = 1 \/ i = 2 \/ i = 3
    OBVIOUS
  <2>2. 0 + 1 = 1 /\ 1 + 1 = 2 /\ 2 + 1 = 3 /\ 3 + 1 = 4
    OBVIOUS
  <2> QED  BY <1>9, <2>1, <2>2
<1> QED  BY <1>1, <1>11, <1>12

\* A digit and its weight keep the length below the next weight.
LEMMA DigitFacts ==
  ASSUME NEW i \in 0..3, NEW b \in Byte, NEW l \in Nat, l < Weight(i)
  PROVE  /\ Digit(b) \in Nat /\ Digit(b) * Weight(i) \in Nat
         /\ l + Digit(b) * Weight(i) \in Nat
         /\ l + Digit(b) * Weight(i) < Weight(i + 1)
         /\ Weight(i) * Base = Weight(i + 1)
<1>1. Base \in Nat /\ Base > 1 /\ b \in Nat
  BY BaseAssumption DEF Byte, ByteMax
<1>2. Digit(b) \in Nat /\ Digit(b) < Base
  BY <1>1 DEF Digit
<1>3. i \in 0..4 /\ Weight(i) \in Nat /\ Weight(i) > 0 /\ Weight(i + 1) = Weight(i) * Base
  BY WeightFacts
<1> HIDE DEF Digit
<1>4. Digit(b) * Weight(i) \in Nat /\ l + Digit(b) * Weight(i) < Weight(i) * Base
  BY <1>2, <1>3, ProductGrows
<1> QED  BY <1>2, <1>3, <1>4

-----------------------------------------------------------------------------
(***************************************************************************)
(* in_packet.                                                              *)
(***************************************************************************)
LEMMA PacketCleanupIs == \A p : PacketCleanup(p) = Empty
BY DEF PacketCleanup, Empty

LEMMA EmptyIs ==
  /\ Empty \in InPacket /\ Empty.command = 0 /\ Empty.remaining_count = 0
  /\ Empty.remaining_mult = 1 /\ Empty.remaining_length = 0
  /\ Empty.payload = <<>> /\ Empty.to_process = 0
  /\ \A r : Counted(Empty, r)
<1>1. Weight(0) = 1 /\ 0 \in 0..4 /\ 1 \in {Weight(i) : i \in 0..4}
  BY WeightFacts
<1>2. 0 \in 0..(Weight(4) - 1) /\ 0 \in Byte
  <2>1. 4 \in 0..4 /\ Weight(4) \in Nat /\ Weight(4) > 0
    BY WeightFacts
  <2> QED  BY <2>1, BaseAssumption DEF Byte, ByteMax
<1>3. /\ Empty.command = 0 /\ Empty.remaining_count = 0
      /\ Empty.remaining_mult = 1 /\ Empty.remaining_length = 0
      /\ Empty.payload = <<>> /\ Empty.to_process = 0
  BY DEF Empty
<1>4. Empty \in InPacket
  BY <1>1, <1>2 DEF Empty, InPacket
<1>5. 0 - 0 = 0
  OBVIOUS
<1> QED  BY <1>1, <1>3, <1>4, <1>5 DEF Counted

LEMMA WithDigitIs ==
  ASSUME NEW p \in InPacket, NEW b
  PROVE  /\ WithDigit(p, b).command = p.command
         /\ WithDigit(p, b).remaining_count = p.remaining_count - 1
         /\ WithDigit(p, b).remaining_mult = p.remaining_mult * Base
         /\ WithDigit(p, b).remaining_length = p.remaining_length + Digit(b) * p.remaining_mult
         /\ WithDigit(p, b).payload = p.payload
         /\ WithDigit(p, b).to_process = p.to_process
         /\ Allocated(WithDigit(p, b)).command = p.command
         /\ Allocated(WithDigit(p, b)).remaining_count = 0 - (p.remaining_count - 1)
         /\ Allocated(WithDigit(p, b)).remaining_mult = p.remaining_mult * Base
         /\ Allocated(WithDigit(p, b)).remaining_length
              = p.remaining_length + Digit(b) * p.remaining_mult
         /\ Allocated(WithDigit(p, b)).payload = p.payload
         /\ Allocated(WithDigit(p, b)).to_process
              = p.remaining_length + Digit(b) * p.remaining_mult
BY DEF InPacket, WithDigit, Allocated

LEMMA WithDigitCounts ==
  ASSUME NEW p \in InPacket, NEW b \in Byte, Counted(p, "success"),
         p.remaining_count <= 0, ~TooMany(p)
  PROVE  /\ WithDigit(p, b) \in InPacket /\ Counted(WithDigit(p, b), "success")
         /\ WithDigit(p, b).remaining_count < 0
         /\ Allocated(WithDigit(p, b)) \in InPacket
         /\ Counted(Allocated(WithDigit(p, b)), "success")
         /\ Allocated(WithDigit(p, b)).remaining_count > 0
<1> DEFINE i == 0 - p.remaining_count
           n == p.remaining_length + Digit(b) * p.remaining_mult
           w == WithDigit(p, b)
           a == Allocated(w)
<1>1. /\ p.remaining_count \in Int /\ i \in 0..3
      /\ p.remaining_mult = Weight(i) /\ p.remaining_length < Weight(i)
      /\ p.remaining_length \in Nat /\ p.payload = <<>> /\ p.to_process = 0
      /\ p.command \in Byte
  BY DEF Counted, TooMany, InPacket
<1>2. n \in Nat /\ n < Weight(i + 1) /\ p.remaining_mult * Base = Weight(i + 1)
  BY <1>1, DigitFacts
<1>3. /\ i + 1 \in 0..4 /\ Weight(i + 1) \in Nat /\ Weight(i + 1) <= Weight(4)
      /\ Weight(4) \in Nat
  <2>1. i + 1 \in 0..4 /\ 4 \in 0..4
    BY <1>1
  <2> QED  BY <2>1, WeightFacts
<1>4. n \in 0..(Weight(4) - 1) /\ Weight(i + 1) \in {Weight(j) : j \in 0..4}
  BY <1>2, <1>3
<1>5. /\ w.command = p.command
      /\ w.remaining_count = p.remaining_count - 1
      /\ w.remaining_mult = Weight(i + 1)
      /\ w.remaining_length = n
      /\ w.payload = <<>> /\ w.to_process = 0
      /\ a.command = p.command
      /\ a.remaining_count = i + 1
      /\ a.remaining_mult = Weight(i + 1)
      /\ a.remaining_length = n
      /\ a.payload = <<>> /\ a.to_process = n
  <2>1. 0 - (p.remaining_count - 1) = i + 1
    BY <1>1
  <2> QED  BY <1>1, <1>2, <2>1, WithDigitIs
<1>6. /\ p.remaining_count - 1 \in -5..4
      /\ 0 - (p.remaining_count - 1) = i + 1
      /\ p.remaining_count - 1 < 0 /\ p.remaining_count - 1 >= -4
      /\ i + 1 \in -5..4 /\ i + 1 > 0
  <2> DEFINE c == p.remaining_count
  <2>1. c \in Int /\ c = 0 - i /\ i \in 0..3 /\ i \in Int
    BY <1>1
  <2> HIDE DEF c, i
  <2> QED  BY <2>1 DEF c
<1>9. <<>> \in Seq(Byte) /\ Len(<<>>) = 0
  OBVIOUS
<1>10. 0 \in 0..(Weight(4) - 1)
  BY <1>3, <1>4
<1>7. /\ n \in 0..(Weight(4) - 1) /\ p.remaining_count - 1 \in -5..4
      /\ 0 - (p.remaining_count - 1) \in -5..4
      /\ p.remaining_mult * Base \in {Weight(j) : j \in 0..4}
  BY <1>2, <1>4, <1>6
<1>11. w \in InPacket
  BY <1>7 DEF InPacket, WithDigit
<1>12. a \in InPacket
  BY <1>7, <1>11 DEF InPacket, WithDigit, Allocated
<1> HIDE DEF w, a, i, n
<1>13. Counted(w, "success")
  <2>1. ~(w.remaining_count > 0)
    BY <1>1, <1>5, <1>6
  <2> QED  BY <1>2, <1>5, <1>6, <2>1 DEF Counted
<1>14. Counted(a, "success")
  <2>1. ~(a.remaining_count <= 0)
    BY <1>5, <1>6
  <2>2. Len(a.payload) + a.to_process = a.remaining_length
    BY <1>2, <1>5, <1>9
  <2> QED  BY <1>2, <1>5, <2>1, <2>2 DEF Counted
<1> QED  BY <1>5, <1>6, <1>11, <1>12, <1>13, <1>14 DEF w, a

-----------------------------------------------------------------------------
(***************************************************************************)
(* The bytes of a stream, from its start and from each of its packets on.  *)
(***************************************************************************)
Chunk(p) == <<p.command>> \o (p.digits \o p.payload)

\* f gives the bytes of the packets that follow each one.
IsLeft(s, f) ==
  /\ f \in [0..Len(s) -> Seq(Byte)]
  /\ f[Len(s)] = <<>>
  /\ \A i \in 1..Len(s) : f[i - 1] = Chunk(s[i]) \o f[i]

Left(s) == CHOOSE f : IsLeft(s, f)

LEMMA Associates == \A f, g, r \in Seq(Byte) : (f \o g) \o r = f \o (g \o r)
BY ONLY ConcatAssociative

LEMMA ChunkFacts ==
  ASSUME NEW p \in Packet
  PROVE  /\ p.command \in Byte /\ p.command # 0
         /\ p.digits \in Seq(Byte) /\ p.payload \in Seq(Byte)
         /\ <<p.command>> \in Seq(Byte) /\ p.digits \o p.payload \in Seq(Byte)
         /\ Chunk(p) \in Seq(Byte) /\ Chunk(p) # <<>>
         /\ \A q \in Seq(Byte) :
              /\ q \o <<p.command>> \o p.digits \o p.payload \in Seq(Byte)
              /\ q \o <<p.command>> \o p.digits \o p.payload = q \o Chunk(p)
<1> DEFINE c == <<p.command>>
           d == p.digits
           b == p.payload
<1>1. /\ p.command \in Byte /\ p.command # 0
      /\ d \in Seq(Byte) /\ b \in Seq(Byte)
  BY DEF Packet
<1>2. c \in Seq(Byte) /\ Len(c) = 1
  BY <1>1
<1> HIDE DEF c, d, b
<1>3. d \o b \in Seq(Byte)
  BY <1>1, ConcatProperties
<1>4. c \o (d \o b) \in Seq(Byte) /\ Len(c \o (d \o b)) = 1 + Len(d \o b) /\ Len(d \o b) \in Nat
  <2> DEFINE r == d \o b
  <2>1. r \in Seq(Byte)
    BY <1>3
  <2> HIDE DEF r
  <2>2. c \o r \in Seq(Byte) /\ Len(c \o r) = Len(c) + Len(r)
    BY <1>2, <2>1, ConcatProperties
  <2>3. Len(r) \in Nat
    BY <2>1
  <2> QED  BY <1>2, <2>2, <2>3 DEF r
<1>5. c \o (d \o b) # <<>>
  <2>1. Len(<<>>) = 0
    OBVIOUS
  <2> QED  BY <1>4, <2>1
<1>6. ASSUME NEW q \in Seq(Byte)
      PROVE  /\ q \o c \o d \o b \in Seq(Byte)
             /\ q \o c \o d \o b = q \o (c \o (d \o b))
  <2>1. q \o c \in Seq(Byte)
    BY <1>2, ConcatProperties
  <2>2. (q \o c) \o d = q \o (c \o d) /\ (q \o c) \o d \in Seq(Byte) /\ c \o d \in Seq(Byte)
    <3>1. (q \o c) \o d = q \o (c \o d)
      BY ONLY <1>1, <1>2, <1>6, Associates
    <3>2. (q \o c) \o d \in Seq(Byte) /\ c \o d \in Seq(Byte)
      BY <1>1, <1>2, <2>1, ConcatProperties
    <3> QED  BY <3>1, <3>2
  <2>3. (q \o (c \o d)) \o b = q \o ((c \o d) \o b)
    <3> DEFINE m == c \o d
    <3>1. m \in Seq(Byte)
      BY <2>2
    <3> HIDE DEF m
    <3>2. (q \o m) \o b = q \o (m \o b)
      BY ONLY <1>1, <1>6, <3>1, Associates
    <3> QED  BY ONLY <3>2 DEF m
  <2>4. (c \o d) \o b = c \o (d \o b)
    BY ONLY <1>1, <1>2, Associates
  <2>5. ((q \o c) \o d) \o b \in Seq(Byte)
    BY <1>1, <2>2, ConcatProperties
  <2> QED  BY <2>2, <2>3, <2>4, <2>5
<1> QED  BY <1>1, <1>2, <1>3, <1>4, <1>5, <1>6 DEF c, d, b, Chunk

LEMMA LeftIs ==
  ASSUME NEW s \in Seq(Packet)
  PROVE  IsLeft(s, Left(s))
<1> DEFINE n == Len(s)
           step == [x \in Seq(Byte) \X (1..n) |-> Chunk(s[n + 1 - x[2]]) \o x[1]]
<1>1. n \in Nat /\ <<>> \in Seq(Byte)
  OBVIOUS
<1>2. \A q \in Seq(Byte), i \in 1..n :
        /\ n + 1 - i \in 1..n /\ Chunk(s[n + 1 - i]) \o q \in Seq(Byte)
  <2> TAKE q \in Seq(Byte), i \in 1..n
  <2>1. n + 1 - i \in 1..n
    BY <1>1
  <2>2. s[n + 1 - i] \in Packet
    BY <2>1
  <2>3. Chunk(s[n + 1 - i]) \in Seq(Byte)
    BY <2>2, ChunkFacts
  <2> QED  BY <2>1, <2>3, ConcatProperties
<1>3. step \in [Seq(Byte) \X (1..n) -> Seq(Byte)]
  BY <1>2
<1>4. \A q \in Seq(Byte), i \in 1..n : step[<<q, i>>] = Chunk(s[n + 1 - i]) \o q
  OBVIOUS
<1> HIDE DEF step, n
<1>5. PICK g \in [0..n -> Seq(Byte)] : g[0] = <<>> /\ \A i \in 1..n : g[i] = step[<<g[i - 1], i>>]
  <2> DEFINE T == Seq(Byte)
             e == <<>>
  <2>1. e \in T /\ n \in Nat /\ step \in StepFunctions(T, n)
    BY <1>1, <1>3 DEF StepFunctions
  <2> HIDE DEF T, e
  <2>2. \E g : Recurs(g, T, e, n, step)
    BY ONLY <2>1, Recursion
  <2> QED  BY ONLY <2>2 DEF T, e, Recurs
<1> DEFINE f == [i \in 0..n |-> g[n - i]]
<1>6. f \in [0..n -> Seq(Byte)] /\ f[n] = <<>>
  BY <1>1, <1>5
<1>7. ASSUME NEW i \in 1..n
      PROVE  f[i - 1] = Chunk(s[i]) \o f[i]
  <2>1. /\ n + 1 - i \in 1..n /\ (n + 1 - i) - 1 = n - i /\ n - i \in 0..n
        /\ n - (i - 1) = n + 1 - i /\ n + 1 - (n + 1 - i) = i
        /\ i - 1 \in 0..n /\ i \in 0..n
    BY <1>1
  <2>2. g[n + 1 - i] = step[<<g[n - i], n + 1 - i>>]
    BY <1>5, <2>1
  <2>3. g[n - i] \in Seq(Byte)
    BY <1>5, <2>1
  <2>4. g[n + 1 - i] = Chunk(s[i]) \o g[n - i]
    BY <1>4, <2>1, <2>2, <2>3
  <2> QED  BY <2>1, <2>4
<1> HIDE DEF f
<1>8. IsLeft(s, f)
  BY <1>6, <1>7 DEF IsLeft, n
<1> QED  BY <1>8 DEF Left

\* Wire, with the recursion that defines it.
LEMMA WireUnfolds ==
  ASSUME NEW s, NEW g,
         g = [i \in 0..Len(s) |->
                IF i = 0 THEN <<>>
                ELSE g[i - 1] \o <<s[i].command>> \o s[i].digits \o s[i].payload]
  PROVE  \E h : /\ h = [i \in 0..Len(s) |->
                          IF i = 0 THEN <<>>
                          ELSE h[i - 1] \o <<s[i].command>> \o s[i].digits \o s[i].payload]
                /\ Wire(s) = h[Len(s)]
BY DEF Wire

LEMMA WireIs ==
  ASSUME NEW s \in Seq(Packet)
  PROVE  \E h : /\ DOMAIN h = 0..Len(s) /\ h[0] = <<>> /\ Wire(s) = h[Len(s)]
                /\ \A i \in 1..Len(s) : h[i - 1] \in Seq(Byte) => h[i] = h[i - 1] \o Chunk(s[i])
<1> DEFINE n == Len(s)
           Next1(q, i) == q \o <<s[i].command>> \o s[i].digits \o s[i].payload
           step == [x \in Seq(Byte) \X (1..n) |-> Next1(x[1], x[2])]
<1>1. n \in Nat /\ <<>> \in Seq(Byte)
  OBVIOUS
<1>2. \A q \in Seq(Byte), i \in 1..n : Next1(q, i) \in Seq(Byte) /\ Next1(q, i) = q \o Chunk(s[i])
  <2> TAKE q \in Seq(Byte), i \in 1..n
  <2>1. s[i] \in Packet
    OBVIOUS
  <2> QED  BY <2>1, ChunkFacts
<1> HIDE DEF Next1
<1>3. step \in [Seq(Byte) \X (1..n) -> Seq(Byte)]
  BY <1>2
<1>4. \A q \in Seq(Byte), i \in 1..n : step[<<q, i>>] = Next1(q, i)
  OBVIOUS
<1> HIDE DEF step, n
<1>5. PICK g \in [0..n -> Seq(Byte)] : g[0] = <<>> /\ \A i \in 1..n : g[i] = step[<<g[i - 1], i>>]
  <2> DEFINE T == Seq(Byte)
             e == <<>>
  <2>1. e \in T /\ n \in Nat /\ step \in StepFunctions(T, n)
    BY <1>1, <1>3 DEF StepFunctions
  <2> HIDE DEF T, e
  <2>2. \E g : Recurs(g, T, e, n, step)
    BY ONLY <2>1, Recursion
  <2> QED  BY ONLY <2>2 DEF T, e, Recurs
<1>6. \A i \in 1..n : g[i] = Next1(g[i - 1], i)
  <2> TAKE i \in 1..n
  <2>1. i - 1 \in 0..n
    BY <1>1
  <2>2. g[i - 1] \in Seq(Byte) /\ g[i] = step[<<g[i - 1], i>>]
    BY <1>5, <2>1
  <2> QED  BY <1>4, <2>2
<1>7. g = [i \in 0..n |-> IF i = 0 THEN <<>> ELSE Next1(g[i - 1], i)]
  <2>1. \A i \in 0..n : i = 0 \/ i \in 1..n
    BY <1>1
  <2>2. g = [i \in 0..n |-> g[i]]
    OBVIOUS
  <2>3. \A i \in 0..n : g[i] = IF i = 0 THEN <<>> ELSE Next1(g[i - 1], i)
    BY <1>5, <1>6, <2>1
  <2> QED  BY <2>2, <2>3
<1>8. PICK h : h = [i \in 0..n |-> IF i = 0 THEN <<>> ELSE Next1(h[i - 1], i)] /\ Wire(s) = h[n]
  <2>1. g = [i \in 0..Len(s) |->
                IF i = 0 THEN <<>>
                ELSE g[i - 1] \o <<s[i].command>> \o s[i].digits \o s[i].payload]
    BY ONLY <1>7 DEF Next1, n
  <2> QED  BY ONLY <2>1, WireUnfolds DEF Next1, n
<1>9. 0 \in 0..n /\ \A i \in 1..n : i \in 0..n /\ i # 0
  BY <1>1
<1>10. DOMAIN h = 0..n /\ h[0] = <<>> /\ \A i \in 1..n : h[i] = Next1(h[i - 1], i)
  BY <1>8, <1>9
<1>11. \A i \in 1..n : h[i - 1] \in Seq(Byte) => h[i] = h[i - 1] \o Chunk(s[i])
  BY <1>2, <1>10
<1> QED  BY <1>8, <1>10, <1>11 DEF n

\* What is on the wire is what is left before the first packet.
LEMMA WireIsLeft ==
  ASSUME NEW s \in Seq(Packet)
  PROVE  Wire(s) = Left(s)[0] /\ Wire(s) \in Seq(Byte)
<1> DEFINE n == Len(s)
           f == Left(s)
<1>1. n \in Nat /\ <<>> \in Seq(Byte)
  OBVIOUS
<1>2. /\ f \in [0..n -> Seq(Byte)] /\ f[n] = <<>>
      /\ \A i \in 1..n : f[i - 1] = Chunk(s[i]) \o f[i]
  BY LeftIs DEF IsLeft
<1>3. PICK h : /\ DOMAIN h = 0..n /\ h[0] = <<>> /\ Wire(s) = h[n]
               /\ \A i \in 1..n : h[i - 1] \in Seq(Byte) => h[i] = h[i - 1] \o Chunk(s[i])
  BY WireIs
<1>4. \A i \in 1..n : s[i] \in Packet
  OBVIOUS
<1> HIDE DEF n, f
<1> DEFINE Q == {i \in 0..n : h[i] \in Seq(Byte) /\ h[i] \o f[i] = f[0]}
<1>5. 0 \in Q
  <2>1. 0 \in 0..n /\ f[0] \in Seq(Byte)
    BY <1>1, <1>2
  <2>2. <<>> \o f[0] = f[0]
    BY <2>1, ConcatEmptySeq
  <2> QED  BY <1>1, <1>3, <2>1, <2>2
<1>6. ASSUME NEW i \in 1..n, i - 1 \in Q
      PROVE  i \in Q
  <2>1. h[i - 1] \in Seq(Byte) /\ h[i - 1] \o f[i - 1] = f[0]
    BY <1>6
  <2>2. i \in 0..n /\ f[i] \in Seq(Byte) /\ Chunk(s[i]) \in Seq(Byte)
    <3>1. i \in 0..n
      BY <1>1
    <3>2. s[i] \in Packet
      BY <1>4
    <3> QED  BY <1>2, <3>1, <3>2, ChunkFacts
  <2>3. h[i] = h[i - 1] \o Chunk(s[i]) /\ h[i] \in Seq(Byte)
    BY <1>3, <2>1, <2>2, ConcatProperties
  <2>4. (h[i - 1] \o Chunk(s[i])) \o f[i] = h[i - 1] \o (Chunk(s[i]) \o f[i])
    <3> DEFINE x == h[i - 1]
               y == Chunk(s[i])
               z == f[i]
    <3>1. x \in Seq(Byte) /\ y \in Seq(Byte) /\ z \in Seq(Byte)
      BY <2>1, <2>2
    <3> HIDE DEF x, y, z
    <3>2. (x \o y) \o z = x \o (y \o z)
      BY ONLY <3>1, Associates
    <3> QED  BY <3>2 DEF x, y, z
  <2>5. f[i - 1] = Chunk(s[i]) \o f[i]
    BY <1>2
  <2> QED  BY <2>1, <2>2, <2>3, <2>4, <2>5
<1>7. \A i \in 1..n : i - 1 \in Q => i \in Q
  BY <1>6
<1>8. n \in 0..n
  BY <1>1
<1>9. n \in Q
  <2> HIDE DEF Q
  <2> QED  BY <1>1, <1>5, <1>7, <1>8, Induction
<1>10. h[n] \in Seq(Byte) /\ h[n] \o <<>> = f[0]
  BY <1>2, <1>9
<1>11. h[n] \o <<>> = h[n]
  BY <1>10, ConcatEmptySeq
<1> QED  BY <1>3, <1>10, <1>11 DEF f

-----------------------------------------------------------------------------
(***************************************************************************)
(* IInv is inductive.                                                      *)
(***************************************************************************)
Handled == [command : Byte, payload : Seq(Byte)]

LEMMA TypeOKIs ==
  TypeOK <=> /\ in_packet \in InPacket
             /\ at \in {"idle", "command", "length", "payload"}
             /\ received \in Seq(Byte)
             /\ stream \in Streams
             /\ handled \in Seq(Handled)
             /\ rc \in {"success", "malformed"}
             /\ connections \in 1..MaxConnections
BY DEF TypeOK, InPacket, Handled

LEMMA TypeOKIsNext ==
  TypeOK' <=> /\ in_packet' \in InPacket
              /\ at' \in {"idle", "command", "length", "payload"}
              /\ received' \in Seq(Byte)
              /\ stream' \in Streams
              /\ handled' \in Seq(Handled)
              /\ rc' \in {"success", "malformed"}
              /\ connections' \in 1..MaxConnections
BY DEF TypeOK, InPacket, Handled

\* What one read takes: a byte, or some bytes of the payload.
LEMMA Takes ==
  ASSUME received \in Seq(Byte), Took(Head(received))
  PROVE  Head(received) \in Byte /\ received' \in Seq(Byte)
BY TailFacts DEF Took

LEMMA PiecesFacts ==
  ASSUME NEW S, NEW q \in Seq(S), NEW n \in 1..Len(q)
  PROVE  /\ SubSeq(q, 1, n) \in Seq(S) /\ Len(SubSeq(q, 1, n)) = n
         /\ SubSeq(q, n + 1, Len(q)) \in Seq(S)
<1>1. n \in Int /\ Len(q) \in Int /\ n + 1 \in Int /\ 1 \in Int /\ 1 <= n /\ n - 1 + 1 = n
  OBVIOUS
<1>2. (\A i \in 1..n : q[i] \in S) /\ (\A i \in (n + 1)..Len(q) : q[i] \in S)
  OBVIOUS
<1>3. SubSeq(q, 1, n) \in Seq(S) /\ Len(SubSeq(q, 1, n)) = n
  BY <1>1, <1>2, SubSeqProperties
<1>4. SubSeq(q, n + 1, Len(q)) \in Seq(S)
  BY <1>1, <1>2, SubSeqProperties
<1> QED  BY <1>3, <1>4

LEMMA CommandCounts ==
  ASSUME NEW p \in InPacket, NEW c \in Byte, NEW r
  PROVE  LET q == [p EXCEPT !.command = c]
         IN /\ q \in InPacket /\ (Counted(p, r) => Counted(q, r))
            /\ q.command = c /\ q.remaining_count = p.remaining_count
            /\ q.remaining_mult = p.remaining_mult /\ q.remaining_length = p.remaining_length
            /\ q.payload = p.payload /\ q.to_process = p.to_process
<1> DEFINE q == [p EXCEPT !.command = c]
<1>1. q \in InPacket
  BY DEF InPacket
<1>2. /\ q.command = c /\ q.remaining_count = p.remaining_count
      /\ q.remaining_mult = p.remaining_mult /\ q.remaining_length = p.remaining_length
      /\ q.payload = p.payload /\ q.to_process = p.to_process
  BY DEF InPacket
<1> HIDE DEF q
<1>3. Counted(p, r) => Counted(q, r)
  BY <1>2 DEF Counted
<1> QED  BY <1>1, <1>2, <1>3 DEF q

LEMMA RefusedCounts ==
  ASSUME NEW p \in InPacket, Counted(p, "success"), p.remaining_count = -4
  PROVE  LET q == [p EXCEPT !.remaining_count = @ - 1]
         IN q \in InPacket /\ Counted(q, "malformed") /\ q.remaining_count <= 0
<1> DEFINE q == [p EXCEPT !.remaining_count = @ - 1]
<1>1. p.remaining_count - 1 = -5 /\ -5 \in -5..4 /\ -5 <= 0 /\ -4 <= 0 /\ ~(-5 > 0)
  OBVIOUS
<1>2. q \in InPacket
  BY <1>1 DEF InPacket
<1>3. /\ q.remaining_count = -5
      /\ q.remaining_mult = p.remaining_mult /\ q.remaining_length = p.remaining_length
      /\ q.payload = p.payload /\ q.to_process = p.to_process
  BY <1>1 DEF InPacket
<1> HIDE DEF q
<1>4. Counted(q, "malformed")
  BY <1>1, <1>3 DEF Counted
<1> QED  BY <1>1, <1>2, <1>3, <1>4 DEF q

LEMMA PieceCounts ==
  ASSUME NEW p \in InPacket, Counted(p, "success"), p.remaining_count > 0,
         NEW d \in Seq(Byte), Len(d) <= p.to_process
  PROVE  LET q == [p EXCEPT !.payload = @ \o d, !.to_process = @ - Len(d)]
         IN /\ q \in InPacket /\ Counted(q, "success")
            /\ q.command = p.command /\ q.remaining_count = p.remaining_count
            /\ q.remaining_mult = p.remaining_mult /\ q.remaining_length = p.remaining_length
            /\ q.payload = p.payload \o d /\ q.to_process = p.to_process - Len(d)
<1> DEFINE n == Len(d)
           m == Weight(4) - 1
           q == [p EXCEPT !.payload = @ \o d, !.to_process = @ - n]
<1>1. p.payload \in Seq(Byte) /\ p.to_process \in 0..m /\ p.remaining_count \in -5..4
      /\ p.remaining_length \in 0..m
  BY DEF InPacket
<1>2. n \in Nat /\ m \in Int
  <2>1. Weight(4) \in Nat
    <3>1. 4 \in 0..4
      OBVIOUS
    <3> QED  BY <3>1, WeightFacts
  <2> QED  BY <2>1
<1> HIDE DEF n, m
<1>3. p.to_process - n \in 0..m
  BY <1>1, <1>2 DEF n
<1>4. p.payload \o d \in Seq(Byte) /\ Len(p.payload \o d) = Len(p.payload) + n
  BY <1>1, ConcatProperties DEF n
<1>5. q \in InPacket
  BY <1>3, <1>4 DEF InPacket, m
<1>6. /\ q.command = p.command /\ q.remaining_count = p.remaining_count
      /\ q.remaining_mult = p.remaining_mult /\ q.remaining_length = p.remaining_length
      /\ q.payload = p.payload \o d /\ q.to_process = p.to_process - n
  BY DEF InPacket
<1> HIDE DEF q
<1>7. Len(q.payload) + q.to_process = q.remaining_length
  <2>1. Len(p.payload) \in Nat /\ Len(p.payload) + p.to_process = p.remaining_length
    BY <1>1 DEF Counted
  <2> QED  BY <1>1, <1>2, <1>4, <1>6, <2>1
<1>8. Counted(q, "success")
  <2>1. ~(q.remaining_count <= 0)
    BY <1>1, <1>6
  <2> QED  BY <1>6, <1>7, <2>1 DEF Counted
<1> QED  BY <1>5, <1>6, <1>8 DEF q, n

LEMMA InitIInv == Init => IInv
<1> SUFFICES ASSUME Init
             PROVE  IInv
  OBVIOUS
<1>1. /\ in_packet = Empty /\ at = "idle" /\ stream \in Streams /\ received = Wire(stream)
      /\ handled = <<>> /\ rc = "success" /\ connections = 1
  BY DEF Init
<1>2. received \in Seq(Byte)
  BY <1>1, WireIsLeft, StreamsAssumption
<1>3. handled \in Seq(Handled) /\ connections \in 1..MaxConnections
  BY <1>1, ConnectionsAssumption
<1>4. in_packet \in InPacket /\ Counted(in_packet, rc)
  BY <1>1, EmptyIs
<1>5. Located
  BY <1>1 DEF Located
<1> QED  BY <1>1, <1>2, <1>3, <1>4, <1>5, TypeOKIs DEF IInv

LEMMA StartIInv == IInv /\ Start => IInv'
<1> SUFFICES ASSUME IInv, Start
             PROVE  IInv'
  OBVIOUS
<1>1. /\ in_packet' = in_packet /\ received' = received /\ stream' = stream
      /\ handled' = handled /\ rc' = rc /\ connections' = connections
      /\ rc = "success" /\ at' = WhereToGoOn(in_packet)
  BY DEF Start, Connected
<1>2. /\ at' \in {"command", "length", "payload"}
      /\ at' = "length" => in_packet.remaining_count <= 0
      /\ at' = "payload" => ~(in_packet.remaining_count <= 0)
  BY <1>1 DEF WhereToGoOn, AfterCommand
<1>3. in_packet.remaining_count \in Int
  BY TypeOKIs DEF IInv, InPacket
<1>4. TypeOK'
  BY <1>1, <1>2, TypeOKIs, TypeOKIsNext DEF IInv
<1> QED  BY <1>1, <1>2, <1>3, <1>4 DEF IInv, Located

LEMMA ReadCommandIInv == IInv /\ ReadCommand => IInv'
<1> SUFFICES ASSUME IInv, ReadCommand
             PROVE  IInv'
  OBVIOUS
<1> DEFINE c == Head(received)
           q == [in_packet EXCEPT !.command = c]
<1>1. /\ in_packet' = q /\ Took(c) /\ stream' = stream
      /\ handled' = handled /\ rc' = rc /\ connections' = connections
      /\ at = "command" /\ at' = AfterCommand(in_packet)
  BY DEF ReadCommand
<1>2. in_packet \in InPacket /\ Counted(in_packet, rc) /\ rc = "success"
      /\ received \in Seq(Byte) /\ in_packet.remaining_count \in Int
  BY <1>1, TypeOKIs DEF IInv, Located, InPacket
<1>3. c \in Byte /\ received' \in Seq(Byte)
  BY <1>1, <1>2, Takes
<1> HIDE DEF c
<1>4. q \in InPacket /\ Counted(q, rc) /\ q.remaining_count = in_packet.remaining_count
  BY <1>2, <1>3, CommandCounts
<1> HIDE DEF q
<1>5. /\ at' \in {"length", "payload"}
      /\ at' = "length" => q.remaining_count <= 0
      /\ at' = "payload" => q.remaining_count > 0
  BY <1>1, <1>2, <1>4 DEF AfterCommand
<1>6. TypeOK'
  BY <1>1, <1>3, <1>4, <1>5, TypeOKIs, TypeOKIsNext DEF IInv
<1>7. Counted(in_packet', rc')
  BY <1>1, <1>4
<1> QED  BY <1>1, <1>2, <1>5, <1>6, <1>7 DEF IInv, Located

LEMMA ReadLengthIInv == IInv /\ ReadLength => IInv'
<1> SUFFICES ASSUME IInv, ReadLength
             PROVE  IInv'
  OBVIOUS
<1> DEFINE b == Head(received)
           w == WithDigit(in_packet, b)
           q == [in_packet EXCEPT !.remaining_count = @ - 1]
<1>1. Took(b) /\ stream' = stream /\ handled' = handled /\ connections' = connections
      /\ at = "length"
  BY DEF ReadLength
<1>2. in_packet \in InPacket /\ Counted(in_packet, "success") /\ rc = "success"
      /\ received \in Seq(Byte) /\ in_packet.remaining_count \in Int
      /\ in_packet.remaining_count <= 0
  BY <1>1, TypeOKIs DEF IInv, Located, InPacket
<1>3. b \in Byte /\ received' \in Seq(Byte)
  BY <1>1, <1>2, Takes
<1>4. CASE TooMany(in_packet)
  <2>1. in_packet' = q /\ rc' = "malformed" /\ at' = "idle"
    BY <1>4 DEF ReadLength
  <2>2. in_packet.remaining_count = -4
    BY <1>2, <1>4 DEF TooMany, Counted
  <2>3. q \in InPacket /\ Counted(q, "malformed")
    BY <1>2, <2>2, RefusedCounts
  <2> HIDE DEF q
  <2>4. TypeOK'
    BY <1>1, <1>3, <2>1, <2>3, TypeOKIs, TypeOKIsNext DEF IInv
  <2> QED  BY <2>1, <2>3, <2>4 DEF IInv, Located
<1>5. CASE ~TooMany(in_packet)
  <2>1. /\ in_packet' = IF Ends(b) THEN Allocated(w) ELSE w
        /\ at' = IF Ends(b) THEN "payload" ELSE "length"
        /\ rc' = rc
    BY <1>5 DEF ReadLength
  <2>2. /\ w \in InPacket /\ Counted(w, "success") /\ w.remaining_count < 0
        /\ Allocated(w) \in InPacket /\ Counted(Allocated(w), "success")
        /\ Allocated(w).remaining_count > 0
    BY <1>2, <1>3, <1>5, WithDigitCounts
  <2>3. w.remaining_count \in Int
    BY <2>2 DEF InPacket
  <2> HIDE DEF w, b
  <2>4. TypeOK'
    BY <1>1, <1>3, <2>1, <2>2, TypeOKIs, TypeOKIsNext DEF IInv
  <2> QED  BY <1>2, <2>1, <2>2, <2>3, <2>4 DEF IInv, Located
<1> QED  BY <1>4, <1>5

LEMMA ReadPayloadIInv ==
  ASSUME NEW n \in 1..Len(received), IInv, ReadPayload(n)
  PROVE  IInv'
<1> DEFINE d == SubSeq(received, 1, n)
           q == [in_packet EXCEPT !.payload = @ \o d, !.to_process = @ - Len(d)]
<1>1. received \in Seq(Byte) /\ in_packet \in InPacket
  BY TypeOKIs DEF IInv
<1>2. d \in Seq(Byte) /\ Len(d) = n /\ SubSeq(received, n + 1, Len(received)) \in Seq(Byte)
  BY <1>1, PiecesFacts
<1>3. /\ in_packet' = q /\ stream' = stream /\ received' \in Seq(Byte)
      /\ handled' = handled /\ rc' = rc /\ connections' = connections
      /\ at = "payload" /\ at' = at /\ Len(d) <= in_packet.to_process
  BY <1>2 DEF ReadPayload
<1>4. Counted(in_packet, "success") /\ rc = "success" /\ in_packet.remaining_count > 0
  BY <1>3 DEF IInv, Located
<1> HIDE DEF d
<1>5. q \in InPacket /\ Counted(q, "success") /\ q.remaining_count = in_packet.remaining_count
  BY <1>1, <1>2, <1>3, <1>4, PieceCounts
<1> HIDE DEF q
<1>6. TypeOK'
  BY <1>3, <1>5, TypeOKIs, TypeOKIsNext DEF IInv
<1>7. Counted(in_packet', rc')
  BY <1>3, <1>4, <1>5
<1> QED  BY <1>3, <1>4, <1>5, <1>6, <1>7 DEF IInv, Located

LEMMA HandlePacketIInv == IInv /\ HandlePacket => IInv'
<1> SUFFICES ASSUME IInv, HandlePacket
             PROVE  IInv'
  OBVIOUS
<1> DEFINE e == [command |-> in_packet.command, payload |-> in_packet.payload]
<1>1. /\ in_packet' = Empty /\ received' = received /\ stream' = stream
      /\ handled' = Append(handled, e) /\ rc' = rc /\ connections' = connections
      /\ at' = "idle"
  BY PacketCleanupIs DEF HandlePacket
<1>2. handled \in Seq(Handled) /\ e \in Handled
  BY TypeOKIs DEF IInv, InPacket, Handled
<1> HIDE DEF e
<1>3. handled' \in Seq(Handled)
  BY <1>1, <1>2
<1>4. TypeOK'
  BY <1>1, <1>3, EmptyIs, TypeOKIs, TypeOKIsNext DEF IInv
<1> QED  BY <1>1, <1>4, EmptyIs DEF IInv, Located

LEMMA ReadAgainIInv == IInv /\ ReadAgain => IInv'
<1> SUFFICES ASSUME IInv, ReadAgain
             PROVE  IInv'
  OBVIOUS
<1>1. /\ in_packet' = in_packet /\ received' = received /\ stream' = stream
      /\ handled' = handled /\ rc' = rc /\ connections' = connections
      /\ at' = "idle"
  BY DEF ReadAgain
<1>2. TypeOK'
  BY <1>1, TypeOKIs, TypeOKIsNext DEF IInv
<1> QED  BY <1>1, <1>2 DEF IInv, Located

LEMMA NewConnectionIInv ==
  ASSUME IInv, NewConnection, handled' = <<>>, in_packet' = Empty
  PROVE  IInv'
<1>1. /\ connections < MaxConnections /\ connections' = connections + 1
      /\ stream' \in Streams /\ received' = Wire(stream')
      /\ rc' = "success" /\ at' = "idle"
  BY DEF NewConnection
<1>2. received' \in Seq(Byte)
  <2>1. stream' \in Seq(Packet)
    BY <1>1, StreamsAssumption
  <2> QED  BY <1>1, <2>1, WireIsLeft
<1>3. connections' \in 1..MaxConnections
  BY <1>1, TypeOKIs, ConnectionsAssumption DEF IInv
<1>4. handled' \in Seq(Handled)
  OBVIOUS
<1>5. TypeOK'
  BY <1>1, <1>2, <1>3, <1>4, EmptyIs, TypeOKIsNext
<1> QED  BY <1>1, <1>5, EmptyIs DEF IInv, Located

LEMMA NextIInv == IInv /\ [Next]_vars => IInv'
<1> SUFFICES ASSUME IInv, [Next]_vars
             PROVE  IInv'
  OBVIOUS
<1>1. CASE \E n \in 1..Len(received) : ReadPayload(n)
  BY <1>1, ReadPayloadIInv
<1>2. CASE Reconnect
  <2>1. NewConnection /\ handled' = <<>> /\ in_packet' = Empty
    BY <1>2, PacketCleanupIs DEF Reconnect
  <2> QED  BY <2>1, NewConnectionIInv
<1>3. CASE HandlePacketReconnects
  <2>1. NewConnection /\ handled' = <<>> /\ in_packet' = Empty
    BY <1>3, PacketCleanupIs DEF HandlePacketReconnects
  <2> QED  BY <2>1, NewConnectionIInv
<1>4. CASE UNCHANGED vars
  <2>1. /\ in_packet' = in_packet /\ received' = received /\ stream' = stream
        /\ handled' = handled /\ rc' = rc /\ connections' = connections /\ at' = at
    BY <1>4 DEF vars
  <2>2. TypeOK'
    BY <2>1, TypeOKIs, TypeOKIsNext DEF IInv
  <2> QED  BY <2>1, <2>2 DEF IInv, Located
<1> QED
  BY <1>1, <1>2, <1>3, <1>4, StartIInv, ReadCommandIInv, ReadLengthIInv, HandlePacketIInv,
     ReadAgainIInv DEF Next, Read

\* The fields of in_packet, however many bytes a length claims to have, keep
\* their ranges: the length stays below the weight of a fifth digit, 2^28 where
\* a digit has 7 bits, so that uint32_t does not wrap.
THEOREM TypeCorrect == Spec => []TypeOK
<1>1. IInv => TypeOK
  BY DEF IInv
<1> QED  BY <1>1, InitIInv, NextIInv, PTL DEF Spec

\* packet__read writes no byte behind the payload it has allocated, whatever
\* bytes arrive, in whatever pieces, and wherever a connection ends.
THEOREM PayloadStaysInside == Spec => []PayloadFits
<1>1. IInv => PayloadFits
  BY DEF IInv, Counted, PayloadFits
<1> QED  BY <1>1, InitIInv, NextIInv, PTL DEF Spec

-----------------------------------------------------------------------------
(***************************************************************************)
(* What the digits from the i-th on stand for.                             *)
(***************************************************************************)
Values(digits) ==
  CHOOSE value : value = [i \in 1..(Len(digits) + 1) |->
    IF i > Len(digits) THEN 0 ELSE Digit(digits[i]) + Base * value[i + 1]]

LEMMA ValueUnfolds == \A digits : Value(digits) = Values(digits)[1]
BY DEF Value, Values

LEMMA ValuesIs ==
  ASSUME NEW d \in Seq(Byte)
  PROVE  /\ Values(d)[Len(d) + 1] = 0
         /\ \A i \in 1..Len(d) :
              /\ Values(d)[i] \in Nat /\ Values(d)[i + 1] \in Nat
              /\ Values(d)[i] = Digit(d[i]) + Base * Values(d)[i + 1]
<1> DEFINE n == Len(d)
           step == [x \in Nat \X (1..n) |-> Digit(d[n + 1 - x[2]]) + Base * x[1]]
           v == Values(d)
<1>1. n \in Nat /\ Base \in Nat
  BY BaseAssumption
<1>2. \A i \in 1..n : Digit(d[i]) \in Nat
  <2> TAKE i \in 1..n
  <2>1. d[i] \in Nat /\ Base > 0
    BY BaseAssumption DEF Byte, ByteMax
  <2> QED  BY <1>1, <2>1 DEF Digit
<1>3. step \in StepFunctions(Nat, n)
  <2> SUFFICES ASSUME NEW q \in Nat, NEW i \in 1..n
               PROVE  Digit(d[n + 1 - i]) + Base * q \in Nat
    BY DEF StepFunctions
  <2>1. n + 1 - i \in 1..n
    BY <1>1
  <2>2. Digit(d[n + 1 - i]) \in Nat
    BY <1>2, <2>1
  <2> QED  BY <1>1, <2>2
<1>4. \A q \in Nat, i \in 1..n : step[<<q, i>>] = Digit(d[n + 1 - i]) + Base * q
  OBVIOUS
<1> HIDE DEF step, n
<1>5. PICK g : Recurs(g, Nat, 0, n, step)
  BY <1>1, <1>3, Recursion
<1>6. g \in [0..n -> Nat] /\ g[0] = 0 /\ \A i \in 1..n : g[i] = step[<<g[i - 1], i>>]
  BY <1>5 DEF Recurs
<1> DEFINE f == [i \in 1..(n + 1) |-> g[n + 1 - i]]
<1>7. f \in [1..(n + 1) -> Nat] /\ f[n + 1] = 0
  BY <1>1, <1>6
<1>8. ASSUME NEW i \in 1..n
      PROVE  f[i] = Digit(d[i]) + Base * f[i + 1]
  <2>1. /\ n + 1 - i \in 1..n /\ (n + 1 - i) - 1 = n - i /\ n - i \in 0..n
        /\ n + 1 - (i + 1) = n - i /\ n + 1 - (n + 1 - i) = i
        /\ i + 1 \in 1..(n + 1) /\ i \in 1..(n + 1)
    BY <1>1
  <2>2. g[n + 1 - i] = step[<<g[n - i], n + 1 - i>>] /\ g[n - i] \in Nat
    BY <1>6, <2>1
  <2>3. g[n + 1 - i] = Digit(d[i]) + Base * g[n - i]
    BY <1>4, <2>1, <2>2
  <2> QED  BY <2>1, <2>3
<1> HIDE DEF f
<1>9. f = [i \in 1..(n + 1) |-> IF i > n THEN 0 ELSE Digit(d[i]) + Base * f[i + 1]]
  <2>1. \A i \in 1..(n + 1) : IF i > n THEN i = n + 1 ELSE i \in 1..n
    BY <1>1
  <2>2. f = [i \in 1..(n + 1) |-> f[i]]
    BY <1>7
  <2>3. \A i \in 1..(n + 1) : f[i] = IF i > n THEN 0 ELSE Digit(d[i]) + Base * f[i + 1]
    BY <1>7, <1>8, <2>1
  <2> QED  BY <2>2, <2>3
<1>10. v = [i \in 1..(n + 1) |-> IF i > n THEN 0 ELSE Digit(d[i]) + Base * v[i + 1]]
  BY ONLY <1>9 DEF Values, n, v
<1> HIDE DEF v
<1>11. /\ \A i \in 1..n : i \in 1..(n + 1) /\ ~(i > n)
       /\ n + 1 \in 1..(n + 1) /\ n + 1 > n
  BY <1>1
<1>12. v[n + 1] = 0 /\ \A i \in 1..n : v[i] = Digit(d[i]) + Base * v[i + 1]
  BY <1>10, <1>11
<1> DEFINE Q == {i \in 0..n : v[n + 1 - i] \in Nat}
<1>13. 0 \in Q
  BY <1>1, <1>12
<1>14. ASSUME NEW i \in 1..n, i - 1 \in Q
       PROVE  i \in Q
  <2>1. n + 1 - i \in 1..n /\ n + 1 - (i - 1) = (n + 1 - i) + 1 /\ i \in 0..n
    BY <1>1
  <2>2. v[(n + 1 - i) + 1] \in Nat
    BY <1>14, <2>1
  <2>3. v[n + 1 - i] = Digit(d[n + 1 - i]) + Base * v[(n + 1 - i) + 1]
    BY <1>12, <2>1
  <2>4. Digit(d[n + 1 - i]) \in Nat
    BY <1>2, <2>1
  <2>5. v[n + 1 - i] \in Nat
    BY <1>1, <2>2, <2>3, <2>4
  <2> QED  BY <2>1, <2>5
<1>15. \A i \in 1..n : i - 1 \in Q => i \in Q
  BY <1>14
<1>16. \A i \in 0..n : i \in Q
  <2> HIDE DEF Q
  <2> QED  BY <1>1, <1>13, <1>15, Induction
<1>17. ASSUME NEW i \in 1..(n + 1)
       PROVE  v[i] \in Nat
  <2>1. n + 1 - i \in 0..n /\ n + 1 - (n + 1 - i) = i
    BY <1>1
  <2> QED  BY <1>16, <2>1
<1>18. \A i \in 1..n : i \in 1..(n + 1) /\ i + 1 \in 1..(n + 1)
  BY <1>1
<1> QED  BY <1>12, <1>17, <1>18 DEF n, v

-----------------------------------------------------------------------------
(***************************************************************************)
(* Where packet__read is in the stream s when it has handled h packets: p  *)
(* is in_packet, u what is left to read.                                   *)
(***************************************************************************)
AtCommand(s, h, p, u) == h \in 0..Len(s) /\ p = Empty /\ u = Left(s)[h]

\* The rest of the digits, the payload and the other packets are to come.
InLength(s, h, p, u) ==
  /\ h \in 0..(Len(s) - 1)
  /\ LET c == s[h + 1]
         k == 0 - p.remaining_count
     IN /\ k \in 0..(Len(c.digits) - 1)
        /\ p.command = c.command /\ p.payload = <<>>
        /\ p.remaining_length + p.remaining_mult * Values(c.digits)[k + 1] = Value(c.digits)
        /\ u = SubSeq(c.digits, k + 1, Len(c.digits)) \o (c.payload \o Left(s)[h + 1])

\* The rest of the payload and the other packets are to come.
InPayload(s, h, p, u) ==
  /\ h \in 0..(Len(s) - 1)
  /\ p.remaining_count > 0
  /\ p.command = s[h + 1].command
  /\ \E rest \in Seq(Byte) :
       /\ Len(rest) = p.to_process
       /\ p.payload \o rest = s[h + 1].payload
       /\ u = rest \o Left(s)[h + 1]

LEMMA LeftFacts ==
  ASSUME NEW s \in Seq(Packet)
  PROVE  /\ \A h \in 0..Len(s) : Left(s)[h] \in Seq(Byte)
         /\ Left(s)[Len(s)] = <<>>
         /\ \A h \in 0..(Len(s) - 1) :
              /\ h + 1 \in 1..Len(s) /\ s[h + 1] \in Packet
              /\ Left(s)[h + 1] \in Seq(Byte)
              /\ Left(s)[h] = Chunk(s[h + 1]) \o Left(s)[h + 1]
<1> DEFINE n == Len(s)
           f == Left(s)
<1>1. /\ f \in [0..n -> Seq(Byte)] /\ f[n] = <<>>
      /\ \A i \in 1..n : f[i - 1] = Chunk(s[i]) \o f[i]
  BY LeftIs DEF IsLeft
<1>2. n \in Nat
  OBVIOUS
<1>3. \A h \in 0..(n - 1) : s[h + 1] \in Packet
  OBVIOUS
<1> HIDE DEF n, f
<1>4. ASSUME NEW h \in 0..(n - 1)
      PROVE  h + 1 \in 1..n /\ f[h + 1] \in Seq(Byte) /\ f[h] = Chunk(s[h + 1]) \o f[h + 1]
  <2>1. h + 1 \in 1..n /\ h + 1 \in 0..n /\ (h + 1) - 1 = h
    BY <1>2
  <2> QED  BY <1>1, <2>1
<1> QED  BY <1>1, <1>3, <1>4 DEF n, f

LEMMA ConcatHead ==
  ASSUME NEW S, NEW q \in Seq(S), q # <<>>, NEW r \in Seq(S)
  PROVE  Head(q \o r) = Head(q) /\ Tail(q \o r) = Tail(q) \o r /\ q \o r # <<>>
<1>1. /\ q \o r \in Seq(S) /\ Len(q \o r) = Len(q) + Len(r)
      /\ \A i \in 1..(Len(q) + Len(r)) :
           (q \o r)[i] = IF i <= Len(q) THEN q[i] ELSE r[i - Len(q)]
      /\ Len(q) \in Nat \ {0} /\ Len(r) \in Nat
  BY ConcatProperties, EmptySeq
<1>2. q \o r # <<>>
  <2>1. Len(<<>>) = 0
    OBVIOUS
  <2> QED  BY <1>1, <2>1
<1>3. Head(q \o r) = Head(q)
  <2>1. 1 \in 1..(Len(q) + Len(r)) /\ 1 <= Len(q)
    BY <1>1
  <2>2. (q \o r)[1] = q[1]
    BY <1>1, <2>1
  <2> QED  BY <1>1, <1>2, <2>2, TailFacts
<1> DEFINE x == Tail(q \o r)
           y == Tail(q) \o r
<1>4. /\ x \in Seq(S) /\ Len(x) = Len(q) + Len(r) - 1
      /\ \A i \in 1..Len(x) : x[i] = (q \o r)[i + 1]
  BY <1>1, <1>2, TailFacts
<1>5. /\ Tail(q) \in Seq(S) /\ Len(Tail(q)) = Len(q) - 1
      /\ \A i \in 1..Len(Tail(q)) : Tail(q)[i] = q[i + 1]
  BY TailFacts
<1>6. /\ y \in Seq(S) /\ Len(y) = Len(Tail(q)) + Len(r)
      /\ \A i \in 1..(Len(Tail(q)) + Len(r)) :
           y[i] = IF i <= Len(Tail(q)) THEN Tail(q)[i] ELSE r[i - Len(Tail(q))]
  BY <1>5, ConcatProperties
<1> HIDE DEF x, y
<1>7. Len(x) = Len(y)
  BY <1>1, <1>4, <1>5, <1>6
<1>8. ASSUME NEW i \in 1..Len(x)
      PROVE  x[i] = y[i]
  <2>1. i + 1 \in 1..(Len(q) + Len(r)) /\ i \in 1..(Len(Tail(q)) + Len(r)) /\ i \in Int
    BY <1>1, <1>4, <1>5
  <2>2. CASE i <= Len(Tail(q))
    <3>1. i \in 1..Len(Tail(q)) /\ i + 1 <= Len(q)
      BY <1>1, <1>5, <2>1, <2>2
    <3> QED  BY <1>1, <1>4, <1>5, <1>6, <2>1, <2>2, <3>1
  <2>3. CASE ~(i <= Len(Tail(q)))
    <3>1. ~(i + 1 <= Len(q)) /\ (i + 1) - Len(q) = i - Len(Tail(q))
      BY <1>1, <1>5, <2>1, <2>3
    <3> QED  BY <1>1, <1>4, <1>6, <2>1, <2>3, <3>1
  <2> QED  BY <2>2, <2>3
<1>9. x = y
  BY <1>4, <1>6, <1>7, <1>8, SeqEqual
<1> QED  BY <1>2, <1>3, <1>9 DEF x, y

\* A packet and what follows it.
LEMMA ChunkTaken ==
  ASSUME NEW p \in Packet, NEW r \in Seq(Byte)
  PROVE  /\ Head(Chunk(p) \o r) = p.command /\ Chunk(p) \o r # <<>>
         /\ Tail(Chunk(p) \o r) = p.digits \o (p.payload \o r)
<1> DEFINE c == <<p.command>>
           d == p.digits
           b == p.payload
<1>1. c \in Seq(Byte) /\ d \in Seq(Byte) /\ b \in Seq(Byte) /\ d \o b \in Seq(Byte)
      /\ Chunk(p) = c \o (d \o b) /\ c # <<>> /\ Head(c) = p.command /\ Tail(c) = <<>>
  <2>1. c \in Seq(Byte) /\ d \in Seq(Byte) /\ b \in Seq(Byte) /\ d \o b \in Seq(Byte)
    BY ChunkFacts
  <2>2. Len(c) = 1 /\ c[1] = p.command
    OBVIOUS
  <2>3. Chunk(p) = c \o (d \o b)
    BY DEF Chunk
  <2> HIDE DEF c, d, b
  <2>4. c # <<>>
    <3> SUFFICES ASSUME c = <<>>
                 PROVE  FALSE
      OBVIOUS
    <3>1. Len(c) = 0
      OBVIOUS
    <3> QED  BY <2>2, <3>1
  <2>5. Head(c) = c[1] /\ Tail(c) \in Seq(Byte) /\ Len(Tail(c)) = 0
    BY <2>1, <2>2, <2>4, TailFacts
  <2>6. Tail(c) = <<>>
    BY <2>5, EmptySeq
  <2> QED  BY <2>1, <2>2, <2>3, <2>4, <2>5, <2>6
<1> HIDE DEF c, d, b
<1>2. Chunk(p) \in Seq(Byte) /\ Chunk(p) # <<>>
  BY ChunkFacts
<1>3. Head(c \o (d \o b)) = Head(c) /\ Tail(c \o (d \o b)) = Tail(c) \o (d \o b)
  <2> DEFINE e == d \o b
  <2>1. e \in Seq(Byte)
    BY <1>1
  <2> HIDE DEF e
  <2>2. Head(c \o e) = Head(c) /\ Tail(c \o e) = Tail(c) \o e
    BY <1>1, <2>1, ConcatHead
  <2> QED  BY <2>2 DEF e
<1>4. <<>> \o (d \o b) = d \o b
  BY <1>1, ConcatEmptySeq
<1>5. /\ Head(Chunk(p) \o r) = Head(Chunk(p)) /\ Tail(Chunk(p) \o r) = Tail(Chunk(p)) \o r
      /\ Chunk(p) \o r # <<>>
  BY <1>2, ConcatHead
<1>6. (d \o b) \o r = d \o (b \o r)
  BY <1>1, ConcatAssociative
<1> QED  BY <1>1, <1>3, <1>4, <1>5, <1>6 DEF d, b

LEMMA FramedFacts ==
  ASSUME WellFramed, NEW s \in Streams, NEW h \in 0..(Len(s) - 1)
  PROVE  /\ s \in Seq(Packet) /\ s[h + 1] \in Packet /\ s[h + 1].digits # <<>>
         /\ s[h + 1].digits \in Seq(Byte) /\ Len(s[h + 1].digits) \in Nat \ {0}
         /\ \A i \in 1..Len(s[h + 1].digits) :
              Ends(s[h + 1].digits[i]) <=> i = Len(s[h + 1].digits)
         /\ Len(s[h + 1].payload) = Value(s[h + 1].digits)
         /\ s[h + 1].payload \in Seq(Byte)
<1>1. s \in Seq(Packet)
  BY StreamsAssumption
<1>2. h + 1 \in 1..Len(s) /\ s[h + 1] \in Packet
  BY <1>1
<1>3. Framed(s[h + 1])
  BY <1>2 DEF WellFramed
<1>4. s[h + 1].digits \in Seq(Byte) /\ s[h + 1].payload \in Seq(Byte)
  BY <1>2, ChunkFacts
<1>5. s[h + 1].digits # <<>>
  BY <1>3 DEF Framed
<1>6. Len(s[h + 1].digits) \in Nat \ {0}
  BY <1>4, <1>5, EmptySeq
<1> QED  BY <1>1, <1>2, <1>3, <1>4, <1>5, <1>6 DEF Framed

\* The command is read: the length comes next.
LEMMA CommandRead ==
  ASSUME WellFramed, NEW s \in Streams, NEW h, NEW p, NEW u, u # <<>>,
         AtCommand(s, h, p, u)
  PROVE  InLength(s, h, [p EXCEPT !.command = Head(u)], Tail(u))
<1> DEFINE q == [p EXCEPT !.command = Head(u)]
           c == s[h + 1]
           n == Len(c.digits)
           r == Left(s)[h + 1]
<1>1. p = Empty /\ h \in 0..Len(s) /\ u = Left(s)[h] /\ s \in Seq(Packet) /\ Len(s) \in Nat
  BY StreamsAssumption DEF AtCommand
<1>2. h \in 0..(Len(s) - 1)
  <2>1. h # Len(s)
    BY <1>1, LeftFacts
  <2> QED  BY <1>1, <2>1
<1>3. c \in Packet /\ r \in Seq(Byte) /\ u = Chunk(c) \o r
  BY <1>1, <1>2, LeftFacts
<1>4. n \in Nat \ {0} /\ c.digits \in Seq(Byte)
  BY <1>2, FramedFacts
<1>5. Head(u) = c.command /\ Tail(u) = c.digits \o (c.payload \o r)
  BY <1>3, ChunkTaken
<1>6. SubSeq(c.digits, 1, n) = c.digits
  BY <1>4, SubSeqFull
<1>7. /\ q.command = Head(u) /\ q.remaining_count = 0 /\ q.remaining_mult = 1
      /\ q.remaining_length = 0 /\ q.payload = <<>>
  <2> HIDE DEF c, n, r
  <2> QED  BY <1>1 DEF Empty
<1>8. Value(c.digits) = Values(c.digits)[1] /\ Values(c.digits)[1] \in Nat
  <2>1. 1 \in 1..n
    BY <1>4
  <2> QED  BY <1>4, <2>1, ValueUnfolds, ValuesIs
<1> HIDE DEF q, c, n, r
<1>9. 0 - 0 = 0 /\ 0 + 1 = 1 /\ 0 \in 0..(n - 1)
  BY <1>4
<1>10. q.remaining_length + q.remaining_mult * Values(c.digits)[1] = Value(c.digits)
  BY <1>7, <1>8
<1> QED  BY <1>2, <1>5, <1>6, <1>7, <1>9, <1>10 DEF InLength, q, c, n, r

\* The next digit, what follows it, and what it adds to the length.
LEMMA DigitTaken ==
  ASSUME WellFramed, NEW s \in Streams, NEW h, NEW p \in InPacket, NEW u,
         InLength(s, h, p, u)
  PROVE  LET c == s[h + 1]
             k == 0 - p.remaining_count
             b == Head(u)
             w == WithDigit(p, b)
         IN /\ h \in 0..(Len(s) - 1)
            /\ p.remaining_count <= 0 /\ p.remaining_count \in Int
            /\ b \in Byte /\ (Ends(b) <=> k + 1 = Len(c.digits))
            /\ k + 1 \in 1..Len(c.digits)
            /\ Tail(u) = SubSeq(c.digits, k + 2, Len(c.digits)) \o (c.payload \o Left(s)[h + 1])
            /\ w.remaining_length + w.remaining_mult * Values(c.digits)[k + 2]
                 = Value(c.digits)
            /\ w.remaining_mult \in Nat
<1> DEFINE c == s[h + 1]
           k == 0 - p.remaining_count
           d == c.digits
           n == Len(d)
           r == c.payload \o Left(s)[h + 1]
           b == Head(u)
           w == WithDigit(p, b)
           v == Values(d)
           m == p.remaining_mult
           l == p.remaining_length
<1>1. /\ h \in 0..(Len(s) - 1) /\ k \in 0..(n - 1)
      /\ l + m * v[k + 1] = Value(d)
      /\ u = SubSeq(d, k + 1, n) \o r
  BY DEF InLength
<1>2. /\ d \in Seq(Byte) /\ n \in Nat \ {0} /\ \A i \in 1..n : Ends(d[i]) <=> i = n
  BY <1>1, FramedFacts
<1>3. r \in Seq(Byte)
  <2> DEFINE x == c.payload
             y == Left(s)[h + 1]
  <2>1. x \in Seq(Byte) /\ y \in Seq(Byte)
    BY <1>1, FramedFacts, LeftFacts
  <2> HIDE DEF x, y
  <2>2. x \o y \in Seq(Byte)
    BY <2>1, ConcatProperties
  <2> QED  BY <2>2 DEF x, y
<1>4. p.remaining_count \in Int /\ m \in Nat /\ l \in Nat
  <2>1. p.remaining_count \in -5..4 /\ m \in {Weight(i) : i \in 0..4}
        /\ l \in 0..(Weight(4) - 1)
    BY DEF InPacket
  <2>2. \A i \in 0..4 : Weight(i) \in Nat
    BY WeightFacts
  <2> QED  BY <2>1, <2>2
<1>5. /\ w.remaining_mult = m * Base /\ w.remaining_length = l + Digit(b) * m
  BY WithDigitIs
<1> HIDE DEF w, c, d, n, r, v, m, l
<1>6. k \in Int /\ p.remaining_count <= 0 /\ k + 1 \in 1..n /\ n \in (k + 1)..n
      /\ (k + 1) + 1 = k + 2
  <2> DEFINE count == p.remaining_count
  <2>1. count \in Int /\ k = 0 - count /\ k \in 0..(n - 1) /\ n \in Nat
    BY <1>1, <1>2, <1>4
  <2> HIDE DEF count, k
  <2>2. k \in Int /\ count <= 0
    BY <2>1
  <2>3. k + 1 \in 1..n /\ n \in (k + 1)..n /\ (k + 1) + 1 = k + 2
    BY <2>1
  <2> QED  BY <2>2, <2>3 DEF count
<1> HIDE DEF k
<1> DEFINE x == SubSeq(d, k + 1, n)
<1>7. Head(x) = d[k + 1] /\ Tail(x) = SubSeq(d, k + 2, n)
  <2>1. k + 1 \in 1..Len(d) /\ n \in (k + 1)..Len(d)
    BY <1>6 DEF n
  <2>2. Head(SubSeq(d, k + 1, n)) = d[k + 1]
        /\ Tail(SubSeq(d, k + 1, n)) = SubSeq(d, (k + 1) + 1, n)
    BY <1>2, <2>1, HeadTailOfSubSeq
  <2> QED  BY <1>6, <2>2
<1>8. x \in Seq(Byte) /\ x # <<>>
  <2>1. k + 1 \in Int /\ n \in Int /\ k + 1 <= n /\ n - (k + 1) + 1 > 0
    BY <1>6, <1>2
  <2>2. \A i \in (k + 1)..n : d[i] \in Byte
    <3>1. \A i \in (k + 1)..n : i \in 1..Len(d)
      BY <1>2, <1>6 DEF n
    <3> QED  BY <1>2, <3>1
  <2>3. x \in Seq(Byte) /\ Len(x) = n - (k + 1) + 1
    BY <2>1, <2>2, SubSeqProperties
  <2> HIDE DEF x
  <2>4. x # <<>>
    <3> SUFFICES ASSUME x = <<>>
                 PROVE  FALSE
      OBVIOUS
    <3>1. Len(x) = 0
      OBVIOUS
    <3> QED  BY <2>1, <2>3, <3>1
  <2> QED  BY <2>3, <2>4
<1> HIDE DEF x
<1>9. Head(u) = Head(x) /\ Tail(u) = Tail(x) \o r
  <2>1. u = x \o r
    BY <1>1 DEF x
  <2> QED  BY <1>3, <1>8, <2>1, ConcatHead
<1>10. b = d[k + 1] /\ b \in Byte
  <2>1. k + 1 \in 1..Len(d)
    BY <1>6 DEF n
  <2> QED  BY <1>2, <1>7, <1>9, <2>1
<1> HIDE DEF b
<1>11. v[k + 1] \in Nat /\ v[k + 2] \in Nat /\ v[k + 1] = Digit(d[k + 1]) + Base * v[k + 2]
  <2>1. k + 1 \in 1..Len(d)
    BY <1>6 DEF n
  <2> QED  BY <1>2, <1>6, <2>1, ValuesIs DEF v
<1>12. (l + Digit(b) * m) + (m * Base) * v[k + 2] = Value(d) /\ m * Base \in Nat
  <2> DEFINE e == Digit(b)
             z == v[k + 2]
             val == Value(d)
  <2>1. e \in Nat /\ Base \in Nat
    <3>1. b \in Nat /\ Base \in Nat /\ Base > 0
      BY <1>10, BaseAssumption DEF Byte, ByteMax
    <3> QED  BY <3>1 DEF Digit
  <2>2. l + m * (e + Base * z) = val
    BY <1>1, <1>10, <1>11
  <2>3. z \in Nat
    BY <1>11
  <2> HIDE DEF e, z, val
  <2>4. m * (e + Base * z) = e * m + (m * Base) * z
    BY <1>4, <2>1, <2>3
  <2>5. e * m \in Nat /\ m * Base \in Nat /\ (m * Base) * z \in Nat
    BY <1>4, <2>1, <2>3
  <2> HIDE DEF Digit
  <2>6. (l + e * m) + (m * Base) * z = val
    BY <1>4, <2>2, <2>4, <2>5
  <2> QED  BY <2>5, <2>6 DEF e, z, val
<1>13. Ends(b) <=> k + 1 = n
  BY <1>2, <1>6, <1>10
<1> QED
  BY <1>1, <1>4, <1>5, <1>6, <1>7, <1>9, <1>10, <1>12, <1>13 DEF w, c, d, n, r, v, m, l, k, b

\* A digit is read that is not the last.
LEMMA DigitRead ==
  ASSUME WellFramed, NEW s \in Streams, NEW h, NEW p \in InPacket, NEW u,
         InLength(s, h, p, u), ~Ends(Head(u))
  PROVE  InLength(s, h, WithDigit(p, Head(u)), Tail(u))
<1> DEFINE c == s[h + 1]
           k == 0 - p.remaining_count
           b == Head(u)
           w == WithDigit(p, b)
<1>1. /\ h \in 0..(Len(s) - 1)
      /\ p.remaining_count \in Int
      /\ (Ends(b) <=> k + 1 = Len(c.digits))
      /\ k + 1 \in 1..Len(c.digits)
      /\ Tail(u) = SubSeq(c.digits, k + 2, Len(c.digits)) \o (c.payload \o Left(s)[h + 1])
      /\ w.remaining_length + w.remaining_mult * Values(c.digits)[k + 2] = Value(c.digits)
  BY DigitTaken
<1>2. /\ w.command = p.command /\ w.remaining_count = p.remaining_count - 1
      /\ w.payload = p.payload
  BY WithDigitIs
<1>3. p.command = c.command /\ p.payload = <<>>
  BY DEF InLength
<1>4. Len(c.digits) \in Nat
  BY <1>1, FramedFacts
<1> DEFINE n == Len(c.digits)
<1> HIDE DEF n, w, b, c
<1>5. k + 1 # n
  BY <1>1 DEF n, b
<1>6. 0 - w.remaining_count = k + 1 /\ (k + 1) + 1 = k + 2 /\ k + 1 \in 0..(n - 1)
  <2>1. n \in Nat /\ k + 1 \in 1..n
    BY <1>1, <1>4 DEF n
  <2> QED  BY <1>1, <1>2, <1>5, <2>1
<1> HIDE DEF k
<1> QED  BY <1>1, <1>2, <1>3, <1>6 DEF InLength, n, w, b, c

\* The last digit is read: the payload comes next.
LEMMA LastDigitRead ==
  ASSUME WellFramed, NEW s \in Streams, NEW h, NEW p \in InPacket, NEW u,
         InLength(s, h, p, u), Ends(Head(u))
  PROVE  InPayload(s, h, Allocated(WithDigit(p, Head(u))), Tail(u))
<1> DEFINE c == s[h + 1]
           k == 0 - p.remaining_count
           b == Head(u)
           w == WithDigit(p, b)
           a == Allocated(w)
           n == Len(c.digits)
           x == c.payload
           y == Left(s)[h + 1]
<1>1. /\ h \in 0..(Len(s) - 1)
      /\ p.remaining_count <= 0 /\ p.remaining_count \in Int
      /\ k + 1 = n
      /\ Tail(u) = SubSeq(c.digits, k + 2, n) \o (x \o y)
      /\ w.remaining_length + w.remaining_mult * Values(c.digits)[k + 2] = Value(c.digits)
      /\ w.remaining_mult \in Nat
  BY DigitTaken
<1>2. /\ w.remaining_length = p.remaining_length + Digit(b) * p.remaining_mult
      /\ a.command = p.command /\ a.remaining_count = 0 - (p.remaining_count - 1)
      /\ a.payload = p.payload
      /\ a.to_process = p.remaining_length + Digit(b) * p.remaining_mult
  BY WithDigitIs
<1>3. p.command = c.command /\ p.payload = <<>>
  BY DEF InLength
<1>4. /\ n \in Nat \ {0} /\ c.digits \in Seq(Byte)
      /\ x \in Seq(Byte) /\ y \in Seq(Byte) /\ Len(x) = Value(c.digits)
  BY <1>1, FramedFacts, LeftFacts
<1>5. Values(c.digits)[n + 1] = 0
  BY <1>4, ValuesIs
<1>6. Len(x) \in Nat
  BY <1>4
<1> HIDE DEF a, w, b, c, n, x, y
<1>7. k + 2 = n + 1 /\ n \in Int /\ n + 1 \in Int /\ n < n + 1
  <2>1. k \in Int /\ k + 1 = n /\ n \in Nat
    BY <1>1, <1>4
  <2> HIDE DEF k
  <2> QED  BY <2>1
<1>8. SubSeq(c.digits, k + 2, n) = <<>>
  BY <1>7, SubSeqEmpty
<1>9. Tail(u) = x \o y
  <2>1. x \o y \in Seq(Byte)
    BY <1>4, ConcatProperties
  <2>2. <<>> \o (x \o y) = x \o y
    BY <2>1, ConcatEmptySeq
  <2> QED  BY <1>1, <1>8, <2>2
<1>10. a.to_process = Len(x)
  <2> DEFINE l == w.remaining_length
  <2>1. w.remaining_mult * 0 = 0
    BY <1>1
  <2>2. l + 0 = Len(x)
    BY <1>1, <1>4, <1>5, <1>7, <2>1
  <2>3. l \in Nat
    <3>1. p.remaining_length \in Nat /\ p.remaining_mult \in Nat /\ Digit(b) \in Nat
      <4>1. p.remaining_mult \in {Weight(i) : i \in 0..4} /\ p.remaining_length \in 0..(Weight(4) - 1)
        BY DEF InPacket
      <4>2. \A i \in 0..4 : Weight(i) \in Nat
        BY WeightFacts
      <4>3. Base \in Nat /\ Base > 0
        BY BaseAssumption
      <4>4. b \in Nat
        <5>1. b \in Byte
          BY DigitTaken DEF b
        <5> QED  BY <5>1, BaseAssumption DEF Byte, ByteMax
      <4>5. Digit(b) \in Nat
        BY <4>3, <4>4 DEF Digit
      <4> QED  BY <4>1, <4>2, <4>5
    <3> HIDE DEF Digit
    <3>2. Digit(b) * p.remaining_mult \in Nat
      BY <3>1
    <3> QED  BY <1>2, <3>1, <3>2
  <2>4. l = Len(x)
    BY <2>2, <2>3, <1>6
  <2> QED  BY <1>2, <2>4
<1>11. a.remaining_count > 0
  BY <1>1, <1>2
<1>12. a.payload \o x = x
  BY <1>2, <1>3, <1>4, ConcatEmptySeq
<1> QED  BY <1>1, <1>2, <1>3, <1>4, <1>9, <1>10, <1>11, <1>12 DEF InPayload, a, w, b, c, x, y

\* A piece of the payload is read.
LEMMA PieceRead ==
  ASSUME NEW s \in Streams, NEW h, NEW p \in InPacket, NEW u \in Seq(Byte),
         InPayload(s, h, p, u), NEW n \in 1..Len(u), n <= p.to_process,
         NEW q, q.command = p.command, q.remaining_count = p.remaining_count,
         q.payload = p.payload \o SubSeq(u, 1, n),
         q.to_process = p.to_process - n
  PROVE  InPayload(s, h, q, SubSeq(u, n + 1, Len(u)))
<1> DEFINE c == s[h + 1]
           y == Left(s)[h + 1]
<1>1. /\ h \in 0..(Len(s) - 1) /\ p.remaining_count > 0 /\ p.command = c.command
  BY DEF InPayload
<1>2. PICK rest \in Seq(Byte) : /\ Len(rest) = p.to_process /\ p.payload \o rest = c.payload
                                /\ u = rest \o y
  BY DEF InPayload
<1>3. y \in Seq(Byte) /\ p.payload \in Seq(Byte)
  BY <1>1, StreamsAssumption, LeftFacts DEF InPacket
<1> HIDE DEF y, c
<1> DEFINE l == Len(rest)
           d == SubSeq(rest, 1, n)
           e == SubSeq(rest, n + 1, l)
<1>4. l \in Nat /\ n \in 1..l /\ Len(y) \in Nat /\ Len(u) = l + Len(y)
  <2>1. Len(u) = Len(rest) + Len(y)
    BY <1>2, <1>3, ConcatProperties
  <2>2. Len(rest) \in Nat /\ Len(y) \in Nat
    BY <1>3
  <2>3. n <= Len(rest) /\ n \in 1..Len(u)
    BY <1>2
  <2> QED  BY <2>1, <2>2, <2>3
<1>5. d \in Seq(Byte) /\ Len(d) = n /\ e \in Seq(Byte)
  BY <1>4, PiecesFacts
<1>6. d \o e = rest
  <2>1. 1 \in 1..(l + 1) /\ n \in (1 - 1)..l /\ l \in n..l
    BY <1>4
  <2>2. SubSeq(rest, 1, n) \o SubSeq(rest, n + 1, l) = SubSeq(rest, 1, l)
    BY <2>1, ConcatAdjacentSubSeq
  <2>3. SubSeq(rest, 1, l) = rest
    BY SubSeqFull
  <2> QED  BY <2>2, <2>3
<1>7. SubSeq(u, 1, n) = d
  <2>1. 1 \in 1..l /\ n \in 1..l
    BY <1>4
  <2> QED  BY <1>2, <1>3, <2>1, SubSeqOfConcat1
<1> HIDE DEF d
<1>8. Len(e) = l - n
  <2>1. n + 1 \in Int /\ l \in Int /\ (n + 1 <= l => l - (n + 1) + 1 = l - n)
        /\ (~(n + 1 <= l) => l - n = 0)
    BY <1>4
  <2>2. \A i \in (n + 1)..l : rest[i] \in Byte
    BY <1>4
  <2>3. Len(e) = IF n + 1 <= l THEN l - (n + 1) + 1 ELSE 0
    BY <2>1, <2>2, SubSeqProperties
  <2> QED  BY <2>1, <2>3
<1> DEFINE z == SubSeq(u, n + 1, Len(u))
<1>9. z = e \o y
  <2>1. \A i \in (n + 1)..Len(u) : u[i] \in Byte
    BY <1>4
  <2>2. /\ n + 1 \in Int /\ Len(u) \in Int
        /\ (n + 1 <= Len(u) => Len(u) - (n + 1) + 1 = Len(u) - n)
        /\ (~(n + 1 <= Len(u)) => Len(u) - n = 0)
    BY <1>4
  <2>3. /\ z \in Seq(Byte)
        /\ Len(z) = IF n + 1 <= Len(u) THEN Len(u) - (n + 1) + 1 ELSE 0
        /\ \A i \in 1..(Len(u) - (n + 1) + 1) : z[i] = u[(n + 1) + i - 1]
    BY <2>1, <2>2, SubSeqProperties
  <2>4. /\ e \o y \in Seq(Byte) /\ Len(e \o y) = Len(e) + Len(y)
        /\ \A i \in 1..(Len(e) + Len(y)) :
             (e \o y)[i] = IF i <= Len(e) THEN e[i] ELSE y[i - Len(e)]
    BY <1>3, <1>5, ConcatProperties
  <2>5. \A i \in 1..(Len(rest) + Len(y)) :
          u[i] = IF i <= Len(rest) THEN rest[i] ELSE y[i - Len(rest)]
    BY <1>2, <1>3, ConcatProperties
  <2>6. \A i \in 1..(l - (n + 1) + 1) : e[i] = rest[(n + 1) + i - 1]
    <3>1. \A i \in (n + 1)..l : rest[i] \in Byte
      BY <1>4
    <3>2. n + 1 \in Int /\ l \in Int
      BY <1>4
    <3> QED  BY <3>1, <3>2, SubSeqProperties
  <2> HIDE DEF z, e
  <2>7. Len(z) = Len(e \o y)
    BY <1>4, <1>8, <2>2, <2>3, <2>4
  <2>8. ASSUME NEW i \in 1..Len(z)
        PROVE  z[i] = (e \o y)[i]
    <3>1. /\ i \in Int /\ i >= 1 /\ i <= Len(u) - n /\ (n + 1) + i - 1 = n + i
          /\ Len(u) - (n + 1) + 1 = Len(u) - n /\ i \in 1..(Len(u) - (n + 1) + 1)
          /\ i \in 1..(Len(e) + Len(y)) /\ n + i \in 1..(Len(rest) + Len(y))
      BY <1>4, <1>8, <2>2, <2>3, <2>7, <2>4
    <3>2. z[i] = u[n + i]
      BY <2>3, <3>1
    <3>3. CASE i <= Len(e)
      <4>1. n + i <= Len(rest) /\ i \in 1..(l - (n + 1) + 1)
        BY <1>4, <1>8, <3>1, <3>3
      <4>2. u[n + i] = rest[n + i] /\ e[i] = rest[n + i] /\ (e \o y)[i] = e[i]
        BY <2>4, <2>5, <2>6, <3>1, <3>3, <4>1
      <4> QED  BY <3>2, <4>2
    <3>4. CASE ~(i <= Len(e))
      <4>1. ~(n + i <= Len(rest)) /\ (n + i) - Len(rest) = i - Len(e)
        BY <1>4, <1>8, <3>1, <3>4
      <4> QED  BY <2>4, <2>5, <3>1, <3>2, <3>4, <4>1
    <3> QED  BY <3>3, <3>4
  <2> QED  BY <2>3, <2>4, <2>7, <2>8, SeqEqual
<1> HIDE DEF e, z
<1>10. q.payload \o e = c.payload
  <2> DEFINE pay == p.payload
  <2>1. pay \in Seq(Byte)
    BY <1>3
  <2> HIDE DEF pay
  <2>2. (pay \o d) \o e = pay \o (d \o e)
    <3>1. d \in Seq(Byte) /\ e \in Seq(Byte)
      BY <1>5
    <3> QED  BY ONLY <2>1, <3>1, Associates
  <2> QED  BY <1>2, <1>6, <1>7, <2>2 DEF pay
<1>11. Len(e) = q.to_process
  BY <1>2, <1>8
<1> QED  BY <1>1, <1>5, <1>9, <1>10, <1>11 DEF InPayload, c, y, z

\* The payload is complete: it is the one of the next packet, and the packet
\* after it comes next.
LEMMA PayloadRead ==
  ASSUME NEW s \in Streams, NEW h, NEW p \in InPacket, NEW u,
         InPayload(s, h, p, u), p.to_process = 0
  PROVE  /\ h \in 0..(Len(s) - 1) /\ p.command = s[h + 1].command
         /\ p.payload = s[h + 1].payload
         /\ AtCommand(s, h + 1, Empty, u)
<1> DEFINE c == s[h + 1]
           y == Left(s)[h + 1]
<1>1. /\ h \in 0..(Len(s) - 1) /\ p.command = c.command
  BY DEF InPayload
<1>2. PICK rest \in Seq(Byte) : /\ Len(rest) = p.to_process /\ p.payload \o rest = c.payload
                                /\ u = rest \o y
  BY DEF InPayload
<1>3. y \in Seq(Byte) /\ p.payload \in Seq(Byte)
  BY <1>1, StreamsAssumption, LeftFacts DEF InPacket
<1> HIDE DEF y, c
<1>4. rest = <<>>
  BY <1>2, EmptySeq
<1>5. u = y /\ p.payload = c.payload
  BY <1>2, <1>3, <1>4, ConcatEmptySeq
<1>6. h + 1 \in 0..Len(s)
  <2>1. Len(s) \in Nat
    BY StreamsAssumption
  <2> QED  BY <1>1, <2>1
<1> QED  BY <1>1, <1>5, <1>6 DEF AtCommand, c, y

-----------------------------------------------------------------------------
(***************************************************************************)
(* The position in the stream, with the packets handled before it.         *)
(***************************************************************************)
PositionAt(a, s, h, p, u) ==
  \/ a \in {"idle", "command"} /\ AtCommand(s, h, p, u)
  \/ a \in {"idle", "length"} /\ InLength(s, h, p, u)
  \/ a \in {"idle", "payload"} /\ InPayload(s, h, p, u)

SentUpTo(s, q) ==
  /\ Len(q) <= Len(s)
  /\ \A i \in 1..Len(q) : q[i] = Sent(s[i])

PInv ==
  /\ IInv
  /\ SentUpTo(stream, handled)
  /\ rc = "success" => PositionAt(at, stream, Len(handled), in_packet, received)

LEMMA PInvIs == PInv => HandledIsSent
BY DEF PInv, SentUpTo, HandledIsSent

\* Each phase is the one in which packet__read goes on.
LEMMA PhaseIs ==
  ASSUME WellFramed, NEW s \in Streams, NEW h, NEW p \in InPacket, NEW u
  PROVE  /\ AtCommand(s, h, p, u) => WhereToGoOn(p) = "command"
         /\ InLength(s, h, p, u) => WhereToGoOn(p) = "length"
         /\ InPayload(s, h, p, u) => WhereToGoOn(p) = "payload"
<1>1. AtCommand(s, h, p, u) => WhereToGoOn(p) = "command"
  BY EmptyIs DEF AtCommand, WhereToGoOn
<1>2. ASSUME h \in 0..(Len(s) - 1)
      PROVE  s[h + 1].command # 0
  <2>1. s[h + 1] \in Packet
    BY <1>2, FramedFacts
  <2> QED  BY <2>1, ChunkFacts
<1>3. ASSUME InLength(s, h, p, u)
      PROVE  WhereToGoOn(p) = "length"
  <2>1. h \in 0..(Len(s) - 1) /\ p.command = s[h + 1].command
    BY <1>3 DEF InLength
  <2>2. p.remaining_count <= 0
    BY <1>3, DigitTaken
  <2> QED  BY <1>2, <2>1, <2>2 DEF WhereToGoOn, AfterCommand
<1>4. ASSUME InPayload(s, h, p, u)
      PROVE  WhereToGoOn(p) = "payload"
  <2>1. h \in 0..(Len(s) - 1) /\ p.command = s[h + 1].command /\ p.remaining_count > 0
    BY <1>4 DEF InPayload
  <2>2. p.remaining_count \in Int
    BY DEF InPacket
  <2>3. ~(p.remaining_count <= 0)
    BY <2>1, <2>2
  <2> QED  BY <1>2, <2>1, <2>3 DEF WhereToGoOn, AfterCommand
<1> QED  BY <1>1, <1>3, <1>4

\* Where a phase ends the position is the start of a stream.
LEMMA StartPosition ==
  ASSUME NEW s \in Streams
  PROVE  AtCommand(s, 0, Empty, Wire(s)) /\ SentUpTo(s, <<>>)
<1>1. s \in Seq(Packet) /\ Len(s) \in Nat /\ 0 \in 0..Len(s) /\ Len(<<>>) = 0
  BY StreamsAssumption
<1>2. Wire(s) = Left(s)[0]
  BY <1>1, WireIsLeft
<1> QED  BY <1>1, <1>2 DEF AtCommand, SentUpTo

LEMMA SentOneMore ==
  ASSUME NEW s \in Streams, NEW q \in Seq(Handled), SentUpTo(s, q),
         Len(q) \in 0..(Len(s) - 1), NEW e \in Handled, e = Sent(s[Len(q) + 1])
  PROVE  SentUpTo(s, Append(q, e)) /\ Len(Append(q, e)) = Len(q) + 1
<1>1. s \in Seq(Packet) /\ Len(s) \in Nat /\ Len(q) \in Nat
  BY StreamsAssumption
<1> DEFINE r == Append(q, e)
<1>2. /\ Len(r) = Len(q) + 1 /\ r[Len(q) + 1] = e
      /\ \A i \in 1..Len(q) : r[i] = q[i]
      /\ \A i \in 1..Len(r) : i \in 1..Len(q) \/ i = Len(q) + 1
  BY AppendFacts
<1> HIDE DEF r
<1>3. \A i \in 1..Len(r) : r[i] = Sent(s[i])
  BY <1>2 DEF SentUpTo
<1>4. Len(r) <= Len(s)
  BY <1>1, <1>2
<1> QED  BY <1>2, <1>3, <1>4 DEF SentUpTo, r

LEMMA InitPInv == Init => PInv
<1> SUFFICES ASSUME Init
             PROVE  PInv
  OBVIOUS
<1>1. /\ in_packet = Empty /\ at = "idle" /\ stream \in Streams /\ received = Wire(stream)
      /\ handled = <<>> /\ rc = "success"
  BY DEF Init
<1>2. Len(handled) = 0
  BY <1>1
<1>3. AtCommand(stream, 0, in_packet, received) /\ SentUpTo(stream, handled)
  BY <1>1, StartPosition
<1> QED  BY <1>1, <1>2, <1>3, InitIInv DEF PInv, PositionAt

LEMMA StartPInv ==
  ASSUME WellFramed, PInv, Start, IInv'
  PROVE  PInv'
<1>1. /\ in_packet' = in_packet /\ received' = received /\ stream' = stream
      /\ handled' = handled /\ rc' = rc
      /\ rc = "success" /\ at' = WhereToGoOn(in_packet)
  BY DEF Start, Connected
<1>2. in_packet \in InPacket /\ stream \in Streams
  BY TypeOKIs DEF PInv, IInv
<1> DEFINE h == Len(handled)
<1>3. \/ AtCommand(stream, h, in_packet, received) \/ InLength(stream, h, in_packet, received)
      \/ InPayload(stream, h, in_packet, received)
  BY <1>1 DEF PInv, PositionAt
<1>4. PositionAt(at', stream, h, in_packet, received)
  BY <1>1, <1>2, <1>3, PhaseIs DEF PositionAt
<1>5. PositionAt(at', stream', Len(handled'), in_packet', received')
  BY <1>1, <1>4
<1>6. SentUpTo(stream', handled')
  BY <1>1 DEF PInv
<1> QED  BY <1>5, <1>6 DEF PInv

LEMMA ReadCommandPInv ==
  ASSUME WellFramed, PInv, ReadCommand, IInv'
  PROVE  PInv'
<1> DEFINE b == Head(received)
           q == [in_packet EXCEPT !.command = b]
           h == Len(handled)
<1>1. /\ in_packet' = q /\ received # <<>> /\ received' = Tail(received)
      /\ stream' = stream /\ handled' = handled /\ rc' = rc
      /\ at = "command" /\ at' = AfterCommand(in_packet)
  BY DEF ReadCommand, Took
<1>2. in_packet \in InPacket /\ stream \in Streams /\ rc = "success"
  BY <1>1, TypeOKIs DEF PInv, IInv, Located
<1>3. AtCommand(stream, h, in_packet, received)
  BY <1>1, <1>2 DEF PInv, PositionAt
<1>4. InLength(stream, h, q, Tail(received))
  BY <1>1, <1>2, <1>3, CommandRead
<1>5. at' = "length"
  BY <1>1, <1>3, EmptyIs DEF AtCommand, AfterCommand
<1> HIDE DEF q
<1>6. PositionAt(at', stream', Len(handled'), in_packet', received')
  BY <1>1, <1>4, <1>5 DEF PositionAt
<1>7. SentUpTo(stream', handled')
  BY <1>1 DEF PInv
<1> QED  BY <1>6, <1>7 DEF PInv

LEMMA ReadLengthPInv ==
  ASSUME WellFramed, PInv, ReadLength, IInv'
  PROVE  PInv'
<1> DEFINE b == Head(received)
           w == WithDigit(in_packet, b)
           h == Len(handled)
<1>1. /\ received' = Tail(received) /\ stream' = stream /\ handled' = handled
      /\ at = "length"
  BY DEF ReadLength, Took
<1>2. in_packet \in InPacket /\ stream \in Streams /\ rc = "success"
  BY <1>1, TypeOKIs DEF PInv, IInv, Located
<1>3. SentUpTo(stream', handled')
  BY <1>1 DEF PInv
<1>4. InLength(stream, h, in_packet, received)
  BY <1>1, <1>2 DEF PInv, PositionAt
<1>5. CASE TooMany(in_packet)
  <2>1. rc' = "malformed"
    BY <1>5 DEF ReadLength
  <2> QED  BY <1>3, <2>1 DEF PInv
<1>6. CASE ~TooMany(in_packet) /\ Ends(b)
  <2>1. in_packet' = Allocated(w) /\ at' = "payload"
    BY <1>6 DEF ReadLength
  <2>2. InPayload(stream, h, Allocated(w), Tail(received))
    BY <1>2, <1>4, <1>6, LastDigitRead
  <2> HIDE DEF w
  <2>3. PositionAt(at', stream', Len(handled'), in_packet', received')
    BY <1>1, <2>1, <2>2 DEF PositionAt
  <2> QED  BY <1>3, <2>3 DEF PInv
<1>7. CASE ~TooMany(in_packet) /\ ~Ends(b)
  <2>1. in_packet' = w /\ at' = "length"
    BY <1>7 DEF ReadLength
  <2>2. InLength(stream, h, w, Tail(received))
    BY <1>2, <1>4, <1>7, DigitRead
  <2> HIDE DEF w
  <2>3. PositionAt(at', stream', Len(handled'), in_packet', received')
    BY <1>1, <2>1, <2>2 DEF PositionAt
  <2> QED  BY <1>3, <2>3 DEF PInv
<1> QED  BY <1>5, <1>6, <1>7

LEMMA ReadPayloadPInv ==
  ASSUME PInv, NEW n \in 1..Len(received), ReadPayload(n), IInv'
  PROVE  PInv'
<1> DEFINE d == SubSeq(received, 1, n)
           q == [in_packet EXCEPT !.payload = @ \o d, !.to_process = @ - n]
           h == Len(handled)
<1>1. /\ in_packet' = q /\ stream' = stream /\ handled' = handled /\ rc' = rc
      /\ received' = SubSeq(received, n + 1, Len(received))
      /\ at = "payload" /\ at' = at /\ n <= in_packet.to_process
  BY DEF ReadPayload
<1>2. /\ in_packet \in InPacket /\ stream \in Streams /\ rc = "success"
      /\ received \in Seq(Byte)
  BY <1>1, TypeOKIs DEF PInv, IInv, Located
<1>3. InPayload(stream, h, in_packet, received)
  BY <1>1, <1>2 DEF PInv, PositionAt
<1>4. /\ q.command = in_packet.command /\ q.remaining_count = in_packet.remaining_count
      /\ q.payload = in_packet.payload \o d /\ q.to_process = in_packet.to_process - n
  BY <1>2 DEF InPacket
<1> HIDE DEF q
<1>5. InPayload(stream, h, q, SubSeq(received, n + 1, Len(received)))
  BY <1>1, <1>2, <1>3, <1>4, PieceRead
<1>6. PositionAt(at', stream', Len(handled'), in_packet', received')
  BY <1>1, <1>5 DEF PositionAt
<1>7. SentUpTo(stream', handled')
  BY <1>1 DEF PInv
<1> QED  BY <1>6, <1>7 DEF PInv

LEMMA HandlePacketPInv ==
  ASSUME PInv, HandlePacket, IInv'
  PROVE  PInv'
<1> DEFINE e == [command |-> in_packet.command, payload |-> in_packet.payload]
           h == Len(handled)
<1>1. /\ in_packet' = Empty /\ received' = received /\ stream' = stream
      /\ handled' = Append(handled, e) /\ rc' = rc
      /\ at = "payload" /\ at' = "idle" /\ in_packet.to_process = 0
  BY PacketCleanupIs DEF HandlePacket
<1>2. /\ in_packet \in InPacket /\ stream \in Streams /\ rc = "success"
      /\ handled \in Seq(Handled) /\ SentUpTo(stream, handled)
  BY <1>1, TypeOKIs DEF PInv, IInv, Located
<1>3. InPayload(stream, h, in_packet, received)
  BY <1>1, <1>2 DEF PInv, PositionAt
<1>4. /\ h \in 0..(Len(stream) - 1) /\ in_packet.command = stream[h + 1].command
      /\ in_packet.payload = stream[h + 1].payload
      /\ AtCommand(stream, h + 1, Empty, received)
  BY <1>1, <1>2, <1>3, PayloadRead
<1>5. e \in Handled /\ e = Sent(stream[h + 1])
  BY <1>2, <1>4 DEF Handled, Sent, InPacket
<1> HIDE DEF e
<1>6. SentUpTo(stream, Append(handled, e)) /\ Len(Append(handled, e)) = h + 1
  BY <1>2, <1>4, <1>5, SentOneMore
<1>7. PositionAt(at', stream', Len(handled'), in_packet', received')
  BY <1>1, <1>4, <1>6 DEF PositionAt
<1>8. SentUpTo(stream', handled')
  BY <1>1, <1>6
<1> QED  BY <1>7, <1>8 DEF PInv

LEMMA ReadAgainPInv ==
  ASSUME PInv, ReadAgain, IInv'
  PROVE  PInv'
<1>1. /\ in_packet' = in_packet /\ received' = received /\ stream' = stream
      /\ handled' = handled /\ rc' = rc
      /\ at' = "idle"
  BY DEF ReadAgain
<1>2. rc' = "success" => PositionAt(at', stream', Len(handled'), in_packet', received')
  BY <1>1 DEF PInv, PositionAt
<1>3. SentUpTo(stream', handled')
  BY <1>1 DEF PInv
<1> QED  BY <1>2, <1>3 DEF PInv

LEMMA NewConnectionPInv ==
  ASSUME NewConnection, handled' = <<>>, in_packet' = Empty, IInv'
  PROVE  PInv'
<1>1. stream' \in Streams /\ received' = Wire(stream') /\ at' = "idle"
  BY DEF NewConnection
<1>2. AtCommand(stream', 0, in_packet', received') /\ SentUpTo(stream', handled')
  BY <1>1, StartPosition
<1>3. Len(handled') = 0
  OBVIOUS
<1> QED  BY <1>1, <1>2, <1>3 DEF PInv, PositionAt

LEMMA NextPInv ==
  ASSUME WellFramed
  PROVE  PInv /\ [Next]_vars => PInv'
<1> SUFFICES ASSUME PInv, [Next]_vars
             PROVE  PInv'
  OBVIOUS
<1>0. IInv'
  BY NextIInv DEF PInv
<1>1. CASE \E n \in 1..Len(received) : ReadPayload(n)
  BY <1>0, <1>1, ReadPayloadPInv
<1>2. CASE Reconnect
  <2>1. NewConnection /\ handled' = <<>> /\ in_packet' = Empty
    BY <1>2, PacketCleanupIs DEF Reconnect
  <2> QED  BY <1>0, <2>1, NewConnectionPInv
<1>3. CASE HandlePacketReconnects
  <2>1. NewConnection /\ handled' = <<>> /\ in_packet' = Empty
    BY <1>3, PacketCleanupIs DEF HandlePacketReconnects
  <2> QED  BY <1>0, <2>1, NewConnectionPInv
<1>4. CASE UNCHANGED vars
  <2>1. /\ in_packet' = in_packet /\ received' = received /\ stream' = stream
        /\ handled' = handled /\ rc' = rc /\ at' = at
    BY <1>4 DEF vars
  <2>2. rc' = "success" => PositionAt(at', stream', Len(handled'), in_packet', received')
    BY <2>1 DEF PInv
  <2>3. SentUpTo(stream', handled')
    BY <2>1 DEF PInv
  <2> QED  BY <1>0, <2>2, <2>3 DEF PInv
<1>5. CASE Start
  BY <1>0, <1>5, StartPInv
<1>6. CASE ReadCommand
  BY <1>0, <1>6, ReadCommandPInv
<1>7. CASE ReadLength
  BY <1>0, <1>7, ReadLengthPInv
<1>8. CASE HandlePacket
  BY <1>0, <1>8, HandlePacketPInv
<1>9. CASE ReadAgain
  BY <1>0, <1>9, ReadAgainPInv
<1> QED
  BY <1>1, <1>2, <1>3, <1>4, <1>5, <1>6, <1>7, <1>8, <1>9 DEF Next, Read

\* handle__packet gets the packets that a broker that frames them sent on this
\* connection, each whole and in order, in whatever pieces their bytes arrive,
\* with lengths of any digits, and wherever an earlier connection ended.
THEOREM HandlesWhatIsSent ==
  ASSUME WellFramed
  PROVE  Spec => []HandledIsSent
<1>1. PInv /\ [Next]_vars => PInv'
  BY NextPInv
<1> QED  BY <1>1, InitPInv, PInvIs, PTL DEF Spec

=============================================================================
