--------------------------- MODULE KeepaliveProofs ---------------------------
(***************************************************************************)
(* Theorems about Keepalive, for every interval, every set of timeouts,    *)
(* every delay and backlog.  They hold for a client that does not stay     *)
(* away from mosquitto_loop too long, for a broker that answers in time;   *)
(* the hypotheses say how long that is.                                    *)
(***************************************************************************)
EXTENDS Keepalive, TLAPS

\* The time that passes until gap is g, when the loop sleeps after each call
\* that is cut short; and the time to read n packets that wait.
Passed(g) == g * Higher(Sleeps, 1)
Reading(n) == n * MaxGap

\* What the thread knows of the time since mosquitto_loop last looked at the
\* times: it looks before a sleep that is too long for next_msg_out, and gap
\* bounds what has passed.
Looked ==
  /\ pc = "app" => left = 0
  /\ pc = "select" => Open
  /\ left <= Sleeps /\ left <= Higher(next_msg_out, 0)
  /\ Open => next_msg_out >= -gap
  /\ Open => last_msg_in + left <=
       KeepaliveSeconds - 1 + Passed(gap) + IF pc = "select" THEN Sleeps ELSE 0

\* While the network works, next_msg_out tells when the broker last heard of
\* the client.
Contact ==
  Open /\ link = "up" => heard + next_msg_out = KeepaliveSeconds

\* On a silent network first what had arrived is read, a packet for each call;
\* then last_msg_in has started again at most once, with a PINGREQ.
Silent ==
  Open /\ link = "silent" =>
    IF toClient # <<>>
    THEN silentFor <= Reading(MaxBacklog - Len(toClient)) + gap
    ELSE silentFor <= Reading(MaxBacklog) + last_msg_in
                      + IF ping_t THEN KeepaliveSeconds + Late ELSE 0

\* Both times started again at most t seconds ago.
Recent(t) == last_msg_in <= t /\ KeepaliveSeconds - next_msg_out <= t

\* While the network works, the answer the client waits for comes: the broker
\* owes it, or it waits to be read behind what arrived before it.
Answered ==
  Open /\ link = "up" =>
    /\ state \in {"connected", "active"}
    /\ state = "connected" =>
         /\ ~ping_t
         /\ \/ owed = "CONNACK" /\ toClient = <<>> /\ Recent(owedFor)
            \/ toClient # <<>> /\ Head(toClient) = "CONNACK"
    /\ ping_t =>
         \/ owed = "PINGRESP" /\ Recent(owedFor)
         \/ \E p \in 1..Len(toClient) :
              /\ toClient[p] = "PINGRESP"
              /\ Recent(MaxDelay + Reading(MaxBacklog - p) + gap)

Counted == heard \in Nat /\ silentFor \in Nat

IInv == TypeOK /\ Counted /\ Looked /\ Contact /\ Silent /\ Answered

-----------------------------------------------------------------------------
(***************************************************************************)
(* Times.                                                                  *)
(***************************************************************************)
LEMMA TimesFacts ==
  /\ KeepaliveSeconds \in Nat /\ KeepaliveSeconds >= 5
  /\ MaxGap \in Nat /\ MaxDelay \in Nat /\ MaxBacklog \in Nat
  /\ Longest \in Nat /\ \A t \in Timeouts : t \in Nat /\ t <= Longest
  /\ Sleeps \in Nat /\ Sleeps <= Longest /\ Sleeps <= KeepaliveSeconds
  /\ Late = Passed(MaxGap) + Sleeps
<1>1. Longest \in Timeouts /\ \A t \in Timeouts : t <= Longest
  BY TimesAssumption DEF Longest
<1>2. Longest \in Nat /\ \A t \in Timeouts : t \in Nat
  BY <1>1, TimesAssumption
<1> HIDE DEF Longest
<1> QED
  BY <1>1, <1>2, TimesAssumption, KeepaliveAssumption DEF Sleeps, Lower, Late, Passed

\* A second away, or a sleep that was cut short, is counted in gap.
LEMMA PassedFacts ==
  ASSUME NEW g \in 0..MaxGap
  PROVE  /\ Passed(g) \in Nat /\ Passed(g) <= Passed(MaxGap)
         /\ Passed(g) + 1 <= Passed(g + 1)
         /\ Passed(g) + Sleeps <= Passed(g + 1)
<1> DEFINE m == Higher(Sleeps, 1)
<1>1. m \in Nat /\ 1 <= m /\ Sleeps <= m /\ Sleeps \in Nat /\ MaxGap \in Nat
  BY TimesFacts DEF Higher
<1> HIDE DEF m
<1>2. (g + 1) * m = g * m + m /\ g * m \in Nat
  BY <1>1
<1>3. MaxGap * m = g * m + (MaxGap - g) * m /\ (MaxGap - g) * m \in Nat
  BY <1>1
<1> QED  BY <1>1, <1>2, <1>3 DEF Passed, m

LEMMA ReadingFacts ==
  ASSUME NEW n \in 0..MaxBacklog
  PROVE  /\ Reading(n) \in Nat /\ Reading(n) <= Reading(MaxBacklog)
         /\ Reading(n + 1) = Reading(n) + MaxGap
<1>1. MaxGap \in Nat /\ MaxBacklog \in Nat
  BY TimesFacts
<1>2. (n + 1) * MaxGap = n * MaxGap + MaxGap /\ n * MaxGap \in Nat
  BY <1>1
<1>3. MaxBacklog * MaxGap = n * MaxGap + (MaxBacklog - n) * MaxGap
      /\ (MaxBacklog - n) * MaxGap \in Nat
  BY <1>1
<1> QED  BY <1>1, <1>2, <1>3 DEF Reading

-----------------------------------------------------------------------------
(***************************************************************************)
(* The invariant.                                                          *)
(***************************************************************************)
Kinds == {"CONNACK", "PINGRESP", "message", "piece", "end_piece"}

\* What the steps below use of the types.
Numbers ==
  /\ next_msg_out \in Int /\ -MaxGap <= next_msg_out
  /\ next_msg_out <= KeepaliveSeconds
  /\ last_msg_in \in Nat /\ last_msg_in <= KeepaliveSeconds + Late
  /\ left \in Nat /\ gap \in 0..MaxGap /\ gap \in Nat
  /\ owedFor \in Nat /\ owedFor <= MaxDelay
  /\ heard \in Nat /\ silentFor \in Nat
  /\ Passed(gap) \in Nat /\ Late \in Nat
  /\ KeepaliveSeconds \in Nat /\ KeepaliveSeconds >= 5
  /\ MaxGap \in Nat /\ MaxDelay \in Nat
  /\ Sleeps \in Nat /\ Sleeps <= KeepaliveSeconds

LEMMA NumbersHold == IInv => Numbers
<1> SUFFICES ASSUME IInv PROVE Numbers
  OBVIOUS
<1>1. gap \in 0..MaxGap
  BY DEF IInv, TypeOK
<1>2. Passed(gap) \in Nat /\ Passed(MaxGap) \in Nat
  BY <1>1, TimesFacts, PassedFacts
<1> QED  BY <1>1, <1>2, TimesFacts DEF IInv, TypeOK, Counted, Numbers

LEMMA Others ==
  ASSUME IInv
  PROVE  /\ state \in {"connected", "active", "disconnected", "closed"}
         /\ ping_t \in BOOLEAN /\ pc \in {"app", "select"}
         /\ link \in {"up", "silent"}
         /\ toClient \in Seq(Kinds) /\ Len(toClient) \in 0..MaxBacklog
         /\ owed \in {"none", "CONNACK", "PINGRESP"}
         /\ MaxBacklog \in Nat
  BY TimesFacts DEF IInv, TypeOK, Kinds

\* Times that started again recently did so less long ago than a longer time.
LEMMA RecentIsLater ==
  ASSUME IInv, NEW t \in Int, NEW u \in Int, t <= u, Recent(t)
  PROVE  Recent(u)
<1> Numbers  BY NumbersHold
<1> QED  BY DEF Recent, Numbers

LEMMA InitIInv == Init => IInv
<1>1. Passed(0) \in Nat
  BY TimesFacts, PassedFacts
<1>2. Late \in Nat
  BY TimesFacts, PassedFacts
<1>3. KeepaliveSeconds \in Nat /\ Sleeps \in Nat /\ MaxGap \in Nat /\ MaxDelay \in Nat
  BY TimesFacts
<1> SUFFICES ASSUME Init PROVE IInv
  OBVIOUS
<1>4. TypeOK /\ Counted
  <2>1. 0 \in (-MaxGap)..KeepaliveSeconds /\ 0 \in 0..MaxGap /\ 0 \in 0..MaxDelay
    BY <1>3
  <2>2. 0 \in 0..(KeepaliveSeconds + Late) /\ 0 \in 0..KeepaliveSeconds
    BY <1>2, <1>3
  <2>3. <<>> \in Seq(Kinds) /\ Len(<<>>) <= MaxBacklog
    BY TimesFacts
  <2> QED  BY <2>1, <2>2, <2>3 DEF Init, TypeOK, Counted, Kinds
<1>5. Looked /\ Contact /\ Silent /\ Answered
  BY <1>3 DEF Init, Looked, Contact, Silent, Answered, Open, Higher
<1> QED  BY <1>4, <1>5 DEF IInv

\* A packet that arrives is the last of those that wait.
LEMMA Arrives ==
  ASSUME IInv, NEW packet \in Kinds, Len(toClient) < MaxBacklog,
         toClient' = Append(toClient, packet)
  PROVE  /\ Len(toClient') = Len(toClient) + 1 /\ toClient' \in Seq(Kinds)
         /\ Len(toClient') \in 1..MaxBacklog /\ toClient' # <<>>
         /\ toClient'[Len(toClient')] = packet
         /\ \A p \in 1..Len(toClient) : p \in 1..Len(toClient') /\ toClient'[p] = toClient[p]
         /\ toClient # <<>> => Head(toClient') = Head(toClient)
         /\ toClient = <<>> => Head(toClient') = packet
<1> toClient \in Seq(Kinds) /\ MaxBacklog \in Nat /\ Len(toClient) \in Nat
  BY Others
<1> QED  OBVIOUS

LEMMA AnswerKeeps == IInv /\ Answer => IInv'
<1> SUFFICES ASSUME IInv, Answer PROVE IInv'
  OBVIOUS
<1> Numbers  BY NumbersHold
<1> USE DEF Numbers
<1> USE DEF Answer, clientVars, threadVars
<1>0. /\ Len(toClient') = Len(toClient) + 1 /\ toClient' \in Seq(Kinds)
      /\ Len(toClient') \in 1..MaxBacklog /\ toClient' # <<>>
      /\ toClient'[Len(toClient')] = owed
      /\ \A p \in 1..Len(toClient) : p \in 1..Len(toClient') /\ toClient'[p] = toClient[p]
      /\ toClient # <<>> => Head(toClient') = Head(toClient)
      /\ toClient = <<>> => Head(toClient') = owed
  <2>1. owed \in Kinds
    BY Others DEF Kinds
  <2> QED  BY <2>1, Arrives
<1>1. TypeOK'
  BY <1>0, Others DEF IInv, TypeOK, Kinds
<1>2. Counted' /\ Looked' /\ Contact' /\ Silent'
  BY DEF IInv, Counted, Looked, Contact, Silent, Open
<1>3. Answered'
  <2> SUFFICES ASSUME Open, link = "up" PROVE Answered'
    BY DEF Answered, Open
  <2>1. PICK n \in 1..MaxBacklog : n = Len(toClient')
    BY <1>0
  <2>2. MaxBacklog - n \in 0..MaxBacklog /\ n \in 1..Len(toClient')
    BY <2>1, Others
  <2>3. Reading(MaxBacklog - n) \in Nat
    BY <2>2, ReadingFacts
  <2>4. Recent(owedFor) => Recent(MaxDelay + Reading(MaxBacklog - n) + gap)
    <3>1. /\ MaxDelay + Reading(MaxBacklog - n) + gap \in Int /\ owedFor \in Int
          /\ owedFor <= MaxDelay + Reading(MaxBacklog - n) + gap
      BY <2>3
    <3> QED  BY <3>1, RecentIsLater
  <2>5. state = "connected" => toClient' # <<>> /\ Head(toClient') = "CONNACK"
    BY <1>0 DEF IInv, Answered
  <2>6. ASSUME ping_t
        PROVE  \E p \in 1..Len(toClient') :
                 /\ toClient'[p] = "PINGRESP"
                 /\ Recent(MaxDelay + Reading(MaxBacklog - p) + gap)
    <3>1. CASE owed = "PINGRESP" /\ Recent(owedFor)
      BY <1>0, <2>1, <2>2, <2>4, <3>1
    <3>2. CASE \E p \in 1..Len(toClient) :
                 /\ toClient[p] = "PINGRESP"
                 /\ Recent(MaxDelay + Reading(MaxBacklog - p) + gap)
      BY <1>0, <3>2
    <3> QED  BY <2>6, <3>1, <3>2 DEF IInv, Answered
  <2> QED
    BY <2>5, <2>6 DEF IInv, Answered, Recent, Open
<1> QED  BY <1>1, <1>2, <1>3 DEF IInv

LEMMA SendKeeps ==
  ASSUME IInv, NEW packet \in {"message", "piece", "end_piece"}, Send(packet)
  PROVE  IInv'
<1> Numbers  BY NumbersHold
<1> USE DEF Send, Numbers, clientVars, threadVars
<1>0. /\ toClient' \in Seq(Kinds)
      /\ Len(toClient') \in 1..MaxBacklog /\ toClient' # <<>>
      /\ \A p \in 1..Len(toClient) : p \in 1..Len(toClient') /\ toClient'[p] = toClient[p]
      /\ toClient # <<>> => Head(toClient') = Head(toClient)
  <2>1. packet \in Kinds
    BY DEF Kinds
  <2> QED  BY <2>1, Arrives
<1>1. TypeOK'
  BY <1>0, Others DEF IInv, TypeOK, Kinds
<1>2. Counted' /\ Looked' /\ Contact' /\ Silent'
  BY DEF IInv, Counted, Looked, Contact, Silent, Open
<1>3. Answered'
  BY <1>0 DEF IInv, Answered, Open, Recent
<1> QED  BY <1>1, <1>2, <1>3 DEF IInv

LEMMA SilenceKeeps == IInv /\ Silence => IInv'
<1> SUFFICES ASSUME IInv, Silence PROVE IInv'
  OBVIOUS
<1> Numbers  BY NumbersHold
<1> USE DEF Numbers
<1> USE DEF Silence, clientVars, threadVars
<1>1. TypeOK' /\ Counted'
  BY Others DEF IInv, TypeOK, Counted
<1>2. Looked' /\ Contact' /\ Answered'
  BY DEF IInv, Looked, Contact, Answered, Open
<1>3. Silent'
  <2>1. MaxBacklog - Len(toClient) \in 0..MaxBacklog /\ MaxBacklog \in 0..MaxBacklog
    BY Others
  <2>2. Reading(MaxBacklog - Len(toClient)) \in Nat /\ Reading(MaxBacklog) \in Nat
    BY <2>1, ReadingFacts
  <2> QED  BY <2>2 DEF Silent
<1> QED  BY <1>1, <1>2, <1>3 DEF IInv

\* A second away is counted in gap; a second asleep shortens the sleep.
LEMMA TickKeeps == IInv /\ Tick => IInv'
<1> SUFFICES ASSUME IInv, Tick PROVE IInv'
  OBVIOUS
<1> Numbers  BY NumbersHold
<1> USE DEF Numbers
<1>0. /\ Open /\ UNCHANGED <<state, ping_t, pc, link, toClient, owed>>
      /\ next_msg_out' = next_msg_out - 1 /\ last_msg_in' = last_msg_in + 1
      /\ \/ pc = "app" /\ gap < MaxGap /\ gap' = gap + 1 /\ UNCHANGED left
         \/ pc = "select" /\ left > 0 /\ toClient = <<>> /\ left' = left - 1 /\ UNCHANGED gap
  BY DEF Tick
<1>1. /\ gap' \in 0..MaxGap /\ Passed(gap') \in Nat /\ gap <= gap'
      /\ Passed(gap') <= Passed(MaxGap)
      /\ pc = "app" => Passed(gap) + 1 <= Passed(gap')
      /\ Passed(MaxGap) \in Nat
  <2>1. gap' \in 0..MaxGap /\ gap <= gap' /\ gap \in 0..MaxGap /\ MaxGap \in 0..MaxGap
    BY <1>0
  <2> QED  BY <1>0, <2>1, PassedFacts
<1>2. Looked'
  <2>1. CASE pc = "app"
    BY <1>0, <1>1, <2>1 DEF IInv, Looked, Open, Higher
  <2>2. CASE pc = "select"
    <3>1. left > 0 /\ left <= next_msg_out /\ left' = left - 1 /\ gap' = gap
      BY <1>0, <2>2 DEF IInv, Looked, Higher
    <3> QED  BY <1>0, <1>1, <2>2, <3>1 DEF IInv, Looked, Open, Higher
  <2> QED  BY <2>1, <2>2, Others
<1>3. TypeOK'
  <2>0. -MaxGap <= next_msg_out'
    <3>1. next_msg_out' >= -gap'
      BY <1>0, <1>2 DEF Looked, Open
    <3>2. gap' \in 0..MaxGap
      BY <1>1
    <3>3. next_msg_out' \in Int
      BY <1>0
    <3>4. \A g \in 0..MaxGap, m \in Int : m >= -g => -MaxGap <= m
      OBVIOUS
    <3> QED  BY ONLY <3>1, <3>2, <3>3, <3>4
  <2>1. /\ left' <= left /\ left' \in Nat
        /\ last_msg_in' + left' <= KeepaliveSeconds - 1 + Passed(gap') + Sleeps
    <3>2. left' <= left /\ left' \in Nat
      BY <1>0
    <3>3. last_msg_in' + left' <= KeepaliveSeconds - 1 + Passed(gap')
                                  + IF pc' = "select" THEN Sleeps ELSE 0
      BY <1>0, <1>2 DEF Looked, Open
    <3>4. last_msg_in' \in Nat
      BY <1>0
    <3> QED  BY <1>1, <3>2, <3>3, <3>4
  <2>2. /\ next_msg_out' \in (-MaxGap)..KeepaliveSeconds
        /\ left' \in 0..KeepaliveSeconds
        /\ last_msg_in' \in 0..(KeepaliveSeconds + Late)
    <3>1. gap' \in Int /\ gap' <= MaxGap /\ left <= KeepaliveSeconds
      BY <1>0, <1>1 DEF IInv, Looked
    <3>2. Late = Passed(MaxGap) + Sleeps
      BY TimesFacts
    <3>3. next_msg_out' \in Int /\ last_msg_in' \in Nat /\ next_msg_out' <= KeepaliveSeconds
      BY <1>0
    <3>5. left' \in 0..KeepaliveSeconds
      BY <2>1, <3>1
    <3>6. last_msg_in' <= KeepaliveSeconds + Late
      BY <1>1, <2>1, <3>2, <3>3
    <3> QED  BY <2>0, <3>3, <3>5, <3>6
  <2>3. owedFor' \in 0..MaxDelay
    BY DEF Tick
  <2> QED  BY <1>0, <1>1, <2>2, <2>3, Others DEF IInv, TypeOK
<1>4. Counted'
  BY DEF Tick, Counted
<1>5. Contact'
  BY <1>0 DEF IInv, Contact, Open, Tick
<1>6. Silent'
  <2> SUFFICES ASSUME link = "silent" PROVE Silent'
    BY <1>0 DEF Silent
  <2>1. silentFor' = silentFor + 1
    BY DEF Tick
  <2>2. CASE toClient # <<>>
    <3>1. gap' = gap + 1 /\ Reading(MaxBacklog - Len(toClient)) \in Nat
      <4>1. MaxBacklog - Len(toClient) \in 0..MaxBacklog
        BY Others
      <4> QED  BY <4>1, <1>0, <2>2, ReadingFacts
    <3>2. silentFor <= Reading(MaxBacklog - Len(toClient)) + gap
      BY <1>0, <2>2 DEF IInv, Silent
    <3> QED  BY <1>0, <2>1, <2>2, <3>1, <3>2 DEF Silent
  <2>3. CASE toClient = <<>>
    <3>1. Reading(MaxBacklog) \in Nat
      <4>1. MaxBacklog \in 0..MaxBacklog
        BY Others
      <4> QED  BY <4>1, ReadingFacts
    <3>2. silentFor <= Reading(MaxBacklog) + last_msg_in
                       + IF ping_t THEN KeepaliveSeconds + Late ELSE 0
      BY <1>0, <2>3 DEF IInv, Silent
    <3> QED  BY <1>0, <2>1, <2>3, <3>1, <3>2 DEF Silent
  <2> QED  BY <2>2, <2>3
<1>7. Answered'
  <2> SUFFICES ASSUME link = "up" PROVE Answered'
    BY <1>0 DEF Answered
  <2>1. owed # "none" => owedFor' = owedFor + 1
    BY DEF Tick
  <2>2. ASSUME owed # "none", Recent(owedFor) PROVE Recent(owedFor)'
    BY <1>0, <2>1, <2>2 DEF Recent
  <2>3. ASSUME NEW p \in 1..Len(toClient), Recent(MaxDelay + Reading(MaxBacklog - p) + gap)
        PROVE  Recent(MaxDelay + Reading(MaxBacklog - p) + gap)'
    <3>1. MaxBacklog - p \in 0..MaxBacklog
      BY Others
    <3>2. Reading(MaxBacklog - p) \in Nat
      BY <3>1, ReadingFacts
    <3>3. toClient # <<>> /\ gap' = gap + 1
      BY <1>0, Others
    <3> QED  BY <1>0, <2>3, <3>2, <3>3 DEF Recent
  <2> QED  BY <1>0, <2>2, <2>3 DEF IInv, Answered, Open
<1> QED  BY <1>2, <1>3, <1>4, <1>5, <1>6, <1>7 DEF IInv

\* select is to sleep no longer than the timeout, nor beyond next_msg_out.
LEMMA SelectKeeps ==
  ASSUME IInv, NEW timeout \in Timeouts, Select(timeout)
  PROVE  IInv'
<1> Numbers  BY NumbersHold
<1> USE DEF Numbers, Select, clientVars, networkVars
<1>1. timeout \in Nat /\ timeout <= Longest /\ Longest \in Nat
  BY TimesFacts
<1>2. left' \in Nat /\ left' <= Sleeps /\ left' <= Higher(next_msg_out, 0)
  BY <1>1 DEF Sleep, Sleeps, Lower, Higher
<1>3. TypeOK' /\ Counted'
  BY <1>2, Others DEF IInv, TypeOK, Counted
<1>4. Looked'
  BY <1>2 DEF IInv, Looked, Open
<1>5. Contact' /\ Silent' /\ Answered'
  BY DEF IInv, Contact, Silent, Answered, Open, Recent
<1> QED  BY <1>3, <1>4, <1>5 DEF IInv

LEMMA InterruptedKeeps == IInv /\ Interrupted => IInv'
<1> SUFFICES ASSUME IInv, Interrupted PROVE IInv'
  OBVIOUS
<1> Numbers  BY NumbersHold
<1> USE DEF Numbers, Interrupted, clientVars, networkVars
<1>1. /\ gap' = gap + 1 /\ gap' \in 0..MaxGap /\ Passed(gap') \in Nat
      /\ Passed(gap) + Sleeps <= Passed(gap')
  BY PassedFacts
<1>2. TypeOK' /\ Counted'
  BY <1>1, Others DEF IInv, TypeOK, Counted
<1>3. Looked'
  BY <1>1 DEF IInv, Looked, Open, Higher
<1>4. Contact'
  BY DEF IInv, Contact, Open
<1>5. Silent'
  <2>1. MaxBacklog - Len(toClient) \in 0..MaxBacklog
    BY Others
  <2>2. Reading(MaxBacklog - Len(toClient)) \in Nat
    BY <2>1, ReadingFacts
  <2> QED  BY <1>1, <2>2 DEF IInv, Silent, Open
<1>6. Answered'
  <2>1. ASSUME NEW p \in 1..Len(toClient), Recent(MaxDelay + Reading(MaxBacklog - p) + gap)
        PROVE  Recent(MaxDelay + Reading(MaxBacklog - p) + gap)'
    <3>1. MaxBacklog - p \in 0..MaxBacklog
      BY Others
    <3>2. Reading(MaxBacklog - p) \in Nat
      BY <3>1, ReadingFacts
    <3> QED  BY <1>1, <2>1, <3>2 DEF Recent
  <2>2. Recent(owedFor) => Recent(owedFor)'
    BY DEF Recent
  <2> QED  BY <2>1, <2>2 DEF IInv, Answered, Open
<1> QED  BY <1>2, <1>3, <1>4, <1>5, <1>6 DEF IInv

\* What reading one packet does to the client.
LEMMA ReadFacts ==
  ASSUME IInv
  PROVE  /\ AfterRead.state \in {state, "active"} /\ AfterRead.ping_t \in BOOLEAN
         /\ AfterRead.last_msg_in \in Nat /\ AfterRead.last_msg_in <= last_msg_in
         /\ AfterRead.ping_t => ping_t
         /\ toClient = <<>> =>
              /\ AfterRead.state = state /\ AfterRead.ping_t = ping_t
              /\ AfterRead.last_msg_in = last_msg_in
         /\ toClient # <<>> /\ Head(toClient) = "CONNACK" => AfterRead.state = "active"
         /\ toClient # <<>> /\ Head(toClient) = "PINGRESP" => ~AfterRead.ping_t
<1> Numbers  BY NumbersHold
<1> USE DEF Numbers, AfterRead
<1>1. CASE toClient = <<>>
  BY <1>1, Others
<1>2. CASE toClient # <<>>
  <2>1. Head(toClient) \in Kinds
    BY <1>2, Others
  <2>2. CASE Head(toClient) = "CONNACK"
    <3>1. AfterRead = [state |-> "active", last_msg_in |-> 0, ping_t |-> ping_t]
      BY <1>2, <2>2
    <3> HIDE DEF AfterRead
    <3> QED  BY <1>2, <2>2, <3>1, Others
  <2>3. CASE Head(toClient) = "PINGRESP"
    <3>1. AfterRead = [state |-> state, last_msg_in |-> 0, ping_t |-> FALSE]
      BY <1>2, <2>3
    <3> HIDE DEF AfterRead
    <3>2. AfterRead.state = state /\ AfterRead.last_msg_in = 0 /\ AfterRead.ping_t = FALSE
      BY <3>1
    <3>3. AfterRead.last_msg_in \in Nat /\ AfterRead.last_msg_in <= last_msg_in
      BY <3>2
    <3> QED  BY <1>2, <2>3, <3>2, <3>3
  <2>4. CASE Head(toClient) \in {"message", "piece"}
    <3>1. AfterRead = [state |-> state, last_msg_in |-> 0, ping_t |-> ping_t]
      BY <1>2, <2>4
    <3> HIDE DEF AfterRead
    <3> QED  BY <1>2, <2>4, <3>1, Others
  <2>5. CASE Head(toClient) = "end_piece"
    <3>1. AfterRead = [state |-> state, last_msg_in |-> last_msg_in, ping_t |-> ping_t]
      BY <1>2, <2>5
    <3> HIDE DEF AfterRead
    <3> QED  BY <1>2, <2>5, <3>1, Others
  <2> QED  BY <2>1, <2>2, <2>3, <2>4, <2>5 DEF Kinds
<1> QED  BY <1>1, <1>2

\* What mosquitto__check_keepalive then does with it.
LEMMA LoopCases ==
  ASSUME IInv, Loop
  PROVE  /\ UNCHANGED <<link, silentFor>> /\ pc' = "app" /\ left' = 0 /\ gap' = 0
         /\ toClient' = (IF toClient = <<>> THEN <<>> ELSE Tail(toClient))
         /\ \/ /\ ~Due(AfterRead) /\ state' = AfterRead.state
               /\ last_msg_in' = AfterRead.last_msg_in /\ ping_t' = AfterRead.ping_t
               /\ UNCHANGED <<next_msg_out, owed, owedFor, heard>>
            \/ /\ AfterRead.state = "active" /\ state' = "active" /\ ~AfterRead.ping_t
               /\ ping_t' = TRUE /\ last_msg_in' = 0 /\ next_msg_out' = KeepaliveSeconds
               /\ IF link = "up" THEN heard' = 0 /\ owed' = "PINGRESP" /\ owedFor' = 0
                  ELSE UNCHANGED <<heard, owed, owedFor>>
            \/ /\ Due(AfterRead) /\ ~(AfterRead.state = "active" /\ ~AfterRead.ping_t)
               /\ state' = "closed" /\ ping_t' = AfterRead.ping_t
               /\ last_msg_in' = AfterRead.last_msg_in
               /\ UNCHANGED <<next_msg_out, owed, owedFor, heard>>
<1> DEFINE c == AfterRead
<1> HIDE DEF c
<1> QED  BY DEF Loop, Ping, Reaches, c

\* Reading a packet shifts those behind it.
LEMMA Shifts ==
  ASSUME IInv, toClient # <<>>, toClient' = Tail(toClient)
  PROVE  /\ toClient' \in Seq(Kinds) /\ Len(toClient') = Len(toClient) - 1
         /\ Len(toClient) \in 1..MaxBacklog
         /\ toClient[1] = Head(toClient)
         /\ \A p \in 1..Len(toClient) :
              p # 1 => p - 1 \in 1..Len(toClient') /\ toClient'[p - 1] = toClient[p]
<1>1. toClient \in Seq(Kinds) /\ Len(toClient) \in 0..MaxBacklog /\ MaxBacklog \in Nat
  BY Others
<1>2. Len(toClient) \in 1..MaxBacklog /\ toClient[1] = Head(toClient)
  BY <1>1
<1>3. /\ Tail(toClient) \in Seq(Kinds) /\ Len(Tail(toClient)) = Len(toClient) - 1
      /\ \A q \in 1..(Len(toClient) - 1) : Tail(toClient)[q] = toClient[q + 1]
  BY <1>1, <1>2
<1>4. ASSUME NEW p \in 1..Len(toClient), p # 1
      PROVE  p - 1 \in 1..(Len(toClient) - 1) /\ toClient'[p - 1] = toClient[p]
  <2>1. p - 1 \in 1..(Len(toClient) - 1) /\ (p - 1) + 1 = p
    BY <1>2, <1>4
  <2> QED  BY <1>3, <2>1
<1> QED  BY <1>1, <1>2, <1>3, <1>4

LEMMA LoopKeeps == IInv /\ Loop => IInv'
<1> SUFFICES ASSUME IInv, Loop PROVE IInv'
  OBVIOUS
<1> Numbers  BY NumbersHold
<1> USE DEF Numbers
<1> DEFINE c == AfterRead
<1>r. /\ c.state \in {state, "active"} /\ c.ping_t \in BOOLEAN
      /\ c.last_msg_in \in Nat /\ c.last_msg_in <= last_msg_in
      /\ c.ping_t => ping_t
      /\ toClient = <<>> =>
           c.state = state /\ c.ping_t = ping_t /\ c.last_msg_in = last_msg_in
      /\ toClient # <<>> /\ Head(toClient) = "CONNACK" => c.state = "active"
      /\ toClient # <<>> /\ Head(toClient) = "PINGRESP" => ~c.ping_t
  BY ReadFacts
<1>l. /\ UNCHANGED <<link, silentFor>> /\ pc' = "app" /\ left' = 0 /\ gap' = 0
      /\ toClient' = (IF toClient = <<>> THEN <<>> ELSE Tail(toClient))
  BY LoopCases
<1> DEFINE Quiet ==
             /\ ~Due(c) /\ state' = c.state
             /\ last_msg_in' = c.last_msg_in /\ ping_t' = c.ping_t
             /\ UNCHANGED <<next_msg_out, owed, owedFor, heard>>
           Pings ==
             /\ c.state = "active" /\ state' = "active" /\ ~c.ping_t
             /\ ping_t' = TRUE /\ last_msg_in' = 0 /\ next_msg_out' = KeepaliveSeconds
             /\ IF link = "up" THEN heard' = 0 /\ owed' = "PINGRESP" /\ owedFor' = 0
                ELSE UNCHANGED <<heard, owed, owedFor>>
           Closes ==
             /\ Due(c) /\ ~(c.state = "active" /\ ~c.ping_t)
             /\ state' = "closed" /\ ping_t' = c.ping_t
             /\ last_msg_in' = c.last_msg_in
             /\ UNCHANGED <<next_msg_out, owed, owedFor, heard>>
<1>c. Quiet \/ Pings \/ Closes
  BY LoopCases
<1> HIDE DEF c
<1>d. Due(c) \/ (next_msg_out > 0 /\ c.last_msg_in <= KeepaliveSeconds - 1)
  BY <1>r DEF Due
<1>1. /\ next_msg_out' \in Int /\ -MaxGap <= next_msg_out' /\ next_msg_out' <= KeepaliveSeconds
      /\ last_msg_in' \in Nat /\ last_msg_in' <= last_msg_in
      /\ heard' \in Nat /\ silentFor' \in Nat
      /\ owedFor' \in Nat /\ owedFor' <= MaxDelay
  BY <1>r, <1>l, <1>c
<1>2. TypeOK'
  <2>1. toClient' \in Seq(Kinds) /\ Len(toClient') <= MaxBacklog
    <3>1. CASE toClient = <<>>
      BY <1>l, <3>1, Others
    <3>2. CASE toClient # <<>>
      <4>1. /\ toClient' \in Seq(Kinds) /\ Len(toClient') = Len(toClient) - 1
            /\ Len(toClient) \in 1..MaxBacklog
        BY <1>l, <3>2, Shifts
      <4> QED  BY <4>1, Others
    <3> QED  BY <3>1, <3>2
  <2>2. state' \in {"connected", "active", "disconnected", "closed"} /\ ping_t' \in BOOLEAN
        /\ owed' \in {"none", "CONNACK", "PINGRESP"} /\ link' \in {"up", "silent"}
    BY <1>r, <1>l, <1>c, Others
  <2>3. /\ next_msg_out' \in (-MaxGap)..KeepaliveSeconds
        /\ last_msg_in' \in 0..(KeepaliveSeconds + Late)
        /\ owedFor' \in 0..MaxDelay
    BY <1>1
  <2> QED  BY <1>l, <2>1, <2>2, <2>3 DEF TypeOK, Kinds
<1>3. Counted'
  BY <1>1 DEF Counted
<1>4. Looked'
  <2>1. Open' => next_msg_out' >= 0 /\ last_msg_in' <= KeepaliveSeconds - 1
    BY <1>c, <1>d DEF Open
  <2>2. Passed(0) \in Nat
    BY PassedFacts
  <2> QED  BY <1>l, <1>1, <2>1, <2>2 DEF Looked, Higher
<1>5. Contact'
  <2> SUFFICES ASSUME Open', link = "up" PROVE heard' + next_msg_out' = KeepaliveSeconds
    BY <1>l DEF Contact
  <2>1. heard + next_msg_out = KeepaliveSeconds
    BY DEF IInv, Contact, Looked, Loop
  <2> QED  BY <1>c, <2>1 DEF Open
<1>6. Silent'
  <2> SUFFICES ASSUME Open', link = "silent" PROVE Silent'
    BY <1>l DEF Silent
  <2>0. Open
    BY DEF IInv, Looked, Loop
  <2>1. Reading(MaxBacklog) \in Nat
    <3>1. MaxBacklog \in 0..MaxBacklog
      BY Others
    <3> QED  BY <3>1, ReadingFacts
  <2>2. CASE toClient = <<>>
    <3>1. silentFor <= Reading(MaxBacklog) + last_msg_in
                       + IF ping_t THEN KeepaliveSeconds + Late ELSE 0
      BY <2>0, <2>2 DEF IInv, Silent
    <3>2. toClient' = <<>> /\ silentFor' = silentFor
      BY <1>l, <2>2
    <3>3. CASE Quiet
      BY <1>r, <2>1, <2>2, <3>1, <3>2, <3>3 DEF Silent
    <3>4. CASE Pings
      <4>1. ~ping_t
        BY <1>r, <2>2, <3>4
      <4>2. silentFor <= Reading(MaxBacklog) + KeepaliveSeconds + Late
        BY <2>1, <3>1, <4>1
      <4> QED  BY <2>1, <3>2, <3>4, <4>2 DEF Silent
    <3>5. ~Closes
      BY DEF Open
    <3> QED  BY <1>c, <3>3, <3>4, <3>5
  <2>3. CASE toClient # <<>>
    <3>1. PICK w \in 1..MaxBacklog : w = Len(toClient) /\ Len(toClient') = w - 1
      BY <1>l, <2>3, Shifts
    <3>2. silentFor <= Reading(MaxBacklog - w) + gap
      BY <2>0, <2>3, <3>1 DEF IInv, Silent
    <3>3. MaxBacklog - w \in 0..MaxBacklog /\ MaxBacklog - w + 1 \in 0..MaxBacklog
      BY <3>1, Others
    <3>4. /\ Reading(MaxBacklog - w) \in Nat /\ Reading(MaxBacklog - w + 1) \in Nat
          /\ Reading(MaxBacklog - w + 1) = Reading(MaxBacklog - w) + MaxGap
          /\ Reading(MaxBacklog - w + 1) <= Reading(MaxBacklog)
      BY <3>3, ReadingFacts
    <3>5. silentFor <= Reading(MaxBacklog - w + 1)
      BY <3>2, <3>4
    <3>6. MaxBacklog - Len(toClient') = MaxBacklog - w + 1
      BY <3>1, Others
    <3> QED  BY <1>l, <1>1, <2>1, <3>4, <3>5, <3>6 DEF Silent
  <2> QED  BY <2>2, <2>3
<1>7. Answered'
  <2> SUFFICES ASSUME Open', link = "up" PROVE Answered'
    BY <1>l DEF Answered
  <2>0. Open
    BY DEF IInv, Looked, Loop
  <2>1. state' \in {"connected", "active"}
    BY <1>c, <1>r, <2>0 DEF IInv, Answered, Open
  <2>2. ASSUME state' = "connected"
        PROVE  ~ping_t' /\ owed' = "CONNACK" /\ toClient' = <<>> /\ Recent(owedFor)'
    <3>1. Quiet /\ state = "connected"
      BY <1>c, <1>r, <2>2
    <3>2. ~ping_t /\ owed = "CONNACK" /\ toClient = <<>> /\ Recent(owedFor)
      BY <1>r, <2>0, <2>2, <3>1 DEF IInv, Answered
    <3> QED  BY <1>r, <1>l, <3>1, <3>2 DEF Recent
  <2>3. ASSUME ping_t'
        PROVE  \/ owed' = "PINGRESP" /\ Recent(owedFor)'
               \/ \E p \in 1..Len(toClient') :
                    /\ toClient'[p] = "PINGRESP"
                    /\ Recent(MaxDelay + Reading(MaxBacklog - p) + gap)'
    <3>1. CASE Pings
      BY <3>1 DEF Recent
    <3>2. CASE Quiet
      <4>1. ping_t /\ c.ping_t
        BY <1>r, <2>3, <3>2
      <4>2. CASE owed = "PINGRESP" /\ Recent(owedFor)
        BY <1>1, <3>2, <4>2 DEF Recent
      <4>3. ASSUME NEW p \in 1..Len(toClient), toClient[p] = "PINGRESP",
                   Recent(MaxDelay + Reading(MaxBacklog - p) + gap)
            PROVE  \E q \in 1..Len(toClient') :
                     /\ toClient'[q] = "PINGRESP"
                     /\ Recent(MaxDelay + Reading(MaxBacklog - q) + gap)'
        <5>1. toClient # <<>>
          BY <4>3, Others
        <5>2. p # 1
          BY <1>r, <1>l, <4>1, <4>3, <5>1, Shifts
        <5>3. p - 1 \in 1..Len(toClient') /\ toClient'[p - 1] = "PINGRESP"
          BY <1>l, <4>3, <5>1, <5>2, Shifts
        <5>4. /\ MaxBacklog - p \in 0..MaxBacklog
              /\ MaxBacklog - (p - 1) = MaxBacklog - p + 1
          BY <4>3, Others
        <5>5. /\ Reading(MaxBacklog - p) \in Nat
              /\ Reading(MaxBacklog - (p - 1)) = Reading(MaxBacklog - p) + MaxGap
          BY <5>4, ReadingFacts
        <5>6. Recent(MaxDelay + Reading(MaxBacklog - (p - 1)) + gap)'
          BY <1>l, <1>1, <3>2, <4>3, <5>5 DEF Recent
        <5> QED  BY <5>3, <5>6
      <4> QED  BY <2>0, <4>1, <4>2, <4>3 DEF IInv, Answered
    <3>3. ~Closes
      BY DEF Open
    <3> QED  BY <1>c, <3>1, <3>2, <3>3
  <2> QED  BY <2>1, <2>2, <2>3 DEF Answered
<1> QED  BY <1>2, <1>3, <1>4, <1>5, <1>6, <1>7 DEF IInv

LEMMA LoopRefusesKeeps == IInv /\ LoopRefuses => IInv'
<1> SUFFICES ASSUME IInv, LoopRefuses PROVE IInv'
  OBVIOUS
<1> Numbers  BY NumbersHold
<1> USE DEF Numbers, LoopRefuses
<1>1. toClient' \in Seq(Kinds) /\ Len(toClient') <= MaxBacklog
  BY Shifts, Others DEF Refused
<1>2. TypeOK' /\ Counted'
  BY <1>1, Others DEF IInv, TypeOK, Counted, Kinds
<1>3. Looked' /\ Contact' /\ Silent' /\ Answered'
  BY DEF Looked, Contact, Silent, Answered, Open, Higher
<1> QED  BY <1>2, <1>3 DEF IInv

LEMMA ApplicationKeeps == IInv /\ (Publish \/ Disconnect \/ Reconnect) => IInv'
<1> SUFFICES ASSUME IInv, Publish \/ Disconnect \/ Reconnect PROVE IInv'
  OBVIOUS
<1> Numbers  BY NumbersHold
<1> USE DEF Numbers
<1>1. CASE Publish
  <2>1. /\ next_msg_out' \in Int /\ next_msg_out <= next_msg_out'
        /\ next_msg_out' <= KeepaliveSeconds
        /\ link = "up" => next_msg_out' = KeepaliveSeconds /\ heard' = 0
        /\ link # "up" => heard' = heard
        /\ UNCHANGED <<owed, owedFor>> /\ pc = "app"
        /\ UNCHANGED <<state, last_msg_in, ping_t, pc, left, gap, link, toClient, silentFor>>
    BY <1>1 DEF Publish, Reaches, threadVars
  <2>2. TypeOK' /\ Counted'
    BY <2>1, Others DEF IInv, TypeOK, Counted
  <2>3. Looked'
    BY <2>1 DEF IInv, Looked, Open, Higher
  <2>4. Contact' /\ Silent'
    BY <2>1 DEF IInv, Contact, Silent, Open
  <2>5. Answered'
    <3>1. ASSUME NEW t \in Int, Recent(t)
          PROVE  last_msg_in' <= t /\ KeepaliveSeconds - next_msg_out' <= t
      <4>1. /\ last_msg_in' = last_msg_in /\ last_msg_in' \in Int /\ next_msg_out' \in Int
            /\ next_msg_out <= next_msg_out'
        BY <2>1
      <4>2. \A a, b, k \in Int : a <= b /\ k - a <= t => k - b <= t
        OBVIOUS
      <4>4. KeepaliveSeconds \in Int /\ next_msg_out \in Int
        OBVIOUS
      <4>3. last_msg_in <= t /\ KeepaliveSeconds - next_msg_out <= t
        BY <3>1 DEF Recent
      <4> QED  BY ONLY <4>1, <4>2, <4>3, <4>4
    <3>2. ASSUME NEW p \in 1..Len(toClient), Recent(MaxDelay + Reading(MaxBacklog - p) + gap)
          PROVE  Recent(MaxDelay + Reading(MaxBacklog - p) + gap)'
      <4>1. MaxBacklog - p \in 0..MaxBacklog
        BY Others
      <4>2. Reading(MaxBacklog - p) \in Nat
        BY <4>1, ReadingFacts
      <4> QED  BY <2>1, <3>1, <3>2, <4>2 DEF Recent
    <3>3. Recent(owedFor) => Recent(owedFor)'
      <4>1. owedFor \in Int /\ owedFor' = owedFor
        BY <2>1
      <4> QED  BY <3>1, <4>1 DEF Recent
    <3> QED  BY <2>1, <3>2, <3>3 DEF IInv, Answered, Open
  <2> QED  BY <2>2, <2>3, <2>4, <2>5 DEF IInv
<1>2. CASE Disconnect
  <2> USE <1>2 DEF Disconnect, threadVars, networkVars
  <2>1. TypeOK' /\ Counted' /\ Looked'
    BY Others DEF IInv, TypeOK, Counted, Looked, Open
  <2>2. Contact' /\ Silent' /\ Answered'
    BY DEF IInv, Contact, Silent, Answered, Open
  <2> QED  BY <2>1, <2>2 DEF IInv
<1>3. CASE Reconnect
  <2> USE <1>3 DEF Reconnect, threadVars
  <2>1. TypeOK' /\ Counted'
    <3>1. <<>> \in Seq(Kinds) /\ Len(<<>>) <= MaxBacklog
      BY Others
    <3>2. KeepaliveSeconds \in (-MaxGap)..KeepaliveSeconds
          /\ 0 \in 0..(KeepaliveSeconds + Late) /\ 0 \in 0..MaxDelay
      OBVIOUS
    <3> QED  BY <3>1, <3>2, Others DEF IInv, TypeOK, Counted, Kinds
  <2>2. Looked' /\ Contact' /\ Silent'
    BY DEF IInv, Looked, Contact, Silent, Open, Higher
  <2>3. Answered'
    BY DEF Answered, Recent
  <2> QED  BY <2>1, <2>2, <2>3 DEF IInv
<1> QED  BY <1>1, <1>2, <1>3

LEMMA Inductive == IInv /\ [Next]_vars => IInv'
<1> SUFFICES ASSUME IInv, [Next]_vars PROVE IInv'
  OBVIOUS
<1>1. CASE UNCHANGED vars
  BY <1>1 DEF vars, IInv, TypeOK, Counted, Looked, Contact, Silent, Answered, Open, Recent
<1>2. CASE Client
  BY <1>2, SelectKeeps, InterruptedKeeps, LoopKeeps, LoopRefusesKeeps, ApplicationKeeps
     DEF Client
<1>3. CASE Network
  BY <1>3, AnswerKeeps, SendKeeps, SilenceKeeps, TickKeeps DEF Network
<1> QED  BY <1>1, <1>2, <1>3 DEF Next

-----------------------------------------------------------------------------
(***************************************************************************)
(* The theorems.                                                           *)
(***************************************************************************)
\* The times and the thread stay within their bounds: next_msg_out is never
\* overdue by more than the application stays away, last_msg_in never older
\* than an interval and the loop's lateness.
THEOREM TypeCorrect == Spec => []TypeOK
<1>1. IInv => TypeOK
  BY DEF IInv
<1> QED  BY <1>1, InitIInv, Inductive, PTL DEF Spec

\* While the network works the broker hears of the client within one and a
\* half intervals, if the application stays away for half an interval at most.
THEOREM ContactKept ==
  ASSUME 2 * MaxGap <= KeepaliveSeconds
  PROVE  Spec => []BrokerIsContacted
<1>1. IInv => BrokerIsContacted
  <2> SUFFICES ASSUME IInv, Open, link = "up" PROVE 2 * heard <= 3 * KeepaliveSeconds
    BY DEF BrokerIsContacted
  <2> Numbers  BY NumbersHold
  <2>1. heard + next_msg_out = KeepaliveSeconds
    BY DEF IInv, Contact
  <2>2. heard <= KeepaliveSeconds + MaxGap
    BY <2>1 DEF Numbers
  <2> QED  BY <2>2 DEF Numbers
<1> QED  BY <1>1, InitIInv, Inductive, PTL DEF Spec

\* A connection that has gone silent is given up in time, however often the
\* application writes to it and whatever waited to be read.
THEOREM SilenceNoticed == Spec => []SilenceIsNoticed
<1>1. IInv => SilenceIsNoticed
  <2> SUFFICES ASSUME IInv, Open, link = "silent"
               PROVE  silentFor <= 2 * (KeepaliveSeconds + Late) + MaxBacklog * MaxGap
    BY DEF SilenceIsNoticed
  <2> Numbers  BY NumbersHold
  <2>1. /\ Reading(MaxBacklog) = MaxBacklog * MaxGap /\ Reading(MaxBacklog) \in Nat
        /\ Reading(MaxBacklog - Len(toClient)) \in Nat
        /\ toClient # <<>> =>
             Reading(MaxBacklog - Len(toClient)) + gap <= Reading(MaxBacklog)
    <3>1. /\ MaxBacklog - Len(toClient) \in 0..MaxBacklog /\ MaxBacklog \in 0..MaxBacklog
          /\ toClient # <<>> => MaxBacklog - Len(toClient) + 1 \in 0..MaxBacklog
      BY Others
    <3>2. Reading(MaxBacklog - Len(toClient)) \in Nat
          /\ Reading(MaxBacklog - Len(toClient) + 1) = Reading(MaxBacklog - Len(toClient)) + MaxGap
          /\ Reading(MaxBacklog - Len(toClient)) <= Reading(MaxBacklog)
          /\ Reading(MaxBacklog) \in Nat
      BY <3>1, ReadingFacts
    <3>3. toClient # <<>> => Reading(MaxBacklog - Len(toClient) + 1) <= Reading(MaxBacklog)
      BY <3>1, ReadingFacts
    <3> QED  BY <3>2, <3>3 DEF Reading, Numbers
  <2>2. CASE toClient # <<>>
    <3>1. silentFor <= Reading(MaxBacklog - Len(toClient)) + gap
          /\ Reading(MaxBacklog - Len(toClient)) + gap <= Reading(MaxBacklog)
      BY <2>1, <2>2 DEF IInv, Silent
    <3>4. Reading(MaxBacklog - Len(toClient)) \in Nat /\ Reading(MaxBacklog) \in Nat
      BY <2>1
    <3>2. silentFor <= Reading(MaxBacklog)
      BY <3>1, <3>4 DEF Numbers
    <3>3. Reading(MaxBacklog) \in Nat /\ Reading(MaxBacklog) = MaxBacklog * MaxGap
      BY <2>1
    <3> QED  BY <3>2, <3>3 DEF Numbers
  <2>3. CASE toClient = <<>>
    <3>1. silentFor <= Reading(MaxBacklog) + last_msg_in
                       + IF ping_t THEN KeepaliveSeconds + Late ELSE 0
      BY <2>3 DEF IInv, Silent
    <3>2. silentFor <= Reading(MaxBacklog) + (KeepaliveSeconds + Late) + (KeepaliveSeconds + Late)
      BY <2>1, <3>1 DEF Numbers
    <3> QED  BY <2>1, <3>2 DEF Numbers
  <2> QED  BY <2>2, <2>3
<1> QED  BY <1>1, InitIInv, Inductive, PTL DEF Spec

\* A connection that works is never closed, if answers come within the
\* interval, the time to read what arrives before them included.
THEOREM NoFalseAlarms ==
  ASSUME MaxDelay + MaxBacklog * MaxGap < KeepaliveSeconds
  PROVE  Spec => NoFalseAlarm
<1>1. ASSUME IInv, Next, Open, state' = "closed", link = "up" PROVE FALSE
  <2> Numbers  BY <1>1, NumbersHold
  <2> USE DEF Numbers
  <2>1. state \in {"connected", "active"}
    BY <1>1 DEF IInv, Answered
  <2>2. Loop
    BY <1>1, <2>1
       DEF Next, Client, Network, Select, Interrupted, LoopRefuses, Refused, Publish,
           Disconnect, Reconnect, Answer, Send, Silence, Tick, clientVars, Open
  <2> DEFINE c == AfterRead
  <2>3. Due(c) /\ ~(c.state = "active" /\ ~c.ping_t)
    BY <1>1, <2>2, LoopCases, ReadFacts, <2>1
  <2>4. /\ c.state \in {state, "active"} /\ c.last_msg_in \in Nat
        /\ c.last_msg_in <= last_msg_in
        /\ c.ping_t => ping_t
        /\ toClient # <<>> /\ Head(toClient) = "CONNACK" => c.state = "active"
        /\ c.ping_t \in BOOLEAN
    BY <1>1, ReadFacts
  <2> HIDE DEF c
  <2>5. ASSUME NEW t \in Int, Recent(t), t < KeepaliveSeconds PROVE FALSE
    <3>1. last_msg_in <= t /\ KeepaliveSeconds - next_msg_out <= t
      BY <2>5 DEF Recent
    <3>2. c.last_msg_in < KeepaliveSeconds
      BY <2>4, <2>5, <3>1
    <3>3. next_msg_out > 0
      BY <2>5, <3>1
    <3> QED  BY <2>3, <2>4, <3>2, <3>3 DEF Due
  <2>6. CASE c.state = "connected"
    <3>1. state = "connected"
      BY <2>4, <2>6
    <3>2. Recent(owedFor)
      BY <1>1, <2>4, <2>6, <3>1 DEF IInv, Answered
    <3>3. MaxBacklog * MaxGap \in Nat
      BY TimesFacts
    <3> QED  BY <2>5, <3>2, <3>3
  <2>7. CASE c.state = "active"
    <3>1. ping_t
      <4>1. c.ping_t
        BY <2>3, <2>7, Zenon
      <4> QED  BY <2>4, <4>1, Zenon
    <3>2. CASE Recent(owedFor)
      <4>1. MaxBacklog * MaxGap \in Nat
        BY TimesFacts
      <4> QED  BY <2>5, <3>2, <4>1
    <3>3. ASSUME NEW p \in 1..Len(toClient),
                 Recent(MaxDelay + Reading(MaxBacklog - p) + gap)
          PROVE  FALSE
      <4>1. MaxBacklog - p \in 0..MaxBacklog /\ MaxBacklog - p + 1 \in 0..MaxBacklog
        BY <1>1, Others
      <4>2. /\ Reading(MaxBacklog - p) \in Nat
            /\ Reading(MaxBacklog - p + 1) = Reading(MaxBacklog - p) + MaxGap
            /\ Reading(MaxBacklog - p + 1) <= Reading(MaxBacklog)
        BY <4>1, ReadingFacts
      <4>3. Reading(MaxBacklog) = MaxBacklog * MaxGap
        BY DEF Reading
      <4>4. /\ MaxDelay + Reading(MaxBacklog - p) + gap \in Int
            /\ MaxDelay + Reading(MaxBacklog - p) + gap <= MaxDelay + MaxBacklog * MaxGap
        <5>1. /\ Reading(MaxBacklog - p) \in Nat
              /\ Reading(MaxBacklog - p) + MaxGap <= MaxBacklog * MaxGap
          BY <4>2, <4>3
        <5>2. MaxBacklog * MaxGap \in Nat
          BY TimesFacts
        <5> QED  BY <5>1, <5>2
      <4>5. MaxBacklog * MaxGap \in Nat
        BY TimesFacts
      <4> QED  BY <2>5, <3>3, <4>4, <4>5
    <3> QED  BY <1>1, <3>1, <3>2, <3>3 DEF IInv, Answered
  <2> QED  BY <2>1, <2>4, <2>6, <2>7
<1>2. IInv /\ [Next]_vars => (Open /\ state' = "closed" => link = "silent")
  <2>1. IInv => link \in {"up", "silent"}
    BY Others
  <2>2. UNCHANGED vars /\ Open => state' # "closed"
    BY DEF vars, Open
  <2> QED  BY <1>1, <2>1, <2>2
<1>3. IInv /\ [Next]_vars => [Open /\ state' = "closed" => link = "silent"]_vars
  BY <1>2
<1> QED  BY <1>3, InitIInv, Inductive, PTL DEF Spec, NoFalseAlarm

=============================================================================
