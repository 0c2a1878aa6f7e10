---------------------------- MODULE ReceiverProofs ----------------------------
(***************************************************************************)
(* Theorems about Receiver, for every number of messages, message ids and  *)
(* failures, and every set of settings.                                    *)
(***************************************************************************)
EXTENDS Receiver, MessageListProofs

ClientPacket ==
  [type : {"CONNACK"}] \cup [type : {"PUBREL"}, mid : 1..MaxMid]
  \cup [type : {"PUBLISH"}, id : 1..MaxMessages, mid : 1..MaxMid, qos : {0, 1, 2}]

BrokerPacket ==
  [type : {"CONNECT"}] \cup [type : {"PUBACK", "PUBREC", "PUBCOMP"}, mid : 1..MaxMid]

SessionMessage ==
  [id : 1..MaxMessages, mid : 1..MaxMid, qos : {1, 2},
   state : {"wait_for_puback", "wait_for_pubrec", "wait_for_pubcomp"}]

Types ==
  /\ TypeOK
  /\ toClient \in Seq(ClientPacket) /\ toBroker \in Seq(BrokerPacket)
  /\ session \in Seq(SessionMessage)
  /\ published \in Seq([qos : {0, 1, 2}, mid : 1..MaxMid])
  /\ Len(published) <= MaxMessages
  /\ setting \in Settings

\* m is the message that the broker published with its id.
Matches(m, pub) ==
  /\ m.id \in 1..Len(pub)
  /\ pub[m.id].qos = m.qos /\ pub[m.id].mid = m.mid

\* Every copy of a message is a copy of what was published.
CopiesIn(c, pub) == \A i \in 1..Len(c) : c[i].type = "PUBLISH" => Matches(c[i], pub)

CopiesOf(q, pub) == \A i \in 1..Len(q) : Matches(q[i], pub)

IdsOf(p, pub) == \A i \in 1..Len(p) : p[i] \in 1..Len(pub)

Copies ==
  /\ CopiesIn(toClient, published)
  /\ CopiesOf(session, published) /\ CopiesOf(msgs_in, published)
  /\ IdsOf(passed, published) /\ dropped \subseteq 1..Len(published)

-----------------------------------------------------------------------------
\* The session is kept, by a broker that uses no id again.
Kept == ~setting.clean /\ ~setting.idsReused

\* The messages that the client is done with.
Done == {passed[i] : i \in 1..Len(passed)} \cup dropped

\* p are messages, q is msgs_in, pub was published: the message that has the id is
\* one of p.
IsDone(mid, p, pub) == \E id \in p : pub[id].mid = mid

\* So it is, or it waits for its PUBREL.
Arrived(mid, p, q, pub) ==
  IsDone(mid, p, pub) \/ \E i \in 1..Len(q) : q[i].mid = mid

\* Each packet c to the client, packet b to the broker and message s of the
\* session tells what the client has done with a message.
FlowIds(pub) == \A i, j \in 1..Len(pub) : pub[i].mid = pub[j].mid => i = j

FlowIn(c, p, q, pub) ==
  \A i \in 1..Len(c) : c[i].type = "PUBREL" => Arrived(c[i].mid, p, q, pub)

FlowOut(b, p, q, pub) ==
  \A i \in 1..Len(b) :
    /\ b[i].type = "PUBREC" => Arrived(b[i].mid, p, q, pub)
    /\ b[i].type \in {"PUBACK", "PUBCOMP"} => IsDone(b[i].mid, p, pub)

FlowSession(s, p, q, pub) ==
  \A i \in 1..Len(s) :
    s[i].state = "wait_for_pubcomp" => Arrived(s[i].mid, p, q, pub)

Flow ==
  /\ FlowIds(published)
  /\ FlowIn(toClient, Done, msgs_in, published)
  /\ FlowOut(toBroker, Done, msgs_in, published)
  /\ FlowSession(session, Done, msgs_in, published)
  /\ completed \subseteq Done

-----------------------------------------------------------------------------
Publishes(c) == {i \in 1..Len(c) : c[i].type = "PUBLISH"}

\* A message is on its way, in msgs_in, or passed on, and that once.
Distinct(p, q, c) ==
  /\ \A i, j \in 1..Len(p) : p[i] = p[j] => i = j
  /\ \A i, j \in 1..Len(q) : q[i].id = q[j].id => i = j
  /\ \A i, j \in Publishes(c) : c[i].id = c[j].id => i = j
  /\ \A i \in 1..Len(q), j \in 1..Len(p) : q[i].id # p[j]
  /\ \A i \in Publishes(c), j \in 1..Len(p) : c[i].id # p[j]
  /\ \A i \in Publishes(c), j \in 1..Len(q) : c[i].id # q[j].id

IInv ==
  /\ Types /\ Copies
  /\ Kept => Flow
  /\ setting.clean => Distinct(passed, msgs_in, toClient)

-----------------------------------------------------------------------------
(***************************************************************************)
(* What the steps do to messages that are distinct.                        *)
(***************************************************************************)
\* Packets that are lost, or read, cannot make two of one message.
LEMMA Shifted ==
  ASSUME NEW c \in Seq(ClientPacket), c # <<>>
  PROVE  /\ \A i \in Publishes(Tail(c)) :
              /\ i \in Nat /\ i + 1 \in Publishes(c) /\ i + 1 # 1
              /\ Tail(c)[i] = c[i + 1]
         /\ Head(c).type = "PUBLISH" => 1 \in Publishes(c) /\ c[1] = Head(c)
<1>1. /\ Head(c) = c[1] /\ 1 \in 1..Len(c)
      /\ \A i \in 1..Len(Tail(c)) : i + 1 \in 1..Len(c) /\ Tail(c)[i] = c[i + 1]
  BY TailFacts
<1> QED  BY <1>1 DEF Publishes

LEMMA NoPublishes == Publishes(<<>>) = {}
BY DEF Publishes

LEMMA DistinctEmpty ==
  ASSUME NEW p, NEW q, NEW c, Distinct(p, q, c)
  PROVE  Distinct(p, q, <<>>)
BY NoPublishes DEF Distinct

LEMMA DistinctTail ==
  ASSUME NEW p, NEW q, NEW c \in Seq(ClientPacket), c # <<>>, Distinct(p, q, c)
  PROVE  Distinct(p, q, Tail(c))
<1>1. \A i \in Publishes(Tail(c)) : i \in Nat /\ i + 1 \in Publishes(c) /\ Tail(c)[i] = c[i + 1]
  BY Shifted
<1>2. ASSUME NEW i \in Publishes(Tail(c)), NEW j \in Publishes(Tail(c)),
             Tail(c)[i].id = Tail(c)[j].id
      PROVE  i = j
  <2>1. i + 1 \in Publishes(c) /\ j + 1 \in Publishes(c) /\ c[i + 1].id = c[j + 1].id
    BY <1>1, <1>2
  <2>2. i + 1 = j + 1
    BY <2>1 DEF Distinct
  <2> QED  BY <1>1, <2>2
<1>3. ASSUME NEW i \in Publishes(Tail(c))
      PROVE  /\ \A j \in 1..Len(p) : Tail(c)[i].id # p[j]
             /\ \A j \in 1..Len(q) : Tail(c)[i].id # q[j].id
  <2>1. i + 1 \in Publishes(c) /\ Tail(c)[i].id = c[i + 1].id
    BY <1>1
  <2> QED  BY <2>1 DEF Distinct
<1>4. /\ \A i, j \in 1..Len(p) : p[i] = p[j] => i = j
      /\ \A i, j \in 1..Len(q) : q[i].id = q[j].id => i = j
      /\ \A i \in 1..Len(q), j \in 1..Len(p) : q[i].id # p[j]
  BY DEF Distinct
<1> QED  BY <1>2, <1>3, <1>4 DEF Distinct

\* The message read is passed on.
LEMMA DistinctPassed ==
  ASSUME NEW p \in Seq(1..MaxMessages), NEW q, NEW c \in Seq(ClientPacket),
         c # <<>>, Head(c).type = "PUBLISH", Head(c).id \in 1..MaxMessages,
         Distinct(p, q, c)
  PROVE  Distinct(Append(p, Head(c).id), q, Tail(c))
<1> DEFINE r == Append(p, Head(c).id)
<1>1. \A i \in 1..Len(r) :
        (i \in 1..Len(p) /\ r[i] = p[i]) \/ (i = Len(p) + 1 /\ r[i] = c[1].id)
  BY AppendFacts, TailFacts
<1>2. 1 \in Publishes(c)
  BY Shifted
<1>3. \A i \in Publishes(Tail(c)) :
        i + 1 \in Publishes(c) /\ Tail(c)[i] = c[i + 1] /\ i + 1 # 1
  BY Shifted
<1> HIDE DEF r
<1>4. Distinct(p, q, Tail(c))
  BY DistinctTail
<1>5. \A i, j \in 1..Len(r) : r[i] = r[j] => i = j
  BY <1>1, <1>2 DEF Distinct
<1>6. \A i \in 1..Len(q), j \in 1..Len(r) : q[i].id # r[j]
  BY <1>1, <1>2 DEF Distinct
<1>7. ASSUME NEW i \in Publishes(Tail(c)), NEW j \in 1..Len(r) PROVE Tail(c)[i].id # r[j]
  <2>1. Tail(c)[i].id # c[1].id
    BY <1>2, <1>3 DEF Distinct
  <2>2. j \in 1..Len(p) => Tail(c)[i].id # p[j]
    BY <1>4 DEF Distinct
  <2> QED  BY <1>1, <2>1, <2>2
<1> QED  BY <1>4, <1>5, <1>6, <1>7 DEF Distinct, r

\* The message read joins msgs_in.
LEMMA DistinctKept ==
  ASSUME NEW p, NEW q \in Seq(Entry), NEW e \in Entry, NEW c \in Seq(ClientPacket),
         c # <<>>, Head(c).type = "PUBLISH", e.id = Head(c).id,
         Distinct(p, q, c)
  PROVE  Distinct(p, Append(q, e), Tail(c))
<1> DEFINE r == Append(q, e)
<1>1. \A i \in 1..Len(r) :
        (i \in 1..Len(q) /\ r[i] = q[i]) \/ (i = Len(q) + 1 /\ r[i].id = c[1].id)
  BY AppendFacts, TailFacts
<1>2. 1 \in Publishes(c)
  BY Shifted
<1>3. \A i \in Publishes(Tail(c)) :
        i + 1 \in Publishes(c) /\ Tail(c)[i] = c[i + 1] /\ i + 1 # 1
  BY Shifted
<1> HIDE DEF r
<1>4. Distinct(p, q, Tail(c))
  BY DistinctTail
<1>5. \A i, j \in 1..Len(r) : r[i].id = r[j].id => i = j
  BY <1>1, <1>2 DEF Distinct
<1>6. \A i \in 1..Len(r), j \in 1..Len(p) : r[i].id # p[j]
  BY <1>1, <1>2 DEF Distinct
<1>7. ASSUME NEW i \in Publishes(Tail(c)), NEW j \in 1..Len(r) PROVE Tail(c)[i].id # r[j].id
  <2>1. Tail(c)[i].id # c[1].id
    BY <1>2, <1>3 DEF Distinct
  <2>2. j \in 1..Len(q) => Tail(c)[i].id # q[j].id
    BY <1>4 DEF Distinct
  <2> QED  BY <1>1, <2>1, <2>2
<1> QED  BY <1>4, <1>5, <1>6, <1>7 DEF Distinct, r

\* A message leaves msgs_in, and is passed on or not.
LEMMA DistinctReleased ==
  ASSUME NEW p \in Seq(1..MaxMessages), NEW q \in Seq(Entry), NEW c,
         NEW f \in 1..Len(q), Distinct(p, q, c)
  PROVE  /\ Distinct(p, RemoveFrom(q, f), c)
         /\ Distinct(Append(p, q[f].id), RemoveFrom(q, f), c)
<1> DEFINE r == RemoveFrom(q, f)
           s == Append(p, q[f].id)
           old(i) == IF i < f THEN i ELSE i + 1
<1>1. \A i \in 1..Len(r) : old(i) \in 1..Len(q) /\ old(i) # f /\ r[i] = q[old(i)]
  <2>1. /\ Len(r) = Len(q) - 1
        /\ \A i \in 1..(Len(q) - 1) : r[i] = IF i < f THEN q[i] ELSE q[i + 1]
        /\ \A i \in 1..(Len(q) - 1) :
             IF i < f THEN i \in 1..Len(q) /\ i # f ELSE i + 1 \in 1..Len(q) /\ i + 1 # f
    BY RemoveFacts
  <2> HIDE DEF r
  <2> QED  BY <2>1
<1>2. \A i, j \in 1..Len(r) : old(i) = old(j) => i = j
  <2> HIDE DEF r
  <2> QED  OBVIOUS
<1>3. q[f].id \in 1..MaxMessages
  <2>1. q[f] \in Entry
    OBVIOUS
  <2> QED  BY <2>1 DEF Entry
<1>4. \A i \in 1..Len(s) :
        (i \in 1..Len(p) /\ s[i] = p[i]) \/ (i = Len(p) + 1 /\ s[i] = q[f].id)
  BY <1>3, AppendFacts
<1> HIDE DEF r, s, old
<1>5. \A i, j \in 1..Len(r) : r[i].id = r[j].id => i = j
  BY <1>1, <1>2 DEF Distinct
<1>6. \A i \in 1..Len(r), j \in 1..Len(p) : r[i].id # p[j]
  BY <1>1 DEF Distinct
<1>7. \A i \in Publishes(c), j \in 1..Len(r) : c[i].id # r[j].id
  BY <1>1 DEF Distinct
<1>8. \A i, j \in 1..Len(s) : s[i] = s[j] => i = j
  BY <1>4 DEF Distinct
<1>9. ASSUME NEW i \in 1..Len(r), NEW j \in 1..Len(s) PROVE r[i].id # s[j]
  <2>1. r[i].id # q[f].id
    BY <1>1 DEF Distinct
  <2> QED  BY <1>4, <1>6, <2>1
<1>10. \A i \in Publishes(c), j \in 1..Len(s) : c[i].id # s[j]
  BY <1>4 DEF Distinct
<1> QED  BY <1>5, <1>6, <1>7, <1>8, <1>9, <1>10 DEF Distinct, r, s

\* Packets that arrive hold no message, or a new one.
LEMMA DistinctSent ==
  ASSUME NEW p, NEW q, NEW c \in Seq(ClientPacket), NEW d \in Seq(ClientPacket),
         Distinct(p, q, c),
         \A i, j \in Publishes(d) : d[i].id = d[j].id => i = j,
         \A i \in Publishes(d) :
           /\ \A j \in 1..Len(p) : p[j] # d[i].id
           /\ \A j \in 1..Len(q) : q[j].id # d[i].id
           /\ \A j \in Publishes(c) : c[j].id # d[i].id
  PROVE  Distinct(p, q, c \o d)
<1> DEFINE r == c \o d
<1>0. Len(c) \in Nat
  OBVIOUS
<1>1. \A i \in Publishes(r) :
        \/ i \in Publishes(c) /\ r[i] = c[i]
        \/ i - Len(c) \in Publishes(d) /\ r[i] = d[i - Len(c)]
  BY ConcatFacts DEF Publishes
<1>2. \A i, j \in Publishes(r) : i \in Int /\ (i - Len(c) = j - Len(c) => i = j)
  BY <1>0 DEF Publishes
<1> HIDE DEF r
<1>3. \A i, j \in Publishes(r) : r[i].id = r[j].id => i = j
  BY <1>1, <1>2 DEF Distinct
<1>4. \A i \in Publishes(r), j \in 1..Len(p) : r[i].id # p[j]
  BY <1>1 DEF Distinct
<1>5. \A i \in Publishes(r), j \in 1..Len(q) : r[i].id # q[j].id
  BY <1>1 DEF Distinct
<1> QED  BY <1>3, <1>4, <1>5 DEF Distinct, r

-----------------------------------------------------------------------------
(***************************************************************************)
(* What the steps do to copies and flows.                                  *)
(***************************************************************************)
\* d holds no packet that c does not hold.
Fewer(d, c) == \A i \in 1..Len(d) : \E k \in 1..Len(c) : d[i] = c[k]

LEMMA TailFewer ==
  ASSUME NEW S, NEW c \in Seq(S)
  PROVE  /\ Fewer(<<>>, c) /\ Fewer(c, c)
         /\ c # <<>> => Fewer(Tail(c), c)
<1>1. Fewer(<<>>, c) /\ Fewer(c, c)
  BY DEF Fewer
<1>2. ASSUME c # <<>> PROVE Fewer(Tail(c), c)
  <2>1. \A i \in 1..Len(Tail(c)) : i + 1 \in 1..Len(c) /\ Tail(c)[i] = c[i + 1]
    BY <1>2, TailFacts
  <2> QED  BY <2>1 DEF Fewer
<1> QED  BY <1>1, <1>2

\* The client forgets nothing: what it is done with stays so, and it is done with
\* what leaves msgs_in.
Remembers(p, q, pub, p2, q2, pub2) ==
  /\ p \subseteq p2
  /\ \A i \in 1..Len(pub) : i \in 1..Len(pub2) /\ pub2[i] = pub[i]
  /\ \A i \in 1..Len(q) :
       (\E j \in 1..Len(q2) : q2[j].mid = q[i].mid) \/ q[i].id \in p2

LEMMA StaysDone ==
  ASSUME NEW p, NEW q, NEW pub, NEW p2, NEW q2, NEW pub2,
         Remembers(p, q, pub, p2, q2, pub2), p \subseteq 1..Len(pub), CopiesOf(q, pub)
  PROVE  \A mid :
           /\ IsDone(mid, p, pub) => IsDone(mid, p2, pub2)
           /\ Arrived(mid, p, q, pub) => Arrived(mid, p2, q2, pub2)
<1> SUFFICES ASSUME NEW mid
             PROVE  /\ IsDone(mid, p, pub) => IsDone(mid, p2, pub2)
                    /\ Arrived(mid, p, q, pub) => Arrived(mid, p2, q2, pub2)
  OBVIOUS
<1>1. ASSUME NEW id \in 1..Len(pub), id \in p2, pub[id].mid = mid
      PROVE  IsDone(mid, p2, pub2)
  <2>1. pub2[id].mid = mid
    BY <1>1 DEF Remembers
  <2> QED  BY <1>1, <2>1 DEF IsDone
<1>2. ASSUME IsDone(mid, p, pub) PROVE IsDone(mid, p2, pub2)
  <2>1. PICK id \in p : pub[id].mid = mid
    BY <1>2 DEF IsDone
  <2> QED  BY <1>1, <2>1 DEF Remembers
<1>3. ASSUME NEW i \in 1..Len(q), q[i].mid = mid PROVE Arrived(mid, p2, q2, pub2)
  <2>1. CASE \E j \in 1..Len(q2) : q2[j].mid = q[i].mid
    BY <1>3, <2>1 DEF Arrived
  <2>2. CASE q[i].id \in p2
    <3>1. q[i].id \in 1..Len(pub) /\ pub[q[i].id].mid = mid
      BY <1>3 DEF CopiesOf, Matches
    <3> QED  BY <1>1, <2>2, <3>1 DEF Arrived
  <2> QED  BY <2>1, <2>2 DEF Remembers
<1> QED  BY <1>2, <1>3 DEF Arrived

LEMMA FlowKept ==
  ASSUME NEW p, NEW q, NEW pub, NEW p2, NEW q2, NEW pub2,
         Remembers(p, q, pub, p2, q2, pub2), p \subseteq 1..Len(pub), CopiesOf(q, pub)
  PROVE  /\ \A c, d : FlowIn(c, p, q, pub) /\ Fewer(d, c) => FlowIn(d, p2, q2, pub2)
         /\ \A b, d : FlowOut(b, p, q, pub) /\ Fewer(d, b) => FlowOut(d, p2, q2, pub2)
         /\ \A s, d : FlowSession(s, p, q, pub) /\ Fewer(d, s) => FlowSession(d, p2, q2, pub2)
<1>1. \A mid :
        /\ IsDone(mid, p, pub) => IsDone(mid, p2, pub2)
        /\ Arrived(mid, p, q, pub) => Arrived(mid, p2, q2, pub2)
  BY StaysDone
<1> QED  BY <1>1 DEF FlowIn, FlowOut, FlowSession, Fewer

LEMMA CopiesKept ==
  ASSUME NEW pub, NEW pub2,
         \A i \in 1..Len(pub) : i \in 1..Len(pub2) /\ pub2[i] = pub[i]
  PROVE  /\ \A c, d : CopiesIn(c, pub) /\ Fewer(d, c) => CopiesIn(d, pub2)
         /\ \A s, d : CopiesOf(s, pub) /\ Fewer(d, s) => CopiesOf(d, pub2)
         /\ \A s : IdsOf(s, pub) => IdsOf(s, pub2)
<1>1. \A m : Matches(m, pub) => Matches(m, pub2)
  <2> SUFFICES ASSUME NEW m, Matches(m, pub) PROVE Matches(m, pub2)
    OBVIOUS
  <2>1. m.id \in 1..Len(pub) /\ pub[m.id].qos = m.qos /\ pub[m.id].mid = m.mid
    BY DEF Matches
  <2>2. m.id \in 1..Len(pub2) /\ pub2[m.id] = pub[m.id]
    BY <2>1
  <2> QED  BY <2>1, <2>2 DEF Matches
<1>2. ASSUME NEW c, NEW d, CopiesIn(c, pub), Fewer(d, c) PROVE CopiesIn(d, pub2)
  BY <1>1, <1>2 DEF CopiesIn, Fewer
<1>3. ASSUME NEW s, NEW d, CopiesOf(s, pub), Fewer(d, s) PROVE CopiesOf(d, pub2)
  BY <1>1, <1>3 DEF CopiesOf, Fewer
<1>4. ASSUME NEW s, IdsOf(s, pub) PROVE IdsOf(s, pub2)
  BY <1>4 DEF IdsOf
<1> QED  BY <1>2, <1>3, <1>4

LEMMA Unchanged ==
  ASSUME NEW p, NEW q, NEW pub
  PROVE  Remembers(p, q, pub, p, q, pub)
<1>1. \A i \in 1..Len(q) : \E j \in 1..Len(q) : q[j].mid = q[i].mid
  BY Zenon
<1> QED  BY <1>1 DEF Remembers

LEMMA DoneKnown == Copies => Done \subseteq 1..Len(published) /\ CopiesOf(msgs_in, published)
BY DEF Copies, IdsOf, Done

-----------------------------------------------------------------------------
(***************************************************************************)
(* The invariant is inductive.                                             *)
(***************************************************************************)
LEMMA InitIInv == Init => IInv
<1> SUFFICES ASSUME Init PROVE IInv
  OBVIOUS
<1>1. Types
  <2>1. \A S : <<>> \in Seq(S)
    OBVIOUS
  <2>2. 0 \in 0..MaxFaults /\ Len(<<>>) <= MaxMessages
    BY BoundsAssumption
  <2> QED  BY <2>1, <2>2 DEF Init, Types, TypeOK
<1>2. Copies /\ Flow
  BY DEF Init, Copies, CopiesIn, CopiesOf, IdsOf, Flow, FlowIds, FlowIn, FlowOut,
         FlowSession
<1>3. Distinct(passed, msgs_in, toClient)
  BY DEF Init, Distinct, Publishes
<1> QED  BY <1>1, <1>2, <1>3 DEF IInv

\* Steps that lose packets, or read one that asks for nothing, or connect.
LEMMA LosesKeeps ==
  ASSUME IInv, UNCHANGED <<msgs_in, passed, dropped, session, published, completed, setting>>,
         state' \in {"new", "connected", "active", "disconnected"},
         link' \in {"none", "up", "broken"}, accepted' \in BOOLEAN, faults' \in 0..MaxFaults,
         \/ toClient' = toClient \/ toClient' = <<>>
         \/ toClient # <<>> /\ toClient' = Tail(toClient),
         toBroker' = toBroker \/ toBroker' = <<[type |-> "CONNECT"]>>
  PROVE  IInv'
<1>1. toClient \in Seq(ClientPacket) /\ toBroker \in Seq(BrokerPacket)
  BY DEF IInv, Types
<1>2. Fewer(toClient', toClient) /\ Fewer(session, session) /\ Fewer(msgs_in, msgs_in)
  <2>1. Fewer(<<>>, toClient) /\ Fewer(toClient, toClient)
    BY DEF Fewer
  <2>2. toClient # <<>> => Fewer(Tail(toClient), toClient)
    BY <1>1, TailFewer
  <2>3. Fewer(session, session)
    BY Zenon DEF Fewer
  <2>4. Fewer(msgs_in, msgs_in)
    BY Zenon DEF Fewer
  <2> QED  BY <2>1, <2>2, <2>3, <2>4
<1>3. Types'
  <2>1. toClient' \in Seq(ClientPacket)
    <3>1. <<>> \in Seq(ClientPacket)
      OBVIOUS
    <3>2. toClient # <<>> => Tail(toClient) \in Seq(ClientPacket)
      BY <1>1, TailFacts
    <3> QED  BY <1>1, <3>1, <3>2
  <2>2. toBroker' \in Seq(BrokerPacket)
    <3>1. [type |-> "CONNECT"] \in BrokerPacket
      BY DEF BrokerPacket
    <3>2. <<[type |-> "CONNECT"]>> \in Seq(BrokerPacket)
      BY <3>1
    <3> QED  BY <1>1, <3>2
  <2> QED  BY <2>1, <2>2 DEF IInv, Types, TypeOK
<1>4. Copies'
  BY <1>2, CopiesKept DEF IInv, Copies
<1>5. ASSUME Kept PROVE Flow'
  <2>0. Flow
    BY <1>5 DEF IInv
  <2>3. Done' = Done
    BY DEF Done
  <2>1. FlowIn(toClient', Done, msgs_in, published)
    BY <1>2, <2>0, FlowKept, Unchanged, DoneKnown DEF IInv, Flow
  <2>2. FlowOut(toBroker', Done, msgs_in, published)
    BY <2>0 DEF Flow, FlowOut
  <2> QED  BY <2>0, <2>1, <2>2, <2>3 DEF Flow
<1>6. ASSUME setting.clean PROVE Distinct(passed, msgs_in, toClient)'
  BY <1>1, <1>6, DistinctTail, DistinctEmpty DEF IInv
<1> QED  BY <1>3, <1>4, <1>5, <1>6 DEF IInv, Kept

LEMMA LossStep ==
  ASSUME IInv, UNCHANGED setting,
         \/ HandleConnack \/ DetectLoss \/ Reconnect \/ Disconnect \/ Refuse
         \/ BreakLink \/ Quiescent
  PROVE  IInv'
<1>0. /\ state \in {"new", "connected", "active", "disconnected"}
      /\ link \in {"none", "up", "broken"} /\ accepted \in BOOLEAN
      /\ faults \in 0..MaxFaults /\ MaxFaults \in Nat
  BY BoundsAssumption DEF IInv, Types, TypeOK
<1>1. CASE HandleConnack
  BY <1>0, <1>1, LosesKeeps DEF HandleConnack, Incoming, brokerVars
<1>2. CASE DetectLoss
  BY <1>0, <1>2, LosesKeeps DEF DetectLoss, CloseLink, brokerVars
<1>3. CASE Reconnect
  BY <1>0, <1>3, LosesKeeps DEF Reconnect, brokerVars
<1>4. CASE Disconnect
  <2>1. faults' \in 0..MaxFaults
    BY <1>0, <1>4 DEF Disconnect
  <2> QED  BY <1>0, <1>4, <2>1, LosesKeeps DEF Disconnect, CloseLink, brokerVars
<1>5. CASE Refuse
  BY <1>0, <1>5, LosesKeeps DEF Refuse, CloseLink, brokerVars
<1>6. CASE BreakLink
  <2>1. faults' \in 0..MaxFaults
    BY <1>0, <1>6 DEF BreakLink
  <2> QED  BY <1>0, <1>6, <2>1, LosesKeeps DEF BreakLink, brokerVars
<1>7. CASE Quiescent
  BY <1>0, <1>7, LosesKeeps DEF Quiescent, vars
<1> QED  BY <1>1, <1>2, <1>3, <1>4, <1>5, <1>6, <1>7

-----------------------------------------------------------------------------
(***************************************************************************)
(* The handlers of the client.                                             *)
(***************************************************************************)
LEMMA ReadPublish ==
  ASSUME IInv, Incoming({"PUBLISH"})
  PROVE  /\ toClient # <<>> /\ Head(toClient).type = "PUBLISH"
         /\ Head(toClient).id \in 1..MaxMessages /\ Head(toClient).mid \in 1..MaxMid
         /\ Matches(Head(toClient), published)
<1>1. toClient # <<>> /\ Head(toClient).type = "PUBLISH" /\ toClient \in Seq(ClientPacket)
  BY DEF Incoming, IInv, Types
<1>2. Head(toClient) \in ClientPacket /\ Head(toClient) = toClient[1] /\ 1 \in 1..Len(toClient)
  BY <1>1, TailFacts
<1>3. Matches(toClient[1], published)
  BY <1>1, <1>2 DEF IInv, Copies, CopiesIn
<1> QED  BY <1>1, <1>2, <1>3 DEF ClientPacket

\* What an answer does to the queues, whether it is written or not.
Answers(e) ==
  /\ toClient' \in Seq(ClientPacket) /\ toBroker' \in Seq(BrokerPacket)
  /\ link' \in {"none", "up", "broken"}
  /\ Fewer(toClient', toClient)
  /\ toClient' = Tail(toClient) \/ toClient' = <<>>
  /\ toClient' = <<>> \/ link' = link
  /\ toBroker' = toBroker \/ toBroker' = Append(toBroker, e)

LEMMA AnswerIs ==
  ASSUME IInv, toClient # <<>>, NEW e \in BrokerPacket, Answer(e)
  PROVE  Answers(e)
<1>1. toClient \in Seq(ClientPacket) /\ toBroker \in Seq(BrokerPacket)
  BY DEF IInv, Types
<1>2. Tail(toClient) \in Seq(ClientPacket) /\ Append(toBroker, e) \in Seq(BrokerPacket)
  BY <1>1, TailFacts, AppendFacts
<1>3. <<>> \in Seq(ClientPacket)
  OBVIOUS
<1>4. Fewer(Tail(toClient), toClient) /\ Fewer(<<>>, toClient)
  BY <1>1, TailFewer
<1>5. CASE link = "up"
  BY <1>1, <1>2, <1>4, <1>5 DEF Answer, Answers
<1>6. CASE link # "up"
  BY <1>1, <1>3, <1>4, <1>6 DEF Answer, CloseLink, Answers
<1> QED  BY <1>5, <1>6

LEMMA FlowAnswered ==
  ASSUME NEW b \in Seq(BrokerPacket), NEW e \in BrokerPacket, NEW p, NEW q, NEW pub,
         FlowOut(b, p, q, pub),
         e.type = "PUBREC" => Arrived(e.mid, p, q, pub),
         e.type \in {"PUBACK", "PUBCOMP"} => IsDone(e.mid, p, pub)
  PROVE  FlowOut(Append(b, e), p, q, pub)
<1> DEFINE r == Append(b, e)
<1>1. \A i \in 1..Len(r) : (i \in 1..Len(b) /\ r[i] = b[i]) \/ r[i] = e
  BY AppendFacts
<1> HIDE DEF r
<1>2. FlowOut(r, p, q, pub)
  BY <1>1 DEF FlowOut
<1> QED  BY <1>2 DEF r

LEMMA MoreRemembers ==
  ASSUME NEW p, NEW p2, p \subseteq p2, NEW q, NEW pub
  PROVE  Remembers(p, q, pub, p2, q, pub)
<1>1. Remembers(p, q, pub, p, q, pub)
  BY Unchanged
<1> QED  BY <1>1 DEF Remembers

LEMMA JoinedRemembers ==
  ASSUME NEW p, NEW q \in Seq(Entry), NEW e \in Entry, NEW pub
  PROVE  Remembers(p, q, pub, p, Append(q, e), pub)
<1>1. \A i \in 1..Len(q) : i \in 1..Len(Append(q, e)) /\ Append(q, e)[i] = q[i]
  BY AppendFacts
<1>2. \A i \in 1..Len(q) : \E j \in 1..Len(Append(q, e)) : Append(q, e)[j].mid = q[i].mid
  BY <1>1
<1> QED  BY <1>2 DEF Remembers

\* A message of QoS 0 or 1 is passed on at once.
LEMMA PassesOn ==
  ASSUME IInv, Incoming({"PUBLISH"}), OnMessage(Head(toClient).id),
         UNCHANGED <<state, msgs_in, brokerVars, faults, setting>>,
         NEW e \in BrokerPacket, e.type = "PUBACK", e.mid = Head(toClient).mid, Answers(e)
  PROVE  IInv'
<1> DEFINE p == Head(toClient)
<1>1. /\ toClient # <<>> /\ p.type = "PUBLISH" /\ p.id \in 1..MaxMessages
      /\ Matches(p, published)
  BY ReadPublish
<1>2. /\ toClient \in Seq(ClientPacket) /\ passed \in Seq(1..MaxMessages)
      /\ msgs_in \in Seq(Entry) /\ toBroker \in Seq(BrokerPacket)
  BY DEF IInv, Types, TypeOK
<1>3. /\ passed' = Append(passed, p.id) /\ passed' \in Seq(1..MaxMessages)
      /\ Len(passed) + 1 \in 1..Len(passed') /\ passed'[Len(passed) + 1] = p.id
      /\ \A i \in 1..Len(passed) : i \in 1..Len(passed') /\ passed'[i] = passed[i]
      /\ \A i \in 1..Len(passed') : i \in 1..Len(passed) \/ i = Len(passed) + 1
  BY <1>1, <1>2, AppendFacts DEF OnMessage
<1>4. UNCHANGED <<state, msgs_in, dropped, session, accepted, published, completed, faults,
                   setting>>
  BY DEF OnMessage, brokerVars
<1>9. Done \subseteq Done' /\ p.id \in Done'
  BY <1>3, <1>4 DEF Done
<1> HIDE DEF p
<1>5. Types'
  BY <1>3, <1>4 DEF IInv, Types, TypeOK, Answers
<1>6. Copies'
  <2>1. IdsOf(passed', published)
    BY <1>1, <1>3 DEF IInv, Copies, IdsOf, Matches
  <2>2. CopiesIn(toClient', published)
    BY CopiesKept DEF IInv, Copies, Answers
  <2> QED  BY <1>4, <2>1, <2>2 DEF IInv, Copies
<1>7. ASSUME Kept PROVE Flow'
  <2>1. Flow
    BY <1>7 DEF IInv
  <2>2. Remembers(Done, msgs_in, published, Done', msgs_in, published)
    BY <1>9, MoreRemembers
  <2>3. Done \subseteq 1..Len(published) /\ CopiesOf(msgs_in, published)
    BY DoneKnown DEF IInv
  <2>4. FlowIn(toClient', Done', msgs_in, published)
    BY <2>1, <2>2, <2>3, FlowKept DEF Flow, Answers
  <2>5. Fewer(toBroker, toBroker) /\ Fewer(session, session)
    BY Zenon DEF Fewer
  <2>6. FlowOut(toBroker, Done', msgs_in, published)
    BY <2>1, <2>2, <2>3, <2>5, FlowKept DEF Flow
  <2>7. FlowSession(session, Done', msgs_in, published)
    BY <2>1, <2>2, <2>3, <2>5, FlowKept DEF Flow
  <2>8. IsDone(e.mid, Done', published)
    BY <1>1, <1>9 DEF IsDone, Matches, p
  <2>9. FlowOut(toBroker', Done', msgs_in, published)
    BY <1>2, <2>6, <2>8, FlowAnswered DEF Answers
  <2>10. completed' \subseteq Done'
    BY <1>4, <1>9, <2>1 DEF Flow
  <2> QED  BY <1>4, <2>1, <2>4, <2>7, <2>9, <2>10 DEF Flow
<1>8. ASSUME setting.clean PROVE Distinct(passed', msgs_in, toClient')
  <2>1. Distinct(passed', msgs_in, Tail(toClient))
    BY <1>1, <1>2, <1>3, <1>8, DistinctPassed DEF IInv, p
  <2> QED  BY <2>1, DistinctEmpty DEF Answers
<1> QED  BY <1>4, <1>5, <1>6, <1>7, <1>8 DEF IInv, Kept

LEMMA PublishQos0Step ==
  ASSUME IInv, HandlePublishQos0, UNCHANGED setting
  PROVE  IInv'
<1> DEFINE e == Packet("PUBACK", Head(toClient).mid)
<1>1. Incoming({"PUBLISH"}) /\ OnMessage(Head(toClient).id)
      /\ toClient' = Tail(toClient) /\ link' = link /\ toBroker' = toBroker
      /\ UNCHANGED <<state, msgs_in, brokerVars, faults>>
  BY DEF HandlePublishQos0
<1>2. toClient # <<>> /\ Head(toClient).mid \in 1..MaxMid
  BY <1>1, ReadPublish
<1>3. e \in BrokerPacket /\ e.type = "PUBACK" /\ e.mid = Head(toClient).mid
  BY <1>2 DEF BrokerPacket, Packet
<1>4. toClient \in Seq(ClientPacket) /\ toBroker \in Seq(BrokerPacket)
      /\ link \in {"none", "up", "broken"}
  BY DEF IInv, Types, TypeOK
<1>5. Answers(e)
  BY <1>1, <1>2, <1>4, TailFacts, TailFewer DEF Answers
<1> QED  BY <1>1, <1>3, <1>5, PassesOn

LEMMA PublishQos1Step ==
  ASSUME IInv, HandlePublishQos1, UNCHANGED setting
  PROVE  IInv'
<1> DEFINE e == Packet("PUBACK", Head(toClient).mid)
<1>1. Incoming({"PUBLISH"}) /\ OnMessage(Head(toClient).id) /\ Answer(e)
      /\ UNCHANGED <<state, msgs_in, brokerVars, faults>>
  BY DEF HandlePublishQos1
<1>2. toClient # <<>> /\ Head(toClient).mid \in 1..MaxMid
  BY <1>1, ReadPublish
<1>3. e \in BrokerPacket /\ e.type = "PUBACK" /\ e.mid = Head(toClient).mid
  BY <1>2 DEF BrokerPacket, Packet
<1>4. Answers(e)
  BY <1>1, <1>2, <1>3, AnswerIs
<1> QED  BY <1>1, <1>3, <1>4, PassesOn

\* A message of QoS 2 waits in msgs_in.
LEMMA PublishQos2Step ==
  ASSUME IInv, HandlePublishQos2, UNCHANGED setting
  PROVE  IInv'
<1> DEFINE p == Head(toClient)
           e == Packet("PUBREC", p.mid)
           m == [id |-> p.id, mid |-> p.mid, qos |-> 2]
<1>0. Incoming({"PUBLISH"}) /\ p.qos = 2 /\ Answer(e) /\ msgs_in' = Append(msgs_in, m)
      /\ UNCHANGED <<state, passed, dropped, session, accepted, published, completed, faults,
                   setting>>
  BY DEF HandlePublishQos2, brokerVars
<1>1. /\ toClient # <<>> /\ p.type = "PUBLISH" /\ p.id \in 1..MaxMessages
      /\ p.mid \in 1..MaxMid /\ Matches(p, published)
  BY <1>0, ReadPublish
<1>2. /\ toClient \in Seq(ClientPacket) /\ passed \in Seq(1..MaxMessages)
      /\ msgs_in \in Seq(Entry) /\ toBroker \in Seq(BrokerPacket)
  BY DEF IInv, Types, TypeOK
<1>3. /\ e \in BrokerPacket /\ e.type = "PUBREC" /\ e.mid = p.mid
      /\ m \in Entry /\ m.mid = p.mid /\ m.id = p.id
      /\ Matches(m, published)
  BY <1>0, <1>1 DEF BrokerPacket, Packet, Entry, Matches
<1>4. Answers(e)
  BY <1>0, <1>1, <1>3, AnswerIs
<1> HIDE DEF p, e, m
<1>5. /\ msgs_in' \in Seq(Entry)
      /\ Len(msgs_in) + 1 \in 1..Len(msgs_in') /\ msgs_in'[Len(msgs_in) + 1] = m
      /\ \A i \in 1..Len(msgs_in') :
           (i \in 1..Len(msgs_in) /\ msgs_in'[i] = msgs_in[i]) \/ msgs_in'[i] = m
  BY <1>0, <1>2, <1>3, AppendFacts
<1>6. Types'
  BY <1>0, <1>4, <1>5 DEF IInv, Types, TypeOK, Answers
<1>7. Copies'
  <2>1. CopiesOf(msgs_in', published)
    BY <1>3, <1>5 DEF IInv, Copies, CopiesOf
  <2>2. CopiesIn(toClient', published)
    BY <1>4, CopiesKept DEF IInv, Copies, Answers
  <2> QED  BY <1>0, <2>1, <2>2 DEF IInv, Copies
<1>8. ASSUME Kept PROVE Flow'
  <2>1. Flow
    BY <1>8 DEF IInv
  <2>0. Done' = Done
    BY <1>0 DEF Done
  <2>2. Remembers(Done, msgs_in, published, Done, msgs_in', published)
    BY <1>0, <1>2, <1>3, JoinedRemembers
  <2>3. Done \subseteq 1..Len(published) /\ CopiesOf(msgs_in, published)
    BY DoneKnown DEF IInv
  <2>4. FlowIn(toClient', Done, msgs_in', published)
    BY <1>4, <2>1, <2>2, <2>3, FlowKept DEF Flow, Answers
  <2>5. Fewer(toBroker, toBroker) /\ Fewer(session, session)
    BY Zenon DEF Fewer
  <2>6. FlowOut(toBroker, Done, msgs_in', published)
    BY <2>1, <2>2, <2>3, <2>5, FlowKept DEF Flow
  <2>7. FlowSession(session, Done, msgs_in', published)
    BY <2>1, <2>2, <2>3, <2>5, FlowKept DEF Flow
  <2>8. Arrived(e.mid, Done, msgs_in', published)
    BY <1>3, <1>5 DEF Arrived
  <2>9. FlowOut(toBroker', Done, msgs_in', published)
    <3>1. FlowOut(Append(toBroker, e), Done, msgs_in', published)
      BY <1>2, <1>3, <2>6, <2>8, FlowAnswered
    <3> QED  BY <1>4, <2>6, <3>1 DEF Answers
  <2> QED  BY <1>0, <2>0, <2>1, <2>4, <2>7, <2>9 DEF Flow
<1>9. ASSUME setting.clean PROVE Distinct(passed, msgs_in', toClient')
  <2>1. Distinct(passed, msgs_in', Tail(toClient))
    <3>1. Distinct(passed, msgs_in, toClient)
      BY <1>9 DEF IInv
    <3> QED  BY <1>0, <1>1, <1>2, <1>3, <3>1, DistinctKept DEF p
  <2> QED  BY <1>4, <2>1, DistinctEmpty DEF Answers
<1> QED  BY <1>0, <1>6, <1>7, <1>8, <1>9 DEF IInv, Kept

\* A message leaves msgs_in.
LEMMA ReleaseFacts ==
  ASSUME NEW p, NEW p2, p \subseteq p2,
         NEW q \in Seq(Entry), NEW f \in 1..Len(q), q[f].id \in p2, NEW pub
  PROVE  /\ RemoveFrom(q, f) \in Seq(Entry) /\ q[f].id \in 1..MaxMessages
         /\ Fewer(RemoveFrom(q, f), q)
         /\ Remembers(p, q, pub, p2, RemoveFrom(q, f), pub)
<1> DEFINE r == RemoveFrom(q, f)
<1>1. q[f] \in Entry
  OBVIOUS
<1>2. q[f].id \in 1..MaxMessages
  BY <1>1 DEF Entry
<1>3. /\ r \in Seq(Entry) /\ Len(r) = Len(q) - 1
      /\ \A i \in 1..(Len(q) - 1) : r[i] = IF i < f THEN q[i] ELSE q[i + 1]
  BY RemoveIs
<1>0. Len(q) \in Nat
  OBVIOUS
<1> HIDE DEF r
<1>5. Fewer(r, q)
  <2>1. ASSUME NEW i \in 1..Len(r) PROVE \E k \in 1..Len(q) : r[i] = q[k]
    <3>1. CASE i < f
      <4>1. i \in 1..Len(q) /\ r[i] = q[i]
        BY <1>0, <1>3, <2>1, <3>1
      <4> QED  BY <4>1
    <3>2. CASE ~(i < f)
      <4>1. i + 1 \in 1..Len(q) /\ r[i] = q[i + 1]
        BY <1>0, <1>3, <2>1, <3>2
      <4> QED  BY <4>1
    <3> QED  BY <3>1, <3>2
  <2> QED  BY <2>1 DEF Fewer
<1>6. ASSUME NEW i \in 1..Len(q)
      PROVE  (\E j \in 1..Len(r) : r[j].mid = q[i].mid) \/ q[i].id \in p2
  <2>1. CASE i = f
    BY <2>1
  <2>2. CASE i < f
    <3>1. i \in 1..Len(r) /\ r[i] = q[i]
      BY <1>0, <1>3, <2>2
    <3> QED  BY <3>1
  <2>3. CASE i > f
    <3>1. i - 1 \in 1..Len(r) /\ r[i - 1] = q[(i - 1) + 1] /\ (i - 1) + 1 = i
      BY <1>0, <1>3, <2>3
    <3> QED  BY <3>1
  <2> QED  BY <2>1, <2>2, <2>3
<1>7. Remembers(p, q, pub, p2, r, pub)
  <2>1. \A i \in 1..Len(pub) : i \in 1..Len(pub) /\ pub[i] = pub[i]
    OBVIOUS
  <2> QED  BY <1>6, <2>1 DEF Remembers
<1> QED  BY <1>2, <1>3, <1>5, <1>7 DEF r

LEMMA PubrelStep ==
  ASSUME IInv, HandlePubrel, UNCHANGED setting
  PROVE  IInv'
<1> DEFINE mid == Head(toClient).mid
           e == Packet("PUBCOMP", mid)
           f == FirstAt(msgs_in, mid)
<1>0. /\ Incoming({"PUBREL"}) /\ Answer(e) /\ msgs_in' = MessageRemove(msgs_in, mid)
      /\ passed' = IF Known(msgs_in, mid) /\ link = "up"
                   THEN Append(passed, msgs_in[f].id) ELSE passed
      /\ dropped' = IF Known(msgs_in, mid) /\ link # "up"
                    THEN dropped \cup {msgs_in[f].id} ELSE dropped
      /\ UNCHANGED <<state, session, accepted, published, completed, faults, setting>>
  BY DEF HandlePubrel, Release, OnMessage, brokerVars
<1>1. /\ toClient \in Seq(ClientPacket) /\ passed \in Seq(1..MaxMessages)
      /\ msgs_in \in Seq(Entry) /\ toBroker \in Seq(BrokerPacket)
  BY DEF IInv, Types, TypeOK
<1>2. /\ toClient # <<>> /\ Head(toClient) \in ClientPacket /\ Head(toClient).type = "PUBREL"
      /\ Head(toClient) = toClient[1] /\ 1 \in 1..Len(toClient)
  BY <1>0, <1>1, TailFacts DEF Incoming
<1>3. e \in BrokerPacket /\ e.type = "PUBCOMP" /\ e.mid = mid
  BY <1>2 DEF ClientPacket, BrokerPacket, Packet
<1>4. Answers(e)
  BY <1>0, <1>2, <1>3, AnswerIs
<1> HIDE DEF mid, e, f
<1>5. Known(msgs_in, mid) =>
        f \in 1..Len(msgs_in) /\ msgs_in[f].mid = mid /\ msgs_in' = RemoveFrom(msgs_in, f)
  BY <1>0, <1>1, FirstAtIs DEF MessageRemove, f
<1>6. ~Known(msgs_in, mid) => UNCHANGED <<msgs_in, passed, dropped>>
  BY <1>0 DEF MessageRemove
<1>7. Known(msgs_in, mid) =>
        /\ RemoveFrom(msgs_in, f) \in Seq(Entry) /\ msgs_in[f].id \in 1..MaxMessages
        /\ Fewer(RemoveFrom(msgs_in, f), msgs_in)
  <2>1. ASSUME Known(msgs_in, mid) PROVE msgs_in[f].id \in {msgs_in[f].id}
    OBVIOUS
  <2> QED  BY <1>1, <1>5, <2>1, ReleaseFacts
<1>8. Known(msgs_in, mid) =>
        /\ Append(passed, msgs_in[f].id) \in Seq(1..MaxMessages)
        /\ Len(passed) + 1 \in 1..Len(Append(passed, msgs_in[f].id))
        /\ Append(passed, msgs_in[f].id)[Len(passed) + 1] = msgs_in[f].id
        /\ \A i \in 1..Len(passed) :
             /\ i \in 1..Len(Append(passed, msgs_in[f].id))
             /\ Append(passed, msgs_in[f].id)[i] = passed[i]
        /\ \A i \in 1..Len(Append(passed, msgs_in[f].id)) :
             i \in 1..Len(passed) \/ i = Len(passed) + 1
  BY <1>1, <1>7, AppendFacts
<1>9. passed' \in Seq(1..MaxMessages) /\ msgs_in' \in Seq(Entry)
  BY <1>0, <1>1, <1>5, <1>6, <1>7, <1>8
<1>14. dropped' \subseteq 1..MaxMessages
  BY <1>0, <1>7 DEF IInv, Types, TypeOK
<1>15. Done \subseteq Done' /\ (Known(msgs_in, mid) => msgs_in[f].id \in Done')
  <2>1. CASE Known(msgs_in, mid) /\ link = "up"
    BY <1>0, <1>8, <2>1 DEF Done
  <2>2. CASE ~(Known(msgs_in, mid) /\ link = "up")
    BY <1>0, <2>2 DEF Done
  <2> QED  BY <2>1, <2>2
<1>10. Types'
  BY <1>0, <1>4, <1>9, <1>14 DEF IInv, Types, TypeOK, Answers
<1>11. Copies'
  <2>1. Fewer(msgs_in, msgs_in)
    BY Zenon DEF Fewer
  <2>2. Fewer(msgs_in', msgs_in)
    BY <1>5, <1>6, <1>7, <2>1
  <2>3. CopiesOf(msgs_in', published) /\ CopiesIn(toClient', published)
    BY <1>4, <2>2, CopiesKept DEF IInv, Copies, Answers
  <2>4. IdsOf(passed', published)
    <3>1. CASE Known(msgs_in, mid) /\ link = "up"
      <4>1. msgs_in[f].id \in 1..Len(published)
        BY <1>5, <3>1 DEF IInv, Copies, CopiesOf, Matches
      <4> QED  BY <1>0, <1>8, <3>1, <4>1 DEF IInv, Copies, IdsOf
    <3>2. CASE ~(Known(msgs_in, mid) /\ link = "up")
      BY <1>0, <3>2 DEF IInv, Copies
    <3> QED  BY <3>1, <3>2
  <2>5. dropped' \subseteq 1..Len(published)
    <3>1. CASE Known(msgs_in, mid) /\ link # "up"
      <4>1. msgs_in[f].id \in 1..Len(published)
        BY <1>5, <3>1 DEF IInv, Copies, CopiesOf, Matches
      <4> QED  BY <1>0, <3>1, <4>1 DEF IInv, Copies
    <3>2. CASE ~(Known(msgs_in, mid) /\ link # "up")
      BY <1>0, <3>2 DEF IInv, Copies
    <3> QED  BY <3>1, <3>2
  <2> QED  BY <1>0, <2>3, <2>4, <2>5 DEF IInv, Copies
<1>12. ASSUME Kept PROVE Flow'
  <2>1. Flow
    BY <1>12 DEF IInv
  <2>2. Remembers(Done, msgs_in, published, Done', msgs_in', published)
    <3>1. CASE Known(msgs_in, mid)
      BY <1>1, <1>5, <1>15, <3>1, ReleaseFacts
    <3>2. CASE ~Known(msgs_in, mid)
      BY <1>6, <1>15, <3>2, MoreRemembers
    <3> QED  BY <3>1, <3>2
  <2>3. Done \subseteq 1..Len(published) /\ CopiesOf(msgs_in, published)
    BY DoneKnown DEF IInv
  <2>4. FlowIn(toClient', Done', msgs_in', published)
    BY <1>4, <2>1, <2>2, <2>3, FlowKept DEF Flow, Answers
  <2>5. Fewer(toBroker, toBroker) /\ Fewer(session, session)
    BY Zenon DEF Fewer
  <2>6. FlowOut(toBroker, Done', msgs_in', published)
    BY <2>1, <2>2, <2>3, <2>5, FlowKept DEF Flow
  <2>7. FlowSession(session, Done', msgs_in', published)
    BY <2>1, <2>2, <2>3, <2>5, FlowKept DEF Flow
  <2>8. IsDone(mid, Done', published)
    <3>1. Arrived(mid, Done, msgs_in, published)
      BY <1>2, <2>1 DEF Flow, FlowIn, mid
    <3>2. IsDone(mid, Done, published) => IsDone(mid, Done', published)
      BY <2>2, <2>3, StaysDone
    <3>3. ASSUME Known(msgs_in, mid) PROVE IsDone(mid, Done', published)
      <4>1. published[msgs_in[f].id].mid = mid
        BY <1>5, <2>3, <3>3 DEF CopiesOf, Matches
      <4> QED  BY <1>15, <3>3, <4>1 DEF IsDone
    <3>4. (\E i \in 1..Len(msgs_in) : msgs_in[i].mid = mid) => Known(msgs_in, mid)
      BY <1>1 DEF Known, At
    <3> QED  BY <3>1, <3>2, <3>3, <3>4 DEF Arrived
  <2>9. FlowOut(toBroker', Done', msgs_in', published)
    <3>1. FlowOut(Append(toBroker, e), Done', msgs_in', published)
      BY <1>1, <1>3, <2>6, <2>8, FlowAnswered
    <3> QED  BY <1>4, <2>6, <3>1 DEF Answers
  <2>10. completed' \subseteq Done'
    BY <1>0, <1>15, <2>1 DEF Flow
  <2> QED  BY <1>0, <2>1, <2>4, <2>7, <2>9, <2>10 DEF Flow
<1>13. ASSUME setting.clean PROVE Distinct(passed', msgs_in', toClient')
  <2>1. Distinct(passed, msgs_in, toClient)
    BY <1>13 DEF IInv
  <2>2. Distinct(passed, msgs_in, toClient')
    BY <1>1, <1>2, <1>4, <2>1, DistinctTail, DistinctEmpty DEF Answers
  <2>3. Known(msgs_in, mid) =>
          /\ Distinct(passed, RemoveFrom(msgs_in, f), toClient')
          /\ Distinct(Append(passed, msgs_in[f].id), RemoveFrom(msgs_in, f), toClient')
    BY <1>1, <1>5, <2>2, DistinctReleased
  <2> QED  BY <1>0, <1>5, <1>6, <2>2, <2>3
<1> QED  BY <1>0, <1>10, <1>11, <1>12, <1>13 DEF IInv, Kept

-----------------------------------------------------------------------------
(***************************************************************************)
(* The steps of the broker.                                                *)
(***************************************************************************)
LEMMA Together ==
  ASSUME NEW c \in Seq(ClientPacket), NEW d \in Seq(ClientPacket),
         NEW p, NEW q, NEW pub
  PROVE  /\ CopiesIn(c, pub) /\ CopiesIn(d, pub) => CopiesIn(c \o d, pub)
         /\ FlowIn(c, p, q, pub) /\ FlowIn(d, p, q, pub) => FlowIn(c \o d, p, q, pub)
<1> DEFINE r == c \o d
<1>1. \A i \in 1..Len(r) :
        \/ i \in 1..Len(c) /\ r[i] = c[i]
        \/ i - Len(c) \in 1..Len(d) /\ r[i] = d[i - Len(c)]
  BY ConcatFacts
<1> HIDE DEF r
<1>2. CopiesIn(c, pub) /\ CopiesIn(d, pub) => CopiesIn(r, pub)
  BY <1>1 DEF CopiesIn
<1>3. FlowIn(c, p, q, pub) /\ FlowIn(d, p, q, pub) => FlowIn(r, p, q, pub)
  BY <1>1 DEF FlowIn
<1> QED  BY <1>2, <1>3 DEF r

\* What is delivered joins the packets on the way, or is lost.
LEMMA Delivered ==
  ASSUME IInv, NEW d \in Seq(ClientPacket), Deliver(d), CopiesIn(d, published),
         UNCHANGED <<link, passed, dropped, msgs_in, setting>>
  PROVE  /\ toClient' \in Seq(ClientPacket) /\ CopiesIn(toClient', published)
         /\ Kept /\ FlowIn(d, Done, msgs_in, published) =>
              FlowIn(toClient', Done, msgs_in, published)
<1>1. toClient \in Seq(ClientPacket) /\ CopiesIn(toClient, published)
  BY DEF IInv, Types, Copies
<1>2. toClient \o d \in Seq(ClientPacket) /\ CopiesIn(toClient \o d, published)
  BY <1>1, ConcatFacts, Together
<1>3. Kept => FlowIn(toClient, Done, msgs_in, published)
  BY DEF IInv, Flow
<1>4. Kept /\ FlowIn(d, Done, msgs_in, published) =>
        FlowIn(toClient \o d, Done, msgs_in, published)
  BY <1>1, <1>3, Together
<1> QED  BY <1>1, <1>2, <1>3, <1>4 DEF Deliver

\* What the broker sends after a CONNECT.
LEMMA Resends ==
  ASSUME NEW s \in Seq(SessionMessage), NEW p, NEW q, NEW pub, CopiesOf(s, pub)
  PROVE  LET d == <<[type |-> "CONNACK"]>> \o [i \in DOMAIN s |-> Resent(s[i])] IN
         /\ d \in Seq(ClientPacket) /\ CopiesIn(d, pub)
         /\ FlowSession(s, p, q, pub) => FlowIn(d, p, q, pub)
         /\ s = <<>> => Publishes(d) = {}
<1> DEFINE r == [i \in DOMAIN s |-> Resent(s[i])]
           a == <<[type |-> "CONNACK"]>>
           d == a \o r
<1>1. ASSUME NEW i \in 1..Len(s)
      PROVE  /\ Resent(s[i]) \in ClientPacket
             /\ Resent(s[i]).type = "PUBLISH" => Matches(Resent(s[i]), pub)
             /\ Resent(s[i]).type = "PUBREL" =>
                  s[i].state = "wait_for_pubcomp" /\ Resent(s[i]).mid = s[i].mid
  <2>1. s[i] \in SessionMessage /\ Matches(s[i], pub)
    BY DEF CopiesOf
  <2>2. CASE s[i].state = "wait_for_pubcomp"
    BY <2>1, <2>2 DEF Resent, Packet, SessionMessage, ClientPacket
  <2>3. CASE s[i].state # "wait_for_pubcomp"
    BY <2>1, <2>3 DEF Resent, PublishPacket, SessionMessage, ClientPacket, Matches
  <2> QED  BY <2>2, <2>3
<1>2. DOMAIN s = 1..Len(s) /\ Len(s) \in Nat
  OBVIOUS
<1>3. r \in Seq(ClientPacket) /\ Len(r) = Len(s) /\ \A i \in 1..Len(s) : r[i] = Resent(s[i])
  BY <1>1, <1>2
<1>4. a \in Seq(ClientPacket) /\ Len(a) = 1 /\ a[1].type = "CONNACK"
  <2>1. [type |-> "CONNACK"] \in ClientPacket
    BY DEF ClientPacket
  <2> QED  BY <2>1
<1> HIDE DEF r, a
<1>5. /\ d \in Seq(ClientPacket)
      /\ \A i \in 1..Len(d) :
           \/ i \in 1..Len(a) /\ d[i] = a[i]
           \/ i - Len(a) \in 1..Len(r) /\ d[i] = r[i - Len(a)]
  <2>1. a \in Seq(ClientPacket) /\ r \in Seq(ClientPacket)
    BY <1>3, <1>4
  <2> QED  BY ONLY <2>1, ConcatFacts DEF d
<1>6. \A i \in 1..Len(d) :
        \/ d[i].type = "CONNACK"
        \/ \E k \in 1..Len(s) : d[i] = Resent(s[k])
  <2>1. ASSUME NEW i \in 1..Len(a) PROVE a[i].type = "CONNACK"
    BY <1>4
  <2> QED  BY <1>3, <1>5, <2>1
<1> HIDE DEF d
<1>7. CopiesIn(d, pub)
  BY <1>1, <1>6 DEF CopiesIn
<1>8. FlowSession(s, p, q, pub) => FlowIn(d, p, q, pub)
  BY <1>1, <1>6 DEF FlowSession, FlowIn
<1>9. s = <<>> => Publishes(d) = {}
  BY <1>6 DEF Publishes
<1> QED  BY <1>5, <1>7, <1>8, <1>9 DEF d, r, a

LEMMA ConnectStep ==
  ASSUME IInv, BrokerConnect, UNCHANGED setting
  PROVE  IInv'
<1> DEFINE s == IF setting.clean THEN <<>> ELSE session
           d == <<[type |-> "CONNACK"]>> \o [i \in DOMAIN s |-> Resent(s[i])]
<1>1. /\ session' = s /\ Deliver(d) /\ toBroker # <<>> /\ toBroker' = Tail(toBroker)
      /\ accepted' = TRUE
      /\ UNCHANGED <<state, link, msgs_in, passed, dropped, published, completed, faults, setting>>
  BY DEF BrokerConnect, Receive, clientVars
<1>2. session \in Seq(SessionMessage) /\ toBroker \in Seq(BrokerPacket)
      /\ toClient \in Seq(ClientPacket)
  BY DEF IInv, Types
<1>3. Tail(toBroker) \in Seq(BrokerPacket) /\ Fewer(Tail(toBroker), toBroker)
  BY <1>1, <1>2, TailFacts, TailFewer
<1>4. s \in Seq(SessionMessage) /\ Fewer(s, session) /\ CopiesOf(s, published)
  <2>1. <<>> \in Seq(SessionMessage) /\ Fewer(<<>>, session) /\ CopiesOf(<<>>, published)
    BY DEF Fewer, CopiesOf
  <2>2. Fewer(session, session)
    BY Zenon DEF Fewer
  <2>3. CopiesOf(session, published)
    BY DEF IInv, Copies
  <2> QED  BY <1>2, <2>1, <2>2, <2>3
<1> HIDE DEF s
<1>5. /\ d \in Seq(ClientPacket) /\ CopiesIn(d, published)
      /\ FlowSession(s, Done, msgs_in, published) => FlowIn(d, Done, msgs_in, published)
      /\ s = <<>> => Publishes(d) = {}
  BY <1>4, Resends
<1> HIDE DEF d
<1>6. /\ toClient' \in Seq(ClientPacket) /\ CopiesIn(toClient', published)
      /\ Kept /\ FlowIn(d, Done, msgs_in, published) =>
           FlowIn(toClient', Done, msgs_in, published)
  BY <1>1, <1>5, Delivered
<1>7. Types'
  BY <1>1, <1>3, <1>4, <1>6 DEF IInv, Types, TypeOK
<1>8. Copies'
  BY <1>1, <1>4, <1>6 DEF IInv, Copies
<1>9. ASSUME Kept PROVE Flow'
  <2>1. Flow
    BY <1>9 DEF IInv
  <2>2. Remembers(Done, msgs_in, published, Done, msgs_in, published)
    BY Unchanged
  <2>3. Done \subseteq 1..Len(published) /\ CopiesOf(msgs_in, published)
    BY DoneKnown DEF IInv
  <2>0. Done' = Done
    BY <1>1 DEF Done
  <2>4. FlowSession(s, Done, msgs_in, published)
    BY <1>4, <2>1, <2>2, <2>3, FlowKept DEF Flow
  <2>5. FlowOut(toBroker', Done, msgs_in, published)
    BY <1>1, <1>3, <2>1, <2>2, <2>3, FlowKept DEF Flow
  <2> QED  BY <1>1, <1>5, <1>6, <1>9, <2>0, <2>1, <2>4, <2>5 DEF Flow
<1>10. ASSUME setting.clean PROVE Distinct(passed, msgs_in, toClient')
  <2>1. Publishes(d) = {}
    BY <1>5, <1>10 DEF s
  <2>2. Distinct(passed, msgs_in, toClient)
    BY <1>10 DEF IInv
  <2>3. Distinct(passed, msgs_in, toClient \o d)
    BY <1>2, <1>5, <2>1, <2>2, DistinctSent
  <2> QED  BY <1>1, <2>2, <2>3 DEF Deliver
<1> QED  BY <1>1, <1>7, <1>8, <1>9, <1>10 DEF IInv, Kept

LEMMA CompleteStep ==
  ASSUME IInv, BrokerComplete, UNCHANGED setting
  PROVE  IInv'
<1> DEFINE mid == Head(toBroker).mid
<1>1. /\ toBroker # <<>> /\ Head(toBroker).type \in {"PUBACK", "PUBCOMP"}
      /\ toBroker' = Tail(toBroker)
      /\ session' = MessageRemove(session, mid)
      /\ completed' = completed \cup {session[i].id : i \in At(session, mid)}
      /\ UNCHANGED <<state, link, msgs_in, passed, dropped, toClient, accepted, published, faults, setting>>
  BY DEF BrokerComplete, Receive, clientVars
<1>2. session \in Seq(SessionMessage) /\ toBroker \in Seq(BrokerPacket)
      /\ passed \in Seq(1..MaxMessages) /\ Len(published) <= MaxMessages
      /\ published \in Seq([qos : {0, 1, 2}, mid : 1..MaxMid])
  BY DEF IInv, Types, TypeOK
<1>3. Tail(toBroker) \in Seq(BrokerPacket) /\ Fewer(Tail(toBroker), toBroker)
      /\ Head(toBroker) = toBroker[1] /\ 1 \in 1..Len(toBroker)
  BY <1>1, <1>2, TailFacts, TailFewer
<1> HIDE DEF mid
<1>4. session' \in Seq(SessionMessage) /\ Fewer(session', session)
  <2>1. CASE Known(session, mid)
    <3> DEFINE f == FirstAt(session, mid)
    <3>1. f \in 1..Len(session) /\ session' = RemoveFrom(session, f)
      BY <1>1, <1>2, <2>1, FirstAtIs DEF MessageRemove
    <3> HIDE DEF f
    <3>2. /\ session' \in Seq(SessionMessage) /\ Len(session') = Len(session) - 1
          /\ \A i \in 1..(Len(session) - 1) :
               session'[i] = IF i < f THEN session[i] ELSE session[i + 1]
      <4>1. /\ RemoveFrom(session, f) \in Seq(SessionMessage)
            /\ Len(RemoveFrom(session, f)) = Len(session) - 1
            /\ \A i \in 1..(Len(session) - 1) :
                 RemoveFrom(session, f)[i] = IF i < f THEN session[i] ELSE session[i + 1]
        <5>1. session \in Seq(SessionMessage) /\ f \in 1..Len(session)
          BY <1>2, <3>1
        <5> QED  BY ONLY <5>1, RemoveIs
      <4> QED  BY <3>1, <4>1
    <3>3. Len(session) \in Nat
      BY <1>2
    <3>4. ASSUME NEW i \in 1..Len(session') PROVE \E k \in 1..Len(session) : session'[i] = session[k]
      <4>1. i \in 1..Len(session) /\ i + 1 \in 1..Len(session)
        BY <3>2, <3>3
      <4> QED  BY <3>2, <3>3, <4>1
    <3> QED  BY <3>2, <3>4 DEF Fewer
  <2>2. CASE ~Known(session, mid)
    <3>1. Fewer(session, session)
      BY Zenon DEF Fewer
    <3> QED  BY <1>1, <1>2, <2>2, <3>1 DEF MessageRemove
  <2> QED  BY <2>1, <2>2
<1>5. ASSUME NEW i \in At(session, mid)
      PROVE  i \in 1..Len(session) /\ session[i].mid = mid
             /\ session[i].id \in 1..MaxMessages /\ Matches(session[i], published)
  <2>1. i \in 1..Len(session) /\ session[i].mid = mid
    BY <1>2 DEF At
  <2>2. session[i] \in SessionMessage /\ Matches(session[i], published)
    BY <1>2, <2>1 DEF IInv, Copies, CopiesOf
  <2> QED  BY <2>1, <2>2 DEF SessionMessage
<1>6. completed' \subseteq 1..MaxMessages
  BY <1>1, <1>5 DEF IInv, Types, TypeOK
<1>7. Types'
  BY <1>1, <1>3, <1>4, <1>6 DEF IInv, Types, TypeOK
<1>8. Copies'
  BY <1>1, <1>4, CopiesKept DEF IInv, Copies
<1>9. ASSUME Kept PROVE Flow'
  <2>1. Flow
    BY <1>9 DEF IInv
  <2>2. Remembers(Done, msgs_in, published, Done, msgs_in, published)
    BY Unchanged
  <2>3. Done \subseteq 1..Len(published) /\ CopiesOf(msgs_in, published)
    BY DoneKnown DEF IInv
  <2>0. Done' = Done
    BY <1>1 DEF Done
  <2>4. FlowSession(session', Done, msgs_in, published)
    BY <1>4, <2>1, <2>2, <2>3, FlowKept DEF Flow
  <2>5. FlowOut(toBroker', Done, msgs_in, published)
    BY <1>1, <1>3, <2>1, <2>2, <2>3, FlowKept DEF Flow
  <2>6. IsDone(mid, Done, published)
    BY <1>1, <1>3, <2>1 DEF Flow, FlowOut, mid
  <2>7. ASSUME NEW i \in At(session, mid) PROVE session[i].id \in Done
    <3>1. PICK id \in Done : published[id].mid = mid
      BY <2>6 DEF IsDone
    <3>2. id \in 1..Len(published) /\ session[i].id \in 1..Len(published)
          /\ published[session[i].id].mid = mid
      BY <1>5, <2>3, <3>1 DEF Matches
    <3>3. id = session[i].id
      BY <2>1, <3>1, <3>2 DEF Flow, FlowIds
    <3> QED  BY <3>3
  <2>8. completed' \subseteq Done
    BY <1>1, <2>1, <2>7 DEF Flow
  <2> QED  BY <1>1, <2>0, <2>1, <2>4, <2>5, <2>8 DEF Flow
<1> QED  BY <1>1, <1>7, <1>8, <1>9 DEF IInv, Kept

LEMMA PubrecStep ==
  ASSUME IInv, BrokerPubrec, UNCHANGED setting
  PROVE  IInv'
<1> DEFINE mid == Head(toBroker).mid
           d == <<Packet("PUBREL", mid)>>
<1>1. /\ toBroker # <<>> /\ Head(toBroker).type = "PUBREC"
      /\ toBroker' = Tail(toBroker) /\ Deliver(d)
      /\ session' = [i \in DOMAIN session |->
                       IF session[i].mid = mid
                       THEN [session[i] EXCEPT !.state = "wait_for_pubcomp"]
                       ELSE session[i]]
      /\ UNCHANGED <<state, link, msgs_in, passed, dropped, accepted, published, completed, faults, setting>>
  BY DEF BrokerPubrec, Receive, clientVars
<1>2. session \in Seq(SessionMessage) /\ toBroker \in Seq(BrokerPacket)
      /\ toClient \in Seq(ClientPacket)
  BY DEF IInv, Types
<1>3. /\ Tail(toBroker) \in Seq(BrokerPacket) /\ Fewer(Tail(toBroker), toBroker)
      /\ Head(toBroker) = toBroker[1] /\ 1 \in 1..Len(toBroker) /\ Head(toBroker) \in BrokerPacket
  BY <1>1, <1>2, TailFacts, TailFewer
<1>4. Packet("PUBREL", mid) \in ClientPacket
  BY <1>1, <1>3 DEF Packet, ClientPacket, BrokerPacket
<1>5. d \in Seq(ClientPacket) /\ Len(d) = 1 /\ d[1].type = "PUBREL" /\ d[1].mid = mid
  BY <1>4 DEF Packet
<1> HIDE DEF mid, d
<1>6. CopiesIn(d, published) /\ Publishes(d) = {}
  BY <1>5 DEF CopiesIn, Publishes
<1>7. /\ toClient' \in Seq(ClientPacket) /\ CopiesIn(toClient', published)
      /\ Kept /\ FlowIn(d, Done, msgs_in, published) =>
           FlowIn(toClient', Done, msgs_in, published)
  BY <1>1, <1>5, <1>6, Delivered
<1>8. ASSUME NEW i \in 1..Len(session)
      PROVE  /\ session'[i] \in SessionMessage
             /\ session'[i].id = session[i].id /\ session'[i].mid = session[i].mid
             /\ session'[i].qos = session[i].qos
             /\ session'[i] = session[i] \/ session[i].mid = mid
  <2>1. session[i] \in SessionMessage
    BY <1>2
  <2>2. session'[i] = IF session[i].mid = mid
                      THEN [session[i] EXCEPT !.state = "wait_for_pubcomp"]
                      ELSE session[i]
    <3> DEFINE g(k) == IF session[k].mid = mid
                       THEN [session[k] EXCEPT !.state = "wait_for_pubcomp"]
                       ELSE session[k]
    <3>1. session' = [k \in 1..Len(session) |-> g(k)]
      BY <1>1, <1>2
    <3> HIDE DEF g
    <3>2. session'[i] = g(i)
      BY <3>1
    <3> QED  BY <3>2 DEF g
  <2>3. CASE session[i].mid = mid
    BY <2>1, <2>2, <2>3 DEF SessionMessage
  <2>4. CASE session[i].mid # mid
    BY <2>1, <2>2, <2>4
  <2> QED  BY <2>3, <2>4
<1>9. session' \in Seq(SessionMessage) /\ Len(session') = Len(session)
  <2>1. DOMAIN session = 1..Len(session) /\ Len(session) \in Nat
    BY <1>2
  <2>2. DOMAIN session' = 1..Len(session)
    BY <1>1, <2>1
  <2>3. session' = [i \in 1..Len(session) |-> session'[i]]
    BY <1>1, <2>1
  <2>4. [i \in 1..Len(session) |-> session'[i]] \in Seq(SessionMessage)
    BY ONLY <1>8, <2>1
  <2>5. Len([i \in 1..Len(session) |-> session'[i]]) = Len(session)
    BY ONLY <2>1
  <2> QED  BY <2>3, <2>4, <2>5
<1>10. Types'
  BY <1>1, <1>3, <1>7, <1>9 DEF IInv, Types, TypeOK
<1>11. Copies'
  <2>1. CopiesOf(session', published)
    BY <1>8, <1>9 DEF IInv, Copies, CopiesOf, Matches
  <2> QED  BY <1>1, <1>7, <2>1 DEF IInv, Copies
<1>12. ASSUME Kept PROVE Flow'
  <2>1. Flow
    BY <1>12 DEF IInv
  <2>2. Remembers(Done, msgs_in, published, Done, msgs_in, published)
    BY Unchanged
  <2>3. Done \subseteq 1..Len(published) /\ CopiesOf(msgs_in, published)
    BY DoneKnown DEF IInv
  <2>0. Done' = Done
    BY <1>1 DEF Done
  <2>4. FlowOut(toBroker', Done, msgs_in, published)
    BY <1>1, <1>3, <2>1, <2>2, <2>3, FlowKept DEF Flow
  <2>5. Arrived(mid, Done, msgs_in, published)
    BY <1>1, <1>3, <2>1 DEF Flow, FlowOut, mid
  <2>6. FlowIn(d, Done, msgs_in, published)
    BY <1>5, <2>5 DEF FlowIn
  <2>7. FlowSession(session', Done, msgs_in, published)
    <3>1. ASSUME NEW i \in 1..Len(session'), session'[i].state = "wait_for_pubcomp"
          PROVE  Arrived(session'[i].mid, Done, msgs_in, published)
      <4>1. i \in 1..Len(session)
        BY <1>9
      <4>2. CASE session[i].mid = mid
        BY <1>8, <2>5, <4>1, <4>2
      <4>3. CASE session'[i] = session[i]
        BY <2>1, <3>1, <4>1, <4>3 DEF Flow, FlowSession
      <4> QED  BY <1>8, <4>1, <4>2, <4>3
    <3> QED  BY <3>1 DEF FlowSession
  <2> QED  BY <1>1, <1>7, <1>12, <2>0, <2>1, <2>4, <2>6, <2>7 DEF Flow
<1>13. ASSUME setting.clean PROVE Distinct(passed, msgs_in, toClient')
  <2>1. Distinct(passed, msgs_in, toClient)
    BY <1>13 DEF IInv
  <2>2. Distinct(passed, msgs_in, toClient \o d)
    BY <1>2, <1>5, <1>6, <2>1, DistinctSent
  <2> QED  BY <1>1, <2>1, <2>2 DEF Deliver
<1> QED  BY <1>1, <1>10, <1>11, <1>12, <1>13 DEF IInv, Kept

\* A new message has an id that nothing has.
LEMMA PublishStep ==
  ASSUME IInv, NEW qos \in QosLevels, NEW mid \in 1..MaxMid, BrokerPublish(qos, mid),
         UNCHANGED setting
  PROVE  IInv'
<1> DEFINE n == Len(published) + 1
           m == [id |-> n, mid |-> mid, qos |-> qos,
                 state |-> IF qos = 1 THEN "wait_for_puback" ELSE "wait_for_pubrec"]
           d == <<PublishPacket(m)>>
           e == [qos |-> qos, mid |-> mid]
<1>1. /\ Len(published) < MaxMessages
      /\ setting.idsReused \/ ~Known(published, mid)
      /\ session' = IF qos = 0 THEN session ELSE Append(session, m)
      /\ Deliver(d) /\ published' = Append(published, e)
      /\ UNCHANGED <<state, link, msgs_in, passed, dropped, toBroker, accepted, completed, faults, setting>>
  BY DEF BrokerPublish, clientVars
<1>2. /\ session \in Seq(SessionMessage) /\ toClient \in Seq(ClientPacket)
      /\ published \in Seq([qos : {0, 1, 2}, mid : 1..MaxMid])
  BY DEF IInv, Types
<1>3. n \in 1..MaxMessages /\ qos \in {0, 1, 2} /\ e \in [qos : {0, 1, 2}, mid : 1..MaxMid]
  BY <1>1, <1>2, QosLevelsAssumption, BoundsAssumption
<1>4. d \in Seq(ClientPacket) /\ Len(d) = 1
      /\ d[1].type = "PUBLISH" /\ d[1].id = n /\ d[1].mid = mid /\ d[1].qos = qos
  <2>1. PublishPacket(m) \in ClientPacket
    BY <1>3 DEF PublishPacket, ClientPacket
  <2> QED  BY <2>1 DEF PublishPacket
<1>5. qos # 0 => m \in SessionMessage
  BY <1>3 DEF SessionMessage
<1>6. m.id = n /\ m.mid = mid /\ m.qos = qos /\ m.state # "wait_for_pubcomp"
      /\ e.mid = mid /\ e.qos = qos
  OBVIOUS
<1>7. n = Len(published) + 1 /\ Len(published) \in Nat
  BY <1>2
<1> HIDE DEF n, m, d, e
<1>8. /\ published' \in Seq([qos : {0, 1, 2}, mid : 1..MaxMid])
      /\ Len(published') = n /\ published'[n] = e /\ n \in 1..Len(published')
      /\ \A i \in 1..Len(published) :
           i \in 1..Len(published') /\ published'[i] = published[i]
      /\ \A i \in 1..Len(published') : i \in 1..Len(published) \/ i = n
  BY <1>1, <1>2, <1>3, <1>7, AppendFacts
<1>9. /\ session' \in Seq(SessionMessage)
      /\ \A i \in 1..Len(session') :
           (i \in 1..Len(session) /\ session'[i] = session[i]) \/ session'[i] = m
  <2>1. CASE qos = 0
    BY <1>1, <1>2, <2>1
  <2>2. CASE qos # 0
    BY <1>1, <1>2, <1>5, <2>2, AppendFacts
  <2> QED  BY <2>1, <2>2
<1>10. toClient' \in Seq(ClientPacket)
       /\ ((toClient' = toClient \o d /\ link = "up") \/ toClient' = toClient)
  BY <1>1, <1>2, <1>4, ConcatFacts DEF Deliver
<1>11. Len(published') <= MaxMessages
  BY <1>3, <1>8
<1>12. Types'
  BY <1>1, <1>8, <1>9, <1>10, <1>11 DEF IInv, Types, TypeOK
<1>13. /\ CopiesIn(toClient, published') /\ CopiesOf(session, published')
       /\ CopiesOf(msgs_in, published') /\ IdsOf(passed, published')
       /\ dropped \subseteq 1..Len(published')
  <2>1. Fewer(toClient, toClient) /\ Fewer(session, session) /\ Fewer(msgs_in, msgs_in)
    BY Zenon DEF Fewer
  <2> QED  BY <1>8, <2>1, CopiesKept DEF IInv, Copies
<1>14. Copies'
  <2>1. CopiesIn(d, published')
    BY <1>4, <1>6, <1>8 DEF CopiesIn, Matches
  <2>2. CopiesIn(toClient', published')
    BY <1>2, <1>4, <1>10, <1>13, <2>1, Together
  <2>3. Matches(m, published')
    BY <1>6, <1>8 DEF Matches
  <2>4. CopiesOf(session', published')
    BY <1>9, <1>13, <2>3 DEF CopiesOf
  <2> QED  BY <1>1, <1>13, <2>2, <2>4 DEF Copies
<1>15. ASSUME Kept PROVE Flow'
  <2>1. Flow
    BY <1>15 DEF IInv
  <2>2. Remembers(Done, msgs_in, published, Done, msgs_in, published')
    <3>1. Remembers(Done, msgs_in, published, Done, msgs_in, published)
      BY Unchanged
    <3> QED  BY <1>8, <3>1 DEF Remembers
  <2>3. Done \subseteq 1..Len(published) /\ CopiesOf(msgs_in, published)
    BY DoneKnown DEF IInv
  <2>0. Done' = Done
    BY <1>1 DEF Done
  <2>4. Fewer(toClient, toClient) /\ Fewer(session, session) /\ Fewer(toBroker, toBroker)
    BY Zenon DEF Fewer
  <2>5. FlowIn(toClient, Done, msgs_in, published')
    BY <2>1, <2>2, <2>3, <2>4, FlowKept DEF Flow
  <2>6. FlowOut(toBroker, Done, msgs_in, published')
    BY <2>1, <2>2, <2>3, <2>4, FlowKept DEF Flow
  <2>7. FlowSession(session, Done, msgs_in, published')
    BY <2>1, <2>2, <2>3, <2>4, FlowKept DEF Flow
  <2>8. FlowIn(toClient', Done, msgs_in, published')
    <3>1. FlowIn(d, Done, msgs_in, published')
      BY <1>4 DEF FlowIn
    <3> QED  BY <1>2, <1>4, <1>10, <2>5, <3>1, Together
  <2>9. FlowSession(session', Done, msgs_in, published')
    BY <1>6, <1>9, <2>7 DEF FlowSession
  <2>10. FlowIds(published')
    <3>1. \A i \in 1..Len(published) : published[i].mid # mid
      BY <1>1, <1>2, <1>15 DEF Kept, Known, At
    <3> QED  BY <1>6, <1>8, <2>1, <3>1 DEF Flow, FlowIds
  <2> QED  BY <1>1, <2>0, <2>1, <2>6, <2>8, <2>9, <2>10 DEF Flow
<1>16. ASSUME setting.clean PROVE Distinct(passed, msgs_in, toClient')
  <2>1. Distinct(passed, msgs_in, toClient)
    BY <1>16 DEF IInv
  <2>2. \A k \in 1..Len(published) : k # n
    BY <1>7
  <2>3. /\ \A j \in 1..Len(passed) : passed[j] # n
        /\ \A j \in 1..Len(msgs_in) : msgs_in[j].id # n
        /\ \A j \in Publishes(toClient) : toClient[j].id # n
    BY <2>2 DEF IInv, Copies, IdsOf, CopiesOf, CopiesIn, Matches, Publishes
  <2>4. /\ \A i \in Publishes(d) : d[i].id = n
        /\ \A i, j \in Publishes(d) : i = j
    BY <1>4 DEF Publishes
  <2>5. Distinct(passed, msgs_in, toClient \o d)
    BY <1>2, <1>4, <2>1, <2>3, <2>4, DistinctSent
  <2> QED  BY <1>10, <2>1, <2>5
<1> QED  BY <1>1, <1>12, <1>14, <1>15, <1>16 DEF IInv, Kept

-----------------------------------------------------------------------------
(***************************************************************************)
(* The theorems.                                                           *)
(***************************************************************************)
LEMMA Inductive == IInv /\ [Next]_vars => IInv'
<1> SUFFICES ASSUME IInv, [Next]_vars PROVE IInv'
  OBVIOUS
<1>1. CASE UNCHANGED vars
  BY <1>1 DEF vars, IInv, Types, TypeOK, Copies, Kept, Flow, Done
<1>2. ASSUME UNCHANGED setting, NEW qos \in QosLevels, NEW mid \in 1..MaxMid,
             BrokerPublish(qos, mid)
      PROVE  IInv'
  BY <1>2, PublishStep
<1>3. ASSUME UNCHANGED setting, HandlePacket \/ BrokerAnswer PROVE IInv'
  BY <1>3, LossStep, PublishQos0Step, PublishQos1Step, PublishQos2Step, PubrelStep,
     ConnectStep, CompleteStep, PubrecStep DEF HandlePacket, BrokerAnswer
<1>4. ASSUME UNCHANGED setting, DetectLoss \/ Reconnect \/ Disconnect \/ BreakLink \/ Quiescent
      PROVE  IInv'
  BY <1>4, LossStep
<1> QED  BY <1>1, <1>2, <1>3, <1>4 DEF Next

\* The invariant holds in every reachable state.
LEMMA Invariant == Spec => []IInv
<1>1. IInv /\ [Next]_vars => IInv'
  BY Inductive
<1> QED  BY <1>1, InitIInv, PTL DEF Spec

\* The variables of the client and the broker keep their types, the list of
\* incoming messages and the list of what on_message was called with among them.
THEOREM TypeCorrect == Spec => []TypeOK
<1>1. IInv => TypeOK
  BY DEF IInv, Types
<1> QED  BY <1>1, Invariant, PTL

\* With the clean sessions that the wrapper asks for, on_message is called at
\* most once for a message: wherever connections break, whatever is still read
\* after that, and whether the broker uses message ids again or not.
THEOREM RepeatsNothing == Spec => []CleanRepeatsNothing
<1>1. IInv => CleanRepeatsNothing
  <2>1. IInv => DOMAIN passed = 1..Len(passed)
    BY DEF IInv, Types, TypeOK
  <2> QED  BY <2>1 DEF IInv, Distinct, CleanRepeatsNothing, AtMostOnce
<1> QED  BY <1>1, Invariant, PTL

\* In a session that is kept, by a broker that uses no message id again, the broker
\* forgets a message only when on_message has been called with it, or when its PUBCOMP
\* could not be written and the client dropped it: whatever else is lost, fails, is
\* read late or comes again.
THEOREM LosesNothing == Spec => []SessionLosesNothing
<1>1. IInv => SessionLosesNothing
  <2> SUFFICES ASSUME IInv, Kept, NEW id \in completed
               PROVE  WasPassed(id) \/ id \in dropped
    BY DEF SessionLosesNothing, Kept
  <2>1. id \in Done
    BY DEF IInv, Flow
  <2>2. DOMAIN passed = 1..Len(passed)
    BY DEF IInv, Types, TypeOK
  <2> QED  BY <2>1, <2>2 DEF Done, WasPassed
<1> QED  BY <1>1, Invariant, PTL

===============================================================================
