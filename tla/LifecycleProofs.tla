--------------------------- MODULE LifecycleProofs ---------------------------
(***************************************************************************)
(* Proofs about Lifecycle: a connection that is lost is reported once,     *)
(* whatever the callbacks do and however many packets are read at a time,  *)
(* and connected() is right if nobody calls connect() on a connection that *)
(* is up.  Both invariants only need to know which fields the record has,  *)
(* so that strengthening gives no types.  The order of the packets on the  *)
(* wire needs them: a second invariant, Orderly, gives the types and what  *)
(* was written.                                                            *)
(***************************************************************************)
EXTENDS Lifecycle, MessageListProofs

Fields == {"state", "sock", "hasHost", "out", "ping", "waiting", "resend", "reads",
           "alive", "toClient", "toBroker", "sent", "accepted", "asked", "ended",
           "told", "wrong", "calls", "faults"}

IsClient(k) == DOMAIN k = Fields

-----------------------------------------------------------------------------
(***************************************************************************)
(* What the operators do to the fields the two invariants are about.       *)
(***************************************************************************)
\* Nothing happened to the connection that anyone is told of.
Same(n, k) ==
  /\ n.sock = k.sock /\ n.alive = k.alive /\ n.accepted = k.accepted
  /\ n.ended = k.ended /\ n.told = k.told /\ n.wrong = k.wrong /\ n.reads = k.reads

\* connect() was called: a new connection that nobody was told of, or none.
Anew(n, k) ==
  /\ n.alive = k.alive /\ n.wrong = k.wrong /\ n.reads = k.reads
  /\ \/ n.sock = "open" /\ n.told = FALSE
     \/ n.sock = "none" /\ n.told = k.told /\ n.ended = k.ended

\* on_disconnect was called: for a loss a second time only if k was told and not
\* ended.
Reported(n, k) ==
  /\ ~n.alive /\ n.reads = k.reads
  /\ n.told => n.sock = "none" /\ n.ended = k.ended
  /\ \/ "lost_twice" \notin n.wrong
     \/ "lost_twice" \in k.wrong
     \/ k.told /\ ~k.ended

\* The DISCONNECT was written and on_disconnect called for it.
Left(n, k) ==
  /\ k.sock # "none" /\ ~n.alive /\ n.reads = k.reads
  /\ n.told => n.sock = "none" /\ n.ended
  /\ "lost_twice" \notin k.wrong => "lost_twice" \notin n.wrong

\* Close takes the socket away and no promise with it.
LEMMA CloseFacts ==
  ASSUME NEW k, IsClient(k), NEW n, n = Close(k)
  PROVE  /\ IsClient(n) /\ n.sock = "none"
         /\ n.alive = k.alive /\ n.accepted = k.accepted /\ n.ended = k.ended
         /\ n.told = k.told /\ n.wrong = k.wrong /\ n.reads = k.reads
BY DEF IsClient, Fields, Close

\* mosquitto__reconnect leaves alive alone, forgets that the broker accepted,
\* and on_disconnect is owed again only for a socket that was opened.
LEMMA ReconnectFacts ==
  ASSUME NEW k, IsClient(k), NEW o \in Outcomes, NEW n, n = Reconnect(k, o)
  PROVE  IsClient(n) /\ Anew(n, k)
<1> DEFINE m == Close(k)
<1>1. /\ IsClient(m) /\ m.sock = "none" /\ m.alive = k.alive /\ m.ended = k.ended
      /\ m.told = k.told /\ m.wrong = k.wrong /\ m.reads = k.reads
  BY CloseFacts
<1>2. CASE o = "established"
  <2>1. n = [m EXCEPT !.state = "connected", !.sock = "open", !.ping = FALSE,
                      !.out = <<>>, !.toBroker = <<"CONNECT">>, !.sent = <<"CONNECT">>,
                      !.resend = k.waiting,
                      !.accepted = FALSE, !.ended = FALSE, !.told = FALSE]
    BY <1>2 DEF Reconnect
  <2> HIDE DEF m
  <2> QED  BY <1>1, <2>1 DEF IsClient, Fields, Anew
<1>3. CASE o # "established"
  <2>1. n = [m EXCEPT !.state = IF o = "tcp_refused" THEN "connect_pending" ELSE "new",
                      !.out = <<>>, !.ping = FALSE, !.resend = k.waiting,
                      !.accepted = FALSE, !.faults = @ + 1]
    BY <1>3 DEF Reconnect
  <2> HIDE DEF m
  <2> QED  BY <1>1, <2>1 DEF IsClient, Fields, Anew
<1> QED  BY <1>2, <1>3

\* The same of ofxMQTT::connect.
LEMMA ConnectFacts ==
  ASSUME NEW k, IsClient(k), NEW o \in Outcomes, NEW n, n = Connect(k, o)
  PROVE  IsClient(n) /\ Anew(n, k)
<1> DEFINE e == [k EXCEPT !.waiting = 0]
           m == Reconnect(e, o)
<1>1. IsClient(e) /\ Same(e, k)
  BY DEF IsClient, Fields, Same
<1>2. IsClient(m) /\ Anew(m, e)
  <2> HIDE DEF e
  <2> QED  BY <1>1, ReconnectFacts
<1>3. n = [m EXCEPT !.hasHost = TRUE, !.calls = @ + 1]
  BY DEF Connect
<1> HIDE DEF m, e
<1>4. IsClient(n) /\ Same(n, m)
  BY <1>2, <1>3 DEF IsClient, Fields, Same
<1> QED  BY <1>1, <1>2, <1>4 DEF Same, Anew

\* disconnect() in a callback changes neither the socket nor a promise.
LEMMA QueueDisconnectFacts ==
  ASSUME NEW k, IsClient(k), NEW n, n = QueueDisconnect(k)
  PROVE  IsClient(n) /\ Same(n, k)
BY DEF IsClient, Fields, QueueDisconnect, Same

\* A callback either leaves all of it alone or calls connect().
LEMMA ReactFacts ==
  ASSUME NEW k, IsClient(k), NEW r \in Reactions, NEW n, n = React(k, r)
  PROVE  IsClient(n) /\ (Same(n, k) \/ (r \in Outcomes /\ Anew(n, k)))
<1>1. CASE r = "none"
  BY <1>1 DEF React, Outcomes, Same
<1>2. CASE r = "disconnect"
  <2>1. n = QueueDisconnect(k)  BY <1>2 DEF React, Outcomes
  <2> QED  BY <2>1, QueueDisconnectFacts
<1>3. CASE r \in Outcomes
  <2>1. n = Connect(k, r)  BY <1>3 DEF React, Outcomes
  <2> QED  BY <1>3, <2>1, ConnectFacts
<1> QED  BY <1>1, <1>2, <1>3 DEF Reactions

\* on_disconnect leaves a client that is not alive, and reports a loss a second
\* time only if it was called before and no DISCONNECT was written.
LEMMA OnDisconnectFacts ==
  ASSUME NEW k, IsClient(k), NEW rc, NEW r \in Reactions,
         NEW n, n = OnDisconnect(k, rc, r)
  PROVE  IsClient(n) /\ Reported(n, k)
<1> DEFINE reason == Note(k, "reason", rc # "success" /\ k.asked)
           twice == Note(reason, "twice", k.told)
           lost == Note(twice, "lost_twice", k.told /\ ~k.ended)
           closed == Close(lost)
           m == [closed EXCEPT !.alive = FALSE, !.told = TRUE]
<1>1. /\ IsClient(reason) /\ reason.reads = k.reads /\ reason.ended = k.ended
      /\ "lost_twice" \notin k.wrong => "lost_twice" \notin reason.wrong
  BY DEF Note, IsClient, Fields
<1>2. /\ IsClient(twice) /\ twice.reads = k.reads /\ twice.ended = k.ended
      /\ "lost_twice" \notin k.wrong => "lost_twice" \notin twice.wrong
  <2> HIDE DEF reason
  <2> QED  BY <1>1 DEF Note, IsClient, Fields
<1>3. /\ IsClient(lost) /\ lost.reads = k.reads /\ lost.ended = k.ended
      /\ (k.told => k.ended) /\ "lost_twice" \notin k.wrong =>
           "lost_twice" \notin lost.wrong
  <2> HIDE DEF twice
  <2> QED  BY <1>2 DEF Note, IsClient, Fields
<1>4. /\ IsClient(closed) /\ closed.sock = "none" /\ closed.wrong = lost.wrong
      /\ closed.reads = lost.reads /\ closed.ended = lost.ended
  <2> HIDE DEF lost
  <2> QED  BY <1>3, CloseFacts
<1>5. /\ IsClient(m) /\ m.sock = "none" /\ m.alive = FALSE /\ m.told = TRUE
      /\ m.wrong = lost.wrong /\ m.reads = lost.reads /\ m.ended = lost.ended
  <2> HIDE DEF closed, lost
  <2> QED  BY <1>4 DEF IsClient, Fields
<1>6. n = React(m, r)
  BY DEF OnDisconnect
<1> HIDE DEF reason, twice, lost, closed, m
<1>7. IsClient(n) /\ (Same(n, m) \/ Anew(n, m))
  BY <1>5, <1>6, ReactFacts
<1> QED  BY <1>3, <1>5, <1>7 DEF Same, Anew, Reported

\* Writing changes none of this; a DISCONNECT written ends in on_disconnect.
LEMMA PacketWriteFacts ==
  ASSUME NEW k, IsClient(k), NEW r \in Reactions, NEW n, n = PacketWrite(k, r)
  PROVE  IsClient(n) /\ (Same(n, k) \/ Left(n, k))
<1> DEFINE t == Transmit(k)
           m == [t EXCEPT !.state = "disconnected", !.ended = TRUE]
<1>1. IsClient(t) /\ Same(t, k)
  BY DEF Transmit, IsClient, Fields, Same
<1>2. CASE n = k
  BY <1>2 DEF Same
<1>3. CASE n = t
  BY <1>1, <1>3
<1>4. CASE CanWrite(k) /\ n = OnDisconnect(m, "success", r)
  <2>1. /\ IsClient(m) /\ m.told = k.told /\ m.wrong = k.wrong /\ m.ended = TRUE
        /\ m.reads = k.reads
    <3> HIDE DEF t
    <3> QED  BY <1>1 DEF IsClient, Fields, Same
  <2>2. k.sock # "none"
    BY <1>4 DEF CanWrite
  <2> HIDE DEF m
  <2>3. IsClient(n) /\ Reported(n, m)
    BY <1>4, <2>1, OnDisconnectFacts
  <2> QED  BY <2>1, <2>2, <2>3 DEF Left, Reported
<1> QED  BY <1>2, <1>3, <1>4 DEF PacketWrite

\* Whatever is appended to the queue before the write.
LEMMA QueuedFacts ==
  ASSUME NEW k, IsClient(k), NEW q, NEW r \in Reactions,
         NEW n, n = PacketWrite([k EXCEPT !.out = q], r)
  PROVE  IsClient(n) /\ (Same(n, k) \/ Left(n, k))
<1> DEFINE m == [k EXCEPT !.out = q]
<1>1. IsClient(m) /\ Same(m, k)
  BY DEF IsClient, Fields, Same
<1> HIDE DEF m
<1>2. n = PacketWrite(m, r)
  BY DEF m
<1>3. IsClient(n) /\ (Same(n, m) \/ Left(n, m))
  BY <1>1, <1>2, PacketWriteFacts
<1> QED  BY <1>1, <1>3 DEF Same, Left

\* packet__queue does what packet__write does.
LEMMA PacketQueueFacts ==
  ASSUME NEW k, IsClient(k), NEW p, NEW r \in Reactions, NEW n, n = PacketQueue(k, p, r)
  PROVE  IsClient(n) /\ (Same(n, k) \/ Left(n, k))
BY QueuedFacts DEF PacketQueue

LEMMA SendPublishesFacts ==
  ASSUME NEW k, IsClient(k), NEW p, NEW j, NEW r \in Reactions,
         NEW n, n = SendPublishes(k, p, j, r)
  PROVE  IsClient(n) /\ (Same(n, k) \/ Left(n, k))
<1>1. CASE n = k
  BY <1>1 DEF Same
<1>2. CASE n = PacketWrite([k EXCEPT !.out = @ \o [i \in 1..j |-> p]], r)
  BY <1>2, QueuedFacts
<1> QED  BY <1>1, <1>2 DEF SendPublishes

\* message__retry_check sends once, or twice in a row.
LEMMA RetryCheckFacts ==
  ASSUME NEW k, IsClient(k), NEW r \in Reactions, NEW stale,
         NEW n, n = RetryCheck(k, r, stale)
  PROVE  IsClient(n) /\ (Same(n, k) \/ Left(n, k))
<1> DEFINE first == SendPublishes(k, "PUBLISH1", 1, r)
<1>1. CASE n = k
  BY <1>1 DEF Same
<1>2. ASSUME NEW p, NEW j, n = SendPublishes(first, p, j, r)
      PROVE  IsClient(n) /\ (Same(n, k) \/ Left(n, k))
  <2>1. IsClient(first) /\ (Same(first, k) \/ Left(first, k))
    BY SendPublishesFacts
  <2> HIDE DEF first
  <2>2. IsClient(n) /\ (Same(n, first) \/ Left(n, first))
    BY <1>2, <2>1, SendPublishesFacts
  <2> QED  BY <2>1, <2>2 DEF Same, Left
<1>3. \/ n = k
      \/ n = SendPublishes(first, "PUBLISH1", k.resend - 1, r)
      \/ n = SendPublishes(first, "PUBLISH", stale, r)
  BY DEF RetryCheck
<1> HIDE DEF first
<1> QED  BY <1>1, <1>2, <1>3

\* What holds after every operation, and before it: only a connection without a
\* socket was told of, and if packets are still read then, its DISCONNECT was
\* written.
Fine(k) ==
  /\ IsClient(k)
  /\ "lost_twice" \notin k.wrong
  /\ k.told => k.sock = "none"
  /\ k.told /\ k.reads # 0 => k.ended

\* A failure: the client is not alive afterwards, reconnected or not, and a
\* connection that was told of before is not told of again.
LEMMA UpdateFailsFacts ==
  ASSUME NEW k, IsClient(k), NEW rc, NEW r \in Reactions, NEW o \in Outcomes,
         k.told => k.ended, "lost_twice" \notin k.wrong, k.reads = 0,
         NEW n, n = UpdateFails(OnDisconnect(k, rc, r), o)
  PROVE  Fine(n) /\ ~n.alive
<1> DEFINE m == OnDisconnect(k, rc, r)
<1>1. IsClient(m) /\ Reported(m, k)
  BY OnDisconnectFacts
<1>2. n = Reconnect(m, o)
  BY DEF UpdateFails
<1> HIDE DEF m
<1>3. IsClient(n) /\ Anew(n, m)
  BY <1>1, <1>2, ReconnectFacts
<1> QED  BY <1>1, <1>3 DEF Fine, Anew, Reported

LEMMA LoopFailsFacts ==
  ASSUME NEW k, IsClient(k), NEW error, NEW r \in Reactions, NEW o \in Outcomes,
         k.told => k.ended, "lost_twice" \notin k.wrong,
         NEW n, n = LoopFails(k, error, r, o)
  PROVE  Fine(n) /\ ~n.alive
<1> DEFINE a == Note(k, "abandoned", error = "protocol" /\ k.sock = "open" /\ k.asked)
           m == [a EXCEPT !.reads = 0]
<1>1. /\ IsClient(a) /\ a.told = k.told /\ a.ended = k.ended
      /\ "lost_twice" \notin a.wrong
  BY DEF Note, IsClient, Fields
<1>2. /\ IsClient(m) /\ m.told = k.told /\ m.ended = k.ended /\ m.reads = 0
      /\ "lost_twice" \notin m.wrong
  <2> HIDE DEF a
  <2> QED  BY <1>1 DEF IsClient, Fields
<1>3. \/ n = OnDisconnect(m, "success", r)
      \/ n = UpdateFails(OnDisconnect(m, error, r), o)
  BY DEF LoopFails
<1> HIDE DEF a, m
<1>4. CASE n = OnDisconnect(m, "success", r)
  <2>1. IsClient(n) /\ Reported(n, m)
    BY <1>2, <1>4, OnDisconnectFacts
  <2> QED  BY <1>2, <2>1 DEF Fine, Reported
<1>5. CASE n = UpdateFails(OnDisconnect(m, error, r), o)
  BY <1>2, <1>5, UpdateFailsFacts
<1> QED  BY <1>3, <1>4, <1>5

\* Each kind of step keeps a client fine.
LEMMA StaysFine ==
  ASSUME NEW k, Fine(k), NEW n, IsClient(n), Same(n, k) \/ Anew(n, k) \/ Left(n, k)
  PROVE  Fine(n)
BY DEF Fine, Same, Anew, Left

-----------------------------------------------------------------------------
(***************************************************************************)
(* The invariant.                                                          *)
(***************************************************************************)
\* connect() is called neither on a connection that is up nor in the events
\* that run while one is: the guarantee of connected() rests on this.
Polite ==
  /\ ~ConnectsAgain
  /\ OnlineReactions \cap Outcomes = {}
  /\ MessageReactions \cap Outcomes = {}

IInv ==
  /\ Fine(c)
  /\ Polite => AliveIsAccepted

\* A client that is fine and not alive satisfies it.
LEMMA NotAlive == ASSUME Fine(c'), ~c'.alive PROVE IInv'
BY DEF IInv, AliveIsAccepted

\* So does one to which nothing happened, and one that has left.
LEMMA SameOrLeft ==
  ASSUME IInv, IsClient(c'), Same(c', c) \/ Left(c', c)
  PROVE  IInv'
<1>1. Fine(c')
  BY StaysFine DEF IInv
<1> QED  BY <1>1 DEF IInv, AliveIsAccepted, Same, Left

LEMMA InitIInv == Init => IInv
BY DEF Init, IInv, Fine, IsClient, Fields, AliveIsAccepted

\* A packet taken from the socket changes nothing else, and the socket is there:
\* nobody was told of its end.
LEMMA TakenFacts ==
  ASSUME IInv, c.sock # "none"
  PROVE  /\ Fine(Taken) /\ Taken.told # TRUE
         /\ Taken.sock = c.sock /\ Taken.told = c.told
         /\ Taken.wrong = c.wrong /\ Taken.alive = c.alive
         /\ Taken.accepted = c.accepted
BY DEF IInv, Fine, Taken, IsClient, Fields

\* A step of update() preserves the invariant.
LEMMA UpdateKeeps == IInv /\ Update => IInv'
<1> SUFFICES ASSUME IInv, Update PROVE IInv'
  OBVIOUS
<1> USE ReactionsAssumption
<1>0. Fine(c) /\ IsClient(c) /\ (Polite => AliveIsAccepted)
  BY DEF IInv, Fine
<1>1. ASSUME NEW o \in Outcomes, UpdateNoConn(o) PROVE IInv'
  <2>1. c.sock = "none" /\ c' = Reconnect(c, o)
    BY <1>1 DEF UpdateNoConn, UpdateFails
  <2>2. IsClient(c') /\ Anew(c', c)
    BY <1>0, <2>1, ReconnectFacts
  <2>3. Fine(c')
    BY <1>0, <2>2, StaysFine
  <2> QED  BY <1>0, <2>1, <2>2, <2>3 DEF IInv, AliveIsAccepted, Anew
<1>2. ASSUME NEW r \in OnlineReactions, NEW r2 \in OfflineReactions, NEW stale,
             UpdateReadConnack(r, r2, stale)
      PROVE  IInv'
  <2> DEFINE t == Taken
             a == [t EXCEPT !.alive = TRUE, !.accepted = TRUE]
             b == React(a, r)
             d == [b EXCEPT !.state = "active"]
             e == RetryCheck(d, r2, stale)
             s == IF d.resend > 0 /\ d.sock = "full" THEN 0 ELSE e.reads
  <2>1. c.sock # "none" /\ c' = [e EXCEPT !.resend = 0, !.reads = s]
    BY <1>2 DEF UpdateReadConnack, Incoming
  <2>2. Fine(t) /\ t.sock # "none"
    BY <2>1, TakenFacts
  <2>3. /\ Fine(a) /\ a.sock # "none" /\ a.alive = TRUE /\ a.accepted = TRUE
    <3> HIDE DEF t
    <3> QED  BY <2>2 DEF IsClient, Fields, Fine
  <2>4. IsClient(b) /\ (Same(b, a) \/ (r \in Outcomes /\ Anew(b, a)))
    <3> HIDE DEF a
    <3> QED  BY <2>3, ReactFacts DEF Fine
  <2>5. IsClient(d) /\ Same(d, b)
    <3> HIDE DEF b
    <3> QED  BY <2>4 DEF IsClient, Fields, Same
  <2>6. IsClient(e) /\ (Same(e, d) \/ Left(e, d))
    <3> HIDE DEF d
    <3> QED  BY <2>5, RetryCheckFacts
  <2>7. s = 0 \/ s = e.reads
    OBVIOUS
  <2> HIDE DEF a, b, d, e, s
  <2>8. Fine(e)
    <3>1. Fine(b)  BY <2>3, <2>4, StaysFine
    <3>2. Fine(d)  BY <2>5, <3>1, StaysFine
    <3> QED  BY <2>6, <3>2, StaysFine
  <2>9. /\ Fine(c') /\ c'.sock = e.sock /\ c'.alive = e.alive
        /\ c'.accepted = e.accepted
    BY <2>1, <2>7, <2>8 DEF IsClient, Fields, Fine
  <2>10. Polite => AliveIsAccepted'
    <3>1. SUFFICES ASSUME Polite, c'.alive PROVE c'.accepted /\ c'.sock # "none"
      BY DEF AliveIsAccepted
    <3>2. r \notin Outcomes
      BY <3>1 DEF Polite
    <3>3. Same(b, a) /\ Same(e, d)
      BY <2>4, <2>6, <2>9, <3>1, <3>2 DEF Left
    <3> QED  BY <2>3, <2>5, <2>9, <3>3 DEF Same
  <2> QED  BY <2>9, <2>10 DEF IInv
<1>3. ASSUME NEW r \in MessageReactions, UpdateReadPublish(r) PROVE IInv'
  <2> DEFINE t == Taken
             b == React(t, r)
  <2>1. c.sock # "none" /\ c' = b
    BY <1>3 DEF UpdateReadPublish, Incoming
  <2>2. Fine(t) /\ t.sock = c.sock /\ t.alive = c.alive /\ t.accepted = c.accepted
    BY <2>1, TakenFacts
  <2>3. IsClient(b) /\ (Same(b, t) \/ (r \in Outcomes /\ Anew(b, t)))
    <3> HIDE DEF t
    <3> QED  BY <2>2, ReactFacts DEF Fine
  <2>4. Polite => r \notin Outcomes
    BY DEF Polite
  <2> HIDE DEF t, b
  <2>5. Fine(b)
    BY <2>2, <2>3, StaysFine
  <2> QED  BY <1>0, <2>1, <2>2, <2>3, <2>4, <2>5 DEF IInv, AliveIsAccepted, Same
<1>4. ASSUME c.sock # "none", NEW p, NEW w,
             c' = [Taken EXCEPT !.ping = p, !.waiting = w]
      PROVE  IInv'
  <2> DEFINE t == Taken
  <2>1. Fine(t) /\ t.sock = c.sock /\ t.alive = c.alive /\ t.accepted = c.accepted
    BY <1>4, TakenFacts
  <2>2. c' = [t EXCEPT !.ping = p, !.waiting = w]
    BY <1>4
  <2> HIDE DEF t
  <2>3. IsClient(c') /\ Same(c', t)
    BY <2>1, <2>2 DEF Fine, IsClient, Fields, Same
  <2>4. Fine(c')
    BY <2>1, <2>3, StaysFine
  <2> QED  BY <1>0, <2>1, <2>3, <2>4 DEF IInv, AliveIsAccepted, Same
<1>5. CASE UpdateReadPuback \/ UpdateReadPingresp
  <2>1. c.sock # "none"
    BY <1>5 DEF UpdateReadPuback, UpdateReadPingresp, Incoming
  <2> DEFINE t == Taken
  <2>2. IsClient(t)
    BY <2>1, TakenFacts DEF Fine
  <2> HIDE DEF t
  <2>3. \E p, w : c' = [t EXCEPT !.ping = p, !.waiting = w]
    <3>1. CASE UpdateReadPuback
      <4> DEFINE w == IF t.waiting > 0 THEN t.waiting - 1 ELSE 0
      <4>1. c' = [t EXCEPT !.waiting = w]
        BY <3>1 DEF UpdateReadPuback, t
      <4> HIDE DEF w
      <4>2. c' = [t EXCEPT !.ping = t.ping, !.waiting = w]
        BY <2>2, <4>1 DEF IsClient, Fields
      <4> QED  BY <4>2
    <3>2. CASE UpdateReadPingresp
      <4>1. c' = [t EXCEPT !.ping = FALSE]
        BY <3>2 DEF UpdateReadPingresp, t
      <4>2. c' = [t EXCEPT !.ping = FALSE, !.waiting = t.waiting]
        BY <2>2, <4>1 DEF IsClient, Fields
      <4> QED  BY <4>2
    <3> QED  BY <1>5, <3>1, <3>2
  <2> QED  BY <1>4, <2>1, <2>3 DEF t
<1>6. CASE UpdateReadNothing
  <2>1. /\ IsClient(c') /\ c'.sock = c.sock /\ c'.alive = c.alive
        /\ c'.accepted = c.accepted /\ c'.told = c.told /\ c'.wrong = c.wrong
        /\ c'.reads = 0
    BY <1>0, <1>6 DEF UpdateReadNothing, IsClient, Fields
  <2> QED  BY <1>0, <2>1 DEF IInv, Fine, AliveIsAccepted
<1>7. ASSUME NEW r \in OfflineReactions, NEW r2 \in OfflineReactions, NEW o \in Outcomes,
             UpdateReadRefused(r, r2, o)
      PROVE  IInv'
  <2> DEFINE t == Taken
             a == [t EXCEPT !.alive = FALSE]
             b == React(a, r)
  <2>1. c.sock # "none" /\ c' = LoopFails(b, "conn_refused", r2, o)
    BY <1>7 DEF UpdateReadRefused, Incoming
  <2>2. Fine(t) /\ t.told # TRUE
    BY <2>1, TakenFacts
  <2>3. Fine(a) /\ a.told # TRUE
    <3> HIDE DEF t
    <3> QED  BY <2>2 DEF IsClient, Fields, Fine
  <2>4. IsClient(b) /\ (Same(b, a) \/ Anew(b, a))
    <3> HIDE DEF a
    <3> QED  BY <2>3, ReactFacts DEF Fine
  <2> HIDE DEF a, b
  <2>5. IsClient(b) /\ b.told # TRUE /\ "lost_twice" \notin b.wrong
    BY <2>3, <2>4 DEF Same, Anew, Fine
  <2>6. r2 \in Reactions /\ (b.told => b.ended)
    BY <2>3, <2>4 DEF Same, Anew, Fine
  <2> QED  BY <2>1, <2>5, <2>6, LoopFailsFacts, NotAlive
<1>8. ASSUME NEW r \in OfflineReactions, NEW o \in Outcomes, UpdateReadUnexpected(r, o)
      PROVE  IInv'
  <2> DEFINE t == Taken
  <2>1. c.sock # "none" /\ c' = LoopFails(t, "protocol", r, o)
    BY <1>8 DEF UpdateReadUnexpected, Incoming
  <2>2. Fine(t) /\ t.sock # "none"
    BY <2>1, TakenFacts
  <2> HIDE DEF t
  <2>3. IsClient(t) /\ (t.told => t.ended) /\ "lost_twice" \notin t.wrong
    BY <2>2 DEF Fine
  <2> QED  BY <2>1, <2>3, LoopFailsFacts, NotAlive
<1>9. ASSUME NEW r \in OfflineReactions, NEW o \in Outcomes, NEW error,
             c.sock # "none" \/ c.reads # 0, c' = LoopFails(c, error, r, o)
      PROVE  IInv'
  <2>1. (c.told => c.ended) /\ "lost_twice" \notin c.wrong
    BY <1>0, <1>9 DEF Fine
  <2> QED  BY <1>0, <1>9, <2>1, LoopFailsFacts, NotAlive
<1>10. ASSUME NEW r \in OfflineReactions, NEW o \in Outcomes,
              UpdateReadFails(r, o) \/ UpdateReadNoConn(r, o) \/ UpdateWrite(r, o)
       PROVE  IInv'
  <2>1. CASE UpdateReadFails(r, o)
    BY <1>9, <2>1 DEF UpdateReadFails, Incoming
  <2>2. CASE UpdateReadNoConn(r, o)
    BY <1>9, <2>2 DEF UpdateReadNoConn
  <2>3. CASE UpdateWrite(r, o)
    <3>1. CASE c' = PacketWrite(c, r)
      BY <1>0, <3>1, PacketWriteFacts, SameOrLeft
    <3>2. CASE c.sock = "dead" /\ c' = LoopFails(c, "conn_lost", r, o)
      BY <1>9, <3>2
    <3> QED  BY <2>3, <3>1, <3>2 DEF UpdateWrite
  <2> QED  BY <1>10, <2>1, <2>2, <2>3
<1> QED  BY <1>1, <1>2, <1>3, <1>5, <1>6, <1>7, <1>8, <1>10 DEF Update

\* A step of the keepalive preserves it.
LEMMA KeepaliveKeeps == IInv /\ Keepalive => IInv'
<1> SUFFICES ASSUME IInv, NEW r \in OfflineReactions,
                    KeepalivePing(r) \/ \E o \in Outcomes : KeepaliveClose(r, o)
             PROVE  IInv'
  BY DEF Keepalive
<1>0. Fine(c) /\ IsClient(c) /\ r \in Reactions
  BY ReactionsAssumption DEF IInv, Fine
<1>1. CASE KeepalivePing(r)
  <2> DEFINE q == PacketQueue(c, "PINGREQ", r)
  <2>1. c' = [q EXCEPT !.ping = TRUE]
    BY <1>1 DEF KeepalivePing
  <2>2. IsClient(q) /\ (Same(q, c) \/ Left(q, c))
    BY <1>0, PacketQueueFacts
  <2> HIDE DEF q
  <2>3. IsClient(c') /\ Same(c', q)
    BY <2>1, <2>2 DEF IsClient, Fields, Same
  <2>4. Same(c', c) \/ Left(c', c)
    BY <2>2, <2>3 DEF Same, Left
  <2> QED  BY <2>3, <2>4, SameOrLeft
<1>2. ASSUME NEW o \in Outcomes, KeepaliveClose(r, o) PROVE IInv'
  <2>1. /\ c.sock # "none" /\ c.reads = 0
        /\ c' = UpdateFails(OnDisconnect(c, "keepalive", r), o)
    BY <1>2 DEF KeepaliveClose, Quiet
  <2>2. (c.told => c.ended) /\ "lost_twice" \notin c.wrong
    BY <1>0, <2>1 DEF Fine
  <2> QED  BY <1>0, <2>1, <2>2, UpdateFailsFacts, NotAlive
<1> QED  BY <1>1, <1>2

\* A call of the application preserves it.
LEMMA ApplicationKeeps == IInv /\ Application => IInv'
<1> SUFFICES ASSUME IInv, Application PROVE IInv'
  OBVIOUS
<1> USE ReactionsAssumption
<1>0. Fine(c) /\ IsClient(c) /\ (Polite => AliveIsAccepted)
  BY DEF IInv, Fine
<1>1. ASSUME NEW o \in Outcomes, CallConnect(o) PROVE IInv'
  <2>1. Polite => ~c.alive
    BY <1>1 DEF CallConnect, Polite
  <2>2. IsClient(c') /\ Anew(c', c)
    BY <1>0, <1>1, ConnectFacts DEF CallConnect
  <2>3. Fine(c')
    BY <1>0, <2>2, StaysFine
  <2> QED  BY <2>1, <2>2, <2>3 DEF IInv, AliveIsAccepted, Anew
<1>2. ASSUME NEW q, IsClient(q), Same(q, c),
             IsClient(c'), Same(c', q) \/ Left(c', q)
      PROVE  IInv'
  <2>1. Same(c', c) \/ Left(c', c)
    BY <1>2 DEF Same, Left
  <2> QED  BY <1>2, <2>1, SameOrLeft
<1>3. ASSUME NEW r \in OfflineReactions, CallDisconnect(r) PROVE IInv'
  <2> DEFINE q == QueueDisconnect(c)
  <2>1. IsClient(q) /\ Same(q, c)
    BY <1>0, QueueDisconnectFacts
  <2>2. c' = PacketWrite(q, r)
    BY <1>3 DEF CallDisconnect
  <2> HIDE DEF q
  <2> QED  BY <1>2, <2>1, <2>2, PacketWriteFacts
<1>4. ASSUME NEW r \in OfflineReactions, CallPublish(r) PROVE IInv'
  <2> DEFINE q == [c EXCEPT !.calls = @ + 1]
  <2>1. IsClient(q) /\ Same(q, c)
    BY <1>0 DEF IsClient, Fields, Same
  <2>2. c' = PacketQueue(q, "PUBLISH", r)
    BY <1>4 DEF CallPublish
  <2> HIDE DEF q
  <2> QED  BY <1>2, <2>1, <2>2, PacketQueueFacts
<1>5. ASSUME NEW r \in OfflineReactions, CallPublishKept(r) PROVE IInv'
  <2> DEFINE q == [c EXCEPT !.waiting = @ + 1, !.calls = @ + 1]
  <2>1. IsClient(q) /\ Same(q, c)
    BY <1>0 DEF IsClient, Fields, Same
  <2>2. c' = SendPublishes(q, "PUBLISH1", 1, r)
    BY <1>5 DEF CallPublishKept
  <2> HIDE DEF q
  <2> QED  BY <1>2, <2>1, <2>2, SendPublishesFacts
<1> QED  BY <1>1, <1>3, <1>4, <1>5 DEF Application

\* The network and the broker only touch a socket that is there.
LEMMA NetworkKeeps ==
  IInv /\ (BrokerAnswers \/ BrokerPublish \/ BrokerCloses \/ Fault \/ Drain) => IInv'
<1> SUFFICES ASSUME IInv,
                    BrokerAnswers \/ BrokerPublish \/ BrokerCloses \/ Fault \/ Drain
             PROVE  IInv'
  OBVIOUS
<1> USE DEF IInv, Fine, IsClient, Fields, AliveIsAccepted
<1>1. ASSUME NEW p, NEW a, BrokerAnswer(p, a) PROVE IInv'
  BY <1>1 DEF BrokerAnswer
<1>2. CASE BrokerPublish
  BY <1>2 DEF BrokerPublish
<1>3. CASE BrokerCloses
  BY <1>3 DEF BrokerCloses
<1>4. CASE Fault
  <2>1. PICK sock \in {"dead", "silent", "full"} :
          /\ c.sock # "none"
          /\ c' = [c EXCEPT !.sock = sock, !.faults = @ + 1]
    BY <1>4 DEF Fault
  <2> QED  BY <2>1
<1>5. CASE Drain
  BY <1>5 DEF Drain
<1> QED  BY <1>1, <1>2, <1>3, <1>4, <1>5 DEF BrokerAnswers

LEMMA Inductive == IInv /\ [Next]_vars => IInv'
<1>1. IInv /\ UNCHANGED vars => IInv'
  BY DEF vars, IInv, Fine, IsClient, AliveIsAccepted
<1> QED
  BY <1>1, UpdateKeeps, KeepaliveKeeps, ApplicationKeeps, NetworkKeeps DEF Next

-----------------------------------------------------------------------------
\* on_disconnect is called at most once for a connection that was lost, whatever
\* the application does in its events and whenever it calls connect(), and
\* however many packets mosquitto_loop_read still reads: only a connection whose
\* DISCONNECT was written may be reported again.
THEOREM LostReportedOnce == Spec => []LostOnce
<1>1. IInv => LostOnce
  BY DEF IInv, Fine, LostOnce
<1> QED  BY <1>1, InitIInv, Inductive, PTL DEF Spec

\* connected() tells the truth if connect() is never called on a connection
\* that is up, nor in onOnline and onMessage.
THEOREM AliveIsTrue == ASSUME Polite PROVE Spec => []AliveIsAccepted
<1>1. IInv => AliveIsAccepted
  BY DEF IInv
<1> QED  BY <1>1, InitIInv, Inductive, PTL DEF Spec

-----------------------------------------------------------------------------
(***************************************************************************)
(* The packets of a queue that are in a set.                               *)
(***************************************************************************)
\* Only, with the recursion that defines it.
LEMMA OnlyUnfolds ==
  ASSUME NEW q, NEW P, NEW g,
         g = [i \in 0..Len(q) |->
                IF i = 0 THEN <<>>
                ELSE IF q[i] \in P THEN Append(g[i - 1], q[i]) ELSE g[i - 1]]
  PROVE  \E h : /\ h = [i \in 0..Len(q) |->
                          IF i = 0 THEN <<>>
                          ELSE IF q[i] \in P THEN Append(h[i - 1], q[i]) ELSE h[i - 1]]
                /\ Only(q, P) = h[Len(q)]
BY DEF Only

\* The elements of t are among the first n of q.
Among(t, q, n) == \A i \in 1..Len(t) : \E j \in 1..n : t[i] = q[j]

\* They are packets of the queue, in the order of the queue: the last packet of
\* the queue comes last.
LEMMA OnlyFacts ==
  ASSUME NEW S, NEW q \in Seq(S), NEW P
  PROVE  /\ Only(q, P) \in Seq(S \cap P)
         /\ Among(Only(q, P), q, Len(q))
         /\ Len(q) > 0 /\ q[Len(q)] \in P =>
              \E t \in Seq(S \cap P) :
                Only(q, P) = Append(t, q[Len(q)]) /\ Among(t, q, Len(q) - 1)
<1> DEFINE n == Len(q)
           T == Seq(S \cap P)
           Next1(t, i) == IF q[i] \in P THEN Append(t, q[i]) ELSE t
           step == [x \in T \X (1..n) |-> Next1(x[1], x[2])]
           e == <<>>
<1>1. n \in Nat /\ e \in T
  OBVIOUS
<1>2. \A t \in T, i \in 1..n : Next1(t, i) \in T
  <2> TAKE t \in T, i \in 1..n
  <2>1. CASE q[i] \in P
    <3>1. q[i] \in S \cap P
      BY <2>1
    <3>2. Append(t, q[i]) \in T
      BY <3>1
    <3> QED  BY <2>1, <3>2
  <2>2. CASE q[i] \notin P
    BY <2>2
  <2> QED  BY <2>1, <2>2
<1> HIDE DEF Next1, T, e
<1>3. step \in StepFunctions(T, n)
  BY <1>2 DEF StepFunctions
<1>4. \A t \in T, i \in 1..n : step[<<t, i>>] = Next1(t, i)
  OBVIOUS
<1> HIDE DEF step, n
<1>5. PICK g : Recurs(g, T, e, n, step)
  BY ONLY <1>1, <1>3, Recursion
<1>6. g \in [0..n -> T] /\ g[0] = e /\ \A i \in 1..n : g[i] = step[<<g[i - 1], i>>]
  BY <1>5 DEF Recurs
<1>7. \A i \in 1..n : g[i] = Next1(g[i - 1], i)
  <2> TAKE i \in 1..n
  <2>1. i - 1 \in 0..n
    BY <1>1
  <2>2. g[i - 1] \in T /\ g[i] = step[<<g[i - 1], i>>]
    BY <1>6, <2>1
  <2> QED  BY <1>4, <2>2
<1>8. g = [i \in 0..n |-> IF i = 0 THEN e ELSE Next1(g[i - 1], i)]
  <2>1. \A i \in 0..n : i = 0 \/ i \in 1..n
    BY <1>1
  <2>2. g = [i \in 0..n |-> g[i]]
    BY <1>6
  <2>3. \A i \in 0..n : g[i] = IF i = 0 THEN e ELSE Next1(g[i - 1], i)
    BY <1>6, <1>7, <2>1
  <2> QED  BY <2>2, <2>3
<1>9. PICK h : h = [i \in 0..n |-> IF i = 0 THEN e ELSE Next1(h[i - 1], i)] /\ Only(q, P) = h[n]
  <2>1. g = [i \in 0..Len(q) |->
                IF i = 0 THEN <<>>
                ELSE IF q[i] \in P THEN Append(g[i - 1], q[i]) ELSE g[i - 1]]
    BY ONLY <1>8 DEF Next1, n, e
  <2> QED  BY ONLY <2>1, OnlyUnfolds DEF Next1, n, e
<1>10. 0 \in 0..n /\ \A i \in 1..n : i \in 0..n /\ i # 0
  BY <1>1
<1>11. h[0] = e /\ \A i \in 1..n : h[i] = Next1(h[i - 1], i)
  BY <1>9, <1>10
<1> DEFINE From(t, k) == \A i \in 1..Len(t) : \E j \in 1..k : t[i] = q[j]
           Q == {k \in 0..n : h[k] \in T /\ From(h[k], k)}
<1>12. 0 \in Q
  <2>1. From(h[0], 0)
    BY <1>11 DEF e
  <2> QED  BY <1>1, <1>10, <1>11, <2>1
<1>13. ASSUME NEW k \in 1..n, k - 1 \in Q
       PROVE  k \in Q
  <2> DEFINE t == h[k - 1]
             b == q[k]
  <2>1. t \in T /\ From(t, k - 1) /\ k \in 0..n /\ k \in 1..k
        /\ \A j \in 1..(k - 1) : j \in 1..k
    BY <1>1, <1>10, <1>13
  <2>2. h[k] = Next1(t, k)
    BY <1>11
  <2>3. h[k] \in T
    BY <1>2, <2>1, <2>2
  <2> HIDE DEF t
  <2>4. CASE b \in P
    <3>1. h[k] = Append(t, b)
      BY <2>2, <2>4 DEF Next1
    <3>2. t \in Seq(S \cap P) /\ b \in S \cap P
      <4>1. k \in 1..Len(q)
        BY DEF n
      <4> QED  BY <2>1, <2>4, <4>1 DEF T
    <3> HIDE DEF b
    <3>3. /\ \A i \in 1..Len(Append(t, b)) : i \in 1..Len(t) \/ i = Len(t) + 1
          /\ \A i \in 1..Len(t) : Append(t, b)[i] = t[i]
          /\ Append(t, b)[Len(t) + 1] = b
      BY ONLY <3>2, AppendFacts
    <3>4. From(h[k], k)
      BY <2>1, <3>1, <3>3 DEF b
    <3> QED  BY <2>1, <2>3, <3>4
  <2>5. CASE b \notin P
    <3>1. h[k] = t
      BY <2>2, <2>5 DEF Next1
    <3>2. From(h[k], k)
      BY <2>1, <3>1
    <3> QED  BY <2>1, <2>3, <3>2
  <2> QED  BY <2>4, <2>5
<1>14. \A k \in 1..n : k - 1 \in Q => k \in Q
  BY <1>13
<1>15. \A k \in 0..n : k \in Q
  <2> HIDE DEF Q
  <2> QED  BY ONLY <1>1, <1>12, <1>14, Induction
<1>16. \A k \in 0..n : h[k] \in T /\ From(h[k], k)
  BY <1>15
<1> HIDE DEF Q
<1>17. h[n] \in T /\ From(h[n], n)
  <2>1. n \in 0..n
    BY <1>1
  <2> QED  BY <1>16, <2>1
<1>18. ASSUME n > 0, q[n] \in P
       PROVE  \E t \in T : h[n] = Append(t, q[n]) /\ From(t, n - 1)
  <2>1. n - 1 \in 0..n /\ n \in 1..n
    BY <1>1, <1>18
  <2>2. h[n] = Append(h[n - 1], q[n])
    BY <1>11, <1>18, <2>1 DEF Next1
  <2>3. h[n - 1] \in T /\ From(h[n - 1], n - 1)
    BY <1>16, <2>1
  <2> QED  BY <2>2, <2>3
<1>19. Only(q, P) \in Seq(S \cap P)
  BY ONLY <1>9, <1>17 DEF T
<1>20. Among(Only(q, P), q, Len(q))
  BY ONLY <1>9, <1>17 DEF n, Among
<1>21. ASSUME Len(q) > 0, q[Len(q)] \in P
       PROVE  \E t \in Seq(S \cap P) :
                Only(q, P) = Append(t, q[Len(q)]) /\ Among(t, q, Len(q) - 1)
  <2>1. n > 0 /\ q[n] \in P
    BY <1>21 DEF n
  <2>2. \E t \in T : h[n] = Append(t, q[n]) /\ From(t, n - 1)
    BY ONLY <1>18, <2>1
  <2>3. \E t \in T : h[n] = Append(t, q[n]) /\ Among(t, q, n - 1)
    BY ONLY <2>2 DEF Among
  <2> QED  BY ONLY <1>9, <2>3 DEF n, T
<1> QED  BY ONLY <1>19, <1>20, <1>21

-----------------------------------------------------------------------------
(***************************************************************************)
(* Types, and the order of what is written.                                *)
(***************************************************************************)
Queued == {"PUBLISH", "PUBLISH1", "PINGREQ", "DISCONNECT"}
Written == {"CONNECT", "PUBLISH", "PUBLISH1", "DISCONNECT"}
Answers == {"CONNACK", "REFUSED", "PUBLISH", "PUBACK", "PINGRESP", "EOF"}

Ordered(s) ==
  \A i \in 1..Len(s) :
    /\ s[i] = "CONNECT" <=> i = 1
    /\ s[i] = "DISCONNECT" => i = Len(s)

NoDisconnect(s) == \A i \in 1..Len(s) : s[i] # "DISCONNECT"

Typed(k) ==
  /\ IsClient(k)
  /\ k.state \in {"new", "connect_pending", "connected", "active", "disconnected"}
  /\ k.sock \in {"none", "open", "full", "dead", "silent"}
  /\ k.out \in Seq(Queued) /\ k.sent \in Seq(Written)
  /\ k.toClient \in Seq(Answers) /\ k.toBroker \in Seq(Packets)
  /\ k.hasHost \in BOOLEAN /\ k.ping \in BOOLEAN /\ k.alive \in BOOLEAN
  /\ k.accepted \in BOOLEAN /\ k.asked \in BOOLEAN /\ k.told \in BOOLEAN
  /\ k.ended \in BOOLEAN /\ k.waiting \in Nat /\ k.resend \in Nat /\ k.reads \in Nat
  /\ Ordered(k.sent)

\* A client that waits to connect has no socket and nothing to write.
Waits(k) == k.state \in {"new", "connect_pending"} => k.sock = "none" /\ k.out = <<>>

\* On an open connection the CONNECT was written, and no DISCONNECT.
Fresh(k) == k.sock # "none" => k.sent # <<>> /\ NoDisconnect(k.sent)

Good(k) == Typed(k) /\ Waits(k) /\ Fresh(k)

LEMMA SequenceFacts ==
  /\ <<>> \in Seq(Queued) /\ <<>> \in Seq(Answers) /\ <<>> \in Seq(Packets)
  /\ <<>> \in Seq(Written)
  /\ <<"CONNECT">> \in Seq(Packets) /\ <<"CONNECT">> \in Seq(Written)
  /\ <<"CONNECT">> # <<>>
  /\ Ordered(<<>>) /\ Ordered(<<"CONNECT">>) /\ NoDisconnect(<<"CONNECT">>)
<1>1. "CONNECT" \in Packets /\ "CONNECT" \in Written
  BY DEF Packets, Written
<1>2. Len(<<"CONNECT">>) = 1 /\ <<"CONNECT">>[1] = "CONNECT" /\ <<"CONNECT">> # <<>>
  OBVIOUS
<1>3. Ordered(<<>>)
  BY DEF Ordered
<1> DEFINE s == <<"CONNECT">>
<1>4. s \in Seq(Packets) /\ s \in Seq(Written)
  BY <1>1
<1> HIDE DEF s
<1>5. \A i \in 1..Len(s) : i = 1 /\ s[i] = "CONNECT" /\ i = Len(s)
  BY <1>2 DEF s
<1>6. Ordered(s)
  BY <1>5 DEF Ordered
<1>7. NoDisconnect(s)
  BY <1>5 DEF NoDisconnect
<1> QED  BY <1>2, <1>3, <1>4, <1>6, <1>7 DEF s

LEMMA CloseTyped ==
  ASSUME NEW k, Typed(k), NEW n, n = Close(k)
  PROVE  /\ Typed(n) /\ n.sock = "none" /\ n.state = k.state /\ n.out = k.out
         /\ n.sent = k.sent
<1>1. /\ n.state = k.state /\ n.sock = "none" /\ n.hasHost = k.hasHost /\ n.out = k.out
      /\ n.ping = k.ping /\ n.alive = k.alive /\ n.toClient = <<>> /\ n.toBroker = <<>>
      /\ n.sent = k.sent /\ n.accepted = k.accepted /\ n.asked = FALSE /\ n.told = k.told
      /\ n.ended = k.ended /\ n.waiting = k.waiting /\ n.resend = k.resend
      /\ n.reads = k.reads
      /\ IsClient(n)
  BY DEF Typed, IsClient, Fields, Close
<1> QED  BY <1>1, SequenceFacts DEF Typed

LEMMA ReconnectGood ==
  ASSUME NEW k, Typed(k), NEW o \in Outcomes, NEW n, n = Reconnect(k, o)
  PROVE  Good(n)
<1> DEFINE m == Close(k)
<1>1. Typed(m) /\ m.sock = "none"
  BY CloseTyped
<1>2. CASE o = "established"
  <2>1. n = [m EXCEPT !.state = "connected", !.sock = "open", !.ping = FALSE,
                      !.out = <<>>, !.toBroker = <<"CONNECT">>, !.sent = <<"CONNECT">>,
                      !.resend = k.waiting,
                      !.accepted = FALSE, !.ended = FALSE, !.told = FALSE]
    BY <1>2 DEF Reconnect
  <2>0. k.waiting \in Nat
    BY DEF Typed
  <2> HIDE DEF m
  <2>2. /\ n.state = "connected" /\ n.sock = "open" /\ n.hasHost = m.hasHost /\ n.out = <<>>
        /\ n.ping = FALSE /\ n.alive = m.alive /\ n.toClient = m.toClient
        /\ n.toBroker = <<"CONNECT">>
        /\ n.sent = <<"CONNECT">> /\ n.accepted = FALSE /\ n.asked = m.asked /\ n.told = FALSE
        /\ n.ended = FALSE /\ n.waiting = m.waiting /\ n.resend = k.waiting
        /\ n.reads = m.reads
        /\ IsClient(n)
    BY <1>1, <2>1 DEF Typed, IsClient, Fields
  <2>3. Typed(n)
    BY <1>1, <2>0, <2>2, SequenceFacts DEF Typed
  <2> QED  BY <2>2, <2>3, SequenceFacts DEF Good, Waits, Fresh
<1>3. CASE o # "established"
  <2> DEFINE s == IF o = "tcp_refused" THEN "connect_pending" ELSE "new"
  <2>1. n = [m EXCEPT !.state = s, !.out = <<>>, !.ping = FALSE, !.resend = k.waiting,
                      !.accepted = FALSE, !.faults = @ + 1]
    BY <1>3 DEF Reconnect
  <2>0. s \in {"connect_pending", "new"} /\ k.waiting \in Nat
    BY DEF Typed
  <2> HIDE DEF m, s
  <2>2. /\ n.state = s /\ n.sock = m.sock /\ n.hasHost = m.hasHost /\ n.out = <<>>
        /\ n.ping = FALSE /\ n.alive = m.alive /\ n.toClient = m.toClient
        /\ n.toBroker = m.toBroker
        /\ n.sent = m.sent /\ n.accepted = FALSE /\ n.asked = m.asked /\ n.told = m.told
        /\ n.ended = m.ended /\ n.waiting = m.waiting /\ n.resend = k.waiting
        /\ n.reads = m.reads
        /\ IsClient(n)
    BY <1>1, <2>1 DEF Typed, IsClient, Fields
  <2>3. Typed(n)
    BY <1>1, <2>0, <2>2, SequenceFacts DEF Typed
  <2> QED  BY <1>1, <2>2, <2>3 DEF Good, Waits, Fresh
<1> QED  BY <1>2, <1>3

LEMMA ConnectGood ==
  ASSUME NEW k, Typed(k), NEW o \in Outcomes, NEW n, n = Connect(k, o)
  PROVE  Good(n)
<1> DEFINE e == [k EXCEPT !.waiting = 0]
           m == Reconnect(e, o)
<1>0. Typed(e)
  <2>1. /\ e.state = k.state /\ e.sock = k.sock /\ e.hasHost = k.hasHost /\ e.out = k.out
        /\ e.ping = k.ping /\ e.alive = k.alive /\ e.toClient = k.toClient
        /\ e.toBroker = k.toBroker
        /\ e.sent = k.sent /\ e.accepted = k.accepted /\ e.asked = k.asked /\ e.told = k.told
        /\ e.ended = k.ended /\ e.waiting = 0 /\ e.resend = k.resend
        /\ e.reads = k.reads
        /\ IsClient(e)
    BY DEF Typed, IsClient, Fields
  <2> HIDE DEF e
  <2> QED  BY <2>1 DEF Typed
<1>1. Good(m)
  <2> HIDE DEF e
  <2> QED  BY <1>0, ReconnectGood
<1>2. n = [m EXCEPT !.hasHost = TRUE, !.calls = @ + 1]
  BY DEF Connect
<1> HIDE DEF m
<1>3. /\ n.state = m.state /\ n.sock = m.sock /\ n.hasHost = TRUE /\ n.out = m.out
      /\ n.ping = m.ping /\ n.alive = m.alive /\ n.toClient = m.toClient
      /\ n.toBroker = m.toBroker
      /\ n.sent = m.sent /\ n.accepted = m.accepted /\ n.asked = m.asked /\ n.told = m.told
      /\ n.ended = m.ended /\ n.waiting = m.waiting /\ n.resend = m.resend
      /\ n.reads = m.reads
      /\ IsClient(n)
  BY <1>1, <1>2 DEF Good, Typed, IsClient, Fields
<1>4. Typed(n)
  BY <1>1, <1>3 DEF Good, Typed
<1> QED  BY <1>1, <1>3, <1>4 DEF Good, Waits, Fresh

LEMMA QueueDisconnectGood ==
  ASSUME NEW k, Typed(k), Fresh(k), NEW n, n = QueueDisconnect(k)
  PROVE  Good(n)
<1>1. CASE k.sock = "none"
  <2>1. n = [k EXCEPT !.state = "disconnected", !.calls = @ + 1]
    BY <1>1 DEF QueueDisconnect
  <2>2. /\ n.state = "disconnected" /\ n.sock = k.sock /\ n.hasHost = k.hasHost
        /\ n.out = k.out
        /\ n.ping = k.ping /\ n.alive = k.alive /\ n.toClient = k.toClient
        /\ n.toBroker = k.toBroker
        /\ n.sent = k.sent /\ n.accepted = k.accepted /\ n.asked = k.asked /\ n.told = k.told
        /\ n.ended = k.ended /\ n.waiting = k.waiting /\ n.resend = k.resend
        /\ n.reads = k.reads
        /\ IsClient(n)
    BY <2>1 DEF Typed, IsClient, Fields
  <2>3. Typed(n)
    BY <2>2 DEF Typed
  <2> QED  BY <2>2, <2>3 DEF Good, Waits, Fresh
<1>2. CASE k.sock # "none"
  <2> DEFINE q == Append(k.out, "DISCONNECT")
  <2>1. n = [k EXCEPT !.state = "disconnected", !.asked = TRUE, !.calls = @ + 1,
                      !.out = q]
    BY <1>2 DEF QueueDisconnect
  <2>2. q \in Seq(Queued)
    BY AppendFacts DEF Typed, Queued
  <2> HIDE DEF q
  <2>3. /\ n.state = "disconnected" /\ n.sock = k.sock /\ n.hasHost = k.hasHost
        /\ n.out = q
        /\ n.ping = k.ping /\ n.alive = k.alive /\ n.toClient = k.toClient
        /\ n.toBroker = k.toBroker
        /\ n.sent = k.sent /\ n.accepted = k.accepted /\ n.asked = TRUE /\ n.told = k.told
        /\ n.ended = k.ended /\ n.waiting = k.waiting /\ n.resend = k.resend
        /\ n.reads = k.reads
        /\ IsClient(n)
    BY <2>1 DEF Typed, IsClient, Fields
  <2>4. Typed(n)
    BY <2>2, <2>3 DEF Typed
  <2> QED  BY <2>3, <2>4 DEF Good, Waits, Fresh
<1> QED  BY <1>1, <1>2

LEMMA ReactGood ==
  ASSUME NEW k, Good(k), NEW r \in Reactions, NEW n, n = React(k, r)
  PROVE  Good(n)
<1>1. CASE r = "none"
  BY <1>1 DEF React, Outcomes
<1>2. CASE r = "disconnect"
  <2>1. n = QueueDisconnect(k)
    BY <1>2 DEF React, Outcomes
  <2> QED  BY <2>1, QueueDisconnectGood DEF Good
<1>3. CASE r \in Outcomes
  <2>1. n = Connect(k, r)
    BY <1>3 DEF React, Outcomes
  <2> QED  BY <1>3, <2>1, ConnectGood DEF Good
<1> QED  BY <1>1, <1>2, <1>3 DEF Reactions

\* Promises are none of the fields it is about.
LEMMA NoteTyped ==
  ASSUME NEW k, Typed(k), NEW what, NEW condition, NEW n, n = Note(k, what, condition)
  PROVE  /\ Typed(n) /\ n.state = k.state /\ n.out = k.out /\ n.sock = k.sock
         /\ n.sent = k.sent
<1>1. CASE n = k
  BY <1>1
<1>2. CASE n = [k EXCEPT !.wrong = @ \cup {what}]
  <2>1. /\ n.state = k.state /\ n.sock = k.sock /\ n.hasHost = k.hasHost /\ n.out = k.out
        /\ n.ping = k.ping /\ n.alive = k.alive /\ n.toClient = k.toClient
        /\ n.toBroker = k.toBroker
        /\ n.sent = k.sent /\ n.accepted = k.accepted /\ n.asked = k.asked /\ n.told = k.told
        /\ n.ended = k.ended /\ n.waiting = k.waiting /\ n.resend = k.resend
        /\ n.reads = k.reads
        /\ IsClient(n)
    BY <1>2 DEF Typed, IsClient, Fields
  <2> QED  BY <2>1 DEF Typed
<1> QED  BY <1>1, <1>2 DEF Note

\* on_disconnect comes when the socket is closed, so it does not matter what
\* was written last.
LEMMA OnDisconnectGood ==
  ASSUME NEW k, Typed(k), Waits(k), NEW rc, NEW r \in Reactions,
         NEW n, n = OnDisconnect(k, rc, r)
  PROVE  Good(n)
<1> DEFINE reason == Note(k, "reason", rc # "success" /\ k.asked)
           twice == Note(reason, "twice", k.told)
           lost == Note(twice, "lost_twice", k.told /\ ~k.ended)
           closed == Close(lost)
           m == [closed EXCEPT !.alive = FALSE, !.told = TRUE]
<1>1. Typed(reason) /\ reason.state = k.state /\ reason.out = k.out
  BY NoteTyped
<1>2. Typed(twice) /\ twice.state = k.state /\ twice.out = k.out
  <2> HIDE DEF reason
  <2> QED  BY <1>1, NoteTyped
<1>6. Typed(lost) /\ lost.state = k.state /\ lost.out = k.out
  <2> HIDE DEF twice
  <2> QED  BY <1>2, NoteTyped
<1>3. Typed(closed) /\ closed.sock = "none" /\ closed.state = k.state /\ closed.out = k.out
  <2> HIDE DEF lost
  <2> QED  BY <1>6, CloseTyped
<1>4. Good(m)
  <2> HIDE DEF closed
  <2>1. /\ m.state = closed.state /\ m.sock = "none" /\ m.hasHost = closed.hasHost
        /\ m.out = closed.out
        /\ m.ping = closed.ping /\ m.alive = FALSE /\ m.toClient = closed.toClient
        /\ m.toBroker = closed.toBroker
        /\ m.sent = closed.sent /\ m.accepted = closed.accepted
        /\ m.asked = closed.asked /\ m.told = TRUE
        /\ m.ended = closed.ended /\ m.waiting = closed.waiting /\ m.resend = closed.resend
        /\ m.reads = closed.reads
        /\ IsClient(m)
    BY <1>3 DEF Typed, IsClient, Fields
  <2> HIDE DEF m
  <2>2. Typed(m)
    BY <1>3, <2>1 DEF Typed
  <2> QED  BY <1>3, <2>1, <2>2 DEF Good, Waits, Fresh
<1>5. n = React(m, r)
  BY DEF OnDisconnect
<1> HIDE DEF reason, twice, lost, closed, m
<1> QED  BY <1>4, <1>5, ReactGood

\* packet__write stops behind the first DISCONNECT.
LEMMA WrittenIs ==
  ASSUME NEW k, Typed(k)
  PROVE  LET n == WrittenLength(k)
         IN /\ n \in 0..Len(k.out)
            /\ IF NoDisconnect(k.out) THEN n = Len(k.out)
               ELSE /\ n \in 1..Len(k.out) /\ k.out[n] = "DISCONNECT"
                    /\ \A j \in 1..(n - 1) : k.out[j] # "DISCONNECT"
<1> DEFINE q == k.out
           D == {i \in 1..Len(q) : q[i] = "DISCONNECT"}
<1>1. q \in Seq(Queued) /\ Len(q) \in Nat /\ DOMAIN q = 1..Len(q)
  BY DEF Typed
<1> HIDE DEF q
<1>2. CASE D = {}
  <2>1. NoDisconnect(q) /\ ~\E i \in DOMAIN q : q[i] = "DISCONNECT"
    BY <1>1, <1>2 DEF NoDisconnect
  <2>2. WrittenLength(k) = Len(q)
    BY <2>1 DEF WrittenLength, q
  <2> QED  BY <1>1, <2>1, <2>2 DEF q
<1>3. CASE D # {}
  <2>1. D \subseteq Nat
    BY <1>1
  <2>2. PICK i \in D : \A j \in D : ~(<<j, i>> \in OpToRel(<, Nat))
    BY <1>3, <2>1, NatLessThanWellFounded, WFMin
  <2>3. ASSUME NEW j \in 1..(i - 1), q[j] = "DISCONNECT"
        PROVE  FALSE
    <3>1. j \in D /\ j < i /\ i \in Nat /\ j \in Nat
      BY <1>1, <2>3
    <3>2. <<j, i>> \in OpToRel(<, Nat)
      BY <3>1 DEF OpToRel
    <3> QED  BY <2>2, <3>1, <3>2
  <2>4. /\ i \in DOMAIN q /\ q[i] = "DISCONNECT"
        /\ \A j \in 1..(i - 1) : q[j] # "DISCONNECT"
    BY <1>1, <2>3
  <2> DEFINE n == CHOOSE x \in DOMAIN q :
                    q[x] = "DISCONNECT" /\ \A j \in 1..(x - 1) : q[j] # "DISCONNECT"
  <2>5. n \in DOMAIN q /\ q[n] = "DISCONNECT" /\ \A j \in 1..(n - 1) : q[j] # "DISCONNECT"
    BY <2>4
  <2>6. WrittenLength(k) = n
    BY <2>4 DEF WrittenLength, q
  <2> HIDE DEF n
  <2>7. ~NoDisconnect(q)
    BY <1>1, <2>5 DEF NoDisconnect
  <2>8. n \in 1..Len(q) /\ n \in 0..Len(q)
    BY <1>1, <2>5
  <2> QED  BY <2>5, <2>6, <2>7, <2>8 DEF q
<1> QED  BY <1>2, <1>3

LEMMA PrefixFacts ==
  ASSUME NEW S, NEW q \in Seq(S), NEW n \in 0..Len(q)
  PROVE  /\ SubSeq(q, 1, n) \in Seq(S) /\ Len(SubSeq(q, 1, n)) = n
         /\ \A i \in 1..n : SubSeq(q, 1, n)[i] = q[i]
         /\ SubSeq(q, n + 1, Len(q)) \in Seq(S)
<1>1. n \in Nat /\ Len(q) \in Nat /\ n \in Int /\ Len(q) \in Int /\ n + 1 \in Int /\ 1 \in Int
      /\ (1 <= n => n - 1 + 1 = n) /\ (~(1 <= n) => n = 0)
      /\ (\A i \in 1..n : i \in 1..(n - 1 + 1) /\ 1 + i - 1 = i)
  OBVIOUS
<1>2. (\A i \in 1..n : q[i] \in S) /\ (\A i \in (n + 1)..Len(q) : q[i] \in S)
  OBVIOUS
<1>3. /\ SubSeq(q, 1, n) \in Seq(S)
      /\ Len(SubSeq(q, 1, n)) = IF 1 <= n THEN n - 1 + 1 ELSE 0
      /\ \A i \in 1..(n - 1 + 1) : SubSeq(q, 1, n)[i] = q[1 + i - 1]
  BY <1>1, <1>2, SubSeqProperties
<1>4. SubSeq(q, n + 1, Len(q)) \in Seq(S)
  BY <1>1, <1>2, SubSeqProperties
<1>5. \A i \in 1..n : SubSeq(q, 1, n)[i] = q[i]
  <2> TAKE i \in 1..n
  <2>1. i \in 1..(n - 1 + 1) /\ 1 + i - 1 = i
    BY <1>1
  <2> QED  BY <1>3, <2>1
<1> QED  BY <1>1, <1>3, <1>4, <1>5

\* What is written in the order of the queue stays in order: the CONNECT is
\* first, and a DISCONNECT last.
LEMMA OrderedConcat ==
  ASSUME NEW s \in Seq(Written), s # <<>>, Ordered(s), NoDisconnect(s),
         NEW w \in Seq(Written \ {"CONNECT"}),
         \A i \in 1..Len(w) : w[i] = "DISCONNECT" => i = Len(w)
  PROVE  /\ s \o w \in Seq(Written) /\ s \o w # <<>> /\ Ordered(s \o w)
         /\ NoDisconnect(w) => NoDisconnect(s \o w)
<1> DEFINE r == s \o w
<1>1. w \in Seq(Written)
  OBVIOUS
<1>2. Len(s) \in Nat \ {0} /\ Len(w) \in Nat
  BY EmptySeq
<1>3. /\ r \in Seq(Written) /\ Len(r) = Len(s) + Len(w)
      /\ \A i \in 1..Len(r) :
           \/ i \in 1..Len(s) /\ r[i] = s[i]
           \/ i - Len(s) \in 1..Len(w) /\ r[i] = w[i - Len(s)]
  BY <1>1, ConcatFacts
<1> HIDE DEF r
<1>4. r # <<>>
  <2> SUFFICES ASSUME r = <<>>
               PROVE  FALSE
    OBVIOUS
  <2>1. Len(r) = 0
    OBVIOUS
  <2> QED  BY <1>2, <1>3, <2>1
<1>5. ASSUME NEW i \in 1..Len(r)
      PROVE  /\ r[i] = "CONNECT" <=> i = 1
             /\ r[i] = "DISCONNECT" => i = Len(r)
  <2>1. CASE i \in 1..Len(s) /\ r[i] = s[i]
    BY <2>1 DEF Ordered, NoDisconnect
  <2>2. CASE i - Len(s) \in 1..Len(w) /\ r[i] = w[i - Len(s)]
    <3> DEFINE j == i - Len(s)
    <3>1. i # 1 /\ j \in 1..Len(w) /\ i \in Int /\ i = Len(s) + j
      BY <1>2, <1>3, <2>2
    <3>2. w[j] # "CONNECT"
      BY <3>1
    <3>3. w[j] = "DISCONNECT" => j = Len(w)
      BY <3>1
    <3> QED  BY <1>2, <1>3, <2>2, <3>1, <3>2, <3>3
  <2> QED  BY <1>3, <2>1, <2>2
<1>6. Ordered(r)
  BY <1>5 DEF Ordered
<1>7. ASSUME NoDisconnect(w)
      PROVE  NoDisconnect(r)
  <2> SUFFICES ASSUME NEW i \in 1..Len(r)
               PROVE  r[i] # "DISCONNECT"
    BY DEF NoDisconnect
  <2> QED  BY <1>3, <1>7 DEF NoDisconnect
<1> QED  BY <1>3, <1>4, <1>6, <1>7 DEF r

LEMMA TransmitTyped ==
  ASSUME NEW k, Good(k), k.sock # "none", NEW t, t = Transmit(k)
  PROVE  /\ Typed(t) /\ t.state = k.state /\ t.sock = k.sock
         /\ NoDisconnect(k.out) => Good(t)
<1> DEFINE q == k.out
           n == WrittenLength(k)
           p == SubSeq(q, 1, n)
           R == Packets \ {"PINGREQ"}
           w == Only(p, R)
           g == Only(p, {"PUBLISH1", "PINGREQ"})
           rest == SubSeq(q, n + 1, Len(q))
           b == IF k.sock = "open" THEN k.toBroker \o g ELSE k.toBroker
<1>1. q \in Seq(Queued) /\ k.sent \in Seq(Written) /\ k.toBroker \in Seq(Packets)
      /\ k.sent # <<>> /\ NoDisconnect(k.sent) /\ Ordered(k.sent)
  BY DEF Good, Typed, Fresh
<1>2. /\ n \in 0..Len(q)
      /\ IF NoDisconnect(q) THEN n = Len(q)
         ELSE /\ n \in 1..Len(q) /\ q[n] = "DISCONNECT"
              /\ \A j \in 1..(n - 1) : q[j] # "DISCONNECT"
  BY WrittenIs DEF Good
<1>3. /\ p \in Seq(Queued) /\ Len(p) = n /\ \A i \in 1..n : p[i] = q[i]
      /\ rest \in Seq(Queued)
  <2> HIDE DEF n, q
  <2> QED  BY <1>1, <1>2, PrefixFacts
<1>4. t = [k EXCEPT !.out = rest, !.sent = k.sent \o w, !.toBroker = b]
  BY DEF Transmit
<1> HIDE DEF n, p, rest, q
<1>5. /\ w \in Seq(Queued \cap R)
      /\ Among(w, p, Len(p))
      /\ Len(p) > 0 /\ p[Len(p)] \in R =>
           \E x \in Seq(Queued \cap R) :
             w = Append(x, p[Len(p)]) /\ Among(x, p, Len(p) - 1)
  <2> HIDE DEF R
  <2>1. p \in Seq(Queued)
    BY <1>3
  <2> QED  BY ONLY <2>1, OnlyFacts
<1>6. g \in Seq(Queued \cap {"PUBLISH1", "PINGREQ"})
  BY <1>3, OnlyFacts
<1>7. Queued \cap R \subseteq Written \ {"CONNECT"} /\ Queued \cap {"PUBLISH1", "PINGREQ"} \subseteq Packets
  BY DEF Queued, Written, Packets
<1> HIDE DEF w, g, R
<1>8. w \in Seq(Written \ {"CONNECT"})
  BY <1>5, <1>7
<1>9. b \in Seq(Packets)
  <2>1. g \in Seq(Packets)
    BY <1>6, <1>7
  <2>2. k.toBroker \o g \in Seq(Packets)
    BY <1>1, <2>1, ConcatProperties
  <2> QED  BY <1>1, <2>2
<1>10. ASSUME NoDisconnect(q)
       PROVE  NoDisconnect(w)
  <2> SUFFICES ASSUME NEW i \in 1..Len(w)
               PROVE  w[i] # "DISCONNECT"
    BY DEF NoDisconnect
  <2>1. PICK j \in 1..Len(p) : w[i] = p[j]
    BY <1>5 DEF Among
  <2>2. j \in 1..Len(q) /\ p[j] = q[j]
    BY <1>1, <1>2, <1>3
  <2> QED  BY <1>10, <2>1, <2>2 DEF NoDisconnect
<1>11. \A i \in 1..Len(w) : w[i] = "DISCONNECT" => i = Len(w)
  <2>1. CASE NoDisconnect(q)
    BY <1>10, <2>1 DEF NoDisconnect
  <2>2. CASE ~NoDisconnect(q)
    <3>1. n \in 1..Len(q) /\ n \in Nat /\ q[n] = "DISCONNECT"
          /\ \A j \in 1..(n - 1) : q[j] # "DISCONNECT"
      BY <1>2, <2>2
    <3>2. Len(p) > 0 /\ p[Len(p)] = "DISCONNECT" /\ "DISCONNECT" \in R
      BY <1>3, <3>1 DEF R, Packets
    <3>3. PICK x \in Seq(Queued \cap R) :
             w = Append(x, "DISCONNECT") /\ Among(x, p, Len(p) - 1)
      BY <1>5, <3>2
    <3>4. "DISCONNECT" \in Queued \cap R
      BY <3>2 DEF Queued
    <3> DEFINE d == "DISCONNECT"
    <3>5. \A i \in 1..Len(x) : x[i] # d
      <4> TAKE i \in 1..Len(x)
      <4>1. PICK j \in 1..(Len(p) - 1) : x[i] = p[j]
        BY <3>3 DEF Among
      <4>2. j \in 1..(n - 1) /\ j \in 1..n
        BY <1>3, <3>1
      <4> QED  BY <1>3, <3>1, <4>1, <4>2
    <3> HIDE DEF d
    <3>6. /\ Len(Append(x, d)) = Len(x) + 1
          /\ \A i \in 1..Len(Append(x, d)) : i \in 1..Len(x) \/ i = Len(x) + 1
          /\ \A i \in 1..Len(x) : Append(x, d)[i] = x[i]
      <4>1. d \in Queued \cap R
        BY <3>4 DEF d
      <4> QED  BY <4>1, AppendFacts
    <3>7. w = Append(x, d)
      BY <3>3 DEF d
    <3>8. \A i \in 1..Len(w) : w[i] = d => i = Len(w)
      BY <3>5, <3>6, <3>7
    <3> QED  BY <3>8 DEF d
  <2> QED  BY <2>1, <2>2
<1> DEFINE s == k.sent \o w
<1>12. /\ s \in Seq(Written) /\ s # <<>> /\ Ordered(s)
       /\ NoDisconnect(w) => NoDisconnect(s)
  <2> DEFINE z == k.sent
  <2>1. z \in Seq(Written) /\ z # <<>> /\ Ordered(z) /\ NoDisconnect(z)
    BY <1>1
  <2> HIDE DEF z
  <2>2. /\ z \o w \in Seq(Written) /\ z \o w # <<>> /\ Ordered(z \o w)
        /\ NoDisconnect(w) => NoDisconnect(z \o w)
    BY ONLY <1>8, <1>11, <2>1, OrderedConcat
  <2> QED  BY <2>2 DEF z
<1> HIDE DEF s, b
<1>13. /\ t.state = k.state /\ t.sock = k.sock /\ t.hasHost = k.hasHost /\ t.out = rest
       /\ t.ping = k.ping /\ t.alive = k.alive /\ t.toClient = k.toClient
       /\ t.toBroker = b
       /\ t.sent = s /\ t.accepted = k.accepted /\ t.asked = k.asked /\ t.told = k.told
       /\ t.ended = k.ended /\ t.waiting = k.waiting /\ t.resend = k.resend
       /\ t.reads = k.reads
       /\ IsClient(t)
  <2>1. t = [k EXCEPT !.out = rest, !.sent = s, !.toBroker = b]
    BY <1>4 DEF s
  <2> QED  BY <2>1 DEF Good, Typed, IsClient, Fields
<1>14. Typed(t)
  BY <1>3, <1>9, <1>12, <1>13 DEF Good, Typed
<1>15. ASSUME NoDisconnect(q)
       PROVE  Good(t)
  <2>1. Fresh(t)
    BY <1>10, <1>12, <1>13, <1>15 DEF Fresh
  <2>2. Waits(t)
    BY <1>13 DEF Good, Waits
  <2> QED  BY <1>14, <2>1, <2>2 DEF Good
<1> QED  BY <1>13, <1>14, <1>15 DEF q

LEMMA PacketWriteGood ==
  ASSUME NEW k, Good(k), NEW r \in Reactions, NEW n, n = PacketWrite(k, r)
  PROVE  Good(n)
<1> DEFINE t == Transmit(k)
           m == [t EXCEPT !.state = "disconnected", !.ended = TRUE]
<1>1. CASE ~CanWrite(k)
  BY <1>1 DEF PacketWrite
<1>2. CASE CanWrite(k)
  <2>1. k.sock # "none" /\ DOMAIN k.out = 1..Len(k.out)
    BY <1>2 DEF CanWrite, Good, Typed
  <2>2. /\ Typed(t) /\ t.state = k.state /\ t.sock = k.sock
        /\ NoDisconnect(k.out) => Good(t)
    BY <2>1, TransmitTyped
  <2>3. CASE NoDisconnect(k.out)
    <3>1. ~\E i \in DOMAIN k.out : k.out[i] = "DISCONNECT"
      BY <2>1, <2>3 DEF NoDisconnect
    <3>2. n = t
      BY <1>2, <3>1 DEF PacketWrite
    <3> QED  BY <2>2, <2>3, <3>2
  <2>4. CASE ~NoDisconnect(k.out)
    <3>1. \E i \in DOMAIN k.out : k.out[i] = "DISCONNECT"
      BY <2>1, <2>4 DEF NoDisconnect
    <3>2. n = OnDisconnect(m, "success", r)
      BY <1>2, <3>1 DEF PacketWrite
    <3> HIDE DEF t
    <3>3. /\ m.state = "disconnected" /\ m.sock = t.sock /\ m.hasHost = t.hasHost
          /\ m.out = t.out
          /\ m.ping = t.ping /\ m.alive = t.alive /\ m.toClient = t.toClient
          /\ m.toBroker = t.toBroker
          /\ m.sent = t.sent /\ m.accepted = t.accepted
          /\ m.asked = t.asked /\ m.told = t.told
          /\ m.ended = TRUE /\ m.waiting = t.waiting /\ m.resend = t.resend
          /\ m.reads = t.reads
          /\ IsClient(m)
      BY <2>2 DEF Typed, IsClient, Fields
    <3> HIDE DEF m
    <3>4. Typed(m) /\ Waits(m)
      BY <2>2, <3>3 DEF Typed, Waits
    <3> QED  BY <3>2, <3>4, OnDisconnectGood
  <2> QED  BY <2>3, <2>4
<1> QED  BY <1>1, <1>2

\* Whatever is appended to the queue of a connection that has a socket.
LEMMA QueuedGood ==
  ASSUME NEW k, Good(k), k.sock # "none", NEW q \in Seq(Queued), NEW r \in Reactions,
         NEW n, n = PacketWrite([k EXCEPT !.out = q], r)
  PROVE  Good(n)
<1> DEFINE m == [k EXCEPT !.out = q]
<1>1. /\ m.state = k.state /\ m.sock = k.sock /\ m.hasHost = k.hasHost /\ m.out = q
      /\ m.ping = k.ping /\ m.alive = k.alive /\ m.toClient = k.toClient
      /\ m.toBroker = k.toBroker
      /\ m.sent = k.sent /\ m.accepted = k.accepted /\ m.asked = k.asked /\ m.told = k.told
      /\ m.ended = k.ended /\ m.waiting = k.waiting /\ m.resend = k.resend
      /\ m.reads = k.reads
      /\ IsClient(m)
  BY DEF Good, Typed, IsClient, Fields
<1>2. n = PacketWrite(m, r)
  OBVIOUS
<1> HIDE DEF m
<1>3. Typed(m)
  BY <1>1 DEF Good, Typed
<1>4. Good(m)
  BY <1>1, <1>3 DEF Good, Waits, Fresh
<1> QED  BY <1>2, <1>4, PacketWriteGood

\* packet__queue on a connection that has a socket.
LEMMA PacketQueueGood ==
  ASSUME NEW k, Good(k), k.sock # "none", NEW p \in Queued, NEW r \in Reactions,
         NEW n, n = PacketQueue(k, p, r)
  PROVE  Good(n)
<1> DEFINE q == Append(k.out, p)
<1>1. q \in Seq(Queued)
  BY AppendFacts DEF Good, Typed
<1>2. n = PacketWrite([k EXCEPT !.out = q], r)
  BY DEF PacketQueue
<1> HIDE DEF q
<1> QED  BY <1>1, <1>2, QueuedGood

LEMMA SendPublishesGood ==
  ASSUME NEW k, Good(k), NEW p \in Queued, NEW j \in Nat, NEW r \in Reactions,
         NEW n, n = SendPublishes(k, p, j, r)
  PROVE  Good(n)
<1> DEFINE w == [i \in 1..j |-> p]
           q == k.out \o w
<1>1. CASE n = k
  BY <1>1
<1>2. CASE k.sock # "none" /\ n = PacketWrite([k EXCEPT !.out = q], r)
  <2>1. w \in Seq(Queued)
    OBVIOUS
  <2> HIDE DEF w
  <2>2. q \in Seq(Queued)
    BY <2>1, ConcatProperties DEF Good, Typed
  <2> HIDE DEF q
  <2> QED  BY <1>2, <2>2, QueuedGood
<1>3. n = k \/ (k.sock # "none" /\ n = PacketWrite([k EXCEPT !.out = q], r))
  BY DEF SendPublishes
<1> QED  BY <1>1, <1>2, <1>3

\* message__retry_check, whatever number of messages it sends from a list that was
\* freed.
LEMMA RetryCheckGood ==
  ASSUME NEW k, Good(k), NEW r \in Reactions, NEW stale \in Nat,
         NEW n, n = RetryCheck(k, r, stale)
  PROVE  Good(n)
<1> DEFINE first == SendPublishes(k, "PUBLISH1", 1, r)
<1>1. "PUBLISH" \in Queued /\ "PUBLISH1" \in Queued /\ 1 \in Nat
  BY DEF Queued
<1>2. Good(first)
  BY <1>1, SendPublishesGood
<1>3. \/ n = k
      \/ k.resend # 0 /\ n = SendPublishes(first, "PUBLISH1", k.resend - 1, r)
      \/ n = SendPublishes(first, "PUBLISH", stale, r)
  BY DEF RetryCheck
<1> HIDE DEF first
<1>4. k.resend # 0 => k.resend - 1 \in Nat
  BY DEF Good, Typed
<1> QED  BY <1>1, <1>2, <1>3, <1>4, SendPublishesGood

\* The end of a frame that failed.
LEMMA UpdateFailsGood ==
  ASSUME NEW k, Typed(k), Waits(k), NEW rc, NEW r \in Reactions, NEW o \in Outcomes,
         NEW n, n = UpdateFails(OnDisconnect(k, rc, r), o)
  PROVE  Good(n)
<1> DEFINE m == OnDisconnect(k, rc, r)
<1>1. Good(m)
  BY OnDisconnectGood
<1>2. n = Reconnect(m, o)
  BY DEF UpdateFails
<1> HIDE DEF m
<1> QED  BY <1>1, <1>2, ReconnectGood DEF Good

LEMMA LoopFailsGood ==
  ASSUME NEW k, Good(k), NEW error, NEW r \in Reactions, NEW o \in Outcomes,
         NEW n, n = LoopFails(k, error, r, o)
  PROVE  Good(n)
<1> DEFINE a == Note(k, "abandoned", error = "protocol" /\ k.sock = "open" /\ k.asked)
           m == [a EXCEPT !.reads = 0]
<1>0. Typed(a) /\ a.state = k.state /\ a.out = k.out /\ a.sock = k.sock
  BY NoteTyped DEF Good
<1>1. Typed(m) /\ m.state = k.state /\ m.out = k.out /\ m.sock = k.sock
  <2> HIDE DEF a
  <2>1. /\ m.state = a.state /\ m.sock = a.sock /\ m.hasHost = a.hasHost /\ m.out = a.out
        /\ m.ping = a.ping /\ m.alive = a.alive /\ m.toClient = a.toClient
        /\ m.toBroker = a.toBroker
        /\ m.sent = a.sent /\ m.accepted = a.accepted /\ m.asked = a.asked /\ m.told = a.told
        /\ m.ended = a.ended /\ m.waiting = a.waiting /\ m.resend = a.resend
        /\ m.reads = 0
        /\ IsClient(m)
    BY <1>0 DEF Typed, IsClient, Fields
  <2> HIDE DEF m
  <2> QED  BY <1>0, <2>1 DEF Typed
<1>2. \/ n = OnDisconnect(m, "success", r)
      \/ n = UpdateFails(OnDisconnect(m, error, r), o)
  BY DEF LoopFails
<1> HIDE DEF a, m
<1>3. Waits(m)
  BY <1>1 DEF Good, Waits
<1>4. CASE n = OnDisconnect(m, "success", r)
  BY <1>1, <1>3, <1>4, OnDisconnectGood
<1>5. CASE n = UpdateFails(OnDisconnect(m, error, r), o)
  BY <1>1, <1>3, <1>5, UpdateFailsGood
<1> QED  BY <1>2, <1>4, <1>5

-----------------------------------------------------------------------------
(***************************************************************************)
(* Types and order are an invariant.                                       *)
(***************************************************************************)
\* What writes nothing and opens nothing keeps it.
LEMMA StaysGood ==
  ASSUME NEW k, Good(k), NEW n, IsClient(n), n.sent = k.sent, n.out = k.out,
         n.state = k.state \/ n.state = "active",
         \/ n.sock = k.sock
         \/ k.sock # "none" /\ n.sock \in {"open", "full", "dead", "silent"},
         n.toClient \in Seq(Answers), n.toBroker \in Seq(Packets),
         n.hasHost \in BOOLEAN, n.ping \in BOOLEAN, n.alive \in BOOLEAN,
         n.accepted \in BOOLEAN, n.asked \in BOOLEAN, n.told \in BOOLEAN,
         n.ended \in BOOLEAN, n.waiting \in Nat, n.resend \in Nat, n.reads \in Nat
  PROVE  Good(n)
<1>1. Typed(n)
  BY DEF Good, Typed
<1>2. Waits(n) /\ Fresh(n)
  BY DEF Good, Waits, Fresh
<1> QED  BY <1>1, <1>2 DEF Good

Orderly == Good(c)

LEMMA InitOrderly == Init => Orderly
<1> SUFFICES ASSUME Init
             PROVE  Good(c)
  BY DEF Orderly
<1>1. Typed(c)
  BY SequenceFacts DEF Init, Typed, IsClient, Fields
<1> QED  BY <1>1 DEF Init, Good, Waits, Fresh

LEMMA TakenGood ==
  ASSUME Good(c), c.toClient # <<>>
  PROVE  Good(Taken) /\ Taken.toClient = Tail(c.toClient) /\ Taken.sock = c.sock
<1> DEFINE n == Taken
<1>0. Budget - 1 \in Nat
  BY DEF Budget, Good, Typed
<1>1. Tail(c.toClient) \in Seq(Answers)
  BY HeadTailProperties DEF Good, Typed
<1>2. /\ n.state = c.state /\ n.sock = c.sock /\ n.hasHost = c.hasHost /\ n.out = c.out
      /\ n.ping = c.ping /\ n.alive = c.alive /\ n.toClient = Tail(c.toClient)
      /\ n.toBroker = c.toBroker
      /\ n.sent = c.sent /\ n.accepted = c.accepted /\ n.asked = c.asked /\ n.told = c.told
      /\ n.ended = c.ended /\ n.waiting = c.waiting /\ n.resend = c.resend
      /\ n.reads = Budget - 1
      /\ IsClient(n)
  BY DEF Taken, Good, Typed, IsClient, Fields
<1> HIDE DEF n
<1>3. Good(n)
  BY <1>0, <1>1, <1>2, StaysGood DEF Good, Typed
<1> QED  BY <1>2, <1>3 DEF n

LEMMA UpdateGood == Good(c) /\ Update => Good(c')
<1> SUFFICES ASSUME Good(c), Update
             PROVE  Good(c')
  OBVIOUS
<1> USE ReactionsAssumption
<1>1. ASSUME NEW o \in Outcomes, UpdateNoConn(o)
      PROVE  Good(c')
  BY <1>1, ReconnectGood DEF UpdateNoConn, UpdateFails, Good
<1>2. ASSUME NEW r \in OnlineReactions, NEW r2 \in OfflineReactions,
             NEW stale \in 0..c.resend, UpdateReadConnack(r, r2, stale)
      PROVE  Good(c')
  <2> DEFINE t == Taken
             a == [t EXCEPT !.alive = TRUE, !.accepted = TRUE]
             b == React(a, r)
  <2>1. c.toClient # <<>> /\ stale \in Nat
    BY <1>2 DEF UpdateReadConnack, Incoming, Good, Typed
  <2>2. Good(t)
    BY <2>1, TakenGood
  <2>3. Good(a)
    <3> HIDE DEF t
    <3>1. /\ a.state = t.state /\ a.sock = t.sock /\ a.hasHost = t.hasHost /\ a.out = t.out
          /\ a.ping = t.ping /\ a.alive = TRUE /\ a.toClient = t.toClient
          /\ a.toBroker = t.toBroker
          /\ a.sent = t.sent /\ a.accepted = TRUE /\ a.asked = t.asked /\ a.told = t.told
          /\ a.ended = t.ended /\ a.waiting = t.waiting /\ a.resend = t.resend
          /\ a.reads = t.reads
          /\ IsClient(a)
      BY <2>2 DEF Good, Typed, IsClient, Fields
    <3> HIDE DEF a
    <3> QED  BY <2>2, <3>1, StaysGood DEF Good, Typed
  <2>4. Good(b)
    <3> HIDE DEF a
    <3> QED  BY <2>3, ReactGood
  <2> DEFINE d == [b EXCEPT !.state = "active"]
  <2>5. Good(d)
    <3> HIDE DEF b
    <3>1. /\ d.state = "active" /\ d.sock = b.sock /\ d.hasHost = b.hasHost
          /\ d.out = b.out /\ d.ping = b.ping /\ d.alive = b.alive
          /\ d.toClient = b.toClient /\ d.toBroker = b.toBroker
          /\ d.sent = b.sent /\ d.accepted = b.accepted
          /\ d.asked = b.asked /\ d.told = b.told
          /\ d.ended = b.ended /\ d.waiting = b.waiting /\ d.resend = b.resend
          /\ d.reads = b.reads
          /\ IsClient(d)
      BY <2>4 DEF Good, Typed, IsClient, Fields
    <3> HIDE DEF d
    <3> QED  BY <2>4, <3>1, StaysGood DEF Good, Typed
  <2> DEFINE e == RetryCheck(d, r2, stale)
  <2>6. Good(e)
    <3> HIDE DEF d
    <3> QED  BY <2>1, <2>5, RetryCheckGood
  <2> DEFINE reads == IF d.resend > 0 /\ d.sock = "full" THEN 0 ELSE e.reads
             n == c'
  <2>7. n = [e EXCEPT !.resend = 0, !.reads = reads]
    BY <1>2 DEF UpdateReadConnack
  <2>8. reads \in Nat
    <3> HIDE DEF d, e
    <3> QED  BY <2>6 DEF Good, Typed
  <2> HIDE DEF e, reads
  <2>9. /\ n.state = e.state /\ n.sock = e.sock /\ n.hasHost = e.hasHost /\ n.out = e.out
        /\ n.ping = e.ping /\ n.alive = e.alive /\ n.toClient = e.toClient
        /\ n.toBroker = e.toBroker
        /\ n.sent = e.sent /\ n.accepted = e.accepted /\ n.asked = e.asked /\ n.told = e.told
        /\ n.ended = e.ended /\ n.waiting = e.waiting /\ n.resend = 0
        /\ n.reads = reads
        /\ IsClient(n)
    BY <2>6, <2>7 DEF Good, Typed, IsClient, Fields
  <2>10. Good(n)
    <3> HIDE DEF n, d, b, a, t
    <3>1. /\ e.toClient \in Seq(Answers) /\ e.toBroker \in Seq(Packets)
          /\ e.hasHost \in BOOLEAN /\ e.ping \in BOOLEAN /\ e.alive \in BOOLEAN
          /\ e.accepted \in BOOLEAN /\ e.asked \in BOOLEAN /\ e.told \in BOOLEAN
          /\ e.ended \in BOOLEAN /\ e.waiting \in Nat /\ 0 \in Nat
      BY ONLY <2>6 DEF Good, Typed
    <3> QED  BY ONLY <2>6, <2>8, <2>9, <3>1, StaysGood
  <2> QED  BY <2>10
<1>3. ASSUME NEW r \in MessageReactions, UpdateReadPublish(r)
      PROVE  Good(c')
  <2> DEFINE t == Taken
  <2>1. c.toClient # <<>> /\ c' = React(t, r)
    BY <1>3 DEF UpdateReadPublish, Incoming
  <2>2. Good(t)
    BY <2>1, TakenGood
  <2> HIDE DEF t
  <2> QED  BY <2>1, <2>2, ReactGood
<1>4. CASE UpdateReadPingresp
  <2> DEFINE t == Taken
             n == c'
  <2>1. c.toClient # <<>> /\ n = [t EXCEPT !.ping = FALSE]
    BY <1>4 DEF UpdateReadPingresp, Incoming
  <2>2. Good(t)
    BY <2>1, TakenGood
  <2> HIDE DEF t
  <2>3. /\ n.state = t.state /\ n.sock = t.sock /\ n.hasHost = t.hasHost /\ n.out = t.out
        /\ n.ping = FALSE /\ n.alive = t.alive /\ n.toClient = t.toClient
        /\ n.toBroker = t.toBroker
        /\ n.sent = t.sent /\ n.accepted = t.accepted /\ n.asked = t.asked /\ n.told = t.told
        /\ n.ended = t.ended /\ n.waiting = t.waiting /\ n.resend = t.resend
        /\ n.reads = t.reads
        /\ IsClient(n)
    BY <2>1, <2>2 DEF Good, Typed, IsClient, Fields
  <2> QED  BY <2>2, <2>3, StaysGood DEF Good, Typed
<1>9. CASE UpdateReadPuback
  <2> DEFINE t == Taken
             n == c'
             w == IF t.waiting > 0 THEN t.waiting - 1 ELSE 0
  <2>1. c.toClient # <<>> /\ n = [t EXCEPT !.waiting = w]
    BY <1>9 DEF UpdateReadPuback, Incoming
  <2>2. Good(t)
    BY <2>1, TakenGood
  <2> HIDE DEF t
  <2>4. w \in Nat
    BY <2>2 DEF Good, Typed
  <2> HIDE DEF w
  <2>3. /\ n.state = t.state /\ n.sock = t.sock /\ n.hasHost = t.hasHost /\ n.out = t.out
        /\ n.ping = t.ping /\ n.alive = t.alive /\ n.toClient = t.toClient
        /\ n.toBroker = t.toBroker
        /\ n.sent = t.sent /\ n.accepted = t.accepted /\ n.asked = t.asked /\ n.told = t.told
        /\ n.ended = t.ended /\ n.waiting = w /\ n.resend = t.resend
        /\ n.reads = t.reads
        /\ IsClient(n)
    BY <2>1, <2>2 DEF Good, Typed, IsClient, Fields
  <2> QED  BY <2>2, <2>3, <2>4, StaysGood DEF Good, Typed
<1>10. CASE UpdateReadNothing
  <2> DEFINE n == c'
  <2>1. n = [c EXCEPT !.reads = 0]
    BY <1>10 DEF UpdateReadNothing
  <2>2. /\ n.state = c.state /\ n.sock = c.sock /\ n.hasHost = c.hasHost /\ n.out = c.out
        /\ n.ping = c.ping /\ n.alive = c.alive /\ n.toClient = c.toClient
        /\ n.toBroker = c.toBroker
        /\ n.sent = c.sent /\ n.accepted = c.accepted /\ n.asked = c.asked /\ n.told = c.told
        /\ n.ended = c.ended /\ n.waiting = c.waiting /\ n.resend = c.resend
        /\ n.reads = 0
        /\ IsClient(n)
    BY <2>1 DEF Good, Typed, IsClient, Fields
  <2> QED  BY <2>2, StaysGood DEF Good, Typed
<1>5. ASSUME NEW r \in OfflineReactions, NEW r2 \in OfflineReactions, NEW o \in Outcomes,
             UpdateReadRefused(r, r2, o)
      PROVE  Good(c')
  <2> DEFINE t == Taken
             a == [t EXCEPT !.alive = FALSE]
             b == React(a, r)
  <2>1. c.toClient # <<>> /\ c' = LoopFails(b, "conn_refused", r2, o)
    BY <1>5 DEF UpdateReadRefused, Incoming
  <2>2. Good(t)
    BY <2>1, TakenGood
  <2>3. Good(a)
    <3> HIDE DEF t
    <3>1. /\ a.state = t.state /\ a.sock = t.sock /\ a.hasHost = t.hasHost /\ a.out = t.out
          /\ a.ping = t.ping /\ a.alive = FALSE /\ a.toClient = t.toClient
          /\ a.toBroker = t.toBroker
          /\ a.sent = t.sent /\ a.accepted = t.accepted
          /\ a.asked = t.asked /\ a.told = t.told
          /\ a.ended = t.ended /\ a.waiting = t.waiting /\ a.resend = t.resend
          /\ a.reads = t.reads
          /\ IsClient(a)
      BY <2>2 DEF Good, Typed, IsClient, Fields
    <3> HIDE DEF a
    <3> QED  BY <2>2, <3>1, StaysGood DEF Good, Typed
  <2>4. Good(b)
    <3> HIDE DEF a
    <3> QED  BY <2>3, ReactGood
  <2> HIDE DEF b
  <2> QED  BY <2>1, <2>4, LoopFailsGood
<1>6. ASSUME NEW r \in OfflineReactions, NEW o \in Outcomes, UpdateReadUnexpected(r, o)
      PROVE  Good(c')
  <2> DEFINE t == Taken
  <2>1. c.toClient # <<>> /\ c' = LoopFails(t, "protocol", r, o)
    BY <1>6 DEF UpdateReadUnexpected, Incoming
  <2>2. Good(t)
    BY <2>1, TakenGood
  <2> HIDE DEF t
  <2> QED  BY <2>1, <2>2, LoopFailsGood
<1>7. ASSUME NEW r \in OfflineReactions, NEW o \in Outcomes,
             UpdateReadFails(r, o) \/ UpdateReadNoConn(r, o)
      PROVE  Good(c')
  BY <1>7, LoopFailsGood DEF UpdateReadFails, UpdateReadNoConn
<1>8. ASSUME NEW r \in OfflineReactions, NEW o \in Outcomes, UpdateWrite(r, o)
      PROVE  Good(c')
  BY <1>8, PacketWriteGood, LoopFailsGood DEF UpdateWrite
<1> QED  BY <1>1, <1>2, <1>3, <1>4, <1>5, <1>6, <1>7, <1>8, <1>9, <1>10 DEF Update

LEMMA KeepaliveGood == Good(c) /\ Keepalive => Good(c')
<1> SUFFICES ASSUME Good(c), NEW r \in OfflineReactions,
                    KeepalivePing(r) \/ \E o \in Outcomes : KeepaliveClose(r, o)
             PROVE  Good(c')
  BY DEF Keepalive
<1>0. r \in Reactions
  BY ReactionsAssumption
<1>1. CASE KeepalivePing(r)
  <2> DEFINE q == PacketQueue(c, "PINGREQ", r)
             n == c'
  <2>1. c.sock # "none" /\ n = [q EXCEPT !.ping = TRUE]
    BY <1>1 DEF KeepalivePing, Quiet
  <2>2. Good(q)
    <3>1. "PINGREQ" \in Queued
      BY DEF Queued
    <3> QED  BY <1>0, <2>1, <3>1, PacketQueueGood
  <2> HIDE DEF q
  <2>3. /\ n.state = q.state /\ n.sock = q.sock /\ n.hasHost = q.hasHost /\ n.out = q.out
        /\ n.ping = TRUE /\ n.alive = q.alive /\ n.toClient = q.toClient
        /\ n.toBroker = q.toBroker
        /\ n.sent = q.sent /\ n.accepted = q.accepted /\ n.asked = q.asked /\ n.told = q.told
        /\ n.ended = q.ended /\ n.waiting = q.waiting /\ n.resend = q.resend
        /\ n.reads = q.reads
        /\ IsClient(n)
    BY <2>1, <2>2 DEF Good, Typed, IsClient, Fields
  <2> QED  BY <2>2, <2>3, StaysGood DEF Good, Typed
<1>2. ASSUME NEW o \in Outcomes, KeepaliveClose(r, o)
      PROVE  Good(c')
  BY <1>0, <1>2, UpdateFailsGood DEF KeepaliveClose, Good
<1> QED  BY <1>1, <1>2

LEMMA ApplicationGood == Good(c) /\ Application => Good(c')
<1> SUFFICES ASSUME Good(c), Application
             PROVE  Good(c')
  OBVIOUS
<1> USE ReactionsAssumption
<1>1. ASSUME NEW o \in Outcomes, CallConnect(o)
      PROVE  Good(c')
  BY <1>1, ConnectGood DEF CallConnect, Good
<1>2. ASSUME NEW r \in OfflineReactions, CallDisconnect(r)
      PROVE  Good(c')
  <2> DEFINE q == QueueDisconnect(c)
  <2>1. Good(q)
    BY QueueDisconnectGood DEF Good
  <2>2. c' = PacketWrite(q, r)
    BY <1>2 DEF CallDisconnect
  <2> HIDE DEF q
  <2> QED  BY <2>1, <2>2, PacketWriteGood
<1>3. ASSUME NEW r \in OfflineReactions, CallPublish(r)
      PROVE  Good(c')
  <2> DEFINE q == [c EXCEPT !.calls = @ + 1]
  <2>1. /\ q.state = c.state /\ q.sock = c.sock /\ q.hasHost = c.hasHost /\ q.out = c.out
        /\ q.ping = c.ping /\ q.alive = c.alive /\ q.toClient = c.toClient
        /\ q.toBroker = c.toBroker
        /\ q.sent = c.sent /\ q.accepted = c.accepted /\ q.asked = c.asked /\ q.told = c.told
        /\ q.ended = c.ended /\ q.waiting = c.waiting /\ q.resend = c.resend
        /\ q.reads = c.reads
        /\ IsClient(q)
    BY DEF Good, Typed, IsClient, Fields
  <2>2. c.sock # "none" /\ c' = PacketQueue(q, "PUBLISH", r) /\ "PUBLISH" \in Queued
    BY <1>3 DEF CallPublish, Queued
  <2> HIDE DEF q
  <2>3. Good(q)
    BY <2>1, StaysGood DEF Good, Typed
  <2> QED  BY <2>1, <2>2, <2>3, PacketQueueGood
<1>4. ASSUME NEW r \in OfflineReactions, CallPublishKept(r)
      PROVE  Good(c')
  <2> DEFINE w == c.waiting + 1
             q == [c EXCEPT !.waiting = w, !.calls = @ + 1]
  <2>1. w \in Nat
    BY DEF Good, Typed
  <2> HIDE DEF w
  <2>2. /\ q.state = c.state /\ q.sock = c.sock /\ q.hasHost = c.hasHost /\ q.out = c.out
        /\ q.ping = c.ping /\ q.alive = c.alive /\ q.toClient = c.toClient
        /\ q.toBroker = c.toBroker
        /\ q.sent = c.sent /\ q.accepted = c.accepted /\ q.asked = c.asked /\ q.told = c.told
        /\ q.ended = c.ended /\ q.waiting = w /\ q.resend = c.resend
        /\ q.reads = c.reads
        /\ IsClient(q)
    BY DEF Good, Typed, IsClient, Fields
  <2>3. c' = SendPublishes(q, "PUBLISH1", 1, r) /\ "PUBLISH1" \in Queued /\ 1 \in Nat
    BY <1>4 DEF CallPublishKept, Queued, w
  <2> HIDE DEF q
  <2>4. Good(q)
    BY <2>1, <2>2, StaysGood DEF Good, Typed
  <2> QED  BY <2>3, <2>4, SendPublishesGood
<1> QED  BY <1>1, <1>2, <1>3, <1>4 DEF Application

\* The network and the broker change what is on the way and whether the socket
\* works.
LEMMA NetworkGood ==
  Good(c) /\ (BrokerAnswers \/ BrokerPublish \/ BrokerCloses \/ Fault \/ Drain) => Good(c')
<1> SUFFICES ASSUME Good(c),
                    BrokerAnswers \/ BrokerPublish \/ BrokerCloses \/ Fault \/ Drain
             PROVE  Good(c')
  OBVIOUS
<1> DEFINE n == c'
<1>0. c.toClient \in Seq(Answers) /\ c.toBroker \in Seq(Packets)
  BY DEF Good, Typed
<1>1. ASSUME NEW p, NEW a \in Seq(Answers), BrokerAnswer(p, a)
      PROVE  Good(n)
  <2> DEFINE rest == Tail(c.toBroker)
             all == c.toClient \o a
  <2>1. rest \in Seq(Packets)
    BY <1>0, <1>1, HeadTailProperties DEF BrokerAnswer
  <2>2. all \in Seq(Answers)
    BY <1>0, ConcatProperties
  <2>3. \E f : n = [c EXCEPT !.toBroker = rest, !.toClient = all, !.faults = f]
    BY <1>1 DEF BrokerAnswer
  <2> HIDE DEF rest, all
  <2>4. /\ n.state = c.state /\ n.sock = c.sock /\ n.hasHost = c.hasHost /\ n.out = c.out
        /\ n.ping = c.ping /\ n.alive = c.alive /\ n.toClient = all /\ n.toBroker = rest
        /\ n.sent = c.sent /\ n.accepted = c.accepted /\ n.asked = c.asked /\ n.told = c.told
        /\ n.ended = c.ended /\ n.waiting = c.waiting /\ n.resend = c.resend
        /\ n.reads = c.reads
        /\ IsClient(n)
    BY <2>3 DEF Good, Typed, IsClient, Fields
  <2> QED  BY <2>1, <2>2, <2>4, StaysGood DEF Good, Typed
<1>2. CASE BrokerAnswers
  <2>1. /\ <<"CONNACK">> \in Seq(Answers) /\ <<"PINGRESP">> \in Seq(Answers)
        /\ <<"PUBACK">> \in Seq(Answers)
        /\ <<"REFUSED", "EOF">> \in Seq(Answers)
    BY DEF Answers
  <2> QED  BY <1>1, <1>2, <2>1 DEF BrokerAnswers
<1>3. ASSUME NEW a \in Answers, NEW f, NEW g,
             n = [c EXCEPT !.toClient = Append(@, a), !.calls = f, !.faults = g]
      PROVE  Good(n)
  <2> DEFINE all == Append(c.toClient, a)
  <2>1. all \in Seq(Answers)
    BY <1>0, AppendFacts
  <2>2. n = [c EXCEPT !.toClient = all, !.calls = f, !.faults = g]
    BY <1>3
  <2> HIDE DEF all
  <2>3. /\ n.state = c.state /\ n.sock = c.sock /\ n.hasHost = c.hasHost /\ n.out = c.out
        /\ n.ping = c.ping /\ n.alive = c.alive /\ n.toClient = all
        /\ n.toBroker = c.toBroker
        /\ n.sent = c.sent /\ n.accepted = c.accepted /\ n.asked = c.asked /\ n.told = c.told
        /\ n.ended = c.ended /\ n.waiting = c.waiting /\ n.resend = c.resend
        /\ n.reads = c.reads
        /\ IsClient(n)
    BY <2>2 DEF Good, Typed, IsClient, Fields
  <2> QED  BY <2>1, <2>3, StaysGood DEF Good, Typed
<1>4. CASE BrokerPublish \/ BrokerCloses
  <2>1. "PUBLISH" \in Answers /\ "EOF" \in Answers
    BY DEF Answers
  <2>2. \E a \in Answers : \E f, g :
          n = [c EXCEPT !.toClient = Append(@, a), !.calls = f, !.faults = g]
    <3>1. CASE BrokerPublish
      <4>1. n = [c EXCEPT !.toClient = Append(@, "PUBLISH"), !.calls = c.calls + 1,
                          !.faults = c.faults]
        BY <3>1 DEF BrokerPublish, Good, Typed, IsClient, Fields
      <4> QED  BY <2>1, <4>1
    <3>2. CASE BrokerCloses
      <4>1. n = [c EXCEPT !.toClient = Append(@, "EOF"), !.calls = c.calls,
                          !.faults = c.faults + 1]
        BY <3>2 DEF BrokerCloses, Good, Typed, IsClient, Fields
      <4> QED  BY <2>1, <4>1
    <3> QED  BY <1>4, <3>1, <3>2
  <2> QED  BY <1>3, <2>2
<1>5. ASSUME NEW sock \in {"open", "full", "dead", "silent"}, NEW f,
             c.sock # "none", n = [c EXCEPT !.sock = sock, !.faults = f]
      PROVE  Good(n)
  <2>1. /\ n.state = c.state /\ n.sock = sock /\ n.hasHost = c.hasHost /\ n.out = c.out
        /\ n.ping = c.ping /\ n.alive = c.alive /\ n.toClient = c.toClient
        /\ n.toBroker = c.toBroker
        /\ n.sent = c.sent /\ n.accepted = c.accepted /\ n.asked = c.asked /\ n.told = c.told
        /\ n.ended = c.ended /\ n.waiting = c.waiting /\ n.resend = c.resend
        /\ n.reads = c.reads
        /\ IsClient(n)
    BY <1>5 DEF Good, Typed, IsClient, Fields
  <2> QED  BY <1>0, <1>5, <2>1, StaysGood DEF Good, Typed
<1>6. CASE Fault \/ Drain
  <2>1. CASE Fault
    <3>1. PICK sock \in {"dead", "silent", "full"} :
            /\ c.sock # "none"
            /\ c' = [c EXCEPT !.sock = sock, !.faults = @ + 1]
      BY <2>1 DEF Fault
    <3> QED  BY <1>5, <3>1
  <2>2. CASE Drain
    <3>1. c.sock # "none" /\ n = [c EXCEPT !.sock = "open", !.faults = c.faults]
      BY <2>2 DEF Drain, Good, Typed, IsClient, Fields
    <3> QED  BY <1>5, <3>1
  <2> QED  BY <1>6, <2>1, <2>2
<1> QED  BY <1>2, <1>4, <1>6

LEMMA OrderlyInductive == Orderly /\ [Next]_vars => Orderly'
<1>1. Good(c) /\ UNCHANGED vars => Good(c')
  BY DEF vars
<1>2. Good(c) /\ Next => Good(c')
  BY UpdateGood, KeepaliveGood, ApplicationGood, NetworkGood DEF Next
<1> QED  BY <1>1, <1>2 DEF Orderly

-----------------------------------------------------------------------------
\* The record has its type; a client that waits to connect has neither a socket
\* nor packets.
THEOREM TypeCorrect == Spec => []TypeOK
<1>1. Orderly => TypeOK
  <2> SUFFICES ASSUME Good(c)
               PROVE  TypeOK
    BY DEF Orderly
  <2>1. Queued \subseteq Packets
    BY DEF Queued, Packets
  <2>2. c.out \in Seq(Packets)
    BY <2>1 DEF Good, Typed
  <2> QED  BY <2>2 DEF Good, Typed, Waits, Answers, TypeOK
<1> QED  BY <1>1, InitOrderly, OrderlyInductive, PTL DEF Spec

\* On every connection the CONNECT is written first and once, and nothing is
\* written after a DISCONNECT, whatever the application does in its events,
\* and whenever the network fails.
THEOREM WrittenInOrder == Spec => []WireOrder
<1>1. Orderly => WireOrder
  BY DEF Orderly, Good, Typed, Ordered, WireOrder
<1> QED  BY <1>1, InitOrderly, OrderlyInductive, PTL DEF Spec

=============================================================================
