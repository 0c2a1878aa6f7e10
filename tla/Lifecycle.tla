------------------------------ MODULE Lifecycle ------------------------------
(***************************************************************************)
(* The life of a client's connections: ofxMQTT and the part of             *)
(* libmosquitto that opens, supervises and closes the socket.  update()    *)
(* runs mosquitto_loop and, when that fails, mosquitto_reconnect in the    *)
(* same frame; the application calls connect, disconnect and publish       *)
(* between frames and may call them again from the events.  The network    *)
(* and the broker are external.  Everything runs on one thread, so a step  *)
(* is one read, one write or one check of a frame with all the callbacks   *)
(* it makes.                                                               *)
(***************************************************************************)
EXTENDS Integers, Sequences

CONSTANTS
  ConnectsAgain,     \* the application may call connect() while connected
  OnlineReactions,   \* what the application does in onOnline
  OfflineReactions,  \* in onOffline
  MessageReactions,  \* in onMessage
  MaxWaiting,        \* bound: QoS 1 messages that wait for their PUBACK
  MaxCalls,          \* bound: calls of the application, messages of the broker
  MaxFaults          \* bound: failures of the network and refusals

(***************************************************************************)
(* What an attempt to connect comes to: the TCP connection is refused, the *)
(* CONNECT cannot be written, or both succeed.  A reaction is "none",      *)
(* "disconnect", or a call of connect() named by its outcome.              *)
(***************************************************************************)
Outcomes == {"established", "tcp_refused", "connect_unsent"}
Reactions == {"none", "disconnect"} \cup Outcomes

ASSUME FlagAssumption == ConnectsAgain \in BOOLEAN
ASSUME ReactionsAssumption ==
  \A R \in {OnlineReactions, OfflineReactions, MessageReactions} :
    "none" \in R /\ R \subseteq Reactions
ASSUME BoundsAssumption == MaxWaiting \in Nat /\ MaxCalls \in Nat /\ MaxFaults \in Nat

\* PUBLISH has QoS 0, PUBLISH1 QoS 1.
Packets == {"CONNECT", "PUBLISH", "PUBLISH1", "PINGREQ", "DISCONNECT"}

\* The client and its connection, a record:
\*   state, out, ping  mosq->state, the out_packet queue, ping_t # 0
\*   hasHost           mosq->host # NULL: connect() has been called
\*   sock              "none", "open", "full" (a write says EAGAIN), "dead" (a
\*                     write or read fails), "silent" (packets vanish unnoticed)
\*   waiting           msgs_out.queue_len: messages without their PUBACK
\*   resend            those of them that the next CONNACK sends again
\*   reads             packets this mosquitto_loop_read may still read, 0 outside
\*                     it: i and max_packets
\*   alive             ofxMQTT::alive, which connected() returns
\*   toClient,toBroker packets on the way
\*   sent              history: packets written on this connection, no PINGREQ
\*   accepted          history: onOnline was called for this connection
\*   asked             history: disconnect() was called for it, and it is open
\*   ended             history: its DISCONNECT was written
\*   told              history: on_disconnect was called for it
\*   wrong             history: names of promises the client broke
\*   calls, faults     bounds: calls and faults so far
VARIABLE c

vars == c

-----------------------------------------------------------------------------
(***************************************************************************)
(* Opening and closing.                                                    *)
(***************************************************************************)
Close(k) ==
  [k EXCEPT !.sock = "none", !.toClient = <<>>, !.toBroker = <<>>, !.asked = FALSE]

Note(k, what, condition) ==
  IF condition THEN [k EXCEPT !.wrong = @ \cup {what}] ELSE k

\* Mutant: packet__cleanup_all is not called.
ReconnectKeepsQueue(k, o) ==
  IF o = "established"
  THEN [Close(k) EXCEPT !.state = "connected", !.sock = "open", !.ping = FALSE,
                        !.out = <<>>, !.toBroker = <<"CONNECT">>,
                        !.sent = k.out \o <<"CONNECT">>, !.resend = k.waiting,
                        !.accepted = FALSE, !.ended = FALSE, !.told = FALSE]
  ELSE [Close(k) EXCEPT !.state = IF o = "tcp_refused" THEN "connect_pending" ELSE "new",
                        !.ping = FALSE, !.resend = k.waiting, !.accepted = FALSE,
                        !.faults = @ + 1]

\* mosquitto__reconnect: the queue is emptied, every message in msgs_out is to be
\* sent again, the old socket closed without a callback, and the CONNECT written
\* on the new one.
Reconnect(k, o) ==
  IF o = "established"
  THEN [Close(k) EXCEPT !.state = "connected", !.sock = "open", !.ping = FALSE,
                        !.out = <<>>, !.toBroker = <<"CONNECT">>, !.sent = <<"CONNECT">>,
                        !.resend = k.waiting,
                        !.accepted = FALSE, !.ended = FALSE, !.told = FALSE]
  ELSE [Close(k) EXCEPT !.state = IF o = "tcp_refused" THEN "connect_pending" ELSE "new",
                        !.out = <<>>, !.ping = FALSE, !.resend = k.waiting,
                        !.accepted = FALSE, !.faults = @ + 1]

\* ofxMQTT::connect.  mosquitto_reinitialise closes the socket, frees msgs_out and
\* resets the structure; alive belongs to ofxMQTT and stays, and so does what
\* mosquitto_loop_read has on its stack.
Connect(k, o) ==
  [Reconnect([k EXCEPT !.waiting = 0], o) EXCEPT !.hasHost = TRUE, !.calls = @ + 1]

\* mosquitto_disconnect in a callback: the DISCONNECT is only queued.
QueueDisconnect(k) ==
  IF k.sock = "none" THEN [k EXCEPT !.state = "disconnected", !.calls = @ + 1]
  ELSE [k EXCEPT !.state = "disconnected", !.asked = TRUE, !.calls = @ + 1,
                 !.out = Append(@, "DISCONNECT")]

React(k, r) ==
  CASE r = "none"       -> k
    [] r = "disconnect" -> QueueDisconnect(k)
    [] r \in Outcomes   -> Connect(k, r)

\* on_disconnect with the given reason; socket closed, then the callback.
OnDisconnect(k, rc, r) ==
  LET reason == Note(k, "reason", rc # "success" /\ k.asked)
      twice == Note(reason, "twice", k.told)
      lost == Note(twice, "lost_twice", k.told /\ ~k.ended)
  IN React([Close(lost) EXCEPT !.alive = FALSE, !.told = TRUE], r)

-----------------------------------------------------------------------------
(***************************************************************************)
(* Writing.  packet__write writes the queue until the socket stops it, or  *)
(* until a DISCONNECT is out: do_client_disconnect then closes the socket  *)
(* and leaves the rest of the queue where it is.                           *)
(***************************************************************************)
\* What packet__write writes of k.out: all of it, or up to the DISCONNECT.
WrittenLength(k) ==
  IF \E i \in DOMAIN k.out : k.out[i] = "DISCONNECT"
  THEN CHOOSE i \in DOMAIN k.out :
         k.out[i] = "DISCONNECT" /\ \A j \in 1..(i - 1) : k.out[j] # "DISCONNECT"
  ELSE Len(k.out)

\* Those packets of q that are in P.
Only(q, P) ==
  LET kept[i \in 0..Len(q)] ==
        IF i = 0 THEN <<>>
        ELSE IF q[i] \in P THEN Append(kept[i - 1], q[i]) ELSE kept[i - 1]
  IN kept[Len(q)]

CanWrite(k) == k.sock \in {"open", "silent"}

Transmit(k) ==
  LET n == WrittenLength(k)
      packets == SubSeq(k.out, 1, n)
  IN [k EXCEPT !.out = SubSeq(@, n + 1, Len(@)),
               !.sent = @ \o Only(packets, Packets \ {"PINGREQ"}),
               !.toBroker = IF k.sock = "open"
                            THEN @ \o Only(packets, {"PUBLISH1", "PINGREQ"})
                            ELSE @]

PacketWrite(k, r) ==
  IF ~CanWrite(k) THEN k
  ELSE IF \E i \in DOMAIN k.out : k.out[i] = "DISCONNECT"
       THEN OnDisconnect([Transmit(k) EXCEPT !.state = "disconnected", !.ended = TRUE],
                         "success", r)
       ELSE Transmit(k)

\* packet__queue outside callbacks.
PacketQueue(k, p, r) == PacketWrite([k EXCEPT !.out = Append(@, p)], r)

\* send__publish of n messages outside callbacks: nothing without a socket.
SendPublishes(k, p, n, r) ==
  IF k.sock = "none" \/ n = 0 THEN k
  ELSE PacketWrite([k EXCEPT !.out = @ \o [i \in 1..n |-> p]], r)

\* message__retry_check.  A DISCONNECT in the queue goes out with the first
\* message; if onOffline then calls connect(), the list is freed in the middle of
\* the loop, which sends whatever number stale of messages it finds there.
RetryCheck(k, r, stale) ==
  LET first == SendPublishes(k, "PUBLISH1", 1, r)
  IN IF k.resend = 0 THEN k
     ELSE IF first.waiting = k.waiting
     THEN SendPublishes(first, "PUBLISH1", k.resend - 1, r)
     ELSE SendPublishes(first, "PUBLISH", stale, r)

-----------------------------------------------------------------------------
(***************************************************************************)
(* The end of a frame.                                                     *)
(***************************************************************************)
\* update(): mosquitto_loop returned an error.
UpdateFails(k, o) == Reconnect(k, o)

\* Mutant: mosquitto_loop_read goes on after an error.
LoopFailsGoesOn(k, error, r, o) ==
  LET expected == k.state = "disconnected"
      rc == IF expected THEN "success" ELSE error
      closed == OnDisconnect(k, rc, r)
  IN IF expected THEN closed ELSE UpdateFails(closed, o)

\* mosquitto__loop_rc_handle with an error, which ends mosquitto_loop_read, then
\* the end of update(): after disconnect() the error counts as success and the
\* frame does not reconnect.
LoopFails(k, error, r, o) ==
  LET expected == k.state = "disconnected"
      rc == IF expected THEN "success" ELSE error
      noted == Note(k, "abandoned",
                    error = "protocol" /\ k.sock = "open" /\ k.asked)
      closed == OnDisconnect([noted EXCEPT !.reads = 0], rc, r)
  IN IF expected THEN closed ELSE UpdateFails(closed, o)

-----------------------------------------------------------------------------
(***************************************************************************)
(* update().                                                               *)
(***************************************************************************)
\* Mutant: after disconnect() the client stays away.
UpdateNoConnOnlyAfterLoss(o) ==
  /\ c.reads = 0
  /\ c.sock = "none" /\ c.hasHost /\ c.state # "disconnected"
  /\ c' = UpdateFails(c, o)

\* No socket: mosquitto_loop returns MOSQ_ERR_NO_CONN at once.
UpdateNoConn(o) ==
  /\ c.reads = 0
  /\ c.sock = "none" /\ c.hasHost
  /\ c' = UpdateFails(c, o)

\* mosquitto_loop_read reads as many packets as there are messages in msgs_out
\* when it starts, at least one, each in a step of its own.
Budget == IF c.reads > 0 THEN c.reads ELSE IF c.waiting > 1 THEN c.waiting ELSE 1

\* The packet at the head of toClient.
Incoming(packet) == c.sock # "none" /\ c.toClient # <<>> /\ Head(c.toClient) = packet

Taken == [c EXCEPT !.toClient = Tail(@), !.reads = Budget - 1]

\* handle__connack, accepted: ofxMQTT::_on_connect sets alive and calls
\* onOnline; the state becomes active whatever onOnline did, and the messages of
\* earlier connections are sent.  A full socket leaves EAGAIN in errno, which
\* ends mosquitto_loop_read.
UpdateReadConnack(r, r2, stale) ==
  LET called == [React([Taken EXCEPT !.alive = TRUE, !.accepted = TRUE], r)
                   EXCEPT !.state = "active"]
      retried == RetryCheck(called, r2, stale)
      blocked == called.resend > 0 /\ called.sock = "full"
  IN /\ Incoming("CONNACK")
     /\ c' = [retried EXCEPT !.resend = 0, !.reads = IF blocked THEN 0 ELSE @]

\* handle__connack, refused: onOffline from _on_connect, and again from the
\* on_disconnect that follows the error.
UpdateReadRefused(r, r2, o) ==
  /\ Incoming("REFUSED")
  /\ c' = LoopFails(React([Taken EXCEPT !.alive = FALSE], r), "conn_refused", r2, o)

\* handle__publish, handle__pubackcomp and handle__pingresp refuse a packet in
\* another state.
UpdateReadUnexpected(r, o) ==
  /\ Incoming("PUBLISH") \/ Incoming("PUBACK") \/ Incoming("PINGRESP")
  /\ c.state # "active"
  /\ c' = LoopFails(Taken, "protocol", r, o)

UpdateReadPublish(r) ==
  /\ Incoming("PUBLISH") /\ c.state = "active"
  /\ c' = React(Taken, r)

\* handle__pubackcomp; a message that connect() freed is not found, which is no
\* error.
UpdateReadPuback ==
  /\ Incoming("PUBACK") /\ c.state = "active"
  /\ c' = [Taken EXCEPT !.waiting = IF @ > 0 THEN @ - 1 ELSE 0]

UpdateReadPingresp ==
  /\ Incoming("PINGRESP") /\ c.state = "active"
  /\ c' = [Taken EXCEPT !.ping = FALSE]

\* read() returns 0 or fails.
UpdateReadFails(r, o) ==
  /\ Incoming("EOF") \/ (c.sock = "dead" /\ c.toClient = <<>>)
  /\ c' = LoopFails(c, "conn_lost", r, o)

\* A further packet__read finds no socket: a callback of the packet before closed
\* it.  on_disconnect is called for that too.
UpdateReadNoConn(r, o) ==
  /\ c.reads > 0 /\ c.sock = "none"
  /\ c' = LoopFails(c, "no_conn", r, o)

\* A further packet__read finds nothing: EAGAIN.
UpdateReadNothing ==
  /\ c.reads > 0 /\ c.sock \in {"open", "full", "silent"} /\ c.toClient = <<>>
  /\ c' = [c EXCEPT !.reads = 0]

\* mosquitto_loop_write.
UpdateWrite(r, o) ==
  /\ c.reads = 0
  /\ c.out # <<>>
  /\ \/ CanWrite(c) /\ c' = PacketWrite(c, r)
     \/ c.sock = "dead" /\ c' = LoopFails(c, "conn_lost", r, o)

\* Nobody owes the other an answer, or the answer cannot come: only then does a
\* keepalive interval pass in silence without a fault.
Quiet ==
  /\ c.reads = 0
  /\ c.toClient = <<>>
  /\ c.sock \in {"silent", "full"} \/ (c.sock = "open" /\ c.toBroker = <<>>)

\* mosquitto__check_keepalive, an interval after the last packet: a PINGREQ,
\* and then ping_t is set, whatever the write did to the connection.
KeepalivePing(r) ==
  /\ Quiet
  /\ c.state = "active" /\ ~c.ping
  /\ c' = [PacketQueue(c, "PINGREQ", r) EXCEPT !.ping = TRUE]

\* Mutants: the socket closes without on_disconnect; nothing happens after
\* disconnect().
KeepaliveClosesSilently(r, o) ==
  /\ Quiet
  /\ c.state # "active" \/ c.ping
  /\ c' = UpdateFails(c, o)

KeepaliveCloseUnlessDisconnected(r, o) ==
  /\ Quiet
  /\ c.state # "disconnected"
  /\ c.state # "active" \/ c.ping
  /\ c' = UpdateFails(OnDisconnect(c, "keepalive", r), o)

\* mosquitto__check_keepalive, no PINGRESP or not active: it closes the socket
\* and returns MOSQ_ERR_KEEPALIVE, disconnect() called or not.
KeepaliveClose(r, o) ==
  /\ Quiet
  /\ c.state # "active" \/ c.ping
  /\ c' = UpdateFails(OnDisconnect(c, "keepalive", r), o)

-----------------------------------------------------------------------------
(***************************************************************************)
(* Calls of the application between frames.                                *)
(***************************************************************************)
CallConnect(o) ==
  /\ c.reads = 0
  /\ ConnectsAgain \/ ~c.alive
  /\ c' = Connect(c, o)

CallDisconnect(r) ==
  /\ c.reads = 0
  /\ c' = PacketWrite(QueueDisconnect(c), r)

\* publish() with QoS 0: nothing is kept without a socket.
CallPublish(r) ==
  /\ c.reads = 0
  /\ c.sock # "none"
  /\ c' = PacketQueue([c EXCEPT !.calls = @ + 1], "PUBLISH", r)

\* publish() with QoS 1: the message is kept, and sent if there is a socket.
CallPublishKept(r) ==
  /\ c.reads = 0
  /\ c.waiting < MaxWaiting
  /\ c' = SendPublishes([c EXCEPT !.waiting = @ + 1, !.calls = @ + 1], "PUBLISH1", 1, r)

-----------------------------------------------------------------------------
(***************************************************************************)
(* The network and the broker.                                             *)
(***************************************************************************)
Reachable == c.sock \in {"open", "full"} /\ ~\E i \in DOMAIN c.toClient : c.toClient[i] = "EOF"

BrokerAnswer(packet, answers) ==
  /\ c.sock = "open" /\ Reachable
  /\ c.toBroker # <<>> /\ Head(c.toBroker) = packet
  /\ c' = [c EXCEPT !.toBroker = Tail(@), !.toClient = @ \o answers,
                    !.faults = IF answers[1] = "REFUSED" THEN @ + 1 ELSE @]

BrokerPublish ==
  /\ Reachable
  /\ ~\E i \in DOMAIN c.toBroker : c.toBroker[i] = "CONNECT"
  /\ c' = [c EXCEPT !.toClient = Append(@, "PUBLISH"), !.calls = @ + 1]

BrokerCloses ==
  /\ Reachable
  /\ c' = [c EXCEPT !.toClient = Append(@, "EOF"), !.faults = @ + 1]

Fault ==
  \E sock \in {"dead", "silent", "full"} :
    /\ c.sock \in CASE sock = "dead"   -> {"open", "full", "silent"}
                    [] sock = "silent" -> {"open", "full"}
                    [] sock = "full"   -> {"open"}
    /\ c' = [c EXCEPT !.sock = sock, !.faults = @ + 1]

Drain ==
  /\ c.sock = "full"
  /\ c' = [c EXCEPT !.sock = "open"]

-----------------------------------------------------------------------------
Init ==
  c = [state |-> "new", sock |-> "none", hasHost |-> FALSE, out |-> <<>>,
       ping |-> FALSE, waiting |-> 0, resend |-> 0, reads |-> 0,
       alive |-> FALSE, toClient |-> <<>>, toBroker |-> <<>>, sent |-> <<>>,
       accepted |-> FALSE, asked |-> FALSE, ended |-> FALSE, told |-> FALSE,
       wrong |-> {}, calls |-> 0, faults |-> 0]

Bounded == c'.calls <= MaxCalls /\ c'.faults <= MaxFaults

Update ==
  \/ \E o \in Outcomes : UpdateNoConn(o)
  \/ \E r \in OnlineReactions, r2 \in OfflineReactions, stale \in 0..c.resend :
       UpdateReadConnack(r, r2, stale)
  \/ \E r \in MessageReactions : UpdateReadPublish(r)
  \/ UpdateReadPuback
  \/ UpdateReadPingresp
  \/ UpdateReadNothing
  \/ \E r \in OfflineReactions, o \in Outcomes :
       \/ \E r2 \in OfflineReactions : UpdateReadRefused(r, r2, o)
       \/ UpdateReadUnexpected(r, o)
       \/ UpdateReadFails(r, o)
       \/ UpdateReadNoConn(r, o)
       \/ UpdateWrite(r, o)

Keepalive ==
  \E r \in OfflineReactions :
    KeepalivePing(r) \/ \E o \in Outcomes : KeepaliveClose(r, o)

Application ==
  \/ \E o \in Outcomes : CallConnect(o)
  \/ \E r \in OfflineReactions :
       CallDisconnect(r) \/ CallPublish(r) \/ CallPublishKept(r)

BrokerAnswers ==
  \/ BrokerAnswer("CONNECT", <<"CONNACK">>)
  \/ BrokerAnswer("CONNECT", <<"REFUSED", "EOF">>)
  \/ BrokerAnswer("PUBLISH1", <<"PUBACK">>)
  \/ BrokerAnswer("PINGREQ", <<"PINGRESP">>)

Next ==
  /\ Update \/ Keepalive \/ Application
     \/ BrokerAnswers \/ BrokerPublish \/ BrokerCloses \/ Fault \/ Drain
  /\ Bounded

Spec == Init /\ [][Next]_vars

\* update() is called in every frame, time passes, the broker answers.
Fairness ==
  /\ WF_vars(Update /\ Bounded)
  /\ WF_vars(Keepalive /\ Bounded)
  /\ WF_vars(BrokerAnswers /\ Bounded)

FairSpec == Spec /\ Fairness

-----------------------------------------------------------------------------
(***************************************************************************)
(* Properties.                                                             *)
(***************************************************************************)
\* The record has its type; an active or connected client may have no socket,
\* a client that waits to connect has none.
TypeOK ==
  /\ c.state \in {"new", "connect_pending", "connected", "active", "disconnected"}
  /\ c.sock \in {"none", "open", "full", "dead", "silent"}
  /\ c.out \in Seq(Packets)
  /\ c.toClient \in Seq({"CONNACK", "REFUSED", "PUBLISH", "PUBACK", "PINGRESP", "EOF"})
  /\ c.toBroker \in Seq(Packets)
  /\ c.state \in {"new", "connect_pending"} => c.sock = "none" /\ c.out = <<>>
  /\ {c.waiting, c.resend, c.reads} \subseteq Nat
  /\ {c.hasHost, c.ping, c.alive, c.accepted, c.asked, c.ended, c.told}
       \subseteq BOOLEAN

\* connected() is TRUE only while the socket is open and the broker has
\* accepted the CONNECT sent on it.
AliveIsAccepted == c.alive => c.accepted /\ c.sock # "none"

\* Every connection starts with one CONNECT, and nothing follows a DISCONNECT.
WireOrder ==
  \A i \in DOMAIN c.sent :
    /\ c.sent[i] = "CONNECT" <=> i = 1
    /\ c.sent[i] = "DISCONNECT" => i = Len(c.sent)

\* on_disconnect is called at most once for a connection.  False: message__retry_check
\* writes the DISCONNECT of onOnline, and mosquitto_loop_read reads on.
ToldOnce == "twice" \notin c.wrong

\* It is called at most once for a connection that is lost; a second call only
\* follows the DISCONNECT of the connection.
LostOnce == "lost_twice" \notin c.wrong

\* on_disconnect reports a failure only when disconnect() was not called.
ReasonIsZero == "reason" \notin c.wrong

\* A client that was asked to disconnect does not close a working connection
\* without having written its DISCONNECT.
DisconnectIsSent == "abandoned" \notin c.wrong

\* Once connect() was called the client is always connected again in the end,
\* after disconnect() too.
EventuallyConnected == c.hasHost ~> c.alive

\* disconnect() closes its connection in the end, if only by the keepalive.
EventuallyDisconnected == c.asked ~> ~c.asked

=============================================================================
