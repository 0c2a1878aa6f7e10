------------------------------ MODULE Publisher ------------------------------
(***************************************************************************)
(* The sending side of the client: an application publishes, libmosquitto  *)
(* queues the QoS 1 and QoS 2 messages in msgs_out, sends them within the  *)
(* in-flight window, follows the acknowledgments, and sends again what is  *)
(* unacknowledged after a reconnection.  The broker (external) and a       *)
(* network that may break at any moment surround it.                       *)
(*                                                                         *)
(* The protocol is MQTT 3.1.1, the only one the wrapper uses: no           *)
(* properties, no reason codes, no receive maximum in a CONNACK.           *)
(***************************************************************************)
EXTENDS OutMessages

CONSTANTS
  QosLevels,     \* the QoS levels the application publishes with
  CleanSessions, \* the clean session flags of the clients looked at
  ConnectsAgain, \* the application calls the wrapper's connect() more than once
  MaxPublish,    \* bound: calls of mosquitto_publish
  MaxFaults      \* bound: losses, refusals, failed connects, disconnects

ASSUME QosLevelsAssumption == QosLevels \subseteq {0, 1, 2}
ASSUME FlagsAssumption ==
  CleanSessions \subseteq BOOLEAN /\ ConnectsAgain \in BOOLEAN
ASSUME BoundsAssumption == MaxPublish \in Nat /\ MaxFaults \in Nat

VARIABLES
  state,           \* mosq->state (enum mosquitto_client_state)
  link,            \* "none": mosq->sock is INVALID_SOCKET; "broken": the socket
                   \* is open and the next read or write fails; "up" otherwise
  msgs_out,        \* msgs_out.inflight
  inflight_quota,  \* msgs_out.inflight_quota
  last_mid,        \* mosq->last_mid
  toBroker,        \* out_packet list and bytes on the way to the broker
  toClient,        \* packets on the way to the client
  session,         \* the broker: connection accepted, QoS 2 ids it stores,
                   \* and the clean_start flag, the same in every CONNECT
  submitted,       \* history: QoS of each mosquitto_publish call, in order
  transmitted,     \* history: QoS > 0 PUBLISH packets of this connection
  delivered,       \* history: times the broker passed on message id
  acked,           \* history: ids reported by on_publish (QoS > 0)
  faults           \* bound: faults so far

connVars == <<state, link>>
msgVars == <<msgs_out, inflight_quota, last_mid>>
brokerVars == <<session, delivered>>
vars == <<state, link, msgs_out, inflight_quota, last_mid, toBroker, toClient,
          session, submitted, transmitted, delivered, acked, faults>>

States == {"new", "connect_pending", "connected", "active", "disconnected"}
Links == {"none", "up", "broken"}

-----------------------------------------------------------------------------
(***************************************************************************)
(* The part of the client that a handler changes, threaded through the     *)
(* calls the handler makes: "sent" collects the packets, in order.         *)
(***************************************************************************)
Client == [inflight |-> msgs_out, quota |-> inflight_quota, mid |-> last_mid,
           submitted |-> submitted, sent |-> <<>>]

(***************************************************************************)
(* mosquitto_publish_v5.  A QoS 0 message is sent at once and forgotten;   *)
(* the others go through message__queue.                                   *)
(***************************************************************************)
PublishCall(c, qos, sendsOk) ==
  LET mid == NextMid(c.mid)
      m   == NewMessage(Len(c.submitted) + 1, mid, qos)
      r   == IF qos = 0
             THEN [inflight |-> c.inflight, quota |-> c.quota,
                   sent |-> IF sendsOk THEN <<PublishPacket(m)>> ELSE <<>>]
             ELSE MessageQueue(c.inflight, c.quota, m, sendsOk)
  IN [inflight |-> r.inflight, quota |-> r.quota, mid |-> mid,
      submitted |-> Append(c.submitted, qos), sent |-> c.sent \o r.sent]

\* An application callback either does nothing or publishes one message.  A
\* packet queued while in_callback is set is not written, so the send only
\* fails when there is no socket.
InCallback(c, calls) ==
  IF calls = <<>> THEN c ELSE PublishCall(c, Head(calls), link # "none")

CallbackCalls ==
  {<<>>} \cup {<<qos>> : qos \in {q \in QosLevels : Len(submitted) < MaxPublish}}

\* Mutant: the window is not moved on after an acknowledgment.
ReleasedNever(c, sendsOk) == c

Released(c, sendsOk) ==
  LET r == ReleaseToInflight(c.inflight, c.quota, sendsOk)
  IN [inflight |-> r.inflight, quota |-> r.quota, mid |-> c.mid,
      submitted |-> c.submitted, sent |-> c.sent \o r.sent]

\* The handler leaves the client as c; its packets travel if the link is up.
Become(c) ==
  /\ msgs_out' = c.inflight
  /\ inflight_quota' = c.quota
  /\ last_mid' = c.mid
  /\ submitted' = c.submitted
  /\ toBroker' = IF link = "up" THEN toBroker \o c.sent ELSE toBroker
  /\ transmitted' = IF link = "up" THEN transmitted \o Sublist(c.sent, Publishes(c.sent))
                    ELSE transmitted

\* net__socket_close: what was on the way to the client is lost.  The broker
\* may still read what was on the way to it, until it sees the next CONNECT.
CloseLink == link' = "none" /\ toClient' = <<>>

Fault == faults < MaxFaults /\ faults' = faults + 1

-----------------------------------------------------------------------------
(***************************************************************************)
(* Calls of the application.                                               *)
(***************************************************************************)
\* mosquitto_publish, outside of callbacks: packet__queue writes at once.
Publish(qos) ==
  /\ Len(submitted) < MaxPublish
  /\ Become(PublishCall(Client, qos, link = "up"))
  /\ UNCHANGED <<connVars, toClient, brokerVars, acked, faults>>

\* mosquitto_disconnect.  Once the DISCONNECT packet is written,
\* do_client_disconnect closes the socket; a write error leaves it open.
Disconnect ==
  /\ Fault
  /\ state' = "disconnected"
  /\ IF link = "up"
     THEN CloseLink /\ toBroker' = Append(toBroker, [type |-> "DISCONNECT"])
     ELSE UNCHANGED <<link, toBroker, toClient>>
  /\ UNCHANGED <<msgVars, brokerVars, submitted, transmitted, acked>>

\* mosquitto__reconnect, called by connect and by update() when the loop fails:
\* a new connection replaces the old one, if any.
ResetForReconnect ==
  /\ msgs_out' = ReconnectReset(msgs_out, FALSE)
  /\ inflight_quota' = QuotaAfterReset(msgs_out)
  /\ toClient' = <<>>
  /\ transmitted' = <<>>
  /\ UNCHANGED <<last_mid, brokerVars, submitted, acked>>

ConnectPacket == [type |-> "CONNECT"]

Reconnect ==
  /\ ResetForReconnect
  /\ state' = "connected"
  /\ link' = "up"
  /\ toBroker' = <<ConnectPacket>>
  /\ IF link = "none" THEN UNCHANGED faults ELSE Fault

\* The same call when the TCP connection fails (state connect_pending) or the
\* CONNECT packet cannot be written (state new).
ReconnectFails ==
  /\ ResetForReconnect
  /\ state' \in {"connect_pending", "new"}
  /\ link' = "none"
  /\ toBroker' = toBroker
  /\ Fault

\* ofxMQTT::connect on a client in use: mosquitto_reinitialise closes the socket
\* and frees every queued message, then mosquitto_connect opens a connection.
ConnectAgain ==
  /\ ConnectsAgain
  /\ Fault
  /\ msgs_out' = <<>>
  /\ inflight_quota' = InflightMaximum
  /\ last_mid' = 0
  /\ toClient' = <<>>
  /\ transmitted' = <<>>
  /\ \/ state' = "connected" /\ link' = "up" /\ toBroker' = <<ConnectPacket>>
     \/ state' = "connect_pending" /\ link' = "none" /\ UNCHANGED toBroker
  /\ UNCHANGED <<brokerVars, submitted, acked>>

-----------------------------------------------------------------------------
(***************************************************************************)
(* Packets the loop reads.                                                 *)
(***************************************************************************)
Incoming(types) ==
  /\ link # "none"
  /\ toClient # <<>>
  /\ Head(toClient).type \in types

\* handle__connack, accepted.  The quota is counted again before the callback;
\* the callback still runs in the state before; retry_check comes last.
HandleConnack ==
  /\ Incoming({"CONNACK"})
  /\ Head(toClient).accepted
  /\ \E calls \in CallbackCalls :
       LET c0 == [Client EXCEPT !.inflight = ReconnectReset(@, TRUE),
                                !.quota = QuotaAfterReset(msgs_out)]
           c1 == InCallback(c0, calls)
           sent == IF link = "up" THEN RetryPackets(c1.inflight) ELSE <<>>
       IN Become([c1 EXCEPT !.inflight = RetryMark(@), !.sent = @ \o sent])
  /\ state' = "active"
  /\ toClient' = Tail(toClient)
  /\ UNCHANGED <<link, brokerVars, acked, faults>>

\* handle__connack, refused: the same reset and callback, then
\* MOSQ_ERR_CONN_REFUSED makes mosquitto__loop_rc_handle close the socket.
HandleConnackRefused ==
  /\ Incoming({"CONNACK"})
  /\ ~Head(toClient).accepted
  /\ \E calls \in CallbackCalls :
       Become(InCallback([Client EXCEPT !.inflight = ReconnectReset(@, TRUE),
                                        !.quota = QuotaAfterReset(msgs_out)], calls))
  /\ CloseLink
  /\ UNCHANGED <<state, brokerVars, acked, faults>>

\* A packet that is not expected in this state: MOSQ_ERR_PROTOCOL.
Refuse ==
  /\ Incoming({"PUBACK", "PUBREC", "PUBCOMP"})
  /\ state # "active"
  /\ CloseLink
  /\ UNCHANGED <<state, msgVars, toBroker, brokerVars, submitted, transmitted,
                 acked, faults>>

AckQos(p) == IF p.type = "PUBACK" THEN 1 ELSE 2

\* handle__pubackcomp.  The quota grows whether or not the id is known; the
\* message leaves the list, on_publish runs, and the window moves on.
HandlePubackcomp ==
  /\ Incoming({"PUBACK", "PUBCOMP"})
  /\ state = "active"
  /\ LET p     == Head(toClient)
         known == Known(msgs_out, p.mid)
         c0    == [Client EXCEPT !.quota = IncrementQuota(@),
                                 !.inflight = MessageRemove(@, p.mid)]
     IN /\ QosMatches(msgs_out, p.mid, AckQos(p))
        /\ \E calls \in (IF known THEN CallbackCalls ELSE {<<>>}) :
             Become(Released(InCallback(c0, calls), link = "up"))
        /\ acked' = IF known THEN acked \cup {msgs_out[FirstAt(msgs_out, p.mid)].id}
                    ELSE acked
  /\ toClient' = Tail(toClient)
  /\ UNCHANGED <<connVars, brokerVars, faults>>

\* The same handler when the id belongs to a message of the other QoS.
HandlePubackcompMismatch ==
  /\ Incoming({"PUBACK", "PUBCOMP"})
  /\ state = "active"
  /\ ~QosMatches(msgs_out, Head(toClient).mid, AckQos(Head(toClient)))
  /\ inflight_quota' = IncrementQuota(inflight_quota)
  /\ CloseLink
  /\ UNCHANGED <<state, msgs_out, last_mid, toBroker, brokerVars, submitted,
                 transmitted, acked, faults>>

\* handle__pubrec: PUBREL answers it even for an unknown id; a PUBREL that
\* cannot be written closes the socket.
HandlePubrec ==
  /\ Incoming({"PUBREC"})
  /\ state = "active"
  /\ LET mid == Head(toClient).mid
         ok  == QosMatches(msgs_out, mid, 2)
     IN /\ msgs_out' = IF ok THEN OutUpdate(msgs_out, mid, "wait_for_pubcomp")
                       ELSE msgs_out
        /\ IF ok /\ link = "up"
           THEN /\ toBroker' = Append(toBroker, MidPacket("PUBREL", mid))
                /\ toClient' = Tail(toClient)
                /\ UNCHANGED link
           ELSE CloseLink /\ UNCHANGED toBroker
  /\ UNCHANGED <<state, inflight_quota, last_mid, brokerVars, submitted,
                 transmitted, acked, faults>>

\* The loop's read or write fails: mosquitto__loop_rc_handle closes the socket.
DetectLoss ==
  /\ link = "broken"
  /\ CloseLink
  /\ UNCHANGED <<state, msgVars, toBroker, brokerVars, submitted, transmitted,
                 acked, faults>>

-----------------------------------------------------------------------------
(***************************************************************************)
(* The network and the broker.                                             *)
(***************************************************************************)
\* The connection dies.  Any suffix of what the client wrote is lost: the
\* broker reads on for as long as it likes.  What the broker had sent may still
\* be read.
BreakLink ==
  /\ link = "up"
  /\ Fault
  /\ link' = "broken"
  /\ UNCHANGED <<state, msgVars, toBroker, toClient, brokerVars, submitted,
                 transmitted, acked>>

Reply(p) == toClient' = IF link = "up" THEN Append(toClient, p) ELSE toClient

BrokerConnect ==
  /\ toBroker # <<>> /\ Head(toBroker).type = "CONNECT"
  /\ \E accepted \in BOOLEAN :
       /\ IF accepted THEN UNCHANGED faults ELSE Fault
       /\ session' = [session EXCEPT !.accepted = accepted,
                        !.stored = IF accepted /\ session.clean THEN {} ELSE @]
       /\ Reply([type |-> "CONNACK", accepted |-> accepted])
  /\ toBroker' = Tail(toBroker)
  /\ UNCHANGED <<connVars, msgVars, submitted, transmitted, delivered, acked>>

Deliver(id) == delivered' = [delivered EXCEPT ![id] = @ + 1]

\* QoS 0 and 1 are passed on as they come, QoS 2 once per stored id.
BrokerPublish ==
  /\ toBroker # <<>> /\ Head(toBroker).type = "PUBLISH" /\ session.accepted
  /\ LET p == Head(toBroker) IN
       \/ p.qos = 0 /\ Deliver(p.id) /\ UNCHANGED <<session, toClient>>
       \/ /\ p.qos = 1
          /\ Deliver(p.id)
          /\ Reply(MidPacket("PUBACK", p.mid))
          /\ UNCHANGED session
       \/ /\ p.qos = 2
          /\ IF p.mid \in session.stored THEN UNCHANGED delivered
             ELSE Deliver(p.id)
          /\ session' = [session EXCEPT !.stored = @ \cup {p.mid}]
          /\ Reply(MidPacket("PUBREC", p.mid))
  /\ toBroker' = Tail(toBroker)
  /\ UNCHANGED <<connVars, msgVars, submitted, transmitted, acked, faults>>

BrokerPubrel ==
  /\ toBroker # <<>> /\ Head(toBroker).type = "PUBREL" /\ session.accepted
  /\ session' = [session EXCEPT !.stored = @ \ {Head(toBroker).mid}]
  /\ Reply(MidPacket("PUBCOMP", Head(toBroker).mid))
  /\ toBroker' = Tail(toBroker)
  /\ UNCHANGED <<connVars, msgVars, submitted, transmitted, delivered, acked, faults>>

\* A DISCONNECT, or any packet after a refused CONNECT, ends the connection.
BrokerHangUp ==
  /\ toBroker # <<>> /\ Head(toBroker).type # "CONNECT"
  /\ Head(toBroker).type = "DISCONNECT" \/ ~session.accepted
  /\ session' = [session EXCEPT !.accepted = FALSE]
  /\ toBroker' = Tail(toBroker)
  /\ UNCHANGED <<connVars, msgVars, toClient, submitted, transmitted, delivered,
                 acked, faults>>

-----------------------------------------------------------------------------
Init ==
  /\ state = "new"
  /\ link = "none"
  /\ msgs_out = <<>>
  /\ inflight_quota = InflightMaximum
  /\ last_mid = 0
  /\ toBroker = <<>>
  /\ toClient = <<>>
  /\ session \in [accepted : {FALSE}, stored : {{}}, clean : CleanSessions]
  /\ submitted = <<>>
  /\ transmitted = <<>>
  /\ delivered = [id \in 1..MaxPublish |-> 0]
  /\ acked = {}
  /\ faults = 0

Application ==
  \/ \E qos \in QosLevels : Publish(qos)
  \/ Disconnect
  \/ Reconnect
  \/ ReconnectFails
  \/ ConnectAgain

HandlePacket ==
  \/ HandleConnack
  \/ HandleConnackRefused
  \/ Refuse
  \/ HandlePubackcomp
  \/ HandlePubackcompMismatch
  \/ HandlePubrec

Broker ==
  \/ BrokerConnect
  \/ BrokerPublish
  \/ BrokerPubrel
  \/ BrokerHangUp

\* Nothing is left to do and the bounds are used up.
Quiescent ==
  /\ Len(submitted) = MaxPublish
  /\ faults = MaxFaults
  /\ state = "active" /\ link = "up"
  /\ msgs_out = <<>> /\ toBroker = <<>> /\ toClient = <<>>
  /\ UNCHANGED vars

Next ==
  \/ Application
  \/ HandlePacket
  \/ DetectLoss
  \/ BreakLink
  \/ Broker
  \/ Quiescent

Spec == Init /\ [][Next]_vars

(***************************************************************************)
(* The wrapper's update() runs in every frame: it reads what has arrived,  *)
(* notices a dead socket and then reconnects.  The broker answers.         *)
(***************************************************************************)
Fairness ==
  /\ WF_vars(HandlePacket)
  /\ WF_vars(DetectLoss)
  /\ WF_vars(link = "none" /\ Reconnect)
  /\ WF_vars(Broker)

FairSpec == Spec /\ Fairness

-----------------------------------------------------------------------------
(***************************************************************************)
(* Properties.                                                             *)
(***************************************************************************)
\* The client's variables have their types: in particular no message has id 0
\* and the quota stays within its range.
ClientTypeOK ==
  /\ state \in States
  /\ link \in Links
  /\ msgs_out \in Seq(Message)
  /\ inflight_quota \in 0..InflightMaximum
  /\ last_mid \in 0..MaxMid
  /\ submitted \in Seq(QosLevels)

\* The client's and the broker's variables have their types.
TypeOK ==
  /\ ClientTypeOK
  /\ session \in [accepted : BOOLEAN, stored : SUBSET (1..MaxMid),
                  clean : CleanSessions]
  /\ delivered \in [1..MaxPublish -> Nat]
  /\ acked \subseteq 1..MaxPublish
  /\ faults \in 0..MaxFaults

\* The client can always tell what an acknowledgment is for: when it handles
\* one, the first message with that id is in flight.
AcksMatch ==
  toClient # <<>> /\ Head(toClient).type \in {"PUBACK", "PUBREC", "PUBCOMP"}
    => \E i \in DOMAIN msgs_out :
         IsFirstAt(msgs_out, Head(toClient).mid, i) /\ ~Held(msgs_out[i])

\* Messages leave the list head first: a message that waits for the window is
\* never in front of one that has been given to the network.
HeldAreLast ==
  \A i, j \in DOMAIN msgs_out :
    i < j /\ Held(msgs_out[i]) => Held(msgs_out[j])

\* No stall: a message is held back only while the window is full, whatever
\* send failed, was refused or was repeated before.
HeldOnlyWhenFull ==
  (\E i \in DOMAIN msgs_out : Held(msgs_out[i]))
    => Cardinality(Inflight(msgs_out)) >= InflightMaximum

\* Flow control: while the connection works, the quota is exactly what the
\* messages in flight leave of the maximum, although the code adds and takes
\* units at different places and starts again at every connection.
QuotaAccounts ==
  link = "up" =>
    inflight_quota + Cardinality(Inflight(msgs_out)) = InflightMaximum

\* The retry at CONNACK and the release of held messages never both send a
\* message: a PUBLISH travels at most once on a connection.  Those sent for the
\* first time keep the order of the mosquitto_publish calls, and so do those
\* sent again.
OrderKept ==
  \A i, j \in DOMAIN transmitted : i < j =>
    /\ transmitted[i].id # transmitted[j].id
    /\ transmitted[i].dup = transmitted[j].dup => transmitted[i].id < transmitted[j].id

\* Once the broker has acknowledged a QoS 2 PUBLISH, only PUBREL follows: no
\* reconnection brings the message back to a state that publishes it.
PastPubrec(m) == m.state \in {"wait_for_pubcomp", "resend_pubrel"}

PubrecIsFinal ==
  [][\A i \in DOMAIN msgs_out : PastPubrec(msgs_out[i]) =>
       \A j \in DOMAIN msgs_out' :
         msgs_out'[j].id = msgs_out[i].id => PastPubrec(msgs_out'[j])]_vars

\* Across losses, refusals and reconnections the client and the broker
\* together do what Delivery promises to the application.
Abstract == INSTANCE Delivery
  WITH submitted <- submitted, delivered <- delivered, acked <- acked,
       clean <- session.clean
ImplementsDelivery == Abstract!Spec

\* Every QoS 1 and QoS 2 message is reported as sent in the end.
EventuallyAcked ==
  \A id \in 1..MaxPublish :
    (id \in DOMAIN submitted /\ submitted[id] > 0) ~> id \in acked

==============================================================================
