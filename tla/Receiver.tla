------------------------------- MODULE Receiver -------------------------------
(***************************************************************************)
(* The receiving side of the client: the broker (external) publishes to    *)
(* it, libmosquitto acknowledges, keeps QoS 2 messages in msgs_in until    *)
(* their PUBREL and gives every message to on_message.  The connection may *)
(* break at any moment and the client reconnects.                          *)
(***************************************************************************)
EXTENDS MessageList, FiniteSets

CONSTANTS
  MaxMid,        \* the largest message id the broker uses
  QosLevels,     \* the QoS levels the broker publishes with
  Settings,      \* the settings looked at, each a record of two flags:
                 \* clean, the clean session flag of the CONNECT packets;
                 \* idsReused, the broker uses the id of a completed message again
  MaxMessages,   \* bound: messages the broker publishes
  MaxFaults      \* bound: broken connections and disconnects

ASSUME MaxMidAssumption == MaxMid \in Nat \ {0}
ASSUME QosLevelsAssumption == QosLevels \subseteq {0, 1, 2}
ASSUME SettingsAssumption == Settings \subseteq [clean : BOOLEAN, idsReused : BOOLEAN]
ASSUME BoundsAssumption == MaxMessages \in Nat /\ MaxFaults \in Nat

VARIABLES
  state,      \* mosq->state
  link,       \* "none", "up", or "broken": writes fail, what arrived is still read
  msgs_in,    \* msgs_in.inflight: QoS 2 messages that wait for their PUBREL
  passed,     \* history: ids given to on_message, in order
  dropped,    \* history: ids that left msgs_in with a PUBCOMP that failed
  toClient,   \* packets on the way to the client
  toBroker,   \* packets on the way to the broker
  session,    \* the broker: unacknowledged messages, in order
  accepted,   \* the broker has accepted the connection
  published,  \* history: QoS and id of each message the broker published
  completed,  \* history: ids whose flow the broker has seen complete
  setting,    \* one of Settings, the same for ever
  faults      \* bound: faults so far

clientVars == <<state, link, msgs_in, passed, dropped>>
brokerVars == <<session, accepted, published, completed>>
vars == <<state, link, msgs_in, passed, dropped, toClient, toBroker, session, accepted,
          published, completed, setting, faults>>

\* "id" stands for topic and payload: the rank of the message at the broker.
Entry == [id : 1..MaxMessages, mid : 1..MaxMid, qos : {2}]

Packet(t, mid) == [type |-> t, mid |-> mid]

-----------------------------------------------------------------------------
(***************************************************************************)
(* The client.                                                             *)
(***************************************************************************)
Incoming(types) ==
  /\ link # "none"
  /\ toClient # <<>>
  /\ Head(toClient).type \in types

CloseLink == link' = "none" /\ toClient' = <<>>

\* The answer to the packet being handled.  When it cannot be written the
\* handler returns the error and mosquitto__loop_rc_handle closes the socket.
Answer(p) ==
  IF link = "up"
  THEN toBroker' = Append(toBroker, p) /\ toClient' = Tail(toClient) /\ UNCHANGED link
  ELSE CloseLink /\ UNCHANGED toBroker

OnMessage(id) == passed' = Append(passed, id) /\ UNCHANGED dropped

HandleConnack ==
  /\ Incoming({"CONNACK"})
  /\ state' = "active"
  /\ toClient' = Tail(toClient)
  /\ UNCHANGED <<link, msgs_in, passed, dropped, toBroker, brokerVars, faults>>

\* handle__publish, QoS 0: passed on and forgotten.
HandlePublishQos0 ==
  /\ Incoming({"PUBLISH"}) /\ state = "active"
  /\ Head(toClient).qos = 0
  /\ OnMessage(Head(toClient).id)
  /\ toClient' = Tail(toClient)
  /\ UNCHANGED <<state, link, msgs_in, toBroker, brokerVars, faults>>

\* QoS 1: on_message runs even when the PUBACK could not be written.
HandlePublishQos1 ==
  /\ Incoming({"PUBLISH"}) /\ state = "active"
  /\ Head(toClient).qos = 1
  /\ Answer(Packet("PUBACK", Head(toClient).mid))
  /\ OnMessage(Head(toClient).id)
  /\ UNCHANGED <<state, msgs_in, brokerVars, faults>>

\* QoS 2: the message joins the list, even when the PUBREC could not be
\* written, and even when the list already holds one with its id.
HandlePublishQos2 ==
  /\ Incoming({"PUBLISH"}) /\ state = "active"
  /\ Head(toClient).qos = 2
  /\ LET p == Head(toClient) IN
       /\ Answer(Packet("PUBREC", p.mid))
       /\ msgs_in' = Append(msgs_in, [id |-> p.id, mid |-> p.mid, qos |-> 2])
  /\ UNCHANGED <<state, passed, dropped, brokerVars, faults>>

\* What becomes of the first message with the id: it is passed on, unless the
\* PUBCOMP could not be written.
Release(mid) ==
  IF Known(msgs_in, mid)
  THEN LET id == msgs_in[FirstAt(msgs_in, mid)].id IN
       IF link = "up" THEN OnMessage(id)
       ELSE dropped' = dropped \cup {id} /\ UNCHANGED passed
  ELSE UNCHANGED <<passed, dropped>>

\* Mutants: the message stays in the list; an unknown id is not answered.
HandlePubrelKeeps ==
  /\ Incoming({"PUBREL"}) /\ state = "active"
  /\ LET mid == Head(toClient).mid IN
       /\ Answer(Packet("PUBCOMP", mid))
       /\ Release(mid)
  /\ UNCHANGED <<state, msgs_in, brokerVars, faults>>

HandlePubrelSilent ==
  /\ Incoming({"PUBREL"}) /\ state = "active"
  /\ LET mid == Head(toClient).mid IN
       /\ IF Known(msgs_in, mid) THEN Answer(Packet("PUBCOMP", mid))
          ELSE toClient' = Tail(toClient) /\ UNCHANGED <<link, toBroker>>
       /\ msgs_in' = MessageRemove(msgs_in, mid)
       /\ Release(mid)
  /\ UNCHANGED <<state, brokerVars, faults>>

\* handle__pubrel: PUBCOMP first; the first message with the id leaves the list
\* whether the PUBCOMP could be written or not.
HandlePubrel ==
  /\ Incoming({"PUBREL"}) /\ state = "active"
  /\ LET mid == Head(toClient).mid IN
       /\ Answer(Packet("PUBCOMP", mid))
       /\ msgs_in' = MessageRemove(msgs_in, mid)
       /\ Release(mid)
  /\ UNCHANGED <<state, brokerVars, faults>>

\* The loop's read or write fails: mosquitto__loop_rc_handle closes the socket.
DetectLoss ==
  /\ link = "broken"
  /\ CloseLink
  /\ UNCHANGED <<state, msgs_in, passed, dropped, toBroker, brokerVars, faults>>

\* Mutant: message__reconnect_reset empties msgs_in.
ReconnectEmpties ==
  /\ link = "none"
  /\ link' = "up"
  /\ state' = "connected"
  /\ msgs_in' = <<>>
  /\ toClient' = <<>>
  /\ toBroker' = <<[type |-> "CONNECT"]>>
  /\ UNCHANGED <<passed, dropped, brokerVars, faults>>

\* mosquitto__reconnect.  message__reconnect_reset drops what is not QoS 2 from
\* msgs_in: the list holds nothing else, so it stays as it is.
Reconnect ==
  /\ link = "none"
  /\ link' = "up"
  /\ state' = "connected"
  /\ toClient' = <<>>
  /\ toBroker' = <<[type |-> "CONNECT"]>>
  /\ UNCHANGED <<msgs_in, passed, dropped, brokerVars, faults>>

\* mosquitto_disconnect: the socket closes once the DISCONNECT is written.
Disconnect ==
  /\ faults < MaxFaults
  /\ faults' = faults + 1
  /\ state' = "disconnected"
  /\ IF link = "up" THEN CloseLink ELSE UNCHANGED <<link, toClient>>
  /\ UNCHANGED <<msgs_in, passed, dropped, toBroker, brokerVars>>

\* A packet read after mosquitto_disconnect: MOSQ_ERR_PROTOCOL.
Refuse ==
  /\ Incoming({"PUBLISH", "PUBREL"}) /\ state # "active"
  /\ CloseLink
  /\ UNCHANGED <<state, msgs_in, passed, dropped, toBroker, brokerVars, faults>>

-----------------------------------------------------------------------------
(***************************************************************************)
(* The network and the broker.                                             *)
(***************************************************************************)
BreakLink ==
  /\ link = "up"
  /\ faults < MaxFaults
  /\ faults' = faults + 1
  /\ link' = "broken"
  /\ UNCHANGED <<state, msgs_in, passed, dropped, toClient, toBroker, brokerVars>>

Receive(types) == toBroker # <<>> /\ Head(toBroker).type \in types

Deliver(ps) == toClient' = IF link = "up" THEN toClient \o ps ELSE toClient

PublishPacket(m) ==
  [type |-> "PUBLISH", id |-> m.id, mid |-> m.mid, qos |-> m.qos]

\* What the broker sends again for a message of the session.
Resent(m) ==
  IF m.state = "wait_for_pubcomp" THEN Packet("PUBREL", m.mid) ELSE PublishPacket(m)

\* CONNECT: a clean session starts empty, another one sends its messages again.
BrokerConnect ==
  /\ Receive({"CONNECT"})
  /\ accepted' = TRUE
  /\ session' = IF setting.clean THEN <<>> ELSE session
  /\ Deliver(<<[type |-> "CONNACK"]>> \o [i \in DOMAIN session' |-> Resent(session'[i])])
  /\ toBroker' = Tail(toBroker)
  /\ UNCHANGED <<clientVars, published, completed, faults>>

\* A new message gets an id that no message of the session has.  The broker may
\* not know yet that the connection is dead.
BrokerPublish(qos, mid) ==
  /\ accepted
  /\ toBroker # <<>> => Head(toBroker).type # "CONNECT"
  /\ Len(published) < MaxMessages
  /\ ~Known(session, mid)
  /\ setting.idsReused \/ ~Known(published, mid)
  /\ LET m == [id |-> Len(published) + 1, mid |-> mid, qos |-> qos,
               state |-> IF qos = 1 THEN "wait_for_puback" ELSE "wait_for_pubrec"]
     IN /\ session' = IF qos = 0 THEN session ELSE Append(session, m)
        /\ Deliver(<<PublishPacket(m)>>)
  /\ published' = Append(published, [qos |-> qos, mid |-> mid])
  /\ UNCHANGED <<clientVars, toBroker, accepted, completed, faults>>

\* PUBACK and PUBCOMP end the flow of the message with the id.
BrokerComplete ==
  /\ Receive({"PUBACK", "PUBCOMP"})
  /\ LET mid == Head(toBroker).mid IN
       /\ session' = MessageRemove(session, mid)
       /\ completed' = completed \cup {session[i].id : i \in At(session, mid)}
  /\ toBroker' = Tail(toBroker)
  /\ UNCHANGED <<clientVars, toClient, accepted, published, faults>>

BrokerPubrec ==
  /\ Receive({"PUBREC"})
  /\ LET mid == Head(toBroker).mid IN
       /\ session' = [i \in DOMAIN session |->
                        IF session[i].mid = mid
                        THEN [session[i] EXCEPT !.state = "wait_for_pubcomp"]
                        ELSE session[i]]
       /\ Deliver(<<Packet("PUBREL", mid)>>)
  /\ toBroker' = Tail(toBroker)
  /\ UNCHANGED <<clientVars, accepted, published, completed, faults>>

-----------------------------------------------------------------------------
Init ==
  /\ state = "new"
  /\ link = "none"
  /\ msgs_in = <<>>
  /\ passed = <<>>
  /\ dropped = {}
  /\ toClient = <<>>
  /\ toBroker = <<>>
  /\ session = <<>>
  /\ accepted = FALSE
  /\ published = <<>>
  /\ completed = {}
  /\ setting \in Settings
  /\ faults = 0

HandlePacket ==
  \/ HandleConnack
  \/ HandlePublishQos0
  \/ HandlePublishQos1
  \/ HandlePublishQos2
  \/ HandlePubrel
  \/ Refuse

BrokerAnswer == BrokerConnect \/ BrokerComplete \/ BrokerPubrec

\* Nothing is left to do and the bounds are used up.
Quiescent ==
  /\ Len(published) = MaxMessages
  /\ faults = MaxFaults
  /\ link = "up" /\ state = "active"
  /\ toClient = <<>> /\ toBroker = <<>>
  /\ UNCHANGED vars

Next ==
  /\ \/ HandlePacket
     \/ DetectLoss
     \/ Reconnect
     \/ Disconnect
     \/ BreakLink
     \/ BrokerAnswer
     \/ \E qos \in QosLevels, mid \in 1..MaxMid : BrokerPublish(qos, mid)
     \/ Quiescent
  /\ UNCHANGED setting

Spec == Init /\ [][Next]_vars

\* update() runs in every frame: it reads, notices a dead socket, reconnects.
Fairness ==
  /\ WF_vars(HandlePacket /\ UNCHANGED setting)
  /\ WF_vars(DetectLoss /\ UNCHANGED setting)
  /\ WF_vars(Reconnect /\ UNCHANGED setting)
  /\ WF_vars(BrokerAnswer /\ UNCHANGED setting)

FairSpec == Spec /\ Fairness

-----------------------------------------------------------------------------
(***************************************************************************)
(* Properties.                                                             *)
(***************************************************************************)
\* The variables have their types.
TypeOK ==
  /\ state \in {"new", "connected", "active", "disconnected"}
  /\ link \in {"none", "up", "broken"}
  /\ msgs_in \in Seq(Entry)
  /\ passed \in Seq(1..MaxMessages)
  /\ dropped \subseteq 1..MaxMessages
  /\ accepted \in BOOLEAN
  /\ completed \subseteq 1..MaxMessages
  /\ faults \in 0..MaxFaults

WasPassed(id) == \E i \in DOMAIN passed : passed[i] = id

\* When the broker has seen the flow of a message complete, and so forgets it,
\* on_message has been called with it.  The code breaks it in two ways: it passes
\* on an old message with the same id, and it drops a message whose PUBCOMP fails.
CompletedWasPassed == \A id \in completed : WasPassed(id)

\* In a session that is kept, by a broker that uses no id again, the second way is
\* the only one: no reconnect, no answer that failed, no PUBLISH or PUBREL that came
\* again lets the broker forget a message that the application has not seen.
SessionLosesNothing ==
  (~setting.clean /\ ~setting.idsReused)
    => \A id \in completed : WasPassed(id) \/ id \in dropped

\* on_message is called at most once for a message.  A QoS 2 PUBLISH that comes
\* again after its PUBREC was lost joins msgs_in twice, and each PUBREL passes on one.
AtMostOnce ==
  \A i, j \in DOMAIN passed : passed[i] = passed[j] => i = j

\* With clean sessions, the wrapper's choice, the application sees no message
\* twice, wherever connections break and whatever is still read after that.
CleanRepeatsNothing == setting.clean => AtMostOnce

\* In a session that is kept, the broker's flow for a QoS 1 or QoS 2 message
\* ends, whatever breaks.
EventuallyCompleted ==
  \A id \in 1..MaxMessages :
    (~setting.clean /\ id \in DOMAIN published /\ published[id].qos > 0)
      ~> id \in completed

===============================================================================
