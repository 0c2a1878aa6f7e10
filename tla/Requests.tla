------------------------------ MODULE Requests ------------------------------
(***************************************************************************)
(* Subscribing and unsubscribing (actions.c, send_subscribe.c,             *)
(* send_unsubscribe.c), the answers of the broker (handle_suback.c,        *)
(* handle_unsuback.c) with the callbacks they end in (callbacks.c), and    *)
(* mosquitto_subscribe_simple, which collects messages (helpers.c).        *)
(***************************************************************************)
EXTENDS Properties, Bitwise

CONSTANTS
  Filters,          \* sequences of subscriptions
  SubscribeOptions, \* MQTT 5 options, and values that are not
  RequestLists,     \* property lists of requests
  AnswerLists,      \* property lists of answers
  Codes,            \* sequences of the codes of an answer
  PacketSizes,      \* limits of a broker: 0 is none
  Mids,             \* the last id when the connection is there
  Wanted,           \* counts of messages to collect
  MaxMessages       \* bound on the messages that arrive

VARIABLES
  conn,    \* what the connection is: protocol, limit, last id, callbacks
  request, \* a request and what became of it
  answer,  \* an answer, what arrived of it and the callbacks it caused
  simple   \* mosquitto_subscribe_simple: what it has and what arrived

requestVars == <<conn, request, answer, simple>>

None == [rc |-> "none"]

-----------------------------------------------------------------------------
(***************************************************************************)
(* The checks of mosquitto_subscribe_multiple and of its counterpart.      *)
(***************************************************************************)
\* mosquitto_sub_topic_check where a subscription is one level.
SubTopicIsValid(s) ==
  Len(s) < LengthWidth /\ (Len(s) > 1 => {35, 43} \cap ToSet(s) = {})

MidGenerate(mid) == IF mid + 1 = Width16 THEN 1 ELSE mid + 1

\* What a topic takes in the payload: a subscription has its QoS behind it.
LengthInPayload(op, s) == 2 + Len(s) + (IF op = "subscribe" THEN 1 ELSE 0)
TopicsLength(op, topics) == FoldLeft(LAMBDA n, s : n + LengthInPayload(op, s), 0, topics)

\* packet__check_oversize: the first byte of a packet is not counted.
IsOversize(maximum, length) ==
  maximum # 0 /\ length + VarintBytes(length) > maximum

\* The length for which that is asked leaves out the length of the properties.
Estimate(op, topics, props) == TopicsLength(op, topics) + 2 + GetLengthAll(props)

\* Bits 4 and 5 are not both set, nor bits 6 and 7.
OptionsAreValid(options) == (options \div 16) % 4 # 3 /\ options < 64

TopicsCode(topics) ==
  LET bad == {i \in 1..Len(topics) : ~SubTopicIsValid(topics[i]) \/ ~IsUtf8(topics[i])}
      first == CHOOSE i \in bad : \A j \in bad : i <= j
  IN CASE bad = {}                          -> "success"
       [] ~SubTopicIsValid(topics[first])   -> "inval"
       [] OTHER                             -> "malformed_utf8"

RequestCode(op, topics, qos, options, props) ==
  LET outgoing == Outgoing(props)
      command == IF op = "subscribe" THEN "SUBSCRIBE" ELSE "UNSUBSCRIBE"
  IN CASE op = "subscribe" /\ topics = <<>>             -> "inval"
       [] conn.protocol # 5 /\ props # <<>>             -> "not_supported"
       [] op = "subscribe" /\ (qos > 2 \/ ~OptionsAreValid(options)) -> "inval"
       [] CheckAll(command, outgoing) # "success"       -> CheckAll(command, outgoing)
       [] TopicsCode(topics) # "success"                -> TopicsCode(topics)
       [] IsOversize(conn.maximum, Estimate(op, topics, outgoing)) -> "oversize_packet"
       [] OTHER                                         -> "success"

-----------------------------------------------------------------------------
(***************************************************************************)
(* send__subscribe and send__unsubscribe.                                  *)
(***************************************************************************)
RequestLength(op, topics, props) ==
  2 + TopicsLength(op, topics)
    + (IF conn.protocol = 5 THEN GetRemainingLength(props) ELSE 0)

\* A mutant: the QoS is written once, behind the last topic.
WriteTopicOnce(op, s, byte) == WriteBinary(s)

WriteTopic(op, s, byte) ==
  WriteBinary(s) \o (IF op = "subscribe" THEN <<byte>> ELSE <<>>)

RequestBytes(op, mid, topics, byte, props) ==
  WriteUint(mid, 2)
  \o (IF conn.protocol = 5 THEN WriteAll(props) ELSE <<>>)
  \o FoldLeft(LAMBDA bytes, s : bytes \o WriteTopic(op, s, byte), <<>>, topics)

\* mosquitto_subscribe_multiple, mosquitto_unsubscribe_multiple and the
\* functions that call them; options are those of MQTT 5 only.
Request(op, topics, qos, options, props) ==
  LET rc == RequestCode(op, topics, qos, options, props)
      mid == MidGenerate(conn.mid)
      byte == qos | (IF conn.protocol = 5 THEN options ELSE 0)
      asked == [op |-> op, topics |-> topics, byte |-> byte, props |-> Outgoing(props),
                rc |-> rc, mid |-> mid, bytes |-> <<>>, length |-> 0]
  IN /\ request = None /\ simple = None /\ answer = None
     /\ request' = IF rc # "success" THEN [rc |-> rc]
                   ELSE [asked EXCEPT
                           !.bytes = RequestBytes(op, mid, topics, byte, Outgoing(props)),
                           !.length = RequestLength(op, topics, Outgoing(props))]
     /\ conn' = IF rc = "success" THEN [conn EXCEPT !.mid = mid] ELSE conn
     /\ UNCHANGED <<answer, simple>>

-----------------------------------------------------------------------------
(***************************************************************************)
(* Answers and callbacks.                                                  *)
(***************************************************************************)
\* The functions of callbacks.c that set the four callbacks that matter here.
CallbackSet(callback) ==
  /\ request = None /\ simple = None /\ answer = None
  /\ conn' = [conn EXCEPT !.callbacks = @ \cup {callback}]
  /\ UNCHANGED <<request, answer, simple>>

Callbacks == {"on_subscribe", "on_subscribe_v5", "on_unsubscribe", "on_unsubscribe_v5"}
CallbacksOf(op) ==
  IF op = "subscribe" THEN {"on_subscribe", "on_subscribe_v5"}
  ELSE {"on_unsubscribe", "on_unsubscribe_v5"}

\* A mutant: the codes are taken to follow the id.
GrantedAfterMid(p) == SubSeq(p.payload, 3, Len(p.payload))

\* The bytes that are left: what the broker granted.
Granted(p) == SubSeq(p.payload, p.pos + 1, Len(p.payload))

\* handle__suback and handle__unsuback: a return code and the callbacks.
Handle(op, active, packet) ==
  LET mid == ReadUint(packet, 2)
      props == IF conn.protocol = 5
               THEN ReadAll(IF op = "subscribe" THEN "SUBACK" ELSE "UNSUBACK", mid.p)
               ELSE [rc |-> "success", p |-> mid.p, list |-> <<>>]
      rc == CASE ~active              -> "protocol"
              [] mid.rc # "success"   -> mid.rc
              [] mid.value = 0        -> "protocol"
              [] OTHER                -> props.rc
      call(callback) ==
        [callback |-> callback, mid |-> mid.value,
         granted |-> IF op = "subscribe" THEN Granted(props.p) ELSE <<>>,
         props |-> IF callback \in {"on_subscribe_v5", "on_unsubscribe_v5"}
                   THEN View(props.list) ELSE <<>>]
  IN [rc |-> rc,
      calls |-> IF rc = "success"
                THEN {call(callback) : callback \in conn.callbacks \cap CallbacksOf(op)}
                ELSE {}]

\* A broker answers, and may lose the end of its answer.  Whether there was
\* a request with the id is not looked at.
Answer(op, active, mid, props, codes, lost) ==
  LET bytes == WriteUint(mid, 2) \o (IF conn.protocol = 5 THEN WriteAll(props) ELSE <<>>) \o codes
      arrived == SubSeq(bytes, 1, Len(bytes) - lost)
      handled == Handle(op, active, PacketOf(arrived))
  IN /\ request = None /\ simple = None /\ answer = None /\ lost <= Len(bytes)
     /\ answer' = [op |-> op, rc |-> handled.rc, calls |-> handled.calls, mid |-> mid,
                   codes |-> codes, lost |-> lost, props |-> View(props), active |-> active]
     /\ UNCHANGED <<conn, request, simple>>

-----------------------------------------------------------------------------
(***************************************************************************)
(* mosquitto_subscribe_simple and the callbacks it gives to                *)
(* mosquitto_subscribe_callback, which makes an instance of its own.       *)
(***************************************************************************)
NewConn == [protocol |-> 4, maximum |-> 0, mid |-> 0, callbacks |-> {}]

SubscribeSimple(count, wantRetained) ==
  /\ request = None /\ simple = None /\ answer = None /\ conn = NewConn
  /\ simple' = [rc |-> "running", messages |-> <<>>, left |-> count, count |-> count,
                wantRetained |-> wantRetained, arrived |-> <<>>, failed |-> FALSE,
                leaving |-> FALSE]
  /\ UNCHANGED <<conn, request, answer>>

\* A mutant: a message that arrives when all are there is not ignored.
IgnoredIfStale(message) == ~simple.wantRetained /\ message.retain

Ignored(message) == simple.left = 0 \/ (~simple.wantRetained /\ message.retain)

\* on_message_callback with on_message_simple: a failed copy disconnects, as
\* does the last message; the loop may read on until the socket is closed.
OnMessage(retain, copied) ==
  LET message == [n |-> Len(simple.arrived) + 1, retain |-> retain]
      taken == [simple EXCEPT !.left = @ - 1]
  IN /\ simple # None /\ simple.rc = "running" /\ Len(simple.arrived) < MaxMessages
     /\ \/ /\ Ignored(message)
           /\ simple' = [simple EXCEPT !.arrived = Append(@, message)]
        \/ /\ ~Ignored(message) /\ copied
           /\ simple' = [taken EXCEPT !.arrived = Append(@, message),
                                      !.messages = Append(@, message),
                                      !.leaving = @ \/ taken.left = 0]
        \/ /\ ~Ignored(message) /\ ~copied
           /\ simple' = [taken EXCEPT !.arrived = Append(@, message),
                                      !.failed = TRUE, !.leaving = TRUE]
     /\ UNCHANGED <<conn, request, answer>>

\* mosquitto_loop_forever returns: with success when it was told to leave,
\* with an error whenever it cannot go on.
LoopEnds(rc) ==
  /\ simple # None /\ simple.rc = "running"
  /\ rc = "success" => simple.leaving
  /\ simple' = [simple EXCEPT !.rc = rc,
                              !.messages = IF rc = "success" /\ simple.left = 0 THEN @ ELSE <<>>]
  /\ UNCHANGED <<conn, request, answer>>

RequestsInit ==
  /\ conn \in [protocol : {4, 5}, maximum : PacketSizes, mid : Mids, callbacks : {{}}]
  /\ conn.protocol = 4 => conn.maximum = 0
  /\ request = None /\ answer = None /\ simple = None

RequestsNext ==
  \/ \E topics \in Filters, qos \in 0..3, options \in SubscribeOptions, props \in RequestLists :
       Request("subscribe", topics, qos, options, props)
  \/ \E topics \in Filters, props \in RequestLists : Request("unsubscribe", topics, 0, 0, props)
  \/ \E callback \in Callbacks : CallbackSet(callback)
  \/ \E op \in {"subscribe", "unsubscribe"}, active \in BOOLEAN, mid \in 0..1,
        props \in AnswerLists, codes \in Codes, lost \in 0..3 :
       Answer(op, active, mid, props, codes, lost)
  \/ \E count \in Wanted, wantRetained \in BOOLEAN : SubscribeSimple(count, wantRetained)
  \/ \E retain, copied \in BOOLEAN : OnMessage(retain, copied)
  \/ \E rc \in {"success", "conn_lost"} : LoopEnds(rc)

-----------------------------------------------------------------------------
(***************************************************************************)
(* A broker that reads a request.                                          *)
(***************************************************************************)
ReadTopics(op, p) ==
  LET after[k \in 0..Len(p.payload)] ==
        IF k = 0 THEN [p |-> p, topics |-> <<>>, bytes |-> {}]
        ELSE LET before == after[k - 1]
             IN IF Remaining(before.p) = 0 THEN before
                ELSE LET s == ReadBinary(before.p)
                         b == ReadUint(s.p, 1)
                     IN IF op = "subscribe"
                        THEN [p |-> b.p, topics |-> Append(before.topics, s.value),
                              bytes |-> before.bytes \cup {b.value}]
                        ELSE [p |-> s.p, topics |-> Append(before.topics, s.value),
                              bytes |-> {0}]
  IN after[Len(p.payload)]

\* A request that was accepted is as long as its remaining length says, and
\* the broker reads from it the id that the application was given, which is
\* never 0, its properties, and every subscription with its QoS and options
\* in the order of the array.
RequestReadsBack ==
  request # None /\ request.rc = "success" =>
    LET mid == ReadUint(PacketOf(request.bytes), 2)
        props == IF conn.protocol = 5
                 THEN ReadAll(IF request.op = "subscribe" THEN "SUBSCRIBE" ELSE "UNSUBSCRIBE",
                              mid.p)
                 ELSE [rc |-> "success", p |-> mid.p, list |-> <<>>]
        payload == ReadTopics(request.op, props.p)
    IN /\ Len(request.bytes) = request.length
       /\ mid.value = request.mid /\ mid.value # 0
       /\ props.rc = "success" /\ View(props.list) = View(request.props)
       /\ payload.topics = request.topics
       /\ request.topics # <<>> => payload.bytes = {request.byte}

\* A request that was accepted is not larger than the Maximum Packet Size of the broker:
\* the other requests are answered with MOSQ_ERR_OVERSIZE_PACKET.  The code breaks it:
\* packet__check_oversize does not count the first byte of the packet, and it is not
\* told of the length of the properties.
RequestFits ==
  request # None /\ request.rc = "success" /\ conn.maximum # 0 =>
    1 + VarintBytes(request.length) + request.length <= conn.maximum

\* Every callback that is set is called, once, with the id of the answer and
\* with the codes in the order in which the broker sent them, however long
\* the properties in front of them; when the end of the packet is missing
\* they are a prefix or the packet is refused, and before the CONNACK there
\* is no call at all.
GrantedArePassed ==
  answer # None =>
    /\ answer.calls # {} =>
         /\ answer.active /\ answer.mid # 0
         /\ {c.callback : c \in answer.calls} = conn.callbacks \cap CallbacksOf(answer.op)
    /\ \A c \in answer.calls :
         /\ c.mid = answer.mid
         /\ answer.op = "subscribe" =>
              c.granted = SubSeq(answer.codes, 1, Len(answer.codes) - answer.lost)
         /\ c.callback \in {"on_subscribe_v5", "on_unsubscribe_v5"} /\ conn.protocol = 5 =>
              c.props = answer.props
    /\ answer.lost = 0 /\ answer.active /\ answer.mid # 0 => answer.rc = "success"

\* mosquitto_subscribe_simple never has more messages than it was asked for,
\* although more may arrive before it is disconnected, and they are the first
\* that arrived, without the retained ones when those are not wanted; it
\* returns success with fewer only when one could not be copied.
SimpleCollects ==
  simple # None =>
    LET wanted == SelectSeq(simple.arrived, LAMBDA m : simple.wantRetained \/ ~m.retain)
    IN /\ Len(simple.messages) <= simple.count
       /\ ~simple.failed /\ simple.rc \in {"running", "success"} =>
            simple.messages = SubSeq(wanted, 1, IF Len(wanted) < simple.count
                                                THEN Len(wanted) ELSE simple.count)
       /\ simple.rc = "success" /\ ~simple.failed => Len(simple.messages) = simple.count
=============================================================================
