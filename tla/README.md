# ofxMQTT in TLA+

ofxMQTT is a thin openFrameworks wrapper (`src/ofxMQTT.cpp`) around a vendored copy of
libmosquitto (`libs/mosquitto/src`). It is the client side of MQTT 3.1.1, single-threaded, without
TLS or SOCKS. The application calls `connect`, `publish`, `subscribe` and `disconnect` between
frames, `update()` in every frame, and gets `onOnline`, `onOffline` and `onMessage` from inside
`update()`. This directory holds TLA+ models of the parts with protocol state and of the
algorithms on data, TLC configurations that check them, and proofs for TLAPS.

Paths below are relative to `libs/mosquitto/src` unless they start with `src/`.

## Inventory

| part | state | operations | talks to |
|---|---|---|---|
| ofxMQTT (`src/ofxMQTT.cpp`) | `alive`, host, will, credentials | connect, publish, subscribe, unsubscribe, update, disconnect, events | library calls; callbacks from it |
| lifecycle (`connect.c`, `loop.c`, `handle_connack.c`, `send_disconnect.c`) | `mosq->state`, `sock`, `host`, `reconnects` | connect, reconnect, disconnect, loop, loop_forever, rc handling | sockets, message lists (reset), packet queue (emptied) |
| sockets (`net_mosq.c`) | `sock` | connect to the addresses of a name, read, write, close | lifecycle |
| SOCKS5 (`socks_mosq.c`) | `in_packet`, the `socks5_*` states | send, read | lifecycle, sockets |
| keepalive (`util_mosq.c`, `loop.c`) | `last_msg_in`, `next_msg_out`, `ping_t` | check, PINGREQ, PINGRESP, select | lifecycle |
| outgoing messages (`messages_mosq.c`, `handle_pubackcomp.c`, `handle_pubrec.c`) | `msgs_out`: list, quota, maximum; `last_mid` | publish, PUBACK, PUBREC, PUBCOMP, reset at reconnect, retry at CONNACK | packet queue; on_publish callback |
| incoming messages (`handle_publish.c`, `handle_pubrel.c`) | `msgs_in` | PUBLISH by QoS, PUBREL, reset at reconnect | packet queue; on_message callback |
| packet queue (`packet_mosq.c`) | `out_packet`, `current_out_packet`, position in it | queue, write, clean up | socket; `do_client_disconnect`; on_publish |
| packet reader (`packet_mosq.c`, `packet_datatypes.c`, `read_handle.c`) | `in_packet` | read, dispatch | handlers |
| settings (`mosquitto.c`, `options.c`, `will_mosq.c`, `send_connect.c`) | id, will, credentials, options, limits | reinitialise, setters, CONNECT | lifecycle, properties |
| subscriptions (`actions.c`, `send_subscribe.c`, `send_unsubscribe.c`, `handle_suback.c`, `handle_unsuback.c`, `callbacks.c`, `helpers.c`) | `last_mid`, callbacks | subscribe, unsubscribe, their answers, subscribe_simple | packet queue, callbacks |
| properties (`property_mosq.c`) | lists | add, check, measure, write, read, copy, look up | everything that writes MQTT 5 packets |
| topics, UTF-8 (`util_topic.c`, `utf8_mosq.c`) | none | validation, matching, tokenising | publish, subscribe, application |
| topic aliases, AUTH, TLS, SRV, threads, logging, memory, vendored headers, example | see `PROJECT.json` | | |

What is hard. Nothing runs in parallel, but the interleavings are many: the network may fail before
or after any packet; a socket may be dead for writing while packets that arrived earlier can still
be read; a write may take part of a packet or be refused for now (`EAGAIN`); a packet arrives in
pieces; callbacks call back into the library in the middle of a handler; a handler changes the
message lists before it knows whether its send works; a reconnect happens in the same frame as the
loss; message ids and the in-flight window are limited resources shared by all flows; and lengths
are computed in one place and written in another. What makes each part correct:

* outgoing: no message lost, QoS 2 never delivered twice, order kept, the window used fully and
  never exceeded, every message acknowledged in the end;
* incoming: every completed flow reached the application, and only once;
* lifecycle: `connected()` tells the truth, each connection carries a legal packet sequence, a
  lost connection is reported once, the client always comes back, `disconnect()` always ends it;
* sockets and handshake: none leaks, MQTT begins where the proxy's answers end;
* keepalive: the broker hears from the client in time, silence is noticed, nothing else is;
* queue and reader: bytes in order, each packet whole, whatever the socket accepts or returns;
* data: what is written is what the other side reads; agreement with the definitions of the
  standards for topics and UTF-8.

`PROJECT.json` lists the hazards with the line of each and the properties that cover it.

## Modules

| module | what it is |
|---|---|
| `MessageList` | lookup and removal by message id (`message__remove`), used for both lists |
| `OutMessages` | the operations of `messages_mosq.c` on `msgs_out` as functions of list and quota |
| `Publisher` | the sending client, a broker and a network that breaks; extends `OutMessages` |
| `Delivery` | what publishing promises, without ids, windows or packets; `Publisher` implements it |
| `Receiver`, `MCReceiver` | the receiving client and a broker; extends `MessageList` |
| `Lifecycle` | ofxMQTT and the connection: calls, callbacks, `update()`, keepalive, reconnect |
| `Connecting`, `MCConnecting` | `mosquitto_loop_forever`, attempts at addresses, delays; extends `Socks5` |
| `Socks5` | the client's half of the SOCKS5 handshake as functions of the client |
| `Keepalive` | the times of `mosquitto__check_keepalive` with a clock and a loop that sleeps |
| `PacketQueue` | the linked list of outgoing packets, partial writes, callbacks in the middle |
| `ByteStream` | what the queue promises: a stream of bytes; `PacketQueue` implements it |
| `PacketReader`, `MCPacketReader` | `packet__read` on a stream that arrives in pieces; extends `Codec` |
| `Codec` | the fields of packets: bytes, integers, variable length integers, strings |
| `Topics`, `Utf8`, `Strings` | the checks and the matching, UTF-8, and the strings given to them |
| `Properties` | MQTT 5 property lists; extends `Codec` |
| `Setup` | the settings, the CONNECT they become and what a CONNACK leaves; extends `Properties` |
| `Requests` | SUBSCRIBE, UNSUBSCRIBE, their answers, `mosquitto_subscribe_simple`; extends `Properties` |
| `MCData` | one instance for the modules on data |
| `PublisherProofs` | theorems about the functions of `OutMessages`, and about `Publisher` |
| `LifecycleProofs`, `ConnectingProofs`, `KeepaliveProofs` | theorems about the connection |
| `ReceiverProofs` | theorems about incoming messages |
| `PacketQueueProofs`, `PacketReaderProofs` | theorems about the list of packets and about reading one |
| `MessageListProofs` | the lemmas that several of them cite |

**OutMessages and Publisher.** A message carries its rank in the order of `mosquitto_publish` calls
(in place of topic and payload), its message id, QoS, state and DUP flag. `ReleaseToInflight`,
`MessageQueue`, `ReconnectReset`, `RetryPackets` and `OutUpdate` are the C functions of the same
names; the loops over the list become functions on sequences. Each handler of `Publisher` is one
action with everything it calls: `HandlePubackcomp` returns the quota, removes the message, lets the
callback publish, releases held messages and sends them; `HandlePubrec`, `HandleConnack` (reset of
the quota, callback, retransmission), `Publish`, `Disconnect`, `Reconnect`, `ReconnectFails`,
`ConnectAgain` (`mosquitto_reinitialise`, which drops the list). A send on a broken link fails, and
every error path after a failed send is in the action. The broker and the network are external: a
link breaks at any moment, losing what is on the way, with what the client already received
still readable.

**Delivery** is the abstract specification: a message is published, delivered to the
subscribers of the broker once for QoS 2 in a kept session and at least once for QoS 1, and then
reported to the application, and never delivered after that. `Publisher` instantiates it with a
refinement mapping and TLC checks that every step is a step of `Delivery` or a stutter.

**Receiver.** `msgs_in` holds QoS 2 messages from PUBLISH to PUBREL. `Answer` writes PUBACK, PUBREC
or PUBCOMP; a failed write ends the connection after the handler's remaining effects, as in the code:
QoS 1 messages are passed on all the same, QoS 2 messages are queued all the same, and `handle__pubrel`
drops the message (`Release`, `dropped`). What arrived before a link broke can still be read after it,
as a socket allows, so each answer may be the one that fails. A setting says whether the session is clean
and whether the broker uses the id of a completed message again.

**Lifecycle.** One record is the client and its socket. A step is one read, one write or one keepalive
check of a frame with the callbacks it makes; an error runs through `mosquitto__loop_rc_handle`
and, unless `disconnect()` was called, through the reconnect of `update()` in the same step.
`OnlineReactions`, `OfflineReactions` and `MessageReactions` say what the application may do inside
the events. A socket is open, full (writes say `EAGAIN`), dead, or silent (packets vanish without an
error). Time is abstract: a keepalive interval passes when nothing is on its way.
`mosquitto_loop_read` reads as many packets in one frame as there are unacknowledged messages
(`Budget`, `reads`), each in a step of its own, and goes on after a handler that closed the socket and
returned success (`UpdateReadNoConn`). For that, messages of QoS 1 are counted: `waiting` is the length of `msgs_out`
and `resend` how many of them the `message__retry_check` in `handle__connack` sends again (`RetryCheck`). If
`onOffline` calls `connect()` in the middle of that loop, the list it walks has been freed: how many
messages it finds there is any number (`stale`). What the in-flight window, QoS 2 and `msgs_in` add to this is
left out: a longer budget of the same kind, and packets like those that are there.

**Connecting and Socks5.** The client of `mosquitto_loop_forever`, which the addon does not call but
the library offers. An attempt tries the addresses of the name in turn (`TrySocket`), each refused
for its own reason and with its socket closed or not as in `net__try_connect_tcp`, and counts
descriptors. With a proxy the state goes through the handshake: a read takes any number of the bytes
that are there (`ReadHandshake(n)`), and `Socks5Read` decides on `packet_length` as the code does.
The other end may answer with codes, with something else, close, reset or go silent; a socket number may be
too high for `select`. `Backoff` computes the delay and connects again.

**Keepalive.** Times are kept relative to the clock, in seconds. `Select` sleeps for the timeout or
until `next_msg_out`; `Loop` reads one packet and runs `mosquitto__check_keepalive`. A signal may cut
the sleep short, and the call with it, without a look at the times. The backlog holds
whole packets and pieces of packets, as only the end of a packet moves `last_msg_in`.

**PacketQueue and ByteStream.** The list is modelled by its pointers, `out_packet`,
`out_packet_last`, `current_out_packet` and `next`; `packet__write` has a program counter, because
it calls `on_publish` and `on_disconnect` (through `do_client_disconnect`) before it frees the
packet. Freed packets are counted, and the history of what was queued and told is compared with the
bytes that left. `ByteStream` is the abstract specification.

**PacketReader and Codec.** Between calls `in_packet` says how far a packet has been read;
`WhereToGoOn` is the chain of conditions at the start of `packet__read`. `MCPacketReader` gives digits
of one bit, so that lengths of five digits, which the code refuses, are within reach. A stream may be
any packets; `WellFramed` says of those of a broker that the digits are a length and the payload is as
long, which `HandledIsSent` needs and TLC evaluates for the instance (`StreamsAreFramed`).

**Strings, Topics and Utf8.** `Strings` makes subscriptions, topics and byte strings one
character at a time; the properties compare what the code says of every one with the definition by levels
and with the encoding of code points. `TopicMatchesSub` is one pass with two indexes, as in the code.

**Properties, Setup and Requests.** Lists of properties, the settings of a client and requests are
built by the calls of the application, each with its checks and partial effects; what is written
is read back by operators that read the standard's format, in the case of properties by the
library's own reader. `Setup` keeps every field that CONNECT depends on, and a CONNACK that changes some of them for the
next CONNECT. The bind address, which a CONNECT does not hold, is unset, set, or points to
memory that was freed (`Bound`; `options.c:343-354`). `Requests` has SUBSCRIBE and UNSUBSCRIBE with several
subscriptions, the granted codes, and the callbacks of `mosquitto_subscribe_simple`.

## Runs

Passing runs, with what they show:

| run | properties | bounds |
|---|---|---|
| `publisher_window` | held messages last, held only when the window is full, exact quota, acknowledgments match | window 2, ids that wrap, a fault, publishing in callbacks, `connect()` again |
| `publisher_delivery` | order, no PUBLISH after PUBREC, refinement of `Delivery`, every message acknowledged in the end | window 1, three messages, two faults, sessions kept and clean, fair |
| `receiver` | in a kept session a completed flow was passed on or dropped by a failed PUBCOMP, a clean one repeats nothing, every flow completes | three messages, two faults; clean with ids used again, kept without; fair; 749206 states |
| `lifecycle_status` | `connected()`, packet order, one report of a loss, connected again in the end, `disconnect()` takes effect | four calls, two waiting messages, three faults, all reactions, fair; 64838 states |
| `connecting` | no socket leaks, MQTT begins after the handshake, losses are retried, delays grow within the limit, up in the end, `mosquitto_disconnect` ends the loop | no proxy, a proxy with and without a password; two addresses, three faults, three settings of the delays, fair |
| `keepalive` | the broker hears in one and a half intervals, silence is noticed within a bound, a working connection is never given up | interval 5, timeouts 0, 1 and 7, answers within 2 seconds, a backlog of two packets; the clock is not bounded |
| `packet_queue` | each packet freed once, told when written and not before, refinement of `ByteStream` | four packets of two bytes, two full or broken writes, reconnects in on_disconnect |
| `packet_reader` | the payload fits its buffer, what is handled is what was sent, everything is handled in the end | two packets with one to five digits of length, cut anywhere, two connections, fair |
| `data` | matching by levels, UTF-8, properties read back and read inside their packet, CONNECT and requests read back, answers, subscribe_simple | see below |

Two messages more than the window, two ids fewer than messages and two faults are what the known
mechanisms need: a reset that must hold a message back again needs a window plus one; a second
retransmission, which tells a saved state from a guessed one, needs two faults. A queue of four has a head, a
middle and a tail besides the packet being written. Three faults let a delay reach its limit and
start again after a success. Two waiting messages are what it takes for `mosquitto_loop_read` to read a second
packet in a frame. Each property has a mutant of the code in the modules,
above the definition it changes, that the run detects.

The bounds of `data`: subscriptions of four characters and topics of three, from two characters
with and three without a meaning to MQTT, reach every return of the matching; strings of two
code points from those at the borders of each encoding, with a stray or missing byte anywhere; lists of two properties, the first with every
identifier; four calls before, between and behind a CONNECT. A byte has 43 values of a
digit instead of 128 (`Base`) and a string is cut at 50 bytes instead of 65536 (`LengthWidth`), so that
the lengths where an encoding grows are a few bytes away; the code's arithmetic is the same with
these two numbers in it. The properties assume no more than the code: strings that are cut because they are too long
are excepted by name (`FieldsFit`, `LengthsFit`).

Violation runs, each a disagreement between the code and what its documentation says:

| run | what happens |
|---|---|
| `receiver_stale` | `msgs_in` keeps messages of a session that no longer exists and passes one on in place of a new one |
| `connecting_disconnect` | `mosquitto_disconnect` in `on_connect` is written over by `handle__connack`: when the connection is lost before the DISCONNECT is written, `mosquitto_loop_forever` connects again and stays |
| `data_oversize` | a SUBSCRIBE larger than the broker's Maximum Packet Size is sent and the call succeeds: `packet__check_oversize` leaves out the first byte (`packet_mosq.c:202`), its callers the length of the properties (`actions.c:215`, `272`) |

`receiver_stale` happens to ofxMQTT as it is; the other two are about what the library offers besides.

`CHECK_DEADLOCK FALSE` stands in the configurations of `Lifecycle` and `Connecting`, where the application may stop (calls are
bounded, `mosquitto_loop_forever` may return), and of `data`, whose behaviours are finite constructions.

### What the models show beside the runs

These follow from the models or from reading the code for them, and no run is about them:

* `on_disconnect` may be called twice for one connection: `ToldOnce` in `Lifecycle` is false with two or more
  waiting messages (the constants of `lifecycle_status`). `disconnect()` in `onOnline` queues a DISCONNECT; the
  `message__retry_check` that `handle__connack` runs after the callback (`handle_connack.c:125`) writes it,
  `do_client_disconnect` closes the socket and calls `on_disconnect`, and the handler returns success;
  `mosquitto_loop_read` then reads again (`loop.c:394-408`), gets `MOSQ_ERR_NO_CONN`, and `mosquitto__loop_rc_handle`
  calls `on_disconnect` for the connection that has already ended. `LostOnce` holds: only a connection whose DISCONNECT
  was written is reported again.
* `connect()` while connected leaves `connected()` TRUE (`src/ofxMQTT.cpp:71`), as `mosquitto_reinitialise` closes the old socket
  without a callback, until the next accepted or lost connection: `AliveIsAccepted` is false with `ConnectsAgain`, which
  `lifecycle_status` therefore excludes and `AliveIsTrue` assumes away. `README.md:110` of the repository says of `connected()`: "Check if the client is
  currently connected".
* QoS 2, receiving, with a kept session, which ofxMQTT never asks for, one message and two faults: a PUBCOMP that cannot be written loses its message
  (`handle_pubrel.c:109`), as the PUBREL of the next connection is answered and the flow completes without
  `on_message` (`CompletedWasPassed` is false of `MCKept`, too); a QoS 2 PUBLISH whose PUBREC was lost is queued a second time
  (`handle_publish.c:164`), and a PUBREL whose PUBCOMP was lost passes on the second, although the comment at `handle_pubrel.c:117-118`
  means to prevent it (`AtMostOnce` is false of `MCKept`).
* `disconnect()` inside `onMessage` may close the socket without a DISCONNECT
  (`handle_publish.c:49`, `DisconnectIsSent` in `Lifecycle` is false), although `mosquitto.h:183-187` relies on one;
  `on_disconnect` may report a failure after `disconnect()` (`util_mosq.c:111`, `ReasonIsZero`;
  `mosquitto.h:1969-1971`).
* Two unacknowledged messages may share an id after 65535 calls.
* The comment at `mosquitto.h:1632-1633` gives delays of 3, 6, 12, 24, 30 seconds; the code's are 3, 12, 27, 30.
* A `mosquitto_loop_forever` with a proxy that closes in the middle of the handshake returns
  `MOSQ_ERR_PROXY`; one whose proxy reports its bound address as a domain name reads the two bytes of the port
  as MQTT (`socks_mosq.c:409-413`; `HandshakeIsWhole` excepts them). The properties of
  `mosquitto_connect_bind_v5` are lost through a proxy (`socks_mosq.c:441`).
* Calls that fail halfway: `mosquitto_reinitialise` with an empty id and no clean session leaves an inflight
  maximum and a max_qos of 0 (`mosquitto.c:157`); `mosquitto_username_pw_set` has cleared the old credentials
  (`options.c:82`); `mosquitto_connect_bind_v5` has changed properties and bind address (`connect.c:104`).
  The limits in a CONNACK stay for the next broker (`handle_connack.c:106-110`).
* Lengths: the payload of a will of 65536 bytes or more is written behind a length of 16 bits
  (`send_connect.c:194`), a string of exactly 65536 bytes is stored with length 0 (`property_mosq.c:877`), a password is not
  limited. The qos of a will is not checked
  (`will_mosq.c:92`), nor are bits 0 and 1 of subscription options.
* Properties: the length of a list is unsigned and wraps when a property ends behind it
  (`property_mosq.c:55`), and what follows is still refused or read inside the packet (`ReadStaysInside`);
  lists that were received or copied are cut to their first property by publish, subscribe
  and disconnect (`actions.c:60-72`); copying an empty string calls `strdup(NULL)`
  (`property_mosq.c:1243-1282`); the second string of a pair is not validated (`PairIsUtf8` in `Properties` is false), although
  `mosquitto.h:2868-2880` asks for UTF-8.
* `mosquitto_subscribe_simple` may return success with fewer messages when a copy fails
  (`helpers.c:80`), and `mosquitto_unsubscribe_multiple` accepts no topics at all.
* A QoS 0 `on_publish` that reconnects frees the packet being written twice: `packet_queue` lets
  reconnects happen in `on_disconnect` only (`ReconnectsIn`). ofxMQTT sets no `on_publish`.

## Fairness

The liveness properties assume weak fairness of the client's own steps, because an application calls
`update()` in every frame (`README.md` asks for it) and `mosquitto_loop_forever` is a loop, and of the
broker's and the proxy's answers. `Lifecycle` also lets time pass (weak fairness of the keepalive).
`PacketReader` assumes that its steps are taken while there is something to read and that the last connection stays. Faults,
refusals, application calls and the draining of a full socket get no fairness; faults are bounded, so that a connection that works is possible
at all.

## Proofs

Every theorem below holds for every value of the constants that the modules' assumptions allow, where
no other hypothesis is named. Liveness stays with the runs. Where lemmas need a least index (the first message
with an id), it comes from well-foundedness of the naturals. `MessageListProofs` has the lemmas about
lookup, removal and sequences that the others cite, and two about functions defined by recursion, such as the
bytes of a stream (`Wire`), the value of digits (`Value`) and the packets of one kind (`Only`): `Induction` is stated for a set in place of a
predicate, again from well-foundedness, and `Recursion` says that the function exists.

**Outgoing messages.** `PublisherProofs` first proves for every list, quota and window size what each list operation
does to the invariant `Window`: held messages are last, the quota is the free part of the window,
and a message is held only when the window is full. Handlers break it in the middle
(`handle__pubackcomp` returns a unit of the quota first), so the lemmas use a weaker form, `Room`,
between the removal and the release, and `ReleaseWindow` restores `Window`. Failed sends leave a
message counted in flight without a unit; `Window` asks for exactness only on a working connection,
and `ResetWindow` shows that `message__reconnect_reset` restores it from anything. About `Publisher`:

* `TypeCorrect`: `Spec => []ClientTypeOK`.
* `AcksAlwaysMatch`: an acknowledgment that is handled belongs to a message in flight. Ids wrap, so two
  messages in flight may have the same id, and the invariant has to count: for each id, the packets on
  their way to the broker that ask for an answer plus the answers on their way back are no more
  than the messages within the window that await one (`Balanced`). From a reconnection to its
  CONNACK (`Fresh`) nothing that waits to be sent again awaits an answer yet; `Traffic` says that CONNECT and
  CONNACK are first on their way, so that the client knows which of the two it is.
* `HeldStayLast`, `NoStall`, `QuotaExact`: the three parts of `Window`. The inductive invariant is
  `AInv == IInv /\ Traffic /\ Balanced` with `IInv == ClientTypeOK /\ Window(...)`: an unexpected acknowledgment
  would return a unit of the quota that nobody took, so the window needs the count, and the count
  needs the window (the first message with an id is the one in flight).
* `PubrecStays`: `PubrecIsFinal`, an action property. `Listed` says that ids grow along the list, and that
  states of a retransmission and DUP flags are found within the window only; the lemmas carry any set of messages
  past their PUBREC through every operation.
* `SentInOrder`: `OrderKept`. `Travelled` relates what has travelled on the connection to the
  list: no held message and, before the CONNACK, no message that the retry will send has travelled, and what was sent
  for the first time is older than every held message. It needs `Window` at the CONNACK: only because the quota is
  exact does the reset there hold back nothing that has travelled.

* `DeliversOnce`: the refinement of `Delivery`, if the wrapper's `connect()` is not called again
  (`~ConnectsAgain`; it frees the list, and the ids start again) and while `IdsDiffer`: no id is given to a message while
  another one of the list has it. The code gives ids in turn without a look at the list, so that with a message
  that waits for 65535 publishes the broker's store and the acknowledgments would be about the wrong one.
  The invariant `Told` is about the set of entries of the list (id, message id, QoS, past its PUBREC or not), which most
  operations leave as it is, and says what the three parties know together: every packet on its way is about a message of the
  list or an undelivered QoS 0 message, every answer on its way back and every id the broker stores is about a message that
  was passed on, a message past its PUBREC was passed on, and a broker that keeps its session stores the id of a QoS 2 message
  that was passed on and is not past its PUBREC. That an acknowledgment ends a message for good needs `Once`: for each id at most one packet is on
  its way that asks for an answer or is one, which is `Balanced` once ids differ, and holds for what a dead connection
  has left, too. A step then is a step of `Delivery` (`Submitting`, `Reporting`, `Passing`) or a stutter.
* `DeliversOnceAtFirst`: the same without `IdsDiffer` for up to `MaxMid` publishes, because each id still is
  the rank of its message (`Counts`); `publisher_delivery` is an instance of it.

**Incoming messages.** `ReceiverProofs`, with one invariant for both kinds of sessions:

* `RepeatsNothing`: a clean session passes no message twice, whatever is read after a link broke and
  with or without ids used again. The invariant (`Distinct`) says that a message is passed on, or in `msgs_in`, or on its way
  (once, as PUBLISH) and never two of these; a clean session empties `msgs_in` when it ends.
* `LosesNothing`: in a kept session whose ids are not used again, every completed flow has been passed on,
  or its message is in `dropped`, because its PUBCOMP could not be written; neither can be left out
  (see "What the models show"). A failed PUBREC or PUBACK loses nothing. The invariant (`Flow`)
  follows a flow through the packets on their way, the broker's session and `msgs_in`: a PUBREC, PUBREL or
  PUBCOMP exists only for a message that is in `msgs_in`, passed on or dropped.
* `TypeCorrect`.

**Connection.** `LifecycleProofs`, for every choice of what the application does in its events:

* `LostReportedOnce`: `Spec => []LostOnce`. A second `on_disconnect` for a connection follows its DISCONNECT only; that there
  may be one is told above. `LostOnce` is not inductive: it needs that a connection that was told of its end has no socket
  (`c.told => c.sock = "none"`), and that a frame which reads on after that (`c.reads # 0`) has written a DISCONNECT:
  an error ends `mosquitto_loop_read` before the next frame reads again.
* `AliveIsTrue`: `Spec => []AliveIsAccepted` if the application is `Polite`: it does not call
  `connect()` on a connection that is up, nor in `onOnline` and `onMessage`. With a call
  of `connect()` on a connection that is up the property is false.

* `WrittenInOrder`: `Spec => []WireOrder`, for any calls and reactions: the CONNECT first and once, nothing after a
  DISCONNECT. `disconnect()` may queue a second DISCONNECT, and packets may stay in the queue behind one, so the order does not
  hold of the queue: it holds because `packet__write` stops at the first DISCONNECT, the socket is closed then, and a
  reconnect empties the queue before it writes.
* `TypeCorrect`.

One invariant (`IInv`) carries the first two. It gives no types, only the fields of the record (`IsClient`), and each
operator has a lemma that says what it does to `sock`, `alive`, `accepted`, `told` and `wrong`. The other
invariant (`Orderly`) gives types to all fields and says that on an open connection the CONNECT is written and a DISCONNECT
is not (`Fresh`), and that a client that waits to connect has neither a socket nor packets (`Waits`). What a handler does
between the DISCONNECT and the closed socket breaks `Fresh`, so the lemmas about closing ask for types only.

`ConnectingProofs`, for any number of addresses, attempts and faults and any settings of the delays:

* `NoLeaks`: one descriptor for a connected client and none otherwise.
* `HandshakeRead`: nothing of the proxy's handshake is unread when CONNECT has been sent, except after the
  answer with a domain name, whose port the code leaves. The invariant (`Flow`, `Whole`): what
  was read plus what is on its way is the whole of one answer of the proxy, and
  `packet_length` and `pos` of the client agree with it. It holds however the bytes are cut.
* `LossRetried`: `mosquitto_loop_forever` gives up for the listed reasons and never for a lost connection.
* `DelaysNeverShrink`: an action property, from the last delay being no longer than the next (`Delays`)
  and the delay that is wanted growing with the number of attempts, linear or exponential.
* `TypeCorrect`.

**Keepalive.** `KeepaliveProofs`, for every interval, timeouts and backlog:

* `ContactKept`: the broker hears within one and a half intervals, if the application is never away for more than
  half an interval (`2 * MaxGap <= KeepaliveSeconds`). The invariant: what the broker has waited and what is
  left until the next message make up the interval, and that is overdue by no more than the absence.
* `SilenceNoticed`: a silent network is noticed within `2 * (KeepaliveSeconds + Late) + MaxBacklog * MaxGap`
  seconds. `Late` is how far apart two looks at the keepalive may be: a sleep, and `MaxGap` times a second of absence or
  a sleep that a signal cuts short.
* `NoFalseAlarms`: an action property; a working connection is not given up if the slowest answer and the
  reading of the backlog before it take less than an interval (`MaxDelay + MaxBacklog * MaxGap <
  KeepaliveSeconds`), which is what a PINGRESP in time means.
* `TypeCorrect`.

**Outgoing packets.** `PacketQueueProofs`, for any number of packets, errors and reactions:

* `BytesInOrder`: `Spec => ImplementsStream`, the refinement of `ByteStream`, also when `on_publish`
  reconnects. Along `next` a list holds the packets from `out_packet` to the newest in a `Run` (`ListIs`), so
  `packet__queue` adds at the end (`ReachedEnqueue`), and the bytes left of a sequence of packets are sums that
  begin with its first packet (`PendingPut`). `packet__queue` is an `Accept`, `mosquitto__reconnect` a
  `Restart`, `net__write` a `Write`; every other step leaves the stream as it is, for which `Drained` is needed: the
  packet that `on_publish` is called for is out, unless the callback has freed it.
* `ToldOnceWritten`: `on_publish` is called once for a packet, after its last byte.
* `FreedExactlyOnce`: every packet is freed, in the list, or current, and only one of them, if
  `on_publish` does not reconnect (`"on_publish" \notin ReconnectsIn`): `packet__write` still holds the packet it
  called back about, and a reconnect in there frees it first. The invariant (`Exact`, with the
  shape of the list in `Sound`) describes the list by the order in which packets were queued, so that
  pointers need no recursion.
* `TypeCorrect`.

**Incoming packets.** `PacketReaderProofs`, for every set of streams, every number of connections and every weight of a digit:

* `PayloadStaysInside`: `Spec => []PayloadFits`, for any bytes, those of a broker or not: what was read and what is still
  to be read make up what was allocated. It needs `Counted`, which relates `remaining_count`, `remaining_mult` and
  `remaining_length` (the length read so far is below the weight of the next digit), and `Located`, which says what is
  known of `in_packet` at each step of `packet__read`.
* `HandlesWhatIsSent`: `Spec => []HandledIsSent` if `WellFramed`. The bytes that are not read are always those that the
  packets not yet handled leave (`PositionAt`): the reader is between two packets, or so many digits into a length, whose
  value is that of the digits read, or so many bytes into a payload. A reconnect at any of these starts again at a first
  packet. `Left` gives the bytes left of a stream behind each packet, and a packet refused for a fifth digit is the end of its connection.
* `TypeCorrect`: the length stays below the weight of a fifth digit, which for digits of 7 bits is 2^28.

**Model-checked only.** Everything in `data`, `EventuallyHandled` and all other liveness. `Induction` and `Recursion` reach functions
along one sequence, as above. What `Properties`, `Setup`, `Topics`, `Utf8` and `Requests` compute is reading back what
nested recursions over data wrote, or a comparison with a definition by cases: no theorem states it.

## Abstractions

* A handler of `Publisher` that sends several packets fails at its first one or not at all: a link breaks
  between handlers. The state that remains is the same as after a failure in the middle except for packets that
  were still delivered.
* Topics and payloads of messages are ranks. Argument checks are in the modules on data, not in `Publisher`.
* The maximum message id is a small constant in the runs; the proofs hold for every one.
* TCP connects block (`mosquitto_connect`), so `connect_pending` never has a socket.
* `Connecting`: packets of the client are written at once, `mosquitto_disconnect` is called in callbacks,
  nothing is published during the handshake, and `errno == EPROTO`, a failing `interruptible_sleep` and a client
  without a host are left out. A proxy that gives an empty domain name is left out.
* `Keepalive`: answers come within `MaxDelay`, shorter than the interval (otherwise the client gives
  up for good reason); one packet is read in a frame. An interval of 0 is left out: the client then
  sends no PINGREQ and does not notice silence at all.
* `PacketQueue`: one thread, so a packet is queued from the application or from a callback.
* `Requests` and `Setup`: allocations succeed. A random id of MQTT 3.1 is one of 23 bytes (`RandomId`).
  Strings that are not UTF-8 hold the byte `Malformed`; how bytes make UTF-8 is in `Utf8`.
* The checks for strings with a length and for those that end in a NUL are one operator.
* Application calls, faults and messages are bounded by constants that only guards mention.

## Plan

The modules are there, and every safety property that a passing run of a component with protocol state
checks is a theorem. What is left, should the code grow: `Properties` as lists with a recursive function for their
length, so that `ReadStaysInside` can be proved with the lemmas about recursive functions; and the argument
checks of `mosquitto_publish` in front of `Publisher`.

## Not modelled

TLS, OCSP, SRV and threads (compiled out: the addon sets none of these options), topic aliases
(`alias_mosq.c`, which the client never calls) and AUTH (read and dropped), the argument checks of
`mosquitto_publish` as part of publishing, the socket pair and connects that do not block, the setters that are a single
assignment, logging, memory and string helpers, the vendored list and hash macros, the example
application. SOCKS5 is compiled out as well and modelled as an option of the library.
