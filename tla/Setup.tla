-------------------------------- MODULE Setup --------------------------------
(***************************************************************************)
(* The settings of a client and the CONNECT they become (options.c,        *)
(* will_mosq.c, mosquitto_reinitialise, mosquitto_connect_bind_v5,         *)
(* send__connect) and what a CONNACK makes of them for the next CONNECT.   *)
(* The connection itself is in Connecting; here it is made at once.        *)
(***************************************************************************)
EXTENDS Properties

CONSTANTS
  Ids, Usernames, Passwords, \* strings, or NoString
  WillTopics, WillPayloads, WillLists,
  ConnectLists, ConnackLists,
  OptionValues, Keepalives, Ports,
  MaxCalls                   \* bound on the calls

VARIABLES
  client, \* the settings
  called  \* the last call: its name, result, the CONNECT it sent, how many before

setupVars == <<client, called>>

NoWill == <<>>
RandomId == [i \in 1..23 |-> 77]

\* struct mosquitto after the memset, and what is set before the first return.
Zeroed(clean) ==
  [id |-> NoString, clean |-> clean, protocol |-> 4, keepalive |-> 60,
   username |-> NoString, password |-> NoString, will |-> NoWill,
   props |-> <<>>, host |-> FALSE, bind |-> "none", inMax |-> 0, outMax |-> 0,
   maxQos |-> 0, maxPacket |-> 0, retainAvailable |-> 0, noDelay |-> FALSE,
   ready |-> FALSE]

Fresh(id, clean) ==
  [Zeroed(clean) EXCEPT !.id = id, !.inMax = 20, !.outMax = 20, !.maxQos = 2,
                        !.ready = TRUE]

Uint16Max == Width16 - 1
PubTopicIsValid(s) == Len(s) < LengthWidth /\ {35, 43} \cap ToSet(s) = {}

-----------------------------------------------------------------------------
(***************************************************************************)
(* send__connect.                                                          *)
(***************************************************************************)
ProtocolName(version) ==
  IF version = 3 THEN <<77, 81, 73, 115, 100, 112>> ELSE <<77, 81, 84, 84>>

HasReceiveMaximum(c) == GetProperty(c.props, 1, 33, FALSE) # 0
ReceiveMaximum(c) ==
  IF HasReceiveMaximum(c) THEN c.props[GetProperty(c.props, 1, 33, FALSE)].num ELSE c.inMax

\* Those of the application and the one that is generated.
ConnectProperties(c) ==
  IF HasReceiveMaximum(c) THEN c.props
  ELSE Append(c.props, [Property(33, TRUE) EXCEPT !.num = c.inMax])

\* A mutant: the header of MQTT 3.1 is taken to be that of 3.1.1.
HeaderLengthOfNew(c) == IF c.protocol = 5 THEN 10 + GetRemainingLength(ConnectProperties(c)) ELSE 10

HeaderLength(c) ==
  CASE c.protocol = 5 -> 10 + GetRemainingLength(ConnectProperties(c))
    [] c.protocol = 4 -> 10
    [] c.protocol = 3 -> 12

FieldLength(s) == IF s = NoString THEN 0 ELSE 2 + Len(s)

ConnectLength(c) ==
  HeaderLength(c) + 2 + Len(BytesOf(c.id))
  + (IF c.will = NoWill THEN 0
     ELSE 2 + Len(c.will.topic) + 2 + Len(c.will.payload)
          + (IF c.protocol = 5 THEN GetRemainingLength(c.will.props) ELSE 0))
  + FieldLength(c.username) + FieldLength(c.password)

Bit(b, weight) == IF b THEN weight ELSE 0

ConnectFlags(c) ==
  Bit(c.clean, 2)
  + (IF c.will = NoWill THEN 0
     ELSE 4 + 8 * (c.will.qos % 4) + Bit(c.will.retain /\ c.retainAvailable = 1, 32))
  + Bit(c.username # NoString, 128) + Bit(c.password # NoString, 64)

\* packet__write_string with the length cast to uint16_t.
Field(s) == WriteBinary(Stored(s))
OptionalField(s) == IF s = NoString THEN <<>> ELSE Field(s)

ConnectBytes(c) ==
  Field(ProtocolName(c.protocol)) \o <<c.protocol, ConnectFlags(c)>>
  \o WriteUint(c.keepalive, 2)
  \o (IF c.protocol = 5 THEN WriteAll(ConnectProperties(c)) ELSE <<>>)
  \o Field(BytesOf(c.id))
  \o (IF c.will = NoWill THEN <<>>
      ELSE (IF c.protocol = 5 THEN WriteAll(c.will.props) ELSE <<>>)
           \o Field(c.will.topic) \o Field(c.will.payload))
  \o OptionalField(c.username) \o OptionalField(c.password)

-----------------------------------------------------------------------------
(***************************************************************************)
(* The calls.                                                              *)
(***************************************************************************)
Return(by, rc, result, sent) ==
  /\ called' = [by |-> by, rc |-> rc, sent |-> sent, n |-> called.n + 1]
  /\ client' = result

SetupInit ==
  /\ client \in {Fresh(id, TRUE) : id \in {i \in Ids : i # <<>> /\ IsUtf8(BytesOf(i))}}
  /\ called = [by |-> "new", rc |-> "success", sent |-> <<>>, n |-> 0]

\* A refused id is noticed when the old settings are gone.
Reinitialise(id, clean) ==
  LET rc == CASE id = NoString           -> IF clean THEN "success" ELSE "inval"
              [] id = <<>>               -> "inval"
              [] ~IsUtf8(BytesOf(id))    -> "malformed_utf8"
              [] OTHER                   -> "success"
  IN Return("reinitialise", rc,
            CASE rc = "success"            -> Fresh(id, clean)
              [] id = NoString             -> client
              [] OTHER                     -> Zeroed(clean), <<>>)

UsernamePwSet(username, password) ==
  LET missing == client.protocol # 5 /\ password # NoString /\ username = NoString
      rc == CASE missing                            -> "inval"
              [] Len(username) >= LengthWidth       -> "inval"
              [] ~IsUtf8(BytesOf(username))         -> "malformed_utf8"
              [] OTHER                              -> "success"
      cleared == [client EXCEPT !.username = NoString, !.password = NoString]
  IN Return("username_pw_set", rc,
            CASE rc = "success" -> [client EXCEPT !.username = username,
                                                  !.password = password]
              [] missing        -> client
              [] OTHER          -> cleared, <<>>)

\* mosquitto_will_set_v5 and will__set, for a QoS from 0 to 2.
WillSet(topic, payload, qos, retain, props) ==
  LET rc == CASE props # <<>> /\ CheckAll("WILL", props) # "success" -> CheckAll("WILL", props)
              [] ~PubTopicIsValid(topic)            -> "inval"
              [] ~IsUtf8(topic)                     -> "malformed_utf8"
              [] props # <<>> /\ client.protocol # 5 -> "not_supported"
              [] OTHER                              -> "success"
  IN Return("will_set", rc,
            IF rc = "success"
            THEN [client EXCEPT !.will = [topic |-> topic, payload |-> payload, qos |-> qos,
                                          retain |-> retain, props |-> props]]
            ELSE client, <<>>)

WillClear == Return("will_clear", "success", [client EXCEPT !.will = NoWill], <<>>)

IsUint16(n) == n \in 0..Uint16Max
Maximum(n) == IF n = 0 THEN Uint16Max ELSE n

\* mosquitto_int_option and mosquitto_opts_set.
IntOption(option, value) ==
  \/ option = "protocol_version" /\ value \in {3, 4, 5}
     /\ Return("int_option", "success", [client EXCEPT !.protocol = value], <<>>)
  \/ option = "receive_maximum" /\ IsUint16(value)
     /\ Return("int_option", "success", [client EXCEPT !.inMax = Maximum(value)], <<>>)
  \/ option = "send_maximum" /\ IsUint16(value)
     /\ Return("int_option", "success", [client EXCEPT !.outMax = Maximum(value)], <<>>)
  \/ option = "tcp_nodelay"
     /\ Return("int_option", "success", [client EXCEPT !.noDelay = value # 0], <<>>)
  \/ /\ option = "protocol_version" => value \notin {3, 4, 5}
     /\ option \in {"receive_maximum", "send_maximum"} => ~IsUint16(value)
     /\ option # "tcp_nodelay"
     /\ Return("int_option", "inval", client, <<>>)

\* What becomes of bind_address, and whether there was one to set: without one the old
\* one is freed and bind_address still points to it.  Freed once more, later, it ends
\* the program or goes unnoticed; here the program goes on.
Bound(bind, isGiven) ==
  CASE isGiven                     -> "set"
    [] ~isGiven /\ bind = "none"   -> "none"
    [] ~isGiven /\ bind # "none"   -> "dangling"

\* mosquitto_string_option for the bind address.
BindAddress(isGiven) ==
  Return("string_option", "success", [client EXCEPT !.bind = Bound(@, isGiven)], <<>>)

\* mosquitto__reconnect and send__connect, once the connection is made.
Reconnected(by, c) ==
  LET rc == CASE ~c.host                              -> "inval"
              [] c.props # <<>> /\ c.protocol # 5       -> "not_supported"
              [] CheckAll("CONNECT", c.props) # "success" -> CheckAll("CONNECT", c.props)
              [] c.protocol = 3 /\ c.id = NoString    -> "protocol"
              [] c.protocol # 5 /\ c.password # NoString /\ c.username = NoString -> "inval"
              [] OTHER                                -> "success"
      sending == IF c.protocol = 5 THEN [c EXCEPT !.inMax = ReceiveMaximum(c)] ELSE c
  IN IF rc = "success" THEN Return(by, rc, sending, ConnectBytes(sending))
     ELSE Return(by, rc, c, <<>>)

Reconnect == Reconnected("reconnect", client)

\* What mosquitto__connect_init sets.
ConnectInit(c, keepalive) ==
  [c EXCEPT !.id = IF @ = NoString /\ c.protocol = 3 THEN RandomId ELSE @,
            !.host = TRUE, !.keepalive = keepalive, !.retainAvailable = 1]

\* mosquitto_connect_bind_v5: the old properties go before anything is checked.
Connect(host, port, keepalive, bind, props) ==
  LET freed == [client EXCEPT !.bind = IF bind THEN Bound(@, TRUE) ELSE @, !.props = <<>>]
      copied == [freed EXCEPT !.props =
                   [i \in 1..Len(props) |-> [CopyProperty(props[i]) EXCEPT !.client = (i = 1)]]]
  IN \/ /\ CheckAll("CONNECT", props) # "success"
        /\ Return("connect", CheckAll("CONNECT", props), freed, <<>>)
     \/ /\ CheckAll("CONNECT", props) = "success"
        /\ ~host \/ ~IsUint16(port) \/ ~IsUint16(keepalive) \/ keepalive \in 1..4
        /\ Return("connect", "inval", copied, <<>>)
     \/ /\ CheckAll("CONNECT", props) = "success"
        /\ host /\ IsUint16(port) /\ IsUint16(keepalive) /\ keepalive \notin 1..4
        /\ Reconnected("connect", ConnectInit(copied, keepalive))

\* What handle__connack takes over from the properties of a CONNACK.
Taken(l, id, current) ==
  IF GetProperty(l, 1, id, FALSE) = 0 THEN current ELSE l[GetProperty(l, 1, id, FALSE)].num

Connack(props) ==
  LET i == GetProperty(props, 1, 18, FALSE)
      assigned == IF i = 0 THEN NoString ELSE props[i].str
      rc == IF assigned # NoString /\ client.id # NoString THEN "protocol" ELSE "success"
  IN /\ called.sent # <<>>
     /\ client.protocol # 5 => props = <<>>
     /\ Return("connack", rc,
               IF rc # "success" THEN client
               ELSE [client EXCEPT !.id = IF assigned = NoString THEN @ ELSE assigned,
                                   !.retainAvailable = Taken(props, 37, @),
                                   !.maxQos = Taken(props, 36, @),
                                   !.outMax = Taken(props, 33, @),
                                   !.keepalive = Taken(props, 19, @),
                                   !.maxPacket = Taken(props, 39, @)], <<>>)

Options == {"protocol_version", "receive_maximum", "send_maximum", "tcp_nodelay", "other"}

SetupNext ==
  /\ called.n < MaxCalls
  /\ \/ \E id \in Ids, clean \in BOOLEAN : Reinitialise(id, clean)
     \/ \E u \in Usernames, p \in Passwords : UsernamePwSet(u, p)
     \/ \E t \in WillTopics, p \in WillPayloads, qos \in {0, 2}, retain \in BOOLEAN, l \in WillLists :
          WillSet(t, p, qos, retain, l)
     \/ WillClear
     \/ \E option \in Options, value \in OptionValues : IntOption(option, value)
     \/ \E isGiven \in BOOLEAN : BindAddress(isGiven)
     \/ \E host, bind \in BOOLEAN, port \in Ports, keepalive \in Keepalives, l \in ConnectLists :
          Connect(host, port, keepalive, bind, l)
     \/ Reconnect
     \/ \E l \in ConnackLists : Connack(l)

-----------------------------------------------------------------------------
(***************************************************************************)
(* A broker that reads the CONNECT by its flags, field by field.           *)
(***************************************************************************)
Flag(flags, weight) == (flags \div weight) % 2 = 1

ConnectFields ==
  <<"name", "version", "flags", "keepalive", "props", "id", "willProps", "topic", "payload",
    "username", "password">>

ReadIf(flag, p) == IF flag THEN ReadBinary(p) ELSE Got(p, 0, NoString)
Viewed(r) == [rc |-> r.rc, p |-> r.p, value |-> View(r.list)]
ListIf(flag, command, p) == IF flag THEN Viewed(ReadAll(command, p)) ELSE Got(p, 0, <<>>)

\* The field at p, behind the fields f.
FieldAt(field, p, f) ==
  CASE field \in {"name", "id"}       -> ReadBinary(p)
    [] field \in {"version", "flags"} -> ReadUint(p, 1)
    [] field = "keepalive"            -> ReadUint(p, 2)
    [] field = "props"                -> ListIf(f.version = 5, "CONNECT", p)
    [] field = "willProps"            -> ListIf(f.version = 5 /\ Flag(f.flags, 4), "WILL", p)
    [] field \in {"topic", "payload"} -> ReadIf(Flag(f.flags, 4), p)
    [] field = "username"             -> ReadIf(Flag(f.flags, 128), p)
    [] field = "password"             -> ReadIf(Flag(f.flags, 64), p)

Behind(r, field, read) ==
  [p |-> read.p, codes |-> r.codes \cup {read.rc}, fields |-> (field :> read.value) @@ r.fields]
ReadField(r, field) == Behind(r, field, FieldAt(field, r.p, r.fields))

ReadConnect(bytes) ==
  FoldLeft(ReadField, [p |-> PacketOf(bytes), codes |-> {}, fields |-> <<>>], ConnectFields)

\* The fields whose length is limited by nothing but the two bytes for it.
FieldsFit(c) ==
  /\ Len(c.id) < LengthWidth /\ Len(c.password) < LengthWidth
  /\ c.will # NoWill => Len(c.will.payload) < LengthWidth

\* The fields that a broker should have read from the client's CONNECT.
Says(f) ==
  /\ f.version = client.protocol /\ f.name = ProtocolName(client.protocol)
  /\ Flag(f.flags, 2) = client.clean /\ f.keepalive = client.keepalive
  /\ f.id = BytesOf(client.id)
  /\ f.username = client.username /\ f.password = client.password
  /\ client.protocol # 5 /\ f.password # NoString => f.username # NoString
  /\ client.protocol = 5 =>
       /\ \E i \in 1..Len(f.props) : f.props[i].id = 33 /\ f.props[i].num = client.inMax
       /\ f.props = View(ConnectProperties(client))
  /\ Flag(f.flags, 4) = (client.will # NoWill)

SaysWill(f, will) ==
  /\ f.topic = will.topic /\ f.payload = will.payload
  /\ (f.flags \div 8) % 4 = will.qos
  /\ Flag(f.flags, 32) = (will.retain /\ client.retainAvailable = 1)
  /\ f.willProps = IF client.protocol = 5 THEN View(will.props) ELSE <<>>

ReadBack(r) ==
  /\ r.codes = {"success"} /\ Remaining(r.p) = 0
  /\ Says(r.fields)
  /\ client.will # NoWill => SaysWill(r.fields, client.will)

\* However the settings came about, over calls that were refused, changes of
\* the protocol version and the CONNACK of an earlier connection, the CONNECT
\* of a client that mosquitto_reinitialise accepted is as long as its
\* remaining length says, and the broker that follows its flags reads the
\* settings that a CONNECT holds as they now are and nothing else; the receive maximum it is told is the one the
\* client counts with, and a password comes with a username before MQTT 5.
ConnectReadsBack ==
  called.sent # <<>> /\ client.ready /\ FieldsFit(client) =>
    /\ Len(called.sent) = ConnectLength(client)
    /\ ReadBack(ReadConnect(called.sent))
=============================================================================
