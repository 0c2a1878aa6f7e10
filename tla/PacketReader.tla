---------------------------- MODULE PacketReader ----------------------------
(***************************************************************************)
(* packet__read: packets are put together from a stream of bytes that      *)
(* arrives in pieces of any size.  What has been read so far is kept in    *)
(* in_packet, across calls that end because nothing more has arrived; a    *)
(* new connection, opened by update() or by a callback, starts afresh.     *)
(***************************************************************************)
EXTENDS Codec, Integers

CONSTANTS
  Streams,         \* what the broker may send on a connection: packets, each
                   \* a command, the digits of its length, and its bytes
  MaxConnections   \* bound: connections

Packet == [command : Byte \ {0}, digits : Seq(Byte), payload : Seq(Byte)]

ASSUME StreamsAssumption == Streams \subseteq Seq(Packet)
ASSUME ConnectionsAssumption == MaxConnections \in Nat \ {0}

VARIABLES
  in_packet,   \* the packet being read
  at,          \* where packet__read is, "idle" between calls
  received,    \* bytes that have not been read
  stream,      \* history: the packets the broker sends on this connection
  handled,     \* history: packets given to handle__packet on this connection
  rc,          \* history: the error that ended the reading, if any
  connections  \* bound: connections so far

vars == <<in_packet, at, received, stream, handled, rc, connections>>

-----------------------------------------------------------------------------
(***************************************************************************)
(* in_packet.                                                              *)
(***************************************************************************)
\* Mutant: pos keeps its value.
PacketCleanupKeepsPos(p) ==
  [command |-> 0, remaining_count |-> 0, remaining_mult |-> 1,
   remaining_length |-> 0, payload |-> p.payload, to_process |-> 0]

\* packet__cleanup
PacketCleanup(p) ==
  [command |-> 0, remaining_count |-> 0, remaining_mult |-> 1,
   remaining_length |-> 0, payload |-> <<>>, to_process |-> 0]

Empty == [command |-> 0, remaining_count |-> 0, remaining_mult |-> 1,
          remaining_length |-> 0, payload |-> <<>>, to_process |-> 0]

Wire(packets) ==
  LET bytes[i \in 0..Len(packets)] ==
        IF i = 0 THEN <<>>
        ELSE bytes[i - 1] \o <<packets[i].command>> \o packets[i].digits
                          \o packets[i].payload
  IN bytes[Len(packets)]

\* net__read of one byte.
Took(b) == received # <<>> /\ b = Head(received) /\ received' = Tail(received)

Connected == rc = "success"

-----------------------------------------------------------------------------
(***************************************************************************)
(* packet__read.                                                           *)
(***************************************************************************)
\* Mutant: a length that arrived in part is read again from the start.
WhereToGoOnLength(p) ==
  IF p.command = 0 THEN "command"
  ELSE IF p.remaining_count = 0 THEN "length" ELSE "payload"

AfterCommand(p) == IF p.remaining_count <= 0 THEN "length" ELSE "payload"

WhereToGoOn(p) == IF p.command = 0 THEN "command" ELSE AfterCommand(p)

\* mosquitto_loop_read found something to read.
Start ==
  /\ Connected /\ at = "idle" /\ received # <<>>
  /\ at' = WhereToGoOn(in_packet)
  /\ UNCHANGED <<in_packet, received, stream, handled, rc, connections>>

ReadCommand ==
  /\ at = "command"
  /\ Took(Head(received))
  /\ in_packet' = [in_packet EXCEPT !.command = Head(received)]
  /\ at' = AfterCommand(in_packet)
  /\ UNCHANGED <<stream, handled, rc, connections>>

\* A digit of the remaining length, with its weight.
WithDigit(p, b) ==
  [p EXCEPT !.remaining_count = @ - 1,
            !.remaining_length = @ + Digit(b) * p.remaining_mult,
            !.remaining_mult = @ * Base]

\* The length is complete: the payload is allocated.
Allocated(p) ==
  [p EXCEPT !.remaining_count = 0 - @, !.to_process = p.remaining_length]

TooMany(p) == p.remaining_count <= -4

ReadLength ==
  /\ at = "length"
  /\ Took(Head(received))
  /\ LET b == Head(received)
         p == WithDigit(in_packet, b)
     IN IF TooMany(in_packet)
        THEN /\ rc' = "malformed"
             /\ in_packet' = [in_packet EXCEPT !.remaining_count = @ - 1]
             /\ at' = "idle"
        ELSE /\ in_packet' = IF Ends(b) THEN Allocated(p) ELSE p
             /\ at' = IF Ends(b) THEN "payload" ELSE "length"
             /\ UNCHANGED rc
  /\ UNCHANGED <<stream, handled, connections>>

\* net__read of n bytes into the payload.
ReadPayload(n) ==
  /\ at = "payload"
  /\ n <= Len(received) /\ n <= in_packet.to_process
  /\ received' = SubSeq(received, n + 1, Len(received))
  /\ in_packet' = [in_packet EXCEPT !.payload = @ \o SubSeq(received, 1, n),
                                    !.to_process = @ - n]
  /\ UNCHANGED <<at, stream, handled, rc, connections>>

\* Nothing more has arrived yet, or a signal came: the call returns success.
ReadAgain ==
  /\ at \in {"command", "length"} \/ (at = "payload" /\ in_packet.to_process > 0)
  /\ at' = "idle"
  /\ UNCHANGED <<in_packet, received, stream, handled, rc, connections>>

\* All data for this packet is read: handle__packet, then packet__cleanup.
HandlePacket ==
  /\ at = "payload" /\ in_packet.to_process = 0
  /\ handled' = Append(handled, [command |-> in_packet.command,
                                 payload |-> in_packet.payload])
  /\ in_packet' = PacketCleanup(in_packet)
  /\ at' = "idle"
  /\ UNCHANGED <<received, stream, rc, connections>>

-----------------------------------------------------------------------------
(***************************************************************************)
(* Connections.                                                            *)
(***************************************************************************)
NewConnection ==
  /\ connections < MaxConnections
  /\ connections' = connections + 1
  /\ \E s \in Streams : stream' = s /\ received' = Wire(s)
  /\ rc' = "success"
  /\ at' = "idle"

\* Mutant: mosquitto__reconnect leaves in_packet alone.
ReconnectKeepsPacket ==
  /\ at = "idle"
  /\ NewConnection
  /\ handled' = <<>>
  /\ UNCHANGED in_packet

\* The connection is lost, or given up after an error, at any byte.
Reconnect ==
  /\ at = "idle"
  /\ NewConnection
  /\ handled' = <<>>
  /\ in_packet' = PacketCleanup(in_packet)

\* A callback of handle__packet reconnects: packet__cleanup comes once there
\* and once more when handle__packet returns.
HandlePacketReconnects ==
  /\ at = "payload" /\ in_packet.to_process = 0
  /\ NewConnection
  /\ handled' = <<>>
  /\ in_packet' = PacketCleanup(PacketCleanup(in_packet))

-----------------------------------------------------------------------------
Init ==
  /\ in_packet = Empty
  /\ at = "idle"
  /\ stream \in Streams
  /\ received = Wire(stream)
  /\ handled = <<>>
  /\ rc = "success"
  /\ connections = 1

Read ==
  \/ Start
  \/ ReadCommand
  \/ ReadLength
  \/ \E n \in 1..Len(received) : ReadPayload(n)
  \/ HandlePacket

Next == Read \/ ReadAgain \/ Reconnect \/ HandlePacketReconnects

Spec == Init /\ [][Next]_vars

\* Nothing more has arrived only for so long: what the broker sent is read.
FairSpec ==
  /\ Spec
  /\ WF_vars(Start)
  /\ SF_vars(ReadCommand)
  /\ SF_vars(ReadLength)
  /\ SF_vars(\E n \in 1..Len(received) : ReadPayload(n))
  /\ WF_vars(HandlePacket)

-----------------------------------------------------------------------------
(***************************************************************************)
(* Properties.                                                             *)
(***************************************************************************)
\* The weight of the digit that follows i digits.
Weight(i) == CASE i = 0 -> 1
               [] i = 1 -> Base
               [] i = 2 -> Base * Base
               [] i = 3 -> Base * Base * Base
               [] i = 4 -> Base * Base * Base * Base

TypeOK ==
  /\ in_packet \in [command : Byte, remaining_count : -5..4,
                    remaining_mult : {Weight(i) : i \in 0..4},
                    remaining_length : 0..(Weight(4) - 1),
                    payload : Seq(Byte), to_process : 0..(Weight(4) - 1)]
  /\ at \in {"idle", "command", "length", "payload"}
  /\ received \in Seq(Byte)
  /\ stream \in Streams
  /\ handled \in Seq([command : Byte, payload : Seq(Byte)])
  /\ rc \in {"success", "malformed"}
  /\ connections \in 1..MaxConnections

\* packet__read writes at payload[pos]: what it has read and what it is going
\* to read never exceed what was allocated for this packet, whatever the
\* pieces it arrived in and whatever packet was read before.
PayloadFits ==
  /\ in_packet.remaining_count <= 0 => in_packet.payload = <<>>
  /\ in_packet.remaining_count > 0 =>
       Len(in_packet.payload) + in_packet.to_process = in_packet.remaining_length

Sent(packet) == [command |-> packet.command, payload |-> packet.payload]

\* A broker that frames its packets: the last digit of a length, and only that,
\* has no continuation bit, and as many bytes follow as the digits say.
Framed(packet) ==
  /\ packet.digits # <<>>
  /\ \A i \in 1..Len(packet.digits) : Ends(packet.digits[i]) <=> i = Len(packet.digits)
  /\ Len(packet.payload) = Value(packet.digits)

WellFramed == \A s \in Streams : \A i \in 1..Len(s) : Framed(s[i])

\* handle__packet gets the packets that a broker that frames them sent on this
\* connection, each whole and in order: no piece of a packet of an earlier
\* connection, no byte read twice, none left out.
HandledIsSent ==
  /\ Len(handled) <= Len(stream)
  /\ \A i \in 1..Len(handled) : handled[i] = Sent(stream[i])

\* Every packet of a connection that lasts is handled, in however many reads it
\* arrives, unless packet__read refuses one before it; and it refuses only a
\* length of more than four digits.
EventuallyHandled ==
  LET tooLong == Len(handled) < Len(stream) /\ Len(stream[Len(handled) + 1].digits) > 4
  IN [](connections = MaxConnections =>
          <>(\/ handled = [i \in 1..Len(stream) |-> Sent(stream[i])]
             \/ rc = "malformed" /\ tooLong))
=============================================================================
