----------------------------- MODULE PacketQueue -----------------------------
(***************************************************************************)
(* The queue of outgoing packets: a singly linked list (out_packet,        *)
(* out_packet_last), the packet being written (current_out_packet), and a  *)
(* socket that takes some of the bytes, none, or fails.  The application's *)
(* callbacks run in the middle of packet__write and may queue packets or   *)
(* open a new connection, which frees every packet there is.               *)
(***************************************************************************)
EXTENDS Naturals, Sequences, FiniteSets

CONSTANTS
  Size,              \* bytes of a packet
  ReconnectsIn,      \* callbacks that may call mosquitto_reconnect
  MaxPackets,        \* bound: packets queued
  MaxBusy            \* bound: writes that find the socket full or broken

Callbacks == {"on_publish", "on_disconnect"}

ASSUME SizeAssumption == Size \in Nat \ {0}
ASSUME ReconnectsAssumption == ReconnectsIn \subseteq Callbacks
ASSUME BoundsAssumption == MaxPackets \in Nat /\ MaxBusy \in Nat

NULL == 0
Ids == 1..MaxPackets

\* A packet is known by its rank: the order of the calls of packet__queue.
VARIABLES
  q,        \* out_packet, out_packet_last, out_packet_count, current_out_packet
            \* and the next pointers, as a record
  kind,     \* the command of each packet queued so far
  left,     \* to_process of each packet
  freed,    \* packets given back with mosquitto__free
  pc,       \* "idle", "write" (in packet__write), or the callback it is in
  packet,   \* the local variable of packet__write
  sock,     \* "none", "open", "broken": the next write fails
  wire,     \* history: bytes written on this connection
  told,     \* history: packets reported by on_publish
  busy      \* bound: full and broken sockets met

vars == <<q, kind, left, freed, pc, packet, sock, wire, told, busy>>

-----------------------------------------------------------------------------
(***************************************************************************)
(* The list.                                                               *)
(***************************************************************************)
\* The packets that can be reached from p along next.
Chain(next, p) ==
  LET chain[i \in 0..MaxPackets] ==
        IF i = NULL THEN <<>> ELSE <<i>> \o chain[next[i]]
  IN chain[p]

Waiting == Chain(q.next, q.out)
Owned == (IF q.current = NULL THEN <<>> ELSE <<q.current>>) \o Waiting
Members(s) == {s[i] : i \in DOMAIN s}

\* packet__queue, with p the new packet.
Enqueue(k, p) ==
  [k EXCEPT !.next = IF k.out # NULL THEN [@ EXCEPT ![k.last] = p] ELSE @,
            !.out = IF @ = NULL THEN p ELSE @,
            !.last = p, !.count = @ + 1]

\* The head of the list becomes the packet to write.  When there is none, the
\* count stays.
Advance(k) ==
  IF k.out = NULL THEN [k EXCEPT !.current = NULL]
  ELSE LET rest == k.next[k.out]
       IN [k EXCEPT !.current = k.out, !.out = rest,
                    !.last = IF rest = NULL THEN NULL ELSE @, !.count = @ - 1]

\* Mutant: the packet that was cut off in the middle is forgotten.
TakeAlways(k) == Advance(k)

\* The start of packet__write.
Take(k) == IF k.current = NULL THEN Advance(k) ELSE k

\* packet__cleanup_all_no_locks: out_packet_last is left as it is.
CleanupAll(k) == [k EXCEPT !.current = NULL, !.out = NULL, !.count = 0]

CleanupFrees == Members(Owned)

-----------------------------------------------------------------------------
(***************************************************************************)
(* packet__queue and mosquitto__reconnect.                                 *)
(***************************************************************************)
NewPacket(command) ==
  /\ Len(kind) < MaxPackets
  /\ kind' = Append(kind, command)
  /\ left' = [left EXCEPT ![Len(kind) + 1] = Size]

\* Outside of a callback packet__queue goes on to packet__write.
AfterQueue(k) ==
  IF pc = "idle" THEN pc' = "write" /\ q' = Take(k) ELSE pc' = pc /\ q' = k

\* The functions that build packets check the socket first.
PacketQueue(command) ==
  /\ pc # "write" /\ sock # "none"
  /\ NewPacket(command)
  /\ AfterQueue(Enqueue(q, Len(kind) + 1))
  /\ UNCHANGED <<freed, packet, sock, wire, told, busy>>

\* The same in a callback of packet__read, where in_callback is set too.
PacketQueueInOtherCallback(command) ==
  /\ pc = "idle" /\ sock # "none"
  /\ NewPacket(command)
  /\ q' = Enqueue(q, Len(kind) + 1)
  /\ UNCHANGED <<freed, pc, packet, sock, wire, told, busy>>

\* A new connection: everything queued is freed, CONNECT is queued.
Reconnect ==
  /\ pc \in {"idle"} \cup ReconnectsIn
  /\ NewPacket("CONNECT")
  /\ freed' = freed \cup CleanupFrees
  /\ sock' = "open"
  /\ wire' = <<>>
  /\ AfterQueue(Enqueue(CleanupAll(q), Len(kind) + 1))
  /\ UNCHANGED <<packet, told, busy>>

\* mosquitto__loop_rc_handle, or the keepalive, closes the socket; the queue is
\* left as it is.
LoopClosesSocket ==
  /\ pc = "idle" /\ sock # "none"
  /\ sock' = "none"
  /\ UNCHANGED <<q, kind, left, freed, pc, packet, wire, told, busy>>

-----------------------------------------------------------------------------
(***************************************************************************)
(* packet__write.                                                          *)
(***************************************************************************)
\* mosquitto_loop_write, when mosquitto_loop finds a packet to write.
LoopWrite ==
  /\ pc = "idle" /\ sock # "none"
  /\ q.out # NULL \/ q.current # NULL
  /\ pc' = "write"
  /\ q' = Take(q)
  /\ UNCHANGED <<kind, left, freed, packet, sock, wire, told, busy>>

Byte(p, n) == <<p, n>>

\* The bytes of p that are left when n of them are.
Bytes(p, n) == [i \in 1..n |-> Byte(p, Size - n + i)]

\* net__write takes n bytes.
NetWrite(n) ==
  /\ pc = "write" /\ sock = "open" /\ q.current # NULL
  /\ n <= left[q.current]
  /\ wire' = wire \o SubSeq(Bytes(q.current, left[q.current]), 1, n)
  /\ left' = [left EXCEPT ![q.current] = @ - n]
  /\ UNCHANGED <<q, kind, freed, pc, packet, sock, told, busy>>

\* EAGAIN and EINTR count as success, other errors are returned: in each case
\* the packet stays where it is.
NetWriteStops ==
  /\ pc = "write" /\ sock # "none" /\ q.current # NULL
  /\ left[q.current] > 0
  /\ busy < MaxBusy \/ sock = "broken"
  /\ pc' = "idle"
  /\ sock' \in {sock, "broken"}
  /\ busy' = IF sock = "broken" THEN busy ELSE busy + 1
  /\ UNCHANGED <<q, kind, left, freed, packet, wire, told>>

Written == pc = "write" /\ q.current # NULL /\ left[q.current] = 0

Free(p) == freed' = freed \cup {p}

\* A packet without a callback: the next one is taken, then it is freed.
SentOther ==
  /\ Written
  /\ kind[q.current] \notin {"PUBLISH", "DISCONNECT"}
  /\ q' = Advance(q)
  /\ Free(q.current)
  /\ UNCHANGED <<kind, left, pc, packet, sock, wire, told, busy>>

\* A PUBLISH with QoS 0: on_publish runs while current_out_packet still points
\* to the packet.
SentPublish ==
  /\ Written
  /\ kind[q.current] = "PUBLISH"
  /\ pc' = "on_publish"
  /\ packet' = q.current
  /\ told' = Append(told, q.current)
  /\ UNCHANGED <<q, kind, left, freed, sock, wire, busy>>

\* Mutant: the last packet of the queue stays the current one.
OnPublishReturnsStuck ==
  /\ pc = "on_publish"
  /\ pc' = "write"
  /\ q' = IF q.out = NULL THEN q ELSE Advance(q)
  /\ Free(packet)
  /\ UNCHANGED <<kind, left, packet, sock, wire, told, busy>>

OnPublishReturns ==
  /\ pc = "on_publish"
  /\ pc' = "write"
  /\ q' = Advance(q)
  /\ Free(packet)
  /\ UNCHANGED <<kind, left, packet, sock, wire, told, busy>>

\* Mutant: the callback comes before the next packet is taken.
SentDisconnectCallbackFirst ==
  /\ Written
  /\ kind[q.current] = "DISCONNECT"
  /\ pc' = "on_disconnect"
  /\ packet' = q.current
  /\ sock' = "none"
  /\ UNCHANGED <<q, kind, left, freed, wire, told, busy>>

\* A DISCONNECT: do_client_disconnect closes the socket and takes the next
\* packet before on_disconnect runs.
SentDisconnect ==
  /\ Written
  /\ kind[q.current] = "DISCONNECT"
  /\ pc' = "on_disconnect"
  /\ packet' = q.current
  /\ q' = Advance(q)
  /\ sock' = "none"
  /\ UNCHANGED <<kind, left, freed, wire, told, busy>>

\* packet__write returns whatever is still queued.
OnDisconnectReturns ==
  /\ pc = "on_disconnect"
  /\ pc' = "idle"
  /\ Free(packet)
  /\ UNCHANGED <<q, kind, left, packet, sock, wire, told, busy>>

WriteReturns ==
  /\ pc = "write" /\ q.current = NULL
  /\ pc' = "idle"
  /\ UNCHANGED <<q, kind, left, freed, packet, sock, wire, told, busy>>

-----------------------------------------------------------------------------
Init ==
  /\ q = [out |-> NULL, last |-> NULL, count |-> 0, current |-> NULL,
          next |-> [p \in Ids |-> NULL]]
  /\ kind = <<>>
  /\ left = [p \in Ids |-> 0]
  /\ freed = {}
  /\ pc = "idle"
  /\ packet = NULL
  /\ sock = "none"
  /\ wire = <<>>
  /\ told = <<>>
  /\ busy = 0

Commands == {"PUBLISH", "PUBREL", "DISCONNECT"}

Calls ==
  \/ \E command \in Commands :
       PacketQueue(command) \/ PacketQueueInOtherCallback(command)
  \/ Reconnect

Write ==
  \/ \E n \in 1..Size : NetWrite(n)
  \/ NetWriteStops
  \/ SentOther \/ SentPublish \/ SentDisconnect
  \/ OnPublishReturns \/ OnDisconnectReturns \/ WriteReturns

Next == Calls \/ Write \/ LoopWrite \/ LoopClosesSocket

Spec == Init /\ [][Next]_vars

-----------------------------------------------------------------------------
(***************************************************************************)
(* Properties.                                                             *)
(***************************************************************************)
TypeOK ==
  /\ q \in [out : 0..MaxPackets, last : 0..MaxPackets, count : 0..MaxPackets,
            current : 0..MaxPackets, next : [Ids -> 0..MaxPackets]]
  /\ kind \in Seq(Commands \cup {"CONNECT"}) /\ Len(kind) <= MaxPackets
  /\ left \in [Ids -> 0..Size]
  /\ freed \subseteq DOMAIN kind
  /\ pc \in {"idle", "write"} \cup Callbacks
  /\ sock \in {"none", "open", "broken"}

\* Every packet is freed once: nothing reachable has been freed, packet__write
\* still owns the packet that it frees after a callback, and what is not freed
\* can be reached, or is the one packet__write is about to free.
FreedOnce ==
  /\ Members(Owned) \cap freed = {}
  /\ pc \in Callbacks => packet \notin freed
  /\ \A p \in DOMAIN kind :
       p \in freed \cup Members(Owned) \/ (pc = "on_disconnect" /\ p = packet)

\* on_publish is called once for a QoS 0 message and only after all of its
\* bytes are out.
ToldWhenWritten ==
  /\ \A i, j \in DOMAIN told : told[i] = told[j] => i = j
  /\ \A i \in DOMAIN told : left[told[i]] = 0

\* Bytes come out in the order the packets were queued, none is lost or sent
\* twice, and no packet of an old connection reaches a new one.
PendingOf(s) ==
  LET bytes[i \in 0..Len(s)] ==
        IF i = 0 THEN <<>> ELSE bytes[i - 1] \o Bytes(s[i], left[s[i]])
  IN bytes[Len(s)]

Stream == INSTANCE ByteStream
            WITH pending <- PendingOf(Owned),
                 wire <- wire,
                 Packets <- {Bytes(p, Size) : p \in Ids}

ImplementsStream == Stream!Spec
==============================================================================
