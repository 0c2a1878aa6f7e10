--------------------------- MODULE MCPacketReader ---------------------------
(***************************************************************************)
(* Instance for TLC: digits have one bit, so that lengths of one to five   *)
(* digits, minimal and overlong, need only a few bytes of payload.         *)
(***************************************************************************)
EXTENDS PacketReader

MCDigits == {<<0>>, <<1>>, <<3, 1>>, <<2, 0>>, <<2, 2, 3, 0>>, <<2, 2, 2, 2, 0>>}

\* Commands 1 and 2, and bytes that tell the packets apart.
MCPackets ==
  {[command |-> c, digits |-> d,
    payload |-> [i \in 1..Value(d) |-> (c + i) % ByteMax]] :
     c \in {1, 2}, d \in MCDigits}

MCStreams == {<<p>> : p \in MCPackets} \cup (MCPackets \X MCPackets)

ASSUME StreamsAreFramed == WellFramed
=============================================================================
