----------------------------- MODULE ByteStream -----------------------------
(***************************************************************************)
(* What the queue of outgoing packets promises: the bytes of the packets   *)
(* queued on a connection come out of the socket once each and in order,   *)
(* cut wherever the socket likes.  A connection starts with an empty wire, *)
(* and what was not written on the one before is dropped, not carried over.*)
(***************************************************************************)
EXTENDS Naturals, Sequences

CONSTANT Packets   \* the packets, each a non-empty sequence of bytes

VARIABLES
  pending,  \* bytes queued and not yet written
  wire      \* bytes written on this connection

vars == <<pending, wire>>

Init == pending = <<>> /\ wire = <<>>

Accept ==
  /\ \E p \in Packets : pending' = pending \o p
  /\ UNCHANGED wire

Write ==
  \E n \in 1..Len(pending) :
    /\ wire' = wire \o SubSeq(pending, 1, n)
    /\ pending' = SubSeq(pending, n + 1, Len(pending))

\* A new connection; its first packet is queued with it.
Restart ==
  /\ \E p \in Packets : pending' = p
  /\ wire' = <<>>

Next == Accept \/ Write \/ Restart

Spec == Init /\ [][Next]_vars

==============================================================================
