-------------------------------- MODULE Codec --------------------------------
(***************************************************************************)
(* The fields of MQTT packets (packet_datatypes.c and packet__alloc).  A   *)
(* packet being read is its payload and a position; reading gives a return *)
(* code, a value and the packet with the position moved.  Writing appends  *)
(* bytes.  A byte is a number below 2 * Base: in the code Base is 128, the *)
(* weight of a digit of a variable length integer.                         *)
(***************************************************************************)
EXTENDS Naturals, Sequences

CONSTANT Base

ASSUME BaseAssumption == Base \in Nat /\ Base > 1

ByteMax == 2 * Base
Byte == 0..(ByteMax - 1)

-----------------------------------------------------------------------------
(***************************************************************************)
(* Variable length integers.                                               *)
(***************************************************************************)
\* The digits, least significant first; every digit but the last has the
\* continuation bit.
Digits[n \in Nat] ==
  IF n < Base THEN <<n>> ELSE <<(n % Base) + Base>> \o Digits[n \div Base]

\* packet__write_varint and packet__alloc refuse a fifth digit.
WriteVarint(n) ==
  IF Len(Digits[n]) > 4 THEN [rc |-> "malformed", bytes |-> SubSeq(Digits[n], 1, 5)]
  ELSE [rc |-> "success", bytes |-> Digits[n]]

\* packet__varint_bytes, with its four limits.
VarintBytes(n) ==
  CASE n < Base                      -> 1
    [] n < Base * Base               -> 2
    [] n < Base * Base * Base        -> 3
    [] n < Base * Base * Base * Base -> 4
    [] OTHER                         -> 5

Ends(b) == b < Base
Digit(b) == b % Base

\* The number that digits stand for, overlong or not.
Value(digits) ==
  LET value[i \in 1..(Len(digits) + 1)] ==
        IF i > Len(digits) THEN 0 ELSE Digit(digits[i]) + Base * value[i + 1]
  IN value[1]

-----------------------------------------------------------------------------
(***************************************************************************)
(* Reading.                                                                *)
(***************************************************************************)
PacketOf(bytes) == [payload |-> bytes, pos |-> 0]

Remaining(p) == Len(p.payload) - p.pos
ByteAt(p, i) == p.payload[p.pos + i]

Got(p, n, v) == [rc |-> "success", value |-> v, p |-> [p EXCEPT !.pos = @ + n]]
Refused(p, code) == [rc |-> code, value |-> 0, p |-> p]

\* packet__read_byte, packet__read_uint16, packet__read_uint32
ReadUint(p, bytes) ==
  IF Remaining(p) < bytes THEN Refused(p, "malformed")
  ELSE LET value[i \in 0..bytes] ==
             IF i = 0 THEN 0 ELSE ByteMax * value[i - 1] + ByteAt(p, i)
       IN Got(p, bytes, value[bytes])

\* packet__read_varint: at most four digits, the last of several not 0.
ReadVarint(p) ==
  LET ends == {i \in 1..4 : i <= Remaining(p) /\ Ends(ByteAt(p, i))}
  IN IF ends = {} THEN Refused(p, "malformed")
     ELSE LET n == CHOOSE i \in ends : \A j \in ends : i <= j
              digits == SubSeq(p.payload, p.pos + 1, p.pos + n)
          IN IF n > 1 /\ digits[n] = 0
             THEN Refused([p EXCEPT !.pos = @ + n], "malformed")
             ELSE Got(p, n, [word |-> Value(digits), bytes |-> n])

\* packet__read_binary: the length is consumed even when the data is missing.
DataBehind(length) ==
  IF length.rc # "success" THEN length
  ELSE IF Remaining(length.p) < length.value
       THEN Refused(length.p, "malformed")
       ELSE Got(length.p, length.value,
                SubSeq(length.p.payload, length.p.pos + 1, length.p.pos + length.value))
ReadBinary(p) == DataBehind(ReadUint(p, 2))

-----------------------------------------------------------------------------
(***************************************************************************)
(* Writing.                                                                *)
(***************************************************************************)
WriteUint(n, bytes) ==
  LET rest[i \in 0..bytes] == IF i = 0 THEN n ELSE rest[i - 1] \div ByteMax
  IN [i \in 1..bytes |-> rest[bytes - i] % ByteMax]

WriteBinary(data) == WriteUint(Len(data), 2) \o data

==============================================================================
