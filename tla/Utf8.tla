-------------------------------- MODULE Utf8 --------------------------------
(***************************************************************************)
(* mosquitto_validate_utf8 (utf8_mosq.c) on strings of bytes that end in a *)
(* NUL, as all its callers give it.                                        *)
(***************************************************************************)
EXTENDS Naturals, Sequences

\* Bytes behind the first that a character has; 0 where no character starts.
CodeLen(b) ==
  CASE b \in 1..127   -> 1
    [] b \in 194..223 -> 2
    [] b \in 224..239 -> 3
    [] b \in 240..244 -> 4
    [] OTHER          -> 0

LeadBits(b) ==
  CASE b < 128 -> b [] b < 224 -> b % 32 [] b < 240 -> b % 16 [] OTHER -> b % 8

\* A byte; the one behind the last is the NUL.
ByteOf(str, i) == IF i <= Len(str) THEN str[i] ELSE 0
IsContinuation(b) == b \in 128..191

\* The test for missing bytes finds a single one; it is the NUL that stops
\* the reading of a character that lacks more.
NotEnough(str, i, codelen) == i = Len(str) - codelen + 2
Continued(str, i, codelen) ==
  \A j \in 1..(codelen - 1) : IsContinuation(ByteOf(str, i + j))

CodePoint(str, i, codelen) ==
  LET value[j \in 0..(codelen - 1)] ==
        IF j = 0 THEN LeadBits(str[i])
        ELSE 64 * value[j - 1] + (ByteOf(str, i + j) % 64)
  IN value[codelen - 1]

Surrogate(cp) == cp \in 55296..57343
OverlongOrOut(cp, codelen) ==
  \/ codelen = 3 /\ cp < 2048
  \/ codelen = 4 /\ (cp < 65536 \/ cp > 1114111)
NonCharacter(cp) == cp \in 64976..65007 \/ cp % 65536 \in {65534, 65535}
Control(cp) == cp <= 31 \/ cp \in 127..159

\* A mutant: the numbers above the last code point are not looked for.
RefuseNotOut(cp, codelen) ==
  \/ Surrogate(cp) \/ NonCharacter(cp) \/ Control(cp)
  \/ codelen = 3 /\ cp < 2048
  \/ codelen = 4 /\ cp < 65536

Refuse(cp, codelen) ==
  Surrogate(cp) \/ OverlongOrOut(cp, codelen) \/ NonCharacter(cp) \/ Control(cp)

ValidateUtf8(str) ==
  LET valid[i \in 1..(Len(str) + 5)] ==
        IF i > Len(str) THEN TRUE
        ELSE LET n == CodeLen(str[i]) IN
             /\ n # 0
             /\ ~NotEnough(str, i, n)
             /\ Continued(str, i, n)
             /\ ~Refuse(CodePoint(str, i, n), n)
             /\ valid[i + n]
  IN valid[1]
=============================================================================
