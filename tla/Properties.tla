----------------------------- MODULE Properties -----------------------------
(***************************************************************************)
(* MQTT 5 properties (property_mosq.c): the lists an application builds,   *)
(* copies, searches and hands to publish, subscribe or connect, the bytes  *)
(* they become and the lists that are read from bytes.  A property is the  *)
(* struct mqtt5__property: a number, a string or a pair of strings under   *)
(* its identifier, and who made it.                                        *)
(***************************************************************************)
EXTENDS Codec, FiniteSets, SequencesExt

CONSTANTS
  Numbers,       \* for the values of bytes and integers
  Texts,         \* strings of bytes, for the values of the others
  Tails,         \* what may follow the properties in a packet
  MaxProperties, \* bound on the properties in a list
  Followers,     \* bound on the identifiers of all but the first
  LengthWidth    \* what the length of a string is taken modulo: 65536

ASSUME IdentifiersAreOneDigit == Base > 42
ASSUME LengthsAreTwoBytes == LengthWidth \in 1..(ByteMax * ByteMax)

VARIABLES
  list,   \* the list of the application
  given   \* what the application added to it, as it gave it

listVars == <<list, given>>

-----------------------------------------------------------------------------
(***************************************************************************)
(* Identifiers by the type of their value.                                 *)
(***************************************************************************)
ByteIds == {1, 23, 25, 36, 37, 40, 41, 42}
Int16Ids == {19, 33, 34, 35}
Int32Ids == {2, 17, 24, 39}
VarintIds == {11}
TextIds == {3, 8, 18, 21, 26, 28, 31}
BinaryIds == {9, 22}
PairIds == {38}
Identifiers ==
  ByteIds \cup Int16Ids \cup Int32Ids \cup VarintIds \cup TextIds \cup BinaryIds \cup PairIds

-----------------------------------------------------------------------------
(***************************************************************************)
(* Strings: a null pointer, or bytes, of which LengthWidth or more do not   *)
(* fit the length.                                                         *)
(***************************************************************************)
Width16 == ByteMax * ByteMax
Width32 == Width16 * Width16

NoString == << -1 >>
BytesOf(s) == IF s = NoString THEN <<>> ELSE s

\* mosquitto_validate_utf8, for strings of which the last byte value is the
\* only one that is wrong.
Malformed == ByteMax - 1
IsUtf8(s) == Len(s) <= LengthWidth /\ Malformed \notin ToSet(s)

\* strlen() in a uint16_t.
Stored(s) == SubSeq(s, 1, Len(s) % LengthWidth)
StoredUnlessEmpty(s) == IF s = <<>> THEN NoString ELSE Stored(s)

Property(id, client) ==
  [id |-> id, num |-> 0, str |-> NoString, name |-> NoString, client |-> client]

-----------------------------------------------------------------------------
(***************************************************************************)
(* Writing.                                                                *)
(***************************************************************************)
GetLength(p) ==
  CASE p.id \in ByteIds    -> 2
    [] p.id \in Int16Ids   -> 3
    [] p.id \in Int32Ids   -> 5
    [] p.id \in VarintIds  -> IF VarintBytes(p.num) > 4 THEN 0 ELSE 1 + VarintBytes(p.num)
    [] p.id \in TextIds \cup BinaryIds -> 3 + Len(BytesOf(p.str))
    [] p.id \in PairIds    -> 5 + Len(BytesOf(p.str)) + Len(BytesOf(p.name))

GetLengthAll(l) == FoldLeft(LAMBDA n, p : n + GetLength(p), 0, l)
GetRemainingLength(l) == GetLengthAll(l) + VarintBytes(GetLengthAll(l))

\* A mutant: the name of a pair is not written.
WritePropertyNoName(p) ==
  Digits[p.id] \o
  CASE p.id \in ByteIds    -> WriteUint(p.num, 1)
    [] p.id \in Int16Ids   -> WriteUint(p.num, 2)
    [] p.id \in Int32Ids   -> WriteUint(p.num, 4)
    [] p.id \in VarintIds  -> WriteVarint(p.num).bytes
    [] p.id \in TextIds \cup BinaryIds -> WriteBinary(BytesOf(p.str))
    [] p.id \in PairIds    -> WriteBinary(BytesOf(p.str))

WriteProperty(p) ==
  Digits[p.id] \o
  CASE p.id \in ByteIds    -> WriteUint(p.num, 1)
    [] p.id \in Int16Ids   -> WriteUint(p.num, 2)
    [] p.id \in Int32Ids   -> WriteUint(p.num, 4)
    [] p.id \in VarintIds  -> WriteVarint(p.num).bytes
    [] p.id \in TextIds \cup BinaryIds -> WriteBinary(BytesOf(p.str))
    [] p.id \in PairIds    -> WriteBinary(BytesOf(p.name)) \o WriteBinary(BytesOf(p.str))

WriteEach(l) == FoldLeft(LAMBDA bytes, p : bytes \o WriteProperty(p), <<>>, l)
WriteAll(l) == WriteVarint(GetLengthAll(l)).bytes \o WriteEach(l)

-----------------------------------------------------------------------------
(***************************************************************************)
(* Checking.                                                               *)
(***************************************************************************)
Commands ==
  {"CONNECT", "CONNACK", "PUBLISH", "PUBACK", "PUBREC", "PUBREL", "PUBCOMP", "SUBSCRIBE",
   "SUBACK", "UNSUBSCRIBE", "UNSUBACK", "DISCONNECT", "AUTH", "WILL"}

CheckCommand(command, id) ==
  CASE id \in {1, 2, 3, 8, 9}                  -> command \in {"PUBLISH", "WILL"}
    [] id = 11                                 -> command \in {"PUBLISH", "SUBSCRIBE"}
    [] id = 17                                 -> command \in {"CONNECT", "CONNACK", "DISCONNECT"}
    [] id \in {21, 22}                         -> command \in {"CONNECT", "CONNACK", "AUTH"}
    [] id \in {18, 19, 26, 36, 37, 40, 41, 42} -> command = "CONNACK"
    [] id = 24                                 -> command = "WILL"
    [] id \in {23, 25}                         -> command = "CONNECT"
    [] id = 28                                 -> command \in {"CONNACK", "DISCONNECT"}
    [] id = 31 -> command \notin {"CONNECT", "PUBLISH", "SUBSCRIBE", "UNSUBSCRIBE"}
    [] id \in {33, 34, 39}                     -> command \in {"CONNECT", "CONNACK"}
    [] id = 35                                 -> command = "PUBLISH"
    [] id \in PairIds                            -> TRUE
    [] OTHER                                   -> FALSE

CheckValue(p) ==
  /\ p.id \in ByteIds => p.num <= 1
  /\ p.id \in {39, 33, 35} => p.num # 0

IsDuplicate(l, i) ==
  l[i].id \notin PairIds /\ \E j \in (i + 1)..Len(l) : l[j].id = l[i].id

\* The first property that is refused says why.
CheckAll(command, l) ==
  LET bad(i) == ~CheckValue(l[i]) \/ ~CheckCommand(command, l[i].id)
      refused == {i \in 1..Len(l) : bad(i) \/ IsDuplicate(l, i)}
      first == CHOOSE i \in refused : \A j \in refused : i <= j
  IN CASE refused = {}  -> "success"
       [] bad(first)    -> "protocol"
       [] OTHER         -> "duplicate_property"

-----------------------------------------------------------------------------
(***************************************************************************)
(* Reading: what is left of the declared length is an unsigned number from *)
(* which every property takes what it used, whether it was left or not.    *)
(***************************************************************************)
\* packet__read_string: a string is binary data that is valid UTF-8.
Validated(data) ==
  IF data.rc = "success" /\ data.value # <<>> /\ ~IsUtf8(data.value)
  THEN Refused(data.p, "malformed_utf8")
  ELSE data
ReadString(p) == Validated(ReadBinary(p))

\* What is empty is a null pointer.
NullIfEmpty(data) ==
  IF data.rc = "success" /\ data.value = <<>> THEN [data EXCEPT !.value = NoString] ELSE data
ReadText(p, id) == NullIfEmpty(IF id \in BinaryIds THEN ReadBinary(p) ELSE ReadString(p))

\* The property that a value makes and the bytes that the value used.
Numeric(id, r, value, used) ==
  [rc |-> r.rc, p |-> r.p, used |-> used, property |-> [Property(id, FALSE) EXCEPT !.num = value]]
Failed(id, r) == Numeric(id, r, 0, 0)

Textual(id, name, value, used) ==
  IF value.rc # "success" THEN Failed(id, value)
  ELSE [rc |-> value.rc, p |-> value.p, used |-> used + Len(BytesOf(name)) + Len(BytesOf(value.value)),
        property |-> [Property(id, FALSE) EXCEPT !.name = name, !.str = value.value]]

ValueOfInteger(id, r, used) == Numeric(id, r, r.value, used)
ValueOfVarint(id, r) ==
  IF r.rc # "success" THEN Failed(id, r) ELSE Numeric(id, r, r.value.word, r.value.bytes)
ValueOfPair(id, name) ==
  IF name.rc # "success" THEN Failed(id, name)
  ELSE Textual(id, name.value, ReadText(name.p, id), 4)

ReadValue(id, p) ==
  CASE id \in ByteIds   -> ValueOfInteger(id, ReadUint(p, 1), 1)
    [] id \in Int16Ids  -> ValueOfInteger(id, ReadUint(p, 2), 2)
    [] id \in Int32Ids  -> ValueOfInteger(id, ReadUint(p, 4), 4)
    [] id \in VarintIds -> ValueOfVarint(id, ReadVarint(p))
    [] id \in TextIds \cup BinaryIds -> Textual(id, NoString, ReadText(p, id), 2)
    [] id \in PairIds   -> ValueOfPair(id, ReadText(p, id))
    [] OTHER            -> Failed(id, Refused(p, "malformed"))

\* A mutant: reading ends when less than nothing is left.
LeftSigned(left, used) == IF left < 1 + used THEN 0 ELSE left - 1 - used

Left(left, used) == (left - 1 - used) % Width32

\* property__read, in the loop of property__read_all.
WithValue(reading, value) ==
  IF value.rc # "success" THEN [reading EXCEPT !.rc = value.rc]
  ELSE [rc |-> "success", left |-> Left(reading.left, value.used),
        p |-> value.p, list |-> Append(reading.list, value.property)]

WithProperty(reading, id) ==
  IF id.rc # "success" THEN [reading EXCEPT !.rc = id.rc]
  ELSE WithValue(reading, ReadValue(id.value.word, id.p))

ReadProperty(reading) ==
  IF reading.rc # "success" \/ reading.left = 0 THEN reading
  ELSE WithProperty(reading, ReadVarint(reading.p))

\* property__read_all on the rest of a packet; MaxProperties bounds the loop.
Checked(command, r) ==
  IF r.rc # "success" THEN [rc |-> r.rc, p |-> r.p, list |-> <<>>]
  ELSE IF CheckAll(command, r.list) # "success"
       THEN [rc |-> CheckAll(command, r.list), p |-> r.p, list |-> <<>>]
       ELSE [rc |-> "success", p |-> r.p, list |-> r.list]

PropertiesBehind(length) ==
  IF length.rc # "success" THEN length
  ELSE LET after[k \in 0..(2 * MaxProperties)] ==
             IF k = 0
             THEN [rc |-> "success", left |-> length.value.word, p |-> length.p, list |-> <<>>]
             ELSE ReadProperty(after[k - 1])
       IN after[2 * MaxProperties]

ReadAll(command, packet) == Checked(command, PropertiesBehind(ReadVarint(packet)))

-----------------------------------------------------------------------------
(***************************************************************************)
(* What the application does with a list.                                  *)
(***************************************************************************)
\* strdup() of a null pointer has no defined result.
StrdupDefined(l) ==
  \A i \in 1..Len(l) :
    /\ l[i].id \in TextIds \cup PairIds => l[i].str # NoString
    /\ l[i].id \in PairIds => l[i].name # NoString

\* mosquitto_property_copy_all: who made a property is not copied.
CopyProperty(p) ==
  [p EXCEPT !.client = FALSE,
            !.str = IF p.id \in BinaryIds THEN BytesOf(p.str) ELSE p.str]
CopyAll(l) == [i \in 1..Len(l) |-> CopyProperty(l[i])]

\* Of a list that the application did not make, publish, subscribe,
\* unsubscribe and disconnect send the first property.
Outgoing(l) ==
  IF l = <<>> \/ l[1].client THEN l ELSE << [l[1] EXCEPT !.client = TRUE] >>

\* property__get_property and the functions on it: 0 if there is none.
GetProperty(l, from, id, skipFirst) ==
  LET found == {i \in from..Len(l) : l[i].id = id}
      least(is) == CHOOSE i \in is : \A j \in is : i <= j
      rest == IF skipFirst /\ found # {} THEN found \ {least(found)} ELSE found
  IN IF rest = {} THEN 0 ELSE least(rest)

\* The loop that mosquitto.h shows for the search of all of them.
Enumerate(l, id) ==
  LET at[k \in 0..Len(l)] ==
        IF k = 0 THEN GetProperty(l, 1, id, FALSE)
        ELSE LET last == at[k - 1]
             IN IF last = 0 THEN 0 ELSE GetProperty(l, last, id, TRUE)
  IN {at[k] : k \in 0..Len(l)} \ {0}

-----------------------------------------------------------------------------
(***************************************************************************)
(* The state machine: a list is built, copied, and replaced by what comes  *)
(* back when a peer sends it.                                              *)
(***************************************************************************)
ListsInit == list = <<>> /\ given = <<>>

PropertyAdd(p, asGiven) ==
  /\ Len(given) < MaxProperties
  /\ list # <<>> => p.id \in Followers
  /\ list' = Append(list, p)
  /\ given' = Append(given, asGiven)

AddNumber(id, n) ==
  LET p == [Property(id, TRUE) EXCEPT !.num = n] IN PropertyAdd(p, p)

AddByte(id, n)   == id \in ByteIds /\ n \in Byte /\ AddNumber(id, n)
AddInt16(id, n)  == id \in Int16Ids /\ n < Width16 /\ AddNumber(id, n)
AddInt32(id, n)  == id \in Int32Ids /\ n < Width32 /\ AddNumber(id, n)
AddVarint(id, n) == id \in VarintIds /\ n < Base * Base * Base * Base /\ AddNumber(id, n)

AddBinary(id, s) ==
  /\ id \in BinaryIds /\ Len(s) < LengthWidth
  /\ PropertyAdd([Property(id, TRUE) EXCEPT !.str = StoredUnlessEmpty(s)],
                 [Property(id, TRUE) EXCEPT !.str = s])

AddString(id, s) ==
  /\ id \in TextIds /\ IsUtf8(s)
  /\ PropertyAdd([Property(id, TRUE) EXCEPT !.str = StoredUnlessEmpty(s)],
                 [Property(id, TRUE) EXCEPT !.str = s])

\* The value is checked with the length it has before it is measured: 0.
AddStringPair(id, n, s) ==
  /\ id \in PairIds /\ IsUtf8(n) /\ IsUtf8(SubSeq(s, 1, 0))
  /\ PropertyAdd([Property(id, TRUE) EXCEPT !.name = Stored(n), !.str = Stored(s)],
                 [Property(id, TRUE) EXCEPT !.name = n, !.str = s])

Copy ==
  /\ list # <<>> /\ StrdupDefined(list)
  /\ list' = CopyAll(list)
  /\ UNCHANGED given

\* A peer that got the list sends it back.
Receive(command) ==
  LET received == ReadAll(command, PacketOf(WriteAll(Outgoing(list))))
  IN /\ list # <<>> /\ CheckAll(command, Outgoing(list)) = "success"
     /\ list' = received.list
     /\ given' = given

ListsNext ==
  \/ \E id \in Identifiers, n \in Numbers :
       AddByte(id, n) \/ AddInt16(id, n) \/ AddInt32(id, n) \/ AddVarint(id, n)
  \/ \E id \in Identifiers, s \in Texts : AddBinary(id, s) \/ AddString(id, s)
  \/ \E id \in PairIds, n, s \in Texts : AddStringPair(id, n, s)
  \/ Copy
  \/ \E command \in Commands : Receive(command)

-----------------------------------------------------------------------------
(***************************************************************************)
(* Properties.                                                             *)
(***************************************************************************)
\* What a peer can tell of a list.
View(l) ==
  [i \in 1..Len(l) |-> [id |-> l[i].id, num |-> l[i].num,
                        str |-> BytesOf(l[i].str), name |-> BytesOf(l[i].name)]]

AllUtf8(l) ==
  \A i \in 1..Len(l) : l[i].id \notin BinaryIds =>
    IsUtf8(BytesOf(l[i].str)) /\ IsUtf8(BytesOf(l[i].name))

LengthsFit(l) ==
  \A i \in 1..Len(l) :
    Len(BytesOf(l[i].str)) < LengthWidth /\ Len(BytesOf(l[i].name)) < LengthWidth

\* The bytes that property__write_all writes are those for which
\* property__get_remaining_length made room when the packet was allocated.  A
\* list that the check lets pass for a command is read back as it was written,
\* and reading stops in front of what follows it, provided that its strings
\* are UTF-8 (see PairIsUtf8).  For a list the application made itself, and for
\* a single property that was copied or received, this is what it was given,
\* in its order; and the loop over mosquitto_property_read_* that mosquitto.h
\* shows finds every property with an identifier, once.
ReadIsWritten ==
  LET bytes == WriteAll(list)
      sendable == AllUtf8(given) /\ LengthsFit(given) /\ (list[1].client \/ Len(given) = 1)
  IN list # <<>> =>
       /\ Len(bytes) = GetRemainingLength(list)
       /\ AllUtf8(list) =>
            \A command \in {c \in Commands : CheckAll(c, list) = "success"}, tail \in Tails :
              LET r == ReadAll(command, PacketOf(bytes \o tail))
              IN /\ r.rc = "success" /\ View(r.list) = View(list)
                 /\ r.p.pos = Len(bytes)
       /\ sendable => View(Outgoing(list)) = View(given)
       /\ \A i \in 1..Len(list) :
            Enumerate(list, list[i].id) = {j \in 1..Len(list) : list[j].id = list[i].id}

\* When the length in front of the properties is wrong, and their bytes run
\* on into the rest of the packet, property__read_all succeeds only if it
\* read exactly as many bytes as the length says: the subtraction that wraps
\* around does not end its loop.
ReadStaysInside ==
  list # <<>> =>
    LET length == GetLengthAll(list)
        bytes == WriteEach(list)
    IN \A wrong \in {length - 1, length + 1, length + 2}, tail \in Tails :
         LET packet == PacketOf(WriteVarint(wrong).bytes \o bytes \o tail)
             r == ReadAll("PUBLISH", packet)
         IN r.rc = "success" => r.p.pos = VarintBytes(wrong) + wrong

\* mosquitto_property_add_string_pair accepts only values that are UTF-8, as
\* mosquitto.h says: false, the value is never looked at.
PairIsUtf8 ==
  \A i \in 1..Len(list) : list[i].id \in PairIds => IsUtf8(BytesOf(list[i].str))
=============================================================================
