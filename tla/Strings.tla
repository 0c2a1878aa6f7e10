------------------------------ MODULE Strings ------------------------------
(***************************************************************************)
(* The strings that callers of the library and its peer make, one          *)
(* character at a time, and what the checks, the matching and the          *)
(* tokeniser say of them: a subscription and a topic, or a string of bytes *)
(* that is put together from encoded code points and from what goes wrong  *)
(* in encodings.                                                           *)
(***************************************************************************)
EXTENDS Topics, Utf8

CONSTANTS
  Characters,   \* what subscriptions and topics are made of
  SubLength,    \* bounds on their lengths
  TopicLength,
  CodePoints,   \* what byte strings are made of
  StringLength  \* bound on the characters in one

VARIABLES
  sub, topic,
  str,          \* a string of bytes
  encoded       \* how it was made: one record for every part of it

stringVars == <<sub, topic, str, encoded>>

-----------------------------------------------------------------------------
(***************************************************************************)
(* UTF-8 as its definition has it: the shortest form, and longer ones that *)
(* are wrong.                                                              *)
(***************************************************************************)
Shortest(cp) ==
  CASE cp < 128 -> 1 [] cp < 2048 -> 2 [] cp < 65536 -> 3 [] OTHER -> 4

\* The first byte of a form of n bytes, without the bits of the number.
LeadOf(n) == CASE n = 1 -> 0 [] n = 2 -> 192 [] n = 3 -> 224 [] OTHER -> 240

Encode(cp, n) ==
  [k \in 1..n |-> IF k = 1 THEN LeadOf(n) + (cp \div (64 ^ (n - 1)))
                  ELSE 128 + ((cp \div (64 ^ (n - k))) % 64)]

\* What MQTT lets a string hold.
MayBeSent(cp) ==
  /\ cp \in 32..1114111
  /\ cp \notin 127..159 /\ cp \notin 55296..57343 /\ cp \notin 64976..65007
  /\ cp % 65536 < 65534

-----------------------------------------------------------------------------
StringsInit == sub = <<>> /\ topic = <<>> /\ str = <<>> /\ encoded = <<>>

TypeSub(c) ==
  /\ str = <<>> /\ topic = <<>> /\ Len(sub) < SubLength
  /\ sub' = Append(sub, c)
  /\ UNCHANGED <<topic, str, encoded>>

TypeTopic(c) ==
  /\ str = <<>> /\ Len(topic) < TopicLength
  /\ topic' = Append(topic, c)
  /\ UNCHANGED <<sub, str, encoded>>

\* A code point in n bytes, of which the last ones are cut off.
TypeBytes(cp, n, cut) ==
  /\ sub = <<>> /\ topic = <<>> /\ Len(encoded) < StringLength
  /\ n \in Shortest(cp)..4 /\ cut < n
  /\ str' = str \o SubSeq(Encode(cp, n), 1, n - cut)
  /\ encoded' = Append(encoded, [cp |-> cp, n |-> n, cut |-> cut])
  /\ UNCHANGED <<sub, topic>>

\* A byte that starts no character, where it does not make up for one cut off.
TypeStray ==
  /\ sub = <<>> /\ topic = <<>> /\ Len(encoded) < StringLength
  /\ encoded # <<>> => Last(encoded).cut = 0
  /\ str' = Append(str, 128)
  /\ encoded' = Append(encoded, [cp |-> 0, n |-> 1, cut |-> 0])
  /\ UNCHANGED <<sub, topic>>

StringsNext ==
  \/ \E c \in Characters : TypeSub(c) \/ TypeTopic(c)
  \/ \E cp \in CodePoints, n \in 1..4, cut \in 0..3 : TypeBytes(cp, n, cut)
  \/ TypeStray

-----------------------------------------------------------------------------
(***************************************************************************)
(* The levels of a subscription in which the wildcards stand by            *)
(* themselves, "#" only at the end.                                        *)
(***************************************************************************)
LevelsAreValid(levels) ==
  \A i \in 1..Len(levels) :
    \/ ~HasWildcard(levels[i], 1)
    \/ levels[i] = <<"+">>
    \/ levels[i] = <<"#">> /\ i = Len(levels)

(***************************************************************************)
(* Level by level, which is how MQTT defines matching: "#" stands for its  *)
(* parent and everything below, "+" for one level, and no wildcard for the *)
(* first level of a topic that starts with "$".                            *)
(***************************************************************************)
LevelsMatch(filter, levels) ==
  LET open == filter[Len(filter)] = <<"#">>
      fixed == IF open THEN Len(filter) - 1 ELSE Len(filter)
  IN /\ IF open THEN Len(levels) >= fixed ELSE Len(levels) = fixed
     /\ \A i \in 1..fixed : filter[i] \in {levels[i], <<"+">>}
     /\ At(levels[1], 1) = "$" => At(filter[1], 1) = "$"

\* mosquitto_sub_topic_check, which looks at the characters next to a wildcard,
\* accepts exactly the subscriptions of which every level is a name, a "+", or
\* at the end a "#".  mosquitto_topic_matches_sub and its twin walk both strings
\* one character at a time, with branches for each place a wildcard may be in;
\* on a valid subscription and topic they agree with the matching of whole
\* levels, and a topic that publish would refuse matches nothing, whatever the
\* subscription is.
MatchesByLevel ==
  /\ SubTopicCheck(sub) <=> LevelsAreValid(Tokenise(sub))
  /\ sub # <<>> /\ topic # <<>> /\ SubTopicCheck(sub) /\ PubTopicCheck(topic) =>
       TopicMatchesSub(sub, topic) =
         [rc |-> "success", result |-> LevelsMatch(Tokenise(sub), Tokenise(topic))]
  /\ ~PubTopicCheck(topic) => ~TopicMatchesSub(sub, topic).result

\* mosquitto_validate_utf8 accepts a string exactly if it is put together
\* from shortest forms of code points that MQTT lets pass: a form that is too
\* long or cut short is found wherever it is, also when the bytes of the next
\* character follow.
Utf8IsExact ==
  ValidateUtf8(str) <=>
    \A i \in 1..Len(encoded) :
      /\ MayBeSent(encoded[i].cp)
      /\ encoded[i].n = Shortest(encoded[i].cp) /\ encoded[i].cut = 0
=============================================================================
