------------------------------- MODULE Topics -------------------------------
(***************************************************************************)
(* Topics and subscriptions (util_topic.c, mosquitto_sub_topic_tokenise).  *)
(* A string is a sequence of characters, of which "/", "+", "#" and "$"    *)
(* have a meaning; End stands for the NUL behind the last one.  Each of    *)
(* the checks, and the matching, exists twice in the code, for strings     *)
(* that end in a NUL and for strings with a length: one operator stands    *)
(* for both.                                                               *)
(***************************************************************************)
EXTENDS Naturals, Sequences, SequencesExt

End == "end"
Wildcards == {"+", "#"}

At(str, i) == IF i \in 1..Len(str) THEN str[i] ELSE End
HasWildcard(str, from) == \E i \in from..Len(str) : str[i] \in Wildcards

-----------------------------------------------------------------------------
(***************************************************************************)
(* The checks of publish, subscribe and will.  The limit of 65535          *)
(* characters is left out.                                                 *)
(***************************************************************************)
PubTopicCheck(str) == ~HasWildcard(str, 1)

\* A wildcard that is not a whole level; the characters next to it tell.
LevelStarts(str, i) == At(str, i - 1) \in {End, "/"}
LevelEnds(str, i) == At(str, i + 1) \in {End, "/"}

SubTopicCheck(str) ==
  \A i \in 1..Len(str) :
    /\ str[i] = "+" => LevelStarts(str, i) /\ LevelEnds(str, i)
    /\ str[i] = "#" => LevelStarts(str, i) /\ At(str, i + 1) = End

-----------------------------------------------------------------------------
(***************************************************************************)
(* Matching: a return code and a result.                                   *)
(***************************************************************************)
Invalid == [rc |-> "inval", result |-> FALSE]
Match   == [rc |-> "success", result |-> TRUE]
NoMatch == [rc |-> "success", result |-> FALSE]

\* Behind the level in which position t of the topic is.
LevelEnd(topic, t) ==
  SelectInSubSeq(topic, t, Len(topic), LAMBDA c : c = "/")
NextLevel(topic, t) ==
  IF LevelEnd(topic, t) = 0 THEN Len(topic) + 1 ELSE LevelEnd(topic, t)

\* "#" at position s of the subscription, the topic read up to t.
HashHere(sub, s, topic, t) ==
  IF ~LevelStarts(sub, s) \/ s < Len(sub) \/ HasWildcard(topic, t)
  THEN Invalid ELSE Match

\* A mutant: foo/+/# does not match foo/bar.
DifferNoParent(sub, s, topic, t) ==
  IF \E i \in s..(Len(sub) - 1) : sub[i] = "#" THEN Invalid ELSE NoMatch

\* Different characters and no wildcard: foo/+/# also matches foo/bar; else
\* only the form of the rest of the subscription is looked at.
Differ(sub, s, topic, t) ==
  CASE /\ t > Len(topic)
       /\ At(sub, s - 1) = "+"
       /\ sub[s] = "/"
       /\ At(sub, s + 1) = "#"                  -> Match
    [] \E i \in s..(Len(sub) - 1) : sub[i] = "#" -> Invalid
    [] OTHER                                    -> NoMatch

\* What is left when the subscription ends before the topic does.
SubEnded(topic, t) == IF HasWildcard(topic, t) THEN Invalid ELSE NoMatch

\* foo matches foo/#.
ParentMatches(sub, s, topic, t) ==
  t = Len(topic) /\ SubSeq(sub, s + 1, Len(sub)) = <<"/", "#">>

\* The topic has ended, in front of a last level that may be empty.
LastLevelEmpty(sub, s, topic, t) ==
  t = Len(topic) + 1 /\ s = Len(sub) /\ sub[s] = "+"

TopicMatchesSub(sub, topic) ==
  LET from[s \in 1..(Len(sub) + 1), t \in 1..(Len(topic) + 1)] ==
        CASE s > Len(sub)                 -> SubEnded(topic, t)
          [] At(topic, t) \in Wildcards   -> Invalid
          [] OTHER ->
             IF At(topic, t) = sub[s] THEN
               CASE ParentMatches(sub, s, topic, t)             -> Match
                 [] s = Len(sub) /\ t = Len(topic)              -> Match
                 [] LastLevelEmpty(sub, s + 1, topic, t + 1) ->
                      IF sub[s] = "/" THEN Match ELSE Invalid
                 [] OTHER                                       -> from[s + 1, t + 1]
             ELSE IF sub[s] = "+" THEN
               LET next == NextLevel(topic, t) IN
               CASE ~LevelStarts(sub, s) \/ ~LevelEnds(sub, s)  -> Invalid
                 [] HasWildcard(SubSeq(topic, 1, next - 1), t)  -> Invalid
                 [] s = Len(sub) /\ next > Len(topic)           -> Match
                 [] OTHER                                       -> from[s + 1, next]
             ELSE IF sub[s] = "#" THEN HashHere(sub, s, topic, t)
             ELSE Differ(sub, s, topic, t)
  IN CASE sub = <<>> \/ topic = <<>>            -> Invalid
       [] (sub[1] = "$") # (topic[1] = "$")     -> NoMatch
       [] OTHER                                 -> from[1, 1]

-----------------------------------------------------------------------------
(***************************************************************************)
(* mosquitto_sub_topic_tokenise: the levels, of which an empty one is a    *)
(* null pointer.                                                           *)
(***************************************************************************)
Tokenise(str) ==
  LET levels[i \in 0..Len(str)] ==
        IF i = 0 THEN << <<>> >>
        ELSE LET before == levels[i - 1] IN
             IF str[i] = "/" THEN Append(before, <<>>)
             ELSE [before EXCEPT ![Len(before)] = Append(@, str[i])]
  IN levels[Len(str)]
=============================================================================
