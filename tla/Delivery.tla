------------------------------- MODULE Delivery -------------------------------
(***************************************************************************)
(* What an application relies on when it publishes through the client,     *)
(* whatever happens to the connections underneath: a message is passed on  *)
(* by the broker only if it was submitted, is reported as sent only after  *)
(* it was passed on, and is never passed on after that report.  A QoS 0    *)
(* message is passed on at most once; a QoS 2 message too, when the        *)
(* session survives reconnections.                                         *)
(***************************************************************************)
EXTENDS Naturals, Sequences

CONSTANTS
  QosLevels,  \* the QoS levels in use
  MaxPublish  \* number of messages

VARIABLES
  submitted,  \* QoS of the messages submitted so far; the index is the id
  delivered,  \* how often the broker passed each message on
  acked,      \* the messages reported as sent (QoS > 0)
  clean       \* TRUE: the broker forgets the session at each connection

vars == <<submitted, delivered, acked, clean>>

AtMostOnce(id) == submitted[id] = 0 \/ (submitted[id] = 2 /\ ~clean)

Init ==
  /\ submitted = <<>>
  /\ delivered = [id \in 1..MaxPublish |-> 0]
  /\ acked = {}
  /\ clean \in BOOLEAN

Submit(qos) ==
  /\ Len(submitted) < MaxPublish
  /\ submitted' = Append(submitted, qos)
  /\ UNCHANGED <<delivered, acked, clean>>

PassOn(id) ==
  /\ id \notin acked
  /\ AtMostOnce(id) => delivered[id] = 0
  /\ delivered' = [delivered EXCEPT ![id] = @ + 1]
  /\ UNCHANGED <<submitted, acked, clean>>

\* on_publish runs for the message; its callback may submit one more.
Report(id) ==
  /\ submitted[id] > 0
  /\ id \notin acked
  /\ delivered[id] > 0
  /\ acked' = acked \cup {id}
  /\ UNCHANGED <<delivered, clean>>
  /\ \/ UNCHANGED submitted
     \/ /\ Len(submitted) < MaxPublish
        /\ \E qos \in QosLevels : submitted' = Append(submitted, qos)

Next ==
  \/ \E qos \in QosLevels : Submit(qos)
  \/ \E id \in DOMAIN submitted : PassOn(id) \/ Report(id)

Spec == Init /\ [][Next]_vars

==============================================================================
