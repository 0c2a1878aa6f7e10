----------------------------- MODULE MessageList -----------------------------
(***************************************************************************)
(* Lookup and removal by message id in the two lists of messages of a      *)
(* client, msgs_in and msgs_out: message__remove acts on the FIRST message *)
(* with the id, and refuses it when its QoS is not the expected one.       *)
(***************************************************************************)
EXTENDS Integers, Sequences

At(q, mid) == {i \in DOMAIN q : q[i].mid = mid}

IsFirstAt(q, mid, i) == i \in At(q, mid) /\ \A j \in At(q, mid) : i <= j

Known(q, mid) == At(q, mid) # {}

FirstAt(q, mid) == CHOOSE i \in DOMAIN q : IsFirstAt(q, mid, i)

QosMatches(q, mid, qos) == Known(q, mid) => q[FirstAt(q, mid)].qos = qos

RemoveFrom(q, i) ==
  [j \in 1..(Len(q) - 1) |-> IF j < i THEN q[j] ELSE q[j + 1]]

MessageRemove(q, mid) ==
  IF Known(q, mid) THEN RemoveFrom(q, FirstAt(q, mid)) ELSE q

==============================================================================
