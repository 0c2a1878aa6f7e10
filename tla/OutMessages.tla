----------------------------- MODULE OutMessages -----------------------------
(***************************************************************************)
(* The list of outgoing QoS 1 and QoS 2 messages of a libmosquitto client  *)
(* (struct mosquitto_msg_data msgs_out) and the operations that            *)
(* messages_mosq.c defines on it.  The list is a sequence, oldest message  *)
(* first; an operation is a function from the list and the send quota to   *)
(* the new list, the new quota and the packets it sends, in order.         *)
(***************************************************************************)
EXTENDS MessageList, FiniteSets

CONSTANTS
  InflightMaximum,  \* msgs_out.inflight_maximum, 20 unless an option sets it
  MaxMid            \* the largest message id: 65535 in the code

ASSUME InflightMaximumAssumption == InflightMaximum \in Nat \ {0}
ASSUME MaxMidAssumption == MaxMid \in Nat \ {0}

(***************************************************************************)
(* A message.  "id" stands for its topic and payload: it is the rank of    *)
(* the mosquitto_publish() call that created it.  mid is the 16-bit        *)
(* message id of the protocol.                                             *)
(***************************************************************************)
MsgStates == {"invalid", "publish_qos1", "publish_qos2", "wait_for_puback",
              "wait_for_pubrec", "wait_for_pubcomp", "resend_pubrel"}

Message == [id : Nat, mid : 1..MaxMid, qos : {1, 2}, state : MsgStates,
            dup : BOOLEAN]

Held(m) == m.state = "invalid"

\* The positions of the messages of q that are part way through their flow.
Inflight(q) == {i \in DOMAIN q : ~Held(q[i])}

(***************************************************************************)
(* mosquitto__mid_generate: 0 is skipped when the counter wraps.           *)
(***************************************************************************)
NextMid(mid) == IF mid = MaxMid THEN 1 ELSE mid + 1

IncrementQuota(quota) ==
  IF quota < InflightMaximum THEN quota + 1 ELSE quota

-----------------------------------------------------------------------------
(***************************************************************************)
(* Packets the list produces.                                              *)
(***************************************************************************)
PublishPacket(m) ==
  [type |-> "PUBLISH", id |-> m.id, mid |-> m.mid, qos |-> m.qos, dup |-> m.dup]

MidPacket(t, mid) == [type |-> t, mid |-> mid]

\* The packets that carry a message of the list.
Publishes(s) == {i \in DOMAIN s : s[i].type = "PUBLISH" /\ s[i].qos > 0}

\* The members of s at the positions I, in their order.
Nth(I, n) == CHOOSE i \in I : Cardinality({j \in I : j <= i}) = n

Sublist(s, I) == [n \in 1..Cardinality(I) |-> s[Nth(I, n)]]

-----------------------------------------------------------------------------
(***************************************************************************)
(* message__release_to_inflight.  The loop walks the list and sends each   *)
(* held message while the quota is positive, moving it to its waiting      *)
(* state BEFORE the send.  When a send fails the loop returns at once: that *)
(* message keeps its waiting state and the quota is not decremented.       *)
(***************************************************************************)
FirstHeld(q, n) ==
  {i \in DOMAIN q : Held(q[i]) /\ Cardinality({j \in 1..i : Held(q[j])}) <= n}

Waiting(m) ==
  [m EXCEPT !.state = IF m.qos = 1 THEN "wait_for_puback" ELSE "wait_for_pubrec"]

MoveToInflight(q, R) == [i \in DOMAIN q |-> IF i \in R THEN Waiting(q[i]) ELSE q[i]]

ReleasedSet(q, quota, sendsOk) ==
  IF sendsOk THEN FirstHeld(q, quota)
  ELSE IF quota > 0 THEN FirstHeld(q, 1) ELSE {}

ReleaseToInflight(q, quota, sendsOk) ==
  LET R == ReleasedSet(q, quota, sendsOk)
  IN [inflight |-> MoveToInflight(q, R),
      quota    |-> IF sendsOk THEN quota - Cardinality(R) ELSE quota,
      sent     |-> IF sendsOk
                   THEN Sublist([i \in DOMAIN q |-> PublishPacket(q[i])], R)
                   ELSE <<>>]

(***************************************************************************)
(* message__queue in the outgoing direction, with the message              *)
(* mosquitto_publish_v5 builds for it.                                     *)
(***************************************************************************)
NewMessage(id, mid, qos) ==
  [id |-> id, mid |-> mid, qos |-> qos, state |-> "invalid", dup |-> FALSE]

\* Mutant: DL_PREPEND for DL_APPEND.
MessageQueuePrepend(q, quota, m, sendsOk) ==
  ReleaseToInflight(<<m>> \o q, quota, sendsOk)

MessageQueue(q, quota, m, sendsOk) ==
  ReleaseToInflight(Append(q, m), quota, sendsOk)

-----------------------------------------------------------------------------
(***************************************************************************)
(* message__reconnect_reset: the quota is counted again from the maximum,  *)
(* one unit for each of the first InflightMaximum messages whatever their  *)
(* state, and every message beyond them is held back again.                *)
(***************************************************************************)
\* Mutant: a QoS 2 message starts its flow again, acknowledged or not.
ResendStateFromStart(m) == IF m.qos = 1 THEN "publish_qos1" ELSE "publish_qos2"

ResendState(m) ==
  CASE m.qos = 1                                        -> "publish_qos1"
    [] m.qos = 2 /\ m.state = "wait_for_pubrec"         -> "publish_qos2"
    [] m.qos = 2 /\ m.state = "wait_for_pubcomp"        -> "resend_pubrel"
    [] OTHER                                            -> m.state

\* Mutant: states are kept as they are within the window.
ReconnectResetKeep(q, updateQuotaOnly) ==
  [i \in DOMAIN q |-> IF i > InflightMaximum THEN [q[i] EXCEPT !.state = "invalid"]
                      ELSE q[i]]

ReconnectReset(q, updateQuotaOnly) ==
  [i \in DOMAIN q |->
     IF i > InflightMaximum THEN [q[i] EXCEPT !.state = "invalid"]
     ELSE IF updateQuotaOnly THEN q[i]
     ELSE [q[i] EXCEPT !.state = ResendState(q[i])]]

\* Mutant: the messages in the window are not counted.
QuotaAfterResetFull(q) == InflightMaximum

QuotaAfterReset(q) ==
  IF Len(q) < InflightMaximum THEN InflightMaximum - Len(q) ELSE 0

(***************************************************************************)
(* message__retry_check: what the client sends again once the broker has   *)
(* accepted the connection.  States do not change, every message sent      *)
(* again gets its DUP flag.                                                *)
(***************************************************************************)
\* Mutant: messages already sent on this connection are sent again, too.
MustPublishAgainAll(m) ==
  m.state \in {"publish_qos1", "publish_qos2", "wait_for_puback", "wait_for_pubrec"}

MustPublishAgain(m) == m.state \in {"publish_qos1", "publish_qos2"}
MustRelAgain(m) == m.state \in {"resend_pubrel", "wait_for_pubcomp"}

RetryMark(q) ==
  [i \in DOMAIN q |-> IF MustPublishAgain(q[i]) \/ MustRelAgain(q[i])
                      THEN [q[i] EXCEPT !.dup = TRUE] ELSE q[i]]

RetryPackets(q) ==
  Sublist([i \in DOMAIN q |->
             IF MustPublishAgain(q[i]) THEN PublishPacket([q[i] EXCEPT !.dup = TRUE])
             ELSE MidPacket("PUBREL", q[i].mid)],
          {i \in DOMAIN q : MustPublishAgain(q[i]) \/ MustRelAgain(q[i])})

-----------------------------------------------------------------------------
(***************************************************************************)
(* message__out_update, on the first message with the id.                  *)
(***************************************************************************)
\* Mutant: the message is forgotten when its PUBREC arrives.
OutUpdateDelete(q, mid, state) == MessageRemove(q, mid)

OutUpdate(q, mid, state) ==
  IF Known(q, mid) THEN [q EXCEPT ![FirstAt(q, mid)].state = state] ELSE q

==============================================================================
