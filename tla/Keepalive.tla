------------------------------ MODULE Keepalive ------------------------------
(***************************************************************************)
(* mosquitto__check_keepalive and the times it compares, in whole seconds  *)
(* as mosquitto_time gives them.  Times are kept relative to now, so that  *)
(* the clock may run for ever: next_msg_out is how far away the next       *)
(* message is, last_msg_in how long ago the last one arrived.              *)
(*                                                                         *)
(* mosquitto_loop sleeps in select for at most its timeout; the            *)
(* application lets some time pass between two calls.  The network works   *)
(* or swallows everything without a sign.                                  *)
(***************************************************************************)
EXTENDS Integers, Sequences

CONSTANTS
  KeepaliveSeconds,  \* mosq->keepalive
  Timeouts,          \* the timeouts the application gives to mosquitto_loop
  MaxGap,            \* the longest the application stays away from the loop,
                     \* counting a second for a call that a signal cuts short
  MaxDelay,          \* the longest an answer of the broker takes
  MaxBacklog         \* the most packets that wait to be read

\* mosquitto__connect_init accepts no interval from 1 to 4.
ASSUME KeepaliveAssumption == KeepaliveSeconds \in Nat /\ KeepaliveSeconds >= 5
ASSUME TimesAssumption ==
  /\ Timeouts \subseteq Nat /\ \E t \in Timeouts : \A u \in Timeouts : u <= t
  /\ MaxGap \in Nat /\ MaxDelay \in Nat /\ MaxBacklog \in Nat

VARIABLES
  state,         \* "connected", "active", "disconnected", or "closed": no socket
  next_msg_out,  \* seconds until next_msg_out
  last_msg_in,   \* seconds since last_msg_in
  ping_t,        \* ping_t # 0: a PINGREQ waits for its PINGRESP
  pc,            \* where the thread is: "app" or "select"
  left,          \* seconds that select still sleeps
  gap,           \* seconds away from the loop, and calls cut short, since
                 \* mosquitto_loop looked at the keepalive
  link,          \* "up" or "silent"
  toClient,      \* packets that wait to be read
  owed,          \* the answer that the broker is about to give, or "none"
  owedFor,       \* seconds since it was asked for
  heard,         \* history: seconds since the broker got a packet
  silentFor      \* history: seconds since the network went silent

clientVars == <<state, next_msg_out, last_msg_in, ping_t>>
threadVars == <<pc, left, gap>>
networkVars == <<link, toClient, owed, owedFor, heard, silentFor>>
vars == <<state, next_msg_out, last_msg_in, ping_t, pc, left, gap, link, toClient,
          owed, owedFor, heard, silentFor>>

Lower(a, b) == IF a < b THEN a ELSE b
Higher(a, b) == IF a > b THEN a ELSE b

Open == state # "closed"

-----------------------------------------------------------------------------
(***************************************************************************)
(* The broker and the network.                                             *)
(***************************************************************************)
\* A packet reaches the broker at once, which then owes an answer to some.
Reaches(answer) ==
  IF link = "up"
  THEN /\ heard' = 0
       /\ owed' = IF answer = "none" THEN owed ELSE answer
       /\ owedFor' = IF answer = "none" THEN owedFor ELSE 0
  ELSE UNCHANGED <<heard, owed, owedFor>>

Answer ==
  /\ link = "up" /\ owed # "none" /\ Len(toClient) < MaxBacklog
  /\ toClient' = Append(toClient, owed)
  /\ owed' = "none" /\ owedFor' = 0
  /\ UNCHANGED <<clientVars, threadVars, link, heard, silentFor>>

\* A message, a piece of a large message with more than 1000 bytes to come, or
\* a piece near its end.
Send(packet) ==
  /\ link = "up" /\ owed # "CONNACK" /\ Open /\ Len(toClient) < MaxBacklog
  /\ toClient' = Append(toClient, packet)
  /\ UNCHANGED <<clientVars, threadVars, link, owed, owedFor, heard, silentFor>>

Silence ==
  /\ link = "up" /\ Open
  /\ link' = "silent"
  /\ silentFor' = 0
  /\ owed' = "none" /\ owedFor' = 0
  /\ UNCHANGED <<clientVars, threadVars, toClient, heard>>

\* A second passes, for the thread where it is.
Tick ==
  /\ Open
  /\ \/ pc = "app" /\ gap < MaxGap /\ gap' = gap + 1 /\ UNCHANGED left
     \/ pc = "select" /\ left > 0 /\ toClient = <<>> /\ left' = left - 1 /\ UNCHANGED gap
  /\ owed # "none" => owedFor < MaxDelay
  /\ owedFor' = IF owed = "none" THEN 0 ELSE owedFor + 1
  /\ next_msg_out' = next_msg_out - 1
  /\ last_msg_in' = last_msg_in + 1
  /\ heard' = IF link = "up" THEN heard + 1 ELSE heard
  /\ silentFor' = IF link = "up" THEN 0 ELSE silentFor + 1
  /\ UNCHANGED <<state, ping_t, pc, link, toClient, owed>>

-----------------------------------------------------------------------------
(***************************************************************************)
(* mosquitto_loop.                                                         *)
(***************************************************************************)
\* The sleep ends when the next message is due.
Sleep(timeout) ==
  IF timeout > next_msg_out THEN Higher(next_msg_out, 0) ELSE timeout

Select(timeout) ==
  /\ pc = "app" /\ Open
  /\ pc' = "select"
  /\ left' = Sleep(timeout)
  /\ UNCHANGED <<gap, clientVars, networkVars>>

\* EINTR: mosquitto_loop returns without having done anything, in particular
\* without a look at the keepalive: signals all the time would starve it, so
\* MaxGap bounds them too.
Interrupted ==
  /\ pc = "select" /\ left > 0
  /\ gap < MaxGap /\ gap' = gap + 1
  /\ pc' = "app" /\ left' = 0
  /\ UNCHANGED <<clientVars, networkVars>>

\* What reading one packet leaves of the client.
AfterRead ==
  LET fresh == [state |-> state, last_msg_in |-> 0, ping_t |-> ping_t]
  IN IF toClient = <<>> THEN [fresh EXCEPT !.last_msg_in = last_msg_in]
     ELSE CASE Head(toClient) = "CONNACK"  -> [fresh EXCEPT !.state = "active"]
            [] Head(toClient) = "PINGRESP" -> [fresh EXCEPT !.ping_t = FALSE]
            [] Head(toClient) \in {"message", "piece"} -> fresh
            [] Head(toClient) = "end_piece" -> [fresh EXCEPT !.last_msg_in = last_msg_in]

\* Mutants: only what is sent counts; only what is received counts.
DueIgnoresSilence(c) == next_msg_out <= 0

DueIgnoresSending(c) == c.last_msg_in >= KeepaliveSeconds

Due(c) == next_msg_out <= 0 \/ c.last_msg_in >= KeepaliveSeconds

\* Mutant: the times are left alone after a PINGREQ.
PingKeepsTimes(c) ==
  /\ ping_t' = TRUE
  /\ last_msg_in' = c.last_msg_in /\ UNCHANGED next_msg_out
  /\ state' = c.state

\* send__pingreq, and both times start again.
Ping(c) ==
  /\ ping_t' = TRUE
  /\ last_msg_in' = 0 /\ next_msg_out' = KeepaliveSeconds
  /\ state' = c.state

Refused ==
  state = "disconnected" /\ toClient # <<>> /\ Head(toClient) \in {"message", "PINGRESP"}

\* mosquitto_loop once select has returned: a packet is read, and
\* mosquitto__check_keepalive asks for a sign of life or gives up.
Loop ==
  /\ pc = "select" /\ (left = 0 \/ toClient # <<>>) /\ ~Refused
  /\ pc' = "app" /\ left' = 0 /\ gap' = 0
  /\ toClient' = IF toClient = <<>> THEN <<>> ELSE Tail(toClient)
  /\ LET c == AfterRead IN
       IF ~Due(c)
       THEN /\ state' = c.state /\ last_msg_in' = c.last_msg_in /\ ping_t' = c.ping_t
            /\ UNCHANGED <<next_msg_out, owed, owedFor, heard>>
       ELSE IF c.state = "active" /\ ~c.ping_t
            THEN Ping(c) /\ Reaches("PINGRESP")
            ELSE /\ state' = "closed" /\ ping_t' = c.ping_t
                 /\ last_msg_in' = c.last_msg_in
                 /\ UNCHANGED <<next_msg_out, owed, owedFor, heard>>
  /\ UNCHANGED <<link, silentFor>>

\* A packet read after mosquitto_disconnect: MOSQ_ERR_PROTOCOL closes the socket.
LoopRefuses ==
  /\ pc = "select" /\ Refused
  /\ state' = "closed"
  /\ pc' = "app" /\ left' = 0 /\ gap' = 0
  /\ toClient' = Tail(toClient)
  /\ UNCHANGED <<next_msg_out, last_msg_in, ping_t, link, owed, owedFor, heard, silentFor>>

-----------------------------------------------------------------------------
(***************************************************************************)
(* The application.                                                        *)
(***************************************************************************)
\* A packet is written.  On a silent network that works until buffers are full.
Publish ==
  /\ pc = "app" /\ state \in {"connected", "active"}
  /\ next_msg_out' \in IF link = "up" THEN {KeepaliveSeconds}
                       ELSE {KeepaliveSeconds, next_msg_out}
  /\ Reaches("none")
  /\ UNCHANGED <<state, last_msg_in, ping_t, threadVars, link, toClient, silentFor>>

\* mosquitto_disconnect while the DISCONNECT cannot be written.
Disconnect ==
  /\ pc = "app" /\ Open /\ link = "silent"
  /\ state' = "disconnected"
  /\ UNCHANGED <<next_msg_out, last_msg_in, ping_t, threadVars, networkVars>>

\* mosquitto__reconnect.
Reconnect ==
  /\ pc = "app" /\ ~Open
  /\ state' = "connected"
  /\ next_msg_out' = KeepaliveSeconds /\ last_msg_in' = 0 /\ ping_t' = FALSE
  /\ link' = "up" /\ toClient' = <<>>
  /\ owed' = "CONNACK" /\ owedFor' = 0
  /\ heard' = 0 /\ silentFor' = 0
  /\ UNCHANGED threadVars

-----------------------------------------------------------------------------
Init ==
  /\ state = "closed"
  /\ next_msg_out = 0 /\ last_msg_in = 0 /\ ping_t = FALSE
  /\ pc = "app" /\ left = 0 /\ gap = 0
  /\ link = "up" /\ toClient = <<>>
  /\ owed = "none" /\ owedFor = 0
  /\ heard = 0 /\ silentFor = 0

Client ==
  \/ \E timeout \in Timeouts : Select(timeout)
  \/ Interrupted
  \/ Loop
  \/ LoopRefuses
  \/ Publish
  \/ Disconnect
  \/ Reconnect

Network ==
  \/ Answer
  \/ \E packet \in {"message", "piece", "end_piece"} : Send(packet)
  \/ Silence
  \/ Tick

Next == Client \/ Network

Spec == Init /\ [][Next]_vars

-----------------------------------------------------------------------------
(***************************************************************************)
(* Properties.                                                             *)
(***************************************************************************)
\* How late the loop may look at the times: select sleeps for the timeout or
\* until next_msg_out, which every packet that is written puts off; and it
\* starts again after each call that was cut short.  A second away and a call
\* that was cut short count alike in gap, whichever takes longer.
Longest == CHOOSE t \in Timeouts : \A u \in Timeouts : u <= t

Sleeps == Lower(Longest, KeepaliveSeconds)

Late == MaxGap * Higher(Sleeps, 1) + Sleeps

TypeOK ==
  /\ state \in {"connected", "active", "disconnected", "closed"}
  /\ next_msg_out \in (-MaxGap)..KeepaliveSeconds
  /\ last_msg_in \in 0..(KeepaliveSeconds + Late)
  /\ ping_t \in BOOLEAN
  /\ pc \in {"app", "select"} /\ left \in 0..KeepaliveSeconds /\ gap \in 0..MaxGap
  /\ link \in {"up", "silent"}
  /\ toClient \in Seq({"CONNACK", "PINGRESP", "message", "piece", "end_piece"})
  /\ Len(toClient) <= MaxBacklog
  /\ owed \in {"none", "CONNACK", "PINGRESP"} /\ owedFor \in 0..MaxDelay

\* The broker, which gives a client up after one and a half intervals, never
\* gives this one up while the network works, whatever the loop sleeps.
BrokerIsContacted == Open /\ link = "up" => 2 * heard <= 3 * KeepaliveSeconds

\* A connection that has gone silent is closed after two intervals and twice
\* the loop's lateness, and the time to read what had arrived before, however
\* busily the application writes to it.
SilenceIsNoticed ==
  Open /\ link = "silent" =>
    silentFor <= 2 * (KeepaliveSeconds + Late) + MaxBacklog * MaxGap

\* A connection that works is not given up: only silence closes it.
NoFalseAlarm == [][Open /\ state' = "closed" => link = "silent"]_vars
=============================================================================
