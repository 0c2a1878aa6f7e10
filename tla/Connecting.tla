----------------------------- MODULE Connecting -----------------------------
(***************************************************************************)
(* A client that is kept connected by mosquitto_loop_forever, directly or  *)
(* through a SOCKS5 proxy: the attempts at the addresses of the host, the  *)
(* handshake, the CONNECT and its CONNACK, what ends a connection, and the *)
(* delays between attempts.                                                *)
(*                                                                         *)
(* One thread: mosquitto_disconnect is called in a callback.  The network, *)
(* the proxy and the broker misbehave MaxFaults times and are well after.  *)
(***************************************************************************)
EXTENDS Socks5, Integers, FiniteSets

CONSTANTS
  Proxies,       \* settings of mosquitto_socks5_set: "none", "open", "username"
  Backoffs,      \* settings of mosquitto_reconnect_delay_set
  Addresses,     \* the most addresses that getaddrinfo gives
  BoundAs,       \* the types of address in the proxy's answers
  Codes,         \* the codes with which the proxy and the broker refuse
  MaxFaults

ASSUME BackoffsAssumption ==
  \A b \in Backoffs : b.reconnect_delay \in Nat /\ b.reconnect_delay > 0
                      /\ b.reconnect_delay_max \in Nat /\ b.exponential \in BOOLEAN
ASSUME BoundAsAssumption == BoundAs \subseteq {IPv4, DomainName, IPv6}
ASSUME CodesAssumption == Codes \subseteq 0..255
ASSUME BoundsAssumption == Addresses \in Nat \ {0} /\ MaxFaults \in Nat

VARIABLES
  proxy, backoff,  \* the settings
  mosq,          \* [state, in_packet, sent, rc] of Socks5
  sock,          \* "none", "low", or "high": FD_SETSIZE or more
  descriptors,   \* the sockets that are open
  reconnects,
  pc,            \* "app", "loop": in mosquitto_loop, "backoff" or "returned"
  delay,         \* history: the last delay of this outage
  stage,         \* what the other end waits for: "greeting", "userpass",
                 \* "request", "CONNECT", or "nothing"
  stream,        \* the bytes under way to the client
  gone,          \* "no", or how the other end went: "eof", "reset", "silent"
  faults,
  asked,         \* history: where mosquitto_disconnect was called, or "no"
  cause          \* history: what ended the last connection

settings == <<proxy, backoff>>
netVars == <<stage, stream, gone, faults>>
vars == <<proxy, backoff, mosq, sock, descriptors, reconnects, pc, delay, stage, stream, gone,
          faults, asked, cause>>

Nothing ==
  [state |-> "new", in_packet |-> EmptyPacket, sent |-> <<>>, rc |-> "SUCCESS",
   username |-> proxy = "username"]

HasProxy == proxy # "none"

Disconnected == mosq.state = "disconnected"
Open == sock # "none"
Proxied == mosq.state \in SocksStates

LastSent == IF mosq.sent = <<>> THEN "nothing" ELSE mosq.sent[Len(mosq.sent)]

-----------------------------------------------------------------------------
(***************************************************************************)
(* net__try_connect_tcp: the addresses in turn, until a socket connects.   *)
(***************************************************************************)
\* How a try at an address ends: no socket, a family that is not known, bind,
\* connect or the non-blocking mode fails, or there is a connection.
Outcomes == {"no_socket", "family", "bind", "connect", "nonblock", "low", "high"}

Connected == {"low", "high"}

\* Mutant: the socket that could not be bound stays open.
LeftOpenAfterBind(outcome) == outcome \in Connected \cup {"bind"}

\* A socket is opened, and closed again unless it connects.
LeftOpen(outcome) == outcome \in Connected

\* The outcomes up to the first connection; none if getaddrinfo fails.
Attempts ==
  {tries \in UNION {[1..n -> Outcomes] : n \in 0..Addresses} :
     \A i \in DOMAIN tries : tries[i] \in Connected => i = Len(tries)}

TrySocket(tries) ==
  IF tries # <<>> /\ tries[Len(tries)] \in Connected THEN tries[Len(tries)] ELSE "none"

\* The sockets that the tries leave open.
LeftBy(tries) == Cardinality({i \in DOMAIN tries : LeftOpen(tries[i])})

\* An attempt on a network that is well.
Fine(tries) == tries # <<>> /\ tries[Len(tries)] = "low"

-----------------------------------------------------------------------------
(***************************************************************************)
(* mosquitto__reconnect.                                                   *)
(***************************************************************************)
Reconnect(tries) ==
  /\ sock' = TrySocket(tries)
  /\ descriptors' = descriptors + LeftBy(tries) - (IF Open THEN 1 ELSE 0)
  /\ mosq' = IF TrySocket(tries) = "none"
             THEN [Nothing EXCEPT !.state = "connect_pending", !.rc = "ERRNO"]
             ELSE IF HasProxy THEN Socks5Send([Nothing EXCEPT !.state = "socks5_new"])
                  ELSE [Nothing EXCEPT !.state = "connected", !.sent = <<"CONNECT">>]
  /\ stage' = IF HasProxy THEN "greeting" ELSE "CONNECT"
  /\ stream' = <<>> /\ gone' = "no"
  /\ faults' = IF Fine(tries) THEN faults ELSE faults + 1
  /\ faults' <= MaxFaults

\* mosquitto_connect, and mosquitto_loop_forever whether it worked or not.
Connect(tries) ==
  /\ pc = "app"
  /\ Reconnect(tries)
  /\ pc' = "loop" /\ reconnects' = 0
  /\ UNCHANGED <<settings, delay, asked, cause>>

-----------------------------------------------------------------------------
(***************************************************************************)
(* mosquitto_loop and what mosquitto_loop_forever makes of its result.     *)
(***************************************************************************)
\* Mutant: a connection that is lost is fatal.
FatalIfLost ==
  {"NOMEM", "PROTOCOL", "INVAL", "NOT_FOUND", "TLS", "PAYLOAD_SIZE", "NOT_SUPPORTED",
   "AUTH", "ACL_DENIED", "UNKNOWN", "EAI", "PROXY", "CONN_LOST"}

Fatal ==
  {"NOMEM", "PROTOCOL", "INVAL", "NOT_FOUND", "TLS", "PAYLOAD_SIZE", "NOT_SUPPORTED",
   "AUTH", "ACL_DENIED", "UNKNOWN", "EAI", "PROXY"}

LoopReturns(rc) ==
  pc' = CASE rc = "SUCCESS" -> "loop"
          [] rc \in Fatal -> "returned"
          [] OTHER -> "backoff"

\* on_disconnect calls mosquitto_disconnect, which finds no socket, or does not.
OnDisconnect(c) ==
  \/ mosq' = c /\ UNCHANGED asked
  \/ /\ c.state # "disconnected" /\ asked = "no"
     /\ mosq' = [c EXCEPT !.state = "disconnected"]
     /\ asked' = "on_disconnect"

\* The socket is closed and on_disconnect called: mosquitto__loop_rc_handle,
\* for which a client that has disconnected has not failed.
LoopFails(c, why) ==
  /\ sock' = "none" /\ descriptors' = descriptors - 1
  /\ cause' = why
  /\ OnDisconnect(c)
  /\ LoopReturns(IF c.state = "disconnected" THEN "SUCCESS" ELSE c.rc)
  /\ UNCHANGED <<settings, reconnects, delay, stage, gone, faults>>

\* The proxy's answer arrives, in one piece or in several.
ReadHandshake(n) ==
  /\ pc = "loop" /\ sock = "low" /\ mosq.state \in Awaiting
  /\ n \in 1..Len(stream) /\ n <= ToProcess(mosq)
  /\ stream' = SubSeq(stream, n + 1, Len(stream))
  /\ LET c == Socks5Read(mosq, SubSeq(stream, 1, n)) IN
       IF c.rc = "SUCCESS"
       THEN /\ mosq' = c
            /\ UNCHANGED <<settings, sock, descriptors, reconnects, pc, delay, stage, gone,
                           faults, asked, cause>>
       ELSE LoopFails(c, "refused")

\* packet__read and handle__connack: the CONNACK is taken; on_connect may call
\* mosquitto_disconnect, whose state is then written over.
ReadConnack ==
  /\ pc = "loop" /\ sock = "low" /\ ~Proxied
  /\ stream # <<>> /\ Head(stream) = [from |-> "broker", v |-> 0]
  /\ stream' = Tail(stream)
  /\ reconnects' = 0 /\ delay' = 0
  /\ \/ mosq' = [mosq EXCEPT !.state = "active"] /\ UNCHANGED asked
     \/ /\ asked = "no" /\ asked' = "on_connect"
        /\ mosq' = [mosq EXCEPT !.state = "active", !.sent = Append(@, "DISCONNECT")]
  /\ UNCHANGED <<settings, sock, descriptors, pc, stage, gone, faults, cause>>

ReadRefusal ==
  /\ pc = "loop" /\ sock = "low" /\ ~Proxied
  /\ stream # <<>> /\ Head(stream).from = "broker" /\ Head(stream).v # 0
  /\ stream' = Tail(stream)
  /\ LET rc == IF Head(stream).v \in 1..5 THEN "CONN_REFUSED" ELSE "PROTOCOL" IN
       LoopFails([mosq EXCEPT !.rc = rc], "refused")

\* A byte of the proxy is not a packet of MQTT.
Misread ==
  /\ pc = "loop" /\ sock = "low" /\ ~Proxied
  /\ stream # <<>> /\ Head(stream).from \in {"proxy", "port"}
  /\ stream' = Tail(stream)
  /\ LoopFails([mosq EXCEPT !.rc = "PROTOCOL"], "misread")

\* The other end is gone and what it sent has been read.
ReadGone ==
  /\ pc = "loop" /\ sock = "low" /\ stream = <<>> /\ gone \in {"eof", "reset"}
  /\ UNCHANGED stream
  /\ LoopFails(IF mosq.state \in Awaiting THEN Socks5Gone(mosq, gone)
               ELSE [mosq EXCEPT !.rc = "CONN_LOST"],
               IF mosq.state \in Awaiting THEN gone ELSE "lost")

\* mosquitto__check_keepalive closes a silent connection in every state;
\* Keepalive is about when.
KeepaliveCloses ==
  /\ pc = "loop" /\ sock = "low" /\ gone = "silent" /\ stream = <<>>
  /\ UNCHANGED stream
  /\ LoopFails([mosq EXCEPT !.rc = "KEEPALIVE"], "lost")

\* packet__write takes the DISCONNECT that on_connect queued: do_client_disconnect.
WriteDisconnect ==
  /\ pc = "loop" /\ sock = "low" /\ gone # "reset"
  /\ LastSent = "DISCONNECT"
  /\ mosq' = [mosq EXCEPT !.state = "disconnected"]
  /\ sock' = "none" /\ descriptors' = descriptors - 1
  /\ UNCHANGED <<settings, reconnects, pc, delay, netVars, asked, cause>>

\* mosquitto_loop without a socket.
NoSocket ==
  /\ pc = "loop" /\ sock = "none"
  /\ LoopReturns("NO_CONN")
  /\ UNCHANGED <<settings, mosq, sock, descriptors, reconnects, delay, netVars, asked, cause>>

\* A socket that select cannot take: mosquitto_loop returns, and leaves it open.
HighSocket ==
  /\ pc = "loop" /\ sock = "high"
  /\ LoopReturns("INVAL")
  /\ cause' = "high"
  /\ UNCHANGED <<settings, mosq, sock, descriptors, reconnects, delay, netVars, asked>>

\* select fails: the socket is left open for mosquitto__reconnect to close.
SelectFails ==
  /\ pc = "loop" /\ sock = "low" /\ faults < MaxFaults /\ faults' = faults + 1
  /\ LoopReturns("ERRNO")
  /\ cause' = "lost"
  /\ UNCHANGED <<settings, mosq, sock, descriptors, reconnects, delay, stage, stream, gone,
                 asked>>

-----------------------------------------------------------------------------
(***************************************************************************)
(* The delay before the next attempt.                                      *)
(***************************************************************************)
\* The delay without its limit.
Wanted ==
  CASE backoff.reconnect_delay_max <= backoff.reconnect_delay -> backoff.reconnect_delay
    [] backoff.reconnect_delay_max > backoff.reconnect_delay /\ backoff.exponential ->
         backoff.reconnect_delay * (reconnects + 1) * (reconnects + 1)
    [] OTHER -> backoff.reconnect_delay * (reconnects + 1)

\* Mutant: the limit is where counting ends, not the delay.
DelayUnlimited == Wanted

Delay ==
  IF Wanted > backoff.reconnect_delay_max THEN backoff.reconnect_delay_max ELSE Wanted

Count == IF Wanted > backoff.reconnect_delay_max THEN reconnects ELSE reconnects + 1

\* Mutant: the state is not looked at.
BackoffAnyway(tries) ==
  /\ pc = "backoff"
  /\ delay' = Delay /\ reconnects' = Count
  /\ Reconnect(tries)
  /\ pc' = IF TrySocket(tries) = "none" THEN "backoff" ELSE "loop"
  /\ UNCHANGED <<settings, asked, cause>>

\* interruptible_sleep and mosquitto_reconnect, whose result ends the wait or not.
Backoff(tries) ==
  /\ pc = "backoff" /\ ~Disconnected
  /\ delay' = Delay /\ reconnects' = Count
  /\ Reconnect(tries)
  /\ pc' = IF TrySocket(tries) = "none" THEN "backoff" ELSE "loop"
  /\ UNCHANGED <<settings, asked, cause>>

BackoffEnds ==
  /\ pc = "backoff" /\ Disconnected
  /\ pc' = "returned"
  /\ UNCHANGED <<settings, mosq, sock, descriptors, reconnects, delay, netVars, asked, cause>>

-----------------------------------------------------------------------------
(***************************************************************************)
(* The other end.                                                          *)
(***************************************************************************)
FromProxy(values) == [i \in 1..Len(values) |-> [from |-> "proxy", v |-> values[i]]]

Sends(bytes, next, fault) ==
  /\ Open /\ gone = "no"
  /\ stream' = stream \o bytes
  /\ stage' = next
  /\ faults' = IF fault THEN faults + 1 ELSE faults
  /\ faults' <= MaxFaults
  /\ UNCHANGED <<settings, mosq, sock, descriptors, reconnects, pc, delay, gone, asked, cause>>

\* A method that was offered, none, or another protocol.
ProxyChooses ==
  /\ stage = "greeting"
  /\ \/ Sends(FromProxy(<<5, NoAuth>>), "request", FALSE)
     \/ LastSent = "greet_userpass" /\ Sends(FromProxy(<<5, UserPass>>), "userpass", FALSE)
     \/ Sends(FromProxy(<<5, 255>>), "nothing", TRUE)
     \/ Sends(FromProxy(<<4, NoAuth>>), "nothing", TRUE)

ProxyChecks ==
  /\ stage = "userpass" /\ LastSent = "userpass"
  /\ \/ Sends(FromProxy(<<1, 0>>), "request", FALSE)
     \/ Sends(FromProxy(<<5, 0>>), "nothing", TRUE)
     \/ \E code \in Codes : Sends(FromProxy(<<1, code>>), "nothing", TRUE)

\* The address that the proxy bound and two bytes of port, which have a tag of
\* their own behind a domain name: its length and here a single byte.
Bound(type) ==
  CASE type = IPv4 -> FromProxy(<<0, 0, 0, 0, 0, 0>>)
    [] type = IPv6 -> FromProxy([i \in 1..18 |-> 0])
    [] type = DomainName ->
         FromProxy(<<1, 0>>) \o <<[from |-> "port", v |-> 0], [from |-> "port", v |-> 0]>>

ProxyConnects ==
  /\ stage = "request" /\ LastSent = "request"
  /\ \E type \in BoundAs :
       \/ Sends(FromProxy(<<5, 0, 0, type>>) \o Bound(type), "CONNECT", type = DomainName)
       \/ \E code \in Codes :
            Sends(FromProxy(<<5, code, 0, type>>) \o Bound(type), "nothing", TRUE)

BrokerAnswers ==
  /\ stage = "CONNECT" /\ LastSent = "CONNECT"
  /\ \/ Sends(<<[from |-> "broker", v |-> 0]>>, "nothing", FALSE)
     \/ \E code \in Codes : Sends(<<[from |-> "broker", v |-> code]>>, "nothing", TRUE)

Goes(how) ==
  /\ Open /\ gone = "no"
  /\ gone' = how
  /\ faults < MaxFaults /\ faults' = faults + 1
  /\ UNCHANGED <<settings, mosq, sock, descriptors, reconnects, pc, delay, stage, stream,
                 asked, cause>>

-----------------------------------------------------------------------------
Init ==
  /\ proxy \in Proxies /\ backoff \in Backoffs
  /\ mosq = Nothing
  /\ sock = "none" /\ descriptors = 0
  /\ reconnects = 0 /\ pc = "app" /\ delay = 0
  /\ stage = "nothing" /\ stream = <<>> /\ gone = "no" /\ faults = 0
  /\ asked = "no" /\ cause = "none"

Answers == ProxyChooses \/ ProxyChecks \/ ProxyConnects \/ BrokerAnswers

Client ==
  \/ \E tries \in Attempts : Connect(tries)
  \/ \E tries \in Attempts : Backoff(tries)
  \/ BackoffEnds
  \/ \E n \in 1..22 : ReadHandshake(n)
  \/ ReadConnack
  \/ ReadRefusal
  \/ Misread
  \/ ReadGone
  \/ KeepaliveCloses
  \/ WriteDisconnect
  \/ NoSocket
  \/ HighSocket

Faults ==
  \/ SelectFails
  \/ \E how \in {"eof", "reset", "silent"} : Goes(how)

Next == Client \/ Answers \/ Faults

\* The thread runs on, and an end that is not gone answers.
Fairness == WF_vars(Client) /\ WF_vars(Answers)

Spec == Init /\ [][Next]_vars /\ Fairness

-----------------------------------------------------------------------------
(***************************************************************************)
(* Properties.                                                             *)
(***************************************************************************)
TypeOK ==
  /\ proxy \in Proxies /\ backoff \in Backoffs
  /\ mosq.state \in SocksStates \cup
       {"new", "connect_pending", "connected", "active", "disconnected"}
  /\ mosq.in_packet.packet_length \in 0..22
  /\ Len(mosq.in_packet.payload) <= mosq.in_packet.packet_length
  /\ sock \in {"none", "low", "high"}
  /\ descriptors \in Nat /\ reconnects \in Nat
  /\ pc \in {"app", "loop", "backoff", "returned"}
  /\ gone \in {"no", "eof", "reset", "silent"}
  /\ faults \in 0..MaxFaults

\* Over any number of attempts, failed or not, the process holds one socket for
\* the client if it has one and none otherwise (net__try_connect_tcp, the
\* closings of the loop and of mosquitto__reconnect).
NoDescriptorLeaks == descriptors = IF Open THEN 1 ELSE 0

\* MQTT begins where the handshake ends: the client that has sent CONNECT has
\* read all that the proxy sent, but for the port behind a domain name, which
\* socks5__read leaves for packet__read.
HandshakeIsWhole ==
  Open /\ mosq.state \in {"new", "connected", "active"} =>
    \A i \in DOMAIN stream : stream[i].from # "proxy"

\* mosquitto_loop_forever gives up for what the other end said and for what it
\* cannot handle, never for a connection that failed or was lost.  A proxy that
\* closes during the handshake is the exception.
LossIsRetried ==
  pc = "returned" /\ ~Disconnected => cause \in {"refused", "misread", "high", "eof"}

\* Within an outage the delays never shrink, and never exceed the limit.
DelaysGrow ==
  [][delay' # delay /\ delay' # 0 =>
       delay <= delay' /\ delay' <= backoff.reconnect_delay_max]_vars

\* Once the network is well for good the client is connected for good, unless
\* mosquitto_loop_forever has returned.
EventuallyUp == <>[]((mosq.state = "active" /\ Open) \/ pc = "returned")

\* mosquitto_disconnect in on_disconnect makes mosquitto_loop_forever return.
DisconnectEnds == asked = "on_disconnect" ~> pc = "returned"

\* What mosquitto.h says of every callback.
DisconnectInCallbackEnds == asked # "no" ~> pc = "returned"
=============================================================================
