------------------------------- MODULE Socks5 -------------------------------
(***************************************************************************)
(* The client's half of a SOCKS5 handshake: socks5__send and socks5__read  *)
(* as functions from a client [state, in_packet, sent, rc, username] to the *)
(* client they leave; username: socks5_username and socks5_password are set. *)
(*                                                                         *)
(* A byte is [from |-> who wrote it, v |-> its value].  in_packet.payload  *)
(* holds the bytes read so far, so that pos is its length and to_process   *)
(* what packet_length has beyond it.  A message that is sent is its name;  *)
(* packet__queue writes it at once (PacketQueue is about when it cannot).  *)
(***************************************************************************)
EXTENDS Naturals, Sequences

SocksStates ==
  {"socks5_new", "socks5_start", "socks5_send_userpass", "socks5_userpass_reply",
   "socks5_auth_ok", "socks5_request"}

\* The states in which socks5__read waits for an answer of the proxy.
Awaiting == {"socks5_start", "socks5_userpass_reply", "socks5_request"}

\* SOCKS_AUTH_*, SOCKS_ATYPE_*
NoAuth == 0
UserPass == 2
IPv4 == 1
DomainName == 3
IPv6 == 4

EmptyPacket == [payload |-> <<>>, packet_length |-> 0]

ToProcess(c) == c.in_packet.packet_length - Len(c.in_packet.payload)

\* packet__cleanup(&mosq->in_packet) and a return with rc.
Fail(c, rc) == [c EXCEPT !.in_packet = EmptyPacket, !.rc = rc]

\* A message is queued and room made for an answer of n bytes.
Ask(c, message, state, n) ==
  [c EXCEPT !.sent = Append(@, message), !.state = state,
            !.in_packet = [payload |-> <<>>, packet_length |-> n]]

\* The greeting offers user and password only if there are any; the request
\* takes the first five bytes of an answer whose length they decide.
Socks5Send(c) ==
  CASE c.state = "socks5_new" ->
         Ask(c, IF c.username THEN "greet_userpass" ELSE "greet", "socks5_start", 2)
    [] c.state = "socks5_send_userpass" -> Ask(c, "userpass", "socks5_userpass_reply", 2)
    [] c.state = "socks5_auth_ok" -> Ask(c, "request", "socks5_request", 5)

Continue(c, state) == Socks5Send([c EXCEPT !.in_packet = EmptyPacket, !.state = state])

Byte(c, i) == c.in_packet.payload[i + 1].v

Refusal(code) ==
  CASE code = 2 -> "AUTH"
    [] code \in {3, 4, 5} -> "NO_CONN"
    [] code \in {1, 6, 7, 8} -> "PROXY"
    [] OTHER -> "INVAL"

\* The answer to the greeting: the method.
ReadMethod(c) ==
  CASE Byte(c, 0) # 5 -> Fail(c, "PROXY")
    [] Byte(c, 0) = 5 /\ Byte(c, 1) = NoAuth -> Continue(c, "socks5_auth_ok")
    [] Byte(c, 0) = 5 /\ Byte(c, 1) = UserPass -> Continue(c, "socks5_send_userpass")
    [] OTHER -> Fail(c, "AUTH")

\* The answer to user and password.
ReadStatus(c) ==
  CASE Byte(c, 0) # 1 -> Fail(c, "PROXY")
    [] Byte(c, 0) = 1 /\ Byte(c, 1) = 0 -> Continue(c, "socks5_auth_ok")
    [] OTHER -> Fail(c, Refusal(Byte(c, 1)))

\* Mutants: the port is forgotten; the byte that has been read is counted again.
MoreWithoutPort(c) ==
  CASE Byte(c, 3) = IPv4 -> 4 - 1
    [] Byte(c, 3) = IPv6 -> 16 - 1
    [] Byte(c, 3) = DomainName -> Byte(c, 4)

MoreCountsTwice(c) ==
  CASE Byte(c, 3) = IPv4 -> 4 + 2
    [] Byte(c, 3) = IPv6 -> 16 + 2
    [] Byte(c, 3) = DomainName -> Byte(c, 4)

\* What an answer to the request has beyond its first five bytes.  For a domain
\* name that leaves the two bytes of the port unread.
More(c) ==
  CASE Byte(c, 3) = IPv4 -> 4 + 2 - 1
    [] Byte(c, 3) = IPv6 -> 16 + 2 - 1
    [] Byte(c, 3) = DomainName -> Byte(c, 4)

\* The answer to the request, in two parts.  Granted, CONNECT is sent in state
\* new; a failure leaves socks5_new.  An empty domain name leaves five bytes, so
\* that they are the first part again and again.
ReadReply(c) ==
  CASE c.in_packet.packet_length = 5 /\ Byte(c, 3) \notin {IPv4, DomainName, IPv6} ->
         Fail(c, "PROTOCOL")
    [] c.in_packet.packet_length = 5 /\ Byte(c, 3) \in {IPv4, DomainName, IPv6} ->
         [c EXCEPT !.in_packet.packet_length = 5 + More(c)]
    [] c.in_packet.packet_length > 5 /\ Byte(c, 0) # 5 -> Fail(c, "PROXY")
    [] c.in_packet.packet_length > 5 /\ Byte(c, 0) = 5 /\ Byte(c, 1) = 0 ->
         [c EXCEPT !.in_packet = EmptyPacket, !.state = "new", !.sent = Append(@, "CONNECT")]
    [] OTHER -> Fail([c EXCEPT !.state = "socks5_new"], Refusal(Byte(c, 1)))

\* socks5__read when bytes arrive: it takes them, and acts if they are all.
Socks5Read(c, bytes) ==
  LET took == [c EXCEPT !.in_packet.payload = @ \o bytes]
  IN CASE ToProcess(took) > 0 -> took
       [] ToProcess(took) = 0 /\ c.state = "socks5_start" -> ReadMethod(took)
       [] ToProcess(took) = 0 /\ c.state = "socks5_userpass_reply" -> ReadStatus(took)
       [] ToProcess(took) = 0 /\ c.state = "socks5_request" -> ReadReply(took)

\* socks5__read when the connection is gone: read returns 0 and errno is 0, or
\* ECONNRESET.
Socks5Gone(c, how) == Fail(c, IF how = "eof" THEN "PROXY" ELSE "CONN_LOST")
=============================================================================
