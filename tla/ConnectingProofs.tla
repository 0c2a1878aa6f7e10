--------------------------- MODULE ConnectingProofs ---------------------------
(***************************************************************************)
(* Theorems about Connecting, for every number of faults and addresses and *)
(* every setting of the proxy and of the delays.                           *)
(***************************************************************************)
EXTENDS Connecting, MessageListProofs, FiniteSetTheorems

States ==
  SocksStates \cup {"new", "connect_pending", "connected", "active", "disconnected"}

Bytes == [from : {"proxy", "port", "broker"}, v : 0..255]

Messages == {"greet", "greet_userpass", "userpass", "request", "CONNECT", "DISCONNECT"}

Results ==
  {"SUCCESS", "ERRNO", "PROXY", "AUTH", "PROTOCOL", "NO_CONN", "INVAL", "CONN_LOST",
   "CONN_REFUSED", "KEEPALIVE"}

Clients ==
  [state : States, in_packet : [payload : Seq(Bytes), packet_length : Nat],
   sent : Seq(Messages), rc : Results, username : BOOLEAN]

Types ==
  /\ proxy \in Proxies /\ backoff \in Backoffs
  /\ mosq \in Clients
  /\ sock \in {"none", "low", "high"}
  /\ reconnects \in Nat /\ delay \in Nat
  /\ pc \in {"app", "loop", "backoff", "returned"}
  /\ gone \in {"no", "eof", "reset", "silent"}
  /\ faults \in 0..MaxFaults
  /\ stream \in Seq(Bytes)

-----------------------------------------------------------------------------
(***************************************************************************)
(* The client of Socks5.                                                   *)
(***************************************************************************)
LEMMA ClientFields ==
  ASSUME NEW c \in Clients
  PROVE  /\ c.state \in States /\ c.in_packet.payload \in Seq(Bytes)
         /\ c.in_packet.packet_length \in Nat /\ c.sent \in Seq(Messages)
         /\ c.rc \in Results /\ c.username \in BOOLEAN
         /\ c.in_packet \in [payload : Seq(Bytes), packet_length : Nat]
         /\ c = [state |-> c.state, in_packet |-> c.in_packet, sent |-> c.sent,
                 rc |-> c.rc, username |-> c.username]
BY DEF Clients

LEMMA FailIs ==
  ASSUME NEW c \in Clients, NEW rc \in Results
  PROVE  /\ Fail(c, rc) \in Clients
         /\ Fail(c, rc).state = c.state /\ Fail(c, rc).rc = rc
<1> DEFINE m == Fail(c, rc)
<1>1. m = [c EXCEPT !.in_packet = EmptyPacket, !.rc = rc]
  BY DEF Fail
<1>2. EmptyPacket \in [payload : Seq(Bytes), packet_length : Nat]
  BY DEF EmptyPacket
<1> HIDE DEF m
<1>3. m = [state |-> c.state, in_packet |-> EmptyPacket, sent |-> c.sent, rc |-> rc,
           username |-> c.username]
  BY <1>1 DEF Clients
<1> QED  BY <1>2, <1>3, ClientFields DEF Clients, m

\* m is c after a message was queued, and waits for an answer of n bytes.
Asked(m, c, message, state, n) ==
  /\ m \in Clients /\ m.state = state /\ m.rc = c.rc
  /\ m.in_packet.payload = <<>> /\ m.in_packet.packet_length = n
  /\ m.sent = Append(c.sent, message)

LEMMA AskIs ==
  ASSUME NEW c \in Clients, NEW message \in Messages, NEW state \in States, NEW n \in Nat
  PROVE  Asked(Ask(c, message, state, n), c, message, state, n)
<1> DEFINE m == Ask(c, message, state, n)
           p == [payload |-> <<>>, packet_length |-> n]
<1>1. m = [c EXCEPT !.sent = Append(c.sent, message), !.state = state, !.in_packet = p]
  BY DEF Ask
<1>2. p \in [payload : Seq(Bytes), packet_length : Nat] /\ p.payload = <<>>
      /\ p.packet_length = n
  OBVIOUS
<1> HIDE DEF m, p
<1>3. m = [state |-> state, in_packet |-> p, sent |-> Append(c.sent, message), rc |-> c.rc,
           username |-> c.username]
  BY <1>1 DEF Clients
<1>4. Append(c.sent, message) \in Seq(Messages)
  BY ClientFields
<1>5. Asked(m, c, message, state, n)
  BY <1>2, <1>3, <1>4, ClientFields DEF Clients, Asked
<1> QED  BY <1>5 DEF m

\* socks5__send in its three states.
Greeting(c) == IF c.username THEN "greet_userpass" ELSE "greet"

LEMMA SendIs ==
  ASSUME NEW c \in Clients
  PROVE  /\ c.state = "socks5_new" =>
              Asked(Socks5Send(c), c, Greeting(c), "socks5_start", 2)
         /\ c.state = "socks5_send_userpass" =>
              Asked(Socks5Send(c), c, "userpass", "socks5_userpass_reply", 2)
         /\ c.state = "socks5_auth_ok" =>
              Asked(Socks5Send(c), c, "request", "socks5_request", 5)
<1>1. "socks5_start" \in States /\ "socks5_userpass_reply" \in States
      /\ "socks5_request" \in States
  BY DEF States, SocksStates
<1>2. Greeting(c) \in Messages /\ "userpass" \in Messages /\ "request" \in Messages
  BY DEF Messages, Greeting
<1>3. /\ Asked(Ask(c, Greeting(c), "socks5_start", 2), c, Greeting(c), "socks5_start", 2)
      /\ Asked(Ask(c, "userpass", "socks5_userpass_reply", 2),
               c, "userpass", "socks5_userpass_reply", 2)
      /\ Asked(Ask(c, "request", "socks5_request", 5), c, "request", "socks5_request", 5)
  BY <1>1, <1>2, AskIs
<1>4. ASSUME c.state = "socks5_new" PROVE Socks5Send(c) = Ask(c, Greeting(c), "socks5_start", 2)
  BY <1>4 DEF Socks5Send, Greeting
<1>5. ASSUME c.state = "socks5_send_userpass"
      PROVE  Socks5Send(c) = Ask(c, "userpass", "socks5_userpass_reply", 2)
  BY <1>5 DEF Socks5Send
<1>6. ASSUME c.state = "socks5_auth_ok"
      PROVE  Socks5Send(c) = Ask(c, "request", "socks5_request", 5)
  BY <1>6 DEF Socks5Send
<1> QED  BY <1>3, <1>4, <1>5, <1>6

\* The next message after a granted one.
LEMMA ContinueIs ==
  ASSUME NEW c \in Clients
  PROVE  /\ Asked(Continue(c, "socks5_send_userpass"), c, "userpass", "socks5_userpass_reply", 2)
         /\ Asked(Continue(c, "socks5_auth_ok"), c, "request", "socks5_request", 5)
<1>1. ASSUME NEW state \in States
      PROVE  \E d \in Clients : /\ d.state = state /\ d.rc = c.rc /\ d.sent = c.sent
                                /\ Continue(c, state) = Socks5Send(d)
  <2> DEFINE d == [c EXCEPT !.in_packet = EmptyPacket, !.state = state]
  <2>1. d = [c EXCEPT !.in_packet = EmptyPacket, !.state = state]
    OBVIOUS
  <2>2. EmptyPacket \in [payload : Seq(Bytes), packet_length : Nat]
    BY DEF EmptyPacket
  <2>3. Continue(c, state) = Socks5Send(d)
    BY DEF Continue
  <2> HIDE DEF d
  <2>4. d = [state |-> state, in_packet |-> EmptyPacket, sent |-> c.sent, rc |-> c.rc,
             username |-> c.username]
    BY <2>1 DEF Clients
  <2>5. d \in Clients /\ d.state = state /\ d.rc = c.rc /\ d.sent = c.sent
    BY <1>1, <2>2, <2>4, ClientFields DEF Clients
  <2> QED  BY <2>3, <2>5
<1>2. "socks5_send_userpass" \in States /\ "socks5_auth_ok" \in States
  BY DEF States, SocksStates
<1>3. ASSUME NEW d \in Clients, d.state = "socks5_send_userpass", d.rc = c.rc, d.sent = c.sent
      PROVE  Asked(Socks5Send(d), c, "userpass", "socks5_userpass_reply", 2)
  <2>1. Asked(Socks5Send(d), d, "userpass", "socks5_userpass_reply", 2)
    BY <1>3, SendIs
  <2> QED  BY <1>3, <2>1 DEF Asked
<1>4. ASSUME NEW d \in Clients, d.state = "socks5_auth_ok", d.rc = c.rc, d.sent = c.sent
      PROVE  Asked(Socks5Send(d), c, "request", "socks5_request", 5)
  <2>1. Asked(Socks5Send(d), d, "request", "socks5_request", 5)
    BY <1>4, SendIs
  <2> QED  BY <1>4, <2>1 DEF Asked
<1> QED  BY <1>1, <1>2, <1>3, <1>4

\* What has been read of an answer.
Sized(m) ==
  /\ m.in_packet.packet_length \in 0..22
  /\ Len(m.in_packet.payload) <= m.in_packet.packet_length

LEMMA FailSized ==
  ASSUME NEW c \in Clients, NEW rc \in Results
  PROVE  Sized(Fail(c, rc))
<1> DEFINE m == Fail(c, rc)
<1>1. m = [c EXCEPT !.in_packet = EmptyPacket, !.rc = rc]
  BY DEF Fail
<1> HIDE DEF m
<1>2. m = [state |-> c.state, in_packet |-> EmptyPacket, sent |-> c.sent, rc |-> rc,
           username |-> c.username]
  BY <1>1 DEF Clients
<1>3. m.in_packet.payload = <<>> /\ m.in_packet.packet_length = 0
  BY <1>2 DEF EmptyPacket
<1>4. Sized(m)
  BY <1>3 DEF Sized
<1> QED  BY <1>4 DEF m

\* socks5__read has all the bytes it waits for: it fails, or sends the next
\* message, or waits for the second part of a reply, or has the connection.
Refused(r) == r \in Clients /\ r.rc # "SUCCESS" /\ Sized(r)

LEMMA RefusalIs == \A code : Refusal(code) \in Results \ {"SUCCESS"}
<1> SUFFICES ASSUME NEW code PROVE Refusal(code) \in Results \ {"SUCCESS"}
  OBVIOUS
<1>1. CASE code = 2
  BY <1>1 DEF Refusal, Results
<1>2. CASE code \in {3, 4, 5}
  BY <1>2 DEF Refusal, Results
<1>3. CASE code \in {1, 6, 7, 8}
  BY <1>3 DEF Refusal, Results
<1>4. CASE code \notin {1, 2, 3, 4, 5, 6, 7, 8}
  BY <1>4 DEF Refusal, Results
<1> QED  BY <1>1, <1>2, <1>3, <1>4

LEMMA MethodIs ==
  ASSUME NEW c \in Clients
  PROVE  \/ Refused(ReadMethod(c))
         \/ Asked(ReadMethod(c), c, "userpass", "socks5_userpass_reply", 2)
         \/ Asked(ReadMethod(c), c, "request", "socks5_request", 5)
<1>1. Refused(Fail(c, "PROXY")) /\ Refused(Fail(c, "AUTH"))
  BY FailIs, FailSized DEF Refused, Results
<1>2. CASE Byte(c, 0) # 5
  BY <1>1, <1>2 DEF ReadMethod
<1>3. CASE Byte(c, 0) = 5 /\ Byte(c, 1) = NoAuth
  BY <1>3, ContinueIs DEF ReadMethod, NoAuth, UserPass
<1>4. CASE Byte(c, 0) = 5 /\ Byte(c, 1) = UserPass
  BY <1>4, ContinueIs DEF ReadMethod, NoAuth, UserPass
<1>5. CASE Byte(c, 0) = 5 /\ Byte(c, 1) \notin {NoAuth, UserPass}
  BY <1>1, <1>5 DEF ReadMethod
<1> QED  BY <1>2, <1>3, <1>4, <1>5

LEMMA StatusIs ==
  ASSUME NEW c \in Clients
  PROVE  \/ Refused(ReadStatus(c))
         \/ Asked(ReadStatus(c), c, "request", "socks5_request", 5)
<1>1. Refused(Fail(c, "PROXY")) /\ Refused(Fail(c, Refusal(Byte(c, 1))))
  <2>1. "PROXY" \in Results \ {"SUCCESS"} /\ Refusal(Byte(c, 1)) \in Results \ {"SUCCESS"}
    BY RefusalIs DEF Results
  <2> QED  BY <2>1, FailIs, FailSized DEF Refused
<1>2. CASE Byte(c, 0) # 1
  BY <1>1, <1>2 DEF ReadStatus
<1>3. CASE Byte(c, 0) = 1 /\ Byte(c, 1) = 0
  BY <1>3, ContinueIs DEF ReadStatus
<1>4. CASE Byte(c, 0) = 1 /\ Byte(c, 1) # 0
  BY <1>1, <1>4 DEF ReadStatus
<1> QED  BY <1>2, <1>3, <1>4

LEMMA ReplyIs ==
  ASSUME NEW c \in Clients, NEW r, r = ReadReply(c), c.in_packet.packet_length >= 5
  PROVE  \/ Refused(r)
         \/ /\ c.in_packet.packet_length = 5 /\ Byte(c, 3) \in {IPv4, DomainName, IPv6}
            /\ 5 + More(c) \in Nat =>
                 /\ r \in Clients /\ r.state = c.state /\ r.sent = c.sent /\ r.rc = c.rc
                 /\ r.in_packet.payload = c.in_packet.payload
                 /\ r.in_packet.packet_length = 5 + More(c)
         \/ /\ c.in_packet.packet_length > 5
            /\ r \in Clients /\ r.state = "new" /\ r.sent = Append(c.sent, "CONNECT")
            /\ Sized(r)
<1>1. \A rc \in Results \ {"SUCCESS"} : Refused(Fail(c, rc))
  BY FailIs, FailSized DEF Refused
<1>2. CASE c.in_packet.packet_length = 5 /\ Byte(c, 3) \notin {IPv4, DomainName, IPv6}
  <2>1. r = Fail(c, "PROTOCOL")
    BY <1>2 DEF ReadReply
  <2> QED  BY <1>1, <2>1 DEF Results
<1>3. CASE c.in_packet.packet_length = 5 /\ Byte(c, 3) \in {IPv4, DomainName, IPv6}
  <2> DEFINE n == 5 + More(c)
             p == [payload |-> c.in_packet.payload, packet_length |-> n]
  <2>1. r = [c EXCEPT !.in_packet.packet_length = n]
    BY <1>3 DEF ReadReply
  <2> HIDE DEF n
  <2>2. r = [state |-> c.state, in_packet |-> p, sent |-> c.sent, rc |-> c.rc,
             username |-> c.username]
    BY <2>1 DEF Clients
  <2>3. n \in Nat => p \in [payload : Seq(Bytes), packet_length : Nat]
    BY ClientFields
  <2>4. r.state = c.state /\ r.sent = c.sent /\ r.rc = c.rc /\ r.in_packet = p
    BY <2>2
  <2>5. n \in Nat => r \in Clients
    BY <2>2, <2>3, ClientFields DEF Clients
  <2> QED  BY <1>3, <2>4, <2>5 DEF n
<1>4. CASE c.in_packet.packet_length > 5 /\ Byte(c, 0) # 5
  <2>1. c.in_packet.packet_length # 5
    BY <1>4, ClientFields
  <2>2. r = Fail(c, "PROXY")
    BY <1>4, <2>1 DEF ReadReply
  <2> QED  BY <1>1, <2>2 DEF Results
<1>5. CASE c.in_packet.packet_length > 5 /\ Byte(c, 0) = 5 /\ Byte(c, 1) = 0
  <2>1. c.in_packet.packet_length # 5
    BY <1>5, ClientFields
  <2>2. r = [c EXCEPT !.in_packet = EmptyPacket, !.state = "new",
                      !.sent = Append(c.sent, "CONNECT")]
    BY <1>5, <2>1 DEF ReadReply
  <2>3. r = [state |-> "new", in_packet |-> EmptyPacket, sent |-> Append(c.sent, "CONNECT"),
             rc |-> c.rc, username |-> c.username]
    BY <2>2 DEF Clients
  <2>4. EmptyPacket \in [payload : Seq(Bytes), packet_length : Nat]
        /\ EmptyPacket.payload = <<>> /\ EmptyPacket.packet_length = 0
    BY DEF EmptyPacket
  <2>5. Append(c.sent, "CONNECT") \in Seq(Messages) /\ "new" \in States
    BY ClientFields DEF Messages, States
  <2>6. r \in Clients
    BY <2>3, <2>4, <2>5, ClientFields DEF Clients
  <2>7. Sized(r)
    BY <2>3, <2>4 DEF Sized
  <2> QED  BY <1>5, <2>3, <2>6, <2>7
<1>6. CASE c.in_packet.packet_length > 5 /\ Byte(c, 0) = 5 /\ Byte(c, 1) # 0
  <2> DEFINE d == [c EXCEPT !.state = "socks5_new"]
  <2>1. c.in_packet.packet_length # 5
    BY <1>6, ClientFields
  <2>2. r = Fail(d, Refusal(Byte(c, 1)))
    BY <1>6, <2>1 DEF ReadReply
  <2>3. d = [c EXCEPT !.state = "socks5_new"]
    OBVIOUS
  <2> HIDE DEF d
  <2>4. d = [state |-> "socks5_new", in_packet |-> c.in_packet, sent |-> c.sent,
             rc |-> c.rc, username |-> c.username]
    BY <2>3 DEF Clients
  <2>5. d \in Clients
    BY <2>4, ClientFields DEF Clients, States, SocksStates
  <2>6. Refusal(Byte(c, 1)) \in Results \ {"SUCCESS"}
    BY RefusalIs
  <2> QED  BY <2>2, <2>5, <2>6, FailIs, FailSized DEF Refused
<1>7. c.in_packet.packet_length = 5 \/ c.in_packet.packet_length > 5
  BY ClientFields
<1> QED  BY <1>2, <1>3, <1>4, <1>5, <1>6, <1>7

-----------------------------------------------------------------------------
(***************************************************************************)
(* The answer of the proxy: the bytes p that are read and s that are not.  *)
(***************************************************************************)
LEMMA SplitFacts ==
  ASSUME NEW S, NEW s \in Seq(S), NEW n \in 1..Len(s)
  PROVE  /\ SubSeq(s, 1, n) \in Seq(S) /\ Len(SubSeq(s, 1, n)) = n
         /\ \A i \in 1..n : i \in 1..Len(s) /\ SubSeq(s, 1, n)[i] = s[i]
         /\ SubSeq(s, n + 1, Len(s)) \in Seq(S)
         /\ Len(SubSeq(s, n + 1, Len(s))) = Len(s) - n
         /\ \A i \in 1..(Len(s) - n) :
              n + i \in 1..Len(s) /\ SubSeq(s, n + 1, Len(s))[i] = s[n + i]
OBVIOUS

\* The bytes of a reply to the request: its type is the fourth, the length of a
\* domain name the fifth, and the port behind a domain name has a tag of its own.
Total(type) == CASE type = IPv4 -> 10 [] type = IPv6 -> 22 [] type = DomainName -> 8

\* What socks5__read takes of them.
Whole(type) == CASE type = IPv4 -> 10 [] type = IPv6 -> 22 [] type = DomainName -> 6

Fits(type, i, b) ==
  /\ i = 4 => b.v = type
  /\ type = DomainName /\ i = 5 => b.v = 1
  /\ type = DomainName /\ i > 6 => b.from # "proxy"

ReplyOf(type, p, s) ==
  /\ Len(p) + Len(s) = Total(type)
  /\ \A i \in 1..Len(p) : Fits(type, i, p[i])
  /\ \A i \in 1..Len(s) : Fits(type, Len(p) + i, s[i])

\* Reading keeps the bytes, and their places.
LEMMA ReplyMoves ==
  ASSUME NEW type, NEW p \in Seq(Bytes), NEW s \in Seq(Bytes), ReplyOf(type, p, s),
         NEW n \in 1..Len(s)
  PROVE  ReplyOf(type, p \o SubSeq(s, 1, n), SubSeq(s, n + 1, Len(s)))
<1> DEFINE a == SubSeq(s, 1, n)
           z == SubSeq(s, n + 1, Len(s))
           r == p \o a
<1>1. /\ a \in Seq(Bytes) /\ Len(a) = n /\ \A i \in 1..n : i \in 1..Len(s) /\ a[i] = s[i]
      /\ z \in Seq(Bytes) /\ Len(z) = Len(s) - n
      /\ \A i \in 1..(Len(s) - n) : n + i \in 1..Len(s) /\ z[i] = s[n + i]
  BY SplitFacts
<1> HIDE DEF a, z
<1>2. /\ r \in Seq(Bytes) /\ Len(r) = Len(p) + Len(a)
      /\ \A i \in 1..Len(r) :
           \/ i \in 1..Len(p) /\ r[i] = p[i]
           \/ i - Len(p) \in 1..Len(a) /\ r[i] = a[i - Len(p)]
  <2>1. p \in Seq(Bytes) /\ a \in Seq(Bytes)
    BY <1>1
  <2> QED  BY ONLY <2>1, ConcatFacts DEF r
<1>3. Len(p) \in Nat /\ Len(s) \in Nat /\ n \in Nat
  OBVIOUS
<1> HIDE DEF r
<1>4. Len(r) + Len(z) = Total(type)
  BY <1>1, <1>2, <1>3 DEF ReplyOf
<1>5. ASSUME NEW i \in 1..Len(r) PROVE Fits(type, i, r[i])
  <2>1. CASE i \in 1..Len(p) /\ r[i] = p[i]
    BY <2>1 DEF ReplyOf
  <2>2. CASE i - Len(p) \in 1..Len(a) /\ r[i] = a[i - Len(p)]
    <3> DEFINE k == i - Len(p)
    <3>1. k \in 1..Len(s) /\ r[i] = s[k] /\ Len(p) + k = i
      BY <1>1, <1>3, <2>2
    <3>2. Fits(type, Len(p) + k, s[k])
      BY <3>1 DEF ReplyOf
    <3> QED  BY <3>1, <3>2
  <2> QED  BY <1>2, <2>1, <2>2
<1>6. ASSUME NEW i \in 1..Len(z) PROVE Fits(type, Len(r) + i, z[i])
  <2>1. n + i \in 1..Len(s) /\ z[i] = s[n + i] /\ Len(r) + i = Len(p) + (n + i)
    BY <1>1, <1>2, <1>3
  <2>2. Fits(type, Len(p) + (n + i), s[n + i])
    BY <2>1 DEF ReplyOf
  <2> QED  BY <2>1, <2>2
<1>7. ReplyOf(type, r, z)
  BY <1>4, <1>5, <1>6 DEF ReplyOf
<1> QED  BY <1>7 DEF r, a, z

LEMMA TypeFacts ==
  ASSUME NEW type \in {IPv4, DomainName, IPv6}
  PROVE  /\ Total(type) \in {8, 10, 22} /\ Whole(type) \in {6, 10, 22}
         /\ type # DomainName => Total(type) = Whole(type)
         /\ type = DomainName => Whole(type) = 6
<1>1. CASE type = IPv4
  BY <1>1 DEF Total, Whole, IPv4, IPv6, DomainName
<1>2. CASE type = IPv6
  BY <1>2 DEF Total, Whole, IPv4, IPv6, DomainName
<1>3. CASE type = DomainName
  BY <1>3 DEF Total, Whole, IPv4, IPv6, DomainName
<1> QED  BY <1>1, <1>2, <1>3

\* The first five bytes tell how many there are.
LEMMA MoreIs ==
  ASSUME NEW c \in Clients, NEW type \in {IPv4, DomainName, IPv6}, NEW s,
         ReplyOf(type, c.in_packet.payload, s), Len(c.in_packet.payload) = 5
  PROVE  Byte(c, 3) = type /\ 5 + More(c) = Whole(type)
<1> DEFINE p == c.in_packet.payload
<1>1. p \in Seq(Bytes)
  BY ClientFields
<1>2. Fits(type, 4, p[4]) /\ Fits(type, 5, p[5])
  <2>1. 4 \in 1..Len(p) /\ 5 \in 1..Len(p)
    OBVIOUS
  <2> QED  BY <2>1 DEF ReplyOf
<1>3. p[4].v = type /\ (type = DomainName => p[5].v = 1)
  BY <1>2 DEF Fits
<1>4. Byte(c, 3) = p[4].v /\ Byte(c, 4) = p[5].v
  BY DEF Byte
<1> HIDE DEF p
<1>5. CASE type = IPv4
  BY <1>3, <1>4, <1>5 DEF More, Whole, IPv4, IPv6, DomainName
<1>6. CASE type = IPv6
  BY <1>3, <1>4, <1>6 DEF More, Whole, IPv4, IPv6, DomainName
<1>7. CASE type = DomainName
  BY <1>3, <1>4, <1>7 DEF More, Whole, IPv4, IPv6, DomainName
<1> QED  BY <1>5, <1>6, <1>7

LEMMA TookIs ==
  ASSUME NEW c \in Clients, NEW bytes \in Seq(Bytes)
  PROVE  LET m == [c EXCEPT !.in_packet.payload = @ \o bytes] IN
         /\ m \in Clients /\ m.state = c.state /\ m.sent = c.sent /\ m.rc = c.rc
         /\ m.in_packet.payload = c.in_packet.payload \o bytes
         /\ m.in_packet.packet_length = c.in_packet.packet_length
<1> DEFINE w == c.in_packet.payload \o bytes
           p == [payload |-> w, packet_length |-> c.in_packet.packet_length]
           m == [c EXCEPT !.in_packet.payload = w]
<1>1. m = [c EXCEPT !.in_packet.payload = w]
  OBVIOUS
<1>2. w \in Seq(Bytes)
  BY ClientFields, ConcatFacts
<1> HIDE DEF m, w
<1>3. m = [state |-> c.state, in_packet |-> p, sent |-> c.sent, rc |-> c.rc,
           username |-> c.username]
  BY <1>1 DEF Clients
<1>4. p \in [payload : Seq(Bytes), packet_length : Nat]
  BY <1>2, ClientFields
<1>5. m \in Clients
  BY <1>3, <1>4, ClientFields DEF Clients
<1>6. m.state = c.state /\ m.sent = c.sent /\ m.rc = c.rc /\ m.in_packet = p
  BY <1>3
<1> QED  BY <1>5, <1>6 DEF m, w

-----------------------------------------------------------------------------
(***************************************************************************)
(* How far the handshake is: the client m, what the other end waits for, g *)
(* and the bytes s that are under way.  An answer is either not sent, or    *)
(* what has been read and what is under way are the whole of it.            *)
(***************************************************************************)
Last(m) == IF m.sent = <<>> THEN "nothing" ELSE m.sent[Len(m.sent)]

AtGreeting(m, g, s) ==
  /\ m.state = "socks5_start" /\ Last(m) \in {"greet", "greet_userpass"}
  /\ m.in_packet.packet_length = 2 /\ Len(m.in_packet.payload) < 2
  /\ \/ g = "greeting" /\ m.in_packet.payload = <<>> /\ s = <<>>
     \/ g # "greeting" /\ Len(m.in_packet.payload) + Len(s) = 2

AtUserpass(m, g, s) ==
  /\ m.state = "socks5_userpass_reply" /\ Last(m) = "userpass" /\ g # "greeting"
  /\ m.in_packet.packet_length = 2 /\ Len(m.in_packet.payload) < 2
  /\ \/ m.in_packet.payload = <<>> /\ s = <<>>
     \/ g # "userpass" /\ Len(m.in_packet.payload) + Len(s) = 2

\* The first part of the reply, or the second.
InParts(m, type) ==
  \/ m.in_packet.packet_length = 5 /\ Len(m.in_packet.payload) < 5
  \/ /\ m.in_packet.packet_length = Whole(type)
     /\ 5 <= Len(m.in_packet.payload) /\ Len(m.in_packet.payload) < Whole(type)

AtRequest(m, g, s) ==
  /\ m.state = "socks5_request" /\ Last(m) = "request" /\ g # "greeting"
  /\ \/ m.in_packet.packet_length = 5 /\ m.in_packet.payload = <<>> /\ s = <<>>
     \/ /\ g # "request"
        /\ \E type \in {IPv4, DomainName, IPv6} :
             ReplyOf(type, m.in_packet.payload, s) /\ InParts(m, type)

Beyond(m, g, s) ==
  /\ m.state \in {"new", "connected", "active"} /\ Last(m) \in {"CONNECT", "DISCONNECT"}
  /\ g # "greeting"
  /\ \A i \in 1..Len(s) : s[i].from # "proxy"

Flow(m, g, s) ==
  \/ AtGreeting(m, g, s)
  \/ AtUserpass(m, g, s)
  \/ AtRequest(m, g, s)
  \/ Beyond(m, g, s)

LEMMA LastIs ==
  ASSUME NEW q \in Seq(Messages), NEW message \in Messages, NEW m,
         m.sent = Append(q, message)
  PROVE  Last(m) = message
<1>1. /\ Append(q, message) # <<>>
      /\ Append(q, message)[Len(Append(q, message))] = message
  OBVIOUS
<1> QED  BY <1>1 DEF Last

\* A message that was queued leaves the client waiting for the answer to it.
LEMMA AskedFlows ==
  ASSUME NEW c \in Clients, NEW m, NEW g, g # "greeting"
  PROVE  /\ Asked(m, c, "userpass", "socks5_userpass_reply", 2) =>
              Flow(m, g, <<>>) /\ Sized(m) /\ m \in Clients
         /\ Asked(m, c, "request", "socks5_request", 5) =>
              Flow(m, g, <<>>) /\ Sized(m) /\ m \in Clients
<1>1. c.sent \in Seq(Messages) /\ "userpass" \in Messages /\ "request" \in Messages
  BY ClientFields DEF Messages
<1>2. ASSUME Asked(m, c, "userpass", "socks5_userpass_reply", 2)
      PROVE  Flow(m, g, <<>>) /\ Sized(m) /\ m \in Clients
  <2>1. Last(m) = "userpass"
    BY <1>1, <1>2, LastIs DEF Asked
  <2>2. Len(m.in_packet.payload) = 0
    BY <1>2 DEF Asked
  <2> QED  BY <1>2, <2>1, <2>2 DEF Asked, Flow, AtUserpass, Sized
<1>3. ASSUME Asked(m, c, "request", "socks5_request", 5)
      PROVE  Flow(m, g, <<>>) /\ Sized(m) /\ m \in Clients
  <2>1. Last(m) = "request"
    BY <1>1, <1>3, LastIs DEF Asked
  <2>2. Len(m.in_packet.payload) = 0
    BY <1>3 DEF Asked
  <2> QED  BY <1>3, <2>1, <2>2 DEF Asked, Flow, AtRequest, Sized
<1> QED  BY <1>2, <1>3

\* socks5__read takes n of the bytes under way.
LEMMA ReadMoves ==
  ASSUME NEW c \in Clients, NEW s \in Seq(Bytes), NEW g, Flow(c, g, s), Sized(c),
         c.state \in Awaiting, NEW n \in 1..Len(s), n <= ToProcess(c)
  PROVE  /\ Socks5Read(c, SubSeq(s, 1, n)) \in Clients
         /\ Sized(Socks5Read(c, SubSeq(s, 1, n)))
         /\ \/ Socks5Read(c, SubSeq(s, 1, n)).rc # "SUCCESS"
            \/ Flow(Socks5Read(c, SubSeq(s, 1, n)), g, SubSeq(s, n + 1, Len(s)))
<1> DEFINE a == SubSeq(s, 1, n)
           z == SubSeq(s, n + 1, Len(s))
           t == [c EXCEPT !.in_packet.payload = @ \o a]
           r == Socks5Read(c, a)
           p == c.in_packet.payload
           Good == r \in Clients /\ Sized(r) /\ (r.rc # "SUCCESS" \/ Flow(r, g, z))
<1> SUFFICES Good
  OBVIOUS
<1>1. /\ a \in Seq(Bytes) /\ Len(a) = n
      /\ z \in Seq(Bytes) /\ Len(z) = Len(s) - n
  BY SplitFacts
<1>2. p \in Seq(Bytes) /\ c.in_packet.packet_length \in Nat /\ Len(s) \in Nat /\ n \in Nat
      /\ n >= 1 /\ s # <<>> /\ Len(p) \in Nat /\ c.sent \in Seq(Messages)
  BY ClientFields
<1>3. /\ t \in Clients /\ t.state = c.state /\ t.sent = c.sent /\ t.rc = c.rc
      /\ t.in_packet.payload = p \o a
      /\ t.in_packet.packet_length = c.in_packet.packet_length
  BY <1>1, TookIs
<1>4. Len(p \o a) = Len(p) + n
  BY <1>1, <1>2
<1>5. /\ ToProcess(t) > 0 => r = t
      /\ ToProcess(t) = 0 /\ c.state = "socks5_start" => r = ReadMethod(t)
      /\ ToProcess(t) = 0 /\ c.state = "socks5_userpass_reply" => r = ReadStatus(t)
      /\ ToProcess(t) = 0 /\ c.state = "socks5_request" => r = ReadReply(t)
  BY DEF Socks5Read
<1>7. Last(t) = Last(c)
  BY <1>3 DEF Last
<1>8. \A type : ReplyOf(type, p, s) => ReplyOf(type, t.in_packet.payload, z)
  BY <1>2, <1>3, ReplyMoves
<1>9. ~Beyond(c, g, s)
  BY DEF Beyond, Awaiting
<1> HIDE DEF a, z, t, r
<1>6. ToProcess(t) = c.in_packet.packet_length - (Len(p) + n) /\ ToProcess(t) \in Int
      /\ ToProcess(t) >= 0
  <2>1. Len(t.in_packet.payload) = Len(p) + n
    BY <1>3, <1>4
  <2>2. ToProcess(t) = t.in_packet.packet_length - Len(t.in_packet.payload)
        /\ ToProcess(c) = c.in_packet.packet_length - Len(p)
    BY DEF ToProcess
  <2> HIDE DEF p
  <2>3. ToProcess(t) = c.in_packet.packet_length - (Len(p) + n)
    BY <1>3, <2>1, <2>2
  <2>4. n <= c.in_packet.packet_length - Len(p)
    BY <2>2
  <2> QED  BY <1>2, <2>3, <2>4
<1>10. CASE ToProcess(t) > 0
  <2>1. r = t /\ Len(t.in_packet.payload) = Len(p) + n
        /\ Len(p) + n < t.in_packet.packet_length
    BY <1>2, <1>3, <1>4, <1>5, <1>6, <1>10
  <2>2. r \in Clients /\ Sized(r)
    <3>1. Len(t.in_packet.payload) <= t.in_packet.packet_length
      BY <1>2, <1>3, <2>1
    <3> QED  BY <1>3, <2>1, <3>1 DEF Sized
  <2>3. CASE AtGreeting(c, g, s)
    <3>1. AtGreeting(t, g, z)
      BY <1>1, <1>2, <1>3, <1>7, <2>1, <2>3 DEF AtGreeting
    <3> QED  BY <2>1, <2>2, <3>1 DEF Flow
  <2>4. CASE AtUserpass(c, g, s)
    <3>1. AtUserpass(t, g, z)
      BY <1>1, <1>2, <1>3, <1>7, <2>1, <2>4 DEF AtUserpass
    <3> QED  BY <2>1, <2>2, <3>1 DEF Flow
  <2>5. CASE AtRequest(c, g, s)
    <3>1. PICK type \in {IPv4, DomainName, IPv6} : ReplyOf(type, p, s) /\ InParts(c, type)
      BY <1>2, <2>5 DEF AtRequest
    <3>2. ReplyOf(type, t.in_packet.payload, z)
      BY <1>8, <3>1
    <3>3. Whole(type) \in {6, 10, 22}
      BY TypeFacts
    <3>4. InParts(t, type)
      BY <1>2, <1>3, <2>1, <3>1, <3>3 DEF InParts
    <3>5. AtRequest(t, g, z)
      BY <1>2, <1>3, <1>7, <2>5, <3>2, <3>4 DEF AtRequest
    <3> QED  BY <2>1, <2>2, <3>5 DEF Flow
  <2> QED  BY <1>9, <2>3, <2>4, <2>5 DEF Flow
<1>11. CASE ToProcess(t) = 0
  <2>1. Len(t.in_packet.payload) = c.in_packet.packet_length
        /\ Len(p) + n = c.in_packet.packet_length
    <3>1. Len(t.in_packet.payload) = Len(p) + n
      BY <1>3, <1>4
    <3>2. Len(p) + n = c.in_packet.packet_length
      <4> HIDE DEF p
      <4> QED  BY <1>2, <1>6, <1>11
    <3> QED  BY <3>1, <3>2
  <2>2. Refused(r) => Good
    BY DEF Refused
  <2>3. ASSUME g # "greeting", z = <<>>
        PROVE  /\ Asked(r, t, "userpass", "socks5_userpass_reply", 2) => Good
               /\ Asked(r, t, "request", "socks5_request", 5) => Good
    BY <1>3, <2>3, AskedFlows
  <2>4. CASE AtGreeting(c, g, s)
    <3>1. g # "greeting" /\ Len(p) + Len(s) = 2 /\ c.in_packet.packet_length = 2
          /\ c.state = "socks5_start"
      BY <1>2, <2>4 DEF AtGreeting
    <3>2. Len(z) = 0
      BY <1>1, <1>2, <2>1, <3>1
    <3>3. z = <<>>
      BY <1>1, <3>2
    <3>4. r = ReadMethod(t)
      BY <1>5, <1>11, <3>1
    <3> QED  BY <1>3, <2>2, <2>3, <3>1, <3>3, <3>4, MethodIs
  <2>5. CASE AtUserpass(c, g, s)
    <3>1. g # "greeting" /\ Len(p) + Len(s) = 2 /\ c.in_packet.packet_length = 2
          /\ c.state = "socks5_userpass_reply"
      BY <1>2, <2>5 DEF AtUserpass
    <3>2. Len(z) = 0
      BY <1>1, <1>2, <2>1, <3>1
    <3>3. z = <<>>
      BY <1>1, <3>2
    <3>4. r = ReadStatus(t)
      BY <1>5, <1>11, <3>1
    <3> QED  BY <1>3, <2>2, <2>3, <3>1, <3>3, <3>4, StatusIs
  <2>6. CASE AtRequest(c, g, s)
    <3>1. g # "greeting" /\ g # "request" /\ c.state = "socks5_request"
          /\ Last(c) = "request"
      BY <1>2, <2>6 DEF AtRequest
    <3>2. PICK type \in {IPv4, DomainName, IPv6} : ReplyOf(type, p, s) /\ InParts(c, type)
      BY <1>2, <2>6 DEF AtRequest
    <3>3. ReplyOf(type, t.in_packet.payload, z)
      BY <1>8, <3>2
    <3>4. /\ Whole(type) \in {6, 10, 22} /\ Total(type) \in {8, 10, 22}
          /\ type # DomainName => Total(type) = Whole(type)
          /\ type = DomainName => Whole(type) = 6
      BY TypeFacts
    <3>5. r = ReadReply(t)
      BY <1>5, <1>11, <3>1
    <3>6. CASE c.in_packet.packet_length = 5
      <4>1. t.in_packet.packet_length = 5 /\ Len(t.in_packet.payload) = 5
        BY <1>3, <2>1, <3>6
      <4>2. Byte(t, 3) = type /\ 5 + More(t) = Whole(type)
        BY <1>3, <3>3, <4>1, MoreIs
      <4>3. 5 + More(t) \in Nat
        BY <3>4, <4>2
      <4>4. \/ Refused(r)
            \/ /\ r \in Clients /\ r.state = t.state /\ r.sent = t.sent
               /\ r.in_packet.payload = t.in_packet.payload
               /\ r.in_packet.packet_length = Whole(type)
        <5>1. \/ Refused(r)
              \/ /\ 5 + More(t) \in Nat =>
                      /\ r \in Clients /\ r.state = t.state /\ r.sent = t.sent /\ r.rc = t.rc
                      /\ r.in_packet.payload = t.in_packet.payload
                      /\ r.in_packet.packet_length = 5 + More(t)
              \/ t.in_packet.packet_length > 5
          <6>1. t \in Clients /\ t.in_packet.packet_length >= 5
            BY <1>3, <4>1
          <6> QED  BY <3>5, <6>1, ReplyIs
        <5>2. ~(t.in_packet.packet_length > 5)
          BY <4>1
        <5> QED  BY <4>2, <4>3, <5>1, <5>2
      <4>5. ASSUME r \in Clients, r.state = t.state, r.sent = t.sent,
                   r.in_packet.payload = t.in_packet.payload,
                   r.in_packet.packet_length = Whole(type)
            PROVE  Good
        <5>1. Len(r.in_packet.payload) = 5 /\ r.in_packet.packet_length \in {6, 10, 22}
              /\ r.in_packet.packet_length = Whole(type)
          BY <3>4, <4>1, <4>5
        <5>2. InParts(r, type)
          BY <3>4, <5>1 DEF InParts
        <5>3. Sized(r)
          BY <5>1 DEF Sized
        <5>4. Last(r) = "request"
          BY <1>7, <3>1, <4>5 DEF Last
        <5>5. AtRequest(r, g, z)
          BY <1>3, <3>1, <3>3, <4>5, <5>2, <5>4 DEF AtRequest
        <5> QED  BY <4>5, <5>3, <5>5 DEF Flow
      <4> QED  BY <2>2, <4>4, <4>5
    <3>7. CASE c.in_packet.packet_length # 5
      <4>1. t.in_packet.packet_length = Whole(type) /\ Whole(type) > 5
            /\ Len(t.in_packet.payload) = Whole(type)
        BY <1>3, <2>1, <3>2, <3>4, <3>7 DEF InParts
      <4>2. \/ Refused(r)
            \/ /\ r \in Clients /\ r.state = "new" /\ r.sent = Append(t.sent, "CONNECT")
               /\ Sized(r)
        <5>1. t.in_packet.packet_length >= 5 /\ t.in_packet.packet_length # 5
          BY <3>4, <4>1
        <5> QED  BY <1>3, <3>5, <5>1, ReplyIs
      <4>3. \A i \in 1..Len(z) : z[i].from # "proxy"
        <5> SUFFICES ASSUME NEW i \in 1..Len(z) PROVE z[i].from # "proxy"
          OBVIOUS
        <5>1. Whole(type) + Len(z) = Total(type)
          BY <3>3, <4>1 DEF ReplyOf
        <5>2. Len(z) \in Nat /\ i \in Nat /\ i >= 1 /\ i <= Len(z)
          BY <1>1
        <5>3. type = DomainName /\ Whole(type) + i > 6
          BY <3>4, <5>1, <5>2
        <5>4. Fits(type, Whole(type) + i, z[i])
          BY <3>3, <4>1 DEF ReplyOf
        <5> QED  BY <5>3, <5>4 DEF Fits
      <4>4. ASSUME r \in Clients, r.state = "new", r.sent = Append(t.sent, "CONNECT"), Sized(r)
            PROVE  Good
        <5>1. Last(r) = "CONNECT"
          BY <1>2, <1>3, <4>4, LastIs DEF Messages
        <5>2. Beyond(r, g, z)
          BY <3>1, <4>3, <4>4, <5>1 DEF Beyond
        <5> QED  BY <4>4, <5>2 DEF Flow
      <4> QED  BY <2>2, <4>2, <4>4
    <3> QED  BY <3>6, <3>7
  <2> QED  BY <1>9, <2>4, <2>5, <2>6 DEF Flow
<1> QED  BY <1>6, <1>10, <1>11

-----------------------------------------------------------------------------
(***************************************************************************)
(* The fields of the client that the loop writes.                          *)
(***************************************************************************)
LEMMA StateIs ==
  ASSUME NEW c \in Clients, NEW state \in States, NEW m, m = [c EXCEPT !.state = state]
  PROVE  /\ m \in Clients /\ m.state = state /\ m.in_packet = c.in_packet
         /\ m.sent = c.sent /\ m.rc = c.rc
<1>1. m = [state |-> state, in_packet |-> c.in_packet, sent |-> c.sent, rc |-> c.rc,
           username |-> c.username]
  BY DEF Clients
<1> QED  BY <1>1, ClientFields DEF Clients

LEMMA ResultIs ==
  ASSUME NEW c \in Clients, NEW rc \in Results, NEW m, m = [c EXCEPT !.rc = rc]
  PROVE  /\ m \in Clients /\ m.state = c.state /\ m.in_packet = c.in_packet
         /\ m.sent = c.sent /\ m.rc = rc
<1>1. m = [state |-> c.state, in_packet |-> c.in_packet, sent |-> c.sent, rc |-> rc,
           username |-> c.username]
  BY DEF Clients
<1> QED  BY <1>1, ClientFields DEF Clients

LEMMA NothingIs ==
  /\ Nothing \in Clients /\ Nothing.state = "new" /\ Nothing.rc = "SUCCESS"
  /\ Nothing.sent = <<>> /\ Nothing.in_packet = EmptyPacket
  /\ EmptyPacket.payload = <<>> /\ EmptyPacket.packet_length = 0
<1>1. EmptyPacket \in [payload : Seq(Bytes), packet_length : Nat]
      /\ EmptyPacket.payload = <<>> /\ EmptyPacket.packet_length = 0
  BY DEF EmptyPacket
<1>2. <<>> \in Seq(Messages) /\ "new" \in States /\ "SUCCESS" \in Results
  BY DEF States, Results
<1>3. \A b \in BOOLEAN :
        LET m == [state |-> "new", in_packet |-> EmptyPacket, sent |-> <<>>,
                  rc |-> "SUCCESS", username |-> b]
        IN  m \in Clients /\ m.state = "new" /\ m.rc = "SUCCESS" /\ m.sent = <<>>
            /\ m.in_packet = EmptyPacket
  BY <1>1, <1>2 DEF Clients
<1>4. (proxy = "username") \in BOOLEAN
  OBVIOUS
<1> QED  BY <1>1, <1>3, <1>4 DEF Nothing

-----------------------------------------------------------------------------
(***************************************************************************)
(* Attempts at the addresses, and mosquitto__reconnect.                    *)
(***************************************************************************)
\* The tries leave one socket open if the last connects, and none otherwise.
LEMMA AttemptLeaves ==
  ASSUME NEW tries \in Attempts
  PROVE  /\ TrySocket(tries) \in {"none", "low", "high"}
         /\ LeftBy(tries) = IF TrySocket(tries) = "none" THEN 0 ELSE 1
<1> DEFINE left == {i \in DOMAIN tries : LeftOpen(tries[i])}
<1>1. PICK n \in 0..Addresses : tries \in [1..n -> Outcomes]
  BY DEF Attempts
<1>2. \A i \in DOMAIN tries : tries[i] \in Connected => i = Len(tries)
  BY DEF Attempts
<1>3. n \in Nat /\ tries \in Seq(Outcomes) /\ Len(tries) = n /\ DOMAIN tries = 1..n
  BY <1>1, BoundsAssumption
<1>4. \A i \in 1..n : LeftOpen(tries[i]) <=> tries[i] \in {"low", "high"}
  BY DEF LeftOpen, Connected
<1>5. CASE tries # <<>> /\ tries[n] \in {"low", "high"}
  <2>1. n \in 1..n
    BY <1>3, <1>5
  <2>2. left = {n}
    BY <1>2, <1>3, <1>4, <1>5, <2>1 DEF Connected
  <2>3. Cardinality(left) = 1
    BY <2>2, FS_Singleton
  <2>4. TrySocket(tries) = tries[n]
    BY <1>3, <1>5 DEF TrySocket, Connected
  <2> QED  BY <1>5, <2>3, <2>4 DEF LeftBy
<1>6. CASE ~(tries # <<>> /\ tries[n] \in {"low", "high"})
  <2>1. left = {}
    <3> SUFFICES ASSUME NEW i \in 1..n, LeftOpen(tries[i]) PROVE FALSE
      BY <1>3
    <3>1. i = n /\ tries[n] \in {"low", "high"}
      BY <1>2, <1>3, <1>4 DEF Connected
    <3>2. tries # <<>>
      BY <1>3
    <3> QED  BY <1>6, <3>1, <3>2
  <2>2. Cardinality(left) = 0
    BY <2>1, FS_EmptySet
  <2>3. TrySocket(tries) = "none"
    BY <1>3, <1>6 DEF TrySocket, Connected
  <2> QED  BY <2>2, <2>3 DEF LeftBy
<1> QED  BY <1>5, <1>6

\* What holds of the client and the other end.
Together(m, g, s, open) == m \in Clients /\ Sized(m) /\ s \in Seq(Bytes) /\ (open => Flow(m, g, s))

\* The tables of the client are new after mosquitto__reconnect.
LEMMA ReconnectIs ==
  ASSUME Types, NoDescriptorLeaks, NEW tries \in Attempts, Reconnect(tries)
  PROVE  /\ Together(mosq', stage', stream', sock' # "none")
         /\ sock' \in {"none", "low", "high"} /\ gone' \in {"no", "eof", "reset", "silent"}
         /\ descriptors' = IF sock' = "none" THEN 0 ELSE 1
         /\ faults' \in 0..MaxFaults
<1>1. /\ sock' = TrySocket(tries) /\ sock' \in {"none", "low", "high"}
      /\ LeftBy(tries) = IF sock' = "none" THEN 0 ELSE 1
  BY AttemptLeaves DEF Reconnect
<1>2. descriptors' = IF sock' = "none" THEN 0 ELSE 1
  BY <1>1 DEF Reconnect, NoDescriptorLeaks
<1>3. faults' \in 0..MaxFaults
  <2>1. faults \in 0..MaxFaults /\ MaxFaults \in Nat
    BY BoundsAssumption DEF Types
  <2>2. (faults' = faults \/ faults' = faults + 1) /\ faults' <= MaxFaults
    BY DEF Reconnect
  <2> QED  BY <2>1, <2>2
<1>4. stream' = <<>> /\ gone' = "no"
  BY DEF Reconnect
<1>5. CASE sock' = "none"
  <2>1. mosq' = [Nothing EXCEPT !.state = "connect_pending", !.rc = "ERRNO"]
    BY <1>1, <1>5 DEF Reconnect
  <2>2. mosq' = [state |-> "connect_pending", in_packet |-> EmptyPacket, sent |-> <<>>,
                 rc |-> "ERRNO", username |-> Nothing.username]
    BY <2>1, NothingIs DEF Clients
  <2>3. mosq' \in Clients
    BY <2>2, NothingIs DEF Clients, States, Results
  <2>4. Sized(mosq')
    BY <2>2, NothingIs DEF Sized
  <2> QED  BY <1>2, <1>3, <1>4, <1>5, <2>3, <2>4 DEF Together
<1>6. CASE sock' # "none" /\ HasProxy
  <2>1. mosq' = Socks5Send([Nothing EXCEPT !.state = "socks5_new"]) /\ stage' = "greeting"
    BY <1>1, <1>6 DEF Reconnect
  <2> DEFINE d == [Nothing EXCEPT !.state = "socks5_new"]
  <2>2. d \in Clients /\ d.state = "socks5_new" /\ d.sent = <<>>
    <3>1. "socks5_new" \in States
      BY DEF States, SocksStates
    <3> QED  BY <3>1, NothingIs, StateIs
  <2> HIDE DEF d
  <2>3. Asked(mosq', d, Greeting(d), "socks5_start", 2)
    BY <2>1, <2>2, SendIs DEF d
  <2>4. Greeting(d) \in {"greet", "greet_userpass"} /\ Greeting(d) \in Messages
    BY DEF Greeting, Messages
  <2>5. Last(mosq') = Greeting(d)
    BY <2>2, <2>3, <2>4, LastIs, ClientFields DEF Asked
  <2>6. Len(mosq'.in_packet.payload) = 0 /\ mosq'.in_packet.packet_length = 2
        /\ mosq'.in_packet.payload = <<>> /\ mosq' \in Clients /\ mosq'.state = "socks5_start"
    BY <2>3 DEF Asked
  <2>7. AtGreeting(mosq', stage', stream') /\ Sized(mosq')
    BY <1>4, <2>1, <2>4, <2>5, <2>6 DEF AtGreeting, Sized
  <2> QED  BY <1>1, <1>2, <1>3, <1>4, <2>6, <2>7 DEF Together, Flow
<1>7. CASE sock' # "none" /\ ~HasProxy
  <2>1. mosq' = [Nothing EXCEPT !.state = "connected", !.sent = <<"CONNECT">>]
        /\ stage' = "CONNECT"
    BY <1>1, <1>7 DEF Reconnect
  <2>2. mosq' = [state |-> "connected", in_packet |-> EmptyPacket, sent |-> <<"CONNECT">>,
                 rc |-> Nothing.rc, username |-> Nothing.username]
    BY <2>1, NothingIs DEF Clients
  <2>3. <<"CONNECT">> \in Seq(Messages) /\ <<"CONNECT">> # <<>> /\ Len(<<"CONNECT">>) = 1
    BY DEF Messages
  <2>4. mosq' \in Clients
    BY <2>2, <2>3, NothingIs DEF Clients, States
  <2>5. Sized(mosq') /\ mosq'.state = "connected" /\ mosq'.sent = <<"CONNECT">>
    BY <2>2, NothingIs DEF Sized
  <2>6. Beyond(mosq', stage', stream')
    BY <1>4, <2>1, <2>3, <2>5 DEF Beyond, Last
  <2> QED  BY <1>1, <1>2, <1>3, <1>4, <2>4, <2>5, <2>6 DEF Together, Flow
<1> QED  BY <1>5, <1>6, <1>7

-----------------------------------------------------------------------------
(***************************************************************************)
(* The delays.                                                             *)
(***************************************************************************)
LEMMA LargerFactor ==
  ASSUME NEW d \in Nat, NEW a \in Nat, NEW b \in Nat, a <= b
  PROVE  d * a <= d * b /\ d * a \in Nat
OBVIOUS

\* What is wanted after r attempts.
WantedAfter(r) ==
  CASE backoff.reconnect_delay_max <= backoff.reconnect_delay -> backoff.reconnect_delay
    [] backoff.reconnect_delay_max > backoff.reconnect_delay /\ backoff.exponential ->
         backoff.reconnect_delay * (r + 1) * (r + 1)
    [] OTHER -> backoff.reconnect_delay * (r + 1)

LEMMA WantedGrows ==
  ASSUME Types, NEW r \in Nat
  PROVE  WantedAfter(r) \in Nat /\ WantedAfter(r) <= WantedAfter(r + 1)
<1> DEFINE d == backoff.reconnect_delay
<1>1. d \in Nat /\ backoff.reconnect_delay_max \in Nat /\ backoff.exponential \in BOOLEAN
  BY BackoffsAssumption DEF Types
<1> HIDE DEF d
<1>2. d * (r + 1) <= d * (r + 2) /\ d * (r + 1) \in Nat /\ d * (r + 2) \in Nat
  BY <1>1, LargerFactor
<1>3. (d * (r + 1)) * (r + 1) <= (d * (r + 2)) * (r + 2) /\ (d * (r + 1)) * (r + 1) \in Nat
  <2> DEFINE a == d * (r + 1)
             b == d * (r + 2)
  <2>1. a \in Nat /\ b \in Nat /\ a <= b
    BY <1>2
  <2> HIDE DEF a, b
  <2>2. a * (r + 1) <= a * (r + 2) /\ a * (r + 1) \in Nat
    BY <2>1, LargerFactor
  <2>3. (r + 2) * a <= (r + 2) * b
    BY <2>1, LargerFactor
  <2>4. a * (r + 2) = (r + 2) * a /\ b * (r + 2) = (r + 2) * b
    BY <2>1
  <2>5. a * (r + 2) \in Nat /\ b * (r + 2) \in Nat
    BY <2>1, LargerFactor
  <2>6. a * (r + 1) <= b * (r + 2)
    BY <2>2, <2>3, <2>4, <2>5
  <2> QED  BY <2>2, <2>6 DEF a, b
<1>4. (r + 1) + 1 = r + 2
  OBVIOUS
<1>5. CASE backoff.reconnect_delay_max <= d
  BY <1>1, <1>5 DEF WantedAfter, d
<1>6. CASE backoff.reconnect_delay_max > d /\ backoff.exponential
  <2>1. ~(backoff.reconnect_delay_max <= d)
    BY <1>1, <1>6
  <2>2. /\ WantedAfter(r) = (d * (r + 1)) * (r + 1)
        /\ WantedAfter(r + 1) = (d * (r + 2)) * (r + 2)
    BY <1>4, <1>6, <2>1 DEF WantedAfter, d
  <2> QED  BY <1>3, <2>2
<1>7. CASE backoff.reconnect_delay_max > d /\ ~backoff.exponential
  <2>1. ~(backoff.reconnect_delay_max <= d)
    BY <1>1, <1>7
  <2>2. WantedAfter(r) = d * (r + 1) /\ WantedAfter(r + 1) = d * (r + 2)
    BY <1>4, <1>7, <2>1 DEF WantedAfter, d
  <2> QED  BY <1>2, <2>2
<1> QED  BY <1>1, <1>5, <1>6, <1>7

LEMMA DelayIs ==
  ASSUME Types
  PROVE  /\ Wanted \in Nat /\ Delay \in Nat /\ Count \in Nat
         /\ Wanted = WantedAfter(reconnects) /\ Delay <= backoff.reconnect_delay_max
<1>1. Wanted = WantedAfter(reconnects)
  BY DEF Wanted, WantedAfter
<1>2. reconnects \in Nat /\ backoff.reconnect_delay_max \in Nat
  BY BackoffsAssumption DEF Types
<1>3. Wanted \in Nat
  BY <1>1, <1>2, WantedGrows
<1> QED  BY <1>1, <1>2, <1>3 DEF Delay, Count


-----------------------------------------------------------------------------
(***************************************************************************)
(* The client, what is under way and the sockets agree.                    *)
(***************************************************************************)
Sound ==
  /\ Types
  /\ Sized(mosq)
  /\ NoDescriptorLeaks
  /\ Open => Flow(mosq, stage, stream)

LEMMA FlowStates ==
  ASSUME NEW m, NEW g, NEW s, Flow(m, g, s)
  PROVE  /\ m.state \in {"socks5_start", "socks5_userpass_reply", "socks5_request", "new",
                         "connected", "active"}
         /\ m.state \in {"new", "connected", "active"} => Beyond(m, g, s)
BY DEF Flow, AtGreeting, AtUserpass, AtRequest, Beyond

LEMMA InitSound ==
  ASSUME Init
  PROVE  Sound /\ LossIsRetried
<1>1. Types
  <2>1. mosq \in Clients
    BY NothingIs DEF Init
  <2> QED  BY <2>1, BoundsAssumption DEF Init, Types
<1>2. Sized(mosq)
  BY NothingIs DEF Init, Sized
<1> QED  BY <1>1, <1>2 DEF Init, Sound, NoDescriptorLeaks, Open, LossIsRetried

\* The loop closes the socket, and gives up for what is fatal.
LEMMA FailureSound ==
  ASSUME Sound, sock = "low", pc = "loop", NEW c \in Clients, Sized(c), NEW why,
         LoopFails(c, why), stream' \in Seq(Bytes),
         c.rc \in Fatal => why \in {"refused", "misread", "high", "eof"}
  PROVE  Sound' /\ LossIsRetried'
<1>1. sock' = "none" /\ descriptors' = 0
  BY DEF LoopFails, Sound, NoDescriptorLeaks, Open
<1>2. mosq' \in Clients /\ Sized(mosq')
  <2>1. mosq' = c \/ mosq' = [c EXCEPT !.state = "disconnected"]
    BY DEF LoopFails, OnDisconnect
  <2>2. CASE mosq' = [c EXCEPT !.state = "disconnected"]
    <3>1. "disconnected" \in States
      BY DEF States
    <3> QED  BY <2>2, <3>1, StateIs DEF Sized
  <2> QED  BY <2>1, <2>2
<1>3. /\ pc' \in {"loop", "returned", "backoff"}
      /\ pc' = "returned" => c.state # "disconnected" /\ c.rc \in Fatal
  <2>1. LoopReturns(IF c.state = "disconnected" THEN "SUCCESS" ELSE c.rc)
    BY DEF LoopFails
  <2>2. \A rc : LoopReturns(rc) =>
          /\ pc' \in {"loop", "returned", "backoff"}
          /\ pc' = "returned" => rc # "SUCCESS" /\ rc \in Fatal
    <3> SUFFICES ASSUME NEW rc, LoopReturns(rc)
                 PROVE  /\ pc' \in {"loop", "returned", "backoff"}
                        /\ pc' = "returned" => rc # "SUCCESS" /\ rc \in Fatal
      OBVIOUS
    <3>1. CASE rc = "SUCCESS"
      BY <3>1 DEF LoopReturns, Fatal
    <3>2. CASE rc # "SUCCESS" /\ rc \in Fatal
      BY <3>2 DEF LoopReturns
    <3>3. CASE rc # "SUCCESS" /\ rc \notin Fatal
      BY <3>3 DEF LoopReturns
    <3> QED  BY <3>1, <3>2, <3>3
  <2>3. CASE c.state = "disconnected"
    BY <2>1, <2>2, <2>3
  <2>4. CASE c.state # "disconnected"
    BY <2>1, <2>2, <2>4
  <2> QED  BY <2>3, <2>4
<1>4. Types'
  BY <1>1, <1>2, <1>3 DEF LoopFails, settings, Sound, Types
<1>5. LossIsRetried'
  BY <1>3 DEF LoopFails, LossIsRetried
<1> QED  BY <1>1, <1>2, <1>4, <1>5 DEF Sound, NoDescriptorLeaks, Open

LEMMA ReadsSound ==
  ASSUME Sound, LossIsRetried,
         (\E n \in 1..22 : ReadHandshake(n)) \/ ReadConnack \/ ReadRefusal \/ Misread
         \/ ReadGone \/ KeepaliveCloses \/ WriteDisconnect
  PROVE  Sound' /\ LossIsRetried'
<1>1. mosq \in Clients /\ stream \in Seq(Bytes) /\ Sized(mosq) /\ Types
  BY DEF Sound, Types
<1>2. \A rc \in Results : LET m == [mosq EXCEPT !.rc = rc] IN
        m \in Clients /\ Sized(m) /\ m.rc = rc
  BY <1>1, ResultIs DEF Sized
<1>3. stream # <<>> => Tail(stream) \in Seq(Bytes)
  BY <1>1
<1>4. ASSUME NEW n \in 1..22, ReadHandshake(n)
      PROVE  Sound' /\ LossIsRetried'
  <2> DEFINE c == Socks5Read(mosq, SubSeq(stream, 1, n))
  <2>1. /\ sock = "low" /\ pc = "loop" /\ Flow(mosq, stage, stream) /\ mosq.state \in Awaiting
        /\ n \in 1..Len(stream) /\ n <= ToProcess(mosq)
        /\ stream' = SubSeq(stream, n + 1, Len(stream))
    BY <1>4 DEF ReadHandshake, Sound, Open
  <2>2. c \in Clients /\ Sized(c) /\ (c.rc # "SUCCESS" \/ Flow(c, stage, stream'))
    BY <1>1, <2>1, ReadMoves
  <2>3. stream' \in Seq(Bytes)
    BY <1>1, <2>1, SplitFacts
  <2>4. CASE c.rc = "SUCCESS"
    <3>1. /\ mosq' = c
          /\ UNCHANGED <<settings, sock, descriptors, reconnects, pc, delay, stage, gone,
                         faults, asked, cause>>
      BY <1>4, <2>4 DEF ReadHandshake
    <3> HIDE DEF c
    <3>2. Types'
      BY <1>1, <2>2, <2>3, <3>1 DEF Types, settings
    <3>3. Sized(mosq') /\ Flow(mosq', stage', stream')
      BY <2>2, <2>4, <3>1
    <3>4. NoDescriptorLeaks'
      BY <3>1 DEF Sound, NoDescriptorLeaks, Open
    <3>5. LossIsRetried'
      BY <2>1, <3>1 DEF LossIsRetried
    <3> QED  BY <3>2, <3>3, <3>4, <3>5 DEF Sound
  <2>5. CASE c.rc # "SUCCESS"
    <3>1. LoopFails(c, "refused")
      BY <1>4, <2>5 DEF ReadHandshake
    <3> HIDE DEF c
    <3> QED  BY <2>1, <2>2, <2>3, <3>1, FailureSound
  <2> QED  BY <2>4, <2>5
<1>5. CASE ReadConnack
  <2>1. /\ sock = "low" /\ pc = "loop" /\ ~Proxied /\ Flow(mosq, stage, stream)
        /\ stream # <<>> /\ stream' = Tail(stream)
        /\ reconnects' = 0 /\ delay' = 0
        /\ UNCHANGED <<settings, sock, descriptors, pc, stage, gone, faults, cause>>
    BY <1>5 DEF ReadConnack, Sound, Open
  <2>2. Beyond(mosq, stage, stream)
    BY <2>1, FlowStates DEF Proxied, SocksStates
  <2>3. /\ mosq' \in Clients /\ mosq'.state = "active" /\ mosq'.in_packet = mosq.in_packet
        /\ Last(mosq') \in {"CONNECT", "DISCONNECT"}
    <3>1. "active" \in States /\ "DISCONNECT" \in Messages
      BY DEF States, Messages
    <3>2. CASE mosq' = [mosq EXCEPT !.state = "active"]
      BY <1>1, <2>2, <3>1, <3>2, StateIs DEF Beyond, Last
    <3>3. CASE mosq' = [mosq EXCEPT !.state = "active", !.sent = Append(@, "DISCONNECT")]
      <4>1. mosq' = [state |-> "active", in_packet |-> mosq.in_packet,
                     sent |-> Append(mosq.sent, "DISCONNECT"), rc |-> mosq.rc,
                     username |-> mosq.username]
        BY <1>1, <3>3 DEF Clients
      <4>2. Append(mosq.sent, "DISCONNECT") \in Seq(Messages)
        BY <1>1, <3>1, ClientFields
      <4>3. mosq' \in Clients
        BY <1>1, <3>1, <4>1, <4>2, ClientFields DEF Clients
      <4>4. mosq.sent \in Seq(Messages) /\ mosq'.sent = Append(mosq.sent, "DISCONNECT")
        BY <1>1, <4>1, ClientFields
      <4>5. Last(mosq') = "DISCONNECT"
        BY <3>1, <4>4, LastIs
      <4> QED  BY <4>1, <4>3, <4>5
    <3> QED  BY <1>5, <3>2, <3>3 DEF ReadConnack
  <2>4. \A i \in 1..Len(stream') : stream'[i].from # "proxy"
    BY <1>1, <2>1, <2>2, TailFacts DEF Beyond
  <2>5. Flow(mosq', stage', stream')
    BY <2>1, <2>2, <2>3, <2>4 DEF Flow, Beyond
  <2>6. Sized(mosq')
    BY <1>1, <2>3 DEF Sized
  <2>7. Types'
    BY <1>1, <1>3, <2>1, <2>3 DEF Types, settings
  <2>8. LossIsRetried' /\ NoDescriptorLeaks'
    BY <2>1 DEF LossIsRetried, Sound, NoDescriptorLeaks, Open
  <2> QED  BY <2>5, <2>6, <2>7, <2>8 DEF Sound
<1>6. CASE ReadRefusal
  <2> DEFINE rc == IF Head(stream).v \in 1..5 THEN "CONN_REFUSED" ELSE "PROTOCOL"
  <2>1. /\ sock = "low" /\ pc = "loop" /\ stream' \in Seq(Bytes)
        /\ LoopFails([mosq EXCEPT !.rc = rc], "refused") /\ rc \in Results
    BY <1>3, <1>6 DEF ReadRefusal, Results
  <2> HIDE DEF rc
  <2> QED  BY <1>2, <2>1, FailureSound
<1>7. CASE Misread
  <2>1. /\ sock = "low" /\ pc = "loop" /\ stream' \in Seq(Bytes)
        /\ LoopFails([mosq EXCEPT !.rc = "PROTOCOL"], "misread") /\ "PROTOCOL" \in Results
    BY <1>3, <1>7 DEF Misread, Results
  <2> QED  BY <1>2, <2>1, FailureSound
<1>8. CASE ReadGone
  <2>1. sock = "low" /\ pc = "loop" /\ stream' \in Seq(Bytes) /\ gone \in {"eof", "reset"}
    BY <1>1, <1>8 DEF ReadGone
  <2>2. CASE mosq.state \in Awaiting
    <3> DEFINE c == Socks5Gone(mosq, gone)
               rc == IF gone = "eof" THEN "PROXY" ELSE "CONN_LOST"
    <3>1. LoopFails(c, gone)
      BY <1>8, <2>2 DEF ReadGone
    <3>2. c = Fail(mosq, rc) /\ rc \in Results /\ (gone # "eof" => rc \notin Fatal)
      BY DEF Socks5Gone, Results, Fatal
    <3>3. c \in Clients /\ Sized(c) /\ c.rc = rc
      BY <1>1, <3>2, FailIs, FailSized
    <3> HIDE DEF c, rc
    <3> QED  BY <2>1, <3>1, <3>2, <3>3, FailureSound
  <2>3. CASE mosq.state \notin Awaiting
    <3>1. LoopFails([mosq EXCEPT !.rc = "CONN_LOST"], "lost") /\ "CONN_LOST" \in Results
          /\ "CONN_LOST" \notin Fatal
      BY <1>8, <2>3 DEF ReadGone, Results, Fatal
    <3> QED  BY <1>2, <2>1, <3>1, FailureSound
  <2> QED  BY <2>2, <2>3
<1>9. CASE KeepaliveCloses
  <2>1. /\ sock = "low" /\ pc = "loop" /\ stream' \in Seq(Bytes)
        /\ LoopFails([mosq EXCEPT !.rc = "KEEPALIVE"], "lost") /\ "KEEPALIVE" \in Results
        /\ "KEEPALIVE" \notin Fatal
    BY <1>1, <1>9 DEF KeepaliveCloses, Results, Fatal
  <2> QED  BY <1>2, <2>1, FailureSound
<1>10. CASE WriteDisconnect
  <2>1. /\ mosq' = [mosq EXCEPT !.state = "disconnected"] /\ "disconnected" \in States
        /\ sock = "low" /\ sock' = "none" /\ descriptors' = descriptors - 1
        /\ UNCHANGED <<settings, reconnects, pc, delay, netVars, asked, cause>>
    BY <1>10 DEF WriteDisconnect, States
  <2>2. mosq' \in Clients /\ Sized(mosq') /\ mosq'.state = "disconnected"
    BY <1>1, <2>1, StateIs DEF Sized
  <2>3. Types'
    BY <1>1, <2>1, <2>2 DEF Types, settings, netVars
  <2>4. NoDescriptorLeaks' /\ ~Open'
    BY <2>1 DEF Sound, NoDescriptorLeaks, Open
  <2>5. LossIsRetried'
    BY <2>2 DEF LossIsRetried, Disconnected
  <2> QED  BY <2>2, <2>3, <2>4, <2>5 DEF Sound
<1> QED  BY <1>4, <1>5, <1>6, <1>7, <1>8, <1>9, <1>10

LEMMA ReconnectsSound ==
  ASSUME Sound, LossIsRetried, NEW tries \in Attempts, Connect(tries) \/ Backoff(tries)
  PROVE  Sound' /\ LossIsRetried'
<1>1. Reconnect(tries)
  BY DEF Connect, Backoff
<1>2. /\ Together(mosq', stage', stream', sock' # "none")
      /\ sock' \in {"none", "low", "high"} /\ gone' \in {"no", "eof", "reset", "silent"}
      /\ descriptors' = IF sock' = "none" THEN 0 ELSE 1
      /\ faults' \in 0..MaxFaults
  BY <1>1, ReconnectIs DEF Sound
<1>3. pc' \in {"loop", "backoff"} /\ UNCHANGED settings
  BY DEF Connect, Backoff
<1>4. Wanted \in Nat /\ Delay \in Nat /\ Count \in Nat
  BY DelayIs DEF Sound
<1>5. reconnects' \in Nat /\ delay' \in Nat
  BY <1>4 DEF Connect, Backoff, Sound, Types
<1>6. Types'
  BY <1>2, <1>3, <1>5 DEF Types, Sound, settings, Together
<1>7. LossIsRetried'
  BY <1>3 DEF LossIsRetried
<1> QED  BY <1>2, <1>6, <1>7 DEF Sound, Together, NoDescriptorLeaks, Open

-----------------------------------------------------------------------------
(***************************************************************************)
(* What the other end sends.                                               *)
(***************************************************************************)
LEMMA FromProxyIs ==
  ASSUME NEW values \in Seq(0..255)
  PROVE  /\ FromProxy(values) \in Seq(Bytes) /\ Len(FromProxy(values)) = Len(values)
         /\ \A i \in 1..Len(values) : FromProxy(values)[i].v = values[i]
<1>1. \A b \in 0..255 : [from |-> "proxy", v |-> b] \in Bytes
  BY DEF Bytes
<1>2. Len(values) \in Nat /\ \A i \in 1..Len(values) : values[i] \in 0..255
  <2>1. \A S : \A q \in Seq(S) : Len(q) \in Nat /\ \A i \in 1..Len(q) : q[i] \in S
    OBVIOUS
  <2> QED  BY <2>1
<1>3. FromProxy(values) = [i \in 1..Len(values) |-> [from |-> "proxy", v |-> values[i]]]
  BY DEF FromProxy
<1>4. FromProxy(values) \in [1..Len(values) -> Bytes] /\ Len(values) \in Nat
  <2> DEFINE f == [i \in 1..Len(values) |-> [from |-> "proxy", v |-> values[i]]]
  <2>1. \A i \in 1..Len(values) : [from |-> "proxy", v |-> values[i]] \in Bytes
    BY <1>1, <1>2
  <2>2. f \in [1..Len(values) -> Bytes]
    BY <2>1
  <2> QED  BY <1>2, <1>3, <2>2
<1> QED  BY <1>2, <1>3, <1>4

\* The address and the port.
LEMMA BoundIs ==
  ASSUME NEW type \in {IPv4, DomainName, IPv6}
  PROVE  /\ Bound(type) \in Seq(Bytes) /\ Len(Bound(type)) = Total(type) - 4
         /\ type = DomainName =>
              /\ Bound(type)[1].v = 1
              /\ \A i \in 1..Len(Bound(type)) : i > 2 => Bound(type)[i].from # "proxy"
<1>1. CASE type = IPv4
  <2>1. <<0, 0, 0, 0, 0, 0>> \in Seq(0..255) /\ Len(<<0, 0, 0, 0, 0, 0>>) = 6
    OBVIOUS
  <2>2. Bound(type) = FromProxy(<<0, 0, 0, 0, 0, 0>>) /\ Total(type) = 10
    BY <1>1 DEF Bound, Total, IPv4, IPv6, DomainName
  <2>3. type # DomainName
    BY <1>1 DEF IPv4, DomainName
  <2>4. Bound(type) \in Seq(Bytes) /\ Len(Bound(type)) = 6
    BY <2>1, <2>2, FromProxyIs
  <2> QED  BY <2>2, <2>3, <2>4
<1>2. CASE type = IPv6
  <2> DEFINE w == [i \in 1..18 |-> 0]
  <2>1. w \in Seq(0..255) /\ Len(w) = 18
    OBVIOUS
  <2>2. Bound(type) = FromProxy(w) /\ Total(type) = 22
    BY <1>2 DEF Bound, Total, IPv4, IPv6, DomainName
  <2>3. type # DomainName
    BY <1>2 DEF IPv6, DomainName
  <2> HIDE DEF w
  <2>4. Bound(type) \in Seq(Bytes) /\ Len(Bound(type)) = 18
    BY <2>1, <2>2, FromProxyIs
  <2> QED  BY <2>2, <2>3, <2>4
<1>3. CASE type = DomainName
  <2> DEFINE w == <<1, 0>>
             port == <<[from |-> "port", v |-> 0], [from |-> "port", v |-> 0]>>
  <2>1. w \in Seq(0..255) /\ Len(w) = 2 /\ w[1] = 1 /\ 1 \in 1..Len(w)
    OBVIOUS
  <2>2. /\ port \in Seq(Bytes) /\ Len(port) = 2
        /\ \A i \in 1..Len(port) : port[i].from # "proxy"
    <3>1. [from |-> "port", v |-> 0] \in Bytes
      BY DEF Bytes
    <3>2. port \in Seq(Bytes) /\ Len(port) = 2 /\ port[1].from = "port" /\ port[2].from = "port"
      BY <3>1
    <3> QED  BY <3>2
  <2>3. Bound(type) = FromProxy(w) \o port /\ Total(type) = 8
    BY <1>3 DEF Bound, Total, IPv4, IPv6, DomainName
  <2> HIDE DEF w, port
  <2> DEFINE f == FromProxy(w)
  <2>4. f \in Seq(Bytes) /\ Len(f) = 2 /\ f[1].v = 1 /\ 1 \in 1..Len(f)
    BY <2>1, FromProxyIs
  <2> HIDE DEF f
  <2>5. /\ f \o port \in Seq(Bytes) /\ Len(f \o port) = Len(f) + Len(port)
        /\ \A i \in 1..Len(f) : (f \o port)[i] = f[i]
        /\ \A i \in 1..Len(f \o port) :
             \/ i \in 1..Len(f) /\ (f \o port)[i] = f[i]
             \/ i - Len(f) \in 1..Len(port) /\ (f \o port)[i] = port[i - Len(f)]
    <3>1. f \in Seq(Bytes) /\ port \in Seq(Bytes)
      BY <2>2, <2>4
    <3> QED  BY ONLY <3>1, ConcatFacts
  <2>6. Bound(type) = f \o port
    BY <2>3 DEF f
  <2> QED  BY <2>2, <2>3, <2>4, <2>5, <2>6
<1> QED  BY <1>1, <1>2, <1>3

LEMMA WholeReply ==
  ASSUME NEW type \in {IPv4, DomainName, IPv6}, NEW code \in 0..255
  PROVE  LET reply == FromProxy(<<5, code, 0, type>>) \o Bound(type)
         IN  reply \in Seq(Bytes) /\ ReplyOf(type, <<>>, reply)
<1> DEFINE w == <<5, code, 0, type>>
           f == FromProxy(w)
           b == Bound(type)
           reply == f \o b
<1>1. w \in Seq(0..255) /\ Len(w) = 4 /\ w[4] = type
  BY DEF IPv4, IPv6, DomainName
<1> HIDE DEF w
<1>2. f \in Seq(Bytes) /\ Len(f) = 4 /\ f[4].v = type
  BY <1>1, FromProxyIs
<1>3. /\ b \in Seq(Bytes) /\ Len(b) = Total(type) - 4
      /\ type = DomainName =>
           b[1].v = 1 /\ \A i \in 1..Len(b) : i > 2 => b[i].from # "proxy"
  BY BoundIs
<1>4. Total(type) \in {8, 10, 22}
  BY TypeFacts
<1> HIDE DEF f, b
<1>5. /\ reply \in Seq(Bytes) /\ Len(reply) = Len(f) + Len(b)
      /\ \A i \in 1..Len(reply) :
           \/ i \in 1..Len(f) /\ reply[i] = f[i]
           \/ i - Len(f) \in 1..Len(b) /\ reply[i] = b[i - Len(f)]
  <2>1. f \in Seq(Bytes) /\ b \in Seq(Bytes)
    BY <1>2, <1>3
  <2> QED  BY ONLY <2>1, ConcatFacts DEF reply
<1> HIDE DEF reply
<1>6. Len(reply) = Total(type)
  BY <1>2, <1>3, <1>4, <1>5
<1>7. ASSUME NEW i \in 1..Len(reply) PROVE Fits(type, i, reply[i])
  <2>1. i \in Nat /\ i >= 1
    BY <1>5
  <2>2. CASE i \in 1..Len(f) /\ reply[i] = f[i]
    <3>1. i <= 4
      BY <1>2, <2>1, <2>2
    <3>2. i = 4 => reply[i].v = type
      BY <1>2, <2>2
    <3> QED  BY <2>1, <3>1, <3>2 DEF Fits
  <2>3. CASE i - Len(f) \in 1..Len(b) /\ reply[i] = b[i - Len(f)]
    <3>1. i - 4 \in 1..Len(b) /\ reply[i] = b[i - 4] /\ i > 4
      BY <1>2, <1>3, <2>1, <2>3
    <3>2. type = DomainName /\ i = 5 => reply[i].v = 1
      BY <1>3, <3>1
    <3>3. type = DomainName /\ i > 6 => reply[i].from # "proxy"
      <4> SUFFICES ASSUME type = DomainName, i > 6 PROVE reply[i].from # "proxy"
        OBVIOUS
      <4>1. i - 4 > 2
        BY <2>1
      <4> QED  BY <1>3, <3>1, <4>1
    <3> QED  BY <2>1, <3>1, <3>2, <3>3 DEF Fits
  <2> QED  BY <1>5, <2>2, <2>3
<1>8. \A i \in 1..Len(reply) : Len(<<>>) + i = i
  OBVIOUS
<1>9. ReplyOf(type, <<>>, reply)
  <2>1. Len(<<>>) = 0 /\ Len(<<>>) + Len(reply) = Total(type)
    BY <1>4, <1>6
  <2>2. \A i \in 1..Len(<<>>) : Fits(type, i, <<>>[i])
    BY <2>1
  <2>3. \A i \in 1..Len(reply) : Fits(type, Len(<<>>) + i, reply[i])
    BY <1>7, <1>8
  <2> QED  BY <2>1, <2>2, <2>3 DEF ReplyOf
<1> QED  BY <1>5, <1>9 DEF reply, f, b, w

\* Bytes that come when the client waits for them.
LEMMA SendsSound ==
  ASSUME Sound, LossIsRetried, NEW bytes \in Seq(Bytes), NEW next, NEW fault,
         Sends(bytes, next, fault), Flow(mosq, next, stream \o bytes)
  PROVE  Sound' /\ LossIsRetried'
<1>1. stream' \in Seq(Bytes) /\ stream' = stream \o bytes /\ stage' = next
  BY DEF Sends, Sound, Types
<1>2. faults' \in 0..MaxFaults
  <2>1. faults \in 0..MaxFaults /\ MaxFaults \in Nat
    BY BoundsAssumption DEF Sound, Types
  <2>2. (faults' = faults \/ faults' = faults + 1) /\ faults' <= MaxFaults
    BY DEF Sends
  <2> QED  BY <2>1, <2>2
<1>3. UNCHANGED <<settings, mosq, sock, descriptors, reconnects, pc, delay, gone, asked, cause>>
  BY DEF Sends
<1>4. Types'
  BY <1>1, <1>2, <1>3 DEF Sound, Types, settings
<1>5. Sized(mosq') /\ NoDescriptorLeaks' /\ Flow(mosq', stage', stream') /\ LossIsRetried'
  BY <1>1, <1>3
     DEF Sound, Sized, NoDescriptorLeaks, Open, LossIsRetried, Disconnected
<1> QED  BY <1>4, <1>5 DEF Sound

LEMMA PairIs ==
  ASSUME NEW x \in 0..255, NEW y \in 0..255
  PROVE  FromProxy(<<x, y>>) \in Seq(Bytes) /\ Len(FromProxy(<<x, y>>)) = 2
<1>1. <<x, y>> \in Seq(0..255) /\ Len(<<x, y>>) = 2
  OBVIOUS
<1> QED  BY <1>1, FromProxyIs

LEMMA AnswersSound ==
  ASSUME Sound, LossIsRetried, Answers
  PROVE  Sound' /\ LossIsRetried'
<1>1. mosq \in Clients /\ stream \in Seq(Bytes) /\ Last(mosq) = LastSent
  BY DEF Sound, Types, Last, LastSent
<1>2. \A bytes \in Seq(Bytes) : <<>> \o bytes = bytes
  OBVIOUS
<1>3. CASE ProxyChooses
  <2>1. Flow(mosq, stage, stream) /\ stage = "greeting"
    BY <1>3 DEF ProxyChooses, Sends, Sound
  <2>2. AtGreeting(mosq, stage, stream) /\ mosq.in_packet.payload = <<>> /\ stream = <<>>
    BY <2>1 DEF Flow, AtGreeting, AtUserpass, AtRequest, Beyond
  <2>3. ASSUME NEW x \in 0..255, NEW y \in 0..255, NEW next, next # "greeting", NEW fault,
               Sends(FromProxy(<<x, y>>), next, fault)
        PROVE  Sound' /\ LossIsRetried'
    <3> DEFINE bytes == FromProxy(<<x, y>>)
    <3>1. bytes \in Seq(Bytes) /\ Len(bytes) = 2 /\ Sends(bytes, next, fault)
      BY <2>3, PairIs
    <3> HIDE DEF bytes
    <3>2. stream \o bytes = bytes
      BY <1>2, <2>2, <3>1
    <3>3. Len(mosq.in_packet.payload) + Len(bytes) = 2
      BY <2>2, <3>1
    <3>4. Flow(mosq, next, stream \o bytes)
      BY <2>2, <2>3, <3>2, <3>3 DEF AtGreeting, Flow
    <3> QED  BY <3>1, <3>4, SendsSound
  <2>4. \/ Sends(FromProxy(<<5, 0>>), "request", FALSE)
        \/ Sends(FromProxy(<<5, 2>>), "userpass", FALSE)
        \/ Sends(FromProxy(<<5, 255>>), "nothing", TRUE)
        \/ Sends(FromProxy(<<4, 0>>), "nothing", TRUE)
    BY <1>3 DEF ProxyChooses, NoAuth, UserPass
  <2>5. /\ 0 \in 0..255 /\ 2 \in 0..255 /\ 4 \in 0..255 /\ 5 \in 0..255 /\ 255 \in 0..255
        /\ "request" # "greeting" /\ "userpass" # "greeting" /\ "nothing" # "greeting"
    OBVIOUS
  <2> QED  BY <2>3, <2>4, <2>5, Zenon
<1>4. CASE ProxyChecks
  <2>1. Flow(mosq, stage, stream) /\ stage = "userpass" /\ Last(mosq) = "userpass"
    BY <1>1, <1>4 DEF ProxyChecks, Sends, Sound
  <2>2. AtUserpass(mosq, stage, stream) /\ mosq.in_packet.payload = <<>> /\ stream = <<>>
    BY <2>1 DEF Flow, AtGreeting, AtUserpass, AtRequest, Beyond
  <2>3. ASSUME NEW x \in 0..255, NEW y \in 0..255, NEW next \in {"request", "nothing"},
               NEW fault, Sends(FromProxy(<<x, y>>), next, fault)
        PROVE  Sound' /\ LossIsRetried'
    <3> DEFINE bytes == FromProxy(<<x, y>>)
    <3>1. bytes \in Seq(Bytes) /\ Len(bytes) = 2 /\ Sends(bytes, next, fault)
      BY <2>3, PairIs
    <3> HIDE DEF bytes
    <3>2. stream \o bytes = bytes
      BY <1>2, <2>2, <3>1
    <3>3. Len(mosq.in_packet.payload) + Len(bytes) = 2
      BY <2>2, <3>1
    <3>4. Flow(mosq, next, stream \o bytes)
      BY <2>2, <3>2, <3>3 DEF AtUserpass, Flow
    <3> QED  BY <3>1, <3>4, SendsSound
  <2>4. \/ Sends(FromProxy(<<1, 0>>), "request", FALSE)
        \/ Sends(FromProxy(<<5, 0>>), "nothing", TRUE)
        \/ \E code \in 0..255 : Sends(FromProxy(<<1, code>>), "nothing", TRUE)
    BY <1>4, CodesAssumption DEF ProxyChecks
  <2>5. /\ 0 \in 0..255 /\ 1 \in 0..255 /\ 5 \in 0..255
        /\ "request" \in {"request", "nothing"} /\ "nothing" \in {"request", "nothing"}
    OBVIOUS
  <2> QED  BY <2>3, <2>4, <2>5, Zenon
<1>5. CASE ProxyConnects
  <2>1. Flow(mosq, stage, stream) /\ stage = "request" /\ Last(mosq) = "request"
    BY <1>1, <1>5 DEF ProxyConnects, Sends, Sound
  <2>2. /\ AtRequest(mosq, stage, stream) /\ mosq.in_packet.payload = <<>> /\ stream = <<>>
        /\ mosq.in_packet.packet_length = 5
    BY <2>1 DEF Flow, AtGreeting, AtUserpass, AtRequest, Beyond
  <2>3. ASSUME NEW type \in {IPv4, DomainName, IPv6}, NEW code \in 0..255,
               NEW next \in {"CONNECT", "nothing"}, NEW fault,
               Sends(FromProxy(<<5, code, 0, type>>) \o Bound(type), next, fault)
        PROVE  Sound' /\ LossIsRetried'
    <3> DEFINE bytes == FromProxy(<<5, code, 0, type>>) \o Bound(type)
    <3>1. bytes \in Seq(Bytes) /\ ReplyOf(type, <<>>, bytes) /\ Sends(bytes, next, fault)
      BY <2>3, WholeReply
    <3> HIDE DEF bytes
    <3>2. stream \o bytes = bytes
      BY <1>2, <2>2, <3>1
    <3>3. InParts(mosq, type)
      BY <2>2 DEF InParts
    <3>4. AtRequest(mosq, next, stream \o bytes)
      BY <2>1, <2>2, <3>1, <3>2, <3>3 DEF AtRequest
    <3>5. Flow(mosq, next, stream \o bytes)
      BY <3>4 DEF Flow
    <3> QED  BY <3>1, <3>5, SendsSound
  <2>4. PICK type \in {IPv4, DomainName, IPv6} :
          \/ Sends(FromProxy(<<5, 0, 0, type>>) \o Bound(type), "CONNECT", type = DomainName)
          \/ \E code \in 0..255 :
               Sends(FromProxy(<<5, code, 0, type>>) \o Bound(type), "nothing", TRUE)
    BY <1>5, BoundAsAssumption, CodesAssumption DEF ProxyConnects
  <2>5. CASE Sends(FromProxy(<<5, 0, 0, type>>) \o Bound(type), "CONNECT", type = DomainName)
    <3>1. 0 \in 0..255 /\ "CONNECT" \in {"CONNECT", "nothing"}
      OBVIOUS
    <3> QED  BY <2>3, <2>5, <3>1, Zenon
  <2>6. CASE \E code \in 0..255 :
               Sends(FromProxy(<<5, code, 0, type>>) \o Bound(type), "nothing", TRUE)
    BY <2>3, <2>6
  <2> QED  BY <2>4, <2>5, <2>6
<1>6. CASE BrokerAnswers
  <2>1. Flow(mosq, stage, stream) /\ Last(mosq) = "CONNECT"
    BY <1>1, <1>6 DEF BrokerAnswers, Sends, Sound
  <2>2. Beyond(mosq, stage, stream)
    BY <2>1 DEF Flow, AtGreeting, AtUserpass, AtRequest, Beyond
  <2>3. ASSUME NEW code \in 0..255, NEW fault,
               Sends(<<[from |-> "broker", v |-> code]>>, "nothing", fault)
        PROVE  Sound' /\ LossIsRetried'
    <3> DEFINE bytes == <<[from |-> "broker", v |-> code]>>
    <3>1. [from |-> "broker", v |-> code] \in Bytes
      BY DEF Bytes
    <3>2. bytes \in Seq(Bytes) /\ \A i \in 1..Len(bytes) : bytes[i].from # "proxy"
      BY <3>1
    <3>3. Sends(bytes, "nothing", fault)
      BY <2>3
    <3> HIDE DEF bytes
    <3>4. \A i \in 1..Len(stream \o bytes) :
            \/ i \in 1..Len(stream) /\ (stream \o bytes)[i] = stream[i]
            \/ i - Len(stream) \in 1..Len(bytes)
               /\ (stream \o bytes)[i] = bytes[i - Len(stream)]
      <4>1. stream \in Seq(Bytes) /\ bytes \in Seq(Bytes)
        BY <1>1, <3>2
      <4> QED  BY ONLY <4>1, ConcatFacts
    <3>5. \A i \in 1..Len(stream \o bytes) : (stream \o bytes)[i].from # "proxy"
      BY <2>2, <3>2, <3>4 DEF Beyond
    <3>6. Flow(mosq, "nothing", stream \o bytes)
      BY <2>2, <3>5 DEF Beyond, Flow
    <3> QED  BY <3>2, <3>3, <3>6, SendsSound
  <2>4. \/ Sends(<<[from |-> "broker", v |-> 0]>>, "nothing", FALSE)
        \/ \E code \in 0..255 : Sends(<<[from |-> "broker", v |-> code]>>, "nothing", TRUE)
    BY <1>6, CodesAssumption DEF BrokerAnswers
  <2>5. 0 \in 0..255
    OBVIOUS
  <2> QED  BY <2>3, <2>4, <2>5, Zenon
<1> QED  BY <1>3, <1>4, <1>5, <1>6 DEF Answers

-----------------------------------------------------------------------------
LEMMA NextSound ==
  ASSUME Sound, LossIsRetried, [Next]_vars
  PROVE  Sound' /\ LossIsRetried'
<1>1. CASE UNCHANGED vars
  BY <1>1 DEF vars, Sound, Types, Sized, NoDescriptorLeaks, Open, LossIsRetried, Disconnected
<1>2. CASE \E tries \in Attempts : Connect(tries) \/ Backoff(tries)
  BY <1>2, ReconnectsSound
<1>3. CASE \/ (\E n \in 1..22 : ReadHandshake(n)) \/ ReadConnack \/ ReadRefusal \/ Misread
           \/ ReadGone \/ KeepaliveCloses \/ WriteDisconnect
  BY <1>3, ReadsSound
<1>4. CASE Answers
  BY <1>4, AnswersSound
<1>5. CASE BackoffEnds
  <2>1. /\ pc' = "returned" /\ Disconnected
        /\ UNCHANGED <<settings, mosq, sock, descriptors, reconnects, delay, netVars, asked, cause>>
    BY <1>5 DEF BackoffEnds
  <2> QED  BY <2>1 DEF settings, netVars, Sound, Types, Sized, NoDescriptorLeaks, Open,
                       LossIsRetried, Disconnected
<1>6. CASE NoSocket
  <2>1. /\ pc' = "backoff"
        /\ UNCHANGED <<settings, mosq, sock, descriptors, reconnects, delay, netVars, asked, cause>>
    BY <1>6 DEF NoSocket, LoopReturns, Fatal
  <2> QED  BY <2>1 DEF settings, netVars, Sound, Types, Sized, NoDescriptorLeaks, Open,
                       LossIsRetried, Disconnected
<1>7. CASE HighSocket
  <2>1. /\ pc' = "returned" /\ cause' = "high"
        /\ UNCHANGED <<settings, mosq, sock, descriptors, reconnects, delay, netVars, asked>>
    BY <1>7 DEF HighSocket, LoopReturns, Fatal
  <2> QED  BY <2>1 DEF settings, netVars, Sound, Types, Sized, NoDescriptorLeaks, Open,
                       LossIsRetried, Disconnected
<1>8. CASE SelectFails
  <2>1. /\ pc' = "backoff" /\ faults' = faults + 1 /\ faults < MaxFaults
        /\ UNCHANGED <<settings, mosq, sock, descriptors, reconnects, delay, stage, stream,
                       gone, asked>>
    BY <1>8 DEF SelectFails, LoopReturns, Fatal
  <2>2. faults' \in 0..MaxFaults
    BY <2>1, BoundsAssumption DEF Sound, Types
  <2> QED  BY <2>1, <2>2 DEF settings, Sound, Types, Sized, NoDescriptorLeaks, Open,
                             LossIsRetried, Disconnected
<1>9. CASE \E how \in {"eof", "reset", "silent"} : Goes(how)
  <2>1. /\ gone' \in {"eof", "reset", "silent"} /\ faults' = faults + 1 /\ faults < MaxFaults
        /\ UNCHANGED <<settings, mosq, sock, descriptors, reconnects, pc, delay, stage, stream,
                       asked, cause>>
    BY <1>9 DEF Goes
  <2>2. faults' \in 0..MaxFaults
    BY <2>1, BoundsAssumption DEF Sound, Types
  <2> QED  BY <2>1, <2>2 DEF settings, Sound, Types, Sized, NoDescriptorLeaks, Open,
                             LossIsRetried, Disconnected
<1> QED  BY <1>1, <1>2, <1>3, <1>4, <1>5, <1>6, <1>7, <1>8, <1>9 DEF Next, Client, Faults

-----------------------------------------------------------------------------
\* The next delay of an outage is not below the last one.
Delays ==
  /\ delay <= Delay
  /\ pc = "app" => delay = 0

LEMMA InitDelays ==
  ASSUME Init, Types
  PROVE  Delays
<1>1. Delay \in Nat /\ delay = 0
  BY DelayIs DEF Init
<1> QED  BY <1>1 DEF Delays

LEMMA DelayAfter == Types' => (Delay \in Nat)'
<1>1. Types => Delay \in Nat
  BY DelayIs
<1> QED  BY <1>1, PTL

LEMMA DelaysKept ==
  ASSUME Types, Types', Delays, [Next]_vars
  PROVE  /\ Delays'
         /\ delay' # delay /\ delay' # 0 =>
              delay <= delay' /\ delay' <= backoff.reconnect_delay_max
<1>1. /\ Wanted \in Nat /\ Delay \in Nat /\ Wanted = WantedAfter(reconnects)
      /\ Delay <= backoff.reconnect_delay_max /\ backoff.reconnect_delay_max \in Nat
      /\ reconnects \in Nat /\ delay \in Nat
  BY DelayIs, BackoffsAssumption DEF Types
<1>2. ASSUME delay' = delay, reconnects' = reconnects, backoff' = backoff,
             pc' = "app" => pc = "app"
      PROVE  Delays'
  <2>1. Delay' = Delay
    BY <1>2 DEF Delay, Wanted
  <2> QED  BY <1>2, <2>1 DEF Delays
<1>3. ASSUME delay' = 0, pc' # "app"
      PROVE  Delays'
  <2>1. Delay' \in Nat
    BY DelayAfter
  <2> QED  BY <1>3, <2>1 DEF Delays
<1>4. ASSUME NEW tries \in Attempts, Connect(tries)
      PROVE  delay' = 0 /\ pc' # "app" /\ delay' = delay
  BY <1>4 DEF Connect, Delays
<1>5. ASSUME NEW tries \in Attempts, Backoff(tries)
      PROVE  Delays' /\ delay <= delay' /\ delay' <= backoff.reconnect_delay_max
  <2>1. delay' = Delay /\ reconnects' = Count /\ backoff' = backoff /\ pc' # "app"
    BY <1>5 DEF Backoff, settings
  <2>2. Delay' = IF WantedAfter(reconnects') > backoff.reconnect_delay_max
                 THEN backoff.reconnect_delay_max ELSE WantedAfter(reconnects')
    BY <2>1 DEF Delay, Wanted, WantedAfter
  <2>3. Delay = IF Wanted > backoff.reconnect_delay_max
                THEN backoff.reconnect_delay_max ELSE Wanted
    BY DEF Delay
  <2>4. CASE Wanted > backoff.reconnect_delay_max
    <3>1. reconnects' = reconnects
      BY <2>1, <2>4 DEF Count
    <3>2. Delay' = Delay
      BY <1>1, <2>2, <2>3, <3>1
    <3> QED  BY <1>1, <2>1, <3>2 DEF Delays
  <2>5. CASE ~(Wanted > backoff.reconnect_delay_max)
    <3>1. reconnects' = reconnects + 1 /\ Delay = Wanted
      BY <2>1, <2>3, <2>5 DEF Count
    <3> DEFINE w == WantedAfter(reconnects + 1)
    <3>2. Wanted <= w /\ w \in Nat
      BY <1>1, WantedGrows
    <3>3. Delay' = IF w > backoff.reconnect_delay_max THEN backoff.reconnect_delay_max ELSE w
      BY <2>2, <3>1
    <3> HIDE DEF w
    <3>4. Delay <= Delay'
      BY <1>1, <2>5, <3>1, <3>2, <3>3
    <3> QED  BY <1>1, <2>1, <3>4 DEF Delays
  <2> QED  BY <2>4, <2>5
<1>6. ASSUME ReadConnack
      PROVE  delay' = 0 /\ (pc' # "app")
  BY <1>6 DEF ReadConnack
<1>7. ASSUME \/ UNCHANGED vars \/ BackoffEnds \/ (\E n \in 1..22 : ReadHandshake(n))
             \/ ReadRefusal \/ Misread \/ ReadGone \/ KeepaliveCloses \/ WriteDisconnect
             \/ NoSocket \/ HighSocket \/ Answers \/ Faults
      PROVE  delay' = delay /\ reconnects' = reconnects /\ backoff' = backoff
             /\ (pc' = "app" => pc = "app")
  <2>1. \A rc : LoopReturns(rc) => pc' # "app"
    <3> SUFFICES ASSUME NEW rc, LoopReturns(rc) PROVE pc' # "app"
      OBVIOUS
    <3>1. CASE rc = "SUCCESS"
      BY <3>1 DEF LoopReturns, Fatal
    <3>2. CASE rc # "SUCCESS" /\ rc \in Fatal
      BY <3>2 DEF LoopReturns
    <3>3. CASE rc # "SUCCESS" /\ rc \notin Fatal
      BY <3>3 DEF LoopReturns
    <3> QED  BY <3>1, <3>2, <3>3
  <2>2. \A c, why : LoopFails(c, why) =>
          /\ delay' = delay /\ reconnects' = reconnects /\ backoff' = backoff
          /\ pc' # "app"
    BY <2>1 DEF LoopFails, settings
  <2>3. \A bytes, next, fault : Sends(bytes, next, fault) =>
          /\ delay' = delay /\ reconnects' = reconnects /\ backoff' = backoff /\ pc' = pc
    BY DEF Sends, settings
  <2>4. CASE UNCHANGED vars
    BY <2>4 DEF vars
  <2>5. CASE BackoffEnds \/ NoSocket \/ HighSocket \/ WriteDisconnect
    BY <2>1, <2>5 DEF BackoffEnds, NoSocket, HighSocket, WriteDisconnect, settings
  <2>6. ASSUME NEW n \in 1..22, ReadHandshake(n)
        PROVE  delay' = delay /\ reconnects' = reconnects /\ backoff' = backoff
               /\ (pc' = "app" => pc = "app")
    <3>1. \/ UNCHANGED <<settings, sock, descriptors, reconnects, pc, delay, stage, gone,
                         faults, asked, cause>>
          \/ LoopFails(Socks5Read(mosq, SubSeq(stream, 1, n)), "refused")
      BY <2>6 DEF ReadHandshake
    <3> QED  BY <2>2, <3>1 DEF settings
  <2>7. CASE ReadRefusal \/ Misread \/ ReadGone \/ KeepaliveCloses
    <3>1. \E c, why : LoopFails(c, why)
      BY <2>7 DEF ReadRefusal, Misread, ReadGone, KeepaliveCloses
    <3> QED  BY <2>2, <3>1
  <2>8. CASE Answers
    <3>1. \E bytes, next, fault : Sends(bytes, next, fault)
      BY <2>8 DEF Answers, ProxyChooses, ProxyChecks, ProxyConnects, BrokerAnswers
    <3> QED  BY <2>3, <3>1
  <2>9. CASE Faults
    BY <2>1, <2>9 DEF Faults, SelectFails, Goes, settings
  <2> QED  BY <1>7, <2>4, <2>5, <2>6, <2>7, <2>8, <2>9
<1>8. CASE \E tries \in Attempts : Connect(tries)
  BY <1>3, <1>4, <1>8
<1>9. CASE \E tries \in Attempts : Backoff(tries)
  BY <1>5, <1>9
<1>10. CASE ReadConnack
  BY <1>3, <1>6, <1>10
<1>11. CASE \/ UNCHANGED vars \/ BackoffEnds \/ (\E n \in 1..22 : ReadHandshake(n))
            \/ ReadRefusal \/ Misread \/ ReadGone \/ KeepaliveCloses \/ WriteDisconnect
            \/ NoSocket \/ HighSocket \/ Answers \/ Faults
  BY <1>2, <1>7, <1>11
<1> QED  BY <1>8, <1>9, <1>10, <1>11 DEF Next, Client

-----------------------------------------------------------------------------
(***************************************************************************)
(* The theorems.                                                           *)
(***************************************************************************)
IInv == Sound /\ LossIsRetried /\ Delays

LEMMA Inductive ==
  ASSUME IInv, [Next]_vars
  PROVE  /\ IInv'
         /\ delay' # delay /\ delay' # 0 =>
              delay <= delay' /\ delay' <= backoff.reconnect_delay_max
<1>1. Sound' /\ LossIsRetried'
  BY NextSound DEF IInv
<1>2. Types /\ Types' /\ Delays
  BY <1>1 DEF Sound, IInv
<1> QED  BY <1>1, <1>2, DelaysKept DEF IInv

LEMMA Invariance == Spec => []IInv
<1>1. Init => IInv
  BY InitSound, InitDelays DEF IInv, Sound
<1>2. IInv /\ [Next]_vars => IInv'
  BY Inductive
<1> QED  BY <1>1, <1>2, PTL DEF Spec

\* The fields keep their types; an answer of the proxy is never longer than the
\* 22 bytes of an IPv6 reply and is never read beyond its length.
THEOREM TypeCorrect == Spec => []TypeOK
<1>1. IInv => TypeOK
  <2> SUFFICES ASSUME IInv PROVE TypeOK
    OBVIOUS
  <2>1. Types /\ Sized(mosq) /\ NoDescriptorLeaks
    BY DEF IInv, Sound
  <2>2. mosq.state \in States
    BY <2>1, ClientFields DEF Types
  <2> QED  BY <2>1, <2>2 DEF TypeOK, Types, Sized, NoDescriptorLeaks, States
<1> QED  BY <1>1, Invariance, PTL

\* However many addresses are tried and attempts fail, the process holds one
\* descriptor for a connected client and none otherwise.
THEOREM NoLeaks == Spec => []NoDescriptorLeaks
<1>1. IInv => NoDescriptorLeaks
  BY DEF IInv, Sound
<1> QED  BY <1>1, Invariance, PTL

\* When CONNECT has been sent nothing of the proxy's handshake is left unread,
\* but the port behind a domain name: the answer read so far and the bytes under
\* way always make up one whole answer.
THEOREM HandshakeRead == Spec => []HandshakeIsWhole
<1>1. IInv => HandshakeIsWhole
  <2> SUFFICES ASSUME IInv, Open, mosq.state \in {"new", "connected", "active"}
               PROVE  \A i \in DOMAIN stream : stream[i].from # "proxy"
    BY DEF HandshakeIsWhole
  <2>1. Beyond(mosq, stage, stream) /\ stream \in Seq(Bytes)
    BY FlowStates DEF IInv, Sound, Types
  <2> QED  BY <2>1 DEF Beyond
<1> QED  BY <1>1, Invariance, PTL

\* mosquitto_loop_forever returns for a refusal, a byte that is not MQTT, a
\* socket that select cannot take or a proxy that closes, never for another loss.
THEOREM LossRetried == Spec => []LossIsRetried
<1>1. IInv => LossIsRetried
  BY DEF IInv
<1> QED  BY <1>1, Invariance, PTL

\* For every setting of mosquitto_reconnect_delay_set the delays of an outage
\* grow up to the limit.
THEOREM DelaysNeverShrink == Spec => DelaysGrow
<1>1. IInv /\ [Next]_vars =>
        [delay' # delay /\ delay' # 0 =>
           delay <= delay' /\ delay' <= backoff.reconnect_delay_max]_vars
  BY Inductive
<1> QED  BY <1>1, Invariance, PTL DEF Spec, DelaysGrow

===============================================================================
