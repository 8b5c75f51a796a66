-------------------------- MODULE RilSessionProofs --------------------------
(***************************************************************************)
(* libril's requests and sessions, for any number of connections, requests,*)
(* heap blocks and threads of the vendor RIL.                              *)
(***************************************************************************)
EXTENDS RilSession, RilWatchProofs

Inboxes == Seq(Kinds \X Tokens)
Sockets == [by : Clients \X {"phone", "silent", "stranger"}, port : {"rild", "debug"},
            st : {"none", "queued", "accepted", "open", "closed"}, peer : BOOLEAN,
            sent : Nat, inbox : Inboxes]
Blocks == [tok : Tokens, client : Clients, cancelled : BOOLEAN, local : BOOLEAN]
Completions == [pc : {"idle", "dequeue", "choose", "write"}, addr : Addrs \cup {NULL},
                tok : Tokens \cup {<<0, 0>>}, client : Clients, fd : ConnFds \cup {-1},
                left : Nat]

SockTypes ==
    /\ conn \in [Conns -> Sockets]
    /\ fdOwner \in [ConnFds -> Conns \cup {NoConn}]
    /\ s_fdCommand \in [Clients -> ConnFds \cup {-1}]
    /\ rs \in [Clients \cup {New} -> ConnFds]
    /\ lpc = "debug" => DebugAccepted # {}
ReqTypes ==
    /\ req \in [Addrs -> Blocks \cup {Free}] /\ pendingReqs \subseteq Addrs
    /\ jobs \subseteq [addr : Addrs, tok : Tokens, again : BOOLEAN]
    /\ thr \in [Threads -> Completions]
    /\ \A t \in Threads : thr[t].pc = "write" => thr[t].fd \in ConnFds
    /\ \A t \in VendorThreads : thr[t].pc \in {"choose", "write"} => thr[t].addr # NULL
    /\ answers \in [Tokens -> Seq(Conns)]
Types == SockTypes /\ ReqTypes

(* The requests of a connection are numbered; the input buffer holds the   *)
(* last of them, in order.                                                 *)
Taken(k) == conn[k].sent - Len(conn[k].inbox)
Numbered ==
    \A k \in Conns :
        /\ Len(conn[k].inbox) <= conn[k].sent
        /\ \A i \in 1 .. Len(conn[k].inbox) : conn[k].inbox[i][2] = <<k, Taken(k) + i>>
        /\ conn[k].st = "none" => conn[k].sent = 0

(* A client's request is in one block, or is being refused, or has been    *)
(* answered.                                                               *)
Read(tok) == tok[2] \in 1 .. Taken(tok[1])
Live(a) == req[a] # Free /\ ~req[a].local
Refusing == thr[Loop].pc \in {"choose", "write"} /\ thr[Loop].addr = NULL
OneHolder ==
    /\ \A a \in Addrs : Live(a) => Read(req[a].tok)
    /\ Refusing => thr[Loop].tok \in Tokens /\ Read(thr[Loop].tok)
    /\ \A tok \in Tokens : answers[tok] # <<>> => Read(tok)
    /\ \A a, b \in Addrs : Live(a) /\ Live(b) /\ a # b => req[a].tok # req[b].tok
    /\ \A a \in Addrs : Live(a) /\ Refusing => req[a].tok # thr[Loop].tok
    /\ \A tok \in Tokens : answers[tok] # <<>> =>
         (\A a \in Addrs : Live(a) => req[a].tok # tok) /\ (Refusing => thr[Loop].tok # tok)
AnswersLive == \A t \in Threads : Answering(t) => ~req[thr[t].addr].local
ReqInv == Types /\ OneOwner
HolderInv == ReqInv /\ Numbered /\ AnswersLive /\ OneHolder /\ AtMostOneAnswer

-----------------------------------------------------------------------------
(* The choices the code makes by scanning are well defined.                *)
LEMMA FdChosen == FreeFds # {} => LowestFd(FreeFds) \in FreeFds
<1> SUFFICES ASSUME FreeFds # {} PROVE LowestFd(FreeFds) \in FreeFds
    OBVIOUS
<1>1. FreeFds \in SUBSET Nat
  BY SessionAssumption, WatchAssumption DEF FreeFds, ConnFds
<1>2. \E f \in FreeFds : \A g \in FreeFds : f <= g
  BY <1>1, LeastExists
<1> QED
  BY <1>2 DEF LowestFd

(* accept() takes one of the connections that wait.                        *)
LEMMA ConnChosen == ASSUME NEW port, Queued(port) # {} PROVE FirstQueued(port) \in Queued(port)
<1>1. Queued(port) \in SUBSET Nat
  BY SessionAssumption DEF Queued, Conns
<1>2. \E k \in Queued(port) : \A j \in Queued(port) : k <= j
  BY <1>1, LeastExists
<1> QED
  BY <1>2 DEF FirstQueued

(* There is a debug connection to serve.                                   *)
LEMMA DebugChosen == DebugAccepted # {} => DebugConn \in Conns
<1> SUFFICES ASSUME DebugAccepted # {} PROVE DebugConn \in DebugAccepted
    BY DEF DebugAccepted
<1>1. DebugAccepted \in SUBSET (0 .. NumConns) /\ NumConns \in Nat
  BY SessionAssumption DEF DebugAccepted, Conns
<1>2. \E k \in DebugAccepted : \A j \in DebugAccepted : j <= k
  BY <1>1, GreatestExists
<1> QED
  BY <1>2 DEF DebugConn

(* An input buffer is finite.                                              *)
LEMMA InboxLen == \A b \in Inboxes : Len(b) \in Nat
BY DEF Inboxes

(* A connection of the debug socket that was accepted.                     *)
Served(s) == s.port = "debug" /\ s.st \in {"open", "closed"}

(* What a step does to the connections: each is moved on, and none is      *)
(* asked to give a request twice.                                          *)
ConnMoves ==
    /\ conn' \in [Conns -> Sockets] /\ Numbered'
    /\ \A k \in Conns : Taken(k)' \in Nat /\ Taken(k) <= Taken(k)'
    /\ DebugAccepted \subseteq DebugAccepted'

(* A step that leaves the connections alone.                               *)
LEMMA ConnSame ==
    ASSUME Types, Numbered, UNCHANGED conn
    PROVE  ConnMoves
<1>1. \A k \in Conns : conn[k].sent \in Nat /\ Len(conn[k].inbox) \in Nat
  BY InboxLen DEF Types, SockTypes, Sockets
<1> QED
  BY <1>1 DEF Types, SockTypes, ConnMoves, Numbered, Taken, DebugAccepted

(* A step that changes one connection, and keeps its numbering.            *)
LEMMA ConnUpdate ==
    ASSUME Types, Numbered, NEW k \in Conns, NEW s \in Sockets,
           conn' = [conn EXCEPT ![k] = s],
           Len(s.inbox) <= s.sent,
           \A i \in 1 .. Len(s.inbox) : s.inbox[i][2] = <<k, (s.sent - Len(s.inbox)) + i>>,
           s.st = "none" => s.sent = 0,
           Taken(k) <= s.sent - Len(s.inbox), Served(conn[k]) => Served(s)
    PROVE  ConnMoves
<1>1. \A j \in Conns : conn[j].sent \in Nat /\ Len(conn[j].inbox) \in Nat
  BY InboxLen DEF Types, SockTypes, Sockets
<1>2. s.sent \in Nat /\ Len(s.inbox) \in Nat
  BY InboxLen DEF Sockets
<1>3. conn' \in [Conns -> Sockets] /\ conn'[k] = s /\ \A j \in Conns : j # k => conn'[j] = conn[j]
  BY DEF Types, SockTypes
<1>4. DebugAccepted \subseteq DebugAccepted'
  BY <1>3 DEF DebugAccepted, Served
<1>5. Numbered'
  BY <1>3 DEF Numbered, Taken
<1>6. \A j \in Conns : Taken(j)' \in Nat /\ Taken(j) <= Taken(j)'
  BY <1>1, <1>2, <1>3 DEF Numbered, Taken
<1> QED
  BY <1>3, <1>4, <1>5, <1>6 DEF ConnMoves

(* A connection changes its state, or loses its peer, or its input.        *)
LEMMA ConnState ==
    ASSUME Types, Numbered, NEW k \in Conns, NEW st \in {"accepted", "open", "closed"},
           Served(conn[k]) => st # "accepted",
           conn' = [conn EXCEPT ![k].st = st]
    PROVE  ConnMoves
<1> DEFINE s == [conn[k] EXCEPT !.st = st]
<1>1. conn[k] \in Sockets
  BY DEF Types, SockTypes
<1>2. /\ s \in Sockets /\ s.inbox = conn[k].inbox /\ s.sent = conn[k].sent /\ s.st = st
      /\ s.port = conn[k].port
  BY <1>1 DEF Sockets
<1>3. conn' = [conn EXCEPT ![k] = s]
  BY DEF Types, SockTypes
<1> HIDE DEF s
<1>4. /\ Len(s.inbox) <= s.sent /\ (s.st = "none" => s.sent = 0)
      /\ \A i \in 1 .. Len(s.inbox) : s.inbox[i][2] = <<k, (s.sent - Len(s.inbox)) + i>>
  BY <1>2 DEF Numbered, Taken
<1>5. Taken(k) <= s.sent - Len(s.inbox)
  BY <1>1, <1>2, InboxLen DEF Sockets, Taken
<1>6. Served(conn[k]) => Served(s)
  BY <1>2 DEF Served
<1> QED
  BY <1>2, <1>3, <1>4, <1>5, <1>6, ConnUpdate, Zenon

(* The peer hangs up.                                                      *)
LEMMA ConnHangUp ==
    ASSUME Types, Numbered, NEW k \in Conns, HangUp(k)
    PROVE  ConnMoves
<1> DEFINE s == [conn[k] EXCEPT !.peer = FALSE]
<1>1. conn[k] \in Sockets
  BY DEF Types, SockTypes
<1>2. /\ s \in Sockets /\ s.inbox = conn[k].inbox /\ s.sent = conn[k].sent /\ s.st = conn[k].st
      /\ s.port = conn[k].port
  BY <1>1 DEF Sockets
<1>3. conn' = [conn EXCEPT ![k] = s]
  BY DEF Types, SockTypes, HangUp
<1> HIDE DEF s
<1>4. /\ Len(s.inbox) <= s.sent /\ (s.st = "none" => s.sent = 0)
      /\ \A i \in 1 .. Len(s.inbox) : s.inbox[i][2] = <<k, (s.sent - Len(s.inbox)) + i>>
  BY <1>2 DEF Numbered, Taken
<1>5. Taken(k) <= s.sent - Len(s.inbox)
  BY <1>1, <1>2, InboxLen DEF Sockets, Taken
<1>6. Served(conn[k]) => Served(s)
  BY <1>2 DEF Served
<1> QED
  BY <1>2, <1>3, <1>4, <1>5, <1>6, ConnUpdate, Zenon

(* close(): the input that nobody read is lost.                            *)
LEMMA ConnClosed ==
    ASSUME Types, Numbered, NEW f, CloseFd(f)
    PROVE  ConnMoves
<1>1. CASE f \in ConnFds /\ fdOwner[f] # NoConn
  <2> DEFINE k == fdOwner[f]
             s == [conn[k] EXCEPT !.st = "closed", !.inbox = <<>>]
  <2>1. k \in Conns
    BY <1>1 DEF Types, SockTypes
  <2>2. conn[k] \in Sockets /\ <<>> \in Inboxes
    BY <2>1 DEF Types, SockTypes, Inboxes
  <2>3. s \in Sockets /\ s.inbox = <<>> /\ s.sent = conn[k].sent /\ s.st = "closed" /\ s.port = conn[k].port
    <3> HIDE DEF k
    <3> QED
      BY <2>2 DEF Sockets
  <2>4. conn' = [conn EXCEPT ![k] = s]
    BY <1>1 DEF CloseFd
  <2> HIDE DEF s, k
  <2>5. Len(s.inbox) = 0 /\ s.sent \in Nat /\ conn[k].inbox \in Inboxes
    BY <2>2, <2>3 DEF Sockets
  <2>6. /\ Len(s.inbox) <= s.sent /\ (s.st = "none" => s.sent = 0)
        /\ \A i \in 1 .. Len(s.inbox) : s.inbox[i][2] = <<k, (s.sent - Len(s.inbox)) + i>>
    BY <2>3, <2>5
  <2>7. Taken(k) <= s.sent - Len(s.inbox)
    BY <2>3, <2>5, InboxLen DEF Taken
  <2>8. Served(conn[k]) => Served(s)
    BY <2>3 DEF Served
  <2> QED
    BY <2>1, <2>3, <2>4, <2>6, <2>7, <2>8, ConnUpdate, Zenon
<1>2. CASE ~(f \in ConnFds /\ fdOwner[f] # NoConn)
  BY <1>2, ConnSame DEF CloseFd
<1> QED
  BY <1>1, <1>2

(* A new connection.                                                       *)
LEMMA UnusedSocket == Unused \in Sockets /\ Unused.sent = 0 /\ Unused.inbox = <<>>
<1>1. <<>> \in Inboxes /\ <<0, "phone">> \in Clients \X {"phone", "silent", "stranger"}
  BY DEF Inboxes, Clients
<1> QED
  BY <1>1 DEF Unused, Sockets

(* A client connects.                                                      *)
LEMMA ConnNew ==
    ASSUME Types, Numbered, NEW k \in Conns, conn[k].st = "none",
           NEW s \in Sockets, s.st = "queued", s.sent = 0, s.inbox = <<>>,
           conn' = [conn EXCEPT ![k] = s]
    PROVE  ConnMoves
<1>1. conn[k].sent = 0 /\ Len(conn[k].inbox) \in Nat /\ Len(s.inbox) = 0
  BY InboxLen DEF Types, SockTypes, Sockets, Numbered
<1>2. /\ Len(s.inbox) <= s.sent /\ (s.st = "none" => s.sent = 0)
      /\ \A i \in 1 .. Len(s.inbox) : s.inbox[i][2] = <<k, (s.sent - Len(s.inbox)) + i>>
  BY <1>1
<1>3. Taken(k) <= s.sent - Len(s.inbox)
  BY <1>1 DEF Taken
<1>4. Served(conn[k]) => Served(s)
  BY DEF Served
<1> QED
  BY <1>2, <1>3, <1>4, ConnUpdate, Zenon

(* A request is sent: it gets the next number.                             *)
LEMMA ConnSend ==
    ASSUME Types, Numbered, NEW k \in Conns, NEW kind \in Kinds, SendRequest(k, kind)
    PROVE  ConnMoves
<1> DEFINE n == conn[k].sent
           b == conn[k].inbox
           r == <<kind, <<k, n + 1>>>>
           d == Append(b, r)
           s == [conn[k] EXCEPT !.sent = n + 1, !.inbox = d]
<1>1. conn[k] \in Sockets /\ n \in Nat /\ b \in Inboxes /\ n < ReqsPerConn
  BY DEF Types, SockTypes, Sockets, SendRequest
<1>2. r \in Kinds \X Tokens
  BY <1>1, SessionAssumption DEF Tokens
<1>3. /\ Append(b, r) \in Inboxes /\ Len(Append(b, r)) = Len(b) + 1 /\ Len(b) \in Nat
      /\ \A i \in 1 .. Len(b) : Append(b, r)[i] = b[i]
      /\ Append(b, r)[Len(b) + 1] = r
  <2> HIDE DEF b, r
  <2> QED
    BY <1>1, <1>2 DEF Inboxes
<1>4. s \in Sockets /\ s.sent = n + 1 /\ s.inbox = d /\ s.st = conn[k].st /\ s.port = conn[k].port
  <2>1. n + 1 \in Nat /\ d \in Inboxes
    BY <1>1, <1>3, SMTT(60)
  <2> HIDE DEF d, n
  <2> QED
    BY <1>1, <2>1 DEF Sockets
<1>5. conn' = [conn EXCEPT ![k] = s] /\ s.st # "none"
  BY <1>4 DEF Types, SockTypes, SendRequest, Held
<1>6. Taken(k) = n - Len(b) /\ Len(b) <= n /\ \A i \in 1 .. Len(b) : b[i][2] = <<k, (n - Len(b)) + i>>
  BY DEF Numbered, Taken
<1>7. r[2] = <<k, n + 1>>
  OBVIOUS
<1> HIDE DEF s, r, b, n
<1>8. Len(s.inbox) <= s.sent /\ s.sent - Len(s.inbox) = n - Len(b)
  BY <1>1, <1>3, <1>4, <1>6
<1>9. ASSUME NEW i \in 1 .. Len(s.inbox) PROVE s.inbox[i][2] = <<k, (s.sent - Len(s.inbox)) + i>>
  <2>1. CASE i \in 1 .. Len(b)
    BY <1>3, <1>4, <1>6, <1>8, <2>1
  <2>2. CASE i = Len(b) + 1
    <3>1. (n - Len(b)) + i = n + 1
      BY <1>1, <1>3, <2>2
    <3> QED
      BY <1>3, <1>4, <1>7, <1>8, <2>2, <3>1
  <2> QED
    BY <1>3, <1>4, <2>1, <2>2
<1>10. Taken(k) <= s.sent - Len(s.inbox)
  BY <1>1, <1>3, <1>6, <1>8
<1>11. Served(conn[k]) => Served(s)
  BY <1>4 DEF Served
<1> QED
  BY <1>4, <1>5, <1>8, <1>9, <1>10, <1>11, ConnUpdate, Zenon

(* A record is taken: it carries the next number, and its connection has   *)
(* one more request taken.                                                 *)
LEMMA ConnTake ==
    ASSUME Types, Numbered, NEW c \in Clients, NEW kind, HasRecord(c, kind), NEW k, k = Stream(c)
    PROVE  /\ ConnMoves
           /\ k \in Conns /\ Record(c)[2] \in Tokens
           /\ Record(c)[2] = <<k, Taken(k) + 1>>
           /\ Taken(k)' = Taken(k) + 1 /\ Taken(k) \in Nat
<1> DEFINE b == conn[k].inbox
           s == [conn[k] EXCEPT !.inbox = Tail(b)]
<1>1. k \in Conns
  BY DEF Types, SockTypes, HasRecord, Stream
<1>2. conn[k] \in Sockets /\ b \in Inboxes /\ b # <<>> /\ conn[k].sent \in Nat
  BY <1>1 DEF Types, SockTypes, Sockets, HasRecord
<1>3. /\ Tail(b) \in Inboxes /\ Len(Tail(b)) = Len(b) - 1 /\ Len(b) \in Nat
      /\ \A i \in 1 .. Len(Tail(b)) : i + 1 \in 1 .. Len(b) /\ Tail(b)[i] = b[i + 1]
      /\ Head(b) = b[1] /\ 1 \in 1 .. Len(b) /\ Head(b) \in Kinds \X Tokens
  <2> HIDE DEF b
  <2> QED
    BY <1>2 DEF Inboxes
<1>4. s \in Sockets /\ s.sent = conn[k].sent /\ s.inbox = Tail(b) /\ s.st = conn[k].st /\ s.port = conn[k].port
  BY <1>2, <1>3 DEF Sockets
<1>5. conn' = [conn EXCEPT ![k] = s] /\ Record(c) = b[1]
  BY <1>3 DEF HasRecord, TakeRecord, Record
<1>6. /\ Taken(k) = conn[k].sent - Len(b) /\ Len(b) <= conn[k].sent
      /\ \A i \in 1 .. Len(b) : b[i][2] = <<k, Taken(k) + i>>
      /\ s.st = "none" => s.sent = 0
  BY <1>1, <1>4 DEF Numbered, Taken
<1>7. Len(s.inbox) <= s.sent /\ s.sent - Len(s.inbox) = Taken(k) + 1 /\ Taken(k) \in Nat
  <2> HIDE DEF s, b
  <2> QED
    BY <1>2, <1>3, <1>4, <1>6
<1>8. Record(c)[2] \in Tokens /\ Record(c)[2] = <<k, Taken(k) + 1>>
  BY <1>3, <1>5, <1>6
<1>9. conn'[k] = s
  BY <1>1, <1>5 DEF Types, SockTypes
<1>10. Taken(k)' = s.sent - Len(s.inbox)
  BY <1>9 DEF Taken
<1> HIDE DEF s, b
<1>11. ASSUME NEW i \in 1 .. Len(s.inbox) PROVE s.inbox[i][2] = <<k, (s.sent - Len(s.inbox)) + i>>
  <2>1. i + 1 \in 1 .. Len(b) /\ s.inbox[i] = b[i + 1]
    BY <1>3, <1>4
  <2>2. Taken(k) + (i + 1) = (s.sent - Len(s.inbox)) + i
    BY <1>7
  <2> QED
    BY <1>6, <2>1, <2>2
<1>12. ConnMoves
  <2>1. Taken(k) <= s.sent - Len(s.inbox)
    BY <1>7
  <2>2. Served(conn[k]) => Served(s)
    BY <1>4 DEF Served
  <2> QED
    BY <1>1, <1>4, <1>5, <1>6, <1>7, <1>11, <2>1, <2>2, ConnUpdate, Zenon
<1> QED
  BY <1>1, <1>7, <1>8, <1>10, <1>12

(* The daemon starts again: every connection it had is closed.             *)
LEMMA ConnRestart == ASSUME Types, Numbered, Restart PROVE ConnMoves
<1> DEFINE shut(k) == [conn[k] EXCEPT !.st = "closed", !.inbox = <<>>]
<1>1. <<>> \in Inboxes /\ Len(<<>>) = 0
  BY DEF Inboxes
<1>2. ASSUME NEW k \in Conns
      PROVE  /\ conn[k] \in Sockets /\ Len(conn[k].inbox) \in Nat /\ conn[k].sent \in Nat
             /\ shut(k) \in Sockets /\ shut(k).inbox = <<>> /\ shut(k).sent = conn[k].sent
             /\ shut(k).st = "closed" /\ shut(k).port = conn[k].port
  <2>1. conn[k] \in Sockets
    BY DEF Types, SockTypes
  <2> QED
    BY <1>1, <2>1, InboxLen DEF Sockets
<1>3. conn' = [k \in Conns |-> IF conn[k].st \in Held THEN shut(k) ELSE conn[k]]
  BY DEF Restart
<1> HIDE DEF shut
<1>4. conn' \in [Conns -> Sockets]
  BY <1>2, <1>3
<1>5. \A k \in Conns : \/ conn'[k] = conn[k]
                       \/ /\ conn'[k].inbox = <<>> /\ conn'[k].sent = conn[k].sent
                          /\ conn'[k].st = "closed" /\ conn'[k].port = conn[k].port
  BY <1>2, <1>3
<1>6. DebugAccepted \subseteq DebugAccepted'
  BY <1>5 DEF DebugAccepted
<1> QED
  BY <1>1, <1>2, <1>4, <1>5, <1>6 DEF ConnMoves, Numbered, Taken
(* Every step moves the connections on.                                    *)
LEMMA ConnStep == Types /\ Numbered /\ [Next]_vars => ConnMoves
<1> SUFFICES ASSUME Types /\ Numbered, [Next]_vars PROVE ConnMoves
    OBVIOUS
<1> USE DEF loopVars, sockVars
<1>1. ASSUME SelectFails PROVE ConnMoves
  BY <1>1, ConnSame DEF SelectFails
<1>2. ASSUME Select PROVE ConnMoves
  BY <1>2, ConnSame DEF Select
<1>3. ASSUME FirePending PROVE ConnMoves
  BY <1>3, ConnSame DEF FirePending
<1>4. ASSUME FireDone PROVE ConnMoves
  BY <1>4, ConnSame DEF FireDone
<1>5. ASSUME AcceptFails PROVE ConnMoves
  BY <1>5, ConnSame DEF AcceptFails
<1>6. ASSUME OnCommandsSocketClosed PROVE ConnMoves
  BY <1>6, ConnSame DEF OnCommandsSocketClosed
<1>7. ASSUME AcceptStranger PROVE ConnMoves
  BY <1>7, ConnChosen, ConnState DEF AcceptStranger, TurnAway, Queued
<1>8. ASSUME SubscriptionFails PROVE ConnMoves
  BY <1>8, ConnClosed DEF SubscriptionFails
<1>9. ASSUME AcceptPhone PROVE ConnMoves
  BY <1>9, ConnChosen, ConnState DEF AcceptPhone, Queued, Served
<1>0. ASSUME ReadSubscription PROVE ConnMoves
  <2>1. CASE conn[Subscriber].peer
    <3>1. Subscriber \in Conns /\ conn' = [conn EXCEPT ![Subscriber].st = "open"]
      BY <1>0, <2>1 DEF ReadSubscription, Subscriber, Types, SockTypes
    <3> QED
      BY <3>1, ConnState
  <2>2. CASE ~conn[Subscriber].peer
    BY <1>0, <2>2, ConnClosed DEF ReadSubscription
  <2> QED
    BY <2>1, <2>2
<1>10. ASSUME NEW c \in Clients, CommandsEnter(c) PROVE ConnMoves
  BY <1>10, ConnSame DEF CommandsEnter
<1>11. ASSUME NEW c \in Clients, StreamDry(c) PROVE ConnMoves
  BY <1>11, ConnSame DEF StreamDry
<1>12. ASSUME NEW c \in Clients, StreamEnds(c) PROVE ConnMoves
  BY <1>12, ConnClosed DEF StreamEnds, EndStream
<1>13. ASSUME NEW c \in Clients, DropMalformed(c) PROVE ConnMoves
  <2>1. PICK k : k = Stream(c)
    OBVIOUS
  <2> QED
    BY <1>13, <2>1, ConnTake, Zenon DEF DropMalformed
<1>14. ASSUME NEW c \in Clients, RejectUnknown(c) PROVE ConnMoves
  <2>1. PICK k : k = Stream(c)
    OBVIOUS
  <2> QED
    BY <1>14, <2>1, ConnTake, Zenon DEF RejectUnknown
<1>15. ASSUME NEW c \in Clients, NEW a \in Addrs, DispatchPlain(c, a) PROVE ConnMoves
  <2>1. PICK k : k = Stream(c)
    OBVIOUS
  <2> QED
    BY <1>15, <2>1, ConnTake, Zenon DEF DispatchPlain
<1>16. ASSUME NEW c \in Clients, NEW a \in Addrs, DispatchRadioTech(c, a) PROVE ConnMoves
  <2>1. PICK k : k = Stream(c)
    OBVIOUS
  <2> QED
    BY <1>16, <2>1, ConnTake, Zenon DEF DispatchRadioTech
<1>17. ASSUME NEW c \in Clients, NEW a \in Addrs, DispatchBadBlock(c, a) PROVE ConnMoves
  <2>1. PICK k : k = Stream(c)
    OBVIOUS
  <2> QED
    BY <1>17, <2>1, ConnTake, Zenon DEF DispatchBadBlock
<1>18. ASSUME DebugAccept PROVE ConnMoves
  <2>1. \/ UNCHANGED conn
        \/ /\ Queued("debug") # {}
           /\ \E st \in {"open", "closed"} : conn' = [conn EXCEPT ![FirstQueued("debug")].st = st]
    BY <1>18 DEF DebugAccept
  <2> QED
    BY <2>1, ConnSame, ConnChosen, ConnState DEF Queued
<1>19. ASSUME NEW option \in DebugOptions, DebugRun(option) PROVE ConnMoves
  <2>1. UNCHANGED conn \/ \E f : CloseFd(f)
    BY <1>19 DEF DebugRun
  <2> QED
    BY <2>1, ConnSame, ConnClosed
<1>20. ASSUME NEW t \in Threads, Dequeue(t) PROVE ConnMoves
  BY <1>20, ConnSame DEF Dequeue, Dequeuing
<1>21. ASSUME NEW t \in Threads, ChooseFd(t) PROVE ConnMoves
  BY <1>21, ConnSame DEF ChooseFd
<1>22. ASSUME NEW t \in Threads, Write(t) PROVE ConnMoves
  <2>1. UNCHANGED conn \/ CloseFd(thr[t].fd)
    BY <1>22 DEF Write
  <2> QED
    BY <2>1, ConnSame, ConnClosed
<1>23. ASSUME NEW t \in VendorThreads, NEW j \in jobs, VendorCompletes(t, j) PROVE ConnMoves
  BY <1>23, ConnSame DEF VendorCompletes
<1>24. ASSUME NEW k \in Conns, NEW who \in Visitors, Connect(k, who) PROVE ConnMoves
  <2> DEFINE s == [Unused EXCEPT !.by = who, !.st = "queued", !.peer = TRUE]
  <2>1. who \in Clients \X {"phone", "silent", "stranger"}
    BY SessionAssumption DEF Clients
  <2>2. s \in Sockets /\ s.st = "queued" /\ s.sent = 0 /\ s.inbox = <<>>
    BY <2>1, UnusedSocket DEF Sockets
  <2>3. conn[k].st = "none" /\ conn' = [conn EXCEPT ![k] = s]
    BY <1>24 DEF Connect
  <2> QED
    BY <2>2, <2>3, ConnNew, Zenon
<1>25. ASSUME NEW k \in Conns, NEW c \in Clients, ConnectDebug(k, c) PROVE ConnMoves
  <2> DEFINE s == [Unused EXCEPT !.by = <<c, "phone">>, !.st = "queued", !.peer = TRUE, !.port = "debug"]
  <2>1. <<c, "phone">> \in Clients \X {"phone", "silent", "stranger"}
    OBVIOUS
  <2>2. s \in Sockets /\ s.st = "queued" /\ s.sent = 0 /\ s.inbox = <<>>
    BY <2>1, UnusedSocket DEF Sockets
  <2>3. conn[k].st = "none" /\ conn' = [conn EXCEPT ![k] = s]
    BY <1>25 DEF ConnectDebug
  <2> QED
    BY <2>2, <2>3, ConnNew, Zenon
<1>26. ASSUME NEW k \in Conns, NEW kind \in Kinds, SendRequest(k, kind) PROVE ConnMoves
  BY <1>26, ConnSend, Zenon
<1>27. ASSUME NEW k \in Conns, HangUp(k) PROVE ConnMoves
  BY <1>27, ConnHangUp
<1>28. ASSUME Restart PROVE ConnMoves
  BY <1>28, ConnRestart
<1>29. CASE UNCHANGED vars
  BY <1>29, ConnSame DEF vars
<1> QED
  BY <1>0, <1>1, <1>2, <1>3, <1>4, <1>5, <1>6, <1>7, <1>8, <1>9, <1>10, <1>11, <1>12, <1>13,
     <1>14, <1>15, <1>16, <1>17, <1>18, <1>19, <1>20, <1>21, <1>22, <1>23, <1>24, <1>25, <1>26,
     <1>27, <1>28, <1>29, Zenon DEF Next, LoopStep, AcceptStep, CommandsStep, CompleteStep, ClientStep,
     Threads

(* The types of the sockets and descriptors.                               *)
LEMMA SockStep == Types /\ Numbered /\ [Next]_vars => SockTypes'
<1> SUFFICES ASSUME Types /\ Numbered, [Next]_vars PROVE SockTypes'
    OBVIOUS
<1> USE ConnStep DEF Types, SockTypes, ConnMoves, loopVars, sockVars
<1>1. ASSUME SelectFails \/ Select \/ FirePending \/ FireDone \/ AcceptFails \/
       OnCommandsSocketClosed PROVE SockTypes'
  BY <1>1 DEF SelectFails, Select, FirePending, FireDone, AcceptFails, OnCommandsSocketClosed
<1>2. ASSUME AcceptStranger PROVE SockTypes'
  BY <1>2 DEF AcceptStranger, TurnAway
<1>3. ASSUME SubscriptionFails PROVE SockTypes'
  BY <1>3 DEF SubscriptionFails, Install, CloseFd, New
<1>4. ASSUME AcceptPhone PROVE SockTypes'
  <2>1. LowestFd(FreeFds) \in ConnFds /\ FirstQueued("rild") \in Conns
    BY <1>4, FdChosen, ConnChosen DEF AcceptPhone, FreeFds, Queued
  <2> QED
    BY <1>4, <2>1 DEF AcceptPhone
<1>0. ASSUME ReadSubscription PROVE SockTypes'
  <2>1. rs[New] \in ConnFds /\ Subscriber \in Conns
    BY <1>0 DEF ReadSubscription, Subscriber
  <2>2. conn[Subscriber].by[1] \in Clients
    BY <2>1 DEF Sockets
  <2>3. fdOwner' \in [ConnFds -> Conns \cup {NoConn}]
    BY <1>0 DEF ReadSubscription, CloseFd
  <2> QED
    BY <1>0, <2>1, <2>2, <2>3 DEF ReadSubscription, Install
<1>5. ASSUME NEW c \in Clients, CommandsEnter(c) \/ StreamDry(c) PROVE SockTypes'
  BY <1>5 DEF CommandsEnter, StreamDry
<1>6. ASSUME NEW c \in Clients, StreamEnds(c) PROVE SockTypes'
  BY <1>6 DEF StreamEnds, EndStream, CloseFd
<1>7. ASSUME NEW c \in Clients, DropMalformed(c) PROVE SockTypes'
  BY <1>7 DEF DropMalformed
<1>8. ASSUME NEW c \in Clients, RejectUnknown(c) PROVE SockTypes'
  BY <1>8 DEF RejectUnknown
<1>9. ASSUME NEW c \in Clients, NEW a \in Addrs, DispatchPlain(c, a) PROVE SockTypes'
  BY <1>9 DEF DispatchPlain
<1>10. ASSUME NEW c \in Clients, NEW a \in Addrs, DispatchRadioTech(c, a) PROVE SockTypes'
  BY <1>10 DEF DispatchRadioTech
<1>11. ASSUME NEW c \in Clients, NEW a \in Addrs, DispatchBadBlock(c, a) PROVE SockTypes'
  BY <1>11 DEF DispatchBadBlock
<1>12. ASSUME DebugAccept PROVE SockTypes'
  <2>1. CASE UNCHANGED <<fdOwner, s_fdCommand>> /\ lpc' = "fire"
    BY <1>12, <2>1 DEF DebugAccept
  <2>2. CASE ~(UNCHANGED <<fdOwner, s_fdCommand>> /\ lpc' = "fire")
    <3> DEFINE k == FirstQueued("debug")
               f == LowestFd(FreeFds)
    <3>1. /\ Queued("debug") # {} /\ FreeFds # {} /\ conn' = [conn EXCEPT ![k].st = "open"]
          /\ fdOwner' = [fdOwner EXCEPT ![f] = k]
          /\ s_fdCommand' = [s_fdCommand EXCEPT ![conn[k].by[1]] = f] /\ rs' = rs
      BY <1>12, <2>2 DEF DebugAccept
    <3>2. k \in Conns /\ conn[k].port = "debug" /\ f \in ConnFds
      BY <3>1, FdChosen, ConnChosen DEF FreeFds, Queued
    <3>3. conn[k].by[1] \in Clients
      BY <3>2 DEF Sockets
    <3>4. conn'[k].port = "debug" /\ conn'[k].st = "open"
      BY <3>1, <3>2 DEF Sockets
    <3>5. k \in DebugAccepted'
      BY <3>2, <3>4 DEF DebugAccepted
    <3> HIDE DEF k, f
    <3> QED
      BY <3>1, <3>2, <3>3, <3>5
  <2> QED
    BY <2>1, <2>2
<1>13. ASSUME NEW option \in DebugOptions, DebugRun(option) PROVE SockTypes'
  BY <1>13 DEF DebugRun, CloseFd
<1>14. ASSUME NEW t \in Threads, Dequeue(t) PROVE SockTypes'
  BY <1>14 DEF Dequeue, Dequeuing, InvalidToken, TakeFromList, Return, Answer
<1>15. ASSUME NEW t \in Threads, ChooseFd(t) PROVE SockTypes'
  BY <1>15 DEF ChooseFd, Return
<1>16. ASSUME NEW t \in Threads, Write(t) PROVE SockTypes'
  BY <1>16 DEF Write, CloseFd, Return
<1>17. ASSUME NEW t \in VendorThreads, NEW j \in jobs, VendorCompletes(t, j) PROVE SockTypes'
  BY <1>17 DEF VendorCompletes
<1>18. ASSUME NEW k \in Conns, NEW who \in Visitors, Connect(k, who) PROVE SockTypes'
  BY <1>18 DEF Connect
<1>19. ASSUME NEW k \in Conns, NEW c \in Clients, ConnectDebug(k, c) PROVE SockTypes'
  BY <1>19 DEF ConnectDebug
<1>20. ASSUME NEW k \in Conns, NEW kind \in Kinds, SendRequest(k, kind) PROVE SockTypes'
  BY <1>20 DEF SendRequest
<1>21. ASSUME NEW k \in Conns, HangUp(k) PROVE SockTypes'
  BY <1>21 DEF HangUp
<1>22. ASSUME Restart PROVE SockTypes'
  <2>1. /\ fdOwner' = [f \in ConnFds |-> NoConn] /\ s_fdCommand' = [c \in Clients |-> -1]
        /\ rs' = [c \in Clients \cup {New} |-> 2] /\ lpc' = "select"
    BY <1>22 DEF Restart, Fresh
  <2>2. 2 \in ConnFds
    BY SessionAssumption, WatchAssumption DEF ConnFds
  <2> QED
    BY <2>1, <2>2
<1>23. CASE UNCHANGED vars
  BY <1>23 DEF vars
<1> QED
  BY <1>0, <1>1, <1>2, <1>3, <1>4, <1>5, <1>6, <1>7, <1>8, <1>9, <1>10, <1>11, <1>12, <1>13,
     <1>14, <1>15, <1>16, <1>17, <1>18, <1>19, <1>20, <1>21, <1>22, <1>23, Zenon DEF Next,
     LoopStep, AcceptStep, CommandsStep, CompleteStep, ClientStep, Threads

(* A completion returns; a block is freed.                                 *)
LEMMA IdleTyped == Idle \in Completions /\ Idle.pc = "idle" /\ Idle.addr = NULL
BY DEF Idle, Completions, Clients

(* RIL_onRequestComplete returns on thread t, or is called a second time.  *)
LEMMA ThreadReturns ==
    ASSUME ReqTypes, NEW t \in Threads, Return(t)
    PROVE  /\ thr' \in [Threads -> Completions]
           /\ thr'[t].pc \in {"idle", "dequeue"}
           /\ \A u \in Threads : u # t => thr'[u] = thr[u]
<1> DEFINE r == thr[t]
           s == [r EXCEPT !.pc = "dequeue", !.fd = -1, !.left = r.left - 1]
<1>1. r \in Completions
  BY DEF ReqTypes
<1>2. r.left > 1 => s \in Completions /\ s.pc = "dequeue"
  <2>1. r.left > 1 => r.left - 1 \in Nat
    BY <1>1 DEF Completions
  <2> HIDE DEF r
  <2> QED
    BY <1>1, <2>1 DEF Completions
<1>3. /\ thr' = [thr EXCEPT ![t] = thr'[t]]
      /\ r.left <= 1 => thr'[t] = Idle
      /\ ~(r.left <= 1) => thr'[t] = s
  BY DEF Return, ReqTypes
<1>4. r.left \in Nat
  BY <1>1 DEF Completions
<1> HIDE DEF s, r
<1>5. thr'[t] \in Completions /\ thr'[t].pc \in {"idle", "dequeue"}
  BY <1>2, <1>3, <1>4, IdleTyped
<1>6. thr \in [Threads -> Completions]
  BY DEF ReqTypes
<1> QED
  BY <1>3, <1>5, <1>6

(* free(pRI): no other block changes.                                      *)
LEMMA BlockFreed ==
    ASSUME ReqTypes, NEW t \in Threads, FreeBlock(t)
    PROVE  /\ req' \in [Addrs -> Blocks \cup {Free}]
           /\ \A a \in Addrs : req'[a] = IF a = thr[t].addr THEN Free ELSE req[a]
BY SessionAssumption DEF ReqTypes, FreeBlock, Completions

(* The blocks of requests that were cancelled are kept.                    *)
LEMMA BlocksCancelled ==
    ASSUME ReqTypes, \A a \in pendingReqs : req[a] # Free, CancelAll
    PROVE  /\ req' \in [Addrs -> Blocks \cup {Free}]
           /\ \A a \in Addrs : /\ req'[a].tok = req[a].tok /\ req'[a].local = req[a].local
                               /\ req'[a] = Free <=> req[a] = Free
<1>1. ASSUME NEW a \in Addrs
      PROVE  /\ req'[a] \in Blocks \cup {Free}
             /\ req'[a].tok = req[a].tok /\ req'[a].local = req[a].local
             /\ req'[a] = Free <=> req[a] = Free
  <2>1. CASE a \in pendingReqs
    <3>1. req'[a] = [req[a] EXCEPT !.cancelled = TRUE] /\ req[a] # Free /\ req[a] \in Blocks
      BY <2>1 DEF CancelAll, Cancel, ReqTypes
    <3>2. req'[a] \in Blocks /\ req'[a].cancelled = TRUE /\ req'[a].tok = req[a].tok /\ req'[a].local = req[a].local
      BY <3>1 DEF Blocks
    <3> QED
      BY <3>1, <3>2 DEF Free
  <2>2. CASE a \notin pendingReqs
    BY <2>2 DEF CancelAll, Cancel, ReqTypes
  <2> QED
    BY <2>1, <2>2
<1>2. req' = [a \in Addrs |-> req'[a]]
  BY DEF CancelAll, Cancel
<1> QED
  BY <1>1, <1>2

(* A block that is made for a request is not a free one.                   *)
LEMMA BlockMade ==
    ASSUME NEW tok \in Tokens, NEW c \in Clients, NEW local \in BOOLEAN
    PROVE  /\ [tok |-> tok, client |-> c, cancelled |-> FALSE, local |-> local] \in Blocks
           /\ [tok |-> tok, client |-> c, cancelled |-> FALSE, local |-> local] # Free
<1>1. tok # <<0, 0>>
  BY SessionAssumption DEF Tokens, Conns
<1> QED
  BY <1>1 DEF Blocks, Free

(* processCommandBuffer makes a block for a request and links it.          *)
LEMMA RequestMade ==
    ASSUME ReqTypes, NEW a \in Addrs, NEW tok \in Tokens, NEW c \in Clients, NewRequest(a, tok, c)
    PROVE  /\ req' \in [Addrs -> Blocks \cup {Free}] /\ pendingReqs' = pendingReqs \cup {a}
           /\ req[a] = Free /\ req'[a] # Free /\ req'[a].tok = tok /\ ~req'[a].local
           /\ \A b \in Addrs : b # a => req'[b] = req[b]
<1> DEFINE r == [tok |-> tok, client |-> c, cancelled |-> FALSE, local |-> FALSE]
<1>1. r \in Blocks /\ r # Free /\ r.tok = tok /\ ~r.local
  BY BlockMade
<1>2. req' = [req EXCEPT ![a] = r] /\ req[a] = Free /\ pendingReqs' = pendingReqs \cup {a}
  BY DEF NewRequest, FreeAddrs
<1> HIDE DEF r
<1> QED
  BY <1>1, <1>2 DEF ReqTypes

(* A thread goes on to answer.                                             *)
LEMMA AnswerBegun ==
    ASSUME ReqTypes, NEW t \in Threads, NEW c \in Clients, Answer(t, c)
    PROVE  /\ thr' \in [Threads -> Completions] /\ thr'[t].pc = "choose"
           /\ thr'[t].addr = thr[t].addr /\ \A u \in Threads : u # t => thr'[u] = thr[u]
<1> DEFINE r == thr[t]
           s == [r EXCEPT !.pc = "choose", !.client = c]
<1>1. r \in Completions /\ thr \in [Threads -> Completions]
  BY DEF ReqTypes
<1>2. thr' = [thr EXCEPT ![t] = s]
  BY <1>1 DEF Answer
<1> HIDE DEF r
<1>3. s \in Completions /\ s.pc = "choose" /\ s.addr = r.addr
  BY <1>1 DEF Completions
<1> HIDE DEF s
<1> QED
  BY <1>1, <1>2, <1>3 DEF r

(* What a thread answers, and what it refuses, once it has begun.          *)
LEMMA CompletionMade ==
    ASSUME NEW a \in Addrs, NEW tok \in Tokens, NEW n \in Nat
    PROVE  /\ [Idle EXCEPT !.pc = "dequeue", !.addr = a, !.tok = tok, !.left = n] \in Completions
           /\ [Idle EXCEPT !.pc = "dequeue", !.addr = a, !.tok = tok, !.left = n].pc = "dequeue"
BY IdleTyped DEF Completions

(* An unknown request is refused by the loop thread ...                    *)
LEMMA RefusalMade ==
    ASSUME NEW tok \in Tokens, NEW n \in Nat, NEW c \in Clients
    PROVE  /\ [Idle EXCEPT !.pc = "choose", !.tok = tok, !.client = c, !.left = n] \in Completions
           /\ [Idle EXCEPT !.pc = "choose", !.tok = tok, !.client = c, !.left = n].pc = "choose"
BY IdleTyped DEF Completions

(* ... without a block, under its own token.                               *)
LEMMA RefusalOf ==
    ASSUME NEW tok \in Tokens, NEW n \in Nat, NEW c \in Clients
    PROVE  /\ [Idle EXCEPT !.pc = "choose", !.tok = tok, !.client = c, !.left = n].addr = NULL
           /\ [Idle EXCEPT !.pc = "choose", !.tok = tok, !.client = c, !.left = n].tok = tok
BY IdleTyped DEF Completions

(* What the vendor RIL is handed.                                          *)
LEMMA JobMade == ASSUME NEW a \in Addrs, NEW tok \in Tokens
                 PROVE  Job(a, tok) \in [addr : Addrs, tok : Tokens, again : BOOLEAN]
BY SessionAssumption DEF Job

(* The types of the requests and of their completions.                     *)
LEMMA ReqTypesStep == ReqInv /\ Numbered /\ [Next]_vars => ReqTypes'
<1> SUFFICES ASSUME ReqInv /\ Numbered, [Next]_vars PROVE ReqTypes'
    OBVIOUS
<1> USE DEF ReqInv, Types, ReqTypes, loopVars, sockVars, reqVars
<1>1. ASSUME OnCommandsSocketClosed PROVE ReqTypes'
  BY <1>1, BlocksCancelled DEF OnCommandsSocketClosed, OneOwner
<1>2. ASSUME SelectFails \/ Select \/ FirePending \/ FireDone \/ AcceptFails PROVE ReqTypes'
  BY <1>2 DEF SelectFails, Select, FirePending, FireDone, AcceptFails
<1>3. ASSUME AcceptStranger PROVE ReqTypes'
  BY <1>3, BlocksCancelled DEF AcceptStranger, TurnAway, OneOwner
<1>4. ASSUME SubscriptionFails PROVE ReqTypes'
  BY <1>4, BlocksCancelled DEF SubscriptionFails, OneOwner
<1>5. ASSUME AcceptPhone \/ ReadSubscription PROVE ReqTypes'
  BY <1>5 DEF AcceptPhone, ReadSubscription
<1>6. ASSUME NEW c \in Clients, CommandsEnter(c) \/ StreamDry(c) PROVE ReqTypes'
  BY <1>6 DEF CommandsEnter, StreamDry
<1>7. ASSUME NEW c \in Clients, StreamEnds(c) PROVE ReqTypes'
  BY <1>7 DEF StreamEnds, EndStream
<1>8. ASSUME NEW c \in Clients, DropMalformed(c) PROVE ReqTypes'
  BY <1>8 DEF DropMalformed
<1>9. ASSUME NEW c \in Clients, RejectUnknown(c) PROVE ReqTypes'
  <2>1. PICK k : k = Stream(c)
    OBVIOUS
  <2>2. Record(c)[2] \in Tokens
    BY <1>9, <2>1, ConnTake, Zenon DEF RejectUnknown
  <2>0. PICK tok \in Tokens, n \in Nat : tok = Record(c)[2] /\ n = 1
    BY <2>2
  <2> DEFINE r == [Idle EXCEPT !.pc = "choose", !.tok = tok, !.client = c, !.left = n]
  <2>3. r \in Completions /\ r.pc = "choose"
    BY RefusalMade, Zenon
  <2>4. thr' = [thr EXCEPT ![Loop] = r] /\ UNCHANGED <<reqVars, answers>>
    BY <1>9, <2>0 DEF RejectUnknown
  <2> HIDE DEF r
  <2> QED
    BY <2>3, <2>4, SessionAssumption DEF Threads
<1>10. ASSUME NEW c \in Clients, NEW a \in Addrs, DispatchPlain(c, a) PROVE ReqTypes'
  <2>1. PICK k : k = Stream(c)
    OBVIOUS
  <2>2. Record(c)[2] \in Tokens
    BY <1>10, <2>1, ConnTake, Zenon DEF DispatchPlain
  <2>3. req' \in [Addrs -> Blocks \cup {Free}] /\ pendingReqs' = pendingReqs \cup {a}
    BY <1>10, <2>2, RequestMade DEF DispatchPlain
  <2> QED
    BY <1>10, <2>2, <2>3, JobMade DEF DispatchPlain
<1>11. ASSUME NEW c \in Clients, NEW a \in Addrs, DispatchRadioTech(c, a) PROVE ReqTypes'
  <2>1. PICK k : k = Stream(c)
    OBVIOUS
  <2>2. Record(c)[2] \in Tokens
    BY <1>11, <2>1, ConnTake, Zenon DEF DispatchRadioTech
  <2>3. req' \in [Addrs -> Blocks \cup {Free}] /\ pendingReqs' = pendingReqs \cup {a}
    BY <1>11, <2>2, RequestMade DEF DispatchRadioTech
  <2>4. CASE UNCHANGED thr
    BY <1>11, <2>2, <2>3, <2>4, JobMade DEF DispatchRadioTech
  <2>5. CASE \E n \in {1, 2} : /\ thr' = [thr EXCEPT ![Loop] = [Idle EXCEPT !.pc = "dequeue", !.addr = a,
                                                 !.tok = Record(c)[2], !.left = n]]
                             /\ UNCHANGED jobs
    <3>1. PICK n \in {1, 2} : /\ thr' = [thr EXCEPT ![Loop] = [Idle EXCEPT !.pc = "dequeue", !.addr = a,
                                                 !.tok = Record(c)[2], !.left = n]]
                              /\ UNCHANGED jobs
      BY <2>5
    <3>0. PICK tok \in Tokens : tok = Record(c)[2]
      BY <2>2
    <3> DEFINE r == [Idle EXCEPT !.pc = "dequeue", !.addr = a, !.tok = tok, !.left = n]
    <3>2. n \in Nat
      OBVIOUS
    <3>3. r \in Completions /\ r.pc = "dequeue"
      BY <3>2, CompletionMade, Zenon
    <3>4. thr' = [thr EXCEPT ![Loop] = r] /\ UNCHANGED <<jobs, answers>>
      BY <1>11, <3>0, <3>1 DEF DispatchRadioTech
    <3> HIDE DEF r
    <3> QED
      BY <2>3, <3>3, <3>4, SessionAssumption DEF Threads
  <2> QED
    BY <1>11, <2>4, <2>5 DEF DispatchRadioTech
<1>12. ASSUME NEW c \in Clients, NEW a \in Addrs, DispatchBadBlock(c, a) PROVE ReqTypes'
  <2>1. PICK k : k = Stream(c)
    OBVIOUS
  <2>2. Record(c)[2] \in Tokens
    BY <1>12, <2>1, ConnTake, Zenon DEF DispatchBadBlock
  <2>3. req' \in [Addrs -> Blocks \cup {Free}] /\ pendingReqs' = pendingReqs \cup {a}
    BY <1>12, <2>2, RequestMade DEF DispatchBadBlock
  <2> QED
    BY <1>12, <2>3 DEF DispatchBadBlock
<1>13. ASSUME DebugAccept PROVE ReqTypes'
  BY <1>13 DEF DebugAccept
<1>14. ASSUME NEW option \in DebugOptions, DebugRun(option) PROVE ReqTypes'
  <2> DEFINE c == conn[DebugConn].by[1]
             tok == <<DebugConn, 0>>
             r == [tok |-> tok, client |-> c, cancelled |-> FALSE, local |-> TRUE]
  <2>1. DebugConn \in Conns
    BY <1>14, DebugChosen DEF DebugRun, SockTypes
  <2>2. tok \in Tokens /\ c \in Clients
    BY <2>1, SessionAssumption DEF Tokens, SockTypes, Sockets
  <2>3. PICK new \in SUBSET FreeAddrs :
           /\ req' = [a \in Addrs |-> IF a \in new THEN r ELSE req[a]]
           /\ pendingReqs' = pendingReqs \cup new
           /\ jobs' = jobs \cup {Job(a, tok) : a \in new}
    BY <1>14 DEF DebugRun
  <2>4. r \in Blocks
    BY <2>2, BlockMade
  <2>5. UNCHANGED <<thr, answers>>
    BY <1>14 DEF DebugRun
  <2>6. new \subseteq Addrs
    BY DEF FreeAddrs
  <2> HIDE DEF r, tok, c
  <2>7. req' \in [Addrs -> Blocks \cup {Free}] /\ pendingReqs' \subseteq Addrs
    BY <2>3, <2>4, <2>6
  <2>8. jobs' \subseteq [addr : Addrs, tok : Tokens, again : BOOLEAN]
    BY <2>2, <2>3, <2>6, JobMade
  <2> QED
    BY <2>5, <2>7, <2>8
<1>15. ASSUME NEW t \in Threads, Dequeue(t) PROVE ReqTypes'
  <2>1. CASE InvalidToken(t) \/ (Return(t) /\ FreeBlock(t) /\ pendingReqs' = pendingReqs \ {thr[t].addr})
    <3>1. /\ thr' \in [Threads -> Completions]
          /\ thr'[t].pc \in {"idle", "dequeue"}
          /\ \A u \in Threads : u # t => thr'[u] = thr[u]
      BY <2>1, ThreadReturns DEF InvalidToken
    <3>2. req' \in [Addrs -> Blocks \cup {Free}] /\ pendingReqs' \subseteq Addrs
      BY <2>1, BlockFreed DEF InvalidToken
    <3>3. UNCHANGED <<jobs, answers>>
      BY <1>15 DEF Dequeue, Dequeuing
    <3> QED
      BY <3>1, <3>2, <3>3 DEF Threads
  <2>2. CASE thr[t].addr \in pendingReqs /\ Answer(t, req[thr[t].addr].client) /\ pendingReqs' = pendingReqs \ {thr[t].addr}
    <3>1. req[thr[t].addr] \in Blocks /\ thr[t].addr # NULL
      BY <2>2, SessionAssumption DEF OneOwner
    <3>2. req[thr[t].addr].client \in Clients
      BY <3>1 DEF Blocks
    <3>3. /\ thr' \in [Threads -> Completions] /\ thr'[t].pc = "choose" /\ thr'[t].addr = thr[t].addr
          /\ \A u \in Threads : u # t => thr'[u] = thr[u]
      BY <2>2, <3>2, AnswerBegun DEF ReqTypes
    <3>4. UNCHANGED <<req, jobs, answers>>
      BY <1>15, <2>2 DEF Dequeue, Dequeuing, Answer
    <3> QED
      BY <2>2, <3>1, <3>3, <3>4 DEF Threads
  <2> QED
    BY <1>15, <2>1, <2>2 DEF Dequeue, TakeFromList
<1>16. ASSUME NEW t \in Threads, ChooseFd(t) PROVE ReqTypes'
  <2>1. CASE Return(t) /\ FreeBlock(t)
    <3>1. /\ thr' \in [Threads -> Completions]
          /\ thr'[t].pc \in {"idle", "dequeue"}
          /\ \A u \in Threads : u # t => thr'[u] = thr[u]
      BY <2>1, ThreadReturns
    <3>2. req' \in [Addrs -> Blocks \cup {Free}]
      BY <2>1, BlockFreed
    <3>3. UNCHANGED <<pendingReqs, jobs, answers>>
      BY <1>16 DEF ChooseFd
    <3> QED
      BY <3>1, <3>2, <3>3 DEF Threads
  <2>2. CASE ~(Return(t) /\ FreeBlock(t))
    <3> DEFINE f == s_fdCommand[thr[t].client]
    <3>1. /\ thr' = [thr EXCEPT ![t].pc = "write", ![t].fd = f] /\ ~(f < 0)
          /\ UNCHANGED <<req, pendingReqs, jobs, answers>> /\ thr[t].pc = "choose"
      BY <1>16, <2>2 DEF ChooseFd
    <3>2. thr[t].client \in Clients
      BY DEF Completions
    <3>3. f \in ConnFds
      BY <3>1, <3>2 DEF SockTypes
    <3> HIDE DEF f
    <3>4. /\ thr' \in [Threads -> Completions] /\ thr'[t].pc = "write" /\ thr'[t].fd = f
          /\ thr'[t].addr = thr[t].addr
          /\ \A u \in Threads : u # t => thr'[u] = thr[u]
      BY <3>1, <3>3, ZenonT(60) DEF Completions
    <3> QED
      BY <3>1, <3>3, <3>4 DEF Threads
  <2> QED
    BY <2>1, <2>2
<1>17. ASSUME NEW t \in Threads, Write(t) PROVE ReqTypes'
  <2>1. /\ thr' \in [Threads -> Completions]
        /\ thr'[t].pc \in {"idle", "dequeue"}
        /\ \A u \in Threads : u # t => thr'[u] = thr[u]
    BY <1>17, ThreadReturns DEF Write
  <2>2. req' \in [Addrs -> Blocks \cup {Free}]
    BY <1>17, BlockFreed DEF Write
  <2>3. answers' \in [Tokens -> Seq(Conns)]
    <3>1. CASE UNCHANGED answers
      BY <3>1
    <3>2. CASE fdOwner[thr[t].fd] # NoConn /\ answers' = [answers EXCEPT ![Token(t)] = Append(@, fdOwner[thr[t].fd])]
      <4>1. fdOwner[thr[t].fd] \in Conns
        BY <1>17, <3>2 DEF Write, SockTypes
      <4>2. CASE Token(t) \in Tokens
        <5>1. Append(answers[Token(t)], fdOwner[thr[t].fd]) \in Seq(Conns)
          BY <4>1, <4>2
        <5> QED
          BY <3>2, <5>1
      <4>3. CASE Token(t) \notin Tokens
        BY <3>2, <4>3
      <4> QED
        BY <4>2, <4>3
    <3> QED
      BY <1>17, <3>1, <3>2 DEF Write
  <2>4. UNCHANGED <<pendingReqs, jobs>>
    BY <1>17 DEF Write
  <2> QED
    BY <2>1, <2>2, <2>3, <2>4 DEF Threads
<1>18. ASSUME NEW t \in VendorThreads, NEW j \in jobs, VendorCompletes(t, j) PROVE ReqTypes'
  <2>0. PICK a \in Addrs, tok \in Tokens, n \in Nat : a = j.addr /\ tok = j.tok /\ n = 1
    OBVIOUS
  <2> DEFINE r == [Idle EXCEPT !.pc = "dequeue", !.addr = a, !.tok = tok, !.left = n]
  <2>2. r \in Completions /\ r.pc = "dequeue"
    BY CompletionMade, Zenon
  <2>3. thr' = [thr EXCEPT ![t] = r] /\ UNCHANGED <<req, pendingReqs, answers>>
    BY <1>18, <2>0 DEF VendorCompletes
  <2>4. jobs' \subseteq [addr : Addrs, tok : Tokens, again : BOOLEAN]
    BY <1>18 DEF VendorCompletes
  <2> HIDE DEF r
  <2> QED
    BY <2>2, <2>3, <2>4 DEF Threads
<1>19. ASSUME NEW k \in Conns, NEW who \in Visitors, Connect(k, who) PROVE ReqTypes'
  BY <1>19 DEF Connect
<1>20. ASSUME NEW k \in Conns, NEW c \in Clients, ConnectDebug(k, c) PROVE ReqTypes'
  BY <1>20 DEF ConnectDebug
<1>21. ASSUME NEW k \in Conns, NEW kind \in Kinds, SendRequest(k, kind) PROVE ReqTypes'
  BY <1>21 DEF SendRequest
<1>22. ASSUME NEW k \in Conns, HangUp(k) PROVE ReqTypes'
  BY <1>22 DEF HangUp
<1>23. ASSUME Restart PROVE ReqTypes'
  <2>1. /\ req' = [a \in Addrs |-> Free] /\ pendingReqs' = {} /\ jobs' = {}
        /\ thr' = [t \in Threads |-> Idle] /\ answers' = answers
    BY <1>23 DEF Restart, Fresh
  <2> QED
    BY <2>1, IdleTyped DEF Threads
<1>24. CASE UNCHANGED vars
  BY <1>24 DEF vars
<1> QED
  BY <1>1, <1>2, <1>3, <1>4, <1>5, <1>6, <1>7, <1>8, <1>9, <1>10, <1>11, <1>12, <1>13, <1>14,
     <1>15, <1>16, <1>17, <1>18, <1>19, <1>20, <1>21, <1>22, <1>23, <1>24, Zenon DEF Next,
     LoopStep, AcceptStep, CommandsStep, CompleteStep, ClientStep, Threads

-----------------------------------------------------------------------------
(* What a step may do to the blocks, the list and the completions.         *)
Rest(t) == \A u \in Threads \ {t} : thr'[u] = thr[u]
Blocked(S) == \A b \in Addrs \ S : req'[b] = req[b]
Over(t) == Rest(t) /\ thr'[t].pc \in {"idle", "dequeue"}

Keeps ==   \* the list and the threads are left alone; blocks may be marked cancelled
    /\ UNCHANGED <<pendingReqs, thr, answers>>
    /\ \A a \in Addrs : /\ req'[a].tok = req[a].tok /\ req'[a].local = req[a].local
                        /\ req'[a] = Free <=> req[a] = Free
Creates(a, k) ==
    /\ req[a] = Free /\ req'[a] # Free /\ ~req'[a].local /\ Blocked({a})
    /\ req'[a].tok = <<k, Taken(k) + 1>> /\ Taken(k)' = Taken(k) + 1 /\ Taken(k) \in Nat
    /\ pendingReqs' = pendingReqs \cup {a} /\ answers' = answers
    /\ thr' = thr \/ Over(Loop)
Issues(new) ==
    /\ \A a \in new : req[a] = Free /\ req'[a] # Free /\ req'[a].local
    /\ Blocked(new) /\ pendingReqs' = pendingReqs \cup new /\ UNCHANGED <<thr, answers>>
Refuses(k) ==
    /\ thr'[Loop].pc = "choose" /\ thr'[Loop].addr = NULL /\ Rest(Loop)
    /\ thr'[Loop].tok = <<k, Taken(k) + 1>> /\ Taken(k)' = Taken(k) + 1 /\ Taken(k) \in Nat
    /\ UNCHANGED <<req, pendingReqs, answers>>
Begins(t) == Over(t) /\ UNCHANGED <<req, pendingReqs, answers>>
Silences(t) ==
    /\ thr[t].addr \in pendingReqs /\ pendingReqs' = pendingReqs \ {thr[t].addr}
    /\ req'[thr[t].addr] = Free /\ Blocked({thr[t].addr})
    /\ Over(t) /\ answers' = answers
Answers(t) ==
    /\ thr[t].addr \in pendingReqs /\ pendingReqs' = pendingReqs \ {thr[t].addr}
    /\ ~req[thr[t].addr].local /\ ~req[thr[t].addr].cancelled
    /\ thr'[t].pc = "choose" /\ thr'[t].addr = thr[t].addr /\ Rest(t)
    /\ UNCHANGED <<req, answers>>
Writes(t) ==
    /\ thr[t].pc = "choose" /\ thr'[t].pc = "write" /\ thr'[t].addr = thr[t].addr
    /\ thr'[t].tok = thr[t].tok /\ Rest(t)
    /\ UNCHANGED <<req, pendingReqs, answers>>
Ends(t) ==
    /\ thr[t].pc \in {"choose", "write"} /\ Over(t)
    /\ thr[t].addr # NULL => req'[thr[t].addr] = Free
    /\ Blocked({thr[t].addr}) /\ pendingReqs' = pendingReqs
    /\ \/ answers' = answers
       \/ \E k \in Conns : answers' = [answers EXCEPT ![Token(t)] = Append(@, k)]
Restarts ==
    /\ \A a \in Addrs : req'[a] = Free
    /\ pendingReqs' = {} /\ answers' = answers /\ \A t \in Threads : thr'[t].pc = "idle"

Effect ==
    \/ Keeps \/ Restarts
    \/ \E a \in Addrs, k \in Conns : Creates(a, k)
    \/ \E new \in SUBSET Addrs : Issues(new)
    \/ \E k \in Conns : Refuses(k)
    \/ \E t \in Threads : Begins(t) \/ Silences(t) \/ Answers(t) \/ Writes(t) \/ Ends(t)

(* Every step has one of these effects.                                    *)
LEMMA StepEffect == ReqInv /\ Numbered /\ [Next]_vars => Effect
<1> SUFFICES ASSUME ReqInv /\ Numbered, [Next]_vars PROVE Effect
    OBVIOUS
<1> USE DEF ReqInv, Types, loopVars, sockVars, reqVars
<1>1. ASSUME OnCommandsSocketClosed PROVE Effect
  BY <1>1, BlocksCancelled DEF OnCommandsSocketClosed, OneOwner, Keeps, Effect
<1>2. ASSUME SelectFails \/ Select \/ FirePending \/ FireDone \/ AcceptFails PROVE Effect
  BY <1>2 DEF Keeps, Effect, SelectFails, Select, FirePending, FireDone, AcceptFails
<1>3. ASSUME AcceptStranger PROVE Effect
  BY <1>3, BlocksCancelled DEF AcceptStranger, TurnAway, OneOwner, Keeps, Effect
<1>4. ASSUME SubscriptionFails PROVE Effect
  BY <1>4, BlocksCancelled DEF SubscriptionFails, OneOwner, Keeps, Effect
<1>5. ASSUME AcceptPhone \/ ReadSubscription PROVE Effect
  BY <1>5 DEF Keeps, Effect, AcceptPhone, ReadSubscription
<1>6. ASSUME NEW c \in Clients, CommandsEnter(c) \/ StreamDry(c) PROVE Effect
  BY <1>6 DEF Keeps, Effect, CommandsEnter, StreamDry
<1>7. ASSUME NEW c \in Clients, StreamEnds(c) PROVE Effect
  BY <1>7 DEF Keeps, Effect, StreamEnds, EndStream
<1>8. ASSUME NEW c \in Clients, DropMalformed(c) PROVE Effect
  BY <1>8 DEF Keeps, Effect, DropMalformed
<1>9. ASSUME NEW c \in Clients, RejectUnknown(c) PROVE Effect
  <2>1. PICK k : k = Stream(c)
    OBVIOUS
  <2>2. /\ k \in Conns /\ Record(c)[2] \in Tokens /\ Record(c)[2] = <<k, Taken(k) + 1>>
        /\ Taken(k)' = Taken(k) + 1 /\ Taken(k) \in Nat
    BY <1>9, <2>1, ConnTake, Zenon DEF RejectUnknown
  <2>3. PICK tok \in Tokens, n \in Nat : tok = Record(c)[2] /\ n = 1
    BY <2>2
  <2> DEFINE r == [Idle EXCEPT !.pc = "choose", !.tok = tok, !.client = c, !.left = n]
  <2>4. r.pc = "choose"
    BY RefusalMade, Zenon
  <2>5. r.addr = NULL /\ r.tok = tok
    BY RefusalOf, Zenon
  <2>6. thr' = [thr EXCEPT ![Loop] = r] /\ UNCHANGED <<reqVars, answers>>
    BY <1>9, <2>3 DEF RejectUnknown
  <2> HIDE DEF r
  <2>7. thr'[Loop] = r /\ Rest(Loop)
    BY <2>6 DEF ReqTypes, Threads, Rest
  <2>8. Refuses(k)
    BY <2>2, <2>3, <2>4, <2>5, <2>6, <2>7 DEF Refuses
  <2> QED
    BY <2>2, <2>8 DEF Effect
<1>10. ASSUME NEW c \in Clients, NEW a \in Addrs, DispatchPlain(c, a) PROVE Effect
  <2>1. PICK k : k = Stream(c)
    OBVIOUS
  <2>2. /\ k \in Conns /\ Record(c)[2] \in Tokens /\ Record(c)[2] = <<k, Taken(k) + 1>>
        /\ Taken(k)' = Taken(k) + 1 /\ Taken(k) \in Nat
    BY <1>10, <2>1, ConnTake, Zenon DEF DispatchPlain
  <2>3. NewRequest(a, Record(c)[2], c) /\ UNCHANGED answers
    BY <1>10 DEF DispatchPlain
  <2>4. /\ req[a] = Free /\ req'[a] # Free /\ req'[a].tok = Record(c)[2] /\ ~req'[a].local
        /\ pendingReqs' = pendingReqs \cup {a} /\ \A b \in Addrs : b # a => req'[b] = req[b]
    BY <2>2, <2>3, RequestMade
  <2>5. thr' = thr \/ Over(Loop)
    BY <1>10 DEF DispatchPlain
  <2>6. Creates(a, k)
    BY <2>2, <2>3, <2>4, <2>5 DEF Creates, Blocked
  <2> QED
    BY <2>2, <2>6 DEF Effect
<1>11. ASSUME NEW c \in Clients, NEW a \in Addrs, DispatchRadioTech(c, a) PROVE Effect
  <2>1. PICK k : k = Stream(c)
    OBVIOUS
  <2>2. /\ k \in Conns /\ Record(c)[2] \in Tokens /\ Record(c)[2] = <<k, Taken(k) + 1>>
        /\ Taken(k)' = Taken(k) + 1 /\ Taken(k) \in Nat
    BY <1>11, <2>1, ConnTake, Zenon DEF DispatchRadioTech
  <2>3. NewRequest(a, Record(c)[2], c) /\ UNCHANGED answers
    BY <1>11 DEF DispatchRadioTech
  <2>4. /\ req[a] = Free /\ req'[a] # Free /\ req'[a].tok = Record(c)[2] /\ ~req'[a].local
        /\ pendingReqs' = pendingReqs \cup {a} /\ \A b \in Addrs : b # a => req'[b] = req[b]
    BY <2>2, <2>3, RequestMade
  <2>5. thr' = thr \/ Over(Loop)
    <3>1. CASE ~UNCHANGED thr
      <4>1. PICK n \in {1, 2} : thr' = [thr EXCEPT ![Loop] = [Idle EXCEPT !.pc = "dequeue", !.addr = a,
                                                 !.tok = Record(c)[2], !.left = n]]
        BY <1>11, <3>1 DEF DispatchRadioTech
      <4>2. PICK tok \in Tokens : tok = Record(c)[2]
        BY <2>2
      <4> DEFINE r == [Idle EXCEPT !.pc = "dequeue", !.addr = a, !.tok = tok, !.left = n]
      <4>3. n \in Nat
        OBVIOUS
      <4>4. r.pc = "dequeue"
        BY <4>3, CompletionMade, Zenon
      <4>5. thr' = [thr EXCEPT ![Loop] = r]
        BY <4>1, <4>2
      <4> HIDE DEF r
      <4> QED
        BY <4>4, <4>5 DEF ReqTypes, Threads, Over, Rest
    <3> QED
      BY <3>1
  <2>6. Creates(a, k)
    BY <2>2, <2>3, <2>4, <2>5 DEF Creates, Blocked
  <2> QED
    BY <2>2, <2>6 DEF Effect
<1>12. ASSUME NEW c \in Clients, NEW a \in Addrs, DispatchBadBlock(c, a) PROVE Effect
  <2>1. PICK k : k = Stream(c)
    OBVIOUS
  <2>2. /\ k \in Conns /\ Record(c)[2] \in Tokens /\ Record(c)[2] = <<k, Taken(k) + 1>>
        /\ Taken(k)' = Taken(k) + 1 /\ Taken(k) \in Nat
    BY <1>12, <2>1, ConnTake, Zenon DEF DispatchBadBlock
  <2>3. NewRequest(a, Record(c)[2], c) /\ UNCHANGED answers
    BY <1>12 DEF DispatchBadBlock
  <2>4. /\ req[a] = Free /\ req'[a] # Free /\ req'[a].tok = Record(c)[2] /\ ~req'[a].local
        /\ pendingReqs' = pendingReqs \cup {a} /\ \A b \in Addrs : b # a => req'[b] = req[b]
    BY <2>2, <2>3, RequestMade
  <2>5. thr' = thr \/ Over(Loop)
    BY <1>12 DEF DispatchBadBlock
  <2>6. Creates(a, k)
    BY <2>2, <2>3, <2>4, <2>5 DEF Creates, Blocked
  <2> QED
    BY <2>2, <2>6 DEF Effect
<1>13. ASSUME DebugAccept PROVE Effect
  BY <1>13 DEF Keeps, Effect, DebugAccept
<1>14. ASSUME NEW option \in DebugOptions, DebugRun(option) PROVE Effect
  <2> DEFINE c == conn[DebugConn].by[1]
             tok == <<DebugConn, 0>>
             r == [tok |-> tok, client |-> c, cancelled |-> FALSE, local |-> TRUE]
  <2>1. DebugConn \in Conns
    BY <1>14, DebugChosen DEF DebugRun, SockTypes
  <2>2. tok \in Tokens /\ c \in Clients
    BY <2>1, SessionAssumption DEF Tokens, SockTypes, Sockets
  <2>3. PICK new \in SUBSET FreeAddrs :
           /\ req' = [a \in Addrs |-> IF a \in new THEN r ELSE req[a]]
           /\ pendingReqs' = pendingReqs \cup new
    BY <1>14 DEF DebugRun
  <2>4. r # Free /\ r.local
    BY <2>2, BlockMade
  <2>5. UNCHANGED <<thr, answers>>
    BY <1>14 DEF DebugRun
  <2> HIDE DEF r, tok, c
  <2>6. new \subseteq Addrs /\ \A a \in new : req[a] = Free
    BY DEF FreeAddrs
  <2>7. Issues(new)
    BY <2>3, <2>4, <2>5, <2>6 DEF Issues, Blocked
  <2> QED
    BY <2>6, <2>7 DEF Effect
<1>15. ASSUME NEW t \in Threads, Dequeue(t) PROVE Effect
  <2>1. CASE InvalidToken(t)
    <3>1. Begins(t)
      BY <1>15, <2>1, ThreadReturns DEF InvalidToken, Begins, Over, Rest, Dequeue, Dequeuing
    <3> QED
      BY <3>1 DEF Effect
  <2>2. CASE /\ thr[t].addr \in pendingReqs /\ Return(t) /\ FreeBlock(t)
             /\ pendingReqs' = pendingReqs \ {thr[t].addr}
    <3>1. thr[t].addr \in Addrs
      BY <2>2 DEF ReqTypes
    <3>2. Over(t) /\ req'[thr[t].addr] = Free /\ Blocked({thr[t].addr})
      BY <2>2, <3>1, ThreadReturns, BlockFreed DEF Over, Rest, Blocked
    <3>3. Silences(t)
      BY <1>15, <2>2, <3>2 DEF Silences, Dequeue, Dequeuing
    <3> QED
      BY <3>3 DEF Effect
  <2>3. CASE /\ thr[t].addr \in pendingReqs /\ Answer(t, req[thr[t].addr].client)
             /\ pendingReqs' = pendingReqs \ {thr[t].addr}
             /\ ~(req[thr[t].addr].local \/ req[thr[t].addr].cancelled)
    <3>1. req[thr[t].addr] \in Blocks
      BY <2>3 DEF OneOwner, ReqTypes
    <3>2. req[thr[t].addr].client \in Clients
      BY <3>1 DEF Blocks
    <3>3. thr'[t].pc = "choose" /\ thr'[t].addr = thr[t].addr /\ Rest(t)
      BY <2>3, <3>2, AnswerBegun DEF Rest
    <3>4. Answers(t)
      BY <1>15, <2>3, <3>3 DEF Answers, Answer, Dequeue, Dequeuing
    <3> QED
      BY <3>4 DEF Effect
  <2> QED
    BY <1>15, <2>1, <2>2, <2>3 DEF Dequeue, TakeFromList
<1>16. ASSUME NEW t \in Threads, ChooseFd(t) PROVE Effect
  <2>1. CASE Return(t) /\ FreeBlock(t)
    <3>1. Over(t)
      BY <2>1, ThreadReturns DEF Over, Rest
    <3>2. (thr[t].addr # NULL => req'[thr[t].addr] = Free) /\ Blocked({thr[t].addr})
      BY <2>1, BlockFreed DEF ReqTypes, Completions, Blocked
    <3>3. Ends(t)
      BY <1>16, <3>1, <3>2 DEF ChooseFd, Ends
    <3> QED
      BY <3>3 DEF Effect
  <2>2. CASE ~(Return(t) /\ FreeBlock(t))
    <3> DEFINE f == s_fdCommand[thr[t].client]
    <3>1. /\ thr' = [thr EXCEPT ![t].pc = "write", ![t].fd = f]
          /\ UNCHANGED <<req, pendingReqs, jobs, answers>> /\ thr[t].pc = "choose"
      BY <1>16, <2>2 DEF ChooseFd
    <3> HIDE DEF f
    <3>2. /\ thr'[t].pc = "write" /\ thr'[t].addr = thr[t].addr /\ thr'[t].tok = thr[t].tok
          /\ Rest(t)
      BY <3>1 DEF ReqTypes, Completions, Rest
    <3>3. Writes(t)
      BY <3>1, <3>2 DEF Writes
    <3> QED
      BY <3>3 DEF Effect
  <2> QED
    BY <2>1, <2>2
<1>17. ASSUME NEW t \in Threads, Write(t) PROVE Effect
  <2>1. Over(t)
    BY <1>17, ThreadReturns DEF Over, Rest, Write
  <2>2. (thr[t].addr # NULL => req'[thr[t].addr] = Free) /\ Blocked({thr[t].addr})
    BY <1>17, BlockFreed DEF ReqTypes, Completions, Blocked, Write
  <2>3. \/ answers' = answers
        \/ \E k \in Conns : answers' = [answers EXCEPT ![Token(t)] = Append(@, k)]
    <3>1. CASE fdOwner[thr[t].fd] # NoConn /\ answers' = [answers EXCEPT ![Token(t)] = Append(@, fdOwner[thr[t].fd])]
      <4>1. fdOwner[thr[t].fd] \in Conns
        BY <1>17, <3>1 DEF Write, SockTypes, ReqTypes
      <4> QED
        BY <3>1, <4>1
    <3> QED
      BY <1>17, <3>1 DEF Write
  <2>4. Ends(t)
    BY <1>17, <2>1, <2>2, <2>3 DEF Write, Ends
  <2> QED
    BY <2>4 DEF Effect
<1>18. ASSUME NEW t \in VendorThreads, NEW j \in jobs, VendorCompletes(t, j) PROVE Effect
  <2>0. PICK a \in Addrs, tok \in Tokens, n \in Nat : a = j.addr /\ tok = j.tok /\ n = 1
    BY DEF ReqTypes
  <2> DEFINE r == [Idle EXCEPT !.pc = "dequeue", !.addr = a, !.tok = tok, !.left = n]
  <2>2. r.pc = "dequeue"
    BY CompletionMade, Zenon
  <2>3. thr' = [thr EXCEPT ![t] = r] /\ UNCHANGED <<req, pendingReqs, answers>>
    BY <1>18, <2>0 DEF VendorCompletes
  <2> HIDE DEF r
  <2>4. t \in Threads /\ Begins(t)
    BY <2>2, <2>3 DEF ReqTypes, Threads, Begins, Over, Rest
  <2> QED
    BY <2>4 DEF Effect
<1>19. ASSUME NEW k \in Conns, NEW who \in Visitors, Connect(k, who) PROVE Effect
  BY <1>19 DEF Keeps, Effect, Connect
<1>20. ASSUME NEW k \in Conns, NEW c \in Clients, ConnectDebug(k, c) PROVE Effect
  BY <1>20 DEF Keeps, Effect, ConnectDebug
<1>21. ASSUME NEW k \in Conns, NEW kind \in Kinds, SendRequest(k, kind) PROVE Effect
  BY <1>21 DEF Keeps, Effect, SendRequest
<1>22. ASSUME NEW k \in Conns, HangUp(k) PROVE Effect
  BY <1>22 DEF Keeps, Effect, HangUp
<1>23. ASSUME Restart PROVE Effect
  <2>1. /\ req' = [a \in Addrs |-> Free] /\ pendingReqs' = {}
        /\ thr' = [t \in Threads |-> Idle] /\ answers' = answers
    BY <1>23 DEF Restart, Fresh
  <2>2. Restarts
    BY <2>1, IdleTyped DEF Restarts
  <2> QED
    BY <2>2 DEF Effect
<1>24. CASE UNCHANGED vars
  BY <1>24 DEF Keeps, Effect, vars
<1> QED
  BY <1>1, <1>2, <1>3, <1>4, <1>5, <1>6, <1>7, <1>8, <1>9, <1>10, <1>11, <1>12, <1>13, <1>14,
     <1>15, <1>16, <1>17, <1>18, <1>19, <1>20, <1>21, <1>22, <1>23, <1>24, Zenon DEF Next,
     LoopStep, AcceptStep, CommandsStep, CompleteStep, ClientStep, Threads

(* A block is never freed while it is in use, and never in use twice.      *)
LEMMA OwnerStep == ReqInv /\ Effect => OneOwner'
<1> SUFFICES ASSUME ReqInv, Effect PROVE OneOwner'
    OBVIOUS
<1> USE SessionAssumption DEF ReqInv, OneOwner, Answering, Over, Rest, Blocked
<1>0. /\ pendingReqs \subseteq Addrs /\ Loop \in Threads
      /\ \A t \in Threads : thr[t].addr \in Addrs \cup {NULL}
  BY DEF Types, ReqTypes, Completions, Threads
<1>1. CASE Keeps
  BY <1>0, <1>1 DEF Keeps
<1>2. CASE Restarts
  BY <1>2 DEF Restarts
<1>3. ASSUME NEW a \in Addrs, NEW k \in Conns, Creates(a, k) PROVE OneOwner'
  BY <1>0, <1>3 DEF Creates
<1>4. ASSUME NEW new \in SUBSET Addrs, Issues(new) PROVE OneOwner'
  BY <1>0, <1>4 DEF Issues
<1>5. ASSUME NEW k \in Conns, Refuses(k) PROVE OneOwner'
  BY <1>0, <1>5 DEF Refuses
<1>6. ASSUME NEW t \in Threads, Begins(t) PROVE OneOwner'
  BY <1>0, <1>6 DEF Begins
<1>7. ASSUME NEW t \in Threads, Silences(t) PROVE OneOwner'
  BY <1>0, <1>7 DEF Silences
<1>8. ASSUME NEW t \in Threads, Answers(t) PROVE OneOwner'
  BY <1>0, <1>8 DEF Answers
<1>9. ASSUME NEW t \in Threads, Writes(t) PROVE OneOwner'
  BY <1>0, <1>9 DEF Writes
<1>10. ASSUME NEW t \in Threads, Ends(t) PROVE OneOwner'
  BY <1>0, <1>10 DEF Ends
<1> QED
  BY <1>1, <1>2, <1>3, <1>4, <1>5, <1>6, <1>7, <1>8, <1>9, <1>10 DEF Effect

(* A request nobody waits for is never answered.                           *)
LEMMA LiveStep == ReqInv /\ AnswersLive /\ Effect => AnswersLive'
<1> SUFFICES ASSUME ReqInv, AnswersLive, Effect PROVE AnswersLive'
    OBVIOUS
<1> USE SessionAssumption DEF ReqInv, OneOwner, AnswersLive, Answering, Over, Rest, Blocked
<1>0. /\ pendingReqs \subseteq Addrs /\ Loop \in Threads
      /\ \A t \in Threads : thr[t].addr \in Addrs \cup {NULL}
  BY DEF Types, ReqTypes, Completions, Threads
<1>1. CASE Keeps
  BY <1>0, <1>1 DEF Keeps
<1>2. CASE Restarts
  BY <1>2 DEF Restarts
<1>3. ASSUME NEW a \in Addrs, NEW k \in Conns, Creates(a, k) PROVE AnswersLive'
  BY <1>0, <1>3 DEF Creates
<1>4. ASSUME NEW new \in SUBSET Addrs, Issues(new) PROVE AnswersLive'
  BY <1>0, <1>4 DEF Issues
<1>5. ASSUME NEW k \in Conns, Refuses(k) PROVE AnswersLive'
  BY <1>0, <1>5 DEF Refuses
<1>6. ASSUME NEW t \in Threads, Begins(t) PROVE AnswersLive'
  BY <1>0, <1>6 DEF Begins
<1>7. ASSUME NEW t \in Threads, Silences(t) PROVE AnswersLive'
  BY <1>0, <1>7 DEF Silences
<1>8. ASSUME NEW t \in Threads, Answers(t) PROVE AnswersLive'
  BY <1>0, <1>8 DEF Answers
<1>9. ASSUME NEW t \in Threads, Writes(t) PROVE AnswersLive'
  BY <1>0, <1>9 DEF Writes
<1>10. ASSUME NEW t \in Threads, Ends(t) PROVE AnswersLive'
  BY <1>0, <1>10 DEF Ends
<1> QED
  BY <1>1, <1>2, <1>3, <1>4, <1>5, <1>6, <1>7, <1>8, <1>9, <1>10 DEF Effect

-----------------------------------------------------------------------------
(* A request that was read stays read; the next one was not read before.   *)
LEMMA ReadKept ==
    ASSUME Types, Numbered, ConnMoves, NEW tok \in Tokens, Read(tok)
    PROVE  Read(tok)'
<1>1. tok[1] \in Conns
  BY DEF Tokens
<1>2. PICK k : k = tok[1]
  OBVIOUS
<1>3. Taken(k)' \in Nat /\ Taken(k) <= Taken(k)' /\ tok[2] \in 1 .. Taken(k)
  BY <1>1, <1>2 DEF ConnMoves, Read
<1>4. Taken(k) \in Int
  <2>1. conn[k].sent \in Nat /\ Len(conn[k].inbox) \in Nat
    BY <1>1, <1>2, InboxLen DEF Types, SockTypes, Sockets
  <2> QED
    BY <2>1 DEF Taken
<1>5. tok[2] \in 1 .. Taken(k)'
  BY <1>3, <1>4
<1> QED
  BY <1>2, <1>5 DEF Read

(* The request that is taken next has not been taken before.               *)
LEMMA ReadNew ==
    ASSUME NEW k \in Conns, Taken(k)' = Taken(k) + 1, Taken(k) \in Nat,
           NEW tok, tok = <<k, Taken(k) + 1>>
    PROVE  ~Read(tok) /\ Read(tok)'
<1>1. tok[1] = k /\ tok[2] = Taken(k) + 1
  OBVIOUS
<1>2. PICK n \in Nat : n = Taken(k)
  OBVIOUS
<1>3. tok[2] \notin 1 .. Taken(k) /\ tok[2] \in 1 .. Taken(k)'
  BY <1>1, <1>2
<1> QED
  BY <1>1, <1>3 DEF Read

(* A request that is answered is not held any more.                        *)
LEMMA HolderKept ==
    ASSUME OneHolder, AtMostOneAnswer, NEW tok \in Tokens,
           \A other \in Tokens : Read(other) => Read(other)', Read(tok),
           \A a \in Addrs : Live(a) => req[a].tok \in Tokens,
           Refusing' => Refusing /\ thr'[Loop].tok = thr[Loop].tok /\ thr[Loop].tok # tok,
           \A b \in Addrs : Live(b)' => Live(b) /\ req'[b].tok = req[b].tok /\ req[b].tok # tok,
           Len(answers'[tok]) <= 1, \A other \in Tokens : other # tok => answers'[other] = answers[other]
    PROVE  OneHolder' /\ AtMostOneAnswer'
<1>1. AtMostOneAnswer'
  BY Zenon DEF AtMostOneAnswer
<1>2. /\ \A a \in Addrs : (Live(a) => Read(req[a].tok))'
      /\ Refusing' => thr'[Loop].tok \in Tokens /\ Read(thr[Loop].tok)'
  BY DEF OneHolder
<1>3. \A other \in Tokens : answers'[other] # <<>> => Read(other)'
  BY DEF OneHolder
<1>4. /\ \A a, b \in Addrs : Live(a)' /\ Live(b)' /\ a # b => req'[a].tok # req'[b].tok
      /\ \A a \in Addrs : Live(a)' /\ Refusing' => req'[a].tok # thr'[Loop].tok
  BY DEF OneHolder
<1>5. \A other \in Tokens : answers'[other] # <<>> =>
         (\A a \in Addrs : Live(a)' => req'[a].tok # other) /\ (Refusing' => thr'[Loop].tok # other)
  BY DEF OneHolder
<1> QED
  BY <1>1, <1>2, <1>3, <1>4, <1>5 DEF OneHolder

(* What a request was answered grows only by Ends.                         *)
LEMMA HolderStep == HolderInv /\ ConnMoves /\ Effect /\ ReqTypes' => OneHolder' /\ AtMostOneAnswer'
<1> SUFFICES ASSUME HolderInv, ConnMoves, Effect, ReqTypes' PROVE OneHolder' /\ AtMostOneAnswer'
    OBVIOUS
<1>a. \A tok \in Tokens : Read(tok) => Read(tok)'
  BY ReadKept DEF HolderInv, ReqInv
<1>b. /\ \A a \in Addrs : req[a] # Free => req[a].tok \in Tokens
      /\ \A t \in Threads : thr[t].addr \in Addrs \cup {NULL}
      /\ \A t \in VendorThreads : thr[t].pc \in {"choose", "write"} => thr[t].addr # NULL
      /\ answers \in [Tokens -> Seq(Conns)] /\ pendingReqs \subseteq Addrs
  BY DEF HolderInv, ReqInv, Types, ReqTypes, Blocks, Completions
<1>c. /\ \A a \in Addrs : req'[a] # Free => req'[a].tok \in Tokens
      /\ thr'[Loop].tok \in Tokens \cup {<<0, 0>>}
  BY DEF ReqTypes, Blocks, Completions, Threads
<1>d. Loop \in Threads /\ Threads = VendorThreads \cup {Loop}
  BY DEF Threads
<1>e. OneHolder /\ AtMostOneAnswer /\ OneOwner /\ AnswersLive
  BY DEF HolderInv, ReqInv
<1> USE <1>a, <1>b, <1>c, <1>d, <1>e, SessionAssumption
    DEF OneHolder, AtMostOneAnswer, Live, Refusing, Over, Rest, Blocked
<1>1. CASE Keeps
  BY <1>1 DEF Keeps
<1>2. CASE Restarts
  BY <1>2 DEF Restarts
<1>3. ASSUME NEW a \in Addrs, NEW k \in Conns, Creates(a, k) PROVE OneHolder' /\ AtMostOneAnswer'
  <2>1. PICK tok : tok = <<k, Taken(k) + 1>>
    OBVIOUS
  <2>2. req'[a].tok = tok /\ tok \in Tokens
    BY <1>3, <2>1, SMTT(60) DEF Creates
  <2>2a. ~Read(tok) /\ Read(tok)'
    BY <1>3, <2>1, ReadNew DEF Creates
  <2>3. /\ \A b \in Addrs : Live(b) => req[b].tok # tok
        /\ Refusing => thr[Loop].tok # tok
        /\ answers[tok] = <<>>
    BY <2>2, <2>2a
  <2>4. /\ Refusing' => Refusing /\ thr'[Loop].tok = thr[Loop].tok
        /\ answers' = answers
        /\ \A b \in Addrs : b # a => req'[b] = req[b]
    BY <1>3 DEF Creates
  <2> QED
    BY <2>2, <2>2a, <2>3, <2>4, SMTT(60)
<1>4. ASSUME NEW new \in SUBSET Addrs, Issues(new) PROVE OneHolder' /\ AtMostOneAnswer'
  BY <1>4 DEF Issues
<1>5. ASSUME NEW k \in Conns, Refuses(k) PROVE OneHolder' /\ AtMostOneAnswer'
  <2>1. PICK tok : tok = <<k, Taken(k) + 1>>
    OBVIOUS
  <2>2. ~Read(tok) /\ Read(tok)' /\ thr'[Loop].tok = tok
    BY <1>5, <2>1, ReadNew DEF Refuses
  <2>3. tok \in Tokens
    BY <2>1, <2>2, SessionAssumption DEF Conns
  <2> QED
    BY <1>5, <2>2, <2>3, ZenonT(60) DEF Refuses
<1>6. ASSUME NEW t \in Threads, Begins(t) PROVE OneHolder' /\ AtMostOneAnswer'
  BY <1>6 DEF Begins
<1>7. ASSUME NEW t \in Threads, Silences(t) PROVE OneHolder' /\ AtMostOneAnswer'
  BY <1>7, SMTT(60) DEF Silences
<1>8. ASSUME NEW t \in Threads, Answers(t) PROVE OneHolder' /\ AtMostOneAnswer'
  BY <1>8 DEF Answers
<1>9. ASSUME NEW t \in Threads, Writes(t) PROVE OneHolder' /\ AtMostOneAnswer'
  BY <1>9 DEF Writes
<1>10. ASSUME NEW t \in Threads, Ends(t) PROVE OneHolder' /\ AtMostOneAnswer'
  <2>1. CASE answers' = answers
    BY <1>10, <2>1, SMTT(60) DEF Ends
  <2>2. ASSUME NEW k \in Conns, answers' = [answers EXCEPT ![Token(t)] = Append(@, k)]
        PROVE  OneHolder' /\ AtMostOneAnswer'
    <3>1. PICK tok : tok = Token(t)
      OBVIOUS
    <3>2. CASE thr[t].addr # NULL
      <4>1. PICK a \in Addrs : a = thr[t].addr
        BY <3>2
      <4>2. Live(a) /\ req[a].tok = tok /\ req'[a] = Free /\ Blocked({a})
        BY <1>10, <3>1, <3>2, <4>1 DEF Ends, OneOwner, AnswersLive, Answering, Token
      <4>3. tok \in Tokens /\ answers[tok] = <<>> /\ Read(tok)
        BY <4>2
      <4>4. /\ answers'[tok] = <<k>> /\ answers'[tok] # <<>> /\ Len(answers'[tok]) <= 1
            /\ \A other \in Tokens : other # tok => answers'[other] = answers[other]
        BY <2>2, <3>1, <4>3
      <4>5. Refusing' => Refusing /\ thr'[Loop].tok = thr[Loop].tok
        BY <1>10 DEF Ends
      <4>6. \A b \in Addrs : Live(b)' => Live(b) /\ req'[b].tok = req[b].tok /\ req[b].tok # tok
        BY <4>2
      <4>7. Refusing' => Refusing /\ thr'[Loop].tok = thr[Loop].tok /\ thr[Loop].tok # tok
        BY <4>2, <4>5
      <4>8. \A b \in Addrs : Live(b) => req[b].tok \in Tokens
        OBVIOUS
      <4> HIDE DEF OneHolder, AtMostOneAnswer, Live, Refusing
      <4> QED
        BY HolderKept, <4>3, <4>4, <4>6, <4>7, <4>8, Zenon
    <3>3. CASE thr[t].addr = NULL
      <4>1. t = Loop /\ Refusing /\ ~Refusing' /\ thr[Loop].tok = tok
        BY <1>10, <3>1, <3>3 DEF Ends, Token
      <4>2. tok \in Tokens /\ answers[tok] = <<>> /\ Read(tok)
        BY <4>1
      <4>3. /\ answers'[tok] = <<k>> /\ answers'[tok] # <<>> /\ Len(answers'[tok]) <= 1
            /\ \A other \in Tokens : other # tok => answers'[other] = answers[other]
        BY <2>2, <3>1, <4>2
      <4>4. \A a \in Addrs : req'[a] = req[a]
        BY <1>10, <3>3 DEF Ends
      <4>5. \A b \in Addrs : Live(b)' => Live(b) /\ req'[b].tok = req[b].tok /\ req[b].tok # tok
        BY <4>1, <4>4
      <4>6. Refusing' => Refusing /\ thr'[Loop].tok = thr[Loop].tok /\ thr[Loop].tok # tok
        BY <4>1
      <4>7. \A b \in Addrs : Live(b) => req[b].tok \in Tokens
        OBVIOUS
      <4> HIDE DEF OneHolder, AtMostOneAnswer, Live, Refusing
      <4> QED
        BY HolderKept, <4>2, <4>3, <4>5, <4>6, <4>7, Zenon
    <3> QED
      BY <3>2, <3>3
  <2> QED
    BY <1>10, <2>1, <2>2 DEF Ends
<1> QED
  BY <1>1, <1>2, <1>3, <1>4, <1>5, <1>6, <1>7, <1>8, <1>9, <1>10 DEF Effect

-----------------------------------------------------------------------------
(* The state the daemon starts in.                                         *)
LEMMA SessionInit == Init => HolderInv
<1> SUFFICES ASSUME Init PROVE HolderInv
    OBVIOUS
<1>1. /\ conn = [k \in Conns |-> Unused] /\ answers = [tok \in Tokens |-> <<>>]
      /\ fdOwner = [f \in ConnFds |-> NoConn] /\ s_fdCommand = [c \in Clients |-> -1]
      /\ rs = [c \in Clients \cup {New} |-> 2] /\ req = [a \in Addrs |-> Free] /\ pendingReqs = {}
      /\ jobs = {} /\ thr = [t \in Threads |-> Idle] /\ lpc = "select"
  BY DEF Init, Fresh
<1>2. Unused \in Sockets /\ Unused.sent = 0 /\ Unused.inbox = <<>>
  BY UnusedSocket
<1>3. 2 \in ConnFds
  BY SessionAssumption, WatchAssumption DEF ConnFds
<1>4. SockTypes
  BY <1>1, <1>2, <1>3 DEF SockTypes
<1>5. ReqTypes
  BY <1>1, IdleTyped DEF ReqTypes, Threads
<1>6. Numbered
  BY <1>1, <1>2 DEF Numbered, Taken
<1>7. OneOwner /\ AnswersLive
  BY <1>1, IdleTyped DEF OneOwner, AnswersLive, Answering
<1>8. OneHolder
  BY <1>1, IdleTyped DEF OneHolder, Live, Refusing, Threads
<1>9. AtMostOneAnswer
  BY <1>1 DEF AtMostOneAnswer
<1> QED
  BY <1>4, <1>5, <1>6, <1>7, <1>8, <1>9 DEF HolderInv, ReqInv, Types

(* The requests' invariant: the types, one owner for every block, one      *)
(* holder for every request that was read.                                 *)
THEOREM SessionInvariant == Spec => []HolderInv
<1>1. HolderInv /\ [Next]_vars => HolderInv'
  <2> SUFFICES ASSUME HolderInv, [Next]_vars PROVE HolderInv'
      OBVIOUS
  <2>1. ConnMoves /\ Effect
    BY ConnStep, StepEffect DEF HolderInv, ReqInv
  <2>2. SockTypes' /\ ReqTypes'
    BY SockStep, ReqTypesStep DEF HolderInv, ReqInv
  <2>3. OneOwner' /\ AnswersLive'
    BY <2>1, OwnerStep, LiveStep DEF HolderInv
  <2>4. OneHolder' /\ AtMostOneAnswer'
    BY <2>1, <2>2, HolderStep
  <2> QED
    BY <2>1, <2>2, <2>3, <2>4 DEF HolderInv, ReqInv, Types, ConnMoves
<1> QED
  BY <1>1, SessionInit, PTL DEF Spec

(* checkAndDequeueRequestInfo hands a block to one thread only: no block   *)
(* is freed while it is listed or answered, or answered by two threads.    *)
THEOREM BlocksHaveOneOwner == Spec => []OneOwner
<1>1. HolderInv => OneOwner
  BY DEF HolderInv, ReqInv
<1> QED
  BY <1>1, SessionInvariant, PTL

(* No request gets two answers, however completions, a second completion   *)
(* of the same token, cancellations and reused blocks interleave.          *)
THEOREM OneAnswerEach == Spec => []AtMostOneAnswer
<1>1. HolderInv => AtMostOneAnswer
  BY DEF HolderInv
<1> QED
  BY <1>1, SessionInvariant, PTL
-----------------------------------------------------------------------------
(* The sessions, when clients come one by one: the debug socket is not     *)
(* used, every client names its subscription and connects again only when  *)
(* its old connection is closed, and the watch table has a slot for every  *)
(* event.                                                                  *)
OneByOne ==
    /\ DebugOptions = {} /\ ~EagerReconnect
    /\ \A who \in Visitors : who[2] # "silent"
    /\ MAX_FD_EVENTS >= 4

(* No client has two connections, and only the phone's are accepted.       *)
Calls(s) == s.by[2] = "phone" /\ s.st \in Held
Callers ==
    /\ \A k \in Conns : conn[k].port = "rild" /\ conn[k].by[2] # "silent"
    /\ \A k \in Conns : conn[k].st \in {"accepted", "open"} => conn[k].by[2] = "phone"
    /\ \A j, k \in Conns :
          j # k /\ Calls(conn[j]) /\ Calls(conn[k]) => conn[j].by[1] # conn[k].by[1]

(* A consistent table that has the two listening sockets at their          *)
(* descriptors.                                                            *)
Sane(w) ==
    /\ w \in Watch /\ IndexOK(w) /\ FdsOK(w) /\ NfdsOK(w)
    /\ w.fd["listen"] = ListenFd /\ w.fd["debug"] = DebugFd

(* The descriptor of a client is open and its own.                         *)
Owned(c) ==
    /\ fdOwner[s_fdCommand[c]] \in Conns
    /\ conn[fdOwner[s_fdCommand[c]]].st = "open"
    /\ conn[fdOwner[s_fdCommand[c]]].by[1] = c
Missing == \E c \in 0 .. (s_maxNumClients - 1) : s_fdCommand[c] = -1
Linked ==
    /\ Sane(watch)
    /\ \A c \in Clients :
          /\ Watched(watch, Cmd(c)) <=> s_fdCommand[c] # -1
          /\ s_fdCommand[c] # -1 => watch.fd[Cmd(c)] = s_fdCommand[c] /\ Owned(c)
    /\ Missing => Watched(watch, "listen")

(* The connection whose subscription is being read is not in the table.    *)
Awaited == lpc = "subscribe" => Subscriber \in Conns /\ conn[Subscriber].st = "accepted"
LinkInv == ~torn => Callers /\ Linked /\ Awaited

(* Nobody is silent, and nobody comes to the debug socket.                 *)
Plain == \A k \in Conns : conn[k].port = "rild" /\ conn[k].by[2] # "silent"

(* The four events, by name.                                               *)
LEMMA EventNames ==
    /\ Events = {"listen", "debug", "cmd0", "cmd1"}
    /\ \A c \in Clients : Cmd(c) \in Events /\ Cmd(c) \notin {"listen", "debug"}
    /\ \A c, d \in Clients : c # d => Cmd(c) # Cmd(d)
    /\ \A e \in Events \ {"listen", "debug"} : \E c \in Clients : e = Cmd(c)
    /\ ListenFd \in Fds /\ DebugFd \in Fds /\ ConnFds \subseteq Fds
    /\ ListenFd \notin ConnFds /\ DebugFd \notin ConnFds /\ -1 \notin Fds
BY SessionAssumption, WatchAssumption DEF Clients, Cmd, ListenFd, DebugFd, ConnFds, Fds

(* A table with a slot for every event has one for an event that is not in *)
(* it: two slots never hold the same event.                                *)
LEMMA SlotLeft ==
    ASSUME NEW w \in Watch, IndexOK(w), MAX_FD_EVENTS >= 4, NEW e \in Events, ~Watched(w, e)
    PROVE  FreeSlots(w) # {}
<1> SUFFICES ASSUME FreeSlots(w) = {} PROVE FALSE
    OBVIOUS
<1>1. 0 \in Slots /\ 1 \in Slots /\ 2 \in Slots /\ 3 \in Slots
  BY WatchAssumption DEF Slots
<1>2. \A i \in Slots : w.table[i] \in Events /\ w.index[w.table[i]] = i /\ i # -1
  <2>1. \A i \in Slots : i # -1
    BY WatchAssumption DEF Slots
  <2>2. \A i \in Slots : w.table[i] # NULL /\ w.table[i] \in Events
    BY DEF FreeSlots, Watch
  <2> QED
    BY <2>1, <2>2 DEF IndexOK
<1>3. \A i \in Slots : w.table[i] # e
  BY <1>2 DEF Watched
<1>4. \A i, j \in Slots : i # j => w.table[i] # w.table[j]
  BY <1>2
<1>5. \A i \in Slots : w.table[i] \in {"listen", "debug", "cmd0", "cmd1"} \ {e}
  BY <1>2, <1>3, EventNames
<1>6. e \in {"listen", "debug", "cmd0", "cmd1"}
  BY EventNames
<1> QED
  BY <1>1, <1>4, <1>5, <1>6

(* After ril_event_del the event is not watched.                           *)
LEMMA Deleted ==
    ASSUME NEW w \in Watch, NEW e \in Events, IndexOK(w), FdsOK(w)
    PROVE  ~Watched(EventDel(w, e), e)
<1>1. w.index \in [Events -> Slots \cup {-1}]
  BY DEF Watch
<1>2. CASE w.index[e] \in Slots
  <2>1. w.table[w.index[e]] = e /\ w.table[w.index[e]] # NULL
    BY <1>2, WatchAssumption DEF IndexOK, Slots
  <2>2. \A f \in Events : Watched(RemoveWatch(w, {w.index[e]}), f)
                            <=> Watched(w, f) /\ w.index[f] \notin {w.index[e]}
    BY <1>2, <2>1, RemoveWatchKeepsTable
  <2> QED
    BY <1>2, <2>2 DEF EventDel
<1>3. CASE w.index[e] \notin Slots
  BY <1>1, <1>3 DEF EventDel, Watched
<1> QED
  BY <1>2, <1>3

(* The daemon listens again: nothing else changes in the table.            *)
LEMMA Relistens ==
    ASSUME NEW w, Sane(w), OneByOne,
           \A c \in Clients : Watched(w, Cmd(c)) => w.fd[Cmd(c)] \in ConnFds
    PROVE  /\ Sane(Relisten(w)) /\ Watched(Relisten(w), "listen") /\ Relisten(w).fd = w.fd
           /\ \A e \in Events \ {"listen"} : Watched(Relisten(w), e) <=> Watched(w, e)
<1> DEFINE v == EventDel(w, "listen")
<1>1. "listen" \in Events /\ "debug" \in Events
  BY EventNames
<1>2. /\ v \in Watch /\ v.fd = w.fd /\ IndexOK(v) /\ FdsOK(v) /\ NfdsOK(v)
      /\ \A f \in Events \ {"listen"} : Watched(v, f) <=> Watched(w, f)
  BY <1>1, EventDelKeepsTable DEF Sane
<1>3. ~Watched(v, "listen")
  BY <1>1, Deleted DEF Sane
<1> HIDE DEF v
<1>4. v.fd["listen"] = ListenFd /\ v.fd["debug"] = DebugFd
  BY <1>2 DEF Sane
<1>5. ASSUME NEW f \in Events, Watched(v, f) PROVE v.fd[f] # v.fd["listen"]
  <2>1. CASE f = "debug"
    BY <1>4, <2>1 DEF ListenFd, DebugFd
  <2>2. CASE f # "debug"
    <3>1. PICK c \in Clients : f = Cmd(c)
      BY <1>3, <1>5, <2>2, EventNames
    <3>2. v.fd[f] \in ConnFds
      BY <1>2, <1>5, <3>1, EventNames
    <3> QED
      BY <1>4, <3>2, EventNames
  <2> QED
    BY <2>1, <2>2
<1>6. FreeSlots(v) # {}
  BY <1>1, <1>2, <1>3, SlotLeft DEF OneByOne
<1>7. v.fd["listen"] \in Fds
  BY <1>4, EventNames
<1>8. /\ EventAdd(v, "listen") \in Watch /\ EventAdd(v, "listen").fd = v.fd
      /\ IndexOK(EventAdd(v, "listen")) /\ FdsOK(EventAdd(v, "listen"))
      /\ NfdsOK(EventAdd(v, "listen"))
      /\ \A f \in Events \ {"listen"} : Watched(EventAdd(v, "listen"), f) <=> Watched(v, f)
      /\ Watched(EventAdd(v, "listen"), "listen")
  BY <1>1, <1>2, <1>3, <1>5, <1>6, <1>7, EventAddKeepsTable
<1>9. Relisten(w) = EventAdd(v, "listen")
  BY DEF Relisten, v
<1> QED
  BY <1>2, <1>4, <1>8, <1>9 DEF Sane

(* ril_event_set on an event that is not watched.                          *)
LEMMA IsSet ==
    ASSUME NEW w, Sane(w), NEW c \in Clients, NEW fd \in Fds, ~Watched(w, Cmd(c))
    PROVE  /\ Sane(EventSet(w, Cmd(c), fd, TRUE))
           /\ EventSet(w, Cmd(c), fd, TRUE).fd = [w.fd EXCEPT ![Cmd(c)] = fd]
           /\ \A e \in Events : Watched(EventSet(w, Cmd(c), fd, TRUE), e) <=> Watched(w, e)
<1> DEFINE v == EventSet(w, Cmd(c), fd, TRUE)
<1>1. /\ Cmd(c) \in Events /\ Cmd(c) \notin {"listen", "debug"}
      /\ "listen" \in Events /\ "debug" \in Events
  BY EventNames
<1>2. /\ w.index \in [Events -> Slots \cup {-1}] /\ w.index[Cmd(c)] = -1
      /\ w.fd \in [Events -> Fds \cup {-1}] /\ w.persist \in [Events -> BOOLEAN]
  BY DEF Sane, Watch, Watched
<1>3. [w.index EXCEPT ![Cmd(c)] = -1] = w.index
  BY <1>1, <1>2
<1>4. v = [w EXCEPT !.fd = [w.fd EXCEPT ![Cmd(c)] = fd], !.index = [w.index EXCEPT ![Cmd(c)] = -1],
                    !.persist = [w.persist EXCEPT ![Cmd(c)] = TRUE]]
  BY DEF EventSet
<1>5. /\ v.fd = [w.fd EXCEPT ![Cmd(c)] = fd] /\ v.index = w.index /\ v.table = w.table
      /\ v.readFds = w.readFds /\ v.nfds = w.nfds
      /\ v.persist = [w.persist EXCEPT ![Cmd(c)] = TRUE]
  BY <1>3, <1>4 DEF Sane, Watch
<1>6. v \in Watch
  <2> DEFINE fds == [w.fd EXCEPT ![Cmd(c)] = fd]
             keep == [w.persist EXCEPT ![Cmd(c)] = TRUE]
  <2>1. fds \in [Events -> Fds \cup {-1}] /\ keep \in [Events -> BOOLEAN]
    BY <1>1, <1>2
  <2>2. v = [w EXCEPT !.fd = fds, !.index = w.index, !.persist = keep]
    BY <1>3, <1>4
  <2> HIDE DEF fds, keep
  <2> QED
    BY <1>2, <2>1, <2>2 DEF Sane, Watch
<1> HIDE DEF v
<1>7. \A e \in Events : Watched(v, e) <=> Watched(w, e)
  BY <1>5 DEF Watched
<1>8. \A e \in Events : Watched(v, e) => v.fd[e] = w.fd[e]
  BY <1>1, <1>2, <1>5, <1>7
<1>9. IndexOK(v) /\ NfdsOK(v)
  BY <1>5, <1>7, <1>8 DEF Sane, IndexOK, NfdsOK
<1>10. FdsOK(v)
  <2>1. {f \in Events : Watched(v, f)} = {f \in Events : Watched(w, f)}
    BY <1>7
  <2>2. {v.fd[e] : e \in {f \in Events : Watched(v, f)}} = {w.fd[e] : e \in {f \in Events : Watched(w, f)}}
    BY <1>8, <2>1
  <2> QED
    BY <1>5, <1>7, <1>8, <2>2 DEF Sane, FdsOK
<1>11. v.fd["listen"] = ListenFd /\ v.fd["debug"] = DebugFd
  BY <1>1, <1>2, <1>5 DEF Sane
<1> QED
  BY <1>5, <1>6, <1>7, <1>9, <1>10, <1>11 DEF Sane, v

(* The last two calls of listenCallback, for a descriptor nobody watches.  *)
LEMMA Installed ==
    ASSUME NEW w, Sane(w), OneByOne, NEW c \in Clients, NEW fd \in ConnFds, ~Watched(w, Cmd(c)),
           \A d \in Clients : Watched(w, Cmd(d)) => w.fd[Cmd(d)] # fd
    PROVE  LET u == EventAdd(EventSet(w, Cmd(c), fd, TRUE), Cmd(c))
           IN  /\ Sane(u) /\ u.fd = [w.fd EXCEPT ![Cmd(c)] = fd] /\ Watched(u, Cmd(c))
               /\ \A e \in Events \ {Cmd(c)} : Watched(u, e) <=> Watched(w, e)
<1> DEFINE v == EventSet(w, Cmd(c), fd, TRUE)
<1>1. /\ Cmd(c) \in Events /\ Cmd(c) \notin {"listen", "debug"} /\ fd \in Fds
      /\ fd # ListenFd /\ fd # DebugFd
  BY EventNames
<1>2. /\ Sane(v) /\ v.fd = [w.fd EXCEPT ![Cmd(c)] = fd]
      /\ \A e \in Events : Watched(v, e) <=> Watched(w, e)
  BY <1>1, IsSet
<1> HIDE DEF v
<1>3. w.fd \in [Events -> Fds \cup {-1}]
  BY DEF Sane, Watch
<1>4. v.fd[Cmd(c)] = fd
  BY <1>1, <1>2, <1>3
<1>5. ASSUME NEW f \in Events, Watched(v, f) PROVE v.fd[f] # v.fd[Cmd(c)]
  <2>1. f # Cmd(c) /\ v.fd[f] = w.fd[f] /\ Watched(w, f)
    BY <1>1, <1>2, <1>3, <1>5
  <2>2. CASE f \in {"listen", "debug"}
    BY <1>1, <1>4, <2>1, <2>2 DEF Sane
  <2>3. CASE f \notin {"listen", "debug"}
    <3>1. PICK d \in Clients : f = Cmd(d)
      BY <2>3, EventNames
    <3> QED
      BY <1>4, <2>1, <3>1
  <2> QED
    BY <2>2, <2>3
<1>6. v \in Watch /\ IndexOK(v) /\ FdsOK(v) /\ NfdsOK(v) /\ ~Watched(v, Cmd(c))
  BY <1>1, <1>2 DEF Sane
<1>7. FreeSlots(v) # {}
  BY <1>1, <1>6, SlotLeft DEF OneByOne
<1>8. /\ EventAdd(v, Cmd(c)) \in Watch /\ EventAdd(v, Cmd(c)).fd = v.fd
      /\ IndexOK(EventAdd(v, Cmd(c))) /\ FdsOK(EventAdd(v, Cmd(c))) /\ NfdsOK(EventAdd(v, Cmd(c)))
      /\ \A f \in Events \ {Cmd(c)} : Watched(EventAdd(v, Cmd(c)), f) <=> Watched(v, f)
      /\ Watched(EventAdd(v, Cmd(c)), Cmd(c))
  BY <1>1, <1>4, <1>5, <1>6, <1>7, EventAddKeepsTable
<1> QED
  BY <1>2, <1>8 DEF Sane, v
-----------------------------------------------------------------------------
(* What a step does to a connection once it exists: it is accepted, closed *)
(* or left as it is, and stays its client's.                               *)
Ages ==
    \A k \in Conns :
        /\ conn'[k].by = conn[k].by /\ conn'[k].port = conn[k].port
        /\ \/ conn'[k].st = conn[k].st \/ conn'[k].st = "closed"
           \/ conn[k].st = "queued" /\ conn'[k].st = "accepted" /\ conn[k].by[2] = "phone"
           \/ conn[k].st = "accepted" /\ conn'[k].st = "open"

LEMMA CallersAge == ASSUME Callers, Ages PROVE Callers'
<1>1. \A k \in Conns : conn'[k].by = conn[k].by /\ conn'[k].port = conn[k].port
  BY DEF Ages
<1>2. \A k \in Conns : Calls(conn'[k]) => Calls(conn[k])
  BY DEF Ages, Calls, Held
<1>3. \A k \in Conns : conn'[k].st \in {"accepted", "open"} => conn[k].by[2] = "phone"
  BY DEF Ages, Callers
<1> QED
  BY <1>1, <1>2, <1>3 DEF Callers

(* A client connects only while it has no other connection.                *)
LEMMA CallersConnect ==
    ASSUME OneByOne, SockTypes, Callers, NEW k \in Conns, NEW who \in Visitors, Connect(k, who)
    PROVE  Callers'
<1> DEFINE s == [Unused EXCEPT !.by = who, !.st = "queued", !.peer = TRUE]
<1>1. /\ s.by = who /\ s.st = "queued" /\ s.port = "rild"
  BY DEF Unused
<1>2. conn' = [conn EXCEPT ![k] = s] /\ conn \in [Conns -> Sockets]
  BY DEF Connect, SockTypes
<1> HIDE DEF s
<1>3. conn'[k] = s /\ \A j \in Conns \ {k} : conn'[j] = conn[j]
  BY <1>2
<1>4. who[2] # "silent"
  BY DEF OneByOne
<1>5. ASSUME NEW j \in Conns \ {k}, Calls(conn[j]), Calls(s) PROVE conn[j].by[1] # who[1]
  <2>1. ~Busy(who[1])
    BY <1>1, <1>5 DEF Connect, OneByOne, Calls
  <2> QED
    BY <1>5, <2>1 DEF Busy, Calls, Callers
<1>6. \A j \in Conns : conn'[j].port = "rild" /\ conn'[j].by[2] # "silent"
  BY <1>1, <1>3, <1>4 DEF Callers
<1>7. \A j \in Conns : conn'[j].st \in {"accepted", "open"} => conn'[j].by[2] = "phone"
  BY <1>1, <1>3 DEF Callers
<1>8. ASSUME NEW i \in Conns, NEW j \in Conns, i # j, Calls(conn'[i]), Calls(conn'[j])
      PROVE  conn'[i].by[1] # conn'[j].by[1]
  <2>1. CASE i = k
    BY <1>1, <1>3, <1>5, <1>8, <2>1
  <2>2. CASE j = k
    BY <1>1, <1>3, <1>5, <1>8, <2>2
  <2>3. CASE i # k /\ j # k
    BY <1>3, <1>8, <2>3 DEF Callers
  <2> QED
    BY <2>1, <2>2, <2>3
<1> QED
  BY <1>6, <1>7, <1>8 DEF Callers

(* A step that leaves the table and the descriptors alone and closes no    *)
(* open connection.                                                        *)
LEMMA LinkedKept ==
    ASSUME Linked, UNCHANGED <<watch, s_fdCommand, fdOwner>>,
           \A k \in Conns : conn[k].st = "open" => conn'[k].st = "open" /\ conn'[k].by = conn[k].by
    PROVE  Linked'
<1>1. \A c \in Clients : s_fdCommand[c] # -1 => Owned(c)'
  BY DEF Linked, Owned
<1>2. Missing' <=> Missing
  BY DEF Missing
<1> QED
  BY <1>1, <1>2 DEF Linked, Sane

(* In a linked state the command descriptors are connections.              *)
LEMMA LinkedFds ==
    ASSUME SockTypes, Linked
    PROVE  /\ \A c \in Clients : Watched(watch, Cmd(c)) => watch.fd[Cmd(c)] \in ConnFds
           /\ \A c \in Clients : Watched(watch, Cmd(c)) => fdOwner[watch.fd[Cmd(c)]] \in Conns
           /\ \A c, d \in Clients : c # d /\ s_fdCommand[c] # -1 /\ s_fdCommand[d] # -1 =>
                 s_fdCommand[c] # s_fdCommand[d]
<1>1. \A c \in Clients : s_fdCommand[c] # -1 =>
          s_fdCommand[c] \in ConnFds /\ fdOwner[s_fdCommand[c]] \in Conns
  BY DEF SockTypes, Linked, Owned
<1>2. \A c, d \in Clients : c # d /\ Watched(watch, Cmd(c)) /\ Watched(watch, Cmd(d)) =>
          watch.fd[Cmd(c)] # watch.fd[Cmd(d)]
  BY EventNames DEF Linked, Sane, FdsOK
<1> QED
  BY <1>1, <1>2 DEF Linked

(* listenCallback that takes nobody in.                                    *)
LEMMA LinkedRelisten ==
    ASSUME OneByOne, SockTypes, Linked, UNCHANGED <<s_fdCommand, fdOwner>>,
           watch' = Relisten(watch),
           \A k \in Conns : conn[k].st = "open" => conn'[k].st = "open" /\ conn'[k].by = conn[k].by
    PROVE  Linked'
<1>1. /\ Sane(watch') /\ Watched(watch', "listen") /\ watch'.fd = watch.fd
      /\ \A e \in Events \ {"listen"} : Watched(watch', e) <=> Watched(watch, e)
  BY LinkedFds, Relistens DEF Linked
<1>2. \A c \in Clients : s_fdCommand[c] # -1 => Owned(c)'
  BY DEF Linked, Owned
<1>3. \A c \in Clients : Watched(watch', Cmd(c)) <=> s_fdCommand[c] # -1
  BY <1>1, EventNames DEF Linked
<1> QED
  BY <1>1, <1>2, <1>3 DEF Linked, Sane

(* The client that is taken in had no connection, so its event was not     *)
(* watched.                                                                *)
LEMMA LinkedAccept ==
    ASSUME OneByOne, SockTypes, Callers, Linked, Awaited, ReadSubscription, conn[Subscriber].peer
    PROVE  Linked'
<1> DEFINE k == Subscriber
           c == conn[k].by[1]
           fd == rs[New]
           all == \A i \in 0 .. (s_maxNumClients - 1) : s_fdCommand'[i] # -1
           w == IF all THEN EventDel(watch, "listen") ELSE watch
<1>1. /\ k \in Conns /\ conn[k].st = "accepted" /\ fd \in ConnFds /\ fdOwner[fd] = k
      /\ conn[k].by[2] = "phone"
  BY DEF ReadSubscription, Subscribing, Subscriber, Awaited, SockTypes
<1>2. c \in Clients
  BY <1>1 DEF SockTypes, Sockets
<1>3. /\ conn' = [conn EXCEPT ![k].st = "open"] /\ fdOwner' = fdOwner
      /\ s_fdCommand' = [s_fdCommand EXCEPT ![c] = fd]
      /\ watch' = EventAdd(EventSet(w, Cmd(c), fd, TRUE), Cmd(c))
  BY DEF ReadSubscription, Install
<1> HIDE DEF k, fd, w, all
<1>4. s_fdCommand[c] = -1
  <2> SUFFICES ASSUME s_fdCommand[c] # -1 PROVE FALSE
      OBVIOUS
  <2> DEFINE j == fdOwner[s_fdCommand[c]]
  <2>1. j \in Conns /\ conn[j].st = "open" /\ conn[j].by[1] = c
    BY <1>2 DEF Linked, Owned
  <2> QED
    BY <1>1, <2>1 DEF Callers, Calls, Held
<1> HIDE DEF c
<1>5. ~Watched(watch, Cmd(c)) /\ "listen" \in Events /\ Cmd(c) \in Events /\ Cmd(c) # "listen"
  BY <1>2, <1>4, EventNames DEF Linked
<1>6. /\ Sane(w) /\ w.fd = watch.fd
      /\ \A e \in Events \ {"listen"} : Watched(w, e) <=> Watched(watch, e)
      /\ ~all => w = watch
  BY <1>5, EventDelKeepsTable DEF Linked, Sane, w
<1>7. \A d \in Clients : Watched(w, Cmd(d)) => w.fd[Cmd(d)] # fd
  <2> SUFFICES ASSUME NEW d \in Clients, Watched(w, Cmd(d)) PROVE w.fd[Cmd(d)] # fd
      OBVIOUS
  <2>1. Watched(watch, Cmd(d))
    BY <1>6, EventNames
  <2>2. conn[fdOwner[w.fd[Cmd(d)]]].st = "open"
    BY <1>6, <2>1 DEF Linked, Owned
  <2> QED
    BY <1>1, <2>2
<1>8. ~Watched(w, Cmd(c))
  BY <1>5, <1>6
<1>9. /\ Sane(watch') /\ watch'.fd = [w.fd EXCEPT ![Cmd(c)] = fd] /\ Watched(watch', Cmd(c))
      /\ \A e \in Events \ {Cmd(c)} : Watched(watch', e) <=> Watched(w, e)
  BY <1>1, <1>2, <1>3, <1>6, <1>7, <1>8, Installed
<1>10. watch.fd \in [Events -> Fds \cup {-1}]
  BY DEF Linked, Sane, Watch
<1>11. /\ conn'[k].st = "open" /\ conn'[k].by[1] = c
       /\ \A j \in Conns : conn[j].st = "open" => conn'[j] = conn[j]
  BY <1>1, <1>3 DEF SockTypes, Sockets, c
<1>12. ASSUME NEW d \in Clients
       PROVE  /\ Watched(watch', Cmd(d)) <=> s_fdCommand'[d] # -1
              /\ s_fdCommand'[d] # -1 => watch'.fd[Cmd(d)] = s_fdCommand'[d] /\ Owned(d)'
  <2>1. CASE d = c
    <3>1. s_fdCommand'[d] = fd /\ fd # -1 /\ fdOwner'[fd] = k
      BY <1>1, <1>2, <1>3, <2>1, EventNames DEF SockTypes
    <3>2. watch'.fd[Cmd(d)] = fd
      BY <1>5, <1>6, <1>9, <1>10, <2>1
    <3> QED
      BY <1>1, <1>9, <1>11, <2>1, <3>1, <3>2 DEF Owned
  <2>2. CASE d # c
    <3>1. s_fdCommand'[d] = s_fdCommand[d] /\ Cmd(d) # Cmd(c) /\ Cmd(d) \in Events \ {"listen"}
      BY <1>2, <1>3, <2>2, EventNames DEF SockTypes
    <3>2. Watched(watch', Cmd(d)) <=> s_fdCommand[d] # -1
      BY <1>6, <1>9, <3>1 DEF Linked
    <3>3. ASSUME s_fdCommand[d] # -1 PROVE watch'.fd[Cmd(d)] = s_fdCommand[d] /\ Owned(d)'
      <4>1. watch.fd[Cmd(d)] = s_fdCommand[d] /\ Owned(d) /\ Watched(watch, Cmd(d))
        BY <3>3 DEF Linked
      <4>2. fdOwner' = fdOwner
        BY <1>3
      <4>4. Owned(d)'
        BY <1>11, <3>1, <4>1, <4>2 DEF Owned
      <4>5. watch'.fd[Cmd(d)] = watch.fd[Cmd(d)]
        BY <1>6, <1>9, <1>10, <3>1
      <4> QED
        BY <4>1, <4>4, <4>5
    <3> QED
      BY <3>1, <3>2, <3>3
  <2> QED
    BY <2>1, <2>2
<1>13. Missing' => Watched(watch', "listen")
  <2> SUFFICES ASSUME Missing' PROVE Watched(watch', "listen")
      OBVIOUS
  <2>1. PICK i \in 0 .. (s_maxNumClients - 1) : s_fdCommand'[i] = -1
    BY DEF Missing
  <2>2. i \in Clients /\ ~all
    BY <2>1, SessionAssumption DEF all, Clients
  <2>3. s_fdCommand[i] = -1
    BY <1>1, <1>2, <1>3, <2>1, <2>2, EventNames DEF SockTypes
  <2>4. Watched(watch, "listen")
    BY <2>3 DEF Linked, Missing
  <2> QED
    BY <1>5, <1>6, <1>9, <2>2, <2>4
<1> QED
  BY <1>9, <1>12, <1>13 DEF Linked

(* The end of a stream: the client's descriptor is closed, its event       *)
(* leaves the table, and the daemon listens.                               *)
LEMMA LinkedEnd ==
    ASSUME OneByOne, SockTypes, Linked, NEW c \in Clients, StreamEnds(c)
    PROVE  Linked'
<1> DEFINE w == EventDel(watch, Cmd(c))
           f == s_fdCommand[c]
<1>1. /\ CloseFd(f) /\ s_fdCommand' = [s_fdCommand EXCEPT ![c] = -1] /\ watch' = Relisten(w)
  BY DEF StreamEnds, EndStream
<1>2. Cmd(c) \in Events /\ Cmd(c) \notin {"listen", "debug"}
  BY EventNames
<1>3. /\ Sane(w) /\ w.fd = watch.fd /\ ~Watched(w, Cmd(c))
      /\ \A e \in Events \ {Cmd(c)} : Watched(w, e) <=> Watched(watch, e)
  BY <1>2, EventDelKeepsTable, Deleted DEF Linked, Sane
<1> HIDE DEF w
<1>4. \A d \in Clients : Watched(w, Cmd(d)) => w.fd[Cmd(d)] \in ConnFds
  BY <1>2, <1>3, LinkedFds, EventNames
<1>5. /\ Sane(watch') /\ Watched(watch', "listen") /\ watch'.fd = watch.fd
      /\ \A e \in Events \ {"listen"} : Watched(watch', e) <=> Watched(w, e)
  BY <1>1, <1>3, <1>4, Relistens
<1>6. ASSUME NEW d \in Clients
      PROVE  /\ Watched(watch', Cmd(d)) <=> s_fdCommand'[d] # -1
             /\ s_fdCommand'[d] # -1 => watch'.fd[Cmd(d)] = s_fdCommand'[d] /\ Owned(d)'
  <2>1. CASE d = c
    <3>1. s_fdCommand'[d] = -1
      BY <1>1, <2>1 DEF SockTypes
    <3>2. ~Watched(watch', Cmd(d))
      BY <1>2, <1>3, <1>5, <2>1
    <3> QED
      BY <3>1, <3>2
  <2>2. CASE d # c
    <3>1. s_fdCommand'[d] = s_fdCommand[d] /\ Cmd(d) # Cmd(c) /\ Cmd(d) \in Events \ {"listen"}
      BY <1>1, <2>2, EventNames DEF SockTypes
    <3>2. Watched(watch', Cmd(d)) <=> s_fdCommand[d] # -1
      BY <1>3, <1>5, <3>1 DEF Linked
    <3>3. ASSUME s_fdCommand[d] # -1 PROVE watch'.fd[Cmd(d)] = s_fdCommand[d] /\ Owned(d)'
      <4> DEFINE g == s_fdCommand[d]
                 j == fdOwner[g]
      <4>1. watch.fd[Cmd(d)] = g /\ g \in ConnFds /\ j \in Conns /\ conn[j].st = "open" /\ conn[j].by[1] = d
        BY <3>3 DEF Linked, Owned, SockTypes
      <4>2. fdOwner'[g] = j /\ conn'[j] = conn[j]
        <5>1. CASE f \in ConnFds /\ fdOwner[f] # NoConn
          <6>1. f # -1
            BY <5>1, EventNames
          <6>2. f # g
            BY <2>2, <3>3, <6>1, LinkedFds
          <6>3. fdOwner[f] \in Conns /\ conn[fdOwner[f]].by[1] = c
            BY <6>1 DEF Linked, Owned
          <6>4. /\ conn' = [conn EXCEPT ![fdOwner[f]] = [@ EXCEPT !.st = "closed", !.inbox = <<>>]]
                /\ fdOwner' = [fdOwner EXCEPT ![f] = NoConn]
            BY <1>1, <5>1 DEF CloseFd
          <6> HIDE DEF f, g, j
          <6>5. fdOwner[f] # j
            BY <2>2, <4>1, <6>3
          <6>6. conn'[j] = conn[j]
            BY <4>1, <6>4, <6>5 DEF SockTypes
          <6>7. fdOwner'[g] = fdOwner[g]
            BY <4>1, <6>2, <6>4 DEF SockTypes
          <6> QED
            BY <6>6, <6>7 DEF j
        <5>2. CASE ~(f \in ConnFds /\ fdOwner[f] # NoConn)
          BY <1>1, <5>2 DEF CloseFd
        <5> QED
          BY <5>1, <5>2
      <4> QED
        BY <1>5, <3>1, <4>1, <4>2 DEF Owned
    <3> QED
      BY <3>1, <3>2, <3>3
  <2> QED
    BY <2>1, <2>2
<1> QED
  BY <1>5, <1>6 DEF Linked

(* A restarted daemon, like a new one, has no client and listens.          *)
LEMMA StartSane ==
    OneByOne => /\ Sane(StartWatch) /\ Watched(StartWatch, "listen") /\ Watched(StartWatch, "debug")
                /\ \A c \in Clients : ~Watched(StartWatch, Cmd(c))
<1> SUFFICES ASSUME OneByOne
             PROVE  /\ Sane(StartWatch) /\ Watched(StartWatch, "listen") /\ Watched(StartWatch, "debug")
                    /\ \A c \in Clients : ~Watched(StartWatch, Cmd(c))
    OBVIOUS
<1> DEFINE fds == [e \in Events |-> CASE e = "listen" -> ListenFd [] e = "debug" -> DebugFd
                                      [] OTHER -> -1]
           w0 == NoWatch(fds, [e \in Events |-> TRUE])
           w1 == EventAdd(w0, "listen")
           w2 == EventAdd(w1, "debug")
<1>1. "listen" \in Events /\ "debug" \in Events
  BY EventNames
<1>2. fds \in [Events -> Fds \cup {-1}] /\ fds["listen"] = ListenFd /\ fds["debug"] = DebugFd
  BY <1>1, EventNames
<1> HIDE DEF fds
<1>3. w0 \in Watch /\ w0.fd = fds /\ \A e \in Events : ~Watched(w0, e)
  BY <1>2, WatchAssumption DEF NoWatch, Watch, Watched
<1>4. IndexOK(w0) /\ FdsOK(w0) /\ NfdsOK(w0)
  <2>1. w0.readFds = {} /\ \A i \in Slots : w0.table[i] = NULL
    BY DEF NoWatch
  <2>2. {f \in Events : Watched(w0, f)} = {}
    BY <1>3
  <2> QED
    BY <1>3, <2>1, <2>2 DEF IndexOK, FdsOK, NfdsOK, Watched
<1> HIDE DEF w0
<1>5. FreeSlots(w0) # {}
  BY <1>1, <1>3, <1>4, SlotLeft DEF OneByOne
<1>6. /\ w1 \in Watch /\ w1.fd = fds /\ IndexOK(w1) /\ FdsOK(w1) /\ NfdsOK(w1)
      /\ \A f \in Events \ {"listen"} : ~Watched(w1, f)
      /\ Watched(w1, "listen")
  BY <1>1, <1>2, <1>3, <1>4, <1>5, EventNames, EventAddKeepsTable
<1> HIDE DEF w1
<1>7. FreeSlots(w1) # {}
  BY <1>1, <1>6, SlotLeft DEF OneByOne
<1>8. \A f \in Events : Watched(w1, f) => w1.fd[f] # w1.fd["debug"]
  BY <1>2, <1>6 DEF ListenFd, DebugFd
<1>9. /\ w2 \in Watch /\ w2.fd = fds /\ IndexOK(w2) /\ FdsOK(w2) /\ NfdsOK(w2)
      /\ \A f \in Events \ {"debug"} : Watched(w2, f) <=> Watched(w1, f)
      /\ Watched(w2, "debug")
  BY <1>1, <1>2, <1>6, <1>7, <1>8, EventNames, EventAddKeepsTable
<1>10. StartWatch = w2
  BY DEF StartWatch, w2, w1, w0, fds
<1> HIDE DEF w2
<1> QED
  BY <1>1, <1>2, <1>6, <1>9, <1>10, EventNames DEF Sane

(* Who has come by which socket does not change.                           *)
LEMMA PlainStep == OneByOne /\ Types /\ Plain /\ [Next]_vars => Plain'
<1> SUFFICES ASSUME OneByOne, Types, Plain, [Next]_vars PROVE Plain'
    OBVIOUS
<1> USE DEF loopVars, sockVars
<1>0. conn \in [Conns -> Sockets] /\ fdOwner \in [ConnFds -> Conns \cup {NoConn}]
  BY DEF Types, SockTypes
<1>a. ASSUME \A k \in Conns : conn'[k].by = conn[k].by /\ conn'[k].port = conn[k].port PROVE Plain'
  BY <1>a DEF Plain
<1>b. ASSUME UNCHANGED conn PROVE Plain'
  BY <1>b DEF Plain
<1>c. ASSUME NEW f, CloseFd(f) PROVE Plain'
  <2>1. CASE f \in ConnFds /\ fdOwner[f] # NoConn
    <3> DEFINE k == fdOwner[f]
    <3>1. conn' = [conn EXCEPT ![k] = [@ EXCEPT !.st = "closed", !.inbox = <<>>]] /\ k \in Conns
      BY <1>0, <1>c, <2>1 DEF CloseFd
    <3> HIDE DEF k
    <3> QED
      BY <1>0, <1>a, <3>1 DEF Sockets
  <2>2. CASE ~(f \in ConnFds /\ fdOwner[f] # NoConn)
    BY <1>b, <1>c, <2>2 DEF CloseFd
  <2> QED
    BY <2>1, <2>2
<1>d. ASSUME NEW k, NEW st, conn' = [conn EXCEPT ![k].st = st] PROVE Plain'
  BY <1>0, <1>a, <1>d DEF Sockets
<1>1. ASSUME SelectFails \/ Select \/ FirePending \/ FireDone \/ OnCommandsSocketClosed \/ AcceptFails
      PROVE Plain'
  BY <1>1, <1>b DEF SelectFails, Select, FirePending, FireDone, OnCommandsSocketClosed, AcceptFails
<1>2. ASSUME AcceptStep PROVE Plain'
  BY <1>2, <1>d DEF AcceptStep, AcceptStranger, TurnAway, AcceptPhone
<1>3. ASSUME ReadSubscription \/ SubscriptionFails PROVE Plain'
  BY <1>3, <1>c, <1>d DEF ReadSubscription, SubscriptionFails
<1>4. ASSUME NEW c \in Clients, CommandsEnter(c) \/ StreamDry(c) PROVE Plain'
  BY <1>4, <1>b DEF CommandsEnter, StreamDry
<1>5. ASSUME NEW c \in Clients, StreamEnds(c) PROVE Plain'
  BY <1>5, <1>c DEF StreamEnds, EndStream
<1>6. ASSUME NEW c \in Clients, TakeRecord(c) PROVE Plain'
  BY <1>0, <1>6, <1>a DEF TakeRecord, Sockets
<1>7. ASSUME NEW c \in Clients, DropMalformed(c) \/ RejectUnknown(c) PROVE Plain'
  BY <1>6, <1>7 DEF DropMalformed, RejectUnknown, HasRecord
<1>8. ASSUME NEW c \in Clients, NEW a \in Addrs,
             DispatchPlain(c, a) \/ DispatchRadioTech(c, a) \/ DispatchBadBlock(c, a)
      PROVE Plain'
  BY <1>6, <1>8 DEF DispatchPlain, DispatchRadioTech, DispatchBadBlock, HasRecord
<1>9. ASSUME DebugAccept PROVE Plain'
  BY <1>9, <1>b, <1>d DEF DebugAccept
<1>10. ASSUME NEW option \in DebugOptions PROVE FALSE
  BY <1>10 DEF OneByOne
<1>11. ASSUME NEW t \in Threads, Dequeue(t) \/ ChooseFd(t) PROVE Plain'
  BY <1>11, <1>b DEF Dequeue, Dequeuing, ChooseFd
<1>12. ASSUME NEW t \in Threads, Write(t) PROVE Plain'
  BY <1>12, <1>b, <1>c DEF Write
<1>13. ASSUME NEW t \in VendorThreads, NEW j \in jobs, VendorCompletes(t, j) PROVE Plain'
  BY <1>13, <1>b DEF VendorCompletes
<1>14. ASSUME NEW k \in Conns, NEW who \in Visitors, Connect(k, who) PROVE Plain'
  <2> DEFINE s == [Unused EXCEPT !.by = who, !.st = "queued", !.peer = TRUE]
  <2>1. s.by = who /\ s.port = "rild"
    BY DEF Unused
  <2>2. conn' = [conn EXCEPT ![k] = s] /\ who[2] # "silent"
    BY <1>14 DEF Connect, OneByOne
  <2> HIDE DEF s
  <2> QED
    BY <1>0, <2>1, <2>2 DEF Plain
<1>15. ASSUME NEW k \in Conns, NEW c \in Clients, ConnectDebug(k, c) PROVE FALSE
  BY <1>15 DEF ConnectDebug, OneByOne
<1>16. ASSUME NEW k \in Conns, NEW kind \in Kinds, SendRequest(k, kind) PROVE Plain'
  BY <1>0, <1>16, <1>a DEF SendRequest, Sockets
<1>17. ASSUME NEW k \in Conns, HangUp(k) PROVE Plain'
  BY <1>0, <1>17, <1>a DEF HangUp, Sockets
<1>18. ASSUME Restart PROVE Plain'
  BY <1>0, <1>18, <1>a DEF Restart, Sockets
<1>19. CASE UNCHANGED vars
  BY <1>19, <1>b DEF vars
<1> QED
  BY <1>1, <1>2, <1>3, <1>4, <1>5, <1>7, <1>8, <1>9, <1>10, <1>11, <1>12, <1>13, <1>14, <1>15,
     <1>16, <1>17, <1>18, <1>19, Zenon
     DEF Next, LoopStep, CommandsStep, CompleteStep, ClientStep, Threads

(* Only a restart mends what a failed write has torn.                      *)
LEMMA TornStep == ASSUME torn, [Next]_vars, ~Restart PROVE torn'
<1> USE DEF loopVars, sockVars, reqVars
<1>1. ASSUME SelectFails \/ Select \/ FirePending \/ FireDone \/ OnCommandsSocketClosed \/ AcceptFails
             \/ AcceptStep \/ ReadSubscription \/ SubscriptionFails \/ DebugAccept
      PROVE torn'
  BY <1>1 DEF SelectFails, Select, FirePending, FireDone, OnCommandsSocketClosed, AcceptFails,
              AcceptStep, AcceptStranger, TurnAway, AcceptPhone, ReadSubscription,
              SubscriptionFails, DebugAccept
<1>2. ASSUME NEW c \in Clients, CommandsStep(c) PROVE torn'
  BY <1>2 DEF CommandsStep, CommandsEnter, StreamDry, StreamEnds, EndStream, DropMalformed,
              RejectUnknown, DispatchPlain, DispatchRadioTech, DispatchBadBlock
<1>3. ASSUME NEW option \in DebugOptions, DebugRun(option) PROVE torn'
  BY <1>3 DEF DebugRun
<1>4. ASSUME NEW t \in Threads, CompleteStep(t) PROVE torn'
  BY <1>4 DEF CompleteStep, Dequeue, Dequeuing, ChooseFd, Write
<1>5. ASSUME NEW t \in VendorThreads, NEW j \in jobs, VendorCompletes(t, j) PROVE torn'
  BY <1>5 DEF VendorCompletes
<1>6. ASSUME ClientStep PROVE torn'
  BY <1>6 DEF ClientStep, Connect, ConnectDebug, SendRequest, HangUp
<1>7. CASE UNCHANGED vars
  BY <1>7 DEF vars
<1> QED
  BY <1>1, <1>2, <1>3, <1>4, <1>5, <1>6, <1>7, Zenon DEF Next, LoopStep, Threads

(* A restarted daemon has no connection, and its table is sane.            *)
LEMMA RestartLinks == ASSUME OneByOne, Types, Plain, Restart PROVE LinkInv'
<1>1. watch' = StartWatch /\ s_fdCommand' = [c \in Clients |-> -1]
  BY DEF Restart, Fresh
<1>2. conn' = [k \in Conns |-> IF conn[k].st \in Held
                                 THEN [conn[k] EXCEPT !.st = "closed", !.inbox = <<>>] ELSE conn[k]]
  BY DEF Restart
<1>3. \A k \in Conns : conn[k] \in Sockets
  BY DEF Types, SockTypes
<1>4. \A k \in Conns : /\ conn'[k].by = conn[k].by /\ conn'[k].port = conn[k].port
                        /\ conn'[k].st \notin Held
  BY <1>2, <1>3 DEF Held, Sockets
<1>5. Callers'
  BY <1>4 DEF Callers, Calls, Held, Plain
<1>6. Linked' /\ Awaited'
  BY <1>1, StartSane DEF Linked, Missing, Sane, Awaited, Restart, Fresh
<1> QED
  BY <1>5, <1>6 DEF LinkInv

(* Every step keeps the links, unless it is a write that fails on an open  *)
(* connection.                                                             *)
LEMMA LinkStep ==
    OneByOne /\ Types /\ Numbered /\ Plain /\ LinkInv /\ [Next]_vars => LinkInv'
<1> SUFFICES ASSUME OneByOne, Types, Numbered, Plain, LinkInv, [Next]_vars, ~torn, ~Restart PROVE LinkInv'
    BY RestartLinks, TornStep DEF LinkInv
<1> USE DEF loopVars, sockVars
<1>0. SockTypes /\ Callers /\ conn \in [Conns -> Sockets]
  BY DEF Types, SockTypes, LinkInv
<1>a. ASSUME UNCHANGED <<conn, watch, s_fdCommand, fdOwner, torn, rs>>, lpc' = "subscribe" => lpc = "subscribe"
      PROVE  LinkInv'
  <2>1. Callers'
    BY <1>a, <1>0, CallersAge DEF Ages
  <2>2. ~torn => Linked'
    BY <1>a, LinkedKept DEF LinkInv
  <2>3. ~torn => Awaited'
    BY <1>a DEF LinkInv, Awaited, Subscriber
  <2> QED
    BY <1>a, <2>1, <2>2, <2>3 DEF LinkInv
<1>b. ASSUME UNCHANGED <<watch, s_fdCommand, fdOwner, torn, rs>>, Ages,
             lpc' = "subscribe" => lpc = "subscribe",
             \A k \in Conns : conn[k].st \in {"accepted", "open"} => conn'[k].st = conn[k].st
      PROVE  LinkInv'
  <2>1. Callers'
    BY <1>b, <1>0, CallersAge
  <2>2. ~torn => Linked'
    BY <1>b, LinkedKept DEF LinkInv, Ages
  <2>3. ~torn => Awaited'
    BY <1>b DEF LinkInv, Awaited, Subscriber
  <2> QED
    BY <1>b, <2>1, <2>2, <2>3 DEF LinkInv
<1>1. ASSUME SelectFails \/ Select \/ FirePending \/ FireDone \/ OnCommandsSocketClosed PROVE LinkInv'
  BY <1>1, <1>a DEF SelectFails, Select, FirePending, FireDone, OnCommandsSocketClosed
<1>2. ASSUME AcceptFails PROVE LinkInv'
  <2>1. UNCHANGED <<conn, s_fdCommand, fdOwner, torn>> /\ watch' = Relisten(watch) /\ Awaited'
    BY <1>2 DEF AcceptFails, Awaited
  <2>2. Callers'
    BY <2>1, <1>0, CallersAge DEF Ages
  <2>3. ~torn => Linked'
    BY <1>0, <2>1, LinkedRelisten DEF LinkInv
  <2> QED
    BY <2>1, <2>2, <2>3 DEF LinkInv
<1>3. ASSUME AcceptStranger PROVE LinkInv'
  <2> DEFINE k == FirstQueued("rild")
  <2>1. /\ UNCHANGED <<s_fdCommand, fdOwner, torn>> /\ watch' = Relisten(watch) /\ Awaited'
        /\ conn' = [conn EXCEPT ![k].st = "closed"] /\ k \in Conns /\ conn[k].st = "queued"
    BY <1>3, ConnChosen DEF AcceptStranger, TurnAway, Queued, Awaited
  <2> HIDE DEF k
  <2>2. /\ conn'[k].st = "closed" /\ conn'[k].by = conn[k].by /\ conn'[k].port = conn[k].port
        /\ \A j \in Conns \ {k} : conn'[j] = conn[j]
    BY <1>0, <2>1 DEF Sockets
  <2>3. Callers'
    BY <2>1, <2>2, <1>0, CallersAge DEF Ages
  <2>4. \A j \in Conns : conn[j].st = "open" => conn'[j] = conn[j]
    BY <2>1, <2>2
  <2>5. ~torn => Linked'
    BY <1>0, <2>1, <2>4, LinkedRelisten DEF LinkInv
  <2> QED
    BY <2>1, <2>3, <2>5 DEF LinkInv
<1>5. ASSUME AcceptPhone PROVE LinkInv'
  <2> DEFINE k == FirstQueued("rild")
             fd == LowestFd(FreeFds)
  <2>1. /\ conn' = [conn EXCEPT ![k].st = "accepted"] /\ k \in Conns /\ conn[k].st = "queued"
        /\ conn[k].by[2] = "phone" /\ UNCHANGED <<torn, watch, s_fdCommand>>
        /\ fd \in ConnFds /\ fdOwner[fd] = NoConn /\ fdOwner' = [fdOwner EXCEPT ![fd] = k]
        /\ rs' = [rs EXCEPT ![New] = fd]
    BY <1>0, <1>5, ConnChosen, FdChosen DEF AcceptPhone, Queued, FreeFds, Callers, Sockets
  <2> HIDE DEF k, fd
  <2>2. /\ conn'[k].st = "accepted" /\ conn'[k].by = conn[k].by /\ conn'[k].port = conn[k].port
        /\ \A j \in Conns \ {k} : conn'[j] = conn[j]
    BY <1>0, <2>1 DEF Sockets
  <2>3. Callers'
    BY <2>1, <2>2, <1>0, CallersAge DEF Ages
  <2>4. ASSUME Linked PROVE Linked'
    <3>1. \A c \in Clients : s_fdCommand[c] # -1 => Owned(c)'
      <4> SUFFICES ASSUME NEW c \in Clients, s_fdCommand[c] # -1 PROVE Owned(c)'
          OBVIOUS
      <4>1. Owned(c) /\ s_fdCommand[c] \in ConnFds
        BY <1>0, <2>4 DEF Linked, SockTypes
      <4>2. s_fdCommand[c] # fd
        BY <2>1, <4>1 DEF Owned, Conns, NoConn
      <4>3. fdOwner'[s_fdCommand[c]] = fdOwner[s_fdCommand[c]]
        BY <1>0, <2>1, <4>1, <4>2 DEF SockTypes
      <4> QED
        BY <2>1, <2>2, <4>1, <4>3 DEF Owned
    <3>2. Missing' <=> Missing
      BY <2>1 DEF Missing
    <3> QED
      BY <2>1, <2>4, <3>1, <3>2 DEF Linked, Sane
  <2>5. Awaited'
    <3>1. rs'[New] = fd /\ fdOwner'[fd] = k
      BY <1>0, <2>1 DEF SockTypes
    <3> QED
      BY <2>1, <2>2, <3>1 DEF Awaited, Subscriber
  <2> QED
    BY <2>1, <2>3, <2>4, <2>5 DEF LinkInv
<1>6. ASSUME NEW c \in Clients, CommandsEnter(c) \/ StreamDry(c) PROVE LinkInv'
  BY <1>6, <1>a DEF CommandsEnter, StreamDry
<1>7. ASSUME NEW f, CloseFd(f) PROVE Ages
  <2>1. CASE f \in ConnFds /\ fdOwner[f] # NoConn
    <3> DEFINE k == fdOwner[f]
    <3>1. /\ conn' = [conn EXCEPT ![k] = [@ EXCEPT !.st = "closed", !.inbox = <<>>]] /\ k \in Conns
      BY <1>0, <1>7, <2>1 DEF CloseFd, SockTypes
    <3> HIDE DEF k
    <3> QED
      BY <1>0, <3>1 DEF Ages, Sockets
  <2>2. CASE ~(f \in ConnFds /\ fdOwner[f] # NoConn)
    BY <1>7, <2>2 DEF CloseFd, Ages
  <2> QED
    BY <2>1, <2>2
<1>4. ASSUME SubscriptionFails PROVE LinkInv'
  <2>1. Ages /\ torn' = torn
    BY <1>4, <1>7 DEF SubscriptionFails
  <2>2. torn
    BY <1>0, <1>4 DEF SubscriptionFails, Subscribing, LinkInv, Awaited, Conns, NoConn, Callers
  <2> QED
    BY <1>0, <2>1, <2>2, CallersAge DEF LinkInv
<1>27. ASSUME ReadSubscription PROVE LinkInv'
  <2>1. Subscriber \in Conns
    BY <1>0, <1>27 DEF ReadSubscription, Subscriber, SockTypes
  <2>2. CASE conn[Subscriber].peer
    <3> DEFINE k == Subscriber
    <3>1. /\ conn' = [conn EXCEPT ![k].st = "open"] /\ torn' = torn /\ conn[k].st = "accepted"
      BY <1>27, <2>2 DEF ReadSubscription, Subscribing, LinkInv, Awaited
    <3>2. Linked'
      BY <1>0, <1>27, <2>2, LinkedAccept DEF LinkInv
    <3>3. Awaited'
      BY <1>27 DEF ReadSubscription, Awaited
    <3> HIDE DEF k
    <3>4. Ages
      BY <1>0, <2>1, <3>1 DEF Ages, Sockets, k
    <3> QED
      BY <1>0, <3>2, <3>3, <3>4, CallersAge DEF LinkInv
  <2>3. CASE ~conn[Subscriber].peer
    <3>1. Ages /\ torn'
      BY <1>7, <1>27, <2>3 DEF ReadSubscription
    <3> QED
      BY <1>0, <3>1, CallersAge DEF LinkInv
  <2> QED
    BY <2>2, <2>3
<1>8. ASSUME NEW c \in Clients, StreamEnds(c) PROVE LinkInv'
  <2>1. Ages /\ torn' = torn /\ Awaited'
    BY <1>7, <1>8 DEF StreamEnds, EndStream, Awaited
  <2>2. ~torn => Linked'
    BY <1>0, <1>8, LinkedEnd DEF LinkInv
  <2> QED
    BY <1>0, <2>1, <2>2, CallersAge DEF LinkInv
<1>9. ASSUME NEW c \in Clients, Stream(c) # NoConn, TakeRecord(c),
             UNCHANGED <<watch, s_fdCommand, fdOwner, torn, rs>>, lpc' = "subscribe" => lpc = "subscribe"
      PROVE  LinkInv'
  <2> DEFINE k == Stream(c)
  <2>1. k \in Conns /\ conn' = [conn EXCEPT ![k].inbox = Tail(@)]
    BY <1>0, <1>9 DEF SockTypes, Stream, TakeRecord
  <2> HIDE DEF k
  <2>2. \A j \in Conns : conn'[j].st = conn[j].st /\ conn'[j].by = conn[j].by /\ conn'[j].port = conn[j].port
    BY <1>0, <2>1 DEF Sockets
  <2> QED
    BY <1>9, <1>b, <2>2 DEF Ages
<1>10. ASSUME NEW c \in Clients, DropMalformed(c) PROVE LinkInv'
  BY <1>9, <1>10 DEF DropMalformed, HasRecord
<1>11. ASSUME NEW c \in Clients, RejectUnknown(c) PROVE LinkInv'
  BY <1>9, <1>11 DEF RejectUnknown, HasRecord
<1>12. ASSUME NEW c \in Clients, NEW a \in Addrs, DispatchPlain(c, a) PROVE LinkInv'
  BY <1>9, <1>12 DEF DispatchPlain, HasRecord
<1>13. ASSUME NEW c \in Clients, NEW a \in Addrs, DispatchRadioTech(c, a) PROVE LinkInv'
  BY <1>9, <1>13 DEF DispatchRadioTech, HasRecord
<1>14. ASSUME NEW c \in Clients, NEW a \in Addrs, DispatchBadBlock(c, a) PROVE LinkInv'
  BY <1>9, <1>14 DEF DispatchBadBlock, HasRecord
<1>15. ASSUME DebugAccept PROVE LinkInv'
  <2>1. Queued("debug") = {}
    BY <1>0 DEF Callers, Queued
  <2>2. UNCHANGED <<conn, watch, s_fdCommand, fdOwner, torn, rs>> /\ lpc' = "fire"
    BY <1>15, <2>1 DEF DebugAccept
  <2> QED
    BY <1>a, <2>2
<1>16. ASSUME NEW option \in DebugOptions PROVE FALSE
  BY <1>16 DEF OneByOne
<1>17. ASSUME NEW t \in Threads, Dequeue(t) PROVE LinkInv'
  BY <1>17, <1>a DEF Dequeue, Dequeuing, InvalidToken, TakeFromList, Return, Answer
<1>18. ASSUME NEW t \in Threads, ChooseFd(t) PROVE LinkInv'
  BY <1>18, <1>a DEF ChooseFd, Return
<1>19. ASSUME NEW t \in Threads, Write(t) PROVE LinkInv'
  <2> DEFINE f == thr[t].fd
  <2>1. UNCHANGED <<watch, s_fdCommand, rs>> /\ (lpc' = "subscribe" => lpc = "subscribe")
    BY <1>19 DEF Write, Return
  <2>2. \/ UNCHANGED <<conn, fdOwner, torn>>
        \/ CloseFd(f) /\ torn' = (torn \/ fdOwner[f] # NoConn)
    BY <1>19 DEF Write
  <2>3. CASE UNCHANGED <<conn, fdOwner, torn>>
    BY <1>a, <2>1, <2>3
  <2>4. CASE CloseFd(f) /\ torn' = (torn \/ fdOwner[f] # NoConn)
    <3>1. CASE fdOwner[f] = NoConn
      <4>1. UNCHANGED <<conn, fdOwner>>
        BY <2>4, <3>1 DEF CloseFd
      <4>2. ~torn' => ~torn
        BY <2>4
      <4>3. Callers'
        BY <1>0, <1>7, <2>4, CallersAge
      <4>4. ~torn => Linked'
        BY <2>1, <4>1, LinkedKept DEF LinkInv
      <4>5. ~torn => Awaited'
        BY <2>1, <4>1 DEF LinkInv, Awaited, Subscriber
      <4> QED
        BY <4>2, <4>3, <4>4, <4>5 DEF LinkInv
    <3>2. CASE fdOwner[f] # NoConn
      <4>1. torn'
        BY <2>4, <3>2
      <4>2. Callers'
        BY <1>0, <1>7, <2>4, CallersAge
      <4> QED
        BY <4>1, <4>2 DEF LinkInv
    <3> QED
      BY <3>1, <3>2
  <2> QED
    BY <2>2, <2>3, <2>4
<1>20. ASSUME NEW t \in VendorThreads, NEW j \in jobs, VendorCompletes(t, j) PROVE LinkInv'
  BY <1>20, <1>a DEF VendorCompletes
<1>21. ASSUME NEW k \in Conns, NEW who \in Visitors, Connect(k, who) PROVE LinkInv'
  <2>1. Callers'
    BY <1>0, <1>21, CallersConnect
  <2>2. /\ UNCHANGED <<watch, s_fdCommand, fdOwner, torn, rs, lpc>>
        /\ \A j \in Conns : conn[j].st \in {"accepted", "open"} => conn'[j] = conn[j]
    BY <1>0, <1>21 DEF Connect
  <2>3. ~torn => Linked'
    BY <2>2, LinkedKept DEF LinkInv
  <2>4. ~torn => Awaited'
    BY <2>2 DEF LinkInv, Awaited, Subscriber
  <2> QED
    BY <2>1, <2>2, <2>3, <2>4 DEF LinkInv
<1>22. ASSUME NEW k \in Conns, NEW c \in Clients, ConnectDebug(k, c) PROVE FALSE
  BY <1>22 DEF ConnectDebug, OneByOne
<1>23. ASSUME NEW k \in Conns, NEW kind \in Kinds, SendRequest(k, kind) PROVE LinkInv'
  <2>1. \A j \in Conns : conn'[j].st = conn[j].st /\ conn'[j].by = conn[j].by /\ conn'[j].port = conn[j].port
    BY <1>0, <1>23 DEF SendRequest, Sockets
  <2> QED
    BY <1>23, <1>b, <2>1 DEF Ages, SendRequest
<1>24. ASSUME NEW k \in Conns, HangUp(k) PROVE LinkInv'
  <2>1. \A j \in Conns : conn'[j].st = conn[j].st /\ conn'[j].by = conn[j].by /\ conn'[j].port = conn[j].port
    BY <1>0, <1>24 DEF HangUp, Sockets
  <2> QED
    BY <1>24, <1>b, <2>1 DEF Ages, HangUp
<1>26. CASE UNCHANGED vars
  BY <1>26, <1>a DEF vars
<1> QED
  BY <1>1, <1>2, <1>3, <1>4, <1>5, <1>6, <1>8, <1>10, <1>11, <1>12, <1>13, <1>14, <1>15, <1>16,
     <1>17, <1>18, <1>19, <1>20, <1>21, <1>22, <1>23, <1>24, <1>26, <1>27, Zenon
     DEF Next, LoopStep, AcceptStep, CommandsStep, CompleteStep, ClientStep, Threads

(* A linked session satisfies what the runs check of it.                   *)
LEMMA LinkedConsistent == ASSUME SockTypes, Linked PROVE SessionConsistent
<1>1. CanReconnect
  BY DEF Linked, CanReconnect, Missing
<1>2. BadFds = {}
  <2> SUFFICES ASSUME NEW f \in watch.readFds \cap ConnFds, fdOwner[f] = NoConn PROVE FALSE
      BY DEF BadFds
  <2>1. PICK e \in Events : Watched(watch, e) /\ f = watch.fd[e]
    BY DEF Linked, Sane, FdsOK
  <2>2. e \notin {"listen", "debug"}
    BY <2>1, EventNames DEF Linked, Sane
  <2>3. PICK c \in Clients : e = Cmd(c)
    BY <2>2, EventNames
  <2> QED
    BY <2>1, <2>3, LinkedFds DEF Conns, NoConn
<1>3. \A c \in Clients : /\ Watched(watch, Cmd(c)) <=> s_fdCommand[c] # -1
                         /\ Watched(watch, Cmd(c)) => watch.fd[Cmd(c)] = s_fdCommand[c]
  BY DEF Linked
<1> QED
  BY <1>1, <1>2, <1>3 DEF SessionConsistent, Linked, Sane

(* With clients that come one by one, and as long as no response write has *)
(* failed, the watch table, s_fdCommand and the kernel's descriptors agree *)
(* after every callback, over any number of connections, hang-ups,         *)
(* reconnections and restarts: no select() on a closed descriptor, no      *)
(* client whose requests nobody reads, and a daemon that listens whenever  *)
(* a client is missing.                                                    *)
THEOREM SessionsStayConsistent == OneByOne => (Spec => [](~torn => SessionConsistent))
<1> SUFFICES ASSUME OneByOne PROVE Spec => [](~torn => SessionConsistent)
    OBVIOUS
<1>1. Init => LinkInv /\ Plain
  <2> SUFFICES ASSUME Init PROVE LinkInv /\ Plain
      OBVIOUS
  <2>1. watch = StartWatch /\ s_fdCommand = [c \in Clients |-> -1] /\ conn = [k \in Conns |-> Unused]
    BY DEF Init, Fresh
  <2>2. Callers /\ Plain
    BY <2>1 DEF Callers, Calls, Unused, Held, Plain
  <2>3. Linked /\ Awaited
    BY <2>1, StartSane DEF Linked, Missing, Awaited, Init, Fresh
  <2> QED
    BY <2>2, <2>3 DEF LinkInv
<1>2. HolderInv /\ LinkInv /\ Plain /\ [Next]_vars => LinkInv' /\ Plain'
  BY LinkStep, PlainStep DEF HolderInv, ReqInv
<1>3. HolderInv /\ LinkInv => (~torn => SessionConsistent)
  BY LinkedConsistent DEF HolderInv, ReqInv, Types, LinkInv
<1> QED
  BY <1>1, <1>2, <1>3, SessionInvariant, PTL DEF Spec
=============================================================================
