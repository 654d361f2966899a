------------------------- MODULE ClusterShellProofs -------------------------
(***************************************************************************)
(* Theorems about ClusterShell, for any number of clients, nodes and       *)
(* lines.                                                                  *)
(***************************************************************************)
EXTENDS ClusterShell, FunctionTheorems, FiniteSetTheorems, NaturalsInduction, TLAPS

(* A thread of the server, and a message on its way to a client. *)
ServerThread == [pc : Pc, sock : Client \cup {None}, counter : 0 .. Cardinality(Client),
                 msg : Message, list : Seq(Client \cup {Listen})]
Delivery == [text : Message, via : {"command", "answer"}]

(* The lines that ask something of other nodes. *)
Asks == {"node", "star"}

(* Every client is accepted once, so no more than there are. *)
FdsInv ==
    /\ \A i, j \in DOMAIN client_fds : client_fds[i] = client_fds[j] => i = j
    /\ \A i \in DOMAIN client_fds : conn[client_fds[i]] # "out"

(* A thread that has started has a socket. *)
SockInv ==
    /\ DOMAIN thr # {} => Client_sock \in Client
    /\ \A t \in DOMAIN thr : thr[t].pc # "start" => thr[t].sock \in Client

(* A question comes from its asker's own keyboard, and is in nobody else's *)
(* buffer, connection or thread; SEND_TO_FD and its like are askers.       *)
AskInv ==
    /\ {SEND_TO_FD, SEND_TO_FD_STAR} \subseteq asked \cup {None}
    /\ \A c \in Client : msg[c].kind \in Asks => c \in asked
    /\ \A c \in Client : \A i \in DOMAIN c2s[c] : c2s[c][i].kind \in Asks => c \in asked
    /\ \A t \in DOMAIN thr :
          /\ thr[t].msg.kind \in Asks => thr[t].sock \in asked
          /\ thr[t].pc = "start" => thr[t].msg.kind = "text"
          /\ thr[t].pc = "routed" => thr[t].msg.kind = "node"
          /\ thr[t].pc = "star" => thr[t].msg.kind = "star"

Inv == TypeOK /\ FdsInv /\ SockInv /\ AskInv /\ UnaskedGetsCommandsOnly

-----------------------------------------------------------------------------
(* Types *)

(* A text is a message. *)
LEMMA TextType ==
    \A cmd \in Cmd, c \in Client :
        Text(cmd, c) \in Message /\ Text(cmd, c).kind = "text" /\ Text(cmd, c).by = c /\ Text(cmd, c).cmd = cmd
BY BoundsAssumption DEF Text, Message, Kind

(* What is put behind a queue. *)
LEMMA AppendFacts ==
    ASSUME NEW S, NEW q \in Seq(S), NEW x \in S
    PROVE  /\ Append(q, x) \in Seq(S) /\ DOMAIN Append(q, x) = 1 .. Len(q) + 1
           /\ \A i \in DOMAIN Append(q, x) :
                 (i \in DOMAIN q /\ Append(q, x)[i] = q[i]) \/ (i = Len(q) + 1 /\ Append(q, x)[i] = x)
           /\ Len(Append(q, x)) = Len(q) + 1
           /\ Append(q, x)[Len(q) + 1] = x
           /\ \A i \in DOMAIN q : i \in DOMAIN Append(q, x) /\ Append(q, x)[i] = q[i]
<1> DEFINE a == Append(q, x)
<1>1. /\ a \in Seq(S) /\ Len(a) = Len(q) + 1 /\ a[Len(q) + 1] = x
      /\ Len(q) \in Nat /\ DOMAIN q = 1 .. Len(q) /\ DOMAIN a = 1 .. Len(q) + 1
      /\ \A i \in 1 .. Len(q) : a[i] = q[i]
  OBVIOUS
<1> HIDE DEF a
<1>2. \A i \in 1 .. Len(q) + 1 : i \in 1 .. Len(q) \/ i = Len(q) + 1
  BY <1>1
<1>3. \A i \in 1 .. Len(q) : i \in 1 .. Len(q) + 1
  BY <1>1
<1>4. \A i \in DOMAIN a : (i \in DOMAIN q /\ a[i] = q[i]) \/ (i = Len(q) + 1 /\ a[i] = x)
  BY <1>1, <1>2
<1>5. \A i \in DOMAIN q : i \in DOMAIN a /\ a[i] = q[i]
  BY <1>1, <1>3
<1> QED
  BY <1>1, <1>4, <1>5 DEF a

(* What is taken from a queue. *)
LEMMA TailFacts ==
    ASSUME NEW S, NEW q \in Seq(S), q # <<>>
    PROVE  /\ Tail(q) \in Seq(S) /\ Head(q) \in S /\ Head(q) = q[1] /\ 1 \in DOMAIN q
           /\ \A i \in DOMAIN Tail(q) : i + 1 \in DOMAIN q /\ Tail(q)[i] = q[i + 1]
           /\ Len(q) = 1 => Tail(q) = <<>>
<1>1. /\ Len(q) \in Nat /\ Len(q) > 0 /\ DOMAIN q = 1 .. Len(q) /\ Head(q) = q[1]
      /\ Tail(q) \in Seq(S) /\ Len(Tail(q)) = Len(q) - 1 /\ DOMAIN Tail(q) = 1 .. Len(q) - 1
      /\ \A i \in 1 .. Len(q) - 1 : Tail(q)[i] = q[i + 1]
  OBVIOUS
<1>2. 1 \in 1 .. Len(q) /\ \A i \in 1 .. Len(q) - 1 : i + 1 \in 1 .. Len(q)
  BY <1>1
<1>3. q[1] \in S
  BY <1>1, <1>2
<1>4. Len(q) = 1 => Tail(q) = <<>>
  BY <1>1
<1> QED
  BY <1>1, <1>2, <1>3, <1>4

(* What the server sends. *)
LEMMA SendFacts ==
    ASSUME TypeOK, NEW to, NEW text \in Message, NEW via \in {"command", "answer"}, send(to, text, via)
    PROVE  /\ s2c' \in [Client -> Seq(Delivery)]
           /\ \A c \in Client : \A i \in DOMAIN s2c'[c] :
                 \/ i \in DOMAIN s2c[c] /\ s2c'[c][i] = s2c[c][i]
                 \/ c \in to /\ conn[c] = "in" /\ s2c'[c][i].text = text /\ s2c'[c][i].via = via
           /\ \A c \in Client : conn[c] # "in" => s2c'[c] = s2c[c]
<1> DEFINE d == [text |-> text, via |-> via]
<1>1. d \in Delivery /\ d.text = text /\ d.via = via
  BY DEF Delivery
<1>2. s2c \in [Client -> Seq(Delivery)]
  BY DEF TypeOK, Delivery
<1>3. s2c' = [c \in Client |-> IF c \in to /\ conn[c] = "in" THEN Append(s2c[c], d) ELSE s2c[c]]
  BY DEF send
<1> HIDE DEF d
<1>4. \A c \in Client : s2c[c] \in Seq(Delivery)
  BY <1>2
<1>5. \A c \in Client : /\ Append(s2c[c], d) \in Seq(Delivery)
                        /\ \A i \in DOMAIN Append(s2c[c], d) :
                              (i \in DOMAIN s2c[c] /\ Append(s2c[c], d)[i] = s2c[c][i]) \/ Append(s2c[c], d)[i] = d
  BY <1>1, <1>4, AppendFacts
<1>6. s2c' \in [Client -> Seq(Delivery)]
  BY <1>3, <1>4, <1>5
<1> QED
  BY <1>1, <1>3, <1>5, <1>6

(* There are no more accepted sockets than clients. *)
LEMMA FdsBounded ==
    ASSUME TypeOK, FdsInv
    PROVE  Len(client_fds) \in 0 .. Cardinality(Client)
<1>1. client_fds \in Seq(Client) /\ Len(client_fds) \in Nat /\ DOMAIN client_fds = 1 .. Len(client_fds)
  BY DEF TypeOK
<1>2. client_fds \in Injection(1 .. Len(client_fds), Client)
  BY <1>1 DEF FdsInv, Injection, IsInjective
<1>3. IsFiniteSet(Client) /\ Cardinality(Client) \in Nat
  BY ClientAssumption, FS_CardinalityType
<1>4. Cardinality(1 .. Len(client_fds)) <= Cardinality(Client)
  BY <1>2, <1>3, FS_Injection
<1>5. Cardinality(1 .. Len(client_fds)) = Len(client_fds)
  BY <1>1, FS_Interval
<1> QED
  BY <1>1, <1>3, <1>4, <1>5

-----------------------------------------------------------------------------
(* The server's threads *)

(* The fields of a thread, and the command a question asks to be run. *)
LEMMA ThreadFields ==
    ASSUME TypeOK, NEW t \in DOMAIN thr
    PROVE  /\ thr[t] \in ServerThread /\ thr[t].pc \in Pc /\ thr[t].sock \in Client \cup {None}
           /\ thr[t].counter \in 0 .. Cardinality(Client) /\ thr[t].msg \in Message
           /\ thr[t].list \in Seq(Client \cup {Listen})
           /\ thr[t].msg.by \in Client
           /\ Text(thr[t].msg.cmd, thr[t].msg.by) \in Message
           /\ Text(thr[t].msg.cmd, thr[t].msg.by).kind = "text"
           /\ Text(thr[t].msg.cmd, thr[t].msg.by).by = thr[t].msg.by
<1>1. thr \in Seq(ServerThread)
  BY DEF TypeOK, ServerThread
<1>2. thr[t] \in ServerThread
  BY <1>1
<1>3. /\ thr[t].pc \in Pc /\ thr[t].sock \in Client \cup {None}
      /\ thr[t].counter \in 0 .. Cardinality(Client) /\ thr[t].msg \in Message
      /\ thr[t].list \in Seq(Client \cup {Listen})
  BY <1>2 DEF ServerThread
<1>4. thr[t].msg.cmd \in Cmd /\ thr[t].msg.by \in Client
  BY <1>3 DEF Message
<1> QED
  BY <1>2, <1>3, <1>4, TextType

(* Thread t goes on: it is at pc, with that socket and message, and the    *)
(* other threads and the clients do nothing.                               *)
Turn(t, pc, sock, m) ==
    /\ t \in DOMAIN thr /\ DOMAIN thr' = DOMAIN thr /\ thr' \in Seq(ServerThread)
    /\ \A u \in DOMAIN thr \ {t} : thr'[u] = thr[u]
    /\ thr'[t].pc = pc /\ thr'[t].sock = sock /\ thr'[t].msg = m
    /\ UNCHANGED <<lines, asked, client_fds, Client_sock>>
    /\ UNCHANGED <<conn, msg, argVector, stdout, badRedirectpipe, main, rcv>>

Still == UNCHANGED <<lines, asked, client_fds, Client_sock>> /\ UNCHANGED clients

(* A thread that becomes r. *)
LEMMA TurnFacts ==
    ASSUME TypeOK, NEW t \in DOMAIN thr, NEW r \in ServerThread, thr' = [thr EXCEPT ![t] = r], Still
    PROVE  Turn(t, r.pc, r.sock, r.msg)
<1>1. thr \in Seq(ServerThread)
  BY DEF TypeOK, ServerThread
<1>2. Len(thr) \in Nat /\ DOMAIN thr = 1 .. Len(thr) /\ thr \in [1 .. Len(thr) -> ServerThread]
  BY <1>1
<1>3. thr' \in [1 .. Len(thr) -> ServerThread]
  BY <1>2
<1>4. thr' \in Seq(ServerThread) /\ DOMAIN thr' = DOMAIN thr /\ thr'[t] = r
      /\ \A u \in DOMAIN thr \ {t} : thr'[u] = thr[u]
  BY <1>2, <1>3
<1> QED
  BY <1>4 DEF Turn, Still, clients

(* A thread that only goes on to pc. *)
LEMMA GoesFacts ==
    ASSUME TypeOK, NEW t \in DOMAIN thr, NEW pc \in Pc, Goes(t, pc), Still
    PROVE  Turn(t, pc, thr[t].sock, thr[t].msg)
<1>1. thr[t] \in ServerThread
  BY ThreadFields
<1>a. PICK r : r = [thr[t] EXCEPT !.pc = pc]
  OBVIOUS
<1>2. r \in ServerThread /\ r.pc = pc /\ r.sock = thr[t].sock /\ r.msg = thr[t].msg
  BY <1>1, <1>a DEF ServerThread
<1>3. thr' = [thr EXCEPT ![t] = r]
  BY <1>a DEF Goes
<1>4. Turn(t, r.pc, r.sock, r.msg)
  BY <1>2, <1>3, TurnFacts
<1> QED
  BY <1>2, <1>4

(* A thread reads its socket. *)
LEMMA ThreadStartsFacts ==
    ASSUME Inv, NEW t, ThreadStarts(t)
    PROVE  /\ Turn(t, "recv", Client_sock, thr[t].msg) /\ thr[t].pc = "start" /\ Client_sock \in Client
           /\ UNCHANGED <<client_list, SEND_TO_FD, SEND_TO_FD_STAR, c2s, s2c>>
<1>0. t \in DOMAIN thr /\ thr[t].pc = "start" /\ TypeOK /\ Client_sock \in Client
  BY DEF ThreadStarts, At, Inv, SockInv
<1>1. thr[t] \in ServerThread
  BY <1>0, ThreadFields
<1>a. PICK r : r = [thr[t] EXCEPT !.sock = Client_sock, !.pc = "recv"]
  OBVIOUS
<1>2. r \in ServerThread /\ r.pc = "recv" /\ r.sock = Client_sock /\ r.msg = thr[t].msg
  BY <1>0, <1>1, <1>a DEF ServerThread, Pc
<1>3. thr' = [thr EXCEPT ![t] = r]
  BY <1>a DEF ThreadStarts
<1>4. Still /\ UNCHANGED <<client_list, SEND_TO_FD, SEND_TO_FD_STAR, c2s, s2c>>
  BY DEF ThreadStarts, Still, serverRest
<1>5. Turn(t, r.pc, r.sock, r.msg)
  BY <1>0, <1>2, <1>3, <1>4, TurnFacts
<1> QED
  BY <1>0, <1>2, <1>4, <1>5

(* A thread receives a message of its client's. *)
LEMMA ThreadReceivesFacts ==
    ASSUME Inv, NEW t, ThreadReceives(t)
    PROVE  LET c == thr[t].sock
               m == Head(c2s[c])
           IN /\ t \in DOMAIN thr /\ thr[t].pc = "recv" /\ c \in Client /\ c2s[c] \in Seq(Message) /\ c2s[c] # <<>>
              /\ m = c2s[c][1] /\ 1 \in DOMAIN c2s[c] /\ m \in Message
              /\ \/ m.kind = "nodes" /\ Turn(t, "recv", c, m)
                 \/ m.kind # "nodes" /\ SEND_TO_FD # None /\ Turn(t, "answer", c, m)
                 \/ m.kind # "nodes" /\ SEND_TO_FD = None /\ SEND_TO_FD_STAR # None /\ Turn(t, "star_answer", c, m)
                 \/ m.kind # "nodes" /\ SEND_TO_FD = None /\ SEND_TO_FD_STAR = None /\ Turn(t, "route", c, m)
              /\ c2s' \in [Client -> Seq(Message)] /\ c2s'[c] = Tail(c2s[c])
              /\ \A d \in Client \ {c} : c2s'[d] = c2s[d]
              /\ UNCHANGED <<client_list, SEND_TO_FD, SEND_TO_FD_STAR, s2c>>
<1> DEFINE c == thr[t].sock
<1>0. t \in DOMAIN thr /\ thr[t].pc = "recv" /\ TypeOK /\ c \in Client /\ c2s[c] # <<>>
  BY DEF ThreadReceives, At, Inv, SockInv
<1>m. PICK m : m = Head(c2s[c])
  OBVIOUS
<1>1. /\ c2s \in [Client -> Seq(Message)] /\ c2s[c] \in Seq(Message) /\ m = c2s[c][1] /\ 1 \in DOMAIN c2s[c]
      /\ m \in Message /\ Tail(c2s[c]) \in Seq(Message)
  <2>1. c2s \in [Client -> Seq(Message)] /\ c2s[c] \in Seq(Message)
    BY <1>0 DEF TypeOK
  <2> QED
    BY <1>0, <1>m, <2>1, TailFacts
<1>2. thr[t] \in ServerThread
  BY <1>0, ThreadFields
<1>p. PICK pc : pc = IF m.kind = "nodes" THEN "recv"
                     ELSE IF SEND_TO_FD # None THEN "answer"
                     ELSE IF SEND_TO_FD_STAR # None THEN "star_answer"
                     ELSE "route"
  OBVIOUS
<1>r. PICK r : r = [thr[t] EXCEPT !.msg = m, !.pc = pc]
  OBVIOUS
<1>3. pc \in Pc
  BY <1>p DEF Pc
<1>4. r \in ServerThread /\ r.pc = pc /\ r.sock = c /\ r.msg = m
  BY <1>1, <1>2, <1>3, <1>r DEF ServerThread
<1>5. thr' = [thr EXCEPT ![t] = r]
  <2>1. thr' = [thr EXCEPT ![t].msg = m, ![t].pc = pc]
    BY <1>m, <1>p DEF ThreadReceives
  <2> QED
    BY <1>r, <2>1
<1>6. Still /\ UNCHANGED <<client_list, SEND_TO_FD, SEND_TO_FD_STAR, s2c>>
  BY DEF ThreadReceives, Still, serverRest
<1>7. Turn(t, r.pc, r.sock, r.msg)
  BY <1>0, <1>4, <1>5, <1>6, TurnFacts
<1>8. Turn(t, pc, c, m)
  BY <1>4, <1>7
<1>9. c2s' = [c2s EXCEPT ![c] = Tail(c2s[c])]
  BY DEF ThreadReceives
<1>10. /\ c2s' \in [Client -> Seq(Message)] /\ c2s'[c] = Tail(c2s[c])
       /\ \A d \in Client \ {c} : c2s'[d] = c2s[d]
  BY <1>0, <1>1, <1>9
<1>11. \/ m.kind = "nodes" /\ Turn(t, "recv", c, m)
       \/ m.kind # "nodes" /\ SEND_TO_FD # None /\ Turn(t, "answer", c, m)
       \/ m.kind # "nodes" /\ SEND_TO_FD = None /\ SEND_TO_FD_STAR # None /\ Turn(t, "star_answer", c, m)
       \/ m.kind # "nodes" /\ SEND_TO_FD = None /\ SEND_TO_FD_STAR = None /\ Turn(t, "route", c, m)
  BY <1>p, <1>8
<1> QED
  BY <1>0, <1>1, <1>6, <1>10, <1>11, <1>m

(* What stays as it is when a thread of the server sends or decides. *)
Quietly == UNCHANGED <<client_list, c2s>>

(* A thread forwards its message to whoever SEND_TO_FD is by now. *)
LEMMA AnswerFacts ==
    ASSUME Inv, NEW t, Answer(t)
    PROVE  /\ t \in DOMAIN thr /\ thr[t].pc = "answer" /\ Turn(t, "answered", thr[t].sock, thr[t].msg)
           /\ send({SEND_TO_FD}, thr[t].msg, "answer") /\ Quietly /\ UNCHANGED <<SEND_TO_FD, SEND_TO_FD_STAR>>
<1>0. t \in DOMAIN thr /\ thr[t].pc = "answer" /\ TypeOK
  BY DEF Answer, At, Inv
<1>1. Still /\ Goes(t, "answered") /\ "answered" \in Pc
  BY DEF Answer, Still, serverRest, Pc
<1> QED
  BY <1>0, <1>1, GoesFacts DEF Answer, Quietly

(* It forgets who was to get it. *)
LEMMA AnsweredFacts ==
    ASSUME Inv, NEW t, Answered(t)
    PROVE  /\ t \in DOMAIN thr /\ thr[t].pc = "answered" /\ Turn(t, "recv", thr[t].sock, thr[t].msg)
           /\ SEND_TO_FD' = None /\ Quietly /\ UNCHANGED <<SEND_TO_FD_STAR, s2c>>
<1>0. t \in DOMAIN thr /\ thr[t].pc = "answered" /\ TypeOK
  BY DEF Answered, At, Inv
<1>1. Still /\ Goes(t, "recv") /\ "recv" \in Pc
  BY DEF Answered, Still, serverRest, Pc
<1> QED
  BY <1>0, <1>1, GoesFacts DEF Answered, Quietly

(* It forwards one of the answers to n*, or ends the question. *)
LEMMA StarAnswerFacts ==
    ASSUME Inv, NEW t, StarAnswer(t)
    PROVE  /\ t \in DOMAIN thr /\ thr[t].pc = "star_answer" /\ Turn(t, "recv", thr[t].sock, thr[t].msg)
           /\ \/ send({SEND_TO_FD_STAR}, thr[t].msg, "answer") /\ UNCHANGED SEND_TO_FD_STAR
              \/ SEND_TO_FD_STAR' = None /\ UNCHANGED s2c
           /\ Quietly /\ UNCHANGED SEND_TO_FD
<1>0. t \in DOMAIN thr /\ thr[t].pc = "star_answer" /\ TypeOK /\ "recv" \in Pc
  BY DEF StarAnswer, At, Inv, Pc
<1>1. Still /\ Quietly /\ UNCHANGED SEND_TO_FD
  BY DEF StarAnswer, Still, serverRest, Quietly
<1>2. CASE /\ thr[t].counter > 0
           /\ send({SEND_TO_FD_STAR}, thr[t].msg, "answer")
           /\ thr' = [thr EXCEPT ![t].counter = @ - 1, ![t].pc = "recv"]
           /\ UNCHANGED SEND_TO_FD_STAR
  <2>1. /\ thr[t] \in ServerThread /\ thr[t].counter \in 0 .. Cardinality(Client)
        /\ Cardinality(Client) \in Nat
    BY <1>0, ThreadFields, ClientAssumption, FS_CardinalityType
  <2>2. thr[t].counter - 1 \in 0 .. Cardinality(Client)
    BY <1>2, <2>1
  <2>r. PICK r : r = [thr[t] EXCEPT !.counter = thr[t].counter - 1, !.pc = "recv"]
    OBVIOUS
  <2>3. r \in ServerThread /\ r.pc = "recv" /\ r.sock = thr[t].sock /\ r.msg = thr[t].msg
    BY <1>0, <2>1, <2>2, <2>r DEF ServerThread
  <2>4. thr' = [thr EXCEPT ![t] = r]
    BY <1>2, <2>r
  <2>5. Turn(t, r.pc, r.sock, r.msg)
    BY <1>0, <1>1, <2>3, <2>4, TurnFacts
  <2> QED
    BY <1>0, <1>1, <1>2, <2>3, <2>5
<1>3. CASE thr[t].counter = 0 /\ SEND_TO_FD_STAR' = None /\ Goes(t, "recv") /\ UNCHANGED s2c
  BY <1>0, <1>1, <1>3, GoesFacts
<1> QED
  BY <1>2, <1>3 DEF StarAnswer

(* It sends a command to the node named, or looks for n*. *)
LEMMA RouteFacts ==
    ASSUME Inv, NEW t, Route(t)
    PROVE  /\ t \in DOMAIN thr /\ thr[t].pc = "route"
           /\ \/ /\ thr[t].msg.kind = "node" /\ Turn(t, "routed", thr[t].sock, thr[t].msg)
                 /\ \E to : send(to, Text(thr[t].msg.cmd, thr[t].msg.by), "command")
              \/ thr[t].msg.kind = "star" /\ Turn(t, "star", thr[t].sock, thr[t].msg) /\ UNCHANGED s2c
              \/ thr[t].msg.kind # "star" /\ Turn(t, "recv", thr[t].sock, thr[t].msg) /\ UNCHANGED s2c
           /\ Quietly /\ UNCHANGED <<SEND_TO_FD, SEND_TO_FD_STAR>>
<1>0. t \in DOMAIN thr /\ thr[t].pc = "route" /\ TypeOK /\ {"routed", "star", "recv"} \subseteq Pc
  BY DEF Route, At, Inv, Pc
<1>1. Still /\ Quietly /\ UNCHANGED <<SEND_TO_FD, SEND_TO_FD_STAR>>
  BY DEF Route, Still, serverRest, Quietly
<1>2. CASE /\ Target(thr[t].msg) # {}
           /\ send(Target(thr[t].msg), Text(thr[t].msg.cmd, thr[t].msg.by), "command")
           /\ Goes(t, "routed")
  <2>1. thr[t].msg.kind = "node"
    BY <1>2 DEF Target
  <2> QED
    BY <1>0, <1>1, <1>2, <2>1, GoesFacts
<1>3. CASE /\ Goes(t, IF thr[t].msg.kind = "star" THEN "star" ELSE "recv")
           /\ UNCHANGED s2c
  <2>1. CASE thr[t].msg.kind = "star"
    BY <1>0, <1>1, <1>3, <2>1, GoesFacts
  <2>2. CASE thr[t].msg.kind # "star"
    BY <1>0, <1>1, <1>3, <2>2, GoesFacts
  <2> QED
    BY <2>1, <2>2
<1> QED
  BY <1>2, <1>3 DEF Route

(* It notes who is to get the answer. *)
LEMMA RoutedFacts ==
    ASSUME Inv, NEW t, Routed(t)
    PROVE  /\ t \in DOMAIN thr /\ thr[t].pc = "routed" /\ Turn(t, "recv", thr[t].sock, thr[t].msg)
           /\ SEND_TO_FD' = thr[t].sock /\ Quietly /\ UNCHANGED <<SEND_TO_FD_STAR, s2c>>
<1>0. t \in DOMAIN thr /\ thr[t].pc = "routed" /\ TypeOK
  BY DEF Routed, At, Inv
<1>1. Still /\ Goes(t, "recv") /\ "recv" \in Pc
  BY DEF Routed, Still, serverRest, Pc
<1> QED
  BY <1>0, <1>1, GoesFacts DEF Routed, Quietly

(* It sends the command to every client. *)
LEMMA SendToAllFacts ==
    ASSUME Inv, NEW t, SendToAll(t)
    PROVE  /\ t \in DOMAIN thr /\ thr[t].pc = "star" /\ Turn(t, "counting", thr[t].sock, thr[t].msg)
           /\ SEND_TO_FD_STAR' = thr[t].sock /\ UNCHANGED SEND_TO_FD /\ Quietly
           /\ \E to : send(to, Text(thr[t].msg.cmd, thr[t].msg.by), "command")
<1>0. t \in DOMAIN thr /\ thr[t].pc = "star" /\ TypeOK
  BY DEF SendToAll, At, Inv
<1>1. Still /\ Goes(t, "counting") /\ "counting" \in Pc
  BY DEF SendToAll, Still, serverRest, Pc
<1> QED
  BY <1>0, <1>1, GoesFacts DEF SendToAll, Quietly

(* It counts the clients. *)
LEMMA CountNodesFacts ==
    ASSUME Inv, NEW t, CountNodes(t)
    PROVE  /\ t \in DOMAIN thr /\ thr[t].pc = "counting" /\ Turn(t, "recv", thr[t].sock, thr[t].msg)
           /\ Quietly /\ UNCHANGED <<SEND_TO_FD, SEND_TO_FD_STAR, s2c>>
<1>0. t \in DOMAIN thr /\ thr[t].pc = "counting" /\ TypeOK /\ Len(client_fds) \in 0 .. Cardinality(Client)
  BY FdsBounded DEF CountNodes, At, Inv
<1>1. thr[t] \in ServerThread
  BY <1>0, ThreadFields
<1>r. PICK r : r = [thr[t] EXCEPT !.counter = Len(client_fds), !.pc = "recv"]
  OBVIOUS
<1>2. r \in ServerThread /\ r.pc = "recv" /\ r.sock = thr[t].sock /\ r.msg = thr[t].msg
  BY <1>0, <1>1, <1>r DEF ServerThread, Pc
<1>3. thr' = [thr EXCEPT ![t] = r]
  BY <1>r DEF CountNodes
<1>4. Still /\ Quietly /\ UNCHANGED <<SEND_TO_FD, SEND_TO_FD_STAR, s2c>>
  BY DEF CountNodes, Still, serverRest, Quietly
<1>5. Turn(t, r.pc, r.sock, r.msg)
  BY <1>0, <1>2, <1>3, <1>4, TurnFacts
<1> QED
  BY <1>0, <1>2, <1>4, <1>5

(* What removeClient leaves is a list. *)
LEMMA RemoveType ==
    ASSUME NEW S, NEW list \in Seq(S), NEW fd
    PROVE  removeClient(list, fd) \in Seq(S)
<1>1. Len(list) \in Nat /\ DOMAIN list = 1 .. Len(list)
  OBVIOUS
<1>2. \A i \in 1 .. Len(list) : /\ SubSeq(list, 1, i - 1) \in Seq(S) /\ SubSeq(list, i + 1, Len(list)) \in Seq(S)
  BY <1>1
<1>3. \A i \in 1 .. Len(list) : SubSeq(list, 1, i - 1) \o SubSeq(list, i + 1, Len(list)) \in Seq(S)
  BY <1>2
<1>4. CASE \E i \in DOMAIN list : list[i] = fd
  <2>1. \E i \in DOMAIN list : list[i] = fd /\ \A j \in 1 .. i - 1 : list[j] # fd
    <3> DEFINE I == {i \in Nat : i \in DOMAIN list /\ list[i] = fd}
    <3>1. I # {} /\ I \subseteq Nat
      BY <1>1, <1>4
    <3>2. PICK i \in I : \A j \in I : ~(<<j, i>> \in OpToRel(<, Nat))
      BY <3>1, WFMin, NatLessThanWellFounded
    <3>3. \A j \in 1 .. i - 1 : list[j] # fd
      <4> SUFFICES ASSUME NEW j \in 1 .. i - 1, list[j] = fd PROVE FALSE
        OBVIOUS
      <4>1. i \in Nat /\ i \in 1 .. Len(list)
        BY <1>1, <3>2
      <4>2. j \in Nat /\ j < i /\ j \in 1 .. Len(list)
        BY <1>1, <4>1
      <4>3. j \in I
        BY <1>1, <4>2
      <4>4. <<j, i>> \in OpToRel(<, Nat)
        BY <4>1, <4>2 DEF OpToRel
      <4> QED
        BY <3>2, <4>3, <4>4
    <3> QED
      BY <3>2, <3>3
  <2>2. PICK i \in DOMAIN list :
           removeClient(list, fd) = SubSeq(list, 1, i - 1) \o SubSeq(list, i + 1, Len(list))
    BY <1>4, <2>1 DEF removeClient
  <2> QED
    BY <1>1, <1>3, <2>2
<1>5. CASE ~ \E i \in DOMAIN list : list[i] = fd
  BY <1>5 DEF removeClient
<1> QED
  BY <1>4, <1>5

(* A thread leaves, and its client's entry with it. *)
LEMMA ThreadLeavesFacts ==
    ASSUME Inv, NEW t, ThreadLeaves(t)
    PROVE  /\ t \in DOMAIN thr /\ thr[t].pc = "recv" /\ Turn(t, "leaving", thr[t].sock, thr[t].msg)
           /\ Quietly /\ UNCHANGED <<SEND_TO_FD, SEND_TO_FD_STAR, s2c>>
<1>0. t \in DOMAIN thr /\ thr[t].pc = "recv" /\ TypeOK
  BY DEF ThreadLeaves, At, Inv
<1>l. PICK l : l = removeClient(client_list, thr[t].sock)
  OBVIOUS
<1>1. thr[t] \in ServerThread /\ l \in Seq(Client \cup {Listen})
  <2>1. client_list \in Seq(Client \cup {Listen})
    BY <1>0 DEF TypeOK
  <2> QED
    BY <1>0, <1>l, <2>1, ThreadFields, RemoveType
<1>r. PICK r : r = [thr[t] EXCEPT !.list = l, !.pc = "leaving"]
  OBVIOUS
<1>2. r \in ServerThread /\ r.pc = "leaving" /\ r.sock = thr[t].sock /\ r.msg = thr[t].msg
  BY <1>0, <1>1, <1>r DEF ServerThread, Pc
<1>3. thr' = [thr EXCEPT ![t] = r]
  BY <1>l, <1>r DEF ThreadLeaves
<1>4. Still /\ Quietly /\ UNCHANGED <<SEND_TO_FD, SEND_TO_FD_STAR, s2c>>
  BY DEF ThreadLeaves, Still, serverRest, Quietly
<1>5. Turn(t, r.pc, r.sock, r.msg)
  BY <1>0, <1>2, <1>3, <1>4, TurnFacts
<1> QED
  BY <1>0, <1>2, <1>4, <1>5

(* The list it has is stored back. *)
LEMMA ThreadEndsFacts ==
    ASSUME Inv, NEW t, ThreadEnds(t)
    PROVE  /\ t \in DOMAIN thr /\ thr[t].pc = "leaving" /\ Turn(t, "ended", thr[t].sock, thr[t].msg)
           /\ client_list' \in Seq(Client \cup {Listen})
           /\ UNCHANGED <<SEND_TO_FD, SEND_TO_FD_STAR, c2s, s2c>>
<1>0. t \in DOMAIN thr /\ thr[t].pc = "leaving" /\ TypeOK
  BY DEF ThreadEnds, At, Inv
<1>1. thr[t] \in ServerThread /\ thr[t].list \in Seq(Client \cup {Listen}) /\ <<>> \in Seq(Client \cup {Listen})
  BY <1>0, ThreadFields
<1>r. PICK r : r = [thr[t] EXCEPT !.list = <<>>, !.pc = "ended"]
  OBVIOUS
<1>2. r \in ServerThread /\ r.pc = "ended" /\ r.sock = thr[t].sock /\ r.msg = thr[t].msg
  BY <1>0, <1>1, <1>r DEF ServerThread, Pc
<1>3. thr' = [thr EXCEPT ![t] = r]
  BY <1>r DEF ThreadEnds
<1>4. Still /\ client_list' = thr[t].list /\ UNCHANGED <<SEND_TO_FD, SEND_TO_FD_STAR, c2s, s2c>>
  BY DEF ThreadEnds, Still, serverRest
<1>5. Turn(t, r.pc, r.sock, r.msg)
  BY <1>0, <1>2, <1>3, <1>4, TurnFacts
<1> QED
  BY <1>0, <1>1, <1>2, <1>4, <1>5

-----------------------------------------------------------------------------
(* The server's threads keep the invariant *)

(* It is kept if thread t has what it should and sends to askers.          *)
LEMMA TurnKeeps ==
    ASSUME Inv, NEW t, NEW pc, NEW sock \in Client, NEW m, Turn(t, pc, sock, m),
           pc # "start", m.kind \in Asks => sock \in asked,
           pc = "routed" => m.kind = "node", pc = "star" => m.kind = "star",
           client_list' \in Seq(Client \cup {Listen}),
           SEND_TO_FD' \in asked \cup {None}, SEND_TO_FD_STAR' \in asked \cup {None},
           c2s' \in [Client -> Seq(Message)],
           \A c \in Client : \A i \in DOMAIN c2s'[c] : \E j \in DOMAIN c2s[c] : c2s'[c][i] = c2s[c][j],
           s2c' \in [Client -> Seq(Delivery)],
           \A c \in Client \ asked : \A i \in DOMAIN s2c'[c] : s2c'[c][i].via = "command"
    PROVE  Inv'
<1>0. TypeOK /\ FdsInv /\ SockInv /\ AskInv /\ asked \subseteq Client
  BY DEF Inv, TypeOK
<1>1. /\ thr' \in Seq(ServerThread) /\ DOMAIN thr' = DOMAIN thr /\ t \in DOMAIN thr
      /\ thr'[t].pc = pc /\ thr'[t].sock = sock /\ thr'[t].msg = m
      /\ \A u \in DOMAIN thr \ {t} : thr'[u] = thr[u]
      /\ UNCHANGED <<lines, asked, client_fds, Client_sock, conn, msg, argVector, stdout, badRedirectpipe,
                     main, rcv>>
  BY DEF Turn
<1>2. TypeOK'
  <2>1. {SEND_TO_FD', SEND_TO_FD_STAR'} \subseteq Client \cup {None}
    BY <1>0
  <2> QED
    BY <1>0, <1>1, <2>1 DEF TypeOK, ServerThread, Delivery
<1>3. FdsInv'
  BY <1>0, <1>1 DEF FdsInv
<1>4. SockInv'
  BY <1>0, <1>1 DEF SockInv
<1>5. AskInv'
  <2>1. ASSUME NEW u \in DOMAIN thr
        PROVE  /\ thr'[u].msg.kind \in Asks => thr'[u].sock \in asked
               /\ thr'[u].pc = "start" => thr'[u].msg.kind = "text"
               /\ thr'[u].pc = "routed" => thr'[u].msg.kind = "node"
               /\ thr'[u].pc = "star" => thr'[u].msg.kind = "star"
    <3>1. CASE u = t
      BY <1>1, <3>1
    <3>2. CASE u # t
      BY <1>0, <1>1, <3>2 DEF AskInv
    <3> QED
      BY <3>1, <3>2
  <2>2. \A c \in Client : \A i \in DOMAIN c2s'[c] : c2s'[c][i].kind \in Asks => c \in asked
    BY <1>0 DEF AskInv
  <2>3. /\ \A c \in Client : msg'[c].kind \in Asks => c \in asked'
        /\ {SEND_TO_FD', SEND_TO_FD_STAR'} \subseteq asked' \cup {None}
    BY <1>0, <1>1 DEF AskInv
  <2> QED
    BY <1>1, <2>1, <2>2, <2>3 DEF AskInv
<1>6. UnaskedGetsCommandsOnly'
  BY <1>1 DEF UnaskedGetsCommandsOnly
<1> QED
  BY <1>2, <1>3, <1>4, <1>5, <1>6 DEF Inv

(* What is sent to an asker, or as a command, keeps the promise. *)
LEMMA SendKeeps ==
    ASSUME Inv, NEW to, NEW text \in Message, NEW via \in {"command", "answer"}, send(to, text, via),
           via = "command" \/ to \subseteq asked \cup {None}
    PROVE  /\ s2c' \in [Client -> Seq(Delivery)]
           /\ \A c \in Client \ asked : \A i \in DOMAIN s2c'[c] : s2c'[c][i].via = "command"
<1>1. TypeOK /\ UnaskedGetsCommandsOnly
  BY DEF Inv
<1>2. /\ s2c' \in [Client -> Seq(Delivery)]
      /\ \A c \in Client : \A i \in DOMAIN s2c'[c] :
            \/ i \in DOMAIN s2c[c] /\ s2c'[c][i] = s2c[c][i]
            \/ c \in to /\ s2c'[c][i].via = via
  BY <1>1, SendFacts
<1>3. \A c \in Client \ asked : via = "command" \/ c \notin to
  BY ClientAssumption DEF None
<1> QED
  BY <1>1, <1>2, <1>3 DEF UnaskedGetsCommandsOnly

(* Every step of the server's threads keeps the invariant. *)
LEMMA ThreadKeeps ==
    ASSUME Inv, NEW t, ThreadNext(t)
    PROVE  Inv'
<1>0. /\ TypeOK /\ SockInv /\ AskInv /\ UnaskedGetsCommandsOnly
      /\ client_list \in Seq(Client \cup {Listen}) /\ c2s \in [Client -> Seq(Message)]
      /\ s2c \in [Client -> Seq(Delivery)]
      /\ SEND_TO_FD \in asked \cup {None} /\ SEND_TO_FD_STAR \in asked \cup {None}
  BY DEF Inv, TypeOK, AskInv, Delivery
<1>1. \A c \in Client \ asked : \A i \in DOMAIN s2c[c] : s2c[c][i].via = "command"
  BY <1>0 DEF UnaskedGetsCommandsOnly
<1>2. ASSUME NEW u \in DOMAIN thr, thr[u].pc # "start"
      PROVE  /\ thr[u].sock \in Client /\ (thr[u].msg.kind \in Asks => thr[u].sock \in asked)
             /\ thr[u].msg \in Message /\ Text(thr[u].msg.cmd, thr[u].msg.by) \in Message
  BY <1>0, <1>2, ThreadFields DEF SockInv, AskInv
<1>3. CASE ThreadStarts(t)
  <2>1. /\ Turn(t, "recv", Client_sock, thr[t].msg) /\ thr[t].pc = "start" /\ Client_sock \in Client
        /\ UNCHANGED <<client_list, SEND_TO_FD, SEND_TO_FD_STAR, c2s, s2c>>
    BY <1>3, ThreadStartsFacts
  <2>2. thr[t].msg.kind \notin Asks
    BY <1>0, <2>1 DEF AskInv, Asks, Turn
  <2> QED
    BY <1>0, <1>1, <2>1, <2>2, TurnKeeps
<1>4. CASE ThreadReceives(t)
  <2>c. PICK c : c = thr[t].sock
    OBVIOUS
  <2>m. PICK m : m = Head(c2s[c])
    OBVIOUS
  <2>1. /\ t \in DOMAIN thr /\ c \in Client /\ c2s[c] \in Seq(Message) /\ c2s[c] # <<>>
        /\ m = c2s[c][1] /\ 1 \in DOMAIN c2s[c]
        /\ \E pc \in {"recv", "answer", "star_answer", "route"} : Turn(t, pc, c, m)
        /\ c2s' \in [Client -> Seq(Message)] /\ c2s'[c] = Tail(c2s[c])
        /\ \A d \in Client \ {c} : c2s'[d] = c2s[d]
        /\ UNCHANGED <<client_list, SEND_TO_FD, SEND_TO_FD_STAR, s2c>>
    BY <1>4, <2>c, <2>m, ThreadReceivesFacts
  <2>2. m.kind \in Asks => c \in asked
    BY <1>0, <2>1 DEF AskInv
  <2>3. \A d \in Client : \A i \in DOMAIN c2s'[d] : \E j \in DOMAIN c2s[d] : c2s'[d][i] = c2s[d][j]
    <3>1. \A i \in DOMAIN c2s'[c] : \E j \in DOMAIN c2s[c] : c2s'[c][i] = c2s[c][j]
      BY <2>1, TailFacts
    <3>2. \A d \in Client \ {c} : \A i \in DOMAIN c2s'[d] : \E j \in DOMAIN c2s[d] : c2s'[d][i] = c2s[d][j]
      BY <2>1
    <3> QED
      BY <3>1, <3>2
  <2>4. PICK pc \in {"recv", "answer", "star_answer", "route"} : Turn(t, pc, c, m)
    BY <2>1
  <2>5. pc # "start" /\ pc # "routed" /\ pc # "star"
    OBVIOUS
  <2> QED
    BY <1>0, <1>1, <2>1, <2>2, <2>3, <2>4, <2>5, TurnKeeps
<1>5. CASE Answer(t)
  <2>1. /\ t \in DOMAIN thr /\ thr[t].pc = "answer" /\ Turn(t, "answered", thr[t].sock, thr[t].msg)
        /\ send({SEND_TO_FD}, thr[t].msg, "answer") /\ Quietly /\ UNCHANGED <<SEND_TO_FD, SEND_TO_FD_STAR>>
    BY <1>5, AnswerFacts
  <2>2. /\ s2c' \in [Client -> Seq(Delivery)]
        /\ \A c \in Client \ asked : \A i \in DOMAIN s2c'[c] : s2c'[c][i].via = "command"
    BY <1>0, <1>2, <2>1, SendKeeps
  <2> QED
    BY <1>0, <1>2, <2>1, <2>2, TurnKeeps DEF Quietly
<1>6. CASE Answered(t)
  <2>1. /\ t \in DOMAIN thr /\ thr[t].pc = "answered" /\ Turn(t, "recv", thr[t].sock, thr[t].msg)
        /\ SEND_TO_FD' = None /\ Quietly /\ UNCHANGED <<SEND_TO_FD_STAR, s2c>>
    BY <1>6, AnsweredFacts
  <2> QED
    BY <1>0, <1>1, <1>2, <2>1, TurnKeeps DEF Quietly
<1>7. CASE StarAnswer(t)
  <2>1. /\ t \in DOMAIN thr /\ thr[t].pc = "star_answer" /\ Turn(t, "recv", thr[t].sock, thr[t].msg)
        /\ \/ send({SEND_TO_FD_STAR}, thr[t].msg, "answer") /\ UNCHANGED SEND_TO_FD_STAR
           \/ SEND_TO_FD_STAR' = None /\ UNCHANGED s2c
        /\ Quietly /\ UNCHANGED SEND_TO_FD
    BY <1>7, StarAnswerFacts
  <2>2. /\ s2c' \in [Client -> Seq(Delivery)]
        /\ \A c \in Client \ asked : \A i \in DOMAIN s2c'[c] : s2c'[c][i].via = "command"
    <3>1. CASE send({SEND_TO_FD_STAR}, thr[t].msg, "answer")
      BY <1>0, <1>2, <2>1, <3>1, SendKeeps
    <3>2. CASE UNCHANGED s2c
      BY <1>0, <1>1, <3>2
    <3> QED
      BY <2>1, <3>1, <3>2
  <2> QED
    BY <1>0, <1>2, <2>1, <2>2, TurnKeeps DEF Quietly
<1>8. CASE Route(t)
  <2>1. /\ t \in DOMAIN thr /\ thr[t].pc = "route"
        /\ \/ /\ thr[t].msg.kind = "node" /\ Turn(t, "routed", thr[t].sock, thr[t].msg)
              /\ \E to : send(to, Text(thr[t].msg.cmd, thr[t].msg.by), "command")
           \/ thr[t].msg.kind = "star" /\ Turn(t, "star", thr[t].sock, thr[t].msg) /\ UNCHANGED s2c
           \/ thr[t].msg.kind # "star" /\ Turn(t, "recv", thr[t].sock, thr[t].msg) /\ UNCHANGED s2c
        /\ Quietly /\ UNCHANGED <<SEND_TO_FD, SEND_TO_FD_STAR>>
    BY <1>8, RouteFacts
  <2>2. CASE /\ thr[t].msg.kind = "node" /\ Turn(t, "routed", thr[t].sock, thr[t].msg)
             /\ \E to : send(to, Text(thr[t].msg.cmd, thr[t].msg.by), "command")
    <3>1. PICK to : send(to, Text(thr[t].msg.cmd, thr[t].msg.by), "command")
      BY <2>2
    <3>2. /\ s2c' \in [Client -> Seq(Delivery)]
          /\ \A c \in Client \ asked : \A i \in DOMAIN s2c'[c] : s2c'[c][i].via = "command"
      BY <1>0, <1>2, <2>1, <3>1, SendKeeps
    <3> QED
      BY <1>0, <1>2, <2>1, <2>2, <3>2, TurnKeeps DEF Quietly
  <2>3. CASE thr[t].msg.kind = "star" /\ Turn(t, "star", thr[t].sock, thr[t].msg) /\ UNCHANGED s2c
    BY <1>0, <1>1, <1>2, <2>1, <2>3, TurnKeeps DEF Quietly
  <2>4. CASE Turn(t, "recv", thr[t].sock, thr[t].msg) /\ UNCHANGED s2c
    BY <1>0, <1>1, <1>2, <2>1, <2>4, TurnKeeps DEF Quietly
  <2> QED
    BY <2>1, <2>2, <2>3, <2>4
<1>9. CASE Routed(t)
  <2>1. /\ t \in DOMAIN thr /\ thr[t].pc = "routed" /\ Turn(t, "recv", thr[t].sock, thr[t].msg)
        /\ SEND_TO_FD' = thr[t].sock /\ Quietly /\ UNCHANGED <<SEND_TO_FD_STAR, s2c>>
    BY <1>9, RoutedFacts
  <2>2. thr[t].sock \in asked
    BY <1>0, <1>2, <2>1 DEF AskInv, Asks
  <2> QED
    BY <1>0, <1>1, <1>2, <2>1, <2>2, TurnKeeps DEF Quietly
<1>10. CASE SendToAll(t)
  <2>1. /\ t \in DOMAIN thr /\ thr[t].pc = "star" /\ Turn(t, "counting", thr[t].sock, thr[t].msg)
        /\ SEND_TO_FD_STAR' = thr[t].sock /\ UNCHANGED SEND_TO_FD /\ Quietly
        /\ \E to : send(to, Text(thr[t].msg.cmd, thr[t].msg.by), "command")
    BY <1>10, SendToAllFacts
  <2>2. thr[t].sock \in asked
    BY <1>0, <1>2, <2>1 DEF AskInv, Asks
  <2>3. PICK to : send(to, Text(thr[t].msg.cmd, thr[t].msg.by), "command")
    BY <2>1
  <2>4. /\ s2c' \in [Client -> Seq(Delivery)]
        /\ \A c \in Client \ asked : \A i \in DOMAIN s2c'[c] : s2c'[c][i].via = "command"
    BY <1>0, <1>2, <2>1, <2>3, SendKeeps
  <2> QED
    BY <1>0, <1>2, <2>1, <2>2, <2>4, TurnKeeps DEF Quietly
<1>11. CASE CountNodes(t)
  <2>1. /\ t \in DOMAIN thr /\ thr[t].pc = "counting" /\ Turn(t, "recv", thr[t].sock, thr[t].msg)
        /\ Quietly /\ UNCHANGED <<SEND_TO_FD, SEND_TO_FD_STAR, s2c>>
    BY <1>11, CountNodesFacts
  <2> QED
    BY <1>0, <1>1, <1>2, <2>1, TurnKeeps DEF Quietly
<1>12. CASE ThreadLeaves(t)
  <2>1. /\ t \in DOMAIN thr /\ thr[t].pc = "recv" /\ Turn(t, "leaving", thr[t].sock, thr[t].msg)
        /\ Quietly /\ UNCHANGED <<SEND_TO_FD, SEND_TO_FD_STAR, s2c>>
    BY <1>12, ThreadLeavesFacts
  <2> QED
    BY <1>0, <1>1, <1>2, <2>1, TurnKeeps DEF Quietly
<1>13. CASE ThreadEnds(t)
  <2>1. /\ t \in DOMAIN thr /\ thr[t].pc = "leaving" /\ Turn(t, "ended", thr[t].sock, thr[t].msg)
        /\ client_list' \in Seq(Client \cup {Listen})
        /\ UNCHANGED <<SEND_TO_FD, SEND_TO_FD_STAR, c2s, s2c>>
    BY <1>13, ThreadEndsFacts
  <2> QED
    BY <1>0, <1>1, <1>2, <2>1, TurnKeeps
<1> QED
  BY <1>3, <1>4, <1>5, <1>6, <1>7, <1>8, <1>9, <1>10, <1>11, <1>12, <1>13 DEF ThreadNext

-----------------------------------------------------------------------------
(* The clients *)

(* The types of what a client and its connection hold. *)
ClientTypes ==
    /\ c2s \in [Client -> Seq(Message)] /\ s2c \in [Client -> Seq(Delivery)]
    /\ conn \in [Client -> {"out", "in", "gone"}]
    /\ msg \in [Client -> Message] /\ argVector \in [Client -> Message]
    /\ stdout \in [Client -> {"tty", "sock"}] /\ badRedirectpipe \in [Client -> BOOLEAN]
    /\ main \in [Client -> Thread] /\ rcv \in [Client -> Thread]

(* A step of client c alone. *)
Acts(c) ==
    /\ ClientTypes'
    /\ UNCHANGED server
    /\ \A d \in Client \ {c} :
          /\ c2s'[d] = c2s[d] /\ s2c'[d] = s2c[d] /\ conn'[d] = conn[d] /\ msg'[d] = msg[d]
          /\ argVector'[d] = argVector[d] /\ stdout'[d] = stdout[d] /\ main'[d] = main[d] /\ rcv'[d] = rcv[d]

(* It keeps the invariant if what it sends as a question is its own. *)
LEMMA ActsKeeps ==
    ASSUME Inv, NEW c \in Client, Acts(c),
           lines' \in 0 .. MaxLines, asked \subseteq asked', asked' \subseteq Client,
           conn'[c] # "out", msg'[c].kind \in Asks => c \in asked',
           \A i \in DOMAIN c2s'[c] : c2s'[c][i].kind \in Asks => c \in asked',
           \A i \in DOMAIN s2c'[c] : \E j \in DOMAIN s2c[c] : s2c'[c][i] = s2c[c][j]
    PROVE  Inv'
<1>0. TypeOK /\ FdsInv /\ SockInv /\ AskInv /\ UnaskedGetsCommandsOnly
  BY DEF Inv
<1>1. /\ ClientTypes'
      /\ UNCHANGED <<client_fds, client_list, Client_sock, SEND_TO_FD, SEND_TO_FD_STAR, thr>>
      /\ \A d \in Client \ {c} : /\ c2s'[d] = c2s[d] /\ s2c'[d] = s2c[d] /\ conn'[d] = conn[d] /\ msg'[d] = msg[d]
  BY DEF Acts, server
<1>2. TypeOK'
  BY <1>0, <1>1 DEF TypeOK, ClientTypes, Delivery
<1>3. FdsInv'
  <2>1. \A i \in DOMAIN client_fds : client_fds[i] \in Client
    BY <1>0 DEF TypeOK
  <2>2. \A d \in Client : conn[d] # "out" => conn'[d] # "out"
    BY <1>1
  <2> QED
    BY <1>0, <1>1, <2>1, <2>2 DEF FdsInv
<1>4. SockInv'
  BY <1>0, <1>1 DEF SockInv
<1>5. AskInv'
  <2>1. \A d \in Client : msg'[d].kind \in Asks => d \in asked'
    BY <1>0, <1>1 DEF AskInv
  <2>2. ASSUME NEW d \in Client PROVE \A i \in DOMAIN c2s'[d] : c2s'[d][i].kind \in Asks => d \in asked'
    <3>1. CASE d = c
      BY <3>1
    <3>2. CASE d # c
      BY <1>0, <1>1, <3>2 DEF AskInv
    <3> QED
      BY <3>1, <3>2
  <2>3. /\ {SEND_TO_FD', SEND_TO_FD_STAR'} \subseteq asked' \cup {None}
        /\ \A t \in DOMAIN thr' : thr'[t].msg.kind \in Asks => thr'[t].sock \in asked'
    BY <1>0, <1>1 DEF AskInv
  <2>4. \A t \in DOMAIN thr' : /\ thr'[t].pc = "start" => thr'[t].msg.kind = "text"
                               /\ thr'[t].pc = "routed" => thr'[t].msg.kind = "node"
                               /\ thr'[t].pc = "star" => thr'[t].msg.kind = "star"
    BY <1>0, <1>1 DEF AskInv
  <2> QED
    BY <2>1, <2>2, <2>3, <2>4 DEF AskInv
<1>6. UnaskedGetsCommandsOnly'
  <2> SUFFICES ASSUME NEW d \in Client \ asked', NEW i \in DOMAIN s2c'[d] PROVE s2c'[d][i].via = "command"
    BY DEF UnaskedGetsCommandsOnly
  <2>1. d \in Client \ asked
    OBVIOUS
  <2>2. \E j \in DOMAIN s2c[d] : s2c'[d][i] = s2c[d][j]
    BY <1>1
  <2> QED
    BY <1>0, <2>1, <2>2 DEF UnaskedGetsCommandsOnly
<1> QED
  BY <1>2, <1>3, <1>4, <1>5, <1>6 DEF Inv

(* The types before a step. *)
LEMMA ClientTypesHold ==
    ASSUME TypeOK
    PROVE  /\ ClientTypes
           /\ \A c \in Client :
                 /\ c2s[c] \in Seq(Message) /\ s2c[c] \in Seq(Delivery) /\ msg[c] \in Message
                 /\ argVector[c] \in Message /\ main[c] \in Thread /\ rcv[c] \in Thread
                 /\ main[c].line \in Message /\ rcv[c].line \in Message
                 /\ badRedirectpipe[c] \in BOOLEAN /\ Empty(c) \in Message
                 /\ Waiting(c) \in Thread /\ Idle(c) \in Thread
                 /\ Waiting(c).pc = "fgets" /\ Idle(c).pc = "recv"
<1>1. ClientTypes
  BY DEF TypeOK, ClientTypes, Delivery
<1>2. ASSUME NEW c \in Client
      PROVE  /\ c2s[c] \in Seq(Message) /\ s2c[c] \in Seq(Delivery) /\ msg[c] \in Message
             /\ argVector[c] \in Message /\ main[c] \in Thread /\ rcv[c] \in Thread
             /\ badRedirectpipe[c] \in BOOLEAN
  BY <1>1 DEF ClientTypes
<1>3. ASSUME NEW c \in Client PROVE main[c].line \in Message /\ rcv[c].line \in Message
  BY <1>2 DEF Thread
<1>4. ASSUME NEW c \in Client PROVE Empty(c) \in Message
  BY TextType DEF Empty, Cmd
<1>5. ASSUME NEW c \in Client
      PROVE  /\ Waiting(c) \in Thread /\ Idle(c) \in Thread
             /\ Waiting(c).pc = "fgets" /\ Idle(c).pc = "recv"
  BY <1>4 DEF Waiting, Idle, Thread
<1> QED
  BY <1>1, <1>2, <1>3, <1>4, <1>5

(* What a command prints goes to the server, if its output does. *)
LEMMA PrintsFacts ==
    ASSUME TypeOK, NEW c \in Client, NEW t \in Thread, Prints(c, t)
    PROVE  /\ c2s' \in [Client -> Seq(Message)] /\ \A d \in Client \ {c} : c2s'[d] = c2s[d]
           /\ \/ c2s'[c] = c2s[c]
              \/ /\ t.out = "sock"
                 /\ \E x \in Message : x.kind = "text" /\ x.by = t.line.by /\ c2s'[c] = Append(c2s[c], x)
<1>1. c2s \in [Client -> Seq(Message)]
  BY DEF TypeOK
<1>2. CASE t.out = "sock" /\ t.line.cmd \in DOMAIN Output
  <2>x. PICK x : x = Text(Output[t.line.cmd], t.line.by)
    OBVIOUS
  <2>1. t.line \in Message /\ t.line.by \in Client
    BY DEF Thread, Message
  <2>2. Output[t.line.cmd] \in Cmd
    BY <1>2 DEF Output, Cmd
  <2>3. x \in Message /\ x.kind = "text" /\ x.by = t.line.by
    BY <2>1, <2>2, <2>x, TextType
  <2>4. c2s' = [c2s EXCEPT ![c] = Append(c2s[c], x)]
    BY <1>2, <2>x DEF Prints
  <2>5. Append(c2s[c], x) \in Seq(Message)
    BY <1>1, <2>3
  <2> QED
    BY <1>1, <1>2, <2>3, <2>4, <2>5
<1>3. CASE ~(t.out = "sock" /\ t.line.cmd \in DOMAIN Output)
  BY <1>1, <1>3 DEF Prints
<1> QED
  BY <1>2, <1>3

(* A line is typed. *)
LEMMA TypesFacts ==
    ASSUME Inv, NEW c \in Client, Types(c)
    PROVE  /\ Acts(c) /\ conn[c] = "in" /\ main[c].pc = "fgets" /\ (Calm => Quiet)
           /\ lines' \in 0 .. MaxLines /\ asked \subseteq asked' /\ asked' \subseteq Client
           /\ UNCHANGED <<c2s, s2c, conn, stdout, rcv>>
           /\ msg'[c].kind # "text" /\ msg'[c].by = c /\ (msg'[c].kind \in Asks => c \in asked')
           /\ main'[c].pc = "write"
<1>0. TypeOK /\ ClientTypes /\ main[c] \in Thread
  BY ClientTypesHold DEF Inv
<1>1. PICK kind \in Kind \ {"text"}, node \in 0 .. Nodes, cmd \in Typed : MainReads(c, kind, node, cmd)
  BY DEF Types
<1>m. PICK m : m = [kind |-> kind, node |-> node, cmd |-> cmd, by |-> c]
  OBVIOUS
<1>t. PICK t : t = [main[c] EXCEPT !.pc = "write"]
  OBVIOUS
<1>2. m \in Message /\ m.kind = kind /\ m.by = c
  BY <1>m, TypedAssumption DEF Message, Cmd
<1>3. t \in Thread /\ t.pc = "write"
  BY <1>0, <1>t DEF Thread
<1>4. /\ conn[c] = "in" /\ main[c].pc = "fgets" /\ (Calm => Quiet) /\ lines < MaxLines
      /\ lines' = lines + 1 /\ msg' = [msg EXCEPT ![c] = m] /\ main' = [main EXCEPT ![c] = t]
      /\ asked' = IF kind \in {"node", "star"} THEN asked \cup {c} ELSE asked
      /\ UNCHANGED server /\ UNCHANGED <<c2s, s2c, conn, argVector, stdout, badRedirectpipe, rcv>>
  BY <1>1, <1>m, <1>t DEF MainReads, MainAt
<1>5. /\ msg' \in [Client -> Message] /\ msg'[c] = m /\ main' \in [Client -> Thread] /\ main'[c] = t
      /\ \A d \in Client \ {c} : msg'[d] = msg[d] /\ main'[d] = main[d]
  BY <1>0, <1>2, <1>3, <1>4 DEF ClientTypes
<1>6. Acts(c)
  BY <1>0, <1>4, <1>5 DEF Acts, ClientTypes
<1>7. lines' \in 0 .. MaxLines /\ asked \subseteq asked' /\ asked' \subseteq Client
  BY <1>0, <1>4, BoundsAssumption DEF TypeOK
<1>8. m.kind \in Asks => c \in asked'
  BY <1>2, <1>4 DEF Asks
<1> QED
  BY <1>2, <1>3, <1>4, <1>5, <1>6, <1>7, <1>8

(* The line in the buffer goes to the server. *)
LEMMA MainWritesFacts ==
    ASSUME Inv, NEW c \in Client, MainWrites(c)
    PROVE  /\ Acts(c) /\ conn[c] = "in" /\ main[c].pc = "write"
           /\ UNCHANGED <<lines, asked, s2c, conn, msg, stdout, rcv>>
           /\ \E line \in Message :
                 /\ line.by = msg[c].by /\ line.kind # "text" /\ (msg[c].kind # "text" => line.kind = msg[c].kind)
                 /\ line.kind \in Asks => msg[c].kind \in Asks
                 /\ c2s'[c] = Append(c2s[c], line)
                 /\ main'[c].pc = IF line.kind = "here" THEN "parse" ELSE "fgets"
<1>0. TypeOK /\ ClientTypes /\ main[c] \in Thread /\ msg[c] \in Message /\ c2s[c] \in Seq(Message)
  BY ClientTypesHold DEF Inv
<1>l. PICK line : line = IF msg[c].kind = "text" THEN [msg[c] EXCEPT !.kind = "here"] ELSE msg[c]
  OBVIOUS
<1>1. /\ line \in Message /\ line.by = msg[c].by /\ line.kind # "text"
      /\ (msg[c].kind # "text" => line.kind = msg[c].kind) /\ (msg[c].kind = "text" => line.kind = "here")
  BY <1>0, <1>l DEF Message, Kind
<1>p. PICK pc : pc = IF line.kind = "here" THEN "parse" ELSE "fgets"
  OBVIOUS
<1>x. PICK x : x = Text(line.cmd, line.by)
  OBVIOUS
<1>t. PICK t : t = [main[c] EXCEPT !.line = x, !.pc = pc]
  OBVIOUS
<1>2. x \in Message
  <2>1. line.cmd \in Cmd /\ line.by \in Client
    BY <1>1 DEF Message
  <2> QED
    BY <1>x, <2>1, TextType
<1>3. t \in Thread /\ t.pc = pc
  BY <1>0, <1>2, <1>p, <1>t DEF Thread
<1>4. /\ conn[c] = "in" /\ main[c].pc = "write"
      /\ c2s' = [c2s EXCEPT ![c] = Append(c2s[c], line)]
      /\ UNCHANGED server /\ UNCHANGED <<lines, asked, s2c, conn, msg, argVector, stdout, badRedirectpipe, rcv>>
  BY <1>l DEF MainWrites, MainAt
<1>5. main' = [main EXCEPT ![c] = t]
  <2>1. main' = [main EXCEPT ![c].line = x, ![c].pc = pc]
    BY <1>l, <1>p, <1>x DEF MainWrites
  <2> QED
    BY <1>t, <2>1
<1>6. /\ main' \in [Client -> Thread] /\ main'[c] = t /\ \A d \in Client \ {c} : main'[d] = main[d]
  BY <1>0, <1>3, <1>5 DEF ClientTypes
<1>7. Append(c2s[c], line) \in Seq(Message)
  BY <1>0, <1>1
<1>8. /\ c2s' \in [Client -> Seq(Message)] /\ c2s'[c] = Append(c2s[c], line)
      /\ \A d \in Client \ {c} : c2s'[d] = c2s[d]
  BY <1>0, <1>4, <1>7 DEF ClientTypes
<1>9. Acts(c)
  BY <1>0, <1>4, <1>6, <1>8 DEF Acts, ClientTypes
<1>10. line.kind \in Asks => msg[c].kind \in Asks
  BY <1>1 DEF Asks
<1> QED
  BY <1>1, <1>3, <1>4, <1>6, <1>8, <1>9, <1>10, <1>p

(* A line of the client's own is parsed. *)
LEMMA MainParsesFacts ==
    ASSUME Inv, NEW c \in Client, MainParses(c)
    PROVE  /\ Acts(c) /\ conn[c] = "in" /\ main[c].pc = "parse" /\ main'[c].pc \in {"fork", "fgets"}
           /\ UNCHANGED <<lines, asked, c2s, s2c, conn, msg, stdout, rcv>>
<1>0. /\ TypeOK /\ ClientTypes /\ main[c] \in Thread /\ main[c].line \in Message /\ badRedirectpipe[c] \in BOOLEAN
  BY ClientTypesHold DEF Inv
<1>p. PICK pc : pc = IF Forks(c, main[c].line) THEN "fork" ELSE "fgets"
  OBVIOUS
<1>t. PICK t : t = [main[c] EXCEPT !.pc = pc]
  OBVIOUS
<1>1. pc \in {"fork", "fgets"}
  BY <1>p
<1>2. t \in Thread /\ t.pc = pc
  BY <1>0, <1>1, <1>t DEF Thread
<1>3. /\ conn[c] = "in" /\ main[c].pc = "parse" /\ main' = [main EXCEPT ![c] = t]
      /\ argVector' = [argVector EXCEPT ![c] = main[c].line]
      /\ badRedirectpipe' = [badRedirectpipe EXCEPT ![c] = badRedirectpipe[c] \/ main[c].line.cmd = "twoIn"]
      /\ UNCHANGED server /\ UNCHANGED <<lines, asked, c2s, s2c, conn, msg, stdout, rcv>>
  BY <1>p, <1>t DEF MainParses, MainAt, Parsed
<1>4. /\ main' \in [Client -> Thread] /\ main'[c] = t /\ \A d \in Client \ {c} : main'[d] = main[d]
      /\ argVector' \in [Client -> Message] /\ \A d \in Client \ {c} : argVector'[d] = argVector[d]
  BY <1>0, <1>2, <1>3 DEF ClientTypes
<1>5. badRedirectpipe' \in [Client -> BOOLEAN]
  BY <1>0, <1>3, Zenon DEF ClientTypes
<1>6. Acts(c)
  BY <1>0, <1>3, <1>4, <1>5 DEF Acts, ClientTypes
<1> QED
  BY <1>1, <1>2, <1>3, <1>4, <1>6

(* The command of a line is given the standard output of the moment. *)
LEMMA MainForksFacts ==
    ASSUME Inv, NEW c \in Client, MainForks(c)
    PROVE  /\ Acts(c) /\ conn[c] = "in" /\ main[c].pc = "fork" /\ main'[c].pc = "wait" /\ main'[c].out = stdout[c]
           /\ UNCHANGED <<lines, asked, c2s, s2c, conn, msg, stdout, rcv>>
<1>0. /\ TypeOK /\ ClientTypes /\ main[c] \in Thread /\ argVector[c] \in Message /\ stdout[c] \in {"tty", "sock"}
  BY ClientTypesHold DEF Inv, ClientTypes
<1>t. PICK t : t = [main[c] EXCEPT !.pc = "wait", !.line = argVector[c], !.out = stdout[c]]
  OBVIOUS
<1>1. t \in Thread /\ t.pc = "wait" /\ t.out = stdout[c]
  BY <1>0, <1>t DEF Thread
<1>2. /\ conn[c] = "in" /\ main[c].pc = "fork" /\ main' = [main EXCEPT ![c] = t]
      /\ UNCHANGED server
      /\ UNCHANGED <<lines, asked, c2s, s2c, conn, msg, argVector, stdout, badRedirectpipe, rcv>>
  BY <1>t DEF MainForks, MainAt, Forked
<1>3. main' \in [Client -> Thread] /\ main'[c] = t /\ \A d \in Client \ {c} : main'[d] = main[d]
  BY <1>0, <1>1, <1>2 DEF ClientTypes
<1>4. Acts(c)
  BY <1>0, <1>2, <1>3 DEF Acts, ClientTypes
<1> QED
  BY <1>1, <1>2, <1>3, <1>4

(* It prints and ends. *)
LEMMA MainWaitsFacts ==
    ASSUME Inv, NEW c \in Client, MainWaits(c)
    PROVE  /\ Acts(c) /\ conn[c] = "in" /\ main[c].pc = "wait" /\ main'[c].pc = "fgets"
           /\ UNCHANGED <<lines, asked, s2c, conn, msg, stdout, rcv>>
           /\ \/ c2s'[c] = c2s[c]
              \/ /\ main[c].out = "sock"
                 /\ \E x \in Message : x.kind = "text" /\ c2s'[c] = Append(c2s[c], x)
<1>0. /\ TypeOK /\ ClientTypes /\ main[c] \in Thread /\ Waiting(c) \in Thread /\ Waiting(c).pc = "fgets"
  BY ClientTypesHold DEF Inv
<1>1. /\ conn[c] = "in" /\ main[c].pc = "wait" /\ main' = [main EXCEPT ![c] = Waiting(c)]
      /\ Prints(c, main[c]) /\ UNCHANGED server
      /\ UNCHANGED <<lines, asked, s2c, conn, msg, argVector, stdout, badRedirectpipe, rcv>>
  BY DEF MainWaits, MainAt
<1>2. main' \in [Client -> Thread] /\ main'[c] = Waiting(c) /\ \A d \in Client \ {c} : main'[d] = main[d]
  BY <1>0, <1>1 DEF ClientTypes
<1>3. /\ c2s' \in [Client -> Seq(Message)] /\ \A d \in Client \ {c} : c2s'[d] = c2s[d]
      /\ \/ c2s'[c] = c2s[c]
         \/ /\ main[c].out = "sock"
            /\ \E x \in Message : x.kind = "text" /\ c2s'[c] = Append(c2s[c], x)
  BY <1>0, <1>1, PrintsFacts
<1>4. Acts(c)
  BY <1>0, <1>1, <1>2, <1>3 DEF Acts, ClientTypes
<1> QED
  BY <1>0, <1>1, <1>2, <1>3, <1>4

(* A client leaves. *)
LEMMA MainExitsFacts ==
    ASSUME Inv, NEW c \in Client, MainExits(c)
    PROVE  /\ Acts(c) /\ conn[c] = "in" /\ main[c].pc = "fgets" /\ (Calm => Quiet)
           /\ conn'[c] = "gone" /\ s2c'[c] = <<>> /\ rcv'[c].pc = "recv" /\ stdout'[c] = "tty"
           /\ msg'[c].kind = "text"
           /\ UNCHANGED <<lines, asked, c2s, main>>
<1>0. /\ TypeOK /\ ClientTypes /\ Empty(c) \in Message /\ Empty(c).kind = "text"
      /\ Idle(c) \in Thread /\ Idle(c).pc = "recv" /\ <<>> \in Seq(Delivery)
  BY ClientTypesHold, TextType DEF Inv, Empty, Cmd
<1>1. /\ conn[c] = "in" /\ main[c].pc = "fgets" /\ (Calm => Quiet)
      /\ conn' = [conn EXCEPT ![c] = "gone"] /\ s2c' = [s2c EXCEPT ![c] = <<>>]
      /\ msg' = [msg EXCEPT ![c] = Empty(c)] /\ argVector' = [argVector EXCEPT ![c] = Empty(c)]
      /\ stdout' = [stdout EXCEPT ![c] = "tty"] /\ badRedirectpipe' = [badRedirectpipe EXCEPT ![c] = FALSE]
      /\ rcv' = [rcv EXCEPT ![c] = Idle(c)] /\ UNCHANGED server /\ UNCHANGED <<lines, asked, c2s, main>>
  BY DEF MainExits, MainAt
<1>2. /\ conn' \in [Client -> {"out", "in", "gone"}] /\ s2c' \in [Client -> Seq(Delivery)]
      /\ msg' \in [Client -> Message] /\ argVector' \in [Client -> Message]
      /\ stdout' \in [Client -> {"tty", "sock"}] /\ rcv' \in [Client -> Thread]
      /\ conn'[c] = "gone" /\ s2c'[c] = <<>> /\ rcv'[c] = Idle(c) /\ stdout'[c] = "tty" /\ msg'[c] = Empty(c)
  BY <1>0, <1>1 DEF ClientTypes
<1>3. \A d \in Client \ {c} : /\ conn'[d] = conn[d] /\ s2c'[d] = s2c[d] /\ msg'[d] = msg[d]
                              /\ argVector'[d] = argVector[d] /\ stdout'[d] = stdout[d] /\ rcv'[d] = rcv[d]
  BY <1>0, <1>1 DEF ClientTypes
<1>4. badRedirectpipe' \in [Client -> BOOLEAN]
  BY <1>0, <1>1, Zenon DEF ClientTypes
<1>5. Acts(c)
  BY <1>0, <1>1, <1>2, <1>3, <1>4 DEF Acts, ClientTypes
<1> QED
  BY <1>0, <1>1, <1>2, <1>5

(* A message of the server's comes into the buffer. *)
LEMMA RcvReceivesFacts ==
    ASSUME Inv, NEW c \in Client, RcvReceives(c)
    PROVE  /\ Acts(c) /\ conn[c] = "in" /\ rcv[c].pc = "recv" /\ rcv'[c].pc = "dup"
           /\ s2c[c] \in Seq(Delivery) /\ s2c[c] # <<>> /\ s2c'[c] = Tail(s2c[c]) /\ 1 \in DOMAIN s2c[c]
           /\ msg'[c].kind = "text" /\ msg'[c].by = s2c[c][1].text.by
           /\ UNCHANGED <<lines, asked, c2s, conn, stdout, main>>
<1>0. TypeOK /\ ClientTypes /\ rcv[c] \in Thread /\ s2c[c] \in Seq(Delivery)
  BY ClientTypesHold DEF Inv
<1>1. /\ conn[c] = "in" /\ rcv[c].pc = "recv" /\ s2c[c] # <<>>
      /\ UNCHANGED server /\ UNCHANGED <<lines, asked, c2s, conn, argVector, stdout, badRedirectpipe, main>>
      /\ s2c' = [s2c EXCEPT ![c] = Tail(s2c[c])]
  BY DEF RcvReceives, RcvAt
<1>2. /\ Head(s2c[c]) = s2c[c][1] /\ 1 \in DOMAIN s2c[c] /\ Head(s2c[c]) \in Delivery
      /\ Tail(s2c[c]) \in Seq(Delivery)
  BY <1>0, <1>1, TailFacts
<1>x. PICK x : x = Head(s2c[c]).text
  OBVIOUS
<1>m. PICK m : m = IF x.kind = "text" THEN x ELSE Text("text", x.by)
  OBVIOUS
<1>t. PICK t : t = [rcv[c] EXCEPT !.pc = "dup"]
  OBVIOUS
<1>3. x \in Message /\ x.by \in Client
  BY <1>2, <1>x DEF Delivery, Message
<1>4. m \in Message /\ m.kind = "text" /\ m.by = x.by
  BY <1>3, <1>m, TextType DEF Cmd
<1>5. t \in Thread /\ t.pc = "dup"
  BY <1>0, <1>t DEF Thread
<1>6. msg' = [msg EXCEPT ![c] = m] /\ rcv' = [rcv EXCEPT ![c] = t]
  BY <1>m, <1>t, <1>x DEF RcvReceives
<1>7. /\ msg' \in [Client -> Message] /\ msg'[c] = m /\ rcv' \in [Client -> Thread] /\ rcv'[c] = t
      /\ s2c' \in [Client -> Seq(Delivery)] /\ s2c'[c] = Tail(s2c[c])
      /\ \A d \in Client \ {c} : msg'[d] = msg[d] /\ rcv'[d] = rcv[d] /\ s2c'[d] = s2c[d]
  BY <1>0, <1>1, <1>2, <1>4, <1>5, <1>6 DEF ClientTypes
<1>8. Acts(c)
  BY <1>0, <1>1, <1>7 DEF Acts, ClientTypes
<1> QED
  BY <1>0, <1>1, <1>2, <1>4, <1>5, <1>7, <1>8, <1>x

(* Standard output is made the socket. *)
LEMMA RcvRedirectsFacts ==
    ASSUME Inv, NEW c \in Client, RcvRedirects(c)
    PROVE  /\ Acts(c) /\ conn[c] = "in" /\ rcv[c].pc = "dup" /\ rcv'[c].pc = "parse"
           /\ UNCHANGED <<lines, asked, c2s, s2c, conn, msg, main>>
<1>0. TypeOK /\ ClientTypes /\ rcv[c] \in Thread
  BY ClientTypesHold DEF Inv
<1>t. PICK t : t = [rcv[c] EXCEPT !.pc = "parse"]
  OBVIOUS
<1>1. t \in Thread /\ t.pc = "parse"
  BY <1>0, <1>t DEF Thread
<1>2. /\ conn[c] = "in" /\ rcv[c].pc = "dup" /\ rcv' = [rcv EXCEPT ![c] = t]
      /\ stdout' = [stdout EXCEPT ![c] = "sock"]
      /\ UNCHANGED server /\ UNCHANGED <<lines, asked, c2s, s2c, conn, msg, argVector, badRedirectpipe, main>>
  BY <1>t DEF RcvRedirects, RcvAt
<1>3. /\ rcv' \in [Client -> Thread] /\ rcv'[c] = t /\ stdout' \in [Client -> {"tty", "sock"}]
      /\ \A d \in Client \ {c} : rcv'[d] = rcv[d] /\ stdout'[d] = stdout[d]
  BY <1>0, <1>1, <1>2 DEF ClientTypes
<1>4. Acts(c)
  BY <1>0, <1>2, <1>3 DEF Acts, ClientTypes
<1> QED
  BY <1>1, <1>2, <1>3, <1>4

(* The buffer is parsed as a command. *)
LEMMA RcvParsesFacts ==
    ASSUME Inv, NEW c \in Client, RcvParses(c)
    PROVE  /\ Acts(c) /\ conn[c] = "in" /\ rcv[c].pc = "parse" /\ rcv'[c].pc \in {"fork", "restore"}
           /\ argVector'[c].by = msg[c].by
           /\ UNCHANGED <<lines, asked, c2s, s2c, conn, msg, stdout, main>>
<1>0. /\ TypeOK /\ ClientTypes /\ rcv[c] \in Thread /\ msg[c] \in Message /\ badRedirectpipe[c] \in BOOLEAN
  BY ClientTypesHold DEF Inv
<1>x. PICK x : x = IF msg[c].kind \in {"text", "here"} THEN Text(msg[c].cmd, msg[c].by) ELSE Text("text", msg[c].by)
  OBVIOUS
<1>p. PICK pc : pc = IF Forks(c, x) THEN "fork" ELSE "restore"
  OBVIOUS
<1>t. PICK t : t = [rcv[c] EXCEPT !.pc = pc]
  OBVIOUS
<1>1. pc \in {"fork", "restore"}
  BY <1>p
<1>2. t \in Thread /\ t.pc = pc
  BY <1>0, <1>1, <1>t DEF Thread
<1>3. x \in Message /\ x.by = msg[c].by
  <2>1. msg[c].cmd \in Cmd /\ msg[c].by \in Client /\ "text" \in Cmd
    BY <1>0 DEF Message, Cmd
  <2> QED
    BY <1>x, <2>1, TextType
<1>4. /\ conn[c] = "in" /\ rcv[c].pc = "parse"
      /\ argVector' = [argVector EXCEPT ![c] = x]
      /\ badRedirectpipe' = [badRedirectpipe EXCEPT ![c] = badRedirectpipe[c] \/ x.cmd = "twoIn"]
      /\ UNCHANGED server /\ UNCHANGED <<lines, asked, c2s, s2c, conn, msg, stdout, main>>
  BY <1>x DEF RcvParses, RcvAt, Parsed
<1>5. rcv' = [rcv EXCEPT ![c] = t]
  <2>1. rcv' = [rcv EXCEPT ![c].pc = pc]
    BY <1>p, <1>x DEF RcvParses
  <2> QED
    BY <1>t, <2>1
<1>6. /\ rcv' \in [Client -> Thread] /\ rcv'[c] = t /\ \A d \in Client \ {c} : rcv'[d] = rcv[d]
      /\ argVector' \in [Client -> Message] /\ argVector'[c] = x
      /\ \A d \in Client \ {c} : argVector'[d] = argVector[d]
  BY <1>0, <1>2, <1>3, <1>4, <1>5 DEF ClientTypes
<1>7. badRedirectpipe' \in [Client -> BOOLEAN]
  BY <1>0, <1>4, Zenon DEF ClientTypes
<1>8. Acts(c)
  BY <1>0, <1>4, <1>6, <1>7 DEF Acts, ClientTypes
<1> QED
  BY <1>1, <1>2, <1>3, <1>4, <1>6, <1>8

(* The command is given the arguments of the moment. *)
LEMMA RcvForksFacts ==
    ASSUME Inv, NEW c \in Client, RcvForks(c)
    PROVE  /\ Acts(c) /\ conn[c] = "in" /\ rcv[c].pc = "fork" /\ rcv'[c].pc = "wait"
           /\ rcv'[c].line = argVector[c]
           /\ UNCHANGED <<lines, asked, c2s, s2c, conn, msg, argVector, stdout, main>>
<1>0. /\ TypeOK /\ ClientTypes /\ rcv[c] \in Thread /\ argVector[c] \in Message /\ stdout[c] \in {"tty", "sock"}
  BY ClientTypesHold DEF Inv, ClientTypes
<1>t. PICK t : t = [rcv[c] EXCEPT !.pc = "wait", !.line = argVector[c], !.out = stdout[c]]
  OBVIOUS
<1>1. t \in Thread /\ t.pc = "wait" /\ t.line = argVector[c]
  BY <1>0, <1>t DEF Thread
<1>2. /\ conn[c] = "in" /\ rcv[c].pc = "fork" /\ rcv' = [rcv EXCEPT ![c] = t]
      /\ UNCHANGED server
      /\ UNCHANGED <<lines, asked, c2s, s2c, conn, msg, argVector, stdout, badRedirectpipe, main>>
  BY <1>t DEF RcvForks, RcvAt, Forked
<1>3. rcv' \in [Client -> Thread] /\ rcv'[c] = t /\ \A d \in Client \ {c} : rcv'[d] = rcv[d]
  BY <1>0, <1>1, <1>2 DEF ClientTypes
<1>4. Acts(c)
  BY <1>0, <1>2, <1>3 DEF Acts, ClientTypes
<1> QED
  BY <1>1, <1>2, <1>3, <1>4

(* Its output goes to the server. *)
LEMMA RcvWaitsFacts ==
    ASSUME Inv, NEW c \in Client, RcvWaits(c)
    PROVE  /\ Acts(c) /\ conn[c] = "in" /\ rcv[c].pc = "wait" /\ rcv'[c].pc = "restore"
           /\ UNCHANGED <<lines, asked, s2c, conn, msg, stdout, main>>
           /\ \/ c2s'[c] = c2s[c]
              \/ \E x \in Message : x.kind = "text" /\ x.by = rcv[c].line.by /\ c2s'[c] = Append(c2s[c], x)
<1>0. TypeOK /\ ClientTypes /\ rcv[c] \in Thread
  BY ClientTypesHold DEF Inv
<1>t. PICK t : t = [rcv[c] EXCEPT !.pc = "restore"]
  OBVIOUS
<1>1. t \in Thread /\ t.pc = "restore"
  BY <1>0, <1>t DEF Thread
<1>2. /\ conn[c] = "in" /\ rcv[c].pc = "wait" /\ rcv' = [rcv EXCEPT ![c] = t] /\ Prints(c, rcv[c])
      /\ UNCHANGED server /\ UNCHANGED <<lines, asked, s2c, conn, msg, argVector, stdout, badRedirectpipe, main>>
  BY <1>t DEF RcvWaits, RcvAt
<1>3. rcv' \in [Client -> Thread] /\ rcv'[c] = t /\ \A d \in Client \ {c} : rcv'[d] = rcv[d]
  BY <1>0, <1>1, <1>2 DEF ClientTypes
<1>4. /\ c2s' \in [Client -> Seq(Message)] /\ \A d \in Client \ {c} : c2s'[d] = c2s[d]
      /\ \/ c2s'[c] = c2s[c]
         \/ \E x \in Message : x.kind = "text" /\ x.by = rcv[c].line.by /\ c2s'[c] = Append(c2s[c], x)
  BY <1>0, <1>2, PrintsFacts
<1>5. Acts(c)
  BY <1>0, <1>2, <1>3, <1>4 DEF Acts, ClientTypes
<1> QED
  BY <1>1, <1>2, <1>3, <1>4, <1>5

(* Standard output is given back and the buffer cleared. *)
LEMMA RcvRestoresFacts ==
    ASSUME Inv, NEW c \in Client, RcvRestores(c)
    PROVE  /\ Acts(c) /\ conn[c] = "in" /\ rcv[c].pc = "restore" /\ rcv'[c].pc = "recv"
           /\ stdout'[c] = "tty" /\ msg'[c].kind = "text"
           /\ UNCHANGED <<lines, asked, c2s, s2c, conn, main>>
<1>0. /\ TypeOK /\ ClientTypes /\ Empty(c) \in Message /\ Empty(c).kind = "text"
      /\ Idle(c) \in Thread /\ Idle(c).pc = "recv"
  BY ClientTypesHold, TextType DEF Inv, Empty, Cmd
<1>1. /\ conn[c] = "in" /\ rcv[c].pc = "restore" /\ rcv' = [rcv EXCEPT ![c] = Idle(c)]
      /\ stdout' = [stdout EXCEPT ![c] = "tty"] /\ msg' = [msg EXCEPT ![c] = Empty(c)]
      /\ UNCHANGED server /\ UNCHANGED <<lines, asked, c2s, s2c, conn, argVector, badRedirectpipe, main>>
  BY DEF RcvRestores, RcvAt
<1>2. /\ rcv' \in [Client -> Thread] /\ rcv'[c] = Idle(c) /\ stdout' \in [Client -> {"tty", "sock"}]
      /\ stdout'[c] = "tty" /\ msg' \in [Client -> Message] /\ msg'[c] = Empty(c)
      /\ \A d \in Client \ {c} : rcv'[d] = rcv[d] /\ stdout'[d] = stdout[d] /\ msg'[d] = msg[d]
  BY <1>0, <1>1 DEF ClientTypes
<1>3. Acts(c)
  BY <1>0, <1>1, <1>2 DEF Acts, ClientTypes
<1> QED
  BY <1>0, <1>1, <1>2, <1>3

(* A client is accepted and its thread created. *)
LEMMA AcceptFacts ==
    ASSUME Inv, NEW c \in Client, Accept(c)
    PROVE  /\ conn[c] = "out" /\ (Calm => Quiet) /\ Client_sock' = c
           /\ conn' \in [Client -> {"out", "in", "gone"}] /\ conn'[c] = "in"
           /\ \A d \in Client \ {c} : conn'[d] = conn[d]
           /\ client_list' \in Seq(Client \cup {Listen})
           /\ client_fds \in Seq(Client) /\ client_fds' = Append(client_fds, c)
           /\ thr' \in Seq(ServerThread)
           /\ \A t \in DOMAIN thr' : \/ t \in DOMAIN thr /\ thr'[t] = thr[t]
                                     \/ thr'[t].pc = "start" /\ thr'[t].msg.kind = "text"
           /\ UNCHANGED <<lines, asked, SEND_TO_FD, SEND_TO_FD_STAR, c2s, s2c, msg, argVector, stdout,
                          badRedirectpipe, main, rcv>>
<1>0. /\ TypeOK /\ Empty(c) \in Message /\ Empty(c).kind = "text" /\ conn \in [Client -> {"out", "in", "gone"}]
      /\ client_fds \in Seq(Client) /\ client_list \in Seq(Client \cup {Listen}) /\ thr \in Seq(ServerThread)
  BY ClientTypesHold, TextType DEF Inv, Empty, Cmd, TypeOK, ServerThread
<1>t. PICK new : new = [pc |-> "start", sock |-> None, counter |-> 0, msg |-> Empty(c), list |-> <<>>]
  OBVIOUS
<1>1. new \in ServerThread /\ new.pc = "start" /\ new.msg.kind = "text"
  <2>1. Cardinality(Client) \in Nat
    BY ClientAssumption, FS_CardinalityType
  <2> QED
    BY <1>0, <1>t, <2>1 DEF ServerThread, Pc
<1>2. /\ conn[c] = "out" /\ (Calm => Quiet) /\ Client_sock' = c /\ conn' = [conn EXCEPT ![c] = "in"]
      /\ client_list' = <<Listen>> \o client_list /\ client_fds' = Append(client_fds, c) /\ thr' = Append(thr, new)
      /\ UNCHANGED <<lines, asked, SEND_TO_FD, SEND_TO_FD_STAR, c2s, s2c, msg, argVector, stdout,
                     badRedirectpipe, main, rcv>>
  BY <1>t DEF Accept, addClient
<1>3. client_list' \in Seq(Client \cup {Listen})
  BY <1>0, <1>2
<1>4. /\ conn' \in [Client -> {"out", "in", "gone"}] /\ conn'[c] = "in"
      /\ \A d \in Client \ {c} : conn'[d] = conn[d]
  BY <1>0, <1>2
<1>5. /\ thr' \in Seq(ServerThread)
      /\ \A t \in DOMAIN thr' : (t \in DOMAIN thr /\ thr'[t] = thr[t]) \/ thr'[t] = new
  BY <1>0, <1>1, <1>2, AppendFacts
<1> QED
  BY <1>0, <1>1, <1>2, <1>3, <1>4, <1>5

-----------------------------------------------------------------------------
(* The invariant holds *)

(* Every step of a client keeps it. *)
LEMMA ClientKeeps ==
    ASSUME Inv, NEW c \in Client, Types(c) \/ ClientNext(c) \/ MainExits(c)
    PROVE  Inv'
<1>0. /\ TypeOK /\ AskInv /\ lines \in 0 .. MaxLines /\ asked \subseteq Client /\ c2s[c] \in Seq(Message)
      /\ s2c[c] \in Seq(Delivery) /\ "text" \notin Asks
      /\ (msg[c].kind \in Asks => c \in asked)
      /\ \A i \in DOMAIN c2s[c] : c2s[c][i].kind \in Asks => c \in asked
  BY ClientTypesHold DEF Inv, TypeOK, AskInv, Asks
<1>1. ASSUME NEW x \in Message, x.kind \in Asks => c \in asked, c2s'[c] = Append(c2s[c], x)
      PROVE  \A i \in DOMAIN c2s'[c] : c2s'[c][i].kind \in Asks => c \in asked
  BY <1>0, <1>1, AppendFacts
<1>2. CASE Types(c)
  <2>1. /\ Acts(c) /\ conn[c] = "in" /\ lines' \in 0 .. MaxLines /\ asked \subseteq asked' /\ asked' \subseteq Client
        /\ UNCHANGED <<c2s, s2c, conn>> /\ (msg'[c].kind \in Asks => c \in asked')
    BY <1>2, TypesFacts
  <2>2. conn'[c] # "out"
    BY <2>1
  <2> QED
    BY <1>0, <2>1, <2>2, ActsKeeps
<1>3. CASE MainWrites(c)
  <2>1. /\ Acts(c) /\ conn[c] = "in" /\ UNCHANGED <<lines, asked, s2c, conn, msg>>
        /\ \E line \in Message : (line.kind \in Asks => msg[c].kind \in Asks) /\ c2s'[c] = Append(c2s[c], line)
    BY <1>3, MainWritesFacts
  <2>2. \A i \in DOMAIN c2s'[c] : c2s'[c][i].kind \in Asks => c \in asked
    BY <1>0, <1>1, <2>1
  <2> QED
    BY <1>0, <2>1, <2>2, ActsKeeps
<1>4. CASE MainParses(c)
  <2>1. Acts(c) /\ conn[c] = "in" /\ UNCHANGED <<lines, asked, c2s, s2c, conn, msg>>
    BY <1>4, MainParsesFacts
  <2> QED
    BY <1>0, <2>1, ActsKeeps
<1>5. CASE MainForks(c)
  <2>1. Acts(c) /\ conn[c] = "in" /\ UNCHANGED <<lines, asked, c2s, s2c, conn, msg>>
    BY <1>5, MainForksFacts
  <2> QED
    BY <1>0, <2>1, ActsKeeps
<1>6. CASE MainWaits(c)
  <2>1. /\ Acts(c) /\ conn[c] = "in" /\ UNCHANGED <<lines, asked, s2c, conn, msg>>
        /\ c2s'[c] = c2s[c] \/ \E x \in Message : x.kind = "text" /\ c2s'[c] = Append(c2s[c], x)
    BY <1>6, MainWaitsFacts
  <2>2. \A i \in DOMAIN c2s'[c] : c2s'[c][i].kind \in Asks => c \in asked
    BY <1>0, <1>1, <2>1
  <2> QED
    BY <1>0, <2>1, <2>2, ActsKeeps
<1>7. CASE MainExits(c)
  <2>1. /\ Acts(c) /\ conn'[c] = "gone" /\ s2c'[c] = <<>> /\ msg'[c].kind = "text"
        /\ UNCHANGED <<lines, asked, c2s>>
    BY <1>7, MainExitsFacts
  <2> QED
    BY <1>0, <2>1, ActsKeeps
<1>8. CASE RcvReceives(c)
  <2>1. /\ Acts(c) /\ conn[c] = "in" /\ s2c[c] # <<>> /\ s2c'[c] = Tail(s2c[c]) /\ msg'[c].kind = "text"
        /\ UNCHANGED <<lines, asked, c2s, conn>>
    BY <1>8, RcvReceivesFacts
  <2>2. \A i \in DOMAIN s2c'[c] : \E j \in DOMAIN s2c[c] : s2c'[c][i] = s2c[c][j]
    BY <1>0, <2>1, TailFacts
  <2> QED
    BY <1>0, <2>1, <2>2, ActsKeeps
<1>9. CASE RcvRedirects(c)
  <2>1. Acts(c) /\ conn[c] = "in" /\ UNCHANGED <<lines, asked, c2s, s2c, conn, msg>>
    BY <1>9, RcvRedirectsFacts
  <2> QED
    BY <1>0, <2>1, ActsKeeps
<1>10. CASE RcvParses(c)
  <2>1. Acts(c) /\ conn[c] = "in" /\ UNCHANGED <<lines, asked, c2s, s2c, conn, msg>>
    BY <1>10, RcvParsesFacts
  <2> QED
    BY <1>0, <2>1, ActsKeeps
<1>11. CASE RcvForks(c)
  <2>1. Acts(c) /\ conn[c] = "in" /\ UNCHANGED <<lines, asked, c2s, s2c, conn, msg>>
    BY <1>11, RcvForksFacts
  <2> QED
    BY <1>0, <2>1, ActsKeeps
<1>12. CASE RcvWaits(c)
  <2>1. /\ Acts(c) /\ conn[c] = "in" /\ UNCHANGED <<lines, asked, s2c, conn, msg>>
        /\ c2s'[c] = c2s[c] \/ \E x \in Message : x.kind = "text" /\ c2s'[c] = Append(c2s[c], x)
    BY <1>12, RcvWaitsFacts
  <2>2. \A i \in DOMAIN c2s'[c] : c2s'[c][i].kind \in Asks => c \in asked
    BY <1>0, <1>1, <2>1
  <2> QED
    BY <1>0, <2>1, <2>2, ActsKeeps
<1>13. CASE RcvRestores(c)
  <2>1. /\ Acts(c) /\ conn[c] = "in" /\ msg'[c].kind = "text" /\ UNCHANGED <<lines, asked, c2s, s2c, conn>>
    BY <1>13, RcvRestoresFacts
  <2> QED
    BY <1>0, <2>1, ActsKeeps
<1> QED
  BY <1>2, <1>3, <1>4, <1>5, <1>6, <1>7, <1>8, <1>9, <1>10, <1>11, <1>12, <1>13 DEF ClientNext

(* A client that is accepted is a new one. *)
LEMMA AcceptKeeps ==
    ASSUME Inv, NEW c \in Client, Accept(c)
    PROVE  Inv'
<1>0. TypeOK /\ FdsInv /\ SockInv /\ AskInv /\ UnaskedGetsCommandsOnly
  BY DEF Inv
<1>1. /\ conn[c] = "out" /\ Client_sock' = c
      /\ conn' \in [Client -> {"out", "in", "gone"}] /\ conn'[c] = "in"
      /\ \A d \in Client \ {c} : conn'[d] = conn[d]
      /\ client_list' \in Seq(Client \cup {Listen})
      /\ client_fds \in Seq(Client) /\ client_fds' = Append(client_fds, c)
      /\ thr' \in Seq(ServerThread)
      /\ \A t \in DOMAIN thr' : \/ t \in DOMAIN thr /\ thr'[t] = thr[t]
                                \/ thr'[t].pc = "start" /\ thr'[t].msg.kind = "text"
      /\ UNCHANGED <<lines, asked, SEND_TO_FD, SEND_TO_FD_STAR, c2s, s2c, msg, argVector, stdout,
                     badRedirectpipe, main, rcv>>
  BY AcceptFacts
<1>2. /\ client_fds' \in Seq(Client)
      /\ \A i \in DOMAIN client_fds' : \/ i \in DOMAIN client_fds /\ client_fds'[i] = client_fds[i]
                                       \/ i = Len(client_fds) + 1 /\ client_fds'[i] = c
  BY <1>1, AppendFacts
<1>3. TypeOK'
  <2>1. thr' \in Seq([pc : Pc, sock : Client \cup {None}, counter : 0 .. Cardinality(Client),
                      msg : Message, list : Seq(Client \cup {Listen})])
    BY <1>1 DEF ServerThread
  <2> QED
    BY <1>0, <1>1, <1>2, <2>1 DEF TypeOK
<1>4. FdsInv'
  <2>1. \A i \in DOMAIN client_fds : client_fds[i] \in Client \ {c} /\ conn[client_fds[i]] # "out"
    BY <1>0, <1>1 DEF FdsInv
  <2>2. ASSUME NEW i \in DOMAIN client_fds' PROVE conn'[client_fds'[i]] # "out"
    BY <1>1, <1>2, <2>1
  <2>3. ASSUME NEW i \in DOMAIN client_fds', NEW j \in DOMAIN client_fds', client_fds'[i] = client_fds'[j] PROVE i = j
    <3>1. CASE i \in DOMAIN client_fds /\ client_fds'[i] = client_fds[i]
      BY <1>0, <1>2, <2>1, <2>3, <3>1 DEF FdsInv
    <3>2. CASE i = Len(client_fds) + 1 /\ client_fds'[i] = c
      BY <1>2, <2>1, <2>3, <3>2
    <3> QED
      BY <1>2, <3>1, <3>2
  <2> QED
    BY <2>2, <2>3 DEF FdsInv
<1>5. SockInv'
  BY <1>0, <1>1 DEF SockInv
<1>6. AskInv'
  <2>1. ASSUME NEW t \in DOMAIN thr'
        PROVE  /\ thr'[t].msg.kind \in Asks => thr'[t].sock \in asked
               /\ thr'[t].pc = "start" => thr'[t].msg.kind = "text"
               /\ thr'[t].pc = "routed" => thr'[t].msg.kind = "node"
               /\ thr'[t].pc = "star" => thr'[t].msg.kind = "star"
    <3>1. CASE t \in DOMAIN thr /\ thr'[t] = thr[t]
      BY <1>0, <3>1 DEF AskInv
    <3>2. CASE thr'[t].pc = "start" /\ thr'[t].msg.kind = "text"
      BY <3>2 DEF Asks
    <3> QED
      BY <1>1, <3>1, <3>2
  <2>2. /\ {SEND_TO_FD', SEND_TO_FD_STAR'} \subseteq asked' \cup {None}
        /\ \A d \in Client : msg'[d].kind \in Asks => d \in asked'
        /\ \A d \in Client : \A i \in DOMAIN c2s'[d] : c2s'[d][i].kind \in Asks => d \in asked'
    BY <1>0, <1>1 DEF AskInv
  <2> QED
    BY <1>1, <2>1, <2>2 DEF AskInv
<1>7. UnaskedGetsCommandsOnly'
  BY <1>0, <1>1 DEF UnaskedGetsCommandsOnly
<1> QED
  BY <1>3, <1>4, <1>5, <1>6, <1>7 DEF Inv

(* Initially there are no threads and nothing has been sent. *)
LEMMA InvInit ==
    Init => Inv
<1> SUFFICES ASSUME Init PROVE Inv
  OBVIOUS
<1>0. \A c \in Client : /\ Empty(c) \in Message /\ Empty(c).kind = "text"
                        /\ Waiting(c) \in Thread /\ Idle(c) \in Thread
  <2> SUFFICES ASSUME NEW c \in Client
               PROVE  /\ Empty(c) \in Message /\ Empty(c).kind = "text"
                      /\ Waiting(c) \in Thread /\ Idle(c) \in Thread
    OBVIOUS
  <2>1. Empty(c) \in Message /\ Empty(c).kind = "text"
    BY TextType DEF Empty, Cmd
  <2> QED
    BY <2>1 DEF Waiting, Idle, Thread
<1>1. TypeOK
  <2>1. /\ lines \in 0 .. MaxLines /\ asked \subseteq Client /\ client_fds \in Seq(Client)
        /\ client_list \in Seq(Client \cup {Listen}) /\ Client_sock \in Client \cup {None}
        /\ {SEND_TO_FD, SEND_TO_FD_STAR} \subseteq Client \cup {None}
    BY BoundsAssumption DEF Init
  <2>2. /\ c2s \in [Client -> Seq(Message)]
        /\ s2c \in [Client -> Seq([text : Message, via : {"command", "answer"}])]
        /\ thr \in Seq([pc : Pc, sock : Client \cup {None}, counter : 0 .. Cardinality(Client),
                        msg : Message, list : Seq(Client \cup {Listen})])
    BY DEF Init
  <2>3. /\ conn \in [Client -> {"out", "in", "gone"}] /\ msg \in [Client -> Message]
        /\ argVector \in [Client -> Message] /\ stdout \in [Client -> {"tty", "sock"}]
        /\ main \in [Client -> Thread] /\ rcv \in [Client -> Thread]
    BY <1>0 DEF Init
  <2>4. badRedirectpipe \in [Client -> BOOLEAN]
    BY Zenon DEF Init
  <2> QED
    BY <2>1, <2>2, <2>3, <2>4 DEF TypeOK
<1>2. FdsInv /\ SockInv
  BY DEF Init, FdsInv, SockInv
<1>3. AskInv
  BY <1>0 DEF Init, AskInv, Asks
<1>4. UnaskedGetsCommandsOnly
  BY DEF Init, UnaskedGetsCommandsOnly
<1> QED
  BY <1>1, <1>2, <1>3, <1>4 DEF Inv

(* Every step keeps it. *)
LEMMA InvNext ==
    ASSUME Inv, [Next]_vars
    PROVE  Inv'
<1>1. CASE UNCHANGED vars
  <2>1. UNCHANGED <<lines, asked, client_fds, client_list, Client_sock, SEND_TO_FD, SEND_TO_FD_STAR, thr,
                    c2s, s2c, conn, msg, argVector, stdout, badRedirectpipe, main, rcv>>
    BY <1>1 DEF vars, server, clients
  <2>2. TypeOK'
    BY <2>1 DEF Inv, TypeOK
  <2> QED
    BY <2>1, <2>2 DEF Inv, FdsInv, SockInv, AskInv, UnaskedGetsCommandsOnly
<1>2. ASSUME NEW t \in DOMAIN thr, ThreadNext(t) PROVE Inv'
  BY <1>2, ThreadKeeps
<1>3. ASSUME NEW c \in Client, Accept(c) PROVE Inv'
  BY <1>3, AcceptKeeps
<1>4. ASSUME NEW c \in Client, Types(c) \/ ClientNext(c) \/ MainExits(c) PROVE Inv'
  BY <1>4, ClientKeeps
<1> QED
  BY <1>1, <1>2, <1>3, <1>4 DEF Next

(* Whatever the threads do to each other's globals, a client that has not  *)
(* asked anything of another node is sent commands only, never an answer   *)
(* or a line that is somebody else's; and no counter or table is outgrown. *)
THEOREM OnlyAskersAnswered == Spec => []ClusterInv
<1>1. Inv => ClusterInv
  BY DEF Inv, ClusterInv
<1> QED
  BY <1>1, InvInit, InvNext, PTL DEF Spec

-----------------------------------------------------------------------------
(* One line at a time *)

(* What holds of the clients' threads at any time, if clients come, leave  *)
(* and type only when all is quiet.                                        *)
Settled ==
    \A c \in Client :
        /\ main[c].pc \in {"fgets", "write", "parse", "fork", "wait"}
        /\ rcv[c].pc \in {"recv", "dup"} => stdout[c] = "tty"
        /\ conn[c] # "in" => main[c].pc = "fgets" /\ rcv[c].pc = "recv" /\ s2c[c] = <<>>

(* The last line typed is that of client a, and nothing has come of it     *)
(* yet: it is in the buffer, on its way or with the server, or else run by *)
(* a itself.                                                               *)
FromKeyboard(a, c) ==
    /\ s2c[c] = <<>> /\ rcv[c].pc = "recv"
    /\ c # a => main[c].pc = "fgets" /\ c2s[c] = <<>>
    /\ Len(c2s[c]) <= 1
    /\ \A i \in DOMAIN c2s[c] : c2s[c][i].kind # "text" /\ c2s[c][i].by = a
    /\ main[c].pc = "write" => c2s[c] = <<>> /\ msg[c].kind # "text" /\ msg[c].by = a
    /\ main[c].pc \in {"parse", "fork", "wait"} => \A i \in DOMAIN c2s[c] : c2s[c][i].kind = "here"
    /\ main[c].pc = "wait" => main[c].out = "tty"

Looked(a, t) ==
    /\ thr[t].msg.kind # "text" /\ thr[t].msg.by = a /\ thr[t].sock = a
    /\ \A c \in Client : /\ c2s[c] = <<>> /\ main[c].pc # "write"
                         /\ main[c].pc \in {"parse", "fork", "wait"} => thr[t].msg.kind = "here"

Line(a) ==
    /\ SEND_TO_FD = None /\ SEND_TO_FD_STAR = None
    /\ \A c \in Client : FromKeyboard(a, c)
    /\ \A t \in DOMAIN thr :
          /\ thr[t].pc \in {"start", "recv", "route", "leaving", "ended"}
          /\ thr[t].pc = "route" => Looked(a, t)
          /\ \A u \in DOMAIN thr : thr[t].pc = "route" /\ thr[u].pc = "route" => t = u

(* The last line typed is a question of a: all there is, is about it. *)
About(a, c) ==
    /\ main[c].pc = "fgets"
    /\ \A i \in DOMAIN c2s[c] : c2s[c][i].kind = "text" /\ c2s[c][i].by = a
    /\ \A i \in DOMAIN s2c[c] : /\ s2c[c][i].text.kind = "text" /\ s2c[c][i].text.by = a
                                /\ s2c[c][i].via = "answer" => c = a
    /\ rcv[c].pc \in {"dup", "parse"} => msg[c].by = a
    /\ rcv[c].pc = "fork" => argVector[c].by = a
    /\ rcv[c].pc = "wait" => rcv[c].line.by = a

Handles(a, t) ==
    /\ thr[t].pc \in {"answer", "star_answer", "route"} => thr[t].msg.kind = "text" /\ thr[t].msg.by = a
    /\ thr[t].pc \in {"routed", "star"} => thr[t].msg.by = a /\ thr[t].sock = a

Question(a) ==
    /\ a \in asked
    /\ SEND_TO_FD \in {None, a} /\ SEND_TO_FD_STAR \in {None, a}
    /\ \A c \in Client : About(a, c)
    /\ \A t \in DOMAIN thr : Handles(a, t)

CalmInv == Settled /\ \E a \in Client \cup {None} : Line(a) \/ Question(a)

-----------------------------------------------------------------------------
(* The server's threads, with one line at a time *)

(* They do nothing to the clients. *)
LEMMA TurnSettled ==
    ASSUME Settled, NEW t, NEW pc, NEW sock, NEW m, Turn(t, pc, sock, m),
           \A c \in Client : conn[c] # "in" => s2c'[c] = s2c[c]
    PROVE  Settled'
BY DEF Settled, Turn

(* A step that has to do with no line. *)
LEMMA TurnLine ==
    ASSUME NEW a, Line(a), NEW t, NEW pc \in {"recv", "leaving", "ended"}, NEW sock, NEW m, Turn(t, pc, sock, m),
           UNCHANGED <<SEND_TO_FD, SEND_TO_FD_STAR, c2s, s2c>>
    PROVE  Line(a)'
<1>1. /\ DOMAIN thr' = DOMAIN thr /\ thr'[t].pc = pc /\ t \in DOMAIN thr
      /\ \A u \in DOMAIN thr \ {t} : thr'[u] = thr[u]
      /\ UNCHANGED <<conn, msg, argVector, stdout, main, rcv>>
  BY DEF Turn
<1>2. \A c \in Client : FromKeyboard(a, c)'
  BY <1>1 DEF Line, FromKeyboard
<1>3. \A u \in DOMAIN thr : thr'[u].pc = "route" => u # t /\ thr'[u] = thr[u]
  BY <1>1
<1>4. ASSUME NEW u \in DOMAIN thr
      PROVE  /\ thr'[u].pc \in {"start", "recv", "route", "leaving", "ended"}
             /\ thr'[u].pc = "route" => Looked(a, u)'
             /\ \A v \in DOMAIN thr : thr'[u].pc = "route" /\ thr'[v].pc = "route" => u = v
  <2>1. thr'[u].pc \in {"start", "recv", "route", "leaving", "ended"}
    BY <1>1 DEF Line
  <2>2. thr'[u].pc = "route" => Looked(a, u)'
    BY <1>1, <1>3 DEF Line, Looked
  <2>3. \A v \in DOMAIN thr : thr'[u].pc = "route" /\ thr'[v].pc = "route" => u = v
    BY <1>3 DEF Line
  <2> QED
    BY <2>1, <2>2, <2>3
<1> QED
  BY <1>1, <1>2, <1>4 DEF Line

(* The line is received. *)
LEMMA ReceivesLine ==
    ASSUME Inv, NEW a, Line(a), NEW t, ThreadReceives(t)
    PROVE  Line(a)'
<1>c. PICK c : c = thr[t].sock
  OBVIOUS
<1>m. PICK m : m = Head(c2s[c])
  OBVIOUS
<1>0. /\ SEND_TO_FD = None /\ SEND_TO_FD_STAR = None /\ \A d \in Client : FromKeyboard(a, d)
  BY DEF Line
<1>1. /\ t \in DOMAIN thr /\ thr[t].pc = "recv" /\ c \in Client /\ c2s[c] \in Seq(Message) /\ c2s[c] # <<>>
      /\ m = c2s[c][1] /\ 1 \in DOMAIN c2s[c]
      /\ (m.kind = "nodes" /\ Turn(t, "recv", c, m)) \/ (m.kind # "nodes" /\ Turn(t, "route", c, m))
      /\ c2s'[c] = Tail(c2s[c]) /\ \A d \in Client \ {c} : c2s'[d] = c2s[d]
      /\ UNCHANGED <<SEND_TO_FD, SEND_TO_FD_STAR, s2c>>
  BY <1>0, <1>c, <1>m, ThreadReceivesFacts
<1>2. c = a /\ m.kind # "text" /\ m.by = a /\ main[c].pc # "write"
      /\ (main[c].pc \in {"parse", "fork", "wait"} => m.kind = "here")
  BY <1>0, <1>1 DEF FromKeyboard
<1>3. c2s'[c] = <<>>
  <2>1. Len(c2s[c]) = 1
    <3>1. Len(c2s[c]) <= 1
      BY <1>0, <1>1 DEF FromKeyboard
    <3>2. Len(c2s[c]) \in Nat /\ Len(c2s[c]) # 0
      BY <1>1
    <3>3. \A n \in Nat : n <= 1 /\ n # 0 => n = 1
      OBVIOUS
    <3> HIDE <1>c
    <3> QED
      BY <3>1, <3>2, <3>3, Zenon
  <2> QED
    BY <1>1, <2>1, TailFacts
<1>4. \A d \in Client : c2s'[d] = <<>> /\ (d # c => main[d].pc = "fgets")
  BY <1>0, <1>1, <1>2, <1>3 DEF FromKeyboard
<1>5. PICK pc \in {"recv", "route"} : Turn(t, pc, c, m)
  BY <1>1
<1>6. /\ DOMAIN thr' = DOMAIN thr /\ thr'[t].pc = pc /\ thr'[t].msg = m /\ thr'[t].sock = c
      /\ \A u \in DOMAIN thr \ {t} : thr'[u] = thr[u]
      /\ UNCHANGED <<conn, msg, argVector, stdout, main, rcv>>
  BY <1>5 DEF Turn
<1>7. \A d \in Client : FromKeyboard(a, d)'
  BY <1>0, <1>1, <1>4, <1>6 DEF FromKeyboard
<1>8. \A u \in DOMAIN thr : thr[u].pc # "route"
  BY <1>1 DEF Line, Looked
<1>9. Looked(a, t)'
  BY <1>2, <1>4, <1>6 DEF Looked
<1>10. \A u \in DOMAIN thr' : thr'[u].pc = "route" => u = t
  BY <1>6, <1>8
<1>11. \A u \in DOMAIN thr' : thr'[u].pc \in {"start", "recv", "route", "leaving", "ended"}
  BY <1>6 DEF Line
<1> QED
  BY <1>0, <1>1, <1>7, <1>9, <1>10, <1>11 DEF Line

(* A step about a question. *)
LEMMA TurnQuestion ==
    ASSUME NEW a, Question(a), NEW t, NEW pc, NEW sock, NEW m, Turn(t, pc, sock, m),
           pc \in {"answer", "star_answer", "route"} => m.kind = "text" /\ m.by = a,
           pc \in {"routed", "star"} => m.by = a /\ sock = a,
           SEND_TO_FD' \in {None, a}, SEND_TO_FD_STAR' \in {None, a},
           \A c \in Client : \A i \in DOMAIN c2s'[c] : \E j \in DOMAIN c2s[c] : c2s'[c][i] = c2s[c][j],
           \A c \in Client : \A i \in DOMAIN s2c'[c] :
              \/ i \in DOMAIN s2c[c] /\ s2c'[c][i] = s2c[c][i]
              \/ /\ s2c'[c][i].text.kind = "text" /\ s2c'[c][i].text.by = a
                 /\ s2c'[c][i].via = "answer" => c = a
    PROVE  Question(a)'
<1>1. /\ DOMAIN thr' = DOMAIN thr /\ t \in DOMAIN thr /\ thr'[t].pc = pc /\ thr'[t].msg = m /\ thr'[t].sock = sock
      /\ \A u \in DOMAIN thr \ {t} : thr'[u] = thr[u]
      /\ UNCHANGED <<asked, conn, msg, argVector, stdout, main, rcv>>
  BY DEF Turn
<1>2. ASSUME NEW c \in Client PROVE About(a, c)'
  <2>0. About(a, c)
    BY DEF Question
  <2>1. \A i \in DOMAIN c2s'[c] : c2s'[c][i].kind = "text" /\ c2s'[c][i].by = a
    BY <2>0 DEF About
  <2>2. \A i \in DOMAIN s2c'[c] : /\ s2c'[c][i].text.kind = "text" /\ s2c'[c][i].text.by = a
                                  /\ s2c'[c][i].via = "answer" => c = a
    BY <2>0 DEF About
  <2> QED
    BY <1>1, <2>0, <2>1, <2>2 DEF About
<1>3. ASSUME NEW u \in DOMAIN thr PROVE Handles(a, u)'
  <2>1. CASE u = t
    BY <1>1, <2>1 DEF Handles
  <2>2. CASE u # t
    BY <1>1, <2>2 DEF Question, Handles
  <2> QED
    BY <2>1, <2>2
<1>4. a \in asked' /\ SEND_TO_FD' \in {None, a} /\ SEND_TO_FD_STAR' \in {None, a}
  BY <1>1 DEF Question
<1> QED
  BY <1>1, <1>2, <1>3, <1>4 DEF Question

(* What is sent while a question is being dealt with. *)
LEMMA SendQuestion ==
    ASSUME Inv, NEW a \in Client, NEW to, NEW text \in Message, NEW via \in {"command", "answer"},
           send(to, text, via), text.kind = "text", text.by = a, via = "command" \/ to \subseteq {None, a}
    PROVE  /\ \A c \in Client : \A i \in DOMAIN s2c'[c] :
                 \/ i \in DOMAIN s2c[c] /\ s2c'[c][i] = s2c[c][i]
                 \/ /\ s2c'[c][i].text.kind = "text" /\ s2c'[c][i].text.by = a
                    /\ s2c'[c][i].via = "answer" => c = a
           /\ \A c \in Client : conn[c] # "in" => s2c'[c] = s2c[c]
<1>1. /\ \A c \in Client : \A i \in DOMAIN s2c'[c] :
            \/ i \in DOMAIN s2c[c] /\ s2c'[c][i] = s2c[c][i]
            \/ c \in to /\ s2c'[c][i].text = text /\ s2c'[c][i].via = via
      /\ \A c \in Client : conn[c] # "in" => s2c'[c] = s2c[c]
  BY SendFacts DEF Inv
<1>2. \A c \in Client : via = "answer" /\ c \in to => c = a
  BY ClientAssumption DEF None
<1> QED
  BY <1>1, <1>2

(* The line turns out to be a question. *)
LEMMA RouteLine ==
    ASSUME Inv, Settled, NEW a \in Client \cup {None}, Line(a), NEW t \in DOMAIN thr, thr[t].pc = "route",
           thr[t].msg.kind \in Asks, NEW pc \in {"routed", "star"}, Turn(t, pc, thr[t].sock, thr[t].msg),
           UNCHANGED <<SEND_TO_FD, SEND_TO_FD_STAR, c2s>>,
           \A c \in Client : \A i \in DOMAIN s2c'[c] :
              /\ s2c'[c][i].text.kind = "text" /\ s2c'[c][i].text.by = thr[t].msg.by
              /\ s2c'[c][i].via = "command"
    PROVE  Question(a)'
<1>0. /\ SEND_TO_FD = None /\ SEND_TO_FD_STAR = None /\ (\A d \in Client : FromKeyboard(a, d)) /\ Looked(a, t)
      /\ \A u \in DOMAIN thr : /\ thr[u].pc \in {"start", "recv", "route", "leaving", "ended"}
                               /\ thr[u].pc = "route" => u = t
  BY DEF Line
<1>1. /\ thr[t].msg.by = a /\ thr[t].sock = a
      /\ \A c \in Client : c2s[c] = <<>> /\ main[c].pc = "fgets" /\ rcv[c].pc = "recv"
  BY <1>0 DEF Looked, FromKeyboard, Settled, Asks
<1>2. a \in asked
  BY <1>1 DEF Inv, AskInv
<1>3. /\ DOMAIN thr' = DOMAIN thr /\ thr'[t].pc = pc /\ thr'[t].msg = thr[t].msg /\ thr'[t].sock = thr[t].sock
      /\ \A u \in DOMAIN thr \ {t} : thr'[u] = thr[u]
      /\ UNCHANGED <<asked, conn, msg, argVector, stdout, main, rcv>>
  BY DEF Turn
<1>4. ASSUME NEW c \in Client PROVE About(a, c)'
  <2>1. c2s'[c] = <<>> /\ main'[c].pc = "fgets" /\ rcv'[c].pc = "recv"
    BY <1>1, <1>3
  <2>2. \A i \in DOMAIN s2c'[c] : /\ s2c'[c][i].text.kind = "text" /\ s2c'[c][i].text.by = a
                                  /\ s2c'[c][i].via = "answer" => c = a
    BY <1>1
  <2> QED
    BY <2>1, <2>2 DEF About
<1>5. ASSUME NEW u \in DOMAIN thr PROVE Handles(a, u)'
  <2>1. CASE u = t
    BY <1>1, <1>3, <2>1 DEF Handles
  <2>2. CASE u # t
    BY <1>0, <1>3, <2>2 DEF Handles
  <2> QED
    BY <2>1, <2>2
<1> QED
  BY <1>0, <1>2, <1>3, <1>4, <1>5 DEF Question

(* The threads while a line is on its way. *)
LEMMA ThreadLine ==
    ASSUME Inv, Settled, NEW a \in Client \cup {None}, Line(a), NEW t, ThreadNext(t)
    PROVE  CalmInv'
<1>0. /\ \A u \in DOMAIN thr : thr[u].pc \in {"start", "recv", "route", "leaving", "ended"}
      /\ \A c \in Client : s2c[c] = <<>>
  BY DEF Line, FromKeyboard
<1> SUFFICES Settled' /\ (Line(a)' \/ Question(a)')
  BY DEF CalmInv
<1>1. CASE ThreadStarts(t)
  <2>1. Turn(t, "recv", Client_sock, thr[t].msg) /\ UNCHANGED <<SEND_TO_FD, SEND_TO_FD_STAR, c2s, s2c>>
    BY <1>1, ThreadStartsFacts
  <2> QED
    BY <2>1, TurnSettled, TurnLine
<1>2. CASE ThreadReceives(t)
  <2>1. UNCHANGED s2c /\ \E pc : Turn(t, pc, thr[t].sock, Head(c2s[thr[t].sock]))
    BY <1>2, ThreadReceivesFacts
  <2> QED
    BY <1>2, <2>1, TurnSettled, ReceivesLine
<1>3. CASE Route(t)
  <2>1. /\ t \in DOMAIN thr /\ thr[t].pc = "route"
        /\ \/ /\ thr[t].msg.kind = "node" /\ Turn(t, "routed", thr[t].sock, thr[t].msg)
              /\ \E to : send(to, Text(thr[t].msg.cmd, thr[t].msg.by), "command")
           \/ thr[t].msg.kind = "star" /\ Turn(t, "star", thr[t].sock, thr[t].msg) /\ UNCHANGED s2c
           \/ thr[t].msg.kind # "star" /\ Turn(t, "recv", thr[t].sock, thr[t].msg) /\ UNCHANGED s2c
        /\ UNCHANGED <<SEND_TO_FD, SEND_TO_FD_STAR, c2s>>
    BY <1>3, RouteFacts DEF Quietly
  <2>2. CASE /\ thr[t].msg.kind = "node" /\ Turn(t, "routed", thr[t].sock, thr[t].msg)
             /\ \E to : send(to, Text(thr[t].msg.cmd, thr[t].msg.by), "command")
    <3>1. PICK to : send(to, Text(thr[t].msg.cmd, thr[t].msg.by), "command")
      BY <2>2
    <3>2. /\ Text(thr[t].msg.cmd, thr[t].msg.by) \in Message /\ Text(thr[t].msg.cmd, thr[t].msg.by).kind = "text"
          /\ Text(thr[t].msg.cmd, thr[t].msg.by).by = thr[t].msg.by
      BY <2>1, ThreadFields DEF Inv
    <3>3. /\ \A c \in Client : \A i \in DOMAIN s2c'[c] :
                \/ i \in DOMAIN s2c[c] /\ s2c'[c][i] = s2c[c][i]
                \/ /\ s2c'[c][i].text = Text(thr[t].msg.cmd, thr[t].msg.by)
                   /\ s2c'[c][i].via = "command"
          /\ \A c \in Client : conn[c] # "in" => s2c'[c] = s2c[c]
      BY <3>1, <3>2, SendFacts DEF Inv
    <3>4. \A c \in Client : DOMAIN s2c[c] = {}
      BY <1>0
    <3>5. \A c \in Client : \A i \in DOMAIN s2c'[c] :
             /\ s2c'[c][i].text.kind = "text" /\ s2c'[c][i].text.by = thr[t].msg.by
             /\ s2c'[c][i].via = "command"
      BY <3>2, <3>3, <3>4
    <3>6. thr[t].msg.kind \in Asks
      BY <2>2 DEF Asks
    <3>7. Settled'
      BY <2>2, <3>3, TurnSettled
    <3> QED
      BY <2>1, <2>2, <3>5, <3>6, <3>7, RouteLine
  <2>3. CASE thr[t].msg.kind = "star" /\ Turn(t, "star", thr[t].sock, thr[t].msg) /\ UNCHANGED s2c
    <3>1. thr[t].msg.kind \in Asks
      BY <2>3 DEF Asks
    <3>2. \A c \in Client : DOMAIN s2c'[c] = {}
      BY <1>0, <2>3
    <3>3. Settled'
      BY <2>3, TurnSettled
    <3> QED
      BY <2>1, <2>3, <3>1, <3>2, <3>3, RouteLine
  <2>4. CASE Turn(t, "recv", thr[t].sock, thr[t].msg) /\ UNCHANGED s2c
    BY <2>1, <2>4, TurnSettled, TurnLine
  <2> QED
    BY <2>1, <2>2, <2>3, <2>4
<1>4. CASE ThreadLeaves(t)
  <2>1. Turn(t, "leaving", thr[t].sock, thr[t].msg) /\ UNCHANGED <<SEND_TO_FD, SEND_TO_FD_STAR, c2s, s2c>>
    BY <1>4, ThreadLeavesFacts DEF Quietly
  <2> QED
    BY <2>1, TurnSettled, TurnLine
<1>5. CASE ThreadEnds(t)
  <2>1. Turn(t, "ended", thr[t].sock, thr[t].msg) /\ UNCHANGED <<SEND_TO_FD, SEND_TO_FD_STAR, c2s, s2c>>
    BY <1>5, ThreadEndsFacts
  <2> QED
    BY <2>1, TurnSettled, TurnLine
<1>6. ~(Answer(t) \/ Answered(t) \/ StarAnswer(t) \/ Routed(t) \/ SendToAll(t) \/ CountNodes(t))
  BY <1>0 DEF Answer, Answered, StarAnswer, Routed, SendToAll, CountNodes, At
<1> QED
  BY <1>1, <1>2, <1>3, <1>4, <1>5, <1>6 DEF ThreadNext

(* The threads while a question is dealt with. *)
LEMMA ThreadQuestion ==
    ASSUME Inv, Settled, NEW a \in Client \cup {None}, Question(a), NEW t, ThreadNext(t)
    PROVE  CalmInv'
<1>0. /\ SEND_TO_FD \in {None, a} /\ SEND_TO_FD_STAR \in {None, a} /\ a \in Client
      /\ \A u \in DOMAIN thr : Handles(a, u)
      /\ \A c \in Client : About(a, c)
  BY DEF Question, Inv, TypeOK
<1> SUFFICES Settled' /\ Question(a)'
  BY DEF CalmInv
<1>1. UNCHANGED s2c =>
         /\ \A c \in Client : \A i \in DOMAIN s2c'[c] :
               \/ i \in DOMAIN s2c[c] /\ s2c'[c][i] = s2c[c][i]
               \/ /\ s2c'[c][i].text.kind = "text" /\ s2c'[c][i].text.by = a
                  /\ s2c'[c][i].via = "answer" => c = a
         /\ \A c \in Client : conn[c] # "in" => s2c'[c] = s2c[c]
  OBVIOUS
<1>2. UNCHANGED c2s => \A c \in Client : \A i \in DOMAIN c2s'[c] : \E j \in DOMAIN c2s[c] : c2s'[c][i] = c2s[c][j]
  OBVIOUS
<1>3. ASSUME NEW u \in DOMAIN thr
      PROVE  /\ thr[u].msg \in Message /\ Text(thr[u].msg.cmd, thr[u].msg.by) \in Message
             /\ Text(thr[u].msg.cmd, thr[u].msg.by).kind = "text"
             /\ Text(thr[u].msg.cmd, thr[u].msg.by).by = thr[u].msg.by
  BY ThreadFields DEF Inv
<1>4. CASE ThreadStarts(t)
  <2>1. Turn(t, "recv", Client_sock, thr[t].msg) /\ UNCHANGED <<SEND_TO_FD, SEND_TO_FD_STAR, c2s, s2c>>
    BY <1>4, ThreadStartsFacts
  <2> QED
    BY <1>0, <1>1, <1>2, <2>1, TurnSettled, TurnQuestion
<1>5. CASE ThreadReceives(t)
  <2>c. PICK c : c = thr[t].sock
    OBVIOUS
  <2>m. PICK m : m = Head(c2s[c])
    OBVIOUS
  <2>1. /\ c \in Client /\ c2s[c] \in Seq(Message) /\ c2s[c] # <<>> /\ m = c2s[c][1] /\ 1 \in DOMAIN c2s[c]
        /\ \E pc \in {"recv", "answer", "star_answer", "route"} : Turn(t, pc, c, m)
        /\ c2s'[c] = Tail(c2s[c]) /\ \A d \in Client \ {c} : c2s'[d] = c2s[d]
        /\ UNCHANGED <<SEND_TO_FD, SEND_TO_FD_STAR, s2c>>
    BY <1>5, <2>c, <2>m, ThreadReceivesFacts
  <2>2. \A i \in DOMAIN c2s'[c] : \E j \in DOMAIN c2s[c] : c2s'[c][i] = c2s[c][j]
    BY <2>1, TailFacts
  <2>3. \A d \in Client : \A i \in DOMAIN c2s'[d] : \E j \in DOMAIN c2s[d] : c2s'[d][i] = c2s[d][j]
    BY <2>1, <2>2
  <2>4. m.kind = "text" /\ m.by = a
    BY <1>0, <2>1 DEF About
  <2>5. PICK pc \in {"recv", "answer", "star_answer", "route"} : Turn(t, pc, c, m)
    BY <2>1
  <2>6. pc \notin {"routed", "star"}
    OBVIOUS
  <2>7. Settled'
    BY <1>1, <2>1, <2>5, TurnSettled
  <2> QED
    BY <1>0, <1>1, <2>1, <2>3, <2>4, <2>5, <2>6, <2>7, TurnQuestion
<1>6. CASE Answer(t)
  <2>1. /\ t \in DOMAIN thr /\ thr[t].pc = "answer" /\ Turn(t, "answered", thr[t].sock, thr[t].msg)
        /\ send({SEND_TO_FD}, thr[t].msg, "answer") /\ UNCHANGED <<SEND_TO_FD, SEND_TO_FD_STAR, c2s>>
    BY <1>6, AnswerFacts DEF Quietly
  <2>2. thr[t].msg.kind = "text" /\ thr[t].msg.by = a
    BY <1>0, <2>1 DEF Handles
  <2>3. /\ \A c \in Client : \A i \in DOMAIN s2c'[c] :
              \/ i \in DOMAIN s2c[c] /\ s2c'[c][i] = s2c[c][i]
              \/ /\ s2c'[c][i].text.kind = "text" /\ s2c'[c][i].text.by = a
                 /\ s2c'[c][i].via = "answer" => c = a
        /\ \A c \in Client : conn[c] # "in" => s2c'[c] = s2c[c]
    BY <1>0, <1>3, <2>1, <2>2, SendQuestion
  <2> QED
    BY <1>0, <1>2, <2>1, <2>3, TurnSettled, TurnQuestion
<1>7. CASE Answered(t)
  <2>1. /\ Turn(t, "recv", thr[t].sock, thr[t].msg) /\ SEND_TO_FD' = None
        /\ UNCHANGED <<SEND_TO_FD_STAR, c2s, s2c>>
    BY <1>7, AnsweredFacts DEF Quietly
  <2> QED
    BY <1>0, <1>1, <1>2, <2>1, TurnSettled, TurnQuestion
<1>8. CASE StarAnswer(t)
  <2>1. /\ t \in DOMAIN thr /\ thr[t].pc = "star_answer" /\ Turn(t, "recv", thr[t].sock, thr[t].msg)
        /\ \/ send({SEND_TO_FD_STAR}, thr[t].msg, "answer") /\ UNCHANGED SEND_TO_FD_STAR
           \/ SEND_TO_FD_STAR' = None /\ UNCHANGED s2c
        /\ UNCHANGED <<SEND_TO_FD, c2s>>
    BY <1>8, StarAnswerFacts DEF Quietly
  <2>2. thr[t].msg.kind = "text" /\ thr[t].msg.by = a
    BY <1>0, <2>1 DEF Handles
  <2>3. /\ \A c \in Client : \A i \in DOMAIN s2c'[c] :
              \/ i \in DOMAIN s2c[c] /\ s2c'[c][i] = s2c[c][i]
              \/ /\ s2c'[c][i].text.kind = "text" /\ s2c'[c][i].text.by = a
                 /\ s2c'[c][i].via = "answer" => c = a
        /\ \A c \in Client : conn[c] # "in" => s2c'[c] = s2c[c]
    <3>1. CASE send({SEND_TO_FD_STAR}, thr[t].msg, "answer")
      BY <1>0, <1>3, <2>1, <2>2, <3>1, SendQuestion
    <3>2. CASE UNCHANGED s2c
      BY <1>1, <3>2
    <3> QED
      BY <2>1, <3>1, <3>2
  <2> QED
    BY <1>0, <1>2, <2>1, <2>3, TurnSettled, TurnQuestion
<1>9. CASE Route(t)
  <2>1. /\ t \in DOMAIN thr /\ thr[t].pc = "route"
        /\ \/ thr[t].msg.kind = "node" \/ thr[t].msg.kind = "star"
           \/ Turn(t, "recv", thr[t].sock, thr[t].msg) /\ UNCHANGED s2c
        /\ UNCHANGED <<SEND_TO_FD, SEND_TO_FD_STAR, c2s>>
    BY <1>9, RouteFacts DEF Quietly
  <2>2. thr[t].msg.kind = "text"
    BY <1>0, <2>1 DEF Handles
  <2> QED
    BY <1>0, <1>1, <1>2, <2>1, <2>2, TurnSettled, TurnQuestion
<1>10. CASE Routed(t)
  <2>1. /\ t \in DOMAIN thr /\ thr[t].pc = "routed" /\ Turn(t, "recv", thr[t].sock, thr[t].msg)
        /\ SEND_TO_FD' = thr[t].sock /\ UNCHANGED <<SEND_TO_FD_STAR, c2s, s2c>>
    BY <1>10, RoutedFacts DEF Quietly
  <2>2. thr[t].sock = a
    BY <1>0, <2>1 DEF Handles
  <2> QED
    BY <1>0, <1>1, <1>2, <2>1, <2>2, TurnSettled, TurnQuestion
<1>11. CASE SendToAll(t)
  <2>1. /\ t \in DOMAIN thr /\ thr[t].pc = "star" /\ Turn(t, "counting", thr[t].sock, thr[t].msg)
        /\ SEND_TO_FD_STAR' = thr[t].sock /\ UNCHANGED <<SEND_TO_FD, c2s>>
        /\ \E to : send(to, Text(thr[t].msg.cmd, thr[t].msg.by), "command")
    BY <1>11, SendToAllFacts DEF Quietly
  <2>2. thr[t].sock = a /\ thr[t].msg.by = a
    BY <1>0, <2>1 DEF Handles
  <2>3. PICK to : send(to, Text(thr[t].msg.cmd, thr[t].msg.by), "command")
    BY <2>1
  <2>4. /\ \A c \in Client : \A i \in DOMAIN s2c'[c] :
              \/ i \in DOMAIN s2c[c] /\ s2c'[c][i] = s2c[c][i]
              \/ /\ s2c'[c][i].text.kind = "text" /\ s2c'[c][i].text.by = a
                 /\ s2c'[c][i].via = "answer" => c = a
        /\ \A c \in Client : conn[c] # "in" => s2c'[c] = s2c[c]
    BY <1>0, <1>3, <2>1, <2>2, <2>3, SendQuestion
  <2> QED
    BY <1>0, <1>2, <2>1, <2>2, <2>4, TurnSettled, TurnQuestion
<1>12. CASE CountNodes(t)
  <2>1. Turn(t, "recv", thr[t].sock, thr[t].msg) /\ UNCHANGED <<SEND_TO_FD, SEND_TO_FD_STAR, c2s, s2c>>
    BY <1>12, CountNodesFacts DEF Quietly
  <2> QED
    BY <1>0, <1>1, <1>2, <2>1, TurnSettled, TurnQuestion
<1>13. CASE ThreadLeaves(t)
  <2>1. Turn(t, "leaving", thr[t].sock, thr[t].msg) /\ UNCHANGED <<SEND_TO_FD, SEND_TO_FD_STAR, c2s, s2c>>
    BY <1>13, ThreadLeavesFacts DEF Quietly
  <2> QED
    BY <1>0, <1>1, <1>2, <2>1, TurnSettled, TurnQuestion
<1>14. CASE ThreadEnds(t)
  <2>1. Turn(t, "ended", thr[t].sock, thr[t].msg) /\ UNCHANGED <<SEND_TO_FD, SEND_TO_FD_STAR, c2s, s2c>>
    BY <1>14, ThreadEndsFacts
  <2> QED
    BY <1>0, <1>1, <1>2, <2>1, TurnSettled, TurnQuestion
<1> QED
  BY <1>4, <1>5, <1>6, <1>7, <1>8, <1>9, <1>10, <1>11, <1>12, <1>13, <1>14 DEF ThreadNext

-----------------------------------------------------------------------------
(* The clients, with one line at a time *)

(* What one client does leaves the others' threads as they are. *)
LEMMA ActsSettled ==
    ASSUME Settled, NEW c \in Client, Acts(c),
           main'[c].pc \in {"fgets", "write", "parse", "fork", "wait"},
           rcv'[c].pc \in {"recv", "dup"} => stdout'[c] = "tty",
           conn'[c] # "in" => main'[c].pc = "fgets" /\ rcv'[c].pc = "recv" /\ s2c'[c] = <<>>
    PROVE  Settled'
BY DEF Settled, Acts

(* A step of a client while a line is on its way.                          *)
LEMMA ActsLine ==
    ASSUME NEW a, Line(a), NEW c \in Client, Acts(c), FromKeyboard(a, c)',
           \/ main[c].pc = "write"
           \/ /\ c2s'[c] = c2s[c] /\ main'[c].pc # "write"
              /\ main'[c].pc \in {"parse", "fork", "wait"} => main[c].pc \in {"parse", "fork", "wait"}
    PROVE  Line(a)'
<1>1. /\ UNCHANGED <<SEND_TO_FD, SEND_TO_FD_STAR, thr>>
      /\ \A d \in Client \ {c} : /\ c2s'[d] = c2s[d] /\ s2c'[d] = s2c[d] /\ msg'[d] = msg[d]
                                 /\ main'[d] = main[d] /\ rcv'[d] = rcv[d]
  BY DEF Acts, server
<1>2. \A d \in Client : FromKeyboard(a, d)'
  BY <1>1 DEF Line, FromKeyboard
<1>3. ASSUME NEW t \in DOMAIN thr, thr[t].pc = "route" PROVE Looked(a, t)'
  <2>1. Looked(a, t)
    BY <1>3 DEF Line
  <2>2. /\ c2s'[c] = c2s[c] /\ main'[c].pc # "write"
        /\ main'[c].pc \in {"parse", "fork", "wait"} => main[c].pc \in {"parse", "fork", "wait"}
    BY <2>1 DEF Looked
  <2>3. ASSUME NEW d \in Client
        PROVE  /\ c2s'[d] = <<>> /\ main'[d].pc # "write"
               /\ main'[d].pc \in {"parse", "fork", "wait"} => thr[t].msg.kind = "here"
    <3>1. CASE d = c
      BY <2>1, <2>2, <3>1 DEF Looked
    <3>2. CASE d # c
      BY <1>1, <2>1, <3>2 DEF Looked
    <3> QED
      BY <3>1, <3>2
  <2> QED
    BY <1>1, <2>1, <2>3 DEF Looked
<1>4. \A t \in DOMAIN thr' :
         /\ thr'[t].pc \in {"start", "recv", "route", "leaving", "ended"}
         /\ thr'[t].pc = "route" => Looked(a, t)'
         /\ \A u \in DOMAIN thr' : thr'[t].pc = "route" /\ thr'[u].pc = "route" => t = u
  BY <1>1, <1>3 DEF Line
<1>5. SEND_TO_FD' = None /\ SEND_TO_FD_STAR' = None
  BY <1>1 DEF Line
<1> QED
  BY <1>2, <1>4, <1>5 DEF Line

(* The clients while a line is on its way. *)
LEMMA ClientLine ==
    ASSUME Inv, Settled, NEW a \in Client \cup {None}, Line(a), NEW c \in Client, ClientNext(c)
    PROVE  CalmInv'
<1>0. /\ FromKeyboard(a, c) /\ (rcv[c].pc \in {"recv", "dup"} => stdout[c] = "tty")
      /\ c2s[c] \in Seq(Message)
      /\ conn[c] # "in" => main[c].pc = "fgets" /\ rcv[c].pc = "recv" /\ s2c[c] = <<>>
  BY ClientTypesHold DEF Line, Settled, Inv
<1>1. rcv[c].pc = "recv" /\ s2c[c] = <<>> /\ stdout[c] = "tty"
  BY <1>0 DEF FromKeyboard
<1> SUFFICES Settled' /\ Line(a)'
  BY DEF CalmInv
<1>2. CASE MainWrites(c)
  <2>1. /\ Acts(c) /\ conn[c] = "in" /\ main[c].pc = "write"
        /\ UNCHANGED <<lines, asked, s2c, conn, msg, stdout, rcv>>
        /\ \E line \in Message :
              /\ line.by = msg[c].by /\ (msg[c].kind # "text" => line.kind = msg[c].kind)
              /\ c2s'[c] = Append(c2s[c], line)
              /\ main'[c].pc = IF line.kind = "here" THEN "parse" ELSE "fgets"
    BY <1>2, MainWritesFacts
  <2>2. PICK line \in Message :
              /\ line.by = msg[c].by /\ (msg[c].kind # "text" => line.kind = msg[c].kind)
              /\ c2s'[c] = Append(c2s[c], line)
              /\ main'[c].pc = IF line.kind = "here" THEN "parse" ELSE "fgets"
    BY <2>1
  <2>3. /\ c = a /\ c2s[c] = <<>> /\ line.kind # "text" /\ line.by = a
        /\ main'[c].pc \in {"parse", "fgets"} /\ (main'[c].pc = "parse" => line.kind = "here")
    BY <1>0, <2>1, <2>2 DEF FromKeyboard
  <2>4. c2s'[c] = <<line>>
    BY <2>2, <2>3
  <2>5. Len(c2s'[c]) = 1 /\ \A i \in DOMAIN c2s'[c] : c2s'[c][i] = line
    BY <2>4
  <2>6. FromKeyboard(a, c)'
    BY <1>1, <2>1, <2>3, <2>5 DEF FromKeyboard
  <2>7. Settled'
    BY <1>1, <2>1, <2>3, ActsSettled
  <2> QED
    BY <2>1, <2>6, <2>7, ActsLine
<1>3. CASE MainParses(c)
  <2>1. /\ Acts(c) /\ conn[c] = "in" /\ main[c].pc = "parse" /\ main'[c].pc \in {"fork", "fgets"}
        /\ UNCHANGED <<c2s, s2c, conn, msg, stdout, rcv>>
    BY <1>3, MainParsesFacts
  <2>2. FromKeyboard(a, c)'
    BY <1>0, <2>1 DEF FromKeyboard
  <2>3. Settled'
    BY <1>1, <2>1, ActsSettled
  <2> QED
    BY <2>1, <2>2, <2>3, ActsLine
<1>4. CASE MainForks(c)
  <2>1. /\ Acts(c) /\ conn[c] = "in" /\ main[c].pc = "fork" /\ main'[c].pc = "wait" /\ main'[c].out = stdout[c]
        /\ UNCHANGED <<c2s, s2c, conn, msg, stdout, rcv>>
    BY <1>4, MainForksFacts
  <2>2. FromKeyboard(a, c)'
    BY <1>0, <1>1, <2>1 DEF FromKeyboard
  <2>3. Settled'
    BY <1>1, <2>1, ActsSettled
  <2> QED
    BY <2>1, <2>2, <2>3, ActsLine
<1>5. CASE MainWaits(c)
  <2>1. /\ Acts(c) /\ conn[c] = "in" /\ main[c].pc = "wait" /\ main'[c].pc = "fgets"
        /\ UNCHANGED <<s2c, conn, msg, stdout, rcv>>
        /\ c2s'[c] = c2s[c] \/ main[c].out = "sock"
    BY <1>5, MainWaitsFacts
  <2>2. c2s'[c] = c2s[c]
    BY <1>0, <2>1 DEF FromKeyboard
  <2>3. FromKeyboard(a, c)'
    BY <1>0, <2>1, <2>2 DEF FromKeyboard
  <2>4. Settled'
    BY <1>1, <2>1, ActsSettled
  <2> QED
    BY <2>1, <2>2, <2>3, <2>4, ActsLine
<1>6. ~(RcvReceives(c) \/ RcvRedirects(c) \/ RcvParses(c) \/ RcvForks(c) \/ RcvWaits(c) \/ RcvRestores(c))
  BY <1>1 DEF RcvReceives, RcvRedirects, RcvParses, RcvForks, RcvWaits, RcvRestores, RcvAt
<1> QED
  BY <1>2, <1>3, <1>4, <1>5, <1>6 DEF ClientNext

(* A step of a client while a question is dealt with. *)
LEMMA ActsQuestion ==
    ASSUME NEW a, Question(a), NEW c \in Client, Acts(c), UNCHANGED asked, About(a, c)'
    PROVE  Question(a)'
<1>1. /\ UNCHANGED <<SEND_TO_FD, SEND_TO_FD_STAR, thr>>
      /\ \A d \in Client \ {c} : /\ c2s'[d] = c2s[d] /\ s2c'[d] = s2c[d] /\ msg'[d] = msg[d]
                                 /\ argVector'[d] = argVector[d] /\ main'[d] = main[d] /\ rcv'[d] = rcv[d]
  BY DEF Acts, server
<1>2. \A d \in Client : About(a, d)'
  BY <1>1 DEF Question, About
<1>3. \A t \in DOMAIN thr' : Handles(a, t)'
  BY <1>1 DEF Question, Handles
<1>4. a \in asked' /\ SEND_TO_FD' \in {None, a} /\ SEND_TO_FD_STAR' \in {None, a}
  BY <1>1 DEF Question
<1> QED
  BY <1>2, <1>3, <1>4 DEF Question

(* The clients while a question is dealt with. *)
LEMMA ClientQuestion ==
    ASSUME Inv, Settled, NEW a \in Client \cup {None}, Question(a), NEW c \in Client, ClientNext(c)
    PROVE  CalmInv'
<1>0. /\ About(a, c) /\ (rcv[c].pc \in {"recv", "dup"} => stdout[c] = "tty")
      /\ c2s[c] \in Seq(Message) /\ main[c].pc = "fgets"
  BY ClientTypesHold DEF Question, About, Settled, Inv
<1> SUFFICES Settled' /\ Question(a)'
  BY DEF CalmInv
<1>1. ~(MainWrites(c) \/ MainParses(c) \/ MainForks(c) \/ MainWaits(c))
  BY <1>0 DEF MainWrites, MainParses, MainForks, MainWaits, MainAt
<1>2. CASE RcvReceives(c)
  <2>1. /\ Acts(c) /\ conn[c] = "in" /\ rcv[c].pc = "recv" /\ rcv'[c].pc = "dup"
        /\ s2c[c] \in Seq(Delivery) /\ s2c[c] # <<>> /\ s2c'[c] = Tail(s2c[c]) /\ 1 \in DOMAIN s2c[c]
        /\ msg'[c].kind = "text" /\ msg'[c].by = s2c[c][1].text.by
        /\ UNCHANGED <<asked, c2s, conn, stdout, main>>
    BY <1>2, RcvReceivesFacts
  <2>2. \A i \in DOMAIN s2c'[c] : \E j \in DOMAIN s2c[c] : s2c'[c][i] = s2c[c][j]
    BY <2>1, TailFacts
  <2>3. \A i \in DOMAIN s2c'[c] : /\ s2c'[c][i].text.kind = "text" /\ s2c'[c][i].text.by = a
                                  /\ s2c'[c][i].via = "answer" => c = a
    BY <1>0, <2>2 DEF About
  <2>4. msg'[c].by = a
    BY <1>0, <2>1 DEF About
  <2>5. About(a, c)'
    BY <1>0, <2>1, <2>3, <2>4 DEF About
  <2>6. Settled'
    BY <1>0, <2>1, ActsSettled
  <2> QED
    BY <2>1, <2>5, <2>6, ActsQuestion
<1>3. CASE RcvRedirects(c)
  <2>1. /\ Acts(c) /\ conn[c] = "in" /\ rcv[c].pc = "dup" /\ rcv'[c].pc = "parse"
        /\ UNCHANGED <<asked, c2s, s2c, conn, msg, main>>
    BY <1>3, RcvRedirectsFacts
  <2>2. About(a, c)'
    BY <1>0, <2>1 DEF About
  <2>3. Settled'
    BY <1>0, <2>1, ActsSettled
  <2> QED
    BY <2>1, <2>2, <2>3, ActsQuestion
<1>4. CASE RcvParses(c)
  <2>1. /\ Acts(c) /\ conn[c] = "in" /\ rcv[c].pc = "parse" /\ rcv'[c].pc \in {"fork", "restore"}
        /\ argVector'[c].by = msg[c].by
        /\ UNCHANGED <<asked, c2s, s2c, conn, msg, stdout, main>>
    BY <1>4, RcvParsesFacts
  <2>2. About(a, c)'
    BY <1>0, <2>1 DEF About
  <2>3. Settled'
    BY <1>0, <2>1, ActsSettled
  <2> QED
    BY <2>1, <2>2, <2>3, ActsQuestion
<1>5. CASE RcvForks(c)
  <2>1. /\ Acts(c) /\ conn[c] = "in" /\ rcv[c].pc = "fork" /\ rcv'[c].pc = "wait"
        /\ rcv'[c].line = argVector[c]
        /\ UNCHANGED <<asked, c2s, s2c, conn, msg, argVector, stdout, main>>
    BY <1>5, RcvForksFacts
  <2>2. About(a, c)'
    BY <1>0, <2>1 DEF About
  <2>3. Settled'
    BY <1>0, <2>1, ActsSettled
  <2> QED
    BY <2>1, <2>2, <2>3, ActsQuestion
<1>6. CASE RcvWaits(c)
  <2>1. /\ Acts(c) /\ conn[c] = "in" /\ rcv[c].pc = "wait" /\ rcv'[c].pc = "restore"
        /\ UNCHANGED <<asked, s2c, conn, msg, stdout, main>>
        /\ \/ c2s'[c] = c2s[c]
           \/ \E x \in Message : x.kind = "text" /\ x.by = rcv[c].line.by /\ c2s'[c] = Append(c2s[c], x)
    BY <1>6, RcvWaitsFacts
  <2>2. \A i \in DOMAIN c2s[c] : c2s[c][i].kind = "text" /\ c2s[c][i].by = a
    BY <1>0 DEF About
  <2>3. rcv[c].line.by = a
    BY <1>0, <2>1 DEF About
  <2>4. \A i \in DOMAIN c2s'[c] : c2s'[c][i].kind = "text" /\ c2s'[c][i].by = a
    <3>1. CASE c2s'[c] = c2s[c]
      BY <2>2, <3>1
    <3>2. ASSUME NEW x \in Message, x.kind = "text", x.by = rcv[c].line.by, c2s'[c] = Append(c2s[c], x)
          PROVE  \A i \in DOMAIN c2s'[c] : c2s'[c][i].kind = "text" /\ c2s'[c][i].by = a
      <4>1. \A i \in DOMAIN c2s'[c] : c2s'[c][i] = x \/ (i \in DOMAIN c2s[c] /\ c2s'[c][i] = c2s[c][i])
        BY <1>0, <3>2, AppendFacts
      <4> QED
        BY <2>2, <2>3, <3>2, <4>1
    <3> QED
      BY <2>1, <3>1, <3>2
  <2>5. About(a, c)'
    BY <1>0, <2>1, <2>4 DEF About
  <2>6. Settled'
    BY <1>0, <2>1, ActsSettled
  <2> QED
    BY <2>1, <2>5, <2>6, ActsQuestion
<1>7. CASE RcvRestores(c)
  <2>1. /\ Acts(c) /\ conn[c] = "in" /\ rcv[c].pc = "restore" /\ rcv'[c].pc = "recv" /\ stdout'[c] = "tty"
        /\ UNCHANGED <<asked, c2s, s2c, conn, main>>
    BY <1>7, RcvRestoresFacts
  <2>2. About(a, c)'
    BY <1>0, <2>1 DEF About
  <2>3. Settled'
    BY <1>0, <2>1, ActsSettled
  <2> QED
    BY <2>1, <2>2, <2>3, ActsQuestion
<1> QED
  BY <1>1, <1>2, <1>3, <1>4, <1>5, <1>6, <1>7 DEF ClientNext

-----------------------------------------------------------------------------
(* When all is quiet *)

(* Nothing is left of the last line. *)
LEMMA QuietMeans ==
    ASSUME Settled, Quiet
    PROVE  /\ SEND_TO_FD = None /\ SEND_TO_FD_STAR = None
           /\ \A t \in DOMAIN thr : thr[t].pc \in {"recv", "ended"}
           /\ \A c \in Client : /\ c2s[c] = <<>> /\ s2c[c] = <<>> /\ main[c].pc = "fgets"
                                /\ rcv[c].pc = "recv" /\ stdout[c] = "tty"
BY DEF Settled, Quiet

(* The next line is then the only one. *)
LEMMA TypesCalm ==
    ASSUME Calm, Inv, Settled, NEW c \in Client, Types(c)
    PROVE  CalmInv'
<1>1. /\ Acts(c) /\ conn[c] = "in" /\ Quiet /\ UNCHANGED <<c2s, s2c, conn, stdout, rcv>>
      /\ msg'[c].kind # "text" /\ msg'[c].by = c /\ main'[c].pc = "write"
  BY TypesFacts
<1>2. /\ SEND_TO_FD = None /\ SEND_TO_FD_STAR = None
      /\ \A t \in DOMAIN thr : thr[t].pc \in {"recv", "ended"}
      /\ \A d \in Client : /\ c2s[d] = <<>> /\ s2c[d] = <<>> /\ main[d].pc = "fgets"
                           /\ rcv[d].pc = "recv" /\ stdout[d] = "tty"
  BY <1>1, QuietMeans
<1>3. /\ UNCHANGED <<SEND_TO_FD, SEND_TO_FD_STAR, thr>>
      /\ \A d \in Client \ {c} : main'[d] = main[d]
  BY <1>1 DEF Acts, server
<1>4. Settled'
  BY <1>1, <1>2, ActsSettled
<1>5. ASSUME NEW d \in Client PROVE FromKeyboard(c, d)'
  <2>1. c2s'[d] = <<>> /\ s2c'[d] = <<>> /\ rcv'[d].pc = "recv"
    BY <1>1, <1>2
  <2>2. Len(c2s'[d]) <= 1 /\ DOMAIN c2s'[d] = {}
    BY <2>1
  <2>3. (d # c => main'[d].pc = "fgets") /\ (d = c => main'[d].pc = "write")
    BY <1>1, <1>2, <1>3
  <2> QED
    BY <1>1, <2>1, <2>2, <2>3 DEF FromKeyboard
<1>6. Line(c)'
  BY <1>2, <1>3, <1>5 DEF Line
<1> QED
  BY <1>4, <1>6 DEF CalmInv

(* A client may then come or leave. *)
LEMMA ComesOrGoes ==
    ASSUME Calm, Inv, Settled, NEW c \in Client, Accept(c) \/ MainExits(c)
    PROVE  CalmInv'
<1>1. CASE Accept(c)
  <2>1. /\ Quiet /\ conn'[c] = "in" /\ \A d \in Client \ {c} : conn'[d] = conn[d]
        /\ \A t \in DOMAIN thr' : (t \in DOMAIN thr /\ thr'[t] = thr[t]) \/ thr'[t].pc = "start"
        /\ UNCHANGED <<SEND_TO_FD, SEND_TO_FD_STAR, c2s, s2c, stdout, main, rcv>>
    BY <1>1, AcceptFacts
  <2>2. /\ SEND_TO_FD = None /\ SEND_TO_FD_STAR = None
        /\ \A t \in DOMAIN thr : thr[t].pc \in {"recv", "ended"}
        /\ \A d \in Client : /\ c2s[d] = <<>> /\ s2c[d] = <<>> /\ main[d].pc = "fgets"
                             /\ rcv[d].pc = "recv" /\ stdout[d] = "tty"
    BY <2>1, QuietMeans
  <2>3. Settled'
    BY <2>1, <2>2 DEF Settled
  <2>4. ASSUME NEW d \in Client PROVE FromKeyboard(None, d)'
    <3>1. c2s'[d] = <<>> /\ s2c'[d] = <<>> /\ rcv'[d].pc = "recv" /\ main'[d].pc = "fgets"
      BY <2>1, <2>2
    <3>2. Len(c2s'[d]) <= 1 /\ DOMAIN c2s'[d] = {}
      BY <3>1
    <3> QED
      BY <3>1, <3>2 DEF FromKeyboard
  <2>5. \A t \in DOMAIN thr' : thr'[t].pc \in {"start", "recv", "ended"}
    BY <2>1, <2>2
  <2>6. Line(None)'
    BY <2>1, <2>2, <2>4, <2>5 DEF Line
  <2> QED
    BY <2>3, <2>6 DEF CalmInv
<1>2. CASE MainExits(c)
  <2>1. /\ Acts(c) /\ Quiet /\ main[c].pc = "fgets" /\ s2c'[c] = <<>> /\ rcv'[c].pc = "recv" /\ stdout'[c] = "tty"
        /\ UNCHANGED <<c2s, main>>
    BY <1>2, MainExitsFacts
  <2>2. /\ SEND_TO_FD = None /\ SEND_TO_FD_STAR = None
        /\ \A t \in DOMAIN thr : thr[t].pc \in {"recv", "ended"}
        /\ \A d \in Client : /\ c2s[d] = <<>> /\ s2c[d] = <<>> /\ main[d].pc = "fgets" /\ rcv[d].pc = "recv"
    BY <2>1, QuietMeans
  <2>3. /\ UNCHANGED <<SEND_TO_FD, SEND_TO_FD_STAR, thr>>
        /\ \A d \in Client \ {c} : s2c'[d] = s2c[d] /\ rcv'[d] = rcv[d]
    BY <2>1 DEF Acts, server
  <2>4. Settled'
    BY <2>1, ActsSettled
  <2>5. ASSUME NEW d \in Client PROVE FromKeyboard(None, d)'
    <3>1. c2s'[d] = <<>> /\ s2c'[d] = <<>> /\ rcv'[d].pc = "recv" /\ main'[d].pc = "fgets"
      BY <2>1, <2>2, <2>3
    <3>2. Len(c2s'[d]) <= 1 /\ DOMAIN c2s'[d] = {}
      BY <3>1
    <3> QED
      BY <3>1, <3>2 DEF FromKeyboard
  <2>6. Line(None)'
    BY <2>2, <2>3, <2>5 DEF Line
  <2> QED
    BY <2>4, <2>6 DEF CalmInv
<1> QED
  BY <1>1, <1>2

-----------------------------------------------------------------------------
(* Whose answers and whose output *)

(* It holds before anybody has connected. *)
LEMMA CalmInit ==
    Init => CalmInv
<1> SUFFICES ASSUME Init PROVE CalmInv
  OBVIOUS
<1>1. ASSUME NEW c \in Client
      PROVE  /\ c2s[c] = <<>> /\ s2c[c] = <<>> /\ main[c].pc = "fgets" /\ rcv[c].pc = "recv"
             /\ stdout[c] = "tty"
  BY DEF Init, Waiting, Idle
<1>2. Settled
  BY <1>1 DEF Settled
<1>3. ASSUME NEW c \in Client PROVE FromKeyboard(None, c)
  <2>1. Len(c2s[c]) <= 1 /\ DOMAIN c2s[c] = {}
    BY <1>1
  <2> QED
    BY <1>1, <2>1 DEF FromKeyboard
<1>4. SEND_TO_FD = None /\ SEND_TO_FD_STAR = None /\ DOMAIN thr = {}
  BY DEF Init
<1>5. Line(None)
  BY <1>3, <1>4 DEF Line
<1> QED
  BY <1>2, <1>5 DEF CalmInv

(* CalmInv is inductive, given Inv. *)
LEMMA CalmNext ==
    ASSUME Calm, Inv, CalmInv, [Next]_vars
    PROVE  CalmInv'
<1>0. Settled
  BY DEF CalmInv
<1>1. PICK a \in Client \cup {None} : Line(a) \/ Question(a)
  BY DEF CalmInv
<1>2. CASE UNCHANGED vars
  <2>1. UNCHANGED <<asked, SEND_TO_FD, SEND_TO_FD_STAR, thr, c2s, s2c, conn, msg, argVector, stdout, main, rcv>>
    BY <1>2 DEF vars, server, clients
  <2>2. Settled'
    BY <1>0, <2>1 DEF Settled
  <2>3. Line(a) => Line(a)'
    BY <2>1 DEF Line, FromKeyboard, Looked
  <2>4. Question(a) => Question(a)'
    BY <2>1 DEF Question, About, Handles
  <2> QED
    BY <1>1, <2>2, <2>3, <2>4 DEF CalmInv
<1>3. ASSUME NEW t \in DOMAIN thr, ThreadNext(t) PROVE CalmInv'
  BY <1>0, <1>1, <1>3, ThreadLine, ThreadQuestion
<1>4. ASSUME NEW c \in Client, Accept(c) \/ MainExits(c) PROVE CalmInv'
  BY <1>0, <1>4, ComesOrGoes
<1>5. ASSUME NEW c \in Client, Types(c) PROVE CalmInv'
  BY <1>0, <1>5, TypesCalm
<1>6. ASSUME NEW c \in Client, ClientNext(c) PROVE CalmInv'
  BY <1>0, <1>1, <1>6, ClientLine, ClientQuestion
<1> QED
  BY <1>2, <1>3, <1>4, <1>5, <1>6 DEF Next

(* If lines are typed, and clients come and leave, one at a time, what the *)
(* server forwards as an answer is the output of the asker's own command,  *)
(* though the next message of any thread is taken for the answer.          *)
THEOREM AskersOwnAnswer ==
    ASSUME Calm
    PROVE  Spec => []AnswerToAsker
<1>1. CalmInv => AnswerToAsker
  <2> SUFFICES ASSUME CalmInv PROVE AnswerToAsker
    OBVIOUS
  <2>1. PICK a \in Client \cup {None} : Line(a) \/ Question(a)
    BY DEF CalmInv
  <2>2. CASE Line(a)
    BY <2>2 DEF Line, FromKeyboard, AnswerToAsker
  <2>3. CASE Question(a)
    BY <2>3 DEF Question, About, AnswerToAsker
  <2> QED
    BY <2>1, <2>2, <2>3
<1> QED
  BY <1>1, InvInit, InvNext, CalmInit, CalmNext, PTL DEF Spec

(* Under the same condition the server gets output only for a question:    *)
(* a command typed at a client is never run with the socket as descriptor  *)
(* 1, though the receiving thread redirects it for both threads.           *)
THEOREM TerminalOutput ==
    ASSUME Calm
    PROVE  Spec => []LocalOutputIsLocal
<1>1. CalmInv => LocalOutputIsLocal
  <2> SUFFICES ASSUME CalmInv PROVE LocalOutputIsLocal
    OBVIOUS
  <2>1. PICK a \in Client \cup {None} : Line(a) \/ Question(a)
    BY DEF CalmInv
  <2>2. CASE Line(a)
    BY <2>2 DEF Line, FromKeyboard, LocalOutputIsLocal
  <2>3. CASE Question(a)
    BY <2>3 DEF Question, About, LocalOutputIsLocal
  <2> QED
    BY <2>1, <2>2, <2>3
<1> QED
  BY <1>1, InvInit, InvNext, CalmInit, CalmNext, PTL DEF Spec

-----------------------------------------------------------------------------
(* Whose thread *)

(* Threads and accepted sockets correspond, Client_sock is the newest of   *)
(* them, and only the newest thread may not have read it yet.              *)
OwnInv ==
    /\ Len(thr) = Len(client_fds)
    /\ client_fds # <<>> => Client_sock = client_fds[Len(client_fds)]
    /\ \A t \in DOMAIN thr :
          \/ thr[t].pc = "start" /\ thr[t].sock = None /\ t = Len(thr)
          \/ thr[t].pc # "start" /\ thr[t].sock = client_fds[t]

(* It is kept by every thread that goes on with the socket it has, and by  *)
(* one that reads Client_sock.                                             *)
LEMMA TurnOwn ==
    ASSUME Inv, OwnInv, NEW t, NEW pc, NEW sock, NEW m, Turn(t, pc, sock, m), pc # "start",
           \/ thr[t].pc # "start" /\ sock = thr[t].sock
           \/ thr[t].pc = "start" /\ sock = Client_sock
    PROVE  OwnInv'
<1>1. /\ t \in DOMAIN thr /\ DOMAIN thr' = DOMAIN thr /\ thr' \in Seq(ServerThread)
      /\ thr \in Seq(ServerThread) /\ client_fds \in Seq(Client)
      /\ \A u \in DOMAIN thr \ {t} : thr'[u] = thr[u]
      /\ thr'[t].pc = pc /\ thr'[t].sock = sock /\ UNCHANGED <<client_fds, Client_sock>>
  BY DEF Turn, Inv, TypeOK, ServerThread
<1>2. Len(thr') = Len(thr) /\ Len(thr) \in Nat /\ DOMAIN thr = 1 .. Len(thr)
  BY <1>1
<1>3. sock = client_fds[t]
  <2>1. CASE thr[t].pc # "start"
    BY <1>1, <2>1 DEF OwnInv
  <2>2. CASE thr[t].pc = "start"
    <3>1. t = Len(client_fds) /\ client_fds # <<>>
      BY <1>1, <1>2, <2>2 DEF OwnInv
    <3> QED
      BY <2>2, <3>1 DEF OwnInv
  <2> QED
    BY <2>1, <2>2
<1> QED
  BY <1>1, <1>2, <1>3 DEF OwnInv

(* Every step of a thread is one of those. *)
LEMMA ThreadOwn ==
    ASSUME Inv, OwnInv, NEW t \in DOMAIN thr, ThreadNext(t)
    PROVE  OwnInv'
<1>1. CASE ThreadStarts(t)
  BY <1>1, ThreadStartsFacts, TurnOwn
<1>2. CASE ~ThreadStarts(t)
  <2>1. \E pc, m : Turn(t, pc, thr[t].sock, m) /\ pc # "start" /\ thr[t].pc # "start"
    <3>1. CASE ThreadReceives(t)
      BY <3>1, ThreadReceivesFacts
    <3>2. CASE Answer(t)
      BY <3>2, AnswerFacts
    <3>3. CASE Answered(t)
      BY <3>3, AnsweredFacts
    <3>4. CASE StarAnswer(t)
      BY <3>4, StarAnswerFacts
    <3>5. CASE Route(t)
      BY <3>5, RouteFacts
    <3>6. CASE Routed(t)
      BY <3>6, RoutedFacts
    <3>7. CASE SendToAll(t)
      BY <3>7, SendToAllFacts
    <3>8. CASE CountNodes(t)
      BY <3>8, CountNodesFacts
    <3>9. CASE ThreadLeaves(t)
      BY <3>9, ThreadLeavesFacts
    <3>10. CASE ThreadEnds(t)
      BY <3>10, ThreadEndsFacts
    <3> QED
      BY <1>2, <3>1, <3>2, <3>3, <3>4, <3>5, <3>6, <3>7, <3>8, <3>9, <3>10 DEF ThreadNext
  <2> QED
    BY <2>1, TurnOwn
<1> QED
  BY <1>1, <1>2

(* When all is quiet every thread has read its socket, and a new client    *)
(* may be accepted.                                                        *)
LEMMA AcceptOwn ==
    ASSUME Calm, Inv, OwnInv, NEW c \in Client, Accept(c)
    PROVE  OwnInv'
<1>t. PICK new : new = [pc |-> "start", sock |-> None, counter |-> 0, msg |-> Empty(c), list |-> <<>>]
  OBVIOUS
<1>1. /\ thr \in Seq(ServerThread) /\ client_fds \in Seq(Client) /\ Client_sock' = c
      /\ thr' = Append(thr, new) /\ client_fds' = Append(client_fds, c)
  BY <1>t DEF Accept, Inv, TypeOK, ServerThread
<1>n. new.pc = "start" /\ new.sock = None
  BY <1>t
<1>2. \A t \in DOMAIN thr : thr[t].pc # "start" /\ thr[t].sock = client_fds[t]
  BY DEF Accept, Quiet, OwnInv
<1>3. /\ Len(thr) \in Nat /\ DOMAIN thr = 1 .. Len(thr) /\ DOMAIN client_fds = 1 .. Len(thr)
      /\ Len(client_fds) = Len(thr)
  BY <1>1 DEF OwnInv
<1>4. /\ Len(thr') = Len(thr) + 1 /\ Len(client_fds') = Len(thr) + 1 /\ DOMAIN thr' = 1 .. Len(thr) + 1
      /\ thr'[Len(thr) + 1] = new /\ client_fds'[Len(thr) + 1] = c
      /\ \A t \in 1 .. Len(thr) : thr'[t] = thr[t] /\ client_fds'[t] = client_fds[t]
  BY <1>1, <1>3
<1>5. \A t \in DOMAIN thr' : \/ thr'[t].pc = "start" /\ thr'[t].sock = None /\ t = Len(thr')
                             \/ thr'[t].pc # "start" /\ thr'[t].sock = client_fds'[t]
  <2> TAKE t \in DOMAIN thr'
  <2>1. CASE t \in 1 .. Len(thr)
    BY <1>2, <1>3, <1>4, <2>1
  <2>2. CASE t = Len(thr) + 1
    <3>1. thr'[t] = new /\ t = Len(thr')
      BY <1>4, <2>2
    <3> QED
      BY <1>n, <3>1
  <2> QED
    BY <1>3, <1>4, <2>1, <2>2
<1> QED
  BY <1>1, <1>4, <1>5 DEF OwnInv

(* If clients come one at a time, every thread of the server serves the    *)
(* client it was created for, though it is given the address of a variable *)
(* that the next accept() overwrites.                                      *)
THEOREM EachItsOwnThread ==
    ASSUME Calm
    PROVE  Spec => []OwnThread
<1>1. Init => OwnInv
  BY DEF Init, OwnInv
<1>2. Inv /\ OwnInv /\ [Next]_vars => OwnInv'
  <2> SUFFICES ASSUME Inv, OwnInv, [Next]_vars PROVE OwnInv'
    OBVIOUS
  <2>1. CASE UNCHANGED server
    BY <2>1 DEF server, OwnInv
  <2>2. UNCHANGED vars => UNCHANGED server
    BY DEF vars, server
  <2>3. ASSUME NEW c \in Client, Types(c) \/ ClientNext(c) \/ MainExits(c) PROVE UNCHANGED server
    BY <2>3 DEF Types, ClientNext, MainReads, MainWrites, MainParses, MainForks, MainWaits, MainExits,
                RcvReceives, RcvRedirects, RcvParses, RcvForks, RcvWaits, RcvRestores
  <2> QED
    BY <2>1, <2>2, <2>3, ThreadOwn, AcceptOwn DEF Next
<1>3. OwnInv => OwnThread
  BY DEF OwnInv, OwnThread
<1> QED
  BY <1>1, <1>2, <1>3, InvInit, InvNext, PTL DEF Spec

=============================================================================
