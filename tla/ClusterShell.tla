---------------------------- MODULE ClusterShell ----------------------------
(***************************************************************************)
(* ClusterShell: clustershell_server.c, a thread per client over shared    *)
(* globals without locks, and clustershell_client.c, whose main thread and *)
(* receiving thread share one buffer, one argument vector and one stdout.  *)
(*                                                                         *)
(* A step ends where another thread can see the difference.  A connection  *)
(* delivers whole messages in order.  A message is the way its text is     *)
(* read: by the server (kind, node) and as a command (cmd); "by" is the    *)
(* client whose question it belongs to and "via" what the server took it   *)
(* for, which the programs do not know.  No command prints a line that     *)
(* begins like an address.                                                 *)
(***************************************************************************)
EXTENDS Integers, Sequences, FiniteSets

CONSTANTS
    Client,      \* the clients that may connect
    Nodes,       \* the node names of ipmap.cfg, in its order
    Typed,       \* the commands they type
    MaxLines,    \* the lines all operators together type
    Calm         \* operators and new clients wait until all is quiet

ASSUME ClientAssumption == IsFiniteSet(Client) /\ "none" \notin Client

ASSUME BoundsAssumption == Nodes \in Nat /\ MaxLines \in Nat

ASSUME CalmAssumption == Calm \in BOOLEAN

ASSUME TypedAssumption == Typed \subseteq {"ls", "echo", "cd", "twoIn", "text"}

VARIABLES
    lines,            \* the lines typed so far
    asked,            \* the clients that have sent a command to other nodes
    \* the server
    client_fds,       \* the accepted sockets; n is its length
    client_list,      \* the descriptors in the linked list, newest first
    Client_sock,      \* the variable of main every thread reads
    SEND_TO_FD,       \* who gets the next message
    SEND_TO_FD_STAR,  \* who gets the answers to n*
    thr,              \* the threads, one per accepted socket
    \* the connections
    c2s, s2c,
    \* the clients
    conn,             \* "out", "in" or "gone"
    msg,              \* the buffer both threads read into
    argVector,        \* the command both threads parse into
    stdout,           \* where descriptor 1 leads
    badRedirectpipe,  \* the flag of that name
    main,             \* the main thread
    rcv               \* the receiving thread

server == <<client_fds, client_list, Client_sock, SEND_TO_FD, SEND_TO_FD_STAR, thr>>
clients == <<conn, msg, argVector, stdout, badRedirectpipe, main, rcv>>
vars == <<lines, asked, server, c2s, s2c, clients>>

None == "none"        \* -1, or no socket yet
Listen == "listen"    \* the listening socket

(* What a text does as a command: "ls" prints text, "echo" prints a command, *)
(* "cd" is a builtin (so are, in effect, pipes and exit), "twoIn" is a pipe  *)
(* with two <, "text" is no command or one that prints nothing.              *)
Cmd == {"ls", "echo", "cd", "twoIn", "text"}
Output == [ls |-> "text", echo |-> "ls"]

Text(cmd, by) == [kind |-> "text", node |-> 0, cmd |-> cmd, by |-> by]
Kind == {"text", "here", "nodes", "node", "star"}
Message == [kind : Kind, node : 0 .. Nodes, cmd : Cmd, by : Client]
Empty(c) == Text("text", c)
Waiting(c) == [pc |-> "fgets", line |-> Empty(c), out |-> "tty"]
Idle(c) == [pc |-> "recv", line |-> Empty(c), out |-> "tty"]

-----------------------------------------------------------------------------

Init ==
    /\ lines = 0
    /\ asked = {}
    /\ client_fds = <<>>
    /\ client_list = <<>>
    /\ Client_sock = None
    /\ SEND_TO_FD = None
    /\ SEND_TO_FD_STAR = None
    /\ thr = <<>>
    /\ c2s = [c \in Client |-> <<>>]
    /\ s2c = [c \in Client |-> <<>>]
    /\ conn = [c \in Client |-> "out"]
    /\ msg = [c \in Client |-> Empty(c)]
    /\ argVector = [c \in Client |-> Empty(c)]
    /\ stdout = [c \in Client |-> "tty"]
    /\ badRedirectpipe = [c \in Client |-> FALSE]
    /\ main = [c \in Client |-> Waiting(c)]
    /\ rcv = [c \in Client |-> Idle(c)]

(* Every message is dealt with and every question has had its answer. *)
Quiet ==
    /\ SEND_TO_FD = None
    /\ SEND_TO_FD_STAR = None
    /\ \A t \in DOMAIN thr : thr[t].pc \in {"recv", "ended"}
    /\ \A c \in Client :
          /\ c2s[c] = <<>>
          /\ s2c[c] = <<>>
          /\ conn[c] = "in" => main[c].pc = "fgets" /\ rcv[c].pc = "recv"

(* send() to some clients; one that is gone gets nothing, as SIGPIPE is      *)
(* ignored and its socket is never closed by the server.                     *)
send(to, text, via) ==
    s2c' = [c \in Client |->
              IF c \in to /\ conn[c] = "in" THEN Append(s2c[c], [text |-> text, via |-> via])
                                            ELSE s2c[c]]

-----------------------------------------------------------------------------
(* The server *)

addClient(list, fd) == <<fd>> \o list

(* The first entry of that descriptor is unlinked. *)
removeClient(list, fd) ==
    IF \E i \in DOMAIN list : list[i] = fd
      THEN LET i == CHOOSE i \in DOMAIN list : list[i] = fd /\ \A j \in 1 .. i - 1 : list[j] # fd
           IN SubSeq(list, 1, i - 1) \o SubSeq(list, i + 1, Len(list))
      ELSE list

(* Mutant: the thread is created before the socket is stored. *)
AcceptEarly(c) ==
    /\ conn[c] = "out"
    /\ Calm => Quiet
    /\ conn' = [conn EXCEPT ![c] = "in"]
    /\ Client_sock' = c
    /\ client_list' = addClient(client_list, Listen)
    /\ client_fds' = Append(client_fds, c)
    /\ thr' = Append(thr, [pc |-> "recv", sock |-> IF Client_sock = None THEN c ELSE Client_sock,
                           counter |-> 0, msg |-> Empty(c), list |-> <<>>])
    /\ UNCHANGED <<lines, asked, SEND_TO_FD, SEND_TO_FD_STAR, c2s, s2c, msg, argVector,
                   stdout, badRedirectpipe, main, rcv>>

(* main: a client connects, is entered under the mutex and gets its thread;  *)
(* the list is given the listening socket.                                   *)
Accept(c) ==
    /\ conn[c] = "out"
    /\ Calm => Quiet
    /\ conn' = [conn EXCEPT ![c] = "in"]
    /\ Client_sock' = c
    /\ client_list' = addClient(client_list, Listen)
    /\ client_fds' = Append(client_fds, c)
    /\ thr' = Append(thr, [pc |-> "start", sock |-> None, counter |-> 0,
                           msg |-> Empty(c), list |-> <<>>])
    /\ UNCHANGED <<lines, asked, SEND_TO_FD, SEND_TO_FD_STAR, c2s, s2c, msg, argVector,
                   stdout, badRedirectpipe, main, rcv>>

serverRest == <<client_fds, Client_sock>>

At(t, pc) == t \in DOMAIN thr /\ thr[t].pc = pc
Goes(t, pc) == thr' = [thr EXCEPT ![t].pc = pc]

(* recvmg reads its socket through the pointer to main's variable. *)
ThreadStarts(t) ==
    /\ At(t, "start")
    /\ thr' = [thr EXCEPT ![t].sock = Client_sock, ![t].pc = "recv"]
    /\ UNCHANGED <<lines, asked, serverRest, client_list, SEND_TO_FD, SEND_TO_FD_STAR,
                   c2s, s2c, clients>>

(* A message arrives: "nodes" prints the list, any other goes to whoever     *)
(* waits for an answer, if anybody does.                                     *)
ThreadReceives(t) ==
    /\ At(t, "recv")
    /\ c2s[thr[t].sock] # <<>>
    /\ LET m == Head(c2s[thr[t].sock])
           pc == IF m.kind = "nodes" THEN "recv"
                 ELSE IF SEND_TO_FD # None THEN "answer"
                 ELSE IF SEND_TO_FD_STAR # None THEN "star_answer"
                 ELSE "route"
       IN thr' = [thr EXCEPT ![t].msg = m, ![t].pc = pc]
    /\ c2s' = [c2s EXCEPT ![thr[t].sock] = Tail(@)]
    /\ UNCHANGED <<lines, asked, serverRest, client_list, SEND_TO_FD, SEND_TO_FD_STAR,
                   s2c, clients>>

(* The message is sent to SEND_TO_FD, by now perhaps -1 or another's. *)
Answer(t) ==
    /\ At(t, "answer")
    /\ send({SEND_TO_FD}, thr[t].msg, "answer")
    /\ Goes(t, "answered")
    /\ UNCHANGED <<lines, asked, serverRest, client_list, SEND_TO_FD, SEND_TO_FD_STAR,
                   c2s, clients>>

Answered(t) ==
    /\ At(t, "answered")
    /\ SEND_TO_FD' = None
    /\ Goes(t, "recv")
    /\ UNCHANGED <<lines, asked, serverRest, client_list, SEND_TO_FD_STAR, c2s, s2c, clients>>

(* The counter is the thread's own: only what the asker itself sends is      *)
(* forwarded, the answer of another node ends the question and is dropped.   *)
StarAnswer(t) ==
    /\ At(t, "star_answer")
    /\ \/ /\ thr[t].counter > 0
          /\ send({SEND_TO_FD_STAR}, thr[t].msg, "answer")
          /\ thr' = [thr EXCEPT ![t].counter = @ - 1, ![t].pc = "recv"]
          /\ UNCHANGED SEND_TO_FD_STAR
       \/ /\ thr[t].counter = 0
          /\ SEND_TO_FD_STAR' = None
          /\ Goes(t, "recv")
          /\ UNCHANGED s2c
    /\ UNCHANGED <<lines, asked, serverRest, client_list, SEND_TO_FD, c2s, clients>>

(* The i-th node name stands for the i-th client that connected. *)
Target(m) == IF m.kind = "node" /\ m.node <= Len(client_fds) THEN {client_fds[m.node]} ELSE {}

(* The command goes out before SEND_TO_FD says whose the answer is. *)
Route(t) ==
    /\ At(t, "route")
    /\ \/ /\ Target(thr[t].msg) # {}
          /\ send(Target(thr[t].msg), Text(thr[t].msg.cmd, thr[t].msg.by), "command")
          /\ Goes(t, "routed")
       \/ /\ Target(thr[t].msg) = {}
          /\ Goes(t, IF thr[t].msg.kind = "star" THEN "star" ELSE "recv")
          /\ UNCHANGED s2c
    /\ UNCHANGED <<lines, asked, serverRest, client_list, SEND_TO_FD, SEND_TO_FD_STAR,
                   c2s, clients>>

(* Mutant: the answer is to go to the node that gives it. *)
RoutedBack(t) ==
    /\ At(t, "routed")
    /\ SEND_TO_FD' = client_fds[thr[t].msg.node]
    /\ Goes(t, "recv")
    /\ UNCHANGED <<lines, asked, serverRest, client_list, SEND_TO_FD_STAR, c2s, s2c, clients>>

Routed(t) ==
    /\ At(t, "routed")
    /\ SEND_TO_FD' = thr[t].sock
    /\ Goes(t, "recv")
    /\ UNCHANGED <<lines, asked, serverRest, client_list, SEND_TO_FD_STAR, c2s, s2c, clients>>

(* Mutant: the answers are to go to the first client. *)
SendToAllFirst(t) ==
    /\ At(t, "star")
    /\ SEND_TO_FD_STAR' = client_fds[1]
    /\ send({client_fds[i] : i \in DOMAIN client_fds}, Text(thr[t].msg.cmd, thr[t].msg.by), "command")
    /\ Goes(t, "counting")
    /\ UNCHANGED <<lines, asked, serverRest, client_list, SEND_TO_FD, c2s, clients>>

(* n*: every client that ever connected gets the command, the asker too. *)
SendToAll(t) ==
    /\ At(t, "star")
    /\ SEND_TO_FD_STAR' = thr[t].sock
    /\ send({client_fds[i] : i \in DOMAIN client_fds}, Text(thr[t].msg.cmd, thr[t].msg.by), "command")
    /\ Goes(t, "counting")
    /\ UNCHANGED <<lines, asked, serverRest, client_list, SEND_TO_FD, c2s, clients>>

(* n is read after the mutex is released. *)
CountNodes(t) ==
    /\ At(t, "counting")
    /\ thr' = [thr EXCEPT ![t].counter = Len(client_fds), ![t].pc = "recv"]
    /\ UNCHANGED <<lines, asked, serverRest, client_list, SEND_TO_FD, SEND_TO_FD_STAR,
                   c2s, s2c, clients>>

(* recv returns 0: the slot in client_fds stays, and the list, which holds   *)
(* other descriptors, is read, searched and stored back without a lock.      *)
ThreadLeaves(t) ==
    /\ At(t, "recv")
    /\ conn[thr[t].sock] = "gone"
    /\ c2s[thr[t].sock] = <<>>
    /\ thr' = [thr EXCEPT ![t].list = removeClient(client_list, thr[t].sock), ![t].pc = "leaving"]
    /\ UNCHANGED <<lines, asked, serverRest, client_list, SEND_TO_FD, SEND_TO_FD_STAR,
                   c2s, s2c, clients>>

ThreadEnds(t) ==
    /\ At(t, "leaving")
    /\ client_list' = thr[t].list
    /\ thr' = [thr EXCEPT ![t].list = <<>>, ![t].pc = "ended"]
    /\ UNCHANGED <<lines, asked, serverRest, SEND_TO_FD, SEND_TO_FD_STAR, c2s, s2c, clients>>

ThreadNext(t) ==
    \/ ThreadStarts(t) \/ ThreadReceives(t)
    \/ Answer(t) \/ Answered(t) \/ StarAnswer(t)
    \/ Route(t) \/ Routed(t) \/ SendToAll(t) \/ CountNodes(t)
    \/ ThreadLeaves(t) \/ ThreadEnds(t)

-----------------------------------------------------------------------------
(* The client: what both threads do with a command *)

(* REPL: a line is parsed into the shared vector; a builtin, a pipe, or any  *)
(* line after one with two <, is done with at once, any other is forked.     *)
Parsed(c, text) ==
    /\ argVector' = [argVector EXCEPT ![c] = text]
    /\ badRedirectpipe' = [badRedirectpipe EXCEPT ![c] = @ \/ text.cmd = "twoIn"]

Forks(c, text) == text.cmd \notin {"cd", "twoIn"} /\ ~badRedirectpipe[c]

(* fork: the child is given the vector and descriptor 1 as they are now. *)
Forked(c, thread) == [thread EXCEPT !.pc = "wait", !.line = argVector[c], !.out = stdout[c]]

(* The child prints and ends; the text goes where its descriptor 1 leads. *)
Prints(c, thread) ==
    c2s' = IF thread.out = "sock" /\ thread.line.cmd \in DOMAIN Output
             THEN [c2s EXCEPT ![c] = Append(@, Text(Output[thread.line.cmd], thread.line.by))]
             ELSE c2s

MainAt(c, pc) == conn[c] = "in" /\ main[c].pc = pc
RcvAt(c, pc) == conn[c] = "in" /\ rcv[c].pc = pc

-----------------------------------------------------------------------------
(* The client's main thread *)

(* A line is read into the buffer the other thread receives into. *)
MainReads(c, kind, node, cmd) ==
    /\ MainAt(c, "fgets")
    /\ lines < MaxLines
    /\ Calm => Quiet
    /\ lines' = lines + 1
    /\ asked' = IF kind \in {"node", "star"} THEN asked \cup {c} ELSE asked
    /\ msg' = [msg EXCEPT ![c] = [kind |-> kind, node |-> node, cmd |-> cmd, by |-> c]]
    /\ main' = [main EXCEPT ![c].pc = "write"]
    /\ UNCHANGED <<server, c2s, s2c, conn, argVector, stdout, badRedirectpipe, rcv>>

(* Whatever the buffer holds by now is sent to the server; one that does not *)
(* begin with an address is also run here, from a copy.                      *)
MainWrites(c) ==
    /\ MainAt(c, "write")
    /\ LET line == IF msg[c].kind = "text" THEN [msg[c] EXCEPT !.kind = "here"] ELSE msg[c]
       IN /\ c2s' = [c2s EXCEPT ![c] = Append(@, line)]
          /\ main' = [main EXCEPT ![c].line = Text(line.cmd, line.by),
                                  ![c].pc = IF line.kind = "here" THEN "parse" ELSE "fgets"]
    /\ UNCHANGED <<lines, asked, server, s2c, conn, msg, argVector, stdout,
                   badRedirectpipe, rcv>>

MainParses(c) ==
    /\ MainAt(c, "parse")
    /\ Parsed(c, main[c].line)
    /\ main' = [main EXCEPT ![c].pc = IF Forks(c, main[c].line) THEN "fork" ELSE "fgets"]
    /\ UNCHANGED <<lines, asked, server, c2s, s2c, conn, msg, stdout, rcv>>

MainForks(c) ==
    /\ MainAt(c, "fork")
    /\ main' = [main EXCEPT ![c] = Forked(c, @)]
    /\ UNCHANGED <<lines, asked, server, c2s, s2c, conn, msg, argVector, stdout,
                   badRedirectpipe, rcv>>

MainWaits(c) ==
    /\ MainAt(c, "wait")
    /\ Prints(c, main[c])
    /\ main' = [main EXCEPT ![c] = Waiting(c)]
    /\ UNCHANGED <<lines, asked, server, s2c, conn, msg, argVector, stdout,
                   badRedirectpipe, rcv>>

(* exit, or the end of the input: both directions are shut down. *)
MainExits(c) ==
    /\ MainAt(c, "fgets")
    /\ Calm => Quiet
    /\ conn' = [conn EXCEPT ![c] = "gone"]
    /\ s2c' = [s2c EXCEPT ![c] = <<>>]
    /\ msg' = [msg EXCEPT ![c] = Empty(c)]
    /\ argVector' = [argVector EXCEPT ![c] = Empty(c)]
    /\ stdout' = [stdout EXCEPT ![c] = "tty"]
    /\ badRedirectpipe' = [badRedirectpipe EXCEPT ![c] = FALSE]
    /\ rcv' = [rcv EXCEPT ![c] = Idle(c)]
    /\ UNCHANGED <<lines, asked, server, c2s, main>>

-----------------------------------------------------------------------------
(* The client's receiving thread *)

(* How a received text reads as a command: a forwarded line still has its    *)
(* name and address in front.                                                *)
RcvReceives(c) ==
    /\ RcvAt(c, "recv")
    /\ s2c[c] # <<>>
    /\ LET text == Head(s2c[c]).text
       IN msg' = [msg EXCEPT ![c] = IF text.kind = "text" THEN text ELSE Text("text", text.by)]
    /\ s2c' = [s2c EXCEPT ![c] = Tail(@)]
    /\ rcv' = [rcv EXCEPT ![c].pc = "dup"]
    /\ UNCHANGED <<lines, asked, server, c2s, conn, argVector, stdout, badRedirectpipe, main>>

(* dup2(sock, 1), for both threads. *)
RcvRedirects(c) ==
    /\ RcvAt(c, "dup")
    /\ stdout' = [stdout EXCEPT ![c] = "sock"]
    /\ rcv' = [rcv EXCEPT ![c].pc = "parse"]
    /\ UNCHANGED <<lines, asked, server, c2s, s2c, conn, msg, argVector, badRedirectpipe, main>>

(* The buffer may by now hold a line of the main thread's; one with an       *)
(* address in front is no command.                                           *)
RcvParses(c) ==
    /\ RcvAt(c, "parse")
    /\ LET text == IF msg[c].kind \in {"text", "here"} THEN Text(msg[c].cmd, msg[c].by)
                                                       ELSE Text("text", msg[c].by)
       IN /\ Parsed(c, text)
          /\ rcv' = [rcv EXCEPT ![c].pc = IF Forks(c, text) THEN "fork" ELSE "restore"]
    /\ UNCHANGED <<lines, asked, server, c2s, s2c, conn, msg, stdout, main>>

RcvForks(c) ==
    /\ RcvAt(c, "fork")
    /\ rcv' = [rcv EXCEPT ![c] = Forked(c, @)]
    /\ UNCHANGED <<lines, asked, server, c2s, s2c, conn, msg, argVector, stdout,
                   badRedirectpipe, main>>

RcvWaits(c) ==
    /\ RcvAt(c, "wait")
    /\ Prints(c, rcv[c])
    /\ rcv' = [rcv EXCEPT ![c].pc = "restore"]
    /\ UNCHANGED <<lines, asked, server, s2c, conn, msg, argVector, stdout,
                   badRedirectpipe, main>>

(* Mutant: the descriptor is not given back. *)
RcvRestoresNot(c) ==
    /\ RcvAt(c, "restore")
    /\ msg' = [msg EXCEPT ![c] = Empty(c)]
    /\ rcv' = [rcv EXCEPT ![c] = Idle(c)]
    /\ UNCHANGED <<lines, asked, server, c2s, s2c, conn, argVector, stdout, badRedirectpipe, main>>

(* stdout is given back and the buffer, whosever it is by now, cleared. *)
RcvRestores(c) ==
    /\ RcvAt(c, "restore")
    /\ stdout' = [stdout EXCEPT ![c] = "tty"]
    /\ msg' = [msg EXCEPT ![c] = Empty(c)]
    /\ rcv' = [rcv EXCEPT ![c] = Idle(c)]
    /\ UNCHANGED <<lines, asked, server, c2s, s2c, conn, argVector, badRedirectpipe, main>>

-----------------------------------------------------------------------------

(* A line with an address may name any node of the config file. *)
Types(c) ==
    \E kind \in Kind \ {"text"}, node \in 0 .. Nodes, cmd \in Typed :
        /\ (kind = "node") = (node > 0)
        /\ MainReads(c, kind, node, cmd)

ClientNext(c) ==
    \/ MainWrites(c) \/ MainParses(c) \/ MainForks(c) \/ MainWaits(c)
    \/ RcvReceives(c) \/ RcvRedirects(c) \/ RcvParses(c) \/ RcvForks(c)
    \/ RcvWaits(c) \/ RcvRestores(c)

Next ==
    \/ \E t \in DOMAIN thr : ThreadNext(t)
    \/ \E c \in Client : Accept(c) \/ Types(c) \/ ClientNext(c) \/ MainExits(c)

Spec == Init /\ [][Next]_vars

(* Every thread runs; nothing is assumed of the operators. *)
FairSpec ==
    /\ Spec
    /\ \A t \in 1 .. Cardinality(Client) : WF_vars(ThreadNext(t))
    /\ \A c \in Client : WF_vars(ClientNext(c))

-----------------------------------------------------------------------------

Pc == {"start", "recv", "answer", "answered", "star_answer", "route", "routed", "star",
       "counting", "leaving", "ended"}
Thread == [pc : {"fgets", "write", "recv", "dup", "parse", "fork", "wait", "restore"},
           line : Message, out : {"tty", "sock"}]

TypeOK ==
    /\ lines \in 0 .. MaxLines
    /\ asked \subseteq Client
    /\ client_fds \in Seq(Client)
    /\ client_list \in Seq(Client \cup {Listen})
    /\ Client_sock \in Client \cup {None}
    /\ {SEND_TO_FD, SEND_TO_FD_STAR} \subseteq Client \cup {None}
    /\ thr \in Seq([pc : Pc, sock : Client \cup {None}, counter : 0 .. Cardinality(Client),
                    msg : Message, list : Seq(Client \cup {Listen})])
    /\ c2s \in [Client -> Seq(Message)]
    /\ s2c \in [Client -> Seq([text : Message, via : {"command", "answer"}])]
    /\ conn \in [Client -> {"out", "in", "gone"}]
    /\ msg \in [Client -> Message]
    /\ argVector \in [Client -> Message]
    /\ stdout \in [Client -> {"tty", "sock"}]
    /\ badRedirectpipe \in [Client -> BOOLEAN]
    /\ main \in [Client -> Thread]
    /\ rcv \in [Client -> Thread]

(* Whatever the threads of the server and of the clients do to each other's  *)
(* globals, a client that has not asked anything of another node is sent     *)
(* commands only: nobody else's answer or line (the send of recvmg, line     *)
(* 277).                                                                     *)
UnaskedGetsCommandsOnly ==
    \A c \in Client \ asked :
        \A i \in DOMAIN s2c[c] : s2c[c][i].via = "command"

(* The types, and this. *)
ClusterInv == TypeOK /\ UnaskedGetsCommandsOnly

(* With one question at a time, what the server forwards as an answer is     *)
(* the output of the asker's own command, though SEND_TO_FD is consumed by   *)
(* whichever thread receives next and set only after the command is sent.    *)
AnswerToAsker ==
    \A c \in Client :
        \A i \in DOMAIN s2c[c] :
            s2c[c][i].via = "answer" => s2c[c][i].text.kind = "text" /\ s2c[c][i].text.by = c

(* With one line at a time, output comes to the server only for a question:  *)
(* what a client's own operator runs is printed on the client's terminal,    *)
(* though descriptor 1 is the socket while a remote command runs.            *)
LocalOutputIsLocal ==
    \A c \in Client :
        \A i \in DOMAIN c2s[c] : c2s[c][i].kind = "text" => c2s[c][i].by \in asked

(* With one line or new client at a time, every message of every client is   *)
(* received: each thread got its own socket from the variable they share.    *)
EveryClientServed ==
    \A c \in Client : c2s[c] # <<>> ~> c2s[c] = <<>>

(* With one line or new client at a time, a thread serves the client it was  *)
(* created for (the pthread_create of main, line 391), as it reads the       *)
(* variable they share before the next accept() overwrites it.               *)
OwnThread ==
    \A t \in DOMAIN thr : thr[t].sock # None => thr[t].sock = client_fds[t]

=============================================================================
