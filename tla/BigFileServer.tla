---------------------------- MODULE BigFileServer ----------------------------
(***************************************************************************)
(* BigFileSystem: the select loop of filenameserver.c and of dataserver.c, *)
(* which differ in a few lines, with the clients of client.c as one such   *)
(* server sees them.  A client types lines to the name server and sends    *)
(* blocks to a data server; its receiving thread reads the name server's   *)
(* answers only.                                                           *)
(*                                                                         *)
(* TCP is that of Linux: a server that sends to a client that has closed,  *)
(* or whose client closes over unread answers, finds its connection reset; *)
(* what was sent before can still be read.  No buffer fills up.  A message *)
(* is what the server reads in it.  The directory tree is only ever        *)
(* reached through its root, which is NULL as init_filetree is not called. *)
(***************************************************************************)
EXTENDS Integers, Sequences, FiniteSets

CONSTANTS
    Client,
    Patient,      \* clients exit only when all they sent has been answered
    MaxSent,      \* the messages a client sends
    MaxTyped      \* the lines typed at the server's console

ASSUME ClientAssumption == IsFiniteSet(Client) /\ "free" \notin Client

ASSUME PatientAssumption == Patient \in BOOLEAN

ASSUME BoundsAssumption == MaxSent \in Nat /\ MaxTyped \in Nat

VARIABLES
    kind,          \* the program: "name" or "data"
    \* the server
    pc,            \* where its loop is; "died" or "ended" when it is gone
    cause,         \* what it died of
    client_fds,    \* the table of connections
    connectcnt,    \* the entries of it that are looked at
    childfd,       \* the connection accepted last
    ready,         \* the connections select reported
    i,             \* the entry the loop is at
    notdone,       \* cleared by the command exit
    stdin,         \* select reported the console
    \* the console and the clients
    typed,         \* lines typed, and not read yet
    commands,      \* lines typed so far
    conn,          \* "out", "backlog", "open" or "closed", for the server
    peer,          \* "open", "fin" or "rst": how the client's side is
    inq,           \* messages the server has to read
    sent,          \* messages each client has sent
    answers        \* answers each client has not read

server == <<pc, cause, client_fds, connectcnt, childfd, ready, i, notdone, stdin>>
console == <<typed, commands>>
clients == <<conn, peer, inq, sent, answers>>
vars == <<kind, server, console, clients>>

Slots == 0 .. Cardinality(Client) - 1
Free == "free"              \* 0, which is also the console's descriptor
Message == {"cp", "illformed", "other"}
Gone == {"died", "ended"}

-----------------------------------------------------------------------------

Init ==
    /\ kind \in {"name", "data"}
    /\ pc = "select" /\ cause = "none"
    /\ client_fds = [s \in Slots |-> Free]
    /\ connectcnt = 0
    /\ childfd = Free
    /\ ready = {} /\ i = 0
    /\ notdone = TRUE /\ stdin = FALSE
    /\ typed = 0 /\ commands = 0
    /\ conn = [c \in Client |-> "out"]
    /\ peer = [c \in Client |-> "open"]
    /\ inq = [c \in Client |-> <<>>]
    /\ sent = [c \in Client |-> 0]
    /\ answers = [c \in Client |-> 0]

Dies(why) == pc' = "died" /\ cause' = why

(* A read finds something: a message, or the end. *)
Readable(c) == inq[c] # <<>> \/ peer[c] # "open"

Watched == {client_fds[s] : s \in {s \in Slots : s < connectcnt}} \ {Free}

Backlog == {c \in Client : conn[c] = "backlog"}

-----------------------------------------------------------------------------
(* The server's loop *)

(* select: the console, the listening socket and the first connectcnt        *)
(* entries; the loop over the entries runs only if nobody is to be accepted. *)
Select ==
    /\ pc = "select"
    /\ ready' = {c \in Watched : Readable(c)}
    /\ stdin' = (typed > 0)
    /\ ready' # {} \/ stdin' \/ Backlog # {}
    /\ pc' = IF stdin' THEN "console" ELSE IF Backlog # {} THEN "accept" ELSE "loop"
    /\ i' = 0
    /\ UNCHANGED <<kind, cause, client_fds, connectcnt, childfd, notdone, console, clients>>

(* count or an unknown command, or exit, which ends the loop after this turn. *)
Console(exit) ==
    /\ pc = "console"
    /\ typed' = typed - 1
    /\ notdone' = ~exit
    /\ pc' = IF Backlog # {} THEN "accept" ELSE "loop"
    /\ UNCHANGED <<kind, cause, client_fds, connectcnt, childfd, ready, i, stdin, commands, clients>>

(* The end of a turn. *)
LoopEnd(done) == IF done THEN "select" ELSE "ended"

(* Mutant: the connection is put into every free entry. *)
FirstFreeAll(s) == client_fds[s] = Free

(* The entry a new connection gets. *)
FirstFree(s) == client_fds[s] = Free /\ \A r \in 0 .. s - 1 : client_fds[r] # Free

(* A client is accepted and entered, and its first message waited for. *)
Accept(c) ==
    /\ pc = "accept"
    /\ c \in Backlog
    /\ conn' = [conn EXCEPT ![c] = "open"]
    /\ connectcnt' = connectcnt + 1
    /\ client_fds' = [s \in Slots |-> IF s <= connectcnt /\ FirstFree(s) THEN c ELSE client_fds[s]]
    /\ childfd' = c
    /\ pc' = "greet"
    /\ UNCHANGED <<kind, cause, ready, i, notdone, stdin, console, peer, inq, sent, answers>>

(* send() to a client: answered, or, once the client has closed, reset; on a *)
(* reset connection SIGPIPE ends the server.                                 *)
Sends(c, next) ==
    \/ /\ peer[c] = "open"
       /\ answers' = [answers EXCEPT ![c] = @ + 1]
       /\ pc' = next
       /\ UNCHANGED <<cause, peer>>
    \/ /\ peer[c] = "fin"
       /\ peer' = [peer EXCEPT ![c] = "rst"]
       /\ pc' = next
       /\ UNCHANGED <<cause, answers>>
    \/ /\ peer[c] = "rst"
       /\ Dies("reset")
       /\ UNCHANGED <<peer, answers>>

(* The blocking recv() on the new connection; a data server makes two, and   *)
(* looks at the first message only.  cp walks the tree from its NULL root, a *)
(* cp or cat with the wrong arguments is not answered, anything else is.     *)
GreetMessage ==
    /\ pc = "greet"
    /\ inq[childfd] # <<>>
    /\ inq' = [inq EXCEPT ![childfd] = Tail(@)]
    /\ \/ /\ kind = "data"
          /\ pc' = "greet2"
          /\ UNCHANGED <<cause, peer, answers>>
       \/ /\ kind = "name"
          /\ Head(inq[childfd]) = "cp"
          /\ Dies("segv")
          /\ UNCHANGED <<peer, answers>>
       \/ /\ kind = "name"
          /\ Head(inq[childfd]) = "illformed"
          /\ pc' = LoopEnd(notdone)
          /\ UNCHANGED <<cause, peer, answers>>
       \/ /\ kind = "name"
          /\ Head(inq[childfd]) = "other"
          /\ Sends(childfd, LoopEnd(notdone))
    /\ UNCHANGED <<kind, client_fds, connectcnt, childfd, ready, i, notdone, stdin, console,
                   conn, sent>>

(* Mutant: an empty message is sent back like any other. *)
GreetNothingEchoed ==
    /\ pc = "greet"
    /\ inq[childfd] = <<>>
    /\ peer[childfd] # "open"
    /\ Sends(childfd, LoopEnd(notdone))
    /\ UNCHANGED <<kind, client_fds, connectcnt, childfd, ready, i, notdone, stdin, console,
                   conn, inq, sent>>

(* recv() returns 0, and nothing is sent back, or an error that ends the server. *)
GreetNothing ==
    /\ pc = "greet"
    /\ inq[childfd] = <<>>
    /\ \/ peer[childfd] = "fin" /\ pc' = LoopEnd(notdone) /\ UNCHANGED cause
       \/ peer[childfd] = "rst" /\ Dies("reset")
    /\ UNCHANGED <<kind, client_fds, connectcnt, childfd, ready, i, notdone, stdin, console, clients>>

GreetSecond ==
    /\ pc = "greet2"
    /\ Readable(childfd)
    /\ \/ /\ inq[childfd] = <<>>
          /\ peer[childfd] = "rst"
          /\ Dies("reset")
          /\ UNCHANGED <<inq, peer, answers>>
       \/ /\ inq[childfd] # <<>> \/ peer[childfd] = "fin"
          /\ inq' = [inq EXCEPT ![childfd] = IF @ = <<>> THEN @ ELSE Tail(@)]
          /\ Sends(childfd, LoopEnd(notdone))
    /\ UNCHANGED <<kind, client_fds, connectcnt, childfd, ready, i, notdone, stdin, console,
                   conn, sent>>

-----------------------------------------------------------------------------
(* The loop over the table *)

LoopRest == <<kind, childfd, ready, notdone, stdin, console>>

Entry == client_fds[i]
InLoop == pc = "loop" /\ i < connectcnt

(* Mutant: the loop ends one entry early. *)
LoopEndsEarly ==
    /\ pc = "loop"
    /\ i >= connectcnt - 1
    /\ pc' = LoopEnd(notdone)
    /\ UNCHANGED <<LoopRest, cause, client_fds, connectcnt, i, clients>>

LoopEnds ==
    /\ pc = "loop"
    /\ i >= connectcnt
    /\ pc' = LoopEnd(notdone)
    /\ UNCHANGED <<LoopRest, cause, client_fds, connectcnt, i, clients>>

(* Nothing to read; an empty entry is descriptor 0, the console, whose line  *)
(* has been read already if there was one.                                   *)
LoopSkips ==
    /\ InLoop
    /\ IF Entry = Free THEN ~stdin ELSE Entry \notin ready
    /\ i' = i + 1
    /\ UNCHANGED <<LoopRest, pc, cause, client_fds, connectcnt, clients>>

(* Then read(0) waits for one more line, and send(0) fails. *)
LoopReadsConsole ==
    /\ InLoop
    /\ Entry = Free /\ stdin
    /\ typed > 0
    /\ typed' = typed - 1
    /\ Dies("console")
    /\ UNCHANGED <<kind, childfd, ready, notdone, stdin, commands, client_fds, connectcnt, i, clients>>

(* A message is sent back. *)
LoopEchoes ==
    /\ InLoop
    /\ Entry \in ready
    /\ inq[Entry] # <<>>
    /\ inq' = [inq EXCEPT ![Entry] = Tail(@)]
    /\ Sends(Entry, "loop")
    /\ i' = i + 1
    /\ UNCHANGED <<LoopRest, client_fds, connectcnt, conn, sent>>

(* Mutant: the name server, too, counts a connection that is closed. *)
AfterCloseCounted == connectcnt - 1

(* connectcnt once a connection is closed: a data server counts down. *)
AfterClose == IF kind = "data" THEN connectcnt - 1 ELSE connectcnt

(* read() returns 0: the connection is closed and its entry freed. *)
LoopCloses ==
    /\ InLoop
    /\ Entry \in ready
    /\ inq[Entry] = <<>>
    /\ peer[Entry] = "fin"
    /\ conn' = [conn EXCEPT ![Entry] = "closed"]
    /\ client_fds' = [client_fds EXCEPT ![i] = Free]
    /\ connectcnt' = AfterClose
    /\ i' = i + 1
    /\ UNCHANGED <<LoopRest, pc, cause, peer, inq, sent, answers>>

(* read() finds the connection reset, an error that ends the server. *)
LoopFails ==
    /\ InLoop
    /\ Entry \in ready
    /\ inq[Entry] = <<>>
    /\ peer[Entry] = "rst"
    /\ Dies("reset")
    /\ UNCHANGED <<LoopRest, client_fds, connectcnt, i, clients>>

-----------------------------------------------------------------------------
(* The console and the clients *)

OperatorTypes ==
    /\ pc \notin Gone
    /\ commands < MaxTyped
    /\ commands' = commands + 1
    /\ typed' = typed + 1
    /\ UNCHANGED <<kind, server, clients>>

Connect(c) ==
    /\ pc \notin Gone
    /\ conn[c] = "out"
    /\ conn' = [conn EXCEPT ![c] = "backlog"]
    /\ UNCHANGED <<kind, server, console, peer, inq, sent, answers>>

Connected(c) == conn[c] \in {"backlog", "open"} /\ peer[c] = "open"

(* main sends a line to the name server, a thread of send_files a block to a *)
(* data server.                                                              *)
Send(c, m) ==
    /\ Connected(c)
    /\ sent[c] < MaxSent
    /\ kind = "data" => m = "other"
    /\ sent' = [sent EXCEPT ![c] = @ + 1]
    /\ inq' = [inq EXCEPT ![c] = Append(@, m)]
    /\ UNCHANGED <<kind, server, console, conn, peer, answers>>

(* The receiving thread reads the name server's answers. *)
recvmessage(c) ==
    /\ kind = "name"
    /\ Connected(c)
    /\ answers[c] > 0
    /\ answers' = [answers EXCEPT ![c] = @ - 1]
    /\ UNCHANGED <<kind, server, console, conn, peer, inq, sent>>

(* All a client sent has been read by the server and sent back. *)
Answered(c) ==
    /\ inq[c] = <<>>
    /\ ~(pc = "greet2" /\ childfd = c)
    /\ kind = "name" => answers[c] = 0

(* The sockets are shut down and closed, over unread answers with a reset. *)
Exit(c) ==
    /\ Connected(c)
    /\ Patient => Answered(c)
    /\ peer' = [peer EXCEPT ![c] = IF answers[c] > 0 THEN "rst" ELSE "fin"]
    /\ UNCHANGED <<kind, server, console, conn, inq, sent, answers>>

-----------------------------------------------------------------------------

ServerNext ==
    \/ Select \/ \E exit \in BOOLEAN : Console(exit)
    \/ \E c \in Client : Accept(c)
    \/ GreetMessage \/ GreetNothing \/ GreetSecond
    \/ LoopEnds \/ LoopSkips \/ LoopReadsConsole \/ LoopEchoes \/ LoopCloses \/ LoopFails

UserActs(c) == Exit(c) \/ \E m \in Message : Send(c, m)

Next ==
    \/ ServerNext
    \/ OperatorTypes
    \/ \E c \in Client : Connect(c) \/ recvmessage(c) \/ UserActs(c)

Spec == Init /\ [][Next]_vars

(* The processes run, and whoever is connected types a line or exits.        *)
FairSpec ==
    /\ Spec
    /\ WF_vars(ServerNext)
    /\ \A c \in Client : WF_vars(recvmessage(c)) /\ WF_vars(UserActs(c))

-----------------------------------------------------------------------------

TypeOK ==
    /\ kind \in {"name", "data"}
    /\ pc \in {"select", "console", "accept", "greet", "greet2", "loop"} \cup Gone
    /\ cause \in {"none", "segv", "reset", "console"}
    /\ client_fds \in [Slots -> Client \cup {Free}]
    /\ connectcnt \in 0 .. Cardinality(Client)
    /\ childfd \in Client \cup {Free}
    /\ ready \subseteq Client
    /\ i \in 0 .. Cardinality(Client)
    /\ notdone \in BOOLEAN /\ stdin \in BOOLEAN
    /\ commands \in 0 .. MaxTyped /\ typed \in 0 .. commands
    /\ conn \in [Client -> {"out", "backlog", "open", "closed"}]
    /\ peer \in [Client -> {"open", "fin", "rst"}]
    /\ inq \in [Client -> Seq(Message)]
    /\ sent \in [Client -> 0 .. MaxSent]
    /\ answers \in [Client -> 0 .. MaxSent]

(* Every open connection, and no other, is in exactly one entry of the       *)
(* table, and a data server counts just the entries in use: so one below     *)
(* connectcnt is free for the next connection in either program.             *)
TableInv ==
    /\ \A c \in Client : (conn[c] = "open") = (\E s \in Slots : client_fds[s] = c)
    /\ \A s, r \in Slots : client_fds[s] = client_fds[r] /\ client_fds[s] # Free => s = r
    /\ kind = "data" => Cardinality({s \in Slots : client_fds[s] # Free}) = connectcnt

(* The types, and the table. *)
ServerInv == TypeOK /\ TableInv

(* The name server looks at every open connection: though its table has      *)
(* holes, none is in an entry that is not looked at.                         *)
AllWatched ==
    kind = "name" => \A c \in Client : conn[c] = "open" => c \in Watched

(* Clients that wait for their answers do not bring the name server down by  *)
(* exiting, whatever else is under way.                                      *)
PatientClientsHarmless ==
    kind = "name" /\ Patient => cause # "reset"

(* Every message to the name server is read, unless it is gone or waits at   *)
(* its console: the blocking recv() on a new connection ends some day.       *)
MessagesRead ==
    \A c \in Client :
        kind = "name" /\ inq[c] # <<>> ~>
            inq[c] = <<>> \/ pc \in Gone \/ (pc = "loop" /\ stdin)

=============================================================================
