--------------------------- MODULE ForkPerClient ---------------------------
(***************************************************************************)
(* The echo server of "src/Fork Per Client": tcp_server_N_clients.c forks  *)
(* a child per connection; the limit on clients is kept by the clients     *)
(* themselves (client.c), with a System V semaphore that the server fills  *)
(* with MAX_CLIENTS tokens when it starts.                                 *)
(***************************************************************************)
EXTENDS Integers, FiniteSets

CONSTANTS
    Clients,        \* runs of client.c
    MAX_CLIENTS,    \* argument of the server
    CleanStarts,    \* TRUE: the server is only started when the last one was
                    \* stopped with Ctrl-C; FALSE: also while one runs, or
                    \* after one was killed
    Killed,         \* the clients that may be killed in a session
    Lines,          \* what a user may type: "text", "exit", "eof" (end of
                    \* input, which client.c does not look for)
    MaxStarts       \* bound on the starts of the server

ASSUME ConstantsAssumption ==
    /\ IsFiniteSet(Clients) /\ Killed \subseteq Clients
    /\ MAX_CLIENTS \in Nat \ {0}
    /\ CleanStarts \in BOOLEAN
    /\ Lines \subseteq {"text", "exit", "eof"}
    /\ MaxStarts \in Nat

NoSem == 0          \* no semaphore has the key

VARIABLES
    semid, semval,  \* the semaphore with key KEY: its id, its value
    starts, up,     \* starts of the server so far; the parent is running
    pc,             \* where each client is
    id,             \* the sem_id each client got from semget()
    conn,           \* each client's connection: "none", "backlog", "served"
                    \* (by a child) or "gone" (the server's end is closed)
    msg, echo       \* the line on its way to the child, and back

server == <<starts, up>>
vars == <<semid, semval, server, pc, id, conn, msg, echo>>

(* The clients that hold a token, and those of them whose session is       *)
(* served by a child.                                                      *)
InSession(c) == pc[c] \in {"prompt", "reading", "leaving"}
Holders == {c \in Clients : InSession(c) /\ id[c] = semid}
Served  == {c \in Clients : InSession(c) /\ conn[c] = "served"}

(* The children inherit the listening socket and never close it.           *)
Listening == up \/ \E c \in Clients : conn[c] = "served"
-----------------------------------------------------------------------------
Init ==
    /\ semid = NoSem /\ semval = 0
    /\ starts = 0 /\ up = FALSE
    /\ pc = [c \in Clients |-> "idle"]
    /\ id = [c \in Clients |-> NoSem]
    /\ conn = [c \in Clients |-> "none"]
    /\ msg = [c \in Clients |-> "none"]
    /\ echo = [c \in Clients |-> "none"]

(* Mutant: the semaphore gets the MAX_CLIENTS + 1 of the failing semctl(). *)
TokensPlusOne == MAX_CLIENTS + 1

(* What semctl(SETALL) and semop() together add: semctl() is given a       *)
(* number for a pointer and fails, so only semop() counts.                 *)
Tokens == MAX_CLIENTS

(* main() of the server up to the accept() loop: semget() with IPC_CREAT,  *)
(* semop(), then bind(), which fails while another process listens, or     *)
(* while old connections linger.                                           *)
StartServer ==
    /\ starts < MaxStarts
    /\ CleanStarts => ~up /\ semid = NoSem
    /\ starts' = starts + 1
    /\ semid' = IF semid = NoSem THEN starts + 1 ELSE semid
    /\ semval' = semval + Tokens
    /\ \/ ~Listening /\ up' = TRUE
       \/ (Listening \/ starts > 0) /\ up' = up
    /\ UNCHANGED <<pc, id, conn, msg, echo>>

(* Mutant: the children do not exit with their parent.                     *)
InterruptParentOnly ==
    /\ up
    /\ up' = FALSE
    /\ semid' = NoSem /\ semval' = 0
    /\ conn' = [c \in Clients |-> IF conn[c] = "backlog" THEN "gone" ELSE conn[c]]
    /\ UNCHANGED <<starts, pc, id, msg, echo>>

(* Ctrl-C: the handler of the parent and of its children closes the        *)
(* sockets and removes the semaphore.                                      *)
Interrupt ==
    /\ up
    /\ up' = FALSE
    /\ semid' = NoSem /\ semval' = 0
    /\ conn' = [c \in Clients |-> IF conn[c] = "none" THEN "none" ELSE "gone"]
    /\ UNCHANGED <<starts, pc, id, msg, echo>>

(* The parent dies without its handler: the children and the semaphore     *)
(* live on; unaccepted connections last as long as somebody listens.       *)
Crash ==
    /\ up /\ ~CleanStarts
    /\ up' = FALSE
    /\ conn' = [c \in Clients |->
                  IF conn[c] = "backlog" /\ \A d \in Clients : conn[d] # "served"
                  THEN "gone" ELSE conn[c]]
    /\ UNCHANGED <<semid, semval, starts, pc, id, msg, echo>>

(* accept() and fork().                                                    *)
Accept(c) ==
    /\ up /\ conn[c] = "backlog"
    /\ conn' = [conn EXCEPT ![c] = "served"]
    /\ UNCHANGED <<semid, semval, server, pc, id, msg, echo>>

(* One turn of the child's loop.  After "exit" the child exits.  (When its *)
(* client is gone read() returns 0 and the child turns for ever: nothing   *)
(* changes.)                                                               *)
Echo(c) ==
    /\ conn[c] = "served" /\ msg[c] # "none"
    /\ echo' = [echo EXCEPT ![c] = msg[c]]
    /\ msg' = [msg EXCEPT ![c] = "none"]
    /\ conn' = [conn EXCEPT ![c] = IF msg[c] = "exit" THEN "gone" ELSE @]
    /\ UNCHANGED <<semid, semval, server, pc, id>>
-----------------------------------------------------------------------------
(* client.c: semget() without IPC_CREAT.                                   *)
Semget(c) ==
    /\ pc[c] = "idle"
    /\ pc' = [pc EXCEPT ![c] = "connect"]
    /\ id' = [id EXCEPT ![c] = semid]
    /\ UNCHANGED <<semid, semval, server, conn, msg, echo>>

Connect(c) ==
    /\ pc[c] = "connect"
    /\ IF Listening
       THEN /\ pc' = [pc EXCEPT ![c] = "semop"]
            /\ conn' = [conn EXCEPT ![c] = "backlog"]
       ELSE /\ pc' = [pc EXCEPT ![c] = "exited"]
            /\ conn' = conn
    /\ UNCHANGED <<semid, semval, server, id, msg, echo>>

Usable(c) == id[c] # NoSem /\ id[c] = semid

(* Mutant: semop() does not wait for a token.                              *)
SemopDownNoWait(c) ==
    /\ pc[c] = "semop" /\ Usable(c)
    /\ semval' = semval - 1
    /\ pc' = [pc EXCEPT ![c] = "prompt"]
    /\ UNCHANGED <<semid, server, id, conn, msg, echo>>

(* semop(-1): wait for a token.                                            *)
SemopDown(c) ==
    /\ pc[c] = "semop" /\ Usable(c)
    /\ semval > 0
    /\ semval' = semval - 1
    /\ pc' = [pc EXCEPT ![c] = "prompt"]
    /\ UNCHANGED <<semid, server, id, conn, msg, echo>>

(* semop(-1) on a semaphore that is not there, or is removed meanwhile:    *)
(* "Maximum No Clients exceeded".                                          *)
SemopFails(c) ==
    /\ pc[c] = "semop" /\ ~Usable(c)
    /\ pc' = [pc EXCEPT ![c] = "exited"]
    /\ UNCHANGED <<semid, semval, server, id, conn, msg, echo>>

(* The user types a line; at end of input nothing is written, and read()   *)
(* waits for an echo that never comes.                                     *)
Say(c, line) ==
    /\ pc[c] = "prompt" /\ conn[c] # "gone"
    /\ pc' = [pc EXCEPT ![c] = "reading"]
    /\ msg' = [msg EXCEPT ![c] = IF line = "eof" THEN "none" ELSE line]
    /\ UNCHANGED <<semid, semval, server, id, conn, echo>>

Read(c) ==
    /\ pc[c] = "reading" /\ echo[c] # "none"
    /\ pc' = [pc EXCEPT ![c] = IF echo[c] = "exit" THEN "leaving" ELSE "prompt"]
    /\ echo' = [echo EXCEPT ![c] = "none"]
    /\ UNCHANGED <<semid, semval, server, id, conn, msg>>

(* Mutants: the client leaves without, or twice, giving its token back.    *)
SemopUpMissing(c) ==
    /\ pc[c] = "leaving"
    /\ pc' = [pc EXCEPT ![c] = "exited"]
    /\ UNCHANGED <<semid, semval, server, id, conn, msg, echo>>
SemopUpTwice(c) ==
    /\ pc[c] = "leaving"
    /\ semval' = IF Usable(c) THEN semval + 2 ELSE semval
    /\ pc' = [pc EXCEPT ![c] = "exited"]
    /\ UNCHANGED <<semid, server, id, conn, msg, echo>>

(* semop(+1), close().                                                     *)
SemopUp(c) ==
    /\ pc[c] = "leaving"
    /\ semval' = IF Usable(c) THEN semval + 1 ELSE semval
    /\ pc' = [pc EXCEPT ![c] = "exited"]
    /\ UNCHANGED <<semid, server, id, conn, msg, echo>>

(* The server's end is closed and nothing is left to read: writing or      *)
(* reading ends the client, which never comes to its semop(+1).            *)
Lost(c) ==
    /\ pc[c] \in {"prompt", "reading"} /\ conn[c] = "gone" /\ echo[c] = "none"
    /\ pc' = [pc EXCEPT ![c] = "exited"]
    /\ UNCHANGED <<semid, semval, server, id, conn, msg, echo>>

(* The client is killed in its session: no SEM_UNDO returns its token.     *)
Kill(c) ==
    /\ c \in Killed /\ pc[c] \in {"prompt", "reading"}
    /\ pc' = [pc EXCEPT ![c] = "exited"]
    /\ UNCHANGED <<semid, semval, server, id, conn, msg, echo>>
-----------------------------------------------------------------------------
ClientStep(c) ==
    \/ Semget(c) \/ Connect(c) \/ SemopDown(c) \/ SemopFails(c)
    \/ Read(c) \/ SemopUp(c) \/ Lost(c)

Next ==
    \/ StartServer \/ Interrupt \/ Crash
    \/ \E c \in Clients :
          \/ Accept(c) \/ Echo(c) \/ ClientStep(c) \/ Kill(c)
          \/ \E line \in Lines : Say(c, line)

Spec == Init /\ [][Next]_vars

(* Processes that can run do run, the kernel wakes the waiters of a        *)
(* semaphore in turn, and no user stays for ever.                          *)
Fairness ==
    \A c \in Clients :
        /\ WF_vars(Accept(c)) /\ WF_vars(Echo(c))
        /\ SF_vars(ClientStep(c)) /\ SF_vars(Say(c, "exit"))
FairSpec == Spec /\ Fairness
-----------------------------------------------------------------------------
(* Each variable keeps the type of what it stands for.                     *)
TypeOK ==
    /\ semid \in Nat /\ semval \in Nat /\ starts \in Nat /\ up \in BOOLEAN
    /\ pc \in [Clients -> {"idle", "connect", "semop", "prompt", "reading",
                           "leaving", "exited"}]
    /\ id \in [Clients -> Nat]
    /\ conn \in [Clients -> {"none", "backlog", "served", "gone"}]
    /\ msg \in [Clients -> {"none", "text", "exit"}]
    /\ echo \in [Clients -> {"none", "text", "exit"}]

(* README: never more than MAX_CLIENTS clients have a session, across      *)
(* kills, failed semop() calls, Ctrl-C and restarts.                       *)
AtMostMaxClients == Cardinality(Served) <= MAX_CLIENTS

(* Tokens come from starts of the server only: those in the semaphore and  *)
(* those clients hold are at most MAX_CLIENTS per start since semget()     *)
(* created it (its id is the number of that start).  Clients that are      *)
(* killed lose theirs; none is ever returned twice.                        *)
TokensAddUp ==
    semid # NoSem =>
        semval + Cardinality(Holders) <= MAX_CLIENTS * (starts - semid + 1)

(* A client whose session a child serves has a token of the semaphore that *)
(* exists now, not of one that an earlier server removed.                  *)
ServedByCurrentToken == \A c \in Served : id[c] = semid /\ semid # NoSem

(* README: a client made to wait gets in (or is told off) once others      *)
(* leave.                                                                  *)
WaitersGetIn == \A c \in Clients : pc[c] = "semop" ~> pc[c] # "semop"

(* Where a token comes from and what it is good for.                       *)
TokenInv ==
    /\ semid <= starts
    /\ semid = NoSem => semval = 0
    /\ CleanStarts /\ semid # NoSem => semid = starts
    /\ \A c \in Clients :
          /\ id[c] <= starts
          /\ InSession(c) => id[c] # NoSem
          /\ InSession(c) \/ pc[c] = "semop" => conn[c] # "none"
          /\ InSession(c) /\ conn[c] # "gone" => id[c] = semid
=============================================================================
