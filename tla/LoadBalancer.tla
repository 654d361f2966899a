---------------------------- MODULE LoadBalancer ----------------------------
(***************************************************************************)
(* "src/Load Balancer": a parent forks no_of_children children and sends   *)
(* them SIGUSR1 for ever, in the order a linked queue gives; a child that  *)
(* gets the signal reads a line of the file in its handler and answers     *)
(* with SIGUSR2.                                                           *)
(*                                                                         *)
(* Signals are those of Linux: one bit per process and signal.  A signal   *)
(* is blocked while its handler runs, and a blocked signal stays pending   *)
(* even if it is ignored; setting SIG_IGN drops what is pending.           *)
(***************************************************************************)
EXTENDS Integers

CONSTANTS
    no_of_children,
    FdLimit         \* how many open() calls of one child succeed: the limit
                    \* on open files, as sig_usr1 closes none

ASSUME ChildrenAssumption == no_of_children \in Nat \ {0} /\ FdLimit \in Nat

Children == 1 .. no_of_children
NULL == 0

VARIABLES
    parent,         \* "fork", "build", "run", or "segv": it has crashed
    forked, pushed, \* children forked, and put in the queue, so far
    head,           \* the queue: node i is the one that holds the pid of
    front, rear,    \*   child i
    prev, next,
    st,             \* each child: "none", "starting" (no handler yet),
                    \*   "ready", "entered" (the handler), "busy" (reading),
                    \*   "told" (SIGUSR2 is sent) or "dead"
    pend,           \* SIGUSR1 is pending for the child
    fds,            \* the files the child has opened
    usr2,           \* the child whose SIGUSR2 is pending for the parent
    child_pid,      \* the child sig_usr2 reported last
    lead            \* history: signals sent to each child, counted from the
                    \*   child that got fewest

queue == <<head, front, rear, prev, next>>
child == <<st, pend, fds>>
vars  == <<parent, forked, pushed, queue, child, usr2, child_pid, lead>>
-----------------------------------------------------------------------------
Init ==
    /\ parent = "fork" /\ forked = 0 /\ pushed = 0
    /\ head = NULL
    /\ front = [n \in Children |-> NULL] /\ rear = [n \in Children |-> NULL]
    /\ prev = [n \in Children |-> NULL] /\ next = [n \in Children |-> NULL]
    /\ st = [c \in Children |-> "none"]
    /\ pend = [c \in Children |-> FALSE]
    /\ fds = [c \in Children |-> 0]
    /\ usr2 = NULL /\ child_pid = NULL
    /\ lead = [c \in Children |-> 0]

Fork ==
    /\ parent = "fork"
    /\ forked' = forked + 1
    /\ st' = [st EXCEPT ![forked + 1] = "starting"]
    /\ parent' = IF forked + 1 = no_of_children THEN "build" ELSE "fork"
    /\ UNCHANGED <<pushed, queue, pend, fds, usr2, child_pid, lead>>

create_queue(node) ==
    /\ prev' = [prev EXCEPT ![node] = NULL]
    /\ next' = [next EXCEPT ![node] = NULL]
    /\ rear' = [rear EXCEPT ![node] = node]
    /\ front' = [front EXCEPT ![node] = node]
    /\ head' = node

(* Mutant: the old head is not linked back to the new one.                 *)
pushUnlinked(node) ==
    /\ prev' = [prev EXCEPT ![node] = NULL]
    /\ next' = [next EXCEPT ![node] = head]
    /\ rear' = [rear EXCEPT ![node] = node]
    /\ front' = [front EXCEPT ![node] = front[head]]
    /\ head' = node

push(node) ==
    /\ prev' = [prev EXCEPT ![node] = NULL, ![head] = node]
    /\ next' = [next EXCEPT ![node] = head]
    /\ rear' = [rear EXCEPT ![node] = node]
    /\ front' = [front EXCEPT ![node] = front[head]]
    /\ head' = node

(* One turn of the loop that fills the queue.                              *)
Build ==
    /\ parent = "build"
    /\ IF pushed = 0 THEN create_queue(1) ELSE push(pushed + 1)
    /\ pushed' = pushed + 1
    /\ parent' = IF pushed + 1 = no_of_children THEN "run" ELSE "build"
    /\ UNCHANGED <<forked, child, usr2, child_pid, lead>>

(* Mutant: head->front keeps its value.                                    *)
shift_queueStuck ==
    LET temp == front[head]  temp2 == rear[head]  p == prev[temp]
    IN  /\ next' = [next EXCEPT ![p] = NULL, ![temp] = temp2]
        /\ prev' = [prev EXCEPT ![temp2] = temp]
        /\ rear' = [rear EXCEPT ![head] = temp]
        /\ head' = temp
        /\ UNCHANGED <<front, parent>>

(* The front node becomes the head, as the assignments do it: front and    *)
(* rear are fields of each node, and only those of the old head are        *)
(* updated.  Without a node before the front, prev->next crashes.          *)
shift_queue ==
    LET temp == front[head]  temp2 == rear[head]  p == prev[temp]
    IN  IF p = NULL
        THEN parent' = "segv" /\ UNCHANGED queue
        ELSE /\ next' = [next EXCEPT ![p] = NULL, ![temp] = temp2]
             /\ front' = [front EXCEPT ![head] = p]
             /\ prev' = [prev EXCEPT ![temp2] = temp]
             /\ rear' = [rear EXCEPT ![head] = temp]
             /\ head' = temp
             /\ parent' = parent

(* kill(pid, SIGUSR1): the default action kills a child without a handler. *)
kill(c) ==
    /\ st' = [st EXCEPT ![c] = IF @ = "starting" THEN "dead" ELSE @]
    /\ pend' = [pend EXCEPT ![c] = @ \/ st[c] \notin {"starting", "dead"}]

Counted(c) ==
    LET more == [lead EXCEPT ![c] = @ + 1]
    IN  IF \A d \in Children : more[d] > 0
        THEN [d \in Children |-> more[d] - 1] ELSE more

(* One turn of the parent's endless loop.                                  *)
Signal ==
    /\ parent = "run"
    /\ kill(front[head])
    /\ lead' = Counted(front[head])
    /\ shift_queue
    /\ UNCHANGED <<forked, pushed, fds, usr2, child_pid>>

sig_usr2 ==
    /\ parent = "run" /\ usr2 # NULL
    /\ child_pid' = usr2
    /\ usr2' = NULL
    /\ UNCHANGED <<parent, forked, pushed, queue, child, lead>>
-----------------------------------------------------------------------------
(* A child moves on; pending says whether SIGUSR1 is pending after it.     *)
ChildMoves(c, from, to, pending) ==
    /\ st[c] = from
    /\ st' = [st EXCEPT ![c] = to]
    /\ pend' = [pend EXCEPT ![c] = pending]
    /\ UNCHANGED <<parent, forked, pushed, queue, child_pid, lead>>

(* The child calls signal() for the first time.                            *)
Install(c) ==
    ChildMoves(c, "starting", "ready", FALSE) /\ UNCHANGED <<fds, usr2>>

(* Mutant: SIG_IGN was left in place, and the signal is lost.              *)
EnterIgnored(c) ==
    pend[c] /\ ChildMoves(c, "ready", "ready", FALSE) /\ UNCHANGED <<fds, usr2>>

(* SIGUSR1 is delivered: sig_usr1 begins, with SIGUSR1 blocked.            *)
Enter(c) ==
    pend[c] /\ ChildMoves(c, "ready", "entered", FALSE) /\ UNCHANGED <<fds, usr2>>

(* signal(SIGUSR1, SIG_IGN).                                               *)
Ignore(c) == ChildMoves(c, "entered", "busy", FALSE) /\ UNCHANGED <<fds, usr2>>

(* The line is read and printed; SIGUSR2 to the parent, if it lives.       *)
Tell(c) ==
    /\ fds[c] < FdLimit
    /\ ChildMoves(c, "busy", "told", pend[c])
    /\ fds' = [fds EXCEPT ![c] = @ + 1]
    /\ usr2' = IF usr2 = NULL /\ parent # "segv" THEN c ELSE usr2

(* open() fails: read() returns -1 for ever, which the loop takes for a    *)
(* byte, and op overflows until the child is killed.                       *)
OpenFails(c) ==
    /\ fds[c] = FdLimit
    /\ ChildMoves(c, "busy", "dead", FALSE)
    /\ UNCHANGED <<fds, usr2>>

(* signal(SIGUSR1, sig_usr1); the handler returns and SIGUSR1 is unblocked.*)
Restore(c) == ChildMoves(c, "told", "ready", pend[c]) /\ UNCHANGED <<fds, usr2>>

ChildStep(c) ==
    Install(c) \/ Enter(c) \/ Ignore(c) \/ Tell(c) \/ OpenFails(c) \/ Restore(c)

Next == Fork \/ Build \/ Signal \/ sig_usr2 \/ \E c \in Children : ChildStep(c)

Spec == Init /\ [][Next]_vars

(* The scheduler lets every process run.                                   *)
Fairness ==
    /\ WF_vars(Fork) /\ WF_vars(Build) /\ WF_vars(Signal) /\ WF_vars(sig_usr2)
    /\ \A c \in Children : WF_vars(ChildStep(c))
FairSpec == Spec /\ Fairness
-----------------------------------------------------------------------------
Nodes == Children \cup {NULL}

(* Each variable keeps the type of what it stands for.                     *)
TypeOK ==
    /\ parent \in {"fork", "build", "run", "segv"}
    /\ forked \in 0 .. no_of_children /\ pushed \in 0 .. no_of_children
    /\ head \in Nodes
    /\ front \in [Children -> Nodes] /\ rear \in [Children -> Nodes]
    /\ prev \in [Children -> Nodes] /\ next \in [Children -> Nodes]
    /\ st \in [Children -> {"none", "starting", "ready", "entered", "busy",
                            "told", "dead"}]
    /\ pend \in [Children -> BOOLEAN] /\ fds \in [Children -> 0 .. FdLimit]
    /\ usr2 \in Nodes /\ child_pid \in Nodes
    /\ lead \in [Children -> Nat]

(* The pointers shift_queue follows are never NULL (load_balancer.h:77-83),*)
(* although each shift leaves the front and rear of all nodes but one      *)
(* stale.                                                                  *)
NoSegv ==
    parent # "segv" /\ (parent = "run" => NULL \notin {head, front[head], rear[head]})

(* Why not: a queue being built, or not yet shifted, ends in node 1 and    *)
(* every node but the head has one before it; the first shift closes the   *)
(* prev links into a ring, which later shifts only redirect.               *)
LinkInv ==
    /\ parent = "fork" => forked < no_of_children /\ pushed = 0
    /\ parent = "build" => pushed < no_of_children
    /\ parent = "run" => pushed = no_of_children
    /\ pushed > 0 => head \in 1 .. pushed
    /\ \A n \in 1 .. pushed : front[n] \in Children /\ rear[n] \in Children
Ring == \A n \in Children : prev[n] # NULL
Unshifted ==
    /\ head = pushed /\ front[pushed] = 1 /\ rear[pushed] = pushed
    /\ \A n \in 1 .. pushed - 1 : prev[n] # NULL
QueueInv ==
    /\ LinkInv
    /\ pushed > 0 /\ parent = "build" => Unshifted
    /\ parent = "run" => Unshifted \/ Ring

(* The types and the shape of the queue, which keep each other: a pointer  *)
(* that shift_queue follows (load_balancer.h:77-83) leads to a node.       *)
BalancerInv == TypeOK /\ QueueInv

(* The children share the signals: none is ever more than no_of_children   *)
(* signals ahead of another, for all that the queue's order is.            *)
Balanced == \A c \in Children : lead[c] <= no_of_children

(* README: the queue is shifted in a round robin fashion.                  *)
RoundRobin == \A c \in Children : lead[c] <= 1

(* README: "The child process will run whenever it is free": every child   *)
(* that waits with its handler in place reads the file again.              *)
EveryChildWorks == \A c \in Children : st[c] = "ready" ~> st[c] = "busy"

(* README: "Whenever the process finishes it's cycle, it again enables the *)
(* signal": a child that reads the file comes back to wait.                *)
WorkIsFinished == \A c \in Children : st[c] = "busy" ~> st[c] = "ready"
=============================================================================
