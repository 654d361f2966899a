---------------------------- MODULE MulticastChat ----------------------------
(***************************************************************************)
(* UDPChatter/multicast_chat_client.c: clients that chat over multicast    *)
(* groups.  In each, main reads the user's lines, thread 0 listens to the  *)
(* global group, and every subscription starts one more thread.  main and  *)
(* thread 0 share subject_list and num_groups without the lock.            *)
(*                                                                         *)
(* A subject announced by a header is the header; any other datagram is    *)
(* Text.  addr is that of group 0 from the start, so every datagram goes   *)
(* to group 0 whatever the line asked for; it may be lost on its way to    *)
(* any client.  Linux delivers SIGALRM to main, whose getline is           *)
(* restarted, and nobody sends SIGUSR1: no pselect is interrupted.  tid is *)
(* always num_threads when it is read.                                     *)
(***************************************************************************)
EXTENDS Integers, Sequences, FiniteSets

CONSTANTS
    Client,
    Subject,
    Prefixes,       \* <<s, t>>: the name of s begins that of t
    MAX_SUBJECTS,   \* the length of the tables
    MaxLines,       \* the lines the users type
    Prompt          \* threads get on with their work before main and the user do

ASSUME ClientAssumption == IsFiniteSet(Client)

ASSUME SubjectAssumption == IsFiniteSet(Subject) /\ "empty" \notin Subject /\ "text" \notin Subject

ASSUME PrefixesAssumption == Prefixes \subseteq Subject \X Subject /\ \A s \in Subject : <<s, s>> \in Prefixes

ASSUME BoundsAssumption == MAX_SUBJECTS \in Nat \ {0} /\ MaxLines \in Nat

ASSUME PromptAssumption == Prompt \in BOOLEAN

VARIABLES
    state,          \* "on", "left" or, after exit(1), "died"
    pc,             \* where main is: "getline", "load", "store" or "header"
    loaded,         \* the value of num_groups main is adding 1 to
    lines,          \* lines typed so far
    subscribed,     \* the subjects main has subscribed to, in order
    data,           \* the tid in the place of main's frame the new thread looks at
    subject_list,
    num_groups,
    num_threads,
    thread,         \* of each thread: where it is, its tid, what it has read
    sockets,        \* the entries of recv_sockfd that are set
    inq             \* what the socket of group 0 has received

main == <<state, pc, loaded, lines, subscribed, data>>
shared == <<subject_list, num_groups, num_threads>>
threads == <<thread, sockets, inq>>
vars == <<main, shared, threads>>

Empty == "empty"
Text == "text"
Index == 0 .. MAX_SUBJECTS - 1
Thread == [at : {"none", "starting", "pselect", "load", "store", "copy"},
           tid : Index, loaded : Nat, header : Subject \cup {Empty}]
NoThread == [at |-> "none", tid |-> 0, loaded |-> 0, header |-> Empty]

-----------------------------------------------------------------------------

Init ==
    /\ state = [p \in Client |-> "on"]
    /\ pc = [p \in Client |-> "getline"]
    /\ loaded = [p \in Client |-> 0]
    /\ lines = 0
    /\ subscribed = [p \in Client |-> <<>>]
    /\ data = [p \in Client |-> 0]
    /\ subject_list = [p \in Client |-> [k \in Index |-> Empty]]
    /\ num_groups = [p \in Client |-> 1]
    /\ num_threads = [p \in Client |-> 1]
    /\ thread = [p \in Client |-> [k \in Index |-> IF k = 0 THEN [NoThread EXCEPT !.at = "starting"]
                                                              ELSE NoThread]]
    /\ sockets = [p \in Client |-> {}]
    /\ inq = [p \in Client |-> <<>>]

(* A client ends, with its threads. *)
Ends(p, how) ==
    /\ state' = [state EXCEPT ![p] = how]
    /\ thread' = [thread EXCEPT ![p] = [k \in Index |-> NoThread]]
    /\ sockets' = [sockets EXCEPT ![p] = {}]

(* n datagrams to group 0, the sender's own thread 0 included. *)
sendto(m, n) ==
    \E R \in SUBSET {q \in Client : 0 \in sockets[q]} :
        inq' = [q \in Client |-> IF q \in R THEN inq[q] \o [j \in 1 .. n |-> m] ELSE inq[q]]

-----------------------------------------------------------------------------
(* The lines *)

Started(p) == \A k \in Index : thread[p][k].at # "starting"
AllWait(p) == \A k \in Index : thread[p][k].at \in {"none", "pselect"}

getline(p) ==
    /\ state[p] = "on"
    /\ pc[p] = "getline"
    /\ lines < MaxLines
    /\ Prompt => AllWait(p)
    /\ lines' = lines + 1

(* A line to everyone; also a command with its quotes wrong, and what main   *)
(* sends, time and again, once getline has met the end of the input.         *)
Plain(p) ==
    /\ getline(p)
    /\ sendto(Text, 1)
    /\ UNCHANGED <<state, pc, loaded, subscribed, data, shared, thread, sockets>>

Exit(p) ==
    /\ getline(p)
    /\ Ends(p, "left")
    /\ UNCHANGED <<pc, loaded, subscribed, data, shared, inq>>

(* What main's loop finds, which ends at the first empty entry. *)
KnownToMain(p, s) ==
    \E k \in Index :
        /\ subject_list[p][k] = s
        /\ \A j \in 0 .. k : subject_list[p][j] # Empty

(* !subscribe: a subject that is known is not subscribed to, and the empty   *)
(* message is sent to everyone.                                              *)
SubscribeKnown(p, s) ==
    /\ getline(p)
    /\ KnownToMain(p, s)
    /\ sendto(Text, 1)
    /\ UNCHANGED <<state, pc, loaded, subscribed, data, shared, thread, sockets>>

Subscribe(p, s) ==
    /\ getline(p)
    /\ ~KnownToMain(p, s)
    /\ subject_list' = [subject_list EXCEPT ![p][num_threads[p] - 1] = s]
    /\ subscribed' = [subscribed EXCEPT ![p] = Append(@, s)]
    /\ pc' = [pc EXCEPT ![p] = "load"]
    /\ UNCHANGED <<state, loaded, data, num_groups, num_threads, threads>>

(* num_groups++ is a load and a store. *)
MainLoads(p) ==
    /\ state[p] = "on"
    /\ pc[p] = "load"
    /\ loaded' = [loaded EXCEPT ![p] = num_groups[p]]
    /\ pc' = [pc EXCEPT ![p] = "store"]
    /\ UNCHANGED <<state, lines, subscribed, data, shared, threads>>

(* num_threads++, and the thread is created with tid in data. *)
MainStores(p) ==
    /\ state[p] = "on"
    /\ pc[p] = "store"
    /\ num_groups' = [num_groups EXCEPT ![p] = loaded[p] + 1]
    /\ num_threads' = [num_threads EXCEPT ![p] = @ + 1]
    /\ data' = [data EXCEPT ![p] = num_threads[p]]
    /\ thread' = [thread EXCEPT ![p][num_threads[p]].at = "starting"]
    /\ pc' = [pc EXCEPT ![p] = "header"]
    /\ UNCHANGED <<state, loaded, lines, subscribed, subject_list, sockets, inq>>

(* The header is built in temp, which has the place of data in main's frame  *)
(* and is cleared first; then it is sent.                                    *)
MainAnnounces(p) ==
    /\ state[p] = "on"
    /\ pc[p] = "header"
    /\ Prompt => Started(p)
    /\ data' = [data EXCEPT ![p] = 0]
    /\ sendto(subscribed[p][Len(subscribed[p])], 1)
    /\ pc' = [pc EXCEPT ![p] = "getline"]
    /\ UNCHANGED <<state, loaded, lines, subscribed, shared, thread, sockets>>

(* Mutant: the loop looks at one entry more than there are subscriptions. *)
MatchesOneMore(p, s) == {k \in 0 .. num_threads[p] - 1 : <<subject_list[p][k], s>> \in Prefixes}

(* The entries that are the beginning of the subject of !sendto. *)
Matches(p, s) == {k \in 0 .. num_threads[p] - 2 : <<subject_list[p][k], s>> \in Prefixes}

(* !sendto: a datagram for each entry that matches, through the socket of    *)
(* its thread; without one sendto fails, and the client ends.  With no match *)
(* the empty message is sent.                                                *)
SendTo(p, s) ==
    /\ getline(p)
    /\ LET M == Matches(p, s)
           done == {k \in M : \A j \in M : j <= k => j + 1 \in sockets[p]}
       IN /\ sendto(Text, IF M = {} THEN 1 ELSE Cardinality(done))
          /\ IF done = M THEN UNCHANGED <<state, thread, sockets>> ELSE Ends(p, "died")
    /\ UNCHANGED <<pc, loaded, subscribed, data, shared>>

-----------------------------------------------------------------------------
(* ThreadEntryPoint *)

(* The thread reads its tid, and its socket joins the group of that number.  *)
(* A second thread of tid 0 takes the place of the first one's socket.       *)
ThreadStarts(p, k) ==
    /\ thread[p][k].at = "starting"
    /\ LET tid == IF k = 0 THEN 0 ELSE data[p]
       IN /\ thread' = [thread EXCEPT ![p][k].at = "pselect", ![p][k].tid = tid]
          /\ sockets' = [sockets EXCEPT ![p] = @ \cup {tid}]
          /\ inq' = [inq EXCEPT ![p] = IF tid = 0 THEN <<>> ELSE @]
    /\ UNCHANGED <<main, shared>>

(* Mutant: the entries are read up to the first empty one, as main does. *)
KnownToThreadAsMain(p, s) ==
    \/ subject_list[p][0] = Empty
    \/ s \in {subject_list[p][k] : k \in 0 .. num_groups[p] - 1}

(* What the thread's loop finds, over num_groups entries. *)
KnownToThread(p, s) == s \in {subject_list[p][k] : k \in 0 .. num_groups[p] - 1}

(* A datagram of group 0 is taken: a header nobody knows is to be listed, a  *)
(* text is printed.                                                          *)
Receives(p, k) ==
    /\ thread[p][k].at = "pselect" /\ thread[p][k].tid = 0
    /\ inq[p] # <<>>
    /\ LET m == Head(inq[p])
       IN IF m # Text /\ ~KnownToThread(p, m)
            THEN thread' = [thread EXCEPT ![p][k].at = "load", ![p][k].header = m]
            ELSE UNCHANGED thread
    /\ inq' = [inq EXCEPT ![p] = Tail(@)]
    /\ UNCHANGED <<main, shared, sockets>>

ThreadLoads(p, k) ==
    /\ thread[p][k].at = "load"
    /\ thread' = [thread EXCEPT ![p][k].at = "store", ![p][k].loaded = num_groups[p]]
    /\ UNCHANGED <<main, shared, sockets, inq>>

ThreadStores(p, k) ==
    /\ thread[p][k].at = "store"
    /\ num_groups' = [num_groups EXCEPT ![p] = thread[p][k].loaded + 1]
    /\ thread' = [thread EXCEPT ![p][k].at = "copy", ![p][k].loaded = 0]
    /\ UNCHANGED <<main, subject_list, num_threads, sockets, inq>>

(* Mutant: num_groups is taken for the count of the entries. *)
LearntSlotOneLess(p) == num_groups[p] - 2

(* The entry a header is copied to. *)
LearntSlot(p) == num_groups[p] - 1

ThreadCopies(p, k) ==
    /\ thread[p][k].at = "copy"
    /\ subject_list' = [subject_list EXCEPT ![p][LearntSlot(p)] = thread[p][k].header]
    /\ thread' = [thread EXCEPT ![p][k].at = "pselect", ![p][k].header = Empty]
    /\ UNCHANGED <<main, num_groups, num_threads, sockets, inq>>

-----------------------------------------------------------------------------

ThreadNext(p, k) ==
    ThreadStarts(p, k) \/ Receives(p, k) \/ ThreadLoads(p, k) \/ ThreadStores(p, k) \/ ThreadCopies(p, k)

MainNext(p) == MainLoads(p) \/ MainStores(p) \/ MainAnnounces(p)

UserNext(p) ==
    \/ Plain(p) \/ Exit(p)
    \/ \E s \in Subject : SubscribeKnown(p, s) \/ Subscribe(p, s) \/ SendTo(p, s)

Next == \E p \in Client : UserNext(p) \/ MainNext(p) \/ \E k \in Index : ThreadNext(p, k)

Spec == Init /\ [][Next]_vars

(* Every thread runs; nothing is assumed of the users. *)
FairSpec ==
    /\ Spec
    /\ \A p \in Client :
          WF_vars(MainNext(p)) /\ \A k \in Index : WF_vars(ThreadNext(p, k))

-----------------------------------------------------------------------------

(* In particular num_groups, which no line of the code checks against        *)
(* MAX_SUBJECTS, stays within the table: a subject takes more than one entry *)
(* only if a subscription has been written over what was heard of it.        *)
TypeOK ==
    /\ state \in [Client -> {"on", "left", "died"}]
    /\ pc \in [Client -> {"getline", "load", "store", "header"}]
    /\ loaded \in [Client -> 0 .. MAX_SUBJECTS]
    /\ lines \in 0 .. MaxLines
    /\ \A p \in Client : subscribed[p] \in Seq(Subject)
    /\ data \in [Client -> Index]
    /\ subject_list \in [Client -> [Index -> Subject \cup {Empty}]]
    /\ num_groups \in [Client -> 1 .. MAX_SUBJECTS]
    /\ num_threads \in [Client -> 1 .. MAX_SUBJECTS]
    /\ \A p \in Client : \A k \in Index : thread[p][k] \in Thread
    /\ sockets \in [Client -> SUBSET Index]
    /\ \A p \in Client : inq[p] \in Seq(Subject \cup {Text})

(* The entry before a subscription's thread names the subject, whatever      *)
(* headers thread 0 lists meanwhile, and no subject is subscribed to twice:  *)
(* !sendto finds the entry and, one further, the thread's socket.            *)
SubscriptionsKept ==
    \A p \in Client :
        /\ \A k \in 1 .. Len(subscribed[p]) : subject_list[p][k - 1] = subscribed[p][k]
        /\ \A j, k \in 1 .. Len(subscribed[p]) : subscribed[p][j] = subscribed[p][k] => j = k

(* All of this, which rests on num_groups never falling behind num_threads   *)
(* though either increment may be lost.                                      *)
ChatInv == TypeOK /\ SubscriptionsKept

(* Every thread that listens has a group of its own, that of its number.     *)
OwnGroup ==
    \A p \in Client : \A k \in Index :
        thread[p][k].at \notin {"none", "starting"} => thread[p][k].tid = k

(* No sendto goes through an entry of recv_sockfd that is not set yet, which *)
(* would end the client.                                                     *)
NoneDies == \A p \in Client : state[p] # "died"

(* A header that has been received is listed, or the client ends. *)
HeadersHeard ==
    \A p \in Client : \A s \in Subject :
        inq[p] # <<>> /\ Head(inq[p]) = s ~>
            s \in {subject_list[p][k] : k \in Index} \/ state[p] # "on"

(* What a user subscribes to is subscribed to. *)
SubscribeWorks ==
    [][\A p \in Client : \A s \in Subject :
          SubscribeKnown(p, s) => \E k \in 1 .. Len(subscribed[p]) : subscribed[p][k] = s]_vars

=============================================================================
