------------------------ MODULE MulticastChatProofs ------------------------
(***************************************************************************)
(* Theorems about MulticastChat, for any number of clients, subjects and   *)
(* lines: with threads that are prompt, and fewer lines typed than the     *)
(* tables are long, no unlocked increment of num_groups, lost or not,      *)
(* makes a client write outside subject_list or over a subscription.       *)
(***************************************************************************)
EXTENDS MulticastChat, FunctionTheorems, FiniteSetTheorems, TLAPS

(* What main and thread 0 do between reading and writing num_groups. *)
Adding == {"load", "store"}

(* The types of the tables, without their bounds. *)
Shapes ==
    /\ state \in [Client -> {"on", "left", "died"}]
    /\ pc \in [Client -> {"getline", "load", "store", "header"}]
    /\ loaded \in [Client -> Nat]
    /\ lines \in 0 .. MaxLines
    /\ subscribed \in [Client -> Seq(Subject)]
    /\ data \in [Client -> Index]
    /\ subject_list \in [Client -> [Index -> Subject \cup {Empty}]]
    /\ num_groups \in [Client -> Nat \ {0}]
    /\ num_threads \in [Client -> Nat \ {0}]
    /\ thread \in [Client -> [Index -> Thread]]
    /\ sockets \in [Client -> SUBSET Index]
    /\ inq \in [Client -> Seq(Subject \cup {Text})]

(* num_groups does not fall behind num_threads.  A thread that has loaded  *)
(* it while main subscribes stores a value that counts main's increment,   *)
(* too, or main's comes last.                                              *)
Ahead(p) ==
    /\ num_threads[p] <= num_groups[p]
    /\ pc[p] = "store" => num_threads[p] <= loaded[p]
    /\ \A k \in Index :
          LET t == thread[p][k]
          IN /\ t.at = "store" => num_threads[p] <= t.loaded + 1
             /\ t.at = "store" /\ pc[p] \in Adding => num_threads[p] <= t.loaded
             /\ t.at = "copy" /\ pc[p] \in Adding => num_threads[p] < num_groups[p]

(* The headers client p has yet to read and does not know. *)
Known(p) == {subscribed[p][k] : k \in DOMAIN subscribed[p]} \cup {Text}
Unread(p) == {j \in DOMAIN inq[p] : inq[p][j] \notin Known(p)}

(* The threads of p, and the other clients, that are going to add one. *)
AddingThreads(p) == {k \in Index : thread[p][k].at \in Adding}
Announcing(p) == {q \in Client : q # p /\ pc[q] # "getline"}

(* The increments of num_groups that lines typed so far may still cause. *)
Pending(p) ==
    (IF pc[p] \in Adding THEN 1 ELSE 0) + Cardinality(AddingThreads(p)) + Cardinality(Announcing(p))
        + Cardinality(Unread(p))

(* A line makes num_groups of each client grow by one at most. *)
Bounded(p) ==
    /\ num_groups[p] + Pending(p) <= 1 + lines
    /\ pc[p] = "store" => loaded[p] + Pending(p) <= 1 + lines
    /\ \A k \in Index : thread[p][k].at = "store" => thread[p][k].loaded + Pending(p) <= 1 + lines

(* The subscriptions are the first entries of the list. *)
Listed(p) ==
    /\ Len(subscribed[p]) = IF pc[p] \in Adding THEN num_threads[p] ELSE num_threads[p] - 1
    /\ pc[p] = "header" => Len(subscribed[p]) > 0
    /\ \A k \in 1 .. Len(subscribed[p]) : subject_list[p][k - 1] = subscribed[p][k]
    /\ \A j, k \in 1 .. Len(subscribed[p]) : subscribed[p][j] = subscribed[p][k] => j = k

(* The threads that exist listen, each to the group of its number. *)
Listening(p) ==
    /\ state[p] # "died"
    /\ \A k \in Index :
          /\ thread[p][k].at = "starting" /\ k # 0 => pc[p] = "header" /\ data[p] = k
          /\ state[p] = "on" /\ k < num_threads[p] => thread[p][k].at # "none"
          /\ thread[p][k].at \notin {"none", "starting"} => thread[p][k].tid = k /\ k \in sockets[p]

Inv ==
    /\ Shapes
    /\ \A p \in Client : Ahead(p) /\ Bounded(p) /\ Listed(p) /\ Listening(p)

-----------------------------------------------------------------------------
(* Counting. *)

(* The number of elements of a queue outside B when its first is taken. *)
LEMMA CountTail ==
    ASSUME NEW S, NEW B, NEW q \in Seq(S), q # <<>>
    PROVE  LET A(r) == {j \in DOMAIN r : r[j] \notin B}
           IN /\ IsFiniteSet(A(q)) /\ IsFiniteSet(A(Tail(q)))
              /\ Cardinality(A(q)) \in Nat /\ Cardinality(A(Tail(q))) \in Nat
              /\ Cardinality(A(Tail(q))) <= Cardinality(A(q))
              /\ Head(q) \notin B => Cardinality(A(Tail(q))) + 1 <= Cardinality(A(q))
<1> DEFINE A(r) == {j \in DOMAIN r : r[j] \notin B}
           f == [j \in A(Tail(q)) |-> j + 1]
<1>1. /\ Len(q) \in Nat /\ Len(q) > 0 /\ DOMAIN q = 1 .. Len(q)
      /\ DOMAIN Tail(q) = 1 .. Len(q) - 1 /\ Head(q) = q[1]
      /\ \A j \in 1 .. Len(q) - 1 : Tail(q)[j] = q[j + 1]
  OBVIOUS
<1>2. /\ IsFiniteSet(A(q)) /\ IsFiniteSet(A(Tail(q)))
  <2>1. IsFiniteSet(1 .. Len(q)) /\ IsFiniteSet(1 .. Len(q) - 1)
    BY <1>1, FS_Interval
  <2>2. A(q) \in SUBSET (1 .. Len(q)) /\ A(Tail(q)) \in SUBSET (1 .. Len(q) - 1)
    BY <1>1
  <2> QED
    BY <2>1, <2>2, FS_Subset
<1>3. IsFiniteSet(A(q) \ {1}) /\ Cardinality(A(q)) \in Nat /\ Cardinality(A(Tail(q))) \in Nat
  BY <1>2, FS_RemoveElement, FS_CardinalityType
<1>4. \A j \in A(Tail(q)) : j \in Nat /\ j + 1 \in A(q) \ {1}
  BY <1>1
<1>5. f \in Injection(A(Tail(q)), A(q) \ {1})
  <2>1. f \in [A(Tail(q)) -> A(q) \ {1}]
    BY <1>4
  <2>2. \A a, b \in A(Tail(q)) : f[a] = f[b] => a = b
    <3> HIDE DEF A
    <3> QED
      BY <1>4
  <2> QED
    BY <2>1, <2>2 DEF Injection, IsInjective
<1>6. Cardinality(A(Tail(q))) <= Cardinality(A(q) \ {1})
  <2> HIDE DEF f, A
  <2> QED
    BY <1>3, <1>5, FS_Injection
<1>7. Cardinality(A(q) \ {1}) = IF 1 \in A(q) THEN Cardinality(A(q)) - 1 ELSE Cardinality(A(q))
  BY <1>2, FS_RemoveElement
<1>8. Head(q) \notin B => 1 \in A(q)
  BY <1>1
<1> HIDE DEF A
<1>9. /\ Cardinality(A(Tail(q))) <= Cardinality(A(q))
      /\ Head(q) \notin B => Cardinality(A(Tail(q))) + 1 <= Cardinality(A(q))
  BY <1>3, <1>6, <1>7, <1>8
<1> QED
  BY <1>2, <1>3, <1>9 DEF A

(* The same when n copies of m are put behind. *)
LEMMA CountConcat ==
    ASSUME NEW S, NEW B, NEW q \in Seq(S), NEW m \in S, NEW n \in Nat
    PROVE  LET A(r) == {j \in DOMAIN r : r[j] \notin B}
               c == [j \in 1 .. n |-> m]
           IN /\ q \o c \in Seq(S)
              /\ m \in B => A(q \o c) = A(q)
              /\ n = 1 => A(q \o c) \subseteq A(q) \cup {Len(q) + 1}
<1> DEFINE c == [j \in 1 .. n |-> m]
<1>1. c \in Seq(S) /\ Len(c) = n /\ \A j \in 1 .. n : c[j] = m
  OBVIOUS
<1> HIDE DEF c
<1>2. /\ q \o c \in Seq(S) /\ DOMAIN (q \o c) = 1 .. Len(q) + n
      /\ \A j \in 1 .. Len(q) : (q \o c)[j] = q[j]
      /\ \A j \in 1 .. Len(q) + n : j > Len(q) => (q \o c)[j] = c[j - Len(q)]
      /\ Len(q) \in Nat /\ DOMAIN q = 1 .. Len(q)
  BY <1>1
<1>3. \A j \in 1 .. Len(q) + n : j > Len(q) => (q \o c)[j] = m
  <2> SUFFICES ASSUME NEW j \in 1 .. Len(q) + n, j > Len(q) PROVE (q \o c)[j] = m
    OBVIOUS
  <2>1. j - Len(q) \in 1 .. n
    BY <1>2
  <2> QED
    BY <1>1, <1>2, <2>1
<1>4. ASSUME m \in B PROVE {j \in DOMAIN (q \o c) : (q \o c)[j] \notin B} = {j \in DOMAIN q : q[j] \notin B}
  BY <1>2, <1>3, <1>4
<1>5. ASSUME n = 1
      PROVE  {j \in DOMAIN (q \o c) : (q \o c)[j] \notin B} \subseteq {j \in DOMAIN q : q[j] \notin B} \cup {Len(q) + 1}
  BY <1>2, <1>5
<1> QED
  BY <1>2, <1>4, <1>5 DEF c

(* The tables and the queues are finite, and their lengths are numbers. *)
LEMMA Counts ==
    ASSUME Shapes, NEW p \in Client
    PROVE  /\ IsFiniteSet(AddingThreads(p)) /\ Cardinality(AddingThreads(p)) \in Nat
           /\ IsFiniteSet(Announcing(p)) /\ Cardinality(Announcing(p)) \in Nat
           /\ IsFiniteSet(Unread(p)) /\ Cardinality(Unread(p)) \in Nat
           /\ Pending(p) \in Nat
<1>0. MAX_SUBJECTS \in Nat
  BY BoundsAssumption
<1>1. IsFiniteSet(AddingThreads(p))
  <2>1. IsFiniteSet(Index)
    BY <1>0, FS_Interval DEF Index
  <2>2. AddingThreads(p) \in SUBSET Index
    BY DEF AddingThreads
  <2> QED
    BY <2>1, <2>2, FS_Subset
<1>2. IsFiniteSet(Announcing(p))
  <2>1. Announcing(p) \in SUBSET Client
    BY DEF Announcing
  <2> QED
    BY <2>1, ClientAssumption, FS_Subset
<1>3. IsFiniteSet(Unread(p))
  <2>1. inq[p] \in Seq(Subject \cup {Text})
    BY DEF Shapes
  <2>2. Len(inq[p]) \in Nat /\ DOMAIN inq[p] = 1 .. Len(inq[p])
    BY <2>1
  <2>3. IsFiniteSet(DOMAIN inq[p])
    BY <2>2, FS_Interval
  <2>4. Unread(p) \in SUBSET DOMAIN inq[p]
    BY DEF Unread
  <2> QED
    BY <2>3, <2>4, FS_Subset
<1>4. /\ Cardinality(AddingThreads(p)) \in Nat /\ Cardinality(Announcing(p)) \in Nat
      /\ Cardinality(Unread(p)) \in Nat
  BY <1>1, <1>2, <1>3, FS_CardinalityType
<1> QED
  BY <1>1, <1>2, <1>3, <1>4 DEF Pending

(* What a datagram does to the queues: a text, or one a client knows, adds *)
(* nothing it has to count.                                                *)
LEMMA SendtoFacts ==
    ASSUME Shapes, NEW m \in Subject \cup {Text}, NEW n \in Nat, sendto(m, n),
           m = Text \/ n = 1, UNCHANGED subscribed
    PROVE  /\ inq' \in [Client -> Seq(Subject \cup {Text})]
           /\ \A q \in Client : /\ m \in Known(q) => Cardinality(Unread(q)') = Cardinality(Unread(q))
                                /\ Cardinality(Unread(q)') \in Nat
                                /\ Cardinality(Unread(q)') <= Cardinality(Unread(q)) + 1
<1> DEFINE S == Subject \cup {Text}
           c == [j \in 1 .. n |-> m]
<1>1. PICK R \in SUBSET {q \in Client : 0 \in sockets[q]} :
         inq' = [q \in Client |-> IF q \in R THEN inq[q] \o c ELSE inq[q]]
  BY DEF sendto
<1>2. \A q \in Client : inq[q] \in Seq(S) /\ Text \in Known(q)
  BY DEF Shapes, Known
<1>3. \A q \in Client : inq[q] \o c \in Seq(S)
  BY <1>2, CountConcat
<1>4. inq' \in [Client -> Seq(S)]
  <2> HIDE DEF c, S
  <2> QED
    BY <1>1, <1>2, <1>3
<1>5. ASSUME NEW q \in Client
      PROVE  /\ m \in Known(q) => Cardinality(Unread(q)') = Cardinality(Unread(q))
             /\ Cardinality(Unread(q)') \in Nat
             /\ Cardinality(Unread(q)') <= Cardinality(Unread(q)) + 1
  <2>0. /\ Known(q)' = Known(q) /\ IsFiniteSet(Unread(q)) /\ Cardinality(Unread(q)) \in Nat
    BY Counts DEF Known
  <2>1. CASE inq'[q] = inq[q]
    <3>1. Unread(q)' = Unread(q)
      BY <2>0, <2>1 DEF Unread
    <3> QED
      BY <2>0, <3>1
  <2>2. CASE inq'[q] = inq[q] \o c
    <3>1. CASE m \in Known(q)
      <4>1. Unread(q)' = Unread(q)
        BY <1>2, <2>0, <2>2, <3>1, CountConcat DEF Unread
      <4> QED
        BY <2>0, <4>1
    <3>2. CASE m \notin Known(q)
      <4>1. n = 1
        BY <1>2, <3>2
      <4>2. Unread(q)' \in SUBSET (Unread(q) \cup {Len(inq[q]) + 1})
        BY <1>2, <2>0, <2>2, <4>1, CountConcat DEF Unread
      <4>3. /\ IsFiniteSet(Unread(q) \cup {Len(inq[q]) + 1})
            /\ Cardinality(Unread(q) \cup {Len(inq[q]) + 1}) \in {Cardinality(Unread(q)), Cardinality(Unread(q)) + 1}
        BY <2>0, FS_AddElement
      <4>4. /\ IsFiniteSet(Unread(q)') /\ Cardinality(Unread(q)') \in Nat
            /\ Cardinality(Unread(q)') <= Cardinality(Unread(q) \cup {Len(inq[q]) + 1})
        BY <4>2, <4>3, FS_Subset, FS_CardinalityType
      <4> QED
        BY <2>0, <3>2, <4>3, <4>4
    <3> QED
      BY <3>1, <3>2
  <2> QED
    BY <1>1, <2>1, <2>2
<1> QED
  BY <1>4, <1>5

-----------------------------------------------------------------------------
(* Clients that a step is not about. *)

(* All of client q but what it has received. *)
Keeps(q) ==
    /\ state'[q] = state[q] /\ pc'[q] = pc[q] /\ loaded'[q] = loaded[q]
    /\ subscribed'[q] = subscribed[q] /\ data'[q] = data[q]
    /\ subject_list'[q] = subject_list[q] /\ num_groups'[q] = num_groups[q]
    /\ num_threads'[q] = num_threads[q] /\ thread'[q] = thread[q] /\ sockets'[q] = sockets[q]

Good(q) == Ahead(q) /\ Bounded(q) /\ Listed(q) /\ Listening(q)

(* They stay right if a line stands for what they may still have to count. *)
LEMMA KeptGood ==
    ASSUME Inv, Shapes', NEW q \in Client, Keeps(q),
           Cardinality(Announcing(q)') + Cardinality(Unread(q)') + lines
              <= Cardinality(Announcing(q)) + Cardinality(Unread(q)) + lines'
    PROVE  Good(q)'
<1>0. Ahead(q) /\ Bounded(q) /\ Listed(q) /\ Listening(q) /\ Shapes
  BY DEF Inv
<1>1. AddingThreads(q)' = AddingThreads(q)
  BY DEF AddingThreads, Keeps
<1>2. /\ Cardinality(Announcing(q)') \in Nat /\ Cardinality(Unread(q)') \in Nat
      /\ IsFiniteSet(Announcing(q)') /\ IsFiniteSet(Unread(q)')
  <2>1. inq'[q] \in Seq(Subject \cup {Text}) /\ Len(inq'[q]) \in Nat /\ DOMAIN inq'[q] = 1 .. Len(inq'[q])
    BY DEF Shapes
  <2>2. IsFiniteSet(DOMAIN inq'[q])
    BY <2>1, FS_Interval
  <2>3. Unread(q)' \in SUBSET DOMAIN inq'[q] /\ Announcing(q)' \in SUBSET Client
    BY DEF Unread, Announcing
  <2> QED
    BY <2>2, <2>3, ClientAssumption, FS_Subset, FS_CardinalityType
<1>3. /\ Pending(q)' + lines <= Pending(q) + lines' /\ Pending(q)' \in Nat /\ Pending(q) \in Nat
      /\ lines \in Nat /\ lines' \in Nat
  <2>1. lines \in Nat /\ lines' \in Nat
    BY <1>0, BoundsAssumption DEF Shapes
  <2>2. /\ Cardinality(Announcing(q)) \in Nat /\ Cardinality(Unread(q)) \in Nat
        /\ Cardinality(AddingThreads(q)) \in Nat
    BY <1>0, Counts
  <2> QED
    BY <1>1, <1>2, <2>1, <2>2 DEF Pending, Keeps
<1>4. Ahead(q)'
  BY <1>0 DEF Ahead, Keeps
<1>5. Listed(q)' /\ Listening(q)'
  BY <1>0 DEF Listed, Listening, Keeps
<1>6. Bounded(q)'
  <2>1. \A x \in Nat : x + Pending(q) <= 1 + lines => x + Pending(q)' <= 1 + lines'
    BY <1>3
  <2>2. /\ num_groups[q] \in Nat /\ loaded[q] \in Nat
        /\ \A k \in Index : thread[q][k].loaded \in Nat
    BY <1>0 DEF Shapes, Thread
  <2> QED
    BY <1>0, <2>1, <2>2 DEF Bounded, Keeps
<1> QED
  BY <1>4, <1>5, <1>6 DEF Good

(* A step of p that types nothing and announces nothing is not seen. *)
LEMMA OthersKept ==
    ASSUME Inv, Shapes', NEW p \in Client, lines' = lines,
           \A q \in Client \ {p} : Keeps(q) /\ inq'[q] = inq[q],
           pc'[p] = "getline" <=> pc[p] = "getline"
    PROVE  \A q \in Client \ {p} : Good(q)'
<1> SUFFICES ASSUME NEW q \in Client \ {p} PROVE Good(q)'
  OBVIOUS
<1>1. Announcing(q)' = Announcing(q)
  BY DEF Announcing, Keeps
<1>2. Unread(q)' = Unread(q)
  BY DEF Unread, Known, Keeps
<1>3. /\ Cardinality(Announcing(q)) \in Nat /\ Cardinality(Unread(q)) \in Nat
  BY Counts DEF Inv
<1>4. lines \in Nat
  BY BoundsAssumption DEF Inv, Shapes
<1> QED
  BY <1>1, <1>2, <1>3, <1>4, KeptGood

(* What the tables look like in numbers, for tables longer than the lines. *)
LEMMA InTables ==
    ASSUME Inv, MaxLines < MAX_SUBJECTS, NEW p \in Client
    PROVE  /\ num_threads[p] \in Nat /\ num_groups[p] \in Nat /\ lines \in Nat /\ Pending(p) \in Nat
           /\ MAX_SUBJECTS \in Nat
           /\ 1 <= num_threads[p] /\ num_threads[p] <= num_groups[p]
           /\ num_groups[p] + Pending(p) <= 1 + lines /\ num_groups[p] <= MAX_SUBJECTS
           /\ pc[p] \in Adding => num_groups[p] < MAX_SUBJECTS /\ Pending(p) >= 1
           /\ lines < MaxLines => num_groups[p] < MAX_SUBJECTS
<1>1. /\ num_threads[p] \in Nat \ {0} /\ num_groups[p] \in Nat \ {0} /\ lines \in 0 .. MaxLines
      /\ MaxLines \in Nat /\ MAX_SUBJECTS \in Nat
  BY BoundsAssumption DEF Inv, Shapes
<1>2. /\ num_threads[p] <= num_groups[p]
      /\ num_groups[p] + Pending(p) <= 1 + lines
  BY DEF Inv, Ahead, Bounded
<1>3. Pending(p) \in Nat /\ (pc[p] \in Adding => Pending(p) >= 1)
  BY Counts DEF Inv, Pending
<1> QED
  BY <1>1, <1>2, <1>3

(* A thread stays one when it goes on or takes note of something. *)
LEMMA ThreadRecord ==
    ASSUME NEW t \in Thread
    PROVE  /\ t.loaded \in Nat /\ t.header \in Subject \cup {Empty} /\ t.tid \in Index
           /\ \A a \in {"none", "starting", "pselect", "load", "store", "copy"} :
                 /\ [t EXCEPT !.at = a] \in Thread
                 /\ [t EXCEPT !.at = a].at = a /\ [t EXCEPT !.at = a].tid = t.tid
                 /\ [t EXCEPT !.at = a].loaded = t.loaded
                 /\ [t EXCEPT !.at = a].header = t.header
BY DEF Thread

-----------------------------------------------------------------------------
(* main *)

(* main reads num_groups. *)
LEMMA MainLoadsStep ==
    ASSUME Inv, NEW p \in Client, MainLoads(p)
    PROVE  Inv'
<1>0. Shapes /\ Ahead(p) /\ Bounded(p) /\ Listed(p) /\ Listening(p)
  BY DEF Inv
<1>1. /\ pc[p] = "load" /\ pc'[p] = "store" /\ loaded'[p] = num_groups[p]
      /\ \A q \in Client \ {p} : pc'[q] = pc[q] /\ loaded'[q] = loaded[q]
      /\ UNCHANGED <<state, lines, subscribed, data, subject_list, num_groups, num_threads, thread,
                     sockets, inq>>
  BY <1>0 DEF MainLoads, Shapes, shared, threads
<1>2. Shapes'
  <2>1. pc' \in [Client -> {"getline", "load", "store", "header"}]
    BY <1>0 DEF MainLoads, Shapes
  <2>2. loaded' \in [Client -> Nat]
    BY <1>0 DEF MainLoads, Shapes
  <2> QED
    BY <1>0, <1>1, <2>1, <2>2 DEF Shapes
<1>3. \A q \in Client \ {p} : Good(q)'
  BY <1>1, <1>2, OthersKept DEF Keeps
<1>4. Pending(p)' = Pending(p)
  <2>1. AddingThreads(p)' = AddingThreads(p) /\ Unread(p)' = Unread(p)
    BY <1>1 DEF AddingThreads, Unread, Known
  <2>2. Announcing(p)' = Announcing(p)
    BY <1>1 DEF Announcing
  <2> QED
    BY <1>1, <2>1, <2>2 DEF Pending, Adding
<1>5. Ahead(p)' /\ Bounded(p)'
  BY <1>0, <1>1, <1>4 DEF Ahead, Bounded, Adding
<1>6. Listed(p)' /\ Listening(p)'
  BY <1>0, <1>1 DEF Listed, Listening, Adding
<1> QED
  BY <1>2, <1>3, <1>5, <1>6 DEF Inv, Good

(* main stores what it read plus one and starts the thread. *)
LEMMA MainStoresStep ==
    ASSUME Inv, MaxLines < MAX_SUBJECTS, NEW p \in Client, MainStores(p)
    PROVE  Inv'
<1>0. Shapes /\ Ahead(p) /\ Bounded(p) /\ Listed(p) /\ Listening(p)
  BY DEF Inv
<1> DEFINE n == num_threads[p]
<1>1. pc[p] = "store" /\ n \in Nat /\ n >= 1 /\ n < MAX_SUBJECTS /\ n \in Index /\ loaded[p] \in Nat
      /\ n <= loaded[p]
  <2>1. pc[p] = "store" /\ loaded[p] \in Nat
    BY <1>0 DEF MainStores, Shapes
  <2> QED
    BY <1>0, <2>1, InTables DEF Index, Adding, Ahead
<1>2. /\ pc' = [pc EXCEPT ![p] = "header"]
      /\ num_groups' = [num_groups EXCEPT ![p] = loaded[p] + 1]
      /\ num_threads' = [num_threads EXCEPT ![p] = n + 1]
      /\ data' = [data EXCEPT ![p] = n]
      /\ thread' = [thread EXCEPT ![p] = [thread[p] EXCEPT ![n] = [thread[p][n] EXCEPT !.at = "starting"]]]
      /\ UNCHANGED <<state, loaded, lines, subscribed, subject_list, sockets, inq>>
  BY DEF MainStores
<1>3. /\ pc'[p] = "header" /\ num_groups'[p] = loaded[p] + 1 /\ num_threads'[p] = n + 1 /\ data'[p] = n
      /\ \A q \in Client \ {p} : /\ pc'[q] = pc[q] /\ num_groups'[q] = num_groups[q]
                                 /\ num_threads'[q] = num_threads[q] /\ data'[q] = data[q]
  BY <1>0, <1>2 DEF Shapes
<1>4. /\ [thread[p][n] EXCEPT !.at = "starting"] \in Thread
      /\ [thread[p][n] EXCEPT !.at = "starting"].at = "starting"
  <2>1. thread[p][n] \in Thread
    BY <1>0, <1>1 DEF Shapes
  <2> QED
    BY <2>1, ThreadRecord
<1>5. /\ thread' \in [Client -> [Index -> Thread]]
      /\ thread'[p][n].at = "starting" /\ \A k \in Index \ {n} : thread'[p][k] = thread[p][k]
      /\ \A q \in Client \ {p} : thread'[q] = thread[q]
  BY <1>0, <1>1, <1>2, <1>4 DEF Shapes
<1>6. Shapes'
  <2>1. /\ pc' \in [Client -> {"getline", "load", "store", "header"}] /\ data' \in [Client -> Index]
        /\ num_groups' \in [Client -> Nat \ {0}] /\ num_threads' \in [Client -> Nat \ {0}]
    BY <1>0, <1>1, <1>2 DEF Shapes
  <2> QED
    BY <1>0, <1>2, <1>5, <2>1 DEF Shapes
<1>7. \A q \in Client \ {p} : Good(q)'
  BY <1>1, <1>2, <1>3, <1>5, <1>6, OthersKept DEF Keeps
<1> HIDE DEF n
<1>8. Pending(p)' + 1 <= Pending(p) /\ Pending(p)' \in Nat /\ Pending(p) \in Nat
  <2>1. AddingThreads(p)' \in SUBSET AddingThreads(p)
    BY <1>1, <1>5 DEF AddingThreads, Adding
  <2>2. Unread(p)' = Unread(p) /\ Announcing(p)' = Announcing(p)
    BY <1>2, <1>3 DEF Unread, Known, Announcing
  <2>3. /\ Cardinality(AddingThreads(p)') <= Cardinality(AddingThreads(p))
        /\ Cardinality(AddingThreads(p)') \in Nat
    BY <1>0, <2>1, Counts, FS_Subset, FS_CardinalityType
  <2>4. /\ Cardinality(AddingThreads(p)) \in Nat /\ Cardinality(Announcing(p)) \in Nat
        /\ Cardinality(Unread(p)) \in Nat
    BY <1>0, Counts
  <2> QED
    BY <1>1, <1>3, <2>2, <2>3, <2>4 DEF Pending, Adding
<1>9. \A k \in Index : thread'[p][k].at \in {"store", "copy"} => k # n
  BY <1>5
<1>10. Ahead(p)'
  <2>1. \A k \in Index \ {n} : thread[p][k].loaded \in Nat
    BY <1>0 DEF Shapes, Thread
  <2> QED
    BY <1>0, <1>1, <1>3, <1>5, <1>9, <2>1 DEF Ahead, Adding, n
<1>11. Bounded(p)'
  <2>1. lines \in Nat /\ \A k \in Index : thread[p][k].loaded \in Nat
    BY <1>0, BoundsAssumption DEF Shapes, Thread
  <2>2. loaded[p] + Pending(p) <= 1 + lines
    BY <1>0, <1>1 DEF Bounded
  <2>3. num_groups'[p] + Pending(p)' <= 1 + lines'
    BY <1>1, <1>2, <1>3, <1>8, <2>1, <2>2
  <2>4. ASSUME NEW k \in Index, thread'[p][k].at = "store" PROVE thread'[p][k].loaded + Pending(p)' <= 1 + lines'
    <3>1. thread'[p][k] = thread[p][k] /\ thread[p][k].loaded + Pending(p) <= 1 + lines
      BY <1>0, <1>5, <1>9, <2>4 DEF Bounded
    <3> QED
      BY <1>2, <1>8, <2>1, <3>1
  <2> QED
    BY <1>3, <2>3, <2>4 DEF Bounded
<1>12. Listed(p)'
  BY <1>0, <1>1, <1>2, <1>3 DEF Listed, Adding, n
<1>13. Listening(p)'
  <2>1. \A k \in Index : thread[p][k].at = "starting" => k = 0
    BY <1>0, <1>1 DEF Listening
  <2>2. \A k \in Index \ {n} : k < num_threads'[p] => k < n
    BY <1>1, <1>3, BoundsAssumption DEF Index
  <2> QED
    BY <1>0, <1>1, <1>2, <1>3, <1>5, <2>1, <2>2 DEF Listening, n
<1> QED
  BY <1>6, <1>7, <1>10, <1>11, <1>12, <1>13 DEF Inv, Good

(* main announces the subject: for the others one header more to read,     *)
(* for itself one it knows.                                                *)
LEMMA MainAnnouncesStep ==
    ASSUME Inv, Prompt, NEW p \in Client, MainAnnounces(p)
    PROVE  Inv'
<1>0. Shapes /\ Ahead(p) /\ Bounded(p) /\ Listed(p) /\ Listening(p)
  BY DEF Inv
<1>1. /\ pc[p] = "header" /\ Started(p)
      /\ pc' = [pc EXCEPT ![p] = "getline"] /\ data' = [data EXCEPT ![p] = 0]
      /\ sendto(subscribed[p][Len(subscribed[p])], 1)
      /\ UNCHANGED <<state, loaded, lines, subscribed, subject_list, num_groups, num_threads, thread,
                     sockets>>
  BY DEF MainAnnounces, shared
<1>2. subscribed[p] \in Seq(Subject) /\ Len(subscribed[p]) \in DOMAIN subscribed[p]
  BY <1>0, <1>1 DEF Shapes, Listed
<1> PICK m : m = subscribed[p][Len(subscribed[p])]
  OBVIOUS
<1>3. m \in Subject /\ m \in Known(p)
  BY <1>2 DEF Known
<1>4. /\ inq' \in [Client -> Seq(Subject \cup {Text})]
      /\ \A q \in Client : /\ m \in Known(q) => Cardinality(Unread(q)') = Cardinality(Unread(q))
                           /\ Cardinality(Unread(q)') \in Nat
                           /\ Cardinality(Unread(q)') <= Cardinality(Unread(q)) + 1
  BY <1>0, <1>1, <1>3, SendtoFacts
<1>5. /\ pc'[p] = "getline" /\ data'[p] = 0 /\ 0 \in Index
      /\ \A q \in Client \ {p} : pc'[q] = pc[q] /\ data'[q] = data[q]
  BY <1>0, <1>1, BoundsAssumption DEF Shapes, Index
<1>6. Shapes'
  <2>1. pc' \in [Client -> {"getline", "load", "store", "header"}] /\ data' \in [Client -> Index]
    BY <1>0, <1>1, <1>5 DEF Shapes
  <2> QED
    BY <1>0, <1>1, <1>4, <2>1 DEF Shapes
<1>7. ASSUME NEW q \in Client \ {p} PROVE Good(q)'
  <2>1. Announcing(q)' = Announcing(q) \ {p} /\ p \in Announcing(q)
    BY <1>1, <1>5 DEF Announcing
  <2>2. /\ Cardinality(Announcing(q)) \in Nat /\ Cardinality(Unread(q)) \in Nat
        /\ Cardinality(Announcing(q)') = Cardinality(Announcing(q)) - 1
    BY <1>0, <2>1, Counts, FS_RemoveElement
  <2>3. /\ lines \in Nat /\ lines' = lines
        /\ Cardinality(Unread(q)') \in Nat /\ Cardinality(Unread(q)') <= Cardinality(Unread(q)) + 1
    BY <1>0, <1>1, <1>4, BoundsAssumption DEF Shapes
  <2>4. Keeps(q)
    BY <1>1, <1>5 DEF Keeps
  <2> QED
    BY <1>6, <2>2, <2>3, <2>4, KeptGood
<1>8. Pending(p)' = Pending(p)
  <2>1. Announcing(p)' = Announcing(p) /\ AddingThreads(p)' = AddingThreads(p)
    BY <1>1, <1>5 DEF Announcing, AddingThreads
  <2>2. Cardinality(Unread(p)') = Cardinality(Unread(p))
    BY <1>3, <1>4
  <2> QED
    BY <1>1, <1>5, <2>1, <2>2 DEF Pending, Adding
<1>9. Ahead(p)' /\ Bounded(p)'
  BY <1>0, <1>1, <1>5, <1>8 DEF Ahead, Bounded, Adding
<1>10. Listed(p)'
  BY <1>0, <1>1, <1>5 DEF Listed, Adding
<1>11. Listening(p)'
  BY <1>0, <1>1, <1>5 DEF Listening, Started
<1> QED
  BY <1>6, <1>7, <1>9, <1>10, <1>11 DEF Inv, Good

-----------------------------------------------------------------------------
(* The lines *)

(* A line that only sends texts. *)
LEMMA TextStep ==
    ASSUME Inv, NEW n \in Nat, sendto(Text, n), lines' = lines + 1, lines < MaxLines,
           UNCHANGED <<state, pc, loaded, subscribed, data, subject_list, num_groups, num_threads,
                       thread, sockets>>
    PROVE  Inv'
<1>0. Shapes /\ lines \in Nat /\ MaxLines \in Nat
  BY BoundsAssumption DEF Inv, Shapes
<1>1. /\ inq' \in [Client -> Seq(Subject \cup {Text})]
      /\ \A q \in Client : Cardinality(Unread(q)') = Cardinality(Unread(q))
  <2>1. \A q \in Client : Text \in Known(q)
    BY DEF Known
  <2> QED
    BY <1>0, <2>1, SendtoFacts
<1>2. Shapes'
  BY <1>0, <1>1 DEF Shapes
<1>3. ASSUME NEW q \in Client PROVE Good(q)'
  <2>1. Announcing(q)' = Announcing(q) /\ Keeps(q)
    BY DEF Announcing, Keeps
  <2>2. Cardinality(Announcing(q)) \in Nat /\ Cardinality(Unread(q)) \in Nat
    BY <1>0, Counts
  <2> QED
    BY <1>0, <1>1, <1>2, <2>1, <2>2, KeptGood
<1> QED
  BY <1>2, <1>3 DEF Inv, Good

(* A client that leaves. *)
LEMMA ExitStep ==
    ASSUME Inv, NEW p \in Client, Exit(p)
    PROVE  Inv'
<1>0. Shapes /\ Ahead(p) /\ Bounded(p) /\ Listed(p) /\ Listening(p) /\ lines \in Nat /\ MaxLines \in Nat
  BY BoundsAssumption DEF Inv, Shapes
<1>1. /\ pc[p] = "getline" /\ lines < MaxLines /\ lines' = lines + 1
      /\ state' = [state EXCEPT ![p] = "left"]
      /\ thread' = [thread EXCEPT ![p] = [k \in Index |-> NoThread]]
      /\ sockets' = [sockets EXCEPT ![p] = {}]
      /\ UNCHANGED <<pc, loaded, subscribed, data, subject_list, num_groups, num_threads, inq>>
  BY DEF Exit, getline, Ends, shared
<1>2. NoThread \in Thread /\ NoThread.at = "none"
  BY BoundsAssumption DEF NoThread, Thread, Index
<1>3. /\ thread' \in [Client -> [Index -> Thread]] /\ \A k \in Index : thread'[p][k].at = "none"
      /\ state'[p] = "left"
      /\ \A q \in Client \ {p} : thread'[q] = thread[q] /\ state'[q] = state[q] /\ sockets'[q] = sockets[q]
  BY <1>0, <1>1, <1>2 DEF Shapes
<1>4. Shapes'
  <2>1. state' \in [Client -> {"on", "left", "died"}] /\ sockets' \in [Client -> SUBSET Index]
    BY <1>0, <1>1 DEF Shapes
  <2> QED
    BY <1>0, <1>1, <1>3, <2>1 DEF Shapes
<1>5. \A q \in Client : Announcing(q)' = Announcing(q) /\ Unread(q)' = Unread(q)
  BY <1>1 DEF Announcing, Unread, Known
<1>6. ASSUME NEW q \in Client \ {p} PROVE Good(q)'
  <2>1. Cardinality(Announcing(q)) \in Nat /\ Cardinality(Unread(q)) \in Nat
    BY <1>0, Counts
  <2>2. Keeps(q)
    BY <1>1, <1>3 DEF Keeps
  <2> QED
    BY <1>0, <1>1, <1>4, <1>5, <2>1, <2>2, KeptGood
<1>7. Pending(p)' <= Pending(p) /\ Pending(p)' \in Nat /\ Pending(p) \in Nat
  <2>1. AddingThreads(p)' = {}
    BY <1>3 DEF AddingThreads, Adding
  <2>2. /\ Cardinality(AddingThreads(p)) \in Nat /\ Cardinality(Announcing(p)) \in Nat
        /\ Cardinality(Unread(p)) \in Nat
    BY <1>0, Counts
  <2> QED
    BY <1>1, <1>5, <2>1, <2>2, FS_EmptySet DEF Pending, Adding
<1>8. Ahead(p)'
  BY <1>0, <1>1, <1>3 DEF Ahead
<1>9. Bounded(p)'
  <2>1. num_groups[p] \in Nat /\ num_groups[p] + Pending(p) <= 1 + lines
    BY <1>0 DEF Bounded, Shapes
  <2> QED
    BY <1>0, <1>1, <1>3, <1>7, <2>1 DEF Bounded
<1>10. Listed(p)' /\ Listening(p)'
  BY <1>0, <1>1, <1>3 DEF Listed, Listening
<1> QED
  BY <1>4, <1>6, <1>8, <1>9, <1>10 DEF Inv, Good

(* A subscription is entered behind the others and has not been made yet. *)
LEMMA SubscribeStep ==
    ASSUME Inv, Prompt, MaxLines < MAX_SUBJECTS, NEW p \in Client, NEW s \in Subject, Subscribe(p, s)
    PROVE  Inv'
<1>0. Shapes /\ Ahead(p) /\ Bounded(p) /\ Listed(p) /\ Listening(p) /\ lines \in Nat /\ MaxLines \in Nat
  BY BoundsAssumption DEF Inv, Shapes
<1> DEFINE n == num_threads[p] - 1
<1>1. /\ state[p] = "on" /\ pc[p] = "getline" /\ lines < MaxLines /\ lines' = lines + 1
      /\ AllWait(p) /\ ~KnownToMain(p, s)
      /\ subject_list' = [subject_list EXCEPT ![p] = [subject_list[p] EXCEPT ![n] = s]]
      /\ subscribed' = [subscribed EXCEPT ![p] = Append(subscribed[p], s)]
      /\ pc' = [pc EXCEPT ![p] = "load"]
      /\ UNCHANGED <<state, loaded, data, num_groups, num_threads, thread, sockets, inq>>
  BY DEF Subscribe, getline, threads
<1>2. n \in Index /\ n \in Nat /\ Len(subscribed[p]) = n /\ subscribed[p] \in Seq(Subject)
  BY <1>0, <1>1, InTables DEF Index, Listed, Shapes, Adding
<1>3. /\ subject_list'[p][n] = s /\ \A k \in Index \ {n} : subject_list'[p][k] = subject_list[p][k]
      /\ subject_list' \in [Client -> [Index -> Subject \cup {Empty}]]
      /\ \A q \in Client \ {p} : subject_list'[q] = subject_list[q]
  BY <1>0, <1>1, <1>2 DEF Shapes
<1> HIDE DEF n
<1>4. /\ Append(subscribed[p], s) \in Seq(Subject) /\ Len(Append(subscribed[p], s)) = n + 1
      /\ Append(subscribed[p], s)[n + 1] = s
      /\ \A k \in 1 .. n : Append(subscribed[p], s)[k] = subscribed[p][k]
  BY <1>2
<1>5. /\ subscribed' \in [Client -> Seq(Subject)] /\ subscribed'[p] = Append(subscribed[p], s)
      /\ \A q \in Client \ {p} : subscribed'[q] = subscribed[q]
      /\ pc' \in [Client -> {"getline", "load", "store", "header"}] /\ pc'[p] = "load"
      /\ \A q \in Client \ {p} : pc'[q] = pc[q]
  BY <1>0, <1>1, <1>4 DEF Shapes
<1>6. Shapes'
  BY <1>0, <1>1, <1>3, <1>5 DEF Shapes
<1>7. ASSUME NEW q \in Client \ {p} PROVE Good(q)'
  <2>1. /\ Announcing(q)' = Announcing(q) \cup {p} /\ p \notin Announcing(q) /\ Unread(q)' = Unread(q)
    BY <1>1, <1>5 DEF Announcing, Unread, Known
  <2>2. /\ Cardinality(Announcing(q)) \in Nat /\ Cardinality(Unread(q)) \in Nat
        /\ Cardinality(Announcing(q)') = Cardinality(Announcing(q)) + 1
    BY <1>0, <2>1, Counts, FS_AddElement
  <2>3. Keeps(q)
    BY <1>1, <1>3, <1>5 DEF Keeps
  <2>4. Cardinality(Announcing(q)') + Cardinality(Unread(q)') + lines
           <= Cardinality(Announcing(q)) + Cardinality(Unread(q)) + lines'
    BY <1>0, <1>1, <2>1, <2>2
  <2> QED
    BY <1>6, <2>3, <2>4, KeptGood
<1>8. Pending(p)' <= Pending(p) + 1 /\ Pending(p)' \in Nat /\ Pending(p) \in Nat
  <2>1. AddingThreads(p)' = AddingThreads(p) /\ Announcing(p)' = Announcing(p)
    BY <1>1, <1>5 DEF AddingThreads, Announcing
  <2>2. Known(p) \subseteq Known(p)'
    <3>1. DOMAIN subscribed[p] = 1 .. n /\ DOMAIN subscribed'[p] = 1 .. n + 1 /\ 1 .. n \subseteq 1 .. n + 1
      BY <1>2, <1>4, <1>5
    <3> QED
      BY <1>4, <1>5, <3>1 DEF Known
  <2>3. Unread(p)' \in SUBSET Unread(p)
    BY <1>1, <2>2 DEF Unread
  <2>4. Cardinality(Unread(p)') <= Cardinality(Unread(p)) /\ Cardinality(Unread(p)') \in Nat
    BY <1>0, <2>3, Counts, FS_Subset, FS_CardinalityType
  <2>5. /\ Cardinality(AddingThreads(p)) \in Nat /\ Cardinality(Announcing(p)) \in Nat
        /\ Cardinality(Unread(p)) \in Nat
    BY <1>0, Counts
  <2> QED
    BY <1>1, <1>5, <2>1, <2>4, <2>5 DEF Pending, Adding
<1>9. Ahead(p)'
  BY <1>0, <1>1, <1>5 DEF Ahead, AllWait
<1>10. Bounded(p)'
  <2>1. num_groups[p] \in Nat /\ num_groups[p] + Pending(p) <= 1 + lines
    BY <1>0 DEF Bounded, Shapes
  <2>2. num_groups'[p] + Pending(p)' <= 1 + lines'
    BY <1>0, <1>1, <1>8, <2>1
  <2>3. \A k \in Index : thread'[p][k].at # "store"
    BY <1>1 DEF AllWait
  <2> QED
    BY <1>5, <2>2, <2>3 DEF Bounded
<1>11. Listening(p)'
  BY <1>0, <1>1 DEF Listening, AllWait
<1>12. \A k \in 1 .. n : subscribed[p][k] # s
  <2> SUFFICES ASSUME NEW k \in 1 .. n, subscribed[p][k] = s PROVE FALSE
    OBVIOUS
  <2>1. \A j \in 1 .. n : subject_list[p][j - 1] = subscribed[p][j] /\ subscribed[p][j] \in Subject
    BY <1>0, <1>2 DEF Listed
  <2>2. k - 1 \in Index /\ \A j \in 0 .. k - 1 : j + 1 \in 1 .. n
    BY <1>2, BoundsAssumption DEF Index
  <2>3. \A j \in 0 .. k - 1 : subject_list[p][j] # Empty
    <3> SUFFICES ASSUME NEW j \in 0 .. k - 1 PROVE subject_list[p][j] # Empty
      OBVIOUS
    <3>1. j + 1 \in 1 .. n /\ (j + 1) - 1 = j
      BY <2>2
    <3>2. subject_list[p][j] \in Subject
      BY <2>1, <3>1
    <3> QED
      BY <3>2, SubjectAssumption DEF Empty
  <2>4. subject_list[p][k - 1] = s
    BY <2>1
  <2> QED
    BY <1>1, <2>2, <2>3, <2>4 DEF KnownToMain
<1>13. Listed(p)'
  <2>1. /\ Len(subscribed'[p]) = n + 1 /\ subscribed'[p][n + 1] = s
        /\ \A k \in 1 .. n : subscribed'[p][k] = subscribed[p][k]
    BY <1>4, <1>5
  <2>2. Len(subscribed'[p]) = num_threads'[p]
    BY <1>1, <2>1, InTables DEF n
  <2>3. ASSUME NEW k \in 1 .. n + 1 PROVE subject_list'[p][k - 1] = subscribed'[p][k]
    <3>1. CASE k = n + 1
      BY <1>2, <1>3, <2>1, <3>1
    <3>2. CASE k \in 1 .. n
      <4>1. k - 1 \in Index \ {n}
        BY <1>2, <3>2, BoundsAssumption DEF Index
      <4> QED
        BY <1>0, <1>2, <1>3, <2>1, <3>2, <4>1 DEF Listed
    <3> QED
      BY <1>2, <3>1, <3>2
  <2>4. \A j, k \in 1 .. n + 1 : subscribed'[p][j] = subscribed'[p][k] => j = k
    <3>1. \A j, k \in 1 .. n : subscribed[p][j] = subscribed[p][k] => j = k
      BY <1>0, <1>2 DEF Listed
    <3>2. \A k \in 1 .. n + 1 : k = n + 1 \/ k \in 1 .. n
      BY <1>2
    <3> QED
      BY <1>12, <2>1, <3>1, <3>2
  <2> QED
    BY <1>5, <2>1, <2>2, <2>3, <2>4 DEF Listed, Adding
<1> QED
  BY <1>6, <1>7, <1>9, <1>10, <1>11, <1>13 DEF Inv, Good

(* !sendto finds the socket of every entry: all threads have started when  *)
(* a line is read.                                                         *)
LEMMA SendToStep ==
    ASSUME Inv, Prompt, MaxLines < MAX_SUBJECTS, NEW p \in Client, NEW s \in Subject, SendTo(p, s)
    PROVE  Inv'
<1> DEFINE M == Matches(p, s)
           done == {k \in M : \A j \in M : j <= k => j + 1 \in sockets[p]}
<1>0. /\ state[p] = "on" /\ lines < MaxLines /\ lines' = lines + 1 /\ AllWait(p)
      /\ sendto(Text, IF M = {} THEN 1 ELSE Cardinality(done))
      /\ IF done = M THEN UNCHANGED <<state, thread, sockets>> ELSE Ends(p, "died")
      /\ UNCHANGED <<pc, loaded, subscribed, data, subject_list, num_groups, num_threads>>
  BY DEF SendTo, getline, shared
<1>1. num_threads[p] \in Nat /\ num_threads[p] <= MAX_SUBJECTS /\ MAX_SUBJECTS \in Nat
  BY InTables
<1>2. \A j \in M : j + 1 \in sockets[p]
  <2> SUFFICES ASSUME NEW j \in M PROVE j + 1 \in sockets[p]
    OBVIOUS
  <2>1. j + 1 \in Index /\ j + 1 < num_threads[p]
    BY <1>1 DEF Matches, Index
  <2>2. thread[p][j + 1].at # "none" /\ thread[p][j + 1].at \in {"none", "pselect"}
    BY <1>0, <2>1 DEF Inv, Listening, AllWait
  <2> QED
    BY <2>1, <2>2 DEF Inv, Listening
<1>3. done = M
  BY <1>2
<1>4. Cardinality(M) \in Nat
  <2>1. num_threads[p] - 2 \in Int /\ 0 \in Int
    BY <1>1
  <2>2. IsFiniteSet(0 .. num_threads[p] - 2)
    BY <2>1, FS_Interval
  <2>3. M \in SUBSET (0 .. num_threads[p] - 2)
    BY DEF Matches
  <2> QED
    BY <2>2, <2>3, FS_Subset, FS_CardinalityType
<1> PICK n : n = IF M = {} THEN 1 ELSE Cardinality(M)
  OBVIOUS
<1>5. n \in Nat /\ sendto(Text, n) /\ UNCHANGED <<state, thread, sockets>>
  BY <1>0, <1>3, <1>4
<1> QED
  BY <1>0, <1>5, TextStep

(* Every line keeps the invariant. *)
LEMMA UserStep ==
    ASSUME Inv, Prompt, MaxLines < MAX_SUBJECTS, NEW p \in Client, UserNext(p)
    PROVE  Inv'
<1>1. CASE Plain(p)
  BY <1>1, TextStep DEF Plain, getline, shared
<1>2. CASE Exit(p)
  BY <1>2, ExitStep
<1>3. ASSUME NEW s \in Subject, SubscribeKnown(p, s) PROVE Inv'
  BY <1>3, TextStep DEF SubscribeKnown, getline, shared
<1>4. ASSUME NEW s \in Subject, Subscribe(p, s) PROVE Inv'
  BY <1>4, SubscribeStep
<1>5. ASSUME NEW s \in Subject, SendTo(p, s) PROVE Inv'
  BY <1>5, SendToStep
<1> QED
  BY <1>1, <1>2, <1>3, <1>4, <1>5 DEF UserNext

-----------------------------------------------------------------------------
(* The threads *)

(* One thread of p becomes t; main and the other clients do nothing. *)
Touches(p, k, t) ==
    /\ thread' = [thread EXCEPT ![p] = [thread[p] EXCEPT ![k] = t]]
    /\ UNCHANGED <<state, pc, loaded, lines, subscribed, data, num_threads>>
    /\ \A q \in Client \ {p} : /\ subject_list'[q] = subject_list[q] /\ num_groups'[q] = num_groups[q]
                               /\ sockets'[q] = sockets[q] /\ inq'[q] = inq[q]
    /\ subject_list' \in [Client -> [Index -> Subject \cup {Empty}]]
    /\ num_groups' \in [Client -> Nat \ {0}]
    /\ sockets' \in [Client -> SUBSET Index]
    /\ inq' \in [Client -> Seq(Subject \cup {Text})]

(* What that leaves alone. *)
LEMMA ThreadChanges ==
    ASSUME Inv, NEW p \in Client, NEW k \in Index, NEW t \in Thread, Touches(p, k, t)
    PROVE  /\ Shapes' /\ (\A q \in Client \ {p} : Good(q)')
           /\ thread'[p][k] = t /\ \A j \in Index \ {k} : thread'[p][j] = thread[p][j]
           /\ AddingThreads(p)' = IF t.at \in Adding THEN AddingThreads(p) \cup {k} ELSE AddingThreads(p) \ {k}
           /\ Announcing(p)' = Announcing(p)
<1>0. Shapes
  BY DEF Inv
<1>1. /\ thread' \in [Client -> [Index -> Thread]] /\ thread'[p][k] = t
      /\ \A j \in Index \ {k} : thread'[p][j] = thread[p][j]
      /\ \A q \in Client \ {p} : thread'[q] = thread[q]
  BY <1>0 DEF Shapes, Touches
<1>2. Shapes'
  BY <1>0, <1>1 DEF Shapes, Touches
<1>3. \A q \in Client \ {p} : Good(q)'
  BY <1>1, <1>2, OthersKept DEF Keeps, Touches
<1>4. AddingThreads(p)' = IF t.at \in Adding THEN AddingThreads(p) \cup {k} ELSE AddingThreads(p) \ {k}
  BY <1>1 DEF AddingThreads
<1> QED
  BY <1>1, <1>2, <1>3, <1>4 DEF Announcing, Touches

(* A thread starts with the number it was given. *)
LEMMA ThreadStartsStep ==
    ASSUME Inv, NEW p \in Client, NEW k \in Index, ThreadStarts(p, k)
    PROVE  Inv'
<1>0. Shapes /\ Ahead(p) /\ Bounded(p) /\ Listed(p) /\ Listening(p) /\ lines \in Nat
      /\ thread[p][k] \in Thread /\ thread[p][k].at = "starting"
  BY BoundsAssumption DEF Inv, Shapes, ThreadStarts
<1>1. k = (IF k = 0 THEN 0 ELSE data[p])
  BY <1>0 DEF Listening
<1>t. PICK t : t = [thread[p][k] EXCEPT !.at = "pselect", !.tid = k]
  OBVIOUS
<1>2. t \in Thread /\ t.at = "pselect" /\ t.tid = k
  BY <1>t, <1>0 DEF Thread
<1>3. /\ thread' = [thread EXCEPT ![p] = [thread[p] EXCEPT ![k] = t]]
      /\ sockets' = [sockets EXCEPT ![p] = sockets[p] \cup {k}]
      /\ inq' = [inq EXCEPT ![p] = IF k = 0 THEN <<>> ELSE inq[p]]
      /\ UNCHANGED <<state, pc, loaded, lines, subscribed, data, subject_list, num_groups, num_threads>>
  BY <1>t, <1>0, <1>1 DEF ThreadStarts, main, shared
<1>4. /\ sockets' \in [Client -> SUBSET Index] /\ sockets'[p] = sockets[p] \cup {k}
      /\ \A q \in Client \ {p} : sockets'[q] = sockets[q]
      /\ inq' \in [Client -> Seq(Subject \cup {Text})] /\ (inq'[p] = <<>> \/ inq'[p] = inq[p])
      /\ \A q \in Client \ {p} : inq'[q] = inq[q]
  BY <1>0, <1>3 DEF Shapes
<1>5. /\ Shapes' /\ (\A q \in Client \ {p} : Good(q)')
      /\ thread'[p][k] = t /\ \A j \in Index \ {k} : thread'[p][j] = thread[p][j]
      /\ AddingThreads(p)' = AddingThreads(p) \ {k}
      /\ Announcing(p)' = Announcing(p)
  <2>1. /\ subject_list' \in [Client -> [Index -> Subject \cup {Empty}]]
        /\ num_groups' \in [Client -> Nat \ {0}]
        /\ \A q \in Client \ {p} : subject_list'[q] = subject_list[q] /\ num_groups'[q] = num_groups[q]
    BY <1>0, <1>3 DEF Shapes
  <2>2. t.at \notin Adding
    BY <1>2 DEF Adding
  <2>3. Touches(p, k, t)
    BY <1>3, <1>4, <2>1 DEF Touches
  <2> QED
    BY <1>2, <2>2, <2>3, ThreadChanges
<1>6. Pending(p)' <= Pending(p) /\ Pending(p)' \in Nat /\ Pending(p) \in Nat
  <2>1. AddingThreads(p)' \in SUBSET AddingThreads(p) /\ Unread(p)' \in SUBSET Unread(p)
    BY <1>3, <1>4, <1>5 DEF Unread, Known
  <2>2. /\ Cardinality(Unread(p)') <= Cardinality(Unread(p)) /\ Cardinality(Unread(p)') \in Nat
        /\ Cardinality(AddingThreads(p)') <= Cardinality(AddingThreads(p))
        /\ Cardinality(AddingThreads(p)') \in Nat
    BY <1>0, <2>1, Counts, FS_Subset, FS_CardinalityType
  <2>3. /\ Cardinality(AddingThreads(p)) \in Nat /\ Cardinality(Announcing(p)) \in Nat
        /\ Cardinality(Unread(p)) \in Nat
    BY <1>0, Counts
  <2> QED
    BY <1>3, <1>5, <2>2, <2>3 DEF Pending
<1>7. Ahead(p)'
  BY <1>0, <1>2, <1>3, <1>5 DEF Ahead
<1>8. Bounded(p)'
  <2>1. \A x \in Nat : x + Pending(p) <= 1 + lines => x + Pending(p)' <= 1 + lines
    BY <1>0, <1>6
  <2>2. num_groups[p] \in Nat /\ loaded[p] \in Nat /\ \A j \in Index : thread[p][j].loaded \in Nat
    BY <1>0 DEF Shapes, Thread
  <2> QED
    BY <1>0, <1>2, <1>3, <1>5, <2>1, <2>2 DEF Bounded
<1>9. Listed(p)'
  BY <1>0, <1>3 DEF Listed
<1>10. Listening(p)'
  BY <1>0, <1>2, <1>3, <1>4, <1>5 DEF Listening
<1> QED
  BY <1>5, <1>7, <1>8, <1>9, <1>10 DEF Inv, Good

(* A datagram is taken: a header to be listed moves from the queue to the  *)
(* thread, and is no subscription's.                                       *)
LEMMA ReceivesStep ==
    ASSUME Inv, NEW p \in Client, NEW k \in Index, Receives(p, k)
    PROVE  Inv'
<1>0. Shapes /\ Ahead(p) /\ Bounded(p) /\ Listed(p) /\ Listening(p) /\ lines \in Nat
      /\ thread[p][k] \in Thread /\ thread[p][k].at = "pselect" /\ k \in sockets[p] /\ thread[p][k].tid = k
      /\ inq[p] \in Seq(Subject \cup {Text}) /\ inq[p] # <<>>
  <2>1. Shapes /\ Ahead(p) /\ Bounded(p) /\ Listed(p) /\ Listening(p) /\ lines \in Nat
    BY BoundsAssumption DEF Inv, Shapes
  <2>2. thread[p][k] \in Thread /\ inq[p] \in Seq(Subject \cup {Text})
    BY <2>1 DEF Shapes
  <2>3. thread[p][k].at = "pselect" /\ inq[p] # <<>>
    BY DEF Receives
  <2> QED
    BY <2>1, <2>2, <2>3 DEF Listening
<1>m. PICK m : m = Head(inq[p])
  OBVIOUS
<1>1. m \in Subject \cup {Text}
  BY <1>m, <1>0
<1>l. PICK learns : learns \in BOOLEAN /\ learns = (m # Text /\ ~KnownToThread(p, m))
  OBVIOUS
<1>t. PICK t : t = IF learns THEN [thread[p][k] EXCEPT !.at = "load", !.header = m] ELSE thread[p][k]
  OBVIOUS
<1>2. t \in Thread /\ t.tid = k /\ t.at = (IF learns THEN "load" ELSE "pselect")
  BY <1>0, <1>l, <1>t, <1>1 DEF Thread
<1>3. /\ thread' = [thread EXCEPT ![p] = [thread[p] EXCEPT ![k] = t]]
      /\ inq' = [inq EXCEPT ![p] = Tail(inq[p])]
      /\ UNCHANGED <<state, pc, loaded, lines, subscribed, data, subject_list, num_groups, num_threads, sockets>>
  <2>1. UNCHANGED thread => thread' = [thread EXCEPT ![p] = [thread[p] EXCEPT ![k] = thread[p][k]]]
    BY <1>0 DEF Shapes
  <2>2. IF learns THEN thread' = [thread EXCEPT ![p][k].at = "load", ![p][k].header = m] ELSE UNCHANGED thread
    BY <1>m, <1>l DEF Receives
  <2>3. thread' = [thread EXCEPT ![p] = [thread[p] EXCEPT ![k] = t]]
    <3>1. CASE learns
      <4>1. t = [thread[p][k] EXCEPT !.at = "load", !.header = m]
        BY <1>t, <3>1
      <4>2. thread' = [thread EXCEPT ![p][k].at = "load", ![p][k].header = m]
        BY <2>2, <3>1
      <4>3. thread[p] \in [Index -> Thread] /\ thread \in [Client -> [Index -> Thread]]
        BY <1>0 DEF Shapes
      <4> QED
        BY <4>1, <4>2, <4>3
    <3>2. CASE ~learns
      BY <1>t, <2>1, <2>2, <3>2
    <3> QED
      BY <3>1, <3>2
  <2> QED
    BY <2>3 DEF Receives, main, shared
<1>4. /\ Tail(inq[p]) \in Seq(Subject \cup {Text})
      /\ inq' \in [Client -> Seq(Subject \cup {Text})] /\ inq'[p] = Tail(inq[p])
      /\ \A q \in Client \ {p} : inq'[q] = inq[q]
  BY <1>0, <1>3 DEF Shapes
<1>5. /\ subject_list' \in [Client -> [Index -> Subject \cup {Empty}]]
      /\ num_groups' \in [Client -> Nat \ {0}] /\ sockets' \in [Client -> SUBSET Index]
      /\ \A q \in Client \ {p} : /\ subject_list'[q] = subject_list[q] /\ num_groups'[q] = num_groups[q]
                                 /\ sockets'[q] = sockets[q]
  BY <1>0, <1>3 DEF Shapes
<1>6. /\ Shapes' /\ (\A q \in Client \ {p} : Good(q)')
      /\ thread'[p][k] = t /\ \A j \in Index \ {k} : thread'[p][j] = thread[p][j]
      /\ AddingThreads(p)' = IF t.at \in Adding THEN AddingThreads(p) \cup {k} ELSE AddingThreads(p) \ {k}
      /\ Announcing(p)' = Announcing(p)
  <2>1. Touches(p, k, t)
    BY <1>3, <1>4, <1>5 DEF Touches
  <2> QED
    BY <1>2, <2>1, ThreadChanges
<1>7. ASSUME learns PROVE m \notin Known(p)
  <2>1. m # Text /\ \A j \in 0 .. num_groups[p] - 1 : subject_list[p][j] # m
    BY <1>7, <1>l DEF KnownToThread
  <2>2. ASSUME NEW j \in DOMAIN subscribed[p] PROVE subscribed[p][j] # m
    <3>1. /\ DOMAIN subscribed[p] = 1 .. Len(subscribed[p]) /\ Len(subscribed[p]) \in Nat
          /\ num_threads[p] \in Nat /\ num_groups[p] \in Nat
      BY <1>0 DEF Shapes
    <3>2. Len(subscribed[p]) <= num_groups[p]
      BY <1>0, <3>1 DEF Listed, Ahead
    <3>3. j - 1 \in 0 .. num_groups[p] - 1
      BY <3>1, <3>2
    <3>4. subject_list[p][j - 1] = subscribed[p][j]
      BY <1>0, <3>1 DEF Listed
    <3> QED
      BY <2>1, <3>3, <3>4
  <2> QED
    BY <2>1, <2>2 DEF Known
<1>8. Pending(p)' <= Pending(p) /\ Pending(p)' \in Nat /\ Pending(p) \in Nat
  <2>1. Unread(p)' = {j \in DOMAIN Tail(inq[p]) : Tail(inq[p])[j] \notin Known(p)}
    BY <1>3, <1>4 DEF Unread, Known
  <2>2. /\ Cardinality(Unread(p)') \in Nat /\ Cardinality(Unread(p)') <= Cardinality(Unread(p))
        /\ m \notin Known(p) => Cardinality(Unread(p)') + 1 <= Cardinality(Unread(p))
    <3>1. Unread(p) = {j \in DOMAIN inq[p] : inq[p][j] \notin Known(p)}
      BY DEF Unread
    <3> DEFINE A(r) == {j \in DOMAIN r : r[j] \notin Known(p)}
    <3>2. /\ Cardinality(A(Tail(inq[p]))) \in Nat
          /\ Cardinality(A(Tail(inq[p]))) <= Cardinality(A(inq[p]))
          /\ Head(inq[p]) \notin Known(p) => Cardinality(A(Tail(inq[p]))) + 1 <= Cardinality(A(inq[p]))
      BY <1>0, CountTail, Zenon
    <3> QED
      BY <1>m, <2>1, <3>1, <3>2, Zenon
  <2>3. /\ Cardinality(AddingThreads(p)) \in Nat /\ Cardinality(Announcing(p)) \in Nat
        /\ Cardinality(Unread(p)) \in Nat /\ IsFiniteSet(AddingThreads(p))
    BY <1>0, Counts
  <2>4. k \notin AddingThreads(p)
    BY <1>0 DEF AddingThreads, Adding
  <2>5. /\ learns => Cardinality(AddingThreads(p)') = Cardinality(AddingThreads(p)) + 1
        /\ ~learns => AddingThreads(p)' = AddingThreads(p)
    <3>1. CASE learns
      <4>1. AddingThreads(p)' = AddingThreads(p) \cup {k}
        BY <1>2, <1>6, <3>1 DEF Adding
      <4> QED
        BY <2>3, <2>4, <3>1, <4>1, FS_AddElement
    <3>2. CASE ~learns
      BY <1>2, <1>6, <2>4, <3>2 DEF Adding
    <3> QED
      BY <3>1, <3>2
  <2>6. /\ Cardinality(AddingThreads(p)') \in Nat
        /\ Cardinality(AddingThreads(p)') + Cardinality(Unread(p)') <= Cardinality(AddingThreads(p)) + Cardinality(Unread(p))
    BY <1>7, <2>2, <2>3, <2>5
  <2>7. /\ Pending(p) = (IF pc[p] \in Adding THEN 1 ELSE 0) + Cardinality(AddingThreads(p))
                          + Cardinality(Announcing(p)) + Cardinality(Unread(p))
        /\ Pending(p)' = (IF pc[p] \in Adding THEN 1 ELSE 0) + Cardinality(AddingThreads(p)')
                           + Cardinality(Announcing(p)) + Cardinality(Unread(p)')
    BY <1>3, <1>6 DEF Pending
  <2> QED
    BY <2>2, <2>3, <2>6, <2>7
<1>9. t.at \notin {"store", "copy", "none", "starting"}
  BY <1>2
<1>10. Ahead(p)'
  BY <1>0, <1>3, <1>6, <1>9 DEF Ahead
<1>11. Bounded(p)'
  <2>1. \A x \in Nat : x + Pending(p) <= 1 + lines => x + Pending(p)' <= 1 + lines
    BY <1>0, <1>8
  <2>2. num_groups[p] \in Nat /\ loaded[p] \in Nat /\ \A j \in Index : thread[p][j].loaded \in Nat
    BY <1>0 DEF Shapes, Thread
  <2> QED
    BY <1>0, <1>3, <1>6, <1>9, <2>1, <2>2 DEF Bounded
<1>12. Listed(p)'
  BY <1>0, <1>3 DEF Listed
<1>13. Listening(p)'
  BY <1>0, <1>2, <1>3, <1>6, <1>9 DEF Listening
<1> QED
  BY <1>6, <1>10, <1>11, <1>12, <1>13 DEF Inv, Good

(* A thread reads num_groups. *)
LEMMA ThreadLoadsStep ==
    ASSUME Inv, NEW p \in Client, NEW k \in Index, ThreadLoads(p, k)
    PROVE  Inv'
<1>0. Shapes /\ Ahead(p) /\ Bounded(p) /\ Listed(p) /\ Listening(p) /\ lines \in Nat
      /\ thread[p][k] \in Thread /\ thread[p][k].at = "load" /\ k \in sockets[p] /\ thread[p][k].tid = k
      /\ num_groups[p] \in Nat /\ num_threads[p] \in Nat
  <2>1. Shapes /\ Ahead(p) /\ Bounded(p) /\ Listed(p) /\ Listening(p) /\ lines \in Nat
    BY BoundsAssumption DEF Inv, Shapes
  <2> QED
    BY <2>1 DEF Shapes, ThreadLoads, Listening
<1>t. PICK t : t = [thread[p][k] EXCEPT !.at = "store", !.loaded = num_groups[p]]
  OBVIOUS
<1>2. t \in Thread /\ t.tid = k /\ t.at = "store" /\ t.loaded = num_groups[p]
  BY <1>t, <1>0 DEF Thread
<1>3. /\ thread' = [thread EXCEPT ![p] = [thread[p] EXCEPT ![k] = t]]
      /\ UNCHANGED <<state, pc, loaded, lines, subscribed, data, subject_list, num_groups, num_threads, sockets,
                     inq>>
  BY <1>t, <1>0 DEF ThreadLoads, main, shared
<1>4. /\ subject_list' \in [Client -> [Index -> Subject \cup {Empty}]]
      /\ num_groups' \in [Client -> Nat \ {0}] /\ sockets' \in [Client -> SUBSET Index]
      /\ inq' \in [Client -> Seq(Subject \cup {Text})]
      /\ \A q \in Client \ {p} : /\ subject_list'[q] = subject_list[q] /\ num_groups'[q] = num_groups[q]
                                 /\ sockets'[q] = sockets[q] /\ inq'[q] = inq[q]
  BY <1>0, <1>3 DEF Shapes
<1>5. /\ Shapes' /\ (\A q \in Client \ {p} : Good(q)')
      /\ thread'[p][k] = t /\ \A j \in Index \ {k} : thread'[p][j] = thread[p][j]
      /\ AddingThreads(p)' = IF t.at \in Adding THEN AddingThreads(p) \cup {k} ELSE AddingThreads(p) \ {k}
      /\ Announcing(p)' = Announcing(p)
  <2>1. Touches(p, k, t)
    BY <1>3, <1>4 DEF Touches
  <2> QED
    BY <1>2, <2>1, ThreadChanges
<1>6. Pending(p)' = Pending(p)
  <2>1. AddingThreads(p)' = AddingThreads(p)
    BY <1>0, <1>2, <1>5 DEF Adding, AddingThreads
  <2>2. Unread(p)' = Unread(p)
    BY <1>3 DEF Unread, Known
  <2> QED
    BY <1>3, <1>5, <2>1, <2>2 DEF Pending
<1>7. Ahead(p)'
  BY <1>0, <1>2, <1>3, <1>5 DEF Ahead
<1>8. Bounded(p)'
  BY <1>0, <1>2, <1>3, <1>5, <1>6 DEF Bounded
<1>9. Listed(p)'
  BY <1>0, <1>3 DEF Listed
<1>10. Listening(p)'
  BY <1>0, <1>2, <1>3, <1>5 DEF Listening
<1> QED
  BY <1>5, <1>7, <1>8, <1>9, <1>10 DEF Inv, Good

(* It stores what it read plus one: an increment of main in between may be *)
(* lost, and num_groups still does not fall behind num_threads.            *)
LEMMA ThreadStoresStep ==
    ASSUME Inv, NEW p \in Client, NEW k \in Index, ThreadStores(p, k)
    PROVE  Inv'
<1>0. Shapes /\ Ahead(p) /\ Bounded(p) /\ Listed(p) /\ Listening(p) /\ lines \in Nat
      /\ thread[p][k] \in Thread /\ thread[p][k].at = "store" /\ k \in sockets[p] /\ thread[p][k].tid = k
      /\ num_groups[p] \in Nat /\ num_threads[p] \in Nat
  <2>1. Shapes /\ Ahead(p) /\ Bounded(p) /\ Listed(p) /\ Listening(p) /\ lines \in Nat
    BY BoundsAssumption DEF Inv, Shapes
  <2> QED
    BY <2>1 DEF Shapes, ThreadStores, Listening
<1>x. PICK x : x = thread[p][k].loaded
  OBVIOUS
<1>t. PICK t : t = [thread[p][k] EXCEPT !.at = "copy", !.loaded = 0]
  OBVIOUS
<1>1. /\ x \in Nat /\ num_threads[p] <= x + 1 /\ (pc[p] \in Adding => num_threads[p] <= x)
      /\ x + Pending(p) <= 1 + lines
  BY <1>x, <1>0 DEF Thread, Ahead, Bounded
<1>2. t \in Thread /\ t.tid = k /\ t.at = "copy"
  BY <1>t, <1>0 DEF Thread
<1>3. /\ thread' = [thread EXCEPT ![p] = [thread[p] EXCEPT ![k] = t]]
      /\ num_groups' = [num_groups EXCEPT ![p] = x + 1]
      /\ UNCHANGED <<state, pc, loaded, lines, subscribed, data, subject_list, num_threads, sockets, inq>>
  BY <1>x, <1>t, <1>0 DEF ThreadStores, main
<1>4. /\ subject_list' \in [Client -> [Index -> Subject \cup {Empty}]]
      /\ num_groups' \in [Client -> Nat \ {0}] /\ sockets' \in [Client -> SUBSET Index]
      /\ inq' \in [Client -> Seq(Subject \cup {Text})] /\ num_groups'[p] = x + 1
      /\ \A q \in Client \ {p} : /\ subject_list'[q] = subject_list[q] /\ num_groups'[q] = num_groups[q]
                                 /\ sockets'[q] = sockets[q] /\ inq'[q] = inq[q]
  BY <1>0, <1>1, <1>3 DEF Shapes
<1>5. /\ Shapes' /\ (\A q \in Client \ {p} : Good(q)')
      /\ thread'[p][k] = t /\ \A j \in Index \ {k} : thread'[p][j] = thread[p][j]
      /\ AddingThreads(p)' = IF t.at \in Adding THEN AddingThreads(p) \cup {k} ELSE AddingThreads(p) \ {k}
      /\ Announcing(p)' = Announcing(p)
  <2>1. Touches(p, k, t)
    BY <1>3, <1>4 DEF Touches
  <2> QED
    BY <1>2, <2>1, ThreadChanges
<1>6. Pending(p)' + 1 = Pending(p) /\ Pending(p)' \in Nat /\ Pending(p) \in Nat
  <2>1. AddingThreads(p)' = AddingThreads(p) \ {k} /\ k \in AddingThreads(p)
    BY <1>0, <1>2, <1>5 DEF Adding, AddingThreads
  <2>2. Unread(p)' = Unread(p)
    BY <1>3 DEF Unread, Known
  <2>3. /\ Cardinality(AddingThreads(p)) \in Nat /\ Cardinality(Announcing(p)) \in Nat
        /\ Cardinality(Unread(p)) \in Nat /\ IsFiniteSet(AddingThreads(p))
    BY <1>0, Counts
  <2>4. Cardinality(AddingThreads(p)') = Cardinality(AddingThreads(p)) - 1
        /\ Cardinality(AddingThreads(p)') \in Nat
    BY <2>1, <2>3, FS_RemoveElement, FS_CardinalityType
  <2> QED
    BY <1>3, <1>5, <2>2, <2>3, <2>4 DEF Pending
<1>7. Ahead(p)'
  BY <1>0, <1>1, <1>2, <1>3, <1>4, <1>5 DEF Ahead
<1>8. Bounded(p)'
  <2>1. \A y \in Nat : y + Pending(p) <= 1 + lines => y + Pending(p)' <= 1 + lines
    BY <1>0, <1>6
  <2>2. loaded[p] \in Nat /\ \A j \in Index : thread[p][j].loaded \in Nat
    BY <1>0 DEF Shapes, Thread
  <2>3. num_groups'[p] + Pending(p)' <= 1 + lines
    BY <1>0, <1>1, <1>4, <1>6
  <2> QED
    BY <1>0, <1>2, <1>3, <1>5, <2>1, <2>2, <2>3 DEF Bounded
<1>9. Listed(p)'
  BY <1>0, <1>3 DEF Listed
<1>10. Listening(p)'
  BY <1>0, <1>2, <1>3, <1>5 DEF Listening
<1> QED
  BY <1>5, <1>7, <1>8, <1>9, <1>10 DEF Inv, Good

(* The header is copied behind the subscriptions, the one being made       *)
(* included.                                                               *)
LEMMA ThreadCopiesStep ==
    ASSUME Inv, MaxLines < MAX_SUBJECTS, NEW p \in Client, NEW k \in Index, ThreadCopies(p, k)
    PROVE  Inv'
<1>0. Shapes /\ Ahead(p) /\ Bounded(p) /\ Listed(p) /\ Listening(p) /\ lines \in Nat
      /\ thread[p][k] \in Thread /\ thread[p][k].at = "copy" /\ k \in sockets[p] /\ thread[p][k].tid = k
      /\ num_groups[p] \in Nat /\ num_threads[p] \in Nat
      /\ Len(subscribed[p]) \in Nat
  <2>1. Shapes /\ Ahead(p) /\ Bounded(p) /\ Listed(p) /\ Listening(p) /\ lines \in Nat
    BY BoundsAssumption DEF Inv, Shapes
  <2>2. thread[p][k] \in Thread /\ num_groups[p] \in Nat /\ num_threads[p] \in Nat /\ subscribed[p] \in Seq(Subject)
    BY <2>1 DEF Shapes
  <2>3. thread[p][k].at = "copy"
    BY DEF ThreadCopies
  <2> QED
    BY <2>1, <2>2, <2>3 DEF Listening
<1>n. PICK n : n = num_groups[p] - 1
  OBVIOUS
<1>h. PICK h : h = thread[p][k].header
  OBVIOUS
<1>t. PICK t : t = [thread[p][k] EXCEPT !.at = "pselect", !.header = Empty]
  OBVIOUS
<1>1. n \in Index /\ n \in Nat /\ h \in Subject \cup {Empty}
  BY <1>n, <1>h, <1>0, InTables DEF Index, Thread
<1>2. t \in Thread /\ t.tid = k /\ t.at = "pselect"
  BY <1>t, <1>0 DEF Thread
<1>3. /\ thread' = [thread EXCEPT ![p] = [thread[p] EXCEPT ![k] = t]]
      /\ subject_list' = [subject_list EXCEPT ![p] = [subject_list[p] EXCEPT ![n] = h]]
      /\ UNCHANGED <<state, pc, loaded, lines, subscribed, data, num_groups, num_threads, sockets, inq>>
  BY <1>n, <1>h, <1>t, <1>0 DEF ThreadCopies, LearntSlot, main
<1>4. /\ subject_list' \in [Client -> [Index -> Subject \cup {Empty}]]
      /\ num_groups' \in [Client -> Nat \ {0}] /\ sockets' \in [Client -> SUBSET Index]
      /\ inq' \in [Client -> Seq(Subject \cup {Text})]
      /\ \A j \in Index \ {n} : subject_list'[p][j] = subject_list[p][j]
      /\ \A q \in Client \ {p} : /\ subject_list'[q] = subject_list[q] /\ num_groups'[q] = num_groups[q]
                                 /\ sockets'[q] = sockets[q] /\ inq'[q] = inq[q]
  BY <1>0, <1>1, <1>3 DEF Shapes
<1>5. /\ Shapes' /\ (\A q \in Client \ {p} : Good(q)')
      /\ thread'[p][k] = t /\ \A j \in Index \ {k} : thread'[p][j] = thread[p][j]
      /\ AddingThreads(p)' = IF t.at \in Adding THEN AddingThreads(p) \cup {k} ELSE AddingThreads(p) \ {k}
      /\ Announcing(p)' = Announcing(p)
  <2>1. Touches(p, k, t)
    BY <1>3, <1>4 DEF Touches
  <2> QED
    BY <1>2, <2>1, ThreadChanges
<1>6. Pending(p)' = Pending(p)
  <2>1. AddingThreads(p)' = AddingThreads(p)
    BY <1>0, <1>2, <1>5 DEF Adding, AddingThreads
  <2>2. Unread(p)' = Unread(p)
    BY <1>3 DEF Unread, Known
  <2> QED
    BY <1>3, <1>5, <2>1, <2>2 DEF Pending
<1>7. Ahead(p)'
  BY <1>0, <1>2, <1>3, <1>5 DEF Ahead
<1>8. Bounded(p)'
  BY <1>0, <1>2, <1>3, <1>5, <1>6 DEF Bounded
<1>9. Listed(p)'
  <2>1. Len(subscribed[p]) <= n
    BY <1>0, <1>n DEF Listed, Ahead
  <2>2. \A j \in 1 .. Len(subscribed[p]) : j - 1 \in Index \ {n}
    BY <1>0, <1>1, <2>1, BoundsAssumption DEF Index
  <2> QED
    BY <1>0, <1>3, <1>4, <2>2 DEF Listed
<1>10. Listening(p)'
  BY <1>0, <1>2, <1>3, <1>5 DEF Listening
<1> QED
  BY <1>5, <1>7, <1>8, <1>9, <1>10 DEF Inv, Good

-----------------------------------------------------------------------------
(* The invariant holds. *)

(* Initially each client has thread 0 and no subscription. *)
LEMMA InvInit ==
    Init => Inv
<1> SUFFICES ASSUME Init PROVE Inv
  OBVIOUS
<1>0. MAX_SUBJECTS \in Nat /\ MAX_SUBJECTS > 0 /\ MaxLines \in Nat /\ 0 \in Index /\ Index \subseteq Nat
  BY BoundsAssumption DEF Index
<1>1. NoThread \in Thread /\ [NoThread EXCEPT !.at = "starting"] \in Thread
      /\ NoThread.at = "none" /\ [NoThread EXCEPT !.at = "starting"].at = "starting"
  BY <1>0 DEF NoThread, Thread
<1>2. \A p \in Client : \A k \in Index :
         thread[p][k] = IF k = 0 THEN [NoThread EXCEPT !.at = "starting"] ELSE NoThread
  BY DEF Init
<1>3. thread \in [Client -> [Index -> Thread]]
  BY <1>1 DEF Init
<1>4. Shapes
  <2>1. <<>> \in Seq(Subject) /\ <<>> \in Seq(Subject \cup {Text})
    OBVIOUS
  <2>2. subject_list \in [Client -> [Index -> Subject \cup {Empty}]]
    BY DEF Init
  <2>3. \A p \in Client : {} \in SUBSET Index /\ 0 \in 0 .. MaxLines /\ 1 \in Nat \ {0}
    BY <1>0
  <2>4. /\ state \in [Client -> {"on", "left", "died"}] /\ pc \in [Client -> {"getline", "load", "store", "header"}]
        /\ loaded \in [Client -> Nat] /\ lines \in 0 .. MaxLines /\ subscribed \in [Client -> Seq(Subject)]
        /\ data \in [Client -> Index]
    BY <1>0, <2>1 DEF Init
  <2>5. /\ num_groups \in [Client -> Nat \ {0}] /\ num_threads \in [Client -> Nat \ {0}]
        /\ sockets \in [Client -> SUBSET Index] /\ inq \in [Client -> Seq(Subject \cup {Text})]
    BY <2>1, <2>3 DEF Init
  <2> QED
    BY <1>3, <2>2, <2>4, <2>5 DEF Shapes
<1>5. ASSUME NEW p \in Client PROVE Ahead(p) /\ Bounded(p) /\ Listed(p) /\ Listening(p)
  <2>1. /\ state[p] = "on" /\ pc[p] = "getline" /\ subscribed[p] = <<>> /\ num_groups[p] = 1
        /\ num_threads[p] = 1 /\ inq[p] = <<>> /\ lines = 0
    BY DEF Init
  <2>2. \A k \in Index : thread[p][k].at = IF k = 0 THEN "starting" ELSE "none"
    BY <1>1, <1>2
  <2>3. AddingThreads(p) = {} /\ Announcing(p) = {} /\ Unread(p) = {}
    <3>1. AddingThreads(p) = {}
      BY <2>2 DEF AddingThreads, Adding
    <3>2. Announcing(p) = {}
      BY DEF Announcing, Init
    <3>3. Unread(p) = {}
      BY <2>1 DEF Unread
    <3> QED
      BY <3>1, <3>2, <3>3
  <2>4. Pending(p) = 0
    BY <2>1, <2>3, FS_EmptySet DEF Pending, Adding
  <2>5. Ahead(p) /\ Bounded(p)
    BY <2>1, <2>2, <2>4 DEF Ahead, Bounded
  <2>6. Listed(p)
    BY <2>1 DEF Listed, Adding
  <2>7. Listening(p)
    <3>1. \A k \in Index : k < num_threads[p] => k = 0
      BY <1>0, <2>1
    <3> QED
      BY <2>1, <2>2, <3>1 DEF Listening
  <2> QED
    BY <2>5, <2>6, <2>7
<1> QED
  BY <1>4, <1>5 DEF Inv

(* Every step keeps the invariant. *)
LEMMA InvNext ==
    ASSUME Prompt, MaxLines < MAX_SUBJECTS, Inv, [Next]_vars
    PROVE  Inv'
<1>1. CASE UNCHANGED vars
  <2>1. UNCHANGED <<state, pc, loaded, lines, subscribed, data, subject_list, num_groups, num_threads, thread,
                    sockets, inq>>
    BY <1>1 DEF vars, main, shared, threads
  <2>2. Shapes'
    BY <2>1 DEF Inv, Shapes
  <2>3. ASSUME NEW q \in Client PROVE Good(q)'
    <3>1. Keeps(q) /\ Announcing(q)' = Announcing(q) /\ Unread(q)' = Unread(q)
      BY <2>1 DEF Keeps, Announcing, Unread, Known
    <3>2. Cardinality(Announcing(q)) \in Nat /\ Cardinality(Unread(q)) \in Nat /\ lines \in Nat /\ lines' = lines
      BY <2>1, Counts, BoundsAssumption DEF Inv, Shapes
    <3> QED
      BY <2>2, <3>1, <3>2, KeptGood
  <2> QED
    BY <2>2, <2>3 DEF Inv, Good
<1>2. ASSUME NEW p \in Client, UserNext(p) PROVE Inv'
  BY <1>2, UserStep
<1>3. ASSUME NEW p \in Client, MainNext(p) PROVE Inv'
  BY <1>3, MainLoadsStep, MainStoresStep, MainAnnouncesStep DEF MainNext
<1>4. ASSUME NEW p \in Client, NEW k \in Index, ThreadNext(p, k) PROVE Inv'
  BY <1>4, ThreadStartsStep, ReceivesStep, ThreadLoadsStep, ThreadStoresStep, ThreadCopiesStep DEF ThreadNext
<1> QED
  BY <1>1, <1>2, <1>3, <1>4 DEF Next

(* What main has read is no more than the table holds. *)
LoadsFit == \A p \in Client : loaded[p] <= MAX_SUBJECTS

(* main reads a num_groups that is within the table. *)
LEMMA LoadsFitNext ==
    ASSUME MaxLines < MAX_SUBJECTS, Inv, LoadsFit, [Next]_vars
    PROVE  LoadsFit'
<1>1. CASE UNCHANGED loaded
  BY <1>1 DEF LoadsFit
<1>2. ASSUME NEW p \in Client, MainLoads(p) PROVE LoadsFit'
  <2>1. num_groups[p] <= MAX_SUBJECTS
    BY InTables
  <2>2. loaded'[p] = num_groups[p] /\ \A q \in Client \ {p} : loaded'[q] = loaded[q]
    BY <1>2 DEF MainLoads, Inv, Shapes
  <2> QED
    BY <2>1, <2>2 DEF LoadsFit
<1>3. UNCHANGED loaded \/ \E p \in Client : MainLoads(p)
  <2>1. ASSUME NEW p \in Client, UserNext(p) PROVE UNCHANGED loaded
    BY <2>1 DEF UserNext, Plain, Exit, SubscribeKnown, Subscribe, SendTo
  <2>2. ASSUME NEW p \in Client, MainNext(p) PROVE UNCHANGED loaded \/ MainLoads(p)
    BY <2>2 DEF MainNext, MainStores, MainAnnounces
  <2>3. ASSUME NEW p \in Client, NEW k \in Index, ThreadNext(p, k) PROVE UNCHANGED loaded
    BY <2>3 DEF ThreadNext, ThreadStarts, Receives, ThreadLoads, ThreadStores, ThreadCopies, main
  <2>4. UNCHANGED vars => UNCHANGED loaded
    BY DEF vars, main
  <2> QED
    BY <2>1, <2>2, <2>3, <2>4 DEF Next
<1> QED
  BY <1>1, <1>2, <1>3

(* The two hold together. *)
LEMMA InvHolds ==
    ASSUME Prompt, MaxLines < MAX_SUBJECTS
    PROVE  Spec => [](Inv /\ LoadsFit)
<1>1. Init => Inv /\ LoadsFit
  <2>1. Init => LoadsFit
    BY BoundsAssumption DEF Init, LoadsFit
  <2> QED
    BY <2>1, InvInit
<1>2. Inv /\ LoadsFit /\ [Next]_vars => (Inv /\ LoadsFit)'
  BY InvNext, LoadsFitNext
<1> QED
  BY <1>1, <1>2, PTL DEF Spec

(* What the invariant says of the properties. *)
LEMMA InvImplies ==
    ASSUME MaxLines < MAX_SUBJECTS, Inv, LoadsFit
    PROVE  ChatInv /\ NoneDies /\ OwnGroup
<1>0. Shapes
  BY DEF Inv
<1>1. TypeOK
  <2>1. \A p \in Client : /\ num_groups[p] \in 1 .. MAX_SUBJECTS /\ num_threads[p] \in 1 .. MAX_SUBJECTS
                          /\ loaded[p] \in 0 .. MAX_SUBJECTS
    <3> SUFFICES ASSUME NEW p \in Client
                 PROVE  /\ num_groups[p] \in 1 .. MAX_SUBJECTS /\ num_threads[p] \in 1 .. MAX_SUBJECTS
                        /\ loaded[p] \in 0 .. MAX_SUBJECTS
      OBVIOUS
    <3>1. loaded[p] \in Nat /\ loaded[p] <= MAX_SUBJECTS
      BY <1>0 DEF Shapes, LoadsFit
    <3> QED
      BY <3>1, InTables
  <2>2. /\ num_groups \in [Client -> 1 .. MAX_SUBJECTS] /\ num_threads \in [Client -> 1 .. MAX_SUBJECTS]
        /\ loaded \in [Client -> 0 .. MAX_SUBJECTS]
    BY <1>0, <2>1 DEF Shapes
  <2>3. /\ \A p \in Client : subscribed[p] \in Seq(Subject) /\ inq[p] \in Seq(Subject \cup {Text})
        /\ \A p \in Client : \A k \in Index : thread[p][k] \in Thread
    BY <1>0 DEF Shapes
  <2> QED
    BY <1>0, <2>2, <2>3 DEF TypeOK, Shapes
<1>2. SubscriptionsKept
  BY DEF SubscriptionsKept, Inv, Listed
<1>3. NoneDies /\ OwnGroup
  BY DEF NoneDies, OwnGroup, Inv, Listening
<1> QED
  BY <1>1, <1>2, <1>3 DEF ChatInv

(* With prompt threads and fewer lines than entries, num_groups, which the *)
(* code compares with nothing, stays within subject_list; a subscription's *)
(* entry is never written over; and nothing is subscribed to twice: though *)
(* main and thread 0 add to num_groups without the lock.                   *)
THEOREM TablesCorrect ==
    ASSUME Prompt, MaxLines < MAX_SUBJECTS
    PROVE  Spec => []ChatInv
<1>1. Inv /\ LoadsFit => ChatInv
  BY InvImplies
<1> QED
  BY <1>1, InvHolds, PTL

(* With prompt threads no !sendto goes through a socket not yet opened, so *)
(* no client ends by the exit(1) of a failing sendto.                      *)
THEOREM NobodyDies ==
    ASSUME Prompt, MaxLines < MAX_SUBJECTS
    PROVE  Spec => []NoneDies
<1>1. Inv /\ LoadsFit => NoneDies
  BY InvImplies
<1> QED
  BY <1>1, InvHolds, PTL

(* With prompt threads each reads its tid before main's frame is reused:   *)
(* the thread listens to the group of its own number.                      *)
THEOREM GroupOfItsOwn ==
    ASSUME Prompt, MaxLines < MAX_SUBJECTS
    PROVE  Spec => []OwnGroup
<1>1. Inv /\ LoadsFit => OwnGroup
  BY InvImplies
<1> QED
  BY <1>1, InvHolds, PTL

=============================================================================
