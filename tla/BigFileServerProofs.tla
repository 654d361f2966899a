------------------------ MODULE BigFileServerProofs ------------------------
(***************************************************************************)
(* Theorems about BigFileServer, for any number of clients, messages and   *)
(* lines typed: the table of connections of both servers, the part of it   *)
(* that the name server looks at, and clients that wait for their answers. *)
(***************************************************************************)
EXTENDS BigFileServer, FiniteSetTheorems, WellFoundedInduction, TLAPS

Accepted == {c \in Client : conn[c] \in {"open", "closed"}}
Open == {c \in Client : conn[c] = "open"}
Used == {s \in Slots : client_fds[s] # Free}

(* connectcnt is the number of connections ever accepted for the name      *)
(* server, which fills no entry beyond it, and of those that are open for  *)
(* a data server.                                                          *)
CountInv ==
    /\ kind = "name" => connectcnt = Cardinality(Accepted) /\ \A s \in Used : s < connectcnt
    /\ kind = "data" => connectcnt = Cardinality(Open)

(* What the blocking reads find, and that no answer is without a message. *)
ConnInv ==
    /\ pc = "console" => typed > 0
    /\ pc \in {"greet", "greet2"} => childfd \in Client
    /\ pc = "greet2" => kind = "data"
    /\ \A c \in Client : answers[c] + Len(inq[c]) <= sent[c]

(* A patient client of the name server leaves nothing behind. *)
PatientInv ==
    kind = "name" /\ Patient =>
        /\ cause # "reset"
        /\ \A c \in Client : peer[c] # "rst" /\ (peer[c] = "fin" => inq[c] = <<>>)

Inv == TypeOK /\ TableInv /\ CountInv /\ ConnInv /\ PatientInv

-----------------------------------------------------------------------------
(* Finite sets and the first free entry. *)

(* A set of numbers that is not empty has a least one. *)
LEMMA LeastNumber ==
    ASSUME NEW T \in SUBSET Nat, T # {}
    PROVE  \E x \in T : \A y \in T : x <= y
<1> DEFINE R == {ss \in Nat \X Nat : ss[1] < ss[2]}
<1>1. IsWellFoundedOn(R, Nat)
  BY NatLessThanWellFounded DEF OpToRel
<1>2. \A x, y \in Nat : y < x => <<y, x>> \in R
  OBVIOUS
<1>3. PICK x \in T : \A y \in T : ~ (<<y, x>> \in R)
  <2> HIDE DEF R
  <2> QED
    BY <1>1, WFMin
<1>4. ASSUME NEW y \in T PROVE x <= y
  <2>1. ~(y < x)
    BY <1>2, <1>3
  <2>2. x \in Nat /\ y \in Nat
    OBVIOUS
  <2> HIDE DEF R
  <2> QED
    BY <2>1, <2>2
<1> QED
  BY <1>4

(* The clients and the entries of the table are finitely many. *)
LEMMA Finite ==
    /\ IsFiniteSet(Client) /\ Cardinality(Client) \in Nat
    /\ IsFiniteSet(Slots) /\ Slots \subseteq Nat
    /\ \A S \in SUBSET Client : IsFiniteSet(S) /\ Cardinality(S) \in Nat
                                /\ Cardinality(S) <= Cardinality(Client)
    /\ \A S \in SUBSET Slots : IsFiniteSet(S) /\ Cardinality(S) \in Nat
    /\ Free \notin Client
<1>1. IsFiniteSet(Client) /\ Cardinality(Client) \in Nat
  BY ClientAssumption, FS_CardinalityType
<1>2. IsFiniteSet(Slots) /\ Slots \subseteq Nat
  BY <1>1, FS_Interval DEF Slots
<1>3. \A S \in SUBSET Client : IsFiniteSet(S) /\ Cardinality(S) \in Nat
                               /\ Cardinality(S) <= Cardinality(Client)
  BY <1>1, FS_Subset, FS_CardinalityType
<1>4. \A S \in SUBSET Slots : IsFiniteSet(S) /\ Cardinality(S) \in Nat
  BY <1>2, FS_Subset, FS_CardinalityType
<1> QED
  BY <1>1, <1>2, <1>3, <1>4, ClientAssumption DEF Free

(* A client that waits to be accepted is not counted, so both servers have *)
(* an entry for it among the first connectcnt + 1.                         *)
LEMMA RoomForOne ==
    ASSUME Inv, NEW c \in Backlog
    PROVE  /\ connectcnt < Cardinality(Client)
           /\ \E s \in Slots : s <= connectcnt /\ client_fds[s] = Free
<1>0. /\ connectcnt \in Nat /\ c \in Client /\ conn[c] = "backlog" /\ kind \in {"name", "data"}
      /\ Used \in SUBSET Slots /\ Slots \subseteq Nat /\ Cardinality(Client) \in Nat
  BY Finite DEF Inv, TypeOK, Backlog, Used
<1>1. ASSUME NEW S \in SUBSET Client, c \notin S PROVE Cardinality(S) < Cardinality(Client)
  <2>1. IsFiniteSet(S) /\ Cardinality(S) \in Nat /\ S \cup {c} \in SUBSET Client
    BY <1>0, Finite
  <2>2. Cardinality(S \cup {c}) = Cardinality(S) + 1
    BY <1>1, <2>1, FS_AddElement
  <2>3. Cardinality(S \cup {c}) <= Cardinality(Client)
    BY <2>1, Finite
  <2> QED
    BY <1>0, <2>1, <2>2, <2>3
<1>2. connectcnt < Cardinality(Client)
  <2>1. Accepted \in SUBSET Client /\ Open \in SUBSET Client /\ c \notin Accepted /\ c \notin Open
    BY <1>0 DEF Accepted, Open
  <2> QED
    BY <1>0, <1>1, <2>1 DEF Inv, CountInv
<1>3. CASE kind = "name"
  <2>1. connectcnt \in Slots /\ connectcnt \notin Used
    BY <1>0, <1>2, <1>3 DEF Inv, CountInv, Slots
  <2> QED
    BY <1>0, <1>2, <2>1 DEF Used
<1>4. CASE kind = "data"
  <2> SUFFICES ASSUME \A s \in Slots : s <= connectcnt => client_fds[s] # Free PROVE FALSE
    BY <1>2
  <2>1. 0 .. connectcnt \in SUBSET Used
    BY <1>0, <1>2 DEF Used, Slots
  <2>2. IsFiniteSet(Used) /\ Cardinality(Used) = connectcnt
    BY <1>0, <1>4, Finite DEF Inv, TableInv, Used
  <2>3. Cardinality(0 .. connectcnt) <= connectcnt
    BY <2>1, <2>2, FS_Subset
  <2>4. Cardinality(0 .. connectcnt) = connectcnt + 1
    BY <1>0, FS_Interval
  <2> QED
    BY <1>0, <2>3, <2>4
<1> QED
  BY <1>0, <1>2, <1>3, <1>4

(* The entry that Accept fills: the first free one. *)
LEMMA FirstFreeExists ==
    ASSUME Inv, NEW c \in Backlog
    PROVE  \E s \in Slots : /\ s <= connectcnt /\ client_fds[s] = Free
                            /\ \A r \in Slots : (r <= connectcnt /\ FirstFree(r)) <=> r = s
<1> DEFINE T == {s \in Slots : s <= connectcnt /\ client_fds[s] = Free}
<1>1. T \in SUBSET Nat /\ T # {} /\ Slots \subseteq Nat /\ connectcnt \in Nat
  <2>1. T # {}
    BY RoomForOne
  <2>2. connectcnt \in Nat /\ Slots \subseteq Nat
    BY Finite DEF Inv, TypeOK
  <2> QED
    BY <2>1, <2>2
<1>2. PICK s \in T : \A r \in T : s <= r
  BY <1>1, LeastNumber
<1>3. \A r \in 0 .. s - 1 : r \in Slots
  BY <1>1, Finite DEF Slots
<1>4. FirstFree(s)
  BY <1>1, <1>2, <1>3 DEF FirstFree
<1>5. ASSUME NEW r \in Slots, r <= connectcnt, FirstFree(r) PROVE r = s
  <2>1. r \in T /\ s <= r
    BY <1>2, <1>5 DEF FirstFree
  <2>2. ~(s \in 0 .. r - 1)
    BY <1>2, <1>5 DEF FirstFree
  <2> QED
    BY <1>1, <2>1, <2>2
<1> QED
  BY <1>2, <1>4, <1>5

-----------------------------------------------------------------------------
(* The table. *)

(* A step that neither accepts nor closes leaves the table as it is. *)
LEMMA TableAside ==
    ASSUME Inv, UNCHANGED <<kind, client_fds, connectcnt>>,
           \A c \in Client : conn'[c] = conn[c] \/ (conn[c] = "out" /\ conn'[c] = "backlog")
    PROVE  TableInv' /\ CountInv'
<1>1. Accepted' = Accepted /\ Open' = Open /\ Used' = Used
  BY DEF Accepted, Open, Used
<1>2. \A c \in Client : (conn'[c] = "open") = (conn[c] = "open")
  OBVIOUS
<1> QED
  BY <1>1, <1>2 DEF Inv, TableInv, CountInv

(* Accept enters the client once, in the first free entry. *)
LEMMA TableAccept ==
    ASSUME Inv, NEW c \in Client, Accept(c)
    PROVE  /\ TableInv' /\ CountInv'
           /\ connectcnt' \in 0 .. Cardinality(Client)
           /\ client_fds' \in [Slots -> Client \cup {Free}]
<1>0. /\ c \in Backlog /\ conn[c] = "backlog" /\ kind \in {"name", "data"}
      /\ conn \in [Client -> {"out", "backlog", "open", "closed"}]
      /\ client_fds \in [Slots -> Client \cup {Free}] /\ connectcnt \in Nat
      /\ Slots \subseteq Nat /\ Free \notin Client /\ Cardinality(Client) \in Nat
  BY Finite DEF Inv, TypeOK, Accept, Backlog
<1>1. PICK s0 \in Slots : /\ s0 <= connectcnt /\ client_fds[s0] = Free
                          /\ \A r \in Slots : (r <= connectcnt /\ FirstFree(r)) <=> r = s0
  BY <1>0, FirstFreeExists
<1>2. /\ conn' = [conn EXCEPT ![c] = "open"] /\ connectcnt' = connectcnt + 1 /\ kind' = kind
      /\ client_fds' = [s \in Slots |-> IF s <= connectcnt /\ FirstFree(s) THEN c ELSE client_fds[s]]
  BY DEF Accept
<1>3. client_fds' \in [Slots -> Client \cup {Free}]
  BY <1>0, <1>2, Zenon
<1>4. client_fds'[s0] = c /\ \A s \in Slots \ {s0} : client_fds'[s] = client_fds[s]
  BY <1>1, <1>2
<1>5. connectcnt' \in 0 .. Cardinality(Client)
  BY <1>0, <1>2, RoomForOne
<1>6. \A s \in Slots : client_fds[s] # c
  BY <1>0 DEF Inv, TableInv
<1>7. \A d \in Client : (conn'[d] = "open") = (\E s \in Slots : client_fds'[s] = d)
  <2>1. ASSUME NEW d \in Client, d # c
        PROVE  /\ conn'[d] = conn[d]
               /\ (\E s \in Slots : client_fds'[s] = d) <=> (\E s \in Slots : client_fds[s] = d)
    <3>1. conn'[d] = conn[d]
      BY <1>0, <1>2, <2>1
    <3>2. client_fds[s0] # d
      BY <1>0, <1>1
    <3> QED
      BY <1>4, <2>1, <3>1, <3>2
  <2>2. conn'[c] = "open" /\ client_fds'[s0] = c
    BY <1>0, <1>2, <1>4
  <2>3. \A d \in Client : (conn[d] = "open") = (\E s \in Slots : client_fds[s] = d)
    BY DEF Inv, TableInv
  <2> QED
    BY <1>1, <2>1, <2>2, <2>3
<1>8. \A s, r \in Slots : client_fds'[s] = client_fds'[r] /\ client_fds'[s] # Free => s = r
  <2>1. \A s, r \in Slots : client_fds[s] = client_fds[r] /\ client_fds[s] # Free => s = r
    BY DEF Inv, TableInv
  <2> QED
    BY <1>4, <1>6, <2>1
<1>9. Used' = Used \cup {s0} /\ s0 \notin Used /\ Used \in SUBSET Slots
  BY <1>0, <1>1, <1>4 DEF Used
<1>10. /\ Accepted' = Accepted \cup {c} /\ c \notin Accepted /\ Accepted \in SUBSET Client
       /\ Open' = Open \cup {c} /\ c \notin Open /\ Open \in SUBSET Client
  BY <1>0, <1>2 DEF Accepted, Open
<1>11. /\ Cardinality(Used') = Cardinality(Used) + 1
       /\ Cardinality(Accepted') = Cardinality(Accepted) + 1
       /\ Cardinality(Open') = Cardinality(Open) + 1
  BY <1>9, <1>10, Finite, FS_AddElement
<1>12. CountInv'
  <2>1. CASE kind = "name"
    <3>1. \A s \in Used' : s < connectcnt + 1
      BY <1>0, <1>1, <1>9, <2>1 DEF Inv, CountInv
    <3> QED
      BY <1>2, <1>11, <2>1, <3>1 DEF Inv, CountInv
  <2>2. CASE kind = "data"
    BY <1>2, <1>11, <2>2 DEF Inv, CountInv
  <2> QED
    BY <1>0, <2>1, <2>2
<1>13. TableInv'
  <2>1. kind' = "data" => Cardinality({s \in Slots : client_fds'[s] # Free}) = connectcnt'
    BY <1>2, <1>11 DEF Inv, TableInv, Used
  <2> QED
    BY <1>7, <1>8, <2>1 DEF TableInv
<1> QED
  BY <1>3, <1>5, <1>12, <1>13

(* A close frees the entry of its client and no other. *)
LEMMA TableClose ==
    ASSUME Inv, LoopCloses
    PROVE  /\ TableInv' /\ CountInv'
           /\ connectcnt' \in 0 .. Cardinality(Client)
           /\ client_fds' \in [Slots -> Client \cup {Free}]
           /\ conn' \in [Client -> {"out", "backlog", "open", "closed"}]
           /\ i' \in 0 .. Cardinality(Client)
<1>0. /\ conn \in [Client -> {"out", "backlog", "open", "closed"}] /\ kind \in {"name", "data"}
      /\ client_fds \in [Slots -> Client \cup {Free}] /\ connectcnt \in 0 .. Cardinality(Client)
      /\ i \in Nat /\ Slots \subseteq Nat /\ Free \notin Client /\ Cardinality(Client) \in Nat
      /\ ready \subseteq Client
  BY Finite DEF Inv, TypeOK
<1> PICK c : c = client_fds[i]
  OBVIOUS
<1>1. /\ i < connectcnt /\ c \in ready
      /\ conn' = [conn EXCEPT ![c] = "closed"]
      /\ client_fds' = [client_fds EXCEPT ![i] = Free]
      /\ connectcnt' = IF kind = "data" THEN connectcnt - 1 ELSE connectcnt
      /\ i' = i + 1 /\ kind' = kind
  BY DEF LoopCloses, InLoop, Entry, AfterClose, LoopRest
<1>2. i \in Slots /\ c \in Client
  BY <1>0, <1>1 DEF Slots
<1>3. /\ client_fds' \in [Slots -> Client \cup {Free}]
      /\ client_fds'[i] = Free /\ \A s \in Slots \ {i} : client_fds'[s] = client_fds[s]
      /\ conn' \in [Client -> {"out", "backlog", "open", "closed"}]
      /\ conn'[c] = "closed" /\ \A d \in Client \ {c} : conn'[d] = conn[d]
  BY <1>0, <1>1, <1>2
<1>4. /\ \A s, r \in Slots : client_fds[s] = client_fds[r] /\ client_fds[s] # Free => s = r
      /\ \A d \in Client : (conn[d] = "open") = (\E s \in Slots : client_fds[s] = d)
  BY DEF Inv, TableInv
<1>5. \A s \in Slots \ {i} : client_fds[s] # c
  BY <1>0, <1>2, <1>4
<1>6. \A d \in Client : (conn'[d] = "open") = (\E s \in Slots : client_fds'[s] = d)
  <2>1. ASSUME NEW d \in Client, d # c
        PROVE  (\E s \in Slots : client_fds'[s] = d) <=> (\E s \in Slots : client_fds[s] = d)
    BY <1>0, <1>2, <1>3, <2>1
  <2>2. ~(\E s \in Slots : client_fds'[s] = c)
    BY <1>0, <1>2, <1>3, <1>5
  <2>3. \A d \in Client : (conn'[d] = "open") <=> (\E s \in Slots : client_fds'[s] = d)
    <3>1. conn'[c] # "open"
      BY <1>3
    <3> QED
      BY <1>3, <1>4, <2>1, <2>2, <3>1
  <2> QED
    BY <2>3
<1>7. \A s, r \in Slots : client_fds'[s] = client_fds'[r] /\ client_fds'[s] # Free => s = r
  BY <1>2, <1>3, <1>4
<1>8. Used' = Used \ {i} /\ i \in Used /\ Used \in SUBSET Slots
  BY <1>0, <1>2, <1>3 DEF Used
<1>9. /\ conn[c] = "open"
      /\ Accepted' = Accepted
      /\ Open' = Open \ {c} /\ c \in Open /\ Open \in SUBSET Client
  <2>1. conn[c] = "open"
    BY <1>2, <1>4
  <2> QED
    BY <1>0, <1>2, <1>3, <2>1 DEF Accepted, Open
<1>10. /\ Cardinality(Used') = Cardinality(Used) - 1
       /\ Cardinality(Open') = Cardinality(Open) - 1
  BY <1>8, <1>9, Finite, FS_RemoveElement
<1>11. CountInv'
  <2>1. CASE kind = "name"
    BY <1>1, <1>8, <1>9, <2>1 DEF Inv, CountInv
  <2>2. CASE kind = "data"
    BY <1>1, <1>10, <2>2 DEF Inv, CountInv
  <2> QED
    BY <1>0, <2>1, <2>2
<1>12. TableInv'
  <2>1. kind' = "data" => Cardinality({s \in Slots : client_fds'[s] # Free}) = connectcnt'
    BY <1>1, <1>10 DEF Inv, TableInv, Used
  <2> QED
    BY <1>6, <1>7, <2>1 DEF TableInv
<1>13. connectcnt' \in 0 .. Cardinality(Client) /\ i' \in 0 .. Cardinality(Client)
  BY <1>0, <1>1
<1> QED
  BY <1>3, <1>11, <1>12, <1>13

-----------------------------------------------------------------------------
(* Messages and answers. *)

(* send() after a message was read: what it does to the clients.  To an    *)
(* open client it answers that message; only one that has closed can make  *)
(* the connection one that was reset, and only a reset one ends the server. *)
LEMMA SendsFacts ==
    ASSUME Inv, NEW c \in Client, NEW next, Sends(c, next),
           NEW q \in Seq(Message), inq' = [inq EXCEPT ![c] = q], UNCHANGED <<kind, sent>>,
           Len(q) <= Len(inq[c]), peer[c] = "open" => Len(q) < Len(inq[c]),
           kind = "name" => inq[c] # <<>>
    PROVE  /\ pc' = next \/ pc' = "died"
           /\ cause' \in {cause, "reset"}
           /\ peer' \in [Client -> {"open", "fin", "rst"}]
           /\ answers' \in [Client -> 0 .. MaxSent]
           /\ inq' \in [Client -> Seq(Message)]
           /\ \A d \in Client : answers'[d] + Len(inq'[d]) <= sent'[d]
           /\ PatientInv'
<1>0. /\ inq \in [Client -> Seq(Message)] /\ answers \in [Client -> 0 .. MaxSent] /\ MaxSent \in Nat
      /\ peer \in [Client -> {"open", "fin", "rst"}] /\ sent \in [Client -> 0 .. MaxSent]
      /\ \A d \in Client : answers[d] + Len(inq[d]) <= sent[d]
  BY BoundsAssumption DEF Inv, TypeOK, ConnInv
<1>1. /\ inq' \in [Client -> Seq(Message)] /\ inq'[c] = q
      /\ \A d \in Client \ {c} : inq'[d] = inq[d]
  BY <1>0
<1>2. /\ answers[c] \in Nat /\ Len(q) \in Nat /\ Len(inq[c]) \in Nat /\ sent[c] \in 0 .. MaxSent
      /\ answers[c] + Len(inq[c]) <= sent[c]
  BY <1>0
<1>3. CASE peer[c] = "open" /\ answers' = [answers EXCEPT ![c] = @ + 1] /\ pc' = next
           /\ UNCHANGED <<cause, peer>>
  <2>1. /\ answers'[c] = answers[c] + 1 /\ \A d \in Client \ {c} : answers'[d] = answers[d]
        /\ answers[c] + 1 + Len(q) <= sent[c]
    BY <1>0, <1>2, <1>3
  <2>2. answers[c] + 1 \in 0 .. MaxSent
    BY <1>0, <1>2, <2>1
  <2>3. answers' \in [Client -> 0 .. MaxSent]
    BY <1>0, <1>3, <2>2
  <2>4. \A d \in Client : answers'[d] + Len(inq'[d]) <= sent'[d]
    BY <1>0, <1>1, <2>1
  <2>5. PatientInv'
    BY <1>1, <1>3 DEF Inv, PatientInv
  <2> QED
    BY <1>0, <1>1, <1>3, <2>3, <2>4, <2>5
<1>4. CASE \/ /\ peer[c] = "fin" /\ peer' = [peer EXCEPT ![c] = "rst"] /\ pc' = next
              /\ UNCHANGED <<cause, answers>>
           \/ peer[c] = "rst" /\ Dies("reset") /\ UNCHANGED <<peer, answers>>
  <2>1. /\ peer' \in [Client -> {"open", "fin", "rst"}] /\ answers' = answers
        /\ cause' \in {cause, "reset"} /\ (pc' = next \/ pc' = "died")
    BY <1>0, <1>4 DEF Dies
  <2>2. \A d \in Client : answers'[d] + Len(inq'[d]) <= sent'[d]
    <3>1. answers[c] + Len(q) <= sent[c]
      BY <1>0, <1>2
    <3> QED
      BY <1>0, <1>1, <2>1, <3>1
  <2>3. ~(kind = "name" /\ Patient)
    BY <1>4 DEF Inv, PatientInv
  <2> QED
    BY <1>0, <1>1, <2>1, <2>2, <2>3 DEF PatientInv
<1> QED
  BY <1>3, <1>4 DEF Sends

(* A message that is read leaves the rest of them. *)
LEMMA TailFacts ==
    ASSUME NEW q \in Seq(Message), q # <<>>
    PROVE  /\ Tail(q) \in Seq(Message) /\ Len(Tail(q)) = Len(q) - 1 /\ Len(q) \in Nat
           /\ Head(q) \in Message
OBVIOUS

-----------------------------------------------------------------------------
(* The steps. *)

(* Both servers start with an empty table. *)
LEMMA InvInit == Init => Inv
<1> SUFFICES ASSUME Init PROVE Inv
  OBVIOUS
<1>0. MaxSent \in Nat /\ MaxTyped \in Nat /\ Cardinality(Client) \in Nat
  BY BoundsAssumption, Finite
<1>1. Accepted = {} /\ Open = {} /\ Used = {}
  BY DEF Init, Accepted, Open, Used
<1>2. CountInv
  BY <1>1, FS_EmptySet DEF Init, CountInv
<1>3. TableInv
  <2>1. kind = "data" => Cardinality({s \in Slots : client_fds[s] # Free}) = connectcnt
    BY <1>1, FS_EmptySet DEF Init, Used
  <2>2. \A c \in Client : (conn[c] = "open") = (\E s \in Slots : client_fds[s] = c)
    BY Finite DEF Init
  <2> QED
    BY <2>1, <2>2 DEF Init, TableInv
<1>4. TypeOK
  <2>1. inq \in [Client -> Seq(Message)]
    BY DEF Init
  <2>2. /\ client_fds \in [Slots -> Client \cup {Free}]
        /\ conn \in [Client -> {"out", "backlog", "open", "closed"}]
        /\ peer \in [Client -> {"open", "fin", "rst"}]
        /\ sent \in [Client -> 0 .. MaxSent] /\ answers \in [Client -> 0 .. MaxSent]
    BY <1>0 DEF Init
  <2>3. /\ kind \in {"name", "data"} /\ pc = "select" /\ cause = "none" /\ connectcnt = 0
        /\ childfd = Free /\ ready = {} /\ i = 0 /\ notdone = TRUE /\ stdin = FALSE
        /\ typed = 0 /\ commands = 0
    BY DEF Init
  <2>4. /\ connectcnt \in 0 .. Cardinality(Client) /\ i \in 0 .. Cardinality(Client)
        /\ commands \in 0 .. MaxTyped /\ typed \in 0 .. commands
    BY <1>0, <2>3
  <2> QED
    BY <2>1, <2>2, <2>3, <2>4, Zenon DEF TypeOK
<1>5. ConnInv
  BY DEF Init, ConnInv
<1>6. PatientInv
  BY DEF Init, PatientInv
<1> QED
  BY <1>2, <1>3, <1>4, <1>5, <1>6 DEF Inv

(* The parts of a turn that read nothing from a client. *)
LEMMA QuietStep ==
    Inv /\ (Select \/ (\E exit \in BOOLEAN : Console(exit)) \/ LoopEnds \/ LoopSkips
            \/ LoopReadsConsole \/ OperatorTypes) => Inv'
<1> SUFFICES ASSUME Inv PROVE (Select \/ (\E exit \in BOOLEAN : Console(exit)) \/ LoopEnds \/ LoopSkips
                               \/ LoopReadsConsole \/ OperatorTypes) => Inv'
  OBVIOUS
<1>0. TypeOK /\ ConnInv /\ PatientInv /\ Cardinality(Client) \in Nat /\ MaxTyped \in Nat
  BY Finite, BoundsAssumption DEF Inv
<1>1. CASE Select
  <2>1. Watched \subseteq Client
    BY <1>0 DEF Watched, TypeOK
  <2>2. TypeOK'
    BY <1>0, <1>1, <2>1 DEF Select, TypeOK, console, clients
  <2> QED
    BY <1>0, <1>1, <2>2, TableAside DEF Inv, Select, ConnInv, PatientInv, console, clients
<1>2. CASE \E exit \in BOOLEAN : Console(exit)
  <2>1. TypeOK'
    BY <1>0, <1>2 DEF Console, TypeOK, ConnInv, clients
  <2> QED
    BY <1>0, <1>2, <2>1, TableAside DEF Inv, Console, ConnInv, PatientInv, clients
<1>3. CASE LoopEnds
  BY <1>0, <1>3, TableAside DEF Inv, LoopEnds, LoopEnd, LoopRest, TypeOK, Gone, ConnInv, PatientInv, console, clients
<1>4. CASE LoopSkips
  BY <1>0, <1>4, TableAside DEF Inv, LoopSkips, InLoop, LoopRest, TypeOK, ConnInv, PatientInv, console, clients
<1>5. CASE LoopReadsConsole
  BY <1>0, <1>5, TableAside DEF Inv, LoopReadsConsole, Dies, TypeOK, Gone, ConnInv, PatientInv, clients
<1>6. CASE OperatorTypes
  BY <1>0, <1>6, TableAside DEF Inv, OperatorTypes, TypeOK, ConnInv, PatientInv, server, clients
<1> QED
  BY <1>1, <1>2, <1>3, <1>4, <1>5, <1>6

(* A connection is accepted or closed, or a read fails. *)
LEMMA ConnectionStep == Inv /\ ((\E c \in Client : Accept(c)) \/ LoopCloses \/ LoopFails) => Inv'
<1> SUFFICES ASSUME Inv PROVE (\E c \in Client : Accept(c)) \/ LoopCloses \/ LoopFails => Inv'
  OBVIOUS
<1>0. TypeOK /\ ConnInv /\ PatientInv /\ Cardinality(Client) \in Nat
  BY Finite DEF Inv
<1>1. ASSUME NEW c \in Client, Accept(c) PROVE Inv'
  <2>1. TypeOK'
    <3>1. conn' \in [Client -> {"out", "backlog", "open", "closed"}]
      BY <1>0, <1>1 DEF Accept, TypeOK
    <3> QED
      BY <1>0, <1>1, <3>1, TableAccept DEF Accept, TypeOK, console
  <2> QED
    BY <1>0, <1>1, <2>1, TableAccept DEF Inv, Accept, ConnInv, PatientInv, console
<1>2. CASE LoopCloses
  <2>1. TypeOK'
    BY <1>0, <1>2, TableClose DEF LoopCloses, LoopRest, TypeOK, console
  <2> QED
    BY <1>0, <1>2, <2>1, TableClose DEF Inv, LoopCloses, InLoop, LoopRest, ConnInv, PatientInv, console
<1>3. CASE LoopFails
  <2>1. PatientInv'
    <3>1. Entry \in Client
      BY <1>0, <1>3 DEF LoopFails, TypeOK
    <3> QED
      BY <1>0, <1>3, <3>1 DEF LoopFails, PatientInv, LoopRest, clients
  <2> QED
    BY <1>0, <1>3, <2>1, TableAside
       DEF Inv, LoopFails, LoopRest, Dies, TypeOK, Gone, ConnInv, console, clients
<1> QED
  BY <1>1, <1>2, <1>3

(* A message is read and answered. *)
LEMMA AnswerStep ==
    ASSUME Inv, NEW c \in Client, NEW next \in {"select", "ended", "loop"}, Sends(c, next),
           NEW q \in Seq(Message), inq' = [inq EXCEPT ![c] = q],
           Len(q) <= Len(inq[c]), peer[c] = "open" => Len(q) < Len(inq[c]),
           kind = "name" => inq[c] # <<>>,
           i' \in 0 .. Cardinality(Client),
           UNCHANGED <<kind, client_fds, connectcnt, childfd, ready, notdone, stdin, typed, commands,
                       conn, sent>>
    PROVE  Inv'
<1>1. /\ pc' = next \/ pc' = "died"
      /\ cause' \in {cause, "reset"}
      /\ peer' \in [Client -> {"open", "fin", "rst"}]
      /\ answers' \in [Client -> 0 .. MaxSent]
      /\ inq' \in [Client -> Seq(Message)]
      /\ \A d \in Client : answers'[d] + Len(inq'[d]) <= sent'[d]
      /\ PatientInv'
  BY SendsFacts
<1>2. TableInv' /\ CountInv'
  BY TableAside
<1>3. TypeOK'
  BY <1>1 DEF Inv, TypeOK, Gone
<1>4. ConnInv'
  BY <1>1 DEF ConnInv
<1> QED
  BY <1>1, <1>2, <1>3, <1>4 DEF Inv

(* A message is read and not answered. *)
LEMMA SilentStep ==
    ASSUME Inv, NEW c \in Client, inq[c] # <<>>, inq' = [inq EXCEPT ![c] = Tail(@)],
           pc' \in {"select", "ended", "greet2", "died"}, cause' \in {cause, "segv"},
           pc' = "greet2" => kind = "data" /\ childfd \in Client,
           UNCHANGED <<kind, client_fds, connectcnt, childfd, ready, i, notdone, stdin, typed,
                       commands, conn, peer, sent, answers>>
    PROVE  Inv'
<1>0. /\ inq \in [Client -> Seq(Message)] /\ answers \in [Client -> 0 .. MaxSent] /\ MaxSent \in Nat
      /\ sent \in [Client -> 0 .. MaxSent]
      /\ \A d \in Client : answers[d] + Len(inq[d]) <= sent[d]
  BY BoundsAssumption DEF Inv, TypeOK, ConnInv
<1>1. /\ inq' \in [Client -> Seq(Message)] /\ inq'[c] = Tail(inq[c])
      /\ \A d \in Client \ {c} : inq'[d] = inq[d]
      /\ Len(inq'[c]) = Len(inq[c]) - 1 /\ Len(inq[c]) \in Nat
  BY <1>0, TailFacts
<1>2. \A d \in Client : answers'[d] + Len(inq'[d]) <= sent'[d]
  BY <1>0, <1>1
<1>3. TypeOK'
  BY <1>1 DEF Inv, TypeOK, Gone
<1>4. ConnInv'
  BY <1>2 DEF ConnInv
<1>5. PatientInv'
  BY <1>1 DEF Inv, PatientInv
<1> QED
  BY <1>3, <1>4, <1>5, TableAside DEF Inv

(* The reads on a new connection, and the echo in the loop. *)
LEMMA ReadStep == Inv /\ (GreetMessage \/ GreetNothing \/ GreetSecond \/ LoopEchoes) => Inv'
<1> SUFFICES ASSUME Inv PROVE GreetMessage \/ GreetNothing \/ GreetSecond \/ LoopEchoes => Inv'
  OBVIOUS
<1>0. TypeOK /\ ConnInv /\ PatientInv /\ Cardinality(Client) \in Nat
      /\ inq \in [Client -> Seq(Message)] /\ i \in 0 .. Cardinality(Client)
  BY Finite DEF Inv, TypeOK
<1>a. LoopEnd(notdone) \in {"select", "ended"}
  BY DEF LoopEnd
<1>1. CASE GreetMessage
  <2>0. /\ childfd \in Client /\ inq[childfd] # <<>> /\ inq[childfd] \in Seq(Message)
        /\ inq' = [inq EXCEPT ![childfd] = Tail(inq[childfd])]
        /\ UNCHANGED <<kind, client_fds, connectcnt, childfd, ready, i, notdone, stdin, typed,
                       commands, conn, sent>>
    BY <1>0, <1>1 DEF GreetMessage, ConnInv, console
  <2>1. CASE Sends(childfd, LoopEnd(notdone))
    <3> PICK q : q = Tail(inq[childfd])
      OBVIOUS
    <3>1. q \in Seq(Message) /\ Len(q) < Len(inq[childfd]) /\ Len(q) <= Len(inq[childfd])
      BY <2>0, TailFacts
    <3> QED
      BY <1>0, <1>a, <2>0, <2>1, <3>1, AnswerStep
  <2>2. CASE ~Sends(childfd, LoopEnd(notdone))
    <3>1. /\ pc' \in {"select", "ended", "greet2", "died"} /\ cause' \in {cause, "segv"}
          /\ pc' = "greet2" => kind = "data"
          /\ UNCHANGED <<peer, answers>>
      BY <1>1, <1>a, <2>2 DEF GreetMessage, Dies
    <3> QED
      BY <2>0, <3>1, SilentStep
  <2> QED
    BY <2>1, <2>2
<1>2. CASE GreetNothing
  <2>0. childfd \in Client /\ pc' \in {"select", "ended", "died"} /\ cause' \in {cause, "reset"}
    BY <1>0, <1>2, <1>a DEF GreetNothing, ConnInv, Dies
  <2>1. PatientInv'
    BY <1>0, <1>2, <2>0 DEF GreetNothing, PatientInv, clients
  <2>2. TypeOK' /\ ConnInv'
    BY <1>0, <1>2, <2>0 DEF GreetNothing, TypeOK, ConnInv, Gone, console, clients
  <2> QED
    BY <1>2, <2>1, <2>2, TableAside DEF Inv, GreetNothing, clients
<1>3. CASE GreetSecond
  <2>0. /\ childfd \in Client /\ kind = "data" /\ inq[childfd] \in Seq(Message)
        /\ Readable(childfd) /\ peer[childfd] \in {"open", "fin", "rst"}
        /\ UNCHANGED <<kind, client_fds, connectcnt, childfd, ready, i, notdone, stdin, typed,
                       commands, conn, sent>>
    BY <1>0, <1>3 DEF GreetSecond, ConnInv, TypeOK, console
  <2>1. CASE /\ inq[childfd] = <<>> /\ peer[childfd] = "rst" /\ Dies("reset")
             /\ UNCHANGED <<inq, peer, answers>>
    BY <1>0, <2>0, <2>1, TableAside DEF Dies, Inv, TypeOK, ConnInv, PatientInv, Gone
  <2>2. CASE /\ inq' = [inq EXCEPT ![childfd] = IF @ = <<>> THEN @ ELSE Tail(@)]
             /\ Sends(childfd, LoopEnd(notdone))
    <3> PICK q : q = IF inq[childfd] = <<>> THEN inq[childfd] ELSE Tail(inq[childfd])
      OBVIOUS
    <3>1. /\ q \in Seq(Message) /\ Len(q) <= Len(inq[childfd])
          /\ inq[childfd] # <<>> => Len(q) < Len(inq[childfd])
      BY <2>0, TailFacts
    <3>2. peer[childfd] = "open" => inq[childfd] # <<>>
      BY <2>0 DEF Readable
    <3> QED
      BY <1>0, <1>a, <2>0, <2>2, <3>1, <3>2, AnswerStep
  <2> QED
    BY <1>3, <2>1, <2>2 DEF GreetSecond
<1>4. CASE LoopEchoes
  <2>0. /\ Entry \in Client /\ inq[Entry] # <<>> /\ inq[Entry] \in Seq(Message)
        /\ inq' = [inq EXCEPT ![Entry] = Tail(inq[Entry])]
        /\ Sends(Entry, "loop") /\ i' \in 0 .. Cardinality(Client)
        /\ UNCHANGED <<kind, client_fds, connectcnt, childfd, ready, notdone, stdin, typed,
                       commands, conn, sent>>
    BY <1>0, <1>4 DEF LoopEchoes, InLoop, TypeOK, LoopRest, console
  <2> QED
    <3> PICK c : c = Entry
      OBVIOUS
    <3> PICK q : q = Tail(inq[c])
      OBVIOUS
    <3>1. q \in Seq(Message) /\ Len(q) < Len(inq[c]) /\ Len(q) <= Len(inq[c])
      BY <2>0, TailFacts
    <3> QED
      BY <2>0, <3>1, AnswerStep
<1> QED
  BY <1>1, <1>2, <1>3, <1>4

(* The clients. *)
LEMMA ClientStep ==
    Inv /\ (\E c \in Client : Connect(c) \/ recvmessage(c) \/ UserActs(c)) => Inv'
<1> SUFFICES ASSUME Inv, NEW c \in Client PROVE Connect(c) \/ recvmessage(c) \/ UserActs(c) => Inv'
  OBVIOUS
<1>0. /\ TypeOK /\ ConnInv /\ PatientInv /\ MaxSent \in Nat
      /\ inq \in [Client -> Seq(Message)] /\ answers \in [Client -> 0 .. MaxSent]
      /\ sent \in [Client -> 0 .. MaxSent] /\ peer \in [Client -> {"open", "fin", "rst"}]
      /\ \A d \in Client : answers[d] + Len(inq[d]) <= sent[d]
  BY BoundsAssumption DEF Inv, TypeOK, ConnInv
<1>1. CASE Connect(c)
  BY <1>0, <1>1, TableAside DEF Inv, Connect, TypeOK, ConnInv, PatientInv, server, console
<1>2. CASE recvmessage(c)
  <2>1. answers' \in [Client -> 0 .. MaxSent] /\ \A d \in Client : answers'[d] <= answers[d]
    BY <1>0, <1>2 DEF recvmessage
  <2>2. \A d \in Client : answers'[d] + Len(inq[d]) <= sent[d]
    <3>1. \A d \in Client : Len(inq[d]) \in Nat
      BY <1>0
    <3> QED
      BY <1>0, <2>1, <3>1
  <2> QED
    BY <1>0, <1>2, <2>1, <2>2, TableAside DEF Inv, recvmessage, TypeOK, ConnInv, PatientInv, server, console
<1>3. CASE Exit(c)
  <2>1. /\ peer' \in [Client -> {"open", "fin", "rst"}] /\ \A d \in Client \ {c} : peer'[d] = peer[d]
        /\ peer'[c] = IF answers[c] > 0 THEN "rst" ELSE "fin"
        /\ UNCHANGED <<kind, server, console, conn, inq, sent, answers>>
    BY <1>0, <1>3 DEF Exit
  <2>2. kind = "name" /\ Patient => inq[c] = <<>> /\ answers[c] = 0
    BY <1>3 DEF Exit, Answered
  <2>3. PatientInv'
    <3> SUFFICES ASSUME kind = "name", Patient
                 PROVE  /\ cause' # "reset"
                        /\ \A d \in Client : peer'[d] # "rst" /\ (peer'[d] = "fin" => inq'[d] = <<>>)
      BY <2>1 DEF PatientInv
    <3>1. peer'[c] = "fin" /\ inq'[c] = <<>> /\ UNCHANGED <<cause, inq>>
      BY <2>1, <2>2 DEF server
    <3> QED
      BY <1>0, <2>1, <3>1 DEF PatientInv
  <2> QED
    BY <1>0, <2>1, <2>3, TableAside DEF Inv, TypeOK, ConnInv, server, console
<1>4. ASSUME NEW m \in Message, Send(c, m) PROVE Inv'
  <2>1. /\ sent[c] < MaxSent /\ peer[c] = "open"
        /\ sent' = [sent EXCEPT ![c] = sent[c] + 1]
        /\ inq' = [inq EXCEPT ![c] = Append(inq[c], m)]
        /\ UNCHANGED <<kind, server, console, conn, peer, answers>>
    BY <1>4 DEF Send, Connected
  <2>2. /\ Append(inq[c], m) \in Seq(Message) /\ Len(Append(inq[c], m)) = Len(inq[c]) + 1
        /\ Len(inq[c]) \in Nat
    BY <1>0
  <2>3. sent' \in [Client -> 0 .. MaxSent] /\ inq' \in [Client -> Seq(Message)]
    BY <1>0, <2>1, <2>2
  <2>4. \A d \in Client : answers[d] + Len(inq'[d]) <= sent'[d]
    BY <1>0, <2>1, <2>2
  <2>5. PatientInv'
    BY <1>0, <2>1 DEF PatientInv, server
  <2> QED
    BY <1>0, <2>1, <2>3, <2>4, <2>5, TableAside DEF Inv, TypeOK, ConnInv, server, console
<1> QED
  BY <1>1, <1>2, <1>3, <1>4 DEF UserActs

(* Every step of the server and of its clients keeps the invariant. *)
LEMMA InvNext == Inv /\ [Next]_vars => Inv'
<1>1. Inv /\ UNCHANGED vars => Inv'
  BY TableAside DEF Inv, TypeOK, ConnInv, PatientInv, vars, server, console, clients
<1> QED
  BY <1>1, QuietStep, ConnectionStep, ReadStep, ClientStep DEF Next, ServerNext

(* It holds in every state. *)
LEMMA Invariance == Spec => []Inv
BY InvInit, InvNext, PTL DEF Spec

(* The types hold and the table is right: each open connection is in one   *)
(* entry, and a new one always finds a free one below connectcnt (the loop *)
(* over client_fds after accept in both servers).                          *)
THEOREM TableCorrect == Spec => []ServerInv
<1>1. Inv => ServerInv
  BY DEF Inv, ServerInv
<1> QED
  BY <1>1, Invariance, PTL

(* The name server looks at every open connection, though it never counts  *)
(* connectcnt down and its table has holes.                                *)
THEOREM NobodyIsMissed == Spec => []AllWatched
<1>1. Inv => AllWatched
  <2> SUFFICES ASSUME Inv, kind = "name", NEW c \in Client, conn[c] = "open" PROVE c \in Watched
    BY DEF AllWatched
  <2>1. PICK s \in Slots : client_fds[s] = c
    BY DEF Inv, TableInv
  <2>2. s \in Used /\ s < connectcnt
    BY <2>1, Finite DEF Used, Inv, CountInv
  <2> QED
    BY <2>1, <2>2, Finite DEF Watched
<1> QED
  BY <1>1, Invariance, PTL

(* Clients that wait for their answers before they exit never reset a      *)
(* connection of the name server, so they do not end it.                   *)
THEOREM PatientExit == Spec => []PatientClientsHarmless
<1>1. Inv => PatientClientsHarmless
  BY DEF Inv, PatientInv, PatientClientsHarmless
<1> QED
  BY <1>1, Invariance, PTL

=============================================================================
