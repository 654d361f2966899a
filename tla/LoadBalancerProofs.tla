------------------------- MODULE LoadBalancerProofs -------------------------
(* Theorems about LoadBalancer, for every number of children.              *)
EXTENDS LoadBalancer, TLAPS

(* The queue is empty and no child is forked in the beginning.             *)
LEMMA TypeInit == Init => TypeOK /\ QueueInv
<1> SUFFICES ASSUME Init PROVE TypeOK /\ QueueInv OBVIOUS
<1>1. /\ parent = "fork" /\ forked = 0 /\ pushed = 0 /\ head = 0
      /\ usr2 = 0 /\ child_pid = 0
  BY DEF Init, NULL
<1>2. /\ front \in [Children -> {0}] /\ rear \in [Children -> {0}]
      /\ prev \in [Children -> {0}] /\ next \in [Children -> {0}]
      /\ lead \in [Children -> Nat]
  BY DEF Init, NULL
<1>0. fds \in [Children -> 0 .. FdLimit] BY ChildrenAssumption DEF Init
<1>3. st \in [Children -> {"none"}] BY DEF Init
<1>4. pend \in [Children -> BOOLEAN] BY Zenon DEF Init
<1>5. TypeOK
  BY <1>0, <1>1, <1>2, <1>3, <1>4, ChildrenAssumption DEF TypeOK, Nodes, NULL
<1>6. QueueInv BY <1>1, ChildrenAssumption DEF QueueInv, LinkInv
<1> QED BY <1>5, <1>6

(* A child's step leaves the parent and its queue alone.                   *)
LEMMA ChildTypes ==
    ASSUME TypeOK, NEW c \in Children, NEW from, NEW p \in BOOLEAN,
           NEW to \in {"ready", "entered", "busy", "told", "dead"},
           ChildMoves(c, from, to, p)
    PROVE  /\ UNCHANGED <<parent, forked, pushed, queue, child_pid, lead>>
           /\ usr2' \in Nodes /\ fds' \in [Children -> 0 .. FdLimit] => TypeOK'
<1>1. UNCHANGED <<parent, forked, pushed, queue, child_pid, lead>>
  BY DEF ChildMoves
<1>2. UNCHANGED <<head, front, rear, prev, next>> BY <1>1 DEF queue
<1>3. st' \in [Children -> {"none", "starting", "ready", "entered", "busy",
                            "told", "dead"}]
  BY DEF ChildMoves, TypeOK
<1>4. pend' \in [Children -> BOOLEAN] BY DEF ChildMoves, TypeOK
<1> QED BY <1>1, <1>2, <1>3, <1>4 DEF TypeOK

(* Whatever a child does, the queue stays as it is.                        *)
LEMMA ChildNext ==
    ASSUME TypeOK, QueueInv, NEW c \in Children, ChildStep(c)
    PROVE  TypeOK' /\ QueueInv'
<1>1. /\ UNCHANGED <<parent, forked, pushed, queue>>
      /\ TypeOK'
  <2> USE DEF TypeOK
  <2>1. CASE Install(c) BY <2>1, ChildTypes DEF Install
  <2>2. CASE Enter(c) BY <2>2, ChildTypes DEF Enter
  <2>3. CASE Ignore(c) BY <2>3, ChildTypes DEF Ignore
  <2>4. CASE Tell(c)
    <3>1. usr2' \in Nodes BY <2>4 DEF Tell, Nodes
    <3>2. pend[c] \in BOOLEAN OBVIOUS
    <3>3. ChildMoves(c, "busy", "told", pend[c]) BY <2>4 DEF Tell
    <3>4. fds' \in [Children -> 0 .. FdLimit]
      BY <2>4, ChildrenAssumption DEF Tell
    <3> QED BY <3>1, <3>2, <3>3, <3>4, ChildTypes
  <2>5. CASE Restore(c)
    <3>1. pend[c] \in BOOLEAN OBVIOUS
    <3>2. ChildMoves(c, "told", "ready", pend[c]) /\ usr2' = usr2 /\ fds' = fds
      BY <2>5 DEF Restore
    <3> QED BY <3>1, <3>2, ChildTypes
  <2>6. CASE OpenFails(c) BY <2>6, ChildTypes DEF OpenFails
  <2> QED BY <2>1, <2>2, <2>3, <2>4, <2>5, <2>6 DEF ChildStep
<1> QED BY <1>1 DEF queue, QueueInv, LinkInv, Unshifted, Ring

(* The fork loop stops at no_of_children.                                  *)
LEMMA ForkNext == ASSUME TypeOK, QueueInv, Fork PROVE TypeOK' /\ QueueInv'
<1>1. /\ parent = "fork" /\ forked' = forked + 1
      /\ parent' = IF forked + 1 = no_of_children THEN "build" ELSE "fork"
      /\ UNCHANGED <<pushed, head, front, rear, prev, next, pend, fds, usr2,
                     child_pid, lead>>
  BY DEF Fork, queue
<1>2. forked < no_of_children /\ pushed = 0 BY <1>1 DEF QueueInv, LinkInv
<1>3. st' \in [Children -> {"none", "starting", "ready", "entered", "busy",
                            "told", "dead"}]
  BY DEF Fork, TypeOK
<1>4. /\ forked' \in 0 .. no_of_children
      /\ parent' = "fork" => forked' < no_of_children
      /\ parent' \in {"fork", "build"}
  BY <1>1, <1>2, ChildrenAssumption DEF TypeOK
<1>5. TypeOK' BY <1>1, <1>3, <1>4 DEF TypeOK
<1>6. QueueInv'
  BY <1>1, <1>2, <1>4, ChildrenAssumption DEF QueueInv, LinkInv
<1> QED BY <1>5, <1>6

(* create_queue and push keep the shape of a queue that was never shifted. *)
LEMMA BuildNext == ASSUME TypeOK, QueueInv, Build PROVE TypeOK' /\ QueueInv'
<1> DEFINE node == pushed + 1
<1>1. /\ parent = "build" /\ pushed' = node
      /\ parent' = IF node = no_of_children THEN "run" ELSE "build"
      /\ UNCHANGED <<forked, st, pend, fds, usr2, child_pid, lead>>
  BY DEF Build, child
<1>2. pushed < no_of_children /\ node \in Children
  BY <1>1, ChildrenAssumption DEF QueueInv, LinkInv, TypeOK, Children
<1>3. /\ head' = node /\ rear' = [rear EXCEPT ![node] = node]
      /\ next' \in [Children -> Nodes]
      /\ prev' \in [Children -> Nodes]
      /\ \A n \in 1 .. pushed : prev'[n] # NULL
      /\ front' = [front EXCEPT ![node] = 1]
  <2>1. CASE pushed = 0
    <3>1. create_queue(1) BY <2>1, <1>1 DEF Build
    <3> QED BY <2>1, <3>1, <1>2 DEF create_queue, TypeOK, Nodes
  <2>2. CASE pushed # 0
    <3>1. push(node) BY <2>2, <1>1 DEF Build
    <3>2. Unshifted /\ pushed > 0 BY <2>2, <1>1 DEF QueueInv, TypeOK
    <3>3. /\ head = pushed /\ head \in Children /\ head # node
          /\ front[head] = 1
          /\ \A n \in 1 .. pushed - 1 : prev[n] # NULL
      BY <3>2, <1>2 DEF Unshifted, TypeOK, Children
    <3>4. prev' = [prev EXCEPT ![node] = NULL, ![head] = node]
      BY <3>1 DEF push
    <3>5. \A n \in 1 .. pushed : n \in Children /\ n # node
      BY <1>2, ChildrenAssumption DEF TypeOK, Children
    <3>6. ASSUME NEW n \in 1 .. pushed PROVE prev'[n] # NULL
      <4>1. CASE n = head
        <5>1. prev'[n] = node BY <4>1, <3>3, <3>4 DEF TypeOK
        <5> QED BY <5>1 DEF NULL, TypeOK
      <4>2. CASE n # head
        <5>1. prev'[n] = prev[n] BY <4>2, <3>4, <3>5 DEF TypeOK
        <5> QED BY <5>1, <4>2, <3>3 DEF TypeOK
      <4> QED BY <4>1, <4>2
    <3>7. /\ prev' \in [Children -> Nodes] /\ next' \in [Children -> Nodes]
      BY <3>1, <3>3, <3>4, <1>2 DEF push, TypeOK, Nodes
    <3> QED BY <3>1, <3>3, <3>6, <3>7 DEF push
  <2> QED BY <2>1, <2>2
<1>4. 1 \in Children BY ChildrenAssumption DEF Children
<1>5. /\ front' \in [Children -> Nodes] /\ rear' \in [Children -> Nodes]
      /\ head' \in Nodes
  BY <1>2, <1>3, <1>4 DEF TypeOK, Nodes
<1>6. pushed' \in 0 .. no_of_children /\ parent' \in {"build", "run"}
  BY <1>1, <1>2, ChildrenAssumption DEF TypeOK
<1>7. TypeOK' BY <1>1, <1>3, <1>5, <1>6 DEF TypeOK
<1>8. \A n \in 1 .. node : front'[n] \in Children /\ rear'[n] \in Children
  <2>1. ASSUME NEW n \in 1 .. node
        PROVE  front'[n] \in Children /\ rear'[n] \in Children
    <3>1. CASE n = node BY <3>1, <1>2, <1>3, <1>4 DEF TypeOK
    <3>2. CASE n # node
      <4>1. n \in 1 .. pushed /\ n \in Children
        BY <3>2, <1>2, ChildrenAssumption DEF TypeOK, Children
      <4>2. front'[n] = front[n] /\ rear'[n] = rear[n]
        BY <3>2, <4>1, <1>3 DEF TypeOK
      <4> QED BY <4>1, <4>2 DEF QueueInv, LinkInv
    <3> QED BY <3>1, <3>2
  <2> QED BY <2>1
<1>9. LinkInv'
  BY <1>1, <1>2, <1>3, <1>6, <1>8, ChildrenAssumption DEF LinkInv, TypeOK
<1>10. Unshifted'
  <2>1. front'[node] = 1 /\ rear'[node] = node BY <1>2, <1>3 DEF TypeOK
  <2>2. node - 1 = pushed BY DEF TypeOK
  <2> QED BY <2>1, <2>2, <1>1, <1>3 DEF Unshifted
<1> QED BY <1>7, <1>9, <1>10 DEF QueueInv

(* The first shift closes the ring, the others keep it closed; only a      *)
(* queue of one node has nothing before its front.                         *)
LEMMA SignalNext ==
    ASSUME TypeOK, QueueInv, Signal
    PROVE  TypeOK' /\ QueueInv' /\ (no_of_children >= 2 => parent' = "run")
<1> DEFINE temp == front[head]
           temp2 == rear[head]
           p == prev[temp]
<1>1. /\ parent = "run" /\ kill(temp) /\ lead' = Counted(temp) /\ shift_queue
      /\ UNCHANGED <<forked, pushed, fds, usr2, child_pid>>
  BY DEF Signal
<1>2. /\ pushed = no_of_children /\ head \in Children
      /\ \A n \in Children : front[n] \in Children /\ rear[n] \in Children
  BY <1>1, ChildrenAssumption DEF QueueInv, LinkInv, Children
<1>3. temp \in Children /\ temp2 \in Children BY <1>2
<1>4. p \in Nodes BY <1>3 DEF TypeOK
<1>5. /\ st' \in [Children -> {"none", "starting", "ready", "entered", "busy",
                               "told", "dead"}]
      /\ pend' \in [Children -> BOOLEAN]
  BY <1>1, <1>3 DEF kill, TypeOK
<1>6. lead' \in [Children -> Nat]
  BY <1>1, <1>3 DEF Counted, TypeOK
<1>7. Unshifted \/ Ring BY <1>1 DEF QueueInv
<1>8. CASE p = NULL
  <2>1. parent' = "segv" /\ UNCHANGED <<head, front, rear, prev, next>>
    BY <1>1, <1>8 DEF shift_queue, queue
  <2>2. TypeOK' BY <2>1, <1>1, <1>5, <1>6 DEF TypeOK
  <2>3. QueueInv' BY <2>1, <1>1 DEF QueueInv, LinkInv
  <2>4. ~Ring BY <1>8, <1>3 DEF Ring
  <2>5. ~(no_of_children >= 2)
    <3>1. temp = 1 /\ \A n \in 1 .. no_of_children - 1 : prev[n] # NULL
      BY <2>4, <1>7, <1>2 DEF Unshifted
    <3>2. 1 \notin 1 .. no_of_children - 1 BY <3>1, <1>8
    <3> QED BY <3>2, ChildrenAssumption
  <2> QED BY <2>2, <2>3, <2>5
<1>9. CASE p # NULL
  <2>1. /\ next' = [next EXCEPT ![p] = NULL, ![temp] = temp2]
        /\ front' = [front EXCEPT ![head] = p]
        /\ prev' = [prev EXCEPT ![temp2] = temp]
        /\ rear' = [rear EXCEPT ![head] = temp]
        /\ head' = temp /\ parent' = "run"
    BY <1>1, <1>9 DEF shift_queue
  <2>2. p \in Children BY <1>4, <1>9 DEF Nodes
  <2> HIDE DEF temp, temp2, p
  <2>3. /\ next' \in [Children -> Nodes] /\ front' \in [Children -> Nodes]
        /\ prev' \in [Children -> Nodes] /\ rear' \in [Children -> Nodes]
        /\ head' \in Nodes
    BY <2>1, <2>2, <1>3 DEF TypeOK, Nodes
  <2>4. TypeOK' BY <2>1, <2>3, <1>1, <1>5, <1>6 DEF TypeOK
  <2>5. \A n \in Children : front'[n] \in Children /\ rear'[n] \in Children
    BY <2>1, <2>2, <1>2, <1>3 DEF TypeOK
  <2>6. LinkInv'
    BY <2>1, <2>5, <1>1, <1>2, <1>3 DEF LinkInv, Children
  <2>7. Ring'
    <3>1. temp # NULL BY <1>3, ChildrenAssumption DEF Children, NULL
    <3>2. CASE Ring BY <3>1, <3>2, <2>1, <1>3 DEF Ring, TypeOK
    <3>3. CASE Unshifted
      <4>1. /\ temp2 = no_of_children
            /\ \A n \in 1 .. no_of_children - 1 : prev[n] # NULL
        BY <3>3, <1>2 DEF Unshifted, temp2
      <4>2. \A n \in Children : n # temp2 => n \in 1 .. no_of_children - 1
        BY <4>1, ChildrenAssumption DEF Children
      <4> QED BY <3>1, <4>1, <4>2, <2>1, <1>3 DEF Ring, TypeOK
    <3> QED BY <3>2, <3>3, <1>7
  <2>8. QueueInv' BY <2>1, <2>6, <2>7 DEF QueueInv
  <2> QED BY <2>1, <2>4, <2>8
<1> QED BY <1>8, <1>9

(* TypeOK and QueueInv are inductive together.                             *)
LEMMA QueueNext == TypeOK /\ QueueInv /\ [Next]_vars => TypeOK' /\ QueueInv'
<1> SUFFICES ASSUME TypeOK, QueueInv, [Next]_vars PROVE TypeOK' /\ QueueInv'
  OBVIOUS
<1>1. CASE Fork BY <1>1, ForkNext
<1>2. CASE Build BY <1>2, BuildNext
<1>3. CASE Signal BY <1>3, SignalNext
<1>4. CASE sig_usr2
  <2>1. /\ UNCHANGED <<parent, forked, pushed, head, front, rear, prev, next,
                       st, pend, fds, lead>>
        /\ usr2' \in Nodes /\ child_pid' \in Nodes
    BY <1>4 DEF sig_usr2, queue, child, TypeOK, Nodes
  <2>2. TypeOK' BY <2>1 DEF TypeOK
  <2> QED BY <2>1, <2>2 DEF QueueInv, LinkInv, Unshifted, Ring
<1>5. ASSUME NEW c \in Children, ChildStep(c) PROVE TypeOK' /\ QueueInv'
  BY <1>5, ChildNext
<1>6. CASE UNCHANGED vars
  <2>1. UNCHANGED <<parent, forked, pushed, head, front, rear, prev, next, st,
                    pend, fds, usr2, child_pid, lead>>
    BY <1>6 DEF vars, queue, child
  <2>2. TypeOK' BY <2>1 DEF TypeOK
  <2> QED BY <2>1, <2>2 DEF QueueInv, LinkInv, Unshifted, Ring
<1> QED BY <1>1, <1>2, <1>3, <1>4, <1>5, <1>6 DEF Next

(* Every variable keeps its type and the queue its shape, unshifted or     *)
(* closed into a ring, for every number of children.                       *)
THEOREM QueueKeepsShape == Spec => []BalancerInv
BY TypeInit, QueueNext, PTL DEF Spec, BalancerInv

(* With two children or more shift_queue never follows a NULL pointer.     *)
THEOREM TwoChildrenNeverCrash ==
    ASSUME no_of_children >= 2 PROVE Spec => []NoSegv
<1> DEFINE IndInv == TypeOK /\ QueueInv /\ parent # "segv"
<1>1. Init => IndInv
  <2>1. Init => parent # "segv" BY DEF Init
  <2> QED BY <2>1, TypeInit
<1>2. IndInv /\ [Next]_vars => IndInv'
  <2> SUFFICES ASSUME IndInv, [Next]_vars PROVE parent' # "segv"
    BY QueueNext
  <2>1. CASE Signal BY <2>1, SignalNext
  <2>2. CASE Fork BY <2>2 DEF Fork
  <2>3. CASE Build BY <2>3 DEF Build
  <2>4. CASE sig_usr2 BY <2>4 DEF sig_usr2
  <2>5. ASSUME NEW c \in Children, ChildStep(c) PROVE parent' # "segv"
    BY <2>5 DEF ChildStep, Install, Enter, Ignore, Tell, OpenFails, Restore,
                ChildMoves
  <2>6. CASE UNCHANGED vars BY <2>6 DEF vars
  <2> QED BY <2>1, <2>2, <2>3, <2>4, <2>5, <2>6 DEF Next
<1>3. IndInv => NoSegv
  BY ChildrenAssumption DEF QueueInv, LinkInv, NoSegv, Children, NULL
<1> QED BY <1>1, <1>2, <1>3, PTL DEF Spec
------------------------------------------------------------------------------
(* The order of the signals.  Turn i begins with the last node at the head *)
(* (Begins); child i is signalled twice, then in turn with each of the     *)
(* children behind it (Returns: child i at the head, child j is next;      *)
(* Visits: child j at the head, child i is next).  After turn i the        *)
(* children 1..i have had all their signals of the period, the others i.   *)

Succ(x) == IF x = no_of_children THEN 1 ELSE x + 1
Pred(x) == IF x = 1 THEN no_of_children ELSE x - 1

(* The rear of a node that turn i has not been at yet, or that no shift    *)
(* has ever been at.                                                       *)
Fresh(i, x) == rear[x] = Pred(i) \/ (i = 1 /\ rear[x] = x)

(* A child that is done with this period.                                  *)
Done(i, x) == front[x] = 1 /\ rear[x] = no_of_children
              /\ lead[x] = no_of_children - i + 1

(* Children behind i: j's are visited before it, the last one was the head.*)
Visited(i, x) == front[x] = i + 1 /\ rear[x] = i /\ lead[x] = 1
ToVisit(i, x) == front[x] = i /\ Fresh(i, x) /\ lead[x] = 0
LastOne(i, x) == front[x] = i + 1 /\ rear[x] = i /\ lead[x] = 0

Begins(i) ==
    /\ head = no_of_children
    /\ \A x \in Children :
          /\ x < i => Done(i, x)
          /\ x >= i => front[x] = i /\ Fresh(i, x) /\ lead[x] = 0
          /\ prev[x] = Succ(x) \/ (i = 1 /\ x = no_of_children)

Returns(i, j) ==
    /\ head = i /\ i < no_of_children /\ i <= j
    /\ front[i] = j /\ lead[i] = j - i + 1
    /\ IF j = i THEN Fresh(i, i) ELSE rear[i] = j - 1
    /\ \A x \in Children :
          /\ x < i => Done(i, x)
          /\ i < x /\ x < j /\ x < no_of_children => Visited(i, x)
          /\ i < x /\ x >= j /\ x < no_of_children => ToVisit(i, x)
          /\ x = no_of_children => LastOne(i, x)
          /\ prev[x] = Succ(x) \/ (i < j /\ x = j - 1)

Visits(i, j) ==
    /\ head = j /\ i < j /\ j < no_of_children
    /\ front[i] = j + 1 /\ lead[i] = j - i + 1 /\ rear[i] = j
    /\ front[j] = i /\ lead[j] = 1 /\ Fresh(i, j)
    /\ \A x \in Children :
          /\ x < i => Done(i, x)
          /\ i < x /\ x < j => Visited(i, x)
          /\ x > j /\ x < no_of_children => ToVisit(i, x)
          /\ x = no_of_children => LastOne(i, x)
          /\ prev[x] = Succ(x)

(* The queue as push builds it, before the first shift.                    *)
Built ==
    \A x \in Children :
       /\ lead[x] = 0
       /\ x <= pushed => front[x] = 1 /\ rear[x] = x
       /\ x < pushed => prev[x] = x + 1

(* The parent crashes in its first turn or never, with nobody ahead.        *)
TurnInv ==
    /\ parent \in {"fork", "build"} => Built
    /\ parent = "run" => \E i, j \in Children :
                            Begins(i) \/ Returns(i, j) \/ Visits(i, j)
    /\ parent = "segv" => \A x \in Children : lead[x] = 0

(* lead after a signal to c, if another child still has had fewest.        *)
LEMMA CountedAhead ==
    ASSUME TypeOK, NEW c \in Children, NEW d \in Children, d # c, lead[d] = 0
    PROVE  \A x \in Children : Counted(c)[x] = IF x = c THEN lead[x] + 1 ELSE lead[x]
<1> DEFINE more == [lead EXCEPT ![c] = lead[c] + 1]
<1>1. \A x \in Children : more[x] = IF x = c THEN lead[x] + 1 ELSE lead[x]
  BY DEF TypeOK
<1>2. ~(\A x \in Children : more[x] > 0) BY <1>1
<1>3. Counted(c) = more BY <1>2 DEF Counted
<1> QED BY <1>1, <1>3

(* lead after a signal to the last child that had fewest.                  *)
LEMMA CountedLevel ==
    ASSUME TypeOK, NEW c \in Children,
           \A d \in Children : d # c => lead[d] > 0
    PROVE  \A x \in Children : Counted(c)[x] = IF x = c THEN lead[x] ELSE lead[x] - 1
<1> DEFINE more == [lead EXCEPT ![c] = lead[c] + 1]
<1>0. \A x \in Children : lead[x] \in Nat BY DEF TypeOK
<1>1. \A x \in Children : more[x] = IF x = c THEN lead[x] + 1 ELSE lead[x]
  BY DEF TypeOK
<1>2. \A x \in Children : more[x] > 0 BY <1>0, <1>1
<1>3. Counted(c) = [x \in Children |-> more[x] - 1] BY <1>2 DEF Counted
<1>4. \A x \in Children : Counted(c)[x] = more[x] - 1 BY <1>3
<1> QED BY <1>0, <1>1, <1>4

(* What a shift does to the nodes: h is the head, c the child signalled, t *)
(* the rear and p what is before c.                                        *)
Moves(h, c, t, p) ==
    /\ head' = c
    /\ \A x \in Children :
          /\ front'[x] = IF x = h THEN p ELSE front[x]
          /\ rear'[x] = IF x = h THEN c ELSE rear[x]
          /\ prev'[x] = IF x = t THEN c ELSE prev[x]
          /\ lead'[x] = Counted(c)[x]

(* The arithmetic of node numbers.                                         *)
LEMMA NodeFacts ==
    /\ no_of_children \in Nat /\ no_of_children >= 1 /\ no_of_children \in Children
    /\ 1 \in Children
    /\ \A x \in Children : /\ x \in Int /\ 1 <= x /\ x <= no_of_children
                           /\ x < no_of_children => Succ(x) = x + 1 /\ x + 1 \in Children
                           /\ Pred(x) \in Children /\ Succ(Pred(x)) = x
                           /\ x > 1 => Pred(x) = x - 1
    /\ Succ(no_of_children) = 1 /\ Pred(1) = no_of_children
BY ChildrenAssumption DEF Children, Succ, Pred

(* A turn begins with a signal to its child.                               *)
LEMMA BeginsReturns ==
    ASSUME TypeOK, NEW i \in Children, i < no_of_children, Begins(i),
           Moves(no_of_children, i, rear[no_of_children], prev[i])
    PROVE  Returns(i, i)'
<1> DEFINE n == no_of_children
<1> USE NodeFacts
<1>1. rear[n] = Pred(i) /\ lead[n] = 0 /\ front[n] = i BY DEF Begins, Fresh
<1>2. prev[i] = i + 1 BY DEF Begins
<1>3. \A x \in Children : lead'[x] = IF x = i THEN lead[x] + 1 ELSE lead[x]
  BY <1>1, CountedAhead DEF Moves
<1>4. front[i] = i /\ Fresh(i, i) /\ lead[i] = 0 BY DEF Begins
<1>5. head' = i /\ front'[i] = i /\ lead'[i] = 1 /\ Fresh(i, i)'
  BY <1>3, <1>4 DEF Moves, Fresh
<1>6. ASSUME NEW x \in Children
      PROVE  /\ x < i => Done(i, x)'
             /\ i < x /\ x < n => ToVisit(i, x)'
             /\ x = n => LastOne(i, x)'
             /\ prev'[x] = Succ(x)
  <2>1. x < i => Done(i, x)' BY <1>3 DEF Begins, Done, Moves
  <2>2. i < x /\ x < n => ToVisit(i, x)' BY <1>3 DEF Begins, ToVisit, Fresh, Moves
  <2>3. x = n => LastOne(i, x)' BY <1>1, <1>2, <1>3 DEF LastOne, Moves
  <2>4. prev'[x] = Succ(x)
    <3>1. CASE x = Pred(i) BY <1>1, <3>1 DEF Moves
    <3>2. CASE x # Pred(i) BY <1>1, <3>2 DEF Begins, Moves
    <3> QED BY <3>1, <3>2
  <2> QED BY <2>1, <2>2, <2>3, <2>4
<1> QED BY <1>5, <1>6 DEF Returns

(* The last turn is one signal, to the last child; a period is over.       *)
LEMMA LastTurn ==
    ASSUME TypeOK, no_of_children >= 2, Begins(no_of_children),
           Moves(no_of_children, no_of_children, rear[no_of_children],
                 prev[no_of_children])
    PROVE  Begins(1)'
<1> DEFINE n == no_of_children
<1> USE NodeFacts
<1>1. /\ rear[n] = n - 1 /\ lead[n] = 0 /\ prev[n] = 1
      /\ \A x \in Children : x < n => Done(n, x)
  BY DEF Begins, Fresh
<1>2. \A x \in Children : lead'[x] = IF x = n THEN lead[x] ELSE lead[x] - 1
  <2>1. \A d \in Children : d # n => lead[d] > 0 BY <1>1 DEF Done
  <2> QED BY <2>1, CountedLevel DEF Moves
<1>3. ASSUME NEW x \in Children
      PROVE  /\ front'[x] = 1 /\ Fresh(1, x)' /\ lead'[x] = 0
             /\ prev'[x] = Succ(x)
  <2>1. CASE x = n
    <3>1. front'[x] = 1 /\ rear'[x] = n /\ lead'[x] = 0
      BY <1>1, <1>2, <2>1 DEF Moves
    <3>2. prev'[x] = 1 BY <1>1, <2>1 DEF Moves
    <3> QED BY <2>1, <3>1, <3>2 DEF Fresh
  <2>2. CASE x # n
    <3>1. front'[x] = 1 /\ rear'[x] = n /\ lead'[x] = 0
      BY <1>1, <1>2, <2>2 DEF Moves, Done
    <3>2. prev'[x] = Succ(x) BY <1>1, <2>2 DEF Moves, Begins
    <3> QED BY <3>1, <3>2 DEF Fresh
  <2> QED BY <2>1, <2>2
<1>4. head' = n BY DEF Moves
<1> QED BY <1>3, <1>4 DEF Begins

(* The second signal in a row to the child of the turn.                    *)
LEMMA Again ==
    ASSUME TypeOK, NEW i \in Children, Returns(i, i),
           Moves(i, i, rear[i], prev[i])
    PROVE  Returns(i, i + 1)'
<1> DEFINE n == no_of_children
<1> USE NodeFacts
<1>0. i < n /\ i # n /\ front[i] = i /\ lead[i] = 1 /\ Fresh(i, i) BY DEF Returns
<1>1. prev[i] = i + 1 /\ LastOne(i, n) BY <1>0 DEF Returns
<1>2. \A x \in Children : lead'[x] = IF x = i THEN lead[x] + 1 ELSE lead[x]
  BY <1>0, <1>1, CountedAhead DEF Moves, LastOne
<1>3. head' = i /\ front'[i] = i + 1 /\ rear'[i] = i /\ lead'[i] = 2
  BY <1>0, <1>1, <1>2 DEF Moves
<1>4. ASSUME NEW x \in Children
      PROVE  /\ x < i => Done(i, x)'
             /\ i < x /\ x < i + 1 /\ x < n => Visited(i, x)'
             /\ i < x /\ x >= i + 1 /\ x < n => ToVisit(i, x)'
             /\ x = n => LastOne(i, x)'
             /\ prev'[x] = Succ(x) \/ x = i
  <2>1. x < i => Done(i, x)' BY <1>0, <1>2 DEF Returns, Done, Moves
  <2>2. i < x /\ x < n => ToVisit(i, x)'
    BY <1>0, <1>2 DEF Returns, ToVisit, Fresh, Moves
  <2>3. x = n => LastOne(i, x)' BY <1>0, <1>1, <1>2 DEF LastOne, Moves
  <2>4. prev'[x] = Succ(x) \/ x = i
    <3>0. prev[x] = Succ(x) BY <1>0 DEF Returns
    <3>1. rear[i] = Pred(i) \/ rear[i] = i BY <1>0 DEF Fresh
    <3>2. CASE x = rear[i]
      <4>1. prev'[x] = i BY <3>2 DEF Moves
      <4> QED BY <3>1, <3>2, <4>1
    <3>3. CASE x # rear[i] BY <3>0, <3>3 DEF Moves
    <3> QED BY <3>2, <3>3
  <2> QED BY <2>1, <2>2, <2>3, <2>4
<1>5. i + 1 # i /\ i < i + 1 /\ (i + 1) - 1 = i /\ (i + 1) - i + 1 = 2
      /\ i <= i + 1
  OBVIOUS
<1> QED BY <1>0, <1>3, <1>4, <1>5 DEF Returns

(* A child behind that of the turn gets its signal.                        *)
LEMMA ReturnsVisits ==
    ASSUME TypeOK, NEW i \in Children, NEW j \in Children, i < j,
           j < no_of_children, Returns(i, j), Moves(i, j, rear[i], prev[j])
    PROVE  Visits(i, j)'
<1> DEFINE n == no_of_children
<1> USE NodeFacts
<1>0. /\ front[i] = j /\ lead[i] = j - i + 1 /\ rear[i] = j - 1
      /\ ToVisit(i, j) /\ LastOne(i, n) /\ prev[j] = j + 1 /\ j # n /\ i # n
  BY DEF Returns
<1>2. \A x \in Children : lead'[x] = IF x = j THEN lead[x] + 1 ELSE lead[x]
  BY <1>0, CountedAhead DEF Moves, LastOne
<1>3. /\ head' = j /\ front'[i] = j + 1 /\ rear'[i] = j /\ lead'[i] = j - i + 1
      /\ front'[j] = i /\ lead'[j] = 1 /\ Fresh(i, j)'
  BY <1>0, <1>2 DEF Moves, ToVisit, Fresh
<1>4. ASSUME NEW x \in Children
      PROVE  /\ x < i => Done(i, x)'
             /\ i < x /\ x < j => Visited(i, x)'
             /\ x > j /\ x < n => ToVisit(i, x)'
             /\ x = n => LastOne(i, x)'
             /\ prev'[x] = Succ(x)
  <2>1. x < i => Done(i, x)' BY <1>0, <1>2 DEF Returns, Done, Moves
  <2>2. x > j /\ x < n => ToVisit(i, x)'
    BY <1>0, <1>2 DEF Returns, ToVisit, Fresh, Moves
  <2>3. x = n => LastOne(i, x)' BY <1>0, <1>2 DEF LastOne, Moves
  <2>4. i < x /\ x < j => Visited(i, x)' BY <1>0, <1>2 DEF Returns, Visited, Moves
  <2>5. prev'[x] = Succ(x)
    <3>1. CASE x = j - 1 BY <1>0, <3>1 DEF Moves
    <3>2. CASE x # j - 1 BY <1>0, <3>2 DEF Moves, Returns
    <3> QED BY <3>1, <3>2
  <2> QED BY <2>1, <2>2, <2>3, <2>4, <2>5
<1> QED BY <1>3, <1>4 DEF Visits

(* The signal to the last child ends the turn.                             *)
LEMMA ReturnsBegins ==
    ASSUME TypeOK, NEW i \in Children, i < no_of_children,
           Returns(i, no_of_children),
           Moves(i, no_of_children, rear[i], prev[no_of_children])
    PROVE  Begins(i + 1)'
<1> DEFINE n == no_of_children
<1> USE NodeFacts
<1>0. /\ front[i] = n /\ lead[i] = n - i + 1 /\ rear[i] = n - 1
      /\ LastOne(i, n) /\ prev[n] = 1
      /\ \A x \in Children : x < i => Done(i, x)
      /\ \A x \in Children : i < x /\ x < n => Visited(i, x)
  BY DEF Returns
<1>1. \A d \in Children : d # n => lead[d] > 0
  BY <1>0 DEF Done, Visited
<1>2. \A x \in Children : lead'[x] = IF x = n THEN lead[x] ELSE lead[x] - 1
  BY <1>1, CountedLevel DEF Moves
<1>3. ASSUME NEW x \in Children
      PROVE  /\ x < i + 1 => Done(i + 1, x)'
             /\ x >= i + 1 => front'[x] = i + 1 /\ rear'[x] = i /\ lead'[x] = 0
             /\ prev'[x] = Succ(x)
  <2>1. x < i => Done(i + 1, x)' BY <1>0, <1>2 DEF Done, Moves
  <2>2. x = i => Done(i + 1, x)' BY <1>0, <1>2 DEF Done, Moves
  <2>3. i < x /\ x < n => front'[x] = i + 1 /\ rear'[x] = i /\ lead'[x] = 0
    BY <1>0, <1>2 DEF Visited, Moves
  <2>4. x = n => front'[x] = i + 1 /\ rear'[x] = i /\ lead'[x] = 0
    BY <1>0, <1>2 DEF LastOne, Moves
  <2>5. prev'[x] = Succ(x)
    <3>1. CASE x = n - 1 BY <1>0, <3>1 DEF Moves
    <3>2. CASE x # n - 1 BY <1>0, <3>2 DEF Moves, Returns
    <3> QED BY <3>1, <3>2
  <2> QED BY <2>1, <2>2, <2>3, <2>4, <2>5
<1>4. head' = n BY DEF Moves
<1>5. \A x \in Children : x >= i + 1 => Fresh(i + 1, x)'
  <2>1. Pred(i + 1) = i BY DEF Pred
  <2> QED BY <1>3, <2>1 DEF Fresh
<1> QED BY <1>3, <1>4, <1>5 DEF Begins

(* The child of the turn is next again.                                    *)
LEMMA VisitsReturns ==
    ASSUME TypeOK, NEW i \in Children, NEW j \in Children, Visits(i, j),
           Moves(j, i, rear[j], prev[i])
    PROVE  Returns(i, j + 1)'
<1> DEFINE n == no_of_children
<1> USE NodeFacts
<1>0. /\ i < j /\ j < n /\ front[i] = j + 1 /\ lead[i] = j - i + 1 /\ rear[i] = j
      /\ front[j] = i /\ lead[j] = 1 /\ Fresh(i, j) /\ LastOne(i, n)
      /\ prev[i] = i + 1 /\ i # n /\ j # n
  BY DEF Visits
<1>2. \A x \in Children : lead'[x] = IF x = i THEN lead[x] + 1 ELSE lead[x]
  BY <1>0, CountedAhead DEF Moves, LastOne
<1>3. /\ head' = i /\ front'[i] = j + 1 /\ rear'[i] = j
      /\ lead'[i] = (j + 1) - i + 1
  BY <1>0, <1>2 DEF Moves
<1>4. ASSUME NEW x \in Children
      PROVE  /\ x < i => Done(i, x)'
             /\ i < x /\ x < j + 1 => Visited(i, x)'
             /\ i < x /\ x >= j + 1 /\ x < n => ToVisit(i, x)'
             /\ x = n => LastOne(i, x)'
             /\ prev'[x] = Succ(x) \/ x = j
  <2>1. x < i => Done(i, x)' BY <1>0, <1>2 DEF Visits, Done, Moves
  <2>2. x > j /\ x < n => ToVisit(i, x)'
    BY <1>0, <1>2 DEF Visits, ToVisit, Fresh, Moves
  <2>3. x = n => LastOne(i, x)' BY <1>0, <1>2 DEF LastOne, Moves
  <2>4. i < x /\ x < j => Visited(i, x)' BY <1>0, <1>2 DEF Visits, Visited, Moves
  <2>5. x = j => Visited(i, x)' BY <1>0, <1>2 DEF Visited, Moves
  <2>6. prev'[x] = Succ(x) \/ x = j
    <3>0. prev[x] = Succ(x) BY DEF Visits
    <3>1. rear[j] = Pred(i) \/ rear[j] = j BY <1>0 DEF Fresh
    <3>2. CASE x = rear[j]
      <4>1. prev'[x] = i BY <3>2 DEF Moves
      <4> QED BY <3>1, <3>2, <4>1
    <3>3. CASE x # rear[j] BY <3>0, <3>3 DEF Moves
    <3> QED BY <3>2, <3>3
  <2> QED BY <2>1, <2>2, <2>3, <2>4, <2>5, <2>6
<1>5. j + 1 # i /\ i < j + 1 /\ (j + 1) - 1 = j /\ i <= j + 1 BY <1>0
<1> QED BY <1>0, <1>3, <1>4, <1>5 DEF Returns

(* A turn of the parent's loop moves on in this order.                     *)
LEMMA TurnSignal ==
    ASSUME TypeOK, QueueInv, TurnInv, Signal PROVE TurnInv'
<1> DEFINE c == front[head]
           t == rear[head]
           p == prev[c]
<1> USE NodeFacts
<1>1. /\ parent = "run" /\ lead' = Counted(c) /\ shift_queue
  BY DEF Signal
<1>2. /\ pushed = no_of_children /\ head \in Children
      /\ \A x \in Children : front[x] \in Children /\ rear[x] \in Children
  BY <1>1 DEF QueueInv, LinkInv, Children
<1>3. c \in Children /\ t \in Children BY <1>2
<1>4. PICK i \in Children, j \in Children :
         Begins(i) \/ Returns(i, j) \/ Visits(i, j)
  BY <1>1 DEF TurnInv
<1>5. CASE p = NULL
  <2>1. parent' = "segv" BY <1>1, <1>5 DEF shift_queue
  <2>2. no_of_children = 1
    <3> SUFFICES ASSUME no_of_children >= 2 PROVE FALSE OBVIOUS
    <3>1. parent' = "run" BY SignalNext
    <3> QED BY <2>1, <3>1
  <2>3. i = 1 /\ Begins(1) BY <1>4, <2>2 DEF Returns, Visits
  <2>4. lead[1] = 0 /\ c = 1 /\ \A x \in Children : x = 1
    BY <1>3, <2>2, <2>3 DEF Begins
  <2>5. Counted(1)[1] = 0 BY <2>4, CountedLevel
  <2>6. \A x \in Children : lead'[x] = 0 BY <1>1, <2>4, <2>5
  <2> QED BY <2>1, <2>6 DEF TurnInv
<1>6. CASE p # NULL
  <2>1. /\ front' = [front EXCEPT ![head] = p]
        /\ prev' = [prev EXCEPT ![t] = c]
        /\ rear' = [rear EXCEPT ![head] = c]
        /\ head' = c /\ parent' = "run"
    BY <1>1, <1>6 DEF shift_queue
  <2>2. Moves(head, c, t, p)
    BY <1>1, <1>2, <1>3, <2>1 DEF Moves, TypeOK
  <2>3. p \in Children BY <1>3, <1>6 DEF TypeOK, Nodes
  <2> SUFFICES \E k, m \in Children : Begins(k)' \/ Returns(k, m)' \/ Visits(k, m)'
    BY <2>1 DEF TurnInv
  <2>5. CASE no_of_children = 1
    <3>1. Begins(1) BY <1>4, <2>5 DEF Returns, Visits
    <3>2. lead[1] = 0 /\ c = 1 /\ p = 1 /\ \A x \in Children : x = 1
      <4>1. \A x \in Children : x = 1 BY <2>5
      <4>2. c = 1 /\ p = 1 BY <1>3, <2>3, <4>1
      <4>3. lead[1] = 0 BY <3>1 DEF Begins
      <4> QED BY <4>1, <4>2, <4>3
    <3>3. Counted(1)[1] = 0 BY <3>2, CountedLevel
    <3>4. front'[1] = 1 /\ rear'[1] = 1 /\ lead'[1] = 0 /\ head' = 1
      BY <1>2, <2>1, <2>2, <3>2, <3>3 DEF Moves
    <3>5. Begins(1)' BY <2>5, <3>2, <3>4 DEF Begins, Fresh
    <3> QED BY <3>5
  <2>6. CASE no_of_children >= 2 /\ Begins(i)
    <3>1. head = no_of_children /\ c = i BY <2>6 DEF Begins
    <3>2. CASE i < no_of_children
      <4>1. Moves(no_of_children, i, rear[no_of_children], prev[i])
        BY <2>2, <3>1
      <4>2. Returns(i, i)' BY <2>6, <3>2, <4>1, BeginsReturns
      <4> QED BY <4>2
    <3>3. CASE i = no_of_children
      <4>1. Moves(no_of_children, no_of_children, rear[no_of_children],
                  prev[no_of_children])
        BY <2>2, <3>1, <3>3
      <4>2. Begins(1)' BY <2>6, <3>3, <4>1, LastTurn
      <4> QED BY <4>2
    <3> QED BY <3>2, <3>3
  <2>7. CASE Returns(i, j)
    <3>1. head = i /\ c = j /\ i < no_of_children /\ i <= j BY <2>7 DEF Returns
    <3>2. Moves(i, j, rear[i], prev[j]) BY <2>2, <3>1
    <3>3. CASE j = i
      <4>1. Returns(i, i + 1)' BY <2>7, <3>2, <3>3, Again
      <4> QED BY <3>1, <4>1
    <3>4. CASE i < j /\ j < no_of_children
      <4>1. Visits(i, j)' BY <2>7, <3>2, <3>4, ReturnsVisits
      <4> QED BY <4>1
    <3>5. CASE j = no_of_children
      <4>1. Begins(i + 1)' BY <2>7, <3>1, <3>2, <3>5, ReturnsBegins
      <4> QED BY <3>1, <4>1
    <3> QED BY <3>1, <3>3, <3>4, <3>5
  <2>8. CASE Visits(i, j)
    <3>1. head = j /\ c = i /\ j < no_of_children BY <2>8 DEF Visits
    <3>2. Moves(j, i, rear[j], prev[i]) BY <2>2, <3>1
    <3>3. Returns(i, j + 1)' BY <2>8, <3>2, VisitsReturns
    <3> QED BY <3>1, <3>3
  <2> QED BY <1>4, <2>5, <2>6, <2>7, <2>8
<1> QED BY <1>5, <1>6

(* push leaves what Built says, and the first turn can begin.              *)
LEMMA TurnBuild ==
    ASSUME TypeOK, QueueInv, TurnInv, Build PROVE TurnInv'
<1> DEFINE node == pushed + 1
<1> USE NodeFacts
<1>1. /\ parent = "build" /\ pushed' = node /\ lead' = lead
      /\ parent' = IF node = no_of_children THEN "run" ELSE "build"
  BY DEF Build
<1>2. Built /\ pushed < no_of_children /\ pushed \in Nat /\ node \in Children
  BY <1>1 DEF TurnInv, QueueInv, LinkInv, TypeOK, Children
<1>3. /\ head' = node /\ front' = [front EXCEPT ![node] = 1]
      /\ rear' = [rear EXCEPT ![node] = node]
      /\ \A x \in Children : x < node => prev'[x] = x + 1
  <2>1. CASE pushed = 0
    <3>1. create_queue(1) BY <2>1 DEF Build
    <3> QED BY <2>1, <3>1 DEF create_queue
  <2>2. CASE pushed # 0
    <3>1. push(node) BY <2>2 DEF Build
    <3>2. head = pushed /\ head \in Children BY <1>1, <1>2, <2>2
      DEF QueueInv, Unshifted, Children
    <3>3. front[head] = 1 BY <1>2, <3>2 DEF Built
    <3>4. prev' = [prev EXCEPT ![node] = NULL, ![head] = node] BY <3>1 DEF push
    <3>5. ASSUME NEW x \in Children, x < node PROVE prev'[x] = x + 1
      <4>1. CASE x = head BY <3>2, <3>4, <4>1 DEF TypeOK
      <4>2. CASE x # head
        <5>1. x < pushed BY <1>2, <3>2, <3>5, <4>2
        <5>2. prev'[x] = prev[x] BY <3>4, <3>5, <4>2 DEF TypeOK
        <5> QED BY <1>2, <5>1, <5>2 DEF Built
      <4> QED BY <4>1, <4>2
    <3> QED BY <3>1, <3>3, <3>5 DEF push
  <2> QED BY <2>1, <2>2
<1>4. ASSUME NEW x \in Children
      PROVE  /\ lead'[x] = 0
             /\ x <= node => front'[x] = 1 /\ rear'[x] = x
             /\ x < node => prev'[x] = x + 1
  <2>1. lead'[x] = 0 BY <1>1, <1>2 DEF Built
  <2>2. x <= node => front'[x] = 1 /\ rear'[x] = x
    BY <1>2, <1>3 DEF Built, TypeOK
  <2> QED BY <1>3, <2>1, <2>2
<1>5. Built' BY <1>1, <1>4 DEF Built
<1>6. ASSUME node = no_of_children PROVE Begins(1)'
  <2>1. head' = no_of_children BY <1>3, <1>6
  <2>2. \A x \in Children : prev'[x] = Succ(x) \/ x = no_of_children
    BY <1>4, <1>6
  <2> QED BY <1>4, <1>6, <2>1, <2>2 DEF Begins, Fresh
<1>7. parent' = "run" => \E i, j \in Children :
                            Begins(i)' \/ Returns(i, j)' \/ Visits(i, j)'
  BY <1>1, <1>6
<1> QED BY <1>1, <1>5, <1>7 DEF TurnInv

(* The order of the signals holds in every state.                          *)
LEMMA TurnInvariance == Spec => [](TypeOK /\ QueueInv /\ TurnInv)
<1>1. Init => TurnInv
  <2> SUFFICES ASSUME Init PROVE TurnInv OBVIOUS
  <2>1. /\ parent = "fork" /\ pushed = 0
        /\ \A x \in Children : lead[x] = 0 BY DEF Init
  <2>2. Built BY <2>1, NodeFacts DEF Built
  <2> QED BY <2>1, <2>2 DEF TurnInv
<1>2. TypeOK /\ QueueInv /\ TurnInv /\ [Next]_vars => TurnInv'
  <2> SUFFICES ASSUME TypeOK, QueueInv, TurnInv, [Next]_vars PROVE TurnInv'
    OBVIOUS
  <2>1. CASE Signal BY <2>1, TurnSignal
  <2>2. CASE Build BY <2>2, TurnBuild
  <2>3. CASE \/ Fork \/ sig_usr2 \/ UNCHANGED vars
             \/ \E c \in Children : ChildStep(c)
    <3>1. /\ UNCHANGED <<pushed, head, front, rear, prev, lead>>
          /\ \/ parent' = parent
             \/ parent = "fork" /\ parent' \in {"fork", "build"}
      BY <2>3 DEF Fork, sig_usr2, vars, queue, ChildStep, Install, Enter, Ignore,
                  Tell, OpenFails, Restore, ChildMoves
    <3>2. Built' <=> Built BY <3>1 DEF Built
    <3>3. ASSUME NEW i, NEW j
          PROVE  /\ Begins(i)' <=> Begins(i)
                 /\ Returns(i, j)' <=> Returns(i, j)
                 /\ Visits(i, j)' <=> Visits(i, j)
      BY <3>1 DEF Begins, Returns, Visits, Done, Visited, ToVisit, LastOne, Fresh
    <3> QED BY <3>1, <3>2, <3>3 DEF TurnInv
  <2> QED BY <2>1, <2>2, <2>3 DEF Next
<1> QED BY <1>1, <1>2, TypeInit, QueueNext, PTL DEF Spec

(* Though shift_queue updates the front and rear of one node only and the  *)
(* order is no round robin, no child ever is more than no_of_children      *)
(* signals ahead of another, for every number of children.                 *)
THEOREM SignalsAreShared == Spec => []Balanced
<1>1. TypeOK /\ QueueInv /\ TurnInv => Balanced
  <2> SUFFICES ASSUME TypeOK, TurnInv, NEW x \in Children
               PROVE  lead[x] <= no_of_children
    BY DEF Balanced
  <2> USE NodeFacts
  <2>1. CASE lead[x] = 0 BY <2>1
  <2>2. CASE parent = "run"
    <3>1. PICK i \in Children, j \in Children :
             Begins(i) \/ Returns(i, j) \/ Visits(i, j)
      BY <2>2 DEF TurnInv
    <3>2. CASE Begins(i) BY <3>2 DEF Begins, Done
    <3>3. CASE Returns(i, j)
      <4>1. x = i => lead[x] <= no_of_children BY <3>3 DEF Returns
      <4>2. x # i => lead[x] <= no_of_children
        BY <3>3 DEF Returns, Done, Visited, ToVisit, LastOne
      <4> QED BY <4>1, <4>2
    <3>4. CASE Visits(i, j)
      <4>1. x = i \/ x = j => lead[x] <= no_of_children BY <3>4 DEF Visits
      <4>2. x # i /\ x # j => lead[x] <= no_of_children
        BY <3>4 DEF Visits, Done, Visited, ToVisit, LastOne
      <4> QED BY <4>1, <4>2
    <3> QED BY <3>1, <3>2, <3>3, <3>4
  <2>3. parent \in {"fork", "build", "run", "segv"} BY DEF TypeOK
  <2> QED BY <2>1, <2>2, <2>3 DEF TurnInv, Built
<1> QED BY <1>1, TurnInvariance, PTL
=============================================================================
