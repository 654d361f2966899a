--------------------------- MODULE JobControlProofs ---------------------------
(***************************************************************************)
(* Theorems about JobControl, for any number of children and pipelines of  *)
(* any length: the child a foreground wait is for is never reaped by       *)
(* anyone else; the list of jobs keeps its shape, and once reaped names    *)
(* children only; and how a job leaves it.                                 *)
(***************************************************************************)
EXTENDS JobControl, NaturalsInduction, WellFoundedInduction, TLAPS

Waits == {"job_wait", "fg_wait", "redirect_wait"}

(* The strengthening of WaitsForChild: the pid waited for is a child's. *)
WaitInv ==
    /\ proc \in [Pids -> ProcState]
    /\ pc \in {"pipe_wait", "insert_background_job"} => waiting \in Pids
    /\ pc \in Waits => waiting \in Pids /\ proc[waiting] # "none"

(* WaitInv holds before the first prompt. *)
LEMMA WaitInvInit == Init => WaitInv
  BY DEF Init, WaitInv, Waits, ProcState

(* No step of a child makes it vanish. *)
LEMMA ChildKeepsWaitInv == WaitInv /\ ChildNext => WaitInv'
<1>0. CASE WaitInv /\ MsgSend
  BY <1>0 DEF MsgSend, WaitInv
<1> SUFFICES ASSUME WaitInv,
                    NEW p \in Pids,
                    ChildExits(p) \/ ChildStops(p) \/ ChildIsKilled(p) \/ ChildGoesOn(p)
             PROVE  WaitInv'
  BY <1>0 DEF ChildNext
<1>1. \E state \in ProcState \ {"none"} : proc' = [proc EXCEPT ![p] = state]
  BY DEF ChildExits, ChildStops, ChildIsKilled, ChildGoesOn, Changes, Zombie, ProcState
<1>2. pc' = pc /\ waiting' = waiting
  BY DEF ChildExits, ChildStops, ChildIsKilled, ChildGoesOn, Changes
<1> QED
  BY <1>1, <1>2 DEF WaitInv, Waits, ProcState, Zombie

(* A step that leaves the children alone, or reaps, with no wait begun. *)
LEMMA LoopKeepsWaitInv ==
    WaitInv /\ (PromptInterrupted \/ UserTypes \/ Reap \/ Reaped) => WaitInv'
<1> SUFFICES ASSUME WaitInv PROVE (PromptInterrupted \/ UserTypes \/ Reap \/ Reaped) => WaitInv'
  OBVIOUS
<1>1. CASE PromptInterrupted \/ UserTypes
  BY <1>1 DEF PromptInterrupted, UserTypes, ReadLine, WaitInv, Waits
<1>2. CASE Reap
  <2>1. pc = "reap" /\ pc' = "reap"
    BY <1>2 DEF Reap
  <2>2. proc' \in [Pids -> ProcState]
    BY <1>2 DEF Reap, WaitInv, ProcState, Zombie
  <2> QED
    BY <2>1, <2>2 DEF WaitInv, Waits
<1>3. CASE Reaped
  BY <1>3 DEF Reaped, WaitInv, Waits
<1> QED
  BY <1>1, <1>2, <1>3

(* A line starts a wait only for a child it forked or that both kills found. *)
LEMMA LineKeepsWaitInv == WaitInv /\ LineNext => WaitInv'
<1> SUFFICES ASSUME WaitInv, LineNext PROVE WaitInv'
  OBVIOUS
<1>1. CASE ShellEnds
  BY <1>1 DEF ShellEnds, WaitInv, Waits
<1>2. ASSUME NEW p \in Pids \cup {Shell}, Fg(p) PROVE WaitInv'
  <2>1. p \in Pids /\ proc[p] # "none"
    BY <1>2 DEF Fg, Gone
  <2>2. PICK state \in ProcState \ {"none"} : proc' = [proc EXCEPT ![p] = Continued(state)]
    BY <1>2, <2>1 DEF Fg, WaitInv, ProcState
  <2>3. Continued(state) \in ProcState \ {"none"}
    BY DEF Continued, ProcState
  <2>4. pc' = "fg_wait" /\ waiting' = p
    BY <1>2 DEF Fg
  <2> QED
    BY <2>1, <2>2, <2>3, <2>4 DEF WaitInv
<1>3. ASSUME NEW p \in Pids \cup {Shell}, Bg(p) PROVE WaitInv'
  <2>1. p \in Pids
    BY <1>3 DEF Bg, Gone
  <2>2. Continued(proc[p]) \in ProcState
    BY <2>1 DEF WaitInv, Continued, ProcState
  <2>3. proc' = [proc EXCEPT ![p] = Continued(proc[p])] /\ pc' = "prompt"
    BY <1>3 DEF Bg, ToPrompt
  <2> QED
    BY <2>1, <2>2, <2>3 DEF WaitInv, Waits
<1>4. ASSUME NEW p \in Pids \cup {Shell}, NoSuchJob(p) PROVE WaitInv'
  BY <1>4 DEF NoSuchJob, ToPrompt, WaitInv, Waits
<1>5. ASSUME NEW dmn \in BOOLEAN, Builtin(dmn) PROVE WaitInv'
  BY <1>5 DEF Builtin, ToPrompt, WaitInv, Waits
<1>6. ASSUME NEW dmn \in BOOLEAN, NEW p \in Pids, Daemonize(p, dmn) PROVE WaitInv'
  BY <1>6 DEF Daemonize, Fork, ToPrompt, WaitInv, Waits, ProcState
<1>7. ASSUME NEW amp \in BOOLEAN, NEW dmn \in BOOLEAN, Refused(amp, dmn) PROVE WaitInv'
  BY <1>7 DEF Refused, ToPrompt, WaitInv, Waits
<1>8. ASSUME NEW amp \in BOOLEAN, NEW dmn \in BOOLEAN, Pipeline(amp, dmn) PROVE WaitInv'
  BY <1>8 DEF Pipeline, WaitInv, Waits
<1>9. ASSUME NEW amp \in BOOLEAN, NEW dmn \in BOOLEAN, NEW p \in Pids,
             Redirect(p, amp, dmn) \/ Command(p, amp, dmn)
      PROVE  WaitInv'
  <2>1. proc' = [proc EXCEPT ![p] = "running"] /\ waiting' = p
    BY <1>9 DEF Redirect, Command, Fork
  <2> QED
    BY <2>1 DEF WaitInv, Waits, ProcState
<1>10. ASSUME NEW amp \in BOOLEAN, NEW dmn \in BOOLEAN, NEW p \in Pids,
              MessageQueue(p, amp, dmn) \/ SharedMemory(p, amp, dmn)
       PROVE  WaitInv'
  <2>1. proc' = [proc EXCEPT ![p] = "running"] /\ pc' \in {"msg_wait", "shm_wait"}
    BY <1>10 DEF MessageQueue, SharedMemory, StartsProducer, Fork
  <2> QED
    BY <2>1 DEF WaitInv, Waits, ProcState
<1> QED
  BY <1>1, <1>2, <1>3, <1>4, <1>5, <1>6, <1>7, <1>8, <1>9, <1>10 DEF LineNext

(* Every wait that reaps ends at the prompt or between two commands of a     *)
(* pipeline, where no foreground wait is under way.                          *)
LEMMA WaitsKeepWaitInv ==
    ASSUME WaitInv,
           \/ insert_background_job \/ job_wait \/ FgWait \/ RedirectWait \/ PipeWait
           \/ MsgWait \/ Msgrcv \/ ShmWait \/ \E p \in Pids : PipeFork(p)
    PROVE  WaitInv'
<1>1. CASE insert_background_job
  <2>1. proc' = [proc EXCEPT ![waiting] = IF proc[waiting] \in Zombie THEN "none" ELSE proc[waiting]]
        /\ pc' = "prompt"
    BY <1>1 DEF insert_background_job, ToPrompt
  <2> QED
    BY <2>1 DEF WaitInv, Waits, ProcState
<1>2. ASSUME NEW p, NEW untraced, WaitReturns(p, untraced)
      PROVE  proc' \in [Pids -> ProcState]
  BY <1>2 DEF WaitReturns, WaitInv, ProcState, Zombie
<1>3. ASSUME NEW ps, NEW untraced, WaitInterrupted(ps, untraced)
      PROVE  proc' \in [Pids -> ProcState]
  BY <1>3 DEF WaitInterrupted, WaitInv
<1>4. CASE job_wait
  <2>1. pc' = "prompt" /\ (WaitReturns(waiting, TRUE) \/ WaitInterrupted({waiting}, TRUE))
    BY <1>4 DEF job_wait
  <2> QED
    BY <2>1, <1>2, <1>3 DEF WaitInv, Waits
<1>5. CASE FgWait
  <2>1. pc' = "prompt" /\ (WaitReturns(waiting, TRUE) \/ WaitInterrupted({waiting}, TRUE))
    BY <1>5 DEF FgWait
  <2> QED
    BY <2>1, <1>2, <1>3 DEF WaitInv, Waits
<1>6. CASE RedirectWait
  <2>1. pc' = "prompt" /\ (WaitReturns(waiting, FALSE) \/ WaitInterrupted({waiting}, FALSE))
    BY <1>6 DEF RedirectWait
  <2> QED
    BY <2>1, <1>2, <1>3 DEF WaitInv, Waits
<1>7. CASE PipeWait
  <2>1. /\ pc' \in {"prompt", "pipe"}
        /\ (\E p \in Pids : WaitReturns(p, FALSE)) \/ WaitInterrupted(Pids, FALSE)
    BY <1>7 DEF PipeWait
  <2> QED
    BY <2>1, <1>2, <1>3 DEF WaitInv, Waits
<1>8. ASSUME NEW p \in Pids, PipeFork(p) PROVE WaitInv'
  BY <1>8 DEF PipeFork, Fork, WaitInv, Waits, ProcState
<1>9. CASE MsgWait \/ ShmWait
  <2>1. /\ pc' \in {"msgrcv", "pipe"}
        /\ (\E p \in Pids : WaitReturns(p, FALSE)) \/ WaitInterrupted(Pids, FALSE)
    BY <1>9 DEF MsgWait, ShmWait
  <2> QED
    BY <2>1, <1>2, <1>3 DEF WaitInv, Waits
<1>10. CASE Msgrcv
  BY <1>10 DEF Msgrcv, WaitInv, Waits
<1> QED
  BY <1>1, <1>4, <1>5, <1>6, <1>7, <1>8, <1>9, <1>10

(* WaitInv is inductive. *)
LEMMA WaitInvStep == WaitInv /\ [Next]_vars => WaitInv'
<1> SUFFICES ASSUME WaitInv, [Next]_vars PROVE WaitInv'
  OBVIOUS
<1>1. CASE UNCHANGED vars
  BY <1>1 DEF vars, WaitInv
<1>2. CASE Next
  BY <1>2, ChildKeepsWaitInv, LoopKeepsWaitInv, LineKeepsWaitInv, WaitsKeepWaitInv
     DEF Next, ShellNext
<1> QED
  BY <1>1, <1>2

(* The waitpid of a foreground command, of fg and of a redirection is always *)
(* for a child that exists: no other wait of shell.c takes it away, so the   *)
(* call does not fail and leave its status uninitialised.                    *)
THEOREM ForegroundWaitFindsChild == Spec => []WaitsForChild
<1>1. WaitInv => WaitsForChild
  BY DEF WaitInv, WaitsForChild, Waits
<1> QED
  BY WaitInvInit, WaitInvStep, <1>1, PTL DEF Spec

-----------------------------------------------------------------------------
(* The list of jobs: removeJob *)

(* Induction on the numbers up to N, for a set of them. *)
LEMMA UpTo ==
    ASSUME NEW N \in Nat, NEW G, 0 \in G, \A n \in 0 .. N - 1 : n \in G => n + 1 \in G
    PROVE  \A n \in 0 .. N : n \in G
<1> DEFINE R == {ss \in Nat \X Nat : ss[1] < ss[2]}
           T == {n \in 0 .. N : n \notin G}
<1>1. IsWellFoundedOn(R, Nat)
  BY NatLessThanWellFounded DEF OpToRel
<1>2. \A x, y \in Nat : y < x => <<y, x>> \in R
  OBVIOUS
<1>3. ASSUME T # {} PROVE FALSE
  <2>0. T \subseteq Nat
    OBVIOUS
  <2>1. PICK x \in T : \A y \in T : ~ (<<y, x>> \in R)
    <3> HIDE DEF R, T
    <3> QED
      BY <1>1, <1>3, <2>0, WFMin
  <2>2. x \in Nat /\ x <= N /\ x # 0 /\ x \notin G
    OBVIOUS
  <2>3. x - 1 \in 0 .. N - 1 /\ x - 1 < x /\ x - 1 \in Nat
    BY <2>2
  <2>4. x - 1 \notin T
    BY <1>2, <2>1, <2>2, <2>3
  <2>5. x - 1 \in G
    BY <2>3, <2>4
  <2>6. (x - 1) + 1 \in G
    BY <2>3, <2>5
  <2> QED
    BY <2>2, <2>6
<1> QED
  BY <1>3

(* The loop's first i turns, as the equation of a function. *)
Turn(js, pid, kept, i) ==
    IF i = 0 THEN <<>>
    ELSE IF js[i].pid = pid THEN kept[i - 1]
    ELSE Append(kept[i - 1], js[i])

Turns(js, pid, N, kept) == kept = [i \in 0 .. N |-> Turn(js, pid, kept, i)]

(* There is such a function. *)
LEMMA TurnsExist ==
    ASSUME NEW js, NEW pid, NEW N \in Nat
    PROVE  \E kept : Turns(js, pid, N, kept)
<1> DEFINE G == {n \in Nat : \E kept : kept = [i \in 0 .. n |-> Turn(js, pid, kept, i)]}
<1>1. 0 \in G
  <2>1. [i \in 0 .. 0 |-> <<>>] = [i \in 0 .. 0 |-> Turn(js, pid, [j \in 0 .. 0 |-> <<>>], i)]
    BY DEF Turn
  <2> QED
    BY <2>1
<1>2. ASSUME NEW n \in 0 .. N - 1, n \in G PROVE n + 1 \in G
  <2>1. PICK F : F = [i \in 0 .. n |-> Turn(js, pid, F, i)]
    BY <1>2
  <2>2. PICK H : H = [i \in 0 .. n + 1 |-> IF i = n + 1 THEN Turn(js, pid, F, n + 1) ELSE F[i]]
    OBVIOUS
  <2>3. ASSUME NEW i \in 0 .. n + 1 PROVE H[i] = Turn(js, pid, H, i)
    <3>1. CASE i = 0
      BY <2>1, <2>2, <3>1 DEF Turn
    <3>2. CASE i # 0
      <4>1. i - 1 \in 0 .. n /\ i - 1 # n + 1 /\ i - 1 \in 0 .. n + 1
        BY <3>2
      <4>2. H[i - 1] = F[i - 1]
        BY <2>2, <4>1
      <4>3. Turn(js, pid, H, i) = Turn(js, pid, F, i)
        BY <4>2 DEF Turn
      <4>4. H[i] = Turn(js, pid, F, i)
        <5>1. CASE i = n + 1
          BY <2>2, <5>1
        <5>2. CASE i # n + 1
          <6>1. i \in 0 .. n
            BY <5>2
          <6> QED
            BY <2>1, <2>2, <5>2, <6>1
        <5> QED
          BY <5>1, <5>2
      <4> QED
        BY <4>3, <4>4
    <3> QED
      BY <3>1, <3>2
  <2>4. H = [i \in 0 .. n + 1 |-> Turn(js, pid, H, i)]
    BY <2>2, <2>3
  <2> QED
    BY <2>4
<1> HIDE DEF G
<1>3. \A n \in 0 .. N : n \in G
  BY <1>1, <1>2, UpTo
<1>4. N \in G
  BY <1>3
<1> QED
  BY <1>4 DEF G, Turns

(* What is left of the first i entries. *)
LeftOf(js, pid, i, q) ==
    /\ q \in Seq(Job)
    /\ \A a \in DOMAIN q : \E j \in 1 .. i : js[j].pid # pid /\ q[a] = js[j]
    /\ \A j \in 1 .. i : js[j].pid # pid => \E a \in DOMAIN q : q[a] = js[j]
    /\ \A a, b \in DOMAIN q : q[a].pid = q[b].pid => a = b
    /\ i >= 1 => 1 \in DOMAIN q /\ q[1] = js[1]

(* One more entry. *)
LEMMA OneMoreLeft ==
    ASSUME NEW js \in Seq(Job), NEW pid, NEW n \in 0 .. Len(js) - 1, NEW q, LeftOf(js, pid, n, q),
           \A i, j \in DOMAIN js : js[i].pid = js[j].pid => i = j, js[1].pid # pid
    PROVE  LeftOf(js, pid, n + 1, IF js[n + 1].pid = pid THEN q ELSE Append(q, js[n + 1]))
<1>0. n \in Nat /\ n + 1 \in DOMAIN js /\ js[n + 1] \in Job /\ q \in Seq(Job) /\ 1 .. n \subseteq DOMAIN js
  BY DEF LeftOf
<1>1. CASE js[n + 1].pid = pid
  <2>1. n # 0
    BY <1>1
  <2>2. n >= 1 /\ \A j \in 1 .. n + 1 : j \in 1 .. n \/ j = n + 1
    BY <1>0, <2>1
  <2>3. \A j \in 1 .. n + 1 : js[j].pid # pid => j \in 1 .. n
    BY <1>1, <2>2
  <2>4. \A j \in 1 .. n : j \in 1 .. n + 1
    BY <1>0
  <2>5. LeftOf(js, pid, n + 1, q)
    BY <2>2, <2>3, <2>4 DEF LeftOf
  <2> QED
    BY <1>1, <2>5
<1>2. CASE js[n + 1].pid # pid
  <2>r. PICK r : r = Append(q, js[n + 1])
    OBVIOUS
  <2>1. /\ r \in Seq(Job) /\ DOMAIN r = 1 .. Len(q) + 1 /\ DOMAIN q = 1 .. Len(q) /\ Len(q) \in Nat
        /\ r[Len(q) + 1] = js[n + 1] /\ \A a \in DOMAIN q : a \in DOMAIN r /\ r[a] = q[a]
    BY <1>0, <2>r
  <2>2. \A a \in DOMAIN r : a \in DOMAIN q \/ a = Len(q) + 1
    BY <2>1
  <2>3. \A j \in 1 .. n : j \in 1 .. n + 1 /\ js[j].pid # js[n + 1].pid
    BY <1>0
  <2>4. \A a \in DOMAIN r : \E j \in 1 .. n + 1 : js[j].pid # pid /\ r[a] = js[j]
    <3> SUFFICES ASSUME NEW a \in DOMAIN r PROVE \E j \in 1 .. n + 1 : js[j].pid # pid /\ r[a] = js[j]
      OBVIOUS
    <3>1. CASE a \in DOMAIN q
      BY <2>1, <2>3, <3>1 DEF LeftOf
    <3>2. CASE a = Len(q) + 1
      <4>1. n + 1 \in 1 .. n + 1
        BY <1>0
      <4> QED
        BY <1>2, <2>1, <3>2, <4>1
    <3> QED
      BY <2>2, <3>1, <3>2
  <2>5. \A j \in 1 .. n + 1 : js[j].pid # pid => \E a \in DOMAIN r : r[a] = js[j]
    <3> SUFFICES ASSUME NEW j \in 1 .. n + 1, js[j].pid # pid PROVE \E a \in DOMAIN r : r[a] = js[j]
      OBVIOUS
    <3>1. CASE j \in 1 .. n
      BY <2>1, <3>1 DEF LeftOf
    <3>2. CASE j = n + 1
      <4>1. Len(q) + 1 \in DOMAIN r
        BY <2>1
      <4> QED
        BY <2>1, <3>2, <4>1
    <3>3. j \in 1 .. n \/ j = n + 1
      BY <1>0
    <3> QED
      BY <3>1, <3>2, <3>3
  <2>6. \A a \in DOMAIN q : r[a].pid # js[n + 1].pid
    BY <2>1, <2>3 DEF LeftOf
  <2>7. ASSUME NEW a \in DOMAIN r, NEW b \in DOMAIN r, r[a].pid = r[b].pid PROVE a = b
    <3>1. CASE a \in DOMAIN q /\ b \in DOMAIN q
      BY <2>1, <2>7, <3>1 DEF LeftOf
    <3>2. CASE a = Len(q) + 1 /\ b = Len(q) + 1
      BY <3>2
    <3>3. ~(a \in DOMAIN q /\ b = Len(q) + 1) /\ ~(b \in DOMAIN q /\ a = Len(q) + 1)
      BY <2>1, <2>6, <2>7
    <3> QED
      BY <2>2, <3>1, <3>2, <3>3
  <2>8. 1 \in DOMAIN r /\ r[1] = js[1]
    <3>1. CASE n = 0
      <4>1. \A a \in DOMAIN q : FALSE
        BY <3>1 DEF LeftOf
      <4>2. Len(q) = 0
        BY <2>1, <4>1
      <4> QED
        BY <2>1, <3>1, <4>2
    <3>2. CASE n # 0
      <4>1. n >= 1
        BY <1>0, <3>2
      <4> QED
        BY <2>1, <4>1 DEF LeftOf
    <3> QED
      BY <3>1, <3>2
  <2>9. LeftOf(js, pid, n + 1, r)
    BY <2>1, <2>4, <2>5, <2>7, <2>8 DEF LeftOf
  <2> QED
    BY <1>2, <2>r, <2>9
<1> QED
  BY <1>1, <1>2

(* The list that removeJob leaves, if no pid is listed twice. *)
LEMMA UnlinkedFacts ==
    ASSUME NEW js \in Seq(Job), NEW pid, js # <<>>,
           \A i, j \in DOMAIN js : js[i].pid = js[j].pid => i = j, js[1].pid # pid
    PROVE  LeftOf(js, pid, Len(js), Unlinked(js, pid))
<1>1. PICK N \in Nat : N = Len(js)
  OBVIOUS
<1>2. \E kept : Turns(js, pid, N, kept)
  BY TurnsExist
<1>3. PICK kept : /\ kept = [i \in 0 .. N |-> Turn(js, pid, kept, i)]
                  /\ Unlinked(js, pid) = kept[N]
  <2>1. PICK kept : kept = CHOOSE f : f = [i \in 0 .. N |-> Turn(js, pid, f, i)]
    OBVIOUS
  <2>2. kept = [i \in 0 .. N |-> Turn(js, pid, kept, i)]
    BY <1>2, <2>1 DEF Turns
  <2>3. Unlinked(js, pid) = kept[N]
    BY <1>1, <2>1, Zenon DEF Unlinked, Turn
  <2> QED
    BY <2>2, <2>3
<1> DEFINE G == {n \in 0 .. N : LeftOf(js, pid, n, kept[n])}
<1>4. 0 \in G
  <2>1. kept[0] = <<>>
    BY <1>1, <1>3 DEF Turn
  <2>2. LeftOf(js, pid, 0, <<>>)
    BY DEF LeftOf
  <2> QED
    BY <1>1, <2>1, <2>2
<1>5. ASSUME NEW n \in 0 .. N - 1, n \in G PROVE n + 1 \in G
  <2>1. n + 1 \in 0 .. N /\ n + 1 # 0 /\ (n + 1) - 1 = n
    BY <1>1
  <2>2. kept[n + 1] = IF js[n + 1].pid = pid THEN kept[n] ELSE Append(kept[n], js[n + 1])
    BY <1>3, <2>1 DEF Turn
  <2>3. LeftOf(js, pid, n, kept[n])
    BY <1>5
  <2>4. LeftOf(js, pid, n + 1, kept[n + 1])
    BY <1>1, <2>2, <2>3, OneMoreLeft
  <2> QED
    BY <2>1, <2>4
<1> HIDE DEF G
<1>6. \A n \in 0 .. N : n \in G
  BY <1>1, <1>4, <1>5, UpTo
<1>7. N \in G
  BY <1>1, <1>6
<1> QED
  BY <1>1, <1>3, <1>7 DEF G

-----------------------------------------------------------------------------
(* The list of jobs: its shape *)

HeadsList(js) ==
    /\ js \in Seq(Job) /\ js # <<>>
    /\ \A i \in DOMAIN js :
          /\ (js[i].pid = Shell) = (i = 1)
          /\ (js[i].status = "foreground") = (i = 1)
    /\ \A i, j \in DOMAIN js : js[i].pid = js[j].pid => i = j

(* A child about to be listed is not listed yet, the loop that reaps       *)
(* leaves only children behind it, and a pipeline in progress has a        *)
(* command left.                                                           *)
ReapedTo(n) ==
    \A i \in DOMAIN jobSet :
        i < n /\ jobSet[i].status = "background" => proc[jobSet[i].pid] # "none"

ListInv ==
    /\ curr >= 1
    /\ pc \in {"job_wait", "insert_background_job"} => waiting \in Pids \ Listed(jobSet)
    /\ pc \in {"pipe", "pipe_wait", "msg_wait", "msgrcv", "shm_wait"} => left >= 1
    /\ pc = "reap" => ReapedTo(curr)
    /\ BackgroundIsChild

Bools ==
    /\ typed \in BOOLEAN /\ queued \in BOOLEAN /\ handler \in BOOLEAN /\ interrupted \in BOOLEAN
    /\ isBackground \in BOOLEAN /\ is_daemon \in BOOLEAN /\ badRedirectpipe \in BOOLEAN

Numbers ==
    /\ pc \in Blocked \cup {"reap", "dispatch", "pipe", "insert_background_job", "ended"}
    /\ curr \in Nat /\ waiting \in Pids \cup {Shell} /\ left \in 0 .. MaxStages

Inv == HeadsList(jobSet) /\ Bools /\ Numbers /\ ListInv /\ WaitInv


(* A child that is not listed is listed last. *)
LEMMA InsertFacts ==
    ASSUME NEW js, HeadsList(js), NEW p \in Pids \ Listed(js), NEW status \in {"suspended", "background"}
    PROVE  HeadsList(insert(js, p, status)) /\ Listed(js) \subseteq Listed(insert(js, p, status))
<1>0. js \in Seq(Job) /\ js # <<>> /\ Len(js) \in DOMAIN js /\ DOMAIN js = 1 .. Len(js) /\ Len(js) \in Nat /\ Len(js) >= 1
  BY DEF HeadsList
<1>r. PICK r : r = insert(js, p, status)
  OBVIOUS
<1>x. PICK x : x = [pid |-> p, status |-> status]
  OBVIOUS
<1>1. \A i \in DOMAIN js : js[i].pid # p
  BY DEF Listed
<1>2. r = Append(js, x)
  BY <1>0, <1>1, <1>r, <1>x DEF insert
<1>3. x \in Job /\ x.pid = p /\ x.status = status /\ p # Shell /\ x.status # "foreground"
  BY <1>x, PidsAssumption DEF Job, Status
<1>4. /\ r \in Seq(Job) /\ r # <<>> /\ DOMAIN r = 1 .. Len(js) + 1 /\ r[Len(js) + 1] = x
      /\ \A i \in DOMAIN js : i \in DOMAIN r /\ r[i] = js[i]
  BY <1>0, <1>2, <1>3
<1>5. \A i \in DOMAIN r : i \in DOMAIN js \/ (i = Len(js) + 1 /\ i # 1)
  BY <1>0, <1>4
<1>6. ASSUME NEW i \in DOMAIN r
      PROVE  (r[i].pid = Shell) = (i = 1) /\ (r[i].status = "foreground") = (i = 1)
  <2>1. CASE i \in DOMAIN js
    BY <1>4, <2>1 DEF HeadsList
  <2>2. CASE i = Len(js) + 1 /\ i # 1
    BY <1>3, <1>4, <2>2
  <2> QED
    BY <1>5, <2>1, <2>2
<1>7. ASSUME NEW i \in DOMAIN r, NEW j \in DOMAIN r, r[i].pid = r[j].pid PROVE i = j
  <2>1. CASE i \in DOMAIN js /\ j \in DOMAIN js
    BY <1>4, <1>7, <2>1 DEF HeadsList
  <2>2. \A k \in DOMAIN js : r[k].pid # r[Len(js) + 1].pid
    BY <1>1, <1>3, <1>4
  <2> QED
    BY <1>5, <1>7, <2>1, <2>2
<1>8. HeadsList(r)
  BY <1>4, <1>6, <1>7 DEF HeadsList
<1>9. Listed(js) \subseteq Listed(r)
  BY <1>4 DEF Listed
<1> QED
  BY <1>r, <1>8, <1>9

(* A child that is removed is the only one to leave the list. *)
LEMMA RemoveFacts ==
    ASSUME NEW js, HeadsList(js), NEW p \in Pids
    PROVE  HeadsList(removeJob(js, p)) /\ Listed(js) \ Listed(removeJob(js, p)) \subseteq {p}
<1>0. js \in Seq(Job) /\ js # <<>> /\ 1 \in DOMAIN js /\ Head(js) = js[1] /\ DOMAIN js = 1 .. Len(js)
  BY DEF HeadsList
<1>1. js[1].pid = Shell /\ js[1].pid # p
  BY <1>0, PidsAssumption DEF HeadsList
<1>r. PICK r : r = removeJob(js, p)
  OBVIOUS
<1>2. r = Unlinked(js, p)
  BY <1>0, <1>1, <1>r DEF removeJob
<1>3. \A i, j \in DOMAIN js : js[i].pid = js[j].pid => i = j
  BY DEF HeadsList
<1>4. LeftOf(js, p, Len(js), r)
  BY <1>0, <1>1, <1>2, <1>3, UnlinkedFacts
<1>5. /\ r \in Seq(Job) /\ 1 \in DOMAIN r /\ r[1] = js[1]
      /\ \A a \in DOMAIN r : \E j \in DOMAIN js : js[j].pid # p /\ r[a] = js[j]
      /\ \A j \in DOMAIN js : js[j].pid # p => \E a \in DOMAIN r : r[a] = js[j]
      /\ \A a, b \in DOMAIN r : r[a].pid = r[b].pid => a = b
  <2>1. Len(js) >= 1
    BY <1>0
  <2> QED
    BY <1>0, <1>4, <2>1 DEF LeftOf
<1>6. ASSUME NEW a \in DOMAIN r
      PROVE  (r[a].pid = Shell) = (a = 1) /\ (r[a].status = "foreground") = (a = 1)
  <2>1. PICK j \in DOMAIN js : r[a] = js[j]
    BY <1>5
  <2>2. (js[j].pid = Shell) = (j = 1) /\ (js[j].status = "foreground") = (j = 1)
    BY DEF HeadsList
  <2>3. a = 1 => j = 1
    BY <1>1, <1>5, <2>1, <2>2
  <2>4. j = 1 => a = 1
    BY <1>5, <2>1
  <2> QED
    BY <2>1, <2>2, <2>3, <2>4
<1>7. HeadsList(r)
  BY <1>5, <1>6 DEF HeadsList
<1>8. Listed(js) \ Listed(r) \subseteq {p}
  BY <1>5 DEF Listed
<1> QED
  BY <1>r, <1>7, <1>8

(* findPID finds the one entry of a pid that is listed. *)
LEMMA PositionFacts ==
    ASSUME NEW js, HeadsList(js), NEW p \in Listed(js)
    PROVE  PositionOf(js, p) \in DOMAIN js /\ js[PositionOf(js, p)].pid = p
<1>1. PICK i \in DOMAIN js : js[i].pid = p
  BY DEF Listed
<1>2. DOMAIN js = 1 .. Len(js) /\ Len(js) \in Nat
  BY DEF HeadsList
<1>3. \A j \in 1 .. i - 1 : j \in DOMAIN js /\ j # i
  BY <1>2
<1>4. js[i].pid = p /\ \A j \in 1 .. i - 1 : js[j].pid # p
  BY <1>1, <1>3 DEF HeadsList
<1> QED
  BY <1>4, Zenon DEF PositionOf

(* bg changes the status of a child's entry. *)
LEMMA ChangeFacts ==
    ASSUME NEW js, HeadsList(js), NEW p \in Listed(js) \cap Pids
    PROVE  /\ HeadsList(changeStatus(js, p, "background"))
           /\ Listed(js) \subseteq Listed(changeStatus(js, p, "background"))
<1>k. PICK k : k = PositionOf(js, p)
  OBVIOUS
<1>0. k \in DOMAIN js /\ js[k].pid = p /\ js \in Seq(Job) /\ js # <<>> /\ js[k] \in Job /\ p # Shell
  BY <1>k, PositionFacts, PidsAssumption DEF HeadsList
<1>r. PICK r : r = changeStatus(js, p, "background")
  OBVIOUS
<1>1. r = [js EXCEPT ![k] = [js[k] EXCEPT !.status = "background"]]
  BY <1>k, <1>r DEF changeStatus
<1>x. PICK x : x = [js[k] EXCEPT !.status = "background"]
  OBVIOUS
<1>2. x \in Job /\ x.pid = p /\ x.status = "background"
  BY <1>0, <1>x DEF Job, Status
<1>3. r \in Seq(Job) /\ DOMAIN r = DOMAIN js /\ r[k] = x /\ \A i \in DOMAIN js \ {k} : r[i] = js[i]
  BY <1>0, <1>1, <1>2, <1>x
<1>4. k # 1 /\ \A i \in DOMAIN js : r[i].pid = js[i].pid /\ (i # k => r[i] = js[i])
  BY <1>0, <1>2, <1>3 DEF HeadsList
<1>5. \A i \in DOMAIN js : (r[i].status = "foreground") = (i = 1)
  BY <1>2, <1>3, <1>4 DEF HeadsList
<1>6. r # <<>>
  BY <1>0, <1>3
<1>7. HeadsList(r)
  BY <1>3, <1>4, <1>5, <1>6 DEF HeadsList
<1>8. Listed(js) \subseteq Listed(r)
  BY <1>3, <1>4 DEF Listed
<1> QED
  BY <1>r, <1>7, <1>8

-----------------------------------------------------------------------------
(* The list of jobs: every step *)

(* The flags stay flags. *)
LEMMA BoolsKept ==
    ASSUME Bools, [Next]_vars
    PROVE  Bools'
<1> USE DEF Bools
<1>1. CASE UNCHANGED vars
  BY <1>1 DEF vars, flags
<1>2. CASE ChildNext
  BY <1>2, Zenon DEF ChildNext, ChildExits, ChildStops, ChildIsKilled, ChildGoesOn, Changes, shellHandler, MsgSend, flags
<1>3. CASE PromptInterrupted \/ UserTypes
  BY <1>3, Zenon DEF PromptInterrupted, UserTypes, ReadLine, flags
<1>4. CASE Reap \/ Reaped
  BY <1>4, Zenon DEF Reap, Reaped, flags
<1>5. CASE LineNext
  <2>1. CASE ShellEnds
    BY <2>1, Zenon DEF ShellEnds, flags
  <2>2. ASSUME NEW p \in Pids \cup {Shell}, Fg(p) \/ Bg(p) \/ NoSuchJob(p) PROVE Bools'
    BY <2>2, Zenon DEF Fg, Bg, NoSuchJob, ToPrompt
  <2>3. ASSUME NEW dmn \in BOOLEAN, Builtin(dmn) PROVE Bools'
    BY <2>3, Zenon DEF Builtin, ToPrompt
  <2>4. ASSUME NEW dmn \in BOOLEAN, NEW p \in Pids, Daemonize(p, dmn) PROVE Bools'
    BY <2>4, Zenon DEF Daemonize, ToPrompt
  <2>5. ASSUME NEW amp \in BOOLEAN, NEW dmn \in BOOLEAN, Refused(amp, dmn) \/ Pipeline(amp, dmn) PROVE Bools'
    BY <2>5, Zenon DEF Refused, Pipeline, GetsThrough, ToPrompt
  <2>6. ASSUME NEW amp \in BOOLEAN, NEW dmn \in BOOLEAN, NEW p \in Pids,
               \/ MessageQueue(p, amp, dmn) \/ SharedMemory(p, amp, dmn)
               \/ Redirect(p, amp, dmn) \/ Command(p, amp, dmn)
        PROVE  Bools'
    BY <2>6, Zenon DEF MessageQueue, SharedMemory, StartsProducer, Redirect, Command, GetsThrough
  <2> QED
    BY <1>5, <2>1, <2>2, <2>3, <2>4, <2>5, <2>6 DEF LineNext
<1>6. CASE insert_background_job
  BY <1>6, Zenon DEF insert_background_job, ToPrompt
<1>7. ASSUME NEW ps, NEW p, NEW untraced, WaitReturns(p, untraced) \/ WaitInterrupted(ps, untraced)
      PROVE  interrupted' \in BOOLEAN
  BY <1>7, Zenon DEF WaitReturns, WaitInterrupted
<1>8. CASE job_wait
  BY <1>7, <1>8, Zenon DEF job_wait, flags
<1>9. CASE FgWait
  BY <1>7, <1>9, Zenon DEF FgWait, flags
<1>10. CASE RedirectWait
  BY <1>7, <1>10, Zenon DEF RedirectWait, flags
<1>11. CASE MsgWait
  BY <1>7, <1>11, Zenon DEF MsgWait, flags
<1>12. CASE Msgrcv
  BY <1>12, Zenon DEF Msgrcv, flags
<1>13. CASE ShmWait
  BY <1>7, <1>13, Zenon DEF ShmWait, flags
<1>14. CASE PipeWait
  BY <1>7, <1>14, Zenon DEF PipeWait, flags
<1>15. ASSUME NEW p \in Pids, PipeFork(p) PROVE Bools'
  BY <1>15, Zenon DEF PipeFork, flags
<1> HIDE DEF Bools
<1> QED
  BY <1>1, <1>2, <1>3, <1>4, <1>5, <1>6, <1>8, <1>9, <1>10, <1>11, <1>12, <1>13, <1>14, <1>15 DEF Next, ShellNext

(* The rest of Inv but WaitInv, which has its own proof. *)
Rest == HeadsList(jobSet) /\ Numbers /\ ListInv

(* A step to where the list is neither reaped nor looked at. *)
LEMMA Aside ==
    ASSUME Inv, HeadsList(jobSet'), UNCHANGED curr,
           pc' \in {"prompt", "ended", "fg_wait", "redirect_wait", "job_wait", "insert_background_job",
                    "pipe", "pipe_wait", "msg_wait", "msgrcv", "shm_wait"},
           waiting' \in Pids \cup {Shell}, left' \in 0 .. MaxStages,
           pc' \in {"job_wait", "insert_background_job"} => waiting' \in Pids \ Listed(jobSet'),
           pc' \in {"pipe", "pipe_wait", "msg_wait", "msgrcv", "shm_wait"} => left' >= 1
    PROVE  Rest'
<1>1. Numbers'
  BY DEF Inv, Numbers, Blocked
<1>2. ListInv'
  BY DEF Inv, ListInv, BackgroundIsChild
<1> QED
  BY <1>1, <1>2 DEF Rest

(* A child's own step does not make it vanish. *)
LEMMA ChildRest ==
    ASSUME Inv, ChildNext
    PROVE  Rest'
<1>1. /\ UNCHANGED <<jobSet, pc, curr, waiting, left>>
      /\ \A q \in Pids : proc'[q] = "none" => proc[q] = "none"
  <2>1. CASE MsgSend
    BY <2>1 DEF MsgSend
  <2>2. ASSUME NEW p \in Pids, ChildExits(p) \/ ChildStops(p) \/ ChildIsKilled(p) \/ ChildGoesOn(p)
        PROVE  /\ UNCHANGED <<jobSet, pc, curr, waiting, left>>
               /\ \A q \in Pids : proc'[q] = "none" => proc[q] = "none"
    <3>1. \E state \in ProcState \ {"none"} : proc' = [proc EXCEPT ![p] = state]
      BY <2>2 DEF ChildExits, ChildStops, ChildIsKilled, ChildGoesOn, Changes, Zombie, ProcState
    <3>2. UNCHANGED <<jobSet, pc, curr, waiting, left>>
      BY <2>2 DEF ChildExits, ChildStops, ChildIsKilled, ChildGoesOn, Changes
    <3> QED
      BY <3>1, <3>2 DEF Inv, WaitInv
  <2> QED
    BY <2>1, <2>2 DEF ChildNext
<1>2. \A i \in DOMAIN jobSet : jobSet[i].status = "background" => jobSet[i].pid \in Pids
  <2>1. \A i \in DOMAIN jobSet : jobSet[i] \in Job /\ (jobSet[i].pid = Shell) = (jobSet[i].status = "foreground")
    BY DEF Inv, HeadsList
  <2> QED
    BY <2>1 DEF Job
<1>3. HeadsList(jobSet) /\ Numbers /\ ListInv
  BY DEF Inv
<1>4. HeadsList(jobSet')
  BY <1>1, <1>3
<1>5. Numbers'
  BY <1>1, <1>3 DEF Numbers
<1>6. (pc = "reap" => ReapedTo(curr)') /\ BackgroundIsChild'
  BY <1>1, <1>2, <1>3 DEF ListInv, ReapedTo, BackgroundIsChild
<1>7. ListInv'
  BY <1>1, <1>3, <1>6 DEF ListInv
<1> QED
  BY <1>4, <1>5, <1>7 DEF Rest

(* The loop that reaps. *)
LEMMA LoopRest ==
    ASSUME Inv, PromptInterrupted \/ UserTypes \/ Reap \/ Reaped
    PROVE  Rest'
<1>0. HeadsList(jobSet) /\ Numbers /\ ListInv /\ jobSet \in Seq(Job) /\ jobSet # <<>>
  BY DEF Inv, HeadsList
<1>1. CASE PromptInterrupted \/ UserTypes
  <2>1. pc' = "reap" /\ curr' = 1 /\ UNCHANGED <<jobSet, waiting, left>>
    BY <1>1 DEF PromptInterrupted, UserTypes, ReadLine
  <2>2. \A i \in DOMAIN jobSet : ~(i < 1)
    BY <1>0
  <2>3. HeadsList(jobSet')
    BY <1>0, <2>1
  <2>4. Numbers'
    BY <1>0, <2>1 DEF Numbers
  <2>5. ReapedTo(curr)'
    BY <2>1, <2>2 DEF ReapedTo
  <2>6. ListInv'
    BY <2>1, <2>5 DEF ListInv, BackgroundIsChild
  <2> QED
    BY <2>3, <2>4, <2>6 DEF Rest
<1>2. CASE Reap
  <2>1. /\ pc = "reap" /\ curr <= Len(jobSet) /\ UNCHANGED <<pc, waiting, left>>
        /\ \/ /\ jobSet[curr].status = "background" /\ HasReturned(jobSet[curr].pid)
              /\ jobSet' = removeJob(jobSet, jobSet[curr].pid) /\ curr' = 2
           \/ /\ ~(jobSet[curr].status = "background" /\ HasReturned(jobSet[curr].pid))
              /\ curr' = curr + 1 /\ UNCHANGED <<jobSet, proc>>
    BY <1>2 DEF Reap
  <2>2. curr \in DOMAIN jobSet /\ curr \in Nat /\ curr >= 1
    BY <1>0, <2>1 DEF Numbers, ListInv
  <2>3. CASE jobSet[curr].status = "background" /\ jobSet' = removeJob(jobSet, jobSet[curr].pid) /\ curr' = 2
    <3>1. jobSet[curr] \in Job /\ (jobSet[curr].pid = Shell) = (jobSet[curr].status = "foreground")
      BY <1>0, <2>2 DEF HeadsList
    <3>2. jobSet[curr].pid \in Pids
      BY <2>3, <3>1 DEF Job
    <3>3. HeadsList(jobSet')
      BY <1>0, <2>3, <3>2, RemoveFacts
    <3>4. Numbers'
      BY <1>0, <2>1, <2>3 DEF Numbers
    <3>5. jobSet' \in Seq(Job) /\ \A i \in DOMAIN jobSet' : (jobSet'[i].status = "foreground") = (i = 1)
      BY <3>3 DEF HeadsList
    <3>6. \A i \in DOMAIN jobSet' : i < 2 => i = 1
      BY <3>5
    <3>7. ReapedTo(curr)'
      BY <2>3, <3>5, <3>6 DEF ReapedTo
    <3>8. ListInv'
      BY <1>0, <2>1, <2>3, <3>7 DEF ListInv, BackgroundIsChild
    <3> QED
      BY <3>3, <3>4, <3>8 DEF Rest
  <2>4. CASE /\ ~(jobSet[curr].status = "background" /\ HasReturned(jobSet[curr].pid))
             /\ curr' = curr + 1 /\ UNCHANGED <<jobSet, proc>>
    <3>1. HeadsList(jobSet')
      BY <1>0, <2>4
    <3>2. Numbers'
      BY <1>0, <2>1, <2>4 DEF Numbers
    <3>3. \A i \in DOMAIN jobSet : i < curr + 1 => i < curr \/ i = curr
      BY <1>0, <2>2
    <3>4. jobSet[curr].status = "background" => proc[jobSet[curr].pid] # "none"
      BY <2>4 DEF HasReturned
    <3>5. ReapedTo(curr)
      BY <1>0, <2>1 DEF ListInv
    <3>6. ReapedTo(curr)'
      BY <2>4, <3>3, <3>4, <3>5 DEF ReapedTo
    <3>7. curr' >= 1
      BY <2>2, <2>4
    <3>8. ListInv'
      BY <1>0, <2>1, <2>4, <3>6, <3>7 DEF ListInv, BackgroundIsChild
    <3> QED
      BY <3>1, <3>2, <3>8 DEF Rest
  <2> QED
    BY <2>1, <2>3, <2>4
<1>3. CASE Reaped
  <2>1. pc = "reap" /\ curr > Len(jobSet) /\ pc' = "dispatch" /\ curr' = 1 /\ UNCHANGED <<jobSet, proc, waiting, left>>
    BY <1>3 DEF Reaped
  <2>2. \A i \in DOMAIN jobSet : i < curr
    BY <1>0, <2>1 DEF Numbers
  <2>3. ReapedTo(curr)
    BY <1>0, <2>1 DEF ListInv
  <2>4. BackgroundIsChild'
    BY <2>1, <2>2, <2>3 DEF ReapedTo, BackgroundIsChild
  <2>5. Numbers'
    BY <1>0, <2>1 DEF Numbers
  <2>6. ListInv'
    BY <2>1, <2>4 DEF ListInv
  <2>7. HeadsList(jobSet')
    BY <1>0, <2>1
  <2> QED
    BY <2>5, <2>6, <2>7 DEF Rest
<1> QED
  BY <1>1, <1>2, <1>3

(* What the lines do to the list. *)
LEMMA LineRest ==
    ASSUME Inv, LineNext
    PROVE  Rest'
<1>0. HeadsList(jobSet) /\ Numbers /\ waiting \in Pids \cup {Shell} /\ left \in 0 .. MaxStages
  BY DEF Inv, Numbers
<1>u. UNCHANGED jobSet => HeadsList(jobSet')
  BY <1>0
<1>1. CASE ShellEnds
  <2>1. pc' = "ended" /\ UNCHANGED <<jobSet, curr, waiting, left>>
    BY <1>1 DEF ShellEnds
  <2> QED
    BY <1>0, <1>u, <2>1, Aside
<1>2. ASSUME NEW p \in Pids \cup {Shell}, Fg(p) PROVE Rest'
  <2>1. p \in Pids /\ pc' = "fg_wait" /\ waiting' = p /\ jobSet' = removeJob(jobSet, p) /\ UNCHANGED <<curr, left>>
    BY <1>2 DEF Fg, Gone
  <2>2. HeadsList(jobSet')
    BY <1>0, <2>1, RemoveFacts
  <2> QED
    BY <1>0, <2>1, <2>2, Aside
<1>3. ASSUME NEW p \in Pids \cup {Shell}, Bg(p) PROVE Rest'
  <2>1. /\ p \in Pids /\ p \in Listed(jobSet) /\ pc' = "prompt" /\ jobSet' = changeStatus(jobSet, p, "background")
        /\ UNCHANGED <<curr, waiting, left>>
    BY <1>3 DEF Bg, Gone, FindsStatus, ToPrompt
  <2>2. HeadsList(jobSet')
    BY <1>0, <2>1, ChangeFacts
  <2> QED
    BY <1>0, <2>1, <2>2, Aside
<1>4. ASSUME UNCHANGED <<jobSet, curr, waiting, left>>, pc' = "prompt" PROVE Rest'
  BY <1>0, <1>u, <1>4, Aside
<1>5. ASSUME NEW p \in Pids \cup {Shell}, NoSuchJob(p) PROVE Rest'
  BY <1>4, <1>5 DEF NoSuchJob, ToPrompt
<1>6. ASSUME NEW dmn \in BOOLEAN, Builtin(dmn) PROVE Rest'
  BY <1>4, <1>6 DEF Builtin, ToPrompt
<1>7. ASSUME NEW dmn \in BOOLEAN, NEW p \in Pids, Daemonize(p, dmn) PROVE Rest'
  BY <1>4, <1>7 DEF Daemonize, ToPrompt
<1>8. ASSUME NEW amp \in BOOLEAN, NEW dmn \in BOOLEAN, Refused(amp, dmn) PROVE Rest'
  BY <1>4, <1>8 DEF Refused, ToPrompt
<1>9. ASSUME NEW amp \in BOOLEAN, NEW dmn \in BOOLEAN, Pipeline(amp, dmn) PROVE Rest'
  <2>1. pc' = "pipe" /\ left' \in 2 .. MaxStages /\ UNCHANGED <<jobSet, curr, waiting>>
    BY <1>9 DEF Pipeline
  <2>2. left' \in 0 .. MaxStages /\ left' >= 1
    BY <2>1, StagesAssumption
  <2> QED
    BY <1>0, <1>u, <2>1, <2>2, Aside
<1>10. ASSUME NEW amp \in BOOLEAN, NEW dmn \in BOOLEAN, NEW p \in Pids,
              MessageQueue(p, amp, dmn) \/ SharedMemory(p, amp, dmn)
       PROVE  Rest'
  <2>1. pc' \in {"msg_wait", "shm_wait"} /\ left' \in 1 .. MaxStages /\ waiting' = p /\ UNCHANGED <<jobSet, curr>>
    BY <1>10 DEF MessageQueue, SharedMemory, StartsProducer
  <2>2. left' \in 0 .. MaxStages /\ left' >= 1
    BY <2>1, StagesAssumption
  <2> QED
    BY <1>0, <1>u, <2>1, <2>2, Aside
<1>11. ASSUME NEW amp \in BOOLEAN, NEW dmn \in BOOLEAN, NEW p \in Pids,
              Redirect(p, amp, dmn) \/ Command(p, amp, dmn)
       PROVE  Rest'
  <2>1. /\ pc' \in {"redirect_wait", "insert_background_job", "job_wait"} /\ waiting' = p
        /\ p \notin Listed(jobSet) /\ UNCHANGED <<jobSet, curr, left>>
    BY <1>11 DEF Redirect, Command, Fork, Free
  <2> QED
    BY <1>0, <1>u, <2>1, Aside
<1> QED
  BY <1>1, <1>2, <1>3, <1>5, <1>6, <1>7, <1>8, <1>9, <1>10, <1>11 DEF LineNext

(* What the waits do to the list. *)
LEMMA WaitsRest ==
    ASSUME Inv,
           \/ insert_background_job \/ job_wait \/ FgWait \/ RedirectWait \/ PipeWait
           \/ MsgWait \/ Msgrcv \/ ShmWait \/ \E p \in Pids : PipeFork(p)
    PROVE  Rest'
<1>0. HeadsList(jobSet) /\ Numbers /\ waiting \in Pids \cup {Shell} /\ left \in 0 .. MaxStages /\ ListInv
  BY DEF Inv, Numbers
<1>u. UNCHANGED jobSet => HeadsList(jobSet')
  BY <1>0
<1>1. CASE insert_background_job
  <2>1. /\ pc = "insert_background_job" /\ jobSet' = insert(jobSet, waiting, "background") /\ pc' = "prompt"
        /\ UNCHANGED <<curr, waiting, left>>
    BY <1>1 DEF insert_background_job, ToPrompt
  <2>2. waiting \in Pids \ Listed(jobSet)
    BY <1>0, <2>1 DEF ListInv
  <2>3. HeadsList(jobSet')
    BY <1>0, <2>1, <2>2, InsertFacts
  <2> QED
    BY <1>0, <2>1, <2>3, Aside
<1>2. CASE job_wait
  <2>1. /\ pc = "job_wait" /\ (jobSet' = jobSet \/ jobSet' = insert(jobSet, waiting, "suspended"))
        /\ pc' = "prompt" /\ UNCHANGED <<curr, waiting, left>>
    BY <1>2 DEF job_wait
  <2>2. waiting \in Pids \ Listed(jobSet)
    BY <1>0, <2>1 DEF ListInv
  <2>3. HeadsList(jobSet')
    BY <1>0, <2>1, <2>2, InsertFacts
  <2> QED
    BY <1>0, <2>1, <2>3, Aside
<1>3. CASE FgWait \/ RedirectWait
  <2>1. pc' = "prompt" /\ UNCHANGED <<jobSet, curr, waiting, left>>
    BY <1>3 DEF FgWait, RedirectWait
  <2> QED
    BY <1>0, <1>u, <2>1, Aside
<1>4. CASE PipeWait
  <2>1. /\ pc = "pipe_wait" /\ left' = left - 1 /\ pc' = (IF left = 1 THEN "prompt" ELSE "pipe")
        /\ UNCHANGED <<jobSet, curr, waiting>>
    BY <1>4 DEF PipeWait
  <2>2. left >= 1
    BY <1>0, <2>1 DEF ListInv
  <2>3. left' \in 0 .. MaxStages /\ pc' \in {"prompt", "pipe"} /\ (pc' = "pipe" => left' >= 1)
    BY <1>0, <2>1, <2>2, StagesAssumption
  <2> QED
    BY <1>0, <1>u, <2>1, <2>3, Aside
<1>5. CASE MsgWait \/ ShmWait
  <2>1. pc \in {"msg_wait", "shm_wait"} /\ pc' \in {"msgrcv", "pipe"} /\ UNCHANGED <<jobSet, curr, waiting, left>>
    BY <1>5 DEF MsgWait, ShmWait
  <2>2. left >= 1
    BY <1>0, <2>1 DEF ListInv
  <2> QED
    BY <1>0, <1>u, <2>1, <2>2, Aside
<1>6. CASE Msgrcv
  <2>1. /\ pc = "msgrcv" /\ ((pc' = "pipe" /\ left' = left) \/ (pc' = "prompt" /\ left' = 0))
        /\ UNCHANGED <<jobSet, curr, waiting>>
    BY <1>6 DEF Msgrcv
  <2>2. left >= 1
    BY <1>0, <2>1 DEF ListInv
  <2>3. left' \in 0 .. MaxStages /\ pc' \in {"prompt", "pipe"} /\ (pc' = "pipe" => left' >= 1)
    BY <1>0, <2>1, <2>2, StagesAssumption
  <2> QED
    BY <1>0, <1>u, <2>1, <2>3, Aside
<1>7. ASSUME NEW p \in Pids, PipeFork(p) PROVE Rest'
  <2>1. pc = "pipe" /\ pc' = "pipe_wait" /\ waiting' = p /\ UNCHANGED <<jobSet, curr, left>>
    BY <1>7 DEF PipeFork
  <2>2. left >= 1
    BY <1>0, <2>1 DEF ListInv
  <2> QED
    BY <1>0, <1>u, <2>1, <2>2, Aside
<1> QED
  BY <1>1, <1>2, <1>3, <1>4, <1>5, <1>6, <1>7

(* Inv holds before the first prompt. *)
LEMMA InvInit == Init => Inv
<1> SUFFICES ASSUME Init PROVE Inv
  OBVIOUS
<1>1. jobSet = <<[pid |-> Shell, status |-> "foreground"]>>
  BY DEF Init
<1>2. jobSet \in Seq(Job) /\ jobSet # <<>> /\ DOMAIN jobSet = {1} /\ jobSet[1].pid = Shell /\ jobSet[1].status = "foreground"
  BY <1>1 DEF Job, Status
<1>3. HeadsList(jobSet)
  BY <1>2 DEF HeadsList
<1>4. Bools
  BY DEF Init, Bools
<1>5. Numbers
  BY StagesAssumption DEF Init, Numbers, Blocked
<1>6. ListInv
  BY DEF Init, ListInv, BackgroundIsChild
<1> QED
  BY <1>3, <1>4, <1>5, <1>6, WaitInvInit DEF Inv

(* Inv is inductive. *)
LEMMA InvStep == Inv /\ [Next]_vars => Inv'
<1> SUFFICES ASSUME Inv, [Next]_vars PROVE Inv'
  OBVIOUS
<1>1. Bools' /\ WaitInv'
  BY BoolsKept, WaitInvStep DEF Inv
<1>2. CASE UNCHANGED vars
  <2>1. UNCHANGED <<jobSet, proc, pc, curr, waiting, left>>
    BY <1>2 DEF vars
  <2>2. HeadsList(jobSet')
    BY <2>1 DEF Inv
  <2>3. Numbers' /\ ListInv'
    BY <2>1 DEF Inv, Numbers, ListInv, ReapedTo, BackgroundIsChild
  <2> QED
    BY <1>1, <2>2, <2>3 DEF Inv
<1>3. CASE Next
  <2>1. Rest'
    BY <1>3, ChildRest, LoopRest, LineRest, WaitsRest DEF Next, ShellNext
  <2> QED
    BY <1>1, <2>1 DEF Inv, Rest
<1> QED
  BY <1>2, <1>3

(* The list of jobs always begins with the shell's own entry, the only one *)
(* in the foreground, and has no pid twice, whatever is inserted, removed  *)
(* and reaped: the loop of main and removeJob never run off it.            *)
THEOREM ListKeepsItsHead == Spec => []JobsInv
<1>1. Inv => JobsInv
  <2> SUFFICES ASSUME Inv PROVE JobsInv
    OBVIOUS
  <2>1. ShellHeadsJobs /\ jobSet \in Seq(Job)
    BY DEF Inv, HeadsList, ShellHeadsJobs
  <2>2. flags \in BOOLEAN \X BOOLEAN \X BOOLEAN
    BY DEF Inv, Bools, flags
  <2>3. /\ typed \in BOOLEAN /\ queued \in BOOLEAN /\ handler \in BOOLEAN /\ interrupted \in BOOLEAN
    BY DEF Inv, Bools
  <2>4. /\ proc \in [Pids -> ProcState] /\ curr \in Nat /\ waiting \in Pids \cup {Shell} /\ left \in 0 .. MaxStages
        /\ pc \in Blocked \cup {"reap", "dispatch", "pipe", "insert_background_job", "ended"}
    BY DEF Inv, WaitInv, Numbers
  <2> QED
    BY <2>1, <2>2, <2>3, <2>4 DEF JobsInv, TypeOK
<1> QED
  BY InvInit, InvStep, <1>1, PTL DEF Spec

(* When a line is looked at every background job listed is a child, though *)
(* insert_background_job and the wait(NULL) of a pipeline reap without     *)
(* looking at the list: the loop before it has removed the others.         *)
THEOREM BackgroundJobsExist == Spec => []BackgroundIsChild
<1>1. Inv => BackgroundIsChild
  BY DEF Inv, ListInv
<1> QED
  BY InvInit, InvStep, <1>1, PTL DEF Spec


-----------------------------------------------------------------------------
(* How a job leaves the list *)

(* What may be true of the jobs a step takes off the list. *)
Accounted ==
    \A p \in Listed(jobSet) \ Listed(jobSet') :
        proc'[p] = "none" \/ (pc' = "fg_wait" /\ waiting' = p)

(* Only the loop that reaps, and fg, take a job off. *)
LEMMA NextAccounted == Inv /\ [Next]_vars => [Accounted]_vars
<1> SUFFICES ASSUME Inv, Next PROVE Accounted
  OBVIOUS
<1>0. HeadsList(jobSet) /\ Numbers /\ ListInv /\ WaitInv
  BY DEF Inv
<1>u. UNCHANGED jobSet => Accounted
  BY DEF Accounted
<1>s. Listed(jobSet) \subseteq Listed(jobSet') => Accounted
  BY DEF Accounted
<1>1. CASE ChildNext
  BY <1>u, <1>1 DEF ChildNext, ChildExits, ChildStops, ChildIsKilled, ChildGoesOn, Changes, MsgSend
<1>2. CASE PromptInterrupted \/ UserTypes \/ Reaped
  BY <1>u, <1>2 DEF PromptInterrupted, UserTypes, ReadLine, Reaped
<1>3. CASE Reap
  <2>1. /\ pc = "reap" /\ curr <= Len(jobSet)
        /\ \/ /\ jobSet[curr].status = "background" /\ HasReturned(jobSet[curr].pid)
              /\ jobSet' = removeJob(jobSet, jobSet[curr].pid)
              /\ proc' = [proc EXCEPT ![jobSet[curr].pid] =
                            IF proc[jobSet[curr].pid] \in Zombie THEN "none" ELSE proc[jobSet[curr].pid]]
           \/ UNCHANGED jobSet
    BY <1>3 DEF Reap
  <2>2. CASE /\ jobSet[curr].status = "background" /\ HasReturned(jobSet[curr].pid)
             /\ jobSet' = removeJob(jobSet, jobSet[curr].pid)
             /\ proc' = [proc EXCEPT ![jobSet[curr].pid] =
                           IF proc[jobSet[curr].pid] \in Zombie THEN "none" ELSE proc[jobSet[curr].pid]]
    <3>p. PICK p : p = jobSet[curr].pid
      OBVIOUS
    <3>1. curr \in DOMAIN jobSet
      BY <1>0, <2>1 DEF HeadsList, Numbers, ListInv
    <3>2. jobSet[curr] \in Job /\ (jobSet[curr].pid = Shell) = (jobSet[curr].status = "foreground")
      BY <1>0, <3>1 DEF HeadsList
    <3>3. p \in Pids
      BY <2>2, <3>2, <3>p DEF Job
    <3>4. proc'[p] = "none"
      <4>1. proc[p] \in Zombie \/ proc[p] = "none"
        BY <2>2, <3>p DEF HasReturned
      <4>2. proc'[p] = IF proc[p] \in Zombie THEN "none" ELSE proc[p]
        BY <1>0, <2>2, <3>3, <3>p DEF WaitInv
      <4> QED
        BY <4>1, <4>2
    <3>5. Listed(jobSet) \ Listed(jobSet') \subseteq {p}
      BY <1>0, <2>2, <3>3, <3>p, RemoveFacts
    <3> QED
      BY <3>4, <3>5 DEF Accounted
  <2> QED
    BY <1>u, <2>1, <2>2
<1>4. CASE LineNext
  <2>1. ASSUME NEW p \in Pids \cup {Shell}, Fg(p) PROVE Accounted
    <3>1. p \in Pids /\ pc' = "fg_wait" /\ waiting' = p /\ jobSet' = removeJob(jobSet, p)
      BY <2>1 DEF Fg, Gone
    <3>2. Listed(jobSet) \ Listed(jobSet') \subseteq {p}
      BY <1>0, <3>1, RemoveFacts
    <3> QED
      BY <3>1, <3>2 DEF Accounted
  <2>2. ASSUME NEW p \in Pids \cup {Shell}, Bg(p) PROVE Accounted
    <3>1. p \in Pids /\ p \in Listed(jobSet) /\ jobSet' = changeStatus(jobSet, p, "background")
      BY <2>2 DEF Bg, Gone, FindsStatus
    <3> QED
      BY <1>0, <1>s, <3>1, ChangeFacts
  <2>3. CASE ShellEnds
    BY <1>u, <2>3 DEF ShellEnds
  <2>4. ASSUME NEW p \in Pids \cup {Shell}, NoSuchJob(p) PROVE Accounted
    BY <1>u, <2>4 DEF NoSuchJob
  <2>5. ASSUME NEW dmn \in BOOLEAN, Builtin(dmn) \/ \E p \in Pids : Daemonize(p, dmn) PROVE Accounted
    BY <1>u, <2>5 DEF Builtin, Daemonize
  <2>6. ASSUME NEW amp \in BOOLEAN, NEW dmn \in BOOLEAN,
               \/ Refused(amp, dmn) \/ Pipeline(amp, dmn)
               \/ \E p \in Pids : \/ MessageQueue(p, amp, dmn) \/ SharedMemory(p, amp, dmn)
                                  \/ Redirect(p, amp, dmn) \/ Command(p, amp, dmn)
        PROVE  Accounted
    BY <1>u, <2>6 DEF Refused, Pipeline, MessageQueue, SharedMemory, StartsProducer, Redirect, Command
  <2> QED
    BY <1>4, <2>1, <2>2, <2>3, <2>4, <2>5, <2>6 DEF LineNext
<1>5. CASE insert_background_job
  <2>1. pc = "insert_background_job" /\ jobSet' = insert(jobSet, waiting, "background")
    BY <1>5 DEF insert_background_job
  <2>2. waiting \in Pids \ Listed(jobSet)
    BY <1>0, <2>1 DEF ListInv
  <2> QED
    BY <1>0, <1>s, <2>1, <2>2, InsertFacts
<1>6. CASE job_wait
  <2>1. pc = "job_wait" /\ (jobSet' = jobSet \/ jobSet' = insert(jobSet, waiting, "suspended"))
    BY <1>6 DEF job_wait
  <2>2. waiting \in Pids \ Listed(jobSet)
    BY <1>0, <2>1 DEF ListInv
  <2> QED
    BY <1>0, <1>s, <2>1, <2>2, InsertFacts
<1>7. CASE FgWait \/ RedirectWait \/ PipeWait \/ MsgWait \/ Msgrcv \/ ShmWait \/ \E p \in Pids : PipeFork(p)
  BY <1>u, <1>7 DEF FgWait, RedirectWait, PipeWait, MsgWait, Msgrcv, ShmWait, PipeFork
<1> QED
  BY <1>1, <1>2, <1>3, <1>4, <1>5, <1>6, <1>7 DEF Next, ShellNext

(* A job leaves the list only in the step that finds it reaped, or when fg *)
(* waits for it: one that runs or is stopped can always be named.          *)
THEOREM NoJobIsLost == Spec => LeavesListReapedOrToFg
<1>1. Inv /\ [Next]_vars => [Accounted]_vars
  BY NextAccounted
<1>2. [][Accounted]_vars => LeavesListReapedOrToFg
  BY PTL DEF Accounted, LeavesListReapedOrToFg
<1> QED
  BY InvInit, InvStep, <1>1, <1>2, PTL DEF Spec

=============================================================================
