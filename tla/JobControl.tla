------------------------------ MODULE JobControl ------------------------------
(***************************************************************************)
(* MyShell/shell.c: the read-eval loop, the list of jobs (jobSet), fg, bg, *)
(* the SIGCHLD handler and the waits of foreground commands, redirections, *)
(* pipelines and the operators ## and SS, with the children as processes   *)
(* of their own.                                                           *)
(*                                                                         *)
(* A child is where the kernel has it: "none" (no such process),           *)
(* "running", "stopped" (a stop no wait has reported yet), "seen" (a       *)
(* reported stop), "resumed" (continued, its SIGCHLD still to come), or a  *)
(* zombie whose WSTOPSIG(status) is 0 ("zero": exit 0, or killed) or not   *)
(* ("nonzero": any other exit code).  Commands may stop, exit or be killed *)
(* at any time.  The terminal's foreground group (tcsetpgrp, setpgid) and  *)
(* the words of a line are left out; a line is the branch of main it       *)
(* takes.  fork does not fail, and a pid is not reused while it is listed. *)
(***************************************************************************)
EXTENDS Integers, Sequences, FiniteSets

CONSTANTS
    Pids,        \* the pids the children get
    Shell,       \* the pid of the shell
    MaxStages    \* the commands of the longest pipeline a user types

ASSUME PidsAssumption == Shell \notin Pids

ASSUME StagesAssumption == MaxStages \in Nat /\ MaxStages >= 2

VARIABLES
    jobSet,            \* the list of jobs, the shell's own entry first
    proc,              \* the state of each child
    pc,                \* where the shell is
    curr,              \* the position of curr in the loop that reaps
    typed,             \* whether a user typed the line
    waiting,           \* the pid given to fork's caller or to waitpid
    left,              \* the commands of the pipeline still to be waited for
    queued,            \* the queue of ## holds the output of its first command
    isBackground,      \* the flag of that name
    is_daemon,         \* the flag of that name
    badRedirectpipe,   \* the flag of that name
    handler,           \* shellHandler is installed for SIGCHLD
    interrupted        \* it ran while the shell was blocked in a call

flags == <<isBackground, is_daemon, badRedirectpipe>>
vars == <<jobSet, proc, pc, curr, typed, waiting, left, queued, flags, handler, interrupted>>

Zombie == {"zero", "nonzero"}
ProcState == {"none", "running", "stopped", "seen", "resumed"} \cup Zombie
Status == {"suspended", "background", "foreground"}
Job == [pid : Pids \cup {Shell}, status : Status]

(* The shell is in fgetc, in waitpid, in wait or in msgrcv. *)
Blocked == {"prompt", "job_wait", "fg_wait", "redirect_wait", "pipe_wait",
            "msg_wait", "msgrcv", "shm_wait"}

-----------------------------------------------------------------------------
(* The list of jobs *)

Listed(js) == {js[i].pid : i \in DOMAIN js}

(* Where findPID stops in the list: the first entry of that pid. *)
PositionOf(js, pid) ==
    CHOOSE i \in DOMAIN js : js[i].pid = pid /\ \A j \in 1 .. i - 1 : js[j].pid # pid

(* insert: appended unless the last entry already has its pid. *)
insert(js, pid, status) ==
    IF js[Len(js)].pid # pid
      THEN Append(js, [pid |-> pid, status |-> status])
      ELSE js

(* The loop of removeJob: every entry of that pid is unlinked. *)
Unlinked(js, pid) ==
    LET kept[i \in 0 .. Len(js)] ==
          IF i = 0 THEN <<>>
          ELSE IF js[i].pid = pid THEN kept[i - 1]
          ELSE Append(kept[i - 1], js[i])
    IN kept[Len(js)]

(* removeJob: the head alone when it is the head's pid, else every later    *)
(* entry of that pid.  isSuspended is never set.                            *)
removeJob(js, pid) == IF Head(js).pid = pid THEN Tail(js) ELSE Unlinked(js, pid)

(* findPID and the test of a status, as fg and bg use them. *)
FindsStatus(js, pid, statuses) ==
    pid \in Listed(js) /\ js[PositionOf(js, pid)].status \in statuses

changeStatus(js, pid, status) ==
    [js EXCEPT ![PositionOf(js, pid)].status = status]

-----------------------------------------------------------------------------
(* The kernel *)

Init ==
    /\ jobSet = <<[pid |-> Shell, status |-> "foreground"]>>
    /\ proc = [p \in Pids |-> "none"]
    /\ pc = "prompt"
    /\ curr = 1
    /\ typed = TRUE
    /\ waiting = Shell
    /\ left = 0
    /\ queued = FALSE
    /\ isBackground = FALSE
    /\ is_daemon = FALSE
    /\ badRedirectpipe = FALSE
    /\ handler = FALSE
    /\ interrupted = FALSE

(* A pid the kernel may give to a new child. *)
Free == {p \in Pids : proc[p] = "none" /\ p \notin Listed(jobSet)}

Fork(p) ==
    /\ p \in Free
    /\ proc' = [proc EXCEPT ![p] = "running"]

(* SIGCHLD reaches the shell: shellHandler runs once, restores SIG_DFL, and  *)
(* as it was installed without SA_RESTART a blocked call is interrupted.     *)
shellHandler ==
    /\ handler' = FALSE
    /\ interrupted' = (interrupted \/ (handler /\ pc \in Blocked))

Changes(p, from, to) ==
    /\ proc[p] \in from
    /\ \E state \in to : proc' = [proc EXCEPT ![p] = state]
    /\ shellHandler
    /\ UNCHANGED <<jobSet, pc, curr, typed, waiting, left, queued, flags>>

ChildExits(p) == Changes(p, {"running"}, Zombie)
ChildStops(p) == Changes(p, {"running"}, {"stopped"})
ChildIsKilled(p) == Changes(p, {"running", "stopped", "seen", "resumed"}, {"zero"})
ChildGoesOn(p) == Changes(p, {"resumed"}, {"running"})

-----------------------------------------------------------------------------
(* The read-eval loop *)

(* lineget returns, SIGCHLD gets its handler back, the reaping starts. *)
ReadLine(byUser) ==
    /\ pc = "prompt"
    /\ typed' = byUser
    /\ handler' = TRUE
    /\ interrupted' = FALSE
    /\ pc' = "reap"
    /\ curr' = 1
    /\ UNCHANGED <<jobSet, proc, waiting, left, queued, flags>>

UserTypes == ReadLine(TRUE)

(* An interrupted fgetc is EOF, and lineget returns an empty line. *)
PromptInterrupted == interrupted /\ ReadLine(FALSE)

(* Mutant: a pid that is no child any more is taken for a running job. *)
HasReturnedPositive(p) == proc[p] \in Zombie

(* Mutant: only an error is taken for the end of a job. *)
HasReturnedError(p) == proc[p] = "none"

(* Mutant: waitpid is also given WUNTRACED. *)
HasReturnedUntraced(p) == proc[p] \in Zombie \cup {"none", "stopped"}

(* waitpid(pid, NULL, WNOHANG) returns the pid of a zombie, 0 for a live     *)
(* child, and -1 for a pid that is no child any more.                        *)
HasReturned(p) == proc[p] \in Zombie \cup {"none"}

(* Mutant: the status is not looked at, and waitpid(getpid()) is an error. *)
ReapAnyStatus ==
    /\ pc = "reap"
    /\ curr <= Len(jobSet)
    /\ IF jobSet[curr].pid = Shell
         THEN /\ jobSet' = removeJob(jobSet, Shell)
              /\ curr' = 2
         ELSE /\ curr' = curr + 1
              /\ UNCHANGED jobSet
    /\ UNCHANGED <<proc, pc, typed, waiting, left, queued, flags, handler, interrupted>>

(* One pass of the loop over the jobs: a background job waitpid does not     *)
(* answer 0 for is removed, and the loop goes on behind the head.            *)
Reap ==
    /\ pc = "reap"
    /\ curr <= Len(jobSet)
    /\ LET job == jobSet[curr]
       IN IF job.status = "background" /\ HasReturned(job.pid)
            THEN /\ jobSet' = removeJob(jobSet, job.pid)
                 /\ proc' = [proc EXCEPT ![job.pid] = IF @ \in Zombie THEN "none" ELSE @]
                 /\ curr' = 2
            ELSE /\ curr' = curr + 1
                 /\ UNCHANGED <<jobSet, proc>>
    /\ UNCHANGED <<pc, typed, waiting, left, queued, flags, handler, interrupted>>

Reaped ==
    /\ pc = "reap"
    /\ curr > Len(jobSet)
    /\ pc' = "dispatch"
    /\ curr' = 1
    /\ UNCHANGED <<jobSet, proc, typed, waiting, left, queued, flags, handler, interrupted>>

-----------------------------------------------------------------------------
(* What a line does.  amp: it ends in &.  dmn: it begins with daemonize.     *)

(* The line is the user's, or the empty one, which has neither. *)
Line(amp, dmn) == pc = "dispatch" /\ (typed \/ ~(amp \/ dmn))

UserLine == pc = "dispatch" /\ typed

ToPrompt == pc' = "prompt" /\ UNCHANGED <<curr, typed, handler, interrupted>>

(* exit; also fg or bg without an argument, which reads through NULL. *)
ShellEnds ==
    /\ UserLine
    /\ pc' = "ended"
    /\ UNCHANGED <<jobSet, proc, curr, typed, waiting, left, queued, flags, handler, interrupted>>

(* printlist, and cd: the flag initArgs set for daemonize stays set. *)
Builtin(dmn) ==
    /\ UserLine
    /\ is_daemon' = (is_daemon \/ dmn)
    /\ ToPrompt
    /\ UNCHANGED <<jobSet, proc, waiting, left, queued, isBackground, badRedirectpipe>>

(* SIGCONT: a stopped child goes on and will notify the shell of it.         *)
Continued(state) == IF state \in {"stopped", "seen"} THEN "resumed" ELSE state

(* Mutant: the results of kill are not looked at. *)
GoneUnchecked(pid) == pid = Shell

(* Neither kill finds the process. *)
Gone(pid) == pid \notin {p \in Pids : proc[p] # "none"}

(* fg: SIGTSTP, SIGCONT, the job leaves the list, the shell waits for it.    *)
Fg(pid) ==
    /\ UserLine
    /\ FindsStatus(jobSet, pid, {"suspended", "background"})
    /\ ~Gone(pid)
    /\ \E state \in {proc[pid]} \cup (IF proc[pid] = "running" THEN {"stopped"} ELSE {}) :
          proc' = [proc EXCEPT ![pid] = Continued(state)]
    /\ jobSet' = removeJob(jobSet, pid)
    /\ waiting' = pid
    /\ pc' = "fg_wait"
    /\ isBackground' = FALSE
    /\ UNCHANGED <<curr, typed, left, queued, is_daemon, badRedirectpipe, handler, interrupted>>

(* bg: SIGCONT to a job listed as suspended, which is then a background job. *)
Bg(pid) ==
    /\ UserLine
    /\ FindsStatus(jobSet, pid, {"suspended"})
    /\ ~Gone(pid)
    /\ proc' = [proc EXCEPT ![pid] = Continued(@)]
    /\ jobSet' = changeStatus(jobSet, pid, "background")
    /\ isBackground' = FALSE
    /\ ToPrompt
    /\ UNCHANGED <<waiting, left, queued, is_daemon, badRedirectpipe>>

(* fg or bg of anything else says so and changes nothing: an entry whose     *)
(* process is gone stays listed.                                             *)
NoSuchJob(pid) ==
    /\ UserLine
    /\ ~FindsStatus(jobSet, pid, {"suspended"}) \/ Gone(pid)
    /\ isBackground' = FALSE
    /\ ToPrompt
    /\ UNCHANGED <<jobSet, proc, waiting, left, queued, is_daemon, badRedirectpipe>>

(* The daemon is a child the shell neither lists nor waits for. *)
Daemonize(p, dmn) ==
    /\ Line(FALSE, dmn)
    /\ is_daemon \/ dmn
    /\ Fork(p)
    /\ is_daemon' = FALSE
    /\ ToPrompt
    /\ UNCHANGED <<jobSet, waiting, left, queued, isBackground, badRedirectpipe>>

(* A line gets to pipe_filter unless is_daemon caught it: & is looked at     *)
(* first.  It leaves isBackground and is_daemon set for the lines to come.   *)
GetsThrough(amp, dmn) ==
    /\ Line(amp, dmn)
    /\ amp \/ ~(is_daemon \/ dmn)
    /\ is_daemon' = (is_daemon \/ dmn)
    /\ isBackground' = (isBackground \/ amp)

(* A second < with pipes is refused, and badRedirectpipe is never reset:     *)
(* from then on every line that gets here is.  A redirection from a file     *)
(* that is missing, or to several, is refused too.                           *)
Refused(amp, dmn) ==
    /\ GetsThrough(amp, dmn)
    /\ UNCHANGED badRedirectpipe \/ (typed /\ badRedirectpipe' = TRUE)
    /\ typed \/ badRedirectpipe
    /\ ToPrompt
    /\ UNCHANGED <<jobSet, proc, waiting, left, queued>>

(* executePipe: the commands run one after the other. *)
Pipeline(amp, dmn) ==
    /\ GetsThrough(amp, dmn)
    /\ typed
    /\ ~badRedirectpipe
    /\ left' \in 2 .. MaxStages
    /\ pc' = "pipe"
    /\ UNCHANGED <<jobSet, proc, curr, typed, waiting, queued, badRedirectpipe, handler, interrupted>>

PipeFork(p) ==
    /\ pc = "pipe"
    /\ Fork(p)
    /\ waiting' = p
    /\ pc' = "pipe_wait"
    /\ UNCHANGED <<jobSet, curr, typed, left, queued, flags, handler, interrupted>>

(* a ## b , c and a SS b , c: a child runs a and keeps its output in a       *)
(* message queue of its own or in the shared memory.                         *)
StartsProducer(p, amp, dmn) ==
    /\ GetsThrough(amp, dmn)
    /\ typed
    /\ ~badRedirectpipe
    /\ Fork(p)
    /\ waiting' = p
    /\ left' \in 1 .. MaxStages
    /\ UNCHANGED <<jobSet, curr, typed, queued, badRedirectpipe, handler, interrupted>>

MessageQueue(p, amp, dmn) == pc' = "msg_wait" /\ StartsProducer(p, amp, dmn)
SharedMemory(p, amp, dmn) == pc' = "shm_wait" /\ StartsProducer(p, amp, dmn)

(* execRedirect *)
Redirect(p, amp, dmn) ==
    /\ GetsThrough(amp, dmn)
    /\ typed
    /\ ~badRedirectpipe
    /\ Fork(p)
    /\ waiting' = p
    /\ pc' = "redirect_wait"
    /\ UNCHANGED <<jobSet, curr, typed, left, queued, badRedirectpipe, handler, interrupted>>

(* A command of its own, in the foreground or, if the flag is set, not. *)
Command(p, amp, dmn) ==
    /\ GetsThrough(amp, dmn)
    /\ ~badRedirectpipe
    /\ Fork(p)
    /\ waiting' = p
    /\ pc' = IF isBackground' THEN "insert_background_job" ELSE "job_wait"
    /\ UNCHANGED <<jobSet, curr, typed, left, queued, badRedirectpipe, handler, interrupted>>

-----------------------------------------------------------------------------
(* Waiting for children *)

(* The background job is listed, and reaped at once if it has finished. *)
insert_background_job ==
    /\ pc = "insert_background_job"
    /\ jobSet' = insert(jobSet, waiting, "background")
    /\ proc' = [proc EXCEPT ![waiting] = IF @ \in Zombie THEN "none" ELSE @]
    /\ isBackground' = FALSE
    /\ ToPrompt
    /\ UNCHANGED <<waiting, left, queued, is_daemon, badRedirectpipe>>

(* What a wait reports: a zombie, and with WUNTRACED a stop nobody saw. *)
Reportable(p, untraced) == proc[p] \in Zombie \/ (untraced /\ proc[p] = "stopped")

(* waitpid(pid) returns pid. *)
WaitReturns(p, untraced) ==
    /\ Reportable(p, untraced)
    /\ proc' = [proc EXCEPT ![p] = IF @ \in Zombie THEN "none" ELSE "seen"]
    /\ interrupted' = FALSE

(* The signal handler ran, and no child of ps has anything to report. *)
WaitInterrupted(ps, untraced) ==
    /\ interrupted
    /\ \A p \in ps : ~Reportable(p, untraced)
    /\ interrupted' = FALSE
    /\ UNCHANGED proc

(* job_wait: WSTOPSIG is also the exit code, so a command that exits with    *)
(* another code than 0 is listed as suspended; after an interrupted wait the *)
(* status is not initialised.                                                *)
job_wait ==
    /\ pc = "job_wait"
    /\ \/ /\ WaitReturns(waiting, TRUE)
          /\ jobSet' = IF proc[waiting] = "zero"
                         THEN jobSet
                         ELSE insert(jobSet, waiting, "suspended")
       \/ /\ WaitInterrupted({waiting}, TRUE)
          /\ jobSet' \in {jobSet, insert(jobSet, waiting, "suspended")}
    /\ pc' = "prompt"
    /\ UNCHANGED <<curr, typed, waiting, left, queued, flags, handler>>

(* The wait at the end of fg: a job that stops again is not listed again. *)
FgWait ==
    /\ pc = "fg_wait"
    /\ WaitReturns(waiting, TRUE) \/ WaitInterrupted({waiting}, TRUE)
    /\ pc' = "prompt"
    /\ UNCHANGED <<jobSet, curr, typed, waiting, left, queued, flags, handler>>

RedirectWait ==
    /\ pc = "redirect_wait"
    /\ WaitReturns(waiting, FALSE) \/ WaitInterrupted({waiting}, FALSE)
    /\ pc' = "prompt"
    /\ UNCHANGED <<jobSet, curr, typed, waiting, left, queued, flags, handler>>

(* The child of ## sends what it read; it may also fail to, or be killed.    *)
MsgSend ==
    /\ pc \in {"msg_wait", "msgrcv"}
    /\ waiting \in {p \in Pids : proc[p] = "running"}
    /\ queued' = TRUE
    /\ UNCHANGED <<jobSet, proc, pc, curr, typed, waiting, left, flags, handler, interrupted>>

(* wait(NULL) in shellMsgQ, for any child. *)
MsgWait ==
    /\ pc = "msg_wait"
    /\ (\E p \in Pids : WaitReturns(p, FALSE)) \/ WaitInterrupted(Pids, FALSE)
    /\ pc' = "msgrcv"
    /\ UNCHANGED <<jobSet, curr, typed, waiting, left, queued, flags, handler>>

(* msgrcv waits for the output, for ever if it is not sent; then the other   *)
(* commands run one after the other.  An interrupted one ends the line.      *)
Msgrcv ==
    /\ pc = "msgrcv"
    /\ \/ queued /\ pc' = "pipe" /\ UNCHANGED left
       \/ ~queued /\ interrupted /\ pc' = "prompt" /\ left' = 0
    /\ queued' = FALSE
    /\ interrupted' = FALSE
    /\ UNCHANGED <<jobSet, proc, curr, typed, waiting, flags, handler>>

(* shellShm goes on after wait(NULL) with what the shared memory holds. *)
ShmWait ==
    /\ pc = "shm_wait"
    /\ (\E p \in Pids : WaitReturns(p, FALSE)) \/ WaitInterrupted(Pids, FALSE)
    /\ pc' = "pipe"
    /\ UNCHANGED <<jobSet, curr, typed, waiting, left, queued, flags, handler>>

(* wait(NULL) is content with any child, a background job included. *)
PipeWait ==
    /\ pc = "pipe_wait"
    /\ (\E p \in Pids : WaitReturns(p, FALSE)) \/ WaitInterrupted(Pids, FALSE)
    /\ left' = left - 1
    /\ pc' = IF left = 1 THEN "prompt" ELSE "pipe"
    /\ UNCHANGED <<jobSet, curr, typed, waiting, queued, flags, handler>>

-----------------------------------------------------------------------------

ChildNext ==
    \/ \E p \in Pids : ChildExits(p) \/ ChildStops(p) \/ ChildIsKilled(p) \/ ChildGoesOn(p)
    \/ MsgSend

LineNext ==
    \/ ShellEnds
    \/ \E p \in Pids \cup {Shell} : Fg(p) \/ Bg(p) \/ NoSuchJob(p)
    \/ \E dmn \in BOOLEAN : Builtin(dmn) \/ (\E p \in Pids : Daemonize(p, dmn))
    \/ \E amp, dmn \in BOOLEAN :
          \/ Refused(amp, dmn)
          \/ Pipeline(amp, dmn)
          \/ \E p \in Pids :
                \/ MessageQueue(p, amp, dmn) \/ SharedMemory(p, amp, dmn)
                \/ Redirect(p, amp, dmn) \/ Command(p, amp, dmn)

ShellNext ==
    \/ PromptInterrupted
    \/ Reap
    \/ Reaped
    \/ LineNext
    \/ insert_background_job
    \/ job_wait
    \/ FgWait
    \/ RedirectWait
    \/ MsgWait
    \/ Msgrcv
    \/ ShmWait
    \/ PipeWait
    \/ \E p \in Pids : PipeFork(p)

Next == ShellNext \/ UserTypes \/ ChildNext

Spec == Init /\ [][Next]_vars

(* The shell does not halt between two blocking calls, and the user goes on  *)
(* typing; nothing is assumed of the children.                               *)
FairSpec == Spec /\ WF_vars(ShellNext) /\ WF_vars(UserTypes)

-----------------------------------------------------------------------------

TypeOK ==
    /\ jobSet \in Seq(Job)
    /\ proc \in [Pids -> ProcState]
    /\ pc \in Blocked \cup {"reap", "dispatch", "pipe", "insert_background_job", "ended"}
    /\ curr \in Nat
    /\ typed \in BOOLEAN
    /\ waiting \in Pids \cup {Shell}
    /\ left \in 0 .. MaxStages
    /\ queued \in BOOLEAN
    /\ flags \in BOOLEAN \X BOOLEAN \X BOOLEAN
    /\ handler \in BOOLEAN
    /\ interrupted \in BOOLEAN

(* The shell's own entry heads the list in every state and is the only       *)
(* foreground one, and no pid is listed twice: the loop of main that reaps   *)
(* reads curr->next after every removal, and the handler walks the list      *)
(* while removeJob works on it; both are safe as long as the head stays.     *)
ShellHeadsJobs ==
    /\ jobSet # <<>>
    /\ \A i \in DOMAIN jobSet :
          /\ (jobSet[i].pid = Shell) = (i = 1)
          /\ (jobSet[i].status = "foreground") = (i = 1)
    /\ \A i, j \in DOMAIN jobSet : jobSet[i].pid = jobSet[j].pid => i = j

(* The types, and the list. *)
JobsInv == TypeOK /\ ShellHeadsJobs

(* When a line is looked at, every background job is still a child of the    *)
(* shell, whoever reaped children before: insert_background_job at once, or  *)
(* wait(NULL) of a pipeline in place of its own command.                     *)
BackgroundIsChild ==
    pc = "dispatch" =>
        \A i \in DOMAIN jobSet :
            jobSet[i].status = "background" => proc[jobSet[i].pid] # "none"

(* waitpid is never called for a process that is gone, which would return    *)
(* with an uninitialised status: nothing else reaps the child in between.    *)
WaitsForChild ==
    pc \in {"job_wait", "fg_wait", "redirect_wait"} => proc[waiting] # "none"

(* A job leaves the list only once it has been reaped or when fg waits for   *)
(* it, so a job that still runs or is stopped can be named by fg and bg.     *)
LeavesListReapedOrToFg ==
    [][\A p \in Listed(jobSet) \ Listed(jobSet') :
          proc'[p] = "none" \/ (pc' = "fg_wait" /\ waiting' = p)]_vars

(* A background job that has finished leaves the list, if the shell keeps    *)
(* coming back to its prompt.                                                *)
FinishedLeaves ==
    []<>(pc = "prompt") =>
        \A p \in Pids :
            (FindsStatus(jobSet, p, {"background"}) /\ proc[p] \in Zombie \cup {"none"})
                ~> p \notin Listed(jobSet)

=============================================================================
