# Verification of Network-Programming-C

TLA+ models of the programs of this repository, their TLC runs and TLAPS
proofs. The repository is a collection of small, independent network and
process-control programs in C; each is a system of a few processes that talk
through sockets, signals, System V IPC or shared memory. `PROJECT.json` lists
the components, the runs, the source lines each definition models, the
findings, the hazards and the theorems.

## Inventory

| Program (directory under `src/`) | State | Operations | How the parts interact | What is hard | Correct means |
|---|---|---|---|---|---|
| `N-Channel-StopNWait` | client: read position, `seq_no`, `eof_seq_no`, the packet kept per channel; server: output file, `is_last` | send a round, wait for one ACK per channel, retransmit on timeout, FIN; serve or drop a packet | N TCP connections, one `select()` loop | timeouts racing ACKs, drops, end of file on any channel | the output is the input; both programs end |
| `Fork Per Client` | a System V semaphore, a child per connection | start, Ctrl-C, accept and fork, echo; `semop(-1)`, talk, `semop(+1)` in the client | TCP, and a semaphore the *clients* count down | killed clients and servers, restarts while clients hold ids of a removed semaphore | never more than N sessions; who waits gets in |
| `Load Balancer` | linked queue of pids, a signal handler per child | fork, build the queue, signal and shift for ever; read the file in a handler | SIGUSR1 and SIGUSR2 | signals at every point of the handler, stale pointers, leaked descriptors | every child keeps getting work; no crash |
| `FileTransfer-Selective-Repeat` | as the upload, plus the relay's sockets and the client address it saw last | send, retransmit, forward or drop, relay an ACK, write | UDP through one relay process with a socket per channel | loss, ACKs to another socket than the one that waits, who shuts down first | as the upload |
| `Voting System` | votes of a round | fork, vote, collect, decide | message queue | the parent waits for every child | the decision is the majority of the children's votes |
| `ClusterShell` (server, client, chat) | client table and list, reply descriptor | accept, forward a command, return the output, disconnect | threads of one server over shared globals | races on the shared descriptor, slots of clients that left | an answer goes to the client that asked |
| `MyShell` | job list, foreground job, descriptors of a pipeline | run, fg, bg, kill, pipes, redirection, reaping | processes, SIGCHLD, pipes | the handler against the main loop, freed list nodes | every live job is in the list once; a pipeline's stages are connected |
| `MyShell/engine.c` | a trie | insert, complete | called from the prompt | pure algorithm | completes exactly the inserted words |
| `UDPChatter` | subjects, number of groups and threads, a socket per subscription | subscribe, send, send to a subject, hear a header | multicast; one receiving thread per subscription | table and counter shared without the lock, an argument on the stack | a subscription keeps its entry and its thread; a header that is heard is listed |
| `BigFileSystem` (name server, data server, client) | connection table and its counter; a directory tree whose root is never set | accept and greet, echo, close, console; type, send blocks, exit | TCP, one `select()` loop per server, client threads | holes in the table, a blocking `recv()`, clients that leave at any moment | every open connection is watched and its messages read; a client's exit does no harm |
| `Sniffer`, `HTTP Requests`, `Tee Command`, `Large DataWrite Comparison` | none beyond one buffer | read and print, one request, copy | the kernel | nothing concurrent | pure I/O, not modelled |

## Modules

| Module | Models |
|---|---|
| `StopNWait` | `client.c`, `server.c`, `utils.h` of the N-channel upload, with properties and mutants |
| `StopNWaitInv` | its inductive invariants, with ACKs in time (`DeliveryInv`) and late (`LateInv`) |
| `FileUpload` | what an upload promises, abstractly |
| `StopNWaitProofs` | theorems about `StopNWait`, the refinement of `FileUpload` among them |
| `ForkPerClient`, `ForkPerClientProofs` | the echo server, its clients and their semaphore; theorems |
| `LoadBalancer`, `LoadBalancerProofs` | the load balancer; theorems |
| `JobControl`, `JobControlProofs` | the shell's jobs, lines and waits; theorems |
| `ClusterShell`, `ClusterShellProofs` | the cluster's server with its threads and the two threads of every client, composed; theorems |
| `SelectiveRepeat`, `SelectiveRepeatProofs` | client, relay and server of the selective-repeat transfer, composed; theorems |
| `BigFileServer`, `BigFileServerProofs` | the name server and the data server, with their clients; theorems |
| `MulticastChat`, `MulticastChatProofs` | the clients of the multicast chat; theorems |
| `...MC` | constants for TLC, one module per system |

A definition named `...OneMore`, `...Stuck` and so on, with the comment
"Mutant", is a faulty variant of the definition after it. It is used by no
specification; each property is checked to fail when its mutant takes the
definition's place.

### StopNWait

One variable per variable of `connection_loop()` and of the server that a later
step reads, plus the program counters `pc` and `srv`, the FIFO of each
connection in both directions (`c2s`, `s2c`) and the output file (`out`,
including what stdio still buffers). A payload is the real slice of the file,
because what is lost or zeroed is what the properties are about:
`get_next_chunk` drops the last byte of a short read, `strncpy` stops at a NUL.
`SendChunk` is one turn of the send loop, `RecvAck` one `read()` of the receive
loop with the end of the round, `ServePacket`/`DropPacket` one call of
`serve_connection()`; `Select` picks the descriptors the loop then serves in
order. Once the client is gone a channel reads as an empty packet
(`ServeClosed`) or a reset (`ServeReset`).

Timeouts: with `LateAcks = FALSE` a `poll()` returns 0 only if nothing is on
its way on the channel, that is, if the round trip is shorter than
`TIMEOUT_SECS` (two seconds; the `timeout = 0` of `client.c:77` is then
harmless, since a channel was already given a full timeout). With
`LateAcks = TRUE` it may return 0 at any time. A connection delivers what was
queued before a close, so the client still reads the ACK of its FIN after the
server has exited.

Left out: packets split by TCP, the SIGINT handler, a second client,
`last_seq_no` (never read), the array `pollfds[0]` of no elements
(`client.c:59`; the model takes a `poll()` that works), errors of `socket()`
and `connect()`.

### ForkPerClient

`semid`/`semval` is the semaphore with the shared key: an id is the number of
the server start that created it, `NoSem` if there is none. `conn[c]` is the
connection of a client (`backlog`, `served`, `gone`), `pc[c]` the place in
`client.c`. `semctl(SETALL)` is given a number where it wants a pointer and
fails, so `Tokens` is what `semop()` adds. `CleanStarts = TRUE` restricts the
environment: a server is started only when Ctrl-C ended the one before;
otherwise a server may be started while another runs, or after one was killed
(`Crash`). `Kill` kills a client in its session. A client whose connection is
gone ends without its `semop(+1)` (`Lost`); the one that spins at end of input
is the same for the semaphore.

Left out: a failing `fork()`, which leaves the client unserved with its token.

### LoadBalancer

The queue is modelled pointer by pointer (`front`, `rear`, `prev`, `next` of
every node), because `shift_queue` updates the fields of one node only and
reads those of another at the next turn. Signals follow Linux: a pending bit
per child, SIGUSR1 blocked inside its handler, `SIG_IGN` dropping what is
pending when it is set, but not what arrives afterwards while the signal is
blocked. `FdLimit` is the number of `open()` calls a child may make before it
runs out of descriptors. `lead` is a history variable: signals sent to each
child, counted from the child that got fewest.

Left out: the bytes read (a line longer than `op`, or without a newline),
`fork()` failing, the uninitialised `sa_mask`; `pop()` is never called.

### JobControl

`jobSet` is the list of `shell.c` as a sequence, the shell's own entry first.
A child is a process of its own that stops, exits or is killed between any two
calls of the shell; `proc` is what the kernel would tell a wait about it. `pc`
is the blocking call or the stretch of `main()` the shell is in: a line is read
(`ReadLine`), the loop reaps job by job (`Reap`), and the line takes one of the
branches of `main()`, in their order: `exit`, builtins, `&`, `fg`, `bg`,
`daemonize`, refused, pipeline, redirection, a command. The three flags that
outlive a line (`isBackground`, `is_daemon`, `badRedirectpipe`) are kept with
exactly the resets of the code. SIGCHLD is delivered at once; `shellHandler`
restores `SIG_DFL` and, having no SA_RESTART, interrupts a blocked call unless
a child has something to report to it (the kernel looks for that first). An
interrupted `fgetc()` is EOF, so `lineget()` returns an empty line, which is
then executed as a command.

`fg` sends SIGTSTP to the job's group before SIGCONT; `getpgid()` of a pid that
is gone is -1, and the signal then goes to every process of the user. Both are
covered by children that may stop at any time. A redirection's command that
cannot be executed returns into a second copy of the read-eval loop; for the
shell that waits for it this is a child like any other.

`a ## b , c` forks a producer that reads all of `a`'s output and sends it as one
message (`MsgSend`; it may also fail before, or be killed), waits for *any* child
(`MsgWait`), receives (`Msgrcv`, which waits for ever if nothing was sent) and then
runs `b` and `c` like the stages of a pipeline. `a SS b , c` is the same through
shared memory, which is there whether the producer wrote it or not.

Left out: the terminal (`tcsetpgrp`, `setpgid`), the words of a line, a failing
`fork()`, the reuse of a listed pid, `fg` and `bg` after `daemonize`, the
descriptors of a pipeline, and the operator `#`: its child returns into a second
copy of the read-eval loop that reads the same terminal (`shell.c:789`).

### ClusterShell

The server's globals (`client_fds`, `client_list`, `SEND_TO_FD`,
`SEND_TO_FD_STAR`) and `Client_sock`, the variable of `main()` whose address every
thread is given, are variables of the model, and `thr[t]` is a thread with its
place in `recvmg()`. A step ends where another thread can see the difference:
testing `SEND_TO_FD`, sending to it and clearing it are three steps
(`ThreadReceives`, `Answer`, `Answered`), and a command is sent (`Route`) before
`SEND_TO_FD` is set (`Routed`). On the client's side `main[c]` and `rcv[c]` are the
two threads; `msg`, `argVector`, `stdout` and `badRedirectpipe` are what they
share. A child is given the vector and descriptor 1 as they are when it is forked.
A message is what its readers find in it: the server its addressee, the client a
command. `by` and `via` are history: whose question a text belongs to, and what
the server took it for.

`Calm = TRUE` is one operator at a time: a line is typed, a client joins or leaves
only when every message has been dealt with. Then the protocol works
(`AnswerToAsker`, `LocalOutputIsLocal`, `OwnThread`, `EveryClientServed`). With
`Calm = FALSE` none of the four holds, and what is left is `UnaskedGetsCommandsOnly`.

Left out: messages split or joined by TCP, stdio's buffer behind the `printf` of
`clustershell_client.c:711`, memory that one thread frees under the other, the
signal handlers, what commands do apart from printing, `executePipe` (never called).

### SelectiveRepeat

The client is the one of `StopNWait` over UDP, with the header's fields and the
offset a payload was read from instead of the bytes. `listenQ`, `ackQ`, `serverQ`
and `cliQ` are the sockets' queues. The relay is one process that serves what
`select()` reported in order (`ready`): first an ACK, which goes out through a
random relay socket to `cli_addr`, the client socket the last packet came from,
then the packets, each dropped or forwarded. It leaves its loop when it has
*forwarded* a FIN. The server never leaves its own: an inner `is_last` hides the
loop's.

`TimesOut`: a `poll()` may always time out when nothing is on its way, and
`MaxLate` times when something is. `utils.h` is missing in the directory; it is
taken to be that of `N-Channel-StopNWait`. No address is filled in, so all runs on
one machine, whose UDP neither loses nor reorders.

Left out: NUL bytes (see `StopNWait`), errors of `sendto()` and `recvfrom()`, the
SIGINT handlers; `addr_len` in `server.c:89` is read uninitialised and
`pollfds[0]` has no elements, and both are taken to work.

### BigFileServer

`kind` says which of the two programs the server is; they differ in the second
`recv()` after `accept()` and in `connectcnt--`. One turn of the loop is `Select`,
then `Console` if a line was typed, then either `Accept` with the greeting
(`GreetMessage`, `GreetSecond`, `GreetNothing`) or the walk over the table entry by
entry (`LoopSkips`, `LoopEchoes`, `LoopCloses`, `LoopFails`, `LoopReadsConsole`,
`LoopEnds`). `peer[c]` is how the client's side of the connection is: open, closed
in order, or reset, which is what a client leaves behind that closes over unread
answers. `cause` is what the server died of.

What the two servers do, seen in the model:

- A data server dies when a client that has copied a file exits, since nobody
  reads its echoes and the connection is reset. `PatientClientsHarmless` is
  therefore about the name server.
- `cp` as the first message of a connection dereferences the tree's root, which is
  NULL: `init_filetree()` is never called (`Dies("segv")`).
- A new client that says nothing blocks the server in `recv()`.
- `connectcnt--` of the data server leaves the last entry unwatched whenever an
  earlier one is freed, until the next client connects; hence `kind = "name"` in
  `AllWatched` and `MessagesRead`.
- A line at the console while the table has a hole makes the loop read descriptor
  0 once more and `send()` to it, which ends the server.

Left out: the directory tree, `ThreadEntry` (never started), which blocks a thread
of `send_files` picks and the `data` its siblings overwrite, `server_fds` of the
data server (never read; instances keep to its three entries), full socket buffers.

### MulticastChat

Per client: `main()` with its place, the table `subject_list`, the counters, a
record per thread, the sockets that are set and the queue of group 0.
`num_groups++` is a load and a store, in `main()` (`MainLoads`, `MainStores`) and in
thread 0 (`ThreadLoads`, `ThreadStores`). `data[p]` is the stack slot the new
thread reads its tid from: with gcc the block of `data` (line 336) shares it with
`temp` (399), which `main()` clears when it builds the header. Every datagram goes
to group 0, since `addr` is never changed after the start.

`Prompt = TRUE`: a client's threads get on with their work before its `main()`
needs them and before its user types again. A datagram may be lost on its way to
any client.

Left out: the texts, `SIGINT`, `SIGUSR1` (nobody sends it); `SIGALRM` is delivered
to `main()`, whose `getline()` is restarted.

## Runs

Passing runs:

| Run | Instance | Shows |
|---|---|---|
| `upload_prompt` | 3 channels, packets of 3 bytes, all lengths 0..11, no late ACKs, fairness | one packet in flight per channel; a round ends over a complete output; refinement of `FileUpload`; both programs exit |
| `upload_late` | 2 channels, packets of 3 bytes, lengths 0..11, at most 3 packets and ACKs per channel | no wrong or changed byte, no ACK of an unwritten packet, the EOF chunk is delivered |
| `clients_limit` | 3 clients, limit 1, 2 clean starts, nobody killed, fairness | the limit; waiting clients get in |
| `clients_tokens` | 3 clients, limit 1, 2 starts of any kind, every client may be killed | tokens add up; no session on a removed semaphore |
| `shell_jobs` | 2 pids at a time (reused when free), pipelines, `##` and `SS` with up to 2 commands, fairness | the shell's entry stays at the head; background entries are children once reaped; foreground waits find their child; jobs leave the list only reaped or to `fg`, and do when they finish |
| `balancer_works` | 3 children, one `open()` each, fairness | no NULL pointer, shape of the queue, signals balanced; every free child gets work |
| `cluster_calm` | 2 clients, 3 node names, 2 lines of any kind, one at a time, fairness | answers to the asker, local output stays local, a thread serves the client it was created for, every message is received |
| `cluster_race` | 2 clients, 2 node names, 2 lines, all interleavings | who did not ask gets commands only |
| `relay_loss` | 2 channels, packets of 3 bytes, lengths 0, 3, 5, 7, 8, 11, 2 late timeouts, fairness | no wrong byte, no ACK of an unwritten packet, the EOF chunk is delivered, the FIN is reached |
| `bigfile_table` | either server, 2 patient clients, 2 messages each, 2 console lines, fairness | the table is consistent; the name server watches and reads every connection and survives its clients' exits |
| `chat_prompt` | 2 clients, 2 subjects (one begins the other's name), tables of 5, 4 lines in all, fairness | subscriptions keep their entries, tables suffice, nobody dies in `!sendto`, headers are listed |

Why the bounds are enough: lengths 0..11 with packets of 3 on 3 channels meet
EOF in an empty and in a short chunk on every channel, in the first and in the
second round; three messages per channel hold a late packet, its repetition and
an ACK, which is what a stale ACK needs; three clients around a limit of one
give one that holds, one that waits and one that leaves; two starts give
every order of Ctrl-C, kill and restart. The queue's behaviour is deterministic
and TLC goes through its whole period (nine signals for three children, after a
start of five); one `open()` gives both outcomes of the next. Two pids give a
background job beside the command of a pipeline that waits for any child, and
two jobs that the loop removes in one pass; a pid is free again when it is
reaped and off the list, so histories of any length are covered. Two clients and two lines of
the cluster give a question while another is open, and a client that joins or
leaves in between; three node names give a name without a client. Lengths 0 to 11
on two relays give every end of file and a second round. Two connections give a
hole before a connection in use; three with one message each pass as well. Four
lines of chat let both clients subscribe to both subjects; tables of 5 are tight,
4 are overrun: `num_groups` starts at 1 and a subject may take two entries. Deadlock is not
checked for `ForkPerClient`, which stops when all clients have left and no start
is left, nor for `JobControl`, where `exit` ends the shell and a stopped command
may block it, nor for the four systems below it in the table, which stop when
their users have typed their lines.

One run ends in a violation, a disagreement between the code and its README
(quoted in `PROJECT.json`): `upload_stale_ack`. With late ACKs the second ACK of a
retransmitted packet passes for the next round's, and a packet that is dropped
then is never repeated.

What the models also contain, without a run of its own. The properties named are
defined in the modules and violated under the constants given; to see the
counterexample, put them into the cfg named:

- `WholeFileCopied` (`StopNWaitPrompt.cfg`): `get_next_chunk` drops the last byte
  of a file that does not fill its last packet.
- `AtMostMaxClients` with `CleanStarts = FALSE` (`ForkPerClientLimit.cfg`): a second
  start of the server adds `MAX_CLIENTS` tokens before its `bind()` fails.
- `WaitersGetIn` with a client in `Killed` (`ForkPerClientLimit.cfg`): its token is
  lost, as `semop()` is not asked for `SEM_UNDO`, and a waiter waits for ever.
- `RoundRobin` (`LoadBalancerWorks.cfg`): the order of the signals is 1, 1, 2, 1, 3.
- `WorkIsFinished` (`LoadBalancerWorks.cfg`): descriptors run out, `read(-1)` returns
  -1 and the child is killed in its handler.
- `ClientEnds` (`SelectiveRepeatLoss.cfg`): the relay closes its sockets when it has
  forwarded the FIN, and the client retransmits the FIN for ever.
- `RoundDelivered` (`SelectiveRepeatLoss.cfg`): as in the upload, an ACK of another
  packet is taken for this channel's, and a dropped packet is not repeated.
- `OwnThread` with `Calm = FALSE` (`ClusterShellRace.cfg`): two threads read the same
  `Client_sock`, and one client is never served.
- `OwnGroup`, `SubscriptionsKept` and `NoneDies` with `Prompt = FALSE`
  (`MulticastChatPrompt.cfg`): a slow thread reads tid 0 from the reused stack slot,
  replaces the socket of group 0, and the socket of its own number stays unset.
- `SubscribeWorks` (`MulticastChatPrompt.cfg`): a subject heard of from another
  client is known, so `!subscribe` does nothing.
- `strncpy` (`client.c:38` of the upload) turns the bytes after a NUL into
  zeroes; the properties about contents are therefore checked, and proved, for
  files without NUL (`TextInputs`).
- With one child, which `load_balancer.c:78` admits, `shift_queue` follows NULL
  after the first signal; hence the assumption of `TwoChildrenNeverCrash`.
- A SIGUSR1 sent while the handler runs stays pending, and runs the handler
  again when it returns; the load balancer's README says it is ignored.
- A child signalled before it has called `signal()` is killed (`kill` with
  state `starting`); `EveryChildWorks` is about the children that live.
- A command that exits with another code than 0 is listed as suspended
  (`WSTOPSIG` of an exit status is the exit code), and neither `fg`, `bg` nor
  the reaping loop ever removes that entry.
- The end of a background job interrupts the wait for a foreground command or
  of `fg`: the prompt comes back while the command runs, and a job brought back
  by `fg` is then on no list. The same holds for one that stops again.
- `badRedirectpipe` is never reset: after one line with two `<` and pipes the
  shell refuses every further command. `a | b &` leaves `isBackground` set for
  the next command, `daemonize a &` leaves `is_daemon` set.

## Fairness

`StopNWait`: both processes keep running (weak fairness of each), and the
server does not drop a channel's packets for ever (strong fairness of
`ServePacket`: drops are independent with a probability below 1).
`ForkPerClient`: processes run; the kernel serves the waiters of a semaphore in
turn (strong fairness of a client's steps); every user types `exit` some day.
`LoadBalancer`: the scheduler runs every process (weak fairness).
`ClusterShell`: every thread of the server and of the clients runs; nothing is
assumed of the operators. `SelectiveRepeat`: the three processes run, the relay
does not drop a channel's packets for ever (strong fairness of `RelayForward`), and
packets are later than the timeout only finitely often (`MaxLate`).
`BigFileServer`: server and receiving threads run, and whoever is connected types
a line or exits some day; without the latter the blocking `recv()` never ends.
`MulticastChat`: every thread runs; nothing is assumed of the users.
`JobControl`: the shell runs when it is not blocked and the user goes on typing
(weak fairness); nothing is assumed of the children, so `FinishedLeaves` is
stated under the condition that the prompt keeps coming back.

## Proofs

All theorems hold for every value of the constants, under the named
assumptions of the modules: sets of clients and subjects are finite, the marks
`"free"`, `"none"`, `"empty"` and `"text"` are no clients or subjects, counts
and bounds are natural numbers. Hypotheses beyond these are in the theorem:
`TextInputs` (no NUL in a file), `~LateAcks`, `CleanStarts`, `Calm`, `Prompt`,
`MaxLines < MAX_SUBJECTS`, at least two children. Each is met by the run that
checks the property. Every safety property of the passing runs is stated by a
theorem; each strengthened invariant was checked with TLC on the run's instance
before it was proved.

- **StopNWaitProofs.** `TypeCorrect` needs `ProgressInv` (counters in step with
  the file). `CopyIsFaithful` and `RewritesAreIdempotent` assume files without
  NUL and rest on `SliceInv`: every packet, kept for retransmission or on its
  way, is a slice of the file at its sequence number; so writing it late or
  twice changes nothing. `StopAndWait`, `RoundsAreDelivered` and
  `UploadIsImplemented` also assume timely ACKs and rest on `DeliveryInv`: a
  channel that owes an ACK carries at most the packet of this round or its ACK
  (`FlightInv`), and every byte sent is written or in a packet still owed
  (`OwedInv`). `RoundDelivered` is not inductive without the latter: a round
  ends channel by channel.
  `AcksAreTrue` and `LastChunkDelivered` hold with ACKs as late as they like and
  rest on `LateInv`. A channel may now carry packets and ACKs of several rounds;
  what they keep in common is that a packet lies within what has been sent
  (`Timely`), that the one numbered `eof_seq_no` is the last of it, and that an
  ACK was sent over written bytes (`TrueAck`). While chunks are still read every
  packet has a payload, so no number that was used before is ever that of the
  chunk which meets EOF next: a stale ACK may end a round too early, but never
  set `is_eof`.
- **SelectiveRepeatProofs.** `TransferInv` says that the four kinds of queue hold
  only packets the client may have sent (`Sendable`) and ACKs of written ones
  (`Acked`), that what is kept for retransmission is the like (`KeptInv`), and,
  once `is_eof` is set, that the chunk with `eof_seq_no` is written. It does not
  matter through which socket an ACK comes. `TypeCorrect` needs `ReadyInv` and
  `OpenInv`: what `select()` reported stays readable until it is served, and the
  relay closes its sockets only behind the last it serves.
- **ForkPerClientProofs.** `TokensNeverMultiply` is by counting: each action
  moves a token, adds `MAX_CLIENTS` with a start, or loses one. It needs
  `TokenInv`: ids never exceed the number of starts, so a new semaphore has no
  holders. `ServedByToken` is a part of `TokenInv`, and `LimitKept` follows
  from both with `CleanStarts`: then the semaphore was created by the last
  start, and whoever is served holds one of its tokens.
- **LoadBalancerProofs.** `QueueInv`, inductive with the types, says that the queue is as `push` built it
  or that all `prev` links are set (`Ring`): the first shift closes the ring
  at the last node, later shifts only redirect links. `TwoChildrenNeverCrash`
  follows, as node 1 has a predecessor when there are two nodes.
  `SignalsAreShared` needs the whole order of the signals, `TurnInv`. A period
  of `n * n` signals has a turn for every child i: it begins with node n at the
  head (`Begins`), child i is signalled twice, and then in turn (`Returns`,
  `Visits`) with each of the children behind it. The invariant gives `front`,
  `rear`, `prev` and `lead` of every node in each of the three kinds of state;
  one link of the ring may be wrong, and is mended by the next shift, in the
  first period only. In turn i nobody is ahead by more than `n - i + 1`.
- **JobControlProofs.** `ForegroundWaitFindsChild` rests on `WaitInv`: the pid
  waited for is a child's and its process exists. Only the shell reaps, each of
  its other waits ends before a foreground wait begins, and `fg` begins one only
  after a `kill()` found the process. `ListKeepsItsHead` and
  `BackgroundJobsExist` add `ListInv`: a child about to be inserted is not listed
  yet, and what the reaping loop has passed is a child's (`ReapedTo`).
  `NoJobIsLost` is an action property from the same invariant. What `removeJob`
  leaves is proved for lists of every length: its loop is the recursive function
  of `Unlinked`, and `LeftOf` says what is kept of the first i entries.
- **ClusterShellProofs.** `OnlyAskersAnswered` traces where a value of
  `SEND_TO_FD` comes from: a question is in nobody's buffer, connection or thread
  but its asker's (`AskInv`), although threads may share a socket and overwrite
  each other's globals; no interleaving is excluded. `AskersOwnAnswer` and
  `TerminalOutput` assume `Calm` and rest on `CalmInv`: at any time there is one
  client whose last line everything on its way belongs to, and that line is still
  to be looked at by the server (`Line`) or a question under way (`Question`).
  `EachItsOwnThread` assumes `Calm` too; its `OwnInv` says that the i-th thread has
  the i-th accepted socket and that only the newest may not have read it yet.
- **BigFileServerProofs.** `TableCorrect` is by cardinality: `connectcnt` is the
  number of connections ever accepted (name server) or open (data server), so the
  loop for a free entry always finds one; the entry it finds is the least.
  `NobodyIsMissed` adds that the name server fills no entry from `connectcnt` on.
  `PatientExit` rests on a count: answers and messages under way of a client are
  no more than the messages it sent, so one that has read as many answers leaves
  nothing to be reset over.
- **MulticastChatProofs.** All theorems assume prompt threads and fewer lines
  than entries. `num_groups` is loaded and stored by `main()` and by thread 0
  without the lock, so increments get lost; `Ahead` says that none is lost that
  `num_threads` counts, whichever store comes last. `Bounded` counts what the lines
  typed so far may still add (`Pending`): each line makes the counter of each
  client grow by one at most. Its bound of `MaxLines < MAX_SUBJECTS` is tight: the
  counter starts at 1.

The installed provers cannot use the library's induction theorems, which take a
predicate as an operator. Where induction is needed (the loop of `removeJob`, the
least free table entry) it is over a *set* of numbers, from the fact that a
well-founded relation has minimal elements (`WFMin`).

Only model-checked: the liveness properties `UploadEnds`, `WaitersGetIn`,
`EveryChildWorks`, `FinishedLeaves`, `EveryClientServed`, `FinIsSent`,
`MessagesRead` and `HeadersHeard`. Liveness under fairness is out of the prover's
reach.

## Not modelled

- `Voting System`: the parent forks a child, waits for its message and only then
  forks the next, so nothing interleaves; the vote array has room for one `int`
  (`vote.c:72`) and is written past its end in every vote of two or more.
- `MyShell/engine.c`: sequential string processing over a trie; the Makefile does
  not build it.
- `ClusterShell/common.c`: an unbuilt copy of `MyShell/shell.c`. `ClusterShell/chat`:
  an earlier version of the two programs that are modelled.
- `linked_list.c` of both transfers: no function of it is called.
- `Sniffer`, `HTTP Requests`, `Tee Command`, `Large DataWrite Comparison`: pure I/O.

## Plan

The models are complete for what the programs do concurrently, and the safety
properties of all runs are proved. What is left:

1. Safety counterparts of the liveness properties, where one is worth stating: that
   nobody waits for an event no step can cause any more, for `ForkPerClient` (a
   waiter and a lost token) and `SelectiveRepeat` (the FIN of a closed relay).
2. Simpler proofs: the facts about queues that several proof modules state.
