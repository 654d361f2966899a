--------------------------- MODULE SelectiveRepeat ---------------------------
(***************************************************************************)
(* FileTransfer-Selective-Repeat: client.c, relays.c and server.c over UDP *)
(* sockets of one machine (no address is ever filled in), which neither    *)
(* lose nor reorder; packets are dropped by the relay alone.  Both relays  *)
(* are one process that serves its sockets in one loop.                    *)
(*                                                                         *)
(* The byte at offset k of the input is the number k.  A packet is its     *)
(* header and the offset its payload was read from.  utils.h is missing in *)
(* the directory; it is taken to be that of N-Channel-StopNWait.  The      *)
(* addr_len of server.c:89, which is not initialised, and the pollfds[0]   *)
(* of no elements are taken to work.                                       *)
(***************************************************************************)
EXTENDS Integers, Sequences, FiniteSets

CONSTANTS
    NUM_CHANNELS,
    PACKET_SIZE,
    Lengths,        \* the lengths of the input files
    MaxLate         \* how often a process is so late that a poll times out

ASSUME ChannelsAssumption == NUM_CHANNELS \in Nat \ {0}

ASSUME SizeAssumption == PACKET_SIZE \in Nat \ {0}

ASSUME LengthsAssumption == Lengths \subseteq Nat

ASSUME LateAssumption == MaxLate \in Nat

VARIABLES
    late,          \* how often a poll may still time out over a late packet
    length,        \* of the input file
    \* client.c
    pc, pos, ch, seq_no, eof_seq_no, is_eof, last_packet, tmp,
    relay_addr,    \* the relay each socket sends to
    \* the sockets
    listenQ,       \* what each relay socket has to read
    serverQ,       \* what the server has to read
    ackQ,          \* what the relay's serverfd has to read
    cliQ,          \* what each socket of the client has to read
    \* relays.c
    relay,         \* "open" or "closed"
    ready,         \* what select reported and the loop has yet to serve
    cli_addr,      \* the client socket the last packet came from
    is_last,       \* the flag that ends the relay
    \* server.c
    out            \* the output file

client == <<pc, pos, ch, seq_no, eof_seq_no, is_eof, last_packet, tmp, relay_addr>>
relays == <<relay, ready, cli_addr, is_last>>
vars == <<late, length, client, listenQ, serverQ, ackQ, cliQ, relays, out>>

Channels == 0 .. NUM_CHANNELS - 1
ServerFd == -1                     \* in ready: the socket the ACKs come to
NoSeq == -1
Unwritten == -1

Header(seq, size, off, last) == [seq_no |-> seq, size |-> size, off |-> off, is_last |-> last]

-----------------------------------------------------------------------------

Init ==
    /\ late = MaxLate
    /\ length \in Lengths
    /\ pc = "send" /\ pos = 0 /\ ch = 0
    /\ seq_no = 0 /\ eof_seq_no = NoSeq /\ is_eof = FALSE /\ last_packet = -1
    /\ tmp = [i \in Channels |-> Header(0, 0, 0, FALSE)]
    /\ relay_addr = [i \in Channels |-> i]
    /\ listenQ = [i \in Channels |-> <<>>]
    /\ serverQ = <<>>
    /\ ackQ = <<>>
    /\ cliQ = [i \in Channels |-> <<>>]
    /\ relay = "open" /\ ready = {} /\ cli_addr = 0 /\ is_last = FALSE
    /\ out = [k \in 0 .. length - 1 |-> Unwritten]

-----------------------------------------------------------------------------
(* client.c *)

(* get_next_chunk: a short read is the end of the file and loses a byte. *)
BytesRead == IF length - pos < PACKET_SIZE THEN length - pos ELSE PACKET_SIZE
ChunkIsEof == BytesRead < PACKET_SIZE
ChunkSize == IF ChunkIsEof /\ BytesRead > 0 THEN BytesRead - 1 ELSE BytesRead

(* sendto on socket i, to the relay its last ACK came from; a closed port    *)
(* takes nothing.                                                            *)
sendto(i, pkt) ==
    listenQ' = IF relay = "open"
                 THEN [listenQ EXCEPT ![relay_addr[i]] = Append(@, [from |-> i, pkt |-> pkt])]
                 ELSE listenQ

(* The send loop, channel by channel; an empty chunk is the last one. *)
SendChunk ==
    /\ pc = "send"
    /\ LET pkt == Header(seq_no, ChunkSize, pos, FALSE)
           stop == ChunkSize = 0 \/ ch = NUM_CHANNELS - 1
       IN /\ tmp' = [tmp EXCEPT ![ch] = pkt]
          /\ sendto(ch, pkt)
          /\ ch' = IF stop THEN 0 ELSE ch + 1
          /\ pc' = IF stop THEN "recv" ELSE "send"
    /\ pos' = pos + BytesRead
    /\ seq_no' = seq_no + ChunkSize
    /\ eof_seq_no' = IF ChunkIsEof THEN seq_no ELSE eof_seq_no
    /\ last_packet' = IF ChunkSize = 0 THEN ch ELSE last_packet
    /\ UNCHANGED <<late, length, is_eof, relay_addr, serverQ, ackQ, cliQ, relays, out>>

(* Mutant: the loop runs to i <= NUM_CHANNELS. *)
LastOneMore == IF last_packet = -1 THEN NUM_CHANNELS ELSE last_packet

(* The receive loop visits channels 0 .. Last. *)
Last == IF last_packet = -1 THEN NUM_CHANNELS - 1 ELSE last_packet

UnderWay == serverQ # <<>> \/ ackQ # <<>> \/ \E r \in Channels : listenQ[r] # <<>>

(* poll finds nothing to read in time: nothing is under way, or it is late. *)
TimesOut(i) ==
    /\ cliQ[i] = <<>>
    /\ IF UnderWay THEN late > 0 /\ late' = late - 1
                   ELSE UNCHANGED late

(* Mutant: the first channel's packet is repeated on every channel. *)
RetransmitFirst ==
    /\ pc = "recv"
    /\ TimesOut(ch)
    /\ sendto(ch, tmp[0])
    /\ UNCHANGED <<length, client, serverQ, ackQ, cliQ, relays, out>>

Retransmit ==
    /\ pc = "recv"
    /\ TimesOut(ch)
    /\ sendto(ch, tmp[ch])
    /\ UNCHANGED <<length, client, serverQ, ackQ, cliQ, relays, out>>

(* Mutant: any ACK ends the file once its end has been read. *)
AcksEofAny(ack) == eof_seq_no # NoSeq

(* The packet is the ACK of the chunk that met the end of the file. *)
AcksEof(ack) == ack.seq_no = eof_seq_no

(* One packet per channel and round is read, whatever it acknowledges; its   *)
(* source is where this channel sends from now on.  The round after the last *)
(* channel: on to the FIN, to the next chunks, or to wait once more.         *)
RecvAck ==
    /\ pc = "recv"
    /\ cliQ[ch] # <<>>
    /\ LET ack == Head(cliQ[ch]).pkt
           eof == is_eof \/ AcksEof(ack)
       IN /\ is_eof' = eof
          /\ ch' = IF ch = Last THEN 0 ELSE ch + 1
          /\ pc' = IF ch < Last THEN "recv"
                   ELSE IF eof THEN "fin"
                   ELSE IF eof_seq_no = NoSeq THEN "send" ELSE "recv"
    /\ relay_addr' = [relay_addr EXCEPT ![ch] = Head(cliQ[ch]).via]
    /\ cliQ' = [cliQ EXCEPT ![ch] = Tail(@)]
    /\ UNCHANGED <<late, length, pos, seq_no, eof_seq_no, last_packet, tmp, listenQ, serverQ,
                   ackQ, relays, out>>

Fin == Header(seq_no, 0, 0, TRUE)

SendFin ==
    /\ pc = "fin"
    /\ sendto(0, Fin)
    /\ pc' = "fin_wait"
    /\ UNCHANGED <<late, length, pos, ch, seq_no, eof_seq_no, is_eof, last_packet, tmp, relay_addr,
                   serverQ, ackQ, cliQ, relays, out>>

RetransmitFin ==
    /\ pc = "fin_wait"
    /\ TimesOut(0)
    /\ sendto(0, Fin)
    /\ UNCHANGED <<length, client, serverQ, ackQ, cliQ, relays, out>>

(* Any packet on channel 0 ends the client. *)
RecvFinAck ==
    /\ pc = "fin_wait"
    /\ cliQ[0] # <<>>
    /\ pc' = "ended"
    /\ cliQ' = [i \in Channels |-> <<>>]
    /\ UNCHANGED <<late, length, pos, ch, seq_no, eof_seq_no, is_eof, last_packet, tmp, relay_addr,
                   listenQ, serverQ, ackQ, relays, out>>

-----------------------------------------------------------------------------
(* relays.c *)

(* select: every socket that has something to read. *)
Select ==
    /\ relay = "open"
    /\ ready = {}
    /\ ready' = {i \in Channels : listenQ[i] # <<>>} \cup (IF ackQ # <<>> THEN {ServerFd} ELSE {})
    /\ ready' # {}
    /\ UNCHANGED <<late, length, client, listenQ, serverQ, ackQ, cliQ, relay, cli_addr, is_last, out>>

(* The loop serves the sockets in order; behind the last it tests is_last    *)
(* and closes the sockets, with what they hold.                              *)
Serves(fd) == fd \in ready /\ \A other \in ready : fd <= other

Served(fd, last) ==
    /\ ready' = ready \ {fd}
    /\ is_last' = last
    /\ relay' = IF last /\ ready = {fd} THEN "closed" ELSE relay

(* An ACK leaves through a random relay socket, to whichever socket of the   *)
(* client sent last.                                                         *)
RelayAck(relay_no) ==
    /\ Serves(ServerFd)
    /\ LET ack == Head(ackQ)
       IN /\ Served(ServerFd, ack.is_last)
          /\ cliQ' = IF pc = "ended" THEN cliQ
                     ELSE [cliQ EXCEPT ![cli_addr] = Append(@, [via |-> relay_no, pkt |-> ack])]
    /\ ackQ' = IF relay' = "open" THEN Tail(ackQ) ELSE <<>>
    /\ listenQ' = IF relay' = "open" THEN listenQ ELSE [i \in Channels |-> <<>>]
    /\ UNCHANGED <<late, length, client, serverQ, cli_addr, out>>

(* A packet is taken from socket i; its sender is remembered in any case. *)
Takes(i, last) ==
    /\ Serves(i)
    /\ Served(i, last)
    /\ cli_addr' = Head(listenQ[i]).from
    /\ listenQ' = IF relay' = "open" THEN [listenQ EXCEPT ![i] = Tail(@)]
                                     ELSE [r \in Channels |-> <<>>]
    /\ ackQ' = IF relay' = "open" THEN ackQ ELSE <<>>
    /\ UNCHANGED <<late, length, client, cliQ, out>>

(* Mutant: a dropped packet is acknowledged nevertheless. *)
RelayDropAcked(i) ==
    /\ i \in ready
    /\ Serves(i)
    /\ ready' = ready \ {i}
    /\ cli_addr' = Head(listenQ[i]).from
    /\ listenQ' = [listenQ EXCEPT ![i] = Tail(@)]
    /\ ackQ' = Append(ackQ, Head(listenQ[i]).pkt)
    /\ UNCHANGED <<late, length, client, relay, is_last, cliQ, out, serverQ>>

RelayDrop(i) ==
    /\ i \in ready
    /\ Takes(i, is_last)
    /\ UNCHANGED serverQ

RelayForward(i) ==
    /\ i \in ready
    /\ Takes(i, Head(listenQ[i]).pkt.is_last)
    /\ serverQ' = Append(serverQ, Head(listenQ[i]).pkt)

-----------------------------------------------------------------------------
(* server.c *)

(* Mutant: the payload is written where the last one ended. *)
fwriteUnseeked(pkt) ==
    LET end == Cardinality({k \in DOMAIN out : out[k] # Unwritten})
    IN [k \in DOMAIN out |->
          IF k \in end .. end + pkt.size - 1 THEN pkt.off + (k - end) ELSE out[k]]

(* fseek to the sequence number and write. *)
fwrite(pkt) ==
    [k \in DOMAIN out |->
        IF k \in pkt.seq_no .. pkt.seq_no + pkt.size - 1 THEN pkt.off + (k - pkt.seq_no)
                                                         ELSE out[k]]

(* Data is written, the FIN is not, and either is acknowledged; the is_last  *)
(* set here hides the one that would end the loop.                           *)
ServerReceives ==
    /\ serverQ # <<>>
    /\ out' = IF Head(serverQ).is_last THEN out ELSE fwrite(Head(serverQ))
    /\ ackQ' = IF relay = "open" THEN Append(ackQ, Head(serverQ)) ELSE ackQ
    /\ serverQ' = Tail(serverQ)
    /\ UNCHANGED <<late, length, client, listenQ, cliQ, relays>>

-----------------------------------------------------------------------------

ClientNext == SendChunk \/ Retransmit \/ RecvAck \/ SendFin \/ RetransmitFin \/ RecvFinAck

RelayNext ==
    \/ Select
    \/ \E i \in Channels : RelayAck(i) \/ RelayDrop(i) \/ RelayForward(i)

Next == ClientNext \/ RelayNext \/ ServerReceives

Spec == Init /\ [][Next]_vars

(* The three processes run, and the relay does not drop every packet. *)
FairSpec ==
    /\ Spec
    /\ WF_vars(ClientNext)
    /\ WF_vars(RelayNext)
    /\ WF_vars(ServerReceives)
    /\ \A i \in Channels : SF_vars(RelayForward(i))

-----------------------------------------------------------------------------

Packet == [seq_no : Nat, size : 0 .. PACKET_SIZE, off : Nat, is_last : BOOLEAN]

TypeOK ==
    /\ late \in 0 .. MaxLate
    /\ length \in Lengths
    /\ pc \in {"send", "recv", "fin", "fin_wait", "ended"}
    /\ pos \in 0 .. length
    /\ ch \in Channels
    /\ seq_no \in 0 .. length
    /\ eof_seq_no \in 0 .. length \cup {NoSeq}
    /\ is_eof \in BOOLEAN
    /\ last_packet \in Channels \cup {-1}
    /\ tmp \in [Channels -> Packet]
    /\ relay_addr \in [Channels -> Channels]
    /\ listenQ \in [Channels -> Seq([from : Channels, pkt : Packet])]
    /\ serverQ \in Seq(Packet)
    /\ ackQ \in Seq(Packet)
    /\ cliQ \in [Channels -> Seq([via : Channels, pkt : Packet])]
    /\ relay \in {"open", "closed"}
    /\ ready \subseteq Channels \cup {ServerFd}
    /\ cli_addr \in Channels
    /\ is_last \in BOOLEAN
    /\ out \in [0 .. length - 1 -> Nat \cup {Unwritten}]

(* Every byte of the output is the input's at that place, whichever relays   *)
(* a packet and its repetitions went through (fseek and fwrite of the        *)
(* server, lines 100 to 103).                                                *)
NoCorruption == \A k \in DOMAIN out : out[k] \in {Unwritten, k}

Written(pkt) == \A k \in pkt.seq_no .. pkt.seq_no + pkt.size - 1 : out[k] # Unwritten

(* An ACK, on whichever socket and through whichever relay it comes, stands  *)
(* for a packet the server has written.                                      *)
AckMeansWritten ==
    /\ \A j \in DOMAIN ackQ : Written(ackQ[j])
    /\ \A i \in Channels : \A j \in DOMAIN cliQ[i] : Written(cliQ[i][j].pkt)

(* The client sends its FIN only when the chunk that met the end of the file *)
(* is in the output, though it takes any packet on a channel for that        *)
(* channel's ACK (client.c, line 92).                                        *)
EofDelivered ==
    pc \in {"fin", "fin_wait", "ended"} =>
        \A i \in Channels : tmp[i].seq_no = eof_seq_no => Written(tmp[i])

(* If packets and ACKs are late only so often the client gets to its FIN,    *)
(* though ACKs go to the socket that sent last and not to the one that       *)
(* waits, which then has to repeat its packet.                               *)
FinIsSent == <>(pc \in {"fin_wait", "ended"})

(* What client.c says of the ACK of the FIN: it comes, and ends the client.  *)
ClientEnds == <>(pc = "ended")

(* What a round is for: no chunk of an earlier round is missing.             *)
RoundDelivered ==
    pc = "send" => \A k \in 0 .. seq_no - 1 : k < tmp[0].seq_no => out[k] # Unwritten

=============================================================================
