------------------------------ MODULE StopNWait ------------------------------
(***************************************************************************)
(* The N-channel stop-and-wait upload of src/N-Channel-StopNWait: client.c *)
(* cuts input.txt into packets, sends one packet per TCP connection and    *)
(* waits for the ACKs of the round before it reads on; server.c, a single  *)
(* select() loop, drops packets at random (PDR), writes the others at the  *)
(* offset their sequence number gives and acknowledges them.               *)
(*                                                                         *)
(* A TCP connection is a FIFO of packets in each direction.  A packet is   *)
(* one write() of sizeof(Packet) bytes; it is read as a whole.             *)
(***************************************************************************)
EXTENDS Integers, Sequences

CONSTANTS
    NUM_CHANNELS,   \* utils.h: number of TCP connections
    PACKET_SIZE,    \* utils.h: payload bytes per packet
    Inputs,         \* the contents input.txt may have, sequences of bytes
    LateAcks,       \* TRUE: a poll() may time out while the packet or its
                    \* ACK is still on its way; FALSE: TIMEOUT_SECS exceeds
                    \* the round trip, and only a dropped packet times out
    MaxInFlight     \* bound on the packets and ACKs of one channel that a
                    \* retransmission may add to (only met with LateAcks)

Channels == 0 .. NUM_CHANNELS - 1
Byte     == 0 .. 255
NoSeq    == -1              \* eof_seq_no = (uint64_t) -1: EOF not seen
Unwritten == -1             \* a byte of output.txt nobody has written

ASSUME ConstantsAssumption ==
    /\ NUM_CHANNELS \in Nat \ {0}
    /\ PACKET_SIZE \in Nat \ {0}
    /\ Inputs \subseteq Seq(Byte)
    /\ LateAcks \in BOOLEAN
    /\ MaxInFlight \in Nat

VARIABLES
    file,           \* contents of input.txt
    pos,            \* read position of the client in input.txt
    pc,             \* where the client is: "connect", "send", "recv",
                    \* "fin", "finack" or "done"
    ch,             \* the client's loop index i
    seq_no, eof_seq_no, is_eof, payload_size, last_packet, tmp,
    connected,      \* connections the client has opened
    accepted,       \* connections the server has accepted
    c2s, s2c,       \* packets, ACKs on their way on each channel
    out,            \* contents of output.txt, what stdio still buffers included
    srv,            \* the server: "accept", "run", "done" or "failed"
    ready,          \* channels select() reported, still to be served
    is_last         \* server.c: the FIN packet has been served

client == <<pos, pc, ch, seq_no, eof_seq_no, is_eof, payload_size,
            last_packet, tmp, connected>>
server == <<accepted, out, srv, ready, is_last>>
vars   == <<file, client, c2s, s2c, server>>

(* A data packet carries as many bytes as its header says; the FIN none.   *)
Packet == {p \in [seq_no : Nat, size : Nat, is_last : BOOLEAN, data : Seq(Byte)] :
              ~p.is_last => Len(p.data) = p.size}
Ack    == [seq_no : Nat]
------------------------------------------------------------------------------
(* get_next_chunk: fread() up to PACKET_SIZE bytes; on a short read the    *)
(* last byte read is thrown away.                                          *)
BytesRead == IF Len(file) - pos < PACKET_SIZE THEN Len(file) - pos
                                              ELSE PACKET_SIZE
(* Mutant: EOF is also seen on a chunk that was read in full.              *)
ChunkIsEofAlways == BytesRead <= PACKET_SIZE
ChunkIsEof == BytesRead < PACKET_SIZE
ChunkSize  == IF ChunkIsEof /\ BytesRead > 0 THEN BytesRead - 1 ELSE BytesRead

(* strncpy(send_packet.data, buffer, PACKET_SIZE): the bytes at offset s,  *)
(* zeroes from the first NUL on.                                           *)
strncpy(s, n) ==
    [j \in 1..n |-> IF \E m \in 1..j : file[s + m] = 0 THEN 0 ELSE file[s + j]]

(* The receive loop visits channels 0..Last.                               *)
Last == IF last_packet = -1 THEN NUM_CHANNELS - 1 ELSE last_packet

------------------------------------------------------------------------------
Init ==
    /\ file \in Inputs
    /\ pos = 0 /\ pc = "connect" /\ ch = 0
    /\ seq_no = 0 /\ eof_seq_no = NoSeq /\ is_eof = FALSE
    /\ payload_size = 0 /\ last_packet = -1
    /\ tmp = [i \in Channels |-> [seq_no |-> 0, size |-> 0, is_last |-> FALSE,
                                  data |-> <<>>]]
    /\ connected = 0 /\ accepted = 0
    /\ c2s = [i \in Channels |-> <<>>]
    /\ s2c = [i \in Channels |-> <<>>]
    /\ out = [k \in 0 .. Len(file) - 1 |-> Unwritten]
    /\ srv = "accept" /\ ready = {} /\ is_last = FALSE

(* Mutant: the loop over the channels runs to i <= NUM_CHANNELS.           *)
ConnectOneMore ==
    /\ pc = "connect"
    /\ connected' = connected + 1
    /\ pc' = IF connected = NUM_CHANNELS THEN "send" ELSE pc
    /\ UNCHANGED <<file, pos, ch, seq_no, eof_seq_no, is_eof, payload_size,
                   last_packet, tmp, c2s, s2c, server>>

(* client.c main: the connections are opened one after the other.          *)
Connect ==
    /\ pc = "connect"
    /\ connected' = connected + 1
    /\ pc' = IF connected + 1 = NUM_CHANNELS THEN "send" ELSE pc
    /\ UNCHANGED <<file, pos, ch, seq_no, eof_seq_no, is_eof, payload_size,
                   last_packet, tmp, c2s, s2c, server>>

(* One turn of the send loop: read a chunk, keep it in tmp[i], write it.   *)
(* An empty chunk ends the loop and is the last packet of the file.        *)
SendChunk ==
    /\ pc = "send"
    /\ LET pkt == [seq_no |-> seq_no, size |-> ChunkSize, is_last |-> FALSE,
                   data |-> strncpy(pos, ChunkSize)]
           stop == ChunkSize = 0 \/ ch = NUM_CHANNELS - 1
       IN  /\ tmp' = [tmp EXCEPT ![ch] = pkt]
           /\ c2s' = [c2s EXCEPT ![ch] = Append(@, pkt)]
           /\ ch' = IF stop THEN 0 ELSE ch + 1
           /\ pc' = IF stop THEN "recv" ELSE "send"
    /\ pos' = pos + BytesRead
    /\ payload_size' = ChunkSize
    /\ seq_no' = seq_no + ChunkSize
    /\ eof_seq_no' = IF ChunkIsEof THEN seq_no ELSE eof_seq_no
    /\ last_packet' = IF ChunkSize = 0 THEN ch ELSE last_packet
    /\ UNCHANGED <<file, is_eof, connected, s2c, server>>

(* When poll() on channel i may return 0.                                  *)
MayTimeOut(i) ==
    IF LateAcks THEN Len(c2s[i]) + Len(s2c[i]) < MaxInFlight
                ELSE c2s[i] = <<>> /\ s2c[i] = <<>>

(* Mutant: poll() does not wait.                                           *)
RetransmitAtOnce ==
    /\ pc = "recv"
    /\ c2s' = [c2s EXCEPT ![ch] = Append(@, tmp[ch])]
    /\ UNCHANGED <<file, client, s2c, server>>

(* poll() timed out: write tmp[i] again.                                   *)
Retransmit ==
    /\ pc = "recv"
    /\ MayTimeOut(ch)
    /\ c2s' = [c2s EXCEPT ![ch] = Append(@, tmp[ch])]
    /\ UNCHANGED <<file, client, s2c, server>>

(* Mutant: once EOF has been read, any ACK is taken for its ACK.           *)
AcksEofAny(a) == eof_seq_no # NoSeq

(* The ACK of the chunk that met EOF.                                      *)
AcksEof(a) == a.seq_no = eof_seq_no

(* poll() reported data: read ONE packet.  Any ACK will do to move on; its *)
(* sequence number is only compared with eof_seq_no.  After the last       *)
(* channel the round ends: FIN, another round, or, with EOF read but not   *)
(* acknowledged, another turn of the receive loop.                         *)
RecvAck ==
    /\ pc = "recv"
    /\ s2c[ch] # <<>>
    /\ LET eof == is_eof \/ AcksEof(Head(s2c[ch]))
       IN  /\ is_eof' = eof
           /\ IF ch < Last
              THEN /\ ch' = ch + 1
                   /\ pc' = pc
              ELSE /\ ch' = 0
                   /\ pc' = IF eof THEN "fin"
                            ELSE IF eof_seq_no = NoSeq THEN "send" ELSE "recv"
    /\ s2c' = [s2c EXCEPT ![ch] = Tail(@)]
    /\ UNCHANGED <<file, pos, seq_no, eof_seq_no, payload_size, last_packet,
                   tmp, connected, c2s, server>>

(* The FIN packet carries the size of the last chunk and no file data.     *)
SendFin ==
    /\ pc = "fin"
    /\ c2s' = [c2s EXCEPT ![0] = Append(@,
                 [seq_no |-> seq_no, size |-> payload_size, is_last |-> TRUE,
                  data |-> <<>>])]
    /\ seq_no' = seq_no + payload_size
    /\ pc' = "finack"
    /\ UNCHANGED <<file, pos, ch, eof_seq_no, is_eof, payload_size,
                   last_packet, tmp, connected, s2c, server>>

(* Mutant: on a timeout the last data packet is sent again, not the FIN.   *)
RetransmitFinAsData ==
    /\ pc = "finack"
    /\ MayTimeOut(0)
    /\ c2s' = [c2s EXCEPT ![0] = Append(@, tmp[0])]
    /\ UNCHANGED <<file, client, s2c, server>>

RetransmitFin ==
    /\ pc = "finack"
    /\ MayTimeOut(0)
    /\ c2s' = [c2s EXCEPT ![0] = Append(@,
                 [seq_no |-> seq_no - payload_size, size |-> payload_size,
                  is_last |-> TRUE, data |-> <<>>])]
    /\ UNCHANGED <<file, client, s2c, server>>

(* One packet read on channel 0 ends the transfer: the sockets are closed. *)
RecvFinAck ==
    /\ pc = "finack"
    /\ s2c[0] # <<>>
    /\ s2c' = [s2c EXCEPT ![0] = Tail(@)]
    /\ pc' = "done"
    /\ UNCHANGED <<file, pos, ch, seq_no, eof_seq_no, is_eof, payload_size,
                   last_packet, tmp, connected, c2s, server>>
------------------------------------------------------------------------------
(* server.c main: the listening socket is ready, so accept() is called     *)
(* NUM_CHANNELS times in a row; each call blocks until a client connects.  *)
Accept ==
    /\ srv = "accept"
    /\ accepted < connected
    /\ accepted' = accepted + 1
    /\ srv' = IF accepted + 1 = NUM_CHANNELS THEN "run" ELSE srv
    /\ UNCHANGED <<file, client, c2s, s2c, out, ready, is_last>>

(* select(): some of the readable channels.  A channel the client has      *)
(* closed is readable too.                                                 *)
Select ==
    /\ srv = "run" /\ ready = {} /\ ~is_last
    /\ \E R \in SUBSET {i \in Channels : c2s[i] # <<>> \/ pc = "done"} :
          /\ R # {}
          /\ ready' = R
    /\ UNCHANGED <<file, client, c2s, s2c, accepted, out, srv, is_last>>

(* The channel the for loop serves next.                                   *)
Serving(i) == srv = "run" /\ i \in ready /\ \A j \in ready : i <= j

(* Mutant: the packet is acknowledged before it is dropped.                *)
DropPacketAcked(i) ==
    /\ Serving(i)
    /\ c2s[i] # <<>>
    /\ c2s' = [c2s EXCEPT ![i] = Tail(@)]
    /\ s2c' = [s2c EXCEPT ![i] = Append(@, [seq_no |-> Head(c2s[i]).seq_no])]
    /\ ready' = ready \ {i}
    /\ UNCHANGED <<file, client, accepted, out, srv, is_last>>

(* serve_connection: rand() < PDR, the packet is forgotten.                *)
DropPacket(i) ==
    /\ Serving(i)
    /\ c2s[i] # <<>>
    /\ c2s' = [c2s EXCEPT ![i] = Tail(@)]
    /\ ready' = ready \ {i}
    /\ UNCHANGED <<file, client, s2c, accepted, out, srv, is_last>>

(* Mutants: the offset is one too high; there is no fseek, and every       *)
(* packet lands at the start of the file.                                  *)
fwriteOffByOne(p) ==
    [k \in DOMAIN out |->
        IF k \in p.seq_no + 1 .. p.seq_no + p.size
        THEN p.data[k - p.seq_no] ELSE out[k]]
fwriteUnseeked(p) ==
    [k \in DOMAIN out |-> IF k < p.size THEN p.data[k + 1] ELSE out[k]]

(* fseek(seq_no), fwrite(data, size): the bytes of packet p on the file.   *)
fwrite(p) ==
    [k \in DOMAIN out |->
        IF k \in p.seq_no .. p.seq_no + p.size - 1
        THEN p.data[k - p.seq_no + 1] ELSE out[k]]

(* The packet that ends the transfer.                                      *)
IsFin(p) == p.is_last

(* serve_connection: write the payload unless it is the FIN, then ACK.     *)
ServePacket(i) ==
    /\ Serving(i)
    /\ c2s[i] # <<>>
    /\ LET p == Head(c2s[i])
       IN  /\ out' = IF IsFin(p) THEN out ELSE fwrite(p)
           /\ s2c' = [s2c EXCEPT ![i] = Append(@, [seq_no |-> p.seq_no])]
           /\ is_last' = (is_last \/ IsFin(p))
    /\ c2s' = [c2s EXCEPT ![i] = Tail(@)]
    /\ ready' = ready \ {i}
    /\ UNCHANGED <<file, client, accepted, srv>>

(* serve_connection after the client closed: read() returns 0, the packet  *)
(* is all zeroes and writes nothing to the file; unless it is dropped, an  *)
(* ACK is sent.                                                            *)
ServeClosed(i) ==
    /\ Serving(i)
    /\ c2s[i] = <<>>
    /\ s2c' \in {s2c, [s2c EXCEPT ![i] = IF @ = <<>> THEN <<[seq_no |-> 0]>>
                                                     ELSE @]}
    /\ ready' = ready \ {i}
    /\ UNCHANGED <<file, client, c2s, accepted, out, srv, is_last>>

(* An ACK the client closed its socket on comes back as a reset: the next  *)
(* read() or write() on the channel fails and the server exits.            *)
ServeReset(i) ==
    /\ Serving(i)
    /\ pc = "done" /\ s2c[i] # <<>>
    /\ srv' = "failed"
    /\ UNCHANGED <<file, client, c2s, s2c, accepted, out, ready, is_last>>

(* while (is_last != 1) ends: output.txt and the sockets are closed.       *)
Finish ==
    /\ srv = "run" /\ ready = {} /\ is_last
    /\ srv' = "done"
    /\ UNCHANGED <<file, client, c2s, s2c, accepted, out, ready, is_last>>

(* Both programs have exited.                                              *)
Terminated ==
    /\ pc = "done" /\ srv \in {"done", "failed"}
    /\ UNCHANGED vars
------------------------------------------------------------------------------
ClientNext == \/ Connect \/ SendChunk \/ Retransmit \/ RecvAck
              \/ SendFin \/ RetransmitFin \/ RecvFinAck
ServerNext == \/ Accept \/ Select \/ Finish
              \/ \E i \in Channels :
                    \/ DropPacket(i) \/ ServePacket(i)
                    \/ ServeClosed(i) \/ ServeReset(i)

Next == ClientNext \/ ServerNext \/ Terminated

Spec == Init /\ [][Next]_vars

(* Both processes keep running, and rand() does not drop one channel's     *)
(* packets for ever (PDR < 1).                                             *)
Fairness == /\ WF_vars(ClientNext) /\ WF_vars(ServerNext)
            /\ \A i \in Channels : SF_vars(ServePacket(i))
FairSpec == Spec /\ Fairness
------------------------------------------------------------------------------
(* Properties                                                              *)

(* Each variable keeps the type its C declaration and use give it.         *)
TypeOK ==
    /\ file \in Seq(Byte)
    /\ pos \in 0 .. Len(file)
    /\ pc \in {"connect", "send", "recv", "fin", "finack", "done"}
    /\ ch \in Channels
    /\ seq_no \in Nat
    /\ eof_seq_no \in Nat \cup {NoSeq}
    /\ is_eof \in BOOLEAN
    /\ payload_size \in Nat
    /\ last_packet \in Channels \cup {-1}
    /\ tmp \in [Channels -> Packet]
    /\ connected \in 0 .. NUM_CHANNELS
    /\ accepted \in 0 .. NUM_CHANNELS
    /\ c2s \in [Channels -> Seq(Packet)]
    /\ s2c \in [Channels -> Seq(Ack)]
    /\ out \in [0 .. Len(file) - 1 -> Byte \cup {Unwritten}]
    /\ srv \in {"accept", "run", "done", "failed"}
    /\ ready \subseteq Channels
    /\ is_last \in BOOLEAN

(* The bytes of the file that have been put in a packet: seq_no, less what *)
(* the FIN packet added to it (client.c:109).                              *)
Sent == IF pc \in {"finack", "done"} THEN seq_no - payload_size ELSE seq_no

(* Byte k of input.txt has reached output.txt.                             *)
Written(k) == k \in DOMAIN out /\ out[k] = file[k + 1]

(* No file handed to the client contains a NUL.                            *)
TextInputs == \A f \in Inputs : \A j \in DOMAIN f : f[j] # 0

(* Stop and wait: a channel never carries more than one packet or ACK, so  *)
(* the one ACK read per channel and round (client.c:78) is the ACK of that *)
(* round's packet.                                                         *)
OneInFlight == \A i \in Channels : Len(c2s[i]) + Len(s2c[i]) <= 1

(* The client starts a round, sends the FIN or exits only when everything  *)
(* it has sent so far is in output.txt, whatever was dropped on the way    *)
(* (client.c:56-95).                                                       *)
RoundDelivered ==
    \/ pc \in {"fin", "finack", "done"}
    \/ pc = "send" /\ ch = 0
    => \A k \in 0 .. Sent - 1 : Written(k)

(* Wherever packets were lost, repeated or delayed, what output.txt holds  *)
(* at an offset is the byte input.txt has there (server.c:45-46).          *)
NoCorruption == \A k \in DOMAIN out : out[k] # Unwritten => Written(k)

(* A late or repeated packet never changes a byte that was written.        *)
WrittenOnce ==
    [][\A k \in DOMAIN out : out[k] # Unwritten => out'[k] = out[k]]_vars

(* Every ACK on its way stands for a packet whose bytes are in output.txt; *)
(* acknowledging before writing, or on dropping, breaks it                 *)
(* (server.c:31-56).                                                       *)
AckMeansWritten ==
    pc \notin {"connect", "done"} =>
    \A i \in Channels : \A j \in DOMAIN s2c[i] :
        LET a == s2c[i][j].seq_no
        IN  a < Sent => Written(a)

(* The client gives up retransmitting the chunk that met EOF only once it  *)
(* is in output.txt, even if ACKs arrive late or twice (client.c:87-95).   *)
EofDelivered ==
    pc \in {"fin", "finack", "done"} =>
        \A k \in eof_seq_no .. Sent - 1 : Written(k)

(* Every upload ends with both programs exiting.                           *)
UploadEnds == <>(pc = "done" /\ srv = "done")

(* The programs implement the abstract upload: a correct byte per offset,  *)
(* and an exit of the client only over a complete copy.                    *)
Upload == INSTANCE FileUpload WITH finished <- (pc = "done")
ImplementsUpload == Upload!Spec

(* After the client has exited output.txt is input.txt.                    *)
WholeFileCopied == pc = "done" => \A k \in DOMAIN out : Written(k)
==============================================================================
