----------------------- MODULE SelectiveRepeatProofs -----------------------
(***************************************************************************)
(* Theorems about SelectiveRepeat, for every number of channels, packet    *)
(* size and file length, however often packets are dropped or late and     *)
(* whichever relay and socket they and their ACKs go through.              *)
(***************************************************************************)
EXTENDS SelectiveRepeat, TLAPS

(* What get_next_chunk makes of the bytes from offset s on; the short read *)
(* at the end loses one.                                                   *)
DataSize(s) == IF s + PACKET_SIZE <= length THEN PACKET_SIZE ELSE length - s - 1

(* A packet with a payload carries the bytes of the file at its sequence   *)
(* number, as many as every other packet with that number.                 *)
DataOK(p) ==
    p.size > 0 => /\ p.off = p.seq_no
                  /\ p.size = DataSize(p.seq_no)
                  /\ p.seq_no + p.size <= seq_no

(* An empty one, or the FIN, is sent once nothing is left to read. *)
EmptyOK(p) ==
    p.size = 0 => pc # "send" /\ eof_seq_no # NoSeq /\ p.seq_no = seq_no

Chunks == {p \in Packet : DataOK(p) /\ (p.is_last => p.size = 0)}
Sendable == {p \in Chunks : EmptyOK(p)}
Acked == {p \in Sendable : Written(p)}

ListenQueues(S) == [Channels -> Seq([from : Channels, pkt : S])]
CliQueues(S) == [Channels -> Seq([via : Channels, pkt : S])]

(* What is on its way between the three processes. *)
FlightInv ==
    /\ listenQ \in ListenQueues(Sendable)
    /\ serverQ \in Seq(Sendable)
    /\ ackQ \in Seq(Acked)
    /\ cliQ \in CliQueues(Acked)

(* What the client keeps for retransmission; before its first packet a     *)
(* channel holds an empty header, which is never sent.                     *)
KeptInv ==
    /\ tmp \in [Channels -> Chunks]
    /\ \A i \in Channels :
          (IF pc = "send" THEN i < ch ELSE i <= Last) => tmp[i] \in Sendable

ClientInv ==
    /\ IF eof_seq_no = NoSeq THEN pos = seq_no ELSE pos = length
    /\ pc = "send" => ~is_eof /\ last_packet = -1
    /\ pc = "recv" => ch <= Last
    /\ pc \in {"fin", "fin_wait", "ended"} => is_eof
    /\ last_packet # -1 \/ is_eof => eof_seq_no # NoSeq

(* The chunk that met the end of the file is in the output. *)
EofWritten == \A i \in Channels : tmp[i].seq_no = eof_seq_no => Written(tmp[i])

(* A socket that select reported still has its packet. *)
ReadyInv ==
    /\ ServerFd \in ready => ackQ # <<>>
    /\ \A i \in ready \cap Channels : listenQ[i] # <<>>

(* The relay closes its sockets behind the last one it serves. *)
OpenInv == ready # {} => relay = "open"

TransferInv ==
    /\ TypeOK
    /\ FlightInv
    /\ KeptInv
    /\ ClientInv
    /\ is_eof => EofWritten
    /\ ReadyInv
    /\ OpenInv
    /\ NoCorruption

-----------------------------------------------------------------------------
(* Queues. *)

(* A queue of packets of S is one of packets of any larger set. *)
LEMMA SeqMono ==
    ASSUME NEW S, NEW T, S \subseteq T
    PROVE  Seq(S) \subseteq Seq(T)
OBVIOUS

(* What is in a queue of packets of S is in S. *)
LEMMA SeqElements ==
    ASSUME NEW S, NEW q \in Seq(S), NEW n \in DOMAIN q
    PROVE  q[n] \in S
OBVIOUS

(* The queues of the channels, with their source addresses, grow as well. *)
LEMMA QueuesMono ==
    ASSUME NEW S, NEW T, S \subseteq T
    PROVE  /\ ListenQueues(S) \subseteq ListenQueues(T)
           /\ CliQueues(S) \subseteq CliQueues(T)
<1>1. [from : Channels, pkt : S] \subseteq [from : Channels, pkt : T]
  OBVIOUS
<1>2. [via : Channels, pkt : S] \subseteq [via : Channels, pkt : T]
  OBVIOUS
<1>3. /\ Seq([from : Channels, pkt : S]) \subseteq Seq([from : Channels, pkt : T])
      /\ Seq([via : Channels, pkt : S]) \subseteq Seq([via : Channels, pkt : T])
  BY <1>1, <1>2, SeqMono
<1> QED
  BY <1>3 DEF ListenQueues, CliQueues

(* Appending to a queue of f, and taking from it. *)
LEMMA QueueSteps ==
    ASSUME NEW E, NEW f \in [Channels -> Seq(E)], NEW i \in Channels
    PROVE  /\ \A e \in E : [f EXCEPT ![i] = Append(f[i], e)] \in [Channels -> Seq(E)]
           /\ f[i] # <<>> => /\ [f EXCEPT ![i] = Tail(f[i])] \in [Channels -> Seq(E)]
                             /\ Head(f[i]) \in E
<1>1. f[i] \in Seq(E)
  OBVIOUS
<1>2. \A e \in E : Append(f[i], e) \in Seq(E)
  BY <1>1
<1>3. f[i] # <<>> => Tail(f[i]) \in Seq(E) /\ Head(f[i]) \in E
  BY <1>1
<1> QED
  BY <1>2, <1>3

(* Sockets that were closed hold nothing. *)
LEMMA EmptyQueues ==
    ASSUME NEW S
    PROVE  [r \in Channels |-> <<>>] \in ListenQueues(S)
BY DEF ListenQueues

(* sendto adds a packet of S to the queues or is lost, and empties none. *)
LEMMA SendtoFacts ==
    ASSUME NEW S, listenQ \in ListenQueues(S), relay_addr \in [Channels -> Channels],
           NEW i \in Channels, NEW p \in S, sendto(i, p)
    PROVE  /\ listenQ' \in ListenQueues(S)
           /\ \A r \in Channels : listenQ[r] # <<>> => listenQ'[r] # <<>>
<1> DEFINE r0 == relay_addr[i]
           e == [from |-> i, pkt |-> p]
<1>1. r0 \in Channels /\ e \in [from : Channels, pkt : S]
  OBVIOUS
<1>2. CASE relay # "open"
  BY <1>2 DEF sendto
<1>3. CASE relay = "open"
  <2>1. listenQ' = [listenQ EXCEPT ![r0] = Append(listenQ[r0], e)]
    BY <1>3 DEF sendto
  <2> HIDE DEF r0, e
  <2>2. listenQ' \in ListenQueues(S)
    BY <1>1, <2>1, QueueSteps DEF ListenQueues
  <2>3. listenQ'[r0] # <<>> /\ \A r \in Channels \ {r0} : listenQ'[r] = listenQ[r]
    BY <1>1, <2>1 DEF ListenQueues
  <2> QED
    BY <2>2, <2>3
<1> QED
  BY <1>2, <1>3

-----------------------------------------------------------------------------
(* What a step may do to the packets that exist. *)

(* The constants of utils.h. *)
LEMMA ConstantFacts ==
    /\ NUM_CHANNELS \in Nat /\ NUM_CHANNELS >= 1
    /\ PACKET_SIZE \in Nat /\ PACKET_SIZE >= 1
    /\ Channels \subseteq Nat /\ 0 \in Channels /\ ServerFd \notin Channels
    /\ NUM_CHANNELS - 1 \in Channels
BY ChannelsAssumption, SizeAssumption DEF Channels, ServerFd

(* What one call of get_next_chunk reads and delivers. *)
LEMMA ChunkFacts ==
    ASSUME length \in Nat, pos \in 0 .. length
    PROVE  /\ BytesRead \in 0 .. PACKET_SIZE /\ pos + BytesRead <= length
           /\ ChunkSize \in 0 .. BytesRead
           /\ ChunkIsEof => pos + BytesRead = length
           /\ ~ChunkIsEof => ChunkSize = BytesRead
           /\ ChunkSize = 0 => ChunkIsEof
           /\ pos = length => ChunkIsEof /\ ChunkSize = 0
           /\ ChunkSize > 0 => ChunkSize = DataSize(pos)
BY ConstantFacts DEF BytesRead, ChunkIsEof, ChunkSize, DataSize

(* fwrite puts the bytes of a packet at their place and no other. *)
LEMMA FwriteFacts ==
    ASSUME TypeOK, NEW p \in Chunks, seq_no <= length
    PROVE  /\ fwrite(p) \in [0 .. length - 1 -> Nat \cup {Unwritten}]
           /\ \A k \in p.seq_no .. p.seq_no + p.size - 1 :
                 k \in 0 .. length - 1 /\ fwrite(p)[k] = k
           /\ \A k \in 0 .. length - 1 : fwrite(p)[k] \in {k, out[k]}
<1>1. /\ p.seq_no \in Nat /\ p.size \in Nat /\ p.off \in Nat
      /\ p.size > 0 => p.off = p.seq_no /\ p.seq_no + p.size <= seq_no
  BY ConstantFacts DEF Chunks, Packet, DataOK
<1>2. /\ length \in Nat /\ seq_no \in Nat
      /\ out \in [0 .. length - 1 -> Nat \cup {Unwritten}]
      /\ DOMAIN out = 0 .. length - 1
  BY LengthsAssumption DEF TypeOK
<1>3. \A k \in p.seq_no .. p.seq_no + p.size - 1 :
         k \in 0 .. length - 1 /\ p.off + (k - p.seq_no) = k /\ k \in Nat
  BY <1>1, <1>2
<1>4. \A k \in 0 .. length - 1 :
         fwrite(p)[k] = IF k \in p.seq_no .. p.seq_no + p.size - 1
                          THEN p.off + (k - p.seq_no) ELSE out[k]
  BY <1>2, Zenon DEF fwrite
<1>5. DOMAIN fwrite(p) = 0 .. length - 1 /\ fwrite(p) = [k \in 0 .. length - 1 |-> fwrite(p)[k]]
  BY <1>2, Zenon DEF fwrite
<1>6. \A k \in 0 .. length - 1 : fwrite(p)[k] \in Nat \cup {Unwritten}
  BY <1>2, <1>3, <1>4
<1> QED
  BY <1>3, <1>4, <1>5, <1>6

(* What holds of the packets, whatever step is taken: sequence numbers     *)
(* grow until the end of the file has been sent, and bytes stay written.   *)
Grows ==
    /\ length' = length
    /\ seq_no' \in Nat /\ seq_no <= seq_no'
    /\ pc # "send" /\ eof_seq_no # NoSeq =>
          pc' # "send" /\ eof_seq_no' # NoSeq /\ seq_no' = seq_no
    /\ \A k \in 0 .. length - 1 : out[k] # Unwritten => out'[k] # Unwritten

(* The packets that may be kept, sent and acknowledged stay so. *)
LEMMA PacketsGrow ==
    ASSUME TypeOK, Grows
    PROVE  /\ Chunks \subseteq Chunks'
           /\ Sendable \subseteq Sendable'
           /\ Acked \subseteq Acked'
<1>0. length \in Nat /\ seq_no \in 0 .. length /\ seq_no' \in Nat
  BY LengthsAssumption DEF TypeOK, Grows
<1>1. ASSUME NEW p \in Chunks PROVE p \in Chunks'
  <2>1. p \in Packet /\ p.seq_no \in Nat /\ p.size \in Nat
    BY ConstantFacts DEF Chunks, Packet
  <2>2. DataOK(p) => DataOK(p)'
    BY <1>0, <2>1 DEF DataOK, DataSize, Grows
  <2> QED
    BY <2>1, <2>2 DEF Chunks
<1>2. ASSUME NEW p \in Sendable PROVE p \in Sendable'
  <2>1. p \in Chunks'
    BY <1>1 DEF Sendable
  <2> QED
    BY <2>1 DEF Sendable, EmptyOK, Grows
<1>3. ASSUME NEW p \in Acked PROVE p \in Acked'
  <2>1. p \in Sendable' /\ p \in Sendable
    BY <1>2 DEF Acked
  <2>2. /\ p.seq_no \in Nat /\ p.size \in Nat
        /\ p.size > 0 => p.seq_no + p.size <= seq_no
    BY <2>1, ConstantFacts DEF Sendable, Chunks, Packet, DataOK
  <2>3. \A k \in p.seq_no .. p.seq_no + p.size - 1 : k \in 0 .. length - 1
    BY <1>0, <2>2
  <2> QED
    BY <2>1, <2>3 DEF Acked, Written, Grows
<1> QED
  BY <1>1, <1>2, <1>3

(* So what is on its way stays what may be on its way. *)
LEMMA Lifted ==
    ASSUME TransferInv, Grows
    PROVE  /\ listenQ \in ListenQueues(Sendable')
           /\ serverQ \in Seq(Sendable')
           /\ ackQ \in Seq(Acked')
           /\ cliQ \in CliQueues(Acked')
           /\ tmp \in [Channels -> Chunks']
           /\ \A i \in Channels :
                 (IF pc = "send" THEN i < ch ELSE i <= Last) => tmp[i] \in Sendable'
<1>1. Chunks \subseteq Chunks' /\ Sendable \subseteq Sendable' /\ Acked \subseteq Acked'
  BY PacketsGrow DEF TransferInv
<1>2. /\ ListenQueues(Sendable) \subseteq ListenQueues(Sendable')
      /\ CliQueues(Acked) \subseteq CliQueues(Acked')
      /\ Seq(Sendable) \subseteq Seq(Sendable')
      /\ Seq(Acked) \subseteq Seq(Acked')
  BY <1>1, QueuesMono, SeqMono
<1> QED
  BY <1>1, <1>2 DEF TransferInv, FlightInv, KeptInv

(* The numbers, flags and sockets of TypeOK, without the packets. *)
Scalars ==
    /\ late \in 0 .. MaxLate
    /\ length \in Lengths
    /\ pc \in {"send", "recv", "fin", "fin_wait", "ended"}
    /\ pos \in 0 .. length
    /\ ch \in Channels
    /\ seq_no \in 0 .. length
    /\ eof_seq_no \in 0 .. length \cup {NoSeq}
    /\ is_eof \in BOOLEAN
    /\ last_packet \in Channels \cup {-1}
    /\ relay_addr \in [Channels -> Channels]
    /\ relay \in {"open", "closed"}
    /\ ready \subseteq Channels \cup {ServerFd}
    /\ cli_addr \in Channels
    /\ is_last \in BOOLEAN
    /\ out \in [0 .. length - 1 -> Nat \cup {Unwritten}]

(* The queues hold packets because they hold packets that may be sent. *)
LEMMA TypesFromFlight ==
    ASSUME Scalars', FlightInv', tmp' \in [Channels -> Chunks']
    PROVE  TypeOK'
<1>1. Chunks' \subseteq Packet /\ Sendable' \subseteq Packet /\ Acked' \subseteq Packet
  BY DEF Chunks, Sendable, Acked
<1>2. /\ ListenQueues(Sendable') \subseteq ListenQueues(Packet)
      /\ CliQueues(Acked') \subseteq CliQueues(Packet)
      /\ Seq(Sendable') \subseteq Seq(Packet)
      /\ Seq(Acked') \subseteq Seq(Packet)
  BY <1>1, QueuesMono, SeqMono
<1>3. /\ listenQ' \in ListenQueues(Packet) /\ cliQ' \in CliQueues(Packet)
      /\ serverQ' \in Seq(Packet) /\ ackQ' \in Seq(Packet)
      /\ tmp' \in [Channels -> Packet]
  BY <1>1, <1>2 DEF FlightInv
<1> QED
  BY <1>3 DEF TypeOK, Scalars, ListenQueues, CliQueues

(* What the invariant says of the numbers. *)
LEMMA Numbers ==
    ASSUME TransferInv
    PROVE  /\ Scalars
           /\ length \in Nat /\ MaxLate \in Nat /\ seq_no \in Nat /\ pos \in Nat
           /\ ch \in Nat /\ eof_seq_no \in Int /\ seq_no <= length
           /\ eof_seq_no # NoSeq => eof_seq_no \in Nat
           /\ Last \in Channels
<1>1. TypeOK
  BY DEF TransferInv
<1>2. Scalars
  BY <1>1 DEF TypeOK, Scalars
<1>3. length \in Nat /\ MaxLate \in Nat
  BY <1>1, LengthsAssumption, LateAssumption DEF TypeOK
<1> QED
  BY <1>2, <1>3, ConstantFacts DEF Scalars, NoSeq, Last

(* TransferInv holds when the three programs start. *)
LEMMA TransferInit == Init => TransferInv
<1> SUFFICES ASSUME Init PROVE TransferInv
  OBVIOUS
<1>0. length \in Nat /\ length \in Lengths /\ MaxLate \in Nat
  BY LengthsAssumption, LateAssumption DEF Init
<1>1. FlightInv
  BY DEF Init, FlightInv, ListenQueues, CliQueues
<1>2. /\ tmp \in [Channels -> Packet]
      /\ \A i \in Channels : tmp[i].size = 0 /\ ~tmp[i].is_last
  BY ConstantFacts DEF Init, Packet, Header
<1>3. tmp \in [Channels -> Chunks]
  BY <1>2 DEF Chunks, DataOK
<1>4. KeptInv
  <2>1. \A i \in Channels : ~(i < ch)
    BY ConstantFacts DEF Init
  <2> QED
    BY <1>3, <2>1 DEF Init, KeptInv
<1>5. ClientInv
  BY DEF Init, ClientInv, NoSeq
<1>6. ReadyInv /\ OpenInv
  BY DEF Init, ReadyInv, OpenInv
<1>7. out \in [0 .. length - 1 -> Nat \cup {Unwritten}] /\ NoCorruption
  BY DEF Init, NoCorruption
<1>8. TypeOK
  <2>1. /\ listenQ \in [Channels -> Seq([from : Channels, pkt : Packet])]
        /\ cliQ \in [Channels -> Seq([via : Channels, pkt : Packet])]
        /\ serverQ \in Seq(Packet) /\ ackQ \in Seq(Packet)
    BY DEF Init
  <2>2. /\ late \in 0 .. MaxLate /\ pc = "send" /\ pos \in 0 .. length /\ ch \in Channels
        /\ seq_no \in 0 .. length /\ eof_seq_no = NoSeq /\ is_eof = FALSE /\ last_packet = -1
        /\ relay_addr \in [Channels -> Channels]
        /\ relay = "open" /\ ready = {} /\ cli_addr \in Channels /\ is_last = FALSE
    BY <1>0, ConstantFacts DEF Init
  <2> QED
    BY <1>0, <1>2, <1>7, <2>1, <2>2 DEF TypeOK
<1>9. ~is_eof
  BY DEF Init
<1> QED
  BY <1>1, <1>4, <1>5, <1>6, <1>7, <1>8, <1>9 DEF TransferInv

-----------------------------------------------------------------------------
(* The client. *)

(* The send loop makes packets that may be sent, in the order of the file. *)
LEMMA SendChunkStep == TransferInv /\ SendChunk => TransferInv'
<1> SUFFICES ASSUME TransferInv, SendChunk PROVE TransferInv'
  OBVIOUS
<1> PICK pkt : pkt = Header(seq_no, ChunkSize, pos, FALSE)
  OBVIOUS
<1>0. Scalars /\ ClientInv /\ ReadyInv /\ OpenInv /\ NoCorruption
  BY Numbers DEF TransferInv
<1>1. /\ pc = "send" /\ ~is_eof /\ last_packet = -1
      /\ IF eof_seq_no = NoSeq THEN pos = seq_no ELSE pos = length
  BY <1>0 DEF SendChunk, ClientInv
<1>2. /\ tmp' = [tmp EXCEPT ![ch] = pkt]
      /\ sendto(ch, pkt)
      /\ \/ ChunkSize = 0 \/ ch = NUM_CHANNELS - 1
         \/ ChunkSize # 0 /\ ch # NUM_CHANNELS - 1
      /\ ChunkSize = 0 \/ ch = NUM_CHANNELS - 1 => ch' = 0 /\ pc' = "recv"
      /\ ChunkSize # 0 /\ ch # NUM_CHANNELS - 1 => ch' = ch + 1 /\ pc' = "send"
      /\ pos' = pos + BytesRead
      /\ seq_no' = seq_no + ChunkSize
      /\ eof_seq_no' = IF ChunkIsEof THEN seq_no ELSE eof_seq_no
      /\ last_packet' = IF ChunkSize = 0 THEN ch ELSE last_packet
      /\ UNCHANGED <<late, length, is_eof, relay_addr, serverQ, ackQ, cliQ, relay, ready,
                     cli_addr, is_last, out>>
  BY DEF SendChunk, relays
<1>3. /\ BytesRead \in 0 .. PACKET_SIZE /\ pos + BytesRead <= length
      /\ ChunkSize \in 0 .. BytesRead
      /\ ChunkIsEof => pos + BytesRead = length
      /\ ~ChunkIsEof => ChunkSize = BytesRead
      /\ ChunkSize = 0 => ChunkIsEof
      /\ pos = length => ChunkIsEof /\ ChunkSize = 0
      /\ ChunkSize > 0 => ChunkSize = DataSize(pos)
  BY <1>0, Numbers, ChunkFacts DEF Scalars
<1>4. Grows
  BY <1>1, <1>2, <1>3, Numbers, ConstantFacts DEF Grows
<1>5. pkt \in Packet /\ pkt.seq_no = seq_no /\ pkt.size = ChunkSize /\ pkt.off = pos /\ ~pkt.is_last
  BY <1>3, Numbers, ConstantFacts DEF Packet, Header
<1>6. pkt \in Sendable' /\ pkt \in Chunks'
  <2>1. DataOK(pkt)'
    <3>1. ChunkSize > 0 => /\ pos = seq_no /\ ChunkSize = DataSize(seq_no)
                           /\ seq_no + ChunkSize <= seq_no'
      BY <1>1, <1>2, <1>3, Numbers, ConstantFacts
    <3>2. DataSize(seq_no) = DataSize(pkt.seq_no)'
      BY <1>2, <1>5 DEF DataSize
    <3> QED
      BY <1>5, <3>1, <3>2 DEF DataOK
  <2>2. EmptyOK(pkt)'
    <3>1. ChunkSize = 0 => pc' = "recv" /\ eof_seq_no' = seq_no /\ seq_no' = seq_no
      BY <1>2, <1>3, Numbers
    <3>2. seq_no # NoSeq
      BY Numbers DEF NoSeq
    <3> QED
      BY <1>5, <3>1, <3>2, Zenon DEF EmptyOK
  <2> QED
    BY <1>5, <2>1, <2>2 DEF Sendable, Chunks
<1>7. ch \in Channels /\ relay_addr \in [Channels -> Channels]
  BY <1>0 DEF Scalars
<1>8. /\ listenQ' \in ListenQueues(Sendable')
      /\ \A r \in Channels : listenQ[r] # <<>> => listenQ'[r] # <<>>
  BY <1>2, <1>4, <1>6, <1>7, Lifted, SendtoFacts
<1>9. FlightInv'
  BY <1>2, <1>4, <1>8, Lifted DEF FlightInv
<1>10. KeptInv'
  <2>1. tmp' \in [Channels -> Chunks']
    BY <1>2, <1>4, <1>6, <1>7, Lifted
  <2>2. tmp'[ch] \in Sendable' /\ \A i \in Channels : i < ch => tmp'[i] \in Sendable'
    BY <1>1, <1>2, <1>4, <1>6, <1>7, Lifted, ConstantFacts
  <2>3. \A i \in Channels : (IF pc' = "send" THEN i < ch' ELSE i <= Last') => i <= ch
    BY <1>1, <1>2, <1>3, <1>7, ConstantFacts DEF Last, Channels
  <2>4. \A i \in Channels : i <= ch => i = ch \/ i < ch
    BY <1>7, ConstantFacts
  <2> QED
    BY <2>1, <2>2, <2>3, <2>4 DEF KeptInv
<1>11. ch' \in Channels
  <2>1. ch' = 0 \/ (ch # NUM_CHANNELS - 1 /\ ch' = ch + 1)
    BY <1>2
  <2> QED
    BY <1>7, <2>1, ConstantFacts DEF Channels
<1>12. Scalars'
  <2>1. /\ pos' \in 0 .. length' /\ seq_no' \in 0 .. length'
        /\ eof_seq_no' \in 0 .. length' \cup {NoSeq}
    BY <1>0, <1>1, <1>2, <1>3, Numbers, ConstantFacts DEF Scalars
  <2>2. last_packet' \in Channels \cup {-1} /\ pc' \in {"send", "recv"}
    BY <1>1, <1>2, <1>7
  <2> QED
    BY <1>0, <1>2, <1>11, <2>1, <2>2 DEF Scalars
<1>13. ClientInv'
  <2>1. IF eof_seq_no' = NoSeq THEN pos' = seq_no' ELSE pos' = length'
    BY <1>1, <1>2, <1>3, Numbers, ConstantFacts DEF NoSeq
  <2>2. pc' = "recv" => ch' <= Last'
    BY <1>1, <1>2, <1>7, ConstantFacts DEF Last
  <2>3. last_packet' # -1 => eof_seq_no' # NoSeq
    BY <1>1, <1>2, <1>3, Numbers DEF NoSeq
  <2> QED
    BY <1>1, <1>2, <2>1, <2>2, <2>3 DEF ClientInv
<1>14. ReadyInv' /\ OpenInv' /\ NoCorruption' /\ ~is_eof'
  BY <1>0, <1>1, <1>2, <1>8 DEF ReadyInv, OpenInv, NoCorruption
<1> QED
  BY <1>9, <1>10, <1>12, <1>13, <1>14, TypesFromFlight DEF TransferInv, KeptInv

(* A packet sent once more, or the FIN: nothing but a queue and the state  *)
(* of the client changes.                                                  *)
LEMMA ResendStep ==
    ASSUME TransferInv, NEW i \in Channels, NEW p \in Sendable', sendto(i, p),
           late' \in 0 .. MaxLate,
           pc # "send" /\ (pc' = pc \/ (pc = "fin" /\ pc' = "fin_wait")),
           UNCHANGED <<length, pos, ch, seq_no, eof_seq_no, is_eof, last_packet, tmp, relay_addr,
                       serverQ, ackQ, cliQ, relay, ready, cli_addr, is_last, out>>
    PROVE  TransferInv'
<1>0. Scalars /\ ClientInv /\ ReadyInv /\ OpenInv /\ NoCorruption /\ (is_eof => EofWritten)
  BY Numbers DEF TransferInv
<1>1. pc' # "send" /\ Grows
  BY Numbers DEF Grows
<1>2. /\ listenQ' \in ListenQueues(Sendable')
      /\ \A r \in Channels : listenQ[r] # <<>> => listenQ'[r] # <<>>
  BY <1>0, <1>1, Lifted, SendtoFacts DEF Scalars
<1>3. FlightInv'
  BY <1>1, <1>2, Lifted DEF FlightInv
<1>4. KeptInv'
  BY <1>1, Lifted DEF KeptInv, Last
<1>5. Scalars' /\ ClientInv'
  BY <1>0 DEF Scalars, ClientInv, Last
<1>6. ReadyInv' /\ OpenInv' /\ NoCorruption' /\ (is_eof' => EofWritten')
  BY <1>0, <1>2 DEF ReadyInv, OpenInv, NoCorruption, EofWritten, Written
<1> QED
  BY <1>3, <1>4, <1>5, <1>6, TypesFromFlight DEF TransferInv, KeptInv

(* A poll that times out uses up at most one late packet. *)
LEMMA TimesOutFacts ==
    ASSUME TransferInv, NEW i \in Channels, TimesOut(i)
    PROVE  late' \in 0 .. MaxLate
BY Numbers DEF TimesOut, Scalars

(* The FIN follows the end of the file. *)
LEMMA FinFacts ==
    ASSUME TransferInv, pc \in {"fin", "fin_wait"}, pc' # "send",
           UNCHANGED <<length, seq_no, eof_seq_no>>
    PROVE  Fin \in Sendable'
<1>1. eof_seq_no # NoSeq
  BY DEF TransferInv, ClientInv
<1>2. /\ Fin \in Packet /\ Fin.seq_no = seq_no /\ Fin.size = 0 /\ Fin.is_last
  BY Numbers, ConstantFacts DEF Fin, Header, Packet
<1> PICK f : f = Fin
  OBVIOUS
<1>3. f \in Packet /\ f.seq_no = seq_no /\ f.size = 0 /\ f.is_last
  BY <1>2
<1>4. DataOK(f)' /\ EmptyOK(f)'
  BY <1>1, <1>3 DEF DataOK, EmptyOK, NoSeq
<1> QED
  BY <1>3, <1>4 DEF Sendable, Chunks

(* Every packet repeated, and the FIN, may be sent. *)
LEMMA RepeatStep == TransferInv /\ (Retransmit \/ SendFin \/ RetransmitFin) => TransferInv'
<1> SUFFICES ASSUME TransferInv PROVE Retransmit \/ SendFin \/ RetransmitFin => TransferInv'
  OBVIOUS
<1>0. ch \in Channels /\ late \in 0 .. MaxLate
  BY Numbers DEF Scalars
<1>1. CASE Retransmit
  <2>1. /\ pc = "recv" /\ pc' = pc /\ sendto(ch, tmp[ch]) /\ late' \in 0 .. MaxLate
        /\ UNCHANGED <<length, pos, ch, seq_no, eof_seq_no, is_eof, last_packet, tmp, relay_addr,
                       serverQ, ackQ, cliQ, relay, ready, cli_addr, is_last, out>>
    BY <1>0, <1>1, TimesOutFacts DEF Retransmit, client, relays
  <2>2. Grows
    BY <2>1, Numbers DEF Grows
  <2>3. tmp[ch] \in Sendable'
    BY <1>0, <2>1, <2>2, Lifted DEF TransferInv, ClientInv
  <2> QED
    BY <1>0, <2>1, <2>3, ResendStep
<1>2. CASE SendFin
  <2>1. /\ pc = "fin" /\ pc' = "fin_wait" /\ sendto(0, Fin) /\ late' = late
        /\ UNCHANGED <<length, pos, ch, seq_no, eof_seq_no, is_eof, last_packet, tmp, relay_addr,
                       serverQ, ackQ, cliQ, relay, ready, cli_addr, is_last, out>>
    BY <1>2 DEF SendFin, relays
  <2> QED
    BY <1>0, <2>1, FinFacts, ResendStep, ConstantFacts
<1>3. CASE RetransmitFin
  <2>1. /\ pc = "fin_wait" /\ pc' = pc /\ sendto(0, Fin) /\ late' \in 0 .. MaxLate
        /\ UNCHANGED <<length, pos, ch, seq_no, eof_seq_no, is_eof, last_packet, tmp, relay_addr,
                       serverQ, ackQ, cliQ, relay, ready, cli_addr, is_last, out>>
    BY <1>3, TimesOutFacts, ConstantFacts DEF RetransmitFin, client, relays
  <2> QED
    BY <1>0, <2>1, FinFacts, ResendStep, ConstantFacts
<1> QED
  BY <1>1, <1>2, <1>3

(* An ACK of the last chunk means that every copy of it is written: two    *)
(* packets with one sequence number carry the same bytes.                  *)
LEMMA EofAcked ==
    ASSUME TransferInv, NEW a \in Acked, a.seq_no = eof_seq_no
    PROVE  eof_seq_no # NoSeq /\ EofWritten
<1>1. /\ a \in Sendable /\ a \in Chunks /\ a \in Packet /\ Written(a)
      /\ a.seq_no \in Nat /\ a.size \in Nat
  BY ConstantFacts DEF Acked, Sendable, Chunks, Packet
<1>2. eof_seq_no # NoSeq
  BY <1>1 DEF NoSeq
<1>3. ASSUME NEW i \in Channels, tmp[i].seq_no = eof_seq_no PROVE Written(tmp[i])
  <2>1. /\ DataOK(tmp[i]) /\ tmp[i].size \in Nat /\ tmp[i].seq_no \in Nat
    BY ConstantFacts DEF TransferInv, KeptInv, Chunks, Packet
  <2>2. CASE tmp[i].size = 0
    BY <2>1, <2>2 DEF Written
  <2>3. CASE tmp[i].size > 0
    <3>1. tmp[i].size = DataSize(eof_seq_no) /\ eof_seq_no + tmp[i].size <= seq_no
      BY <1>3, <2>3, <2>1 DEF DataOK
    <3>2. a.size # 0
      BY <1>1, <1>2, <2>1, <2>3, <3>1, Numbers DEF Sendable, EmptyOK
    <3>3. a.size = DataSize(eof_seq_no)
      BY <1>1, <3>2 DEF Chunks, DataOK
    <3> QED
      BY <1>1, <1>3, <3>1, <3>3 DEF Written
  <2> QED
    BY <2>1, <2>2, <2>3
<1> QED
  BY <1>2, <1>3 DEF EofWritten

(* The client takes one packet of a channel for its ACK. *)
LEMMA RecvAckStep == TransferInv /\ RecvAck => TransferInv'
<1> SUFFICES ASSUME TransferInv, RecvAck PROVE TransferInv'
  OBVIOUS
<1>0. /\ Scalars /\ ClientInv /\ ReadyInv /\ OpenInv /\ NoCorruption /\ (is_eof => EofWritten)
      /\ ch \in Channels /\ Last \in Channels /\ cliQ \in CliQueues(Acked)
  BY Numbers DEF TransferInv, FlightInv, Scalars
<1>1. Head(cliQ[ch]) \in [via : Channels, pkt : Acked] /\ cliQ[ch] # <<>>
  BY <1>0, QueueSteps DEF RecvAck, CliQueues
<1> PICK m \in [via : Channels, pkt : Acked] : m = Head(cliQ[ch])
  BY <1>1
<1>2. /\ pc = "recv"
      /\ is_eof' = (is_eof \/ m.pkt.seq_no = eof_seq_no)
      /\ ch' = IF ch = Last THEN 0 ELSE ch + 1
      /\ pc' = IF ch < Last THEN "recv"
               ELSE IF is_eof' THEN "fin"
               ELSE IF eof_seq_no = NoSeq THEN "send" ELSE "recv"
      /\ relay_addr' = [relay_addr EXCEPT ![ch] = m.via]
      /\ cliQ' = [cliQ EXCEPT ![ch] = Tail(cliQ[ch])]
      /\ UNCHANGED <<late, length, pos, seq_no, eof_seq_no, last_packet, tmp, listenQ, serverQ,
                     ackQ, relay, ready, cli_addr, is_last, out>>
  BY DEF RecvAck, AcksEof, relays
<1>3. ch <= Last /\ (last_packet # -1 \/ is_eof => eof_seq_no # NoSeq) /\ Last' = Last
  BY <1>0, <1>2 DEF ClientInv, Last
<1>4. is_eof' => eof_seq_no # NoSeq /\ EofWritten
  BY <1>0, <1>2, <1>3, EofAcked
<1>5. Grows
  BY <1>2, Numbers DEF Grows
<1>6. FlightInv'
  <2>1. cliQ \in CliQueues(Acked')
    BY <1>5, Lifted
  <2>2. cliQ' \in CliQueues(Acked')
    BY <1>0, <1>1, <1>2, <2>1, QueueSteps DEF CliQueues
  <2> QED
    BY <1>2, <1>5, <2>2, Lifted DEF FlightInv
<1>7. ch' \in Channels /\ (pc' = "recv" => ch' <= Last')
  BY <1>0, <1>2, <1>3, ConstantFacts DEF Channels
<1>8. pc' = "send" => ch' = 0 /\ ~is_eof' /\ last_packet' = -1
  BY <1>0, <1>2, <1>3, ConstantFacts
<1>9. KeptInv'
  <2>1. \A i \in Channels : ~(i < 0)
    BY ConstantFacts
  <2> QED
    BY <1>2, <1>3, <1>5, <1>8, <2>1, Lifted DEF KeptInv
<1>10. Scalars'
  <2>1. is_eof' \in BOOLEAN /\ pc' \in {"send", "recv", "fin"}
    BY <1>0, <1>2 DEF Scalars
  <2>2. relay_addr' \in [Channels -> Channels]
    BY <1>0, <1>2 DEF Scalars
  <2> QED
    BY <1>0, <1>2, <1>7, <2>1, <2>2 DEF Scalars
<1>11. ClientInv'
  BY <1>0, <1>2, <1>3, <1>4, <1>7, <1>8 DEF ClientInv
<1>12. ReadyInv' /\ OpenInv' /\ NoCorruption' /\ (is_eof' => EofWritten')
  BY <1>0, <1>2, <1>4 DEF ReadyInv, OpenInv, NoCorruption, EofWritten, Written
<1> QED
  BY <1>6, <1>9, <1>10, <1>11, <1>12, TypesFromFlight DEF TransferInv, KeptInv

(* The client ends; its sockets are closed with what they hold. *)
LEMMA RecvFinAckStep == TransferInv /\ RecvFinAck => TransferInv'
<1> SUFFICES ASSUME TransferInv, RecvFinAck PROVE TransferInv'
  OBVIOUS
<1>0. Scalars /\ ClientInv /\ ReadyInv /\ OpenInv /\ NoCorruption /\ (is_eof => EofWritten)
  BY Numbers DEF TransferInv
<1>1. /\ pc = "fin_wait" /\ pc' = "ended" /\ cliQ' = [i \in Channels |-> <<>>]
      /\ UNCHANGED <<late, length, pos, ch, seq_no, eof_seq_no, is_eof, last_packet, tmp,
                     relay_addr, listenQ, serverQ, ackQ, relay, ready, cli_addr, is_last, out>>
  BY DEF RecvFinAck, relays
<1>2. Grows
  BY <1>1, Numbers DEF Grows
<1>3. FlightInv'
  BY <1>1, <1>2, Lifted DEF FlightInv, CliQueues
<1>4. KeptInv'
  BY <1>1, <1>2, Lifted DEF KeptInv, Last
<1>5. Scalars' /\ ClientInv'
  BY <1>0, <1>1 DEF Scalars, ClientInv, Last
<1>6. ReadyInv' /\ OpenInv' /\ NoCorruption' /\ (is_eof' => EofWritten')
  BY <1>0, <1>1 DEF ReadyInv, OpenInv, NoCorruption, EofWritten, Written
<1> QED
  BY <1>3, <1>4, <1>5, <1>6, TypesFromFlight DEF TransferInv, KeptInv

-----------------------------------------------------------------------------
(* The relays and the server. *)

(* They leave the client's state alone. *)
LEMMA ClientAside ==
    ASSUME TransferInv, Grows, UNCHANGED <<length, client>>
    PROVE  KeptInv' /\ ClientInv' /\ (is_eof' => EofWritten')
<1>0. UNCHANGED <<length, pc, pos, ch, seq_no, eof_seq_no, is_eof, last_packet, tmp, relay_addr>>
  BY DEF client
<1>1. KeptInv'
  BY <1>0, Lifted DEF KeptInv, Last
<1>2. ClientInv'
  BY <1>0 DEF TransferInv, ClientInv, Last
<1>3. ASSUME NEW i \in Channels, Written(tmp[i]) PROVE Written(tmp[i])'
  <2>1. /\ tmp[i].seq_no \in Nat /\ tmp[i].size \in Nat
        /\ tmp[i].size > 0 => tmp[i].seq_no + tmp[i].size <= seq_no
    BY ConstantFacts DEF TransferInv, KeptInv, Chunks, Packet, DataOK
  <2>2. \A k \in tmp[i].seq_no .. tmp[i].seq_no + tmp[i].size - 1 : k \in 0 .. length - 1
    BY <2>1, Numbers
  <2> QED
    BY <1>0, <1>3, <2>2 DEF Written, Grows
<1>4. is_eof' => EofWritten'
  BY <1>0, <1>3 DEF TransferInv, EofWritten
<1> QED
  BY <1>1, <1>2, <1>4

(* A step of the relays writes nothing. *)
LEMMA RelayGrows ==
    ASSUME TransferInv, UNCHANGED <<length, client, out>>
    PROVE  Grows /\ NoCorruption'
BY Numbers DEF Grows, client, TransferInv, NoCorruption

(* select reports the sockets that hold something. *)
LEMMA SelectStep == TransferInv /\ Select => TransferInv'
<1> SUFFICES ASSUME TransferInv, Select PROVE TransferInv'
  OBVIOUS
<1>1. /\ ready' = {i \in Channels : listenQ[i] # <<>>} \cup (IF ackQ # <<>> THEN {ServerFd} ELSE {})
      /\ UNCHANGED <<late, length, client, listenQ, serverQ, ackQ, cliQ, relay, cli_addr, is_last, out>>
  BY DEF Select
<1>2. Grows /\ NoCorruption'
  BY <1>1, RelayGrows
<1>3. FlightInv'
  BY <1>1, <1>2, Lifted DEF FlightInv
<1>4. ReadyInv' /\ OpenInv'
  BY <1>1, ConstantFacts DEF Select, ReadyInv, OpenInv
<1>5. Scalars'
  BY <1>1, Numbers DEF Scalars, client
<1> QED
  BY <1>1, <1>2, <1>3, <1>4, <1>5, ClientAside, TypesFromFlight DEF TransferInv, KeptInv

(* An ACK that is passed on is still the ACK of a written packet. *)
LEMMA RelayAckStep ==
    ASSUME TransferInv, NEW relay_no \in Channels, RelayAck(relay_no)
    PROVE  TransferInv'
<1>0. /\ Scalars /\ ReadyInv /\ ServerFd \in ready /\ ackQ # <<>> /\ ackQ \in Seq(Acked)
      /\ cliQ \in CliQueues(Acked)
  BY Numbers DEF TransferInv, FlightInv, ReadyInv, RelayAck, Serves
<1> PICK ack \in Acked : ack = Head(ackQ)
  BY <1>0
<1>1. /\ Served(ServerFd, ack.is_last)
      /\ cliQ' = IF pc = "ended" THEN cliQ
                 ELSE [cliQ EXCEPT ![cli_addr] = Append(cliQ[cli_addr], [via |-> relay_no, pkt |-> ack])]
      /\ ackQ' = IF relay' = "open" THEN Tail(ackQ) ELSE <<>>
      /\ listenQ' = IF relay' = "open" THEN listenQ ELSE [i \in Channels |-> <<>>]
      /\ UNCHANGED <<late, length, client, serverQ, cli_addr, out>>
  BY DEF RelayAck
<1>2. Grows /\ NoCorruption'
  BY <1>1, RelayGrows
<1>3. ack \in Packet /\ ack.is_last \in BOOLEAN
  BY DEF Acked, Sendable, Chunks, Packet
<1>4. /\ ready' = ready \ {ServerFd} /\ is_last' = ack.is_last
      /\ relay' = IF ack.is_last /\ ready = {ServerFd} THEN "closed" ELSE relay
  BY <1>1 DEF Served
<1>5. FlightInv'
  <2>1. ack \in Acked'
    BY <1>2, PacketsGrow DEF TransferInv
  <2>2. cliQ' \in CliQueues(Acked')
    <3>1. [via |-> relay_no, pkt |-> ack] \in [via : Channels, pkt : Acked']
      BY <2>1
    <3> QED
      BY <1>0, <1>1, <1>2, <3>1, Lifted, QueueSteps DEF CliQueues, Scalars
  <2>3. ackQ' \in Seq(Acked')
    BY <1>0, <1>1, <1>2, Lifted
  <2>4. listenQ' \in ListenQueues(Sendable')
    BY <1>1, <1>2, Lifted, EmptyQueues
  <2> QED
    BY <1>1, <1>2, <2>2, <2>3, <2>4, Lifted DEF FlightInv
<1>6. ReadyInv'
  <2>1. CASE relay' = "open"
    BY <1>0, <1>1, <1>4, <2>1, ConstantFacts DEF ReadyInv
  <2>2. CASE relay' # "open" /\ ready = {ServerFd}
    BY <1>4, <2>2 DEF ReadyInv
  <2>3. CASE relay' # "open" /\ ready # {ServerFd}
    BY <1>0, <1>4, <2>3 DEF TransferInv, OpenInv
  <2> QED
    BY <2>1, <2>2, <2>3
<1>7. Scalars'
  BY <1>0, <1>1, <1>3, <1>4 DEF Scalars, client
<1>8. OpenInv'
  BY <1>4 DEF TransferInv, OpenInv
<1> QED
  BY <1>1, <1>2, <1>5, <1>6, <1>7, <1>8, ClientAside, TypesFromFlight DEF TransferInv, KeptInv

(* A packet is dropped or passed on; what is read for cli_addr is there. *)
LEMMA TakesStep ==
    ASSUME TransferInv, NEW i \in Channels, NEW last \in BOOLEAN, Takes(i, last),
           serverQ' \in {serverQ, Append(serverQ, Head(listenQ[i]).pkt)}
    PROVE  TransferInv'
<1>0. /\ Scalars /\ ReadyInv /\ i \in ready /\ listenQ[i] # <<>>
      /\ listenQ \in ListenQueues(Sendable)
  BY Numbers DEF TransferInv, FlightInv, ReadyInv, Takes, Serves
<1>1. Head(listenQ[i]) \in [from : Channels, pkt : Sendable]
  BY <1>0, QueueSteps DEF ListenQueues
<1> PICK m \in [from : Channels, pkt : Sendable] : m = Head(listenQ[i])
  BY <1>1
<1>2. /\ ready' = ready \ {i} /\ is_last' = last
      /\ relay' = IF last /\ ready = {i} THEN "closed" ELSE relay
      /\ cli_addr' = m.from
      /\ listenQ' = IF relay' = "open" THEN [listenQ EXCEPT ![i] = Tail(listenQ[i])]
                                       ELSE [r \in Channels |-> <<>>]
      /\ ackQ' = IF relay' = "open" THEN ackQ ELSE <<>>
      /\ UNCHANGED <<late, length, client, cliQ, out>>
  BY DEF Takes, Served
<1>3. Grows /\ NoCorruption'
  BY <1>2, RelayGrows
<1>4. FlightInv'
  <2>1. m.pkt \in Sendable'
    BY <1>3, PacketsGrow DEF TransferInv
  <2>2. serverQ' \in Seq(Sendable')
    BY <1>3, <2>1, Lifted
  <2>3. listenQ' \in ListenQueues(Sendable')
    <3>1. listenQ \in ListenQueues(Sendable')
      BY <1>3, Lifted
    <3>2. [listenQ EXCEPT ![i] = Tail(listenQ[i])] \in ListenQueues(Sendable')
      BY <1>0, <3>1, QueueSteps DEF ListenQueues
    <3> QED
      BY <1>2, <3>2, EmptyQueues
  <2> QED
    BY <1>2, <1>3, <2>2, <2>3, Lifted DEF FlightInv
<1>5. ReadyInv'
  <2>1. CASE relay' = "open"
    BY <1>0, <1>2, <2>1, ConstantFacts DEF ReadyInv, ListenQueues
  <2>2. CASE relay' # "open" /\ ready = {i}
    BY <1>2, <2>2 DEF ReadyInv
  <2>3. CASE relay' # "open" /\ ready # {i}
    BY <1>0, <1>2, <2>3 DEF TransferInv, OpenInv
  <2> QED
    BY <2>1, <2>2, <2>3
<1>6. Scalars'
  <2>1. cli_addr' \in Channels /\ relay' \in {"open", "closed"}
    BY <1>0, <1>2 DEF Scalars
  <2> QED
    BY <1>0, <1>2, <2>1 DEF Scalars, client
<1>7. OpenInv'
  BY <1>2 DEF TransferInv, OpenInv
<1> QED
  BY <1>2, <1>3, <1>4, <1>5, <1>6, <1>7, ClientAside, TypesFromFlight DEF TransferInv, KeptInv

(* The relay's loop. *)
LEMMA RelayStep == TransferInv /\ RelayNext => TransferInv'
<1> SUFFICES ASSUME TransferInv, RelayNext PROVE TransferInv'
  OBVIOUS
<1>1. CASE Select
  BY <1>1, SelectStep
<1>2. ASSUME NEW i \in Channels, RelayAck(i) PROVE TransferInv'
  BY <1>2, RelayAckStep
<1>3. ASSUME NEW i \in Channels, RelayDrop(i) PROVE TransferInv'
  BY <1>3, TakesStep, Numbers DEF RelayDrop, Scalars
<1>4. ASSUME NEW i \in Channels, RelayForward(i) PROVE TransferInv'
  <2>1. Head(listenQ[i]) \in [from : Channels, pkt : Sendable]
    BY <1>4, QueueSteps DEF RelayForward, TransferInv, FlightInv, ReadyInv, ListenQueues
  <2>2. Head(listenQ[i]).pkt.is_last \in BOOLEAN
    BY <2>1 DEF Sendable, Chunks, Packet
  <2> QED
    BY <1>4, <2>2, TakesStep DEF RelayForward
<1> QED
  BY <1>1, <1>2, <1>3, <1>4 DEF RelayNext

(* The server writes a packet before it acknowledges it. *)
LEMMA ServerStep == TransferInv /\ ServerReceives => TransferInv'
<1> SUFFICES ASSUME TransferInv, ServerReceives PROVE TransferInv'
  OBVIOUS
<1>0. Scalars /\ ReadyInv /\ NoCorruption /\ serverQ \in Seq(Sendable) /\ serverQ # <<>>
  BY Numbers DEF TransferInv, FlightInv, ServerReceives
<1> PICK p \in Sendable : p = Head(serverQ)
  BY <1>0
<1>1. /\ out' = IF p.is_last THEN out ELSE fwrite(p)
      /\ ackQ' = IF relay = "open" THEN Append(ackQ, p) ELSE ackQ
      /\ serverQ' = Tail(serverQ)
      /\ UNCHANGED <<late, length, client, listenQ, cliQ, relay, ready, cli_addr, is_last>>
  BY DEF ServerReceives, relays
<1>2. /\ p \in Chunks /\ p.seq_no \in Nat /\ p.size \in Nat /\ (p.is_last => p.size = 0)
  BY ConstantFacts DEF Sendable, Chunks, Packet
<1>3. /\ fwrite(p) \in [0 .. length - 1 -> Nat \cup {Unwritten}]
      /\ \A k \in p.seq_no .. p.seq_no + p.size - 1 : fwrite(p)[k] = k /\ k \in Nat
      /\ \A k \in 0 .. length - 1 : fwrite(p)[k] \in {k, out[k]}
  BY <1>2, Numbers, FwriteFacts DEF TransferInv
<1>4. /\ out' \in [0 .. length - 1 -> Nat \cup {Unwritten}]
      /\ \A k \in 0 .. length - 1 : out'[k] \in {k, out[k]}
      /\ length \in Nat /\ DOMAIN out = 0 .. length - 1 /\ DOMAIN out' = 0 .. length - 1
  BY <1>0, <1>1, <1>3, Numbers DEF Scalars
<1>5. Written(p)'
  <2>1. CASE p.is_last
    BY <1>2, <2>1 DEF Written
  <2>2. CASE ~p.is_last
    BY <1>1, <1>3, <2>2 DEF Written, Unwritten
  <2> QED
    BY <2>1, <2>2
<1>6. NoCorruption'
  BY <1>0, <1>4 DEF NoCorruption
<1>7. Grows
  BY <1>1, <1>4, Numbers DEF Grows, client, Unwritten
<1>8. FlightInv'
  <2>1. p \in Acked'
    BY <1>5, <1>7, PacketsGrow DEF TransferInv, Acked
  <2>2. ackQ' \in Seq(Acked') /\ serverQ' \in Seq(Sendable')
    BY <1>0, <1>1, <1>7, <2>1, Lifted
  <2> QED
    BY <1>1, <1>7, <2>2, Lifted DEF FlightInv
<1>9. ReadyInv' /\ OpenInv'
  BY <1>0, <1>1 DEF ReadyInv, TransferInv, OpenInv, FlightInv
<1>10. Scalars'
  BY <1>0, <1>1, <1>4 DEF Scalars, client
<1> QED
  BY <1>1, <1>6, <1>7, <1>8, <1>9, <1>10, ClientAside, TypesFromFlight DEF TransferInv, KeptInv

-----------------------------------------------------------------------------

(* Every step of the three processes keeps TransferInv. *)
LEMMA TransferNext == TransferInv /\ [Next]_vars => TransferInv'
<1>1. ASSUME TransferInv, UNCHANGED vars PROVE TransferInv'
  <2>1. /\ UNCHANGED <<late, length, client, listenQ, serverQ, ackQ, cliQ, relay, ready, cli_addr,
                       is_last, out>>
    BY <1>1 DEF vars, relays
  <2>2. Grows /\ NoCorruption'
    BY <1>1, <2>1, RelayGrows
  <2>3. FlightInv'
    BY <1>1, <2>1, <2>2, Lifted DEF FlightInv
  <2>4. Scalars' /\ ReadyInv' /\ OpenInv'
    BY <1>1, <2>1, Numbers DEF TransferInv, Scalars, ReadyInv, OpenInv, client
  <2> QED
    BY <1>1, <2>1, <2>2, <2>3, <2>4, ClientAside, TypesFromFlight DEF TransferInv, KeptInv
<1> QED
  BY <1>1, SendChunkStep, RepeatStep, RecvAckStep, RecvFinAckStep, RelayStep, ServerStep
     DEF Next, ClientNext

(* The strengthened invariant holds in every state. *)
LEMMA TransferInvariance == Spec => []TransferInv
BY TransferInit, TransferNext, PTL DEF Spec

(* Every variable of the three programs keeps its type: no queue is read   *)
(* when it is empty and no number leaves the file.                         *)
THEOREM TypeCorrect == Spec => []TypeOK
<1>1. TransferInv => TypeOK
  BY DEF TransferInv
<1> QED
  BY <1>1, TransferInvariance, PTL

(* No byte of the output differs from the input's at its place, whichever  *)
(* packets the relays drop and in whatever order copies arrive (server.c,  *)
(* fseek and fwrite).                                                      *)
THEOREM NeverCorrupted == Spec => []NoCorruption
<1>1. TransferInv => NoCorruption
  BY DEF TransferInv
<1> QED
  BY <1>1, TransferInvariance, PTL

(* Whatever ACK is on its way, on whichever socket, its packet has been    *)
(* written by the server.                                                  *)
THEOREM AcksAreTrue == Spec => []AckMeansWritten
<1>1. TransferInv => AckMeansWritten
  <2> SUFFICES ASSUME TransferInv PROVE AckMeansWritten
    OBVIOUS
  <2>1. \A j \in DOMAIN ackQ : ackQ[j] \in Acked
    BY DEF TransferInv, FlightInv
  <2>2. ASSUME NEW i \in Channels, NEW j \in DOMAIN cliQ[i] PROVE cliQ[i][j].pkt \in Acked
    <3>1. cliQ[i] \in Seq([via : Channels, pkt : Acked])
      BY DEF TransferInv, FlightInv, CliQueues
    <3>2. cliQ[i][j] \in [via : Channels, pkt : Acked]
      BY <2>2, <3>1, SeqElements
    <3> QED
      BY <3>2
  <2> QED
    BY <2>1, <2>2 DEF Acked, AckMeansWritten
<1> QED
  BY <1>1, TransferInvariance, PTL

(* The client sends its FIN only when the chunk that met the end of the    *)
(* file is written, though it takes any packet of a channel for its ACK.   *)
THEOREM FinAfterEof == Spec => []EofDelivered
<1>1. TransferInv => EofDelivered
  BY DEF TransferInv, ClientInv, EofWritten, EofDelivered
<1> QED
  BY <1>1, TransferInvariance, PTL

=============================================================================
