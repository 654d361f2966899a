-------------------------- MODULE StopNWaitProofs --------------------------
(* Theorems about StopNWait, for every number of channels, packet size and *)
(* set of input files.                                                     *)
EXTENDS StopNWaitInv, SequenceTheorems, TLAPS

TypeInv == TypeOK /\ ProgressInv

(* What the assumptions on the constants of utils.h give.                  *)
LEMMA ConstantFacts ==
    /\ NUM_CHANNELS \in Nat /\ NUM_CHANNELS >= 1
    /\ PACKET_SIZE \in Nat /\ PACKET_SIZE >= 1
    /\ Inputs \subseteq Seq(Byte)
    /\ Channels \subseteq Int /\ 0 \in Channels
BY ConstantsAssumption DEF Channels

(* What one call of get_next_chunk reads and delivers. *)
LEMMA ChunkFacts ==
    ASSUME TypeOK
    PROVE  /\ BytesRead \in Nat /\ pos + BytesRead <= Len(file)
           /\ ChunkSize \in Nat /\ ChunkSize <= BytesRead
           /\ ChunkIsEof \in BOOLEAN
           /\ ChunkIsEof => /\ pos + BytesRead = Len(file)
                            /\ ChunkSize >= BytesRead - 1
           /\ ~ChunkIsEof => ChunkSize = BytesRead /\ ChunkSize >= 1
           /\ pos = Len(file) => ChunkIsEof /\ BytesRead = 0 /\ ChunkSize = 0
           /\ strncpy(pos, ChunkSize) \in Seq(Byte)
           /\ Len(strncpy(pos, ChunkSize)) = ChunkSize
<1> file \in Seq(Byte) /\ pos \in 0 .. Len(file) /\ Len(file) \in Nat
  BY DEF TypeOK
<1>1. /\ BytesRead \in Nat /\ pos + BytesRead <= Len(file)
      /\ ChunkSize \in Nat /\ ChunkSize <= BytesRead
      /\ ChunkIsEof \in BOOLEAN
      /\ ChunkIsEof => /\ pos + BytesRead = Len(file)
                       /\ ChunkSize >= BytesRead - 1
      /\ ~ChunkIsEof => ChunkSize = BytesRead /\ ChunkSize >= 1
      /\ pos = Len(file) => ChunkIsEof /\ BytesRead = 0 /\ ChunkSize = 0
  BY ConstantFacts DEF BytesRead, ChunkSize, ChunkIsEof
<1>2. \A j \in 1 .. ChunkSize : file[pos + j] \in Byte
  BY <1>1
<1>3. strncpy(pos, ChunkSize) \in [1 .. ChunkSize -> Byte]
  <2>1. \A j \in 1 .. ChunkSize :
          (IF \E m \in 1 .. j : file[pos + m] = 0 THEN 0 ELSE file[pos + j])
             \in Byte
    <3>1. 0 \in Byte BY DEF Byte
    <3> QED BY <1>2, <3>1, Zenon
  <2> QED BY <2>1, Zenon DEF strncpy
<1>4. strncpy(pos, ChunkSize) \in Seq(Byte) /\ Len(strncpy(pos, ChunkSize)) = ChunkSize
  BY <1>1, <1>3
<1> QED BY <1>1, <1>4

(* The initial values of client.c and server.c have their types.           *)
LEMMA TypeInit == Init => TypeInv
<1> SUFFICES ASSUME Init PROVE TypeInv OBVIOUS
<1> USE ConstantFacts
<1>1. file \in Seq(Byte) /\ Len(file) \in Nat BY DEF Init
<1>2. tmp \in [Channels -> Packet]
  BY DEF Init, Packet
<1>3. c2s \in [Channels -> Seq(Packet)] /\ s2c \in [Channels -> Seq(Ack)]
  BY DEF Init
<1>4. out \in [0 .. Len(file) - 1 -> Byte \cup {Unwritten}]
  BY <1>1 DEF Init
<1>5. /\ pos \in 0 .. Len(file) /\ pc = "connect" /\ ch \in Channels
      /\ seq_no \in Nat /\ eof_seq_no = NoSeq /\ is_eof = FALSE
      /\ payload_size \in Nat /\ last_packet = -1
      /\ connected \in 0 .. NUM_CHANNELS /\ accepted \in 0 .. NUM_CHANNELS
      /\ srv = "accept" /\ ready = {} /\ is_last = FALSE
  BY <1>1 DEF Init
<1>6. TypeOK
  BY <1>1, <1>2, <1>3, <1>4, <1>5, Zenon DEF TypeOK
<1>7. ProgressInv
  BY <1>1 DEF Init, ProgressInv
<1> QED BY <1>6, <1>7 DEF TypeInv

(* A channel stays a sequence over S when an element of S is sent on it or *)
(* its oldest element is received.                                         *)
LEMMA ChannelFacts ==
    ASSUME NEW S, NEW f \in [Channels -> Seq(S)], NEW i \in Channels
    PROVE  /\ \A e \in S : [f EXCEPT ![i] = Append(f[i], e)] \in [Channels -> Seq(S)]
           /\ f[i] # <<>> => /\ [f EXCEPT ![i] = Tail(f[i])] \in [Channels -> Seq(S)]
                             /\ Head(f[i]) \in S
<1>1. f[i] \in Seq(S) OBVIOUS
<1>2. \A e \in S : Append(f[i], e) \in Seq(S) BY <1>1
<1>3. f[i] # <<>> => Tail(f[i]) \in Seq(S) /\ Head(f[i]) \in S BY <1>1
<1> QED BY <1>2, <1>3

(* A write() of the client leaves a sequence of packets on the channel.    *)
LEMMA NewPacket ==
    ASSUME TypeOK, NEW i \in Channels, NEW p \in Packet,
           c2s' = [c2s EXCEPT ![i] = Append(@, p)]
    PROVE  c2s' \in [Channels -> Seq(Packet)]
BY ChannelFacts DEF TypeOK

(* A write() of the server leaves a sequence of ACKs on the channel.       *)
LEMMA NewAck ==
    ASSUME TypeOK, NEW i \in Channels, NEW n \in Nat,
           s2c' = [s2c EXCEPT ![i] = Append(@, [seq_no |-> n])]
    PROVE  s2c' \in [Channels -> Seq(Ack)]
<1>1. [seq_no |-> n] \in Ack BY DEF Ack
<1> QED BY <1>1, ChannelFacts DEF TypeOK

(* The server reads a packet; packets remain.                              *)
LEMMA PacketServed ==
    ASSUME TypeOK, NEW i \in Channels, c2s[i] # <<>>,
           c2s' = [c2s EXCEPT ![i] = Tail(@)]
    PROVE  Head(c2s[i]) \in Packet /\ c2s' \in [Channels -> Seq(Packet)]
BY ChannelFacts DEF TypeOK

(* The client reads an ACK; ACKs remain.                                   *)
LEMMA AckReceived ==
    ASSUME TypeOK, NEW i \in Channels, s2c[i] # <<>>,
           s2c' = [s2c EXCEPT ![i] = Tail(@)]
    PROVE  Head(s2c[i]) \in Ack /\ s2c' \in [Channels -> Seq(Ack)]
BY ChannelFacts DEF TypeOK

(* Writing a well-formed data packet leaves bytes in output.txt.           *)
LEMMA FwriteFacts ==
    ASSUME TypeOK, NEW p \in Packet
    PROVE  (IF IsFin(p) THEN out ELSE fwrite(p))
              \in [0 .. Len(file) - 1 -> Byte \cup {Unwritten}]
<1> DEFINE D == 0 .. Len(file) - 1
<1>0. out \in [D -> Byte \cup {Unwritten}] /\ DOMAIN out = D BY DEF TypeOK
<1>1. CASE IsFin(p) BY <1>0, <1>1
<1>2. CASE ~IsFin(p)
  <2>1. /\ p.seq_no \in Nat /\ p.size \in Nat
        /\ p.data \in Seq(Byte) /\ Len(p.data) = p.size
    BY <1>2 DEF Packet, IsFin
  <2>2. \A k \in D : k \in p.seq_no .. p.seq_no + p.size - 1 =>
                        p.data[k - p.seq_no + 1] \in Byte
    BY <2>1
  <2>3. fwrite(p) \in [D -> Byte \cup {Unwritten}]
    BY <1>0, <2>2, Zenon DEF fwrite
  <2> QED BY <1>2, <2>3
<1> QED BY <1>1, <1>2

(* Every step of both programs keeps the types and the counters.           *)
LEMMA TypeNext == TypeInv /\ [Next]_vars => TypeInv'
<1> SUFFICES ASSUME TypeInv, [Next]_vars PROVE TypeInv' OBVIOUS
<1> USE ConstantFacts
<1>0. file \in Seq(Byte) /\ Len(file) \in Nat BY DEF TypeInv, TypeOK
<1>1. CASE Connect
  BY <1>1 DEF Connect, TypeInv, TypeOK, ProgressInv, server
<1>2. CASE SendChunk
  <2> DEFINE pkt == [seq_no |-> seq_no, size |-> ChunkSize, is_last |-> FALSE,
                     data |-> strncpy(pos, ChunkSize)]
  <2> USE <1>2
  <2>0. TypeOK /\ ProgressInv BY DEF TypeInv
  <2>1. pkt \in Packet
    BY <2>0, ChunkFacts DEF Packet, TypeOK
  <2>2. /\ tmp' = [tmp EXCEPT ![ch] = pkt]
        /\ c2s' = [c2s EXCEPT ![ch] = Append(@, pkt)]
        /\ ch' \in {0, ch + 1} /\ (ch = NUM_CHANNELS - 1 => ch' = 0)
        /\ pc' \in {"send", "recv"}
        /\ pc = "send" /\ pos' = pos + BytesRead /\ payload_size' = ChunkSize
        /\ seq_no' = seq_no + ChunkSize
        /\ eof_seq_no' \in {seq_no, eof_seq_no} /\ last_packet' \in {ch, last_packet}
    BY DEF SendChunk
  <2>3. ch \in Channels /\ ch' \in Channels
    BY <2>0, <2>2 DEF TypeOK, Channels
  <2>4. c2s' \in [Channels -> Seq(Packet)] /\ tmp' \in [Channels -> Packet]
    <3> HIDE DEF pkt
    <3> QED BY <2>0, <2>1, <2>2, <2>3, NewPacket DEF TypeOK
  <2>5. \A i \in Channels : ~tmp'[i].is_last
    BY <2>0, <2>2, <2>3 DEF TypeOK, ProgressInv
  <2>6. /\ pos' \in 0 .. Len(file) /\ seq_no' \in Nat /\ payload_size' \in Nat
        /\ eof_seq_no' \in Nat \cup {NoSeq}
        /\ last_packet' \in Channels \cup {-1}
    <3>1. /\ pos \in Nat /\ seq_no \in Nat /\ eof_seq_no \in Nat \cup {NoSeq}
          /\ last_packet \in Channels \cup {-1}
      BY <2>0 DEF TypeOK
    <3> HIDE DEF pkt
    <3>2. pos' \in 0 .. Len(file) /\ seq_no' \in Nat /\ payload_size' \in Nat
      BY <1>0, <2>0, <2>2, <3>1, ChunkFacts
    <3> QED BY <2>2, <2>3, <3>1, <3>2
  <2>7. seq_no' <= pos' /\ (pos' = seq_no' \/ pos' = Len(file))
    <3>1. /\ pos \in Nat /\ Len(file) \in Nat /\ seq_no \in Nat /\ pos <= Len(file)
          /\ seq_no <= pos /\ (pos = seq_no \/ pos = Len(file))
      BY <1>0, <2>0, <2>2 DEF TypeOK, ProgressInv
    <3> HIDE DEF pkt
    <3> QED BY <2>0, <2>2, <3>1, ChunkFacts
  <2>8. UNCHANGED <<file, is_eof, connected, s2c, accepted, out, srv, ready,
                    is_last>>
    BY DEF SendChunk, server
  <2>9. TypeOK'
    BY <2>0, <2>2, <2>3, <2>4, <2>6, <2>8 DEF TypeOK
  <2>10. ProgressInv'
    BY <2>0, <2>2, <2>5, <2>7, <2>8 DEF ProgressInv
  <2> QED BY <2>9, <2>10 DEF TypeInv
<1>3. CASE Retransmit
  BY <1>3 DEF Retransmit, TypeInv, TypeOK, ProgressInv, server, client
<1>4. CASE RecvAck
  <2> USE <1>4
  <2>0. TypeOK /\ ProgressInv BY DEF TypeInv
  <2>1. /\ pc = "recv" /\ s2c[ch] # <<>>
        /\ s2c' = [s2c EXCEPT ![ch] = Tail(@)]
        /\ ch' = 0 \/ (ch < Last /\ ch' = ch + 1)
        /\ pc' \in {"recv", "send", "fin"}
        /\ UNCHANGED <<file, pos, seq_no, eof_seq_no, payload_size, last_packet,
                       tmp, connected, c2s, accepted, out, srv, ready, is_last>>
    BY DEF RecvAck, server
  <2>2. ch \in Channels /\ ch' \in Channels
    BY <2>0, <2>1 DEF TypeOK, Channels, Last
  <2>3. s2c' \in [Channels -> Seq(Ack)]
    BY <2>0, <2>1, <2>2, AckReceived
  <2>4. is_eof' \in BOOLEAN
    BY <2>0 DEF RecvAck, AcksEof, TypeOK
  <2>5. TypeOK'
    BY <2>0, <2>1, <2>2, <2>3, <2>4 DEF TypeOK
  <2>6. ProgressInv'
    BY <2>0, <2>1 DEF ProgressInv
  <2> QED BY <2>5, <2>6 DEF TypeInv
<1>5. CASE SendFin
  <2> DEFINE fin == [seq_no |-> seq_no, size |-> payload_size, is_last |-> TRUE,
                     data |-> <<>>]
  <2> USE <1>5
  <2>0. TypeOK /\ ProgressInv BY DEF TypeInv
  <2>1. c2s' = [c2s EXCEPT ![0] = Append(@, fin)]
    BY DEF SendFin
  <2>2. fin \in Packet
    BY <2>0 DEF SendFin, Packet, TypeOK, ProgressInv
  <2>3. c2s' \in [Channels -> Seq(Packet)]
    <3> HIDE DEF fin
    <3> QED BY <2>0, <2>1, <2>2, NewPacket
  <2>4. TypeOK'
    BY <2>0, <2>3 DEF SendFin, TypeOK, server
  <2>5. ProgressInv'
    BY <2>0 DEF SendFin, ProgressInv, TypeOK, server
  <2> QED BY <2>4, <2>5 DEF TypeInv
<1>6. CASE RetransmitFin
  <2> DEFINE fin == [seq_no |-> seq_no - payload_size, size |-> payload_size, is_last |-> TRUE,
                     data |-> <<>>]
  <2> USE <1>6
  <2>0. TypeOK /\ ProgressInv BY DEF TypeInv
  <2>1. c2s' = [c2s EXCEPT ![0] = Append(@, fin)]
    BY DEF RetransmitFin
  <2>2. fin \in Packet
    BY <2>0 DEF RetransmitFin, Packet, TypeOK, ProgressInv
  <2>3. c2s' \in [Channels -> Seq(Packet)]
    <3> HIDE DEF fin
    <3> QED BY <2>0, <2>1, <2>2, NewPacket
  <2>4. TypeOK'
    BY <2>0, <2>3 DEF RetransmitFin, TypeOK, server, client
  <2>5. ProgressInv'
    BY <2>0 DEF RetransmitFin, ProgressInv, TypeOK, server, client
  <2> QED BY <2>4, <2>5 DEF TypeInv
<1>7. CASE RecvFinAck
  BY <1>7 DEF RecvFinAck, TypeInv, TypeOK, ProgressInv, server
<1>8. CASE Accept
  BY <1>8 DEF Accept, TypeInv, TypeOK, ProgressInv, client
<1>9. CASE Select
  BY <1>9 DEF Select, TypeInv, TypeOK, ProgressInv, client
<1>10. CASE Finish
  BY <1>10 DEF Finish, TypeInv, TypeOK, ProgressInv, client
<1>11. ASSUME NEW i \in Channels, DropPacket(i) PROVE TypeInv'
  <2> USE <1>11
  <2>1. c2s' \in [Channels -> Seq(Packet)]
    BY PacketServed DEF TypeInv, DropPacket
  <2> QED BY <2>1 DEF DropPacket, TypeInv, TypeOK, ProgressInv, client
<1>12. ASSUME NEW i \in Channels, ServePacket(i) PROVE TypeInv'
  <2> DEFINE p == Head(c2s[i])
  <2> USE <1>12
  <2>0. TypeOK /\ ProgressInv BY DEF TypeInv
  <2>1. /\ c2s[i] # <<>> /\ c2s' = [c2s EXCEPT ![i] = Tail(@)]
        /\ out' = IF IsFin(p) THEN out ELSE fwrite(p)
        /\ s2c' = [s2c EXCEPT ![i] = Append(@, [seq_no |-> p.seq_no])]
        /\ is_last' = (is_last \/ IsFin(p))
        /\ ready' = ready \ {i}
        /\ UNCHANGED <<file, pos, pc, ch, seq_no, eof_seq_no, is_eof,
                       payload_size, last_packet, tmp, connected, accepted, srv>>
    BY DEF ServePacket, client
  <2>2. p \in Packet /\ c2s' \in [Channels -> Seq(Packet)]
    BY <2>0, <2>1, PacketServed
  <2>3. s2c' \in [Channels -> Seq(Ack)]
    <3>1. p.seq_no \in Nat BY <2>2 DEF Packet
    <3> HIDE DEF p
    <3> QED BY <2>0, <2>1, <3>1, NewAck
  <2>4. out' \in [0 .. Len(file) - 1 -> Byte \cup {Unwritten}]
    BY <2>0, <2>1, <2>2, FwriteFacts
  <2>5. is_last' \in BOOLEAN
    BY <2>0, <2>1 DEF TypeOK
  <2>6. TypeOK'
    BY <2>0, <2>1, <2>2, <2>3, <2>4, <2>5 DEF TypeOK
  <2>7. ProgressInv'
    BY <2>0, <2>1 DEF ProgressInv
  <2> QED BY <2>6, <2>7 DEF TypeInv
<1>13. ASSUME NEW i \in Channels, ServeClosed(i) PROVE TypeInv'
  <2> USE <1>13
  <2>1. s2c' \in [Channels -> Seq(Ack)]
    <3>1. <<[seq_no |-> 0]>> \in Seq(Ack) BY DEF Ack
    <3> QED BY <3>1 DEF ServeClosed, TypeInv, TypeOK
  <2> QED BY <2>1 DEF ServeClosed, TypeInv, TypeOK, ProgressInv, client
<1>14. ASSUME NEW i \in Channels, ServeReset(i) PROVE TypeInv'
  BY <1>14 DEF ServeReset, TypeInv, TypeOK, ProgressInv, client
<1>15. CASE UNCHANGED vars
  BY <1>15 DEF vars, TypeInv, TypeOK, ProgressInv, client, server
<1> QED
  BY <1>1, <1>2, <1>3, <1>4, <1>5, <1>6, <1>7, <1>8, <1>9, <1>10, <1>11, <1>12,
     <1>13, <1>14, <1>15 DEF Next, ClientNext, ServerNext, Terminated

(* Types and counters hold in every state.                                 *)
LEMMA TypeInvariance == Spec => []TypeInv
BY TypeInit, TypeNext, PTL DEF Spec

(* Every variable of client.c and server.c keeps its type, whatever is     *)
(* lost, repeated or late.                                                 *)
THEOREM TypeCorrect == Spec => []TypeOK
BY TypeInvariance, PTL DEF TypeInv
------------------------------------------------------------------------------
(* Every packet, kept for retransmission or on its way, is a slice of the  *)
(* file, and so is what output.txt holds.  strncpy() stops at a NUL, hence *)
(* the assumption that the inputs are text.                                *)

CopyInv == SliceInv /\ NoCorruption

(* Nothing is written, and no packet exists, in the beginning.             *)
LEMMA CopyInit == Init => CopyInv
<1> SUFFICES ASSUME Init PROVE CopyInv OBVIOUS
<1>1. TypeOK BY TypeInit DEF TypeInv
<1>2. \A i \in Channels : tmp[i] \in Slices
  BY <1>1 DEF Init, TypeOK, Slices
<1>3. c2s \in [Channels -> Seq(Slices)]
  BY DEF Init
<1>4. NoCorruption
  BY DEF Init, NoCorruption
<1> QED BY <1>1, <1>2, <1>3, <1>4 DEF CopyInv, SliceInv, TypeOK

(* The packet get_next_chunk and strncpy build is a slice of the file.     *)
LEMMA NewSlice ==
    ASSUME TextInputs, TypeInv, pc = "send"
    PROVE  [seq_no |-> seq_no, size |-> ChunkSize, is_last |-> FALSE,
            data |-> strncpy(pos, ChunkSize)] \in Slices
<1> DEFINE pkt == [seq_no |-> seq_no, size |-> ChunkSize, is_last |-> FALSE,
                   data |-> strncpy(pos, ChunkSize)]
<1>0. /\ TypeOK /\ ProgressInv /\ file \in Seq(Byte) /\ Len(file) \in Nat
      /\ pos \in Nat /\ seq_no \in Nat /\ seq_no <= pos
      /\ pos = seq_no \/ pos = Len(file)
  BY DEF TypeInv, TypeOK, ProgressInv
<1>1. pkt \in Packet
  BY <1>0, ChunkFacts DEF Packet
<1>2. seq_no + ChunkSize <= Len(file)
  BY <1>0, ChunkFacts
<1>3. \A j \in 1 .. ChunkSize : strncpy(pos, ChunkSize)[j] = file[seq_no + j]
  <2> SUFFICES ASSUME NEW j \in 1 .. ChunkSize
               PROVE  strncpy(pos, ChunkSize)[j] = file[seq_no + j]
    OBVIOUS
  <2>1. pos = seq_no /\ pos + ChunkSize <= Len(file)
    BY <1>0, ChunkFacts
  <2>2. \A m \in 1 .. j : file[pos + m] # 0
    <3> SUFFICES ASSUME NEW m \in 1 .. j PROVE file[pos + m] # 0 OBVIOUS
    <3>1. pos + m \in DOMAIN file BY <1>0, <2>1, ChunkFacts
    <3> QED BY <1>0, <3>1 DEF TextInputs, ProgressInv
  <2> QED BY <2>1, <2>2, Zenon DEF strncpy
<1> QED BY <1>1, <1>2, <1>3 DEF Slices

(* Writing a slice puts the file's own bytes at the file's own offsets.    *)
LEMMA FwriteSlice ==
    ASSUME TypeOK, NEW p \in Slices, ~p.is_last
    PROVE  /\ DOMAIN fwrite(p) = DOMAIN out
           /\ \A k \in DOMAIN out :
                 fwrite(p)[k] = IF k \in p.seq_no .. p.seq_no + p.size - 1
                                THEN file[k + 1] ELSE out[k]
<1>1. /\ p.seq_no \in Nat /\ p.size \in Nat
      /\ \A j \in 1 .. p.size : p.data[j] = file[p.seq_no + j]
  BY DEF Slices, Packet
<1>2. \A k \in DOMAIN out : k \in Int BY DEF TypeOK
<1>3. ASSUME NEW k \in DOMAIN out, k \in p.seq_no .. p.seq_no + p.size - 1
      PROVE  p.data[k - p.seq_no + 1] = file[k + 1]
  <2>1. k - p.seq_no + 1 \in 1 .. p.size /\ p.seq_no + (k - p.seq_no + 1) = k + 1
    BY <1>1, <1>2, <1>3
  <2> QED BY <1>1, <2>1
<1> QED BY <1>3, Zenon DEF fwrite

(* Every step keeps the packets slices of a text file.                     *)
LEMMA CopyNext ==
    ASSUME TextInputs
    PROVE  TypeInv /\ CopyInv /\ [Next]_vars => CopyInv'
<1> SUFFICES ASSUME TypeInv, CopyInv, [Next]_vars PROVE CopyInv' OBVIOUS
<1> USE ConstantFacts
<1>0. TypeOK /\ SliceInv /\ NoCorruption BY DEF TypeInv, CopyInv
<1>a. file' = file
  BY DEF Next, ClientNext, ServerNext, Terminated, Connect, SendChunk, Retransmit,
         RecvAck, SendFin, RetransmitFin, RecvFinAck, Accept, Select, Finish,
         DropPacket, ServePacket, ServeClosed, ServeReset, vars
<1>b. Slices' = Slices BY <1>a DEF Slices
<1>c. ASSUME UNCHANGED <<tmp, c2s>> PROVE SliceInv'
  BY <1>0, <1>b, <1>c DEF SliceInv
<1>d. ASSUME UNCHANGED out PROVE NoCorruption'
  BY <1>0, <1>a, <1>d DEF NoCorruption, Written
<1>e. ASSUME NEW i \in Channels, NEW q \in Slices, UNCHANGED tmp,
             c2s' = [c2s EXCEPT ![i] = Append(@, q)]
      PROVE  SliceInv'
  BY <1>0, <1>b, <1>e, ChannelFacts DEF SliceInv
<1>f. ASSUME NEW i \in Channels, c2s[i] # <<>>, UNCHANGED tmp,
             c2s' = [c2s EXCEPT ![i] = Tail(@)]
      PROVE  SliceInv' /\ Head(c2s[i]) \in Slices
  BY <1>0, <1>b, <1>f, ChannelFacts DEF SliceInv
<1>1. CASE SendChunk
  <2> DEFINE pkt == [seq_no |-> seq_no, size |-> ChunkSize, is_last |-> FALSE,
                     data |-> strncpy(pos, ChunkSize)]
  <2>1. pkt \in Slices BY <1>1, NewSlice DEF SendChunk
  <2>2. /\ tmp' = [tmp EXCEPT ![ch] = pkt]
        /\ c2s' = [c2s EXCEPT ![ch] = Append(@, pkt)]
        /\ UNCHANGED out
    BY <1>1 DEF SendChunk, server
  <2>3. SliceInv'
    <3> HIDE DEF pkt
    <3> QED BY <1>0, <1>b, <2>1, <2>2, ChannelFacts DEF SliceInv, TypeOK
  <2> QED BY <1>d, <2>2, <2>3 DEF CopyInv
<1>2. CASE Retransmit
  <2>1. ch \in Channels /\ tmp[ch] \in Slices BY <1>0 DEF TypeOK, SliceInv
  <2> QED BY <1>2, <1>d, <1>e, <2>1 DEF Retransmit, client, server, CopyInv
<1>3. CASE SendFin
  <2> DEFINE fin == [seq_no |-> seq_no, size |-> payload_size, is_last |-> TRUE,
                     data |-> <<>>]
  <2>1. fin \in Slices BY <1>0 DEF Slices, Packet, TypeOK
  <2>2. c2s' = [c2s EXCEPT ![0] = Append(@, fin)] /\ UNCHANGED <<tmp, out>>
    BY <1>3 DEF SendFin, server
  <2> QED BY <1>d, <1>e, <2>1, <2>2 DEF CopyInv
<1>4. CASE RetransmitFin
  <2> DEFINE fin == [seq_no |-> seq_no - payload_size, size |-> payload_size,
                     is_last |-> TRUE, data |-> <<>>]
  <2>1. fin \in Slices
    BY <1>4 DEF RetransmitFin, Slices, Packet, TypeInv, TypeOK, ProgressInv
  <2>2. c2s' = [c2s EXCEPT ![0] = Append(@, fin)] /\ UNCHANGED <<tmp, out>>
    BY <1>4 DEF RetransmitFin, client, server
  <2> QED BY <1>d, <1>e, <2>1, <2>2 DEF CopyInv
<1>5. ASSUME NEW i \in Channels, DropPacket(i) PROVE CopyInv'
  BY <1>5, <1>d, <1>f DEF DropPacket, client, CopyInv
<1>6. ASSUME NEW i \in Channels, ServePacket(i) PROVE CopyInv'
  <2> DEFINE p == Head(c2s[i])
  <2>1. /\ c2s[i] # <<>> /\ c2s' = [c2s EXCEPT ![i] = Tail(@)] /\ UNCHANGED tmp
        /\ out' = IF p.is_last THEN out ELSE fwrite(p)
    BY <1>6 DEF ServePacket, client, IsFin
  <2>2. SliceInv' /\ p \in Slices BY <1>f, <2>1
  <2>3. CASE p.is_last BY <1>d, <2>1, <2>2, <2>3 DEF CopyInv
  <2>4. CASE ~p.is_last
    <3>1. out' = fwrite(p) BY <2>1, <2>4
    <3>2. NoCorruption'
      <4> HIDE DEF p
      <4> QED BY <1>0, <1>a, <2>2, <2>4, <3>1, FwriteSlice
              DEF NoCorruption, Written
    <3> QED BY <2>2, <3>2 DEF CopyInv
  <2> QED BY <2>3, <2>4
<1>7. CASE UNCHANGED <<tmp, c2s, out>>
  BY <1>7, <1>c, <1>d DEF CopyInv
<1> QED
  BY <1>1, <1>2, <1>3, <1>4, <1>5, <1>6, <1>7
  DEF Next, ClientNext, ServerNext, Terminated, Connect, RecvAck, RecvFinAck,
      Accept, Select, Finish, ServeClosed, ServeReset, vars, client, server

(* Packets are slices of a text file in every state.                       *)
LEMMA CopyInvariance ==
    ASSUME TextInputs PROVE Spec => [](TypeInv /\ CopyInv)
BY TypeInit, TypeNext, CopyInit, CopyNext, PTL DEF Spec

(* What output.txt holds at an offset is what input.txt holds there, with  *)
(* any packets lost, ACKs late and retransmissions repeated.               *)
THEOREM CopyIsFaithful ==
    ASSUME TextInputs PROVE Spec => []NoCorruption
BY CopyInvariance, PTL DEF CopyInv

(* A step leaves a byte of output.txt alone or puts the file's byte there. *)
LEMMA OutStep ==
    ASSUME TypeInv, CopyInv, [Next]_vars, NEW k \in DOMAIN out
    PROVE  out'[k] \in {out[k], file[k + 1]}
<1>1. CASE UNCHANGED out BY <1>1
<1>2. ASSUME NEW i \in Channels, ServePacket(i) PROVE out'[k] \in {out[k], file[k + 1]}
  <2> DEFINE p == Head(c2s[i])
  <2>1. c2s[i] # <<>> /\ out' = IF p.is_last THEN out ELSE fwrite(p)
    BY <1>2 DEF ServePacket, IsFin
  <2>2. p \in Slices BY <2>1, ChannelFacts DEF CopyInv, SliceInv
  <2> HIDE DEF p
  <2> QED BY <2>1, <2>2, FwriteSlice DEF TypeInv
<1> QED
  BY <1>1, <1>2
  DEF Next, ClientNext, ServerNext, Terminated, Connect, SendChunk, Retransmit,
      RecvAck, SendFin, RetransmitFin, RecvFinAck, Accept, Select, Finish,
      DropPacket, ServeClosed, ServeReset, vars, client, server

(* A byte once written keeps its value: late and repeated packets are      *)
(* harmless to the file.                                                   *)
THEOREM RewritesAreIdempotent ==
    ASSUME TextInputs PROVE Spec => WrittenOnce
<1>1. TypeInv /\ CopyInv /\ [Next]_vars =>
        [\A k \in DOMAIN out : out[k] # Unwritten => out'[k] = out[k]]_vars
  <2> SUFFICES ASSUME TypeInv, CopyInv, [Next]_vars,
                      NEW k \in DOMAIN out, out[k] # Unwritten
               PROVE  out'[k] = out[k]
    BY DEF vars, server
  <2> QED BY OutStep DEF CopyInv, NoCorruption, Written
<1> QED BY <1>1, CopyInvariance, PTL DEF WrittenOnce, Spec
------------------------------------------------------------------------------
(* Delivery, when only a dropped packet makes poll() time out.             *)

(* No channel owes an ACK in the beginning.                                *)
LEMMA DeliveryInit == Init => DeliveryInv
<1> SUFFICES ASSUME Init PROVE DeliveryInv OBVIOUS
<1> USE ConstantFacts
<1>1. FlightInv BY DEF Init, FlightInv, InFlightOn
<1>2. OwedInv BY DEF Init, OwedInv, Sent
<1>3. ControlInv BY DEF Init, ControlInv, NoSeq
<1> QED BY <1>1, <1>2, <1>3 DEF DeliveryInv

(* Two sequences of at most one element: if one has an element, that is    *)
(* all, and receiving it leaves both empty.                                *)
LEMMA AtMostOne ==
    ASSUME TypeOK, NEW i \in Channels, Len(c2s[i]) + Len(s2c[i]) <= 1
    PROVE  /\ c2s[i] # <<>> => s2c[i] = <<>> /\ Tail(c2s[i]) = <<>> /\ Len(c2s[i]) = 1
           /\ s2c[i] # <<>> => c2s[i] = <<>> /\ Tail(s2c[i]) = <<>> /\ Len(s2c[i]) = 1
<1>1. c2s[i] \in Seq(Packet) /\ s2c[i] \in Seq(Ack) BY DEF TypeOK
<1>2. /\ Len(c2s[i]) \in Nat /\ (c2s[i] # <<>> => Len(c2s[i]) # 0)
      /\ Len(s2c[i]) \in Nat /\ (s2c[i] # <<>> => Len(s2c[i]) # 0)
  BY <1>1, EmptySeq, LenProperties
<1>a. PICK m \in Nat, n \in Nat : m = Len(c2s[i]) /\ n = Len(s2c[i]) /\ m + n <= 1
  BY <1>2
<1>b. (m # 0 => m = 1 /\ n = 0) /\ (n # 0 => n = 1 /\ m = 0)
  <2>1. \A x, y \in Nat : x + y <= 1 => /\ x # 0 => x = 1 /\ y = 0
                                        /\ y # 0 => y = 1 /\ x = 0
    OBVIOUS
  <2> QED BY <1>a, <2>1, Zenon
<1>3. ASSUME c2s[i] # <<>> PROVE Len(c2s[i]) = 1 /\ s2c[i] = <<>>
  <2>1. Len(c2s[i]) # 0 BY <1>2, <1>3
  <2>2. Len(c2s[i]) = 1 /\ Len(s2c[i]) = 0
    BY <1>a, <1>b, <2>1, Zenon
  <2> QED BY <1>2, <2>2
<1>4. ASSUME s2c[i] # <<>> PROVE Len(s2c[i]) = 1 /\ c2s[i] = <<>>
  <2>1. Len(s2c[i]) # 0 BY <1>2, <1>4
  <2>2. Len(s2c[i]) = 1 /\ Len(c2s[i]) = 0
    BY <1>a, <1>b, <2>1, Zenon
  <2> QED BY <1>2, <2>2
<1>5. c2s[i] # <<>> => Tail(c2s[i]) \in Seq(Packet) /\ Len(Tail(c2s[i])) = 0
  BY <1>1, <1>3, HeadTailProperties
<1>6. s2c[i] # <<>> => Tail(s2c[i]) \in Seq(Ack) /\ Len(Tail(s2c[i])) = 0
  BY <1>1, <1>4, HeadTailProperties
<1> QED BY <1>3, <1>4, <1>5, <1>6, EmptySeq

(* A byte that is written stays written.                                   *)
LEMMA WrittenStays ==
    ASSUME TypeInv, TypeInv', CopyInv, [Next]_vars, file' = file,
           NEW k, Written(k)
    PROVE  Written(k)'
<1>1. k \in DOMAIN out /\ DOMAIN out' = DOMAIN out
  BY DEF Written, TypeInv, TypeOK
<1> QED BY <1>1, OutStep DEF Written

(* An empty channel is in order whatever the client does.                  *)
LEMMA EmptyInFlight ==
    ASSUME NEW i \in Channels, c2s'[i] = <<>>, s2c'[i] = <<>>
    PROVE  InFlightOn(i)'
<1>1. Len(<<>>) = 0 OBVIOUS
<1> QED BY <1>1 DEF InFlightOn

(* The send loop puts one packet on a channel that carries nothing.        *)
LEMMA DeliverySendChunk ==
    ASSUME TypeInv, DeliveryInv, SendChunk PROVE DeliveryInv'
<1> DEFINE pkt == [seq_no |-> seq_no, size |-> ChunkSize, is_last |-> FALSE,
                   data |-> strncpy(pos, ChunkSize)]
<1> USE ConstantFacts
<1>0. TypeOK /\ ProgressInv /\ FlightInv /\ OwedInv /\ ControlInv
  BY DEF TypeInv, DeliveryInv
<1>1. /\ pc = "send" /\ tmp' = [tmp EXCEPT ![ch] = pkt]
      /\ c2s' = [c2s EXCEPT ![ch] = Append(@, pkt)]
      /\ pos' = pos + BytesRead /\ seq_no' = seq_no + ChunkSize
      /\ eof_seq_no' = IF ChunkIsEof THEN seq_no ELSE eof_seq_no
      /\ last_packet' = IF ChunkSize = 0 THEN ch ELSE last_packet
      /\ IF ChunkSize = 0 \/ ch = NUM_CHANNELS - 1
         THEN ch' = 0 /\ pc' = "recv" ELSE ch' = ch + 1 /\ pc' = "send"
      /\ UNCHANGED <<file, is_eof, s2c, out, ready, is_last>>
  BY DEF SendChunk, server
<1>2. /\ ch \in Channels /\ ch \in Nat /\ seq_no \in Nat /\ pos \in Nat
      /\ Len(file) \in Nat /\ last_packet = -1 /\ seq_no <= pos
      /\ pos = seq_no \/ pos = Len(file)
      /\ tmp \in [Channels -> Packet] /\ ready \subseteq Channels
  <2>1. ch \in Channels /\ ch \in Nat /\ ready \subseteq Channels
    BY <1>0 DEF TypeOK, Channels
  <2>2. /\ seq_no \in Nat /\ pos \in Nat /\ Len(file) \in Nat
        /\ tmp \in [Channels -> Packet]
    BY <1>0 DEF TypeOK
  <2> QED BY <1>0, <1>1, <2>1, <2>2 DEF ControlInv, ProgressInv
<1>3. ASSUME NEW i \in Channels PROVE Pending(i)' <=> i <= ch
  BY <1>1, <1>2, ChunkFacts DEF Pending, Last, Channels
<1>4. ASSUME NEW i \in Channels PROVE Pending(i) <=> i < ch
  BY <1>1 DEF Pending
<1> HIDE DEF pkt
<1>5. FlightInv'
  <2>1. ASSUME NEW i \in Channels PROVE InFlightOn(i)'
    <3>0. InFlightOn(i) BY <1>0 DEF FlightInv
    <3>1. CASE i = ch
      <4>1. c2s[i] = <<>> /\ s2c[i] = <<>>
        BY <1>2, <1>4, <3>0, <3>1 DEF InFlightOn
      <4>2. c2s'[i] = <<pkt>> /\ s2c'[i] = <<>> /\ tmp'[i] = pkt
        BY <1>0, <1>1, <1>2, <3>1, <4>1 DEF TypeOK
      <4>3. Pending(i)' BY <1>2, <1>3, <3>1
      <4>4. pc' # "finack" /\ Len(<<pkt>>) = 1 /\ Len(<<>>) = 0 /\ Head(<<pkt>>) = pkt
        BY <1>1
      <4> QED BY <4>2, <4>3, <4>4 DEF InFlightOn
    <3>2. CASE i # ch
      <4>1. c2s'[i] = c2s[i] /\ s2c'[i] = s2c[i] /\ tmp'[i] = tmp[i]
        BY <1>0, <1>1, <1>2, <3>2 DEF TypeOK
      <4>2. Pending(i)' <=> Pending(i)
        BY <1>2, <1>3, <1>4, <3>2 DEF Channels
      <4>3. \A k : Written(k)' <=> Written(k) BY <1>1 DEF Written
      <4> QED BY <1>1, <3>0, <4>1, <4>2, <4>3 DEF InFlightOn
    <3> QED BY <3>1, <3>2
  <2>2. ASSUME NEW i \in ready PROVE c2s'[i] # <<>>
    <3>1. i # ch
      BY <1>0, <1>2, <1>4, <2>2 DEF FlightInv, InFlightOn
    <3> QED BY <1>0, <1>1, <1>2, <2>2, <3>1 DEF FlightInv, TypeOK
  <2> QED BY <1>1, <2>1, <2>2 DEF FlightInv
<1>6. OwedInv'
  <2> SUFFICES ASSUME NEW k \in 0 .. Sent' - 1 PROVE Written(k)' \/ Owed(k)'
    BY DEF OwedInv
  <2>1. Sent = seq_no /\ Sent' = seq_no + ChunkSize /\ ChunkSize \in Nat
    BY <1>0, <1>1, ChunkFacts DEF Sent
  <2>2. CASE k < seq_no
    <3>1. Written(k) \/ Owed(k) BY <1>0, <1>2, <2>1, <2>2 DEF OwedInv
    <3>2. CASE Written(k) BY <1>1, <3>2 DEF Written
    <3>3. CASE Owed(k)
      <4>1. PICK i \in Channels : /\ i < ch
              /\ k \in tmp[i].seq_no .. tmp[i].seq_no + tmp[i].size - 1
        BY <1>4, <3>3 DEF Owed
      <4>2. tmp'[i] = tmp[i] BY <1>1, <1>2, <4>1
      <4>3. Pending(i)' BY <1>2, <1>3, <4>1 DEF Channels
      <4> QED BY <1>1, <4>1, <4>2, <4>3 DEF Owed
    <3> QED BY <3>1, <3>2, <3>3
  <2>3. CASE k >= seq_no
    <3>0. PICK c \in Channels : c = ch BY <1>2
    <3>1. tmp'[c] = pkt BY <1>1, <1>2, <3>0
    <3>2. k \in pkt.seq_no .. pkt.seq_no + pkt.size - 1
      BY <1>2, <2>1, <2>3 DEF pkt
    <3>3. Pending(c)' BY <1>2, <1>3, <3>0
    <3>4. pc' \in {"send", "recv"} BY <1>1
    <3> QED BY <3>1, <3>2, <3>3, <3>4 DEF Owed
  <2> QED BY <1>2, <2>2, <2>3
<1>7. ControlInv'
  <2>1. Sent' = seq_no + ChunkSize /\ Sent = seq_no
    BY <1>1 DEF Sent
  <2>2. IF eof_seq_no' = NoSeq THEN pos' = seq_no' ELSE Sent' >= Len(file) - 1
    BY <1>0, <1>1, <1>2, <2>1, ChunkFacts DEF ControlInv, NoSeq
  <2>3. last_packet' # -1 \/ is_eof' => eof_seq_no' # NoSeq
    BY <1>0, <1>1, <1>2, ChunkFacts DEF ControlInv, NoSeq
  <2>4. pc' = "recv" => ch' <= Last'
    BY <1>1, <1>2 DEF Last, Channels
  <2> QED BY <1>0, <1>1, <1>2, <2>2, <2>3, <2>4 DEF ControlInv
<1> QED BY <1>5, <1>6, <1>7 DEF DeliveryInv

(* While the server's state and the files stand still, a channel that is   *)
(* not touched stays in order, provided the client still waits for it.     *)
LEMMA InFlightStays ==
    ASSUME NEW i \in Channels, InFlightOn(i),
           c2s'[i] = c2s[i], s2c'[i] = s2c[i], tmp'[i] = tmp[i],
           Pending(i) => Pending(i)', pc' = "finack" <=> pc = "finack",
           UNCHANGED <<file, out, is_last>>
    PROVE  InFlightOn(i)'
<1>1. \A k : Written(k)' <=> Written(k) BY DEF Written
<1> QED BY <1>1 DEF InFlightOn

(* A retransmission replaces a packet the server dropped.                  *)
LEMMA DeliveryRetransmit ==
    ASSUME ~LateAcks, TypeInv, DeliveryInv, Retransmit PROVE DeliveryInv'
<1> USE ConstantFacts
<1>0. TypeOK /\ FlightInv /\ OwedInv /\ ControlInv BY DEF TypeInv, DeliveryInv
<1>1. /\ pc = "recv" /\ c2s[ch] = <<>> /\ s2c[ch] = <<>>
      /\ c2s' = [c2s EXCEPT ![ch] = Append(@, tmp[ch])]
      /\ UNCHANGED <<file, s2c, client, server>>
  BY DEF Retransmit, MayTimeOut
<1>2. UNCHANGED <<pos, pc, ch, seq_no, eof_seq_no, is_eof, payload_size,
                  last_packet, tmp, connected, out, ready, is_last>>
  BY <1>1 DEF client, server
<1>3. ch \in Channels /\ ready \subseteq Channels /\ c2s \in [Channels -> Seq(Packet)]
  BY <1>0 DEF TypeOK
<1>4. c2s'[ch] = <<tmp[ch]>> BY <1>1, <1>3
<1>5. ASSUME NEW i \in Channels PROVE Pending(i)' <=> Pending(i)
  BY <1>2 DEF Pending, Last
<1>6. FlightInv'
  <2>1. ASSUME NEW i \in Channels PROVE InFlightOn(i)'
    <3>1. CASE i = ch
      <4>1. Pending(i)' BY <1>0, <1>1, <1>3, <1>5, <3>1 DEF Pending, ControlInv, Channels
      <4>2. c2s'[i] = <<tmp'[i]>> /\ s2c'[i] = <<>> BY <1>1, <1>2, <1>4, <3>1
      <4>3. Len(<<tmp'[i]>>) = 1 /\ Len(<<>>) = 0 /\ Head(<<tmp'[i]>>) = tmp'[i]
        OBVIOUS
      <4>4. pc' # "finack" BY <1>1, <1>2
      <4> QED BY <4>1, <4>2, <4>3, <4>4 DEF InFlightOn
    <3>2. CASE i # ch
      <4>1. c2s'[i] = c2s[i] BY <1>1, <1>3, <3>2
      <4>2. InFlightOn(i) BY <1>0 DEF FlightInv
      <4> QED BY <1>1, <1>2, <1>5, <4>1, <4>2, InFlightStays
    <3> QED BY <3>1, <3>2
  <2>2. ASSUME NEW i \in ready PROVE c2s'[i] # <<>>
    BY <1>0, <1>1, <1>3, <1>4, <2>2 DEF FlightInv
  <2> QED BY <1>2, <2>1, <2>2 DEF FlightInv
<1>7. OwedInv'
  BY <1>0, <1>1, <1>2, <1>5 DEF OwedInv, Owed, Written, Sent
<1>8. ControlInv'
  BY <1>0, <1>1, <1>2 DEF ControlInv, Sent, Last
<1> QED BY <1>6, <1>7, <1>8 DEF DeliveryInv

(* The ACK that ends the wait on a channel is of this round's packet.      *)
LEMMA DeliveryRecvAck ==
    ASSUME TypeInv, DeliveryInv, RecvAck PROVE DeliveryInv'
<1> USE ConstantFacts
<1>0. TypeOK /\ FlightInv /\ OwedInv /\ ControlInv BY DEF TypeInv, DeliveryInv
<1>1. /\ pc = "recv" /\ s2c[ch] # <<>>
      /\ s2c' = [s2c EXCEPT ![ch] = Tail(@)]
      /\ is_eof' = (is_eof \/ Head(s2c[ch]).seq_no = eof_seq_no)
      /\ IF ch < Last
         THEN ch' = ch + 1 /\ pc' = pc
         ELSE /\ ch' = 0
              /\ pc' = IF is_eof' THEN "fin"
                       ELSE IF eof_seq_no = NoSeq THEN "send" ELSE "recv"
      /\ UNCHANGED <<file, pos, seq_no, eof_seq_no, payload_size, last_packet,
                     tmp, connected, c2s, out, ready, is_last>>
  BY DEF RecvAck, AcksEof, server
<1>2. /\ ch \in Channels /\ ch \in Nat /\ Last \in Nat /\ ch <= Last
      /\ Last' = Last /\ ready \subseteq Channels
      /\ s2c \in [Channels -> Seq(Ack)] /\ tmp \in [Channels -> Packet]
  <2>1. /\ ch \in Channels /\ ch \in Nat /\ Last \in Nat /\ ready \subseteq Channels
        /\ s2c \in [Channels -> Seq(Ack)] /\ tmp \in [Channels -> Packet]
    BY <1>0 DEF TypeOK, Last, Channels
  <2>2. ch <= Last BY <1>0, <1>1 DEF ControlInv
  <2>3. Last' = Last BY <1>1 DEF Last
  <2> QED BY <2>1, <2>2, <2>3
<1>3. /\ c2s[ch] = <<>> /\ Tail(s2c[ch]) = <<>> /\ Head(s2c[ch]) \in Ack
      /\ \A k \in tmp[ch].seq_no .. tmp[ch].seq_no + tmp[ch].size - 1 : Written(k)
  <2>1. InFlightOn(ch) BY <1>0, <1>2 DEF FlightInv
  <2>2. c2s[ch] = <<>> /\ Tail(s2c[ch]) = <<>>
    BY <1>0, <1>1, <1>2, <2>1, AtMostOne DEF InFlightOn
  <2>3. Head(s2c[ch]) \in Ack
    BY <1>1, <1>2, ChannelFacts
  <2> QED BY <1>1, <2>1, <2>2, <2>3 DEF InFlightOn
<1>4. ASSUME NEW i \in Channels PROVE Pending(i) <=> ch <= i /\ i <= Last
  BY <1>1 DEF Pending
<1>5. ASSUME NEW i \in Channels, Pending(i), i # ch PROVE ch < Last /\ Pending(i)'
  BY <1>1, <1>2, <1>4, <1>5 DEF Pending, Channels
<1>6. FlightInv'
  <2>1. ASSUME NEW i \in Channels PROVE InFlightOn(i)'
    <3>0. InFlightOn(i) BY <1>0 DEF FlightInv
    <3>1. CASE i = ch \/ ~Pending(i)
      <4>1. c2s'[i] = <<>> /\ s2c'[i] = <<>>
        BY <1>1, <1>2, <1>3, <3>0, <3>1 DEF InFlightOn
      <4> QED BY <4>1 DEF InFlightOn
    <3>2. CASE i # ch /\ Pending(i)
      <4>1. Pending(i)' /\ s2c'[i] = s2c[i] /\ c2s'[i] = c2s[i] /\ tmp'[i] = tmp[i]
        BY <1>1, <1>2, <1>5, <3>2
      <4>2. pc # "finack" /\ pc' # "finack" BY <1>1
      <4> QED BY <1>1, <3>0, <4>1, <4>2, InFlightStays
    <3> QED BY <3>1, <3>2
  <2> QED BY <1>0, <1>1, <2>1 DEF FlightInv
<1>7. OwedInv'
  <2> SUFFICES ASSUME NEW k \in 0 .. Sent' - 1 PROVE Written(k)' \/ Owed(k)'
    BY DEF OwedInv
  <2>1. Sent' = Sent BY <1>1 DEF Sent
  <2>2. Written(k) \/ Owed(k) BY <1>0, <2>1 DEF OwedInv
  <2>3. CASE Written(k) BY <1>1, <2>3 DEF Written
  <2>4. CASE Owed(k) /\ ~Written(k)
    <3>1. PICK i \in Channels :
            Pending(i) /\ k \in tmp[i].seq_no .. tmp[i].seq_no + tmp[i].size - 1
      BY <2>4 DEF Owed
    <3>2. i # ch BY <1>3, <2>4, <3>1
    <3>3. Pending(i)' /\ pc' = "recv" BY <1>1, <1>5, <3>1, <3>2
    <3> QED BY <1>1, <3>1, <3>3 DEF Owed
  <2> QED BY <2>2, <2>3, <2>4
<1>8. ControlInv'
  <2>1. Sent' = Sent BY <1>1 DEF Sent
  <2>2. Head(s2c[ch]).seq_no # NoSeq BY <1>3 DEF Ack, NoSeq
  <2>3. is_eof' => eof_seq_no' # NoSeq BY <1>0, <1>1, <2>2 DEF ControlInv
  <2>4. pc' = "recv" => ch' <= Last' BY <1>1, <1>2
  <2> QED BY <1>0, <1>1, <2>1, <2>3, <2>4 DEF ControlInv
<1> QED BY <1>6, <1>7, <1>8 DEF DeliveryInv

(* Outside a round, and before the FIN, nothing is on its way and all that *)
(* was sent is written.                                                    *)
LEMMA QuietChannels ==
    ASSUME DeliveryInv, pc \in {"connect", "fin", "done"}
    PROVE  /\ \A i \in Channels : c2s[i] = <<>> /\ s2c[i] = <<>>
           /\ \A k \in 0 .. Sent - 1 : Written(k)
<1>1. \A i \in Channels : ~Pending(i) BY DEF Pending
<1>2. \A k : ~Owed(k) BY DEF Owed
<1> QED BY <1>1, <1>2 DEF DeliveryInv, FlightInv, InFlightOn, OwedInv

(* Nothing is on its way while the client connects.                        *)
LEMMA DeliveryConnect ==
    ASSUME TypeInv, DeliveryInv, Connect PROVE DeliveryInv'
<1>0. TypeOK /\ FlightInv /\ OwedInv /\ ControlInv BY DEF TypeInv, DeliveryInv
<1>1. /\ pc = "connect" /\ pc' \in {"connect", "send"}
      /\ UNCHANGED <<file, pos, ch, seq_no, eof_seq_no, is_eof, payload_size,
                     last_packet, tmp, c2s, s2c, out, ready, is_last>>
  BY DEF Connect, server
<1>2. FlightInv'
  <2>1. \A i \in Channels : InFlightOn(i)'
    BY <1>1, QuietChannels, EmptyInFlight
  <2> QED BY <1>0, <1>1, <2>1 DEF FlightInv
<1>3. OwedInv'
  BY <1>1, QuietChannels DEF OwedInv, Written, Sent
<1>4. ControlInv'
  BY <1>0, <1>1 DEF ControlInv, Sent
<1> QED BY <1>2, <1>3, <1>4 DEF DeliveryInv

(* The FIN goes out on a channel that carries nothing.                     *)
LEMMA DeliverySendFin ==
    ASSUME TypeInv, DeliveryInv, SendFin PROVE DeliveryInv'
<1> USE ConstantFacts
<1> DEFINE fin == [seq_no |-> seq_no, size |-> payload_size, is_last |-> TRUE,
                   data |-> <<>>]
<1>0. TypeOK /\ FlightInv /\ OwedInv /\ ControlInv BY DEF TypeInv, DeliveryInv
<1>1. /\ pc = "fin" /\ pc' = "finack" /\ seq_no' = seq_no + payload_size
      /\ c2s' = [c2s EXCEPT ![0] = Append(@, fin)]
      /\ UNCHANGED <<file, pos, ch, eof_seq_no, is_eof, payload_size,
                     last_packet, tmp, s2c, out, ready, is_last>>
  BY DEF SendFin, server
<1>2. Sent' = Sent /\ Sent = seq_no
  BY <1>0, <1>1 DEF Sent, TypeOK
<1>3. /\ \A i \in Channels : c2s[i] = <<>> /\ s2c[i] = <<>>
      /\ \A k \in 0 .. Sent - 1 : Written(k)
  BY <1>1, QuietChannels
<1>4. c2s \in [Channels -> Seq(Packet)] /\ ready \subseteq Channels
  BY <1>0 DEF TypeOK
<1>5. fin.is_last OBVIOUS
<1> HIDE DEF fin
<1>6. ASSUME NEW i \in Channels PROVE InFlightOn(i)'
  <2>1. CASE i = 0
    <3>1. c2s'[i] = <<fin>> /\ s2c'[i] = <<>> BY <1>1, <1>3, <1>4, <2>1
    <3>2. Len(<<fin>>) = 1 /\ Len(<<>>) = 0 /\ Head(<<fin>>) = fin OBVIOUS
    <3>3. Pending(i)' BY <1>1, <2>1 DEF Pending
    <3>4. pc' = "finack" BY <1>1
    <3> QED BY <1>5, <3>1, <3>2, <3>3, <3>4 DEF InFlightOn
  <2>2. CASE i # 0
    <3>1. c2s'[i] = <<>> /\ s2c'[i] = <<>> BY <1>1, <1>3, <1>4, <2>2
    <3> QED BY <3>1, EmptyInFlight
  <2> QED BY <2>1, <2>2
<1>7. FlightInv'
  BY <1>0, <1>1, <1>3, <1>4, <1>6 DEF FlightInv
<1>8. OwedInv'
  BY <1>1, <1>2, <1>3 DEF OwedInv, Written
<1>9. ControlInv'
  BY <1>0, <1>1, <1>2 DEF ControlInv
<1> QED BY <1>7, <1>8, <1>9 DEF DeliveryInv

(* A retransmitted FIN replaces one the server dropped.                    *)
LEMMA DeliveryRetransmitFin ==
    ASSUME ~LateAcks, TypeInv, DeliveryInv, RetransmitFin PROVE DeliveryInv'
<1> USE ConstantFacts
<1> DEFINE fin == [seq_no |-> seq_no - payload_size, size |-> payload_size,
                   is_last |-> TRUE, data |-> <<>>]
<1>0. TypeOK /\ FlightInv /\ OwedInv /\ ControlInv BY DEF TypeInv, DeliveryInv
<1>1. /\ pc = "finack" /\ c2s[0] = <<>> /\ s2c[0] = <<>>
      /\ c2s' = [c2s EXCEPT ![0] = Append(@, fin)]
      /\ UNCHANGED <<file, client, s2c, server>>
  BY DEF RetransmitFin, MayTimeOut
<1>2. UNCHANGED <<pos, pc, ch, seq_no, eof_seq_no, is_eof, payload_size,
                  last_packet, tmp, connected, out, ready, is_last>>
  BY <1>1 DEF client, server
<1>3. c2s \in [Channels -> Seq(Packet)] /\ ready \subseteq Channels
  BY <1>0 DEF TypeOK
<1>4. fin.is_last OBVIOUS
<1> HIDE DEF fin
<1>5. ASSUME NEW i \in Channels PROVE Pending(i)' <=> Pending(i)
  BY <1>2 DEF Pending, Last
<1>6. c2s'[0] = <<fin>> BY <1>1, <1>3
<1>7. ASSUME NEW i \in Channels PROVE InFlightOn(i)'
  <2>1. CASE i = 0
    <3>1. c2s'[i] = <<fin>> /\ s2c'[i] = <<>> BY <1>1, <1>6, <2>1
    <3>2. Len(<<fin>>) = 1 /\ Len(<<>>) = 0 /\ Head(<<fin>>) = fin OBVIOUS
    <3>3. Pending(i)' BY <1>1, <1>2, <2>1 DEF Pending
    <3>4. pc' = "finack" BY <1>1, <1>2
    <3> QED BY <1>4, <3>1, <3>2, <3>3, <3>4 DEF InFlightOn
  <2>2. CASE i # 0
    <3>1. c2s'[i] = c2s[i] BY <1>1, <1>3, <2>2
    <3>2. InFlightOn(i) BY <1>0 DEF FlightInv
    <3> QED BY <1>1, <1>2, <1>5, <3>1, <3>2, InFlightStays
  <2> QED BY <2>1, <2>2
<1>8. FlightInv'
  BY <1>0, <1>1, <1>2, <1>3, <1>6, <1>7 DEF FlightInv
<1>9. OwedInv'
  BY <1>0, <1>1, <1>2 DEF OwedInv, Owed, Written, Sent
<1>10. ControlInv'
  BY <1>0, <1>1, <1>2 DEF ControlInv, Sent, Last
<1> QED BY <1>8, <1>9, <1>10 DEF DeliveryInv

(* The client exits on the ACK of its FIN.                                 *)
LEMMA DeliveryRecvFinAck ==
    ASSUME TypeInv, DeliveryInv, RecvFinAck PROVE DeliveryInv'
<1> USE ConstantFacts
<1>0. TypeOK /\ FlightInv /\ OwedInv /\ ControlInv BY DEF TypeInv, DeliveryInv
<1>1. /\ pc = "finack" /\ pc' = "done" /\ s2c[0] # <<>>
      /\ s2c' = [s2c EXCEPT ![0] = Tail(@)]
      /\ UNCHANGED <<file, pos, ch, seq_no, eof_seq_no, is_eof, payload_size,
                     last_packet, tmp, c2s, out, ready, is_last>>
  BY DEF RecvFinAck, server
<1>2. s2c \in [Channels -> Seq(Ack)] BY <1>0 DEF TypeOK
<1>3. InFlightOn(0) BY <1>0 DEF FlightInv
<1>4. is_last BY <1>1, <1>3 DEF InFlightOn
<1>5. c2s[0] = <<>> /\ Tail(s2c[0]) = <<>>
  BY <1>0, <1>1, <1>3, AtMostOne DEF InFlightOn
<1>6. ASSUME NEW i \in Channels PROVE c2s'[i] = <<>> /\ s2c'[i] = <<>>
  <2>1. InFlightOn(i) BY <1>0 DEF FlightInv
  <2>2. i # 0 => ~Pending(i) BY <1>1 DEF Pending
  <2> QED BY <1>1, <1>2, <1>5, <2>1, <2>2 DEF InFlightOn
<1>7. FlightInv'
  BY <1>0, <1>1, <1>6, EmptyInFlight DEF FlightInv
<1>8. OwedInv'
  BY <1>0, <1>1 DEF OwedInv, Owed, Written, Sent
<1>9. ControlInv'
  BY <1>0, <1>1, <1>4 DEF ControlInv, Sent
<1> QED BY <1>7, <1>8, <1>9 DEF DeliveryInv

(* Server steps leave the client alone: the same ACKs are owed.            *)
LEMMA DeliveryDropPacket ==
    ASSUME TypeInv, DeliveryInv, NEW i \in Channels, DropPacket(i) PROVE DeliveryInv'
<1>0. TypeOK /\ FlightInv /\ OwedInv /\ ControlInv BY DEF TypeInv, DeliveryInv
<1>1. /\ c2s[i] # <<>> /\ c2s' = [c2s EXCEPT ![i] = Tail(@)]
      /\ ready' = ready \ {i}
      /\ UNCHANGED <<file, pos, pc, ch, seq_no, eof_seq_no, is_eof, payload_size,
                     last_packet, tmp, s2c, out, is_last>>
  BY DEF DropPacket, client
<1>2. c2s \in [Channels -> Seq(Packet)] /\ ready \subseteq Channels
  BY <1>0 DEF TypeOK
<1>3. ASSUME NEW j \in Channels PROVE Pending(j)' <=> Pending(j)
  BY <1>1 DEF Pending, Last
<1>4. ASSUME NEW j \in Channels PROVE InFlightOn(j)'
  <2>0. InFlightOn(j) BY <1>0 DEF FlightInv
  <2>1. CASE j = i
    <3>1. Len(c2s[i]) + Len(s2c[i]) <= 1 BY <2>0, <2>1 DEF InFlightOn
    <3>2. Tail(c2s[i]) = <<>> /\ s2c[i] = <<>>
      BY <1>0, <1>1, <3>1, AtMostOne
    <3>3. c2s'[j] = <<>> /\ s2c'[j] = <<>> BY <1>1, <1>2, <2>1, <3>2
    <3> QED BY <3>3, EmptyInFlight
  <2>2. CASE j # i
    <3>1. c2s'[j] = c2s[j] BY <1>1, <1>2, <2>2
    <3> QED BY <1>1, <1>3, <2>0, <3>1, InFlightStays
  <2> QED BY <2>1, <2>2
<1>5. FlightInv'
  <2>1. ASSUME NEW j \in ready' PROVE c2s'[j] # <<>>
    BY <1>0, <1>1, <1>2, <2>1 DEF FlightInv
  <2> QED BY <1>4, <2>1 DEF FlightInv
<1>6. OwedInv'
  BY <1>0, <1>1, <1>3 DEF OwedInv, Owed, Written, Sent
<1>7. ControlInv'
  BY <1>0, <1>1 DEF ControlInv, Sent, Last
<1> QED BY <1>5, <1>6, <1>7 DEF DeliveryInv

(* What the server acknowledges it has written.                            *)
LEMMA DeliveryServePacket ==
    ASSUME TypeInv, TypeInv', CopyInv, DeliveryInv, NEW i \in Channels,
           ServePacket(i)
    PROVE  DeliveryInv'
<1> DEFINE p == Head(c2s[i])
<1>0. TypeOK /\ ProgressInv /\ FlightInv /\ OwedInv /\ ControlInv
  BY DEF TypeInv, DeliveryInv
<1>1. /\ c2s[i] # <<>> /\ c2s' = [c2s EXCEPT ![i] = Tail(@)]
      /\ s2c' = [s2c EXCEPT ![i] = Append(@, [seq_no |-> p.seq_no])]
      /\ out' = IF p.is_last THEN out ELSE fwrite(p)
      /\ is_last' = (is_last \/ p.is_last)
      /\ ready' = ready \ {i}
      /\ UNCHANGED <<file, pos, pc, ch, seq_no, eof_seq_no, is_eof, payload_size,
                     last_packet, tmp>>
  BY DEF ServePacket, client, IsFin
<1>2. /\ c2s \in [Channels -> Seq(Packet)] /\ s2c \in [Channels -> Seq(Ack)]
      /\ ready \subseteq Channels
  BY <1>0 DEF TypeOK
<1>3. ASSUME NEW j \in Channels PROVE Pending(j)' <=> Pending(j)
  BY <1>1 DEF Pending, Last
<1>4. ASSUME NEW k, Written(k) PROVE Written(k)'
  <2>1. [Next]_vars BY DEF Next, ServerNext
  <2> QED BY <1>1, <1>4, <2>1, WrittenStays
<1>5. /\ Pending(i) /\ Tail(c2s[i]) = <<>> /\ s2c[i] = <<>>
      /\ IF pc = "finack" THEN p.is_last ELSE p = tmp[i]
  <2>1. InFlightOn(i) BY <1>0 DEF FlightInv
  <2>2. Pending(i) /\ IF pc = "finack" THEN p.is_last ELSE p = tmp[i]
    BY <1>1, <2>1 DEF InFlightOn
  <2>3. Len(c2s[i]) + Len(s2c[i]) <= 1 BY <2>1 DEF InFlightOn
  <2> QED BY <1>0, <1>1, <2>2, <2>3, AtMostOne
<1>6. p \in Slices BY <1>1, ChannelFacts DEF CopyInv, SliceInv
<1> HIDE DEF p
<1>7. ASSUME pc # "finack"
      PROVE  /\ p = tmp[i] /\ is_last' = is_last
             /\ \A k \in tmp[i].seq_no .. tmp[i].seq_no + tmp[i].size - 1 : Written(k)'
  <2>1. p = tmp[i] /\ ~p.is_last BY <1>0, <1>5, <1>7 DEF ProgressInv
  <2>2. out' = fwrite(p) /\ is_last' = is_last
    BY <1>0, <1>1, <2>1 DEF TypeOK
  <2>3. p.seq_no \in Nat /\ p.size \in Nat /\ p.seq_no + p.size <= Len(file)
    BY <1>6, <2>1 DEF Slices, Packet
  <2>4. DOMAIN out = 0 .. Len(file) - 1 /\ Len(file) \in Nat
    BY <1>0 DEF TypeOK
  <2>5. ASSUME NEW k \in p.seq_no .. p.seq_no + p.size - 1 PROVE Written(k)'
    <3>1. k \in DOMAIN out BY <2>3, <2>4
    <3> QED BY <1>0, <1>1, <1>6, <2>1, <2>2, <3>1, FwriteSlice DEF Written
  <2> QED BY <2>1, <2>2, <2>5
<1>8. ASSUME NEW j \in Channels PROVE InFlightOn(j)'
  <2>0. InFlightOn(j) BY <1>0 DEF FlightInv
  <2>1. CASE j = i
    <3> DEFINE a == [seq_no |-> p.seq_no]
    <3>1. c2s'[j] = <<>> /\ s2c'[j] = <<a>> BY <1>1, <1>2, <1>5, <2>1
    <3>2. Pending(j)' BY <1>3, <1>5, <2>1
    <3>3. IF pc' = "finack" THEN is_last'
          ELSE \A k \in tmp'[j].seq_no .. tmp'[j].seq_no + tmp'[j].size - 1 :
                  Written(k)'
      BY <1>1, <1>5, <1>7, <2>1
    <3> HIDE DEF a
    <3>4. Len(<<a>>) = 1 /\ Len(<<>>) = 0 OBVIOUS
    <3> QED BY <3>1, <3>2, <3>3, <3>4 DEF InFlightOn
  <2>2. CASE j # i
    <3>1. c2s'[j] = c2s[j] /\ s2c'[j] = s2c[j] /\ tmp'[j] = tmp[j] /\ pc' = pc
      BY <1>1, <1>2, <2>2
    <3>2. is_last => is_last' BY <1>1
    <3> QED BY <1>3, <1>4, <2>0, <3>1, <3>2 DEF InFlightOn
  <2> QED BY <2>1, <2>2
<1>9. FlightInv'
  <2>1. ASSUME NEW j \in ready' PROVE c2s'[j] # <<>>
    BY <1>0, <1>1, <1>2, <2>1 DEF FlightInv
  <2> QED BY <1>8, <2>1 DEF FlightInv
<1>10. OwedInv'
  <2>1. Sent' = Sent BY <1>1 DEF Sent
  <2>2. \A k : Owed(k) => Owed(k)' BY <1>1, <1>3 DEF Owed
  <2> QED BY <1>0, <1>4, <2>1, <2>2 DEF OwedInv
<1>11. ControlInv'
  <2>1. is_last' => pc' \in {"finack", "done"}
    BY <1>0, <1>1, <1>7 DEF ControlInv
  <2>2. Sent' = Sent /\ Last' = Last BY <1>1 DEF Sent, Last
  <2> QED BY <1>0, <1>1, <2>1, <2>2 DEF ControlInv
<1> QED BY <1>9, <1>10, <1>11 DEF DeliveryInv

LEMMA DeliverySelect ==
    ASSUME TypeInv, DeliveryInv, Select PROVE DeliveryInv'
<1>0. TypeOK /\ FlightInv /\ OwedInv /\ ControlInv BY DEF TypeInv, DeliveryInv
<1>1. /\ UNCHANGED <<file, pos, pc, ch, seq_no, eof_seq_no, is_eof, payload_size,
                     last_packet, tmp, c2s, s2c, out, is_last>>
      /\ ~is_last /\ \A i \in ready' : c2s[i] # <<>> \/ pc = "done"
  BY DEF Select, client
<1>2. \A i \in ready' : c2s[i] # <<>> BY <1>0, <1>1 DEF ControlInv
<1>3. FlightInv'
  BY <1>0, <1>1, <1>2 DEF FlightInv, InFlightOn, Pending, Last, Written
<1>4. OwedInv' BY <1>0, <1>1 DEF OwedInv, Owed, Pending, Last, Written, Sent
<1>5. ControlInv' BY <1>0, <1>1 DEF ControlInv, Sent, Last
<1> QED BY <1>3, <1>4, <1>5 DEF DeliveryInv

LEMMA DeliveryStutter ==
    ASSUME DeliveryInv,
           UNCHANGED <<file, pos, pc, ch, seq_no, eof_seq_no, is_eof, payload_size,
                       last_packet, tmp, c2s, s2c, out, ready, is_last>>
    PROVE  DeliveryInv'
<1>1. FlightInv'
  BY DEF DeliveryInv, FlightInv, InFlightOn, Pending, Last, Written
<1>2. OwedInv' BY DEF DeliveryInv, OwedInv, Owed, Pending, Last, Written, Sent
<1>3. ControlInv' BY DEF DeliveryInv, ControlInv, Sent, Last
<1> QED BY <1>1, <1>2, <1>3 DEF DeliveryInv

LEMMA DeliveryNext ==
    ASSUME ~LateAcks
    PROVE  TypeInv /\ TypeInv' /\ CopyInv /\ DeliveryInv /\ [Next]_vars => DeliveryInv'
<1> SUFFICES ASSUME TypeInv, TypeInv', CopyInv, DeliveryInv, [Next]_vars
             PROVE  DeliveryInv'
  OBVIOUS
<1>1. CASE Connect BY <1>1, DeliveryConnect
<1>2. CASE SendChunk BY <1>2, DeliverySendChunk
<1>3. CASE Retransmit BY <1>3, DeliveryRetransmit
<1>4. CASE RecvAck BY <1>4, DeliveryRecvAck
<1>5. CASE SendFin BY <1>5, DeliverySendFin
<1>6. CASE RetransmitFin BY <1>6, DeliveryRetransmitFin
<1>7. CASE RecvFinAck BY <1>7, DeliveryRecvFinAck
<1>8. CASE Select BY <1>8, DeliverySelect
<1>9. ASSUME NEW i \in Channels, DropPacket(i) PROVE DeliveryInv'
  BY <1>9, DeliveryDropPacket
<1>10. ASSUME NEW i \in Channels, ServePacket(i) PROVE DeliveryInv'
  BY <1>10, DeliveryServePacket
<1>11. ASSUME NEW i \in Channels, ServeClosed(i) PROVE DeliveryInv'
  BY <1>11 DEF ServeClosed, Serving, DeliveryInv, FlightInv
<1>12. CASE \/ Accept \/ Finish \/ UNCHANGED vars
            \/ \E i \in Channels : ServeReset(i)
  <2>1. UNCHANGED <<file, pos, pc, ch, seq_no, eof_seq_no, is_eof, payload_size,
                    last_packet, tmp, c2s, s2c, out, ready, is_last>>
    BY <1>12 DEF Accept, Finish, ServeReset, vars, client, server
  <2> QED BY <2>1, DeliveryStutter
<1> QED
  BY <1>1, <1>2, <1>3, <1>4, <1>5, <1>6, <1>7, <1>8, <1>9, <1>10, <1>11, <1>12
  DEF Next, ClientNext, ServerNext, Terminated

(* The invariant of the upload when acknowledgements come in time.         *)
LEMMA DeliveryInvariance ==
    ASSUME TextInputs, ~LateAcks
    PROVE  Spec => [](TypeInv /\ CopyInv /\ DeliveryInv)
<1>1. Init => TypeInv /\ CopyInv /\ DeliveryInv
  BY TypeInit, CopyInit, DeliveryInit
<1>2. TypeInv /\ CopyInv /\ DeliveryInv /\ [Next]_vars =>
        (TypeInv /\ CopyInv /\ DeliveryInv)'
  BY TypeNext, CopyNext, DeliveryNext
<1> QED BY <1>1, <1>2, PTL DEF Spec

(* When only a dropped packet times out, no channel ever carries more than *)
(* one packet or ACK.                                                      *)
THEOREM StopAndWait ==
    ASSUME TextInputs, ~LateAcks PROVE Spec => []OneInFlight
<1>1. DeliveryInv => OneInFlight
  BY DEF DeliveryInv, FlightInv, InFlightOn, OneInFlight
<1> QED BY <1>1, DeliveryInvariance, PTL

(* When only a dropped packet times out, a round, the FIN and the client's *)
(* exit find everything sent so far in output.txt.                         *)
THEOREM RoundsAreDelivered ==
    ASSUME TextInputs, ~LateAcks PROVE Spec => []RoundDelivered
<1>1. TypeInv /\ DeliveryInv => RoundDelivered
  <2> SUFFICES ASSUME TypeInv, DeliveryInv,
                      pc \in {"fin", "finack", "done"} \/ (pc = "send" /\ ch = 0),
                      NEW k \in 0 .. Sent - 1
               PROVE  Written(k)
    BY DEF RoundDelivered
  <2>1. Written(k) \/ Owed(k) BY DEF DeliveryInv, OwedInv
  <2>2. ~Owed(k)
    BY ConstantFacts DEF Owed, Pending, Channels
  <2> QED BY <2>1, <2>2
<1> QED BY <1>1, DeliveryInvariance, PTL

(* When only a dropped packet times out, the two programs implement the    *)
(* abstract upload: correct bytes only, and the client exits over a copy   *)
(* that lacks at most the last byte.                                       *)
THEOREM UploadIsImplemented ==
    ASSUME TextInputs, ~LateAcks PROVE Spec => ImplementsUpload
<1>1. Init => Upload!Init
  BY DEF Init, Upload!Init
<1>2. TypeInv /\ CopyInv /\ DeliveryInv /\ [Next]_vars =>
        [Upload!Next]_<<file, out, pc = "done">>
  <2> SUFFICES ASSUME TypeInv, CopyInv, DeliveryInv, [Next]_vars
               PROVE  [Upload!Next]_<<file, out, pc = "done">>
    OBVIOUS
  <2>0. TypeOK BY DEF TypeInv
  <2>1. CASE RecvFinAck
    <3>1. /\ pc = "finack" /\ pc' = "done" /\ UNCHANGED <<file, out>>
      BY <2>1 DEF RecvFinAck, server
    <3>2. Sent \in Int /\ Sent >= Len(file) - 1 /\ Len(file) \in Nat
      BY <2>0, <3>1 DEF DeliveryInv, ControlInv, Sent, TypeOK
    <3>3. \A k \in 0 .. Sent - 1 : Written(k)
      BY <3>1 DEF DeliveryInv, OwedInv, Owed
    <3>4. \A k \in 0 .. Len(file) - 2 : out[k] = file[k + 1]
      BY <3>2, <3>3 DEF Written
    <3>5. Upload!Finish BY <3>1, <3>4 DEF Upload!Finish
    <3> QED BY <3>5 DEF Upload!Next
  <2>2. ASSUME NEW i \in Channels, ServePacket(i)
        PROVE  [Upload!Next]_<<file, out, pc = "done">>
    <3> DEFINE p == Head(c2s[i])
    <3>1. /\ c2s[i] # <<>> /\ out' = IF p.is_last THEN out ELSE fwrite(p)
          /\ UNCHANGED <<file, pc>>
      BY <2>2 DEF ServePacket, client, IsFin
    <3>2. p \in Slices BY <3>1, ChannelFacts DEF CopyInv, SliceInv
    <3>3. pc # "done" BY <3>1, QuietChannels
    <3> HIDE DEF p
    <3>4. CASE p.is_last BY <3>1, <3>4
    <3>5. CASE ~p.is_last /\ p.size = 0
      <4>1. p.seq_no \in Nat BY <3>2 DEF Slices, Packet
      <4>2. p.seq_no .. p.seq_no + p.size - 1 = {} BY <3>5, <4>1
      <4>3. fwrite(p) = out BY <2>0, <4>2 DEF fwrite, TypeOK
      <4> QED BY <3>1, <3>5, <4>3
    <3>6. CASE ~p.is_last /\ p.size # 0
      <4> DEFINE lo == p.seq_no
                 hi == p.seq_no + p.size - 1
      <4>1. lo \in DOMAIN out /\ hi \in DOMAIN out
        <5>1. /\ p.seq_no \in Nat /\ p.size \in Nat /\ p.size # 0
              /\ p.seq_no + p.size <= Len(file)
          BY <3>2, <3>6 DEF Slices, Packet
        <5>2. DOMAIN out = 0 .. Len(file) - 1 /\ Len(file) \in Nat
          BY <2>0 DEF TypeOK
        <5> QED BY <5>1, <5>2
      <4>2. out' = [k \in DOMAIN out |-> IF k \in lo .. hi THEN file[k + 1]
                                                            ELSE out[k]]
        <5>1. DOMAIN fwrite(p) = DOMAIN out
          BY <2>0, <3>2, <3>6, FwriteSlice
        <5>2. fwrite(p) = [k \in DOMAIN out |-> fwrite(p)[k]]
          BY DEF fwrite
        <5> QED BY <2>0, <3>1, <3>2, <3>6, <5>1, <5>2, FwriteSlice
      <4>3. Upload!Deliver(lo, hi)
        BY <3>1, <3>3, <4>2 DEF Upload!Deliver
      <4> QED BY <4>1, <4>3 DEF Upload!Next
    <3> QED BY <3>4, <3>5, <3>6
  <2>3. CASE UNCHANGED <<file, out>> /\ (pc' = "done" <=> pc = "done")
    BY <2>3
  <2> QED
    BY <2>1, <2>2, <2>3
    DEF Next, ClientNext, ServerNext, Terminated, Connect, SendChunk, Retransmit,
        RecvAck, SendFin, RetransmitFin, Accept, Select, Finish, DropPacket,
        ServeClosed, ServeReset, vars, client, server
<1> QED
  BY <1>1, <1>2, DeliveryInvariance, PTL DEF Spec, ImplementsUpload, Upload!Spec
------------------------------------------------------------------------------
(* However late acknowledgements are: an ACK still means that its packet   *)
(* is written, and the client leaves the receive loop for the FIN only     *)
(* over a written last chunk.                                              *)

(* Packets and ACKs wait in channels; sending adds one at the end.         *)
LEMMA Appended ==
    ASSUME NEW S, NEW f \in [Channels -> Seq(S)], NEW i \in Channels, NEW e \in S,
           NEW g, g = [f EXCEPT ![i] = Append(f[i], e)],
           NEW j \in Channels, NEW k \in DOMAIN g[j]
    PROVE  g[j][k] = e \/ \E m \in DOMAIN f[j] : g[j][k] = f[j][m]
<1>1. f[j] \in Seq(S) OBVIOUS
<1>2. CASE j = i
  <2>1. g[j] = Append(f[j], e) BY <1>2
  <2> QED BY <1>1, <2>1
<1>3. CASE j # i
  <2>1. g[j] = f[j] BY <1>3
  <2> QED BY <2>1
<1> QED BY <1>2, <1>3

(* Receiving takes the first one away.                                     *)
LEMMA Removed ==
    ASSUME NEW S, NEW f \in [Channels -> Seq(S)], NEW i \in Channels,
           f[i] # <<>>, NEW g, g = [f EXCEPT ![i] = Tail(f[i])],
           NEW j \in Channels, NEW k \in DOMAIN g[j]
    PROVE  \E m \in DOMAIN f[j] : g[j][k] = f[j][m]
<1>1. f[j] \in Seq(S) OBVIOUS
<1>2. CASE j = i
  <2>1. g[j] = Tail(f[j]) /\ f[j] # <<>> BY <1>2
  <2>2. k + 1 \in DOMAIN f[j] /\ g[j][k] = f[j][k + 1] BY <1>1, <2>1
  <2> QED BY <2>2
<1>3. CASE j # i
  <2>1. g[j] = f[j] BY <1>3
  <2> QED BY <2>1
<1> QED BY <1>2, <1>3

(* A step that sends no file data.                                         *)
NoNewData ==
    /\ file' = file /\ eof_seq_no' = eof_seq_no /\ Sent' = Sent
    /\ Over => Over'

(* What is true of packets and ACKs stays true over such a step.           *)
LEMMA LateCarries ==
    ASSUME TypeInv, TypeInv', CopyInv, [Next]_vars, NoNewData
    PROVE  /\ \A p : Timely(p) => Timely(p)'
           /\ \A a : TrueAck(a) => TrueAck(a)'
           /\ \A a : WrittenFrom(a) => WrittenFrom(a)'
<1>1. \A p : Timely(p) => Timely(p)' BY DEF Timely, NoNewData
<1>2. \A k : Written(k) => Written(k)' BY WrittenStays DEF NoNewData
<1>3. \A a : WrittenFrom(a) => WrittenFrom(a)'
  BY <1>2 DEF WrittenFrom, NoNewData
<1>4. \A a : TrueAck(a) => TrueAck(a)'
  BY <1>2, <1>3 DEF TrueAck, NoNewData
<1> QED BY <1>1, <1>3, <1>4

(* TimelyInv after a step, from the values packets and ACKs have then.      *)
LEMMA TimelyAfter ==
    ASSUME \A i \in Channels : SentOn(i)' => \E p : p = tmp'[i] /\ Timely(p)',
           \A i \in Channels : \A j \in DOMAIN c2s'[i] :
              \E p : p = c2s'[i][j] /\ Timely(p)',
           pc' # "done" =>
              \A i \in Channels : \A j \in DOMAIN s2c'[i] :
                 \E a : a = s2c'[i][j].seq_no /\ TrueAck(a)'
    PROVE  TimelyInv'
<1>1. ASSUME NEW i \in Channels, SentOn(i)' PROVE Timely(tmp[i])'
  BY <1>1 DEF Timely
<1>2. ASSUME NEW i \in Channels, NEW j \in DOMAIN c2s'[i] PROVE Timely(c2s[i][j])'
  BY <1>2 DEF Timely
<1>3. ASSUME pc' # "done", NEW i \in Channels, NEW j \in DOMAIN s2c'[i]
      PROVE  TrueAck(s2c[i][j].seq_no)'
  BY <1>3 DEF TrueAck, WrittenFrom, Written
<1> QED BY <1>1, <1>2, <1>3 DEF TimelyInv

(* The channels are empty in the beginning.                                *)
LEMMA LateInit == Init => LateInv
<1> SUFFICES ASSUME Init PROVE LateInv OBVIOUS
<1>1. LateControlInv
  BY DEF Init, LateControlInv, Over, WrittenFrom
<1>2. \A i \in Channels : ~SentOn(i) BY DEF Init, SentOn
<1>3. \A i \in Channels : c2s[i] = <<>> /\ s2c[i] = <<>> BY DEF Init
<1>4. DOMAIN <<>> = {} OBVIOUS
<1>5. TimelyInv BY <1>2, <1>3, <1>4 DEF TimelyInv
<1> QED BY <1>1, <1>5 DEF LateInv

(* A turn of the send loop: what was sent before lies below seq_no, the    *)
(* chunk that is sent now reaches up to it.                                *)
LEMMA LateSendChunk ==
    ASSUME TextInputs, TypeInv, TypeInv', LateInv, SendChunk
    PROVE  LateInv'
<1> DEFINE pkt == [seq_no |-> seq_no, size |-> ChunkSize, is_last |-> FALSE,
                   data |-> strncpy(pos, ChunkSize)]
<1>0. TypeOK /\ LateControlInv /\ TimelyInv BY DEF TypeInv, LateInv
<1>1. /\ pc = "send" /\ UNCHANGED <<file, is_eof, s2c, out, ready>>
      /\ tmp' = [tmp EXCEPT ![ch] = pkt]
      /\ c2s' = [c2s EXCEPT ![ch] = Append(c2s[ch], pkt)]
      /\ pos' = pos + BytesRead /\ seq_no' = seq_no + ChunkSize
      /\ eof_seq_no' = IF ChunkIsEof THEN seq_no ELSE eof_seq_no
      /\ last_packet' = IF ChunkSize = 0 THEN ch ELSE last_packet
      /\ (ChunkSize = 0 \/ ch = NUM_CHANNELS - 1) => ch' = 0 /\ pc' = "recv"
      /\ ~(ChunkSize = 0 \/ ch = NUM_CHANNELS - 1) => ch' = ch + 1 /\ pc' = "send"
  BY DEF SendChunk, server
<1>2. /\ ch \in Channels /\ seq_no \in Nat /\ pos \in Nat /\ Len(file) \in Nat
      /\ eof_seq_no \in Nat \cup {NoSeq} /\ tmp \in [Channels -> Packet]
      /\ c2s \in [Channels -> Seq(Packet)] /\ s2c \in [Channels -> Seq(Ack)]
      /\ ready \subseteq Channels
  BY <1>0 DEF TypeOK
<1>3. pkt \in Packet BY <1>1, NewSlice DEF Slices
<1>q. PICK q \in Packet : q = pkt BY <1>3
<1>p. /\ q.seq_no = seq_no /\ q.size = ChunkSize /\ ~q.is_last
      /\ tmp' = [tmp EXCEPT ![ch] = q]
      /\ c2s' = [c2s EXCEPT ![ch] = Append(c2s[ch], q)]
  BY <1>1, <1>q
<1> HIDE DEF pkt
<1>4. /\ BytesRead \in Nat /\ ChunkSize \in Nat
      /\ ChunkIsEof => pos + BytesRead = Len(file)
      /\ ~ChunkIsEof => ChunkSize >= 1 /\ pos # Len(file)
  BY <1>0, ChunkFacts
<1>u. /\ pc = "send" /\ is_eof' = is_eof /\ s2c' = s2c /\ ready' = ready
      /\ ~is_eof /\ last_packet = -1
      /\ \A i \in ready : c2s[i] # <<>>
  <2>1. pc = "send" /\ is_eof' = is_eof /\ s2c' = s2c /\ ready' = ready BY <1>1
  <2>2. ~Over BY <2>1 DEF Over
  <2> QED BY <1>0, <2>1, <2>2 DEF LateControlInv
<1>5. ~Over /\ Sent = seq_no /\ Sent' = seq_no + ChunkSize /\ pc' \in {"send", "recv"}
  BY <1>1 DEF Over, Sent
<1>6. /\ eof_seq_no' = seq_no \/ (eof_seq_no' = NoSeq /\ ~ChunkIsEof)
      /\ ChunkIsEof => eof_seq_no' = seq_no
  BY <1>0, <1>1, <1>4 DEF LateControlInv
<1>7. NoSeq \notin Nat BY DEF NoSeq
<1>8. ASSUME NEW p \in Packet, Timely(p) PROVE Timely(p)'
  <2>1. p.seq_no \in Nat /\ p.size \in Nat BY DEF Packet
  <2>2. ~p.is_last /\ p.size # 0 /\ p.seq_no + p.size <= seq_no
    BY <1>5, <1>8 DEF Timely
  <2>3. p.seq_no + p.size <= Sent' /\ p.seq_no # eof_seq_no'
    BY <1>2, <1>4, <1>5, <1>6, <1>7, <2>1, <2>2
  <2> QED BY <2>2, <2>3 DEF Timely
<1>9. Timely(q)'
  <2>1. ChunkSize = 0 => Over'
    BY <1>1, <1>2, <1>4, <1>6, <1>7 DEF Over
  <2>2. seq_no + ChunkSize = Sent' /\ (ChunkSize = 0 => seq_no = Sent')
    BY <1>2, <1>4, <1>5
  <2>3. seq_no + ChunkSize <= Sent' BY <1>2, <1>4, <2>2
  <2> QED BY <1>p, <2>1, <2>2, <2>3 DEF Timely
<1>10. ASSUME NEW a \in Nat, TrueAck(a) PROVE TrueAck(a)'
  <2>1. a < seq_no /\ Written(a) BY <1>2, <1>5, <1>10 DEF TrueAck
  <2>2. a < Sent' /\ a # eof_seq_no' BY <1>2, <1>4, <1>5, <1>6, <1>7, <2>1
  <2>3. Written(a)' BY <1>1, <2>1 DEF Written
  <2>4. ~(a >= Sent') BY <1>2, <1>4, <1>5, <2>2
  <2> QED BY <2>2, <2>3, <2>4 DEF TrueAck
<1>11. ASSUME NEW i \in Channels, SentOn(i)' PROVE \E p : p = tmp'[i] /\ Timely(p)'
  <2>1. i \in Int /\ ch \in Int /\ NUM_CHANNELS \in Int /\ i <= NUM_CHANNELS - 1
        /\ ch <= NUM_CHANNELS - 1
    BY <1>2, ConstantFacts DEF Channels
  <2>2. i < ch \/ i = ch
    <3>1. ASSUME pc' = "send" PROVE ch' = ch + 1 BY <1>1, <3>1
    <3>2. ASSUME pc' = "recv", last_packet' = -1 PROVE ch = NUM_CHANNELS - 1
      BY <1>1, <1>2, <3>2, ConstantFacts DEF Channels
    <3>3. last_packet' = -1 \/ last_packet' = ch BY <1>1, <1>u
    <3> QED BY <1>11, <2>1, <3>1, <3>2, <3>3 DEF SentOn, Last
  <2>3. CASE i = ch
    <3>1. tmp'[i] = q BY <1>2, <1>p, <2>3
    <3> QED BY <1>9, <3>1
  <2>4. CASE i < ch
    <3>1. tmp'[i] = tmp[i] BY <1>2, <1>p, <2>1, <2>4
    <3>2. Timely(tmp[i]) BY <1>0, <1>1, <2>4 DEF TimelyInv, SentOn
    <3>3. PICK p \in Packet : p = tmp[i] BY <1>2
    <3>4. Timely(p) BY <3>2, <3>3
    <3>5. Timely(p)' BY <1>8, <3>4
    <3> QED BY <3>1, <3>3, <3>5
  <2> QED BY <2>2, <2>3, <2>4
<1>12. ASSUME NEW i \in Channels, NEW j \in DOMAIN c2s'[i]
       PROVE  \E p : p = c2s'[i][j] /\ Timely(p)'
  <2>1. c2s'[i][j] = q \/ \E m \in DOMAIN c2s[i] : c2s'[i][j] = c2s[i][m]
    BY <1>2, <1>p, Appended
  <2>2. ASSUME NEW m \in DOMAIN c2s[i] PROVE c2s[i][m] \in Packet /\ Timely(c2s[i][m])
    BY <1>0, <1>2 DEF TimelyInv
  <2>3. PICK p \in Packet : p = c2s'[i][j] /\ (p = q \/ Timely(p))
    BY <2>1, <2>2
  <2> QED BY <1>8, <1>9, <2>3
<1>13. ASSUME NEW i \in Channels, NEW j \in DOMAIN s2c'[i]
       PROVE  \E a : a = s2c'[i][j].seq_no /\ TrueAck(a)'
  <2>1. s2c' = s2c BY <1>u
  <2>2. s2c[i][j].seq_no \in Nat
    <3>1. s2c[i] \in Seq(Ack) /\ j \in DOMAIN s2c[i] BY <1>2, <1>13, <2>1
    <3>2. s2c[i][j] \in Ack BY <3>1
    <3> QED BY <3>2 DEF Ack
  <2>3. PICK a \in Nat : a = s2c[i][j].seq_no BY <2>2
  <2>4. TrueAck(a) BY <1>0, <1>u, <1>13, <2>1, <2>3 DEF TimelyInv
  <2> QED BY <1>10, <2>1, <2>3, <2>4
<1>14. TimelyInv' BY <1>11, <1>12, <1>13, TimelyAfter
<1>15. LateControlInv'
  <2>1. ~is_eof /\ ~is_eof' BY <1>u
  <2>2. eof_seq_no' # NoSeq => pos' = Len(file')
    <3>1. pos' = pos + BytesRead /\ file' = file BY <1>1
    <3>2. eof_seq_no' # NoSeq => ChunkIsEof BY <1>0, <1>1, <1>4 DEF LateControlInv
    <3> QED BY <1>4, <3>1, <3>2
  <2>3. /\ pc' \in {"connect", "send"} => last_packet' = -1
        /\ last_packet' # -1 => eof_seq_no' # NoSeq
    BY <1>0, <1>1, <1>2, <1>4, <1>6, <1>7 DEF LateControlInv
  <2>4. pc' = "recv" => ch' <= Last'
    <3> SUFFICES ASSUME pc' = "recv" PROVE ch' <= Last' OBVIOUS
    <3>1. ch' = 0 BY <1>1
    <3>2. last_packet' = -1 \/ last_packet' = ch BY <1>1, <1>u
    <3> QED BY <1>2, <3>1, <3>2, ConstantFacts DEF Last, Channels
  <2>5. \A i \in ready' : c2s'[i] # <<>> \/ pc' = "done"
    <3> SUFFICES ASSUME NEW i \in ready PROVE c2s'[i] # <<>> BY <1>u
    <3>1. c2s[i] # <<>> /\ i \in Channels BY <1>2, <1>u
    <3>2. c2s[i] \in Seq(Packet) BY <1>2, <3>1
    <3>3. Append(c2s[i], q) # <<>> BY <3>2
    <3> QED BY <1>2, <1>p, <3>1, <3>3
  <2> QED BY <1>5, <2>1, <2>2, <2>3, <2>4, <2>5 DEF LateControlInv
<1> QED BY <1>14, <1>15 DEF LateInv

(* Without new file data, packets and ACKs that were there stay in order.  *)
LEMMA LateTimely ==
    ASSUME TypeInv, TypeInv', CopyInv, [Next]_vars, NoNewData, TimelyInv,
           tmp' = tmp, \A i \in Channels : SentOn(i)' => SentOn(i),
           \A i \in Channels : \A j \in DOMAIN c2s'[i] :
              \/ \E m \in DOMAIN c2s[i] : c2s'[i][j] = c2s[i][m]
              \/ \E p : p = c2s'[i][j] /\ Timely(p)',
           pc' # "done" =>
              /\ pc # "done"
              /\ \A i \in Channels : \A j \in DOMAIN s2c'[i] :
                    \/ \E m \in DOMAIN s2c[i] : s2c'[i][j] = s2c[i][m]
                    \/ \E a : a = s2c'[i][j].seq_no /\ TrueAck(a)'
    PROVE  TimelyInv'
<1>0. /\ \A p : Timely(p) => Timely(p)' 
      /\ \A a : TrueAck(a) => TrueAck(a)'
  BY LateCarries
<1>1. ASSUME NEW i \in Channels, SentOn(i)' PROVE \E p : p = tmp'[i] /\ Timely(p)'
  <2>1. Timely(tmp[i]) BY <1>1 DEF TimelyInv
  <2>2. PICK p : p = tmp[i] OBVIOUS
  <2>3. Timely(p) BY <2>1, <2>2
  <2> QED BY <1>0, <2>2, <2>3
<1>2. ASSUME NEW i \in Channels, NEW j \in DOMAIN c2s'[i]
      PROVE  \E p : p = c2s'[i][j] /\ Timely(p)'
  <2>1. CASE \E m \in DOMAIN c2s[i] : c2s'[i][j] = c2s[i][m]
    <3>1. PICK m \in DOMAIN c2s[i] : c2s'[i][j] = c2s[i][m] BY <2>1
    <3>2. PICK p : p = c2s[i][m] OBVIOUS
    <3>3. Timely(p) BY <3>2 DEF TimelyInv
    <3> QED BY <1>0, <3>1, <3>2, <3>3
  <2> QED BY <1>2, <2>1
<1>3. ASSUME pc' # "done", NEW i \in Channels, NEW j \in DOMAIN s2c'[i]
      PROVE  \E a : a = s2c'[i][j].seq_no /\ TrueAck(a)'
  <2>1. CASE \E m \in DOMAIN s2c[i] : s2c'[i][j] = s2c[i][m]
    <3>1. PICK m \in DOMAIN s2c[i] : s2c'[i][j] = s2c[i][m] BY <2>1
    <3>2. PICK a : a = s2c[i][m].seq_no OBVIOUS
    <3>3. TrueAck(a) BY <1>3, <3>2 DEF TimelyInv
    <3> QED BY <1>0, <3>1, <3>2, <3>3
  <2> QED BY <1>3, <2>1
<1> QED BY <1>1, <1>2, <1>3, TimelyAfter

(* Sending on a packet that is in order, be it for the second time.        *)
LEMMA LatePacketSent ==
    ASSUME TypeInv, TypeInv', CopyInv, [Next]_vars, NoNewData, TimelyInv,
           tmp' = tmp, \A i \in Channels : SentOn(i)' => SentOn(i),
           pc' # "done" => pc # "done", s2c' = s2c,
           NEW c \in Channels, NEW p \in Packet, Timely(p)',
           c2s' = [c2s EXCEPT ![c] = Append(c2s[c], p)]
    PROVE  TimelyInv'
<1>1. c2s \in [Channels -> Seq(Packet)] BY DEF TypeInv, TypeOK
<1>2. ASSUME NEW i \in Channels, NEW j \in DOMAIN c2s'[i]
      PROVE  \/ \E m \in DOMAIN c2s[i] : c2s'[i][j] = c2s[i][m]
             \/ \E r : r = c2s'[i][j] /\ Timely(r)'
  <2>1. c2s'[i][j] = p \/ \E m \in DOMAIN c2s[i] : c2s'[i][j] = c2s[i][m]
    BY <1>1, <1>2, Appended
  <2> QED BY <2>1
<1>3. \A i \in Channels : \A j \in DOMAIN s2c'[i] :
         \E m \in DOMAIN s2c[i] : s2c'[i][j] = s2c[i][m]
  OBVIOUS
<1> QED BY <1>2, <1>3, LateTimely

(* The timeout of poll() sends the packet of the round again.              *)
LEMMA LateRetransmit ==
    ASSUME TypeInv, TypeInv', CopyInv, LateInv, Retransmit PROVE LateInv'
<1>0. TypeOK /\ LateControlInv /\ TimelyInv BY DEF TypeInv, LateInv
<1>1. /\ pc = "recv" /\ c2s' = [c2s EXCEPT ![ch] = Append(c2s[ch], tmp[ch])]
      /\ file' = file /\ pos' = pos /\ pc' = pc /\ ch' = ch /\ seq_no' = seq_no
      /\ eof_seq_no' = eof_seq_no /\ is_eof' = is_eof
      /\ payload_size' = payload_size /\ last_packet' = last_packet
      /\ tmp' = tmp /\ s2c' = s2c /\ out' = out /\ ready' = ready
  BY DEF Retransmit, client, server
<1>2. /\ ch \in Channels /\ tmp \in [Channels -> Packet] /\ ready \subseteq Channels
      /\ c2s \in [Channels -> Seq(Packet)]
  BY <1>0 DEF TypeOK
<1>3. Sent' = Sent /\ (Over' <=> Over) /\ Last' = Last
      /\ \A i \in Channels : SentOn(i)' <=> SentOn(i)
  BY <1>1 DEF Sent, Over, Last, SentOn
<1>4. NoNewData /\ [Next]_vars BY <1>1, <1>3 DEF NoNewData, Next, ClientNext
<1>5. PICK p \in Packet : p = tmp[ch] BY <1>2
<1>6. Timely(p)'
  <2>1. SentOn(ch) BY <1>0, <1>1 DEF SentOn, LateControlInv
  <2>2. Timely(p) BY <1>0, <1>2, <1>5, <2>1 DEF TimelyInv
  <2> QED BY <1>4, <2>2, LateCarries
<1>7. c2s' = [c2s EXCEPT ![ch] = Append(c2s[ch], p)] BY <1>1, <1>5
<1>8. TimelyInv'
  BY <1>0, <1>1, <1>2, <1>3, <1>4, <1>6, <1>7, LatePacketSent
<1>9. LateControlInv'
  <2>1. WrittenFrom(eof_seq_no)' <=> WrittenFrom(eof_seq_no)
    BY <1>1, <1>3 DEF WrittenFrom, Written
  <2>2. \A i \in ready : c2s'[i] # <<>> \/ pc = "done"
    <3> SUFFICES ASSUME NEW i \in ready PROVE c2s'[i] # <<>> \/ pc = "done" OBVIOUS
    <3>1. i \in Channels /\ c2s[i] \in Seq(Packet) BY <1>2
    <3>2. Append(c2s[i], p) # <<>> BY <3>1
    <3>3. c2s[i] # <<>> \/ pc = "done" BY <1>0 DEF LateControlInv
    <3> QED BY <1>2, <1>7, <3>1, <3>2, <3>3
  <2> QED BY <1>0, <1>1, <1>3, <2>1, <2>2 DEF LateControlInv
<1> QED BY <1>8, <1>9 DEF LateInv

(* A channel that select() reported keeps its packet when others are sent. *)
LEMMA ReadyKept ==
    ASSUME TypeOK, LateControlInv, NEW c \in Channels, NEW p \in Packet,
           c2s' = [c2s EXCEPT ![c] = Append(c2s[c], p)], NEW i \in ready
    PROVE  c2s'[i] # <<>> \/ pc = "done"
<1>1. c2s \in [Channels -> Seq(Packet)] /\ i \in Channels /\ c2s[i] \in Seq(Packet)
  BY DEF TypeOK
<1>2. Append(c2s[i], p) # <<>>
  <2>1. c2s[i] \in Seq(Packet) BY <1>1
  <2> QED BY <2>1
<1>3. c2s[i] # <<>> \/ pc = "done" BY DEF LateControlInv
<1> QED BY <1>1, <1>2, <1>3

(* The FIN is sent, or sent again: its number is that of the end.          *)
LEMMA LateFin ==
    ASSUME TypeInv, TypeInv', CopyInv, LateInv, SendFin \/ RetransmitFin
    PROVE  LateInv'
<1>0. TypeOK /\ LateControlInv /\ TimelyInv BY DEF TypeInv, LateInv
<1>1. /\ pc \in {"fin", "finack"} /\ pc' = "finack"
      /\ file' = file /\ pos' = pos /\ ch' = ch
      /\ eof_seq_no' = eof_seq_no /\ is_eof' = is_eof
      /\ last_packet' = last_packet
      /\ tmp' = tmp /\ s2c' = s2c /\ out' = out /\ ready' = ready
  BY DEF SendFin, RetransmitFin, client, server
<1>2. ready \subseteq Channels /\ seq_no \in Nat /\ payload_size \in Nat
      /\ 0 \in Channels /\ c2s \in [Channels -> Seq(Packet)]
  BY <1>0, ConstantFacts DEF TypeOK
<1>3. PICK p \in Packet : /\ p.is_last /\ p.seq_no = Sent
                          /\ c2s' = [c2s EXCEPT ![0] = Append(c2s[0], p)]
  <2>1. CASE SendFin
    <3> DEFINE fin == [seq_no |-> seq_no, size |-> payload_size, is_last |-> TRUE,
                       data |-> <<>>]
    <3>1. c2s' = [c2s EXCEPT ![0] = Append(c2s[0], fin)] /\ pc = "fin"
      BY <2>1 DEF SendFin
    <3>2. fin \in Packet BY <1>2 DEF Packet
    <3>3. fin.is_last /\ fin.seq_no = Sent BY <3>1 DEF Sent
    <3> QED BY <3>1, <3>2, <3>3
  <2>2. CASE RetransmitFin
    <3> DEFINE fin == [seq_no |-> seq_no - payload_size, size |-> payload_size,
                       is_last |-> TRUE, data |-> <<>>]
    <3>1. c2s' = [c2s EXCEPT ![0] = Append(c2s[0], fin)] /\ pc = "finack"
      BY <2>2 DEF RetransmitFin
    <3>2. seq_no - payload_size \in Nat BY <1>2, <3>1 DEF TypeInv, ProgressInv
    <3>3. fin \in Packet BY <1>2, <3>2 DEF Packet
    <3>4. fin.is_last /\ fin.seq_no = Sent BY <3>1 DEF Sent
    <3> QED BY <3>1, <3>3, <3>4
  <2> QED BY <2>1, <2>2
<1>4. Sent' = Sent
  <2>1. CASE SendFin BY <1>2, <2>1 DEF SendFin, Sent
  <2>2. CASE RetransmitFin BY <2>2 DEF RetransmitFin, Sent, client
  <2> QED BY <2>1, <2>2
<1>5. Over /\ Over' BY <1>1 DEF Over
<1>6. NoNewData /\ [Next]_vars
  BY <1>1, <1>4, <1>5 DEF NoNewData, Next, ClientNext
<1>7. Timely(p)' BY <1>3, <1>4, <1>5 DEF Timely
<1>8. \A i \in Channels : ~SentOn(i)' BY <1>1 DEF SentOn
<1>9. TimelyInv'
  BY <1>0, <1>1, <1>2, <1>3, <1>6, <1>7, <1>8, LatePacketSent
<1>10. LateControlInv'
  <2>1. WrittenFrom(eof_seq_no)' <=> WrittenFrom(eof_seq_no)
    BY <1>1, <1>4 DEF WrittenFrom, Written
  <2>2. \A i \in ready : c2s'[i] # <<>> BY <1>0, <1>1, <1>2, <1>3, ReadyKept
  <2> QED BY <1>0, <1>1, <1>5, <2>1, <2>2 DEF LateControlInv
<1> QED BY <1>9, <1>10 DEF LateInv

(* An ACK that names the chunk of EOF is the one that sets is_eof.         *)
LEMMA LateRecvAck ==
    ASSUME TypeInv, TypeInv', CopyInv, LateInv, RecvAck PROVE LateInv'
<1>0. TypeOK /\ LateControlInv /\ TimelyInv BY DEF TypeInv, LateInv
<1>1. /\ pc = "recv" /\ s2c[ch] # <<>> /\ s2c' = [s2c EXCEPT ![ch] = Tail(s2c[ch])]
      /\ file' = file /\ pos' = pos /\ seq_no' = seq_no
      /\ eof_seq_no' = eof_seq_no /\ last_packet' = last_packet
      /\ payload_size' = payload_size
      /\ tmp' = tmp /\ c2s' = c2s /\ out' = out /\ ready' = ready
  BY DEF RecvAck, server
<1>2. /\ is_eof' = (is_eof \/ Head(s2c[ch]).seq_no = eof_seq_no)
      /\ \/ ch < Last /\ ch' = ch + 1 /\ pc' = "recv"
         \/ ch' = 0 /\ pc' = "fin" /\ is_eof'
         \/ ch' = 0 /\ pc' = "send" /\ eof_seq_no = NoSeq
         \/ ch' = 0 /\ pc' = "recv" /\ eof_seq_no # NoSeq
  BY <1>1 DEF RecvAck, AcksEof
<1>3. /\ ch \in Channels /\ s2c \in [Channels -> Seq(Ack)]
      /\ eof_seq_no \in Nat \cup {NoSeq} /\ seq_no \in Nat
      /\ last_packet \in Channels \cup {-1}
  BY <1>0 DEF TypeOK
<1>4. Sent' = Sent /\ Last' = Last /\ pc' # "done" BY <1>1, <1>2 DEF Sent, Last
<1>5. Over => Over' BY <1>1, <1>2 DEF Over
<1>6. NoNewData /\ [Next]_vars
  BY <1>1, <1>4, <1>5 DEF NoNewData, Next, ClientNext
<1>7. \A i \in Channels : SentOn(i)' => SentOn(i)
  <2>1. \A i \in Channels : ~(i < 0) BY ConstantFacts DEF Channels
  <2> QED BY <1>1, <1>2, <1>4, <2>1 DEF SentOn
<1>8. TimelyInv'
  <2>1. \A i \in Channels : \A j \in DOMAIN s2c'[i] :
           \E m \in DOMAIN s2c[i] : s2c'[i][j] = s2c[i][m]
    BY <1>1, <1>3, Removed
  <2>2. \A i \in Channels : \A j \in DOMAIN c2s'[i] :
           \E m \in DOMAIN c2s[i] : c2s'[i][j] = c2s[i][m]
    BY <1>1
  <2> QED BY <1>0, <1>1, <1>6, <1>7, <2>1, <2>2, LateTimely
<1>9. is_eof' => Over' /\ WrittenFrom(eof_seq_no)'
  <2>1. \A a : WrittenFrom(a) => WrittenFrom(a)' BY <1>6, LateCarries
  <2>2. ASSUME Head(s2c[ch]).seq_no = eof_seq_no PROVE Over /\ WrittenFrom(eof_seq_no)
    <3>1. s2c[ch] \in Seq(Ack) BY <1>3
    <3>2. 1 \in DOMAIN s2c[ch] /\ Head(s2c[ch]) = s2c[ch][1] /\ s2c[ch][1] \in Ack
      BY <1>1, <3>1
    <3>3. PICK a : a = s2c[ch][1].seq_no OBVIOUS
    <3>4. TrueAck(a) BY <1>0, <1>1, <1>3, <3>2, <3>3 DEF TimelyInv
    <3>5. a = eof_seq_no /\ a \in Nat BY <2>2, <3>2, <3>3 DEF Ack
    <3>6. eof_seq_no # NoSeq BY <3>5 DEF NoSeq
    <3> QED BY <1>1, <3>4, <3>5, <3>6 DEF TrueAck, Over
  <2>3. PICK e : e = eof_seq_no OBVIOUS
  <2>4. is_eof' => Over /\ WrittenFrom(e)
    BY <1>0, <1>2, <2>2, <2>3 DEF LateControlInv
  <2>5. is_eof' => Over' /\ WrittenFrom(e)' BY <1>5, <2>1, <2>4
  <2> QED BY <1>1, <2>3, <2>5 DEF WrittenFrom
<1>10. LateControlInv'
  <2>1. ch' <= Last
    BY <1>0, <1>1, <1>2, <1>3, ConstantFacts DEF LateControlInv, Last, Channels
  <2>2. pc' = "fin" => is_eof' BY <1>2
  <2>3. pc' = "send" => last_packet' = -1 BY <1>0, <1>1, <1>2 DEF LateControlInv
  <2>4. pc' \in {"recv", "fin", "send"} BY <1>2
  <2>5. \A i \in ready : c2s[i] # <<>> BY <1>0, <1>1 DEF LateControlInv
  <2> QED
    BY <1>0, <1>1, <1>4, <1>9, <2>1, <2>2, <2>3, <2>4, <2>5 DEF LateControlInv
<1> QED BY <1>8, <1>10 DEF LateInv

(* Connecting and the client's exit: nothing is sent.                      *)
LEMMA LateConnectExit ==
    ASSUME TypeInv, TypeInv', CopyInv, LateInv, Connect \/ RecvFinAck
    PROVE  LateInv'
<1>0. TypeOK /\ LateControlInv /\ TimelyInv BY DEF TypeInv, LateInv
<1>1. /\ \/ pc = "connect" /\ pc' \in {"connect", "send"} /\ s2c' = s2c
         \/ pc = "finack" /\ pc' = "done"
      /\ file' = file /\ pos' = pos /\ ch' = ch /\ seq_no' = seq_no
      /\ eof_seq_no' = eof_seq_no /\ is_eof' = is_eof
      /\ payload_size' = payload_size /\ last_packet' = last_packet
      /\ tmp' = tmp /\ c2s' = c2s /\ out' = out /\ ready' = ready
  BY DEF Connect, RecvFinAck, server
<1>2. Sent' = Sent /\ (Over' <=> Over) BY <1>1 DEF Sent, Over
<1>3. NoNewData /\ [Next]_vars
  BY <1>1, <1>2 DEF NoNewData, Next, ClientNext
<1>4. \A i \in Channels : ~SentOn(i)'
  BY <1>0, <1>1, ConstantFacts DEF SentOn, LateControlInv, Channels
<1>5. TimelyInv'
  <2>1. \A i \in Channels : \A j \in DOMAIN c2s'[i] :
           \E m \in DOMAIN c2s[i] : c2s'[i][j] = c2s[i][m]
    BY <1>1
  <2>2. pc' # "done" =>
           /\ pc # "done"
           /\ \A i \in Channels : \A j \in DOMAIN s2c'[i] :
                 \E m \in DOMAIN s2c[i] : s2c'[i][j] = s2c[i][m]
    BY <1>1
  <2> QED BY <1>0, <1>1, <1>3, <1>4, <2>1, <2>2, LateTimely
<1>6. LateControlInv'
  <2>1. WrittenFrom(eof_seq_no)' <=> WrittenFrom(eof_seq_no)
    BY <1>1, <1>2 DEF WrittenFrom, Written
  <2> QED BY <1>0, <1>1, <1>2, <2>1 DEF LateControlInv
<1> QED BY <1>5, <1>6 DEF LateInv

(* What the server reads is gone from the channel, the rest stays.         *)
LEMMA LateServed ==
    ASSUME TypeInv, TypeInv', CopyInv, LateInv, NEW i \in Channels,
           DropPacket(i) \/ ServePacket(i),
           pc # "done" =>
              \A c \in Channels : \A j \in DOMAIN s2c'[c] :
                 \/ \E m \in DOMAIN s2c[c] : s2c'[c][j] = s2c[c][m]
                 \/ \E a : a = s2c'[c][j].seq_no /\ TrueAck(a)'
    PROVE  LateInv'
<1>0. TypeOK /\ LateControlInv /\ TimelyInv BY DEF TypeInv, LateInv
<1>1. /\ c2s[i] # <<>> /\ c2s' = [c2s EXCEPT ![i] = Tail(c2s[i])]
      /\ ready' = ready \ {i}
      /\ file' = file /\ pos' = pos /\ pc' = pc /\ ch' = ch /\ seq_no' = seq_no
      /\ eof_seq_no' = eof_seq_no /\ is_eof' = is_eof
      /\ payload_size' = payload_size /\ last_packet' = last_packet /\ tmp' = tmp
  BY DEF DropPacket, ServePacket, client
<1>2. c2s \in [Channels -> Seq(Packet)] /\ ready \subseteq Channels
  BY <1>0 DEF TypeOK
<1>3. Sent' = Sent /\ (Over' <=> Over) /\ Last' = Last
      /\ \A c \in Channels : SentOn(c)' <=> SentOn(c)
  BY <1>1 DEF Sent, Over, Last, SentOn
<1>4. NoNewData /\ [Next]_vars
  BY <1>1, <1>3 DEF NoNewData, Next, ServerNext
<1>5. TimelyInv'
  <2>1. \A c \in Channels : \A j \in DOMAIN c2s'[c] :
           \E m \in DOMAIN c2s[c] : c2s'[c][j] = c2s[c][m]
    BY <1>1, <1>2, Removed
  <2> QED BY <1>0, <1>1, <1>3, <1>4, <2>1, LateTimely
<1>6. LateControlInv'
  <2>1. is_eof => WrittenFrom(eof_seq_no)'
    <3>1. PICK e : e = eof_seq_no OBVIOUS
    <3>2. is_eof => WrittenFrom(e) BY <1>0, <3>1 DEF LateControlInv
    <3>3. is_eof => WrittenFrom(e)' BY <1>4, <3>2, LateCarries
    <3> QED BY <1>1, <3>1, <3>3 DEF WrittenFrom
  <2>2. \A c \in ready' : c2s'[c] = c2s[c] /\ c \in ready BY <1>1, <1>2
  <2>3. \A c \in ready' : c2s'[c] # <<>> \/ pc = "done"
    BY <1>0, <2>2 DEF LateControlInv
  <2> QED BY <1>0, <1>1, <1>3, <2>1, <2>3 DEF LateControlInv
<1> QED BY <1>5, <1>6 DEF LateInv

(* A packet that is served is written before its ACK is sent.              *)
LEMMA LateServePacket ==
    ASSUME TypeInv, TypeInv', CopyInv, LateInv, NEW i \in Channels, ServePacket(i)
    PROVE  LateInv'
<1> DEFINE p == Head(c2s[i])
<1>0. TypeOK /\ TimelyInv BY DEF TypeInv, LateInv
<1>1. /\ c2s[i] # <<>>
      /\ s2c' = [s2c EXCEPT ![i] = Append(s2c[i], [seq_no |-> p.seq_no])]
      /\ out' = IF p.is_last THEN out ELSE fwrite(p)
      /\ file' = file /\ pc' = pc /\ seq_no' = seq_no /\ payload_size' = payload_size
      /\ eof_seq_no' = eof_seq_no
  BY DEF ServePacket, client, IsFin
<1>2. c2s \in [Channels -> Seq(Packet)] /\ s2c \in [Channels -> Seq(Ack)]
      /\ seq_no \in Nat /\ payload_size \in Nat
  BY <1>0 DEF TypeOK
<1>3. p \in Slices BY <1>1, ChannelFacts DEF CopyInv, SliceInv
<1>4. Timely(p)
  <2>1. c2s[i] \in Seq(Packet) BY <1>2
  <2>2. 1 \in DOMAIN c2s[i] /\ p = c2s[i][1] BY <1>1, <2>1
  <2>3. Timely(c2s[i][1]) BY <1>0, <2>2 DEF TimelyInv
  <2> QED BY <2>2, <2>3
<1>5. PICK q \in Slices : q = p BY <1>3
<1> HIDE DEF p
<1>6. q.seq_no \in Nat /\ q.size \in Nat BY DEF Slices, Packet
<1>7. Sent' = Sent /\ Sent \in Int /\ (Over' <=> Over)
  BY <1>1, <1>2 DEF Sent, Over
<1>8. TrueAck(q.seq_no)'
  <2>0. Timely(q) BY <1>4, <1>5
  <2>1. CASE q.is_last
    <3>1. q.seq_no = Sent /\ Over BY <2>0, <2>1 DEF Timely
    <3>2. q.seq_no .. Sent' - 1 = {} BY <1>7, <3>1
    <3>3. ~(q.seq_no < Sent') BY <1>7, <3>1
    <3> QED BY <1>7, <3>1, <3>2, <3>3 DEF TrueAck, WrittenFrom
  <2>2. CASE ~q.is_last
    <3>1. q.seq_no + q.size <= Len(file) BY <2>2 DEF Slices
    <3>2. DOMAIN out = 0 .. Len(file) - 1 /\ Len(file) \in Nat BY <1>0 DEF TypeOK
    <3>3. ASSUME NEW k \in q.seq_no .. q.seq_no + q.size - 1 PROVE Written(k)'
      <4>1. k \in DOMAIN out BY <1>6, <3>1, <3>2
      <4>2. out' = fwrite(q) /\ file' = file BY <1>1, <1>5, <2>2
      <4> QED BY <1>0, <2>2, <4>1, <4>2, FwriteSlice DEF Written
    <3>4. /\ q.seq_no + q.size <= Sent
          /\ q.seq_no = eof_seq_no => q.seq_no + q.size = Sent
          /\ q.size = 0 => q.seq_no = Sent /\ Over
      BY <2>0, <2>2 DEF Timely
    <3>5. q.seq_no < Sent' => Written(q.seq_no)'
      <4> SUFFICES ASSUME q.seq_no < Sent' PROVE Written(q.seq_no)' OBVIOUS
      <4>1. q.seq_no \in q.seq_no .. q.seq_no + q.size - 1
        BY <1>6, <1>7, <3>4
      <4> QED BY <3>3, <4>1
    <3>6. q.seq_no = eof_seq_no' => WrittenFrom(q.seq_no)'
      <4> SUFFICES ASSUME q.seq_no = eof_seq_no' PROVE WrittenFrom(q.seq_no)' OBVIOUS
      <4>1. q.seq_no + q.size = Sent' BY <1>1, <1>7, <3>4
      <4>2. q.seq_no .. Sent' - 1 = q.seq_no .. q.seq_no + q.size - 1
        BY <1>6, <1>7, <4>1
      <4>3. \A k \in q.seq_no .. Sent' - 1 : Written(k)' BY <3>3, <4>2, Zenon
      <4> QED BY <4>3 DEF WrittenFrom
    <3>7. q.seq_no >= Sent' => Over' BY <1>6, <1>7, <3>4
    <3> QED BY <3>5, <3>6, <3>7 DEF TrueAck
  <2> QED BY <2>1, <2>2
<1>9. ASSUME NEW c \in Channels, NEW j \in DOMAIN s2c'[c]
      PROVE  \/ \E m \in DOMAIN s2c[c] : s2c'[c][j] = s2c[c][m]
             \/ \E a : a = s2c'[c][j].seq_no /\ TrueAck(a)'
  <2> DEFINE e == [seq_no |-> q.seq_no]
  <2>1. e \in Ack /\ e.seq_no = q.seq_no BY <1>6 DEF Ack
  <2>2. s2c' = [s2c EXCEPT ![i] = Append(s2c[i], e)] BY <1>1, <1>5
  <2> HIDE DEF e
  <2>3. s2c'[c][j] = e \/ \E m \in DOMAIN s2c[c] : s2c'[c][j] = s2c[c][m]
    BY <1>2, <1>9, <2>1, <2>2, Appended
  <2> QED BY <1>8, <2>1, <2>3
<1> QED BY <1>9, LateServed

(* Steps that touch neither packets nor ACKs the client will read.         *)
LEMMA LateElsewhere ==
    ASSUME TypeInv, TypeInv', CopyInv, LateInv, [Next]_vars,
           UNCHANGED <<file, pos, pc, ch, seq_no, eof_seq_no, is_eof, payload_size,
                       last_packet, tmp, c2s, out>>,
           pc # "done" => s2c' = s2c,
           \A i \in ready' : c2s[i] # <<>> \/ pc = "done"
    PROVE  LateInv'
<1>0. LateControlInv /\ TimelyInv BY DEF LateInv
<1>1. Sent' = Sent /\ (Over' <=> Over) /\ Last' = Last
      /\ \A c \in Channels : SentOn(c)' <=> SentOn(c)
  BY DEF Sent, Over, Last, SentOn
<1>2. NoNewData BY <1>1 DEF NoNewData
<1>3. TimelyInv'
  <2>1. \A i \in Channels : \A j \in DOMAIN c2s'[i] :
           \E m \in DOMAIN c2s[i] : c2s'[i][j] = c2s[i][m]
    OBVIOUS
  <2>2. pc' # "done" =>
           /\ pc # "done"
           /\ \A i \in Channels : \A j \in DOMAIN s2c'[i] :
                 \E m \in DOMAIN s2c[i] : s2c'[i][j] = s2c[i][m]
    OBVIOUS
  <2> QED BY <1>0, <1>1, <1>2, <2>1, <2>2, LateTimely
<1>4. LateControlInv'
  <2>1. WrittenFrom(eof_seq_no)' <=> WrittenFrom(eof_seq_no)
    BY <1>1 DEF WrittenFrom, Written
  <2> QED BY <1>0, <1>1, <2>1 DEF LateControlInv
<1> QED BY <1>3, <1>4 DEF LateInv

(* Every step of both programs keeps ACKs true.                            *)
LEMMA LateNext ==
    ASSUME TextInputs
    PROVE  TypeInv /\ TypeInv' /\ CopyInv /\ LateInv /\ [Next]_vars => LateInv'
<1> SUFFICES ASSUME TypeInv, TypeInv', CopyInv, LateInv, [Next]_vars
             PROVE  LateInv'
  OBVIOUS
<1>0. LateControlInv BY DEF LateInv
<1>1. CASE Connect \/ RecvFinAck BY <1>1, LateConnectExit
<1>2. CASE SendChunk BY <1>2, LateSendChunk
<1>3. CASE Retransmit BY <1>3, LateRetransmit
<1>4. CASE RecvAck BY <1>4, LateRecvAck
<1>5. CASE SendFin \/ RetransmitFin BY <1>5, LateFin
<1>6. ASSUME NEW i \in Channels, DropPacket(i) PROVE LateInv'
  <2>1. s2c' = s2c BY <1>6 DEF DropPacket
  <2> QED BY <1>6, <2>1, LateServed
<1>7. ASSUME NEW i \in Channels, ServePacket(i) PROVE LateInv'
  BY <1>7, LateServePacket
<1>8. CASE Select
  <2>1. /\ UNCHANGED <<file, pos, pc, ch, seq_no, eof_seq_no, is_eof, payload_size,
                       last_packet, tmp, c2s, out>>
        /\ s2c' = s2c /\ \A i \in ready' : c2s[i] # <<>> \/ pc = "done"
    BY <1>8 DEF Select, client
  <2> QED BY <2>1, LateElsewhere
<1>9. ASSUME NEW i \in Channels, ServeClosed(i) PROVE LateInv'
  <2>1. /\ UNCHANGED <<file, pos, pc, ch, seq_no, eof_seq_no, is_eof, payload_size,
                       last_packet, tmp, c2s, out>>
        /\ i \in ready /\ c2s[i] = <<>> /\ ready' = ready \ {i}
    BY <1>9 DEF ServeClosed, Serving, client
  <2>2. pc = "done" BY <1>0, <2>1 DEF LateControlInv
  <2> QED BY <2>1, <2>2, LateElsewhere
<1>10. CASE \/ Accept \/ Finish \/ UNCHANGED vars
            \/ \E i \in Channels : ServeReset(i)
  <2>1. /\ UNCHANGED <<file, pos, pc, ch, seq_no, eof_seq_no, is_eof, payload_size,
                       last_packet, tmp, c2s, out>>
        /\ s2c' = s2c /\ ready' = ready
    BY <1>10 DEF Accept, Finish, ServeReset, vars, client, server
  <2>2. \A i \in ready' : c2s[i] # <<>> \/ pc = "done"
    BY <1>0, <2>1 DEF LateControlInv
  <2> QED BY <2>1, <2>2, LateElsewhere
<1> QED
  BY <1>1, <1>2, <1>3, <1>4, <1>5, <1>6, <1>7, <1>8, <1>9, <1>10
  DEF Next, ClientNext, ServerNext, Terminated

(* The invariant of the upload with ACKs as late as they like.             *)
LEMMA LateInvariance ==
    ASSUME TextInputs PROVE Spec => [](TypeInv /\ CopyInv /\ LateInv)
<1>1. Init => TypeInv /\ CopyInv /\ LateInv
  BY TypeInit, CopyInit, LateInit
<1>2. TypeInv /\ CopyInv /\ LateInv /\ [Next]_vars =>
        (TypeInv /\ CopyInv /\ LateInv)'
  BY TypeNext, CopyNext, LateNext
<1> QED BY <1>1, <1>2, PTL DEF Spec

(* An ACK on its way stands for a packet that server.c has written, however *)
(* often packets were lost or repeated and however late ACKs are.          *)
THEOREM AcksAreTrue ==
    ASSUME TextInputs PROVE Spec => []AckMeansWritten
<1>1. LateInv => AckMeansWritten
  BY DEF LateInv, TimelyInv, TrueAck, AckMeansWritten
<1> QED BY <1>1, LateInvariance, PTL

(* When client.c sends its FIN the chunk that met EOF is in output.txt,    *)
(* even if a late ACK of an earlier round was taken for one of this round. *)
THEOREM LastChunkDelivered ==
    ASSUME TextInputs PROVE Spec => []EofDelivered
<1>1. LateInv => EofDelivered
  BY DEF LateInv, LateControlInv, WrittenFrom, EofDelivered
<1> QED BY <1>1, LateInvariance, PTL

=============================================================================
