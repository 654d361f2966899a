---------------------------- MODULE StopNWaitInv ----------------------------
(* The inductive invariants behind the theorems of StopNWaitProofs.        *)
EXTENDS StopNWait

(* Data packets that are a slice of the file: the sequence number is the   *)
(* offset of the first byte.                                               *)
Slices ==
    {p \in Packet :
        ~p.is_last => /\ p.seq_no + p.size <= Len(file)
                      /\ \A j \in 1 .. p.size : p.data[j] = file[p.seq_no + j]}

(* Counters stay in step with the file, whatever the channels do.          *)
ProgressInv ==
    /\ file \in Inputs
    /\ pc = "connect" => connected < NUM_CHANNELS
    /\ pc \in {"finack", "done"} => payload_size <= seq_no
    /\ pc \notin {"finack", "done"} =>
          seq_no <= pos /\ (pos = seq_no \/ pos = Len(file))
    /\ \A i \in Channels : ~tmp[i].is_last

(* Whatever a packet is, wherever it waits, it is a slice of the file.     *)
SliceInv == tmp \in [Channels -> Slices] /\ c2s \in [Channels -> Seq(Slices)]

(* Channel i still owes the client an ACK of this round.                   *)
Pending(i) ==
    \/ pc = "send" /\ i < ch
    \/ pc = "recv" /\ ch <= i /\ i <= Last
    \/ pc = "finack" /\ i = 0

InFlightOn(i) ==
    /\ Len(c2s[i]) + Len(s2c[i]) <= 1
    /\ ~Pending(i) => c2s[i] = <<>> /\ s2c[i] = <<>>
    /\ c2s[i] # <<>> => IF pc = "finack" THEN Head(c2s[i]).is_last
                                         ELSE Head(c2s[i]) = tmp[i]
    /\ s2c[i] # <<>> =>
          IF pc = "finack" THEN is_last
          ELSE \A k \in tmp[i].seq_no .. tmp[i].seq_no + tmp[i].size - 1 :
                  Written(k)

FlightInv ==
    /\ \A i \in Channels : InFlightOn(i)
    /\ \A i \in ready : c2s[i] # <<>>

(* Byte k is in a packet whose ACK is still to be read.                    *)
Owed(k) ==
    /\ pc \in {"send", "recv"}
    /\ \E i \in Channels :
          Pending(i) /\ k \in tmp[i].seq_no .. tmp[i].seq_no + tmp[i].size - 1

OwedInv == \A k \in 0 .. Sent - 1 : Written(k) \/ Owed(k)

ControlInv ==
    /\ IF eof_seq_no = NoSeq THEN pos = seq_no ELSE Sent >= Len(file) - 1
    /\ pc \in {"connect", "send"} => last_packet = -1 /\ ~is_eof
    /\ last_packet # -1 \/ is_eof => eof_seq_no # NoSeq
    /\ pc = "recv" => ch <= Last
    /\ pc \in {"fin", "finack", "done"} => is_eof
    /\ is_last => pc \in {"finack", "done"}
    /\ pc = "done" => is_last

(* With acknowledgements in time every channel carries at most the one     *)
(* packet of the round, and a byte sent is written or still owed.          *)
DeliveryInv == FlightInv /\ OwedInv /\ ControlInv
-----------------------------------------------------------------------------
(* What holds however late acknowledgements are.                           *)

(* No chunk will be read any more.                                         *)
Over == pc \in {"fin", "finack", "done"} \/ (pc = "recv" /\ eof_seq_no # NoSeq)

(* A packet lies within what has been sent; the one that met EOF is the    *)
(* last of it, and an empty one is sent when all is.                       *)
Timely(p) ==
    IF p.is_last THEN p.seq_no = Sent /\ Over
    ELSE /\ p.seq_no + p.size <= Sent
         /\ p.seq_no = eof_seq_no => p.seq_no + p.size = Sent
         /\ p.size = 0 => p.seq_no = Sent /\ Over

(* Everything from offset a on is written.                                 *)
WrittenFrom(a) == \A k \in a .. Sent - 1 : Written(k)

TrueAck(a) ==
    /\ a < Sent => Written(a)
    /\ a = eof_seq_no => WrittenFrom(a)
    /\ a >= Sent => Over

LateControlInv ==
    /\ pc = "connect" => ch = 0
    /\ eof_seq_no # NoSeq => pos = Len(file)
    /\ pc \in {"connect", "send"} => last_packet = -1
    /\ last_packet # -1 => eof_seq_no # NoSeq
    /\ pc = "recv" => ch <= Last
    /\ pc \in {"fin", "finack", "done"} => is_eof
    /\ is_eof => Over /\ WrittenFrom(eof_seq_no)
    /\ \A i \in ready : c2s[i] # <<>> \/ pc = "done"

(* The packet of this round has been sent on channel i.                    *)
SentOn(i) == (pc = "send" /\ i < ch) \/ (pc = "recv" /\ i <= Last)

TimelyInv ==
    /\ \A i \in Channels : SentOn(i) => Timely(tmp[i])
    /\ \A i \in Channels : \A j \in DOMAIN c2s[i] : Timely(c2s[i][j])
    /\ pc # "done" => \A i \in Channels : \A j \in DOMAIN s2c[i] : TrueAck(s2c[i][j].seq_no)

LateInv == LateControlInv /\ TimelyInv
=============================================================================
