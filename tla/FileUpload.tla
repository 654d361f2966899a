----------------------------- MODULE FileUpload -----------------------------
(***************************************************************************)
(* What the upload programs promise of the file they copy, whatever the    *)
(* channels do: output.txt grows by pieces of input.txt, each at its own   *)
(* offset, and once the client has exited nothing is missing but,          *)
(* possibly, the last byte, which get_next_chunk throws away when the file *)
(* does not fill its last packet.                                          *)
(***************************************************************************)
EXTENDS Integers, Sequences

CONSTANTS
    Inputs,         \* the contents input.txt may have
    Unwritten       \* a byte of output.txt nobody has written

VARIABLES file, out, finished

Init ==
    /\ file \in Inputs
    /\ out = [k \in 0 .. Len(file) - 1 |-> Unwritten]
    /\ finished = FALSE

(* Bytes lo..hi arrive.                                                    *)
Deliver(lo, hi) ==
    /\ ~finished
    /\ out' = [k \in DOMAIN out |-> IF k \in lo .. hi THEN file[k + 1]
                                                      ELSE out[k]]
    /\ UNCHANGED <<file, finished>>

(* The client exits.                                                       *)
Finish ==
    /\ ~finished
    /\ \A k \in 0 .. Len(file) - 2 : out[k] = file[k + 1]
    /\ finished' = TRUE
    /\ UNCHANGED <<file, out>>

Next == Finish \/ \E lo, hi \in DOMAIN out : Deliver(lo, hi)

Spec == Init /\ [][Next]_<<file, out, finished>>
=============================================================================
