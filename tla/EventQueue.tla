----------------------------- MODULE EventQueue -----------------------------
(* What a ring between an interrupt handler and its reader promises: what   *)
(* is put in comes out once and in order; what no longer fits is dropped,   *)
(* from the end.  A ring of SIZE slots holds SIZE - 1, and may count the    *)
(* one being read as not yet read.                                          *)
EXTENDS Naturals, Sequences, SequencesExt

CONSTANTS
  SIZE,
  Batches,             \* what one interrupt may put in
  None

VARIABLES pending, out      \* waiting; the last one that was read

Init == pending = << >> /\ out = None

(* Of a batch, what fits.                                                   *)
PutIn ==
  /\ UNCHANGED out
  /\ IsPrefix(pending, pending')
  /\ LET new == SubSeq(pending', Len(pending) + 1, Len(pending')) IN
       \E batch \in Batches :
         /\ IsPrefix(new, batch)
         /\ Len(pending') < SIZE
         /\ new = batch \/ Len(pending') >= SIZE - 2

Read ==
  /\ pending # << >>
  /\ out' = Head(pending)
  /\ pending' = Tail(pending)

(* The reader has no use for it any more.                                   *)
Forget == out' = None /\ UNCHANGED pending

Spec == Init /\ [][Read \/ Forget \/ PutIn]_<< pending, out >>
=============================================================================
