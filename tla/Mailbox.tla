------------------------------ MODULE Mailbox -------------------------------
(***************************************************************************)
(* What crossing from the JTAG clock to the processor clock promises: what *)
(* was put into the box is taken out exactly once, as it was put in, and   *)
(* before the next is put in.                                              *)
(***************************************************************************)
EXTENDS Naturals

CONSTANTS Msg, None

VARIABLES
  box,    \* the message in the box
  taken,  \* the last one taken
  count   \* how many were taken, modulo two

vars == <<box, taken, count>>

Init == box = None /\ taken = None /\ count = 0

Put(m) == box = None /\ box' = m /\ UNCHANGED <<taken, count>>

Take == box # None /\ taken' = box /\ box' = None /\ count' = 1 - count

Next == Take \/ \E m \in Msg : Put(m)

Spec == Init /\ [][Next]_vars
FairSpec == Spec /\ WF_vars(Take)
=============================================================================
