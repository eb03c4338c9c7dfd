------------------------------ MODULE CharStream ------------------------------
(***************************************************************************)
(* What a stream of characters promises its two ends: what is received is  *)
(* a beginning of what was sent, and only of what was passed on by then.   *)
(* The characters are numbered in the order in which they are sent.        *)
(* A stream that is broken promises nothing.                               *)
(***************************************************************************)
EXTENDS Integers, Sequences, SequencesExt

VARIABLES
  sent,    (* How many characters were sent.                               *)
  passed,  (* How many of them were passed on.                             *)
  rcvd,    (* The characters that the receiver has taken.                  *)
  broken

vars == <<sent, passed, rcvd, broken>>

Init ==
  /\ sent = 0
  /\ passed = 0
  /\ rcvd = <<>>
  /\ broken = FALSE

Send ==
  /\ sent' = sent + 1
  /\ UNCHANGED <<passed, rcvd, broken>>

(* Passing on takes everything that was sent.                              *)
Pass ==
  /\ passed' = sent
  /\ UNCHANGED <<sent, rcvd, broken>>

Receive ==
  /\ Len(rcvd) < passed
  /\ rcvd' = Append(rcvd, Len(rcvd) + 1)
  /\ UNCHANGED <<sent, passed, broken>>

(* The receiver gives the last character back.                             *)
Return ==
  /\ rcvd # <<>>
  /\ rcvd' = Front(rcvd)
  /\ UNCHANGED <<sent, passed, broken>>

Break == broken' = TRUE

Next ==
  \/ ~broken /\ (Send \/ Pass \/ Receive \/ Return)
  \/ Break

Spec == Init /\ [][Next]_vars
=============================================================================
