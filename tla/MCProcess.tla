------------------------------ MODULE MCProcess -------------------------------
(* TLC instance of Process: pids are numbers from 2 on.                      *)
EXTENDS Process

TwoPids == {2, 3}
=============================================================================
