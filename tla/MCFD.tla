--------------------------------- MODULE MCFD ---------------------------------
(* TLC instance of FD: neither objects nor descriptor numbers are ordered.   *)
EXTENDS FD, TLC

Symmetry == Permutations(Fds) \cup Permutations(Objs)
=============================================================================
