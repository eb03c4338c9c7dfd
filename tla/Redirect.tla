------------------------------- MODULE Redirect -------------------------------
(***************************************************************************)
(* What the forked child in Process::New (src/src/Process.cpp:40-49, and   *)
(* 72-81 of the other overload) does to its descriptors before it runs the *)
(* program: for each of the standard descriptors 0, 1, 2 in turn, dup2 the *)
(* requested one onto it and close the requested one.                      *)
(*                                                                         *)
(* The open files are told apart by the number they have at the fork; the  *)
(* child inherits all of them.  dup2 fails for a source that is not open.  *)
(***************************************************************************)
EXTENDS Integers

CONSTANT MaxFd   (* The highest descriptor number there is.                *)

ASSUME RedirectAssumption == MaxFd \in Nat /\ MaxFd >= 2

VARIABLES
  stdfd,  (* The argument: for 0, 1, 2 a descriptor number, or -1.         *)
  inherited, (* The descriptors that were open at the fork.                *)
  table,  (* The file behind every descriptor number, -1 if it is closed.  *)
  i,      (* The loop counter.                                             *)
  pc      (* "loop", "exec" (the program starts) or "aborted".             *)

childVars == <<stdfd, inherited, table, i, pc>>

FdNums == 0 .. MaxFd
Std == 0 .. 2

(* The file table at the fork.                                             *)
AtFork == [fd \in FdNums |-> IF fd \in inherited THEN fd ELSE -1]

-----------------------------------------------------------------------------
ChildInit ==
  /\ stdfd \in [Std -> FdNums \cup {-1}]
  /\ inherited \in SUBSET FdNums
  /\ table = AtFork
  /\ i = 0
  /\ pc = "loop"

(* if (fd == -1) continue;                                                 *)
Skip ==
  /\ pc = "loop" /\ i < 3
  /\ stdfd[i] = -1
  /\ i' = i + 1
  /\ UNCHANGED <<stdfd, inherited, table, pc>>

(* Mutants of DupAndClose: close comes before dup2, close leaves a source  *)
(* that is the target alone, there is no close, the loop goes on behind    *)
(* the source.                                                             *)
CloseThenDup ==
  /\ pc = "loop" /\ i < 3
  /\ stdfd[i] # -1
  /\ table[stdfd[i]] # -1
  /\ table' = [[table EXCEPT ![stdfd[i]] = -1] EXCEPT ![i] = -1]
  /\ i' = i + 1
  /\ UNCHANGED <<stdfd, inherited, pc>>

DupAndCloseOther ==
  /\ pc = "loop" /\ i < 3
  /\ stdfd[i] # -1
  /\ table[stdfd[i]] # -1
  /\ table' = IF stdfd[i] = i THEN table
              ELSE [[table EXCEPT ![i] = table[stdfd[i]]] EXCEPT ![stdfd[i]] = -1]
  /\ i' = i + 1
  /\ UNCHANGED <<stdfd, inherited, pc>>

DupOnly ==
  /\ pc = "loop" /\ i < 3
  /\ stdfd[i] # -1
  /\ table[stdfd[i]] # -1
  /\ table' = [table EXCEPT ![i] = table[stdfd[i]]]
  /\ i' = i + 1
  /\ UNCHANGED <<stdfd, inherited, pc>>

DupAndCloseSkips ==
  /\ pc = "loop" /\ i < 3
  /\ stdfd[i] # -1
  /\ table[stdfd[i]] # -1
  /\ table' = [[table EXCEPT ![i] = table[stdfd[i]]] EXCEPT ![stdfd[i]] = -1]
  /\ i' = stdfd[i] + 1
  /\ UNCHANGED <<stdfd, inherited, pc>>

(* dup2(fd, i), which does nothing when the two are equal, and close(fd),  *)
(* which is not asked whether fd is one of 0, 1, 2.                        *)
DupAndClose ==
  /\ pc = "loop" /\ i < 3
  /\ stdfd[i] # -1
  /\ table[stdfd[i]] # -1
  /\ table' = [[table EXCEPT ![i] = table[stdfd[i]]] EXCEPT ![stdfd[i]] = -1]
  /\ i' = i + 1
  /\ UNCHANGED <<stdfd, inherited, pc>>

(* dup2 fails: abort().                                                    *)
DupFails ==
  /\ pc = "loop" /\ i < 3
  /\ stdfd[i] # -1
  /\ table[stdfd[i]] = -1
  /\ pc' = "aborted"
  /\ UNCHANGED <<stdfd, inherited, table, i>>

(* execvp, or exit(main(args)).                                            *)
Run ==
  /\ pc = "loop" /\ i = 3
  /\ pc' = "exec"
  /\ UNCHANGED <<stdfd, inherited, table, i>>

ChildNext == Skip \/ DupAndClose \/ DupFails \/ Run

ChildSpec == ChildInit /\ [][ChildNext]_childVars

-----------------------------------------------------------------------------
(* Properties. *)

Redirected == {n \in Std : stdfd[n] # -1}

(* The requests the loop can serve: sources that are open and all          *)
(* different, each either beyond the standard ones, or a standard one      *)
(* whose own turn is still to come and that is redirected then.            *)
Orderly ==
  /\ \A n \in Redirected :
       /\ stdfd[n] \in inherited
       /\ stdfd[n] > 2 \/ (stdfd[n] > n /\ stdfd[n] \in Redirected)
  /\ \A m, n \in Redirected : m # n => stdfd[m] # stdfd[n]

(* What the caller asked for: 0, 1 and 2 are the files behind the numbers  *)
(* in stdfd at the fork, or what they were.                                *)
AsRequested ==
  \A n \in Std : table[n] = AtFork[IF n \in Redirected THEN stdfd[n] ELSE n]

(* Well-formedness of the state.                                           *)
ChildTypeOK ==
  /\ stdfd \in [Std -> FdNums \cup {-1}]
  /\ inherited \in SUBSET FdNums
  /\ table \in [FdNums -> FdNums \cup {-1}]
  /\ i \in 0 .. 3
  /\ pc \in {"loop", "exec", "aborted"}

(* An orderly request is served: the child does not abort and its program  *)
(* starts with the standard descriptors it was to have.                    *)
OrderlyIsServed ==
  Orderly => pc # "aborted" /\ (pc = "exec" => AsRequested)

(* No other request is: swapped, repeated, closed or unchanged ones        *)
(* (stdfd[n] = n) abort the child or start the program with a standard     *)
(* descriptor that is closed or the wrong one.                             *)
OnlyOrderlyIsServed ==
  pc = "exec" /\ AsRequested => Orderly

(* The program has no second number for a file that it was given as a      *)
(* standard descriptor, and all other inherited ones stay open: of a pipe, *)
(* the end that the child shall not have as well (Process.cpp:48).         *)
OthersInherited ==
  pc = "exec" /\ Orderly =>
    \A fd \in 3 .. MaxFd :
      table[fd] = IF \E n \in Redirected : stdfd[n] = fd THEN -1 ELSE AtFork[fd]
=============================================================================
