------------------------------- MODULE Process --------------------------------
(***************************************************************************)
(* Class Process (src/src/Process.h, Process.cpp), seen by the parent, and *)
(* the SIGTERM mask that its children inherit from the SigMask scopes      *)
(* (src/src/Signal.cpp) they are started in.                               *)
(*                                                                         *)
(* The kernel is a table of processes: the children that New() forked, and *)
(* foreign ones that use any pid that is free, so that the pid of a reaped *)
(* child may come to name a stranger.  A child exits when it likes; a      *)
(* SIGTERM ends it unless it blocks, ignores or handles the signal (it is  *)
(* deaf), a SIGKILL always does.  A signal is remembered, until its target *)
(* ends, with the object whose Kill() has sent it.  The objects are used   *)
(* by one thread each; EINTR in waitpid only repeats the call.             *)
(***************************************************************************)
EXTENDS Integers, Sequences

CONSTANTS
  Pids,         (* The process ids that are handed out.                    *)
  Objs,         (* The Process objects a program may have.                 *)
  Foreign,      (* The owner of a process that is no child.                *)
  MaxScopes,    (* Bound on the nesting of SigMask scopes.                 *)
  ForkMayFail   (* Whether ::fork may answer -1.                           *)

ASSUME ProcessAssumption ==
  /\ Pids \subseteq Nat \ {0, 1}
  /\ Foreign \notin Objs
  /\ MaxScopes \in Nat
  /\ ForkMayFail \in BOOLEAN

VARIABLES
  tab,     (* Kernel: the process table.                                   *)
  obj,     (* The members of every object and how far its life has got.    *)
  ans,     (* What the last Terminated() of an object answered, if any.    *)
  exited,  (* The status with which the object's child exited, if it has.  *)
  blocked, (* The parent's signal mask.                                    *)
  scopes,  (* The SigMask objects in scope, innermost last: the argument   *)
           (* of the constructor and oldset_.                              *)
  up       (* FALSE once a destructor has thrown: std::terminate().        *)

vars == <<tab, obj, ans, exited, blocked, scopes, up>>

(* Exit statuses: zero, and all the others.                                *)
Statuses == {0, 1}

Sigs == {"TERM", "KILL"}

Maskable == {"TERM"}

Unused ==
  [st |-> "free", owner |-> Foreign, deaf |-> FALSE, sigs |-> {}, stat |-> 0]

NoObj == [pc |-> "none", pid |-> -1, waited |-> FALSE, xstat |-> 0]

(* The processes that kill(pid) reaches, and the children for waitpid(pid): *)
(* for -1 these are all of them.                                           *)
Named(pid) == IF pid = -1 THEN Pids ELSE {pid}

Running(pid) == {p \in Named(pid) : tab[p].st = "running"}

ChildrenNamed(pid) ==
  {p \in Named(pid) : tab[p].st # "free" /\ tab[p].owner # Foreign}

Zombies(pid) == {p \in ChildrenNamed(pid) : tab[p].st = "zombie"}

-----------------------------------------------------------------------------
(* The class. *)

(* New(): fork, and an object for whatever pid came back.  A failing fork  *)
(* answers -1, which the test against 1 lets through.  The child keeps the *)
(* parent's signal mask over exec; its program may ignore SIGTERM as well. *)
(* There is memory for the object: without it the child would stay without *)
(* one, and be to all others like a stranger.                              *)
New(o) ==
  /\ obj[o].pc = "none"
  /\ \E pid \in {p \in Pids : tab[p].st = "free"}
                  \cup (IF ForkMayFail THEN {-1} ELSE {}) :
       \E ignores \in BOOLEAN :
         /\ obj' = [obj EXCEPT ![o] = [pc |-> "alive", pid |-> pid,
                                       waited |-> FALSE, xstat |-> 0]]
         /\ tab' = IF pid = -1
                   THEN tab
                   ELSE [tab EXCEPT ![pid] = [Unused EXCEPT !.st = "running",
                                                     !.owner = o,
                                                     !.deaf = "TERM" \in blocked \/ ignores]]
  /\ ans' = [ans EXCEPT ![o] = "none"]
  /\ exited' = [exited EXCEPT ![o] = {}]
  /\ UNCHANGED <<blocked, scopes, up>>

(* Mutant of Signalled: no early return once waited_ is set.               *)
SignalledAnyway(o, sig) ==
  [p \in Pids |-> IF p \in Running(obj[o].pid)
                  THEN [tab[p] EXCEPT
                               !.sigs = @ \cup {[sig |-> sig, from |-> o]}]
                  ELSE tab[p]]

(* The kernel's side of o's Kill(sig): nothing at all once waited_ is set, *)
(* and a warning when there is no such process.                            *)
Signalled(o, sig) ==
  IF obj[o].waited
  THEN tab
  ELSE [p \in Pids |-> IF p \in Running(obj[o].pid)
                       THEN [tab[p] EXCEPT
                               !.sigs = @ \cup {[sig |-> sig, from |-> o]}]
                       ELSE tab[p]]

Kill(o, sig) ==
  /\ obj[o].pc = "alive"
  /\ tab' = Signalled(o, sig)
  /\ UNCHANGED <<obj, ans, exited, blocked, scopes, up>>

(* Mutants of Reap: waited_ is not set, xstat_ is not stored, the pid that *)
(* waitpid returns is taken for the status.                                *)
ReapUnrecorded(o, z) ==
  /\ tab' = [tab EXCEPT ![z] = Unused]
  /\ obj' = [obj EXCEPT ![o] = [@ EXCEPT !.xstat = tab[z].stat]]

ReapNoStatus(o, z) ==
  /\ tab' = [tab EXCEPT ![z] = Unused]
  /\ obj' = [obj EXCEPT ![o] = [@ EXCEPT !.waited = TRUE]]

ReapPidAsStatus(o, z) ==
  /\ tab' = [tab EXCEPT ![z] = Unused]
  /\ obj' = [obj EXCEPT ![o] = [@ EXCEPT !.waited = TRUE, !.xstat = z]]

(* A successful waitpid: the zombie z is gone, its status in xstat_.       *)
Reap(o, z) ==
  /\ tab' = [tab EXCEPT ![z] = Unused]
  /\ obj' = [obj EXCEPT ![o] = [@ EXCEPT !.waited = TRUE, !.xstat = tab[z].stat]]

(* Mutant of Terminated: the answer is that the child exited with 0.       *)
TerminatedInverted(o) ==
  /\ obj[o].pc = "alive"
  /\ ~obj[o].waited
  /\ \E z \in Zombies(obj[o].pid) :
       /\ Reap(o, z)
       /\ ans' = [ans EXCEPT ![o] = IF tab[z].stat = 0 THEN "yes" ELSE "no"]
  /\ UNCHANGED <<exited, blocked, scopes, up>>

(* Terminated(): one waitpid with WNOHANG.  The status it has just reaped  *)
(* is the answer, so that a child that exited with 0 is answered FALSE     *)
(* once; ECHILD throws and changes nothing.                                *)
Terminated(o) ==
  /\ obj[o].pc = "alive"
  /\ \/ /\ obj[o].waited
        /\ ans' = [ans EXCEPT ![o] = "yes"]
        /\ UNCHANGED <<tab, obj>>
     \/ /\ ~obj[o].waited
        /\ \E z \in Zombies(obj[o].pid) :
             /\ Reap(o, z)
             /\ ans' = [ans EXCEPT ![o] = IF tab[z].stat # 0 THEN "yes" ELSE "no"]
     \/ /\ ~obj[o].waited
        /\ Zombies(obj[o].pid) = {}
        /\ ChildrenNamed(obj[o].pid) # {}
        /\ ans' = [ans EXCEPT ![o] = "no"]
        /\ UNCHANGED <<tab, obj>>
  /\ UNCHANGED <<exited, blocked, scopes, up>>

(* Wait(): blocks until waitpid reaps; ECHILD throws and changes nothing.  *)
Wait(o) ==
  /\ obj[o].pc = "alive"
  /\ ~obj[o].waited
  /\ \E z \in Zombies(obj[o].pid) : Reap(o, z)
  /\ ans' = [ans EXCEPT ![o] = "none"]
  /\ UNCHANGED <<exited, blocked, scopes, up>>

(* Mutant of BeginDestroy: the destructor only waits.                      *)
BeginDestroyNoKill(o) ==
  /\ obj[o].pc = "alive"
  /\ obj' = [obj EXCEPT ![o] = [@ EXCEPT !.pc = "dying"]]
  /\ UNCHANGED <<tab, ans, exited, blocked, scopes, up>>

(* ~Process(): Kill(SIGTERM), then ...                                     *)
BeginDestroy(o) ==
  /\ obj[o].pc = "alive"
  /\ tab' = Signalled(o, "TERM")
  /\ obj' = [obj EXCEPT ![o] = [@ EXCEPT !.pc = "dying"]]
  /\ UNCHANGED <<ans, exited, blocked, scopes, up>>

(* Mutants of WaitOutcomes: the destructor only kills, the destructor      *)
(* waits for a child that has been waited for.                             *)
WaitOutcomesNoWait(o) == {[tab |-> tab, threw |-> FALSE]}

WaitOutcomesTwice(o) ==
  {[tab |-> [tab EXCEPT ![z] = Unused], threw |-> FALSE]
     : z \in Zombies(obj[o].pid)}
    \cup (IF ChildrenNamed(obj[o].pid) = {}
          THEN {[tab |-> tab, threw |-> TRUE]}
          ELSE {})

(* ... Wait(), which blocks while the child runs and, with no child to     *)
(* wait for, throws out of the destructor.                                 *)
WaitOutcomes(o) ==
  IF obj[o].waited
  THEN {[tab |-> tab, threw |-> FALSE]}
  ELSE {[tab |-> [tab EXCEPT ![z] = Unused], threw |-> FALSE]
          : z \in Zombies(obj[o].pid)}
         \cup (IF ChildrenNamed(obj[o].pid) = {}
               THEN {[tab |-> tab, threw |-> TRUE]}
               ELSE {})

FinishDestroy(o) ==
  /\ obj[o].pc = "dying"
  /\ \E w \in WaitOutcomes(o) :
       /\ tab' = w.tab
       /\ up' = ~w.threw
  /\ obj' = [obj EXCEPT ![o] = NoObj]
  /\ ans' = [ans EXCEPT ![o] = "none"]
  /\ exited' = [exited EXCEPT ![o] = {}]
  /\ UNCHANGED <<blocked, scopes>>

-----------------------------------------------------------------------------
(* SigMask: SIG_BLOCK in the constructor, SIG_SETMASK to oldset_ in the    *)
(* destructor; scopes nest as C++ blocks do.                               *)

EnterSigMask ==
  /\ Len(scopes) < MaxScopes
  /\ \E mask \in SUBSET Maskable :
       /\ scopes' = Append(scopes, [mask |-> mask, oldset |-> blocked])
       /\ blocked' = blocked \cup mask
  /\ UNCHANGED <<tab, obj, ans, exited, up>>

(* Mutant of LeaveSigMask: SIG_UNBLOCK of the own mask.                    *)
LeaveSigMaskUnblocks ==
  /\ scopes # <<>>
  /\ blocked' = blocked \ scopes[Len(scopes)].mask
  /\ scopes' = SubSeq(scopes, 1, Len(scopes) - 1)
  /\ UNCHANGED <<tab, obj, ans, exited, up>>

LeaveSigMask ==
  /\ scopes # <<>>
  /\ blocked' = scopes[Len(scopes)].oldset
  /\ scopes' = SubSeq(scopes, 1, Len(scopes) - 1)
  /\ UNCHANGED <<tab, obj, ans, exited, up>>

-----------------------------------------------------------------------------
(* The kernel and the other processes. *)

(* A child ends, with status x, and stays as a zombie for waitpid.         *)
Ends(p, x) ==
  /\ tab[p].st = "running"
  /\ tab[p].owner # Foreign
  /\ tab' = [tab EXCEPT ![p] = [Unused EXCEPT !.st = "zombie",
                                             !.owner = tab[p].owner,
                                             !.stat = x]]
  /\ exited' = [exited EXCEPT ![tab[p].owner] = {x}]
  /\ UNCHANGED <<obj, ans, blocked, scopes, up>>

(* The signals that were sent to p, whoever has sent them.                 *)
Pending(p) == {s.sig : s \in tab[p].sigs}

Fatal(p) == "KILL" \in Pending(p) \/ ("TERM" \in Pending(p) /\ ~tab[p].deaf)

ChildExits(p) == \E x \in Statuses : Ends(p, x)

ChildDiesOfSignal(p) == Fatal(p) /\ Ends(p, 1)

ForeignStarts(p) ==
  /\ tab[p].st = "free"
  /\ tab' = [tab EXCEPT ![p] = [Unused EXCEPT !.st = "running"]]
  /\ UNCHANGED <<obj, ans, exited, blocked, scopes, up>>

ForeignEnds(p) ==
  /\ tab[p].st = "running"
  /\ tab[p].owner = Foreign
  /\ tab' = [tab EXCEPT ![p] = Unused]
  /\ UNCHANGED <<obj, ans, exited, blocked, scopes, up>>

-----------------------------------------------------------------------------
Init ==
  /\ tab = [p \in Pids |-> Unused]
  /\ obj = [o \in Objs |-> NoObj]
  /\ ans = [o \in Objs |-> "none"]
  /\ exited = [o \in Objs |-> {}]
  /\ blocked = {}
  /\ scopes = <<>>
  /\ up = TRUE

Program(o) ==
  \/ New(o)
  \/ \E sig \in Sigs : Kill(o, sig)
  \/ Terminated(o)
  \/ Wait(o)
  \/ BeginDestroy(o)
  \/ FinishDestroy(o)

Kernel(p) ==
  \/ ChildExits(p)
  \/ ChildDiesOfSignal(p)
  \/ ForeignStarts(p)
  \/ ForeignEnds(p)

Next ==
  /\ up
  /\ \/ \E o \in Objs : Program(o)
     \/ \E p \in Pids : Kernel(p)
     \/ EnterSigMask
     \/ LeaveSigMask

(* The kernel acts on a fatal signal, and a waitpid that can return does.  *)
Fairness ==
  /\ \A p \in Pids : WF_vars(up /\ ChildDiesOfSignal(p))
  /\ \A o \in Objs : WF_vars(up /\ FinishDestroy(o))

Spec == Init /\ [][Next]_vars

FairSpec == Spec /\ Fairness

-----------------------------------------------------------------------------
(* Properties. *)

Entry ==
  [st : {"free", "running", "zombie"}, owner : Objs \cup {Foreign},
   deaf : BOOLEAN, sigs : SUBSET [sig : Sigs, from : Objs], stat : Statuses]

Members ==
  [pc : {"none", "alive", "dying"}, pid : Pids \cup {-1}, waited : BOOLEAN,
   xstat : Statuses]

Scope == [mask : SUBSET Maskable, oldset : SUBSET Maskable]

(* The state is well formed.                                               *)
TypeOK ==
  /\ tab \in [Pids -> Entry]
  /\ obj \in [Objs -> Members]
  /\ ans \in [Objs -> {"none", "yes", "no"}]
  /\ exited \in [Objs -> SUBSET Statuses]
  /\ blocked \in SUBSET Maskable
  /\ scopes \in Seq(Scope)
  /\ up \in BOOLEAN

(* The object still has a child to wait for.                               *)
Unreaped(o) == obj[o].pc # "none" /\ ~obj[o].waited

(* pid_ of an object that has not waited names a process that exists and   *)
(* that this very object forked, although pids are used again: waited_ is  *)
(* set in the call that frees the pid (Process.cpp:102-131).               *)
DesignatesOwnChild ==
  \A o \in Objs : Unreaped(o) =>
    /\ obj[o].pid \in Pids
    /\ tab[obj[o].pid].st # "free"
    /\ tab[obj[o].pid].owner = o

(* A child is never left behind, running or as a zombie, by an object that *)
(* is gone or believes it has waited (Process.cpp:87-91).                  *)
NoChildUnattended ==
  \A p \in Pids :
    (tab[p].st # "free" /\ tab[p].owner # Foreign) =>
      /\ Unreaped(tab[p].owner)
      /\ obj[tab[p].owner].pid = p

(* Once waited_ is set, xstat_ is the status that this object's own child  *)
(* exited with (Process.cpp:107-114, 123-130).                             *)
StatusIsOwnChilds ==
  \A o \in Objs : obj[o].waited => exited[o] = {obj[o].xstat}

(* The answers of Terminated(): TRUE only for a child that has been        *)
(* reaped; FALSE, when it was reaped, only for one that exited with 0.     *)
AnswersMatchChild ==
  \A o \in Objs :
    /\ ans[o] = "yes" => obj[o].waited
    /\ ans[o] = "no" /\ obj[o].waited => obj[o].xstat = 0

(* Blocked is what the scopes that are still open asked for, no more and   *)
(* no less, whatever was nested and left before (Signal.cpp:16-25).        *)
BlockedByOpenScopes ==
  blocked = UNION {scopes[i].mask : i \in DOMAIN scopes}

(* waitpid in the destructor never lacks a child: ~Process() does not      *)
(* throw (Process.cpp:87-91, 123-127).                                     *)
DestructorNeverThrows == up

(* Every signal that a process got was sent by the object that forked this *)
(* very process: none goes, over a pid that is used again, to a stranger   *)
(* or to the child of another object (Process.cpp:93-100).                 *)
SignalsOnlyOwnChild ==
  \A p \in Pids : \A s \in tab[p].sigs : s.from = tab[p].owner

(* A destructor returns unless its child is deaf to SIGTERM and was not    *)
(* killed: the SIGTERM it sends ends the child that its Wait() waits for.  *)
DestructorReturns ==
  \A o \in Objs :
    (obj[o].pc = "dying" /\ (Unreaped(o) =>
        LET child == tab[obj[o].pid]
        IN  child.st = "running" =>
              ~child.deaf \/ "KILL" \in Pending(obj[o].pid)))
      ~> obj[o].pc = "none"

(* The message in Process.cpp:23-24 and 60-61: a fork that failed is       *)
(* reported (logsxc throws), so that every object New() returns has forked *)
(* a child.                                                                *)
NewReturnsForkedChild ==
  [][\A o \in Objs : (obj[o].pc = "none" /\ obj'[o].pc = "alive")
                       => obj'[o].pid \in Pids]_vars
=============================================================================
