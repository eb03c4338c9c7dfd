---------------------------------- MODULE FD ----------------------------------
(***************************************************************************)
(* Class FD (src/src/FD.h, FD.cpp) and struct PFD: C++ objects that own    *)
(* one POSIX file descriptor each.                                         *)
(*                                                                         *)
(* The kernel is the set of open descriptor numbers.  A program is a       *)
(* client that creates, assigns, moves, copies and destroys FD objects in  *)
(* any order, holds bare descriptor numbers of its own (what Detach()      *)
(* returned, what it opened itself) and hands an FD only numbers it holds. *)
(* ::dup, ::pipe and ::close may fail at any call.  On Linux a close that  *)
(* reports an error has released the descriptor all the same.              *)
(***************************************************************************)
EXTENDS FiniteSets

CONSTANTS
  Fds,     (* The descriptor numbers of the process.              *)
  Objs,    (* The FD objects a program may have.                  *)
  NoFd,    (* The value -1 of fd_.                                *)
  Dead     (* An FD object before its constructor, or destroyed.  *)

ASSUME FdsAssumption == /\ NoFd \notin Fds
                        /\ Dead \notin Fds
                        /\ NoFd # Dead

VARIABLES
  open,    (* Kernel: the open descriptors.                                *)
  obj,     (* fd_ of every FD object, Dead when there is no such object.   *)
  raw,     (* Bare numbers the client owns.                                *)
  faulted, (* The close of an open descriptor failed, or a copy constructor *)
           (* ran, at least once. EBADF is no fault: it is a consequence.  *)
  up       (* FALSE once a destructor has thrown: std::terminate().        *)

vars == <<open, obj, raw, faulted, up>>

Live(o) == obj[o] # Dead

-----------------------------------------------------------------------------
(* System calls. *)

(* ::close(f) as Close() sees it: f = -1 is not closed at all, a number    *)
(* that is not open is EBADF, and an open one is released whatever the     *)
(* call reports.                                                           *)
CloseOutcomes(f) ==
  IF f \in open
  THEN [open : {open \ {f}}, ok : BOOLEAN]
  ELSE [open : {open}, ok : {f = NoFd}]

(* ::dup(f) when the descriptors in os are open: a free number, or -1.     *)
DupOutcomes(f, os) ==
  IF f \in os THEN (Fds \ os) \cup {NoFd} ELSE {NoFd}

(* Mutant of CopyOutcomes: the number is copied, no dup.                   *)
CopyOutcomesNoDup(own, source) ==
  {[open |-> c.open, fd |-> IF c.ok THEN source ELSE own, closed |-> c.ok,
    threw |-> ~c.ok] : c \in CloseOutcomes(own)}

(* operator=(const FD &from) with fd_ = own and from.fd_ = source, read    *)
(* after the Close(): a failing Close() throws with fd_ unchanged, -1 is   *)
(* not dup'ed, a failing dup throws with fd_ = -1.                         *)
CopyOutcomes(own, source) ==
  UNION {IF c.ok
         THEN {[open |-> c.open \cup ({d} \ {NoFd}), fd |-> d, closed |-> TRUE,
                threw |-> d = NoFd /\ source # NoFd]
                 : d \in DupOutcomes(source, c.open)}
         ELSE {[open |-> c.open, fd |-> own, closed |-> FALSE, threw |-> TRUE]}
           : c \in CloseOutcomes(own)}

-----------------------------------------------------------------------------
(* The class. *)

(* FD(int fd = -1): takes over a number of the client, or -1.              *)
Construct(o) ==
  \E f \in raw \cup {NoFd} :
    /\ obj[o] = Dead
    /\ obj' = [obj EXCEPT ![o] = f]
    /\ raw' = raw \ {f}
    /\ UNCHANGED <<open, faulted, up>>

(* Mutant of MoveConstruct: from keeps its number.                         *)
MoveConstructShared(o, from) ==
  /\ obj[o] = Dead
  /\ Live(from)
  /\ obj' = [obj EXCEPT ![o] = obj[from]]
  /\ UNCHANGED <<open, raw, faulted, up>>

(* FD(FD &&from): fd_(from.Detach()).                                      *)
MoveConstruct(o, from) ==
  /\ obj[o] = Dead
  /\ Live(from)
  /\ obj' = [obj EXCEPT ![o] = obj[from], ![from] = NoFd]
  /\ UNCHANGED <<open, raw, faulted, up>>

(* FD(const FD &from) { *this = from; }: the assignment closes fd_, which  *)
(* no one has initialised; a throw leaves no object behind.                *)
CopyConstruct(o, from) ==
  /\ obj[o] = Dead
  /\ Live(from)
  /\ \E garbage \in Fds \cup {NoFd} :
       \E r \in CopyOutcomes(garbage, obj[from]) :
         /\ open' = r.open
         /\ obj' = IF r.threw THEN obj ELSE [obj EXCEPT ![o] = r.fd]
  /\ faulted' = TRUE
  /\ UNCHANGED <<raw, up>>

(* Close(): on an error it throws before fd_ = -1.                         *)
Close(o) ==
  /\ Live(o)
  /\ \E c \in CloseOutcomes(obj[o]) :
       /\ open' = c.open
       /\ obj' = IF c.ok THEN [obj EXCEPT ![o] = NoFd] ELSE obj
       /\ faulted' = (faulted \/ (obj[o] \in open /\ ~c.ok))
  /\ UNCHANGED <<raw, up>>

(* ~FD() { Close(); }: a throw out of a destructor ends the program.       *)
Destroy(o) ==
  /\ Live(o)
  /\ \E c \in CloseOutcomes(obj[o]) :
       /\ open' = c.open
       /\ faulted' = (faulted \/ (obj[o] \in open /\ ~c.ok))
       /\ up' = c.ok
  /\ obj' = [obj EXCEPT ![o] = Dead]
  /\ UNCHANGED raw

(* Mutant of Detach: -1 is handed out as if it were a descriptor.          *)
DetachNothing(o) ==
  /\ Live(o)
  /\ obj' = [obj EXCEPT ![o] = NoFd]
  /\ raw' = raw \cup {obj[o]}
  /\ UNCHANGED <<open, faulted, up>>

(* int Detach(): the number is the caller's from now on.                   *)
Detach(o) ==
  /\ Live(o)
  /\ obj' = [obj EXCEPT ![o] = NoFd]
  /\ raw' = raw \cup ({obj[o]} \ {NoFd})
  /\ UNCHANGED <<open, faulted, up>>

(* operator=(FD &&from): fd_ = from.Detach(), with no Close() before it.   *)
MoveAssign(o, from) ==
  /\ Live(o)
  /\ Live(from)
  /\ obj' = [[obj EXCEPT ![from] = NoFd] EXCEPT ![o] = obj[from]]
  /\ UNCHANGED <<open, raw, faulted, up>>

(* operator=(const FD &from): when the two are one object, its own Close() *)
(* leaves nothing to dup.                                                  *)
CopyAssign(o, from) ==
  /\ Live(o)
  /\ Live(from)
  /\ \E r \in CopyOutcomes(obj[o], IF o = from THEN NoFd ELSE obj[from]) :
       /\ open' = r.open
       /\ obj' = [obj EXCEPT ![o] = r.fd]
       /\ faulted' = (faulted \/ (obj[o] \in open /\ ~r.closed))
  /\ UNCHANGED <<raw, up>>

(* Mutant of AssignInt: no Close() before the assignment.                  *)
AssignIntNoClose(o) ==
  /\ Live(o)
  /\ \E f \in raw \cup {NoFd} :
       /\ obj' = [obj EXCEPT ![o] = f]
       /\ raw' = raw \ {f}
  /\ UNCHANGED <<open, faulted, up>>

(* operator=(int fd): Close(), then fd_ = fd; a throw in Close() leaves fd *)
(* with the client.                                                        *)
AssignInt(o) ==
  /\ Live(o)
  /\ \E f \in raw \cup {NoFd} : \E c \in CloseOutcomes(obj[o]) :
       /\ open' = c.open
       /\ obj' = IF c.ok THEN [obj EXCEPT ![o] = f] ELSE obj
       /\ raw' = IF c.ok THEN raw \ {f} ELSE raw
       /\ faulted' = (faulted \/ (obj[o] \in open /\ ~c.ok))
  /\ UNCHANGED up

(* PFD(): the members start as FD(-1), so that in = pfd[0], out = pfd[1]   *)
(* close nothing; a failing ::pipe throws and leaves no object.            *)
ConstructPFD(in, out) ==
  /\ in # out
  /\ obj[in] = Dead
  /\ obj[out] = Dead
  /\ \E r \in Fds \ open : \E w \in (Fds \ open) \ {r} :
       /\ open' = open \cup {r, w}
       /\ obj' = [obj EXCEPT ![in] = r, ![out] = w]
  /\ UNCHANGED <<raw, faulted, up>>

(* BasicPipe(mode): one end of a PFD goes to a stream, a client that will  *)
(* close it; the other stays.  Any other mode throws: the PFD is destroyed *)
(* at once, and if a close fails then, the program and all it has open.    *)
ConstructPipe(in, out) ==
  /\ in # out
  /\ obj[in] = Dead
  /\ obj[out] = Dead
  /\ \E r \in Fds \ open : \E w \in (Fds \ open) \ {r} :
       \/ /\ open' = open \cup {r, w}
          /\ \/ /\ obj' = [obj EXCEPT ![in] = NoFd, ![out] = w]
                /\ raw' = raw \cup {r}
             \/ /\ obj' = [obj EXCEPT ![in] = r, ![out] = NoFd]
                /\ raw' = raw \cup {w}
          /\ UNCHANGED <<faulted, up>>
       \/ /\ up' \in BOOLEAN
          /\ faulted' = (faulted \/ ~up')
          /\ UNCHANGED <<open, obj, raw>>

-----------------------------------------------------------------------------
(* The client's own descriptors. *)

OpenRaw ==
  \E f \in Fds \ open :
    /\ open' = open \cup {f}
    /\ raw' = raw \cup {f}
    /\ UNCHANGED <<obj, faulted, up>>

CloseRaw ==
  \E f \in raw :
    /\ open' = open \ {f}
    /\ raw' = raw \ {f}
    /\ UNCHANGED <<obj, faulted, up>>

-----------------------------------------------------------------------------
Init ==
  /\ open = {}
  /\ obj = [o \in Objs |-> Dead]
  /\ raw = {}
  /\ faulted = FALSE
  /\ up = TRUE

Unary(o) ==
  \/ Construct(o)
  \/ Close(o)
  \/ Destroy(o)
  \/ Detach(o)
  \/ AssignInt(o)

Binary(o, p) ==
  \/ MoveConstruct(o, p)
  \/ CopyConstruct(o, p)
  \/ MoveAssign(o, p)
  \/ CopyAssign(o, p)
  \/ ConstructPFD(o, p)
  \/ ConstructPipe(o, p)

Next ==
  /\ up
  /\ \/ \E o \in Objs : Unary(o)
     \/ \E o, p \in Objs : Binary(o, p)
     \/ OpenRaw
     \/ CloseRaw

Spec == Init /\ [][Next]_vars

-----------------------------------------------------------------------------
(* Properties. *)

Held == {obj[o] : o \in Objs} \cap Fds

(* Open descriptors that no FD object and no client number refers to.      *)
Leaked == open \ (Held \cup raw)

(* The state is well formed: fd_ is a descriptor number or -1 in every     *)
(* object that exists.                                                     *)
TypeOK ==
  /\ open \in SUBSET Fds
  /\ obj \in [Objs -> Fds \cup {NoFd, Dead}]
  /\ raw \in SUBSET Fds
  /\ faulted \in BOOLEAN
  /\ up \in BOOLEAN

NoTwoObjectsShare ==
  \A o, p \in Objs : (o # p /\ obj[o] \in Fds) => obj[o] # obj[p]

(* As long as no close has failed and no FD was copy constructed, whatever *)
(* sequence of moves, assignments and failing dups ran, every descriptor   *)
(* has one owner: no two objects hold the same one, none is held by an     *)
(* object and by the client, and every held one is open (FD.h:20-31).      *)
ExclusiveOwnership ==
  ~faulted => /\ NoTwoObjectsShare
              /\ Held \cap raw = {}
              /\ Held \cup raw \subseteq open

(* A destructor throws, which terminates the program (FD.h:23, FD.cpp:25), *)
(* only when a close has failed or a copy constructor has run: a program   *)
(* that avoids both cannot be ended by an EBADF of its own making.         *)
TerminatesOnlyAfterFault == up \/ faulted

(* An open descriptor becomes unreachable only when a move assignment      *)
(* overwrites the object that held it (FD.h:29): every other operation,    *)
(* the ones that fail half way included, closes it or leaves it with an    *)
(* owner.                                                                  *)
LeaksOnlyByMoveAssign ==
  [][\A f \in Leaked' \ Leaked :
       \E o, p \in Objs : /\ o # p
                          /\ obj[o] = f
                          /\ Live(p)
                          /\ obj' = [obj EXCEPT ![o] = obj[p], ![p] = NoFd]]_vars
=============================================================================
