------------------------------ MODULE FD_proofs -------------------------------
(***************************************************************************)
(* FD for every set of objects and of descriptor numbers: its type         *)
(* correctness, exclusive ownership, and what may terminate or leak.       *)
(***************************************************************************)
EXTENDS FD, TLAPS

USE FdsAssumption

-----------------------------------------------------------------------------
(* A close that reports success has removed just that descriptor.          *)
LEMMA CloseFacts ==
  ASSUME NEW f, NEW c \in CloseOutcomes(f), open \in SUBSET Fds
  PROVE  /\ c.open = open \ {f}
         /\ c.ok \in BOOLEAN
         /\ c.ok /\ f # NoFd => f \in open
         /\ ~c.ok => f # NoFd
<1>1. CASE f \in open
  BY <1>1 DEF CloseOutcomes
<1>2. CASE f \notin open
  BY <1>2 DEF CloseOutcomes
<1>3. QED BY <1>1, <1>2

(* A copy that closed what it replaces holds -1 or a fresh descriptor, and *)
(* the kernel has gained just that one.                                    *)
LEMMA CopyFacts ==
  ASSUME NEW own \in Fds \cup {NoFd}, NEW source, NEW r \in CopyOutcomes(own, source),
         open \in SUBSET Fds
  PROVE  /\ r.open \in SUBSET Fds
         /\ r.fd \in Fds \cup {NoFd}
         /\ r.closed \in BOOLEAN
         /\ ~r.closed => own # NoFd
         /\ r.closed => /\ r.open = (open \ {own}) \cup ({r.fd} \ {NoFd})
                        /\ r.fd \notin open \ {own}
                        /\ own # NoFd => own \in open
<1>1. PICK c \in CloseOutcomes(own) :
        r \in IF c.ok
              THEN {[open |-> c.open \cup ({d} \ {NoFd}), fd |-> d, closed |-> TRUE,
                     threw |-> d = NoFd /\ source # NoFd]
                      : d \in DupOutcomes(source, c.open)}
              ELSE {[open |-> c.open, fd |-> own, closed |-> FALSE, threw |-> TRUE]}
  BY DEF CopyOutcomes
<1>2. /\ c.open = open \ {own}
      /\ c.ok \in BOOLEAN
      /\ c.ok /\ own # NoFd => own \in open
      /\ ~c.ok => own # NoFd
  BY CloseFacts
<1>3. CASE c.ok
  <2>1. PICK d \in DupOutcomes(source, c.open) :
          r = [open |-> c.open \cup ({d} \ {NoFd}), fd |-> d, closed |-> TRUE,
               threw |-> d = NoFd /\ source # NoFd]
    BY <1>1, <1>3
  <2>2. d \in Fds \cup {NoFd} /\ d \notin c.open
    BY <1>2 DEF DupOutcomes
  <2>3. /\ r.open = c.open \cup ({d} \ {NoFd})
        /\ r.fd = d
        /\ r.closed = TRUE
    BY <2>1
  <2>4. QED BY <1>2, <1>3, <2>2, <2>3
<1>4. CASE ~c.ok
  <2>1. r = [open |-> c.open, fd |-> own, closed |-> FALSE, threw |-> TRUE]
    BY <1>1, <1>4
  <2>2. c.open \in SUBSET Fds
    BY <1>2
  <2>3. r.open = c.open /\ r.fd = own /\ r.closed = FALSE
    BY <2>1
  <2>4. QED BY <1>2, <1>4, <2>2, <2>3
<1>5. QED BY <1>3, <1>4, <1>2

-----------------------------------------------------------------------------
(* fd_ is a descriptor number or -1 in every object that exists, in every  *)
(* reachable state (FD.h:20-35).                                           *)
THEOREM TypeCorrect == Spec => []TypeOK
<1>1. Init => TypeOK
  BY DEF Init, TypeOK
<1>2. TypeOK /\ [Next]_vars => TypeOK'
  <2> SUFFICES ASSUME TypeOK, [Next]_vars
               PROVE  TypeOK'
    OBVIOUS
  <2> USE DEF TypeOK
  <2>1. ASSUME NEW o \in Objs, Construct(o)
        PROVE  TypeOK'
    BY <2>1 DEF Construct
  <2>2. ASSUME NEW o \in Objs, Close(o)
        PROVE  TypeOK'
    BY <2>2, CloseFacts DEF Close, Live
  <2>3. ASSUME NEW o \in Objs, Destroy(o)
        PROVE  TypeOK'
    BY <2>3, CloseFacts DEF Destroy, Live
  <2>4. ASSUME NEW o \in Objs, Detach(o)
        PROVE  TypeOK'
    BY <2>4 DEF Detach, Live
  <2>5. ASSUME NEW o \in Objs, AssignInt(o)
        PROVE  TypeOK'
    BY <2>5, CloseFacts DEF AssignInt, Live
  <2>6. ASSUME NEW o \in Objs, NEW p \in Objs, MoveConstruct(o, p)
        PROVE  TypeOK'
    BY <2>6 DEF MoveConstruct, Live
  <2>7. ASSUME NEW o \in Objs, NEW p \in Objs, CopyConstruct(o, p)
        PROVE  TypeOK'
    <3>1. PICK g \in Fds \cup {NoFd} :
            \E r \in CopyOutcomes(g, obj[p]) :
              /\ open' = r.open
              /\ obj' = IF r.threw THEN obj ELSE [obj EXCEPT ![o] = r.fd]
      BY <2>7 DEF CopyConstruct
    <3>2. QED BY <2>7, <3>1, CopyFacts DEF CopyConstruct
  <2>8. ASSUME NEW o \in Objs, NEW p \in Objs, MoveAssign(o, p)
        PROVE  TypeOK'
    BY <2>8 DEF MoveAssign, Live
  <2>9. ASSUME NEW o \in Objs, NEW p \in Objs, CopyAssign(o, p)
        PROVE  TypeOK'
    <3>1. obj[o] \in Fds \cup {NoFd}
      BY <2>9 DEF CopyAssign, Live
    <3>2. QED BY <2>9, <3>1, CopyFacts DEF CopyAssign
  <2>10. ASSUME NEW o \in Objs, NEW p \in Objs, ConstructPFD(o, p)
         PROVE  TypeOK'
    BY <2>10 DEF ConstructPFD
  <2>11. CASE OpenRaw
    BY <2>11 DEF OpenRaw
  <2>12. CASE CloseRaw
    BY <2>12 DEF CloseRaw
  <2>13. CASE UNCHANGED vars
    BY <2>13 DEF vars
  <2>14. ASSUME NEW o \in Objs, NEW p \in Objs, ConstructPipe(o, p)
         PROVE  TypeOK'
    <3>1. faulted' \in BOOLEAN /\ up' \in BOOLEAN
      BY <2>14, Zenon DEF ConstructPipe
    <3>2. QED BY <2>14, <3>1 DEF ConstructPipe
  <2>15. QED
    BY <2>1, <2>2, <2>3, <2>4, <2>5, <2>6, <2>7, <2>8, <2>9, <2>10, <2>11,
       <2>12, <2>13, <2>14 DEF Next, Unary, Binary
<1>3. QED BY <1>1, <1>2, PTL DEF Spec

(* As long as no close has failed and no FD was copy constructed, every    *)
(* descriptor that an object or the client refers to is open and has that  *)
(* one owner, whatever was moved, assigned and destroyed (FD.h:20-31).     *)
THEOREM OwnershipExclusive == Spec => []ExclusiveOwnership
<1>1. Init => ExclusiveOwnership
  BY DEF Init, ExclusiveOwnership, NoTwoObjectsShare, Held
<1>2. TypeOK /\ ExclusiveOwnership /\ [Next]_vars => ExclusiveOwnership'
  <2> SUFFICES ASSUME TypeOK, ExclusiveOwnership, [Next]_vars, ~faulted'
               PROVE  (NoTwoObjectsShare /\ Held \cap raw = {}
                         /\ Held \cup raw \subseteq open)'
    BY DEF ExclusiveOwnership
  <2> DEFINE Owned == /\ \A o, p \in Objs : (o # p /\ obj[o] \in Fds) => obj[o] # obj[p]
                      /\ \A o \in Objs : obj[o] \in Fds => obj[o] \in open \ raw
                      /\ raw \subseteq open
  <2>1. ~faulted => Owned
    BY DEF ExclusiveOwnership, NoTwoObjectsShare, Held
  <2>2. SUFFICES Owned'
    BY DEF NoTwoObjectsShare, Held
  <2>3. /\ open \in SUBSET Fds
        /\ obj \in [Objs -> Fds \cup {NoFd, Dead}]
        /\ raw \in SUBSET Fds
        /\ faulted \in BOOLEAN
    BY DEF TypeOK
  <2> USE <2>1, <2>3
  <2> HIDE DEF TypeOK, ExclusiveOwnership
  <2>4. ASSUME NEW o \in Objs, Construct(o)
        PROVE  Owned'
    BY <2>4 DEF Construct
  <2>5. ASSUME NEW o \in Objs, Close(o)
        PROVE  Owned'
    <3>1. PICK c \in CloseOutcomes(obj[o]) :
            /\ open' = c.open
            /\ obj' = IF c.ok THEN [obj EXCEPT ![o] = NoFd] ELSE obj
            /\ faulted' = (faulted \/ (obj[o] \in open /\ ~c.ok))
      BY <2>5 DEF Close
    <3>2. obj[o] \in Fds \cup {NoFd} /\ raw' = raw
      BY <2>5 DEF Close, Live
    <3>3. c.ok /\ c.open = open \ {obj[o]}
      BY <3>1, <3>2, CloseFacts
    <3>4. QED BY <3>1, <3>2, <3>3
  <2>6. ASSUME NEW o \in Objs, Destroy(o)
        PROVE  Owned'
    BY <2>6, CloseFacts DEF Destroy, Live
  <2>7. ASSUME NEW o \in Objs, Detach(o)
        PROVE  Owned'
    BY <2>7 DEF Detach, Live
  <2>8. ASSUME NEW o \in Objs, AssignInt(o)
        PROVE  Owned'
    <3>1. PICK f \in raw \cup {NoFd} : \E c \in CloseOutcomes(obj[o]) :
            /\ open' = c.open
            /\ obj' = IF c.ok THEN [obj EXCEPT ![o] = f] ELSE obj
            /\ raw' = IF c.ok THEN raw \ {f} ELSE raw
            /\ faulted' = (faulted \/ (obj[o] \in open /\ ~c.ok))
      BY <2>8 DEF AssignInt
    <3>2. PICK c \in CloseOutcomes(obj[o]) :
            /\ open' = c.open
            /\ obj' = IF c.ok THEN [obj EXCEPT ![o] = f] ELSE obj
            /\ raw' = IF c.ok THEN raw \ {f} ELSE raw
            /\ faulted' = (faulted \/ (obj[o] \in open /\ ~c.ok))
      BY <3>1
    <3>3. obj[o] \in Fds \cup {NoFd}
      BY <2>8 DEF AssignInt, Live
    <3>4. c.ok /\ c.open = open \ {obj[o]}
      BY <3>2, <3>3, CloseFacts
    <3>5. QED BY <3>1, <3>2, <3>3, <3>4
  <2>9. ASSUME NEW o \in Objs, NEW p \in Objs, MoveConstruct(o, p)
        PROVE  Owned'
    BY <2>9 DEF MoveConstruct, Live
  <2>10. ASSUME NEW o \in Objs, NEW p \in Objs, CopyConstruct(o, p)
         PROVE  Owned'
    BY <2>10 DEF CopyConstruct
  <2>11. ASSUME NEW o \in Objs, NEW p \in Objs, MoveAssign(o, p)
         PROVE  Owned'
    BY <2>11 DEF MoveAssign, Live
  <2>12. ASSUME NEW o \in Objs, NEW p \in Objs, CopyAssign(o, p)
         PROVE  Owned'
    <3>1. obj[o] \in Fds \cup {NoFd}
      BY <2>12 DEF CopyAssign, Live
    <3>2. PICK r \in CopyOutcomes(obj[o], IF o = p THEN NoFd ELSE obj[p]) :
            /\ open' = r.open
            /\ obj' = [obj EXCEPT ![o] = r.fd]
            /\ faulted' = (faulted \/ (obj[o] \in open /\ ~r.closed))
      BY <2>12 DEF CopyAssign
    <3>3. /\ r.open = (open \ {obj[o]}) \cup ({r.fd} \ {NoFd})
          /\ r.fd \in Fds \cup {NoFd}
          /\ r.fd \notin open \ {obj[o]}
      <4>1. /\ r.fd \in Fds \cup {NoFd}
            /\ r.closed \in BOOLEAN
            /\ ~r.closed => obj[o] # NoFd
            /\ r.closed => /\ r.open = (open \ {obj[o]}) \cup ({r.fd} \ {NoFd})
                           /\ r.fd \notin open \ {obj[o]}
        BY <3>1, CopyFacts
      <4>2. obj[o] \in Fds => obj[o] \in open
        BY <3>2
      <4>3. QED BY <3>1, <3>2, <4>1, <4>2
    <3>4. raw' = raw
      BY <2>12 DEF CopyAssign
    <3>5. QED BY <3>1, <3>2, <3>3, <3>4
  <2>13. ASSUME NEW o \in Objs, NEW p \in Objs, ConstructPFD(o, p)
         PROVE  Owned'
    BY <2>13 DEF ConstructPFD
  <2>14. CASE OpenRaw
    BY <2>14 DEF OpenRaw
  <2>15. CASE CloseRaw
    BY <2>15 DEF CloseRaw
  <2>16. CASE UNCHANGED vars
    BY <2>16 DEF vars
  <2>17. ASSUME NEW o \in Objs, NEW p \in Objs, ConstructPipe(o, p)
         PROVE  Owned'
    BY <2>17 DEF ConstructPipe
  <2>18. QED
    BY <2>4, <2>5, <2>6, <2>7, <2>8, <2>9, <2>10, <2>11, <2>12, <2>13, <2>14,
       <2>15, <2>16, <2>17 DEF Next, Unary, Binary
<1>3. QED BY <1>1, <1>2, TypeCorrect, PTL DEF Spec

(* A destructor throws only when a close has failed or a copy constructor  *)
(* has run: exclusive ownership rules out an EBADF (FD.h:23, FD.cpp:24).   *)
THEOREM TerminationFaulted == Spec => []TerminatesOnlyAfterFault
<1>1. Init => TerminatesOnlyAfterFault
  BY DEF Init, TerminatesOnlyAfterFault
<1>2. /\ TypeOK
      /\ ExclusiveOwnership
      /\ TerminatesOnlyAfterFault
      /\ [Next]_vars
      => TerminatesOnlyAfterFault'
  <2> SUFFICES ASSUME TypeOK, ExclusiveOwnership, up \/ faulted, [Next]_vars
               PROVE  up' \/ faulted'
    BY DEF TerminatesOnlyAfterFault
  <2>1. ASSUME NEW o \in Objs, Destroy(o)
        PROVE  up' \/ faulted'
    <3>1. PICK c \in CloseOutcomes(obj[o]) :
            /\ faulted' = (faulted \/ (obj[o] \in open /\ ~c.ok))
            /\ up' = c.ok
      BY <2>1 DEF Destroy
    <3>2. ~c.ok => obj[o] \in Fds
      BY <2>1, CloseFacts DEF TypeOK, Destroy, Live
    <3>3. obj[o] \in Fds /\ ~faulted => obj[o] \in open
      BY DEF ExclusiveOwnership, Held
    <3>4. c.ok \in BOOLEAN /\ faulted \in BOOLEAN
      BY CloseFacts DEF TypeOK
    <3>5. QED BY <3>1, <3>2, <3>3, <3>4
  <2>2. ASSUME NEW o \in Objs, Close(o) \/ AssignInt(o)
        PROVE  up' \/ faulted'
    BY <2>2 DEF Close, AssignInt
  <2>3. ASSUME NEW o \in Objs, Construct(o) \/ Detach(o)
        PROVE  up' \/ faulted'
    BY <2>3 DEF Construct, Detach
  <2>4. ASSUME NEW o \in Objs, NEW p \in Objs, Binary(o, p)
        PROVE  up' \/ faulted'
    BY <2>4 DEF Binary, MoveConstruct, CopyConstruct, MoveAssign, CopyAssign,
                ConstructPFD, ConstructPipe
  <2>5. CASE OpenRaw \/ CloseRaw
    BY <2>5 DEF OpenRaw, CloseRaw
  <2>6. CASE UNCHANGED vars
    BY <2>6 DEF vars
  <2>7. QED BY <2>1, <2>2, <2>3, <2>4, <2>5, <2>6 DEF Next, Unary
<1>3. QED BY <1>1, <1>2, TypeCorrect, OwnershipExclusive, PTL DEF Spec

-----------------------------------------------------------------------------
(* What a copy that could not close, or not dup, leaves behind.            *)
LEMMA CopyFailures ==
  ASSUME NEW own, NEW source, NEW r \in CopyOutcomes(own, source),
         open \in SUBSET Fds
  PROVE  /\ ~r.closed => r.fd = own /\ r.open = open \ {own}
         /\ r.threw /\ r.closed => r.fd = NoFd
         /\ ~r.closed => r.threw
<1>1. PICK c \in CloseOutcomes(own) :
        r \in IF c.ok
              THEN {[open |-> c.open \cup ({d} \ {NoFd}), fd |-> d, closed |-> TRUE,
                     threw |-> d = NoFd /\ source # NoFd]
                      : d \in DupOutcomes(source, c.open)}
              ELSE {[open |-> c.open, fd |-> own, closed |-> FALSE, threw |-> TRUE]}
  BY DEF CopyOutcomes
<1>2. c.open = open \ {own}
  BY CloseFacts
<1>3. CASE c.ok
  <2>1. PICK d \in DupOutcomes(source, c.open) :
          r = [open |-> c.open \cup ({d} \ {NoFd}), fd |-> d, closed |-> TRUE,
               threw |-> d = NoFd /\ source # NoFd]
    BY <1>1, <1>3
  <2>2. r.fd = d /\ r.closed = TRUE /\ (r.threw => d = NoFd)
    BY <2>1
  <2>3. QED BY <2>2
<1>4. CASE ~c.ok
  <2>1. r = [open |-> c.open, fd |-> own, closed |-> FALSE, threw |-> TRUE]
    BY <1>1, <1>4
  <2>2. QED BY <1>2, <2>1
<1>5. QED BY <1>3, <1>4

(* Whatever fails half way, and even after a fault, an open descriptor is  *)
(* only lost by a move assignment onto the object that held it, for any    *)
(* number of objects (FD.h:20-31).                                         *)
THEOREM LeaksConfined == Spec => LeaksOnlyByMoveAssign
<1> DEFINE Overwrites(f) == \E o, p \in Objs :
                              /\ o # p
                              /\ obj[o] = f
                              /\ Live(p)
                              /\ obj' = [obj EXCEPT ![o] = obj[p], ![p] = NoFd]
           Owned(f) == f \in raw \/ \E q \in Objs : obj[q] = f
           Kept(f) == f \in open' => \/ f \in raw'
                                     \/ \E q \in Objs : obj'[q] = f
<1>1. TypeOK /\ TypeOK' /\ [Next]_vars
        => [\A f \in Leaked' \ Leaked :
              \E o, p \in Objs : /\ o # p
                                 /\ obj[o] = f
                                 /\ Live(p)
                                 /\ obj' = [obj EXCEPT ![o] = obj[p], ![p] = NoFd]]_vars
  <2> SUFFICES ASSUME TypeOK, TypeOK', [Next]_vars, NEW f \in Fds, f \in open => Owned(f)
               PROVE  UNCHANGED vars \/ Kept(f) \/ Overwrites(f)
    <3>1. TypeOK' => open' \in SUBSET Fds
      BY DEF TypeOK
    <3>2. \A f \in Fds : f \in open => (Owned(f) <=> f \notin Leaked)
      BY DEF Leaked, Held
    <3>3. \A f \in Leaked' : f \in open' /\ (f \in Fds => ~Kept(f))
      BY DEF Leaked, Held
    <3>4. \A f : f \notin Leaked /\ f \in Fds => (f \in open => Owned(f))
      BY <3>2
    <3>5. QED BY <3>1, <3>3, <3>4 DEF vars
  <2>1. ASSUME NEW o \in Objs, Construct(o)
        PROVE  Kept(f)
    BY <2>1 DEF Construct, TypeOK
  <2>2. ASSUME NEW o \in Objs, Close(o)
        PROVE  Kept(f)
    BY <2>2, CloseFacts DEF Close, TypeOK
  <2>3. ASSUME NEW o \in Objs, Destroy(o)
        PROVE  Kept(f)
    BY <2>3, CloseFacts DEF Destroy, TypeOK
  <2>4. ASSUME NEW o \in Objs, Detach(o)
        PROVE  Kept(f)
    BY <2>4 DEF Detach, TypeOK
  <2>5. ASSUME NEW o \in Objs, AssignInt(o)
        PROVE  Kept(f)
    <3>1. PICK g \in raw \cup {NoFd}, c \in CloseOutcomes(obj[o]) :
            /\ open' = c.open
            /\ obj' = IF c.ok THEN [obj EXCEPT ![o] = g] ELSE obj
            /\ raw' = IF c.ok THEN raw \ {g} ELSE raw
      BY <2>5 DEF AssignInt
    <3>2. open' = open \ {obj[o]} /\ c.ok \in BOOLEAN
      BY <3>1, CloseFacts DEF TypeOK
    <3>3. CASE c.ok
      BY <3>1, <3>2, <3>3 DEF TypeOK
    <3>4. CASE ~c.ok
      BY <3>1, <3>2, <3>4 DEF TypeOK
    <3>5. QED BY <3>3, <3>4
  <2>6. ASSUME NEW o \in Objs, NEW p \in Objs, MoveConstruct(o, p)
        PROVE  Kept(f)
    BY <2>6 DEF MoveConstruct, Live, TypeOK
  <2>7. ASSUME NEW o \in Objs, NEW p \in Objs, CopyConstruct(o, p)
        PROVE  Kept(f)
    <3>1. PICK g \in Fds \cup {NoFd} : \E r \in CopyOutcomes(g, obj[p]) :
            /\ open' = r.open
            /\ obj' = IF r.threw THEN obj ELSE [obj EXCEPT ![o] = r.fd]
      BY <2>7 DEF CopyConstruct
    <3>2. PICK r \in CopyOutcomes(g, obj[p]) :
            /\ open' = r.open
            /\ obj' = IF r.threw THEN obj ELSE [obj EXCEPT ![o] = r.fd]
      BY <3>1
    <3>3. /\ ~r.closed => r.open = open \ {g} /\ r.threw
          /\ r.closed => r.open = (open \ {g}) \cup ({r.fd} \ {NoFd})
          /\ r.threw /\ r.closed => r.fd = NoFd
      BY CopyFacts, CopyFailures DEF TypeOK
    <3>4. raw' = raw /\ obj[o] = Dead
      BY <2>7 DEF CopyConstruct
    <3>5. CASE r.threw
      <4>1. open' \subseteq open
        BY <3>2, <3>3, <3>5
      <4>2. QED BY <3>2, <3>4, <3>5, <4>1
    <3>6. CASE ~r.threw
      <4>1. open' \subseteq open \cup {r.fd} /\ obj' = [obj EXCEPT ![o] = r.fd]
        BY <3>2, <3>3, <3>6
      <4>2. QED BY <3>4, <4>1 DEF TypeOK
    <3>7. QED BY <3>5, <3>6
  <2>8. ASSUME NEW o \in Objs, NEW p \in Objs, MoveAssign(o, p)
        PROVE  Kept(f) \/ Overwrites(f)
    <3>1. /\ Live(p) /\ open' = open /\ raw' = raw
          /\ obj' = [[obj EXCEPT ![p] = NoFd] EXCEPT ![o] = obj[p]]
      BY <2>8 DEF MoveAssign
    <3>2. CASE o = p
      BY <3>1, <3>2 DEF TypeOK
    <3>3. CASE o # p /\ obj[o] = f
      <4>1. obj' = [obj EXCEPT ![o] = obj[p], ![p] = NoFd]
        BY <3>1, <3>3 DEF TypeOK
      <4>2. QED BY <3>1, <3>3, <4>1
    <3>4. CASE o # p /\ obj[o] # f
      BY <3>1, <3>4 DEF TypeOK
    <3>5. QED BY <3>2, <3>3, <3>4
  <2>9. ASSUME NEW o \in Objs, NEW p \in Objs, CopyAssign(o, p)
        PROVE  Kept(f)
    <3>1. PICK r \in CopyOutcomes(obj[o], IF o = p THEN NoFd ELSE obj[p]) :
            /\ open' = r.open
            /\ obj' = [obj EXCEPT ![o] = r.fd]
      BY <2>9 DEF CopyAssign
    <3>2. /\ raw' = raw
          /\ obj[o] \in Fds \cup {NoFd}
      BY <2>9 DEF CopyAssign, Live, TypeOK
    <3>3. r.open \subseteq (open \ {obj[o]}) \cup {r.fd}
      BY <3>2, CopyFacts, CopyFailures DEF TypeOK
    <3>4. QED BY <3>1, <3>2, <3>3 DEF TypeOK
  <2>10. ASSUME NEW o \in Objs, NEW p \in Objs, ConstructPFD(o, p)
         PROVE  Kept(f)
    BY <2>10 DEF ConstructPFD, TypeOK
  <2>11. ASSUME NEW o \in Objs, NEW p \in Objs, ConstructPipe(o, p)
         PROVE  Kept(f)
    BY <2>11 DEF ConstructPipe, TypeOK
  <2>12. CASE OpenRaw \/ CloseRaw
    BY <2>12 DEF OpenRaw, CloseRaw
  <2>13. QED
    BY <2>1, <2>2, <2>3, <2>4, <2>5, <2>6, <2>7, <2>8, <2>9, <2>10, <2>11,
       <2>12 DEF Next, Unary, Binary
<1>2. QED BY <1>1, TypeCorrect, PTL DEF Spec, LeaksOnlyByMoveAssign
=============================================================================
