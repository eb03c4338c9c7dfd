---------------------------- MODULE Process_proofs ----------------------------
(***************************************************************************)
(* Process for every set of objects and pids, when no fork fails: an       *)
(* object that has not waited always names its own child and a child its   *)
(* object, hence signals do not stray and the destructor does not throw.   *)
(***************************************************************************)
EXTENDS Process, Redirect, TLAPS

USE ProcessAssumption

(* The two sides of the tie between the objects and the process table.     *)
Tied == DesignatesOwnChild /\ NoChildUnattended

-----------------------------------------------------------------------------
(* The initial entries are well formed.                                    *)
LEMMA UnusedFacts == Unused \in Entry /\ NoObj \in Members
BY DEF Unused, NoObj, Entry, Members, Statuses

(* waitpid answers with a pid.                                             *)
LEMMA ZombieFacts ==
  ASSUME TypeOK, NEW o \in Objs
  PROVE  Zombies(obj[o].pid) \subseteq Pids
<1>1. obj[o].pid \in Pids \cup {-1}
  BY DEF TypeOK, Members
<1>2. QED BY <1>1 DEF Zombies, ChildrenNamed, Named

(* Wait() reaps, returns what it knows, or throws when there is no child.   *)
LEMMA WaitFacts ==
  ASSUME NEW o \in Objs, NEW w \in WaitOutcomes(o)
  PROVE  \/ /\ ~obj[o].waited
            /\ \E z \in Zombies(obj[o].pid) : w.tab = [tab EXCEPT ![z] = Unused]
            /\ w.threw = FALSE
         \/ /\ obj[o].waited
            /\ w.tab = tab
            /\ w.threw = FALSE
         \/ /\ ~obj[o].waited
            /\ ChildrenNamed(obj[o].pid) = {}
            /\ w.tab = tab
            /\ w.threw = TRUE
<1>1. CASE obj[o].waited
  BY <1>1 DEF WaitOutcomes
<1>2. CASE ~obj[o].waited
  <2>1. \/ \E z \in Zombies(obj[o].pid) :
             w = [tab |-> [tab EXCEPT ![z] = Unused], threw |-> FALSE]
        \/ /\ ChildrenNamed(obj[o].pid) = {}
           /\ w = [tab |-> tab, threw |-> TRUE]
    BY <1>2 DEF WaitOutcomes
  <2>2. QED BY <1>2, <2>1
<1>3. QED BY <1>1, <1>2

(* Statuses, signals and members stay within their types whatever forks,   *)
(* exits and waits happen (Process.h:34-38).                               *)
THEOREM TypeCorrect == Spec => []TypeOK
<1>1. Init => TypeOK
  BY UnusedFacts DEF Init, TypeOK
<1>2. TypeOK /\ [Next]_vars => TypeOK'
  <2> SUFFICES ASSUME TypeOK, [Next]_vars
               PROVE  TypeOK'
    OBVIOUS
  <2> USE DEF TypeOK
  <2>1. ASSUME NEW o \in Objs, New(o)
        PROVE  TypeOK'
    <3>1. PICK pid \in {p \in Pids : tab[p].st = "free"} \cup {-1}, ignores \in BOOLEAN :
            /\ obj' = [obj EXCEPT ![o] = [pc |-> "alive", pid |-> pid,
                                          waited |-> FALSE, xstat |-> 0]]
            /\ tab' = IF pid = -1
                      THEN tab
                      ELSE [tab EXCEPT ![pid] =
                              [Unused EXCEPT !.st = "running", !.owner = o,
                                             !.deaf = "TERM" \in blocked \/ ignores]]
      BY <2>1 DEF New
    <3>2. [pc |-> "alive", pid |-> pid, waited |-> FALSE, xstat |-> 0] \in Members
      BY DEF Members, Statuses
    <3>3. \A deaf \in BOOLEAN :
            [Unused EXCEPT !.st = "running", !.owner = o, !.deaf = deaf] \in Entry
      BY DEF Entry, Unused, Statuses
    <3>4. QED BY <2>1, <3>1, <3>2, <3>3 DEF New
  <2>2. ASSUME NEW o \in Objs, NEW sig \in Sigs
        PROVE  Signalled(o, sig) \in [Pids -> Entry]
    <3>1. \A e \in Entry :
            [e EXCEPT !.sigs = @ \cup {[sig |-> sig, from |-> o]}] \in Entry
      BY DEF Entry
    <3>2. QED BY <3>1 DEF Signalled
  <2>3. ASSUME NEW o \in Objs, NEW sig \in Sigs, Kill(o, sig)
        PROVE  TypeOK'
    BY <2>2, <2>3 DEF Kill
  <2>4. ASSUME NEW o \in Objs, NEW z \in Zombies(obj[o].pid), Reap(o, z)
        PROVE  tab' \in [Pids -> Entry] /\ obj' \in [Objs -> Members]
    <3>1. \A m \in Members, e \in Entry :
            [m EXCEPT !.waited = TRUE, !.xstat = e.stat] \in Members
      BY DEF Members, Entry
    <3>2. z \in Pids
      BY ZombieFacts
    <3>3. QED BY <2>4, <3>1, <3>2, UnusedFacts DEF Reap
  <2>5. ASSUME NEW o \in Objs, Terminated(o)
        PROVE  TypeOK'
    BY <2>4, <2>5 DEF Terminated
  <2>6. ASSUME NEW o \in Objs, Wait(o)
        PROVE  TypeOK'
    BY <2>4, <2>6 DEF Wait
  <2>7. ASSUME NEW o \in Objs, BeginDestroy(o)
        PROVE  TypeOK'
    <3>1. \A m \in Members : [m EXCEPT !.pc = "dying"] \in Members
      BY DEF Members
    <3>2. "TERM" \in Sigs
      BY DEF Sigs
    <3>3. QED BY <2>2, <2>7, <3>1, <3>2 DEF BeginDestroy
  <2>8. ASSUME NEW o \in Objs, FinishDestroy(o)
        PROVE  TypeOK'
    <3>1. PICK w \in WaitOutcomes(o) : tab' = w.tab /\ up' = ~w.threw
      BY <2>8 DEF FinishDestroy
    <3>2. w.tab = tab \/ \E z \in Pids : w.tab = [tab EXCEPT ![z] = Unused]
      BY <3>1, WaitFacts, ZombieFacts
    <3>3. w.threw \in BOOLEAN
      BY <3>1, WaitFacts
    <3>4. QED BY <2>8, <3>1, <3>2, <3>3, UnusedFacts DEF FinishDestroy
  <2>9. CASE EnterSigMask
    <3>1. PICK mask \in SUBSET Maskable :
            /\ scopes' = Append(scopes, [mask |-> mask, oldset |-> blocked])
            /\ blocked' = blocked \cup mask
      BY <2>9 DEF EnterSigMask
    <3>2. [mask |-> mask, oldset |-> blocked] \in Scope
      BY DEF Scope
    <3>3. QED BY <2>9, <3>1, <3>2 DEF EnterSigMask
  <2>10. CASE LeaveSigMask
    <3>1. scopes \in Seq(Scope) /\ scopes # <<>>
      BY <2>10 DEF LeaveSigMask
    <3>2. Len(scopes) \in Nat \ {0} /\ scopes[Len(scopes)] \in Scope
      BY <3>1
    <3>3. SubSeq(scopes, 1, Len(scopes) - 1) \in Seq(Scope)
      BY <3>1, <3>2
    <3>4. scopes[Len(scopes)].oldset \in SUBSET Maskable
      BY <3>2 DEF Scope
    <3>5. QED BY <2>10, <3>3, <3>4 DEF LeaveSigMask
  <2>11. ASSUME NEW p \in Pids, ForeignStarts(p) \/ ForeignEnds(p)
         PROVE  TypeOK'
    <3>1. [Unused EXCEPT !.st = "running"] \in Entry
      BY DEF Unused, Entry, Statuses
    <3>2. QED BY <2>11, <3>1, UnusedFacts DEF ForeignStarts, ForeignEnds
  <2>12. ASSUME NEW p \in Pids, ChildExits(p) \/ ChildDiesOfSignal(p)
         PROVE  TypeOK'
    <3>1. PICK x \in Statuses : Ends(p, x)
      BY <2>12 DEF ChildExits, ChildDiesOfSignal, Statuses
    <3>2. \A e \in Entry :
            [Unused EXCEPT !.st = "zombie", !.owner = e.owner, !.stat = x] \in Entry
      BY DEF Unused, Entry
    <3>3. QED BY <3>1, <3>2 DEF Ends
  <2>13. CASE UNCHANGED vars
    BY <2>13 DEF vars
  <2>14. QED
    BY <2>1, <2>3, <2>5, <2>6, <2>7, <2>8, <2>9, <2>10, <2>11, <2>12, <2>13
       DEF Next, Program, Kernel
<1>3. QED BY <1>1, <1>2, PTL DEF Spec

-----------------------------------------------------------------------------
(* What waitpid finds for an object that is tied to its child: at most the *)
(* child, and never nothing at all.                                        *)
LEMMA WaitpidFinds ==
  ASSUME TypeOK, DesignatesOwnChild, NEW o \in Objs, Unreaped(o)
  PROVE  /\ ChildrenNamed(obj[o].pid) = {obj[o].pid}
         /\ Zombies(obj[o].pid) \subseteq {obj[o].pid}
         /\ Running(obj[o].pid) \subseteq {obj[o].pid}
<1>1. /\ obj[o].pid \in Pids
      /\ tab[obj[o].pid].st # "free"
      /\ tab[obj[o].pid].owner = o
  BY DEF DesignatesOwnChild
<1>2. obj[o].pid # -1
  BY <1>1
<1>3. QED
  BY <1>1, <1>2 DEF ChildrenNamed, Zombies, Running, Named

(* Signals change nothing but the pending sets.                            *)
LEMMA SignalledFacts ==
  ASSUME TypeOK, NEW o \in Objs, NEW sig
  PROVE  \A p \in Pids : /\ Signalled(o, sig)[p].st = tab[p].st
                         /\ Signalled(o, sig)[p].owner = tab[p].owner
BY DEF Signalled, TypeOK

(* A process that leaves the table with its object's claim to it, all else *)
(* equal, keeps the rest tied.                                             *)
LEMMA TiedReap ==
  ASSUME TypeOK, Tied, NEW o \in Objs, Unreaped(o),
         tab' = [tab EXCEPT ![obj[o].pid] = Unused],
         \A q \in Objs \ {o} : obj'[q] = obj[q],
         ~Unreaped(o)'
  PROVE  Tied'
<1>1. /\ obj[o].pid \in Pids
      /\ tab[obj[o].pid].owner = o
  BY DEF Tied, DesignatesOwnChild
<1>2. /\ tab'[obj[o].pid].st = "free"
      /\ \A p \in Pids \ {obj[o].pid} : tab'[p] = tab[p]
  BY <1>1 DEF TypeOK, Unused
<1>3. ASSUME NEW q \in Objs, Unreaped(q)'
      PROVE  /\ obj'[q].pid \in Pids
             /\ tab'[obj'[q].pid].st # "free"
             /\ tab'[obj'[q].pid].owner = q
  <2>1. q # o /\ obj'[q] = obj[q] /\ Unreaped(q)
    BY <1>3 DEF Unreaped
  <2>2. /\ obj[q].pid \in Pids
        /\ tab[obj[q].pid].st # "free"
        /\ tab[obj[q].pid].owner = q
    BY <2>1 DEF Tied, DesignatesOwnChild
  <2>3. QED BY <1>1, <1>2, <2>1, <2>2
<1>4. ASSUME NEW p \in Pids, tab'[p].st # "free", tab'[p].owner # Foreign
      PROVE  (Unreaped(tab[p].owner) /\ obj[tab[p].owner].pid = p)'
  <2>1. p # obj[o].pid /\ tab'[p] = tab[p]
    BY <1>2, <1>4
  <2>2. tab[p].owner \in Objs
    BY <1>4, <2>1 DEF TypeOK, Entry
  <2>3. Unreaped(tab[p].owner) /\ obj[tab[p].owner].pid = p
    BY <1>4, <2>1 DEF Tied, NoChildUnattended
  <2>4. tab[p].owner # o
    BY <2>1, <2>3
  <2>5. QED BY <2>1, <2>2, <2>3, <2>4 DEF Unreaped
<1>5. QED BY <1>3, <1>4 DEF Tied, DesignatesOwnChild, NoChildUnattended

(* What neither reaps nor forks, nor lets go of a child, keeps all tied.   *)
LEMMA TiedSame ==
  ASSUME Tied,
         \A o \in Objs : /\ (obj'[o].pc = "none" <=> obj[o].pc = "none")
                         /\ obj'[o].pid = obj[o].pid
                         /\ obj'[o].waited = obj[o].waited,
         \A p \in Pids : /\ (tab'[p].st = "free" <=> tab[p].st = "free")
                         /\ tab'[p].owner = tab[p].owner,
         TypeOK
  PROVE  Tied'
<1>1. ASSUME NEW o \in Objs, Unreaped(o)'
      PROVE  /\ obj'[o].pid \in Pids
             /\ tab'[obj'[o].pid].st # "free"
             /\ tab'[obj'[o].pid].owner = o
  <2>1. Unreaped(o) /\ obj'[o].pid = obj[o].pid
    BY <1>1 DEF Unreaped
  <2>2. /\ obj[o].pid \in Pids
        /\ tab[obj[o].pid].st # "free"
        /\ tab[obj[o].pid].owner = o
    BY <2>1 DEF Tied, DesignatesOwnChild
  <2>3. QED BY <2>1, <2>2
<1>2. \A p \in Pids : tab[p].owner \in Objs \cup {Foreign}
  BY DEF TypeOK, Entry
<1>3. NoChildUnattended'
  BY <1>2 DEF Tied, NoChildUnattended, Unreaped
<1>4. QED BY <1>1, <1>3 DEF Tied, DesignatesOwnChild

(* pid_ of an object that has not waited always names a process that this  *)
(* object forked, and every child has such an object, however often pids   *)
(* are used again (Process.cpp:87-131).                                    *)
THEOREM ChildrenTied ==
  ASSUME ForkMayFail = FALSE
  PROVE  Spec => [](DesignatesOwnChild /\ NoChildUnattended)
<1>1. Init => Tied
  BY DEF Init, Tied, DesignatesOwnChild, NoChildUnattended, Unreaped, Unused,
         NoObj
<1>2. TypeOK /\ Tied /\ [Next]_vars => Tied'
  <2> SUFFICES ASSUME TypeOK, Tied, [Next]_vars
               PROVE  Tied'
    OBVIOUS
  <2>1. ASSUME NEW o \in Objs, New(o)
        PROVE  Tied'
    BY <2>1 DEF New, Unused, Tied, DesignatesOwnChild, NoChildUnattended,
                Unreaped, TypeOK
  <2>2. ASSUME NEW o \in Objs, NEW sig \in Sigs, Kill(o, sig)
        PROVE  Tied'
    BY <2>2, SignalledFacts, TiedSame DEF Kill
  <2>3. ASSUME NEW o \in Objs, Unreaped(o), NEW z \in Zombies(obj[o].pid),
               Reap(o, z)
        PROVE  Tied'
    <3>1. z = obj[o].pid
      BY <2>3, WaitpidFinds DEF Tied
    <3>2. obj' = [obj EXCEPT ![o] = [obj[o] EXCEPT !.waited = TRUE,
                                                   !.xstat = tab[z].stat]]
      BY <2>3 DEF Reap
    <3>3. \A m \in Members : \A x : [m EXCEPT !.waited = TRUE, !.xstat = x].waited = TRUE
      BY DEF Members
    <3>4. ~Unreaped(o)'
      BY <3>2, <3>3 DEF Unreaped, TypeOK
    <3>5. \A q \in Objs \ {o} : obj'[q] = obj[q]
      BY <3>2 DEF TypeOK
    <3>6. tab' = [tab EXCEPT ![obj[o].pid] = Unused]
      BY <2>3, <3>1 DEF Reap
    <3>7. QED BY <2>3, <3>4, <3>5, <3>6, TiedReap
  <2>4. ASSUME NEW o \in Objs, Terminated(o)
        PROVE  Tied'
    <3>1. CASE UNCHANGED <<tab, obj>>
      BY <3>1, TiedSame
    <3>2. CASE ~UNCHANGED <<tab, obj>>
      <4>1. /\ Unreaped(o)
            /\ \E z \in Zombies(obj[o].pid) : Reap(o, z)
        BY <2>4, <3>2 DEF Terminated, Unreaped
      <4>2. QED BY <2>3, <4>1
    <3>3. QED BY <3>1, <3>2
  <2>5. ASSUME NEW o \in Objs, Wait(o)
        PROVE  Tied'
    <3>1. Unreaped(o) /\ \E z \in Zombies(obj[o].pid) : Reap(o, z)
      BY <2>5 DEF Wait, Unreaped
    <3>2. QED BY <2>3, <3>1
  <2>6. ASSUME NEW o \in Objs, BeginDestroy(o)
        PROVE  Tied'
    <3>1. \A m \in Members : /\ [m EXCEPT !.pc = "dying"].pc = "dying"
                            /\ [m EXCEPT !.pc = "dying"].pid = m.pid
                            /\ [m EXCEPT !.pc = "dying"].waited = m.waited
      BY DEF Members
    <3>2. \A q \in Objs : /\ (obj'[q].pc = "none" <=> obj[q].pc = "none")
                        /\ obj'[q].pid = obj[q].pid
                        /\ obj'[q].waited = obj[q].waited
      BY <2>6, <3>1 DEF BeginDestroy, TypeOK
    <3>3. QED BY <2>6, <3>2, SignalledFacts, TiedSame DEF BeginDestroy
  <2>7. ASSUME NEW o \in Objs, FinishDestroy(o)
        PROVE  Tied'
    <3>1. obj' = [obj EXCEPT ![o] = NoObj] /\ obj[o].pc = "dying"
      BY <2>7 DEF FinishDestroy
    <3>2. PICK w \in WaitOutcomes(o) : tab' = w.tab
      BY <2>7 DEF FinishDestroy
    <3>3. ~Unreaped(o)' /\ \A q \in Objs \ {o} : obj'[q] = obj[q]
      BY <3>1 DEF Unreaped, NoObj, TypeOK
    <3>4. CASE obj[o].waited
      <4>1. tab' = tab
        BY <3>2, <3>4, WaitFacts
      <4>2. QED
        BY <3>1, <3>3, <3>4, <4>1
           DEF Tied, DesignatesOwnChild, NoChildUnattended, Unreaped, TypeOK
    <3>5. CASE ~obj[o].waited
      <4>1. Unreaped(o)
        BY <3>1, <3>5 DEF Unreaped
      <4>2. ChildrenNamed(obj[o].pid) = {obj[o].pid}
              /\ Zombies(obj[o].pid) \subseteq {obj[o].pid}
        BY <4>1, WaitpidFinds DEF Tied
      <4>3. \E z \in Zombies(obj[o].pid) : w.tab = [tab EXCEPT ![z] = Unused]
        BY <3>2, <3>5, <4>2, WaitFacts
      <4>4. tab' = [tab EXCEPT ![obj[o].pid] = Unused]
        BY <3>2, <4>2, <4>3
      <4>5. QED BY <3>3, <4>1, <4>4, TiedReap
    <3>6. QED BY <3>4, <3>5
  <2>8. CASE EnterSigMask \/ LeaveSigMask
    BY <2>8, TiedSame DEF EnterSigMask, LeaveSigMask
  <2>9. ASSUME NEW p \in Pids, ForeignStarts(p) \/ ForeignEnds(p)
        PROVE  Tied'
    <3>1. obj' = obj
      BY <2>9 DEF ForeignStarts, ForeignEnds
    <3>2. /\ \A q \in Pids \ {p} : tab'[q] = tab[q]
          /\ tab'[p].owner = Foreign
          /\ tab[p].st = "free" \/ tab[p].owner = Foreign
      BY <2>9 DEF ForeignStarts, ForeignEnds, Unused, TypeOK
    <3>3. \A o \in Objs : Unreaped(o) => obj[o].pid \in Pids \ {p}
      BY <3>2 DEF Tied, DesignatesOwnChild
    <3>4. DesignatesOwnChild'
      BY <3>1, <3>2, <3>3 DEF Tied, DesignatesOwnChild, Unreaped
    <3>5. NoChildUnattended'
      BY <3>1, <3>2 DEF Tied, NoChildUnattended, Unreaped
    <3>6. QED BY <3>4, <3>5 DEF Tied
  <2>10. ASSUME NEW p \in Pids, NEW x, Ends(p, x)
         PROVE  Tied'
    BY <2>10, TiedSame DEF Ends, Unused, TypeOK
  <2>11. CASE UNCHANGED vars
    BY <2>11, TiedSame DEF vars
  <2>12. QED
    BY <2>1, <2>2, <2>4, <2>5, <2>6, <2>7, <2>8, <2>9, <2>10, <2>11
       DEF Next, Program, Kernel, ChildExits, ChildDiesOfSignal
<1>3. QED BY <1>1, <1>2, TypeCorrect, PTL DEF Spec, Tied

(* The destructor does not throw: the child its Wait() waits for is there  *)
(* (Process.cpp:87-91, 123-127).                                           *)
THEOREM DestructorSafe ==
  ASSUME ForkMayFail = FALSE
  PROVE  Spec => []DestructorNeverThrows
<1>1. Init => DestructorNeverThrows
  BY DEF Init, DestructorNeverThrows
<1>2. /\ TypeOK
      /\ DesignatesOwnChild
      /\ DestructorNeverThrows
      /\ [Next]_vars
      => DestructorNeverThrows'
  <2> SUFFICES ASSUME TypeOK, DesignatesOwnChild, up, [Next]_vars
               PROVE  up'
    BY DEF DestructorNeverThrows
  <2>1. ASSUME NEW o \in Objs, FinishDestroy(o)
        PROVE  up'
    <3>1. PICK w \in WaitOutcomes(o) : up' = ~w.threw
      BY <2>1 DEF FinishDestroy
    <3>2. ~obj[o].waited => ChildrenNamed(obj[o].pid) # {}
      BY <2>1, WaitpidFinds DEF FinishDestroy, Unreaped
    <3>3. w.threw = FALSE
      BY <3>2, WaitFacts
    <3>4. QED BY <3>1, <3>3
  <2>2. ASSUME NEW o \in Objs, Program(o), ~FinishDestroy(o)
        PROVE  up'
    BY <2>2 DEF Program, New, Kill, Terminated, Wait, BeginDestroy
  <2> DEFINE Elsewhere == \/ \E p \in Pids : Kernel(p)
                          \/ EnterSigMask \/ LeaveSigMask
                          \/ UNCHANGED vars
  <2>3. Elsewhere => up' = up
    <3>1. \A p \in Pids : Kernel(p) => up' = up
      BY DEF Kernel, ChildExits, ChildDiesOfSignal, Ends, ForeignStarts,
             ForeignEnds
    <3>2. EnterSigMask \/ LeaveSigMask \/ UNCHANGED vars => up' = up
      BY DEF EnterSigMask, LeaveSigMask, vars
    <3>3. QED BY <3>1, <3>2
  <2>4. Elsewhere \/ \E o \in Objs : Program(o)
    BY DEF Next
  <2> QED BY <2>1, <2>2, <2>3, <2>4
<1>3. QED BY <1>1, <1>2, TypeCorrect, ChildrenTied, PTL DEF Spec

(* Every signal that a process has got was sent by the object that forked  *)
(* it, whoever uses a former pid of a child (Process.cpp:93-100).          *)
THEOREM SignalsStayHome ==
  ASSUME ForkMayFail = FALSE
  PROVE  Spec => []SignalsOnlyOwnChild
<1>1. Init => SignalsOnlyOwnChild
  BY DEF Init, SignalsOnlyOwnChild, Unused
<1>2. TypeOK /\ DesignatesOwnChild /\ SignalsOnlyOwnChild /\ [Next]_vars
        => SignalsOnlyOwnChild'
  <2> SUFFICES ASSUME TypeOK, DesignatesOwnChild, SignalsOnlyOwnChild,
                      [Next]_vars
               PROVE  SignalsOnlyOwnChild'
    OBVIOUS
  <2>1. ASSUME NEW o \in Objs, NEW sig, obj[o].pc # "none",
               tab' = Signalled(o, sig)
        PROVE  SignalsOnlyOwnChild'
    <3>1. CASE obj[o].waited
      BY <2>1, <3>1 DEF Signalled, SignalsOnlyOwnChild
    <3>2. CASE ~obj[o].waited
      <4>1. Unreaped(o)
        BY <2>1, <3>2 DEF Unreaped
      <4>2. /\ Running(obj[o].pid) \subseteq {obj[o].pid}
            /\ tab[obj[o].pid].owner = o
        BY <4>1, WaitpidFinds DEF DesignatesOwnChild
      <4> SUFFICES ASSUME NEW p \in Pids, NEW s \in tab'[p].sigs
                   PROVE  s.from = tab'[p].owner
        BY DEF SignalsOnlyOwnChild
      <4>3. tab'[p].owner = tab[p].owner
        BY <2>1, SignalledFacts
      <4>4. CASE s \in tab[p].sigs
        BY <4>3, <4>4 DEF SignalsOnlyOwnChild
      <4>5. CASE s \notin tab[p].sigs
        <5>1. p \in Running(obj[o].pid) /\ s = [sig |-> sig, from |-> o]
          BY <2>1, <3>2, <4>5 DEF Signalled, TypeOK, Entry
        <5>2. QED BY <4>2, <4>3, <5>1
      <4>6. QED BY <4>4, <4>5
    <3>3. QED BY <3>1, <3>2
  <2>2. ASSUME NEW o \in Objs, NEW sig \in Sigs, Kill(o, sig)
        PROVE  SignalsOnlyOwnChild'
    BY <2>1, <2>2 DEF Kill
  <2>3. ASSUME NEW o \in Objs, BeginDestroy(o)
        PROVE  SignalsOnlyOwnChild'
    BY <2>1, <2>3 DEF BeginDestroy
  <2>4. ASSUME \/ tab' = tab
               \/ \E q \in Pids : \E e : tab' = [tab EXCEPT ![q] = e] /\ e.sigs = {}
        PROVE  SignalsOnlyOwnChild'
    BY <2>4 DEF TypeOK, SignalsOnlyOwnChild
  <2>5. Unused.sigs = {}
    BY DEF Unused
  <2>6. ASSUME NEW o \in Objs, New(o)
        PROVE  SignalsOnlyOwnChild'
    <3>1. \A d : [Unused EXCEPT !.st = "running", !.owner = o, !.deaf = d].sigs = {}
      BY DEF Unused
    <3>2. QED BY <2>4, <2>6, <3>1 DEF New
  <2>7. ASSUME NEW o \in Objs, Terminated(o) \/ Wait(o)
        PROVE  SignalsOnlyOwnChild'
    BY <2>4, <2>5, <2>7, ZombieFacts DEF Terminated, Wait, Reap
  <2>8. ASSUME NEW o \in Objs, FinishDestroy(o)
        PROVE  SignalsOnlyOwnChild'
    BY <2>4, <2>5, <2>8, WaitFacts, ZombieFacts DEF FinishDestroy
  <2>9. ASSUME NEW q \in Pids, NEW x, Ends(q, x)
        PROVE  SignalsOnlyOwnChild'
    <3> DEFINE e == [Unused EXCEPT !.st = "zombie", !.owner = tab[q].owner,
                                   !.stat = x]
    <3>1. e.sigs = {}
      BY DEF Unused
    <3>2. tab' = [tab EXCEPT ![q] = e]
      BY <2>9 DEF Ends
    <3> HIDE DEF e
    <3>3. QED BY <2>4, <3>1, <3>2
  <2>10. ASSUME NEW q \in Pids, ForeignStarts(q) \/ ForeignEnds(q)
         PROVE  SignalsOnlyOwnChild'
    BY <2>4, <2>10 DEF ForeignStarts, ForeignEnds, Unused
  <2>11. CASE EnterSigMask \/ LeaveSigMask \/ UNCHANGED vars
    BY <2>4, <2>11 DEF EnterSigMask, LeaveSigMask, vars
  <2>12. QED
    BY <2>2, <2>3, <2>6, <2>7, <2>8, <2>9, <2>10, <2>11
       DEF Next, Program, Kernel, ChildExits, ChildDiesOfSignal
<1>3. QED BY <1>1, <1>2, TypeCorrect, ChildrenTied, PTL DEF Spec

(* No object that is gone, or that believes it has waited, leaves a child  *)
(* behind, running or as a zombie (Process.cpp:87-91).                     *)
THEOREM ChildrenAttended ==
  ASSUME ForkMayFail = FALSE
  PROVE  Spec => []NoChildUnattended
BY ChildrenTied, PTL

-----------------------------------------------------------------------------
(* What every child that an object still waits for has come to: it runs    *)
(* and has no status, or it is a zombie with the status it exited with.    *)
ChildHasStatus ==
  \A o \in Objs : Unreaped(o) =>
    exited[o] = IF tab[obj[o].pid].st = "running"
                THEN {}
                ELSE {tab[obj[o].pid].stat}

StatusKept == ChildHasStatus /\ StatusIsOwnChilds

(* A step that changes neither the states and statuses of processes nor    *)
(* what the objects know of theirs keeps them.                             *)
LEMMA StatusSame ==
  ASSUME TypeOK, DesignatesOwnChild, StatusKept,
         exited' = exited,
         \A o \in Objs : /\ (obj'[o].pc = "none" <=> obj[o].pc = "none")
                         /\ obj'[o].pid = obj[o].pid
                         /\ obj'[o].waited = obj[o].waited
                         /\ obj'[o].xstat = obj[o].xstat,
         \A p \in Pids : tab[p].owner # Foreign =>
                           /\ tab'[p].st = tab[p].st
                           /\ tab'[p].stat = tab[p].stat
  PROVE  StatusKept'
<1>1. ASSUME NEW o \in Objs, Unreaped(o)'
      PROVE  exited'[o] = IF tab'[obj'[o].pid].st = "running"
                          THEN {}
                          ELSE {tab'[obj'[o].pid].stat}
  <2>1. Unreaped(o) /\ obj'[o].pid = obj[o].pid
    BY <1>1 DEF Unreaped
  <2>2. obj[o].pid \in Pids /\ tab[obj[o].pid].owner # Foreign
    BY <2>1 DEF DesignatesOwnChild
  <2>3. QED BY <2>1, <2>2 DEF StatusKept, ChildHasStatus
<1>2. StatusIsOwnChilds'
  BY DEF StatusKept, StatusIsOwnChilds
<1>3. QED BY <1>1, <1>2 DEF StatusKept, ChildHasStatus

(* A step that concerns one object and its child, all else equal.          *)
LEMMA StatusOne ==
  ASSUME TypeOK, DesignatesOwnChild, StatusKept, NEW o \in Objs,
         \A q \in Objs \ {o} : obj'[q] = obj[q] /\ exited'[q] = exited[q],
         \A p \in Pids : tab[p].owner \in Objs \ {o} => tab'[p] = tab[p],
         obj'[o].waited => exited'[o] = {obj'[o].xstat},
         Unreaped(o)' => exited'[o] = IF tab'[obj'[o].pid].st = "running"
                                      THEN {}
                                      ELSE {tab'[obj'[o].pid].stat}
  PROVE  StatusKept'
<1>1. ASSUME NEW q \in Objs \ {o}, Unreaped(q)'
      PROVE  exited'[q] = IF tab'[obj'[q].pid].st = "running"
                          THEN {}
                          ELSE {tab'[obj'[q].pid].stat}
  <2>1. Unreaped(q) /\ obj'[q] = obj[q]
    BY <1>1 DEF Unreaped
  <2>2. obj[q].pid \in Pids /\ tab[obj[q].pid].owner = q
    BY <2>1 DEF DesignatesOwnChild
  <2>3. tab'[obj[q].pid] = tab[obj[q].pid]
    BY <2>2
  <2>4. QED BY <2>1, <2>3 DEF StatusKept, ChildHasStatus
<1>2. ChildHasStatus'
  BY <1>1 DEF ChildHasStatus
<1>3. StatusIsOwnChilds'
  BY DEF StatusKept, StatusIsOwnChilds
<1>4. QED BY <1>2, <1>3 DEF StatusKept

(* The status that xstat_ holds once waited_ is set is the one this        *)
(* object's own child exited with, however often pids are used again and   *)
(* whichever object reaps first (Process.cpp:107-114, 123-130).            *)
THEOREM StatusTrue ==
  ASSUME ForkMayFail = FALSE
  PROVE  Spec => []StatusIsOwnChilds
<1>1. Init => StatusKept
  BY DEF Init, StatusKept, ChildHasStatus, StatusIsOwnChilds, Unreaped, NoObj
<1>2. TypeOK /\ Tied /\ StatusKept /\ [Next]_vars => StatusKept'
  <2> SUFFICES ASSUME TypeOK, DesignatesOwnChild, NoChildUnattended, StatusKept,
                      [Next]_vars
               PROVE  StatusKept'
    BY DEF Tied
  <2>1. ASSUME NEW o \in Objs, New(o)
        PROVE  StatusKept'
    <3>1. PICK pid \in {p \in Pids : tab[p].st = "free"}, ignores \in BOOLEAN :
            /\ obj' = [obj EXCEPT ![o] = [pc |-> "alive", pid |-> pid,
                                          waited |-> FALSE, xstat |-> 0]]
            /\ tab' = [tab EXCEPT ![pid] = [Unused EXCEPT !.st = "running",
                                               !.owner = o,
                                               !.deaf = "TERM" \in blocked \/ ignores]]
            /\ exited' = [exited EXCEPT ![o] = {}]
      <4>1. {p \in Pids : tab[p].st = "free"} \cup (IF ForkMayFail THEN {-1} ELSE {})
              = {p \in Pids : tab[p].st = "free"}
        OBVIOUS
      <4>2. \A pid \in Pids : pid # -1
        OBVIOUS
      <4>3. PICK pid \in {p \in Pids : tab[p].st = "free"} : \E ignores \in BOOLEAN :
              /\ obj' = [obj EXCEPT ![o] = [pc |-> "alive", pid |-> pid,
                                            waited |-> FALSE, xstat |-> 0]]
              /\ tab' = IF pid = -1
                        THEN tab
                        ELSE [tab EXCEPT ![pid] = [Unused EXCEPT !.st = "running",
                                              !.owner = o,
                                              !.deaf = "TERM" \in blocked \/ ignores]]
        BY <2>1, <4>1, Zenon DEF New
      <4>4. QED BY <2>1, <4>2, <4>3 DEF New
    <3>2. /\ obj'[o].waited = FALSE /\ obj'[o].pid = pid
          /\ exited'[o] = {}
          /\ tab'[pid].st = "running"
      BY <3>1 DEF TypeOK, Unused
    <3>3. \A q \in Objs \ {o} : obj'[q] = obj[q] /\ exited'[q] = exited[q]
      BY <3>1 DEF TypeOK
    <3>4. ASSUME NEW q \in Objs \ {o}, Unreaped(q)'
          PROVE  exited'[q] = IF tab'[obj'[q].pid].st = "running"
                              THEN {}
                              ELSE {tab'[obj'[q].pid].stat}
      <4>1. Unreaped(q) /\ obj'[q] = obj[q]
        BY <3>3, <3>4 DEF Unreaped
      <4>2. obj[q].pid \in Pids /\ tab[obj[q].pid].st # "free"
        BY <4>1 DEF DesignatesOwnChild
      <4>3. tab'[obj[q].pid] = tab[obj[q].pid]
        BY <3>1, <4>2 DEF TypeOK
      <4>4. QED BY <3>3, <4>1, <4>3 DEF StatusKept, ChildHasStatus
    <3>5. ChildHasStatus'
      BY <3>2, <3>4 DEF ChildHasStatus
    <3>6. StatusIsOwnChilds'
      BY <3>2, <3>3 DEF StatusKept, StatusIsOwnChilds
    <3>7. QED BY <3>5, <3>6 DEF StatusKept
  <2>2. ASSUME NEW o \in Objs, NEW z \in Zombies(obj[o].pid), Unreaped(o),
               Reap(o, z), exited' = exited
        PROVE  StatusKept'
    <3>1. /\ z = obj[o].pid /\ z \in Pids
          /\ tab[z].st = "zombie" /\ tab[z].owner = o
      BY <2>2, WaitpidFinds DEF DesignatesOwnChild, Zombies
    <3>2. exited[o] = {tab[z].stat}
      BY <2>2, <3>1 DEF StatusKept, ChildHasStatus
    <3>3. \A m \in Members : \A x : /\ [m EXCEPT !.waited = TRUE, !.xstat = x].waited = TRUE
                                    /\ [m EXCEPT !.waited = TRUE, !.xstat = x].xstat = x
      BY DEF Members
    <3>4. obj' = [obj EXCEPT ![o] = [obj[o] EXCEPT !.waited = TRUE,
                                                   !.xstat = tab[z].stat]]
      BY <2>2 DEF Reap
    <3>5. obj'[o].waited = TRUE /\ obj'[o].xstat = tab[z].stat
      BY <3>3, <3>4 DEF TypeOK
    <3>6. \A q \in Objs \ {o} : obj'[q] = obj[q]
      BY <3>4 DEF TypeOK
    <3>7. \A p \in Pids : tab[p].owner \in Objs \ {o} => tab'[p] = tab[p]
      BY <2>2, <3>1 DEF Reap, TypeOK
    <3>8. QED BY <2>2, <3>2, <3>5, <3>6, <3>7, StatusOne DEF Unreaped
  <2>3. ASSUME NEW o \in Objs, Terminated(o)
        PROVE  StatusKept'
    <3>1. CASE UNCHANGED <<tab, obj>>
      BY <2>3, <3>1, StatusSame DEF Terminated
    <3>2. CASE ~UNCHANGED <<tab, obj>>
      <4>1. /\ Unreaped(o) /\ exited' = exited
            /\ \E z \in Zombies(obj[o].pid) : Reap(o, z)
        BY <2>3, <3>2 DEF Terminated, Unreaped
      <4>2. QED BY <2>2, <4>1
    <3>3. QED BY <3>1, <3>2
  <2>4. ASSUME NEW o \in Objs, Wait(o)
        PROVE  StatusKept'
    BY <2>2, <2>4 DEF Wait, Unreaped
  <2>5. ASSUME NEW sig, NEW o \in Objs, tab' = Signalled(o, sig)
        PROVE  \A p \in Pids : tab'[p].st = tab[p].st /\ tab'[p].stat = tab[p].stat
    BY <2>5 DEF Signalled, TypeOK
  <2>6. ASSUME NEW o \in Objs, NEW sig \in Sigs, Kill(o, sig)
        PROVE  StatusKept'
    BY <2>5, <2>6, StatusSame DEF Kill
  <2>7. ASSUME NEW o \in Objs, BeginDestroy(o)
        PROVE  StatusKept'
    <3>1. \A m \in Members : /\ [m EXCEPT !.pc = "dying"].pc = "dying"
                            /\ [m EXCEPT !.pc = "dying"].pid = m.pid
                            /\ [m EXCEPT !.pc = "dying"].waited = m.waited
                            /\ [m EXCEPT !.pc = "dying"].xstat = m.xstat
      BY DEF Members
    <3>2. \A q \in Objs : /\ (obj'[q].pc = "none" <=> obj[q].pc = "none")
                        /\ obj'[q].pid = obj[q].pid
                        /\ obj'[q].waited = obj[q].waited
                        /\ obj'[q].xstat = obj[q].xstat
      BY <2>7, <3>1 DEF BeginDestroy, TypeOK
    <3>3. QED BY <2>5, <2>7, <3>2, StatusSame DEF BeginDestroy
  <2>8. ASSUME NEW o \in Objs, FinishDestroy(o)
        PROVE  StatusKept'
    <3>1. /\ obj[o].pc = "dying"
          /\ obj' = [obj EXCEPT ![o] = NoObj]
          /\ exited' = [exited EXCEPT ![o] = {}]
      BY <2>8 DEF FinishDestroy
    <3>2. PICK w \in WaitOutcomes(o) : tab' = w.tab
      BY <2>8 DEF FinishDestroy
    <3>3. tab' = tab \/ (Unreaped(o) /\ \E z \in Zombies(obj[o].pid) :
                                          tab' = [tab EXCEPT ![z] = Unused])
      BY <3>1, <3>2, WaitFacts DEF Unreaped
    <3>4. Unreaped(o) => \A z \in Zombies(obj[o].pid) :
                           z = obj[o].pid /\ z \in Pids /\ tab[z].owner = o
      BY WaitpidFinds DEF DesignatesOwnChild
    <3>5. \A p \in Pids : tab[p].owner \in Objs \ {o} => tab'[p] = tab[p]
      BY <3>3, <3>4 DEF TypeOK
    <3>6. /\ \A q \in Objs \ {o} : obj'[q] = obj[q] /\ exited'[q] = exited[q]
          /\ obj'[o].waited = FALSE /\ obj'[o].pc = "none"
      BY <3>1 DEF TypeOK, NoObj
    <3>7. QED BY <3>5, <3>6, StatusOne DEF Unreaped
  <2>9. CASE EnterSigMask \/ LeaveSigMask
    BY <2>9, StatusSame DEF EnterSigMask, LeaveSigMask
  <2>10. ASSUME NEW p \in Pids, ForeignStarts(p) \/ ForeignEnds(p)
         PROVE  StatusKept'
    <3>1. /\ obj' = obj /\ exited' = exited
          /\ \A q \in Pids \ {p} : tab'[q] = tab[q]
      BY <2>10 DEF ForeignStarts, ForeignEnds, TypeOK
    <3>2. tab[p].st = "free" \/ tab[p].owner = Foreign
      BY <2>10 DEF ForeignStarts, ForeignEnds
    <3>3. ASSUME NEW o \in Objs, Unreaped(o)
          PROVE  exited[o] = IF tab'[obj[o].pid].st = "running"
                             THEN {}
                             ELSE {tab'[obj[o].pid].stat}
      <4>1. /\ obj[o].pid \in Pids
            /\ tab[obj[o].pid].st # "free" /\ tab[obj[o].pid].owner = o
        BY <3>3 DEF DesignatesOwnChild
      <4>2. tab'[obj[o].pid] = tab[obj[o].pid]
        BY <3>1, <3>2, <4>1
      <4>3. QED BY <3>3, <4>2 DEF StatusKept, ChildHasStatus
    <3>4. QED
      BY <3>1, <3>3 DEF StatusKept, ChildHasStatus, StatusIsOwnChilds, Unreaped
  <2>11. ASSUME NEW p \in Pids, NEW x \in Statuses, Ends(p, x)
         PROVE  StatusKept'
    <3>1. PICK o \in Objs : tab[p].owner = o
      BY <2>11 DEF Ends, TypeOK, Entry
    <3>2. /\ obj' = obj
          /\ exited' = [exited EXCEPT ![o] = {x}]
          /\ \A q \in Pids \ {p} : tab'[q] = tab[q]
          /\ tab'[p].st = "zombie" /\ tab'[p].stat = x
      BY <2>11, <3>1 DEF Ends, TypeOK, Unused
    <3>3. Unreaped(o) /\ obj[o].pid = p
      BY <2>11, <3>1 DEF Ends, NoChildUnattended
    <3>4. /\ \A q \in Objs \ {o} : obj'[q] = obj[q] /\ exited'[q] = exited[q]
          /\ exited'[o] = {x}
      BY <3>2 DEF TypeOK
    <3>5. \A q \in Pids : tab[q].owner \in Objs \ {o} => tab'[q] = tab[q]
      BY <3>1, <3>2
    <3>6. QED BY <3>2, <3>3, <3>4, <3>5, StatusOne DEF Unreaped
  <2>12. CASE UNCHANGED vars
    BY <2>12, StatusSame DEF vars
  <2>13. \A p \in Pids : ChildExits(p) \/ ChildDiesOfSignal(p)
                          => \E x \in Statuses : Ends(p, x)
    BY DEF ChildExits, ChildDiesOfSignal, Statuses
  <2>14. QED
    BY <2>1, <2>3, <2>4, <2>6, <2>7, <2>8, <2>9, <2>10, <2>11, <2>12, <2>13
       DEF Next, Program, Kernel
<1>3. QED BY <1>1, <1>2, TypeCorrect, ChildrenTied, PTL DEF Spec, StatusKept, Tied

-----------------------------------------------------------------------------
(* TRUE of Terminated() is only ever said of a child that has been reaped, *)
(* FALSE of a reaped one only if it exited with 0; no assumption about     *)
(* fork is needed (Process.cpp:102-116).                                   *)
THEOREM AnswersTrue == Spec => []AnswersMatchChild
<1>1. Init => AnswersMatchChild
  BY DEF Init, AnswersMatchChild
<1>2. TypeOK /\ AnswersMatchChild /\ [Next]_vars => AnswersMatchChild'
  <2> SUFFICES ASSUME TypeOK, AnswersMatchChild, [Next]_vars
               PROVE  AnswersMatchChild'
    OBVIOUS
  <2> USE DEF AnswersMatchChild
  <2>1. ASSUME NEW o \in Objs, New(o)
        PROVE  AnswersMatchChild'
    BY <2>1 DEF New, TypeOK
  <2>2. ASSUME NEW o \in Objs, NEW z \in Zombies(obj[o].pid), Reap(o, z)
        PROVE  /\ \A q \in Objs \ {o} : obj'[q] = obj[q]
               /\ obj'[o].waited = TRUE /\ obj'[o].xstat = tab[z].stat
    <3>1. obj' = [obj EXCEPT ![o] = [obj[o] EXCEPT !.waited = TRUE,
                                                   !.xstat = tab[z].stat]]
      BY <2>2 DEF Reap
    <3>2. \A m \in Members : \A x : /\ [m EXCEPT !.waited = TRUE, !.xstat = x].waited = TRUE
                                    /\ [m EXCEPT !.waited = TRUE, !.xstat = x].xstat = x
      BY DEF Members
    <3>3. QED BY <3>1, <3>2 DEF TypeOK
  <2>3. ASSUME NEW o \in Objs, Terminated(o)
        PROVE  AnswersMatchChild'
    <3>1. CASE obj[o].waited
      <4>1. obj' = obj /\ ans' = [ans EXCEPT ![o] = "yes"]
        BY <2>3, <3>1 DEF Terminated
      <4>2. QED BY <3>1, <4>1 DEF TypeOK
    <3>2. CASE obj' = obj /\ ans' = [ans EXCEPT ![o] = "no"] /\ ~obj[o].waited
      BY <3>2 DEF TypeOK
    <3>3. ASSUME NEW z \in Zombies(obj[o].pid), Reap(o, z),
                 ans' = [ans EXCEPT ![o] = IF tab[z].stat # 0 THEN "yes" ELSE "no"]
          PROVE  AnswersMatchChild'
      <4>1. /\ \A q \in Objs \ {o} : obj'[q] = obj[q] /\ ans'[q] = ans[q]
            /\ obj'[o].waited = TRUE /\ obj'[o].xstat = tab[z].stat
            /\ ans'[o] = IF tab[z].stat # 0 THEN "yes" ELSE "no"
        BY <2>2, <3>3 DEF TypeOK
      <4>2. QED BY <4>1
    <3>4. QED BY <2>3, <3>1, <3>2, <3>3 DEF Terminated
  <2>4. ASSUME NEW o \in Objs, Wait(o)
        PROVE  AnswersMatchChild'
    BY <2>2, <2>4 DEF Wait, TypeOK
  <2>5. ASSUME NEW o \in Objs, BeginDestroy(o)
        PROVE  AnswersMatchChild'
    <3>1. \A m \in Members : /\ [m EXCEPT !.pc = "dying"].waited = m.waited
                            /\ [m EXCEPT !.pc = "dying"].xstat = m.xstat
      BY DEF Members
    <3>2. \A q \in Objs : obj'[q].waited = obj[q].waited /\ obj'[q].xstat = obj[q].xstat
      BY <2>5, <3>1 DEF BeginDestroy, TypeOK
    <3>3. QED BY <2>5, <3>2 DEF BeginDestroy
  <2>6. ASSUME NEW o \in Objs, FinishDestroy(o)
        PROVE  AnswersMatchChild'
    BY <2>6 DEF FinishDestroy, TypeOK
  <2>7. ASSUME UNCHANGED <<obj, ans>>
        PROVE  AnswersMatchChild'
    BY <2>7
  <2>8. QED
    BY <2>1, <2>3, <2>4, <2>5, <2>6, <2>7
       DEF Next, Program, Kernel, Kill, ChildExits, ChildDiesOfSignal, Ends,
           ForeignStarts, ForeignEnds, EnterSigMask, LeaveSigMask, vars
<1>3. QED BY <1>1, <1>2, TypeCorrect, PTL DEF Spec

-----------------------------------------------------------------------------
(* Every scope restores what the scopes around it ask for.                 *)
ScopesNest ==
  \A k \in DOMAIN scopes :
    scopes[k].oldset = UNION {scopes[j].mask : j \in 1 .. (k - 1)}

(* The parent's mask is what the SigMask objects in scope ask for, however *)
(* deep they are nested and whatever was nested and left before            *)
(* (Signal.cpp:16-25).                                                     *)
THEOREM MaskIsOfOpenScopes == Spec => []BlockedByOpenScopes
<1>1. Init => ScopesNest /\ BlockedByOpenScopes
  BY DEF Init, ScopesNest, BlockedByOpenScopes
<1>2. TypeOK /\ ScopesNest /\ BlockedByOpenScopes /\ [Next]_vars
        => ScopesNest' /\ BlockedByOpenScopes'
  <2> SUFFICES ASSUME TypeOK, ScopesNest, BlockedByOpenScopes, [Next]_vars
               PROVE  ScopesNest' /\ BlockedByOpenScopes'
    OBVIOUS
  <2>1. scopes \in Seq(Scope) /\ Len(scopes) \in Nat /\ DOMAIN scopes = 1 .. Len(scopes)
    BY DEF TypeOK
  <2>2. CASE EnterSigMask
    <3>1. PICK mask \in SUBSET Maskable :
            /\ scopes' = Append(scopes, [mask |-> mask, oldset |-> blocked])
            /\ blocked' = blocked \cup mask
      BY <2>2 DEF EnterSigMask
    <3> DEFINE n == Len(scopes)
               sc == [mask |-> mask, oldset |-> blocked]
    <3>2. sc \in Scope
      BY DEF Scope, TypeOK
    <3>3. /\ DOMAIN scopes' = 1 .. (n + 1)
          /\ \A j \in 1 .. n : scopes'[j] = scopes[j]
          /\ scopes'[n + 1] = sc
      BY <2>1, <3>1, <3>2
    <3>4. blocked = UNION {scopes[j].mask : j \in 1 .. n}
      BY <2>1 DEF BlockedByOpenScopes
    <3>5. 1 .. (n + 1) = (1 .. n) \cup {n + 1}
      BY <2>1
    <3>6. UNION {scopes'[j].mask : j \in 1 .. n} = UNION {scopes[j].mask : j \in 1 .. n}
      BY <3>3
    <3>7. BlockedByOpenScopes'
      <4>1. UNION {scopes'[j].mask : j \in 1 .. (n + 1)}
              = (UNION {scopes'[j].mask : j \in 1 .. n}) \cup scopes'[n + 1].mask
        BY <3>5
      <4>2. QED BY <3>1, <3>3, <3>4, <3>6, <4>1 DEF BlockedByOpenScopes
    <3>8. ASSUME NEW k \in 1 .. (n + 1)
          PROVE  scopes'[k].oldset = UNION {scopes'[j].mask : j \in 1 .. (k - 1)}
      <4>1. \A j \in 1 .. (k - 1) : scopes'[j] = scopes[j]
        BY <2>1, <3>3
      <4>2. UNION {scopes'[j].mask : j \in 1 .. (k - 1)}
              = UNION {scopes[j].mask : j \in 1 .. (k - 1)}
        BY <4>1
      <4>3. CASE k = n + 1
        BY <2>1, <3>3, <3>4, <4>2, <4>3
      <4>4. CASE k \in 1 .. n
        BY <2>1, <3>3, <4>2, <4>4 DEF ScopesNest
      <4>5. QED BY <3>5, <4>3, <4>4
    <3>9. QED BY <3>3, <3>7, <3>8 DEF ScopesNest
  <2>3. CASE LeaveSigMask
    <3> DEFINE n == Len(scopes)
    <3>1. /\ n \in Nat \ {0}
          /\ blocked' = scopes[n].oldset
          /\ scopes' = SubSeq(scopes, 1, n - 1)
      BY <2>1, <2>3 DEF LeaveSigMask
    <3>2. /\ DOMAIN scopes' = 1 .. (n - 1)
          /\ \A j \in 1 .. (n - 1) : scopes'[j] = scopes[j]
      BY <2>1, <3>1
    <3>3. blocked' = UNION {scopes[j].mask : j \in 1 .. (n - 1)}
      BY <2>1, <3>1 DEF ScopesNest
    <3>4. BlockedByOpenScopes'
      <4>1. UNION {scopes'[j].mask : j \in 1 .. (n - 1)}
              = UNION {scopes[j].mask : j \in 1 .. (n - 1)}
        BY <3>2
      <4>2. QED BY <3>2, <3>3, <4>1 DEF BlockedByOpenScopes
    <3>5. ASSUME NEW k \in 1 .. (n - 1)
          PROVE  scopes'[k].oldset = UNION {scopes'[j].mask : j \in 1 .. (k - 1)}
      <4>1. \A j \in 1 .. (k - 1) : scopes'[j] = scopes[j]
        BY <3>1, <3>2
      <4>2. UNION {scopes'[j].mask : j \in 1 .. (k - 1)}
              = UNION {scopes[j].mask : j \in 1 .. (k - 1)}
        BY <4>1
      <4>3. k \in DOMAIN scopes
        BY <2>1, <3>1
      <4>4. QED BY <3>2, <4>2, <4>3 DEF ScopesNest
    <3>6. QED BY <3>2, <3>4, <3>5 DEF ScopesNest
  <2>4. CASE UNCHANGED <<blocked, scopes>>
    BY <2>4 DEF ScopesNest, BlockedByOpenScopes
  <2>5. QED
    BY <2>2, <2>3, <2>4
       DEF Next, Program, Kernel, New, Kill, Terminated, Wait, BeginDestroy,
           FinishDestroy, ChildExits, ChildDiesOfSignal, Ends, ForeignStarts,
           ForeignEnds, vars
<1>3. QED BY <1>1, <1>2, TypeCorrect, PTL DEF Spec

-----------------------------------------------------------------------------
(***************************************************************************)
(* What the forked child does to its descriptors (module Redirect), for    *)
(* any number of them: every orderly request is served, no other one is,   *)
(* and the other descriptors stay as they were.                            *)
(***************************************************************************)
USE RedirectAssumption

Want(n) == IF n \in Redirected THEN stdfd[n] ELSE n

(* Of the standard descriptors below i the turn is over: they are what was *)
(* asked for.                                                              *)
Served == \A n \in Std : n < i => table[n] = AtFork[Want(n)]

(* Those from i on are not served, and what they need is untouched.        *)
Ready == \A n \in Std : n >= i => table[Want(n)] = AtFork[Want(n)]

(* Beyond the standard ones just the sources used so far are closed.       *)
Others ==
  \A fd \in 3 .. MaxFd :
    table[fd] = IF \E n \in Redirected : n < i /\ stdfd[n] = fd
                THEN -1
                ELSE AtFork[fd]

InOrder ==
  Orderly => /\ Served
             /\ Ready
             /\ Others
             /\ pc # "aborted"
             /\ pc = "exec" => i = 3

-----------------------------------------------------------------------------
(* The state stays well formed (Process.cpp:40-49).                        *)
THEOREM ChildTypeCorrect == ChildSpec => []ChildTypeOK
<1> USE DEF ChildTypeOK, FdNums, Std
<1>1. ChildInit => ChildTypeOK
  BY DEF ChildInit, AtFork
<1>2. ChildTypeOK /\ [ChildNext]_childVars => ChildTypeOK'
  <2> SUFFICES ASSUME ChildTypeOK, [ChildNext]_childVars
               PROVE  ChildTypeOK'
    OBVIOUS
  <2>1. CASE UNCHANGED childVars
    BY <2>1 DEF childVars
  <2>2. CASE DupAndClose
    BY <2>2 DEF DupAndClose
  <2>3. CASE Skip \/ DupFails \/ Run
    <3>1. CASE Skip
      BY <3>1 DEF Skip
    <3>2. CASE DupFails \/ Run
      BY <3>2 DEF DupFails, Run
    <3> QED BY <2>3, <3>1, <3>2
  <2> QED BY <2>1, <2>2, <2>3 DEF ChildNext
<1>3. QED BY <1>1, <1>2, PTL DEF ChildSpec

-----------------------------------------------------------------------------
(* The invariant behind the two theorems below.                            *)
LEMMA InOrderInvariant == ChildSpec => []InOrder
<1> USE DEF FdNums, Std
<1>1. ChildInit => InOrder
  <2> SUFFICES ASSUME ChildInit
               PROVE  Served /\ Ready /\ Others /\ pc = "loop"
    BY DEF InOrder
  <2>1. table = AtFork /\ i = 0 /\ pc = "loop"
    BY DEF ChildInit
  <2>2. \A n \in Redirected : ~(n < i)
    BY <2>1 DEF Redirected
  <2>3. QED BY <2>1, <2>2 DEF Served, Ready, Others
<1>2. ChildTypeOK /\ InOrder /\ [ChildNext]_childVars => InOrder'
  <2> SUFFICES ASSUME ChildTypeOK, InOrder, [ChildNext]_childVars
               PROVE  InOrder'
    OBVIOUS
  <2>1. stdfd' = stdfd /\ inherited' = inherited
    BY DEF ChildNext, Skip, DupAndClose, DupFails, Run, childVars
  <2> SUFFICES ASSUME Orderly
               PROVE  (Served /\ Ready /\ Others /\ pc # "aborted"
                         /\ (pc = "exec" => i = 3))'
    <3>1. Orderly' => Orderly
      BY <2>1 DEF Orderly, Redirected
    <3>2. QED BY <3>1 DEF InOrder
  <2>2. Served /\ Ready /\ Others /\ pc # "aborted" /\ (pc = "exec" => i = 3)
    BY DEF InOrder
  <2>3. /\ Redirected' = Redirected
        /\ AtFork' = AtFork
        /\ \A n : Want(n)' = Want(n)
    BY <2>1 DEF Redirected, AtFork, Want
  <2>4. /\ stdfd \in [0 .. 2 -> (0 .. MaxFd) \cup {-1}]
        /\ table \in [0 .. MaxFd -> (0 .. MaxFd) \cup {-1}]
        /\ i \in 0 .. 3
    BY DEF ChildTypeOK
  <2>5. \A n \in 0 .. 2 : Want(n) \in 0 .. MaxFd
    BY <2>4 DEF Want, Redirected
  <2>6. CASE Skip
    <3>1. i' = i + 1 /\ table' = table /\ pc' = pc /\ pc = "loop" /\ i < 3
      BY <2>6 DEF Skip
    <3>2. i \notin Redirected /\ Want(i) = i
      BY <2>6 DEF Skip, Redirected, Want
    <3>3. Served'
      BY <2>2, <2>3, <2>4, <3>1, <3>2 DEF Served, Ready
    <3>4. Ready'
      BY <2>2, <2>3, <2>4, <3>1 DEF Ready
    <3>5. Others'
      BY <2>2, <2>1, <2>3, <2>4, <3>1, <3>2 DEF Others, Redirected
    <3>6. QED BY <3>1, <3>3, <3>4, <3>5
  <2>7. CASE DupAndClose
    <3> DEFINE s == stdfd[i]
    <3>1. /\ i' = i + 1 /\ pc' = pc /\ pc = "loop" /\ i \in 0 .. 2
          /\ table' = [[table EXCEPT ![i] = table[s]] EXCEPT ![s] = -1]
          /\ i \in Redirected
      BY <2>4, <2>7 DEF DupAndClose, Redirected
    <3>2. /\ s \in 0 .. MaxFd
          /\ s # i
          /\ s > 2 \/ (s > i /\ s \in Redirected)
          /\ \A n \in Redirected : n # i => stdfd[n] # s
      BY <2>4, <3>1 DEF Orderly, Redirected
    <3>3. /\ table'[i] = table[s]
          /\ table'[s] = -1
          /\ \A fd \in 0 .. MaxFd : fd # i /\ fd # s => table'[fd] = table[fd]
      BY <2>4, <3>1, <3>2
    <3>4. table[s] = AtFork[s] /\ Want(i) = s
      BY <2>2, <2>4, <3>1 DEF Ready, Want
    <3>5. Served'
      <4> SUFFICES ASSUME NEW n \in 0 .. 2, n < i + 1
                   PROVE  table'[n] = AtFork[Want(n)]
        BY <2>3, <3>1 DEF Served
      <4>1. CASE n = i
        BY <3>3, <3>4, <4>1
      <4>2. CASE n < i
        <5>1. n \in 0 .. MaxFd /\ n # i /\ n # s
          BY <3>1, <3>2, <4>2
        <5>2. QED BY <2>2, <3>3, <4>2, <5>1 DEF Served
      <4>3. QED BY <2>4, <4>1, <4>2
    <3>6. Ready'
      <4> SUFFICES ASSUME NEW n \in 0 .. 2, n >= i + 1
                   PROVE  table'[Want(n)] = AtFork[Want(n)]
        BY <2>3, <3>1 DEF Ready
      <4>1. table[Want(n)] = AtFork[Want(n)] /\ n # i /\ Want(n) \in 0 .. MaxFd
        BY <2>2, <2>4, <2>5 DEF Ready
      <4>2. Want(n) # i
        BY <2>4, <3>1 DEF Want, Orderly
      <4>3. Want(n) # s
        <5>1. CASE n \in Redirected
          BY <3>2, <4>1, <5>1 DEF Want
        <5>2. CASE n \notin Redirected
          BY <3>2, <5>2 DEF Want
        <5>3. QED BY <5>1, <5>2
      <4>4. QED BY <3>3, <4>1, <4>2, <4>3
    <3>7. Others'
      <4> SUFFICES ASSUME NEW fd \in 3 .. MaxFd
                   PROVE  table'[fd] = IF \E n \in Redirected : n < i + 1 /\ stdfd[n] = fd
                                       THEN -1
                                       ELSE AtFork[fd]
        BY <2>1, <2>3, <3>1 DEF Others
      <4>1. CASE fd = s
        BY <2>4, <3>1, <3>3, <4>1
      <4>2. CASE fd # s
        <5>1. table'[fd] = table[fd]
          <6>1. fd \in 0 .. MaxFd /\ fd # i
            BY <3>1
          <6>2. QED BY <3>3, <4>2, <6>1
        <5>2. \A n \in Redirected : (n < i + 1 /\ stdfd[n] = fd) <=> (n < i /\ stdfd[n] = fd)
          BY <2>4, <3>1, <4>2 DEF Redirected
        <5>3. QED BY <2>2, <5>1, <5>2 DEF Others
      <4>3. QED BY <4>1, <4>2
    <3>8. QED BY <3>1, <3>5, <3>6, <3>7
  <2>8. ASSUME DupFails
        PROVE  FALSE
    <3>1. i \in 0 .. 2 /\ i \in Redirected /\ table[stdfd[i]] = -1
      BY <2>4, <2>8 DEF DupFails, Redirected
    <3>2. table[stdfd[i]] = AtFork[stdfd[i]]
      BY <2>2, <3>1 DEF Ready, Want
    <3>3. stdfd[i] \in 0 .. MaxFd /\ stdfd[i] \in inherited
      BY <2>4, <3>1 DEF Orderly, Redirected
    <3>4. QED BY <3>1, <3>2, <3>3 DEF AtFork
  <2>9. CASE Run
    BY <2>2, <2>1, <2>3, <2>9 DEF Run, Served, Ready, Others
  <2>10. CASE UNCHANGED childVars
    BY <2>2, <2>1, <2>3, <2>10 DEF childVars, Served, Ready, Others
  <2>11. QED BY <2>6, <2>7, <2>8, <2>9, <2>10 DEF ChildNext
<1>3. QED BY <1>1, <1>2, ChildTypeCorrect, PTL DEF ChildSpec

(* An orderly request neither aborts the child nor starts its program with *)
(* a wrong standard descriptor (Process.cpp:40-51).                        *)
THEOREM OrderlyServed == ChildSpec => []OrderlyIsServed
<1>1. ChildTypeOK /\ InOrder => OrderlyIsServed
  BY DEF ChildTypeOK, InOrder, OrderlyIsServed, AsRequested, Served, Want, Std
<1>2. QED BY <1>1, ChildTypeCorrect, InOrderInvariant, PTL

(* And the program has no other number for the files it was given, while   *)
(* all the others stay open in it (Process.cpp:48).                        *)
THEOREM OthersAreInherited == ChildSpec => []OthersInherited
<1>1. ChildTypeOK /\ InOrder => OthersInherited
  BY DEF ChildTypeOK, InOrder, OthersInherited, Others, Redirected, Std
<1>2. QED BY <1>1, ChildTypeCorrect, InOrderInvariant, PTL

-----------------------------------------------------------------------------
(* One turn of the loop: the table after it.                               *)
Turn(t, n) ==
  IF stdfd[n] = -1 THEN t ELSE [[t EXCEPT ![n] = t[stdfd[n]]] EXCEPT ![stdfd[n]] = -1]

After1 == Turn(AtFork, 0)
After2 == Turn(After1, 1)
After3 == Turn(After2, 2)

(* The turns that are over found their sources open.                       *)
Unrolled ==
  /\ i = 0 => table = AtFork
  /\ i = 1 => table = After1
  /\ i = 2 => table = After2
  /\ i = 3 => table = After3
  /\ i > 0 /\ stdfd[0] # -1 => AtFork[stdfd[0]] # -1
  /\ i > 1 /\ stdfd[1] # -1 => After1[stdfd[1]] # -1
  /\ i > 2 /\ stdfd[2] # -1 => After2[stdfd[2]] # -1
  /\ pc = "exec" => i = 3

LEMMA UnrolledInvariant == ChildSpec => []Unrolled
<1>1. ChildInit => Unrolled
  BY DEF ChildInit, Unrolled
<1>2. ChildTypeOK /\ Unrolled /\ [ChildNext]_childVars => Unrolled'
  <2> SUFFICES ASSUME ChildTypeOK, Unrolled, [ChildNext]_childVars
               PROVE  Unrolled'
    OBVIOUS
  <2>1. stdfd' = stdfd /\ inherited' = inherited
    BY DEF ChildNext, Skip, DupAndClose, DupFails, Run, childVars
  <2>2. AtFork' = AtFork /\ After1' = After1 /\ After2' = After2 /\ After3' = After3
    BY <2>1 DEF AtFork, After1, After2, After3, Turn
  <2>3. i \in 0 .. 3
    BY DEF ChildTypeOK
  <2>4. CASE Skip \/ DupAndClose
    <3>1. /\ i \in 0 .. 2 /\ i' = i + 1 /\ pc' = pc /\ pc = "loop"
          /\ table' = Turn(table, i)
          /\ stdfd[i] # -1 => table[stdfd[i]] # -1
      BY <2>3, <2>4 DEF Skip, DupAndClose, Turn
    <3>2. CASE i = 0
      BY <2>1, <2>2, <3>1, <3>2 DEF Unrolled, After1
    <3>3. CASE i = 1
      BY <2>1, <2>2, <3>1, <3>3 DEF Unrolled, After2
    <3>4. CASE i = 2
      BY <2>1, <2>2, <3>1, <3>4 DEF Unrolled, After3
    <3>5. QED BY <3>1, <3>2, <3>3, <3>4
  <2>5. CASE DupFails \/ Run \/ UNCHANGED childVars
    BY <2>1, <2>2, <2>5 DEF DupFails, Run, childVars, Unrolled
  <2>6. QED BY <2>4, <2>5 DEF ChildNext
<1>3. QED BY <1>1, <1>2, ChildTypeCorrect, PTL DEF ChildSpec

(* No request but an orderly one starts the program with the descriptors   *)
(* that were asked for (Process.cpp:40-51).                                *)
THEOREM OnlyOrderlyServed == ChildSpec => []OnlyOrderlyIsServed
<1>1. ChildTypeOK /\ Unrolled => OnlyOrderlyIsServed
  <2> SUFFICES ASSUME ChildTypeOK, Unrolled, pc = "exec", AsRequested
               PROVE  Orderly
    BY DEF OnlyOrderlyIsServed
  <2> DEFINE s0 == stdfd[0]
             s1 == stdfd[1]
             s2 == stdfd[2]
             F == AtFork
             A == After1
             B == After2
             C == After3
  <2>1. /\ s0 \in (0 .. MaxFd) \cup {-1}
        /\ s1 \in (0 .. MaxFd) \cup {-1}
        /\ s2 \in (0 .. MaxFd) \cup {-1}
        /\ \A fd \in 0 .. MaxFd : F[fd] = IF fd \in inherited THEN fd ELSE -1
    BY DEF ChildTypeOK, Std, FdNums, AtFork
  <2>2. /\ s0 # -1 => F[s0] # -1
        /\ s1 # -1 => A[s1] # -1
        /\ s2 # -1 => B[s2] # -1
        /\ C[0] = F[IF s0 # -1 THEN s0 ELSE 0]
        /\ C[1] = F[IF s1 # -1 THEN s1 ELSE 1]
        /\ C[2] = F[IF s2 # -1 THEN s2 ELSE 2]
    BY DEF Unrolled, AsRequested, Redirected, Std
  <2>3. /\ F \in [0 .. MaxFd -> (0 .. MaxFd) \cup {-1}]
    BY DEF AtFork, FdNums
  <2>4. \A fd \in 0 .. MaxFd :
          A[fd] = IF s0 = -1 THEN F[fd] ELSE IF fd = s0 THEN -1 ELSE IF fd = 0 THEN F[s0] ELSE F[fd]
    BY <2>1, <2>3 DEF After1, Turn
  <2>5. A \in [0 .. MaxFd -> (0 .. MaxFd) \cup {-1}]
    BY <2>1, <2>3 DEF After1, Turn
  <2>6. \A fd \in 0 .. MaxFd :
          B[fd] = IF s1 = -1 THEN A[fd] ELSE IF fd = s1 THEN -1 ELSE IF fd = 1 THEN A[s1] ELSE A[fd]
    BY <2>1, <2>5 DEF After2, Turn
  <2>7. B \in [0 .. MaxFd -> (0 .. MaxFd) \cup {-1}]
    BY <2>1, <2>5 DEF After2, Turn
  <2>8. \A fd \in 0 .. MaxFd :
          C[fd] = IF s2 = -1 THEN B[fd] ELSE IF fd = s2 THEN -1 ELSE IF fd = 2 THEN B[s2] ELSE B[fd]
    BY <2>1, <2>7 DEF After3, Turn
  <2> HIDE DEF s0, s1, s2, F, A, B, C
  <2>9. /\ s0 # -1 => /\ s0 \in inherited
                      /\ s0 > 2 \/ (s0 = 1 /\ s1 # -1) \/ (s0 = 2 /\ s2 # -1)
        /\ s1 # -1 => s1 \in inherited /\ (s1 > 2 \/ (s1 = 2 /\ s2 # -1))
        /\ s2 # -1 => s2 \in inherited /\ s2 > 2
        /\ s0 # -1 /\ s1 # -1 => s0 # s1
        /\ s0 # -1 /\ s2 # -1 => s0 # s2
        /\ s1 # -1 /\ s2 # -1 => s1 # s2
    <3>1. 0 \in 0 .. MaxFd /\ 1 \in 0 .. MaxFd /\ 2 \in 0 .. MaxFd
      OBVIOUS
    <3> USE <2>1, <2>2, <2>4, <2>6, <2>8, <3>1
    <3>2. CASE s2 = -1
      BY <3>2, SMTT(60)
    <3>3. CASE s2 = 0
      BY <3>3, SMTT(60)
    <3>4. CASE s2 = 1
      BY <3>4, SMTT(60)
    <3>5. CASE s2 = 2
      BY <3>5, SMTT(60)
    <3>6. CASE s2 > 2
      BY <3>6, SMTT(60)
    <3>7. QED BY <3>2, <3>3, <3>4, <3>5, <3>6
  <2>10. QED
    BY <2>1, <2>9 DEF Orderly, Redirected, Std, s0, s1, s2
<1>2. QED BY <1>1, ChildTypeCorrect, UnrolledInvariant, PTL
=============================================================================
