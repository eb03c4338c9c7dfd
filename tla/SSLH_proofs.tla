----------------------------- MODULE SSLH_proofs ------------------------------
(***************************************************************************)
(* SSLH for all objects and connections: its types, the one owner of every *)
(* handle, the cached verification, and what the end of a stream and the   *)
(* shutdown flags are worth.                                               *)
(***************************************************************************)
EXTENDS SSLH, TLAPS

USE SSLHAssumption

-----------------------------------------------------------------------------
(* The state of one connection: an end that was read was the peer's, after *)
(* all of its records, and the flags are in order.                         *)
Ended(s) ==
  /\ s.eof => s.ended
  /\ s.ended => s.data = 0 /\ s.peer # "there"

ConnOK(s) == s \in Connections /\ Ended(s) /\ InOrder(s)

(* connect() makes a sound connection of a sound one.                      *)
LEMMA HandshakesSound ==
  ASSUME NEW s, ConnOK(s), NEW t \in Handshakes(s)
  PROVE  ConnOK(t) /\ t.open = s.open /\ t.notify = s.notify /\ t.reads = s.reads
<1> USE DEF ConnOK, Connections, Ended, InOrder, Both
<1>1. CASE t = s
  BY <1>1
<1>2. CASE t = [s EXCEPT !.hs = "failed", !.flags = Both]
  BY <1>2
<1>3. CASE t = [s EXCEPT !.hs = "done", !.flags = {}]
  BY <1>3
<1>4. QED BY <1>1, <1>2, <1>3 DEF Handshakes

(* So does the one that was just taken, with both flags set.               *)
LEMMA FlagsSound ==
  ASSUME NEW s, ConnOK(s), s.hs # "done"
  PROVE  ConnOK([s EXCEPT !.flags = Both])
BY DEF ConnOK, Connections, Ended, InOrder, Both

LEMMA TakeEndSound ==
  ASSUME NEW s, ConnOK(s)
  PROVE  /\ ConnOK(TakeEnd(s))
         /\ TakeEnd(s).open = s.open
         /\ TakeEnd(s).notify = s.notify
         /\ TakeEnd(s).reads = s.reads
         /\ TakeEnd(s).hs = s.hs
         /\ "sent" \in s.flags => "sent" \in TakeEnd(s).flags
BY DEF TakeEnd, ConnOK, Connections, Ended, InOrder, Both

LEMMA ReadEndSound ==
  ASSUME NEW s, ConnOK(s)
  PROVE  /\ ConnOK(ReadEnd(s))
         /\ ReadEnd(s).open = s.open
         /\ ReadEnd(s).notify = s.notify
         /\ ReadEnd(s).reads = s.reads
BY DEF ReadEnd, ConnOK, Connections, Ended, InOrder, Both

(* One SSL_shutdown with the close_notify to send, and where the call is   *)
(* then: unsent to a peer that is not gone, it tries again.                *)
LEMMA NotedSound ==
  ASSUME NEW s, ConnOK(s), NEW end \in Sends(s), NEW at \in {"wr", "first"}
  PROVE  /\ ConnOK(Noted(s, end))
         /\ Noted(s, end).open = s.open
         /\ Noted(s, end).reads = s.reads
         /\ "sent" \in Noted(s, end).flags
         /\ Onward(at, s, end) \in {"none", "wr", "first", "rd"}
         /\ Noted(s, end).notify = "unsent"
              => s.reads = "gone" \/ Onward(at, s, end) \in {"wr", "first"}
<1> USE DEF ConnOK, Connections, Ended, InOrder, Both
<1>1. /\ end \in {"sent", "want", "error"}
      /\ end = "error" => s.reads = "gone"
  BY DEF Sends
<1>2. /\ ConnOK(Noted(s, end))
      /\ Noted(s, end).open = s.open
      /\ Noted(s, end).reads = s.reads
      /\ "sent" \in Noted(s, end).flags
      /\ Noted(s, end).notify = "unsent" => end # "sent"
  BY DEF Noted
<1>3. QED BY <1>1, <1>2 DEF Onward

(* What shutrd() makes of a connection on which the write flag is set.     *)
LEMMA FinishSound ==
  ASSUME NEW s, ConnOK(s), "sent" \in s.flags, NEW hs \in {s.hs, "failed"}
  PROVE  ConnOK([s EXCEPT !.flags = Both, !.hs = hs])
BY DEF ConnOK, Connections, Ended, InOrder, Both

(* Nothing that the peer does makes a sound connection unsound.            *)
LEMMA PeerSound ==
  ASSUME NEW c \in Conns, conn \in [Conns -> Connections], ConnOK(conn[c]),
         PeerMoves(c)
  PROVE  \E t : /\ conn' = [conn EXCEPT ![c] = t]
                /\ ConnOK(t)
                /\ t.open = conn[c].open
                /\ t.hs = conn[c].hs
                /\ t.flags = conn[c].flags
                /\ t.notify = conn[c].notify
                /\ conn[c].reads = "gone" => t.reads = "gone"
<1> DEFINE s == conn[c]
           Good1(t) == /\ ConnOK(t)
                       /\ t.open = s.open /\ t.hs = s.hs /\ t.flags = s.flags
                       /\ t.notify = s.notify
                       /\ s.reads = "gone" => t.reads = "gone"
<1>1. SUFFICES \E t : conn' = [conn EXCEPT ![c] = t] /\ Good1(t)
  OBVIOUS
<1> USE DEF ConnOK, Connections, Ended, InOrder, Both
<1>2. CASE PeerReads(c)
  <2> DEFINE t == [s EXCEPT !.reads = "on"]
  <2>1. conn' = [conn EXCEPT ![c] = t]
    BY <1>2 DEF PeerReads
  <2>2. Good1(t)
    BY <1>2 DEF PeerReads
  <2>3. QED BY <2>1, <2>2
<1>3. CASE PeerSends(c)
  <2> DEFINE t == [s EXCEPT !.data = @ + 1]
  <2>1. conn' = [conn EXCEPT ![c] = t]
    BY <1>3 DEF PeerSends
  <2>2. Good1(t)
    BY <1>3 DEF PeerSends
  <2>3. QED BY <2>1, <2>2
<1>4. CASE PeerEnds(c)
  <2> DEFINE t == [s EXCEPT !.peer = "ended"]
  <2>1. conn' = [conn EXCEPT ![c] = t]
    BY <1>4 DEF PeerEnds
  <2>2. Good1(t)
    BY <1>4 DEF PeerEnds
  <2>3. QED BY <2>1, <2>2
<1>5. CASE PeerGoes(c)
  <2> DEFINE t == [s EXCEPT !.reads = "gone",
                     !.peer = IF @ = "ended" THEN "ended" ELSE "gone"]
             u == [s EXCEPT !.reads = "gone", !.peer = "gone", !.data = 0]
  <2>1. conn' = [conn EXCEPT ![c] = t] \/ conn' = [conn EXCEPT ![c] = u]
    BY <1>5 DEF PeerGoes
  <2>2. Good1(t)
    OBVIOUS
  <2>3. Good1(u)
    <3>1. s \in Connections /\ 0 \in 0 .. MaxData
      OBVIOUS
    <3>2. u \in Connections
      BY <3>1
    <3>3. /\ u.open = s.open /\ u.hs = s.hs /\ u.flags = s.flags
          /\ u.eof = s.eof /\ u.ended = s.ended
          /\ u.reads = "gone" /\ u.peer = "gone" /\ u.data = 0
          /\ u.notify = s.notify
      BY <3>1
    <3>4. Ended(u) /\ InOrder(u)
      BY <3>3
    <3>5. QED BY <3>2, <3>3, <3>4
  <2> HIDE DEF t, u, Good1
  <2>4. QED BY <2>1, <2>2, <2>3
<1>6. QED BY <1>2, <1>3, <1>4, <1>5 DEF PeerMoves

-----------------------------------------------------------------------------
(* The invariant. *)

ObjTypes == [there : BOOLEAN, ssl : Conns \cup {None},
             vify : BOOLEAN, good : BOOLEAN]

(* Every connection is sound.                                              *)
Sound == conn \in [Conns -> Connections] /\ \A c \in Conns : ConnOK(conn[c])

(* OneOwner without the set of owners.                                     *)
Unique ==
  \A c \in Conns :
    /\ \A o, p \in Objs : obj[o].ssl = c /\ obj[p].ssl = c => o = p
    /\ \A o \in Objs : obj[o].ssl = c => c \notin held \ stale
    /\ (c \in held \ stale \/ \E o \in Objs : obj[o].ssl = c)
         <=> (conn[c].open /\ c \notin lost)

(* Handles that were lost stay open, what a constructor closed stays so,   *)
(* and the client's connections have seen no handshake.                    *)
Kept ==
  /\ \A c \in lost : conn[c].open
  /\ \A c \in stale : conn[c] = Freed
  /\ \A c \in held \ stale : conn[c].hs = "before"

(* A call that runs has its connection, and shutrd() enters its own loop   *)
(* with the write flag set.                                                *)
Waits ==
  /\ waiting = None <=> loop = "none"
  /\ waiting # None => obj[waiting].ssl # None
  /\ loop = "rd" => "sent" \in conn[obj[waiting].ssl].flags

(* A close_notify stays unsent only while a call tries, or with the peer   *)
(* gone.                                                                   *)
Tried ==
  \A c \in Conns :
    conn[c].notify = "unsent" => conn[c].reads = "gone" \/ Trying(c)

IInv ==
  /\ Sound
  /\ obj \in [Objs -> ObjTypes]
  /\ held \in SUBSET Conns /\ lost \in SUBSET Conns /\ stale \in SUBSET Conns
  /\ waiting \in Objs \cup {None}
  /\ loop \in {"none", "wr", "first", "rd"}
  /\ Unique
  /\ Kept
  /\ Waits
  /\ Tried

LEMMA UniqueIsOneOwner ==
  ASSUME obj \in [Objs -> ObjTypes], Unique
  PROVE  OneOwner
<1>1. \A c \in Conns : \A a : a \in Owners(c) <=>
        \/ a \in Objs /\ obj[a].ssl = c
        \/ a = Client /\ c \in held \ stale
  BY DEF Owners
<1>2. ASSUME NEW c \in Conns
      PROVE  /\ \A a, b \in Owners(c) : a = b
             /\ Owners(c) # {} <=> conn[c].open /\ c \notin lost
  <2>1. \A a, b \in Owners(c) : a = b
    BY <1>1 DEF Unique
  <2>2. Owners(c) # {} <=> (c \in held \ stale \/ \E o \in Objs : obj[o].ssl = c)
    BY <1>1
  <2>3. QED BY <2>1, <2>2 DEF Unique
<1>3. QED BY <1>2 DEF OneOwner

(* A call on a connection that an object has, or a step of its peer, keeps *)
(* the parts of the invariant that are not about waiting.                  *)
LEMMA CallKeeps ==
  ASSUME IInv, NEW o \in Objs, NEW c \in Conns, c = obj[o].ssl,
         NEW t, ConnOK(t), t.open = conn[c].open,
         conn' = [conn EXCEPT ![c] = t],
         obj' \in [Objs -> ObjTypes],
         \A p \in Objs : obj'[p].ssl = obj[p].ssl,
         UNCHANGED <<held, lost, stale>>
  PROVE  Sound' /\ Unique' /\ Kept'
<1> USE DEF IInv
<1>1. conn \in [Conns -> Connections] /\ t \in Connections
  BY DEF Sound, ConnOK
<1>2. /\ conn'[c] = t
      /\ \A d \in Conns : d # c => conn'[d] = conn[d]
      /\ conn' \in [Conns -> Connections]
  BY <1>1
<1>3. Sound'
  BY <1>2 DEF Sound
<1>4. \A d \in Conns : conn'[d].open = conn[d].open
  BY <1>2
<1>5. Unique'
  BY <1>4 DEF Unique
<1>6. c \notin held \ stale /\ c \notin stale
  <2>1. c \notin held \ stale /\ conn[c].open
    BY DEF Unique
  <2>2. c \notin stale
    BY <2>1 DEF Kept, Freed, Unused
  <2>3. QED BY <2>1, <2>2
<1>7. Kept'
  BY <1>2, <1>4, <1>6 DEF Kept
<1>8. QED BY <1>3, <1>5, <1>7

(* The initial state has the invariant.                                    *)
LEMMA InitInv == Init => IInv
<1> SUFFICES ASSUME Init PROVE IInv
  OBVIOUS
<1> USE DEF Init, Unused, NoObj
<1>1. \A c \in Conns : ConnOK(conn[c])
  BY DEF ConnOK, Connections, Ended, InOrder, Both
<1>2. Sound
  BY <1>1 DEF Sound, ConnOK
<1>3. obj \in [Objs -> ObjTypes]
  BY DEF ObjTypes
<1>4. Unique
  BY DEF Unique
<1>5. QED BY <1>2, <1>3, <1>4 DEF IInv, Kept, Waits, Tried

(* The constructors take a connection of the client, which has had no      *)
(* handshake; t is what they make of it.                                   *)
LEMMA TakeKeeps ==
  ASSUME IInv, NEW o \in Objs, NEW c \in Conns, Take(o, c),
         NEW t, ConnOK(t), t.open = conn[c].open, conn' = [conn EXCEPT ![c] = t],
         t.notify = conn[c].notify, t.reads = conn[c].reads
  PROVE  IInv'
<1> USE DEF IInv
<1>1. /\ conn'[c] = t
      /\ \A d \in Conns : d # c => conn'[d] = conn[d]
      /\ conn' \in [Conns -> Connections]
  BY DEF Sound, ConnOK
<1>2. Sound'
  BY <1>1 DEF Sound
<1>3. /\ obj[o].ssl = None /\ obj'[o].ssl = c
      /\ \A p \in Objs : p # o => obj'[p] = obj[p]
      /\ obj' \in [Objs -> ObjTypes]
  BY DEF Take, NoObj, ObjTypes
<1>4. /\ c \in held \ stale /\ held' = held \ {c}
      /\ lost' = lost /\ stale' = stale /\ waiting = None /\ waiting' = None
      /\ loop' = loop
  BY DEF Take
<1>5. \A d \in Conns : conn'[d].open = conn[d].open
  BY <1>1
<1>6. Unique'
  BY <1>3, <1>4, <1>5 DEF Unique
<1>7. Kept'
  BY <1>1, <1>4, <1>5 DEF Kept
<1>8. Waits' /\ Tried'
  BY <1>1, <1>4 DEF Waits, Tried, Trying
<1>9. QED BY <1>2, <1>3, <1>4, <1>6, <1>7, <1>8

(* Moved handles have the new owner alone, overwritten ones have none.     *)
LEMMA MoveKeeps ==
  ASSUME IInv, NEW from \in Objs, NEW to \in Objs, Move(from, to), waiting = None,
         UNCHANGED <<conn, held, waiting, loop, stale>>,
         lost' = lost \cup ({obj[to].ssl} \ {None})
  PROVE  IInv'
<1> USE DEF IInv
<1>1. /\ obj' \in [Objs -> ObjTypes]
      /\ obj'[from].ssl = None
      /\ from # to => obj'[to].ssl = obj[from].ssl
      /\ \A p \in Objs : p # from /\ p # to => obj'[p] = obj[p]
  <2> DEFINE moved == [obj[from] EXCEPT !.there = TRUE]
             mid == [obj EXCEPT ![to] = moved]
  <2>1. moved \in ObjTypes /\ moved.ssl = obj[from].ssl
    BY DEF ObjTypes
  <2>2. /\ mid \in [Objs -> ObjTypes] /\ mid[to] = moved
        /\ \A p \in Objs : p # to => mid[p] = obj[p]
    BY <2>1
  <2>3. obj' = [mid EXCEPT ![from].ssl = None]
    BY DEF Move
  <2> HIDE DEF mid, moved
  <2>4. [mid[from] EXCEPT !.ssl = None] \in ObjTypes
    BY <2>2 DEF ObjTypes
  <2>5. obj' = [mid EXCEPT ![from] = [mid[from] EXCEPT !.ssl = None]]
    BY <2>3
  <2>6. obj' \in [Objs -> ObjTypes]
    BY <2>2, <2>4, <2>5
  <2>7. [mid[from] EXCEPT !.ssl = None].ssl = None
    BY <2>2 DEF ObjTypes
  <2>8. QED BY <2>1, <2>2, <2>5, <2>6, <2>7
<1>2. Sound'
  BY DEF Sound
<1>3. obj[to].ssl \in Conns \cup {None} /\ obj[from].ssl \in Conns \cup {None}
  BY DEF ObjTypes
<1>4. Unique'
  <2>1. CASE from = to
    <3>1. \A p \in Objs : p # to => obj'[p] = obj[p]
      BY <1>1, <2>1
    <3>2. obj'[to].ssl = None /\ \A c \in Conns : c # None
      BY <1>1, <2>1
    <3>3. ASSUME NEW c \in Conns
          PROVE  (/\ \A o, p \in Objs : obj[o].ssl = c /\ obj[p].ssl = c => o = p
                  /\ \A o \in Objs : obj[o].ssl = c => c \notin held \ stale
                  /\ (c \in held \ stale \/ \E o \in Objs : obj[o].ssl = c)
                       <=> (conn[c].open /\ c \notin lost))'
      <4>1. CASE c = obj[to].ssl
        BY <3>1, <3>2, <4>1 DEF Unique
      <4>2. CASE c # obj[to].ssl
        BY <3>1, <3>2, <4>2 DEF Unique
      <4>3. QED BY <4>1, <4>2
    <3>4. QED BY <3>3 DEF Unique
  <2>2. CASE from # to
    <3> SUFFICES ASSUME NEW c \in Conns
                 PROVE  (/\ \A o, p \in Objs : obj[o].ssl = c /\ obj[p].ssl = c => o = p
                         /\ \A o \in Objs : obj[o].ssl = c => c \notin held \ stale
                         /\ (c \in held \ stale \/ \E o \in Objs : obj[o].ssl = c)
                              <=> (conn[c].open /\ c \notin lost))'
      BY DEF Unique
    <3>1. CASE c = obj[from].ssl
      <4>1. \A p \in Objs : obj'[p].ssl = c <=> p = to
        BY <1>1, <2>2, <3>1 DEF Unique
      <4>2. c # obj[to].ssl
        BY <2>2, <3>1 DEF Unique
      <4>3. QED BY <3>1, <4>1, <4>2 DEF Unique
    <3>2. CASE c = obj[to].ssl /\ c # obj[from].ssl
      <4>1. \A p \in Objs : obj'[p].ssl # c
        BY <1>1, <2>2, <3>2 DEF Unique
      <4>2. QED BY <3>2, <4>1 DEF Unique
    <3>3. CASE c # obj[to].ssl /\ c # obj[from].ssl
      <4>1. \A p \in Objs : obj'[p].ssl = c <=> obj[p].ssl = c
        BY <1>1, <2>2, <3>3
      <4>2. c \in lost' <=> c \in lost
        BY <3>3
      <4>3. QED BY <4>1, <4>2 DEF Unique
    <3>4. QED BY <3>1, <3>2, <3>3
  <2>3. QED BY <2>1, <2>2
<1>5. Kept'
  BY <1>3 DEF Kept, Unique
<1>6. Waits' /\ Tried'
  BY DEF Waits, Tried, Trying
<1>7. QED BY <1>1, <1>2, <1>3, <1>4, <1>5, <1>6

(* Closing one connection of which no owner is left afterwards.            *)
LEMMA FreedSound ==
  ConnOK(Freed) /\ ~Freed.open /\ Freed.notify = "none"
<1>1. Unused \in Connections /\ ~Unused.open /\ ~Unused.eof /\ ~Unused.ended
      /\ Unused.hs = "before" /\ Unused.notify = "none"
  BY DEF Connections, Unused
<1>2. /\ Freed \in Connections /\ ~Freed.open /\ ~Freed.eof /\ ~Freed.ended
      /\ Freed.hs = "before" /\ Freed.notify = "none"
  BY <1>1 DEF Connections, Both, Freed
<1>3. QED BY <1>2 DEF ConnOK, Ended, InOrder

LEMMA DestroyKeeps ==
  ASSUME IInv, NEW o \in Objs, Destroy(o)
  PROVE  IInv'
<1> USE DEF IInv
<1>1. /\ waiting = None /\ UNCHANGED <<held, waiting, loop, lost, stale>>
      /\ conn' = [c \in Conns |-> IF c = obj[o].ssl THEN Freed ELSE conn[c]]
      /\ obj' = [obj EXCEPT ![o] = NoObj]
  BY DEF Destroy
<1>2. Sound'
  BY <1>1, FreedSound DEF Sound, ConnOK
<1>3. obj' \in [Objs -> ObjTypes] /\ obj'[o].ssl = None
  BY <1>1 DEF ObjTypes, NoObj
<1>4. Unique'
  BY <1>1, <1>3, FreedSound DEF Unique
<1>5. Kept'
  BY <1>1, FreedSound DEF Kept, Unique
<1>6. Waits' /\ Tried'
  BY <1>1, FreedSound DEF Waits, Tried, Trying
<1>7. QED BY <1>1, <1>2, <1>3, <1>4, <1>5, <1>6

-----------------------------------------------------------------------------
(* One step. *)

(* One step of a call of o: t is what it makes of its connection.          *)
LEMMA QuietKeeps ==
  ASSUME IInv, NEW o \in Objs, waiting \in {None, o}, obj[o].ssl # None,
         NEW t, ConnOK(t),
         t.open = conn[obj[o].ssl].open,
         conn' = [conn EXCEPT ![obj[o].ssl] = t],
         obj' \in [Objs -> ObjTypes], \A p \in Objs : obj'[p].ssl = obj[p].ssl,
         UNCHANGED <<held, lost, stale>>, waiting' \in {None, o},
         loop' \in {"none", "wr", "first", "rd"},
         waiting' = None <=> loop' = "none",
         loop' = "rd" => "sent" \in t.flags,
         t.notify = "unsent" => t.reads = "gone" \/ loop' \in {"wr", "first"}
  PROVE  IInv'
<1> USE DEF IInv
<1>1. obj[o].ssl \in Conns
  BY DEF ObjTypes
<1>2. Sound' /\ Unique' /\ Kept'
  BY <1>1, CallKeeps
<1>3. /\ conn'[obj[o].ssl] = t
      /\ \A d \in Conns : d # obj[o].ssl => conn'[d] = conn[d]
  BY <1>1 DEF Sound
<1>4. Waits'
  BY <1>3 DEF Waits
<1>5. ASSUME NEW d \in Conns, conn'[d].notify = "unsent"
      PROVE  conn'[d].reads = "gone" \/ Trying(d)'
  <2>1. CASE d = obj[o].ssl
    BY <1>3, <1>5, <2>1 DEF Trying
  <2>2. CASE d # obj[o].ssl
    <3>1. ~Trying(d)
      BY <2>2 DEF Trying, Waits
    <3>2. QED BY <1>3, <1>5, <2>2, <3>1 DEF Tried
  <2>3. QED BY <2>1, <2>2
<1>6. Tried'
  BY <1>5 DEF Tried
<1>7. QED BY <1>2, <1>4, <1>6

(* One turn of the loop of shutwr().                                       *)
LEMMA NotifyKeeps ==
  ASSUME IInv, NEW o \in Objs, waiting \in {None, o}, obj[o].ssl # None,
         NEW at \in {"wr", "first"}, Notify(o, at)
  PROVE  IInv'
<1> DEFINE c == obj[o].ssl
<1>1. PICK end \in Sends(conn[c]) :
        /\ conn' = [conn EXCEPT ![c] = Noted(conn[c], end)]
        /\ GoesOn(o, Onward(at, conn[c], end))
        /\ UNCHANGED <<obj, held, lost, stale>>
  BY DEF Notify
<1>2. c \in Conns /\ ConnOK(conn[c])
  BY DEF IInv, ObjTypes, Sound
<1>3. o # None
  BY SSLHAssumption
<1> DEFINE t == Noted(conn[c], end)
           on == Onward(at, conn[c], end)
<1>4. /\ ConnOK(t) /\ t.open = conn[c].open /\ "sent" \in t.flags
      /\ on \in {"none", "wr", "first", "rd"}
      /\ t.notify = "unsent" => t.reads = "gone" \/ on \in {"wr", "first"}
  BY <1>2, NotedSound
<1>5. loop' = on /\ waiting' = IF on = "none" THEN None ELSE o
  BY <1>1 DEF GoesOn
<1>6. /\ conn' = [conn EXCEPT ![c] = t] /\ UNCHANGED <<held, lost, stale>>
      /\ obj' \in [Objs -> ObjTypes] /\ \A p \in Objs : obj'[p].ssl = obj[p].ssl
  BY <1>1 DEF IInv
<1> HIDE DEF t, on
<1>7. QED BY <1>3, <1>4, <1>5, <1>6, QuietKeeps

LEMMA CallInv ==
  ASSUME IInv, NEW o \in Objs, Call(o)
  PROVE  IInv'
<1> DEFINE c == obj[o].ssl
<1>1. Ready(o)
  BY DEF Call, Connect, Verify, Read, Write, ShutWr, ShutRd
<1>2. c \in Conns /\ waiting = None /\ c # None
  BY <1>1 DEF IInv, ObjTypes, Ready
<1>3. ConnOK(conn[c]) /\ conn \in [Conns -> Connections]
  BY <1>2 DEF IInv, Sound
<1>4. /\ obj \in [Objs -> ObjTypes]
      /\ waiting = None /\ loop = "none"
      /\ conn[c].notify = "unsent" => conn[c].reads = "gone"
  BY <1>1, <1>2 DEF IInv, Ready, Waits, Tried, Trying
<1>5. CASE Connect(o)
  <2>1. PICK t \in Handshakes(conn[c]) :
          /\ conn' = [conn EXCEPT ![c] = t]
          /\ obj' = [obj EXCEPT ![o].vify =
                       @ /\ (Connected(conn[c]) \/ t.hs # "done")]
    BY <1>5 DEF Connect
  <2>2. /\ ConnOK(t) /\ t.open = conn[c].open
        /\ t.notify = conn[c].notify /\ t.reads = conn[c].reads
    BY <1>3, HandshakesSound
  <2>3. /\ obj' \in [Objs -> ObjTypes]
        /\ \A p \in Objs : obj'[p].ssl = obj[p].ssl
    BY <1>4, <2>1 DEF ObjTypes
  <2>4. UNCHANGED <<held, lost, stale, waiting, loop>>
    BY <1>5 DEF Connect
  <2>5. QED BY <1>2, <1>4, <2>1, <2>2, <2>3, <2>4, QuietKeeps
<1>6. CASE Verify(o)
  <2>1. /\ obj' \in [Objs -> ObjTypes]
        /\ \A p \in Objs : obj'[p].ssl = obj[p].ssl
    <3> DEFINE found == IF obj[o].vify THEN obj[o].good ELSE c \in Good
    <3>1. obj' = [obj EXCEPT ![o].vify = TRUE, ![o].good = found]
      BY <1>6 DEF Verify
    <3>2. found \in BOOLEAN
      <4>1. obj[o].good \in BOOLEAN
        BY <1>4, SMT DEF ObjTypes
      <4>2. (c \in Good) \in BOOLEAN
        OBVIOUS
      <4>3. CASE obj[o].vify
        BY <4>1, <4>3, Zenon
      <4>4. CASE ~obj[o].vify
        BY <4>2, <4>4, Zenon
      <4>5. QED BY <4>3, <4>4, Zenon
    <3> HIDE DEF found
    <3>3. QED BY <1>4, <3>1, <3>2 DEF ObjTypes
  <2>2. /\ UNCHANGED <<held, lost, stale, waiting, loop>>
        /\ conn' = [conn EXCEPT ![c] = conn[c]]
    BY <1>3, <1>6 DEF Verify
  <2>3. QED BY <1>2, <1>3, <1>4, <2>1, <2>2, QuietKeeps
<1>7. CASE Read(o)
  <2> DEFINE t1 == ReadEnd(conn[c])
             t2 == [conn[c] EXCEPT !.data = @ - 1]
             t3 == ReadEnd(TakeEnd(conn[c]))
  <2> DEFINE Like(t) == /\ ConnOK(t) /\ t.open = conn[c].open
                        /\ t.notify = conn[c].notify /\ t.reads = conn[c].reads
  <2>1. Like(t1)
    BY <1>3, ReadEndSound
  <2>2. Like(t3)
    BY <1>3, ReadEndSound, TakeEndSound
  <2>3. conn[c].data > 0 => Like(t2)
    BY <1>3 DEF ConnOK, Connections, Ended, InOrder
  <2>4. \/ conn' = [conn EXCEPT ![c] = t1]
        \/ conn[c].data > 0 /\ conn' = [conn EXCEPT ![c] = t2]
        \/ conn' = [conn EXCEPT ![c] = t3]
    BY <1>7 DEF Read
  <2>5. UNCHANGED <<obj, held, lost, stale, waiting, loop>>
    BY <1>7 DEF Read
  <2> HIDE DEF t1, t2, t3
  <2>6. PICK t : Like(t) /\ conn' = [conn EXCEPT ![c] = t]
    BY <2>1, <2>2, <2>3, <2>4
  <2>7. QED BY <1>2, <1>4, <2>5, <2>6, QuietKeeps
<1>8. CASE Write(o)
  <2> DEFINE t == [conn[c] EXCEPT !.reads = "slow"]
  <2>1. /\ conn' = [conn EXCEPT ![c] = t] /\ conn[c].reads = "on"
        /\ UNCHANGED <<obj, held, lost, stale, waiting, loop>>
    BY <1>8 DEF Write
  <2>2. /\ ConnOK(t) /\ t.open = conn[c].open /\ t.notify = conn[c].notify
    BY <1>3 DEF ConnOK, Connections, Ended, InOrder
  <2>3. t.notify # "unsent"
    BY <1>4, <2>1, <2>2
  <2> HIDE DEF t
  <2>4. QED BY <1>2, <1>4, <2>1, <2>2, <2>3, QuietKeeps
<1>9. CASE ShutWr(o)
  BY <1>2, <1>9, NotifyKeeps DEF ShutWr
<1>10. ASSUME AskRdShut(o), "sent" \in conn[c].flags
       PROVE  IInv'
  <2> DEFINE at == IF "rcvd" \in conn[c].flags THEN "none" ELSE "rd"
  <2>1. /\ loop' = at /\ waiting' = IF at = "none" THEN None ELSE o
        /\ UNCHANGED <<obj, held, lost, stale>>
        /\ conn' = [conn EXCEPT ![c] = conn[c]]
    BY <1>3, <1>10 DEF AskRdShut, GoesOn
  <2>2. at \in {"none", "rd"} /\ o # None
    BY SSLHAssumption
  <2> HIDE DEF at
  <2>3. QED BY <1>2, <1>3, <1>4, <1>10, <2>1, <2>2, QuietKeeps
<1>11. CASE ShutRd(o)
  <2>1. CASE "sent" \in conn[c].flags
    BY <1>10, <1>11, <2>1 DEF ShutRd
  <2>2. CASE "sent" \notin conn[c].flags
    BY <1>2, <1>11, <2>2, NotifyKeeps DEF ShutRd
  <2>3. QED BY <2>1, <2>2
<1>12. QED BY <1>5, <1>6, <1>7, <1>8, <1>9, <1>11 DEF Call

(* The turn that is repeated.                                              *)
LEMMA RetryInv ==
  ASSUME IInv, Retry
  PROVE  IInv'
<1>1. /\ waiting \in Objs /\ obj[waiting].ssl # None
      /\ loop \in {"wr", "first"} /\ Notify(waiting, loop)
  BY DEF Retry, IInv, Waits
<1>2. QED BY <1>1, NotifyKeeps

(* shutrd() ends on a connection whose write flag it has set.              *)
LEMMA FinishInv ==
  ASSUME IInv, FinishShutRd
  PROVE  IInv'
<1> DEFINE o == waiting
           c == obj[o].ssl
           s == IF conn[c].notify = "unsent" THEN conn[c] ELSE TakeEnd(conn[c])
<1>1. /\ o \in Objs /\ c \in Conns /\ c # None /\ "sent" \in conn[c].flags
      /\ conn[c].notify = "unsent" => conn[c].reads = "gone"
  BY DEF FinishShutRd, IInv, ObjTypes, Waits, Tried, Trying
<1>2. ConnOK(conn[c])
  BY <1>1 DEF IInv, Sound
<1>3. /\ ConnOK(s) /\ s.open = conn[c].open /\ "sent" \in s.flags
      /\ s.notify = conn[c].notify /\ s.reads = conn[c].reads
  BY <1>1, <1>2, TakeEndSound
<1>4. PICK hs \in {s.hs, "failed"} :
        conn' = [conn EXCEPT ![c] = [s EXCEPT !.flags = Both, !.hs = hs]]
  BY DEF FinishShutRd
<1> DEFINE t == [s EXCEPT !.flags = Both, !.hs = hs]
<1>5. ConnOK(t)
  BY <1>3, FinishSound
<1>6. t.open = conn[c].open /\ t.notify = conn[c].notify /\ t.reads = conn[c].reads
  BY <1>3 DEF ConnOK, Connections
<1>7. waiting' = None /\ loop' = "none" /\ UNCHANGED <<obj, held, lost, stale>>
  BY DEF FinishShutRd
<1> HIDE DEF t, s
<1>8. /\ conn' = [conn EXCEPT ![c] = t]
      /\ obj' \in [Objs -> ObjTypes] /\ \A p \in Objs : obj'[p].ssl = obj[p].ssl
  BY <1>4, <1>7 DEF t, IInv
<1>9. QED BY <1>1, <1>5, <1>6, <1>7, <1>8, QuietKeeps

(* The client makes a connection that nobody has had before.               *)
LEMMA ClientConnectsInv ==
  ASSUME IInv, NEW c \in Conns, ClientConnects(c)
  PROVE  IInv'
<1> USE DEF IInv
<1> DEFINE t == [conn[c] EXCEPT !.open = TRUE]
<1>1. /\ conn[c] = Unused /\ held' = held \cup {c}
      /\ UNCHANGED <<obj, waiting, loop, lost, stale>>
      /\ conn' = [conn EXCEPT ![c] = t]
  BY DEF ClientConnects, Sound
<1>2. /\ conn[c].open = FALSE /\ conn[c].flags = {} /\ conn[c].hs = "before"
      /\ ~conn[c].eof /\ ~conn[c].ended /\ conn[c].notify = "none"
  BY <1>1 DEF Unused
<1>3. ConnOK(conn[c])
  BY DEF Sound
<1>4. /\ t \in Connections /\ t.open = TRUE /\ t.hs = "before" /\ ~t.eof /\ ~t.ended
      /\ t.notify = "none"
  BY <1>2, <1>3 DEF ConnOK, Connections
<1>5. ConnOK(t)
  BY <1>4 DEF ConnOK, Ended, InOrder
<1> HIDE DEF t
<1>6. /\ conn'[c] = t /\ \A d \in Conns : d # c => conn'[d] = conn[d]
      /\ conn' \in [Conns -> Connections]
  BY <1>1, <1>4 DEF Sound
<1>7. Sound'
  BY <1>5, <1>6 DEF Sound
<1>8. c \notin lost
  BY <1>2 DEF Kept
<1>9. c \notin stale
  <2>1. Unused.flags = {} /\ Freed.flags = Both
    BY DEF Unused, Freed
  <2>2. QED BY <1>1, <2>1 DEF Kept, Both
<1>10. \A o \in Objs : obj[o].ssl # c
  BY <1>2 DEF Unique
<1>11. Unique'
  BY <1>1, <1>4, <1>6, <1>8, <1>9, <1>10 DEF Unique
<1>12. Kept'
  BY <1>1, <1>4, <1>6, <1>8, <1>9 DEF Kept
<1>13. Waits' /\ Tried'
  BY <1>1, <1>2, <1>4, <1>6 DEF Waits, Tried, Trying, ObjTypes
<1>14. QED BY <1>1, <1>7, <1>11, <1>12, <1>13

LEMMA ConstructHalfInv ==
  ASSUME IInv, NEW c \in Conns, ConstructHalf(c)
  PROVE  IInv'
<1> USE DEF IInv
<1>1. /\ c \in held \ stale /\ waiting = None
      /\ conn' = [conn EXCEPT ![c] = Freed]
      /\ stale' = stale \cup {c} /\ UNCHANGED <<obj, held, waiting, loop, lost>>
  BY DEF ConstructHalf, Freed
<1>2. /\ conn'[c] = Freed /\ \A d \in Conns : d # c => conn'[d] = conn[d]
      /\ conn' \in [Conns -> Connections]
  BY <1>1, FreedSound DEF Sound, ConnOK
<1>3. Sound'
  BY <1>2, FreedSound DEF Sound
<1>4. Unique'
  BY <1>1, <1>2, FreedSound DEF Unique
<1>5. Kept'
  BY <1>1, <1>2, FreedSound DEF Kept, Unique
<1>6. Waits' /\ Tried'
  BY <1>1, <1>2, FreedSound DEF Waits, Tried, Trying
<1>7. QED BY <1>1, <1>3, <1>4, <1>5, <1>6

LEMMA PeerInv ==
  ASSUME IInv, NEW c \in Conns, PeerMoves(c)
  PROVE  IInv'
<1> USE DEF IInv
<1>1. PICK t : /\ conn' = [conn EXCEPT ![c] = t] /\ ConnOK(t)
               /\ t.open = conn[c].open /\ t.hs = conn[c].hs
               /\ t.flags = conn[c].flags /\ t.notify = conn[c].notify
               /\ conn[c].reads = "gone" => t.reads = "gone"
  BY PeerSound DEF Sound
<1>2. UNCHANGED <<obj, held, waiting, loop, lost, stale>> /\ conn[c].open
  BY DEF PeerMoves, PeerReads, PeerSends, PeerEnds, PeerGoes, Peer
<1>3. /\ conn'[c] = t /\ \A d \in Conns : d # c => conn'[d] = conn[d]
      /\ conn' \in [Conns -> Connections]
  BY <1>1 DEF Sound, ConnOK
<1>4. Sound'
  BY <1>1, <1>3 DEF Sound
<1>5. \A d \in Conns : /\ conn'[d].open = conn[d].open /\ conn'[d].hs = conn[d].hs
                       /\ conn'[d].flags = conn[d].flags
                       /\ conn'[d].notify = conn[d].notify
                       /\ conn[d].reads = "gone" => conn'[d].reads = "gone"
  BY <1>1, <1>3
<1>6. Unique'
  BY <1>2, <1>5 DEF Unique
<1>7. c \notin stale
  BY <1>2, FreedSound DEF Kept
<1>8. Kept'
  BY <1>2, <1>3, <1>5, <1>7 DEF Kept
<1>9. Waits' /\ Tried'
  BY <1>2, <1>5 DEF Waits, Tried, Trying, ObjTypes
<1>10. QED BY <1>2, <1>4, <1>6, <1>8, <1>9

(* One step of the program or of a peer.                                   *)
LEMMA StepInv == IInv /\ [Next]_vars => IInv'
<1> SUFFICES ASSUME IInv, [Next]_vars PROVE IInv'
  OBVIOUS
<1>1. ASSUME NEW o \in Objs, Call(o)
      PROVE  IInv'
  BY <1>1, CallInv
<1>2. ASSUME NEW o \in Objs, Destroy(o)
      PROVE  IInv'
  BY <1>2, DestroyKeeps
<1>3. ASSUME NEW o \in Objs, NEW c \in Conns, Construct(o, c)
      PROVE  IInv'
  <2> DEFINE t == [conn[c] EXCEPT !.flags = Both]
  <2>1. Take(o, c) /\ ConnOK(conn[c]) /\ conn[c].hs = "before"
    BY <1>3 DEF Construct, Take, IInv, Kept, Sound
  <2>2. /\ ConnOK(t) /\ t.open = conn[c].open
        /\ t.notify = conn[c].notify /\ t.reads = conn[c].reads
    BY <2>1, FlagsSound DEF ConnOK, Connections
  <2>3. conn' = [conn EXCEPT ![c] = t]
    BY <1>3 DEF Construct
  <2>4. QED BY <2>1, <2>2, <2>3, TakeKeeps
<1>4. ASSUME NEW o \in Objs, NEW c \in Conns, ConstructSock(o, c)
      PROVE  IInv'
  <2> DEFINE s == [conn[c] EXCEPT !.flags = Both]
  <2>1. Take(o, c) /\ ConnOK(conn[c]) /\ conn[c].hs = "before"
    BY <1>4 DEF ConstructSock, Take, IInv, Kept, Sound
  <2>2. /\ ConnOK(s) /\ s.open = conn[c].open
        /\ s.notify = conn[c].notify /\ s.reads = conn[c].reads
    BY <2>1, FlagsSound DEF ConnOK, Connections
  <2>3. PICK t \in Handshakes(s) : conn' = [conn EXCEPT ![c] = t]
    BY <1>4 DEF ConstructSock
  <2>4. /\ ConnOK(t) /\ t.open = conn[c].open
        /\ t.notify = conn[c].notify /\ t.reads = conn[c].reads
    BY <2>2, HandshakesSound
  <2>5. QED BY <2>1, <2>3, <2>4, TakeKeeps
<1>5. ASSUME NEW o \in Objs, NEW p \in Objs, MoveConstruct(o, p)
      PROVE  IInv'
  <2>1. obj[p].ssl = None
    BY <1>5 DEF MoveConstruct, NoObj
  <2>2. lost' = lost \cup ({obj[p].ssl} \ {None})
    BY <1>5, <2>1 DEF MoveConstruct
  <2>3. QED BY <1>5, <2>2, MoveKeeps DEF MoveConstruct
<1>6. ASSUME NEW o \in Objs, NEW p \in Objs, MoveAssign(o, p)
      PROVE  IInv'
  BY <1>6, MoveKeeps DEF MoveAssign
<1>7. ASSUME NEW c \in Conns, ClientConnects(c)
      PROVE  IInv'
  BY <1>7, ClientConnectsInv
<1>8. ASSUME NEW c \in Conns, ConstructHalf(c)
      PROVE  IInv'
  BY <1>8, ConstructHalfInv
<1>9. ASSUME NEW c \in Conns, PeerMoves(c)
      PROVE  IInv'
  BY <1>9, PeerInv
<1>10. CASE FinishShutRd
  BY <1>10, FinishInv
<1>11. CASE Retry
  BY <1>11, RetryInv
<1>12. CASE UNCHANGED vars
  BY <1>12 DEF vars, IInv, Sound, Unique, Kept, Waits, Tried, Trying
<1>13. QED
  BY <1>1, <1>2, <1>3, <1>4, <1>5, <1>6, <1>7, <1>8, <1>9, <1>10, <1>11, <1>12
     DEF Next

LEMMA Invariance == Spec => []IInv
BY InitInv, StepInv, PTL DEF Spec

-----------------------------------------------------------------------------
(* The state is well formed in every reachable state, and a call that waits *)
(* has its connection (SSL.h:66-75).                                       *)
THEOREM TypeCorrect == Spec => []TypeOK
<1>1. IInv => TypeOK
  BY DEF IInv, TypeOK, Sound, ObjTypes, Waits
<1>2. QED BY <1>1, Invariance, PTL

(* However constructors fail and handles are moved and overwritten, every  *)
(* open connection that was not lost by a move assignment has exactly one  *)
(* owner that will close it (SSL.cpp:60-90, SSL.h:105-113).                *)
THEOREM OwnersUnique == Spec => []OneOwner
<1>1. IInv => OneOwner
  BY UniqueIsOneOwner DEF IInv
<1>2. QED BY <1>1, Invariance, PTL

(* A read() answers 0 only after the peer has ended the stream itself and  *)
(* all of its records were read (SSL.cpp:174-195).                         *)
THEOREM EndIsThePeers == Spec => []EofIsTheirs
<1>1. IInv => EofIsTheirs
  BY DEF IInv, Sound, ConnOK, Ended, EofIsTheirs
<1>2. QED BY <1>1, Invariance, PTL

(* The shutdown flags of an established connection say what was sent, or   *)
(* tried, and what the peer has ended; no call that is over has left the   *)
(* close_notify unsent to a peer that is just slow (SSL.cpp:219-269).      *)
THEOREM FlagsInOrder == Spec => []ShutInOrder
<1>1. IInv => ShutInOrder
  BY DEF IInv, Sound, ConnOK, Tried, ShutInOrder
<1>2. QED BY <1>1, Invariance, PTL

(* No sequence of moves and calls of connect() lets verify() answer with   *)
(* what it found out about another connection (SSL.cpp:72-90, 142-172).    *)
THEOREM VerifiesItsOwn == Spec => []VerifyIsOwn
<1>1. Init => VerifyIsOwn
  BY DEF Init, VerifyIsOwn, NoObj
<1>2. IInv /\ VerifyIsOwn /\ [Next]_vars => VerifyIsOwn'
  <2> SUFFICES ASSUME obj \in [Objs -> ObjTypes], VerifyIsOwn, [Next]_vars
               PROVE  VerifyIsOwn'
    BY DEF IInv
  <2> DEFINE Own(w) == w.vify /\ w.ssl # None => (w.good <=> w.ssl \in Good)
  <2>1. SUFFICES ASSUME NEW q \in Objs PROVE Own(obj'[q])
    BY DEF VerifyIsOwn
  <2>2. \A p \in Objs : Own(obj[p])
    BY DEF VerifyIsOwn
  <2>3. ASSUME NEW o \in Objs, NEW c \in Conns, Take(o, c)
        PROVE  Own(obj'[q])
    <3>1. obj' = [obj EXCEPT ![o].there = TRUE, ![o].ssl = c] /\ obj[o] = NoObj
      BY <2>3 DEF Take
    <3>2. obj'[o].vify = FALSE /\ (q # o => obj'[q] = obj[q])
      BY <3>1 DEF NoObj, ObjTypes
    <3>3. QED BY <2>2, <3>2
  <2>4. ASSUME NEW o \in Objs, NEW p \in Objs, Move(o, p)
        PROVE  Own(obj'[q])
    <3> DEFINE moved == [obj[o] EXCEPT !.there = TRUE]
               mid == [obj EXCEPT ![p] = moved]
               left == [mid[o] EXCEPT !.ssl = None]
    <3>1. Own(moved) /\ moved \in ObjTypes
      BY <2>2 DEF ObjTypes
    <3>2. /\ mid \in [Objs -> ObjTypes] /\ obj' = [mid EXCEPT ![o] = left]
          /\ \A u \in Objs : mid[u] = moved \/ mid[u] = obj[u]
      BY <2>4, <3>1 DEF Move
    <3>3. left.ssl = None
      BY <3>2 DEF ObjTypes
    <3> HIDE DEF moved, mid, left
    <3>4. obj'[q] = left \/ obj'[q] = moved \/ obj'[q] = obj[q]
      BY <3>2
    <3>5. QED BY <2>2, <3>1, <3>3, <3>4
  <2>5. ASSUME NEW o \in Objs, Destroy(o)
        PROVE  Own(obj'[q])
    <3>1. obj'[q] = NoObj \/ obj'[q] = obj[q]
      BY <2>5 DEF Destroy
    <3>2. QED BY <2>2, <3>1 DEF NoObj
  <2>6. ASSUME NEW o \in Objs, Connect(o)
        PROVE  Own(obj'[q])
    <3>1. PICK t : obj' = [obj EXCEPT ![o].vify =
                             @ /\ (Connected(conn[obj[o].ssl]) \/ t.hs # "done")]
      BY <2>6 DEF Connect
    <3>2. /\ obj'[q].ssl = obj[q].ssl /\ obj'[q].good = obj[q].good
          /\ obj'[q].vify => obj[q].vify
      BY <3>1 DEF ObjTypes
    <3>3. QED BY <2>2, <3>2
  <2>7. ASSUME NEW o \in Objs, Verify(o)
        PROVE  Own(obj'[q])
    <3> DEFINE found == IF obj[o].vify THEN obj[o].good ELSE obj[o].ssl \in Good
    <3>1. obj' = [obj EXCEPT ![o].vify = TRUE, ![o].good = found]
      BY <2>7 DEF Verify
    <3>2. obj[o].ssl # None => (found <=> obj[o].ssl \in Good)
      BY <2>2
    <3> HIDE DEF found
    <3>3. obj'[o].ssl = obj[o].ssl /\ obj'[o].good = found
      BY <3>1 DEF ObjTypes
    <3>4. q # o => obj'[q] = obj[q]
      BY <3>1
    <3>5. QED BY <2>2, <3>2, <3>3, <3>4
  <2>8. CASE UNCHANGED obj
    BY <2>2, <2>8
  <2>9. ASSUME NEW o \in Objs, Read(o) \/ Write(o) \/ ShutWr(o) \/ ShutRd(o)
        PROVE  UNCHANGED obj
    BY <2>9 DEF Read, Write, ShutWr, ShutRd, Notify, AskRdShut
  <2>10. ASSUME NEW c \in Conns,
                ClientConnects(c) \/ ConstructHalf(c) \/ PeerMoves(c)
         PROVE  UNCHANGED obj
    BY <2>10 DEF ClientConnects, ConstructHalf, PeerMoves, PeerReads, PeerSends,
                 PeerEnds, PeerGoes, Peer
  <2>11. Retry \/ FinishShutRd \/ UNCHANGED vars => UNCHANGED obj
    BY DEF Retry, Notify, FinishShutRd, vars
  <2> HIDE DEF Own
  <2>12. QED
    BY <2>3, <2>4, <2>5, <2>6, <2>7, <2>8, <2>9, <2>10, <2>11
    DEF Next, Call, Construct, ConstructSock, MoveConstruct, MoveAssign
<1>3. QED BY <1>1, <1>2, Invariance, PTL DEF Spec
=============================================================================
