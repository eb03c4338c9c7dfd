--------------------------------- MODULE SSLH ---------------------------------
(***************************************************************************)
(* SSLH objects and BasicSSLSock (src/src/SSL.cpp:31-298, SSL.h:31-153) on *)
(* connections that the client has made: who owns the handles, and what    *)
(* the shutdown flags and the cached verification are worth.               *)
(*                                                                         *)
(* OpenSSL is that of version 1.1, the first with BIO_up_ref.  Its calls   *)
(* are repeated while they answer WANT_READ or WANT_WRITE; a call is a     *)
(* step with its last answer, and is not taken before there is one.  Only  *)
(* shutwr() and shutrd() are more steps, one for each answer of their      *)
(* loops that changes something, for their first SSL_shutdown leaves its   *)
(* mark whatever it answers, and the peer moves between two turns.  The    *)
(* peer sends no fatal alert and no broken record, and SIGPIPE is ignored. *)
(***************************************************************************)
EXTENDS Naturals

CONSTANTS
  Objs,    (* SSLH objects, a BasicSSLSock being one too.                  *)
  Conns,   (* Connections, each with its socket, its SSL and its BIO.      *)
  Good,    (* Those whose certificate is accepted and has both names.      *)
  None,    (* Neither an object nor a connection.                          *)
  Client,  (* The owner of a socket that is in an FD of the client.        *)
  MaxData  (* Bound on the records that the peer has sent and are unread.  *)

ASSUME SSLHAssumption ==
  /\ None \notin Objs \cup Conns /\ Client \notin Objs
  /\ Good \subseteq Conns /\ MaxData \in Nat

VARIABLES
  conn,    (* Socket, SSL and peer of every connection.                    *)
  obj,     (* ssl_ (with bio_ and ctx_), vify_ and what verify() found.    *)
  held,    (* The connections whose socket an FD of the client names.      *)
  waiting, (* The object whose shutwr() or shutrd() repeats SSL_shutdown.  *)
  loop,    (* Where: in shutwr(), in the shutwr() with which shutrd()      *)
           (* begins, or in the loop of shutrd() itself.                   *)
  lost,    (* The connections whose handles were overwritten.              *)
  stale    (* Those that a failed constructor closed under the client's FD.*)

vars == <<conn, obj, held, waiting, loop, lost, stale>>

Both == {"sent", "rcvd"}

Connections ==
  [open   : BOOLEAN,
   hs     : {"before", "done", "failed"},    (* the handshake              *)
   flags  : SUBSET Both,                     (* SSL_get_shutdown           *)
   notify : {"none", "unsent", "sent"},      (* our close_notify: unsent   *)
                                             (* when it could not be yet   *)
   ended  : BOOLEAN,                         (* theirs has been read       *)
   eof    : BOOLEAN,                         (* a read() has answered 0    *)
   peer   : {"there", "ended", "gone"},      (* what follows the records   *)
   reads  : {"on", "slow", "gone"},          (* the peer reads; has to     *)
                                             (* before more can be sent;   *)
                                             (* has closed its socket      *)
   data   : 0 .. MaxData]

Unused ==
  [open |-> FALSE, hs |-> "before", flags |-> {}, notify |-> "none",
   ended |-> FALSE, eof |-> FALSE, peer |-> "there", reads |-> "on", data |-> 0]

(* Nothing is left of the SSL of a connection that was closed.             *)
Freed == [Unused EXCEPT !.flags = Both]

(* Before the constructor and after the destructor: no object.             *)
NoObj == [there |-> FALSE, ssl |-> None, vify |-> FALSE, good |-> FALSE]

Init ==
  /\ conn = [c \in Conns |-> Unused]
  /\ obj = [o \in Objs |-> NoObj]
  /\ held = {} /\ lost = {} /\ stale = {}
  /\ waiting = None /\ loop = "none"

(* connected(): not shut in both directions.                               *)
Connected(s) == s.flags # Both

(* The object is there, has not been moved from, and no call is running.   *)
Ready(o) == waiting = None /\ obj[o].ssl # None

-----------------------------------------------------------------------------
(* Owners. *)

ClientConnects(c) ==
  /\ conn[c] = Unused
  /\ conn' = [conn EXCEPT ![c].open = TRUE]
  /\ held' = held \cup {c}
  /\ UNCHANGED <<obj, waiting, loop, lost, stale>>

(* The object takes the socket and sets both flags: no connection yet.  A  *)
(* constructor that throws before has left the socket to its owner.        *)
Take(o, c) ==
  /\ waiting = None /\ obj[o] = NoObj /\ c \in held \ stale
  /\ obj' = [obj EXCEPT ![o].there = TRUE, ![o].ssl = c]
  /\ held' = held \ {c}
  /\ UNCHANGED <<waiting, loop, lost, stale>>

Construct(o, c) ==
  /\ Take(o, c)
  /\ conn' = [conn EXCEPT ![c].flags = Both]

(* BasicSSLSock(FD &&) when there is no memory for its streams: ~SSLH()    *)
(* has closed the socket that the FD still names.                          *)
ConstructHalf(c) ==
  /\ waiting = None /\ c \in held \ stale
  /\ conn' = [conn EXCEPT ![c] = Freed]
  /\ stale' = stale \cup {c}
  /\ UNCHANGED <<obj, held, waiting, loop, lost>>

(* Mutants of Move: from keeps its handles; the verification stays behind. *)
MoveShared(from, to) ==
  obj' = [obj EXCEPT ![to] = [obj[from] EXCEPT !.there = TRUE]]

MoveHandles(from, to) ==
  obj' = [obj EXCEPT ![to].there = TRUE, ![to].ssl = obj[from].ssl,
                     ![from].ssl = None]

(* move(): the cached verification goes along with the handles.            *)
Move(from, to) ==
  obj' = [obj EXCEPT ![to] = [obj[from] EXCEPT !.there = TRUE],
                     ![from].ssl = None]

MoveConstruct(from, to) ==
  /\ waiting = None /\ obj[from].there /\ obj[to] = NoObj
  /\ Move(from, to)
  /\ UNCHANGED <<conn, held, waiting, loop, lost, stale>>

(* operator=(SSLH &&) frees nothing; from may be the object itself.        *)
MoveAssign(from, to) ==
  /\ waiting = None /\ obj[from].there /\ obj[to].there
  /\ Move(from, to)
  /\ lost' = lost \cup ({obj[to].ssl} \ {None})
  /\ UNCHANGED <<conn, held, waiting, loop, stale>>

(* ~SSLH(): closes the socket, sends no close_notify.                      *)
Destroy(o) ==
  /\ waiting = None /\ obj[o].there
  /\ conn' = [c \in Conns |-> IF obj[o].ssl = c THEN Freed ELSE conn[c]]
  /\ obj' = [obj EXCEPT ![o] = NoObj]
  /\ UNCHANGED <<held, waiting, loop, lost, stale>>

-----------------------------------------------------------------------------
(* Calls. *)

(* What connect() makes of a connection: SSL_connect clears the flags of a *)
(* first handshake, does nothing after one that succeeded, and fails again *)
(* after one that failed.                                                  *)
Handshakes(s) ==
  IF Connected(s) \/ s.hs = "done" THEN {s}
  ELSE {[s EXCEPT !.hs = "failed", !.flags = Both]}
       \cup (IF s.hs = "before" /\ s.reads = "on"
             THEN {[s EXCEPT !.hs = "done", !.flags = {}]} ELSE {})

Connect(o) ==
  LET c == obj[o].ssl
  IN  /\ Ready(o)
      /\ \E s \in Handshakes(conn[c]) :
           /\ conn' = [conn EXCEPT ![c] = s]
           /\ obj' = [obj EXCEPT ![o].vify =
                        @ /\ (Connected(conn[c]) \/ s.hs # "done")]
      /\ UNCHANGED <<held, waiting, loop, lost, stale>>

(* BasicSSLSock: connects at once, whatever comes of it.                   *)
ConstructSock(o, c) ==
  /\ Take(o, c)
  /\ \E s \in Handshakes([conn[c] EXCEPT !.flags = Both]) :
       conn' = [conn EXCEPT ![c] = s]

(* verify(): SSL_get_verify_result is asked once.                          *)
Verify(o) ==
  LET c == obj[o].ssl
  IN  /\ Ready(o) /\ Connected(conn[c])
      /\ obj' = [obj EXCEPT ![o].vify = TRUE,
                            ![o].good = IF obj[o].vify THEN @ ELSE c \in Good]
      /\ UNCHANGED <<conn, held, waiting, loop, lost, stale>>

(* The close_notify of the peer is taken in.                               *)
TakeEnd(s) ==
  IF s.peer = "ended" /\ s.data = 0
  THEN [s EXCEPT !.flags = @ \cup {"rcvd"}, !.ended = TRUE] ELSE s

(* Mutant of ReadEnd: a read flag is taken for the end of the file.        *)
ReadEndShut(s) == [s EXCEPT !.eof = @ \/ "rcvd" \in s.flags]

(* read() when there are no more records: 0 only for the error ZERO_RETURN *)
(* of a close_notify, -1 for any other.                                    *)
ReadEnd(s) == [s EXCEPT !.eof = @ \/ s.ended]

Read(o) ==
  LET c == obj[o].ssl
      s == conn[c]
      readable == s.hs = "done" /\ "rcvd" \notin s.flags
  IN  /\ Ready(o)
      /\ \/ ~readable /\ conn' = [conn EXCEPT ![c] = ReadEnd(s)]
         \/ readable /\ s.data > 0 /\ conn' = [conn EXCEPT ![c].data = @ - 1]
         \/ /\ readable /\ s.data = 0 /\ s.peer # "there"
            /\ conn' = [conn EXCEPT ![c] = ReadEnd(TakeEnd(s))]
      /\ UNCHANGED <<obj, held, waiting, loop, lost, stale>>

(* write(): the records that fill the window of the peer are the last that *)
(* can be sent until it reads; one that cannot be sent changes nothing.    *)
Write(o) ==
  LET c == obj[o].ssl
      s == conn[c]
  IN  /\ Ready(o)
      /\ s.hs = "done" /\ "sent" \notin s.flags /\ s.reads = "on"
      /\ conn' = [conn EXCEPT ![c].reads = "slow"]
      /\ UNCHANGED <<obj, held, waiting, loop, lost, stale>>

-----------------------------------------------------------------------------
(* shutwr() and shutrd(). *)

(* How SSL_shutdown ends that has our close_notify to send: that the peer  *)
(* is gone is noticed at once or not, but if it could not be sent before   *)
(* then always.                                                            *)
Sends(s) ==
  CASE s.reads = "on"   -> {"sent"}
    [] s.reads = "slow" -> {"want"}
    [] s.reads = "gone" -> IF s.notify = "unsent" THEN {"error"}
                                                  ELSE {"sent", "error"}

(* It sets the write flag first, and leaves it set.                        *)
Noted(s, end) ==
  [s EXCEPT !.flags = @ \cup {"sent"},
            !.notify = IF end = "sent" THEN "sent" ELSE "unsent"]

(* Mutant of Onward: every answer but 0 and 1 is taken for a WANT.         *)
OnwardNoError(at, s, end) ==
  IF end # "sent" THEN at
  ELSE IF at = "wr" \/ "rcvd" \in s.flags THEN "none" ELSE "rd"

(* Where the call is then: WANT is repeated, an error ends it, with FALSE, *)
(* and behind its shutwr() shutrd() asks whether the peer has ended.       *)
Onward(at, s, end) ==
  IF end = "want" THEN at
  ELSE IF end = "error" \/ at = "wr" \/ "rcvd" \in s.flags THEN "none"
  ELSE "rd"

(* The call of o goes on, or is over.                                      *)
GoesOn(o, at) == loop' = at /\ waiting' = IF at = "none" THEN None ELSE o

(* One turn of the loop of shutwr().                                       *)
Notify(o, at) ==
  LET c == obj[o].ssl
  IN  \E end \in Sends(conn[c]) :
        /\ conn' = [conn EXCEPT ![c] = Noted(conn[c], end)]
        /\ GoesOn(o, Onward(at, conn[c], end))
        /\ UNCHANGED <<obj, held, lost, stale>>

(* With the write flag set shutwr() answers TRUE and does nothing.         *)
ShutWr(o) ==
  Ready(o) /\ "sent" \notin conn[obj[o].ssl].flags /\ Notify(o, "wr")

(* The test of rdshut() in shutrd().                                       *)
AskRdShut(o) ==
  /\ GoesOn(o, IF "rcvd" \in conn[obj[o].ssl].flags THEN "none" ELSE "rd")
  /\ UNCHANGED <<conn, obj, held, lost, stale>>

(* Mutant of ShutRd: shutwr() is not called first.                         *)
ShutRdAlone(o) == Ready(o) /\ AskRdShut(o)

(* shutrd() begins with shutwr().                                          *)
ShutRd(o) ==
  /\ Ready(o)
  /\ IF "sent" \in conn[obj[o].ssl].flags THEN AskRdShut(o)
                                          ELSE Notify(o, "first")

(* SSL_shutdown is called again, and does not answer WANT_WRITE now.       *)
Retry ==
  /\ waiting # None /\ loop \in {"wr", "first"}
  /\ conn[obj[waiting].ssl].reads # "slow"
  /\ Notify(waiting, loop)

(* The loop of shutrd(): 0 and WANT_READ are all that SSL_shutdown answers *)
(* while the peer has said nothing.  Then it answers 1, or an error: the   *)
(* peer is gone, or a record came instead of a close_notify, or ours       *)
(* cannot be sent now either.                                              *)
FinishShutRd ==
  /\ loop = "rd"
  /\ LET c == obj[waiting].ssl
         s == IF conn[c].notify = "unsent" THEN conn[c] ELSE TakeEnd(conn[c])
     IN  /\ conn[c].peer # "there" \/ conn[c].data > 0
         /\ \E hs \in {s.hs} \cup (IF s.data > 0 THEN {"failed"} ELSE {}) :
              conn' = [conn EXCEPT ![c] = [s EXCEPT !.flags = Both, !.hs = hs]]
  /\ waiting' = None /\ loop' = "none"
  /\ UNCHANGED <<obj, held, lost, stale>>

-----------------------------------------------------------------------------
(* The peer, which moves at any time. *)

Peer(c) ==
  conn[c].open /\ UNCHANGED <<obj, held, waiting, loop, lost, stale>>

PeerReads(c) ==
  /\ Peer(c) /\ conn[c].reads = "slow"
  /\ conn' = [conn EXCEPT ![c].reads = "on"]

PeerSends(c) ==
  /\ Peer(c) /\ conn[c].hs = "done" /\ conn[c].peer = "there"
  /\ conn[c].data < MaxData
  /\ conn' = [conn EXCEPT ![c].data = @ + 1]

PeerEnds(c) ==
  /\ Peer(c) /\ conn[c].hs = "done" /\ conn[c].peer = "there"
  /\ conn' = [conn EXCEPT ![c].peer = "ended"]

(* It closes its socket: what it has sent can still be read, unless it is  *)
(* a reset.                                                                *)
PeerGoes(c) ==
  /\ Peer(c) /\ conn[c].reads # "gone"
  /\ \/ conn' = [conn EXCEPT ![c].reads = "gone",
                   ![c].peer = IF @ = "ended" THEN "ended" ELSE "gone"]
     \/ conn' = [conn EXCEPT ![c].reads = "gone", ![c].peer = "gone",
                             ![c].data = 0]

Call(o) ==
  Connect(o) \/ Verify(o) \/ Read(o) \/ Write(o) \/ ShutWr(o) \/ ShutRd(o)

PeerMoves(c) == PeerReads(c) \/ PeerSends(c) \/ PeerEnds(c) \/ PeerGoes(c)

Next ==
  \/ \E o \in Objs : Call(o) \/ Destroy(o)
  \/ \E o \in Objs, c \in Conns : Construct(o, c) \/ ConstructSock(o, c)
  \/ \E o, p \in Objs : MoveConstruct(o, p) \/ MoveAssign(o, p)
  \/ \E c \in Conns : ClientConnects(c) \/ ConstructHalf(c) \/ PeerMoves(c)
  \/ Retry
  \/ FinishShutRd

(* The loops call SSL_shutdown again until it answers something else.      *)
Spec == Init /\ [][Next]_vars /\ WF_vars(Retry) /\ WF_vars(FinishShutRd)

-----------------------------------------------------------------------------
(* Properties. *)

(* The variables have the values that are written beside them; a call runs *)
(* on an object with a connection (SSL.h:66-75, SSL.cpp:219-245).          *)
TypeOK ==
  /\ conn \in [Conns -> Connections]
  /\ obj \in [Objs -> [there : BOOLEAN, ssl : Conns \cup {None},
                       vify : BOOLEAN, good : BOOLEAN]]
  /\ held \in SUBSET Conns /\ lost \in SUBSET Conns /\ stale \in SUBSET Conns
  /\ waiting \in Objs \cup {None} /\ loop \in {"none", "wr", "first", "rd"}
  /\ waiting = None <=> loop = "none"
  /\ waiting # None => obj[waiting].ssl # None

Owners(c) ==
  {o \in Objs : obj[o].ssl = c} \cup (IF c \in held \ stale THEN {Client} ELSE {})

(* Every open socket will be closed by exactly one owner, the FD of the    *)
(* client or one SSLH, however the handles are moved; none is left for the *)
(* handles that a move assignment has overwritten, which is the only way   *)
(* to lose them.  No owner has a socket that is closed, but for the FD     *)
(* that a constructor left behind when it failed (SSL.cpp:60-90,           *)
(* SSL.h:105-113).                                                         *)
OneOwner ==
  \A c \in Conns :
    /\ \A a, b \in Owners(c) : a = b
    /\ Owners(c) # {} <=> conn[c].open /\ c \notin lost

(* The cached answer of verify() is that of the connection that the object *)
(* has now: no move and no further connect() leaves the one of another     *)
(* (SSL.cpp:72-90, 121, 142-172).                                          *)
VerifyIsOwn ==
  \A o \in Objs :
    obj[o].vify /\ obj[o].ssl # None => (obj[o].good <=> obj[o].ssl \in Good)

(* A read() answers 0 only when the peer has ended the stream itself and   *)
(* every record was read: neither a peer that is gone, nor the flags that  *)
(* shutrd() and connect() set, end it well (SSL.cpp:174-195).              *)
EofIsTheirs ==
  \A c \in Conns :
    conn[c].eof => conn[c].ended /\ conn[c].data = 0 /\ conn[c].peer # "there"

InOrder(s) ==
  s.hs = "done" /\ s.notify # "sent" =>
    /\ "sent" \in s.flags => s.notify = "unsent"
    /\ "rcvd" \in s.flags => s.ended \/ s.notify = "unsent"

(* A shutwr(), or the one in a shutrd(), is about to send on c again.      *)
Trying(c) == loop \in {"wr", "first"} /\ obj[waiting].ssl = c

(* On an established connection the flags tell the truth: the write flag   *)
(* means that our close_notify was sent, or was tried; the read flag, that *)
(* the peer has ended or that we have told it first.  A call that is over  *)
(* leaves it unsent only to a peer that is gone: it does not give up while *)
(* the peer is just slow to read (SSL.cpp:219-269).                        *)
ShutInOrder ==
  \A c \in Conns :
    /\ InOrder(conn[c])
    /\ conn[c].notify = "unsent" => conn[c].reads = "gone" \/ Trying(c)

(* shutwr() and shutrd() return, with no limit on the turns of either of   *)
(* their loops, on every peer that reads on and ends its side some time,   *)
(* or that goes: sending waits for it to read, the rest for it to end, and *)
(* every answer that it is gone ends the call (SSL.cpp:221, 228-244,       *)
(* 254-268).                                                               *)
ShutdownReturns ==
  (\A c \in Conns : WF_vars(PeerReads(c)) /\ WF_vars(PeerEnds(c)))
    => (waiting # None ~> waiting = None)
=============================================================================
