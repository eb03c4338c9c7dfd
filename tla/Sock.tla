--------------------------------- MODULE Sock ---------------------------------
(***************************************************************************)
(* The life of one BasicSock (src/src/Sock.h:224-381): where its streams   *)
(* and their descriptors come from, who owns them, and what shutrd(),      *)
(* shutwr() and the destructor do to them, to the output that was not      *)
(* flushed and to the peer.                                                *)
(*                                                                         *)
(* "in" and "out" name the two directions, their streams and the           *)
(* descriptors of these.  The streams that a client hands over are         *)
(* FDStreams on a pipe or on a socket.  Both descriptors on a socket are   *)
(* on the same one, the second a dup of the first.  Closing succeeds; for  *)
(* a close that fails see FD.                                              *)
(***************************************************************************)
EXTENDS Integers

CONSTANT MaxChars   (* Bound on the characters that are put.               *)

ASSUME SockAssumption == MaxChars \in Nat \ {0}

VARIABLES
  life,    (* Of the object.                                               *)
  made,    (* By which kind of constructor.                                *)
  ptr,     (* in_ and out_: to eofr_ or eofw_, or to another stream.       *)
  owned,   (* The directions in which the unique_ptr holds a stream.       *)
  strm,    (* The stream objects that exist.                               *)
  err,     (* The directions in which failbit was set.                     *)
  held,    (* The descriptors that the client's FD, or the client, holds.  *)
  open,    (* Kernel: the open descriptors, ...                            *)
  file,    (* ... what they are open on, ...                               *)
  shut,    (* ... the directions that were shut down on the socket, ...    *)
  peer,    (* ... whether the peer is there.                               *)
  buf,     (* The characters put and not written.                          *)
  got,     (* The characters written.                                      *)
  ignore,  (* SIGPIPE is ignored.                                          *)
  up       (* The program has not been killed by SIGPIPE.                  *)

vars == <<life, made, ptr, owned, strm, err, held, open, file, shut, peer,
          buf, got, ignore, up>>

heap == <<ptr, owned, strm>>
kernel == <<open, file, shut, peer>>
data == <<buf, got, ignore, up>>

Dirs == {"in", "out"}
Nowhere == [d \in Dirs |-> "none"]

Init ==
  /\ life = "none"
  /\ made = "none"
  /\ ptr = Nowhere
  /\ owned = {}
  /\ strm = Nowhere
  /\ err = {}
  /\ held = {}
  /\ open = {}
  /\ file = Nowhere
  /\ shut = {}
  /\ peer = "there"
  /\ buf = 0
  /\ got = 0
  /\ ignore \in BOOLEAN
  /\ up = TRUE

-----------------------------------------------------------------------------
(* Constructors. *)

(* The streams of kind s in the directions D; the others are eofr_, eofw_. *)
Streams(D, s) ==
  /\ strm' = [d \in Dirs |-> IF d \in D THEN s ELSE "none"]
  /\ ptr' = [d \in Dirs |-> IF d \in D THEN "stream" ELSE "eof"]
  /\ owned' = D
  /\ life' = "alive"

MakeDefault ==
  /\ life = "none" /\ held = {}
  /\ made' = "default"
  /\ Streams({}, "none")
  /\ UNCHANGED <<err, held, kernel, data>>

(* From stream buffers, null ones left out.                                *)
MakeFromBufs ==
  /\ life = "none" /\ held = {}
  /\ made' = "bufs"
  /\ \E D \in SUBSET Dirs : Streams(D, "buf")
  /\ UNCHANGED <<err, held, kernel, data>>

(* From streams, null ones left out.                                       *)
MakeFromStreams ==
  /\ life = "none" /\ held = {}
  /\ made' = "streams"
  /\ file' \in [Dirs -> {"none", "pipe", "socket"}]
  /\ open' = {d \in Dirs : file'[d] # "none"}
  /\ Streams(open', "FDStream")
  /\ UNCHANGED <<err, held, shut, peer, data>>

(* The client connects a socket itself.                                    *)
ClientConnects ==
  /\ life = "none" /\ held = {}
  /\ held' = {"in"}
  /\ open' = {"in"}
  /\ file' = [file EXCEPT !["in"] = "socket"]
  /\ UNCHANGED <<life, made, heap, err, shut, peer, data>>

(* How _BasicSock(int) ends: well; with nothing made, when dup failed or   *)
(* there was no memory for out_; or without memory for in_.                *)
Fates == {"done", "nothing", "half"}

(* Mutant of NewStreams: the unique_ptrs get the streams.                  *)
NewStreamsOwned(fate) ==
  /\ strm' = [d \in Dirs |-> CASE fate = "done" -> "FDStream"
                               [] fate = "half" /\ d = "out" -> "FDStream"
                               [] OTHER -> "none"]
  /\ ptr' = [d \in Dirs |-> IF fate = "done" THEN "stream" ELSE "none"]
  /\ owned' = IF fate = "done" THEN Dirs ELSE {}
  /\ file' = [d \in Dirs |-> IF d = "in" \/ fate # "nothing" THEN "socket"
                                                             ELSE "none"]
  /\ life' = IF fate = "done" THEN "alive" ELSE "threw"

(* _BasicSock(int): plain pointers to new streams, nobody's in the case of *)
(* "half", for a constructor that throws has no destructor.                *)
NewStreams(fate) ==
  /\ strm' = [d \in Dirs |-> CASE fate = "done" -> "FDStream"
                               [] fate = "half" /\ d = "out" -> "FDStream"
                               [] OTHER -> "none"]
  /\ ptr' = [d \in Dirs |-> IF fate = "done" THEN "stream" ELSE "none"]
  /\ owned' = {}
  /\ file' = [d \in Dirs |-> IF d = "in" \/ fate # "nothing" THEN "socket"
                                                             ELSE "none"]
  /\ life' = IF fate = "done" THEN "alive" ELSE "threw"

(* What is open then, given what becomes of the socket of the caller.      *)
OpenAfter(fate, kept) ==
  (IF fate # "nothing" THEN {"out"} ELSE {}) \cup (IF kept THEN {"in"} ELSE {})

(* Mutant of MakeFromFD: without sfd.Detach().                             *)
MakeFromFDNoDetach ==
  /\ life = "none" /\ held = {"in"}
  /\ made' = "descriptor"
  /\ \E fate \in Fates :
       /\ NewStreams(fate)
       /\ open' = OpenAfter(fate, TRUE)
  /\ held' = held
  /\ UNCHANGED <<err, shut, peer, data>>

(* From an int or an FD: the client is left with it when it throws.        *)
MakeFromFD ==
  /\ life = "none" /\ held = {"in"}
  /\ made' = "descriptor"
  /\ \E fate \in Fates :
       /\ NewStreams(fate)
       /\ open' = OpenAfter(fate, TRUE)
       /\ held' = IF fate = "done" THEN {} ELSE held
  /\ UNCHANGED <<err, shut, peer, data>>

(* From an address: the FD of the constructor closes it when it throws.    *)
MakeFromAddr ==
  /\ life = "none" /\ held = {}
  /\ made' = "descriptor"
  /\ \E fate \in Fates :
       /\ NewStreams(fate)
       /\ open' = OpenAfter(fate, fate = "done")
  /\ UNCHANGED <<err, held, shut, peer, data>>

-----------------------------------------------------------------------------
(* Output. *)

(* Mutant of Written: they stay in the buffer.                             *)
WrittenTwice == got' = got + buf /\ buf' = buf /\ up' = up

(* The characters in the buffer are written.                               *)
Written == got' = got + buf /\ buf' = 0 /\ up' = up

(* They are not, with EPIPE and the signal for certain, or with an error   *)
(* that may be another one.                                                *)
NotWritten(certain) ==
  /\ up' \in IF certain THEN {ignore} ELSE {ignore, TRUE}
  /\ UNCHANGED <<buf, got>>

Put ==
  /\ ptr["out"] = "stream"
  /\ got + buf < MaxChars
  /\ buf' = buf + 1
  /\ UNCHANGED <<life, made, heap, err, held, kernel, got, ignore, up>>

Flush ==
  /\ ptr["out"] = "stream"
  /\ buf > 0
  /\ IF strm["out"] = "buf" \/ peer = "there"
     THEN Written
     ELSE NotWritten(file["out"] = "pipe")
  /\ UNCHANGED <<life, made, heap, err, held, kernel, ignore>>

-----------------------------------------------------------------------------
(* shutrd(), shutwr() and the destructor. *)

(* Mutant of Delete: no reset().                                           *)
DeleteNothing(d) == UNCHANGED <<owned, strm, open, buf, got, up>>

(* reset(): if there is a stream, it is deleted.  An FDStream then writes  *)
(* what it has buffered, after the shutdown, and closes its descriptor.    *)
Delete(d) ==
  /\ owned' = owned \ {d}
  /\ IF d \notin owned
     THEN UNCHANGED <<strm, open, buf, got, up>>
     ELSE /\ strm' = [strm EXCEPT ![d] = "none"]
          /\ open' = open \ {d}
          /\ CASE d = "in" \/ strm[d] = "buf" \/ buf = 0 ->
                    UNCHANGED <<buf, got, up>>
               [] OTHER ->
                    IF file[d] = "pipe" /\ peer = "there"
                    THEN Written
                    ELSE NotWritten(file[d] = "pipe" \/ peer = "there")

(* Mutant of Shutdown: the other direction.                                *)
ShutdownSwapped(d) ==
  IF strm[d] = "FDStream" /\ file[d] = "socket" /\ peer = "there"
  THEN shut' = shut \cup (Dirs \ {d})
  ELSE shut' = shut

(* ::shutdown, of sockets only; ENOTCONN when the peer is gone.            *)
Shutdown(d) ==
  IF strm[d] = "FDStream" /\ file[d] = "socket" /\ peer = "there"
  THEN shut' = shut \cup {d}
  ELSE shut' = shut

(* ENOTCONN is no error here.                                              *)
ShutRd ==
  /\ Shutdown("in")
  /\ Delete("in")
  /\ err' = IF strm["in"] = "FDStream" /\ "in" \notin open
            THEN err \cup {"in"} ELSE err
  /\ ptr' = [ptr EXCEPT !["in"] = "eof"]

(* Here it is.                                                             *)
ShutWr ==
  /\ Shutdown("out")
  /\ Delete("out")
  /\ err' = IF strm["out"] = "FDStream"
               /\ \/ "out" \notin open
                  \/ file["out"] = "socket" /\ peer = "gone"
            THEN err \cup {"out"} ELSE err
  /\ ptr' = [ptr EXCEPT !["out"] = "eof"]

ClientShutsRd ==
  /\ life = "alive" /\ ptr["in"] = "stream"
  /\ ShutRd
  /\ UNCHANGED <<life, made, held, file, peer, ignore>>

ClientShutsWr ==
  /\ life = "alive" /\ ptr["out"] = "stream"
  /\ ShutWr
  /\ UNCHANGED <<life, made, held, file, peer, ignore>>

(* The destructor: first shutwr(), unless it was called, ...               *)
BeginDestroy ==
  /\ life = "alive"
  /\ life' = "ending"
  /\ IF ptr["out"] = "stream"
     THEN ShutWr
     ELSE UNCHANGED <<heap, err, open, shut, buf, got, up>>
  /\ UNCHANGED <<made, held, file, peer, ignore>>

(* ... then shutrd().                                                      *)
FinishDestroy ==
  /\ life = "ending"
  /\ life' = "gone"
  /\ IF ptr["in"] = "stream"
     THEN ShutRd
     ELSE UNCHANGED <<heap, err, open, shut, buf, got, up>>
  /\ UNCHANGED <<made, held, file, peer, ignore>>

-----------------------------------------------------------------------------
(* The client closes its FD, the peer resets the connection or closes the  *)
(* other ends of the pipes.                                                *)
ClientCloses ==
  /\ held # {} /\ life = "threw"
  /\ held' = {}
  /\ open' = open \ held
  /\ UNCHANGED <<life, made, heap, err, file, shut, peer, data>>

PeerGoes ==
  /\ open # {} /\ peer = "there"
  /\ peer' = "gone"
  /\ UNCHANGED <<life, made, heap, err, held, open, file, shut, data>>

Next ==
  /\ up
  /\ \/ MakeDefault \/ MakeFromBufs \/ MakeFromStreams
     \/ ClientConnects \/ MakeFromFD \/ MakeFromAddr
     \/ Put \/ Flush
     \/ ClientShutsRd \/ ClientShutsWr \/ BeginDestroy \/ FinishDestroy
     \/ ClientCloses \/ PeerGoes

Spec == Init /\ [][Next]_vars

-----------------------------------------------------------------------------
(* Properties. *)

(* The state is well formed.                                               *)
TypeOK ==
  /\ life \in {"none", "alive", "ending", "gone", "threw"}
  /\ made \in {"none", "default", "bufs", "streams", "descriptor"}
  /\ ptr \in [Dirs -> {"none", "eof", "stream"}]
  /\ owned \subseteq Dirs
  /\ strm \in [Dirs -> {"none", "buf", "FDStream"}]
  /\ err \subseteq Dirs
  /\ held \subseteq {"in"}
  /\ open \subseteq Dirs
  /\ file \in [Dirs -> {"none", "pipe", "socket"}]
  /\ shut \subseteq Dirs
  /\ peer \in {"there", "gone"}
  /\ buf \in 0 .. MaxChars
  /\ got \in 0 .. MaxChars - buf
  /\ ignore \in BOOLEAN
  /\ up \in BOOLEAN

(* Whatever a constructor managed to do before it threw (Sock.h:296-326)   *)
(* and in whatever order the directions are shut, an open descriptor has   *)
(* one of the client's FD and a stream to close it, and neither of them    *)
(* is left with a number that is closed.                                   *)
OneOwner ==
  /\ held \subseteq open
  /\ \A d \in Dirs :
       strm[d] = "FDStream" <=> d \in open /\ d \notin held

(* Only what _BasicSock(int) made is lost: its streams once their          *)
(* direction is shut (no unique_ptr has them, Sock.h:304-306), and out_    *)
(* when it throws after that was made.  All other descriptors are closed   *)
(* by then.                                                                *)
LeaksOnlyNewStreams ==
  \A d \in open \ held :
    \/ life \in {"alive", "ending"} /\ ptr[d] = "stream"
    \/ made = "descriptor" /\ (life = "threw" => d = "out")

(* What the peer reads ends.                                               *)
PeerSeesEnd ==
  IF file["out"] = "socket"
  THEN "out" \in shut \/ \A d \in open : file[d] # "socket"
  ELSE "out" \notin open

(* Once the output is shut, by shutwr() or the destructor, the peer sees   *)
(* its end, although the descriptor may never be closed (Sock.h:361-381);  *)
(* it says that it failed only if there is no peer any more, and shutrd()  *)
(* never does, even then (Sock.h:347).                                     *)
EndReachesPeer ==
  /\ ptr["out"] = "eof" /\ file["out"] # "none"
       => IF "out" \in err THEN peer = "gone" ELSE PeerSeesEnd
  /\ "in" \notin err

(* shutwr() shuts the socket before the stream writes what it has buffered *)
(* (Sock.h:370, 379).  What was put and not flushed still reaches a pipe   *)
(* whose reader is there.  It ends the program only if SIGPIPE is not      *)
(* ignored, and then only when the peer is gone, or when the stream is one *)
(* that the object was given, on a socket.                                 *)
LateOutput ==
  /\ ptr["out"] = "eof" /\ file["out"] = "pipe" /\ buf > 0 => peer = "gone"
  /\ ~up => /\ buf > 0
            /\ ~ignore
            /\ (peer = "gone" \/ (made = "streams" /\ file["out"] = "socket"))
=============================================================================
