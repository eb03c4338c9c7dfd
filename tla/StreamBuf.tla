------------------------------- MODULE StreamBuf ------------------------------
(***************************************************************************)
(* BasicOStreamBuf and BasicIStreamBuf (src/src/StreamBuf.h:22-85), one at *)
(* each end of a connection: _flush of the one hands characters to the     *)
(* connection, _fill of the other takes them from it, as in BasicSSLSock.  *)
(*                                                                         *)
(* The characters are numbered in the order in which they are put, and 0   *)
(* is what a cell of a new buffer holds.  What std::basic_streambuf adds   *)
(* (sputc, pubsync, sbumpc, sungetc, sputbackc) is that of libstdc++.  A   *)
(* character that is stored beyond the buffer is undefined behaviour: the  *)
(* model goes no further.                                                  *)
(***************************************************************************)
EXTENDS Integers, Sequences, SequencesExt

CONSTANTS
  BufSz,    (* bufsz of both buffers.                                      *)
  PbackSz,  (* pbacksz of the input buffer.                                *)
  MaxChars  (* Bound on the characters that are put.                       *)

ASSUME StreamBufAssumption ==
  BufSz \in Nat \ {0} /\ PbackSz \in Nat \ {0} /\ MaxChars \in Nat

VARIABLES
  pend,    (* Output: the characters from pbase() to pptr().               *)
  wire,    (* The connection: flushed and not filled.                      *)
  cells,   (* Input: buf_, with eback() at cell 1.                         *)
  gptr, egptr,
  written, (* How many characters were put.                                *)
  got,     (* The characters that were read and not put back.              *)
  stray    (* A character was ungot that was not the last one read.        *)

vars == <<pend, wire, cells, gptr, egptr, written, got, stray>>

Cells == 1 .. PbackSz + BufSz

(* The cell behind the putback area.                                       *)
Start == PbackSz + 1

(* A character lies beyond epptr().                                        *)
Overrun == Len(pend) > BufSz

-----------------------------------------------------------------------------
(* BasicOStreamBuf. *)

(* Mutants of Sync: no setp after the flush, setp after a failed one.       *)
SyncNoSetp(p) == pend' = p /\ (wire' = wire \o p \/ wire' = wire)

SyncAlwaysEmpties(p) == pend' = <<>> /\ (wire' = wire \o p \/ wire' = wire)

(* sync() with the characters p in the buffer: _flush takes all of them,   *)
(* and setp empties the buffer, or it fails and everything stays.          *)
Sync(p) ==
  \/ pend' = <<>> /\ wire' = wire \o p
  \/ pend' = p /\ wire' = wire

(* overflow(c) stores c at pptr() first, and syncs if that filled the      *)
(* buffer up to epptr() exactly.                                           *)
Overflow(c) ==
  LET p == Append(pend, c)
  IN  IF Len(p) = BufSz THEN Sync(p) ELSE pend' = p /\ wire' = wire

(* sputc(c): into the buffer if there is room.                             *)
Put ==
  /\ written < MaxChars
  /\ written' = written + 1
  /\ IF Len(pend) < BufSz
     THEN pend' = Append(pend, written + 1) /\ wire' = wire
     ELSE Overflow(written + 1)
  /\ UNCHANGED <<cells, gptr, egptr, got, stray>>

(* pubsync(), ostream::flush().                                            *)
Flush ==
  /\ pend # <<>>
  /\ Sync(pend)
  /\ UNCHANGED <<cells, gptr, egptr, written, got, stray>>

-----------------------------------------------------------------------------
(* BasicIStreamBuf. *)

(* underflow() when _fill gives n characters, into the cells from gptr()   *)
(* on.                                                                     *)
Underflow(n) ==
  /\ cells' = [j \in Cells |-> IF j \in Start .. PbackSz + n
                               THEN wire[j - PbackSz]
                               ELSE cells[j]]
  /\ wire' = SubSeq(wire, n + 1, Len(wire))
  /\ egptr' = Start + n

(* sbumpc() with a character in the get area, ...                          *)
GetBuffered ==
  /\ gptr < egptr
  /\ Len(got) < MaxChars
  /\ gptr' = gptr + 1
  /\ got' = Append(got, cells[gptr])
  /\ UNCHANGED <<pend, wire, cells, egptr, written, stray>>

(* ... without one, and _fill gives at least one.                          *)
GetFilled ==
  /\ gptr = egptr
  /\ Len(got) < MaxChars
  /\ \E n \in 1 .. BufSz :
       /\ n <= Len(wire)
       /\ Underflow(n)
  /\ gptr' = Start + 1
  /\ got' = Append(got, cells'[Start])
  /\ UNCHANGED <<pend, written, stray>>

(* _fill fails or is at the end: underflow() has emptied the get area,     *)
(* its putback area is what lies before it, and returns eof().             *)
GetEof ==
  /\ gptr = egptr
  /\ Underflow(0)
  /\ gptr' = Start
  /\ UNCHANGED <<pend, written, got, stray>>

(* sputbackc(c) of the character that was read last: refused unless it is  *)
(* the one before gptr().                                                  *)
Putback ==
  /\ got # <<>>
  /\ gptr > 1
  /\ cells[gptr - 1] = Last(got)
  /\ gptr' = gptr - 1
  /\ got' = Front(got)
  /\ UNCHANGED <<pend, wire, cells, egptr, written, stray>>

(* sungetc(): whatever is there.                                           *)
Unget ==
  /\ gptr > 1
  /\ gptr' = gptr - 1
  /\ stray' = (stray \/ got = <<>> \/ cells[gptr - 1] # Last(got))
  /\ got' = IF got = <<>> THEN got ELSE Front(got)
  /\ UNCHANGED <<pend, wire, cells, egptr, written>>

-----------------------------------------------------------------------------
Init ==
  /\ pend = <<>>
  /\ wire = <<>>
  /\ cells = [j \in Cells |-> 0]
  /\ gptr = Start
  /\ egptr = Start
  /\ written = 0
  /\ got = <<>>
  /\ stray = FALSE

Next ==
  /\ ~Overrun
  /\ \/ Put
     \/ Flush
     \/ GetBuffered
     \/ GetFilled
     \/ GetEof
     \/ Putback
     \/ Unget

Spec == Init /\ [][Next]_vars

-----------------------------------------------------------------------------
(* Properties. *)

Numbers(from, to) == [j \in 1 .. to - from + 1 |-> from + j - 1]

(* What was read, what lies in the get area, what is under way and what    *)
(* waits to be flushed are together all the characters that were put, each *)
(* once and in order, whatever _flush and _fill failed (StreamBuf.h:40-75) *)
(* and whatever was put back.                                              *)
NothingLostOrRepeated ==
  ~stray => got \o SubSeq(cells, gptr, egptr - 1) \o wire \o pend
              = Numbers(1, written)

(* The abstract stream.  It is broken once sungetc() has stepped into the  *)
(* putback area, which no code fills, or overflow() out of the buffer.     *)
Stream == INSTANCE CharStream
            WITH sent <- written,
                 passed <- written - Len(pend),
                 rcvd <- got,
                 broken <- stray \/ Overrun

(* The two buffers and the connection implement the stream of characters.  *)
ImplementsCharStream == Stream!Spec

(* "flush buffer from pbase() up to pptr()" (StreamBuf.h:48): pptr() never *)
(* leaves the buffer.                                                      *)
PptrInBuffer == ~Overrun
=============================================================================
