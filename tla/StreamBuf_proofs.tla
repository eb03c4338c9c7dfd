--------------------------- MODULE StreamBuf_proofs ---------------------------
(***************************************************************************)
(* The two stream buffers for every size of the buffers and every number   *)
(* of characters: nothing is lost or repeated, and together with the       *)
(* connection they implement the abstract stream of CharStream.            *)
(***************************************************************************)
EXTENDS StreamBuf, TLAPS

USE StreamBufAssumption

(* The state is well formed, and the positions lie in the input buffer.    *)
Types ==
  /\ pend \in Seq(Nat)
  /\ wire \in Seq(Nat)
  /\ cells \in [Cells -> Nat]
  /\ egptr \in Start .. PbackSz + BufSz + 1
  /\ gptr \in 1 .. egptr
  /\ written \in Nat
  /\ got \in Seq(Nat)
  /\ stray \in BOOLEAN

(* Which character lies where: the four parts of the stream follow each    *)
(* other, each in order.                                                   *)
Placed ==
  /\ \A j \in 1 .. Len(got) : got[j] = j
  /\ \A j \in gptr .. egptr - 1 : cells[j] = Len(got) + 1 + j - gptr
  /\ \A j \in 1 .. Len(wire) : wire[j] = Len(got) + egptr - gptr + j
  /\ \A j \in 1 .. Len(pend) :
       pend[j] = Len(got) + egptr - gptr + Len(wire) + j
  /\ written = Len(got) + egptr - gptr + Len(wire) + Len(pend)

IInv == Types /\ (~stray => Placed)

-----------------------------------------------------------------------------
(* Sequences. *)

(* Two sequences one behind the other.                                     *)
LEMMA Concatenated ==
  ASSUME NEW s \in Seq(Nat), NEW t \in Seq(Nat)
  PROVE  /\ s \o t \in Seq(Nat)
         /\ Len(s \o t) = Len(s) + Len(t)
         /\ \A j \in 1 .. Len(s) : (s \o t)[j] = s[j]
         /\ \A j \in 1 .. Len(t) : (s \o t)[Len(s) + j] = t[j]
OBVIOUS

LEMMA Appended ==
  ASSUME NEW s \in Seq(Nat), NEW c \in Nat
  PROVE  /\ Append(s, c) \in Seq(Nat)
         /\ Len(Append(s, c)) = Len(s) + 1
         /\ \A j \in 1 .. Len(s) : Append(s, c)[j] = s[j]
         /\ Append(s, c)[Len(s) + 1] = c
OBVIOUS

LEMMA Fronts ==
  ASSUME NEW s \in Seq(Nat), s # <<>>
  PROVE  /\ Len(s) \in Nat \ {0}
         /\ Last(s) = s[Len(s)]
         /\ Front(s) \in Seq(Nat)
         /\ Len(Front(s)) = Len(s) - 1
         /\ \A j \in 1 .. Len(s) - 1 : Front(s)[j] = s[j]
<1>1. Len(s) \in Nat \ {0}
  OBVIOUS
<1>2. ASSUME NEW m \in 0 .. Len(s)
      PROVE  /\ SubSeq(s, 1, m) \in Seq(Nat)
             /\ Len(SubSeq(s, 1, m)) = m
             /\ \A j \in 1 .. m : SubSeq(s, 1, m)[j] = s[j]
  OBVIOUS
<1>3. Len(s) - 1 \in 0 .. Len(s)
  BY <1>1
<1>4. QED BY <1>1, <1>2, <1>3, Zenon DEF Last, Front

LEMMA Tails ==
  ASSUME NEW s \in Seq(Nat), NEW n \in 0 .. Len(s)
  PROVE  /\ SubSeq(s, n + 1, Len(s)) \in Seq(Nat)
         /\ Len(SubSeq(s, n + 1, Len(s))) = Len(s) - n
         /\ \A j \in 1 .. Len(s) - n : SubSeq(s, n + 1, Len(s))[j] = s[n + j]
OBVIOUS

-----------------------------------------------------------------------------
(* Both buffers and the connection are empty at first.                     *)
LEMMA InitIInv == Init => IInv
<1> SUFFICES ASSUME Init
             PROVE  IInv
  OBVIOUS
<1>1. /\ pend = <<>> /\ wire = <<>> /\ got = <<>> /\ written = 0
      /\ gptr = Start /\ egptr = Start /\ Start \in Nat \ {0}
      /\ stray = FALSE /\ cells = [j \in Cells |-> 0]
  BY DEF Init, Start
<1>2. Len(pend) = 0 /\ Len(wire) = 0 /\ Len(got) = 0
  BY <1>1
<1>3. pend \in Seq(Nat) /\ wire \in Seq(Nat) /\ got \in Seq(Nat)
  BY <1>1
<1>4. Types
  <2>1. egptr \in Start .. PbackSz + BufSz + 1 /\ gptr \in 1 .. egptr
    BY <1>1 DEF Start
  <2>2. cells \in [Cells -> Nat]
    BY <1>1
  <2>3. stray \in BOOLEAN /\ written \in Nat
    BY <1>1
  <2>4. QED BY <1>3, <2>1, <2>2, <2>3 DEF Types
<1>5. Placed
  BY <1>1, <1>2 DEF Placed
<1>6. QED BY <1>4, <1>5 DEF IInv

(* sync() moves the whole buffer onto the connection, or nothing.          *)
LEMMA SyncPlaced ==
  ASSUME Types, NEW p \in Seq(Nat), Sync(p),
         UNCHANGED <<cells, gptr, egptr, got, stray>>,
         written' \in Nat,
         ~stray => /\ \A j \in 1 .. Len(got) : got[j] = j
                   /\ \A j \in gptr .. egptr - 1 : cells[j] = Len(got) + 1 + j - gptr
                   /\ \A j \in 1 .. Len(wire) : wire[j] = Len(got) + egptr - gptr + j
                   /\ \A j \in 1 .. Len(p) :
                        p[j] = Len(got) + egptr - gptr + Len(wire) + j
                   /\ written' = Len(got) + egptr - gptr + Len(wire) + Len(p)
  PROVE  IInv'
<1>1. CASE pend' = p /\ wire' = wire
  BY <1>1 DEF Types, IInv, Placed
<1>2. CASE pend' = <<>> /\ wire' = wire \o p
  <2>1. /\ wire' \in Seq(Nat) /\ Len(wire') = Len(wire) + Len(p)
        /\ \A j \in 1 .. Len(wire) : wire'[j] = wire[j]
        /\ \A j \in 1 .. Len(p) : wire'[Len(wire) + j] = p[j]
    BY <1>2, Concatenated DEF Types
  <2>2. pend' \in Seq(Nat) /\ Len(pend') = 0
    BY <1>2
  <2>3. Types'
    BY <2>1, <2>2 DEF Types
  <2>4. ASSUME ~stray, NEW j \in 1 .. Len(wire')
        PROVE  wire'[j] = Len(got) + egptr - gptr + j
    <3>1. Len(wire) \in Nat /\ Len(p) \in Nat /\ Len(got) \in Nat
      BY DEF Types
    <3>2. CASE j \in 1 .. Len(wire)
      BY <2>1, <2>4, <3>2
    <3>3. CASE j \notin 1 .. Len(wire)
      <4>1. j - Len(wire) \in 1 .. Len(p) /\ j = Len(wire) + (j - Len(wire))
        BY <2>1, <3>1, <3>3
      <4>2. wire'[j] = p[j - Len(wire)]
        BY <2>1, <4>1
      <4>3. p[j - Len(wire)] = Len(got) + egptr - gptr + Len(wire) + (j - Len(wire))
        BY <2>4, <4>1
      <4>4. QED BY <3>1, <4>2, <4>3 DEF Types, Start
    <3>4. QED BY <3>2, <3>3
  <2>5. ~stray => written' = Len(got) + egptr - gptr + Len(wire')
    BY <2>1 DEF Types, Start
  <2>6. ~stray => Placed'
    <3>1. /\ Len(got) \in Nat /\ Len(wire') \in Nat
          /\ gptr \in Nat /\ egptr \in Nat
      BY <2>1 DEF Types, Start
    <3>2. ~stray => written' = Len(got) + egptr - gptr + Len(wire') + Len(pend')
      BY <2>2, <2>5, <3>1
    <3>3. \A j \in 1 .. Len(pend') : FALSE
      BY <2>2
    <3>4. QED BY <2>4, <3>2, <3>3 DEF Placed
  <2>7. QED BY <2>3, <2>6 DEF IInv
<1>3. QED BY <1>1, <1>2 DEF Sync

(* Every step keeps the characters in their places.                        *)
LEMMA StepIInv == IInv /\ [Next]_vars => IInv'
<1> SUFFICES ASSUME IInv, [Next]_vars
             PROVE  IInv'
  OBVIOUS
<1>1. /\ Len(pend) \in Nat /\ Len(wire) \in Nat /\ Len(got) \in Nat
      /\ gptr \in Nat /\ egptr \in Nat /\ Start \in Nat /\ written \in Nat
      /\ Types
  BY DEF IInv, Types, Start
<1>2. CASE Put
  <2> DEFINE p == Append(pend, written + 1)
  <2>1. /\ p \in Seq(Nat) /\ Len(p) = Len(pend) + 1
        /\ \A j \in 1 .. Len(pend) : p[j] = pend[j]
        /\ p[Len(pend) + 1] = written + 1
    BY <1>1, Appended DEF Types
  <2>2. written' = written + 1 /\ UNCHANGED <<cells, gptr, egptr, got, stray>>
    BY <1>2 DEF Put
  <2>3. \/ pend' = p /\ wire' = wire
        \/ Sync(p)
    BY <1>2 DEF Put, Overflow
  <2>4. Sync(p)
    BY <2>3 DEF Sync
  <2> HIDE DEF p
  <2>5. ASSUME ~stray
        PROVE  /\ \A j \in 1 .. Len(got) : got[j] = j
               /\ \A j \in gptr .. egptr - 1 : cells[j] = Len(got) + 1 + j - gptr
               /\ \A j \in 1 .. Len(wire) : wire[j] = Len(got) + egptr - gptr + j
               /\ \A j \in 1 .. Len(p) :
                    p[j] = Len(got) + egptr - gptr + Len(wire) + j
               /\ written' = Len(got) + egptr - gptr + Len(wire) + Len(p)
    <3>1. Placed
      BY <2>5 DEF IInv
    <3>2. \A j \in 1 .. Len(p) : j \in 1 .. Len(pend) \/ j = Len(pend) + 1
      BY <1>1, <2>1
    <3>3. QED BY <1>1, <2>1, <2>2, <3>1, <3>2 DEF Placed
  <2>6. written' \in Nat
    BY <1>1, <2>2
  <2>7. QED BY <1>1, <2>1, <2>2, <2>4, <2>5, <2>6, SyncPlaced, Zenon
<1>3. CASE Flush
  <2>1. Sync(pend) /\ UNCHANGED <<cells, gptr, egptr, written, got, stray>>
    BY <1>3 DEF Flush
  <2>2. pend \in Seq(Nat)
    BY <1>1 DEF Types
  <2>3. QED BY <1>1, <2>1, <2>2, SyncPlaced DEF IInv, Placed
<1>4. CASE GetBuffered
  <2>1. gptr \in Cells /\ cells[gptr] \in Nat /\ gptr < egptr
    BY <1>1, <1>4 DEF GetBuffered, Types, Cells, Start
  <2>2. /\ gptr' = gptr + 1 /\ got' = Append(got, cells[gptr])
        /\ UNCHANGED <<pend, wire, cells, egptr, written, stray>>
    BY <1>4 DEF GetBuffered
  <2>3. /\ got' \in Seq(Nat) /\ Len(got') = Len(got) + 1
        /\ \A j \in 1 .. Len(got) : got'[j] = got[j]
        /\ got'[Len(got) + 1] = cells[gptr]
    BY <1>1, <2>1, <2>2, Appended DEF Types
  <2>4. Types'
    BY <1>1, <2>1, <2>2, <2>3 DEF Types
  <2>5. ~stray => Placed'
    <3>1. \A j \in 1 .. Len(got') : j \in 1 .. Len(got) \/ j = Len(got) + 1
      BY <1>1, <2>3
    <3>2. ASSUME Placed
          PROVE  Placed'
      <4>1. cells[gptr] = Len(got) + 1
        BY <1>1, <2>1, <3>2 DEF Placed
      <4>2. \A j \in 1 .. Len(got') : got'[j] = j
        BY <2>3, <3>1, <3>2, <4>1 DEF Placed
      <4>3. \A j \in gptr' .. egptr' - 1 : cells'[j] = Len(got') + 1 + j - gptr'
        BY <1>1, <2>1, <2>2, <2>3, <3>2 DEF Placed
      <4>4. Len(got') + egptr' - gptr' = Len(got) + egptr - gptr
        BY <1>1, <2>2, <2>3
      <4>5. QED BY <2>2, <3>2, <4>2, <4>3, <4>4 DEF Placed
    <3>3. QED BY <3>2 DEF IInv
  <2>6. QED BY <2>2, <2>4, <2>5 DEF IInv
<1>5. ASSUME NEW n \in 0 .. BufSz, n <= Len(wire), gptr = egptr, Underflow(n)
      PROVE  /\ cells' \in [Cells -> Nat]
             /\ \A j \in 1 .. n : cells'[PbackSz + j] = wire[j]
             /\ wire' \in Seq(Nat) /\ Len(wire') = Len(wire) - n
             /\ \A j \in 1 .. Len(wire) - n : wire'[j] = wire[n + j]
             /\ egptr' = Start + n
             /\ Start \in Cells
  <2>1. n \in 0 .. Len(wire)
    BY <1>1, <1>5
  <2>2. /\ wire' \in Seq(Nat) /\ Len(wire') = Len(wire) - n
        /\ \A j \in 1 .. Len(wire) - n : wire'[j] = wire[n + j]
    BY <1>1, <1>5, <2>1, Tails DEF Underflow, Types
  <2>3. \A j \in Start .. PbackSz + n : j - PbackSz \in 1 .. Len(wire)
    BY <1>1, <2>1 DEF Start
  <2>4. \A j \in 1 .. Len(wire) : wire[j] \in Nat
    BY <1>1 DEF Types
  <2>5. cells' \in [Cells -> Nat]
    BY <1>1, <1>5, <2>3, <2>4 DEF Underflow, Types
  <2>6. ASSUME NEW j \in 1 .. n
        PROVE  cells'[PbackSz + j] = wire[j]
    <3>1. /\ PbackSz + j \in Cells
          /\ PbackSz + j \in Start .. PbackSz + n
          /\ PbackSz + j - PbackSz = j
      BY DEF Cells, Start
    <3>2. QED BY <1>5, <3>1 DEF Underflow
  <2>7. QED BY <1>5, <2>2, <2>5, <2>6 DEF Underflow, Cells, Start
<1>6. CASE GetFilled
  <2>1. PICK n \in 1 .. BufSz : n <= Len(wire) /\ Underflow(n)
    BY <1>6 DEF GetFilled
  <2>2. /\ gptr = egptr /\ gptr' = Start + 1
        /\ got' = Append(got, cells'[Start])
        /\ UNCHANGED <<pend, written, stray>>
    BY <1>6 DEF GetFilled
  <2>3. /\ cells' \in [Cells -> Nat]
        /\ \A j \in 1 .. n : cells'[PbackSz + j] = wire[j]
        /\ wire' \in Seq(Nat) /\ Len(wire') = Len(wire) - n
        /\ \A j \in 1 .. Len(wire) - n : wire'[j] = wire[n + j]
        /\ egptr' = Start + n
        /\ Start \in Cells
    <3>1. n \in 0 .. BufSz
      OBVIOUS
    <3>2. QED BY <1>5, <2>1, <2>2, <3>1
  <2>4. /\ got' \in Seq(Nat) /\ Len(got') = Len(got) + 1
        /\ \A j \in 1 .. Len(got) : got'[j] = got[j]
        /\ got'[Len(got) + 1] = wire[1]
    <3>1. cells'[Start] \in Nat
      BY <2>3
    <3>2. cells'[Start] = wire[1]
      BY <2>3 DEF Start
    <3>3. QED BY <1>1, <2>2, <3>1, <3>2, Appended DEF Types
  <2>5. Types'
    BY <1>1, <2>2, <2>3, <2>4 DEF Types, Start
  <2>6. ASSUME ~stray
        PROVE  Placed'
    <3>1. Placed
      BY <2>6 DEF IInv
    <3>2. \A j \in 1 .. Len(got') : got'[j] = j
      <4>1. \A j \in 1 .. Len(got') : j \in 1 .. Len(got) \/ j = Len(got) + 1
        BY <1>1, <2>4
      <4>2. wire[1] = Len(got) + 1
        BY <1>1, <2>1, <2>2, <3>1 DEF Placed
      <4>3. QED BY <2>4, <3>1, <4>1, <4>2 DEF Placed
    <3>3. ASSUME NEW j \in gptr' .. egptr' - 1
          PROVE  cells'[j] = Len(got') + 1 + j - gptr'
      <4>1. /\ j - PbackSz \in 1 .. n
            /\ PbackSz + (j - PbackSz) = j
            /\ j - PbackSz \in 1 .. Len(wire)
            /\ j \in Nat
        BY <1>1, <2>1, <2>2, <2>3 DEF Start
      <4>2. cells'[j] = wire[j - PbackSz]
        BY <2>3, <4>1
      <4>3. wire[j - PbackSz] = Len(got) + egptr - gptr + (j - PbackSz)
        BY <3>1, <4>1 DEF Placed
      <4>4. QED BY <1>1, <2>2, <2>4, <4>1, <4>2, <4>3 DEF Start
    <3>4. ASSUME NEW j \in 1 .. Len(wire')
          PROVE  wire'[j] = Len(got') + egptr' - gptr' + j
      <4>1. n + j \in 1 .. Len(wire)
        BY <1>1, <2>1, <2>3
      <4>2. wire'[j] = Len(got) + egptr - gptr + (n + j)
        BY <2>3, <3>1, <4>1 DEF Placed
      <4>3. QED BY <1>1, <2>2, <2>3, <2>4, <4>2
    <3>5. Len(got') + egptr' - gptr' + Len(wire') = Len(got) + egptr - gptr + Len(wire)
      BY <1>1, <2>1, <2>2, <2>3, <2>4
    <3>6. QED BY <1>1, <2>2, <3>1, <3>2, <3>3, <3>4, <3>5 DEF Placed
  <2>7. QED BY <2>2, <2>5, <2>6 DEF IInv
<1>7. CASE GetEof
  <2>1. /\ gptr = egptr /\ gptr' = Start
        /\ UNCHANGED <<pend, written, got, stray>>
        /\ Underflow(0)
    BY <1>7 DEF GetEof
  <2>2. /\ cells' \in [Cells -> Nat]
        /\ wire' \in Seq(Nat) /\ Len(wire') = Len(wire)
        /\ \A j \in 1 .. Len(wire) : wire'[j] = wire[j]
        /\ egptr' = Start
    <3>1. 0 \in 0 .. BufSz /\ 0 <= Len(wire)
      BY <1>1
    <3>2. QED BY <1>1, <1>5, <2>1, <3>1
  <2>3. Types'
    BY <1>1, <2>1, <2>2 DEF Types, Start
  <2>4. ~stray => Placed'
    BY <1>1, <2>1, <2>2 DEF IInv, Placed
  <2>5. QED BY <2>1, <2>3, <2>4 DEF IInv
<1>8. ASSUME got # <<>>, gptr > 1, gptr' = gptr - 1, got' = Front(got),
             UNCHANGED <<pend, wire, cells, egptr, written>>,
             stray' \in BOOLEAN,
             ~stray' => ~stray /\ cells[gptr - 1] = Last(got)
      PROVE  IInv'
  <2>1. /\ Len(got) \in Nat \ {0}
        /\ Last(got) = got[Len(got)]
        /\ got' \in Seq(Nat)
        /\ Len(got') = Len(got) - 1
        /\ \A j \in 1 .. Len(got) - 1 : got'[j] = got[j]
    BY <1>1, <1>8, Fronts DEF Types
  <2>2. Types'
    BY <1>1, <1>8, <2>1 DEF Types
  <2>3. ASSUME ~stray'
        PROVE  Placed'
    <3>1. Placed /\ cells[gptr - 1] = Len(got)
      BY <1>8, <2>1, <2>3 DEF IInv, Placed
    <3>2. \A j \in gptr - 1 .. egptr - 1 : j = gptr - 1 \/ j \in gptr .. egptr - 1
      BY <1>1
    <3>3. Len(got') + egptr' - gptr' = Len(got) + egptr - gptr
      BY <1>1, <1>8, <2>1
    <3>4. \A j \in gptr' .. egptr' - 1 : cells'[j] = Len(got') + 1 + j - gptr'
      <4>1. ASSUME NEW j \in gptr - 1 .. egptr - 1
            PROVE  cells[j] = Len(got) + 1 + j - gptr
        <5>1. CASE j = gptr - 1
          BY <1>1, <3>1, <5>1
        <5>2. CASE j \in gptr .. egptr - 1
          BY <3>1, <5>2 DEF Placed
        <5>3. QED BY <3>2, <5>1, <5>2
      <4>2. \A j \in gptr - 1 .. egptr - 1 :
              Len(got') + 1 + j - gptr' = Len(got) + 1 + j - gptr
        BY <1>1, <1>8, <2>1
      <4>3. QED BY <1>8, <4>1, <4>2
    <3>5. \A j \in 1 .. Len(got') : got'[j] = j
      BY <1>1, <2>1, <3>1 DEF Placed
    <3>6. QED BY <1>8, <3>1, <3>3, <3>4, <3>5 DEF Placed
  <2>4. QED BY <2>2, <2>3 DEF IInv
<1>9. CASE Putback
  BY <1>1, <1>8, <1>9 DEF Putback, Types
<1>10. CASE Unget
  <2>1. CASE got # <<>>
    <3>1. stray' = (stray \/ cells[gptr - 1] # Last(got))
      BY <1>10, <2>1 DEF Unget
    <3>2. stray' \in BOOLEAN /\ (~stray' => ~stray /\ cells[gptr - 1] = Last(got))
      BY <3>1, Zenon
    <3>3. QED BY <1>8, <1>10, <2>1, <3>2 DEF Unget
  <2>2. CASE got = <<>>
    <3>1. stray' = TRUE
      BY <1>10, <2>2 DEF Unget
    <3>2. Types'
      BY <1>1, <1>10, <2>2, <3>1 DEF Unget, Types
    <3>3. QED BY <3>1, <3>2 DEF IInv
  <2>3. QED BY <2>1, <2>2
<1>11. CASE UNCHANGED vars
  BY <1>11 DEF vars, IInv, Types, Placed
<1>12. QED
  BY <1>2, <1>3, <1>4, <1>6, <1>7, <1>9, <1>10, <1>11 DEF Next

(* The characters are in their places throughout.                          *)
THEOREM Invariance == Spec => []IInv
BY InitIInv, StepIInv, PTL DEF Spec

-----------------------------------------------------------------------------
(* Numbered from 1.                                                        *)
Numbered(s) == s \in Seq(Nat) /\ \A j \in 1 .. Len(s) : s[j] = j

(* A sequence that goes on where a numbered one ends.                      *)
LEMMA NumberedOn ==
  ASSUME NEW s, Numbered(s), NEW t \in Seq(Nat),
         \A j \in 1 .. Len(t) : t[j] = Len(s) + j
  PROVE  Numbered(s \o t) /\ Len(s \o t) = Len(s) + Len(t)
<1>1. /\ s \o t \in Seq(Nat)
      /\ Len(s \o t) = Len(s) + Len(t)
      /\ \A j \in 1 .. Len(s) : (s \o t)[j] = s[j]
      /\ \A j \in 1 .. Len(t) : (s \o t)[Len(s) + j] = t[j]
  BY Concatenated DEF Numbered
<1>2. ASSUME NEW j \in 1 .. Len(s \o t)
      PROVE  (s \o t)[j] = j
  <2>1. Len(s) \in Nat /\ Len(t) \in Nat
    BY DEF Numbered
  <2>2. CASE j \in 1 .. Len(s)
    BY <1>1, <2>2 DEF Numbered
  <2>3. CASE j \notin 1 .. Len(s)
    <3>1. j - Len(s) \in 1 .. Len(t) /\ j = Len(s) + (j - Len(s))
      BY <1>1, <2>1, <2>3
    <3>2. QED BY <1>1, <2>1, <3>1
  <2>4. QED BY <2>2, <2>3
<1>3. QED BY <1>1, <1>2 DEF Numbered

(* What was read, buffered for reading, under way and not yet flushed is   *)
(* all that was put, once and in order, for every size of the buffers and  *)
(* whatever _flush and _fill do (StreamBuf.h:40-75).                       *)
THEOREM CharactersKept == Spec => []NothingLostOrRepeated
<1>1. Types /\ Placed => got \o SubSeq(cells, gptr, egptr - 1) \o wire \o pend
                           = Numbers(1, written)
  <2> SUFFICES ASSUME Types, Placed
               PROVE  got \o SubSeq(cells, gptr, egptr - 1) \o wire \o pend
                        = Numbers(1, written)
    OBVIOUS
  <2> DEFINE area == SubSeq(cells, gptr, egptr - 1)
             a == got \o area
             b == a \o wire
             c == b \o pend
  <2>1. /\ Len(pend) \in Nat /\ Len(wire) \in Nat /\ Len(got) \in Nat
        /\ gptr \in Nat \ {0} /\ egptr \in Nat /\ gptr <= egptr
        /\ egptr - 1 <= PbackSz + BufSz
    BY DEF Types, Start
  <2>2. cells \in Seq(Nat) /\ Len(cells) = PbackSz + BufSz
    <3>1. \A n \in Nat : \A f \in [1 .. n -> Nat] : f \in Seq(Nat) /\ Len(f) = n
      OBVIOUS
    <3>2. PbackSz + BufSz \in Nat /\ cells \in [1 .. PbackSz + BufSz -> Nat]
      BY DEF Types, Cells
    <3>3. QED BY <3>1, <3>2, Zenon
  <2>3. /\ area \in Seq(Nat) /\ Len(area) = egptr - gptr
        /\ \A j \in 1 .. egptr - gptr : area[j] = cells[gptr + j - 1]
    BY <2>1, <2>2
  <2> HIDE DEF area
  <2>4. \A j \in 1 .. Len(area) : area[j] = Len(got) + j
    <3> SUFFICES ASSUME NEW j \in 1 .. Len(area)
                 PROVE  area[j] = Len(got) + j
      OBVIOUS
    <3>1. gptr + j - 1 \in gptr .. egptr - 1
      BY <2>1, <2>3
    <3>2. cells[gptr + j - 1] = Len(got) + 1 + (gptr + j - 1) - gptr
      BY <3>1 DEF Placed
    <3>3. QED BY <2>1, <2>3, <3>2
  <2>5. Numbered(got)
    BY DEF Numbered, Types, Placed
  <2>6. Numbered(a) /\ Len(a) = Len(got) + egptr - gptr
    <3>1. Numbered(a) /\ Len(a) = Len(got) + Len(area)
      BY <2>3, <2>4, <2>5, NumberedOn
    <3>2. QED BY <2>1, <2>3, <3>1
  <2> HIDE DEF a
  <2>7. Numbered(b) /\ Len(b) = Len(got) + egptr - gptr + Len(wire)
    <3>1. wire \in Seq(Nat) /\ \A j \in 1 .. Len(wire) : wire[j] = Len(a) + j
      BY <2>6 DEF Types, Placed
    <3>2. Numbered(b) /\ Len(b) = Len(a) + Len(wire)
      BY <2>6, <3>1, NumberedOn
    <3>3. QED BY <2>6, <3>2
  <2> HIDE DEF b
  <2>8. Numbered(c) /\ Len(c) = written
    <3>1. pend \in Seq(Nat) /\ \A j \in 1 .. Len(pend) : pend[j] = Len(b) + j
      BY <2>7 DEF Types, Placed
    <3>2. Numbered(c) /\ Len(c) = Len(b) + Len(pend)
      BY <2>7, <3>1, NumberedOn
    <3>3. QED BY <2>7, <3>2 DEF Placed
  <2> HIDE DEF c
  <2>9. c = [j \in 1 .. written |-> j]
    BY <2>8 DEF Numbered
  <2>10. written - 1 + 1 = written /\ \A j \in 1 .. written : 1 + j - 1 = j
    BY DEF Types
  <2>11. c = Numbers(1, written)
    BY <2>9, <2>10 DEF Numbers
  <2>12. QED BY <2>11 DEF a, b, c, area
<1>2. QED BY <1>1, Invariance, PTL DEF IInv, NothingLostOrRepeated

-----------------------------------------------------------------------------
(* Every step of the buffers is a step of the abstract stream, or none.    *)
LEMMA StepSimulates ==
  IInv /\ [Next]_vars => [Stream!Next]_(Stream!vars)
<1> SUFFICES ASSUME IInv, [Next]_vars
             PROVE  Stream!Next \/ UNCHANGED Stream!vars
  OBVIOUS
<1> USE DEF Stream!Next, Stream!vars, Stream!Break
<1>1. /\ Len(pend) \in Nat /\ Len(wire) \in Nat /\ Len(got) \in Nat
      /\ gptr \in Nat /\ egptr \in Nat /\ written \in Nat
      /\ Types
  BY DEF IInv, Types, Start
<1>2. CASE UNCHANGED vars
  BY <1>2 DEF vars, Overrun
<1>3. CASE Next /\ (stray' \/ Overrun')
  <2>1. (stray \/ Overrun)' = TRUE
    BY <1>3
  <2>2. QED BY <2>1
<1>4. CASE Next /\ ~stray' /\ ~Overrun'
  <2>1. ~Overrun /\ ~stray
    <3>1. CASE Unget
      <4>1. stray' = (stray \/ got = <<>> \/ cells[gptr - 1] # Last(got))
        BY <3>1 DEF Unget
      <4>2. ~stray
        BY <1>4, <4>1, Zenon
      <4>3. QED BY <1>4, <4>2 DEF Next
    <3>2. QED
      BY <1>4, <3>1 DEF Next, Put, Flush, GetBuffered, GetFilled, GetEof, Putback
  <2>2. Placed
    BY <2>1 DEF IInv
  <2>3. (stray \/ Overrun) = FALSE /\ (stray \/ Overrun)' = FALSE
    BY <1>4, <2>1
  <2>4. CASE Put
    <3>1. Len(pend) \in 0 .. BufSz
      BY <1>1, <2>1 DEF Overrun
    <3>2. Len(Append(pend, written + 1)) = Len(pend) + 1
      BY <1>1 DEF Types
    <3>3. CASE Len(pend) < BufSz
      BY <1>1, <2>3, <2>4, <3>2, <3>3 DEF Put, Stream!Send
    <3>4. CASE Len(pend) = BufSz
      <4>1. pend' = Append(pend, written + 1)
        BY <2>4, <3>2, <3>4 DEF Put, Overflow
      <4>2. Overrun'
        BY <3>2, <3>4, <4>1 DEF Overrun
      <4>3. QED BY <1>4, <4>2
    <3>5. Len(pend) < BufSz \/ Len(pend) = BufSz
      BY <3>1
    <3>6. QED BY <3>3, <3>4, <3>5, Zenon
  <2>5. CASE Flush
    <3>1. CASE pend' = <<>>
      <4>1. Len(pend') = 0
        BY <3>1
      <4>2. written' - Len(pend') = written
        BY <1>1, <2>5, <4>1 DEF Flush
      <4>3. QED BY <2>3, <2>5, <4>2 DEF Flush, Stream!Pass
    <3>2. CASE pend' = pend
      BY <2>3, <2>5, <3>2 DEF Flush
    <3>3. QED BY <2>5, <3>1, <3>2 DEF Flush, Sync
  <2>6. written - Len(pend) = Len(got) + egptr - gptr + Len(wire)
    BY <1>1, <2>2 DEF Placed
  <2>7. CASE GetBuffered
    <3>1. Len(got) < written - Len(pend)
      BY <1>1, <2>6, <2>7 DEF GetBuffered
    <3>2. cells[gptr] = Len(got) + 1
      BY <1>1, <2>2, <2>7 DEF GetBuffered, Placed
    <3>3. QED BY <2>3, <2>7, <3>1, <3>2 DEF GetBuffered, Stream!Receive
  <2>8. CASE GetFilled
    <3>1. PICK n \in 1 .. BufSz : n <= Len(wire) /\ Underflow(n)
      BY <2>8 DEF GetFilled
    <3>2. gptr = egptr /\ Len(wire) >= 1
      BY <1>1, <2>8, <3>1 DEF GetFilled
    <3>3. Len(got) < written - Len(pend)
      BY <1>1, <2>6, <3>2
    <3>4. wire[1] = Len(got) + 1
      BY <1>1, <2>2, <3>2 DEF Placed
    <3>5. cells'[Start] = wire[1]
      <4>1. /\ Start \in Cells /\ Start \in Start .. PbackSz + n
            /\ Start - PbackSz = 1
        BY DEF Start, Cells
      <4>2. QED BY <3>1, <4>1 DEF Underflow
    <3>6. QED BY <2>3, <2>8, <3>3, <3>4, <3>5 DEF GetFilled, Stream!Receive
  <2>9. CASE GetEof
    BY <2>3, <2>9 DEF GetEof
  <2>10. CASE Putback
    BY <2>3, <2>10 DEF Putback, Stream!Return, Front, Stream!Front
  <2>11. CASE Unget
    <3>1. got # <<>>
      BY <1>4, <2>11 DEF Unget
    <3>2. got' = Stream!Front(got)
      BY <2>11, <3>1 DEF Unget, Front, Stream!Front
    <3>3. QED BY <2>3, <2>11, <3>1, <3>2 DEF Unget, Stream!Return
  <2>12. QED
    BY <1>4, <2>4, <2>5, <2>7, <2>8, <2>9, <2>10, <2>11 DEF Next
<1>5. QED BY <1>2, <1>3, <1>4

(* The output buffer, the connection and the input buffer together         *)
(* implement the stream of characters, until overflow() or sungetc()       *)
(* breaks it (StreamBuf.h:22-85).                                          *)
THEOREM Refinement == Spec => ImplementsCharStream
<1>1. Init => Stream!Init
  <2> SUFFICES ASSUME Init
               PROVE  Stream!Init
    OBVIOUS
  <2>1. pend = <<>> /\ written = 0 /\ got = <<>> /\ stray = FALSE
    BY DEF Init
  <2>2. Len(pend) = 0 /\ ~Overrun
    BY <2>1 DEF Overrun
  <2>3. (stray \/ Overrun) = FALSE
    BY <2>1, <2>2
  <2>4. written - Len(pend) = 0
    <3>1. written = 0
      BY <2>1
    <3>2. Len(pend) = 0
      BY <2>2
    <3>3. QED BY <3>1, <3>2
  <2>5. QED BY <2>1, <2>3, <2>4 DEF Stream!Init
<1>2. QED
  BY <1>1, Invariance, StepSimulates, PTL DEF Spec, ImplementsCharStream, Stream!Spec
=============================================================================
