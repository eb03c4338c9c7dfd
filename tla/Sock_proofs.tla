------------------------------ MODULE Sock_proofs ------------------------------
(***************************************************************************)
(* The owners of the descriptors of a BasicSock, for any bound on the      *)
(* characters.                                                             *)
(***************************************************************************)
EXTENDS Sock, TLAPS

USE DEF Dirs, Nowhere

(* How the object and its maker stand in each part of its life.            *)
Phase ==
  /\ life = "none" => /\ open = held
                      /\ strm = Nowhere
                      /\ owned = {}
  /\ life \in {"alive", "ending", "gone"} => held = {}
  /\ made # "descriptor" =>
       \A d \in Dirs : strm[d] # "none" => d \in owned
  /\ life \in {"alive", "ending"} =>
       \A d \in Dirs : ptr[d] = "eof" => d \notin owned
  /\ life \in {"alive", "ending", "gone"} =>
       \A d \in Dirs : ptr[d] \in {"eof", "stream"}
  /\ life \in {"ending", "gone"} => ptr["out"] = "eof" /\ "out" \notin owned
  /\ life = "gone" => ptr["in"] = "eof" /\ "in" \notin owned
  /\ life = "threw" => /\ made = "descriptor"
                       /\ owned = {}
                       /\ strm["in"] = "none"

IInv == TypeOK /\ OneOwner /\ Phase

(* In the state in which the program starts there is nothing to own.       *)
LEMMA InitIInv == Init => IInv
BY SockAssumption DEF Init, IInv, TypeOK, OneOwner, Phase

(* Written or not, the characters stay within the bound.                   *)
LEMMA WrittenFacts ==
  ASSUME TypeOK, Written
  PROVE  buf' \in 0 .. MaxChars /\ got' \in 0 .. MaxChars - buf' /\ up' \in BOOLEAN
<1>1. up' \in BOOLEAN
  BY Zenon DEF TypeOK, Written
<1>2. QED BY <1>1, SockAssumption DEF TypeOK, Written

LEMMA NotWrittenFacts ==
  ASSUME TypeOK, NEW certain \in BOOLEAN, NotWritten(certain)
  PROVE  buf' \in 0 .. MaxChars /\ got' \in 0 .. MaxChars - buf' /\ up' \in BOOLEAN
<1>1. up' \in BOOLEAN
  <2>1. up' \in {ignore, TRUE}
    BY DEF NotWritten
  <2>2. QED BY <2>1, Zenon DEF TypeOK
<1>2. QED BY <1>1 DEF TypeOK, NotWritten

(* Deleting a stream that the unique_ptr has closes its descriptor.        *)
Deleted(d) ==
  /\ owned' = owned \ {d}
  /\ IF d \in owned
     THEN strm' = [strm EXCEPT ![d] = "none"] /\ open' = open \ {d}
     ELSE strm' = strm /\ open' = open
  /\ buf' \in 0 .. MaxChars
  /\ got' \in 0 .. MaxChars - buf'
  /\ up' \in BOOLEAN

LEMMA DeleteFacts ==
  ASSUME TypeOK, NEW d \in Dirs, Delete(d)
  PROVE  Deleted(d)
<1>1. \/ UNCHANGED <<buf, got, up>>
      \/ Written
      \/ \E certain \in BOOLEAN : NotWritten(certain)
  BY Zenon DEF Delete
<1>2. buf' \in 0 .. MaxChars /\ got' \in 0 .. MaxChars - buf' /\ up' \in BOOLEAN
  <2>1. CASE UNCHANGED <<buf, got, up>>
    <3>1. up' \in BOOLEAN
      BY <2>1, Zenon DEF TypeOK
    <3>2. QED BY <2>1, <3>1 DEF TypeOK
  <2>2. QED BY <1>1, <2>1, WrittenFacts, NotWrittenFacts
<1>3. QED BY <1>2 DEF Delete, Deleted

(* What every step preserves.                                              *)
LEMMA StepIInv == IInv /\ [Next]_vars => IInv'
<1> SUFFICES ASSUME IInv, [Next]_vars PROVE IInv'
  OBVIOUS
<1> USE SockAssumption DEF IInv, TypeOK, OneOwner, Phase
<1>1. CASE MakeDefault
  BY <1>1 DEF MakeDefault, Streams, kernel, data
<1>2. CASE MakeFromBufs
  BY <1>2 DEF MakeFromBufs, Streams, kernel, data
<1>3. CASE MakeFromStreams
  BY <1>3 DEF MakeFromStreams, Streams, data
<1>4. CASE ClientConnects
  BY <1>4 DEF ClientConnects, heap, data
<1>5. CASE MakeFromFD
  BY <1>5 DEF MakeFromFD, NewStreams, OpenAfter, Fates, data
<1>6. CASE MakeFromAddr
  BY <1>6 DEF MakeFromAddr, NewStreams, OpenAfter, Fates, data
<1>7. CASE Put
  BY <1>7 DEF Put, heap, kernel
<1>8. CASE Flush
  <2>1. \/ Written
        \/ \E certain \in BOOLEAN : NotWritten(certain)
    BY <1>8, Zenon DEF Flush
  <2>2. buf' \in 0 .. MaxChars /\ got' \in 0 .. MaxChars - buf' /\ up' \in BOOLEAN
    BY <2>1, WrittenFacts, NotWrittenFacts
  <2>3. UNCHANGED <<life, made, heap, err, held, kernel, ignore>>
    BY <1>8 DEF Flush
  <2>4. QED BY <2>2, <2>3 DEF heap, kernel
<1>9. CASE ClientShutsRd
  <2>1. Delete("in")
    BY <1>9 DEF ClientShutsRd, ShutRd
  <2>2. Deleted("in")
    BY <2>1, DeleteFacts
  <2>3. TypeOK'
    BY <1>9, <2>2 DEF ClientShutsRd, ShutRd, Shutdown, Deleted
  <2>4. OneOwner'
    BY <1>9, <2>2 DEF ClientShutsRd, Deleted
  <2>5. Phase'
    BY <1>9, <2>2 DEF ClientShutsRd, ShutRd, Deleted
  <2>6. QED BY <2>3, <2>4, <2>5
<1>10. CASE ClientShutsWr
  <2>1. Delete("out")
    BY <1>10 DEF ClientShutsWr, ShutWr
  <2>2. Deleted("out")
    BY <2>1, DeleteFacts
  <2>3. TypeOK'
    BY <1>10, <2>2 DEF ClientShutsWr, ShutWr, Shutdown, Deleted
  <2>4. OneOwner'
    BY <1>10, <2>2 DEF ClientShutsWr, Deleted
  <2>5. Phase'
    BY <1>10, <2>2 DEF ClientShutsWr, ShutWr, Deleted
  <2>6. QED BY <2>3, <2>4, <2>5
<1>11. CASE BeginDestroy
  <2>1. CASE ptr["out"] = "stream"
    <3>1. Delete("out")
      BY <1>11, <2>1 DEF BeginDestroy, ShutWr
    <3>2. Deleted("out")
      BY <3>1, DeleteFacts
    <3>3. TypeOK'
      <4>1. ShutWr /\ life' = "ending" /\ UNCHANGED <<made, held, file, peer, ignore>>
        BY <1>11, <2>1 DEF BeginDestroy
      <4>2. QED BY <3>2, <4>1 DEF ShutWr, Shutdown, Deleted
    <3>4. OneOwner'
      BY <1>11, <2>1, <3>2 DEF BeginDestroy, Deleted
    <3>5. Phase'
      BY <1>11, <2>1, <3>2 DEF BeginDestroy, ShutWr, Deleted
    <3>6. QED BY <3>3, <3>4, <3>5
  <2>2. CASE ptr["out"] # "stream"
    BY <1>11, <2>2 DEF BeginDestroy, heap
  <2>3. QED BY <2>1, <2>2
<1>12. CASE FinishDestroy
  <2>1. CASE ptr["in"] = "stream"
    <3>1. Delete("in")
      BY <1>12, <2>1 DEF FinishDestroy, ShutRd
    <3>2. Deleted("in")
      BY <3>1, DeleteFacts
    <3>3. TypeOK'
      <4>1. ShutRd /\ life' = "gone" /\ UNCHANGED <<made, held, file, peer, ignore>>
        BY <1>12, <2>1 DEF FinishDestroy
      <4>2. QED BY <3>2, <4>1 DEF ShutRd, Shutdown, Deleted
    <3>4. OneOwner'
      BY <1>12, <2>1, <3>2 DEF FinishDestroy, Deleted
    <3>5. Phase'
      BY <1>12, <2>1, <3>2 DEF FinishDestroy, ShutRd, Deleted
    <3>6. QED BY <3>3, <3>4, <3>5
  <2>2. CASE ptr["in"] # "stream"
    BY <1>12, <2>2 DEF FinishDestroy, heap
  <2>3. QED BY <2>1, <2>2
<1>13. CASE ClientCloses
  BY <1>13 DEF ClientCloses, heap, data
<1>14. CASE PeerGoes
  BY <1>14 DEF PeerGoes, heap, data
<1>15. CASE UNCHANGED vars
  BY <1>15 DEF vars, heap, kernel, data
<1> QED
  BY <1>1, <1>2, <1>3, <1>4, <1>5, <1>6, <1>7, <1>8, <1>9, <1>10, <1>11,
     <1>12, <1>13, <1>14, <1>15 DEF Next

(* The invariant holds throughout.                                         *)
THEOREM Invariance == Spec => []IInv
BY InitIInv, StepIInv, PTL DEF Spec

(* The state of Sock is well formed.                                       *)
THEOREM TypeCorrect == Spec => []TypeOK
<1>1. IInv => TypeOK
  BY DEF IInv
<1> QED
  BY <1>1, Invariance, PTL

(* Every open descriptor has exactly one of the client and a stream to     *)
(* close it, and nobody holds a closed one, whatever the constructor did   *)
(* before it threw and in whatever order the directions are shut.          *)
THEOREM DescriptorsOwned == Spec => []OneOwner
<1>1. IInv => OneOwner
  BY DEF IInv
<1> QED
  BY <1>1, Invariance, PTL

(* Only streams that _BasicSock(int) made keep their descriptor for ever.  *)
THEOREM LeaksConfined == Spec => []LeaksOnlyNewStreams
<1>1. IInv => LeaksOnlyNewStreams
  BY DEF IInv, TypeOK, OneOwner, Phase, LeaksOnlyNewStreams
<1> QED
  BY <1>1, Invariance, PTL

-----------------------------------------------------------------------------
(* The output and its end.                                                 *)
Ending ==
  /\ "in" \notin err
  /\ life = "none" => ptr["out"] = "none" /\ file["out"] = "none"
  /\ ptr["out"] = "none" => err = {}
  /\ ptr["out"] = "stream" =>
       /\ "out" \notin err
       /\ file["out"] # "none" => strm["out"] = "FDStream"
  /\ made = "descriptor" => file["out"] # "pipe"
  /\ ptr["out"] = "eof" =>
       /\ file["out"] = "pipe" => "out" \notin open
       /\ file["out"] = "socket" => "out" \in err \cup shut
       /\ "out" \in err => peer = "gone"

LEMMA InitEnding == Init => Ending
BY DEF Init, Ending

(* The output is shut once, while its stream has its descriptor.           *)
LEMMA ShutWrEnds ==
  ASSUME IInv, Ending, ptr["out"] = "stream", life = "alive", ShutWr,
         UNCHANGED <<made, file, peer>>, life' # "none"
  PROVE  Ending'
<1>1. Delete("out") /\ Shutdown("out")
  BY DEF ShutWr
<1>2. Deleted("out")
  BY <1>1, DeleteFacts DEF IInv
<1>3. file["out"] # "none" => "out" \in open
  BY DEF IInv, OneOwner, Ending
<1>4. file["out"] = "pipe" => "out" \in owned
  BY DEF IInv, Phase, Ending
<1>5. file["out"] = "pipe" => "out" \notin open'
  BY <1>2, <1>4 DEF Deleted
<1>6. ptr'["out"] = "eof"
  BY DEF ShutWr, IInv, TypeOK
<1>7. "out" \in err' => peer = "gone"
  BY <1>2, <1>3 DEF ShutWr, IInv, OneOwner, Ending, TypeOK
<1>8. file["out"] = "socket" => "out" \in err' \cup shut'
  BY <1>1 DEF ShutWr, Shutdown, Ending, IInv, TypeOK
<1>9. made = "descriptor" => file["out"] # "pipe"
  BY DEF Ending
<1>10. "in" \notin err'
  BY DEF ShutWr, Ending
<1> QED
  BY <1>5, <1>6, <1>7, <1>8, <1>9, <1>10 DEF Ending

(* shutrd() leaves the output alone.                                       *)
LEMMA ShutRdEnds ==
  ASSUME IInv, Ending, ShutRd, UNCHANGED <<made, file, peer>>,
         life # "none", life' # "none"
  PROVE  Ending'
<1>1. Delete("in") /\ Shutdown("in")
  BY DEF ShutRd
<1>2. Deleted("in")
  BY <1>1, DeleteFacts DEF IInv
<1>3. ptr'["out"] = ptr["out"] /\ strm'["out"] = strm["out"]
  BY <1>2 DEF ShutRd, Deleted, IInv, TypeOK
<1>4. open' \subseteq open /\ shut \subseteq shut'
  BY <1>1, <1>2 DEF Deleted, Shutdown
<1>5. strm["in"] = "FDStream" => "in" \in open
  BY DEF IInv, OneOwner
<1>6. err' = err
  BY <1>5 DEF ShutRd
<1> QED
  BY <1>3, <1>4, <1>6 DEF Ending

LEMMA StepEnding == IInv /\ Ending /\ [Next]_vars => Ending'
<1> SUFFICES ASSUME IInv, Ending, [Next]_vars PROVE Ending'
  OBVIOUS
<1> USE DEF IInv, TypeOK, Phase, Ending
<1>1. CASE MakeDefault
  BY <1>1 DEF MakeDefault, Streams, kernel
<1>2. CASE MakeFromBufs
  BY <1>2 DEF MakeFromBufs, Streams, kernel
<1>3. CASE MakeFromStreams
  BY <1>3 DEF MakeFromStreams, Streams
<1>4. CASE ClientConnects
  BY <1>4 DEF ClientConnects, heap
<1>5. CASE MakeFromFD
  BY <1>5 DEF MakeFromFD, NewStreams, Fates
<1>6. CASE MakeFromAddr
  BY <1>6 DEF MakeFromAddr, NewStreams, Fates
<1>7. CASE Put \/ Flush
  BY <1>7 DEF Put, Flush, heap, kernel
<1>8. CASE ClientShutsRd
  BY <1>8, ShutRdEnds DEF ClientShutsRd
<1>9. CASE ClientShutsWr
  BY <1>9, ShutWrEnds DEF ClientShutsWr
<1>10. CASE BeginDestroy
  BY <1>10, ShutWrEnds DEF BeginDestroy, heap
<1>11. CASE FinishDestroy
  BY <1>11, ShutRdEnds DEF FinishDestroy, heap
<1>12. CASE ClientCloses
  BY <1>12 DEF ClientCloses, heap
<1>13. CASE PeerGoes
  BY <1>13 DEF PeerGoes, heap
<1>14. CASE UNCHANGED vars
  BY <1>14 DEF vars, heap, kernel
<1> QED
  BY <1>1, <1>2, <1>3, <1>4, <1>5, <1>6, <1>7, <1>8, <1>9, <1>10, <1>11,
     <1>12, <1>13, <1>14 DEF Next

(* Once the output is shut the peer sees its end, or was gone by then,     *)
(* although the descriptor may stay open, and shutrd() never fails.        *)
THEOREM EndArrives == Spec => []EndReachesPeer
<1>1. IInv /\ Ending => EndReachesPeer
  BY DEF IInv, TypeOK, Ending, EndReachesPeer, PeerSeesEnd
<1> QED
  BY <1>1, Invariance, InitEnding, StepEnding, PTL DEF Spec

-----------------------------------------------------------------------------
(* Where output can be buffered, and in which kind of stream.              *)
Buffered ==
  /\ life = "none" => made = "none" /\ file["out"] = "none"
  /\ life \in {"none", "threw"} => ptr["out"] = "none" /\ buf = 0
  /\ ptr["out"] = "stream" => strm["out"] # "none"
  /\ strm["out"] = "FDStream" => file["out"] # "none"
  /\ file["out"] = "pipe" => made = "streams"
  /\ made = "streams" => strm["out"] # "buf"
  /\ made = "bufs" => strm["out"] # "FDStream"
  /\ "out" \in owned => made \in {"bufs", "streams"}

Late == Buffered /\ LateOutput

LEMMA InitLate == Init => Late
BY DEF Init, Late, Buffered, LateOutput

(* Without a signal the program goes on.                                   *)
LEMMA NotWrittenKills ==
  ASSUME TypeOK, NEW certain, NotWritten(certain)
  PROVE  buf' = buf /\ (~up' => ~ignore)
<1>1. up' \in {ignore, TRUE}
  BY DEF NotWritten
<1>2. ~up' => ~ignore
  BY <1>1, Zenon
<1>3. QED BY <1>2 DEF NotWritten

(* The output is shut: what it leaves is lost only where LateOutput says.  *)
LEMMA ShutWrLate ==
  ASSUME IInv, Late, up, ShutWr, ptr["out"] = "stream", life = "alive",
         UNCHANGED <<made, file, peer, ignore>>, life' \in {"alive", "ending"}
  PROVE  Late'
<1>1. Delete("out") /\ ptr'["out"] = "eof"
  BY DEF ShutWr, IInv, TypeOK
<1>2. owned' \subseteq owned
  BY <1>1 DEF Delete
<1>3. strm'["out"] \in {strm["out"], "none"}
  BY <1>1 DEF Delete, IInv, TypeOK
<1>4. Buffered'
  BY <1>1, <1>2, <1>3 DEF Late, Buffered
<1>5. LateOutput'
  <2>1. CASE "out" \notin owned
    <3>1. buf' = buf /\ up' = up
      BY <1>1, <2>1 DEF Delete
    <3>2. strm["out"] # "none" /\ made # "streams" /\ file["out"] # "pipe"
      BY <2>1 DEF IInv, Phase, Late, Buffered
    <3>3. QED BY <3>1, <3>2 DEF LateOutput
  <2>2. CASE "out" \in owned /\ (strm["out"] = "buf" \/ buf = 0)
    <3>1. UNCHANGED <<buf, got, up>>
      BY <1>1, <2>2 DEF Delete
    <3>2. file["out"] = "pipe" => buf = 0
      BY <2>2 DEF Late, Buffered
    <3>3. QED BY <3>1, <3>2 DEF LateOutput
  <2>3. CASE "out" \in owned /\ strm["out"] # "buf" /\ buf # 0
    <3>1. buf > 0 /\ made = "streams" /\ file["out"] # "none"
      BY <2>3 DEF IInv, TypeOK, Late, Buffered
    <3>2. IF file["out"] = "pipe" /\ peer = "there"
          THEN Written
          ELSE NotWritten(file["out"] = "pipe" \/ peer = "there")
      BY <1>1, <2>3 DEF Delete
    <3>3. CASE file["out"] = "pipe" /\ peer = "there"
      BY <3>2, <3>3 DEF Written, LateOutput
    <3>4. CASE ~(file["out"] = "pipe" /\ peer = "there")
      <4>1. buf' = buf /\ (~up' => ~ignore)
        BY <3>2, <3>4, NotWrittenKills DEF IInv
      <4>2. peer = "gone" \/ file["out"] = "socket"
        BY <3>1, <3>4 DEF IInv, TypeOK
      <4>3. file["out"] = "pipe" => peer = "gone"
        BY <3>4 DEF IInv, TypeOK
      <4>4. QED BY <3>1, <4>1, <4>2, <4>3 DEF LateOutput
    <3>5. QED BY <3>3, <3>4
  <2>4. QED BY <2>1, <2>2, <2>3
<1>6. QED BY <1>4, <1>5 DEF Late

(* shutrd() leaves the output and what is buffered alone.                  *)
LEMMA ShutRdLate ==
  ASSUME IInv, Late, up, ShutRd, UNCHANGED <<made, file, peer, ignore>>,
         life \in {"alive", "ending"}, life' \notin {"none", "threw"}
  PROVE  Late'
<1>1. Delete("in")
  BY DEF ShutRd
<1>2. UNCHANGED <<buf, got, up>> /\ owned' \subseteq owned
  BY <1>1 DEF Delete
<1>3. ptr'["out"] = ptr["out"] /\ strm'["out"] = strm["out"]
  BY <1>1 DEF ShutRd, Delete, IInv, TypeOK
<1>4. QED BY <1>2, <1>3 DEF Late, Buffered, LateOutput

LEMMA StepLate == IInv /\ Late /\ [Next]_vars => Late'
<1> SUFFICES ASSUME IInv, Late, [Next]_vars PROVE Late'
  OBVIOUS
<1>1. CASE UNCHANGED vars
  BY <1>1 DEF vars, heap, kernel, data, Late, Buffered, LateOutput
<1>2. CASE Next
  <2> USE <1>2
  <2>1. up
    BY DEF Next
  <2>2. CASE MakeDefault \/ MakeFromBufs \/ MakeFromStreams
    <3>1. /\ life = "none" /\ life' = "alive"
          /\ UNCHANGED data
          /\ made' \in {"default", "bufs", "streams"}
      BY <2>2 DEF MakeDefault, MakeFromBufs, MakeFromStreams, Streams
    <3>2. buf' = 0 /\ up'
      BY <2>1, <3>1 DEF Late, Buffered, data
    <3>3. Buffered'
      BY <2>2, <3>1, <3>2
         DEF MakeDefault, MakeFromBufs, MakeFromStreams, Streams, kernel, Late,
             Buffered, IInv, TypeOK
    <3>4. QED BY <3>2, <3>3 DEF Late, LateOutput
  <2>3. CASE MakeFromFD \/ MakeFromAddr
    <3>1. PICK fate \in Fates : NewStreams(fate)
      BY <2>3 DEF MakeFromFD, MakeFromAddr
    <3>2. life = "none" /\ made' = "descriptor" /\ UNCHANGED data
      BY <2>3 DEF MakeFromFD, MakeFromAddr
    <3>3. buf' = 0 /\ up'
      BY <2>1, <3>2 DEF Late, Buffered, data
    <3>4. Buffered'
      BY <3>1, <3>2, <3>3 DEF NewStreams, Fates, Late, Buffered
    <3>5. QED BY <3>3, <3>4 DEF Late, LateOutput
  <2>4. CASE ClientConnects
    BY <2>4 DEF ClientConnects, heap, data, Late, Buffered, LateOutput, IInv, TypeOK
  <2>5. CASE Put
    BY <2>1, <2>5 DEF Put, heap, kernel, Late, Buffered, LateOutput
  <2>6. CASE Flush
    <3>1. /\ ptr["out"] = "stream" /\ buf > 0
          /\ UNCHANGED <<life, made, ptr, owned, strm, file, peer, ignore>>
      BY <2>6 DEF Flush, heap, kernel
    <3>2. CASE Written
      BY <2>1, <3>1, <3>2 DEF Written, Late, Buffered, LateOutput
    <3>3. CASE peer # "there" /\ NotWritten(file["out"] = "pipe")
      <4>1. buf' = buf /\ (~up' => ~ignore)
        BY <3>3, NotWrittenKills DEF IInv
      <4>2. peer = "gone"
        BY <3>3 DEF IInv, TypeOK
      <4>3. QED BY <3>1, <4>1, <4>2 DEF Late, Buffered, LateOutput
    <3>4. QED BY <2>6, <3>2, <3>3 DEF Flush
  <2>7. CASE ClientShutsRd
    BY <2>1, <2>7, ShutRdLate DEF ClientShutsRd
  <2>8. CASE ClientShutsWr
    BY <2>1, <2>8, ShutWrLate DEF ClientShutsWr
  <2>9. CASE BeginDestroy
    <3>1. CASE ptr["out"] = "stream"
      BY <2>1, <2>9, <3>1, ShutWrLate DEF BeginDestroy
    <3>2. CASE ptr["out"] # "stream"
      BY <2>9, <3>2 DEF BeginDestroy, heap, Late, Buffered, LateOutput
    <3>3. QED BY <3>1, <3>2
  <2>10. CASE FinishDestroy
    <3>1. CASE ptr["in"] = "stream"
      BY <2>1, <2>10, <3>1, ShutRdLate DEF FinishDestroy
    <3>2. CASE ptr["in"] # "stream"
      BY <2>10, <3>2 DEF FinishDestroy, heap, Late, Buffered, LateOutput
    <3>3. QED BY <3>1, <3>2
  <2>11. CASE ClientCloses
    BY <2>11 DEF ClientCloses, heap, data, Late, Buffered, LateOutput
  <2>12. CASE PeerGoes
    BY <2>12 DEF PeerGoes, heap, data, Late, Buffered, LateOutput
  <2>13. QED
    BY <2>2, <2>3, <2>4, <2>5, <2>6, <2>7, <2>8, <2>9, <2>10, <2>11, <2>12
       DEF Next
<1>3. QED BY <1>1, <1>2

(* What was not flushed before the output is shut reaches a pipe, and a    *)
(* SIGPIPE ends the program only where LateOutput says (Sock.h:370, 379).  *)
THEOREM LateOutputConfined == Spec => []LateOutput
<1>1. Late => LateOutput
  BY DEF Late
<1> QED
  BY <1>1, Invariance, InitLate, StepLate, PTL DEF Spec
===============================================================================
