----------------------------- MODULE SockFN_proofs -----------------------------
(***************************************************************************)
(* A call of SockFN for every length of the resolver's list: its types,    *)
(* the sockets and lists that it leaves behind, and what it returns.       *)
(***************************************************************************)
EXTENDS SockFN, WellFoundedInduction, TLAPS

USE SockFNAssumption

-----------------------------------------------------------------------------
(* The least element of a set of numbers, as FiniteSetsExt chooses it.     *)
LEMMA MinOfNats ==
  ASSUME NEW S \in SUBSET Nat, S # {}
  PROVE  Min(S) \in S
<1> DEFINE R == {p \in Nat \X Nat : p[1] < p[2]}
<1>1. IsWellFoundedOn(R, Nat)
  <2>1. OpToRel(<, Nat) = R
    BY Zenon DEF OpToRel
  <2>2. QED BY <2>1, NatLessThanWellFounded, Zenon
<1>2. \A m, n \in Nat : m < n => <<m, n>> \in R
  OBVIOUS
<1> HIDE DEF R
<1>3. PICK x \in S : \A y \in S : ~ (<<y, x>> \in R)
  BY <1>1, WFMin, Zenon
<1>4. ASSUME NEW y \in S PROVE x <= y
  <2>1. x \in Nat /\ y \in Nat
    OBVIOUS
  <2>2. ~ (y < x)
    BY <1>2, <1>3, <2>1, Zenon
  <2>3. QED BY <2>1, <2>2
<1>5. QED BY <1>4 DEF Min

(* The lists of the resolver as sequences with a length.                   *)
LEMMA BoundedSeqs ==
  ASSUME NEW S
  PROVE  \A l : l \in BoundedSeq(S, MaxList) <=> l \in Seq(S) /\ Len(l) <= MaxList
<1>1. ASSUME NEW l \in BoundedSeq(S, MaxList)
      PROVE  l \in Seq(S) /\ Len(l) <= MaxList
  <2>1. PICK m \in 0 .. MaxList : l \in [1 .. m -> S]
    BY DEF BoundedSeq, SeqOf
  <2>2. QED BY <2>1
<1>2. ASSUME NEW l \in Seq(S), Len(l) <= MaxList
      PROVE  l \in BoundedSeq(S, MaxList)
  <2>1. Len(l) \in 0 .. MaxList /\ l \in [1 .. Len(l) -> S]
    BY <1>2
  <2>2. QED BY <2>1 DEF BoundedSeq, SeqOf
<1>3. QED BY <1>1, <1>2

(* The candidate that Listen() of a text takes is one of the list, and of  *)
(* AF_INET if there is one.                                                *)
LEMMA PreferredFacts ==
  ASSUME NEW l \in Seq(Families), l # <<>>
  PROVE  /\ Preferred(l) \in 1 .. Len(l)
         /\ Contains(l, "INET") => l[Preferred(l)] = "INET"
<1> DEFINE I == {i \in 1 .. Len(l) : l[i] = "INET"}
<1>1. CASE Contains(l, "INET")
  <2>1. Preferred(l) = IF I # {} THEN Min(I) ELSE 0
    BY <1>1 DEF Preferred, SelectInSeq
  <2>2. I \in SUBSET Nat /\ I # {}
    BY <1>1 DEF Contains
  <2>3. Min(I) \in I
    BY <2>2, MinOfNats
  <2>4. QED BY <2>1, <2>2, <2>3
<1>2. CASE ~Contains(l, "INET")
  <2>1. Preferred(l) = 1
    BY <1>2 DEF Preferred
  <2>2. QED BY <1>2, <2>1
<1>3. QED BY <1>1, <1>2

-----------------------------------------------------------------------------
(* The invariant. *)

Busy == {"socket", "connect", "listen"}
WithList == {"ConnectText", "ListenText"}

(* What is done next, by which function.                                   *)
Control ==
  /\ pc = "end" <=> result # "none"
  /\ pc \in {"start", "resolve"} => k = 1 /\ tried = {} /\ list = <<>>
  /\ pc = "resolve" => op \in TextOps
  /\ pc = "socket" => op \in Connects \cup Listens
  /\ pc = "connect" => op \in Connects
  /\ pc = "listen" => op \in Listens
  /\ pc \in Busy => k <= Len(list)

(* At most the socket of the candidate that is tried is there, and sfd has *)
(* it.                                                                     *)
Sockets ==
  /\ \A c \in Cands : sk[c] # "none" => c = sfd
  /\ pc \in {"start", "resolve", "socket"} => sfd = 0
  /\ pc \in {"connect", "listen"} => sfd = k
  /\ result \in {"threw", "terminated"} => sfd = 0

(* There is a list while its candidates are tried.                         *)
Lists ==
  /\ lists \in {0, 1}
  /\ result # "terminated" =>
       lists = (IF pc \in Busy /\ op \in WithList THEN 1 ELSE 0)

(* Which candidates were tried before, and which one is chosen.            *)
Order ==
  /\ op = "ConnectText" /\ pc \in Busy => tried = 1 .. (k - 1)
  /\ op = "ListenText" /\ pc \in Busy /\ Contains(list, "INET") => list[k] = "INET"
  /\ FirstThatConnects
  /\ ReturnsUsableSocket

IInv == TypeOK /\ Control /\ Sockets /\ Lists /\ Order

(* Before the first candidate nothing is there.                            *)
LEMMA InitInv == Init => IInv
<1> SUFFICES ASSUME Init PROVE IInv
  OBVIOUS
<1> USE DEF Init
<1>1. TypeOK
  <2>1. <<>> \in BoundedSeq(Families, MaxList)
    <3>1. <<>> \in Seq(Families) /\ Len(<<>>) <= MaxList
      OBVIOUS
    <3>2. QED BY <3>1, BoundedSeqs, Zenon
  <2>2. sk \in [Cands -> {"none", "fresh", "connecting", "connected", "listening"}]
    OBVIOUS
  <2>3. k \in Cands /\ sfd \in Cands \cup {0} /\ tried \in SUBSET Cands
    BY DEF Cands
  <2>4. list \in BoundedSeq(Families, MaxList)
    BY <2>1
  <2>5. QED BY <2>2, <2>3, <2>4 DEF TypeOK
<1>2. Control /\ Sockets /\ Lists /\ Order
  BY DEF Control, Sockets, Lists, Order, Busy, FirstThatConnects, ReturnsUsableSocket
<1>3. QED BY <1>1, <1>2 DEF IInv

-----------------------------------------------------------------------------
(* The ends of a call. *)

(* A call that returns frees its list and keeps the socket of candidate k. *)
LEMMA ReturnKeeps ==
  ASSUME IInv, pc \in {"connect", "listen"}, Return, NEW s,
         s = (IF op \in Connects THEN "connected" ELSE "listening"),
         sk' = [sk EXCEPT ![sfd] = s]
  PROVE  IInv'
<1> USE DEF IInv, Return
<1>1. /\ op \in Connects \cup Listens /\ sfd = k /\ k \in Cands
      /\ sk \in [Cands -> {"none", "fresh", "connecting", "connected", "listening"}]
      /\ s \in {"connected", "listening"}
  BY DEF Control, Sockets, TypeOK
<1>2. sk' \in [Cands -> {"none", "fresh", "connecting", "connected", "listening"}]
  BY <1>1
<1>3. TypeOK'
  BY <1>2 DEF TypeOK, Lists
<1>4. Control'
  BY DEF Control, Busy
<1>5. Sockets'
  BY <1>1, <1>2 DEF Sockets
<1>6. Lists'
  BY <1>1 DEF Lists, Busy, WithList, Control
<1>7. sk'[sfd'] = s /\ sfd' # 0
  BY <1>1 DEF Cands
<1>8. ReturnsUsableSocket'
  BY <1>1, <1>7 DEF ReturnsUsableSocket, Order, Busy, Connects, Listens
<1>9. FirstThatConnects' /\ Order'
  BY <1>1, <1>8 DEF Order, FirstThatConnects, Busy
<1>10. QED BY <1>3, <1>4, <1>5, <1>6, <1>9

(* Once sfd is closed no socket is open.                                   *)
LEMMA CloseKeeps ==
  ASSUME IInv, sk' = IF sfd = 0 THEN sk ELSE [sk EXCEPT ![sfd] = "none"]
  PROVE  /\ sk' \in [Cands -> {"none", "fresh", "connecting", "connected", "listening"}]
         /\ \A c \in Cands : sk'[c] = "none"
<1>1. /\ sk \in [Cands -> {"none", "fresh", "connecting", "connected", "listening"}]
      /\ \A c \in Cands : c # sfd => sk[c] = "none"
      /\ 0 \notin Cands /\ sfd \in Cands \cup {0}
  BY DEF IInv, TypeOK, Sockets, Cands
<1>2. CASE sfd = 0
  <2>1. sk' = sk
    BY <1>2
  <2>2. QED BY <1>1, <1>2, <2>1
<1>3. CASE sfd \in Cands
  <2>1. sk' = [sk EXCEPT ![sfd] = "none"]
    BY <1>1, <1>3
  <2>2. QED BY <1>1, <1>3, <2>1
<1>4. QED BY <1>1, <1>2, <1>3

(* A call that throws frees its list, unless it ends the program, and      *)
(* keeps no socket.                                                        *)
LEMMA ThrowKeeps ==
  ASSUME IInv, pc \in Busy, NEW closes \in BOOLEAN, Throw(closes),
         op = "ConnectText" /\ closes => k = Len(list)
  PROVE  IInv'
<1> USE DEF IInv, Throw
<1>1. /\ result = "none" /\ k \in Cands /\ sfd \in Cands \cup {0}
      /\ sk \in [Cands -> {"none", "fresh", "connecting", "connected", "listening"}]
      /\ op \in Connects \cup Listens
  BY DEF Control, TypeOK, Busy
<1>2. /\ sk' \in [Cands -> {"none", "fresh", "connecting", "connected", "listening"}]
      /\ \A c \in Cands : sk'[c] = "none"
  BY CloseKeeps
<1>3. result' \in {"threw", "terminated"}
  OBVIOUS
<1>4. TypeOK'
  BY <1>1, <1>2, <1>3 DEF TypeOK
<1>5. Control'
  BY <1>3 DEF Control, Busy
<1>6. Sockets'
  BY <1>2 DEF Sockets
<1>7. Lists'
  BY <1>1 DEF Lists, Busy, WithList
<1>8. FirstThatConnects'
  <2>1. CASE op = "ConnectText" /\ closes
    <3>1. tried = 1 .. (k - 1) /\ k = Len(list) /\ k \in Nat \ {0}
      BY <1>1, <2>1 DEF Order, Cands
    <3>2. tried' = 1 .. Len(list)
      BY <3>1
    <3>3. QED BY <1>3, <3>2 DEF FirstThatConnects
  <2>2. CASE op = "ConnectText" /\ ~closes
    BY <2>2 DEF FirstThatConnects
  <2>3. CASE op # "ConnectText"
    BY <2>3 DEF FirstThatConnects
  <2>4. QED BY <2>1, <2>2, <2>3
<1>9. Order'
  BY <1>3, <1>8 DEF Order, ReturnsUsableSocket, Busy
<1>10. QED BY <1>4, <1>5, <1>6, <1>7, <1>9

(* Whether there is a next candidate or not.                               *)
LEMMA NextCandidateKeeps ==
  ASSUME IInv, pc \in {"socket", "connect"}, NEW closes \in BOOLEAN,
         NextCandidate(closes)
  PROVE  IInv'
<1>1. CASE op = "ConnectText" /\ closes /\ k < Len(list)
  <2> USE DEF IInv
  <2>1. /\ k' = k + 1 /\ sfd' = 0 /\ tried' = tried \cup {k} /\ pc' = "socket"
        /\ sk' = IF sfd = 0 THEN sk ELSE [sk EXCEPT ![sfd] = "none"]
        /\ UNCHANGED <<op, list, lists, result>>
    BY <1>1 DEF NextCandidate
  <2>2. /\ k \in Nat \ {0} /\ k < Len(list) /\ k \in Cands /\ result = "none"
        /\ list \in BoundedSeq(Families, MaxList)
        /\ sfd \in Cands \cup {0}
        /\ sk \in [Cands -> {"none", "fresh", "connecting", "connected", "listening"}]
    BY <1>1 DEF TypeOK, Cands, Control
  <2>3. Len(list) \in Nat /\ Len(list) <= MaxList
    <3>1. list \in Seq(Families) /\ Len(list) <= MaxList
      BY <2>2, BoundedSeqs, Zenon
    <3>2. QED BY <3>1
  <2>4. k' \in Cands /\ k' <= Len(list)
    BY <2>1, <2>2, <2>3 DEF Cands
  <2>5. /\ sk' \in [Cands -> {"none", "fresh", "connecting", "connected", "listening"}]
        /\ \A c \in Cands : sk'[c] = "none"
    BY <2>1, CloseKeeps
  <2>6. TypeOK'
    BY <2>1, <2>2, <2>4, <2>5 DEF TypeOK
  <2>7. Control'
    BY <1>1, <2>1, <2>2, <2>4 DEF Control, Busy, Connects
  <2>8. Sockets'
    BY <2>1, <2>2, <2>5 DEF Sockets
  <2>9. Lists'
    BY <1>1, <2>1 DEF Lists, Busy, WithList
  <2>10. tried' = 1 .. (k' - 1)
    <3>1. tried = 1 .. (k - 1)
      BY <1>1 DEF Order, Busy
    <3>2. QED BY <2>1, <2>2, <3>1
  <2>11. Order'
    BY <1>1, <2>1, <2>2, <2>10 DEF Order, FirstThatConnects, ReturnsUsableSocket
  <2>12. QED BY <2>6, <2>7, <2>8, <2>9, <2>11
<1>2. CASE ~(op = "ConnectText" /\ closes /\ k < Len(list))
  <2>1. Throw(closes) /\ pc \in Busy
    BY <1>2 DEF NextCandidate, Busy
  <2>2. op = "ConnectText" /\ closes => k = Len(list)
    <3>1. list \in Seq(Families)
      BY BoundedSeqs, Zenon DEF IInv, TypeOK
    <3>2. k \in Nat /\ k <= Len(list)
      BY <2>1 DEF IInv, TypeOK, Control, Cands
    <3>3. QED BY <1>2, <3>1, <3>2
  <2>3. QED BY <2>1, <2>2, ThrowKeeps
<1>3. QED BY <1>1, <1>2

-----------------------------------------------------------------------------
(* The steps. *)

(* A call begins, and may be over at once.                                 *)
LEMMA CallAddrInv ==
  ASSUME IInv, CallAddr
  PROVE  IInv'
<1>1. PICK o \in {"ConnectAddr", "ListenAddr"}, f \in Families :
        /\ op' = o /\ list' = <<f>>
        /\ pc' = IF f = "other" THEN "end" ELSE "socket"
        /\ result' = IF f = "other" THEN "threw" ELSE "none"
        /\ UNCHANGED <<k, lists, sk, sfd, tried>>
        /\ pc = "start"
  BY DEF CallAddr
<1> USE DEF IInv
<1>2. list' \in BoundedSeq(Families, MaxList) /\ Len(list') = 1
  <2>1. list' \in Seq(Families) /\ Len(list') <= MaxList /\ Len(list') = 1
    BY <1>1
  <2>2. QED BY <2>1, BoundedSeqs, Zenon
<1>3. /\ k = 1 /\ sfd = 0 /\ tried = {} /\ lists = 0 /\ result = "none"
      /\ o \in Connects \cup Listens /\ o \in Ops /\ o \notin WithList
  BY <1>1 DEF Control, Sockets, Lists, Busy, Connects, Listens, Ops, WithList
<1>4. TypeOK'
  BY <1>1, <1>2, <1>3 DEF TypeOK
<1>5. Control'
  BY <1>1, <1>2, <1>3 DEF Control, Busy
<1>6. Sockets' /\ Lists'
  BY <1>1, <1>3 DEF Sockets, Lists
<1>7. Order'
  BY <1>1, <1>3 DEF Order, FirstThatConnects, ReturnsUsableSocket
<1>8. QED BY <1>4, <1>5, <1>6, <1>7

LEMMA CallTextInv ==
  ASSUME IInv, CallText
  PROVE  IInv'
<1>1. PICK o \in TextOps, form \in Forms, dfltsvc \in BOOLEAN, long \in BOOLEAN :
        LET route == Route(form, dfltsvc)
            bad == route = "malformed" \/ (route = "local" /\ long)
            single == o \in AddressOnly
        IN  /\ op' = CASE route = "local" /\ o = "ConnectText" -> "ConnectAddr"
                       [] route = "local" /\ o = "ListenText"  -> "ListenAddr"
                       [] OTHER                                -> o
            /\ list' = IF route = "local" THEN <<"LOCAL">> ELSE <<>>
            /\ pc' = IF bad \/ (route = "local" /\ single) THEN "end"
                     ELSE IF route = "local" THEN "socket" ELSE "resolve"
            /\ result' = IF bad THEN "threw"
                         ELSE IF route = "local" /\ single THEN "returned"
                         ELSE "none"
  BY DEF CallText
<1>2. pc = "start" /\ UNCHANGED <<k, lists, sk, sfd, tried>>
  BY DEF CallText
<1> DEFINE route == Route(form, dfltsvc)
<1>3. o \in {"ConnectText", "ListenText", "AddrList", "Assign"}
  BY DEF TextOps, Ops
<1>4. /\ \/ list' = <<"LOCAL">> /\ op' \in {"ConnectAddr", "ListenAddr"}
            /\ pc' = "socket" /\ result' = "none"
         \/ list' = <<"LOCAL">> /\ op' \in Ops \ WithList
            /\ pc' = "end" /\ result' = "threw"
         \/ list' = <<"LOCAL">> /\ op' \in AddressOnly
            /\ pc' = "end" /\ result' = "returned"
         \/ list' = <<>> /\ op' = o
            /\ pc' = "end" /\ result' = "threw"
         \/ list' = <<>> /\ op' = o
            /\ pc' = "resolve" /\ result' = "none"
  <2> HIDE DEF route
  <2>1. CASE route = "local"
    <3>1. /\ op' = CASE o = "ConnectText"  -> "ConnectAddr"
                     [] o = "ListenText"   -> "ListenAddr"
                     [] OTHER              -> o
          /\ list' = <<"LOCAL">>
          /\ pc' = IF long \/ o \in AddressOnly THEN "end" ELSE "socket"
          /\ result' = IF long THEN "threw"
                       ELSE IF o \in AddressOnly THEN "returned" ELSE "none"
      BY <1>1, <1>3, <2>1 DEF route
    <3>2. QED BY <1>3, <3>1 DEF AddressOnly, Ops, WithList
  <2>2. CASE route # "local"
    BY <1>1, <1>3, <2>2 DEF route
  <2>3. QED BY <2>1, <2>2
<1> USE DEF IInv
<1>5. list' \in BoundedSeq(Families, MaxList)
  <2>1. list' \in Seq(Families) /\ Len(list') <= MaxList
    <3>1. list' = <<"LOCAL">> \/ list' = <<>>
      BY <1>4
    <3>2. <<"LOCAL">> \in Seq(Families) /\ Len(<<"LOCAL">>) = 1
      BY DEF Families
    <3>3. <<>> \in Seq(Families) /\ Len(<<>>) = 0
      OBVIOUS
    <3>4. CASE list' = <<"LOCAL">>
      BY <3>2, <3>4
    <3>5. CASE list' = <<>>
      BY <3>3, <3>5
    <3>6. QED BY <3>1, <3>4, <3>5
  <2>2. QED BY <2>1, BoundedSeqs, Zenon
<1>6. k = 1 /\ sfd = 0 /\ tried = {} /\ lists = 0
  BY <1>2 DEF Control, Sockets, Lists, Busy
<1>7. TypeOK'
  BY <1>2, <1>3, <1>4, <1>5 DEF TypeOK, Ops, AddressOnly
<1>8. Control'
  BY <1>2, <1>3, <1>4, <1>6 DEF Control, Busy, TextOps, Ops, Connects, Listens
<1>9. Sockets'
  BY <1>2, <1>4, <1>6 DEF Sockets
<1>10. Lists'
  BY <1>2, <1>4, <1>6 DEF Lists, Busy, WithList
<1>11. Order'
  BY <1>2, <1>3, <1>4, <1>6
     DEF Order, FirstThatConnects, ReturnsUsableSocket, Busy, AddressOnly,
         Connects, Listens, WithList
<1>12. QED BY <1>7, <1>8, <1>9, <1>10, <1>11

(* The list of the resolver is that of the functions that try candidates.  *)
LEMMA ResolveInv ==
  ASSUME IInv, Resolve
  PROVE  IInv'
<1> USE DEF IInv
<1>1. /\ pc = "resolve" /\ UNCHANGED <<op, sk, sfd, tried>>
      /\ k = 1 /\ tried = {} /\ list = <<>> /\ sfd = 0 /\ lists = 0 /\ op \in TextOps
      /\ \A c \in Cands : sk[c] = "none"
  BY DEF Resolve, Control, Sockets, Lists, Busy, TypeOK, Cands
<1>2. CASE /\ result' \in {"threw", "returned"} /\ pc' = "end"
           /\ UNCHANGED <<list, k, lists>>
           /\ result' = "returned" => op = "AddrList"
  <2>1. TypeOK'
    BY <1>1, <1>2 DEF TypeOK
  <2>2. Control' /\ Sockets' /\ Lists'
    BY <1>1, <1>2 DEF Control, Sockets, Lists, Busy
  <2>3. Order'
    BY <1>1, <1>2
       DEF Order, FirstThatConnects, ReturnsUsableSocket, Busy, Connects, Listens
  <2>4. QED BY <2>1, <2>2, <2>3
<1>3. ASSUME NEW l \in BoundedSeq({"INET", "INET6"}, MaxList) \ {<<>>},
             list' = l,
             k' = IF op \in {"ListenText", "Assign"} THEN Preferred(l) ELSE 1,
             IF op \in AddressOnly
             THEN pc' = "end" /\ result' = "returned" /\ lists' = lists
             ELSE pc' = "socket" /\ result' = "none" /\ lists' = lists + 1
      PROVE  IInv'
  <2>1. l \in Seq({"INET", "INET6"}) /\ Len(l) <= MaxList /\ l # <<>>
    BY BoundedSeqs, Zenon
  <2>2. l \in Seq(Families)
    BY <2>1 DEF Families
  <2>3. l \in BoundedSeq(Families, MaxList)
    BY <2>1, <2>2, BoundedSeqs, Zenon
  <2>4. Len(l) \in 1 .. MaxList
    BY <2>1
  <2>5. /\ k' \in 1 .. Len(l)
        /\ op = "ListenText" /\ Contains(l, "INET") => l[k'] = "INET"
        /\ op = "ConnectText" => k' = 1
    <3>1. /\ Preferred(l) \in 1 .. Len(l)
          /\ Contains(l, "INET") => l[Preferred(l)] = "INET"
      BY <2>1, <2>2, PreferredFacts
    <3>2. 1 \in 1 .. Len(l)
      BY <2>4
    <3>3. QED BY <1>3, <3>1, <3>2
  <2>6. k' \in Cands /\ k' <= Len(l)
    BY <2>4, <2>5 DEF Cands
  <2>7. /\ op \in AddressOnly => pc' = "end" /\ result' = "returned" /\ lists' = 0
        /\ op \notin AddressOnly => pc' = "socket" /\ result' = "none" /\ lists' = 1
        /\ op \notin AddressOnly => op \in WithList
        /\ op \in AddressOnly => op \notin WithList \cup Connects \cup Listens
    BY <1>1, <1>3 DEF TextOps, Ops, AddressOnly, WithList, Connects, Listens
  <2>8. TypeOK'
    BY <1>1, <1>3, <2>3, <2>6, <2>7 DEF TypeOK
  <2>9. Control'
    BY <1>1, <1>3, <2>6, <2>7 DEF Control, Busy, WithList, Connects, Listens
  <2>10. Sockets' /\ Lists'
    BY <1>1, <2>7 DEF Sockets, Lists, Busy
  <2>11. Order'
    BY <1>1, <1>3, <2>5, <2>7
       DEF Order, FirstThatConnects, ReturnsUsableSocket, Busy, WithList
  <2>12. QED BY <2>8, <2>9, <2>10, <2>11
<1>4. QED BY <1>1, <1>2, <1>3 DEF Resolve

(* A socket for candidate k, or none.                                      *)
LEMMA SocketInv ==
  ASSUME IInv, Socket
  PROVE  IInv'
<1>1. CASE NextCandidate(TRUE)
  BY <1>1, NextCandidateKeeps DEF Socket
<1>2. CASE /\ sk' = [sk EXCEPT ![k] = "fresh"]
           /\ sfd' = k
           /\ pc' = IF op \in Connects THEN "connect" ELSE "listen"
           /\ UNCHANGED <<op, list, k, lists, tried, result>>
  <2> USE DEF IInv
  <2>1. /\ pc = "socket" /\ sfd = 0 /\ k \in Cands /\ result = "none"
        /\ op \in Connects \cup Listens
        /\ sk \in [Cands -> {"none", "fresh", "connecting", "connected", "listening"}]
        /\ \A c \in Cands : sk[c] = "none"
    BY DEF Socket, Sockets, Control, TypeOK, Cands
  <2>2. pc' \in {"connect", "listen"}
    BY <1>2
  <2>3. /\ sk' \in [Cands -> {"none", "fresh", "connecting", "connected", "listening"}]
        /\ \A c \in Cands : sk'[c] # "none" => c = k
    BY <1>2, <2>1
  <2>4. TypeOK'
    BY <1>2, <2>1, <2>2, <2>3 DEF TypeOK
  <2>5. Control'
    BY <1>2, <2>1 DEF Control, Busy
  <2>6. Sockets' /\ Lists'
    BY <1>2, <2>1, <2>2, <2>3 DEF Sockets, Lists, Busy
  <2>7. Order'
    BY <1>2, <2>1, <2>2 DEF Order, FirstThatConnects, ReturnsUsableSocket, Busy
  <2>8. QED BY <2>4, <2>5, <2>6, <2>7
<1>3. QED BY <1>1, <1>2 DEF Socket

(* A socket changes its state while a call is on it, or by the kernel.     *)
LEMMA SocketChanges ==
  ASSUME IInv, NEW c \in Cands, sk[c] \in {"fresh", "connecting"},
         NEW t \in {"connecting", "connected"}, sk' = [sk EXCEPT ![c] = t],
         result # "returned" \/ sk[c] = "connecting",
         UNCHANGED <<op, pc, list, k, lists, sfd, tried, result>>
  PROVE  IInv'
<1> USE DEF IInv
<1>1. /\ sk \in [Cands -> {"none", "fresh", "connecting", "connected", "listening"}]
      /\ c = sfd
  BY DEF TypeOK, Sockets
<1>2. /\ sk' \in [Cands -> {"none", "fresh", "connecting", "connected", "listening"}]
      /\ \A d \in Cands : sk'[d] # "none" => d = sfd
  BY <1>1 DEF Sockets
<1>3. TypeOK' /\ Control' /\ Sockets' /\ Lists'
  BY <1>2 DEF TypeOK, Control, Sockets, Lists
<1>4. ReturnsUsableSocket'
  <2>1. result = "returned" => op \notin Connects \cup Listens
    BY <1>1 DEF Order, ReturnsUsableSocket
  <2>2. QED BY <2>1 DEF ReturnsUsableSocket, Listens
<1>5. Order'
  BY <1>4 DEF Order, FirstThatConnects
<1>6. QED BY <1>3, <1>5

(* Every step of a call keeps the invariant.                               *)
LEMMA StepInv == IInv /\ [Next]_vars => IInv'
<1> SUFFICES ASSUME IInv, [Next]_vars PROVE IInv'
  OBVIOUS
<1>1. CASE Connected
  <2>1. op \in Connects /\ pc \in {"connect", "listen"}
    BY <1>1 DEF Connected, IInv, Control
  <2>2. QED BY <1>1, <2>1, ReturnKeeps DEF Connected
<1>2. CASE Refused
  <2>1. PICK closes \in BOOLEAN : NextCandidate(closes)
    BY <1>2 DEF Refused
  <2>2. QED BY <1>2, <2>1, NextCandidateKeeps DEF Refused
<1>3. CASE Listen
  <2>1. /\ op \in Listens /\ op \notin Connects /\ op # "ConnectText"
        /\ pc \in Busy /\ pc \in {"connect", "listen"}
    BY <1>3 DEF Listen, IInv, Control, Listens, Connects, Busy
  <2>2. CASE sk' = [sk EXCEPT ![sfd] = "listening"] /\ Return
    BY <2>1, <2>2, ReturnKeeps
  <2>3. CASE \E closes \in BOOLEAN : Throw(closes)
    BY <2>1, <2>3, ThrowKeeps
  <2>4. QED BY <1>3, <2>2, <2>3 DEF Listen
<1>4. CASE Interrupted
  <2>1. sfd \in Cands /\ result # "returned"
    BY <1>4 DEF Interrupted, IInv, Control, Sockets, TypeOK
  <2>2. QED BY <1>4, <2>1, SocketChanges DEF Interrupted
<1>5. CASE Established
  BY <1>5, SocketChanges DEF Established
<1>6. CASE UNCHANGED vars
  BY <1>6 DEF vars, IInv, TypeOK, Control, Sockets, Lists, Order,
              FirstThatConnects, ReturnsUsableSocket
<1>7. QED
  BY <1>1, <1>2, <1>3, <1>4, <1>5, <1>6, CallAddrInv, CallTextInv, ResolveInv,
     SocketInv DEF Next, Step, Over

LEMMA Invariance == Spec => []IInv
BY InitInv, StepInv, PTL DEF Spec

-----------------------------------------------------------------------------
(* The state of a call is well formed, for any bound on the list.          *)
THEOREM TypeCorrect == Spec => []TypeOK
<1>1. IInv => TypeOK
  BY DEF IInv
<1>2. QED BY <1>1, Invariance, PTL

(* However long the list and whatever fails, only the socket in sfd is     *)
(* open, and none after an exception (Sock.cpp:879-1058).                  *)
THEOREM SocketsClosed == Spec => []NoSocketLeft
<1>1. IInv => NoSocketLeft
  BY DEF IInv, Sockets, NoSocketLeft, OpenSockets, Cands
<1>2. QED BY <1>1, Invariance, PTL

(* The addrinfo list is freed once on every way out that does not end the  *)
(* program (Sock.cpp:935-961, 1029-1057).                                  *)
THEOREM ListFreed == Spec => []ListFreedOnce
<1>1. IInv => ListFreedOnce
  BY DEF IInv, Lists, Control, Busy, ListFreedOnce
<1>2. QED BY <1>1, Invariance, PTL

(* The socket that is returned is connected, or listens on the candidate   *)
(* it is to listen on (Sock.cpp:888-897, 950-958, 1039-1051).              *)
THEOREM UsableReturned == Spec => []ReturnsUsableSocket
<1>1. IInv => ReturnsUsableSocket
  BY DEF IInv, Order
<1>2. QED BY <1>1, Invariance, PTL

(* Connect of a text takes the first candidate that will do, and throws    *)
(* only after the last (Sock.cpp:942-969).                                 *)
THEOREM FirstTaken == Spec => []FirstThatConnects
<1>1. IInv => FirstThatConnects
  BY DEF IInv, Order
<1>2. QED BY <1>1, Invariance, PTL

=============================================================================
