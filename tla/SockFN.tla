-------------------------------- MODULE SockFN --------------------------------
(***************************************************************************)
(* One call of the address functions of SockFN (src/src/Sock.cpp:753-1058) *)
(* or of the assignment of a text to a SockAddr (Sock.cpp:58-120): an      *)
(* address is routed to a socket family, resolved to a list of candidates, *)
(* and sockets are created, connected or bound until one will do.          *)
(*                                                                         *)
(* The resolver and the kernel answer what they like.  A signal may        *)
(* interrupt ::connect any number of times, and a connection whose         *)
(* ::connect was interrupted goes on being made.  Socket k is the one      *)
(* created for candidate k; FD sfd holds at most one.                      *)
(***************************************************************************)
EXTENDS Integers, Sequences, SequencesExt

CONSTANT MaxList   (* Bound on the candidates that the resolver lists.     *)

ASSUME SockFNAssumption == MaxList \in Nat \ {0}

VARIABLES
  op,     (* The function that was called.                                 *)
  pc,     (* The system call it does next.                                 *)
  list,   (* The families of the candidates, in the resolver's order.      *)
  k,      (* The candidate that is being tried.                            *)
  lists,  (* The addrinfo lists that getaddrinfo allocated and that have   *)
          (* not been freed.                                               *)
  sk,     (* Kernel: the state of the socket for each candidate.           *)
  sfd,    (* The candidate whose socket FD sfd holds, 0 for -1.            *)
  tried,  (* The candidates that were found not to do.                     *)
  result  (* "none" until the call returns, throws or terminates.          *)

vars == <<op, pc, list, k, lists, sk, sfd, tried, result>>

Cands == 1 .. MaxList
Families == {"INET", "INET6", "LOCAL", "other"}
Ops == {"ConnectAddr", "ConnectText", "ListenAddr", "ListenText", "AddrList",
        "Assign"}
Connects == {"ConnectAddr", "ConnectText"}
Listens == {"ListenAddr", "ListenText"}
TextOps == Ops \ {"ConnectAddr", "ListenAddr"}

(* AddrList() and SockAddr::operator= end with addresses, not with a       *)
(* socket.                                                                 *)
AddressOnly == {"AddrList", "Assign"}

(* The texts that the functions tell apart: with a '/', without one and    *)
(* without a ':', with one ':', with several, and with a host in brackets. *)
Forms == {"path", "word", "host:svc", "v6", "[v6]:svc"}

(* Where a text leads, given whether there is a default service.           *)
Route(form, dfltsvc) ==
  CASE form = "path" \/ (form = "word" /\ ~dfltsvc) -> "local"
    [] form = "v6" /\ ~dfltsvc                      -> "malformed"
    [] OTHER                                        -> "resolve"

(* for (...) switch (ai->ai_family): AF_INET takes precedence; Listen then *)
(* takes the first of all, operator= the first AF_INET6.                   *)
Preferred(l) ==
  IF Contains(l, "INET") THEN SelectInSeq(l, LAMBDA f : f = "INET") ELSE 1

OpenSockets == {c \in Cands : sk[c] # "none"}

-----------------------------------------------------------------------------
(* The call. *)

(* AddrDomain() throws for a family it does not know.                      *)
CallAddr ==
  /\ pc = "start"
  /\ \E o \in {"ConnectAddr", "ListenAddr"}, f \in Families :
       /\ op' = o
       /\ list' = <<f>>
       /\ pc' = IF f = "other" THEN "end" ELSE "socket"
       /\ result' = IF f = "other" THEN "threw" ELSE "none"
  /\ UNCHANGED <<k, lists, sk, sfd, tried>>

(* strchr, strrchr, strlen and what follows: a path that is too long and a *)
(* malformed address throw, a path that fits is used without a resolver.   *)
CallText ==
  /\ pc = "start"
  /\ \E o \in TextOps, form \in Forms, dfltsvc, long \in BOOLEAN :
       LET route == Route(form, dfltsvc)
           bad == route = "malformed" \/ (route = "local" /\ long)
           single == o \in AddressOnly
       IN  /\ op' = CASE route = "local" /\ o = "ConnectText" -> "ConnectAddr"
                      [] route = "local" /\ o = "ListenText"  -> "ListenAddr"
                      [] OTHER                                -> o
           /\ list' = IF route = "local" THEN <<"LOCAL">> ELSE <<>>
           /\ pc' = IF bad \/ (route = "local" /\ single) THEN "end"
                    ELSE IF route = "local" THEN "socket" ELSE "resolve"
           /\ result' = IF bad THEN "threw"
                        ELSE IF route = "local" /\ single THEN "returned"
                        ELSE "none"
  /\ UNCHANGED <<k, lists, sk, sfd, tried>>

(* getaddrinfo answers a list with at least one candidate or an error; of  *)
(* the errors AddrList() takes EAI_NODATA for an empty list.  AddrList()   *)
(* and operator= copy addresses and free the list at once.                 *)
Resolve ==
  /\ pc = "resolve"
  /\ \/ /\ result' = "threw"
        /\ pc' = "end"
        /\ UNCHANGED <<list, k, lists>>
     \/ /\ op = "AddrList"
        /\ result' = "returned"
        /\ pc' = "end"
        /\ UNCHANGED <<list, k, lists>>
     \/ \E l \in BoundedSeq({"INET", "INET6"}, MaxList) \ {<<>>} :
          /\ list' = l
          /\ k' = IF op \in {"ListenText", "Assign"} THEN Preferred(l) ELSE 1
          /\ IF op \in AddressOnly
             THEN pc' = "end" /\ result' = "returned" /\ lists' = lists
             ELSE pc' = "socket" /\ result' = "none" /\ lists' = lists + 1
  /\ UNCHANGED <<op, sk, sfd, tried>>

-----------------------------------------------------------------------------
(* The end of a call: freeaddrinfo where there is a list, then return ...  *)
Return ==
  /\ pc' = "end"
  /\ result' = "returned"
  /\ lists' = IF op \in {"ConnectText", "ListenText"} THEN lists - 1 ELSE lists
  /\ UNCHANGED <<op, list, k, sfd, tried>>

(* Mutant of Throw: the exception leaves the list behind.                  *)
ThrowPastList(closes) ==
  /\ pc' = "end"
  /\ result' = IF closes THEN "threw" ELSE "terminated"
  /\ sk' = IF sfd = 0 THEN sk ELSE [sk EXCEPT ![sfd] = "none"]
  /\ tried' = tried \cup {k}
  /\ sfd' = 0
  /\ UNCHANGED <<op, list, k, lists>>

(* ... or throw: ~FD() closes sfd, and terminates, with the list as it is, *)
(* if the close fails.                                                     *)
Throw(closes) ==
  /\ pc' = "end"
  /\ result' = IF closes THEN "threw" ELSE "terminated"
  /\ lists' = IF closes /\ op \in {"ConnectText", "ListenText"} THEN lists - 1 ELSE lists
  /\ sk' = IF sfd = 0 THEN sk ELSE [sk EXCEPT ![sfd] = "none"]
  /\ tried' = tried \cup {k}
  /\ sfd' = 0
  /\ UNCHANGED <<op, list, k>>

(* Mutants of NextCandidate: one candidate too many, the socket is not     *)
(* closed, no other candidate is tried, the same one is tried again.       *)
NextCandidateBeyond(closes) ==
  IF op = "ConnectText" /\ closes /\ k <= Len(list)
  THEN /\ k' = k + 1
       /\ sk' = IF sfd = 0 THEN sk ELSE [sk EXCEPT ![sfd] = "none"]
       /\ sfd' = 0
       /\ tried' = tried \cup {k}
       /\ pc' = "socket"
       /\ UNCHANGED <<op, list, lists, result>>
  ELSE Throw(closes)

NextCandidateNoClose(closes) ==
  IF op = "ConnectText" /\ closes /\ k < Len(list)
  THEN /\ k' = k + 1
       /\ sfd' = 0
       /\ tried' = tried \cup {k}
       /\ pc' = "socket"
       /\ UNCHANGED <<op, list, lists, result, sk>>
  ELSE Throw(closes)

NextCandidateThrows(closes) == Throw(closes)

NextCandidateAgain(closes) ==
  IF op = "ConnectText" /\ closes
  THEN /\ sk' = IF sfd = 0 THEN sk ELSE [sk EXCEPT ![sfd] = "none"]
       /\ sfd' = 0
       /\ pc' = "socket"
       /\ UNCHANGED <<op, list, lists, result, k, tried>>
  ELSE Throw(closes)

(* Candidate k will not do.  Connect of a text goes on to the next: a      *)
(* close that fails throws past freeaddrinfo, and ~FD() then closes the    *)
(* same number in vain: terminate().  After the last one, and in the other *)
(* functions at once, the call throws.                                     *)
NextCandidate(closes) ==
  IF op = "ConnectText" /\ closes /\ k < Len(list)
  THEN /\ k' = k + 1
       /\ sk' = IF sfd = 0 THEN sk ELSE [sk EXCEPT ![sfd] = "none"]
       /\ sfd' = 0
       /\ tried' = tried \cup {k}
       /\ pc' = "socket"
       /\ UNCHANGED <<op, list, lists, result>>
  ELSE Throw(closes)

Socket ==
  /\ pc = "socket"
  /\ \/ NextCandidate(TRUE)
     \/ /\ sk' = [sk EXCEPT ![k] = "fresh"]
        /\ sfd' = k
        /\ pc' = IF op \in Connects THEN "connect" ELSE "listen"
        /\ UNCHANGED <<op, list, k, lists, tried, result>>

(* Mutant of Interrupted: EINTR is taken for success.                      *)
InterruptedReturns ==
  /\ pc = "connect"
  /\ sk[sfd] = "fresh"
  /\ sk' = [sk EXCEPT ![sfd] = "connecting"]
  /\ Return

(* ::connect fails with EINTR: again.                                      *)
Interrupted ==
  /\ pc = "connect"
  /\ sk[sfd] = "fresh"
  /\ sk' = [sk EXCEPT ![sfd] = "connecting"]
  /\ UNCHANGED <<op, pc, list, k, lists, sfd, tried, result>>

(* ::connect succeeds, or fails with EISCONN because the connection has    *)
(* been made since the call that was interrupted.                          *)
Connected ==
  /\ pc = "connect"
  /\ sk' = [sk EXCEPT ![sfd] = "connected"]
  /\ Return

(* ::connect fails with another error.                                     *)
Refused ==
  /\ pc = "connect"
  /\ sk[sfd] # "connected"
  /\ \E closes \in BOOLEAN : NextCandidate(closes)

(* The kernel completes a connection by itself.                            *)
Established ==
  /\ \E c \in Cands :
       /\ sk[c] = "connecting"
       /\ sk' = [sk EXCEPT ![c] = "connected"]
  /\ UNCHANGED <<op, pc, list, k, lists, sfd, tried, result>>

(* ::bind and ::listen, both of which must succeed.                        *)
Listen ==
  /\ pc = "listen"
  /\ \/ /\ sk' = [sk EXCEPT ![sfd] = "listening"]
        /\ Return
     \/ \E closes \in BOOLEAN : Throw(closes)

(* The call is over.                                                       *)
Over == pc = "end" /\ UNCHANGED vars

-----------------------------------------------------------------------------
Init ==
  /\ op = "none"
  /\ pc = "start"
  /\ list = <<>>
  /\ k = 1
  /\ lists = 0
  /\ sk = [c \in Cands |-> "none"]
  /\ sfd = 0
  /\ tried = {}
  /\ result = "none"

Step ==
  \/ CallAddr
  \/ CallText
  \/ Resolve
  \/ Socket
  \/ Connected
  \/ Refused
  \/ Listen

Next ==
  \/ Step
  \/ Interrupted
  \/ Established
  \/ Over

Spec == Init /\ [][Next]_vars

(* The program runs, and each of its system calls ends with an answer      *)
(* other than EINTR some time.                                             *)
FairSpec == Spec /\ WF_vars(Step)

-----------------------------------------------------------------------------
(* Properties. *)

(* The state is well formed.                                               *)
TypeOK ==
  /\ op \in Ops \cup {"none"}
  /\ pc \in {"start", "resolve", "socket", "connect", "listen", "end"}
  /\ list \in BoundedSeq(Families, MaxList)
  /\ k \in Cands
  /\ lists \in Int
  /\ sk \in [Cands -> {"none", "fresh", "connecting", "connected", "listening"}]
  /\ sfd \in Cands \cup {0}
  /\ tried \in SUBSET Cands
  /\ result \in {"none", "returned", "threw", "terminated"}

(* Whatever fails and wherever, the only socket that is ever open is the   *)
(* one in sfd, and none is when the call throws (Sock.cpp:879-1058).       *)
NoSocketLeft ==
  /\ OpenSockets \subseteq {sfd}
  /\ result = "threw" => OpenSockets = {}

(* The addrinfo list is freed exactly once on every way out, unless a      *)
(* close that fails ends the program (Sock.cpp:935-961, 1029-1057).        *)
ListFreedOnce ==
  /\ lists \in {0, 1}
  /\ result \in {"returned", "threw"} => lists = 0

(* What Connect() returns is connected and what Listen() returns listens,  *)
(* EINTR and EISCONN or not (Sock.cpp:888-897, 950-958); Listen() of a     *)
(* text never on another candidate when there is an AF_INET one, even if   *)
(* that fails and wherever it is listed (Sock.cpp:1039-1051).              *)
ReturnsUsableSocket ==
  result = "returned" =>
    /\ op \in Connects => sfd # 0 /\ sk[sfd] = "connected"
    /\ op \in Listens => sfd # 0 /\ sk[sfd] = "listening"
    /\ op = "ListenText" /\ Contains(list, "INET") => list[sfd] = "INET"

(* Connect of a text returns the first candidate, in the resolver's order, *)
(* that will do, and throws after a resolution only when none will.        *)
FirstThatConnects ==
  op = "ConnectText" =>
    /\ result = "returned" => tried = 1 .. (sfd - 1)
    /\ result = "threw" => tried = 1 .. Len(list)

(* A call comes to an end however often ::connect is interrupted, as long  *)
(* as it is not for ever.                                                  *)
CallEnds == <>(result # "none")
=============================================================================
