-------------------------------- MODULE NetMask -------------------------------
(***************************************************************************)
(* Class NetMask (src/src/Sock.h:172-200, Sock.cpp:541-690, 737-750): one  *)
(* object that texts are assigned to, one after the other.  A text names a *)
(* host, or denotes a range of addresses: "a-b", "a/cidr" or "a".  An      *)
(* assignment that fails throws and leaves the members as far as it got.   *)
(*                                                                         *)
(* A text is what the scanners find in it: for an address its value or     *)
(* Bad, for the digits of a CIDR a number (no digits are 0) or -1 when     *)
(* there is something else among them, for a name nothing, "*" or a name.  *)
(***************************************************************************)
EXTENDS NetAddr, Sequences

CONSTANTS
  Bad,     (* What is no address.                                          *)
  NoText   (* Before the first assignment.                                 *)

VARIABLES
  name, addr,  (* The members name_ and addr_[2].                          *)
  text, ok     (* The last text that was assigned, and that it was taken.  *)

vars == <<name, addr, text, ok>>

Names == {"", "*", "host"}

RangeText(f, l) == [kind |-> "range", first |-> f, last |-> l]
CidrText(f, n) == [kind |-> "cidr", first |-> f, digits |-> n]
SingleText(f) == [kind |-> "single", first |-> f]
NameText(n) == [kind |-> "name", name |-> n]

-----------------------------------------------------------------------------
(* ScanAddr into old: Bad leaves AF_UNSPEC behind.                         *)
ScanAddr(a) == IF a = Bad THEN Unspec ELSE a

(* ScanCIDR takes up to as many bits as the family has.                    *)
CidrFits(dom, n) == n \in 0 .. Width(dom)

CidrMask(dom, n) == SetMsbit([dom |-> dom, bits |-> {}], n)

(* The members after an assignment, and whether it succeeded.              *)
Outcome(n, a0, a1, success) == [name |-> n, addr |-> <<a0, a1>>, ok |-> success]

(* Mutant of AssignRange: a bad second address leaves the old one behind.  *)
AssignRangeKeepsOld(f, l) ==
  LET a0 == ScanAddr(f)
      a1 == IF f = Bad \/ l = Bad THEN addr[2] ELSE l
      success == f # Bad /\ l # Bad /\ a0.dom = a1.dom /\ Leq(a0, a1)
  IN  Outcome(IF success THEN "" ELSE name, a0, a1, success)

AssignRange(f, l) ==
  LET a0 == ScanAddr(f)
      a1 == IF f = Bad THEN addr[2] ELSE ScanAddr(l)
      success == /\ f # Bad
                 /\ l # Bad
                 /\ a0.dom = a1.dom
                 /\ Leq(a0, a1)
  IN  Outcome(IF success THEN "" ELSE name, a0, a1, success)

AssignCidr(f, n) ==
  LET a0 == ScanAddr(f)
      mask == CidrMask(f.dom, n)
  IN  IF f = Bad \/ ~CidrFits(f.dom, n)
      THEN Outcome(name, a0, addr[2], FALSE)
      ELSE IF f # And(f, mask)
      THEN Outcome(name, a0, mask, FALSE)
      ELSE Outcome("", a0, Or(Invert(mask), f), TRUE)

AssignName(n) ==
  IF n = ""
  THEN Outcome("", Unspec, addr[2], FALSE)
  ELSE Outcome(n, Unspec, Unspec, TRUE)

Assigned(t) ==
  CASE t.kind = "range"  -> AssignRange(t.first, t.last)
    [] t.kind = "cidr"   -> AssignCidr(t.first, t.digits)
    [] t.kind = "single" -> Outcome("", t.first, t.first, TRUE)
    [] t.kind = "name"   -> AssignName(t.name)

Take(t) ==
  LET r == Assigned(t)
  IN  /\ text' = t
      /\ ok' = r.ok
      /\ name' = r.name
      /\ addr' = r.addr

-----------------------------------------------------------------------------
(* valid(); a comparison of two families throws, which && avoids.          *)
Valid ==
  IF name # ""
  THEN addr[1].dom = "UNSPEC" /\ addr[2].dom = "UNSPEC"
  ELSE /\ addr[1].dom # "UNSPEC"
       /\ addr[2].dom = addr[1].dom
       /\ Leq(addr[1], addr[2])

(* match(a) without a name: the comparison with addr_[1] throws when that  *)
(* is of another family.                                                   *)
Match(a) ==
  IF a.dom # addr[1].dom \/ Less(a, addr[1]) THEN "no"
  ELSE IF addr[2].dom # a.dom THEN "throws"
  ELSE IF Leq(a, addr[2]) THEN "yes" ELSE "no"

(* operator<< without a name, as the text it prints.                       *)
Printed ==
  LET mask == Xor(addr[1], addr[2])
  IN  IF IsZero(And(mask, addr[1])) /\ And(mask, addr[2]) = mask
      THEN CidrText(addr[1], GetMsbit(Invert(mask)))
      ELSE RangeText(addr[1], addr[2])

-----------------------------------------------------------------------------
Init ==
  /\ name = ""
  /\ addr = <<Unspec, Unspec>>
  /\ text = NoText
  /\ ok = FALSE

(* Nothing behind a first address that is bad is looked at.                *)
TakeRange ==
  \/ Take(RangeText(Bad, Bad))
  \/ \E f \in Addrs, l \in Addrs \cup {Bad} : Take(RangeText(f, l))

(* The digits go one beyond what fits.                                     *)
TakeCidr ==
  \/ Take(CidrText(Bad, 0))
  \/ \E f \in Addrs : \E n \in -1 .. Width(f.dom) + 1 : Take(CidrText(f, n))

TakeSingle == \E f \in Addrs : Take(SingleText(f))

TakeName == \E n \in Names : Take(NameText(n))

(* reset().                                                                *)
Reset ==
  /\ name' = ""
  /\ addr' = <<Unspec, Unspec>>
  /\ text' = NoText
  /\ ok' = FALSE

Next == TakeRange \/ TakeCidr \/ TakeSingle \/ TakeName \/ Reset

Spec == Init /\ [][Next]_vars

-----------------------------------------------------------------------------
(* What the texts mean, in numbers. *)

(* The number lead with n binary digits put behind it, ones where bits has *)
(* the position.                                                           *)
Binary(lead, bits, n) ==
  LET value[p \in 0 .. n] ==
        IF p = 0 THEN lead
        ELSE 2 * value[p - 1] + (IF p \in bits THEN 1 ELSE 0)
  IN  value[n]

Number(a) == Binary(0, a.bits, Width(a.dom))

PowerOf2(n) == Binary(1, {}, n)

(* The addresses that a text which is no name denotes.                     *)
Denoted(t) ==
  {a \in Addr(t.first.dom) :
     CASE t.kind = "range"  -> Number(a) \in Number(t.first) .. Number(t.last)
       [] t.kind = "cidr"   -> LET host == PowerOf2(Width(a.dom) - t.digits)
                               IN  Number(a) \div host = Number(t.first) \div host
       [] t.kind = "single" -> a = t.first}

Ranged == text # NoText /\ ok /\ text.kind # "name"

(* A mask that took a text is valid and matches just the addresses that    *)
(* the text denotes, whatever it held before (Sock.cpp:549-620).           *)
MatchesWhatIsDenoted ==
  Ranged => /\ Valid
            /\ \A a \in Addrs : (Match(a) = "yes") <=> (a \in Denoted(text))

(* An assignment that failed leaves a mask that valid() passes in two      *)
(* cases only: an old name outlives a text whose first address is bad, or  *)
(* the digits of a CIDR are bad or do not fit the address, which is then   *)
(* the low end of the mask.  A range that is refused for its second        *)
(* address or for its order never passes (Sock.cpp:554-565, 589-594).      *)
RefusedRangeIsInvalid ==
  (text # NoText /\ ~ok /\ Valid) =>
    \/ name # "" /\ text.kind \in {"range", "cidr"} /\ text.first = Bad
    \/ name = "" /\ text.kind = "cidr" /\ text.first = addr[1]

(* A mask given as "a/cidr" is printed as it was given, one given as "a"   *)
(* with all bits (tst/sock.cpp:152, 165).                                  *)
CidrPrintsAsGiven ==
  (Ranged /\ text.kind \in {"cidr", "single"}) =>
    Printed = CidrText(text.first, IF text.kind = "cidr"
                                   THEN text.digits
                                   ELSE Width(text.first.dom))

(* What is printed denotes what the mask matches: printing a mask and      *)
(* reading it back gives the same mask.                                    *)
PrintedIsMatched == Ranged => Denoted(Printed) = Denoted(text)
=============================================================================
