-------------------------------- MODULE NetAddr -------------------------------
(***************************************************************************)
(* Class NetAddr (src/src/Sock.cpp:242-533): an address of one of the      *)
(* families, with the bit operations that netmasks are made of.            *)
(*                                                                         *)
(* The bits of an address are the set of the positions that are 1, counted *)
(* from the most significant one, which is 1.  An INET address is one word *)
(* of InetBits bits, an INET6 address is a row of Bytes bytes of ByteBits  *)
(* bits that the code goes through one after the other.                    *)
(***************************************************************************)
EXTENDS Integers, FiniteSetsExt

CONSTANTS
  InetBits,  (* 32 in the program.                                         *)
  Bytes,     (* 16 in the program.                                         *)
  ByteBits   (* 8 in the program.                                          *)

ASSUME NetAddrAssumption ==
  InetBits \in Nat \ {0} /\ Bytes \in Nat \ {0} /\ ByteBits \in Nat \ {0}

Domains == {"INET", "INET6"}

Width(dom) == IF dom = "INET" THEN InetBits ELSE Bytes * ByteBits

Addr(dom) == [dom : {dom}, bits : SUBSET (1 .. Width(dom))]

Addrs == UNION {Addr(dom) : dom \in Domains}

(* An address that is not initialised: AF_UNSPEC.                          *)
Unspec == [dom |-> "UNSPEC", bits |-> {}]

-----------------------------------------------------------------------------
(* operator~, &, ^ and |; the operands are of one family.                  *)
Invert(a) == [a EXCEPT !.bits = (1 .. Width(a.dom)) \ @]
And(a, b) == [a EXCEPT !.bits = @ \cap b.bits]
Or(a, b) == [a EXCEPT !.bits = @ \cup b.bits]
Xor(a, b) == [a EXCEPT !.bits = (@ \ b.bits) \cup (b.bits \ @)]

IsZero(a) == a.bits = {}

(* Mutant of Less: no ntohl, the last bit that differs decides.            *)
LessHostOrder(a, b) ==
  LET diff == Xor(a, b).bits IN diff # {} /\ Max(diff) \in b.bits

(* operator<, ntohl or memcmp: the first bit that differs decides.         *)
Less(a, b) ==
  LET diff == Xor(a, b).bits IN diff # {} /\ Min(diff) \in b.bits

Leq(a, b) == ~Less(b, a)

(* setmsbit(nbits): for INET a shift right and left of a word of ones; for *)
(* INET6 byte by byte, nbits being counted down on the way.                *)
SetMsbit(a, nbits) ==
  LET shift == InetBits - nbits
      word == {p + shift : p \in 1 .. InetBits} \cap 1 .. InetBits
      left[x \in 0 .. Bytes] ==
        IF x = 0 THEN nbits
        ELSE left[x - 1] - (IF left[x - 1] >= ByteBits THEN ByteBits ELSE left[x - 1])
      ones(x) == IF left[x] >= ByteBits THEN ByteBits ELSE left[x]
  IN  [a EXCEPT !.bits = @ \cup
         IF a.dom = "INET"
         THEN {p - shift : p \in word}
         ELSE UNION {{x * ByteBits + b : b \in 1 .. ones(x)} : x \in 0 .. Bytes - 1}]

(* Mutant of GetMsbit: for INET6 the bytes of ones only.                   *)
GetMsbitBytes(a) ==
  LET width == Width(a.dom)
  IN  IF a.dom = "INET"
      THEN Max({m \in 0 .. width : 1 .. m \subseteq a.bits})
      ELSE Max({x \in 0 .. width : x % ByteBits = 0 /\ 1 .. x \subseteq a.bits})

(* getmsbit(): the ones before the first zero; for INET6 the bytes of ones *)
(* first, then the bits of the byte that has the zero.                     *)
GetMsbit(a) ==
  LET upto(n, from) == {m \in 0 .. n : \A b \in 1 .. m : from + b \in a.bits}
      full == Max({x \in 0 .. Bytes :
                     \A b \in 1 .. x * ByteBits : b \in a.bits})
  IN  IF a.dom = "INET"
      THEN Max(upto(InetBits, 0))
      ELSE full * ByteBits + (IF full = Bytes
                              THEN 0
                              ELSE Max(upto(ByteBits, full * ByteBits)))
=============================================================================
