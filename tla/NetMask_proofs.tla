---------------------------- MODULE NetMask_proofs -----------------------------
(***************************************************************************)
(* Proofs about NetAddr and NetMask: the order of addresses is the order   *)
(* of their numbers, a netmask has the bits it was asked for, and with     *)
(* these what NetMask states of its texts, for every width.                *)
(***************************************************************************)
EXTENDS NetMask, WellFoundedInduction, TLAPS

(* Induction over the natural numbers, with the numbers as a set.          *)
LEMMA SetInduction ==
  ASSUME NEW S, S \subseteq Nat, 0 \in S, \A n \in S : n + 1 \in S
  PROVE  S = Nat
<1> DEFINE R == {p \in Nat \X Nat : p[1] < p[2]}
           T == Nat \ S
<1>1. IsWellFoundedOn(R, Nat)
  <2>1. OpToRel(<, Nat) = R
    BY Zenon DEF OpToRel
  <2>2. QED BY <2>1, NatLessThanWellFounded, Zenon
<1>2. \A m, n \in Nat : m < n => <<m, n>> \in R
  OBVIOUS
<1>3. SUFFICES ASSUME T # {} PROVE FALSE
  OBVIOUS
<1>4. T \subseteq Nat
  OBVIOUS
<1> HIDE DEF R, T
<1>5. PICK x \in T : \A y \in T : ~ (<<y, x>> \in R)
  BY <1>1, <1>3, <1>4, WFMin, Zenon
<1>6. x \in Nat /\ x \notin S /\ x # 0
  BY <1>5 DEF T
<1>7. x - 1 \in Nat /\ x - 1 < x /\ (x - 1) + 1 = x
  BY <1>6
<1>8. x - 1 \in T
  BY <1>6, <1>7 DEF T
<1>9. QED BY <1>2, <1>5, <1>6, <1>7, <1>8

(* A set of numbers has a least one, which is its Min.                     *)
LEMMA MinOfNats ==
  ASSUME NEW S \in SUBSET Nat, S # {}
  PROVE  Min(S) \in S /\ \A y \in S : Min(S) <= y
<1> DEFINE Below == {n \in Nat : \A y \in S : n <= y}
<1>1. 0 \in Below
  OBVIOUS
<1>2. PICK y \in S : TRUE
  OBVIOUS
<1>3. y + 1 \notin Below /\ y + 1 \in Nat
  BY <1>2
<1>4. PICK n \in Below : n + 1 \notin Below
  <2>1. Below \subseteq Nat /\ Below # Nat
    BY <1>3
  <2> HIDE DEF Below
  <2>2. QED BY <1>1, <2>1, SetInduction
<1>5. n \in S
  BY <1>4
<1>6. \A z \in S : n <= z
  BY <1>4
<1>7. QED BY <1>5, <1>6, Zenon DEF Min

(* A set of numbers with a bound has a greatest one, which is its Max.     *)
LEMMA MaxOfBounded ==
  ASSUME NEW m \in Nat, NEW S \in SUBSET (0 .. m), S # {}
  PROVE  Max(S) \in S /\ \A y \in S : y <= Max(S)
<1> DEFINE Left == {m - y : y \in S}
<1>1. Left \in SUBSET Nat /\ Left # {}
  <2>1. \A y \in S : y \in 0 .. m /\ m - y \in Nat
    OBVIOUS
  <2>2. PICK y \in S : TRUE
    OBVIOUS
  <2>3. m - y \in Left
    OBVIOUS
  <2>4. QED BY <2>1, <2>3
<1>2. PICK x \in Left : \A z \in Left : x <= z
  <2> HIDE DEF Left
  <2>1. QED BY <1>1, MinOfNats
<1>3. m - x \in S
  BY <1>2
<1>4. \A y \in S : m - x >= y
  BY <1>2
<1>5. \E g \in S : \A y \in S : g >= y
  BY <1>3, <1>4
<1>6. Max(S) \in S /\ \A y \in S : Max(S) >= y
  BY <1>5, Zenon DEF Max
<1>7. QED BY <1>6

(* The greatest one is the one that is a bound.                            *)
LEMMA MaxIs ==
  ASSUME NEW m \in Nat, NEW S \in SUBSET (0 .. m), NEW g \in S,
         \A y \in S : y <= g
  PROVE  Max(S) = g
<1>1. Max(S) \in S /\ \A y \in S : y <= Max(S)
  BY MaxOfBounded
<1>2. g <= Max(S) /\ Max(S) <= g
  BY <1>1, Zenon
<1>3. \A x, y \in S : x <= y /\ y <= x => x = y
  OBVIOUS
<1>4. QED BY <1>1, <1>2, <1>3, Zenon

(* A number lies in one row of rows of equal length.                       *)
LEMMA RowOf ==
  ASSUME NEW row \in Nat \ {0}, NEW n \in Nat
  PROVE  \E x \in Nat : x * row <= n /\ n < (x + 1) * row
<1> DEFINE S == {k \in Nat : \E x \in Nat : x * row <= k /\ k < (x + 1) * row}
<1>1. 0 \in S
  BY 0 * row = 0, (0 + 1) * row = row
<1>2. ASSUME NEW k \in S PROVE k + 1 \in S
  <2> k + 1 \in Nat
    OBVIOUS
  <2>1. PICK x \in Nat : x * row <= k /\ k < (x + 1) * row
    OBVIOUS
  <2>2. x * row \in Nat /\ (x + 1) * row = x * row + row
        /\ ((x + 1) + 1) * row = x * row + row + row
    OBVIOUS
  <2>3. CASE k + 1 < (x + 1) * row
    <3>1. x * row <= k + 1
      BY <2>1, <2>2
    <3>2. QED BY <2>3, <3>1, Zenon
  <2>4. CASE ~ (k + 1 < (x + 1) * row)
    <3>1. (x + 1) * row <= k + 1 /\ k + 1 < ((x + 1) + 1) * row /\ x + 1 \in Nat
      BY <2>1, <2>2, <2>4
    <3>2. QED BY <3>1, Zenon
  <2>5. QED BY <2>3, <2>4
<1>3. S = Nat
  <2>1. S \subseteq Nat
    OBVIOUS
  <2> HIDE DEF S
  <2>2. QED BY <1>1, <1>2, <2>1, SetInduction
<1>4. QED BY <1>3

-----------------------------------------------------------------------------
(* Binary numbers. *)

Digit(bits, p) == IF p \in bits THEN 1 ELSE 0

IsBinary(f, lead, bits, n) ==
  f = [p \in 0 .. n |-> IF p = 0 THEN lead ELSE 2 * f[p - 1] + Digit(bits, p)]

(* There is a function that Binary may choose.                             *)
LEMMA BinaryExists ==
  ASSUME NEW lead, NEW bits, NEW n \in Nat
  PROVE  \E f : IsBinary(f, lead, bits, n)
<1> DEFINE S == {k \in Nat : \E f : IsBinary(f, lead, bits, k)}
<1>1. 0 \in S
  <2> DEFINE f == [p \in 0 .. 0 |-> lead]
  <2>1. IsBinary(f, lead, bits, 0)
    BY DEF IsBinary
  <2> HIDE DEF f
  <2>2. QED BY <2>1, Zenon
<1>2. ASSUME NEW k \in S PROVE k + 1 \in S
  <2>1. k \in Nat
    OBVIOUS
  <2>2. PICK f : IsBinary(f, lead, bits, k)
    OBVIOUS
  <2>3. \A p \in 0 .. k :
          f[p] = IF p = 0 THEN lead ELSE 2 * f[p - 1] + Digit(bits, p)
    BY <2>2, Zenon DEF IsBinary
  <2> DEFINE d == Digit(bits, k + 1)
             g == [p \in 0 .. k + 1 |-> IF p = k + 1 THEN 2 * f[k] + d ELSE f[p]]
  <2>4. ASSUME NEW p \in 0 .. k + 1
        PROVE  g[p] = IF p = 0 THEN lead ELSE 2 * g[p - 1] + Digit(bits, p)
    <3>1. CASE p = k + 1
      <4>1. p # 0 /\ p - 1 = k /\ k \in 0 .. k + 1 /\ k # k + 1
        BY <2>1, <3>1
      <4>2. g[p] = 2 * f[k] + d
        BY <3>1, Zenon
      <4>3. g[k] = f[k]
        BY <4>1, Zenon
      <4>4. QED BY <3>1, <4>1, <4>2, <4>3, Zenon
    <3>2. CASE p # k + 1
      <4>1. p \in 0 .. k
        BY <2>1, <3>2
      <4>2. g[p] = f[p]
        BY <3>2, Zenon
      <4>3. CASE p = 0
        BY <2>3, <4>1, <4>2, <4>3, Zenon
      <4>4. CASE p # 0
        <5>1. p - 1 \in 0 .. k + 1 /\ p - 1 # k + 1
          BY <2>1, <4>1, <4>4
        <5>2. g[p - 1] = f[p - 1]
          BY <5>1, Zenon
        <5>3. QED BY <2>3, <4>1, <4>2, <4>4, <5>2, Zenon
      <4>5. QED BY <4>3, <4>4
    <3>3. QED BY <3>1, <3>2
  <2>5. g = [p \in 0 .. k + 1 |-> g[p]]
    OBVIOUS
  <2> HIDE DEF g
  <2>6. IsBinary(g, lead, bits, k + 1)
    BY <2>4, <2>5 DEF IsBinary
  <2>7. QED BY <2>1, <2>6
<1>3. S = Nat
  <2>1. S \subseteq Nat
    OBVIOUS
  <2> HIDE DEF S
  <2>2. QED BY <1>1, <1>2, <2>1, SetInduction
<1>4. QED BY <1>3

(* Two such functions agree where both are defined.                        *)
LEMMA BinaryUnique ==
  ASSUME NEW lead, NEW bits, NEW m \in Nat, NEW n \in Nat, NEW f, NEW g,
         IsBinary(f, lead, bits, m), IsBinary(g, lead, bits, n),
         NEW q \in Nat, q <= m, q <= n
  PROVE  f[q] = g[q]
<1> DEFINE S == {p \in Nat : p <= m /\ p <= n => f[p] = g[p]}
<1>1. /\ \A p \in 0 .. m :
           f[p] = IF p = 0 THEN lead ELSE 2 * f[p - 1] + Digit(bits, p)
      /\ \A p \in 0 .. n :
           g[p] = IF p = 0 THEN lead ELSE 2 * g[p - 1] + Digit(bits, p)
  BY Zenon DEF IsBinary
<1>2. 0 \in S
  BY <1>1
<1>3. ASSUME NEW p \in S PROVE p + 1 \in S
  <2>1. SUFFICES ASSUME p + 1 <= m, p + 1 <= n PROVE f[p + 1] = g[p + 1]
    OBVIOUS
  <2>2. f[p] = g[p]
    BY <2>1
  <2>3. p + 1 \in 0 .. m /\ p + 1 \in 0 .. n /\ p + 1 # 0 /\ (p + 1) - 1 = p
    BY <2>1
  <2>4. QED BY <1>1, <2>2, <2>3, Zenon
<1>4. S = Nat
  <2>1. S \subseteq Nat
    OBVIOUS
  <2> HIDE DEF S
  <2>2. QED BY <1>2, <1>3, <2>1, SetInduction
<1>5. QED BY <1>4

(* What Binary is, one digit after the other.                              *)
LEMMA BinaryDigits ==
  ASSUME NEW lead, NEW bits
  PROVE  /\ Binary(lead, bits, 0) = lead
         /\ \A n \in Nat : Binary(lead, bits, n + 1)
                             = 2 * Binary(lead, bits, n) + Digit(bits, n + 1)
<1>1. ASSUME NEW n \in Nat
      PROVE  \E f : IsBinary(f, lead, bits, n) /\ Binary(lead, bits, n) = f[n]
  <2> DEFINE f == CHOOSE h : IsBinary(h, lead, bits, n)
  <2>1. IsBinary(f, lead, bits, n)
    BY BinaryExists, Zenon
  <2>2. Binary(lead, bits, n) = f[n]
    BY Zenon DEF Binary, IsBinary, Digit
  <2> HIDE DEF f
  <2>3. QED BY <2>1, <2>2, Zenon
<1>2. Binary(lead, bits, 0) = lead
  <2>1. PICK f : IsBinary(f, lead, bits, 0) /\ Binary(lead, bits, 0) = f[0]
    BY <1>1
  <2>2. 0 \in 0 .. 0
    OBVIOUS
  <2>3. f[0] = lead
    BY <2>1, <2>2, Zenon DEF IsBinary
  <2>4. QED BY <2>1, <2>3
<1>3. ASSUME NEW n \in Nat
      PROVE  Binary(lead, bits, n + 1)
               = 2 * Binary(lead, bits, n) + Digit(bits, n + 1)
  <2>1. PICK f : IsBinary(f, lead, bits, n) /\ Binary(lead, bits, n) = f[n]
    BY <1>1
  <2>2. n + 1 \in Nat
    OBVIOUS
  <2>3. PICK g : IsBinary(g, lead, bits, n + 1) /\ Binary(lead, bits, n + 1) = g[n + 1]
    BY <1>1, <2>2, Zenon
  <2>4. n + 1 \in 0 .. n + 1 /\ n + 1 # 0 /\ (n + 1) - 1 = n /\ n <= n /\ n <= n + 1
    OBVIOUS
  <2>5. g[n + 1] = 2 * g[n] + Digit(bits, n + 1)
    BY <2>3, <2>4, Zenon DEF IsBinary
  <2>6. f[n] = g[n]
    <3>1. IsBinary(f, lead, bits, n) /\ IsBinary(g, lead, bits, n + 1)
      BY <2>1, <2>3
    <3>2. QED BY <2>2, <2>4, <3>1, BinaryUnique
  <2>7. QED BY <2>1, <2>3, <2>5, <2>6, Zenon
<1>4. QED BY <1>2, <1>3

LEMMA BinaryNat ==
  ASSUME NEW lead \in Nat, NEW bits
  PROVE  \A n \in Nat : Binary(lead, bits, n) \in Nat
<1> DEFINE S == {n \in Nat : Binary(lead, bits, n) \in Nat}
<1>1. 0 \in S
  BY BinaryDigits
<1>2. ASSUME NEW n \in S PROVE n + 1 \in S
  <2>1. Binary(lead, bits, n + 1) = 2 * Binary(lead, bits, n) + Digit(bits, n + 1)
    BY BinaryDigits
  <2>2. Digit(bits, n + 1) \in Nat
    BY DEF Digit
  <2>3. QED BY <2>1, <2>2
<1>3. S = Nat
  <2>1. S \subseteq Nat
    OBVIOUS
  <2> HIDE DEF S
  <2>2. QED BY <1>1, <1>2, <2>1, SetInduction
<1>4. QED BY <1>3

-----------------------------------------------------------------------------
(* Comparing bits. *)

(* s and t have the same of the first n bits.                              *)
Agree(s, t, n) == \A p \in 1 .. n : p \in s <=> p \in t

(* Bit i is the first that differs, and t has it.                          *)
First(s, t, i) == i \notin s /\ i \in t /\ Agree(s, t, i - 1)

(* Either no bit differs or one of them is the first that does.            *)
LEMMA FirstDifference ==
  ASSUME NEW s, NEW t, NEW n \in Nat
  PROVE  Agree(s, t, n) \/ \E i \in 1 .. n : First(s, t, i) \/ First(t, s, i)
<1> DEFINE diff == {p \in 1 .. n : ~ (p \in s <=> p \in t)}
<1>1. SUFFICES ASSUME ~ Agree(s, t, n)
               PROVE  \E i \in 1 .. n : First(s, t, i) \/ First(t, s, i)
  OBVIOUS
<1>2. diff # {} /\ diff \in SUBSET Nat
  BY <1>1 DEF Agree
<1>3. PICK i \in diff : \A p \in diff : i <= p
  <2> HIDE DEF diff
  <2>1. QED BY <1>2, MinOfNats
<1>4. \A p \in 1 .. i - 1 : p \in 1 .. n /\ p \notin diff
  BY <1>3
<1>5. i \in 1 .. n /\ Agree(s, t, i - 1) /\ Agree(t, s, i - 1)
  BY <1>4 DEF Agree
<1>6. (i \in s /\ i \notin t) \/ (i \in t /\ i \notin s)
  BY <1>3, Zenon
<1>7. QED BY <1>5, <1>6 DEF First

LEMMA BinaryAgree ==
  ASSUME NEW lead, NEW s, NEW t, NEW n \in Nat, Agree(s, t, n)
  PROVE  Binary(lead, s, n) = Binary(lead, t, n)
<1> DEFINE S == {k \in Nat : k <= n => Binary(lead, s, k) = Binary(lead, t, k)}
<1>1. 0 \in S
  BY BinaryDigits
<1>2. ASSUME NEW k \in S PROVE k + 1 \in S
  <2>1. SUFFICES ASSUME k + 1 <= n
                 PROVE  Binary(lead, s, k + 1) = Binary(lead, t, k + 1)
    OBVIOUS
  <2>2. Binary(lead, s, k) = Binary(lead, t, k)
    BY <2>1
  <2>3. Digit(s, k + 1) = Digit(t, k + 1)
    <3>1. k + 1 \in 1 .. n
      BY <2>1
    <3>2. QED BY <3>1 DEF Agree, Digit
  <2>4. /\ Binary(lead, s, k + 1) = 2 * Binary(lead, s, k) + Digit(s, k + 1)
        /\ Binary(lead, t, k + 1) = 2 * Binary(lead, t, k) + Digit(t, k + 1)
    <3>1. k \in Nat
      OBVIOUS
    <3>2. Binary(lead, s, k + 1) = 2 * Binary(lead, s, k) + Digit(s, k + 1)
      BY <3>1, BinaryDigits
    <3>3. Binary(lead, t, k + 1) = 2 * Binary(lead, t, k) + Digit(t, k + 1)
      BY <3>1, BinaryDigits
    <3>4. QED BY <3>2, <3>3
  <2>5. QED BY <2>2, <2>3, <2>4, Zenon
<1>3. S = Nat
  <2>1. S \subseteq Nat
    OBVIOUS
  <2> HIDE DEF S
  <2>2. QED BY <1>1, <1>2, <2>1, SetInduction
<1>4. QED BY <1>3

(* The first bit that differs decides which number is less.                *)
LEMMA BinaryLess ==
  ASSUME NEW s, NEW t, NEW n \in Nat, NEW i \in 1 .. n, First(s, t, i)
  PROVE  Binary(0, s, n) < Binary(0, t, n)
<1> DEFINE S == {k \in Nat : i <= k => Binary(0, s, k) < Binary(0, t, k)}
<1>1. 0 \in S
  OBVIOUS
<1>2. ASSUME NEW k \in S PROVE k + 1 \in S
  <2>1. SUFFICES ASSUME i <= k + 1
                 PROVE  Binary(0, s, k + 1) < Binary(0, t, k + 1)
    OBVIOUS
  <2>2. k \in Nat /\ Binary(0, s, k) \in Nat /\ Binary(0, t, k) \in Nat
    BY BinaryNat
  <2>3. /\ Binary(0, s, k + 1) = 2 * Binary(0, s, k) + Digit(s, k + 1)
        /\ Binary(0, t, k + 1) = 2 * Binary(0, t, k) + Digit(t, k + 1)
    BY BinaryDigits
  <2>4. Digit(s, k + 1) \in {0, 1} /\ Digit(t, k + 1) \in {0, 1}
    BY DEF Digit
  <2>5. CASE i = k + 1
    <3>1. Digit(s, k + 1) = 0 /\ Digit(t, k + 1) = 1
      BY <2>5 DEF First, Digit
    <3>2. Agree(s, t, k)
      BY <2>5 DEF First
    <3>3. Binary(0, s, k) = Binary(0, t, k)
      BY <3>2, BinaryAgree
    <3>4. QED BY <2>2, <2>3, <3>1, <3>3
  <2>6. CASE i # k + 1
    <3>1. Binary(0, s, k) < Binary(0, t, k)
      BY <2>1, <2>6
    <3>2. QED BY <2>2, <2>3, <2>4, <3>1
  <2>7. QED BY <2>5, <2>6
<1>3. S = Nat
  <2>1. S \subseteq Nat
    OBVIOUS
  <2> HIDE DEF S
  <2>2. QED BY <1>1, <1>2, <2>1, SetInduction
<1>4. QED BY <1>3

LEMMA BinaryOrder ==
  ASSUME NEW s, NEW t, NEW n \in Nat
  PROVE  /\ Binary(0, s, n) < Binary(0, t, n) <=> \E i \in 1 .. n : First(s, t, i)
         /\ Binary(0, s, n) = Binary(0, t, n) <=> Agree(s, t, n)
<1>1. Binary(0, s, n) \in Nat /\ Binary(0, t, n) \in Nat
  BY BinaryNat
<1>2. Agree(s, t, n) => Binary(0, s, n) = Binary(0, t, n)
  BY BinaryAgree
<1>3. (\E i \in 1 .. n : First(s, t, i)) => Binary(0, s, n) < Binary(0, t, n)
  BY BinaryLess
<1>4. (\E i \in 1 .. n : First(t, s, i)) => Binary(0, t, n) < Binary(0, s, n)
  BY BinaryLess
<1>5. Agree(s, t, n) \/ (\E i \in 1 .. n : First(s, t, i))
      \/ (\E i \in 1 .. n : First(t, s, i))
  BY FirstDifference
<1>6. QED BY <1>1, <1>2, <1>3, <1>4, <1>5

-----------------------------------------------------------------------------
(* Addresses. *)

LEMMA WidthNat ==
  ASSUME NEW dom \in Domains
  PROVE  Width(dom) \in Nat \ {0}
<1>1. Bytes * ByteBits \in Nat \ {0}
  BY NetAddrAssumption
<1>2. QED BY <1>1, NetAddrAssumption DEF Domains, Width

(* operator<: some bit is the first that differs, and the greater has it.  *)
LEMMA LessIsFirst ==
  ASSUME NEW dom \in Domains, NEW a \in Addr(dom), NEW b \in Addr(dom)
  PROVE  Less(a, b) <=> \E i \in 1 .. Width(dom) : First(a.bits, b.bits, i)
<1> DEFINE s == a.bits
           t == b.bits
           w == Width(dom)
           diff == (s \ t) \cup (t \ s)
<1>1. w \in Nat /\ s \subseteq 1 .. w /\ t \subseteq 1 .. w
  BY WidthNat DEF Addr
<1>2. Xor(a, b).bits = diff
  BY DEF Xor, Addr
<1>3. Less(a, b) <=> diff # {} /\ Min(diff) \in t
  BY <1>2, Zenon DEF Less
<1>4. ASSUME diff # {} PROVE Min(diff) \in diff /\ \A p \in diff : Min(diff) <= p
  <2>1. diff \in SUBSET Nat
    BY <1>1
  <2> HIDE DEF diff
  <2>2. QED BY <1>4, <2>1, MinOfNats
<1> HIDE DEF s, t, w
<1>5. ASSUME diff # {}, Min(diff) \in t
      PROVE  \E i \in 1 .. w : First(s, t, i)
  <2>1. PICK i : i = Min(diff)
    OBVIOUS
  <2>2. i \in diff /\ i \in t /\ \A p \in diff : i <= p
    BY <1>4, <1>5, <2>1, Zenon
  <2>3. i \in 1 .. w /\ i \notin s
    BY <1>1, <2>2
  <2>4. Agree(s, t, i - 1)
    BY <1>1, <2>2, <2>3 DEF Agree
  <2>5. QED BY <2>2, <2>3, <2>4 DEF First
<1>6. ASSUME NEW i \in 1 .. w, First(s, t, i)
      PROVE  diff # {} /\ Min(diff) \in t
  <2>1. i \in diff
    BY <1>6 DEF First
  <2>2. PICK m : m = Min(diff)
    OBVIOUS
  <2>3. m \in diff /\ m <= i
    BY <1>4, <2>1, <2>2, Zenon
  <2>4. m \in 1 .. w
    BY <1>1, <2>3
  <2>5. m = i
    BY <1>1, <1>6, <2>3, <2>4 DEF First, Agree
  <2>6. QED BY <1>6, <2>1, <2>2, <2>5 DEF First
<1>7. QED BY <1>3, <1>5, <1>6 DEF s, t, w

LEMMA NumberNat ==
  ASSUME NEW dom \in Domains, NEW a \in Addr(dom)
  PROVE  a.dom = dom /\ Number(a) = Binary(0, a.bits, Width(dom)) /\ Number(a) \in Nat
<1>1. a.dom = dom
  BY DEF Addr
<1>2. Width(dom) \in Nat
  BY WidthNat
<1>3. QED BY <1>1, <1>2, BinaryNat DEF Number

(* The order of the addresses, that operator< compares bit by bit, is the  *)
(* order of the numbers they are (NetAddr::operator<).                     *)
THEOREM NumberOrder ==
  ASSUME NEW dom \in Domains, NEW a \in Addr(dom), NEW b \in Addr(dom)
  PROVE  /\ Less(a, b) <=> Number(a) < Number(b)
         /\ Leq(a, b) <=> Number(a) <= Number(b)
         /\ Number(a) = Number(b) <=> a = b
<1> DEFINE w == Width(dom)
<1>1. w \in Nat
  BY WidthNat
<1>2. /\ a.dom = dom /\ Number(a) = Binary(0, a.bits, w) /\ Number(a) \in Nat
      /\ b.dom = dom /\ Number(b) = Binary(0, b.bits, w) /\ Number(b) \in Nat
  BY NumberNat
<1>3. /\ Less(a, b) <=> \E i \in 1 .. w : First(a.bits, b.bits, i)
      /\ Less(b, a) <=> \E i \in 1 .. w : First(b.bits, a.bits, i)
  BY LessIsFirst
<1> HIDE DEF w
<1>4. /\ Less(a, b) <=> Number(a) < Number(b)
      /\ Less(b, a) <=> Number(b) < Number(a)
  BY <1>1, <1>2, <1>3, BinaryOrder
<1>5. Leq(a, b) <=> Number(a) <= Number(b)
  BY <1>2, <1>4 DEF Leq
<1>6. Number(a) = Number(b) <=> Agree(a.bits, b.bits, w)
  BY <1>1, <1>2, BinaryOrder
<1>7. Agree(a.bits, b.bits, w) => a = b
  <2>1. a.bits \subseteq 1 .. w /\ b.bits \subseteq 1 .. w
    BY DEF Addr, w
  <2>2. Agree(a.bits, b.bits, w) => a.bits = b.bits
    BY <2>1 DEF Agree
  <2>3. a = [dom |-> dom, bits |-> a.bits] /\ b = [dom |-> dom, bits |-> b.bits]
    BY DEF Addr
  <2>4. QED BY <2>2, <2>3
<1>8. QED BY <1>4, <1>5, <1>6, <1>7

-----------------------------------------------------------------------------
(* Netmasks. *)

(* setmsbit's nbits when it comes to byte x.                               *)
Rest(n, x) == IF x * ByteBits <= n THEN n - x * ByteBits ELSE 0

IsLeft(f, n) ==
  f = [x \in 0 .. Bytes |->
         IF x = 0 THEN n
         ELSE f[x - 1] - (IF f[x - 1] >= ByteBits THEN ByteBits ELSE f[x - 1])]

LEMMA RestNext ==
  ASSUME NEW n \in Nat
  PROVE  /\ Rest(n, 0) = n
         /\ \A x \in Nat : /\ Rest(n, x) \in Nat
                           /\ Rest(n, x + 1) = Rest(n, x) - (IF Rest(n, x) >= ByteBits
                                                             THEN ByteBits
                                                             ELSE Rest(n, x))
<1>1. ByteBits \in Nat \ {0}
  BY NetAddrAssumption
<1>2. 0 * ByteBits = 0
  BY <1>1
<1>3. Rest(n, 0) = n
  BY <1>2 DEF Rest
<1>4. ASSUME NEW x \in Nat
      PROVE  /\ Rest(n, x) \in Nat
             /\ Rest(n, x + 1) = Rest(n, x) - (IF Rest(n, x) >= ByteBits
                                               THEN ByteBits ELSE Rest(n, x))
  <2>1. x * ByteBits \in Nat /\ (x + 1) * ByteBits = x * ByteBits + ByteBits
    BY <1>1
  <2> DEFINE m == x * ByteBits
             m1 == (x + 1) * ByteBits
  <2>2. /\ Rest(n, x) = IF m <= n THEN n - m ELSE 0
        /\ Rest(n, x + 1) = IF m1 <= n THEN n - m1 ELSE 0
        /\ m \in Nat /\ m1 = m + ByteBits
    BY <2>1, Zenon DEF Rest
  <2> HIDE DEF m, m1
  <2>3. QED BY <1>1, <2>2
<1>5. QED BY <1>3, <1>4

(* There is a function that setmsbit's loop computes, and it is this one.  *)
LEMMA LeftIsRest ==
  ASSUME NEW n \in Nat
  PROVE  /\ \E f : IsLeft(f, n)
         /\ \A f : IsLeft(f, n) => \A x \in 0 .. Bytes : f[x] = Rest(n, x)
<1>1. Bytes \in Nat
  BY NetAddrAssumption
<1>2. \E f : IsLeft(f, n)
  <2> DEFINE f == [x \in 0 .. Bytes |-> Rest(n, x)]
  <2>1. ASSUME NEW x \in 0 .. Bytes
        PROVE  f[x] = IF x = 0 THEN n
                      ELSE f[x - 1] - (IF f[x - 1] >= ByteBits THEN ByteBits ELSE f[x - 1])
    <3>1. CASE x = 0
      BY <3>1, RestNext
    <3>2. CASE x # 0
      <4>1. x - 1 \in Nat /\ x - 1 \in 0 .. Bytes /\ (x - 1) + 1 = x
        BY <1>1, <3>2
      <4>2. f[x - 1] = Rest(n, x - 1) /\ f[x] = Rest(n, x)
        BY <4>1, Zenon
      <4> HIDE DEF f
      <4>3. Rest(n, (x - 1) + 1)
              = Rest(n, x - 1) - (IF Rest(n, x - 1) >= ByteBits
                                  THEN ByteBits ELSE Rest(n, x - 1))
        BY <4>1, RestNext
      <4>4. QED BY <3>2, <4>1, <4>2, <4>3, Zenon
    <3>3. QED BY <3>1, <3>2
  <2>2. f = [x \in 0 .. Bytes |-> f[x]]
    OBVIOUS
  <2> HIDE DEF f
  <2>3. IsLeft(f, n)
    BY <2>1, <2>2 DEF IsLeft
  <2>4. QED BY <2>3
<1>3. ASSUME NEW f, IsLeft(f, n)
      PROVE  \A x \in 0 .. Bytes : f[x] = Rest(n, x)
  <2> DEFINE S == {x \in Nat : x <= Bytes => f[x] = Rest(n, x)}
  <2>1. \A x \in 0 .. Bytes :
          f[x] = IF x = 0 THEN n
                 ELSE f[x - 1] - (IF f[x - 1] >= ByteBits THEN ByteBits ELSE f[x - 1])
    BY <1>3, Zenon DEF IsLeft
  <2>2. 0 \in S
    <3>1. 0 \in 0 .. Bytes
      BY <1>1
    <3>2. f[0] = n
      BY <2>1, <3>1, Zenon
    <3>3. QED BY <3>2, RestNext
  <2>3. ASSUME NEW x \in S PROVE x + 1 \in S
    <3>1. SUFFICES ASSUME x + 1 <= Bytes PROVE f[x + 1] = Rest(n, x + 1)
      OBVIOUS
    <3>2. x \in Nat /\ x + 1 \in 0 .. Bytes /\ x + 1 # 0 /\ (x + 1) - 1 = x
      BY <1>1, <3>1
    <3>3. f[x] = Rest(n, x)
      BY <1>1, <3>1
    <3>4. f[x + 1] = f[x] - (IF f[x] >= ByteBits THEN ByteBits ELSE f[x])
      BY <2>1, <3>2, Zenon
    <3>5. QED BY <3>2, <3>3, <3>4, RestNext
  <2>4. S = Nat
    <3>1. S \subseteq Nat
      OBVIOUS
    <3> HIDE DEF S
    <3>2. QED BY <2>2, <2>3, <3>1, SetInduction
  <2>5. QED BY <1>1, <2>4
<1>4. QED BY <1>2, <1>3

(* The bytes of ones, and of some ones, are the first n bits.              *)
LEMMA RowsOfOnes ==
  ASSUME NEW n \in 0 .. Bytes * ByteBits, NEW f, IsLeft(f, n)
  PROVE  UNION {{x * ByteBits + b :
                   b \in 1 .. (IF f[x] >= ByteBits THEN ByteBits ELSE f[x])} :
                  x \in 0 .. Bytes - 1}
           = 1 .. n
<1> DEFINE ones(x) == IF f[x] >= ByteBits THEN ByteBits ELSE f[x]
           row(x) == {x * ByteBits + b : b \in 1 .. ones(x)}
<1>1. Bytes \in Nat \ {0} /\ ByteBits \in Nat \ {0} /\ Bytes * ByteBits \in Nat /\ n \in Nat
  BY NetAddrAssumption
<1>2. \A x \in 0 .. Bytes - 1 : f[x] = Rest(n, x) /\ x \in Nat /\ x * ByteBits \in Nat
  BY <1>1, LeftIsRest
<1>3. ASSUME NEW x \in 0 .. Bytes - 1, NEW p \in row(x)
      PROVE  p \in 1 .. n
  <2> DEFINE m == x * ByteBits
  <2>1. m \in Nat /\ f[x] = IF m <= n THEN n - m ELSE 0
    BY <1>2 DEF Rest
  <2>2. PICK b \in 1 .. ones(x) : p = m + b
    OBVIOUS
  <2> HIDE DEF m
  <2>3. QED BY <1>1, <2>1, <2>2
<1>4. ASSUME NEW p \in 1 .. n
      PROVE  \E x \in 0 .. Bytes - 1 : p \in row(x)
  <2>1. p - 1 \in Nat
    BY <1>1
  <2>2. PICK x \in Nat : x * ByteBits <= p - 1 /\ p - 1 < (x + 1) * ByteBits
    BY <1>1, <2>1, RowOf
  <2> DEFINE m == x * ByteBits
  <2>3. m \in Nat /\ m < p /\ p <= m + ByteBits
    BY <1>1, <2>2
  <2>4. x \in 0 .. Bytes - 1
    <3>1. SUFFICES ASSUME x >= Bytes PROVE FALSE
      BY <1>1
    <3>2. PICK y \in Nat : x = Bytes + y
      BY <1>1, <3>1
    <3>3. m = Bytes * ByteBits + y * ByteBits /\ y * ByteBits \in Nat
      BY <1>1, <3>2
    <3>4. QED BY <1>1, <2>3, <3>3
  <2>5. f[x] = IF m <= n THEN n - m ELSE 0
    BY <1>2, <2>4 DEF Rest
  <2> DEFINE b == p - m
  <2>6. b \in 1 .. ones(x) /\ p = m + b
    <3> HIDE DEF m
    <3>1. QED BY <1>1, <2>3, <2>5
  <2>7. p \in row(x)
    <3> HIDE DEF b, ones
    <3>1. QED BY <2>6
  <2>8. QED BY <2>4, <2>7
<1>5. UNION {row(x) : x \in 0 .. Bytes - 1} = 1 .. n
  <2> HIDE DEF row
  <2>1. QED BY <1>3, <1>4
<1>6. QED BY <1>5

(* setmsbit makes the mask that was asked for, in a word and byte by byte. *)
LEMMA MaskBits ==
  ASSUME NEW dom \in Domains, NEW n \in 0 .. Width(dom)
  PROVE  CidrMask(dom, n) = [dom |-> dom, bits |-> 1 .. n]
<1> DEFINE shift == InetBits - n
           word == {p + shift : p \in 1 .. InetBits} \cap (1 .. InetBits)
           left == CHOOSE f : IsLeft(f, n)
           ones(x) == IF left[x] >= ByteBits THEN ByteBits ELSE left[x]
           inet == {p - shift : p \in word}
           inet6 == UNION {{x * ByteBits + b : b \in 1 .. ones(x)} : x \in 0 .. Bytes - 1}
<1>1. n \in Nat
  BY WidthNat
<1>2. CidrMask(dom, n)
        = [dom |-> dom, bits |-> {} \cup (IF dom = "INET" THEN inet ELSE inet6)]
  <2> DEFINE a == [dom |-> dom, bits |-> {}]
  <2>1. SetMsbit(a, n) = [a EXCEPT !.bits = @ \cup (IF a.dom = "INET" THEN inet ELSE inet6)]
    BY Zenon DEF SetMsbit, IsLeft
  <2> HIDE DEF inet, inet6
  <2>2. a.dom = dom /\ a.bits = {}
    OBVIOUS
  <2>3. [a EXCEPT !.bits = @ \cup (IF a.dom = "INET" THEN inet ELSE inet6)]
          = [dom |-> dom, bits |-> {} \cup (IF dom = "INET" THEN inet ELSE inet6)]
    OBVIOUS
  <2>4. QED BY <2>1, <2>3, Zenon DEF CidrMask
<1>3. CASE dom = "INET"
  <2>1. InetBits \in Nat /\ n \in 0 .. InetBits
    BY <1>3, NetAddrAssumption DEF Width
  <2>2. \A p : p \in word <=> p \in shift + 1 .. InetBits
    <3>1. ASSUME NEW p \in shift + 1 .. InetBits PROVE p \in word
      <4>1. p - shift \in 1 .. InetBits /\ p = (p - shift) + shift /\ p \in 1 .. InetBits
        BY <2>1
      <4>2. QED BY <4>1
    <3>2. ASSUME NEW p \in word PROVE p \in shift + 1 .. InetBits
      BY <2>1
    <3>3. QED BY <3>1, <3>2
  <2>3. inet = 1 .. n
    <3> HIDE DEF word
    <3>1. ASSUME NEW q \in 1 .. n PROVE q \in inet
      <4>1. q + shift \in word /\ q = (q + shift) - shift
        BY <2>1, <2>2
      <4>2. QED BY <4>1
    <3>2. ASSUME NEW q \in inet PROVE q \in 1 .. n
      BY <2>1, <2>2
    <3>3. QED BY <3>1, <3>2
  <2>4. QED
    <3> HIDE DEF inet, inet6
    <3>1. QED BY <1>2, <1>3, <2>3
<1>4. CASE dom # "INET"
  <2>1. n \in 0 .. Bytes * ByteBits
    BY <1>4 DEF Width
  <2>2. IsLeft(left, n)
    BY <1>1, LeftIsRest, Zenon
  <2>3. inet6 = 1 .. n
    <3> HIDE DEF left
    <3>1. QED BY <2>1, <2>2, RowsOfOnes
  <2>4. QED
    <3> HIDE DEF inet, inet6
    <3>1. QED BY <1>2, <1>4, <2>3
<1>5. QED BY <1>3, <1>4

(* getmsbit reads the mask back, also when it ends within a byte.          *)
LEMMA MsbitOfMask ==
  ASSUME NEW dom \in Domains, NEW n \in 0 .. Width(dom),
         NEW a, a = [dom |-> dom, bits |-> 1 .. n]
  PROVE  GetMsbit(a) = n
<1> DEFINE upto(m, from) == {k \in 0 .. m : \A b \in 1 .. k : from + b \in 1 .. n}
           rows == {x \in 0 .. Bytes : \A b \in 1 .. x * ByteBits : b \in 1 .. n}
           full == Max(rows)
<1>1. /\ Bytes \in Nat \ {0} /\ ByteBits \in Nat \ {0} /\ InetBits \in Nat
      /\ Bytes * ByteBits \in Nat /\ n \in Nat /\ n <= Width(dom)
  BY NetAddrAssumption, WidthNat
<1>2. a.dom = dom /\ a.bits = 1 .. n
  OBVIOUS
<1>3. GetMsbit(a) = IF dom = "INET"
                    THEN Max(upto(InetBits, 0))
                    ELSE full * ByteBits
                         + (IF full = Bytes THEN 0
                            ELSE Max(upto(ByteBits, full * ByteBits)))
  BY <1>2, Zenon DEF GetMsbit
<1>4. ASSUME NEW m \in Nat, NEW from \in Nat, from <= n, n - from <= m
      PROVE  Max(upto(m, from)) = n - from
  <2> DEFINE S == upto(m, from)
             g == n - from
  <2>1. S \in SUBSET (0 .. m)
    OBVIOUS
  <2>2. g \in S
    BY <1>1, <1>4
  <2>3. \A k \in S : k <= g
    <3> g \in Nat
      BY <1>1, <1>4
    <3>1. SUFFICES ASSUME NEW k \in S, k > g PROVE FALSE
      <4>1. \A k \in S : k \in Nat
        BY <2>1
      <4> HIDE DEF S, g
      <4>2. QED BY <4>1
    <3>2. k \in Nat /\ k \in 1 .. k
      BY <1>1, <1>4, <3>1
    <3>3. from + k \in 1 .. n
      BY <3>2
    <3>4. QED BY <1>1, <1>4, <3>1, <3>2, <3>3
  <2> HIDE DEF S, g
  <2>4. Max(S) = g
    BY <2>1, <2>2, <2>3, MaxIs
  <2>5. QED BY <2>4 DEF S, g
<1>5. CASE dom = "INET"
  <2>1. n <= InetBits
    BY <1>1, <1>5 DEF Width
  <2>2. Max(upto(InetBits, 0)) = n - 0
    <3>1. 0 \in Nat /\ 0 <= n /\ n - 0 <= InetBits
      BY <1>1, <2>1
    <3> HIDE DEF upto
    <3>2. QED BY <1>1, <1>4, <3>1
  <2> HIDE DEF upto
  <2>3. QED BY <1>1, <1>3, <1>5, <2>2
<1>6. CASE dom # "INET"
  <2>1. n <= Bytes * ByteBits
    BY <1>1, <1>6 DEF Width
  <2>2. PICK x \in Nat : x * ByteBits <= n /\ n < (x + 1) * ByteBits
    BY <1>1, RowOf
  <2>3. x * ByteBits \in Nat /\ (x + 1) * ByteBits = x * ByteBits + ByteBits
    BY <1>1
  <2>4. x <= Bytes /\ (x = Bytes => n = x * ByteBits)
    <3>1. x <= Bytes
      <4>1. SUFFICES ASSUME x > Bytes PROVE FALSE
        BY <1>1
      <4>2. PICK y \in Nat : x = Bytes + 1 + y
        <5>1. x - Bytes - 1 \in Nat /\ x = Bytes + 1 + (x - Bytes - 1)
          BY <1>1, <4>1
        <5>2. QED BY <5>1
      <4>3. x * ByteBits = Bytes * ByteBits + ByteBits + y * ByteBits
            /\ y * ByteBits \in Nat
        BY <1>1, <4>2
      <4>4. QED BY <1>1, <2>1, <2>2, <2>3, <4>3
    <3>2. QED BY <1>1, <2>1, <2>2, <2>3, <3>1
  <2>5. full = x
    <3>1. rows \in SUBSET (0 .. Bytes)
      OBVIOUS
    <3>2. x \in rows
      BY <1>1, <2>2, <2>3, <2>4
    <3>3. \A y \in rows : y <= x
      <4>1. SUFFICES ASSUME NEW y \in rows, y > x PROVE FALSE
        BY <1>1
      <4>2. PICK z \in Nat : y = x + 1 + z
        <5>1. y - x - 1 \in Nat /\ y = x + 1 + (y - x - 1)
          BY <1>1, <4>1
        <5>2. QED BY <5>1
      <4>3. y * ByteBits = (x + 1) * ByteBits + z * ByteBits /\ z * ByteBits \in Nat
        BY <1>1, <4>2
      <4>4. y * ByteBits \in Nat /\ y * ByteBits > n /\ y * ByteBits >= 1
        BY <1>1, <2>2, <2>3, <4>3
      <4>5. y * ByteBits \in 1 .. y * ByteBits
        BY <4>4
      <4>6. y * ByteBits \in 1 .. n
        BY <4>5
      <4>7. QED BY <1>1, <4>4, <4>6
    <3> HIDE DEF rows
    <3>4. QED BY <1>1, <3>1, <3>2, <3>3, MaxIs
  <2> DEFINE m == x * ByteBits
  <2>6. GetMsbit(a) = m + (IF x = Bytes THEN 0 ELSE Max(upto(ByteBits, m)))
    BY <1>3, <1>6, <2>5, Zenon
  <2>7. Max(upto(ByteBits, m)) = n - m
    <3>1. m \in Nat /\ m <= n /\ n - m <= ByteBits
      BY <1>1, <2>2, <2>3
    <3> HIDE DEF upto, m
    <3>2. QED BY <1>1, <1>4, <3>1
  <2> HIDE DEF upto
  <2>8. QED BY <1>1, <2>2, <2>3, <2>4, <2>6, <2>7
<1>7. QED BY <1>5, <1>6

-----------------------------------------------------------------------------
(* The addresses of a network. *)

LEMMA QuotientOf ==
  ASSUME NEW p \in Nat \ {0}, NEW q \in Nat, NEW r \in Nat, r < p
  PROVE  (q * p + r) \div p = q
<1> DEFINE m == q * p
           d == (m + r) \div p
           e == (m + r) % p
<1>1. m \in Nat
  OBVIOUS
<1>2. d \in Int /\ e \in 0 .. p - 1 /\ m + r = p * d + e
  BY <1>1
<1>3. d = q
  <2>1. CASE d < q
    <3>1. PICK k \in Nat : q = d + 1 + k
      <4>1. q - d - 1 \in Nat /\ q = d + 1 + (q - d - 1)
        BY <1>2, <2>1
      <4>2. QED BY <4>1
    <3>2. m = p * d + p + k * p /\ k * p \in Nat
      BY <1>2, <3>1
    <3>3. QED BY <1>1, <1>2, <3>2
  <2>2. CASE d > q
    <3>1. PICK k \in Nat : d = q + 1 + k
      <4>1. d - q - 1 \in Nat /\ d = q + 1 + (d - q - 1)
        BY <1>2, <2>2
      <4>2. QED BY <4>1
    <3>2. p * d = m + p + k * p /\ k * p \in Nat
      BY <1>2, <3>1
    <3>3. QED BY <1>1, <1>2, <3>2
  <2>3. QED BY <1>2, <2>1, <2>2
<1>4. QED BY <1>3

LEMMA PowerNext ==
  /\ PowerOf2(0) = 1
  /\ \A h \in Nat : PowerOf2(h) \in Nat \ {0} /\ PowerOf2(h + 1) = 2 * PowerOf2(h)
<1> DEFINE S == {h \in Nat : PowerOf2(h) \in Nat \ {0}}
<1>1. PowerOf2(0) = 1
  BY BinaryDigits DEF PowerOf2
<1>2. ASSUME NEW h \in Nat PROVE PowerOf2(h + 1) = 2 * PowerOf2(h)
  <2>1. Binary(1, {}, h + 1) = 2 * Binary(1, {}, h) + Digit({}, h + 1)
    BY BinaryDigits
  <2>2. Digit({}, h + 1) = 0 /\ Binary(1, {}, h) \in Nat
    BY BinaryNat DEF Digit
  <2>3. QED BY <2>1, <2>2 DEF PowerOf2
<1>3. 0 \in S
  BY <1>1
<1>4. ASSUME NEW h \in S PROVE h + 1 \in S
  BY <1>2
<1>5. S = Nat
  <2>1. S \subseteq Nat
    OBVIOUS
  <2> HIDE DEF S
  <2>2. QED BY <1>3, <1>4, <2>1, SetInduction
<1>6. QED BY <1>1, <1>2, <1>5

(* The first n digits are the quotient by the power of the others.         *)
LEMMA LeadingDigits ==
  ASSUME NEW s, NEW n \in Nat, NEW h \in Nat
  PROVE  Binary(0, s, n + h) \div PowerOf2(h) = Binary(0, s, n)
<1> DEFINE q == Binary(0, s, n)
           Remains(k, r) == r \in Nat /\ r < PowerOf2(k)
                            /\ Binary(0, s, n + k) = q * PowerOf2(k) + r
           S == {k \in Nat : \E r : Remains(k, r)}
<1>1. q \in Nat
  BY BinaryNat
<1>2. 0 \in S
  <2> HIDE DEF q
  <2>1. n + 0 = n /\ q * 1 + 0 = q
    BY <1>1
  <2>2. Remains(0, 0)
    BY <2>1, PowerNext DEF q
  <2> HIDE DEF Remains
  <2>3. QED BY <2>2
<1>3. ASSUME NEW k \in S PROVE k + 1 \in S
  <2>1. PICK r : Remains(k, r)
    OBVIOUS
  <2> DEFINE p == PowerOf2(k)
             d == Digit(s, n + k + 1)
             m == q * p
  <2>2. k \in Nat /\ p \in Nat \ {0} /\ PowerOf2(k + 1) = 2 * p
    BY PowerNext
  <2>3. d \in {0, 1}
    BY DEF Digit
  <2>4. Binary(0, s, n + (k + 1)) = 2 * (m + r) + d
    <3>1. n + k \in Nat /\ n + (k + 1) = n + k + 1
      BY <2>2
    <3>2. Binary(0, s, n + k + 1) = 2 * Binary(0, s, n + k) + d
      <4>1. \A j \in Nat : Binary(0, s, j + 1) = 2 * Binary(0, s, j) + Digit(s, j + 1)
        BY BinaryDigits
      <4>2. QED BY <3>1, <4>1, Zenon
    <3>3. QED BY <2>1, <3>1, <3>2
  <2>5. m \in Nat /\ q * (2 * p) = 2 * m
    <3> HIDE DEF q, p
    <3>1. QED BY <1>1, <2>2
  <2>6. r \in Nat /\ r < p
    BY <2>1
  <2>7. 2 * r + d \in Nat /\ 2 * r + d < 2 * p /\ 2 * (m + r) + d = 2 * m + (2 * r + d)
    <3> HIDE DEF m, d, p
    <3>1. QED BY <2>2, <2>3, <2>5, <2>6
  <2>8. Remains(k + 1, 2 * r + d)
    <3> HIDE DEF m, d, p, q
    <3>1. QED BY <2>2, <2>4, <2>5, <2>7
  <2> HIDE DEF Remains
  <2>9. QED BY <2>2, <2>8
<1>4. S = Nat
  <2>1. S \subseteq Nat
    OBVIOUS
  <2> HIDE DEF S
  <2>2. QED BY <1>2, <1>3, <2>1, SetInduction
<1>5. PICK r : Remains(h, r)
  BY <1>4
<1>6. PowerOf2(h) \in Nat \ {0}
  BY PowerNext
<1> HIDE DEF q
<1>7. QED BY <1>1, <1>5, <1>6, QuotientOf DEF q

(* Two addresses are of one network of n bits if these bits agree.         *)
LEMMA SameNetwork ==
  ASSUME NEW dom \in Domains, NEW a \in Addr(dom), NEW f \in Addr(dom),
         NEW n \in 0 .. Width(dom)
  PROVE  Number(a) \div PowerOf2(Width(dom) - n) = Number(f) \div PowerOf2(Width(dom) - n)
           <=> Agree(a.bits, f.bits, n)
<1> DEFINE w == Width(dom)
           h == w - n
<1>1. w \in Nat /\ n \in Nat /\ h \in Nat /\ n + h = w
  BY WidthNat
<1>2. Number(a) = Binary(0, a.bits, n + h) /\ Number(f) = Binary(0, f.bits, n + h)
  BY <1>1, NumberNat
<1> HIDE DEF h
<1>3. /\ Number(a) \div PowerOf2(h) = Binary(0, a.bits, n)
      /\ Number(f) \div PowerOf2(h) = Binary(0, f.bits, n)
  BY <1>1, <1>2, LeadingDigits
<1>4. QED BY <1>1, <1>3, BinaryOrder DEF h

(* Between the ends of a network are the addresses that agree with the     *)
(* first one in the bits of the netmask.                                   *)
LEMMA BetweenEnds ==
  ASSUME NEW dom \in Domains, NEW n \in 0 .. Width(dom),
         NEW f \in Addr(dom), f.bits \subseteq 1 .. n,
         NEW l \in Addr(dom), l.bits = f.bits \cup (n + 1 .. Width(dom)),
         NEW a \in Addr(dom)
  PROVE  Leq(f, a) /\ Leq(a, l) <=> Agree(a.bits, f.bits, n)
<1> DEFINE w == Width(dom)
           s == a.bits
           t == f.bits
           u == l.bits
<1>1. w \in Nat /\ n \in Nat /\ n <= w
  BY WidthNat
<1>2. /\ Leq(f, a) <=> ~ \E i \in 1 .. w : First(s, t, i)
      /\ Leq(a, l) <=> ~ \E i \in 1 .. w : First(u, s, i)
  BY LessIsFirst DEF Leq
<1>3. t \subseteq 1 .. n /\ u = t \cup (n + 1 .. w)
  OBVIOUS
<1> HIDE DEF w, s, t, u
<1>4. \A p \in 1 .. n : p \in u <=> p \in t
  BY <1>1, <1>3
<1>5. ASSUME Agree(s, t, n), NEW i \in 1 .. w
      PROVE  ~ First(s, t, i) /\ ~ First(u, s, i)
  <2>1. CASE i <= n
    <3>1. i \in 1 .. n
      BY <1>1, <2>1
    <3>2. (i \in s <=> i \in t) /\ (i \in u <=> i \in t)
      BY <1>4, <1>5, <3>1 DEF Agree
    <3>3. QED BY <3>2 DEF First
  <2>2. CASE i > n
    <3>1. i \notin t /\ i \in u
      BY <1>1, <1>3, <2>2
    <3>2. QED BY <3>1 DEF First
  <2>3. QED BY <1>1, <2>1, <2>2
<1>6. ASSUME ~ Agree(s, t, n)
      PROVE  \E i \in 1 .. w : First(s, t, i) \/ First(u, s, i)
  <2>1. PICK i \in 1 .. n : First(s, t, i) \/ First(t, s, i)
    BY <1>1, <1>6, FirstDifference
  <2>2. i \in 1 .. w
    BY <1>1
  <2>3. First(t, s, i) => First(u, s, i)
    <3>1. \A p \in 1 .. i - 1 : p \in 1 .. n
      BY <1>1
    <3>2. QED BY <1>4, <3>1 DEF First, Agree
  <2>4. QED BY <2>1, <2>2, <2>3
<1>7. QED BY <1>2, <1>5, <1>6 DEF s, t, u, w

-----------------------------------------------------------------------------
(* Types. *)

Scanned == Addrs \cup {Unspec}

Texts ==
  [kind : {"range"}, first : Addrs \cup {Bad}, last : Addrs \cup {Bad}]
    \cup [kind : {"cidr"}, first : Addrs \cup {Bad}, digits : Int]
    \cup [kind : {"single"}, first : Addrs]
    \cup [kind : {"name"}, name : Names]

TypeOK ==
  /\ name \in Names
  /\ addr \in Scanned \X Scanned
  /\ text \in Texts \cup {NoText}
  /\ ok \in BOOLEAN

LEMMA AddrsOfDomain ==
  ASSUME NEW a \in Addrs
  PROVE  /\ a.dom \in Domains
         /\ a.dom # "UNSPEC"
         /\ a \in Addr(a.dom)
         /\ a.bits \subseteq 1 .. Width(a.dom)
         /\ a = [dom |-> a.dom, bits |-> a.bits]
  BY DEF Addrs, Addr, Domains

(* The bit operations are those of sets.                                   *)
LEMMA BitOperations ==
  ASSUME NEW dom, NEW a \in Addr(dom), NEW b \in Addr(dom)
  PROVE  /\ Invert(a) = [dom |-> dom, bits |-> (1 .. Width(dom)) \ a.bits]
         /\ And(a, b) = [dom |-> dom, bits |-> a.bits \cap b.bits]
         /\ Or(a, b) = [dom |-> dom, bits |-> a.bits \cup b.bits]
         /\ Xor(a, b) = [dom |-> dom, bits |-> (a.bits \ b.bits) \cup (b.bits \ a.bits)]
<1>1. a.dom = dom
  BY DEF Addr
<1>2. \A u : [a EXCEPT !.bits = u] = [dom |-> dom, bits |-> u]
  BY DEF Addr
<1>3. QED BY <1>1, <1>2, Zenon DEF Invert, And, Or, Xor

LEMMA AddrIsAddrs ==
  ASSUME NEW dom \in Domains, NEW bits \in SUBSET (1 .. Width(dom))
  PROVE  /\ [dom |-> dom, bits |-> bits] \in Addr(dom)
         /\ [dom |-> dom, bits |-> bits] \in Addrs
  BY DEF Addrs, Addr

(* Every step but reset() takes a text.                                    *)
LEMMA NextTakes ==
  ASSUME Next
  PROVE  Reset \/ \E t \in Texts : Take(t)
<1>1. ASSUME TakeRange PROVE \E t \in Texts : Take(t)
  <2>1. PICK f \in Addrs \cup {Bad}, l \in Addrs \cup {Bad} : Take(RangeText(f, l))
    BY <1>1, Zenon DEF TakeRange
  <2>2. RangeText(f, l) \in Texts
    BY DEF RangeText, Texts
  <2>3. QED BY <2>1, <2>2, Zenon
<1>2. ASSUME TakeCidr PROVE \E t \in Texts : Take(t)
  <2>1. PICK f \in Addrs \cup {Bad}, n \in Int : Take(CidrText(f, n))
    <3>1. CASE Take(CidrText(Bad, 0))
      BY <3>1
    <3>2. CASE \E f \in Addrs : \E n \in -1 .. Width(f.dom) + 1 : Take(CidrText(f, n))
      <4>1. PICK f \in Addrs : \E n \in -1 .. Width(f.dom) + 1 : Take(CidrText(f, n))
        BY <3>2
      <4>2. PICK n \in -1 .. Width(f.dom) + 1 : Take(CidrText(f, n))
        BY <4>1
      <4>3. n \in Int
        OBVIOUS
      <4>4. QED BY <4>2, <4>3
    <3>3. QED BY <1>2, <3>1, <3>2 DEF TakeCidr
  <2>2. CidrText(f, n) \in Texts
    BY DEF CidrText, Texts
  <2>3. QED BY <2>1, <2>2, Zenon
<1>3. ASSUME TakeSingle PROVE \E t \in Texts : Take(t)
  <2>1. PICK f \in Addrs : Take(SingleText(f))
    BY <1>3 DEF TakeSingle
  <2>2. SingleText(f) \in Texts
    BY DEF SingleText, Texts
  <2>3. QED BY <2>1, <2>2, Zenon
<1>4. ASSUME TakeName PROVE \E t \in Texts : Take(t)
  <2>1. PICK n \in Names : Take(NameText(n))
    BY <1>4 DEF TakeName
  <2>2. NameText(n) \in Texts
    BY DEF NameText, Texts
  <2>3. QED BY <2>1, <2>2, Zenon
<1>5. QED BY <1>1, <1>2, <1>3, <1>4 DEF Next

(* What a step with a text of one kind does.                               *)
LEMMA TakeKinds ==
  ASSUME NEW t \in Texts, Take(t)
  PROVE  /\ text' = t
         /\ \/ /\ t.kind = "range"
               /\ t.first \in Addrs \cup {Bad} /\ t.last \in Addrs \cup {Bad}
               /\ LET r == AssignRange(t.first, t.last)
                  IN  name' = r.name /\ addr' = r.addr /\ ok' = r.ok
            \/ /\ t.kind = "cidr"
               /\ t.first \in Addrs \cup {Bad} /\ t.digits \in Int
               /\ LET r == AssignCidr(t.first, t.digits)
                  IN  name' = r.name /\ addr' = r.addr /\ ok' = r.ok
            \/ /\ t.kind = "single"
               /\ t.first \in Addrs
               /\ name' = "" /\ addr' = <<t.first, t.first>> /\ ok' = TRUE
            \/ /\ t.kind = "name"
               /\ t.name \in Names
               /\ LET r == AssignName(t.name)
                  IN  name' = r.name /\ addr' = r.addr /\ ok' = r.ok
<1> DEFINE r == Assigned(t)
<1>1. text' = t /\ name' = r.name /\ addr' = r.addr /\ ok' = r.ok
  BY Zenon DEF Take
<1>2. CASE t \in [kind : {"range"}, first : Addrs \cup {Bad}, last : Addrs \cup {Bad}]
  <2>1. t.kind = "range" /\ t.first \in Addrs \cup {Bad} /\ t.last \in Addrs \cup {Bad}
    BY <1>2
  <2>2. r = AssignRange(t.first, t.last)
    BY <2>1 DEF Assigned
  <2>3. QED BY <1>1, <2>1, <2>2, Zenon
<1>3. CASE t \in [kind : {"cidr"}, first : Addrs \cup {Bad}, digits : Int]
  <2>1. t.kind = "cidr" /\ t.first \in Addrs \cup {Bad} /\ t.digits \in Int
    BY <1>3
  <2>2. r = AssignCidr(t.first, t.digits)
    BY <2>1 DEF Assigned
  <2>3. QED BY <1>1, <2>1, <2>2, Zenon
<1>4. CASE t \in [kind : {"single"}, first : Addrs]
  <2>1. t.kind = "single" /\ t.first \in Addrs
    BY <1>4
  <2>2. r = [name |-> "", addr |-> <<t.first, t.first>>, ok |-> TRUE]
    BY <2>1 DEF Assigned, Outcome
  <2> HIDE DEF r
  <2>3. r.name = "" /\ r.addr = <<t.first, t.first>>
    BY <2>2
  <2>4. r.ok = TRUE
    BY <2>2
  <2>5. QED BY <1>1, <2>1, <2>3, <2>4, Zenon
<1>5. CASE t \in [kind : {"name"}, name : Names]
  <2>1. t.kind = "name" /\ t.name \in Names
    BY <1>5
  <2>2. r = AssignName(t.name)
    BY <2>1 DEF Assigned
  <2>3. QED BY <1>1, <2>1, <2>2, Zenon
<1>6. QED BY <1>2, <1>3, <1>4, <1>5 DEF Texts

(* "a-b" is taken as the two addresses; refused, it leaves a mask that has *)
(* an old name or is not valid.                                            *)
LEMMA RangeOutcome ==
  ASSUME NEW f \in Addrs \cup {Bad}, NEW l \in Addrs \cup {Bad}
  PROVE  LET r == AssignRange(f, l) IN
         \/ /\ r.ok = TRUE
            /\ f \in Addrs /\ l \in Addrs /\ l.dom = f.dom /\ Leq(f, l)
            /\ r.name = "" /\ r.addr = <<f, l>>
         \/ /\ r.ok = FALSE
            /\ r.name = name
            /\ \/ f = Bad /\ r.addr = <<Unspec, addr[2]>>
               \/ f \in Addrs /\ r.addr = <<f, Unspec>>
               \/ f \in Addrs /\ l \in Addrs /\ r.addr = <<f, l>>
                  /\ ~ (l.dom = f.dom /\ Leq(f, l))
<1> DEFINE r == AssignRange(f, l)
<1>1. CASE f = Bad
  <2>1. r = [name |-> name, addr |-> <<Unspec, addr[2]>>, ok |-> FALSE]
    BY <1>1 DEF AssignRange, ScanAddr, Outcome
  <2> HIDE DEF r
  <2>2. r.name = name /\ r.addr = <<Unspec, addr[2]>> /\ r.ok = FALSE
    BY <2>1
  <2>3. QED BY <1>1, <2>2 DEF r
<1>2. CASE f # Bad /\ l = Bad
  <2>1. r = [name |-> name, addr |-> <<f, Unspec>>, ok |-> FALSE]
    BY <1>2 DEF AssignRange, ScanAddr, Outcome
  <2> HIDE DEF r
  <2>2. r.name = name /\ r.addr = <<f, Unspec>> /\ r.ok = FALSE
    BY <2>1
  <2>3. QED BY <1>2, <2>2 DEF r
<1>3. CASE f # Bad /\ l # Bad /\ f.dom = l.dom /\ Leq(f, l)
  <2>1. r = [name |-> "", addr |-> <<f, l>>, ok |-> TRUE]
    BY <1>3 DEF AssignRange, ScanAddr, Outcome
  <2> HIDE DEF r
  <2>2. r.name = "" /\ r.addr = <<f, l>> /\ r.ok = TRUE
    BY <2>1
  <2>3. QED BY <1>3, <2>2 DEF r
<1>4. CASE f # Bad /\ l # Bad /\ ~ (f.dom = l.dom /\ Leq(f, l))
  <2>1. r = [name |-> name, addr |-> <<f, l>>, ok |-> FALSE]
    BY <1>4 DEF AssignRange, ScanAddr, Outcome
  <2> HIDE DEF r
  <2>2. r.name = name /\ r.addr = <<f, l>> /\ r.ok = FALSE
    BY <2>1
  <2>3. QED BY <1>4, <2>2 DEF r
<1>5. QED BY <1>1, <1>2, <1>3, <1>4

(* "a/cidr" is taken as the first and the last address of the network if a *)
(* has no bits beyond the netmask.                                         *)
LEMMA CidrOutcome ==
  ASSUME NEW f \in Addrs \cup {Bad}, NEW n \in Int
  PROVE  LET r == AssignCidr(f, n)
             w == Width(f.dom)
         IN
         \/ /\ r.ok = TRUE
            /\ f \in Addrs /\ n \in 0 .. w /\ f.bits \subseteq 1 .. n
            /\ r.name = ""
            /\ r.addr = <<f, [dom |-> f.dom, bits |-> f.bits \cup (n + 1 .. w)]>>
         \/ /\ r.ok = FALSE
            /\ r.name = name
            /\ \/ f = Bad /\ r.addr = <<Unspec, addr[2]>>
               \/ f \in Addrs /\ r.addr = <<f, addr[2]>>
               \/ /\ f \in Addrs /\ n \in 0 .. w
                  /\ r.addr = <<f, [dom |-> f.dom, bits |-> 1 .. n]>>
<1> DEFINE r == AssignCidr(f, n)
           w == Width(f.dom)
           mask == CidrMask(f.dom, n)
<1>1. CASE f = Bad
  <2>1. r = [name |-> name, addr |-> <<Unspec, addr[2]>>, ok |-> FALSE]
    BY <1>1 DEF AssignCidr, ScanAddr, Outcome
  <2> HIDE DEF r
  <2>2. r.name = name /\ r.addr = <<Unspec, addr[2]>> /\ r.ok = FALSE
    BY <2>1
  <2>3. QED BY <1>1, <2>2 DEF r
<1>2. CASE f # Bad /\ n \notin 0 .. w
  <2>1. r = [name |-> name, addr |-> <<f, addr[2]>>, ok |-> FALSE]
    BY <1>2 DEF AssignCidr, ScanAddr, Outcome, CidrFits
  <2> HIDE DEF r
  <2>2. r.name = name /\ r.addr = <<f, addr[2]>> /\ r.ok = FALSE
    BY <2>1
  <2>3. QED BY <1>2, <2>2 DEF r
<1>3. CASE f # Bad /\ n \in 0 .. w
  <2>1. f \in Addrs /\ f.dom \in Domains /\ f.bits \subseteq 1 .. w
        /\ f \in Addr(f.dom) /\ f = [dom |-> f.dom, bits |-> f.bits] /\ w \in Nat
    BY <1>3, AddrsOfDomain, WidthNat
  <2>2. mask = [dom |-> f.dom, bits |-> 1 .. n]
    BY <1>3, <2>1, MaskBits
  <2>3. r = IF f # And(f, mask)
            THEN [name |-> name, addr |-> <<f, mask>>, ok |-> FALSE]
            ELSE [name |-> "", addr |-> <<f, Or(Invert(mask), f)>>, ok |-> TRUE]
    BY <1>3 DEF AssignCidr, ScanAddr, Outcome, CidrFits
  <2>4. And(f, mask) = [dom |-> f.dom, bits |-> f.bits \cap (1 .. n)]
    <3>1. mask \in Addr(f.dom) /\ mask.bits = 1 .. n
      BY <1>3, <2>1, <2>2, AddrIsAddrs
    <3> HIDE DEF mask
    <3>2. And(f, mask) = [dom |-> f.dom, bits |-> f.bits \cap mask.bits]
      BY <2>1, <3>1, BitOperations
    <3>3. QED BY <3>1, <3>2, Zenon
  <2>5. Or(Invert(mask), f) = [dom |-> f.dom, bits |-> ((1 .. w) \ (1 .. n)) \cup f.bits]
    <3>1. mask \in Addr(f.dom) /\ mask.bits = 1 .. n
      BY <1>3, <2>1, <2>2, AddrIsAddrs
    <3> DEFINE host == (1 .. w) \ (1 .. n)
    <3> HIDE DEF mask
    <3>2. Invert(mask) = [dom |-> f.dom, bits |-> host]
      BY <3>1, BitOperations
    <3>3. Invert(mask) \in Addr(f.dom) /\ Invert(mask).bits = host
      BY <2>1, <3>2, AddrIsAddrs
    <3>4. Or(Invert(mask), f) = [dom |-> f.dom, bits |-> Invert(mask).bits \cup f.bits]
      BY <2>1, <3>3, BitOperations
    <3>5. QED BY <3>3, <3>4, Zenon
  <2>6. ((1 .. w) \ (1 .. n)) \cup f.bits = f.bits \cup (n + 1 .. w)
    BY <1>3, <2>1
  <2> HIDE DEF r, w, mask
  <2>7. CASE f = And(f, mask)
    <3>1. f.bits = f.bits \cap (1 .. n)
      BY <2>1, <2>4, <2>7
    <3>2. r = [name |-> "", addr |-> <<f, Or(Invert(mask), f)>>, ok |-> TRUE]
      BY <2>3, <2>7, Zenon
    <3>3. r.name = "" /\ r.addr = <<f, Or(Invert(mask), f)>> /\ r.ok = TRUE
      BY <3>2
    <3>4. f.bits \subseteq 1 .. n
      BY <3>1
    <3>5. r.addr = <<f, [dom |-> f.dom, bits |-> f.bits \cup (n + 1 .. w)]>>
      BY <2>5, <2>6, <3>3
    <3>6. QED BY <1>3, <2>1, <3>3, <3>4, <3>5 DEF r, w
  <2>8. CASE f # And(f, mask)
    <3>1. r = [name |-> name, addr |-> <<f, mask>>, ok |-> FALSE]
      BY <2>3, <2>8, Zenon
    <3>2. r.name = name /\ r.addr = <<f, mask>> /\ r.ok = FALSE
      BY <3>1
    <3>3. QED BY <1>3, <2>1, <2>2, <3>2 DEF r, w
  <2>9. QED BY <2>7, <2>8
<1>4. QED BY <1>1, <1>2, <1>3

LEMMA NameOutcome ==
  ASSUME NEW n \in Names
  PROVE  LET r == AssignName(n) IN
         \/ r.ok = TRUE /\ r.name = n /\ n # "" /\ r.addr = <<Unspec, Unspec>>
         \/ r.ok = FALSE /\ r.name = "" /\ r.addr = <<Unspec, addr[2]>>
<1> DEFINE r == AssignName(n)
<1>1. CASE n = ""
  <2>1. r = [name |-> "", addr |-> <<Unspec, addr[2]>>, ok |-> FALSE]
    BY <1>1 DEF AssignName, Outcome
  <2> HIDE DEF r
  <2>2. r.name = "" /\ r.addr = <<Unspec, addr[2]>> /\ r.ok = FALSE
    BY <2>1
  <2>3. QED BY <2>2 DEF r
<1>2. CASE n # ""
  <2>1. r = [name |-> n, addr |-> <<Unspec, Unspec>>, ok |-> TRUE]
    BY <1>2 DEF AssignName, Outcome
  <2> HIDE DEF r
  <2>2. r.name = n /\ r.addr = <<Unspec, Unspec>> /\ r.ok = TRUE
    BY <2>1
  <2>3. QED BY <1>2, <2>2 DEF r
<1>3. QED BY <1>1, <1>2

(* The members always have their types: after a failure addr_[2] may be of *)
(* another family than addr_[0], but both are addresses or AF_UNSPEC       *)
(* (NetMask::operator=).                                                   *)
THEOREM TypeCorrect == Spec => []TypeOK
<1>1. Init => TypeOK
  <2>1. Unspec \in Scanned /\ "" \in Names
    BY DEF Scanned, Names
  <2>2. ASSUME Init PROVE name \in Names /\ addr \in Scanned \X Scanned
    BY <2>1, <2>2 DEF Init
  <2>3. QED BY <2>2, Zenon DEF Init, TypeOK
<1>2. TypeOK /\ [Next]_vars => TypeOK'
  <2> SUFFICES ASSUME TypeOK, [Next]_vars PROVE TypeOK'
    OBVIOUS
  <2>1. /\ name \in Names /\ addr[2] \in Scanned /\ "" \in Names
        /\ Unspec \in Scanned /\ Addrs \subseteq Scanned
    BY DEF TypeOK, Scanned, Names
  <2>2. ASSUME NEW t \in Texts, Take(t) PROVE TypeOK'
    <3>1. text' \in Texts
      BY <2>2, TakeKinds
    <3>2. ASSUME name' \in Names, \E x, y \in Scanned : addr' = <<x, y>>, ok' \in BOOLEAN
          PROVE  TypeOK'
      <4>1. addr' \in Scanned \X Scanned
        BY <3>2
      <4>2. QED BY <3>1, <3>2, <4>1, Zenon DEF TypeOK
    <3>3. CASE t.kind = "range"
      <4>1. t.first \in Addrs \cup {Bad} /\ t.last \in Addrs \cup {Bad}
            /\ LET r == AssignRange(t.first, t.last)
               IN  name' = r.name /\ addr' = r.addr /\ ok' = r.ok
        BY <2>2, <3>3, TakeKinds
      <4>2. ok' \in BOOLEAN /\ name' \in {"", name}
        BY <4>1, RangeOutcome
      <4>3. \E x, y \in Scanned : addr' = <<x, y>>
        BY <2>1, <4>1, RangeOutcome
      <4>4. QED BY <2>1, <3>1, <3>2, <4>2, <4>3
    <3>4. CASE t.kind = "cidr"
      <4> DEFINE f == t.first
                 n == t.digits
                 w == Width(f.dom)
      <4>1. f \in Addrs \cup {Bad} /\ n \in Int
            /\ LET r == AssignCidr(f, n)
               IN  name' = r.name /\ addr' = r.addr /\ ok' = r.ok
        BY <2>2, <3>4, TakeKinds
      <4>2. ok' \in BOOLEAN /\ name' \in {"", name}
        BY <4>1, CidrOutcome
      <4>3. ASSUME f \in Addrs, n \in 0 .. w, f.bits \subseteq 1 .. n
            PROVE  [dom |-> f.dom, bits |-> f.bits \cup (n + 1 .. w)] \in Addrs
        <5>1. f.dom \in Domains /\ w \in Nat
          BY <4>3, AddrsOfDomain, WidthNat
        <5>2. f.bits \cup (n + 1 .. w) \in SUBSET (1 .. w)
          BY <4>3, <5>1
        <5> HIDE DEF f, n
        <5>3. QED BY <5>1, <5>2, AddrIsAddrs
      <4>4. ASSUME f \in Addrs, n \in 0 .. w
            PROVE  [dom |-> f.dom, bits |-> 1 .. n] \in Addrs
        <5>1. f.dom \in Domains /\ w \in Nat
          BY <4>4, AddrsOfDomain, WidthNat
        <5>2. 1 .. n \in SUBSET (1 .. w)
          BY <4>4, <5>1
        <5> HIDE DEF f, n
        <5>3. QED BY <5>1, <5>2, AddrIsAddrs
      <4> HIDE DEF f, n
      <4>5. \E x, y \in Scanned : addr' = <<x, y>>
        BY <2>1, <4>1, <4>3, <4>4, CidrOutcome
      <4>6. QED BY <2>1, <3>1, <3>2, <4>2, <4>5
    <3>5. CASE t.kind = "single"
      <4>1. t.first \in Addrs /\ name' = "" /\ addr' = <<t.first, t.first>> /\ ok' = TRUE
        BY <2>2, <3>5, TakeKinds
      <4>2. QED BY <2>1, <3>1, <3>2, <4>1
    <3>6. CASE t.kind = "name"
      <4>1. t.name \in Names
            /\ LET r == AssignName(t.name)
               IN  name' = r.name /\ addr' = r.addr /\ ok' = r.ok
        BY <2>2, <3>6, TakeKinds
      <4>2. ok' \in BOOLEAN /\ name' \in {"", t.name}
        BY <4>1, NameOutcome
      <4>3. \E x, y \in Scanned : addr' = <<x, y>>
        BY <2>1, <4>1, NameOutcome
      <4>4. QED BY <2>1, <3>1, <3>2, <4>1, <4>2, <4>3
    <3>7. QED BY <2>2, <3>3, <3>4, <3>5, <3>6, TakeKinds
  <2>3. CASE Reset
    BY <2>1, <2>3 DEF Reset, TypeOK
  <2>4. CASE UNCHANGED vars
    BY <2>4 DEF vars, TypeOK
  <2>5. QED BY <2>2, <2>3, <2>4, NextTakes
<1>3. QED BY <1>1, <1>2, PTL DEF Spec

-----------------------------------------------------------------------------
(* What the mask holds of a text that it took. *)

Accepted ==
  Ranged =>
    /\ name = ""
    /\ text.first \in Addrs
    /\ \/ /\ text.kind = "range"
          /\ text.last \in Addr(text.first.dom) /\ Leq(text.first, text.last)
          /\ addr = <<text.first, text.last>>
       \/ /\ text.kind = "cidr"
          /\ text.digits \in 0 .. Width(text.first.dom)
          /\ text.first.bits \subseteq 1 .. text.digits
          /\ addr = <<text.first,
                      [dom |-> text.first.dom,
                       bits |-> text.first.bits
                                  \cup (text.digits + 1 .. Width(text.first.dom))]>>
       \/ text.kind = "single" /\ addr = <<text.first, text.first>>

LEMMA AcceptedCorrect == Spec => []Accepted
<1>1. Init => Accepted
  BY DEF Init, Accepted, Ranged
<1>2. Accepted /\ [Next]_vars => Accepted'
  <2> SUFFICES ASSUME Accepted, [Next]_vars PROVE Accepted'
    OBVIOUS
  <2>1. ASSUME NEW t \in Texts, Take(t) PROVE Accepted'
    <3>1. SUFFICES ASSUME ok', t.kind # "name" PROVE Accepted'
      BY <2>1, TakeKinds DEF Accepted, Ranged
    <3>2. text' = t
      BY <2>1, TakeKinds
    <3>3. CASE t.kind = "range"
      <4>1. t.first \in Addrs \cup {Bad} /\ t.last \in Addrs \cup {Bad}
            /\ LET r == AssignRange(t.first, t.last)
               IN  name' = r.name /\ addr' = r.addr /\ ok' = r.ok
        BY <2>1, <3>3, TakeKinds
      <4>2. /\ t.first \in Addrs /\ t.last \in Addrs /\ t.last.dom = t.first.dom
            /\ Leq(t.first, t.last)
            /\ name' = "" /\ addr' = <<t.first, t.last>>
        BY <3>1, <4>1, RangeOutcome
      <4>3. t.last \in Addr(t.first.dom)
        BY <4>2, AddrsOfDomain
      <4>4. QED BY <3>2, <3>3, <4>2, <4>3 DEF Accepted
    <3>4. CASE t.kind = "cidr"
      <4>1. t.first \in Addrs \cup {Bad} /\ t.digits \in Int
            /\ LET r == AssignCidr(t.first, t.digits)
               IN  name' = r.name /\ addr' = r.addr /\ ok' = r.ok
        BY <2>1, <3>4, TakeKinds
      <4>2. /\ t.first \in Addrs /\ t.digits \in 0 .. Width(t.first.dom)
            /\ t.first.bits \subseteq 1 .. t.digits
            /\ name' = ""
            /\ addr' = <<t.first,
                         [dom |-> t.first.dom,
                          bits |-> t.first.bits
                                     \cup (t.digits + 1 .. Width(t.first.dom))]>>
        BY <3>1, <4>1, CidrOutcome
      <4>3. QED BY <3>2, <3>4, <4>2 DEF Accepted
    <3>5. CASE t.kind = "single"
      <4>1. t.first \in Addrs /\ name' = "" /\ addr' = <<t.first, t.first>>
        BY <2>1, <3>5, TakeKinds
      <4>2. QED BY <3>2, <3>5, <4>1 DEF Accepted
    <3>6. QED BY <2>1, <3>1, <3>3, <3>4, <3>5, TakeKinds
  <2>2. CASE Reset
    BY <2>2 DEF Reset, Accepted, Ranged
  <2>3. CASE UNCHANGED vars
    BY <2>3 DEF vars, Accepted, Ranged
  <2>4. QED BY <2>1, <2>2, <2>3, NextTakes
<1>3. QED BY <1>1, <1>2, PTL DEF Spec

-----------------------------------------------------------------------------
(* Texts that are refused. *)

(* A mask that refused a text is valid only with the name it had, or with  *)
(* an address whose CIDR was bad: no range that is refused for its second  *)
(* address or for its order passes valid() (NetMask::operator=, valid).    *)
THEOREM RefusedCorrect == Spec => []RefusedRangeIsInvalid
<1>1. Init => RefusedRangeIsInvalid
  BY DEF Init, RefusedRangeIsInvalid
<1>2. RefusedRangeIsInvalid /\ [Next]_vars => RefusedRangeIsInvalid'
  <2> SUFFICES ASSUME RefusedRangeIsInvalid, [Next]_vars
               PROVE  RefusedRangeIsInvalid'
    OBVIOUS
  <2>1. ASSUME NEW t \in Texts, Take(t) PROVE RefusedRangeIsInvalid'
    <3>1. text' = t
      BY <2>1, TakeKinds
    <3>2. SUFFICES ASSUME ~ ok', Valid'
                   PROVE  \/ name' # "" /\ t.kind \in {"range", "cidr"} /\ t.first = Bad
                          \/ name' = "" /\ t.kind = "cidr" /\ t.first = addr'[1]
      BY <3>1, Zenon DEF RefusedRangeIsInvalid
    <3>3. /\ name' # "" => addr'[1].dom = "UNSPEC"
          /\ name' = "" => /\ addr'[1].dom # "UNSPEC"
                           /\ addr'[2].dom = addr'[1].dom
                           /\ Leq(addr'[1], addr'[2])
      BY <3>2 DEF Valid
    <3>4. Unspec.dom = "UNSPEC"
      BY DEF Unspec
    <3>5. CASE t.kind = "range"
      <4> DEFINE f == t.first
                 l == t.last
      <4>1. f \in Addrs \cup {Bad} /\ l \in Addrs \cup {Bad}
            /\ LET r == AssignRange(f, l)
               IN  name' = r.name /\ addr' = r.addr /\ ok' = r.ok
        BY <2>1, <3>5, TakeKinds
      <4> HIDE DEF f, l
      <4>2. \/ f = Bad /\ addr' = <<Unspec, addr[2]>>
            \/ f \in Addrs /\ addr' = <<f, Unspec>>
            \/ f \in Addrs /\ l \in Addrs /\ addr' = <<f, l>>
               /\ ~ (l.dom = f.dom /\ Leq(f, l))
        BY <3>2, <4>1, RangeOutcome
      <4>3. CASE f = Bad /\ addr' = <<Unspec, addr[2]>>
        <5>1. addr'[1] = Unspec
          BY <4>3
        <5>2. name' # ""
          BY <3>3, <3>4, <5>1
        <5>3. QED BY <3>5, <4>3, <5>2 DEF f
      <4>4. CASE f \in Addrs /\ addr' = <<f, Unspec>>
        <5>1. addr'[1] = f /\ addr'[2] = Unspec /\ f.dom # "UNSPEC"
          BY <4>4, AddrsOfDomain
        <5>2. QED BY <3>3, <3>4, <5>1
      <4>5. CASE f \in Addrs /\ l \in Addrs /\ addr' = <<f, l>>
                 /\ ~ (l.dom = f.dom /\ Leq(f, l))
        <5>1. addr'[1] = f /\ addr'[2] = l /\ f.dom # "UNSPEC"
          BY <4>5, AddrsOfDomain
        <5>2. QED BY <3>3, <4>5, <5>1
      <4>6. QED BY <4>2, <4>3, <4>4, <4>5
    <3>6. CASE t.kind = "cidr"
      <4> DEFINE f == t.first
                 n == t.digits
      <4>1. f \in Addrs \cup {Bad} /\ n \in Int
            /\ LET r == AssignCidr(f, n)
               IN  name' = r.name /\ addr' = r.addr /\ ok' = r.ok
        BY <2>1, <3>6, TakeKinds
      <4> HIDE DEF f, n
      <4>2. \/ f = Bad /\ addr' = <<Unspec, addr[2]>>
            \/ f \in Addrs /\ \E x : addr' = <<f, x>>
        BY <3>2, <4>1, CidrOutcome
      <4>3. CASE f = Bad /\ addr' = <<Unspec, addr[2]>>
        <5>1. addr'[1] = Unspec
          BY <4>3
        <5>2. name' # ""
          BY <3>3, <3>4, <5>1
        <5>3. QED BY <3>6, <4>3, <5>2 DEF f
      <4>4. CASE f \in Addrs /\ \E x : addr' = <<f, x>>
        <5>1. addr'[1] = f /\ f.dom # "UNSPEC"
          BY <4>4, AddrsOfDomain
        <5>2. name' = ""
          BY <3>3, <5>1
        <5>3. QED BY <3>6, <5>1, <5>2 DEF f
      <4>5. QED BY <4>2, <4>3, <4>4
    <3>7. t.kind # "single"
      BY <2>1, <3>2, TakeKinds
    <3>8. t.kind # "name"
      <4>1. SUFFICES ASSUME t.kind = "name" PROVE FALSE
        OBVIOUS
      <4>2. t.name \in Names
            /\ LET r == AssignName(t.name)
               IN  name' = r.name /\ addr' = r.addr /\ ok' = r.ok
        BY <2>1, <4>1, TakeKinds
      <4>3. name' = "" /\ addr' = <<Unspec, addr[2]>>
        BY <3>2, <4>2, NameOutcome
      <4>4. addr'[1] = Unspec
        BY <4>3
      <4>5. QED BY <3>3, <3>4, <4>3, <4>4
    <3>9. QED BY <2>1, <3>5, <3>6, <3>7, <3>8, TakeKinds
  <2>2. CASE Reset
    BY <2>2 DEF Reset, RefusedRangeIsInvalid
  <2>3. CASE UNCHANGED vars
    <3>1. name' = name /\ addr' = addr /\ text' = text /\ ok' = ok
      BY <2>3 DEF vars
    <3>2. QED BY <3>1, Zenon DEF RefusedRangeIsInvalid, Valid
  <2>4. QED BY <2>1, <2>2, <2>3, NextTakes
<1>3. QED BY <1>1, <1>2, PTL DEF Spec

-----------------------------------------------------------------------------
(* Texts that are taken. *)

LEMMA LeqOfOrder ==
  ASSUME NEW dom \in Domains, NEW f \in Addr(dom), NEW l \in Addr(dom), Leq(f, l),
         name = "", addr = <<f, l>>
  PROVE  /\ Valid
         /\ \A a : Match(a) = "yes" <=> a.dom = dom /\ Leq(f, a) /\ Leq(a, l)
<1>1. addr[1] = f /\ addr[2] = l
  OBVIOUS
<1>2. f.dom = dom /\ l.dom = dom /\ dom # "UNSPEC"
  BY DEF Addr, Domains
<1>3. Valid
  BY <1>1, <1>2 DEF Valid
<1>4. ASSUME NEW a
      PROVE  Match(a) = "yes" <=> a.dom = dom /\ Leq(f, a) /\ Leq(a, l)
  <2>1. Match(a) = IF a.dom # dom \/ Less(a, f) THEN "no"
                   ELSE IF dom # a.dom THEN "throws"
                   ELSE IF Leq(a, l) THEN "yes" ELSE "no"
    BY <1>1, <1>2, Zenon DEF Match
  <2>2. Leq(f, a) <=> ~ Less(a, f)
    BY DEF Leq
  <2>3. CASE a.dom # dom \/ Less(a, f)
    BY <2>1, <2>2, <2>3
  <2>4. CASE a.dom = dom /\ ~ Less(a, f) /\ Leq(a, l)
    BY <2>1, <2>2, <2>4
  <2>5. CASE a.dom = dom /\ ~ Less(a, f) /\ ~ Leq(a, l)
    BY <2>1, <2>2, <2>5
  <2>6. QED BY <2>3, <2>4, <2>5
<1>5. QED BY <1>3, <1>4

(* Whatever a mask held before, after it took a text it is valid and       *)
(* matches just the addresses that the text denotes, by their numbers      *)
(* (NetMask::operator=, valid, match).                                     *)
THEOREM MatchesCorrect == Spec => []MatchesWhatIsDenoted
<1>1. Accepted => MatchesWhatIsDenoted
  <2> DEFINE f == text.first
             dom == f.dom
             w == Width(dom)
  <2>1. SUFFICES ASSUME Accepted, Ranged
                 PROVE  Valid /\ \A a \in Addrs : Match(a) = "yes" <=> a \in Denoted(text)
    BY DEF MatchesWhatIsDenoted
  <2>2. name = "" /\ f \in Addrs
    BY <2>1 DEF Accepted
  <2>3. dom \in Domains /\ f \in Addr(dom) /\ w \in Nat
    BY <2>2, AddrsOfDomain, WidthNat
  <2>4. \A a \in Addrs : a.dom = dom <=> a \in Addr(dom)
    BY AddrsOfDomain DEF Addr
  <2>5. \A a \in Addr(dom) : /\ Number(a) \in Nat
                             /\ Leq(f, a) <=> Number(f) <= Number(a)
                             /\ Leq(a, f) <=> Number(a) <= Number(f)
                             /\ Number(a) = Number(f) <=> a = f
    BY <2>3, NumberNat, NumberOrder
  <2>6. CASE text.kind = "range"
    <3> DEFINE l == text.last
    <3>1. l \in Addr(dom) /\ Leq(f, l) /\ addr = <<f, l>>
      BY <2>1, <2>6 DEF Accepted
    <3>2. Valid /\ \A a : Match(a) = "yes" <=> a.dom = dom /\ Leq(f, a) /\ Leq(a, l)
      BY <2>2, <2>3, <3>1, LeqOfOrder
    <3>3. Denoted(text) = {a \in Addr(dom) : Number(a) \in Number(f) .. Number(l)}
      BY <2>6 DEF Denoted
    <3>4. ASSUME NEW a \in Addrs PROVE Match(a) = "yes" <=> a \in Denoted(text)
      <4>1. CASE a \in Addr(dom)
        <5>1. Leq(a, l) <=> Number(a) <= Number(l)
          BY <2>3, <3>1, <4>1, NumberOrder
        <5>2. Number(a) \in Number(f) .. Number(l)
                <=> Number(f) <= Number(a) /\ Number(a) <= Number(l)
          BY <2>3, <2>5, <3>1, <4>1
        <5>3. a.dom = dom
          BY <2>4, <4>1
        <5> HIDE DEF f, dom, l
        <5>4. QED BY <2>5, <3>2, <3>3, <4>1, <5>1, <5>2, <5>3
      <4>2. CASE a \notin Addr(dom)
        <5>1. a.dom # dom
          BY <2>4, <4>2
        <5> HIDE DEF f, dom, l
        <5>2. QED BY <3>2, <3>3, <4>2, <5>1
      <4>3. QED BY <4>1, <4>2
    <3>5. QED BY <3>2, <3>4
  <2>7. CASE text.kind = "cidr"
    <3> DEFINE n == text.digits
               l == [dom |-> dom, bits |-> f.bits \cup (n + 1 .. w)]
    <3>1. n \in 0 .. w /\ f.bits \subseteq 1 .. n /\ addr = <<f, l>>
      BY <2>1, <2>7 DEF Accepted
    <3>2. l \in Addr(dom) /\ l.bits = f.bits \cup (n + 1 .. w)
      <4>1. f.bits \cup (n + 1 .. w) \in SUBSET (1 .. w)
        BY <2>3, <3>1
      <4>2. QED BY <2>3, <4>1, AddrIsAddrs
    <3>3. \A a \in Addr(dom) : Leq(f, a) /\ Leq(a, l) <=> Agree(a.bits, f.bits, n)
      <4> HIDE DEF l, f, n
      <4>1. QED BY <2>3, <3>1, <3>2, BetweenEnds
    <3>4. Leq(f, l)
      <4> HIDE DEF l
      <4>1. Agree(l.bits, f.bits, n)
        BY <2>3, <3>1, <3>2 DEF Agree
      <4>2. QED BY <3>2, <3>3, <4>1
    <3>5. Valid /\ \A a : Match(a) = "yes" <=> a.dom = dom /\ Leq(f, a) /\ Leq(a, l)
      <4> HIDE DEF l, f
      <4>1. QED BY <2>2, <2>3, <3>1, <3>2, <3>4, LeqOfOrder
    <3>6. Denoted(text) = {a \in Addr(dom) : Number(a) \div PowerOf2(w - n)
                                               = Number(f) \div PowerOf2(w - n)}
      <4>1. \A a \in Addr(dom) : a.dom = dom
        BY DEF Addr
      <4>2. QED BY <2>7, <4>1 DEF Denoted
    <3>7. ASSUME NEW a \in Addrs PROVE Match(a) = "yes" <=> a \in Denoted(text)
      <4>1. CASE a \in Addr(dom)
        <5>1. a.dom = dom
          BY <2>4, <4>1
        <5>2. Number(a) \div PowerOf2(w - n) = Number(f) \div PowerOf2(w - n)
                <=> Agree(a.bits, f.bits, n)
          BY <2>3, <3>1, <4>1, SameNetwork
        <5> HIDE DEF f, dom, l, n, w
        <5>3. QED BY <3>3, <3>5, <3>6, <4>1, <5>1, <5>2
      <4>2. CASE a \notin Addr(dom)
        <5>1. a.dom # dom
          BY <2>4, <4>2
        <5> HIDE DEF f, dom, l, n, w
        <5>2. QED BY <3>5, <3>6, <4>2, <5>1
      <4>3. QED BY <4>1, <4>2
    <3>8. QED BY <3>5, <3>7
  <2>8. CASE text.kind = "single"
    <3>1. addr = <<f, f>>
      BY <2>1, <2>8 DEF Accepted
    <3>2. Leq(f, f)
      BY <2>3, <2>5
    <3>3. Valid /\ \A a : Match(a) = "yes" <=> a.dom = dom /\ Leq(f, a) /\ Leq(a, f)
      <4> HIDE DEF f
      <4>1. QED BY <2>2, <2>3, <3>1, <3>2, LeqOfOrder
    <3>4. Denoted(text) = {a \in Addr(dom) : a = f}
      BY <2>8 DEF Denoted
    <3>5. ASSUME NEW a \in Addrs PROVE Match(a) = "yes" <=> a \in Denoted(text)
      <4>1. CASE a \in Addr(dom)
        <5>1. a.dom = dom /\ Number(a) \in Nat /\ Number(f) \in Nat
          BY <2>3, <2>4, <2>5, <4>1
        <5>2. Leq(f, a) /\ Leq(a, f) <=> a = f
          BY <2>5, <4>1, <5>1
        <5> HIDE DEF f, dom
        <5>3. QED BY <3>3, <3>4, <4>1, <5>1, <5>2
      <4>2. CASE a \notin Addr(dom)
        <5>1. a.dom # dom
          BY <2>4, <4>2
        <5> HIDE DEF f, dom
        <5>2. QED BY <3>3, <3>4, <4>2, <5>1
      <4>3. QED BY <4>1, <4>2
    <3>6. QED BY <3>3, <3>5
  <2>9. QED BY <2>1, <2>6, <2>7, <2>8 DEF Accepted
<1>2. QED BY <1>1, AcceptedCorrect, PTL

-----------------------------------------------------------------------------
(* Printing. *)

(* operator<<: the ends of a network of n bits print as its first address  *)
(* and n.                                                                  *)
LEMMA PrintedNetwork ==
  ASSUME NEW dom \in Domains, NEW n \in 0 .. Width(dom),
         NEW f \in Addr(dom), f.bits \subseteq 1 .. n,
         NEW l \in Addr(dom), l.bits = f.bits \cup (n + 1 .. Width(dom)),
         addr = <<f, l>>
  PROVE  Printed = CidrText(f, n)
<1> DEFINE w == Width(dom)
           mask == Xor(f, l)
           host == n + 1 .. w
<1>1. w \in Nat /\ addr[1] = f /\ addr[2] = l
  BY WidthNat
<1>2. (f.bits \ l.bits) \cup (l.bits \ f.bits) = host
  BY <1>1
<1>3. mask = [dom |-> dom, bits |-> host]
  <2> HIDE DEF host
  <2>1. QED BY <1>2, BitOperations, Zenon
<1>4. mask \in Addr(dom) /\ mask.bits = host
  <2>1. host \in SUBSET (1 .. w)
    BY <1>1
  <2> HIDE DEF host, mask
  <2>2. QED BY <1>3, <2>1, AddrIsAddrs
<1> HIDE DEF mask, host
<1>5. IsZero(And(mask, f))
  <2>1. And(mask, f) = [dom |-> dom, bits |-> host \cap f.bits]
    BY <1>4, BitOperations
  <2>2. host \cap f.bits = {}
    BY <1>1 DEF host
  <2>3. QED BY <2>1, <2>2 DEF IsZero
<1>6. And(mask, l) = mask
  <2>1. And(mask, l) = [dom |-> dom, bits |-> host \cap l.bits]
    BY <1>4, BitOperations
  <2>2. host \cap l.bits = host
    BY <1>1 DEF host
  <2>3. QED BY <1>3, <2>1, <2>2, Zenon
<1>7. GetMsbit(Invert(mask)) = n
  <2>1. Invert(mask) = [dom |-> dom, bits |-> (1 .. w) \ host]
    BY <1>4, BitOperations
  <2>2. (1 .. w) \ host = 1 .. n
    BY <1>1 DEF host
  <2>3. QED BY <2>1, <2>2, MsbitOfMask
<1>8. QED BY <1>1, <1>5, <1>6, <1>7, Zenon DEF Printed, mask

(* A mask given as "a/cidr" is printed as it was given, and one given as   *)
(* "a" with all bits (operator<<, getmsbit, setmsbit).                     *)
THEOREM PrintsAsGiven == Spec => []CidrPrintsAsGiven
<1>1. Accepted => CidrPrintsAsGiven
  <2> DEFINE f == text.first
             dom == f.dom
             w == Width(dom)
  <2>1. SUFFICES ASSUME Accepted, Ranged, text.kind \in {"cidr", "single"}
                 PROVE  Printed = CidrText(f, IF text.kind = "cidr" THEN text.digits ELSE w)
    BY DEF CidrPrintsAsGiven
  <2>2. f \in Addrs
    BY <2>1 DEF Accepted
  <2>3. dom \in Domains /\ f \in Addr(dom) /\ w \in Nat /\ f.bits \subseteq 1 .. w
    BY <2>2, AddrsOfDomain, WidthNat
  <2>4. CASE text.kind = "cidr"
    <3> DEFINE n == text.digits
               l == [dom |-> dom, bits |-> f.bits \cup (n + 1 .. w)]
    <3>1. n \in 0 .. w /\ f.bits \subseteq 1 .. n /\ addr = <<f, l>>
      BY <2>1, <2>4 DEF Accepted
    <3>2. l \in Addr(dom) /\ l.bits = f.bits \cup (n + 1 .. w)
      <4>1. f.bits \cup (n + 1 .. w) \in SUBSET (1 .. w)
        BY <2>3, <3>1
      <4>2. QED BY <2>3, <4>1, AddrIsAddrs
    <3> HIDE DEF f, n, l
    <3>3. Printed = CidrText(f, n)
      BY <2>3, <3>1, <3>2, PrintedNetwork
    <3>4. QED BY <2>4, <3>3 DEF n
  <2>5. CASE text.kind = "single"
    <3>1. addr = <<f, f>>
      BY <2>1, <2>5 DEF Accepted
    <3>2. f.bits = f.bits \cup (w + 1 .. w) /\ w \in 0 .. w
      BY <2>3
    <3>3. Printed = CidrText(f, w)
      <4> HIDE DEF f
      <4>1. QED BY <2>3, <3>1, <3>2, PrintedNetwork
    <3>4. QED BY <2>5, <3>3
  <2>6. QED BY <2>1, <2>4, <2>5
<1>2. QED BY <1>1, AcceptedCorrect, PTL
=============================================================================
