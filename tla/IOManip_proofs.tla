----------------------------- MODULE IOManip_proofs -----------------------------
(***************************************************************************)
(* Proofs about IOManip: what put_cstr and the stream write is parsed back *)
(* field by field, for any number of fields, strings of any length and     *)
(* numbers of any width.                                                   *)
(***************************************************************************)
EXTENDS IOManip, WellFoundedInduction, SequenceTheorems, TLAPS

(* Induction over the natural numbers, with the numbers as a set.          *)
LEMMA SetInduction ==
  ASSUME NEW S, S \subseteq Nat, 0 \in S, \A n \in S : n + 1 \in S
  PROVE  S = Nat
<1> DEFINE R == {p \in Nat \X Nat : p[1] < p[2]}
           T == Nat \ S
<1>1. IsWellFoundedOn(R, Nat)
  <2>1. OpToRel(<, Nat) = R
    BY Zenon DEF OpToRel
  <2>2. QED BY <2>1, NatLessThanWellFounded, Zenon
<1>2. \A m, n \in Nat : m < n => <<m, n>> \in R
  OBVIOUS
<1>3. SUFFICES ASSUME T # {} PROVE FALSE
  OBVIOUS
<1>4. T \subseteq Nat
  OBVIOUS
<1> HIDE DEF R, T
<1>5. PICK x \in T : \A y \in T : ~ (<<y, x>> \in R)
  BY <1>1, <1>3, <1>4, WFMin, Zenon
<1>6. x \in Nat /\ x \notin S /\ x # 0
  BY <1>5 DEF T
<1>7. x - 1 \in Nat /\ x - 1 < x /\ (x - 1) + 1 = x
  BY <1>6
<1>8. x - 1 \in T
  BY <1>6, <1>7 DEF T
<1>9. QED BY <1>2, <1>5, <1>6, <1>7, <1>8

(* The same from n on to some bound.                                       *)
LEMMA RangeInduction ==
  ASSUME NEW lo \in Nat, NEW hi \in Nat, lo <= hi, NEW S, lo \in S,
         \A n \in lo .. hi - 1 : n \in S => n + 1 \in S
  PROVE  \A n \in lo .. hi : n \in S
<1> DEFINE T == {k \in Nat : lo + k <= hi => lo + k \in S}
<1>1. 0 \in T
  OBVIOUS
<1>2. ASSUME NEW k \in T PROVE k + 1 \in T
  <2>1. SUFFICES ASSUME lo + (k + 1) <= hi PROVE lo + (k + 1) \in S
    OBVIOUS
  <2>2. k \in Nat /\ lo + k \in S /\ lo + k \in lo .. hi - 1
    BY <2>1
  <2>3. (lo + k) + 1 \in S
    BY <2>2
  <2>4. (lo + k) + 1 = lo + (k + 1)
    BY <2>2
  <2>5. QED BY <2>3, <2>4
<1>3. T = Nat
  <2>1. T \subseteq Nat
    OBVIOUS
  <2> HIDE DEF T
  <2>2. QED BY <1>1, <1>2, <2>1, SetInduction
<1>4. ASSUME NEW n \in lo .. hi PROVE n \in S
  <2>1. n - lo \in T
    <3>1. n - lo \in Nat
      OBVIOUS
    <3> HIDE DEF T
    <3>2. QED BY <1>3, <3>1
  <2>2. lo + (n - lo) = n /\ n <= hi
    OBVIOUS
  <2>3. QED BY <2>1, <2>2
<1>5. QED BY <1>4

(* A set of numbers has a least one, which is its Min.                     *)
LEMMA MinOfNats ==
  ASSUME NEW S \in SUBSET Nat, S # {}
  PROVE  Min(S) \in S /\ \A y \in S : Min(S) <= y
<1> DEFINE Below == {n \in Nat : \A y \in S : n <= y}
<1>1. 0 \in Below
  OBVIOUS
<1>2. PICK y \in S : TRUE
  OBVIOUS
<1>3. y + 1 \notin Below /\ y + 1 \in Nat
  BY <1>2
<1>4. PICK n \in Below : n + 1 \notin Below
  <2>1. Below \subseteq Nat /\ Below # Nat
    BY <1>3
  <2> HIDE DEF Below
  <2>2. QED BY <1>1, <2>1, SetInduction
<1>5. n \in S
  BY <1>4
<1>6. \A z \in S : n <= z
  BY <1>4
<1>7. QED BY <1>5, <1>6, Zenon DEF Min

(* The least one is the one that is a bound.                               *)
LEMMA MinIs ==
  ASSUME NEW S \in SUBSET Nat, NEW n \in S, \A y \in S : n <= y
  PROVE  Min(S) = n
<1>1. Min(S) \in S /\ \A y \in S : Min(S) <= y
  BY MinOfNats
<1>2. n <= Min(S) /\ Min(S) <= n
  BY <1>1, Zenon
<1>3. \A x, y \in S : x <= y /\ y <= x => x = y
  OBVIOUS
<1>4. QED BY <1>1, <1>2, <1>3, Zenon

(* A function that is defined step by step over lo .. hi exists.           *)
Stepwise(f, X, b, lo, hi, step) ==
  f \in [lo .. hi -> X] /\ f[lo] = b
    /\ \A n \in lo + 1 .. hi : f[n] = step[n][f[n - 1]]

LEMMA Recursion ==
  ASSUME NEW X, NEW b \in X, NEW lo \in Nat, NEW hi \in Nat, lo <= hi,
         NEW step \in [Nat -> [X -> X]]
  PROVE  \E f : Stepwise(f, X, b, lo, hi, step)
<1> USE DEF Stepwise
<1> DEFINE F(f, k) == Stepwise(f, X, b, lo, k, step)
           S == {k \in Nat : \E f : F(f, k)}
<1>1. lo \in S
  <2> DEFINE f == [n \in lo .. lo |-> b]
  <2>1. F(f, lo)
    OBVIOUS
  <2> HIDE DEF f
  <2>2. QED BY <2>1, Zenon
<1>2. ASSUME NEW k \in lo .. hi - 1, k \in S PROVE k + 1 \in S
  <2>1. PICK f : F(f, k)
    BY <1>2
  <2> DEFINE g == [n \in lo .. k + 1 |-> IF n = k + 1 THEN step[n][f[k]] ELSE f[n]]
  <2>2. g \in [lo .. k + 1 -> X]
    BY <2>1
  <2>3. g[lo] = b
    BY <2>1
  <2>4. ASSUME NEW n \in lo + 1 .. k + 1 PROVE g[n] = step[n][g[n - 1]]
    <3>1. n - 1 \in lo .. k /\ n - 1 # k + 1 /\ n \in lo .. k + 1
      OBVIOUS
    <3>2. g[n - 1] = f[n - 1]
      BY <3>1
    <3>3. CASE n = k + 1
      <4>1. g[n] = step[n][f[k]] /\ n - 1 = k
        BY <3>1, <3>3
      <4>2. QED BY <3>2, <4>1
    <3>4. CASE n # k + 1
      <4>1. g[n] = f[n] /\ n \in lo + 1 .. k
        BY <3>1, <3>4
      <4>2. QED BY <2>1, <3>2, <4>1
    <3>5. QED BY <3>3, <3>4
  <2> HIDE DEF g
  <2>5. F(g, k + 1)
    BY <2>2, <2>3, <2>4
  <2>6. k + 1 \in Nat
    OBVIOUS
  <2>7. QED BY <2>5, <2>6
<1>3. hi \in S
  <2> HIDE DEF S
  <2>1. \A n \in lo .. hi : n \in S
    BY <1>1, <1>2, RangeInduction
  <2>2. QED BY <2>1
<1>4. QED BY <1>3

-----------------------------------------------------------------------------
(* Characters and places. *)

Chars == {Quot, Backslash, Space, Comma, "z", "-", "x"} \cup {Digits[i] : i \in 1 .. 16}

Typed == type \in Types /\ text \in Seq(Chars)

LEMMA CharFacts ==
  /\ End \notin Chars
  /\ Quot # Backslash /\ Quot # Space /\ Quot # Comma /\ Quot # End
  /\ Backslash # Space /\ Backslash # Comma /\ Space # Comma
  /\ Space # End /\ Comma # End
  /\ "-" \notin {Quot, Space, Comma, End, "0"}
  /\ "x" \notin {Quot, Space, Comma, End, "-", "0"}
BY DEF Chars, Digits, Quot, Backslash, Space, Comma, End

LEMMA DigitFacts ==
  /\ \A i \in 1 .. 16 : Digits[i] \notin {Quot, Space, Comma, End, "-", "x", "X"}
  /\ \A i, j \in 1 .. 16 : Digits[i] = Digits[j] => i = j
  /\ Digits[1] = "0"
  /\ DOMAIN Digits = 1 .. 16
BY DEF Digits, Quot, Space, Comma, End

LEMMA TypeFacts ==
  ASSUME Typed
  PROVE  /\ type.esc \in {Quot, Backslash} /\ type.brk \in {{}, {Comma}}
         /\ type.sep \in {Comma, Space} /\ type.skipws \in BOOLEAN
         /\ type.sep \in Chars
BY DEF Typed, Types, Chars

LEMMA AtFacts ==
  ASSUME Typed, NEW p \in Nat \ {0}
  PROVE  /\ p <= Len(text) => At(p) = text[p] /\ At(p) \in Chars /\ At(p) # End
         /\ p > Len(text) => At(p) = End
<1>1. text \in Seq(Chars) /\ End \notin Chars
  BY CharFacts DEF Typed
<1>2. p <= Len(text) => text[p] \in Chars
  BY <1>1
<1>3. p > Len(text) => ~ (p <= Len(text))
  BY <1>1
<1> HIDE DEF Chars
<1>4. QED BY <1>1, <1>2, <1>3, Zenon DEF At

(* The end is a place from which on there is nothing.                      *)
LEMMA EndFacts ==
  ASSUME Typed
  PROVE  /\ Len(text) \in Nat /\ Len(text) + 1 \in Nat \ {0}
         /\ At(Len(text) + 1) = End
         /\ \A p \in Nat : Places(p) \in SUBSET Nat
<1>1. Len(text) \in Nat
  BY DEF Typed
<1>2. QED BY <1>1, AtFacts DEF Places

(* Where something stands that is no space, nothing is skipped.            *)
LEMMA SkippedNone ==
  ASSUME Typed, NEW p \in Nat \ {0}, p <= Len(text) + 1, At(p) # Space
  PROVE  Skipped(p) = p
<1>1. CASE type.skipws
  <2> DEFINE S == {n \in Places(p) : At(n) # Space}
  <2>1. Places(p) \in SUBSET Nat /\ p \in Places(p) /\ \A n \in Places(p) : p <= n
    BY EndFacts DEF Places
  <2>2. S \in SUBSET Nat /\ p \in S /\ \A n \in S : p <= n
    BY <2>1
  <2>3. Min(S) = p
    <3> HIDE DEF S
    <3>1. QED BY <2>2, MinIs
  <2>4. QED BY <1>1, <2>3 DEF Skipped
<1>2. CASE ~ type.skipws
  BY <1>2 DEF Skipped
<1>3. QED BY <1>1, <1>2

(* Nothing but spaces is skipped.                                          *)
LEMMA SkippedFacts ==
  ASSUME Typed, type.skipws, NEW p \in Nat \ {0}, p <= Len(text) + 1
  PROVE  /\ Skipped(p) \in p .. Len(text) + 1
         /\ At(Skipped(p)) # Space
         /\ \A n \in p .. Len(text) + 1 : At(n) # Space => Skipped(p) <= n
<1> DEFINE S == {n \in Places(p) : At(n) # Space}
<1>1. Places(p) \in SUBSET Nat /\ Len(text) + 1 \in Places(p)
      /\ At(Len(text) + 1) # Space
  BY EndFacts, CharFacts DEF Places
<1>2. S \in SUBSET Nat /\ S # {}
  BY <1>1
<1>3. Min(S) \in S /\ \A y \in S : Min(S) <= y
  <2> HIDE DEF S
  <2>1. QED BY <1>2, MinOfNats
<1>4. Skipped(p) = Min(S)
  BY DEF Skipped
<1>5. QED BY <1>3, <1>4 DEF Places

(* An unquoted string goes up to the first character that stops it.        *)
Stops == {End} \cup type.brk \cup (IF type.skipws THEN {Space} ELSE {})

LEMMA UnquotedUpTo ==
  ASSUME Typed, NEW p \in Nat \ {0}, NEW n \in p .. Len(text) + 1,
         At(n) \in Stops, \A m \in p .. n - 1 : At(m) \notin Stops
  PROVE  Unquoted(p) = Result(SubSeq(text, p, n - 1), n, TRUE)
<1> DEFINE S == {m \in Places(p) : At(m) \in Stops}
<1>1. Places(p) \in SUBSET Nat /\ n \in Places(p)
  BY EndFacts DEF Places
<1>2. S \in SUBSET Nat /\ n \in S
  BY <1>1
<1>3. ASSUME NEW m \in S PROVE n <= m
  <2>1. m \in p .. Len(text) + 1 /\ At(m) \in Stops
    BY DEF Places
  <2>2. m \notin p .. n - 1
    BY <2>1
  <2>3. QED BY <2>1, <2>2, EndFacts
<1>4. Min(S) = n
  <2> HIDE DEF S
  <2>1. QED BY <1>2, <1>3, MinIs
<1>5. QED BY <1>4, Zenon DEF Unquoted, Stops

LEMMA UnquotedFacts ==
  ASSUME Typed, NEW p \in Nat \ {0}, p <= Len(text) + 1
  PROVE  \E n \in p .. Len(text) + 1 :
           /\ Unquoted(p) = Result(SubSeq(text, p, n - 1), n, TRUE)
           /\ At(n) \in Stops /\ \A m \in p .. n - 1 : At(m) \notin Stops
<1> DEFINE S == {m \in Places(p) : At(m) \in Stops}
<1>1. Places(p) \in SUBSET Nat /\ Len(text) + 1 \in S
  BY EndFacts DEF Places, Stops
<1>2. S \in SUBSET Nat /\ S # {}
  BY <1>1
<1>3. Min(S) \in S /\ \A y \in S : Min(S) <= y
  <2> HIDE DEF S
  <2>1. QED BY <1>2, MinOfNats
<1>4. Unquoted(p) = Result(SubSeq(text, p, Min(S) - 1), Min(S), TRUE)
  BY Zenon DEF Unquoted, Stops
<1>5. ASSUME NEW m \in p .. Min(S) - 1 PROVE At(m) \notin Stops
  <2>1. m \in Places(p) /\ ~ (Min(S) <= m)
    BY <1>3, <1>5, EndFacts DEF Places
  <2>2. QED BY <1>3, <2>1
<1>6. Min(S) \in p .. Len(text) + 1 /\ At(Min(S)) \in Stops
  BY <1>3 DEF Places
<1>7. QED BY <1>4, <1>5, <1>6, Zenon

-----------------------------------------------------------------------------
(* Numbers. *)

LEMMA StrongInduction ==
  ASSUME NEW S, S \subseteq Nat,
         \A n \in Nat : (\A m \in Nat : m < n => m \in S) => n \in S
  PROVE  S = Nat
<1> DEFINE T == {n \in Nat : \A m \in Nat : m < n => m \in S}
<1>1. 0 \in T
  OBVIOUS
<1>2. ASSUME NEW n \in T PROVE n + 1 \in T
  <2>1. n \in S
    OBVIOUS
  <2>2. QED BY <2>1
<1>3. T = Nat
  <2>1. T \subseteq Nat
    OBVIOUS
  <2> HIDE DEF T
  <2>2. QED BY <1>1, <1>2, <2>1, SetInduction
<1>4. QED BY <1>3

LEMMA DivFacts ==
  ASSUME NEW base \in Bases, NEW n \in Nat
  PROVE  /\ base \in Nat /\ base \in 1 .. 16
         /\ n \div base \in Nat /\ n % base \in 0 .. base - 1
         /\ n = base * (n \div base) + (n % base)
         /\ n >= base => n \div base < n /\ n \div base > 0
         /\ n < base => n % base = n
<1>1. CASE base = 8
  BY <1>1
<1>2. CASE base = 10
  BY <1>2
<1>3. CASE base = 16
  BY <1>3
<1>4. QED BY <1>1, <1>2, <1>3, Zenon DEF Bases

LEMMA DigitPlace ==
  ASSUME NEW base \in Bases, NEW n \in Nat
  PROVE  /\ (n % base) + 1 \in 1 .. base /\ (n % base) + 1 \in 1 .. 16
         /\ base \in 1 .. 16 /\ n % base \in Nat
<1> DEFINE r == n % base
<1>1. r \in 0 .. base - 1
  BY DivFacts, Zenon
<1>2. base \in 8 .. 16
  BY DEF Bases
<1> HIDE DEF r
<1>3. r + 1 \in 1 .. base /\ r + 1 \in 1 .. 16 /\ base \in 1 .. 16 /\ r \in Nat
  BY <1>1, <1>2
<1>4. QED BY <1>3 DEF r

(* The last digit behind the others.                                       *)
LastDigit(base, n, others) == Append(IF n < base THEN <<>> ELSE others, Digits[(n % base) + 1])

IsNumeral(f, base, n) == f = [m \in 0 .. n |-> LastDigit(base, m, f[m \div base])]

LEMMA NumeralExists ==
  ASSUME NEW base \in Bases, NEW n \in Nat
  PROVE  \E f : IsNumeral(f, base, n)
<1> DEFINE S == {k \in Nat : \E f : IsNumeral(f, base, k)}
<1>1. 0 \in S
  <2> DEFINE f == [m \in 0 .. 0 |-> LastDigit(base, m, <<>>)]
  <2>1. 0 < base
    BY DivFacts
  <2>2. \A m \in 0 .. 0 : LastDigit(base, m, <<>>) = LastDigit(base, m, f[m \div base])
    BY <2>1 DEF LastDigit
  <2>3. f = [m \in 0 .. 0 |-> LastDigit(base, m, f[m \div base])]
    BY <2>2, Zenon
  <2> HIDE DEF f
  <2>4. IsNumeral(f, base, 0)
    BY <2>3, Zenon DEF IsNumeral
  <2>5. QED BY <2>4
<1>2. ASSUME NEW k \in S PROVE k + 1 \in S
  <2>1. k \in Nat
    OBVIOUS
  <2>2. PICK f : IsNumeral(f, base, k)
    OBVIOUS
  <2>3. \A m \in 0 .. k : f[m] = LastDigit(base, m, f[m \div base])
    BY <2>2, Zenon DEF IsNumeral
  <2> DEFINE d == (k + 1) \div base
             g == [m \in 0 .. k + 1 |-> IF m = k + 1 THEN LastDigit(base, m, f[d]) ELSE f[m]]
  <2>4. ASSUME NEW m \in 0 .. k + 1 PROVE g[m] = LastDigit(base, m, g[m \div base])
    <3>1. CASE m < base
      <4>1. \A e1, e2 : LastDigit(base, m, e1) = LastDigit(base, m, e2)
        BY <3>1, Zenon DEF LastDigit
      <4>2. m # k + 1 => m \in 0 .. k
        BY <2>1
      <4>3. CASE m = k + 1
        <5>1. g[m] = LastDigit(base, m, f[d])
          BY <4>3, Zenon
        <5>2. QED BY <4>1, <5>1, Zenon
      <4>4. CASE m # k + 1
        <5>1. g[m] = f[m] /\ f[m] = LastDigit(base, m, f[m \div base])
          BY <2>3, <4>2, <4>4, Zenon
        <5>2. QED BY <4>1, <5>1, Zenon
      <4>5. QED BY <4>3, <4>4
    <3>2. CASE ~ (m < base)
      <4>1. m \in Nat /\ m <= k + 1
        BY <2>1
      <4>2. m \div base \in Nat /\ m \div base < m
        BY <3>2, <4>1, DivFacts
      <4>3. m \div base \in 0 .. k + 1 /\ m \div base # k + 1
        BY <2>1, <4>1, <4>2
      <4>4. g[m \div base] = f[m \div base]
        BY <4>3, Zenon
      <4>5. CASE m = k + 1
        <5>1. g[m] = LastDigit(base, m, f[m \div base])
          BY <4>5, Zenon
        <5>2. QED BY <4>4, <5>1, Zenon
      <4>6. CASE m # k + 1
        <5>1. m \in 0 .. k
          BY <2>1, <4>6
        <5>2. g[m] = f[m]
          BY <4>6, Zenon
        <5>3. QED BY <2>3, <4>4, <5>1, <5>2, Zenon
      <4>7. QED BY <4>5, <4>6
    <3>3. QED BY <3>1, <3>2
  <2>5. g = [m \in 0 .. k + 1 |-> g[m]]
    OBVIOUS
  <2> HIDE DEF g
  <2>6. IsNumeral(g, base, k + 1)
    BY <2>4, <2>5, Zenon DEF IsNumeral
  <2>7. QED BY <2>1, <2>6
<1>3. S = Nat
  <2>1. S \subseteq Nat
    OBVIOUS
  <2> HIDE DEF S
  <2>2. QED BY <1>1, <1>2, <2>1, SetInduction
<1>4. QED BY <1>3

LEMMA NumeralUnique ==
  ASSUME NEW base \in Bases, NEW m \in Nat, NEW n \in Nat, NEW f, NEW g,
         IsNumeral(f, base, m), IsNumeral(g, base, n),
         NEW q \in Nat, q <= m, q <= n
  PROVE  f[q] = g[q]
<1> DEFINE S == {k \in Nat : k <= m /\ k <= n => f[k] = g[k]}
<1>1. /\ \A k \in 0 .. m : f[k] = LastDigit(base, k, f[k \div base])
      /\ \A k \in 0 .. n : g[k] = LastDigit(base, k, g[k \div base])
  BY Zenon DEF IsNumeral
<1>2. ASSUME NEW k \in Nat, \A j \in Nat : j < k => j \in S PROVE k \in S
  <2>1. SUFFICES ASSUME k <= m, k <= n PROVE f[k] = g[k]
    OBVIOUS
  <2>2. k \in 0 .. m /\ k \in 0 .. n
    BY <2>1
  <2>3. f[k] = LastDigit(base, k, f[k \div base]) /\ g[k] = LastDigit(base, k, g[k \div base])
    BY <1>1, <2>2, Zenon
  <2>4. CASE k < base
    BY <2>3, <2>4, Zenon DEF LastDigit
  <2>5. CASE ~ (k < base)
    <3>1. k \div base \in Nat /\ k \div base < k
      BY <2>5, DivFacts
    <3>2. k \div base <= m /\ k \div base <= n /\ k \div base \in S
      BY <1>2, <2>1, <3>1
    <3>3. f[k \div base] = g[k \div base]
      BY <3>2
    <3>4. QED BY <2>3, <3>3, Zenon
  <2>6. QED BY <2>4, <2>5
<1>3. S = Nat
  <2>1. S \subseteq Nat
    OBVIOUS
  <2> HIDE DEF S
  <2>2. QED BY <1>2, <2>1, StrongInduction
<1>4. QED BY <1>3

(* What Numeral is, the last digit behind the others.                      *)
LEMMA NumeralDigits ==
  ASSUME NEW base \in Bases, NEW n \in Nat
  PROVE  Numeral(base, n) = LastDigit(base, n, Numeral(base, n \div base))
<1>1. ASSUME NEW k \in Nat
      PROVE  \E f : IsNumeral(f, base, k) /\ Numeral(base, k) = f[k]
  <2> DEFINE f == CHOOSE h : IsNumeral(h, base, k)
  <2>1. IsNumeral(f, base, k)
    BY NumeralExists, Zenon
  <2>2. Numeral(base, k) = f[k]
    BY Zenon DEF Numeral, IsNumeral, LastDigit
  <2> HIDE DEF f
  <2>3. QED BY <2>1, <2>2, Zenon
<1>2. PICK f : IsNumeral(f, base, n) /\ Numeral(base, n) = f[n]
  BY <1>1
<1>3. n \in 0 .. n
  OBVIOUS
<1>4. f[n] = LastDigit(base, n, f[n \div base])
  BY <1>2, <1>3, Zenon DEF IsNumeral
<1>5. CASE n < base
  BY <1>2, <1>4, <1>5, Zenon DEF LastDigit
<1>6. CASE ~ (n < base)
  <2> DEFINE q == n \div base
  <2>1. q \in Nat /\ q <= n /\ q <= q
    <3>1. base \in Nat /\ n >= base
      BY <1>6, DivFacts
    <3>2. q \in Nat /\ q < n
      BY <3>1, DivFacts
    <3> HIDE DEF q
    <3>3. QED BY <3>2
  <2>2. PICK g : IsNumeral(g, base, n \div base)
                 /\ Numeral(base, n \div base) = g[n \div base]
    BY <1>1, <2>1, Zenon
  <2>3. f[n \div base] = g[n \div base]
    <3>1. IsNumeral(f, base, n) /\ IsNumeral(g, base, n \div base)
      BY <1>2, <2>2
    <3>2. IsNumeral(g, base, q)
      BY <3>1
    <3> HIDE DEF q
    <3>3. f[q] = g[q]
      BY <2>1, <3>1, <3>2, NumeralUnique
    <3>4. QED BY <3>3 DEF q
  <2>4. QED BY <1>2, <1>4, <2>2, <2>3, Zenon
<1>7. QED BY <1>5, <1>6

LEMMA DigitValues ==
  ASSUME NEW base \in Bases
  PROVE  /\ DigitsOf(base) = {Digits[i] : i \in 1 .. base} /\ base \in 8 .. 16
         /\ \A i \in 1 .. 16 : DigitVal(Digits[i]) = i - 1
         /\ DigitsOf(base) \cap {Quot, Space, Comma, End, "-", "x", "X"} = {}
         /\ DigitsOf(base) \subseteq Chars
<1>1. base \in 8 .. 16
  BY DEF Bases
<1>2. ASSUME NEW i \in 1 .. 16 PROVE DigitVal(Digits[i]) = i - 1
  <2> DEFINE j == CHOOSE j \in DOMAIN Digits : Digits[j] = Digits[i]
  <2>1. j \in DOMAIN Digits /\ Digits[j] = Digits[i]
    BY DigitFacts, Zenon
  <2>2. j = i
    BY <2>1, DigitFacts, Zenon
  <2>3. QED BY <2>2 DEF DigitVal
<1>3. DigitsOf(base) = {Digits[i] : i \in 1 .. base}
  BY DEF DigitsOf
<1>4. \A c \in DigitsOf(base) : \E i \in 1 .. 16 : c = Digits[i]
  BY <1>1, <1>3
<1>5. DigitsOf(base) \subseteq Chars
  BY <1>4 DEF Chars
<1>6. \A c \in DigitsOf(base) : c \notin {Quot, Space, Comma, End, "-", "x", "X"}
  BY <1>4, DigitFacts, Zenon
<1>7. QED BY <1>1, <1>2, <1>3, <1>5, <1>6

(* A numeral is digits, and the first is a 0 only when the number is.      *)
LEMMA NumeralFacts ==
  ASSUME NEW base \in Bases
  PROVE  \A n \in Nat : /\ Numeral(base, n) \in Seq(DigitsOf(base))
                        /\ Len(Numeral(base, n)) >= 1
                        /\ n > 0 => Numeral(base, n)[1] # "0"
                        /\ n = 0 => Numeral(base, n) = <<"0">>
<1> DEFINE Right(n) == /\ Numeral(base, n) \in Seq(DigitsOf(base))
                       /\ Len(Numeral(base, n)) >= 1
                       /\ n > 0 => Numeral(base, n)[1] # "0"
                       /\ n = 0 => Numeral(base, n) = <<"0">>
           S == {n \in Nat : Right(n)}
<1>1. ASSUME NEW n \in Nat, \A m \in Nat : m < n => m \in S PROVE n \in S
  <2> DEFINE c == Digits[(n % base) + 1]
             q == n \div base
  <2>1. (n % base) + 1 \in 1 .. base /\ base \in 1 .. 16 /\ (n % base) + 1 \in 1 .. 16
    BY DigitPlace
  <2>2. c \in DigitsOf(base)
    BY <2>1, DigitValues
  <2>3. CASE n < base
    <3>1. Numeral(base, n) = Append(<<>>, c)
      BY <2>3, NumeralDigits, Zenon DEF LastDigit
    <3>2. n % base = n
      BY <2>3, DivFacts
    <3>3. n > 0 => c # "0"
      <4>1. n > 0 => n + 1 # 1 /\ n + 1 \in 1 .. 16
        BY <2>1, <3>2
      <4>2. n > 0 => Digits[n + 1] # Digits[1]
        BY <4>1, DigitFacts
      <4>3. QED BY <3>2, <4>2, DigitFacts
    <3>4. n = 0 => c = "0"
      BY <3>2, DigitFacts
    <3> HIDE DEF c
    <3>5. Numeral(base, n) = <<c>>
      BY <3>1, Z3
    <3>6. <<c>> \in Seq(DigitsOf(base)) /\ Len(<<c>>) >= 1 /\ <<c>>[1] = c
      BY <2>2
    <3>7. QED BY <3>3, <3>4, <3>5, <3>6, Zenon
  <2>4. CASE ~ (n < base)
    <3>1. Numeral(base, n) = Append(Numeral(base, q), c)
      BY <2>4, NumeralDigits, Zenon DEF LastDigit
    <3>2. q \in Nat /\ q < n /\ q > 0 /\ n # 0
      <4>1. n >= base /\ n # 0
        <5>1. base \in 8 .. 16
          BY DEF Bases
        <5>2. QED BY <2>4, <5>1
      <4>2. QED BY <4>1, DivFacts
    <3> HIDE DEF c, q
    <3>3. Right(q)
      BY <1>1, <3>2
    <3> DEFINE t == Numeral(base, q)
    <3>4. t \in Seq(DigitsOf(base)) /\ Len(t) >= 1 /\ t[1] # "0"
      BY <3>2, <3>3
    <3> HIDE DEF t
    <3>5. Numeral(base, n) = Append(t, c)
      BY <3>1 DEF t
    <3>6. Append(t, c) \in Seq(DigitsOf(base)) /\ Len(Append(t, c)) >= 1
          /\ Append(t, c)[1] # "0"
      BY <2>2, <3>4
    <3>7. QED BY <3>2, <3>5, <3>6, Zenon
  <2>5. QED BY <2>3, <2>4
<1>2. S = Nat
  <2>1. S \subseteq Nat
    OBVIOUS
  <2> HIDE DEF S
  <2>2. QED BY <1>1, <2>1, StrongInduction
<1>3. QED BY <1>2

(* The characters of w stand in the text from place p on.                  *)
Holds(p, w) ==
  p + Len(w) <= Len(text) + 1 /\ \A k \in 1 .. Len(w) : text[p + k - 1] = w[k]

(* Adding up the digits of a numeral gives its number.                     *)
LEMMA NumeralValue ==
  ASSUME NEW base \in Bases, NEW p \in Nat \ {0}, NEW e \in Nat, NEW value,
         value[p] = 0,
         \A m \in p + 1 .. e : value[m] = base * value[m - 1] + DigitVal(text[m - 1])
  PROVE  \A n \in Nat : LET w == Numeral(base, n)
                        IN  Holds(p, w) /\ p + Len(w) <= e => value[p + Len(w)] = n
<1> DEFINE W(n) == Numeral(base, n)
           Right(n) == Holds(p, W(n)) /\ p + Len(W(n)) <= e => value[p + Len(W(n))] = n
           S == {n \in Nat : Right(n)}
<1>1. ASSUME NEW n \in Nat, \A m \in Nat : m < n => m \in S PROVE n \in S
  <2> DEFINE c == Digits[(n % base) + 1]
             q == n \div base
  <2>1. SUFFICES ASSUME Holds(p, W(n)), p + Len(W(n)) <= e
                 PROVE  value[p + Len(W(n))] = n
    OBVIOUS
  <2>2. DigitVal(c) = n % base
    <3>1. (n % base) + 1 \in 1 .. 16 /\ n % base \in Nat
      BY DigitPlace
    <3>2. DigitVal(c) = ((n % base) + 1) - 1
      BY <3>1, DigitValues
    <3>3. QED BY <3>1, <3>2
  <2>3. base \in Nat /\ n % base \in Nat /\ n = base * q + (n % base)
    BY DigitPlace, DivFacts, Zenon
  <2>4. CASE n < base
    <3>1. W(n) = Append(<<>>, c)
      BY <2>4, NumeralDigits, Zenon DEF LastDigit
    <3>2. n % base = n
      BY <2>4, DivFacts
    <3> HIDE DEF c
    <3>3. W(n) = <<c>>
      BY <3>1, Z3
    <3> HIDE DEF W
    <3>4. Len(W(n)) = 1 /\ text[p] = c
      BY <2>1, <3>3 DEF Holds
    <3>5. p + 1 \in p + 1 .. e /\ (p + 1) - 1 = p
      BY <2>1, <3>4
    <3>6. value[p + 1] = base * 0 + DigitVal(c)
      BY <3>4, <3>5
    <3>7. base * 0 = 0
      BY <2>3
    <3>8. QED BY <2>2, <2>3, <3>2, <3>4, <3>6, <3>7
  <2>5. CASE ~ (n < base)
    <3>1. W(n) = Append(W(q), c)
      BY <2>5, NumeralDigits, Zenon DEF LastDigit
    <3>2. q \in Nat /\ q < n
      <4>1. n >= base
        <5>1. base \in 8 .. 16
          BY DEF Bases
        <5>2. QED BY <2>5, <5>1
      <4>2. QED BY <4>1, DivFacts
    <3>3. W(q) \in Seq(DigitsOf(base))
      <4> HIDE DEF q
      <4>1. QED BY <3>2, NumeralFacts
    <3> HIDE DEF c, q
    <3>4. Right(q)
      BY <1>1, <3>2
    <3> DEFINE l == Len(W(q))
    <3> HIDE DEF W
    <3>5. /\ l \in Nat /\ Len(W(n)) = l + 1 /\ W(n)[l + 1] = c
          /\ \A k \in 1 .. l : W(n)[k] = W(q)[k]
      BY <3>1, <3>3
    <3>6. Holds(p, W(q)) /\ p + l <= e
      BY <2>1, <3>5 DEF Holds
    <3>7. value[p + l] = q
      BY <3>4, <3>6
    <3>8. text[p + l] = c
      <4>1. l + 1 \in 1 .. Len(W(n)) /\ p + (l + 1) - 1 = p + l
        BY <3>5
      <4>2. QED BY <2>1, <3>5, <4>1 DEF Holds
    <3>9. p + (l + 1) \in p + 1 .. e /\ (p + (l + 1)) - 1 = p + l
      BY <2>1, <3>5
    <3>10. value[p + (l + 1)] = base * q + DigitVal(c)
      BY <3>7, <3>8, <3>9
    <3>11. QED BY <2>2, <2>3, <3>5, <3>10
  <2>6. QED BY <2>4, <2>5
<1>2. S = Nat
  <2>1. S \subseteq Nat
    OBVIOUS
  <2> HIDE DEF S
  <2>2. QED BY <1>1, <2>1, StrongInduction
<1>3. QED BY <1>2

IsSum(f, base, p, e) ==
  f = [m \in p .. e |-> IF m = p THEN 0 ELSE base * f[m - 1] + DigitVal(text[m - 1])]

LEMMA SumExists ==
  ASSUME NEW base \in Bases, NEW p \in Nat, NEW e \in Nat, p <= e,
         \A m \in p + 1 .. e : text[m - 1] \in DigitsOf(base)
  PROVE  \E f : IsSum(f, base, p, e)
<1> DEFINE d(m) == IF m \in p + 1 .. e THEN DigitVal(text[m - 1]) ELSE 0
           step == [m \in Nat |-> [v \in Nat |-> base * v + d(m)]]
<1>1. ASSUME NEW m \in p + 1 .. e PROVE DigitVal(text[m - 1]) \in Nat
  <2>1. PICK i \in 1 .. base : text[m - 1] = Digits[i]
    BY DigitValues
  <2>2. i \in 1 .. 16 /\ i - 1 \in Nat
    BY DigitValues
  <2>3. QED BY <2>1, <2>2, DigitValues
<1>2. \A m \in Nat : d(m) \in Nat
  BY <1>1
<1>3. base \in Nat
  BY DEF Bases
<1> HIDE DEF d
<1>4. \A m \in Nat : \A v \in Nat : base * v + d(m) \in Nat
  BY <1>2, <1>3
<1>5. step \in [Nat -> [Nat -> Nat]]
  BY <1>4
<1>6. \A m \in Nat : \A v \in Nat : step[m][v] = base * v + d(m)
  OBVIOUS
<1> HIDE DEF step
<1>7. PICK f : Stepwise(f, Nat, 0, p, e, step)
  <2>1. 0 \in Nat
    OBVIOUS
  <2>2. \E f : Stepwise(f, Nat, 0, p, e, step)
    BY <1>5, <2>1, Recursion
  <2>3. QED BY <2>2
<1>8. \A m \in p .. e : f[m] \in Nat
  BY <1>7 DEF Stepwise
<1>9. ASSUME NEW m \in p .. e, m # p
      PROVE  step[m][f[m - 1]] = base * f[m - 1] + DigitVal(text[m - 1])
  <2>1. m - 1 \in p .. e /\ m \in Nat /\ m \in p + 1 .. e
    BY <1>9
  <2>2. d(m) = DigitVal(text[m - 1])
    BY <2>1 DEF d
  <2>3. f[m - 1] \in Nat
    BY <1>8, <2>1
  <2>4. QED BY <1>6, <2>1, <2>2, <2>3
<1>10. f = [m \in p .. e |-> IF m = p THEN 0 ELSE base * f[m - 1] + DigitVal(text[m - 1])]
  <2>1. f = [m \in p .. e |-> f[m]]
    BY <1>7 DEF Stepwise
  <2>2. f[p] = 0 /\ \A m \in p + 1 .. e : f[m] = step[m][f[m - 1]]
    BY <1>7, Zenon DEF Stepwise
  <2>3. \A m \in p .. e : m # p => m \in p + 1 .. e
    OBVIOUS
  <2>4. \A m \in p .. e :
          f[m] = IF m = p THEN 0 ELSE base * f[m - 1] + DigitVal(text[m - 1])
    BY <1>9, <2>2, <2>3, Zenon
  <2>5. QED BY <2>1, <2>4, Zenon
<1>11. QED BY <1>10 DEF IsSum

(* The digits of a numeral are read as its number.                         *)
LEMMA DigitsRead ==
  ASSUME Typed, NEW base \in Bases, NEW p \in Nat \ {0}, NEW n \in Nat,
         Holds(p, Numeral(base, n)),
         At(p + Len(Numeral(base, n))) \notin DigitsOf(base)
  PROVE  GetDigits(base, p) = Result(n, p + Len(Numeral(base, n)), TRUE)
<1> DEFINE w == Numeral(base, n)
           e == p + Len(w)
           S == {m \in Places(p) : At(m) \notin DigitsOf(base)}
<1>1. w \in Seq(DigitsOf(base)) /\ Len(w) >= 1
  BY NumeralFacts
<1> HIDE DEF w
<1>2. /\ Len(w) \in Nat /\ e \in Nat /\ e > p /\ e <= Len(text) + 1
      /\ \A k \in 1 .. Len(w) : text[p + k - 1] = w[k]
      /\ At(e) \notin DigitsOf(base)
  BY <1>1 DEF Holds, w
<1>3. ASSUME NEW m \in p .. e - 1
      PROVE  text[m] \in DigitsOf(base) /\ At(m) \in DigitsOf(base)
  <2>1. (m - p) + 1 \in 1 .. Len(w) /\ p + ((m - p) + 1) - 1 = m
    BY <1>2
  <2>2. text[m] = w[(m - p) + 1] /\ w[(m - p) + 1] \in DigitsOf(base)
    BY <1>1, <1>2, <2>1
  <2>3. m \in Nat \ {0} /\ m <= Len(text)
    BY <1>2, EndFacts
  <2>4. QED BY <2>2, <2>3, AtFacts
<1>4. Min(S) = e
  <2>1. Places(p) \in SUBSET Nat /\ e \in Places(p)
    BY <1>2, EndFacts DEF Places
  <2>2. S \in SUBSET Nat /\ e \in S
    BY <1>2, <2>1
  <2>3. ASSUME NEW m \in S PROVE e <= m
    <3>1. m \in p .. Len(text) + 1 /\ At(m) \notin DigitsOf(base)
      BY DEF Places
    <3>2. m \notin p .. e - 1
      BY <1>3, <3>1
    <3>3. QED BY <1>2, <3>1, <3>2, EndFacts
  <2> HIDE DEF S, e
  <2>4. QED BY <2>2, <2>3, MinIs
<1> DEFINE f == CHOOSE g : IsSum(g, base, p, e)
<1>5. IsSum(f, base, p, e)
  <2>1. \A m \in p + 1 .. e : m - 1 \in p .. e - 1
    BY <1>2
  <2>2. \A m \in p + 1 .. e : text[m - 1] \in DigitsOf(base)
    BY <1>3, <2>1
  <2>3. \E g : IsSum(g, base, p, e)
    <3> HIDE DEF e
    <3>1. QED BY <1>2, <2>2, SumExists
  <2>4. QED BY <2>3, Zenon
<1>6. GetDigits(base, p) = Result(f[e], e, e > p)
  BY <1>4, Zenon DEF GetDigits, IsSum
<1>7. f[e] = n
  <2> HIDE DEF f
  <2>1. f[p] = 0
    BY <1>2, <1>5 DEF IsSum
  <2>2. ASSUME NEW m \in p + 1 .. e
        PROVE  f[m] = base * f[m - 1] + DigitVal(text[m - 1])
    <3>1. m \in p .. e /\ m # p
      BY <1>2
    <3>2. QED BY <1>5, <3>1, Zenon DEF IsSum
  <2>3. e \in Nat /\ Holds(p, w) /\ e <= e
    BY <1>2 DEF w
  <2>4. Holds(p, w) /\ e <= e => f[e] = n
    BY <2>1, <2>2, <2>3, NumeralValue DEF w
  <2>5. QED BY <2>3, <2>4
<1>8. (e > p) = TRUE
  BY <1>2
<1>9. QED BY <1>6, <1>7, <1>8 DEF w

(* w stands in the text at place p, and the end or the separator behind it.  *)
Stands(p, w) == p \in Nat \ {0} /\ Holds(p, w) /\ At(p + Len(w)) \in {End, type.sep}

LEMMA HeldAt ==
  ASSUME Typed, NEW p \in Nat \ {0}, NEW w \in Seq(Chars), Holds(p, w),
         NEW k \in 1 .. Len(w)
  PROVE  At(p + k - 1) = w[k] /\ text[p + k - 1] = w[k] /\ w[k] # End
<1>1. Len(w) \in Nat /\ Len(text) \in Nat
  BY EndFacts
<1>2. p + k - 1 \in Nat \ {0} /\ p + k - 1 <= Len(text)
  BY <1>1 DEF Holds
<1>3. w[k] \in Chars
  OBVIOUS
<1>4. QED BY <1>2, <1>3, AtFacts, CharFacts DEF Holds

LEMMA ConcatFacts ==
  ASSUME NEW a \in Seq(Chars), NEW w \in Seq(Chars)
  PROVE  /\ Len(a) \in Nat /\ Len(w) \in Nat /\ Len(a \o w) = Len(a) + Len(w)
         /\ a \o w \in Seq(Chars)
         /\ \A k \in 1 .. Len(a) : (a \o w)[k] = a[k]
         /\ \A k \in 1 .. Len(w) : (a \o w)[Len(a) + k] = w[k]
OBVIOUS

LEMMA StandsBehind ==
  ASSUME NEW p, NEW a \in Seq(Chars), NEW w \in Seq(Chars), Stands(p, a \o w)
  PROVE  Stands(p + Len(a), w) /\ p + Len(a \o w) = (p + Len(a)) + Len(w)
<1> HIDE DEF Chars
<1>1. /\ Len(a) \in Nat /\ Len(w) \in Nat /\ Len(a \o w) = Len(a) + Len(w)
      /\ \A k \in 1 .. Len(w) : Len(a) + k \in 1 .. Len(a \o w)
                                /\ (a \o w)[Len(a) + k] = w[k]
  OBVIOUS
<1>2. p \in Nat \ {0}
  BY DEF Stands
<1>3. p + Len(a \o w) = (p + Len(a)) + Len(w)
  BY <1>1, <1>2
<1>4. ASSUME NEW k \in 1 .. Len(w) PROVE text[(p + Len(a)) + k - 1] = w[k]
  <2>1. p + (Len(a) + k) - 1 = (p + Len(a)) + k - 1
    BY <1>1, <1>2
  <2>2. text[p + (Len(a) + k) - 1] = (a \o w)[Len(a) + k]
    BY <1>1 DEF Stands, Holds
  <2>3. QED BY <1>1, <2>1, <2>2
<1>5. p + Len(a) \in Nat \ {0}
  BY <1>1, <1>2
<1>6. QED BY <1>3, <1>4, <1>5 DEF Stands, Holds

LEMMA NumeralStart ==
  ASSUME Typed, NEW base \in Bases, NEW p, NEW n \in Nat, Stands(p, Numeral(base, n))
  PROVE  /\ At(p) \in DigitsOf(base) /\ Skipped(p) = p /\ At(p) \notin {"-", End, "x"}
         /\ n > 0 => At(p) # "0"
         /\ GetDigits(base, p) = Result(n, p + Len(Numeral(base, n)), TRUE)
<1> DEFINE w == Numeral(base, n)
<1>1. w \in Seq(DigitsOf(base)) /\ Len(w) >= 1 /\ (n > 0 => w[1] # "0")
  BY NumeralFacts
<1>2. w \in Seq(Chars)
  BY <1>1, DigitValues
<1>3. Stands(p, w)
  OBVIOUS
<1> HIDE DEF w
<1>4. p \in Nat \ {0} /\ p + 1 - 1 = p /\ p <= Len(text) + 1 /\ 1 \in 1 .. Len(w)
  BY <1>1, <1>3 DEF Stands, Holds
<1>5. At(p) = w[1] /\ w[1] \in DigitsOf(base)
  BY <1>1, <1>2, <1>3, <1>4, HeldAt DEF Stands
<1>6. At(p) \notin {Quot, Space, Comma, End, "-", "x", "X"}
  BY <1>5, DigitValues
<1>7. At(p + Len(w)) \notin DigitsOf(base)
  BY <1>3, DigitValues, TypeFacts DEF Stands
<1>8. GetDigits(base, p) = Result(n, p + Len(w), TRUE)
  BY <1>3, <1>4, <1>7, DigitsRead DEF Stands, w
<1>9. Skipped(p) = p
  BY <1>4, <1>6, SkippedNone
<1>10. QED BY <1>1, <1>5, <1>6, <1>8, <1>9 DEF w

LEMMA NumRead ==
  ASSUME Typed, NEW base \in Bases, NEW p, NEW n \in Nat, Stands(p, Numeral(base, n)),
         n > 0 \/ base # 16
  PROVE  GetNum(base, p) = InRange(Result(n, p + Len(Numeral(base, n)), TRUE), 1)
<1>1. GetUnsigned(base, p) = GetDigits(base, p)
  <2>1. ~ (base = 16 /\ At(p) = "0" /\ At(p + 1) = "x")
    BY NumeralStart
  <2>2. QED BY <2>1, Zenon DEF GetUnsigned
<1>2. Skipped(p) = p /\ At(p) # "-"
  BY NumeralStart
<1>3. GetNum(base, p) = InRange(GetUnsigned(base, p), 1)
  BY <1>2, Zenon DEF GetNum
<1>4. GetDigits(base, p) = Result(n, p + Len(Numeral(base, n)), TRUE)
  BY NumeralStart
<1>5. QED BY <1>1, <1>3, <1>4, Zenon

LEMMA RangeFacts ==
  ASSUME NEW n \in Nat, NEW next, NEW sign \in {1, -1}
  PROVE  /\ sign * n \in Ints
              => InRange(Result(n, next, TRUE), sign) = Result(sign * n, next, TRUE)
         /\ sign * n \notin Ints => InRange(Result(n, next, TRUE), sign).ok = FALSE
<1> DEFINE r == Result(n, next, TRUE)
<1>1. r.val = n /\ r.next = next /\ r.ok = TRUE
  BY DEF Result
<1>2. [r EXCEPT !.val = sign * n] = Result(sign * n, next, TRUE)
  <2>1. \A v, good :
          [Result(n, next, good) EXCEPT !.val = v] = Result(v, next, good)
    BY DEF Result
  <2>2. QED BY <2>1, Zenon
<1>3. \A v, m : Result(v, m, FALSE).ok = FALSE
  BY DEF Result
<1> HIDE DEF r
<1>4. /\ sign * n \in Ints => InRange(r, sign) = [r EXCEPT !.val = sign * n]
      /\ sign * n \notin Ints =>
           InRange(r, sign) = Result(IF sign < 0 THEN -MaxInt - 1 ELSE MaxInt, next, FALSE)
  BY <1>1, Zenon DEF InRange
<1>5. QED BY <1>2, <1>3, <1>4, Zenon DEF r

(* A negative number is printed as one that is out of range.               *)
LEMMA Unsigned ==
  ASSUME NEW v \in Ints
  PROVE  LET m == 2 * (MaxInt + 1)
         IN  /\ v >= 0 => v % m = v
             /\ v < 0 => v % m \in Nat /\ v % m > MaxInt
<1> DEFINE m == 2 * (MaxInt + 1)
           q == v \div m
           r == v % m
<1>1. MaxInt \in Nat /\ m \in Nat /\ m > 0 /\ v \in Int /\ -m <= 2 * v /\ 2 * v < m
  BY IOManipAssumption DEF Ints
<1>2. m = 2 * MaxInt + 2 /\ v >= -MaxInt - 1 /\ v <= MaxInt
  BY IOManipAssumption DEF Ints
<1> HIDE DEF m
<1>3. q \in Int /\ r \in 0 .. m - 1 /\ v = m * q + r
  BY <1>1
<1> HIDE DEF q, r
<1>4. q \in {0, -1}
  <2>1. q >= 1 => m * q >= m
    BY <1>1, <1>3
  <2>2. q <= -2 => m * q <= -2 * m
    BY <1>1, <1>3
  <2> DEFINE x == m * q
  <2>3. x \in Int /\ v = x + r
    BY <1>1, <1>3
  <2> HIDE DEF x
  <2>4. ~ (x >= m) /\ ~ (x <= -2 * m)
    BY <1>1, <1>3, <2>3
  <2>5. ~ (q >= 1) /\ ~ (q <= -2)
    BY <2>1, <2>2, <2>4 DEF x
  <2>6. QED BY <1>3, <2>5
<1>5. CASE q = 0
  <2>1. m * q = 0
    BY <1>1, <1>5
  <2>2. v = r
    BY <1>3, <2>1
  <2>3. v >= 0
    BY <1>3, <2>2
  <2>4. QED BY <2>2, <2>3, <1>1 DEF m, r
<1>6. CASE q = -1
  <2>1. m * q = -m
    BY <1>1, <1>6
  <2>2. v + m = r
    BY <1>1, <1>3, <2>1
  <2>3. v < 0 /\ r > MaxInt /\ r \in Nat
    BY <1>1, <1>2, <1>3, <2>2
  <2>4. QED BY <2>3, <1>1 DEF m, r
<1>7. QED BY <1>4, <1>5, <1>6

(* What the stream writes for a number.                                    *)
LEMMA PutIntFacts ==
  ASSUME NEW v \in Ints, NEW base \in Bases
  PROVE  LET u == v % (2 * (MaxInt + 1))
         IN  /\ v \in Int
             /\ base = 10 /\ v >= 0 => PutInt(base, v) = Numeral(10, v)
             /\ base = 10 /\ v < 0 => PutInt(base, v) = <<"-">> \o Numeral(10, -v)
             /\ base # 10 /\ v = 0 => PutInt(base, v) = Numeral(10, 0)
             /\ base = 8 /\ v # 0 => PutInt(base, v) = <<"0">> \o Numeral(8, u)
             /\ base = 16 /\ v # 0 => PutInt(base, v) = <<"0", "x">> \o Numeral(16, u)
<1> DEFINE u == v % (2 * (MaxInt + 1))
<1>1. v \in Int
  BY IOManipAssumption DEF Ints
<1>2. CASE base = 10 /\ v >= 0
  <2>1. PutInt(base, v) = <<>> \o Numeral(10, v)
    <3>1. ~ (v < 0)
      BY <1>1, <1>2
    <3>2. QED BY <1>2, <3>1, Zenon DEF PutInt
  <2>2. Numeral(10, v) \in Seq(DigitsOf(10))
    BY <1>1, <1>2, NumeralFacts DEF Bases
  <2>3. <<>> \o Numeral(10, v) = Numeral(10, v)
    BY <2>2, ConcatEmptySeq
  <2>4. QED BY <1>1, <1>2, <2>1, <2>3
<1>3. CASE base = 10 /\ v < 0
  <2>1. PutInt(base, v) = <<"-">> \o Numeral(10, -v)
    BY <1>3, Zenon DEF PutInt
  <2>2. QED BY <1>1, <1>3, <2>1
<1>4. CASE base # 10 /\ v = 0
  <2>1. PutInt(base, v) = <<"0">>
    BY <1>4, Zenon DEF PutInt
  <2>2. Numeral(10, 0) = <<"0">>
    BY NumeralFacts DEF Bases
  <2>3. QED BY <1>1, <1>4, <2>1, <2>2, Zenon
<1>5. CASE base = 8 /\ v # 0
  <2>1. base # 10 /\ base # 16
    BY <1>5
  <2>2. PutInt(base, v) = <<"0">> \o Numeral(8, u)
    BY <1>5, <2>1, Zenon DEF PutInt
  <2>3. QED BY <1>1, <1>5, <2>1, <2>2, Zenon
<1>6. CASE base = 16 /\ v # 0
  <2>1. base # 10 /\ base # 8
    BY <1>6
  <2>2. PutInt(base, v) = <<"0", "x">> \o Numeral(16, u)
    BY <1>6, <2>1, Zenon DEF PutInt
  <2>3. QED BY <1>1, <1>6, <2>1, <2>2, Zenon
<1>7. base \in {8, 10, 16} /\ (v >= 0 \/ v < 0)
  BY <1>1 DEF Bases
<1>8. QED BY <1>2, <1>3, <1>4, <1>5, <1>6, <1>7, Zenon

LEMMA PutIntChars ==
  ASSUME NEW v \in Ints, NEW base \in Bases
  PROVE  /\ PutInt(base, v) \in Seq(Chars) /\ Len(PutInt(base, v)) >= 1
         /\ PutInt(base, v)[1] \notin {Quot, Space, Comma, End}
<1> DEFINE u == v % (2 * (MaxInt + 1))
           Fine(w) == /\ w \in Seq(Chars) /\ Len(w) >= 1
                      /\ w[1] \notin {Quot, Space, Comma, End}
<1>1. u \in Nat /\ (v >= 0 => v \in Nat) /\ (v < 0 => -v \in Nat)
  BY PutIntFacts, Unsigned
<1>2. ASSUME NEW b \in Bases, NEW n \in Nat
      PROVE  Fine(Numeral(b, n)) /\ Numeral(b, n) \in Seq(Chars)
  <2> DEFINE w == Numeral(b, n)
  <2>1. w \in Seq(DigitsOf(b)) /\ Len(w) >= 1
    BY NumeralFacts
  <2> HIDE DEF w
  <2>2. w[1] \in DigitsOf(b) /\ w \in Seq(Chars)
    BY <2>1, DigitValues
  <2>3. QED BY <2>1, <2>2, DigitValues DEF w
<1>3. <<"-">> \in Seq(Chars) /\ <<"0">> \in Seq(Chars) /\ <<"0", "x">> \in Seq(Chars)
  <2>1. "0" \in Chars /\ "-" \in Chars /\ "x" \in Chars
    BY DigitFacts DEF Chars
  <2> HIDE DEF Chars
  <2>2. QED BY <2>1
<1>4. "-" \notin {Quot, Space, Comma, End} /\ "0" \notin {Quot, Space, Comma, End}
  BY CharFacts, DigitFacts
<1> HIDE DEF Chars
<1>5. ASSUME NEW a \in {<<"-">>, <<"0">>, <<"0", "x">>}, NEW w \in Seq(Chars)
      PROVE  Fine(a \o w)
  <2>1. a \in Seq(Chars) /\ Len(a) >= 1 /\ a[1] \in {"-", "0"}
    <3>1. CASE a = <<"-">>
      BY <1>3, <3>1
    <3>2. CASE a = <<"0">>
      BY <1>3, <3>2
    <3>3. CASE a = <<"0", "x">>
      BY <1>3, <3>3
    <3>4. QED BY <3>1, <3>2, <3>3
  <2>2. (a \o w)[1] = a[1] /\ a \o w \in Seq(Chars) /\ Len(a \o w) >= 1
    BY <2>1
  <2>3. QED BY <1>4, <2>1, <2>2
<1>6. 8 \in Bases /\ 10 \in Bases /\ 16 \in Bases /\ 0 \in Nat
  BY DEF Bases
<1>7. v = 0 \/ v # 0
  OBVIOUS
<1>8. \/ PutInt(base, v) = Numeral(10, v) /\ v \in Nat
      \/ PutInt(base, v) = <<"-">> \o Numeral(10, -v) /\ -v \in Nat
      \/ PutInt(base, v) = Numeral(10, 0)
      \/ PutInt(base, v) = <<"0">> \o Numeral(8, u)
      \/ PutInt(base, v) = <<"0", "x">> \o Numeral(16, u)
  <2>1. base \in {8, 10, 16} /\ (v >= 0 \/ v < 0)
    <3>1. v \in Int
      BY PutIntFacts
    <3>2. QED BY <3>1 DEF Bases
  <2>2. base = 10 \/ (base = 8 /\ base # 10) \/ (base = 16 /\ base # 10)
    BY <2>1
  <2> HIDE DEF u
  <2>3. QED BY <1>1, <2>1, <2>2, PutIntFacts, Zenon DEF u
<1> HIDE DEF Fine, u
<1>9. Fine(PutInt(base, v))
  BY <1>1, <1>2, <1>5, <1>6, <1>8, Zenon
<1>10. QED BY <1>9 DEF Fine

LEMMA IntReadAs ==
  ASSUME Typed, NEW v \in Ints, NEW base \in Bases, NEW p, NEW w \in Seq(Chars),
         Stands(p, w), Len(w) >= 1, w[1] \notin {Quot, Space, Comma, End},
         NEW u \in Nat, v >= 0 => u = v, v < 0 => u > MaxInt,
         \/ w = Numeral(10, v) /\ v > 0
         \/ w = Numeral(10, 0) /\ v = 0
         \/ w = <<"-">> \o Numeral(10, -v) /\ v < 0 /\ base = 10
         \/ w = <<"0">> \o Numeral(8, u) /\ v # 0 /\ base = 8
         \/ w = <<"0", "x">> \o Numeral(16, u) /\ v # 0 /\ base = 16
  PROVE  /\ (base = 10 \/ v >= 0) => GetCInt(p) = Result(v, p + Len(w), TRUE)
         /\ base = 8 /\ v < 0 => GetCInt(p).val = 0
         /\ base = 16 /\ v < 0 => GetCInt(p).ok = FALSE
<1>1. /\ MaxInt \in Nat /\ v \in Int /\ v \in -MaxInt - 1 .. MaxInt
      /\ 8 \in Bases /\ 10 \in Bases /\ 16 \in Bases
  BY IOManipAssumption DEF Ints, Bases
<1>2. u \in Nat /\ (v >= 0 => u = v) /\ (v < 0 => u > MaxInt)
  OBVIOUS
<1> HIDE DEF Chars
<1>3. p \in Nat \ {0} /\ p <= Len(text) + 1 /\ Holds(p, w)
      /\ Len(w) \in Nat /\ p + Len(w) <= Len(text) + 1
  BY EndFacts DEF Stands, Holds
<1>4. Skipped(p) = p /\ At(p) # End /\ At(p) = w[1]
  <2>1. 1 \in 1 .. Len(w) /\ p + 1 - 1 = p
    BY <1>3
  <2>2. At(p) = w[1]
    BY <1>3, <2>1, HeldAt
  <2>3. QED BY <1>3, <2>2, SkippedNone
<1>5. ASSUME NEW n \in Nat, NEW b \in Bases
      PROVE  Numeral(b, n) \in Seq(Chars)
  <2>1. Numeral(b, n) \in Seq(DigitsOf(b)) /\ DigitsOf(b) \subseteq Chars
    BY NumeralFacts, DigitValues
  <2>2. QED BY <2>1
<1>6. <<"-">> \in Seq(Chars) /\ <<"0">> \in Seq(Chars) /\ <<"0", "x">> \in Seq(Chars)
  <2>1. "0" \in Chars /\ "-" \in Chars /\ "x" \in Chars
    BY DigitFacts DEF Chars
  <2>2. QED BY <2>1
<1>7. CASE w = Numeral(10, v) /\ v > 0
  <2>1. v \in Nat /\ v > 0 /\ Stands(p, Numeral(10, v))
    BY <1>1, <1>3, <1>7
  <2>2. At(p) # "0"
    BY <1>1, <2>1, NumeralStart
  <2>3. GetCInt(p) = GetNum(10, p)
    BY <1>4, <2>2, Zenon DEF GetCInt
  <2>4. GetNum(10, p) = InRange(Result(v, p + Len(Numeral(10, v)), TRUE), 1)
    BY <1>1, <2>1, NumRead
  <2>5. 1 * v = v /\ v \in Ints /\ 1 \in {1, -1}
    BY <1>1
  <2>6. InRange(Result(v, p + Len(w), TRUE), 1) = Result(v, p + Len(w), TRUE)
    BY <2>1, <2>5, RangeFacts
  <2>7. GetCInt(p) = Result(v, p + Len(w), TRUE)
    BY <1>7, <2>3, <2>4, <2>6
  <2>8. ~ (v < 0)
    BY <2>1
  <2>9. QED BY <2>7, <2>8
<1>8. CASE w = Numeral(10, 0) /\ v = 0
  <2>1. w = <<"0">>
    BY <1>1, <1>8, NumeralFacts
  <2>2. Len(w) = 1 /\ At(p + 1) \in {End, type.sep} /\ 1 \in 1 .. Len(w) /\ p + 1 - 1 = p
    BY <1>3, <2>1 DEF Stands
  <2>3. At(p) = w[1] /\ w[1] = "0"
    BY <1>3, <1>6, <2>1, <2>2, HeldAt DEF Stands
  <2>4. At(p + 1) \notin {"x", "X"} /\ At(p + 1) \notin DigitsOf(10)
    <3>1. At(p + 1) \in {End, Space, Comma}
      BY <2>2, TypeFacts
    <3>2. DigitsOf(10) \cap {Quot, Space, Comma, End, "-", "x", "X"} = {}
      BY <1>1, DigitValues
    <3>3. {End, Space, Comma} \cap {"x", "X"} = {}
      BY DEF End, Space, Comma
    <3>4. QED BY <3>1, <3>2, <3>3
  <2>5. GetCInt(p) = Result(0, p + 1, TRUE)
    BY <1>4, <2>3, <2>4, Zenon DEF GetCInt
  <2>6. ~ (v < 0)
    BY <1>8
  <2>7. QED BY <1>8, <2>2, <2>5, <2>6
<1>9. CASE w = <<"-">> \o Numeral(10, -v) /\ v < 0 /\ base = 10
  <2> DEFINE t == Numeral(10, -v)
             n == -v
  <2>1. n \in Nat /\ n > 0 /\ -1 * n = v /\ v \in Ints
    BY <1>1, <1>9
  <2>2. t \in Seq(Chars) /\ Len(<<"-">>) = 1 /\ <<"-">>[1] = "-"
    BY <1>1, <1>5, <2>1
  <2>3. Stands(p + 1, t) /\ p + Len(w) = (p + 1) + Len(t)
    <3>1. Stands(p, <<"-">> \o t)
      BY <1>3, <1>9
    <3> HIDE DEF t
    <3>2. QED BY <1>6, <1>9, <2>2, <3>1, StandsBehind DEF t
  <2>4. At(p) = "-"
    <3>1. w = <<"-">> \o t
      BY <1>9
    <3> HIDE DEF t
    <3>2. w[1] = "-"
      BY <1>6, <2>2, <3>1
    <3>3. QED BY <1>4, <3>2
  <2>5. GetCInt(p) = GetNum(10, p)
    <3>1. At(p) # "0"
      BY <2>4
    <3>2. QED BY <1>4, <3>1, Zenon DEF GetCInt
  <2>6. GetNum(10, p) = InRange(GetUnsigned(10, p + 1), -1)
    BY <1>4, <2>4, Zenon DEF GetNum
  <2>7. GetUnsigned(10, p + 1) = GetDigits(10, p + 1)
    BY 10 # 16, Zenon DEF GetUnsigned
  <2> HIDE DEF n
  <2>8. GetDigits(10, p + 1) = Result(n, (p + 1) + Len(t), TRUE)
    BY <1>1, <2>1, <2>3, NumeralStart DEF n
  <2>9. InRange(Result(n, (p + 1) + Len(t), TRUE), -1)
          = Result(v, (p + 1) + Len(t), TRUE)
    <3> DEFINE sign == -1
               next == (p + 1) + Len(t)
    <3>1. sign \in {1, -1} /\ sign * n = v
      BY <2>1
    <3> HIDE DEF sign, next
    <3>2. sign * n \in Ints
      BY <2>1, <3>1
    <3>3. InRange(Result(n, next, TRUE), sign) = Result(sign * n, next, TRUE)
      BY <2>1, <3>1, <3>2, RangeFacts
    <3>4. QED BY <3>1, <3>3, Zenon DEF sign, next
  <2> HIDE DEF t
  <2>10. GetCInt(p) = Result(v, p + Len(w), TRUE)
    BY <2>3, <2>5, <2>6, <2>7, <2>8, <2>9
  <2>11. base # 8 /\ base # 16
    BY <1>9
  <2>12. QED BY <2>10, <2>11
<1>10. CASE w = <<"0">> \o Numeral(8, u) /\ v # 0 /\ base = 8
  <2> DEFINE t == Numeral(8, u)
  <2>1. t \in Seq(Chars) /\ Len(<<"0">>) = 1 /\ <<"0">>[1] = "0"
    BY <1>1, <1>2, <1>5
  <2>2. Stands(p + 1, t) /\ p + Len(w) = (p + 1) + Len(t)
    <3>1. Stands(p, <<"0">> \o t)
      BY <1>3, <1>10
    <3> HIDE DEF t
    <3>2. QED BY <1>6, <1>10, <2>1, <3>1, StandsBehind DEF t
  <2>3. At(p) = "0"
    <3>1. w = <<"0">> \o t
      BY <1>10
    <3> HIDE DEF t
    <3>2. w[1] = "0"
      BY <1>6, <2>1, <3>1
    <3>3. QED BY <1>4, <3>2
  <2>4. At(p + 1) \in DigitsOf(8) /\ At(p + 1) \in DigitsOf(10)
        /\ At(p + 1) \notin {"x", "X"}
    <3>1. At(p + 1) \in DigitsOf(8)
      BY <1>1, <1>2, <2>2, NumeralStart
    <3>2. DigitsOf(8) \subseteq DigitsOf(10)
      BY DEF DigitsOf
    <3>3. DigitsOf(10) \cap {Quot, Space, Comma, End, "-", "x", "X"} = {}
      BY <1>1, DigitValues
    <3>4. QED BY <3>1, <3>2, <3>3
  <2>5. GetCInt(p) = Octal(p + 1)
    BY <1>4, <2>3, <2>4, Zenon DEF GetCInt
  <2> DEFINE r == InRange(Result(u, (p + 1) + Len(t), TRUE), 1)
  <2>6. GetNum(8, p + 1) = r
    BY <1>1, <1>2, <2>2, 8 # 16, NumRead
  <2>7. Octal(p + 1) = IF r.ok THEN r ELSE Result(0, r.next, TRUE)
    BY <2>6, Zenon DEF Octal
  <2>8. CASE v > 0
    <3>1. 1 * u = v /\ v \in Ints /\ 1 \in {1, -1}
      BY <1>1, <1>2, <2>8
    <3>2. InRange(Result(u, (p + 1) + Len(t), TRUE), 1)
            = Result(v, (p + 1) + Len(t), TRUE)
      BY <1>2, <3>1, RangeFacts
    <3>3. r = Result(v, p + Len(w), TRUE)
      BY <2>2, <3>2
    <3>4. r.ok = TRUE
      BY <3>3 DEF Result
    <3> HIDE DEF r
    <3>5. Octal(p + 1) = Result(v, p + Len(w), TRUE)
      BY <2>7, <3>3, <3>4, Zenon
    <3>6. ~ (v < 0)
      BY <1>1, <2>8
    <3>7. QED BY <2>5, <3>5, <3>6
  <2>9. CASE v < 0
    <3>1. 1 * u \notin Ints /\ 1 \in {1, -1}
      BY <1>1, <1>2, <2>9 DEF Ints
    <3>2. r.ok = FALSE
      BY <1>2, <3>1, RangeFacts
    <3> HIDE DEF r
    <3>3. Octal(p + 1) = Result(0, r.next, TRUE)
      BY <2>7, <3>2, Zenon
    <3>4. \A next : Result(0, next, TRUE).val = 0
      BY DEF Result
    <3>5. GetCInt(p).val = 0
      BY <2>5, <3>3, <3>4, Zenon
    <3>6. base # 10 /\ base # 16 /\ ~ (v >= 0)
      BY <1>1, <1>10, <2>9
    <3>7. QED BY <3>5, <3>6
  <2>10. v > 0 \/ v < 0
    BY <1>1, <1>10
  <2>11. QED BY <2>8, <2>9, <2>10, Zenon
<1>11. CASE w = <<"0", "x">> \o Numeral(16, u) /\ v # 0 /\ base = 16
  <2> DEFINE t == Numeral(16, u)
             a == <<"0", "x">>
  <2>1. t \in Seq(Chars) /\ a \in Seq(Chars) /\ Len(a) = 2 /\ a[1] = "0" /\ a[2] = "x"
    BY <1>1, <1>2, <1>5, <1>6
  <2>2. u > 0
    BY <1>1, <1>2, <1>11
  <2>3. Stands(p + 2, t) /\ p + Len(w) = (p + 2) + Len(t)
    <3>1. Stands(p, a \o t)
      BY <1>3, <1>11
    <3> HIDE DEF t, a
    <3>2. QED BY <1>11, <2>1, <3>1, StandsBehind DEF t, a
  <2>4. At(p) = "0" /\ At(p + 1) = "x"
    <3> HIDE DEF t, a
    <3>1. w \in Seq(Chars) /\ w[1] = "0" /\ w[2] = "x" /\ 1 \in 1 .. Len(w)
          /\ 2 \in 1 .. Len(w) /\ p + 1 - 1 = p /\ p + 2 - 1 = p + 1
      <4>1. w = a \o t
        BY <1>11 DEF t, a
      <4>2. /\ Len(w) = Len(a) + Len(t) /\ Len(t) \in Nat
            /\ \A k \in 1 .. Len(a) : w[k] = a[k]
        BY <2>1, <4>1, ConcatFacts
      <4>3. 1 \in 1 .. Len(a) /\ 2 \in 1 .. Len(a)
        BY <2>1
      <4>4. w[1] = a[1] /\ w[2] = a[2]
        BY <4>2, <4>3, Zenon
      <4>5. QED BY <1>3, <2>1, <4>2, <4>4
    <3> HIDE DEF t
    <3>3. At(p + 1 - 1) = w[1] /\ At(p + 2 - 1) = w[2]
      BY <1>3, <3>1, HeldAt
    <3>4. QED BY <3>1, <3>3
  <2>5. GetCInt(p) = GetNum(16, p + 2)
    BY <1>4, <2>4, Zenon DEF GetCInt
  <2> DEFINE r == InRange(Result(u, (p + 2) + Len(t), TRUE), 1)
  <2>6. GetNum(16, p + 2) = r
    BY <1>1, <1>2, <2>2, <2>3, NumRead
  <2>7. CASE v > 0
    <3>1. 1 * u = v /\ v \in Ints /\ 1 \in {1, -1}
      BY <1>1, <1>2, <2>7
    <3>2. InRange(Result(u, (p + 2) + Len(t), TRUE), 1)
            = Result(v, (p + 2) + Len(t), TRUE)
      BY <1>2, <3>1, RangeFacts
    <3>3. GetCInt(p) = Result(v, p + Len(w), TRUE)
      BY <2>3, <2>5, <2>6, <3>2
    <3>4. ~ (v < 0)
      BY <1>1, <2>7
    <3>5. QED BY <3>3, <3>4
  <2>8. CASE v < 0
    <3>1. 1 * u \notin Ints /\ 1 \in {1, -1}
      BY <1>1, <1>2, <2>8 DEF Ints
    <3>2. r.ok = FALSE
      BY <1>2, <3>1, RangeFacts
    <3> HIDE DEF r
    <3>3. GetCInt(p).ok = FALSE
      BY <2>5, <2>6, <3>2, Zenon
    <3>4. base # 10 /\ base # 8 /\ ~ (v >= 0)
      BY <1>1, <1>11, <2>8
    <3>5. QED BY <3>3, <3>4
  <2>9. v > 0 \/ v < 0
    BY <1>1, <1>11
  <2>10. QED BY <2>7, <2>8, <2>9, Zenon
<1>12. QED BY <1>7, <1>8, <1>9, <1>10, <1>11

(* A number is read as it was put, unless it is negative and was not put in *)
(* decimal (IOManip.h:170-195).                                            *)
LEMMA IntRead ==
  ASSUME Typed, NEW v \in Ints, NEW base \in Bases, NEW p, Stands(p, PutInt(base, v))
  PROVE  /\ (base = 10 \/ v >= 0)
              => GetCInt(p) = Result(v, p + Len(PutInt(base, v)), TRUE)
         /\ base = 8 /\ v < 0 => GetCInt(p).val = 0
         /\ base = 16 /\ v < 0 => GetCInt(p).ok = FALSE
<1> DEFINE u == v % (2 * (MaxInt + 1))
<1>1. v \in Int /\ base \in {8, 10, 16} /\ PutInt(base, v) \in Seq(Chars)
      /\ Len(PutInt(base, v)) >= 1
      /\ PutInt(base, v)[1] \notin {Quot, Space, Comma, End}
  BY PutIntFacts, PutIntChars DEF Bases
<1>2. (v >= 0 => u = v) /\ (v < 0 => u \in Nat /\ u > MaxInt)
  BY Unsigned
<1>3. u \in Nat
  <2> HIDE DEF u
  <2>1. QED BY <1>1, <1>2
<1>4. (v > 0 \/ v = 0 \/ v < 0) /\ (v > 0 => v >= 0 /\ v # 0)
      /\ (v = 0 => v >= 0) /\ (v < 0 => v # 0)
      /\ (base = 10 \/ (base = 8 /\ base # 10) \/ (base = 16 /\ base # 10))
  BY <1>1
<1>5. \/ PutInt(base, v) = Numeral(10, v) /\ v > 0
      \/ PutInt(base, v) = Numeral(10, 0) /\ v = 0
      \/ PutInt(base, v) = <<"-">> \o Numeral(10, -v) /\ v < 0 /\ base = 10
      \/ PutInt(base, v) = <<"0">> \o Numeral(8, u) /\ v # 0 /\ base = 8
      \/ PutInt(base, v) = <<"0", "x">> \o Numeral(16, u) /\ v # 0 /\ base = 16
  BY <1>4, PutIntFacts, Zenon
<1> HIDE DEF u
<1>6. QED BY <1>1, <1>2, <1>3, <1>5, IntReadAs

-----------------------------------------------------------------------------
(* A string between quotes. *)

Piece(c) == IF c = Quot THEN <<type.esc, Quot>> ELSE <<c>>

IsPut(f, s) ==
  f = [i \in 0 .. Len(s) |-> IF i = 0 THEN <<Quot>> ELSE f[i - 1] \o Piece(s[i])]

LEMMA PieceFacts ==
  ASSUME Typed, NEW c \in Chars
  PROVE  /\ Piece(c) \in Seq(Chars)
         /\ c = Quot => Len(Piece(c)) = 2 /\ Piece(c)[1] = type.esc /\ Piece(c)[2] = Quot
         /\ c # Quot => Len(Piece(c)) = 1 /\ Piece(c)[1] = c
<1>1. type.esc \in Chars /\ Quot \in Chars
  BY TypeFacts DEF Chars
<1> HIDE DEF Chars
<1>2. CASE c = Quot
  BY <1>1, <1>2 DEF Piece
<1>3. CASE c # Quot
  BY <1>1, <1>3 DEF Piece
<1>4. QED BY <1>2, <1>3

(* There is a function that PutCStr may choose, and what it is.            *)
LEMMA PutExists ==
  ASSUME Typed, NEW s \in Seq(Chars)
  PROVE  \E f : /\ f \in [0 .. Len(s) -> Seq(Chars)]
                /\ f[0] = <<Quot>>
                /\ \A i \in 1 .. Len(s) : f[i] = f[i - 1] \o Piece(s[i])
                /\ Fold(s) => PutCStr(s) = Append(f[Len(s)], Quot)
<1> DEFINE n == Len(s)
           d(i) == IF i \in 1 .. n THEN Piece(s[i]) ELSE <<>>
           step == [i \in Nat |-> [x \in Seq(Chars) |-> x \o d(i)]]
<1>1. n \in Nat /\ <<Quot>> \in Seq(Chars)
  <2>1. Quot \in Chars
    BY DEF Chars
  <2> HIDE DEF Chars
  <2>2. QED BY <2>1
<1>2. \A i \in 1 .. n : Piece(s[i]) \in Seq(Chars)
  <2>1. \A i \in 1 .. n : s[i] \in Chars
    OBVIOUS
  <2>2. QED BY <2>1, PieceFacts
<1>3. \A i \in Nat : d(i) \in Seq(Chars)
  <2> HIDE DEF n
  <2>1. QED BY <1>2
<1>4. \A i \in 1 .. n : d(i) = Piece(s[i])
  BY Zenon
<1> HIDE DEF d
<1>5. step \in [Nat -> [Seq(Chars) -> Seq(Chars)]]
  <2>1. \A i \in Nat : \A x \in Seq(Chars) : x \o d(i) \in Seq(Chars)
    BY <1>3
  <2>2. QED BY <2>1, Zenon
<1>6. \A i \in Nat : \A x \in Seq(Chars) : step[i][x] = x \o d(i)
  BY Zenon
<1> HIDE DEF step
<1>7. PICK f : Stepwise(f, Seq(Chars), <<Quot>>, 0, n, step)
  <2>1. 0 \in Nat /\ 0 <= n
    BY <1>1
  <2> HIDE DEF n
  <2>2. \E f : Stepwise(f, Seq(Chars), <<Quot>>, 0, n, step)
    BY <1>1, <1>5, <2>1, Recursion
  <2>3. QED BY <2>2
<1>8. f \in [0 .. n -> Seq(Chars)] /\ f[0] = <<Quot>>
  BY <1>7 DEF Stepwise
<1>9. ASSUME NEW i \in 1 .. n PROVE f[i] = f[i - 1] \o Piece(s[i])
  <2> HIDE DEF n
  <2>1. i \in 0 + 1 .. n /\ i - 1 \in 0 .. n /\ i \in Nat
    BY <1>1
  <2>2. f[i] = step[i][f[i - 1]] /\ f[i - 1] \in Seq(Chars)
    BY <1>7, <1>8, <2>1, Zenon DEF Stepwise
  <2>3. QED BY <1>4, <1>6, <2>1, <2>2, Zenon
<1>10. IsPut(f, s)
  <2>1. f = [i \in 0 .. n |-> f[i]]
    BY <1>8
  <2>2. \A i \in 0 .. n : f[i] = IF i = 0 THEN <<Quot>> ELSE f[i - 1] \o Piece(s[i])
    <3>1. \A i \in 0 .. n : i # 0 => i \in 1 .. n
      BY <1>1
    <3>2. QED BY <1>8, <1>9, <3>1, Zenon
  <2>3. QED BY <2>1, <2>2, Zenon DEF IsPut
<1> DEFINE g == CHOOSE h : IsPut(h, s)
<1>11. IsPut(g, s)
  BY <1>10, Zenon
<1>12. Fold(s) => PutCStr(s) = Append(g[n], Quot)
  BY Zenon DEF PutCStr, IsPut, Piece
<1> HIDE DEF g
<1>13. \A i \in 0 .. n : g[i] = IF i = 0 THEN <<Quot>> ELSE g[i - 1] \o Piece(s[i])
  BY <1>11, Zenon DEF IsPut
<1>14. \A i \in 0 .. n : g[i] = f[i]
  <2> DEFINE S == {i \in 0 .. n : g[i] = f[i]}
  <2>1. 0 \in S
    BY <1>1, <1>8, <1>13
  <2>2. ASSUME NEW i \in 0 .. n - 1, i \in S PROVE i + 1 \in S
    <3> HIDE DEF n
    <3>1. i + 1 \in 0 .. n /\ i + 1 # 0 /\ (i + 1) - 1 = i /\ i + 1 \in 1 .. n /\ g[i] = f[i]
      BY <1>1, <2>2
    <3>2. g[i + 1] = g[i] \o Piece(s[i + 1]) /\ f[i + 1] = f[i] \o Piece(s[i + 1])
      BY <1>9, <1>13, <3>1, Zenon
    <3>3. QED BY <3>1, <3>2, Zenon
  <2>3. \A i \in 0 .. n : i \in S
    <3>1. 0 \in Nat /\ 0 <= n
      BY <1>1
    <3> HIDE DEF S, n
    <3>2. QED BY <1>1, <2>1, <2>2, <3>1, RangeInduction
  <2>4. QED BY <2>3
<1>15. n \in 0 .. n
  BY <1>1
<1>16. Fold(s) => PutCStr(s) = Append(f[n], Quot)
  BY <1>12, <1>14, <1>15, Zenon
<1>17. QED BY <1>8, <1>9, <1>16, Zenon

(* Where the characters of s stand between the quotes: o[i] is the place    *)
(* behind the i-th of them.                                                *)
Laid(o, p, e, s) ==
  /\ o \in [0 .. Len(s) -> p + 1 .. Len(text)]
  /\ p \in Nat \ {0} /\ At(p) = Quot
  /\ o[0] = p + 1
  /\ \A i \in 1 .. Len(s) :
       IF s[i] = Quot
       THEN /\ text[o[i - 1]] = type.esc /\ text[o[i - 1] + 1] = Quot
            /\ o[i] = o[i - 1] + 2
       ELSE text[o[i - 1]] = s[i] /\ o[i] = o[i - 1] + 1
  /\ text[o[Len(s)]] = Quot /\ e = o[Len(s)] + 1

LEMMA HoldsPrefix ==
  ASSUME Typed, NEW p \in Nat \ {0}, NEW a \in Seq(Chars), NEW w \in Seq(Chars),
         Holds(p, a \o w)
  PROVE  /\ Holds(p, a)
         /\ \A k \in 1 .. Len(w) : text[p + Len(a) + k - 1] = w[k]
         /\ Len(a) \in Nat /\ Len(a \o w) = Len(a) + Len(w)
<1>1. /\ Len(a) \in Nat /\ Len(w) \in Nat /\ Len(a \o w) = Len(a) + Len(w)
      /\ \A k \in 1 .. Len(a) : (a \o w)[k] = a[k]
      /\ \A k \in 1 .. Len(w) : (a \o w)[Len(a) + k] = w[k]
  BY ConcatFacts
<1>2. /\ p + Len(a \o w) <= Len(text) + 1
      /\ \A k \in 1 .. Len(a \o w) : text[p + k - 1] = (a \o w)[k]
  BY DEF Holds
<1>3. Len(text) \in Nat
  BY EndFacts
<1>4. Holds(p, a)
  <2>1. \A k \in 1 .. Len(a) : k \in 1 .. Len(a \o w)
    BY <1>1
  <2>2. p + Len(a) <= Len(text) + 1
    BY <1>1, <1>2, <1>3
  <2>3. QED BY <1>1, <1>2, <2>1, <2>2 DEF Holds
<1>5. ASSUME NEW k \in 1 .. Len(w) PROVE text[p + Len(a) + k - 1] = w[k]
  <2>1. Len(a) + k \in 1 .. Len(a \o w) /\ p + (Len(a) + k) - 1 = p + Len(a) + k - 1
    BY <1>1
  <2>2. QED BY <1>1, <1>2, <2>1
<1>6. QED BY <1>1, <1>4, <1>5

LEMMA StringLaid ==
  ASSUME Typed, NEW s \in Seq(Chars), Fold(s), NEW p, Stands(p, PutCStr(s))
  PROVE  \E o : Laid(o, p, p + Len(PutCStr(s)), s)
<1> DEFINE n == Len(s)
<1>1. PICK f : /\ f \in [0 .. n -> Seq(Chars)]
               /\ f[0] = <<Quot>>
               /\ \A i \in 1 .. n : f[i] = f[i - 1] \o Piece(s[i])
               /\ PutCStr(s) = Append(f[n], Quot)
  BY PutExists
<1>2. n \in Nat /\ Len(text) \in Nat /\ <<Quot>> \in Seq(Chars) /\ p \in Nat \ {0}
  <2>1. Quot \in Chars
    BY DEF Chars
  <2> HIDE DEF Chars
  <2>2. QED BY <2>1, EndFacts DEF Stands
<1>3. /\ \A i \in 0 .. n : f[i] \in Seq(Chars) /\ Len(f[i]) \in Nat
      /\ n \in 0 .. n /\ \A i \in 1 .. n : i \in 0 .. n /\ i - 1 \in 0 .. n /\ s[i] \in Chars
  <2>1. \A i \in 1 .. n : s[i] \in Chars
    OBVIOUS
  <2> HIDE DEF n, Chars
  <2>2. n \in 0 .. n /\ \A i \in 1 .. n : i \in 0 .. n /\ i - 1 \in 0 .. n
    BY <1>2
  <2>3. \A i \in 0 .. n : f[i] \in Seq(Chars)
    BY <1>1, Zenon
  <2>4. \A w \in Seq(Chars) : Len(w) \in Nat
    OBVIOUS
  <2>5. QED BY <2>1, <2>2, <2>3, <2>4, Zenon
<1> HIDE DEF n
<1>4. PutCStr(s) = f[n] \o <<Quot>>
  <2>1. Quot \in Chars
    BY DEF Chars
  <2> HIDE DEF Chars
  <2>2. QED BY <1>1, <1>3, <2>1
<1>5. Holds(p, f[n]) /\ text[p + Len(f[n])] = Quot
      /\ Len(PutCStr(s)) = Len(f[n]) + 1 /\ p + Len(f[n]) <= Len(text)
  <2>1. Holds(p, f[n] \o <<Quot>>)
    BY <1>4 DEF Stands
  <2>2. Len(<<Quot>>) = 1 /\ <<Quot>>[1] = Quot
    OBVIOUS
  <2>3. /\ Holds(p, f[n])
        /\ \A k \in 1 .. Len(<<Quot>>) : text[p + Len(f[n]) + k - 1] = <<Quot>>[k]
        /\ Len(f[n]) \in Nat /\ Len(f[n] \o <<Quot>>) = Len(f[n]) + Len(<<Quot>>)
    <3> DEFINE a == f[n]
               b == <<Quot>>
    <3>1. a \in Seq(Chars) /\ b \in Seq(Chars) /\ Holds(p, a \o b)
      BY <1>2, <1>3, <2>1
    <3> HIDE DEF a, b
    <3>2. /\ Holds(p, a)
          /\ \A k \in 1 .. Len(b) : text[p + Len(a) + k - 1] = b[k]
          /\ Len(a) \in Nat /\ Len(a \o b) = Len(a) + Len(b)
      BY <1>2, <3>1, HoldsPrefix
    <3>3. QED BY <3>2 DEF a, b
  <2>4. 1 \in 1 .. Len(<<Quot>>) /\ p + Len(f[n]) + 1 - 1 = p + Len(f[n])
    BY <1>2, <2>2, <2>3
  <2>5. p + (Len(f[n]) + 1) <= Len(text) + 1
    BY <1>2, <2>1, <2>2, <2>3 DEF Holds
  <2>6. text[p + Len(f[n])] = Quot
    BY <2>2, <2>3, <2>4
  <2>7. QED BY <1>2, <1>4, <2>2, <2>3, <2>5, <2>6
<1>6. \A i \in 0 .. n : Holds(p, f[i])
  <2> DEFINE S == {k \in 0 .. n : Holds(p, f[n - k])}
  <2>1. 0 \in S
    BY <1>2, <1>5
  <2>2. ASSUME NEW k \in 0 .. n - 1, k \in S PROVE k + 1 \in S
    <3> DEFINE i == n - k
    <3>1. i \in 1 .. n /\ i - 1 = n - (k + 1) /\ k + 1 \in 0 .. n
      BY <1>2
    <3>2. Holds(p, f[i])
      BY <2>2
    <3> HIDE DEF i
    <3>3. f[i] = f[i - 1] \o Piece(s[i]) /\ f[i - 1] \in Seq(Chars)
          /\ Piece(s[i]) \in Seq(Chars)
      BY <1>1, <1>3, <3>1, PieceFacts
    <3>4. Holds(p, f[i - 1])
      BY <1>2, <3>2, <3>3, HoldsPrefix
    <3>5. QED BY <3>1, <3>4
  <2>3. \A k \in 0 .. n : k \in S
    <3>1. 0 \in Nat /\ 0 <= n
      BY <1>2
    <3> HIDE DEF S
    <3>2. QED BY <1>2, <2>1, <2>2, <3>1, RangeInduction
  <2>4. ASSUME NEW i \in 0 .. n PROVE Holds(p, f[i])
    <3>1. n - i \in 0 .. n /\ n - (n - i) = i
      BY <1>2
    <3>2. QED BY <2>3, <3>1
  <2>5. QED BY <2>4
<1> DEFINE o == [i \in 0 .. n |-> p + Len(f[i])]
<1>7. o[0] = p + 1
  <2>1. 0 \in 0 .. n /\ Len(<<Quot>>) = 1
    BY <1>2
  <2>2. o[0] = p + Len(<<Quot>>)
    BY <1>1, <2>1, Zenon
  <2>3. QED BY <2>1, <2>2
<1>8. ASSUME NEW i \in 1 .. n
      PROVE  IF s[i] = Quot
             THEN /\ text[o[i - 1]] = type.esc /\ text[o[i - 1] + 1] = Quot
                  /\ o[i] = o[i - 1] + 2
             ELSE text[o[i - 1]] = s[i] /\ o[i] = o[i - 1] + 1
  <2> DEFINE a == f[i - 1]
             c == Piece(s[i])
  <2>1. a \in Seq(Chars) /\ c \in Seq(Chars) /\ f[i] = a \o c /\ Holds(p, f[i])
    BY <1>1, <1>3, <1>6, PieceFacts
  <2>2. o[i] = p + Len(f[i]) /\ o[i - 1] = p + Len(a)
    BY <1>3
  <2>3. /\ s[i] = Quot => Len(c) = 2 /\ c[1] = type.esc /\ c[2] = Quot
        /\ s[i] # Quot => Len(c) = 1 /\ c[1] = s[i]
    BY <1>3, PieceFacts
  <2> HIDE DEF a, c, o
  <2>4. /\ \A k \in 1 .. Len(c) : text[p + Len(a) + k - 1] = c[k]
        /\ Len(a) \in Nat /\ Len(f[i]) = Len(a) + Len(c)
    BY <1>2, <2>1, HoldsPrefix
  <2>5. p + Len(a) + 1 - 1 = p + Len(a) /\ p + Len(a) + 2 - 1 = p + Len(a) + 1
    BY <1>2, <2>4
  <2>6. CASE s[i] = Quot
    <3>1. 1 \in 1 .. Len(c) /\ 2 \in 1 .. Len(c)
      BY <2>3, <2>6
    <3>2. text[p + Len(a)] = type.esc /\ text[p + Len(a) + 1] = Quot
      BY <2>3, <2>4, <2>5, <2>6, <3>1
    <3>3. p + Len(f[i]) = p + Len(a) + 2
      <4>1. Len(c) = 2
        BY <2>3, <2>6
      <4>2. QED BY <1>2, <2>4, <4>1
    <3>4. QED BY <2>2, <2>6, <3>2, <3>3
  <2>7. CASE s[i] # Quot
    <3>1. 1 \in 1 .. Len(c)
      BY <2>3, <2>7
    <3>2. text[p + Len(a)] = s[i]
      BY <2>3, <2>4, <2>5, <2>7, <3>1
    <3>3. p + Len(f[i]) = p + Len(a) + 1
      <4>1. Len(c) = 1
        BY <2>3, <2>7
      <4>2. QED BY <1>2, <2>4, <4>1
    <3>4. QED BY <2>2, <2>7, <3>2, <3>3
  <2>8. QED BY <2>6, <2>7
<1>9. o \in [0 .. n -> p + 1 .. Len(text)]
  <2>1. \A i \in 0 .. n : o[i] \in Nat /\ o[i] = p + Len(f[i])
    BY <1>2, <1>3
  <2> DEFINE S == {k \in 0 .. n : o[k] >= p + 1}
             T == {k \in 0 .. n : o[n - k] <= o[n]}
  <2>2. \A i \in 1 .. n : o[i - 1] + 1 <= o[i]
    <3>1. \A i \in 1 .. n : o[i - 1] \in Nat
      BY <1>3, <2>1
    <3> HIDE DEF o
    <3>2. QED BY <1>8, <3>1
  <2> HIDE DEF o
  <2>3. 0 \in S /\ 0 \in T /\ 0 \in Nat /\ 0 <= n
    BY <1>2, <1>7, <2>1
  <2>4. ASSUME NEW k \in 0 .. n - 1, k \in S PROVE k + 1 \in S
    <3>1. k + 1 \in 1 .. n /\ k + 1 \in 0 .. n /\ (k + 1) - 1 = k /\ k \in 0 .. n
      BY <1>2
    <3>2. o[k] + 1 <= o[k + 1] /\ o[k] \in Nat /\ o[k + 1] \in Nat /\ o[k] >= p + 1
      BY <2>1, <2>2, <2>4, <3>1
    <3>3. QED BY <1>2, <3>1, <3>2
  <2>5. ASSUME NEW k \in 0 .. n - 1, k \in T PROVE k + 1 \in T
    <3> DEFINE i == n - k
    <3>1. i \in 1 .. n /\ i - 1 = n - (k + 1) /\ k + 1 \in 0 .. n /\ i - 1 \in 0 .. n
          /\ i \in 0 .. n /\ n \in 0 .. n
      BY <1>2
    <3>2. o[i] <= o[n]
      BY <2>5
    <3> HIDE DEF i
    <3>3. o[i - 1] + 1 <= o[i] /\ o[i - 1] \in Nat /\ o[i] \in Nat /\ o[n] \in Nat
      BY <2>1, <2>2, <3>1
    <3>4. o[i - 1] <= o[n]
      BY <3>2, <3>3
    <3>5. QED BY <3>1, <3>4
  <2>6. \A k \in 0 .. n : k \in S /\ k \in T
    <3> HIDE DEF S, T
    <3>1. \A k \in 0 .. n : k \in S
      BY <1>2, <2>3, <2>4, RangeInduction
    <3>2. \A k \in 0 .. n : k \in T
      BY <1>2, <2>3, <2>5, RangeInduction
    <3>3. QED BY <3>1, <3>2
  <2>7. ASSUME NEW i \in 0 .. n PROVE o[i] \in p + 1 .. Len(text)
    <3>1. n - i \in 0 .. n /\ n - (n - i) = i
      BY <1>2
    <3>2. o[i] >= p + 1 /\ o[i] <= o[n]
      BY <2>6, <3>1
    <3>3. o[n] <= Len(text)
      BY <1>3, <1>5, <2>1
    <3>4. QED BY <1>2, <1>3, <2>1, <3>2, <3>3
  <2>8. o = [i \in 0 .. n |-> o[i]]
    BY DEF o
  <2>9. QED BY <2>7, <2>8
<1>10. text[o[n]] = Quot /\ p + Len(PutCStr(s)) = o[n] + 1
  BY <1>2, <1>3, <1>5
<1>11. At(p) = Quot
  <2>1. Holds(p, <<Quot>>)
    <3>1. 0 \in 0 .. n
      BY <1>2
    <3>2. QED BY <1>1, <1>6, <3>1, Zenon
  <2>2. 1 \in 1 .. Len(<<Quot>>) /\ <<Quot>>[1] = Quot /\ p + 1 - 1 = p
    BY <1>2
  <2>3. At(p + 1 - 1) = <<Quot>>[1]
    BY <1>2, <2>1, <2>2, HeldAt
  <2>4. QED BY <2>2, <2>3
<1> HIDE DEF o
<1>12. Laid(o, p, p + Len(PutCStr(s)), s)
  BY <1>2, <1>7, <1>8, <1>9, <1>10, <1>11 DEF Laid, n
<1>13. QED BY <1>12

States == [at : {"in", "esc", "out"}, val : Seq(Chars), next : Nat]

State(at, val, next) == [at |-> at, val |-> val, next |-> next]

LEMMA StepFacts ==
  ASSUME Typed, NEW val \in Seq(Chars), NEW next \in Nat, NEW c \in Chars
  PROVE  LET step(at) == QuotedStep(State(at, val, next), c)
         IN  /\ step("out") = State("out", val, next)
             /\ c = type.esc => step("in") = State("esc", val, next + 1)
             /\ c = Quot /\ c # type.esc => step("in") = State("out", val, next + 1)
             /\ c \notin {Quot, type.esc} =>
                  step("in") = State("in", val \o <<c>>, next + 1)
             /\ c \in {Quot, type.esc} =>
                  step("esc") = State("in", val \o <<c>>, next + 1)
             /\ c \notin {Quot, type.esc} /\ type.esc = Quot =>
                  step("esc") = State("out", val, next)
             /\ c \notin {Quot, type.esc} /\ type.esc # Quot =>
                  step("esc") = State("in", val \o <<type.esc, c>>, next + 1)
<1> DEFINE q(at) == State(at, val, next)
<1>1. \A at : q(at).at = at /\ q(at).val = val /\ q(at).next = next
  BY DEF State
<1>2. \A at : [q(at) EXCEPT !.at = "out"] = State("out", val, next)
  BY DEF State
<1>3. val \o <<>> = val
  BY ConcatEmptySeq
<1>4. "in" # "esc" /\ "in" # "out" /\ "esc" # "out"
  OBVIOUS
<1> HIDE DEF q
<1>5. QuotedStep(q("out"), c) = q("out")
  BY <1>1, <1>4, Zenon DEF QuotedStep
<1>6. ASSUME c = type.esc
      PROVE  QuotedStep(q("in"), c) = State("esc", val, next + 1)
  <2>1. QuotedStep(q("in"), c) = State("esc", val \o <<>>, next + 1)
    BY <1>1, <1>4, <1>6, Zenon DEF QuotedStep, State
  <2>2. QED BY <1>3, <2>1, Zenon
<1>7. ASSUME c = Quot, c # type.esc
      PROVE  QuotedStep(q("in"), c) = State("out", val, next + 1)
  <2>1. QuotedStep(q("in"), c) = State("out", val \o <<>>, next + 1)
    BY <1>1, <1>4, <1>7, Zenon DEF QuotedStep, State
  <2>2. QED BY <1>3, <2>1, Zenon
<1>8. ASSUME c \notin {Quot, type.esc}
      PROVE  QuotedStep(q("in"), c) = State("in", val \o <<c>>, next + 1)
  BY <1>1, <1>4, <1>8, Zenon DEF QuotedStep, State
<1>9. ASSUME c \in {Quot, type.esc}
      PROVE  QuotedStep(q("esc"), c) = State("in", val \o <<c>>, next + 1)
  BY <1>1, <1>4, <1>9, Zenon DEF QuotedStep, State
<1>10. ASSUME c \notin {Quot, type.esc}, type.esc = Quot
       PROVE  QuotedStep(q("esc"), c) = State("out", val, next)
  <2>1. QuotedStep(q("esc"), c) = [q("esc") EXCEPT !.at = "out"]
    BY <1>1, <1>4, <1>10, Zenon DEF QuotedStep
  <2>2. QED BY <1>2, <2>1, Zenon
<1>11. ASSUME c \notin {Quot, type.esc}, type.esc # Quot
       PROVE  QuotedStep(q("esc"), c) = State("in", val \o <<type.esc, c>>, next + 1)
  BY <1>1, <1>4, <1>11, Zenon DEF QuotedStep, State
<1>12. QED BY <1>5, <1>6, <1>7, <1>8, <1>9, <1>10, <1>11, Zenon DEF q

(* The state after the characters before place n, from the opening quote on. *)
IsScan(f, p) ==
  /\ f \in [Places(p) -> States]
  /\ f[p] = State("in", <<>>, p)
  /\ \A n \in p .. Len(text) : f[n + 1] = QuotedStep(f[n], text[n])

(* What was unescaped so far differs from s, or it is over too early.       *)
Wrong(q, s) ==
  \/ \E k \in 1 .. Len(q.val) : k <= Len(s) /\ q.val[k] # s[k]
  \/ q.at = "out" /\ 0 < Len(q.val) /\ Len(q.val) < Len(s)

(* Characters are only added, and none are when it is over.                 *)
LEMMA StepAdds ==
  ASSUME Typed, NEW q \in States, NEW c \in Chars
  PROVE  /\ QuotedStep(q, c) \in States
         /\ \E w \in Seq(Chars) : QuotedStep(q, c).val = q.val \o w
         /\ q.at = "out" => QuotedStep(q, c) = q
<1> DEFINE val == q.val
           next == q.next
<1>1. val \in Seq(Chars) /\ next \in Nat /\ q.at \in {"in", "esc", "out"}
      /\ q = State(q.at, val, next)
  <2> HIDE DEF Chars
  <2>1. QED BY DEF States, State
<1>2. <<>> \in Seq(Chars) /\ <<c>> \in Seq(Chars) /\ <<type.esc, c>> \in Seq(Chars)
  <2>1. type.esc \in Chars
    BY TypeFacts DEF Chars
  <2> HIDE DEF Chars
  <2>2. QED BY <2>1
<1> HIDE DEF val, next, Chars
<1>3. val \o <<>> = val
  BY <1>1, ConcatEmptySeq
<1>4. ASSUME NEW at \in {"in", "esc", "out"}, NEW w \in Seq(Chars), NEW m \in Nat
      PROVE  State(at, val \o w, m) \in States /\ State(at, val \o w, m).val = val \o w
  <2>1. val \o w \in Seq(Chars)
    BY <1>1
  <2>2. QED BY <2>1 DEF State, States
<1>5. next + 1 \in Nat
  BY <1>1
<1>6. \E at \in {"in", "esc", "out"}, w \in Seq(Chars), m \in Nat :
        QuotedStep(q, c) = State(at, val \o w, m)
  <2>1. "in" \in {"in", "esc", "out"} /\ "esc" \in {"in", "esc", "out"}
        /\ "out" \in {"in", "esc", "out"}
    OBVIOUS
  <2>2. CASE q.at = "out"
    <3>1. q = State("out", val, next)
      BY <1>1, <2>2, Zenon
    <3>2. QuotedStep(State("out", val, next), c) = State("out", val, next)
      BY <1>1, StepFacts
    <3>3. QuotedStep(q, c) = State("out", val \o <<>>, next)
      BY <1>3, <3>1, <3>2, Zenon
    <3>4. QED BY <1>1, <1>2, <2>1, <3>3, Zenon
  <2>3. CASE q.at = "in"
    <3>1. \/ QuotedStep(q, c) = State("esc", val \o <<>>, next + 1)
          \/ QuotedStep(q, c) = State("out", val \o <<>>, next + 1)
          \/ QuotedStep(q, c) = State("in", val \o <<c>>, next + 1)
      <4>1. q = State("in", val, next)
        BY <1>1, <2>3, Zenon
      <4>2. c = type.esc \/ (c = Quot /\ c # type.esc) \/ c \notin {Quot, type.esc}
        OBVIOUS
      <4> DEFINE r == QuotedStep(State("in", val, next), c)
      <4>3. \/ r = State("esc", val, next + 1)
            \/ r = State("out", val, next + 1)
            \/ r = State("in", val \o <<c>>, next + 1)
        BY <1>1, <4>2, StepFacts
      <4> HIDE DEF r
      <4>4. QuotedStep(q, c) = r
        BY <4>1, Zenon DEF r
      <4>5. QED BY <1>3, <4>3, <4>4, Zenon
    <3>2. QED BY <1>2, <1>5, <2>1, <3>1, Zenon
  <2>4. CASE q.at = "esc"
    <3>1. \/ QuotedStep(q, c) = State("in", val \o <<c>>, next + 1)
          \/ QuotedStep(q, c) = State("out", val \o <<>>, next)
          \/ QuotedStep(q, c) = State("in", val \o <<type.esc, c>>, next + 1)
      BY <1>1, <1>3, <2>4, StepFacts
    <3>2. QED BY <1>1, <1>2, <1>5, <2>1, <3>1, Zenon
  <2>5. QED BY <1>1, <2>2, <2>3, <2>4
<1>7. QuotedStep(q, c) \in States
      /\ \E w \in Seq(Chars) : QuotedStep(q, c).val = val \o w
  BY <1>4, <1>6, Zenon
<1>8. q.at = "out" => QuotedStep(q, c) = q
  <2>1. QuotedStep(State("out", val, next), c) = State("out", val, next)
    BY <1>1, StepFacts
  <2>2. QED BY <1>1, <2>1, Zenon
<1>9. QED BY <1>7, <1>8 DEF val

LEMMA WrongStays ==
  ASSUME Typed, NEW q \in States, NEW c \in Chars, NEW s \in Seq(Chars), Wrong(q, s)
  PROVE  Wrong(QuotedStep(q, c), s)
<1>1. CASE q.at = "out"
  BY <1>1, StepAdds
<1>2. CASE q.at # "out"
  <2> DEFINE r == QuotedStep(q, c)
  <2>1. PICK k \in 1 .. Len(q.val) : k <= Len(s) /\ q.val[k] # s[k]
    BY <1>2 DEF Wrong
  <2>2. PICK w \in Seq(Chars) : r.val = q.val \o w
    BY StepAdds
  <2>3. q.val \in Seq(Chars)
    BY DEF States
  <2>4. k \in 1 .. Len(r.val) /\ r.val[k] = q.val[k]
    BY <2>2, <2>3, ConcatFacts
  <2>5. QED BY <2>1, <2>4 DEF Wrong
<1>3. QED BY <1>1, <1>2

(* What Quoted returns.                                                     *)
LEMMA QuotedScan ==
  ASSUME Typed, NEW p \in Nat \ {0}, p <= Len(text) + 1
  PROVE  \E f : /\ IsScan(f, p)
                /\ LET q == f[Len(text) + 1]
                   IN  Quoted(p) = Result(q.val, q.next, q.at = "out"
                                            \/ (q.at = "esc" /\ type.esc = Quot))
<1> DEFINE l == Len(text)
           step == [m \in Nat |-> [q \in States |->
                      IF m - 1 \in 1 .. l THEN QuotedStep(q, text[m - 1]) ELSE q]]
<1>1. l \in Nat /\ \A n \in 1 .. l : text[n] \in Chars
  BY DEF Typed
<1> HIDE DEF Chars
<1>2. State("in", <<>>, p) \in States
  <2>1. <<>> \in Seq(Chars)
    OBVIOUS
  <2>2. QED BY <2>1 DEF State, States
<1> HIDE DEF l
<1>3. step \in [Nat -> [States -> States]]
  <2>1. \A m \in Nat : \A q \in States :
          (IF m - 1 \in 1 .. l THEN QuotedStep(q, text[m - 1]) ELSE q) \in States
    BY <1>1, StepAdds
  <2>2. QED BY <2>1, Zenon
<1>4. \A m \in Nat : \A q \in States :
        m - 1 \in 1 .. l => step[m][q] = QuotedStep(q, text[m - 1])
  BY Zenon
<1> HIDE DEF step
<1>5. p \in Nat /\ l + 1 \in Nat /\ p <= l + 1
  BY <1>1 DEF l
<1>6. PICK f : Stepwise(f, States, State("in", <<>>, p), p, l + 1, step)
  <2>1. \E f : Stepwise(f, States, State("in", <<>>, p), p, l + 1, step)
    BY <1>2, <1>3, <1>5, Recursion
  <2>2. QED BY <2>1
<1>7. Places(p) = p .. l + 1
  BY DEF Places, l
<1>8. f \in [p .. l + 1 -> States] /\ f[p] = State("in", <<>>, p)
  BY <1>6 DEF Stepwise
<1>9. ASSUME NEW m \in p .. l + 1, m # p PROVE f[m] = QuotedStep(f[m - 1], text[m - 1])
  <2>1. m \in p + 1 .. l + 1 /\ m \in Nat /\ m - 1 \in 1 .. l /\ m - 1 \in p .. l + 1
    BY <1>1, <1>9
  <2>2. f[m] = step[m][f[m - 1]] /\ f[m - 1] \in States
    BY <1>6, <1>8, <2>1, Zenon DEF Stepwise
  <2>3. QED BY <1>4, <2>1, <2>2, Zenon
<1> DEFINE Rec(g) == g = [n \in p .. l + 1 |->
                           IF n = p THEN State("in", <<>>, p)
                           ELSE QuotedStep(g[n - 1], text[n - 1])]
<1>10. Rec(f)
  <2>1. f = [n \in p .. l + 1 |-> f[n]]
    BY <1>8
  <2>2. \A n \in p .. l + 1 : f[n] = IF n = p THEN State("in", <<>>, p)
                                      ELSE QuotedStep(f[n - 1], text[n - 1])
    BY <1>8, <1>9, Zenon
  <2>3. QED BY <2>1, <2>2, Zenon
<1> DEFINE g == CHOOSE h : Rec(h)
<1>11. Rec(g)
  BY <1>10, Zenon
<1>12. LET q == g[l + 1]
       IN  Quoted(p) = Result(q.val, q.next, q.at = "out"
                                \/ (q.at = "esc" /\ type.esc = Quot))
  BY <1>7, Zenon DEF Quoted, State, l
<1> HIDE DEF g
<1>13. \A n \in p .. l + 1 : g[n] = IF n = p THEN State("in", <<>>, p)
                                     ELSE QuotedStep(g[n - 1], text[n - 1])
  BY <1>11, Zenon
<1> HIDE DEF Rec
<1>14. \A n \in p .. l + 1 : g[n] = f[n]
  <2> DEFINE S == {n \in p .. l + 1 : g[n] = f[n]}
  <2>1. p \in S
    BY <1>5, <1>8, <1>13
  <2>2. ASSUME NEW n \in p .. (l + 1) - 1, n \in S PROVE n + 1 \in S
    <3>1. n + 1 \in p .. l + 1 /\ n + 1 # p /\ (n + 1) - 1 = n /\ g[n] = f[n]
      BY <1>1, <2>2
    <3>2. g[n + 1] = QuotedStep(g[n], text[n]) /\ f[n + 1] = QuotedStep(f[n], text[n])
      BY <1>9, <1>13, <3>1, Zenon
    <3>3. QED BY <3>1, <3>2, Zenon
  <2>3. \A n \in p .. l + 1 : n \in S
    <3> HIDE DEF S
    <3>1. QED BY <1>5, <2>1, <2>2, RangeInduction
  <2>4. QED BY <2>3
<1>15. \A n \in p .. l : f[n + 1] = QuotedStep(f[n], text[n])
  <2>1. \A n \in p .. l : n + 1 \in p .. l + 1 /\ n + 1 # p /\ (n + 1) - 1 = n
    BY <1>1
  <2>2. QED BY <1>9, <2>1, Zenon
<1>16. l + 1 \in p .. l + 1
  BY <1>5
<1>17. IsScan(f, p)
  BY <1>7, <1>8, <1>15 DEF IsScan, l
<1>18. LET q == f[l + 1]
       IN  Quoted(p) = Result(q.val, q.next, q.at = "out"
                                \/ (q.at = "esc" /\ type.esc = Quot))
  BY <1>12, <1>14, <1>16, Zenon
<1>19. QED BY <1>17, <1>18, Zenon DEF l

Prefix(s, i) == SubSeq(s, 1, i)

LEMMA PrefixFacts ==
  ASSUME NEW s \in Seq(Chars), NEW i \in 0 .. Len(s)
  PROVE  /\ Prefix(s, i) \in Seq(Chars) /\ Len(Prefix(s, i)) = i
         /\ \A k \in 1 .. i : Prefix(s, i)[k] = s[k]
         /\ i = Len(s) => Prefix(s, i) = s
         /\ i = 0 => Prefix(s, i) = <<>>
<1> HIDE DEF Chars
<1>1. /\ i \in Int /\ 1 \in Int /\ Len(s) \in Nat
      /\ \A k \in 1 .. i : s[k] \in Chars
  OBVIOUS
<1>2. /\ Prefix(s, i) \in Seq(Chars)
      /\ Len(Prefix(s, i)) = IF 1 <= i THEN i - 1 + 1 ELSE 0
      /\ \A k \in 1 .. i - 1 + 1 : Prefix(s, i)[k] = s[1 + k - 1]
  BY <1>1, SubSeqProperties DEF Prefix
<1>3. Len(Prefix(s, i)) = i
  BY <1>1, <1>2
<1>4. ASSUME NEW k \in 1 .. i PROVE Prefix(s, i)[k] = s[k]
  <2>1. k \in 1 .. i - 1 + 1 /\ 1 + k - 1 = k
    BY <1>1
  <2>2. QED BY <1>2, <2>1
<1>5. i = Len(s) => Prefix(s, i) = s
  BY <1>2, <1>3, <1>4, SeqEqual
<1>6. i = 0 => Prefix(s, i) = <<>>
  BY <1>2, <1>3
<1>7. QED BY <1>2, <1>3, <1>4, <1>5, <1>6

LEMMA PrefixAppend ==
  ASSUME NEW s \in Seq(Chars), NEW i \in 0 .. Len(s) - 1
  PROVE  Prefix(s, i) \o <<s[i + 1]>> = Prefix(s, i + 1)
<1> DEFINE a == Prefix(s, i)
           b == Prefix(s, i + 1)
           c == <<s[i + 1]>>
<1> HIDE DEF Chars
<1>1. i \in Nat /\ i \in 0 .. Len(s) /\ i + 1 \in 0 .. Len(s) /\ i + 1 \in 1 .. Len(s)
      /\ i + 1 \in 1 .. i + 1
  OBVIOUS
<1>2. /\ a \in Seq(Chars) /\ Len(a) = i /\ b \in Seq(Chars) /\ Len(b) = i + 1
      /\ \A k \in 1 .. i : a[k] = s[k]
      /\ \A k \in 1 .. i + 1 : b[k] = s[k]
  BY <1>1, PrefixFacts
<1>3. c \in Seq(Chars) /\ Len(c) = 1 /\ c[1] = s[i + 1]
  BY <1>1
<1> HIDE DEF a, b, c
<1>4. /\ Len(a \o c) = i + 1 /\ a \o c \in Seq(Chars)
      /\ \A k \in 1 .. i : (a \o c)[k] = a[k]
      /\ (a \o c)[i + 1] = c[1]
  <2>1. /\ Len(a \o c) = Len(a) + Len(c) /\ a \o c \in Seq(Chars)
        /\ \A k \in 1 .. Len(a) : (a \o c)[k] = a[k]
        /\ \A k \in 1 .. Len(c) : (a \o c)[Len(a) + k] = c[k]
    BY <1>2, <1>3, ConcatFacts
  <2>2. 1 \in 1 .. Len(c)
    BY <1>3
  <2>3. (a \o c)[Len(a) + 1] = c[1]
    BY <2>1, <2>2
  <2>4. QED BY <1>2, <1>3, <2>1, <2>3
<1>5. ASSUME NEW k \in 1 .. Len(a \o c) PROVE (a \o c)[k] = b[k]
  <2>1. CASE k = i + 1
    BY <1>1, <1>2, <1>3, <1>4, <2>1
  <2>2. CASE k # i + 1
    <3>1. k \in 1 .. i /\ k \in 1 .. i + 1
      BY <1>1, <1>4, <2>2
    <3>2. QED BY <1>2, <1>4, <3>1
  <2>3. QED BY <2>1, <2>2
<1>6. a \o c = b
  BY <1>2, <1>4, <1>5, SeqEqual
<1>7. QED BY <1>6 DEF a, b, c

LEMMA PrefixAppendTwo ==
  ASSUME NEW s \in Seq(Chars), NEW i \in 0 .. Len(s) - 2
  PROVE  Prefix(s, i) \o <<s[i + 1], s[i + 2]>> = Prefix(s, i + 2)
<1> HIDE DEF Chars
<1>1. i \in 0 .. Len(s) - 1 /\ i + 1 \in 0 .. Len(s) - 1 /\ i \in 0 .. Len(s)
      /\ (i + 1) + 1 = i + 2 /\ s[i + 1] \in Chars /\ s[i + 2] \in Chars
  OBVIOUS
<1>2. Prefix(s, i) \o <<s[i + 1]>> = Prefix(s, i + 1)
  BY <1>1, PrefixAppend
<1>3. Prefix(s, i + 1) \o <<s[i + 2]>> = Prefix(s, i + 2)
  BY <1>1, PrefixAppend
<1>4. <<s[i + 1], s[i + 2]>> = <<s[i + 1]>> \o <<s[i + 2]>>
      /\ <<s[i + 1]>> \in Seq(Chars) /\ <<s[i + 2]>> \in Seq(Chars)
  BY <1>1
<1>5. Prefix(s, i) \in Seq(Chars)
  BY <1>1, PrefixFacts
<1> DEFINE a == Prefix(s, i)
           b == <<s[i + 1]>>
           c == <<s[i + 2]>>
<1> HIDE DEF a, b, c
<1>6. (a \o b) \o c = a \o (b \o c)
  BY <1>4, <1>5, ConcatAssociative DEF a, b, c
<1>7. QED BY <1>2, <1>3, <1>4, <1>6 DEF a, b, c

(* Another character than that of s behind a prefix of it is wrong.         *)
LEMMA WrongBehind ==
  ASSUME NEW s \in Seq(Chars), NEW i \in 0 .. Len(s) - 1, NEW w \in Seq(Chars),
         NEW q, q.val = Prefix(s, i) \o w,
         \E k \in 1 .. Len(w) : i + k <= Len(s) /\ w[k] # s[i + k]
  PROVE  Wrong(q, s)
<1>1. PICK k \in 1 .. Len(w) : i + k <= Len(s) /\ w[k] # s[i + k]
  OBVIOUS
<1>2. i \in 0 .. Len(s) /\ i \in Nat
  OBVIOUS
<1>3. Prefix(s, i) \in Seq(Chars) /\ Len(Prefix(s, i)) = i
  BY <1>2, PrefixFacts
<1>4. Len(q.val) = i + Len(w) /\ q.val[i + k] = w[k] /\ Len(w) \in Nat
  <2> DEFINE a == Prefix(s, i)
  <2> HIDE DEF a
  <2>1. /\ Len(a \o w) = Len(a) + Len(w) /\ Len(w) \in Nat
        /\ \A j \in 1 .. Len(w) : (a \o w)[Len(a) + j] = w[j]
    BY <1>3, ConcatFacts DEF a
  <2>2. (a \o w)[Len(a) + k] = w[k]
    BY <2>1
  <2>3. q.val = a \o w /\ Len(a) = i
    BY <1>3 DEF a
  <2>4. QED BY <2>1, <2>2, <2>3
<1>5. i + k \in 1 .. Len(q.val)
  BY <1>1, <1>2, <1>4
<1>6. QED BY <1>1, <1>4, <1>5 DEF Wrong

-----------------------------------------------------------------------------
(* Reading back what stands between quotes. *)

(* Of the first i characters of s none spoils an escape that one stands for. *)
Plain(s, i) ==
  type.esc = Quot
    \/ \A j \in 1 .. i - 1 : s[j] = type.esc => s[j + 1] \notin {type.esc, Quot}

Escaped(s, i) == type.esc # Quot /\ i > 0 /\ s[i] = type.esc

(* All of the first i characters have been read, but for an escape at the   *)
(* end that waits for its successor.                                       *)
Clean(q, s, i, m) ==
  q = IF Escaped(s, i) THEN State("esc", Prefix(s, i - 1), m)
      ELSE State("in", Prefix(s, i), m)

(* Of a run of escape characters some have been dropped.                    *)
Lagging(q, s, i, m) ==
  \E l \in 1 .. i :
    /\ \/ q = State("in", Prefix(s, l), m) /\ l < i
       \/ q = State("esc", Prefix(s, l), m) /\ l < i - 1
    /\ \A k \in l + 1 .. i : s[k] = type.esc

Progress(q, s, i, m) ==
  IF Plain(s, i) THEN Clean(q, s, i, m)
  ELSE Wrong(q, s) \/ Lagging(q, s, i, m)

LEMMA PlainNext ==
  ASSUME NEW s, NEW i \in Nat
  PROVE  /\ Plain(s, i + 1) => Plain(s, i)
         /\ Plain(s, i) /\ ~ Escaped(s, i) => Plain(s, i + 1)
         /\ Plain(s, i) /\ s[i + 1] \notin {type.esc, Quot} => Plain(s, i + 1)
         /\ Escaped(s, i) /\ s[i + 1] \in {type.esc, Quot} => ~ Plain(s, i + 1)
<1>1. \A j \in 1 .. i - 1 : j \in 1 .. (i + 1) - 1
  OBVIOUS
<1>2. Plain(s, i + 1) => Plain(s, i)
  BY <1>1 DEF Plain
<1>3. \A j \in 1 .. (i + 1) - 1 : j \in 1 .. i - 1 \/ (j = i /\ i > 0)
  OBVIOUS
<1>4. Plain(s, i) /\ ~ Escaped(s, i) => Plain(s, i + 1)
  BY <1>3 DEF Plain, Escaped
<1>5. Plain(s, i) /\ s[i + 1] \notin {type.esc, Quot} => Plain(s, i + 1)
  BY <1>3 DEF Plain
<1>6. Escaped(s, i) /\ s[i + 1] \in {type.esc, Quot} => ~ Plain(s, i + 1)
  <2>1. i > 0 => i \in 1 .. (i + 1) - 1
    OBVIOUS
  <2>2. QED BY <2>1 DEF Plain, Escaped
<1>7. QED BY <1>2, <1>4, <1>5, <1>6

(* The characters of a piece, one step or two.                              *)
PieceRead(q, c) ==
  IF c = Quot THEN QuotedStep(QuotedStep(q, type.esc), Quot) ELSE QuotedStep(q, c)

PieceEnd(m, c) == IF c = Quot THEN m + 2 ELSE m + 1

(* From a state that has read a prefix.                                     *)
LEMMA PieceSteps ==
  ASSUME Typed, NEW val \in Seq(Chars), NEW m \in Nat, NEW c \in Chars
  PROVE  LET step(at) == PieceRead(State(at, val, m), c)
             end == PieceEnd(m, c)
         IN  /\ c = Quot =>
                  step("in") = State("in", val \o <<Quot>>, end)
             /\ c = type.esc /\ c # Quot => step("in") = State("esc", val, end)
             /\ c \notin {Quot, type.esc} => step("in") = State("in", val \o <<c>>, end)
             /\ c = Quot /\ type.esc # Quot =>
                  step("esc") = State("out", val \o <<type.esc>>, end)
             /\ c = type.esc /\ c # Quot =>
                  step("esc") = State("in", val \o <<type.esc>>, end)
             /\ c \notin {Quot, type.esc} /\ type.esc # Quot =>
                  step("esc") = State("in", val \o <<type.esc, c>>, end)
<1>1. type.esc \in Chars /\ Quot \in Chars /\ m + 1 \in Nat /\ (m + 1) + 1 = m + 2
  BY TypeFacts DEF Chars
<1> HIDE DEF Chars
<1>2. val \o <<type.esc>> \in Seq(Chars)
  BY <1>1
<1> DEFINE end == PieceEnd(m, c)
<1>3. /\ c = Quot => end = m + 2
      /\ c # Quot => end = m + 1
  BY DEF PieceEnd
<1> HIDE DEF end
<1>4. CASE c = Quot
  <2>1. \A q : PieceRead(q, c) = QuotedStep(QuotedStep(q, type.esc), Quot)
    BY <1>4, Zenon DEF PieceRead
  <2>2. QuotedStep(State("in", val, m), type.esc) = State("esc", val, m + 1)
    BY <1>1, StepFacts
  <2>3. QuotedStep(State("esc", val, m + 1), Quot)
          = State("in", val \o <<Quot>>, (m + 1) + 1)
    BY <1>1, StepFacts
  <2>4. PieceRead(State("in", val, m), c) = State("in", val \o <<Quot>>, end)
    BY <1>1, <1>3, <1>4, <2>1, <2>2, <2>3, Zenon
  <2>5. ASSUME type.esc # Quot
        PROVE  PieceRead(State("esc", val, m), c) = State("out", val \o <<type.esc>>, end)
    <3>1. QuotedStep(State("esc", val, m), type.esc)
            = State("in", val \o <<type.esc>>, m + 1)
      BY <1>1, StepFacts
    <3> DEFINE v == val \o <<type.esc>>
    <3> HIDE DEF v
    <3>2. QuotedStep(State("in", v, m + 1), Quot) = State("out", v, (m + 1) + 1)
      BY <1>1, <1>2, <2>5, StepFacts DEF v
    <3>3. QED BY <1>1, <1>3, <1>4, <2>1, <3>1, <3>2, Zenon DEF v
  <2>6. QED BY <1>4, <2>4, <2>5, Zenon DEF end
<1>5. CASE c # Quot
  <2>1. \A q : PieceRead(q, c) = QuotedStep(q, c)
    BY <1>5, Zenon DEF PieceRead
  <2>2. end = m + 1
    BY <1>3, <1>5
  <2>3. c = type.esc => /\ QuotedStep(State("in", val, m), c) = State("esc", val, m + 1)
                        /\ QuotedStep(State("esc", val, m), c)
                             = State("in", val \o <<c>>, m + 1)
    BY StepFacts
  <2>4. c \notin {Quot, type.esc} =>
          QuotedStep(State("in", val, m), c) = State("in", val \o <<c>>, m + 1)
    BY StepFacts
  <2>5. c \notin {Quot, type.esc} /\ type.esc # Quot =>
          QuotedStep(State("esc", val, m), c) = State("in", val \o <<type.esc, c>>, m + 1)
    BY StepFacts
  <2>6. QED BY <1>5, <2>1, <2>2, <2>3, <2>4, <2>5, Zenon DEF end
<1>6. QED BY <1>4, <1>5, Zenon

LEMMA PieceReadFacts ==
  ASSUME Typed, NEW q \in States, NEW c \in Chars, NEW s \in Seq(Chars)
  PROVE  PieceRead(q, c) \in States /\ (Wrong(q, s) => Wrong(PieceRead(q, c), s))
<1>1. type.esc \in Chars /\ Quot \in Chars
  BY TypeFacts DEF Chars
<1> HIDE DEF Chars
<1>2. CASE c = Quot
  <2> DEFINE r == QuotedStep(q, type.esc)
  <2>1. r \in States /\ (Wrong(q, s) => Wrong(r, s))
    BY <1>1, StepAdds, WrongStays
  <2>2. PieceRead(q, c) = QuotedStep(r, Quot)
    BY <1>2, Zenon DEF PieceRead
  <2> HIDE DEF r
  <2>3. QuotedStep(r, Quot) \in States /\ (Wrong(r, s) => Wrong(QuotedStep(r, Quot), s))
    BY <1>1, <2>1, StepAdds, WrongStays
  <2>4. QED BY <2>1, <2>2, <2>3, Zenon
<1>3. CASE c # Quot
  <2>1. PieceRead(q, c) = QuotedStep(q, c)
    BY <1>3, Zenon DEF PieceRead
  <2>2. QuotedStep(q, c) \in States /\ (Wrong(q, s) => Wrong(QuotedStep(q, c), s))
    BY StepAdds, WrongStays
  <2>3. QED BY <2>1, <2>2, Zenon
<1>4. QED BY <1>2, <1>3

(* From the one side of the next piece to the other.                        *)
LEMMA CleanPiece ==
  ASSUME Typed, NEW s \in Seq(Chars), NEW i \in 0 .. Len(s) - 1, NEW m \in Nat,
         NEW q \in States, Plain(s, i), Clean(q, s, i, m)
  PROVE  Progress(PieceRead(q, s[i + 1]), s, i + 1, PieceEnd(m, s[i + 1]))
<1> DEFINE c == s[i + 1]
           r == PieceRead(q, c)
           end == PieceEnd(m, c)
<1>1. /\ i \in Nat /\ i + 1 \in 1 .. Len(s) /\ i + 1 \in 0 .. Len(s) /\ c \in Chars
      /\ i \in 0 .. Len(s) /\ (i + 1) - 1 = i /\ i + 1 > 0 /\ Len(s) \in Nat
  OBVIOUS
<1>2. Prefix(s, i) \in Seq(Chars) /\ Prefix(s, i) \o <<c>> = Prefix(s, i + 1)
  BY <1>1, PrefixFacts, PrefixAppend
<1> HIDE DEF c, Chars
<1>3. CASE ~ Escaped(s, i)
  <2>1. q = State("in", Prefix(s, i), m) /\ Plain(s, i + 1)
    BY <1>1, <1>3, PlainNext DEF Clean
  <2>2. CASE c = Quot
    <3>1. r = State("in", Prefix(s, i) \o <<Quot>>, end)
      BY <1>1, <1>2, <2>1, <2>2, PieceSteps
    <3>2. ~ Escaped(s, i + 1)
      BY <2>2 DEF Escaped, c
    <3>3. Clean(r, s, i + 1, end)
      BY <1>2, <2>2, <3>1, <3>2, Zenon DEF Clean
    <3>4. QED BY <2>1, <3>3, Zenon DEF Progress, c
  <2>3. CASE c = type.esc /\ c # Quot
    <3>1. r = State("esc", Prefix(s, i), end)
      BY <1>1, <1>2, <2>1, <2>3, PieceSteps
    <3>2. Escaped(s, i + 1)
      BY <1>1, <2>3 DEF Escaped, c
    <3>3. Clean(r, s, i + 1, end)
      BY <1>1, <3>1, <3>2, Zenon DEF Clean
    <3>4. QED BY <2>1, <3>3, Zenon DEF Progress, c
  <2>4. CASE c \notin {Quot, type.esc}
    <3>1. r = State("in", Prefix(s, i) \o <<c>>, end)
      BY <1>1, <1>2, <2>1, <2>4, PieceSteps
    <3>2. ~ Escaped(s, i + 1)
      BY <2>4 DEF Escaped, c
    <3>3. Clean(r, s, i + 1, end)
      BY <1>2, <3>1, <3>2, Zenon DEF Clean
    <3>4. QED BY <2>1, <3>3, Zenon DEF Progress, c
  <2>5. QED BY <2>2, <2>3, <2>4
<1>4. CASE Escaped(s, i)
  <2> DEFINE h == i - 1
  <2>1. /\ type.esc # Quot /\ i > 0 /\ s[i] = type.esc /\ h \in 0 .. Len(s) - 2
        /\ h \in 0 .. Len(s) - 1 /\ h \in 0 .. Len(s) /\ h + 1 = i /\ h + 2 = i + 1
    BY <1>1, <1>4 DEF Escaped
  <2>2. q = State("esc", Prefix(s, h), m)
    BY <1>4, Zenon DEF Clean
  <2> HIDE DEF h
  <2>3. /\ Prefix(s, h) \in Seq(Chars)
        /\ Prefix(s, h) \o <<type.esc>> = Prefix(s, i)
        /\ Prefix(s, h) \o <<type.esc, c>> = Prefix(s, i + 1)
    <3>1. Prefix(s, h) \o <<s[h + 1]>> = Prefix(s, h + 1)
      BY <2>1, PrefixAppend
    <3>2. Prefix(s, h) \o <<s[h + 1], s[h + 2]>> = Prefix(s, h + 2)
      BY <2>1, PrefixAppendTwo
    <3>3. Prefix(s, h) \in Seq(Chars)
      BY <2>1, PrefixFacts
    <3>4. QED BY <2>1, <3>1, <3>2, <3>3, Zenon DEF c
  <2>4. CASE c = Quot
    <3>1. r = State("out", Prefix(s, i), end)
      <4>1. PieceRead(State("esc", Prefix(s, h), m), c)
              = State("out", Prefix(s, h) \o <<type.esc>>, PieceEnd(m, c))
        BY <1>1, <2>1, <2>3, <2>4, PieceSteps
      <4>2. QED BY <2>2, <2>3, <4>1, Zenon
    <3>2. r.at = "out" /\ Len(r.val) = i
      <4>1. Len(Prefix(s, i)) = i
        BY <1>1, PrefixFacts
      <4> HIDE DEF r
      <4>2. QED BY <3>1, <4>1 DEF State
    <3>3. Wrong(r, s)
      <4> HIDE DEF r
      <4>1. QED BY <1>1, <2>1, <3>2 DEF Wrong
    <3>4. ~ Plain(s, i + 1)
      BY <1>1, <1>4, <2>4, PlainNext DEF c
    <3>5. QED BY <3>3, <3>4, Zenon DEF Progress, c
  <2>5. CASE c = type.esc
    <3>1. r = State("in", Prefix(s, i), end)
      <4>1. PieceRead(State("esc", Prefix(s, h), m), c)
              = State("in", Prefix(s, h) \o <<type.esc>>, PieceEnd(m, c))
        BY <1>1, <2>1, <2>3, <2>5, PieceSteps
      <4>2. QED BY <2>2, <2>3, <4>1, Zenon
    <3>2. ~ Plain(s, i + 1)
      BY <1>1, <1>4, <2>5, PlainNext DEF c
    <3>3. i \in 1 .. i + 1 /\ i < i + 1 /\ \A k \in i + 1 .. i + 1 : s[k] = type.esc
      BY <1>1, <2>1, <2>5 DEF c
    <3>4. Lagging(r, s, i + 1, end)
      BY <3>1, <3>3, Zenon DEF Lagging
    <3>5. QED BY <3>2, <3>4, Zenon DEF Progress, c
  <2>6. CASE c \notin {Quot, type.esc}
    <3>1. r = State("in", Prefix(s, i + 1), end)
      <4>1. PieceRead(State("esc", Prefix(s, h), m), c)
              = State("in", Prefix(s, h) \o <<type.esc, c>>, PieceEnd(m, c))
        BY <1>1, <2>1, <2>3, <2>6, PieceSteps
      <4>2. QED BY <2>2, <2>3, <4>1, Zenon
    <3>2. Plain(s, i + 1)
      BY <1>1, <2>6, PlainNext DEF c
    <3>3. ~ Escaped(s, i + 1)
      BY <2>6 DEF Escaped, c
    <3>4. Clean(r, s, i + 1, end)
      BY <3>1, <3>3, Zenon DEF Clean
    <3>5. QED BY <3>2, <3>4, Zenon DEF Progress, c
  <2>7. QED BY <2>4, <2>5, <2>6
<1>5. QED BY <1>3, <1>4

LEMMA LaggingPiece ==
  ASSUME Typed, NEW s \in Seq(Chars), NEW i \in 0 .. Len(s) - 1, NEW m \in Nat,
         NEW q \in States, ~ Plain(s, i), Lagging(q, s, i, m)
  PROVE  LET r == PieceRead(q, s[i + 1])
         IN  Wrong(r, s) \/ Lagging(r, s, i + 1, PieceEnd(m, s[i + 1]))
<1> DEFINE c == s[i + 1]
           r == PieceRead(q, c)
           end == PieceEnd(m, c)
<1>1. /\ i \in Nat /\ i + 1 \in 1 .. Len(s) /\ c \in Chars /\ Len(s) \in Nat
      /\ type.esc # Quot
  BY DEF Plain
<1>2. PICK l \in 1 .. i :
        /\ \/ q = State("in", Prefix(s, l), m) /\ l < i
           \/ q = State("esc", Prefix(s, l), m) /\ l < i - 1
        /\ \A k \in l + 1 .. i : s[k] = type.esc
  BY DEF Lagging
<1> HIDE DEF c, Chars
<1>3. /\ l \in Nat /\ l >= 1 /\ l + 1 <= i /\ l + 1 \in l + 1 .. i /\ l \in 0 .. Len(s) - 1
      /\ l \in 0 .. Len(s) /\ s[l + 1] = type.esc /\ l \in 1 .. i + 1
  BY <1>1, <1>2
<1>4. Prefix(s, l) \in Seq(Chars)
  BY <1>3, PrefixFacts
<1>5. /\ type.esc \in Chars /\ <<Quot>> \in Seq(Chars) /\ <<c>> \in Seq(Chars)
      /\ <<type.esc, c>> \in Seq(Chars)
  <2>1. type.esc \in Chars /\ Quot \in Chars
    BY TypeFacts DEF Chars
  <2>2. QED BY <1>1, <2>1
<1>6. c = type.esc => \A k \in l + 1 .. i + 1 : s[k] = type.esc
  <2>1. \A k \in l + 1 .. i + 1 : k \in l + 1 .. i \/ k = i + 1
    BY <1>3
  <2>2. QED BY <1>2, <2>1 DEF c
<1>8. CASE q = State("in", Prefix(s, l), m)
  <2>1. CASE c = Quot
    <3>1. r = State("in", Prefix(s, l) \o <<Quot>>, end)
      BY <1>1, <1>4, <1>8, <2>1, PieceSteps
    <3>2. r.val = Prefix(s, l) \o <<Quot>>
      BY <3>1 DEF State
    <3>3. 1 \in 1 .. Len(<<Quot>>) /\ l + 1 <= Len(s) /\ <<Quot>>[1] # s[l + 1]
      BY <1>1, <1>3
    <3> HIDE DEF r
    <3>4. Wrong(r, s)
      BY <1>3, <1>5, <3>2, <3>3, WrongBehind
    <3>5. QED BY <3>4, Zenon DEF r, c
  <2>2. CASE c = type.esc
    <3>1. r = State("esc", Prefix(s, l), end)
      BY <1>1, <1>4, <1>8, <2>2, PieceSteps
    <3>2. l < (i + 1) - 1
      BY <1>3
    <3>3. Lagging(r, s, i + 1, end)
      BY <1>3, <1>6, <2>2, <3>1, <3>2, Zenon DEF Lagging
    <3>4. QED BY <3>3, Zenon DEF c
  <2>3. CASE c \notin {Quot, type.esc}
    <3>1. r = State("in", Prefix(s, l) \o <<c>>, end)
      BY <1>1, <1>4, <1>8, <2>3, PieceSteps
    <3>2. r.val = Prefix(s, l) \o <<c>>
      BY <3>1 DEF State
    <3>3. 1 \in 1 .. Len(<<c>>) /\ l + 1 <= Len(s) /\ <<c>>[1] # s[l + 1]
      BY <1>1, <1>3, <2>3
    <3> HIDE DEF r
    <3>4. Wrong(r, s)
      BY <1>3, <1>5, <3>2, <3>3, WrongBehind
    <3>5. QED BY <3>4, Zenon DEF r, c
  <2>4. QED BY <2>1, <2>2, <2>3
<1>9. CASE q = State("esc", Prefix(s, l), m) /\ l < i - 1
  <2>1. /\ l + 2 \in l + 1 .. i /\ s[l + 2] = type.esc /\ l + 2 <= Len(s)
        /\ l + 1 \in 0 .. Len(s) /\ l + 1 < i + 1 /\ l + 1 \in 1 .. i + 1
    BY <1>1, <1>2, <1>3, <1>9
  <2>2. Prefix(s, l) \o <<type.esc>> = Prefix(s, l + 1) /\ Len(Prefix(s, l + 1)) = l + 1
    <3>1. Prefix(s, l) \o <<s[l + 1]>> = Prefix(s, l + 1)
      BY <1>3, PrefixAppend
    <3>2. QED BY <1>3, <2>1, <3>1, PrefixFacts
  <2>3. CASE c = Quot
    <3>1. r = State("out", Prefix(s, l) \o <<type.esc>>, end)
      BY <1>1, <1>4, <1>9, <2>3, PieceSteps
    <3> HIDE DEF r
    <3>2. r.at = "out" /\ r.val = Prefix(s, l + 1)
      BY <2>2, <3>1 DEF State
    <3>3. Len(r.val) = l + 1
      BY <2>2, <3>2, Zenon
    <3> HIDE DEF r
    <3>4. Wrong(r, s)
      BY <1>3, <2>1, <3>2, <3>3 DEF Wrong
    <3>5. QED BY <3>4, Zenon DEF r, c
  <2>4. CASE c = type.esc
    <3>1. r = State("in", Prefix(s, l + 1), end)
      <4>1. PieceRead(State("esc", Prefix(s, l), m), c)
              = State("in", Prefix(s, l) \o <<type.esc>>, PieceEnd(m, c))
        BY <1>1, <1>4, <2>4, PieceSteps
      <4>2. QED BY <1>9, <2>2, <4>1, Zenon
    <3>2. \A k \in (l + 1) + 1 .. i + 1 : k \in l + 1 .. i + 1
      BY <1>3
    <3>3. Lagging(r, s, i + 1, end)
      BY <1>6, <2>1, <2>4, <3>1, <3>2, Zenon DEF Lagging
    <3>4. QED BY <3>3, Zenon DEF c
  <2>5. CASE c \notin {Quot, type.esc}
    <3> DEFINE w == <<type.esc, c>>
    <3>1. r = State("in", Prefix(s, l) \o w, end)
      BY <1>1, <1>4, <1>9, <2>5, PieceSteps
    <3>2. r.val = Prefix(s, l) \o w
      BY <3>1 DEF State
    <3>3. 2 \in 1 .. Len(w) /\ l + 2 <= Len(s) /\ w[2] # s[l + 2] /\ w \in Seq(Chars)
      BY <1>5, <2>1, <2>5
    <3> HIDE DEF r, w
    <3>4. Wrong(r, s)
      BY <1>3, <3>2, <3>3, WrongBehind
    <3>5. QED BY <3>4, Zenon DEF r, c
  <2>6. QED BY <2>3, <2>4, <2>5
<1>10. QED BY <1>2, <1>8, <1>9

LEMMA ProgressMade ==
  ASSUME Typed, NEW s \in Seq(Chars), NEW o, NEW p, NEW e, Laid(o, p, e, s),
         NEW f, IsScan(f, p + 1)
  PROVE  \A i \in 0 .. Len(s) : Progress(f[o[i]], s, i, o[i])
<1> DEFINE S == {i \in 0 .. Len(s) : Progress(f[o[i]], s, i, o[i])}
<1>1. Len(s) \in Nat /\ 0 \in 0 .. Len(s) /\ p \in Nat \ {0} /\ o[0] = p + 1
      /\ Len(text) \in Nat
  BY EndFacts DEF Laid
<1> HIDE DEF Chars
<1>2. /\ \A i \in 0 .. Len(s) : o[i] \in p + 1 .. Len(text) /\ o[i] \in Nat
      /\ f \in [Places(p + 1) -> States] /\ f[p + 1] = State("in", <<>>, p + 1)
      /\ \A n \in p + 1 .. Len(text) : f[n + 1] = QuotedStep(f[n], text[n])
  <2>1. \A i \in 0 .. Len(s) : o[i] \in p + 1 .. Len(text)
    BY DEF Laid
  <2>2. \A n \in p + 1 .. Len(text) : n \in Nat
    BY <1>1
  <2>3. QED BY <2>1, <2>2, Zenon DEF IsScan
<1>3. 0 \in S
  <2>1. Plain(s, 0) /\ ~ Escaped(s, 0)
    BY DEF Plain, Escaped
  <2>2. Prefix(s, 0) = <<>>
    BY <1>1, PrefixFacts
  <2>3. Clean(f[o[0]], s, 0, o[0])
    BY <1>1, <1>2, <2>1, <2>2, Zenon DEF Clean
  <2>4. Progress(f[o[0]], s, 0, o[0])
    BY <2>1, <2>3, Zenon DEF Progress
  <2>5. QED BY <1>1, <2>4
<1>4. ASSUME NEW i \in 0 .. Len(s) - 1, i \in S PROVE i + 1 \in S
  <2> DEFINE c == s[i + 1]
             q == f[o[i]]
             m == o[i]
  <2>1. /\ i \in 0 .. Len(s) /\ i + 1 \in 0 .. Len(s) /\ i + 1 \in 1 .. Len(s)
        /\ c \in Chars /\ (i + 1) - 1 = i /\ Progress(q, s, i, m)
    BY <1>4
  <2>2. m \in p + 1 .. Len(text) /\ m \in Nat /\ o[i + 1] \in p + 1 .. Len(text)
    BY <1>2, <2>1
  <2>3. q \in States
    <3>1. m \in Places(p + 1)
      BY <1>1, <2>2 DEF Places
    <3>2. QED BY <1>2, <3>1
  <2>4. IF c = Quot
        THEN text[m] = type.esc /\ text[m + 1] = Quot /\ o[i + 1] = m + 2
        ELSE text[m] = c /\ o[i + 1] = m + 1
    BY <2>1 DEF Laid
  <2> HIDE DEF c, q, m
  <2>5. f[o[i + 1]] = PieceRead(q, c) /\ o[i + 1] = PieceEnd(m, c)
    <3>1. f[m + 1] = QuotedStep(q, text[m])
      BY <1>2, <2>2 DEF q, m
    <3>2. CASE c = Quot
      <4>1. m + 1 \in p + 1 .. Len(text) /\ (m + 1) + 1 = m + 2
        BY <1>1, <2>2, <2>4, <3>2
      <4>2. f[m + 2] = QuotedStep(f[m + 1], text[m + 1])
        BY <1>2, <4>1
      <4>3. QED BY <2>4, <3>1, <3>2, <4>2, Zenon DEF PieceRead, PieceEnd
    <3>3. CASE c # Quot
      BY <2>4, <3>1, <3>3, Zenon DEF PieceRead, PieceEnd
    <3>4. QED BY <3>2, <3>3
  <2>6. Progress(PieceRead(q, c), s, i + 1, PieceEnd(m, c))
    <3>1. CASE Plain(s, i)
      <4>1. Clean(q, s, i, m)
        BY <2>1, <3>1, Zenon DEF Progress
      <4>2. QED BY <2>2, <2>3, <3>1, <4>1, CleanPiece DEF c
    <3>2. CASE ~ Plain(s, i)
      <4>1. Wrong(q, s) \/ Lagging(q, s, i, m)
        BY <2>1, <3>2, Zenon DEF Progress
      <4>2. ~ Plain(s, i + 1)
        BY <2>1, <3>2, PlainNext
      <4>3. CASE Wrong(q, s)
        <5>1. Wrong(PieceRead(q, c), s)
          BY <2>1, <2>3, <4>3, PieceReadFacts
        <5>2. QED BY <4>2, <5>1, Zenon DEF Progress
      <4>4. CASE Lagging(q, s, i, m)
        <5>1. Wrong(PieceRead(q, c), s)
              \/ Lagging(PieceRead(q, c), s, i + 1, PieceEnd(m, c))
          BY <2>2, <2>3, <3>2, <4>4, LaggingPiece DEF c
        <5>2. QED BY <4>2, <5>1, Zenon DEF Progress
      <4>5. QED BY <4>1, <4>3, <4>4
    <3>3. QED BY <3>1, <3>2
  <2>7. QED BY <2>1, <2>5, <2>6
<1>5. \A i \in 0 .. Len(s) : i \in S
  <2>1. 0 \in Nat /\ 0 <= Len(s)
    BY <1>1
  <2> HIDE DEF S
  <2>2. QED BY <1>1, <1>3, <1>4, <2>1, RangeInduction
<1>6. QED BY <1>5

(* What get_cstr can tell from s between quotes: see StringIsReadable.      *)
Unspoilt(s) ==
  type.esc = Quot
    \/ \A j \in DOMAIN s :
         s[j] = type.esc => j < Len(s) /\ s[j + 1] \notin {type.esc, Quot}

(* Behind the closing quote.                                                *)
LEMMA QuoteClosed ==
  ASSUME Typed, NEW s \in Seq(Chars), NEW m \in Nat, NEW q \in States,
         Progress(q, s, Len(s), m)
  PROVE  IF Unspoilt(s)
         THEN QuotedStep(q, Quot)
                = State(IF type.esc = Quot THEN "esc" ELSE "out", s, m + 1)
         ELSE Wrong(QuotedStep(q, Quot), s)
<1> DEFINE n == Len(s)
           r == QuotedStep(q, Quot)
<1>1. n \in Nat /\ n \in 0 .. Len(s) /\ DOMAIN s = 1 .. n /\ Quot \in Chars
  BY DEF Chars
<1> HIDE DEF Chars
<1>2. Unspoilt(s) <=> Plain(s, n) /\ ~ Escaped(s, n)
  <2> HIDE DEF n
  <2>1. CASE type.esc = Quot
    BY <2>1 DEF Unspoilt, Plain, Escaped
  <2>2. CASE type.esc # Quot
    <3>1. ASSUME Unspoilt(s) PROVE Plain(s, n) /\ ~ Escaped(s, n)
      <4>1. \A j \in 1 .. n : s[j] = type.esc => j < n /\ s[j + 1] \notin {type.esc, Quot}
        BY <1>1, <2>2, <3>1 DEF Unspoilt, n
      <4>2. \A j \in 1 .. n - 1 : j \in 1 .. n
        BY <1>1
      <4>3. n > 0 => n \in 1 .. n /\ ~ (n < n)
        BY <1>1
      <4>4. Plain(s, n)
        BY <4>1, <4>2, Zenon DEF Plain
      <4>5. ~ Escaped(s, n)
        BY <4>1, <4>3, Zenon DEF Escaped
      <4>6. QED BY <4>4, <4>5
    <3>2. ASSUME Plain(s, n), ~ Escaped(s, n) PROVE Unspoilt(s)
      <4>1. \A j \in 1 .. n : j < n \/ (j = n /\ n > 0)
        BY <1>1
      <4>2. \A j \in 1 .. n : j < n => j \in 1 .. n - 1
        BY <1>1
      <4>3. \A j \in 1 .. n : s[j] = type.esc => j < n /\ s[j + 1] \notin {type.esc, Quot}
        BY <2>2, <3>2, <4>1, <4>2, Zenon DEF Plain, Escaped
      <4>4. QED BY <1>1, <4>3, Zenon DEF Unspoilt, n
    <3>3. QED BY <3>1, <3>2
  <2>3. QED BY <2>1, <2>2
<1>3. CASE Unspoilt(s)
  <2>1. q = State("in", Prefix(s, n), m)
    BY <1>2, <1>3, Zenon DEF Progress, Clean
  <2>2. Prefix(s, n) = s
    BY <1>1, PrefixFacts
  <2>3. q = State("in", s, m)
    BY <2>1, <2>2, Zenon
  <2>4. QuotedStep(State("in", s, m), Quot)
          = State(IF type.esc = Quot THEN "esc" ELSE "out", s, m + 1)
    <3>1. CASE type.esc = Quot
      <4>1. QuotedStep(State("in", s, m), Quot) = State("esc", s, m + 1)
        BY <1>1, <3>1, StepFacts
      <4>2. QED BY <3>1, <4>1, Zenon
    <3>2. CASE type.esc # Quot
      <4>1. QuotedStep(State("in", s, m), Quot) = State("out", s, m + 1)
        BY <1>1, <3>2, StepFacts
      <4>2. QED BY <3>2, <4>1, Zenon
    <3>3. QED BY <3>1, <3>2
  <2>5. QED BY <1>3, <2>3, <2>4, Zenon
<1>4. CASE ~ Unspoilt(s)
  <2> SUFFICES Wrong(r, s)
    BY <1>4
  <2>0. <<Quot>> \in Seq(Chars) /\ 1 \in 1 .. Len(<<Quot>>) /\ <<Quot>>[1] = Quot
    BY <1>1
  <2>1. ASSUME NEW l \in 0 .. Len(s) - 1, s[l + 1] = type.esc, type.esc # Quot,
               q = State("esc", Prefix(s, l), m)
        PROVE  Wrong(r, s)
    <3>1. Prefix(s, l) \in Seq(Chars) /\ l \in 0 .. Len(s)
      BY PrefixFacts
    <3>2. r = State("in", Prefix(s, l) \o <<Quot>>, m + 1)
      BY <1>1, <2>1, <3>1, StepFacts
    <3> HIDE DEF r
    <3>3. r.val = Prefix(s, l) \o <<Quot>>
      BY <3>2 DEF State
    <3>4. l + 1 <= Len(s) /\ <<Quot>>[1] # s[l + 1]
      BY <1>1, <2>0, <2>1
    <3>5. QED BY <2>0, <3>3, <3>4, WrongBehind
  <2>2. CASE Plain(s, n)
    <3>1. Escaped(s, n) /\ q = State("esc", Prefix(s, n - 1), m)
      BY <1>2, <1>4, <2>2, Zenon DEF Progress, Clean
    <3>2. type.esc # Quot /\ n - 1 \in 0 .. Len(s) - 1 /\ s[(n - 1) + 1] = type.esc
      BY <1>1, <3>1 DEF Escaped
    <3>3. QED BY <2>1, <3>1, <3>2
  <2>3. CASE ~ Plain(s, n)
    <3>1. Wrong(q, s) \/ Lagging(q, s, n, m)
      BY <2>3, Zenon DEF Progress
    <3>2. CASE Wrong(q, s)
      BY <1>1, <3>2, WrongStays
    <3>3. CASE Lagging(q, s, n, m)
      <4>1. PICK l \in 1 .. n :
              /\ \/ q = State("in", Prefix(s, l), m) /\ l < n
                 \/ q = State("esc", Prefix(s, l), m) /\ l < n - 1
              /\ \A k \in l + 1 .. n : s[k] = type.esc
        BY <3>3 DEF Lagging
      <4>2. type.esc # Quot
        BY <2>3 DEF Plain
      <4>3. l \in 0 .. Len(s) /\ l \in Nat /\ l > 0
        BY <1>1
      <4>4. CASE q = State("in", Prefix(s, l), m) /\ l < n
        <5>1. Prefix(s, l) \in Seq(Chars) /\ Len(Prefix(s, l)) = l
          BY <4>3, PrefixFacts
        <5>2. r = State("out", Prefix(s, l), m + 1)
          BY <1>1, <4>2, <4>4, <5>1, StepFacts
        <5> HIDE DEF r
        <5>3. r.at = "out" /\ Len(r.val) = l
          BY <5>1, <5>2 DEF State
        <5>4. QED BY <4>3, <4>4, <5>3 DEF Wrong
      <4>5. CASE q = State("esc", Prefix(s, l), m) /\ l < n - 1
        <5>1. l \in 0 .. Len(s) - 1 /\ l + 1 \in l + 1 .. n
          BY <1>1, <4>3, <4>5
        <5>2. s[l + 1] = type.esc
          BY <4>1, <5>1
        <5>3. QED BY <2>1, <4>2, <4>5, <5>1, <5>2
      <4>6. QED BY <4>1, <4>4, <4>5
    <3>4. QED BY <3>1, <3>2, <3>3
  <2>4. QED BY <2>2, <2>3
<1>5. QED BY <1>3, <1>4

LEMMA WrongIsDifferent ==
  ASSUME NEW q \in States, NEW s \in Seq(Chars), Wrong(q, s)
  PROVE  q.val # s /\ q.val # <<>>
<1>1. q.val \in Seq(Chars)
  BY DEF States
<1>2. CASE \E k \in 1 .. Len(q.val) : k <= Len(s) /\ q.val[k] # s[k]
  BY <1>1, <1>2
<1>3. CASE q.at = "out" /\ 0 < Len(q.val) /\ Len(q.val) < Len(s)
  BY <1>1, <1>3
<1>4. QED BY <1>2, <1>3 DEF Wrong

(* A string between quotes is read as it was put, or else as another one    *)
(* (IOManip.h:104-130).                                                    *)
LEMMA QuotedRead ==
  ASSUME Typed, NEW s \in Seq(Chars), Fold(s), NEW p, Stands(p, PutCStr(s))
  PROVE  /\ At(p) = Quot /\ p <= Len(text) /\ p \in Nat \ {0}
         /\ IF Unspoilt(s)
            THEN Quoted(p + 1) = Result(s, p + Len(PutCStr(s)), TRUE)
            ELSE Quoted(p + 1).val # s
         /\ s # <<>> => Quoted(p + 1).val # <<>>
<1> DEFINE e == p + Len(PutCStr(s))
           n == Len(s)
           l == Len(text)
<1>1. PICK o : Laid(o, p, e, s)
  BY StringLaid
<1>2. n \in Nat /\ n \in 0 .. n /\ l \in Nat
  BY EndFacts
<1>3. /\ p \in Nat \ {0} /\ At(p) = Quot /\ p <= l /\ p + 1 \in Nat \ {0}
      /\ o[n] \in p + 1 .. l /\ o[n] \in Nat
      /\ text[o[n]] = Quot /\ e = o[n] + 1 /\ e \in p + 1 .. l + 1 /\ e \in Nat \ {0}
  <2>1. /\ p \in Nat \ {0} /\ At(p) = Quot /\ o[n] \in p + 1 .. l
        /\ text[o[n]] = Quot /\ e = o[n] + 1
    BY <1>1, <1>2 DEF Laid
  <2> HIDE DEF e, l, n
  <2>2. QED BY <1>2, <2>1
<1>4. Stands(p, PutCStr(s))
  OBVIOUS
<1>5. At(e) \in {End, type.sep} /\ e <= l + 1
  BY <1>3, <1>4 DEF Stands
<1> HIDE DEF e, n
<1>6. PICK f : /\ IsScan(f, p + 1)
               /\ LET q == f[l + 1]
                  IN  Quoted(p + 1) = Result(q.val, q.next, q.at = "out"
                                               \/ (q.at = "esc" /\ type.esc = Quot))
  <2>1. p + 1 \in Nat \ {0} /\ p + 1 <= Len(text) + 1
    BY <1>2, <1>3
  <2>2. QED BY <2>1, QuotedScan
<1>7. Progress(f[o[n]], s, n, o[n])
  BY <1>1, <1>2, <1>6, ProgressMade DEF n
<1>8. /\ \A m \in p + 1 .. l + 1 : f[m] \in States
      /\ \A m \in p + 1 .. l : f[m + 1] = QuotedStep(f[m], text[m]) /\ text[m] \in Chars
  <2>1. \A m \in p + 1 .. l : m \in 1 .. l
    BY <1>3
  <2>2. \A m \in 1 .. l : text[m] \in Chars
    BY DEF Typed
  <2>3. \A m \in p + 1 .. l + 1 : m \in Places(p + 1)
    BY DEF Places
  <2>4. f \in [Places(p + 1) -> States]
    BY <1>6 DEF IsScan
  <2>5. \A m \in p + 1 .. l : f[m + 1] = QuotedStep(f[m], text[m])
    BY <1>6 DEF IsScan
  <2> HIDE DEF l, Chars
  <2>6. QED BY <2>1, <2>2, <2>3, <2>4, <2>5
<1>9. f[e] = QuotedStep(f[o[n]], Quot) /\ f[o[n]] \in States /\ f[e] \in States
  <2>1. o[n] \in p + 1 .. l + 1
    BY <1>2, <1>3
  <2> HIDE DEF l
  <2>2. QED BY <1>3, <1>8, <2>1
<1>10. IF Unspoilt(s)
       THEN f[e] = State(IF type.esc = Quot THEN "esc" ELSE "out", s, e)
       ELSE Wrong(f[e], s)
  <2>1. Progress(f[o[n]], s, Len(s), o[n])
    BY <1>7 DEF n
  <2> DEFINE m == o[n]
             q == f[m]
  <2> HIDE DEF m, q, Chars
  <2>2. m \in Nat /\ q \in States /\ Progress(q, s, Len(s), m)
    BY <1>3, <1>9, <2>1 DEF m, q
  <2>3. IF Unspoilt(s)
        THEN QuotedStep(q, Quot)
               = State(IF type.esc = Quot THEN "esc" ELSE "out", s, m + 1)
        ELSE Wrong(QuotedStep(q, Quot), s)
    BY <2>2, QuoteClosed
  <2>4. f[e] = QuotedStep(q, Quot) /\ e = m + 1
    BY <1>3, <1>9 DEF q, m
  <2>5. QED BY <2>3, <2>4, Zenon
<1>11. CASE ~ Unspoilt(s)
  <2> DEFINE S == {m \in e .. l + 1 : Wrong(f[m], s)}
  <2>1. e \in S
    BY <1>3, <1>10, <1>11
  <2>2. ASSUME NEW m \in e .. (l + 1) - 1, m \in S PROVE m + 1 \in S
    <3>1. m \in p + 1 .. l /\ m \in p + 1 .. l + 1 /\ m + 1 \in e .. l + 1
      BY <1>2, <1>3
    <3>2. Wrong(f[m], s)
      BY <2>2
    <3>3. Wrong(QuotedStep(f[m], text[m]), s)
      BY <1>8, <3>1, <3>2, WrongStays
    <3>4. QED BY <1>8, <3>1, <3>3
  <2>3. l + 1 \in S
    <3>1. e \in Nat /\ l + 1 \in Nat /\ e <= l + 1 /\ l + 1 \in e .. l + 1
      BY <1>2, <1>3
    <3> HIDE DEF S
    <3>2. \A m \in e .. l + 1 : m \in S
      BY <2>1, <2>2, <3>1, RangeInduction
    <3>3. QED BY <3>1, <3>2
  <2>4. Wrong(f[l + 1], s) /\ f[l + 1] \in States
    <3>1. l + 1 \in p + 1 .. l + 1
      BY <1>2, <1>3
    <3>2. QED BY <1>8, <2>3, <3>1
  <2>5. f[l + 1].val # s /\ f[l + 1].val # <<>>
    BY <2>4, WrongIsDifferent
  <2>6. Quoted(p + 1).val = f[l + 1].val
    BY <1>6 DEF Result
  <2>7. QED BY <1>3, <1>11, <2>5, <2>6
<1>12. CASE Unspoilt(s)
  <2> HIDE DEF Chars
  <2>1. f[l + 1] = State("out", s, e)
        \/ (f[l + 1] = State("esc", s, e) /\ type.esc = Quot)
    <3>1. CASE f[e] = State("out", s, e) \/ (e <= l /\ f[e + 1] = State("out", s, e))
      <4> DEFINE S == {m \in e .. l + 1 : f[m] = State("out", s, e)}
      <4>1. PICK b \in e .. l + 1 : f[b] = State("out", s, e)
        <5>1. e \in e .. l + 1 /\ (e <= l => e + 1 \in e .. l + 1)
          BY <1>2, <1>3
        <5>2. QED BY <3>1, <5>1
      <4>2. ASSUME NEW m \in b .. (l + 1) - 1, m \in S PROVE m + 1 \in S
        <5>1. m \in p + 1 .. l /\ m + 1 \in e .. l + 1 /\ m \in 1 .. l
          BY <1>2, <1>3, <4>1
        <5>2. f[m] = State("out", s, e)
          BY <4>2
        <5>3. text[m] \in Chars /\ e \in Nat
          BY <1>3, <1>8, <5>1
        <5>4. QuotedStep(State("out", s, e), text[m]) = State("out", s, e)
          BY <5>3, StepFacts
        <5>5. f[m + 1] = State("out", s, e)
          BY <1>8, <5>1, <5>2, <5>4, Zenon
        <5>6. QED BY <5>1, <5>5
      <4>3. b \in S /\ b \in Nat /\ l + 1 \in Nat /\ b <= l + 1 /\ l + 1 \in b .. l + 1
        BY <1>2, <1>3, <4>1
      <4>4. l + 1 \in S
        <5> HIDE DEF S
        <5>1. \A m \in b .. l + 1 : m \in S
          BY <4>2, <4>3, RangeInduction
        <5>2. QED BY <4>3, <5>1
      <4>5. QED BY <4>4
    <3>2. CASE type.esc # Quot
      BY <1>10, <1>12, <3>1, <3>2, Zenon
    <3>3. CASE type.esc = Quot
      <4>1. f[e] = State("esc", s, e)
        BY <1>10, <1>12, <3>3, Zenon
      <4>2. CASE e = l + 1
        BY <3>3, <4>1, <4>2
      <4>3. CASE e <= l
        <5>1. e \in p + 1 .. l /\ At(e) = text[e] /\ At(e) # End /\ text[e] \in Chars
          BY <1>2, <1>3, <1>8, <4>3, AtFacts
        <5>2. text[e] \notin {Quot, type.esc}
          BY <1>5, <3>3, <5>1, TypeFacts, CharFacts
        <5>3. QuotedStep(State("esc", s, e), text[e]) = State("out", s, e)
          BY <1>3, <3>3, <5>1, <5>2, StepFacts
        <5>4. f[e + 1] = State("out", s, e)
          BY <1>8, <4>1, <5>1, <5>3, Zenon
        <5>5. QED BY <3>1, <4>3, <5>4
      <4>4. e = l + 1 \/ e <= l
        BY <1>2, <1>3
      <4>5. QED BY <4>2, <4>3, <4>4
    <3>4. QED BY <3>2, <3>3
  <2> DEFINE q == f[l + 1]
  <2>2. q.val = s /\ q.next = e
    <3> HIDE DEF q
    <3>1. q = State("out", s, e) \/ q = State("esc", s, e)
      BY <2>1, Zenon DEF q
    <3>2. QED BY <3>1 DEF State
  <2>3. (q.at = "out" \/ (q.at = "esc" /\ type.esc = Quot)) = TRUE
    <3> HIDE DEF q
    <3>1. q = State("out", s, e) \/ (q = State("esc", s, e) /\ type.esc = Quot)
      BY <2>1, Zenon DEF q
    <3>2. QED BY <3>1 DEF State
  <2>4. Quoted(p + 1) = Result(s, e, TRUE)
    BY <1>6, <2>2, <2>3, Zenon
  <2>5. Quoted(p + 1).val = s
    BY <2>4 DEF Result
  <2>6. QED BY <1>3, <1>12, <2>4, <2>5 DEF e
<1>13. QED BY <1>11, <1>12

-----------------------------------------------------------------------------
(* A string that is not put between quotes. *)

LEMMA StringChars ==
  ASSUME Typed, NEW s \in Strings
  PROVE  /\ s \in Seq(Chars)
         /\ PutCStr(s) \in Seq(Chars)
         /\ ~ Fold(s) => /\ PutCStr(s) = s /\ type.brk = {Comma}
                         /\ \A k \in 1 .. Len(s) : s[k] \notin {Quot, Space, Comma, End}
<1> DEFINE C == {Quot, Backslash, Space, Comma, "z"}
<1>1. s \in Seq(Chars)
  <2>1. PICK m \in 0 .. MaxLen : s \in [1 .. m -> C]
    BY DEF Strings, BoundedSeq, SeqOf
  <2>2. m \in Nat /\ C \subseteq Chars
    BY IOManipAssumption DEF Chars
  <2> HIDE DEF C, Chars
  <2>3. s \in [1 .. m -> Chars]
    BY <2>1, <2>2
  <2>4. QED BY <2>2, <2>3
<1>2. Fold(s) => PutCStr(s) \in Seq(Chars)
  <2>1. PICK f : /\ f \in [0 .. Len(s) -> Seq(Chars)]
                 /\ Fold(s) => PutCStr(s) = Append(f[Len(s)], Quot)
    BY <1>1, PutExists
  <2>2. Quot \in Chars
    BY DEF Chars
  <2> HIDE DEF Chars
  <2>3. Len(s) \in 0 .. Len(s)
    BY <1>1
  <2>4. f[Len(s)] \in Seq(Chars)
    BY <2>1, <2>3
  <2>5. Append(f[Len(s)], Quot) \in Seq(Chars)
    BY <2>2, <2>4
  <2>6. QED BY <2>1, <2>5
<1>3. ASSUME ~ Fold(s)
      PROVE  /\ PutCStr(s) = s /\ type.brk = {Comma}
             /\ \A k \in 1 .. Len(s) : s[k] \notin {Quot, Space, Comma, End}
  <2>1. PutCStr(s) = s
    BY <1>3, Zenon DEF PutCStr
  <2>2. type.brk = {Comma}
    BY <1>3, TypeFacts DEF Fold
  <2>3. ASSUME NEW k \in 1 .. Len(s) PROVE s[k] \notin {Quot, Space, Comma, End}
    <3>1. k \in DOMAIN s /\ s[k] \in Chars
      BY <1>1
    <3>2. s[k] \notin {Quot, Space, Comma}
      BY <1>3, <2>2, <3>1, Zenon DEF Fold
    <3> HIDE DEF Chars
    <3>3. QED BY <3>1, <3>2, CharFacts
  <2>4. QED BY <2>1, <2>2, <2>3
<1>4. QED BY <1>1, <1>2, <1>3, Zenon

(* What is written for a field, and how it starts.                         *)
LEMMA WrittenFacts ==
  ASSUME Typed, NEW f \in Fields
  PROVE  /\ Written(f) \in Seq(Chars)
         /\ f.kind = "str" => f.val \in Strings /\ Written(f) = PutCStr(f.val)
         /\ f.kind # "str" => /\ f.kind = "int" /\ f.val \in Ints /\ f.base \in Bases
                              /\ Written(f) = PutInt(f.base, f.val)
         /\ (Written(f) # <<>> /\ ~ (f.kind = "str" /\ Fold(f.val)))
              => Written(f)[1] \notin {Quot, Space, Comma, End}
<1>1. \/ f.kind = "str" /\ f.val \in Strings
      \/ f.kind = "int" /\ f.kind # "str" /\ f.val \in Ints /\ f.base \in Bases
  BY DEF Fields
<1>2. f.kind = "str" => Written(f) = PutCStr(f.val)
  BY Zenon DEF Written
<1>3. f.kind # "str" => Written(f) = PutInt(f.base, f.val)
  BY Zenon DEF Written
<1>4. CASE f.kind = "str"
  <2>1. f.val \in Strings
    BY <1>1, <1>4
  <2>2. f.val \in Seq(Chars) /\ PutCStr(f.val) \in Seq(Chars)
        /\ (~ Fold(f.val) => PutCStr(f.val) = f.val
              /\ \A k \in 1 .. Len(f.val) : f.val[k] \notin {Quot, Space, Comma, End})
    BY <2>1, StringChars
  <2>3. f.val # <<>> => 1 \in 1 .. Len(f.val)
    <3> HIDE DEF Chars
    <3>1. QED BY <2>2
  <2> HIDE DEF Chars
  <2>4. QED BY <1>2, <1>4, <2>1, <2>2, <2>3
<1>5. CASE f.kind # "str"
  BY <1>1, <1>3, <1>5, PutIntChars
<1>6. QED BY <1>4, <1>5

(* Where nothing stops it, an unquoted string has more characters.         *)
LEMMA UnquotedLonger ==
  ASSUME Typed, NEW p \in Nat \ {0}, NEW e \in p .. Len(text) + 1,
         \A m \in p .. e : At(m) \notin Stops
  PROVE  /\ Unquoted(p).val \in Seq(Chars)
         /\ Len(Unquoted(p).val) > e - p
<1>1. Len(text) \in Nat /\ e \in Nat /\ p <= Len(text) + 1 /\ text \in Seq(Chars)
  BY EndFacts DEF Typed
<1>2. PICK n \in p .. Len(text) + 1 :
        /\ Unquoted(p) = Result(SubSeq(text, p, n - 1), n, TRUE)
        /\ At(n) \in Stops
  BY <1>1, UnquotedFacts
<1>3. n > e
  BY <1>1, <1>2
<1>4. Unquoted(p).val = SubSeq(text, p, n - 1)
  <2> DEFINE w == SubSeq(text, p, n - 1)
  <2>1. Unquoted(p) = Result(w, n, TRUE)
    BY <1>2
  <2> HIDE DEF w
  <2>2. Unquoted(p).val = w
    BY <2>1 DEF Result
  <2>3. QED BY <2>2 DEF w
<1> HIDE DEF Chars
<1>5. SubSeq(text, p, n - 1) \in Seq(Chars) /\ Len(SubSeq(text, p, n - 1)) = n - p
  <2>1. p \in 1 .. Len(text) + 1 /\ n - 1 \in p - 1 .. Len(text) /\ (n - 1) - p + 1 = n - p
    BY <1>1, <1>3
  <2>2. QED BY <1>1, <2>1, SubSeqProperties
<1>6. QED BY <1>1, <1>3, <1>4, <1>5

(* A string between quotes, behind any place from which it is found.       *)
LEMMA QuotedFrom ==
  ASSUME Typed, NEW s \in Strings, Fold(s), NEW p, NEW p0,
         Stands(p, PutCStr(s)), Skipped(p0) = p
  PROVE  /\ GetCStr(p0) = Quoted(p + 1)
         /\ IF Unspoilt(s)
            THEN GetCStr(p0) = Result(s, p + Len(PutCStr(s)), TRUE)
            ELSE GetCStr(p0).val # s
         /\ s # <<>> => GetCStr(p0).val # <<>>
<1>1. s \in Seq(Chars)
  BY StringChars
<1>2. /\ At(p) = Quot
      /\ IF Unspoilt(s)
         THEN Quoted(p + 1) = Result(s, p + Len(PutCStr(s)), TRUE)
         ELSE Quoted(p + 1).val # s
      /\ s # <<>> => Quoted(p + 1).val # <<>>
  BY <1>1, QuotedRead
<1>3. GetCStr(p0) = Quoted(p + 1)
  BY <1>2, CharFacts, Zenon DEF GetCStr
<1>4. QED BY <1>2, <1>3, Zenon

(* Where a string of its own characters stands, nothing stops it.          *)
LEMMA PlainStands ==
  ASSUME Typed, NEW s \in Strings, ~ Fold(s), NEW p, Stands(p, s)
  PROVE  /\ s \in Seq(Chars) /\ p \in Nat \ {0}
         /\ Len(s) \in Nat /\ p + Len(s) \in p .. Len(text) + 1
         /\ \A m \in p .. p + Len(s) - 1 :
              At(m) \notin Stops /\ At(m) \notin {Quot, Space, Comma, End}
<1>1. s \in Seq(Chars) /\ type.brk = {Comma}
      /\ \A k \in 1 .. Len(s) : s[k] \notin {Quot, Space, Comma, End}
  BY StringChars
<1>2. p \in Nat \ {0} /\ Holds(p, s)
  BY DEF Stands
<1> HIDE DEF Chars
<1>3. Len(s) \in Nat /\ p + Len(s) \in p .. Len(text) + 1
  BY <1>1, <1>2, EndFacts DEF Holds
<1>4. ASSUME NEW m \in p .. p + Len(s) - 1
      PROVE  At(m) \notin Stops /\ At(m) \notin {Quot, Space, Comma, End}
  <2>1. m - p + 1 \in 1 .. Len(s) /\ p + (m - p + 1) - 1 = m
    BY <1>2, <1>3
  <2>2. At(p + (m - p + 1) - 1) = s[m - p + 1]
    BY <1>1, <1>2, <2>1, HeldAt
  <2>3. At(m) \notin {Quot, Space, Comma, End}
    BY <1>1, <2>1, <2>2
  <2>4. QED BY <1>1, <2>3 DEF Stops
<1>5. QED BY <1>1, <1>2, <1>3, <1>4

(* A string that is put as it is, and that is not empty, is read as it was *)
(* put if what stands behind it ends it, and is read longer if not         *)
(* (IOManip.h:87-102).                                                     *)
LEMMA PlainRead ==
  ASSUME Typed, NEW s \in Strings, ~ Fold(s), s # <<>>, NEW p, Stands(p, s)
  PROVE  IF At(p + Len(s)) \in Stops
         THEN GetCStr(p) = Result(s, p + Len(s), TRUE)
         ELSE GetCStr(p).val # s
<1> DEFINE e == p + Len(s)
<1>1. /\ s \in Seq(Chars) /\ p \in Nat \ {0} /\ Len(s) \in Nat
      /\ e \in p .. Len(text) + 1
      /\ \A m \in p .. e - 1 : At(m) \notin Stops /\ At(m) \notin {Quot, Space, Comma, End}
  BY PlainStands
<1> HIDE DEF Chars
<1>2. Len(s) > 0 /\ e - p = Len(s) /\ p \in p .. e - 1 /\ p <= Len(text) + 1
      /\ e \in Nat /\ Len(text) \in Nat
  BY <1>1, EndFacts
<1>3. GetCStr(p) = Unquoted(p)
  <2>1. Skipped(p) = p
    BY <1>1, <1>2, SkippedNone
  <2>2. At(p) # End /\ At(p) # Quot
    BY <1>1, <1>2
  <2>3. QED BY <2>1, <2>2, Zenon DEF GetCStr
<1>4. CASE At(e) \in Stops
  <2>1. Unquoted(p) = Result(SubSeq(text, p, e - 1), e, TRUE)
    BY <1>1, <1>4, UnquotedUpTo
  <2>2. SubSeq(text, p, e - 1) = s
    <3>1. \A k \in 1 .. Len(s) : text[p + k - 1] = s[k]
      BY DEF Stands, Holds
    <3>2. \A m \in p .. e - 1 : text[m] \in Chars
      BY <1>1, <1>2 DEF Typed
    <3>3. /\ SubSeq(text, p, e - 1) \in Seq(Chars)
          /\ Len(SubSeq(text, p, e - 1)) = Len(s)
          /\ \A k \in 1 .. Len(s) : SubSeq(text, p, e - 1)[k] = text[p + k - 1]
      <4>1. p \in Int /\ e - 1 \in Int /\ p <= e - 1 /\ (e - 1) - p + 1 = Len(s)
        BY <1>1, <1>2
      <4> HIDE DEF e
      <4> DEFINE h == e - 1
      <4>2. h \in Int /\ p <= h /\ h - p + 1 = Len(s) /\ \A m \in p .. h : text[m] \in Chars
        BY <3>2, <4>1
      <4> HIDE DEF h
      <4>3. /\ SubSeq(text, p, h) \in Seq(Chars)
            /\ Len(SubSeq(text, p, h)) = IF p <= h THEN h - p + 1 ELSE 0
            /\ \A i \in 1 .. h - p + 1 : SubSeq(text, p, h)[i] = text[p + i - 1]
        BY <4>1, <4>2, SubSeqProperties
      <4>4. QED BY <4>2, <4>3 DEF h
    <3> DEFINE w == SubSeq(text, p, e - 1)
    <3> HIDE DEF w
    <3>4. w \in Seq(Chars) /\ Len(w) = Len(s) /\ \A k \in 1 .. Len(w) : w[k] = s[k]
      BY <3>1, <3>3 DEF w
    <3>5. w = s
      BY <1>1, <3>4, SeqEqual
    <3>6. QED BY <3>5 DEF w
  <2>3. QED BY <1>3, <1>4, <2>1, <2>2
<1>5. CASE At(e) \notin Stops
  <2>1. \A m \in p .. e : At(m) \notin Stops
    <3>1. \A m \in p .. e : m = e \/ m \in p .. e - 1
      BY <1>1, <1>2
    <3>2. QED BY <1>1, <1>5, <3>1
  <2>2. Len(Unquoted(p).val) > e - p
    BY <1>1, <2>1, UnquotedLonger
  <2>3. Unquoted(p).val # s
    BY <1>2, <2>2
  <2>4. QED BY <1>3, <1>5, <2>3
<1>6. QED BY <1>4, <1>5

-----------------------------------------------------------------------------
(* The fields one behind the other. *)

(* Field i is written from st[i] on, and the separator or the end is behind *)
(* it.                                                                     *)
Layout(st) ==
  /\ fields \in Seq(Fields)
  /\ st \in [1 .. Len(fields) + 1 -> Nat \ {0}] /\ st[1] = 1
  /\ fields = <<>> => text = <<>>
  /\ \A i \in 1 .. Len(fields) :
       /\ Stands(st[i], Written(fields[i]))
       /\ st[i + 1] = st[i] + Len(Written(fields[i])) + 1
       /\ At(st[i + 1] - 1) = IF i = Len(fields) THEN End ELSE type.sep

LEMMA LayoutFacts ==
  ASSUME Typed, NEW st, Layout(st), NEW i \in 1 .. Len(fields)
  PROVE  /\ Len(fields) \in Nat /\ fields[i] \in Fields
         /\ st[i] \in Nat \ {0} /\ st[i + 1] \in Nat \ {0}
         /\ Written(fields[i]) \in Seq(Chars) /\ Len(Written(fields[i])) \in Nat
         /\ Stands(st[i], Written(fields[i]))
         /\ st[i + 1] = st[i] + Len(Written(fields[i])) + 1
         /\ At(st[i] + Len(Written(fields[i])))
              = IF i = Len(fields) THEN End ELSE type.sep
         /\ st[i] + Len(Written(fields[i])) <= Len(text) + 1
<1>1. fields \in Seq(Fields) /\ Len(fields) \in Nat /\ fields[i] \in Fields
  BY DEF Layout
<1>2. Written(fields[i]) \in Seq(Chars)
  BY <1>1, WrittenFacts
<1> HIDE DEF Chars
<1>3. Len(Written(fields[i])) \in Nat
  BY <1>2
<1>4. i \in 1 .. Len(fields) + 1 /\ i + 1 \in 1 .. Len(fields) + 1
  BY <1>1
<1>5. /\ st[i] \in Nat \ {0} /\ st[i + 1] \in Nat \ {0}
      /\ Stands(st[i], Written(fields[i]))
      /\ st[i + 1] = st[i] + Len(Written(fields[i])) + 1
      /\ At(st[i + 1] - 1) = IF i = Len(fields) THEN End ELSE type.sep
  BY <1>4 DEF Layout
<1>6. st[i + 1] - 1 = st[i] + Len(Written(fields[i]))
  BY <1>3, <1>5
<1>7. st[i] + Len(Written(fields[i])) <= Len(text) + 1
  BY <1>5 DEF Stands, Holds
<1>8. QED BY <1>1, <1>2, <1>3, <1>5, <1>6, <1>7

(* What is skipped from the start of a field on are empty fields with their *)
(* separators, up to the start of another field.                           *)
LEMMA SkippedTo ==
  ASSUME Typed, NEW st, Layout(st), NEW i \in 1 .. Len(fields), type.skipws,
         type.brk = {Comma}
  PROVE  \E j \in i .. Len(fields) : Skipped(st[i]) = st[j]
<1> DEFINE n == Len(fields)
           q == Skipped(st[i])
<1>1. n \in Nat /\ i \in Nat /\ i \in i .. n /\ n \in i .. n /\ i <= n
  BY LayoutFacts
<1>2. st[i] \in Nat \ {0} /\ st[i] <= Len(text) + 1 /\ Len(text) \in Nat
  <2>1. st[i] + Len(Written(fields[i])) <= Len(text) + 1
        /\ st[i] \in Nat \ {0} /\ Len(Written(fields[i])) \in Nat
    BY LayoutFacts
  <2>2. QED BY <2>1, EndFacts
<1>3. q \in st[i] .. Len(text) + 1 /\ q \in Nat
      /\ \A m \in st[i] .. Len(text) + 1 : At(m) # Space => q <= m
  <2>1. q \in st[i] .. Len(text) + 1
        /\ \A m \in st[i] .. Len(text) + 1 : At(m) # Space => q <= m
    BY <1>2, SkippedFacts
  <2>2. QED BY <1>2, <2>1
<1> HIDE DEF q
<1>4. SUFFICES ASSUME \A j \in i .. n : q # st[j] PROVE FALSE
  BY DEF q
<1> DEFINE S == {k \in i .. n : st[i] <= st[k] /\ st[k] < q}
<1>5. ASSUME NEW k \in i .. n, k \in S
      PROVE  st[k + 1] = st[k] + 1 /\ At(st[k]) = Space /\ k # n
  <2> DEFINE w == Written(fields[k])
  <2>1. k \in 1 .. Len(fields)
    BY <1>1
  <2>2. /\ fields[k] \in Fields /\ st[k] \in Nat \ {0} /\ w \in Seq(Chars)
        /\ Len(w) \in Nat /\ Stands(st[k], w) /\ st[k + 1] = st[k] + Len(w) + 1
        /\ At(st[k] + Len(w)) = IF k = Len(fields) THEN End ELSE type.sep
    BY <2>1, LayoutFacts
  <2>3. st[i] <= st[k] /\ st[k] < q
    BY <1>5
  <2>4. At(st[k]) = Space
    <3>1. st[k] \in st[i] .. Len(text) + 1 /\ ~ (q <= st[k])
      BY <1>2, <1>3, <2>2, <2>3
    <3>2. QED BY <1>3, <3>1
  <2>5. w = <<>>
    <3>1. SUFFICES ASSUME w # <<>> PROVE FALSE
      OBVIOUS
    <3>2. CASE fields[k].kind = "str" /\ Fold(fields[k].val)
      <4>1. At(st[k]) = Quot
        <5>1. fields[k].val \in Strings /\ w = PutCStr(fields[k].val)
          BY <2>2, <3>2, WrittenFacts
        <5>2. fields[k].val \in Seq(Chars) /\ Stands(st[k], PutCStr(fields[k].val))
          BY <2>2, <5>1, StringChars
        <5>3. QED BY <3>2, <5>2, QuotedRead
      <4>2. QED BY <2>4, <4>1, CharFacts
    <3>3. CASE ~ (fields[k].kind = "str" /\ Fold(fields[k].val))
      <4>1. w[1] # Space
        BY <2>2, <3>1, <3>3, WrittenFacts
      <4> HIDE DEF w, Chars
      <4>2. 1 \in 1 .. Len(w) /\ st[k] + 1 - 1 = st[k] /\ Holds(st[k], w)
        BY <2>2, <3>1 DEF Stands
      <4>3. At(st[k]) = w[1]
        BY <2>2, <4>2, HeldAt
      <4>4. QED BY <2>4, <4>1, <4>3
    <3>4. QED BY <3>2, <3>3
  <2>6. Len(w) = 0
    BY <2>5
  <2> HIDE DEF w
  <2>7. st[k + 1] = st[k] + 1 /\ st[k] + Len(w) = st[k]
    BY <2>2, <2>6
  <2>8. k # n
    BY <2>2, <2>4, <2>7, CharFacts
  <2>9. QED BY <2>4, <2>7, <2>8
<1>6. i \in S
  BY <1>1, <1>2, <1>3, <1>4
<1>7. ASSUME NEW k \in i .. n - 1, k \in S PROVE k + 1 \in S
  <2>1. k \in i .. n /\ k + 1 \in i .. n /\ k \in 1 .. n
    BY <1>1
  <2>2. st[k + 1] = st[k] + 1 /\ q # st[k + 1]
    BY <1>4, <1>5, <1>7, <2>1
  <2>3. st[k] \in Nat /\ st[i] <= st[k] /\ st[k] < q
    BY <1>7, <2>1, LayoutFacts
  <2>4. QED BY <1>2, <1>3, <2>1, <2>2, <2>3
<1>8. n \in S
  <2> HIDE DEF S
  <2>1. \A k \in i .. n : k \in S
    BY <1>1, <1>6, <1>7, RangeInduction
  <2>2. QED BY <1>1, <2>1
<1>9. QED BY <1>1, <1>5, <1>8

(* An empty string without quotes is read as it was put if a separator that *)
(* is a break character is behind it. Otherwise reading it fails, or gives  *)
(* what comes behind (IOManip.h:81-102).                                   *)
LEMMA EmptyRead ==
  ASSUME Typed, NEW st, Layout(st), NEW i \in 1 .. Len(fields),
         fields[i].kind = "str", fields[i].val = <<>>, ~ Fold(<<>>)
  PROVE  IF i # Len(fields) /\ type.sep \in type.brk
         THEN GetCStr(st[i]) = Result(<<>>, st[i], TRUE)
         ELSE GetCStr(st[i]).ok = FALSE \/ GetCStr(st[i]).val # <<>>
<1> DEFINE n == Len(fields)
           p == st[i]
<1>1. /\ n \in Nat /\ fields[i] \in Fields /\ p \in Nat \ {0}
      /\ At(p + Len(Written(fields[i]))) = IF i = n THEN End ELSE type.sep
      /\ p + Len(Written(fields[i])) <= Len(text) + 1 /\ Len(text) \in Nat
  BY LayoutFacts, EndFacts
<1>2. <<>> \in Strings /\ Written(fields[i]) = PutCStr(<<>>)
  BY <1>1, WrittenFacts
<1>3. PutCStr(<<>>) = <<>> /\ type.brk = {Comma}
  BY <1>2, StringChars
<1>4. At(p) = (IF i = n THEN End ELSE type.sep) /\ p <= Len(text) + 1
  <2>1. Written(fields[i]) = <<>>
    BY <1>2, <1>3
  <2>2. Len(<<>>) = 0 /\ p + 0 = p
    BY <1>1
  <2> HIDE DEF p, n
  <2>3. QED BY <1>1, <2>1, <2>2
<1>5. type.sep \in {Comma, Space} /\ type.skipws \in BOOLEAN
  BY TypeFacts
<1>6. Stops = {End, Comma} \cup (IF type.skipws THEN {Space} ELSE {})
  BY <1>3 DEF Stops
<1> HIDE DEF p, n
<1>7. ASSUME NEW q \in Nat \ {0}, q <= Len(text) + 1, Skipped(p) = q, At(q) # Quot,
             At(q) \notin Stops
      PROVE  GetCStr(p).val # <<>>
  <2>1. GetCStr(p) = Unquoted(q)
    BY <1>6, <1>7, Zenon DEF GetCStr
  <2>2. Unquoted(q).val \in Seq(Chars) /\ Len(Unquoted(q).val) > q - q
    <3>1. q \in q .. Len(text) + 1 /\ \A m \in q .. q : m = q
      BY <1>1, <1>7
    <3>2. \A m \in q .. q : At(m) \notin Stops
      BY <1>7, <3>1
    <3>3. QED BY <3>1, <3>2, UnquotedLonger
  <2>3. Unquoted(q).val # <<>>
    BY <1>7, <2>2
  <2>4. QED BY <2>1, <2>3
<1>8. ASSUME NEW q, Skipped(p) = q, At(q) = End
      PROVE  GetCStr(p).ok = FALSE
  <2>1. GetCStr(p) = Result(<<>>, q, FALSE)
    BY <1>8, Zenon DEF GetCStr
  <2>2. QED BY <2>1 DEF Result
<1>9. CASE i = n
  <2>1. At(p) = End
    BY <1>4, <1>9
  <2>2. Skipped(p) = p
    BY <1>1, <1>4, <2>1, SkippedNone, CharFacts
  <2>3. GetCStr(p).ok = FALSE
    BY <1>8, <2>1, <2>2
  <2>4. QED BY <1>9, <2>3 DEF p, n
<1>10. CASE i # n /\ type.sep = Comma
  <2>1. At(p) = Comma
    BY <1>4, <1>10
  <2>2. Skipped(p) = p
    BY <1>1, <1>4, <2>1, SkippedNone, CharFacts
  <2>3. GetCStr(p) = Unquoted(p)
    BY <2>1, <2>2, CharFacts, Zenon DEF GetCStr
  <2>4. Unquoted(p) = Result(SubSeq(text, p, p - 1), p, TRUE)
    <3>1. p \in p .. Len(text) + 1 /\ At(p) \in Stops
      BY <1>1, <1>4, <1>6, <2>1
    <3>2. \A m \in p .. p - 1 : At(m) \notin Stops
      BY <1>1
    <3>3. QED BY <1>1, <3>1, <3>2, UnquotedUpTo
  <2>5. SubSeq(text, p, p - 1) = <<>>
    BY <1>1, SubSeqEmpty
  <2>6. type.sep \in type.brk
    BY <1>3, <1>10
  <2>7. QED BY <1>10, <2>3, <2>4, <2>5, <2>6 DEF p, n
<1>11. CASE i # n /\ type.sep = Space
  <2>1. At(p) = Space /\ type.sep \notin type.brk
    BY <1>3, <1>4, <1>11, CharFacts
  <2>2. SUFFICES GetCStr(p).ok = FALSE \/ GetCStr(p).val # <<>>
    BY <2>1 DEF p, n
  <2>3. CASE ~ type.skipws
    <3>1. Skipped(p) = p
      BY <2>3, Zenon DEF Skipped
    <3>2. At(p) \notin Stops /\ At(p) # Quot
      BY <1>6, <2>1, <2>3, CharFacts
    <3>3. QED BY <1>1, <1>4, <1>7, <3>1, <3>2
  <2>4. CASE type.skipws
    <3>1. PICK j \in i .. n : Skipped(p) = st[j]
      BY <1>3, <2>4, SkippedTo DEF p, n
    <3> DEFINE q == st[j]
               f == fields[j]
               w == Written(f)
    <3>2. j \in 1 .. Len(fields)
      BY <1>1, <3>1 DEF n
    <3>3. /\ q \in Nat \ {0} /\ f \in Fields /\ w \in Seq(Chars) /\ Len(w) \in Nat
          /\ Stands(q, w) /\ At(q + Len(w)) = (IF j = n THEN End ELSE type.sep)
          /\ q + Len(w) <= Len(text) + 1
      BY <3>2, LayoutFacts DEF n
    <3>4. Skipped(p) = q
      BY <3>1
    <3>5. At(q) # Space
      BY <1>1, <1>4, <2>4, <3>4, SkippedFacts
    <3> HIDE DEF q, Chars
    <3>6. CASE w = <<>>
      <4>1. Len(w) = 0 /\ q + 0 = q
        BY <3>3, <3>6
      <4>2. At(q) = End
        BY <1>11, <3>3, <3>5, <4>1
      <4>3. QED BY <1>8, <3>4, <4>2
    <3>7. CASE w # <<>> /\ f.kind = "str" /\ Fold(f.val)
      <4>1. f.val \in Strings /\ w = PutCStr(f.val)
        BY <3>3, <3>7, WrittenFacts
      <4>2. f.val # <<>>
        BY <3>7
      <4>3. Stands(q, PutCStr(f.val))
        BY <3>3, <4>1
      <4> DEFINE s == f.val
      <4> HIDE DEF s, f, w
      <4>4. s \in Strings /\ Fold(s) /\ Stands(q, PutCStr(s)) /\ s # <<>>
        BY <3>7, <4>1, <4>2, <4>3 DEF s
      <4>5. GetCStr(p).val # <<>>
        BY <3>4, <4>4, QuotedFrom
      <4>6. QED BY <4>5
    <3>8. CASE w # <<>> /\ ~ (f.kind = "str" /\ Fold(f.val))
      <4>1. w[1] \notin {Quot, Space, Comma, End}
        BY <3>3, <3>8, WrittenFacts
      <4> HIDE DEF f, w
      <4>2. 1 \in 1 .. Len(w) /\ q + 1 - 1 = q /\ Holds(q, w) /\ q <= Len(text) + 1
        BY <1>1, <3>3, <3>8 DEF Stands
      <4>3. At(q) = w[1]
        BY <3>3, <4>2, HeldAt
      <4>4. At(q) \notin Stops /\ At(q) # Quot
        BY <1>6, <4>1, <4>3
      <4>5. QED BY <1>7, <3>3, <3>4, <4>2, <4>4
    <3>9. QED BY <3>6, <3>7, <3>8
  <2>5. QED BY <1>5, <2>3, <2>4
<1>12. QED BY <1>5, <1>9, <1>10, <1>11

(* What Get makes of field i at place p.                                   *)
Got(i, p) == IF fields[i].kind = "str" THEN GetCStr(p) ELSE GetCInt(p)

(* A field that is readable is read as it was put, up to the separator; any *)
(* other one fails or is read as something else, a number as 0 or not at   *)
(* all.                                                                    *)
LEMMA FieldRead ==
  ASSUME Typed, NEW st, Layout(st), NEW i \in 1 .. Len(fields)
  PROVE  LET r == Got(i, st[i])
         IN  IF IsReadable(i)
             THEN r = Result(fields[i].val, st[i] + Len(Written(fields[i])), TRUE)
             ELSE /\ r.ok = FALSE \/ r.val # fields[i].val
                  /\ fields[i].kind = "int" =>
                       \/ r.val = 0 /\ fields[i].base = 8 /\ fields[i].val < 0
                       \/ r.ok = FALSE
<1> DEFINE n == Len(fields)
           p == st[i]
           f == fields[i]
           w == Written(f)
           r == Got(i, p)
<1>1. /\ n \in Nat /\ f \in Fields /\ p \in Nat \ {0} /\ w \in Seq(Chars)
      /\ Stands(p, w) /\ At(p + Len(w)) = (IF i = n THEN End ELSE type.sep)
  BY LayoutFacts
<1>2. /\ f.kind = "str" => f.val \in Strings /\ w = PutCStr(f.val)
      /\ f.kind # "str" => /\ f.kind = "int" /\ f.val \in Ints /\ f.base \in Bases
                           /\ w = PutInt(f.base, f.val)
  BY <1>1, WrittenFacts
<1>3. CASE f.kind # "str"
  <2> DEFINE v == f.val
             b == f.base
  <2>1. v \in Ints /\ b \in Bases /\ Stands(p, PutInt(b, v)) /\ w = PutInt(b, v)
        /\ f.kind = "int"
    BY <1>1, <1>2, <1>3
  <2>2. r = GetCInt(p) /\ (IsReadable(i) <=> (b = 10 \/ v >= 0))
    BY <1>3, Zenon DEF Got, IsReadable
  <2>3. v \in Int /\ b \in {10, 8, 16}
    BY <2>1, IOManipAssumption DEF Ints, Bases
  <2> HIDE DEF v, b, p, w, r
  <2> HIDE DEF f, n
  <2>4. /\ (b = 10 \/ v >= 0)
             => GetCInt(p) = Result(v, p + Len(PutInt(b, v)), TRUE)
        /\ b = 8 /\ v < 0 => GetCInt(p).val = 0
        /\ b = 16 /\ v < 0 => GetCInt(p).ok = FALSE
    BY <2>1, IntRead
  <2>5. CASE b = 10 \/ v >= 0
    <3>1. r = Result(v, p + Len(w), TRUE) /\ IsReadable(i)
      BY <2>1, <2>2, <2>4, <2>5
    <3>2. QED BY <3>1 DEF v, p, w, r, f
  <2>6. CASE b = 8 /\ v < 0
    <3>1. r.val = 0 /\ r.val # v /\ ~ IsReadable(i)
      BY <2>2, <2>3, <2>4, <2>6
    <3>2. QED BY <2>6, <3>1 DEF v, b, r, p, f
  <2>7. CASE b = 16 /\ v < 0
    <3>1. r.ok = FALSE /\ ~ IsReadable(i)
      BY <2>2, <2>3, <2>4, <2>7
    <3>2. QED BY <3>1 DEF r, p, f
  <2>8. (b = 10 \/ v >= 0) \/ (b = 8 /\ v < 0) \/ (b = 16 /\ v < 0)
    BY <2>3
  <2>9. QED BY <2>5, <2>6, <2>7, <2>8, Zenon
<1>4. CASE f.kind = "str"
  <2> DEFINE s == f.val
  <2>1. s \in Strings /\ Stands(p, PutCStr(s)) /\ w = PutCStr(s)
    BY <1>1, <1>2, <1>4
  <2>2. r = GetCStr(p) /\ f.kind # "int"
    BY <1>4, Zenon DEF Got
  <2>3. IsReadable(i) <=> StringIsReadable(i)
    BY <1>4, Zenon DEF IsReadable
  <2>4. SUFFICES IF IsReadable(i) THEN r = Result(s, p + Len(w), TRUE)
                 ELSE r.ok = FALSE \/ r.val # s
    BY <2>2
  <2>5. CASE Fold(s)
    <3>1. StringIsReadable(i) <=> Unspoilt(s)
      BY <2>5, Zenon DEF StringIsReadable, Unspoilt
    <3> HIDE DEF s, p, w, r, f
    <3>2. At(p) = Quot /\ p <= Len(text) /\ p \in Nat \ {0}
      <4>1. s \in Seq(Chars)
        BY <2>1, StringChars
      <4>2. QED BY <2>1, <2>5, <4>1, QuotedRead
    <3>3. Skipped(p) = p
      BY <3>2, EndFacts, SkippedNone, CharFacts
    <3>4. IF Unspoilt(s)
          THEN GetCStr(p) = Result(s, p + Len(PutCStr(s)), TRUE)
          ELSE GetCStr(p).val # s
      BY <2>1, <2>5, <3>3, QuotedFrom
    <3>5. QED BY <2>1, <2>2, <2>3, <3>1, <3>4, Zenon
  <2>6. CASE ~ Fold(s)
    <3>1. w = s /\ type.brk = {Comma} /\ Stands(p, s) /\ s \in Seq(Chars)
      BY <2>1, <2>6, StringChars
    <3>2. CASE s = <<>>
      <4>1. IF i # n /\ type.sep \in type.brk
            THEN GetCStr(p) = Result(<<>>, p, TRUE)
            ELSE GetCStr(p).ok = FALSE \/ GetCStr(p).val # <<>>
        BY <1>4, <2>6, <3>2, EmptyRead
      <4>2. StringIsReadable(i) <=> (i # n /\ type.sep \in type.brk)
        BY <2>6, <3>2, Zenon DEF StringIsReadable
      <4>3. p + Len(w) = p
        <5>1. Len(w) = 0
          BY <3>1, <3>2
        <5> HIDE DEF w, p
        <5>2. QED BY <1>1, <5>1
      <4>4. QED BY <2>2, <2>3, <3>2, <4>1, <4>2, <4>3, Zenon
    <3>3. CASE s # <<>>
      <4> DEFINE ends == type.sep \in type.brk \/ (type.sep = Space /\ type.skipws)
      <4>1. StringIsReadable(i) <=> (i = n \/ ends)
        BY <2>6, <3>3, Zenon DEF StringIsReadable
      <4>2. At(p + Len(s)) \in Stops <=> (i = n \/ ends)
        <5>1. At(p + Len(s)) = IF i = n THEN End ELSE type.sep
          BY <1>1, <3>1
        <5>2. type.sep \in {Comma, Space} /\ type.skipws \in BOOLEAN
          BY TypeFacts
        <5> HIDE DEF s, p, n
        <5>3. QED BY <3>1, <5>1, <5>2, CharFacts DEF Stops
      <4> HIDE DEF s, p, ends, r
      <4>3. IF At(p + Len(s)) \in Stops
            THEN GetCStr(p) = Result(s, p + Len(s), TRUE)
            ELSE GetCStr(p).val # s
        BY <2>1, <2>6, <3>1, <3>3, PlainRead
      <4>4. QED BY <2>2, <2>3, <3>1, <4>1, <4>2, <4>3, Zenon
    <3>4. QED BY <3>2, <3>3
  <2>7. QED BY <2>5, <2>6
<1>5. QED BY <1>3, <1>4

-----------------------------------------------------------------------------
(* Writing a field behind the others. *)

(* What is written for a field, and whether it can be read back, depends on *)
(* type and the field alone.                                               *)
LEMMA WrittenSame ==
  ASSUME type' = type, NEW f
  PROVE  Written(f)' = Written(f)
<1>1. \A s : Fold(s)' <=> Fold(s)
  BY Zenon DEF Fold
<1>2. \A s : PutCStr(s)' = PutCStr(s)
  <2> DEFINE put(s) == CHOOSE put : put = [i \in 0 .. Len(s) |->
               IF i = 0 THEN <<Quot>>
               ELSE put[i - 1] \o (IF s[i] = Quot THEN <<type.esc, Quot>> ELSE <<s[i]>>)]
  <2>1. \A s : put(s)' = put(s)
    OBVIOUS
  <2>2. \A s : PutCStr(s) = IF Fold(s) THEN Append(put(s)[Len(s)], Quot) ELSE s
    BY Zenon DEF PutCStr
  <2>3. \A s : PutCStr(s)' = IF Fold(s)' THEN Append(put(s)'[Len(s)], Quot) ELSE s
    BY Zenon DEF PutCStr
  <2> HIDE DEF put
  <2>4. QED BY <1>1, <2>1, <2>2, <2>3, Zenon
<1>3. PutInt(f.base, f.val)' = PutInt(f.base, f.val)
  OBVIOUS
<1>4. QED BY <1>2, <1>3, Zenon DEF Written

LEMMA ReadableSame ==
  ASSUME type' = type, fields' = fields, NEW i
  PROVE  IsReadable(i)' <=> IsReadable(i)
BY Zenon DEF IsReadable, StringIsReadable, Fold

LEMMA LayoutSame ==
  ASSUME type' = type, fields' = fields, text' = text, NEW st, Layout(st)
  PROVE  Layout(st)'
<1>1. \A f : Written(f)' = Written(f)
  BY WrittenSame
<1>2. \A p : At(p)' = At(p)
  BY Zenon DEF At
<1>3. QED BY <1>1, <1>2, Zenon DEF Layout, Stands, Holds

(* Where the text ends, and what a further field is put behind.            *)
LEMMA LayoutEnd ==
  ASSUME Typed, NEW st, Layout(st)
  PROVE  LET n == Len(fields)
             t == text \o (IF fields = <<>> THEN <<>> ELSE <<type.sep>>)
         IN  /\ n \in Nat /\ t \in Seq(Chars) /\ Len(t) \in Nat /\ Len(text) <= Len(t)
             /\ st[n + 1] = Len(t) + 1
             /\ \A k \in 1 .. Len(text) : t[k] = text[k]
             /\ n > 0 => Len(t) = Len(text) + 1 /\ t[Len(t)] = type.sep
<1> DEFINE n == Len(fields)
           a == IF fields = <<>> THEN <<>> ELSE <<type.sep>>
           t == text \o a
<1>1. n \in Nat /\ (fields = <<>> <=> n = 0)
  BY DEF Layout
<1>2. a \in Seq(Chars) /\ (fields = <<>> => Len(a) = 0)
      /\ (fields # <<>> => Len(a) = 1 /\ a[1] = type.sep)
  <2>1. type.sep \in Chars
    BY TypeFacts
  <2> HIDE DEF Chars
  <2>2. QED BY <2>1
<1>3. text \in Seq(Chars) /\ Len(text) \in Nat
  BY EndFacts DEF Typed
<1> HIDE DEF a, Chars
<1>4. /\ t \in Seq(Chars) /\ Len(t) = Len(text) + Len(a)
      /\ \A k \in 1 .. Len(text) : t[k] = text[k]
      /\ \A k \in 1 .. Len(a) : t[Len(text) + k] = a[k]
  BY <1>2, <1>3, ConcatFacts
<1>5. CASE fields = <<>>
  <2>1. Len(text) = 0 /\ st[1] = 1 /\ n + 1 = 1
    BY <1>1, <1>5 DEF Layout
  <2>2. Len(a) = 0
    BY <1>2, <1>5
  <2> HIDE DEF t
  <2>3. /\ Len(t) \in Nat /\ Len(text) <= Len(t) /\ st[n + 1] = Len(t) + 1 /\ ~ (n > 0)
    BY <1>1, <1>3, <1>4, <1>5, <2>1, <2>2
  <2>4. QED BY <1>1, <1>4, <2>3 DEF t, a
<1>6. CASE fields # <<>>
  <2>1. n \in 1 .. n /\ n > 0 /\ n \in 1 .. Len(fields)
    BY <1>1, <1>6
  <2> DEFINE e == st[n] + Len(Written(fields[n]))
  <2>2. At(e) = End /\ e <= Len(text) + 1 /\ st[n + 1] = e + 1 /\ e \in Nat \ {0}
    BY <2>1, LayoutFacts
  <2>3. e = Len(text) + 1
    <3> HIDE DEF e
    <3>1. QED BY <1>3, <2>2, AtFacts
  <2>4. Len(a) = 1 /\ a[1] = type.sep
    BY <1>2, <1>6
  <2> HIDE DEF t, e
  <2>5. /\ Len(t) \in Nat /\ Len(text) <= Len(t) /\ Len(t) = Len(text) + 1
        /\ st[n + 1] = Len(t) + 1 /\ t[Len(t)] = type.sep
    BY <1>3, <1>4, <2>2, <2>3, <2>4
  <2>6. QED BY <1>1, <1>4, <2>5 DEF t, a
<1>7. QED BY <1>5, <1>6

(* put_cstr and the stream's operator put the next field behind the others *)
(* (IOManip.h:139-159).                                                    *)
LEMMA PutLays ==
  ASSUME Typed, NEW st, Layout(st), Put
  PROVE  Typed' /\ \E u : Layout(u)'
<1>1. PICK f \in Fields :
        /\ fields' = Append(fields, f)
        /\ text' = text \o (IF fields = <<>> THEN <<>> ELSE <<type.sep>>) \o Written(f)
  BY Zenon DEF Put
<1>2. type' = type /\ type \in Types /\ text \in Seq(Chars) /\ Len(text) \in Nat
  BY EndFacts, Zenon DEF Put, Typed
<1> PICK n, t, w :
      /\ n = Len(fields) /\ w = Written(f)
      /\ t = text \o (IF fields = <<>> THEN <<>> ELSE <<type.sep>>)
  OBVIOUS
<1>3. /\ n \in Nat /\ t \in Seq(Chars) /\ Len(t) \in Nat /\ Len(text) <= Len(t)
      /\ st[n + 1] = Len(t) + 1
      /\ \A k \in 1 .. Len(text) : t[k] = text[k]
      /\ n > 0 => Len(t) = Len(text) + 1 /\ t[Len(t)] = type.sep
  BY LayoutEnd, Zenon
<1>4. w \in Seq(Chars)
  BY WrittenFacts
<1>5. text' = t \o w
  BY <1>1
<1> HIDE DEF Chars
<1>6. /\ text' \in Seq(Chars) /\ Len(w) \in Nat /\ Len(text') = Len(t) + Len(w)
      /\ \A k \in 1 .. Len(t) : text'[k] = t[k]
      /\ \A k \in 1 .. Len(w) : text'[Len(t) + k] = w[k]
  BY <1>3, <1>4, <1>5, ConcatFacts
<1>7. Typed'
  BY <1>2, <1>6 DEF Typed
<1>8. /\ fields \in Seq(Fields) /\ fields' \in Seq(Fields) /\ Len(fields') = n + 1
      /\ fields' # <<>> /\ fields'[n + 1] = f
      /\ \A i \in 1 .. n : fields'[i] = fields[i]
  <2>1. fields \in Seq(Fields)
    BY DEF Layout
  <2> HIDE DEF Fields
  <2>2. QED BY <1>1, <2>1
<1>9. st \in [1 .. n + 1 -> Nat \ {0}] /\ st[1] = 1
  BY DEF Layout
<1> DEFINE last == Len(t) + 1 + Len(w) + 1
<1> PICK u : u = [i \in 1 .. (n + 1) + 1 |-> IF i <= n + 1 THEN st[i] ELSE last]
  OBVIOUS
<1>10. /\ u \in [1 .. (n + 1) + 1 -> Nat \ {0}] /\ u[1] = 1
       /\ u[(n + 1) + 1] = last /\ u[n + 1] = Len(t) + 1
       /\ \A i \in 1 .. n + 1 : u[i] = st[i]
  <2>1. last \in Nat \ {0} /\ ~ ((n + 1) + 1 <= n + 1) /\ (n + 1) + 1 \in 1 .. (n + 1) + 1
    BY <1>3, <1>6
  <2> HIDE DEF last
  <2>2. QED BY <1>3, <1>9, <2>1
<1>11. last \in Nat \ {0} /\ last - 1 = Len(t) + 1 + Len(w) /\ last - 1 = Len(text') + 1
  BY <1>3, <1>6
<1>12. \A g : Written(g)' = Written(g)
  BY <1>2, WrittenSame
<1>13. \A p \in Nat \ {0} : p <= Len(text) => At(p)' = At(p)
  <2>1. ASSUME NEW p \in Nat \ {0}, p <= Len(text) PROVE At(p)' = At(p)
    <3>1. p \in 1 .. Len(text) /\ p \in 1 .. Len(t) /\ p <= Len(text')
      BY <1>3, <1>6, <2>1
    <3>2. text'[p] = text[p]
      BY <1>3, <1>6, <3>1
    <3>3. QED BY <2>1, <3>1, <3>2, Zenon DEF At
  <2>2. QED BY <2>1
<1> HIDE DEF last
<1>14. \A p : p = Len(text') + 1 => At(p)' = End
  <2>1. ~ (Len(text') + 1 <= Len(text'))
    BY <1>3, <1>6
  <2>2. QED BY <2>1, Zenon DEF At
<1>15. ASSUME NEW i \in 1 .. n
       PROVE  LET g == fields'[i]
              IN  \A y : y = g => /\ Stands(u[i], Written(y))'
                                 /\ u[i + 1] = u[i] + Len(Written(y)') + 1
                                 /\ At(u[i + 1] - 1)' = type.sep
  <2> SUFFICES ASSUME NEW y, y = fields'[i]
               PROVE  /\ Stands(u[i], Written(y))'
                      /\ u[i + 1] = u[i] + Len(Written(y)') + 1
                      /\ At(u[i + 1] - 1)' = type.sep
    OBVIOUS
  <2> PICK x : x = Written(y)
    OBVIOUS
  <2> DEFINE e == st[i] + Len(x)
  <2>1. i \in 1 .. Len(fields) /\ i \in 1 .. n + 1 /\ i + 1 \in 1 .. n + 1 /\ n > 0
        /\ y = fields[i]
    BY <1>3, <1>8
  <2>2. /\ st[i] \in Nat \ {0} /\ x \in Seq(Chars) /\ Len(x) \in Nat
        /\ Stands(st[i], x) /\ st[i + 1] = st[i] + Len(x) + 1
        /\ At(e) = (IF i = n THEN End ELSE type.sep) /\ e <= Len(text) + 1
    BY <2>1, LayoutFacts
  <2>3. u[i] = st[i] /\ u[i + 1] = st[i + 1]
    BY <1>10, <2>1
  <2>4. e \in Nat \ {0} /\ u[i + 1] - 1 = e
    BY <2>2, <2>3
  <2>5. At(e)' = type.sep
    <3>1. CASE i = n
      <4>1. e = Len(t) /\ e \in 1 .. Len(t)
        <5>1. st[n + 1] = Len(t) + 1 /\ st[n + 1] = e + 1
          BY <1>3, <2>2, <3>1
        <5>2. QED BY <1>3, <2>4, <5>1
      <4>2. text'[e] = type.sep /\ e <= Len(text')
        BY <1>3, <1>6, <2>1, <4>1
      <4>3. QED BY <4>2, Zenon DEF At
    <3>2. CASE i # n
      <4>1. At(e) = type.sep /\ type.sep # End
        BY <2>2, <3>2, TypeFacts, CharFacts
      <4> HIDE DEF e
      <4>2. e <= Len(text)
        BY <1>2, <2>2, <2>4, <4>1, AtFacts
      <4>3. QED BY <1>13, <2>4, <4>1, <4>2
    <3>3. QED BY <3>1, <3>2
  <2>6. e <= Len(text') + 1 /\ \A k \in 1 .. Len(x) : text'[st[i] + k - 1] = x[k]
    <3>1. Holds(st[i], x)
      BY <2>2 DEF Stands
    <3>2. ASSUME NEW k \in 1 .. Len(x) PROVE text'[st[i] + k - 1] = x[k]
      <4>1. st[i] + k - 1 \in 1 .. Len(text) /\ st[i] + k - 1 \in 1 .. Len(t)
        <5> PICK a, l, lt, lx : a = st[i] /\ l = Len(text) /\ lt = Len(t) /\ lx = Len(x)
          OBVIOUS
        <5>1. a \in Nat \ {0} /\ l \in Nat /\ lt \in Nat /\ lx \in Nat /\ l <= lt
              /\ a + lx <= l + 1 /\ k \in 1 .. lx
          BY <1>2, <1>3, <2>2
        <5>2. a + k - 1 \in 1 .. l /\ a + k - 1 \in 1 .. lt
          BY <5>1
        <5>3. QED BY <5>2
      <4>2. text[st[i] + k - 1] = x[k]
        BY <3>1, <3>2 DEF Holds
      <4>3. QED BY <1>3, <1>6, <4>1, <4>2
    <3>3. QED BY <1>2, <1>3, <1>6, <2>2, <2>4, <3>2
  <2>7. Stands(st[i], x)'
    <3>1. At(st[i] + Len(x))' = type.sep
      BY <2>5
    <3>2. QED BY <1>2, <2>2, <2>6, <3>1 DEF Stands, Holds
  <2>8. QED BY <1>12, <2>2, <2>3, <2>4, <2>5, <2>7
<1>16. /\ Stands(u[n + 1], w)'
       /\ u[(n + 1) + 1] = u[n + 1] + Len(w) + 1
       /\ At(u[(n + 1) + 1] - 1)' = End
  <2> PICK p : p = u[n + 1]
    OBVIOUS
  <2>1. p = Len(t) + 1 /\ p \in Nat \ {0} /\ u[(n + 1) + 1] = last
    BY <1>3, <1>10
  <2>2. p + Len(w) = Len(text') + 1 /\ last - 1 = Len(text') + 1 /\ last = p + Len(w) + 1
    BY <1>3, <1>6, <1>11, <2>1 DEF last
  <2>3. \A k \in 1 .. Len(w) : text'[p + k - 1] = w[k]
    <3>1. \A k \in 1 .. Len(w) : p + k - 1 = Len(t) + k
      BY <1>3, <2>1
    <3>2. QED BY <1>6, <3>1
  <2>4. At(p + Len(w))' = End /\ At(u[(n + 1) + 1] - 1)' = End
    BY <1>14, <2>1, <2>2, Zenon
  <2>5. p + Len(w) <= Len(text') + 1
    BY <1>3, <1>6, <2>2
  <2>6. Stands(p, w)'
    BY <2>1, <2>3, <2>4, <2>5 DEF Stands, Holds
  <2>7. QED BY <2>1, <2>2, <2>4, <2>6
<1>17. Layout(u)'
  <2>1. /\ fields' \in Seq(Fields)
        /\ u \in [1 .. Len(fields') + 1 -> Nat \ {0}] /\ u[1] = 1
        /\ (fields' = <<>> => text' = <<>>)
    BY <1>8, <1>10
  <2>2. ASSUME NEW i \in 1 .. n + 1
        PROVE  LET g == fields'[i]
               IN  \A y : y = g => /\ Stands(u[i], Written(y))'
                                  /\ u[i + 1] = u[i] + Len(Written(y)') + 1
                                  /\ At(u[i + 1] - 1)'
                                       = IF i = n + 1 THEN End ELSE type.sep
    <3>1. CASE i = n + 1
      <4>1. SUFFICES ASSUME NEW y, y = fields'[i]
                     PROVE  /\ Stands(u[i], Written(y))'
                            /\ u[i + 1] = u[i] + Len(Written(y)') + 1
                            /\ At(u[i + 1] - 1)' = End
        BY <3>1, Zenon
      <4>2. y = f /\ Written(f)' = w
        BY <1>8, <1>12, <3>1, <4>1, Zenon
      <4>3. QED BY <1>16, <3>1, <4>2, Zenon
    <3>2. CASE i # n + 1
      <4>1. i \in 1 .. n
        BY <1>3, <3>2
      <4>2. QED BY <1>15, <3>2, <4>1, Zenon
    <3>3. QED BY <3>1, <3>2
  <2>3. ASSUME NEW i \in 1 .. Len(fields')
        PROVE  /\ Stands(u[i], Written(fields[i]))'
               /\ u[i + 1] = u[i] + Len(Written(fields[i])') + 1
               /\ At(u[i + 1] - 1)' = IF i = Len(fields') THEN End ELSE type'.sep
    <3> PICK y : y = fields'[i]
      OBVIOUS
    <3>1. i \in 1 .. n + 1
      BY <1>8
    <3>2. /\ Stands(u[i], Written(y))'
          /\ u[i + 1] = u[i] + Len(Written(y)') + 1
          /\ At(u[i + 1] - 1)' = IF i = n + 1 THEN End ELSE type.sep
      BY <2>2, <3>1
    <3>3. Written(y)' = Written(fields[i])'
      <4>1. \A s : s = fields'[i].val => PutCStr(s)' = PutCStr(fields[i].val)'
        BY DEF PutCStr, Fold
      <4>2. QED BY <4>1, Zenon DEF Written
    <3>4. QED BY <1>2, <1>8, <3>2, <3>3, Zenon DEF Stands, Holds
  <2>4. QED BY <2>1, <2>3, Zenon DEF Layout
<1>18. QED BY <1>7, <1>17

-----------------------------------------------------------------------------
(* Reading the fields in their order. *)

(* Read as it was put, with the next field at hand; or else not as it was  *)
(* put, if not failed.                                                     *)
ReadRight(st, i) ==
  IF IsReadable(i)
  THEN /\ read[i] = fields[i].val
       /\ i = Len(read) => ok = TRUE /\ (i < Len(fields) => pos = st[i + 1])
  ELSE /\ read[i] # fields[i].val \/ (i = Len(read) /\ ok = FALSE)
       /\ fields[i].kind = "int" =>
            \/ read[i] = 0 /\ fields[i].base = 8 /\ fields[i].val < 0
            \/ i = Len(read) /\ ok = FALSE

(* What holds of a field behind one that cannot be read is left open.      *)
Reading(st) ==
  /\ \E S : read \in Seq(S)
  /\ Len(read) <= Len(fields)
  /\ read = <<>> => ok = TRUE /\ pos = 1
  /\ \A i \in 1 .. Len(read) : (\A j \in 1 .. i - 1 : IsReadable(j)) => ReadRight(st, i)

IOManipInv == Typed /\ \E st : Layout(st) /\ Reading(st)

(* Get reads the next field, and passes over the separator behind it.      *)
LEMMA GetReads ==
  ASSUME Typed, NEW st, Layout(st), Reading(st), Get
  PROVE  Typed' /\ Layout(st)' /\ Reading(st)'
<1> PICK n, m, k, r :
      n = Len(fields) /\ m = Len(read) /\ k = Len(read) + 1 /\ r = Got(k, pos)
  OBVIOUS
<1>1. PICK S : read \in Seq(S)
  BY DEF Reading
<1>2. /\ type' = type /\ fields' = fields /\ text' = text
      /\ ok /\ Len(read) < Len(fields)
      /\ read' = Append(read, r.val)
      /\ pos' = IF r.ok /\ At(r.next) # End THEN r.next + 1 ELSE r.next
      /\ ok' = r.ok
  BY Zenon DEF Get, Got
<1>3. /\ n \in Nat /\ m \in Nat /\ k = m + 1 /\ k \in 1 .. n /\ k \in 1 .. Len(fields)
      /\ m < n
  <2>1. n \in Nat
    BY DEF Layout
  <2>2. m \in Nat
    BY <1>1
  <2>3. QED BY <1>2, <2>1, <2>2
<1>4. /\ read' \in Seq(S \cup {r.val}) /\ Len(read') = k /\ read' # <<>>
      /\ read'[k] = r.val /\ \A i \in 1 .. m : read'[i] = read[i]
  <2> DEFINE T == S \cup {r.val}
             v == r.val
  <2>1. read \in Seq(T) /\ v \in T /\ read' = Append(read, v)
    <3>1. read \in Seq(T)
      BY <1>1, <1>3
    <3>2. QED BY <1>2, <3>1
  <2> HIDE DEF T, v
  <2>2. /\ read' \in Seq(T) /\ Len(read') = k /\ read' # <<>>
        /\ read'[k] = v /\ \A i \in 1 .. m : read'[i] = read[i]
    BY <1>3, <2>1
  <2>3. QED BY <2>2 DEF T, v
<1>5. Typed' /\ Layout(st)'
  BY <1>2, LayoutSame, Zenon DEF Typed
<1>6. \A i : IsReadable(i)' <=> IsReadable(i)
  BY <1>2, ReadableSame
<1>7. \A i \in 1 .. m : (\A j \in 1 .. i - 1 : IsReadable(j)) => ReadRight(st, i)
  BY DEF Reading
<1>8. ASSUME NEW i \in 1 .. m, \A j \in 1 .. i - 1 : IsReadable(j)
      PROVE  ReadRight(st, i)'
  <2>1. ReadRight(st, i)
    BY <1>7, <1>8
  <2>2. i # k /\ read'[i] = read[i]
    BY <1>3, <1>4
  <2>3. CASE IsReadable(i)
    <3>1. read'[i] = fields'[i].val
      BY <1>2, <2>1, <2>2, <2>3, Zenon DEF ReadRight
    <3>2. QED BY <1>4, <1>6, <2>2, <2>3, <3>1, Zenon DEF ReadRight
  <2>4. CASE ~ IsReadable(i)
    <3>1. /\ read'[i] # fields'[i].val
          /\ fields'[i].kind = "int" =>
               read'[i] = 0 /\ fields'[i].base = 8 /\ fields'[i].val < 0
      BY <1>2, <2>1, <2>2, <2>4, Zenon DEF ReadRight
    <3>2. QED BY <1>6, <2>4, <3>1, Zenon DEF ReadRight
  <2>5. QED BY <2>3, <2>4
<1>9. ASSUME \A j \in 1 .. k - 1 : IsReadable(j) PROVE ReadRight(st, k)'
  <2>1. pos = st[k]
    <3>1. CASE m = 0
      <4>1. read = <<>>
        BY <1>1, <3>1, EmptySeq
      <4>2. k = 1 /\ st[1] = 1 /\ pos = 1
        BY <1>3, <3>1, <4>1 DEF Reading, Layout
      <4>3. QED BY <4>2
    <3>2. CASE m # 0
      <4>1. m \in 1 .. m /\ m \in 1 .. k - 1 /\ \A j \in 1 .. m - 1 : j \in 1 .. k - 1
        BY <1>3, <3>2
      <4>2. IsReadable(m) /\ ReadRight(st, m)
        BY <1>7, <1>9, <4>1
      <4>3. pos = st[m + 1]
        BY <1>3, <4>2, Zenon DEF ReadRight
      <4>4. QED BY <1>3, <4>3
    <3>3. QED BY <3>1, <3>2
  <2> DEFINE e == st[k] + Len(Written(fields[k]))
             v == fields[k].val
  <2>2. IF IsReadable(k) THEN r = Result(v, e, TRUE)
        ELSE /\ r.ok = FALSE \/ r.val # v
             /\ fields[k].kind = "int" =>
                  \/ r.val = 0 /\ fields[k].base = 8 /\ v < 0
                  \/ r.ok = FALSE
    <3>1. r = Got(k, st[k])
      BY <2>1
    <3>2. QED BY <1>3, <3>1, FieldRead
  <2>3. e + 1 = st[k + 1] /\ At(e) = (IF k = n THEN End ELSE type.sep)
    BY <1>3, LayoutFacts
  <2> HIDE DEF e, v
  <2>4. CASE IsReadable(k)
    <3>1. r.val = v /\ r.next = e /\ r.ok = TRUE
      <4>1. r = Result(v, e, TRUE)
        BY <2>2, <2>4
      <4>2. QED BY <4>1 DEF Result
    <3>2. ASSUME k < n PROVE pos' = st[k + 1]
      <4>1. At(e) # End
        BY <1>3, <2>3, <3>2, TypeFacts, CharFacts
      <4>2. QED BY <1>2, <2>3, <3>1, <4>1
    <3>3. read'[k] = fields'[k].val /\ ok' = TRUE
      BY <1>2, <1>4, <3>1 DEF v
    <3>4. k < Len(fields') => pos' = st[k + 1]
      BY <1>2, <3>2
    <3>5. QED BY <1>6, <2>4, <3>3, <3>4, Zenon DEF ReadRight
  <2>5. CASE ~ IsReadable(k)
    <3>1. /\ r.ok = FALSE \/ r.val # v
          /\ fields[k].kind = "int" =>
               \/ r.val = 0 /\ fields[k].base = 8 /\ v < 0
               \/ r.ok = FALSE
      BY <2>2, <2>5, Zenon
    <3>2. /\ read'[k] # fields'[k].val \/ (k = Len(read') /\ ok' = FALSE)
          /\ fields'[k].kind = "int" =>
               \/ read'[k] = 0 /\ fields'[k].base = 8 /\ fields'[k].val < 0
               \/ k = Len(read') /\ ok' = FALSE
      BY <1>2, <1>4, <3>1, Zenon DEF v
    <3>3. QED BY <1>6, <2>5, <3>2, Zenon DEF ReadRight
  <2>6. QED BY <2>4, <2>5
<1>10. ASSUME NEW i \in 1 .. Len(read'), \A j \in 1 .. i - 1 : IsReadable(j)'
       PROVE  ReadRight(st, i)'
  <2>1. \A j \in 1 .. i - 1 : IsReadable(j)
    BY <1>6, <1>10
  <2>2. CASE i = k
    BY <1>9, <2>1, <2>2
  <2>3. CASE i # k
    <3>1. i \in 1 .. m
      BY <1>3, <1>4, <2>3
    <3>2. QED BY <1>8, <2>1, <3>1
  <2>4. QED BY <2>2, <2>3
<1>11. Reading(st)'
  <2>1. \E T : read' \in Seq(T)
    BY <1>4, Zenon
  <2>2. Len(read') <= Len(fields')
    BY <1>2, <1>3, <1>4
  <2>3. QED BY <1>4, <1>10, <2>1, <2>2, Zenon DEF Reading
<1>12. QED BY <1>5, <1>11

(* The fields lie in the text and are read one by one.                     *)
LEMMA IOManipInductive ==
  /\ Init => IOManipInv
  /\ IOManipInv /\ [Next]_vars => IOManipInv'
<1>1. ASSUME Init PROVE IOManipInv
  <2> PICK st : st = [i \in 1 .. 1 |-> 1]
    OBVIOUS
  <2>1. type \in Types /\ fields = <<>> /\ text = <<>> /\ pos = 1 /\ read = <<>> /\ ok = TRUE
    BY <1>1 DEF Init
  <2>2. Typed
    BY <2>1 DEF Typed
  <2>3. Layout(st)
    <3>1. fields \in Seq(Fields) /\ Len(fields) = 0
      BY <2>1
    <3>2. st \in [1 .. Len(fields) + 1 -> Nat \ {0}] /\ st[1] = 1
      BY <3>1
    <3>3. QED BY <2>1, <3>1, <3>2 DEF Layout
  <2>4. Reading(st)
    <3>1. read \in Seq({}) /\ Len(read) = 0 /\ Len(fields) = 0
      BY <2>1
    <3>2. QED BY <2>1, <3>1 DEF Reading
  <2>5. QED BY <2>2, <2>3, <2>4 DEF IOManipInv
<1>2. ASSUME IOManipInv, [Next]_vars PROVE IOManipInv'
  <2>1. PICK st : Typed /\ Layout(st) /\ Reading(st)
    BY <1>2 DEF IOManipInv
  <2>2. CASE Put
    <3>1. Typed' /\ \E u : Layout(u)'
      BY <2>1, <2>2, PutLays
    <3>2. PICK u : Layout(u)'
      BY <3>1
    <3>3. read = <<>> /\ read' = read /\ pos' = pos /\ ok' = ok
      BY <2>2 DEF Put
    <3>4. Reading(u)'
      <4>1. read' = <<>> /\ read' \in Seq({}) /\ Len(read') = 0 /\ ok' = TRUE /\ pos' = 1
        BY <2>1, <3>3 DEF Reading
      <4>2. Len(fields') \in Nat
        BY <3>2 DEF Layout
      <4>3. QED BY <4>1, <4>2 DEF Reading
    <3>5. QED BY <3>1, <3>2, <3>4 DEF IOManipInv
  <2>3. CASE Get
    <3>1. Typed' /\ Layout(st)' /\ Reading(st)'
      BY <2>1, <2>3, GetReads
    <3>2. QED BY <3>1 DEF IOManipInv
  <2>4. CASE UNCHANGED vars
    <3>1. /\ type' = type /\ fields' = fields /\ text' = text
          /\ pos' = pos /\ read' = read /\ ok' = ok
      BY <2>4 DEF vars
    <3>2. Typed' /\ Layout(st)'
      BY <2>1, <3>1, LayoutSame, Zenon DEF Typed
    <3>3. \A i : IsReadable(i)' <=> IsReadable(i)
      BY <3>1, ReadableSame
    <3>4. Reading(st)'
      BY <2>1, <3>1, <3>3, Zenon DEF Reading, ReadRight
    <3>5. QED BY <3>2, <3>4 DEF IOManipInv
  <2>5. QED BY <1>2, <2>2, <2>3, <2>4 DEF Next
<1>3. QED BY <1>1, <1>2

(* A list of fields is read back as it was put exactly when each of its     *)
(* fields is one that the code can read back (IOManip.h:80-195).           *)
THEOREM FieldsAreReadBack == Spec => []FieldsReadBack
<1>1. IOManipInv => FieldsReadBack
  <2>1. SUFFICES ASSUME NEW st, Typed, Layout(st), Reading(st),
                        ~ ok \/ Len(read) = Len(fields)
                 PROVE  (ok /\ \A i \in DOMAIN read : read[i] = fields[i].val)
                          <=> \A i \in DOMAIN fields : IsReadable(i)
    BY Zenon DEF IOManipInv, FieldsReadBack
  <2> PICK n, m : n = Len(fields) /\ m = Len(read)
    OBVIOUS
  <2>2. n \in Nat /\ m \in Nat /\ DOMAIN fields = 1 .. n /\ DOMAIN read = 1 .. m /\ m <= n
        /\ (m = 0 => read = <<>>)
    <3>1. fields \in Seq(Fields)
      BY <2>1 DEF Layout
    <3>2. PICK S : read \in Seq(S)
      BY <2>1 DEF Reading
    <3>3. m <= n
      BY <2>1 DEF Reading
    <3> HIDE DEF Fields
    <3>4. QED BY <3>1, <3>2, <3>3
  <2>3. CASE \A i \in 1 .. n : IsReadable(i)
    <3>1. ASSUME NEW i \in 1 .. m PROVE ReadRight(st, i) /\ IsReadable(i)
      <4>1. i \in 1 .. n /\ \A j \in 1 .. i - 1 : j \in 1 .. n
        BY <2>2
      <4>2. \A j \in 1 .. i - 1 : IsReadable(j)
        BY <2>3, <4>1
      <4>3. QED BY <2>1, <2>3, <4>1, <4>2 DEF Reading
    <3>2. \A i \in 1 .. m : read[i] = fields[i].val
      BY <3>1, Zenon DEF ReadRight
    <3>3. ok
      <4>1. CASE m = 0
        BY <2>1, <2>2, <4>1 DEF Reading
      <4>2. CASE m # 0
        <5>1. m \in 1 .. m
          BY <2>2, <4>2
        <5>2. QED BY <3>1, <5>1, Zenon DEF ReadRight
      <4>3. QED BY <4>1, <4>2
    <3>4. QED BY <2>2, <2>3, <3>2, <3>3, Zenon
  <2>4. CASE \E i \in 1 .. n : ~ IsReadable(i)
    <3> DEFINE U == {i \in 1 .. n : ~ IsReadable(i)}
    <3>1. U \in SUBSET Nat /\ U # {}
      BY <2>2, <2>4
    <3>2. PICK i \in U : \A j \in U : i <= j
      <4> HIDE DEF U
      <4>1. QED BY <3>1, MinOfNats
    <3>3. i \in 1 .. n /\ ~ IsReadable(i)
      OBVIOUS
    <3>4. ASSUME NEW j \in 1 .. i - 1 PROVE IsReadable(j)
      <4>1. j \in 1 .. n /\ ~ (i <= j)
        BY <2>2, <3>3
      <4>2. QED BY <3>2, <4>1
    <3>5. CASE i \in 1 .. m
      <4>1. ReadRight(st, i)
        BY <2>1, <3>4, <3>5 DEF Reading
      <4>2. read[i] # fields[i].val \/ ok = FALSE
        BY <3>3, <4>1, Zenon DEF ReadRight
      <4>3. QED BY <2>2, <3>3, <3>5, <4>2, Zenon
    <3>6. CASE i \notin 1 .. m
      <4>1. ~ ok
        BY <2>1, <2>2, <3>3, <3>6
      <4>2. QED BY <2>2, <3>3, <4>1, Zenon
    <3>7. QED BY <3>5, <3>6
  <2>5. QED BY <2>3, <2>4
<1>2. QED BY <1>1, IOManipInductive, PTL DEF Spec

(* A number that is not read as it was put is a negative one in octal that *)
(* is read as 0, or makes the stream fail (IOManip.h:170-195).             *)
THEOREM WrongNumbersAreZero == Spec => []WrongNumberIsZero
<1>1. IOManipInv => WrongNumberIsZero
  <2>1. SUFFICES ASSUME NEW st, Reading(st), NEW i \in DOMAIN read,
                        fields[i].kind = "int", ok \/ i < Len(read),
                        \A j \in 1 .. i - 1 : IsReadable(j)
                 PROVE  \/ read[i] = fields[i].val
                        \/ read[i] = 0 /\ fields[i].base = 8 /\ fields[i].val < 0
    BY Zenon DEF IOManipInv, WrongNumberIsZero
  <2>2. i \in 1 .. Len(read) /\ ~ (i < Len(read) /\ i = Len(read))
    <3>1. PICK S : read \in Seq(S)
      BY <2>1 DEF Reading
    <3>2. QED BY <3>1
  <2>3. ReadRight(st, i)
    BY <2>1, <2>2, Zenon DEF Reading
  <2>4. QED BY <2>1, <2>2, <2>3, Zenon DEF ReadRight
<1>2. QED BY <1>1, IOManipInductive, PTL DEF Spec

=============================================================================
