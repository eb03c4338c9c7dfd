-------------------------------- MODULE IOManip --------------------------------
(***************************************************************************)
(* put_cstr, get_cstr and get_cint (src/src/IOManip.h:29-195): fields are  *)
(* written to a stream with a separator between them, and then read back   *)
(* in their order by the manipulators that belong to them.                 *)
(* Numbers are written by the stream itself, with showbase.                *)
(***************************************************************************)
EXTENDS Integers, Sequences, SequencesExt

CONSTANTS
  MaxLen,    (* Bound on the length of a string.                           *)
  MaxFields, (* Bound on the number of fields.                             *)
  MaxInt     (* The greatest number, one below the half of 2^w.            *)

ASSUME IOManipAssumption ==
  MaxLen \in Nat /\ MaxFields \in Nat \ {0} /\ MaxInt \in Nat

VARIABLES
  type,   (* cstrtype, the separator and the skipws flag of the stream.    *)
  fields, (* What was put.                                                 *)
  text,   (* The characters that were written to the stream.               *)
  pos,    (* The place in text that is read next.                          *)
  read,   (* What was got.                                                 *)
  ok      (* The stream has not failed.                                    *)

vars == <<type, fields, text, pos, read, ok>>

Quot == "\""
Backslash == "\\"
Space == " "
Comma == ","
End == "end"

(* The default has no brk, others have a comma; a quote may escape itself. *)
Types == [esc : {Quot, Backslash}, brk : {{}, {Comma}},
          sep : {Comma, Space}, skipws : BOOLEAN]

Strings == BoundedSeq({Quot, Backslash, Space, Comma, "z"}, MaxLen)
Ints == -MaxInt - 1 .. MaxInt

(* Decimal, octal and hexadecimal.                                         *)
Bases == {10, 8, 16}

Fields ==
  [kind : {"str"}, val : Strings] \cup [kind : {"int"}, val : Ints, base : Bases]

-----------------------------------------------------------------------------
(* Writing. *)

(* Mutant of Fold: white space alone is no reason.                         *)
FoldNoSpace(s) == type.brk = {} \/ \E i \in DOMAIN s : s[i] \in {Quot} \cup type.brk

(* Whether a string is put between quotes.                                 *)
Fold(s) ==
  type.brk = {} \/ \E i \in DOMAIN s : s[i] \in {Quot, Space} \cup type.brk

(* Only the quote is escaped, the escape character itself is not.          *)
PutCStr(s) ==
  LET put[i \in 0 .. Len(s)] ==
        IF i = 0 THEN <<Quot>>
        ELSE put[i - 1] \o IF s[i] = Quot THEN <<type.esc, Quot>> ELSE <<s[i]>>
  IN  IF Fold(s) THEN Append(put[Len(s)], Quot) ELSE s

Digits == <<"0", "1", "2", "3", "4", "5", "6", "7", "8", "9",
            "a", "b", "c", "d", "e", "f">>

DigitVal(c) == (CHOOSE i \in DOMAIN Digits : Digits[i] = c) - 1
DigitsOf(base) == {Digits[i] : i \in 1 .. base}

Numeral(base, n) ==
  LET num[m \in 0 .. n] ==
        Append(IF m < base THEN <<>> ELSE num[m \div base], Digits[(m % base) + 1])
  IN  num[n]

(* showbase << oct and hex print a negative number as an unsigned one.     *)
PutInt(base, v) ==
  CASE base = 10 -> (IF v < 0 THEN <<"-">> ELSE <<>>)
                      \o Numeral(10, IF v < 0 THEN -v ELSE v)
    [] base # 10 /\ v = 0 -> <<"0">>
    [] base # 10 /\ v # 0 ->
                    (IF base = 16 THEN <<"0", "x">> ELSE <<"0">>)
                      \o Numeral(base, v % (2 * (MaxInt + 1)))

Written(f) == IF f.kind = "str" THEN PutCStr(f.val) ELSE PutInt(f.base, f.val)

-----------------------------------------------------------------------------
(* Reading from place p: the value, the next place, and whether the stream *)
(* is ok.                                                                  *)

Result(val, next, good) == [val |-> val, next |-> next, ok |-> good]

At(p) == IF p <= Len(text) THEN text[p] ELSE End

Places(p) == p .. Len(text) + 1

Skipped(p) == IF type.skipws THEN Min({n \in Places(p) : At(n) # Space}) ELSE p

(* Up to a break character or white space, which stays in the stream.      *)
Unquoted(p) ==
  LET stop == {End} \cup type.brk \cup (IF type.skipws THEN {Space} ELSE {})
      n == Min({m \in Places(p) : At(m) \in stop})
  IN  Result(SubSeq(text, p, n - 1), n, TRUE)

(* The loop over a character behind the opening quote; what follows the    *)
(* closing quote stays in the stream.                                      *)
QuotedStep(q, c) ==
  LET to(at, w) == [at |-> at, val |-> q.val \o w, next |-> q.next + 1]
  IN  CASE q.at = "out"                   -> q
        [] q.at = "in" /\ c = type.esc    -> to("esc", <<>>)
        [] q.at = "in" /\ c \notin {type.esc, Quot} -> to("in", <<c>>)
        [] q.at = "in" /\ c # type.esc /\ c = Quot -> to("out", <<>>)
        [] q.at = "esc" /\ c \in {Quot, type.esc}   -> to("in", <<c>>)
        [] q.at = "esc" /\ c \notin {Quot, type.esc} ->
             IF type.esc = Quot THEN [q EXCEPT !.at = "out"]
             ELSE to("in", <<type.esc, c>>)

Quoted(p) ==
  LET scan[n \in Places(p)] ==
        IF n = p THEN [at |-> "in", val |-> <<>>, next |-> p]
        ELSE QuotedStep(scan[n - 1], text[n - 1])
      q == scan[Len(text) + 1]
  IN  Result(q.val, q.next, q.at = "out" \/ (q.at = "esc" /\ type.esc = Quot))

(* At the end of the stream the string is left as it was, empty.           *)
GetCStr(p0) ==
  LET p == Skipped(p0)
  IN  IF At(p) = End THEN Result(<<>>, p, FALSE)
      ELSE IF At(p) = Quot THEN Quoted(p + 1)
      ELSE Unquoted(p)

(* Digits, as many as follow.                                              *)
GetDigits(base, p) ==
  LET n == Min({m \in Places(p) : At(m) \notin DigitsOf(base)})
      value[m \in p .. n] ==
        IF m = p THEN 0 ELSE base * value[m - 1] + DigitVal(text[m - 1])
  IN  Result(value[n], n, n > p)

(* Behind a prefix.                                                        *)
GetUnsigned(base, p) ==
  GetDigits(base, IF base = 16 /\ At(p) = "0" /\ At(p + 1) = "x" THEN p + 2 ELSE p)

(* Without a digit 0 and a failure, out of range the bound and a failure.  *)
InRange(r, sign) ==
  LET v == sign * r.val
  IN  IF v \in Ints THEN [r EXCEPT !.val = v]
      ELSE Result(IF sign < 0 THEN -MaxInt - 1 ELSE MaxInt, r.next, FALSE)

(* is >> v of the library.                                                 *)
GetNum(base, p0) ==
  LET p == Skipped(p0)
  IN  IF At(p) = "-" THEN InRange(GetUnsigned(base, p + 1), -1)
      ELSE InRange(GetUnsigned(base, p), 1)

(* Mutant of Octal: the variable is not set to 0.                          *)
OctalKept(p) == LET r == GetNum(8, p) IN Result(r.val, r.next, TRUE)

(* After a leading 0: a failure is taken for a 0 that stands alone.        *)
Octal(p) ==
  LET r == GetNum(8, p)
  IN  IF r.ok THEN r ELSE Result(0, r.next, TRUE)

GetCInt(p0) ==
  LET p == Skipped(p0)
  IN  IF At(p) = End THEN Result(0, p, FALSE)
      ELSE IF At(p) # "0" THEN GetNum(10, p)
      ELSE IF At(p + 1) \in {"x", "X"} THEN GetNum(16, p + 2)
      ELSE IF At(p + 1) \in DigitsOf(10) THEN Octal(p + 1)
      ELSE Result(0, p + 1, TRUE)

-----------------------------------------------------------------------------
(* The stream. *)

Init ==
  /\ type \in Types
  /\ fields = <<>> /\ text = <<>> /\ pos = 1 /\ read = <<>>
  /\ ok = TRUE

Put ==
  /\ read = <<>> /\ Len(fields) < MaxFields
  /\ \E f \in Fields :
       /\ fields' = Append(fields, f)
       /\ text' = text \o (IF fields = <<>> THEN <<>> ELSE <<type.sep>>) \o Written(f)
  /\ UNCHANGED <<type, pos, read, ok>>

(* A field into a variable that is still empty, and the separator.         *)
Get ==
  /\ ok /\ Len(read) < Len(fields)
  /\ LET r == IF fields[Len(read) + 1].kind = "str" THEN GetCStr(pos) ELSE GetCInt(pos)
     IN  /\ read' = Append(read, r.val)
         /\ pos' = IF r.ok /\ At(r.next) # End THEN r.next + 1 ELSE r.next
         /\ ok' = r.ok
  /\ UNCHANGED <<type, fields, text>>

Next == Put \/ Get

Spec == Init /\ [][Next]_vars

-----------------------------------------------------------------------------
(* Properties. *)

(* What get_cstr can tell from what put_cstr wrote.                        *)
StringIsReadable(i) ==
  LET s == fields[i].val
      last == i = Len(fields)
      ends == type.sep \in type.brk \/ (type.sep = Space /\ type.skipws)
  IN  IF Fold(s)
      THEN type.esc = Quot
             \/ \A j \in DOMAIN s :
                  s[j] = type.esc => j < Len(s) /\ s[j + 1] \notin {type.esc, Quot}
      ELSE IF s = <<>> THEN ~last /\ type.sep \in type.brk
      ELSE last \/ ends

IsReadable(i) ==
  IF fields[i].kind = "str" THEN StringIsReadable(i)
  ELSE fields[i].base = 10 \/ fields[i].val >= 0

(* A list of fields is read back as it was put, every number and string of *)
(* it, exactly when no field is one of the few that the code cannot read   *)
(* back: a folded string in which an escape character that is not the      *)
(* quote stands before a quote, another escape character or the end        *)
(* (put_cstr does not escape it, IOManip.h:150, but get_cstr drops it,     *)
(* IOManip.h:111-124); a plain string that the separator does not end, or  *)
(* that is empty with nothing to end it (IOManip.h:87-102); and a negative *)
(* number in octal or hexadecimal.                                         *)
FieldsReadBack ==
  ~ok \/ Len(read) = Len(fields) =>
    ((ok /\ \A i \in DOMAIN read : read[i] = fields[i].val)
       <=> \A i \in DOMAIN fields : IsReadable(i))

(* As long as the fields before it were read as they were put, a number is *)
(* read as it was put or the stream fails, but for a negative number in    *)
(* octal: that is read as 0, as if it were there (IOManip.h:187-194).      *)
WrongNumberIsZero ==
  \A i \in DOMAIN read :
    (/\ fields[i].kind = "int" /\ (ok \/ i < Len(read))
     /\ \A j \in 1 .. i - 1 : IsReadable(j))
      => \/ read[i] = fields[i].val
         \/ read[i] = 0 /\ fields[i].base = 8 /\ fields[i].val < 0

=============================================================================
