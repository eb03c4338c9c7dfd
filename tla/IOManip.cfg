\* Strings of up to two characters, an escaped quote among them, in two fields;
\* numbers of four bits have two octal digits. All fields have been read in the
\* end.
SPECIFICATION Spec
CONSTANTS
  MaxLen = 2
  MaxFields = 2
  MaxInt = 7
INVARIANTS
  FieldsReadBack
  WrongNumberIsZero
CHECK_DEADLOCK FALSE
