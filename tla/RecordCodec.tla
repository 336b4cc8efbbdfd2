----------------------------- MODULE RecordCodec -----------------------------
(***************************************************************************)
(* The records of server-side/schema/record.c and the buffer that holds    *)
(* those of a row: for each a header byte, which gives its type and its    *)
(* size, and its data.                                                     *)
(*                                                                         *)
(* A string is the sequence of its characters, which are numbers.  The     *)
(* numbers stored are below 256: the first of their bytes has the value.   *)
(***************************************************************************)
EXTENDS Integers, Sequences

NUL == 0
LAST_RECORD_TYPE == 7
RECORD_TYPE_NULL == 0
RECORD_TYPE_CHAR == 1
RECORD_TYPE_SHORT == 2
RECORD_TYPE_INT == 3
RECORD_TYPE_LONG == 4
RECORD_TYPE_FLOAT == 5
RECORD_TYPE_0 == 6
RECORD_TYPE_1 == 7

\* The parameter of record_type_size is a signed char.
SignedChar(byte) == IF byte < 128 THEN byte ELSE byte - 256

\* The bytes of data after a header; -1 is (size_t)-1, that of strings of more
\* than 118 characters
record_type_size(type) ==
  CASE type \in {RECORD_TYPE_NULL, RECORD_TYPE_0, RECORD_TYPE_1} -> 0
    [] type = RECORD_TYPE_CHAR -> 1
    [] type = RECORD_TYPE_SHORT -> 2
    [] type \in {RECORD_TYPE_INT, RECORD_TYPE_FLOAT} -> 4
    [] type = RECORD_TYPE_LONG -> 8
    [] OTHER -> IF SignedChar(type) < 0 THEN -1 ELSE type - LAST_RECORD_TYPE - 1

record_size(record) == record_type_size(record.type)

-----------------------------------------------------------------------------
\* Records made of C values.  The header of a string counts its terminator.
record_from_number(type, n) ==
  [type |-> type, data |-> [i \in 1..record_type_size(type) |-> IF i = 1 THEN n ELSE 0]]
record_from_short(n) == record_from_number(RECORD_TYPE_SHORT, n)
record_from_long(n) == record_from_number(RECORD_TYPE_LONG, n)
record_from_string(s) ==
  [type |-> (LAST_RECORD_TYPE + Len(s) + 2) % 256, data |-> Append(s, NUL)]

\* The C value of a record; -1 if it has another type
record_get_number(record, type) ==
  CASE record.type \in {RECORD_TYPE_NULL, RECORD_TYPE_0} -> 0
    [] record.type = RECORD_TYPE_1 -> 1
    [] record.type = type -> Head(record.data)
    [] OTHER -> -1
record_get_short(record) == record_get_number(record, RECORD_TYPE_SHORT)
record_get_long(record) == record_get_number(record, RECORD_TYPE_LONG)

\* What is printed for a record: numbers have one digit, and of a string it is
\* what comes before its terminator.  No float is ever stored.
Digit(n) == 48 + n
NULL_text == <<78, 85, 76, 76>>
record_get_string(record) ==
  CASE record.type = RECORD_TYPE_NULL -> NULL_text
    [] record.type = RECORD_TYPE_CHAR -> record.data
    [] record.type = RECORD_TYPE_0 -> <<Digit(0)>>
    [] record.type = RECORD_TYPE_1 -> <<Digit(1)>>
    [] record.type \in {RECORD_TYPE_SHORT, RECORD_TYPE_INT, RECORD_TYPE_LONG} ->
         <<Digit(Head(record.data))>>
    [] record.type > LAST_RECORD_TYPE -> SubSeq(record.data, 1, Len(record.data) - 1)

-----------------------------------------------------------------------------
\* The buffer of a sequence of records
compress_records(records) ==
  LET buffer[n \in 0..Len(records)] ==
        IF n = 0 THEN <<>>
        ELSE buffer[n - 1] \o <<records[n].type>>
                           \o SubSeq(records[n].data, 1, record_size(records[n]))
  IN buffer[Len(records)]

\* Where the header of record n, counted from 0, is: the headers before it are
\* followed one by one.
Offset(buffer, n) ==
  LET at[i \in 0..n] ==
        IF i = 0 THEN 1
        ELSE LET header == at[i - 1] IN header + record_type_size(buffer[header]) + 1
  IN at[n]

extract_record(buffer, n) ==
  LET at == Offset(buffer, n)
      type == buffer[at] IN
  [type |-> type, data |-> SubSeq(buffer, at + 1, at + record_type_size(type))]

\* The rest of the buffer moves when the sizes differ.  The code then moves
\* old_size bytes too many, past the end of the new buffer: the callers only
\* replace a long by a long.
replace_record(buffer, n, record) ==
  LET at == Offset(buffer, n)
      old_size == record_type_size(buffer[at]) IN
  SubSeq(buffer, 1, at - 1) \o <<record.type>> \o record.data
    \o SubSeq(buffer, at + old_size + 1, Len(buffer))

\* strcmp, and the comparison of numbers: the first byte that differs decides.
\* 2 is for records of different types; all strings are of one.
compare_r(r1, r2) ==
  LET Strings == r1.type > LAST_RECORD_TYPE /\ r2.type > LAST_RECORD_TYPE
      Differ == {i \in DOMAIN r1.data \intersect DOMAIN r2.data : r1.data[i] # r2.data[i]} IN
  CASE r1.type # r2.type /\ ~Strings -> 2
    [] r1.data = r2.data -> 0
    [] OTHER -> LET i == CHOOSE i \in Differ : \A j \in Differ : i <= j IN
                IF r1.data[i] < r2.data[i] THEN -1 ELSE 1
=============================================================================
