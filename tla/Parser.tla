-------------------------------- MODULE Parser --------------------------------
(***************************************************************************)
(* The parser of server-side/parser: parse_user_input turns a line into    *)
(* the instructions that db_handle executes one after the other.           *)
(*                                                                         *)
(* A line is a sequence of symbols: characters, by their codes, and the    *)
(* keywords, one symbol each, which are letters as far as identifiers are  *)
(* concerned.  What is left of the line is data, and a function that takes *)
(* char **data returns it as rest, with what it found (val), whether it    *)
(* succeeded (ok), and the fate of the process: "up", "ended" if it        *)
(* crashes, "undefined" if it goes on with memory it never wrote.          *)
(***************************************************************************)
EXTENDS Integers, Sequences, FiniteSets, SequencesExt

CONSTANT IDENT_MAX_LENGTH   \* IDENT_MAX_LEGHT, 20 in the code

ASSUME ParserAssumption == IDENT_MAX_LENGTH \in Nat \ {0}

Tab == 9
Newline == 10
Space == 32
Quote == 34
Star == 42
Comma == 44
Semicolon == 59
Equal == 61
\* The instruction types that are implemented, and the keywords
sel == 201
crt == 202
add == 203
unknownInstrType == 200
from == 204
where == 205
in == 206
with == 207
\* What else an identifier may spell, a word per symbol
Word == 210..219

is_int(c) == c \in 48..57
is_alphanum(c) == c \in 97..122 \/ c \in 65..90 \/ is_int(c) \/ c \in sel..with \/ c \in Word

-----------------------------------------------------------------------------
Starts(data, c) == data # <<>> /\ Head(data) = c
After(data, n) == SubSeq(data, n + 1, Len(data))

\* How many symbols at the start of data satisfy Test
Run(data, Test(_)) ==
  LET Ends == {i \in 1..Len(data) : ~Test(data[i])} IN
  IF Ends = {} THEN Len(data) ELSE Min(Ends) - 1

IsSpace(c) == c \in {Space, Tab, Newline}
remove_spaces(data) == After(data, Run(data, IsSpace))

Failed(rest) == [ok |-> FALSE, val |-> <<>>, rest |-> rest, fate |-> "up"]
Found(val, rest) == [ok |-> TRUE, val |-> val, rest |-> remove_spaces(rest), fate |-> "up"]

\* parse_comma, parse_equalsign and parse_expected_keyword
Expect(data, symbol) == IF Starts(data, symbol) THEN Found(<<>>, Tail(data)) ELSE Failed(data)

parse_ident(data) ==
  LET size == Run(data, is_alphanum) IN
  CASE size = 0 -> Failed(data)
    [] size > IDENT_MAX_LENGTH -> Failed(remove_spaces(After(data, size)))
    [] OTHER -> Found(SubSeq(data, 1, size), After(data, size))

\* A string goes to the next quote.  A number is kept as the string of its digits.
parse_value(data) ==
  LET closing == {i \in 2..Len(data) : data[i] = Quote}
      size == Run(data, is_int) IN
  IF Starts(data, Quote)
  THEN IF closing = {} THEN Failed(data)
       ELSE Found(SubSeq(data, 2, Min(closing) - 1), After(data, Min(closing)))
  ELSE IF size = 0 THEN Failed(data) ELSE Found(SubSeq(data, 1, size), After(data, size))

\* A call after those so far: SAFE_CALL goes on when one has failed.
Start(data) == [ok |-> TRUE, val |-> <<>>, rest |-> data, fate |-> "up"]
Joined(sofar, next) == [ok |-> sofar.ok /\ next.ok, val |-> Append(sofar.val, next.val),
                        rest |-> next.rest,
                        fate |-> IF sofar.fate = "up" THEN next.fate ELSE sofar.fate]
Ident(sofar) == Joined(sofar, parse_ident(sofar.rest))
Value(sofar) == Joined(sofar, parse_value(sofar.rest))
Symbol(sofar, symbol) ==
  [Joined(sofar, Expect(sofar.rest, symbol)) EXCEPT !.val = sofar.val]

-----------------------------------------------------------------------------
\* Mutant: a word after a space ends the list, even behind an equal sign.
CountToWord(s, c) ==
  CASE s.done -> s
    [] s.inQuote -> IF c = Quote THEN [s EXCEPT !.inQuote = FALSE, !.last = "word"] ELSE s
    [] c = Quote -> [s EXCEPT !.inQuote = TRUE]
    [] is_alphanum(c) -> IF s.last = "space" THEN [s EXCEPT !.done = TRUE]
                         ELSE [s EXCEPT !.last = "word"]
    [] c = Equal /\ ~s.equal -> [s EXCEPT !.equal = TRUE]
    [] c = Space -> IF s.last = "word" THEN [s EXCEPT !.last = "space"] ELSE s
    [] c = Comma -> [s EXCEPT !.count = @ + 1, !.equal = FALSE, !.last = "comma"]
    [] OTHER -> [s EXCEPT !.count = -1, !.done = TRUE]

\* One symbol of count_comma_list: a word after a word ends the list, unless an
\* equal sign is between them; a second equal sign, or any other symbol, is refused.
CountStep(s, c) ==
  CASE s.done -> s
    [] s.inQuote -> IF c = Quote THEN [s EXCEPT !.inQuote = FALSE, !.last = "word"] ELSE s
    [] c = Quote -> [s EXCEPT !.inQuote = TRUE]
    [] is_alphanum(c) -> IF s.last = "space" /\ ~s.equal THEN [s EXCEPT !.done = TRUE]
                         ELSE [s EXCEPT !.last = "word"]
    [] c = Equal /\ ~s.equal -> [s EXCEPT !.equal = TRUE]
    [] c = Space -> IF s.last = "word" THEN [s EXCEPT !.last = "space"] ELSE s
    [] c = Comma -> [s EXCEPT !.count = @ + 1, !.equal = FALSE, !.last = "comma"]
    [] OTHER -> [s EXCEPT !.count = -1, !.done = TRUE]

count_comma_list(data) ==
  FoldLeft(CountStep, [count |-> 1, last |-> "none", equal |-> FALSE,
                       inQuote |-> FALSE, done |-> FALSE], data).count

\* The items of a list, as many as were counted, up to the first that fails: val
\* has those that were stored.  A list of -1 items is stored through the NULL that
\* malloc returns.
List(data, size, Item(_, _)) ==
  LET Next(list, i) == IF list.ok THEN Item(list, i) ELSE list IN
  IF size = -1 THEN [Failed(data) EXCEPT !.fate = "ended"]
  ELSE FoldLeft(Next, Start(data), [i \in 1..size |-> i])

ListedIdent(list, i) ==
  IF i = 1 THEN Ident(list)
  ELSE IF Starts(list.rest, Comma) THEN Ident(Symbol(list, Comma))
  ELSE [list EXCEPT !.ok = FALSE]

\* The array is not cleared: when the list fails, free_charray frees what the
\* elements after the last one that was stored happen to hold.
Freed(list, size) ==
  IF list.fate = "up" /\ ~list.ok /\ Len(list.val) < size
  THEN [list EXCEPT !.fate = "undefined"] ELSE list
Counted(data, size) == Freed(List(data, size, ListedIdent), size)
parse_comma_list(data) == Counted(data, count_comma_list(data))

parse_condition(data) == Value(Symbol(Ident(Start(data)), Equal))
parse_columndef(data) == Ident(Symbol(Ident(Start(data)), Equal))

\* These do not look whether a comma was there.
AfterComma(list) == IF Starts(list.rest, Comma) THEN Symbol(list, Comma).rest ELSE list.rest
ColumnDef(list, i) == Joined(list, parse_columndef(IF i = 1 THEN list.rest ELSE AfterComma(list)))
AddValue(list, i) == Joined(list, parse_condition(IF i = 1 THEN list.rest ELSE AfterComma(list)))
parse_columndef_list(data) == List(data, count_comma_list(data), ColumnDef)
parse_addvalue_list(data) == List(data, count_comma_list(data), AddValue)

-----------------------------------------------------------------------------
\* The instructions.  No columns in a select mean all, and a condition is a
\* sequence of at most one; the types of columns are not used.
Sel(table, columns, cond) == [type |-> "sel", table |-> table, columns |-> columns, cond |-> cond]
Crt(table, columns) == [type |-> "crt", table |-> table, columns |-> columns]
Add(table, columns, values) ==
  [type |-> "add", table |-> table, columns |-> columns, values |-> values]
Unknown == [type |-> "unknown"]

Columns(pairs) == [i \in DOMAIN pairs |-> pairs[i][1]]
Values(pairs) == [i \in DOMAIN pairs |-> pairs[i][2]]

SelOf(vals) ==
  Sel(vals[2], vals[1], IF Len(vals) = 2 THEN <<>> ELSE <<[col |-> vals[3][1], val |-> vals[3][2]]>>)
CrtOf(vals) == Crt(vals[1], Columns(vals[2]))
AddOf(vals) == Add(vals[2], Columns(vals[1]), Values(vals[1]))

\* One in which any call has failed is unknown in the end.
Parsed(parse, Instr(_)) ==
  [fate |-> parse.fate, instr |-> IF parse.ok THEN Instr(parse.val) ELSE Unknown]

SelColumns(data) == IF Starts(data, Star) THEN Found(<<>>, Tail(data)) ELSE parse_comma_list(data)
SelWhere(keyword) == Joined(keyword, parse_condition(keyword.rest))
SelCondition(table) == IF table.rest = <<>> THEN table ELSE SelWhere(Symbol(table, where))
parse_selinstr(data) ==
  Parsed(SelCondition(Ident(Symbol(Joined(Start(data), SelColumns(data)), from))), SelOf)

CrtColumns(keyword) == Joined(keyword, parse_columndef_list(keyword.rest))
parse_crtinstr(data) == Parsed(CrtColumns(Symbol(Ident(Start(data)), with)), CrtOf)

parse_addinstr(data) ==
  Parsed(Ident(Symbol(Joined(Start(data), parse_addvalue_list(data)), in)), AddOf)

\* parse_instrtype wants a space after the instruction type.
Instruction(type, data) ==
  CASE type = sel -> parse_selinstr(data)
    [] type = crt -> parse_crtinstr(data)
    [] type = add -> parse_addinstr(data)
    [] OTHER -> [fate |-> "up", instr |-> Unknown]
Typed(text) ==
  IF Len(text) >= 2 /\ text[2] = Space THEN Instruction(Head(text), remove_spaces(Tail(text)))
  ELSE Instruction(unknownInstrType, text)
parse_instr(text) == Typed(remove_spaces(text))

\* Mutant: a line is one instruction, up to its last semicolon.
OneInstruction(data) ==
  LET last == {i \in 1..Len(data) : data[i] = Semicolon} IN
  IF last = {} THEN <<>> ELSE <<parse_instr(SubSeq(data, 1, Max(last) - 1))>>

\* Each semicolon ends an instruction, inside quotes too; what follows the last
\* one is ignored.
parse_user_input(data) ==
  LET ends == SetToSortSeq({i \in 1..Len(data) : data[i] = Semicolon}, <)
      starts == <<1>> \o [i \in 1..Len(ends) |-> ends[i] + 1] IN
  [i \in 1..Len(ends) |-> parse_instr(SubSeq(data, starts[i], ends[i] - 1))]
=============================================================================
