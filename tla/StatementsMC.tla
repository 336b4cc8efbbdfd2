----------------------------- MODULE StatementsMC -----------------------------
(***************************************************************************)
(* Statements about two names of tables and two of columns, in three ways  *)
(* to write them, names added to TABLES, lines that are no statements, and *)
(* lines that the code takes for something else than they say.             *)
(***************************************************************************)
EXTENDS Statements

t == <<116>>
u == <<where, 117>>             \* IDENT_MAX_LENGTH symbols, and begins like a keyword
a == <<97>>
b == <<from, 98>>
x == <<120>>                    \* values: a word in quotes, an empty one, a number
none == <<>>
string == <<210>>               \* a type
n42 == <<52, 50>>

\* What may be written around punctuation: as documented, nothing, everything.
Styles == {[comma |-> <<Space>>, around |-> <<>>], [comma |-> <<>>, around |-> <<>>],
           [comma |-> <<Space>>, around |-> <<Space>>]}
Sp == <<Space>>
Listed(items, style) ==
  FlattenSeq([i \in DOMAIN items |->
    items[i] \o IF i = Len(items) THEN <<>> ELSE style.around \o <<Comma>> \o style.comma])
Written(value) == IF value = n42 THEN value ELSE <<Quote>> \o value \o <<Quote>>
Paired(col, text, style) == col \o style.around \o <<Equal>> \o style.around \o text

Text_of(s, style) ==
  style.around \o
  (CASE s.type = "sel" -> <<sel>> \o Sp
          \o (IF s.columns = <<>> THEN <<Star>> ELSE Listed(s.columns, style))
          \o Sp \o <<from>> \o Sp \o s.table
          \o (IF s.cond = <<>> THEN <<>>
              ELSE Sp \o <<where>> \o Sp \o Paired(s.cond[1].col, Written(s.cond[1].val), style))
     [] s.type = "crt" -> <<crt>> \o Sp \o s.table \o Sp \o <<with>> \o Sp
          \o Listed([i \in DOMAIN s.columns |-> Paired(s.columns[i], string, style)], style)
     [] s.type = "add" -> <<add>> \o Sp
          \o Listed([i \in DOMAIN s.columns |-> Paired(s.columns[i], Written(s.values[i]), style)], style)
          \o Sp \o <<in>> \o Sp \o s.table) \o style.around
  
Where(cols) == {<<>>} \union {<<[col |-> c, val |-> v]>> : c \in cols, v \in {x, n42}}
Statement ==
  {Crt(t, cs) : cs \in {<<a>>, <<a, b>>}} \union {Crt(u, cs) : cs \in {<<a, b>>, <<a, a>>}}
  \union {Add(t, <<a>>, <<v>>) : v \in {x, n42}} \union {Add(t, <<b, a>>, vs) : vs \in {<<x, x>>, <<x, n42>>}}
  \union {Add(u, <<a, b>>, vs) : vs \in {<<x, n42>>, <<n42, x>>}} \union {Add(u, <<b>>, <<x>>)}
  \union {Sel(n, cs, c) : n \in {t, u}, cs \in {<<>>, <<b, a>>}, c \in Where({a, b})}
CatalogStatement ==
  {Sel(TABLES_word, <<>>, <<>>), Sel(COLUMNS_word, <<>>, <<>>), Sel(COLUMNS_word, <<NAMES_word>>, <<[col |-> NAMES_word, val |-> a]>>),
   Sel(TABLES_word, <<NAMES_word>>, <<[col |-> NAMES_word, val |-> t]>>)}

\* What adds rows to the tables of the catalog, and statements on such a table
AddedTable ==
  {Add(TABLES_word, <<NAMES_word>>, <<v>>) : v \in {x, t}} \union
  {Add(TABLES_word, <<NAMES_word, NAMES_word>>, <<x, t>>), Add(COLUMNS_word, <<NAMES_word>>, <<x>>),
   Add(COLUMNS_word, <<NAMES_word, NAMES_word>>, <<x, t>>), Add(x, <<a>>, <<x>>), Sel(x, <<>>, <<>>),
   Sel(x, <<a>>, <<[col |-> a, val |-> x]>>)}

Said(statements, style) ==
  [text |-> FlattenSeq([i \in DOMAIN statements |-> Text_of(statements[i], style) \o <<Semicolon>>]),
   says |-> statements]
Nothing(text, n) == [text |-> text, says |-> [i \in 1..n |-> Unknown]]

\* Lines that are no statements: no space after the type, no table, no equal sign,
\* a missing item, an identifier that is too long, a quote that is not closed, an
\* unknown type of instruction, a second equal sign, a star in a list, a word behind
\* a table that is no where, no semicolon.
NoStatement ==
  {Nothing(<<sel, Star, from>> \o t \o <<Semicolon>>, 1),
   Nothing(<<crt, Space, with, Space>> \o a \o <<Equal>> \o string \o <<Semicolon>>, 1),
   Nothing(<<add, Space>> \o a \o <<Space, in, Space>> \o t \o <<Semicolon>>, 1),
   Nothing(<<sel, Space>> \o a \o <<Comma, Comma>> \o b \o <<Space, from, Space>> \o t \o <<Semicolon>>, 1),
   Nothing(<<crt, Space>> \o t \o u \o <<Space, with, Space>> \o a \o <<Equal>> \o string \o <<Semicolon>>, 1),
   Nothing(<<add, Space>> \o a \o <<Equal, Quote>> \o x \o <<Space, in, Space>> \o t \o <<Semicolon>>, 1),
   Nothing(<<210, Space>> \o t \o <<Semicolon>>, 1),
   Nothing(<<crt, Space>> \o t \o <<Space, with, Space>> \o a \o <<Equal, Equal>> \o string \o <<Semicolon>>, 1),
   Nothing(<<sel, Space>> \o a \o <<Comma, Star, Space, from, Space>> \o t \o <<Semicolon>>, 1),
   Nothing(<<sel, Space, Star, Space, from, Space>> \o t \o Sp \o a \o <<Semicolon>>, 1),
   Nothing(<<crt, Space>> \o t \o <<Space, with, Space>> \o a \o <<Equal>> \o string, 0)}

\* Statements with a word behind them, which makes them no instructions by
\* query_format.md
Documented == [comma |-> Sp, around |-> <<>>]
Behind(s) == Text_of(s, Documented) \o Sp \o a \o <<Semicolon>>
WithWord == {Crt(t, <<a>>), Add(t, <<a>>, <<x>>), Sel(t, <<a>>, <<[col |-> a, val |-> x]>>)}

\* A type that is neither int nor string (query_format.md:24), and a value with a
\* semicolon, which query_format.md:19 allows
OtherType == <<crt, Space>> \o t \o <<Space, with, Space>> \o a \o <<Equal, 219, Semicolon>>
QuotedSemicolon == Said(<<Add(t, <<a>>, <<<<120, Semicolon, 120>>>>)>>, Documented)

Departing == {Nothing(Behind(s), 1) : s \in WithWord} \union {Nothing(OtherType, 1), QuotedSemicolon}
MCDepartures ==
  [text \in {Behind(s) : s \in WithWord} |-> <<CHOOSE s \in WithWord : Behind(s) = text>>]
  @@ (OtherType :> <<Crt(t, <<a>>)>>)
  @@ (QuotedSemicolon.text :> <<Unknown, Unknown>>)

MCLines ==
  {Said(<<s>>, style) : s \in Statement, style \in Styles}
  \union {Said(<<s>>, style) : s \in CatalogStatement \union AddedTable, style \in Styles}
  \union {Said(<<Add(t, <<a>>, <<none>>), Sel(t, <<a>>, <<[col |-> a, val |-> none]>>)>>, style) : style \in Styles}
  \union NoStatement \union Departing
=============================================================================
