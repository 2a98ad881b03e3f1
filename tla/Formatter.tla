----------------------------- MODULE Formatter -----------------------------
(***************************************************************************)
(* How a result is printed (formatter.cpp): PrintResult, from title to     *)
(* summary, in aligned, unaligned and CSV mode.                            *)
(*                                                                         *)
(* A field is a sequence of characters: the blank, the quote, the comma,   *)
(* the newline (which stands for the carriage return too), the characters  *)
(* of the rules, and any others, which are all alike; a character is what  *)
(* the code measures widths in, a byte.  The wording of the summary is     *)
(* left out.                                                               *)
(***************************************************************************)
EXTENDS Integers, FiniteSetsExt, SequencesExt

CONSTANTS
  Characters,    \* what fields, names and separators are made of
  Results,       \* the results that may be printed
  Separators     \* what -F may be given

VARIABLES
  pc,            \* what is printed next
  result,        \* a_result: column names, column types, rows
  title,         \* "" or something
  options,       \* FormatterOptions
  typeMap,       \* whether the type map was filled
  row,           \* rows printed
  out            \* what each step printed, its newline included

given == <<result, title, options, typeMap>>
vars  == <<pc, given, row, out>>

Blank == " "
Comma == ","
Quote == "quote"
Newline == "newline"
Title == <<"t">>

Text == Seq(Characters)

ASSUME CharactersAssumption ==
  {Blank, Quote, Newline, Comma, "-", "+", "t", "summary"} \subseteq Characters

\* A result of libpqxx has a name and a type for every column, and a field in every row.
ASSUME ResultsAssumption ==
  /\ Separators \subseteq Text
  /\ \A r \in Results :
       /\ r.names \in Seq(Text) /\ DOMAIN r.types = DOMAIN r.names /\ r.rows \in Seq(Seq(Text))
       /\ \A k \in DOMAIN r.rows : Len(r.rows[k]) = Len(r.names)

Columns == 1..Len(result.names)
-----------------------------------------------------------------------------
HandleFormatOptions(csv, noAlign, separator) ==
  IF csv
    THEN [delimiter |-> <<Comma>>, special |-> {Comma, Newline},
          titleAndSummary |-> FALSE, noAlign |-> TRUE]
    ELSE [delimiter |-> separator, special |-> {},
          titleAndSummary |-> TRUE, noAlign |-> noAlign]

Repeat(char, size) == [i \in 1..size |-> char]

printStrInCenter(field, width) ==
  LET padding == width - Len(field)
      half    == Repeat(Blank, padding \div 2)
  IN  half \o field \o half \o (IF padding > 0 /\ padding % 2 # 0 THEN <<Blank>> ELSE <<>>)

Padding(field, width) == Repeat(Blank, width - Len(field) - 1)

Margin(field, width) == IF Padding(field, width) # <<>> THEN <<Blank>> ELSE <<>>

printStrLeft(field, width) == Margin(field, width) \o field \o Padding(field, width)

printStrRight(field, width) == Padding(field, width) \o field \o Margin(field, width)

NeedsQuoteForDelimiter(field, special) == Comma \in special /\ Contains(field, Comma)    \* mutant

NeedsQuote(field, special) == \E char \in special : Contains(field, char)

printField(field, special, info) ==
  LET text  == IF info.isNumeric THEN printStrRight(field, info.width)
                                 ELSE printStrLeft(field, info.width)
      quote == IF NeedsQuote(field, special) THEN <<Quote>> ELSE <<>>
  IN  quote \o text \o quote

isNumeric(type) == typeMap /\ type = "numeric"    \* one of numeric_type_names

\* mutant: the column names are not measured
WidthOfRows(i) == Max({0} \cup {Len(result.rows[k][i]) : k \in DOMAIN result.rows})

Width(i) ==
  Max({Len(result.names[i])} \cup {Len(result.rows[k][i]) : k \in DOMAIN result.rows})

getColumnInfos ==
  [i \in Columns |-> [isNumeric |-> isNumeric(result.types[i]),
                      width     |-> IF options.noAlign THEN 0 ELSE Width(i) + 2]]

\* The cells of a line with a separator between two of them.
Line(cells, separator) ==
  FlattenSeq([i \in 1..2 * Len(cells) - 1 |->
                IF i % 2 = 1 THEN cells[(i + 1) \div 2] ELSE separator])

printHeaders ==
  Line([i \in Columns |-> printStrInCenter(result.names[i], getColumnInfos[i].width)],
       options.delimiter)

printFieldBars ==
  Line([i \in Columns |-> Repeat("-", getColumnInfos[i].width)], <<"+">>)

printRow(fields) ==
  Line([i \in Columns |-> printField(fields[i], options.special, getColumnInfos[i])],
       options.delimiter)

TotalWidth(infos) == FoldLeft(LAMBDA sum, info : sum + info.width, 0, infos)
-----------------------------------------------------------------------------
Init ==
  /\ pc = "title"
  /\ result \in Results /\ title \in BOOLEAN /\ typeMap \in BOOLEAN
  /\ \E csv, noAlign \in BOOLEAN, separator \in Separators :
       options = HandleFormatOptions(csv, noAlign, separator)
  /\ row = 0 /\ out = <<>>

Put(line) == out' = Append(out, Append(line, Newline))

\* A result without columns prints nothing at all.
PrintTitle ==
  /\ pc = "title"
  /\ pc' = IF Columns = {} THEN "done" ELSE "headers"
  /\ IF Columns # {} /\ options.titleAndSummary /\ title
       THEN Put(printStrInCenter(Title, TotalWidth(getColumnInfos))) ELSE UNCHANGED out
  /\ UNCHANGED <<given, row>>

PrintHeaders ==
  /\ pc = "headers"
  /\ Put(printHeaders)
  /\ pc' = IF options.noAlign THEN "rows" ELSE "bars"
  /\ UNCHANGED <<given, row>>

PrintBars ==
  /\ pc = "bars"
  /\ Put(printFieldBars)
  /\ pc' = "rows"
  /\ UNCHANGED <<given, row>>

PrintRow ==
  /\ pc = "rows" /\ row < Len(result.rows)
  /\ row' = row + 1
  /\ Put(printRow(result.rows[row']))
  /\ UNCHANGED <<given, pc>>

PrintSummary ==
  /\ pc = "rows" /\ row = Len(result.rows)
  /\ out' = out \o (IF options.titleAndSummary THEN <<<<"summary", Newline>>>> ELSE <<>>)
                \o (IF options.noAlign THEN <<>> ELSE <<<<Newline>>>>)
  /\ pc' = "done"
  /\ UNCHANGED <<given, row>>

Done == pc = "done" /\ UNCHANGED vars

Next == PrintTitle \/ PrintHeaders \/ PrintBars \/ PrintRow \/ PrintSummary \/ Done

Spec == Init /\ [][Next]_vars
-----------------------------------------------------------------------------
(***************************************************************************)
(* A reader of CSV files (RFC 4180): fields between commas, records between *)
(* newlines, either of them inside a field that begins and ends with a     *)
(* quote, in which a quote is written twice.                               *)
(***************************************************************************)
CsvBegun == [records |-> <<>>, record |-> <<>>, field |-> <<>>, quote |-> "unquoted"]

ReadChar(r, char) ==
  CASE r.quote # "open" /\ char = Comma ->
         [r EXCEPT !.record = Append(@, r.field), !.field = <<>>, !.quote = "unquoted"]
    [] r.quote # "open" /\ char = Newline ->
         [CsvBegun EXCEPT !.records = Append(r.records, Append(r.record, r.field))]
    [] r.quote = "open" /\ char = Quote ->
         [r EXCEPT !.quote = "closed"]
    [] r.quote = "closed" /\ char = Quote ->
         [r EXCEPT !.field = Append(@, Quote), !.quote = "open"]
    [] r.quote = "unquoted" /\ char = Quote /\ r.field = <<>> ->
         [r EXCEPT !.quote = "open"]
    [] OTHER ->
         [r EXCEPT !.field = Append(@, char)]

ReadCsv(text) == FoldLeft(ReadChar, CsvBegun, text).records

Printed == FlattenSeq(out)

IsCsv == options.special # {}

ReadsBack ==
  ReadCsv(Printed) = IF Columns = {} THEN <<>> ELSE <<result.names>> \o result.rows

PlainName(name) == {Comma, Newline, Quote} \cap ToSet(name) = {}

(***************************************************************************)
(* What the CSV mode prints is read back by a CSV reader as the table it   *)
(* was, whatever commas and newlines the fields hold; as long as no field  *)
(* holds a quote and the column names hold none of the three.              *)
(***************************************************************************)
CsvReadsBack ==
  /\ pc = "done" /\ IsCsv
  /\ \A i \in Columns : PlainName(result.names[i])
  /\ \A k \in DOMAIN result.rows, i \in Columns : ~Contains(result.rows[k][i], Quote)
  => ReadsBack

(***************************************************************************)
(* --csv is the "CSV (Comma-Separated Values) table output mode" of its    *)
(* help text (formatter.cpp:147), whatever the fields hold.                *)
(***************************************************************************)
CsvModeIsCsv == pc = "done" /\ IsCsv => ReadsBack

\* What stands between the i-th and the next of some places in a text.
Between(text, places, i) ==
  LET from == CHOOSE k \in places : Cardinality({j \in places : j < k}) = i - 1
      to   == Min({k \in places : k > from})
  IN  SubSeq(text, from + 1, to - 1)

LineEnds(text) == {0} \cup {k \in DOMAIN text : text[k] = Newline}

\* A line of the text printed, wherever its newlines come from.
PrintedLine(i) == Between(Printed, LineEnds(Printed), i)

\* A line cut into its cells where the bar has its crosses.
Cell(line, bar, i) ==
  Between(line, {0, Len(bar) + 1} \cup {k \in DOMAIN bar : bar[k] = "+"}, i)

\* A cell that holds the field and nothing but blanks around it.
Shows(cell, field) ==
  \E before \in 0..Len(cell) - Len(field) :
    cell = Repeat(Blank, before) \o field \o Repeat(Blank, Len(cell) - Len(field) - before)

Aligned == ~options.noAlign /\ Len(options.delimiter) = 1

\* No name, no field and no separator goes on in the next line.
OneLineEach ==
  /\ ~Contains(options.delimiter, Newline)
  /\ \A i \in Columns :
       /\ ~Contains(result.names[i], Newline)
       /\ \A k \in DOMAIN result.rows : ~Contains(result.rows[k][i], Newline)

(***************************************************************************)
(* In an aligned table the lines of the header, the bar and the rows are   *)
(* equally long and their columns stand under each other, so that every    *)
(* field can be read off, even one that holds the separator, with or       *)
(* without a type map to align it by.  For a separator of one character,   *)
(* as the default is, and as long as no field holds a newline: one that    *)
(* does (as the access privileges of list-dbs, db.cpp:56, may) is written   *)
(* as it is and breaks its row in two (formatter.cpp:199-207).             *)
(***************************************************************************)
ColumnsLineUp ==
  pc = "done" /\ Aligned /\ Columns # {} /\ OneLineEach =>
    LET first   == IF title THEN 2 ELSE 1
        header  == PrintedLine(first)
        bar     == PrintedLine(first + 1)
        line(k) == PrintedLine(first + 1 + k)
    IN  /\ Len(header) = Len(bar)
        /\ \A i \in Columns : Shows(Cell(header, bar, i), result.names[i])
        /\ \A k \in DOMAIN result.rows :
             /\ Len(line(k)) = Len(bar)
             /\ \A i \in Columns : Shows(Cell(line(k), bar, i), result.rows[k][i])
=============================================================================
