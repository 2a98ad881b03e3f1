---------------------------- MODULE MCFormatter ----------------------------
(***************************************************************************)
(* Results of up to two columns and two rows for Formatter.                *)
(***************************************************************************)
EXTENDS Formatter

Tables(names, fields, columns, rows) ==
  UNION {[names : [1..c -> names], types : [1..c -> {"numeric", "text"}],
          rows : [1..r -> [1..c -> fields]]] : c \in columns, r \in rows}

MCCharacters == {Blank, Quote, Newline, Comma, "-", "+", "|", "t", "summary", "n", "a"}

MCNames  == {<<"n">>, <<"n", "n", "n", "n">>}
MCFields == {<<>>, <<"a", Comma, "a">>, <<Newline, "a">>, <<Blank, "|">>}

MCResults    == Tables(MCNames, MCFields, 0..2, {0, 2})
MCSeparators == {<<"|">>}

QuoteResults == Tables({<<"n">>}, {<<Quote>>, <<"a">>}, {1}, 0..1)
=============================================================================
