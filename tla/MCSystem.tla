------------------------------ MODULE MCSystem ------------------------------
(***************************************************************************)
(* psqlxx on two lines: statements the server runs, rejects or commits,    *)
(* builtin commands, @conninfo, and a statement that takes both lines.     *)
(***************************************************************************)
EXTENDS System

L(ws) == [words |-> ws, toggles |-> FALSE, escaped |-> FALSE, short |-> FALSE]

MCLines ==
  {L(<<"insert">>), [L(<<"insert">>) EXCEPT !.escaped = TRUE], L(<<"bind">>),
   L(<<"@l">>), L(<<"@conninfo">>), [L(<<>>) EXCEPT !.short = TRUE]}

MCWords == {"insert", "bind", "@l", "@conninfo"}
MCElCommands == {"bind"}
NoHistory == {<<>>}

MCTexts == {<<"read">>, <<"write", "commit">>, <<"error">>}

MCArguments ==
  {[usage |-> "none", listDbs |-> FALSE, commands |-> <<>>, commandFile |-> "readable"]}

MCBases == {<<>>}
MCPasswords == {"new"}
MCInternalTexts == {}
=============================================================================
