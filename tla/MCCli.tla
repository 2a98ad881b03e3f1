------------------------------- MODULE MCCli -------------------------------
(***************************************************************************)
(* Small inputs for Cli: lines of every shape the loop tells apart.        *)
(***************************************************************************)
EXTENDS Cli

L(ws) == [words |-> ws, toggles |-> FALSE, escaped |-> FALSE, short |-> FALSE]

Empty  == [L(<<>>) EXCEPT !.short = TRUE]
Spaces == L(<<>>)
Select == L(<<"select">>)
Quote  == [L(<<"insert", "text">>) EXCEPT !.toggles = TRUE]
Escape == [L(<<"select">>) EXCEPT !.escaped = TRUE]
Bind   == L(<<"bind">>)
List   == L(<<"@l", "too", "many">>)
Exit   == L(<<"@q">>)
HelpG  == L(<<"help", "psqlxx">>)
HelpX  == L(<<"help", "select">>)
OneChar == [L(<<"x">>) EXCEPT !.short = TRUE]

MCWords == {"select", "insert", "text", "bind", "@l", "too", "many", "@q", "help",
            "psqlxx", "x"}
MCElCommands == {"bind"}
MCLines   == {Empty, Spaces, Select, Quote, Escape}
MCCommands == MCLines \cup {Bind, List, Exit, HelpG, HelpX, OneChar}
MCHistories == {<<>>, <<<<Select>>>>, <<<<Quote>>>>}
NoHistory == {<<>>}
=============================================================================
