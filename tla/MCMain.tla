------------------------------- MODULE MCMain -------------------------------
(***************************************************************************)
(* Command lines for Main: every way to start psqlxx, with up to two -c    *)
(* texts out of a read, a write that commits and a text that is rejected,  *)
(* which is what the server makes of the name of a command of psqlxx.      *)
(***************************************************************************)
EXTENDS Main

Rejected == <<"error">>
MCTexts == {<<"read">>, <<"write", "commit">>, Rejected}
MCBases == {<<ComposeDbParameter("", "dbname", "db")>>}
MCPasswords == {"new"}
MCInternalTexts == {Rejected}

Started(l, c, f) ==
  [usage |-> "none", listDbs |-> l, commands |-> c, commandFile |-> f]

UsageOnly == {[Started(FALSE, <<>>, "none") EXCEPT !.usage = u] :
                u \in {"invalid", "help", "version"}}

MCArguments ==
  UsageOnly \cup
  {Started(l, c, f) : l \in BOOLEAN, c \in BoundedSeq(MCTexts, 2), f \in {"none", "missing"}}

MCInternalArguments == {Started(FALSE, <<Rejected>>, "none")}
=============================================================================
