--------------------------- MODULE MCCommandGroup ---------------------------
(***************************************************************************)
(* Chains for CommandGroup: the two of the program, and all of up to three *)
(* declarations that can get into each other's way.                        *)
(***************************************************************************)
EXTENDS CommandGroup

\* The last three are not valid: a name, an argument, no action.
MCDeclarations ==
  {Declare(names, <<>>, "query") : names \in {<<>>, <<"">>, <<"a">>, <<"a", "b">>, <<"b", "">>, <<"c", "c">>}}
    \cup {Declare(<<"two words">>, <<>>, "query"), Declare(<<"c">>, <<"ARGS@">>, "query"),
          Declare(<<"c">>, <<>>, "")}

MCChains ==
  {createBuiltinCommandGroup, CreatePsqlxxCommandGroup} \cup BoundedSeq(MCDeclarations, 3)

MCElCommands == {"bind"}
=============================================================================
