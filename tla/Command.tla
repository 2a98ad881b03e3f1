------------------------------ MODULE Command ------------------------------
(***************************************************************************)
(* How psqlxx finds the command a statement names (command.cpp), and the   *)
(* two command groups the program registers, in the order Cli::Run asks    *)
(* them (cli.cpp, db.cpp).  A statement is the non-empty sequence of its   *)
(* words; what a command prints is left out, which of the four             *)
(* CommandResults it can return is kept.                                   *)
(***************************************************************************)
EXTENDS Naturals, Sequences

CONSTANT ElCommands    \* the words el_parse(3) runs itself: bind, echotc, ...

CommandResults == {"exit", "success", "failure", "unknown"}

ToCommandResult == {"success", "failure"}    \* of a bool the model leaves open

(***************************************************************************)
(* A command with a fixed list of optional arguments, and one that is      *)
(* declared with VARIADIC_ARGUMENT.                                        *)
(***************************************************************************)
Fixed(arguments, action) ==
  [arguments |-> arguments, variadic |-> FALSE, action |-> action]

Variadic(action) == [arguments |-> 1, variadic |-> TRUE, action |-> action]

BuiltinGroup ==
  [name      |-> "builtin",
   named     |-> [word \in {"quit", "exit", "@q", "help"} |->
                    IF word = "help" THEN Fixed(1, "help") ELSE Fixed(0, "quit")],
   anonymous |-> {Variadic("el_parse")}]

PsqlxxGroup ==
  [name      |-> "psqlxx",
   named     |-> [word \in {"@l", "@du", "@dn", "@conninfo"} |->
                    Fixed(0, IF word = "@conninfo" THEN "conninfo" ELSE "query")],
   anonymous |-> {Variadic("sql")}]

CommandGroups == <<BuiltinGroup, PsqlxxGroup>>

HelpGroups(name) ==
  IF name = "" \/ \E g \in 1..Len(CommandGroups) : CommandGroups[g].name = name
    THEN {"success"} ELSE {"failure"}

help(words) == IF Len(words) = 2 THEN HelpGroups(words[2]) ELSE {"success"}

doEditlineBuiltinCommands(words) ==
  IF words[1] \in ElCommands THEN ToCommandResult ELSE {"unknown"}

ActionResults(action, words) ==
  CASE action = "quit"     -> {"exit"}
    [] action = "help"     -> help(words)
    [] action = "el_parse" -> doEditlineBuiltinCommands(words)
    [] OTHER               -> ToCommandResult

\* Command::operator(): the argument count is checked before the action runs.
TooManyArguments(command, words) ==
  ~command.variadic /\ Len(words) - 1 > command.arguments

CallCommand(command, words) ==
  IF TooManyArguments(command, words) THEN {"failure"}
                                      ELSE ActionResults(command.action, words)

\* CommandGroup::operator(): a name wins over the anonymous command.
CommandFor(group, words) ==
  IF words[1] \in DOMAIN group.named THEN {group.named[words[1]]} ELSE group.anonymous

CallGroup(group, words) ==
  IF CommandFor(group, words) = {} THEN {"unknown"}
  ELSE UNION {CallCommand(command, words) : command \in CommandFor(group, words)}
=============================================================================
