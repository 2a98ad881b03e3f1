------------------------------- MODULE Main -------------------------------
(***************************************************************************)
(* The program: main (main.cpp) handles the command-line arguments, makes  *)
(* the DbProxy and then does one of three things with it: list the         *)
(* databases, run the texts of the -c options, or run the command line on  *)
(* the -f file or the terminal.  DbProxy is taken in whole, step by step;  *)
(* of the command line only that it asks for texts to be run and returns   *)
(* one result or the other (Cli has the rest).                             *)
(***************************************************************************)
EXTENDS DbProxy

CONSTANTS
  Arguments,       \* the command lines psqlxx may be started with
  InternalTexts    \* the texts that name a command of psqlxx, such as @l

ListDbsSql == <<"read">>

ASSUME ArgumentsAssumption ==
  /\ Arguments \subseteq [usage       : {"none", "invalid", "help", "version"},
                          listDbs     : BOOLEAN,
                          commands    : Seq(Texts),
                          commandFile : {"none", "missing", "readable"}]
  /\ \A a \in Arguments : Len(a.commands) <= MaxCommands
  /\ InternalTexts \subseteq Texts
  /\ ListDbsSql \in Texts

VARIABLES
  at,          \* where main is
  args,        \* the parsed options
  exitCode     \* "none" until the program ends

program == <<at, args, exitCode>>
allVars == <<program, vars>>

Exit(code) == at' = "exit" /\ exitCode' = code /\ UNCHANGED args

toExitCode(success) == IF success THEN "success" ELSE "failure"

Goto(place) == at' = place /\ UNCHANGED <<args, exitCode>>

MainInit ==
  /\ Init
  /\ at = "options" /\ args \in Arguments /\ exitCode = "none"

ParseOptions == args.usage # "invalid"    \* has a value: cxxopts threw nothing

HandleBaseOptions == args.usage \in {"help", "version"} /\ Exit("success")

HandleDbProxyOptions == args.usage = "none" /\ Goto("proxy")

\* An error, --help and --version end the program at once.
handleOptions ==
  /\ at = "options"
  /\ \/ ~ParseOptions /\ Exit("failure")
     \/ ParseOptions /\ (HandleBaseOptions \/ HandleDbProxyOptions)
  /\ UNCHANGED vars

\* A step of DbProxy, in its constructor, operator bool or DoTransaction.
ProxyStep == at \notin {"options", "exit"} /\ Client /\ UNCHANGED program

ProxyFailed ==
  /\ at = "proxy"
  /\ \/ pc = "exit_failure" /\ Exit("failure")
     \/ pc = "thrown" /\ Exit("terminated")    \* std::terminate
  /\ UNCHANGED vars

\* -l wins over -c, and -c over -f.
ChooseMode ==
  /\ at = "proxy" /\ pc = "idle"
  /\ Goto(IF args.listDbs THEN "list"
          ELSE IF args.commands # <<>> THEN "commands" ELSE "file")
  /\ UNCHANGED vars

asked == Len(answers) - 1    \* texts asked for and answered; the first was initTypeMap's

ListDbs ==
  /\ at = "list" /\ pc = "idle"
  /\ \/ asked = 0 /\ RequestText(ListDbsSql) /\ UNCHANGED program
     \/ asked = 1 /\ Exit(toExitCode(Last(answers))) /\ UNCHANGED vars

FailedNever == FALSE    \* mutant: the result is not looked at

Failed == asked > 0 /\ ~Last(answers)

\* The loop over the -c texts.
CommandLoop ==
  /\ at = "commands" /\ pc = "idle"
  /\ \/ Failed /\ Exit("failure") /\ UNCHANGED vars
     \/ ~Failed /\ asked < Len(args.commands)
        /\ RequestText(args.commands[asked + 1]) /\ UNCHANGED program
     \/ ~Failed /\ asked = Len(args.commands) /\ Exit("success") /\ UNCHANGED vars

OpenCommandFile ==
  /\ at = "file"
  /\ IF args.commandFile = "missing" THEN Exit("failure") ELSE Goto("cli")
  /\ UNCHANGED vars

\* Cli::Run has the texts of some statements run, prints, and returns.
CliRuns == at = "cli" /\ (Request \/ PrintConnectionInfo) /\ UNCHANGED program

CliReturns ==
  /\ at = "cli" /\ pc = "idle"
  /\ \E success \in BOOLEAN : Exit(toExitCode(success))
  /\ UNCHANGED vars

MainStep ==
  \/ handleOptions \/ ProxyStep \/ ProxyFailed \/ ChooseMode \/ ListDbs
  \/ CommandLoop \/ OpenCommandFile \/ CliReturns

Exited == at = "exit" /\ UNCHANGED allVars

MainNext ==
  \/ MainStep
  \/ CliRuns
  \/ at # "exit" /\ Drop /\ UNCHANGED program
  \/ Exited

MainSpec == MainInit /\ [][MainNext]_allVars

\* The program is scheduled, the user answers a prompt, libpq returns, and the
\* input of the command line ends.
MainFairSpec == MainSpec /\ WF_allVars(MainStep)
-----------------------------------------------------------------------------
(***************************************************************************)
(* The variables stay in their sets, the program has an exit code once it  *)
(* has ended, and nothing but a DbProxy that was connected and has its     *)
(* output is ever used.                                                    *)
(***************************************************************************)
MainTypeOK ==
  /\ at \in {"options", "proxy", "list", "commands", "file", "cli", "exit"}
  /\ args \in Arguments
  /\ exitCode \in {"none", "success", "failure", "terminated"}
  /\ exitCode = "none" <=> at # "exit"
  /\ at \in {"list", "commands", "file", "cli"} =>
       connection # "none" /\ out # "failed"

Batch == IF args.listDbs THEN <<ListDbsSql>> ELSE args.commands

(***************************************************************************)
(* psqlxx -l or -c exits with success only if the server ran every text    *)
(* asked for, once, each to its end, whatever became of the connection in  *)
(* the meantime and whether or not the type map could be read.             *)
(***************************************************************************)
ExitStatusHonest ==
  at = "exit" /\ args.usage = "none" /\ Batch # <<>> /\ exitCode = "success" =>
    \A k \in 1..Len(Batch) : runs[k] = 1 /\ ~Contains(Batch[k], "error")

(***************************************************************************)
(* After a -c text that failed nothing more is run (main.cpp:77-81); a     *)
(* failure to read the type map does not count.                            *)
(***************************************************************************)
NothingAfterFailure ==
  [][at = "commands" /\ runs' # runs => \A k \in 2..Len(answers) : answers[k]]_allVars

(***************************************************************************)
(* psqlxx ends: no command line, no failure and no lost connection leaves  *)
(* it waiting, once the input of its command line has ended.               *)
(***************************************************************************)
ProgramEnds == <>(at = "exit")

(***************************************************************************)
(* What -c runs is "SQL or internal" (db.cpp:267): the name of a command   *)
(* of psqlxx is not sent to the server.                                    *)
(***************************************************************************)
InternalCommandsAreRun ==
  [][at = "commands" /\ runs' # runs /\ command.id # 0 =>
       command.text \notin InternalTexts]_allVars
=============================================================================
