------------------------------ MODULE DbProxy ------------------------------
(***************************************************************************)
(* The connection of psqlxx to its server (db.cpp): how it is made, with   *)
(* at most one retry, and how every SQL text - of the command line, of     *)
(* option -c, of a listing command - runs in a transaction of its own      *)
(* (DbProxy::DoTransaction), while the server or the network may drop the  *)
(* connection at any step.                                                 *)
(*                                                                         *)
(* A text is a sequence of statements, each of them one of "read",         *)
(* "write", "begin", "commit", "rollback" and "error" (one the server      *)
(* rejects).                                                               *)
(* Ghost variables: denied, attempts, runs, answers.                       *)
(***************************************************************************)
EXTENDS ConnectionString, FiniteSets

CONSTANTS
  Texts,          \* the SQL texts that may be requested
  Bases,          \* the connection strings that may be given
  Passwords,      \* the passwords that may be typed
  MaxCommands     \* bound: texts requested

Statements == {"read", "write", "begin", "commit", "rollback", "error"}

ASSUME TextsAssumption ==
  Texts \subseteq Seq(Statements) /\ MaxCommands \in Nat \ {0}

ASSUME BasesAssumption ==
  Bases \subseteq Seq(Parameter) /\ (\A base \in Bases : WellFormed(base)) /\ Passwords \subseteq STRING

VARIABLES
  pc,             \* where the one thread is
  options,        \* prompt_for_password, base_connection_string, out_file is given
  originalTried,  \* original_tried of makeConnection
  dsn,            \* the connection string of the attempt under way
  connection,     \* m_connection: none, open, or a dead one it still holds
  typeMap,        \* m_pg_type_map has been filled
  out,            \* where m_out writes
  good,           \* m_out has had no write error
  printed,        \* commands whose results m_out has taken whole
  command,        \* the text under way, numbered; 0 is the query of initTypeMap
  result,         \* what DoTransaction is about to return
  session,        \* server: the open transaction
  db,             \* server: the commands whose writes are committed
  denied,         \* the last attempt failed with "no password supplied"
  attempts,       \* connection attempts; prompts: passwords asked for
  runs,           \* how often the server ran each command
  answers         \* what each finished command returned

making  == <<options, originalTried, dsn, denied, attempts>>
writing == <<out, good, printed>>
server  == <<session, db, runs>>
vars    == <<pc, making, connection, typeMap, writing, command, result, server, answers>>

Commands == 0..MaxCommands
-----------------------------------------------------------------------------
(***************************************************************************)
(* PostgreSQL, as libpqxx uses it: a text of several statements runs up to *)
(* its first error.  BEGIN takes what the text did before it into the      *)
(* block, COMMIT and ROLLBACK end the block; what the text leaves outside  *)
(* a block at its end is committed.                                        *)
(***************************************************************************)
NoSession == [block |-> FALSE, pending |-> {}]

RunText(s, d, id, text) ==
  LET step(r, statement) ==
        IF r.error THEN r
        ELSE CASE statement = "read"     -> r
               [] statement = "write"    -> [r EXCEPT !.pending = @ \cup {id}]
               [] statement = "begin"    -> [r EXCEPT !.block = TRUE]
               [] statement = "commit"   -> [r EXCEPT !.block = FALSE, !.pending = {},
                                                      !.db = @ \cup r.pending]
               [] statement = "rollback" -> [r EXCEPT !.block = FALSE, !.pending = {}]
               [] statement = "error"    -> [r EXCEPT !.error = TRUE, !.pending = {}]
      end == FoldLeft(step, [block |-> s.block, pending |-> s.pending,
                             db |-> d, error |-> FALSE], text)
  IN  IF end.block THEN end
      ELSE [end EXCEPT !.db = @ \cup end.pending, !.pending = {}]

TypeQuery == <<"read">>    \* select typname, oid from pg_type
-----------------------------------------------------------------------------
Init ==
  /\ pc = "make"
  /\ options \in [prompt : BOOLEAN, base : Bases, outFile : BOOLEAN] /\ dsn = <<>>
  /\ originalTried = FALSE /\ denied = FALSE /\ attempts = [all |-> 0, prompts |-> 0]
  /\ connection = "none" /\ typeMap = FALSE
  /\ out = "stdout" /\ good = TRUE /\ printed = {}
  /\ command = [id |-> 0, text |-> TypeQuery] /\ result = FALSE
  /\ session = NoSession /\ db = {}
  /\ runs = [c \in Commands |-> 0] /\ answers = <<>>

PromptAllowedAlways == originalTried    \* mutant: --no-password is not looked at

PromptAllowed == originalTried /\ options.prompt

\* makeConnection: the loop body up to the attempt.
MakeConnection ==
  /\ pc = "make"
  /\ IF PromptAllowed THEN pc' = "prompt" /\ UNCHANGED dsn
                      ELSE pc' = "attempt" /\ dsn' = options.base
  /\ UNCHANGED <<options, originalTried, denied, attempts, connection, typeMap, writing,
                 command, result, server, answers>>

\* getpass: it returns a password, empty or not, or has no terminal to ask on,
\* in which case the null pointer makes std::string throw out of the constructor.
Prompt ==
  /\ pc = "prompt"
  /\ attempts' = [attempts EXCEPT !.prompts = @ + 1]
  /\ \/ pc' = "attempt" /\ \E password \in Passwords :
                              dsn' = overridePassword(options.base, password)
     \/ pc' = "thrown" /\ UNCHANGED dsn
  /\ UNCHANGED <<options, originalTried, denied, connection, typeMap, writing, command,
                 result, server, answers>>

Attempt == attempts' = [attempts EXCEPT !.all = IF @ < 3 THEN @ + 1 ELSE @]    \* counted up to 3

Connected ==
  /\ pc = "attempt" /\ Attempt
  /\ connection' = "open" /\ dsn' = <<>>
  /\ pc' = "begin"    \* of initTypeMap
  /\ UNCHANGED <<options, originalTried, denied, typeMap, writing, command, result,
                 server, answers>>

\* mutant: original_tried is never set.
BrokenForever ==
  /\ pc = "attempt" /\ Attempt /\ dsn' = <<>>
  /\ \E noPassword \in BOOLEAN :
       /\ denied' = noPassword
       /\ pc' = IF noPassword THEN "make" ELSE "open_out"
  /\ UNCHANGED <<options, originalTried, connection, typeMap, writing, command, result,
                 server, answers>>

\* broken_connection: tried again once, and only for want of a password.
Broken ==
  /\ pc = "attempt" /\ Attempt /\ dsn' = <<>>
  /\ \E noPassword \in BOOLEAN :
       /\ denied' = noPassword
       /\ IF originalTried \/ ~noPassword
            THEN pc' = "open_out" /\ UNCHANGED originalTried
            ELSE pc' = "make" /\ originalTried' = TRUE
  /\ UNCHANGED <<options, connection, typeMap, writing, command, result, server, answers>>

\* Any other exception leaves makeConnection and the constructor.
Thrown ==
  /\ pc = "attempt" /\ Attempt
  /\ pc' = "thrown"
  /\ UNCHANGED <<options, originalTried, dsn, denied, connection, typeMap, writing, command,
                 result, server, answers>>

\* The rest of the constructor: the out file is opened, connection or not.
OpenOut ==
  /\ pc = "open_out"
  /\ out' \in IF options.outFile THEN {"file", "failed"} ELSE {"stdout"}
  /\ pc' = "check"
  /\ UNCHANGED <<good, printed, making, connection, typeMap, command, result, server, answers>>

UsableConnected == connection # "none"    \* mutant: the out file is not looked at

\* operator bool, asked once by main.
Usable == connection # "none" /\ out # "failed"

Check ==
  /\ pc = "check"
  /\ pc' = IF Usable THEN "idle" ELSE "exit_failure"
  /\ UNCHANGED <<making, connection, typeMap, writing, command, result, server, answers>>

\* Main, the command line or a listing command asks for a text to be run.
RequestText(text) ==
  /\ pc = "idle" /\ Len(answers) <= MaxCommands
  /\ command' = [id |-> Len(answers), text |-> text]
  /\ pc' = "begin"
  /\ UNCHANGED <<making, connection, typeMap, writing, result, server, answers>>

Request == \E text \in Texts : RequestText(text)

\* mutant: the transaction is begun again until the server is back.
BeginInsists ==
  /\ pc = "begin" /\ connection = "open"
  /\ pc' = "exec" /\ session' = [session EXCEPT !.block = TRUE]
  /\ UNCHANGED <<making, connection, typeMap, writing, command, result, db, runs, answers>>

\* The constructor of pqxx::work sends BEGIN.
Begin ==
  /\ pc = "begin"
  /\ IF connection = "open"
       THEN pc' = "exec" /\ session' = [session EXCEPT !.block = TRUE] /\ UNCHANGED result
       ELSE pc' = "return" /\ result' = FALSE /\ UNCHANGED session
  /\ UNCHANGED <<making, connection, typeMap, writing, command, db, runs, answers>>

\* The server runs the text of the command.
Executed ==
  LET end == RunText(session, db, command.id, command.text)
  IN  /\ db' = end.db
      /\ session' = [block |-> end.block, pending |-> end.pending]
      /\ runs' = [runs EXCEPT ![command.id] = @ + 1]
      /\ IF end.error THEN pc' = "abort" /\ result' = FALSE
                      ELSE pc' = "handle" /\ UNCHANGED result

Exec ==
  /\ pc = "exec" /\ connection = "open"
  /\ Executed
  /\ UNCHANGED <<making, connection, typeMap, writing, command, answers>>

\* mutants: perform runs the callback again on a new connection; the result of an
\* earlier command is returned.
PerformedAgain == connection' = "open" /\ pc' = "begin" /\ UNCHANGED result
StaleResult    == connection' = "lost" /\ pc' = "abort" /\ UNCHANGED result

\* The exception is caught inside the callback: perform sees it return false.
AfterBrokenConnection == connection' = "lost" /\ pc' = "abort" /\ result' = FALSE

\* The connection is found broken, either by sending the text or, once the server
\* has run it, by waiting for its answer.
ExecFailed ==
  /\ pc = "exec"
  /\ \/ connection # "open" /\ UNCHANGED server
     \/ /\ connection = "open"
        /\ LET end == RunText(session, db, command.id, command.text)
           IN  db' = end.db
        /\ session' = NoSession
        /\ runs' = [runs EXCEPT ![command.id] = @ + 1]
  /\ AfterBrokenConnection
  /\ UNCHANGED <<making, typeMap, writing, command, answers>>

\* mutant: the write error is cleared with each result.
WriteAnyhow ==
  \E ok \in BOOLEAN : good' = ok /\ printed' = IF ok THEN printed \cup {command.id} ELSE printed

\* PrintResult to m_out: the first write error, a full disk, loses the rest of the
\* result and everything after it, without an exception.
Write ==
  \E ok \in BOOLEAN :
    /\ good' = (good /\ ok)
    /\ printed' = IF good' THEN printed \cup {command.id} ELSE printed

\* The result handler fills the type map or prints; either may throw.
Handle ==
  /\ pc = "handle"
  /\ result' \in BOOLEAN
  /\ typeMap' = (typeMap \/ (command.id = 0 /\ result'))
  /\ IF command.id # 0 /\ result' THEN Write ELSE UNCHANGED <<good, printed>>
  /\ pc' = "abort"
  /\ UNCHANGED <<making, connection, out, command, server, answers>>

Kept == UNCHANGED session    \* mutant: the transaction is left open

RolledBack == session' = NoSession

\* The destructor of pqxx::work, never committed, sends ROLLBACK.
Abort ==
  /\ pc = "abort"
  /\ RolledBack
  /\ pc' = "return"
  /\ UNCHANGED <<making, connection, typeMap, writing, command, result, db, runs, answers>>

\* DoTransaction returns: to the constructor the first time, then to its caller.
Return ==
  /\ pc = "return"
  /\ answers' = Append(answers, result)
  /\ pc' = IF command.id = 0 THEN "open_out" ELSE "idle"
  /\ UNCHANGED <<making, connection, typeMap, writing, command, result, server>>

\* The server goes away between two steps; it aborts what was open.
Drop ==
  /\ connection = "open"
  /\ connection' = "lost"
  /\ session' = NoSession
  /\ UNCHANGED <<pc, making, typeMap, writing, command, result, db, runs, answers>>

\* What it prints is no result of a text, but may meet the write error.  libpq
\* still has the names of a connection that is lost.
PrintConnectionInfo ==
  /\ pc = "idle" /\ connection # "none"
  /\ good' \in {good, FALSE}
  /\ UNCHANGED <<pc, making, connection, typeMap, out, printed, command, result, server, answers>>

Client ==
  \/ MakeConnection \/ Prompt \/ Connected \/ Broken \/ Thrown \/ OpenOut \/ Check
  \/ Begin \/ Exec \/ ExecFailed \/ Handle \/ Abort \/ Return

\* The constructor has failed, or the caller asks for nothing more.
Stopped ==
  /\ pc \in {"exit_failure", "thrown"} \/ (pc = "idle" /\ Len(answers) > MaxCommands)
  /\ UNCHANGED vars

Next == Client \/ Request \/ PrintConnectionInfo \/ Drop \/ Stopped

Spec == Init /\ [][Next]_vars
-----------------------------------------------------------------------------
(***************************************************************************)
(* The variables stay in their sets; makeConnection, a loop without a      *)
(* condition, makes at most two attempts and asks for at most one password.*)
(***************************************************************************)
TypeOK ==
  /\ pc \in {"make", "prompt", "attempt", "begin", "exec", "handle", "abort", "return",
             "open_out", "check", "idle", "exit_failure", "thrown"}
  /\ options \in [prompt : BOOLEAN, base : Bases, outFile : BOOLEAN]
  /\ dsn \in Seq(Parameter) /\ originalTried \in BOOLEAN /\ denied \in BOOLEAN
  /\ attempts \in [all : 0..2, prompts : 0..1]
  /\ connection \in {"none", "open", "lost"}
  /\ typeMap \in BOOLEAN /\ out \in {"stdout", "file", "failed"}
  /\ good \in BOOLEAN /\ printed \subseteq Commands
  /\ command \in [id : Commands, text : Seq(Statements)]
  /\ result \in BOOLEAN
  /\ session \in [block : BOOLEAN, pending : SUBSET Commands]
  /\ db \subseteq Commands
  /\ runs \in [Commands -> Nat]
  /\ answers \in Seq(BOOLEAN)

(***************************************************************************)
(* A write becomes permanent only while the very text that made it runs,   *)
(* and only if that text ends the transaction psqlxx has begun for it, by  *)
(* a commit, or by a rollback, after which the server commits the rest of  *)
(* the text by itself.  psqlxx never commits, and no later command can     *)
(* save or spoil what an earlier one did, so that begin, write and commit  *)
(* sent one by one save nothing (db.cpp:244-252).                          *)
(***************************************************************************)
OwnCommit ==
  [][\A c \in db' \ db :
       c = command.id /\ \E statement \in {"commit", "rollback"} :
                          Contains(command.text, statement)]_vars

(***************************************************************************)
(* Between two commands the server holds no open transaction and no write  *)
(* of this client, whatever the text before did: fail, commit in its       *)
(* middle, begin again, or lose its connection.                            *)
(***************************************************************************)
NothingLeftOpen == pc \in {"idle", "begin"} => session = NoSession

(***************************************************************************)
(* The server runs a text at most once, although pqxx::perform is there to *)
(* repeat what fails (db.cpp:242-258).                                     *)
(***************************************************************************)
RunAtMostOnce == \A c \in Commands : runs[c] <= 1

(***************************************************************************)
(* Success is reported only for a text the server ran to its end, and not  *)
(* because of what a command before it returned.                           *)
(***************************************************************************)
HonestAnswer ==
  pc = "return" /\ result =>
    runs[command.id] = 1 /\ ~Contains(command.text, "error")

(***************************************************************************)
(* The user is asked for a password only if that is allowed and the first  *)
(* attempt failed for want of one ("never prompt for password", db.cpp:112;*)
(* db.cpp:155-174).                                                        *)
(***************************************************************************)
PromptOnlyIfDenied ==
  [][attempts'.prompts # attempts.prompts => options.prompt /\ denied]_vars

(***************************************************************************)
(* The attempt after the prompt is made with the parameters of the         *)
(* original string and the password just typed in place of any other,      *)
(* whatever the form of the string.  Not supported are a password that     *)
(* would need quoting (db.hpp:55), and the URIs that end in an empty       *)
(* parameter or whose only question mark is in their credentials, which    *)
(* db.cpp:140-144 does not tell from one before parameters                 *)
(* (db.cpp:134-163).                                                       *)
(***************************************************************************)
PasswordOverrides ==
  [][pc = "prompt" /\ pc' = "attempt" =>
       LET password == Last(dsn').value
       IN  /\ password \in Passwords
           /\ password # Special /\ ~Unextendable(options.base) =>
                Overrides(dsn', options.base, password)]_vars

(***************************************************************************)
(* What has been printed is the results of the first texts that succeeded, *)
(* with none missing before the last: a result lost to a write error is    *)
(* not followed by others, although no command is told of it               *)
(* (db.cpp:186, 247-252).                                                  *)
(***************************************************************************)
OutputHasNoHoles ==
  \A c \in printed : \A d \in 1..c - 1 : answers[d + 1] => d \in printed

(***************************************************************************)
(* Every command is answered, connection or not (given the fairness of     *)
(* Main): neither perform nor the lost connection keeps DoTransaction.     *)
(***************************************************************************)
CommandAnswered ==
  \A c \in Commands : (pc = "begin" /\ command.id = c) ~> Len(answers) > c
=============================================================================
