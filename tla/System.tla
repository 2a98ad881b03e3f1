------------------------------- MODULE System -------------------------------
(***************************************************************************)
(* The whole program in its interactive mode, or on an -f file: Main with  *)
(* the real command line (Cli) where Main only says that some texts are    *)
(* asked for, and DbProxy below it.  One thread walks through all three; a *)
(* signal may come, and the connection may go, between any two steps.      *)
(*                                                                         *)
(* The words of a statement that no builtin command knows, joined by       *)
(* blanks, are the text for the server (doTransaction, db.cpp), of which   *)
(* it may make anything; the result of its transaction is the result of    *)
(* the statement.                                                          *)
(***************************************************************************)
EXTENDS Cli

CONSTANTS
  Texts, Bases, Passwords, MaxCommands, Arguments, InternalTexts    \* of Main

VARIABLES
  at, args, exitCode,                                          \* of Main
  proxyPc, options, originalTried, dsn, connection, typeMap,   \* of DbProxy
  out, good, printed, command, result, session, db, denied, attempts, runs, answers,
  calling,        \* a group's command is inside DoTransaction
  sent            \* ghost: the statements sent to the server, in order

M == INSTANCE Main WITH pc <- proxyPc

program    == <<at, args, exitCode>>
proxy      == <<proxyPc, options, originalTried, dsn, connection, typeMap, out, good, printed,
                command, result, session, db, denied, attempts, runs, answers>>
systemVars == <<vars, program, proxy, calling, sent>>

\* The constants are those of Main and DbProxy, and are assumed to be what they are there.
ASSUME ProgramAssumption ==
  /\ Texts \subseteq Seq(M!Statements) /\ MaxCommands \in Nat \ {0}
  /\ Bases \subseteq Seq(M!Parameter) /\ \A base \in Bases : M!WellFormed(base)
  /\ Passwords \subseteq STRING
  /\ Arguments \subseteq [usage       : {"none", "invalid", "help", "version"},
                          listDbs     : BOOLEAN,
                          commands    : Seq(Texts),
                          commandFile : {"none", "missing", "readable"}]
  /\ \A a \in Arguments : Len(a.commands) <= MaxCommands
  /\ InternalTexts \subseteq Texts
  /\ M!ListDbsSql \in Texts

SystemInit == Init /\ M!MainInit /\ calling = FALSE /\ sent = <<>>
-----------------------------------------------------------------------------
\* Main and DbProxy go on; the command line waits, or has not begun.
Proxy ==
  /\ \/ M!handleOptions \/ M!ProxyStep \/ M!ProxyFailed \/ M!ChooseMode
     \/ M!ListDbs \/ M!CommandLoop \/ M!OpenCommandFile
  /\ UNCHANGED <<vars, calling, sent>>

\* The command of the group asked next that the statement in hand calls, if
\* its arguments are accepted.
Called(actions) ==
  /\ pc = "dispatch"
  /\ \E c \in CommandFor(CommandGroups[Len(tried) + 1], words.words) :
       c.action \in actions /\ ~TooManyArguments(c, words.words)

DoesTransaction == Called({"sql", "query"})

TextsOfStatement == IF Called({"query"}) THEN {M!ListDbsSql} ELSE Texts

PrintsConnection == Called({"conninfo"})

\* The steps of Run that stay inside the command line.
Loop ==
  /\ at = "cli" /\ ~DoesTransaction /\ ~PrintsConnection
  /\ Run
  /\ UNCHANGED <<program, proxy, calling, sent>>

\* mutant: the transaction of a statement is asked for again.
CallAgain ==
  /\ at = "cli" /\ DoesTransaction /\ (~calling \/ Len(answers) = 2)
  /\ \E text \in TextsOfStatement : M!RequestText(text)
  /\ calling' = TRUE
  /\ sent' = Append(sent, [lines |-> words.lines, text |-> command'.text])
  /\ UNCHANGED <<vars, program>>

\* doTransaction, ListDbs, listRoles and listSchemas call DoTransaction.
Call ==
  /\ at = "cli" /\ DoesTransaction /\ ~calling
  /\ \E text \in TextsOfStatement : M!RequestText(text)
  /\ calling' = TRUE
  /\ sent' = Append(sent, [lines |-> words.lines, text |-> command'.text])
  /\ UNCHANGED <<vars, program>>

FirstAnswer == Head(answers)    \* mutant: the wrong result is handed on

Answer == Last1(answers)

\* ToCommandResult of what DoTransaction returned.
Answered ==
  /\ at = "cli" /\ calling /\ proxyPc = "idle"
  /\ Dispatch /\ lastResult' = Answer
  /\ calling' = FALSE
  /\ UNCHANGED <<program, proxy, sent>>

\* PrintConnectionInfo looks at m_connection, not at the connection: it succeeds
\* on one that is lost.
ConnectionInfo ==
  /\ at = "cli" /\ PrintsConnection /\ ~calling
  /\ M!PrintConnectionInfo /\ UNCHANGED program
  /\ Dispatch /\ lastResult' = TRUE
  /\ UNCHANGED <<calling, sent>>

\* Run returns to main.
RunEnds ==
  /\ at = "cli" /\ pc = "returned"
  /\ M!Exit(M!toExitCode(lastResult))
  /\ UNCHANGED <<vars, proxy, calling, sent>>

\* mutant: the handler also leaves the transaction under way.
SignalAborts ==
  /\ at = "cli" /\ (Signal \/ SignalInTokStr)
  /\ proxyPc' = IF calling THEN "idle" ELSE proxyPc
  /\ UNCHANGED <<program, options, originalTried, dsn, denied, attempts, connection, typeMap,
                 out, good, printed, command, result, session, db, runs, answers, calling, sent>>

\* A signal finds the program in the loop or waiting for the server; it does not
\* disturb a transaction.
Signalled ==
  /\ at = "cli" /\ (Signal \/ SignalInTokStr)
  /\ UNCHANGED <<program, proxy, calling, sent>>

Dropped == at # "exit" /\ M!Drop /\ UNCHANGED <<program, vars, calling, sent>>

Exited == at = "exit" /\ UNCHANGED systemVars

Step == Proxy \/ Loop \/ Call \/ Answered \/ ConnectionInfo \/ RunEnds

SystemNext == Step \/ Signalled \/ Dropped \/ Exited

SystemSpec == SystemInit /\ [][SystemNext]_systemVars

\* The one thread is scheduled; the rest is as for MainFairSpec and FairSpec.
SystemFairSpec == SystemSpec /\ WF_systemVars(Step)
-----------------------------------------------------------------------------
(***************************************************************************)
(* A statement sent to the server gets the answer its own text had there,  *)
(* whatever signals came in the meantime, and success means that the       *)
(* server ran that text once, and to its end.                              *)
(***************************************************************************)
AnswerReachesUser ==
  \A k \in 1..Len(log) : \A id \in 1..Len(sent) :
    log[k].lines = sent[id].lines /\ Last1(log[k].results) = "success" =>
      answers[id + 1] /\ runs[id] = 1 /\ ~Contains(sent[id].text, "error")

(***************************************************************************)
(* The server gets the statements in the order they were typed, and none   *)
(* of them twice; what the user typed last is not sent before what he      *)
(* typed first.                                                            *)
(***************************************************************************)
SentInOrder ==
  \A i, j \in 1..Len(sent) : i < j => \A a \in sent[i].lines, b \in sent[j].lines : a < b

(***************************************************************************)
(* psqlxx exits with success after a statement for the server only if the  *)
(* server ran its text, once and to its end (main.cpp:91).                 *)
(***************************************************************************)
ExitStatusOfRun ==
  LET last == Len(sent)
  IN  at = "exit" /\ exitCode = "success" /\ sent # <<>> /\ Last1(log).lines = sent[last].lines =>
        runs[last] = 1 /\ ~Contains(sent[last].text, "error")

(***************************************************************************)
(* The program behaves as Main says, which knows of the command line only  *)
(* that it asks for texts when no transaction is under way, and returns.   *)
(***************************************************************************)
DrivenAsMainSays == M!MainSpec

(***************************************************************************)
(* Every run of the program ends, given an input that does: neither a      *)
(* signal nor a lost connection leaves the thread waiting in one of the    *)
(* three parts for another.                                                *)
(***************************************************************************)
SystemEnds == <>(at = "exit")
=============================================================================
