-------------------------------- MODULE Cli --------------------------------
(***************************************************************************)
(* The read-tokenize-dispatch loop of Cli::Run and the handler of SIGINT   *)
(* and SIGQUIT that may interrupt it anywhere (cli.cpp).  The two share    *)
(* the tokenizer and the flag m_signal_received; nothing else.             *)
(*                                                                         *)
(* A line of input is a record: its words as a tokenizer with no open      *)
(* quote sees them, whether it holds an odd number of quotes (toggles),    *)
(* whether it ends in a backslash (escaped), and whether it is one         *)
(* character long (short): the empty line "\n", or a single character at   *)
(* the end of a file without a final newline.                              *)
(*                                                                         *)
(* Ghost variables, which no guard reads except through a bound: log,      *)
(* tried, typed, cut, torn, signals, errors.                               *)
(***************************************************************************)
EXTENDS Command, Integers, SequencesExt

CONSTANTS
  Words,          \* the words that may be typed
  Lines,          \* the lines that may be typed
  Histories,      \* what H_LOAD may find in the history file
  HistorySize,    \* CliOptions::history_size
  MaxLines,       \* bound: lines read
  MaxSignals,     \* bound: signals delivered
  MaxErrors       \* bound: tok_str failures

Fragment == "..."    \* a word put together from, or cut out of, typed words

Word == Words \cup {Fragment}

Line == [words : Seq(Word), toggles : BOOLEAN, escaped : BOOLEAN, short : BOOLEAN]

\* An entry is a sequence of lines, the newest entry the last one; entered says
\* whether h_ent, the event H_APPEND adds to, is an event of the list.
History == {h \in [entries : Seq(Seq(Line)), entered : BOOLEAN] :
              h.entered => h.entries # <<>>}

ASSUME LinesAssumption ==
  /\ Lines \subseteq Line
  /\ \A l \in Lines : l.toggles \/ l.escaped => ~l.short
  /\ \A l \in Lines : l.toggles => l.words # <<>>

ASSUME BoundsAssumption ==
  /\ Histories \subseteq Seq(Seq(Line))
  /\ HistorySize \in Nat \ {0}
  /\ MaxLines \in Nat /\ MaxSignals \in Nat /\ MaxErrors \in Nat

VARIABLES
  pc,              \* where Run is
  line,            \* a_line, line_length
  n,               \* lines read; the id of the line in hand
  signalReceived,  \* m_signal_received
  prevCompleted,   \* previous_line_completed
  lastResult,      \* last_result, and what Run returns
  tok,             \* m_tokenizer
  words,           \* words, word_count: what tok_str handed over
  history,         \* m_history
  tried,           \* results of the groups asked about this statement
  log,             \* statements dispatched, with their results
  typed,           \* lines since the last statement or signal
  cut,             \* oldest line the last signal left alone
  torn,            \* a signal or an error struck inside this statement
  signals, errors

main  == <<pc, line, n, prevCompleted, lastResult>>
ghost == <<signals, errors>>
vars  == <<main, signalReceived, tok, words, history, tried, log, typed, cut, torn, ghost>>

Last1(s) == s[Len(s)]
-----------------------------------------------------------------------------
(***************************************************************************)
(* libedit's tokenizer(3) and history(3), as Run uses them.                *)
(***************************************************************************)
NoTokens == [lines |-> {}, words |-> <<>>, open |-> "none"]

tok_reset_forgotten == UNCHANGED tok    \* mutant: the tokens are kept

tok_reset == tok' = NoTokens

\* tok_str: the words of line l, read as line id, join the ones already held.
Tokens(t, id, l) ==
  LET quoted == t.open = "quote"
  IN  [lines |-> IF quoted \/ l.words # <<>> THEN t.lines \cup {id} ELSE t.lines,
       words |-> IF quoted
                   THEN SubSeq(t.words, 1, Len(t.words) - 1) \o <<Fragment>>
                          \o SubSeq(l.words, 2, Len(l.words))
                   ELSE t.words \o l.words,
       open  |-> IF quoted # l.toggles THEN "quote"
                 ELSE IF l.escaped THEN "escape" ELSE "none"]

\* What a fresh tokenizer makes of the lines ls, the newest of which has id last.
Statement(ls, last) ==
  FoldLeftDomain(LAMBDA t, k : Tokens(t, last - Len(ls) + k, ls[k]), NoTokens, ls)

\* What is left of a line's words when what is before some point of it is lost.
Tails(ws) ==
  LET cuts == {SubSeq(ws, k, Len(ws)) : k \in 1..Len(ws) + 1}
  IN  cuts \cup {<<Fragment>> \o s : s \in cuts \ {ws}}

\* H_ENTER with H_SETUNIQUE and H_SETSIZE.  The newest line once more is no new
\* event, and leaves h_ent without one.
Enter(h, l) ==
  IF h.entries # <<>> /\ Last1(h.entries) = <<l>> THEN [h EXCEPT !.entered = FALSE]
  ELSE LET g == Append(h.entries, <<l>>)
       IN  [entries |-> IF Len(g) > HistorySize THEN Tail(g) ELSE g, entered |-> TRUE]

AppendEnters(h, l) == Enter(h, l)    \* mutant: every line an entry of its own

\* H_APPEND: the line joins the event h_ent, which is the newest one; without
\* an event it fails, which Run does not look at, and the line is in no entry.
AppendTo(h, l) ==
  IF h.entered
    THEN [h EXCEPT !.entries[Len(h.entries)] = Append(@, l)]
    ELSE h
-----------------------------------------------------------------------------
NoLine == [words |-> <<>>, toggles |-> FALSE, escaped |-> FALSE, short |-> FALSE]

Init ==
  /\ pc = "el_gets" /\ line = NoLine /\ n = 0
  /\ signalReceived = FALSE
  /\ prevCompleted = TRUE /\ lastResult = TRUE
  /\ tok = NoTokens /\ words = NoTokens
  /\ history \in [entries : Histories, entered : {FALSE}]
  /\ tried = <<>> /\ log = <<>> /\ typed = <<>>
  /\ cut = 0 /\ torn = FALSE /\ signals = 0 /\ errors = 0

Unterminated(l) == l.short /\ l.words # <<>>    \* only ever the last line

GetLine ==
  /\ pc = "el_gets" /\ n < MaxLines /\ ~Unterminated(line)
  /\ \E l \in Lines : line' = l /\ typed' = Append(typed, l)
  /\ n' = n + 1
  /\ pc' = "got_line"
  /\ UNCHANGED <<signalReceived, prevCompleted, lastResult, tok, words, history,
                 tried, log, cut, torn, ghost>>

\* mutant: the end of the input is not seen inside a statement.
EndOfInputWaits ==
  /\ pc = "el_gets" /\ prevCompleted
  /\ pc' = "returned"
  /\ UNCHANGED <<line, n, prevCompleted, lastResult, signalReceived, tok, words,
                 history, tried, log, typed, cut, torn, ghost>>

\* el_gets returns NULL or an empty line: end of file, Ctrl+d, a read error.
EndOfInput ==
  /\ pc = "el_gets"
  /\ pc' = "returned"
  /\ UNCHANGED <<line, n, prevCompleted, lastResult, signalReceived, tok, words,
                 history, tried, log, typed, cut, torn, ghost>>

IgnoredEither(completed) == completed \/ line.short    \* mutant

Ignored(completed) == completed /\ line.short

\* The flag is read, and cleared if set; a signal between the two finds both
\* already as it would leave them.  A one-character line is then ignored.
CheckSignal ==
  LET completed == prevCompleted \/ signalReceived
  IN  /\ pc = "got_line"
      /\ prevCompleted' = completed
      /\ signalReceived' = FALSE
      /\ pc' = IF Ignored(completed) THEN "el_gets" ELSE "tokenize"
      /\ UNCHANGED <<line, n, lastResult, tok, words, history, tried, log, typed,
                     cut, torn, ghost>>

Complete(t) == t.open = "none"    \* tokenize_result is 0

NextCompletedAlways(t) == TRUE    \* mutant: previous_line_completed stays set

NextCompleted(t) == Complete(t)

DispatchableAlone(t) == Complete(t) /\ t.words # <<>> /\ prevCompleted    \* mutant

DispatchableEmpty(t) == Complete(t)    \* mutant: word_count is not looked at

Dispatchable(t) == Complete(t) /\ t.words # <<>>

\* From the return of tok_str with t in the tokenizer to the group loop or back
\* to el_gets.  Nothing in between is shared with the handler.
Tokenized(t) ==
  /\ tok' = t
  /\ history' = IF prevCompleted THEN Enter(history, line) ELSE AppendTo(history, line)
  /\ prevCompleted' = NextCompleted(t)
  /\ IF Dispatchable(t)
       THEN pc' = "dispatch" /\ words' = t /\ UNCHANGED typed
       ELSE /\ pc' = "el_gets" /\ UNCHANGED words
            /\ typed' = IF Complete(t) THEN <<>> ELSE typed
  /\ UNCHANGED <<line, n, lastResult, tried, log, errors>>

Tokenize ==
  LET t == Tokens(tok, n, line)
  IN  /\ pc = "tokenize"
      /\ Tokenized(t)
      /\ torn' = (torn /\ t # NoTokens)
      /\ UNCHANGED <<signalReceived, cut, signals>>

\* tok_str fails on the way through the line: the words it has stay behind.
TokFailed ==
  /\ pc = "tokenize" /\ errors < MaxErrors
  /\ errors' = errors + 1
  /\ \E k \in 0..Len(line.words), open \in {"none", "quote"} :
       LET head == [line EXCEPT !.words = SubSeq(@, 1, k),
                                !.toggles = FALSE, !.escaped = FALSE]
           t    == Tokens(tok, n, head)
       IN  tok' = [t EXCEPT !.open = IF line.toggles /\ t.words # <<>>
                                       THEN open ELSE t.open]
  /\ torn' = TRUE
  /\ lastResult' = FALSE
  /\ pc' = "el_gets"
  /\ UNCHANGED <<line, n, prevCompleted, signalReceived, words, history, tried,
                 log, typed, cut, signals>>

ResultSticky(r) == lastResult \/ r \in {"exit", "success"}    \* mutant

ResultAfter(r) == r \in {"exit", "success"}    \* exit: Run returns true

\* mutant: no break after a failure
EveryGroupAsked(results) ==
  Last1(results) = "exit" \/ Len(results) = Len(CommandGroups)

LoopEnds(results) ==
  Last1(results) # "unknown" \/ Len(results) = Len(CommandGroups)

\* One group is asked: Run returns, stops at the first group that knows the
\* command, or goes on to the next one.
Dispatch ==
  /\ pc = "dispatch"
  /\ \E r \in CallGroup(CommandGroups[Len(tried) + 1], words.words) :
       LET results == Append(tried, r)
           done    == LoopEnds(results)
       IN  /\ lastResult' = ResultAfter(r)
           /\ pc' = IF r = "exit" THEN "returned" ELSE IF done THEN "reset" ELSE pc
           /\ tried' = IF done THEN <<>> ELSE results
           /\ log' = IF done THEN Append(log, [lines |-> words.lines, results |-> results])
                             ELSE log
  /\ UNCHANGED <<line, n, prevCompleted, signalReceived, tok, words, history, typed,
                 cut, torn, ghost>>

TokReset ==
  /\ pc = "reset"
  /\ tok_reset
  /\ pc' = "el_gets"
  /\ words' = NoTokens /\ typed' = <<>> /\ torn' = FALSE
  /\ UNCHANGED <<line, n, prevCompleted, lastResult, signalReceived, history, tried,
                 log, cut, ghost>>

\* The line in hand is still to be tokenized: a signal does not take it away.
InHand == pc \in {"got_line", "tokenize"}

\* handleSignal, as far as the variables above go.
Interrupted ==
  /\ signals < MaxSignals
  /\ signals' = signals + 1
  /\ signalReceived' = TRUE
  /\ cut' = IF InHand THEN n ELSE n + 1

\* The handler runs between two steps of Run.  After the flag has been read it
\* is too late for this round of the loop: the line in hand is tokenized as if
\* it still continued the statement the handler has just thrown away.
Signal ==
  /\ pc # "returned"
  /\ Interrupted
  /\ tok_reset
  /\ typed' = IF InHand THEN <<line>> ELSE IF pc = "dispatch" THEN typed ELSE <<>>
  /\ torn' = (pc = "tokenize" \/ (pc = "dispatch" /\ torn))
  /\ UNCHANGED <<main, words, history, tried, log, errors>>

\* The handler runs inside tok_str: what it has of the statement is lost, and it
\* goes on with the rest of the line.
SignalInTokStr ==
  /\ pc = "tokenize"
  /\ Interrupted
  /\ \E rest \in Tails(line.words), toggles \in BOOLEAN :
       /\ toggles => line.toggles /\ rest # <<>>
       /\ LET t == Tokens(NoTokens, n, [line EXCEPT !.words = rest, !.toggles = toggles])
          IN  Tokenized(t) /\ torn' = (t # NoTokens)

Returned == pc = "returned" /\ UNCHANGED vars

Run == GetLine \/ EndOfInput \/ CheckSignal \/ Tokenize \/ TokFailed \/ Dispatch \/ TokReset

Next == Run \/ Signal \/ SignalInTokStr \/ Returned

Spec == Init /\ [][Next]_vars

\* Run is scheduled until it returns, and the input is a file or a user who
\* presses <Enter> or Ctrl+d sooner or later.
FairSpec == Spec /\ WF_vars(Run)
-----------------------------------------------------------------------------
(***************************************************************************)
(* The variables stay in their sets, and the groups are never asked about  *)
(* no words, or once more than there are groups: what the asserts on       *)
(* word_count (command.cpp:98, 168) and the range of the for loop rely on. *)
(***************************************************************************)
Tokenizer == [lines : SUBSET Nat, words : Seq(Word), open : {"none", "quote", "escape"}]

TypeOK ==
  /\ pc \in {"el_gets", "got_line", "tokenize", "dispatch", "reset", "returned"}
  /\ line \in Line
  /\ n \in Nat /\ cut \in 0..n + 1 /\ signals \in Nat /\ errors \in Nat
  /\ signalReceived \in BOOLEAN /\ prevCompleted \in BOOLEAN
  /\ lastResult \in BOOLEAN /\ torn \in BOOLEAN
  /\ tok \in Tokenizer /\ words \in Tokenizer
  /\ history \in History
  /\ tried \in Seq(CommandResults)
  /\ log \in Seq([lines : SUBSET Nat, results : Seq(CommandResults)])
  /\ typed \in Seq(Line)
  /\ Len(tried) < Len(CommandGroups)
  /\ pc = "dispatch" => words.words # <<>>

(***************************************************************************)
(* A statement is dispatched with exactly the words of the lines typed     *)
(* since the previous statement or the last Ctrl+c, and of all of them:    *)
(* what the tokenizer carries from line to line agrees with what was       *)
(* typed.  (cli.cpp:239-291; not while a signal or an error strikes in the *)
(* middle of the statement.)                                               *)
(***************************************************************************)
WholeStatement ==
  pc = "dispatch" /\ ~torn => words = Statement(typed, n)

(***************************************************************************)
(* The newest history entry recalled and submitted again is the statement  *)
(* being dispatched: H_ENTER and H_APPEND, chosen by                       *)
(* previous_line_completed (cli.cpp:268), follow the tokenizer, whatever   *)
(* the duplicates dropped and the size limit did to the older entries.     *)
(* With one exception: if the first line is the newest entry once more     *)
(* (typed again after Ctrl+c, say), H_ENTER enters nothing, the H_APPENDs  *)
(* fail unseen, and the newest entry is the first line alone.              *)
(***************************************************************************)
HistoryMatches ==
  pc = "dispatch" /\ ~torn =>
    LET newest == Last1(history.entries)
    IN  IF history.entered
          THEN words.words = Statement(newest, n).words
          ELSE \E k \in DOMAIN typed :
                 newest = <<typed[k]>> /\ ~typed[k].short
                   /\ \A j \in 1..k - 1 : typed[j].short

(***************************************************************************)
(* Whenever Run waits for a line, its idea of "nothing pending" -          *)
(* previous_line_completed, or a signal that will set it - and the         *)
(* tokenizer's agree.  They are two variables, one of them reset by the    *)
(* handler and the other by a later round of the loop (cli.cpp:120-129,    *)
(* 248-251).                                                               *)
(***************************************************************************)
InSync ==
  pc = "el_gets" /\ ~torn => ((prevCompleted \/ signalReceived) <=> tok = NoTokens)

(***************************************************************************)
(* One command handles a statement: every group asked before the last one  *)
(* did not know it, and the last one did (cli.cpp:278-288).                *)
(***************************************************************************)
OneCommandEach ==
  \A k \in 1..Len(log) :
    LET results == log[k].results
    IN  \A g \in 1..Len(results) : (results[g] = "unknown") <=> (g < Len(results))

(***************************************************************************)
(* Run returns true only if it was told to exit, or if the last statement  *)
(* handled succeeded and no line failed after it; psqlxx turns this into   *)
(* its exit code (cli.cpp:280-293, main.cpp:91).                           *)
(***************************************************************************)
ResultOfLastCommand ==
  pc = "returned" /\ lastResult /\ log # <<>> =>
    Last1(Last1(log).results) \in {"exit", "success"}

(***************************************************************************)
(* A statement never takes in a line typed before the last Ctrl+c, however *)
(* the signal falls: between two lines, before, inside or after tok_str,   *)
(* or while another statement runs.                                        *)
(***************************************************************************)
SignalCancels ==
  [][pc # "dispatch" /\ pc' = "dispatch" => \A i \in words'.lines : i >= cut']_vars

(***************************************************************************)
(* No line with words in it gets lost on the way from the terminal to the  *)
(* groups, except by an error of tok_str or by a signal, which loses what  *)
(* is pending and nothing else: a statement that never reaches a group is  *)
(* one that is still open when the input ends (cli.cpp:247-293).           *)
(***************************************************************************)
Gathering == IF pc \in {"el_gets", "got_line", "tokenize"} THEN tok.lines ELSE {}

Running == IF pc = "dispatch" THEN words.lines ELSE {}

Handled == UNION {log[k].lines : k \in 1..Len(log)}

Fresh == IF InHand /\ line.words # <<>> /\ ~line.short THEN {n} ELSE {}

Live == Gathering \cup Running \cup Handled \cup Fresh

NoLineLost ==
  [][errors' = errors /\ ~(pc = "el_gets" /\ pc' = "returned") =>
       Live \ Live' \subseteq IF signals' = signals THEN {} ELSE Gathering \cup Fresh]_vars

(***************************************************************************)
(* Run behaves as the command stream it implements: in order, at most once *)
(* and without what was interrupted.                                       *)
(***************************************************************************)
Stream == INSTANCE CommandStream WITH
  read      <- n,
  gathering <- Gathering,
  running   <- Running,
  handled   <- [k \in 1..Len(log) |-> log[k].lines]

StreamSpec == Stream!Spec

(***************************************************************************)
(* A line that completes a statement has it answered by one of the groups, *)
(* however many lines the statement took, unless the line fails or is      *)
(* interrupted.                                                            *)
(***************************************************************************)
StatementAnswered ==
  \A i \in 1..MaxLines :
    (/\ pc = "tokenize" /\ errors = MaxErrors /\ signals = MaxSignals
     /\ LET t == Tokens(tok, n, line)
        IN  t.open = "none" /\ t.words # <<>> /\ i \in t.lines)
      ~> \E k \in 1..Len(log) : i \in log[k].lines

(***************************************************************************)
(* Run returns, given an input that ends: no path through the loop goes    *)
(* round without reading a line.                                           *)
(***************************************************************************)
RunReturns == <>(pc = "returned")

(***************************************************************************)
(* Only empty lines are ignored (the comment at cli.cpp:253).              *)
(***************************************************************************)
OnlyEmptyLinesIgnored ==
  [][pc = "got_line" /\ pc' = "el_gets" => line.words = <<>>]_vars
=============================================================================
