--------------------------- MODULE System_proofs ---------------------------
(***************************************************************************)
(* Proved of the command line, for every set of lines and every bound,     *)
(* and of the whole program around it.                                     *)
(*                                                                         *)
(* The first part is about Cli alone: what the runs check of it, and that  *)
(* it implements the command stream.  The second part shows that, seen     *)
(* from the command line, the program is a run of Cli and, seen from main  *)
(* and the connection, one of Main, so that what is proved of the parts    *)
(* holds in the whole; and that the server gets the statements in the      *)
(* order they were typed and the user gets its answers.                    *)
(***************************************************************************)
EXTENDS System, Folding, TLAPS

-----------------------------------------------------------------------------
(***************************************************************************)
(* Part one: Run and its signal handler.                                   *)
(***************************************************************************)
(***************************************************************************)
(* Sequences, stated where the provers find them.                          *)
(***************************************************************************)
LEMMA EmptyType == ASSUME NEW S PROVE <<>> \in Seq(S) /\ Len(<<>>) = 0
OBVIOUS

LEMMA AppendType ==
  ASSUME NEW S, NEW s \in Seq(S), NEW e \in S
  PROVE  /\ Append(s, e) \in Seq(S) /\ Append(s, e) # <<>>
         /\ Len(Append(s, e)) = Len(s) + 1
<1>1. Append(s, e) \in Seq(S) /\ Len(Append(s, e)) = Len(s) + 1 /\ Len(s) \in Nat
  OBVIOUS
<1>2. Len(Append(s, e)) # 0
  BY <1>1
<1> QED
  BY <1>1, <1>2, EmptyType

LEMMA AppendElements ==
  ASSUME NEW S, NEW s \in Seq(S), NEW e
  PROVE  /\ Len(Append(s, e)) = Len(s) + 1 /\ Len(s) \in Nat
         /\ \A k \in 1..Len(s) : Append(s, e)[k] = s[k]
         /\ Append(s, e)[Len(s) + 1] = e
OBVIOUS

LEMMA ElementType == ASSUME NEW S, NEW s \in Seq(S) PROVE \A k \in 1..Len(s) : s[k] \in S
OBVIOUS

(***************************************************************************)
(* The tokenizer stays a tokenizer, and it never holds a line without      *)
(* holding a word of it, nor a word without a line it came from            *)
(* (Tokens, for the tok_str calls of cli.cpp:259-260).                     *)
(***************************************************************************)
Balanced(t) == t.lines = {} <=> t.words = <<>>

LEMMA TokensType ==
  ASSUME NEW t \in Tokenizer, NEW id \in Nat, NEW l \in Line
  PROVE  Tokens(t, id, l) \in Tokenizer
<1> DEFINE quoted == t.open = "quote"
           front == SubSeq(t.words, 1, Len(t.words) - 1)
           rest  == SubSeq(l.words, 2, Len(l.words))
<1>1. /\ t.lines \in SUBSET Nat /\ t.words \in Seq(Word)
      /\ l.words \in Seq(Word) /\ l.toggles \in BOOLEAN
  BY DEF Tokenizer, Line
<1>2. front \in Seq(Word) /\ rest \in Seq(Word)
  BY <1>1
<1>3. front \o <<Fragment>> \o rest \in Seq(Word)
  <2>1. <<Fragment>> \in Seq(Word)
    BY DEF Word
  <2> HIDE DEF front, rest
  <2> QED
    BY <1>2, <2>1
<1>4. t.words \o l.words \in Seq(Word)
  BY <1>1
<1> QED
  BY <1>1, <1>3, <1>4 DEF Tokens, Tokenizer

LEMMA TokensBalanced ==
  ASSUME NEW t \in Tokenizer, NEW id \in Nat, NEW l \in Line, Balanced(t)
  PROVE  /\ Balanced(Tokens(t, id, l))
         /\ Tokens(t, id, l).lines \subseteq t.lines \cup {id}
<1> DEFINE front == SubSeq(t.words, 1, Len(t.words) - 1)
           rest  == SubSeq(l.words, 2, Len(l.words))
           u == Tokens(t, id, l)
<1>1. /\ t.lines \in SUBSET Nat /\ t.words \in Seq(Word)
      /\ l.words \in Seq(Word)
  BY DEF Tokenizer, Line
<1>2. front \in Seq(Word) /\ rest \in Seq(Word)
  BY <1>1
<1>3. CASE t.open = "quote"
  <2>1. u.lines = t.lines \cup {id} /\ u.words = front \o <<Fragment>> \o rest
    BY <1>3 DEF Tokens
  <2>2. Len(front \o <<Fragment>> \o rest) = Len(front) + 1 + Len(rest)
    <3>1. <<Fragment>> \in Seq(Word) /\ Len(<<Fragment>>) = 1
      BY DEF Word
    <3> HIDE DEF front, rest
    <3> QED
      BY <1>2, <3>1
  <2>3. Len(front) \in Nat /\ Len(rest) \in Nat
    BY <1>2
  <2>4. u.words # <<>>
    BY <2>1, <2>2, <2>3
  <2> QED
    BY <2>1, <2>4 DEF Balanced
<1>4. CASE t.open # "quote" /\ l.words = <<>>
  <2>1. u.lines = t.lines /\ u.words = t.words \o <<>>
    BY <1>4 DEF Tokens
  <2>2. t.words \o <<>> = t.words
    BY <1>1
  <2> QED
    BY <2>1, <2>2 DEF Balanced
<1>5. CASE t.open # "quote" /\ l.words # <<>>
  <2>1. u.lines = t.lines \cup {id} /\ u.words = t.words \o l.words
    BY <1>5 DEF Tokens
  <2>2. Len(t.words \o l.words) = Len(t.words) + Len(l.words)
    BY <1>1
  <2>3. Len(l.words) \in Nat \ {0} /\ Len(t.words) \in Nat
    BY <1>1, <1>5
  <2>4. u.words # <<>>
    BY <2>1, <2>2, <2>3
  <2> QED
    BY <2>1, <2>4 DEF Balanced
<1> QED
  BY <1>3, <1>4, <1>5
-----------------------------------------------------------------------------
(***************************************************************************)
(* A group answers with a CommandResult (command.cpp:166-180).             *)
(***************************************************************************)
LEMMA ActionResultsType ==
  ASSUME NEW action, NEW ws
  PROVE  ActionResults(action, ws) \subseteq CommandResults
BY DEF ActionResults, help, HelpGroups, doEditlineBuiltinCommands, ToCommandResult,
       CommandResults

LEMMA CallGroupType ==
  ASSUME NEW g \in 1..Len(CommandGroups), NEW ws
  PROVE  CallGroup(CommandGroups[g], ws) \subseteq CommandResults
<1>1. \A c : CallCommand(c, ws) \subseteq CommandResults
  BY ActionResultsType DEF CallCommand, CommandResults
<1> QED
  BY <1>1 DEF CallGroup, CommandResults

LEMMA TwoGroups == Len(CommandGroups) = 2
BY DEF CommandGroups

(***************************************************************************)
(* The history stays a sequence of entries (history(3), cli.cpp:268).      *)
(***************************************************************************)
LEMMA HistoryType ==
  ASSUME NEW h \in History, NEW l \in Line
  PROVE  Enter(h, l) \in History /\ AppendTo(h, l) \in History
<1>1. /\ h = [entries |-> h.entries, entered |-> h.entered]
      /\ h.entries \in Seq(Seq(Line)) /\ h.entered \in BOOLEAN
      /\ h.entered => h.entries # <<>>
  BY DEF History
<1>2. <<l>> \in Seq(Line) /\ HistorySize \in Nat \ {0}
  BY BoundsAssumption
<1> DEFINE e == h.entries
           g == Append(e, <<l>>)
           o == IF Len(g) > HistorySize THEN Tail(g) ELSE g
<1>3. o \in Seq(Seq(Line)) /\ o # <<>>
  <2>1. g \in Seq(Seq(Line)) /\ Len(g) = Len(e) + 1 /\ Len(e) \in Nat
    BY <1>1, <1>2
  <2> HIDE DEF g
  <2>2. CASE Len(g) > HistorySize
    <3>1. Len(g) \in Nat /\ Len(g) > 1 /\ g # <<>>
      BY <1>2, <2>1, <2>2
    <3>2. Tail(g) \in Seq(Seq(Line)) /\ Len(Tail(g)) = Len(g) - 1
      BY <2>1, <3>1
    <3>3. \A s : Len(s) = Len(g) - 1 => s # <<>>
      BY <3>1
    <3> QED
      BY <2>2, <3>2, <3>3
  <2> QED
    BY <2>1, <2>2
<1> HIDE DEF o
<1>4. [entries |-> o, entered |-> TRUE] \in History
  BY <1>3 DEF History
<1>5. [h EXCEPT !.entered = FALSE] \in History
  BY <1>1 DEF History
<1>6. Enter(h, l) \in {[h EXCEPT !.entered = FALSE], [entries |-> o, entered |-> TRUE]}
  BY DEF Enter, o
<1>7. AppendTo(h, l) \in History
  <2>1. CASE h.entered
    <3> DEFINE a == [e EXCEPT ![Len(e)] = Append(@, l)]
    <3>1. Len(e) \in 1..Len(e) /\ e[Len(e)] \in Seq(Line)
      BY <1>1, <2>1
    <3>2. Append(e[Len(e)], l) \in Seq(Line)
      BY <3>1
    <3>3. a \in Seq(Seq(Line)) /\ Len(a) = Len(e)
      BY <1>1, <3>1, <3>2
    <3>4. a # <<>>
      BY <3>1, <3>3
    <3> HIDE DEF a
    <3>5. [h EXCEPT !.entries = a] \in History
      BY <1>1, <3>3, <3>4 DEF History
    <3>6. AppendTo(h, l) = [h EXCEPT !.entries = a]
      BY <2>1 DEF AppendTo, a
    <3> QED
      BY <3>5, <3>6
  <2> QED
    BY <2>1 DEF AppendTo
<1> QED
  BY <1>4, <1>5, <1>6, <1>7
-----------------------------------------------------------------------------
LEMMA NoTokensType == NoTokens \in Tokenizer /\ Balanced(NoTokens)
BY DEF NoTokens, Tokenizer, Balanced

LEMMA TailsType == ASSUME NEW ws \in Seq(Word) PROVE Tails(ws) \subseteq Seq(Word)
<1> DEFINE cuts == {SubSeq(ws, k, Len(ws)) : k \in 1..Len(ws) + 1}
<1>1. cuts \subseteq Seq(Word)
  <2>1. \A k \in 1..Len(ws) + 1 : SubSeq(ws, k, Len(ws)) \in Seq(Word)
    OBVIOUS
  <2> QED
    BY <2>1
<1>2. \A s \in cuts : <<Fragment>> \o s \in Seq(Word)
  <2>1. <<Fragment>> \in Seq(Word)
    BY DEF Word
  <2> QED
    BY <1>1, <2>1
<1> QED
  BY <1>1, <1>2 DEF Tails

(***************************************************************************)
(* From tok_str to the next point where Run can be interrupted.            *)
(***************************************************************************)
LEMMA TokenizedType ==
  ASSUME TypeOK, NEW t \in Tokenizer, Tokenized(t)
  PROVE  /\ tok' \in Tokenizer /\ words' \in Tokenizer
         /\ history' \in History /\ typed' \in Seq(Line)
         /\ prevCompleted' \in BOOLEAN
         /\ pc' \in {"el_gets", "dispatch"}
         /\ pc' = "dispatch" => words'.words # <<>>
<1>1. history' \in History
  BY HistoryType DEF TypeOK, Tokenized
<1>2. typed' \in Seq(Line)
  BY EmptyType DEF TypeOK, Tokenized
<1> QED
  BY <1>1, <1>2 DEF TypeOK, Tokenized, NextCompleted, Complete, Dispatchable

LEMMA TypeInit == Init => TypeOK
<1> USE LinesAssumption, BoundsAssumption
<1> SUFFICES ASSUME Init PROVE TypeOK
  OBVIOUS
<1>1. line \in Line /\ history \in History
  <2>1. NoLine \in Line
    BY EmptyType DEF NoLine, Line
  <2>2. Histories \subseteq Seq(Seq(Line))
    OBVIOUS
  <2>3. [entries : Seq(Seq(Line)), entered : {FALSE}] \subseteq History
    BY DEF History
  <2> QED
    BY <2>1, <2>2, <2>3 DEF Init
<1>2. /\ tried \in Seq(CommandResults) /\ Len(tried) = 0 /\ typed \in Seq(Line)
      /\ log \in Seq([lines : SUBSET Nat, results : Seq(CommandResults)])
  BY EmptyType DEF Init
<1>3. Len(tried) < Len(CommandGroups)
  BY <1>2, TwoGroups
<1>4. n \in Nat /\ cut \in 0..n + 1
  BY DEF Init
<1> QED
  BY <1>1, <1>2, <1>3, <1>4, NoTokensType DEF Init, TypeOK

LEMMA TypeNext == TypeOK /\ [Next]_vars => TypeOK'
<1> USE LinesAssumption, BoundsAssumption
<1> SUFFICES ASSUME TypeOK, [Next]_vars PROVE TypeOK'
  OBVIOUS
<1>1. CASE GetLine
  <2>1. line' \in Line /\ typed' \in Seq(Line)
    BY <1>1 DEF GetLine, TypeOK
  <2>2. n' \in Nat /\ cut' \in 0..n' + 1
    BY <1>1 DEF GetLine, TypeOK
  <2> QED
    BY <1>1, <2>1, <2>2 DEF GetLine, TypeOK, ghost
<1>2. CASE EndOfInput
  BY <1>2 DEF EndOfInput, TypeOK, ghost
<1>3. CASE CheckSignal
  BY <1>3 DEF CheckSignal, TypeOK, ghost
<1>4. CASE Tokenize
  <2>1. Tokens(tok, n, line) \in Tokenizer
    BY TokensType DEF TypeOK
  <2>2. Tokenized(Tokens(tok, n, line))
    BY <1>4 DEF Tokenize
  <2> QED
    BY <1>4, <2>1, <2>2, TokenizedType DEF Tokenize, Tokenized, TypeOK
<1>5. CASE TokFailed
  <2>1. tok' \in Tokenizer
    <3>1. PICK k \in 0..Len(line.words), open \in {"none", "quote"} :
            LET head == [line EXCEPT !.words = SubSeq(@, 1, k),
                                     !.toggles = FALSE, !.escaped = FALSE]
                t    == Tokens(tok, n, head)
            IN  tok' = [t EXCEPT !.open = IF line.toggles /\ t.words # <<>>
                                            THEN open ELSE t.open]
      BY <1>5 DEF TokFailed
    <3> DEFINE head == [line EXCEPT !.words = SubSeq(@, 1, k),
                                    !.toggles = FALSE, !.escaped = FALSE]
               t    == Tokens(tok, n, head)
    <3>2. head \in Line
      <4>1. line.words \in Seq(Word)
        BY DEF TypeOK, Line
      <4>2. SubSeq(line.words, 1, k) \in Seq(Word)
        BY <4>1
      <4> QED
        BY <4>2 DEF TypeOK, Line
    <3> HIDE DEF head
    <3>3. t \in Tokenizer
      BY <3>2, TokensType DEF TypeOK
    <3> HIDE DEF t
    <3> QED
      BY <3>1, <3>3 DEF Tokenizer, t, head
  <2>2. /\ pc' = "el_gets" /\ torn' = TRUE /\ lastResult' = FALSE
        /\ errors' = errors + 1
        /\ UNCHANGED <<line, n, prevCompleted, signalReceived, words, history, tried,
                       log, typed, cut, signals>>
    BY <1>5 DEF TokFailed
  <2>3. n' \in Nat /\ cut' \in 0..n' + 1 /\ errors' \in Nat /\ signals' \in Nat
    BY <2>2 DEF TypeOK
  <2>4. lastResult' \in BOOLEAN /\ torn' \in BOOLEAN /\ signalReceived' \in BOOLEAN
    BY <2>2 DEF TypeOK
  <2>5. words' \in Tokenizer /\ tried' \in Seq(CommandResults) /\ typed' \in Seq(Line)
    BY <2>2 DEF TypeOK
  <2> QED
    BY <2>1, <2>2, <2>3, <2>4, <2>5 DEF TypeOK
<1>6. CASE Dispatch
  <2>1. PICK r \in CallGroup(CommandGroups[Len(tried) + 1], words.words) :
          LET results == Append(tried, r)
              done    == LoopEnds(results)
          IN  /\ lastResult' = ResultAfter(r)
              /\ pc' = IF r = "exit" THEN "returned" ELSE IF done THEN "reset" ELSE pc
              /\ tried' = IF done THEN <<>> ELSE results
              /\ log' = IF done
                          THEN Append(log, [lines |-> words.lines, results |-> results])
                          ELSE log
    BY <1>6 DEF Dispatch
  <2>2. Len(tried) + 1 \in 1..Len(CommandGroups)
    BY TwoGroups DEF TypeOK
  <2>3. r \in CommandResults
    BY <2>1, <2>2, CallGroupType
  <2> DEFINE results == Append(tried, r)
  <2>4. results \in Seq(CommandResults) /\ Len(results) = Len(tried) + 1
    BY <2>3 DEF TypeOK
  <2>5. Len(results) # Len(CommandGroups) => Len(results) < Len(CommandGroups)
    BY <2>4, TwoGroups DEF TypeOK
  <2>6. tried' \in Seq(CommandResults) /\ Len(tried') < Len(CommandGroups)
    <3>1. <<>> \in Seq(CommandResults) /\ Len(<<>>) < Len(CommandGroups)
      BY TwoGroups
    <3> QED
      BY <2>1, <2>4, <2>5, <3>1 DEF LoopEnds
  <2>7. log' \in Seq([lines : SUBSET Nat, results : Seq(CommandResults)])
    <3>1. [lines |-> words.lines, results |-> results]
            \in [lines : SUBSET Nat, results : Seq(CommandResults)]
      BY <2>4 DEF TypeOK, Tokenizer
    <3> QED
      BY <2>1, <3>1, AppendType DEF TypeOK
  <2>8. pc' \in {"dispatch", "reset", "returned"} /\ lastResult' \in BOOLEAN
    BY <1>6, <2>1 DEF Dispatch, ResultAfter
  <2> QED
    BY <1>6, <2>6, <2>7, <2>8 DEF Dispatch, TypeOK, ghost
<1>7. CASE TokReset
  <2>1. typed' \in Seq(Line)
    BY <1>7 DEF TokReset
  <2> QED
    BY <1>7, <2>1, NoTokensType DEF TokReset, tok_reset, TypeOK, ghost
<1>8. CASE Signal
  <2>1. typed' \in Seq(Line)
    BY <1>8 DEF Signal, TypeOK
  <2>2. cut' \in 0..n + 1 /\ n' = n
    BY <1>8 DEF Signal, Interrupted, main, TypeOK
  <2> QED
    BY <1>8, <2>1, <2>2, NoTokensType DEF Signal, Interrupted, tok_reset, TypeOK, main
<1>9. CASE SignalInTokStr
  <2>1. PICK rest \in Tails(line.words), toggles \in BOOLEAN :
          LET t == Tokens(NoTokens, n, [line EXCEPT !.words = rest, !.toggles = toggles])
          IN  Tokenized(t) /\ torn' = (t # NoTokens)
    BY <1>9 DEF SignalInTokStr
  <2> DEFINE l == [line EXCEPT !.words = rest, !.toggles = toggles]
             t == Tokens(NoTokens, n, l)
  <2>2. l \in Line
    <3>1. rest \in Seq(Word)
      BY TailsType DEF TypeOK, Line
    <3> QED
      BY <3>1 DEF TypeOK, Line
  <2> HIDE DEF l
  <2>3. t \in Tokenizer
    BY <2>2, TokensType, NoTokensType DEF TypeOK
  <2>4. cut' \in 0..n + 1 /\ signals' \in Nat /\ signalReceived' = TRUE
    BY <1>9 DEF SignalInTokStr, Interrupted, TypeOK
  <2> HIDE DEF t
  <2>5. Tokenized(t) /\ torn' \in BOOLEAN
    BY <2>1 DEF t, l
  <2> QED
    BY <2>3, <2>4, <2>5, TokenizedType DEF Tokenized, TypeOK
<1>10. CASE Returned \/ UNCHANGED vars
  BY <1>10 DEF Returned, vars, main, ghost, TypeOK
<1> QED
  BY <1>1, <1>2, <1>3, <1>4, <1>5, <1>6, <1>7, <1>8, <1>9, <1>10 DEF Next, Run

(***************************************************************************)
(* Type correctness of the command line (TypeOK), whatever the input.      *)
(***************************************************************************)
THEOREM TypeCorrect == Spec => []TypeOK
BY TypeInit, TypeNext, PTL DEF Spec
-----------------------------------------------------------------------------
(***************************************************************************)
(* The lines held by the tokenizer and the lines of the statements handled *)
(* are lines read before the one in hand, and the tokenizer holds none     *)
(* older than the last signal.                                             *)
(***************************************************************************)
Held ==
  /\ Balanced(tok)
  /\ \A i \in tok.lines : cut <= i /\ i <= n /\ (InHand => i < n)
  /\ InHand => cut <= n /\ n > 0
  /\ \A k \in 1..Len(log) : \A i \in log[k].lines : i <= n /\ (InHand => i < n)
  /\ pc = "dispatch" => /\ words.lines # {}
                        /\ \A i \in words.lines : i <= n

Inv == TypeOK /\ Held

\* What the tokenizer may hold after a line: lines held before, and that line.
LEMMA TokensHeld ==
  ASSUME Inv, InHand, NEW l \in Line
  PROVE  LET t == Tokens(tok, n, l)
         IN  /\ t \in Tokenizer /\ Balanced(t)
             /\ \A i \in t.lines : i \in tok.lines \cup {n} /\ cut <= i /\ i <= n
<1> DEFINE t == Tokens(tok, n, l)
<1>1. tok \in Tokenizer /\ n \in Nat /\ Balanced(tok)
  BY DEF Inv, TypeOK, Held
<1>2. t \in Tokenizer /\ Balanced(t) /\ t.lines \subseteq tok.lines \cup {n}
  BY <1>1, TokensType, TokensBalanced
<1> HIDE DEF t
<1>3. \A i \in t.lines : i \in tok.lines \cup {n} /\ cut <= i /\ i <= n
  BY <1>1, <1>2 DEF Inv, Held
<1> QED
  BY <1>2, <1>3 DEF t

LEMMA FreshTokens ==
  ASSUME Inv, NEW l \in Line
  PROVE  LET t == Tokens(NoTokens, n, l)
         IN  t \in Tokenizer /\ Balanced(t) /\ t.lines \subseteq {n}
<1>1. n \in Nat /\ NoTokens.lines = {}
  BY DEF Inv, TypeOK, NoTokens
<1> QED
  BY <1>1, NoTokensType, TokensType, TokensBalanced

LEMMA TailLine ==
  ASSUME Inv, NEW rest \in Tails(line.words), NEW toggles \in BOOLEAN
  PROVE  [line EXCEPT !.words = rest, !.toggles = toggles] \in Line
<1>1. line.words \in Seq(Word)
  BY DEF Inv, TypeOK, Line
<1>2. rest \in Seq(Word)
  BY <1>1, TailsType
<1> QED
  BY <1>2 DEF Inv, TypeOK, Line

LEMMA HeadLine ==
  ASSUME Inv, NEW k \in 0..Len(line.words)
  PROVE  [line EXCEPT !.words = SubSeq(@, 1, k), !.toggles = FALSE, !.escaped = FALSE]
           \in Line
<1>1. line.words \in Seq(Word)
  BY DEF Inv, TypeOK, Line
<1>2. SubSeq(line.words, 1, k) \in Seq(Word)
  BY <1>1
<1> QED
  BY <1>2 DEF Inv, TypeOK, Line

\* From tok_str to the next interruption point: the tokens of t are in the
\* tokenizer, and if they make a statement it has words, so it has lines.
LEMMA TokenizedHeld ==
  ASSUME Inv, InHand, NEW t \in Tokenizer, Balanced(t), Tokenized(t),
         \A i \in t.lines : cut' <= i /\ i <= n
  PROVE  Held'
<1>1. pc' \in {"el_gets", "dispatch"} /\ tok' = t /\ n' = n /\ log' = log
  BY DEF Tokenized
<1>2. \A k \in 1..Len(log) : \A i \in log[k].lines : i <= n
  BY DEF Inv, Held
<1>3. ASSUME pc' = "dispatch" PROVE words' = t /\ t.lines # {}
  BY <1>3 DEF Tokenized, Dispatchable, Balanced
<1>4. \A i \in t.lines : i <= n
  OBVIOUS
<1> QED
  BY <1>1, <1>2, <1>3, <1>4 DEF Held, Balanced, InHand

\* A tok_str that fails leaves a part of the line behind.
LEMMA TokFailedHeld ==
  ASSUME Inv, InHand, TokFailed
  PROVE  /\ Balanced(tok') /\ \A i \in tok'.lines : cut <= i /\ i <= n
         /\ tok'.lines \subseteq tok.lines \cup {n}
<1>1. PICK k \in 0..Len(line.words), open \in {"none", "quote"} :
        LET head == [line EXCEPT !.words = SubSeq(@, 1, k),
                                 !.toggles = FALSE, !.escaped = FALSE]
            t    == Tokens(tok, n, head)
        IN  tok' = [t EXCEPT !.open = IF line.toggles /\ t.words # <<>>
                                        THEN open ELSE t.open]
  BY DEF TokFailed
<1> DEFINE head == [line EXCEPT !.words = SubSeq(@, 1, k),
                                !.toggles = FALSE, !.escaped = FALSE]
           t    == Tokens(tok, n, head)
<1>2. head \in Line
  BY HeadLine
<1> HIDE DEF head
<1>3. /\ t \in Tokenizer /\ Balanced(t) /\ \A i \in t.lines : cut <= i /\ i <= n
      /\ t.lines \subseteq tok.lines \cup {n}
  BY <1>2, TokensHeld
<1> HIDE DEF t
<1>4. tok'.lines = t.lines /\ tok'.words = t.words
  BY <1>1, <1>3 DEF Tokenizer, t, head
<1> QED
  BY <1>3, <1>4 DEF Balanced

LEMMA InitInv == Init => Inv
<1> SUFFICES ASSUME Init PROVE Inv
  OBVIOUS
<1>1. tok.lines = {} /\ log = <<>> /\ pc = "el_gets" /\ tok = NoTokens
  BY DEF Init, NoTokens
<1>2. Len(log) = 0
  BY <1>1
<1> QED
  BY <1>1, <1>2, TypeInit, NoTokensType DEF Inv, Held, InHand

LEMMA NextInv == Inv /\ [Next]_vars => Inv'
<1> SUFFICES ASSUME Inv, [Next]_vars PROVE Held'
  BY TypeNext DEF Inv
<1>1. CASE GetLine
  <2>1. /\ pc = "el_gets" /\ pc' = "got_line" /\ n' = n + 1
        /\ UNCHANGED <<tok, words, log, cut>>
    BY <1>1 DEF GetLine
  <2>2. n \in Nat /\ cut \in 0..n + 1 /\ tok.lines \in SUBSET Nat
    BY DEF Inv, TypeOK, Tokenizer
  <2>3. \A k \in 1..Len(log) : log[k].lines \in SUBSET Nat
    <3>1. log \in Seq([lines : SUBSET Nat, results : Seq(CommandResults)])
      BY DEF Inv, TypeOK
    <3>2. \A k \in 1..Len(log) :
            log[k] \in [lines : SUBSET Nat, results : Seq(CommandResults)]
      BY <3>1, ElementType
    <3> QED
      BY <3>2
  <2> QED
    BY <2>1, <2>2, <2>3 DEF Inv, Held, InHand
<1>2. CASE EndOfInput
  BY <1>2 DEF EndOfInput, Inv, Held, InHand
<1>3. CASE CheckSignal
  BY <1>3 DEF CheckSignal, Inv, Held, InHand, ghost
<1>4. CASE Tokenize
  <2> DEFINE t == Tokens(tok, n, line)
  <2>1. InHand /\ Tokenized(t) /\ cut' = cut
    BY <1>4 DEF Tokenize, InHand
  <2>2. t \in Tokenizer /\ Balanced(t) /\ \A i \in t.lines : cut <= i /\ i <= n
    BY <2>1, TokensHeld DEF Inv, TypeOK
  <2> HIDE DEF t
  <2> QED
    BY <2>1, <2>2, TokenizedHeld
<1>5. CASE TokFailed
  <2>1. /\ pc = "tokenize" /\ pc' = "el_gets" /\ InHand
        /\ UNCHANGED <<n, cut, words, log>>
    BY <1>5 DEF TokFailed, InHand
  <2>2. Balanced(tok') /\ \A i \in tok'.lines : cut <= i /\ i <= n
    BY <1>5, <2>1, TokFailedHeld
  <2> QED
    BY <2>1, <2>2 DEF Inv, Held, Balanced, InHand
<1>6. CASE Dispatch
  <2>1. /\ pc = "dispatch" /\ pc' \in {"dispatch", "reset", "returned"}
        /\ UNCHANGED <<n, tok, words, cut>>
    BY <1>6 DEF Dispatch
  <2>2. log' = log \/ \E rs : log' = Append(log, [lines |-> words.lines, results |-> rs])
    BY <1>6 DEF Dispatch
  <2>3. \A k \in 1..Len(log') : \A i \in log'[k].lines : i <= n
    <3>1. CASE log' = log
      BY <3>1 DEF Inv, Held
    <3>2. ASSUME NEW rs, log' = Append(log, [lines |-> words.lines, results |-> rs])
          PROVE  \A k \in 1..Len(log') : \A i \in log'[k].lines : i <= n
      <4> DEFINE entry == [lines |-> words.lines, results |-> rs]
      <4>1. log \in Seq([lines : SUBSET Nat, results : Seq(CommandResults)])
        BY DEF Inv, TypeOK
      <4>2. /\ Len(log') = Len(log) + 1 /\ Len(log) \in Nat
            /\ \A k \in 1..Len(log) : log'[k] = log[k]
            /\ log'[Len(log) + 1] = entry
        BY <3>2, <4>1, AppendElements
      <4>3. \A k \in 1..Len(log') : k \in 1..Len(log) \/ k = Len(log) + 1
        BY <4>2
      <4>4. entry.lines = words.lines
        OBVIOUS
      <4> HIDE DEF entry
      <4> QED
        BY <2>1, <4>2, <4>3, <4>4 DEF Inv, Held
    <3> QED
      BY <2>2, <3>1, <3>2
  <2> QED
    BY <2>1, <2>3 DEF Inv, Held, InHand, Balanced
<1>7. CASE TokReset
  <2>1. /\ pc' = "el_gets" /\ tok' = NoTokens /\ tok'.lines = {}
        /\ UNCHANGED <<n, cut, log>>
    BY <1>7 DEF TokReset, tok_reset, NoTokens, ghost
  <2> QED
    BY <2>1, NoTokensType DEF Inv, Held, InHand, Balanced
<1>8. CASE Signal
  <2>1. /\ tok' = NoTokens /\ tok'.lines = {} /\ cut' = IF InHand THEN n ELSE n + 1
        /\ UNCHANGED <<pc, n, words, log>>
    BY <1>8 DEF Signal, tok_reset, Interrupted, NoTokens, main
  <2>2. n \in Nat
    BY DEF Inv, TypeOK
  <2> QED
    BY <2>1, <2>2, NoTokensType DEF Inv, Held, InHand, Balanced
<1>9. CASE SignalInTokStr
  <2>1. PICK rest \in Tails(line.words), toggles \in BOOLEAN :
          Tokenized(Tokens(NoTokens, n, [line EXCEPT !.words = rest, !.toggles = toggles]))
    BY <1>9 DEF SignalInTokStr
  <2> DEFINE t == Tokens(NoTokens, n, [line EXCEPT !.words = rest, !.toggles = toggles])
  <2>2. InHand /\ cut' = n /\ n \in Nat
    BY <1>9 DEF SignalInTokStr, Interrupted, InHand, Inv, TypeOK
  <2>3. t \in Tokenizer /\ Balanced(t) /\ t.lines \subseteq {n}
    BY TailLine, FreshTokens
  <2> HIDE DEF t
  <2>4. \A i \in t.lines : cut' <= i /\ i <= n
    BY <2>2, <2>3
  <2>5. Tokenized(t)
    BY <2>1 DEF t
  <2> QED
    BY <2>2, <2>3, <2>4, <2>5, TokenizedHeld
<1>10. CASE Returned \/ UNCHANGED vars
  BY <1>10 DEF Returned, vars, main, Inv, Held, InHand, Balanced
<1> QED
  BY <1>1, <1>2, <1>3, <1>4, <1>5, <1>6, <1>7, <1>8, <1>9, <1>10 DEF Next, Run

LEMMA Invariance == Spec => []Inv
BY InitInv, NextInv, PTL DEF Spec
-----------------------------------------------------------------------------
(***************************************************************************)
(* No statement takes in a line typed before the last Ctrl+c               *)
(* (SignalCancels; cli.cpp:120-129, 248-260): only a tok_str that returns, *)
(* interrupted or not, starts a statement, and it holds nothing older.     *)
(***************************************************************************)
THEOREM SignalCancelsCorrect == Spec => SignalCancels
<1>1. ASSUME Inv, [Next]_vars
      PROVE  [pc # "dispatch" /\ pc' = "dispatch" => \A i \in words'.lines : i >= cut']_vars
  <2>1. SUFFICES ASSUME pc # "dispatch", pc' = "dispatch", Next
                 PROVE  \A i \in words'.lines : i >= cut'
    BY <1>1 DEF vars, main
  <2>2. Tokenize \/ SignalInTokStr
    BY <2>1 DEF Next, Run, GetLine, EndOfInput, CheckSignal, TokFailed, Dispatch, TokReset,
                Signal, Returned, main, vars
  <2>3. n \in Nat /\ cut \in 0..n + 1 /\ InHand
    BY <1>1, <2>2 DEF Inv, TypeOK, InHand, Tokenize, SignalInTokStr
  <2>4. CASE Tokenize
    <3> DEFINE t == Tokens(tok, n, line)
    <3>1. t \in Tokenizer /\ \A i \in t.lines : cut <= i
      BY <1>1, <2>3, TokensHeld DEF Inv, TypeOK
    <3> HIDE DEF t
    <3>2. words' = t /\ cut' = cut
      BY <2>1, <2>4 DEF Tokenize, Tokenized, t
    <3>3. \A i \in t.lines : i \in Nat
      BY <3>1 DEF Tokenizer
    <3> QED
      BY <2>3, <3>1, <3>2, <3>3
  <2>5. CASE SignalInTokStr
    <3>1. PICK rest \in Tails(line.words), toggles \in BOOLEAN :
            Tokenized(Tokens(NoTokens, n, [line EXCEPT !.words = rest, !.toggles = toggles]))
      BY <2>5 DEF SignalInTokStr
    <3> DEFINE t == Tokens(NoTokens, n, [line EXCEPT !.words = rest, !.toggles = toggles])
    <3>2. t.lines \subseteq {n}
      BY <1>1, TailLine, FreshTokens
    <3> HIDE DEF t
    <3>3. words' = t /\ cut' = n
      BY <2>1, <2>3, <2>5, <3>1 DEF SignalInTokStr, Interrupted, Tokenized, t
    <3> QED
      BY <2>3, <3>2, <3>3
  <2> QED
    BY <2>2, <2>4, <2>5
<1> QED
  BY <1>1, Invariance, PTL DEF Spec, SignalCancels
-----------------------------------------------------------------------------
(***************************************************************************)
(* The two flags and the tokenizer agree at every step of the loop that a  *)
(* signal can follow; after the check of the flag, previous_line_completed *)
(* alone does.                                                             *)
(***************************************************************************)
Sync ==
  /\ pc \in {"el_gets", "got_line"} /\ ~torn =>
       ((prevCompleted \/ signalReceived) <=> tok = NoTokens)
  /\ pc = "tokenize" /\ ~torn => ~signalReceived /\ (prevCompleted <=> tok = NoTokens)
  /\ pc \in {"dispatch", "reset"} => prevCompleted

\* A line that leaves nothing to dispatch leaves the tokenizer empty or open.
LEMMA NothingToDispatch ==
  ASSUME NEW t \in Tokenizer, Balanced(t), ~Dispatchable(t), t.open = "none"
  PROVE  t = NoTokens
<1>1. t.words = <<>> /\ t.lines = {}
  BY DEF Dispatchable, Complete, Balanced
<1> QED
  BY <1>1 DEF Tokenizer, NoTokens

LEMMA SyncNext == Inv /\ Sync /\ [Next]_vars => Sync'
<1> SUFFICES ASSUME Inv, Sync, [Next]_vars PROVE Sync'
  OBVIOUS
<1>1. CASE GetLine
  BY <1>1 DEF GetLine, Sync
<1>2. CASE EndOfInput
  BY <1>2 DEF EndOfInput, Sync
<1>3. CASE CheckSignal
  BY <1>3 DEF CheckSignal, Sync
<1>4. CASE Tokenize
  <2> DEFINE t == Tokens(tok, n, line)
  <2>1. /\ pc = "tokenize" /\ Tokenized(t) /\ UNCHANGED signalReceived
        /\ torn' = (torn /\ t # NoTokens)
    BY <1>4 DEF Tokenize
  <2>2. t \in Tokenizer /\ Balanced(t)
    BY <2>1, TokensHeld DEF Inv, TypeOK, InHand
  <2> HIDE DEF t
  <2>3. /\ tok' = t /\ prevCompleted' = (t.open = "none")
        /\ pc' = IF Dispatchable(t) THEN "dispatch" ELSE "el_gets"
    BY <2>1 DEF Tokenized, NextCompleted, Complete
  <2>4. CASE Dispatchable(t)
    BY <2>3, <2>4 DEF Sync, Dispatchable, Complete
  <2>5. CASE ~Dispatchable(t) /\ t = NoTokens
    BY <2>3, <2>5 DEF Sync, NoTokens
  <2>6. CASE ~Dispatchable(t) /\ t # NoTokens
    <3>1. t.open # "none"
      BY <2>2, <2>6, NothingToDispatch
    <3> QED
      BY <2>1, <2>3, <2>6, <3>1 DEF Sync
  <2> QED
    BY <2>4, <2>5, <2>6
<1>5. CASE TokFailed
  BY <1>5 DEF TokFailed, Sync
<1>6. CASE Dispatch
  BY <1>6 DEF Dispatch, Sync
<1>7. CASE TokReset
  BY <1>7 DEF TokReset, tok_reset, Sync
<1>8. CASE Signal
  BY <1>8 DEF Signal, Interrupted, tok_reset, main, Sync
<1>9. CASE SignalInTokStr
  <2>1. PICK rest \in Tails(line.words), toggles \in BOOLEAN :
          LET t == Tokens(NoTokens, n, [line EXCEPT !.words = rest, !.toggles = toggles])
          IN  Tokenized(t) /\ torn' = (t # NoTokens)
    BY <1>9 DEF SignalInTokStr
  <2> DEFINE t == Tokens(NoTokens, n, [line EXCEPT !.words = rest, !.toggles = toggles])
  <2>2. Tokenized(t) /\ torn' = (t # NoTokens) /\ signalReceived' = TRUE
    BY <1>9, <2>1 DEF SignalInTokStr, Interrupted
  <2> HIDE DEF t
  <2>3. /\ tok' = t /\ prevCompleted' = (t.open = "none")
        /\ pc' = IF Dispatchable(t) THEN "dispatch" ELSE "el_gets"
    BY <2>2 DEF Tokenized, NextCompleted, Complete
  <2> QED
    BY <2>2, <2>3 DEF Sync, Dispatchable, Complete
<1>10. CASE Returned \/ UNCHANGED vars
  BY <1>10 DEF Returned, vars, main, Sync
<1> QED
  BY <1>1, <1>2, <1>3, <1>4, <1>5, <1>6, <1>7, <1>8, <1>9, <1>10 DEF Next, Run

(***************************************************************************)
(* Whenever Run waits for a line, previous_line_completed or the flag of   *)
(* the handler says "nothing pending" exactly when the tokenizer holds     *)
(* nothing (InSync).                                                       *)
(***************************************************************************)
THEOREM InSyncCorrect == Spec => []InSync
<1>1. Init => Sync
  BY DEF Init, Sync
<1>2. Sync => InSync
  BY DEF Sync, InSync
<1> QED
  BY <1>1, <1>2, SyncNext, Invariance, PTL DEF Spec
-----------------------------------------------------------------------------
(***************************************************************************)
(* The command line implements the command stream (StreamSpec): every step *)
(* of Run and of the handler is a step of the stream, or changes nothing   *)
(* it can see.                                                             *)
(***************************************************************************)
handled == [k \in 1..Len(log) |-> log[k].lines]

\* The line in hand has not been handled: the stream may still take it.
LEMMA NewestInHand == ASSUME Inv, InHand PROVE Stream!Newest = {n}
<1>1. \A k \in 1..Len(log) : n \notin log[k].lines
  <2>1. n \in Nat
    BY DEF Inv, TypeOK
  <2>2. \A k \in 1..Len(log) : \A i \in log[k].lines : i < n
    BY DEF Inv, Held
  <2>3. ~(n < n)
    BY <2>1
  <2> QED
    BY <2>2, <2>3
<1>2. Len(handled) = Len(log)
  <2>1. Len(log) \in Nat
    BY DEF Inv, TypeOK
  <2> QED
    BY <2>1 DEF handled
<1>3. \A k \in 1..Len(handled) : n \notin handled[k]
  BY <1>1, <1>2 DEF handled
<1>4. Running = {}
  BY DEF InHand, Running
<1> QED
  BY <1>3, <1>4 DEF Stream!Newest, handled, Running

\* tok_str returns with t: a statement is started, or the lines are gathered.
LEMMA TokenizedStream ==
  ASSUME Inv, InHand, NEW t \in Tokenizer, Balanced(t), Tokenized(t), n' = n,
         cut' \in {cut, n, n + 1},
         t.lines \subseteq tok.lines \cup {n}, \A i \in t.lines : i >= cut'
  PROVE  Stream!Start \/ Stream!Gather
<1>1. /\ tok' = t /\ log' = log /\ Gathering = tok.lines /\ Running = {}
      /\ Stream!Newest = {n}
  BY NewestInHand DEF Tokenized, InHand, Gathering, Running
<1>2. CASE Dispatchable(t)
  <2>1. pc' = "dispatch" /\ words' = t /\ t.lines # {}
    BY <1>2 DEF Tokenized, Dispatchable, Balanced
  <2>2. Gathering' = {} /\ Running' = t.lines
    BY <2>1 DEF Gathering, Running
  <2>3. Running' \in (SUBSET (Gathering \cup {n})) \ {{}}
    BY <1>1, <2>1, <2>2
  <2>4. Stream!Start
    BY <1>1, <2>2, <2>3 DEF Stream!Start, Stream!Interruption, Gathering, Running
  <2> QED
    BY <2>4
<1>3. CASE ~Dispatchable(t)
  <2>1. pc' = "el_gets"
    BY <1>3 DEF Tokenized
  <2>2. Stream!Gather
    BY <1>1, <2>1 DEF Stream!Gather, Stream!Interruption, Gathering, Running
  <2> QED
    BY <2>2
<1> QED
  BY <1>2, <1>3

\* The loop over the groups goes on, or the statement is handled.
LEMMA DispatchEnds ==
  ASSUME Dispatch
  PROVE  \/ pc' = "dispatch" /\ log' = log
         \/ /\ pc' \in {"reset", "returned"}
            /\ \E rs : log' = Append(log, [lines |-> words.lines, results |-> rs])
<1>1. PICK r \in CallGroup(CommandGroups[Len(tried) + 1], words.words) :
        LET results == Append(tried, r)
            done    == LoopEnds(results)
        IN  /\ pc' = IF r = "exit" THEN "returned" ELSE IF done THEN "reset" ELSE pc
            /\ log' = IF done
                        THEN Append(log, [lines |-> words.lines, results |-> results])
                        ELSE log
  BY DEF Dispatch
<1>2. r = "exit" => LoopEnds(Append(tried, r))
  BY DEF LoopEnds, Last1
<1> QED
  BY <1>1, <1>2 DEF Dispatch

LEMMA HandledAppend ==
  ASSUME log \in Seq([lines : SUBSET Nat, results : Seq(CommandResults)]),
         NEW e, log' = Append(log, e)
  PROVE  handled' = Append(handled, e.lines)
<1>1. /\ Len(log') = Len(log) + 1 /\ Len(log) \in Nat
      /\ \A k \in 1..Len(log) : log'[k] = log[k]
      /\ log'[Len(log) + 1] = e
  BY AppendElements
<1>2. handled \in Seq(SUBSET Nat) /\ Len(handled) = Len(log)
  <2>1. \A k \in 1..Len(log) : log[k].lines \in SUBSET Nat
    <3>1. \A k \in 1..Len(log) :
            log[k] \in [lines : SUBSET Nat, results : Seq(CommandResults)]
      BY ElementType
    <3> QED
      BY <3>1
  <2> QED
    BY <1>1, <2>1 DEF handled
<1> QED
  BY <1>1, <1>2 DEF handled

LEMMA StreamNext == Inv /\ Inv' /\ [Next]_vars => [Stream!Next]_(Stream!vars)
<1> USE DEF Gathering, Running
<1> SUFFICES ASSUME Inv, Inv', [Next]_vars PROVE [Stream!Next]_(Stream!vars)
  OBVIOUS
<1>1. CASE GetLine
  <2>1. Stream!Read
    BY <1>1 DEF GetLine, Stream!Read
  <2> QED
    BY <2>1 DEF Stream!Next
<1>2. CASE EndOfInput
  <2>1. Stream!Gather
    BY <1>2 DEF EndOfInput, Stream!Gather, Stream!Interruption
  <2> QED
    BY <2>1 DEF Stream!Next
<1>3. CASE CheckSignal
  BY <1>3 DEF CheckSignal, Stream!vars
<1>4. CASE Tokenize
  <2> DEFINE t == Tokens(tok, n, line)
  <2>1. InHand /\ Tokenized(t) /\ cut' = cut /\ n' = n /\ n \in Nat /\ cut \in Nat
    BY <1>4 DEF Tokenize, Tokenized, InHand, Inv, TypeOK
  <2>2. /\ t \in Tokenizer /\ Balanced(t) /\ t.lines \subseteq tok.lines \cup {n}
        /\ \A i \in t.lines : cut <= i
    BY <2>1, TokensHeld DEF Inv, TypeOK
  <2> HIDE DEF t
  <2>3. \A i \in t.lines : i >= cut'
    BY <2>1, <2>2 DEF Tokenizer
  <2> QED
    BY <2>1, <2>2, <2>3, TokenizedStream DEF Stream!Next
<1>5. CASE TokFailed
  <2>1. /\ pc = "tokenize" /\ pc' = "el_gets" /\ InHand
        /\ UNCHANGED <<n, cut, words, log>>
    BY <1>5 DEF TokFailed, InHand
  <2>2. tok'.lines \subseteq tok.lines \cup {n} /\ \A i \in tok'.lines : i >= cut
    <3>1. /\ tok'.lines \subseteq tok.lines \cup {n} /\ tok'.lines \in SUBSET Nat
          /\ \A i \in tok'.lines : cut <= i /\ cut \in Nat
      BY <1>5, <2>1, TokFailedHeld DEF Inv, TypeOK, Tokenizer
    <3> QED
      BY <3>1
  <2>3. Stream!Gather
    BY <2>1, <2>2, NewestInHand DEF Stream!Gather, Stream!Interruption
  <2> QED
    BY <2>3 DEF Stream!Next
<1>6. CASE Dispatch
  <2>1. /\ pc = "dispatch" /\ UNCHANGED <<n, tok, words, cut>>
    BY <1>6 DEF Dispatch
  <2>2. \/ pc' = "dispatch" /\ log' = log
        \/ /\ pc' \in {"reset", "returned"}
           /\ \E rs : log' = Append(log, [lines |-> words.lines, results |-> rs])
    BY <1>6, DispatchEnds
  <2>3. CASE pc' = "dispatch" /\ log' = log
    BY <2>1, <2>3 DEF Stream!vars
  <2>4. ASSUME pc' \in {"reset", "returned"}, NEW rs,
               log' = Append(log, [lines |-> words.lines, results |-> rs])
        PROVE  Stream!Finish
    <3>1. handled' = Append(handled, words.lines)
      BY <2>4, HandledAppend DEF Inv, TypeOK
    <3>2. words.lines # {}
      BY <2>1 DEF Inv, Held
    <3> QED
      BY <2>1, <2>4, <3>1, <3>2 DEF Stream!Finish, handled
  <2> QED
    BY <2>2, <2>3, <2>4 DEF Stream!Next
<1>7. CASE TokReset
  <2>1. tok'.lines = {} /\ pc = "reset" /\ pc' = "el_gets" /\ UNCHANGED <<n, cut, log>>
    BY <1>7 DEF TokReset, tok_reset, NoTokens
  <2> QED
    BY <2>1 DEF Stream!vars
<1>8. CASE Signal
  <2>1. /\ tok'.lines = {} /\ cut' \in {n, n + 1}
        /\ UNCHANGED <<pc, n, words, log>>
    BY <1>8 DEF Signal, tok_reset, Interrupted, NoTokens, main
  <2>2. Stream!Gather
    BY <2>1 DEF Stream!Gather, Stream!Interruption
  <2> QED
    BY <2>2 DEF Stream!Next
<1>9. CASE SignalInTokStr
  <2>1. PICK rest \in Tails(line.words), toggles \in BOOLEAN :
          Tokenized(Tokens(NoTokens, n, [line EXCEPT !.words = rest, !.toggles = toggles]))
    BY <1>9 DEF SignalInTokStr
  <2> DEFINE t == Tokens(NoTokens, n, [line EXCEPT !.words = rest, !.toggles = toggles])
  <2>2. InHand /\ cut' = n /\ n \in Nat
    BY <1>9 DEF SignalInTokStr, Interrupted, InHand, Inv, TypeOK
  <2>3. t \in Tokenizer /\ Balanced(t) /\ t.lines \subseteq {n}
    BY TailLine, FreshTokens
  <2> HIDE DEF t
  <2>4. Tokenized(t) /\ n' = n
    BY <2>1 DEF t, Tokenized
  <2>5. \A i \in t.lines : i >= cut'
    BY <2>2, <2>3
  <2> QED
    BY <2>2, <2>3, <2>4, <2>5, TokenizedStream DEF Stream!Next
<1>10. CASE Returned \/ UNCHANGED vars
  BY <1>10 DEF Returned, vars, main, Stream!vars
<1> QED
  BY <1>1, <1>2, <1>3, <1>4, <1>5, <1>6, <1>7, <1>8, <1>9, <1>10 DEF Next, Run

THEOREM StreamImplemented == Spec => StreamSpec
<1>1. Init => Stream!Init
  <2> SUFFICES ASSUME Init PROVE Stream!Init
    OBVIOUS
  <2>1. log = <<>> /\ n = 0 /\ pc = "el_gets" /\ tok.lines = {} /\ cut = 0
    BY DEF Init, NoTokens
  <2>2. [k \in 1..Len(log) |-> log[k].lines] = <<>>
    BY <2>1
  <2>3. Gathering = {} /\ Running = {}
    BY <2>1 DEF Gathering, Running
  <2> QED
    BY <2>1, <2>2, <2>3 DEF Stream!Init
<1> QED
  BY <1>1, StreamNext, Invariance, PTL DEF Spec, StreamSpec, Stream!Spec

(***************************************************************************)
(* So the lines handled are in the order they were typed, none of them     *)
(* handled twice (Stream!InOrder).                                         *)
(***************************************************************************)
StreamProofs == INSTANCE CommandStream_proofs WITH
  read      <- n,
  gathering <- Gathering,
  running   <- Running,
  handled   <- [k \in 1..Len(log) |-> log[k].lines]

LEMMA StreamsAgree == StreamProofs!Spec <=> Stream!Spec
<1>1. StreamProofs!Init <=> Stream!Init
  BY DEF StreamProofs!Init, Stream!Init
<1>2. [StreamProofs!Next]_(StreamProofs!vars) <=> [Stream!Next]_(Stream!vars)
  BY DEF StreamProofs!Next, Stream!Next, StreamProofs!vars, Stream!vars,
         StreamProofs!Read, Stream!Read, StreamProofs!Gather, Stream!Gather,
         StreamProofs!Start, Stream!Start, StreamProofs!Finish, Stream!Finish,
         StreamProofs!Interruption, Stream!Interruption,
         StreamProofs!Newest, Stream!Newest
<1> QED
  BY <1>1, <1>2, PTL DEF StreamProofs!Spec, Stream!Spec

THEOREM HandledInOrder == Spec => []Stream!InOrder
<1>1. StreamProofs!Spec => []StreamProofs!InOrder
  BY StreamProofs!StreamInOrder
<1>2. StreamProofs!InOrder <=> Stream!InOrder
  BY DEF StreamProofs!InOrder, Stream!InOrder
<1> QED
  BY <1>1, <1>2, StreamsAgree, StreamImplemented, PTL DEF StreamSpec

(***************************************************************************)
(* And the statement whose commands are being asked is newer than all of   *)
(* them.                                                                   *)
(***************************************************************************)
THEOREM DispatchesNewest == Spec => []Stream!RunsNewest
<1>1. StreamProofs!Spec => []StreamProofs!RunsNewest
  BY StreamProofs!StreamRunsNewest
<1>2. StreamProofs!RunsNewest <=> Stream!RunsNewest
  BY DEF StreamProofs!RunsNewest, Stream!RunsNewest
<1> QED
  BY <1>1, <1>2, StreamsAgree, StreamImplemented, PTL DEF StreamSpec
-----------------------------------------------------------------------------
(***************************************************************************)
(* The groups asked so far did not know the statement in hand.  What Run   *)
(* will return says success only if the last statement handled did.        *)
(***************************************************************************)
Asked == \A g \in 1..Len(tried) : tried[g] = "unknown"

LastTold ==
  lastResult /\ log # <<>> => Last1(Last1(log).results) \in {"exit", "success"}

\* The last group has a command for everything.
LEMMA SqlKnowsAll == ASSUME NEW ws PROVE CallGroup(CommandGroups[2], ws) \subseteq {"success", "failure"}
<1> DEFINE group == CommandGroups[2]
<1>1. group = PsqlxxGroup
  BY DEF CommandGroups
<1>2. \A word \in DOMAIN group.named : group.named[word].action \in {"query", "conninfo"}
  BY <1>1 DEF PsqlxxGroup, Fixed
<1>3. group.anonymous = {Variadic("sql")}
  BY <1>1 DEF PsqlxxGroup
<1>4. \A c : c.action \in {"query", "conninfo", "sql"} =>
        CallCommand(c, ws) \subseteq {"success", "failure"}
  BY DEF CallCommand, ActionResults, ToCommandResult
<1>5. Variadic("sql").action = "sql"
  BY DEF Variadic
<1> HIDE DEF group
<1> QED
  BY <1>2, <1>3, <1>4, <1>5 DEF CallGroup, CommandFor, group

\* What one round of the loop over the groups leaves.
LEMMA DispatchAsked ==
  ASSUME Inv, Asked, OneCommandEach, LastTold, Dispatch
  PROVE  Asked' /\ OneCommandEach' /\ LastTold'
<1>1. PICK r \in CallGroup(CommandGroups[Len(tried) + 1], words.words) :
        LET results == Append(tried, r)
            done    == LoopEnds(results)
        IN  /\ lastResult' = ResultAfter(r)
            /\ tried' = IF done THEN <<>> ELSE results
            /\ log' = IF done
                        THEN Append(log, [lines |-> words.lines, results |-> results])
                        ELSE log
  BY DEF Dispatch
<1> DEFINE results == Append(tried, r)
           entry   == [lines |-> words.lines, results |-> results]
<1>2. tried \in Seq(CommandResults) /\ Len(tried) \in {0, 1}
  <2>1. tried \in Seq(CommandResults) /\ Len(tried) < Len(CommandGroups)
    BY DEF Inv, TypeOK
  <2>2. Len(tried) \in Nat
    BY <2>1
  <2>3. \A k \in Nat : k < 2 => k \in {0, 1}
    OBVIOUS
  <2> QED
    BY <2>1, <2>2, <2>3, TwoGroups
<1>3. r \in CommandResults
  <2>1. Len(tried) + 1 \in 1..Len(CommandGroups)
    BY <1>2, TwoGroups
  <2> QED
    BY <1>1, <2>1, CallGroupType
<1>4. /\ Len(results) = Len(tried) + 1 /\ results[Len(results)] = r
      /\ \A g \in 1..Len(tried) : results[g] = "unknown"
  <2>1. /\ Len(results) = Len(tried) + 1 /\ results[Len(tried) + 1] = r
        /\ \A g \in 1..Len(tried) : results[g] = tried[g]
    BY <1>2, AppendElements
  <2> QED
    BY <2>1 DEF Asked
<1>5. LoopEnds(results) <=> r # "unknown"
  <2>1. Len(results) = 2 => r \in {"success", "failure"}
    <3>1. Len(results) = 2 => Len(tried) + 1 = 2
      BY <1>4
    <3> QED
      BY <1>1, <3>1, SqlKnowsAll
  <2> QED
    BY <1>4, <2>1, TwoGroups DEF LoopEnds, Last1
<1> HIDE DEF results
<1>6. CASE r = "unknown"
  <2>1. tried' = results /\ log' = log /\ ~lastResult'
    <3>1. ~LoopEnds(Append(tried, r)) /\ ~ResultAfter(r)
      BY <1>5, <1>6 DEF results, ResultAfter
    <3> QED
      BY <1>1, <3>1 DEF results
  <2>2. Asked'
    <3>1. \A g \in 1..Len(results) : g \in 1..Len(tried) \/ g = Len(results)
      BY <1>2, <1>4
    <3> QED
      BY <1>4, <1>6, <2>1, <3>1 DEF Asked
  <2> QED
    BY <2>1, <2>2 DEF OneCommandEach, LastTold
<1>7. CASE r # "unknown"
  <2>1. tried' = <<>> /\ log' = Append(log, entry) /\ (lastResult' => r \in {"exit", "success"})
    <3>1. LoopEnds(Append(tried, r)) /\ (ResultAfter(r) => r \in {"exit", "success"})
      BY <1>5, <1>7 DEF results, ResultAfter
    <3> QED
      BY <1>1, <3>1 DEF results
  <2>2. log \in Seq([lines : SUBSET Nat, results : Seq(CommandResults)])
    BY DEF Inv, TypeOK
  <2>3. /\ Len(log') = Len(log) + 1 /\ Len(log) \in Nat
        /\ \A k \in 1..Len(log) : log'[k] = log[k]
        /\ log'[Len(log) + 1] = entry
    BY <2>1, <2>2, AppendElements
  <2>4. entry.results = results
    OBVIOUS
  <2> HIDE DEF entry
  <2>5. Asked'
    BY <2>1, EmptyType DEF Asked
  <2>6. \A g \in 1..Len(results) : (results[g] = "unknown") <=> (g < Len(results))
    <3>1. \A g \in 1..Len(results) :
            (g \in 1..Len(tried) /\ g < Len(results)) \/ (g = Len(results) /\ ~(g < Len(results)))
      BY <1>2, <1>4
    <3> QED
      BY <1>4, <1>7, <3>1
  <2>7. OneCommandEach'
    <3>1. \A k \in 1..Len(log') : k \in 1..Len(log) \/ k = Len(log) + 1
      BY <2>3
    <3> QED
      BY <2>3, <2>4, <2>6, <3>1 DEF OneCommandEach
  <2>8. LastTold'
    <3>1. Last1(log') = entry /\ Last1(results) = r
      BY <1>4, <2>3 DEF Last1
    <3> QED
      BY <2>1, <2>4, <3>1 DEF LastTold
  <2> QED
    BY <2>5, <2>7, <2>8
<1> QED
  BY <1>6, <1>7

LEMMA AskedNext ==
  Inv /\ Asked /\ OneCommandEach /\ LastTold /\ [Next]_vars
    => (Asked /\ OneCommandEach /\ LastTold)'
<1> SUFFICES ASSUME Inv, Asked, OneCommandEach, LastTold, [Next]_vars
             PROVE  Asked' /\ OneCommandEach' /\ LastTold'
  OBVIOUS
<1>1. CASE Dispatch
  BY <1>1, DispatchAsked
<1>2. CASE ~Dispatch
  <2>1. tried' = tried /\ log' = log /\ (lastResult' => lastResult)
    <3>1. CASE SignalInTokStr
      BY <3>1 DEF SignalInTokStr, Tokenized
    <3>2. CASE TokFailed
      BY <3>2 DEF TokFailed
    <3>3. CASE ~SignalInTokStr /\ ~TokFailed
      BY <1>2, <3>3 DEF Next, Run, GetLine, EndOfInput, CheckSignal, Tokenize, Tokenized,
         TokReset, Signal, Returned, vars, main
    <3> QED
      BY <3>1, <3>2, <3>3
  <2> QED
    BY <2>1 DEF Asked, OneCommandEach, LastTold
<1> QED
  BY <1>1, <1>2

LEMMA AskedAlways == Spec => [](OneCommandEach /\ LastTold)
<1>1. Init => Asked /\ OneCommandEach /\ LastTold
  <2> SUFFICES ASSUME Init PROVE Asked /\ OneCommandEach /\ LastTold
    OBVIOUS
  <2>1. tried = <<>> /\ log = <<>> /\ Len(tried) = 0 /\ Len(log) = 0
    BY EmptyType DEF Init
  <2> QED
    BY <2>1 DEF Asked, OneCommandEach, LastTold
<1> QED
  BY <1>1, AskedNext, Invariance, PTL DEF Spec

(***************************************************************************)
(* Exactly one command handles a statement, whatever groups were asked     *)
(* before (OneCommandEach; the loop over the groups, cli.cpp:278-288).     *)
(***************************************************************************)
THEOREM OneCommandEachCorrect == Spec => []OneCommandEach
BY AskedAlways, PTL

(***************************************************************************)
(* Run returns success only after exit, or after a statement that          *)
(* succeeded with no failed line since (ResultOfLastCommand).              *)
(***************************************************************************)
THEOREM ResultOfLastCommandCorrect == Spec => []ResultOfLastCommand
<1>1. LastTold => ResultOfLastCommand
  BY DEF LastTold, ResultOfLastCommand
<1> QED
  BY <1>1, AskedAlways, PTL
-----------------------------------------------------------------------------
\* tok_str keeps the lines it holds, and takes in a line that has words.
LEMMA TokensKeep ==
  ASSUME NEW t, NEW id, NEW l
  PROVE  /\ t.lines \subseteq Tokens(t, id, l).lines
         /\ l.words # <<>> => id \in Tokens(t, id, l).lines
<1> DEFINE lines == IF t.open = "quote" \/ l.words # <<>> THEN t.lines \cup {id} ELSE t.lines
<1>1. Tokens(t, id, l).lines = lines
  BY DEF Tokens
<1>2. t.lines \subseteq lines /\ (l.words # <<>> => id \in lines)
  OBVIOUS
<1> QED
  BY <1>1, <1>2

LEMMA AppendHandled ==
  ASSUME Inv, NEW e, log' = Append(log, e)
  PROVE  Handled \subseteq Handled' /\ e.lines \subseteq Handled'
<1>1. /\ Len(log') = Len(log) + 1 /\ Len(log) \in Nat
      /\ \A k \in 1..Len(log) : log'[k] = log[k]
      /\ log'[Len(log) + 1] = e
  BY AppendElements DEF Inv, TypeOK
<1>2. Len(log) + 1 \in 1..Len(log') /\ 1..Len(log) \subseteq 1..Len(log')
  BY <1>1
<1> QED
  BY <1>1, <1>2 DEF Handled

LEMMA NothingLost ==
  ASSUME Inv, Run, errors' = errors, ~EndOfInput
  PROVE  Live \subseteq Live'
<1> USE DEF Live, Gathering, Running, Fresh, InHand
<1>1. CASE GetLine
  BY <1>1 DEF GetLine, Handled
<1>2. CASE CheckSignal
  BY <1>2 DEF CheckSignal, Ignored, Handled, ghost
<1>3. CASE Tokenize
  <2> DEFINE t == Tokens(tok, n, line)
  <2>1. pc = "tokenize" /\ Tokenized(t) /\ InHand
    BY <1>3 DEF Tokenize
  <2>2. t \in Tokenizer /\ Balanced(t)
    BY <2>1, TokensHeld DEF Inv, TypeOK
  <2>3. tok.lines \subseteq t.lines /\ (line.words # <<>> => n \in t.lines)
    BY TokensKeep
  <2> HIDE DEF t
  <2>4. /\ tok' = t /\ Handled' = Handled
        /\ pc' = "el_gets" \/ (pc' = "dispatch" /\ words' = t)
    BY <2>1 DEF Tokenized, Handled
  <2> QED
    BY <2>1, <2>3, <2>4
<1>4. CASE Dispatch
  <2>1. pc = "dispatch" /\ words' = words
    BY <1>4 DEF Dispatch
  <2>2. \/ pc' = "dispatch" /\ log' = log
        \/ \E rs : log' = Append(log, [lines |-> words.lines, results |-> rs])
    BY <1>4, DispatchEnds
  <2>3. CASE pc' = "dispatch" /\ log' = log
    BY <2>1, <2>3 DEF Handled
  <2>4. ASSUME NEW rs, log' = Append(log, [lines |-> words.lines, results |-> rs])
        PROVE  Live \subseteq Live'
    <3> DEFINE entry == [lines |-> words.lines, results |-> rs]
    <3>1. Handled \subseteq Handled' /\ entry.lines \subseteq Handled'
      BY <2>4, AppendHandled
    <3>2. entry.lines = words.lines
      OBVIOUS
    <3> HIDE DEF entry
    <3> QED
      BY <2>1, <3>1, <3>2
  <2> QED
    BY <2>2, <2>3, <2>4
<1>5. CASE TokReset
  BY <1>5 DEF TokReset, Handled
<1>6. CASE TokFailed
  <2>1. errors' = errors + 1 /\ errors \in Nat
    BY <1>6 DEF TokFailed, Inv, TypeOK
  <2> QED
    BY <2>1
<1> QED
  BY <1>1, <1>2, <1>3, <1>4, <1>5, <1>6 DEF Run

(***************************************************************************)
(* No line with words in it gets lost but by an error, by a signal while   *)
(* it was pending, or by the end of the input (NoLineLost).                *)
(***************************************************************************)
THEOREM NoLineLostCorrect == Spec => NoLineLost
<1> DEFINE Keeps ==
      errors' = errors /\ ~(pc = "el_gets" /\ pc' = "returned") =>
        Live \ Live' \subseteq IF signals' = signals THEN {} ELSE Gathering \cup Fresh
<1>1. ASSUME Inv, Next PROVE Keeps
  <2> SUFFICES ASSUME errors' = errors, ~(pc = "el_gets" /\ pc' = "returned")
               PROVE  Live \ Live' \subseteq
                        IF signals' = signals THEN {} ELSE Gathering \cup Fresh
    OBVIOUS
  <2>1. CASE Run
    <3>1. ~EndOfInput
      BY DEF EndOfInput
    <3> QED
      BY <1>1, <2>1, <3>1, NothingLost
  <2>2. CASE Signal \/ SignalInTokStr
    <3>1. signals' # signals /\ log' = log
      <4>1. signals' = signals + 1 /\ signals \in Nat
        BY <1>1, <2>2 DEF Signal, SignalInTokStr, Interrupted, Inv, TypeOK
      <4>2. log' = log
        BY <2>2 DEF Signal, SignalInTokStr, Tokenized
      <4> QED
        BY <4>1, <4>2
    <3>2. Running \subseteq Running'
      BY <2>2 DEF Signal, SignalInTokStr, main, Running
    <3> QED
      BY <3>1, <3>2 DEF Live, Handled
  <2>3. CASE Returned
    BY <2>3 DEF Returned, vars, main, Live, Gathering, Running, Handled, Fresh, InHand
  <2> QED
    BY <1>1, <2>1, <2>2, <2>3 DEF Next
<1>2. Inv /\ [Next]_vars => [Keeps]_vars
  BY <1>1
<1> QED
  BY <1>2, Invariance, PTL DEF Spec, NoLineLost
-----------------------------------------------------------------------------
\* The tokens of one line more, whatever the numbers of the lines.
Tokenizers == [lines : SUBSET Int, words : Seq(Word), open : {"none", "quote", "escape"}]

LEMMA TokensAnywhere ==
  ASSUME NEW t \in Tokenizers, NEW id \in Int, NEW l \in Line
  PROVE  Tokens(t, id, l) \in Tokenizers
<1> DEFINE quoted == t.open = "quote"
           front == SubSeq(t.words, 1, Len(t.words) - 1)
           rest  == SubSeq(l.words, 2, Len(l.words))
<1>1. /\ t.lines \in SUBSET Int /\ t.words \in Seq(Word)
      /\ l.words \in Seq(Word) /\ l.toggles \in BOOLEAN
  BY DEF Tokenizers, Line
<1>2. front \in Seq(Word) /\ rest \in Seq(Word)
  BY <1>1
<1>3. front \o <<Fragment>> \o rest \in Seq(Word)
  <2>1. <<Fragment>> \in Seq(Word)
    BY DEF Word
  <2> HIDE DEF front, rest
  <2> QED
    BY <1>2, <2>1
<1>4. t.words \o l.words \in Seq(Word)
  BY <1>1
<1> QED
  BY <1>1, <1>3, <1>4 DEF Tokens, Tokenizers

(***************************************************************************)
(* Statement, a fold over the lines, line by line: the tokenizer before    *)
(* each of them and after the last.                                        *)
(***************************************************************************)
Tokenizing(f, ls, last) ==
  /\ f[0] = NoTokens
  /\ \A k \in 1..Len(ls) : f[k] = Tokens(f[k - 1], last - Len(ls) + k, ls[k])

LEMMA StatementSteps ==
  ASSUME NEW ls \in Seq(Line), NEW last \in Int
  PROVE  \E f : Tokenizing(f, ls, last) /\ Statement(ls, last) = f[Len(ls)]
<1> DEFINE len == Len(ls)
           numberOf(k) == last - len + k
           idx == [i \in DOMAIN ls |-> i]
           Iterates(iter) == iter = [s \in SUBSET DOMAIN idx |->
             IF s = {} THEN NoTokens
                       ELSE Tokens(iter[s \ {Max(s)}], last - len + idx[Max(s)],
                                   ls[idx[Max(s)]])]
           it == CHOOSE iter : Iterates(iter)
           steps == [k \in 1..len |-> [t \in Tokenizers |-> Tokens(t, numberOf(k), ls[k])]]
<1>1. /\ DOMAIN idx = 1..len /\ len \in Nat /\ \A k \in 1..len : idx[k] = k /\ numberOf(k) \in Int
      /\ \A k \in 1..len : ls[k] \in Line
  OBVIOUS
<1>2. Statement(ls, last) = it[1..len]
  BY <1>1 DEF Statement, FoldLeftDomain, FoldLeft, MapThenFoldSet
<1>3. steps \in [1..len -> [Tokenizers -> Tokenizers]]
  <2> HIDE DEF len
  <2>1. \A k \in 1..len : \A t \in Tokenizers : Tokens(t, numberOf(k), ls[k]) \in Tokenizers
    BY <1>1, TokensAnywhere
  <2> HIDE DEF numberOf
  <2> QED
    BY <2>1
<1>4. NoTokens \in Tokenizers
  BY DEF NoTokens, Tokenizers
<1>5. PICK h \in [SUBSET (1..len) -> Tokenizers] : FoldOf(h, len, NoTokens, steps)
  <2> HIDE DEF len, steps
  <2> QED
    BY <1>1, <1>3, <1>4, FoldExists
<1>6. Iterates(h)
  <2>1. ASSUME NEW s \in SUBSET (1..len)
        PROVE  h[s] = IF s = {} THEN NoTokens
                      ELSE Tokens(h[s \ {Max(s)}], last - len + idx[Max(s)],
                                  ls[idx[Max(s)]])
    <3>1. CASE s # {}
      <4>1. Max(s) \in 1..len
        <5> HIDE DEF len
        <5> QED
          BY <1>1, <3>1, MaxOfSet
      <4>2. h[s] = steps[Max(s)][h[s \ {Max(s)}]] /\ h[s \ {Max(s)}] \in Tokenizers
        BY <1>5, <3>1 DEF FoldOf
      <4>3. idx[Max(s)] = Max(s)
        BY <1>1, <4>1
      <4> QED
        BY <3>1, <4>1, <4>2, <4>3
    <3>2. CASE s = {}
      BY <1>5, <3>2 DEF FoldOf
    <3> QED
      BY <3>1, <3>2
  <2> HIDE DEF idx, len
  <2> QED
    BY <1>1, <2>1
<1>7. Iterates(it)
  <2> HIDE DEF Iterates
  <2> QED
    BY <1>6
<1> HIDE DEF it
<1>8. it[{}] = NoTokens
  BY <1>1, <1>7
<1>9. ASSUME NEW k \in 1..len
      PROVE  it[1..k] = Tokens(it[1..(k - 1)], numberOf(k), ls[k])
  <2>1. 1..k # {} /\ Max(1..k) = k /\ (1..k) \ {k} = 1..(k - 1) /\ idx[k] = k
    <3>1. k \in Nat /\ k # 0
      OBVIOUS
    <3> QED
      BY <3>1, <1>1, MaxOfRange
  <2>2. 1..k \in SUBSET DOMAIN idx
    BY <1>1
  <2> HIDE DEF idx, len
  <2>3. \A s \in SUBSET DOMAIN idx :
          it[s] = IF s = {} THEN NoTokens
                  ELSE Tokens(it[s \ {Max(s)}], last - len + idx[Max(s)], ls[idx[Max(s)]])
    BY <1>7, Zenon
  <2>4. it[1..k] = Tokens(it[(1..k) \ {Max(1..k)}], last - len + idx[Max(1..k)],
                          ls[idx[Max(1..k)]])
    BY <2>1, <2>2, <2>3, Zenon
  <2> QED
    BY <2>1, <2>4, Zenon
<1> DEFINE f == [k \in 0..len |-> it[1..k]]
<1>10. 1..0 = {}
  OBVIOUS
<1>11. Tokenizing(f, ls, last)
  <2>1. f[0] = NoTokens
    BY <1>8, <1>10
  <2>2. \A k \in 1..len : k \in 0..len /\ k - 1 \in 0..len
    OBVIOUS
  <2>3. \A k \in 1..len : f[k] = Tokens(f[k - 1], numberOf(k), ls[k])
    BY <1>9, <2>2
  <2> QED
    BY <2>1, <2>3 DEF Tokenizing
<1>12. Statement(ls, last) = f[len]
  BY <1>1, <1>2
<1> QED
  BY <1>11, <1>12

\* A statement of no lines, and of one line more.
LEMMA StatementEmpty == ASSUME NEW last \in Int PROVE Statement(<<>>, last) = NoTokens
<1>1. <<>> \in Seq(Line) /\ Len(<<>>) = 0
  OBVIOUS
<1> QED
  BY <1>1, StatementSteps DEF Tokenizing

LEMMA StatementAppend ==
  ASSUME NEW ls \in Seq(Line), NEW l \in Line, NEW last \in Int
  PROVE  Statement(Append(ls, l), last) = Tokens(Statement(ls, last - 1), last, l)
<1> DEFINE len == Len(ls)
           more == Append(ls, l)
<1>1. /\ more \in Seq(Line) /\ Len(more) = len + 1 /\ len \in Nat
      /\ \A k \in 1..len : more[k] = ls[k]
      /\ more[len + 1] = l
  OBVIOUS
<1> HIDE DEF more
<1>2. PICK f : Tokenizing(f, ls, last - 1) /\ Statement(ls, last - 1) = f[len]
  BY StatementSteps
<1>3. PICK g : Tokenizing(g, more, last) /\ Statement(more, last) = g[len + 1]
  BY <1>1, StatementSteps
<1> DEFINE T == {k \in 0..len : g[k] # f[k]}
<1>4. T = {}
  <2> SUFFICES ASSUME T # {} PROVE FALSE
    OBVIOUS
  <2>1. T \subseteq Nat
    OBVIOUS
  <2>2. PICK k \in T : \A y \in T : k <= y
    <3> HIDE DEF T
    <3> QED
      BY <2>1, SmallestNumber
  <2>3. k # 0
    BY <1>2, <1>3, <2>2 DEF Tokenizing
  <2>4. k \in 1..len /\ k - 1 \in 0..len /\ k - 1 \notin T
    BY <2>2, <2>3
  <2>5. g[k - 1] = f[k - 1]
    BY <2>4
  <2>6. f[k] = Tokens(f[k - 1], last - 1 - len + k, ls[k])
    BY <1>2, <2>4 DEF Tokenizing
  <2>7. g[k] = Tokens(g[k - 1], last - (len + 1) + k, ls[k])
    BY <1>1, <1>3, <2>4 DEF Tokenizing
  <2>8. last - 1 - len + k = last - (len + 1) + k
    BY <1>1
  <2> QED
    BY <2>2, <2>5, <2>6, <2>7, <2>8
<1>5. g[len] = f[len]
  <2>1. len \in 0..len
    BY <1>1
  <2> QED
    BY <1>4, <2>1
<1>6. g[len + 1] = Tokens(g[len], last, l)
  <2>1. len + 1 \in 1..Len(more) /\ (len + 1) - 1 = len /\ last - Len(more) + (len + 1) = last
    BY <1>1
  <2> QED
    BY <1>1, <1>3, <2>1 DEF Tokenizing
<1> QED
  BY <1>2, <1>3, <1>5, <1>6 DEF more

(***************************************************************************)
(* The words of a statement and the quote it leaves open do not depend on  *)
(* the numbers of its lines.                                               *)
(***************************************************************************)
SameText(t, u) == t.words = u.words /\ t.open = u.open

LEMMA TokensSameText ==
  ASSUME NEW t, NEW u, SameText(t, u), NEW i, NEW j, NEW l
  PROVE  SameText(Tokens(t, i, l), Tokens(u, j, l))
BY DEF SameText, Tokens

LEMMA StatementSameText ==
  ASSUME NEW ls \in Seq(Line), NEW i \in Int, NEW j \in Int
  PROVE  SameText(Statement(ls, i), Statement(ls, j))
<1> DEFINE len == Len(ls)
<1>1. PICK f : Tokenizing(f, ls, i) /\ Statement(ls, i) = f[len]
  BY StatementSteps
<1>2. PICK g : Tokenizing(g, ls, j) /\ Statement(ls, j) = g[len]
  BY StatementSteps
<1> DEFINE T == {k \in 0..len : ~SameText(f[k], g[k])}
<1>3. T = {}
  <2> SUFFICES ASSUME T # {} PROVE FALSE
    OBVIOUS
  <2>1. T \subseteq Nat
    OBVIOUS
  <2>2. PICK k \in T : \A y \in T : k <= y
    <3> HIDE DEF T
    <3> QED
      BY <2>1, SmallestNumber
  <2>3. k # 0
    BY <1>1, <1>2, <2>2 DEF Tokenizing, SameText
  <2>4. k \in 1..len /\ k - 1 \in 0..len /\ k - 1 \notin T
    BY <2>2, <2>3
  <2>5. SameText(f[k - 1], g[k - 1])
    BY <2>4
  <2>6. /\ f[k] = Tokens(f[k - 1], i - len + k, ls[k])
        /\ g[k] = Tokens(g[k - 1], j - len + k, ls[k])
    BY <1>1, <1>2, <2>4 DEF Tokenizing
  <2>7. SameText(f[k], g[k])
    BY <2>5, <2>6, TokensSameText
  <2> QED
    BY <2>2, <2>7
<1>4. len \in 0..len
  OBVIOUS
<1> QED
  BY <1>1, <1>2, <1>3, <1>4
-----------------------------------------------------------------------------
(***************************************************************************)
(* While lines are gathered the tokenizer is what a fresh one makes of the *)
(* lines typed since the last statement or signal: of all of them when Run *)
(* waits for a line, of all but the last while that one is in hand.        *)
(***************************************************************************)
Before(ls) == typed = Append(ls, line) /\ tok = Statement(ls, n - 1)

Whole ==
  /\ line.short => ~line.toggles /\ ~line.escaped
  /\ ~torn /\ pc = "el_gets" /\ ~Unterminated(line) => tok = Statement(typed, n)
  /\ ~torn /\ InHand => \E ls \in Seq(Line) : Before(ls)
  /\ ~torn /\ pc = "dispatch" => words = Statement(typed, n)

\* An empty line, ignored or not, leaves a tokenizer with nothing in it alone.
LEMMA EmptyLineKeeps ==
  ASSUME NEW l \in Line, l.words = <<>>, ~l.toggles, ~l.escaped, NEW id
  PROVE  Tokens(NoTokens, id, l) = NoTokens
<1>1. <<>> \o <<>> = <<>>
  OBVIOUS
<1>2. l.words = <<>> /\ l.toggles = FALSE /\ l.escaped = FALSE
  BY DEF Line
<1> QED
  BY <1>1, <1>2 DEF Tokens, NoTokens

LEMMA BeforeWhole ==
  ASSUME Inv, NEW ls \in Seq(Line), Before(ls)
  PROVE  Statement(typed, n) = Tokens(tok, n, line)
<1>1. line \in Line /\ n \in Int
  BY DEF Inv, TypeOK
<1> QED
  BY <1>1, StatementAppend DEF Before

\* From tok_str to the next point where Run can be interrupted.
LEMMA TokenizedWhole ==
  ASSUME Inv, Whole, NEW t \in Tokenizer, Balanced(t), Tokenized(t),
         torn' \/ t = NoTokens \/ t = Statement(typed, n)
  PROVE  Whole'
<1>1. /\ pc' = IF Dispatchable(t) THEN "dispatch" ELSE "el_gets"
      /\ tok' = t /\ UNCHANGED <<line, n>>
  BY DEF Tokenized
<1>2. n \in Int
  BY DEF Inv, TypeOK
<1>3. CASE torn'
  BY <1>1, <1>3 DEF Whole, InHand
<1>4. CASE ~torn' /\ Dispatchable(t)
  <2>1. t # NoTokens /\ words' = t /\ typed' = typed
    BY <1>4 DEF Dispatchable, NoTokens, Tokenized
  <2> QED
    BY <1>1, <1>4, <2>1 DEF Whole, InHand
<1>5. CASE ~torn' /\ ~Dispatchable(t) /\ Complete(t)
  <2>1. t = NoTokens /\ typed' = <<>>
    BY <1>5, NothingToDispatch DEF Complete, Tokenized
  <2>2. tok' = Statement(typed', n)
    BY <1>1, <1>2, <2>1, StatementEmpty
  <2> QED
    BY <1>1, <1>5, <2>2 DEF Whole, InHand
<1>6. CASE ~torn' /\ ~Dispatchable(t) /\ ~Complete(t)
  <2>1. t # NoTokens /\ typed' = typed
    BY <1>6 DEF Complete, NoTokens, Tokenized
  <2> QED
    BY <1>1, <1>6, <2>1 DEF Whole, InHand
<1> QED
  BY <1>3, <1>4, <1>5, <1>6

LEMMA WholeNext == Inv /\ Sync /\ Whole /\ [Next]_vars => Whole'
<1> SUFFICES ASSUME Inv, Sync, Whole, [Next]_vars PROVE Whole'
  OBVIOUS
<1>0. n \in Int /\ n \in Nat /\ line \in Line /\ typed \in Seq(Line) /\ <<>> \in Seq(Line)
  BY DEF Inv, TypeOK
<1>1. CASE GetLine
  <2>1. PICK l \in Lines : line' = l /\ typed' = Append(typed, l)
    BY <1>1 DEF GetLine
  <2>2. l.short => ~l.toggles /\ ~l.escaped
    BY LinesAssumption
  <2>3. /\ pc = "el_gets" /\ pc' = "got_line" /\ n' = n + 1 /\ ~Unterminated(line)
        /\ UNCHANGED <<tok, torn>>
    BY <1>1 DEF GetLine
  <2>4. n' - 1 = n
    BY <1>0, <2>3
  <2>5. ~torn => \E ls \in Seq(Line) : Before(ls)'
    <3>1. ~torn => tok = Statement(typed, n)
      BY <2>3 DEF Whole
    <3>2. ~torn => typed' = Append(typed, line') /\ tok' = Statement(typed, n' - 1)
      BY <2>1, <2>3, <2>4, <3>1
    <3> QED
      BY <1>0, <3>2 DEF Before
  <2> QED
    BY <2>1, <2>2, <2>3, <2>5 DEF Whole, InHand
<1>2. CASE EndOfInput
  BY <1>2 DEF EndOfInput, Whole, InHand
<1>3. CASE CheckSignal
  <2>1. /\ pc = "got_line" /\ UNCHANGED <<line, n, tok, typed, torn>>
        /\ pc' = IF Ignored(prevCompleted \/ signalReceived) THEN "el_gets" ELSE "tokenize"
    BY <1>3 DEF CheckSignal
  <2>2. CASE pc' = "tokenize"
    BY <2>1, <2>2 DEF Whole, InHand, Before
  <2>3. CASE pc' = "el_gets" /\ ~torn /\ ~Unterminated(line)
    <3>1. line.short /\ (prevCompleted \/ signalReceived)
      BY <2>1, <2>3 DEF Ignored
    <3>2. tok = NoTokens
      BY <2>1, <2>3, <3>1 DEF Sync
    <3>3. line.words = <<>> /\ ~line.toggles /\ ~line.escaped
      BY <2>3, <3>1 DEF Unterminated, Whole
    <3>4. PICK ls \in Seq(Line) : Before(ls)
      BY <2>1, <2>3 DEF Whole, InHand
    <3>5. Statement(typed, n) = tok
      BY <1>0, <3>2, <3>3, <3>4, BeforeWhole, EmptyLineKeeps
    <3> QED
      BY <2>1, <2>3, <3>5 DEF Whole, InHand
  <2>4. CASE pc' = "el_gets" /\ (torn \/ Unterminated(line))
    BY <2>1, <2>4 DEF Whole, InHand, Unterminated
  <2> QED
    BY <2>1, <2>2, <2>3, <2>4
<1>4. CASE Tokenize
  <2> DEFINE t == Tokens(tok, n, line)
  <2>1. Tokenized(t) /\ InHand /\ torn' = (torn /\ t # NoTokens)
    BY <1>4 DEF Tokenize, InHand
  <2>2. t \in Tokenizer /\ Balanced(t)
    BY <2>1, TokensHeld DEF Inv, TypeOK
  <2>3. ~torn => t = Statement(typed, n)
    BY <2>1, BeforeWhole DEF Whole
  <2> HIDE DEF t
  <2> QED
    BY <2>1, <2>2, <2>3, TokenizedWhole
<1>5. CASE TokFailed
  BY <1>5 DEF TokFailed, Whole, InHand
<1>6. CASE Dispatch
  <2>1. /\ pc = "dispatch" /\ pc' \in {"dispatch", "reset", "returned"}
        /\ UNCHANGED <<line, n, words, typed, torn>>
    BY <1>6 DEF Dispatch
  <2> QED
    BY <2>1 DEF Whole, InHand
<1>7. CASE TokReset
  <2>1. pc' = "el_gets" /\ tok' = NoTokens /\ typed' = <<>> /\ UNCHANGED <<line, n>>
    BY <1>7 DEF TokReset, tok_reset
  <2>2. tok' = Statement(typed', n')
    BY <1>0, <2>1, StatementEmpty
  <2> QED
    BY <2>1, <2>2 DEF Whole, InHand
<1>8. CASE Signal
  <2>1. /\ tok' = NoTokens /\ UNCHANGED <<pc, line, n, words>>
        /\ typed' = IF InHand THEN <<line>> ELSE IF pc = "dispatch" THEN typed ELSE <<>>
        /\ torn' = (pc = "tokenize" \/ (pc = "dispatch" /\ torn))
    BY <1>8 DEF Signal, tok_reset, main
  <2>2. CASE InHand
    <3>1. typed' = Append(<<>>, line) /\ NoTokens = Statement(<<>>, n - 1)
      <4>1. <<line>> = Append(<<>>, line)
        OBVIOUS
      <4>2. n - 1 \in Int
        BY <1>0
      <4> QED
        BY <2>1, <2>2, <4>1, <4>2, StatementEmpty
    <3> QED
      BY <1>0, <2>1, <2>2, <3>1 DEF Whole, InHand, Before
  <2>3. CASE pc = "dispatch"
    BY <2>1, <2>3 DEF Whole, InHand
  <2>4. CASE ~InHand /\ pc # "dispatch"
    <3>1. typed' = <<>> /\ Statement(<<>>, n) = NoTokens
      BY <1>0, <2>1, <2>4, StatementEmpty
    <3> QED
      BY <2>1, <2>4, <3>1 DEF Whole, InHand
  <2> QED
    BY <2>2, <2>3, <2>4
<1>9. CASE SignalInTokStr
  <2>1. PICK rest \in Tails(line.words), toggles \in BOOLEAN :
          LET t == Tokens(NoTokens, n, [line EXCEPT !.words = rest, !.toggles = toggles])
          IN  Tokenized(t) /\ torn' = (t # NoTokens)
    BY <1>9 DEF SignalInTokStr
  <2> DEFINE t == Tokens(NoTokens, n, [line EXCEPT !.words = rest, !.toggles = toggles])
  <2>2. t \in Tokenizer /\ Balanced(t)
    BY TailLine, FreshTokens
  <2>3. Tokenized(t) /\ (torn' \/ t = NoTokens)
    BY <2>1
  <2> HIDE DEF t
  <2> QED
    BY <2>2, <2>3, TokenizedWhole
<1>10. CASE Returned \/ UNCHANGED vars
  BY <1>10 DEF Returned, vars, main, Whole, InHand, Before
<1> QED
  BY <1>1, <1>2, <1>3, <1>4, <1>5, <1>6, <1>7, <1>8, <1>9, <1>10 DEF Next, Run

(***************************************************************************)
(* A statement is dispatched with the words of all lines typed for it and  *)
(* of no other (WholeStatement), however many lines it has and however     *)
(* many empty lines and signals came before it (cli.cpp:239-291).          *)
(***************************************************************************)
THEOREM WholeStatementCorrect == Spec => []WholeStatement
<1>1. Init => Sync /\ Whole
  <2> SUFFICES ASSUME Init PROVE Sync /\ Whole
    OBVIOUS
  <2>1. Statement(<<>>, 0) = NoTokens
    BY StatementEmpty
  <2> QED
    BY <2>1 DEF Init, Sync, Whole, InHand, NoLine
<1>2. Whole => WholeStatement
  BY DEF Whole, WholeStatement
<1> QED
  BY <1>1, <1>2, WholeNext, SyncNext, Invariance, PTL DEF Spec
-----------------------------------------------------------------------------
(***************************************************************************)
(* The newest entry of the history holds the lines of the statement being  *)
(* gathered, or dispatched, if H_ENTER made it for this statement.         *)
(***************************************************************************)
Recalled(t, h) ==
  h.entered => h.entries # <<>> /\ SameText(t, Statement(Last1(h.entries), n))

Matching ==
  /\ ~torn /\ (pc = "el_gets" \/ InHand) /\ tok # NoTokens => Recalled(tok, history)
  /\ ~torn /\ pc = "dispatch" => Recalled(words, history)

\* The newest entry after H_ENTER: the history has room for at least one.
LEMMA EnterNewest ==
  ASSUME NEW h \in History, NEW l \in Line
  PROVE  Enter(h, l).entries # <<>> /\ Last1(Enter(h, l).entries) = <<l>>
<1> DEFINE e == h.entries
           g == Append(e, <<l>>)
<1>1. HistorySize \in Nat \ {0} /\ <<l>> \in Seq(Line) /\ e \in Seq(Seq(Line))
  BY BoundsAssumption DEF History
<1>2. /\ g \in Seq(Seq(Line)) /\ Len(g) = Len(e) + 1 /\ Len(e) \in Nat /\ g[Len(g)] = <<l>>
  BY <1>1
<1> HIDE DEF e
<1>3. CASE e # <<>> /\ Last1(e) = <<l>>
  BY <1>3 DEF Enter, History, e
<1>4. CASE ~(e # <<>> /\ Last1(e) = <<l>>) /\ Len(g) > HistorySize
  <2> HIDE DEF g
  <2>1. Len(g) > 1 /\ g # <<>>
    BY <1>1, <1>2, <1>4
  <2>2. /\ Tail(g) \in Seq(Seq(Line)) /\ Len(Tail(g)) = Len(g) - 1
        /\ \A k \in 1..(Len(g) - 1) : Tail(g)[k] = g[k + 1]
    BY <1>2, <2>1
  <2>3. Tail(g)[Len(Tail(g))] = <<l>>
    <3>1. Len(g) - 1 \in 1..(Len(g) - 1) /\ (Len(g) - 1) + 1 = Len(g)
      BY <1>2, <2>1
    <3> QED
      BY <1>2, <2>2, <3>1
  <2>4. \A s : Len(s) = Len(g) - 1 => s # <<>>
    BY <1>2, <2>1
  <2>5. Enter(h, l).entries = Tail(g)
    BY <1>4 DEF Enter, e, g
  <2> QED
    BY <2>2, <2>3, <2>4, <2>5 DEF Last1
<1>5. CASE ~(e # <<>> /\ Last1(e) = <<l>>) /\ ~(Len(g) > HistorySize)
  <2>1. Enter(h, l).entries = g
    BY <1>5 DEF Enter, e
  <2> HIDE DEF g
  <2>2. \A s : Len(s) = Len(e) + 1 => s # <<>>
    BY <1>2
  <2> QED
    BY <1>2, <2>1, <2>2 DEF Last1
<1> QED
  BY <1>3, <1>4, <1>5

\* The newest entry after H_APPEND.
LEMMA AppendToNewest ==
  ASSUME NEW h \in History, h.entered, NEW l \in Line
  PROVE  /\ AppendTo(h, l).entries # <<>> /\ Last1(h.entries) \in Seq(Line)
         /\ Last1(AppendTo(h, l).entries) = Append(Last1(h.entries), l)
<1> DEFINE e == h.entries
           g == [e EXCEPT ![Len(e)] = Append(@, l)]
<1>1. e \in Seq(Seq(Line)) /\ e # <<>> /\ h = [entries |-> e, entered |-> TRUE]
  BY DEF History
<1> HIDE DEF e
<1>2. Len(e) \in 1..Len(e) /\ e[Len(e)] \in Seq(Line)
  BY <1>1
<1>3. Append(e[Len(e)], l) \in Seq(Line)
  BY <1>2
<1>4. g \in Seq(Seq(Line)) /\ Len(g) = Len(e) /\ g[Len(e)] = Append(e[Len(e)], l)
  BY <1>1, <1>2, <1>3
<1>5. Len(g) # 0
  BY <1>2, <1>4
<1> HIDE DEF g
<1>6. g # <<>>
  BY <1>4, <1>5
<1>7. AppendTo(h, l) = [h EXCEPT !.entries = g]
  BY DEF AppendTo, g, e
<1>8. AppendTo(h, l).entries = g
  BY <1>1, <1>7
<1> QED
  BY <1>2, <1>4, <1>6, <1>8 DEF Last1, e

\* Without an event H_APPEND changes nothing.
LEMMA AppendToFails ==
  ASSUME NEW h, ~h.entered, NEW l
  PROVE  AppendTo(h, l) = h
BY DEF AppendTo

LEMMA RecalledLater ==
  ASSUME n \in Nat, n' \in Nat, NEW t, NEW h \in History, Recalled(t, h), h.entered
  PROVE  h.entries # <<>> /\ SameText(t, Statement(Last1(h.entries), n'))
<1>1. h.entries \in Seq(Seq(Line)) /\ h.entries # <<>>
  BY DEF History
<1>2. Last1(h.entries) \in Seq(Line)
  BY <1>1 DEF Last1
<1>3. SameText(Statement(Last1(h.entries), n), Statement(Last1(h.entries), n'))
  BY <1>2, StatementSameText
<1> QED
  BY <1>1, <1>3 DEF Recalled, SameText

\* The line tokenized joins the newest entry if it continues a statement.
LEMMA TokenizedRecalled ==
  ASSUME Inv, Sync, Matching, pc = "tokenize", ~torn
  PROVE  Recalled(Tokens(tok, n, line),
                  IF prevCompleted THEN Enter(history, line) ELSE AppendTo(history, line))
<1>1. n \in Int /\ n - 1 \in Int /\ line \in Line /\ history \in History /\ <<>> \in Seq(Line)
  BY DEF Inv, TypeOK
<1>2. CASE prevCompleted
  <2>1. tok = NoTokens
    BY <1>2 DEF Sync
  <2>2. Statement(<<line>>, n) = Tokens(NoTokens, n, line)
    <3>1. <<line>> = Append(<<>>, line)
      OBVIOUS
    <3> QED
      BY <1>1, <3>1, StatementAppend, StatementEmpty
  <2> QED
    BY <1>1, <1>2, <2>1, <2>2, EnterNewest DEF Recalled, SameText
<1>3. CASE ~prevCompleted /\ history.entered
  <2>1. Recalled(tok, history)
    BY <1>3 DEF Sync, Matching, InHand
  <2> DEFINE newest == Last1(history.entries)
  <2>2. /\ AppendTo(history, line).entries # <<>> /\ newest \in Seq(Line)
        /\ Last1(AppendTo(history, line).entries) = Append(newest, line)
    BY <1>1, <1>3, AppendToNewest
  <2>3. SameText(tok, Statement(newest, n))
    BY <1>3, <2>1 DEF Recalled
  <2> HIDE DEF newest
  <2>4. Statement(Append(newest, line), n) = Tokens(Statement(newest, n - 1), n, line)
    BY <1>1, <2>2, StatementAppend
  <2>5. SameText(Statement(newest, n), Statement(newest, n - 1))
    BY <1>1, <2>2, StatementSameText
  <2>6. SameText(tok, Statement(newest, n - 1))
    BY <2>3, <2>5 DEF SameText
  <2>7. SameText(Tokens(tok, n, line), Tokens(Statement(newest, n - 1), n, line))
    BY <2>6, TokensSameText
  <2> QED
    BY <1>3, <2>2, <2>4, <2>7 DEF Recalled
<1>4. CASE ~prevCompleted /\ ~history.entered
  BY <1>4, AppendToFails DEF Recalled
<1> QED
  BY <1>2, <1>3, <1>4

LEMMA MatchingNext == Inv /\ Sync /\ Matching /\ [Next]_vars => Matching'
<1> SUFFICES ASSUME Inv, Sync, Matching, [Next]_vars PROVE Matching'
  OBVIOUS
<1>0. n \in Nat /\ history \in History
  BY DEF Inv, TypeOK
<1>1. CASE GetLine
  <2>1. /\ pc = "el_gets" /\ pc' = "got_line" /\ n' = n + 1 /\ n' \in Nat
        /\ UNCHANGED <<tok, torn, history>>
    BY <1>0, <1>1 DEF GetLine
  <2>2. ~torn /\ tok # NoTokens => Recalled(tok, history)
    BY <2>1 DEF Matching
  <2>3. ~torn /\ tok # NoTokens /\ history'.entered =>
          history'.entries # <<>> /\ SameText(tok', Statement(Last1(history'.entries), n'))
    BY <1>0, <2>1, <2>2, RecalledLater
  <2> QED
    BY <2>1, <2>3 DEF Matching, Recalled, InHand
<1>2. CASE EndOfInput
  BY <1>2 DEF EndOfInput, Matching, InHand
<1>3. CASE CheckSignal
  BY <1>3 DEF CheckSignal, Matching, Recalled, InHand, ghost
<1>4. CASE Tokenize
  <2> DEFINE t == Tokens(tok, n, line)
             h == IF prevCompleted THEN Enter(history, line) ELSE AppendTo(history, line)
  <2>1. pc = "tokenize" /\ Tokenized(t) /\ torn' = (torn /\ t # NoTokens) /\ n' = n
    BY <1>4 DEF Tokenize, Tokenized
  <2>2. ~torn => Recalled(t, h)
    BY <2>1, TokenizedRecalled
  <2>3. /\ tok' = t /\ history' = h
        /\ pc' = IF Dispatchable(t) THEN "dispatch" ELSE "el_gets"
        /\ Dispatchable(t) => words' = t
    BY <2>1 DEF Tokenized
  <2> HIDE DEF t, h
  <2>4. t = NoTokens => ~Dispatchable(t)
    BY DEF NoTokens, Dispatchable
  <2> QED
    BY <2>1, <2>2, <2>3, <2>4 DEF Matching, Recalled, InHand
<1>5. CASE TokFailed
  BY <1>5 DEF TokFailed, Matching, InHand
<1>6. CASE Dispatch
  BY <1>6 DEF Dispatch, Matching, Recalled, InHand
<1>7. CASE TokReset
  BY <1>7 DEF TokReset, tok_reset, Matching, InHand
<1>8. CASE Signal
  BY <1>8 DEF Signal, tok_reset, main, Matching, Recalled, InHand
<1>9. CASE SignalInTokStr
  <2>1. PICK rest \in Tails(line.words), toggles \in BOOLEAN :
          LET t == Tokens(NoTokens, n, [line EXCEPT !.words = rest, !.toggles = toggles])
          IN  Tokenized(t) /\ torn' = (t # NoTokens)
    BY <1>9 DEF SignalInTokStr
  <2> DEFINE t == Tokens(NoTokens, n, [line EXCEPT !.words = rest, !.toggles = toggles])
  <2>2. Tokenized(t) /\ torn' = (t # NoTokens)
    BY <2>1
  <2> HIDE DEF t
  <2>3. /\ tok' = t /\ pc' = IF Dispatchable(t) THEN "dispatch" ELSE "el_gets"
        /\ t = NoTokens => ~Dispatchable(t)
    BY <2>2 DEF Tokenized, NoTokens, Dispatchable
  <2> QED
    BY <2>2, <2>3 DEF Matching, InHand
<1>10. CASE Returned \/ UNCHANGED vars
  BY <1>10 DEF Returned, vars, main, Matching, Recalled, InHand
<1> QED
  BY <1>1, <1>2, <1>3, <1>4, <1>5, <1>6, <1>7, <1>8, <1>9, <1>10 DEF Next, Run

(***************************************************************************)
(* If H_ENTER entered nothing for the statement, the newest entry is its   *)
(* first line alone: the first of the lines typed that is not ignored.     *)
(***************************************************************************)
FirstAlone(h, ls) ==
  ~h.entered =>
    \E k \in DOMAIN ls :
      Last1(h.entries) = <<ls[k]>> /\ ~ls[k].short /\ \A j \in 1..k - 1 : ls[j].short

AllShort(ls) == \A j \in 1..Len(ls) : ls[j].short

Alone ==
  /\ ~torn /\ (pc = "el_gets" \/ InHand) /\ tok # NoTokens => FirstAlone(history, typed)
  /\ ~torn /\ pc = "dispatch" => FirstAlone(history, typed)
  /\ ~torn /\ pc = "el_gets" /\ tok = NoTokens => AllShort(typed)
  /\ ~torn /\ InHand /\ tok = NoTokens =>
       \E ls \in Seq(Line) : typed = Append(ls, line) /\ AllShort(ls)
  /\ pc = "tokenize" /\ prevCompleted => ~line.short

\* One more line does not move the first one.
LEMMA FirstAloneAppend ==
  ASSUME NEW h, NEW ls \in Seq(Line), NEW l \in Line, FirstAlone(h, ls)
  PROVE  FirstAlone(h, Append(ls, l))
<1> SUFFICES ASSUME ~h.entered
             PROVE  \E k \in DOMAIN Append(ls, l) :
                      /\ Last1(h.entries) = <<Append(ls, l)[k]>> /\ ~Append(ls, l)[k].short
                      /\ \A j \in 1..k - 1 : Append(ls, l)[j].short
  BY DEF FirstAlone
<1>1. PICK k \in DOMAIN ls :
        Last1(h.entries) = <<ls[k]>> /\ ~ls[k].short /\ \A j \in 1..k - 1 : ls[j].short
  BY DEF FirstAlone
<1>2. /\ Len(ls) \in Nat /\ k \in 1..Len(ls) /\ k \in DOMAIN Append(ls, l)
      /\ \A j \in 1..Len(ls) : Append(ls, l)[j] = ls[j]
  OBVIOUS
<1>3. \A j \in 1..k - 1 : j \in 1..Len(ls)
  BY <1>2
<1> QED
  BY <1>1, <1>2, <1>3

\* After H_ENTER the newest entry is the line entered.
LEMMA FirstEntered ==
  ASSUME NEW h \in History, NEW ls \in Seq(Line), NEW l \in Line, AllShort(ls), ~l.short
  PROVE  FirstAlone(Enter(h, l), Append(ls, l))
<1> DEFINE all == Append(ls, l)
<1>1. /\ Len(ls) \in Nat /\ Len(ls) + 1 \in DOMAIN all /\ all[Len(ls) + 1] = l
      /\ \A j \in 1..(Len(ls) + 1) - 1 : all[j] = ls[j] /\ j \in 1..Len(ls)
  OBVIOUS
<1>2. Last1(Enter(h, l).entries) = <<l>>
  BY EnterNewest
<1> HIDE DEF all
<1>3. \A j \in 1..(Len(ls) + 1) - 1 : all[j].short
  BY <1>1 DEF AllShort
<1>4. FirstAlone(Enter(h, l), all)
  BY <1>1, <1>2, <1>3 DEF FirstAlone
<1> QED
  BY <1>4 DEF all

\* The line tokenized, in the newest entry or not.
LEMMA TokenizedAlone ==
  ASSUME Inv, Sync, Alone, pc = "tokenize", ~torn
  PROVE  FirstAlone(IF prevCompleted THEN Enter(history, line) ELSE AppendTo(history, line),
                    typed)
<1>1. history \in History /\ line \in Line /\ typed \in Seq(Line)
  BY DEF Inv, TypeOK
<1>2. CASE prevCompleted
  <2>1. PICK ls \in Seq(Line) : typed = Append(ls, line) /\ AllShort(ls)
    BY <1>2 DEF Sync, Alone, InHand
  <2>2. ~line.short
    BY <1>2 DEF Alone
  <2> QED
    BY <1>1, <1>2, <2>1, <2>2, FirstEntered
<1>3. CASE ~prevCompleted
  <2>1. FirstAlone(history, typed)
    BY <1>3 DEF Sync, Alone, InHand
  <2>2. CASE history.entered
    <3>1. AppendTo(history, line).entered
      BY <1>1, <2>2 DEF AppendTo, History
    <3> QED
      BY <1>3, <3>1 DEF FirstAlone
  <2>3. CASE ~history.entered
    BY <1>3, <2>1, <2>3, AppendToFails
  <2> QED
    BY <2>2, <2>3
<1> QED
  BY <1>2, <1>3

LEMMA AloneNext == Inv /\ Sync /\ Alone /\ [Next]_vars => Alone'
<1> SUFFICES ASSUME Inv, Sync, Alone, [Next]_vars PROVE Alone'
  OBVIOUS
<1>0. history \in History /\ line \in Line /\ typed \in Seq(Line) /\ Sync'
  BY SyncNext DEF Inv, TypeOK
<1>e. AllShort(<<>>)
  BY DEF AllShort
<1>1. CASE GetLine
  <2>1. /\ pc = "el_gets" /\ pc' = "got_line" /\ UNCHANGED <<tok, torn, history>>
        /\ line' \in Line /\ typed' = Append(typed, line')
    BY <1>1, LinesAssumption DEF GetLine
  <2>2. ~torn' /\ tok' # NoTokens => FirstAlone(history', typed')
    BY <1>0, <2>1, FirstAloneAppend DEF Alone
  <2>3. ~torn' /\ tok' = NoTokens =>
          \E ls \in Seq(Line) : typed' = Append(ls, line') /\ AllShort(ls)
    BY <1>0, <2>1 DEF Alone
  <2> QED
    BY <2>1, <2>2, <2>3 DEF Alone, InHand
<1>2. CASE EndOfInput
  BY <1>2 DEF EndOfInput, Alone, InHand
<1>3. CASE CheckSignal
  <2>1. /\ pc = "got_line" /\ UNCHANGED <<tok, torn, history, line, typed>>
        /\ pc' = IF Ignored(prevCompleted') THEN "el_gets" ELSE "tokenize"
    BY <1>3 DEF CheckSignal
  <2>2. ~torn /\ tok # NoTokens => FirstAlone(history, typed)
    BY <2>1 DEF Alone, InHand
  <2>3. ~torn /\ tok = NoTokens =>
          \E ls \in Seq(Line) : typed = Append(ls, line) /\ AllShort(ls)
    BY <2>1 DEF Alone, InHand
  <2>4. line.short /\ ~torn /\ tok = NoTokens => AllShort(typed)
    BY <1>0, <2>3 DEF AllShort
  <2> QED
    BY <2>1, <2>2, <2>3, <2>4 DEF Alone, InHand, Ignored
<1>4. CASE Tokenize
  <2> DEFINE t == Tokens(tok, n, line)
             h == IF prevCompleted THEN Enter(history, line) ELSE AppendTo(history, line)
  <2>1. pc = "tokenize" /\ Tokenized(t) /\ torn' = (torn /\ t # NoTokens)
    BY <1>4 DEF Tokenize
  <2>2. ~torn => FirstAlone(h, typed)
    BY <2>1, TokenizedAlone
  <2>3. /\ tok' = t /\ history' = h
        /\ pc' = IF Dispatchable(t) THEN "dispatch" ELSE "el_gets"
        /\ typed' = IF Dispatchable(t) \/ ~Complete(t) THEN typed ELSE <<>>
        /\ prevCompleted' = Complete(t)
    BY <2>1 DEF Tokenized, NextCompleted, Dispatchable
  <2> HIDE DEF t, h
  <2>4. t = NoTokens => Complete(t) /\ ~Dispatchable(t)
    BY DEF NoTokens, Complete, Dispatchable
  <2>5. ~torn' /\ pc' = "el_gets" /\ Complete(t) => t = NoTokens
    BY <1>0, <2>3 DEF Sync
  <2>6. torn /\ ~torn' => t = NoTokens
    BY <2>1
  <2> QED
    BY <1>e, <2>1, <2>2, <2>3, <2>4, <2>5, <2>6 DEF Alone, InHand
<1>5. CASE TokFailed
  BY <1>5 DEF TokFailed, Alone, InHand
<1>6. CASE Dispatch
  BY <1>6 DEF Dispatch, Alone, InHand
<1>7. CASE TokReset
  BY <1>7, <1>e DEF TokReset, tok_reset, Alone, InHand
<1>8. CASE Signal
  <2>1. /\ pc' = pc /\ tok' = NoTokens /\ UNCHANGED <<history, line, prevCompleted>>
        /\ typed' = IF InHand THEN <<line>> ELSE IF pc = "dispatch" THEN typed ELSE <<>>
        /\ torn' = (pc = "tokenize" \/ (pc = "dispatch" /\ torn))
    BY <1>8 DEF Signal, tok_reset, main
  <2>2. InHand => \E ls \in Seq(Line) : typed' = Append(ls, line) /\ AllShort(ls)
    <3>1. <<line>> = Append(<<>>, line) /\ <<>> \in Seq(Line)
      OBVIOUS
    <3> QED
      BY <1>e, <2>1, <3>1
  <2> QED
    BY <1>e, <2>1, <2>2 DEF Alone, InHand
<1>9. CASE SignalInTokStr
  <2>1. PICK rest \in Tails(line.words), toggles \in BOOLEAN :
          LET t == Tokens(NoTokens, n, [line EXCEPT !.words = rest, !.toggles = toggles])
          IN  Tokenized(t) /\ torn' = (t # NoTokens)
    BY <1>9 DEF SignalInTokStr
  <2> DEFINE t == Tokens(NoTokens, n, [line EXCEPT !.words = rest, !.toggles = toggles])
  <2>2. Tokenized(t) /\ torn' = (t # NoTokens)
    BY <2>1
  <2> HIDE DEF t
  <2>3. t = NoTokens => Complete(t) /\ ~Dispatchable(t)
    BY DEF NoTokens, Complete, Dispatchable
  <2>4. /\ tok' = t /\ pc' = IF Dispatchable(t) THEN "dispatch" ELSE "el_gets"
        /\ t = NoTokens => typed' = <<>>
    BY <2>2, <2>3 DEF Tokenized
  <2> QED
    BY <1>e, <2>2, <2>3, <2>4 DEF Alone, InHand
<1>10. CASE Returned \/ UNCHANGED vars
  BY <1>10 DEF Returned, vars, main, Alone, InHand
<1> QED
  BY <1>1, <1>2, <1>3, <1>4, <1>5, <1>6, <1>7, <1>8, <1>9, <1>10 DEF Next, Run

(***************************************************************************)
(* What the newest history entry recalls is the statement being dispatched *)
(* - or its first line alone, if that was the newest entry already -       *)
(* (HistoryMatches), for every limit of the history and everything that    *)
(* was loaded into it (cli.cpp:264-270).                                   *)
(***************************************************************************)
THEOREM HistoryMatchesCorrect == Spec => []HistoryMatches
<1>1. Init => Sync /\ Matching /\ Alone
  BY DEF Init, Sync, Matching, Alone, AllShort, InHand
<1>2. Matching /\ Alone => HistoryMatches
  BY DEF Matching, Recalled, SameText, Alone, FirstAlone, HistoryMatches
<1> QED
  BY <1>1, <1>2, MatchingNext, AloneNext, SyncNext, Invariance, PTL DEF Spec
-----------------------------------------------------------------------------
(***************************************************************************)
(* Part two: the command line, main and the connection together.           *)
(***************************************************************************)
(***************************************************************************)
(* Nothing the rest of the program does disturbs the command line.         *)
(***************************************************************************)
LEMMA CliNext == [SystemNext]_systemVars => [Next]_vars
BY DEF SystemNext, Step, Proxy, Loop, Call, Answered, ConnectionInfo, RunEnds, Signalled,
   Dropped, Exited, systemVars, Next, Run

THEOREM FollowsCli == SystemSpec => Spec
<1>1. SystemInit => Init
  BY DEF SystemInit
<1> QED
  BY <1>1, CliNext, PTL DEF SystemSpec, Spec

(***************************************************************************)
(* Run is inside DoTransaction only while it asks the groups about a       *)
(* statement; otherwise DbProxy waits for the next text.                   *)
(***************************************************************************)
InTurn ==
  /\ calling => at = "cli" /\ DoesTransaction
  /\ at = "file" \/ (at = "cli" /\ ~calling) => proxyPc = "idle"

LEMMA ClientWaits == M!Client => proxyPc # "idle"
BY DEF M!Client, M!MakeConnection, M!Prompt, M!Connected, M!Broken, M!Thrown, M!OpenOut,
   M!Check, M!Begin, M!Exec, M!ExecFailed, M!Handle, M!Abort, M!Return

LEMMA StillCalled ==
  ASSUME DoesTransaction, pc' = pc, tried' = tried, words' = words
  PROVE  DoesTransaction'
BY DEF DoesTransaction, Called

LEMMA InTurnNext == InTurn /\ [SystemNext]_systemVars => InTurn'
<1> SUFFICES ASSUME InTurn, [SystemNext]_systemVars PROVE InTurn'
  OBVIOUS
<1> USE DEF InTurn, program, proxy
<1>1. CASE Proxy
  <2>1. calling' = calling /\ (DoesTransaction => DoesTransaction')
    BY <1>1, StillCalled DEF Proxy, vars, main
  <2>2. CASE M!ProxyStep
    <3>1. proxyPc # "idle" /\ UNCHANGED <<at, args, exitCode>>
      BY <2>2, ClientWaits DEF M!ProxyStep, M!program
    <3> QED
      BY <2>1, <3>1
  <2>3. CASE M!handleOptions \/ M!ProxyFailed \/ M!ChooseMode \/ M!OpenCommandFile
    <3>1. proxyPc' = proxyPc
      BY <2>3 DEF M!handleOptions, M!ProxyFailed, M!ChooseMode, M!OpenCommandFile, M!vars
    <3>2. at # "cli" /\ (at' \in {"file", "cli"} => proxyPc = "idle")
      BY <2>3 DEF M!handleOptions, M!HandleBaseOptions, M!HandleDbProxyOptions,
         M!ProxyFailed, M!ChooseMode, M!OpenCommandFile, M!Goto, M!Exit
    <3> QED
      BY <2>1, <3>1, <3>2
  <2>4. CASE M!ListDbs \/ M!CommandLoop
    <3>1. at \in {"list", "commands"} /\ at' \in {"list", "commands", "exit"}
      BY <2>4 DEF M!ListDbs, M!CommandLoop, M!Exit, M!program
    <3> QED
      BY <2>1, <3>1
  <2> QED
    BY <1>1, <2>2, <2>3, <2>4 DEF Proxy
<1>2. CASE Loop
  <2>1. UNCHANGED <<at, proxyPc, calling>>
    BY <1>2 DEF Loop
  <2>2. ~calling
    BY <1>2 DEF Loop
  <2> QED
    BY <2>1, <2>2
<1>3. CASE Call
  <2>1. UNCHANGED <<pc, tried, words, at>> /\ calling' = TRUE
    BY <1>3 DEF Call, vars, main
  <2>2. at = "cli" /\ DoesTransaction
    BY <1>3 DEF Call
  <2> QED
    BY <2>1, <2>2, StillCalled
<1>4. CASE Answered
  BY <1>4 DEF Answered
<1>5. CASE ConnectionInfo
  <2>1. UNCHANGED <<at, calling, proxyPc>> /\ ~calling
    BY <1>5 DEF ConnectionInfo, M!PrintConnectionInfo
  <2> QED
    BY <2>1
<1>6. CASE RunEnds
  <2>1. at' = "exit" /\ calling' = calling /\ ~calling
    BY <1>6 DEF RunEnds, M!Exit, DoesTransaction, Called
  <2> QED
    BY <2>1
<1>7. CASE Signalled
  <2>1. UNCHANGED <<at, calling, proxyPc>>
    BY <1>7 DEF Signalled
  <2>2. pc = "dispatch" => UNCHANGED <<pc, tried, words>>
    BY <1>7 DEF Signalled, Signal, SignalInTokStr, main
  <2>3. DoesTransaction => DoesTransaction'
    BY <2>2, StillCalled DEF DoesTransaction, Called
  <2> QED
    BY <2>1, <2>3
<1>8. CASE Dropped
  <2>1. UNCHANGED <<pc, tried, words, at, calling, proxyPc>>
    BY <1>8 DEF Dropped, M!Drop, vars, main
  <2> QED
    BY <2>1, StillCalled
<1>9. CASE UNCHANGED systemVars
  <2>1. UNCHANGED <<pc, tried, words, at, calling, proxyPc>>
    BY <1>9 DEF systemVars, vars, main
  <2> QED
    BY <2>1, StillCalled
<1> QED
  BY <1>1, <1>2, <1>3, <1>4, <1>5, <1>6, <1>7, <1>8, <1>9 DEF SystemNext, Step, Exited

LEMMA InTurnInit == SystemInit => InTurn
BY DEF SystemInit, M!MainInit, InTurn

(***************************************************************************)
(* Every step is a step of Main, or none.                                  *)
(***************************************************************************)
LEMMA MainNext == InTurn /\ [SystemNext]_systemVars => [M!MainNext]_(M!allVars)
<1> SUFFICES ASSUME InTurn, [SystemNext]_systemVars PROVE [M!MainNext]_(M!allVars)
  OBVIOUS
<1> USE DEF program, proxy
<1>1. CASE Proxy
  BY <1>1 DEF Proxy, M!MainNext, M!MainStep
<1>2. CASE Loop \/ Answered \/ Signalled \/ Exited \/ UNCHANGED systemVars
  <2>1. UNCHANGED <<program, proxy>>
    BY <1>2 DEF Loop, Answered, Signalled, Exited, systemVars
  <2> QED
    BY <2>1 DEF M!allVars, M!program, M!vars, M!making, M!writing, M!server
<1>3. CASE Call
  <2>1. TextsOfStatement \subseteq Texts
    BY ProgramAssumption DEF TextsOfStatement
  <2>2. at = "cli" /\ M!Request /\ UNCHANGED M!program
    BY <1>3, <2>1 DEF Call, M!Request, M!program
  <2> QED
    BY <2>2 DEF M!MainNext, M!CliRuns
<1>4. CASE ConnectionInfo
  BY <1>4 DEF ConnectionInfo, M!MainNext, M!CliRuns, M!program
<1>5. CASE RunEnds
  <2>1. at = "cli" /\ ~calling /\ proxyPc = "idle"
    BY <1>5 DEF RunEnds, InTurn, DoesTransaction, Called
  <2>2. UNCHANGED M!vars
    BY <1>5 DEF RunEnds, M!vars, M!making, M!writing, M!server
  <2>3. \E success \in BOOLEAN : M!Exit(M!toExitCode(success))
    <3>1. CASE lastResult
      <4>1. M!toExitCode(lastResult) = M!toExitCode(TRUE)
        BY <3>1 DEF M!toExitCode
      <4> QED
        BY <1>5, <4>1 DEF RunEnds
    <3>2. CASE ~lastResult
      <4>1. M!toExitCode(lastResult) = M!toExitCode(FALSE)
        BY <3>2 DEF M!toExitCode
      <4> QED
        BY <1>5, <4>1 DEF RunEnds
    <3> QED
      BY <3>1, <3>2
  <2> QED
    BY <2>1, <2>2, <2>3 DEF M!MainNext, M!MainStep, M!CliReturns
<1>6. CASE Dropped
  BY <1>6 DEF Dropped, M!MainNext, M!program
<1> QED
  BY <1>1, <1>2, <1>3, <1>4, <1>5, <1>6 DEF SystemNext, Step

(***************************************************************************)
(* What Main leaves open about the command line, Cli fills in: with its    *)
(* every step it is still a run of Main (DrivenAsMainSays).                *)
(***************************************************************************)
THEOREM DrivenAsMainSaysCorrect == SystemSpec => DrivenAsMainSays
<1>1. SystemInit => M!MainInit
  BY DEF SystemInit
<1> QED
  BY <1>1, InTurnInit, InTurnNext, MainNext, PTL
     DEF SystemSpec, DrivenAsMainSays, M!MainSpec

(***************************************************************************)
(* The proofs of the connection and of main, taken in whole: their modules *)
(* say of every action what Main says, under other names.                  *)
(***************************************************************************)
MP == INSTANCE Main_proofs WITH pc <- proxyPc

LEMMA ProxiesAgree ==
  /\ M!Client <=> MP!Client
  /\ (M!Drop <=> MP!Drop) /\ (M!PrintConnectionInfo <=> MP!PrintConnectionInfo)
<1>0. \A s, d, id, text : M!RunText(s, d, id, text) = MP!RunText(s, d, id, text)
  BY DEF M!RunText, MP!RunText, M!FoldLeft, MP!FoldLeft, M!MapThenFoldSet,
     MP!MapThenFoldSet, M!Max, MP!Max
<1>1. M!MakeConnection <=> MP!MakeConnection
  BY DEF M!MakeConnection, MP!MakeConnection, M!making, MP!making, M!writing,
     MP!writing, M!server, MP!server, M!PromptAllowed, MP!PromptAllowed
<1>2. M!Prompt <=> MP!Prompt
  BY DEF M!Prompt, MP!Prompt, M!making, MP!making, M!writing, MP!writing, M!server,
     MP!server, M!overridePassword, MP!overridePassword, M!StartsWithScheme,
     MP!StartsWithScheme, M!Schemes, MP!Schemes, M!UriGlue, MP!UriGlue,
     M!Question, MP!Question, M!ComposeDbParameter, MP!ComposeDbParameter
<1>3. M!Connected <=> MP!Connected
  BY DEF M!Connected, MP!Connected, M!Attempt, MP!Attempt, M!writing, MP!writing,
     M!server, MP!server
<1>4. M!Broken <=> MP!Broken
  BY DEF M!Broken, MP!Broken, M!Attempt, MP!Attempt, M!writing, MP!writing, M!server,
     MP!server
<1>5. M!Thrown <=> MP!Thrown
  BY DEF M!Thrown, MP!Thrown, M!Attempt, MP!Attempt, M!writing, MP!writing, M!server,
     MP!server
<1>6. M!OpenOut <=> MP!OpenOut
  BY DEF M!OpenOut, MP!OpenOut, M!making, MP!making, M!server, MP!server
<1>7. M!Check <=> MP!Check
  BY DEF M!Check, MP!Check, M!Usable, MP!Usable, M!making, MP!making, M!writing,
     MP!writing, M!server, MP!server
<1>8. M!Begin <=> MP!Begin
  BY DEF M!Begin, MP!Begin, M!making, MP!making, M!writing, MP!writing
<1>9. M!Exec <=> MP!Exec
  BY <1>0 DEF M!Exec, MP!Exec, M!Executed, MP!Executed, M!making,
     MP!making, M!writing, MP!writing
<1>10. M!ExecFailed <=> MP!ExecFailed
  BY <1>0 DEF M!ExecFailed, MP!ExecFailed, M!AfterBrokenConnection,
     MP!AfterBrokenConnection, M!NoSession, MP!NoSession, M!making, MP!making,
     M!writing, MP!writing, M!server, MP!server
<1>11. M!Handle <=> MP!Handle
  BY DEF M!Handle, MP!Handle, M!Write, MP!Write, M!making, MP!making, M!server,
     MP!server
<1>12. M!Abort <=> MP!Abort
  BY DEF M!Abort, MP!Abort, M!RolledBack, MP!RolledBack, M!NoSession, MP!NoSession,
     M!making, MP!making, M!writing, MP!writing
<1>13. M!Return <=> MP!Return
  BY DEF M!Return, MP!Return, M!making, MP!making, M!writing, MP!writing, M!server,
     MP!server
<1>14. M!Drop <=> MP!Drop
  BY DEF M!Drop, MP!Drop, M!NoSession, MP!NoSession, M!making, MP!making, M!writing,
     MP!writing
<1>15. M!PrintConnectionInfo <=> MP!PrintConnectionInfo
  BY DEF M!PrintConnectionInfo, MP!PrintConnectionInfo, M!making, MP!making, M!server,
     MP!server
<1> QED
  BY <1>1, <1>2, <1>3, <1>4, <1>5, <1>6, <1>7, <1>8, <1>9, <1>10, <1>11, <1>12, <1>13, <1>14, <1>15 DEF M!Client, MP!Client

LEMMA MainsAgree == [M!MainNext]_(M!allVars) <=> [MP!MainNext]_(MP!allVars)
<1>1. M!handleOptions <=> MP!handleOptions
  BY DEF M!handleOptions, MP!handleOptions, M!ParseOptions, MP!ParseOptions,
     M!HandleBaseOptions, MP!HandleBaseOptions, M!HandleDbProxyOptions,
     MP!HandleDbProxyOptions, M!Exit, MP!Exit, M!Goto, MP!Goto, M!vars, MP!vars,
     M!making, MP!making, M!writing, MP!writing, M!server, MP!server
<1>2. M!ProxyStep <=> MP!ProxyStep
  BY ProxiesAgree DEF M!ProxyStep, MP!ProxyStep, M!program, MP!program
<1>3. M!ProxyFailed <=> MP!ProxyFailed
  BY DEF M!ProxyFailed, MP!ProxyFailed, M!Exit, MP!Exit, M!vars, MP!vars, M!making,
     MP!making, M!writing, MP!writing, M!server, MP!server
<1>4. M!ChooseMode <=> MP!ChooseMode
  BY DEF M!ChooseMode, MP!ChooseMode, M!Goto, MP!Goto, M!vars, MP!vars, M!making,
     MP!making, M!writing, MP!writing, M!server, MP!server
<1>5. M!ListDbs <=> MP!ListDbs
  BY DEF M!ListDbs, MP!ListDbs, M!ListDbsSql, MP!ListDbsSql, M!asked, MP!asked,
     M!RequestText, MP!RequestText, M!program, MP!program, M!Exit, MP!Exit,
     M!toExitCode, MP!toExitCode, M!vars, MP!vars, M!making, MP!making, M!writing,
     MP!writing, M!server, MP!server, M!Last, MP!Last
<1>6. M!CommandLoop <=> MP!CommandLoop
  BY DEF M!CommandLoop, MP!CommandLoop, M!asked, MP!asked, M!Failed, MP!Failed,
     M!RequestText, MP!RequestText, M!program, MP!program, M!Exit, MP!Exit, M!vars,
     MP!vars, M!making, MP!making, M!writing, MP!writing, M!server, MP!server, M!Last,
     MP!Last
<1>7. M!OpenCommandFile <=> MP!OpenCommandFile
  BY DEF M!OpenCommandFile, MP!OpenCommandFile, M!Exit, MP!Exit, M!Goto, MP!Goto,
     M!vars, MP!vars, M!making, MP!making, M!writing, MP!writing, M!server, MP!server
<1>8. M!CliRuns <=> MP!CliRuns
  BY ProxiesAgree DEF M!CliRuns, MP!CliRuns, M!Request, MP!Request, M!RequestText,
     MP!RequestText, M!program, MP!program, M!making, MP!making, M!writing,
     MP!writing, M!server, MP!server
<1>9. M!CliReturns <=> MP!CliReturns
  BY DEF M!CliReturns, MP!CliReturns, M!Exit, MP!Exit, M!toExitCode, MP!toExitCode,
     M!vars, MP!vars, M!making, MP!making, M!writing, MP!writing, M!server, MP!server
<1>10. M!Exited <=> MP!Exited
  BY DEF M!Exited, MP!Exited, M!allVars, MP!allVars, M!program, MP!program, M!vars,
     MP!vars, M!making, MP!making, M!writing, MP!writing, M!server, MP!server
<1>11. UNCHANGED M!allVars <=> UNCHANGED MP!allVars
  BY DEF M!allVars, MP!allVars, M!program, MP!program, M!vars, MP!vars, M!making,
     MP!making, M!writing, MP!writing, M!server, MP!server
<1>12. UNCHANGED M!program <=> UNCHANGED MP!program
  BY DEF M!program, MP!program
<1> QED
  BY <1>1, <1>2, <1>3, <1>4, <1>5, <1>6, <1>7, <1>8, <1>9, <1>10, <1>11, <1>12,
     ProxiesAgree DEF M!MainNext, MP!MainNext, M!MainStep, MP!MainStep

LEMMA MainSpecsAgree == M!MainSpec <=> MP!MainSpec
<1>1. M!MainInit <=> MP!MainInit
  BY DEF M!MainInit, MP!MainInit, M!Init, MP!Init, M!TypeQuery, MP!TypeQuery,
     M!NoSession, MP!NoSession, M!Commands, MP!Commands
<1> QED
  BY <1>1, MainsAgree, PTL DEF M!MainSpec, MP!MainSpec

\* The assumptions of Main, which its theorems rest on.
LEMMA MainAssumed ==
  /\ Texts \subseteq Seq(MP!Statements) /\ MaxCommands \in Nat \ {0}
  /\ Bases \subseteq Seq(MP!Parameter) /\ (\A base \in Bases : MP!WellFormed(base))
  /\ Passwords \subseteq STRING
  /\ Arguments \subseteq [usage       : {"none", "invalid", "help", "version"},
                          listDbs     : BOOLEAN,
                          commands    : Seq(Texts),
                          commandFile : {"none", "missing", "readable"}]
  /\ \A a \in Arguments : Len(a.commands) <= MaxCommands
  /\ InternalTexts \subseteq Texts
  /\ MP!ListDbsSql \in Texts
<1>1. /\ M!Statements = MP!Statements /\ M!Parameter = MP!Parameter
      /\ M!ListDbsSql = MP!ListDbsSql
  BY DEF M!Statements, MP!Statements, M!Parameter, MP!Parameter, M!Glue, MP!Glue,
     M!Schemes, MP!Schemes, M!DbParameterKey, MP!DbParameterKey, M!ListDbsSql, MP!ListDbsSql
<1>2. ASSUME NEW base PROVE M!WellFormed(base) <=> MP!WellFormed(base)
  <2>1. \A k : M!InQuery(base, k) <=> MP!InQuery(base, k)
    BY DEF M!InQuery, MP!InQuery
  <2>2. \A p, q : M!Follows(p, q) <=> MP!Follows(p, q)
    BY DEF M!Follows, MP!Follows, M!Credentials, MP!Credentials
  <2>3. M!Credentials = MP!Credentials /\ M!Question = MP!Question
    BY DEF M!Credentials, MP!Credentials, M!Question, MP!Question
  <2>4. M!WellFormedUri(base) <=> MP!WellFormedUri(base)
    BY <2>1, <2>2, <2>3 DEF M!WellFormedUri, MP!WellFormedUri
  <2>5. M!WellFormedKeyValues(base) <=> MP!WellFormedKeyValues(base)
    BY DEF M!WellFormedKeyValues, MP!WellFormedKeyValues
  <2> QED
    BY <2>4, <2>5 DEF M!WellFormed, MP!WellFormed, M!StartsWithScheme, MP!StartsWithScheme,
       M!Schemes, MP!Schemes, M!Special, MP!Special
<1> QED
  BY <1>1, <1>2, ProgramAssumption, Zenon

(***************************************************************************)
(* So what is proved of the program without its command line holds here.   *)
(***************************************************************************)
LEMMA MainAccounted == SystemSpec => [](MP!MainInv /\ MP!Account)
<1>1. MP!MainSpec => [](MP!MainInv /\ MP!Account)
  BY MainAssumed, MP!ProgramAccounted
<1>2. SystemSpec => M!MainSpec
  BY DrivenAsMainSaysCorrect DEF DrivenAsMainSays
<1> QED
  BY <1>1, <1>2, MainSpecsAgree, PTL

(***************************************************************************)
(* A command that runs a transaction is the last to be asked: it belongs   *)
(* to the second group, which knows every statement.                       *)
(***************************************************************************)
LEMMA TransactionAnswers ==
  ASSUME Inv, DoesTransaction
  PROVE  CallGroup(CommandGroups[Len(tried) + 1], words.words) \subseteq {"success", "failure"}
<1>1. Len(tried) + 1 \in {1, 2}
  BY TwoGroups DEF Inv, TypeOK
<1>2. Len(tried) + 1 # 1
  <2> SUFFICES ASSUME Len(tried) + 1 = 1 PROVE FALSE
    OBVIOUS
  <2>1. PICK c \in CommandFor(BuiltinGroup, words.words) : c.action \in {"sql", "query"}
    BY DEF DoesTransaction, Called, CommandGroups
  <2>2. \A word \in DOMAIN BuiltinGroup.named :
          BuiltinGroup.named[word].action \in {"quit", "help"}
    BY DEF BuiltinGroup, Fixed
  <2>3. \A d \in BuiltinGroup.anonymous : d.action = "el_parse"
    BY DEF BuiltinGroup, Variadic
  <2> QED
    BY <2>1, <2>2, <2>3 DEF CommandFor
<1> QED
  BY <1>1, <1>2, SqlKnowsAll

(***************************************************************************)
(* A statement sent has been handled, but for the one being run.           *)
(***************************************************************************)
Handed(a) == \E k \in 1..Len(log) : a \in log[k].lines

Sent ==
  /\ sent \in Seq([lines : SUBSET Nat, text : Texts])
  /\ \A id \in 1..Len(sent) : \A a \in sent[id].lines :
       Handed(a) \/ (calling /\ id = Len(sent) /\ a \in words.lines)

\* The log only grows.
LEMMA StillHanded == ASSUME Inv, [Next]_vars, NEW a, Handed(a) PROVE Handed(a)'
<1>1. CASE log' = log
  BY <1>1 DEF Handed
<1>2. CASE Dispatch
  <2>1. CASE \E rs : log' = Append(log, [lines |-> words.lines, results |-> rs])
    <3>1. \A k \in 1..Len(log) : k \in 1..Len(log') /\ log'[k] = log[k]
      BY <2>1, AppendElements DEF Inv, TypeOK
    <3> QED
      BY <3>1 DEF Handed
  <2> QED
    BY <1>1, <1>2, <2>1, DispatchEnds
<1>3. CASE UNCHANGED vars
  BY <1>1, <1>3 DEF vars
<1>4. CASE Next /\ ~Dispatch
  <2>1. log' = log
    BY <1>4 DEF Next, Run, GetLine, EndOfInput, CheckSignal, Tokenize, Tokenized, TokFailed,
       TokReset, Signal, SignalInTokStr, Returned, vars
  <2> QED
    BY <1>1, <2>1
<1> QED
  BY <1>2, <1>3, <1>4

LEMMA SentNext ==
  Inv /\ Stream!RunsNewest /\ InTurn /\ Sent /\ SentInOrder /\ [SystemNext]_systemVars
    => Sent' /\ SentInOrder'
<1> SUFFICES ASSUME Inv, Stream!RunsNewest, InTurn, Sent, SentInOrder, [SystemNext]_systemVars
             PROVE  Sent' /\ SentInOrder'
  OBVIOUS
<1>1. [Next]_vars
  BY CliNext
<1>2. \A a : Handed(a) => Handed(a)'
  BY <1>1, StillHanded
<1>3. CASE Call
  <2>1. PICK text \in Texts : sent' = Append(sent, [lines |-> words.lines, text |-> text])
    <3>1. TextsOfStatement \subseteq Texts
      BY ProgramAssumption DEF TextsOfStatement
    <3>2. PICK text \in TextsOfStatement : M!RequestText(text)
      BY <1>3 DEF Call
    <3>3. command'.text = text
      BY <3>2 DEF M!RequestText
    <3> QED
      BY <1>3, <3>1, <3>3 DEF Call
  <2>2. words.lines \in SUBSET Nat /\ ~calling /\ calling' = TRUE /\ pc = "dispatch"
    BY <1>3 DEF Call, Inv, TypeOK, Tokenizer, DoesTransaction, Called
  <2>3. /\ sent' \in Seq([lines : SUBSET Nat, text : Texts])
        /\ Len(sent) \in Nat /\ Len(sent') = Len(sent) + 1
        /\ \A id \in 1..Len(sent) : sent'[id] = sent[id]
        /\ sent'[Len(sent) + 1].lines = words.lines
    <3>1. [lines |-> words.lines, text |-> text] \in [lines : SUBSET Nat, text : Texts]
      BY <2>1, <2>2
    <3> QED
      BY <2>1, <3>1, AppendType, AppendElements DEF Sent
  <2>4. words' = words
    BY <1>3 DEF Call, vars
  <2>5. Sent'
    <3>1. ASSUME NEW id \in 1..Len(sent'), NEW a \in sent'[id].lines
          PROVE  Handed(a)' \/ (calling' /\ id = Len(sent') /\ a \in words'.lines)
      <4>1. CASE id = Len(sent) + 1
        BY <2>2, <2>3, <2>4, <3>1, <4>1
      <4>2. CASE id # Len(sent) + 1
        <5>1. id \in 1..Len(sent) /\ a \in sent[id].lines
          BY <2>3, <3>1, <4>2
        <5>2. Handed(a)
          BY <2>2, <5>1 DEF Sent
        <5> QED
          BY <1>2, <5>2
      <4> QED
        BY <4>1, <4>2
    <3> QED
      BY <2>3, <3>1 DEF Sent
  <2>6. SentInOrder'
    <3> SUFFICES ASSUME NEW i \in 1..Len(sent'), NEW j \in 1..Len(sent'), i < j,
                        NEW a \in sent'[i].lines, NEW b \in sent'[j].lines
                 PROVE  a < b
      BY DEF SentInOrder
    <3>1. i \in 1..Len(sent) /\ a \in sent[i].lines
      BY <2>3
    <3>2. CASE j \in 1..Len(sent)
      BY <2>3, <3>1, <3>2 DEF SentInOrder
    <3>3. CASE j = Len(sent) + 1
      <4>1. b \in words.lines /\ Handed(a)
        BY <2>2, <2>3, <3>1, <3>3 DEF Sent
      <4>2. PICK k \in 1..Len(log) : a \in log[k].lines
        BY <4>1 DEF Handed
      <4>3. k \in 1..Len(handled) /\ a \in handled[k] /\ handled = [m \in 1..Len(log) |-> log[m].lines]
        <5>1. Len(log) \in Nat
          BY DEF Inv, TypeOK
        <5> QED
          BY <4>2, <5>1 DEF handled
      <4>4. b \in Running
        BY <2>2, <4>1 DEF Running
      <4> QED
        BY <4>3, <4>4 DEF Stream!RunsNewest
    <3> QED
      BY <2>3, <3>2, <3>3
  <2> QED
    BY <2>5, <2>6
<1>4. CASE Answered
  <2>1. UNCHANGED sent /\ calling
    BY <1>4 DEF Answered
  <2>2. ASSUME NEW a \in words.lines PROVE Handed(a)'
    <3>1. DoesTransaction
      BY <2>1 DEF InTurn
    <3>2. PICK r \in CallGroup(CommandGroups[Len(tried) + 1], words.words) :
            LET results == Append(tried, r)
                done    == LoopEnds(results)
            IN  log' = IF done
                         THEN Append(log, [lines |-> words.lines, results |-> results])
                         ELSE log
      BY <1>4 DEF Answered, Dispatch
    <3>3. r # "unknown"
      BY <3>1, TransactionAnswers
    <3>4. Last1(Append(tried, r)) = r
      BY AppendElements DEF Inv, TypeOK, Last1
    <3>5. LoopEnds(Append(tried, r))
      BY <3>3, <3>4 DEF LoopEnds
    <3>6. log' = Append(log, [lines |-> words.lines, results |-> Append(tried, r)])
      BY <3>2, <3>5
    <3>7. /\ Len(log) + 1 \in 1..Len(log')
          /\ log'[Len(log) + 1] = [lines |-> words.lines, results |-> Append(tried, r)]
      BY <3>6, AppendElements DEF Inv, TypeOK
    <3> QED
      BY <2>2, <3>7 DEF Handed
  <2> QED
    BY <1>2, <2>1, <2>2 DEF Sent, SentInOrder
<1>5. CASE ~Call /\ ~Answered
  <2>1. UNCHANGED <<sent, calling>>
    BY <1>5 DEF SystemNext, Step, Proxy, Loop, ConnectionInfo, RunEnds, Signalled, Dropped,
       Exited, systemVars
  <2>2. calling => words' = words
    <3> SUFFICES ASSUME calling PROVE words' = words
      OBVIOUS
    <3>1. pc = "dispatch" /\ DoesTransaction /\ ~(pc = "returned")
      BY DEF InTurn, DoesTransaction, Called
    <3>2. ~Loop /\ ~ConnectionInfo
      BY <3>1 DEF Loop, ConnectionInfo
    <3> QED
      BY <1>5, <3>1, <3>2 DEF SystemNext, Step, Proxy, RunEnds, Signalled, Signal,
         SignalInTokStr, Dropped, Exited, systemVars, vars
  <2> QED
    BY <1>2, <2>1, <2>2 DEF Sent, SentInOrder
<1> QED
  BY <1>3, <1>4, <1>5

(***************************************************************************)
(* However many statements are typed and interrupted, the server gets them *)
(* in the order they were typed, and no line of them twice (cli.cpp:       *)
(* 278-291, db.cpp:39-48).                                                 *)
(***************************************************************************)
THEOREM SentInOrderCorrect == SystemSpec => []SentInOrder
<1>1. SystemInit => Sent /\ SentInOrder
  <2> SUFFICES ASSUME SystemInit PROVE Sent /\ SentInOrder
    OBVIOUS
  <2>1. sent \in Seq([lines : SUBSET Nat, text : Texts]) /\ Len(sent) = 0
    BY EmptyType DEF SystemInit
  <2> QED
    BY <2>1 DEF Sent, SentInOrder
<1>2. /\ SystemSpec => []Inv
      /\ SystemSpec => []Stream!RunsNewest
  BY FollowsCli, Invariance, DispatchesNewest, PTL
<1> QED
  BY <1>1, <1>2, InTurnInit, InTurnNext, SentNext, PTL DEF SystemSpec
-----------------------------------------------------------------------------
(***************************************************************************)
(* The statements sent are the texts DbProxy was asked for, one by one:    *)
(* the last of them is the one being run, if one is, and all others have   *)
(* been answered.  Of those answered by a success none has an error.       *)
(***************************************************************************)
Numbered ==
  /\ at \notin {"cli", "exit"} => Len(sent) = 0
  /\ at = "file" => Len(answers) = 1
  /\ at = "cli" =>
       IF calling /\ proxyPc # "idle"
         THEN /\ proxyPc \in MP!Running /\ Len(sent) # 0 /\ Len(answers) = Len(sent)
              /\ command.id = Len(sent) /\ command.text = sent[Len(sent)].text
         ELSE Len(answers) = Len(sent) + 1

AnsweredWell ==
  \A id \in 1..Len(sent) :
    id < Len(answers) /\ answers[id + 1] => ~Contains(sent[id].text, "error")

SomeLine == \A id \in 1..Len(sent) : sent[id].lines # {}

Delivered == Numbered /\ AnsweredWell /\ SomeLine

LEMMA DeliveredInit == SystemInit => Delivered
<1>1. Len(<<>>) = 0
  OBVIOUS
<1> QED
  BY <1>1 DEF SystemInit, M!MainInit, Delivered, Numbered, AnsweredWell, SomeLine

\* Nothing that the statements sent are numbered by has changed.
LEMMA DeliveredKept ==
  ASSUME Delivered, UNCHANGED <<at, proxyPc, command, answers, calling, sent>>
  PROVE  Delivered'
BY DEF Delivered, Numbered, AnsweredWell, SomeLine, MP!Running

\* DbProxy serves the statement being run, if one is.
LEMMA DeliveredServed ==
  ASSUME MP!MainInv, MP!Account, InTurn, Sent, Delivered, M!ProxyStep, UNCHANGED <<calling, sent>>
  PROVE  Delivered'
<1>1. /\ at' = at /\ at \notin {"options", "exit"} /\ MP!Client /\ proxyPc # "idle"
  BY ClientWaits, ProxiesAgree DEF M!ProxyStep, M!program
<1>2. /\ answers \in Seq(BOOLEAN) /\ Len(answers) \in Nat /\ result \in BOOLEAN
      /\ Len(sent) \in Nat
  BY DEF MP!MainInv, MP!Proxy, MP!Inv, MP!Shape, Sent
<1>3. CASE at # "cli"
  <2>1. at # "file" /\ Len(sent) = 0
    BY <1>1, <1>3 DEF InTurn, Delivered, Numbered
  <2> QED
    BY <1>1, <1>3, <2>1 DEF Delivered, Numbered, AnsweredWell, SomeLine
<1>4. CASE at = "cli"
  <2>1. calling
    BY <1>1, <1>4 DEF InTurn
  <2>2. /\ proxyPc \in MP!Running /\ Len(sent) # 0 /\ Len(answers) = Len(sent)
        /\ command.id = Len(sent) /\ command.text = sent[Len(sent)].text
    BY <1>1, <1>4, <2>1 DEF Delivered, Numbered
  <2>3. /\ command' = command
        /\ \/ answers' = answers /\ proxyPc' \in MP!Running
           \/ answers' = Append(answers, result) /\ proxyPc = "return" /\ proxyPc' = "idle"
    BY <1>1, <2>2, MainAssumed, MP!ClientServes
  <2>4. CASE answers' = answers /\ proxyPc' \in MP!Running
    <3>1. proxyPc' # "idle"
      BY <2>4 DEF MP!Running
    <3> QED
      BY <1>1, <1>4, <2>1, <2>2, <2>3, <2>4, <3>1
         DEF Delivered, Numbered, AnsweredWell, SomeLine, MP!Running
  <2>5. CASE answers' = Append(answers, result) /\ proxyPc = "return" /\ proxyPc' = "idle"
    <3>1. /\ Len(answers') = Len(answers) + 1 /\ answers'[Len(answers) + 1] = result
          /\ \A k \in 1..Len(answers) : answers'[k] = answers[k]
      BY <1>2, <2>5
    <3>2. result => ~Contains(sent[Len(sent)].text, "error")
      <4>1. result => ~M!Contains(command.text, "error")
        BY <2>5 DEF MP!Account, MP!Honest, MP!RanToEnd, MP!Past, MP!Contains, M!Contains
      <4> QED
        BY <2>2, <4>1 DEF M!Contains, Contains
    <3>3. AnsweredWell'
      <4> SUFFICES ASSUME NEW id \in 1..Len(sent), answers'[id + 1]
                   PROVE  ~Contains(sent[id].text, "error")
        BY DEF AnsweredWell
      <4>1. CASE id = Len(sent)
        BY <2>2, <3>1, <3>2, <4>1
      <4>2. CASE id # Len(sent)
        <5>1. id < Len(answers) /\ id + 1 \in 1..Len(answers) /\ answers[id + 1]
          BY <1>2, <2>2, <3>1, <4>2
        <5> QED
          BY <5>1 DEF Delivered, AnsweredWell
      <4> QED
        BY <4>1, <4>2
    <3>4. Numbered'
      BY <1>1, <1>4, <2>2, <2>5, <3>1 DEF Numbered
    <3> QED
      BY <3>3, <3>4 DEF Delivered, SomeLine
  <2> QED
    BY <2>3, <2>4, <2>5
<1> QED
  BY <1>3, <1>4

\* Main moves on: until it comes to the command line nothing is sent.
LEMMA DeliveredMoves ==
  ASSUME MP!MainInv, InTurn, Delivered, UNCHANGED <<calling, sent>>,
         \/ M!handleOptions \/ M!ProxyFailed \/ M!ChooseMode \/ M!OpenCommandFile
         \/ M!ListDbs \/ M!CommandLoop
  PROVE  Delivered'
<1>1. at \notin {"cli", "exit"} /\ Len(sent) = 0
  BY DEF M!handleOptions, M!ProxyFailed, M!ChooseMode, M!OpenCommandFile, M!ListDbs,
     M!CommandLoop, Delivered, Numbered
<1>2. CASE M!ListDbs \/ M!CommandLoop
  <2>1. at' \in {"list", "commands", "exit"}
    BY <1>2 DEF M!ListDbs, M!CommandLoop, M!Exit, M!program
  <2> QED
    BY <1>1, <2>1 DEF Delivered, Numbered, AnsweredWell, SomeLine
<1>3. CASE M!handleOptions \/ M!ProxyFailed \/ M!ChooseMode \/ M!OpenCommandFile
  <2>1. UNCHANGED <<proxyPc, answers>>
    BY <1>3 DEF M!handleOptions, M!ProxyFailed, M!ChooseMode, M!OpenCommandFile, M!vars
  <2>2. at' = "cli" => at = "file"
    BY <1>3 DEF M!handleOptions, M!HandleBaseOptions, M!HandleDbProxyOptions,
       M!ProxyFailed, M!ChooseMode, M!OpenCommandFile, M!Goto, M!Exit
  <2>3. at' = "file" => at = "proxy" /\ proxyPc = "idle"
    BY <1>3 DEF M!handleOptions, M!HandleBaseOptions, M!HandleDbProxyOptions,
       M!ProxyFailed, M!ChooseMode, M!OpenCommandFile, M!Goto, M!Exit
  <2>4. ASSUME at = "proxy", proxyPc = "idle" PROVE Len(answers) = 1
    <3>1. Len(answers) <= 1 /\ answers # <<>> /\ answers \in Seq(BOOLEAN)
      BY <2>4 DEF MP!MainInv, MP!InTurn, MP!Proxy, MP!Served, MP!Serving, MP!Inv, MP!Shape
    <3>2. Len(answers) \in Nat /\ Len(answers) # 0
      BY <3>1
    <3>3. \A k \in Nat : k <= 1 /\ k # 0 => k = 1
      OBVIOUS
    <3> QED
      BY <3>1, <3>2, <3>3
  <2>5. at = "file" => Len(answers) = 1 /\ proxyPc = "idle"
    BY DEF Delivered, Numbered, InTurn
  <2> QED
    BY <1>1, <2>1, <2>2, <2>3, <2>4, <2>5 DEF Delivered, Numbered, AnsweredWell, SomeLine
<1> QED
  BY <1>2, <1>3

\* A statement is sent.
LEMMA DeliveredCall ==
  ASSUME Inv, InTurn, Sent, Delivered, Call PROVE Delivered'
<1>1. /\ at = "cli" /\ at' = "cli" /\ ~calling /\ calling' = TRUE
      /\ pc = "dispatch"
      /\ sent' = Append(sent, [lines |-> words.lines, text |-> command'.text])
  BY DEF Call, program, DoesTransaction, Called
<1>2. /\ proxyPc' = "begin" /\ command'.id = Len(answers) /\ answers' = answers
  BY DEF Call, M!RequestText
<1>3. /\ Len(sent) \in Nat /\ Len(sent') = Len(sent) + 1
      /\ \A id \in 1..Len(sent) : sent'[id] = sent[id]
      /\ sent'[Len(sent) + 1] = [lines |-> words.lines, text |-> command'.text]
  BY <1>1, AppendElements DEF Sent
<1>4. Len(answers) = Len(sent) + 1
  BY <1>1 DEF Delivered, Numbered
<1>5. Numbered'
  BY <1>1, <1>2, <1>3, <1>4 DEF Numbered, MP!Running
<1>6. AnsweredWell'
  <2> SUFFICES ASSUME NEW id \in 1..Len(sent'), id < Len(answers), answers[id + 1]
               PROVE  ~Contains(sent'[id].text, "error")
    BY <1>2 DEF AnsweredWell
  <2>1. id \in 1..Len(sent)
    BY <1>3, <1>4
  <2> QED
    BY <1>3, <2>1 DEF Delivered, AnsweredWell
<1>7. SomeLine'
  <2>1. words.lines # {}
    BY <1>1 DEF Inv, Held
  <2> QED
    BY <1>3, <2>1 DEF Delivered, SomeLine
<1> QED
  BY <1>5, <1>6, <1>7 DEF Delivered

LEMMA DeliveredNext ==
  MP!MainInv /\ MP!Account /\ Inv /\ InTurn /\ Sent /\ Delivered /\ [SystemNext]_systemVars
    => Delivered'
<1> SUFFICES ASSUME MP!MainInv, MP!Account, Inv, InTurn, Sent, Delivered,
                    [SystemNext]_systemVars
             PROVE  Delivered'
  OBVIOUS
<1>1. CASE Proxy
  BY <1>1, DeliveredServed, DeliveredMoves DEF Proxy
<1>2. CASE Loop \/ Signalled \/ Exited \/ UNCHANGED systemVars
  BY <1>2, DeliveredKept DEF Loop, Signalled, Exited, systemVars, program, proxy
<1>3. CASE Call
  BY <1>3, DeliveredCall
<1>4. CASE Answered
  BY <1>4 DEF Answered, program, proxy, Delivered, Numbered, AnsweredWell, SomeLine, MP!Running
<1>5. CASE ConnectionInfo
  BY <1>5, DeliveredKept DEF ConnectionInfo, M!PrintConnectionInfo, program
<1>6. CASE RunEnds
  BY <1>6 DEF RunEnds, M!Exit, proxy, Delivered, Numbered, AnsweredWell, SomeLine
<1>7. CASE Dropped
  BY <1>7, DeliveredKept DEF Dropped, M!Drop, program
<1> QED
  BY <1>1, <1>2, <1>3, <1>4, <1>5, <1>6, <1>7 DEF SystemNext, Step

(***************************************************************************)
(* A statement sent that has been handled had no other result than that of *)
(* its own text.                                                           *)
(***************************************************************************)
Told ==
  \A k \in 1..Len(log), id \in 1..Len(sent) :
    log[k].lines = sent[id].lines =>
      /\ Last1(log[k].results) \in {"success", "failure"}
      /\ Last1(log[k].results) = "success" => id < Len(answers) /\ answers[id + 1]

\* The lines of the statement in hand have not been handled.
LEMMA RunningIsNew ==
  ASSUME Inv, Stream!RunsNewest, pc = "dispatch", NEW a \in words.lines PROVE ~Handed(a)
<1> SUFFICES ASSUME NEW k \in 1..Len(log), a \in log[k].lines PROVE FALSE
  BY DEF Handed
<1>1. /\ k \in 1..Len(handled) /\ a \in handled[k]
      /\ handled = [m \in 1..Len(log) |-> log[m].lines]
  <2>1. Len(log) \in Nat
    BY DEF Inv, TypeOK
  <2> QED
    BY <2>1 DEF handled
<1>2. a \in Running /\ a \in Nat
  BY DEF Running, Inv, TypeOK, Tokenizer
<1>3. a < a
  BY <1>1, <1>2 DEF Stream!RunsNewest
<1> QED
  BY <1>2, <1>3

\* Of the statements sent only the last, while it is being run, has its lines.
LEMMA OnlyTheLastRuns ==
  ASSUME Inv, Stream!RunsNewest, Sent, Delivered, pc = "dispatch",
         NEW id \in 1..Len(sent), sent[id].lines = words.lines
  PROVE  calling /\ id = Len(sent)
<1>1. PICK a : a \in sent[id].lines
  BY DEF Delivered, SomeLine
<1>2. ~Handed(a)
  BY <1>1, RunningIsNew
<1> QED
  BY <1>1, <1>2 DEF Sent

LEMMA SystemAnswers ==
  ASSUME MP!MainInv, InTurn, [SystemNext]_systemVars
  PROVE  \A k \in 1..Len(answers) : k \in 1..Len(answers') /\ answers'[k] = answers[k]
<1>1. [MP!MainNext]_(MP!allVars)
  BY MainNext, MainsAgree
<1>2. [MP!Next]_(MP!vars) /\ MP!Inv
  BY <1>1, MainAssumed, MP!ProxyNext DEF MP!MainInv, MP!Proxy
<1> QED
  BY <1>2, MainAssumed, MP!AnswersKept

\* What was told stays told.
LEMMA ToldKept ==
  ASSUME MP!MainInv, InTurn, Told, [SystemNext]_systemVars, sent' = sent, log' = log
  PROVE  Told'
<1>1. \A k \in 1..Len(answers) : k \in 1..Len(answers') /\ answers'[k] = answers[k]
  BY SystemAnswers
<1>2. Len(answers) \in Nat /\ Len(answers') \in Nat
  <2>1. answers \in Seq(BOOLEAN)
    BY DEF MP!MainInv, MP!Proxy, MP!Inv, MP!Shape
  <2>2. [MP!MainNext]_(MP!allVars)
    BY MainNext, MainsAgree
  <2>3. MP!Proxy'
    BY <2>2, MainAssumed, MP!ProxyKept
  <2>4. answers' \in Seq(BOOLEAN)
    BY <2>3 DEF MP!Proxy, MP!Inv, MP!Shape
  <2> QED
    BY <2>1, <2>4
<1>3. \A id \in Nat : id < Len(answers) /\ answers[id + 1] => id < Len(answers') /\ answers'[id + 1]
  <2> SUFFICES ASSUME NEW id \in Nat, id < Len(answers), answers[id + 1]
               PROVE  id < Len(answers') /\ answers'[id + 1]
    OBVIOUS
  <2>1. id + 1 \in 1..Len(answers)
    BY <1>2
  <2>2. id + 1 \in 1..Len(answers') /\ answers'[id + 1] = answers[id + 1]
    BY <1>1, <2>1
  <2> QED
    BY <1>2, <2>2
<1> QED
  BY <1>3 DEF Told

\* A statement that the log takes in while none is being run was not sent.
LEMMA ToldDispatch ==
  ASSUME MP!MainInv, Inv, Stream!RunsNewest, InTurn, Sent, Delivered, Told,
         Dispatch, ~calling, sent' = sent, answers' = answers
  PROVE  Told'
<1>1. CASE log' = log
  BY <1>1 DEF Told
<1>2. ASSUME NEW rs, log' = Append(log, [lines |-> words.lines, results |-> rs])
      PROVE  Told'
  <2>1. /\ Len(log) \in Nat /\ Len(log') = Len(log) + 1
        /\ \A k \in 1..Len(log) : log'[k] = log[k]
        /\ log'[Len(log) + 1].lines = words.lines
    BY <1>2, AppendElements DEF Inv, TypeOK
  <2>2. ASSUME NEW id \in 1..Len(sent) PROVE sent[id].lines # words.lines
    BY <2>2, OnlyTheLastRuns DEF Dispatch
  <2> SUFFICES ASSUME NEW k \in 1..Len(log'), NEW id \in 1..Len(sent),
                      log'[k].lines = sent[id].lines
               PROVE  /\ Last1(log'[k].results) \in {"success", "failure"}
                      /\ Last1(log'[k].results) = "success" =>
                           id < Len(answers) /\ answers[id + 1]
    BY DEF Told
  <2>3. k \in 1..Len(log) /\ log'[k] = log[k]
    BY <2>1, <2>2
  <2> QED
    BY <2>3 DEF Told
<1> QED
  BY <1>1, <1>2, DispatchEnds

\* The statement that was run gets the answer of its text.
LEMMA ToldAnswered ==
  ASSUME MP!MainInv, Inv, Stream!RunsNewest, InTurn, Sent, Delivered, Told, Answered
  PROVE  Told'
<1>1. /\ at = "cli" /\ calling /\ proxyPc = "idle" /\ pc = "dispatch" /\ DoesTransaction
      /\ sent' = sent /\ answers' = answers
  BY DEF Answered, proxy, InTurn, DoesTransaction, Called
<1>2. PICK r \in CallGroup(CommandGroups[Len(tried) + 1], words.words) :
        LET results == Append(tried, r)
            done    == LoopEnds(results)
        IN  /\ lastResult' = ResultAfter(r)
            /\ log' = IF done
                        THEN Append(log, [lines |-> words.lines, results |-> results])
                        ELSE log
  BY DEF Answered, Dispatch
<1>3. r \in {"success", "failure"}
  BY <1>1, TransactionAnswers
<1>4. Last1(Append(tried, r)) = r
  BY AppendElements DEF Inv, TypeOK, Last1
<1>5. log' = Append(log, [lines |-> words.lines, results |-> Append(tried, r)])
  BY <1>2, <1>3, <1>4 DEF LoopEnds
<1>6. /\ Len(log) \in Nat /\ Len(log') = Len(log) + 1
      /\ \A k \in 1..Len(log) : log'[k] = log[k]
      /\ log'[Len(log) + 1] = [lines |-> words.lines, results |-> Append(tried, r)]
  BY <1>5, AppendElements DEF Inv, TypeOK
<1>7. r = "success" => answers[Len(sent) + 1] /\ Len(answers) = Len(sent) + 1
  <2>1. Len(answers) = Len(sent) + 1
    BY <1>1 DEF Delivered, Numbered
  <2>2. r = "success" => Answer
    <3>1. lastResult' = Answer /\ lastResult' = ResultAfter(r)
      BY <1>2 DEF Answered
    <3>2. r = "success" => ResultAfter(r) = TRUE
      BY DEF ResultAfter
    <3> QED
      BY <3>1, <3>2
  <2> QED
    BY <2>1, <2>2 DEF Answer, Last1
<1> SUFFICES ASSUME NEW k \in 1..Len(log'), NEW id \in 1..Len(sent),
                    log'[k].lines = sent[id].lines
             PROVE  /\ Last1(log'[k].results) \in {"success", "failure"}
                    /\ Last1(log'[k].results) = "success" =>
                         id < Len(answers) /\ answers[id + 1]
  BY <1>1 DEF Told
<1>8. CASE k = Len(log) + 1
  <2>1. log'[k].lines = words.lines /\ log'[k].results = Append(tried, r)
    BY <1>6, <1>8
  <2>2. id = Len(sent) /\ Len(sent) \in Nat
    <3>1. sent[id].lines = words.lines /\ id \in 1..Len(sent)
      BY <1>1, <2>1
    <3>2. id = Len(sent)
      BY <1>1, <3>1, OnlyTheLastRuns
    <3>3. Len(sent) \in Nat
      BY DEF Sent
    <3> QED
      BY <3>2, <3>3
  <2>3. Last1(log'[k].results) = r
    BY <1>4, <2>1
  <2> QED
    BY <1>3, <1>7, <2>2, <2>3
<1>9. CASE k # Len(log) + 1
  <2>1. k \in 1..Len(log) /\ log'[k] = log[k]
    BY <1>6, <1>9
  <2> QED
    BY <2>1 DEF Told
<1> QED
  BY <1>8, <1>9

\* What is sent now has not been handled before.
LEMMA ToldCall ==
  ASSUME Inv, Stream!RunsNewest, Sent, Delivered, Told, Call PROVE Told'
<1>1. /\ pc = "dispatch" /\ log' = log /\ answers' = answers
      /\ sent' = Append(sent, [lines |-> words.lines, text |-> command'.text])
  BY DEF Call, DoesTransaction, Called, vars, M!RequestText
<1>2. /\ Len(sent) \in Nat /\ Len(sent') = Len(sent) + 1
      /\ \A id \in 1..Len(sent) : sent'[id] = sent[id]
      /\ sent'[Len(sent) + 1].lines = words.lines
  BY <1>1, AppendElements DEF Sent
<1>3. ASSUME NEW k \in 1..Len(log) PROVE log[k].lines # words.lines
  <2>1. PICK a : a \in words.lines
    BY <1>1 DEF Inv, Held
  <2>2. ~Handed(a)
    BY <1>1, <2>1, RunningIsNew
  <2> QED
    BY <2>1, <2>2 DEF Handed
<1> SUFFICES ASSUME NEW k \in 1..Len(log), NEW id \in 1..Len(sent'),
                    log[k].lines = sent'[id].lines
             PROVE  /\ Last1(log[k].results) \in {"success", "failure"}
                    /\ Last1(log[k].results) = "success" =>
                         id < Len(answers) /\ answers[id + 1]
  BY <1>1 DEF Told
<1>4. id \in 1..Len(sent) /\ sent'[id] = sent[id]
  BY <1>2, <1>3
<1> QED
  BY <1>4 DEF Told

LEMMA ToldNext ==
  MP!MainInv /\ Inv /\ Stream!RunsNewest /\ InTurn /\ Sent /\ Delivered /\ Told
    /\ [SystemNext]_systemVars => Told'
<1> SUFFICES ASSUME MP!MainInv, Inv, Stream!RunsNewest, InTurn, Sent, Delivered, Told,
                    [SystemNext]_systemVars
             PROVE  Told'
  OBVIOUS
<1>1. CASE Call
  BY <1>1, ToldCall
<1>2. CASE Answered
  BY <1>2, ToldAnswered
<1>3. CASE ConnectionInfo
  <2>1. Dispatch /\ ~calling /\ sent' = sent /\ answers' = answers
    BY <1>3 DEF ConnectionInfo, M!PrintConnectionInfo
  <2> QED
    BY <2>1, ToldDispatch
<1>4. CASE Loop /\ Dispatch
  <2>1. ~calling /\ sent' = sent /\ answers' = answers
    BY <1>4 DEF Loop, InTurn, proxy
  <2> QED
    BY <1>4, <2>1, ToldDispatch
<1>5. CASE Loop /\ ~Dispatch
  <2>1. sent' = sent /\ log' = log
    BY <1>5 DEF Loop, Run, GetLine, EndOfInput, CheckSignal, Tokenize, Tokenized, TokFailed,
       TokReset
  <2> QED
    BY <2>1, ToldKept
<1>6. CASE Proxy \/ RunEnds \/ Dropped \/ Exited \/ UNCHANGED systemVars
  <2>1. sent' = sent /\ log' = log
    BY <1>6 DEF Proxy, RunEnds, Dropped, Exited, systemVars, vars
  <2> QED
    BY <2>1, ToldKept
<1>7. CASE Signalled
  <2>1. sent' = sent /\ log' = log
    BY <1>7 DEF Signalled, Signal, SignalInTokStr, Tokenized
  <2> QED
    BY <2>1, ToldKept
<1> QED
  BY <1>1, <1>2, <1>3, <1>4, <1>5, <1>6, <1>7 DEF SystemNext, Step

(***************************************************************************)
(* A success at the end is that of the last statement.                     *)
(***************************************************************************)
Ended ==
  at = "exit" /\ exitCode = "success" /\ Len(sent) # 0 =>
    Len(log) # 0 /\ Last1(Last1(log).results) \in {"exit", "success"}

LEMMA EndedNext ==
  Inv /\ LastTold /\ InTurn /\ Sent /\ Delivered /\ Ended /\ [SystemNext]_systemVars => Ended'
<1> SUFFICES ASSUME Inv, LastTold, InTurn, Sent, Delivered, Ended, [SystemNext]_systemVars
             PROVE  Ended'
  OBVIOUS
<1>1. CASE RunEnds
  <2>1. /\ UNCHANGED <<log, sent>> /\ at = "cli" /\ ~calling
        /\ exitCode' = "success" => lastResult
    BY <1>1 DEF RunEnds, vars, InTurn, DoesTransaction, Called, M!Exit, M!toExitCode
  <2>2. ASSUME Len(sent) # 0 PROVE Len(log) # 0
    <3>1. 1 \in 1..Len(sent)
      BY <2>2 DEF Sent
    <3>2. PICK a : a \in sent[1].lines
      BY <3>1 DEF Delivered, SomeLine
    <3>3. PICK k \in 1..Len(log) : a \in log[k].lines
      BY <2>1, <3>1, <3>2 DEF Sent, Handed
    <3> QED
      BY <3>3
  <2>3. Len(log) # 0 => log # <<>>
    BY EmptyType
  <2> QED
    BY <2>1, <2>2, <2>3 DEF Ended, LastTold
<1>2. CASE Proxy
  <2>1. UNCHANGED <<log, sent>>
    BY <1>2 DEF Proxy, vars
  <2>2. at' = "exit" => at # "cli" /\ at # "exit"
    BY <1>2 DEF Proxy, M!handleOptions, M!HandleBaseOptions, M!HandleDbProxyOptions,
       M!ProxyStep, M!ProxyFailed, M!ChooseMode, M!ListDbs, M!CommandLoop, M!OpenCommandFile,
       M!program, M!Goto, M!Exit
  <2> QED
    BY <2>1, <2>2 DEF Delivered, Numbered, Ended
<1>3. CASE at = "cli" /\ ~RunEnds /\ ~Proxy
  <2>1. at' = "cli"
    BY <1>3 DEF SystemNext, Step, Loop, Call, Answered, ConnectionInfo, Signalled, Dropped,
       Exited, systemVars, program
  <2> QED
    BY <2>1 DEF Ended
<1>4. CASE at # "cli" /\ ~RunEnds /\ ~Proxy
  <2>1. UNCHANGED <<at, exitCode, log, sent>>
    BY <1>4 DEF SystemNext, Step, Loop, Call, Answered, ConnectionInfo, Signalled, Dropped,
       Exited, systemVars, program, vars
  <2> QED
    BY <2>1 DEF Ended
<1> QED
  BY <1>1, <1>2, <1>3, <1>4

LEMMA SystemTold ==
  SystemSpec => [](MP!Account /\ Sent /\ Delivered /\ Told /\ Ended)
<1>1. SystemInit => Sent /\ SentInOrder /\ Told /\ Ended
  <2> SUFFICES ASSUME SystemInit PROVE Sent /\ SentInOrder /\ Told /\ Ended
    OBVIOUS
  <2>1. sent \in Seq([lines : SUBSET Nat, text : Texts]) /\ Len(sent) = 0
    BY EmptyType DEF SystemInit
  <2> QED
    BY <2>1 DEF Sent, SentInOrder, Told, Ended
<1>2. /\ SystemSpec => []Inv
      /\ SystemSpec => []Stream!RunsNewest
      /\ SystemSpec => [](OneCommandEach /\ LastTold)
  BY FollowsCli, Invariance, DispatchesNewest, AskedAlways, PTL
<1> QED
  BY <1>1, <1>2, MainAccounted, InTurnInit, InTurnNext, SentNext, DeliveredInit, DeliveredNext,
     ToldNext, EndedNext, PTL DEF SystemSpec

(***************************************************************************)
(* However many statements, signals and lost connections there are, a      *)
(* statement that succeeds is one whose own text the server has run, once  *)
(* and to its end (cli.cpp:278-291, db.cpp:39-48, 238-259).                *)
(***************************************************************************)
THEOREM AnswerReachesUserCorrect == SystemSpec => []AnswerReachesUser
<1>1. MP!Account /\ Sent /\ Delivered /\ Told => AnswerReachesUser
  <2> SUFFICES ASSUME MP!Account, Sent, Delivered, Told,
                      NEW k \in 1..Len(log), NEW id \in 1..Len(sent),
                      log[k].lines = sent[id].lines, Last1(log[k].results) = "success"
               PROVE  answers[id + 1] /\ runs[id] = 1 /\ ~Contains(sent[id].text, "error")
    BY DEF AnswerReachesUser
  <2>1. id < Len(answers) /\ answers[id + 1]
    BY DEF Told
  <2>2. id + 1 \in 1..Len(answers) /\ (id + 1) - 1 = id
    <3>1. Len(answers) \in Nat
      BY DEF MP!Account, MP!TypeOK
    <3> QED
      BY <2>1, <3>1
  <2>3. runs[id] = 1
    BY <2>1, <2>2 DEF MP!Account, MP!Earned
  <2> QED
    BY <2>1, <2>3 DEF Delivered, AnsweredWell
<1> QED
  BY <1>1, SystemTold, PTL

(***************************************************************************)
(* psqlxx -f, or at the terminal, exits with success after a statement for *)
(* the server only if the server ran its text, once and to its end         *)
(* (main.cpp:91).                                                          *)
(***************************************************************************)
THEOREM ExitStatusOfRunCorrect == SystemSpec => []ExitStatusOfRun
<1>1. AnswerReachesUser /\ Sent /\ Told /\ Ended => ExitStatusOfRun
  <2> SUFFICES ASSUME AnswerReachesUser, Sent, Told, Ended,
                      at = "exit", exitCode = "success", sent # <<>>,
                      Last1(log).lines = sent[Len(sent)].lines
               PROVE  runs[Len(sent)] = 1 /\ ~Contains(sent[Len(sent)].text, "error")
    BY DEF ExitStatusOfRun
  <2>1. Len(sent) \in 1..Len(sent) /\ Len(sent) # 0
    BY DEF Sent
  <2>2. Len(log) # 0 /\ Last1(Last1(log).results) \in {"exit", "success"}
    BY <2>1 DEF Ended
  <2>3. Len(log) \in 1..Len(log)
    BY <2>2
  <2>4. Last1(log[Len(log)].results) = "success"
    BY <2>1, <2>2, <2>3 DEF Told, Last1
  <2> QED
    BY <2>1, <2>3, <2>4 DEF AnswerReachesUser, Last1
<1> QED
  BY <1>1, SystemTold, AnswerReachesUserCorrect, PTL
=============================================================================
