---------------------------- MODULE Main_proofs ----------------------------
(***************************************************************************)
(* Proved of the connection (DbProxy, in the first part) for every set of  *)
(* texts and every number of commands: makeConnection stays within its two *)
(* attempts, a password is asked for only when that is wanted, a text is   *)
(* run at most once and answered by what became of it, it saves only by    *)
(* itself once it has ended the transaction begun for it, and nothing     *)
(* stays open between two texts.                                           *)
(*                                                                         *)
(* Proved of the program (Main, in the second part), for every set of      *)
(* command lines: it drives its DbProxy only as DbProxy says, so that what *)
(* is proved of DbProxy holds in the program; it uses no DbProxy that is   *)
(* not usable; it stops at the first -c text that fails; and its exit code *)
(* is earned.                                                              *)
(***************************************************************************)
EXTENDS Main, Folding, TLAPS

USE TextsAssumption

(***************************************************************************)
(* RunText, a fold over the statements of a text, statement by statement:  *)
(* what the server has before each of them and after the last.             *)
(***************************************************************************)
Sessions == [block : BOOLEAN, pending : SUBSET Commands]
Outcomes == [block : BOOLEAN, pending : SUBSET Commands, db : SUBSET Commands, error : BOOLEAN]

RunStatement(r, id, statement) ==
  IF r.error THEN r
  ELSE CASE statement = "read"     -> r
         [] statement = "write"    -> [r EXCEPT !.pending = @ \cup {id}]
         [] statement = "begin"    -> [r EXCEPT !.block = TRUE]
         [] statement = "commit"   -> [r EXCEPT !.block = FALSE, !.pending = {},
                                                !.db = @ \cup r.pending]
         [] statement = "rollback" -> [r EXCEPT !.block = FALSE, !.pending = {}]
         [] statement = "error"    -> [r EXCEPT !.error = TRUE, !.pending = {}]

AtFirst(s, d) == [block |-> s.block, pending |-> s.pending, db |-> d, error |-> FALSE]

AtLast(end) ==
  IF end.block THEN end ELSE [end EXCEPT !.db = @ \cup end.pending, !.pending = {}]

Executing(r, s, d, id, text) ==
  /\ r \in [0..Len(text) -> Outcomes]
  /\ r[0] = AtFirst(s, d)
  /\ \A k \in 1..Len(text) : r[k] = RunStatement(r[k - 1], id, text[k])

LEMMA StatementOutcome ==
  ASSUME NEW r \in Outcomes, NEW id \in Commands, NEW statement \in Statements
  PROVE  RunStatement(r, id, statement) \in Outcomes
BY DEF Outcomes, RunStatement, Statements

LEMMA RunTextSteps ==
  ASSUME NEW s \in Sessions, NEW d \in SUBSET Commands, NEW id \in Commands,
         NEW text \in Seq(Statements)
  PROVE  \E r : Executing(r, s, d, id, text)
                /\ RunText(s, d, id, text) = AtLast(r[Len(text)])
<1> DEFINE len == Len(text)
           base == AtFirst(s, d)
           Iterates(iter) == iter = [t \in SUBSET DOMAIN text |->
             IF t = {} THEN base ELSE RunStatement(iter[t \ {Max(t)}], id, text[Max(t)])]
           it == CHOOSE iter : Iterates(iter)
           steps == [k \in 1..len |-> [r \in Outcomes |-> RunStatement(r, id, text[k])]]
<1>1. DOMAIN text = 1..len /\ len \in Nat /\ \A k \in 1..len : text[k] \in Statements
  OBVIOUS
<1>2. RunText(s, d, id, text) = AtLast(it[1..len])
  BY <1>1 DEF RunText, FoldLeft, MapThenFoldSet, RunStatement, AtFirst, AtLast
<1>3. steps \in [1..len -> [Outcomes -> Outcomes]]
  <2> HIDE DEF len
  <2>1. \A k \in 1..len : \A r \in Outcomes : RunStatement(r, id, text[k]) \in Outcomes
    BY <1>1, StatementOutcome
  <2> QED
    BY <2>1
<1>4. base \in Outcomes
  BY DEF AtFirst, Sessions, Outcomes
<1>5. PICK h \in [SUBSET (1..len) -> Outcomes] : FoldOf(h, len, base, steps)
  <2> HIDE DEF len, steps, base
  <2> QED
    BY <1>1, <1>3, <1>4, FoldExists
<1> HIDE DEF base
<1>6. Iterates(h)
  <2>1. ASSUME NEW t \in SUBSET (1..len)
        PROVE  h[t] = IF t = {} THEN base ELSE RunStatement(h[t \ {Max(t)}], id, text[Max(t)])
    <3>1. CASE t # {}
      <4>1. Max(t) \in 1..len
        <5> HIDE DEF len
        <5> QED
          BY <1>1, <3>1, MaxOfSet
      <4>2. h[t] = steps[Max(t)][h[t \ {Max(t)}]] /\ h[t \ {Max(t)}] \in Outcomes
        BY <1>5, <3>1 DEF FoldOf
      <4> QED
        BY <3>1, <4>1, <4>2
    <3>2. CASE t = {}
      BY <1>5, <3>2 DEF FoldOf
    <3> QED
      BY <3>1, <3>2
  <2> HIDE DEF len
  <2> QED
    BY <1>1, <2>1
<1>7. Iterates(it)
  <2> HIDE DEF Iterates
  <2> QED
    BY <1>6
<1> HIDE DEF it
<1>8. it[{}] = base
  BY <1>1, <1>7
<1>9. ASSUME NEW k \in 1..len
      PROVE  it[1..k] = RunStatement(it[1..(k - 1)], id, text[k])
  <2>1. 1..k # {} /\ Max(1..k) = k /\ (1..k) \ {k} = 1..(k - 1)
    <3>1. k \in Nat /\ k # 0
      OBVIOUS
    <3> QED
      BY <3>1, MaxOfRange
  <2>2. 1..k \in SUBSET DOMAIN text
    BY <1>1
  <2> HIDE DEF len
  <2>3. \A t \in SUBSET DOMAIN text :
          it[t] = IF t = {} THEN base ELSE RunStatement(it[t \ {Max(t)}], id, text[Max(t)])
    BY <1>7, Zenon
  <2>4. it[1..k] = RunStatement(it[(1..k) \ {Max(1..k)}], id, text[Max(1..k)])
    BY <2>1, <2>2, <2>3, Zenon
  <2> QED
    BY <2>1, <2>4, Zenon
<1> DEFINE r == [k \in 0..len |-> it[1..k]]
           Bad == {k \in 0..len : r[k] \notin Outcomes}
<1>10. r[0] = base
  <2>1. 1..0 = {}
    OBVIOUS
  <2> QED
    BY <1>8, <2>1
<1>11. \A k \in 1..len : k - 1 \in 0..len /\ r[k] = RunStatement(r[k - 1], id, text[k])
  <2>1. \A k \in 1..len : k \in 0..len /\ k - 1 \in 0..len
    OBVIOUS
  <2> QED
    BY <1>9, <2>1
<1>12. DOMAIN r = 0..len /\ r = [k \in 0..len |-> r[k]] /\ RunText(s, d, id, text) = AtLast(r[len])
  BY <1>1, <1>2
<1> HIDE DEF r
<1>13. \A k \in 0..len : r[k] \in Outcomes
  <2>1. SUFFICES ASSUME Bad # {} PROVE FALSE
    OBVIOUS
  <2>2. Bad \subseteq Nat
    OBVIOUS
  <2>3. PICK k \in Bad : \A j \in Bad : k <= j
    <3> HIDE DEF Bad
    <3> QED
      BY <2>1, <2>2, SmallestNumber
  <2>4. k \in 1..len /\ k - 1 \in 0..len /\ k - 1 \notin Bad
    BY <1>4, <1>10, <2>3 DEF base
  <2>5. r[k - 1] \in Outcomes
    BY <2>4
  <2>6. r[k] \in Outcomes
    BY <1>1, <1>11, <2>4, <2>5, StatementOutcome
  <2> QED
    BY <2>3, <2>6
<1>14. r \in [0..len -> Outcomes]
  BY <1>12, <1>13
<1> QED
  BY <1>10, <1>11, <1>12, <1>14 DEF Executing, base

(***************************************************************************)
(* What a text leaves behind: it ends in an error if one of its statements *)
(* does.                                                                   *)
(***************************************************************************)
LEMMA RunTextOutcome ==
  ASSUME NEW s \in Sessions, NEW d \in SUBSET Commands, NEW id \in Commands,
         NEW text \in Seq(Statements)
  PROVE  /\ RunText(s, d, id, text) \in Outcomes
         /\ RunText(s, d, id, text).error <=> Contains(text, "error")
<1> DEFINE len == Len(text)
<1>1. len \in Nat /\ \A k \in 1..len : text[k] \in Statements
  OBVIOUS
<1>2. PICK r : Executing(r, s, d, id, text) /\ RunText(s, d, id, text) = AtLast(r[len])
  BY RunTextSteps
<1>3. \A k \in 0..len : r[k] \in Outcomes
  BY <1>2 DEF Executing
<1> DEFINE Told(k) == r[k].error <=> \E i \in 1..k : text[i] = "error"
           Bad == {k \in 0..len : ~Told(k)}
<1>4. Told(0)
  BY <1>2 DEF Executing, AtFirst
<1>5. ASSUME NEW k \in 1..len, Told(k - 1) PROVE Told(k)
  <2>1. r[k] = RunStatement(r[k - 1], id, text[k]) /\ k - 1 \in 0..len
    BY <1>2 DEF Executing
  <2>2. r[k].error <=> r[k - 1].error \/ text[k] = "error"
    <3>1. r[k - 1] \in Outcomes /\ text[k] \in Statements
      BY <1>1, <1>3, <2>1
    <3> QED
      BY <2>1, <3>1 DEF RunStatement, Outcomes, Statements
  <2>3. (\E i \in 1..k : text[i] = "error")
          <=> (\E i \in 1..(k - 1) : text[i] = "error") \/ text[k] = "error"
    OBVIOUS
  <2> QED
    BY <1>5, <2>2, <2>3
<1> HIDE DEF Told
<1>6. \A k \in 0..len : Told(k)
  <2>1. SUFFICES ASSUME Bad # {} PROVE FALSE
    OBVIOUS
  <2>2. Bad \subseteq Nat
    OBVIOUS
  <2>3. PICK k \in Bad : \A j \in Bad : k <= j
    <3> HIDE DEF Bad
    <3> QED
      BY <2>1, <2>2, SmallestNumber
  <2>4. k \in 1..len /\ k - 1 \in 0..len /\ k - 1 \notin Bad
    BY <1>4, <2>3
  <2> QED
    BY <1>5, <2>3, <2>4
<1>7. len \in 0..len /\ Told(len) /\ r[len] \in Outcomes
  BY <1>1, <1>3, <1>6
<1>8. AtLast(r[len]) \in Outcomes /\ AtLast(r[len]).error = r[len].error
  BY <1>7 DEF AtLast, Outcomes
<1> QED
  BY <1>2, <1>7, <1>8 DEF Told, Contains

(***************************************************************************)
(* In the transaction of its own that a text starts in it can save no      *)
(* writes but its own, and those only once it has ended the transaction.   *)
(***************************************************************************)
LEMMA RunTextSaves ==
  ASSUME NEW d \in SUBSET Commands, NEW id \in Commands, NEW text \in Seq(Statements)
  PROVE  \A c \in RunText([NoSession EXCEPT !.block = TRUE], d, id, text).db \ d :
           c = id /\ \E statement \in {"commit", "rollback"} : Contains(text, statement)
<1> DEFINE len == Len(text)
           s == [NoSession EXCEPT !.block = TRUE]
<1>1. len \in Nat /\ \A k \in 1..len : text[k] \in Statements
  OBVIOUS
<1>2. s \in Sessions /\ s.block = TRUE /\ s.pending = {}
  BY DEF NoSession, Sessions
<1> HIDE DEF s
<1>3. PICK r : Executing(r, s, d, id, text) /\ RunText(s, d, id, text) = AtLast(r[len])
  BY <1>2, RunTextSteps
<1>4. \A k \in 0..len : r[k] \in Outcomes
  BY <1>3 DEF Executing
<1> DEFINE Ends == {"commit", "rollback"}
           Ended(k) == \E i \in 1..k : text[i] \in Ends
           Own(k) == /\ r[k].pending \subseteq {id} /\ r[k].db \subseteq d \cup {id}
                     /\ Ended(k) \/ (r[k].db \subseteq d /\ r[k].block)
           Bad == {k \in 0..len : ~Own(k)}
<1>5. Own(0)
  BY <1>2, <1>3 DEF Executing, AtFirst
<1>6. ASSUME NEW k \in 1..len, Own(k - 1) PROVE Own(k)
  <2>1. r[k] = RunStatement(r[k - 1], id, text[k]) /\ k - 1 \in 0..len
    BY <1>3 DEF Executing
  <2>2. r[k - 1] \in Outcomes /\ text[k] \in Statements
    BY <1>1, <1>4, <2>1
  <2>3. Ended(k) <=> Ended(k - 1) \/ text[k] \in Ends
    OBVIOUS
  <2> HIDE DEF Ended
  <2>4. r[k].pending \subseteq {id} /\ r[k].db \subseteq d \cup {id}
    BY <1>6, <2>1, <2>2 DEF RunStatement, Outcomes, Statements
  <2>5. text[k] \notin Ends /\ r[k - 1].block => r[k].block /\ r[k].db = r[k - 1].db
    BY <2>1, <2>2 DEF RunStatement, Outcomes, Statements
  <2> QED
    BY <1>6, <2>3, <2>4, <2>5
<1> HIDE DEF Own
<1>7. \A k \in 0..len : Own(k)
  <2>1. SUFFICES ASSUME Bad # {} PROVE FALSE
    OBVIOUS
  <2>2. Bad \subseteq Nat
    OBVIOUS
  <2>3. PICK k \in Bad : \A j \in Bad : k <= j
    <3> HIDE DEF Bad
    <3> QED
      BY <2>1, <2>2, SmallestNumber
  <2>4. k \in 1..len /\ k - 1 \in 0..len /\ k - 1 \notin Bad
    BY <1>5, <2>3
  <2> QED
    BY <1>6, <2>3, <2>4
<1>8. len \in 0..len /\ Own(len) /\ r[len] \in Outcomes
  BY <1>1, <1>4, <1>7
<1>9. ASSUME NEW c \in AtLast(r[len]).db \ d PROVE c = id /\ Ended(len)
  BY <1>8, <1>9 DEF Own, AtLast, Outcomes
<1> QED
  BY <1>3, <1>9 DEF s, Contains

(***************************************************************************)
(* The thread is inside DoTransaction, or on its way to the first one: the *)
(* text in hand is the next one to be answered.                            *)
(***************************************************************************)
Making == {"make", "prompt", "attempt"}
Running == {"begin", "exec", "handle", "abort", "return"}

Shape ==
  /\ answers \in Seq(BOOLEAN)
  /\ result \in BOOLEAN
  /\ command.id \in Commands
  /\ runs \in [Commands -> {0, 1}]
  /\ attempts \in [all : Nat, prompts : Nat]
  /\ options \in [prompt : BOOLEAN, base : Bases, outFile : BOOLEAN]

(***************************************************************************)
(* A text that is still to be answered has not been run, but for the one   *)
(* the server has just had.                                                *)
(***************************************************************************)
Numbered == pc \in Making \cup Running => command.id = Len(answers)

Ran(c) == IF pc \in {"handle", "abort", "return"} THEN c > Len(answers) ELSE c >= Len(answers)

NotYetRun == \A c \in Commands : Ran(c) => runs[c] = 0

(***************************************************************************)
(* The server has a transaction of this client only from the BEGIN to the  *)
(* ROLLBACK of DoTransaction.                                              *)
(***************************************************************************)
Closed == pc \notin {"exec", "handle", "abort"} => session = NoSession

(***************************************************************************)
(* makeConnection comes back to its loop body only after a refusal for     *)
(* want of a password, and goes to the prompt only then.                   *)
(***************************************************************************)
Denied ==
  /\ pc \in Making /\ originalTried => denied
  /\ pc = "prompt" => originalTried /\ options.prompt

Inv == Shape /\ Numbered /\ NotYetRun /\ Closed /\ Denied

LEMMA InitInv == Init => Inv
<1> SUFFICES ASSUME Init PROVE Inv
  OBVIOUS
<1> USE DEF Init
<1>1. Shape
  BY DEF Shape, Commands
<1>2. Numbered /\ NotYetRun
  BY DEF Numbered, NotYetRun, Commands
<1>3. Closed /\ Denied
  BY DEF Closed, Denied, Making
<1> QED
  BY <1>1, <1>2, <1>3 DEF Inv

(***************************************************************************)
(* One more answer makes room for one more text.                           *)
(***************************************************************************)
LEMMA OneMoreAnswer ==
  ASSUME NEW s \in Seq(BOOLEAN), NEW e \in BOOLEAN
  PROVE  Append(s, e) \in Seq(BOOLEAN) /\ Len(Append(s, e)) = Len(s) + 1 /\ Len(s) \in Nat
OBVIOUS

(***************************************************************************)
(* Steps that leave commands, answers and the server alone.                *)
(***************************************************************************)
LEMMA ConnectingInv ==
  Inv /\ (MakeConnection \/ Prompt \/ Connected \/ Broken \/ Thrown \/ OpenOut \/ Check)
    => Inv'
<1> SUFFICES ASSUME Inv,
                    MakeConnection \/ Prompt \/ Connected \/ Broken \/ Thrown
                      \/ OpenOut \/ Check
             PROVE  Inv'
  OBVIOUS
<1> USE DEF MakeConnection, Prompt, Connected, Broken, Thrown, OpenOut, Check, making, server
<1>1. Shape'
  BY DEF Inv, Shape, Attempt
<1>2. Numbered'
  BY DEF Inv, Numbered, Making, Running
<1>3. NotYetRun'
  BY DEF Inv, NotYetRun, Ran
<1>4. Closed'
  BY DEF Inv, Closed
<1>5. Denied'
  BY DEF Inv, Denied, Making, PromptAllowed
<1> QED
  BY <1>1, <1>2, <1>3, <1>4, <1>5 DEF Inv

LEMMA PrintInv == Inv /\ PrintConnectionInfo => Inv'
<1> SUFFICES ASSUME Inv, PrintConnectionInfo PROVE Inv'
  OBVIOUS
<1> USE DEF PrintConnectionInfo, making, server
<1>1. Shape' /\ Numbered'
  BY DEF Inv, Shape, Numbered
<1>2. NotYetRun' /\ Closed' /\ Denied'
  BY DEF Inv, NotYetRun, Ran, Closed, Denied
<1> QED
  BY <1>1, <1>2 DEF Inv

(***************************************************************************)
(* The server runs the text in hand, which it has not run before.          *)
(***************************************************************************)
LEMMA RunOnce ==
  ASSUME Inv, pc = "exec", runs' = [runs EXCEPT ![command.id] = @ + 1],
         answers' = answers, command' = command, pc' \in {"handle", "abort"}
  PROVE  runs' \in [Commands -> {0, 1}] /\ NotYetRun' /\ Numbered'
<1>1. command.id = Len(answers) /\ command.id \in Commands /\ Len(answers) \in Nat
  BY DEF Inv, Shape, Numbered, Running
<1>2. runs[command.id] = 0
  BY <1>1 DEF Inv, NotYetRun, Ran
<1>3. runs' \in [Commands -> {0, 1}]
  BY <1>1, <1>2 DEF Inv, Shape
<1>4. NotYetRun'
  <2> SUFFICES ASSUME NEW c \in Commands, Ran(c)' PROVE runs'[c] = 0
    BY DEF NotYetRun
  <2>1. c > Len(answers) /\ c # command.id
    BY <1>1 DEF Ran, Commands
  <2>2. Ran(c)
    BY <2>1, <1>1 DEF Ran, Commands
  <2> QED
    BY <2>1, <2>2, <1>1 DEF Inv, Shape, NotYetRun
<1> QED
  BY <1>1, <1>3, <1>4 DEF Numbered

LEMMA ExecInv == Inv /\ (Exec \/ ExecFailed) => Inv'
<1>1. ASSUME Inv, Exec PROVE Inv'
  <2> USE <1>1 DEF Exec, Executed, making
  <2>1. runs' \in [Commands -> {0, 1}] /\ NotYetRun' /\ Numbered'
    BY RunOnce
  <2>2. Shape'
    BY <2>1 DEF Inv, Shape
  <2>3. Closed' /\ Denied'
    BY DEF Inv, Closed, Denied, Making
  <2> QED
    BY <2>1, <2>2, <2>3 DEF Inv
<1>2. ASSUME Inv, ExecFailed PROVE Inv'
  <2> USE <1>2 DEF ExecFailed, AfterBrokenConnection, making, server
  <2>1. runs' \in [Commands -> {0, 1}] /\ NotYetRun' /\ Numbered'
    <3>1. CASE UNCHANGED server
      BY <3>1 DEF Inv, Shape, NotYetRun, Ran, Numbered, Running, Commands
    <3>2. CASE runs' = [runs EXCEPT ![command.id] = @ + 1]
      BY <3>2, RunOnce
    <3> QED
      BY <3>1, <3>2
  <2>2. Shape'
    BY <2>1 DEF Inv, Shape
  <2>3. Closed' /\ Denied'
    BY DEF Inv, Closed, Denied, Making
  <2> QED
    BY <2>1, <2>2, <2>3 DEF Inv
<1> QED
  BY <1>1, <1>2

LEMMA ReturnInv == Inv /\ Return => Inv'
<1> SUFFICES ASSUME Inv, Return PROVE Inv'
  OBVIOUS
<1> USE DEF Return, making, server
<1>1. /\ answers' \in Seq(BOOLEAN) /\ Len(answers') = Len(answers) + 1
      /\ Len(answers) \in Nat
  BY OneMoreAnswer DEF Inv, Shape
<1>2. Shape'
  BY <1>1 DEF Inv, Shape
<1>3. Numbered'
  BY DEF Numbered, Making, Running
<1>4. NotYetRun'
  <2> SUFFICES ASSUME NEW c \in Commands, Ran(c)' PROVE runs[c] = 0
    BY DEF NotYetRun
  <2>1. c >= Len(answers) + 1
    BY <1>1 DEF Ran
  <2>2. Ran(c)
    BY <2>1, <1>1 DEF Ran, Commands
  <2> QED
    BY <2>2 DEF Inv, NotYetRun
<1>5. Closed' /\ Denied'
  BY DEF Inv, Closed, Denied, Making
<1> QED
  BY <1>2, <1>3, <1>4, <1>5 DEF Inv

LEMMA RequestInv == Inv /\ Request => Inv'
<1> SUFFICES ASSUME Inv, NEW text \in Texts, RequestText(text) PROVE Inv'
  BY DEF Request
<1> USE DEF RequestText, making, server
<1>1. Len(answers) \in Nat
  BY DEF Inv, Shape
<1>2. Shape'
  BY <1>1 DEF Inv, Shape, Commands
<1>3. Numbered'
  BY DEF Numbered
<1>4. NotYetRun'
  BY DEF Inv, NotYetRun, Ran
<1>5. Closed' /\ Denied'
  BY DEF Inv, Closed, Denied, Making
<1> QED
  BY <1>2, <1>3, <1>4, <1>5 DEF Inv

LEMMA TransactionInv == Inv /\ (Begin \/ Handle \/ Abort \/ Drop) => Inv'
<1> SUFFICES ASSUME Inv, Begin \/ Handle \/ Abort \/ Drop PROVE Inv'
  OBVIOUS
<1> USE DEF Begin, Handle, Abort, Drop, RolledBack, making, server
<1>1. Shape'
  BY DEF Inv, Shape
<1>2. Numbered'
  BY DEF Inv, Numbered, Making, Running
<1>3. NotYetRun'
  <2>1. Len(answers) \in Nat
    BY DEF Inv, Shape
  <2> QED
    BY <2>1 DEF Inv, NotYetRun, Ran, Commands
<1>4. Closed'
  BY DEF Inv, Closed
<1>5. Denied'
  BY DEF Inv, Denied, Making
<1> QED
  BY <1>1, <1>2, <1>3, <1>4, <1>5 DEF Inv

LEMMA NextInv == Inv /\ [Next]_vars => Inv'
<1>1. ASSUME Inv, UNCHANGED vars PROVE Inv'
  BY <1>1 DEF vars, making, server, Inv, Shape, Numbered, NotYetRun, Ran, Closed, Denied
<1> QED
  BY <1>1, ConnectingInv, PrintInv, ExecInv, ReturnInv, RequestInv, TransactionInv
     DEF Next, Client, Stopped

LEMMA Invariance == Spec => []Inv
BY InitInv, NextInv, PTL DEF Spec

(***************************************************************************)
(* No text reaches the server twice, for any texts and any number of them  *)
(* (DbProxy::DoTransaction, db.cpp:238-259).                               *)
(***************************************************************************)
THEOREM RunAtMostOnceCorrect == Spec => []RunAtMostOnce
<1>1. Inv => RunAtMostOnce
  BY DEF Inv, Shape, RunAtMostOnce
<1> QED
  BY <1>1, Invariance, PTL

(***************************************************************************)
(* No transaction is open when a text begins or has been answered: the     *)
(* pqxx::work of DoTransaction never outlives it.                          *)
(***************************************************************************)
THEOREM NothingLeftOpenCorrect == Spec => []NothingLeftOpen
<1>1. Inv => NothingLeftOpen
  BY DEF Inv, Closed, NothingLeftOpen
<1> QED
  BY <1>1, Invariance, PTL

(***************************************************************************)
(* getpass is called only with prompt_for_password set, after a refusal    *)
(* for want of a password (makeConnection, db.cpp:155-174).                *)
(***************************************************************************)
THEOREM PromptOnlyIfDeniedCorrect == Spec => PromptOnlyIfDenied
<1> DEFINE Step == attempts'.prompts # attempts.prompts => options.prompt /\ denied
<1>1. ASSUME Inv, Next PROVE Step
  <2>1. CASE Prompt
    BY <1>1, <2>1 DEF Inv, Denied, Prompt, Making
  <2>2. CASE Connected \/ Broken \/ Thrown
    <3>1. attempts'.prompts = attempts.prompts
      BY <1>1, <2>2 DEF Connected, Broken, Thrown, Attempt, Inv, Shape
    <3> QED
      BY <3>1
  <2>3. CASE ~(Prompt \/ Connected \/ Broken \/ Thrown)
    <3>1. UNCHANGED attempts
      BY <1>1, <2>3 DEF Next, Client, Stopped, vars, making, MakeConnection, OpenOut, Check,
         Begin, Exec, ExecFailed, Handle, Abort, Return, Request, RequestText, PrintConnectionInfo, Drop
    <3> QED
      BY <3>1
  <2> QED
    BY <2>1, <2>2, <2>3
<1>2. Inv /\ [Next]_vars => [Step]_vars
  BY <1>1
<1> QED
  BY <1>2, Invariance, PTL DEF Spec, PromptOnlyIfDenied

(***************************************************************************)
(* The constructor asks for its one text with a connection, before anyone  *)
(* else can; whoever asks after it has a usable DbProxy.                   *)
(***************************************************************************)
Constructing ==
  /\ pc \in Making => command.id = 0 /\ connection = "none" /\ answers = <<>>
  /\ pc \in {"open_out", "check"} => connection = "none" \/ Len(answers) = 1

Serving == pc = "idle" \/ (pc \in Running /\ command.id # 0)

Served == Serving => Usable /\ answers # <<>>

LEMMA ServedNext ==
  Inv /\ Constructing /\ Served /\ [Next]_vars => (Constructing /\ Served)'
<1> SUFFICES ASSUME Inv, Constructing, Served, [Next]_vars
             PROVE  Constructing' /\ Served'
  OBVIOUS
<1> USE DEF Constructing, Served, Serving, Usable, Making, Running, writing
<1>1. CASE MakeConnection \/ Prompt \/ Connected \/ Broken \/ Thrown
  BY <1>1 DEF MakeConnection, Prompt, Connected, Broken, Thrown, making, server
<1>2. CASE OpenOut \/ Check
  BY <1>2 DEF OpenOut, Check, making, server
<1>8. CASE PrintConnectionInfo
  BY <1>8 DEF PrintConnectionInfo, making, server
<1>3. CASE Begin \/ Handle \/ Abort \/ Drop
  BY <1>3 DEF Begin, Handle, Abort, Drop, making, server
<1>4. CASE Exec \/ ExecFailed
  BY <1>4 DEF Exec, Executed, ExecFailed, AfterBrokenConnection, making
<1>5. CASE Return
  <2>1. /\ Len(answers') = Len(answers) + 1 /\ answers' # <<>>
        /\ command.id = Len(answers)
    <3>1. Len(answers') = Len(answers) + 1 /\ Len(answers) \in Nat
      BY <1>5, OneMoreAnswer DEF Return, Inv, Shape
    <3> QED
      BY <1>5, <3>1 DEF Return, Inv, Numbered
  <2>2. command.id = 0 => Len(answers') = 1
    BY <2>1
  <2> QED
    BY <1>5, <2>1, <2>2 DEF Return, making, server
<1>6. CASE Request
  <2>1. Len(answers) # 0
    BY <1>6 DEF Request, RequestText, Inv, Shape
  <2> QED
    BY <1>6, <2>1 DEF Request, RequestText, making, server
<1>7. CASE UNCHANGED vars
  BY <1>7 DEF vars, making, server
<1> QED
  BY <1>1, <1>2, <1>3, <1>4, <1>5, <1>6, <1>7, <1>8 DEF Next, Client, Stopped

LEMMA ServedInit == Init => Constructing /\ Served
BY DEF Init, Constructing, Served, Serving, Making, Running

(***************************************************************************)
(* The string ds is cs with the parameter p behind it.                     *)
(***************************************************************************)
Extends(ds, cs, p) ==
  /\ Len(cs) \in Nat /\ DOMAIN cs = 1..Len(cs)
  /\ DOMAIN ds = 1..Len(cs) + 1 /\ Len(ds) = Len(cs) + 1
  /\ ds[Len(cs) + 1] = p /\ \A k \in 1..Len(cs) : ds[k] = cs[k]
  /\ ds # <<>> /\ (cs = <<>> <=> Len(cs) = 0)

LEMMA Appended ==
  ASSUME NEW cs \in Seq(Parameter), NEW p \in Parameter
  PROVE  Extends(Append(cs, p), cs, p)
<1>1. /\ Len(cs) \in Nat /\ DOMAIN cs = 1..Len(cs) /\ (cs = <<>> <=> Len(cs) = 0)
  OBVIOUS
<1>2. /\ Append(cs, p) \in Seq(Parameter) /\ Append(cs, p) # <<>>
      /\ Len(Append(cs, p)) = Len(cs) + 1
      /\ Append(cs, p)[Len(cs) + 1] = p
      /\ \A k \in 1..Len(cs) : Append(cs, p)[k] = cs[k]
  OBVIOUS
<1>3. DOMAIN Append(cs, p) = 1..Len(Append(cs, p))
  BY <1>2
<1> QED
  BY <1>1, <1>2, <1>3 DEF Extends

(***************************************************************************)
(* Of the parameters of ds a password at the end is the one that counts.   *)
(***************************************************************************)
LEMMA AmongSettings ==
  ASSUME NEW cs, NEW k \in DOMAIN cs, cs[k].key # "nothing",
         \A j \in DOMAIN cs : cs[j].key = cs[k].key => j <= k
  PROVE  <<cs[k].key, cs[k].value>> \in Settings(cs)
BY DEF Settings

LEMMA LastPasswordCounts ==
  ASSUME NEW cs, NEW ds, NEW p, Extends(ds, cs, p), p.key = "password"
  PROVE  Settings(ds) =
           {s \in Settings(cs) : s[1] # "password"} \cup {<<"password", p.value>>}
<1> USE DEF Extends
<1>1. ASSUME NEW k \in DOMAIN ds, ds[k].key # "nothing",
             \A j \in DOMAIN ds : ds[j].key = ds[k].key => j <= k
      PROVE  \/ <<ds[k].key, ds[k].value>> \in Settings(cs) /\ ds[k].key # "password"
             \/ <<ds[k].key, ds[k].value>> = <<"password", p.value>>
  <2>1. CASE k = Len(cs) + 1
    BY <2>1
  <2>2. CASE k # Len(cs) + 1
    <3>1. k \in 1..Len(cs) /\ ds[k] = cs[k]
      BY <2>2
    <3>2. ds[k].key # "password"
      BY <1>1, <3>1
    <3>3. \A j \in DOMAIN cs : cs[j].key = cs[k].key => j <= k
      BY <1>1, <3>1
    <3>4. k \in DOMAIN cs /\ cs[k].key # "nothing"
      BY <1>1, <3>1
    <3>5. <<cs[k].key, cs[k].value>> \in Settings(cs)
      BY ONLY <3>3, <3>4, AmongSettings
    <3> QED
      BY <3>1, <3>2, <3>5
  <2> QED
    BY <2>1, <2>2
<1>2. ASSUME NEW k \in DOMAIN cs, \A j \in DOMAIN cs : cs[j].key = cs[k].key => j <= k,
             cs[k].key \notin {"password", "nothing"}
      PROVE  <<cs[k].key, cs[k].value>> \in Settings(ds)
  <2>1. k \in DOMAIN ds /\ ds[k] = cs[k]
    OBVIOUS
  <2>2. \A j \in DOMAIN ds : ds[j].key = ds[k].key => j <= k
    BY <1>2, <2>1
  <2>3. <<ds[k].key, ds[k].value>> \in Settings(ds)
    BY ONLY <1>2, <2>1, <2>2, AmongSettings
  <2> QED
    BY <2>1, <2>3
<1>3. <<"password", p.value>> \in Settings(ds)
  <2>1. Len(cs) + 1 \in DOMAIN ds /\ \A j \in DOMAIN ds : j <= Len(cs) + 1
    OBVIOUS
  <2> QED
    BY <2>1 DEF Settings
<1>4. ASSUME NEW s \in Settings(ds)
      PROVE  s \in {t \in Settings(cs) : t[1] # "password"} \cup {<<"password", p.value>>}
  <2>1. PICK k \in DOMAIN ds : /\ ds[k].key # "nothing"
                               /\ \A j \in DOMAIN ds : ds[j].key = ds[k].key => j <= k
                               /\ s = <<ds[k].key, ds[k].value>>
    BY <1>4 DEF Settings
  <2> QED
    BY <2>1, <1>1
<1>5. ASSUME NEW s \in Settings(cs), s[1] # "password" PROVE s \in Settings(ds)
  <2>1. PICK k \in DOMAIN cs : /\ cs[k].key # "nothing"
                               /\ \A j \in DOMAIN cs : cs[j].key = cs[k].key => j <= k
                               /\ s = <<cs[k].key, cs[k].value>>
    BY <1>5 DEF Settings
  <2> QED
    BY <2>1, <1>2, <1>5
<1> QED
  BY <1>3, <1>4, <1>5

(***************************************************************************)
(* A parameter glued to a string in the form of that string leaves libpq   *)
(* able to tell the parameters apart.                                      *)
(***************************************************************************)
GlueFor(cs) == IF StartsWithScheme(cs) THEN UriGlue(cs) ELSE IF cs = <<>> THEN "" ELSE " "

LEMMA UriStaysWellFormed ==
  ASSUME NEW cs \in Seq(Parameter), NEW ds, NEW p, Extends(ds, cs, p), StartsWithScheme(cs),
         WellFormedUri(cs), ~Unextendable(cs), p.glue = UriGlue(cs), p.key = "password"
  PROVE  WellFormedUri(ds)
<1> DEFINE len == Len(cs)
<1>1. /\ len \in Nat /\ len # 0 /\ DOMAIN cs = 1..len /\ Len(ds) = len + 1
      /\ ds[len + 1] = p /\ \A k \in 1..len : ds[k] = cs[k]
  BY DEF Extends, StartsWithScheme
<1>2. /\ cs[1].key \in {"user", "host"} /\ cs[1].glue # "?"
      /\ \A k \in 2..len :
           IF InQuery(cs, k - 1) THEN cs[k].glue = "&" ELSE Follows(cs[k - 1], cs[k])
      /\ \A k \in 1..len :
           /\ cs[k].key = "nothing" => k = len /\ cs[k].value = ""
           /\ ~InQuery(cs, k) /\ cs[k].key \in Credentials => k < len
           /\ ~InQuery(cs, k) /\ cs[k].value = Question => cs[k].key \in Credentials
  BY DEF WellFormedUri, StartsWithScheme, Schemes
<1>3. cs[len].key # "nothing" /\ (~InQuery(cs, len) => \A k \in 1..len : cs[k].value # Question)
  BY <1>1 DEF Unextendable, Last
<1>4. cs[len].key \in DbParameterKey
  <2>1. len \in 1..len /\ cs[len] \in Parameter
    BY <1>1
  <2>2. cs[len].key \in DbParameterKey \cup {"nothing"}
    BY <2>1 DEF Parameter
  <2> QED
    BY <1>3, <2>2
<1> HIDE DEF len
<1>5. \A k \in 1..len : InQuery(ds, k) <=> InQuery(cs, k)
  BY <1>1 DEF InQuery
<1>6. InQuery(cs, len) <=> \E k \in 1..len : cs[k].glue = "?"
  <2>1. \A k \in 1..len : k \in 2..len \/ cs[k].glue # "?"
    <3>1. \A k \in 1..len : k = 1 \/ k \in 2..len
      BY <1>1
    <3>2. cs[1].glue # "?"
      BY <1>2
    <3> QED
      BY ONLY <3>1, <3>2
  <2>2. \A k \in 2..len : k \in 1..len
    BY <1>1
  <2> QED
    BY <2>1, <2>2 DEF InQuery
<1>7. p.glue = IF InQuery(cs, len) THEN "&" ELSE "?"
  BY <1>1, <1>3, <1>6 DEF UriGlue
<1>8. InQuery(ds, len + 1)
  <2>1. CASE InQuery(cs, len)
    BY <1>1, <2>1 DEF InQuery
  <2>2. CASE ~InQuery(cs, len)
    <3>1. len + 1 \in 2..len + 1 /\ ds[len + 1].glue = "?"
      BY <1>1, <1>7, <2>2
    <3> QED
      BY <3>1 DEF InQuery
  <2> QED
    BY <2>1, <2>2
<1>9. ASSUME NEW k \in 2..len + 1
      PROVE  IF InQuery(ds, k - 1) THEN ds[k].glue = "&" ELSE Follows(ds[k - 1], ds[k])
  <2>0. k - 1 \in 1..len /\ (InQuery(ds, k - 1) <=> InQuery(cs, k - 1)) /\ ds[k - 1] = cs[k - 1]
    BY <1>1, <1>5
  <2>1. CASE k # len + 1
    <3>1. k \in 2..len /\ ds[k] = cs[k]
      BY <1>1, <2>1
    <3> QED
      BY <1>2, <2>0, <3>1
  <2>2. CASE k = len + 1
    <3>1. k - 1 = len /\ ds[k] = p
      BY <1>1, <2>2
    <3>2. CASE InQuery(cs, len)
      BY <1>7, <2>0, <3>1, <3>2
    <3>3. CASE ~InQuery(cs, len)
      <4>1. cs[len].key \notin Credentials
        <5>1. len \in 1..len /\ ~(len < len)
          BY <1>1
        <5> QED
          BY <1>2, <3>3, <5>1
      <4>2. cs[len].key \in {"host", "port", "dbname"} /\ p.glue = "?"
        BY <1>4, <1>7, <3>3, <4>1 DEF DbParameterKey, Credentials
      <4>3. Follows(cs[len], p)
        BY <4>2 DEF Follows
      <4> QED
        BY <2>0, <3>1, <3>3, <4>3
    <3> QED
      BY <3>2, <3>3
  <2> QED
    BY <2>1, <2>2
<1>10. ASSUME NEW k \in 1..len + 1
       PROVE  /\ ds[k].key # "nothing"
              /\ ~InQuery(ds, k) /\ ds[k].key \in Credentials => k < len + 1
              /\ ~InQuery(ds, k) /\ ds[k].value = Question => ds[k].key \in Credentials
  <2>1. CASE k # len + 1
    <3>1. k \in 1..len /\ ds[k] = cs[k] /\ k < len + 1 /\ (InQuery(ds, k) <=> InQuery(cs, k))
      BY <1>1, <1>5, <2>1
    <3>2. cs[k].key # "nothing"
      BY <1>2, <1>3, <3>1
    <3> QED
      BY <1>2, <3>1, <3>2
  <2>2. CASE k = len + 1
    BY <1>1, <1>8, <2>2
  <2> QED
    BY <2>1, <2>2
<1>11. ds[1] = cs[1]
  BY <1>1
<1> QED
  BY <1>1, <1>2, <1>9, <1>10, <1>11 DEF WellFormedUri

LEMMA StaysWellFormed ==
  ASSUME NEW cs \in Seq(Parameter), NEW ds, NEW p, Extends(ds, cs, p), WellFormed(cs),
         ~Unextendable(cs), p.glue = GlueFor(cs), p.key = "password", p.value # Special
  PROVE  WellFormed(ds)
<1> USE DEF Extends
<1>1. \A k \in DOMAIN ds : ds[k].value # Special
  <2>1. \A k \in DOMAIN cs : cs[k].value # Special
    BY DEF WellFormed
  <2>2. \A k \in DOMAIN ds : k \in DOMAIN cs \/ k = Len(cs) + 1
    OBVIOUS
  <2> QED
    BY <2>1, <2>2
<1>2. CASE StartsWithScheme(cs)
  <2>1. WellFormedUri(cs) /\ p.glue = UriGlue(cs)
    BY <1>2 DEF WellFormed, GlueFor
  <2>2. WellFormedUri(ds)
    BY <1>2, <2>1, UriStaysWellFormed
  <2>3. StartsWithScheme(ds)
    BY <1>2 DEF StartsWithScheme
  <2> QED
    BY <1>1, <2>2, <2>3 DEF WellFormed
<1>3. CASE cs # <<>> /\ ~StartsWithScheme(cs)
  <2>1. ~StartsWithScheme(ds)
    <3>1. Len(cs) # 0
      BY <1>3
    <3>2. ds[1] = cs[1]
      BY <3>1
    <3> QED
      BY <1>3, <3>2 DEF StartsWithScheme
  <2>2. WellFormedKeyValues(ds)
    <3>1. p.glue = " "
      BY <1>3 DEF GlueFor
    <3>2. \A k \in DOMAIN cs :
            cs[k].glue = (IF k = 1 THEN "" ELSE " ") /\ cs[k].key # "nothing"
      BY <1>3 DEF WellFormed, WellFormedKeyValues
    <3>3. Len(cs) # 0
      BY <1>3
    <3>4. \A k \in DOMAIN ds : k \in DOMAIN cs \/ (k = Len(cs) + 1 /\ k # 1)
      BY <3>3
    <3>5. ASSUME NEW k \in DOMAIN ds
          PROVE  ds[k].glue = (IF k = 1 THEN "" ELSE " ") /\ ds[k].key # "nothing"
      <4>1. CASE k \in DOMAIN cs
        BY <3>2, <4>1
      <4>2. CASE k = Len(cs) + 1 /\ k # 1
        BY <3>1, <4>2
      <4> QED
        BY <3>4, <4>1, <4>2
    <3> QED
      BY <3>5 DEF WellFormedKeyValues
  <2> QED
    BY <1>1, <2>1, <2>2 DEF WellFormed
<1>4. CASE cs = <<>>
  <2>1. DOMAIN ds = {1} /\ ds[1] = p
    <3>1. Len(cs) = 0
      BY <1>4
    <3> QED
      BY <3>1
  <2>2. ds[1].glue = "" /\ "" \notin Schemes
    BY <1>4, <2>1 DEF GlueFor, StartsWithScheme, Schemes
  <2>3. WellFormedKeyValues(ds)
    BY <2>1, <2>2 DEF WellFormedKeyValues
  <2> QED
    BY <1>1, <2>1, <2>2, <2>3 DEF WellFormed, StartsWithScheme
<1> QED
  BY <1>2, <1>3, <1>4

LEMMA TypedLast ==
  ASSUME NEW cs \in Seq(Parameter), NEW password
  PROVE  Last(overridePassword(cs, password)).value = password
<1>1. PICK p : /\ p = [glue |-> GlueFor(cs), key |-> "password", value |-> password]
               /\ overridePassword(cs, password) = Append(cs, p)
  BY DEF overridePassword, ComposeDbParameter, GlueFor
<1>2. Len(Append(cs, p)) = Len(cs) + 1 /\ Append(cs, p)[Len(cs) + 1] = p
  OBVIOUS
<1> QED
  BY <1>1, <1>2 DEF Last

\* The parameter that overridePassword appends.
LEMMA PasswordParameter ==
  ASSUME NEW cs \in Seq(Parameter), NEW password \in STRING
  PROVE  \E p \in Parameter :
           /\ overridePassword(cs, password) = Append(cs, p)
           /\ p.glue = GlueFor(cs) /\ p.key = "password" /\ p.value = password
<1>1. PICK p : p = [glue |-> GlueFor(cs), key |-> "password", value |-> password]
  OBVIOUS
<1>2. overridePassword(cs, password) = Append(cs, p)
  BY <1>1 DEF overridePassword, ComposeDbParameter, GlueFor
<1>3. UriGlue(cs) \in {"&", "?"}
  BY DEF UriGlue
<1>4. GlueFor(cs) \in Glue
  BY <1>3 DEF GlueFor, Glue
<1>5. ASSUME NEW g \in Glue, NEW k \in DbParameterKey
      PROVE  [glue |-> g, key |-> k, value |-> password] \in Parameter
  BY DEF Parameter
<1>6. "password" \in DbParameterKey
  BY DEF DbParameterKey
<1>7. p \in Parameter /\ p.glue = GlueFor(cs) /\ p.key = "password" /\ p.value = password
  BY <1>1, <1>4, <1>5, <1>6
<1> QED
  BY <1>2, <1>7

LEMMA OverrideType ==
  ASSUME NEW cs \in Seq(Parameter), NEW password \in STRING
  PROVE  overridePassword(cs, password) \in Seq(Parameter)
<1>1. PICK p \in Parameter : overridePassword(cs, password) = Append(cs, p)
  BY PasswordParameter
<1>2. Append(cs, p) \in Seq(Parameter)
  OBVIOUS
<1> QED
  BY <1>1, <1>2

LEMMA OverrideReplaces ==
  ASSUME NEW cs \in Seq(Parameter), WellFormed(cs), ~Unextendable(cs),
         NEW password \in STRING, password # Special
  PROVE  Overrides(overridePassword(cs, password), cs, password)
<1>1. PICK p \in Parameter :
        /\ overridePassword(cs, password) = Append(cs, p)
        /\ p.glue = GlueFor(cs) /\ p.key = "password" /\ p.value = password
  BY PasswordParameter
<1>2. Extends(Append(cs, p), cs, p)
  BY Appended
<1>3. WellFormed(Append(cs, p))
  BY <1>1, <1>2, StaysWellFormed
<1> QED
  BY <1>1, <1>2, <1>3, LastPasswordCounts DEF Overrides

(***************************************************************************)
(* The attempt after the prompt is made with the password typed, whatever  *)
(* connection string is given, but for the URIs whose question mark is not *)
(* one before a parameter (Unextendable; overridePassword, db.cpp:134-153).*)
(***************************************************************************)
THEOREM PasswordOverridesCorrect == Spec => PasswordOverrides
<1> DEFINE Typed == Last(dsn').value
           Step  == pc = "prompt" /\ pc' = "attempt" =>
                      /\ Typed \in Passwords
                      /\ Typed # Special /\ ~Unextendable(options.base) =>
                           Overrides(dsn', options.base, Typed)
<1>1. ASSUME Inv, Next, pc = "prompt", pc' = "attempt"
      PROVE  /\ Typed \in Passwords
             /\ Typed # Special /\ ~Unextendable(options.base) =>
                  Overrides(dsn', options.base, Typed)
  <2>1. Prompt
    BY <1>1 DEF Next, Client, Stopped, vars, MakeConnection, Connected, Broken, Thrown,
       OpenOut, Check, Begin, Exec, ExecFailed, Handle, Abort, Return, Request, RequestText,
       PrintConnectionInfo, Drop
  <2>2. PICK password \in Passwords : dsn' = overridePassword(options.base, password)
    BY <1>1, <2>1 DEF Prompt
  <2>3. /\ options.base \in Seq(Parameter) /\ WellFormed(options.base)
        /\ password \in STRING
    BY <1>1, BasesAssumption DEF Inv, Shape
  <2>4. Typed = password
    BY <2>2, <2>3, TypedLast
  <2> QED
    BY <2>2, <2>3, <2>4, OverrideReplaces
<1>2. Inv /\ [Next]_vars => [Step]_vars
  BY <1>1 DEF vars
<1> QED
  BY <1>2, Invariance, PTL DEF Spec, PasswordOverrides

(***************************************************************************)
(* What is known of the output between two commands, and of the result     *)
(* that has just been printed: as long as nothing was lost every success   *)
(* is there, and afterwards nothing more is added.                         *)
(***************************************************************************)
Past == {"abort", "return"}

OutShape ==
  /\ good \in BOOLEAN /\ printed \subseteq Nat
  /\ \A c \in printed : c <= Len(answers) /\ (c = Len(answers) => pc \in Past)

AllPrinted ==
  good => /\ \A d \in 1..Len(answers) - 1 : answers[d + 1] => d \in printed
          /\ pc \in Past /\ result /\ command.id # 0 => command.id \in printed

Output == OutShape /\ AllPrinted /\ OutputHasNoHoles

LEMMA OutputInit == Init => Output
BY DEF Init, Output, OutShape, AllPrinted, OutputHasNoHoles, Past

(***************************************************************************)
(* Steps that write nothing and answer nothing.                            *)
(***************************************************************************)
LEMMA OutputKept ==
  ASSUME Inv, Output, UNCHANGED <<printed, answers, command>>, good' \in {good, FALSE},
         pc \in Past => pc' \in Past, pc' \in Past => (result' => pc \in Past /\ result)
  PROVE  Output'
<1> USE DEF Inv, Shape, Output
<1>1. OutShape'
  BY DEF OutShape
<1>2. AllPrinted'
  BY DEF AllPrinted
<1>3. OutputHasNoHoles'
  BY DEF OutputHasNoHoles
<1> QED
  BY <1>1, <1>2, <1>3

(***************************************************************************)
(* The result is written whole, or is the first to be lost, or nothing is  *)
(* written any more.                                                       *)
(***************************************************************************)
LEMMA OutputWritten == Inv /\ Output /\ Handle => Output'
<1> SUFFICES ASSUME Inv, Output, Handle PROVE Output'
  OBVIOUS
<1>1. /\ command.id = Len(answers) /\ Len(answers) \in Nat /\ answers' = answers
      /\ command' = command /\ pc' = "abort" /\ pc = "handle"
  BY DEF Handle, Inv, Shape, Numbered, Running
<1>2. OutShape /\ AllPrinted /\ OutputHasNoHoles
  BY DEF Output
<1>3. CASE good' = TRUE /\ printed' = printed \cup {command.id} /\ good
  <2>1. OutShape'
    <3>1. printed' \subseteq Nat
      BY <1>1, <1>2, <1>3 DEF OutShape
    <3>2. \A c \in printed' : c <= Len(answers)
      BY <1>1, <1>2, <1>3 DEF OutShape
    <3> QED
      BY <1>1, <1>3, <3>1, <3>2 DEF OutShape, Past
  <2>2. AllPrinted'
    BY <1>1, <1>2, <1>3 DEF AllPrinted, OutShape
  <2>3. OutputHasNoHoles'
    BY <1>1, <1>2, <1>3 DEF OutputHasNoHoles, AllPrinted, OutShape
  <2> QED
    BY <2>1, <2>2, <2>3 DEF Output
<1>4. CASE good' \in BOOLEAN /\ ~good' /\ printed' = printed
  BY <1>1, <1>2, <1>4 DEF Output, OutShape, AllPrinted, OutputHasNoHoles, Past
<1>5. CASE good' = good /\ printed' = printed /\ (command.id = 0 \/ ~result')
  BY <1>1, <1>2, <1>5 DEF Output, OutShape, AllPrinted, OutputHasNoHoles, Past
<1> QED
  BY <1>2, <1>3, <1>4, <1>5 DEF Handle, Write, OutShape

LEMMA OutputAnswered == Inv /\ Output /\ Return => Output'
<1> SUFFICES ASSUME Inv, Output, Return PROVE Output'
  OBVIOUS
<1>1. /\ answers' \in Seq(BOOLEAN) /\ Len(answers') = Len(answers) + 1
      /\ answers'[Len(answers) + 1] = result
      /\ \A k \in 1..Len(answers) : answers'[k] = answers[k]
      /\ Len(answers) \in Nat
  BY DEF Return, Inv, Shape
<1>2. /\ command.id = Len(answers) /\ pc = "return" /\ pc' \notin Past
      /\ good' = good /\ printed' = printed
  BY DEF Return, Inv, Numbered, Running, Past, writing
<1>3. OutShape /\ AllPrinted /\ OutputHasNoHoles
  BY DEF Output
<1>4. OutShape'
  BY <1>1, <1>2, <1>3 DEF OutShape
<1>5. AllPrinted'
  <2> SUFFICES ASSUME good, NEW d \in 1..Len(answers), answers'[d + 1] PROVE d \in printed
    BY <1>1, <1>2 DEF AllPrinted
  <2>1. CASE d = Len(answers)
    BY <1>1, <1>2, <1>3, <2>1 DEF AllPrinted, Past
  <2>2. CASE d # Len(answers)
    BY <1>1, <1>2, <1>3, <2>2 DEF AllPrinted
  <2> QED
    BY <2>1, <2>2
<1>6. OutputHasNoHoles'
  <2> SUFFICES ASSUME NEW c \in printed, NEW d \in 1..c - 1, answers'[d + 1]
               PROVE  d \in printed
    BY <1>2 DEF OutputHasNoHoles
  <2>1. d + 1 \in 1..Len(answers)
    BY <1>1, <1>3 DEF OutShape
  <2> QED
    BY <1>1, <1>3, <2>1 DEF OutputHasNoHoles
<1> QED
  BY <1>4, <1>5, <1>6 DEF Output

LEMMA OutputAsked == Inv /\ Output /\ Request => Output'
<1> SUFFICES ASSUME Inv, Output, NEW text \in Texts, RequestText(text) PROVE Output'
  BY DEF Request
<1> QED
  BY DEF RequestText, Output, OutShape, AllPrinted, OutputHasNoHoles, Past, writing

LEMMA OutputNext == Inv /\ Output /\ [Next]_vars => Output'
<1> SUFFICES ASSUME Inv, Output, [Next]_vars PROVE Output'
  OBVIOUS
<1> USE DEF writing, making, server, Past
<1>1. CASE MakeConnection \/ Prompt \/ Connected \/ Broken \/ Thrown
  BY <1>1, OutputKept DEF MakeConnection, Prompt, Connected, Broken, Thrown
<1>2. CASE OpenOut
  BY <1>2, OutputKept DEF OpenOut
<1>7. CASE Check
  BY <1>7, OutputKept DEF Check
<1>8. CASE Abort
  BY <1>8, OutputKept DEF Abort
<1>9. CASE Drop
  BY <1>9, OutputKept DEF Drop
<1>6. CASE PrintConnectionInfo
  BY <1>6, OutputKept DEF PrintConnectionInfo
<1>3. CASE Begin
  BY <1>3, OutputKept DEF Begin
<1>4. CASE Exec \/ ExecFailed
  BY <1>4, OutputKept DEF Exec, Executed, ExecFailed, AfterBrokenConnection
<1>5. CASE UNCHANGED vars
  BY <1>5, OutputKept DEF vars
<1> QED
  BY <1>1, <1>2, <1>3, <1>4, <1>5, <1>6, <1>7, <1>8, <1>9, OutputWritten, OutputAnswered, OutputAsked
     DEF Next, Client, Stopped

(***************************************************************************)
(* However many texts are run, what is printed of their results has no     *)
(* hole: a write error ends the output (DoTransaction, PrintResult,        *)
(* db.cpp:232-252).                                                        *)
(***************************************************************************)
THEOREM OutputHasNoHolesCorrect == Spec => []OutputHasNoHoles
<1>1. Inv /\ Output /\ [Next]_vars => (Inv /\ Output)'
  BY NextInv, OutputNext
<1>2. Output => OutputHasNoHoles
  BY DEF Output
<1> QED
  BY <1>1, <1>2, InitInv, OutputInit, PTL DEF Spec
(***************************************************************************)
(* makeConnection counts: no attempt before the first, one before the      *)
(* second, and no password asked for before that.                          *)
(***************************************************************************)
Tries ==
  /\ pc \in Making => attempts.all = IF originalTried THEN 1 ELSE 0
  /\ pc \in {"make", "prompt"} \/ (pc = "attempt" /\ ~originalTried) => attempts.prompts = 0

(***************************************************************************)
(* The text in hand finds the transaction of its own in which pqxx::work   *)
(* has it run, or no server at all.                                        *)
(***************************************************************************)
Began == pc = "exec" /\ connection = "open" => session = [NoSession EXCEPT !.block = TRUE]

(***************************************************************************)
(* A result is true, already before it is returned, only of a text that    *)
(* the server has run to its end; so is every answer that was given.       *)
(***************************************************************************)
RanToEnd == runs[command.id] = 1 /\ ~Contains(command.text, "error")

Honest ==
  /\ pc = "handle" => RanToEnd
  /\ pc \in Past /\ result => RanToEnd

Earned == \A k \in 1..Len(answers) : answers[k] => runs[k - 1] = 1

Account == TypeOK /\ Tries /\ Began /\ Honest /\ Earned

LEMMA AccountInit == Init => Account
<1> SUFFICES ASSUME Init PROVE Account
  OBVIOUS
<1> USE DEF Init
<1>1. TypeOK
  <2>1. TypeQuery \in Seq(Statements)
    BY DEF TypeQuery, Statements
  <2>2. <<>> \in Seq(Parameter) /\ <<>> \in Seq(BOOLEAN)
    OBVIOUS
  <2>3. 0 \in Commands
    <3>1. MaxCommands \in Nat
      BY TextsAssumption
    <3> QED
      BY <3>1 DEF Commands
  <2>4. command \in [id : Commands, text : Seq(Statements)]
    BY <2>1, <2>3
  <2>5. session \in [block : BOOLEAN, pending : SUBSET Commands] /\ db \subseteq Commands
    BY DEF NoSession
  <2>6. runs \in [Commands -> Nat] /\ attempts \in [all : 0..2, prompts : 0..1]
    OBVIOUS
  <2> QED
    BY <2>2, <2>4, <2>5, <2>6 DEF TypeOK
<1>2. Tries /\ Began /\ Honest /\ Earned
  BY DEF Tries, Began, Honest, Earned, Past, Making
<1> QED
  BY <1>1, <1>2 DEF Account

\* makeConnection and the rest of the constructor.
LEMMA ConnectingAccount ==
  Inv /\ Account /\ (MakeConnection \/ Prompt \/ Connected \/ Broken \/ Thrown \/ OpenOut \/ Check)
    => Account'
<1> SUFFICES ASSUME Inv, Account,
                    MakeConnection \/ Prompt \/ Connected \/ Broken \/ Thrown
                      \/ OpenOut \/ Check
             PROVE  Account'
  OBVIOUS
<1> USE DEF MakeConnection, Prompt, Connected, Broken, Thrown, OpenOut, Check, Attempt,
            making, writing, server
<1>1. options.base \in Seq(Parameter) /\ <<>> \in Seq(Parameter)
  BY BasesAssumption DEF Inv, Shape
<1>2. \A password \in Passwords : overridePassword(options.base, password) \in Seq(Parameter)
  BY <1>1, OverrideType, BasesAssumption
<1>3. attempts' \in [all : 0..2, prompts : 0..1] /\ Tries'
  <2>1. attempts \in [all : 0..2, prompts : 0..1] /\ originalTried \in BOOLEAN
    BY DEF Account, TypeOK
  <2> QED
    BY <2>1 DEF Account, Tries, Inv, Denied, Making, PromptAllowed
<1>4. dsn' \in Seq(Parameter)
  <2>1. \/ dsn' \in {dsn, <<>>, options.base}
        \/ \E password \in Passwords : dsn' = overridePassword(options.base, password)
    OBVIOUS
  <2>2. dsn \in Seq(Parameter)
    BY DEF Account, TypeOK
  <2> HIDE DEF MakeConnection, Prompt, Connected, Broken, Thrown, OpenOut, Check
  <2> QED
    BY <1>1, <1>2, <2>1, <2>2
<1>5. /\ UNCHANGED <<options, typeMap, good, printed, command, result, session, db, runs, answers>>
      /\ pc' \in {"make", "prompt", "attempt", "begin", "open_out", "check", "idle",
                  "exit_failure", "thrown"}
      /\ originalTried' \in {originalTried, TRUE} /\ denied' \in BOOLEAN \cup {denied}
      /\ connection' \in {connection, "open"} /\ out' \in {out, "stdout", "file", "failed"}
  OBVIOUS
<1> HIDE DEF MakeConnection, Prompt, Connected, Broken, Thrown, OpenOut, Check, Attempt
<1>6. TypeOK'
  <2>1. TypeOK
    BY DEF Account
  <2>2. /\ originalTried' \in BOOLEAN /\ denied' \in BOOLEAN
        /\ connection' \in {"none", "open", "lost"} /\ out' \in {"stdout", "file", "failed"}
    BY <1>5, <2>1 DEF TypeOK
  <2>3. pc' \in {"make", "prompt", "attempt", "begin", "exec", "handle", "abort", "return",
                 "open_out", "check", "idle", "exit_failure", "thrown"}
    BY <1>5
  <2> QED
    BY <1>3, <1>4, <1>5, <2>1, <2>2, <2>3 DEF TypeOK
<1>7. Began' /\ Honest' /\ Earned'
  BY <1>5 DEF Account, Began, Honest, Earned, Past, RanToEnd
<1> QED
  BY <1>3, <1>6, <1>7 DEF Account

\* The text is sent, and the server runs it, or not.
LEMMA ExecAccount == Inv /\ Account /\ (Exec \/ ExecFailed) => Account'
<1> SUFFICES ASSUME Inv, Account, Exec \/ ExecFailed PROVE Account'
  OBVIOUS
<1> DEFINE end == RunText(session, db, command.id, command.text)
<1>1. /\ command.id \in Commands /\ command.text \in Seq(Statements)
      /\ session \in Sessions /\ db \in SUBSET Commands
  BY DEF Account, TypeOK, Sessions
<1>2. end \in Outcomes /\ (end.error <=> Contains(command.text, "error"))
  BY <1>1, RunTextOutcome
<1> HIDE DEF end
<1>3. /\ end.block \in BOOLEAN /\ end.pending \in SUBSET Commands /\ end.db \in SUBSET Commands
      /\ end.error \in BOOLEAN
  BY <1>2 DEF Outcomes
<1>4. runs[command.id] = 0 /\ runs \in [Commands -> {0, 1}]
  BY DEF Inv, Shape, NotYetRun, Ran, Numbered, Running, Exec, ExecFailed, Commands
<1>5. /\ command.id = Len(answers) /\ Len(answers) \in Nat
  BY DEF Inv, Shape, Numbered, Running, Exec, ExecFailed
<1>6. /\ UNCHANGED <<making, typeMap, writing, command, answers>>
      /\ session' \in Sessions /\ db' \in SUBSET Commands
      /\ result' \in {result, FALSE} /\ connection' \in {connection, "lost"}
      /\ pc' \in {"handle", "abort"} /\ (pc' = "abort" => result' = FALSE)
      /\ pc' = "handle" => /\ runs' = [runs EXCEPT ![command.id] = @ + 1]
                           /\ end.error = FALSE
      /\ runs' \in {runs, [runs EXCEPT ![command.id] = @ + 1]}
  <2>1. CASE Exec
    BY <1>3, <2>1 DEF Exec, Executed, Sessions, end
  <2>2. CASE ExecFailed /\ UNCHANGED server
    BY <1>1, <2>2 DEF ExecFailed, AfterBrokenConnection, server
  <2>3. CASE ExecFailed /\ ~UNCHANGED server
    <3>1. NoSession \in Sessions
      BY DEF NoSession, Sessions
    <3>2. /\ db' = end.db /\ session' = NoSession
          /\ runs' = [runs EXCEPT ![command.id] = @ + 1]
      BY <2>3 DEF ExecFailed, end
    <3>3. /\ pc' = "abort" /\ result' = FALSE /\ connection' = "lost"
          /\ UNCHANGED <<making, typeMap, writing, command, answers>>
      BY <2>3 DEF ExecFailed, AfterBrokenConnection
    <3> QED
      BY <1>3, <3>1, <3>2, <3>3
  <2> QED
    BY <2>1, <2>2, <2>3
<1>7. runs' \in [Commands -> Nat]
  BY <1>1, <1>4, <1>6
<1>8. TypeOK'
  <2>1. UNCHANGED <<options, originalTried, dsn, denied, attempts, typeMap, out, good, printed,
                    command, answers>>
    BY <1>6 DEF making, writing
  <2>2. TypeOK
    BY DEF Account
  <2>3. /\ result' \in BOOLEAN /\ connection' \in {"none", "open", "lost"}
        /\ session' \in [block : BOOLEAN, pending : SUBSET Commands] /\ db' \subseteq Commands
        /\ pc' \in {"handle", "abort"}
    BY <1>6, <2>2 DEF TypeOK, Sessions
  <2> QED
    BY <1>7, <2>1, <2>2, <2>3 DEF TypeOK
<1>9. Tries' /\ Began'
  BY <1>6 DEF Tries, Began, Making
<1>10. Honest'
  BY <1>1, <1>2, <1>4, <1>6 DEF Honest, RanToEnd, Past
<1>11. Earned'
  <2> SUFFICES ASSUME NEW k \in 1..Len(answers), answers[k] PROVE runs'[k - 1] = 1
    BY <1>6 DEF Earned
  <2>1. runs[k - 1] = 1 /\ k - 1 # command.id
    BY <1>5 DEF Account, Earned
  <2>2. k - 1 \in Commands
    BY <1>1, <1>5 DEF Commands
  <2> QED
    BY <1>1, <1>4, <1>6, <2>1, <2>2
<1> QED
  BY <1>8, <1>9, <1>10, <1>11 DEF Account

\* The other steps of DoTransaction, and the steps between two of them.
LEMMA TransactionAccount ==
  Inv /\ Account /\ (Begin \/ Handle \/ Abort \/ Drop \/ PrintConnectionInfo) => Account'
<1> SUFFICES ASSUME Inv, Account, Begin \/ Handle \/ Abort \/ Drop \/ PrintConnectionInfo
             PROVE  Account'
  OBVIOUS
<1> USE DEF Begin, Handle, Abort, Drop, PrintConnectionInfo, RolledBack, Write,
            making, writing, server
<1>1. /\ UNCHANGED <<options, originalTried, dsn, denied, attempts, out, command, db, runs, answers>>
      /\ pc' \in {pc, "exec", "abort", "return"} /\ (pc' = "handle" => pc = "handle")
      /\ connection' \in {connection, "lost"} /\ typeMap' \in {typeMap, typeMap \/ result', typeMap \/ FALSE}
      /\ good' \in {good, FALSE} \cup BOOLEAN
      /\ printed' \in {printed, printed \cup {command.id}}
      /\ result' \in {result} \cup BOOLEAN
      /\ session' \in {session, NoSession, [session EXCEPT !.block = TRUE]}
  OBVIOUS
<1>2. TypeOK'
  <2>1. NoSession \in Sessions
    BY DEF NoSession, Sessions
  <2>2. session' \in Sessions
    BY <1>1, <2>1 DEF Account, TypeOK, Sessions
  <2> HIDE DEF Begin, Handle, Abort, Drop, PrintConnectionInfo, RolledBack, Write
  <2>3. /\ printed' \subseteq Commands /\ typeMap' \in BOOLEAN /\ good' \in BOOLEAN
        /\ result' \in BOOLEAN
    BY <1>1 DEF Account, TypeOK
  <2> QED
    BY <1>1, <2>2, <2>3 DEF Account, TypeOK, Sessions
<1>3. Tries' /\ Earned'
  BY <1>1 DEF Account, Tries, Earned, Making, Past
<1>4. Began'
  BY DEF Account, Began, Inv, Closed
<1>5. Honest'
  <2>1. UNCHANGED <<command, runs>>
    BY <1>1
  <2>2. pc' \in Past /\ result' => pc = "handle" \/ (pc \in Past /\ result)
    BY DEF Past
  <2>3. pc' = "handle" => pc = "handle"
    BY <1>1
  <2> QED
    BY <2>1, <2>2, <2>3 DEF Account, Honest, RanToEnd
<1> QED
  BY <1>2, <1>3, <1>4, <1>5 DEF Account

LEMMA ReturnAccount == Inv /\ Account /\ Return => Account'
<1> SUFFICES ASSUME Inv, Account, Return PROVE Account'
  OBVIOUS
<1> USE DEF Return, making, writing, server
<1>1. /\ answers' \in Seq(BOOLEAN) /\ Len(answers') = Len(answers) + 1
      /\ answers'[Len(answers) + 1] = result
      /\ \A k \in 1..Len(answers) : answers'[k] = answers[k]
      /\ Len(answers) \in Nat /\ command.id = Len(answers)
  BY DEF Inv, Shape, Numbered, Running
<1>2. TypeOK'
  BY <1>1 DEF Account, TypeOK
<1>3. Tries' /\ Began' /\ Honest'
  BY DEF Tries, Began, Honest, Making, Past
<1>4. Earned'
  BY <1>1 DEF Account, Earned, Honest, RanToEnd, Past
<1> QED
  BY <1>2, <1>3, <1>4 DEF Account

LEMMA RequestAccount == Inv /\ Account /\ Request => Account'
<1> SUFFICES ASSUME Inv, Account, NEW text \in Texts, RequestText(text) PROVE Account'
  BY DEF Request
<1> USE DEF RequestText, making, writing, server
<1>1. text \in Seq(Statements) /\ Len(answers) \in Commands
  BY DEF Inv, Shape, Commands
<1>2. TypeOK'
  BY <1>1 DEF Account, TypeOK
<1>3. Tries' /\ Began' /\ Honest' /\ Earned'
  BY DEF Account, Tries, Began, Honest, Earned, Making, Past
<1> QED
  BY <1>2, <1>3 DEF Account

LEMMA AccountNext == Inv /\ Account /\ [Next]_vars => Account'
<1>1. ASSUME Account, UNCHANGED vars PROVE Account'
  BY <1>1 DEF vars, making, writing, server, Account, TypeOK, Tries, Began, Honest, Earned,
     RanToEnd
<1> QED
  BY <1>1, ConnectingAccount, ExecAccount, TransactionAccount, ReturnAccount, RequestAccount
     DEF Next, Client, Stopped

LEMMA Accounted == Spec => [](Inv /\ Account)
BY InitInv, AccountInit, NextInv, AccountNext, PTL DEF Spec

(***************************************************************************)
(* The types of the connection, and that makeConnection, for all its       *)
(* retrying, makes at most two attempts and asks for at most one password  *)
(* (db.cpp:155-174).                                                       *)
(***************************************************************************)
THEOREM TypeCorrect == Spec => []TypeOK
<1>1. Account => TypeOK
  BY DEF Account
<1> QED
  BY <1>1, Accounted, PTL

(***************************************************************************)
(* DoTransaction returns true only if the server has run this very text,   *)
(* once and without an error (db.cpp:238-259).                             *)
(***************************************************************************)
THEOREM HonestAnswerCorrect == Spec => []HonestAnswer
<1>1. Account => HonestAnswer
  BY DEF Account, Honest, RanToEnd, HonestAnswer, Past
<1> QED
  BY <1>1, Accounted, PTL

(***************************************************************************)
(* Whatever the texts are made of, none of them makes permanent what       *)
(* another one wrote, and none does but by ending the transaction itself:  *)
(* the pqxx::work of DoTransaction is never committed (db.cpp:244-252).    *)
(***************************************************************************)
THEOREM OwnCommitCorrect == Spec => OwnCommit
<1> DEFINE Saves == \A c \in db' \ db :
                      c = command.id /\ \E statement \in {"commit", "rollback"} :
                                         Contains(command.text, statement)
<1>1. ASSUME Inv, Account, Next PROVE Saves
  <2>1. CASE UNCHANGED db
    BY <2>1
  <2>2. CASE connection = "open" /\ pc = "exec"
                /\ db' = RunText(session, db, command.id, command.text).db
    <3>1. /\ command.id \in Commands /\ command.text \in Seq(Statements)
          /\ db \in SUBSET Commands /\ session = [NoSession EXCEPT !.block = TRUE]
      BY <1>1, <2>2 DEF Account, TypeOK, Began
    <3>2. \A c \in RunText(session, db, command.id, command.text).db \ db :
            c = command.id /\ \E statement \in {"commit", "rollback"} :
                               Contains(command.text, statement)
      BY <3>1, RunTextSaves
    <3> QED
      BY ONLY <2>2, <3>2
  <2>3. Exec \/ ExecFailed \/ UNCHANGED db
    BY <1>1 DEF Next, Client, Stopped, vars, server, MakeConnection, Prompt, Connected, Broken,
       Thrown, OpenOut, Check, Begin, Handle, Abort, Return, Request, RequestText,
       PrintConnectionInfo, Drop
  <2> QED
    BY <2>1, <2>2, <2>3 DEF Exec, Executed, ExecFailed, server
<1>2. Inv /\ Account /\ [Next]_vars => [Saves]_vars
  BY <1>1
<1> QED
  BY <1>2, Accounted, PTL DEF Spec, OwnCommit

-----------------------------------------------------------------------------
Modes == {"list", "commands", "file", "cli"}

Program ==
  /\ at \in {"options", "proxy", "exit"} \cup Modes
  /\ args \in Arguments
  /\ exitCode \in {"none", "success", "failure", "terminated"}
  /\ exitCode = "none" <=> at # "exit"

(***************************************************************************)
(* Main asks for nothing until the constructor is done, and from then on   *)
(* is the only one to ask.                                                 *)
(***************************************************************************)
InTurn ==
  /\ at \in Modes => Serving
  /\ at \in {"options", "proxy"} => Len(answers) <= 1 /\ (pc \in Running => command.id = 0)

(***************************************************************************)
(* While a -c text runs, all before it have succeeded; between two texts,  *)
(* all but the last.                                                       *)
(***************************************************************************)
Succeeded(last) == \A k \in 2..last : answers[k]

SoFarGood ==
  at = "commands" =>
    Succeeded(Len(answers) - 1) /\ (pc \in Running => Succeeded(Len(answers)))

Proxy == Inv /\ Constructing /\ Served

MainInv == Proxy /\ Program /\ InTurn /\ SoFarGood

LEMMA MainInitInv == MainInit => MainInv
<1> SUFFICES ASSUME MainInit PROVE MainInv
  OBVIOUS
<1>1. Proxy
  BY InitInv, ServedInit DEF MainInit, Proxy
<1>2. Program /\ InTurn /\ SoFarGood
  BY DEF MainInit, Init, Program, InTurn, SoFarGood, Modes, Running
<1> QED
  BY <1>1, <1>2 DEF MainInv

(***************************************************************************)
(* Every text main asks for is one of Texts: a step of the program is a    *)
(* step of its DbProxy, or leaves it alone.                                *)
(***************************************************************************)
LEMMA ProxyNext == MainInv /\ [MainNext]_allVars => [Next]_vars
<1> SUFFICES ASSUME MainInv, [MainNext]_allVars PROVE [Next]_vars
  OBVIOUS
<1>1. CASE ListDbs
  BY <1>1, ArgumentsAssumption DEF ListDbs, Next, Request
<1>2. CASE CommandLoop
  <2>1. ASSUME asked < Len(args.commands) PROVE args.commands[asked + 1] \in Texts
    <3>1. args.commands \in Seq(Texts)
      BY ArgumentsAssumption DEF MainInv, Program
    <3>2. Len(answers) \in Nat /\ Len(answers) # 0
      BY <1>2 DEF CommandLoop, MainInv, Proxy, Inv, Shape, Served, Serving
    <3>3. asked + 1 \in 1..Len(args.commands)
      BY <2>1, <3>1, <3>2 DEF asked
    <3> QED
      BY <3>1, <3>3
  <2> QED
    BY <1>2, <2>1 DEF CommandLoop, Next, Request
<1>3. CASE UNCHANGED vars
  BY <1>3
<1>4. CASE ProxyStep \/ CliRuns \/ Drop
  BY <1>4 DEF ProxyStep, CliRuns, Next
<1> QED
  BY <1>1, <1>2, <1>3, <1>4
     DEF MainNext, MainStep, handleOptions, ProxyFailed, ChooseMode, OpenCommandFile,
         CliReturns, Exited, allVars

LEMMA ProxyKept == MainInv /\ [MainNext]_allVars => Proxy'
BY ProxyNext, NextInv, ServedNext DEF MainInv, Proxy

(***************************************************************************)
(* What a step of DbProxy may do to the answers.                           *)
(***************************************************************************)
LEMMA ClientAnswers ==
  ASSUME Inv, Client
  PROVE  \/ answers' = answers /\ (pc' \in Running => pc \in Making \cup Running)
         \/ /\ answers' = Append(answers, result) /\ pc = "return" /\ pc' \notin Running
            /\ command.id = Len(answers)
<1>1. CASE Return
  BY <1>1 DEF Return, Inv, Numbered, Running
<1>2. CASE ~Return
  BY <1>2 DEF Client, MakeConnection, Prompt, Connected, Broken, Thrown, OpenOut, Check,
     Begin, Exec, ExecFailed, Handle, Abort, Running, Making, making, server
<1> QED
  BY <1>1, <1>2

LEMMA ClientCommand == ASSUME Client PROVE command' = command
BY DEF Client, MakeConnection, Prompt, Connected, Broken, Thrown, OpenOut, Check,
   Begin, Exec, Executed, ExecFailed, Handle, Abort, Return, making, server

(***************************************************************************)
(* A step of DbProxy that main waits for.                                  *)
(***************************************************************************)
LEMMA ProxyStepInv == MainInv /\ ProxyStep => (Program /\ InTurn /\ SoFarGood)'
<1> SUFFICES ASSUME MainInv, ProxyStep PROVE Program' /\ InTurn' /\ SoFarGood'
  OBVIOUS
<1> USE DEF ProxyStep, program
<1>1. Program'
  BY DEF MainInv, Program
<1>2. command' = command
  BY ClientCommand
<1>3. /\ Len(answers) \in Nat /\ answers \in Seq(BOOLEAN) /\ result \in BOOLEAN
      /\ Inv /\ Constructing
  BY DEF MainInv, Proxy, Inv, Shape
<1>4. InTurn'
  <2>1. ASSUME at \in Modes PROVE Serving'
    <3>1. pc \in Running /\ command.id # 0
      BY <2>1 DEF MainInv, InTurn, Serving, Client, MakeConnection, Prompt, Connected,
         Broken, Thrown, OpenOut, Check, Begin, Exec, ExecFailed, Handle, Abort, Return
    <3> QED
      BY <1>2, <3>1 DEF Client, MakeConnection, Prompt, Connected,
         Broken, Thrown, OpenOut, Check, Begin, Exec, Executed, ExecFailed,
         AfterBrokenConnection, Handle, Abort, Return, Running, Serving
  <2>2. ASSUME at \in {"options", "proxy"}
        PROVE  Len(answers') <= 1 /\ (pc' \in Running => command.id = 0)
    <3>1. CASE answers' = answers /\ (pc' \in Running => pc \in Making \cup Running)
      BY <2>2, <3>1, <1>3 DEF MainInv, InTurn, Constructing
    <3>2. CASE /\ answers' = Append(answers, result) /\ pc = "return" /\ pc' \notin Running
               /\ command.id = Len(answers)
      <4>1. command.id = 0
        BY <2>2, <3>2 DEF MainInv, InTurn, Running
      <4>2. Len(answers') = Len(answers) + 1
        BY <3>2, <1>3
      <4> QED
        BY <3>2, <4>1, <4>2
    <3> QED
      BY <3>1, <3>2, <1>3, ClientAnswers
  <2> QED
    BY <1>2, <2>1, <2>2 DEF InTurn
<1>5. SoFarGood'
  <2> SUFFICES ASSUME at = "commands"
               PROVE  /\ \A k \in 2..Len(answers') - 1 : answers'[k]
                      /\ pc' \in Running => \A k \in 2..Len(answers') : answers'[k]
    BY DEF SoFarGood, Succeeded
  <2>1. pc \in Running
    BY DEF MainInv, InTurn, Modes, Serving, Client, MakeConnection, Prompt, Connected,
       Broken, Thrown, OpenOut, Check, Begin, Exec, ExecFailed, Handle, Abort, Return
  <2>2. \A k \in 2..Len(answers) : answers[k]
    BY <2>1 DEF MainInv, SoFarGood, Succeeded
  <2>3. CASE answers' = answers
    BY <2>2, <2>3, <1>3
  <2>4. CASE answers' = Append(answers, result) /\ pc' \notin Running
    <3>1. /\ Len(answers') - 1 = Len(answers)
          /\ \A k \in 1..Len(answers) : answers'[k] = answers[k]
      BY <2>4, <1>3
    <3> QED
      BY <2>2, <2>4, <3>1
  <2> QED
    BY <2>3, <2>4, <1>3, ClientAnswers
<1> QED
  BY <1>1, <1>4, <1>5

(***************************************************************************)
(* Main asks for a text.                                                   *)
(***************************************************************************)
LEMMA AskedInv ==
  ASSUME MainInv, NEW text, RequestText(text), UNCHANGED program,
         at \in {"list", "commands", "cli"}, at = "commands" => ~Failed
  PROVE  (Program /\ InTurn /\ SoFarGood)'
<1>1. Len(answers) \in Nat /\ Len(answers) # 0
  BY DEF MainInv, Proxy, Inv, Shape, Served, Serving, RequestText
<1>2. Program'
  BY DEF MainInv, Program, program
<1>3. InTurn'
  BY <1>1 DEF InTurn, Serving, RequestText, Running, Modes, program
<1>4. SoFarGood'
  <2>1. ASSUME at = "commands" PROVE Succeeded(Len(answers))
    <3>1. Len(answers) > 1 => answers[Len(answers)]
      BY <2>1, <1>1 DEF Failed, asked, Last
    <3> QED
      BY <2>1, <3>1, <1>1 DEF MainInv, SoFarGood, Succeeded
  <2> QED
    BY <2>1, <1>1 DEF SoFarGood, Succeeded, RequestText, making, server, program
<1> QED
  BY <1>2, <1>3, <1>4

(***************************************************************************)
(* Main moves on by itself, or the connection drops.                       *)
(***************************************************************************)
LEMMA MovedInv ==
  ASSUME MainInv,
         \/ handleOptions \/ ProxyFailed \/ ChooseMode \/ OpenCommandFile \/ CliReturns
         \/ at # "exit" /\ Drop /\ UNCHANGED program
         \/ at = "cli" /\ PrintConnectionInfo /\ UNCHANGED program
         \/ UNCHANGED allVars
  PROVE  (Program /\ InTurn /\ SoFarGood)'
<1> USE DEF handleOptions, HandleBaseOptions, HandleDbProxyOptions, ProxyFailed,
            ChooseMode, OpenCommandFile, CliReturns, Drop, PrintConnectionInfo, Goto, Exit,
            toExitCode, program, allVars, vars, making, server
<1>1. Program'
  BY DEF MainInv, Program, Modes
<1>2. InTurn'
  BY DEF MainInv, InTurn, Serving, Modes, Running
<1>3. SoFarGood'
  <2>1. Len(answers) \in Nat
    BY DEF MainInv, Proxy, Inv, Shape
  <2>2. CASE ChooseMode
    <3>1. Len(answers) <= 1 /\ answers' = answers /\ pc' = "idle"
      BY <2>2 DEF MainInv, InTurn
    <3> QED
      BY <2>1, <3>1 DEF SoFarGood, Succeeded, Running
  <2>3. CASE ~ChooseMode
    BY <2>1, <2>3 DEF MainInv, SoFarGood, Succeeded
  <2> QED
    BY <2>2, <2>3
<1> QED
  BY <1>1, <1>2, <1>3

(***************************************************************************)
(* The program ends by a result of a text.                                 *)
(***************************************************************************)
LEMMA ExitInv ==
  ASSUME MainInv, NEW code \in {"success", "failure"}, Exit(code)
  PROVE  (Program /\ InTurn /\ SoFarGood)'
BY DEF MainInv, Program, InTurn, SoFarGood, Modes, Exit

LEMMA MainNextInv == MainInv /\ [MainNext]_allVars => MainInv'
<1> SUFFICES ASSUME MainInv, [MainNext]_allVars PROVE (Program /\ InTurn /\ SoFarGood)'
  BY ProxyKept DEF MainInv
<1>1. CASE ProxyStep
  BY <1>1, ProxyStepInv
<1>2. CASE ListDbs
  BY <1>2, AskedInv, ExitInv DEF ListDbs, toExitCode
<1>3. CASE CommandLoop
  BY <1>3, AskedInv, ExitInv DEF CommandLoop
<1>4. CASE CliRuns
  <2>1. CASE Request
    BY <1>4, <2>1, AskedInv DEF CliRuns, Request
  <2>2. CASE PrintConnectionInfo
    BY <1>4, <2>2, MovedInv DEF CliRuns
  <2> QED
    BY <1>4, <2>1, <2>2 DEF CliRuns
<1> QED
  BY <1>1, <1>2, <1>3, <1>4, MovedInv DEF MainNext, MainStep, Exited

LEMMA MainInvariance == MainSpec => []MainInv
BY MainInitInv, MainNextInv, PTL DEF MainSpec

(***************************************************************************)
(* The program drives its DbProxy as DbProxy's own specification allows.   *)
(***************************************************************************)
THEOREM ProgramDrivesProxy == MainSpec => Spec
<1>1. MainInit => Init
  BY DEF MainInit
<1> QED
  BY <1>1, ProxyNext, MainInvariance, PTL DEF MainSpec, Spec

(***************************************************************************)
(* So no text of -c, of -l or of the command line reaches the server more  *)
(* than once, in any run of the program.                                   *)
(***************************************************************************)
THEOREM ProgramRunsOnce == MainSpec => []RunAtMostOnce
BY ProgramDrivesProxy, RunAtMostOnceCorrect, PTL

(***************************************************************************)
(* The types of the program, and that main never uses a DbProxy without a  *)
(* connection or without its out file (main.cpp:65-68).                    *)
(***************************************************************************)
THEOREM MainTypeCorrect == MainSpec => []MainTypeOK
<1>1. MainInv => MainTypeOK
  BY DEF MainInv, Proxy, Program, InTurn, Served, Usable, Modes, MainTypeOK
<1> QED
  BY <1>1, MainInvariance, PTL

(***************************************************************************)
(* Nothing is run after a -c text that failed (main.cpp:77-81), however    *)
(* many there are.                                                         *)
(***************************************************************************)
THEOREM NothingAfterFailureCorrect == MainSpec => NothingAfterFailure
<1> DEFINE Step ==
      at = "commands" /\ runs' # runs => \A k \in 2..Len(answers) : answers[k]
<1>1. ASSUME MainInv, MainNext PROVE Step
  <2>1. CASE ProxyStep
    <3> SUFFICES ASSUME at = "commands" PROVE \A k \in 2..Len(answers) : answers[k]
      OBVIOUS
    <3>1. pc \in Running
      BY <1>1, <2>1 DEF ProxyStep, MainInv, InTurn, Modes, Serving, Client, MakeConnection,
         Prompt, Connected, Broken, Thrown, OpenOut, Check, Begin, Exec, ExecFailed, Handle,
         Abort, Return
    <3> QED
      BY <1>1, <3>1 DEF MainInv, SoFarGood, Succeeded
  <2>2. CASE ~ProxyStep
    <3>1. runs' = runs
      BY <1>1, <2>2 DEF MainNext, MainStep, handleOptions, ProxyFailed, ChooseMode, ListDbs,
         CommandLoop, OpenCommandFile, CliRuns, CliReturns, Exited, Request, RequestText,
         PrintConnectionInfo, Drop, allVars, vars, server
    <3> QED
      BY <3>1
  <2> QED
    BY <2>1, <2>2
<1>2. MainInv /\ [MainNext]_allVars => [Step]_allVars
  BY <1>1
<1> QED
  BY <1>2, MainInvariance, PTL DEF MainSpec, NothingAfterFailure

(***************************************************************************)
(* Main is where its options sent it.                                      *)
(***************************************************************************)
Chosen ==
  /\ at = "list" => args.listDbs
  /\ at = "commands" => ~args.listDbs
  /\ at \in {"file", "cli"} => Batch = <<>>

(***************************************************************************)
(* The texts of -l or -c are run in their order, and those that were       *)
(* answered by a success have no error; at the end all of them have been.  *)
(***************************************************************************)
BatchText ==
  at \in {"list", "commands"} =>
    /\ pc \in Running => command.id \in 1..Len(Batch) /\ command.text = Batch[command.id]
    /\ \A k \in 1..Len(answers) - 1 :
         k \in 1..Len(Batch) /\ (answers[k + 1] => ~Contains(Batch[k], "error"))

BatchDone ==
  at = "exit" /\ args.usage = "none" /\ Batch # <<>> /\ exitCode = "success" =>
    /\ Len(answers) = Len(Batch) + 1
    /\ \A k \in 1..Len(Batch) : answers[k + 1] /\ ~Contains(Batch[k], "error")

Batched == Chosen /\ BatchText /\ BatchDone

LEMMA BatchedInit == MainInit => Batched
BY DEF MainInit, Batched, Chosen, BatchText, BatchDone

LEMMA BatchType ==
  ASSUME MainInv
  PROVE  /\ Batch \in Seq(Texts) /\ Len(Batch) \in Nat
         /\ args.listDbs => Len(Batch) = 1 /\ Batch[1] = ListDbsSql
         /\ ~args.listDbs => Batch = args.commands
         /\ answers \in Seq(BOOLEAN) /\ Len(answers) \in Nat
<1>1. args.commands \in Seq(Texts) /\ ListDbsSql \in Texts
  BY ArgumentsAssumption DEF MainInv, Program
<1>2. <<ListDbsSql>> \in Seq(Texts) /\ Len(<<ListDbsSql>>) = 1 /\ <<ListDbsSql>>[1] = ListDbsSql
  BY <1>1
<1>3. Batch \in Seq(Texts)
  BY <1>1, <1>2 DEF Batch
<1> QED
  BY <1>2, <1>3 DEF Batch, MainInv, Proxy, Inv, Shape

\* A step of DbProxy on behalf of main.
LEMMA BatchedProxyStep ==
  ASSUME MainInv, Account, Batched, ProxyStep PROVE Batched'
<1> USE DEF ProxyStep, program
<1>1. command' = command /\ UNCHANGED <<at, args, exitCode, Batch>>
  BY ClientCommand DEF Batch
<1>2. /\ answers \in Seq(BOOLEAN) /\ Len(answers) \in Nat /\ result \in BOOLEAN
      /\ Inv /\ Len(Batch) \in Nat
  BY BatchType DEF MainInv, Proxy, Inv, Shape
<1>3. Chosen' /\ BatchDone'
  BY <1>1 DEF Batched, Chosen, BatchDone
<1>4. BatchText'
  <2> SUFFICES ASSUME at \in {"list", "commands"}
               PROVE  /\ pc' \in Running => command.id \in 1..Len(Batch)
                                            /\ command.text = Batch[command.id]
                      /\ \A k \in 1..Len(answers') - 1 :
                           k \in 1..Len(Batch) /\ (answers'[k + 1] => ~Contains(Batch[k], "error"))
    BY <1>1 DEF BatchText
  <2>1. pc \in Running
    BY DEF MainInv, InTurn, Modes, Serving, Client, MakeConnection, Prompt, Connected,
       Broken, Thrown, OpenOut, Check, Begin, Exec, ExecFailed, Handle, Abort, Return
  <2>2. /\ command.id \in 1..Len(Batch) /\ command.text = Batch[command.id]
        /\ \A k \in 1..Len(answers) - 1 :
             k \in 1..Len(Batch) /\ (answers[k + 1] => ~Contains(Batch[k], "error"))
    BY <2>1 DEF Batched, BatchText
  <2>3. CASE answers' = answers
    BY <2>2, <2>3
  <2>4. CASE answers' = Append(answers, result) /\ pc = "return" /\ command.id = Len(answers)
    <3>1. /\ Len(answers') = Len(answers) + 1 /\ answers'[Len(answers) + 1] = result
          /\ \A k \in 1..Len(answers) : answers'[k] = answers[k]
      BY <1>2, <2>4
    <3>2. result => ~Contains(command.text, "error")
      BY <2>4 DEF Account, Honest, RanToEnd, Past
    <3>3. ASSUME NEW k \in 1..Len(answers)
          PROVE  k \in 1..Len(Batch) /\ (answers'[k + 1] => ~Contains(Batch[k], "error"))
      <4>1. CASE k = Len(answers)
        BY <2>2, <2>4, <3>1, <3>2, <4>1
      <4>2. CASE k # Len(answers)
        BY <1>2, <2>2, <3>1, <3>3, <4>2
      <4> QED
        BY <4>1, <4>2
    <3> QED
      BY <1>2, <2>2, <3>1, <3>3
  <2> QED
    BY <1>2, <2>3, <2>4, ClientAnswers
<1> QED
  BY <1>3, <1>4 DEF Batched

\* Main asks for the next text of its batch.
LEMMA BatchedAsk ==
  ASSUME MainInv, Batched, UNCHANGED program, at \in {"list", "commands"},
         asked < Len(Batch), RequestText(Batch[asked + 1])
  PROVE  Batched'
<1>1. /\ command'.id = Len(answers) /\ command'.text = Batch[asked + 1] /\ answers' = answers
      /\ UNCHANGED <<at, args, exitCode, Batch>>
  BY DEF RequestText, program, Batch
<1>2. Len(answers) # 0 /\ Len(answers) \in Nat /\ Len(Batch) \in Nat
  BY BatchType DEF MainInv, Proxy, Inv, Shape, Served, Serving, RequestText
<1>3. asked + 1 = Len(answers) /\ Len(answers) \in 1..Len(Batch)
  BY <1>2 DEF asked
<1>4. Chosen' /\ BatchDone'
  BY <1>1 DEF Batched, Chosen, BatchDone
<1>5. command'.id \in 1..Len(Batch) /\ command'.text = Batch[command'.id]
  BY <1>1, <1>3
<1>6. BatchText'
  BY <1>1, <1>5 DEF Batched, BatchText
<1> QED
  BY <1>4, <1>6 DEF Batched

LEMMA BatchedListDbs == ASSUME MainInv, Batched, ListDbs PROVE Batched'
<1>1. args.listDbs /\ Len(Batch) = 1 /\ Batch[1] = ListDbsSql
  BY BatchType DEF ListDbs, Batched, Chosen
<1>2. CASE asked = 0 /\ RequestText(ListDbsSql) /\ UNCHANGED program
  <2>1. asked + 1 = 1
    BY <1>2
  <2> QED
    BY <1>1, <1>2, <2>1, BatchedAsk DEF ListDbs
<1>3. CASE asked = 1 /\ Exit(toExitCode(Last(answers))) /\ UNCHANGED vars
  <2>1. Len(answers) = 2 /\ answers \in Seq(BOOLEAN)
    BY <1>3, BatchType DEF asked
  <2>2. exitCode' = "success" => answers[2]
    BY <1>3, <2>1 DEF Exit, toExitCode, Last
  <2>3. answers[2] => ~Contains(Batch[1], "error")
    BY <2>1 DEF Batched, BatchText, ListDbs
  <2>4. at' = "exit" /\ UNCHANGED <<args, answers, Batch>>
    BY <1>3 DEF Exit, Batch, vars
  <2>5. BatchDone'
    <3>1. ASSUME exitCode' = "success", NEW k \in 1..Len(Batch)
          PROVE  answers[k + 1] /\ ~Contains(Batch[k], "error")
      <4>1. k = 1
        BY <1>1
      <4> QED
        BY <2>2, <2>3, <3>1, <4>1
    <3>2. Len(answers) = Len(Batch) + 1 /\ answers' = answers /\ Batch' = Batch
      BY <1>1, <2>1, <2>4
    <3> HIDE DEF Batch
    <3> QED
      BY <3>1, <3>2 DEF BatchDone
  <2> QED
    BY <2>4, <2>5 DEF Batched, Chosen, BatchText
<1> QED
  BY <1>2, <1>3 DEF ListDbs

LEMMA BatchedCommandLoop == ASSUME MainInv, Batched, CommandLoop PROVE Batched'
<1>1. ~args.listDbs /\ Batch = args.commands /\ Len(Batch) \in Nat
  BY BatchType DEF CommandLoop, Batched, Chosen
<1>2. CASE Failed /\ Exit("failure") /\ UNCHANGED vars
  BY <1>2 DEF Exit, Batched, Chosen, BatchText, BatchDone
<1>3. CASE asked < Len(args.commands) /\ RequestText(args.commands[asked + 1]) /\ UNCHANGED program
  BY <1>1, <1>3, BatchedAsk DEF CommandLoop
<1>4. CASE ~Failed /\ asked = Len(args.commands) /\ Exit("success") /\ UNCHANGED vars
  <2>1. Len(answers) = Len(Batch) + 1
    BY <1>1, <1>4, BatchType DEF asked
  <2>2. at = "commands" /\ at' = "exit" /\ UNCHANGED <<args, answers, Batch>>
    BY <1>4 DEF CommandLoop, Exit, Batch, vars
  <2>3. ASSUME NEW k \in 1..Len(Batch) PROVE answers[k + 1] /\ ~Contains(Batch[k], "error")
    <3>1. k \in 1..Len(answers) - 1 /\ k + 1 \in 2..Len(answers)
      BY <1>1, <2>1
    <3>2. \A j \in 2..Len(answers) - 1 : answers[j]
      BY <2>2 DEF MainInv, SoFarGood, Succeeded
    <3>3. answers[Len(answers)]
      BY <1>1, <1>4, <2>1, <2>3 DEF Failed, asked, Last
    <3>4. answers[k + 1]
      BY <1>1, <2>1, <3>1, <3>2, <3>3
    <3> QED
      BY <2>2, <3>1, <3>4 DEF Batched, BatchText
  <2> QED
    BY <2>1, <2>2, <2>3 DEF Batched, Chosen, BatchText, BatchDone
<1> QED
  BY <1>2, <1>3, <1>4 DEF CommandLoop

\* Main moves on by itself, has the command line run, or the connection drops.
LEMMA BatchedMoves ==
  ASSUME MainInv, Batched,
         \/ handleOptions \/ ProxyFailed \/ ChooseMode \/ OpenCommandFile \/ CliRuns
         \/ CliReturns \/ (at # "exit" /\ Drop /\ UNCHANGED program) \/ UNCHANGED allVars
  PROVE  Batched'
<1>1. CASE handleOptions \/ ProxyFailed \/ OpenCommandFile \/ CliReturns
  <2>1. UNCHANGED <<args, Batch>>
    BY <1>1 DEF handleOptions, HandleBaseOptions, HandleDbProxyOptions, ProxyFailed,
       OpenCommandFile, CliReturns, Goto, Exit, Batch
  <2>2. \/ at' \in {"proxy", "exit"} \/ (at = "file" /\ at' = "cli")
    BY <1>1 DEF handleOptions, HandleBaseOptions, HandleDbProxyOptions, ProxyFailed,
       OpenCommandFile, CliReturns, Goto, Exit
  <2>3. at' = "exit" /\ exitCode' = "success" => args.usage # "none" \/ at = "cli"
    BY <1>1 DEF handleOptions, HandleBaseOptions, HandleDbProxyOptions, ProxyFailed,
       OpenCommandFile, CliReturns, Goto, Exit
  <2> QED
    BY <2>1, <2>2, <2>3 DEF Batched, Chosen, BatchText, BatchDone
<1>2. CASE ChooseMode
  <2>1. /\ at' = IF args.listDbs THEN "list"
                 ELSE IF args.commands # <<>> THEN "commands" ELSE "file"
        /\ UNCHANGED <<args, Batch, pc, answers>> /\ pc = "idle" /\ at = "proxy"
    BY <1>2 DEF ChooseMode, Goto, Batch, vars
  <2>2. Len(answers) <= 1 /\ Len(answers) \in Nat
    BY <2>1, BatchType DEF MainInv, InTurn
  <2>3. Chosen'
    BY <2>1 DEF Chosen, Batch
  <2>4. BatchText' /\ BatchDone'
    BY <2>1, <2>2 DEF BatchText, BatchDone, Running
  <2> QED
    BY <2>3, <2>4 DEF Batched
<1>3. CASE CliRuns
  BY <1>3 DEF CliRuns, program, Batch, Batched, Chosen, BatchText, BatchDone
<1>4. CASE at # "exit" /\ Drop /\ UNCHANGED program
  BY <1>4 DEF Drop, program, Batch, Batched, Chosen, BatchText, BatchDone
<1>5. CASE UNCHANGED allVars
  BY <1>5 DEF allVars, program, vars, Batch, Batched, Chosen, BatchText, BatchDone
<1> QED
  BY <1>1, <1>2, <1>3, <1>4, <1>5

LEMMA BatchedNext == MainInv /\ Account /\ Batched /\ [MainNext]_allVars => Account' /\ Batched'
<1> SUFFICES ASSUME MainInv, Account, Batched, [MainNext]_allVars PROVE Account' /\ Batched'
  OBVIOUS
<1>1. Account'
  BY ProxyNext, AccountNext DEF MainInv, Proxy
<1>2. Batched'
  BY BatchedProxyStep, BatchedListDbs, BatchedCommandLoop, BatchedMoves
     DEF MainNext, MainStep, Exited
<1> QED
  BY <1>1, <1>2

(***************************************************************************)
(* psqlxx -l and psqlxx -c exit with success only if every text was run    *)
(* once and without an error, however many there are and whatever becomes  *)
(* of the connection (main.cpp:70-83).                                     *)
(***************************************************************************)
THEOREM ExitStatusHonestCorrect == MainSpec => []ExitStatusHonest
<1>1. MainInit => Account /\ Batched
  BY AccountInit, BatchedInit DEF MainInit
<1>2. Account /\ Batched => ExitStatusHonest
  <2> SUFFICES ASSUME Account, Batched, at = "exit", args.usage = "none", Batch # <<>>,
                      exitCode = "success", NEW k \in 1..Len(Batch)
               PROVE  runs[k] = 1 /\ ~Contains(Batch[k], "error")
    BY DEF ExitStatusHonest
  <2>1. Len(answers) = Len(Batch) + 1 /\ answers[k + 1] /\ ~Contains(Batch[k], "error")
    BY DEF Batched, BatchDone
  <2>2. k + 1 \in 1..Len(answers) /\ (k + 1) - 1 = k
    <3>1. Len(answers) \in Nat
      BY DEF Account, TypeOK
    <3> QED
      BY <2>1, <3>1
  <2> QED
    BY <2>1, <2>2 DEF Account, Earned
<1> QED
  BY <1>1, <1>2, BatchedNext, MainInvariance, PTL DEF MainSpec

(***************************************************************************)
(* For who asks DbProxy from outside: a text is served until it has been   *)
(* answered, and only then does DbProxy wait for the next one.             *)
(***************************************************************************)
LEMMA ClientServes ==
  ASSUME Client, pc \in Running, command.id # 0
  PROVE  /\ command' = command
         /\ \/ answers' = answers /\ pc' \in Running
            \/ answers' = Append(answers, result) /\ pc = "return" /\ pc' = "idle"
<1>1. CASE Return
  BY <1>1 DEF Return
<1>2. CASE ~Return
  BY <1>2 DEF Client, MakeConnection, Prompt, Connected, Broken, Thrown, OpenOut, Check,
     Begin, Exec, Executed, ExecFailed, AfterBrokenConnection, Handle, Abort, Running,
     making, server
<1> QED
  BY <1>1, <1>2

\* Answers are only added.
LEMMA AnswersKept ==
  ASSUME Inv, [Next]_vars
  PROVE  \A k \in 1..Len(answers) : k \in 1..Len(answers') /\ answers'[k] = answers[k]
<1>1. answers \in Seq(BOOLEAN) /\ result \in BOOLEAN
  BY DEF Inv, Shape
<1>2. answers' = answers \/ answers' = Append(answers, result)
  BY ClientAnswers DEF Next, Stopped, Request, RequestText, PrintConnectionInfo, Drop, vars
<1>3. CASE answers' = answers
  BY <1>3
<1>4. CASE answers' = Append(answers, result)
  BY <1>1, <1>4
<1> QED
  BY <1>2, <1>3, <1>4

LEMMA ProgramAccounted == MainSpec => [](MainInv /\ Account)
<1>1. MainInit => Account
  BY AccountInit DEF MainInit
<1>2. MainInv /\ Account /\ [MainNext]_allVars => Account'
  BY ProxyNext, AccountNext DEF MainInv, Proxy
<1> QED
  BY <1>1, <1>2, MainInvariance, PTL DEF MainSpec
=============================================================================
