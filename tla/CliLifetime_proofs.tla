------------------------- MODULE CliLifetime_proofs -------------------------
(***************************************************************************)
(* Proofs about CliLifetime, for any number of sessions: when a signal may *)
(* end one, that no history outgrows its limit, and that one which is saved*)
(* holds what was found and entered, as far as there is room for it.  Both *)
(* take a look into H_LOAD, a fold over the lines of the file.             *)
(***************************************************************************)
EXTENDS CliLifetime, FiniteSetTheorems, SequenceTheorems, Folding, TLAPS

(***************************************************************************)
(* The handler is installed for objects that exist, which are there until  *)
(* the destructor begins, and is cleared at its end.                       *)
(***************************************************************************)
Guarded(s) ==
  /\ pc[s] \in {"set_size", "load", "run"} => handler[s] = "set" /\ live[s] = Objects
  /\ pc[s] = "configure" => live[s] = Objects
  /\ pc[s] = "ended" => handler[s] = "cleared"

Shape ==
  /\ pc \in [Sessions -> Places]
  /\ handler \in [Sessions -> {"default", "set", "cleared"}]
  /\ live \in [Sessions -> SUBSET Objects]

Inv == Shape /\ \A s \in Sessions : Guarded(s)

LEMMA InitInv == Init => Inv
BY DEF Init, Inv, Shape, Guarded, Places, Gone

(***************************************************************************)
(* What a step of one session has to do for the invariant.                 *)
(***************************************************************************)
LEMMA OneSession ==
  ASSUME Inv, NEW s \in Sessions, Shape', Guarded(s)',
         \A r \in Sessions \ {s} :
           pc'[r] = pc[r] /\ handler'[r] = handler[r] /\ live'[r] = live[r]
  PROVE  Inv'
<1>1. ASSUME NEW r \in Sessions, r # s PROVE Guarded(r)'
  BY <1>1 DEF Inv, Guarded
<1> QED
  BY <1>1 DEF Inv

LEMMA NextInv == Inv /\ [Next]_vars => Inv'
<1> SUFFICES ASSUME Inv, [Next]_vars PROVE Inv'
  OBVIOUS
<1> USE DEF Places, Gone
<1>1. ASSUME NEW s \in Sessions, Step(s) PROVE Inv'
  <2>1. Shape /\ Guarded(s)
    BY DEF Inv
  <2>2. CASE Construct(s)
    <3>1. Shape'
      BY <2>1, <2>2 DEF Construct, Shape, Goto
    <3>2. Guarded(s)'
      BY <2>1, <2>2 DEF Construct, Shape, Guarded, Goto
    <3>3. \A r \in Sessions \ {s} :
            pc'[r] = pc[r] /\ handler'[r] = handler[r] /\ live'[r] = live[r]
      BY <2>1, <2>2 DEF Construct, Shape, Goto
    <3> QED
      BY <3>1, <3>2, <3>3, OneSession
  <2>3. CASE InstallHandler(s)
    <3>1. Shape'
      BY <2>1, <2>3 DEF InstallHandler, Shape, Goto
    <3>2. Guarded(s)'
      BY <2>1, <2>3 DEF InstallHandler, Shape, Guarded, Goto
    <3>3. \A r \in Sessions \ {s} :
            pc'[r] = pc[r] /\ handler'[r] = handler[r] /\ live'[r] = live[r]
      BY <2>1, <2>3 DEF InstallHandler, Shape, Goto
    <3> QED
      BY <3>1, <3>2, <3>3, OneSession
  <2>4. CASE ConfigureHistory(s)
    <3>1. Shape'
      BY <2>1, <2>4 DEF ConfigureHistory, Shape, Goto
    <3>2. Guarded(s)'
      BY <2>1, <2>4 DEF ConfigureHistory, Shape, Guarded, Goto
    <3>3. \A r \in Sessions \ {s} :
            pc'[r] = pc[r] /\ handler'[r] = handler[r] /\ live'[r] = live[r]
      BY <2>1, <2>4 DEF ConfigureHistory, Shape, Goto
    <3> QED
      BY <3>1, <3>2, <3>3, OneSession
  <2>5. CASE Load(s)
    <3>1. Shape'
      BY <2>1, <2>5 DEF Load, Shape, Goto
    <3>2. Guarded(s)'
      BY <2>1, <2>5 DEF Load, Shape, Guarded, Goto
    <3>3. \A r \in Sessions \ {s} :
            pc'[r] = pc[r] /\ handler'[r] = handler[r] /\ live'[r] = live[r]
      BY <2>1, <2>5 DEF Load, Shape, Goto
    <3> QED
      BY <3>1, <3>2, <3>3, OneSession
  <2>6. CASE EndTokenizer(s)
    <3>1. Shape'
      BY <2>1, <2>6 DEF EndTokenizer, Shape, Goto
    <3>2. Guarded(s)'
      BY <2>1, <2>6 DEF EndTokenizer, Shape, Guarded, Goto
    <3>3. \A r \in Sessions \ {s} :
            pc'[r] = pc[r] /\ handler'[r] = handler[r] /\ live'[r] = live[r]
      BY <2>1, <2>6 DEF EndTokenizer, Shape, Goto
    <3> QED
      BY <3>1, <3>2, <3>3, OneSession
  <2>7. CASE OpenForSave(s)
    <3>1. Shape'
      BY <2>1, <2>7 DEF OpenForSave, Shape, Goto
    <3>2. Guarded(s)'
      BY <2>1, <2>7 DEF OpenForSave, Shape, Guarded, Goto
    <3>3. \A r \in Sessions \ {s} :
            pc'[r] = pc[r] /\ handler'[r] = handler[r] /\ live'[r] = live[r]
      BY <2>1, <2>7 DEF OpenForSave, Shape, Goto
    <3> QED
      BY <3>1, <3>2, <3>3, OneSession
  <2>8. CASE Write(s)
    <3>1. Shape'
      BY <2>1, <2>8 DEF Write, Shape, Goto
    <3>2. Guarded(s)'
      BY <2>1, <2>8 DEF Write, Shape, Guarded, Goto
    <3>3. \A r \in Sessions \ {s} :
            pc'[r] = pc[r] /\ handler'[r] = handler[r] /\ live'[r] = live[r]
      BY <2>1, <2>8 DEF Write, Shape, Goto
    <3> QED
      BY <3>1, <3>2, <3>3, OneSession
  <2>9. CASE EndEditor(s)
    <3>1. Shape'
      BY <2>1, <2>9 DEF EndEditor, Shape, Goto
    <3>2. Guarded(s)'
      BY <2>1, <2>9 DEF EndEditor, Shape, Guarded, Goto
    <3>3. \A r \in Sessions \ {s} :
            pc'[r] = pc[r] /\ handler'[r] = handler[r] /\ live'[r] = live[r]
      BY <2>1, <2>9 DEF EndEditor, Shape, Goto
    <3> QED
      BY <3>1, <3>2, <3>3, OneSession
  <2>10. CASE ClearHandlers(s)
    <3>1. Shape'
      BY <2>1, <2>10 DEF ClearHandlers, Shape, Goto, Clear
    <3>2. Guarded(s)'
      BY <2>1, <2>10 DEF ClearHandlers, Shape, Guarded, Goto, Clear
    <3>3. \A r \in Sessions \ {s} :
            pc'[r] = pc[r] /\ handler'[r] = handler[r] /\ live'[r] = live[r]
      BY <2>1, <2>10 DEF ClearHandlers, Shape, Goto, Clear
    <3> QED
      BY <3>1, <3>2, <3>3, OneSession
  <2>11. CASE Exit(s)
    <3>1. Shape'
      BY <2>1, <2>11 DEF Exit, Shape, Goto
    <3>2. Guarded(s)'
      BY <2>1, <2>11 DEF Exit, Shape, Guarded, Goto
    <3>3. \A r \in Sessions \ {s} :
            pc'[r] = pc[r] /\ handler'[r] = handler[r] /\ live'[r] = live[r]
      BY <2>1, <2>11 DEF Exit, Shape, Goto
    <3> QED
      BY <3>1, <3>2, <3>3, OneSession
  <2>12. CASE Signal(s)
    <3>1. Shape'
      BY <2>1, <2>12 DEF Signal, Shape, Goto
    <3>2. Guarded(s)'
      BY <2>1, <2>12 DEF Signal, Shape, Guarded, Goto
    <3>3. \A r \in Sessions \ {s} :
            pc'[r] = pc[r] /\ handler'[r] = handler[r] /\ live'[r] = live[r]
      BY <2>1, <2>12 DEF Signal, Shape, Goto
    <3> QED
      BY <3>1, <3>2, <3>3, OneSession
  <2>13. CASE Kill(s)
    <3>1. Shape'
      BY <2>1, <2>13 DEF Kill, Shape, Goto
    <3>2. Guarded(s)'
      BY <2>1, <2>13 DEF Kill, Shape, Guarded, Goto
    <3>3. \A r \in Sessions \ {s} :
            pc'[r] = pc[r] /\ handler'[r] = handler[r] /\ live'[r] = live[r]
      BY <2>1, <2>13 DEF Kill, Shape, Goto
    <3> QED
      BY <3>1, <3>2, <3>3, OneSession
  <2>14. CASE EnterLine(s)
    BY <2>14 DEF EnterLine, Inv, Shape, Guarded
  <2> QED
    BY <1>1, <2>2, <2>3, <2>4, <2>5, <2>6, <2>7,
       <2>8, <2>9, <2>10, <2>11, <2>12, <2>13, <2>14 DEF Step
<1>2. CASE UNCHANGED vars
  BY <1>2 DEF vars, Inv, Shape, Guarded
<1> QED
  BY <1>1, <1>2 DEF Next, AllGone

LEMMA Invariance == Spec => []Inv
BY InitInv, NextInv, PTL DEF Spec

(***************************************************************************)
(* Whatever the sessions do, a signal ends a psqlxx only before Config has *)
(* installed the handler or while the destructor runs (cli.cpp:148-166).   *)
(***************************************************************************)
THEOREM SignalSurvivedCorrect == Spec => SignalSurvived
<1> DEFINE Survives == \A s \in Sessions :
             pc'[s] = "interrupted" => pc[s] \in Unprotected \cup {"interrupted"}
<1>1. ASSUME Inv, NEW r \in Sessions, Step(r), NEW s \in Sessions, pc'[s] = "interrupted",
             pc[s] # "interrupted"
      PROVE  pc[s] \in Unprotected
  <2>1. Signal(r) /\ r = s
    BY <1>1 DEF Inv, Shape, Step, Construct, InstallHandler, ConfigureHistory, Load, EnterLine,
       EndTokenizer, OpenForSave, Write, EndEditor, ClearHandlers, Exit, Signal, Kill, Goto
  <2>2. pc[s] \in Places \ Gone /\ Fatal(s) /\ Guarded(s)
    BY <1>1, <2>1 DEF Signal, Inv, Shape
  <2> QED
    BY <2>2 DEF Fatal, Guarded, Places, Unprotected
<1>2. Inv /\ [Next]_vars => [Survives]_vars
  BY <1>1 DEF Next, AllGone, vars
<1> QED
  BY <1>2, Invariance, PTL DEF Spec, SignalSurvived
-----------------------------------------------------------------------------
(***************************************************************************)
(* A history never outgrows its limit.                                     *)
(***************************************************************************)
Histories == {h \in Seq(Entries) : Len(h) <= HistorySize}

LEMMA EnterLimited ==
  ASSUME NEW h \in Histories, NEW entry \in Entries, NEW limit \in {0, HistorySize}
  PROVE  Enter(h, entry, limit) \in Histories
<1>1. /\ HistorySize \in Nat /\ HistorySize > 0
      /\ h \in Seq(Entries) /\ Len(h) \in Nat /\ Len(h) <= HistorySize
  BY LifetimeAssumption DEF Histories
<1>2. <<>> \in Histories
  BY <1>1 DEF Histories
<1>3. ASSUME Len(h) < limit PROVE Append(h, entry) \in Histories
  <2>1. Append(h, entry) \in Seq(Entries) /\ Len(Append(h, entry)) = Len(h) + 1
    BY <1>1
  <2> QED
    BY <1>1, <1>3, <2>1 DEF Histories
<1>4. ASSUME ~(Len(h) < limit), limit # 0 PROVE Append(Tail(h), entry) \in Histories
  <2>1. Len(h) = HistorySize
    BY <1>1, <1>4
  <2>2. h # <<>>
    BY <1>1, <2>1
  <2>3. Tail(h) \in Seq(Entries) /\ Len(Tail(h)) = Len(h) - 1
    BY <1>1, <2>2
  <2>4. Append(Tail(h), entry) \in Seq(Entries) /\ Len(Append(Tail(h), entry)) = Len(Tail(h)) + 1
    BY <2>3
  <2> QED
    BY <1>1, <2>1, <2>3, <2>4 DEF Histories
<1> QED
  BY <1>2, <1>3, <1>4 DEF Enter

\* H_LOAD, entry by entry.
LEMMA LoadSteps ==
  ASSUME NEW limit \in {0, HistorySize}, NEW contents \in Seq(Entries)
  PROVE  \E r \in [0..Len(contents) -> Histories] :
           /\ r[0] = <<>>
           /\ \A k \in 1..Len(contents) : r[k] = Enter(r[k - 1], contents[k], limit)
           /\ FoldLeft(LAMBDA h, entry : Enter(h, entry, limit), <<>>, contents)
                = r[Len(contents)]
<1> DEFINE len == Len(contents)
           loaded == FoldLeft(LAMBDA h, entry : Enter(h, entry, limit), <<>>, contents)
           Iterates(iter) == iter = [t \in SUBSET DOMAIN contents |->
             IF t = {} THEN <<>> ELSE Enter(iter[t \ {Max(t)}], contents[Max(t)], limit)]
           it == CHOOSE iter : Iterates(iter)
           steps == [k \in 1..len |-> [h \in Histories |-> Enter(h, contents[k], limit)]]
           Bad == {k \in 0..len : it[1..k] \notin Histories}
<1>1. DOMAIN contents = 1..len /\ len \in Nat /\ \A k \in 1..len : contents[k] \in Entries
  OBVIOUS
<1>2. loaded = it[1..len]
  BY <1>1 DEF FoldLeft, MapThenFoldSet
<1>3. steps \in [1..len -> [Histories -> Histories]]
  <2> HIDE DEF len
  <2>1. \A k \in 1..len : \A h \in Histories : Enter(h, contents[k], limit) \in Histories
    BY <1>1, EnterLimited
  <2> QED
    BY <2>1
<1>4. <<>> \in Histories
  BY LifetimeAssumption DEF Histories
<1>5. PICK g \in [SUBSET (1..len) -> Histories] : FoldOf(g, len, <<>>, steps)
  <2> HIDE DEF len, steps
  <2> QED
    BY <1>1, <1>3, <1>4, FoldExists
<1>6. Iterates(g)
  <2>1. ASSUME NEW t \in SUBSET (1..len)
        PROVE  g[t] = IF t = {} THEN <<>> ELSE Enter(g[t \ {Max(t)}], contents[Max(t)], limit)
    <3>1. CASE t # {}
      <4>1. Max(t) \in 1..len
        <5> HIDE DEF len
        <5> QED
          BY <1>1, <3>1, MaxOfSet
      <4>2. g[t] = steps[Max(t)][g[t \ {Max(t)}]] /\ g[t \ {Max(t)}] \in Histories
        BY <1>5, <3>1 DEF FoldOf
      <4> QED
        BY <3>1, <4>1, <4>2
    <3>2. CASE t = {}
      BY <1>5, <3>2 DEF FoldOf
    <3> QED
      BY <3>1, <3>2
  <2> HIDE DEF len
  <2> QED
    BY <1>1, <2>1
<1>7. Iterates(it)
  <2> HIDE DEF Iterates
  <2> QED
    BY <1>6
<1> HIDE DEF it
<1>8. it[1..0] = <<>>
  <2>1. 1..0 = {}
    OBVIOUS
  <2>2. it[{}] = <<>>
    BY <1>1, <1>7
  <2> QED
    BY <2>1, <2>2
<1>9. ASSUME NEW k \in 1..len PROVE it[1..k] = Enter(it[1..(k - 1)], contents[k], limit)
  <2>1. 1..k # {} /\ Max(1..k) = k /\ (1..k) \ {k} = 1..(k - 1)
    <3>1. k \in Nat /\ k # 0
      OBVIOUS
    <3> QED
      BY <3>1, MaxOfRange
  <2>2. 1..k \in SUBSET DOMAIN contents
    BY <1>1
  <2> HIDE DEF len
  <2>3. \A t \in SUBSET DOMAIN contents :
          it[t] = IF t = {} THEN <<>> ELSE Enter(it[t \ {Max(t)}], contents[Max(t)], limit)
    BY <1>7, Zenon
  <2>4. it[1..k] = Enter(it[(1..k) \ {Max(1..k)}], contents[Max(1..k)], limit)
    BY <2>1, <2>2, <2>3, Zenon
  <2> QED
    BY <2>1, <2>4, Zenon
<1>10. Bad = {}
  <2>1. SUFFICES ASSUME Bad # {} PROVE FALSE
    OBVIOUS
  <2>2. Bad \subseteq Nat
    OBVIOUS
  <2>3. PICK k \in Bad : \A y \in Bad : k <= y
    <3> HIDE DEF Bad
    <3> QED
      BY <2>1, <2>2, SmallestNumber
  <2>4. k \in 0..len /\ it[1..k] \notin Histories
    OBVIOUS
  <2>5. k # 0
    BY <1>4, <1>8, <2>4
  <2>6. k \in 1..len /\ k - 1 \in 0..len /\ k - 1 \notin Bad
    <3>1. k \in 1..len /\ k - 1 \in 0..len /\ ~(k <= k - 1)
      BY <1>1, <2>4, <2>5
    <3> HIDE DEF Bad
    <3> QED
      BY <2>3, <3>1
  <2>7. it[1..(k - 1)] \in Histories
    BY <2>6
  <2>8. it[1..k] = Enter(it[1..(k - 1)], contents[k], limit) /\ contents[k] \in Entries
    BY <1>1, <1>9, <2>6
  <2>9. it[1..k] \in Histories
    BY <2>7, <2>8, EnterLimited
  <2> QED
    BY <2>4, <2>9
<1> DEFINE r == [k \in 0..len |-> it[1..k]]
<1>11. \A k \in 0..len : it[1..k] \in Histories
  BY <1>10
<1>12. \A k \in 1..len : k \in 0..len /\ k - 1 \in 0..len
  OBVIOUS
<1>13. 0 \in 0..len /\ len \in 0..len
  BY <1>1
<1>14. r \in [0..len -> Histories]
  BY <1>11
<1>15. r[0] = <<>>
  BY <1>8, <1>13
<1>16. \A k \in 1..len : r[k] = Enter(r[k - 1], contents[k], limit)
  BY <1>9, <1>12
<1>17. loaded = r[len]
  BY <1>2, <1>13
<1> HIDE DEF r
<1> QED
  BY <1>14, <1>15, <1>16, <1>17

LEMMA LoadLimited ==
  ASSUME NEW limit \in {0, HistorySize}, NEW contents \in Seq(Entries)
  PROVE  FoldLeft(LAMBDA h, entry : Enter(h, entry, limit), <<>>, contents) \in Histories
<1>1. PICK r \in [0..Len(contents) -> Histories] :
        FoldLeft(LAMBDA h, entry : Enter(h, entry, limit), <<>>, contents) = r[Len(contents)]
  BY LoadSteps
<1>2. Len(contents) \in 0..Len(contents)
  OBVIOUS
<1> QED
  BY <1>1, <1>2

\* What is written to the file are entries, and the rest of what it held.
LEMMA WrittenEntries ==
  ASSUME NEW h \in Seq(Entries), file \in Seq(Entries)
  PROVE  Written(h) \subseteq Seq(Entries)
<1> SUFFICES ASSUME NEW k \in 1..Len(file) + 1
             PROVE  h \o SubSeq(file, k, Len(file)) \in Seq(Entries)
  BY DEF Written
<1>1. SubSeq(file, k, Len(file)) \in Seq(Entries)
  OBVIOUS
<1> QED
  BY <1>1

\* TypeOK, as two parts: what the steps of the program change, and the history.
Limited ==
  /\ file \in Seq(Entries)
  /\ size \in [Sessions -> {0, HistorySize}]
  /\ history \in [Sessions -> Histories]
  /\ found \in [Sessions -> Seq(Entries)]
  /\ typed \in [Sessions -> Seq(Entries)]
  /\ alone \in [Sessions -> BOOLEAN]

LEMMA TypeParts == Shape /\ Limited => TypeOK
BY DEF Shape, Limited, TypeOK, Histories

LEMMA InitLimited == Init => Limited
<1> SUFFICES ASSUME Init PROVE Limited
  OBVIOUS
<1>1. file \in Seq(Entries) /\ <<>> \in Seq(Entries) /\ <<>> \in Histories
  BY LifetimeAssumption DEF Init, Histories
<1> QED
  BY <1>1 DEF Init, Limited

LEMMA TouchLimited ==
  ASSUME Limited, NEW s \in Sessions, NEW contents \in Seq(Entries), Touch(s, contents)
  PROVE  file' \in Seq(Entries) /\ alone' \in [Sessions -> BOOLEAN]
<1>1. file' = contents /\ alone' = [r \in Sessions |-> alone[r] /\ r = s]
  BY DEF Touch
<1>2. \A r \in Sessions : (alone[r] /\ r = s) \in BOOLEAN
  OBVIOUS
<1> QED
  BY <1>1, <1>2

LEMMA CutOffLimited ==
  ASSUME Limited, NEW s \in Sessions, CutOff(s)
  PROVE  file' \in Seq(Entries) /\ alone' \in [Sessions -> BOOLEAN]
<1>1. CASE UNCHANGED <<file, alone>>
  BY <1>1 DEF Limited
<1>2. CASE \E k \in 0..Len(history[s]) :
             \E contents \in Written(SubSeq(history[s], 1, k)) : Touch(s, contents)
  <2>1. history[s] \in Seq(Entries) /\ file \in Seq(Entries)
    BY DEF Limited, Histories
  <2>2. PICK k \in 0..Len(history[s]) :
          \E contents \in Written(SubSeq(history[s], 1, k)) : Touch(s, contents)
    BY <1>2
  <2>3. SubSeq(history[s], 1, k) \in Seq(Entries)
    BY <2>1
  <2>4. Written(SubSeq(history[s], 1, k)) \subseteq Seq(Entries)
    BY <2>1, <2>3, WrittenEntries
  <2> QED
    BY <2>2, <2>4, TouchLimited
<1> QED
  BY <1>1, <1>2 DEF CutOff

LEMMA NextLimited == Limited /\ [Next]_vars => Limited'
<1> SUFFICES ASSUME Limited, [Next]_vars PROVE Limited'
  OBVIOUS
<1>1. ASSUME NEW s \in Sessions, Step(s) PROVE Limited'
  <2>1. /\ file \in Seq(Entries) /\ size[s] \in {0, HistorySize} /\ history[s] \in Histories
        /\ typed[s] \in Seq(Entries)
    BY DEF Limited
  <2>2. CASE ConfigureHistory(s)
    BY <2>2 DEF ConfigureHistory, SetSize, Limited
  <2>3. CASE Load(s)
    <3>1. FoldLeft(LAMBDA h, entry : Enter(h, entry, size[s]), <<>>, file) \in Histories
      BY <2>1, LoadLimited
    <3>2. history' \in [Sessions -> Histories]
      BY <2>3, <3>1 DEF Load, Limited
    <3>3. found' \in [Sessions -> Seq(Entries)] /\ alone' \in [Sessions -> BOOLEAN]
      BY <2>1, <2>3 DEF Load, Limited
    <3> QED
      BY <2>3, <3>2, <3>3 DEF Load, Limited
  <2>4. CASE EnterLine(s)
    <3>1. PICK entry \in Entries :
            /\ history' = [history EXCEPT ![s] = Enter(@, entry, size[s])]
            /\ typed' = [typed EXCEPT ![s] = Append(@, entry)]
      BY <2>4 DEF EnterLine
    <3>2. Enter(history[s], entry, size[s]) \in Histories
      BY <2>1, EnterLimited
    <3>3. Append(typed[s], entry) \in Seq(Entries)
      BY <2>1
    <3>4. history' \in [Sessions -> Histories]
      BY <3>1, <3>2 DEF Limited
    <3>5. typed' \in [Sessions -> Seq(Entries)]
      BY <3>1, <3>3 DEF Limited
    <3> QED
      BY <2>4, <3>4, <3>5 DEF EnterLine, Limited
  <2>5. CASE OpenForSave(s)
    <3>1. <<>> \in Seq(Entries)
      OBVIOUS
    <3>2. file' \in Seq(Entries) /\ alone' \in [Sessions -> BOOLEAN]
      BY <2>5, <3>1, TouchLimited DEF OpenForSave, Limited
    <3> QED
      BY <2>5, <3>2 DEF OpenForSave, Limited
  <2>6. CASE Write(s)
    <3>1. Written(history[s]) \subseteq Seq(Entries)
      BY <2>1, WrittenEntries DEF Histories
    <3>2. file' \in Seq(Entries) /\ alone' \in [Sessions -> BOOLEAN]
      BY <2>6, <3>1, TouchLimited DEF Write
    <3> QED
      BY <2>6, <3>2 DEF Write, Limited
  <2>7. CASE Signal(s) \/ Kill(s)
    <3>1. CutOff(s) /\ UNCHANGED <<size, history, found, typed>>
      BY <2>7 DEF Signal, Kill
    <3> QED
      BY <3>1, CutOffLimited DEF Limited
  <2>8. CASE \/ Construct(s) \/ InstallHandler(s) \/ EndTokenizer(s) \/ EndEditor(s)
             \/ ClearHandlers(s) \/ Exit(s)
    BY <2>8 DEF Construct, InstallHandler, EndTokenizer, EndEditor, ClearHandlers, Exit, Limited
  <2> QED
    BY <1>1, <2>2, <2>3, <2>4, <2>5, <2>6, <2>7, <2>8 DEF Step
<1>2. CASE UNCHANGED vars
  BY <1>2 DEF vars, Limited
<1> QED
  BY <1>1, <1>2 DEF Next, AllGone

(***************************************************************************)
(* Whatever the file held, whatever is entered, and whichever sessions     *)
(* write in between: the variables stay in their sets, and no history      *)
(* outgrows the limit that H_SETSIZE set (cli.cpp:172-176).                *)
(***************************************************************************)
THEOREM LifetimeTypeCorrect == Spec => []TypeOK
BY Invariance, InitLimited, NextLimited, TypeParts, PTL DEF Spec, Inv
-----------------------------------------------------------------------------
(***************************************************************************)
(* The entries that remain, and their ranks.                               *)
(***************************************************************************)
LEMMA KeptFinite ==
  ASSUME NEW e \in Seq(Entries)
  PROVE  /\ Kept(e) \subseteq 1..Len(e) /\ Len(e) \in Nat
         /\ IsFiniteSet(Kept(e)) /\ Cardinality(Kept(e)) \in Nat
<1>1. Kept(e) \subseteq 1..Len(e) /\ Len(e) \in Nat
  BY DEF Kept
<1>2. IsFiniteSet(1..Len(e))
  BY <1>1, FS_Interval
<1>3. IsFiniteSet(Kept(e))
  BY <1>1, <1>2, FS_Subset
<1> QED
  BY <1>1, <1>3, FS_CardinalityType

LEMMA RankRange ==
  ASSUME NEW e \in Seq(Entries), NEW k \in Kept(e)
  PROVE  Rank(e, k) \in 1..Cardinality(Kept(e))
<1> DEFINE upTo == {j \in Kept(e) : j <= k}
<1>1. IsFiniteSet(Kept(e)) /\ k \in Nat /\ Cardinality(Kept(e)) \in Nat
  BY KeptFinite
<1>2. upTo \subseteq Kept(e) /\ k \in upTo
  BY <1>1
<1> HIDE DEF upTo
<1>3. IsFiniteSet(upTo) /\ Cardinality(upTo) <= Cardinality(Kept(e))
  BY <1>1, <1>2, FS_Subset
<1>4. Cardinality(upTo) \in Nat /\ Cardinality(upTo) # 0
  BY <1>2, <1>3, FS_CardinalityType, FS_EmptySet
<1>5. Rank(e, k) = Cardinality(upTo)
  BY DEF Rank, upTo
<1> QED
  BY <1>1, <1>3, <1>4, <1>5

\* The last entry remains and has the highest rank.
LEMMA LastKept ==
  ASSUME NEW e \in Seq(Entries), Len(e) # 0
  PROVE  Len(e) \in Kept(e) /\ Rank(e, Len(e)) = Cardinality(Kept(e))
<1>1. Len(e) \in Kept(e)
  BY DEF Kept
<1>2. {j \in Kept(e) : j <= Len(e)} = Kept(e)
  BY KeptFinite
<1> QED
  BY <1>1, <1>2 DEF Rank

\* One more entry, which may repeat the last one.
LEMMA KeptAppend ==
  ASSUME NEW e \in Seq(Entries), NEW x \in Entries, NEW f, f = Append(e, x)
  PROVE  /\ f \in Seq(Entries) /\ Len(f) = Len(e) + 1 /\ f[Len(f)] = x
         /\ Len(e) # 0 /\ e[Len(e)] = x =>
              Kept(f) = (Kept(e) \ {Len(e)}) \cup {Len(f)}
         /\ ~(Len(e) # 0 /\ e[Len(e)] = x) => Kept(f) = Kept(e) \cup {Len(f)}
         /\ \A k \in Kept(f) : k # Len(f) =>
              k \in Kept(e) /\ f[k] = e[k] /\ Rank(f, k) = Rank(e, k)
<1> DEFINE n == Len(e)
<1>1. /\ f \in Seq(Entries) /\ Len(f) = n + 1 /\ n \in Nat /\ f[n + 1] = x
      /\ \A k \in 1..n : f[k] = e[k]
      /\ DOMAIN f = 1..(n + 1) /\ DOMAIN e = 1..n
  OBVIOUS
<1>2. ASSUME NEW k \in 1..(n + 1)
      PROVE  k \in Kept(f) <=>
               \/ k = n + 1
               \/ k \in Kept(e) /\ k # n
               \/ k = n /\ e[n] # x
  <2>0. n \in Nat /\ k \in Nat /\ 1 <= k /\ k <= n + 1
    BY <1>1, <1>2
  <2>1. k \in Kept(f) <=> k = n + 1 \/ f[k] # f[k + 1]
    BY <1>1 DEF Kept
  <2>2. CASE k = n + 1
    BY <2>1, <2>2
  <2>3. CASE k = n
    <3>1. n \in 1..n /\ n # n + 1
      <4> HIDE DEF n
      <4> QED
        BY <2>0, <2>3
    <3>2. f[n] = e[n] /\ f[n + 1] = x
      BY <1>1, <3>1
    <3> QED
      BY <2>1, <2>3, <3>1, <3>2
  <2>4. CASE k # n + 1 /\ k # n
    <3>1. k \in 1..n /\ k + 1 \in 1..n
      <4> HIDE DEF n
      <4> QED
        BY <2>0, <2>4
    <3>2. f[k] = e[k] /\ f[k + 1] = e[k + 1]
      BY <1>1, <3>1
    <3>3. k \in Kept(e) <=> e[k] # e[k + 1]
      BY <1>1, <2>4, <3>1 DEF Kept
    <3> QED
      BY <2>1, <2>4, <3>2, <3>3
  <2> QED
    BY <2>2, <2>3, <2>4
<1>3. Kept(f) \subseteq 1..(n + 1) /\ Kept(e) \subseteq 1..n /\ (n # 0 => n \in Kept(e))
  <2>1. Kept(f) \subseteq 1..(n + 1)
    BY <1>1 DEF Kept
  <2>2. Kept(e) \subseteq 1..n
    BY KeptFinite
  <2>3. n # 0 => n \in Kept(e)
    BY LastKept
  <2> QED
    BY <2>1, <2>2, <2>3
<1> HIDE DEF n
<1>4. n \in Nat /\ n + 1 \in 1..(n + 1) /\ (\A k \in 1..n : k \in 1..(n + 1) /\ k # n + 1)
  BY <1>1
<1>5. ASSUME n # 0, e[n] = x PROVE Kept(f) = (Kept(e) \ {n}) \cup {n + 1}
  BY <1>2, <1>3, <1>4, <1>5
<1>6. ASSUME ~(n # 0 /\ e[n] = x) PROVE Kept(f) = Kept(e) \cup {n + 1}
  <2>1. ASSUME NEW k \in Kept(f) PROVE k \in Kept(e) \cup {n + 1}
    <3>1. k = n => n # 0
      BY <1>3, <1>4, <2>1
    <3> QED
      BY <1>2, <1>3, <2>1, <3>1
  <2>2. ASSUME NEW k \in Kept(e) PROVE k \in Kept(f)
    <3>1. k \in 1..(n + 1) /\ (k = n => n # 0)
      BY <1>3, <1>4
    <3> QED
      BY <1>2, <1>6, <3>1
  <2>3. n + 1 \in Kept(f)
    BY <1>2, <1>4
  <2> QED
    BY <2>1, <2>2, <2>3
<1>7. ASSUME NEW k \in Kept(f), k # n + 1
      PROVE  k \in Kept(e) /\ f[k] = e[k] /\ Rank(f, k) = Rank(e, k)
  <2>1. k \in Kept(e) /\ k \in 1..n
    <3>1. k \in 1..(n + 1)
      BY <1>3
    <3>2. k \in 1..n
      BY <1>4, <1>7, <3>1
    <3>3. k = n => n # 0
      BY <3>2
    <3> QED
      BY <1>2, <1>3, <1>7, <3>1, <3>2, <3>3
  <2>2. k = n => e[n] # x
    BY <1>2, <1>4, <2>1
  <2>3. ASSUME NEW j \in 1..(n + 1), j <= k PROVE j \in Kept(f) <=> j \in Kept(e)
    <3>1. j \in 1..n /\ j # n + 1
      BY <1>4, <2>1, <2>3
    <3>2. CASE j = n
      <4>1. k = n
        BY <1>4, <2>1, <2>3, <3>2
      <4> QED
        BY <1>2, <2>1, <2>2, <3>2, <4>1
    <3>3. CASE j # n
      BY <1>2, <3>1, <3>3
    <3> QED
      BY <3>2, <3>3
  <2>4. {j \in Kept(f) : j <= k} = {j \in Kept(e) : j <= k}
    <3>1. Kept(e) \subseteq 1..(n + 1)
      BY <1>3, <1>4
    <3> QED
      BY <1>3, <2>3, <3>1
  <2>5. Rank(f, k) = Rank(e, k)
    BY <2>4 DEF Rank
  <2> QED
    BY <1>1, <2>1, <2>5
<1> QED
  BY <1>1, <1>5, <1>6, <1>7 DEF n

\* How many remain then.
LEMMA KeptMore ==
  ASSUME NEW e \in Seq(Entries), NEW x \in Entries, NEW f, f = Append(e, x)
  PROVE  Cardinality(Kept(f)) = IF Len(e) # 0 /\ e[Len(e)] = x
                                  THEN Cardinality(Kept(e))
                                  ELSE Cardinality(Kept(e)) + 1
<1>1. /\ Len(f) = Len(e) + 1 /\ Kept(e) \subseteq 1..Len(e) /\ IsFiniteSet(Kept(e))
      /\ Len(e) \in Nat /\ Cardinality(Kept(e)) \in Nat
  BY KeptFinite, KeptAppend
<1>2. Len(f) \notin Kept(e)
  BY <1>1
<1>3. CASE Len(e) # 0 /\ e[Len(e)] = x
  <2> DEFINE older == Kept(e) \ {Len(e)}
  <2>1. Kept(f) = older \cup {Len(f)} /\ Len(e) \in Kept(e) /\ Len(f) \notin older
    BY <1>2, <1>3, KeptAppend, LastKept
  <2>2. IsFiniteSet(older) /\ Cardinality(older) = Cardinality(Kept(e)) - 1
    BY <1>1, <2>1, FS_RemoveElement
  <2> HIDE DEF older
  <2>3. Cardinality(Kept(f)) = Cardinality(older) + 1
    BY <2>1, <2>2, FS_AddElement
  <2> QED
    BY <1>1, <1>3, <2>2, <2>3
<1>4. CASE ~(Len(e) # 0 /\ e[Len(e)] = x)
  <2>1. ~(Len(e) # 0 /\ e[Len(e)] = x) => Kept(f) = Kept(e) \cup {Len(f)}
    BY KeptAppend, Zenon
  <2>2. Kept(f) = Kept(e) \cup {Len(f)}
    BY <1>4, <2>1, Zenon
  <2>3. Cardinality(Kept(f)) = Cardinality(Kept(e)) + 1
    BY <1>1, <1>2, <2>2, FS_AddElement
  <2> QED
    BY <1>4, <2>3
<1> QED
  BY <1>3, <1>4
\* The arithmetic of Remembers.
LEMMA DroppedRange ==
  ASSUME NEW e \in Seq(Entries)
  PROVE  LET C == Cardinality(Kept(e)) IN
         /\ C \in Nat /\ Dropped(e) \in Nat /\ HistorySize \in Nat /\ HistorySize > 0
         /\ C <= HistorySize => Dropped(e) = 0
         /\ C > HistorySize => Dropped(e) = C - HistorySize
<1>1. Cardinality(Kept(e)) \in Nat
  BY KeptFinite
<1> QED
  BY <1>1, LifetimeAssumption DEF Dropped

\* The last entry is remembered as the last one.
LEMMA LastRemembered ==
  ASSUME NEW h \in Seq(Entries), NEW e \in Seq(Entries), Remembers(h, e)
  PROVE  /\ Len(h) = 0 <=> Len(e) = 0
         /\ Len(e) # 0 => Last(h) = e[Len(e)]
<1> DEFINE C == Cardinality(Kept(e))
           D == Dropped(e)
<1>1. /\ C \in Nat /\ D \in Nat /\ HistorySize \in Nat /\ HistorySize > 0
      /\ C <= HistorySize => D = 0
      /\ C > HistorySize => D = C - HistorySize
  BY DroppedRange
<1>2. /\ Len(h) = C - D
      /\ \A k \in Kept(e) : Rank(e, k) > D => h[Rank(e, k) - D] = e[k]
  BY DEF Remembers
<1>3. CASE Len(e) = 0
  <2>1. Kept(e) = {}
    <3>1. Kept(e) \subseteq 1..Len(e)
      BY KeptFinite
    <3>2. 1..0 = {}
      OBVIOUS
    <3> QED
      BY <1>3, <3>1, <3>2
  <2>2. C = 0
    BY <2>1, FS_EmptySet
  <2> HIDE DEF C, D
  <2> QED
    BY <1>1, <1>2, <1>3, <2>2
<1>4. CASE Len(e) # 0
  <2>1. Len(e) \in Kept(e) /\ Rank(e, Len(e)) = C
    BY <1>4, LastKept
  <2>2. C # 0
    BY <2>1, RankRange, <1>1
  <2> HIDE DEF C, D
  <2>3. C > D
    BY <1>1, <2>2
  <2>4. h[C - D] = e[Len(e)] /\ Len(h) # 0
    BY <1>1, <1>2, <2>1, <2>3
  <2>5. Last(h) = h[Len(h)]
    BY DEF Last
  <2> QED
    BY <1>2, <1>4, <2>4, <2>5
<1> QED
  BY <1>3, <1>4

(***************************************************************************)
(* H_ENTER keeps a history that remembers what was entered: one that       *)
(* repeats its last entry stays as it is, one with room grows by the new   *)
(* entry, and a full one loses its oldest.                                 *)
(***************************************************************************)
LEMMA EnterRemembers ==
  ASSUME NEW h \in Seq(Entries), NEW e \in Seq(Entries), NEW x \in Entries,
         Remembers(h, e)
  PROVE  Remembers(Enter(h, x, HistorySize), Append(e, x))
<1> DEFINE C == Cardinality(Kept(e))
           D == Dropped(e)
<1>1. PICK f : f = Append(e, x)
  OBVIOUS
<1> DEFINE CF == Cardinality(Kept(f))
           DF == Dropped(f)
<1>2. /\ C \in Nat /\ D \in Nat /\ HistorySize \in Nat /\ HistorySize > 0
      /\ C <= HistorySize => D = 0
      /\ C > HistorySize => D = C - HistorySize
  BY DroppedRange
<1>3. f \in Seq(Entries) /\ Len(f) = Len(e) + 1 /\ f[Len(f)] = x
  BY <1>1, KeptAppend
<1>4. /\ CF \in Nat /\ DF \in Nat
      /\ CF <= HistorySize => DF = 0
      /\ CF > HistorySize => DF = CF - HistorySize
  BY <1>3, DroppedRange
<1>5. /\ Len(h) = C - D
      /\ \A k \in Kept(e) : Rank(e, k) > D => h[Rank(e, k) - D] = e[k]
  BY DEF Remembers
<1>6. \A k \in Kept(f) : k # Len(f) => k \in Kept(e) /\ f[k] = e[k] /\ Rank(f, k) = Rank(e, k)
  <2>1. \A k \in Kept(Append(e, x)) : k # Len(Append(e, x)) =>
          k \in Kept(e) /\ Append(e, x)[k] = e[k] /\ Rank(Append(e, x), k) = Rank(e, k)
    BY KeptAppend, Zenon
  <2> QED
    BY <1>1, <2>1, Zenon
<1>7. Len(f) \in Kept(f) /\ Rank(f, Len(f)) = CF
  <2>1. Len(f) # 0
    BY <1>3
  <2> QED
    BY <1>3, <2>1, LastKept
<1>8. \A k \in Kept(e) : Rank(e, k) \in 1..C
  BY RankRange
<1>9. CF = IF Len(e) # 0 /\ e[Len(e)] = x THEN C ELSE C + 1
  BY <1>1, KeptMore
<1>10. /\ Len(h) = 0 <=> Len(e) = 0
       /\ Len(e) # 0 => Last(h) = e[Len(e)]
  BY LastRemembered
<1>11. h # <<>> <=> Len(h) # 0
  OBVIOUS
<1> HIDE DEF C, D, CF, DF
<1>12. SUFFICES ASSUME NEW g, g = Enter(h, x, HistorySize)
                PROVE  /\ Len(g) = CF - DF
                       /\ \A k \in Kept(f) : Rank(f, k) > DF => g[Rank(f, k) - DF] = f[k]
  BY <1>1 DEF Remembers, CF, DF
<1>13. CASE h # <<>> /\ Last(h) = x
  <2>1. g = h /\ CF = C /\ DF = D
    BY <1>2, <1>4, <1>9, <1>10, <1>11, <1>12, <1>13 DEF Enter
  <2>2. ASSUME NEW k \in Kept(f), Rank(f, k) > D PROVE h[Rank(f, k) - D] = f[k]
    <3>1. CASE k # Len(f)
      BY <1>5, <1>6, <2>2, <3>1
    <3>2. CASE k = Len(f)
      <4>1. Len(e) # 0 /\ Len(e) \in Kept(e) /\ Rank(e, Len(e)) = C
        BY <1>10, <1>11, <1>13, LastKept DEF C
      <4>2. h[C - D] = e[Len(e)] /\ e[Len(e)] = x
        BY <1>5, <1>7, <1>10, <1>13, <2>1, <2>2, <3>2, <4>1
      <4> QED
        BY <1>3, <1>7, <2>1, <3>2, <4>2
    <3> QED
      BY <3>1, <3>2
  <2> QED
    BY <1>5, <2>1, <2>2
<1>14. CASE ~(h # <<>> /\ Last(h) = x) /\ Len(h) < HistorySize
  <2>1. g = Append(h, x)
    BY <1>12, <1>14 DEF Enter
  <2>2. CF = C + 1 /\ D = 0 /\ DF = 0 /\ Len(h) = C
    BY <1>2, <1>4, <1>5, <1>9, <1>10, <1>11, <1>14
  <2>3. Len(g) = C + 1 /\ g[C + 1] = x /\ \A i \in 1..C : g[i] = h[i]
    BY <2>1, <2>2
  <2>4. ASSUME NEW k \in Kept(f) PROVE g[Rank(f, k)] = f[k] /\ Rank(f, k) - 0 = Rank(f, k)
    <3>1. CASE k # Len(f)
      <4>1. k \in Kept(e) /\ f[k] = e[k] /\ Rank(f, k) = Rank(e, k) /\ Rank(e, k) \in 1..C
        BY <1>6, <1>8, <3>1
      <4>2. Rank(e, k) > D /\ Rank(e, k) - D = Rank(e, k)
        BY <1>2, <2>2, <4>1
      <4> QED
        BY <1>5, <2>2, <2>3, <4>1, <4>2
    <3>2. CASE k = Len(f)
      BY <1>2, <1>3, <1>7, <2>2, <2>3, <3>2
    <3> QED
      BY <3>1, <3>2
  <2> QED
    BY <1>2, <2>2, <2>3, <2>4
<1>15. CASE ~(h # <<>> /\ Last(h) = x) /\ ~(Len(h) < HistorySize)
  <2>1. g = Append(Tail(h), x)
    BY <1>2, <1>12, <1>15 DEF Enter
  <2>2. CF = C + 1 /\ DF = D + 1 /\ Len(h) = HistorySize /\ CF - DF = HistorySize
    BY <1>2, <1>4, <1>5, <1>9, <1>10, <1>11, <1>15
  <2>3. /\ Tail(h) \in Seq(Entries) /\ Len(Tail(h)) = HistorySize - 1
        /\ \A i \in 1..(HistorySize - 1) : Tail(h)[i] = h[i + 1]
    BY <1>2, <1>11, <2>2
  <2>4. /\ Len(g) = HistorySize /\ g[HistorySize] = x
        /\ \A i \in 1..(HistorySize - 1) : g[i] = h[i + 1]
    <3>1. Len(g) = Len(Tail(h)) + 1 /\ g[Len(Tail(h)) + 1] = x
      BY <2>1, <2>3
    <3>2. \A i \in 1..Len(Tail(h)) : g[i] = Tail(h)[i]
      BY <2>1, <2>3
    <3> QED
      BY <1>2, <2>3, <3>1, <3>2
  <2>5. ASSUME NEW k \in Kept(f), Rank(f, k) > DF PROVE g[Rank(f, k) - DF] = f[k]
    <3>1. CASE k # Len(f)
      <4>1. k \in Kept(e) /\ f[k] = e[k] /\ Rank(f, k) = Rank(e, k) /\ Rank(e, k) \in 1..C
        BY <1>6, <1>8, <3>1
      <4>2. Rank(e, k) > D /\ Rank(f, k) - DF \in 1..(HistorySize - 1)
            /\ (Rank(f, k) - DF) + 1 = Rank(e, k) - D
        BY <1>2, <2>2, <2>5, <4>1
      <4> QED
        BY <1>5, <2>4, <4>1, <4>2
    <3>2. CASE k = Len(f)
      BY <1>3, <1>7, <2>2, <2>4, <3>2
    <3> QED
      BY <3>1, <3>2
  <2> QED
    BY <2>2, <2>4, <2>5
<1> QED
  BY <1>13, <1>14, <1>15

\* H_LOAD with the limit that H_SETSIZE set remembers the file.
LEMMA LoadRemembers ==
  ASSUME NEW limit \in {0, HistorySize}, limit # 0, NEW contents \in Seq(Entries)
  PROVE  Remembers(FoldLeft(LAMBDA h, entry : Enter(h, entry, limit), <<>>, contents),
                   contents)
<1> DEFINE len == Len(contents)
           before(k) == SubSeq(contents, 1, k)
<1>1. PICK r \in [0..len -> Histories] :
        /\ r[0] = <<>>
        /\ \A k \in 1..len : r[k] = Enter(r[k - 1], contents[k], limit)
        /\ FoldLeft(LAMBDA h, entry : Enter(h, entry, limit), <<>>, contents) = r[len]
  BY LoadSteps
<1> DEFINE Bad == {k \in 0..len : ~Remembers(r[k], before(k))}
<1>2. len \in Nat /\ before(0) = <<>> /\ before(len) = contents
  BY SubSeqEmpty, SubSeqFull
<1>3. Remembers(<<>>, <<>>)
  <2>1. <<>> \in Seq(Entries) /\ Len(<<>>) = 0 /\ DOMAIN <<>> = {}
    OBVIOUS
  <2>2. Kept(<<>>) = {}
    BY <2>1 DEF Kept
  <2>3. Cardinality(Kept(<<>>)) = 0
    BY <2>2, FS_EmptySet
  <2>4. Dropped(<<>>) = 0
    BY <2>3, LifetimeAssumption DEF Dropped
  <2> QED
    BY <2>1, <2>2, <2>3, <2>4 DEF Remembers
<1>4. ASSUME NEW k \in 1..len
      PROVE  /\ before(k - 1) \in Seq(Entries) /\ contents[k] \in Entries
             /\ before(k) = Append(before(k - 1), contents[k])
  <2>1. before(k - 1) \in Seq(Entries) /\ contents[k] \in Entries
    OBVIOUS
  <2>2. before(k) \in Seq(Entries) /\ Append(before(k - 1), contents[k]) \in Seq(Entries)
    BY <2>1
  <2>3. Len(before(k)) = k /\ Len(before(k - 1)) = k - 1
    OBVIOUS
  <2>4. Len(before(k)) = Len(Append(before(k - 1), contents[k]))
    BY <2>1, <2>3
  <2>5. \A i \in 1..k : before(k)[i] = Append(before(k - 1), contents[k])[i]
    <3>1. \A i \in 1..k : before(k)[i] = contents[i]
      OBVIOUS
    <3>2. \A i \in 1..(k - 1) : before(k - 1)[i] = contents[i]
      OBVIOUS
    <3> HIDE DEF before
    <3>3. Append(before(k - 1), contents[k])[k] = contents[k]
      BY <2>1, <2>3
    <3>4. \A i \in 1..(k - 1) : Append(before(k - 1), contents[k])[i] = contents[i]
      BY <2>1, <2>3, <3>2
    <3>5. \A i \in 1..k : i = k \/ i \in 1..(k - 1)
      OBVIOUS
    <3> QED
      BY <3>1, <3>3, <3>4, <3>5
  <2> HIDE DEF before
  <2> QED
    BY <2>1, <2>2, <2>3, <2>4, <2>5, SeqEqual
<1> HIDE DEF before
<1>5. Bad = {}
  <2>1. SUFFICES ASSUME Bad # {} PROVE FALSE
    OBVIOUS
  <2>2. Bad \subseteq Nat
    OBVIOUS
  <2>3. PICK k \in Bad : \A y \in Bad : k <= y
    <3> HIDE DEF Bad
    <3> QED
      BY <2>1, <2>2, SmallestNumber
  <2>4. k \in 0..len /\ ~Remembers(r[k], before(k))
    OBVIOUS
  <2>5. k # 0
    BY <1>1, <1>2, <1>3, <2>4
  <2>6. k \in 1..len /\ k - 1 \in 0..len /\ k - 1 \notin Bad
    <3>1. k \in 1..len /\ k - 1 \in 0..len /\ ~(k <= k - 1)
      BY <1>2, <2>4, <2>5
    <3> HIDE DEF Bad
    <3> QED
      BY <2>3, <3>1
  <2>7. Remembers(r[k - 1], before(k - 1))
    BY <2>6
  <2>8. r[k - 1] \in Seq(Entries)
    BY <1>1, <2>6 DEF Histories
  <2>9. Remembers(Enter(r[k - 1], contents[k], HistorySize), before(k))
    BY <1>4, <2>6, <2>7, <2>8, EnterRemembers
  <2> QED
    BY <1>1, <2>4, <2>6, <2>9
<1>6. len \in 0..len
  BY <1>2
<1>7. Remembers(r[len], before(len))
  BY <1>5, <1>6
<1> QED
  BY <1>1, <1>2, <1>7
-----------------------------------------------------------------------------
(***************************************************************************)
(* What a session knows of the file it read and of what was entered since: *)
(* nothing before H_SETSIZE, and from H_LOAD to H_SAVE as much as there is *)
(* room for.  The file stays empty between the two halves of H_SAVE.       *)
(***************************************************************************)
Filled(s) ==
  /\ pc[s] \in {"main", "configure", "set_size", "load"} => typed[s] = <<>>
  /\ pc[s] \in {"load", "run", "save", "write"} => size[s] = HistorySize
  /\ pc[s] \in {"run", "save", "write"} => Remembers(history[s], found[s] \o typed[s])
  /\ pc[s] = "write" /\ alone[s] => file = <<>>

Kin == Inv /\ Limited

LEMMA InitFilled == Init => \A s \in Sessions : Filled(s)
BY DEF Init, Filled

\* A step of one session leaves the others what they know, unless it takes the file.
LEMMA OthersFilled ==
  ASSUME NEW r \in Sessions, Filled(r),
         pc'[r] = pc[r], size'[r] = size[r], history'[r] = history[r],
         found'[r] = found[r], typed'[r] = typed[r],
         (file' = file /\ alone'[r] = alone[r]) \/ ~alone'[r]
  PROVE  Filled(r)'
BY DEF Filled

LEMMA TouchOthers ==
  ASSUME NEW s \in Sessions, NEW r \in Sessions, r # s, NEW contents, Touch(s, contents)
  PROVE  ~alone'[r]
BY DEF Touch

LEMMA CutOffOthers ==
  ASSUME NEW s \in Sessions, NEW r \in Sessions, r # s, CutOff(s)
  PROVE  (file' = file /\ alone'[r] = alone[r]) \/ ~alone'[r]
BY TouchOthers DEF CutOff

LEMMA StepOthers ==
  ASSUME Kin, NEW s \in Sessions, Step(s), NEW r \in Sessions, r # s, Filled(r)
  PROVE  Filled(r)'
<1> USE DEF Goto
<1>1. CASE Construct(s)
  BY <1>1, OthersFilled DEF Construct, Kin, Inv, Shape
<1>2. CASE InstallHandler(s) \/ EndTokenizer(s) \/ EndEditor(s) \/ ClearHandlers(s) \/ Exit(s)
  BY <1>2, OthersFilled
     DEF InstallHandler, EndTokenizer, EndEditor, ClearHandlers, Exit, Kin, Inv, Shape
<1>3. CASE ConfigureHistory(s)
  BY <1>3, OthersFilled DEF ConfigureHistory, SetSize, Kin, Inv, Shape, Limited
<1>4. CASE Load(s)
  <2>1. /\ pc'[r] = pc[r] /\ size'[r] = size[r] /\ history'[r] = history[r]
        /\ found'[r] = found[r] /\ typed'[r] = typed[r]
        /\ file' = file /\ alone'[r] = alone[r]
    BY <1>4 DEF Load, Kin, Inv, Shape, Limited
  <2> QED
    BY <2>1, OthersFilled
<1>5. CASE EnterLine(s)
  <2>1. /\ pc'[r] = pc[r] /\ size'[r] = size[r] /\ history'[r] = history[r]
        /\ found'[r] = found[r] /\ typed'[r] = typed[r]
        /\ file' = file /\ alone'[r] = alone[r]
    BY <1>5 DEF EnterLine, Kin, Inv, Shape, Limited
  <2> QED
    BY <2>1, OthersFilled
<1>6. CASE OpenForSave(s)
  <2>1. (file' = file /\ alone'[r] = alone[r]) \/ ~alone'[r]
    BY <1>6, TouchOthers DEF OpenForSave
  <2> QED
    BY <1>6, <2>1, OthersFilled DEF OpenForSave, Kin, Inv, Shape
<1>7. CASE Write(s)
  <2>1. ~alone'[r]
    BY <1>7, TouchOthers DEF Write
  <2> QED
    BY <1>7, <2>1, OthersFilled DEF Write, Kin, Inv, Shape
<1>8. CASE Signal(s) \/ Kill(s)
  <2>1. CutOff(s) /\ pc'[r] = pc[r] /\ UNCHANGED <<size, history, found, typed>>
    BY <1>8 DEF Signal, Kill, Kin, Inv, Shape
  <2> QED
    BY <2>1, CutOffOthers, OthersFilled
<1> QED
  BY <1>1, <1>2, <1>3, <1>4, <1>5, <1>6, <1>7, <1>8 DEF Step

LEMMA AppendToConcat ==
  ASSUME NEW a \in Seq(Entries), NEW b \in Seq(Entries), NEW entry \in Entries
  PROVE  a \o b \in Seq(Entries) /\ a \o Append(b, entry) = Append(a \o b, entry)
<1>1. <<entry>> \in Seq(Entries) /\ a \o b \in Seq(Entries)
  OBVIOUS
<1>2. Append(b, entry) = b \o <<entry>> /\ Append(a \o b, entry) = (a \o b) \o <<entry>>
  BY <1>1, AppendIsConcat
<1>3. (a \o b) \o <<entry>> = a \o (b \o <<entry>>)
  BY <1>1, ConcatAssociative
<1> QED
  BY <1>1, <1>2, <1>3

LEMMA StepFilled ==
  ASSUME Kin, NEW s \in Sessions, Step(s), Filled(s)
  PROVE  Filled(s)'
<1> USE DEF Goto
<1>0. /\ file \in Seq(Entries) /\ history[s] \in Histories /\ history[s] \in Seq(Entries)
      /\ found[s] \in Seq(Entries) /\ typed[s] \in Seq(Entries)
  BY DEF Kin, Limited, Histories
<1>1. CASE Construct(s)
  BY <1>1 DEF Construct, Kin, Inv, Shape, Filled
<1>2. CASE InstallHandler(s) \/ EndTokenizer(s) \/ EndEditor(s) \/ ClearHandlers(s) \/ Exit(s)
  BY <1>2
     DEF InstallHandler, EndTokenizer, EndEditor, ClearHandlers, Exit, Kin, Inv, Shape, Filled
<1>3. CASE ConfigureHistory(s)
  BY <1>3 DEF ConfigureHistory, SetSize, Kin, Inv, Shape, Limited, Filled
<1>4. CASE Load(s)
  <2>1. pc[s] = "load" /\ size[s] = HistorySize /\ typed[s] = <<>>
    BY <1>4 DEF Load, Filled
  <2>2. /\ pc'[s] = "run" /\ size'[s] = size[s] /\ typed'[s] = typed[s] /\ found'[s] = file
        /\ history'[s] = FoldLeft(LAMBDA h, entry : Enter(h, entry, size[s]), <<>>, file)
    BY <1>4 DEF Load, Kin, Inv, Shape, Limited
  <2>3. file \o <<>> = file
    BY <1>0, ConcatEmptySeq
  <2>4. Remembers(FoldLeft(LAMBDA h, entry : Enter(h, entry, size[s]), <<>>, file), file)
    <3>1. size[s] \in {0, HistorySize} /\ size[s] # 0
      BY <2>1, LifetimeAssumption
    <3> QED
      BY <1>0, <3>1, LoadRemembers
  <2>5. Remembers(history'[s], found'[s] \o typed'[s])
    BY <2>1, <2>2, <2>3, <2>4, Zenon
  <2> QED
    BY <2>1, <2>2, <2>5 DEF Filled
<1>5. CASE EnterLine(s)
  <2>1. /\ pc[s] = "run" /\ size[s] = HistorySize
        /\ Remembers(history[s], found[s] \o typed[s])
    BY <1>5 DEF EnterLine, Filled
  <2>2. PICK entry \in Entries :
          /\ history' = [history EXCEPT ![s] = Enter(@, entry, size[s])]
          /\ typed' = [typed EXCEPT ![s] = Append(@, entry)]
    BY <1>5 DEF EnterLine
  <2>3. /\ history'[s] = Enter(history[s], entry, HistorySize)
        /\ typed'[s] = Append(typed[s], entry)
        /\ pc'[s] = "run" /\ size'[s] = HistorySize /\ found'[s] = found[s]
    BY <1>5, <2>1, <2>2 DEF EnterLine, Kin, Limited
  <2>4. /\ found[s] \o typed[s] \in Seq(Entries)
        /\ found[s] \o Append(typed[s], entry) = Append(found[s] \o typed[s], entry)
    BY <1>0, AppendToConcat
  <2>5. Remembers(Enter(history[s], entry, HistorySize), Append(found[s] \o typed[s], entry))
    BY <1>0, <2>1, <2>4, EnterRemembers
  <2>6. Remembers(history'[s], found'[s] \o typed'[s])
    BY <2>3, <2>4, <2>5
  <2> QED
    BY <2>3, <2>6 DEF Filled
<1>6. CASE OpenForSave(s)
  <2>1. pc[s] = "save" /\ UNCHANGED <<size, history, found, typed>>
    BY <1>6 DEF OpenForSave
  <2>2. \/ pc'[s] = "write" /\ file' = <<>>
        \/ pc'[s] = "el_end"
    BY <1>6 DEF OpenForSave, Touch, Kin, Inv, Shape
  <2> QED
    BY <2>1, <2>2 DEF Filled
<1>7. CASE Write(s)
  <2>1. pc'[s] = "el_end"
    BY <1>7 DEF Write, Kin, Inv, Shape
  <2> QED
    BY <2>1 DEF Filled
<1>8. CASE Signal(s) \/ Kill(s)
  <2>1. pc'[s] \in {"interrupted", "killed"}
    BY <1>8 DEF Signal, Kill, Kin, Inv, Shape
  <2> QED
    BY <2>1 DEF Filled
<1> QED
  BY <1>1, <1>2, <1>3, <1>4, <1>5, <1>6, <1>7, <1>8 DEF Step

LEMMA NextFilled ==
  Kin /\ (\A s \in Sessions : Filled(s)) /\ [Next]_vars => (\A s \in Sessions : Filled(s))'
<1> SUFFICES ASSUME Kin, \A s \in Sessions : Filled(s), [Next]_vars,
                    NEW r \in Sessions
             PROVE  Filled(r)'
  OBVIOUS
<1>1. ASSUME NEW s \in Sessions, Step(s) PROVE Filled(r)'
  <2>1. CASE r = s
    BY <1>1, <2>1, StepFilled
  <2>2. CASE r # s
    BY <1>1, <2>2, StepOthers
  <2> QED
    BY <2>1, <2>2
<1>2. CASE UNCHANGED vars
  BY <1>2 DEF vars, Filled
<1> QED
  BY <1>1, <1>2 DEF Next, AllGone

(***************************************************************************)
(* For any limit, any file and any number of sessions: what a session      *)
(* writes to a file that no other one has touched is the newest of what it *)
(* had found there and of what was entered since, without repetitions, as  *)
(* much as the limit allows (cli.cpp:151, 172-173, 193).                   *)
(***************************************************************************)
THEOREM HistoryKeptCorrect == Spec => HistoryKept
<1> DEFINE Saved == \A s \in Sessions :
             pc[s] = "write" /\ pc'[s] = "el_end" /\ alone[s] =>
               Remembers(file', found[s] \o typed[s])
           Known == \A s \in Sessions : Filled(s)
<1>1. ASSUME Kin, Known, NEW r \in Sessions, Step(r), NEW s \in Sessions,
             pc[s] = "write", pc'[s] = "el_end", alone[s]
      PROVE  Remembers(file', found[s] \o typed[s])
  <2>1. Write(r) /\ r = s
    BY <1>1 DEF Kin, Inv, Shape, Step, Construct, InstallHandler, ConfigureHistory, Load,
       EnterLine, EndTokenizer, OpenForSave, Write, EndEditor, ClearHandlers, Exit, Signal,
       Kill, Goto
  <2>2. file = <<>> /\ Remembers(history[s], found[s] \o typed[s])
    BY <1>1 DEF Filled
  <2>3. history[s] \in Seq(Entries)
    BY <1>1 DEF Kin, Limited, Histories
  <2>4. PICK contents \in Written(history[s]) : file' = contents
    BY <2>1 DEF Write, Touch
  <2>5. contents = history[s]
    <3>1. PICK k \in 1..Len(file) + 1 : contents = history[s] \o SubSeq(file, k, Len(file))
      BY <2>4 DEF Written
    <3>2. k \in Int /\ Len(file) = 0 /\ 0 < k
      BY <2>2
    <3>3. SubSeq(file, k, 0) = <<>>
      BY <3>2, SubSeqEmpty
    <3>4. history[s] \o <<>> = history[s]
      BY <2>3, ConcatEmptySeq
    <3> QED
      BY <3>1, <3>2, <3>3, <3>4
  <2> QED
    BY <2>2, <2>4, <2>5
<1>2. Kin /\ Known /\ [Next]_vars => [Saved]_vars
  BY <1>1 DEF Next, AllGone, vars
<1>3. Spec => []Kin
  BY Invariance, InitLimited, NextLimited, PTL DEF Spec, Kin
<1>4. Spec => []Known
  BY <1>3, InitFilled, NextFilled, PTL DEF Spec
<1> QED
  BY <1>2, <1>3, <1>4, PTL DEF Spec, HistoryKept

=============================================================================
