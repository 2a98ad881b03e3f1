------------------------ MODULE CommandGroup_proofs ------------------------
(***************************************************************************)
(* A group whose chain of declarations was not left by an exception knows  *)
(* its commands by their names, whatever the declarations.                 *)
(***************************************************************************)
EXTENDS CommandGroup, TLAPS

Declaration == [names : Seq(STRING), arguments : Seq(STRING), action : STRING]

Name == STRING \cup {""}

Going == pc \in {"declare", "add", "done"}

Shape ==
  /\ pc \in {"declare", "add", "done", "thrown", "aborted"}
  /\ chain \in Seq(Declaration)
  /\ call \in 0..Len(chain)
  /\ pc = "add" => call > 0
  /\ toAdd \in Seq(Name) /\ commands \in Seq(Nat)

Registered(c, name) ==
  IF name = "" THEN anonymous = {c} ELSE name \in DOMAIN nameMap /\ nameMap[name] = c

\* The commands whose declarations are through.
Settled == IF pc = "add" THEN 1..call - 1 ELSE 1..call

AllRegistered == \A c \in Settled : \A i \in DOMAIN NamesOf(c) : Registered(c, NamesOf(c)[i])

\* The command being added is registered by the names before those still to come.
Underway ==
  pc = "add" =>
    \E k \in 0..Len(NamesOf(call)) :
      /\ toAdd = SubSeq(NamesOf(call), k + 1, Len(NamesOf(call)))
      /\ \A i \in 1..k : Registered(call, NamesOf(call)[i])

\* No name came from anywhere else.
Declared ==
  /\ \A name \in DOMAIN nameMap :
       /\ nameMap[name] \in 1..call
       /\ \E i \in DOMAIN chain[nameMap[name]].names : chain[nameMap[name]].names[i] = name
  /\ anonymous \subseteq 1..call

Inv ==
  /\ Shape
  /\ Going => ToSet(commands) = Settled /\ AllRegistered /\ Underway /\ Declared

LEMMA OneElement ==
  ASSUME NEW S, NEW e \in S
  PROVE  /\ <<e>> \in Seq(S) /\ <<e>> # <<>>
         /\ \A i \in DOMAIN <<e>> : <<e>>[i] = e
<1>1. <<e>> \in Seq(S) /\ Len(<<e>>) = 1 /\ <<e>>[1] = e
  OBVIOUS
<1>2. \A i \in 1..1 : i = 1
  OBVIOUS
<1>3. DOMAIN <<e>> = 1..1
  OBVIOUS
<1>4. Len(<<>>) = 0
  OBVIOUS
<1> QED
  BY <1>1, <1>2, <1>3, <1>4

LEMMA NamesShape ==
  ASSUME NEW names \in Seq(STRING)
  PROVE  /\ Names(names) \in Seq(Name) /\ Names(names) # <<>>
         /\ \A i \in DOMAIN Names(names) : Names(names)[i] # "" =>
              \E j \in DOMAIN names : names[j] = Names(names)[i]
<1>1. CASE names = <<>>
  <2>1. Names(names) = <<"">>
    BY <1>1 DEF Names
  <2>2. "" \in Name
    BY DEF Name
  <2>3. /\ <<"">> \in Seq(Name) /\ <<"">> # <<>>
        /\ \A i \in DOMAIN <<"">> : <<"">>[i] = ""
    BY <2>2, OneElement
  <2> QED
    BY <2>1, <2>3
<1>2. CASE names # <<>>
  <2>1. Names(names) = names
    BY <1>2 DEF Names
  <2>2. /\ names \in [1..Len(names) -> STRING] /\ Len(names) \in Nat
        /\ DOMAIN names = 1..Len(names)
    OBVIOUS
  <2>3. names \in [1..Len(names) -> Name]
    BY <2>2 DEF Name
  <2>4. names \in Seq(Name)
    BY <2>2, <2>3
  <2> QED
    BY <1>2, <2>1, <2>4
<1> QED
  BY <1>1, <1>2

LEMMA NamesOfShape ==
  ASSUME Shape, NEW c \in 1..Len(chain)
  PROVE  /\ NamesOf(c) \in Seq(Name) /\ NamesOf(c) # <<>>
         /\ \A i \in DOMAIN NamesOf(c) : NamesOf(c)[i] # "" =>
              \E j \in DOMAIN chain[c].names : chain[c].names[j] = NamesOf(c)[i]
<1>1. chain[c].names \in Seq(STRING)
  <2>1. chain[c] \in Declaration
    BY DEF Shape
  <2> QED
    BY <2>1 DEF Declaration
<1>2. NamesOf(c) = Names(chain[c].names)
  BY DEF NamesOf
<1> QED
  BY <1>1, <1>2, NamesShape

LEMMA AppendToSet ==
  ASSUME NEW S, NEW s \in Seq(S), NEW e \in S
  PROVE  ToSet(Append(s, e)) = ToSet(s) \cup {e}
<1>1. /\ DOMAIN Append(s, e) = 1..Len(s) + 1 /\ DOMAIN s = 1..Len(s) /\ Len(s) \in Nat
      /\ \A i \in 1..Len(s) : Append(s, e)[i] = s[i]
      /\ Append(s, e)[Len(s) + 1] = e
  OBVIOUS
<1>2. \A i \in 1..Len(s) + 1 : i \in 1..Len(s) \/ i = Len(s) + 1
  BY <1>1
<1>3. \A i \in 1..Len(s) : i \in 1..Len(s) + 1
  BY <1>1
<1>4. Len(s) + 1 \in 1..Len(s) + 1
  BY <1>1
<1> QED
  BY <1>1, <1>2, <1>3, <1>4 DEF ToSet

LEMMA InitInv == Init => Inv
<1> SUFFICES ASSUME Init PROVE Inv
  OBVIOUS
<1>1. chain \in Seq(Declaration)
  BY ChainsAssumption DEF Init, Declaration
<1>2. Shape
  BY <1>1 DEF Init, Shape
<1>3. Settled = {} /\ ToSet(commands) = {}
  BY DEF Init, Settled, ToSet
<1>4. DOMAIN nameMap = {} /\ pc = "declare" /\ anonymous = {}
  BY DEF Init
<1> QED
  BY <1>2, <1>3, <1>4 DEF Inv, AllRegistered, Underway, Declared

\* What is registered stays registered.
LEMMA AddNameKeeps ==
  ASSUME AddName, NEW c, NEW name, Registered(c, name)
  PROVE  Registered(c, name)'
<1>1. CASE Taken(Head(toAdd))
  BY <1>1 DEF AddName, Registered
<1>2. CASE ~Taken(Head(toAdd)) /\ Head(toAdd) = ""
  <2>1. anonymous = {} /\ nameMap' = nameMap
    BY <1>2 DEF AddName, Taken
  <2>2. name # ""
    BY <2>1 DEF Registered
  <2> QED
    BY <2>1, <2>2 DEF Registered
<1>3. CASE ~Taken(Head(toAdd)) /\ Head(toAdd) # ""
  <2>1. /\ Head(toAdd) \notin DOMAIN nameMap /\ anonymous' = anonymous
        /\ nameMap' = [m \in DOMAIN nameMap \cup {Head(toAdd)} |->
                         IF m = Head(toAdd) THEN call ELSE nameMap[m]]
    BY <1>3 DEF AddName, Taken
  <2> QED
    BY <2>1 DEF Registered
<1> QED
  BY <1>1, <1>2, <1>3

LEMMA AddNameRegisters ==
  ASSUME AddName, ~Taken(Head(toAdd)), NEW name, name = Head(toAdd)
  PROVE  Registered(call, name)'
<1>1. CASE Head(toAdd) = ""
  BY <1>1 DEF AddName, Registered
<1>2. CASE Head(toAdd) # ""
  <2>1. /\ call' = call
        /\ nameMap' = [m \in DOMAIN nameMap \cup {Head(toAdd)} |->
                         IF m = Head(toAdd) THEN call ELSE nameMap[m]]
    BY <1>2 DEF AddName
  <2>2. Head(toAdd) \in DOMAIN nameMap' /\ nameMap'[Head(toAdd)] = call
    BY <2>1
  <2> QED
    BY <1>2, <2>1, <2>2 DEF Registered
<1> QED
  BY <1>1, <1>2

LEMMA SubSeqHeadTail ==
  ASSUME NEW S, NEW s \in Seq(S), NEW k \in 0..Len(s), SubSeq(s, k + 1, Len(s)) # <<>>
  PROVE  /\ k + 1 \in 1..Len(s)
         /\ Head(SubSeq(s, k + 1, Len(s))) = s[k + 1]
         /\ Tail(SubSeq(s, k + 1, Len(s))) = SubSeq(s, k + 2, Len(s))
<1>1. k + 1 \in 1..Len(s)
  OBVIOUS
<1> QED
  BY <1>1

LEMMA SubSeqLength ==
  ASSUME NEW s \in Seq(Name), NEW k \in 0..Len(s)
  PROVE  Len(SubSeq(s, k + 1, Len(s))) = Len(s) - k
OBVIOUS

LEMMA SubSeqWhole == ASSUME NEW S, NEW s \in Seq(S) PROVE SubSeq(s, 1, Len(s)) = s
OBVIOUS

LEMMA AddOneOptionKeeps == ASSUME Inv, AddOneOption PROVE Inv'
<1>1. /\ Shape /\ call' = call + 1 /\ call' \in 1..Len(chain) /\ call \in Nat
      /\ chain' = chain /\ commands' = commands /\ nameMap' = nameMap
      /\ anonymous' = anonymous
      /\ pc = "declare" /\ pc' \in {"aborted", "add"}
      /\ pc' = "add" => toAdd' = Names(chain[call'].names)
      /\ pc' = "aborted" => toAdd' = toAdd
  BY DEF AddOneOption, Inv, Shape
<1>2. /\ NamesOf(call') \in Seq(Name)
      /\ pc' = "add" => toAdd' = NamesOf(call')
  BY <1>1, NamesOfShape DEF NamesOf
<1>3. Shape'
  BY <1>1, <1>2 DEF Shape
<1>4. ASSUME pc' = "add" PROVE ToSet(commands)' = Settled' /\ AllRegistered' /\ Underway' /\ Declared'
  <2>1. ToSet(commands) = Settled /\ AllRegistered /\ Declared
    BY <1>1 DEF Inv, Going
  <2>2. Settled' = Settled
    BY <1>1, <1>4 DEF Settled
  <2>3. \A c, name : Registered(c, name)' = Registered(c, name)
    BY <1>1 DEF Registered
  <2>4. \A c : NamesOf(c)' = NamesOf(c)
    BY <1>1 DEF NamesOf
  <2>5. ToSet(commands)' = Settled'
    BY <1>1, <2>1, <2>2
  <2>6. AllRegistered'
    BY <1>1, <2>1, <2>2 DEF AllRegistered, Registered, NamesOf
  <2>7. Underway'
    <3> DEFINE ns == NamesOf(call')
    <3>1. toAdd' = SubSeq(ns, 0 + 1, Len(ns))
      BY <1>2, <1>4, SubSeqWhole
    <3>2. 0 \in 0..Len(ns) /\ \A i \in 1..0 : FALSE
      BY <1>2
    <3>3. NamesOf(call)' = ns
      BY <1>1 DEF NamesOf
    <3> HIDE DEF ns
    <3> QED
      BY <3>1, <3>2, <3>3 DEF Underway
  <2>8. Declared'
    <3>1. 1..call \subseteq 1..call'
      BY <1>1
    <3> QED
      BY <1>1, <2>1, <3>1 DEF Declared
  <2> QED
    BY <2>5, <2>6, <2>7, <2>8
<1> QED
  BY <1>1, <1>3, <1>4 DEF Inv, Going

LEMMA PushBackKeeps == ASSUME Inv, PushBack PROVE Inv'
<1>1. /\ Shape /\ pc = "add" /\ pc' = "declare" /\ toAdd = <<>> /\ toAdd' = toAdd
      /\ call' = call /\ call \in 1..Len(chain) /\ call \in Nat
      /\ chain' = chain /\ commands' = Append(commands, call) /\ commands \in Seq(Nat)
      /\ nameMap' = nameMap /\ anonymous' = anonymous
  BY DEF PushBack, Inv, Shape
<1>2. ToSet(commands) = Settled /\ AllRegistered /\ Underway /\ Declared
  BY <1>1 DEF Inv, Going
<1>3. Shape'
  BY <1>1 DEF Shape
<1>4. Settled' = Settled \cup {call}
  BY <1>1 DEF Settled
<1>5. ToSet(commands') = Settled'
  BY <1>1, <1>2, <1>4, AppendToSet
<1>6. \A i \in DOMAIN NamesOf(call) : Registered(call, NamesOf(call)[i])
  <2>1. NamesOf(call) \in Seq(Name)
    BY <1>1, NamesOfShape
  <2>2. PICK k \in 0..Len(NamesOf(call)) :
          /\ toAdd = SubSeq(NamesOf(call), k + 1, Len(NamesOf(call)))
          /\ \A i \in 1..k : Registered(call, NamesOf(call)[i])
    BY <1>1, <1>2 DEF Underway
  <2>4. k = Len(NamesOf(call))
    <3>1. Len(toAdd) = 0
      BY <1>1
    <3>2. Len(toAdd) = Len(NamesOf(call)) - k
      BY <2>1, <2>2, SubSeqLength
    <3>3. Len(NamesOf(call)) - k = 0
      BY <3>1, <3>2
    <3>4. Len(NamesOf(call)) \in Nat
      BY <2>1
    <3> QED
      BY <3>3, <3>4
  <2>5. DOMAIN NamesOf(call) = 1..k
    BY <2>1, <2>4
  <2> QED
    BY <2>2, <2>5
<1>7. AllRegistered'
  BY <1>1, <1>2, <1>4, <1>6 DEF AllRegistered, Registered, NamesOf
<1>8. Underway' /\ Declared'
  BY <1>1, <1>2 DEF Underway, Declared
<1> QED
  BY <1>3, <1>5, <1>7, <1>8 DEF Inv

LEMMA AddNameDeclares ==
  ASSUME Shape, Declared, AddName, ~Taken(Head(toAdd)), call \in 1..Len(chain),
         NEW k \in 1..Len(NamesOf(call)), Head(toAdd) = NamesOf(call)[k]
  PROVE  Declared'
<1>1. call' = call /\ chain' = chain /\ call \in 1..call
  <2>1. call' = call /\ chain' = chain
    BY DEF AddName
  <2>2. call \in 1..call
    OBVIOUS
  <2> QED
    BY <2>1, <2>2
<1>2. CASE Head(toAdd) = ""
  <2>1. nameMap' = nameMap /\ anonymous' = {call}
    BY <1>2 DEF AddName
  <2> QED
    BY <1>1, <2>1 DEF Declared
<1>3. CASE Head(toAdd) # ""
  <2>1. /\ anonymous' = anonymous
        /\ nameMap' = [m \in DOMAIN nameMap \cup {Head(toAdd)} |->
                         IF m = Head(toAdd) THEN call ELSE nameMap[m]]
    BY <1>3 DEF AddName
  <2>2. NamesOf(call) \in Seq(Name) /\ k \in DOMAIN NamesOf(call)
    <3>1. NamesOf(call) \in Seq(Name)
      BY NamesOfShape
    <3> QED
      BY <3>1
  <2>3. \E j \in DOMAIN chain[call].names : chain[call].names[j] = Head(toAdd)
    BY <1>3, <2>2, NamesOfShape
  <2> QED
    BY <1>1, <2>1, <2>3 DEF Declared
<1> QED
  BY <1>2, <1>3

LEMMA AddNameStep == ASSUME Inv, AddName PROVE Inv'
<1>1. /\ Shape /\ pc = "add" /\ toAdd # <<>> /\ toAdd \in Seq(Name)
      /\ call' = call /\ call \in 1..Len(chain) /\ call \in Nat
      /\ chain' = chain /\ commands' = commands
  <2>1. /\ pc = "add" /\ toAdd # <<>> /\ call' = call /\ chain' = chain
        /\ commands' = commands
    BY DEF AddName
  <2>2. Shape
    BY DEF Inv
  <2> QED
    BY <2>1, <2>2 DEF Shape
<1>2. ToSet(commands) = Settled /\ AllRegistered /\ Underway /\ Declared
  BY <1>1 DEF Inv, Going
<1>3. CASE Taken(Head(toAdd))
  <2>1. pc' = "thrown" /\ toAdd' = toAdd
    BY <1>3 DEF AddName
  <2> QED
    BY <1>1, <2>1 DEF Inv, Going, Shape
<1>4. CASE ~Taken(Head(toAdd))
  <2>1. pc' = pc /\ toAdd' = Tail(toAdd)
    BY <1>4 DEF AddName
  <2>2. Tail(toAdd) \in Seq(Name)
    BY <1>1
  <2>3. Shape'
    BY <1>1, <2>1, <2>2 DEF Shape
  <2>4. Settled' = Settled
    BY <1>1, <2>1 DEF Settled
  <2>5. ToSet(commands)' = Settled'
    BY <1>1, <1>2, <2>4
  <2>6. \A c, name : Registered(c, name) => Registered(c, name)'
    BY AddNameKeeps
  <2>7. \A c : NamesOf(c)' = NamesOf(c)
    BY <1>1 DEF NamesOf
  <2>8. AllRegistered'
    <3> SUFFICES ASSUME NEW c \in Settled, NEW i \in DOMAIN NamesOf(c)
                 PROVE  Registered(c, NamesOf(c)[i])'
      BY <2>4, <2>7 DEF AllRegistered
    <3>1. Registered(c, NamesOf(c)[i])
      BY <1>2 DEF AllRegistered
    <3>2. PICK name : name = NamesOf(c)[i]
      OBVIOUS
    <3>3. Registered(c, name)'
      BY <2>6, <3>1, <3>2
    <3> QED
      BY <2>7, <3>2, <3>3
  <2> DEFINE ns == NamesOf(call)
  <2>9. ns \in Seq(Name)
    BY <1>1, NamesOfShape
  <2>16. ns' = ns
    BY <1>1 DEF NamesOf
  <2>10. PICK k \in 0..Len(ns) :
           /\ toAdd = SubSeq(ns, k + 1, Len(ns))
           /\ \A i \in 1..k : Registered(call, ns[i])
    BY <1>1, <1>2 DEF Underway
  <2>11. k + 1 \in 1..Len(ns) /\ Head(toAdd) = ns[k + 1] /\ toAdd' = SubSeq(ns, k + 2, Len(ns))
    BY <1>1, <2>1, <2>9, <2>10, SubSeqHeadTail
  <2>12. PICK name : name = Head(toAdd)
    OBVIOUS
  <2>13. Registered(call, name)'
    BY <1>4, <2>12, AddNameRegisters
  <2>14. Underway'
    <3>1. k + 1 \in 0..Len(ns) /\ (k + 1) + 1 = k + 2 /\ \A i \in 1..k + 1 : i \in 1..k \/ i = k + 1
      BY <2>9, <2>11
    <3>2. \A i \in 1..k : Registered(call, ns[i])'
      <4> SUFFICES ASSUME NEW i \in 1..k PROVE Registered(call, ns[i])'
        OBVIOUS
      <4>1. PICK m : m = ns[i]
        OBVIOUS
      <4>2. Registered(call, m)'
        BY <1>1, <2>6, <2>10, <4>1
      <4> QED
        BY <2>16, <4>1, <4>2
    <3>3. Registered(call, ns[k + 1])'
      BY <2>11, <2>12, <2>13, <2>16
    <3>4. \A i \in 1..k + 1 : Registered(call, ns[i])'
      BY <3>1, <3>2, <3>3
    <3> QED
      BY <2>11, <2>16, <3>1, <3>4 DEF Underway
  <2>15. Declared'
    BY <1>1, <1>2, <1>4, <2>11, AddNameDeclares
  <2> QED
    BY <2>3, <2>5, <2>8, <2>14, <2>15 DEF Inv
<1> QED
  BY <1>3, <1>4

LEMMA NextInv == Inv /\ [Next]_vars => Inv'
<1> SUFFICES ASSUME Inv, [Next]_vars PROVE Inv'
  OBVIOUS
<1>1. CASE Return
  <2>1. /\ pc = "declare" /\ pc' = "done"
        /\ UNCHANGED <<chain, assertions, commands, nameMap, anonymous, call, toAdd>>
    BY <1>1 DEF Return
  <2>2. Shape /\ ToSet(commands) = Settled /\ AllRegistered /\ Declared
    BY <2>1 DEF Inv, Going
  <2>3. Shape' /\ Settled' = Settled /\ ToSet(commands)' = ToSet(commands)
    BY <2>1, <2>2 DEF Shape, Settled
  <2>4. AllRegistered' /\ Declared' /\ Underway'
    BY <2>1, <2>2, <2>3 DEF AllRegistered, Declared, Underway, Registered, NamesOf
  <2> QED
    BY <2>2, <2>3, <2>4 DEF Inv
<1>2. CASE UNCHANGED vars
  <2>1. Shape' /\ Settled' = Settled /\ ToSet(commands)' = ToSet(commands) /\ Going' = Going
    BY <1>2 DEF vars, Shape, Settled, Going, Inv
  <2>2. /\ AllRegistered => AllRegistered'
        /\ Declared => Declared'
        /\ Underway => Underway'
    BY <1>2, <2>1 DEF vars, AllRegistered, Declared, Underway, Registered, NamesOf
  <2> QED
    BY <2>1, <2>2 DEF Inv
<1> QED
  BY <1>1, <1>2, AddOneOptionKeeps, AddNameStep, PushBackKeeps DEF Next, Ended

LEMMA Invariance == Spec => []Inv
<1> QED
  BY InitInv, NextInv, PTL DEF Spec

LEMMA InvKnown == Inv => KnownByAllNames
<1> SUFFICES ASSUME Inv, pc = "done" PROVE KnownByAllNames
  BY DEF KnownByAllNames
<1>1. /\ Shape /\ ToSet(commands) = 1..call /\ AllRegistered /\ Declared
      /\ Settled = 1..call /\ \A c \in 1..call : c \in 1..Len(chain)
  BY DEF Inv, Going, Settled, Shape
<1>2. ASSUME NEW c \in ToSet(commands), NEW name \in ToSet(Names(chain[c].names))
      PROVE  Registered(c, name)
  <2>1. PICK i \in DOMAIN NamesOf(c) : name = NamesOf(c)[i]
    BY <1>2 DEF ToSet, NamesOf
  <2> QED
    BY <1>1, <2>1 DEF AllRegistered
<1>3. \A name \in DOMAIN nameMap : Contains(chain[nameMap[name]].names, name)
  <2> SUFFICES ASSUME NEW name \in DOMAIN nameMap
               PROVE  Contains(chain[nameMap[name]].names, name)
    OBVIOUS
  <2>1. nameMap[name] \in 1..Len(chain)
    BY <1>1 DEF Declared
  <2>2. chain[nameMap[name]] \in Declaration
    BY <1>1, <2>1 DEF Shape
  <2>3. chain[nameMap[name]].names \in Seq(STRING)
    BY <2>2 DEF Declaration
  <2>4. \E i \in 1..Len(chain[nameMap[name]].names) : chain[nameMap[name]].names[i] = name
    BY <1>1, <2>3 DEF Declared
  <2> QED
    BY <2>4 DEF Contains
<1>4. ASSUME NEW c \in 1..call
      PROVE  c \in anonymous \cup {nameMap[name] : name \in DOMAIN nameMap}
  <2>1. NamesOf(c) \in Seq(Name) /\ NamesOf(c) # <<>>
    BY <1>1, <1>4, NamesOfShape
  <2>2. 1 \in DOMAIN NamesOf(c)
    BY <2>1
  <2>3. Registered(c, NamesOf(c)[1])
    BY <1>1, <1>4, <2>2 DEF AllRegistered
  <2> QED
    BY <2>3 DEF Registered
<1>5. anonymous \cup {nameMap[name] : name \in DOMAIN nameMap} = ToSet(commands)
  <2> DEFINE known == anonymous \cup {nameMap[name] : name \in DOMAIN nameMap}
  <2>1. \A c \in 1..call : c \in known
    BY <1>4
  <2>2. anonymous \subseteq 1..call /\ \A name \in DOMAIN nameMap : nameMap[name] \in 1..call
    BY <1>1 DEF Declared
  <2>3. \A c \in known : c \in 1..call
    BY <2>2
  <2> HIDE DEF known
  <2>4. known = 1..call
    BY <2>1, <2>3
  <2> QED
    BY <1>1, <2>4 DEF known
<1> QED
  BY <1>2, <1>3, <1>5 DEF KnownByAllNames, Registered

(***************************************************************************)
(* For all chains of declarations: a group whose chain was gone through    *)
(* without an exception knows every command by all of its names and by no  *)
(* other (command.cpp:119-148).                                            *)
(***************************************************************************)
THEOREM KnownByAllNamesCorrect == Spec => []KnownByAllNames
BY Invariance, InvKnown, PTL
-----------------------------------------------------------------------------
(***************************************************************************)
(* When the chain throws.  A name is taken if and only if it was given at  *)
(* a place that the loops have passed, and no place they have passed gives *)
(* a name again.                                                           *)
(***************************************************************************)
Passed(c, i) ==
  /\ c \in 1..call /\ i \in DOMAIN NamesOf(c)
  /\ c = call => i <= Len(NamesOf(c)) - Len(toAdd)

TakenIfPassed == \A name : Taken(name) <=> \E c, i : Passed(c, i) /\ NamesOf(c)[i] = name

OnceEach == \A c, i : Passed(c, i) => ~GivenBefore(c, i)

\* What is still to be added are the last names of the declaration.
ToCome ==
  /\ pc \in {"add", "thrown"} =>
       /\ call \in 1..Len(chain)
       /\ \E k \in 0..Len(NamesOf(call)) :
            toAdd = SubSeq(NamesOf(call), k + 1, Len(NamesOf(call)))
  /\ pc \in {"declare", "done"} => toAdd = <<>>
  /\ pc = "done" => call = Len(chain)
  /\ pc = "thrown" => Len(toAdd) > 0 /\ Taken(Head(toAdd))

Stopped == pc = "aborted" => call \in 1..Len(chain) /\ ~validCommand(chain[call])

Duplicates == Stopped /\ (pc # "aborted" => ToCome /\ TakenIfPassed /\ OnceEach)

LEMMA InitDuplicates == Init => Duplicates
<1> SUFFICES ASSUME Init PROVE Duplicates
  OBVIOUS
<1>1. /\ pc = "declare" /\ call = 0 /\ toAdd = <<>> /\ DOMAIN nameMap = {} /\ anonymous = {}
  BY DEF Init
<1>2. \A name : ~Taken(name)
  BY <1>1 DEF Taken
<1>3. \A c, i : ~Passed(c, i)
  BY <1>1 DEF Passed
<1> QED
  BY <1>1, <1>2, <1>3 DEF Duplicates, Stopped, ToCome, TakenIfPassed, OnceEach

\* Places that stay passed, with the names they gave.
LEMMA SamePassed ==
  ASSUME chain' = chain, nameMap' = nameMap, anonymous' = anonymous,
         \A c, i : Passed(c, i)' <=> Passed(c, i), TakenIfPassed, OnceEach
  PROVE  TakenIfPassed' /\ OnceEach'
<1>1. \A c : NamesOf(c)' = NamesOf(c)
  BY DEF NamesOf
<1>2. \A name : Taken(name)' <=> Taken(name)
  BY DEF Taken
<1>3. \A c, i : GivenBefore(c, i)' <=> GivenBefore(c, i)
  BY <1>1 DEF GivenBefore
<1>4. TakenIfPassed'
  BY <1>1, <1>2 DEF TakenIfPassed
<1>5. OnceEach'
  BY <1>3 DEF OnceEach
<1> QED
  BY <1>4, <1>5

LEMMA AddOneOptionDuplicates == ASSUME Inv, Duplicates, AddOneOption PROVE Duplicates'
<1>1. /\ pc = "declare" /\ call' = call + 1 /\ call' \in 1..Len(chain) /\ call \in Nat
      /\ chain' = chain /\ nameMap' = nameMap /\ anonymous' = anonymous /\ toAdd = <<>>
      /\ \/ pc' = "aborted" /\ ~validCommand(chain[call'])
         \/ pc' = "add" /\ toAdd' = NamesOf(call')
  BY DEF AddOneOption, Inv, Shape, Duplicates, ToCome, NamesOf
<1>2. CASE pc' = "aborted"
  <2>1. ~validCommand(chain[call'])
    BY <1>1, <1>2
  <2> QED
    BY <1>1, <1>2, <2>1 DEF Duplicates, Stopped
<1>3. CASE pc' = "add"
  <2> DEFINE ns == NamesOf(call')
  <2>1. ns \in Seq(Name) /\ toAdd' = ns /\ Len(ns) \in Nat
    <3>1. Shape
      BY DEF Inv
    <3>2. ns \in Seq(Name)
      BY <1>1, <3>1, NamesOfShape
    <3> QED
      BY <1>1, <1>3, <3>2
  <2>2. \A c : NamesOf(c)' = NamesOf(c)
    BY <1>1 DEF NamesOf
  <2>3. NamesOf(call)' = ns
    BY <1>1 DEF NamesOf
  <2>4. ToCome'
    <3>1. toAdd' = SubSeq(ns, 0 + 1, Len(ns)) /\ 0 \in 0..Len(ns)
      BY <2>1, SubSeqWhole
    <3>2. \E k \in 0..Len(ns) : toAdd' = SubSeq(ns, k + 1, Len(ns))
      BY <3>1
    <3> HIDE DEF ns
    <3> QED
      BY <1>1, <1>3, <2>3, <3>2 DEF ToCome
  <2>5. \A c, i : Passed(c, i)' <=> Passed(c, i)
    <3> SUFFICES ASSUME NEW c, NEW i PROVE Passed(c, i)' <=> Passed(c, i)
      OBVIOUS
    <3>1. CASE c \in 1..call
      <4>1. c \in 1..call' /\ c # call' /\ c \in 1..Len(chain)
        BY <1>1, <3>1
      <4>2. NamesOf(c) \in Seq(Name)
        BY <4>1, NamesOfShape DEF Inv
      <4>3. Len(toAdd) = 0
        BY <1>1
      <4>4. i \in DOMAIN NamesOf(c) => i <= Len(NamesOf(c)) - Len(toAdd)
        BY <4>2, <4>3
      <4> QED
        BY <2>2, <3>1, <4>1, <4>4 DEF Passed
    <3>2. CASE c = call'
      <4>1. ~Passed(c, i)
        BY <1>1, <3>2 DEF Passed
      <4>2. i \in DOMAIN ns => ~(i <= Len(ns) - Len(toAdd'))
        BY <2>1
      <4>3. NamesOf(c)' = ns
        BY <2>2, <3>2
      <4> HIDE DEF ns
      <4> QED
        BY <3>2, <4>1, <4>2, <4>3 DEF Passed
    <3>3. CASE c \notin 1..call'
      <4>1. c \notin 1..call
        BY <1>1, <3>3
      <4> QED
        BY <3>3, <4>1 DEF Passed
    <3> QED
      BY <1>1, <3>1, <3>2, <3>3
  <2>6. TakenIfPassed' /\ OnceEach'
    BY <1>1, <2>5, SamePassed DEF Duplicates
  <2> QED
    BY <1>3, <2>4, <2>6 DEF Duplicates, Stopped
<1> QED
  BY <1>1, <1>2, <1>3

LEMMA AddNameDuplicates == ASSUME Inv, Duplicates, AddName PROVE Duplicates'
<1> DEFINE ns == NamesOf(call)
<1>1. /\ pc = "add" /\ call' = call /\ chain' = chain /\ call \in 1..Len(chain) /\ Shape
      /\ ToCome /\ TakenIfPassed /\ OnceEach
  BY DEF AddName, Duplicates, ToCome, Inv
<1>2. ns \in Seq(Name) /\ Len(ns) \in Nat /\ DOMAIN ns = 1..Len(ns)
  <2>1. ns \in Seq(Name)
    BY <1>1, NamesOfShape
  <2> QED
    BY <2>1
<1>3. PICK k \in 0..Len(ns) : toAdd = SubSeq(ns, k + 1, Len(ns))
  BY <1>1 DEF ToCome
<1>4. toAdd # <<>>
  BY DEF AddName
<1>5. /\ k + 1 \in 1..Len(ns) /\ Head(toAdd) = ns[k + 1]
      /\ Tail(toAdd) = SubSeq(ns, k + 2, Len(ns))
  BY <1>2, <1>3, <1>4, SubSeqHeadTail
<1>6. Len(toAdd) = Len(ns) - k /\ Len(toAdd) > 0
  BY <1>2, <1>3, <1>5, SubSeqLength
<1>7. \A c : NamesOf(c)' = NamesOf(c)
  BY <1>1 DEF NamesOf
<1> HIDE DEF ns
<1>8. CASE Taken(Head(toAdd))
  <2>1. pc' = "thrown" /\ nameMap' = nameMap /\ anonymous' = anonymous /\ toAdd' = toAdd
    BY <1>8 DEF AddName
  <2>2. \A c, i : Passed(c, i)' <=> Passed(c, i)
    BY <1>1, <1>7, <2>1 DEF Passed
  <2>3. TakenIfPassed' /\ OnceEach'
    BY <1>1, <2>1, <2>2, SamePassed
  <2>4. Taken(Head(toAdd))'
    BY <1>8, <2>1 DEF Taken
  <2>5. NamesOf(call)' = ns /\ Len(toAdd') > 0
    BY <1>1, <1>6, <1>7, <2>1 DEF ns
  <2>6. ToCome'
    BY <1>1, <1>3, <2>1, <2>4, <2>5 DEF ToCome
  <2> QED
    BY <2>1, <2>3, <2>6 DEF Duplicates, Stopped
<1>9. CASE ~Taken(Head(toAdd))
  <2>1. pc' = "add" /\ toAdd' = Tail(toAdd)
    BY <1>1, <1>9 DEF AddName
  <2>2. Len(toAdd') = Len(ns) - (k + 1)
    <3>1. k + 1 \in 0..Len(ns) /\ k + 2 = (k + 1) + 1
      BY <1>2, <1>5
    <3> QED
      BY <1>2, <1>5, <2>1, <3>1, SubSeqLength
  <2>3. \A name : Taken(name)' <=> Taken(name) \/ name = Head(toAdd)
    <3>1. CASE Head(toAdd) = ""
      <4>1. anonymous' = {call} /\ nameMap' = nameMap
        BY <1>9, <3>1 DEF AddName
      <4> QED
        BY <3>1, <4>1 DEF Taken
    <3>2. CASE Head(toAdd) # ""
      <4>1. /\ anonymous' = anonymous
            /\ nameMap' = [m \in DOMAIN nameMap \cup {Head(toAdd)} |->
                             IF m = Head(toAdd) THEN call ELSE nameMap[m]]
        BY <1>9, <3>2 DEF AddName
      <4>2. DOMAIN nameMap' = DOMAIN nameMap \cup {Head(toAdd)}
        BY <4>1
      <4> QED
        BY <3>2, <4>1, <4>2 DEF Taken
    <3> QED
      BY <3>1, <3>2
  <2>4. \A c, i : Passed(c, i)' <=> Passed(c, i) \/ (c = call /\ i = k + 1)
    <3> SUFFICES ASSUME NEW c, NEW i
                 PROVE  Passed(c, i)' <=> Passed(c, i) \/ (c = call /\ i = k + 1)
      OBVIOUS
    <3>1. CASE c # call
      BY <1>1, <1>7, <3>1 DEF Passed
    <3>2. CASE c = call
      <4>1. Passed(c, i) <=> i \in DOMAIN ns /\ i <= Len(ns) - Len(toAdd)
        <5>1. call \in 1..call
          BY <1>1
        <5> QED
          BY <3>2, <5>1 DEF Passed, ns
      <4>2. Passed(c, i)' <=> i \in DOMAIN ns /\ i <= Len(ns) - Len(toAdd')
        <5>1. call \in 1..call /\ NamesOf(c)' = ns
          BY <1>1, <1>7, <3>2 DEF ns
        <5> QED
          BY <1>1, <3>2, <5>1 DEF Passed
      <4>3. i \in DOMAIN ns => (i <= k + 1 <=> i <= k \/ i = k + 1)
        BY <1>2
      <4>4. Len(ns) - Len(toAdd) = k /\ Len(ns) - Len(toAdd') = k + 1
        BY <1>2, <1>6, <2>2
      <4>5. k + 1 \in DOMAIN ns
        BY <1>2, <1>5
      <4> QED
        BY <3>2, <4>1, <4>2, <4>3, <4>4, <4>5
    <3> QED
      BY <3>1, <3>2
  <2>5. TakenIfPassed'
    <3> SUFFICES ASSUME NEW name
                 PROVE  Taken(name)' <=> (\E c, i : Passed(c, i)' /\ NamesOf(c)'[i] = name)
      BY DEF TakenIfPassed
    <3>1. Taken(name) <=> \E c, i : Passed(c, i) /\ NamesOf(c)[i] = name
      BY <1>1 DEF TakenIfPassed
    <3>2. NamesOf(call)[k + 1] = Head(toAdd)
      BY <1>5 DEF ns
    <3> QED
      BY <1>7, <2>3, <2>4, <3>1, <3>2
  <2>6. ~GivenBefore(call, k + 1)
    <3> SUFFICES ASSUME NEW d \in 1..call, NEW j \in DOMAIN NamesOf(d),
                        d = call => j < k + 1, NamesOf(d)[j] = NamesOf(call)[k + 1]
                 PROVE  FALSE
      BY DEF GivenBefore
    <3>1. d = call => j <= Len(NamesOf(d)) - Len(toAdd)
      <4>1. d = call => j \in 1..Len(ns) /\ NamesOf(d) = ns
        BY <1>2 DEF ns
      <4>2. k = Len(ns) - Len(toAdd)
        BY <1>2, <1>6
      <4> QED
        BY <4>1, <4>2
    <3>2. Passed(d, j)
      BY <3>1 DEF Passed
    <3>3. Taken(NamesOf(d)[j])
      BY <1>1, <3>2 DEF TakenIfPassed
    <3> QED
      BY <1>5, <1>9, <3>3 DEF ns
  <2>7. \A c, i : GivenBefore(c, i)' <=> GivenBefore(c, i)
    BY <1>7 DEF GivenBefore
  <2>8. OnceEach'
    BY <1>1, <2>4, <2>6, <2>7 DEF OnceEach
  <2>9. ToCome'
    <3>1. k + 1 \in 0..Len(ns) /\ (k + 1) + 1 = k + 2
      BY <1>2, <1>5
    <3>2. toAdd' = SubSeq(ns, (k + 1) + 1, Len(ns)) /\ NamesOf(call)' = ns
      BY <1>1, <1>5, <1>7, <2>1, <3>1 DEF ns
    <3> QED
      BY <1>1, <2>1, <3>1, <3>2 DEF ToCome
  <2> QED
    BY <2>1, <2>5, <2>8, <2>9 DEF Duplicates, Stopped
<1> QED
  BY <1>8, <1>9

LEMMA NextDuplicates == Inv /\ Duplicates /\ [Next]_vars => Duplicates'
<1> SUFFICES ASSUME Inv, Duplicates, [Next]_vars PROVE Duplicates'
  OBVIOUS
<1>1. CASE PushBack \/ Return
  <2>1. /\ pc \in {"add", "declare"} /\ toAdd = <<>> /\ toAdd' = toAdd /\ call' = call
        /\ chain' = chain /\ nameMap' = nameMap /\ anonymous' = anonymous
        /\ \/ pc' = "declare"
           \/ pc' = "done" /\ call = Len(chain)
    BY <1>1 DEF PushBack, Return, Duplicates, ToCome
  <2>2. TakenIfPassed /\ OnceEach
    BY <2>1 DEF Duplicates
  <2>3. \A c, i : Passed(c, i)' <=> Passed(c, i)
    BY <2>1 DEF Passed, NamesOf
  <2>4. TakenIfPassed' /\ OnceEach'
    BY <2>1, <2>2, <2>3, SamePassed
  <2>5. ToCome'
    BY <2>1 DEF ToCome
  <2> QED
    BY <2>1, <2>4, <2>5 DEF Duplicates, Stopped
<1>2. CASE UNCHANGED vars
  <2>1. /\ pc' = pc /\ toAdd' = toAdd /\ call' = call
        /\ chain' = chain /\ nameMap' = nameMap /\ anonymous' = anonymous
    BY <1>2 DEF vars
  <2>2. \A c, i : Passed(c, i)' <=> Passed(c, i)
    BY <2>1 DEF Passed, NamesOf
  <2>3. TakenIfPassed /\ OnceEach => TakenIfPassed' /\ OnceEach'
    BY <2>1, <2>2, SamePassed
  <2>4. ToCome => ToCome'
    BY <2>1 DEF ToCome, NamesOf, Taken
  <2>5. Stopped'
    BY <2>1 DEF Duplicates, Stopped
  <2> QED
    BY <2>1, <2>3, <2>4, <2>5 DEF Duplicates
<1> QED
  BY <1>1, <1>2, AddOneOptionDuplicates, AddNameDuplicates DEF Next, Ended

LEMMA DuplicatesInvariance == Spec => [](Inv /\ Duplicates)
BY InitInv, NextInv, InitDuplicates, NextDuplicates, PTL DEF Spec

LEMMA DuplicatesThrow == Inv /\ Duplicates => ThrowsForDuplicates
<1> SUFFICES ASSUME Inv, Duplicates PROVE ThrowsForDuplicates
  OBVIOUS
<1>1. ASSUME pc = "done", NEW c \in DOMAIN chain, NEW i \in DOMAIN NamesOf(c)
      PROVE  ~GivenBefore(c, i)
  <2>1. /\ toAdd = <<>> /\ call = Len(chain) /\ OnceEach /\ Shape
    BY <1>1 DEF Duplicates, ToCome, Inv
  <2>2. c \in 1..call /\ c \in 1..Len(chain)
    BY <2>1 DEF Shape
  <2>3. NamesOf(c) \in Seq(Name) /\ Len(toAdd) = 0
    BY <2>1, <2>2, NamesOfShape
  <2>4. i <= Len(NamesOf(c)) - Len(toAdd)
    BY <2>3
  <2>5. Passed(c, i)
    BY <2>2, <2>4 DEF Passed
  <2> QED
    BY <2>1, <2>5 DEF OnceEach
<1>2. ASSUME pc = "thrown"
      PROVE  LET at == Len(NamesOf(call)) - Len(toAdd) + 1
             IN  /\ GivenBefore(call, at)
                 /\ \A c \in 1..call : \A i \in DOMAIN NamesOf(c) :
                      (c = call => i < at) => ~GivenBefore(c, i)
  <2> DEFINE ns == NamesOf(call)
             at == Len(ns) - Len(toAdd) + 1
  <2>1. /\ ToCome /\ TakenIfPassed /\ OnceEach /\ Shape
        /\ call \in 1..Len(chain) /\ Len(toAdd) > 0 /\ Taken(Head(toAdd))
    BY <1>2 DEF Duplicates, ToCome, Inv
  <2>2. ns \in Seq(Name) /\ Len(ns) \in Nat /\ DOMAIN ns = 1..Len(ns)
    <3>1. ns \in Seq(Name)
      BY <2>1, NamesOfShape
    <3> QED
      BY <3>1
  <2>3. PICK k \in 0..Len(ns) : toAdd = SubSeq(ns, k + 1, Len(ns))
    BY <1>2, <2>1 DEF ToCome
  <2>4. toAdd # <<>>
    BY <2>1
  <2>5. k + 1 \in 1..Len(ns) /\ Head(toAdd) = ns[k + 1]
    BY <2>2, <2>3, <2>4, SubSeqHeadTail
  <2>6. Len(toAdd) = Len(ns) - k
    BY <2>2, <2>3, SubSeqLength
  <2>7. at = k + 1
    BY <2>2, <2>6
  <2> HIDE DEF at
  <2>8. GivenBefore(call, at)
    <3>1. PICK d, j : Passed(d, j) /\ NamesOf(d)[j] = ns[k + 1]
      BY <2>1, <2>5 DEF TakenIfPassed
    <3>2. d = call => j < at
      BY <2>2, <2>6, <2>7, <3>1 DEF Passed
    <3> QED
      BY <2>7, <3>1, <3>2 DEF GivenBefore, Passed
  <2>9. ASSUME NEW c \in 1..call, NEW i \in DOMAIN NamesOf(c), c = call => i < at
        PROVE  ~GivenBefore(c, i)
    <3>1. c = call => i <= Len(NamesOf(c)) - Len(toAdd)
      BY <2>2, <2>6, <2>7, <2>9
    <3>2. Passed(c, i)
      BY <3>1 DEF Passed
    <3> QED
      BY <2>1, <3>2 DEF OnceEach
  <2> QED
    BY <2>8, <2>9 DEF at
<1> QED
  BY <1>1, <1>2 DEF ThrowsForDuplicates

(***************************************************************************)
(* For all chains of declarations: AddOneOption throws if and only if a    *)
(* name is given twice, and at the first one that is (command.cpp:133-145).*)
(***************************************************************************)
THEOREM ThrowsForDuplicatesCorrect == Spec => []ThrowsForDuplicates
BY DuplicatesInvariance, DuplicatesThrow, PTL
-----------------------------------------------------------------------------
(***************************************************************************)
(* The two chains of the program.                                          *)
(***************************************************************************)
NoEmptyName == "" \notin DOMAIN nameMap

LEMMA Unnamed == Spec => []NoEmptyName
<1>1. Init => NoEmptyName
  BY DEF Init, NoEmptyName
<1>2. NoEmptyName /\ [Next]_vars => NoEmptyName'
  <2> SUFFICES ASSUME NoEmptyName, [Next]_vars PROVE NoEmptyName'
    OBVIOUS
  <2>1. CASE AddName
    <3>1. CASE nameMap' = nameMap
      BY <3>1 DEF NoEmptyName
    <3>2. CASE nameMap' # nameMap
      <4>1. /\ Head(toAdd) # ""
            /\ nameMap' = [n \in DOMAIN nameMap \cup {Head(toAdd)} |->
                             IF n = Head(toAdd) THEN call ELSE nameMap[n]]
        BY <2>1, <3>2 DEF AddName
      <4> QED
        BY <4>1 DEF NoEmptyName
    <3> QED
      BY <3>1, <3>2
  <2> QED
    BY <2>1 DEF Next, AddOneOption, PushBack, Return, Ended, vars, NoEmptyName
<1> QED
  BY <1>1, <1>2, PTL DEF Spec

\* The names of a declaration that has one.
LEMMA SingleName ==
  ASSUME NEW c, NEW name, NamesOf(c) = <<name>>
  PROVE  DOMAIN NamesOf(c) = {1} /\ NamesOf(c)[1] = name
<1>1. DOMAIN <<name>> = 1..1 /\ <<name>>[1] = name /\ 1..1 = {1}
  OBVIOUS
<1> QED
  BY <1>1

LEMMA BuiltinNames ==
  ASSUME chain = createBuiltinCommandGroup
  PROVE  /\ Len(chain) = 3
         /\ DOMAIN NamesOf(1) = {1, 2, 3}
         /\ NamesOf(1)[1] = "quit" /\ NamesOf(1)[2] = "exit" /\ NamesOf(1)[3] = "@q"
         /\ DOMAIN NamesOf(2) = {1} /\ NamesOf(2)[1] = "help"
         /\ DOMAIN NamesOf(3) = {1} /\ NamesOf(3)[1] = ""
<1>1. /\ Len(chain) = 3 /\ chain[1].names = <<"quit", "exit", "@q">>
      /\ chain[2].names = <<"help">> /\ chain[3].names = <<>>
  BY DEF createBuiltinCommandGroup, Declare
<1>2. Len(<<"quit", "exit", "@q">>) = 3 /\ Len(<<"help">>) = 1 /\ Len(<<>>) = 0
  OBVIOUS
<1>3. /\ NamesOf(1) = <<"quit", "exit", "@q">> /\ NamesOf(2) = <<"help">>
      /\ NamesOf(3) = <<"">>
  BY <1>1, <1>2 DEF NamesOf, Names
<1>4. /\ DOMAIN <<"quit", "exit", "@q">> = 1..3 /\ 1..3 = {1, 2, 3}
      /\ <<"quit", "exit", "@q">>[1] = "quit" /\ <<"quit", "exit", "@q">>[2] = "exit"
      /\ <<"quit", "exit", "@q">>[3] = "@q"
  OBVIOUS
<1>5. /\ DOMAIN NamesOf(1) = {1, 2, 3}
      /\ NamesOf(1)[1] = "quit" /\ NamesOf(1)[2] = "exit" /\ NamesOf(1)[3] = "@q"
  BY <1>3, <1>4
<1> QED
  BY <1>1, <1>3, <1>5, SingleName

LEMMA PsqlxxNames ==
  ASSUME chain = CreatePsqlxxCommandGroup
  PROVE  /\ Len(chain) = 5
         /\ \A c \in 1..5 : DOMAIN NamesOf(c) = {1}
         /\ NamesOf(1)[1] = "" /\ NamesOf(2)[1] = "@l" /\ NamesOf(3)[1] = "@du"
         /\ NamesOf(4)[1] = "@dn" /\ NamesOf(5)[1] = "@conninfo"
<1>1. /\ Len(chain) = 5 /\ chain[1].names = <<"">> /\ chain[2].names = <<"@l">>
      /\ chain[3].names = <<"@du">> /\ chain[4].names = <<"@dn">>
      /\ chain[5].names = <<"@conninfo">>
  BY DEF CreatePsqlxxCommandGroup, Declare
<1>2. /\ Len(<<"">>) = 1 /\ Len(<<"@l">>) = 1 /\ Len(<<"@du">>) = 1 /\ Len(<<"@dn">>) = 1
      /\ Len(<<"@conninfo">>) = 1 /\ Len(<<>>) = 0
  OBVIOUS
<1>3. /\ NamesOf(1) = <<"">> /\ NamesOf(2) = <<"@l">> /\ NamesOf(3) = <<"@du">>
      /\ NamesOf(4) = <<"@dn">> /\ NamesOf(5) = <<"@conninfo">>
  BY <1>1, <1>2 DEF NamesOf, Names
<1>4. \A c \in 1..5 : c \in {1, 2, 3, 4, 5}
  OBVIOUS
<1> QED
  BY <1>1, <1>3, <1>4, SingleName

\* The arguments of the declarations.
LEMMA Arguments ==
  /\ Len(<<>>) = 0 /\ ~Contains(<<>>, "...")
  /\ Len(<<"[GROUP]">>) = 1 /\ ~Contains(<<"[GROUP]">>, "...")
  /\ Len(<<"...">>) = 1 /\ Contains(<<"...">>, "...")
<1>1. Len(<<>>) = 0 /\ \A i \in 1..0 : FALSE
  OBVIOUS
<1>2. Len(<<"[GROUP]">>) = 1 /\ <<"[GROUP]">>[1] # "..." /\ \A i \in 1..1 : i = 1
  OBVIOUS
<1>3. Len(<<"...">>) = 1 /\ <<"...">>[1] = "..." /\ 1 \in 1..1
  OBVIOUS
<1>4. ~Contains(<<>>, "...")
  BY <1>1 DEF Contains
<1>5. ~Contains(<<"[GROUP]">>, "...")
  BY <1>2 DEF Contains
<1>6. Contains(<<"...">>, "...")
  BY <1>3 DEF Contains
<1> QED
  BY <1>1, <1>2, <1>3, <1>4, <1>5, <1>6

LEMMA NewCommands ==
  ASSUME NEW names, NEW action
  PROVE  /\ NewCommand(Declare(names, <<>>, action)) = Fixed(0, action)
         /\ NewCommand(Declare(names, <<"[GROUP]">>, action)) = Fixed(1, action)
         /\ NewCommand(Declare(names, <<"...">>, action)) = Variadic(action)
<1>1. \A arguments : NewCommand(Declare(names, arguments, action)) =
        [arguments |-> Len(arguments), variadic |-> Contains(arguments, "..."),
         action |-> action]
  BY DEF NewCommand, Declare
<1>2. /\ Contains(<<>>, "...") = FALSE /\ Contains(<<"[GROUP]">>, "...") = FALSE
      /\ Contains(<<"...">>, "...") = TRUE
  BY Arguments DEF Contains
<1> QED
  BY <1>1, <1>2, Arguments DEF Fixed, Variadic

\* No name is given twice.
LEMMA BuiltinOnce ==
  ASSUME chain = createBuiltinCommandGroup, NEW c \in 1..3, NEW i \in DOMAIN NamesOf(c)
  PROVE  ~GivenBefore(c, i)
<1> SUFFICES ASSUME NEW d \in 1..c, NEW j \in DOMAIN NamesOf(d), d = c => j < i,
                    NamesOf(d)[j] = NamesOf(c)[i]
             PROVE  FALSE
  BY DEF GivenBefore
<1>1. c \in {1, 2, 3} /\ d \in {1, 2, 3} /\ d <= c
  OBVIOUS
<1>2. /\ DOMAIN NamesOf(1) = {1, 2, 3}
      /\ NamesOf(1)[1] = "quit" /\ NamesOf(1)[2] = "exit" /\ NamesOf(1)[3] = "@q"
      /\ DOMAIN NamesOf(2) = {1} /\ NamesOf(2)[1] = "help"
      /\ DOMAIN NamesOf(3) = {1} /\ NamesOf(3)[1] = ""
  BY BuiltinNames
<1>3. /\ c = 1 => i \in {1, 2, 3}
      /\ c \in {2, 3} => i = 1
      /\ d = 1 => j \in {1, 2, 3}
      /\ d \in {2, 3} => j = 1
  BY <1>2
<1>4. c = d
  <2>1. CASE c = 1
    BY <1>1, <1>2, <1>3, <2>1
  <2>2. CASE c = 2
    BY <1>1, <1>2, <1>3, <2>2
  <2>3. CASE c = 3
    BY <1>1, <1>2, <1>3, <2>3
  <2> QED
    BY <1>1, <2>1, <2>2, <2>3
<1>5. i = j
  <2>1. CASE c = 1
    <3>1. i \in {1, 2, 3} /\ j \in {1, 2, 3} /\ NamesOf(1)[j] = NamesOf(1)[i]
      BY <1>3, <1>4, <2>1
    <3>2. CASE i = 1
      BY <1>2, <3>1, <3>2
    <3>3. CASE i = 2
      BY <1>2, <3>1, <3>3
    <3>4. CASE i = 3
      BY <1>2, <3>1, <3>4
    <3> QED
      BY <3>1, <3>2, <3>3, <3>4
  <2>2. CASE c # 1
    BY <1>1, <1>3, <1>4, <2>2
  <2> QED
    BY <2>1, <2>2
<1>6. j < i
  BY <1>4
<1>7. i \in {1, 2, 3}
  BY <1>1, <1>3
<1> QED
  BY <1>5, <1>6, <1>7

LEMMA PsqlxxOnce ==
  ASSUME chain = CreatePsqlxxCommandGroup, NEW c \in 1..5, NEW i \in DOMAIN NamesOf(c)
  PROVE  ~GivenBefore(c, i)
<1> SUFFICES ASSUME NEW d \in 1..c, NEW j \in DOMAIN NamesOf(d), d = c => j < i,
                    NamesOf(d)[j] = NamesOf(c)[i]
             PROVE  FALSE
  BY DEF GivenBefore
<1>1. c \in {1, 2, 3, 4, 5} /\ d \in {1, 2, 3, 4, 5}
  OBVIOUS
<1>2. /\ DOMAIN NamesOf(c) = {1} /\ DOMAIN NamesOf(d) = {1}
      /\ NamesOf(1)[1] = "" /\ NamesOf(2)[1] = "@l" /\ NamesOf(3)[1] = "@du"
      /\ NamesOf(4)[1] = "@dn" /\ NamesOf(5)[1] = "@conninfo"
  <2>1. d \in 1..5
    BY <1>1
  <2> QED
    BY <2>1, PsqlxxNames
<1>3. i = 1 /\ j = 1
  BY <1>2
<1>4. c = d
  <2>1. CASE c = 1
    BY <1>1, <1>2, <1>3, <2>1
  <2>2. CASE c = 2
    BY <1>1, <1>2, <1>3, <2>2
  <2>3. CASE c = 3
    BY <1>1, <1>2, <1>3, <2>3
  <2>4. CASE c = 4
    BY <1>1, <1>2, <1>3, <2>4
  <2>5. CASE c = 5
    BY <1>1, <1>2, <1>3, <2>5
  <2> QED
    BY <1>1, <2>1, <2>2, <2>3, <2>4, <2>5
<1>5. j < i
  BY <1>4
<1> QED
  BY <1>3, <1>5

\* How the patterns are met.
LEMMA Prefixed ==
  ASSUME NEW name, Len(Spelling(name)) \in Nat, Len(Spelling(name)) > 1,
         Spelling(name)[1] = "@",
         \A k \in 2..Len(Spelling(name)) : Spelling(name)[k] \in Letters
  PROVE  validName(name)
<1> DEFINE s == Spelling(name)
<1>1. /\ 1 + 0 < Len(s) /\ (1 + 1)..(Len(s) - 0) = 2..Len(s)
      /\ s[1] \in {"@"} /\ 0 # 1
  OBVIOUS
<1>2. 1 \in {0, 1} /\ 0 \in {0, 1}
  OBVIOUS
<1>3. Matches(s, {"@"}, Letters, {})
  BY <1>1, <1>2, Zenon DEF Matches
<1> QED
  BY <1>3, Zenon DEF validName

LEMMA Lettered ==
  ASSUME NEW name, Len(Spelling(name)) \in Nat, Len(Spelling(name)) > 0,
         \A k \in 1..Len(Spelling(name)) : Spelling(name)[k] \in Letters
  PROVE  validName(name)
<1> DEFINE s == Spelling(name)
<1>1. 0 + 0 < Len(s) /\ (0 + 1)..(Len(s) - 0) = 1..Len(s) /\ 0 # 1 /\ 0 \in {0, 1}
  OBVIOUS
<1>2. Matches(s, {"@"}, Letters, {})
  BY <1>1, Zenon DEF Matches
<1> QED
  BY <1>2, Zenon DEF validName

LEMMA Optional ==
  ASSUME NEW argument, Len(Spelling(argument)) \in Nat, Len(Spelling(argument)) > 2,
         Spelling(argument)[1] = "[", Spelling(argument)[Len(Spelling(argument))] = "]",
         \A k \in 2..Len(Spelling(argument)) - 1 : Spelling(argument)[k] \in Capitals
  PROVE  validArgument(argument)
<1>1. /\ 1 + 1 < Len(Spelling(argument))
      /\ (1 + 1)..(Len(Spelling(argument)) - 1) = 2..Len(Spelling(argument)) - 1
  OBVIOUS
<1> QED
  BY <1>1 DEF Matches, validArgument

\* The names and the arguments of the program are valid.
LEMMA ProgramNames ==
  \A name \in {"", "quit", "exit", "@q", "help", "@l", "@du", "@dn", "@conninfo"} :
    validName(name)
<1>1. validName("")
  BY DEF validName
<1>2. validName("quit")
  <2> DEFINE s == <<"q", "u", "i", "t">>
  <2>1. Spelling("quit") = s
    BY DEF Spelling
  <2>2. Len(s) = 4 /\ \A k \in 1..4 : s[k] \in Letters
    BY DEF Letters
  <2> HIDE DEF s
  <2>3. /\ Len(Spelling("quit")) = 4
        /\ \A k \in 1..Len(Spelling("quit")) : Spelling("quit")[k] \in Letters
    BY <2>1, <2>2, Zenon
  <2>4. Len(Spelling("quit")) \in Nat /\ Len(Spelling("quit")) > 0
    BY <2>3
  <2> QED
    BY <2>3, <2>4, Lettered, Zenon
<1>3. validName("exit")
  <2> DEFINE s == <<"e", "x", "i", "t">>
  <2>1. Spelling("exit") = s
    BY DEF Spelling
  <2>2. Len(s) = 4 /\ \A k \in 1..4 : s[k] \in Letters
    BY DEF Letters
  <2> HIDE DEF s
  <2>3. /\ Len(Spelling("exit")) = 4
        /\ \A k \in 1..Len(Spelling("exit")) : Spelling("exit")[k] \in Letters
    BY <2>1, <2>2, Zenon
  <2>4. Len(Spelling("exit")) \in Nat /\ Len(Spelling("exit")) > 0
    BY <2>3
  <2> QED
    BY <2>3, <2>4, Lettered, Zenon
<1>4. validName("@q")
  <2> DEFINE s == <<"@", "q">>
  <2>1. Spelling("@q") = s
    BY DEF Spelling
  <2>2. Len(s) = 2 /\ s[1] = "@" /\ \A k \in 2..2 : s[k] \in Letters
    BY DEF Letters
  <2> HIDE DEF s
  <2>3. /\ Len(Spelling("@q")) = 2 /\ Spelling("@q")[1] = "@"
        /\ \A k \in 2..Len(Spelling("@q")) : Spelling("@q")[k] \in Letters
    BY <2>1, <2>2, Zenon
  <2>4. Len(Spelling("@q")) \in Nat /\ Len(Spelling("@q")) > 1
    BY <2>3
  <2> QED
    BY <2>3, <2>4, Prefixed, Zenon
<1>5. validName("help")
  <2> DEFINE s == <<"h", "e", "l", "p">>
  <2>1. Spelling("help") = s
    BY DEF Spelling
  <2>2. Len(s) = 4 /\ \A k \in 1..4 : s[k] \in Letters
    BY DEF Letters
  <2> HIDE DEF s
  <2>3. /\ Len(Spelling("help")) = 4
        /\ \A k \in 1..Len(Spelling("help")) : Spelling("help")[k] \in Letters
    BY <2>1, <2>2, Zenon
  <2>4. Len(Spelling("help")) \in Nat /\ Len(Spelling("help")) > 0
    BY <2>3
  <2> QED
    BY <2>3, <2>4, Lettered, Zenon
<1>6. validName("@l")
  <2> DEFINE s == <<"@", "l">>
  <2>1. Spelling("@l") = s
    BY DEF Spelling
  <2>2. Len(s) = 2 /\ s[1] = "@" /\ \A k \in 2..2 : s[k] \in Letters
    BY DEF Letters
  <2> HIDE DEF s
  <2>3. /\ Len(Spelling("@l")) = 2 /\ Spelling("@l")[1] = "@"
        /\ \A k \in 2..Len(Spelling("@l")) : Spelling("@l")[k] \in Letters
    BY <2>1, <2>2, Zenon
  <2>4. Len(Spelling("@l")) \in Nat /\ Len(Spelling("@l")) > 1
    BY <2>3
  <2> QED
    BY <2>3, <2>4, Prefixed, Zenon
<1>7. validName("@du")
  <2> DEFINE s == <<"@", "d", "u">>
  <2>1. Spelling("@du") = s
    BY DEF Spelling
  <2>2. Len(s) = 3 /\ s[1] = "@" /\ \A k \in 2..3 : s[k] \in Letters
    BY DEF Letters
  <2> HIDE DEF s
  <2>3. /\ Len(Spelling("@du")) = 3 /\ Spelling("@du")[1] = "@"
        /\ \A k \in 2..Len(Spelling("@du")) : Spelling("@du")[k] \in Letters
    BY <2>1, <2>2, Zenon
  <2>4. Len(Spelling("@du")) \in Nat /\ Len(Spelling("@du")) > 1
    BY <2>3
  <2> QED
    BY <2>3, <2>4, Prefixed, Zenon
<1>8. validName("@dn")
  <2> DEFINE s == <<"@", "d", "n">>
  <2>1. Spelling("@dn") = s
    BY DEF Spelling
  <2>2. Len(s) = 3 /\ s[1] = "@" /\ \A k \in 2..3 : s[k] \in Letters
    BY DEF Letters
  <2> HIDE DEF s
  <2>3. /\ Len(Spelling("@dn")) = 3 /\ Spelling("@dn")[1] = "@"
        /\ \A k \in 2..Len(Spelling("@dn")) : Spelling("@dn")[k] \in Letters
    BY <2>1, <2>2, Zenon
  <2>4. Len(Spelling("@dn")) \in Nat /\ Len(Spelling("@dn")) > 1
    BY <2>3
  <2> QED
    BY <2>3, <2>4, Prefixed, Zenon
<1>9. validName("@conninfo")
  <2> DEFINE s == <<"@", "c", "o", "n", "n", "i", "n", "f", "o">>
  <2>1. Spelling("@conninfo") = s
    BY DEF Spelling
  <2>2. Len(s) = 9 /\ s[1] = "@" /\ \A k \in 2..9 : s[k] \in Letters
    BY DEF Letters
  <2> HIDE DEF s
  <2>3. /\ Len(Spelling("@conninfo")) = 9 /\ Spelling("@conninfo")[1] = "@"
        /\ \A k \in 2..Len(Spelling("@conninfo")) : Spelling("@conninfo")[k] \in Letters
    BY <2>1, <2>2, Zenon
  <2>4. Len(Spelling("@conninfo")) \in Nat /\ Len(Spelling("@conninfo")) > 1
    BY <2>3
  <2> QED
    BY <2>3, <2>4, Prefixed, Zenon
<1> QED
  BY <1>1, <1>2, <1>3, <1>4, <1>5, <1>6, <1>7, <1>8, <1>9

LEMMA ProgramArguments == validArgument("...") /\ validArgument("[GROUP]")
<1>1. validArgument("...")
  BY DEF validArgument
<1>2. validArgument("[GROUP]")
  <2> DEFINE s == <<"[", "G", "R", "O", "U", "P", "]">>
  <2>1. Spelling("[GROUP]") = s
    BY DEF Spelling
  <2>2. /\ Len(s) = 7 /\ s[1] = "[" /\ s[7] = "]"
        /\ \A k \in 2..7 - 1 : s[k] \in Capitals
    BY DEF Capitals
  <2> HIDE DEF s
  <2>3. /\ Len(Spelling("[GROUP]")) = 7 /\ Spelling("[GROUP]")[1] = "["
        /\ Spelling("[GROUP]")[Len(Spelling("[GROUP]"))] = "]"
        /\ \A k \in 2..Len(Spelling("[GROUP]")) - 1 : Spelling("[GROUP]")[k] \in Capitals
    BY <2>1, <2>2
  <2>4. Len(Spelling("[GROUP]")) \in Nat /\ Len(Spelling("[GROUP]")) > 2
    <3>1. \A len : len = 7 => len \in Nat /\ len > 2
      OBVIOUS
    <3> QED
      BY <2>3, <3>1, Zenon
  <2> QED
    BY <2>3, <2>4, Optional, Zenon
<1> QED
  BY <1>1, <1>2

LEMMA NoPlace == \A k \in DOMAIN <<>> : FALSE
OBVIOUS

\* A declaration with at most one argument.
LEMMA ValidDeclaration ==
  ASSUME NEW names, NEW arguments, NEW action, action # "",
         \A k \in DOMAIN names : validName(names[k]),
         arguments \in {<<>>, <<"[GROUP]">>, <<"...">>}
  PROVE  validCommand(Declare(names, arguments, action))
<1>1. \A k \in DOMAIN arguments : validArgument(arguments[k])
  <2>1. CASE arguments = <<>>
    BY <2>1, NoPlace, Zenon
  <2>2. CASE arguments = <<"[GROUP]">>
    <3>1. \A k \in DOMAIN arguments : arguments[k] = "[GROUP]"
      BY <2>2, OneElement, Zenon
    <3> QED
      BY <3>1, ProgramArguments
  <2>3. CASE arguments = <<"...">>
    <3>1. \A k \in DOMAIN arguments : arguments[k] = "..."
      BY <2>3, OneElement, Zenon
    <3> QED
      BY <3>1, ProgramArguments
  <2> QED
    BY <2>1, <2>2, <2>3
<1>2. LET d == Declare(names, arguments, action)
      IN  d.names = names /\ d.arguments = arguments /\ d.action = action
  BY DEF Declare
<1> QED
  BY <1>1, <1>2 DEF validCommand

LEMMA ProgramValid ==
  ASSUME NEW group \in {createBuiltinCommandGroup, CreatePsqlxxCommandGroup},
         NEW c \in 1..Len(group)
  PROVE  validCommand(group[c])
<1>1. /\ validCommand(Declare(<<"quit", "exit", "@q">>, <<>>, "quit"))
      /\ validCommand(Declare(<<"help">>, <<"[GROUP]">>, "help"))
      /\ validCommand(Declare(<<>>, <<"...">>, "el_parse"))
  <2>1. \A k \in DOMAIN <<"quit", "exit", "@q">> : validName(<<"quit", "exit", "@q">>[k])
    <3> DEFINE names == <<"quit", "exit", "@q">>
    <3>1. /\ DOMAIN names = 1..3 /\ names[1] = "quit" /\ names[2] = "exit" /\ names[3] = "@q"
      OBVIOUS
    <3>2. \A k \in 1..3 : k \in {1, 2, 3}
      OBVIOUS
    <3> HIDE DEF names
    <3>3. \A k \in DOMAIN names : names[k] \in {"quit", "exit", "@q"}
      BY <3>1, <3>2
    <3> QED
      BY <3>3, ProgramNames DEF names
  <2>2. \A k \in DOMAIN <<"help">> : validName(<<"help">>[k])
    <3>1. \A k \in DOMAIN <<"help">> : <<"help">>[k] = "help"
      BY OneElement, Zenon
    <3> QED
      BY <3>1, ProgramNames
  <2>3. \A k \in DOMAIN <<>> : validName(<<>>[k])
    OBVIOUS
  <2>4. "quit" # "" /\ "help" # "" /\ "el_parse" # ""
    OBVIOUS
  <2> QED
    BY <2>1, <2>2, <2>3, <2>4, ValidDeclaration
<1>2. /\ validCommand(Declare(<<"">>, <<"...">>, "sql"))
      /\ validCommand(Declare(<<"@l">>, <<>>, "query"))
      /\ validCommand(Declare(<<"@du">>, <<>>, "query"))
      /\ validCommand(Declare(<<"@dn">>, <<>>, "query"))
      /\ validCommand(Declare(<<"@conninfo">>, <<>>, "conninfo"))
  <2>1. \A name \in {"", "@l", "@du", "@dn", "@conninfo"} :
          \A k \in DOMAIN <<name>> : validName(<<name>>[k])
    <3> TAKE name \in {"", "@l", "@du", "@dn", "@conninfo"}
    <3>1. \A k \in DOMAIN <<name>> : <<name>>[k] = name
      BY OneElement, Zenon
    <3> QED
      BY <3>1, ProgramNames
  <2>2. "sql" # "" /\ "query" # "" /\ "conninfo" # ""
    OBVIOUS
  <2> QED
    BY <2>1, <2>2, ValidDeclaration
<1>3. CASE group = createBuiltinCommandGroup
  <2>1. c \in {1, 2, 3}
    BY <1>3 DEF createBuiltinCommandGroup
  <2> QED
    BY <1>1, <1>3, <2>1 DEF createBuiltinCommandGroup
<1>4. CASE group = CreatePsqlxxCommandGroup
  <2>1. /\ group[1] = Declare(<<"">>, <<"...">>, "sql")
        /\ group[2] = Declare(<<"@l">>, <<>>, "query")
        /\ group[3] = Declare(<<"@du">>, <<>>, "query")
        /\ group[4] = Declare(<<"@dn">>, <<>>, "query")
        /\ group[5] = Declare(<<"@conninfo">>, <<>>, "conninfo")
    BY <1>4 DEF CreatePsqlxxCommandGroup
  <2>2. Len(group) = 5
    BY <1>4 DEF CreatePsqlxxCommandGroup, Declare
  <2>3. c \in {1, 2, 3, 4, 5}
    BY <2>2
  <2> QED
    BY <1>2, <2>1, <2>3, Zenon
<1> QED
  BY <1>3, <1>4

LEMMA ProgramGoesOn ==
  ASSUME Inv, Duplicates, chain \in {createBuiltinCommandGroup, CreatePsqlxxCommandGroup}
  PROVE  pc \notin {"thrown", "aborted"}
<1>1. pc # "aborted"
  <2>1. SUFFICES ASSUME pc = "aborted" PROVE FALSE
    OBVIOUS
  <2>2. call \in 1..Len(chain) /\ ~validCommand(chain[call])
    BY <2>1 DEF Duplicates, Stopped, Inv, Shape
  <2> QED
    BY <2>2, ProgramValid
<1>2. pc # "thrown"
  <2>1. SUFFICES ASSUME pc = "thrown" PROVE FALSE
    OBVIOUS
  <2>2. call \in 1..Len(chain) /\ GivenBefore(call, Len(NamesOf(call)) - Len(toAdd) + 1)
    BY <2>1, DuplicatesThrow DEF ThrowsForDuplicates, Duplicates, ToCome
  <2>3. Len(NamesOf(call)) - Len(toAdd) + 1 \in DOMAIN NamesOf(call)
    <3>1. Shape /\ ToCome /\ Len(toAdd) > 0
      BY <2>1 DEF Duplicates, ToCome, Inv
    <3>2. NamesOf(call) \in Seq(Name)
      BY <2>2, <3>1, NamesOfShape
    <3>3. PICK k \in 0..Len(NamesOf(call)) :
            toAdd = SubSeq(NamesOf(call), k + 1, Len(NamesOf(call)))
      BY <2>1, <3>1 DEF ToCome
    <3>4. Len(toAdd) = Len(NamesOf(call)) - k
      BY <3>2, <3>3, SubSeqLength
    <3>5. Len(NamesOf(call)) \in Nat /\ DOMAIN NamesOf(call) = 1..Len(NamesOf(call))
      BY <3>2
    <3>6. Len(NamesOf(call)) - Len(toAdd) + 1 \in 1..Len(NamesOf(call))
      <4>1. \A len, left \in Nat : left = len - k /\ left > 0 => len - left + 1 \in 1..len
        OBVIOUS
      <4>2. Len(toAdd) \in Nat
        BY <3>4, <3>5
      <4> QED
        BY <3>1, <3>4, <3>5, <4>1, <4>2
    <3> QED
      BY <3>5, <3>6
  <2> QED
    BY <2>2, <2>3, BuiltinNames, BuiltinOnce, PsqlxxNames, PsqlxxOnce
<1> QED
  BY <1>1, <1>2

\* What a finished chain leaves, by the places of its names.
LEMMA ProgramTable ==
  ASSUME Inv, Duplicates, NoEmptyName, pc = "done"
  PROVE  /\ \A name : name \in DOMAIN nameMap <=>
              name # "" /\ \E c \in 1..Len(chain) : \E i \in DOMAIN NamesOf(c) : NamesOf(c)[i] = name
         /\ \A c \in 1..Len(chain) : \A i \in DOMAIN NamesOf(c) : Registered(c, NamesOf(c)[i])
<1>1. /\ call = Len(chain) /\ toAdd = <<>> /\ Shape /\ TakenIfPassed /\ AllRegistered
      /\ Settled = 1..call
  BY DEF Duplicates, ToCome, Inv, Going, Settled
<1>2. ASSUME NEW c, NEW i
      PROVE  Passed(c, i) <=> c \in 1..Len(chain) /\ i \in DOMAIN NamesOf(c)
  <2>1. c \in 1..Len(chain) => NamesOf(c) \in Seq(Name)
    BY <1>1, NamesOfShape
  <2>2. Len(toAdd) = 0
    BY <1>1
  <2>3. ASSUME c \in 1..Len(chain), i \in DOMAIN NamesOf(c)
        PROVE  i <= Len(NamesOf(c)) - Len(toAdd)
    <3>1. i \in 1..Len(NamesOf(c)) /\ Len(NamesOf(c)) \in Nat
      BY <2>1, <2>3
    <3> QED
      BY <2>2, <3>1
  <2> QED
    BY <1>1, <2>3 DEF Passed
<1>3. \A name : Taken(name) <=>
        \E c \in 1..Len(chain) : \E i \in DOMAIN NamesOf(c) : NamesOf(c)[i] = name
  BY <1>1, <1>2 DEF TakenIfPassed
<1> QED
  BY <1>1, <1>3 DEF Taken, AllRegistered, NoEmptyName

LEMMA BuiltinTable ==
  ASSUME Inv, Duplicates, NoEmptyName, pc = "done",
         chain = createBuiltinCommandGroup
  PROVE  AsTable(BuiltinGroup)
<1>1. /\ chain[1] = Declare(<<"quit", "exit", "@q">>, <<>>, "quit")
      /\ chain[2] = Declare(<<"help">>, <<"[GROUP]">>, "help")
      /\ chain[3] = Declare(<<>>, <<"...">>, "el_parse")
  BY DEF createBuiltinCommandGroup
<1>2. /\ Registered(1, "quit") /\ Registered(1, "exit") /\ Registered(1, "@q")
      /\ Registered(2, "help") /\ Registered(3, "")
  <2>1. \A c \in 1..3 : \A i \in DOMAIN NamesOf(c) : Registered(c, NamesOf(c)[i])
    BY ProgramTable, BuiltinNames
  <2>2. 1 \in 1..3 /\ 2 \in 1..3 /\ 3 \in 1..3
    OBVIOUS
  <2>3. \A c, i, name : c \in 1..3 /\ i \in DOMAIN NamesOf(c) /\ NamesOf(c)[i] = name
                       => Registered(c, name)
    BY <2>1, Zenon
  <2> QED
    BY <2>2, <2>3, BuiltinNames
<1>3. /\ anonymous = {3}
      /\ nameMap["quit"] = 1 /\ nameMap["exit"] = 1 /\ nameMap["@q"] = 1 /\ nameMap["help"] = 2
  BY <1>2 DEF Registered
<1>4. DOMAIN nameMap = {"quit", "exit", "@q", "help"}
  <2>1. ASSUME NEW name \in DOMAIN nameMap PROVE name \in {"quit", "exit", "@q", "help"}
    <3>1. PICK c \in 1..3 : \E i \in DOMAIN NamesOf(c) : NamesOf(c)[i] = name
      <4>1. \E c \in 1..Len(chain) : \E i \in DOMAIN NamesOf(c) : NamesOf(c)[i] = name
        BY <2>1, ProgramTable
      <4> QED
        BY <4>1, BuiltinNames
    <3>2. c \in {1, 2, 3}
      OBVIOUS
    <3>3. name # ""
      BY <2>1 DEF NoEmptyName
    <3> QED
      BY <3>1, <3>2, <3>3, BuiltinNames
  <2>2. {"quit", "exit", "@q", "help"} \subseteq DOMAIN nameMap
    BY <1>2 DEF Registered
  <2> QED
    BY <2>1, <2>2
<1>5. /\ NewCommand(chain[1]) = Fixed(0, "quit")
      /\ NewCommand(chain[2]) = Fixed(1, "help")
      /\ NewCommand(chain[3]) = Variadic("el_parse")
  BY <1>1, NewCommands, Zenon
<1>6. {NewCommand(chain[c]) : c \in anonymous} = {Variadic("el_parse")}
  BY <1>3, <1>5
<1>7. \A name \in DOMAIN nameMap : NewCommand(chain[nameMap[name]]) = BuiltinGroup.named[name]
  BY <1>3, <1>4, <1>5 DEF BuiltinGroup
<1>8. DOMAIN BuiltinGroup.named = DOMAIN nameMap /\ BuiltinGroup.anonymous = {Variadic("el_parse")}
  BY <1>4 DEF BuiltinGroup
<1> QED
  BY <1>6, <1>7, <1>8 DEF AsTable

LEMMA PsqlxxTable ==
  ASSUME Inv, Duplicates, NoEmptyName, pc = "done",
         chain = CreatePsqlxxCommandGroup
  PROVE  AsTable(PsqlxxGroup)
<1>1. /\ chain[1] = Declare(<<"">>, <<"...">>, "sql")
      /\ chain[2] = Declare(<<"@l">>, <<>>, "query")
      /\ chain[3] = Declare(<<"@du">>, <<>>, "query")
      /\ chain[4] = Declare(<<"@dn">>, <<>>, "query")
      /\ chain[5] = Declare(<<"@conninfo">>, <<>>, "conninfo")
  BY DEF CreatePsqlxxCommandGroup
<1>2. /\ Registered(1, "") /\ Registered(2, "@l") /\ Registered(3, "@du")
      /\ Registered(4, "@dn") /\ Registered(5, "@conninfo")
  <2>1. \A c \in 1..5 : \A i \in DOMAIN NamesOf(c) : Registered(c, NamesOf(c)[i])
    BY ProgramTable, PsqlxxNames
  <2>2. 1 \in 1..5 /\ 2 \in 1..5 /\ 3 \in 1..5 /\ 4 \in 1..5 /\ 5 \in 1..5
    OBVIOUS
  <2>3. \A c, i, name : c \in 1..5 /\ i \in DOMAIN NamesOf(c) /\ NamesOf(c)[i] = name
                       => Registered(c, name)
    BY <2>1, Zenon
  <2> QED
    BY <2>2, <2>3, PsqlxxNames
<1>3. /\ anonymous = {1}
      /\ nameMap["@l"] = 2 /\ nameMap["@du"] = 3 /\ nameMap["@dn"] = 4
      /\ nameMap["@conninfo"] = 5
  BY <1>2 DEF Registered
<1>4. DOMAIN nameMap = {"@l", "@du", "@dn", "@conninfo"}
  <2>1. ASSUME NEW name \in DOMAIN nameMap PROVE name \in {"@l", "@du", "@dn", "@conninfo"}
    <3>1. PICK c \in 1..5 : \E i \in DOMAIN NamesOf(c) : NamesOf(c)[i] = name
      <4>1. \E c \in 1..Len(chain) : \E i \in DOMAIN NamesOf(c) : NamesOf(c)[i] = name
        BY <2>1, ProgramTable
      <4> QED
        BY <4>1, PsqlxxNames
    <3>2. c \in {1, 2, 3, 4, 5}
      OBVIOUS
    <3>3. name # ""
      BY <2>1 DEF NoEmptyName
    <3> QED
      BY <3>1, <3>2, <3>3, PsqlxxNames
  <2>2. {"@l", "@du", "@dn", "@conninfo"} \subseteq DOMAIN nameMap
    BY <1>2 DEF Registered
  <2> QED
    BY <2>1, <2>2
<1>5. /\ NewCommand(chain[1]) = Variadic("sql")
      /\ \A c \in {2, 3, 4} : NewCommand(chain[c]) = Fixed(0, "query")
      /\ NewCommand(chain[5]) = Fixed(0, "conninfo")
  <2>1. NewCommand(chain[1]) = Variadic("sql") /\ NewCommand(chain[5]) = Fixed(0, "conninfo")
    BY <1>1, NewCommands, Zenon
  <2>2. NewCommand(chain[2]) = Fixed(0, "query")
    BY <1>1, NewCommands, Zenon
  <2>3. NewCommand(chain[3]) = Fixed(0, "query")
    BY <1>1, NewCommands, Zenon
  <2>4. NewCommand(chain[4]) = Fixed(0, "query")
    BY <1>1, NewCommands, Zenon
  <2> QED
    BY <2>1, <2>2, <2>3, <2>4, Zenon
<1>6. {NewCommand(chain[c]) : c \in anonymous} = {Variadic("sql")}
  BY <1>3, <1>5
<1>7. \A name \in DOMAIN nameMap : NewCommand(chain[nameMap[name]]) = PsqlxxGroup.named[name]
  BY <1>3, <1>4, <1>5 DEF PsqlxxGroup
<1>8. DOMAIN PsqlxxGroup.named = DOMAIN nameMap /\ PsqlxxGroup.anonymous = {Variadic("sql")}
  BY <1>4 DEF PsqlxxGroup
<1> QED
  BY <1>6, <1>7, <1>8 DEF AsTable

(***************************************************************************)
(* Whatever other chains there are: those of the program are gone through  *)
(* without an exception or a failed assert, since their names, arguments   *)
(* and actions are valid and no name comes twice, and leave the tables by  *)
(* which Command dispatches (cli.cpp:61-79, db.cpp:311-335).               *)
(***************************************************************************)
THEOREM GroupsAsDispatchedCorrect == Spec => []GroupsAsDispatched
<1>1. Inv /\ Duplicates /\ NoEmptyName => GroupsAsDispatched
  BY ProgramGoesOn, BuiltinTable, PsqlxxTable DEF GroupsAsDispatched
<1> QED
  BY <1>1, DuplicatesInvariance, Unnamed, PTL
=============================================================================
