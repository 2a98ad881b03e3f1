------------------------ MODULE CommandStream_proofs ------------------------
(***************************************************************************)
(* The order promised by CommandStream, from an inductive invariant: lines *)
(* not handled yet are newer than every line handled, and the lines being  *)
(* gathered are newer than the ones being run.                             *)
(***************************************************************************)
EXTENDS CommandStream, TLAPS

TypeOK ==
  /\ read \in Nat /\ cut \in Nat
  /\ gathering \in SUBSET Nat /\ running \in SUBSET Nat
  /\ handled \in Seq(SUBSET Nat)

Older ==
  /\ \A i \in gathering \cup running : i <= read
  /\ \A k \in 1..Len(handled) : \A i \in handled[k] : i <= read
  /\ \A k \in 1..Len(handled) : \A i \in handled[k] :
       \A j \in gathering \cup running : i < j
  /\ \A i \in running, j \in gathering : i < j

Inv == TypeOK /\ Older /\ InOrder

\* The newest line is newer than every line handled.
LEMMA NewestIsNewer ==
  ASSUME Inv, NEW j \in Newest, NEW k \in 1..Len(handled), NEW i \in handled[k]
  PROVE  i < j
<1>1. j = read /\ j \notin handled[k]
  BY DEF Newest
<1>2. i <= read /\ i \in Nat /\ read \in Nat
  BY DEF Inv, TypeOK, Older
<1> QED
  BY <1>1, <1>2

\* It is at most read, as the ones before it, and newer than the ones being run.
LEMMA NewestIsLast ==
  ASSUME Inv, NEW j, j \in gathering \/ j \in Newest
  PROVE  j \in Nat /\ j <= read /\ \A i \in running : i < j
<1>1. CASE j \in gathering
  <2>1. j \in gathering \cup running /\ j \in Nat
    BY <1>1 DEF Inv, TypeOK
  <2> QED
    BY <1>1, <2>1 DEF Inv, Older
<1>2. CASE j \in Newest
  <2>1. j = read /\ j \notin running /\ read \in Nat
    BY <1>2 DEF Newest, Inv, TypeOK
  <2>2. \A i \in running : i \in Nat /\ i <= read
    BY DEF Inv, TypeOK, Older
  <2> QED
    BY <2>1, <2>2
<1> QED
  BY <1>1, <1>2

LEMMA InitInv == Init => Inv
<1> SUFFICES ASSUME Init PROVE Inv
  OBVIOUS
<1>1. handled \in Seq(SUBSET Nat) /\ Len(handled) = 0
  BY DEF Init
<1> QED
  BY <1>1 DEF Init, Inv, TypeOK, Older, InOrder

LEMMA NextInv == Inv /\ [Next]_vars => Inv'
<1> SUFFICES ASSUME Inv, [Next]_vars PROVE Inv'
  OBVIOUS
<1>1. CASE Read
  BY <1>1 DEF Read, Inv, TypeOK, Older, InOrder
<1>2. CASE Gather
  <2>1. \A j \in gathering' : j \in gathering \/ j \in Newest
    BY <1>2 DEF Gather
  <2>2. Newest \subseteq {read}
    BY DEF Newest
  <2>3. TypeOK'
    BY <1>2, <2>1, <2>2 DEF Gather, Interruption, Inv, TypeOK
  <2>4. \A k \in 1..Len(handled) : \A i \in handled[k] : \A j \in gathering' : i < j
    BY <2>1, NewestIsNewer DEF Inv, Older
  <2>5. \A i \in running, j \in gathering' : i < j
    BY <2>1, NewestIsLast
  <2>6. \A j \in gathering' : j <= read
    BY <2>1, NewestIsLast
  <2>7. read' = read /\ running' = running /\ handled' = handled
    BY <1>2 DEF Gather
  <2>8. Older'
    BY <2>4, <2>5, <2>6, <2>7 DEF Inv, Older
  <2> QED
    BY <2>3, <2>7, <2>8 DEF Inv, InOrder
<1>3. CASE Start
  <2>1. \A j \in running' : j \in gathering \/ j \in Newest
    BY <1>3 DEF Start
  <2>2. Newest \subseteq {read}
    BY DEF Newest
  <2>3. TypeOK'
    BY <1>3, <2>1, <2>2 DEF Start, Interruption, Inv, TypeOK
  <2>4. \A k \in 1..Len(handled) : \A i \in handled[k] : \A j \in running' : i < j
    BY <2>1, NewestIsNewer DEF Inv, Older
  <2>5. \A j \in running' : j <= read
    BY <2>1, NewestIsLast
  <2>6. read' = read /\ gathering' = {} /\ handled' = handled
    BY <1>3 DEF Start
  <2>7. Older'
    BY <2>4, <2>5, <2>6 DEF Inv, Older
  <2> QED
    BY <2>3, <2>6, <2>7 DEF Inv, InOrder
<1>4. CASE Finish
  <2>1. /\ handled' \in Seq(SUBSET Nat) /\ Len(handled') = Len(handled) + 1
        /\ Len(handled) \in Nat
        /\ \A k \in 1..Len(handled) : handled'[k] = handled[k]
        /\ handled'[Len(handled) + 1] = running
    BY <1>4 DEF Finish, Inv, TypeOK
  <2>2. TypeOK'
    BY <1>4, <2>1 DEF Finish, Inv, TypeOK
  <2>3. \A k \in 1..Len(handled') : k \in 1..Len(handled) \/ handled'[k] = running
    BY <2>1
  <2>4. \A k \in 1..Len(handled') : \A i \in handled'[k] : i <= read
    BY <2>1, <2>3 DEF Inv, Older
  <2>5. Older'
    <3>1. gathering' = gathering /\ running' = {} /\ read' = read
      BY <1>4 DEF Finish
    <3>2. SUFFICES ASSUME NEW k \in 1..Len(handled'), NEW i \in handled'[k],
                          NEW j \in gathering
                   PROVE  i < j
      BY <2>4, <3>1 DEF Inv, Older
    <3>3. CASE k \in 1..Len(handled)
      BY <2>1, <3>2, <3>3 DEF Inv, Older
    <3>4. CASE handled'[k] = running
      BY <3>2, <3>4 DEF Inv, Older
    <3> QED
      BY <2>3, <3>3, <3>4
  <2>6. InOrder'
    <3>1. SUFFICES ASSUME NEW j \in 1..Len(handled'), NEW k \in 1..Len(handled'), j < k,
                          NEW a \in handled'[j], NEW b \in handled'[k]
                   PROVE  a < b
      BY DEF InOrder
    <3>2. j \in 1..Len(handled)
      BY <2>1, <3>1
    <3>3. CASE k \in 1..Len(handled)
      BY <2>1, <3>1, <3>2, <3>3 DEF Inv, InOrder
    <3>4. CASE handled'[k] = running
      BY <2>1, <3>2, <3>4 DEF Inv, Older
    <3> QED
      BY <2>3, <3>3, <3>4
  <2> QED
    BY <2>2, <2>5, <2>6 DEF Inv
<1>5. CASE UNCHANGED vars
  BY <1>5 DEF vars, Inv, TypeOK, Older, InOrder
<1> QED
  BY <1>1, <1>2, <1>3, <1>4, <1>5 DEF Next

(***************************************************************************)
(* Every behaviour of the command stream handles lines in the order they   *)
(* were typed and none of them twice.                                      *)
(***************************************************************************)
THEOREM StreamInOrder == Spec => []InOrder
<1>1. Inv => InOrder
  BY DEF Inv
<1> QED
  BY <1>1, InitInv, NextInv, PTL DEF Spec

(***************************************************************************)
(* Every behaviour of the command stream runs its statements in the order  *)
(* they were typed.                                                        *)
(***************************************************************************)
THEOREM StreamRunsNewest == Spec => []RunsNewest
<1>1. Inv => RunsNewest
  BY DEF Inv, Older, RunsNewest
<1> QED
  BY <1>1, InitInv, NextInv, PTL DEF Spec
=============================================================================
