------------------------------ MODULE Folding ------------------------------
(***************************************************************************)
(* Lemmas about what the folds of the models range over: natural numbers,  *)
(* of which every set has a smallest one, and the sets 1..k that a fold of *)
(* a sequence takes its elements from, the last one first.                 *)
(***************************************************************************)
EXTENDS Integers, SequencesExt, WellFoundedInduction, TLAPS

Less == {pair \in Nat \X Nat : pair[1] < pair[2]}

LEMMA LessWellFounded == IsWellFoundedOn(Less, Nat)
BY NatLessThanWellFounded DEF OpToRel, Less

(***************************************************************************)
(* Induction: what fails for some number fails for a smallest one.         *)
(***************************************************************************)
LEMMA SmallestNumber ==
  ASSUME NEW T, T \subseteq Nat, T # {}
  PROVE  \E x \in T : \A y \in T : x <= y
<1>1. PICK x \in T : \A y \in T : ~ (<<y, x>> \in Less)
  BY LessWellFounded, WFMin, Zenon
<1>2. \A y \in T : ~(y < x)
  BY <1>1 DEF Less
<1> QED
  BY <1>2

\* The last element of a prefix of the positions.
LEMMA MaxOfRange ==
  ASSUME NEW k \in Nat, k # 0
  PROVE  1..k # {} /\ Max(1..k) = k /\ (1..k) \ {k} = 1..(k - 1)
<1>1. \A x \in 1..k : (\A y \in 1..k : x >= y) <=> x = k
  OBVIOUS
<1>2. Max(1..k) = k
  BY <1>1 DEF Max
<1> QED
  BY <1>2

\* Every bounded set of numbers has a largest one.
LEMMA MaxOfBounded ==
  ASSUME NEW s, s \subseteq Nat, s # {}, NEW k \in Nat, \A y \in s : y <= k
  PROVE  Max(s) \in s /\ \A y \in s : y <= Max(s)
<1> DEFINE T == {b \in Nat : \A y \in s : y <= b}
<1>1. k \in T /\ T \subseteq Nat
  OBVIOUS
<1>2. PICK b \in T : \A c \in T : b <= c
  BY <1>1, SmallestNumber
<1>3. b \in s
  <2>1. SUFFICES ASSUME b \notin s PROVE FALSE
    OBVIOUS
  <2>2. PICK y \in s : y \in Nat
    OBVIOUS
  <2>3. b - 1 \in Nat /\ \A z \in s : z <= b - 1
    BY <2>1, <2>2
  <2>4. b - 1 \in T
    BY <2>3
  <2> QED
    BY <1>2, <2>4
<1>4. \E x \in s : \A y \in s : x >= y
  BY <1>3
<1>5. Max(s) \in s /\ \A y \in s : Max(s) >= y
  BY <1>4 DEF Max
<1> QED
  BY <1>5

\* Every set of positions has a last one.
LEMMA MaxOfSet ==
  ASSUME NEW k \in Nat, NEW s \in SUBSET (1..k), s # {}
  PROVE  Max(s) \in s /\ \A y \in s : y <= Max(s)
<1>1. s \subseteq Nat /\ \A y \in s : y <= k
  OBVIOUS
<1> QED
  BY <1>1, MaxOfBounded

(***************************************************************************)
(* A fold is a function of the sets of positions, defined by recursion on  *)
(* their last elements: it exists.  The steps of the fold are a function   *)
(* of the position and of what was folded before.                          *)
(***************************************************************************)
FoldOf(g, k, base, steps) ==
  \A s \in SUBSET (1..k) :
    g[s] = IF s = {} THEN base ELSE steps[Max(s)][g[s \ {Max(s)}]]

LEMMA FoldStep ==
  ASSUME NEW len \in Nat, NEW V, NEW base \in V, NEW steps \in [1..len -> [V -> V]],
         NEW m \in 1..len, NEW g \in [SUBSET (1..(m - 1)) -> V],
         FoldOf(g, m - 1, base, steps)
  PROVE  \E h \in [SUBSET (1..m) -> V] : FoldOf(h, m, base, steps)
<1> DEFINE h == [s \in SUBSET (1..m) |->
                   IF m \in s THEN steps[m][g[s \ {m}]] ELSE g[s]]
<1>1. \A s \in SUBSET (1..m) : s \ {m} \in SUBSET (1..(m - 1))
  OBVIOUS
<1>2. \A s \in SUBSET (1..m) : m \notin s => s \in SUBSET (1..(m - 1))
  OBVIOUS
<1>3. h \in [SUBSET (1..m) -> V]
  <2> SUFFICES ASSUME NEW s \in SUBSET (1..m)
               PROVE  (IF m \in s THEN steps[m][g[s \ {m}]] ELSE g[s]) \in V
    OBVIOUS
  <2>1. steps[m] \in [V -> V]
    OBVIOUS
  <2> QED
    BY <1>1, <1>2, <2>1
<1>4. ASSUME NEW s \in SUBSET (1..m)
      PROVE  h[s] = IF s = {} THEN base ELSE steps[Max(s)][h[s \ {Max(s)}]]
  <2>1. CASE m \in s
    <3>1. Max(s) = m
      <4>1. s # {} /\ m \in Nat
        BY <2>1
      <4>2. Max(s) \in s /\ \A y \in s : y <= Max(s)
        BY <4>1, MaxOfSet
      <4>3. Max(s) \in 1..m /\ m <= Max(s)
        BY <2>1, <4>2
      <4> QED
        BY <4>3
    <3>2. h[s] = steps[m][g[s \ {m}]] /\ h[s \ {m}] = g[s \ {m}]
      BY <1>1, <2>1
    <3> QED
      BY <2>1, <3>1, <3>2
  <2>2. CASE m \notin s /\ s # {}
    <3>1. s \in SUBSET (1..(m - 1)) /\ s \ {Max(s)} \in SUBSET (1..(m - 1))
      BY <1>2, <2>2
    <3>2. h[s] = g[s] /\ h[s \ {Max(s)}] = g[s \ {Max(s)}]
      BY <2>2, <3>1
    <3>3. g[s] = steps[Max(s)][g[s \ {Max(s)}]]
      BY <2>2, <3>1 DEF FoldOf
    <3> QED
      BY <2>2, <3>2, <3>3
  <2>3. CASE s = {}
    <3>1. h[s] = g[s] /\ s \in SUBSET (1..(m - 1))
      BY <2>3
    <3> QED
      BY <2>3, <3>1 DEF FoldOf
  <2> QED
    BY <2>1, <2>2, <2>3
<1>5. FoldOf(h, m, base, steps)
  BY <1>4 DEF FoldOf
<1> QED
  BY <1>3, <1>5

LEMMA FoldExists ==
  ASSUME NEW len \in Nat, NEW V, NEW base \in V, NEW steps \in [1..len -> [V -> V]]
  PROVE  \E h \in [SUBSET (1..len) -> V] : FoldOf(h, len, base, steps)
<1> DEFINE Exists(m) == \E h \in [SUBSET (1..m) -> V] : FoldOf(h, m, base, steps)
           T == {m \in 0..len : ~Exists(m)}
<1>1. Exists(0)
  <2> DEFINE h == [s \in SUBSET (1..0) |-> base]
  <2>1. \A s \in SUBSET (1..0) : s = {}
    OBVIOUS
  <2>2. h \in [SUBSET (1..0) -> V] /\ FoldOf(h, 0, base, steps)
    BY <2>1 DEF FoldOf
  <2> QED
    BY <2>2
<1>2. \A m \in 1..len : Exists(m - 1) => Exists(m)
  BY FoldStep
<1>3. SUFFICES ASSUME T # {} PROVE FALSE
  <2>1. len \in 0..len
    OBVIOUS
  <2>2. T = {} => Exists(len)
    BY <2>1
  <2> QED
    BY <2>2
<1>4. PICK m \in T : \A y \in T : m <= y
  <2>1. T \subseteq Nat
    OBVIOUS
  <2> HIDE DEF T
  <2> QED
    BY <1>3, <2>1, SmallestNumber
<1> HIDE DEF Exists
<1>5. m \in 1..len /\ m - 1 \in 0..len /\ m - 1 \notin T
  BY <1>1, <1>4
<1>6. Exists(m - 1)
  BY <1>5
<1>7. Exists(m)
  BY <1>2, <1>5, <1>6
<1> QED
  BY <1>4, <1>7
\* What is defined step by step from 0 to len exists, too.
RecursionOf(r, len, base, steps) ==
  r[0] = base /\ \A k \in 1..len : r[k] = steps[k][r[k - 1]]

LEMMA RecursionExists ==
  ASSUME NEW len \in Nat, NEW V, NEW base \in V, NEW steps \in [1..len -> [V -> V]]
  PROVE  \E r \in [0..len -> V] : RecursionOf(r, len, base, steps)
<1>1. PICK h \in [SUBSET (1..len) -> V] : FoldOf(h, len, base, steps)
  BY FoldExists
<1> DEFINE r == [k \in 0..len |-> h[1..k]]
<1>2. \A k \in 0..len : 1..k \in SUBSET (1..len) /\ h[1..k] \in V
  OBVIOUS
<1>3. r \in [0..len -> V]
  BY <1>2
<1>4. r[0] = base
  <2>1. 1..0 = {} /\ 0 \in 0..len
    OBVIOUS
  <2>2. h[{}] = base
    BY <1>1 DEF FoldOf
  <2> QED
    BY <2>1, <2>2
<1>5. ASSUME NEW k \in 1..len PROVE r[k] = steps[k][r[k - 1]]
  <2>1. k \in 0..len /\ k - 1 \in 0..len /\ k \in Nat /\ k # 0
    OBVIOUS
  <2>2. 1..k # {} /\ Max(1..k) = k /\ (1..k) \ {k} = 1..(k - 1)
    BY <2>1, MaxOfRange
  <2>3. 1..k \in SUBSET (1..len)
    BY <1>2, <2>1
  <2>4. h[1..k] = steps[Max(1..k)][h[(1..k) \ {Max(1..k)}]]
    BY <1>1, <2>2, <2>3, Zenon DEF FoldOf
  <2> QED
    BY <2>1, <2>2, <2>4
<1> QED
  BY <1>3, <1>4, <1>5 DEF RecursionOf
=============================================================================
