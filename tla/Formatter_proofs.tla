-------------------------- MODULE Formatter_proofs --------------------------
(***************************************************************************)
(* Proofs about Formatter, for tables of any size: where the cells of a    *)
(* line begin, which only the widths of the columns decide, so that a line *)
(* can be cut into its cells where the bar has its crosses.                *)
(***************************************************************************)
EXTENDS Formatter, FiniteSetTheorems, SequenceTheorems, Folding, TLAPS

\* Sums of widths.
LEMMA SumsExist ==
  ASSUME NEW n \in Nat, NEW w \in [1..n -> Nat]
  PROVE  \E o \in [0..n -> Nat] : o[0] = 0 /\ \A i \in 1..n : o[i] = o[i - 1] + w[i] + 1
<1> DEFINE steps == [i \in 1..n |-> [v \in Nat |-> v + w[i] + 1]]
<1>1. steps \in [1..n -> [Nat -> Nat]]
  <2>1. \A i \in 1..n : \A v \in Nat : v + w[i] + 1 \in Nat
    OBVIOUS
  <2> QED
    BY <2>1
<1>2. \A i \in 1..n : \A v \in Nat : steps[i][v] = v + w[i] + 1
  OBVIOUS
<1> HIDE DEF steps
<1>3. PICK o \in [0..n -> Nat] : RecursionOf(o, n, 0, steps)
  <2>1. 0 \in Nat /\ n \in Nat
    OBVIOUS
  <2> QED
    BY <1>1, <2>1, RecursionExists
<1>4. ASSUME NEW i \in 1..n PROVE o[i] = o[i - 1] + w[i] + 1
  <2>1. o[i - 1] \in Nat
    OBVIOUS
  <2> QED
    BY <1>2, <1>3, <2>1 DEF RecursionOf
<1> QED
  BY <1>3, <1>4 DEF RecursionOf

\* Where the cells begin, from the widths of the columns.
Begins(o, n, w) ==
  o \in [0..n -> Nat] /\ o[0] = 0 /\ \A i \in 1..n : o[i] = o[i - 1] + w[i] + 1

LEMMA BeginsRise ==
  ASSUME NEW n \in Nat, NEW w \in [1..n -> Nat], NEW o, Begins(o, n, w)
  PROVE  \A i, j \in 0..n : i < j => o[i] < o[j]
<1> SUFFICES ASSUME NEW i \in 0..n
             PROVE  \A j \in 0..n : i < j => o[i] < o[j]
  OBVIOUS
<1> DEFINE T == {j \in 0..n : i < j /\ ~(o[i] < o[j])}
<1>1. SUFFICES ASSUME T # {} PROVE FALSE
  OBVIOUS
<1>2. PICK j \in T : \A k \in T : j <= k
  <2>1. T \subseteq Nat
    OBVIOUS
  <2> HIDE DEF T
  <2> QED
    BY <1>1, <2>1, SmallestNumber
<1>3. j \in 1..n /\ j - 1 \in 0..n /\ ~(j <= j - 1) /\ i < j
  OBVIOUS
<1>4. j - 1 \notin T
  <2> HIDE DEF T
  <2> QED
    BY <1>2, <1>3
<1>5. i = j - 1 \/ o[i] < o[j - 1]
  <2>1. i = j - 1 \/ i < j - 1
    BY <1>3
  <2> QED
    BY <1>3, <1>4, <2>1
<1>6. o[j] = o[j - 1] + w[j] + 1 /\ w[j] \in Nat /\ o[j - 1] \in Nat /\ o[i] \in Nat
  BY <1>3 DEF Begins
<1>7. ~(o[i] < o[j])
  OBVIOUS
<1> HIDE DEF T
<1> QED
  BY <1>5, <1>6, <1>7

\* Every character of a line lies in a cell or is a separator.
LEMMA CellOf ==
  ASSUME NEW n \in Nat, NEW w \in [1..n -> Nat], NEW o, Begins(o, n, w),
         NEW k \in 1..o[n]
  PROVE  \E i \in 1..n : o[i - 1] < k /\ k <= o[i]
<1> DEFINE T == {i \in 0..n : k <= o[i]}
<1>1. n \in T /\ T \subseteq Nat
  BY DEF Begins
<1> HIDE DEF T
<1>2. PICK i \in T : \A j \in T : i <= j
  BY <1>1, SmallestNumber
<1>3. i \in 0..n /\ k <= o[i]
  BY DEF T
<1>4. i # 0
  BY <1>3 DEF Begins
<1>5. i \in 1..n /\ i - 1 \in 0..n /\ ~(i <= i - 1)
  BY <1>3, <1>4 DEF RecursionOf
<1>6. ~(k <= o[i - 1])
  BY <1>2, <1>5 DEF T
<1>7. o[i - 1] \in Nat
  BY <1>5 DEF Begins
<1> QED
  BY <1>3, <1>5, <1>6, <1>7

(***************************************************************************)
(* FlattenSeq is a recursive function, too: the line up to each part.      *)
(***************************************************************************)
LEMMA FlattenSteps ==
  ASSUME NEW m \in Nat \ {0}, NEW parts \in Seq(Text), Len(parts) = m
  PROVE  \E r \in [0..m -> Text] :
           /\ r[0] = <<>> /\ FlattenSeq(parts) = r[m]
           /\ \A j \in 1..m : r[j] = r[j - 1] \o parts[j]
<1> DEFINE Flattens(f) == f = [j \in 1..m |-> IF j = 1 THEN parts[j] ELSE f[j - 1] \o parts[j]]
           f == CHOOSE g : Flattens(g)
           steps == [j \in 1..m |-> [v \in Text |-> v \o parts[j]]]
<1>1. FlattenSeq(parts) = f[m]
  BY DEF FlattenSeq
<1>2. \A j \in 1..m : parts[j] \in Text
  OBVIOUS
<1>3. steps \in [1..m -> [Text -> Text]]
  <2>1. \A j \in 1..m : \A v \in Text : v \o parts[j] \in Text
    BY <1>2 DEF Text
  <2> QED
    BY <2>1
<1>4. \A j \in 1..m : \A v \in Text : steps[j][v] = v \o parts[j]
  OBVIOUS
<1> HIDE DEF steps
<1>5. <<>> \in Text
  BY DEF Text
<1>6. PICK r \in [0..m -> Text] : RecursionOf(r, m, <<>>, steps)
  <2>1. m \in Nat
    OBVIOUS
  <2> QED
    BY <1>3, <1>5, <2>1, RecursionExists
<1>7. \A j \in 1..m : r[j] = r[j - 1] \o parts[j]
  <2>1. \A j \in 1..m : r[j - 1] \in Text
    OBVIOUS
  <2> QED
    BY <1>4, <1>6, <2>1 DEF RecursionOf
<1>8. r[1] = parts[1]
  <2>1. parts[1] \in Seq(Characters) /\ 1 \in 1..m /\ 1 - 1 = 0
    BY <1>2 DEF Text
  <2>2. r[1] = <<>> \o parts[1]
    BY <1>6, <1>7, <2>1 DEF RecursionOf
  <2> QED
    BY <2>1, <2>2, ConcatEmptySeq
<1> DEFINE g == [j \in 1..m |-> r[j]]
<1>9. Flattens(g)
  <2>1. \A j \in 1..m : j # 1 => j - 1 \in 1..m
    OBVIOUS
  <2> QED
    BY <1>7, <1>8, <2>1
<1>10. Flattens(f)
  <2> HIDE DEF Flattens
  <2> QED
    BY <1>9
<1> HIDE DEF f, g
<1> DEFINE T == {j \in 1..m : f[j] # r[j]}
<1>11. T = {}
  <2>1. SUFFICES ASSUME T # {} PROVE FALSE
    OBVIOUS
  <2>2. PICK j \in T : \A k \in T : j <= k
    <3>1. T \subseteq Nat
      OBVIOUS
    <3> HIDE DEF T
    <3> QED
      BY <2>1, <3>1, SmallestNumber
  <2>3. f[j] = IF j = 1 THEN parts[j] ELSE f[j - 1] \o parts[j]
    BY <1>10
  <2>4. j # 1
    BY <1>8, <2>3
  <2>5. j - 1 \in 1..m /\ ~(j <= j - 1)
    BY <2>4
  <2>6. f[j - 1] = r[j - 1]
    BY <2>2, <2>5
  <2> QED
    BY <1>7, <2>3, <2>4, <2>6
<1>12. f[m] = r[m]
  BY <1>11
<1> QED
  BY <1>1, <1>6, <1>7, <1>12 DEF RecursionOf
LEMMA ConcatAt ==
  ASSUME NEW x \in Text, NEW y \in Text
  PROVE  /\ x \o y \in Text /\ Len(x) \in Nat /\ Len(y) \in Nat
         /\ Len(x \o y) = Len(x) + Len(y)
         /\ \A q \in 1..Len(x) : (x \o y)[q] = x[q]
         /\ \A q \in 1..Len(y) : (x \o y)[Len(x) + q] = y[q]
BY DEF Text

LEMMA SingleText ==
  ASSUME NEW char \in Characters
  PROVE  <<char>> \in Text /\ Len(<<char>>) = 1 /\ <<char>>[1] = char
BY DEF Text

LEMMA AppendText ==
  ASSUME NEW text \in Text, NEW char \in Characters
  PROVE  /\ Append(text, char) \in Text /\ Len(text) \in Nat
         /\ Len(Append(text, char)) = Len(text) + 1
         /\ Append(text, char)[Len(text) + 1] = char
         /\ \A p \in 1..Len(text) : Append(text, char)[p] = text[p]
BY DEF Text

\* Where each part comes to stand in the whole.
LEMMA FlattenAt ==
  ASSUME NEW m \in Nat \ {0}, NEW parts \in Seq(Text), Len(parts) = m,
         NEW s \in [0..m -> Nat], s[0] = 0, \A j \in 1..m : s[j] = s[j - 1] + Len(parts[j])
  PROVE  /\ FlattenSeq(parts) \in Text /\ Len(FlattenSeq(parts)) = s[m]
         /\ \A j \in 1..m : \A p \in 1..Len(parts[j]) :
              FlattenSeq(parts)[s[j - 1] + p] = parts[j][p]
<1>1. PICK r \in [0..m -> Text] :
        /\ r[0] = <<>> /\ FlattenSeq(parts) = r[m]
        /\ \A j \in 1..m : r[j] = r[j - 1] \o parts[j]
  BY FlattenSteps
<1> DEFINE Placed(k) ==
             /\ Len(r[k]) = s[k]
             /\ \A j \in 1..k : \A p \in 1..Len(parts[j]) :
                  s[j - 1] + p \in 1..s[k] /\ r[k][s[j - 1] + p] = parts[j][p]
           T == {k \in 0..m : ~Placed(k)}
<1>2. Placed(0)
  BY <1>1
<1>3. ASSUME NEW k \in 1..m, Placed(k - 1) PROVE Placed(k)
  <2>1. k - 1 \in 0..m /\ k - 1 \in Int
    OBVIOUS
  <2>2. r[k - 1] \in Text /\ parts[k] \in Text /\ r[k] = r[k - 1] \o parts[k]
    <3>1. r[k - 1] \in Text
      BY <2>1
    <3>2. parts[k] \in Text
      OBVIOUS
    <3> QED
      BY <1>1, <3>1, <3>2
  <2>3. s[k - 1] \in Nat /\ s[k] = s[k - 1] + Len(parts[k])
    BY <2>1
  <2>4. Len(r[k - 1]) = s[k - 1]
    BY <1>3
  <2>5. /\ Len(parts[k]) \in Nat /\ Len(r[k]) = s[k - 1] + Len(parts[k])
        /\ \A q \in 1..s[k - 1] : r[k][q] = r[k - 1][q]
        /\ \A q \in 1..Len(parts[k]) : r[k][s[k - 1] + q] = parts[k][q]
    <3>1. /\ Len(r[k - 1] \o parts[k]) = Len(r[k - 1]) + Len(parts[k])
          /\ Len(parts[k]) \in Nat
          /\ \A q \in 1..Len(r[k - 1]) : (r[k - 1] \o parts[k])[q] = r[k - 1][q]
          /\ \A q \in 1..Len(parts[k]) : (r[k - 1] \o parts[k])[Len(r[k - 1]) + q] = parts[k][q]
      BY <2>2, ConcatAt
    <3> QED
      BY <2>2, <2>4, <3>1, Zenon
  <2>6. /\ \A q \in 1..s[k - 1] : q \in 1..s[k]
        /\ \A q \in 1..Len(parts[k]) : s[k - 1] + q \in 1..s[k]
    <3> HIDE DEF Placed
    <3>1. PICK a \in Nat, b \in Nat : a = s[k - 1] /\ b = Len(parts[k])
      BY <2>3, <2>5
    <3>2. s[k] = a + b
      BY <2>3, <3>1
    <3>3. (\A q \in 1..a : q \in 1..(a + b)) /\ (\A q \in 1..b : a + q \in 1..(a + b))
      OBVIOUS
    <3> QED
      BY <3>1, <3>2, <3>3, Zenon
  <2>7. \A j \in 1..(k - 1) : \A p \in 1..Len(parts[j]) :
          s[j - 1] + p \in 1..s[k] /\ r[k][s[j - 1] + p] = parts[j][p]
    BY <1>3, <2>5, <2>6
  <2>8. \A j \in 1..k : j = k \/ j \in 1..(k - 1)
    OBVIOUS
  <2>9. Len(r[k]) = s[k]
    BY <2>3, <2>5
  <2>10. \A p \in 1..Len(parts[k]) :
           s[k - 1] + p \in 1..s[k] /\ r[k][s[k - 1] + p] = parts[k][p]
    BY <2>5, <2>6
  <2> QED
    BY <2>7, <2>8, <2>9, <2>10
<1> HIDE DEF Placed
<1>4. T = {}
  <2>1. SUFFICES ASSUME T # {} PROVE FALSE
    OBVIOUS
  <2>2. PICK k \in T : \A j \in T : k <= j
    <3>1. T \subseteq Nat
      OBVIOUS
    <3> HIDE DEF T
    <3> QED
      BY <2>1, <3>1, SmallestNumber
  <2>3. k # 0
    BY <1>2
  <2>4. k \in 1..m /\ k - 1 \in 0..m /\ ~(k <= k - 1)
    BY <2>3
  <2>5. Placed(k - 1)
    BY <2>2, <2>4
  <2> QED
    BY <1>3, <2>4, <2>5
<1>5. m \in 0..m /\ Placed(m)
  <2>1. m \in 0..m
    OBVIOUS
  <2> QED
    BY <1>4, <2>1
<1>6. r[m] \in Text
  BY <1>5
<1> QED
  BY <1>1, <1>5, <1>6 DEF Placed
-----------------------------------------------------------------------------
(***************************************************************************)
(* A line of n cells of the widths w, with separators of one character:    *)
(* where the cells and the separators stand.                               *)
(***************************************************************************)
Fits(cells, n, w) ==
  cells \in Seq(Text) /\ Len(cells) = n /\ \A i \in 1..n : Len(cells[i]) = w[i]

LEMMA LineAt ==
  ASSUME NEW n \in Nat \ {0}, NEW w \in [1..n -> Nat], NEW o, Begins(o, n, w),
         NEW cells, Fits(cells, n, w), NEW separator \in Text, Len(separator) = 1
  PROVE  /\ Line(cells, separator) \in Text
         /\ Len(Line(cells, separator)) = o[n] - 1
         /\ \A i \in 1..n : \A p \in 1..w[i] :
              Line(cells, separator)[o[i - 1] + p] = cells[i][p]
         /\ \A i \in 1..(n - 1) : Line(cells, separator)[o[i]] = separator[1]
<1> DEFINE m == 2 * n - 1
           parts == [j \in 1..m |-> IF j % 2 = 1 THEN cells[(j + 1) \div 2] ELSE separator]
           s == [j \in 0..m |-> IF j % 2 = 1 THEN o[(j + 1) \div 2] - 1 ELSE o[j \div 2]]
<1>1. Line(cells, separator) = FlattenSeq(parts) /\ m \in Nat \ {0}
  BY DEF Line, Fits
<1>2. /\ \A i \in 0..n : o[i] \in Nat
      /\ \A i \in 1..n : o[i] = o[i - 1] + w[i] + 1 /\ w[i] \in Nat
      /\ \A i \in 1..n : cells[i] \in Text /\ Len(cells[i]) = w[i]
      /\ o[0] = 0
  BY DEF Begins, Fits
<1>3. \A i \in 1..n : /\ 2 * i - 1 \in 1..m /\ (2 * i - 1) % 2 = 1
                      /\ ((2 * i - 1) + 1) \div 2 = i
                      /\ (2 * i - 1) - 1 \in 0..m /\ ((2 * i - 1) - 1) % 2 = 0
                      /\ ((2 * i - 1) - 1) \div 2 = i - 1 /\ i - 1 \in 0..n
  OBVIOUS
<1>4. \A i \in 1..(n - 1) : /\ 2 * i \in 1..m /\ (2 * i) % 2 = 0 /\ (2 * i) \div 2 = i
                            /\ 2 * i - 1 \in 0..m /\ (2 * i - 1) % 2 = 1
                            /\ ((2 * i - 1) + 1) \div 2 = i /\ i \in 1..n
  OBVIOUS
<1>5. \A j \in 1..m : \/ \E i \in 1..n : j = 2 * i - 1
                      \/ \E i \in 1..(n - 1) : j = 2 * i
  <2> SUFFICES ASSUME NEW j \in 1..m
               PROVE  \/ \E i \in 1..n : j = 2 * i - 1
                      \/ \E i \in 1..(n - 1) : j = 2 * i
    OBVIOUS
  <2>1. CASE j % 2 = 1
    <3>1. (j + 1) \div 2 \in 1..n /\ j = 2 * ((j + 1) \div 2) - 1
      BY <2>1
    <3> QED
      BY <3>1
  <2>2. CASE j % 2 = 0
    <3>1. j \div 2 \in 1..(n - 1) /\ j = 2 * (j \div 2)
      BY <2>2
    <3> QED
      BY <3>1
  <2>3. j % 2 \in {0, 1}
    OBVIOUS
  <2> QED
    BY <2>1, <2>2, <2>3
<1>6. ASSUME NEW i \in 1..n
      PROVE  /\ parts[2 * i - 1] = cells[i] /\ s[(2 * i - 1) - 1] = o[i - 1]
             /\ s[2 * i - 1] = o[i] - 1
  <2>1. parts[2 * i - 1] = cells[((2 * i - 1) + 1) \div 2]
    BY <1>3
  <2>2. s[(2 * i - 1) - 1] = o[((2 * i - 1) - 1) \div 2]
    BY <1>3
  <2>3. 2 * i - 1 \in 0..m
    OBVIOUS
  <2>4. s[2 * i - 1] = o[((2 * i - 1) + 1) \div 2] - 1
    BY <1>3, <2>3
  <2> QED
    BY <1>3, <2>1, <2>2, <2>4
<1>7. ASSUME NEW i \in 1..(n - 1)
      PROVE  parts[2 * i] = separator /\ s[2 * i - 1] = o[i] - 1 /\ s[2 * i] = o[i]
  <2>1. parts[2 * i] = separator /\ s[2 * i] = o[(2 * i) \div 2]
    BY <1>4
  <2>2. s[2 * i - 1] = o[((2 * i - 1) + 1) \div 2] - 1
    BY <1>4
  <2> QED
    BY <1>4, <2>1, <2>2
<1>8. s[0] = 0
  BY <1>2
<1>9. DOMAIN parts = 1..m /\ Len(parts) = m
  OBVIOUS
<1>10. s \in [0..m -> Nat]
  <2>1. \A i \in 1..n : o[i] - 1 \in Nat /\ i \in 0..n /\ i - 1 \in 0..n
    <3> HIDE DEF s, m, parts
    <3> SUFFICES ASSUME NEW i \in 1..n
                 PROVE  o[i] - 1 \in Nat /\ i \in 0..n /\ i - 1 \in 0..n
      OBVIOUS
    <3>1. i \in 0..n /\ i - 1 \in 0..n
      OBVIOUS
    <3>2. o[i - 1] \in Nat /\ w[i] \in Nat /\ o[i] = o[i - 1] + w[i] + 1
      BY <1>2, <3>1
    <3> QED
      BY <3>1, <3>2
  <2>2. \A j \in 1..m : s[j] \in Nat
    <3> HIDE DEF s, m, parts
    <3> SUFFICES ASSUME NEW j \in 1..m PROVE s[j] \in Nat
      OBVIOUS
    <3>1. CASE \E i \in 1..n : j = 2 * i - 1
      <4>1. PICK i \in 1..n : j = 2 * i - 1
        BY <3>1, Zenon
      <4>2. s[2 * i - 1] = o[i] - 1 /\ o[i] - 1 \in Nat
        BY <1>6, <2>1
      <4> QED
        BY <4>1, <4>2
    <3>2. CASE \E i \in 1..(n - 1) : j = 2 * i
      <4>1. PICK i \in 1..(n - 1) : j = 2 * i
        BY <3>2, Zenon
      <4>2. i \in 0..n
        OBVIOUS
      <4> QED
        BY <1>2, <1>7, <4>1, <4>2
    <3> QED
      BY <1>5, <3>1, <3>2
  <2>3. s[0] \in Nat
    BY <1>8
  <2>4. \A j \in 0..m : j = 0 \/ j \in 1..m
    OBVIOUS
  <2>5. \A j \in 0..m : s[j] \in Nat
    <3> HIDE DEF s
    <3> QED
      BY <2>2, <2>3, <2>4
  <2>6. s = [j \in 0..m |-> s[j]]
    OBVIOUS
  <2> HIDE DEF s
  <2> QED
    BY <2>5, <2>6
<1>11. \A j \in 1..m : parts[j] \in Text
  <2> HIDE DEF s, m, parts
  <2> SUFFICES ASSUME NEW j \in 1..m PROVE parts[j] \in Text
    OBVIOUS
  <2>1. CASE \E i \in 1..n : j = 2 * i - 1
    BY <1>2, <1>6, <2>1
  <2>2. CASE \E i \in 1..(n - 1) : j = 2 * i
    BY <1>7, <2>2
  <2> QED
    BY <1>5, <2>1, <2>2
<1>12. parts \in Seq(Text)
  BY <1>11
<1> HIDE DEF s, m, parts
<1>13. \A j \in 1..m : s[j] = s[j - 1] + Len(parts[j])
  <2> SUFFICES ASSUME NEW j \in 1..m PROVE s[j] = s[j - 1] + Len(parts[j])
    OBVIOUS
  <2>1. CASE \E i \in 1..n : j = 2 * i - 1
    <3>1. PICK i \in 1..n : j = 2 * i - 1
      BY <2>1
    <3>2. o[i - 1] \in Nat /\ w[i] \in Nat /\ o[i] = o[i - 1] + w[i] + 1
      BY <1>2, <1>3
    <3>3. s[j - 1] = o[i - 1] /\ s[j] = o[i] - 1 /\ Len(parts[j]) = w[i]
      BY <1>2, <1>6, <3>1
    <3> QED
      BY <3>2, <3>3
  <2>2. CASE \E i \in 1..(n - 1) : j = 2 * i
    <3>1. PICK i \in 1..(n - 1) : j = 2 * i
      BY <2>2
    <3>2. i \in 0..n /\ o[i] \in Nat
      BY <1>2
    <3>3. s[j - 1] = o[i] - 1 /\ s[j] = o[i] /\ Len(parts[j]) = 1
      BY <1>7, <3>1
    <3> QED
      BY <3>2, <3>3
  <2> QED
    BY <1>5, <2>1, <2>2
<1>14. /\ FlattenSeq(parts) \in Text /\ Len(FlattenSeq(parts)) = s[m]
       /\ \A j \in 1..m : \A p \in 1..Len(parts[j]) :
            FlattenSeq(parts)[s[j - 1] + p] = parts[j][p]
  BY <1>1, <1>8, <1>9, <1>10, <1>12, <1>13, FlattenAt
<1>15. s[m] = o[n] - 1
  BY <1>6 DEF m
<1>16. ASSUME NEW i \in 1..n, NEW p \in 1..w[i]
       PROVE  FlattenSeq(parts)[o[i - 1] + p] = cells[i][p]
  <2>1. 2 * i - 1 \in 1..m /\ p \in 1..Len(parts[2 * i - 1])
    BY <1>2, <1>3, <1>6
  <2>2. FlattenSeq(parts)[s[(2 * i - 1) - 1] + p] = parts[2 * i - 1][p]
    BY <1>14, <2>1, Zenon
  <2> QED
    BY <1>6, <2>2, Zenon
<1>17. ASSUME NEW i \in 1..(n - 1) PROVE FlattenSeq(parts)[o[i]] = separator[1]
  <2>1. 2 * i \in 1..m /\ 1 \in 1..Len(parts[2 * i])
    <3>1. Len(parts[2 * i]) = 1
      BY <1>7, Zenon
    <3>2. 1 \in 1..1
      OBVIOUS
    <3> QED
      BY <1>4, <3>1, <3>2, Zenon
  <2>2. FlattenSeq(parts)[s[2 * i - 1] + 1] = parts[2 * i][1]
    BY <1>14, <2>1, Zenon
  <2>3. o[i] \in Nat /\ s[2 * i - 1] + 1 = o[i]
    <3>1. i \in 0..n
      OBVIOUS
    <3>2. o[i] \in Nat
      BY <1>2, <3>1
    <3>3. s[2 * i - 1] = o[i] - 1
      BY <1>7, Zenon
    <3> QED
      BY <3>2, <3>3
  <2> QED
    BY <1>7, <2>2, <2>3, Zenon
<1> QED
  BY <1>1, <1>14, <1>15, <1>16, <1>17

\* A part is cut out of a text where it stands.
LEMMA CutOut ==
  ASSUME NEW text \in Text, NEW part \in Text, NEW a \in Nat, NEW b \in Nat,
         Len(part) = b, a + b <= Len(text), \A p \in 1..b : text[a + p] = part[p]
  PROVE  SubSeq(text, a + 1, a + b) = part
<1>1. \A q \in (a + 1)..(a + b) : q \in 1..Len(text)
  <2>1. PICK c \in Nat : c = Len(text)
    BY DEF Text
  <2>2. a + b <= c
    BY <2>1
  <2>3. \A q \in (a + 1)..(a + b) : q \in 1..c
    BY ONLY <2>2, a \in Nat, b \in Nat, c \in Nat
  <2> QED
    BY <2>1, <2>3, Zenon
<1>2. \A q \in (a + 1)..(a + b) : text[q] \in Characters
  BY <1>1 DEF Text
<1>3. PICK cut : cut = SubSeq(text, a + 1, a + b)
  OBVIOUS
<1>4. /\ cut \in Seq(Characters)
      /\ Len(cut) = IF a + 1 <= a + b THEN (a + b) - (a + 1) + 1 ELSE 0
      /\ \A q \in 1..((a + b) - (a + 1) + 1) : cut[q] = text[(a + 1) + q - 1]
  <2>1. /\ SubSeq(text, a + 1, a + b) \in Seq(Characters)
        /\ Len(SubSeq(text, a + 1, a + b))
             = IF a + 1 <= a + b THEN (a + b) - (a + 1) + 1 ELSE 0
        /\ \A q \in 1..((a + b) - (a + 1) + 1) :
             SubSeq(text, a + 1, a + b)[q] = text[(a + 1) + q - 1]
    BY <1>2, SubSeqProperties
  <2> QED
    BY <1>3, <2>1, Zenon
<1>5. /\ (IF a + 1 <= a + b THEN (a + b) - (a + 1) + 1 ELSE 0) = b
      /\ (a + b) - (a + 1) + 1 = b
      /\ \A q \in 1..b : (a + 1) + q - 1 = a + q
  BY ONLY a \in Nat, b \in Nat
<1>6. Len(cut) = b
  BY <1>4, <1>5, Zenon
<1>7. \A q \in 1..b : cut[q] = part[q]
  <2>1. \A q \in 1..b : cut[q] = text[(a + 1) + q - 1]
    BY <1>4, <1>5, Zenon
  <2> QED
    BY <1>5, <2>1, Zenon
<1>8. part \in Seq(Characters)
  BY DEF Text
<1> QED
  BY <1>3, <1>4, <1>6, <1>7, <1>8, SeqEqual

\* Where the cell is cut out.
LEMMA CellAt ==
  ASSUME NEW n \in Nat \ {0}, NEW w \in [1..n -> Nat], NEW o, Begins(o, n, w),
         NEW cells, Fits(cells, n, w), NEW separator \in Text, Len(separator) = 1,
         NEW i \in 1..n
  PROVE  SubSeq(Line(cells, separator), o[i - 1] + 1, o[i] - 1) = cells[i]
<1>1. PICK line : line = Line(cells, separator)
  OBVIOUS
<1>2. /\ line \in Text /\ Len(line) = o[n] - 1
      /\ \A p \in 1..w[i] : line[o[i - 1] + p] = cells[i][p]
  BY <1>1, LineAt
<1>3. PICK a \in Nat, b \in Nat : a = o[i - 1] /\ b = w[i] /\ o[i] = a + b + 1
  <2>1. i - 1 \in 0..n
    OBVIOUS
  <2> QED
    BY <2>1 DEF Begins
<1>4. cells[i] \in Text /\ Len(cells[i]) = b
  BY <1>3 DEF Fits
<1>5. o[i] <= o[n] /\ o[n] \in Nat
  <2>1. i \in 0..n /\ n \in 0..n /\ (i = n \/ i < n)
    OBVIOUS
  <2>2. o[n] \in Nat /\ o[i] \in Nat
    BY <2>1 DEF Begins
  <2>3. i < n => o[i] < o[n]
    BY <2>1, BeginsRise
  <2> QED
    BY <2>1, <2>2, <2>3
<1>6. SubSeq(line, a + 1, a + b) = cells[i]
  <2>1. a + b <= Len(line)
    <3>1. PICK c \in Nat : c = o[n] /\ a + b + 1 <= c
      BY <1>3, <1>5
    <3>2. a + b <= c - 1
      BY <3>1
    <3> QED
      BY <1>2, <3>1, <3>2
  <2>2. \A p \in 1..b : line[a + p] = cells[i][p]
    BY <1>2, <1>3, Zenon
  <2> QED
    BY <1>2, <1>4, <2>1, <2>2, CutOut
<1>7. o[i] - 1 = a + b
  BY <1>3
<1> QED
  BY <1>1, <1>3, <1>6, <1>7

(***************************************************************************)
(* The crosses of the bar are where the cells begin and end.               *)
(***************************************************************************)
Bars(n, w) == [i \in 1..n |-> Repeat("-", w[i])]

LEMMA RepeatText ==
  ASSUME NEW char \in Characters, NEW size \in Nat
  PROVE  /\ Repeat(char, size) \in Text /\ Len(Repeat(char, size)) = size
         /\ \A p \in 1..size : Repeat(char, size)[p] = char
<1>1. DOMAIN Repeat(char, size) = 1..size /\ \A p \in 1..size : Repeat(char, size)[p] = char
  BY DEF Repeat
<1>2. Repeat(char, size) \in Seq(Characters)
  BY DEF Repeat
<1>3. Len(Repeat(char, size)) = size
  BY <1>1, <1>2
<1> QED
  BY <1>1, <1>2, <1>3 DEF Text

LEMMA BarsFit ==
  ASSUME NEW n \in Nat \ {0}, NEW w \in [1..n -> Nat]
  PROVE  Fits(Bars(n, w), n, w) /\ <<"+">> \in Text /\ Len(<<"+">>) = 1
<1>1. \A i \in 1..n : Repeat("-", w[i]) \in Text /\ Len(Repeat("-", w[i])) = w[i]
  <2>1. "-" \in Characters /\ \A i \in 1..n : w[i] \in Nat
    BY CharactersAssumption
  <2> QED
    BY <2>1, RepeatText
<1>2. \A i \in 1..n : Bars(n, w)[i] = Repeat("-", w[i])
  BY DEF Bars
<1>3. DOMAIN Bars(n, w) = 1..n /\ Bars(n, w) = [i \in 1..n |-> Bars(n, w)[i]]
  BY DEF Bars
<1>4. Bars(n, w) \in [1..n -> Text]
  BY <1>1, <1>2, <1>3
<1>5. Bars(n, w) \in Seq(Text) /\ Len(Bars(n, w)) = n
  BY <1>3, <1>4
<1>6. <<"+">> \in Text /\ Len(<<"+">>) = 1
  <2>1. "+" \in Characters
    BY CharactersAssumption
  <2> QED
    BY <2>1 DEF Text
<1> QED
  BY <1>1, <1>2, <1>5, <1>6 DEF Fits

Crosses(bar) == {0, Len(bar) + 1} \cup {k \in DOMAIN bar : bar[k] = "+"}

LEMMA CrossesAre ==
  ASSUME NEW n \in Nat \ {0}, NEW w \in [1..n -> Nat], NEW o, Begins(o, n, w)
  PROVE  Crosses(Line(Bars(n, w), <<"+">>)) = {o[i] : i \in 0..n}
<1>1. PICK bar : bar = Line(Bars(n, w), <<"+">>)
  OBVIOUS
<1>2. Fits(Bars(n, w), n, w) /\ <<"+">> \in Text /\ Len(<<"+">>) = 1 /\ <<"+">>[1] = "+"
  BY BarsFit
<1>3. /\ bar \in Text /\ Len(bar) = o[n] - 1
      /\ \A i \in 1..n : \A p \in 1..w[i] : bar[o[i - 1] + p] = Bars(n, w)[i][p]
      /\ \A i \in 1..(n - 1) : bar[o[i]] = <<"+">>[1]
  <2>1. PICK plus : plus = <<"+">>
    OBVIOUS
  <2>2. Fits(Bars(n, w), n, w) /\ plus \in Text /\ Len(plus) = 1
    BY <1>2, <2>1, Zenon
  <2>3. PICK bars : bars = Bars(n, w)
    OBVIOUS
  <2>4. bar = Line(bars, plus) /\ Fits(bars, n, w)
    BY <1>1, <2>1, <2>2, <2>3, Zenon
  <2>5. /\ bar \in Text /\ Len(bar) = o[n] - 1
        /\ \A i \in 1..n : \A p \in 1..w[i] : bar[o[i - 1] + p] = bars[i][p]
        /\ \A i \in 1..(n - 1) : bar[o[i]] = plus[1]
    <3>1. /\ Line(bars, plus) \in Text /\ Len(Line(bars, plus)) = o[n] - 1
          /\ \A i \in 1..n : \A p \in 1..w[i] : Line(bars, plus)[o[i - 1] + p] = bars[i][p]
          /\ \A i \in 1..(n - 1) : Line(bars, plus)[o[i]] = plus[1]
      <4>1. Fits(bars, n, w) /\ plus \in Text /\ Len(plus) = 1 /\ Begins(o, n, w)
        BY <2>2, <2>4
      <4> QED
        BY ONLY <4>1, LineAt, n \in Nat \ {0}, w \in [1..n -> Nat]
    <3> QED
      BY <2>4, <3>1, Zenon
  <2> QED
    BY <2>1, <2>3, <2>5, Zenon
<1>4. \A i \in 1..n : \A p \in 1..w[i] : bar[o[i - 1] + p] = "-"
  <2>1. \A i \in 1..n : \A p \in 1..w[i] : Bars(n, w)[i][p] = "-"
    <3>1. \A i \in 1..n : Bars(n, w)[i] = Repeat("-", w[i]) /\ w[i] \in Nat
      BY DEF Bars
    <3>2. \A i \in 1..n : \A p \in 1..w[i] : Repeat("-", w[i])[p] = "-"
      <4>1. "-" \in Characters
        BY CharactersAssumption
      <4> QED
        BY <3>1, <4>1, RepeatText, Zenon
    <3> QED
      BY <3>1, <3>2, Zenon
  <2> QED
    <3> SUFFICES ASSUME NEW i \in 1..n, NEW p \in 1..w[i] PROVE bar[o[i - 1] + p] = "-"
      OBVIOUS
    <3>1. bar[o[i - 1] + p] = Bars(n, w)[i][p]
      BY <1>3, Zenon
    <3>2. Bars(n, w)[i][p] = "-"
      BY <2>1, Zenon
    <3> QED
      BY <3>1, <3>2, Zenon
<1>5. /\ \A i \in 0..n : o[i] \in Nat
      /\ \A i \in 1..n : o[i] = o[i - 1] + w[i] + 1 /\ i - 1 \in 0..n /\ i \in 0..n
      /\ o[0] = 0 /\ 0 \in 0..n /\ n \in 0..n
  <2>1. \A i \in 1..n : i - 1 \in 0..n /\ i \in 0..n
    OBVIOUS
  <2> QED
    BY <2>1 DEF Begins
<1>6. \A i, j \in 0..n : i < j => o[i] < o[j]
  BY BeginsRise
<1>7. Len(bar) + 1 = o[n] /\ DOMAIN bar = 1..(o[n] - 1)
  <2>1. DOMAIN bar = 1..Len(bar)
    BY <1>3 DEF Text
  <2> QED
    BY <1>3, <1>5, <2>1
<1>8. ASSUME NEW i \in 0..n PROVE o[i] \in Crosses(bar)
  <2>1. CASE i = 0 \/ i = n
    BY <1>5, <1>7, <2>1 DEF Crosses
  <2>2. CASE i \in 1..(n - 1)
    <3>1. i \in 0..n /\ 0 < i /\ i < n
      BY <2>2
    <3>2. 0 < o[i] /\ o[i] < o[n] /\ o[i] \in Nat /\ o[n] \in Nat
      BY <1>5, <1>6, <3>1
    <3>3. o[i] \in DOMAIN bar
      BY <1>7, <3>2
    <3>4. bar[o[i]] = "+"
      BY <1>2, <1>3, <2>2
    <3> QED
      BY <3>3, <3>4 DEF Crosses
  <2> QED
    BY <2>1, <2>2
<1>9. ASSUME NEW k \in 1..(o[n] - 1), bar[k] = "+" PROVE \E i \in 0..n : k = o[i]
  <2>1. k \in 1..o[n]
    BY <1>5
  <2>2. PICK i \in 1..n : o[i - 1] < k /\ k <= o[i]
    BY <2>1, CellOf
  <2>3. PICK a \in Nat, b \in Nat : a = o[i - 1] /\ b = w[i] /\ o[i] = a + b + 1
    <3>1. o[i - 1] \in Nat /\ w[i] \in Nat /\ o[i] = o[i - 1] + w[i] + 1
      BY <1>5
    <3> QED
      BY <3>1
  <2>4. k < o[i] => k - a \in 1..b /\ a + (k - a) = k
    <3>1. k \in Nat /\ a < k
      BY <2>2, <2>3
    <3>2. k < o[i] => k < a + b + 1
      BY <2>3, Zenon
    <3>3. k < a + b + 1 => k - a \in 1..b /\ a + (k - a) = k
      BY ONLY <3>1, a \in Nat, b \in Nat
    <3> QED
      BY <3>2, <3>3, Zenon
  <2>5. k < o[i] => bar[k] = "-"
    BY <1>4, <2>3, <2>4
  <2>6. ~(k < o[i])
    BY <1>9, <2>5
  <2>7. k = o[i]
    <3>1. k \in Nat /\ o[i] \in Nat
      BY <2>3
    <3> QED
      BY <2>2, <2>6, <3>1
  <2> QED
    BY <1>5, <2>7
<1>10. ASSUME NEW k \in Crosses(bar) PROVE \E i \in 0..n : k = o[i]
  BY <1>5, <1>7, <1>9 DEF Crosses
<1> QED
  BY <1>1, <1>8, <1>10

\* How many of the crosses come before one.
LEMMA CrossesBefore ==
  ASSUME NEW n \in Nat \ {0}, NEW w \in [1..n -> Nat], NEW o, Begins(o, n, w),
         NEW q \in 0..n
  PROVE  Cardinality({k \in {o[i] : i \in 0..n} : k < o[q]}) = q
<1> DEFINE before(j) == {k \in {o[i] : i \in 0..n} : k < o[j]}
           Counted(j) == IsFiniteSet(before(j)) /\ Cardinality(before(j)) = j
           T == {j \in 0..n : ~Counted(j)}
<1>1. \A i \in 0..n : o[i] \in Nat
  BY DEF Begins
<1>2. \A i, j \in 0..n : i < j => o[i] < o[j]
  BY BeginsRise
<1>3. before(0) = {}
  <2>1. \A i \in 0..n : ~(o[i] < o[0])
    BY <1>1 DEF Begins
  <2> QED
    BY <2>1
<1>4. Counted(0)
  <2> HIDE DEF before
  <2> QED
    BY <1>3, FS_EmptySet
<1>5. ASSUME NEW j \in 1..n, Counted(j - 1) PROVE Counted(j)
  <2>1. j - 1 \in 0..n /\ j \in 0..n /\ j - 1 < j
    OBVIOUS
  <2>2. ASSUME NEW i \in 0..n PROVE o[i] < o[j] <=> o[i] < o[j - 1] \/ o[i] = o[j - 1]
    <3>1. i < j - 1 \/ i = j - 1 \/ i = j \/ j < i
      OBVIOUS
    <3>2. o[i] \in Nat /\ o[j] \in Nat /\ o[j - 1] \in Nat /\ o[j - 1] < o[j]
      BY <1>1, <1>2, <2>1
    <3>3. i < j - 1 => o[i] < o[j - 1]
      BY <1>2, <2>1
    <3>4. j < i => o[j] < o[i]
      BY <1>2, <2>1
    <3> QED
      BY <3>1, <3>2, <3>3, <3>4
  <2>3. before(j) = before(j - 1) \cup {o[j - 1]}
    BY <2>1, <2>2
  <2>4. o[j - 1] \notin before(j - 1)
    BY <1>1, <2>1
  <2> HIDE DEF before
  <2>5. IsFiniteSet(before(j)) /\ Cardinality(before(j)) = Cardinality(before(j - 1)) + 1
    BY <1>5, <2>3, <2>4, FS_AddElement
  <2> QED
    BY <1>5, <2>5
<1> HIDE DEF Counted
<1>6. T = {}
  <2>1. SUFFICES ASSUME T # {} PROVE FALSE
    OBVIOUS
  <2>2. PICK j \in T : \A k \in T : j <= k
    <3>1. T \subseteq Nat
      OBVIOUS
    <3> HIDE DEF T
    <3> QED
      BY <2>1, <3>1, SmallestNumber
  <2>3. j # 0
    BY <1>4
  <2>4. j \in 1..n /\ j - 1 \in 0..n /\ ~(j <= j - 1)
    BY <2>3
  <2>5. Counted(j - 1)
    BY <2>2, <2>4
  <2> QED
    BY <1>5, <2>4, <2>5
<1>7. Counted(q)
  BY <1>6
<1> QED
  BY <1>7 DEF Counted

\* A text cut between two such places.
LEMMA BetweenPlaces ==
  ASSUME NEW n \in Nat \ {0}, NEW w \in [1..n -> Nat], NEW o, Begins(o, n, w), NEW text,
         NEW i \in 1..n
  PROVE  Between(text, {o[j] : j \in 0..n}, i) = SubSeq(text, o[i - 1] + 1, o[i] - 1)
<1>1. PICK places : places = {o[j] : j \in 0..n}
  OBVIOUS
<1>2. /\ \A j \in 0..n : o[j] \in Nat
      /\ \A j, k \in 0..n : j < k => o[j] < o[k]
  BY BeginsRise DEF Begins
<1>3. i - 1 \in 0..n /\ i \in 0..n /\ i - 1 < i
  OBVIOUS
<1> DEFINE from == CHOOSE k \in places : Cardinality({j \in places : j < k}) = i - 1
           to == Min({k \in places : k > from})
<1>4. from = o[i - 1]
  <2>1. \A q \in 0..n : Cardinality({k \in places : k < o[q]}) = q
    BY <1>1, CrossesBefore
  <2>2. \A k \in places : Cardinality({j \in places : j < k}) = i - 1 <=> k = o[i - 1]
    BY <1>1, <1>3, <2>1
  <2>3. o[i - 1] \in places
    BY <1>1, <1>3
  <2> QED
    BY <2>2, <2>3
<1> HIDE DEF from
<1>5. to = o[i]
  <2> DEFINE after == {k \in places : k > from}
  <2>1. o[i] \in after
    BY <1>1, <1>2, <1>3, <1>4
  <2>2. ASSUME NEW k \in after PROVE o[i] <= k /\ k \in Nat
    <3>1. PICK j \in 0..n : k = o[j]
      BY <1>1
    <3>2. o[i - 1] < o[j]
      BY <1>4, <3>1
    <3>3. ~(j < i - 1) /\ j # i - 1
      BY <1>2, <1>3, <3>2
    <3>4. j = i \/ i < j
      BY <3>3
    <3> QED
      BY <1>2, <1>3, <3>1, <3>4
  <2> HIDE DEF after
  <2>3. Min(after) = o[i]
    <3>1. \A x \in after : (\A y \in after : x <= y) <=> x = o[i]
      BY <2>1, <2>2
    <3> QED
      BY <2>1, <3>1 DEF Min
  <2> QED
    BY <2>3 DEF after
<1> HIDE DEF to
<1>6. Between(text, places, i) = SubSeq(text, from + 1, to - 1)
  BY DEF Between, from, to
<1> QED
  BY <1>1, <1>4, <1>5, <1>6

(***************************************************************************)
(* Any line with cells of these widths is cut into its cells.              *)
(***************************************************************************)
LEMMA CutsIntoCells ==
  ASSUME NEW n \in Nat \ {0}, NEW w \in [1..n -> Nat],
         NEW cells, Fits(cells, n, w), NEW separator \in Text, Len(separator) = 1,
         NEW i \in 1..n
  PROVE  Cell(Line(cells, separator), Line(Bars(n, w), <<"+">>), i) = cells[i]
<1>1. PICK o : Begins(o, n, w)
  <2>1. n \in Nat
    OBVIOUS
  <2>2. \E o \in [0..n -> Nat] : o[0] = 0 /\ \A j \in 1..n : o[j] = o[j - 1] + w[j] + 1
    BY <2>1, SumsExist
  <2> QED
    BY <2>2, Zenon DEF Begins
<1>2. PICK line, bar : line = Line(cells, separator) /\ bar = Line(Bars(n, w), <<"+">>)
  OBVIOUS
<1>3. Crosses(bar) = {o[j] : j \in 0..n}
  BY <1>1, <1>2, CrossesAre
<1>4. Cell(line, bar, i) = Between(line, Crosses(bar), i)
  BY DEF Cell, Crosses
<1>5. Between(line, {o[j] : j \in 0..n}, i) = SubSeq(line, o[i - 1] + 1, o[i] - 1)
  BY <1>1, BetweenPlaces
<1>6. SubSeq(line, o[i - 1] + 1, o[i] - 1) = cells[i]
  BY <1>1, <1>2, CellAt
<1> QED
  BY <1>2, <1>3, <1>4, <1>5, <1>6
-----------------------------------------------------------------------------
(***************************************************************************)
(* The width of a column is that of its longest entry and two blanks.      *)
(***************************************************************************)
LEMMA LengthsBounded ==
  ASSUME NEW m \in Nat, NEW f \in [1..m -> Nat]
  PROVE  \E b \in Nat : \A k \in 1..m : f[k] <= b
<1> DEFINE Bounded(q) == \E b \in Nat : \A k \in 1..q : f[k] <= b
           T == {q \in 0..m : ~Bounded(q)}
<1>1. Bounded(0)
  OBVIOUS
<1>2. ASSUME NEW q \in 1..m, Bounded(q - 1) PROVE Bounded(q)
  <2>1. PICK b \in Nat : \A k \in 1..(q - 1) : f[k] <= b
    BY <1>2
  <2>2. \A k \in 1..q : k = q \/ k \in 1..(q - 1)
    OBVIOUS
  <2>3. \A k \in 1..q : f[k] \in Nat
    OBVIOUS
  <2>4. CASE f[q] <= b
    BY <2>1, <2>2, <2>4
  <2>5. CASE ~(f[q] <= b)
    <3>1. \A k \in 1..q : f[k] <= f[q]
      BY <2>1, <2>2, <2>3, <2>5
    <3> QED
      BY <2>3, <3>1
  <2> QED
    BY <2>4, <2>5
<1> HIDE DEF Bounded
<1>3. T = {}
  <2>1. SUFFICES ASSUME T # {} PROVE FALSE
    OBVIOUS
  <2>2. PICK q \in T : \A k \in T : q <= k
    <3>1. T \subseteq Nat
      OBVIOUS
    <3> HIDE DEF T
    <3> QED
      BY <2>1, <3>1, SmallestNumber
  <2>3. q # 0
    BY <1>1
  <2>4. q \in 1..m /\ q - 1 \in 0..m /\ ~(q <= q - 1)
    BY <2>3
  <2>5. Bounded(q - 1)
    BY <2>2, <2>4
  <2> QED
    BY <1>2, <2>4, <2>5
<1>4. Bounded(m)
  BY <1>3
<1> QED
  BY <1>4 DEF Bounded

\* What is known of a result.
LEMMA ResultIs ==
  ASSUME result \in Results
  PROVE  /\ Len(result.names) \in Nat /\ DOMAIN result.rows = 1..Len(result.rows)
         /\ Len(result.rows) \in Nat
         /\ \A i \in Columns : result.names[i] \in Text
         /\ \A k \in DOMAIN result.rows :
              /\ Len(result.rows[k]) = Len(result.names)
              /\ \A i \in Columns : result.rows[k][i] \in Text
<1>1. /\ result.names \in Seq(Text) /\ result.rows \in Seq(Seq(Text))
      /\ \A k \in DOMAIN result.rows : Len(result.rows[k]) = Len(result.names)
  BY ResultsAssumption
<1>2. \A k \in DOMAIN result.rows : result.rows[k] \in Seq(Text)
  BY <1>1
<1> QED
  BY <1>1, <1>2 DEF Columns

LEMMA TextLength ==
  ASSUME NEW text \in Text
  PROVE  Len(text) \in Nat
BY DEF Text

LEMMA WidthIs ==
  ASSUME result \in Results, NEW i \in Columns
  PROVE  /\ Width(i) \in Nat /\ Len(result.names[i]) <= Width(i)
         /\ \A k \in DOMAIN result.rows : Len(result.rows[k][i]) <= Width(i)
<1> DEFINE m == Len(result.rows)
           lengths == [k \in 1..m |-> Len(result.rows[k][i])]
           all == {Len(result.names[i])} \cup {Len(result.rows[k][i]) : k \in DOMAIN result.rows}
<1>1. m \in Nat /\ DOMAIN result.rows = 1..m /\ Len(result.names[i]) \in Nat
      /\ \A k \in 1..m : Len(result.rows[k][i]) \in Nat
  BY ResultIs, TextLength
<1>2. PICK b \in Nat : \A k \in 1..m : lengths[k] <= b
  <2>1. lengths \in [1..m -> Nat]
    BY <1>1
  <2> HIDE DEF m, lengths
  <2> QED
    BY <1>1, <2>1, LengthsBounded
<1>3. \A k \in 1..m : Len(result.rows[k][i]) <= b
  BY <1>2
<1>4. all \subseteq Nat /\ all # {} /\ \A y \in all : y <= b + Len(result.names[i])
  BY <1>1, <1>3
<1>5. b + Len(result.names[i]) \in Nat
  BY <1>1
<1>6. Max(all) \in all /\ \A y \in all : y <= Max(all)
  <2> HIDE DEF all
  <2> QED
    BY <1>4, <1>5, MaxOfBounded
<1>7. Width(i) = Max(all)
  BY DEF Width
<1> QED
  BY <1>1, <1>4, <1>6, <1>7

(***************************************************************************)
(* Padded, on the left, on the right or on both sides, a field is shown.   *)
(***************************************************************************)
Padded(a, field, b) == Repeat(Blank, a) \o field \o Repeat(Blank, b)

LEMMA PaddedShows ==
  ASSUME NEW field \in Text, NEW a \in Nat, NEW b \in Nat
  PROVE  /\ Padded(a, field, b) \in Text /\ Len(Padded(a, field, b)) = a + Len(field) + b
         /\ Shows(Padded(a, field, b), field)
<1>0. PICK cell : cell = Padded(a, field, b)
  OBVIOUS
<1>1. PICK x, y : x = Repeat(Blank, a) /\ y = Repeat(Blank, b)
  OBVIOUS
<1>2. x \in Text /\ Len(x) = a /\ y \in Text /\ Len(y) = b
  <2>1. Blank \in Characters
    BY CharactersAssumption
  <2> QED
    BY <1>1, <2>1, RepeatText
<1>3. x \o field \in Text /\ Len(x \o field) = a + Len(field) /\ Len(field) \in Nat
  BY <1>2, ConcatAt
<1>4. cell = (x \o field) \o y
  BY <1>0, <1>1 DEF Padded
<1>5. cell \in Text /\ Len(cell) = a + Len(field) + b
  <2>1. (x \o field) \o y \in Text /\ Len((x \o field) \o y) = Len(x \o field) + Len(y)
    BY <1>2, <1>3, ConcatAt, Zenon
  <2> QED
    BY <1>2, <1>3, <1>4, <2>1, Zenon
<1>6. a \in 0..Len(cell) - Len(field) /\ Len(cell) - Len(field) - a = b
  BY <1>3, <1>5
<1>7. cell = Repeat(Blank, a) \o field \o Repeat(Blank, Len(cell) - Len(field) - a)
  BY <1>0, <1>6 DEF Padded
<1>8. Shows(cell, field)
  BY <1>6, <1>7 DEF Shows
<1> QED
  BY <1>0, <1>5, <1>8

LEMMA OneMore ==
  ASSUME NEW size \in Nat
  PROVE  /\ Repeat(Blank, size) \o <<Blank>> = Repeat(Blank, size + 1)
         /\ Repeat(Blank, 1) = <<Blank>>
         /\ Repeat(Blank, 0) = <<>>
<1>1. Blank \in Characters /\ 1 \in Nat /\ 0 \in Nat /\ size + 1 \in Nat
  <2>1. 1 \in Nat /\ 0 \in Nat /\ size + 1 \in Nat
    OBVIOUS
  <2> QED
    BY <2>1, CharactersAssumption, Zenon
<1>2. PICK x, y, z, e : /\ x = Repeat(Blank, size) /\ y = Repeat(Blank, size + 1)
                        /\ z = Repeat(Blank, 1) /\ e = Repeat(Blank, 0)
  OBVIOUS
<1>3. /\ x \in Text /\ Len(x) = size /\ \A p \in 1..size : x[p] = Blank
      /\ y \in Text /\ Len(y) = size + 1 /\ \A p \in 1..(size + 1) : y[p] = Blank
      /\ z \in Text /\ Len(z) = 1 /\ \A p \in 1..1 : z[p] = Blank
      /\ e \in Text /\ Len(e) = 0
  BY <1>1, <1>2, RepeatText
<1>4. PICK one : one = <<Blank>>
  OBVIOUS
<1>5. one \in Text /\ Len(one) = 1 /\ one[1] = Blank
  BY <1>1, <1>4 DEF Text
<1>6. z = one
  BY <1>3, <1>5, SeqEqual DEF Text
<1>7. e = <<>>
  BY <1>3 DEF Text
<1>8. /\ x \o one \in Text /\ Len(x \o one) = size + 1
      /\ \A q \in 1..size : (x \o one)[q] = x[q]
      /\ \A q \in 1..1 : (x \o one)[size + q] = one[q]
  <2>1. /\ x \o one \in Text /\ Len(x \o one) = Len(x) + Len(one)
        /\ \A q \in 1..Len(x) : (x \o one)[q] = x[q]
        /\ \A q \in 1..Len(one) : (x \o one)[Len(x) + q] = one[q]
    BY <1>3, <1>5, ConcatAt, Zenon
  <2> QED
    BY <1>3, <1>5, <2>1, Zenon
<1>9. \A q \in 1..(size + 1) : (x \o one)[q] = y[q]
  <2>1. \A q \in 1..(size + 1) : q \in 1..size \/ (q = size + 1 /\ 1 \in 1..1)
    OBVIOUS
  <2> QED
    BY <1>3, <1>5, <1>8, <2>1
<1>10. x \o one = y
  BY <1>3, <1>8, <1>9, SeqEqual DEF Text
<1> QED
  BY <1>2, <1>4, <1>6, <1>7, <1>10

LEMMA CenterShows ==
  ASSUME NEW field \in Text, NEW width \in Nat, Len(field) <= width
  PROVE  LET cell == printStrInCenter(field, width)
         IN  cell \in Text /\ Len(cell) = width /\ Shows(cell, field)
<1> DEFINE padding == width - Len(field)
           a == padding \div 2
           extra == IF padding > 0 /\ padding % 2 # 0 THEN <<Blank>> ELSE <<>>
           b == IF padding > 0 /\ padding % 2 # 0 THEN a + 1 ELSE a
           cell == printStrInCenter(field, width)
<1>1. padding \in Nat /\ Len(field) \in Nat
  BY TextLength
<1>2. a \in Nat /\ b \in Nat /\ a + b = padding
  <2> HIDE DEF padding
  <2>1. /\ padding % 2 \in {0, 1} /\ padding = 2 * (padding \div 2) + (padding % 2)
        /\ padding \div 2 \in Nat
    BY <1>1
  <2> QED
    BY <1>1, <2>1
<1>3. PICK x : x = Repeat(Blank, a)
  OBVIOUS
<1>4. x \in Text
  <2>1. Blank \in Characters
    BY CharactersAssumption
  <2> HIDE DEF a
  <2> QED
    BY <1>2, <1>3, <2>1, RepeatText
<1>5. extra \in Text
  <2>1. Blank \in Characters
    BY CharactersAssumption
  <2>2. <<Blank>> \in Text /\ <<>> \in Text
    BY <2>1 DEF Text
  <2> QED
    BY <2>2, Zenon
<1>6. x \o extra = Repeat(Blank, b)
  <2> HIDE DEF a, padding
  <2>1. Repeat(Blank, a) \o <<Blank>> = Repeat(Blank, a + 1)
    BY <1>2, OneMore
  <2>2. x \o <<>> = x
    BY <1>4, ConcatEmptySeq DEF Text
  <2>3. CASE padding > 0 /\ padding % 2 # 0
    BY <1>3, <2>1, <2>3
  <2>4. CASE ~(padding > 0 /\ padding % 2 # 0)
    BY <1>3, <2>2, <2>4
  <2> QED
    BY <2>3, <2>4
<1>7. cell = ((x \o field) \o x) \o extra
  BY <1>3 DEF printStrInCenter
<1> HIDE DEF a, b, extra, padding, cell
<1>8. ((x \o field) \o x) \o extra = (x \o field) \o (x \o extra)
  <2>1. x \o field \in Text
    BY <1>4, ConcatAt
  <2> QED
    BY <1>4, <1>5, <2>1, ConcatAssociative DEF Text
<1>9. cell = Padded(a, field, b)
  BY <1>3, <1>6, <1>7, <1>8, Zenon DEF Padded
<1>10. cell \in Text /\ Len(cell) = a + Len(field) + b /\ Shows(cell, field)
  BY <1>2, <1>9, PaddedShows
<1>11. a + Len(field) + b = width
  BY <1>1, <1>2 DEF padding
<1> QED
  BY <1>10, <1>11 DEF cell

LEMMA FieldShows ==
  ASSUME NEW field \in Text, NEW width \in Nat, Len(field) + 2 <= width,
         NEW numeric \in BOOLEAN
  PROVE  LET cell == printField(field, {}, [isNumeric |-> numeric, width |-> width])
         IN  cell \in Text /\ Len(cell) = width /\ Shows(cell, field)
<1> DEFINE b == width - Len(field) - 1
           cell == printField(field, {}, [isNumeric |-> numeric, width |-> width])
<1>1. b \in Nat /\ b # 0 /\ Len(field) \in Nat /\ b + Len(field) + 1 = width
  BY TextLength
<1>2. Padding(field, width) = Repeat(Blank, b)
  BY DEF Padding
<1>3. Repeat(Blank, b) # <<>>
  <2>1. Blank \in Characters
    BY CharactersAssumption
  <2> HIDE DEF b
  <2>2. Len(Repeat(Blank, b)) = b
    BY <1>1, <2>1, RepeatText
  <2> QED
    BY <1>1, <2>2
<1>4. Margin(field, width) = Repeat(Blank, 1)
  BY <1>2, <1>3, OneMore DEF Margin
<1> HIDE DEF b
<1>5. ~NeedsQuote(field, {})
  BY DEF NeedsQuote
<1>6. cell = <<>> \o (IF numeric THEN printStrRight(field, width) ELSE printStrLeft(field, width)) \o <<>>
  BY <1>5 DEF printField
<1>7. PICK left, right : left = Padded(1, field, b) /\ right = Padded(b, field, 1)
  OBVIOUS
<1>8. /\ left \in Text /\ Len(left) = 1 + Len(field) + b /\ Shows(left, field)
      /\ right \in Text /\ Len(right) = b + Len(field) + 1 /\ Shows(right, field)
  <2>1. 1 \in Nat
    OBVIOUS
  <2> QED
    BY <1>1, <1>7, <2>1, PaddedShows
<1>9. printStrLeft(field, width) = left /\ printStrRight(field, width) = right
  BY <1>2, <1>4, <1>7 DEF printStrLeft, printStrRight, Padded
<1>10. \A text \in Text : <<>> \o text \o <<>> = text
  BY ConcatEmptySeq DEF Text
<1>11. cell = left \/ cell = right
  BY <1>6, <1>8, <1>9, <1>10
<1>12. 1 + Len(field) + b = width /\ b + Len(field) + 1 = width
  BY <1>1
<1> HIDE DEF cell
<1> QED
  BY <1>8, <1>11, <1>12 DEF cell

-----------------------------------------------------------------------------
\* The columns of an aligned table.
Widths == [i \in Columns |-> getColumnInfos[i].width]

HeaderCells == [i \in Columns |-> printStrInCenter(result.names[i], getColumnInfos[i].width)]

RowCells(fields) ==
  [i \in Columns |-> printField(fields[i], options.special, getColumnInfos[i])]

\* What a table is printed from, with its columns aligned.
Table ==
  /\ result \in Results /\ Columns # {}
  /\ ~options.noAlign /\ options.special = {}
  /\ options.delimiter \in Text /\ Len(options.delimiter) = 1

\* A line that can be cut at the crosses of the bar, to read off the fields.
StandsUnder(line, bar, fields) ==
  /\ line \in Text /\ Len(line) = Len(bar)
  /\ \A i \in Columns : Shows(Cell(line, bar, i), fields[i])

LEMMA ColumnsAre ==
  ASSUME Table
  PROVE  /\ Len(result.names) \in Nat \ {0} /\ Columns = 1..Len(result.names)
         /\ Widths \in [Columns -> Nat]
         /\ \A i \in Columns :
              /\ Widths[i] = Width(i) + 2 /\ Width(i) \in Nat
              /\ getColumnInfos[i] = [isNumeric |-> isNumeric(result.types[i]),
                                      width     |-> Widths[i]]
<1>1. Len(result.names) \in Nat /\ Columns = 1..Len(result.names) /\ Columns # {}
  BY ResultIs DEF Table, Columns
<1>2. Len(result.names) # 0
  BY <1>1
<1>3. \A i \in Columns :
        getColumnInfos[i] = [isNumeric |-> isNumeric(result.types[i]), width |-> Width(i) + 2]
  BY DEF getColumnInfos, Table
<1>4. \A i \in Columns : Widths[i] = Width(i) + 2
  <2>1. SUFFICES ASSUME NEW i \in Columns PROVE Widths[i] = Width(i) + 2
    OBVIOUS
  <2>2. PICK w : w = Width(i) + 2
    OBVIOUS
  <2>3. PICK info : info = getColumnInfos[i]
    OBVIOUS
  <2>4. info = [isNumeric |-> isNumeric(result.types[i]), width |-> w]
    BY <1>3, <2>2, <2>3, Zenon
  <2>5. info.width = w
    BY ONLY <2>4
  <2>6. Widths[i] = info.width
    BY <2>3, Zenon DEF Widths
  <2> QED
    BY <2>2, <2>5, <2>6, Zenon
<1>5. \A i \in Columns : Width(i) \in Nat
  BY WidthIs DEF Table
<1>6. Widths = [i \in Columns |-> Widths[i]]
  BY DEF Widths
<1>7. Widths \in [Columns -> Nat]
  BY <1>4, <1>5, <1>6
<1> QED
  BY <1>1, <1>2, <1>3, <1>4, <1>5, <1>7

LEMMA BarsAre ==
  ASSUME Table
  PROVE  printFieldBars = Line(Bars(Len(result.names), Widths), <<"+">>)
<1>1. \A i \in Columns : Widths[i] = getColumnInfos[i].width
  BY DEF Widths
<1>2. [i \in Columns |-> Repeat("-", getColumnInfos[i].width)]
        = [i \in Columns |-> Repeat("-", Widths[i])]
  BY <1>1
<1>3. Bars(Len(result.names), Widths) = [i \in Columns |-> Repeat("-", Widths[i])]
  BY DEF Bars, Columns
<1> QED
  BY <1>2, <1>3 DEF printFieldBars

LEMMA HeadersFit ==
  ASSUME Table
  PROVE  /\ Fits(HeaderCells, Len(result.names), Widths)
         /\ \A i \in Columns : Shows(HeaderCells[i], result.names[i])
<1>1. ASSUME NEW i \in Columns
      PROVE  /\ HeaderCells[i] \in Text /\ Len(HeaderCells[i]) = Widths[i]
             /\ Shows(HeaderCells[i], result.names[i])
  <2>1. PICK field, width : field = result.names[i] /\ width = Widths[i]
    OBVIOUS
  <2>2. result \in Results
    BY DEF Table
  <2>3. field \in Text
    BY <2>1, <2>2, ResultIs
  <2>4. Len(result.names[i]) <= Width(i)
    BY <2>2, WidthIs
  <2>5. /\ Widths[i] = Width(i) + 2 /\ Width(i) \in Nat
        /\ getColumnInfos[i] = [isNumeric |-> isNumeric(result.types[i]), width |-> Widths[i]]
    BY ColumnsAre
  <2>6. width \in Nat /\ Len(field) <= width
    BY <2>1, <2>3, <2>4, <2>5, TextLength
  <2>7. /\ printStrInCenter(field, width) \in Text
        /\ Len(printStrInCenter(field, width)) = width
        /\ Shows(printStrInCenter(field, width), field)
    BY <2>3, <2>6, CenterShows
  <2>8. HeaderCells[i] = printStrInCenter(result.names[i], Widths[i])
    BY <2>5 DEF HeaderCells
  <2> QED
    BY <2>1, <2>7, <2>8
<1>2. HeaderCells = [i \in Columns |-> HeaderCells[i]]
  BY DEF HeaderCells
<1>3. Len(result.names) \in Nat \ {0} /\ Columns = 1..Len(result.names)
  BY ColumnsAre
<1>4. HeaderCells \in Seq(Text) /\ Len(HeaderCells) = Len(result.names)
  BY <1>1, <1>2, <1>3
<1> QED
  BY <1>1, <1>3, <1>4 DEF Fits

LEMMA RowFits ==
  ASSUME Table, NEW k \in DOMAIN result.rows
  PROVE  /\ Fits(RowCells(result.rows[k]), Len(result.names), Widths)
         /\ \A i \in Columns : Shows(RowCells(result.rows[k])[i], result.rows[k][i])
<1> DEFINE cells == RowCells(result.rows[k])
<1>1. ASSUME NEW i \in Columns
      PROVE  /\ cells[i] \in Text /\ Len(cells[i]) = Widths[i]
             /\ Shows(cells[i], result.rows[k][i])
  <2>1. PICK field, width, numeric :
          field = result.rows[k][i] /\ width = Widths[i] /\ numeric = isNumeric(result.types[i])
    OBVIOUS
  <2>2. result \in Results
    BY DEF Table
  <2>3. field \in Text
    BY <2>1, <2>2, ResultIs
  <2>4. Len(result.rows[k][i]) <= Width(i)
    BY <2>2, WidthIs
  <2>5. /\ Widths[i] = Width(i) + 2 /\ Width(i) \in Nat
        /\ getColumnInfos[i] = [isNumeric |-> isNumeric(result.types[i]), width |-> Widths[i]]
    BY ColumnsAre
  <2>6. width \in Nat /\ Len(field) + 2 <= width
    BY <2>1, <2>3, <2>4, <2>5, TextLength
  <2>7. numeric \in BOOLEAN
    BY <2>1 DEF isNumeric
  <2>8. LET cell == printField(field, {}, [isNumeric |-> numeric, width |-> width])
        IN  cell \in Text /\ Len(cell) = width /\ Shows(cell, field)
    BY <2>3, <2>6, <2>7, FieldShows
  <2>9. cells[i] = printField(result.rows[k][i], options.special, getColumnInfos[i])
    BY DEF RowCells
  <2>10. cells[i] = printField(field, {}, [isNumeric |-> numeric, width |-> width])
    BY <2>1, <2>5, <2>9, Zenon DEF Table
  <2> HIDE DEF cells
  <2> QED
    BY <2>1, <2>8, <2>10, Zenon
<1>2. cells = [i \in Columns |-> cells[i]]
  BY DEF RowCells
<1>3. Len(result.names) \in Nat \ {0} /\ Columns = 1..Len(result.names)
  BY ColumnsAre
<1> HIDE DEF cells
<1>4. cells \in Seq(Text) /\ Len(cells) = Len(result.names)
  BY <1>1, <1>2, <1>3
<1>5. Fits(cells, Len(result.names), Widths)
  BY <1>1, <1>3, <1>4 DEF Fits
<1> QED
  BY <1>1, <1>5 DEF cells

LEMMA LineStands ==
  ASSUME Table, NEW cells, NEW fields, Fits(cells, Len(result.names), Widths),
         \A i \in Columns : Shows(cells[i], fields[i])
  PROVE  StandsUnder(Line(cells, options.delimiter), printFieldBars, fields)
<1>1. PICK n, w, bar, separator :
        /\ n = Len(result.names) /\ w = Widths /\ bar = Line(Bars(n, w), <<"+">>)
        /\ separator = options.delimiter
  OBVIOUS
<1>2. n \in Nat \ {0} /\ Columns = 1..n /\ w \in [1..n -> Nat]
  <2>1. /\ Len(result.names) \in Nat \ {0} /\ Columns = 1..Len(result.names)
        /\ Widths \in [Columns -> Nat]
    BY ColumnsAre
  <2> QED
    BY <1>1, <2>1
<1>3. bar = printFieldBars
  <2>1. printFieldBars = Line(Bars(Len(result.names), Widths), <<"+">>)
    BY BarsAre
  <2> QED
    BY <1>1, <2>1
<1>4. Fits(cells, n, w) /\ separator \in Text /\ Len(separator) = 1
  BY <1>1 DEF Table
<1>5. PICK o : Begins(o, n, w)
  <2>1. n \in Nat
    BY <1>2
  <2>2. \E o \in [0..n -> Nat] : o[0] = 0 /\ \A j \in 1..n : o[j] = o[j - 1] + w[j] + 1
    BY <1>2, <2>1, SumsExist
  <2> QED
    BY <2>2, Zenon DEF Begins
<1>6. Line(cells, separator) \in Text /\ Len(Line(cells, separator)) = o[n] - 1
  BY <1>2, <1>4, <1>5, LineAt
<1>7. Len(bar) = o[n] - 1
  <2>1. PICK bars, plus : bars = Bars(n, w) /\ plus = <<"+">>
    OBVIOUS
  <2>2. Fits(bars, n, w) /\ plus \in Text /\ Len(plus) = 1
    BY <1>2, <2>1, BarsFit
  <2>3. Len(Line(bars, plus)) = o[n] - 1
    BY <1>2, <1>5, <2>2, LineAt
  <2> QED
    BY <1>1, <2>1, <2>3
<1>8. \A i \in Columns : Cell(Line(cells, separator), Line(Bars(n, w), <<"+">>), i) = cells[i]
  BY <1>2, <1>4, CutsIntoCells
<1>9. \A i \in Columns : Shows(Cell(Line(cells, separator), bar, i), fields[i])
  BY <1>1, <1>8
<1> QED
  BY <1>1, <1>3, <1>6, <1>7, <1>9 DEF StandsUnder

\* The header and every row of an aligned table stand under its bar.
LEMMA TableStands ==
  ASSUME Table
  PROVE  /\ StandsUnder(printHeaders, printFieldBars, result.names)
         /\ \A k \in DOMAIN result.rows :
              StandsUnder(printRow(result.rows[k]), printFieldBars, result.rows[k])
<1>1. printHeaders = Line(HeaderCells, options.delimiter)
  BY DEF printHeaders, HeaderCells
<1>2. \A k \in DOMAIN result.rows :
        printRow(result.rows[k]) = Line(RowCells(result.rows[k]), options.delimiter)
  BY DEF printRow, RowCells
<1>3. StandsUnder(Line(HeaderCells, options.delimiter), printFieldBars, result.names)
  BY HeadersFit, LineStands
<1>4. ASSUME NEW k \in DOMAIN result.rows
      PROVE  StandsUnder(Line(RowCells(result.rows[k]), options.delimiter), printFieldBars,
                         result.rows[k])
  BY RowFits, LineStands
<1> QED
  BY <1>1, <1>2, <1>3, <1>4

-----------------------------------------------------------------------------
(***************************************************************************)
(* A text without a newline: what the lines of an aligned table are when   *)
(* the fields and the separator are.                                       *)
(***************************************************************************)
OneLine(text) == text \in Text /\ \A p \in 1..Len(text) : text[p] # Newline

LEMMA OneLineIs ==
  ASSUME NEW text \in Text, ~Contains(text, Newline)
  PROVE  OneLine(text)
BY DEF OneLine, Contains

LEMMA NotNewline ==
  Blank # Newline /\ "-" # Newline /\ "+" # Newline /\ "t" # Newline /\ "summary" # Newline
BY DEF Blank, Newline

LEMMA SingleOneLine ==
  ASSUME NEW char \in Characters, char # Newline
  PROVE  OneLine(<<char>>)
<1>1. PICK text : text = <<char>>
  OBVIOUS
<1>2. text \in Text /\ Len(text) = 1 /\ text[1] = char
  BY <1>1, SingleText
<1>3. \A p \in 1..1 : p = 1
  OBVIOUS
<1> QED
  BY <1>1, <1>2, <1>3 DEF OneLine

LEMMA EmptyOneLine == OneLine(<<>>)
<1>1. <<>> \in Text /\ Len(<<>>) = 0
  BY DEF Text
<1>2. 1..0 = {}
  OBVIOUS
<1> QED
  BY <1>1, <1>2 DEF OneLine

LEMMA ConcatOneLine ==
  ASSUME NEW x, OneLine(x), NEW y, OneLine(y)
  PROVE  OneLine(x \o y)
<1>1. x \in Text /\ y \in Text
  BY DEF OneLine
<1>2. PICK a \in Nat, b \in Nat : a = Len(x) /\ b = Len(y)
  BY <1>1, TextLength
<1>3. PICK z : z = x \o y
  OBVIOUS
<1>4. /\ z \in Text /\ Len(z) = a + b
      /\ \A q \in 1..a : z[q] = x[q]
      /\ \A q \in 1..b : z[a + q] = y[q]
  BY <1>1, <1>2, <1>3, ConcatAt
<1>5. ASSUME NEW q \in 1..(a + b) PROVE z[q] # Newline
  <2>1. CASE q \in 1..a
    BY <1>2, <1>4, <2>1 DEF OneLine
  <2>2. CASE q \notin 1..a
    <3>1. q - a \in 1..b /\ a + (q - a) = q
      BY <2>2
    <3> QED
      BY <1>2, <1>4, <3>1 DEF OneLine
  <2> QED
    BY <2>1, <2>2
<1> QED
  BY <1>3, <1>4, <1>5 DEF OneLine

LEMMA RepeatOneLine ==
  ASSUME NEW char \in Characters, char # Newline, NEW size \in Int
  PROVE  OneLine(Repeat(char, size))
<1>1. CASE size \in Nat
  <2>1. PICK text : text = Repeat(char, size)
    OBVIOUS
  <2>2. text \in Text /\ Len(text) = size /\ \A p \in 1..size : text[p] = char
    BY <1>1, <2>1, RepeatText
  <2> QED
    BY <2>1, <2>2 DEF OneLine
<1>2. CASE size \notin Nat
  <2>1. 1..size = {}
    BY <1>2
  <2>2. Repeat(char, size) = <<>>
    BY <2>1 DEF Repeat
  <2> QED
    BY <2>2, EmptyOneLine
<1> QED
  BY <1>1, <1>2

LEMMA ShownOneLine ==
  ASSUME NEW cell \in Text, NEW field, OneLine(field), Shows(cell, field)
  PROVE  OneLine(cell)
<1>1. PICK a \in Int, b \in Int : a = Len(cell) /\ b = Len(field)
  BY TextLength DEF OneLine
<1>2. PICK before \in 0..(a - b) :
        cell = Repeat(Blank, before) \o field \o Repeat(Blank, a - b - before)
  BY <1>1 DEF Shows
<1>3. before \in Int /\ a - b - before \in Int
  OBVIOUS
<1>4. Blank \in Characters /\ Blank # Newline
  BY CharactersAssumption, NotNewline
<1>5. OneLine(Repeat(Blank, before)) /\ OneLine(Repeat(Blank, a - b - before))
  BY <1>3, <1>4, RepeatOneLine
<1>6. OneLine(Repeat(Blank, before) \o field)
  BY <1>5, ConcatOneLine
<1> QED
  BY <1>2, <1>5, <1>6, ConcatOneLine

LEMMA LineOneLine ==
  ASSUME NEW n \in Nat \ {0}, NEW w \in [1..n -> Nat], NEW cells, Fits(cells, n, w),
         NEW separator, OneLine(separator), Len(separator) = 1,
         \A i \in 1..n : OneLine(cells[i])
  PROVE  OneLine(Line(cells, separator))
<1>1. PICK o : Begins(o, n, w)
  <2>1. n \in Nat
    OBVIOUS
  <2>2. \E o \in [0..n -> Nat] : o[0] = 0 /\ \A j \in 1..n : o[j] = o[j - 1] + w[j] + 1
    BY <2>1, SumsExist
  <2> QED
    BY <2>2, Zenon DEF Begins
<1>2. PICK line : line = Line(cells, separator)
  OBVIOUS
<1>3. /\ line \in Text /\ Len(line) = o[n] - 1
      /\ \A i \in 1..n : \A p \in 1..w[i] : line[o[i - 1] + p] = cells[i][p]
      /\ \A i \in 1..(n - 1) : line[o[i]] = separator[1]
  <2>1. separator \in Text
    BY DEF OneLine
  <2>2. /\ Line(cells, separator) \in Text /\ Len(Line(cells, separator)) = o[n] - 1
        /\ \A i \in 1..n : \A p \in 1..w[i] :
             Line(cells, separator)[o[i - 1] + p] = cells[i][p]
        /\ \A i \in 1..(n - 1) : Line(cells, separator)[o[i]] = separator[1]
    BY <1>1, <2>1, LineAt
  <2> QED
    BY <1>2, <2>2, Zenon
<1>4. o[n] \in Nat
  <2>1. n \in 0..n
    OBVIOUS
  <2> QED
    BY <1>1, <2>1 DEF Begins
<1>5. ASSUME NEW k \in 1..(o[n] - 1) PROVE line[k] # Newline
  <2>1. k \in 1..o[n] /\ k < o[n]
    BY <1>4
  <2>2. PICK i \in 1..n : o[i - 1] < k /\ k <= o[i]
    BY <1>1, <2>1, CellOf
  <2>3. PICK a \in Nat, b \in Nat : a = o[i - 1] /\ b = w[i] /\ o[i] = a + b + 1
    <3>1. i - 1 \in 0..n
      OBVIOUS
    <3> QED
      BY <1>1, <3>1 DEF Begins
  <2>4. CASE k = o[i]
    <3>1. i # n
      BY <2>1, <2>4
    <3>2. i \in 1..(n - 1)
      BY <3>1
    <3>3. line[k] = separator[1]
      BY <1>3, <2>4, <3>2
    <3>4. 1 \in 1..Len(separator)
      OBVIOUS
    <3> QED
      BY <3>3, <3>4 DEF OneLine
  <2>5. CASE k # o[i]
    <3>1. k - a \in 1..b /\ a + (k - a) = k
      <4>1. k \in Nat /\ a < k /\ k < a + b + 1
        BY <2>2, <2>3, <2>5
      <4> QED
        BY ONLY <4>1, a \in Nat, b \in Nat
    <3>2. line[k] = cells[i][k - a]
      BY <1>3, <2>3, <3>1
    <3>3. k - a \in 1..Len(cells[i])
      BY <2>3, <3>1 DEF Fits
    <3> QED
      BY <3>2, <3>3 DEF OneLine
  <2> QED
    BY <2>4, <2>5
<1> QED
  BY <1>2, <1>3, <1>5 DEF OneLine

LEMMA TableOneLine ==
  ASSUME Table, OneLineEach
  PROVE  /\ OneLine(printHeaders) /\ OneLine(printFieldBars)
         /\ \A k \in DOMAIN result.rows : OneLine(printRow(result.rows[k]))
<1>1. PICK n, w, separator : n = Len(result.names) /\ w = Widths /\ separator = options.delimiter
  OBVIOUS
<1>2. n \in Nat \ {0} /\ Columns = 1..n /\ w \in [1..n -> Nat]
  <2>1. /\ Len(result.names) \in Nat \ {0} /\ Columns = 1..Len(result.names)
        /\ Widths \in [Columns -> Nat]
    BY ColumnsAre
  <2> QED
    BY <1>1, <2>1
<1>3. OneLine(separator) /\ Len(separator) = 1
  BY <1>1, OneLineIs DEF Table, OneLineEach
<1>4. /\ \A i \in Columns : OneLine(result.names[i])
      /\ \A k \in DOMAIN result.rows : \A i \in Columns : OneLine(result.rows[k][i])
  <2>1. /\ \A i \in Columns : result.names[i] \in Text
        /\ \A k \in DOMAIN result.rows : \A i \in Columns : result.rows[k][i] \in Text
    BY ResultIs DEF Table
  <2> QED
    BY <2>1, OneLineIs DEF OneLineEach
<1>5. ASSUME NEW cells, NEW fields, Fits(cells, n, w),
             \A i \in Columns : Shows(cells[i], fields[i]) /\ OneLine(fields[i])
      PROVE  OneLine(Line(cells, separator))
  <2>1. \A i \in 1..n : OneLine(cells[i])
    <3>1. \A i \in 1..n : cells[i] \in Text
      BY <1>5 DEF Fits
    <3> QED
      BY <1>2, <1>5, <3>1, ShownOneLine
  <2> QED
    BY <1>2, <1>3, <1>5, <2>1, LineOneLine
<1>6. OneLine(printHeaders)
  <2>1. printHeaders = Line(HeaderCells, separator)
    BY <1>1 DEF printHeaders, HeaderCells
  <2>2. Fits(HeaderCells, n, w) /\ \A i \in Columns : Shows(HeaderCells[i], result.names[i])
    BY <1>1, HeadersFit
  <2>3. PICK cells, names : cells = HeaderCells /\ names = result.names
    OBVIOUS
  <2>4. OneLine(Line(cells, separator))
    BY <1>4, <1>5, <2>2, <2>3
  <2> QED
    BY <2>1, <2>3, <2>4
<1>7. ASSUME NEW k \in DOMAIN result.rows PROVE OneLine(printRow(result.rows[k]))
  <2>1. printRow(result.rows[k]) = Line(RowCells(result.rows[k]), separator)
    BY <1>1 DEF printRow, RowCells
  <2>2. /\ Fits(RowCells(result.rows[k]), n, w)
        /\ \A i \in Columns : Shows(RowCells(result.rows[k])[i], result.rows[k][i])
    BY <1>1, RowFits
  <2>3. PICK cells, fields : cells = RowCells(result.rows[k]) /\ fields = result.rows[k]
    OBVIOUS
  <2>4. OneLine(Line(cells, separator))
    BY <1>4, <1>5, <2>2, <2>3
  <2> QED
    BY <2>1, <2>3, <2>4
<1>8. OneLine(printFieldBars)
  <2>1. PICK bars, plus : bars = Bars(n, w) /\ plus = <<"+">>
    OBVIOUS
  <2>2. printFieldBars = Line(bars, plus)
    <3>1. printFieldBars = Line(Bars(Len(result.names), Widths), <<"+">>)
      BY BarsAre
    <3> QED
      BY <1>1, <2>1, <3>1
  <2>3. Fits(bars, n, w) /\ Len(plus) = 1
    BY <1>2, <2>1, BarsFit
  <2>4. OneLine(plus)
    <3>1. "+" \in Characters /\ "+" # Newline
      BY CharactersAssumption, NotNewline
    <3> QED
      BY <2>1, <3>1, SingleOneLine
  <2>5. \A i \in 1..n : OneLine(bars[i])
    <3>1. "-" \in Characters /\ "-" # Newline /\ \A i \in 1..n : w[i] \in Int
      <4>1. \A i \in 1..n : w[i] \in Int
        BY <1>2
      <4> QED
        BY <4>1, CharactersAssumption, NotNewline
    <3>2. \A i \in 1..n : bars[i] = Repeat("-", w[i])
      BY <2>1 DEF Bars
    <3> QED
      BY <3>1, <3>2, RepeatOneLine
  <2> QED
    BY <1>2, <2>2, <2>3, <2>4, <2>5, LineOneLine
<1> QED
  BY <1>6, <1>7, <1>8

\* The width of the title is a number.
LEMMA TotalWidthIs ==
  ASSUME Table
  PROVE  TotalWidth(getColumnInfos) \in Int
<1> DEFINE n == Len(result.names)
           infos == getColumnInfos
           Iterates(iter) == iter = [t \in SUBSET DOMAIN infos |->
             IF t = {} THEN 0 ELSE iter[t \ {Max(t)}] + infos[Max(t)].width]
           it == CHOOSE iter : Iterates(iter)
           steps == [k \in 1..n |-> [v \in Int |-> v + infos[k].width]]
<1>1. n \in Nat /\ DOMAIN infos = 1..n /\ \A k \in 1..n : infos[k].width \in Int
  <2>1. Len(result.names) \in Nat \ {0} /\ Columns = 1..Len(result.names)
        /\ Widths \in [Columns -> Nat]
    BY ColumnsAre
  <2>2. \A k \in Columns : Widths[k] = infos[k].width
    BY DEF Widths
  <2>3. DOMAIN infos = Columns
    BY DEF getColumnInfos
  <2> HIDE DEF infos
  <2> QED
    BY <2>1, <2>2, <2>3
<1> HIDE DEF infos
<1>2. TotalWidth(infos) = it[1..n]
  <2>1. Len(infos) = n
    BY <1>1, ColumnsAre DEF getColumnInfos, infos
  <2> QED
    BY <1>1, <2>1 DEF TotalWidth, FoldLeft, MapThenFoldSet, infos
<1>3. steps \in [1..n -> [Int -> Int]]
  <2> HIDE DEF n
  <2>1. \A k \in 1..n : \A v \in Int : v + infos[k].width \in Int
    BY <1>1
  <2> QED
    BY <2>1
<1>4. PICK g \in [SUBSET (1..n) -> Int] : FoldOf(g, n, 0, steps)
  <2> HIDE DEF n, steps
  <2> QED
    BY <1>1, <1>3, FoldExists, 0 \in Int
<1>5. Iterates(g)
  <2>1. ASSUME NEW t \in SUBSET (1..n)
        PROVE  g[t] = IF t = {} THEN 0 ELSE g[t \ {Max(t)}] + infos[Max(t)].width
    <3>1. CASE t # {}
      <4>1. Max(t) \in 1..n
        <5> HIDE DEF n
        <5> QED
          BY <1>1, <3>1, MaxOfSet
      <4>2. g[t] = steps[Max(t)][g[t \ {Max(t)}]] /\ g[t \ {Max(t)}] \in Int
        BY <1>4, <3>1 DEF FoldOf
      <4> QED
        BY <3>1, <4>1, <4>2
    <3>2. CASE t = {}
      BY <1>4, <3>2 DEF FoldOf
    <3> QED
      BY <3>1, <3>2
  <2> HIDE DEF n
  <2> QED
    BY <1>1, <2>1
<1>6. Iterates(it)
  <2> HIDE DEF Iterates
  <2> QED
    BY <1>5
<1> HIDE DEF it
<1> DEFINE Bad == {k \in 0..n : it[1..k] \notin Int}
<1>7. it[1..0] \in Int
  <2>1. 1..0 = {}
    OBVIOUS
  <2>2. it[{}] = 0
    BY <1>6
  <2> QED
    BY <2>1, <2>2
<1>8. ASSUME NEW k \in 1..n PROVE it[1..k] = it[1..(k - 1)] + infos[k].width
  <2>1. 1..k # {} /\ Max(1..k) = k /\ (1..k) \ {k} = 1..(k - 1)
    <3>1. k \in Nat /\ k # 0
      OBVIOUS
    <3> QED
      BY <3>1, MaxOfRange
  <2>2. 1..k \in SUBSET DOMAIN infos
    BY <1>1
  <2> HIDE DEF n
  <2>3. \A t \in SUBSET DOMAIN infos :
          it[t] = IF t = {} THEN 0 ELSE it[t \ {Max(t)}] + infos[Max(t)].width
    BY <1>6, Zenon
  <2>4. it[1..k] = it[(1..k) \ {Max(1..k)}] + infos[Max(1..k)].width
    BY <2>1, <2>2, <2>3, Zenon
  <2> QED
    BY <2>1, <2>4, Zenon
<1>9. Bad = {}
  <2>1. SUFFICES ASSUME Bad # {} PROVE FALSE
    OBVIOUS
  <2>2. PICK k \in Bad : \A y \in Bad : k <= y
    <3>1. Bad \subseteq Nat
      OBVIOUS
    <3> HIDE DEF Bad
    <3> QED
      BY <2>1, <3>1, SmallestNumber
  <2>3. k \in 0..n /\ it[1..k] \notin Int
    OBVIOUS
  <2>4. k # 0
    BY <1>7, <2>3
  <2>5. k \in 1..n /\ k - 1 \in 0..n /\ ~(k <= k - 1)
    BY <2>3, <2>4
  <2>6. it[1..(k - 1)] \in Int
    BY <2>2, <2>5
  <2> HIDE DEF n
  <2> QED
    BY <1>1, <1>8, <2>3, <2>5, <2>6
<1>10. n \in 0..n
  BY <1>1
<1> QED
  BY <1>2, <1>9, <1>10 DEF infos

LEMMA TitleOneLine ==
  ASSUME Table
  PROVE  OneLine(printStrInCenter(Title, TotalWidth(getColumnInfos)))
<1>1. PICK width \in Int : width = TotalWidth(getColumnInfos)
  BY TotalWidthIs
<1>2. Blank \in Characters /\ Blank # Newline /\ "t" \in Characters /\ "t" # Newline
  BY CharactersAssumption, NotNewline
<1>3. OneLine(Title) /\ Len(Title) = 1
  BY <1>2, SingleOneLine, SingleText DEF Title
<1>4. PICK half, rest :
        /\ half = Repeat(Blank, (width - Len(Title)) \div 2)
        /\ rest = (IF width - Len(Title) > 0 /\ (width - Len(Title)) % 2 # 0
                     THEN <<Blank>> ELSE <<>>)
  OBVIOUS
<1>5. OneLine(half) /\ OneLine(rest)
  <2>1. (width - 1) \div 2 \in Int
    OBVIOUS
  <2> QED
    BY <1>2, <1>3, <1>4, <2>1, RepeatOneLine, SingleOneLine, EmptyOneLine
<1>6. OneLine(half \o Title)
  BY <1>3, <1>5, ConcatOneLine
<1>7. OneLine((half \o Title) \o half)
  BY <1>5, <1>6, ConcatOneLine
<1>8. OneLine(((half \o Title) \o half) \o rest)
  BY <1>5, <1>7, ConcatOneLine
<1> QED
  BY <1>1, <1>4, <1>8 DEF printStrInCenter

(***************************************************************************)
(* Lines without a newline in them, printed one after the other, are the   *)
(* lines of the text.                                                      *)
(***************************************************************************)
LEMMA CutAtNewlines ==
  ASSUME NEW m \in Nat \ {0}, NEW lines \in [1..m -> Text],
         \A k \in 1..m : OneLine(lines[k]),
         NEW pieces \in Seq(Text), Len(pieces) = m,
         \A k \in 1..m : pieces[k] = Append(lines[k], Newline),
         NEW text, text = FlattenSeq(pieces), NEW i \in 1..m
  PROVE  Between(text, LineEnds(text), i) = lines[i]
<1>1. PICK w \in [1..m -> Nat] : \A k \in 1..m : w[k] = Len(lines[k])
  <2>1. \A k \in 1..m : Len(lines[k]) \in Nat
    BY TextLength
  <2> WITNESS [k \in 1..m |-> Len(lines[k])] \in [1..m -> Nat]
  <2> QED
    BY <2>1
<1>2. PICK o : Begins(o, m, w)
  <2>1. m \in Nat
    OBVIOUS
  <2>2. \E o \in [0..m -> Nat] : o[0] = 0 /\ \A j \in 1..m : o[j] = o[j - 1] + w[j] + 1
    BY <2>1, SumsExist
  <2> QED
    BY <2>2, Zenon DEF Begins
<1>3. \A k \in 1..m : /\ Len(pieces[k]) = w[k] + 1
                      /\ pieces[k][w[k] + 1] = Newline
                      /\ \A p \in 1..w[k] : pieces[k][p] = lines[k][p]
  <2>1. Newline \in Characters
    BY CharactersAssumption
  <2> SUFFICES ASSUME NEW k \in 1..m
               PROVE  /\ Len(pieces[k]) = w[k] + 1
                      /\ pieces[k][w[k] + 1] = Newline
                      /\ \A p \in 1..w[k] : pieces[k][p] = lines[k][p]
    OBVIOUS
  <2>2. PICK line \in Text : line = lines[k]
    OBVIOUS
  <2>3. /\ Len(Append(line, Newline)) = Len(line) + 1
        /\ Append(line, Newline)[Len(line) + 1] = Newline
        /\ \A p \in 1..Len(line) : Append(line, Newline)[p] = line[p]
    BY <2>1, AppendText
  <2>4. pieces[k] = Append(line, Newline) /\ w[k] = Len(line)
    BY <1>1, <2>2
  <2> QED
    BY <2>2, <2>3, <2>4
<1>4. /\ \A k \in 0..m : o[k] \in Nat
      /\ \A k \in 1..m : k - 1 \in 0..m /\ o[k] = o[k - 1] + w[k] + 1 /\ w[k] \in Nat
      /\ o[0] = 0 /\ 0 \in 0..m /\ m \in 0..m
  <2>1. (\A k \in 1..m : k - 1 \in 0..m) /\ 0 \in 0..m /\ m \in 0..m
    OBVIOUS
  <2> QED
    BY <1>2, <2>1 DEF Begins
<1> DEFINE Spans(k, a, b) == a = o[k - 1] /\ b = w[k] /\ o[k] = a + b + 1
<1>4a. \A k \in 1..m : \E a, b \in Nat : Spans(k, a, b)
  <2> SUFFICES ASSUME NEW k \in 1..m PROVE \E a, b \in Nat : Spans(k, a, b)
    OBVIOUS
  <2>1. k - 1 \in 0..m /\ o[k] = o[k - 1] + w[k] + 1 /\ w[k] \in Nat
    BY <1>4, Zenon
  <2>2. o[k - 1] \in Nat
    BY <1>4, <2>1, Zenon
  <2> QED
    BY <2>1, <2>2, Zenon
<1>5. \A k \in 1..m : o[k] = o[k - 1] + Len(pieces[k])
  <2> SUFFICES ASSUME NEW k \in 1..m PROVE o[k] = o[k - 1] + Len(pieces[k])
    OBVIOUS
  <2>1. PICK a \in Nat, b \in Nat : a = o[k - 1] /\ b = w[k] /\ o[k] = a + b + 1
    BY <1>4a, Zenon
  <2>2. Len(pieces[k]) = b + 1
    BY <1>3, <2>1
  <2>3. a + b + 1 = a + (b + 1)
    OBVIOUS
  <2> QED
    BY <2>1, <2>2, <2>3
<1>6. /\ text \in Text /\ Len(text) = o[m]
      /\ \A k \in 1..m : \A p \in 1..Len(pieces[k]) : text[o[k - 1] + p] = pieces[k][p]
  <2>1. o \in [0..m -> Nat] /\ o[0] = 0
    BY <1>2 DEF Begins
  <2>2. /\ FlattenSeq(pieces) \in Text /\ Len(FlattenSeq(pieces)) = o[m]
        /\ \A k \in 1..m : \A p \in 1..Len(pieces[k]) :
             FlattenSeq(pieces)[o[k - 1] + p] = pieces[k][p]
    BY <1>5, <2>1, FlattenAt
  <2> QED
    BY <2>2, Zenon
<1>7. ASSUME NEW k \in 1..m
      PROVE  /\ text[o[k]] = Newline
             /\ \A p \in 1..w[k] : text[o[k - 1] + p] = lines[k][p] /\ lines[k][p] # Newline
  <2>1. PICK a \in Nat, b \in Nat : a = o[k - 1] /\ b = w[k] /\ o[k] = a + b + 1
    BY <1>4a, Zenon
  <2>2. /\ Len(pieces[k]) = b + 1 /\ pieces[k][b + 1] = Newline
        /\ \A p \in 1..b : pieces[k][p] = lines[k][p]
    BY <1>3, <2>1
  <2>3. b + 1 \in 1..(b + 1) /\ (\A p \in 1..b : p \in 1..(b + 1)) /\ a + (b + 1) = a + b + 1
    OBVIOUS
  <2>4. \A p \in 1..(b + 1) : text[a + p] = pieces[k][p]
    BY <1>6, <2>1, <2>2
  <2>5. text[a + b + 1] = Newline
    BY <2>2, <2>3, <2>4
  <2>6. \A p \in 1..b : text[a + p] = lines[k][p]
    BY <2>2, <2>3, <2>4
  <2>7. \A p \in 1..b : lines[k][p] # Newline
    BY <1>1, <2>1 DEF OneLine
  <2> QED
    BY <2>1, <2>5, <2>6, <2>7
<1>8. \A j, k \in 0..m : j < k => o[j] < o[k]
  <2>1. m \in Nat
    OBVIOUS
  <2> QED
    BY <1>2, <2>1, BeginsRise
<1>9. DOMAIN text = 1..o[m]
  BY <1>6 DEF Text
<1> DEFINE places == {0} \cup {k \in DOMAIN text : text[k] = Newline}
<1>9a. LineEnds(text) = places
  BY DEF LineEnds
<1>10. ASSUME NEW k \in 0..m PROVE o[k] \in places
  <2>1. CASE k = 0
    BY <1>4, <2>1
  <2>2. CASE k # 0
    <3>1. k \in 1..m /\ 0 < k /\ (k = m \/ k < m)
      BY <2>2
    <3>2. text[o[k]] = Newline
      BY <1>7, <3>1
    <3>3. o[k] \in Nat /\ o[m] \in Nat
      BY <1>4, Zenon
    <3>4. 0 < o[k]
      BY <1>4, <1>8, <3>1, Zenon
    <3>5. k < m => o[k] < o[m]
      BY <1>4, <1>8, Zenon
    <3>6. o[k] \in 1..o[m]
      BY <3>1, <3>3, <3>4, <3>5
    <3> QED
      BY <1>9, <3>2, <3>6
  <2> QED
    BY <2>1, <2>2
<1>11. ASSUME NEW q \in 1..o[m], text[q] = Newline PROVE \E k \in 0..m : q = o[k]
  <2>1. PICK k \in 1..m : o[k - 1] < q /\ q <= o[k]
    <3>1. m \in Nat
      OBVIOUS
    <3> QED
      BY <1>2, <3>1, CellOf
  <2>2. PICK a \in Nat, b \in Nat : a = o[k - 1] /\ b = w[k] /\ o[k] = a + b + 1
    BY <1>4a, Zenon
  <2>3. q = o[k]
    <3>1. SUFFICES ASSUME q # o[k] PROVE FALSE
      OBVIOUS
    <3>2. q \in Nat /\ a < q /\ q < a + b + 1
      <4>1. a < q /\ q <= a + b + 1 /\ q # a + b + 1
        BY <2>1, <2>2, <3>1, Zenon
      <4>2. o[m] \in Nat
        BY <1>4, Zenon
      <4>3. q \in Nat
        BY <4>2
      <4> QED
        BY ONLY <4>1, <4>3, a \in Nat, b \in Nat
    <3>3. q - a \in 1..b /\ a + (q - a) = q
      BY ONLY <3>2, a \in Nat, b \in Nat
    <3>4. text[a + (q - a)] = lines[k][q - a] /\ lines[k][q - a] # Newline
      BY <1>7, <2>2, <3>3
    <3> QED
      BY <1>11, <3>3, <3>4
  <2>4. k \in 0..m
    OBVIOUS
  <2> QED
    BY <2>3, <2>4
<1>12. places = {o[k] : k \in 0..m}
  <2>1. ASSUME NEW q \in places PROVE \E k \in 0..m : q = o[k]
    BY <1>4, <1>9, <1>11
  <2> HIDE DEF places
  <2> QED
    BY <1>10, <2>1
<1> HIDE DEF places
<1>13. Between(text, places, i) = SubSeq(text, o[i - 1] + 1, o[i] - 1)
  <2>1. Between(text, {o[j] : j \in 0..m}, i) = SubSeq(text, o[i - 1] + 1, o[i] - 1)
    BY ONLY <1>2, BetweenPlaces, m \in Nat \ {0}, w \in [1..m -> Nat], i \in 1..m
  <2> QED
    BY <1>12, <2>1
<1>14. PICK a \in Nat, b \in Nat : a = o[i - 1] /\ b = w[i] /\ o[i] = a + b + 1
  BY <1>4a, Zenon
<1>15. SubSeq(text, a + 1, a + b) = lines[i]
  <2>1. a + b <= Len(text)
    <3>1. i \in 0..m /\ (i = m \/ i < m)
      OBVIOUS
    <3>2. o[i] <= o[m] /\ o[i] \in Nat /\ o[m] \in Nat
      BY <1>4, <1>8, <3>1
    <3>3. PICK c \in Nat : c = o[m] /\ a + b + 1 <= c
      BY <1>14, <3>2, Zenon
    <3>4. a + b <= c
      BY <3>3
    <3> QED
      BY <1>6, <3>3, <3>4, Zenon
  <2>2. lines[i] \in Text /\ Len(lines[i]) = b
    BY <1>1, <1>14
  <2>3. \A p \in 1..b : text[a + p] = lines[i][p]
    BY <1>7, <1>14
  <2> QED
    BY ONLY <1>6, <2>1, <2>2, <2>3, CutOut, a \in Nat, b \in Nat
<1>16. o[i] - 1 = a + b
  BY <1>14
<1> QED
  BY <1>9a, <1>13, <1>14, <1>15, <1>16

-----------------------------------------------------------------------------
IsSequence(pieces) == \E set : pieces \in Seq(set)

LEMMA AppendAt ==
  ASSUME NEW pieces, IsSequence(pieces), NEW piece
  PROVE  /\ IsSequence(Append(pieces, piece)) /\ Len(pieces) \in Nat
         /\ Len(Append(pieces, piece)) = Len(pieces) + 1
         /\ \A k \in 1..Len(pieces) : Append(pieces, piece)[k] = pieces[k]
         /\ Append(pieces, piece)[Len(pieces) + 1] = piece
<1>1. PICK set : pieces \in Seq(set)
  BY DEF IsSequence
<1>2. PICK larger : larger = set \cup {piece}
  OBVIOUS
<1>3. pieces \in Seq(larger) /\ piece \in larger
  BY <1>1, <1>2
<1>4. Append(pieces, piece) \in Seq(larger)
  BY <1>3
<1> QED
  BY <1>3, <1>4 DEF IsSequence

LEMMA OneMorePiece ==
  ASSUME NEW pieces, IsSequence(pieces), NEW piece
  PROVE  pieces \o <<piece>> = Append(pieces, piece) /\ pieces \o <<>> = pieces
<1>1. PICK set : pieces \in Seq(set)
  BY DEF IsSequence
<1>2. PICK larger : larger = set \cup {piece}
  OBVIOUS
<1>3. pieces \in Seq(larger) /\ piece \in larger
  BY <1>1, <1>2
<1> QED
  BY <1>3

(***************************************************************************)
(* What stands where, and when: the title if there is one, the header, the *)
(* bar, the rows printed so far, the summary and an empty line.            *)
(***************************************************************************)
TitleLines == IF title THEN 1 ELSE 0

LaidLine(k) ==
  IF k <= TitleLines THEN printStrInCenter(Title, TotalWidth(getColumnInfos))
  ELSE IF k = TitleLines + 1 THEN printHeaders
  ELSE IF k = TitleLines + 2 THEN printFieldBars
  ELSE IF k <= TitleLines + 2 + Len(result.rows)
         THEN printRow(result.rows[k - TitleLines - 2])
  ELSE IF k = TitleLines + 3 + Len(result.rows) THEN <<"summary">> ELSE <<>>

LinesBy ==
  CASE pc = "title"   -> 0
    [] pc = "headers" -> TitleLines
    [] pc = "bars"    -> TitleLines + 1
    [] pc = "rows"    -> TitleLines + 2 + row
    [] OTHER          -> TitleLines + 4 + Len(result.rows)

LaidUpTo(pieces, n) ==
  Len(pieces) = n /\ \A k \in 1..n : pieces[k] = Append(LaidLine(k), Newline)

Laid ==
  /\ LaidUpTo(out, LinesBy)
  /\ pc \in {"title", "headers", "bars"} => row = 0

FormatterInv ==
  /\ pc \in {"title", "headers", "bars", "rows", "done"}
  /\ result \in Results /\ row \in 0..Len(result.rows) /\ IsSequence(out)
  /\ ~options.noAlign =>
       options.special = {} /\ options.titleAndSummary = TRUE /\ options.delimiter \in Text
  /\ Aligned /\ Columns # {} => Laid

LEMMA OneMoreLine ==
  ASSUME NEW pieces, IsSequence(pieces), NEW n \in Nat, LaidUpTo(pieces, n),
         NEW line, line = LaidLine(n + 1)
  PROVE  /\ IsSequence(Append(pieces, Append(line, Newline)))
         /\ LaidUpTo(Append(pieces, Append(line, Newline)), n + 1)
<1>1. PICK piece, longer : piece = Append(line, Newline) /\ longer = Append(pieces, piece)
  OBVIOUS
<1>2. /\ IsSequence(longer) /\ Len(longer) = n + 1 /\ longer[n + 1] = piece
      /\ \A k \in 1..n : longer[k] = pieces[k]
  BY <1>1, AppendAt DEF LaidUpTo
<1>3. ASSUME NEW k \in 1..(n + 1) PROVE longer[k] = Append(LaidLine(k), Newline)
  <2>1. k \in 1..n \/ k = n + 1
    OBVIOUS
  <2> QED
    BY <1>1, <1>2, <2>1 DEF LaidUpTo
<1> QED
  BY <1>1, <1>2, <1>3 DEF LaidUpTo

LEMMA FormatterStarts == Init => FormatterInv
<1> SUFFICES ASSUME Init PROVE FormatterInv
  OBVIOUS
<1>1. result \in Results /\ row = 0 /\ out = <<>> /\ pc = "title"
  BY DEF Init
<1>2. IsSequence(out)
  <2>1. <<>> \in Seq({})
    OBVIOUS
  <2> QED
    BY <1>1, <2>1 DEF IsSequence
<1>3. row \in 0..Len(result.rows)
  BY <1>1, ResultIs
<1>4. PICK csv \in BOOLEAN, noAlign \in BOOLEAN, separator \in Separators :
        options = HandleFormatOptions(csv, noAlign, separator)
  BY DEF Init
<1>5. ~options.noAlign =>
        options.special = {} /\ options.titleAndSummary = TRUE /\ options.delimiter \in Text
  <2>1. CASE csv
    BY <1>4, <2>1 DEF HandleFormatOptions
  <2>2. CASE ~csv
    BY <1>4, <2>2, ResultsAssumption DEF HandleFormatOptions
  <2> QED
    BY <2>1, <2>2
<1>6. Laid
  <2>1. LinesBy = 0 /\ Len(out) = 0 /\ 1..0 = {}
    BY <1>1 DEF LinesBy
  <2> QED
    BY <1>1, <2>1 DEF Laid, LaidUpTo
<1> QED
  BY <1>1, <1>2, <1>3, <1>5, <1>6 DEF FormatterInv

LEMMA FormatterSteps == FormatterInv /\ [Next]_vars => FormatterInv'
<1> SUFFICES ASSUME FormatterInv, [Next]_vars PROVE FormatterInv'
  OBVIOUS
<1>1. /\ pc \in {"title", "headers", "bars", "rows", "done"}
      /\ result \in Results /\ row \in 0..Len(result.rows) /\ IsSequence(out)
      /\ ~options.noAlign =>
           options.special = {} /\ options.titleAndSummary = TRUE /\ options.delimiter \in Text
      /\ Aligned /\ Columns # {} => Laid
  BY DEF FormatterInv
<1>2. PICK t \in Nat, n \in Nat : t = TitleLines /\ n = Len(result.rows) /\ row \in 0..n
  BY <1>1, ResultIs DEF TitleLines
<1>3. UNCHANGED given
  BY DEF Next, PrintTitle, PrintHeaders, PrintBars, PrintRow, PrintSummary, Done, vars
<1>4. /\ result' = result /\ title' = title /\ options' = options /\ typeMap' = typeMap
  BY <1>3 DEF given
<1>5. /\ Columns' = Columns /\ Aligned' = Aligned /\ TitleLines' = t
      /\ \A k : LaidLine(k)' = LaidLine(k)
  <2>1. Columns' = Columns /\ Aligned' = Aligned /\ TitleLines' = TitleLines
    BY <1>4 DEF Columns, Aligned, TitleLines
  <2>2. getColumnInfos' = getColumnInfos
    BY <1>4, <2>1 DEF getColumnInfos, isNumeric, Width
  <2>3. /\ printHeaders' = printHeaders /\ printFieldBars' = printFieldBars
        /\ TotalWidth(getColumnInfos)' = TotalWidth(getColumnInfos)
    <3>1. printHeaders' = printHeaders /\ printFieldBars' = printFieldBars
      BY <1>4, <2>1, <2>2 DEF printHeaders, printFieldBars
    <3>2. TotalWidth(getColumnInfos)' = TotalWidth(getColumnInfos)
      BY <2>2
    <3> QED
      BY <3>1, <3>2
  <2>4. \A k : printRow(result.rows[k])' = printRow(result.rows[k])
    BY <1>4, <2>1, <2>2 DEF printRow
  <2> QED
    BY <1>2, <1>4, <2>1, <2>3, <2>4 DEF LaidLine
<1>6. ~options'.noAlign =>
        options'.special = {} /\ options'.titleAndSummary = TRUE /\ options'.delimiter \in Text
  BY <1>1, <1>4
<1>7. ASSUME NEW pieces, NEW k, LaidUpTo(pieces, k) PROVE LaidUpTo(pieces, k)'
  BY <1>5, <1>7 DEF LaidUpTo
<1>8. \A line : IsSequence(Append(out, line))
  BY <1>1, AppendAt
<1>9. Len(result.rows)' = n
  BY <1>2, <1>4
<1>10. CASE PrintTitle
  <2>1. pc = "title" /\ row' = row /\ pc' \in {"done", "headers"}
    BY <1>10 DEF PrintTitle
  <2>2. PICK line : line = printStrInCenter(Title, TotalWidth(getColumnInfos))
    OBVIOUS
  <2>3. out' = out \/ out' = Append(out, Append(line, Newline))
    BY <1>10, <2>2 DEF PrintTitle, Put
  <2>4. IsSequence(out')
    BY <1>1, <1>8, <2>3, Zenon
  <2>5. ASSUME Aligned, Columns # {} PROVE Laid'
    <3>1. LaidUpTo(out, 0) /\ row = 0 /\ pc' = "headers" /\ options.titleAndSummary = TRUE
      BY <1>1, <1>10, <2>1, <2>5 DEF Laid, LinesBy, PrintTitle, Aligned
    <3>2. LaidUpTo(out', t)
      <4>1. CASE title
        <5>1. out' = Append(out, Append(line, Newline))
          BY <1>10, <2>2, <2>5, <3>1, <4>1 DEF PrintTitle, Put
        <5>2. t = 0 + 1 /\ line = LaidLine(0 + 1)
          BY <1>2, <2>2, <4>1 DEF TitleLines, LaidLine
        <5>3. LaidUpTo(Append(out, Append(line, Newline)), 0 + 1)
          BY <1>1, <3>1, <5>2, OneMoreLine
        <5> QED
          BY <5>1, <5>2, <5>3
      <4>2. CASE ~title
        BY <1>2, <1>10, <3>1, <4>2 DEF PrintTitle, TitleLines
      <4> QED
        BY <4>1, <4>2
    <3>3. LinesBy' = t
      BY <1>5, <3>1 DEF LinesBy
    <3> QED
      BY <1>7, <2>1, <3>1, <3>2, <3>3 DEF Laid, LaidUpTo
  <2> QED
    BY <1>1, <1>4, <1>5, <1>6, <2>1, <2>4, <2>5 DEF FormatterInv
<1>11. CASE PrintHeaders
  <2>1. PICK line : line = printHeaders
    OBVIOUS
  <2>2. /\ pc = "headers" /\ row' = row /\ out' = Append(out, Append(line, Newline))
        /\ pc' = IF options.noAlign THEN "rows" ELSE "bars"
    BY <1>11, <2>1 DEF PrintHeaders, Put
  <2>3. ASSUME Aligned, Columns # {} PROVE Laid'
    <3>1. LaidUpTo(out, t) /\ row = 0 /\ pc' = "bars"
      BY <1>1, <1>2, <2>2, <2>3 DEF Laid, LinesBy, Aligned
    <3>2. t \in Nat /\ line = LaidLine(t + 1)
      BY <1>2, <2>1 DEF LaidLine
    <3>3. LaidUpTo(out', t + 1)
      BY <1>1, <2>2, <3>1, <3>2, OneMoreLine
    <3>4. LinesBy' = t + 1
      BY <1>5, <3>1 DEF LinesBy
    <3> QED
      BY <1>7, <2>2, <3>1, <3>3, <3>4 DEF Laid, LaidUpTo
  <2> QED
    BY <1>1, <1>4, <1>5, <1>6, <1>8, <2>2, <2>3 DEF FormatterInv
<1>12. CASE PrintBars
  <2>1. PICK line : line = printFieldBars
    OBVIOUS
  <2>2. pc = "bars" /\ row' = row /\ out' = Append(out, Append(line, Newline)) /\ pc' = "rows"
    BY <1>12, <2>1 DEF PrintBars, Put
  <2>3. ASSUME Aligned, Columns # {} PROVE Laid'
    <3>1. LaidUpTo(out, t + 1) /\ row = 0
      BY <1>1, <1>2, <2>2, <2>3 DEF Laid, LinesBy
    <3>2. t + 1 \in Nat /\ (t + 1) + 1 = t + 2 /\ line = LaidLine((t + 1) + 1)
      BY <1>2, <2>1 DEF LaidLine
    <3>3. LaidUpTo(out', t + 2)
      BY <1>1, <2>2, <3>1, <3>2, OneMoreLine
    <3>4. LinesBy' = t + 2
      BY <1>5, <2>2, <3>1 DEF LinesBy
    <3> QED
      BY <1>7, <2>2, <3>3, <3>4 DEF Laid, LaidUpTo
  <2> QED
    BY <1>1, <1>4, <1>5, <1>6, <1>8, <2>2, <2>3 DEF FormatterInv
<1>13. CASE PrintRow
  <2>1. PICK line : line = printRow(result.rows[row + 1])
    OBVIOUS
  <2>2. /\ pc = "rows" /\ pc' = pc /\ row < Len(result.rows) /\ row' = row + 1
        /\ out' = Append(out, Append(line, Newline))
    BY <1>13, <2>1 DEF PrintRow, Put
  <2>3. row \in Nat /\ row + 1 \in 0..n /\ row + 1 \in 1..n
    BY <1>2, <2>2
  <2>4. ASSUME Aligned, Columns # {} PROVE Laid'
    <3>1. LaidUpTo(out, t + 2 + row)
      BY <1>1, <1>2, <2>2, <2>4 DEF Laid, LinesBy
    <3>2. PICK k \in Nat : k = t + 2 + row
      BY <1>2, <2>3
    <3>3. /\ k + 1 = t + 2 + (row + 1) /\ k + 1 - t - 2 = row + 1 /\ k + 1 <= t + 2 + n
          /\ ~(k + 1 <= t) /\ k + 1 # t + 1 /\ k + 1 # t + 2
      BY ONLY <2>3, <3>2, t \in Nat, n \in Nat, k \in Nat
    <3>4. line = LaidLine(k + 1)
      BY <1>2, <2>1, <3>3 DEF LaidLine
    <3>5. LaidUpTo(out', k + 1)
      BY <1>1, <2>2, <3>1, <3>2, <3>4, OneMoreLine
    <3>6. LinesBy' = k + 1
      BY <1>5, <2>2, <3>3 DEF LinesBy
    <3> QED
      BY <1>7, <2>2, <3>5, <3>6 DEF Laid, LaidUpTo
  <2>5. row' \in 0..Len(result.rows)
    BY <1>2, <2>2, <2>3
  <2> QED
    BY <1>1, <1>4, <1>5, <1>6, <1>8, <2>2, <2>4, <2>5 DEF FormatterInv
<1>14. CASE PrintSummary
  <2>1. pc = "rows" /\ pc' = "done" /\ row = n /\ row' = row
    BY <1>2, <1>14 DEF PrintSummary
  <2>2. PICK summary, newline, with :
          /\ summary = <<"summary", Newline>> /\ newline = <<Newline>>
          /\ with = (IF options.titleAndSummary THEN Append(out, summary) ELSE out)
    OBVIOUS
  <2>3. out' = IF options.noAlign THEN with ELSE Append(with, newline)
    <3>1. out' = out \o (IF options.titleAndSummary THEN <<summary>> ELSE <<>>)
                     \o (IF options.noAlign THEN <<>> ELSE <<newline>>)
      BY <1>14, <2>2, Zenon DEF PrintSummary
    <3>2. with = out \o (IF options.titleAndSummary THEN <<summary>> ELSE <<>>)
      BY <1>1, <2>2, OneMorePiece
    <3>3. IsSequence(with)
      BY <1>1, <1>8, <2>2
    <3>4. with \o (IF options.noAlign THEN <<>> ELSE <<newline>>)
            = IF options.noAlign THEN with ELSE Append(with, newline)
      BY <3>3, OneMorePiece
    <3> QED
      BY <3>1, <3>2, <3>4
  <2>4. IsSequence(with) /\ IsSequence(out')
    <3>1. IsSequence(with)
      BY <1>1, <1>8, <2>2
    <3>2. IsSequence(Append(with, newline))
      BY <3>1, AppendAt
    <3> QED
      BY <2>3, <3>1, <3>2
  <2>5. ASSUME Aligned, Columns # {} PROVE Laid'
    <3>1. options.titleAndSummary = TRUE /\ ~options.noAlign
      BY <1>1, <2>5 DEF Aligned
    <3>2. with = Append(out, summary) /\ out' = Append(with, newline)
      BY <2>2, <2>3, <3>1
    <3>3. PICK k \in Nat : k = t + 2 + n
      BY ONLY t \in Nat, n \in Nat
    <3>4. LaidUpTo(out, k)
      BY <1>1, <1>2, <2>1, <2>5, <3>3 DEF Laid, LinesBy
    <3>5. LaidUpTo(with, k + 1)
      <4>1. <<"summary">> = LaidLine(k + 1)
        <5>1. /\ k + 1 = t + 3 + n /\ ~(k + 1 <= t) /\ k + 1 # t + 1 /\ k + 1 # t + 2
              /\ ~(k + 1 <= t + 2 + n)
          BY ONLY <3>3, t \in Nat, n \in Nat, k \in Nat
        <5> QED
          BY <1>2, <5>1 DEF LaidLine
      <4>2. summary = Append(<<"summary">>, Newline)
        BY <2>2
      <4>3. LaidUpTo(Append(out, Append(<<"summary">>, Newline)), k + 1)
        BY <1>1, <3>4, <4>1, OneMoreLine
      <4> QED
        BY <3>2, <4>2, <4>3
    <3>6. LaidUpTo(out', k + 2)
      <4>1. <<>> = LaidLine((k + 1) + 1)
        <5>1. /\ (k + 1) + 1 # t + 3 + n /\ ~((k + 1) + 1 <= t) /\ (k + 1) + 1 # t + 1
              /\ (k + 1) + 1 # t + 2 /\ ~((k + 1) + 1 <= t + 2 + n)
          BY ONLY <3>3, t \in Nat, n \in Nat, k \in Nat
        <5> QED
          BY <1>2, <5>1 DEF LaidLine
      <4>2. newline = Append(<<>>, Newline) /\ k + 1 \in Nat /\ (k + 1) + 1 = k + 2
        BY <2>2
      <4>3. LaidUpTo(Append(with, Append(<<>>, Newline)), (k + 1) + 1)
        BY <2>4, <3>5, <4>1, <4>2, OneMoreLine
      <4> QED
        BY <3>2, <4>2, <4>3
    <3>7. LinesBy' = k + 2
      <4>1. LinesBy' = t + 4 + n
        BY <1>5, <1>9, <2>1 DEF LinesBy
      <4>2. t + 4 + n = k + 2
        BY ONLY <3>3, t \in Nat, n \in Nat, k \in Nat
      <4> QED
        BY <4>1, <4>2, Zenon
    <3> QED
      BY <1>7, <2>1, <3>6, <3>7 DEF Laid, LaidUpTo
  <2> QED
    BY <1>1, <1>4, <1>5, <1>6, <2>1, <2>4, <2>5 DEF FormatterInv
<1>15. CASE Done \/ UNCHANGED vars
  <2>1. pc' = pc /\ row' = row /\ out' = out
    BY <1>15 DEF Done, vars
  <2>2. LinesBy' = LinesBy
    BY <1>2, <1>5, <1>9, <2>1 DEF LinesBy
  <2>3. Laid => Laid'
    BY <1>7, <2>1, <2>2 DEF Laid, LaidUpTo
  <2> QED
    BY <1>1, <1>4, <1>5, <1>6, <2>1, <2>3 DEF FormatterInv
<1> QED
  BY <1>10, <1>11, <1>12, <1>13, <1>14, <1>15 DEF Next

\* What was printed line by line are the lines of the text.
LEMMA PrintedLines ==
  ASSUME FormatterInv, pc = "done", Table, OneLineEach, NEW m,
         m = TitleLines + 4 + Len(result.rows), NEW i \in 1..m
  PROVE  PrintedLine(i) = LaidLine(i)
<1>1. PICK t \in Nat, n \in Nat : t = TitleLines /\ n = Len(result.rows)
  BY ResultIs DEF TitleLines, Table
<1>2. m = t + 4 + n /\ m \in Nat \ {0} /\ DOMAIN result.rows = 1..n
  <2>1. m = t + 4 + n
    BY <1>1, Zenon
  <2>2. t + 4 + n \in Nat \ {0}
    BY ONLY t \in Nat, n \in Nat
  <2>3. DOMAIN result.rows = 1..n
    BY <1>1, ResultIs DEF Table
  <2> QED
    BY <2>1, <2>2, <2>3, Zenon
<1>3. Aligned
  BY DEF Table, Aligned
<1>4. LaidUpTo(out, m) /\ IsSequence(out)
  BY <1>3 DEF FormatterInv, Laid, LinesBy, Table
<1>5. /\ OneLine(printStrInCenter(Title, TotalWidth(getColumnInfos))) /\ OneLine(printHeaders)
      /\ OneLine(printFieldBars) /\ \A k \in 1..n : OneLine(printRow(result.rows[k]))
      /\ OneLine(<<"summary">>) /\ OneLine(<<>>)
  <2>1. "summary" \in Characters /\ "summary" # Newline
    BY CharactersAssumption, NotNewline
  <2> QED
    BY <1>2, <2>1, TitleOneLine, TableOneLine, SingleOneLine, EmptyOneLine
<1>6. ASSUME NEW k \in 1..m PROVE OneLine(LaidLine(k))
  <2>1. k <= t + 2 + n /\ ~(k <= t) /\ k # t + 1 /\ k # t + 2 => k - t - 2 \in 1..n
    BY <1>2
  <2> QED
    BY <1>1, <1>5, <2>1 DEF LaidLine
<1>7. PICK lines : lines = [k \in 1..m |-> LaidLine(k)]
  OBVIOUS
<1>8. lines \in [1..m -> Text] /\ \A k \in 1..m : OneLine(lines[k]) /\ lines[k] = LaidLine(k)
  BY <1>6, <1>7 DEF OneLine
<1>9. out \in Seq(Text) /\ Len(out) = m /\ \A k \in 1..m : out[k] = Append(lines[k], Newline)
  <2>1. Len(out) = m /\ \A k \in 1..m : out[k] = Append(lines[k], Newline)
    BY <1>4, <1>8 DEF LaidUpTo
  <2>2. \A k \in 1..m : Append(lines[k], Newline) \in Text
    <3>1. Newline \in Characters /\ \A k \in 1..m : lines[k] \in Text
      BY <1>8, CharactersAssumption
    <3> QED
      BY <3>1, AppendText
  <2>3. \A k \in 1..m : out[k] \in Text
    BY <2>1, <2>2
  <2>4. PICK set : out \in Seq(set)
    BY <1>4 DEF IsSequence
  <2> QED
    BY <2>1, <2>3, <2>4
<1>10. PICK text : text = FlattenSeq(out)
  OBVIOUS
<1>11. Between(text, LineEnds(text), i) = lines[i]
  <2>1. m \in Nat \ {0} /\ lines \in [1..m -> Text] /\ out \in Seq(Text) /\ Len(out) = m
    BY <1>2, <1>8, <1>9
  <2>2. (\A k \in 1..m : OneLine(lines[k])) /\ \A k \in 1..m : out[k] = Append(lines[k], Newline)
    BY <1>8, <1>9
  <2>3. PICK pieces : pieces = out
    OBVIOUS
  <2>4. /\ pieces \in Seq(Text) /\ Len(pieces) = m /\ text = FlattenSeq(pieces)
        /\ \A k \in 1..m : pieces[k] = Append(lines[k], Newline)
    BY <1>10, <2>1, <2>2, <2>3
  <2> QED
    BY ONLY <2>1, <2>2, <2>4, CutAtNewlines, i \in 1..m
<1> QED
  BY <1>8, <1>10, <1>11 DEF PrintedLine, Printed

\* A table printed reads off as the table it was.
LEMMA ReadOff == FormatterInv => ColumnsLineUp
<1> SUFFICES ASSUME FormatterInv, pc = "done", Aligned, Columns # {}, OneLineEach
             PROVE  ColumnsLineUp
  BY DEF ColumnsLineUp
<1>1. Table
  BY DEF FormatterInv, Table, Aligned
<1>2. /\ StandsUnder(printHeaders, printFieldBars, result.names)
      /\ \A k \in DOMAIN result.rows :
           StandsUnder(printRow(result.rows[k]), printFieldBars, result.rows[k])
  BY <1>1, TableStands
<1>3. PICK t \in Nat, n \in Nat, first \in Nat :
        /\ t = TitleLines /\ n = Len(result.rows) /\ DOMAIN result.rows = 1..n
        /\ first = (IF title THEN 2 ELSE 1) /\ first = t + 1
  <2>1. Len(result.rows) \in Nat /\ DOMAIN result.rows = 1..Len(result.rows)
    BY <1>1, ResultIs DEF Table
  <2>2. /\ TitleLines \in Nat /\ (IF title THEN 2 ELSE 1) \in Nat
        /\ (IF title THEN 2 ELSE 1) = TitleLines + 1
    BY DEF TitleLines
  <2> QED
    BY <2>1, <2>2, Zenon
<1>3a. first = t + 1
  BY <1>3
<1>4. \A i \in 1..(t + 4 + n) : PrintedLine(i) = LaidLine(i)
  BY <1>1, <1>3, PrintedLines
<1>5. PrintedLine(first) = printHeaders
  <2>1. first \in 1..(t + 4 + n) /\ ~(first <= t)
    BY ONLY <1>3a, t \in Nat, n \in Nat
  <2> QED
    BY <1>3, <1>4, <2>1 DEF LaidLine
<1>6. PrintedLine(first + 1) = printFieldBars
  <2>1. /\ first + 1 \in 1..(t + 4 + n) /\ ~(first + 1 <= t) /\ first + 1 # t + 1
        /\ first + 1 = t + 2
    BY ONLY <1>3a, t \in Nat, n \in Nat
  <2> QED
    BY <1>3, <1>4, <2>1 DEF LaidLine
<1>7. ASSUME NEW k \in DOMAIN result.rows
      PROVE  PrintedLine(first + 1 + k) = printRow(result.rows[k])
  <2>1. k \in 1..n
    BY <1>3
  <2>2. PICK i : i = first + 1 + k
    OBVIOUS
  <2>3. /\ i \in 1..(t + 4 + n) /\ ~(i <= t) /\ i # t + 1 /\ i # t + 2
        /\ i <= t + 2 + n /\ i - t - 2 = k
    BY ONLY <1>3a, <2>1, <2>2, t \in Nat, n \in Nat
  <2>4. LaidLine(i) = printRow(result.rows[k])
    BY <1>3, <2>3 DEF LaidLine
  <2> QED
    BY <1>4, <2>2, <2>3, <2>4
<1>8. /\ StandsUnder(PrintedLine(first), PrintedLine(first + 1), result.names)
      /\ \A k \in DOMAIN result.rows :
           StandsUnder(PrintedLine(first + 1 + k), PrintedLine(first + 1), result.rows[k])
  BY <1>2, <1>5, <1>6, <1>7
<1> QED
  BY <1>3, <1>8 DEF ColumnsLineUp, StandsUnder

\* Whatever is printed, in any mode, is laid out so.
THEOREM FormatterInvariant == Spec => []FormatterInv
BY FormatterStarts, FormatterSteps, PTL DEF Spec

(***************************************************************************)
(* In an aligned table of which no name and no field holds a newline, the  *)
(* lines printed for header, bar and rows are equally long, and every      *)
(* field is read off where the crosses of the bar cut its line, whatever   *)
(* other characters and however many columns and rows the result has.      *)
(***************************************************************************)
THEOREM ColumnsLineUpCorrect == Spec => []ColumnsLineUp
BY FormatterInvariant, ReadOff, PTL

-----------------------------------------------------------------------------
(***************************************************************************)
(* The CSV reader, character by character.                                 *)
(***************************************************************************)
Readers == [records : Seq(Seq(Text)), record : Seq(Text), field : Text,
            quote : {"unquoted", "open", "closed"}]

Reader(records, record, field, quote) ==
  [records |-> records, record |-> record, field |-> field, quote |-> quote]

LEMMA ReadCharType ==
  ASSUME NEW r \in Readers, NEW char \in Characters
  PROVE  ReadChar(r, char) \in Readers
<1>1. /\ r.records \in Seq(Seq(Text)) /\ r.record \in Seq(Text) /\ r.field \in Text
      /\ Quote \in Characters
  BY CharactersAssumption DEF Readers
<1>2. Append(r.field, char) \in Text /\ Append(r.field, Quote) \in Text /\ <<>> \in Text
  BY <1>1 DEF Text
<1>3. Append(r.record, r.field) \in Seq(Text) /\ <<>> \in Seq(Text)
  BY <1>1
<1>4. Append(r.records, Append(r.record, r.field)) \in Seq(Seq(Text))
  BY <1>1, <1>3
<1> QED
  BY <1>1, <1>2, <1>3, <1>4 DEF ReadChar, Readers, CsvBegun

LEMMA BegunType == CsvBegun \in Readers /\ CsvBegun = Reader(<<>>, <<>>, <<>>, "unquoted")
<1>1. <<>> \in Text /\ <<>> \in Seq(Text) /\ <<>> \in Seq(Seq(Text))
  BY DEF Text
<1> QED
  BY <1>1 DEF CsvBegun, Readers, Reader

Reads(r, text) ==
  /\ r \in [0..Len(text) -> Readers] /\ r[0] = CsvBegun
  /\ \A k \in 1..Len(text) : r[k] = ReadChar(r[k - 1], text[k])

LEMMA ReadSteps ==
  ASSUME NEW text \in Text
  PROVE  \E r : Reads(r, text) /\ ReadCsv(text) = r[Len(text)].records
<1> DEFINE len == Len(text)
           Iterates(iter) == iter = [t \in SUBSET DOMAIN text |->
             IF t = {} THEN CsvBegun ELSE ReadChar(iter[t \ {Max(t)}], text[Max(t)])]
           it == CHOOSE iter : Iterates(iter)
           steps == [k \in 1..len |-> [v \in Readers |-> ReadChar(v, text[k])]]
           Bad == {k \in 0..len : it[1..k] \notin Readers}
<1>1. DOMAIN text = 1..len /\ len \in Nat /\ \A k \in 1..len : text[k] \in Characters
  BY DEF Text
<1>2. ReadCsv(text) = it[1..len].records
  BY <1>1 DEF ReadCsv, FoldLeft, MapThenFoldSet
<1>3. steps \in [1..len -> [Readers -> Readers]]
  <2> HIDE DEF len
  <2>1. \A k \in 1..len : \A v \in Readers : ReadChar(v, text[k]) \in Readers
    BY <1>1, ReadCharType
  <2> QED
    BY <2>1
<1>4. CsvBegun \in Readers
  BY BegunType
<1>5. PICK g \in [SUBSET (1..len) -> Readers] : FoldOf(g, len, CsvBegun, steps)
  <2> HIDE DEF len, steps
  <2> QED
    BY <1>1, <1>3, <1>4, FoldExists
<1>6. Iterates(g)
  <2>1. ASSUME NEW t \in SUBSET (1..len)
        PROVE  g[t] = IF t = {} THEN CsvBegun ELSE ReadChar(g[t \ {Max(t)}], text[Max(t)])
    <3>1. CASE t # {}
      <4>1. Max(t) \in 1..len
        <5> HIDE DEF len
        <5> QED
          BY <1>1, <3>1, MaxOfSet
      <4>2. g[t] = steps[Max(t)][g[t \ {Max(t)}]] /\ g[t \ {Max(t)}] \in Readers
        BY <1>5, <3>1 DEF FoldOf
      <4> QED
        BY <3>1, <4>1, <4>2
    <3>2. CASE t = {}
      BY <1>5, <3>2 DEF FoldOf
    <3> QED
      BY <3>1, <3>2
  <2> HIDE DEF len
  <2> QED
    BY <1>1, <2>1
<1>7. Iterates(it)
  <2> HIDE DEF Iterates
  <2> QED
    BY <1>6
<1> HIDE DEF it
<1>8. it[1..0] = CsvBegun
  <2>1. 1..0 = {}
    OBVIOUS
  <2>2. it[{}] = CsvBegun
    BY <1>1, <1>7
  <2> QED
    BY <2>1, <2>2
<1>9. ASSUME NEW k \in 1..len PROVE it[1..k] = ReadChar(it[1..(k - 1)], text[k])
  <2>1. 1..k # {} /\ Max(1..k) = k /\ (1..k) \ {k} = 1..(k - 1)
    <3>1. k \in Nat /\ k # 0
      OBVIOUS
    <3> QED
      BY <3>1, MaxOfRange
  <2>2. 1..k \in SUBSET DOMAIN text
    BY <1>1
  <2> HIDE DEF len
  <2>3. \A t \in SUBSET DOMAIN text :
          it[t] = IF t = {} THEN CsvBegun ELSE ReadChar(it[t \ {Max(t)}], text[Max(t)])
    BY <1>7, Zenon
  <2>4. it[1..k] = ReadChar(it[(1..k) \ {Max(1..k)}], text[Max(1..k)])
    BY <2>1, <2>2, <2>3, Zenon
  <2> QED
    BY <2>1, <2>4, Zenon
<1>10. Bad = {}
  <2>1. SUFFICES ASSUME Bad # {} PROVE FALSE
    OBVIOUS
  <2>2. Bad \subseteq Nat
    OBVIOUS
  <2>3. PICK k \in Bad : \A y \in Bad : k <= y
    <3> HIDE DEF Bad
    <3> QED
      BY <2>1, <2>2, SmallestNumber
  <2>4. k \in 0..len /\ it[1..k] \notin Readers
    OBVIOUS
  <2>5. k # 0
    BY <1>4, <1>8, <2>4
  <2>6. k \in 1..len /\ k - 1 \in 0..len /\ k - 1 \notin Bad
    <3>1. k \in 1..len /\ k - 1 \in 0..len /\ ~(k <= k - 1)
      BY <1>1, <2>4, <2>5
    <3> HIDE DEF Bad
    <3> QED
      BY <2>3, <3>1
  <2>7. it[1..(k - 1)] \in Readers
    BY <2>6
  <2>8. it[1..k] = ReadChar(it[1..(k - 1)], text[k]) /\ text[k] \in Characters
    BY <1>1, <1>9, <2>6
  <2>9. it[1..k] \in Readers
    BY <2>7, <2>8, ReadCharType
  <2> QED
    BY <2>4, <2>9
<1> DEFINE r == [k \in 0..len |-> it[1..k]]
<1>11. \A k \in 0..len : it[1..k] \in Readers
  BY <1>10
<1>12. \A k \in 1..len : k \in 0..len /\ k - 1 \in 0..len
  OBVIOUS
<1>13. 0 \in 0..len /\ len \in 0..len
  BY <1>1
<1>14. r \in [0..len -> Readers]
  BY <1>11
<1>15. r[0] = CsvBegun
  BY <1>8, <1>13
<1>16. \A k \in 1..len : r[k] = ReadChar(r[k - 1], text[k])
  BY <1>9, <1>12
<1>17. ReadCsv(text) = r[len].records
  BY <1>2, <1>13
<1> HIDE DEF r
<1> QED
  BY <1>14, <1>15, <1>16, <1>17 DEF Reads

\* What the reader makes of one character.
Harmless(char, mode) ==
  /\ char # Quote
  /\ mode = "open" \/ (mode = "unquoted" /\ char \notin {Comma, Newline})

LEMMA CharRead ==
  ASSUME NEW R, NEW C, NEW f, NEW mode, NEW char, Harmless(char, mode)
  PROVE  ReadChar(Reader(R, C, f, mode), char) = Reader(R, C, Append(f, char), mode)
<1> DEFINE r == Reader(R, C, f, mode)
<1>1. r.quote = mode
  BY DEF Reader
<1>2. ReadChar(r, char) = [r EXCEPT !.field = Append(@, char)]
  BY <1>1 DEF ReadChar, Comma, Quote, Newline, Harmless
<1> QED
  BY <1>2 DEF Reader

LEMMA QuoteRead ==
  ASSUME NEW R, NEW C, NEW f
  PROVE  /\ ReadChar(Reader(R, C, f, "open"), Quote) = Reader(R, C, f, "closed")
         /\ ReadChar(Reader(R, C, <<>>, "unquoted"), Quote) = Reader(R, C, <<>>, "open")
<1>1. ReadChar(Reader(R, C, f, "open"), Quote) = Reader(R, C, f, "closed")
  <2> DEFINE r == Reader(R, C, f, "open")
  <2>1. r.quote = "open"
    BY DEF Reader
  <2>2. ReadChar(r, Quote) = [r EXCEPT !.quote = "closed"]
    BY <2>1 DEF ReadChar, Comma, Quote, Newline
  <2> QED
    BY <2>2 DEF Reader
<1>2. ReadChar(Reader(R, C, <<>>, "unquoted"), Quote) = Reader(R, C, <<>>, "open")
  <2> DEFINE r == Reader(R, C, <<>>, "unquoted")
  <2>1. r.quote = "unquoted" /\ r.field = <<>>
    BY DEF Reader
  <2>2. ReadChar(r, Quote) = [r EXCEPT !.quote = "open"]
    BY <2>1 DEF ReadChar, Comma, Quote, Newline
  <2> QED
    BY <2>2 DEF Reader
<1> QED
  BY <1>1, <1>2

LEMMA CommaRead ==
  ASSUME NEW R, NEW C, NEW f, NEW mode, mode \in {"unquoted", "closed"}
  PROVE  ReadChar(Reader(R, C, f, mode), Comma)
           = Reader(R, Append(C, f), <<>>, "unquoted")
<1> DEFINE r == Reader(R, C, f, mode)
<1>1. r.records = R /\ r.record = C /\ r.field = f /\ r.quote = mode
  BY DEF Reader
<1>2. r.quote # "open"
  BY <1>1
<1>3. ReadChar(r, Comma)
        = [r EXCEPT !.record = Append(@, r.field), !.field = <<>>, !.quote = "unquoted"]
  <2> HIDE DEF r
  <2> QED
    BY <1>2 DEF ReadChar, Comma, Quote, Newline
<1> QED
  BY <1>1, <1>3 DEF Reader

LEMMA NewlineRead ==
  ASSUME NEW R, NEW C, NEW f, NEW mode, mode \in {"unquoted", "closed"}
  PROVE  ReadChar(Reader(R, C, f, mode), Newline)
           = Reader(Append(R, Append(C, f)), <<>>, <<>>, "unquoted")
<1> DEFINE r == Reader(R, C, f, mode)
<1>1. r.records = R /\ r.record = C /\ r.field = f /\ r.quote = mode
  BY DEF Reader
<1>2. r.quote # "open"
  BY <1>1
<1>3. ReadChar(r, Newline)
        = [CsvBegun EXCEPT !.records = Append(r.records, Append(r.record, r.field))]
  <2> HIDE DEF r
  <2> QED
    BY <1>2 DEF ReadChar, Comma, Quote, Newline
<1> QED
  BY <1>1, <1>3 DEF Reader, CsvBegun

\* The beginnings of a sequence.
LEMMA BeginningsOf ==
  ASSUME NEW S, NEW s \in Seq(S)
  PROVE  /\ Len(s) \in Nat /\ SubSeq(s, 1, 0) = <<>> /\ SubSeq(s, 1, Len(s)) = s
         /\ \A p \in 1..Len(s) : SubSeq(s, 1, p) = Append(SubSeq(s, 1, p - 1), s[p])
<1>1. Len(s) \in Nat /\ SubSeq(s, 1, 0) = <<>>
  OBVIOUS
<1>2. SubSeq(s, 1, Len(s)) = s
  OBVIOUS
<1>3. ASSUME NEW p \in 1..Len(s) PROVE SubSeq(s, 1, p) = Append(SubSeq(s, 1, p - 1), s[p])
  OBVIOUS
<1> QED
  BY <1>1, <1>2, <1>3

\* Where a piece of the text stands.
StandsAt(piece, text, q) ==
  /\ q \in Nat /\ q + Len(piece) <= Len(text)
  /\ \A p \in 1..Len(piece) : text[q + p] = piece[p]

\* A field that can be read as it stands, without quotes around it or inside them.
Readable(field, mode) ==
  /\ ~Contains(field, Quote)
  /\ mode = "open" \/ (mode = "unquoted" /\ ~NeedsQuote(field, {Comma, Newline}))

\* Where the reader comes to a field.
ComesTo(r, text, q, field, R, C, mode) ==
  /\ Reads(r, text) /\ StandsAt(field, text, q) /\ Readable(field, mode)
  /\ r[q] = Reader(R, C, <<>>, mode)

\* A character after the other, a field is read.
LEMMA FieldRead ==
  ASSUME NEW text \in Text, NEW r, NEW q, NEW field \in Text, NEW R, NEW C, NEW mode,
         ComesTo(r, text, q, field, R, C, mode)
  PROVE  r[q + Len(field)] = Reader(R, C, field, mode)
<1> DEFINE Read(p) == r[q + p] = Reader(R, C, SubSeq(field, 1, p), mode)
           T == {p \in 0..Len(field) : ~Read(p)}
<1>1. /\ Len(field) \in Nat /\ SubSeq(field, 1, 0) = <<>>
      /\ SubSeq(field, 1, Len(field)) = field
      /\ \A p \in 1..Len(field) : SubSeq(field, 1, p) = Append(SubSeq(field, 1, p - 1), field[p])
  BY BeginningsOf DEF Text
<1>2. q \in Nat /\ q + Len(field) <= Len(text) /\ Len(text) \in Nat
      /\ \A p \in 1..Len(field) : text[q + p] = field[p]
  BY TextLength DEF StandsAt, ComesTo
<1>3. Read(0)
  BY <1>1, <1>2, q + 0 = q DEF ComesTo
<1>4. ASSUME NEW p \in 1..Len(field), Read(p - 1) PROVE Read(p)
  <2>1. /\ field[p] # Quote
        /\ mode = "open" \/ (mode = "unquoted" /\ field[p] \notin {Comma, Newline})
    <3>1. p \in 1..Len(field)
      OBVIOUS
    <3> QED
      BY <3>1 DEF ComesTo, Readable, NeedsQuote, Contains
  <2>2. q + p \in 1..Len(text) /\ q + (p - 1) = (q + p) - 1
    BY <1>1, <1>2
  <2>3. r[q + p] = ReadChar(r[q + (p - 1)], field[p])
    BY <1>2, <2>2 DEF ComesTo, Reads
  <2>4. PICK f, char : f = SubSeq(field, 1, p - 1) /\ char = field[p]
    OBVIOUS
  <2>5. ReadChar(Reader(R, C, f, mode), char) = Reader(R, C, Append(f, char), mode)
    <3>1. Harmless(char, mode)
      BY <2>1, <2>4 DEF Harmless
    <3> QED
      BY <3>1, CharRead
  <2> QED
    BY <1>1, <1>4, <2>3, <2>4, <2>5
<1>5. T = {}
  <2>1. SUFFICES ASSUME T # {} PROVE FALSE
    OBVIOUS
  <2>2. T \subseteq Nat
    OBVIOUS
  <2>3. PICK p \in T : \A k \in T : p <= k
    <3> HIDE DEF T
    <3> QED
      BY <2>1, <2>2, SmallestNumber
  <2>4. p \in 0..Len(field) /\ ~Read(p)
    OBVIOUS
  <2> HIDE DEF Read
  <2>5. p # 0
    BY <1>3, <2>4
  <2>6. p \in 1..Len(field) /\ p - 1 \in 0..Len(field) /\ ~(p <= p - 1)
    BY <1>1, <2>4, <2>5
  <2>7. Read(p - 1)
    BY <2>3, <2>6
  <2> QED
    BY <1>4, <2>4, <2>6, <2>7
<1>6. Len(field) \in 0..Len(field)
  BY <1>1
<1>7. Read(Len(field))
  <2> HIDE DEF Read
  <2> QED
    BY <1>5, <1>6
<1> QED
  BY <1>1, <1>7

LEMMA ReadsOn ==
  ASSUME NEW text \in Text, NEW r, Reads(r, text), NEW q \in Nat, q < Len(text)
  PROVE  r[q + 1] = ReadChar(r[q], text[q + 1])
<1>1. q + 1 \in 1..Len(text) /\ (q + 1) - 1 = q
  BY TextLength
<1> QED
  BY <1>1 DEF Reads

\* A field as the code prints it, between quotes where it must be.
CsvCell(cell, field) ==
  /\ ~Contains(field, Quote)
  /\ cell = IF NeedsQuote(field, {Comma, Newline}) THEN <<Quote>> \o field \o <<Quote>>
                                                 ELSE field

\* Where the reader comes to a cell.
ComesToCell(r, text, q, cell, R, C) ==
  Reads(r, text) /\ StandsAt(cell, text, q) /\ r[q] = Reader(R, C, <<>>, "unquoted")

\* The field has been read, whether or not between quotes.
IsRead(r, q, R, C, field) ==
  \E mode \in {"unquoted", "closed"} : r[q] = Reader(R, C, field, mode)

LEMMA CellRead ==
  ASSUME NEW text \in Text, NEW r, NEW q, NEW cell \in Text, NEW field \in Text, NEW R, NEW C,
         ComesToCell(r, text, q, cell, R, C), CsvCell(cell, field)
  PROVE  IsRead(r, q + Len(cell), R, C, field)
<1>1. CASE ~NeedsQuote(field, {Comma, Newline})
  <2>1. cell = field
    BY <1>1 DEF CsvCell
  <2>2. ComesTo(r, text, q, field, R, C, "unquoted")
    BY <1>1, <2>1 DEF ComesToCell, ComesTo, Readable, CsvCell
  <2>3. r[q + Len(field)] = Reader(R, C, field, "unquoted")
    BY <2>2, FieldRead
  <2> QED
    BY <2>1, <2>3 DEF IsRead
<1>2. CASE NeedsQuote(field, {Comma, Newline})
  <2>1. cell = <<Quote>> \o field \o <<Quote>>
    BY <1>2 DEF CsvCell
  <2>2. /\ Len(field) \in Nat /\ Len(cell) = Len(field) + 2 /\ cell[1] = Quote
        /\ cell[Len(field) + 2] = Quote /\ \A p \in 1..Len(field) : cell[1 + p] = field[p]
    <3>1. PICK mark : mark = <<Quote>>
      OBVIOUS
    <3>2. mark \in Text /\ Len(mark) = 1 /\ mark[1] = Quote
      <4>1. Quote \in Characters
        BY CharactersAssumption
      <4> QED
        BY <3>1, <4>1 DEF Text
    <3>3. PICK opened : opened = mark \o field
      OBVIOUS
    <3>4. /\ opened \in Text /\ Len(opened) = 1 + Len(field) /\ Len(field) \in Nat
          /\ opened[1] = Quote /\ \A p \in 1..Len(field) : opened[1 + p] = field[p]
      <4>1. /\ mark \o field \in Text /\ Len(field) \in Nat
            /\ Len(mark \o field) = Len(mark) + Len(field)
            /\ \A p \in 1..Len(mark) : (mark \o field)[p] = mark[p]
            /\ \A p \in 1..Len(field) : (mark \o field)[Len(mark) + p] = field[p]
        BY <3>2, ConcatAt
      <4> QED
        BY <3>2, <3>3, <4>1
    <3>5. cell = opened \o mark
      BY <2>1, <3>1, <3>3
    <3>6. /\ Len(cell) = Len(opened) + Len(mark)
          /\ \A p \in 1..Len(opened) : cell[p] = opened[p]
          /\ \A p \in 1..Len(mark) : cell[Len(opened) + p] = mark[p]
      <4>1. /\ Len(opened \o mark) = Len(opened) + Len(mark)
            /\ \A p \in 1..Len(opened) : (opened \o mark)[p] = opened[p]
            /\ \A p \in 1..Len(mark) : (opened \o mark)[Len(opened) + p] = mark[p]
        BY <3>2, <3>4, ConcatAt
      <4> QED
        BY <3>5, <4>1
    <3> QED
      BY <3>2, <3>4, <3>6
  <2>3. /\ q \in Nat /\ Len(text) \in Nat /\ q + Len(field) + 2 <= Len(text)
        /\ \A p \in 1..(Len(field) + 2) : text[q + p] = cell[p]
    BY <2>2, TextLength DEF ComesToCell, StandsAt
  <2>4. r[q + 1] = Reader(R, C, <<>>, "open")
    <3>1. text[q + 1] = Quote
      BY <2>2, <2>3
    <3>2. Reads(r, text) /\ q < Len(text)
      BY <2>2, <2>3 DEF ComesToCell
    <3>3. r[q + 1] = ReadChar(r[q], text[q + 1])
      BY <2>3, <3>2, ReadsOn
    <3> QED
      BY <3>1, <3>3, QuoteRead DEF ComesToCell
  <2>5. PICK s : s = q + 1
    OBVIOUS
  <2>6. StandsAt(field, text, s)
    <3>1. \A p \in 1..Len(field) : text[s + p] = field[p]
      <4> SUFFICES ASSUME NEW p \in 1..Len(field) PROVE text[s + p] = field[p]
        OBVIOUS
      <4>1. s + p = q + (1 + p) /\ 1 + p \in 1..(Len(field) + 2)
        BY <2>2, <2>3, <2>5
      <4> QED
        BY <2>2, <2>3, <4>1
    <3>2. s \in Nat /\ s + Len(field) <= Len(text)
      BY <2>2, <2>3, <2>5
    <3> QED
      BY <3>1, <3>2 DEF StandsAt
  <2>7. ComesTo(r, text, s, field, R, C, "open")
    BY <2>4, <2>5, <2>6 DEF ComesTo, ComesToCell, Readable, CsvCell
  <2>8. r[s + Len(field)] = Reader(R, C, field, "open")
    BY <2>7, FieldRead
  <2>9. PICK t : t = s + Len(field)
    OBVIOUS
  <2>10. /\ t \in Nat /\ t < Len(text) /\ t + 1 = q + Len(cell)
         /\ t + 1 = q + (Len(field) + 2)
    BY <2>2, <2>3, <2>5, <2>9
  <2>11. text[t + 1] = Quote
    BY <2>2, <2>3, <2>10
  <2>12. r[t + 1] = ReadChar(r[t], text[t + 1])
    BY <2>10, ReadsOn DEF ComesToCell
  <2>13. r[t + 1] = Reader(R, C, field, "closed")
    BY <2>8, <2>9, <2>11, <2>12, QuoteRead
  <2> QED
    BY <2>10, <2>13 DEF IsRead
<1> QED
  BY <1>1, <1>2

\* A line of cells and where it ends.
CsvLine(cells) == Append(Line(cells, <<Comma>>), Newline)

\* The cells that are printed for some fields.
CsvCells(cells, fields, n) ==
  /\ cells \in Seq(Text) /\ Len(cells) = n /\ fields \in Seq(Text) /\ Len(fields) = n
  /\ \A i \in 1..n : CsvCell(cells[i], fields[i])

\* A position inside a cell that ends before the line does.
LEMMA StaysWithin ==
  ASSUME NEW a \in Nat, NEW b \in Nat, NEW c \in Nat, NEW len \in Nat, NEW p \in 1..b,
         c = a + b + 1, c <= len
  PROVE  a + p \in 1..(len - 1)
<1>1. p \in Nat /\ 1 <= p /\ p <= b
  OBVIOUS
<1>2. 1 <= a + p /\ a + p <= len - 1
  BY <1>1
<1> QED
  BY <1>1, <1>2

LEMMA CsvLineAt ==
  ASSUME NEW n \in Nat \ {0}, NEW w \in [1..n -> Nat], NEW o, Begins(o, n, w),
         NEW cells, Fits(cells, n, w)
  PROVE  /\ CsvLine(cells) \in Text /\ Len(CsvLine(cells)) = o[n]
         /\ Line(cells, <<Comma>>) \in Text /\ Len(Line(cells, <<Comma>>)) + 1 = o[n]
         /\ \A i \in 1..n : \A p \in 1..w[i] : CsvLine(cells)[o[i - 1] + p] = cells[i][p]
         /\ \A i \in 1..(n - 1) : CsvLine(cells)[o[i]] = Comma
         /\ CsvLine(cells)[o[n]] = Newline
<1>0. PICK comma : comma = <<Comma>>
  OBVIOUS
<1>1. PICK line : line = Line(cells, comma)
  OBVIOUS
<1>2. Comma \in Characters /\ Newline \in Characters
  BY CharactersAssumption
<1>3. comma \in Text /\ Len(comma) = 1 /\ comma[1] = Comma
  <2>1. \A char \in Characters : <<char>> \in Text /\ Len(<<char>>) = 1 /\ <<char>>[1] = char
    BY SingleText
  <2> QED
    BY <1>0, <1>2, <2>1, Zenon
<1>4. /\ line \in Text /\ Len(line) = o[n] - 1
      /\ \A i \in 1..n : \A p \in 1..w[i] : line[o[i - 1] + p] = cells[i][p]
      /\ \A i \in 1..(n - 1) : line[o[i]] = comma[1]
  <2>1. /\ Line(cells, comma) \in Text /\ Len(Line(cells, comma)) = o[n] - 1
        /\ \A i \in 1..n : \A p \in 1..w[i] : Line(cells, comma)[o[i - 1] + p] = cells[i][p]
        /\ \A i \in 1..(n - 1) : Line(cells, comma)[o[i]] = comma[1]
    <3>1. Fits(cells, n, w) /\ comma \in Text /\ Len(comma) = 1 /\ Begins(o, n, w)
      BY <1>3
    <3> QED
      BY ONLY <3>1, LineAt, n \in Nat \ {0}, w \in [1..n -> Nat]
  <2> QED
    BY <1>1, <2>1, Zenon
<1>5. PICK whole : whole = Append(line, Newline)
  OBVIOUS
<1>6. /\ \A i \in 0..n : o[i] \in Nat
      /\ \A i \in 1..n : i - 1 \in 0..n /\ o[i] = o[i - 1] + w[i] + 1 /\ w[i] \in Nat
      /\ o[0] = 0 /\ 0 \in 0..n /\ n \in 0..n
  <2>1. /\ \A i \in 1..n : i - 1 \in 0..n
        /\ 0 \in 0..n /\ n \in 0..n
    OBVIOUS
  <2> QED
    BY <2>1 DEF Begins
<1>7. \A i, j \in 0..n : i < j => o[i] < o[j]
  <2>1. n \in Nat
    OBVIOUS
  <2> QED
    BY <2>1, BeginsRise
<1>8. PICK len \in Nat : len = o[n]
  BY <1>6
<1>9. /\ whole \in Text /\ Len(whole) = o[n] /\ whole[o[n]] = Newline
      /\ \A p \in 1..(o[n] - 1) : whole[p] = line[p]
      /\ Len(line) + 1 = o[n]
  <2>1. Len(line) = len - 1
    BY <1>4, <1>8
  <2>2. /\ Append(line, Newline) \in Text
        /\ Len(Append(line, Newline)) = Len(line) + 1 /\ Len(line) \in Nat
        /\ Append(line, Newline)[Len(line) + 1] = Newline
        /\ \A p \in 1..Len(line) : Append(line, Newline)[p] = line[p]
    BY <1>2, <1>4, AppendText
  <2>3. Len(line) + 1 = len
    BY <2>1, <2>2
  <2> QED
    BY <1>5, <1>8, <2>1, <2>2, <2>3
<1>10. ASSUME NEW i \in 1..n, NEW p \in 1..w[i] PROVE whole[o[i - 1] + p] = cells[i][p]
  <2>1. i \in 0..n /\ (i = n \/ i < n)
    OBVIOUS
  <2>2. o[i] <= o[n] /\ o[i] \in Nat
    BY <1>6, <1>7, <2>1
  <2>3. o[i - 1] \in Nat /\ o[i] = o[i - 1] + w[i] + 1 /\ w[i] \in Nat
    BY <1>6
  <2>4. o[i - 1] + p \in 1..(o[n] - 1)
    <3>1. PICK a \in Nat, b \in Nat, c \in Nat :
            /\ a = o[i - 1] /\ b = w[i] /\ c = o[i] /\ c = a + b + 1 /\ c <= len
            /\ p \in 1..b
      <4>1. p \in 1..w[i]
        OBVIOUS
      <4>2. o[i] \in Nat /\ o[i - 1] \in Nat /\ w[i] \in Nat /\ o[i] <= len
        BY <1>8, <2>2, <2>3, Zenon
      <4> QED
        BY <2>3, <4>1, <4>2, Zenon
    <3>2. a + p \in 1..(len - 1)
      BY <3>1, StaysWithin, Zenon
    <3> QED
      BY <1>8, <3>1, <3>2
  <2>5. whole[o[i - 1] + p] = line[o[i - 1] + p]
    BY <1>9, <2>4, Zenon
  <2>6. line[o[i - 1] + p] = cells[i][p]
    BY <1>4, Zenon
  <2> QED
    BY <2>5, <2>6, Zenon
<1>11. ASSUME NEW i \in 1..(n - 1) PROVE whole[o[i]] = Comma
  <2>1. i \in 0..n /\ i \in 1..n /\ i < n /\ 0 < i
    OBVIOUS
  <2>2. o[i] < o[n] /\ o[0] < o[i] /\ o[i] \in Nat
    BY <1>6, <1>7, <2>1, Zenon
  <2>3. o[i] \in 1..(o[n] - 1)
    BY <1>6, <1>8, <2>2
  <2>4. whole[o[i]] = line[o[i]]
    BY <1>9, <2>3, Zenon
  <2>5. line[o[i]] = comma[1]
    BY <1>4, Zenon
  <2> QED
    BY <1>3, <2>4, <2>5, Zenon
<1>12. whole = CsvLine(cells) /\ line = Line(cells, <<Comma>>)
  BY <1>0, <1>1, <1>5 DEF CsvLine
<1>13. line \in Text /\ Len(line) + 1 = o[n]
  BY <1>4, <1>9, Zenon
<1> QED
  BY <1>9, <1>10, <1>11, <1>12, <1>13

\* Cell after cell, a line is read as the record of its fields.
LEMMA LineRead ==
  ASSUME NEW text \in Text, NEW r, NEW q, NEW n \in Nat \ {0}, NEW cells, NEW fields,
         CsvCells(cells, fields, n), NEW R, ComesToCell(r, text, q, CsvLine(cells), R, <<>>)
  PROVE  /\ CsvLine(cells) \in Text
         /\ r[q + Len(CsvLine(cells))] = Reader(Append(R, fields), <<>>, <<>>, "unquoted")
<1>1. /\ cells \in Seq(Text) /\ Len(cells) = n /\ \A i \in 1..n : cells[i] \in Text
      /\ fields \in Seq(Text) /\ Len(fields) = n /\ \A i \in 1..n : fields[i] \in Text
      /\ \A i \in 1..n : CsvCell(cells[i], fields[i])
  BY DEF CsvCells
<1>2. PICK w \in [1..n -> Nat] : \A i \in 1..n : w[i] = Len(cells[i])
  <2>1. \A i \in 1..n : Len(cells[i]) \in Nat
    BY <1>1, TextLength
  <2> WITNESS [i \in 1..n |-> Len(cells[i])] \in [1..n -> Nat]
  <2> QED
    BY <2>1
<1>3. Fits(cells, n, w)
  BY <1>1, <1>2 DEF Fits
<1>4. PICK o : Begins(o, n, w)
  <2>1. n \in Nat
    OBVIOUS
  <2>2. \E o \in [0..n -> Nat] : o[0] = 0 /\ \A j \in 1..n : o[j] = o[j - 1] + w[j] + 1
    BY <2>1, SumsExist
  <2> QED
    BY <2>2, Zenon DEF Begins
<1>5. PICK line : line = CsvLine(cells)
  OBVIOUS
<1>6. /\ line \in Text /\ Len(line) = o[n]
      /\ \A i \in 1..n : \A p \in 1..w[i] : line[o[i - 1] + p] = cells[i][p]
      /\ \A i \in 1..(n - 1) : line[o[i]] = Comma
      /\ line[o[n]] = Newline
  <2>1. /\ CsvLine(cells) \in Text /\ Len(CsvLine(cells)) = o[n]
        /\ \A i \in 1..n : \A p \in 1..w[i] : CsvLine(cells)[o[i - 1] + p] = cells[i][p]
        /\ \A i \in 1..(n - 1) : CsvLine(cells)[o[i]] = Comma
        /\ CsvLine(cells)[o[n]] = Newline
    BY ONLY <1>3, <1>4, CsvLineAt, n \in Nat \ {0}, w \in [1..n -> Nat]
  <2> QED
    BY <1>5, <2>1, Zenon
<1>7. /\ Reads(r, text) /\ q \in Nat /\ q + Len(line) <= Len(text) /\ Len(text) \in Nat
      /\ \A p \in 1..Len(line) : text[q + p] = line[p]
      /\ r[q] = Reader(R, <<>>, <<>>, "unquoted")
  BY <1>5, TextLength DEF ComesToCell, StandsAt
<1>8. /\ \A i \in 0..n : o[i] \in Nat
      /\ \A i \in 1..n : i - 1 \in 0..n /\ i \in 0..n /\ o[i] = o[i - 1] + w[i] + 1 /\ w[i] \in Nat
      /\ o[0] = 0 /\ 0 \in 0..n /\ n \in 0..n
  <2>1. /\ \A i \in 1..n : i - 1 \in 0..n /\ i \in 0..n
        /\ 0 \in 0..n /\ n \in 0..n
    OBVIOUS
  <2> QED
    BY <1>4, <2>1 DEF Begins
<1>9. \A i \in 1..n : o[i] <= o[n]
  <2>1. \A i, j \in 0..n : i < j => o[i] < o[j]
    <3>1. n \in Nat
      OBVIOUS
    <3> QED
      BY <1>4, <3>1, BeginsRise
  <2>2. \A i \in 1..n : i = n \/ i < n
    OBVIOUS
  <2> QED
    BY <1>8, <2>1, <2>2
\* Every cell is read, up to the sign behind it.
<1>10. ASSUME NEW i \in 1..n, NEW C, r[q + o[i - 1]] = Reader(R, C, <<>>, "unquoted")
       PROVE  /\ q + o[i] \in Nat
              /\ \E mode \in {"unquoted", "closed"} :
                   r[q + o[i]] = ReadChar(Reader(R, C, fields[i], mode), line[o[i]])
  <2>1. PICK a \in Nat, b \in Nat : a = o[i - 1] /\ b = w[i] /\ o[i] = a + b + 1
    <3>1. i - 1 \in 0..n /\ w[i] \in Nat /\ o[i] = o[i - 1] + w[i] + 1
      BY <1>8, Zenon
    <3>2. o[i - 1] \in Nat
      BY <1>8, <3>1, Zenon
    <3> QED
      BY <3>1, <3>2, Zenon
  <2>2. PICK last \in Nat : last = Len(line) /\ a + b + 1 <= last
    BY <1>6, <1>8, <1>9, <2>1
  <2>3. PICK cell \in Text, field \in Text :
          cell = cells[i] /\ field = fields[i] /\ CsvCell(cell, field) /\ Len(cell) = b
    BY <1>1, <1>2, <2>1
  <2>4. PICK s \in Nat : s = q + a
    BY <1>7
  <2>5. StandsAt(cell, text, s)
    <3>1. s + Len(cell) <= Len(text)
      BY <1>7, <2>2, <2>3, <2>4
    <3>2. ASSUME NEW p \in 1..Len(cell) PROVE text[s + p] = cell[p]
      <4>1. s + p = q + (a + p) /\ a + p \in 1..last
        BY <1>7, <2>2, <2>3, <2>4
      <4>2. text[q + (a + p)] = line[a + p]
        BY <1>7, <2>2, <4>1
      <4>3. line[a + p] = cell[p]
        BY <1>6, <2>1, <2>3
      <4> QED
        BY <4>1, <4>2, <4>3
    <3> QED
      BY <3>1, <3>2 DEF StandsAt
  <2>6. ComesToCell(r, text, s, cell, R, C)
    BY <1>7, <1>10, <2>1, <2>4, <2>5 DEF ComesToCell
  <2>7. PICK mode \in {"unquoted", "closed"} : r[s + Len(cell)] = Reader(R, C, field, mode)
    <3>1. IsRead(r, s + Len(cell), R, C, field)
      <4>1. CsvCell(cell, field) /\ cell \in Text /\ field \in Text /\ text \in Text
        BY <2>3, Zenon
      <4> QED
        BY ONLY <2>6, <4>1, CellRead, Zenon
    <3> QED
      BY <3>1, Zenon DEF IsRead
  <2>8. PICK t \in Nat : t = s + Len(cell) /\ t < Len(text) /\ t + 1 = q + o[i]
    <3>1. s + b \in Nat /\ s + b < Len(text) /\ (s + b) + 1 = q + (a + b + 1)
      BY <1>7, <2>2, <2>4
    <3> QED
      BY <2>1, <2>3, <3>1
  <2>9. r[t + 1] = ReadChar(r[t], text[t + 1])
    BY <1>7, <2>8, ReadsOn
  <2>10. text[q + o[i]] = line[o[i]]
    <3>1. o[i] \in 1..Len(line)
      BY <2>1, <2>2
    <3> QED
      BY <1>7, <3>1
  <2> QED
    BY <2>3, <2>7, <2>8, <2>9, <2>10
<1> DEFINE Read(i) == r[q + o[i]] = Reader(R, SubSeq(fields, 1, i), <<>>, "unquoted")
           T == {i \in 0..(n - 1) : ~Read(i)}
<1>11. /\ SubSeq(fields, 1, 0) = <<>> /\ SubSeq(fields, 1, n) = fields
       /\ \A i \in 1..n : SubSeq(fields, 1, i) = Append(SubSeq(fields, 1, i - 1), fields[i])
  <2>1. /\ SubSeq(fields, 1, 0) = <<>> /\ SubSeq(fields, 1, Len(fields)) = fields
        /\ \A i \in 1..Len(fields) :
             SubSeq(fields, 1, i) = Append(SubSeq(fields, 1, i - 1), fields[i])
    BY <1>1, BeginningsOf
  <2> QED
    BY <1>1, <2>1
<1>12. Read(0)
  <2>1. q + o[0] = q
    BY <1>7, <1>8
  <2> QED
    BY <1>7, <1>11, <2>1, Zenon
<1>13. ASSUME NEW i \in 1..(n - 1), Read(i - 1) PROVE Read(i)
  <2>1. i \in 1..n
    OBVIOUS
  <2>2. PICK C : C = SubSeq(fields, 1, i - 1)
    OBVIOUS
  <2>3. PICK mode \in {"unquoted", "closed"} :
          r[q + o[i]] = ReadChar(Reader(R, C, fields[i], mode), line[o[i]])
    <3>1. r[q + o[i - 1]] = Reader(R, C, <<>>, "unquoted")
      BY <1>13, <2>2
    <3> QED
      BY <1>10, <2>1, <3>1
  <2>4. line[o[i]] = Comma
    BY <1>6
  <2>5. PICK field : field = fields[i]
    OBVIOUS
  <2>6. ReadChar(Reader(R, C, field, mode), Comma) = Reader(R, Append(C, field), <<>>, "unquoted")
    BY <2>3, CommaRead
  <2>7. SubSeq(fields, 1, i) = Append(C, field)
    BY <1>11, <2>1, <2>2, <2>5
  <2> QED
    BY <2>3, <2>4, <2>5, <2>6, <2>7
<1>14. T = {}
  <2>1. SUFFICES ASSUME T # {} PROVE FALSE
    OBVIOUS
  <2>2. T \subseteq Nat
    OBVIOUS
  <2>3. PICK i \in T : \A k \in T : i <= k
    <3> HIDE DEF T
    <3> QED
      BY <2>1, <2>2, SmallestNumber
  <2>4. i \in 0..(n - 1) /\ ~Read(i)
    OBVIOUS
  <2> HIDE DEF Read
  <2>5. i # 0
    BY <1>12, <2>4
  <2>6. i \in 1..(n - 1) /\ i - 1 \in 0..(n - 1) /\ ~(i <= i - 1)
    BY <2>4, <2>5
  <2>7. Read(i - 1)
    BY <2>3, <2>6
  <2> QED
    BY <1>13, <2>4, <2>6, <2>7
<1>15. Read(n - 1)
  <2>1. n - 1 \in 0..(n - 1)
    OBVIOUS
  <2> HIDE DEF Read
  <2> QED
    BY <1>14, <2>1
<1>16. r[q + o[n]] = Reader(Append(R, fields), <<>>, <<>>, "unquoted")
  <2>1. PICK C : C = SubSeq(fields, 1, n - 1)
    OBVIOUS
  <2>2. n \in 1..n
    OBVIOUS
  <2>3. PICK mode \in {"unquoted", "closed"} :
          r[q + o[n]] = ReadChar(Reader(R, C, fields[n], mode), line[o[n]])
    <3>1. r[q + o[n - 1]] = Reader(R, C, <<>>, "unquoted")
      BY <1>15, <2>1
    <3> QED
      BY <1>10, <2>2, <3>1
  <2>4. PICK field : field = fields[n]
    OBVIOUS
  <2>5. ReadChar(Reader(R, C, field, mode), Newline)
          = Reader(Append(R, Append(C, field)), <<>>, <<>>, "unquoted")
    BY <2>3, NewlineRead
  <2>6. fields = Append(C, field)
    BY <1>11, <2>1, <2>2, <2>4
  <2> QED
    BY <1>6, <2>3, <2>4, <2>5, <2>6
<1> QED
  BY <1>5, <1>6, <1>16

LEMMA CsvLineText ==
  ASSUME NEW n \in Nat \ {0}, NEW cells, NEW fields, CsvCells(cells, fields, n)
  PROVE  Line(cells, <<Comma>>) \in Text /\ CsvLine(cells) \in Text
<1>1. /\ cells \in Seq(Text) /\ Len(cells) = n /\ \A i \in 1..n : cells[i] \in Text
  BY DEF CsvCells
<1>2. PICK w \in [1..n -> Nat] : \A i \in 1..n : w[i] = Len(cells[i])
  <2>1. \A i \in 1..n : Len(cells[i]) \in Nat
    BY <1>1, TextLength
  <2> WITNESS [i \in 1..n |-> Len(cells[i])] \in [1..n -> Nat]
  <2> QED
    BY <2>1
<1>3. Fits(cells, n, w)
  BY <1>1, <1>2 DEF Fits
<1>4. PICK o : Begins(o, n, w)
  <2>1. n \in Nat
    OBVIOUS
  <2>2. \E o \in [0..n -> Nat] : o[0] = 0 /\ \A j \in 1..n : o[j] = o[j - 1] + w[j] + 1
    BY <2>1, SumsExist
  <2> QED
    BY <2>2, Zenon DEF Begins
<1> QED
  BY <1>3, <1>4, CsvLineAt

\* Line after line, what is printed is read as the table it was.
PrintedFrom(parts, table, n, m) ==
  /\ n \in Nat \ {0} /\ m \in Nat \ {0}
  /\ IsSequence(parts) /\ Len(parts) = m /\ table \in Seq(Seq(Text)) /\ Len(table) = m
  /\ \A k \in 1..m : \E cells : CsvCells(cells, table[k], n) /\ parts[k] = CsvLine(cells)

LEMMA TableRead ==
  ASSUME NEW parts, NEW table, NEW n, NEW m, PrintedFrom(parts, table, n, m)
  PROVE  ReadCsv(FlattenSeq(parts)) = table
<1> SUFFICES ASSUME n \in Nat \ {0}, m \in Nat \ {0}, IsSequence(parts), Len(parts) = m,
                    table \in Seq(Seq(Text)), Len(table) = m,
                    \A k \in 1..m : \E cells :
                      CsvCells(cells, table[k], n) /\ parts[k] = CsvLine(cells)
             PROVE  ReadCsv(FlattenSeq(parts)) = table
  BY Zenon DEF PrintedFrom
<1>3. ASSUME NEW k \in 1..m
      PROVE  /\ parts[k] \in Text /\ Len(parts[k]) \in Nat \ {0}
             /\ \E cells : CsvCells(cells, table[k], n) /\ parts[k] = CsvLine(cells)
  <2>1. PICK cells : CsvCells(cells, table[k], n) /\ parts[k] = CsvLine(cells)
    OBVIOUS
  <2>2. Line(cells, <<Comma>>) \in Text /\ CsvLine(cells) \in Text
    BY <2>1, CsvLineText
  <2>3. Newline \in Characters
    BY CharactersAssumption
  <2>4. Len(CsvLine(cells)) = Len(Line(cells, <<Comma>>)) + 1 /\ Len(Line(cells, <<Comma>>)) \in Nat
    BY <2>2, <2>3, AppendText DEF CsvLine
  <2> QED
    BY <2>1, <2>2, <2>4
<1>4. parts \in Seq(Text) /\ Len(parts) = m
  <2>1. PICK set : parts \in Seq(set)
    BY DEF IsSequence
  <2>2. \A k \in 1..m : parts[k] \in Text
    BY <1>3
  <2> QED
    BY <2>1, <2>2
<1>5. PICK w \in [1..m -> Nat] : \A k \in 1..m : Len(parts[k]) = w[k] + 1
  <2>1. \A k \in 1..m : Len(parts[k]) \in Nat \ {0}
    BY <1>3
  <2>2. \A k \in 1..m : Len(parts[k]) - 1 \in Nat /\ Len(parts[k]) = (Len(parts[k]) - 1) + 1
    BY <2>1
  <2> DEFINE w == [k \in 1..m |-> Len(parts[k]) - 1]
  <2>3. w \in [1..m -> Nat] /\ \A k \in 1..m : w[k] = Len(parts[k]) - 1
    BY <2>2
  <2> HIDE DEF w
  <2> QED
    BY <2>2, <2>3
<1>6. PICK s : Begins(s, m, w)
  <2>1. m \in Nat
    OBVIOUS
  <2>2. \E o \in [0..m -> Nat] : o[0] = 0 /\ \A j \in 1..m : o[j] = o[j - 1] + w[j] + 1
    BY <2>1, SumsExist
  <2> QED
    BY <2>2, Zenon DEF Begins
<1>7. /\ s \in [0..m -> Nat] /\ s[0] = 0
      /\ \A k \in 1..m : s[k] = s[k - 1] + Len(parts[k])
      /\ \A k \in 0..m : s[k] \in Nat
  <2>1. \A k \in 1..m : s[k] = s[k - 1] + w[k] + 1 /\ s[k - 1] \in Nat /\ w[k] \in Nat
    <3>1. \A k \in 1..m : k - 1 \in 0..m
      OBVIOUS
    <3> QED
      BY <1>6, <3>1 DEF Begins
  <2>2. \A k \in 1..m : Len(parts[k]) = w[k] + 1
    BY <1>5
  <2>3. \A k \in 1..m : s[k] = s[k - 1] + Len(parts[k])
    <3> SUFFICES ASSUME NEW k \in 1..m PROVE s[k] = s[k - 1] + Len(parts[k])
      OBVIOUS
    <3>1. s[k] = s[k - 1] + w[k] + 1 /\ s[k - 1] \in Nat /\ w[k] \in Nat
      BY <2>1, Zenon
    <3>2. Len(parts[k]) = w[k] + 1
      BY <2>2, Zenon
    <3>3. PICK a \in Nat, b \in Nat : a = s[k - 1] /\ b = w[k]
      BY <3>1
    <3>4. a + b + 1 = a + (b + 1)
      OBVIOUS
    <3> QED
      BY <3>1, <3>2, <3>3, <3>4, Zenon
  <2> QED
    BY <1>6, <2>3 DEF Begins
<1>8. PICK text : text = FlattenSeq(parts)
  OBVIOUS
<1>9. /\ text \in Text /\ Len(text) = s[m]
      /\ \A k \in 1..m : \A p \in 1..Len(parts[k]) : text[s[k - 1] + p] = parts[k][p]
  <2>1. /\ FlattenSeq(parts) \in Text /\ Len(FlattenSeq(parts)) = s[m]
        /\ \A k \in 1..m : \A p \in 1..Len(parts[k]) :
             FlattenSeq(parts)[s[k - 1] + p] = parts[k][p]
    BY ONLY <1>4, <1>7, FlattenAt, m \in Nat \ {0}
  <2> QED
    BY <1>8, <2>1, Zenon
<1>10. PICK r : Reads(r, text) /\ ReadCsv(text) = r[Len(text)].records
  BY <1>9, ReadSteps
<1> DEFINE Read(k) == r[s[k]] = Reader(SubSeq(table, 1, k), <<>>, <<>>, "unquoted")
           T == {k \in 0..m : ~Read(k)}
<1>11. /\ SubSeq(table, 1, 0) = <<>> /\ SubSeq(table, 1, m) = table
       /\ \A k \in 1..m : SubSeq(table, 1, k) = Append(SubSeq(table, 1, k - 1), table[k])
  <2>1. /\ SubSeq(table, 1, 0) = <<>> /\ SubSeq(table, 1, Len(table)) = table
        /\ \A k \in 1..Len(table) :
             SubSeq(table, 1, k) = Append(SubSeq(table, 1, k - 1), table[k])
    BY BeginningsOf
  <2> QED
    BY <2>1
<1>12. Read(0)
  <2>1. r[0] = Reader(<<>>, <<>>, <<>>, "unquoted")
    BY <1>10, BegunType DEF Reads
  <2> QED
    BY <1>7, <1>11, <2>1, Zenon
<1>13. ASSUME NEW k \in 1..m, Read(k - 1) PROVE Read(k)
  <2>1. PICK cells : CsvCells(cells, table[k], n) /\ parts[k] = CsvLine(cells)
    BY <1>3
  <2>2. PICK q, line, R : q = s[k - 1] /\ line = CsvLine(cells) /\ R = SubSeq(table, 1, k - 1)
    OBVIOUS
  <2>3. q \in Nat /\ s[k] = q + Len(line) /\ s[k] \in Nat
    <3>1. k - 1 \in 0..m /\ k \in 0..m
      OBVIOUS
    <3> QED
      BY <1>7, <2>1, <2>2, <3>1
  <2>4. s[k] <= s[m] /\ s[m] \in Nat
    <3>1. \A i, j \in 0..m : i < j => s[i] < s[j]
      <4>1. m \in Nat
        OBVIOUS
      <4> QED
        BY <1>6, <4>1, BeginsRise
    <3>2. k \in 0..m /\ m \in 0..m /\ (k = m \/ k < m)
      OBVIOUS
    <3>3. s[k] \in Nat /\ s[m] \in Nat
      BY <1>7, <3>2, Zenon
    <3>4. k < m => s[k] < s[m]
      BY <3>1, <3>2, Zenon
    <3> QED
      BY <3>2, <3>3, <3>4
  <2>5. StandsAt(line, text, q)
    <3>1. \A p \in 1..Len(line) : text[q + p] = line[p]
      BY <1>9, <2>1, <2>2
    <3> QED
      BY <1>9, <2>3, <2>4, <3>1 DEF StandsAt
  <2>6. ComesToCell(r, text, q, line, R, <<>>)
    BY <1>10, <1>13, <2>2, <2>5 DEF ComesToCell
  <2>7. PICK fields : fields = table[k]
    OBVIOUS
  <2>8. r[q + Len(line)] = Reader(Append(R, fields), <<>>, <<>>, "unquoted")
    <3>1. CsvCells(cells, fields, n) /\ ComesToCell(r, text, q, CsvLine(cells), R, <<>>)
      BY <2>1, <2>2, <2>6, <2>7
    <3>2. r[q + Len(CsvLine(cells))] = Reader(Append(R, fields), <<>>, <<>>, "unquoted")
      BY <1>9, <3>1, LineRead
    <3> QED
      BY <2>2, <3>2
  <2> QED
    BY <1>11, <2>2, <2>3, <2>7, <2>8
<1>14. T = {}
  <2>1. SUFFICES ASSUME T # {} PROVE FALSE
    OBVIOUS
  <2>2. T \subseteq Nat
    OBVIOUS
  <2>3. PICK k \in T : \A i \in T : k <= i
    <3> HIDE DEF T
    <3> QED
      BY <2>1, <2>2, SmallestNumber
  <2>4. k \in 0..m /\ ~Read(k)
    OBVIOUS
  <2> HIDE DEF Read
  <2>5. k # 0
    BY <1>12, <2>4
  <2>6. k \in 1..m /\ k - 1 \in 0..m /\ ~(k <= k - 1)
    BY <2>4, <2>5
  <2>7. Read(k - 1)
    BY <2>3, <2>6
  <2> QED
    BY <1>13, <2>4, <2>6, <2>7
<1>15. Read(m)
  <2>1. m \in 0..m
    OBVIOUS
  <2> HIDE DEF Read
  <2> QED
    BY <1>14, <2>1
<1>16. r[Len(text)] = Reader(table, <<>>, <<>>, "unquoted")
  BY <1>9, <1>11, <1>15
<1>17. ReadCsv(text) = table
  BY <1>10, <1>16 DEF Reader
<1> QED
  BY <1>8, <1>17

LEMMA NothingRead == ReadCsv(FlattenSeq(<<>>)) = <<>>
<1>1. FlattenSeq(<<>>) = <<>>
  BY DEF FlattenSeq
<1>2. <<>> \in Text /\ Len(<<>>) = 0
  BY DEF Text
<1>3. PICK r : Reads(r, <<>>) /\ ReadCsv(<<>>) = r[Len(<<>>)].records
  BY <1>2, ReadSteps
<1>4. r[0] = CsvBegun
  BY <1>3 DEF Reads
<1>5. CsvBegun.records = <<>>
  BY DEF CsvBegun
<1> QED
  BY <1>1, <1>2, <1>3, <1>4, <1>5

-----------------------------------------------------------------------------
(***************************************************************************)
(* Without alignment a field is printed as it is, and in CSV mode between  *)
(* quotes where it must be.                                                *)
(***************************************************************************)
LEMMA NoBlanks ==
  ASSUME NEW size \in Int, size <= 0
  PROVE  Repeat(Blank, size) = <<>>
<1>1. 1..size = {}
  OBVIOUS
<1> QED
  BY <1>1 DEF Repeat

LEMMA Alone ==
  ASSUME NEW text \in Text
  PROVE  <<>> \o text \o <<>> = text
BY ConcatEmptySeq DEF Text

LEMMA CenterPlain ==
  ASSUME NEW field \in Text
  PROVE  printStrInCenter(field, 0) = field
<1> DEFINE padding == 0 - Len(field)
<1>1. padding \in Int /\ padding <= 0 /\ ~(padding > 0)
  BY TextLength
<1>2. padding \div 2 \in Int /\ padding \div 2 <= 0
  <2> HIDE DEF padding
  <2> QED
    BY <1>1
<1>3. Repeat(Blank, padding \div 2) = <<>>
  BY <1>2, NoBlanks
<1> HIDE DEF padding
<1>4. printStrInCenter(field, 0) = <<>> \o field \o <<>> \o <<>>
  BY <1>1, <1>3 DEF printStrInCenter, padding
<1>5. <<>> \o field \o <<>> = field /\ field \o <<>> = field
  BY Alone, ConcatEmptySeq DEF Text
<1> QED
  BY <1>4, <1>5

LEMMA FieldPlain ==
  ASSUME NEW field \in Text, NEW special, NEW numeric \in BOOLEAN
  PROVE  printField(field, special, [isNumeric |-> numeric, width |-> 0])
           = IF NeedsQuote(field, special) THEN <<Quote>> \o field \o <<Quote>> ELSE field
<1>1. Len(field) \in Nat /\ 0 - Len(field) - 1 \in Int /\ 0 - Len(field) - 1 <= 0
  BY TextLength
<1>2. Padding(field, 0) = <<>>
  BY <1>1, NoBlanks DEF Padding
<1>3. Margin(field, 0) = <<>>
  BY <1>2 DEF Margin
<1>4. printStrLeft(field, 0) = field /\ printStrRight(field, 0) = field
  BY <1>2, <1>3, Alone DEF printStrLeft, printStrRight
<1>5. CASE NeedsQuote(field, special)
  BY <1>4, <1>5 DEF printField
<1>6. CASE ~NeedsQuote(field, special)
  <2>1. printField(field, special, [isNumeric |-> numeric, width |-> 0])
          = <<>> \o field \o <<>>
    BY <1>4, <1>6 DEF printField
  <2> QED
    BY <1>6, <2>1, Alone
<1> QED
  BY <1>5, <1>6

\* What a table is printed from, as CSV that can be read back.
CsvTable ==
  /\ result \in Results /\ Columns # {}
  /\ options.noAlign /\ options.special = {Comma, Newline} /\ options.delimiter = <<Comma>>
  /\ \A i \in Columns : PlainName(result.names[i])
  /\ \A k \in DOMAIN result.rows, i \in Columns : ~Contains(result.rows[k][i], Quote)

LEMMA CsvColumns ==
  ASSUME CsvTable
  PROVE  /\ Len(result.names) \in Nat \ {0} /\ Columns = 1..Len(result.names)
         /\ \A i \in Columns :
              getColumnInfos[i] = [isNumeric |-> isNumeric(result.types[i]), width |-> 0]
         /\ result.names \in Seq(Text)
         /\ \A k \in DOMAIN result.rows :
              result.rows[k] \in Seq(Text) /\ Len(result.rows[k]) = Len(result.names)
<1>1. Len(result.names) \in Nat /\ Columns = 1..Len(result.names) /\ Columns # {}
  BY ResultIs DEF CsvTable, Columns
<1>2. Len(result.names) # 0
  BY <1>1
<1>3. \A i \in Columns :
        getColumnInfos[i] = [isNumeric |-> isNumeric(result.types[i]), width |-> 0]
  BY DEF getColumnInfos, CsvTable
<1>4. /\ result.names \in Seq(Text) /\ result.rows \in Seq(Seq(Text))
      /\ \A k \in DOMAIN result.rows : Len(result.rows[k]) = Len(result.names)
  BY ResultsAssumption DEF CsvTable
<1>5. \A k \in DOMAIN result.rows : result.rows[k] \in Seq(Text)
  BY <1>4
<1> QED
  BY <1>1, <1>2, <1>3, <1>4, <1>5

LEMMA CsvHeader ==
  ASSUME CsvTable
  PROVE  \E cells : /\ CsvCells(cells, result.names, Len(result.names))
                    /\ printHeaders = Line(cells, <<Comma>>)
<1> DEFINE n == Len(result.names)
<1>1. n \in Nat \ {0} /\ Columns = 1..n /\ result.names \in Seq(Text)
  BY CsvColumns
<1>2. ASSUME NEW i \in Columns
      PROVE  /\ HeaderCells[i] = result.names[i] /\ HeaderCells[i] \in Text
             /\ CsvCell(HeaderCells[i], result.names[i])
  <2>1. PICK name \in Text : name = result.names[i]
    BY <1>1
  <2>2. getColumnInfos[i] = [isNumeric |-> isNumeric(result.types[i]), width |-> 0]
    BY CsvColumns
  <2>3. HeaderCells[i] = name
    <3>1. printStrInCenter(name, 0) = name
      BY CenterPlain
    <3>2. HeaderCells[i] = printStrInCenter(result.names[i], 0)
      BY <2>2 DEF HeaderCells
    <3> QED
      BY <2>1, <3>1, <3>2
  <2>4. {Comma, Newline, Quote} \cap ToSet(name) = {}
    BY <2>1 DEF CsvTable, PlainName
  <2>5. ~Contains(name, Quote) /\ ~NeedsQuote(name, {Comma, Newline})
    <3>1. ASSUME NEW char, Contains(name, char) PROVE char \in ToSet(name)
      <4>1. DOMAIN name = 1..Len(name)
        BY DEF Text
      <4> QED
        BY <3>1, <4>1 DEF Contains, ToSet
    <3> QED
      BY <2>4, <3>1 DEF NeedsQuote
  <2> QED
    BY <2>1, <2>3, <2>5 DEF CsvCell
<1>3. HeaderCells = [i \in Columns |-> HeaderCells[i]]
  BY DEF HeaderCells
<1>4. HeaderCells \in Seq(Text) /\ Len(HeaderCells) = n
  <2> HIDE DEF n
  <2>1. HeaderCells \in [1..n -> Text]
    BY <1>1, <1>2, <1>3
  <2> QED
    BY <1>1, <2>1
<1>5. CsvCells(HeaderCells, result.names, n)
  BY <1>1, <1>2, <1>4 DEF CsvCells
<1>6. printHeaders = Line(HeaderCells, <<Comma>>)
  BY DEF printHeaders, HeaderCells, CsvTable
<1> QED
  BY <1>5, <1>6

LEMMA CsvRow ==
  ASSUME CsvTable, NEW k \in DOMAIN result.rows
  PROVE  \E cells : /\ CsvCells(cells, result.rows[k], Len(result.names))
                    /\ printRow(result.rows[k]) = Line(cells, <<Comma>>)
<1> DEFINE n == Len(result.names)
           cells == RowCells(result.rows[k])
<1>1. /\ n \in Nat \ {0} /\ Columns = 1..n
      /\ result.rows[k] \in Seq(Text) /\ Len(result.rows[k]) = n
  BY CsvColumns
<1>2. ASSUME NEW i \in Columns
      PROVE  cells[i] \in Text /\ CsvCell(cells[i], result.rows[k][i])
  <2>1. PICK field \in Text, numeric \in BOOLEAN :
          field = result.rows[k][i] /\ numeric = isNumeric(result.types[i])
    <3>1. isNumeric(result.types[i]) \in BOOLEAN
      BY DEF isNumeric
    <3>2. result.rows[k][i] \in Text
      BY <1>1
    <3> QED
      BY <3>1, <3>2, Zenon
  <2>2. getColumnInfos[i] = [isNumeric |-> isNumeric(result.types[i]), width |-> 0]
    BY CsvColumns
  <2>3. cells[i] = printField(result.rows[k][i], options.special, getColumnInfos[i])
    BY DEF RowCells
  <2>4. cells[i] = printField(field, {Comma, Newline}, [isNumeric |-> numeric, width |-> 0])
    BY <2>1, <2>2, <2>3, Zenon DEF CsvTable
  <2> HIDE DEF cells
  <2>5. cells[i] = IF NeedsQuote(field, {Comma, Newline}) THEN <<Quote>> \o field \o <<Quote>>
                                                         ELSE field
    BY <2>4, FieldPlain
  <2>6. ~Contains(field, Quote)
    BY <2>1 DEF CsvTable
  <2>7. <<Quote>> \o field \o <<Quote>> \in Text
    <3>1. PICK mark : mark = <<Quote>>
      OBVIOUS
    <3>2. mark \in Text
      <4>1. Quote \in Characters
        BY CharactersAssumption
      <4> QED
        BY <3>1, <4>1, SingleText
    <3>3. mark \o field \in Text
      BY <3>2, ConcatAt
    <3>4. (mark \o field) \o mark \in Text
      BY <3>2, <3>3, ConcatAt
    <3> QED
      BY <3>1, <3>4
  <2>8. cells[i] \in Text
    BY <2>5, <2>7
  <2> QED
    BY <2>1, <2>5, <2>6, <2>8 DEF CsvCell
<1>3. cells = [i \in Columns |-> cells[i]]
  BY DEF RowCells
<1> HIDE DEF n, cells
<1>4. cells \in Seq(Text) /\ Len(cells) = n
  <2>1. cells \in [1..n -> Text]
    BY <1>1, <1>2, <1>3
  <2> QED
    BY <1>1, <2>1
<1>5. CsvCells(cells, result.rows[k], n)
  BY <1>1, <1>2, <1>4 DEF CsvCells
<1>6. printRow(result.rows[k]) = Line(cells, <<Comma>>)
  BY DEF printRow, RowCells, CsvTable, cells
<1> QED
  BY <1>5, <1>6 DEF n

(***************************************************************************)
(* In CSV mode there are the header and the rows printed so far, and       *)
(* nothing else.                                                           *)
(***************************************************************************)
CsvLaid ==
  /\ pc = "title" => out = <<>> /\ row = 0
  /\ pc = "headers" => Columns # {} /\ out = <<>> /\ row = 0
  /\ pc # "bars"
  /\ pc = "rows" => Columns # {}
  /\ pc \in {"rows", "done"} /\ Columns # {} =>
       /\ Len(out) = 1 + row /\ out[1] = Append(printHeaders, Newline)
       /\ \A k \in 1..row : out[1 + k] = Append(printRow(result.rows[k]), Newline)
  /\ pc = "done" => IF Columns = {} THEN out = <<>> ELSE row = Len(result.rows)

CsvMode ==
  /\ options.noAlign = TRUE /\ options.special = {Comma, Newline}
  /\ options.delimiter = <<Comma>> /\ options.titleAndSummary = FALSE

CsvInv == IsCsv => CsvMode /\ CsvLaid

LEMMA CsvStarts == Init => CsvInv
<1> SUFFICES ASSUME Init, IsCsv PROVE CsvMode /\ CsvLaid
  BY DEF CsvInv
<1>1. PICK csv \in BOOLEAN, noAlign \in BOOLEAN, separator \in Separators :
        options = HandleFormatOptions(csv, noAlign, separator)
  BY DEF Init
<1>2. csv
  BY <1>1 DEF HandleFormatOptions, IsCsv
<1>3. CsvMode
  BY <1>1, <1>2 DEF HandleFormatOptions, CsvMode
<1>4. CsvLaid
  BY DEF Init, CsvLaid
<1> QED
  BY <1>3, <1>4

LEMMA CsvSteps == FormatterInv /\ CsvInv /\ [Next]_vars => CsvInv'
<1> SUFFICES ASSUME FormatterInv, CsvInv, [Next]_vars, IsCsv' PROVE CsvMode' /\ CsvLaid'
  BY DEF CsvInv
<1>1. result \in Results /\ row \in 0..Len(result.rows) /\ IsSequence(out)
  BY DEF FormatterInv
<1>2. Len(result.rows) \in Nat /\ Len(out) \in Nat
  BY <1>1, ResultIs, AppendAt
<1>3. UNCHANGED given
  BY DEF Next, PrintTitle, PrintHeaders, PrintBars, PrintRow, PrintSummary, Done, vars
<1>4. result' = result /\ title' = title /\ options' = options /\ typeMap' = typeMap
  BY <1>3 DEF given
<1>5. /\ Columns' = Columns /\ printHeaders' = printHeaders
      /\ \A k : printRow(result.rows[k])' = printRow(result.rows[k])
  BY <1>4 DEF Columns, printHeaders, printRow, getColumnInfos, isNumeric, Width
<1>6. CsvMode /\ CsvLaid
  BY <1>4 DEF CsvInv, IsCsv
<1>7. CsvMode'
  BY <1>4, <1>6 DEF CsvMode
<1>8. options.noAlign = TRUE /\ options.titleAndSummary = FALSE
  BY <1>6 DEF CsvMode
<1>9. CASE PrintTitle
  <2>1. /\ pc = "title" /\ row' = row /\ out' = out
        /\ pc' = IF Columns = {} THEN "done" ELSE "headers"
    BY <1>8, <1>9 DEF PrintTitle
  <2>2. out = <<>> /\ row = 0
    BY <1>6, <2>1 DEF CsvLaid
  <2> QED
    BY <1>5, <1>7, <2>1, <2>2 DEF CsvLaid
<1>10. CASE PrintHeaders
  <2>0. PICK piece : piece = Append(printHeaders, Newline)
    OBVIOUS
  <2>1. pc = "headers" /\ row' = row /\ out' = Append(out, piece) /\ pc' = "rows"
    BY <1>8, <1>10, <2>0 DEF PrintHeaders, Put
  <2>2. Columns # {} /\ out = <<>> /\ row = 0
    BY <1>6, <2>1 DEF CsvLaid
  <2>3. Len(out') = 1 /\ out'[1] = piece
    <3>1. Len(<<>>) = 0 /\ 0 + 1 = 1
      OBVIOUS
    <3>2. /\ Len(Append(out, piece)) = Len(out) + 1
          /\ Append(out, piece)[Len(out) + 1] = piece
      BY <1>1, AppendAt
    <3> QED
      BY <2>1, <2>2, <3>1, <3>2
  <2> QED
    BY <1>5, <1>7, <2>0, <2>1, <2>2, <2>3 DEF CsvLaid
<1>11. CASE PrintBars
  BY <1>6, <1>11 DEF PrintBars, CsvLaid
<1>12. CASE PrintRow
  <2>1. /\ pc = "rows" /\ pc' = pc /\ row' = row + 1
        /\ out' = Append(out, Append(printRow(result.rows[row + 1]), Newline))
    BY <1>12 DEF PrintRow, Put
  <2>2. /\ Columns # {} /\ Len(out) = 1 + row /\ out[1] = Append(printHeaders, Newline)
        /\ \A k \in 1..row : out[1 + k] = Append(printRow(result.rows[k]), Newline)
    BY <1>6, <2>1 DEF CsvLaid
  <2>3. PICK piece : piece = Append(printRow(result.rows[row + 1]), Newline)
    OBVIOUS
  <2>4. /\ Len(out') = Len(out) + 1 /\ out'[Len(out) + 1] = piece
        /\ \A k \in 1..Len(out) : out'[k] = out[k]
    <3>1. /\ Len(Append(out, piece)) = Len(out) + 1 /\ Append(out, piece)[Len(out) + 1] = piece
          /\ \A k \in 1..Len(out) : Append(out, piece)[k] = out[k]
      BY <1>1, AppendAt
    <3> QED
      BY <2>1, <2>3, <3>1
  <2>5. row \in Nat /\ row' \in Nat /\ Len(out') = 1 + row' /\ out'[1] = Append(printHeaders, Newline)
    BY <1>1, <1>2, <2>1, <2>2, <2>4
  <2>6. ASSUME NEW k \in 1..row' PROVE out'[1 + k] = Append(printRow(result.rows[k]), Newline)
    <3>1. CASE k \in 1..row
      <4>1. out[1 + k] = Append(printRow(result.rows[k]), Newline) /\ 1 + k \in 1..Len(out)
        BY <2>2, <2>5, <3>1
      <4> QED
        BY <2>4, <4>1
    <3>2. CASE k = row + 1
      <4>1. 1 + k = Len(out) + 1
        BY <2>2, <2>5, <3>2
      <4> QED
        BY <2>3, <2>4, <3>2, <4>1
    <3>3. k \in 1..row \/ k = row + 1
      BY <2>1, <2>5
    <3> QED
      BY <3>1, <3>2, <3>3
  <2> QED
    BY <1>4, <1>5, <1>7, <2>1, <2>2, <2>5, <2>6 DEF CsvLaid
<1>13. CASE PrintSummary
  <2>1. pc = "rows" /\ pc' = "done" /\ row = Len(result.rows) /\ row' = row
    BY <1>13 DEF PrintSummary
  <2>2. out' = out \o <<>> \o <<>>
    BY <1>8, <1>13 DEF PrintSummary
  <2>3. out' = out
    <3>1. PICK set : out \in Seq(set)
      BY <1>1 DEF IsSequence
    <3>2. out \o <<>> = out
      BY <3>1, ConcatEmptySeq
    <3> QED
      BY <2>2, <3>2
  <2>4. /\ Columns # {} /\ Len(out) = 1 + row /\ out[1] = Append(printHeaders, Newline)
        /\ \A k \in 1..row : out[1 + k] = Append(printRow(result.rows[k]), Newline)
    BY <1>6, <2>1 DEF CsvLaid
  <2> QED
    BY <1>4, <1>5, <1>7, <2>1, <2>3, <2>4 DEF CsvLaid
<1>14. CASE Done \/ UNCHANGED vars
  <2>1. pc' = pc /\ row' = row /\ out' = out
    BY <1>14 DEF Done, vars
  <2> QED
    BY <1>4, <1>5, <1>6, <1>7, <2>1 DEF CsvLaid
<1> QED
  BY <1>9, <1>10, <1>11, <1>12, <1>13, <1>14 DEF Next

\* What is printed as CSV is read back.
LEMMA ReadBack == FormatterInv /\ CsvInv => CsvReadsBack
<1> SUFFICES ASSUME FormatterInv, CsvInv, pc = "done", IsCsv,
                    \A i \in Columns : PlainName(result.names[i]),
                    \A k \in DOMAIN result.rows, i \in Columns :
                      ~Contains(result.rows[k][i], Quote)
             PROVE  ReadsBack
  BY DEF CsvReadsBack
<1>1. CsvMode /\ CsvLaid /\ result \in Results /\ IsSequence(out)
  BY DEF CsvInv, FormatterInv
<1>2. CASE Columns = {}
  <2>1. out = <<>>
    BY <1>1, <1>2 DEF CsvLaid
  <2>2. Printed = FlattenSeq(<<>>)
    BY <2>1 DEF Printed
  <2> QED
    BY <1>2, <2>2, NothingRead DEF ReadsBack
<1>3. CASE Columns # {}
  <2>1. CsvTable
    BY <1>1, <1>3 DEF CsvTable, CsvMode
  <2>2. PICK n, m : n = Len(result.names) /\ m = 1 + Len(result.rows)
    OBVIOUS
  <2>3. /\ n \in Nat \ {0} /\ result.names \in Seq(Text)
        /\ Len(result.rows) \in Nat /\ DOMAIN result.rows = 1..Len(result.rows)
    BY <1>1, <2>1, <2>2, CsvColumns, ResultIs
  <2>4. m \in Nat \ {0} /\ m - 1 \in Nat
    BY <2>2, <2>3
  <2>5. /\ row = Len(result.rows) /\ Len(out) = m /\ out[1] = Append(printHeaders, Newline)
        /\ \A k \in DOMAIN result.rows : out[1 + k] = Append(printRow(result.rows[k]), Newline)
    BY <1>1, <1>3, <2>2, <2>3 DEF CsvLaid
  <2>7. PICK table : table = <<result.names>> \o result.rows
    OBVIOUS
  <2>8. /\ table \in Seq(Seq(Text)) /\ Len(table) = m /\ table[1] = result.names
        /\ \A k \in DOMAIN result.rows : table[1 + k] = result.rows[k]
    <3>1. PICK names, rows : names = result.names /\ rows = result.rows
      OBVIOUS
    <3>2. names \in Seq(Text) /\ rows \in Seq(Seq(Text))
      BY <1>1, <3>1, ResultsAssumption
    <3>3. /\ <<names>> \o rows \in Seq(Seq(Text)) /\ Len(<<names>> \o rows) = 1 + Len(rows)
          /\ (<<names>> \o rows)[1] = names
          /\ \A k \in 1..Len(rows) : (<<names>> \o rows)[1 + k] = rows[k]
      BY <3>2
    <3> QED
      BY <2>2, <2>3, <2>7, <3>1, <3>3
  <2>9. ASSUME NEW k \in 1..m
        PROVE  \E cells : CsvCells(cells, table[k], n) /\ out[k] = CsvLine(cells)
    <3>1. CASE k = 1
      BY <2>1, <2>2, <2>5, <2>8, <3>1, CsvHeader DEF CsvLine
    <3>2. CASE k # 1
      <4>1. PICK j \in DOMAIN result.rows : k = 1 + j
        <5>1. k - 1 \in DOMAIN result.rows /\ k = 1 + (k - 1)
          BY <2>2, <2>3, <3>2
        <5> QED
          BY <5>1
      <4>2. table[k] = result.rows[j] /\ out[k] = Append(printRow(result.rows[j]), Newline)
        BY <2>5, <2>8, <4>1
      <4> QED
        BY <2>1, <2>2, <4>2, CsvRow DEF CsvLine
    <3> QED
      BY <3>1, <3>2
  <2>10. ReadCsv(Printed) = table
    <3>1. PICK parts : parts = out
      OBVIOUS
    <3>2. /\ IsSequence(parts) /\ Len(parts) = m /\ table \in Seq(Seq(Text)) /\ Len(table) = m
          /\ n \in Nat \ {0} /\ m \in Nat \ {0}
      BY <1>1, <2>3, <2>4, <2>5, <2>8, <3>1
    <3>3. \A k \in 1..m : \E cells : CsvCells(cells, table[k], n) /\ parts[k] = CsvLine(cells)
      BY <2>9, <3>1, Zenon
    <3>4. PrintedFrom(parts, table, n, m)
      BY <3>2, <3>3, Zenon DEF PrintedFrom
    <3>5. ReadCsv(FlattenSeq(parts)) = table
      BY ONLY <3>4, TableRead, Zenon
    <3> QED
      BY <3>1, <3>5 DEF Printed
  <2> QED
    BY <1>3, <2>7, <2>10 DEF ReadsBack
<1> QED
  BY <1>2, <1>3

(***************************************************************************)
(* What the CSV mode prints is read back by a CSV reader as the table it   *)
(* was, for every result whose fields hold no quote, whatever commas and   *)
(* newlines they hold, and whose column names hold none of the three.      *)
(***************************************************************************)
THEOREM CsvReadsBackCorrect == Spec => []CsvReadsBack
<1>1. Init => FormatterInv /\ CsvInv
  BY FormatterStarts, CsvStarts
<1>2. (FormatterInv /\ CsvInv) /\ [Next]_vars => (FormatterInv /\ CsvInv)'
  BY FormatterSteps, CsvSteps
<1> QED
  BY <1>1, <1>2, ReadBack, PTL DEF Spec
=============================================================================
