-------------------------- MODULE Completion_proofs --------------------------
(***************************************************************************)
(* Proofs about Completion, for all names, keywords and orders of the hash *)
(* tables: what <Tab> makes of a word, when it fails, and that a second    *)
(* one adds nothing.                                                       *)
(***************************************************************************)
EXTENDS Completion, FiniteSetTheorems, WellFoundedInduction, TLAPS

Text == Seq(Chars)

LEMMA MinOf ==
  ASSUME NEW S \in SUBSET Nat, S # {}
  PROVE  Min(S) \in S /\ \A x \in S : Min(S) <= x
<1> DEFINE Less == {p \in Nat \X Nat : p[1] < p[2]}
<1>3. IsWellFoundedOn(Less, Nat)
  BY NatLessThanWellFounded DEF OpToRel
<1> HIDE DEF Less
<1>1. PICK m \in S : \A x \in S : ~(<<x, m>> \in Less)
  BY <1>3, WFMin, Zenon
<1>2. ASSUME NEW x \in S, x < m PROVE FALSE
  <2>1. <<x, m>> \in Nat \X Nat /\ <<x, m>>[1] = x /\ <<x, m>>[2] = m
    OBVIOUS
  <2>2. <<x, m>> \in Less
    BY <1>2, <2>1 DEF Less
  <2> QED
    BY <1>1, <2>2
<1>4. \A x \in S : m <= x
  BY <1>2
<1> QED
  BY <1>4 DEF Min

LEMMA MaxOf ==
  ASSUME NEW n \in Nat, NEW S \in SUBSET (0..n), S # {}
  PROVE  Max(S) \in S /\ \A x \in S : x <= Max(S)
<1> DEFINE T == {n - x : x \in S}
<1>1. T \in SUBSET Nat /\ T # {}
  <2>1. PICK x \in S : TRUE
    OBVIOUS
  <2>2. n - x \in T
    BY <2>1
  <2>3. \A y \in S : n - y \in Nat
    OBVIOUS
  <2> QED
    BY <2>2, <2>3
<1> HIDE DEF T
<1>2. Min(T) \in T /\ \A y \in T : Min(T) <= y
  BY <1>1, MinOf
<1>3. PICK m \in S : Min(T) = n - m
  BY <1>2 DEF T
<1>4. ASSUME NEW x \in S PROVE x <= m
  <2>1. n - x \in T
    BY DEF T
  <2>2. n - m <= n - x
    BY <1>2, <1>3, <2>1
  <2> QED
    BY <2>2
<1> QED
  BY <1>4 DEF Max

(***************************************************************************)
(* Prefixes, character by character.                                       *)
(***************************************************************************)
LEMMA PrefixIs ==
  ASSUME NEW s \in Text, NEW t \in Text
  PROVE  IsPrefix(s, t) <=> Len(s) <= Len(t) /\ \A k \in 1..Len(s) : s[k] = t[k]
<1>1. CASE Len(s) <= Len(t)
  <2>1. SubSeq(s, 1, Len(s)) = s
    BY DEF Text
  <2>2. /\ SubSeq(t, 1, Len(s)) \in Seq(Chars) /\ Len(SubSeq(t, 1, Len(s))) = Len(s)
        /\ \A k \in 1..Len(s) : SubSeq(t, 1, Len(s))[k] = t[k]
    BY <1>1 DEF Text
  <2>3. SubSeq(t, 1, Len(s)) = s <=> \A k \in 1..Len(s) : s[k] = t[k]
    BY <2>2 DEF Text
  <2> QED
    BY <1>1, <2>1, <2>3 DEF IsPrefix
<1> QED
  BY <1>1 DEF IsPrefix

LEMMA PrefixOrder ==
  ASSUME NEW s \in Text, NEW t \in Text, NEW u \in Text
  PROVE  /\ IsPrefix(s, s)
         /\ IsPrefix(s, t) /\ IsPrefix(t, u) => IsPrefix(s, u)
         /\ IsPrefix(s, t) /\ Len(t) <= Len(s) => s = t
<1>1. IsPrefix(s, s)
  BY PrefixIs
<1>2. IsPrefix(s, t) /\ IsPrefix(t, u) => IsPrefix(s, u)
  BY PrefixIs DEF Text
<1>3. ASSUME IsPrefix(s, t), Len(t) <= Len(s) PROVE s = t
  <2>1. Len(s) = Len(t) /\ \A k \in 1..Len(s) : s[k] = t[k]
    BY <1>3, PrefixIs DEF Text
  <2> QED
    BY <2>1 DEF Text
<1> QED
  BY <1>1, <1>2, <1>3

(***************************************************************************)
(* What is known of the hash tables and of the line.                       *)
(***************************************************************************)
Shape ==
  /\ DOMAIN names = DOMAIN GroupNames
  /\ \A g \in DOMAIN GroupNames : names[g] \in Orders(GroupNames[g])
  /\ KEYWORDS \in Orders(Keywords)
  /\ before \in Text

Names(S) == S \subseteq Word /\ IsFiniteSet(S)

LEMMA WordIsText == Word \subseteq Text
BY DEF Word, Text

(***************************************************************************)
(* The first element of a table that begins with a text: one of the set    *)
(* the table holds, and the first that begins with itself.                 *)
(***************************************************************************)
LEMMA TableOf ==
  ASSUME NEW S, Names(S), NEW order \in Orders(S)
  PROVE  /\ Cardinality(S) \in Nat /\ DOMAIN order = 1..Cardinality(S)
         /\ \A k \in DOMAIN order : order[k] \in S /\ order[k] \in Word /\ order[k] \in Text
         /\ \A x \in S : \E k \in DOMAIN order : order[k] = x
<1>1. Cardinality(S) \in Nat
  BY FS_CardinalityType DEF Names
<1> QED
  BY <1>1, WordIsText DEF Orders, Names

LEMMA MatchesShrink ==
  ASSUME NEW S, Names(S), NEW order \in Orders(S), NEW w \in Text,
         NEW k \in Matches(order, w)
  PROVE  /\ k \in Matches(order, order[k])
         /\ Matches(order, order[k]) \subseteq Matches(order, w)
         /\ Matches(order, w) \subseteq 1..Cardinality(S)
<1>1. \A j \in DOMAIN order : order[j] \in Text
  BY TableOf
<1>2. k \in DOMAIN order /\ IsPrefix(w, order[k])
  BY DEF Matches, StartsWith
<1>3. IsPrefix(order[k], order[k])
  BY <1>1, <1>2, PrefixOrder
<1>4. \A j \in DOMAIN order : IsPrefix(order[k], order[j]) => IsPrefix(w, order[j])
  BY <1>1, <1>2, PrefixOrder
<1> QED
  BY <1>2, <1>3, <1>4, TableOf DEF Matches, StartsWith

LEMMA NoMatch ==
  ASSUME NEW S, Names(S), NEW order \in Orders(S), NEW w, Matches(order, w) = {},
         NEW x \in S
  PROVE  ~IsPrefix(w, x)
<1>1. PICK k \in DOMAIN order : order[k] = x
  BY TableOf
<1> QED
  BY <1>1 DEF Matches, StartsWith

LEMMA PrefixSearchFinds ==
  ASSUME NEW S, Names(S), NEW order \in Orders(S), NEW w \in Text,
         NEW p, p = PrefixSearch(order, w)
  PROVE  \/ p = <<>> /\ \A x \in S : ~IsPrefix(w, x)
         \/ p \in S /\ p \in Word /\ IsPrefix(w, p) /\ PrefixSearch(order, p) = p
<1>1. CASE Matches(order, w) = {}
  BY <1>1, NoMatch DEF PrefixSearch
<1>2. CASE Matches(order, w) # {}
  <2> DEFINE k == Min(Matches(order, w))
  <2>1. Matches(order, w) \in SUBSET Nat
    BY TableOf DEF Matches
  <2>2. k \in Matches(order, w) /\ \A j \in Matches(order, w) : k <= j
    BY <1>2, <2>1, MinOf
  <2>3. p = order[k]
    BY <1>2 DEF PrefixSearch
  <2> HIDE DEF k
  <2>4. p \in S /\ p \in Word /\ IsPrefix(w, p)
    BY <2>2, <2>3, TableOf DEF Matches, StartsWith
  <2>5. k \in Matches(order, p) /\ Matches(order, p) \subseteq Matches(order, w)
    BY <2>2, <2>3, MatchesShrink
  <2>6. Min(Matches(order, p)) = k
    <3>1. /\ Min(Matches(order, p)) \in Matches(order, p)
          /\ \A j \in Matches(order, p) : Min(Matches(order, p)) <= j
      BY <2>1, <2>5, MinOf
    <3>2. Min(Matches(order, p)) <= k /\ k <= Min(Matches(order, p))
      BY <2>2, <2>5, <3>1
    <3> QED
      BY <2>1, <2>2, <2>5, <3>1, <3>2
  <2>7. PrefixSearch(order, p) = p
    BY <2>3, <2>5, <2>6 DEF PrefixSearch
  <2> QED
    BY <2>4, <2>7
<1> QED
  BY <1>1, <1>2

LEMMA KeywordSearchFinds ==
  ASSUME Shape, NEW w \in Text, NEW p, p = KeywordSearch(w)
  PROVE  \/ p = <<>> /\ \A x \in Keywords : ~IsPrefix(w, x)
         \/ p \in Keywords /\ p \in Word /\ IsPrefix(w, p) /\ KeywordSearch(p) = p
<1>0. Names(Keywords) /\ KEYWORDS \in Orders(Keywords)
  BY NamesAssumption DEF Names, Shape
<1>1. CASE Matches(KEYWORDS, w) = {}
  BY <1>0, <1>1, NoMatch DEF KeywordSearch
<1>2. CASE Matches(KEYWORDS, w) # {}
  <2> DEFINE n == Cardinality(Keywords)
             k == Max(Matches(KEYWORDS, w))
  <2>1. n \in Nat /\ Matches(KEYWORDS, w) \in SUBSET (0..n)
    BY <1>0, TableOf DEF Matches
  <2> HIDE DEF n
  <2>2. k \in Matches(KEYWORDS, w) /\ \A j \in Matches(KEYWORDS, w) : j <= k
    BY <1>2, <2>1, MaxOf
  <2>3. p = KEYWORDS[k]
    BY <1>2 DEF KeywordSearch
  <2> HIDE DEF k
  <2>4. p \in Keywords /\ p \in Word /\ IsPrefix(w, p)
    BY <1>0, <2>2, <2>3, TableOf DEF Matches, StartsWith
  <2>5. k \in Matches(KEYWORDS, p) /\ Matches(KEYWORDS, p) \subseteq Matches(KEYWORDS, w)
    BY <1>0, <2>2, <2>3, MatchesShrink
  <2>6. Max(Matches(KEYWORDS, p)) = k
    <3>1. /\ Max(Matches(KEYWORDS, p)) \in Matches(KEYWORDS, p)
          /\ \A j \in Matches(KEYWORDS, p) : j <= Max(Matches(KEYWORDS, p))
      BY <2>1, <2>5, MaxOf
    <3>2. Max(Matches(KEYWORDS, p)) <= k /\ k <= Max(Matches(KEYWORDS, p))
      BY <2>2, <2>5, <3>1
    <3> QED
      BY <2>1, <2>2, <2>5, <3>1, <3>2
  <2>7. KeywordSearch(p) = p
    BY <2>3, <2>5, <2>6 DEF KeywordSearch
  <2> QED
    BY <2>4, <2>7
<1> QED
  BY <1>1, <1>2

(***************************************************************************)
(* The match is a command if there is one, or else a keyword, and is its   *)
(* own match.                                                              *)
(***************************************************************************)
LEMMA GroupFinds ==
  ASSUME Shape, NEW g \in DOMAIN names, NEW w \in Text, NEW p, p = PrefixSearch(names[g], w)
  PROVE  \/ p = <<>> /\ \A x \in GroupNames[g] : ~IsPrefix(w, x)
         \/ /\ p \in GroupNames[g] /\ p \in Word /\ IsPrefix(w, p)
            /\ PrefixSearch(names[g], p) = p
<1>1. g \in DOMAIN GroupNames /\ names[g] \in Orders(GroupNames[g]) /\ Names(GroupNames[g])
  BY NamesAssumption DEF Shape, Names
<1> QED
  BY <1>1, PrefixSearchFinds

LEMMA KnowingShrinks ==
  ASSUME Shape, NEW w \in Text, NEW p \in Text, IsPrefix(w, p)
  PROVE  Knowing(p) \subseteq Knowing(w) /\ Knowing(w) \in SUBSET Nat
<1>1. ASSUME NEW g \in Knowing(p) PROVE g \in Knowing(w)
  <2>1. g \in DOMAIN names /\ PrefixSearch(names[g], p) # <<>>
    BY DEF Knowing
  <2>2. PrefixSearch(names[g], p) \in GroupNames[g] /\ IsPrefix(p, PrefixSearch(names[g], p))
        /\ PrefixSearch(names[g], p) \in Text
    BY <2>1, GroupFinds, WordIsText
  <2>3. IsPrefix(w, PrefixSearch(names[g], p))
    BY <2>2, PrefixOrder
  <2>4. PrefixSearch(names[g], w) # <<>>
    <3>1. <<>> \notin Word
      BY DEF Word
    <3> QED
      BY <2>1, <2>2, <2>3, <3>1, GroupFinds
  <2> QED
    BY <2>1, <2>4 DEF Knowing
<1>2. Knowing(w) \in SUBSET Nat
  BY NamesAssumption DEF Knowing, Shape
<1> QED
  BY <1>1, <1>2

LEMMA MatchFinds ==
  ASSUME Shape, NEW w \in Text, NEW p, p = Match(w)
  PROVE  \/ p = <<>> /\ Completions(w) = {}
         \/ /\ p \in Completions(w) /\ p \in Word /\ Match(p) = p
            /\ p \in IF Completions(w) \cap Commands # {} THEN Commands ELSE Keywords
<1>1. CASE Knowing(w) # {}
  <2> DEFINE g == Min(Knowing(w))
  <2>1. g \in Knowing(w) /\ \A h \in Knowing(w) : g <= h
    BY <1>1, KnowingShrinks, PrefixOrder, MinOf
  <2>2. p = PrefixSearch(names[g], w)
    BY <1>1 DEF Match
  <2> HIDE DEF g
  <2>3. g \in DOMAIN names /\ p # <<>> /\ g \in DOMAIN GroupNames
    BY <2>1, <2>2 DEF Knowing, Shape
  <2>4. p \in GroupNames[g] /\ p \in Word /\ p \in Text /\ IsPrefix(w, p)
        /\ PrefixSearch(names[g], p) = p
    BY <2>2, <2>3, GroupFinds, WordIsText
  <2>5. g \in Knowing(p) /\ Knowing(p) \subseteq Knowing(w) /\ Knowing(w) \in SUBSET Nat
    BY <2>3, <2>4, KnowingShrinks DEF Knowing
  <2>6. Min(Knowing(p)) = g
    <3>1. Min(Knowing(p)) \in Knowing(p) /\ \A h \in Knowing(p) : Min(Knowing(p)) <= h
      BY <2>5, MinOf
    <3>2. Min(Knowing(p)) <= g /\ g <= Min(Knowing(p))
      BY <2>1, <2>5, <3>1
    <3> QED
      BY <2>1, <2>5, <3>1, <3>2
  <2>7. Match(p) = p
    BY <2>4, <2>5, <2>6 DEF Match
  <2>8. p \in Commands /\ p \in Completions(w)
    BY <2>3, <2>4 DEF Commands, Completions, Candidates
  <2> QED
    BY <2>4, <2>7, <2>8
<1>2. CASE Knowing(w) = {}
  <2>1. p = KeywordSearch(w)
    BY <1>2 DEF Match
  <2>2. ASSUME NEW x \in Commands PROVE ~IsPrefix(w, x)
    <3>1. PICK g \in DOMAIN GroupNames : x \in GroupNames[g]
      BY DEF Commands
    <3>2. g \in DOMAIN names /\ PrefixSearch(names[g], w) = <<>> /\ <<>> \notin Word
      BY <1>2 DEF Knowing, Shape, Word
    <3> QED
      BY <3>1, <3>2, GroupFinds
  <2>3. Completions(w) \cap Commands = {}
    BY <2>2 DEF Completions
  <2>4. CASE p = <<>> /\ \A x \in Keywords : ~IsPrefix(w, x)
    BY <2>2, <2>4 DEF Completions, Candidates
  <2>5. CASE p \in Keywords /\ p \in Word /\ IsPrefix(w, p) /\ KeywordSearch(p) = p
    <3>1. Knowing(p) = {}
      BY <1>2, <2>5, KnowingShrinks, WordIsText
    <3>2. Match(p) = p
      BY <2>5, <3>1 DEF Match
    <3>3. p \in Completions(w)
      BY <2>5 DEF Completions, Candidates
    <3> QED
      BY <2>3, <2>5, <3>2, <3>3
  <2> QED
    BY <2>1, <2>4, <2>5, KeywordSearchFinds
<1> QED
  BY <1>1, <1>2

(***************************************************************************)
(* The last word, once the rest of a match has been inserted behind it, is *)
(* the match.                                                              *)
(***************************************************************************)
LastSpace(l) == Max({0} \cup {k \in DOMAIN l : l[k] = Space})

LEMMA LastSpaceIs ==
  ASSUME NEW l \in Text
  PROVE  /\ LastSpace(l) \in 0..Len(l)
         /\ \A k \in LastSpace(l) + 1..Len(l) : l[k] # Space
         /\ LastSpace(l) # 0 => l[LastSpace(l)] = Space
<1> DEFINE S == {0} \cup {k \in DOMAIN l : l[k] = Space}
<1>1. Len(l) \in Nat /\ S \in SUBSET (0..Len(l)) /\ S # {}
  BY DEF Text
<1>2. Max(S) \in S /\ \A k \in S : k <= Max(S)
  BY <1>1, MaxOf
<1>3. LastSpace(l) = Max(S)
  BY DEF LastSpace
<1> HIDE DEF S
<1>4. LastSpace(l) \in 0..Len(l)
  BY <1>1, <1>2, <1>3
<1>5. ASSUME NEW k \in LastSpace(l) + 1..Len(l) PROVE l[k] # Space
  <2>1. k \notin S /\ k \in DOMAIN l
    BY <1>1, <1>2, <1>3, <1>4 DEF Text
  <2> QED
    BY <2>1 DEF S
<1>6. LastSpace(l) # 0 => l[LastSpace(l)] = Space
  BY <1>2, <1>3 DEF S
<1> QED
  BY <1>4, <1>5, <1>6

LEMMA LastSpaceUnique ==
  ASSUME NEW l \in Text, NEW j \in 0..Len(l), \A k \in j + 1..Len(l) : l[k] # Space,
         j # 0 => l[j] = Space
  PROVE  LastSpace(l) = j
<1>1. LastSpace(l) \in Nat /\ j \in Nat /\ Len(l) \in Nat
  BY LastSpaceIs DEF Text
<1>2. ~(LastSpace(l) < j)
  BY <1>1, LastSpaceIs
<1>3. ~(j < LastSpace(l))
  BY <1>1, LastSpaceIs
<1> QED
  BY <1>1, <1>2, <1>3

LEMMA LastWordIs ==
  ASSUME NEW l \in Text
  PROVE  /\ LastWord(l) \in Text /\ Len(LastWord(l)) = Len(l) - LastSpace(l)
         /\ \A k \in 1..Len(LastWord(l)) : LastWord(l)[k] = l[LastSpace(l) + k]
<1>1. LastSpace(l) \in 0..Len(l) /\ Len(l) \in Nat
  BY LastSpaceIs DEF Text
<1>2. LastWord(l) = SubSeq(l, LastSpace(l) + 1, Len(l))
  BY DEF LastWord, LastSpace
<1> QED
  BY <1>1, <1>2 DEF Text

LEMMA Joined ==
  ASSUME NEW l \in Text, NEW r \in Text
  PROVE  /\ l \o r \in Text /\ Len(l \o r) = Len(l) + Len(r)
         /\ \A k \in 1..Len(l) : (l \o r)[k] = l[k]
         /\ \A k \in 1..Len(r) : (l \o r)[Len(l) + k] = r[k]
BY DEF Text

LEMMA JoinedPrefix ==
  ASSUME NEW l \in Text, NEW r \in Text
  PROVE  IsPrefix(l, l \o r)
<1>1. PICK new \in Text : new = l \o r
  BY Joined
<1>2. Len(l) <= Len(new) /\ \A k \in 1..Len(l) : l[k] = new[k]
  <2>1. Len(l) \in Nat /\ Len(r) \in Nat /\ Len(new) = Len(l) + Len(r)
    BY <1>1, Joined DEF Text
  <2>2. \A k \in 1..Len(l) : l[k] = new[k]
    BY <1>1, Joined
  <2> QED
    BY <2>1, <2>2
<1> QED
  BY <1>1, <1>2, PrefixIs

LEMMA LastWordCompleted ==
  ASSUME NEW l \in Text, NEW m \in Word, IsPrefix(LastWord(l), m),
         NEW new, new = l \o Inserted(m, LastWord(l))
  PROVE  new \in Text /\ IsPrefix(l, new) /\ LastWord(new) = m
<1> DEFINE w == LastWord(l)
           j == LastSpace(l)
           r == Inserted(m, w)
<1>1. /\ j \in 0..Len(l) /\ Len(l) \in Nat /\ (j # 0 => l[j] = Space)
      /\ \A k \in j + 1..Len(l) : l[k] # Space
  BY LastSpaceIs DEF Text
<1>2. w \in Text /\ Len(w) = Len(l) - j /\ \A k \in 1..Len(w) : w[k] = l[j + k]
  BY LastWordIs
<1>3. m \in Text /\ Len(m) \in Nat /\ \A k \in 1..Len(m) : m[k] # Space
  BY DEF Word, Text
<1>4. Len(w) \in Nat /\ Len(w) <= Len(m) /\ \A k \in 1..Len(w) : w[k] = m[k]
  BY <1>2, <1>3, PrefixIs DEF Text
<1>5. /\ r \in Text /\ Len(r) = Len(m) - Len(w)
      /\ \A k \in 1..Len(r) : r[k] = m[Len(w) + k]
  BY <1>3, <1>4 DEF Inserted, Text
<1> HIDE DEF w, j, r
<1>6. new = l \o r
  BY DEF r, w
<1>7. /\ new \in Text /\ Len(new) = Len(l) + Len(r) /\ IsPrefix(l, new)
      /\ \A k \in 1..Len(l) : new[k] = l[k]
      /\ \A k \in 1..Len(r) : new[Len(l) + k] = r[k]
  <2>1. r \in Text
    BY <1>5
  <2> QED
    BY <1>6, <2>1, Joined, JoinedPrefix
<1>8. /\ j \in Nat /\ Len(l) \in Nat /\ Len(w) \in Nat /\ Len(m) \in Nat /\ j <= Len(l)
      /\ Len(w) = Len(l) - j /\ Len(r) = Len(m) - Len(w) /\ Len(w) <= Len(m)
      /\ Len(r) \in Nat /\ Len(new) = Len(l) + Len(r)
  BY <1>1, <1>2, <1>3, <1>4, <1>5, <1>7
<1>9. ASSUME NEW k \in 1..Len(m) PROVE new[j + k] = m[k]
  <2>1. CASE k <= Len(w)
    <3>1. j + k \in 1..Len(l) /\ k \in 1..Len(w)
      BY <1>8, <2>1
    <3> QED
      BY <1>2, <1>4, <1>7, <3>1
  <2>2. CASE k > Len(w)
    <3>1. /\ Len(l) + (k - Len(w)) = j + k /\ Len(w) + (k - Len(w)) = k
          /\ k - Len(w) \in 1..Len(r)
      BY <1>8, <2>2
    <3> QED
      BY <1>5, <1>7, <3>1
  <2> QED
    BY <1>8, <2>1, <2>2
<1>10. Len(new) = j + Len(m)
  BY <1>8
<1>11. LastSpace(new) = j
  <2>1. ASSUME NEW k \in j + 1..Len(new) PROVE new[k] # Space
    <3>1. k - j \in 1..Len(m) /\ j + (k - j) = k
      BY <1>1, <1>3, <1>10
    <3> QED
      BY <1>3, <1>9, <3>1
  <2>2. j # 0 => new[j] = Space
    BY <1>1, <1>7
  <2>3. j \in 0..Len(new)
    BY <1>1, <1>3, <1>10
  <2> QED
    BY <1>7, <2>1, <2>2, <2>3, LastSpaceUnique
<1>12. /\ LastWord(new) \in Text /\ Len(LastWord(new)) = Len(m)
       /\ \A k \in 1..Len(m) : LastWord(new)[k] = m[k]
  <2>1. /\ LastWord(new) \in Text /\ Len(LastWord(new)) = Len(new) - j
        /\ \A k \in 1..Len(LastWord(new)) : LastWord(new)[k] = new[j + k]
    BY <1>7, <1>11, LastWordIs
  <2>2. Len(new) - j = Len(m)
    BY <1>1, <1>3, <1>10
  <2> QED
    BY <1>9, <2>1, <2>2
<1>13. LastWord(new) = m
  BY <1>3, <1>12 DEF Text
<1> QED
  BY <1>7, <1>13

(***************************************************************************)
(* The line is a text throughout, and what has just been completed is its  *)
(* own match.                                                              *)
(***************************************************************************)
Completed ==
  result = "CC_REFRESH" /\ ~stray => Match(LastWord(before)) = LastWord(before)

Failed ==
  result = "CC_ERROR" /\ before # <<>> =>
    LastWord(before) \in Candidates \/ Completions(LastWord(before)) = {}

Inv == Shape /\ Completed /\ Failed

LEMMA InitInv == Init => Inv
<1> SUFFICES ASSUME Init PROVE Inv
  OBVIOUS
<1>1. before \in Text
  BY DEF Init, Text
<1> QED
  BY <1>1 DEF Init, Inv, Shape, Completed, Failed

\* An empty line begins nothing but the word that is completed.
LEMMA EmptyLine == <<>> \in Text /\ LastWord(<<>>) = <<>> /\ IsPrefix(<<>>, <<>>)
<1>1. <<>> \in Text /\ Len(<<>>) = 0
  BY DEF Text
<1>2. LastWord(<<>>) \in Text /\ Len(LastWord(<<>>)) = 0
  BY <1>1, LastSpaceIs, LastWordIs
<1> QED
  BY <1>1, <1>2, PrefixOrder DEF Text

(***************************************************************************)
(* What one <Tab> does that finds the word of the line, and not something  *)
(* before it.                                                              *)
(***************************************************************************)
LEMMA TabCompletes ==
  ASSUME Shape, NEW m, m = Match(LastWord(before)), Len(m) > Len(LastWord(before)),
         NEW new, new = before \o Inserted(m, LastWord(before))
  PROVE  /\ new \in Text /\ IsPrefix(before, new) /\ LastWord(new) = m /\ Match(m) = m
         /\ m \in IF Completions(LastWord(before)) \cap Commands # {} THEN Commands ELSE Keywords
<1>1. before \in Text /\ LastWord(before) \in Text
  BY LastWordIs DEF Shape
<1>2. m # <<>>
  BY <1>1 DEF Text
<1>3. /\ m \in Word /\ IsPrefix(LastWord(before), m) /\ Match(m) = m
      /\ m \in IF Completions(LastWord(before)) \cap Commands # {} THEN Commands ELSE Keywords
  BY <1>1, <1>2, MatchFinds DEF Completions
<1> QED
  BY <1>1, <1>3, LastWordCompleted

LEMMA TabFails ==
  ASSUME Shape, Len(Match(LastWord(before))) <= Len(LastWord(before))
  PROVE  LastWord(before) \in Candidates \/ Completions(LastWord(before)) = {}
<1> DEFINE w == LastWord(before)
           m == Match(w)
<1>1. w \in Text
  BY LastWordIs DEF Shape
<1>2. CASE m = <<>> /\ Completions(w) = {}
  BY <1>2
<1>3. CASE m \in Completions(w) /\ m \in Word
  <2>1. m \in Candidates /\ m \in Text /\ IsPrefix(w, m)
    BY <1>3, WordIsText DEF Completions
  <2>2. w = m
    BY <1>1, <2>1, PrefixOrder
  <2> QED
    BY <2>1, <2>2
<1> QED
  BY <1>1, <1>2, <1>3, MatchFinds

LEMMA TabInv == Inv /\ Tab => Inv'
<1> SUFFICES ASSUME Inv, Tab PROVE Inv'
  OBVIOUS
<1>1. PICK word \in TheLastWords(before) :
        LET match == Match(word)
        IN  IF Len(match) <= Len(word)
              THEN result' = "CC_ERROR" /\ UNCHANGED <<before, stray>>
              ELSE /\ result' = "CC_REFRESH"
                   /\ before' = before \o Inserted(match, word)
                   /\ stray' = (stray \/ (before = <<>> /\ word # <<>>))
  BY DEF Tab
<1>2. names' = names /\ KEYWORDS' = KEYWORDS /\ Shape
  BY DEF Tab, Inv
<1>3. word \in Text
  <2>1. LastWord(before) \in Text
    BY <1>2, LastWordIs DEF Shape
  <2>2. <<>> \in Text /\ \A c \in Chars \ {Space} : <<c>> \in Text
    BY DEF Text
  <2> QED
    BY <2>1, <2>2 DEF TheLastWords
<1>4. Len(word) \in Nat /\ Len(Match(word)) \in Nat
  <2>1. Match(word) \in Text
    BY <1>2, <1>3, MatchFinds, EmptyLine, WordIsText
  <2> QED
    BY <1>3, <2>1 DEF Text
<1>5. CASE Len(Match(word)) <= Len(word)
  <2>1. result' = "CC_ERROR" /\ before' = before /\ stray' = stray
    BY <1>1, <1>5
  <2>2. Shape' /\ Completed'
    BY <1>2, <2>1 DEF Shape, Completed
  <2>3. Failed'
    <3>1. before # <<>> => word = LastWord(before)
      BY DEF TheLastWords
    <3> QED
      BY <1>2, <1>5, <2>1, <3>1, TabFails DEF Failed
  <2> QED
    BY <2>2, <2>3 DEF Inv
<1>6. CASE Len(Match(word)) > Len(word)
  <2>1. /\ result' = "CC_REFRESH" /\ before' = before \o Inserted(Match(word), word)
        /\ stray' = (stray \/ (before = <<>> /\ word # <<>>))
    BY <1>1, <1>4, <1>6
  <2>2. before' \in Text
    <3>1. Match(word) \in Text
      BY <1>2, <1>3, MatchFinds, EmptyLine, WordIsText
    <3>2. Inserted(Match(word), word) \in Text
      BY <1>3, <1>4, <3>1 DEF Inserted, Text
    <3> QED
      BY <1>2, <2>1, <3>2 DEF Shape, Text
  <2>3. Shape' /\ Failed'
    BY <1>2, <2>1, <2>2 DEF Shape, Failed
  <2>4. ASSUME ~stray' PROVE (Match(LastWord(before)) = LastWord(before))'
    <3>1. word = LastWord(before)
      BY <2>1, <2>4, EmptyLine DEF TheLastWords
    <3>2. LastWord(before') = Match(word) /\ Match(Match(word)) = Match(word)
      BY <1>2, <1>6, <2>1, <3>1, TabCompletes
    <3>3. (Match(LastWord(before)))' = Match(LastWord(before'))
      BY <1>2 DEF Match, KeywordSearch, Knowing
    <3> QED
      BY <3>2, <3>3
  <2> QED
    BY <2>3, <2>4 DEF Inv, Completed
<1> QED
  BY <1>4, <1>5, <1>6

LEMMA NextInv == Inv /\ [Next]_vars => Inv'
<1> SUFFICES ASSUME Inv, [Next]_vars PROVE Inv'
  OBVIOUS
<1>1. ASSUME NEW c \in Chars, Type(c) PROVE Inv'
  <2>1. before' \in Text /\ names' = names /\ KEYWORDS' = KEYWORDS /\ result' = "none"
    BY <1>1 DEF Type, Inv, Shape, Text
  <2> QED
    BY <2>1 DEF Inv, Shape, Completed, Failed
<1>2. CASE NewLine
  BY <1>2, EmptyLine DEF NewLine, Inv, Shape, Completed, Failed
<1>3. CASE UNCHANGED vars
  <2>1. (Match(LastWord(before)))' = Match(LastWord(before))
    BY <1>3 DEF vars, Match, KeywordSearch, Knowing
  <2> QED
    BY <1>3, <2>1 DEF vars, Inv, Shape, Completed, Failed
<1> QED
  BY <1>1, <1>2, <1>3, TabInv DEF Next

LEMMA Invariance == Spec => []Inv
BY InitInv, NextInv, PTL DEF Spec

(***************************************************************************)
(* Whatever the names, the keywords and the order of the hash tables, a    *)
(* word just completed is its own completion: Cli::complete and            *)
(* PrefixSearch agree with themselves (cli.cpp:209-231, command.cpp:       *)
(* 182-190).                                                               *)
(***************************************************************************)
THEOREM SecondTabAddsNothingCorrect == Spec => []SecondTabAddsNothing
<1>1. Inv => SecondTabAddsNothing
  BY DEF Inv, Completed, SecondTabAddsNothing
<1> QED
  BY <1>1, Invariance, PTL

(***************************************************************************)
(* Whatever they are, completion fails only where there is nothing left to *)
(* complete (cli.cpp:218-232).                                             *)
(***************************************************************************)
THEOREM FailsOnlyIfDoneCorrect == Spec => []FailsOnlyIfDone
<1>1. Inv => FailsOnlyIfDone
  BY DEF Inv, Failed, FailsOnlyIfDone
<1> QED
  BY <1>1, Invariance, PTL

(***************************************************************************)
(* Whatever they are, a line that is not empty keeps what was typed, and   *)
(* its last word becomes a command rather than a keyword (cli.cpp:         *)
(* 196-232).                                                               *)
(***************************************************************************)
THEOREM CompletesWordCorrect == Spec => CompletesWord
<1> DEFINE Step ==
      result' = "CC_REFRESH" /\ before # <<>> /\ ~stray =>
        /\ IsPrefix(before, before')
        /\ LastWord(before') \in
             IF Completions(LastWord(before)) \cap Commands # {} THEN Commands ELSE Keywords
<1>1. ASSUME Inv, Tab, result' = "CC_REFRESH", before # <<>>
      PROVE  Step
  <2> DEFINE w == LastWord(before)
  <2>1. w \in Text /\ Shape
    BY <1>1, LastWordIs DEF Inv, Shape
  <2>2. Match(w) \in Text
    BY <2>1, MatchFinds, EmptyLine, WordIsText
  <2>3. /\ ~(Len(Match(w)) <= Len(w))
        /\ before' = before \o Inserted(Match(w), w)
    BY <1>1 DEF Tab, TheLastWords
  <2>4. Len(Match(w)) > Len(w)
    <3>1. Len(w) \in Nat /\ Len(Match(w)) \in Nat
      BY <2>1, <2>2 DEF Text
    <3> QED
      BY <2>3, <3>1
  <2> QED
    BY <2>1, <2>3, <2>4, TabCompletes
<1>2. Inv /\ [Next]_vars => [Step]_vars
  BY <1>1 DEF Next, Type, NewLine, vars
<1> QED
  BY <1>2, Invariance, PTL DEF Spec, CompletesWord
=============================================================================
