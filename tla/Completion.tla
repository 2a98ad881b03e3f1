----------------------------- MODULE Completion -----------------------------
(***************************************************************************)
(* Completion of the word before the cursor with <Tab> (Cli::complete,     *)
(* cli.cpp; CommandGroup::PrefixSearch, command.cpp).  A text is a         *)
(* sequence of characters.  The names of a group and the keywords are in   *)
(* hash tables, which are iterated in an order nobody chose but which      *)
(* stays the same.  The ghost variable stray marks a line that was         *)
(* completed from a character that is not on it.                           *)
(***************************************************************************)
EXTENDS Integers, FiniteSets, SequencesExt

CONSTANTS
  Chars,        \* the characters that may be typed, or be found in memory
  GroupNames,   \* for each command group, the names of its commands
  Keywords,     \* the elements of KEYWORDS
  MaxLength     \* bound: characters typed

Space == " "

Word == Seq(Chars \ {Space}) \ {<<>>}

ASSUME NamesAssumption ==
  /\ Space \in Chars
  /\ GroupNames \in Seq(SUBSET Word) /\ Keywords \subseteq Word
  /\ \A g \in DOMAIN GroupNames : IsFiniteSet(GroupNames[g])
  /\ IsFiniteSet(Keywords)

VARIABLES
  names,      \* the names of each group, in the order of m_name_command_map
  KEYWORDS,   \* the keywords in the order of theirs
  before,     \* the line up to the cursor
  result,     \* what the last <Tab> returned, if it was the last key
  stray

vars == <<names, KEYWORDS, before, result, stray>>

Orders(S) ==
  {order \in [1..Cardinality(S) -> S] : \A x \in S : \E k \in DOMAIN order : order[k] = x}

Init ==
  /\ names \in {n \in [DOMAIN GroupNames -> UNION {Orders(GroupNames[g]) : g \in DOMAIN GroupNames}] :
                  \A g \in DOMAIN GroupNames : n[g] \in Orders(GroupNames[g])}
  /\ KEYWORDS \in Orders(Keywords)
  /\ before = <<>> /\ result = "none" /\ stray = FALSE

\* The part of a line after its last space.
LastWord(line) ==
  SubSeq(line, Max({0} \cup {k \in DOMAIN line : line[k] = Space}) + 1, Len(line))

\* On an empty line the search looks at the character before the buffer, and takes
\* it for the word unless it is a space.
TheLastWords(line) ==
  IF line # <<>> THEN {LastWord(line)} ELSE {<<>>} \cup {<<c>> : c \in Chars \ {Space}}

StartsWithAndIsLonger(str, prefix) == IsStrictPrefix(prefix, str)    \* mutant

StartsWith(str, prefix) == IsPrefix(prefix, str)

Matches(order, prefix) == {k \in DOMAIN order : StartsWith(order[k], prefix)}

\* The first name of a group that begins so; <<>> if there is none.
PrefixSearch(order, prefix) ==
  IF Matches(order, prefix) = {} THEN <<>> ELSE order[Min(Matches(order, prefix))]

\* The loop over the keywords goes on after a match.
KeywordSearch(prefix) ==
  IF Matches(KEYWORDS, prefix) = {} THEN <<>> ELSE KEYWORDS[Max(Matches(KEYWORDS, prefix))]

Knowing(prefix) == {g \in DOMAIN names : PrefixSearch(names[g], prefix) # <<>>}

\* mutant: the loop over the groups is not left at a match.
MatchOfLastGroup(prefix) ==
  LET found == PrefixSearch(names[Len(names)], prefix)
  IN  IF found # <<>> THEN found ELSE KeywordSearch(prefix)

\* Commands win over keywords, and earlier groups over later ones.
Match(prefix) ==
  IF Knowing(prefix) # {} THEN PrefixSearch(names[Min(Knowing(prefix))], prefix)
                          ELSE KeywordSearch(prefix)

InsertedWhole(match, word) == match    \* mutant

Inserted(match, word) == SubSeq(match, Len(word) + 1, Len(match))

Type(c) ==
  /\ Len(before) < MaxLength
  /\ before' = Append(before, c) /\ result' = "none"
  /\ UNCHANGED <<names, KEYWORDS, stray>>

\* complete: el_insertstr fails for an empty string.
Tab ==
  /\ \E word \in TheLastWords(before) :
       LET match == Match(word)
       IN  IF Len(match) <= Len(word)
             THEN result' = "CC_ERROR" /\ UNCHANGED <<before, stray>>
             ELSE /\ result' = "CC_REFRESH"
                  /\ before' = before \o Inserted(match, word)
                  /\ stray' = (stray \/ (before = <<>> /\ word # <<>>))
  /\ UNCHANGED <<names, KEYWORDS>>

\* <Enter>, or Ctrl+c.
NewLine ==
  /\ before' = <<>> /\ result' = "none" /\ stray' = FALSE
  /\ UNCHANGED <<names, KEYWORDS>>

Next == (\E c \in Chars : Type(c)) \/ Tab \/ NewLine

Spec == Init /\ [][Next]_vars
-----------------------------------------------------------------------------
Commands   == UNION {GroupNames[g] : g \in DOMAIN GroupNames}
Candidates == Commands \cup Keywords

Completions(word) == {w \in Candidates : IsPrefix(word, w)}

(***************************************************************************)
(* <Tab> leaves the line as it was typed and makes of its last word a      *)
(* command or, where no command begins so, a keyword (cli.cpp:209-231);    *)
(* an empty line may become anything.                                      *)
(***************************************************************************)
CompletesWord ==
  [][result' = "CC_REFRESH" /\ before # <<>> /\ ~stray =>
       /\ IsPrefix(before, before')
       /\ LastWord(before') \in
            IF Completions(LastWord(before)) \cap Commands # {}
              THEN Commands ELSE Keywords]_vars

(***************************************************************************)
(* <Tab> fails only when there is nothing to complete: nothing begins with *)
(* the word, or it is a command or a keyword already.                      *)
(***************************************************************************)
FailsOnlyIfDone ==
  result = "CC_ERROR" /\ before # <<>> =>
    LastWord(before) \in Candidates \/ Completions(LastWord(before)) = {}

(***************************************************************************)
(* A second <Tab> adds nothing to a word that has just been completed,     *)
(* although names and keywords are found in no particular order and some   *)
(* begin with others.                                                      *)
(***************************************************************************)
SecondTabAddsNothing ==
  result = "CC_REFRESH" /\ ~stray => Len(Match(LastWord(before))) = Len(LastWord(before))
=============================================================================
