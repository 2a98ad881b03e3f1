---------------------------- MODULE CommandGroup ----------------------------
(***************************************************************************)
(* How a command group is filled (command.cpp): a chain of declarations,   *)
(* each of them one call of AddOneOption, which registers the names of its *)
(* command one after another and may throw in their middle.  The tables    *)
(* Command dispatches by are what the two chains of the program leave.     *)
(***************************************************************************)
EXTENDS Command, FiniteSets, SequencesExt

CONSTANT Chains    \* the chains of declarations that may be made

ASSUME ChainsAssumption ==
  Chains \subseteq Seq([names : Seq(STRING), arguments : Seq(STRING), action : STRING])

VARIABLES
  pc,              \* "declare", "add", "done", "thrown", "aborted"
  chain,           \* the declarations; the action "" is none
  assertions,      \* a debug build: assert is compiled in
  commands,        \* m_commands, each the number of its declaration
  nameMap,         \* m_name_command_map
  anonymous,       \* m_anonymous_command: a set of at most one command
  call,            \* the declaration being added
  toAdd            \* the names of its command still to be registered

vars == <<pc, chain, assertions, commands, nameMap, anonymous, call, toAdd>>

Declare(names, arguments, action) ==
  [names |-> names, arguments |-> arguments, action |-> action]

createBuiltinCommandGroup ==
  << Declare(<<"quit", "exit", "@q">>, <<>>, "quit"),
     Declare(<<"help">>, <<"[GROUP]">>, "help"),
     Declare(<<>>, <<"...">>, "el_parse") >>

CreatePsqlxxCommandGroup ==
  << Declare(<<"">>, <<"...">>, "sql"),
     Declare(<<"@l">>, <<>>, "query"), Declare(<<"@du">>, <<>>, "query"),
     Declare(<<"@dn">>, <<>>, "query"), Declare(<<"@conninfo">>, <<>>, "conninfo") >>

\* Command::Command
NewCommand(d) ==
  [arguments |-> Len(d.arguments),
   variadic  |-> Contains(d.arguments, "..."),
   action    |-> d.action]

Init ==
  /\ pc = "declare" /\ chain \in Chains /\ assertions \in BOOLEAN
  /\ commands = <<>> /\ nameMap = <<>> /\ anonymous = {}
  /\ call = 0 /\ toAdd = <<>>

NamesAsGiven(names) == names    \* mutant: the command without a name is forgotten

\* A command without a name is the anonymous one.
Names(names) == IF names = <<>> THEN <<"">> ELSE names

Capitals == {"A", "B", "C", "D", "E", "F", "G", "H", "I", "J", "K", "L", "M",
             "N", "O", "P", "Q", "R", "S", "T", "U", "V", "W", "X", "Y", "Z"}

Letters == Capitals \cup
           {"a", "b", "c", "d", "e", "f", "g", "h", "i", "j", "k", "l", "m",
            "n", "o", "p", "q", "r", "s", "t", "u", "v", "w", "x", "y", "z"}

\* The characters of a name or an argument: those of the program, and a few others;
\* a word that is not here stands for one with a space in it.
Spelling(word) ==
  CASE word = "" -> <<>>
    [] word = "quit"      -> <<"q", "u", "i", "t">>
    [] word = "exit"      -> <<"e", "x", "i", "t">>
    [] word = "@q"        -> <<"@", "q">>
    [] word = "help"      -> <<"h", "e", "l", "p">>
    [] word = "@l"        -> <<"@", "l">>
    [] word = "@du"       -> <<"@", "d", "u">>
    [] word = "@dn"       -> <<"@", "d", "n">>
    [] word = "@conninfo" -> <<"@", "c", "o", "n", "n", "i", "n", "f", "o">>
    [] word = "[GROUP]"   -> <<"[", "G", "R", "O", "U", "P", "]">>
    [] word = "..."       -> <<".", ".", ".">>
    [] word = "ARGS@"     -> <<"A", "R", "G", "S", "@">>
    [] word \in {"a", "b", "c"} -> <<word>>
    [] OTHER              -> <<" ">>

\* s is one or more characters of C, which one of opening may precede and one of
\* closing follow.
Matches(s, opening, C, closing) ==
  \E open, close \in {0, 1} :
    /\ open + close < Len(s)
    /\ open = 1 => s[1] \in opening
    /\ close = 1 => s[Len(s)] \in closing
    /\ \A k \in (open + 1)..(Len(s) - close) : s[k] \in C

\* The patterns @?[a-zA-Z]+ and \[?[A-Z]+\]?
validName(name) == name = "" \/ Matches(Spelling(name), {"@"}, Letters, {})

validArgument(argument) ==
  argument = "..." \/ Matches(Spelling(argument), {"["}, Capitals, {"]"})

validCommand(d) ==
  /\ d.action # ""
  /\ \A k \in DOMAIN d.names : validName(d.names[k])
  /\ \A k \in DOMAIN d.arguments : validArgument(d.arguments[k])

\* AddOneOption up to its loop; the next call in the chain, if there is one.
AddOneOption ==
  /\ pc = "declare" /\ call < Len(chain)
  /\ call' = call + 1
  /\ IF assertions /\ ~validCommand(chain[call'])
       THEN pc' = "aborted" /\ UNCHANGED toAdd
       ELSE pc' = "add" /\ toAdd' = Names(chain[call'].names)
  /\ UNCHANGED <<chain, assertions, commands, nameMap, anonymous>>

\* mutants: assignment in place of emplace; no check for a second anonymous command
TakenNever(name) == FALSE
TakenNamed(name) == name # "" /\ name \in DOMAIN nameMap

Taken(name) == IF name = "" THEN anonymous # {} ELSE name \in DOMAIN nameMap

\* One round of the loop over the names.
AddName ==
  LET name == Head(toAdd)
  IN  /\ pc = "add" /\ toAdd # <<>>
      /\ IF Taken(name)
           THEN pc' = "thrown" /\ UNCHANGED <<nameMap, anonymous, toAdd>>
           ELSE /\ nameMap' = IF name = "" THEN nameMap
                              ELSE [n \in DOMAIN nameMap \cup {name} |->
                                      IF n = name THEN call ELSE nameMap[n]]
                /\ anonymous' = IF name = "" THEN {call} ELSE anonymous
                /\ toAdd' = Tail(toAdd)
                /\ UNCHANGED pc
      /\ UNCHANGED <<chain, assertions, commands, call>>

PushBack ==
  /\ pc = "add" /\ toAdd = <<>>
  /\ commands' = Append(commands, call)
  /\ pc' = "declare"
  /\ UNCHANGED <<chain, assertions, nameMap, anonymous, call, toAdd>>

Return ==
  /\ pc = "declare" /\ call = Len(chain)
  /\ pc' = "done"
  /\ UNCHANGED <<chain, assertions, commands, nameMap, anonymous, call, toAdd>>

Ended == pc \in {"done", "thrown", "aborted"} /\ UNCHANGED vars

Next == AddOneOption \/ AddName \/ PushBack \/ Return \/ Ended

Spec == Init /\ [][Next]_vars
-----------------------------------------------------------------------------
(***************************************************************************)
(* A group that is used, because no exception left its chain, knows every  *)
(* command by all of its names and by no other: none took over a name of   *)
(* another one, and none is known by part of its names only.               *)
(***************************************************************************)
KnownByAllNames ==
  pc = "done" =>
    /\ \A c \in ToSet(commands) : \A name \in ToSet(Names(chain[c].names)) :
         IF name = "" THEN anonymous = {c} ELSE nameMap[name] = c
    /\ \A name \in DOMAIN nameMap : Contains(chain[nameMap[name]].names, name)
    /\ anonymous \cup {nameMap[name] : name \in DOMAIN nameMap} = ToSet(commands)

NamesOf(c) == Names(chain[c].names)

\* The i-th name of declaration c has been given before: earlier in the chain.
GivenBefore(c, i) ==
  \E d \in 1..c : \E j \in DOMAIN NamesOf(d) :
    (d = c => j < i) /\ NamesOf(d)[j] = NamesOf(c)[i]

(***************************************************************************)
(* The chain throws if and only if a name is declared twice in it, in one  *)
(* command or in two, and then at the first one that is (command.cpp:      *)
(* 133-145); a debug build stops at an invalid declaration before that.    *)
(***************************************************************************)
ThrowsForDuplicates ==
  /\ pc = "done" =>
       \A c \in DOMAIN chain : \A i \in DOMAIN NamesOf(c) : ~GivenBefore(c, i)
  /\ pc = "thrown" =>
       LET at == Len(NamesOf(call)) - Len(toAdd) + 1
       IN  /\ GivenBefore(call, at)
           /\ \A c \in 1..call : \A i \in DOMAIN NamesOf(c) :
                (c = call => i < at) => ~GivenBefore(c, i)

AsTable(group) ==
  /\ DOMAIN nameMap = DOMAIN group.named
  /\ \A name \in DOMAIN nameMap : NewCommand(chain[nameMap[name]]) = group.named[name]
  /\ {NewCommand(chain[c]) : c \in anonymous} = group.anonymous

(***************************************************************************)
(* The chains of the program never throw and leave the two groups every    *)
(* statement is dispatched by (BuiltinGroup and PsqlxxGroup of Command).   *)
(***************************************************************************)
GroupsAsDispatched ==
  /\ chain = createBuiltinCommandGroup =>
       pc \notin {"thrown", "aborted"} /\ (pc = "done" => AsTable(BuiltinGroup))
  /\ chain = CreatePsqlxxCommandGroup =>
       pc \notin {"thrown", "aborted"} /\ (pc = "done" => AsTable(PsqlxxGroup))
=============================================================================
