---------------------------- MODULE CliLifetime ----------------------------
(***************************************************************************)
(* The life of a Cli, from its constructor over Config and Run to its      *)
(* destructor (cli.cpp), in several psqlxx started by one user: they share *)
(* the history file, which each of them reads once and replaces at its     *)
(* end, and any of them may be killed or get a signal between two steps.   *)
(* What Run does with the lines is in Cli; here they become entries of the *)
(* history.                                                                *)
(*                                                                         *)
(* Ghost variables: found, typed, alone.                                   *)
(***************************************************************************)
EXTENDS Integers, FiniteSets, SequencesExt

CONSTANTS
  Sessions,      \* the psqlxx started
  Entries,       \* what may be entered, or be in the file before
  Files,         \* what the history file may hold before the first session
  HistorySize,   \* CliOptions::history_size
  MaxEntries     \* bound: entries a session makes

ASSUME LifetimeAssumption ==
  /\ Files \subseteq Seq(Entries)
  /\ HistorySize \in Nat \ {0} /\ MaxEntries \in Nat

VARIABLES
  file,       \* the history file; an unreadable one is an empty one
  pc,         \* where each session is
  handler,    \* of SIGINT and SIGQUIT: default, set, or cleared (g_signal_handler)
  live,       \* the objects of libedit that are allocated
  size,       \* the limit of m_history
  history,    \* m_history
  found,      \* the file as H_LOAD found it
  typed,      \* the entries made since then
  alone       \* no other session has touched the file since then

vars == <<file, pc, handler, live, size, history, found, typed, alone>>

Objects == {"tokenizer", "editor"}    \* those handleSignal resets

Init ==
  /\ file \in Files
  /\ pc = [s \in Sessions |-> "main"]
  /\ handler = [s \in Sessions |-> "default"]
  /\ live = [s \in Sessions |-> {}]
  /\ size = [s \in Sessions |-> 0]
  /\ history = [s \in Sessions |-> <<>>]
  /\ found = [s \in Sessions |-> <<>>]
  /\ typed = [s \in Sessions |-> <<>>]
  /\ alone = [s \in Sessions |-> FALSE]

Goto(s, place) == pc' = [pc EXCEPT ![s] = place]

\* CliOptions and Cli, after the connection was made.  Without HOME the path of
\* the history file is made from a null pointer: an exception main does not catch.
Construct(s) ==
  /\ pc[s] = "main"
  /\ \/ Goto(s, "configure") /\ live' = [live EXCEPT ![s] = Objects]
     \/ Goto(s, "terminated") /\ UNCHANGED live
  /\ UNCHANGED <<file, handler, size, history, found, typed, alone>>

\* Config up to the two calls of signal.
InstallHandler(s) ==
  /\ pc[s] = "configure"
  /\ handler' = [handler EXCEPT ![s] = "set"]
  /\ Goto(s, "set_size")
  /\ UNCHANGED <<file, live, size, history, found, typed, alone>>

SetSizeLate(s) == UNCHANGED size    \* mutant: H_SETSIZE comes after H_LOAD

SetSize(s) == size' = [size EXCEPT ![s] = HistorySize]

ConfigureHistory(s) ==
  /\ pc[s] = "set_size"
  /\ SetSize(s)
  /\ Goto(s, "load")
  /\ UNCHANGED <<file, handler, live, history, found, typed, alone>>

EnterUnlimited(h, entry, limit) ==    \* mutant: the limit is not set
  IF h # <<>> /\ Last(h) = entry THEN h ELSE Append(h, entry)

\* H_ENTER with H_SETUNIQUE.
Enter(h, entry, limit) ==
  IF h # <<>> /\ Last(h) = entry THEN h
  ELSE IF Len(h) < limit THEN Append(h, entry)
  ELSE IF limit = 0 THEN <<>> ELSE Append(Tail(h), entry)

\* H_LOAD enters one line of the file after another.
Load(s) ==
  /\ pc[s] = "load"
  /\ history' = [history EXCEPT ![s] =
                   FoldLeft(LAMBDA h, entry : Enter(h, entry, size[s]), <<>>, file)]
  /\ found' = [found EXCEPT ![s] = file]
  /\ alone' = [alone EXCEPT ![s] = TRUE]
  /\ Goto(s, "run")
  /\ UNCHANGED <<file, handler, live, size, typed>>

\* A round of Run, as far as the history goes.
EnterLine(s) ==
  /\ pc[s] = "run" /\ Len(typed[s]) < MaxEntries
  /\ \E entry \in Entries :
       /\ history' = [history EXCEPT ![s] = Enter(@, entry, size[s])]
       /\ typed' = [typed EXCEPT ![s] = Append(@, entry)]
  /\ UNCHANGED <<file, pc, handler, live, size, found, alone>>

\* Run has returned; tok_end.
EndTokenizer(s) ==
  /\ pc[s] = "run"
  /\ live' = [live EXCEPT ![s] = @ \ {"tokenizer"}]
  /\ Goto(s, "save")
  /\ UNCHANGED <<file, handler, size, history, found, typed, alone>>

Touch(s, contents) ==
  /\ file' = contents
  /\ alone' = [r \in Sessions |-> alone[r] /\ r = s]

\* H_SAVE opens the file and empties it, or gives up ...
OpenForSave(s) ==
  /\ pc[s] = "save"
  /\ \/ Touch(s, <<>>) /\ Goto(s, "write")
     \/ Goto(s, "el_end") /\ UNCHANGED <<file, alone>>
  /\ UNCHANGED <<handler, live, size, history, found, typed>>

\* ... and writes it from its start.  Where another session has written in the
\* meantime, what lies beyond the end of these entries remains.
Written(entries) == {entries \o SubSeq(file, k, Len(file)) : k \in 1..Len(file) + 1}

Write(s) ==
  /\ pc[s] = "write"
  /\ \E contents \in Written(history[s]) : Touch(s, contents)
  /\ Goto(s, "el_end")
  /\ UNCHANGED <<handler, live, size, history, found, typed>>

EndEditor(s) ==
  /\ pc[s] = "el_end"
  /\ live' = [live EXCEPT ![s] = @ \ {"editor"}]
  /\ Goto(s, "clear")
  /\ UNCHANGED <<file, handler, size, history, found, typed, alone>>

ClearForgotten(s) == UNCHANGED handler    \* mutant: g_signal_handler keeps its Cli

Clear(s) == handler' = [handler EXCEPT ![s] = "cleared"]

ClearHandlers(s) ==
  /\ pc[s] = "clear"
  /\ Clear(s)
  /\ Goto(s, "ended")
  /\ UNCHANGED <<file, live, size, history, found, typed, alone>>

Gone == {"exited", "terminated", "interrupted", "killed"}

\* main returns.
Exit(s) ==
  /\ pc[s] = "ended"
  /\ Goto(s, "exited")
  /\ UNCHANGED <<file, handler, live, size, history, found, typed, alone>>

\* What the end of the program makes of a file that is being written.
CutOff(s) ==
  \/ UNCHANGED <<file, alone>>
  \/ /\ pc[s] = "write"
     /\ \E k \in 0..Len(history[s]) :
          \E contents \in Written(SubSeq(history[s], 1, k)) : Touch(s, contents)

\* SIGINT or SIGQUIT ends the program by default.  handleSignal resets the editor
\* and the tokenizer: once one of them has been freed it may crash.  Otherwise the
\* signal changes nothing here.
Fatal(s) ==
  handler[s] = "default" \/ (handler[s] = "set" /\ live[s] # Objects)

Signal(s) ==
  /\ pc[s] \notin Gone /\ Fatal(s)
  /\ Goto(s, "interrupted")
  /\ CutOff(s)
  /\ UNCHANGED <<handler, live, size, history, found, typed>>

Kill(s) ==
  /\ pc[s] \notin Gone
  /\ Goto(s, "killed")
  /\ CutOff(s)
  /\ UNCHANGED <<handler, live, size, history, found, typed>>

Step(s) ==
  \/ Construct(s) \/ InstallHandler(s) \/ ConfigureHistory(s) \/ Load(s) \/ EnterLine(s)
  \/ EndTokenizer(s) \/ OpenForSave(s) \/ Write(s) \/ EndEditor(s) \/ ClearHandlers(s)
  \/ Exit(s) \/ Signal(s) \/ Kill(s)

AllGone == (\A s \in Sessions : pc[s] \in Gone) /\ UNCHANGED vars

Next == (\E s \in Sessions : Step(s)) \/ AllGone

Spec == Init /\ [][Next]_vars
-----------------------------------------------------------------------------
Places == {"main", "configure", "set_size", "load", "run", "save", "write", "el_end",
           "clear", "ended"} \cup Gone

(***************************************************************************)
(* The variables stay in their sets, and the history of a session never    *)
(* outgrows its limit, whatever the file held.                             *)
(***************************************************************************)
TypeOK ==
  /\ file \in Seq(Entries)
  /\ pc \in [Sessions -> Places]
  /\ handler \in [Sessions -> {"default", "set", "cleared"}]
  /\ live \in [Sessions -> SUBSET Objects]
  /\ size \in [Sessions -> {0, HistorySize}]
  /\ history \in [Sessions -> Seq(Entries)]
  /\ found \in [Sessions -> Seq(Entries)]
  /\ typed \in [Sessions -> Seq(Entries)]
  /\ alone \in [Sessions -> BOOLEAN]
  /\ \A s \in Sessions : Len(history[s]) <= HistorySize

\* What remains of the entries without repetitions, and how many of them came up to one.
Kept(entries) == {k \in DOMAIN entries : k = Len(entries) \/ entries[k] # entries[k + 1]}

Rank(entries, k) == Cardinality({j \in Kept(entries) : j <= k})

Dropped(entries) ==
  LET all == Cardinality(Kept(entries)) IN IF all > HistorySize THEN all - HistorySize ELSE 0

\* The newest entries, none the same as the one before it, as many as there is room for.
Remembers(contents, entries) ==
  /\ Len(contents) = Cardinality(Kept(entries)) - Dropped(entries)
  /\ \A k \in Kept(entries) :
       Rank(entries, k) > Dropped(entries) =>
         contents[Rank(entries, k) - Dropped(entries)] = entries[k]

(***************************************************************************)
(* A session that saves its history loses nothing of what the file held    *)
(* and of what was entered, but for repetitions and what the limit leaves  *)
(* no room for, unless another session has touched the file since this     *)
(* one read it (H_LOAD, H_SETSIZE and H_SAVE, cli.cpp:151, 172-173, 193).  *)
(***************************************************************************)
HistoryKept ==
  [][\A s \in Sessions :
       pc[s] = "write" /\ pc'[s] = "el_end" /\ alone[s] =>
         Remembers(file', found[s] \o typed[s])]_vars

(***************************************************************************)
(* From the end of Config to the return of Run, and again once the         *)
(* destructor is through, SIGINT and SIGQUIT do not end the program; they  *)
(* do before Config, and may while the destructor frees what handleSignal  *)
(* uses (cli.cpp:120-129, 148-166).                                        *)
(***************************************************************************)
Unprotected == {"main", "configure", "save", "write", "el_end", "clear"}

SignalSurvived ==
  [][\A s \in Sessions :
       pc'[s] = "interrupted" => pc[s] \in Unprotected \cup {"interrupted"}]_vars
=============================================================================
