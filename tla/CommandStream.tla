--------------------------- MODULE CommandStream ---------------------------
(***************************************************************************)
(* What the command line promises about the lines typed into it.  Lines    *)
(* are numbered as they are read.  They are gathered into statements; a    *)
(* statement is run on its own, and every line ends up in at most one of   *)
(* the statements handled, in the order the lines were typed.  An          *)
(* interruption may strike anywhere: the statement being run finishes, the *)
(* one being gathered loses everything typed before the interruption.      *)
(***************************************************************************)
EXTENDS Naturals, Sequences

VARIABLES
  read,        \* lines read
  gathering,   \* lines of the statement being typed
  running,     \* lines of the statement being run
  handled,     \* for each statement run so far, its lines
  cut          \* lines older than this were interrupted

vars == <<read, gathering, running, handled, cut>>

Init ==
  read = 0 /\ gathering = {} /\ running = {} /\ handled = <<>> /\ cut = 0

\* A line is read; what becomes of it is decided later.
Read == read' = read + 1 /\ UNCHANGED <<gathering, running, handled, cut>>

\* The newest line, as long as no statement has been made of it.
Newest ==
  IF \A k \in 1..Len(handled) : read \notin handled[k] THEN {read} \ running ELSE {}

Interruption == cut' \in {cut, read, read + 1}

\* Lines join the statement being gathered, or are given up.
Gather ==
  /\ Interruption
  /\ gathering' \in SUBSET (gathering \cup Newest)
  /\ \A i \in gathering' : i >= cut'
  /\ UNCHANGED <<read, running, handled>>

\* The statement gathered, less what an interruption took away, is run.
Start ==
  /\ Interruption
  /\ running = {}
  /\ running' \in (SUBSET (gathering \cup Newest)) \ {{}}
  /\ \A i \in running' : i >= cut'
  /\ gathering' = {}
  /\ UNCHANGED <<read, handled>>

Finish ==
  /\ running # {}
  /\ handled' = Append(handled, running)
  /\ running' = {}
  /\ UNCHANGED <<read, gathering, cut>>

Next == Read \/ Gather \/ Start \/ Finish

Spec == Init /\ [][Next]_vars

(***************************************************************************)
(* Lines are handled in the order they were typed, none of them twice.     *)
(***************************************************************************)
InOrder ==
  \A j, k \in 1..Len(handled) :
    j < k => \A a \in handled[j], b \in handled[k] : a < b

(***************************************************************************)
(* The statement being run was typed after all that have been handled.     *)
(***************************************************************************)
RunsNewest ==
  \A k \in 1..Len(handled) : \A a \in handled[k], b \in running : a < b
=============================================================================
