----------------------------- MODULE SerialRuns -----------------------------
(***************************************************************************)
(* What the practice notebook promises of its runs (useNotebook.ts): they  *)
(* stand in one line, are served one at a time in the order they were      *)
(* asked for, and leave their definitions in one memory, which gradings do *)
(* not touch.  When a cell's run is broken off, the cells waiting behind   *)
(* it are dropped; the run or the grading of a problem is never dropped.   *)
(*                                                                         *)
(* Who asks draws the next number, and the lowest number is served first.  *)
(***************************************************************************)
EXTENDS Integers

CONSTANTS
    Cells,      \* the code cells
    Problems,   \* runs of problem cells in the session
    Gradings,   \* gradings of problem cells
    Nobody

VARIABLES
    drawn,      \* the last number drawn
    waiting,    \* who has asked and not begun, by number
    active,     \* what is being run, or Nobody
    memory      \* what has left its definitions behind

serialVars == <<drawn, waiting, active, memory>>

SerialInit == drawn = 0 /\ waiting = [n \in {} |-> Nobody] /\ active = Nobody /\ memory = {}

Without(numbers) == [n \in DOMAIN waiting \ numbers |-> waiting[n]]
IsNext(n) == n \in DOMAIN waiting /\ \A m \in DOMAIN waiting : n <= m

Ask(r) ==
    /\ drawn' = drawn + 1
    /\ waiting' = [n \in DOMAIN waiting \cup {drawn + 1} |->
                      IF n = drawn + 1 THEN r ELSE waiting[n]]
    /\ UNCHANGED <<active, memory>>

Start(n) ==
    /\ active = Nobody /\ IsNext(n)
    /\ active' = waiting[n] /\ waiting' = Without({n})
    /\ UNCHANGED <<drawn, memory>>

\* A cell that has been deleted, or made a text, is passed over.
PassOver(n) ==
    /\ active = Nobody /\ IsNext(n) /\ waiting[n] \in Cells
    /\ waiting' = Without({n})
    /\ UNCHANGED <<drawn, active, memory>>

Remember ==
    /\ active \in Cells \cup Problems
    /\ memory' = memory \cup {active}
    /\ UNCHANGED <<drawn, waiting, active>>

End == active # Nobody /\ active' = Nobody /\ UNCHANGED <<drawn, waiting, memory>>

BreakOff ==
    /\ active \in Cells
    /\ active' = Nobody
    /\ waiting' = Without({n \in DOMAIN waiting : waiting[n] \in Cells})
    /\ UNCHANGED <<drawn, memory>>

Forget == memory' = {} /\ UNCHANGED <<drawn, waiting, active>>

SerialNext ==
    \/ \E r \in Cells \cup Problems \cup Gradings : Ask(r)
    \/ \E n \in DOMAIN waiting : Start(n) \/ PassOver(n)
    \/ Remember \/ End \/ BreakOff \/ Forget

SerialSpec == SerialInit /\ [][SerialNext]_serialVars
=============================================================================
