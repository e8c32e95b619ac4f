-------------------------- MODULE MCStudentScreens --------------------------
(***************************************************************************)
(* What keeps a student's work while it is done: the two screens that hold *)
(* state of their own in the page, the practice notebook and the résumé    *)
(* editor, and the background review that the editor's window asks for.    *)
(* The models share no state (the editor's knows of the review only that   *)
(* it writes the row), so one run explores all of them, each with the      *)
(* others at rest.                                                         *)
(***************************************************************************)
EXTENDS Notebook, ResumeEditor, ReviewJobs

VARIABLE screen

screensVars == <<screen, notebookVars, resumeVars, vars>>

ScreensInit ==
    /\ screen \in {"notebook", "resume", "review"}
    /\ NotebookInit /\ ResumeInit /\ Init
    /\ screen # "notebook" => kind = [c \in Cells |-> "code"]

\* Bound: the last change comes without a loss or without a review.
NotAllAtOnce == edits < MaxWrites \/ mishaps = 0 \/ review = "closed"

ScreensNext ==
    /\ UNCHANGED screen
    /\ \/ screen = "notebook" /\ NotebookNext /\ UNCHANGED <<resumeVars, vars>>
       \/ screen = "resume" /\ ResumeNext /\ NotAllAtOnce' /\ UNCHANGED <<notebookVars, vars>>
       \/ screen = "review" /\ Next /\ UNCHANGED <<notebookVars, resumeVars>>

ScreensSpec ==
    /\ ScreensInit /\ [][ScreensNext]_screensVars
    /\ NotebookFairness /\ ResumeFairness /\ Fairness

\* Types of the screens' and the review's state.
ScreensTypeOK == NotebookTypeOK /\ ResumeTypeOK /\ TypeOK
=============================================================================
