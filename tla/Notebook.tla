------------------------------ MODULE Notebook ------------------------------
(***************************************************************************)
(* The practice notebook of the web client: useNotebook.ts (cells and the  *)
(* line of runs), pythonRunner.ts (the page's end of the Python worker)    *)
(* and pythonWorker.ts (the worker).                                       *)
(*                                                                         *)
(* The page runs one callback at a time, and the promise callbacks it      *)
(* leaves before anything else: Continue and Begin, the only steps of a    *)
(* page that is not Settled.  Messages of the worker reach the page in     *)
(* order, and those of a terminated worker never.  A reset is posted only  *)
(* when nothing runs, so it is here one step with its handling.            *)
(*                                                                         *)
(* Outputs, the text of prompts, packages, SQL, the saved copy and the     *)
(* look of the page are left out.                                          *)
(***************************************************************************)
EXTENDS Integers, Sequences

CONSTANTS
    Cells,              \* ids that cells may get
    Problem, Grade,     \* the run of a problem cell in the session, its grading
    Nobody,
    MaxAsked            \* bound: runs asked for

ASSUME NotebookAssumption ==
    /\ Problem \notin Cells /\ Grade \notin Cells /\ Problem # Grade
    /\ Nobody \notin Cells \cup {Problem, Grade}
    /\ MaxAsked \in Nat

VARIABLES
    kind, look, count,          \* the cells: type, state and number (0 for none)
    queue, cancel,              \* who has asked, each with the value cancel had
    counter, lastGeneration,
    run,                        \* what the page's pending run is at
    result,                     \* of a run that has ended, until Continue
    worker, generation,
    job, wire, kernel,          \* the worker: its run, its messages, its session
    left,                       \* the screen has been left
    asked, ranIn, since, behind \* history: runs asked for, the generation a
                                \* number was earned in, who began since the last
                                \* reset, whether leaving left something queued

pageVars == <<kind, look, count, queue, cancel, counter, lastGeneration, run, result>>
workerVars == <<worker, generation, job, wire, kernel>>
history == <<asked, ranIn, since, behind>>
notebookVars == <<pageVars, workerVars, left, history>>

Askers == Cells \cup {Problem, Grade}
Ends == {"ok", "error", "timedOut", "stopped"}

\* Types of the notebook's state.
NotebookTypeOK ==
    /\ kind \in [Cells -> {"unused", "code", "text", "gone"}]
    /\ look \in [Cells -> {"idle", "queued", "running", "ok", "error"}]
    /\ count \in [Cells -> Nat] /\ ranIn \in [Cells -> Nat]
    /\ queue \in Seq([who: Askers, token: Nat])
    /\ {cancel, counter, lastGeneration, generation, asked} \subseteq Nat
    /\ run \in {"none", "sent", "exec", "input"}
    /\ result \in {"none"} \cup Ends
    /\ worker \in {"none", "error", "booting", "up", "broken"}
    /\ job \in {"none", "posted", "exec", "loop", "asleep"}
    /\ wire \in Seq({"boot-error", "exec", "input", "ok", "error"})
    /\ kernel \subseteq Askers /\ since \subseteq Askers
    /\ left \in BOOLEAN /\ behind \in BOOLEAN

NotebookInit ==
    /\ kind \in [Cells -> {"unused", "code"}] /\ \E c \in Cells : kind[c] = "code"
    /\ look = [c \in Cells |-> "idle"]
    /\ count = [c \in Cells |-> 0] /\ ranIn = [c \in Cells |-> 0]
    /\ queue = <<>> /\ cancel = 0 /\ counter = 0 /\ lastGeneration = 0
    /\ run = "none" /\ result = "none"
    /\ worker = "none" /\ generation = 0 /\ job = "none" /\ wire = <<>> /\ kernel = {}
    /\ left = FALSE /\ behind = FALSE /\ asked = 0 /\ since = {}

Alive == worker \in {"booting", "up", "broken"}
Settled == result = "none" /\ (queue # <<>> => run # "none")
Waits == run = "input"

-----------------------------------------------------------------------------
(* pythonRunner.ts *)

Spawn(jobToDo) ==
    /\ worker' = "booting" /\ generation' = generation + 1
    /\ job' = jobToDo /\ wire' = <<>> /\ kernel' = {}

Kill(status) ==
    /\ worker' = status /\ job' = "none" /\ wire' = <<>> /\ kernel' = {}
    /\ UNCHANGED generation

Finish(r) ==
    /\ run' = "none"
    /\ result' = IF run # "none" THEN r ELSE result

\* finish and kill, when a run is pending
StopRunner ==
    /\ Finish("stopped")
    /\ IF run # "none" THEN Kill("none") ELSE UNCHANGED workerVars

Warm ==
    /\ Settled /\ ~left
    /\ worker = "none" /\ generation = 0
    /\ Spawn("none")
    /\ UNCHANGED <<pageVars, left, history>>

TimeOut ==
    /\ Settled /\ run = "exec"
    /\ Finish("timedOut") /\ Kill("none")
    /\ UNCHANGED <<kind, look, count, queue, cancel, counter, lastGeneration, left, history>>

Receive ==
    /\ Settled /\ wire # <<>>
    /\ CASE Head(wire) = "boot-error" -> Finish("error") /\ Kill("error")
         [] Head(wire) \in {"exec", "input"} ->
              /\ run' = Head(wire) /\ wire' = Tail(wire)
              /\ UNCHANGED <<result, worker, generation, job, kernel>>
         [] OTHER ->
              /\ Finish(Head(wire)) /\ wire' = Tail(wire)
              /\ UNCHANGED <<worker, generation, job, kernel>>
    /\ UNCHANGED <<kind, look, count, queue, cancel, counter, lastGeneration, left, history>>

-----------------------------------------------------------------------------
(* pythonWorker.ts *)

Boot ==
    /\ worker = "booting"
    /\ \/ worker' = "up" /\ UNCHANGED wire
       \/ worker' = "broken" /\ wire' = Append(wire, "boot-error")
    /\ UNCHANGED <<pageVars, generation, job, kernel, left, history>>

\* The packages are loaded, or could not be.
Load ==
    /\ worker = "up" /\ job = "posted"
    /\ \/ job' = "exec" /\ wire' = Append(wire, "exec")
       \/ job' = "none" /\ wire' = Append(wire, "error")
    /\ UNCHANGED <<pageVars, worker, generation, kernel, left, history>>

\* The fault of grading in the session
GradesInSession(who) == {who}
\* Whose definitions a run leaves in the session: a grading has its own space.
Defines(who) == IF who = Grade THEN {} ELSE {who}

\* The code ends, asks for input, or never ends.  What fails may have defined
\* something before.
Execute ==
    /\ worker = "up" /\ job = "exec"
    /\ \/ /\ job' = "none" /\ wire' = Append(wire, "ok")
          /\ kernel' = kernel \cup Defines(Head(queue).who)
       \/ /\ job' = "none" /\ wire' = Append(wire, "error")
          /\ kernel' \in {kernel, kernel \cup Defines(Head(queue).who)}
       \/ /\ Head(queue).who \in Cells
          /\ job' = "asleep" /\ wire' = Append(wire, "input")
          /\ UNCHANGED kernel
       \/ job' = "loop" /\ UNCHANGED <<wire, kernel>>
    /\ UNCHANGED <<pageVars, worker, generation, left, history>>

-----------------------------------------------------------------------------
(* useNotebook.ts: the promise callbacks *)

\* noteGeneration: a new worker, and not the first
Restarted == lastGeneration # 0 /\ generation # lastGeneration

\* The fault of forgetting the restart while a run of the new worker is shown
KeepsNumbers(keep) == count
\* The other cells' numbers go with the variables they stood for.
Renumbered(keep) ==
    IF Restarted THEN [c \in Cells |-> IF c = keep THEN count[c] ELSE 0] ELSE count

\* The fault of cancelling without taking the cells out of the line
StaysQueued(l) == l
\* Cells still in the line are taken out of it.
Unqueued(l) == [c \in Cells |-> IF l[c] = "queued" THEN "idle" ELSE l[c]]

\* The fault of showing what the runner says as it is
ShownRaw(r) == r
Shown(r) == IF r = "ok" THEN "ok" ELSE "error"

ContinueCell(c) ==
    LET broken == result \in {"timedOut", "stopped"}
        number == (IF Restarted THEN 0 ELSE counter) + 1
        ended == IF kind[c] \in {"code", "text"} THEN [look EXCEPT ![c] = Shown(result)] ELSE look
    IN  /\ count' = IF kind[c] \in {"code", "text"}
                    THEN [Renumbered(c) EXCEPT ![c] = number] ELSE Renumbered(c)
        /\ ranIn' = [d \in Cells |-> IF count'[d] = 0 THEN 0 ELSE IF d = c THEN generation ELSE ranIn[d]]
        /\ look' = IF broken THEN Unqueued(ended) ELSE ended
        /\ cancel' = IF broken THEN cancel + 1 ELSE cancel
        /\ counter' = IF broken THEN 0 ELSE number

ContinueProblem ==
    /\ count' = Renumbered(Nobody)
    /\ counter' = IF Restarted THEN 0 ELSE counter
    /\ ranIn' = [d \in Cells |-> IF count'[d] = 0 THEN 0 ELSE ranIn[d]]
    /\ UNCHANGED <<look, cancel>>

\* What follows the awaited run
Continue ==
    /\ result # "none"
    /\ IF Head(queue).who \in Cells THEN ContinueCell(Head(queue).who) ELSE ContinueProblem
    /\ lastGeneration' = generation
    /\ queue' = Tail(queue) /\ result' = "none"
    /\ UNCHANGED <<kind, run, workerVars, left, asked, since, behind>>

Skips(e) == e.who \in Cells /\ (e.token # cancel \/ kind[e.who] # "code")

\* The next of the line
Begin ==
    /\ result = "none" /\ run = "none" /\ queue # <<>>
    /\ LET e == Head(queue) IN
       \/ /\ Skips(e)
          /\ queue' = Tail(queue)
          /\ UNCHANGED <<look, run, workerVars, since>>
       \/ /\ ~Skips(e)
          /\ look' = IF e.who \in Cells THEN [look EXCEPT ![e.who] = "running"] ELSE look
          /\ run' = "sent" /\ since' = since \cup {e.who}
          /\ IF Alive THEN job' = "posted" /\ UNCHANGED <<worker, generation, wire, kernel>>
             ELSE Spawn("posted")
          /\ UNCHANGED queue
    /\ UNCHANGED <<kind, count, cancel, counter, lastGeneration, result, left, asked, ranIn, behind>>

-----------------------------------------------------------------------------
(* useNotebook.ts: what the student does *)

Free == Settled /\ ~left

Join(who) ==
    /\ asked < MaxAsked /\ asked' = asked + 1
    /\ queue' = Append(queue, [who |-> who, token |-> cancel])

Enqueue(c) ==
    /\ Free /\ kind[c] = "code"
    /\ Join(c)
    /\ look' = [look EXCEPT ![c] = "queued"]
    /\ UNCHANGED <<kind, count, cancel, counter, lastGeneration, run, result, workerVars, left,
                   ranIn, since, behind>>

RunQueued(p) ==
    /\ Free
    /\ Join(p)
    /\ UNCHANGED <<kind, look, count, cancel, counter, lastGeneration, run, result, workerVars,
                   left, ranIn, since, behind>>

Stop ==
    /\ Free /\ queue # <<>>
    /\ StopRunner
    /\ UNCHANGED <<kind, look, count, queue, cancel, counter, lastGeneration, left, history>>

\* The fault of not starting the timer again after an input
NotRearmed == "sent"
\* The pending run whose timer goes
Armed == "exec"

\* The cell's box is on the page while the cell is.
AnswerInput ==
    /\ Free /\ Waits /\ kind[Head(queue).who] \in {"code", "text"}
    /\ run' = Armed /\ job' = "exec"
    /\ UNCHANGED <<kind, look, count, queue, cancel, counter, lastGeneration, result, worker,
                   generation, wire, kernel, left, history>>

\* The fault of clearing the session under the code that runs in it
ClearsUnder ==
    kernel' = {} /\ UNCHANGED <<worker, generation, job, wire, run, result>>
\* resetKernel, clearAll and importCells: a worker that runs is stopped, one
\* that does not is told to reset.
ForgetSession ==
    IF queue # <<>> THEN StopRunner
    ELSE kernel' = {} /\ UNCHANGED <<worker, generation, job, wire, run, result>>

\* The fault of forgetting the session but not what it showed
KeepsOutputs == UNCHANGED <<look, count, ranIn>>
ClearOutputs ==
    /\ look' = [c \in Cells |-> "idle"]
    /\ count' = [c \in Cells |-> 0] /\ ranIn' = [c \in Cells |-> 0]

ResetKernel ==
    /\ Free
    /\ ForgetSession
    /\ counter' = 0 /\ since' = {}
    /\ ClearOutputs
    /\ UNCHANGED <<kind, queue, cancel, lastGeneration, left, asked, behind>>

\* clearAll, importCells that replaces: other cells, under ids of their own
Replace(new) ==
    /\ Free /\ kind[new] = "unused"
    /\ ForgetSession
    /\ counter' = 0 /\ since' = {}
    /\ kind' = [c \in Cells |-> IF c = new THEN "code"
                                ELSE IF kind[c] = "unused" THEN "unused" ELSE "gone"]
    /\ ClearOutputs
    /\ UNCHANGED <<queue, cancel, lastGeneration, left, asked, behind>>

SetKind(c, k) ==
    /\ Free
    /\ kind' = [kind EXCEPT ![c] = k]
    /\ look' = [look EXCEPT ![c] = "idle"] /\ count' = [count EXCEPT ![c] = 0]
    /\ ranIn' = [ranIn EXCEPT ![c] = 0]
    /\ UNCHANGED <<queue, cancel, counter, lastGeneration, run, result, workerVars, left, asked,
                   since, behind>>

Insert(c) == kind[c] = "unused" /\ SetKind(c, "code")
ChangeType(c) ==
    \/ kind[c] = "code" /\ SetKind(c, "text")
    \/ kind[c] = "text" /\ SetKind(c, "code")
\* The last cell is replaced, which Replace does as well.
Remove(c) ==
    /\ kind[c] \in {"code", "text"} /\ \E d \in Cells \ {c} : kind[d] \in {"code", "text"}
    /\ SetKind(c, "gone")

\* The fault of ending only a worker that runs
StopsOnly == StopRunner
Dispose == Finish("stopped") /\ Kill("none")

\* The screen is left.
Leave ==
    /\ Free
    /\ Dispose
    /\ left' = TRUE
    /\ behind' = (\E i \in 2..Len(queue) : ~(queue[1].who \in Cells /\ queue[i].who \in Cells))
    /\ UNCHANGED <<kind, look, count, queue, cancel, counter, lastGeneration, asked, ranIn, since>>

-----------------------------------------------------------------------------

RunSteps == Receive \/ Boot \/ Load \/ Execute \/ Continue \/ Begin
CellSteps == \E c \in Cells :
    Enqueue(c) \/ Replace(c) \/ Insert(c) \/ ChangeType(c) \/ Remove(c)

NotebookNext ==
    \/ RunSteps \/ Warm \/ TimeOut
    \/ CellSteps \/ RunQueued(Problem) \/ RunQueued(Grade)
    \/ Stop \/ AnswerInput \/ ResetKernel \/ Leave

\* A browser goes on with what it has to do, and its timers fire.
NotebookFairness == WF_notebookVars(RunSteps) /\ WF_notebookVars(TimeOut)

NotebookSpec == NotebookInit /\ [][NotebookNext]_notebookVars /\ NotebookFairness

-----------------------------------------------------------------------------
(* Properties *)

\* The numbers beside the cells were earned in the kernel that the page last
\* saw, and no two cells show the same: what noteGeneration is for.
NumbersAreOfThisKernel ==
    \A c \in Cells : count[c] # 0 =>
        /\ ranIn[c] = lastGeneration
        /\ \A d \in Cells \ {c} : count[d] # count[c]

\* While the kernel the page last saw lives, it remembers what every cell that
\* shows a number and no error defined.
NumberedAreRemembered ==
    \A c \in Cells :
        count[c] # 0 /\ look[c] = "ok" /\ Alive /\ generation = lastGeneration => c \in kernel

\* A cell shown as running is the one being run; a cell shown as queued is in
\* the line and will not be passed over as cancelled.
NothingIsStuck ==
    \A c \in Cells :
        /\ look[c] = "running" =>
              queue # <<>> /\ Head(queue).who = c /\ (run # "none" \/ result # "none")
        /\ look[c] = "queued" =>
              \E i \in DOMAIN queue : queue[i] = [who |-> c, token |-> cancel]

\* After a reset or a replacement, the session holds nothing of what began
\* before it.
ResetForgets == kernel \subseteq since

\* Leaving the screen leaves no worker behind, except when a run that no break
\* cancels stood in the line.
LeavesNoWorker == left /\ ~behind => ~Alive

\* The line empties, whatever the code does, unless input() waits for the
\* student.
TheLineEmpties == queue # <<>> ~> (queue = <<>> \/ Waits)

\* The notebook serves its line as SerialRuns says.  Who joins the line draws
\* the next number; a cell cancelled waits no more, though its entry is only
\* taken out when its turn comes.
Live(e) == e.who \notin Cells \/ e.token = cancel
Served == run # "none" \/ result # "none"
InLine == {i \in DOMAIN queue : Live(queue[i]) /\ (Served => i # 1)}
FirstNumber == asked - Len(queue)
Waiting == [n \in {FirstNumber + i : i \in InLine} |-> queue[n - FirstNumber].who]
Active == IF Served THEN Head(queue).who ELSE Nobody
Serial == INSTANCE SerialRuns WITH
    Problems <- {Problem}, Gradings <- {Grade},
    drawn <- asked, waiting <- Waiting, active <- Active, memory <- kernel
ServesInOrder == Serial!SerialSpec
=============================================================================
