----------------------------- MODULE ReviewJobs -----------------------------
(***************************************************************************)
(* Background reviews: lms_api/lms/review_jobs.py, submit_or_poll and the  *)
(* Celery task run_review_job, and their twins of the question workflow.   *)
(*                                                                         *)
(* One job, that is one key: the student's request and its attempt number. *)
(* Redis holds the job's row and the lease of the worker that runs it; the *)
(* broker holds its messages, which are acknowledged late, so that a lost  *)
(* worker's message comes back, and may come back while its worker is only *)
(* out of reach.  Each Redis command is one step.                          *)
(*                                                                         *)
(* Time is counted in the 30 seconds of a retry: the lease outlives the    *)
(* hard limit of the task, and the retries outlive the lease.              *)
(*                                                                         *)
(* What the review says, its continuation, its previews and the clients'   *)
(* polling of a job that exists are left out.                              *)
(***************************************************************************)
EXTENDS Integers

CONSTANTS
    Workers,        \* worker processes of Celery
    Clients,        \* web workers serving submit_or_poll
    Workflow,       \* the question workflow's task instead of the review's
    HardTicks,      \* time_limit=1860
    LeaseTicks,     \* ex=1900
    MaxRetries,     \* max_retries=70
    Slices,         \* range(8): calls of the AI server in one run
    MaxSends,       \* bound on the times the job is sent anew
    MaxJobMishaps   \* bound on the workers lost or cut off, the exceptions,
                    \* the jobs queued for an hour

ASSUME JobsAssumption ==
    /\ Workflow \in BOOLEAN
    /\ "none" \notin Workers /\ "lost" \notin Workers
    /\ {HardTicks, LeaseTicks, MaxRetries, Slices, MaxSends, MaxJobMishaps} \subseteq Nat
    /\ 0 < HardTicks /\ HardTicks < LeaseTicks /\ LeaseTicks <= MaxRetries /\ 0 < Slices

VARIABLES
    row,        \* the state of resume-review:async:<hash>
    lease,      \* <key>:worker and the time it has left
    ready,      \* by number of retries, the messages a worker may take
    later,      \* and those whose countdown runs
    task,       \* what each worker process is doing
    send,       \* what each client is doing
    sends, jobMishaps,     \* counters, bounded
    gaveUp,     \* history: a task or a client ended and left its job as it was
    dropped     \* history: a redelivered message was dropped with no one at work

vars == <<row, lease, ready, later, task, send, sends, jobMishaps, gaveUp, dropped>>
broker == <<ready, later>>
counters == <<sends, jobMishaps, gaveUp>>

Retries == 0..MaxRetries
RowStates == {"absent", "queued", "running", "complete", "failed"}
NoLease == [by |-> "none", left |-> 0]
Resting == [at |-> "idle"]
\* Steps of run_review_job that hold the lease
Holding == {"leased", "drop", "claim", "work", "complete", "failed", "release"}
\* and those inside its try, which write the row
Working == {"claim", "work", "complete", "failed"}
Runs ==
    {Resting}
    \cup [at: {"start"} \cup Holding, retries: Retries, owns: BOOLEAN,
          left: 0..HardTicks, slice: 0..Slices]

TypeOK ==
    /\ row \in RowStates
    /\ lease \in [by: Workers \cup {"none", "lost"}, left: 0..LeaseTicks]
    /\ ready \in [Retries -> Nat] /\ later \in [Retries -> Nat]
    /\ task \in [Workers -> Runs]
    /\ send \in [Clients -> {"idle", "send", "undo"}]
    /\ sends \in 0..MaxSends /\ jobMishaps \in 0..MaxJobMishaps
    /\ gaveUp \in BOOLEAN /\ dropped \in BOOLEAN

-----------------------------------------------------------------------------
(* submit_or_poll *)

\* SET NX: the one request that finds no row sends the message.
Submit(c) ==
    /\ send[c] = "idle" /\ row = "absent"
    /\ sends < MaxSends /\ sends' = sends + 1
    /\ row' = "queued"
    /\ send' = [send EXCEPT ![c] = "send"]
    /\ UNCHANGED <<lease, broker, task, jobMishaps, gaveUp, dropped>>

\* apply_async, which may raise, even when the message was sent
Send(c) ==
    /\ send[c] = "send"
    /\ \E sent, raised \in BOOLEAN :
          /\ sent \/ raised
          /\ sent /\ raised => jobMishaps < MaxJobMishaps
          /\ jobMishaps' = IF sent /\ raised THEN jobMishaps + 1 ELSE jobMishaps
          /\ ready' = IF sent THEN [ready EXCEPT ![0] = @ + 1] ELSE ready
          /\ send' = [send EXCEPT ![c] = IF raised THEN "undo" ELSE "idle"]
    /\ UNCHANGED <<row, lease, later, task, sends, gaveUp, dropped>>

Undo(c) ==
    /\ send[c] = "undo"
    /\ row' = "absent"
    /\ send' = [send EXCEPT ![c] = "idle"]
    /\ UNCHANGED <<lease, broker, task, counters, dropped>>

\* The web worker is lost, or Redis does not answer: the row stays as it is.
ClientFails(c) ==
    /\ send[c] # "idle"
    /\ jobMishaps < MaxJobMishaps /\ jobMishaps' = jobMishaps + 1
    /\ gaveUp' = TRUE
    /\ send' = [send EXCEPT ![c] = "idle"]
    /\ UNCHANGED <<row, lease, broker, task, sends, dropped>>

\* The row's hour passes, longer than a client takes to send or a worker that
\* has saved the row is at work; a job may even have waited it out in the queue.
Expire ==
    /\ \A c \in Clients : send[c] = "idle"
    /\ \A w \in Workers : task[w].at \notin Working \cup {"release"}
    /\ row # "absent" /\ row' = "absent"
    /\ row = "queued" => jobMishaps < MaxJobMishaps
    /\ jobMishaps' = IF row = "queued" THEN jobMishaps + 1 ELSE jobMishaps
    /\ UNCHANGED <<lease, broker, task, send, sends, gaveUp, dropped>>

-----------------------------------------------------------------------------
(* The task *)

Deliver(w, r) ==
    /\ task[w] = Resting
    /\ ready[r] > 0
    /\ ready' = [ready EXCEPT ![r] = @ - 1]
    /\ task' = [task EXCEPT ![w] =
                 [at |-> "start", retries |-> r, owns |-> TRUE, left |-> HardTicks, slice |-> 0]]
    /\ UNCHANGED <<row, lease, later, send, counters, dropped>>

\* The fault of a lease that is set without NX
AlwaysFree == TRUE
LeaseFree == lease.by = "none"

TaskEnds(w) == task' = [task EXCEPT ![w] = Resting]
Goes(w, at) == task' = [task EXCEPT ![w].at = at]

TakeLease(w) ==
    /\ task[w].at = "start"
    /\ LeaseFree
    /\ lease' = [by |-> w, left |-> LeaseTicks]
    /\ Goes(w, "leased")
    /\ UNCHANGED <<row, broker, send, counters, dropped>>

\* Another holds the lease.  The review retries, 70 times; the workflow drops
\* the message, "redelivered: its original worker is on it".
LeaseHeld(w) ==
    /\ task[w].at = "start"
    /\ ~LeaseFree
    /\ TaskEnds(w)
    /\ IF ~Workflow /\ task[w].retries < MaxRetries
       THEN later' = [later EXCEPT ![task[w].retries + 1] = @ + 1]
       ELSE UNCHANGED later
    /\ dropped' = (dropped \/ (Workflow /\ \A v \in Workers : task[v].at \notin Holding))
    /\ UNCHANGED <<row, lease, ready, send, counters>>

\* The fault of running a job whose review is there already
NeverSettled == row = "absent"
\* A job no longer there or complete is not run; a failed workflow neither,
\* but a failed review is.
JobSettled == row \in {"absent", "complete"} \/ (Workflow /\ row = "failed")

ReadRow(w) ==
    /\ task[w].at = "leased"
    /\ Goes(w, IF JobSettled THEN "drop" ELSE "claim")
    /\ UNCHANGED <<row, lease, broker, send, counters, dropped>>

Drop(w) ==
    /\ task[w].at = "drop"
    /\ lease' = NoLease
    /\ TaskEnds(w)
    /\ UNCHANGED <<row, broker, send, counters, dropped>>

Claim(w) ==
    /\ task[w].at = "claim"
    /\ row' = "running"
    /\ Goes(w, "work")
    /\ UNCHANGED <<lease, broker, send, counters, dropped>>

\* One answer of the AI server: more to do (saved, and called again), done, or
\* an error; too many calls and the soft time limit end as an error does.
Work(w) ==
    /\ task[w].at = "work"
    /\ \/ /\ ~Workflow /\ task[w].slice < Slices
          /\ row' = "running"
          /\ task' = [task EXCEPT ![w].slice = @ + 1]
       \/ /\ \E at \in {"complete", "failed"} : Goes(w, at)
          /\ UNCHANGED row
    /\ UNCHANGED <<lease, broker, send, counters, dropped>>

SaveAnswer(w) ==
    /\ task[w].at \in {"complete", "failed"}
    /\ row' = task[w].at
    /\ Goes(w, "release")
    /\ UNCHANGED <<lease, broker, send, counters, dropped>>

\* The script compares the token before it deletes.
Release(w) ==
    /\ task[w].at = "release"
    /\ lease' = IF lease.by = w THEN NoLease ELSE lease
    /\ TaskEnds(w)
    /\ UNCHANGED <<row, broker, send, counters, dropped>>

-----------------------------------------------------------------------------
(* What befalls a worker *)

\* Its lease is now no running task's.
LoseLease(w) == lease' = IF lease.by = w THEN [lease EXCEPT !.by = "lost"] ELSE lease

\* The fault of a task acknowledged before it runs
AckedEarly(w) == FALSE
\* acks_late, reject_on_worker_lost: the message of a lost worker comes back
ComesBack(w) == task[w].owns

LoseWorker(w) ==
    /\ task[w] # Resting
    /\ jobMishaps < MaxJobMishaps /\ jobMishaps' = jobMishaps + 1
    /\ ready' = IF ComesBack(w) THEN [ready EXCEPT ![task[w].retries] = @ + 1] ELSE ready
    /\ LoseLease(w)
    /\ TaskEnds(w)
    /\ UNCHANGED <<row, later, send, sends, gaveUp, dropped>>

\* The hard limit: the task is killed and its message acknowledged
Overrun(w) ==
    /\ task[w] # Resting /\ task[w].left = 0
    /\ gaveUp' = TRUE
    /\ LoseLease(w)
    /\ TaskEnds(w)
    /\ UNCHANGED <<row, broker, send, sends, jobMishaps, dropped>>

\* The broker gives the message of a worker out of reach to another.
Redeliver(w) ==
    /\ task[w] # Resting /\ task[w].owns
    /\ jobMishaps < MaxJobMishaps /\ jobMishaps' = jobMishaps + 1
    /\ ready' = [ready EXCEPT ![task[w].retries] = @ + 1]
    /\ task' = [task EXCEPT ![w].owns = FALSE]
    /\ UNCHANGED <<row, lease, later, send, sends, gaveUp, dropped>>

\* What the save of each step writes; the workflow saves nothing at work.
Written(at) ==
    CASE at = "claim" -> "running"
      [] at = "work" -> IF Workflow THEN row ELSE "running"
      [] OTHER -> at

\* An exception: Redis does not answer, though it may have done as it was told,
\* or the soft time limit interrupts.  Inside the try it is the except that
\* saves "failed", which may raise too; outside, the task just ends, and its
\* message with it.
Raises(w) ==
    /\ task[w] # Resting
    /\ jobMishaps < MaxJobMishaps /\ jobMishaps' = jobMishaps + 1
    /\ IF task[w].at \in Working
       THEN /\ row' \in {row, Written(task[w].at)}
            /\ Goes(w, IF task[w].at = "failed" THEN "release" ELSE "failed")
            /\ gaveUp' = (gaveUp \/ task[w].at = "failed")
            /\ UNCHANGED lease
       ELSE /\ TaskEnds(w)
            /\ gaveUp' = TRUE
            /\ \/ LoseLease(w)
               \/ /\ task[w].at = "start" /\ LeaseFree
                  /\ lease' = [by |-> "lost", left |-> LeaseTicks]
            /\ UNCHANGED row
    /\ UNCHANGED <<broker, send, sends, dropped>>

\* 30 seconds: leases and tasks grow older and countdowns end; no task goes
\* past its hard limit.
Tick ==
    /\ \A w \in Workers : task[w] # Resting => task[w].left > 0
    /\ lease' = IF lease.left <= 1 THEN NoLease ELSE [lease EXCEPT !.left = @ - 1]
    /\ task' = [w \in Workers |->
                 IF task[w] = Resting THEN Resting ELSE [task[w] EXCEPT !.left = @ - 1]]
    /\ ready' = [r \in Retries |-> ready[r] + later[r]]
    /\ later' = [r \in Retries |-> 0]
    /\ UNCHANGED <<row, send, counters, dropped>>

-----------------------------------------------------------------------------
Init ==
    /\ row = "absent" /\ lease = NoLease
    /\ ready = [r \in Retries |-> 0] /\ later = [r \in Retries |-> 0]
    /\ task = [w \in Workers |-> Resting]
    /\ send = [c \in Clients |-> "idle"]
    /\ sends = 0 /\ jobMishaps = 0
    /\ gaveUp = FALSE /\ dropped = FALSE

ClientNext(c) == Submit(c) \/ Send(c) \/ Undo(c) \/ ClientFails(c)
Delivery == \E w \in Workers, r \in Retries : Deliver(w, r)
TaskNext(w) ==
    \/ TakeLease(w) \/ LeaseHeld(w) \/ ReadRow(w) \/ Drop(w)
    \/ Claim(w) \/ Work(w) \/ SaveAnswer(w) \/ Release(w)
Befalls(w) == LoseWorker(w) \/ Overrun(w) \/ Redeliver(w) \/ Raises(w)

Next ==
    \/ \E c \in Clients : ClientNext(c)
    \/ Delivery
    \/ \E w \in Workers : TaskNext(w) \/ Befalls(w)
    \/ Expire
    \/ Tick

\* Clients and workers go on, messages are delivered and time passes.
Fairness ==
    /\ \A c \in Clients : WF_vars(Send(c) \/ Undo(c))
    /\ WF_vars(Delivery)
    /\ \A w \in Workers : WF_vars(TaskNext(w)) /\ WF_vars(Overrun(w))
    /\ WF_vars(Tick)

Spec == Init /\ [][Next]_vars
FairSpec == Spec /\ Fairness

-----------------------------------------------------------------------------
(* Properties *)

\* "A redelivered Celery message cannot run alongside its original worker":
\* although the lease is given time only, two workers never run one review.
OneAtWork ==
    \A v, w \in Workers : task[v].at \in Working /\ task[w].at \in Working => v = w

\* What the lease rests on: a task that holds it ends before it does.
LeaseOutlives ==
    \A w \in Workers :
        task[w].at \in Holding => lease.by = w /\ task[w].left < lease.left

\* A run that goes on has found its job not complete, and no other completes it.
NotYetComplete ==
    \A w \in Workers : task[w].at \in Working \ {"failed"} => row # "complete"

IInv == TypeOK /\ LeaseOutlives /\ NotYetComplete

\* A review that was delivered is not taken back: no second run, however late
\* its message, turns a complete job into a running or a failed one.  Only the
\* run that saved it may, when the answer to that save does not come.
CompleteStays ==
    [][row = "complete" =>
          \/ row' \in {"complete", "absent"}
          \/ row' = "failed" /\ \E w \in Workers : task[w].at = "failed"]_vars

\* A job that was taken in is answered, complete or failed, although a worker
\* may be lost or cut off at any step.  Not so after two mishaps, since retries
\* spent behind another run are not given back; after a task that ran into its
\* hard limit, or an exception outside its try; or when the row has gone.
Answered ==
    row \in {"queued", "running"} ~>
        (row \notin {"queued", "running"} \/ gaveUp \/ jobMishaps > 1)

\* "Redelivered: its original worker is on it": what the workflow's task says
\* when it finds the lease held and drops its message.
DroppedOnlyIfAtWork == ~dropped
=============================================================================
