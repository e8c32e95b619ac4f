-------------------------- MODULE ReviewJobsProofs --------------------------
(* What holds of ReviewJobs for any number of workers and clients and for   *)
(* any limits that satisfy JobsAssumption.                                  *)
EXTENDS ReviewJobs, TLAPS

-----------------------------------------------------------------------------
(* Background review jobs: ReviewJobs *)

LEMMA ReviewJobsInitInv == Init => IInv
<1> SUFFICES ASSUME Init PROVE IInv
  OBVIOUS
<1>1. /\ Resting \in Runs /\ Resting.at \notin Holding /\ Resting.at \notin Working
      /\ NoLease \in [by: Workers \cup {"none", "lost"}, left: 0..LeaseTicks]
  BY JobsAssumption DEF Runs, Resting, Holding, Working, NoLease
<1>2. sends \in 0..MaxSends /\ jobMishaps \in 0..MaxJobMishaps
  BY JobsAssumption DEF Init
<1>3. TypeOK
  <2>1. task \in [Workers -> Runs] /\ send \in [Clients -> {"idle", "send", "undo"}]
    BY <1>1 DEF Init
  <2>2. ready \in [Retries -> Nat] /\ later \in [Retries -> Nat]
    BY DEF Init
  <2>3. QED BY <1>1, <1>2, <2>1, <2>2 DEF Init, TypeOK, RowStates
<1>4. QED BY <1>1, <1>3 DEF Init, IInv, LeaseOutlives, NotYetComplete

\* A running task is a record of type Runs, and stays one whatever it goes to.
LEMMA RunIsTyped ==
    ASSUME TypeOK, NEW w \in Workers, task[w] # Resting
    PROVE  /\ task[w].at \in {"start"} \cup Holding
           /\ task[w].retries \in Retries /\ task[w].owns \in BOOLEAN
           /\ task[w].left \in 0..HardTicks /\ task[w].slice \in 0..Slices
           /\ \A at \in {"start"} \cup Holding : [task[w] EXCEPT !.at = at] \in Runs
BY DEF TypeOK, Runs

\* At most one worker holds the lease.
LEMMA OneHolder ==
    ASSUME IInv, NEW v \in Workers, NEW w \in Workers,
           task[v].at \in Holding, task[w].at \in Holding
    PROVE  v = w
BY DEF IInv, LeaseOutlives

-----------------------------------------------------------------------------
(* Steps of the clients, of the broker and of time *)

LEMMA ClientStep ==
    ASSUME IInv, NEW c \in Clients, ClientNext(c)
    PROVE  IInv'
<1>t. TypeOK
  BY DEF IInv
<1>1. CASE Submit(c)
  <2>1. TypeOK'
    BY <1>t, <1>1, JobsAssumption DEF Submit, TypeOK, RowStates, broker
  <2>2. QED BY <1>1, <2>1 DEF Submit, IInv, LeaseOutlives, NotYetComplete, broker
<1>2. CASE Send(c)
  <2>r. 0 \in Retries
    BY JobsAssumption DEF Retries
  <2>0. PICK sent \in BOOLEAN, raised \in BOOLEAN :
          /\ sent /\ raised => jobMishaps < MaxJobMishaps
          /\ jobMishaps' = IF sent /\ raised THEN jobMishaps + 1 ELSE jobMishaps
          /\ ready' = IF sent THEN [ready EXCEPT ![0] = @ + 1] ELSE ready
          /\ send' = [send EXCEPT ![c] = IF raised THEN "undo" ELSE "idle"]
    BY <1>2 DEF Send
  <2>a. jobMishaps' \in 0..MaxJobMishaps
    BY <1>t, <2>0, JobsAssumption DEF TypeOK
  <2>b. ready' \in [Retries -> Nat]
    BY <1>t, <2>r, <2>0 DEF TypeOK
  <2>c. send' \in [Clients -> {"idle", "send", "undo"}]
    BY <1>t, <2>0 DEF TypeOK
  <2>1. TypeOK'
    BY <1>t, <1>2, <2>a, <2>b, <2>c DEF Send, TypeOK
  <2>2. QED BY <1>2, <2>1 DEF Send, IInv, LeaseOutlives, NotYetComplete
<1>3. CASE Undo(c)
  <2>1. TypeOK'
    BY <1>t, <1>3 DEF Undo, TypeOK, RowStates, broker, counters
  <2>2. QED BY <1>3, <2>1 DEF Undo, IInv, LeaseOutlives, NotYetComplete, broker
<1>4. CASE ClientFails(c)
  <2>1. jobMishaps' \in 0..MaxJobMishaps /\ send' \in [Clients -> {"idle", "send", "undo"}]
    BY <1>t, <1>4, JobsAssumption DEF ClientFails, TypeOK
  <2>2. TypeOK'
    BY <1>t, <1>4, <2>1 DEF ClientFails, TypeOK, broker
  <2>3. QED BY <1>4, <2>2 DEF ClientFails, IInv, LeaseOutlives, NotYetComplete, broker
<1>5. QED BY <1>1, <1>2, <1>3, <1>4 DEF ClientNext

LEMMA ExpireStep == IInv /\ Expire => IInv'
<1> SUFFICES ASSUME IInv, Expire PROVE IInv'
  OBVIOUS
<1>1. TypeOK'
  BY JobsAssumption DEF IInv, Expire, TypeOK, RowStates, broker
<1>2. QED BY <1>1 DEF Expire, IInv, LeaseOutlives, NotYetComplete, broker

LEMMA DeliverStep ==
    ASSUME IInv, NEW w \in Workers, NEW r \in Retries, Deliver(w, r)
    PROVE  IInv'
<1> DEFINE new == [at |-> "start", retries |-> r, owns |-> TRUE, left |-> HardTicks, slice |-> 0]
<1>1. new \in Runs
  BY JobsAssumption DEF Runs
<1>2. task' = [task EXCEPT ![w] = new] /\ new.at \notin Holding \cup Working
  BY DEF Deliver, Holding, Working
<1>3. ready' \in [Retries -> Nat]
  BY DEF Deliver, IInv, TypeOK
<1>u. UNCHANGED <<row, lease, later, send, sends, jobMishaps, gaveUp, dropped>>
  BY DEF Deliver, counters
<1> HIDE DEF new
<1>4. TypeOK'
  BY <1>1, <1>2, <1>3, <1>u DEF IInv, TypeOK
<1>5. QED BY <1>2, <1>4, <1>u DEF IInv, TypeOK, LeaseOutlives, NotYetComplete

LEMMA TickStep == IInv /\ Tick => IInv'
<1> SUFFICES ASSUME IInv, Tick PROVE IInv'
  OBVIOUS
<1>t. TypeOK
  BY DEF IInv
<1>1. ASSUME NEW w \in Workers
      PROVE  /\ task'[w] \in Runs /\ task'[w].at = task[w].at
             /\ task[w] # Resting => task[w].left > 0 /\ task'[w].left = task[w].left - 1
  <2>1. CASE task[w] = Resting
    BY <2>1 DEF Tick, Runs
  <2>2. CASE task[w] # Resting
    <3>1. task'[w] = [task[w] EXCEPT !.left = @ - 1] /\ task[w].left > 0
      BY <2>2 DEF Tick
    <3>2. task[w].left - 1 \in 0..HardTicks
      BY <1>t, <2>2, <3>1, RunIsTyped, JobsAssumption
    <3>3. task[w] \in Runs \ {Resting}
      BY <1>t, <2>2 DEF TypeOK
    <3>4. QED BY <2>2, <3>1, <3>2, <3>3 DEF Runs
  <2>3. QED BY <2>1, <2>2
<1>2. /\ lease' \in [by: Workers \cup {"none", "lost"}, left: 0..LeaseTicks]
      /\ lease.left > 1 => lease'.by = lease.by /\ lease'.left = lease.left - 1
  BY <1>t, JobsAssumption DEF Tick, TypeOK, NoLease
<1>3. TypeOK'
  <2>1. task' \in [Workers -> Runs]
    BY <1>1 DEF Tick
  <2>2. ready' \in [Retries -> Nat] /\ later' \in [Retries -> Nat]
    BY <1>t DEF Tick, TypeOK
  <2>3. QED BY <1>t, <1>2, <2>1, <2>2 DEF Tick, TypeOK, counters
<1>4. LeaseOutlives'
  <2> SUFFICES ASSUME NEW w \in Workers, task'[w].at \in Holding
               PROVE  lease'.by = w /\ task'[w].left < lease'.left
    BY DEF LeaseOutlives
  <2>1. task[w].at \in Holding /\ lease.by = w /\ task[w].left < lease.left
    BY <1>1 DEF IInv, LeaseOutlives
  <2>2. task[w] # Resting
    BY <2>1 DEF Resting, Holding
  <2>3. task[w].left \in Nat /\ lease.left \in Nat
    BY <1>t, <2>2, RunIsTyped, JobsAssumption DEF TypeOK
  <2>4. QED BY <1>1, <1>2, <2>1, <2>2, <2>3
<1>5. NotYetComplete'
  BY <1>1 DEF Tick, IInv, NotYetComplete
<1>6. QED BY <1>3, <1>4, <1>5 DEF IInv

-----------------------------------------------------------------------------
(* Steps of a task *)

\* A step that only moves a task on, with the lease or without
LEMMA MoveKeepsIInv ==
    ASSUME IInv, NEW w \in Workers, NEW at \in {"start"} \cup Holding, task[w] # Resting,
           task' = [task EXCEPT ![w].at = at], row' \in RowStates,
           at \in Holding => task[w].at \in Holding,
           \A v \in Workers : task'[v].at \in Working \ {"failed"} => row' # "complete",
           jobMishaps' \in 0..MaxJobMishaps, gaveUp' \in BOOLEAN,
           UNCHANGED <<lease, ready, later, send, sends, dropped>>
    PROVE  IInv'
<1>1. task[w] \in Runs \ {Resting} /\ [task[w] EXCEPT !.at = at] \in Runs
  BY RunIsTyped DEF IInv, TypeOK
<1>2. task'[w].at = at /\ task'[w].left = task[w].left
  BY <1>1 DEF IInv, TypeOK, Runs
<1>3. \A v \in Workers \ {w} : task'[v] = task[v]
  BY DEF IInv, TypeOK
<1>4. TypeOK'
  BY <1>1 DEF IInv, TypeOK
<1>5. LeaseOutlives'
  BY <1>2, <1>3 DEF IInv, LeaseOutlives
<1>6. QED BY <1>4, <1>5 DEF IInv, NotYetComplete

\* A step that ends a task, leaving the lease to whoever else has it
LEMMA EndKeepsIInv ==
    ASSUME IInv, NEW w \in Workers, task' = [task EXCEPT ![w] = Resting],
           lease' \in [by: Workers \cup {"none", "lost"}, left: 0..LeaseTicks],
           lease.by # w => lease' = lease,
           ready' \in [Retries -> Nat], later' \in [Retries -> Nat],
           jobMishaps' \in 0..MaxJobMishaps, gaveUp' \in BOOLEAN, dropped' \in BOOLEAN,
           UNCHANGED <<row, send, sends>>
    PROVE  IInv'
<1>1. task'[w] = Resting /\ \A v \in Workers \ {w} : task'[v] = task[v]
  BY DEF IInv, TypeOK
<1>2. TypeOK'
  BY DEF IInv, TypeOK, Runs
<1>3. Resting.at \notin Holding /\ Resting.at \notin Working
  BY DEF Resting, Holding, Working
<1>4. LeaseOutlives'
  <2> SUFFICES ASSUME NEW v \in Workers, task'[v].at \in Holding
               PROVE  lease'.by = v /\ task'[v].left < lease'.left
    BY DEF LeaseOutlives
  <2>1. v # w /\ task'[v] = task[v]
    BY <1>1, <1>3
  <2>2. lease.by = v /\ task[v].left < lease.left
    BY <2>1 DEF IInv, LeaseOutlives
  <2>3. QED BY <2>1, <2>2
<1>5. NotYetComplete'
  BY <1>1, <1>3 DEF IInv, NotYetComplete
<1>6. QED BY <1>2, <1>4, <1>5 DEF IInv

LEMMA TakeLeaseStep ==
    ASSUME IInv, NEW w \in Workers, TakeLease(w)
    PROVE  IInv'
<1>1. task[w] # Resting /\ task[w] \in Runs /\ task[w].left \in 0..HardTicks
  BY RunIsTyped DEF TakeLease, Resting, IInv, TypeOK
<1>2. [task[w] EXCEPT !.at = "leased"] \in Runs
  BY <1>1, RunIsTyped DEF Holding, IInv
<1>3. /\ task' = [task EXCEPT ![w].at = "leased"]
      /\ lease' = [by |-> w, left |-> LeaseTicks] /\ lease.by = "none"
      /\ UNCHANGED <<row, ready, later, send, sends, jobMishaps, gaveUp, dropped>>
  BY DEF TakeLease, Goes, LeaseFree, broker, counters
<1>4. /\ task'[w].at = "leased" /\ task'[w].left = task[w].left
      /\ \A v \in Workers \ {w} : task'[v] = task[v]
  BY <1>1, <1>3 DEF IInv, TypeOK, Runs, Resting
<1>5. TypeOK'
  BY <1>2, <1>3, JobsAssumption DEF IInv, TypeOK
<1>6. \A v \in Workers : task[v].at \notin Holding
  BY <1>3, JobsAssumption DEF IInv, LeaseOutlives
<1>7. LeaseOutlives'
  BY <1>1, <1>3, <1>4, <1>6, JobsAssumption DEF LeaseOutlives
<1>8. NotYetComplete'
  BY <1>3, <1>4 DEF IInv, NotYetComplete, Working
<1>9. QED BY <1>5, <1>7, <1>8 DEF IInv

LEMMA TaskStep ==
    ASSUME IInv, NEW w \in Workers, TaskNext(w)
    PROVE  IInv'
<1>t. TypeOK
  BY DEF IInv
<1>n. NoLease \in [by: Workers \cup {"none", "lost"}, left: 0..LeaseTicks]
  BY JobsAssumption DEF NoLease
<1>h. task[w].at \in Holding => lease.by = w
  BY DEF IInv, LeaseOutlives
<1>i. \A at \in {"start"} \cup Holding : at # Resting.at
  BY DEF Resting, Holding
<1>1. CASE TakeLease(w)
  BY <1>1, TakeLeaseStep
<1>2. CASE LeaseHeld(w)
  <2>1. task[w] # Resting
    BY <1>2, <1>i DEF LeaseHeld
  <2>2. task[w].retries \in Retries
    BY <1>t, <2>1, RunIsTyped
  <2>3. later' \in [Retries -> Nat]
    <3>1. CASE ~Workflow /\ task[w].retries < MaxRetries
      <4>1. task[w].retries + 1 \in Retries
        BY <2>2, <3>1, JobsAssumption DEF Retries
      <4>2. later' = [later EXCEPT ![task[w].retries + 1] = @ + 1]
        BY <1>2, <3>1 DEF LeaseHeld
      <4>3. QED BY <1>t, <4>1, <4>2 DEF TypeOK
    <3>2. CASE ~(~Workflow /\ task[w].retries < MaxRetries)
      BY <1>t, <1>2, <3>2 DEF LeaseHeld, TypeOK
    <3>3. QED BY <3>1, <3>2
  <2>4. dropped' \in BOOLEAN
    BY <1>2, <1>t, JobsAssumption DEF LeaseHeld, TypeOK
  <2>5. QED BY <1>t, <1>2, <2>3, <2>4, EndKeepsIInv DEF LeaseHeld, TaskEnds, TypeOK, counters
<1>3. CASE ReadRow(w)
  <2>1. task[w] # Resting /\ task[w].at \in Holding
    BY <1>3, <1>i DEF ReadRow, Holding
  <2>2. PICK at \in {"drop", "claim"} :
          task' = [task EXCEPT ![w].at = at] /\ (at = "claim" => row # "complete")
    BY <1>3 DEF ReadRow, Goes, JobSettled
  <2>3. UNCHANGED <<row, lease, ready, later, send, sends, jobMishaps, gaveUp, dropped>>
    BY <1>3 DEF ReadRow, broker, counters
  <2>4. at \in Holding
    BY <2>2 DEF Holding
  <2>5. \A v \in Workers : task'[v].at \in Working \ {"failed"} => row' # "complete"
    <3>1. task'[w].at = at
      BY <1>t, <2>1, <2>2 DEF TypeOK, Runs
    <3>2. \A v \in Workers \ {w} : task'[v] = task[v]
      BY <1>t, <2>2 DEF TypeOK
    <3>3. QED BY <2>2, <2>3, <3>1, <3>2 DEF IInv, NotYetComplete, Working
  <2>6. QED BY <1>t, <2>1, <2>2, <2>3, <2>4, <2>5, MoveKeepsIInv DEF TypeOK
<1>4. CASE Drop(w)
  <2>1. task[w].at \in Holding
    BY <1>4 DEF Drop, Holding
  <2>2. QED
    BY <1>t, <1>n, <1>h, <1>4, <2>1, EndKeepsIInv DEF Drop, TaskEnds, TypeOK, broker, counters
<1>5. CASE Claim(w)
  <2>1. task[w] # Resting /\ task[w].at \in Holding /\ "work" \in Holding
    BY <1>5, <1>i DEF Claim, Holding
  <2>2. QED
    BY <1>t, <1>5, <2>1, MoveKeepsIInv DEF TypeOK, Claim, Goes, RowStates, broker, counters
<1>6. CASE Work(w)
  <2>1. task[w] # Resting /\ task[w].at \in Holding /\ task[w].at \in Working
    BY <1>6, <1>i DEF Work, Holding, Working
  <2>2. UNCHANGED <<lease, ready, later, send, sends, jobMishaps, gaveUp, dropped>>
    BY <1>6 DEF Work, broker, counters
  <2>3. CASE row' = "running" /\ task[w].slice < Slices /\ task' = [task EXCEPT ![w].slice = @ + 1]
    <3>1. task[w] \in Runs \ {Resting} /\ task[w].slice + 1 \in 0..Slices
      BY <1>t, <2>1, <2>3, RunIsTyped, JobsAssumption DEF TypeOK
    <3>2. [task[w] EXCEPT !.slice = @ + 1] \in Runs
      BY <3>1 DEF Runs
    <3>3. /\ task'[w].at = task[w].at /\ task'[w].left = task[w].left
          /\ \A v \in Workers \ {w} : task'[v] = task[v]
      BY <1>t, <2>3, <3>1 DEF TypeOK, Runs
    <3>4. TypeOK'
      BY <1>t, <2>2, <2>3, <3>2 DEF TypeOK, RowStates
    <3>5. LeaseOutlives'
      BY <2>2, <3>3 DEF IInv, LeaseOutlives
    <3>6. QED BY <2>3, <3>4, <3>5 DEF IInv, NotYetComplete
  <2>4. CASE UNCHANGED row /\ \E at \in {"complete", "failed"} : Goes(w, at)
    <3>1. PICK at \in {"complete", "failed"} : task' = [task EXCEPT ![w].at = at]
      BY <2>4 DEF Goes
    <3>2. at \in Holding /\ row # "complete"
      BY <1>6, <3>1 DEF Work, Working, Holding, IInv, NotYetComplete
    <3>3. QED BY <1>t, <2>1, <2>2, <2>4, <3>1, <3>2, MoveKeepsIInv DEF TypeOK
  <2>5. QED BY <1>6, <2>3, <2>4 DEF Work
<1>7. CASE SaveAnswer(w)
  <2>1. task[w] # Resting /\ task[w].at \in Holding /\ task[w].at \in Working /\ "release" \in Holding
    BY <1>7, <1>i DEF SaveAnswer, Holding, Working
  <2>2. \A v \in Workers : task'[v].at \notin Working
    <3>1. task'[w].at = "release"
      BY <1>t, <1>7, <2>1 DEF SaveAnswer, Goes, TypeOK, Runs
    <3>2. \A v \in Workers \ {w} : task'[v] = task[v] /\ task[v].at \notin Working
      BY <1>t, <1>7, <2>1, OneHolder DEF SaveAnswer, Goes, TypeOK, Working, Holding
    <3>3. QED BY <3>1, <3>2 DEF Working
  <2>3. row' \in RowStates
    BY <1>7 DEF SaveAnswer, RowStates
  <2>4. QED
    BY <1>t, <1>7, <2>1, <2>2, <2>3, MoveKeepsIInv DEF TypeOK, SaveAnswer, Goes, broker, counters
<1>8. CASE Release(w)
  <2>1. task[w].at \in Holding
    BY <1>8 DEF Release, Holding
  <2>2. QED
    BY <1>t, <1>n, <1>h, <1>8, <2>1, EndKeepsIInv DEF Release, TaskEnds, TypeOK, broker, counters
<1>9. QED
  BY <1>1, <1>2, <1>3, <1>4, <1>5, <1>6, <1>7, <1>8 DEF TaskNext

LEMMA RaisesStep ==
    ASSUME IInv, NEW w \in Workers, Raises(w)
    PROVE  IInv'
<1>t. TypeOK
  BY DEF IInv
<1>1. task[w] # Resting /\ task[w] \in Runs
  BY <1>t DEF Raises, TypeOK
<1>2. jobMishaps' \in 0..MaxJobMishaps
  BY <1>t, JobsAssumption DEF Raises, TypeOK
<1>3. UNCHANGED <<ready, later, send, sends, dropped>>
  BY DEF Raises, broker
<1>4. gaveUp' \in BOOLEAN
  BY <1>t DEF Raises, TypeOK
<1>5. CASE task[w].at \in Working
  <2>1. PICK at \in {"release", "failed"} :
          task' = [task EXCEPT ![w].at = at]
    BY <1>5 DEF Raises, Goes
  <2>2. at \in Holding /\ task[w].at \in Holding
    BY <1>5, <2>1 DEF Working, Holding
  <2>3. lease' = lease /\ row' \in RowStates
    BY <1>t, <1>5 DEF Raises, Written, Working, TypeOK, RowStates
  <2>4. \A v \in Workers : task'[v].at \notin Working \ {"failed"}
    <3>1. task'[w].at = at
      BY <1>t, <1>1, <2>1 DEF TypeOK, Runs, Resting
    <3>2. \A v \in Workers \ {w} : task'[v] = task[v] /\ task[v].at \notin Working
      BY <1>t, <2>1, <2>2, OneHolder DEF TypeOK, Working, Holding
    <3>3. QED BY <2>1, <3>1, <3>2 DEF Working
  <2>5. QED BY <1>1, <1>2, <1>3, <1>4, <2>1, <2>2, <2>3, <2>4, MoveKeepsIInv
<1>6. CASE task[w].at \notin Working
  <2>1. task' = [task EXCEPT ![w] = Resting] /\ row' = row
    BY <1>6 DEF Raises, TaskEnds
  <2>2. CASE LoseLease(w)
    <3>1. /\ lease' \in [by: Workers \cup {"none", "lost"}, left: 0..LeaseTicks]
          /\ lease.by # w => lease' = lease
      BY <1>t, <2>2 DEF LoseLease, TypeOK
    <3>2. QED BY <1>t, <1>2, <1>3, <1>4, <2>1, <3>1, EndKeepsIInv DEF TypeOK
  <2>3. CASE LeaseFree /\ lease' = [by |-> "lost", left |-> LeaseTicks]
    <3>1. lease' \in [by: Workers \cup {"none", "lost"}, left: 0..LeaseTicks]
      BY <2>3, JobsAssumption
    <3>2. \A v \in Workers : task[v].at \notin Holding
      BY <2>3, JobsAssumption DEF IInv, LeaseOutlives, LeaseFree
    <3>3. \A v \in Workers : task'[v].at \notin Holding /\ task'[v].at \notin Working
      BY <1>t, <2>1, <3>2 DEF TypeOK, Resting, Holding, Working
    <3>4. task' \in [Workers -> Runs]
      BY <1>t, <2>1 DEF TypeOK, Runs
    <3>5. TypeOK'
      BY <1>t, <1>2, <1>3, <1>4, <2>1, <3>1, <3>4 DEF TypeOK
    <3>6. QED BY <3>3, <3>5 DEF IInv, LeaseOutlives, NotYetComplete
  <2>4. QED BY <1>6, <2>2, <2>3 DEF Raises
<1>7. QED BY <1>5, <1>6

LEMMA MishapStep ==
    ASSUME IInv, NEW w \in Workers, Befalls(w)
    PROVE  IInv'
<1>t. TypeOK
  BY DEF IInv
<1>1. task[w] # Resting
  BY DEF Befalls, LoseWorker, Overrun, Redeliver, Raises
<1>2. task[w].retries \in Retries /\ task[w] \in Runs \ {Resting}
  BY <1>t, <1>1, RunIsTyped DEF TypeOK
<1>3. ASSUME LoseLease(w)
      PROVE  /\ lease' \in [by: Workers \cup {"none", "lost"}, left: 0..LeaseTicks]
             /\ lease.by # w => lease' = lease
  BY <1>t, <1>3 DEF LoseLease, TypeOK
<1>4. CASE LoseWorker(w)
  <2>1. ready' \in [Retries -> Nat] /\ jobMishaps' \in 0..MaxJobMishaps
    BY <1>t, <1>2, <1>4, JobsAssumption DEF LoseWorker, TypeOK
  <2>2. QED BY <1>t, <1>3, <1>4, <2>1, EndKeepsIInv DEF LoseWorker, TaskEnds, TypeOK
<1>5. CASE Overrun(w)
  BY <1>t, <1>3, <1>5, EndKeepsIInv DEF Overrun, TaskEnds, TypeOK, broker
<1>6. CASE Redeliver(w)
  <2>1. ready' \in [Retries -> Nat] /\ jobMishaps' \in 0..MaxJobMishaps
    BY <1>t, <1>2, <1>6, JobsAssumption DEF Redeliver, TypeOK
  <2>2. [task[w] EXCEPT !.owns = FALSE] \in Runs
    BY <1>2 DEF Runs
  <2>3. /\ task'[w].at = task[w].at /\ task'[w].left = task[w].left
        /\ \A v \in Workers \ {w} : task'[v] = task[v]
    BY <1>t, <1>2, <1>6 DEF Redeliver, TypeOK, Runs
  <2>4. TypeOK'
    BY <1>t, <1>6, <2>1, <2>2 DEF Redeliver, TypeOK
  <2>5. QED BY <1>6, <2>3, <2>4 DEF Redeliver, IInv, LeaseOutlives, NotYetComplete
<1>7. CASE Raises(w)
  BY <1>7, RaisesStep
<1>8. QED BY <1>4, <1>5, <1>6, <1>7 DEF Befalls

-----------------------------------------------------------------------------
(* The theorems *)

LEMMA ReviewJobsNextInv == IInv /\ [Next]_vars => IInv'
<1> SUFFICES ASSUME IInv, [Next]_vars PROVE IInv'
  OBVIOUS
<1>1. CASE UNCHANGED vars
  BY <1>1 DEF vars, broker, IInv, TypeOK, LeaseOutlives, NotYetComplete
<1>2. QED
  BY <1>1, ClientStep, DeliverStep, TaskStep, MishapStep, ExpireStep, TickStep
  DEF Next, Delivery

\* The lease of a worker at work is its own and outlives the task.
THEOREM ReviewJobsInvariance == Spec => []IInv
BY ReviewJobsInitInv, ReviewJobsNextInv, PTL DEF Spec

\* No two workers run one review at once, whatever messages come back.
THEOREM RunsAlone == Spec => []OneAtWork
<1>1. IInv => OneAtWork
  BY OneHolder DEF OneAtWork, Working, Holding
<1>2. QED BY <1>1, ReviewJobsInvariance, PTL

\* No step turns a complete job into a running one, and none into a failed one
\* but the save of the run that completed it.
THEOREM ReviewsStayComplete == Spec => CompleteStays
<1> DEFINE Step == row = "complete" =>
                     \/ row' \in {"complete", "absent"}
                     \/ row' = "failed" /\ \E w \in Workers : task[w].at = "failed"
<1>1. IInv /\ [Next]_vars => [Step]_vars
  <2> SUFFICES ASSUME IInv, Next, row = "complete"
               PROVE  Step
    OBVIOUS
  <2>1. \A w \in Workers : task[w].at \notin Working \ {"failed"}
    BY DEF IInv, NotYetComplete
  <2>2. \A w \in Workers : ~Claim(w) /\ ~Work(w) /\ (SaveAnswer(w) => Step)
    BY <2>1 DEF Claim, Work, SaveAnswer, Working
  <2>3. \A w \in Workers : Raises(w) => Step
    BY <2>1 DEF Raises, Written, Working
  <2>4. QED
    BY <2>2, <2>3
    DEF Next, ClientNext, Submit, Send, Undo, ClientFails, Delivery, Deliver, TaskNext, TakeLease,
        LeaseHeld, ReadRow, Drop, Release, Befalls, LoseWorker, Overrun, Redeliver, Expire, Tick
<1>2. QED BY <1>1, ReviewJobsInvariance, PTL DEF Spec, CompleteStays

-----------------------------------------------------------------------------
(* An undisturbed job, and the lease of a lost worker *)

NoMessages == \A r \in Retries : ready[r] = 0 /\ later[r] = 0
NoTask == \A w \in Workers : task[w] = Resting
NoSender == \A c \in Clients : send[c] = "idle"

\* The four places a job is in, in turn, as long as nothing befalls it.
AtRest ==
    /\ NoSender /\ NoMessages /\ NoTask
    /\ lease.by = "none" /\ row \in {"absent", "complete", "failed"}
BeingSent ==
    /\ \E c \in Clients : send[c] # "idle" /\ \A d \in Clients \ {c} : send[d] = "idle"
    /\ NoMessages /\ NoTask
    /\ lease.by = "none" /\ row = "queued"
InTheQueue ==
    /\ NoSender /\ NoTask
    /\ ready[0] = 1 /\ later[0] = 0
    /\ \A r \in Retries \ {0} : ready[r] = 0 /\ later[r] = 0
    /\ lease.by = "none" /\ row = "queued"
RowWhile(at) ==
    /\ at \in {"start", "leased", "claim"} => row = "queued"
    /\ at \in {"work", "complete", "failed"} => row = "running"
    /\ at = "release" => row \in {"complete", "failed"}
    /\ at # "drop"
AtWorkOnIt(w) ==
    /\ NoSender /\ NoMessages
    /\ \A v \in Workers \ {w} : task[v] = Resting
    /\ task[w] # Resting /\ task[w].retries = 0 /\ task[w].owns
    /\ lease.by = IF task[w].at = "start" THEN "none" ELSE w
    /\ RowWhile(task[w].at)

\* Until a worker or a client is lost there is one sender, one message or one
\* task, and that task is its message's first.
Undisturbed ==
    (jobMishaps = 0 /\ ~gaveUp) =>
        \/ AtRest \/ BeingSent \/ InTheQueue
        \/ \E w \in Workers : AtWorkOnIt(w)

\* A lease that stands has time left, and is that of a task that holds it or of
\* one that was lost.
LeaseStands ==
    /\ lease.by # "none" => lease.left > 0
    /\ lease.by = "lost" => (jobMishaps > 0 \/ gaveUp)
    /\ \A w \in Workers : lease.by = w => task[w].at \in Holding

\* The workflow drops a message with no one at work on its job only after a
\* worker was lost.
DropsOnlyAfterALoss == (jobMishaps = 0 /\ ~gaveUp) => DroppedOnlyIfAtWork

\* A message with this many retries outlasts the lease.
InTime(r, limit) == lease.by = "none" \/ r + lease.left <= limit

BySender == \E c \in Clients : send[c] # "idle"
ByTask == \E w \in Workers : task[w].at \in {"leased"} \cup Working
Started(r) == \E w \in Workers : task[w].at = "start" /\ task[w].retries = r
ByMessage ==
    \E r \in Retries :
        \/ (ready[r] > 0 \/ Started(r)) /\ InTime(r, MaxRetries)
        \/ later[r] > 0 /\ InTime(r, MaxRetries + 1)

\* No review waits for nobody: while a job is queued or running, not given up
\* and disturbed at most once, a client is about to send its message, a task
\* that holds the lease is at work on it, or one of its messages has retries
\* enough left to outlast the lease.
SomebodyIsOnIt ==
    (row \in {"queued", "running"} /\ ~gaveUp /\ jobMishaps <= 1) =>
        BySender \/ ByTask \/ ByMessage

JobGoesOn == IInv /\ Undisturbed /\ LeaseStands /\ DropsOnlyAfterALoss

LEMMA JobGoesOnAtFirst == Init => JobGoesOn /\ SomebodyIsOnIt
<1> SUFFICES ASSUME Init PROVE JobGoesOn /\ SomebodyIsOnIt
  OBVIOUS
<1>1. AtRest
  BY DEF Init, AtRest, NoSender, NoMessages, NoTask, NoLease
<1>2. LeaseStands
  BY JobsAssumption DEF Init, LeaseStands, NoLease
<1>3. QED
  BY <1>1, <1>2, ReviewJobsInitInv
  DEF Init, JobGoesOn, Undisturbed, DropsOnlyAfterALoss, DroppedOnlyIfAtWork, SomebodyIsOnIt

\* No step takes a mishap back.
LEMMA MishapsStay ==
    ASSUME TypeOK, Next
    PROVE  /\ jobMishaps' = 0 => jobMishaps = 0
           /\ jobMishaps' <= 1 => jobMishaps <= 1
           /\ ~gaveUp' => ~gaveUp
<1>1. jobMishaps \in Nat /\ gaveUp \in BOOLEAN
  BY JobsAssumption DEF TypeOK
<1>2. QED
  BY <1>1
  DEF Next, ClientNext, Submit, Send, Undo, ClientFails, Delivery, Deliver, TaskNext, TakeLease,
      LeaseHeld, ReadRow, Drop, Claim, Work, SaveAnswer, Release, Befalls, LoseWorker, Overrun, Redeliver,
      Raises, Expire, Tick, counters
\* While the job is undisturbed, none of the steps that disturb it is taken.
LEMMA NothingBefalls ==
    ASSUME TypeOK, Next, jobMishaps' = 0, ~gaveUp'
    PROVE  \/ \E c \in Clients : Submit(c) \/ Send(c) \/ Undo(c)
           \/ Delivery
           \/ \E w \in Workers : TaskNext(w)
           \/ Expire \/ Tick
<1>1. jobMishaps \in Nat
  BY JobsAssumption DEF TypeOK
<1>2. \A c \in Clients : ~ClientFails(c)
  BY DEF ClientFails
<1>3. \A w \in Workers : ~Befalls(w)
  BY <1>1 DEF Befalls, LoseWorker, Overrun, Redeliver, Raises
<1>4. QED BY <1>2, <1>3 DEF Next, ClientNext

LEMMA RestStep ==
    ASSUME TypeOK, AtRest, Next, jobMishaps' = 0, ~gaveUp'
    PROVE  AtRest' \/ BeingSent'
<1>1. \A c \in Clients : ~Send(c) /\ ~Undo(c)
  BY DEF AtRest, NoSender, Send, Undo
<1>2. ~Delivery
  BY DEF AtRest, NoMessages, Delivery, Deliver
<1>3. \A w \in Workers : ~TaskNext(w)
  BY DEF AtRest, NoTask, Resting, TaskNext, TakeLease, LeaseHeld, ReadRow, Drop, Claim, Work, SaveAnswer, Release
<1>4. ASSUME NEW c \in Clients, Submit(c)
      PROVE  BeingSent'
  <2>1. /\ row' = "queued" /\ lease' = lease /\ ready' = ready /\ later' = later /\ task' = task
        /\ send' = [send EXCEPT ![c] = "send"]
    BY <1>4 DEF Submit, broker
  <2>2. send'[c] # "idle" /\ \A d \in Clients \ {c} : send'[d] = "idle"
    BY <2>1 DEF AtRest, NoSender, TypeOK
  <2>3. QED BY <2>1, <2>2 DEF AtRest, NoMessages, NoTask, BeingSent
<1>5. ASSUME Expire
      PROVE  AtRest'
  BY <1>5 DEF Expire, broker, AtRest, NoSender, NoMessages, NoTask
<1>6. ASSUME Tick
      PROVE  AtRest'
  <2>1. /\ row' = row /\ send' = send
        /\ \A w \in Workers : task'[w] = Resting
        /\ \A r \in Retries : ready'[r] = ready[r] + later[r] /\ later'[r] = 0
    BY <1>6 DEF Tick, AtRest, NoTask
  <2>2. lease'.by = "none"
    BY <1>6 DEF Tick, AtRest, TypeOK, NoLease
  <2>3. QED BY <2>1, <2>2 DEF AtRest, NoSender, NoMessages, NoTask
<1>7. QED BY <1>1, <1>2, <1>3, <1>4, <1>5, <1>6, NothingBefalls

LEMMA SendingStep ==
    ASSUME TypeOK, BeingSent, Next, jobMishaps' = 0, ~gaveUp'
    PROVE  AtRest' \/ BeingSent' \/ InTheQueue'
<1>1. PICK c \in Clients : send[c] # "idle" /\ \A d \in Clients \ {c} : send[d] = "idle"
  BY DEF BeingSent
<1>2. ~Delivery /\ ~Expire /\ \A d \in Clients : ~Submit(d)
  BY <1>1 DEF BeingSent, NoMessages, Delivery, Deliver, Expire, Submit
<1>3. \A w \in Workers : ~TaskNext(w)
  BY DEF BeingSent, NoTask, Resting, TaskNext, TakeLease, LeaseHeld, ReadRow, Drop, Claim, Work, SaveAnswer, Release
<1>4. ASSUME NEW d \in Clients, Send(d)
      PROVE  BeingSent' \/ InTheQueue'
  <2>1. d = c
    BY <1>1, <1>4 DEF Send
  <2>2. PICK sent \in BOOLEAN, raised \in BOOLEAN :
          /\ sent \/ raised
          /\ jobMishaps' = IF sent /\ raised THEN jobMishaps + 1 ELSE jobMishaps
          /\ ready' = IF sent THEN [ready EXCEPT ![0] = @ + 1] ELSE ready
          /\ send' = [send EXCEPT ![c] = IF raised THEN "undo" ELSE "idle"]
    BY <1>4, <2>1 DEF Send
  <2>3. sent <=> ~raised
    BY <2>2, JobsAssumption DEF TypeOK
  <2>4. UNCHANGED <<row, lease, later, task>>
    BY <1>4 DEF Send
  <2>5. CASE raised
    <3>1. ready' = ready /\ send'[c] = "undo" /\ \A e \in Clients \ {c} : send'[e] = "idle"
      BY <1>1, <2>2, <2>3, <2>5 DEF TypeOK
    <3>2. QED BY <2>4, <3>1 DEF BeingSent, NoMessages, NoTask
  <2>6. CASE ~raised
    <3>1. ready' = [ready EXCEPT ![0] = @ + 1] /\ \A e \in Clients : send'[e] = "idle"
      BY <1>1, <2>2, <2>3, <2>6 DEF TypeOK
    <3>2. 0 \in Retries
      BY JobsAssumption DEF Retries
    <3>3. ready'[0] = 1 /\ \A r \in Retries \ {0} : ready'[r] = 0
      BY <3>1, <3>2 DEF BeingSent, NoMessages, TypeOK
    <3>4. QED BY <2>4, <3>1, <3>2, <3>3 DEF BeingSent, NoMessages, NoTask, NoSender, InTheQueue
  <2>7. QED BY <2>5, <2>6
<1>5. ASSUME NEW d \in Clients, Undo(d)
      PROVE  AtRest'
  <2>1. d = c
    BY <1>1, <1>5 DEF Undo
  <2>2. /\ row' = "absent" /\ UNCHANGED <<lease, ready, later, task>>
        /\ \A e \in Clients : send'[e] = "idle"
    BY <1>1, <1>5, <2>1 DEF Undo, broker, TypeOK
  <2>3. QED BY <2>2 DEF AtRest, BeingSent, NoSender, NoMessages, NoTask
<1>6. ASSUME Tick
      PROVE  BeingSent'
  <2>1. /\ row' = row /\ send' = send
        /\ \A w \in Workers : task'[w] = Resting
        /\ \A r \in Retries : ready'[r] = ready[r] + later[r] /\ later'[r] = 0
    BY <1>6 DEF Tick, BeingSent, NoTask
  <2>2. lease'.by = "none"
    BY <1>6 DEF Tick, BeingSent, TypeOK, NoLease
  <2>3. QED BY <1>1, <2>1, <2>2 DEF BeingSent, NoMessages, NoTask
<1>7. QED BY <1>2, <1>3, <1>4, <1>5, <1>6, NothingBefalls

LEMMA QueuedStep ==
    ASSUME TypeOK, InTheQueue, Next, jobMishaps' = 0, ~gaveUp'
    PROVE  InTheQueue' \/ \E w \in Workers : AtWorkOnIt(w)'
<1>1. \A c \in Clients : ~Send(c) /\ ~Undo(c) /\ ~Submit(c)
  BY DEF InTheQueue, NoSender, Send, Undo, Submit
<1>2. ~Expire
  BY JobsAssumption DEF InTheQueue, Expire, TypeOK
<1>3. \A w \in Workers : ~TaskNext(w)
  BY DEF InTheQueue, NoTask, Resting, TaskNext, TakeLease, LeaseHeld, ReadRow, Drop, Claim, Work, SaveAnswer, Release
<1>z. 0 \in Retries
  BY JobsAssumption DEF Retries
<1>4. ASSUME NEW w \in Workers, NEW r \in Retries, Deliver(w, r)
      PROVE  AtWorkOnIt(w)'
  <2>1. r = 0
    BY <1>4 DEF InTheQueue, Deliver
  <2>2. /\ ready' = [ready EXCEPT ![0] = @ - 1]
        /\ UNCHANGED <<row, lease, later, send>>
    BY <1>4, <2>1 DEF Deliver
  <2>3. \A q \in Retries : ready'[q] = 0 /\ later'[q] = 0
    BY <1>z, <2>2 DEF InTheQueue, TypeOK
  <2>4. task'[w] = [at |-> "start", retries |-> 0, owns |-> TRUE, left |-> HardTicks, slice |-> 0]
    BY <1>4, <2>1 DEF Deliver, TypeOK
  <2>5. task'[w].at = "start" /\ task'[w].retries = 0 /\ task'[w].owns /\ task'[w] # Resting
    BY <2>4 DEF Resting
  <2>6. \A v \in Workers \ {w} : task'[v] = Resting
    BY <1>4 DEF Deliver, TypeOK, InTheQueue, NoTask
  <2>7. QED
    BY <2>2, <2>3, <2>5, <2>6 DEF AtWorkOnIt, InTheQueue, NoMessages, NoSender, RowWhile
<1>5. ASSUME Tick
      PROVE  InTheQueue'
  <2>1. /\ row' = row /\ send' = send
        /\ \A w \in Workers : task'[w] = Resting
        /\ \A r \in Retries : ready'[r] = ready[r] + later[r] /\ later'[r] = 0
    BY <1>5 DEF Tick, InTheQueue, NoTask
  <2>2. lease'.by = "none"
    BY <1>5 DEF Tick, InTheQueue, TypeOK, NoLease
  <2>3. QED BY <1>z, <2>1, <2>2 DEF InTheQueue, NoSender, NoTask
<1>6. QED BY <1>1, <1>2, <1>3, <1>4, <1>5, NothingBefalls DEF Delivery
\* A step of the one task that is at work
LEMMA WorkStep ==
    ASSUME IInv, NEW w \in Workers, AtWorkOnIt(w), Next, jobMishaps' = 0, ~gaveUp'
    PROVE  AtWorkOnIt(w)' \/ AtRest'
<1>t. TypeOK
  BY DEF IInv
<1>r. /\ task[w] # Resting /\ task[w] \in Runs /\ task[w].at \in {"start"} \cup Holding
      /\ task[w].left \in Nat
  BY <1>t, RunIsTyped, JobsAssumption DEF AtWorkOnIt, TypeOK
<1>o. \A v \in Workers : task[v].at # "idle" => v = w
  BY DEF AtWorkOnIt, Resting
<1>1. \A c \in Clients : ~Send(c) /\ ~Undo(c)
  BY DEF AtWorkOnIt, NoSender, Send, Undo
<1>2. ~Delivery
  BY DEF AtWorkOnIt, NoMessages, Delivery, Deliver
<1>3. row # "absent"
  BY <1>r DEF AtWorkOnIt, RowWhile, Holding
<1>4. ~Expire
  <2>1. SUFFICES ASSUME Expire PROVE FALSE
    OBVIOUS
  <2>2. task[w].at \in {"start", "leased"}
    BY <1>r, <2>1 DEF Expire, Working, Holding, AtWorkOnIt, RowWhile
  <2>3. row = "queued"
    BY <2>2 DEF AtWorkOnIt, RowWhile
  <2>4. QED BY <1>t, <2>1, <2>3, JobsAssumption DEF Expire, TypeOK
<1>5. \A c \in Clients : ~Submit(c)
  BY <1>3 DEF Submit
<1>6. ASSUME NEW at \in Holding \ {"drop"}, task' = [task EXCEPT ![w].at = at],
             lease'.by = w, RowWhile(at)',
             UNCHANGED <<ready, later, send>>
      PROVE  AtWorkOnIt(w)'
  <2>1. /\ task'[w].at = at /\ task'[w].retries = task[w].retries /\ task'[w].owns = task[w].owns
        /\ \A v \in Workers \ {w} : task'[v] = task[v]
    BY <1>t, <1>r, <1>6 DEF Runs, TypeOK, AtWorkOnIt, Resting
  <2>2. at # "start" /\ task'[w] # Resting
    BY <2>1 DEF Holding, Resting
  <2>3. NoSender' /\ NoMessages'
    BY <1>6 DEF AtWorkOnIt, NoSender, NoMessages
  <2>4. QED BY <1>6, <2>1, <2>2, <2>3 DEF AtWorkOnIt, RowWhile
<1>7. ASSUME TaskNext(w)
      PROVE  AtWorkOnIt(w)' \/ AtRest'
  <2>1. CASE TakeLease(w)
    <3>1. task[w].at = "start" /\ lease'.by = w /\ task' = [task EXCEPT ![w].at = "leased"]
      BY <2>1 DEF TakeLease, Goes
    <3>2. UNCHANGED <<row, ready, later, send>>
      BY <2>1 DEF TakeLease, broker
    <3>3. RowWhile("leased")'
      BY <3>1, <3>2 DEF AtWorkOnIt, RowWhile
    <3>4. QED BY <1>6, <3>1, <3>2, <3>3 DEF Holding
  <2>2. ~LeaseHeld(w) /\ ~Drop(w)
    BY DEF AtWorkOnIt, RowWhile, LeaseHeld, LeaseFree, Drop
  <2>3. CASE ReadRow(w)
    <3>1. task[w].at = "leased" /\ row = "queued" /\ lease.by = w
      BY <2>3 DEF ReadRow, AtWorkOnIt, RowWhile
    <3>2. task' = [task EXCEPT ![w].at = "claim"] /\ UNCHANGED <<row, lease, ready, later, send>>
      BY <2>3, <3>1 DEF ReadRow, Goes, JobSettled, broker
    <3>3. RowWhile("claim")'
      BY <3>1, <3>2 DEF RowWhile
    <3>4. QED BY <1>6, <3>1, <3>2, <3>3 DEF Holding
  <2>4. CASE Claim(w)
    <3>1. task[w].at = "claim" /\ lease.by = w
      BY <2>4 DEF Claim, AtWorkOnIt
    <3>2. /\ task' = [task EXCEPT ![w].at = "work"] /\ row' = "running"
          /\ UNCHANGED <<lease, ready, later, send>>
      BY <2>4 DEF Claim, Goes, broker
    <3>3. RowWhile("work")'
      BY <3>2 DEF RowWhile
    <3>4. QED BY <1>6, <3>1, <3>2, <3>3 DEF Holding
  <2>5. CASE Work(w)
    <3>1. task[w].at = "work" /\ lease.by = w /\ row = "running"
      BY <2>5 DEF Work, AtWorkOnIt, RowWhile
    <3>2. UNCHANGED <<lease, ready, later, send>>
      BY <2>5 DEF Work, broker
    <3>3. CASE row' = "running" /\ task' = [task EXCEPT ![w].slice = @ + 1]
      <4>1. /\ task'[w].at = "work" /\ task'[w].retries = task[w].retries /\ task'[w].owns = task[w].owns
            /\ \A v \in Workers \ {w} : task'[v] = task[v]
        BY <1>t, <1>r, <3>1, <3>3 DEF Runs, TypeOK, AtWorkOnIt, Resting
      <4>2. task'[w] # Resting
        BY <4>1 DEF Resting
      <4>3. NoSender' /\ NoMessages' /\ RowWhile("work")'
        BY <3>2, <3>3 DEF AtWorkOnIt, NoSender, NoMessages, RowWhile
      <4>4. QED BY <3>1, <3>2, <4>1, <4>2, <4>3 DEF AtWorkOnIt, RowWhile
    <3>4. CASE UNCHANGED row /\ \E at \in {"complete", "failed"} : Goes(w, at)
      <4>1. PICK at \in {"complete", "failed"} : task' = [task EXCEPT ![w].at = at]
        BY <3>4 DEF Goes
      <4>2. RowWhile(at)'
        BY <3>1, <3>4 DEF RowWhile
      <4>3. QED BY <1>6, <3>1, <3>2, <4>1, <4>2 DEF Holding
    <3>5. QED BY <2>5, <3>3, <3>4 DEF Work
  <2>6. CASE SaveAnswer(w)
    <3>1. task[w].at \in {"complete", "failed"} /\ lease.by = w
      BY <2>6 DEF SaveAnswer, AtWorkOnIt
    <3>2. /\ task' = [task EXCEPT ![w].at = "release"] /\ row' = task[w].at
          /\ UNCHANGED <<lease, ready, later, send>>
      BY <2>6 DEF SaveAnswer, Goes, broker
    <3>3. RowWhile("release")'
      BY <3>1, <3>2 DEF RowWhile
    <3>4. QED BY <1>6, <3>1, <3>2, <3>3 DEF Holding
  <2>7. CASE Release(w)
    <3>1. lease.by = w /\ row \in {"complete", "failed"}
      BY <2>7 DEF Release, AtWorkOnIt, RowWhile
    <3>2. lease' = NoLease /\ UNCHANGED <<row, ready, later, send>>
      BY <2>7, <3>1 DEF Release, broker
    <3>3. \A v \in Workers : task'[v] = Resting
      BY <1>t, <2>7 DEF Release, TaskEnds, AtWorkOnIt, TypeOK
    <3>4. QED
      BY <3>1, <3>2, <3>3 DEF AtRest, AtWorkOnIt, NoSender, NoMessages, NoTask, NoLease
  <2>8. QED
    BY <1>7, <2>1, <2>2, <2>3, <2>4, <2>5, <2>6, <2>7 DEF TaskNext
<1>8. ASSUME NEW v \in Workers, TaskNext(v)
      PROVE  v = w
  BY <1>o, <1>8 DEF TaskNext, TakeLease, LeaseHeld, ReadRow, Drop, Claim, Work, SaveAnswer, Release
<1>9. ASSUME Tick
      PROVE  AtWorkOnIt(w)'
  <2>1. /\ row' = row /\ send' = send
        /\ \A v \in Workers \ {w} : task'[v] = Resting
        /\ task'[w] = [task[w] EXCEPT !.left = @ - 1] /\ task[w].left > 0
        /\ \A r \in Retries : ready'[r] = ready[r] + later[r] /\ later'[r] = 0
    BY <1>9 DEF Tick, AtWorkOnIt
  <2>2. task'[w].at = task[w].at /\ task'[w].retries = 0 /\ task'[w].owns /\ task'[w] # Resting
    BY <1>r, <2>1 DEF Runs, AtWorkOnIt, Resting, Holding
  <2>3. lease'.by = lease.by
    <3>1. CASE task[w].at = "start"
      BY <1>t, <1>9, <3>1 DEF Tick, AtWorkOnIt, TypeOK, NoLease
    <3>2. CASE task[w].at \in Holding
      <4>1. task[w].left < lease.left
        BY <3>2 DEF IInv, LeaseOutlives
      <4>2. lease.left > 1 /\ lease' = [lease EXCEPT !.left = @ - 1]
        BY <1>t, <1>r, <1>9, <2>1, <4>1, JobsAssumption DEF Tick, TypeOK
      <4>3. QED BY <1>t, <4>2 DEF TypeOK
    <3>3. QED BY <1>r, <3>1, <3>2
  <2>4. NoMessages' /\ NoSender'
    BY <2>1 DEF AtWorkOnIt, NoMessages, NoSender
  <2>5. QED BY <2>1, <2>2, <2>3, <2>4 DEF AtWorkOnIt, RowWhile
<1>10. QED
  BY <1>t, <1>1, <1>2, <1>4, <1>5, <1>7, <1>8, <1>9, NothingBefalls

LEMMA UndisturbedStep == IInv /\ Undisturbed /\ Next => Undisturbed'
<1> SUFFICES ASSUME IInv, Undisturbed, Next, jobMishaps' = 0, ~gaveUp'
             PROVE  \/ AtRest' \/ BeingSent' \/ InTheQueue'
                    \/ \E w \in Workers : AtWorkOnIt(w)'
  BY DEF Undisturbed
<1>1. jobMishaps = 0 /\ ~gaveUp
  BY MishapsStay DEF IInv
<1>2. CASE AtRest
  BY <1>2, RestStep DEF IInv
<1>3. CASE BeingSent
  BY <1>3, SendingStep DEF IInv
<1>4. CASE InTheQueue
  BY <1>4, QueuedStep DEF IInv
<1>5. ASSUME NEW w \in Workers, AtWorkOnIt(w)
      PROVE  AtWorkOnIt(w)' \/ AtRest'
  BY <1>5, WorkStep
<1>6. QED BY <1>1, <1>2, <1>3, <1>4, <1>5 DEF Undisturbed
\* A step that leaves the lease alone and every task that holds it among those that do
LEMMA LeaseKept ==
    ASSUME LeaseStands, lease' = lease, jobMishaps > 0 => jobMishaps' > 0, gaveUp => gaveUp',
           \A v \in Workers : task[v].at \in Holding => task'[v].at \in Holding
    PROVE  LeaseStands'
BY DEF LeaseStands

\* A step that frees the lease
LEMMA LeaseFreed ==
    ASSUME lease' = NoLease
    PROVE  LeaseStands'
BY JobsAssumption DEF LeaseStands, NoLease

\* A step that ends a task, and takes the lease from it, for a mishap
LEMMA LeaseLost ==
    ASSUME TypeOK, LeaseStands, NEW w \in Workers, LoseLease(w), TaskEnds(w),
           jobMishaps' > 0 \/ gaveUp'
    PROVE  LeaseStands'
<1>1. \A v \in Workers \ {w} : task'[v] = task[v]
  BY DEF TaskEnds, TypeOK
<1>2. CASE lease.by = w
  <2>1. lease'.by = "lost" /\ lease'.left = lease.left
    BY <1>2 DEF LoseLease, TypeOK
  <2>2. QED BY <1>2, <2>1, JobsAssumption DEF LeaseStands
<1>3. CASE lease.by # w
  BY <1>1, <1>3 DEF LoseLease, LeaseStands
<1>4. QED BY <1>2, <1>3

LEMMA LeaseStandsStep == IInv /\ LeaseStands /\ Next => LeaseStands'
<1> SUFFICES ASSUME IInv, LeaseStands, Next PROVE LeaseStands'
  OBVIOUS
<1>t. TypeOK /\ jobMishaps \in Nat
  BY JobsAssumption DEF IInv, TypeOK
<1>i. Resting.at \notin Holding
  BY DEF Resting, Holding
<1>m. (jobMishaps > 0 => jobMishaps' > 0) /\ (gaveUp => gaveUp')
  <2>1. jobMishaps' \in Nat
    <3>1. [Next]_vars
      OBVIOUS
    <3>2. TypeOK'
      BY <3>1, ReviewJobsNextInv DEF IInv
    <3>3. QED BY <3>2, JobsAssumption DEF TypeOK
  <2>2. QED BY <1>t, <2>1, MishapsStay
<1>1. ASSUME NEW c \in Clients, ClientNext(c)
      PROVE  LeaseStands'
  <2>1. lease' = lease /\ task' = task
    BY <1>1 DEF ClientNext, Submit, Send, Undo, ClientFails
  <2>2. QED BY <1>m, <2>1, LeaseKept
<1>2. ASSUME NEW w \in Workers, NEW r \in Retries, Deliver(w, r)
      PROVE  LeaseStands'
  <2>1. lease' = lease /\ \A v \in Workers \ {w} : task'[v] = task[v]
    BY <1>t, <1>2 DEF Deliver, TypeOK
  <2>2. task[w].at \notin Holding
    BY <1>i, <1>2 DEF Deliver
  <2>3. QED BY <1>m, <2>1, <2>2, LeaseKept
<1>3. ASSUME Expire
      PROVE  LeaseStands'
  <2>1. lease' = lease /\ task' = task
    BY <1>3 DEF Expire
  <2>2. QED BY <1>m, <2>1, LeaseKept
<1>4. ASSUME NEW w \in Workers, NEW at \in Holding, task[w] # Resting, lease' = lease, Goes(w, at)
      PROVE  LeaseStands'
  <2>1. task'[w].at = at /\ \A v \in Workers \ {w} : task'[v] = task[v]
    BY <1>t, <1>4 DEF Goes, TypeOK, Runs, Resting
  <2>2. QED BY <1>m, <1>4, <2>1, LeaseKept
<1>5. ASSUME NEW w \in Workers, TaskNext(w)
      PROVE  LeaseStands'
  <2>n. task[w] # Resting
    BY <1>5 DEF TaskNext, TakeLease, LeaseHeld, ReadRow, Drop, Claim, Work, SaveAnswer, Release, Resting
  <2>1. CASE TakeLease(w)
    <3>1. lease'.by = w /\ lease'.left > 0
      BY <2>1, JobsAssumption DEF TakeLease
    <3>2. task'[w].at \in Holding
      BY <1>t, <2>1, <2>n DEF TakeLease, Goes, TypeOK, Runs, Resting, Holding
    <3>3. QED BY <3>1, <3>2, JobsAssumption DEF LeaseStands
  <2>2. CASE LeaseHeld(w)
    <3>1. lease' = lease /\ task[w].at \notin Holding /\ \A v \in Workers \ {w} : task'[v] = task[v]
      BY <1>t, <2>2 DEF LeaseHeld, TaskEnds, TypeOK, Holding
    <3>2. QED BY <1>m, <3>1, LeaseKept
  <2>3. CASE ReadRow(w)
    BY <1>4, <2>3, <2>n DEF ReadRow, Holding
  <2>4. CASE Claim(w)
    BY <1>4, <2>4, <2>n DEF Claim, Holding
  <2>5. CASE Work(w)
    <3>1. lease' = lease
      BY <2>5 DEF Work
    <3>2. CASE task' = [task EXCEPT ![w].slice = @ + 1]
      <4>1. task'[w].at = task[w].at /\ \A v \in Workers \ {w} : task'[v] = task[v]
        BY <1>t, <2>n, <3>2 DEF TypeOK, Runs, Resting
      <4>2. QED BY <1>m, <3>1, <4>1, LeaseKept
    <3>3. CASE \E at \in {"complete", "failed"} : Goes(w, at)
      BY <1>4, <2>n, <3>1, <3>3 DEF Holding
    <3>4. QED BY <2>5, <3>2, <3>3 DEF Work
  <2>6. CASE SaveAnswer(w)
    BY <1>4, <2>6, <2>n DEF SaveAnswer, Holding
  <2>7. CASE Drop(w)
    BY <2>7, LeaseFreed DEF Drop
  <2>8. CASE Release(w)
    <3>1. lease.by = w
      BY <2>8 DEF Release, IInv, LeaseOutlives, Holding
    <3>2. QED BY <2>8, <3>1, LeaseFreed DEF Release
  <2>9. QED
    BY <1>5, <2>1, <2>2, <2>3, <2>4, <2>5, <2>6, <2>7, <2>8 DEF TaskNext
<1>6. ASSUME NEW w \in Workers, Befalls(w)
      PROVE  LeaseStands'
  <2>1. CASE LoseWorker(w)
    <3>1. jobMishaps' > 0 /\ LoseLease(w) /\ TaskEnds(w)
      BY <1>t, <2>1 DEF LoseWorker
    <3>2. QED BY <1>t, <3>1, LeaseLost
  <2>2. CASE Overrun(w)
    BY <1>t, <2>2, LeaseLost DEF Overrun
  <2>3. CASE Redeliver(w)
    <3>1. /\ lease' = lease /\ task[w] # Resting
          /\ task'[w].at = task[w].at /\ \A v \in Workers \ {w} : task'[v] = task[v]
      BY <1>t, <2>3 DEF Redeliver, TypeOK, Runs, Resting
    <3>2. QED BY <1>m, <3>1, LeaseKept
  <2>4. CASE Raises(w)
    <3>1. CASE task[w].at \in Working
      BY <1>4, <2>4, <3>1 DEF Raises, Holding
    <3>2. CASE task[w].at \notin Working
      <4>1. jobMishaps' > 0 /\ TaskEnds(w)
        BY <1>t, <2>4, <3>2 DEF Raises
      <4>2. CASE LoseLease(w)
        BY <1>t, <4>1, <4>2, LeaseLost
      <4>3. CASE lease' = [by |-> "lost", left |-> LeaseTicks]
        BY <4>1, <4>3, JobsAssumption DEF LeaseStands
      <4>4. QED BY <2>4, <3>2, <4>2, <4>3 DEF Raises
    <3>3. QED BY <3>1, <3>2
  <2>5. QED BY <1>6, <2>1, <2>2, <2>3, <2>4 DEF Befalls
<1>7. ASSUME Tick
      PROVE  LeaseStands'
  <2>1. CASE lease.left <= 1
    BY <1>7, <2>1, LeaseFreed DEF Tick
  <2>2. CASE ~(lease.left <= 1)
    <3>1. lease'.by = lease.by /\ lease'.left = lease.left - 1 /\ lease.left \in Nat
      BY <1>t, <1>7, <2>2, JobsAssumption DEF Tick, TypeOK
    <3>2. \A w \in Workers : task'[w].at = task[w].at
      <4> SUFFICES ASSUME NEW w \in Workers PROVE task'[w].at = task[w].at
        OBVIOUS
      <4>1. CASE task[w] = Resting
        BY <1>7, <4>1 DEF Tick
      <4>2. CASE task[w] # Resting
        BY <1>t, <1>7, <4>2 DEF Tick, TypeOK, Runs
      <4>3. QED BY <4>1, <4>2
    <3>3. QED BY <1>m, <2>2, <3>1, <3>2 DEF LeaseStands
  <2>3. QED BY <2>1, <2>2
<1>8. QED
  BY <1>1, <1>2, <1>3, <1>5, <1>6, <1>7 DEF Next, Delivery

LEMMA DropsStep ==
    IInv /\ LeaseStands /\ DropsOnlyAfterALoss /\ Next => DropsOnlyAfterALoss'
<1> SUFFICES ASSUME IInv, LeaseStands, DropsOnlyAfterALoss, Next, jobMishaps' = 0, ~gaveUp'
             PROVE  ~dropped'
  BY DEF DropsOnlyAfterALoss, DroppedOnlyIfAtWork
<1>1. jobMishaps = 0 /\ ~gaveUp /\ ~dropped
  BY MishapsStay DEF IInv, DropsOnlyAfterALoss, DroppedOnlyIfAtWork
<1>2. ASSUME NEW w \in Workers, LeaseHeld(w)
      PROVE  ~dropped'
  <2>1. lease.by \in Workers
    BY <1>1, <1>2 DEF LeaseHeld, LeaseFree, LeaseStands, IInv, TypeOK
  <2>2. task[lease.by].at \in Holding
    BY <2>1 DEF LeaseStands
  <2>3. QED BY <1>1, <1>2, <2>1, <2>2 DEF LeaseHeld
<1>3. QED
  BY <1>1, <1>2
  DEF Next, ClientNext, Submit, Send, Undo, ClientFails, Delivery, Deliver, TaskNext, TakeLease,
      ReadRow, Drop, Claim, Work, SaveAnswer, Release, Befalls, LoseWorker, Overrun, Redeliver,
      Raises, Expire, Tick, counters

LEMMA JobGoesOnStep == JobGoesOn /\ [Next]_vars => JobGoesOn'
<1> SUFFICES ASSUME JobGoesOn, [Next]_vars PROVE JobGoesOn'
  OBVIOUS
<1>1. IInv'
  BY ReviewJobsNextInv DEF JobGoesOn
<1>2. CASE UNCHANGED vars
  BY <1>1, <1>2
  DEF vars, broker, JobGoesOn, Undisturbed, AtRest, BeingSent, InTheQueue, AtWorkOnIt, NoSender,
      NoMessages, NoTask, RowWhile, LeaseStands, DropsOnlyAfterALoss, DroppedOnlyIfAtWork
<1>3. CASE Next
  BY <1>1, <1>3, UndisturbedStep, LeaseStandsStep, DropsStep DEF JobGoesOn
<1>4. QED BY <1>2, <1>3
\* A message that has not been tried yet outlasts any lease.
LEMMA FreshIsInTime ==
    ASSUME TypeOK
    PROVE  0 \in Retries /\ InTime(0, MaxRetries)
BY JobsAssumption DEF TypeOK, InTime, Retries

\* Senders, tasks and messages stay what they are under a step that moves no
\* task away and leaves the lease no longer than it was.
LEMMA StillOnIt ==
    ASSUME BySender \/ ByTask \/ ByMessage,
           \A c \in Clients : send[c] # "idle" => send'[c] # "idle",
           \A w \in Workers :
               task[w].at \in {"start", "leased"} \cup Working =>
                   task'[w].at = task[w].at /\ task'[w].retries = task[w].retries,
           \A r \in Retries : ready[r] > 0 => ready'[r] > 0,
           \A r \in Retries : later[r] > 0 => later'[r] > 0,
           lease'.by = "none" \/ (lease.by # "none" /\ lease'.left = lease.left)
    PROVE  BySender' \/ ByTask' \/ ByMessage'
<1>1. CASE BySender
  BY <1>1 DEF BySender
<1>2. CASE ByTask
  BY <1>2 DEF ByTask
<1>3. CASE ByMessage
  <2>1. PICK r \in Retries :
          \/ (ready[r] > 0 \/ Started(r)) /\ InTime(r, MaxRetries)
          \/ later[r] > 0 /\ InTime(r, MaxRetries + 1)
    BY <1>3 DEF ByMessage
  <2>2. Started(r) => Started(r)'
    BY DEF Started
  <2>3. /\ InTime(r, MaxRetries) => InTime(r, MaxRetries)'
        /\ InTime(r, MaxRetries + 1) => InTime(r, MaxRetries + 1)'
    BY DEF InTime
  <2>4. QED BY <2>1, <2>2, <2>3 DEF ByMessage
<1>4. QED BY <1>1, <1>2, <1>3

LEMMA SomebodyStep == JobGoesOn /\ SomebodyIsOnIt /\ ~Workflow /\ Next => SomebodyIsOnIt'
<1> SUFFICES ASSUME JobGoesOn, SomebodyIsOnIt, ~Workflow, Next,
                    row' \in {"queued", "running"}, ~gaveUp', jobMishaps' <= 1
             PROVE  BySender' \/ ByTask' \/ ByMessage'
  BY DEF SomebodyIsOnIt
<1>t. IInv /\ TypeOK /\ LeaseStands /\ Undisturbed
  BY DEF JobGoesOn, IInv
<1>m. ~gaveUp /\ jobMishaps <= 1 /\ jobMishaps \in Nat
  BY <1>t, MishapsStay, JobsAssumption DEF TypeOK
<1>o. row \in {"queued", "running"} => BySender \/ ByTask \/ ByMessage
  BY <1>m DEF SomebodyIsOnIt
<1>1. ASSUME NEW c \in Clients, ClientNext(c)
      PROVE  BySender' \/ ByTask' \/ ByMessage'
  <2>1. CASE Submit(c)
    BY <1>t, <2>1 DEF Submit, TypeOK, BySender
  <2>2. CASE Send(c)
    <3>1. PICK sent \in BOOLEAN, raised \in BOOLEAN :
            /\ sent \/ raised
            /\ ready' = IF sent THEN [ready EXCEPT ![0] = @ + 1] ELSE ready
            /\ send' = [send EXCEPT ![c] = IF raised THEN "undo" ELSE "idle"]
      BY <2>2 DEF Send
    <3>2. CASE raised
      BY <1>t, <3>1, <3>2 DEF TypeOK, BySender
    <3>3. CASE ~raised
      <4>1. ready'[0] > 0 /\ lease' = lease
        BY <1>t, <2>2, <3>1, <3>3, FreshIsInTime DEF TypeOK, Send
      <4>2. InTime(0, MaxRetries)'
        BY <1>t, <4>1, FreshIsInTime DEF InTime
      <4>3. QED BY <1>t, <4>1, <4>2, FreshIsInTime DEF ByMessage
    <3>4. QED BY <3>2, <3>3
  <2>3. ~Undo(c) /\ ~ClientFails(c)
    BY DEF Undo, ClientFails
  <2>4. QED BY <1>1, <2>1, <2>2, <2>3 DEF ClientNext
<1>2. ASSUME NEW w \in Workers, NEW r \in Retries, Deliver(w, r)
      PROVE  BySender' \/ ByTask' \/ ByMessage'
  <2>1. /\ row' = row /\ send' = send /\ lease' = lease /\ later' = later
        /\ \A q \in Retries \ {r} : ready'[q] = ready[q]
        /\ task[w] = Resting /\ \A v \in Workers \ {w} : task'[v] = task[v]
    BY <1>t, <1>2 DEF Deliver, TypeOK
  <2>2. task'[w].at = "start" /\ task'[w].retries = r
    BY <1>t, <1>2 DEF Deliver, TypeOK
  <2>3. task[w].at = "idle"
    BY <2>1 DEF Resting
  <2>4. CASE BySender
    BY <2>1, <2>4 DEF BySender
  <2>5. CASE ByTask
    BY <2>1, <2>3, <2>5 DEF ByTask, Working
  <2>6. CASE ByMessage
    <3>1. PICK q \in Retries :
            \/ (ready[q] > 0 \/ Started(q)) /\ InTime(q, MaxRetries)
            \/ later[q] > 0 /\ InTime(q, MaxRetries + 1)
      BY <2>6 DEF ByMessage
    <3>2. /\ InTime(q, MaxRetries) => InTime(q, MaxRetries)'
          /\ InTime(q, MaxRetries + 1) => InTime(q, MaxRetries + 1)'
      BY <2>1 DEF InTime
    <3>3. Started(q) \/ q = r => Started(q)'
      BY <2>1, <2>2, <2>3 DEF Started
    <3>4. ready[q] > 0 => ready'[q] > 0 \/ Started(q)'
      BY <2>1, <3>3
    <3>5. QED BY <2>1, <3>1, <3>2, <3>3, <3>4 DEF ByMessage
  <2>7. QED BY <1>o, <2>1, <2>4, <2>5, <2>6
<1>3. ~Expire
  BY DEF Expire
<1>4. ASSUME NEW w \in Workers, NEW at \in {"leased"} \cup Working, task[w] # Resting, Goes(w, at)
      PROVE  ByTask'
  BY <1>t, <1>4 DEF Goes, TypeOK, Runs, Resting, ByTask
<1>5. ASSUME NEW w \in Workers, task[w].at \in {"drop", "release"}, TaskEnds(w),
             lease' = lease \/ lease' = NoLease,
             UNCHANGED <<row, ready, later, send>>
      PROVE  BySender' \/ ByTask' \/ ByMessage'
  <2>1. \A v \in Workers \ {w} : task'[v] = task[v]
    BY <1>t, <1>5 DEF TaskEnds, TypeOK
  <2>2. lease'.by = "none" \/ (lease.by # "none" /\ lease'.left = lease.left)
    BY <1>5 DEF NoLease
  <2>3. \A v \in Workers :
            task[v].at \in {"start", "leased"} \cup Working =>
                task'[v].at = task[v].at /\ task'[v].retries = task[v].retries
    BY <1>5, <2>1 DEF Working
  <2>4. QED BY <1>o, <1>5, <2>2, <2>3, StillOnIt
<1>6. ASSUME NEW w \in Workers, TaskNext(w)
      PROVE  BySender' \/ ByTask' \/ ByMessage'
  <2>n. task[w] # Resting
    BY <1>6 DEF TaskNext, TakeLease, LeaseHeld, ReadRow, Drop, Claim, Work, SaveAnswer, Release, Resting
  <2>1. CASE TakeLease(w)
    BY <1>4, <2>1, <2>n DEF TakeLease
  <2>2. CASE LeaseHeld(w)
    <3>1. /\ row' = row /\ send' = send /\ lease' = lease /\ ready' = ready
          /\ task[w].at = "start" /\ lease.by # "none"
          /\ \A v \in Workers \ {w} : task'[v] = task[v]
      BY <1>t, <2>2 DEF LeaseHeld, LeaseFree, TaskEnds, TypeOK
    <3>2. lease.left \in Nat /\ lease.left > 0
      BY <1>t, <3>1, JobsAssumption DEF LeaseStands, TypeOK
    <3>3. task[w].retries \in Retries
      BY <1>t, <2>n, RunIsTyped
    <3>4. \A q \in Retries : later'[q] >= later[q]
      <4>1. CASE task[w].retries < MaxRetries
        <5>1. later' = [later EXCEPT ![task[w].retries + 1] = @ + 1]
          BY <2>2, <4>1 DEF LeaseHeld
        <5>2. QED BY <1>t, <5>1 DEF TypeOK
      <4>2. CASE ~(task[w].retries < MaxRetries)
        BY <1>t, <2>2, <4>2 DEF LeaseHeld, TypeOK
      <4>3. QED BY <4>1, <4>2
    <3>5. CASE BySender
      BY <3>1, <3>5 DEF BySender
    <3>6. CASE ByTask
      BY <3>1, <3>6 DEF ByTask, Working
    <3>7. CASE ByMessage
      <4>1. PICK q \in Retries :
              \/ (ready[q] > 0 \/ Started(q)) /\ InTime(q, MaxRetries)
              \/ later[q] > 0 /\ InTime(q, MaxRetries + 1)
        BY <3>7 DEF ByMessage
      <4>2. /\ InTime(q, MaxRetries) => InTime(q, MaxRetries)'
            /\ InTime(q, MaxRetries + 1) => InTime(q, MaxRetries + 1)'
        BY <3>1 DEF InTime
      <4>3. CASE Started(q) /\ ~Started(q)' /\ InTime(q, MaxRetries)
        <5>1. task[w].retries = q
          BY <3>1, <4>3 DEF Started
        <5>2. q + lease.left <= MaxRetries /\ q \in Nat /\ MaxRetries \in Nat
          BY <3>1, <4>3, JobsAssumption DEF InTime, Retries
        <5>3. q < MaxRetries /\ q + 1 \in Retries
          BY <3>2, <5>2 DEF Retries
        <5>4. later' = [later EXCEPT ![q + 1] = @ + 1]
          BY <2>2, <5>1, <5>3 DEF LeaseHeld
        <5>5. later'[q + 1] > 0
          BY <1>t, <5>3, <5>4 DEF TypeOK
        <5>6. InTime(q + 1, MaxRetries + 1)'
          BY <3>1, <3>2, <5>2 DEF InTime
        <5>7. QED BY <5>3, <5>5, <5>6 DEF ByMessage
      <4>4. CASE ~(Started(q) /\ ~Started(q)' /\ InTime(q, MaxRetries))
        <5>1. later[q] > 0 => later'[q] > 0
          <6>1. later[q] \in Nat /\ later'[q] >= later[q]
            BY <1>t, <3>4 DEF TypeOK
          <6>2. later'[q] \in Int
            <7>1. [Next]_vars
              OBVIOUS
            <7>2. TypeOK'
              BY <1>t, <7>1, ReviewJobsNextInv DEF IInv
            <7>3. QED BY <7>2 DEF TypeOK
          <6>3. QED BY <6>1, <6>2
        <5>2. QED BY <3>1, <4>1, <4>2, <4>4, <5>1 DEF ByMessage
      <4>5. QED BY <4>3, <4>4
    <3>8. QED BY <1>o, <3>1, <3>5, <3>6, <3>7
  <2>3. CASE ReadRow(w)
    <3>1. row' = row /\ ~JobSettled
      BY <2>3 DEF ReadRow, JobSettled
    <3>2. QED BY <1>4, <2>3, <2>n, <3>1 DEF ReadRow, Working
  <2>4. CASE Claim(w)
    BY <1>4, <2>4, <2>n DEF Claim, Working
  <2>5. CASE Work(w)
    <3>1. CASE task' = [task EXCEPT ![w].slice = @ + 1]
      <4>1. task'[w].at = "work"
        BY <1>t, <2>5, <2>n, <3>1 DEF Work, TypeOK, Runs, Resting
      <4>2. QED BY <4>1 DEF ByTask, Working
    <3>2. CASE \E at \in {"complete", "failed"} : Goes(w, at)
      BY <1>4, <2>n, <3>2 DEF Working
    <3>3. QED BY <2>5, <3>1, <3>2 DEF Work
  <2>6. ~SaveAnswer(w)
    BY DEF SaveAnswer
  <2>7. CASE Drop(w)
    BY <1>5, <2>7 DEF Drop, broker
  <2>8. CASE Release(w)
    BY <1>5, <2>8 DEF Release, broker
  <2>9. QED
    BY <1>6, <2>1, <2>2, <2>3, <2>4, <2>5, <2>6, <2>7, <2>8 DEF TaskNext
<1>7. ASSUME NEW w \in Workers, Befalls(w)
      PROVE  BySender' \/ ByTask' \/ ByMessage'
  <2>1. CASE LoseWorker(w)
    <3>1. jobMishaps = 0 /\ task[w] # Resting /\ row' = row
      BY <1>m, <2>1 DEF LoseWorker
    <3>2. AtWorkOnIt(w)
      BY <1>t, <1>m, <3>1
      DEF Undisturbed, AtRest, BeingSent, InTheQueue, NoTask, AtWorkOnIt
    <3>3. ready' = [ready EXCEPT ![0] = @ + 1]
      BY <2>1, <3>2 DEF LoseWorker, ComesBack, AtWorkOnIt
    <3>4. ready'[0] > 0
      BY <1>t, <3>3, FreshIsInTime DEF TypeOK
    <3>5. lease'.by = "none" \/ (lease.by # "none" /\ lease'.left = lease.left)
      BY <1>t, <2>1, JobsAssumption DEF LoseWorker, LoseLease, TypeOK
    <3>6. InTime(0, MaxRetries)'
      BY <1>t, <3>5, FreshIsInTime DEF InTime
    <3>7. QED BY <1>t, <3>4, <3>6, FreshIsInTime DEF ByMessage
  <2>2. ~Overrun(w)
    BY DEF Overrun
  <2>3. CASE Redeliver(w)
    <3>1. /\ row' = row /\ send' = send /\ lease' = lease /\ later' = later
          /\ ready' = [ready EXCEPT ![task[w].retries] = @ + 1]
      BY <2>3 DEF Redeliver
    <3>2. task[w] # Resting /\ task[w].retries \in Retries
      BY <1>t, <2>3, RunIsTyped DEF Redeliver
    <3>3. \A q \in Retries : ready[q] > 0 => ready'[q] > 0
      BY <1>t, <3>1, <3>2 DEF TypeOK
    <3>4. \A v \in Workers : task'[v].at = task[v].at /\ task'[v].retries = task[v].retries
      BY <1>t, <2>3, <3>2 DEF Redeliver, TypeOK, Runs, Resting
    <3>5. QED BY <1>o, <3>1, <3>3, <3>4, StillOnIt DEF InTime
  <2>4. CASE Raises(w)
    BY <1>4, <2>4 DEF Raises, Working
  <2>5. QED BY <1>7, <2>1, <2>2, <2>3, <2>4 DEF Befalls
<1>8. ASSUME Tick
      PROVE  BySender' \/ ByTask' \/ ByMessage'
  <2>1. /\ row' = row /\ send' = send
        /\ \A r \in Retries : ready'[r] = ready[r] + later[r]
    BY <1>8 DEF Tick
  <2>2. \A v \in Workers :
            task[v] # Resting => task'[v].at = task[v].at /\ task'[v].retries = task[v].retries
    BY <1>t, <1>8 DEF Tick, TypeOK, Runs
  <2>3. lease'.by = "none" \/ (lease.by # "none" /\ lease'.left = lease.left - 1)
    BY <1>t, <1>8 DEF Tick, TypeOK, NoLease
  <2>4. lease.left \in Nat /\ MaxRetries \in Nat
    BY <1>t, JobsAssumption DEF TypeOK
  <2>5. CASE BySender
    BY <2>1, <2>5 DEF BySender
  <2>6. CASE ByTask
    BY <2>2, <2>6 DEF ByTask, Working, Resting
  <2>7. CASE ByMessage
    <3>1. PICK q \in Retries :
            \/ (ready[q] > 0 \/ Started(q)) /\ InTime(q, MaxRetries)
            \/ later[q] > 0 /\ InTime(q, MaxRetries + 1)
      BY <2>7 DEF ByMessage
    <3>2. InTime(q, MaxRetries + 1) => InTime(q, MaxRetries)'
      BY <2>3, <2>4 DEF InTime, Retries
    <3>3. InTime(q, MaxRetries) => InTime(q, MaxRetries + 1)
      BY <2>4 DEF InTime, Retries
    <3>4. Started(q) => Started(q)'
      BY <2>2 DEF Started, Resting
    <3>5. ready[q] > 0 \/ later[q] > 0 => ready'[q] > 0
      BY <1>t, <2>1 DEF TypeOK
    <3>6. QED BY <3>1, <3>2, <3>3, <3>4, <3>5 DEF ByMessage
  <2>8. QED BY <1>o, <2>1, <2>5, <2>6, <2>7
<1>9. QED
  BY <1>1, <1>2, <1>3, <1>6, <1>7, <1>8 DEF Next, Delivery

\* While no worker and no client is lost, a job is in one place: with the client
\* that sends it, in the queue, or with the one task that runs it; and when the
\* workflow drops a message with no one at work on its job, a worker was lost.
THEOREM UndisturbedJobs == Spec => [](Undisturbed /\ LeaseStands /\ DropsOnlyAfterALoss)
<1>1. JobGoesOn => Undisturbed /\ LeaseStands /\ DropsOnlyAfterALoss
  BY DEF JobGoesOn
<1>2. Init => JobGoesOn
  BY JobGoesOnAtFirst
<1>3. QED BY <1>1, <1>2, JobGoesOnStep, PTL DEF Spec

\* The safety core of Answered: as long as a review is to be answered and was
\* disturbed at most once, somebody is on it.  Nothing of it is lost with a
\* worker, and its message never runs out of retries before the lease that
\* keeps it waiting runs out of time.
THEOREM ReviewsAreNeverForgotten ==
    ASSUME ~Workflow
    PROVE  Spec => []SomebodyIsOnIt
<1>1. Init => JobGoesOn /\ SomebodyIsOnIt
  BY JobGoesOnAtFirst
<1>2. JobGoesOn /\ SomebodyIsOnIt /\ [Next]_vars => (JobGoesOn /\ SomebodyIsOnIt)'
  <2> SUFFICES ASSUME JobGoesOn, SomebodyIsOnIt, [Next]_vars
               PROVE  (JobGoesOn /\ SomebodyIsOnIt)'
    OBVIOUS
  <2>1. JobGoesOn'
    BY JobGoesOnStep
  <2>2. CASE UNCHANGED vars
    BY <2>1, <2>2
    DEF vars, broker, SomebodyIsOnIt, BySender, ByTask, ByMessage, Started, InTime
  <2>3. QED BY <2>1, <2>2, SomebodyStep
<1>3. QED BY <1>1, <1>2, PTL DEF Spec
=============================================================================
