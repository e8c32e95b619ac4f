--------------------------- MODULE MissionRecords ---------------------------
(***************************************************************************)
(* The record room's mileage missions: op_review_record of                 *)
(* lms_api/lms/content_commands.py, the rules of mission_rewards.py, and   *)
(* the generic upsert and delete of record_submissions in commands.py.     *)
(*                                                                         *)
(* One student's records.  The student submits, an admin reviews, and an   *)
(* approval pays what the rules say given the student's other approved     *)
(* records.  The amount paid is kept in details.mileage_amount; later      *)
(* rewards and the return of a payment read it there.  Reviews of one      *)
(* student's records are serialised by an advisory lock; edits through the *)
(* generic upsert are not, and merge details they read without a lock.     *)
(*                                                                         *)
(* Titles, dates, comments, evidence files and push messages are left out. *)
(* The old statuses draft and submitted stand for pending.                 *)
(***************************************************************************)
EXTENDS Integers, FiniteSetsExt

CONSTANTS
    Workers,        \* server workers, each running one command at a time
    Records,        \* ids of the student's records
    Students,       \* the students looked at: `kind', the mission of each of
                    \* their records; `amounts', what an admin enters for a blog
                    \* or study record; `edited', whether records are also
                    \* edited and deleted in place
    PaidBound       \* bound: no review starts on a record paid more, or less

Kinds == {"studyCert", "precourseQuiz", "certification", "blog", "study"}

ASSUME MissionAssumption ==
    /\ \A s \in Students :
          /\ DOMAIN s.kind \subseteq Records
          /\ \A rec \in DOMAIN s.kind : s.kind[rec] \in Kinds
          /\ s.amounts \subseteq Nat
          /\ s.edited \in BOOLEAN
    /\ IsFiniteSet(Records)
    /\ PaidBound \in Nat

\* What the rules read in a record's details: a quiz passed or failed, the
\* certificate's type, nothing elsewhere.
Marks(kind) ==
    CASE kind = "precourseQuiz" -> {"pass", "fail"}
      [] kind = "certification" -> {"PCCE", "PCCP"}
      [] OTHER -> {"any"}
AllMarks == UNION {Marks(k) : k \in Kinds}

Statuses == {"pending", "approved", "rejected"}
NoRow == [status |-> "none", paid |-> 0, mark |-> "any"]
Gone == [status |-> "deleted", paid |-> 0, mark |-> "any"]
Rows == [status: Statuses, paid: Int, mark: AllMarks]

VARIABLES
    student,    \* whose records these are; never changes
    row,        \* record_submissions; `paid' is details.mileage_amount
    paidOut,    \* by record, the sum of its mileage_transactions rows
    reverted,   \* history: whether an approval has ever been taken back
    req         \* what each worker is doing

vars == <<student, row, paidOut, reverted, req>>

Idle == [at |-> "idle"]
ReqStates ==
    {Idle}
    \cup [at: {"review"}, rec: Records, seen: Rows, to: Statuses, reward: Int]
    \cup [at: {"edit"}, rec: Records, seen: Rows, to: Statuses \cup {"keep"},
          mark: AllMarks \cup {"keep"}]

Mine == DOMAIN student.kind

TypeOK ==
    /\ student \in Students
    /\ row \in [Records -> Rows \cup {NoRow, Gone}]
    /\ paidOut \in [Records -> Int]
    /\ reverted \in BOOLEAN
    /\ req \in [Workers -> ReqStates]

-----------------------------------------------------------------------------
(* The rules: mission_rewards.py *)

StudyCertTiers == {<<3, 10000>>, <<5, 30000>>, <<10, 50000>>}
QuizTiers == {<<1, 10000>>, <<3, 30000>>, <<5, 50000>>}
BlogMax == 100000
StudyReward == 50000
Default(kind) == IF kind = "blog" THEN 20000 ELSE StudyReward
Cap(kind) == IF kind = "blog" THEN BlogMax ELSE StudyReward

\* _tier: the amount of the highest tier reached
Tier(count, tiers) == Max({0} \cup {t[2] : t \in {x \in tiers : count >= x[1]}})

\* _coding_target
Coding(marks) == IF "PCCP" \in marks THEN 50000 ELSE IF "PCCE" \in marks THEN 25000 ELSE 0

Approved(kind) == {x \in Mine : student.kind[x] = kind /\ row[x].status = "approved"}
Passed(recs) == {x \in recs : row[x].mark = "pass"}

\* What the approved records of a tiered mission are worth together
Target(kind, recs) ==
    CASE kind = "studyCert" -> Tier(Cardinality(recs), StudyCertTiers)
      [] kind = "precourseQuiz" -> Tier(Cardinality(Passed(recs)), QuizTiers)
      [] kind = "certification" -> Coding({row[x].mark : x \in recs})

\* details.mileage_amount of each of the student's records
Amounts == [x \in Mine |-> row[x].paid]

\* mission_reward: the tier this approval crosses, or the amount entered,
\* within what is left under the cap (0 stands for no amount entered).
Reward(rec, amount) ==
    LET kind == student.kind[rec]
        others == Approved(kind) \ {rec}
        given == SumFunctionOnSet(Amounts, others)
        asked == IF amount = 0 THEN Default(kind) ELSE amount
    IN  IF kind \in {"blog", "study"}
        THEN Max({0, Min({asked, Cap(kind) - given})})
        ELSE Max({0, Target(kind, others \cup {rec}) - Target(kind, others)})

-----------------------------------------------------------------------------
(* Locks *)

\* The fault of a review that takes neither lock
ReviewUnlocked(w) == TRUE
\* pg_advisory_xact_lock(hashtext('mission:user:<id>')), one per student
ReviewFree(w) == \A v \in Workers \ {w} : req[v].at # "review"

\* A review holds its record's row FOR UPDATE until it commits.
RowFree(rec) == \A v \in Workers : req[v].at = "review" => req[v].rec # rec

-----------------------------------------------------------------------------
(* The student submits: op_upsert_sql with action insert *)

\* The fault of inserting a status that no review or page knows
SubmitAsNew(rec, mark) ==
    /\ row[rec] = NoRow
    /\ row' = [row EXCEPT ![rec] = [status |-> "new", paid |-> 0, mark |-> mark]]
    /\ UNCHANGED <<student, paidOut, reverted, req>>
Submit(rec, mark) ==
    /\ row[rec] = NoRow
    /\ row' = [row EXCEPT ![rec] = [status |-> "pending", paid |-> 0, mark |-> mark]]
    /\ UNCHANGED <<student, paidOut, reverted, req>>

-----------------------------------------------------------------------------
(* op_review_record *)

\* Take the locks, read the row and, to approve it, the other approved ones
ReviewRead(w, rec, to, amount) ==
    /\ req[w].at = "idle"
    /\ row[rec] \in Rows
    /\ -PaidBound <= paidOut[rec] /\ paidOut[rec] <= PaidBound
    /\ ReviewFree(w)
    /\ RowFree(rec)
    /\ req' = [req EXCEPT ![w] =
                 [at |-> "review", rec |-> rec, seen |-> row[rec], to |-> to,
                  reward |-> IF to = "approved" /\ row[rec].status # "approved"
                             THEN Reward(rec, amount) ELSE 0]]
    /\ UNCHANGED <<student, row, paidOut, reverted>>

\* The fault of a record approved again being paid again
PayEveryApproval(w) ==
    LET c == req[w] IN
    IF c.to = "approved" THEN c.reward + 10000 ELSE -c.seen.paid
\* The ledger row written: a payment, the return of one, or none (0)
Payment(w) ==
    LET c == req[w] IN
    IF c.to = "approved" /\ c.seen.status # "approved" THEN c.reward
    ELSE IF c.to # "approved" /\ c.seen.status = "approved" /\ c.seen.paid > 0
    THEN -c.seen.paid
    ELSE 0

\* The fault of leaving mileage_amount in place when the payment is returned
PaidKept(w) ==
    IF req[w].to = "approved" /\ req[w].seen.status # "approved"
    THEN req[w].reward ELSE req[w].seen.paid
\* details.mileage_amount after the review
PaidAfter(w) ==
    LET c == req[w] IN
    IF c.to = "approved" /\ c.seen.status # "approved" THEN c.reward
    ELSE IF Payment(w) < 0 THEN 0
    ELSE c.seen.paid

ReviewWrite(w) ==
    LET c == req[w] IN
    /\ c.at = "review"
    /\ row' = [row EXCEPT ![c.rec] = [status |-> c.to, paid |-> PaidAfter(w),
                                     mark |-> c.seen.mark]]
    /\ paidOut' = [paidOut EXCEPT ![c.rec] = @ + Payment(w)]
    /\ reverted' = (reverted \/ (c.seen.status = "approved" /\ c.to # "approved"))
    /\ req' = [req EXCEPT ![w] = Idle]
    /\ UNCHANGED student

-----------------------------------------------------------------------------
(* Generic writes of an existing record: op_upsert_sql *)

\* resolve_row reads the row without a lock; details are merged with it.
\* A student may set the status back to pending, whatever it is; staff may
\* set any, and nothing is paid or returned for it.
EditRead(w, rec, to, mark) ==
    /\ student.edited
    /\ req[w].at = "idle"
    /\ row[rec] \in Rows
    /\ <<to, mark>> # <<"keep", "keep">>
    /\ req' = [req EXCEPT ![w] =
                 [at |-> "edit", rec |-> rec, seen |-> row[rec], to |-> to, mark |-> mark]]
    /\ UNCHANGED <<student, row, paidOut, reverted>>

\* UPDATE of the columns sent: details come whole from the row once read
EditWrite(w) ==
    LET c == req[w]
        new == [status |-> IF c.to = "keep" THEN row[c.rec].status ELSE c.to,
                paid |-> IF c.mark = "keep" THEN row[c.rec].paid ELSE c.seen.paid,
                mark |-> IF c.mark = "keep" THEN row[c.rec].mark ELSE c.mark]
    IN  /\ c.at = "edit"
        /\ RowFree(c.rec)
        /\ row' = [row EXCEPT ![c.rec] = IF @ = Gone THEN @ ELSE new]
        /\ req' = [req EXCEPT ![w] = Idle]
        /\ UNCHANGED <<student, paidOut, reverted>>

\* Staff delete a record; its ledger rows stay.
Delete(rec) ==
    /\ student.edited
    /\ row[rec] \in Rows
    /\ RowFree(rec)
    /\ row' = [row EXCEPT ![rec] = Gone]
    /\ UNCHANGED <<student, paidOut, reverted, req>>

-----------------------------------------------------------------------------
\* The transaction is rolled back: a deadlock broken by the database, a lost
\* connection, a worker that dies
Abort(w) ==
    /\ req[w].at # "idle"
    /\ req' = [req EXCEPT ![w] = Idle]
    /\ UNCHANGED <<student, row, paidOut, reverted>>

Init ==
    /\ student \in Students
    /\ row = [rec \in Records |-> NoRow]
    /\ paidOut = [rec \in Records |-> 0]
    /\ reverted = FALSE
    /\ req = [w \in Workers |-> Idle]

StudentNext == \E rec \in Mine : \E mark \in Marks(student.kind[rec]) : Submit(rec, mark)
ReviewNext(w) ==
    \/ \E rec \in Mine, to \in Statuses, amount \in student.amounts : ReviewRead(w, rec, to, amount)
    \/ ReviewWrite(w)
EditNext(w) ==
    \/ \E rec \in Mine, to \in Statuses \cup {"keep"} :
          \E mark \in Marks(student.kind[rec]) \cup {"keep"} : EditRead(w, rec, to, mark)
    \/ EditWrite(w)

Next ==
    \/ StudentNext
    \/ \E w \in Workers : ReviewNext(w) \/ EditNext(w) \/ Abort(w)
    \/ \E rec \in Mine : Delete(rec)

Spec == Init /\ [][Next]_vars

-----------------------------------------------------------------------------
(* Properties *)

Total(recs) == SumFunctionOnSet(paidOut, recs)
OfKind(kind) == {x \in Mine : student.kind[x] = kind}

\* op_review_record: "approving pays by the rules on the spot, and undoing an
\* approval takes back what was paid".  The ledger's rows of a record add up
\* to its mileage_amount, which later rewards are computed from, and both are
\* nothing while the record is not approved.  It is not so for records edited
\* in place (UndoneIsTakenBack).
PaidFollowsStatus ==
    ~student.edited =>
        \A rec \in Mine :
            row[rec] \in Rows =>
                /\ paidOut[rec] = row[rec].paid
                /\ row[rec].status # "approved" => paidOut[rec] = 0

\* The same promise for what undoing an approval leaves: nothing.
UndoneIsTakenBack ==
    \A rec \in Records :
        row[rec] \in Rows /\ row[rec].status # "approved" => paidOut[rec] = 0

\* mission_rewards: the server keeps the caps of blog and study missions,
\* although each reward is computed from other records' mileage_amount.
CapKept ==
    ~student.edited => \A kind \in {"blog", "study"} : Total(OfKind(kind)) <= Cap(kind)

\* While no approval has been undone, the payments of a tiered mission add up
\* to the tier its approved records have reached, in whatever order and by
\* whichever workers they were approved.
TiersAddUp ==
    ~reverted /\ ~student.edited =>
        \A kind \in {"studyCert", "precourseQuiz", "certification"} :
            Total(OfKind(kind)) = Target(kind, Approved(kind))

\* A record's balance only rises in the step that makes it approved: two
\* admins approving it at once, or approving it again, pay it once.
PaysOnlyOnApproval ==
    [][\A rec \in Records :
        paidOut'[rec] > paidOut[rec] =>
            row[rec].status # "approved" /\ row'[rec].status = "approved"]_vars

-----------------------------------------------------------------------------
(* The inductive strengthening *)

\* The advisory lock: one review of the student's records at a time
OneReview ==
    \A v, w \in Workers : req[v].at = "review" /\ req[w].at = "review" => v = w

\* What a review has read still holds when it writes: its record, whose row
\* it has locked, and, where nothing is edited in place, the rewards.  An edit
\* is of a row that has been inserted.
Relies(w) ==
    /\ req[w].at = "review" =>
          /\ req[w].rec \in Mine
          /\ row[req[w].rec] = req[w].seen
          /\ ~student.edited /\ req[w].to = "approved" /\ req[w].seen.status # "approved" =>
                \E rec \in Mine, amount \in student.amounts :
                    rec = req[w].rec /\ req[w].reward = Reward(rec, amount)
    /\ req[w].at = "edit" =>
          /\ student.edited
          /\ row[req[w].rec] # NoRow
RequestsRely == \A w \in Workers : Relies(w)

\* A record not submitted has been paid nothing, and no amount is below zero.
PaidAtAll ==
    /\ \A rec \in Records : row[rec] = NoRow => paidOut[rec] = 0
    /\ ~student.edited => \A rec \in Records : row[rec].paid >= 0 /\ row[rec] # Gone

MissionInv ==
    /\ TypeOK
    /\ OneReview
    /\ RequestsRely
    /\ PaidAtAll
    /\ PaidFollowsStatus
    /\ CapKept
    /\ TiersAddUp
=============================================================================
