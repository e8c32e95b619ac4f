------------------------------- MODULE Quests -------------------------------
(***************************************************************************)
(* Mileage quests: lms_api/lms/quest_service.py.                           *)
(*                                                                         *)
(* A student submits evidence for a quest; an admin approves, rejects or   *)
(* later revokes it.  Every approval pays the quest's reward into the      *)
(* ledger (mileage_transactions) and into users.mileage_balance.           *)
(*                                                                         *)
(* Each endpoint runs in one transaction at READ COMMITTED: a SELECT sees  *)
(* what is committed when it runs, so a transaction that reads twice is    *)
(* cut into the steps between which other transactions may commit.  What a *)
(* transaction writes becomes visible in its last step, which also ends    *)
(* the locks it holds; which locks are held is read off `req'.             *)
(*                                                                         *)
(* Evidence texts, comments, push messages and listings are left out.      *)
(***************************************************************************)
EXTENDS Integers, Sequences, FiniteSetsExt

CONSTANTS
    Requests,   \* server workers, each running one endpoint at a time
    Students,
    QuestIds,
    Slots,      \* names for the submissions of one student to one quest
    MaxReward,  \* bound: rewards are 1..MaxReward (the code: 1..1_000_000)
    MaxLimit    \* bound: max_completions is 1..MaxLimit (the code: 1..100)

ASSUME QuestsAssumption ==
    /\ MaxReward \in Nat \ {0}
    /\ MaxLimit \in Nat \ {0}
    /\ IsFiniteSet(QuestIds)
    /\ IsFiniteSet(Slots)

\* A pair is what the advisory lock "quest:<pk>:user:<id>" names.
Pairs == Students \X QuestIds
\* A submission's id is drawn from the slots of its pair.
Subs == Pairs \X Slots
PairOf(s) == s[1]
UserOf(p) == p[1]
QuestOf(p) == p[2]

Decisions == {"approve", "reject", "revoke"}
Statuses == {"none", "pending", "approved", "rejected", "revoked"}

\* A quests row.  `open' is _open_now: published, not closed, and today is
\* between start_on and end_on.
QuestRows == [reward: 1..MaxReward, max: 1..MaxLimit, auto: BOOLEAN, open: BOOLEAN]
\* A mileage_transactions row, filed under the submission of its related_id.
LedgerRows == [type: {"quest", "quest_revoke"}, amount: Int]

VARIABLES
    created,    \* the quests inserted so far
    quest,      \* quests rows
    status,     \* quest_submissions.status, "none" where there is no row
    granted,    \* quest_submissions.granted_amount
    ledger,     \* mileage_transactions, by submission, in insertion order
    balance,    \* what quests have added to users.mileage_balance
    highest,    \* history: the highest max_completions each quest has had
    req         \* what each worker is doing

vars == <<created, quest, status, granted, ledger, balance, highest, req>>

Idle == [at |-> "idle"]
ReqStates ==
    {Idle}
    \cup [at: {"submitRead", "submitCounted"}, pair: Pairs, seen: QuestRows]
    \cup [at: {"reviewLocked", "reviewCounted"}, sub: Subs, seen: QuestRows,
          decision: Decisions]

TypeOK ==
    /\ created \subseteq QuestIds
    /\ quest \in [QuestIds -> QuestRows]
    /\ status \in [Subs -> Statuses]
    /\ granted \in [Subs -> 0..MaxReward]
    /\ ledger \in [Subs -> Seq(LedgerRows)]
    /\ balance \in [Students -> Int]
    /\ highest \in [QuestIds -> 0..MaxLimit]
    /\ req \in [Requests -> ReqStates]

-----------------------------------------------------------------------------
(* Locks and counts *)

SlotsWith(p, st) == {n \in Slots : status[<<p, n>>] = st}

Submitting(r, p) == req[r].at = "submitCounted" /\ req[r].pair = p
Reviewing(r, s) == req[r].at \in {"reviewLocked", "reviewCounted"} /\ req[r].sub = s

\* The fault of a submission that takes no advisory lock
NoAdvisoryLock(p) == TRUE
\* pg_advisory_xact_lock(hashtext('quest:<pk>:user:<id>')) is free
AdvisoryFree(p) == \A r \in Requests : ~Submitting(r, p)

\* The fault of reading the submission without FOR UPDATE
NoRowLock(s) == TRUE
\* SELECT ... FOR UPDATE of the submission does not wait
RowFree(s) == \A r \in Requests : ~Reviewing(r, s)

\* The fault of letting one submission too many in
OneTooMany(p, max) ==
    /\ SlotsWith(p, "pending") = {}
    /\ Cardinality(SlotsWith(p, "approved")) <= max
\* quest_submissions counts that let one more submission in
RoomToSubmit(p, max) ==
    /\ SlotsWith(p, "pending") = {}
    /\ Cardinality(SlotsWith(p, "approved")) < max

\* The limit re-checked when an admin approves
RoomToApprove(p, max) == Cardinality(SlotsWith(p, "approved")) < max

DecisionFits(d, st) ==
    CASE d \in {"approve", "reject"} -> st = "pending"
      [] d = "revoke" -> st = "approved"

-----------------------------------------------------------------------------
(* Admin: quests *)

\* create_quest, with the values _clean_quest lets through
CreateQuest(q, row) ==
    /\ q \notin created
    /\ created' = created \cup {q}
    /\ quest' = [quest EXCEPT ![q] = row]
    /\ highest' = [highest EXCEPT ![q] = row.max]
    /\ UNCHANGED <<status, granted, ledger, balance, req>>

\* update_quest: the row is locked FOR UPDATE, merged and written, and granted
\* amounts are left as they are.  A date that passes changes `open' too.
UpdateQuest(q, row) ==
    /\ q \in created
    /\ quest' = [quest EXCEPT ![q] = row]
    /\ highest' = [highest EXCEPT ![q] = IF row.max > @ THEN row.max ELSE @]
    /\ UNCHANGED <<created, status, granted, ledger, balance, req>>

-----------------------------------------------------------------------------
(* Money: one ledger row and one relative UPDATE of the balance *)

Grant(s, amount) ==
    /\ ledger' = [ledger EXCEPT ![s] = Append(@, [type |-> "quest", amount |-> amount])]
    /\ balance' = [balance EXCEPT ![UserOf(PairOf(s))] = @ + amount]

\* The fault of taking back what the quest pays now, not what was paid
RevokeCurrentReward(s) ==
    LET amount == quest[QuestOf(PairOf(s))].reward
    IN  /\ ledger' = [ledger EXCEPT ![s] =
                        Append(@, [type |-> "quest_revoke", amount |-> -amount])]
        /\ balance' = [balance EXCEPT ![UserOf(PairOf(s))] = @ - amount]
Revoke(s) ==
    IF granted[s] > 0
    THEN /\ ledger' = [ledger EXCEPT ![s] =
                         Append(@, [type |-> "quest_revoke", amount |-> -granted[s]])]
         /\ balance' = [balance EXCEPT ![UserOf(PairOf(s))] = @ - granted[s]]
    ELSE UNCHANGED <<ledger, balance>>

-----------------------------------------------------------------------------
(* submit_quest *)

\* SELECT * FROM quests: no lock, and nothing reads the row again
SubmitRead(r, p) ==
    /\ req[r].at = "idle"
    /\ QuestOf(p) \in created
    /\ quest[QuestOf(p)].open
    /\ req' = [req EXCEPT ![r] =
                 [at |-> "submitRead", pair |-> p, seen |-> quest[QuestOf(p)]]]
    /\ UNCHANGED <<created, quest, status, granted, ledger, balance, highest>>

\* Take the advisory lock and count.  Nobody else can take the lock between
\* the two, so they are one step.  A refusal rolls back and frees the lock.
SubmitCount(r) ==
    /\ req[r].at = "submitRead"
    /\ AdvisoryFree(req[r].pair)
    /\ req' = [req EXCEPT ![r] =
                 IF RoomToSubmit(req[r].pair, req[r].seen.max)
                 THEN [req[r] EXCEPT !.at = "submitCounted"]
                 ELSE Idle]
    /\ UNCHANGED <<created, quest, status, granted, ledger, balance, highest>>

\* INSERT, and for an auto quest the grant; COMMIT frees the lock
SubmitInsert(r, n) ==
    LET s == <<req[r].pair, n>>
        amount == req[r].seen.reward
    IN  /\ req[r].at = "submitCounted"
        /\ status[s] = "none"
        /\ IF req[r].seen.auto
           THEN /\ status' = [status EXCEPT ![s] = "approved"]
                /\ granted' = [granted EXCEPT ![s] = amount]
                /\ Grant(s, amount)
           ELSE /\ status' = [status EXCEPT ![s] = "pending"]
                /\ UNCHANGED <<granted, ledger, balance>>
        /\ req' = [req EXCEPT ![r] = Idle]
        /\ UNCHANGED <<created, quest, highest>>

-----------------------------------------------------------------------------
(* review_submission *)

\* SELECT ... FOR UPDATE of the submission, then an unlocked SELECT of its
\* quest.  A decision the status does not allow raises: nothing happens.
ReviewLock(r, s, d) ==
    /\ req[r].at = "idle"
    /\ RowFree(s)
    /\ DecisionFits(d, status[s])
    /\ req' = [req EXCEPT ![r] =
                 [at |-> "reviewLocked", sub |-> s, seen |-> quest[QuestOf(PairOf(s))],
                  decision |-> d]]
    /\ UNCHANGED <<created, quest, status, granted, ledger, balance, highest>>

\* The count an approval makes before it pays
ReviewCount(r) ==
    /\ req[r].at = "reviewLocked"
    /\ req[r].decision = "approve"
    /\ req' = [req EXCEPT ![r] =
                 IF RoomToApprove(PairOf(req[r].sub), req[r].seen.max)
                 THEN [req[r] EXCEPT !.at = "reviewCounted"]
                 ELSE Idle]
    /\ UNCHANGED <<created, quest, status, granted, ledger, balance, highest>>

ReviewWrite(r) ==
    LET s == req[r].sub
        amount == req[r].seen.reward
    IN  /\ \/ /\ req[r].at = "reviewCounted"
              /\ Grant(s, amount)
              /\ status' = [status EXCEPT ![s] = "approved"]
              /\ granted' = [granted EXCEPT ![s] = amount]
           \/ /\ req[r].at = "reviewLocked"
              /\ req[r].decision = "reject"
              /\ status' = [status EXCEPT ![s] = "rejected"]
              /\ granted' = [granted EXCEPT ![s] = 0]
              /\ UNCHANGED <<ledger, balance>>
           \/ /\ req[r].at = "reviewLocked"
              /\ req[r].decision = "revoke"
              /\ Revoke(s)
              /\ status' = [status EXCEPT ![s] = "revoked"]
              /\ granted' = [granted EXCEPT ![s] = 0]
        /\ req' = [req EXCEPT ![r] = Idle]
        /\ UNCHANGED <<created, quest, highest>>

-----------------------------------------------------------------------------
\* The transaction is rolled back: a deadlock broken by the database, a lost
\* connection, a worker that dies
Abort(r) ==
    /\ req[r].at # "idle"
    /\ req' = [req EXCEPT ![r] = Idle]
    /\ UNCHANGED <<created, quest, status, granted, ledger, balance, highest>>

\* What a quest not yet created reads as; no action looks at it
BlankQuest == [reward |-> 1, max |-> 1, auto |-> FALSE, open |-> FALSE]

Init ==
    /\ created = {}
    /\ quest = [q \in QuestIds |-> BlankQuest]
    /\ status = [s \in Subs |-> "none"]
    /\ granted = [s \in Subs |-> 0]
    /\ ledger = [s \in Subs |-> <<>>]
    /\ balance = [u \in Students |-> 0]
    /\ highest = [q \in QuestIds |-> 0]
    /\ req = [r \in Requests |-> Idle]

AdminNext == \E q \in QuestIds, row \in QuestRows : CreateQuest(q, row) \/ UpdateQuest(q, row)
SubmitNext(r) ==
    \/ \E p \in Pairs : SubmitRead(r, p)
    \/ SubmitCount(r)
    \/ \E n \in Slots : SubmitInsert(r, n)
ReviewNext(r) ==
    \/ \E s \in Subs, d \in Decisions : ReviewLock(r, s, d)
    \/ ReviewCount(r)
    \/ ReviewWrite(r)

Next == AdminNext \/ \E r \in Requests : SubmitNext(r) \/ ReviewNext(r) \/ Abort(r)

Spec == Init /\ [][Next]_vars

-----------------------------------------------------------------------------
(* Properties *)

\* A student never has two submissions to one quest under review, however
\* the endpoints interleave (the advisory lock and the count of submit_quest).
OnePending ==
    \A p \in Pairs, m, n \in Slots :
        status[<<p, m>>] = "pending" /\ status[<<p, n>>] = "pending" => m = n

\* A student is paid for a quest no more often than the quest has ever
\* allowed, although submitting and approving take different locks and both
\* read max_completions without one.
WithinLimit ==
    \A p \in Pairs :
        Cardinality(SlotsWith(p, "approved")) <= highest[QuestOf(p)]

\* The ledger rows of a submission tell its whole history: paid once when it
\* was approved, taken back once and in full when that was revoked, even when
\* the quest's reward was edited in between.
LedgerFollowsStatus ==
    \A s \in Subs :
        CASE status[s] = "approved" ->
               /\ granted[s] > 0
               /\ ledger[s] = <<[type |-> "quest", amount |-> granted[s]]>>
          [] status[s] = "revoked" ->
               /\ Len(ledger[s]) = 2
               /\ ledger[s][1].type = "quest"
               /\ ledger[s][2] = [type |-> "quest_revoke", amount |-> -ledger[s][1].amount]
          [] OTHER -> ledger[s] = <<>>

\* What a submission has put on its student's balance: nothing unless it is
\* approved now
Standing == [s \in Subs |-> IF status[s] = "approved" THEN granted[s] ELSE 0]
SubsOf(u) == {s \in Subs : UserOf(PairOf(s)) = u}

\* users.mileage_balance carries exactly what the student's approved
\* submissions were granted: a sum over rows of another table, kept by
\* relative updates of several transactions (_grant and _revoke).
BalanceIsWhatWasGranted ==
    \A u \in Students : balance[u] = SumFunctionOnSet(Standing, SubsOf(u))

\* A decision is final except that an approval may be revoked: no stale
\* review overwrites another admin's decision.
StatusMoves ==
    {<<"none", "pending">>, <<"none", "approved">>, <<"pending", "approved">>,
     <<"pending", "rejected">>, <<"approved", "revoked">>}
StatusStep ==
    \A s \in Subs : status'[s] # status[s] => <<status[s], status'[s]>> \in StatusMoves
StatusOnlyMovesForward == [][StatusStep]_vars
-----------------------------------------------------------------------------
(* The inductive strengthening: what a transaction in flight may rely on *)

LocksExclude ==
    \A r1, r2 \in Requests :
        /\ \A p \in Pairs : Submitting(r1, p) /\ Submitting(r2, p) => r1 = r2
        /\ \A s \in Subs : Reviewing(r1, s) /\ Reviewing(r2, s) => r1 = r2

RowsHaveQuests ==
    /\ \A s \in Subs : status[s] # "none" => QuestOf(PairOf(s)) \in created
    /\ \A q \in created : quest[q].max <= highest[q]
    /\ \A q \in QuestIds \ created : highest[q] = 0

\* What a submission has read still holds when it writes.
SubmitRelies(r) ==
    LET p == req[r].pair
    IN  /\ QuestOf(p) \in created
        /\ req[r].seen.max <= highest[QuestOf(p)]
        /\ req[r].at = "submitCounted" => RoomToSubmit(p, req[r].seen.max)

\* What a review has read still holds when it writes.
ReviewRelies(r) ==
    LET s == req[r].sub
    IN  /\ DecisionFits(req[r].decision, status[s])
        /\ req[r].seen.max <= highest[QuestOf(PairOf(s))]
        /\ req[r].at = "reviewCounted" =>
              /\ req[r].decision = "approve"
              /\ RoomToApprove(PairOf(s), req[r].seen.max)

RequestsRely ==
    \A r \in Requests :
        /\ req[r].at \in {"submitRead", "submitCounted"} => SubmitRelies(r)
        /\ req[r].at \in {"reviewLocked", "reviewCounted"} => ReviewRelies(r)

IInv ==
    /\ TypeOK
    /\ OnePending
    /\ WithinLimit
    /\ LedgerFollowsStatus
    /\ LocksExclude
    /\ RowsHaveQuests
    /\ RequestsRely
=============================================================================
