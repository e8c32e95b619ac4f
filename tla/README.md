# Verification of the bootcamp LMS

TLA+ models of the parts of this repository in which money, sessions, documents and long-running jobs
are shared by several requests, workers, clients and callbacks; TLC configurations that check them on
small instances; and TLAPS proofs of what holds for every instance.

| component | code | modules | checked | proved |
|---|---|---|---|---|
| mileage quests | `lms/quest_service.py` | `Quests` | `MCQuests.cfg` | `QuestsProofs` |
| mission records | `lms/content_commands.py`, `lms/mission_rewards.py`, `lms/commands.py` | `MissionRecords` | `MCBackend.cfg`, `MCMissionRecordsUndone.cfg` | `StudentRequestsProofs` |
| purchases and adjustments | `lms/content_commands.py`, `lms/commands.py`, `lms/api.py` | `Purchases` | `MCBackend.cfg`, `MCPurchasesTwice.cfg` | `StudentRequestsProofs` |
| attendance requests | `lms/attendance_requests.py` | `AttendanceRequests` | `MCBackend.cfg`, `MCAttendanceCrossed.cfg`, `MCAttendanceRestored.cfg` | `StudentRequestsProofs` |
| scheduled notices | `lms/publish.py`, `lms/tasks.py`, `lms/inline_publish.py`, `lms/commands.py` | `ScheduledNotices` | `MCBackend.cfg` | `BackendProofs` |
| cohort deletion | `lms/cohort_lifecycle.py`, `lms/cohort_documents.py`, migration 0017 | `CohortDeletion` | `MCBackend.cfg`, `MCCohortDeletionTwice.cfg` | `BackendProofs` |
| refresh sessions | `lms/auth_sessions.py`, `lms/jwt_auth.py`, `lms/api.py` | `AuthSessions` | `MCBackend.cfg` | `SessionsProofs` |
| clients' sessions | `lms_react/src/data/http.ts`, `sessionStore.ts`, `session.tsx`, their mobile twins | `AuthTabs` (extends `AuthSessions`) | `MCBackend.cfg`, `MCAuthTabsMobile.cfg` | `SessionsProofs` |
| background reviews | `lms/review_jobs.py` | `ReviewJobs` | `MCStudentScreens.cfg`, `MCReviewJobsWorkflow.cfg` | `ReviewJobsProofs` |
| job index | `job_matching_bot/retrieval/upsert.py`, `ingestion/sqlite_store.py`, `prune.py`, ... | `JobIndex` | `MCBackend.cfg`, `MCJobIndexPruned.cfg` | `BackendProofs` |
| practice notebook | `lms_react/src/features/practice/` `useNotebook.ts`, `pythonRunner.ts`, `pythonWorker.ts` | `Notebook`, which implements `SerialRuns` | `MCStudentScreens.cfg` | `NotebookProofs` |
| résumé editor | `lms_react/src/data/repository.ts`, `features/resume/` `useResumeDraft.ts`, `ResumeEditScreen.tsx`, `review/ReviewDock.tsx` | `ResumeEditor` | `MCStudentScreens.cfg`, `MCResumeEditorReview.cfg` | `StudentScreensProofs` |

`MCBackend` and `MCStudentScreens` put several of these systems into one run, one after another: they
share no state that their properties are about, so a state of the run is a state of one of them with the others
at rest. That they do keep apart is proved (`SystemsKeepApart`, `ScreensKeepApart`).

`lms/` is `src/lms_api/lms/`. `PROJECT.json` maps every definition to the lines it stands for.

    tlc -workers 2 -config MCQuests.cfg MCQuests.tla      # any MC module with its .cfg
    tlapm QuestsProofs.tla                                # any *Proofs module

## 1. Inventory

### The system

- **`lms_api`**, a Django Ninja backend on PostgreSQL (READ COMMITTED) and Redis, several web workers
  and Celery workers. It holds the LMS proper. `dispatch` in `commands.py` wraps each command in one
  transaction; the other endpoints open their own. This is where state is shared, and what the models
  are about.
- **`lms_react`**, **`lms_mobile`**: the web and the mobile client. Each keeps a refresh token, refreshes
  it on a 401 and repeats the request. The web client also runs student code in a worker of the page
  (the practice notebook) and edits a snapshot of the server's data optimistically (the résumé editor).
- **`job_matching_bot`** also has a nightly batch: crawl, store, group, index, prune.
- **`cover_letter_rag`**, **`study_notes`**, **`job_matching_bot`**, **`chatbot`**: AI services the backend calls,
  through language models, vector indexes and git clones.
- **`functions`**: the retired Firebase backend; **`deploy`**, **`scripts`**, **`onboarding`**,
  **`practice_verifier`**, **`chatbot_lab`**: operations and tools.

They interact by HTTP (clients to `lms_api`, `lms_api` to the AI services), by shared tables
(`study_notes` and `job_matching_bot` read and write their own tables of the same PostgreSQL), by Redis keys
(sessions, job rows, leases) and by Celery messages (reviews, scheduled notices, nightly practice).

### Components, their state, and what makes them correct

| component | state | operations | hard because | correct when |
|---|---|---|---|---|
| quests | `quests`, `quest_submissions`, ledger, balance | create, update, submit, approve, reject, revoke | submit and review take different locks; the quest is read without one | one pending per quest and student; never paid past the limit; the ledger tells the history |
| mission records | `record_submissions` with `details.mileage_amount`, ledger | submit, review, generic upsert, delete | a reward depends on the student's other records; the upsert merges stale details | caps kept; tiers add up; what is undone is taken back |
| purchases | `purchase_requests`, ledger, balance | save, edit, review, adjust | the review decides from an unlocked reading; saving and editing write any status | approved by a review means charged; the balance is the ledger |
| refresh sessions | Redis sessions, `users.password` | login, refresh, password, logout | two stores without a common transaction; simultaneous refreshes | a token is used once; an ended session stays ended; old tokens die with the password |
| clients' sessions | token and revision of each tab | sign in, sign out, refresh, duplicate a tab | late, lost and refused answers | a tab holds its own sign-in; who behaves is not signed out |
| background reviews | job row and lease in Redis, Celery messages | submit, run, retry, redeliver | late acknowledgement, lost workers, leases and limits in time | one worker per job; a finished review stays; a job is answered |
| attendance requests | requests, register | submit, edit, cancel, review | no row locks; the register is overwritten and restored from a snapshot | the register shows the heaviest approved request, else what was there before |
| scheduled notices | `scheduled_notices`, `notices` | publish from beat, page loads, by hand | SKIP LOCKED, three triggers | published once per due time |
| notice vectors | chunk count, vector index | create, edit, delete | index written after commit | no vector of an old chunk stays |
| study notes | `study_notes` rows, threads | start, finish, publish, delete | ten-minute claim; results saved by id whatever came since | a note shows its latest generation |
| practice generation | `study_practice_runs`, sets | claim, save sets, finish | one-hour claim, no check at the end | one run per source; each problem once |
| cohort deletion | `cohort_deletion_jobs`, objects, vectors, rows | prepare, clean up, delete, resume | external deletions cannot be rolled back | resumable; never deletes a cohort in use |
| job index | fingerprints in the store, vectors | collect, check links, group, index, adopt, prune | crashes between the index and the record of it; links are checked meanwhile | a run leaves the index as the table says; a pruned row leaves no vector |
| practice notebook | cells, a chain of promises, a worker with its session | run, stop, reset, replace, type in input, leave | callbacks in an order nobody wrote down; a worker killed with runs behind it | runs are served in order and never get stuck; what is shown is what the kernel knows |
| résumé editor | draft, snapshot, a write on its way and one that waits | type, save, leave, review | answers and reads out of order; the review writes the same row | nothing typed is lost; one writer at a time |
| nightly crawl | stages, queue of details | stages, resume | restarts, sites that fail | every posting is visited, none forgotten |
| assessments | attempts, answers | start, submit, grade | a deadline racing a submission | one graded attempt |
| tutor limits | log of questions | ask | the limit is read before the model's call | the limit holds |
| résumé review service | stages, checkpoints | plan, write, verify, resume | partial results, resumption | a stage is not done twice, nor skipped |

The remaining components (commands of one statement, caches of outside feeds, documents, the assistant,
the chatbot, searches, screens, tools) keep little state of their own or have one writer;
`PROJECT.json` lists them with the reason they are left out.

## 2. How the code became models

**Transactions.** At READ COMMITTED a statement sees what is committed when it runs. A transaction is cut
where it reads; its writes appear in its last step, the commit. A lock is held from the step that takes it
to the last one, so a lock is not a variable but a condition on what the other workers are doing
(`AdvisoryFree`, `RowFree`, `ReviewFree`). Where an operation reads without a lock and writes later,
what it read is kept in its request record (`seen`), and the write uses that, as the code does. Two
steps between which no other transaction could make a difference are one action. `Abort` (`RollBack`,
`HandlerFails`, `PublishingFails`, `DeletionFails` in the other modules) rolls a transaction back: it stands for refusals of the database, including the breaking of deadlocks, and lost connections.

**Redis.** Each command and each Lua script is one step. Redis takes no part in a PostgreSQL rollback:
`AuthSessions.PasswordWrite` leaves its session behind when the transaction is rolled back (`HandlerFails`).

**History variables** (`highest`, `paidOut`, `reverted`, `approvals`, `given`, `opened`, `used`, `home`, `shared`, `over`,
`thrown`, `gaveUp`, `dropped`, `posted`, `before`, `crossed`, `lost`, `mirrored`, `ranIn`, `since`, `behind`, `typed`,
`failed`, `missed`) record what properties speak of; no guard of the code depends on them
(the guards that mention `paidOut`, `charges`, `approvals`, `given`, `asked`, `edits` and `begun` are bounds).

**Faults.** Definitions commented "The fault of ..." are what a plausible bug would put in the place of the
definition after them. No specification uses them; each property is known to fail with one of them.

### Quests

`req[r]` is the endpoint a worker runs. `SubmitRead`, `SubmitCount`, `SubmitInsert` are `submit_quest`: the
unlocked SELECT of the quest, the advisory lock with the two counts, the INSERT with the automatic grant
and the COMMIT. `ReviewLock`, `ReviewCount`, `ReviewWrite` are `review_submission`. `UpdateQuest` may happen
between any of them, and stands for the passing of a quest's dates too. The two paths to an approval hold
different locks, so `WithinLimit` rests on an argument that is not local: a submission is let in only
when none is pending, so a review and an automatic grant cannot both be about to approve one pair. It is
stated with the highest limit a quest has ever had, since lowering a limit takes nothing back.

### MissionRecords

One student, chosen in `Init` from `Students`: which mission each record is of, what amounts an admin enters,
whether records are also edited in place. `Reward` is `mission_reward` with its tiers, caps and the coding
target; it reads the other approved records' `mileage_amount`, so a wrong amount in one record spreads to
others. `EditRead`/`EditWrite` are the generic upsert. It reads without a lock and writes back whole details,
and pays nothing: the promise of `op_review_record` to take back what was paid does not hold for records
edited so (`MCMissionRecordsUndone.cfg`), and the other properties speak of records not edited in place. An edit that
keeps the status can break it too: read before an approval and written after it, it puts the old `mileage_amount`
back, and undoing the approval then takes back nothing (eight states).

### Purchases

`Save` and `EditOrder` write the status and the total they are sent: `op_save_purchase_request` inserts
`p.get('status') or 'pending'`, and staff may set both through the generic upsert. Neither charges, so a request
that is approved that way is never paid for, and a later review that reads it as approved charges nothing either;
`given` counts such approvals. A review reads the request without a lock (`ReadOrder`), decides from that whether to charge
and charges the total it has read (`DecideOrder`), also when staff have changed it since. Two reviews can
overtake each other in both directions. A request that is approved has been charged or given away so (`NeverFree`);
that it is charged once for each approval does not hold (`MCPurchasesTwice.cfg`), but does where no two reviews of
one order overlap (`ReviewsApartChargeOnce`). A rejection after an approval refunds nothing, and the next approval
charges again; the plan of a refund row (migration-plan.md:299) has no code.

### AuthSessions and AuthTabs

`session[sid]` is the Redis hash; `cred` the fingerprint of the password that is committed. A handler reads
the user's row (`RefreshRead`, `LogoutRead`) and runs its script later (`RefreshRotate`, `LogoutRevoke`), and
the password may change between the two. Refusing the previous token within the grace spares the session;
outside it the session is ended as stolen.

`AuthTabs` extends it with the clients. A flight is one request from sending to its answer: the server's steps
are `AuthSessions`' own actions, conjoined with what happens to the flight. `current` is the comparison
of `revision` in `requestAccess`. The web app clears its tokens on any failure of a refresh, the mobile
app only when the server refused (`Mobile`).

### ReviewJobs

One job. `row` and `lease` are its two Redis keys, `ready` and `later` its Celery messages by number of
retries, `task[w]` what a worker process does. Time is counted in the 30 seconds of a retry; a lease and a task have
so much left, and `Tick` takes from both. Nothing checks the lease after it was taken: that two workers do not
run one review rests on `time_limit=1860 < ex=1900` alone, and `LeaseOutlives` is that argument as an
invariant. `LoseWorker` is a lost worker (its message comes back), `Redeliver` a worker out of the broker's reach (its
message comes back while it runs on), `Overrun` the hard limit, `Raises` a Redis command whose answer
does not come, done or not, or the soft limit, and `ClientFails` the same for the web worker.

### AttendanceRequests

One student. A desk runs one transaction: it reads the request, updates or deletes it (`Mark`, and holds its
row from there), then reads what is approved and writes the day's register with its commit. The register of before
the approvals is noted in the request that first overwrote it (`prev`), and found again through `Snapshot`, the
latest changed request of the day that has one.

The code takes no lock on the day, and none on the request while it decides. Hence `FormIsHeaviest` does not hold
(`MCAttendanceCrossed.cfg`, nine states): a student's edit that has read the request before staff approve it sends the approved
request back to "submitted" and leaves the register with a leave that nothing approved gives. Two approvals of one day at once break it
as well: each sees only its own as approved, and the last writer's status stays, not the heaviest. `crossed`
notes the days on which this can begin: two transactions about one request open together, or two of one
day that have both weighed. `UncrossedIsHeaviest` says that nothing else takes the register from the requests, and
is checked at two desks and proved for any number. That the register comes back to what it was does not hold
even with one desk (`MCAttendanceRestored.cfg`).

Also seen, and not put into a property: `_release_attendance` overwrites a hand edit when another approval
remains, although its docstring (line 291) leaves hand edits alone; a hand edit between the reading of
the snapshot and the commit is lost; an edit that moves a request to another day carries the old day's snapshot.

### ScheduledNotices

`TakeDue` is `publish_scheduled_notices` without ids (SKIP LOCKED: rows of others are passed over), `AskFor`/`TakeAsked`
with one id, which waits for the row; `FindPost` is `attendance_notice` under its advisory lock. Time
is only whether a notice is due; `when` is taken before a manual publication waits for the row, hence `passed`.
Not claimed, because the code does not have it: two manual publications of a repeated notice publish it twice;
a form opened before a once-notice was published and saved afterwards makes it active again with a past time,
and it is published again (an edit sets a new time here); a manual publication that waited computes the
next time from the old `when`.

### CohortDeletion

`admin[d]` is a request in `delete_cohort`, every external deletion and every note of it in `cohort_deletion_jobs`
a step of its own; it may fail (`DeletionFails`) or be lost with its connection (`Crash`) between any two.
`upload[u]` holds the cohorts row from the first step to the last, as `upload_document` does; who inserts a
row of another table holds it shared. A call that failed may have arrived (`UploadFails`), but not later; deleting what
is not there succeeds; the stores are consistent at once. `posts` has no trigger of migration 0017 and
`create_post` does not ask whether a deletion is under way, so a post may come in during one and make
the last transaction refuse: `Guarded` is the tables that have the trigger. The refusal of `op_create_cohort` to
reuse a code with a deletion behind it is not modelled.

### JobIndex

The table's row records the fingerprint of what was indexed; the index is a function from postings to the
fingerprint their vector was made of. `Plan` reads the table once; then each batch is two steps, the call to the
index and the record of it in the table (`DeleteBatch`/`ClearIndexed`, `UpsertBatch`/`MarkIndexed`), with `Stop` anywhere.
Students' link checks (`CheckLink`, `ReopenAlive`) happen during a run; the other steps of the nightly batch do not (it
runs them one after the other, and prune.py:31 asks not to be run during it). `RunMirrors` says that a run that
is not disturbed leaves the index as the table says, whatever happened before, except for the postings whose vector a
stopped run changed without recording it (`lost`). That exception is real: an upload that was not recorded leaves a vector
that no run deletes once its posting closes (`MCJobIndexPruned.cfg`), a deletion that was not recorded a
posting that is not uploaded again if it reopens unchanged, and an unrecorded change is not undone by
a change back. `--adopt` of a closed row records its new fingerprint for its old vector.

Not modelled: the copy of the status in a vector's metadata. A link check sets it to CLOSED
(liveness.py:218), and it is no part of the fingerprint (documents.py:94): a posting reopened before the
next run would stay hidden from the vector search. Two indexers at once are assumed away, as nothing but the schedule
prevents them; pruning deletes by id what it read before writing its backup, also a posting reopened
meanwhile.

### Notebook and SerialRuns

The page is one thread: a step is one callback, and the promise callbacks it leaves come before the next
(`Settled`). `queue` is the chain of promises that `runQueued` builds, each entry with the value `cancel` had;
`Receive` is the runner's `onmessage`, `Boot`, `Load`, `Execute` are the worker, `Continue` what follows the awaited
run, `Begin` the next link. `SerialRuns` is what is promised: one line, served one at a time, one memory that
gradings leave alone; a broken-off cell drops the cells behind it and no problem. Who asks draws a number, and the lowest
number waiting is served. `ServesInOrder` is the refinement: the number of an entry is how many had asked when it joined
(`FirstNumber` plus its place in the queue), `waiting` is what is in the queue and not cancelled, by number, `active` the
head once served, `memory` the kernel.

Also seen: leaving with a problem behind a cell starts a new worker that nobody ends (`behind` in `LeavesNoWorker`;
the comment at pythonRunner.ts:223 says otherwise); a stop during a problem's run leaves the cells behind it queued;
a reset while a cell runs lets that cell write an error and a number on the cleared page afterwards; removing a cell that
waits for input leaves the line waiting until a stop.

### ResumeEditor

A field's value is the set of changes made to it, so that a lost letter is a missing member. `Write` is
`updateResume`: one write on its way, the ones that wait put together; `Answer` invalidates the
snapshot, whose reads (`Take`, `Land`) may cross with everything. `Edit` shows the draft in place of the snapshot; `clean` is
`saveVersion`. The review window locks the editor from `WaitIsOver` to `CloseReview`. Three reads can be under way:
the refetch, that of an applied suggestion and that of closing the window; the refetch when the window gets the
focus reads alike and is left out.

Also seen: a failed write does not keep the review waiting, and applying a suggestion then puts down a draft with text
that was never sent (`failed` excepts it); a suggestion whose answer is lost is never told to the editor; a direct
read may land after a newer refetch (`missed`).

### Where a definition says a little less, or more

- `AuthSessions.Login` reads the password and the row that goes into the session at once (api.py:157 and :163).
- `JobIndex.Plan` reads the postings, their groups and `index_state` at once; only link checks run
  beside an indexer, and one of them between these reads is one before or after `Plan`.
- `CohortDeletion.SetCurriculum` sets no key or one that no modelled upload made: two such keys are not told apart.
- `Notebook.Warm` asks for a kernel never started; pythonRunner.ts:179 asks for no worker and no error, which
  differs only where a run is begun and stopped before the timer that warms the kernel, 300 ms after the screen opens.
- `ResumeEditor.ApplySuggestion` may put the draft down (`clean`) also after the screen was left and opened again, where
  the old screen's `finishSave` would: the model has more behaviours than the code.
- `ResumeEditor` opens the review and locks the editor in one step, with no rendering between them.

## 3. What the runs show

| run | instance | states | shows |
|---|---|---|---|
| `quests` | 2 workers, 1 student, 1 quest, 3 submissions, rewards and limits up to 2 | 462 929 | the five properties of `Quests`, with quests edited at any moment |
| `backend` | the systems below, one at a time | 790 328 | their nineteen properties |
| - records | 2 workers; four students: blog at the cap with quizzes, certificates with study, three study certificates, one edited in place | | caps, tiers and payments |
| - purchases | 2 reviewers; a request of 200 or 300, saved and edited at any moment, approved once without a review; 1 adjustment | | charged or given; balance is ledger |
| - attendance | 2 desks, 2 requests, 2 days, 4 transactions, hand edits | | the register shows the heaviest approval unless transactions crossed |
| - notices | 2 publishers; a repeated notice, a repeated and a single one about attendance; 2 times, 1 edit | | published once; one attendance post |
| - deletion | 2 requests, 3 uploads, a guarded and an unguarded table | | nothing left, always resumable |
| - index | 2 postings, 2 contents and one without requirements, 4 changes, 1 stop | | a run mirrors the table |
| - sessions | 2 handlers, 3 sessions, 4 tokens, 2 changes of password | | single use, ended stays ended, no new fingerprint for old tokens |
| - tabs | 2 tabs, 2 sessions, 3 tokens, losses and a duplicated tab | | late answers; no false theft |
| `student_screens` | notebook: 2 cells, a problem, 2 runs asked for; résumé: 3 edits or saves, 1 loss, 1 review; review job: 2 workers, 2 clients, 2 sends, 2 mishaps | 385 607 | line, numbers and kernel agree, the line empties; nothing typed is lost, the review opens; one worker on a job, complete stays, answered |
| `records_undone` | one blog record edited in place | violated | an approval undone by the generic upsert keeps its payment |
| `purchases_twice` | as in `backend` | violated | two reviewers approving at once charge twice |
| `attendance_crossed` | 2 desks, 2 requests, 4 transactions | violated | an edit overtaken by an approval leaves the register without its request |
| `attendance_restored` | 1 desk, 2 requests, 6 transactions | violated | the register does not come back |
| `cohort_twice` | 2 requests, 2 uploads | violated | a complete deletion becomes a failed one |
| `job_index_pruned` | 5 changes | violated | a pruned posting leaves its vector |
| `auth_tabs_mobile` | one mobile app that loses answers | violated | a lost answer signs the app out at its next refresh |
| `review_jobs_workflow` | the review job of `student_screens`, with the workflow's task | violated | a redelivered job is dropped with nobody at work |
| `resume_review` | 1 edit, 1 review | violated | an edit just after the review overwrites what it wrote |

The properties, by what they protect:

- **Quests.** `OnePending`, `WithinLimit`, `LedgerFollowsStatus`, `StatusOnlyMovesForward`, and
  `BalanceIsWhatWasGranted` (a sum over another table, kept by relative updates).
- **Missions.** `PaidFollowsStatus` (ledger, `mileage_amount` and status agree), `CapKept`, `TiersAddUp`
  (payments equal the tier reached, in whatever order records were approved; not after an approval was
  undone, when later tiers are computed from fewer records), `PaysOnlyOnApproval`.
- **Purchases.** `NeverFree`, `BalanceIsLedger`.
- **Sessions.** `SingleUse`, `KeepsItsFingerprint`, `EndedStaysEnded`; of the clients `HoldsItsSignIn` and
  `NeverThrownOut`.
- **Attendance.** `UncrossedIsHeaviest` (register and requests agree, whatever desks do, unless they crossed).
- **Notices.** `PublishedOnce`, `OneAttendanceRow`.
- **Cohort deletion.** `GoneLeavesNothing`, `UnfinishedCanResume` (what would keep a deletion from being taken up
  again: a row in a guarded table, a document it does not know of, a deletion noted that is not done),
  `SearchedIsThere`.
- **Job index.** `RunMirrors`.
- **Notebook.** `NumbersAreOfThisKernel` and `NumberedAreRemembered` (what the page shows of the kernel is so),
  `NothingIsStuck`, `ResetForgets`, `LeavesNoWorker`, the refinement `ServesInOrder` and the liveness property
  `TheLineEmpties`.
- **Résumé.** `NothingUnsent`, `PutDownIsOnServer` (no text is lost between draft and server),
  `OneWriterAtATime`, `CacheSettles`, and the liveness property `ReviewOpens`.
- **Reviews.** `OneAtWork`, `CompleteStays`, and the liveness property `Answered`.

### Bounds

Two workers make every race of two operations; the properties about pairs (two submissions of one student, two
reviewers of one request) need no third, and the theorems cover any number. Three submissions
are one more than the highest limit of 2, so that the limit is met and passed over. Amounts are chosen to meet
the code's thresholds: two blog records of 60 000 pass the cap of 100 000, two passed quizzes reach one tier
and pay it once, three study certificates reach theirs, a PCCE and a PCCP certificate cross both coding
amounts. `PaidBound`, `MaxCharges`, `MaxAdjusts` stop reviews from starting once an order or a record has been
through the interesting cycle (approved, undone, approved again), `MaxGiven` keeps the approvals without a review
to one. Orders meet only in the balance, to which each adds its own charges, so one order is enough beside an adjustment. Three tokens in two sessions let a tab be
refreshed twice, or refreshed once and signed in again, while the earlier answer is still on its way. In
`ReviewJobs` the lease lives two ticks, the task one and there are two retries: the order of the three limits is
the code's (1860 s < 1900 s, 70 x 30 s > 1900 s), and `JobsAssumption` asks for no more. Two mishaps
are a redelivery and a loss, or two losses.

Four transactions at two desks are an edit against an approval with two to lead up to it, or two approvals of
one day. `AttendanceBound` has staff set by hand only what a request has set before, since to a request a day that staff have set
and one that nobody has set differ only in what is noted; and it ends behaviours where both days have been crossed, of
which `UncrossedIsHeaviest` says nothing more; two
slots let a repeated notice come due again while its publication is open; three uploads are one replaced, one failed
and one current; two postings are enough for a repost and for a group, and three
fingerprints for a change of content and for one without requirements, which is not indexed; four changes
open, close and reopen a posting between runs. Two runs asked for make a line; a third change
in the résumé waits while a write is on its way and another is put together with it. `NotAllAtOnce` keeps the third change,
a lost request and a review from coming in one behaviour (any two of them do).
`MaxTabsSids` and `MaxTabsJti` bound the tabs apart from the handlers of `AuthSessions`.

Symmetry is declared for actors, submissions, requests, sessions, uploads and tabs, which are only compared, and not in
`MCStudentScreens.cfg`, whose run has liveness properties. `MCBackend` has one group of
twelve permutations for all its systems: only one of them moves in a behaviour, so every pair of actors may turn
together, and the pairs of rows together with the odd permutations of the uploads, which permute the
sessions too. Deadlock is checked for quests; the other systems
may come to rest when their bounds are used up.

### Fairness

`ReviewJobs`, `Notebook` and `ResumeEditor` claim that something happens. `FairSpec` of `ReviewJobs` assumes weak fairness of: a web worker that has
begun to send (`Send`, `Undo`: the next lines of one function); the delivery of a message that is ready
(Celery workers poll); each step of a running task, among them the answer of the AI server (`timeout=600`
and the soft limit make it come); the hard limit; and time. It does not assume that clients send a job anew, that a
message expires, or any mishap. `Answered` excepts what the code has no answer to: a job is not promised an end after two
mishaps (retries spent while another holds the lease are not given back), after the hard limit, after an
exception outside the task's `try`, or when the row has expired.

`NotebookFairness` is weak fairness of the page's and the worker's own steps (an event loop goes on) and of the
runner's timer; not of anything the student does, so that `TheLineEmpties` excepts a run that waits for
input. The code of a cell may loop for ever: the timer is what gets the line through. `ResumeFairness` is weak fairness of
the end of a request (`Carry`, `Answer` or `WriteFails`: a browser's request ends with an answer or an error).

## 4. What is proved

All theorems are about the module's specification (`Spec` of `Quests`, `MissionRecords` and `ReviewJobs`, `PurchasesSpec`,
`AttendanceSpec`, `SessionsSpec`, `TabsSpec`, `NoticesSpec`, `CohortSpec`, `IndexSpec`, `NotebookSpec`, `ResumeSpec`), for any
number of workers, clients, students, quests, orders, records, requests, sessions, uploads, tables, postings, notices and
cells, from the named assumptions of each module: bounds are natural numbers; `JobsAssumption` orders the
limits in time; the quests, a student's slots, the orders and the records are finitely many, as rows of a table are, since sums
run over them. Every safety and every action property of the passing runs is the subject of a theorem, and so is the refinement.

A few theorems have a hypothesis, and each is needed. `BehavedTabsStaySignedIn` excludes the mobile app that loses
answers, which is the run `auth_tabs_mobile`. `ReviewsAreNeverForgotten` is about the reviews' task and not the workflow's, which
has no retries. The others are the counterparts of what the code does not keep (section 5): the property holds once
the behaviour is so restricted, for any number of everything else, so that a repair
that brings the restriction about is enough.

| theorem | property | holds while | in the code, for instance |
|---|---|---|---|
| `UndoingTakesBack` | `UndoneIsTakenBack` | edits in place leave the status alone, and none overlaps a review of its record (`EditsKeepOut`) | a check and a row lock in `op_upsert_sql` |
| `ReviewsApartChargeOnce` | `ChargedOncePerApproval` | no two reviews of one order overlap (`OneReviewPerOrder`) | a locking read in `resolve_row` |
| `OneDeskFollowsRequests` | `FormIsHeaviest` | attendance requests are served one at a time | a lock on the student at the start of each transaction |
| `FailedOnesCanBeRetried` | `FailedCanBeRetried` | requests to delete come one after the other (`OneDeletionAtATime`) | the job read again under the lock |
| `OnlyEditsFromBeforeOverwrite` | `NeitherOverwrites` | the student edits the text or saves only on a screen that shows what the review has written (`EditsWhatIsThere`) | the lock kept until the reviewed text has landed |
| `PruningIsSafe` | `PrunedLeavesNoVector` | no run is stopped between a vector and its record, and no posting adopted with another content (`lost = {}`) | recording that a vector is about to change |

These hypotheses are about schedules and not about results: reviewers that follow each other, runs that are not killed and
students who wait for a screen are in every instance of the runs. `ReleaseRestores` has no counterpart: notes that other
requests left behind and hand edits under them break it too, and a hypothesis that excludes all of it would come close to
the property itself. For the third and the sixth, a theorem says more without a hypothesis: `RegisterFollowsRequests` and
`OnlyStoppedRunsLeaveVectors`. For the workflow's dropped message, `UndisturbedJobs` has `DropsOnlyAfterALoss`.

**`LedgerSums`**: lemmas on `SumFunctionOnSet` over a finite set: what one row adds (`SumAdd`, `SumRemove`, `SumUpdate`),
that only the rows count (`SumSame`, `SumSkipZeros`), types. The sum of the library is a recursion that takes the elements in
an unknown order; it is shown to be a function on subsets (`SumIsTable`) and then not to depend on the order. Induction on
the set is a smallest counterexample (`MinimalSubset`), from the library's fact that proper inclusion among the subsets
of a finite set is well-founded.

**`QuestsProofs`**: `TypeCorrect`, `Invariance`, `AlwaysOnePending`, `AlwaysWithinLimit`,
`LedgerAlwaysFollowsStatus`, `StatusAlwaysMovesForward`, `BalanceIsAlwaysWhatWasGranted`. `OnePending` and `WithinLimit` are not
inductive: they need that what a transaction has counted still holds when it writes. `IInv` adds `LocksExclude` (the advisory
lock and the row lock exclude), `RowsHaveQuests` (a limit read earlier is at most the highest), and
`RequestsRely` (a submission that counted still has room; a review that locked still fits the
status). The case that carries the proof is a submission and a review of one pair: whoever writes first could
spoil the other's count, and does not, because the submission was let in only with none pending while
the review holds a pending one. For the balance, each write changes the ledger of one submission and the
balance by the same amount, and `SumUpdate` says that the sum moves by it too.

**`StudentRequestsProofs`**, of purchases: `PurchasesInvariance`, `PurchasesTypeCorrect`, `ApprovedIsNeverFree`,
`BalanceIsAlwaysTheLedger`. `NeverFree` needs `ReviewsRely`: a review that read
"approved", and will therefore not charge, read it of an order that had been charged, and charges are never
undone. `BalanceIsLedger` is kept by each step
alone: a charge adds to what its order has cost and takes from the balance the total that the review has read
(`SumUpdate`). For `ReviewsApartChargeOnce`, a request that a review saw as not approved is still so when it decides, or
was given away meanwhile; so an order has been charged at most as often as it became approved (`ChargesAccounted`).

Of mission records: `MissionInvariance`, `MissionTypeCorrect`, `PaidAlwaysFollowsStatus`, `CapIsAlwaysKept`,
`TiersAlwaysAddUp`, `PaidOnlyOnApproval`. `MissionInv` adds `OneReview` (the advisory lock), `RequestsRely` (what a review has
read, its record and the reward computed from the others, still holds when it writes) and `PaidAtAll` (nothing negative is ever
paid, and an unsubmitted record was paid nothing). A reward for blogs is cut to what the other approved ones leave of
the cap, so adding it keeps the cap; a tier's reward is what all approved records of the kind reach less what the others
reach, so the sum is the tier's in whatever order they are approved; taking an approval back removes one summand. `UndoingTakesBack` speaks of all records: what
the ledger paid is what the row's details say, or what a delayed edit will put back, because its details are still those it read
(`LedgerKept`).

Of attendance requests: `AttendanceTypeCorrect` and `RegisterFollowsRequests`, without a hypothesis and for any number of
desks. `AttendanceInv` adds, for each transaction, `Follows`: what it has read of its request is still so, and what it is about
to write is what the requests will call for once it has committed; or `Strays`: every day it is about has
been crossed. A step of one desk makes another stray or leaves what that one relies on alone (`OtherStays`), and days once
crossed stay so; `CrossingsCounted` says that every pair of transactions that meets has been noted. From it,
`OneDeskFollowsRequests` has `FormIsHeaviest` itself where requests are served one at a time. The heaviest of a day
depends only on its approved rows (`SameHeaviest`, `SameApproved`); that there is a heaviest, and a latest snapshot among any number of requests, is proved
(`HeaviestIsOne`, `LatestIsOne`), and a snapshot is never an entry that a request made (`SnapshotType`), so that a
release never leaves the register claiming an approval.

**`SessionsProofs`**, of the server: `SessionsInvariance`, `TokensAreUsedOnce`, `TokensKeepTheirFingerprint`, `SessionsStayEnded`.
`SessionsInv` adds `TokensAreFresh` (ids are new and belong to one session) and `NamesUnused` (a session names a
token not yet exchanged). That a session stays ended is a property of steps: a refresh on its way finds no session,
and a login or a change of password takes an id not used before.

Of the clients: `TabsInvariance`, `TabsHoldTheirSignIn`, `BehavedTabsStaySignedIn`. `TabsInv` adds `FlightsFit`: the request whose
answer still counts is the refresh of the very token its tab holds, so a late answer either counts for the same sign-in or
not at all. `BehavedInv` adds `OneAwaited` (a tab awaits one refresh) and `UnsharedIsValid`: nobody else uses the tokens of a session that is not
shared (`Alone`), so its tab holds the present token, or the present token is in the answer on its way to it (`Valid`). A lost
answer breaks `Valid`: the web app then clears its tokens and is not thrown out, the mobile app keeps the old one.

**`ReviewJobsProofs`**: `ReviewJobsInvariance`, `RunsAlone`, `ReviewsStayComplete`, `UndisturbedJobs`,
`ReviewsAreNeverForgotten`. `IInv` has `LeaseOutlives` (a worker past
the lease owns it, and has less time left than the lease) and `NotYetComplete` (a run that goes on found
its job not complete, and as it is alone nobody completed it since). `TickStep` is where the two limits are
compared. `ReviewsAreNeverForgotten` is what of `Answered` is safety: someone is always on a job that is to be answered and was disturbed at most
once. `Undisturbed` says in which one place a job is before the first loss; after it the message that comes back has retries
enough to outlast the lease of whoever was lost (`InTime`), since a tick takes from the lease what a retry takes from
the message. That is where the third limit, `MaxRetries`, enters.

**`BackendProofs`**, of scheduled notices: `NoticesInvariance`, `NoticesTypeCorrect`, `AlwaysPublishedOnce`, `AlwaysOneAttendanceRow`. The
invariant is `LocksExclude` (rows and the advisory lock), `PostStaysFound` (a post found under the lock is there until the
commit), `RowsStayDue` (a row that a transaction has locked is still to be published) and
`CountsAgree` (a repeated notice that is due, or a single one that is active, has not been posted since).

Of cohort deletion: `CohortInvariance`, `CohortTypeCorrect`, `AlwaysGoneLeavesNothing`, `AlwaysCanResume`,
`AlwaysSearchable`. The
invariant is `LocksAgree` (whoever holds the cohorts row alone is alone), `JobAgrees` (what a job has noted as gone is
gone and nobody can bring it back), `DocumentsAgree` (no vector without its object, and every object among the targets once they are listed) and `AdminsAgree` (what a request has in memory against the job). That nothing is left rests on
uploads being shut out as soon as a job exists and on the listing coming after that. `FailedOnesCanBeRetried` adds that whoever
works on a deletion has a cohort to delete, and that one which is gone was deleted to the end (`GoneIsComplete`).

Of the job index: `IndexInvariance`, `IndexTypeCorrect`, `RunsAlwaysMirror`. `IndexInv` has `VectorsRecorded` (a vector is the one
the table records, but for the batch being written and for what a stopped run left), `BatchesPlanned` (batches are part of the
plan) and `PlansMirror` (while nobody changes the table, what is recorded and what is left of the plan together
make up what is to be searched). When the plan is used up, this is `RunMirrors`. `OnlyStoppedRunsLeaveVectors`
follows the rows that go: only pruning takes them away, and what is pruned has no recorded fingerprint, so by
`VectorsRecorded` no vector.

Of all of them, with the systems of `StudentRequestsProofs` and `SessionsProofs`: `SystemsKeepApart` says that `MCBackend`'s
specification implies that of each system it puts side by side (of the tabs, where they are the one that moves), so that every
theorem holds of the run that TLC explores; `BackendTypeCorrect` is its first consequence, from the type correctness of each.

**`NotebookProofs`**: `NotebookInvariance`, `NoCellIsStuck`, `NumbersTellTheKernel`, `TheKernelRemembers`, `AResetForgets`,
`LeavingEndsTheWorker`, `RunsAreServedInOrder`, `TheLineNeverHangs`, `TheLineIsWorkedOff`. The invariant `NotebookInv` is `PipeAgrees` (what the page waits for, the worker's job and the messages
between them), `LineAgrees` and `ShownAgrees` (the queue against what cells show), `NumbersAgree`, `KernelAgrees` and
`LeftAgrees`. `Continue`, where one callback settles all of these, is the bulk of it. The refinement follows from it step by
step: `JoinAsks`, `BeginServes`, `ContinueEnds`, and for an entry that leaves the queue `HeadLeaves`, each a step of `SerialRuns`
or a stutter; an entry cancelled in the queue waits no more under the mapping, so its removal later is a stutter. `TheLineNeverHangs` and
`TheLineIsWorkedOff` are the two facts under `TheLineEmpties`: with runs in line and no input to wait for a step is possible, and every
such step makes a measure smaller (`Toil`: twenty for each entry, and what is left of the one served: starting the worker,
loading, running, the messages on their way), which grows only when a run is asked for or an input answered.

**`StudentScreensProofs`**, of the résumé editor: `ResumeInvariance`, `NothingIsEverUnsent`, `AlwaysOneWriter`, `DraftsArePutDownSafely`,
`TheCacheSettles`, `AReviewNeverWaitsInVain`, `OnlyEditsFromBeforeOverwrite`. The invariant is
`NothingLost` (every change typed is on the server, on its way, waiting, or in a field whose write failed) and `CleanIsLast`
(a save that will put the draft down carries the last text). `CacheSettles` needs `SnapshotIsRenewed`, about the reads on
their way: with no write pending the snapshot is the server's or a read is still to land, and the refetch that will land,
unless it has been overtaken, carries what the server has.

`AReviewNeverWaitsInVain` is what of `ReviewOpens` is safety: a review waits only for a write under way,
and each end of a write brings it nearer. `OnlyEditsFromBeforeOverwrite` follows the review's change through the writes: as long
as no write without it can be made or is under way (`WritesHaveReview`, `NothingHasReview`), the server keeps it.

Of the two screens and the background review: `ScreensKeepApart` (`MCStudentScreens`' specification implies that of each of the
three, fairness included) and `ScreensTypeCorrect`.

**Only model-checked:** liveness itself (`Answered`, `TheLineEmpties`, `ReviewOpens`) and what speaks of ENABLED: the step from the
facts above to "eventually" rests on fairness and on counting down, which is induction. Every invariant and every action
property of the passing runs has its theorem. `ReleaseRestores` has none, as said above.

## 5. Disagreements met

1. `lms/commands.py:619`: an approval undone through the generic upsert keeps its payment, against the promise of
   `op_review_record` (run `records_undone`).
2. `lms/content_commands.py:306`: two simultaneous approvals of one purchase charge it twice, against "approving
   charges the mileage and leaves a record" (run `purchases_twice`). Saved or edited to be approved, it is not charged at
   all (content_commands.py:276, commands.py:619), which `NeverFree` excepts by `given`.
3. `lms/auth_sessions.py:33`: a refresh whose answer is lost costs the mobile app its session at the next refresh,
   against the comment that a network error is no reason to sign out (run `auth_tabs_mobile`).
4. `lms/review_jobs.py:167`: the question workflow drops a redelivered message because "its original worker is on
   it", also when that worker is gone (run `review_jobs_workflow`).
5. `review/ReviewDock.tsx:94`: closing the review window unlocks the editor before the reviewed text has been read, and
   the next letter overwrites it, against "read only while it is reviewed, so that the two do not overwrite each other" (run
   `resume_review`).
6. `lms/cohort_lifecycle.py:275`: a request that prepared before another finished the deletion turns the complete job into a
   failed one, and its answer asks to try again at a cohort that is gone (run `cohort_twice`).
7. `lms/attendance_requests.py:249`: deleting the request that holds the register of before leaves the register blank when the
   last approval goes, against "with none left it goes back to the state before the requests" (run `attendance_restored`).
8. `job_matching_bot/retrieval/upsert.py:235`: a run killed between writing vectors and recording them, and the posting's
   closing, leave a vector whose row is pruned, against "postings still in Pinecone are kept" (prune.py:28; run
   `job_index_pruned`).
9. `lms/attendance_requests.py:197`: an edit that read a request before its approval writes it back to "submitted" after, and
   the register keeps what the approval wrote, against "an approved request cannot be edited" and "the heaviest of those
   approved is left in the register" (run `attendance_crossed`).

## 6. Plan

What is left, the most important first.

1. `StudyNotes` and `PracticeJobs`: claims that expire while their owner runs on, and results saved by id whatever
   has come since; an abstract `Claim` that both, and the lease of `ReviewJobs`, implement.
2. Notice vectors: the chunk count read in the transaction and the vectors written after it; edits that cross leave
   vectors of old chunks. To be composed with `ScheduledNotices`.
3. `AuthTabs`: the change of password on the screen (session.tsx:195 takes the answer without asking who is signed in
   now, which `HoldsItsSignIn` would catch).
4. `JobIndex`: the status in the vectors' metadata.
5. `AttendanceRequests`: with which notes and hand edits `ReleaseRestores` holds.
6. The tutor's limits, read before the model's call and recorded after it; assessments; the nightly crawl's stages
   and queue; the client's polling of reviews (reviewSession.ts); the stages of the résumé review service.

## 7. Not modelled, and why

Text, formatting, listings, notifications and files; language models, vector searches and git clones, which are
answers from outside; what signatures and hashes guarantee (tokens cannot be made up, fingerprints differ); the
in-memory session store used in development; user interfaces other than their sessions, the notebook and the
résumé editor; deployment; the retired Firebase backend. The polling of a review job that exists only reads and is
left out of `ReviewJobs`. The `mileage_balance` of one student is modelled apart for quests and for purchases,
since all updates of it are relative; the foreign-key and row locks between the two services can deadlock, which
PostgreSQL breaks by aborting one transaction (`Abort`). Most of the repository's lines are screens, prompts, seeds and
one-statement commands with no state of their own to check: the models cover the parts whose steps
interleave, and a small share of the lines.
