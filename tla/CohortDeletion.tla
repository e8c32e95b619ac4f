--------------------------- MODULE CohortDeletion ---------------------------
(***************************************************************************)
(* The deletion of a cohort: lms_api/lms/cohort_lifecycle.py, against the  *)
(* uploads of cohort_documents.py, the curriculum commands of commands.py, *)
(* the database guard of migration 0017 and the feed of post_service.py.   *)
(*                                                                         *)
(* One cohort.  Its documents are objects of a store and vectors of an     *)
(* index, both out of the database's transactions; the database points to  *)
(* the newest of each kind.  A deletion notes what it is about to delete,  *)
(* deletes it piece by piece outside, notes each piece, and deletes the    *)
(* rows last; it may fail or be lost anywhere and be asked for again.      *)
(* Whoever inserts a row of the cohort holds the cohorts row until its     *)
(* transaction ends, shared (the foreign key's lock), and uploads and the  *)
(* deletion hold it alone.                                                 *)
(*                                                                         *)
(* A document's key is the name of its upload (uuid4), and its namespace   *)
(* is a hash of that.  Deleting what is not there succeeds, as it does in  *)
(* S3.  Names, the roles allowed and the answers are left out.             *)
(***************************************************************************)
EXTENDS FiniteSets

CONSTANTS
    Admins,     \* requests to delete the cohort
    Uploads,    \* uploads of documents, each made once
    Tables,     \* tables with a foreign key to cohorts
    Guarded     \* those with the trigger of migration 0017

DocumentKinds == {"curriculum", "policy"}
\* `other': a key the rag uploads did not make
Foreign == {"none", "other"}

ASSUME CohortAssumption ==
    /\ Guarded \subseteq Tables
    /\ Uploads \cap Foreign = {}

JobStates == {"none", "preparing", "deleting", "failed", "complete"}
Jobs == [state: JobStates, listed: BOOLEAN, targets: SUBSET Uploads,
         vectors: SUBSET Uploads, objects: SUBSET Uploads]
UploadSteps == {"locked", "put", "indexed"}
DeletionSteps == {"locked", "listed", "cleaning", "vectorsGone", "objectGone"}

VARIABLES
    cohort,     \* the cohorts row
    pointer,    \* curriculum_pdfs and policy_documents: storage_key
    rows,       \* tables in which the cohort has rows
    inserting,  \* tables into which an open transaction has inserted one
    upload,     \* what each upload is doing
    objects,    \* the store: keys under cohorts/<code>/
    vectors,    \* the index: keys whose namespace holds vectors
    job,        \* cohort_deletion_jobs; `listed' once targets is not null
    advisory,   \* who holds the advisory lock
    admin       \* what each request is doing, and the keys it has in memory

cohortVars ==
    <<cohort, pointer, rows, inserting, upload, objects, vectors, job, advisory, admin>>

Resting == [at |-> "idle", keys |-> {}]

CohortTypeOK ==
    /\ cohort \in {"there", "gone"}
    /\ pointer \in [DocumentKinds -> Uploads \cup Foreign]
    /\ rows \subseteq Tables /\ inserting \subseteq Tables
    /\ upload \in [Uploads -> [at: UploadSteps \cup {"new", "over"}, kind: DocumentKinds]]
    /\ objects \subseteq Uploads /\ vectors \subseteq Uploads
    /\ job \in Jobs
    /\ advisory \subseteq Admins
    /\ admin \in [Admins -> [at: DeletionSteps \cup {"idle", "prepared"}, keys: SUBSET Uploads]]

Unfinished == job.state \in {"preparing", "deleting", "failed"}
Pointed == {pointer[k] : k \in DocumentKinds} \ Foreign

\* The cohorts row: who may lock it for itself, and who may share it
Uploading == {u \in Uploads : upload[u].at \in UploadSteps}
Lockable == cohort = "there" /\ Uploading = {} /\ inserting = {}
Shareable == cohort = "there" /\ Uploading = {}

-----------------------------------------------------------------------------
(* Rows of other tables *)

\* The fault of a trigger that does not look for a deletion
Unguarded(t) == Shareable
\* lms_block_deleting_cohort_write, or the foreign key alone
Writable(t) == Shareable /\ (t \in Guarded => ~Unfinished)

Insert(t) ==
    /\ t \notin rows \cup inserting
    /\ Writable(t)
    /\ inserting' = inserting \cup {t}
    /\ UNCHANGED <<cohort, pointer, rows, upload, objects, vectors, job, advisory, admin>>

EndInsert(t) ==
    /\ t \in inserting
    /\ inserting' = inserting \ {t}
    /\ rows' \in {rows, rows \cup {t}}
    /\ UNCHANGED <<cohort, pointer, upload, objects, vectors, job, advisory, admin>>

DeleteRow(t) ==
    /\ t \in rows
    /\ rows' = rows \ {t}
    /\ UNCHANGED <<cohort, pointer, inserting, upload, objects, vectors, job, advisory, admin>>

\* op_save_curriculum_pdf and op_clear_curriculum_pdf, with a key of the page's
SetCurriculum(key) ==
    /\ Lockable /\ ~Unfinished
    /\ key # pointer["curriculum"]
    /\ pointer' = [pointer EXCEPT !["curriculum"] = key]
    /\ UNCHANGED <<cohort, rows, inserting, upload, objects, vectors, job, advisory, admin>>

-----------------------------------------------------------------------------
(* Uploads: upload_document, with the cohorts row locked throughout *)

UploadStep(u, from, to) ==
    /\ upload[u].at = from
    /\ upload' = [upload EXCEPT ![u].at = to]
    /\ UNCHANGED <<cohort, rows, inserting, job, advisory, admin>>

BeginUpload(u, kind) ==
    /\ upload[u].at = "new"
    /\ Lockable /\ ~Unfinished
    /\ upload' = [upload EXCEPT ![u] = [at |-> "locked", kind |-> kind]]
    /\ UNCHANGED <<cohort, pointer, rows, inserting, objects, vectors, job, advisory, admin>>

PutObject(u) ==
    /\ UploadStep(u, "locked", "put")
    /\ objects' = objects \cup {u}
    /\ UNCHANGED <<pointer, vectors>>

\* The fault of publishing what has not been indexed
Unindexed(u) == "put"
\* index_document has returned
PublishedFrom(u) == "indexed"

IndexDocument(u) ==
    /\ UploadStep(u, "put", "indexed")
    /\ vectors' = vectors \cup {u}
    /\ UNCHANGED <<pointer, objects>>

Publish(u) ==
    /\ UploadStep(u, PublishedFrom(u), "over")
    /\ pointer' = [pointer EXCEPT ![upload[u].kind] = u]
    /\ UNCHANGED <<objects, vectors>>

\* An error, a timeout or a crash: rolled back, but what was sent may have
\* arrived.
UploadFails(u) ==
    /\ u \in Uploading
    /\ UploadStep(u, upload[u].at, "over")
    /\ \/ UNCHANGED <<objects, vectors>>
       \/ upload[u].at = "locked" /\ objects' = objects \cup {u} /\ UNCHANGED vectors
       \/ upload[u].at = "put" /\ vectors' = vectors \cup {u} /\ UNCHANGED objects
    /\ UNCHANGED pointer

-----------------------------------------------------------------------------
(* The deletion *)

\* _prepare_job
Prepare(d) ==
    /\ admin[d] = Resting
    /\ Lockable
    /\ rows = {} /\ \A k \in DocumentKinds : pointer[k] # "other"
    /\ job.state # "complete"
    /\ job' = IF job.state = "none" THEN [job EXCEPT !.state = "preparing"] ELSE job
    /\ admin' = [admin EXCEPT ![d].at = "prepared"]
    /\ UNCHANGED <<cohort, pointer, rows, inserting, upload, objects, vectors, advisory>>

DeletionStep(d, from, to, keys) ==
    /\ admin[d].at = from
    /\ admin' = [admin EXCEPT ![d] = [at |-> to, keys |-> keys]]
    /\ UNCHANGED <<cohort, pointer, rows, inserting, upload>>

\* pg_try_advisory_lock: who does not get it is turned away
TryLock(d) ==
    /\ \/ advisory = {} /\ DeletionStep(d, "prepared", "locked", {}) /\ advisory' = {d}
       \/ advisory # {} /\ DeletionStep(d, "prepared", "idle", {}) /\ UNCHANGED advisory
    /\ UNCHANGED <<objects, vectors, job>>

\* The fault of looking only where the database points
OnlyPointed == objects \cap Pointed
\* _list_owned_keys: replaced and failed uploads too
Listed == objects

ListKeys(d) ==
    /\ ~job.listed /\ \A k \in DocumentKinds : pointer[k] # "other"
    /\ DeletionStep(d, "locked", "listed", Listed)
    /\ UNCHANGED <<objects, vectors, job, advisory>>

SaveTargets(d) ==
    /\ DeletionStep(d, "listed", "cleaning", {})
    /\ job' = [job EXCEPT !.state = "deleting", !.listed = TRUE,
                          !.targets = admin[d].keys \cup Pointed]
    /\ UNCHANGED <<objects, vectors, advisory>>

\* A job whose targets were listed before goes on where it stopped.
Resume(d) ==
    /\ job.listed
    /\ DeletionStep(d, "locked", "cleaning", {})
    /\ job' = [job EXCEPT !.state = "deleting"]
    /\ UNCHANGED <<objects, vectors, advisory>>

\* The target _cleanup_targets is at: those before it are deleted, those after
\* it untouched.
At(k) ==
    /\ k \in job.targets \ job.objects
    /\ \A j \in job.targets \ {k} : j \in job.vectors <=> j \in job.objects

DeleteVectors(d, k) ==
    /\ At(k) /\ k \notin job.vectors
    /\ DeletionStep(d, "cleaning", "vectorsGone", {k})
    /\ vectors' = vectors \ {k}
    /\ UNCHANGED <<objects, job, advisory>>

SaveVectors(d) ==
    /\ DeletionStep(d, "vectorsGone", "cleaning", {})
    /\ job' = [job EXCEPT !.vectors = @ \cup admin[d].keys]
    /\ UNCHANGED <<objects, vectors, advisory>>

DeleteObject(d, k) ==
    /\ At(k) /\ k \in job.vectors
    /\ DeletionStep(d, "cleaning", "objectGone", {k})
    /\ objects' = objects \ {k}
    /\ UNCHANGED <<vectors, job, advisory>>

SaveObject(d) ==
    /\ DeletionStep(d, "objectGone", "cleaning", {})
    /\ job' = [job EXCEPT !.objects = @ \cup admin[d].keys]
    /\ UNCHANGED <<objects, vectors, advisory>>

\* The last transaction of _run_deletion, with _delete_database_rows, and the
\* release of the lock
Finish(d) ==
    /\ admin[d].at = "cleaning"
    /\ job.targets \subseteq job.vectors \cap job.objects
    /\ Lockable
    /\ rows = {} /\ Pointed \subseteq job.targets
    /\ cohort' = "gone"
    /\ pointer' = [k \in DocumentKinds |-> "none"]
    /\ job' = [job EXCEPT !.state = "complete"]
    /\ advisory' = {}
    /\ admin' = [admin EXCEPT ![d] = Resting]
    /\ UNCHANGED <<rows, inserting, upload, objects, vectors>>

\* An exception anywhere under the lock, among them what the last transaction
\* refuses: a cohort that is gone, a row of it, another document
DeletionFails(d) ==
    /\ admin[d].at \in DeletionSteps
    /\ DeletionStep(d, admin[d].at, "idle", {})
    /\ job' = [job EXCEPT !.state = "failed"]
    /\ advisory' = {}
    /\ UNCHANGED <<objects, vectors>>

\* The request is lost, its connection and the lock with it.
Crash(d) ==
    /\ admin[d] # Resting
    /\ DeletionStep(d, admin[d].at, "idle", {})
    /\ advisory' = advisory \ {d}
    /\ UNCHANGED <<objects, vectors, job>>

-----------------------------------------------------------------------------
CohortInit ==
    /\ cohort = "there"
    /\ pointer = [k \in DocumentKinds |-> "none"]
    /\ rows = {} /\ inserting = {}
    /\ upload = [u \in Uploads |-> [at |-> "new", kind |-> "policy"]]
    /\ objects = {} /\ vectors = {}
    /\ job = [state |-> "none", listed |-> FALSE, targets |-> {}, vectors |-> {}, objects |-> {}]
    /\ advisory = {}
    /\ admin = [d \in Admins |-> Resting]

TableNext == \E t \in Tables : Insert(t) \/ EndInsert(t) \/ DeleteRow(t)

UploadNext ==
    \E u \in Uploads :
        \/ \E kind \in DocumentKinds : BeginUpload(u, kind)
        \/ PutObject(u) \/ IndexDocument(u) \/ Publish(u) \/ UploadFails(u)

DeletionNext ==
    \E d \in Admins :
        \/ Prepare(d) \/ TryLock(d) \/ ListKeys(d) \/ SaveTargets(d) \/ Resume(d)
        \/ \E k \in Uploads : DeleteVectors(d, k) \/ DeleteObject(d, k)
        \/ SaveVectors(d) \/ SaveObject(d) \/ Finish(d) \/ DeletionFails(d) \/ Crash(d)

CohortNext ==
    TableNext \/ UploadNext \/ DeletionNext \/ \E key \in Foreign : SetCurriculum(key)

CohortSpec == CohortInit /\ [][CohortNext]_cohortVars

-----------------------------------------------------------------------------
(* Properties *)

\* A deleted cohort leaves nothing behind: no object, no vector, no pointer,
\* no row, however its uploads failed and however often its deletion was
\* interrupted and taken up again (_run_deletion, _list_owned_keys).
GoneLeavesNothing ==
    cohort = "gone" =>
        /\ objects = {} /\ vectors = {}
        /\ rows \cup inserting = {} /\ Pointed = {}

\* An unfinished deletion can always be taken up again: no row it would wait
\* for has slipped into a guarded table, it knows of every document there is
\* (one not listed yet has an object to be found by), and what it noted as
\* deleted is not there any more (the guard of migration 0017, _cleanup_targets).
UnfinishedCanResume ==
    Unfinished =>
        /\ (rows \cup inserting) \cap Guarded = {}
        /\ vectors \subseteq objects
        /\ job.listed => objects \cup Pointed \subseteq job.targets
        /\ job.vectors \cap vectors = {} /\ job.objects \cap objects = {}

\* While nobody deletes the cohort, every document the search is pointed to
\* (active_policy_namespace, curriculum_context) is stored and indexed: the
\* pointer moves last, and the first deletion outside comes after the job.
SearchedIsThere == job.state = "none" => Pointed \subseteq objects \cap vectors

\* A deletion that failed asks to be tried again at the same cohort
\* (delete_cohort, "try again at the same cohort"): the cohort is there.
FailedCanBeRetried == job.state = "failed" => cohort = "there"
=============================================================================
