------------------------------ MODULE JobIndex ------------------------------
(***************************************************************************)
(* The table of job postings and the vector index made from it:            *)
(* job_matching_bot/retrieval/upsert.py (the run that brings the index up  *)
(* to the table), ingestion/sqlite_store.py (the table), retrieval/        *)
(* liveness.py (links checked by day), prune.py and retrieval/             *)
(* index_state.py.                                                         *)
(*                                                                         *)
(* A fingerprint stands for what is indexed of a posting and counts its    *)
(* words of requirements; 0 is a column without a value, or no vector.     *)
(* The nightly batch collects, groups, indexes and prunes one after the    *)
(* other; links are checked at any time.                                   *)
(*                                                                         *)
(* All postings are of one company and place, and one group is enough for  *)
(* them.  The copy of a posting's status in its vector, the search,        *)
(* listings without details and dates are left out.                        *)
(***************************************************************************)
EXTENDS Naturals

CONSTANTS
    Postings,       \* job ids, in their order
    MaxPrint,       \* fingerprints are 1..MaxPrint, 1 that of no words
    MaxChanges,     \* bound on changes of the table
    MaxStops        \* bound on runs that stop half-way

ASSUME JobIndexAssumption ==
    Postings \subseteq Nat /\ MaxPrint \in Nat /\ MaxChanges \in Nat /\ MaxStops \in Nat

VARIABLES
    jobs,        \* jobs: status, content, indexed_embed_hash, whether long closed
    kin,        \* the rows that carry the group's key
    vector,     \* the index: the fingerprint each posting's vector was made of
    run,        \* the process at work on table and index
    changes,    \* changes made
    stops,      \* runs that have stopped half-way
    lost,       \* history: postings whose vector a stopped run changed without
                \* recording it, or that were adopted with another content
    mirrored    \* history: "yes" after a run over a table that did not change

indexVars == <<jobs, kin, vector, run, changes, stops, lost, mirrored>>

Prints == 1..MaxPrint
Unlisted == [status |-> "none", print |-> 0, recorded |-> 0, old |-> FALSE]
Unscheduled == [at |-> "rest", put |-> [p \in Postings |-> 0], del |-> {}, batch |-> {}]

IndexTypeOK ==
    /\ jobs \in [Postings -> [status: {"none", "open", "removed", "closed"}, print: 0..MaxPrint,
                             recorded: 0..MaxPrint, old: BOOLEAN]]
    /\ kin \subseteq Postings /\ lost \subseteq Postings
    /\ vector \in [Postings -> 0..MaxPrint]
    /\ run \in [at: {"rest", "index", "deleted", "put", "prune"}, put: [Postings -> 0..MaxPrint],
                del: SUBSET Postings, batch: SUBSET Postings]
    /\ changes \in 0..MaxChanges /\ stops \in 0..MaxStops
    /\ mirrored \in {"no", "running", "yes"}

IndexInit ==
    /\ jobs = [p \in Postings |-> Unlisted]
    /\ vector = [p \in Postings |-> 0]
    /\ kin = {} /\ lost = {} /\ run = Unscheduled /\ mirrored = "no"
    /\ changes = 0 /\ stops = 0

-----------------------------------------------------------------------------
(* The table *)

Stored(p) == jobs[p].status # "none"

Changes ==
    /\ changes < MaxChanges /\ changes' = changes + 1
    /\ mirrored' = "no"
    /\ UNCHANGED <<vector, run, stops, lost>>

\* The fault of writing the fingerprint of the content as the one indexed
Overwritten(p, print, status) ==
    [status |-> status, print |-> print, recorded |-> print, old |-> FALSE]
\* A row written with its content leaves what is recorded as indexed alone.
Written(p, print, status) ==
    [status |-> status, print |-> print, recorded |-> jobs[p].recorded, old |-> FALSE]

\* upsert, of a posting collected anew; the deadline may have passed.
Collect(p, print, status) ==
    /\ run.at = "rest"
    /\ jobs' = [jobs EXCEPT ![p] = Written(p, print, status)]
    /\ UNCHANGED kin
    /\ Changes

\* upsert, of a posting that was not collected: expired, seen in the listings,
\* or missing too often; or the listings show another deadline.
Observe(p) ==
    /\ run.at = "rest"
    /\ Stored(p)
    /\ jobs' = [jobs EXCEPT ![p].status = IF @ = "removed" THEN "open" ELSE "removed",
                            ![p].old = FALSE]
    /\ UNCHANGED kin
    /\ Changes

\* record_link_checks, when the page is gone
CheckLink(p) ==
    /\ jobs[p].status = "open"
    /\ jobs' = [jobs EXCEPT ![p].status = "closed"]
    /\ UNCHANGED kin
    /\ Changes

\* reopen_alive, when the page is there
ReopenAlive(p) ==
    /\ jobs[p].status = "removed"
    /\ jobs' = [jobs EXCEPT ![p].status = "open", ![p].old = FALSE]
    /\ UNCHANGED kin
    /\ Changes

\* KEEP_DAYS pass over what is closed.
DaysPass ==
    /\ run.at = "rest"
    /\ jobs' = [p \in Postings |->
                    [jobs[p] EXCEPT !.old = jobs[p].status \in {"removed", "closed"}]]
    /\ jobs' # jobs
    /\ UNCHANGED kin
    /\ Changes

\* regroup.py: every open posting gets a key, only the grouped ones that of
\* another; closed ones keep theirs.
Regroup(group) ==
    /\ run.at = "rest"
    /\ \A p \in group : jobs[p].status = "open"
    /\ kin' = group \cup {p \in kin : jobs[p].status # "open"}
    /\ kin' # kin
    /\ UNCHANGED jobs
    /\ Changes

-----------------------------------------------------------------------------
(* plan *)

Indexable == {p \in Postings : jobs[p].status = "open" /\ jobs[p].print > 1}

\* find_reposts: of postings with one content the newest stays.
Reposted == {p \in Indexable : \E q \in Indexable : q > p /\ jobs[q].print = jobs[p].print}

Better(p, q) == jobs[p].print > jobs[q].print \/ (jobs[p].print = jobs[q].print /\ p <= q)

\* _representatives: of a group, the posting with most words stays.
Outshone(unique) == {p \in unique \cap kin : \E q \in unique \cap kin : ~Better(p, q)}

Kept == LET unique == Indexable \ Reposted IN unique \ Outshone(unique)

Recorded == {p \in Postings : jobs[p].recorded # 0}

\* The fault of taking only closed postings out of the index
ClosedOnly == Recorded \ Indexable
ToDelete == Recorded \ Kept

IsCurrent(p) == jobs[p].recorded = jobs[p].print

Plan(force) ==
    /\ run.at = "rest"
    /\ run' = [at |-> "index", del |-> ToDelete, batch |-> {},
               put |-> [p \in Postings |->
                            IF p \in Kept /\ (force \/ ~IsCurrent(p)) THEN jobs[p].print ELSE 0]]
    /\ mirrored' = "running"
    /\ UNCHANGED <<jobs, kin, vector, changes, stops, lost>>

-----------------------------------------------------------------------------
(* delete_ids, then upsert: batch by batch, each recorded once done *)

DeleteBatch(batch) ==
    /\ run.at = "index"
    /\ batch # {} /\ batch \subseteq run.del
    /\ vector' = [p \in Postings |-> IF p \in batch THEN 0 ELSE vector[p]]
    /\ run' = [run EXCEPT !.at = "deleted", !.batch = batch]
    /\ UNCHANGED <<jobs, kin, changes, stops, lost, mirrored>>

ClearIndexed ==
    /\ run.at = "deleted"
    /\ jobs' = [p \in Postings |->
                   IF p \in run.batch THEN [jobs[p] EXCEPT !.recorded = 0] ELSE jobs[p]]
    /\ run' = [run EXCEPT !.at = "index", !.del = @ \ run.batch, !.batch = {}]
    /\ lost' = lost \ run.batch
    /\ UNCHANGED <<kin, vector, changes, stops, mirrored>>

Unput == {p \in Postings : run.put[p] # 0}

UpsertBatch(batch) ==
    /\ run.at = "index" /\ run.del = {}
    /\ batch # {} /\ batch \subseteq Unput
    /\ vector' = [p \in Postings |-> IF p \in batch THEN run.put[p] ELSE vector[p]]
    /\ run' = [run EXCEPT !.at = "put", !.batch = batch]
    /\ UNCHANGED <<jobs, kin, changes, stops, lost, mirrored>>

MarkIndexed ==
    /\ run.at = "put"
    /\ jobs' = [p \in Postings |->
                   IF p \in run.batch THEN [jobs[p] EXCEPT !.recorded = run.put[p]] ELSE jobs[p]]
    /\ run' = [run EXCEPT !.at = "index", !.batch = {},
                          !.put = [p \in Postings |-> IF p \in run.batch THEN 0 ELSE @[p]]]
    /\ lost' = lost \ run.batch
    /\ UNCHANGED <<kin, vector, changes, stops, mirrored>>

EndRun ==
    /\ run.at = "index" /\ run.del = {} /\ Unput = {}
    /\ run' = Unscheduled
    /\ mirrored' = IF mirrored = "running" THEN "yes" ELSE "no"
    /\ UNCHANGED <<jobs, kin, vector, changes, stops, lost>>

\* The process is killed, or a call to the index or the database fails.
Stop ==
    /\ run.at # "rest"
    /\ stops < MaxStops /\ stops' = stops + 1
    /\ run' = Unscheduled
    /\ lost' = IF run.at \in {"deleted", "put"}
               THEN lost \cup {p \in run.batch : vector[p] # jobs[p].recorded} ELSE lost
    /\ mirrored' = IF run.at = "prune" THEN mirrored ELSE "no"
    /\ UNCHANGED <<jobs, kin, vector, changes>>

-----------------------------------------------------------------------------
(* prune.py, after the run of the night *)

PruneRead(protected) ==
    /\ run.at = "rest"
    /\ LET picked == {p \in Postings \ protected : jobs[p].old /\ jobs[p].recorded = 0}
       IN /\ picked # {}
          /\ run' = [Unscheduled EXCEPT !.at = "prune", !.batch = picked]
    /\ UNCHANGED <<jobs, kin, vector, changes, stops, lost, mirrored>>

\* DELETE by id, after the backup is written
PruneDelete ==
    /\ run.at = "prune"
    /\ jobs' = [p \in Postings |-> IF p \in run.batch THEN Unlisted ELSE jobs[p]]
    /\ kin' = kin \ run.batch
    /\ run' = Unscheduled
    /\ mirrored' = IF \E p \in run.batch : jobs[p].status = "open" THEN "no" ELSE mirrored
    /\ UNCHANGED <<vector, changes, stops, lost>>

-----------------------------------------------------------------------------
(* index_state.py --adopt *)

\* A vector that is found is recorded with the row's fingerprint, if that is
\* its content or the posting is not open.
Adopt ==
    /\ run.at = "rest"
    /\ LET adopted == {p \in Postings : Stored(p) /\ vector[p] # 0
                                        /\ (jobs[p].status # "open" \/ vector[p] = jobs[p].print)}
       IN /\ jobs' = [p \in Postings |->
                         IF p \in adopted THEN [jobs[p] EXCEPT !.recorded = jobs[p].print]
                         ELSE jobs[p]]
          /\ lost' = (lost \ adopted) \cup {p \in adopted : vector[p] # jobs[p].print}
    /\ jobs' # jobs
    /\ mirrored' = "no"
    /\ UNCHANGED <<kin, vector, run, changes, stops>>

-----------------------------------------------------------------------------

IndexNext ==
    \/ \E p \in Postings :
           \/ \E print \in Prints, status \in {"open", "removed"} : Collect(p, print, status)
           \/ Observe(p) \/ CheckLink(p) \/ ReopenAlive(p)
    \/ DaysPass \/ \E group \in SUBSET Postings : Regroup(group)
    \/ \E force \in BOOLEAN : Plan(force)
    \/ \E batch \in SUBSET Postings : DeleteBatch(batch) \/ UpsertBatch(batch)
    \/ ClearIndexed \/ MarkIndexed \/ EndRun \/ Stop
    \/ \E protected \in SUBSET Postings : PruneRead(protected)
    \/ PruneDelete \/ Adopt

IndexSpec == IndexInit /\ [][IndexNext]_indexVars

-----------------------------------------------------------------------------
(* Properties *)

\* After a run over a table that nobody changed, the index holds the postings
\* that are to be searched, each as it is, and nothing else: whatever was
\* collected, closed, grouped, pruned or half done before (upsert.py plans from
\* the table alone and never asks the index).  What a stopped run changed
\* without recording it is excepted until a run has dealt with it.
RunMirrors ==
    mirrored = "yes" =>
        \A p \in Postings \ lost : vector[p] = IF p \in Kept THEN jobs[p].print ELSE 0

\* A posting that is deleted from the table is not in the index any more:
\* prune.py:28 keeps what is still in the index, since without the row no run
\* would know of its vector.
PrunedLeavesNoVector == \A p \in Postings : Stored(p) \/ vector[p] = 0

-----------------------------------------------------------------------------
(* The inductive strengthening *)

\* A vector is the one recorded in the table, but for the batch being written
\* and for what a stopped run left.
VectorsRecorded ==
    \A p \in Postings :
        IF run.at = "deleted" /\ p \in run.batch THEN vector[p] = 0
        ELSE IF run.at = "put" /\ p \in run.batch THEN vector[p] = run.put[p]
        ELSE p \notin lost => vector[p] = jobs[p].recorded

\* A batch is taken from what its process has planned.
BatchesPlanned ==
    /\ run.at = "deleted" => run.batch \subseteq run.del
    /\ run.at = "put" => run.batch \subseteq Unput
    /\ run.at = "prune" => \A p \in run.batch : jobs[p].recorded = 0

\* Once the rest of its plan is done, a run over an unchanged table will have
\* recorded what is to be searched, as it is, and nothing else.
PlanLeft(p) ==
    IF p \in Kept
    THEN /\ p \notin run.del
         /\ run.put[p] \in {0, jobs[p].print}
         /\ run.put[p] = 0 => jobs[p].recorded = jobs[p].print
    ELSE run.put[p] = 0 /\ (jobs[p].recorded # 0 => p \in run.del)

PlansMirror ==
    /\ mirrored = "running" =>
          run.at \in {"index", "deleted", "put"} /\ \A p \in Postings : PlanLeft(p)
    /\ mirrored = "yes" => run.at \in {"rest", "prune"}

IndexInv == IndexTypeOK /\ VectorsRecorded /\ BatchesPlanned /\ PlansMirror /\ RunMirrors
=============================================================================
