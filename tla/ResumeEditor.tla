---------------------------- MODULE ResumeEditor ----------------------------
(***************************************************************************)
(* The résumé editor of the web client: the writes it sends at every key   *)
(* (updateResume in repository.ts), its draft (useResumeDraft.ts,          *)
(* ResumeEditScreen.tsx), the reads of the server's snapshot               *)
(* (react-query's refetch and applyBootstrap), and the review window, which*)
(* writes the same résumé on the server (ReviewDock.tsx).                  *)
(*                                                                         *)
(* One résumé, one student, one window.  A field's value is the set of     *)
(* changes in it, for every edit is made on the text that the screen shows.*)
(* Clocks, other fields (status, revisionCount) and the review itself are  *)
(* left out; of the review remains the one change that it applies.  So is  *)
(* the refetch when the window comes to the front: the one that follows a  *)
(* write reads and lands alike.                                            *)
(***************************************************************************)
EXTENDS Naturals

CONSTANTS
    MaxWrites,          \* bound: edits and saves of the student
    MaxMishaps          \* bound: requests or answers lost, times the screen is left

ASSUME ResumeAssumption == MaxWrites \in Nat /\ MaxMishaps \in Nat

VARIABLES
    server, cache,      \* the résumé in the database and in the page's snapshot
    draft,              \* what the editor shows in place of the snapshot, or Nothing
    flight, queued,     \* the write that was sent, the one that waits for it
    reads,              \* the refetch and the direct reads of the snapshot
    review,
    edits, typed,       \* history: edits and saves made, what they last sent
    mishaps,
    failed, missed      \* the fields whose last write failed, whether a read was missed

resumeVars == <<server, cache, draft, flight, queued, reads, review, edits, typed, mishaps, failed,
                missed>>

Fields == {"content", "title"}
Changes == 0..MaxWrites
Reviewed == 0           \* the change that the review makes
Resumes == [Fields -> SUBSET Changes]
Patches == UNION {[F -> SUBSET Changes] : F \in (SUBSET Fields) \ {{}}}
Nothing == <<>>
Readers == {"refetch", "change", "close"}

\* `clean' is saveVersion: a save awaits the write, or the change that the read
\* is for was made, and nothing has been typed since.
Writes == [patch : Patches, clean : BOOLEAN, applied : BOOLEAN]
Reads == [at : {"none", "asked", "read"}, snap : Resumes, clean : BOOLEAN]

\* Types of the editor's state.
ResumeTypeOK ==
    /\ {server, cache, typed} \subseteq Resumes
    /\ draft \in Resumes \cup {Nothing}
    /\ flight \in Writes \cup {Nothing} /\ queued \in Writes \cup {Nothing}
    /\ queued # Nothing => flight # Nothing
    /\ reads \in [Readers -> Reads]
    /\ review \in {"closed", "waiting", "open", "done"}
    /\ edits \in 0..MaxWrites /\ mishaps \in 0..MaxMishaps /\ failed \subseteq Fields /\ missed \in BOOLEAN

Blank == [f \in Fields |-> {}]
Idle == [at |-> "none", snap |-> Blank, clean |-> FALSE]
Asked(clean) == [at |-> "asked", snap |-> Blank, clean |-> clean]

ResumeInit ==
    /\ server = Blank /\ cache = Blank /\ typed = Blank
    /\ draft = Nothing /\ flight = Nothing /\ queued = Nothing
    /\ reads = [r \in Readers |-> Idle]
    /\ review = "closed" /\ edits = 0 /\ mishaps = 0 /\ failed = {} /\ missed = FALSE

Mishap == mishaps < MaxMishaps /\ mishaps' = mishaps + 1

OnScreen == IF draft = Nothing THEN cache ELSE draft
Pending == flight # Nothing

\* patch laid over value, as in {...value, ...patch}
Over(value, patch) ==
    [f \in DOMAIN value \cup DOMAIN patch |-> IF f \in DOMAIN patch THEN patch[f] ELSE value[f]]

-----------------------------------------------------------------------------
(* updateResume *)

\* The fault of sending the newest patch only
Newest(old, new) == new
\* Writes that wait are put together.
Coalesced(old, new) == Over(old, new)

\* `still' tells whether what a save awaits has stayed untouched.
Write(patch, save, still) ==
    LET keep(w) == IF w = Nothing THEN w ELSE [w EXCEPT !.clean = @ /\ still]
        new == [patch |-> patch, clean |-> save, applied |-> FALSE]
    IN  /\ cache' = Over(cache, patch)
        /\ IF flight = Nothing THEN flight' = new /\ queued' = Nothing
           ELSE /\ flight' = keep(flight)
                /\ queued' = IF queued = Nothing THEN new
                             ELSE [new EXCEPT !.patch = Coalesced(queued.patch, patch),
                                              !.clean = save \/ (queued.clean /\ still)]

\* The server carries out the write that was sent.
Carry ==
    /\ Pending /\ ~flight.applied
    /\ server' = Over(server, flight.patch)
    /\ flight' = [flight EXCEPT !.applied = TRUE]
    /\ UNCHANGED <<cache, draft, queued, reads, review, edits, typed, failed, missed, mishaps>>

\* The fault of leaving to the read under way what it began before the write
JoinedRead == [reads EXCEPT !["refetch"] = IF @.at = "none" THEN Asked(FALSE) ELSE @]
\* invalidateBootstrap: a refetch under way is cancelled, a new one asked for.
FreshRead == [reads EXCEPT !["refetch"] = Asked(FALSE)]

\* The next write is sent.
SendNext == flight' = queued /\ queued' = Nothing

\* The fault of opening while what came after waits
OpensEarly == review = "waiting"
\* waitForResumeWrites is over: nothing was written after what it awaited.
WaitIsOver == review = "waiting" /\ queued = Nothing

Opened == IF WaitIsOver THEN "open" ELSE review

Answer ==
    /\ Pending /\ flight.applied
    /\ reads' = FreshRead /\ missed' = FALSE
    /\ draft' = IF flight.clean THEN Nothing ELSE draft
    /\ failed' = failed \ DOMAIN flight.patch
    /\ SendNext /\ review' = Opened
    /\ UNCHANGED <<server, cache, edits, typed, mishaps>>

\* The fault of waiting for a write that succeeds
OpensAfterSuccess == review
\* A write that failed does not keep the review waiting.
OpensAnyway == Opened

\* The request or its answer is lost.
WriteFails ==
    /\ Pending
    /\ Mishap
    /\ missed' = TRUE
    /\ failed' = failed \cup DOMAIN flight.patch
    /\ SendNext /\ review' = OpensAnyway
    /\ UNCHANGED <<server, cache, draft, reads, edits, typed>>

-----------------------------------------------------------------------------
(* ResumeEditScreen.tsx and useResumeDraft.ts *)

\* The fault of not counting what is typed while a save is under way
StaysClean == TRUE
\* edit() raises the version that a save compares.
Dirties == FALSE

Edit(f) ==
    LET change == edits + 1
        value == OnScreen[f] \cup {change}
    IN  /\ review # "open" /\ edits < MaxWrites
        /\ edits' = change
        /\ draft' = Over(OnScreen, [g \in {f} |-> value])
        /\ typed' = [typed EXCEPT ![f] = value]
        /\ Write([g \in {f} |-> value], FALSE, Dirties)
        /\ reads' = [r \in Readers |-> [reads[r] EXCEPT !.clean = @ /\ Dirties]]
        /\ UNCHANGED <<server, review, failed, missed, mishaps>>

Saving == (flight # Nothing /\ flight.clean) \/ (queued # Nothing /\ queued.clean)

Save ==
    /\ review # "open" /\ ~Saving /\ edits < MaxWrites
    /\ edits' = edits + 1
    /\ Write(OnScreen, TRUE, TRUE)
    /\ typed' = OnScreen
    /\ UNCHANGED <<server, draft, reads, review, failed, missed, mishaps>>

\* The screen is left and opened again: finishSave of the old one is of no
\* effect on the new.
Forgotten(w) == IF w = Nothing THEN w ELSE [w EXCEPT !.clean = FALSE]
Reopen ==
    /\ Mishap
    /\ draft' = Nothing
    /\ flight' = Forgotten(flight) /\ queued' = Forgotten(queued)
    /\ reads' = [r \in Readers |-> [reads[r] EXCEPT !.clean = FALSE]]
    /\ UNCHANGED <<server, cache, review, edits, typed, failed, missed>>

-----------------------------------------------------------------------------
(* Reads of the snapshot *)

Take(r) ==
    /\ reads[r].at = "asked"
    /\ reads' = [reads EXCEPT ![r] = [@ EXCEPT !.at = "read", !.snap = server]]
    /\ UNCHANGED <<server, cache, draft, flight, queued, review, edits, typed, failed, missed, mishaps>>

\* Of a read for a change, finishSave is called whatever came of it.
EndRead(r) ==
    /\ reads' = [reads EXCEPT ![r] = Idle]
    /\ draft' = IF reads[r].clean THEN Nothing ELSE draft
    /\ UNCHANGED <<server, flight, queued, review, edits, typed, failed>>

\* No later read is sure to follow the one that has landed: the refetch of a
\* write does not cancel a direct read, nor does that of a review the refetch.
Overtaken(r) ==
    IF r = "refetch" THEN Reviewed \in server["content"] \ reads[r].snap["content"]
    ELSE reads[r].snap # server

Land(r) ==
    /\ reads[r].at = "read"
    /\ cache' = reads[r].snap
    /\ missed' = (missed \/ Overtaken(r))
    /\ EndRead(r) /\ UNCHANGED mishaps

ReadFails(r) ==
    /\ reads[r].at # "none"
    /\ Mishap
    /\ missed' = TRUE
    /\ EndRead(r) /\ UNCHANGED cache

-----------------------------------------------------------------------------
(* The review window *)

OpenReview ==
    /\ review = "closed"
    /\ review' = IF Pending THEN "waiting" ELSE "open"
    /\ UNCHANGED <<server, cache, draft, flight, queued, reads, edits, typed, failed, missed, mishaps>>

\* A suggestion is applied on the server, which reload() tells the editor.  When
\* the answer is lost, the next attempt is refused and the editor is not told.
\* Bound: once.
ApplySuggestion ==
    /\ review = "open" /\ Reviewed \notin server["content"] /\ reads["change"].at = "none"
    /\ server' = [server EXCEPT !["content"] = @ \cup {Reviewed}]
    /\ \/ reads' = [reads EXCEPT !["change"] = Asked(TRUE)] /\ UNCHANGED <<missed, mishaps>>
       \/ Mishap /\ missed' = TRUE /\ UNCHANGED reads
    /\ UNCHANGED <<cache, draft, flight, queued, review, edits, typed, failed>>

\* Bound: one review.
CloseReview ==
    /\ review = "open"
    /\ review' = "done"
    /\ reads' = [reads EXCEPT !["close"] = Asked(FALSE)]
    /\ UNCHANGED <<server, cache, draft, flight, queued, edits, typed, failed, missed, mishaps>>

-----------------------------------------------------------------------------

Network == Carry \/ Answer \/ WriteFails \/ (\E r \in Readers : Take(r) \/ Land(r) \/ ReadFails(r))

ResumeNext ==
    \/ Network
    \/ (\E f \in Fields : Edit(f)) \/ Save \/ Reopen
    \/ OpenReview \/ ApplySuggestion \/ CloseReview

\* A browser's request ends, with an answer or with an error.
ResumeFairness == WF_resumeVars(Carry \/ Answer \/ WriteFails)

ResumeSpec == ResumeInit /\ [][ResumeNext]_resumeVars /\ ResumeFairness

-----------------------------------------------------------------------------
(* Properties *)

\* With no write pending, the server has the student's last text of every
\* field whose last write did not fail: writes that are put together, or follow
\* one that failed, lose nothing.
NothingUnsent ==
    ~Pending => \A f \in Fields \ failed : typed[f] \subseteq server[f]

\* While the review may write, no write of the editor is under way or waits.
OneWriterAtATime == review = "open" => ~Pending

\* Once all is quiet, the snapshot is what the server has, unless a read was
\* missed, or a direct one landed late.
CacheSettles ==
    /\ ~Pending /\ ~missed
    /\ \A r \in Readers : reads[r].at = "none"
    => cache = server

\* The editor puts its draft down, other than by being left, only when the
\* server has all of it that did not fail, or a save under way carries it.
PutDownIsOnServer ==
    [][(draft # Nothing /\ draft' = Nothing /\ ~Reopen =>
            Saving' \/ \A f \in Fields \ failed' : typed[f] \subseteq server[f])]_resumeVars

\* A review that waits for the writes opens, whatever becomes of them, once the
\* student stops writing before the last write has ended.
ReviewOpens == <>[](queued = Nothing) => (review = "waiting" ~> review = "open")

\* What the review has written stays: the editor is locked meanwhile so that
\* the two do not overwrite each other.
NeitherOverwrites ==
    [][(Reviewed \in server["content"] => Reviewed \in server'["content"])]_resumeVars
=============================================================================
