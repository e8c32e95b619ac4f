-------------------------- MODULE ScheduledNotices --------------------------
(***************************************************************************)
(* Publication of one cohort's scheduled notices: lms_api/lms/publish.py.  *)
(*                                                                         *)
(* Celery's beat, the loop of a server without Celery and a request with   *)
(* no ids all publish what is due, skipping rows another transaction has   *)
(* locked; staff publish one notice by hand, due or not, and wait for its  *)
(* row.  The daily notice about attendance reuses one post per cohort,     *)
(* found under an advisory lock.                                           *)
(*                                                                         *)
(* Time is only whether a notice is due (next_publish_at <= now).  An edit *)
(* keeps a notice's title and whether it repeats.  Contents, authors,      *)
(* cohorts, push messages and the vectors of the post are left out.        *)
(***************************************************************************)
EXTENDS Naturals

CONSTANTS
    Scheduled,      \* rows of scheduled_notices
    Repeating,      \* those published daily or weekly
    Exceptional,    \* those with SCHEDULED_ATTENDANCE_TITLE
    Publishers,     \* transactions at once
    MaxSlots,       \* bound on the times that pass
    MaxEdits        \* bound on edits of rows and deletions of posts

ASSUME NoticesAssumption ==
    Repeating \subseteq Scheduled /\ Exceptional \subseteq Scheduled
    /\ MaxSlots \in Nat /\ MaxEdits \in Nat

NotPublishing == [at |-> "home"]
Transactions == [at: {"asked", "locked", "found"}, byHand: BOOLEAN, rows: SUBSET Scheduled,
                 passed: SUBSET Scheduled, seen: Nat]

VARIABLES
    notice,     \* scheduled_notices: is_active, and whether it is due
    posts,      \* posts of notices that have the attendance title
    publishing, \* the transaction each publisher is in
    slots,      \* times that have passed
    edits,      \* edits and deletions made
    posted      \* history: publications of each notice since its time came or
                \* was set anew

noticesVars == <<notice, posts, publishing, slots, edits, posted>>

NoticesTypeOK ==
    /\ notice \in [Scheduled -> [active: BOOLEAN, due: BOOLEAN]]
    /\ posts \in Nat /\ slots \in 0..MaxSlots /\ edits \in 0..MaxEdits
    /\ posted \in [Scheduled -> Nat]
    /\ publishing \in [Publishers -> Transactions \cup {NotPublishing}]

-----------------------------------------------------------------------------
(* Locks *)

InRows(n, p) == publishing[p].at \in {"locked", "found"} /\ n \in publishing[p].rows
\* The fault of reading rows without locking them
Unlocked(n) == TRUE
\* FOR UPDATE, until the transaction ends
ScheduleFree(n) == \A p \in Publishers : ~InRows(n, p)

\* The fault of finding the post without the advisory lock
NoAdvisory == TRUE
\* pg_advisory_xact_lock(71423, cohort)
AdvisoryFree == \A p \in Publishers : publishing[p].at # "found"

-----------------------------------------------------------------------------
(* publish_scheduled_notices *)

Selected == {n \in Scheduled : notice[n].active /\ notice[n].due /\ ScheduleFree(n)}

TakeDue(p) ==
    /\ publishing[p] = NotPublishing
    /\ Selected # {}
    /\ publishing' = [publishing EXCEPT ![p] =
         [at |-> "locked", byHand |-> FALSE, rows |-> Selected, passed |-> {}, seen |-> 0]]
    /\ UNCHANGED <<notice, posts, slots, edits, posted>>

\* `when' is taken before the row is waited for.
AskFor(p, n) ==
    /\ publishing[p] = NotPublishing
    /\ publishing' = [publishing EXCEPT ![p] =
         [at |-> "asked", byHand |-> TRUE, rows |-> {n}, passed |-> {}, seen |-> 0]]
    /\ UNCHANGED <<notice, posts, slots, edits, posted>>

\* The row as it is once locked: nothing is published if it is not active.
TakeAsked(p) ==
    /\ publishing[p].at = "asked"
    /\ \A n \in publishing[p].rows : ScheduleFree(n)
    /\ publishing' = [publishing EXCEPT ![p] =
         IF \A n \in @.rows : notice[n].active THEN [@ EXCEPT !.at = "locked"] ELSE NotPublishing]
    /\ UNCHANGED <<notice, posts, slots, edits, posted>>

\* attendance_notice
FindPost(p) ==
    /\ publishing[p].at = "locked"
    /\ publishing[p].rows \cap Exceptional # {}
    /\ AdvisoryFree
    /\ publishing' = [publishing EXCEPT ![p] =
         [at |-> "found", byHand |-> @.byHand, rows |-> @.rows, passed |-> @.passed,
          seen |-> posts]]
    /\ UNCHANGED <<notice, posts, slots, edits, posted>>

\* The row after its publication.  A repeated one is due again if its next
\* time, counted from `when', has passed meanwhile.
Published(n, passed) ==
    IF n \in Repeating
    THEN [active |-> notice[n].active, due |-> n \in passed]
    ELSE [active |-> FALSE, due |-> notice[n].due]

CommitPosts(p) ==
    LET t == publishing[p] IN
    /\ t.at = "found" \/ (t.at = "locked" /\ t.rows \cap Exceptional = {})
    /\ notice' = [n \in Scheduled |->
                    IF n \in t.rows THEN Published(n, t.passed) ELSE notice[n]]
    /\ posts' = IF t.at = "locked" \/ t.seen > 0 THEN posts ELSE posts + 1
    /\ posted' = [n \in Scheduled |->
                    IF n \notin t.rows THEN posted[n]
                    ELSE IF n \in Repeating /\ (t.byHand \/ n \in t.passed) THEN 0
                    ELSE posted[n] + 1]
    /\ publishing' = [publishing EXCEPT ![p] = NotPublishing]
    /\ UNCHANGED <<slots, edits>>

PublishingFails(p) ==
    /\ publishing[p] # NotPublishing
    /\ publishing' = [publishing EXCEPT ![p] = NotPublishing]
    /\ UNCHANGED <<notice, posts, slots, edits, posted>>

-----------------------------------------------------------------------------
(* The clock and the staff *)

\* A notice's time comes.  A repeated one's next time may pass before the
\* transactions that have taken `when' are over.
SlotPasses(n) ==
    /\ slots < MaxSlots /\ slots' = slots + 1
    /\ notice[n].active
    /\ n \in Repeating \/ ~notice[n].due
    /\ notice' = [notice EXCEPT ![n] = [active |-> TRUE, due |-> TRUE]]
    /\ posted' = [posted EXCEPT ![n] = IF n \in Repeating THEN 0 ELSE @]
    /\ publishing' = [p \in Publishers |->
         IF publishing[p] = NotPublishing \/ n \notin Repeating THEN publishing[p]
         ELSE [publishing[p] EXCEPT !.passed = @ \cup {n}]]
    /\ UNCHANGED <<posts, edits>>

\* op_upsert_scheduled.  A form may be saved with a time that is past, and a
\* repeated one's may pass while the row is waited for.  It also stands for a
\* row deleted or saved anew.
EditScheduled(n) ==
    /\ edits < MaxEdits /\ edits' = edits + 1
    /\ ScheduleFree(n)
    /\ \E active, due \in BOOLEAN :
        /\ due => active
        /\ notice' = [notice EXCEPT ![n] = [active |-> active, due |-> due]]
    /\ posted' = [posted EXCEPT ![n] = 0]
    /\ UNCHANGED <<posts, publishing, slots>>

\* op_delete_notice waits for a transaction that has locked the post.
DeletePost ==
    /\ edits < MaxEdits /\ edits' = edits + 1
    /\ posts > 0
    /\ \A p \in Publishers : ~(publishing[p].at = "found" /\ publishing[p].seen > 0)
    /\ posts' = posts - 1
    /\ UNCHANGED <<notice, publishing, slots, posted>>

-----------------------------------------------------------------------------
NoticesInit ==
    /\ notice = [n \in Scheduled |-> [active |-> TRUE, due |-> FALSE]]
    /\ posts = 0
    /\ publishing = [p \in Publishers |-> NotPublishing]
    /\ slots = 0 /\ edits = 0
    /\ posted = [n \in Scheduled |-> 0]

NoticesNext ==
    \/ \E p \in Publishers :
        \/ TakeDue(p) \/ TakeAsked(p) \/ FindPost(p) \/ CommitPosts(p) \/ PublishingFails(p)
        \/ \E n \in Scheduled : AskFor(p, n)
    \/ \E n \in Scheduled : SlotPasses(n) \/ EditScheduled(n)
    \/ DeletePost

NoticesSpec == NoticesInit /\ [][NoticesNext]_noticesVars

-----------------------------------------------------------------------------
(* Properties *)

\* However beat, page loads and staff meet, a notice set to be published once
\* is published once each time it is set (test_scheduled.py,
\* test_once_schedule_cannot_be_published_twice), and a repeated one once for
\* each time that comes, unless staff publish it by hand as well.
PublishedOnce == \A n \in Scheduled : posted[n] <= 1

\* The attendance notices of a cohort share one post ("one row per cohort is
\* reused; different schedules are serialized too", attendance_notice).
OneAttendanceRow == posts <= 1
=============================================================================
