---------------------------- MODULE BackendProofs ----------------------------
(* What holds of three components of the backend, and of the systems that   *)
(* MCBackend puts side by side.                                             *)
(*                                                                          *)
(* ScheduledNotices, for any number of notices and publishers.              *)
(*                                                                          *)
(* CohortDeletion, for any number of requests, uploads and tables: an       *)
(* upload and an unfinished deletion exclude each other through the cohorts *)
(* row, so what is listed is all there is; who has the advisory lock alone  *)
(* changes the job, so what it has in memory stays true until it is saved.  *)
(*                                                                          *)
(* JobIndex, for any number of postings and batches of any size: what is    *)
(* left of the plan of a run repairs all the difference between the rows    *)
(* and the vectors, so that there is none when nothing is left.             *)
EXTENDS MCBackend, StudentRequestsProofs, SessionsProofs

-----------------------------------------------------------------------------
(* Scheduled notices: ScheduledNotices *)

(* The inductive invariant *)

\* The row locks and the advisory lock exclude.
LocksExclude ==
    \A p, q \in Publishers : p # q =>
        /\ \A n \in Scheduled : ~(InRows(n, p) /\ InRows(n, q))
        /\ ~(publishing[p].at = "found" /\ publishing[q].at = "found")

\* What a transaction has found about the shared post stays so until it ends.
PostStaysFound ==
    /\ posts <= 1
    /\ \A p \in Publishers : publishing[p].at = "found" => publishing[p].seen = posts

\* A locked row is still one to be published.
RowsStayDue ==
    \A p \in Publishers :
        /\ publishing[p].at = "asked" => publishing[p].byHand
        /\ \A n \in Scheduled : InRows(n, p) =>
             notice[n].active /\ (publishing[p].byHand \/ notice[n].due)

\* What is to be published has not been.
CountsAgree ==
    \A n \in Scheduled :
        /\ posted[n] <= 1
        /\ n \in Repeating /\ notice[n].due => posted[n] = 0
        /\ n \notin Repeating /\ notice[n].active => posted[n] = 0

NoticesInv == NoticesTypeOK /\ LocksExclude /\ PostStaysFound /\ RowsStayDue /\ CountsAgree

LEMMA NoticesInitInv == NoticesInit => NoticesInv
BY NoticesAssumption
DEF NoticesInit, NoticesInv, NoticesTypeOK, Transactions, NotPublishing, LocksExclude,
    PostStaysFound, RowsStayDue, CountsAgree, InRows

\* A transaction that is not over has all its fields.
LEMMA OpenTransaction ==
    ASSUME NoticesTypeOK, NEW p \in Publishers, publishing[p] # NotPublishing
    PROVE  /\ publishing[p] \in Transactions
           /\ publishing[p].rows \subseteq Scheduled /\ publishing[p].passed \subseteq Scheduled
           /\ publishing[p].byHand \in BOOLEAN /\ publishing[p].seen \in Nat
           /\ publishing[p].at \in {"asked", "locked", "found"}
BY DEF NoticesTypeOK, Transactions

\* A publisher that is at home holds nothing.
LEMMA HomeHoldsNothing ==
    ASSUME NEW p \in Publishers, NEW n \in Scheduled, publishing[p] = NotPublishing
    PROVE  publishing[p].at = "home" /\ ~InRows(n, p)
BY DEF NotPublishing, InRows

-----------------------------------------------------------------------------
(* The steps *)

LEMMA TakeDueStep ==
    ASSUME NoticesInv, NEW p \in Publishers, TakeDue(p)
    PROVE  NoticesInv'
<1> DEFINE t == [at |-> "locked", byHand |-> FALSE, rows |-> Selected, passed |-> {},
                 seen |-> 0]
<1>1. /\ publishing[p] = NotPublishing
      /\ publishing' = [publishing EXCEPT ![p] = t]
      /\ UNCHANGED <<notice, posts, slots, edits, posted>>
  BY DEF TakeDue
<1>2. Selected \subseteq Scheduled /\ t \in Transactions
  BY DEF Selected, Transactions
<1>3. publishing'[p] = t /\ \A q \in Publishers \ {p} : publishing'[q] = publishing[q]
  BY <1>1 DEF NoticesInv, NoticesTypeOK
<1>4. \A n \in Selected : /\ notice[n].active /\ notice[n].due
                          /\ \A q \in Publishers : ~InRows(n, q)
  BY DEF Selected, ScheduleFree
<1>5. NoticesTypeOK'
  BY <1>1, <1>2 DEF NoticesInv, NoticesTypeOK
<1>6. LocksExclude'
  BY <1>2, <1>3, <1>4 DEF NoticesInv, LocksExclude, InRows
<1>7. PostStaysFound' /\ CountsAgree'
  BY <1>1, <1>3 DEF NoticesInv, PostStaysFound, CountsAgree
<1>8. RowsStayDue'
  BY <1>1, <1>2, <1>3, <1>4 DEF NoticesInv, RowsStayDue, InRows
<1>9. QED BY <1>5, <1>6, <1>7, <1>8 DEF NoticesInv

LEMMA AskForStep ==
    ASSUME NoticesInv, NEW p \in Publishers, NEW m \in Scheduled, AskFor(p, m)
    PROVE  NoticesInv'
<1> DEFINE t == [at |-> "asked", byHand |-> TRUE, rows |-> {m}, passed |-> {}, seen |-> 0]
<1>1. /\ publishing' = [publishing EXCEPT ![p] = t]
      /\ UNCHANGED <<notice, posts, slots, edits, posted>>
  BY DEF AskFor
<1>2. t \in Transactions
  BY DEF Transactions
<1>3. publishing'[p] = t /\ \A q \in Publishers \ {p} : publishing'[q] = publishing[q]
  BY <1>1 DEF NoticesInv, NoticesTypeOK
<1>4. NoticesTypeOK'
  BY <1>1, <1>2 DEF NoticesInv, NoticesTypeOK
<1>5. LocksExclude' /\ RowsStayDue'
  BY <1>1, <1>3 DEF NoticesInv, LocksExclude, RowsStayDue, InRows
<1>6. PostStaysFound' /\ CountsAgree'
  BY <1>1, <1>3 DEF NoticesInv, PostStaysFound, CountsAgree
<1>7. QED BY <1>4, <1>5, <1>6 DEF NoticesInv

\* A transaction that ends without a write disturbs nothing.
LEMMA HomeStep ==
    ASSUME NoticesInv, NEW p \in Publishers,
           publishing' = [publishing EXCEPT ![p] = NotPublishing],
           UNCHANGED <<notice, posts, slots, edits, posted>>
    PROVE  NoticesInv'
<1>1. publishing'[p] = NotPublishing /\ \A q \in Publishers \ {p} : publishing'[q] = publishing[q]
  BY DEF NoticesInv, NoticesTypeOK
<1>2. NoticesTypeOK'
  BY DEF NoticesInv, NoticesTypeOK
<1>3. LocksExclude' /\ RowsStayDue'
  BY <1>1 DEF NoticesInv, LocksExclude, RowsStayDue, InRows, NotPublishing
<1>4. PostStaysFound' /\ CountsAgree'
  BY <1>1 DEF NoticesInv, PostStaysFound, CountsAgree, NotPublishing
<1>5. QED BY <1>2, <1>3, <1>4 DEF NoticesInv

LEMMA TakeAskedStep ==
    ASSUME NoticesInv, NEW p \in Publishers, TakeAsked(p)
    PROVE  NoticesInv'
<1> DEFINE old == publishing[p]
           t == [at |-> "locked", byHand |-> old.byHand, rows |-> old.rows, passed |-> old.passed,
                 seen |-> old.seen]
<1>1. /\ old.at = "asked" /\ old # NotPublishing
      /\ \A n \in old.rows : \A q \in Publishers : ~InRows(n, q)
      /\ UNCHANGED <<notice, posts, slots, edits, posted>>
  BY DEF TakeAsked, ScheduleFree, NotPublishing
<1>2. CASE \E n \in old.rows : ~notice[n].active
  BY <1>1, <1>2, HomeStep DEF TakeAsked
<1>3. CASE \A n \in old.rows : notice[n].active
  <2>1. /\ old \in Transactions /\ old.byHand \in BOOLEAN /\ old.seen \in Nat
        /\ old.rows \subseteq Scheduled /\ old.passed \subseteq Scheduled
    BY <1>1, OpenTransaction DEF NoticesInv
  <2>2. t \in Transactions
    BY <2>1 DEF Transactions
  <2>3. publishing' = [publishing EXCEPT ![p] = [old EXCEPT !.at = "locked"]]
    BY <1>3 DEF TakeAsked
  <2>4. [old EXCEPT !.at = "locked"] = t
    BY <1>1, <2>1 DEF Transactions, NotPublishing
  <2>5. publishing' = [publishing EXCEPT ![p] = t]
    BY <2>3, <2>4
  <2>6. publishing'[p] = t /\ \A q \in Publishers \ {p} : publishing'[q] = publishing[q]
    BY <2>5 DEF NoticesInv, NoticesTypeOK
  <2>7. NoticesTypeOK'
    BY <1>1, <2>2, <2>5 DEF NoticesInv, NoticesTypeOK
  <2>8. LocksExclude'
    BY <1>1, <2>1, <2>6 DEF NoticesInv, LocksExclude, InRows
  <2>9. RowsStayDue'
    BY <1>1, <1>3, <2>1, <2>6 DEF NoticesInv, RowsStayDue, InRows
  <2>10. PostStaysFound' /\ CountsAgree'
    BY <1>1, <2>6 DEF NoticesInv, PostStaysFound, CountsAgree
  <2>11. QED BY <2>7, <2>8, <2>9, <2>10 DEF NoticesInv
<1>4. QED BY <1>2, <1>3

LEMMA FindPostStep ==
    ASSUME NoticesInv, NEW p \in Publishers, FindPost(p)
    PROVE  NoticesInv'
<1> DEFINE old == publishing[p]
           t == [at |-> "found", byHand |-> old.byHand, rows |-> old.rows, passed |-> old.passed,
                 seen |-> posts]
<1>1. /\ old.at = "locked" /\ old # NotPublishing
      /\ \A q \in Publishers : publishing[q].at # "found"
      /\ UNCHANGED <<notice, posts, slots, edits, posted>>
  BY DEF FindPost, AdvisoryFree, NotPublishing
<1>2. /\ old \in Transactions /\ old.byHand \in BOOLEAN
      /\ old.rows \subseteq Scheduled /\ old.passed \subseteq Scheduled
  BY <1>1, OpenTransaction DEF NoticesInv
<1>3. posts \in Nat /\ t \in Transactions
  BY <1>2 DEF Transactions, NoticesInv, NoticesTypeOK
<1>6. publishing' = [publishing EXCEPT ![p] = t]
  BY DEF FindPost
<1>7. publishing'[p] = t /\ \A q \in Publishers \ {p} : publishing'[q] = publishing[q]
  BY <1>6 DEF NoticesInv, NoticesTypeOK
<1>8. NoticesTypeOK'
  BY <1>1, <1>3, <1>6 DEF NoticesInv, NoticesTypeOK
<1>9. LocksExclude' /\ RowsStayDue'
  BY <1>1, <1>7 DEF NoticesInv, LocksExclude, RowsStayDue, InRows
<1>10. PostStaysFound' /\ CountsAgree'
  BY <1>1, <1>7 DEF NoticesInv, PostStaysFound, CountsAgree
<1>11. QED BY <1>8, <1>9, <1>10 DEF NoticesInv

LEMMA CommitPostsStep ==
    ASSUME NoticesInv, NEW p \in Publishers, CommitPosts(p)
    PROVE  NoticesInv'
<1> DEFINE t == publishing[p]
<1>1. /\ t.at \in {"locked", "found"} /\ t # NotPublishing
      /\ publishing' = [publishing EXCEPT ![p] = NotPublishing]
      /\ UNCHANGED <<slots, edits>>
  BY DEF CommitPosts, NotPublishing
<1>2. t.rows \subseteq Scheduled /\ t.byHand \in BOOLEAN /\ t.seen \in Nat
  BY <1>1, OpenTransaction DEF NoticesInv
<1>3. publishing'[p].at = "home" /\ \A q \in Publishers \ {p} : publishing'[q] = publishing[q]
  BY <1>1 DEF NoticesInv, NoticesTypeOK, NotPublishing
<1>4. posts' = IF t.at = "locked" \/ t.seen > 0 THEN posts ELSE posts + 1
  BY DEF CommitPosts
<1>5. \A n \in Scheduled :
        /\ n \notin t.rows => notice'[n] = notice[n] /\ posted'[n] = posted[n]
        /\ n \in t.rows /\ n \in Repeating =>
             /\ notice'[n].due => n \in t.passed
             /\ posted'[n] = IF t.byHand \/ n \in t.passed THEN 0 ELSE posted[n] + 1
        /\ n \in t.rows /\ n \notin Repeating =>
             /\ notice'[n].active = FALSE /\ posted'[n] = posted[n] + 1
  <2>1. ASSUME NEW n \in Scheduled
        PROVE  notice[n] \in [active: BOOLEAN, due: BOOLEAN]
    BY DEF NoticesInv, NoticesTypeOK
  <2>2. QED BY <2>1 DEF CommitPosts, Published
<1>6. \A n \in Scheduled : n \in t.rows =>
        /\ notice[n].active /\ (t.byHand \/ notice[n].due)
        /\ \A q \in Publishers \ {p} : ~InRows(n, q)
  BY <1>1 DEF NoticesInv, RowsStayDue, LocksExclude, InRows
<1>7. NoticesTypeOK'
  <2>1. \A n \in Scheduled : Published(n, t.passed) \in [active: BOOLEAN, due: BOOLEAN]
    <3>1. \A n \in Scheduled : notice[n] \in [active: BOOLEAN, due: BOOLEAN]
      BY DEF NoticesInv, NoticesTypeOK
    <3>2. SUFFICES ASSUME NEW n \in Scheduled
                   PROVE  Published(n, t.passed) \in [active: BOOLEAN, due: BOOLEAN]
      OBVIOUS
    <3>3. notice[n].active \in BOOLEAN /\ notice[n].due \in BOOLEAN
      BY <3>1
    <3>4. CASE n \notin Repeating
      BY <3>3, <3>4 DEF Published
    <3>5. CASE n \in Repeating /\ n \in t.passed
      <4>1. (n \in t.passed) = TRUE
        BY <3>5
      <4>2. Published(n, t.passed) = [active |-> notice[n].active, due |-> TRUE]
        BY <3>5, <4>1, Zenon DEF Published
      <4>3. QED BY <3>3, <4>2
    <3>6. CASE n \in Repeating /\ n \notin t.passed
      <4>1. (n \in t.passed) = FALSE
        BY <3>6
      <4>2. Published(n, t.passed) = [active |-> notice[n].active, due |-> FALSE]
        BY <3>6, <4>1, Zenon DEF Published
      <4>3. QED BY <3>3, <4>2
    <3>7. QED BY <3>4, <3>5, <3>6
  <2>2. notice' \in [Scheduled -> [active: BOOLEAN, due: BOOLEAN]]
    BY <2>1 DEF CommitPosts, NoticesInv, NoticesTypeOK
  <2>3. posted' \in [Scheduled -> Nat] /\ posts' \in Nat
    BY <1>4 DEF CommitPosts, NoticesInv, NoticesTypeOK
  <2>4. QED BY <1>1, <2>2, <2>3 DEF NoticesInv, NoticesTypeOK
<1>8. LocksExclude'
  BY <1>3 DEF NoticesInv, LocksExclude, InRows
<1>9. PostStaysFound'
  <2>1. posts \in Nat
    BY DEF NoticesInv, NoticesTypeOK
  <2>2. CASE t.at = "locked" \/ t.seen > 0
    BY <1>3, <1>4, <2>2 DEF NoticesInv, PostStaysFound
  <2>3. CASE t.at = "found" /\ t.seen = 0
    <3>1. posts = 0 /\ posts' = 1
      BY <1>4, <2>1, <2>3 DEF NoticesInv, PostStaysFound
    <3>2. \A q \in Publishers \ {p} : publishing[q].at # "found"
      BY <2>3 DEF NoticesInv, LocksExclude
    <3>3. QED BY <1>3, <3>1, <3>2 DEF PostStaysFound
  <2>4. QED BY <1>1, <1>2, <2>2, <2>3
<1>10. RowsStayDue'
  BY <1>3, <1>5, <1>6 DEF NoticesInv, RowsStayDue, InRows
<1>11. CountsAgree'
  <2>1. \A n \in Scheduled : posted[n] \in Nat
    BY DEF NoticesInv, NoticesTypeOK
  <2>2. QED BY <1>5, <1>6, <2>1 DEF NoticesInv, CountsAgree
<1>12. QED BY <1>7, <1>8, <1>9, <1>10, <1>11 DEF NoticesInv

LEMMA SlotPassesStep ==
    ASSUME NoticesInv, NEW m \in Scheduled, SlotPasses(m)
    PROVE  NoticesInv'
<1>1. /\ slots' \in 0..MaxSlots /\ notice[m].active
      /\ notice' = [notice EXCEPT ![m] = [active |-> TRUE, due |-> TRUE]]
      /\ posted' = [posted EXCEPT ![m] = IF m \in Repeating THEN 0 ELSE posted[m]]
      /\ UNCHANGED <<posts, edits>>
  <2>1. notice[m] \in [active: BOOLEAN, due: BOOLEAN] /\ slots \in 0..MaxSlots /\ notice[m].active
    BY DEF SlotPasses, NoticesInv, NoticesTypeOK
  <2>2. QED BY <2>1, NoticesAssumption DEF SlotPasses
<1>2. \A p \in Publishers :
        /\ publishing'[p] \in Transactions \cup {NotPublishing}
        /\ publishing'[p].at = publishing[p].at
        /\ publishing[p].at # "home" =>
             /\ publishing'[p].rows = publishing[p].rows
             /\ publishing'[p].byHand = publishing[p].byHand
             /\ publishing'[p].seen = publishing[p].seen
  <2> SUFFICES ASSUME NEW p \in Publishers
               PROVE  /\ publishing'[p] \in Transactions \cup {NotPublishing}
                      /\ publishing'[p].at = publishing[p].at
                      /\ publishing[p].at # "home" =>
                           /\ publishing'[p].rows = publishing[p].rows
                           /\ publishing'[p].byHand = publishing[p].byHand
                           /\ publishing'[p].seen = publishing[p].seen
    OBVIOUS
  <2>1. CASE publishing[p] = NotPublishing \/ m \notin Repeating
    BY <2>1 DEF SlotPasses, NoticesInv, NoticesTypeOK
  <2>2. CASE publishing[p] # NotPublishing /\ m \in Repeating
    <3>1. publishing[p] \in Transactions
      BY <2>2, OpenTransaction DEF NoticesInv
    <3>2. publishing'[p] = [publishing[p] EXCEPT !.passed = publishing[p].passed \cup {m}]
      BY <2>2 DEF SlotPasses
    <3>3. publishing'[p] = [at |-> publishing[p].at, byHand |-> publishing[p].byHand,
                            rows |-> publishing[p].rows, passed |-> publishing[p].passed \cup {m},
                            seen |-> publishing[p].seen]
      BY <3>1, <3>2 DEF Transactions
    <3>4. QED BY <3>1, <3>3 DEF Transactions
  <2>3. QED BY <2>1, <2>2
<1>3. NoticesTypeOK'
  <2>1. publishing' \in [Publishers -> Transactions \cup {NotPublishing}]
    BY <1>2 DEF SlotPasses
  <2>2. notice' \in [Scheduled -> [active: BOOLEAN, due: BOOLEAN]] /\ posted' \in [Scheduled -> Nat]
    BY <1>1 DEF NoticesInv, NoticesTypeOK
  <2>3. QED BY <1>1, <2>1, <2>2 DEF NoticesInv, NoticesTypeOK
<1>4. \A p \in Publishers, n \in Scheduled : InRows(n, p)' <=> InRows(n, p)
  BY <1>2 DEF InRows
<1>5. LocksExclude'
  BY <1>2, <1>4 DEF NoticesInv, LocksExclude
<1>6. PostStaysFound'
  BY <1>1, <1>2 DEF NoticesInv, PostStaysFound
<1>7. \A n \in Scheduled : n # m => notice'[n] = notice[n] /\ posted'[n] = posted[n]
  BY <1>1 DEF NoticesInv, NoticesTypeOK
<1>8. notice'[m].active /\ notice'[m].due /\ (m \in Repeating => posted'[m] = 0)
      /\ (m \notin Repeating => posted'[m] = posted[m])
  BY <1>1 DEF NoticesInv, NoticesTypeOK
<1>9. RowsStayDue'
  <2>1. \A p \in Publishers : publishing[p].at = "asked" =>
           publishing[p].at # "home" /\ publishing[p].byHand
    BY DEF NoticesInv, RowsStayDue
  <2>2. \A p \in Publishers, n \in Scheduled : InRows(n, p) => publishing[p].at # "home"
    BY DEF InRows
  <2>3. QED BY <1>2, <1>4, <1>7, <1>8, <2>1, <2>2 DEF NoticesInv, RowsStayDue
<1>10. CountsAgree'
  BY <1>1, <1>7, <1>8 DEF NoticesInv, CountsAgree
<1>11. QED BY <1>3, <1>5, <1>6, <1>9, <1>10 DEF NoticesInv

LEMMA EditScheduledStep ==
    ASSUME NoticesInv, NEW m \in Scheduled, EditScheduled(m)
    PROVE  NoticesInv'
<1>1. PICK active, due \in BOOLEAN : notice' = [notice EXCEPT ![m] = [active |-> active, due |-> due]]
  BY DEF EditScheduled
<1>2. /\ edits' \in 0..MaxEdits /\ posted' = [posted EXCEPT ![m] = 0]
      /\ UNCHANGED <<posts, publishing, slots>>
      /\ \A p \in Publishers : ~InRows(m, p)
  BY NoticesAssumption DEF EditScheduled, ScheduleFree, NoticesInv, NoticesTypeOK
<1>3. NoticesTypeOK'
  BY <1>1, <1>2 DEF NoticesInv, NoticesTypeOK
<1>4. \A n \in Scheduled : n # m => notice'[n] = notice[n] /\ posted'[n] = posted[n]
  BY <1>1, <1>2 DEF NoticesInv, NoticesTypeOK
<1>5. LocksExclude' /\ PostStaysFound'
  BY <1>2 DEF NoticesInv, LocksExclude, PostStaysFound, InRows
<1>6. RowsStayDue'
  BY <1>2, <1>4 DEF NoticesInv, RowsStayDue, InRows
<1>7. CountsAgree'
  <2>1. posted'[m] = 0
    BY <1>2 DEF NoticesInv, NoticesTypeOK
  <2>2. QED BY <1>4, <2>1 DEF NoticesInv, CountsAgree
<1>8. QED BY <1>3, <1>5, <1>6, <1>7 DEF NoticesInv

LEMMA DeletePostStep ==
    ASSUME NoticesInv, DeletePost
    PROVE  NoticesInv'
<1>1. /\ edits' \in 0..MaxEdits /\ posts = 1 /\ posts' = 0
      /\ UNCHANGED <<notice, publishing, slots, posted>>
      /\ \A p \in Publishers : ~(publishing[p].at = "found" /\ publishing[p].seen > 0)
  BY NoticesAssumption DEF DeletePost, NoticesInv, NoticesTypeOK, PostStaysFound
<1>2. \A p \in Publishers : publishing[p].at # "found"
  BY <1>1 DEF NoticesInv, PostStaysFound
<1>3. NoticesTypeOK'
  BY <1>1 DEF NoticesInv, NoticesTypeOK
<1>4. LocksExclude' /\ RowsStayDue' /\ CountsAgree'
  BY <1>1 DEF NoticesInv, LocksExclude, RowsStayDue, CountsAgree, InRows
<1>5. PostStaysFound'
  BY <1>1, <1>2 DEF PostStaysFound
<1>6. QED BY <1>3, <1>4, <1>5 DEF NoticesInv

LEMMA NoticesNextInv == NoticesInv /\ [NoticesNext]_noticesVars => NoticesInv'
<1> SUFFICES ASSUME NoticesInv, [NoticesNext]_noticesVars PROVE NoticesInv'
  OBVIOUS
<1>1. CASE \E p \in Publishers : TakeDue(p)
  BY <1>1, TakeDueStep
<1>2. CASE \E p \in Publishers : TakeAsked(p)
  BY <1>2, TakeAskedStep
<1>3. CASE \E p \in Publishers : FindPost(p)
  BY <1>3, FindPostStep
<1>4. CASE \E p \in Publishers : CommitPosts(p)
  BY <1>4, CommitPostsStep
<1>5. CASE \E p \in Publishers : PublishingFails(p)
  BY <1>5, HomeStep DEF PublishingFails
<1>6. CASE \E p \in Publishers, n \in Scheduled : AskFor(p, n)
  BY <1>6, AskForStep
<1>7. CASE \E n \in Scheduled : SlotPasses(n)
  BY <1>7, SlotPassesStep
<1>8. CASE \E n \in Scheduled : EditScheduled(n)
  BY <1>8, EditScheduledStep
<1>9. CASE DeletePost
  BY <1>9, DeletePostStep
<1>10. CASE UNCHANGED noticesVars
  BY <1>10 DEF noticesVars, NoticesInv, NoticesTypeOK, LocksExclude, PostStaysFound, RowsStayDue,
               CountsAgree, InRows
<1>11. QED
  BY <1>1, <1>2, <1>3, <1>4, <1>5, <1>6, <1>7, <1>8, <1>9, <1>10 DEF NoticesNext

-----------------------------------------------------------------------------
\* The inductive invariant: locks exclude, and what a transaction has locked or
\* found stays as it was (publish_scheduled_notices, attendance_notice).
THEOREM NoticesInvariance == NoticesSpec => []NoticesInv
<1>1. QED BY NoticesInitInv, NoticesNextInv, PTL DEF NoticesSpec

\* Types of the scheduled notices, their post and the open transactions.
THEOREM NoticesTypeCorrect == NoticesSpec => []NoticesTypeOK
<1>1. NoticesInv => NoticesTypeOK
  BY DEF NoticesInv
<1>2. QED BY <1>1, NoticesInvariance, PTL

\* A notice set once is published once, and a repeated one once for each time
\* that comes, for any number of publishers (publish_scheduled_notices).
THEOREM AlwaysPublishedOnce == NoticesSpec => []PublishedOnce
<1>1. NoticesInv => PublishedOnce
  BY DEF NoticesInv, CountsAgree, PublishedOnce
<1>2. QED BY <1>1, NoticesInvariance, PTL

\* The attendance notices of a cohort share one post (attendance_notice).
THEOREM AlwaysOneAttendanceRow == NoticesSpec => []OneAttendanceRow
<1>1. NoticesInv => OneAttendanceRow
  BY DEF NoticesInv, PostStaysFound, OneAttendanceRow
<1>2. QED BY <1>1, NoticesInvariance, PTL

-----------------------------------------------------------------------------
(* Cohort deletion *)

\* Who holds the cohorts row, and what that excludes
LocksAgree ==
    /\ \A u, v \in Uploading : u = v
    /\ Uploading # {} => inserting = {} /\ cohort = "there" /\ job.state = "none"
    /\ Unfinished => (rows \cup inserting) \cap Guarded = {}

\* What the job says of the cohort
JobAgrees ==
    /\ job.state = "complete" => cohort = "gone"
    /\ job.state \in {"none", "preparing"} => ~job.listed
    /\ ~job.listed => job.vectors = {} /\ job.objects = {} /\ cohort = "there"
    /\ cohort = "gone" => rows = {} /\ inserting = {} /\ objects = {} /\ Pointed = {}

\* What is outside, against what the job has noted
DocumentsAgree ==
    /\ vectors \subseteq objects
    /\ \A u \in Uploads : upload[u].at \in {"put", "indexed"} => u \in objects
    /\ \A u \in Uploads : upload[u].at = "indexed" => u \in vectors
    /\ job.listed => objects \cup Pointed \subseteq job.targets
    /\ job.vectors \cap vectors = {} /\ job.objects \cap objects = {}
    /\ SearchedIsThere

\* What the requests have in memory
AdminsAgree ==
    \A d \in Admins :
        /\ admin[d].at # "idle" => job.state # "none"
        /\ admin[d].at \in DeletionSteps => advisory = {d}
        /\ admin[d].at = "listed" => ~job.listed /\ objects \subseteq admin[d].keys
        /\ admin[d].at \in {"cleaning", "vectorsGone", "objectGone"} => job.listed
        /\ admin[d].at = "vectorsGone" => admin[d].keys \cap vectors = {}
        /\ admin[d].at = "objectGone" => admin[d].keys \cap objects = {}

\* The inductive invariant
CohortIInv == CohortTypeOK /\ LocksAgree /\ JobAgrees /\ DocumentsAgree /\ AdminsAgree

LEMMA InitCohortIInv == CohortInit => CohortIInv
  <1> SUFFICES ASSUME CohortInit  PROVE CohortIInv
    OBVIOUS
  <1>1. CohortTypeOK
    BY DEF CohortInit, CohortTypeOK, Jobs, JobStates, Resting, DocumentKinds, Foreign
  <1>2. Uploading = {}
    BY DEF CohortInit, Uploading, UploadSteps
  <1>3. Pointed = {}
    BY DEF CohortInit, Pointed, Foreign
  <1>4. LocksAgree /\ JobAgrees
    BY <1>2, <1>3 DEF CohortInit, LocksAgree, JobAgrees, Unfinished
  <1>5. DocumentsAgree
    BY <1>3 DEF CohortInit, DocumentsAgree, SearchedIsThere
  <1>6. AdminsAgree
    BY DEF CohortInit, AdminsAgree, Resting, DeletionSteps
  <1> QED BY <1>1, <1>4, <1>5, <1>6 DEF CohortIInv

-----------------------------------------------------------------------------
(* Rows of other tables *)

\* A row is inserted only while the cohort is there and, where the trigger is,
\* while no deletion is unfinished; ending or deleting adds nothing new.
LEMMA TableStep ==
    ASSUME CohortIInv, NEW t \in Tables, Insert(t) \/ EndInsert(t) \/ DeleteRow(t)
    PROVE  CohortIInv'
  <1>0. CohortTypeOK /\ LocksAgree /\ JobAgrees /\ DocumentsAgree /\ AdminsAgree
    BY DEF CohortIInv
  <1>1. /\ UNCHANGED <<cohort, pointer, upload, objects, vectors, job, advisory, admin>>
        /\ rows' \subseteq rows \cup inserting /\ rows' \subseteq Tables
        /\ inserting' \subseteq inserting \cup {t} /\ inserting' \subseteq Tables
        /\ \/ inserting' \subseteq inserting
           \/ cohort = "there" /\ Uploading = {} /\ (t \in Guarded => ~Unfinished)
    BY <1>0 DEF Insert, EndInsert, DeleteRow, Writable, Shareable, CohortTypeOK
  <1>2. Uploading' = Uploading /\ Unfinished' = Unfinished /\ Pointed' = Pointed
    BY <1>1 DEF Uploading, Unfinished, Pointed
  <1>3. CohortTypeOK'
    BY <1>0, <1>1 DEF CohortTypeOK
  <1>4. LocksAgree'
    BY <1>0, <1>1, <1>2 DEF LocksAgree
  <1>5. JobAgrees'
    BY <1>0, <1>1, <1>2 DEF JobAgrees
  <1>6. DocumentsAgree' /\ AdminsAgree'
    BY <1>0, <1>1, <1>2 DEF DocumentsAgree, AdminsAgree, SearchedIsThere
  <1> QED BY <1>3, <1>4, <1>5, <1>6 DEF CohortIInv

\* A curriculum set or cleared by a command points to no upload.
LEMMA SetCurriculumStep ==
    ASSUME CohortIInv, NEW key \in Foreign, SetCurriculum(key)
    PROVE  CohortIInv'
  <1>0. CohortTypeOK /\ LocksAgree /\ JobAgrees /\ DocumentsAgree /\ AdminsAgree
    BY DEF CohortIInv
  <1>1. /\ UNCHANGED <<cohort, rows, inserting, upload, objects, vectors, job, advisory, admin>>
        /\ pointer' = [pointer EXCEPT !["curriculum"] = key]
    BY DEF SetCurriculum
  <1>2. Uploading' = Uploading /\ Unfinished' = Unfinished
    BY <1>1 DEF Uploading, Unfinished
  <1>3. CohortTypeOK'
    BY <1>0, <1>1 DEF CohortTypeOK
  <1>4. Pointed' \subseteq Pointed
    BY <1>0, <1>1 DEF Pointed, CohortTypeOK
  <1>5. LocksAgree' /\ JobAgrees'
    BY <1>0, <1>1, <1>2, <1>4 DEF LocksAgree, JobAgrees
  <1>6. DocumentsAgree' /\ AdminsAgree'
    BY <1>0, <1>1, <1>4 DEF DocumentsAgree, AdminsAgree, SearchedIsThere
  <1> QED BY <1>3, <1>5, <1>6 DEF CohortIInv

-----------------------------------------------------------------------------
(* Uploads *)

\* An upload takes the cohorts row, and finds no deletion.
LEMMA BeginUploadStep ==
    ASSUME CohortIInv, NEW u \in Uploads, NEW kind \in DocumentKinds, BeginUpload(u, kind)
    PROVE  CohortIInv'
  <1>0. CohortTypeOK /\ LocksAgree /\ JobAgrees /\ DocumentsAgree /\ AdminsAgree
    BY DEF CohortIInv
  <1>1. /\ UNCHANGED <<cohort, pointer, rows, inserting, objects, vectors, job, advisory, admin>>
        /\ upload' = [upload EXCEPT ![u] = [at |-> "locked", kind |-> kind]]
        /\ cohort = "there" /\ Uploading = {} /\ inserting = {} /\ ~Unfinished
    BY DEF BeginUpload, Lockable
  <1>2. job.state = "none"
    BY <1>0, <1>1 DEF CohortTypeOK, Jobs, JobStates, Unfinished, JobAgrees
  <1>3. Uploading' = {u} /\ Unfinished' = Unfinished /\ Pointed' = Pointed
    BY <1>0, <1>1 DEF Uploading, UploadSteps, Unfinished, Pointed, CohortTypeOK
  <1>4. CohortTypeOK'
    BY <1>0, <1>1 DEF CohortTypeOK, UploadSteps
  <1>5. LocksAgree' /\ JobAgrees'
    BY <1>0, <1>1, <1>2, <1>3 DEF LocksAgree, JobAgrees
  <1>6. DocumentsAgree'
    BY <1>0, <1>1, <1>3 DEF DocumentsAgree, SearchedIsThere, CohortTypeOK
  <1>7. AdminsAgree'
    BY <1>0, <1>1 DEF AdminsAgree
  <1> QED BY <1>4, <1>5, <1>6, <1>7 DEF CohortIInv

\* While an upload is under way there is no job, and it is the only one: what
\* it stores, indexes and points to is its own document, in this order.
LEMMA UploadWorkStep ==
    ASSUME CohortIInv, NEW u \in Uploads,
           PutObject(u) \/ IndexDocument(u) \/ Publish(u) \/ UploadFails(u)
    PROVE  CohortIInv'
  <1>0. CohortTypeOK /\ LocksAgree /\ JobAgrees /\ DocumentsAgree /\ AdminsAgree
    BY DEF CohortIInv
  <1>1. PICK s \in {"put", "indexed", "over"} :
            /\ upload' = [upload EXCEPT ![u].at = s]
            /\ UNCHANGED <<cohort, rows, inserting, job, advisory, admin>>
            /\ u \in Uploading
            /\ objects \subseteq objects' /\ objects' \subseteq objects \cup {u}
            /\ vectors \subseteq vectors' /\ vectors' \subseteq vectors \cup {u}
            /\ s \in {"put", "indexed"} => u \in objects'
            /\ s = "indexed" => u \in vectors'
            /\ u \in vectors' /\ u \notin vectors => u \in objects'
            /\ \/ UNCHANGED pointer
               \/ /\ pointer' = [pointer EXCEPT ![upload[u].kind] = u]
                  /\ u \in objects' /\ u \in vectors'
    <2>1. CASE PutObject(u)
      BY <1>0, <2>1 DEF PutObject, UploadStep, Uploading, UploadSteps
    <2>2. CASE IndexDocument(u)
      BY <1>0, <2>2 DEF IndexDocument, UploadStep, Uploading, UploadSteps, DocumentsAgree
    <2>3. CASE Publish(u)
      BY <1>0, <2>3 DEF Publish, PublishedFrom, UploadStep, Uploading, UploadSteps, DocumentsAgree
    <2>4. CASE UploadFails(u)
      BY <1>0, <2>4 DEF UploadFails, UploadStep, DocumentsAgree
    <2> QED BY <2>1, <2>2, <2>3, <2>4
  <1>2. /\ job.state = "none" /\ ~job.listed /\ job.vectors = {} /\ job.objects = {}
        /\ cohort = "there" /\ inserting = {}
    BY <1>0, <1>1 DEF LocksAgree, JobAgrees
  <1>3. \A v \in Uploads : v # u => upload'[v] = upload[v]
    BY <1>0, <1>1 DEF CohortTypeOK
  <1>4. upload'[u].at = s /\ upload[u].kind \in DocumentKinds
    BY <1>0, <1>1 DEF CohortTypeOK
  <1>5. Uploading' \subseteq Uploading /\ Unfinished' = Unfinished /\ ~Unfinished
    BY <1>1, <1>2, <1>3 DEF Uploading, Unfinished
  <1>6. Pointed' \subseteq Pointed \cup {u}
    BY <1>0, <1>1, <1>4 DEF Pointed, CohortTypeOK
  <1>7. Pointed' \subseteq objects' \cap vectors'
    <2>1. Pointed \subseteq objects' \cap vectors'
      BY <1>0, <1>1, <1>2 DEF DocumentsAgree, SearchedIsThere
    <2>2. CASE UNCHANGED pointer
      BY <2>1, <2>2 DEF Pointed
    <2>3. CASE u \in objects' /\ u \in vectors'
      BY <1>6, <2>1, <2>3
    <2> QED BY <1>1, <2>2, <2>3
  <1>8. CohortTypeOK'
    <2>1. upload' \in [Uploads -> [at: UploadSteps \cup {"new", "over"}, kind: DocumentKinds]]
      BY <1>0, <1>1 DEF CohortTypeOK, UploadSteps
    <2>2. pointer' \in [DocumentKinds -> Uploads \cup Foreign]
      BY <1>0, <1>1, <1>4 DEF CohortTypeOK
    <2>3. objects' \subseteq Uploads /\ vectors' \subseteq Uploads
      BY <1>0, <1>1 DEF CohortTypeOK
    <2> QED BY <1>0, <1>1, <2>1, <2>2, <2>3 DEF CohortTypeOK
  <1>9. LocksAgree' /\ JobAgrees'
    BY <1>0, <1>1, <1>2, <1>5 DEF LocksAgree, JobAgrees
  <1>10. DocumentsAgree'
    <2>1. \A v \in Uploads : upload'[v].at \in {"put", "indexed"} => v \in objects'
      BY <1>0, <1>1, <1>3, <1>4 DEF DocumentsAgree
    <2>2. \A v \in Uploads : upload'[v].at = "indexed" => v \in vectors'
      BY <1>0, <1>1, <1>3, <1>4 DEF DocumentsAgree
    <2>3. vectors' \subseteq objects'
      BY <1>0, <1>1 DEF DocumentsAgree
    <2> QED BY <1>1, <1>2, <1>7, <2>1, <2>2, <2>3 DEF DocumentsAgree, SearchedIsThere
  <1>11. AdminsAgree'
    BY <1>0, <1>1, <1>2 DEF AdminsAgree, DeletionSteps
  <1> QED BY <1>8, <1>9, <1>10, <1>11 DEF CohortIInv
-----------------------------------------------------------------------------
(* The deletion *)

\* A deletion is prepared where nothing holds the row and nothing is left of
\* the cohort but its documents.
LEMMA PrepareStep ==
    ASSUME CohortIInv, NEW d \in Admins, Prepare(d)
    PROVE  CohortIInv'
  <1>0. CohortTypeOK /\ LocksAgree /\ JobAgrees /\ DocumentsAgree /\ AdminsAgree
    BY DEF CohortIInv
  <1>1. /\ UNCHANGED <<cohort, pointer, rows, inserting, upload, objects, vectors, advisory>>
        /\ Uploading = {} /\ inserting = {} /\ rows = {} /\ cohort = "there"
        /\ admin' = [admin EXCEPT ![d].at = "prepared"] /\ admin[d].at = "idle"
        /\ job' = IF job.state = "none" THEN [job EXCEPT !.state = "preparing"] ELSE job
    BY DEF Prepare, Lockable, Resting
  <1>2. /\ job' \in Jobs /\ job'.state # "none"
        /\ job'.listed = job.listed /\ job'.targets = job.targets
        /\ job'.vectors = job.vectors /\ job'.objects = job.objects
        /\ job'.state = "complete" => job.state = "complete"
        /\ job'.state = "preparing" => job.state \in {"none", "preparing"}
    BY <1>0, <1>1 DEF CohortTypeOK, Jobs, JobStates
  <1>3. Uploading' = {} /\ Pointed' = Pointed
    BY <1>1 DEF Uploading, Pointed
  <1>4. \A e \in Admins : e # d => admin'[e] = admin[e]
    BY <1>0, <1>1 DEF CohortTypeOK
  <1>5. admin'[d].at = "prepared" /\ admin'[d].keys \subseteq Uploads
    BY <1>0, <1>1 DEF CohortTypeOK
  <1>6. CohortTypeOK'
    <2>1. admin' \in [Admins -> [at: DeletionSteps \cup {"idle", "prepared"}, keys: SUBSET Uploads]]
      BY <1>0, <1>1 DEF CohortTypeOK
    <2> QED BY <1>0, <1>1, <1>2, <2>1 DEF CohortTypeOK
  <1>7. LocksAgree' /\ JobAgrees'
    BY <1>0, <1>1, <1>2, <1>3 DEF LocksAgree, JobAgrees
  <1>8. DocumentsAgree'
    BY <1>0, <1>1, <1>2, <1>3 DEF DocumentsAgree, SearchedIsThere
  <1>9. AdminsAgree'
    <2> SUFFICES ASSUME NEW e \in Admins
                 PROVE
            /\ admin'[e].at # "idle" => job'.state # "none"
            /\ admin'[e].at \in DeletionSteps => advisory' = {e}
            /\ admin'[e].at = "listed" => ~job'.listed /\ objects' \subseteq admin'[e].keys
            /\ admin'[e].at \in {"cleaning", "vectorsGone", "objectGone"} => job'.listed
            /\ admin'[e].at = "vectorsGone" => admin'[e].keys \cap vectors' = {}
            /\ admin'[e].at = "objectGone" => admin'[e].keys \cap objects' = {}
      BY DEF AdminsAgree
    <2>1. CASE e = d
      BY <1>2, <1>5, <2>1 DEF DeletionSteps
    <2>2. CASE e # d
      BY <1>0, <1>1, <1>2, <1>4, <2>2 DEF AdminsAgree
    <2> QED BY <2>1, <2>2
  <1> QED BY <1>6, <1>7, <1>8, <1>9 DEF CohortIInv

\* A step of the request that has the advisory lock, or takes it: it alone is
\* at work outside the database, and there is no upload.
LEMMA WorkStep ==
    ASSUME CohortIInv, NEW d \in Admins, NEW from \in DeletionSteps \cup {"prepared"},
           NEW to \in DeletionSteps \cup {"idle"}, NEW keys \in SUBSET Uploads,
           DeletionStep(d, from, to, keys),
           from = "prepared" => advisory = {}
    PROVE  /\ UNCHANGED <<cohort, pointer, rows, inserting, upload>>
           /\ Uploading = {} /\ Uploading' = {} /\ Pointed' = Pointed
           /\ job.state # "none"
           /\ admin' \in [Admins -> [at: DeletionSteps \cup {"idle", "prepared"}, keys: SUBSET Uploads]]
           /\ admin'[d].at = to /\ admin'[d].keys = keys
           /\ \A e \in Admins : e # d => admin'[e] = admin[e] /\ admin'[e].at \in {"idle", "prepared"}
  <1>0. CohortTypeOK /\ LocksAgree /\ JobAgrees /\ DocumentsAgree /\ AdminsAgree
    BY DEF CohortIInv
  <1>1. /\ UNCHANGED <<cohort, pointer, rows, inserting, upload>>
        /\ admin[d].at = from /\ admin' = [admin EXCEPT ![d] = [at |-> to, keys |-> keys]]
    BY DEF DeletionStep
  <1>2. job.state # "none"
    BY <1>0, <1>1 DEF AdminsAgree, DeletionSteps
  <1>3. Uploading = {}
    BY <1>0, <1>2 DEF LocksAgree
  <1>4. Uploading' = {} /\ Pointed' = Pointed
    BY <1>1, <1>3 DEF Uploading, Pointed
  <1>5. admin' \in [Admins -> [at: DeletionSteps \cup {"idle", "prepared"}, keys: SUBSET Uploads]]
    BY <1>0, <1>1 DEF CohortTypeOK
  <1>6. admin'[d].at = to /\ admin'[d].keys = keys
    BY <1>0, <1>1 DEF CohortTypeOK
  <1>7. \A e \in Admins : e # d => admin'[e] = admin[e]
    BY <1>0, <1>1 DEF CohortTypeOK
  <1>8. ASSUME NEW e \in Admins, e # d  PROVE admin[e].at \in {"idle", "prepared"}
    <2>1. admin[e].at \in DeletionSteps => advisory = {e}
      BY <1>0 DEF AdminsAgree
    <2>2. advisory = {} \/ advisory = {d}
      BY <1>0, <1>1 DEF AdminsAgree
    <2>3. admin[e].at \in DeletionSteps \cup {"idle", "prepared"}
      BY <1>0 DEF CohortTypeOK
    <2> QED BY <1>8, <2>1, <2>2, <2>3
  <1> QED BY <1>1, <1>2, <1>3, <1>4, <1>5, <1>6, <1>7, <1>8

\* What the other requests rely on: that there is a job.
LEMMA OthersAgree ==
    ASSUME CohortIInv, NEW d \in Admins,
           \A e \in Admins : e # d => admin'[e] = admin[e] /\ admin'[e].at \in {"idle", "prepared"},
           job'.state # "none",
           /\ admin'[d].at \in DeletionSteps => advisory' = {d}
           /\ admin'[d].at = "listed" => ~job'.listed /\ objects' \subseteq admin'[d].keys
           /\ admin'[d].at \in {"cleaning", "vectorsGone", "objectGone"} => job'.listed
           /\ admin'[d].at = "vectorsGone" => admin'[d].keys \cap vectors' = {}
           /\ admin'[d].at = "objectGone" => admin'[d].keys \cap objects' = {}
    PROVE  AdminsAgree'
  BY DEF CohortIInv, AdminsAgree, DeletionSteps

\* The listed job saved, or one listed before taken up: what it lists is all
\* there is.
LEMMA ManifestKept ==
    ASSUME CohortIInv, NEW d \in Admins, NEW from \in {"locked", "listed"},
           DeletionStep(d, from, "cleaning", {}), advisory' = {d},
           UNCHANGED <<objects, vectors>>,
           job' \in Jobs, job'.state = "deleting", job'.listed,
           job'.vectors = job.vectors, job'.objects = job.objects,
           job.listed => job'.targets = job.targets,
           ~job.listed => objects \cup Pointed \subseteq job'.targets
    PROVE  CohortIInv'
  <1>0. CohortTypeOK /\ LocksAgree /\ JobAgrees /\ DocumentsAgree /\ AdminsAgree
    BY DEF CohortIInv
  <1>1. /\ UNCHANGED <<cohort, pointer, rows, inserting, upload>>
        /\ Uploading = {} /\ Uploading' = {} /\ Pointed' = Pointed
        /\ job.state # "none"
        /\ admin' \in [Admins -> [at: DeletionSteps \cup {"idle", "prepared"}, keys: SUBSET Uploads]]
        /\ admin'[d].at = "cleaning" /\ admin'[d].keys = {}
        /\ \A e \in Admins : e # d => admin'[e] = admin[e] /\ admin'[e].at \in {"idle", "prepared"}
    <2>1. /\ from \in DeletionSteps \cup {"prepared"} /\ from # "prepared"
          /\ "cleaning" \in DeletionSteps \cup {"idle"} /\ {} \in SUBSET Uploads
      BY DEF DeletionSteps
    <2> QED BY <2>1, WorkStep
  <1>2. Unfinished \/ cohort = "gone"
    BY <1>0, <1>1 DEF Unfinished, CohortTypeOK, Jobs, JobStates, JobAgrees
  <1>3. CohortTypeOK'
    <2>1. objects' \subseteq Uploads /\ vectors' \subseteq Uploads /\ advisory' \subseteq Admins
      BY <1>0 DEF CohortTypeOK
    <2> QED BY <1>0, <1>1, <2>1 DEF CohortTypeOK
  <1>4. LocksAgree'
    BY <1>0, <1>1, <1>2 DEF LocksAgree, JobAgrees
  <1>5. JobAgrees'
    BY <1>0, <1>1 DEF JobAgrees
  <1>6. DocumentsAgree'
    BY <1>0, <1>1 DEF DocumentsAgree, SearchedIsThere
  <1>7. AdminsAgree'
    BY <1>1, OthersAgree DEF DeletionSteps
  <1> QED BY <1>3, <1>4, <1>5, <1>6, <1>7 DEF CohortIInv

\* The advisory lock taken, or the store listed: nothing but the request's own
\* memory changes.
LEMMA LookStep ==
    ASSUME CohortIInv, NEW d \in Admins, NEW from \in {"prepared", "locked"},
           NEW to \in {"locked", "listed"}, NEW keys \in SUBSET Uploads,
           DeletionStep(d, from, to, keys),
           from = "prepared" => advisory = {}, advisory' = {d},
           UNCHANGED <<objects, vectors, job>>,
           to = "listed" => ~job.listed /\ objects \subseteq keys
    PROVE  CohortIInv'
  <1>0. CohortTypeOK /\ LocksAgree /\ JobAgrees /\ DocumentsAgree /\ AdminsAgree
    BY DEF CohortIInv
  <1>1. /\ UNCHANGED <<cohort, pointer, rows, inserting, upload>>
        /\ Uploading = {} /\ Uploading' = {} /\ Pointed' = Pointed
        /\ job.state # "none"
        /\ admin' \in [Admins -> [at: DeletionSteps \cup {"idle", "prepared"}, keys: SUBSET Uploads]]
        /\ admin'[d].at = to /\ admin'[d].keys = keys
        /\ \A e \in Admins : e # d => admin'[e] = admin[e] /\ admin'[e].at \in {"idle", "prepared"}
    BY WorkStep DEF DeletionSteps
  <1>2. CohortTypeOK'
    BY <1>0, <1>1 DEF CohortTypeOK
  <1>3. LocksAgree' /\ JobAgrees'
    BY <1>0, <1>1 DEF LocksAgree, JobAgrees, Unfinished
  <1>4. DocumentsAgree'
    BY <1>0, <1>1 DEF DocumentsAgree, SearchedIsThere
  <1>5. AdminsAgree'
    BY <1>1, OthersAgree DEF DeletionSteps
  <1> QED BY <1>2, <1>3, <1>4, <1>5 DEF CohortIInv

LEMMA TryLockStep ==
    ASSUME CohortIInv, NEW d \in Admins, advisory = {}, advisory' = {d},
           DeletionStep(d, "prepared", "locked", {}), UNCHANGED <<objects, vectors, job>>
    PROVE  CohortIInv'
  BY LookStep

LEMMA ListKeysStep ==
    ASSUME CohortIInv, NEW d \in Admins, ListKeys(d)
    PROVE  CohortIInv'
  <1>1. /\ ~job.listed /\ DeletionStep(d, "locked", "listed", objects)
        /\ UNCHANGED <<objects, vectors, job, advisory>> /\ objects \in SUBSET Uploads
    BY DEF ListKeys, Listed, CohortIInv, CohortTypeOK
  <1>2. advisory' = {d}
    BY <1>1 DEF CohortIInv, AdminsAgree, DeletionStep, DeletionSteps
  <1> QED BY <1>1, <1>2, LookStep

LEMMA SaveTargetsStep ==
    ASSUME CohortIInv, NEW d \in Admins, SaveTargets(d)
    PROVE  CohortIInv'
  <1>0. CohortTypeOK /\ AdminsAgree
    BY DEF CohortIInv
  <1>1. /\ DeletionStep(d, "listed", "cleaning", {}) /\ UNCHANGED <<objects, vectors, advisory>>
        /\ admin[d].at = "listed"
    BY DEF SaveTargets, DeletionStep
  <1>2. advisory' = {d} /\ ~job.listed /\ objects \subseteq admin[d].keys
    BY <1>0, <1>1 DEF AdminsAgree, DeletionSteps
  <1>3. admin[d].keys \cup Pointed \in SUBSET Uploads
    BY <1>0 DEF CohortTypeOK, Pointed
  <1>4. job' = [state |-> "deleting", listed |-> TRUE, targets |-> admin[d].keys \cup Pointed,
                vectors |-> job.vectors, objects |-> job.objects]
    BY <1>0 DEF SaveTargets, CohortTypeOK, Jobs
  <1>5. job' \in Jobs
    BY <1>0, <1>3, <1>4 DEF CohortTypeOK, Jobs, JobStates
  <1>6. /\ job'.state = "deleting" /\ job'.listed
        /\ job'.vectors = job.vectors /\ job'.objects = job.objects
        /\ objects \cup Pointed \subseteq job'.targets
    BY <1>2, <1>4
  <1> QED BY <1>1, <1>2, <1>5, <1>6, ManifestKept DEF DeletionSteps

LEMMA ResumeStep ==
    ASSUME CohortIInv, NEW d \in Admins, Resume(d)
    PROVE  CohortIInv'
  <1>0. CohortTypeOK /\ AdminsAgree
    BY DEF CohortIInv
  <1>1. /\ DeletionStep(d, "locked", "cleaning", {}) /\ UNCHANGED <<objects, vectors, advisory>>
        /\ admin[d].at = "locked" /\ job.listed
    BY DEF Resume, DeletionStep
  <1>2. advisory' = {d}
    BY <1>0, <1>1 DEF AdminsAgree, DeletionSteps
  <1>3. job' = [state |-> "deleting", listed |-> TRUE, targets |-> job.targets,
                vectors |-> job.vectors, objects |-> job.objects]
    BY <1>0, <1>1 DEF Resume, CohortTypeOK, Jobs
  <1>4. job' \in Jobs
    BY <1>0, <1>3 DEF CohortTypeOK, Jobs, JobStates
  <1>5. /\ job'.state = "deleting" /\ job'.listed /\ job'.targets = job.targets
        /\ job'.vectors = job.vectors /\ job'.objects = job.objects
    BY <1>3
  <1> QED BY <1>1, <1>2, <1>4, <1>5, ManifestKept DEF DeletionSteps

-----------------------------------------------------------------------------
(* Deleting outside *)

\* One document's vectors or object deleted, or that noted: what is noted as
\* deleted was deleted before, and nothing brings it back.
LEMMA CleanupKept ==
    ASSUME CohortIInv, NEW d \in Admins,
           NEW from \in {"cleaning", "vectorsGone", "objectGone"},
           NEW to \in {"cleaning", "vectorsGone", "objectGone"}, NEW keys \in SUBSET Uploads,
           DeletionStep(d, from, to, keys), UNCHANGED advisory,
           objects' \subseteq objects, vectors' \subseteq vectors, vectors' \subseteq objects',
           to = "vectorsGone" => keys \cap vectors' = {},
           to = "objectGone" => keys \cap objects' = {},
           job' \in Jobs, job'.state = job.state, job'.listed = job.listed,
           job'.targets = job.targets,
           job'.vectors \cap vectors' = {}, job'.objects \cap objects' = {}
    PROVE  CohortIInv'
  <1>0. CohortTypeOK /\ LocksAgree /\ JobAgrees /\ DocumentsAgree /\ AdminsAgree
    BY DEF CohortIInv
  <1>1. /\ UNCHANGED <<cohort, pointer, rows, inserting, upload>>
        /\ Uploading = {} /\ Uploading' = {} /\ Pointed' = Pointed
        /\ job.state # "none"
        /\ admin' \in [Admins -> [at: DeletionSteps \cup {"idle", "prepared"}, keys: SUBSET Uploads]]
        /\ admin'[d].at = to /\ admin'[d].keys = keys
        /\ \A e \in Admins : e # d => admin'[e] = admin[e] /\ admin'[e].at \in {"idle", "prepared"}
    BY WorkStep DEF DeletionSteps
  <1>2. advisory' = {d} /\ job.listed
    BY <1>0 DEF AdminsAgree, DeletionStep, DeletionSteps
  <1>3. CohortTypeOK'
    BY <1>0, <1>1, <1>2 DEF CohortTypeOK
  <1>4. LocksAgree' /\ JobAgrees'
    BY <1>0, <1>1, <1>2 DEF LocksAgree, JobAgrees, Unfinished
  <1>5. \A u \in Uploads : upload[u].at \notin {"put", "indexed"}
    BY <1>1 DEF Uploading, UploadSteps
  <1>6. DocumentsAgree'
    BY <1>0, <1>1, <1>2, <1>5 DEF DocumentsAgree, SearchedIsThere
  <1>7. AdminsAgree'
    BY <1>1, <1>2, OthersAgree DEF DeletionSteps
  <1> QED BY <1>3, <1>4, <1>6, <1>7 DEF CohortIInv

LEMMA DeleteVectorsStep ==
    ASSUME CohortIInv, NEW d \in Admins, NEW k \in Uploads, DeleteVectors(d, k)
    PROVE  CohortIInv'
  <1>1. /\ DeletionStep(d, "cleaning", "vectorsGone", {k}) /\ vectors' = vectors \ {k}
        /\ UNCHANGED <<objects, job, advisory>>
    BY DEF DeleteVectors
  <1>2. /\ job \in Jobs /\ vectors' \subseteq objects'
        /\ job.vectors \cap vectors' = {} /\ job.objects \cap objects' = {}
    BY <1>1 DEF CohortIInv, CohortTypeOK, DocumentsAgree
  <1> QED BY <1>1, <1>2, CleanupKept

LEMMA DeleteObjectStep ==
    ASSUME CohortIInv, NEW d \in Admins, NEW k \in Uploads, DeleteObject(d, k)
    PROVE  CohortIInv'
  <1>1. /\ DeletionStep(d, "cleaning", "objectGone", {k}) /\ objects' = objects \ {k}
        /\ UNCHANGED <<vectors, job, advisory>> /\ k \in job.vectors
    BY DEF DeleteObject
  <1>2. /\ job \in Jobs /\ vectors' \subseteq objects'
        /\ job.vectors \cap vectors' = {} /\ job.objects \cap objects' = {}
    BY <1>1 DEF CohortIInv, CohortTypeOK, DocumentsAgree
  <1> QED BY <1>1, <1>2, CleanupKept

LEMMA SaveVectorsStep ==
    ASSUME CohortIInv, NEW d \in Admins, SaveVectors(d)
    PROVE  CohortIInv'
  <1>0. CohortTypeOK /\ AdminsAgree /\ DocumentsAgree
    BY DEF CohortIInv
  <1>1. /\ DeletionStep(d, "vectorsGone", "cleaning", {}) /\ admin[d].at = "vectorsGone"
        /\ UNCHANGED <<objects, vectors, advisory>>
    BY DEF SaveVectors, DeletionStep
  <1>2. job' = [job EXCEPT !.vectors = job.vectors \cup admin[d].keys]
    BY DEF SaveVectors
  <1>3. admin[d].keys \cap vectors = {} /\ admin[d].keys \subseteq Uploads
    BY <1>0, <1>1 DEF AdminsAgree, CohortTypeOK
  <1>4. /\ job'.state = job.state /\ job'.listed = job.listed /\ job'.targets = job.targets
        /\ job'.objects = job.objects /\ job'.vectors = job.vectors \cup admin[d].keys
        /\ job' \in Jobs
    BY <1>0, <1>2, <1>3 DEF CohortTypeOK, Jobs
  <1>5. /\ job'.vectors \cap vectors' = {} /\ job'.objects \cap objects' = {}
        /\ vectors' \subseteq objects'
    BY <1>0, <1>1, <1>3, <1>4 DEF DocumentsAgree
  <1> QED BY <1>1, <1>4, <1>5, CleanupKept

LEMMA SaveObjectStep ==
    ASSUME CohortIInv, NEW d \in Admins, SaveObject(d)
    PROVE  CohortIInv'
  <1>0. CohortTypeOK /\ AdminsAgree /\ DocumentsAgree
    BY DEF CohortIInv
  <1>1. /\ DeletionStep(d, "objectGone", "cleaning", {}) /\ admin[d].at = "objectGone"
        /\ UNCHANGED <<objects, vectors, advisory>>
    BY DEF SaveObject, DeletionStep
  <1>2. job' = [job EXCEPT !.objects = job.objects \cup admin[d].keys]
    BY DEF SaveObject
  <1>3. admin[d].keys \cap objects = {} /\ admin[d].keys \subseteq Uploads
    BY <1>0, <1>1 DEF AdminsAgree, CohortTypeOK
  <1>4. /\ job'.state = job.state /\ job'.listed = job.listed /\ job'.targets = job.targets
        /\ job'.vectors = job.vectors /\ job'.objects = job.objects \cup admin[d].keys
        /\ job' \in Jobs
    BY <1>0, <1>2, <1>3 DEF CohortTypeOK, Jobs
  <1>5. /\ job'.vectors \cap vectors' = {} /\ job'.objects \cap objects' = {}
        /\ vectors' \subseteq objects'
    BY <1>0, <1>1, <1>3, <1>4 DEF DocumentsAgree
  <1> QED BY <1>1, <1>4, <1>5, CleanupKept

-----------------------------------------------------------------------------
(* The ends of a request *)

\* A request leaves: turned away from the lock, failed under it or lost.  What
\* it had noted of the job stays, and nothing it knew is needed.
LEMMA LeaveStep ==
    ASSUME CohortIInv, NEW d \in Admins, NEW from \in DeletionSteps \cup {"prepared"},
           DeletionStep(d, from, "idle", {}), UNCHANGED <<objects, vectors>>,
           \A e \in Admins \ {d} : admin[e].at \in DeletionSteps => advisory' = advisory,
           advisory' \subseteq advisory,
           job' = job \/ job' = [job EXCEPT !.state = "failed"]
    PROVE  CohortIInv'
  <1>0. CohortTypeOK /\ LocksAgree /\ JobAgrees /\ DocumentsAgree /\ AdminsAgree
    BY DEF CohortIInv
  <1>1. /\ UNCHANGED <<cohort, pointer, rows, inserting, upload>>
        /\ admin[d].at = from /\ admin' = [admin EXCEPT ![d] = [at |-> "idle", keys |-> {}]]
    BY DEF DeletionStep
  <1>2. /\ job.state # "none" /\ Uploading = {}
        /\ Uploading' = {} /\ Pointed' = Pointed
    <2>1. job.state # "none"
      BY <1>0, <1>1 DEF AdminsAgree, DeletionSteps
    <2>2. Uploading = {}
      BY <1>0, <2>1 DEF LocksAgree
    <2> QED BY <1>1, <2>1, <2>2 DEF Uploading, Pointed
  <1>3. /\ job' \in Jobs /\ job'.listed = job.listed /\ job'.targets = job.targets
        /\ job'.vectors = job.vectors /\ job'.objects = job.objects
        /\ job' = job \/ job'.state = "failed"
    BY <1>0 DEF CohortTypeOK, Jobs, JobStates
  <1>4. job'.state # "none" /\ (Unfinished' => Unfinished \/ cohort = "gone")
    BY <1>0, <1>2, <1>3 DEF Unfinished, CohortTypeOK, Jobs, JobStates, JobAgrees
  <1>5. CohortTypeOK'
    <2>1. admin' \in [Admins -> [at: DeletionSteps \cup {"idle", "prepared"}, keys: SUBSET Uploads]]
      BY <1>0, <1>1 DEF CohortTypeOK
    <2> QED BY <1>0, <1>1, <1>3, <2>1 DEF CohortTypeOK
  <1>6. LocksAgree'
    BY <1>0, <1>1, <1>2, <1>4 DEF LocksAgree, JobAgrees
  <1>7. JobAgrees'
    BY <1>0, <1>1, <1>2, <1>3 DEF JobAgrees
  <1>8. DocumentsAgree'
    BY <1>0, <1>1, <1>2, <1>3, <1>4 DEF DocumentsAgree, SearchedIsThere
  <1>9. AdminsAgree'
    <2>1. admin'[d].at = "idle" /\ \A e \in Admins : e # d => admin'[e] = admin[e]
      BY <1>0, <1>1 DEF CohortTypeOK
    <2> SUFFICES ASSUME NEW e \in Admins
                 PROVE
            /\ admin'[e].at # "idle" => job'.state # "none"
            /\ admin'[e].at \in DeletionSteps => advisory' = {e}
            /\ admin'[e].at = "listed" => ~job'.listed /\ objects' \subseteq admin'[e].keys
            /\ admin'[e].at \in {"cleaning", "vectorsGone", "objectGone"} => job'.listed
            /\ admin'[e].at = "vectorsGone" => admin'[e].keys \cap vectors' = {}
            /\ admin'[e].at = "objectGone" => admin'[e].keys \cap objects' = {}
      BY DEF AdminsAgree
    <2>2. CASE e = d
      BY <2>1, <2>2 DEF DeletionSteps
    <2>3. CASE e # d
      <3>1. admin'[e] = admin[e]
        BY <2>1, <2>3
      <3>2. admin[e].at \in DeletionSteps => advisory = {e} /\ advisory' = advisory
        BY <1>0, <2>3 DEF AdminsAgree
      <3> QED BY <1>0, <1>3, <1>4, <3>1, <3>2 DEF AdminsAgree
    <2> QED BY <2>2, <2>3
  <1> QED BY <1>5, <1>6, <1>7, <1>8, <1>9 DEF CohortIInv

LEMMA TurnedAwayStep ==
    ASSUME CohortIInv, NEW d \in Admins, DeletionStep(d, "prepared", "idle", {}),
           UNCHANGED <<objects, vectors, job, advisory>>
    PROVE  CohortIInv'
  BY LeaveStep

LEMMA DeletionFailsStep ==
    ASSUME CohortIInv, NEW d \in Admins, DeletionFails(d)
    PROVE  CohortIInv'
  <1>1. PICK from \in DeletionSteps :
            /\ admin[d].at = from /\ DeletionStep(d, from, "idle", {})
            /\ job' = [job EXCEPT !.state = "failed"] /\ advisory' = {}
            /\ UNCHANGED <<objects, vectors>>
    BY DEF DeletionFails
  <1>2. advisory = {d}
    BY <1>1 DEF CohortIInv, AdminsAgree
  <1>3. \A e \in Admins \ {d} : admin[e].at \notin DeletionSteps
    BY <1>2 DEF CohortIInv, AdminsAgree
  <1> QED BY <1>1, <1>2, <1>3, LeaveStep

LEMMA CrashStep ==
    ASSUME CohortIInv, NEW d \in Admins, Crash(d)
    PROVE  CohortIInv'
  <1>0. /\ DeletionStep(d, admin[d].at, "idle", {}) /\ advisory' = advisory \ {d}
        /\ UNCHANGED <<objects, vectors, job>>
    BY DEF Crash
  <1>1. CASE admin[d].at \in DeletionSteps \cup {"prepared"}
    <2>1. \A e \in Admins \ {d} : admin[e].at \in DeletionSteps => advisory = {e}
      BY DEF CohortIInv, AdminsAgree
    <2>2. \A e \in Admins \ {d} : admin[e].at \in DeletionSteps => advisory' = advisory
      BY <1>0, <2>1
    <2> QED BY <1>0, <1>1, <2>2, LeaveStep
  <1>2. CASE admin[d].at = "idle"
    <2>1. CohortTypeOK /\ LocksAgree /\ JobAgrees /\ DocumentsAgree /\ AdminsAgree
      BY DEF CohortIInv
    <2>2. /\ UNCHANGED <<cohort, pointer, rows, inserting, upload, objects, vectors, job>>
          /\ admin' = [admin EXCEPT ![d] = [at |-> "idle", keys |-> {}]]
          /\ advisory' = advisory \ {d}
      BY <1>0 DEF DeletionStep
    <2>3. /\ admin' \in [Admins -> [at: DeletionSteps \cup {"idle", "prepared"}, keys: SUBSET Uploads]]
          /\ admin'[d].at = "idle" /\ \A e \in Admins : e # d => admin'[e] = admin[e]
      BY <2>1, <2>2 DEF CohortTypeOK
    <2>4. CohortTypeOK'
      BY <2>1, <2>2, <2>3 DEF CohortTypeOK
    <2>5. Uploading' = Uploading /\ Pointed' = Pointed /\ Unfinished' = Unfinished
      BY <2>2 DEF Uploading, Pointed, Unfinished
    <2>6. LocksAgree' /\ JobAgrees' /\ DocumentsAgree'
      BY <2>1, <2>2, <2>5 DEF LocksAgree, JobAgrees, DocumentsAgree, SearchedIsThere
    <2>7. AdminsAgree'
      BY <2>1, <2>2, <2>3 DEF AdminsAgree, DeletionSteps
    <2> QED BY <2>1, <2>4, <2>6, <2>7 DEF CohortIInv
  <1>3. admin[d].at \in DeletionSteps \cup {"idle", "prepared"}
    BY DEF CohortIInv, CohortTypeOK
  <1> QED BY <1>1, <1>2, <1>3

\* The rows go last: every target's vectors and object are noted as deleted,
\* so they are, and the targets are all there is.
LEMMA FinishStep ==
    ASSUME CohortIInv, NEW d \in Admins, Finish(d)
    PROVE  CohortIInv'
  <1>0. CohortTypeOK /\ LocksAgree /\ JobAgrees /\ DocumentsAgree /\ AdminsAgree
    BY DEF CohortIInv
  <1>1. /\ admin[d].at = "cleaning" /\ job.targets \subseteq job.vectors \cap job.objects
        /\ Uploading = {} /\ rows = {} /\ inserting = {}
        /\ cohort' = "gone" /\ pointer' = [k \in DocumentKinds |-> "none"]
        /\ job' = [job EXCEPT !.state = "complete"] /\ advisory' = {}
        /\ admin' = [admin EXCEPT ![d] = Resting]
        /\ UNCHANGED <<rows, inserting, upload, objects, vectors>>
    BY DEF Finish, Lockable
  <1>2. job.listed /\ advisory = {d} /\ job.state # "none"
    BY <1>0, <1>1 DEF AdminsAgree, DeletionSteps
  <1>3. objects = {} /\ vectors = {}
    BY <1>0, <1>1, <1>2 DEF DocumentsAgree
  <1>4. Uploading' = {} /\ Pointed' = {}
    BY <1>1 DEF Uploading, Pointed, Foreign
  <1>5. /\ job' \in Jobs /\ job'.state = "complete" /\ job'.listed
        /\ job'.targets = job.targets /\ job'.vectors = job.vectors /\ job'.objects = job.objects
    BY <1>0, <1>1, <1>2 DEF CohortTypeOK, Jobs, JobStates
  <1>6. /\ admin' \in [Admins -> [at: DeletionSteps \cup {"idle", "prepared"}, keys: SUBSET Uploads]]
        /\ admin'[d].at = "idle" /\ \A e \in Admins : e # d => admin'[e] = admin[e]
    BY <1>0, <1>1 DEF CohortTypeOK, Resting
  <1>7. CohortTypeOK'
    <2>1. pointer' \in [DocumentKinds -> Uploads \cup Foreign]
      BY <1>1 DEF Foreign
    <2> QED BY <1>0, <1>1, <1>5, <1>6, <2>1 DEF CohortTypeOK
  <1>8. LocksAgree' /\ JobAgrees'
    BY <1>1, <1>3, <1>4, <1>5 DEF LocksAgree, JobAgrees, Unfinished
  <1>9. \A u \in Uploads : upload'[u].at \notin {"put", "indexed"}
    BY <1>4 DEF Uploading, UploadSteps
  <1>10. DocumentsAgree'
    BY <1>1, <1>3, <1>4, <1>5, <1>9 DEF DocumentsAgree, SearchedIsThere
  <1>11. \A e \in Admins : admin'[e].at \in {"idle", "prepared"}
    BY <1>0, <1>2, <1>6 DEF AdminsAgree, CohortTypeOK
  <1>12. AdminsAgree'
    BY <1>5, <1>11 DEF AdminsAgree, DeletionSteps
  <1> QED BY <1>7, <1>8, <1>10, <1>12 DEF CohortIInv

LEMMA StutterStep == CohortIInv /\ UNCHANGED cohortVars => CohortIInv'
  <1> SUFFICES ASSUME CohortIInv, UNCHANGED cohortVars  PROVE CohortIInv'
    OBVIOUS
  <1>1. UNCHANGED <<Uploading, Pointed, Unfinished>>
    BY DEF cohortVars, Uploading, Pointed, Unfinished
  <1>2. CohortTypeOK'
    BY DEF CohortIInv, CohortTypeOK, cohortVars
  <1>3. LocksAgree' /\ JobAgrees' /\ DocumentsAgree' /\ AdminsAgree'
    BY <1>1 DEF CohortIInv, LocksAgree, JobAgrees, DocumentsAgree, SearchedIsThere,
                AdminsAgree, cohortVars
  <1> QED BY <1>2, <1>3 DEF CohortIInv

-----------------------------------------------------------------------------
(* The theorems *)

\* Whatever steps the uploads, the deletions and the other tables take, the
\* inductive invariant holds: locks, job and memory agree with what is outside.
THEOREM CohortInvariance == CohortSpec => []CohortIInv
  <1>1. CohortIInv /\ [CohortNext]_cohortVars => CohortIInv'
    <2> SUFFICES ASSUME CohortIInv, [CohortNext]_cohortVars  PROVE CohortIInv'
      OBVIOUS
    <2>1. ASSUME NEW t \in Tables, Insert(t) \/ EndInsert(t) \/ DeleteRow(t)
          PROVE  CohortIInv'
      BY <2>1, TableStep
    <2>2. ASSUME NEW u \in Uploads, NEW kind \in DocumentKinds, BeginUpload(u, kind)
          PROVE  CohortIInv'
      BY <2>2, BeginUploadStep
    <2>3. ASSUME NEW u \in Uploads,
                 PutObject(u) \/ IndexDocument(u) \/ Publish(u) \/ UploadFails(u)
          PROVE  CohortIInv'
      BY <2>3, UploadWorkStep
    <2>4. ASSUME NEW key \in Foreign, SetCurriculum(key)
          PROVE  CohortIInv'
      BY <2>4, SetCurriculumStep
    <2>5. ASSUME NEW d \in Admins, TryLock(d)
          PROVE  CohortIInv'
      <3>1. CASE advisory = {}
        <4>1. /\ DeletionStep(d, "prepared", "locked", {}) /\ advisory' = {d}
              /\ UNCHANGED <<objects, vectors, job>>
          BY <2>5, <3>1 DEF TryLock
        <4> QED BY <3>1, <4>1, TryLockStep
      <3>2. CASE advisory # {}
        <4>1. /\ DeletionStep(d, "prepared", "idle", {})
              /\ UNCHANGED <<objects, vectors, job, advisory>>
          BY <2>5, <3>2 DEF TryLock
        <4> QED BY <4>1, TurnedAwayStep
      <3> QED BY <3>1, <3>2
    <2>6. ASSUME NEW d \in Admins, Prepare(d) \/ ListKeys(d) \/ SaveTargets(d) \/ Resume(d)
          PROVE  CohortIInv'
      BY <2>6, PrepareStep, ListKeysStep, SaveTargetsStep, ResumeStep
    <2>7. ASSUME NEW d \in Admins, NEW k \in Uploads, DeleteVectors(d, k) \/ DeleteObject(d, k)
          PROVE  CohortIInv'
      BY <2>7, DeleteVectorsStep, DeleteObjectStep
    <2>8. ASSUME NEW d \in Admins, SaveVectors(d) \/ SaveObject(d)
          PROVE  CohortIInv'
      BY <2>8, SaveVectorsStep, SaveObjectStep
    <2>9. ASSUME NEW d \in Admins, Finish(d) \/ DeletionFails(d) \/ Crash(d)
          PROVE  CohortIInv'
      BY <2>9, FinishStep, DeletionFailsStep, CrashStep
    <2>10. CASE UNCHANGED cohortVars
      BY <2>10, StutterStep
    <2> QED BY <2>1, <2>2, <2>3, <2>4, <2>5, <2>6, <2>7, <2>8, <2>9, <2>10
            DEF CohortNext, TableNext, UploadNext, DeletionNext
  <1> QED BY <1>1, InitCohortIInv, PTL DEF CohortSpec

\* Type correctness of the cohort, its documents, its deletion job and the
\* requests, for any number of each.
THEOREM CohortTypeCorrect == CohortSpec => []CohortTypeOK
  <1>1. CohortIInv => CohortTypeOK
    BY DEF CohortIInv
  <1> QED BY <1>1, CohortInvariance, PTL

\* A cohort whose rows are deleted has left no object, vector, pointer or row
\* behind, however its uploads and its deletions failed (_run_deletion).
THEOREM AlwaysGoneLeavesNothing == CohortSpec => []GoneLeavesNothing
  <1>1. CohortIInv => GoneLeavesNothing
    BY DEF CohortIInv, JobAgrees, DocumentsAgree, GoneLeavesNothing
  <1> QED BY <1>1, CohortInvariance, PTL

\* Nothing an unfinished deletion would stumble over slips into the cohort, and
\* what it has noted stays true (migration 0017, _cleanup_targets).
THEOREM AlwaysCanResume == CohortSpec => []UnfinishedCanResume
  <1>1. CohortIInv => UnfinishedCanResume
    BY DEF CohortIInv, LocksAgree, DocumentsAgree, UnfinishedCanResume
  <1> QED BY <1>1, CohortInvariance, PTL

\* Until a deletion is asked for, the search is pointed only to documents that
\* are stored and indexed (upload_document).
THEOREM AlwaysSearchable == CohortSpec => []SearchedIsThere
  <1>1. CohortIInv => SearchedIsThere
    BY DEF CohortIInv, DocumentsAgree
  <1> QED BY <1>1, CohortInvariance, PTL

\* One request to delete the cohort at a time, from its first look at the job to
\* its end, also if others came before it or come after.
OneDeletionAtATime ==
    \A d, e \in Admins : admin[d] # Resting /\ admin[e] # Resting => d = e

\* Who works on a deletion has a cohort to delete, and one that is gone was
\* deleted to the end.
GoneIsComplete ==
    /\ cohort = "gone" => job.state = "complete"
    /\ \A d \in Admins : admin[d] # Resting => cohort = "there"

LEMMA GoneIsCompleteNext ==
    ASSUME CohortIInv, OneDeletionAtATime, GoneIsComplete, [CohortNext]_cohortVars
    PROVE  GoneIsComplete'
  <1>0. CohortTypeOK
    BY DEF CohortIInv
  <1>1. ASSUME NEW d \in Admins, Finish(d)
        PROVE  GoneIsComplete'
    <2>1. job' = [job EXCEPT !.state = "complete"] /\ admin' = [admin EXCEPT ![d] = Resting]
      BY <1>1 DEF Finish
    <2>2. job'.state = "complete"
      BY <1>0, <2>1 DEF CohortTypeOK, Jobs
    <2>3. admin[d] # Resting
      BY <1>1 DEF Finish, Resting
    <2>4. \A e \in Admins : e # d => admin[e] = Resting
      BY <2>3 DEF OneDeletionAtATime
    <2>5. \A e \in Admins : admin'[e] = Resting
      BY <1>0, <2>1, <2>4 DEF CohortTypeOK
    <2> QED BY <2>2, <2>5 DEF GoneIsComplete
  <1>2. ASSUME \A d \in Admins : ~Finish(d)
        PROVE  cohort' = cohort
    BY <1>2
    DEF CohortNext, cohortVars, TableNext, Insert, EndInsert, DeleteRow, UploadNext, BeginUpload,
        PutObject, IndexDocument, Publish, UploadFails, UploadStep, DeletionNext, Prepare, TryLock,
        ListKeys, SaveTargets, Resume, DeleteVectors, DeleteObject, SaveVectors, SaveObject,
        DeletionFails, Crash, DeletionStep, SetCurriculum
  <1>3. CASE cohort' = "there"
    BY <1>3 DEF GoneIsComplete
  <1>4. CASE cohort = "gone"
    <2>1. \A d \in Admins : admin[d] = Resting
      BY <1>4 DEF GoneIsComplete
    <2>2. ~DeletionNext
      <3>1. \A e \in Admins : ~Prepare(e)
        BY <1>4 DEF Prepare, Lockable
      <3>2. \A e \in Admins : admin[e].at = "idle"
        BY <2>1 DEF Resting
      <3>3. \A e \in Admins : ~TryLock(e) /\ ~ListKeys(e) /\ ~SaveTargets(e) /\ ~Resume(e)
        BY <3>2 DEF TryLock, ListKeys, SaveTargets, Resume, DeletionStep
      <3>4. \A e \in Admins, k \in Uploads : ~DeleteVectors(e, k) /\ ~DeleteObject(e, k)
        BY <3>2 DEF DeleteVectors, DeleteObject, DeletionStep
      <3>5. \A e \in Admins : ~SaveVectors(e) /\ ~SaveObject(e) /\ ~Finish(e) /\ ~DeletionFails(e)
        BY <3>2 DEF SaveVectors, SaveObject, Finish, DeletionFails, DeletionStep, DeletionSteps
      <3>6. \A e \in Admins : ~Crash(e)
        BY <2>1 DEF Crash
      <3> QED BY <3>1, <3>3, <3>4, <3>5, <3>6 DEF DeletionNext
    <2>3. UNCHANGED <<job, admin>>
      BY <2>2
      DEF CohortNext, cohortVars, TableNext, Insert, EndInsert, DeleteRow, UploadNext, BeginUpload,
          PutObject, IndexDocument, Publish, UploadFails, UploadStep, SetCurriculum
    <2> QED BY <1>4, <2>1, <2>3 DEF GoneIsComplete
  <1> QED BY <1>0, <1>1, <1>2, <1>3, <1>4 DEF CohortTypeOK

\* A deletion that failed can be asked for again, at a cohort that is there
\* (delete_cohort, "try again at the same cohort"), as long as requests come one
\* after the other: however many, wherever they fail or are lost, and whatever
\* is uploaded or written in between.
THEOREM FailedOnesCanBeRetried == CohortSpec /\ []OneDeletionAtATime => []FailedCanBeRetried
  <1>1. CohortInit => GoneIsComplete
    BY DEF CohortInit, GoneIsComplete, Resting
  <1>2. CohortTypeOK /\ GoneIsComplete => FailedCanBeRetried
    BY DEF CohortTypeOK, GoneIsComplete, FailedCanBeRetried
  <1>3. CohortIInv /\ OneDeletionAtATime /\ GoneIsComplete /\ [CohortNext]_cohortVars => GoneIsComplete'
    BY GoneIsCompleteNext
  <1> QED BY <1>1, <1>2, <1>3, CohortInvariance, CohortTypeCorrect, PTL DEF CohortSpec

-----------------------------------------------------------------------------
(* The job index *)

(* PostingRows *)

PostingRows == [status: {"none", "open", "removed", "closed"}, print: 0..MaxPrint,
         recorded: 0..MaxPrint, old: BOOLEAN]

LEMMA UnlistedIsRow == Unlisted \in PostingRows
BY JobIndexAssumption DEF Unlisted, PostingRows

LEMMA UnscheduledFields ==
    /\ Unscheduled.at = "rest" /\ Unscheduled.del = {} /\ Unscheduled.batch = {}
    /\ Unscheduled.put = [p \in Postings |-> 0]
BY DEF Unscheduled

IndexRuns == [at: {"rest", "index", "deleted", "put", "prune"}, put: [Postings -> 0..MaxPrint],
         del: SUBSET Postings, batch: SUBSET Postings]

LEMMA UnscheduledIsRun == Unscheduled \in IndexRuns
BY JobIndexAssumption DEF Unscheduled, IndexRuns

\* What is to be searched depends on the open postings, their content and the
\* group only.
LEMMA KeptSame ==
    ASSUME Indexable' = Indexable, \A p \in Indexable : jobs'[p].print = jobs[p].print,
           \A p \in Indexable : p \in kin' <=> p \in kin
    PROVE  Kept' = Kept
<1> DEFINE I == Indexable
           J == Indexable'
<1>1. Reposted' = Reposted
  BY DEF Reposted
<1>2. PICK U : U = I \ Reposted
  OBVIOUS
<1>3. \A p, q \in I : Better(p, q)' <=> Better(p, q)
  BY DEF Better
<1>4. U \cap kin' = U \cap kin /\ U \subseteq I
  BY <1>2
<1>5. {p \in U \cap kin' : \E q \in U \cap kin' : ~Better(p, q)'}
      = {p \in U \cap kin : \E q \in U \cap kin : ~Better(p, q)}
  BY <1>3, <1>4
<1>6. Kept = U \ {p \in U \cap kin : \E q \in U \cap kin : ~Better(p, q)}
  BY <1>2 DEF Kept, Outshone
<1>7. Kept' = U \ {p \in U \cap kin' : \E q \in U \cap kin' : ~Better(p, q)'}
  <2>1. U = (Indexable \ Reposted)'
    BY <1>1, <1>2
  <2>2. QED BY <2>1 DEF Kept, Outshone
<1>8. QED BY <1>5, <1>6, <1>7

LEMMA KeptIsIndexable == Kept \subseteq Indexable
BY DEF Kept

\* A step that leaves status and content of every row, and the group
LEMMA KeptUnmoved ==
    ASSUME kin' = kin,
           \A p \in Postings : jobs'[p].status = jobs[p].status /\ jobs'[p].print = jobs[p].print
    PROVE  Kept' = Kept
<1>1. Indexable' = Indexable /\ Indexable \subseteq Postings
  BY DEF Indexable
<1>2. QED BY <1>1, KeptSame
LEMMA RowRecorded ==
    ASSUME NEW r \in PostingRows, NEW x \in 0..MaxPrint, NEW s, s = [r EXCEPT !.recorded = x]
    PROVE  s \in PostingRows /\ s.recorded = x /\ s.status = r.status /\ s.print = r.print
BY DEF PostingRows

LEMMA RowMoved ==
    ASSUME NEW r \in PostingRows, NEW s \in {"open", "removed", "closed"}, NEW b \in BOOLEAN
    PROVE  /\ [r EXCEPT !.status = s] \in PostingRows /\ [r EXCEPT !.status = s].recorded = r.recorded
           /\ [r EXCEPT !.status = s, !.old = b] \in PostingRows
           /\ [r EXCEPT !.status = s, !.old = b].recorded = r.recorded
           /\ [r EXCEPT !.old = b] \in PostingRows /\ [r EXCEPT !.old = b].recorded = r.recorded
BY DEF PostingRows

LEMMA IndexTypes ==
    ASSUME IndexTypeOK
    PROVE  /\ jobs \in [Postings -> PostingRows] /\ run \in IndexRuns
           /\ vector \in [Postings -> 0..MaxPrint]
           /\ run.put \in [Postings -> 0..MaxPrint] /\ run.del \in SUBSET Postings
           /\ run.batch \in SUBSET Postings
BY DEF IndexTypeOK, PostingRows, IndexRuns

LEMMA TypedAs ==
    ASSUME jobs' \in [Postings -> PostingRows], run' \in IndexRuns, kin' \subseteq Postings, lost' \subseteq Postings,
           vector' \in [Postings -> 0..MaxPrint], changes' \in 0..MaxChanges, stops' \in 0..MaxStops,
           mirrored' \in {"no", "running", "yes"}
    PROVE  IndexTypeOK'
BY DEF IndexTypeOK, PostingRows, IndexRuns

-----------------------------------------------------------------------------
(* The table changes, and nothing is said of the run any more *)

LEMMA ChangesKeep ==
    ASSUME IndexInv, jobs' \in [Postings -> PostingRows], kin' \subseteq Postings, Changes,
           \A p \in Postings : jobs'[p].recorded = jobs[p].recorded
    PROVE  IndexInv'
<1>t. IndexTypeOK /\ VectorsRecorded /\ BatchesPlanned
  BY DEF IndexInv
<1>1. mirrored' = "no" /\ UNCHANGED <<vector, run, stops, lost>> /\ changes' \in 0..MaxChanges
  BY <1>t, JobIndexAssumption DEF Changes, IndexTypeOK
<1>2. IndexTypeOK'
  BY <1>t, <1>1, IndexTypes, TypedAs DEF IndexTypeOK
<1>3. VectorsRecorded'
  BY <1>t, <1>1 DEF VectorsRecorded
<1>4. BatchesPlanned'
  BY <1>t, <1>1, IndexTypes DEF BatchesPlanned, Unput
<1>5. PlansMirror' /\ RunMirrors'
  BY <1>1 DEF PlansMirror, RunMirrors
<1>6. QED BY <1>2, <1>3, <1>4, <1>5 DEF IndexInv

LEMMA TableKeeps ==
    ASSUME IndexInv,
           \/ \E p \in Postings :
                \/ \E print \in Prints, status \in {"open", "removed"} : Collect(p, print, status)
                \/ Observe(p) \/ CheckLink(p) \/ ReopenAlive(p)
           \/ DaysPass \/ \E group \in SUBSET Postings : Regroup(group)
    PROVE  IndexInv'
<1>t. jobs \in [Postings -> PostingRows] /\ kin \subseteq Postings
  BY IndexTypes DEF IndexInv, IndexTypeOK
<1>1. ASSUME NEW p \in Postings, NEW print \in Prints, NEW status \in {"open", "removed"},
             Collect(p, print, status)
      PROVE  IndexInv'
  <2>1. PICK r : r = Written(p, print, status)
    OBVIOUS
  <2>2. r \in PostingRows /\ r.recorded = jobs[p].recorded
    BY <1>t, <2>1, JobIndexAssumption DEF Written, PostingRows, Prints
  <2>3. jobs' = [jobs EXCEPT ![p] = r] /\ kin' = kin /\ Changes
    BY <1>1, <2>1 DEF Collect
  <2>4. QED BY <1>t, <2>2, <2>3, ChangesKeep
<1>2. ASSUME NEW p \in Postings, Observe(p) \/ CheckLink(p) \/ ReopenAlive(p)
      PROVE  IndexInv'
  <2>1. PICK s \in {"open", "removed", "closed"} :
          /\ jobs' = [jobs EXCEPT ![p] = [jobs[p] EXCEPT !.status = s, !.old = FALSE]]
             \/ jobs' = [jobs EXCEPT ![p] = [jobs[p] EXCEPT !.status = s]]
          /\ kin' = kin /\ Changes
    <3>1. CASE Observe(p)
      <4>1. PICK s \in {"open", "removed"} : s = IF jobs[p].status = "removed" THEN "open" ELSE "removed"
        OBVIOUS
      <4>2. jobs' = [jobs EXCEPT ![p].status = IF jobs[p].status = "removed" THEN "open" ELSE "removed",
                                 ![p].old = FALSE]
        BY <3>1 DEF Observe
      <4>3. jobs' = [jobs EXCEPT ![p].status = s, ![p].old = FALSE]
        BY <4>1, <4>2, Zenon
      <4>4. jobs' = [jobs EXCEPT ![p] = [jobs[p] EXCEPT !.status = s, !.old = FALSE]]
        BY <1>t, <4>3
      <4>5. QED BY <3>1, <4>4 DEF Observe
    <3>2. CASE CheckLink(p)
      <4>1. jobs' = [jobs EXCEPT ![p] = [jobs[p] EXCEPT !.status = "closed"]]
        BY <3>2 DEF CheckLink
      <4>2. QED BY <3>2, <4>1 DEF CheckLink
    <3>3. CASE ReopenAlive(p)
      <4>1. jobs' = [jobs EXCEPT ![p] = [jobs[p] EXCEPT !.status = "open", !.old = FALSE]]
        BY <1>t, <3>3 DEF ReopenAlive
      <4>2. QED BY <3>3, <4>1 DEF ReopenAlive
    <3>4. QED BY <1>2, <3>1, <3>2, <3>3
  <2>2. PICK r \in PostingRows : jobs' = [jobs EXCEPT ![p] = r] /\ r.recorded = jobs[p].recorded
    <3>1. jobs[p] \in PostingRows /\ 0 \in 0..MaxPrint
      BY <1>t, JobIndexAssumption
    <3>2. CASE jobs' = [jobs EXCEPT ![p] = [jobs[p] EXCEPT !.status = s, !.old = FALSE]]
      <4>1. PICK r : r = [jobs[p] EXCEPT !.status = s, !.old = FALSE]
        OBVIOUS
      <4>2. r \in PostingRows /\ r.recorded = jobs[p].recorded
        BY <3>1, <4>1, RowMoved
      <4>3. QED BY <3>2, <4>1, <4>2
    <3>3. CASE jobs' = [jobs EXCEPT ![p] = [jobs[p] EXCEPT !.status = s]]
      <4>1. PICK r : r = [jobs[p] EXCEPT !.status = s]
        OBVIOUS
      <4>2. r \in PostingRows /\ r.recorded = jobs[p].recorded
        BY <3>1, <4>1, RowMoved
      <4>3. QED BY <3>3, <4>1, <4>2
    <3>4. QED BY <2>1, <3>2, <3>3
  <2>3. QED BY <1>t, <2>1, <2>2, ChangesKeep
<1>3. CASE DaysPass
  <2>1. /\ jobs' = [p \in Postings |-> [jobs[p] EXCEPT !.old = jobs[p].status \in {"removed", "closed"}]]
        /\ kin' = kin /\ Changes
    BY <1>3 DEF DaysPass
  <2>2. ASSUME NEW p \in Postings
        PROVE  /\ [jobs[p] EXCEPT !.old = jobs[p].status \in {"removed", "closed"}] \in PostingRows
               /\ [jobs[p] EXCEPT !.old = jobs[p].status \in {"removed", "closed"}].recorded = jobs[p].recorded
    <3>1. jobs[p] \in PostingRows /\ 0 \in 0..MaxPrint
      BY <1>t, JobIndexAssumption
    <3>2. PICK b \in BOOLEAN : b = (jobs[p].status \in {"removed", "closed"})
      <4>1. CASE jobs[p].status \in {"removed", "closed"}
        <5>1. TRUE = (jobs[p].status \in {"removed", "closed"})
          BY <4>1
        <5>2. QED BY <5>1, Zenon
      <4>2. CASE ~(jobs[p].status \in {"removed", "closed"})
        <5>1. FALSE = (jobs[p].status \in {"removed", "closed"})
          BY <4>2
        <5>2. QED BY <5>1, Zenon
      <4>3. QED BY <4>1, <4>2
    <3>3. [jobs[p] EXCEPT !.old = b] \in PostingRows /\ [jobs[p] EXCEPT !.old = b].recorded = jobs[p].recorded
      BY <3>1, RowMoved
    <3>4. QED BY <3>2, <3>3, Zenon
  <2>3. jobs' \in [Postings -> PostingRows] /\ \A p \in Postings : jobs'[p].recorded = jobs[p].recorded
    BY <2>1, <2>2
  <2>4. QED BY <1>t, <2>1, <2>3, ChangesKeep
<1>4. ASSUME NEW group \in SUBSET Postings, Regroup(group)
      PROVE  IndexInv'
  <2>1. jobs' = jobs /\ kin' \subseteq Postings /\ Changes
    BY <1>t, <1>4 DEF Regroup
  <2>2. QED BY <1>t, <2>1, ChangesKeep
<1>5. QED BY <1>1, <1>2, <1>3, <1>4
-----------------------------------------------------------------------------
(* The run *)

LEMMA PlanKeeps ==
    ASSUME IndexInv, NEW force \in BOOLEAN, Plan(force)
    PROVE  IndexInv'
<1>t. IndexTypeOK /\ VectorsRecorded /\ jobs \in [Postings -> PostingRows]
  BY IndexTypes DEF IndexInv
<1>1. PICK put : put = [p \in Postings |->
                          IF p \in Kept /\ (force \/ ~IsCurrent(p)) THEN jobs[p].print ELSE 0]
  OBVIOUS
<1>2. /\ run.at = "rest" /\ run' = [at |-> "index", del |-> ToDelete, batch |-> {}, put |-> put]
      /\ mirrored' = "running" /\ UNCHANGED <<jobs, kin, vector, changes, stops, lost>>
  BY <1>1 DEF Plan
<1>3. ToDelete \subseteq Postings
  BY DEF ToDelete, Recorded
<1>4. put \in [Postings -> 0..MaxPrint]
  BY <1>t, <1>1, JobIndexAssumption DEF PostingRows
<1>5. run' \in IndexRuns
  BY <1>2, <1>3, <1>4 DEF IndexRuns
<1>6. IndexTypeOK'
  BY <1>t, <1>2, <1>5, IndexTypes, TypedAs DEF IndexTypeOK
<1>7. VectorsRecorded'
  BY <1>t, <1>2 DEF VectorsRecorded
<1>8. BatchesPlanned' /\ RunMirrors'
  BY <1>2 DEF BatchesPlanned, RunMirrors
<1>9. PlansMirror'
  <2>1. Kept' = Kept
    BY <1>2, KeptUnmoved
  <2>2. ASSUME NEW p \in Postings PROVE PlanLeft(p)'
    <3>1. run'.put[p] = (IF p \in Kept /\ (force \/ ~IsCurrent(p)) THEN jobs[p].print ELSE 0)
      BY <1>1, <1>2
    <3>2. run'.del = Recorded \ Kept /\ jobs' = jobs
      BY <1>2 DEF ToDelete
    <3>3. p \in Kept => jobs[p].print # 0
      BY KeptIsIndexable DEF Indexable
    <3>4. CASE p \in Kept
      BY <2>1, <3>1, <3>2, <3>3, <3>4 DEF PlanLeft, IsCurrent
    <3>5. CASE p \notin Kept
      BY <2>1, <3>1, <3>2, <3>5 DEF PlanLeft, Recorded
    <3>6. QED BY <3>4, <3>5
  <2>3. QED BY <1>2, <2>2 DEF PlansMirror
<1>10. QED BY <1>6, <1>7, <1>8, <1>9 DEF IndexInv

LEMMA DeleteBatchKeeps ==
    ASSUME IndexInv, NEW batch \in SUBSET Postings, DeleteBatch(batch)
    PROVE  IndexInv'
<1>t. IndexTypeOK /\ VectorsRecorded /\ PlansMirror /\ run \in IndexRuns /\ vector \in [Postings -> 0..MaxPrint]
  BY IndexTypes DEF IndexInv
<1>1. /\ run.at = "index" /\ batch \subseteq run.del
      /\ vector' = [p \in Postings |-> IF p \in batch THEN 0 ELSE vector[p]]
      /\ run' = [run EXCEPT !.at = "deleted", !.batch = batch]
      /\ UNCHANGED <<jobs, kin, changes, stops, lost, mirrored>>
  BY DEF DeleteBatch
<1>2. /\ run' \in IndexRuns /\ run'.at = "deleted" /\ run'.batch = batch
      /\ run'.del = run.del /\ run'.put = run.put
  BY <1>t, <1>1 DEF IndexRuns
<1>3. vector' \in [Postings -> 0..MaxPrint]
  BY <1>t, <1>1, JobIndexAssumption
<1>4. IndexTypeOK'
  BY <1>t, <1>1, <1>2, <1>3, IndexTypes, TypedAs DEF IndexTypeOK
<1>5. VectorsRecorded'
  BY <1>t, <1>1, <1>2 DEF VectorsRecorded
<1>6. BatchesPlanned'
  BY <1>1, <1>2 DEF BatchesPlanned
<1>7. mirrored' # "yes"
  BY <1>t, <1>1 DEF PlansMirror
<1>8. PlansMirror' /\ RunMirrors'
  <2>1. Kept' = Kept
    BY <1>1, KeptUnmoved
  <2>2. QED BY <1>t, <1>1, <1>2, <1>7, <2>1 DEF PlansMirror, PlanLeft, RunMirrors
<1>9. QED BY <1>4, <1>5, <1>6, <1>8 DEF IndexInv

LEMMA UpsertBatchKeeps ==
    ASSUME IndexInv, NEW batch \in SUBSET Postings, UpsertBatch(batch)
    PROVE  IndexInv'
<1>t. IndexTypeOK /\ VectorsRecorded /\ PlansMirror /\ run \in IndexRuns /\ vector \in [Postings -> 0..MaxPrint]
  BY IndexTypes DEF IndexInv
<1>1. /\ run.at = "index" /\ batch \subseteq Unput
      /\ vector' = [p \in Postings |-> IF p \in batch THEN run.put[p] ELSE vector[p]]
      /\ run' = [run EXCEPT !.at = "put", !.batch = batch]
      /\ UNCHANGED <<jobs, kin, changes, stops, lost, mirrored>>
  BY DEF UpsertBatch
<1>2. /\ run' \in IndexRuns /\ run'.at = "put" /\ run'.batch = batch
      /\ run'.del = run.del /\ run'.put = run.put
  BY <1>t, <1>1 DEF IndexRuns
<1>3. vector' \in [Postings -> 0..MaxPrint]
  BY <1>t, <1>1, IndexTypes
<1>4. IndexTypeOK'
  BY <1>t, <1>1, <1>2, <1>3, IndexTypes, TypedAs DEF IndexTypeOK
<1>5. VectorsRecorded'
  BY <1>t, <1>1, <1>2 DEF VectorsRecorded
<1>6. BatchesPlanned'
  BY <1>1, <1>2 DEF BatchesPlanned, Unput
<1>7. mirrored' # "yes"
  BY <1>t, <1>1 DEF PlansMirror
<1>8. PlansMirror' /\ RunMirrors'
  <2>1. Kept' = Kept
    BY <1>1, KeptUnmoved
  <2>2. QED BY <1>t, <1>1, <1>2, <1>7, <2>1 DEF PlansMirror, PlanLeft, RunMirrors
<1>9. QED BY <1>4, <1>5, <1>6, <1>8 DEF IndexInv

LEMMA ClearIndexedKeeps ==
    ASSUME IndexInv, ClearIndexed
    PROVE  IndexInv'
<1>t. IndexTypeOK /\ VectorsRecorded /\ PlansMirror /\ run \in IndexRuns /\ run.batch \in SUBSET Postings
  BY IndexTypes DEF IndexInv
<1>1. /\ run.at = "deleted"
      /\ lost' = lost \ run.batch /\ UNCHANGED <<kin, vector, changes, stops, mirrored>>
  BY DEF ClearIndexed
<1>2. PICK zero : zero = [p \in Postings |-> 0]
  OBVIOUS
<1>3. zero \in [Postings -> 0..MaxPrint] /\ \A p \in Postings : zero[p] = 0
  BY <1>2, JobIndexAssumption
<1>b. PICK batch \in SUBSET Postings : batch = run.batch
  BY <1>t
<1>4. jobs' = [p \in Postings |->
                 IF p \in batch THEN [jobs[p] EXCEPT !.recorded = zero[p]] ELSE jobs[p]]
  <2>1. jobs' = [p \in Postings |->
                   IF p \in batch THEN [jobs[p] EXCEPT !.recorded = 0] ELSE jobs[p]]
    BY <1>b DEF ClearIndexed
  <2>2. QED BY <1>3, <2>1
<1>5. /\ jobs' \in [Postings -> PostingRows]
      /\ \A p \in Postings : /\ jobs'[p].status = jobs[p].status /\ jobs'[p].print = jobs[p].print
                             /\ jobs'[p].recorded = IF p \in run.batch THEN 0 ELSE jobs[p].recorded
  <2>1. ASSUME NEW p \in Postings
        PROVE  /\ jobs'[p] \in PostingRows
               /\ jobs'[p].status = jobs[p].status /\ jobs'[p].print = jobs[p].print
               /\ jobs'[p].recorded = IF p \in batch THEN zero[p] ELSE jobs[p].recorded
    <3>1. jobs[p] \in PostingRows /\ zero[p] \in 0..MaxPrint
      BY <1>t, <1>3, IndexTypes
    <3>2. CASE p \in batch
      <4>1. jobs'[p] = [jobs[p] EXCEPT !.recorded = zero[p]]
        BY <1>4, <3>2
      <4>2. QED BY <3>1, <3>2, <4>1 DEF PostingRows
    <3>3. CASE p \notin batch
      BY <1>4, <3>1, <3>3
    <3>4. QED BY <3>2, <3>3
  <2>2. jobs' \in [Postings -> PostingRows]
    BY <1>4, <2>1
  <2>3. QED BY <1>b, <1>3, <2>1, <2>2
<1>6. PICK d \in SUBSET Postings : d = run.del \ run.batch
  BY <1>t, IndexTypes
<1>7. run' = [run EXCEPT !.at = "index", !.del = d, !.batch = {}]
  BY <1>6 DEF ClearIndexed
<1>8. /\ run' \in IndexRuns /\ run'.at = "index" /\ run'.del = d /\ run'.batch = {} /\ run'.put = run.put
  BY <1>t, <1>7 DEF IndexRuns
<1>9. IndexTypeOK'
  BY <1>t, <1>1, <1>5, <1>8, IndexTypes, TypedAs DEF IndexTypeOK
<1>10. VectorsRecorded'
  BY <1>t, <1>1, <1>5, <1>8 DEF VectorsRecorded
<1>11. BatchesPlanned'
  BY <1>8 DEF BatchesPlanned
<1>12. mirrored' # "yes"
  BY <1>t, <1>1 DEF PlansMirror
<1>13. PlansMirror' /\ RunMirrors'
  <2>1. Kept' = Kept
    BY <1>1, <1>5, KeptUnmoved
  <2>2. run.batch \subseteq run.del
    BY <1>1 DEF IndexInv, BatchesPlanned
  <2>3. ASSUME NEW p \in Postings, PlanLeft(p) PROVE PlanLeft(p)'
    BY <1>5, <1>6, <1>8, <2>1, <2>2, <2>3 DEF PlanLeft
  <2>4. QED BY <1>t, <1>1, <1>8, <1>12, <2>3 DEF PlansMirror, RunMirrors
<1>14. QED BY <1>9, <1>10, <1>11, <1>13 DEF IndexInv

LEMMA MarkIndexedKeeps ==
    ASSUME IndexInv, MarkIndexed
    PROVE  IndexInv'
<1>t. /\ IndexTypeOK /\ VectorsRecorded /\ PlansMirror /\ run \in IndexRuns /\ run.batch \in SUBSET Postings
      /\ run.put \in [Postings -> 0..MaxPrint]
  BY IndexTypes DEF IndexInv
<1>1. /\ run.at = "put"
      /\ lost' = lost \ run.batch /\ UNCHANGED <<kin, vector, changes, stops, mirrored>>
  BY DEF MarkIndexed
<1>b. PICK batch \in SUBSET Postings, x \in [Postings -> 0..MaxPrint] : batch = run.batch /\ x = run.put
  BY <1>t
<1>2. jobs' = [p \in Postings |->
                 IF p \in batch THEN [jobs[p] EXCEPT !.recorded = x[p]] ELSE jobs[p]]
  BY <1>b DEF MarkIndexed
<1>3. /\ jobs' \in [Postings -> PostingRows]
      /\ \A p \in Postings : /\ jobs'[p].status = jobs[p].status /\ jobs'[p].print = jobs[p].print
                             /\ jobs'[p].recorded = IF p \in run.batch THEN run.put[p] ELSE jobs[p].recorded
  <2>1. ASSUME NEW p \in Postings
        PROVE  /\ jobs'[p] \in PostingRows
               /\ jobs'[p].status = jobs[p].status /\ jobs'[p].print = jobs[p].print
               /\ jobs'[p].recorded = IF p \in batch THEN x[p] ELSE jobs[p].recorded
    <3>1. jobs[p] \in PostingRows /\ x[p] \in 0..MaxPrint
      BY <1>t, <1>b, IndexTypes
    <3>2. CASE p \in batch
      <4>1. jobs'[p] = [jobs[p] EXCEPT !.recorded = x[p]]
        BY <1>2, <3>2
      <4>2. QED BY <3>1, <3>2, <4>1 DEF PostingRows
    <3>3. CASE p \notin batch
      BY <1>2, <3>1, <3>3
    <3>4. QED BY <3>2, <3>3
  <2>2. jobs' \in [Postings -> PostingRows]
    BY <1>2, <2>1
  <2>3. QED BY <1>b, <1>b, <2>1, <2>2
<1>4. PICK u : u = [p \in Postings |-> IF p \in run.batch THEN 0 ELSE run.put[p]]
  OBVIOUS
<1>5. u \in [Postings -> 0..MaxPrint] /\ \A p \in Postings : u[p] = IF p \in run.batch THEN 0 ELSE run.put[p]
  BY <1>t, <1>4, JobIndexAssumption
<1>6. run' = [run EXCEPT !.at = "index", !.batch = {}, !.put = u]
  BY <1>4 DEF MarkIndexed
<1>7. run' \in IndexRuns /\ run'.at = "index" /\ run'.batch = {} /\ run'.put = u /\ run'.del = run.del
  BY <1>t, <1>5, <1>6 DEF IndexRuns
<1>8. IndexTypeOK'
  BY <1>t, <1>1, <1>3, <1>7, IndexTypes, TypedAs DEF IndexTypeOK
<1>9. VectorsRecorded'
  BY <1>t, <1>1, <1>3, <1>7 DEF VectorsRecorded
<1>10. BatchesPlanned'
  BY <1>7 DEF BatchesPlanned
<1>11. mirrored' # "yes"
  BY <1>t, <1>1 DEF PlansMirror
<1>12. PlansMirror' /\ RunMirrors'
  <2>1. Kept' = Kept
    BY <1>1, <1>3, KeptUnmoved
  <2>2. \A p \in run.batch : run.put[p] # 0
    BY <1>1 DEF IndexInv, BatchesPlanned, Unput
  <2>3. ASSUME NEW p \in Postings, PlanLeft(p) PROVE PlanLeft(p)'
    <3>1. CASE p \in Kept
      BY <1>3, <1>5, <1>7, <2>1, <2>2, <2>3, <3>1 DEF PlanLeft
    <3>2. CASE p \notin Kept
      BY <1>3, <1>5, <1>7, <2>1, <2>2, <2>3, <3>2 DEF PlanLeft
    <3>3. QED BY <3>1, <3>2
  <2>4. QED BY <1>t, <1>1, <1>7, <1>11, <2>3 DEF PlansMirror, RunMirrors
<1>13. QED BY <1>8, <1>9, <1>10, <1>12 DEF IndexInv

\* A run that ends has recorded what is to be searched; the index follows.
LEMMA EndRunKeeps ==
    ASSUME IndexInv, EndRun
    PROVE  IndexInv'
<1>t. IndexTypeOK /\ VectorsRecorded /\ PlansMirror
  BY DEF IndexInv
<1>1. /\ run.at = "index" /\ run.del = {} /\ Unput = {} /\ run' = Unscheduled
      /\ mirrored' = IF mirrored = "running" THEN "yes" ELSE "no"
      /\ UNCHANGED <<jobs, kin, vector, changes, stops, lost>>
  BY DEF EndRun
<1>2. run' \in IndexRuns /\ run'.at = "rest"
  BY <1>1, UnscheduledIsRun, UnscheduledFields
<1>3. IndexTypeOK'
  BY <1>t, <1>1, <1>2, IndexTypes, TypedAs DEF IndexTypeOK
<1>4. VectorsRecorded'
  BY <1>t, <1>1, <1>2 DEF VectorsRecorded
<1>5. BatchesPlanned' /\ PlansMirror'
  BY <1>1, <1>2 DEF BatchesPlanned, PlansMirror
<1>6. RunMirrors'
  <2> SUFFICES ASSUME mirrored = "running", NEW p \in Postings \ lost
               PROVE  vector[p] = IF p \in Kept THEN jobs[p].print ELSE 0
    <3>1. Kept' = Kept
      BY <1>1, KeptUnmoved
    <3>2. QED BY <1>1, <3>1 DEF RunMirrors
  <2>1. vector[p] = jobs[p].recorded
    BY <1>t, <1>1 DEF VectorsRecorded
  <2>2. PlanLeft(p) /\ run.put[p] = 0 /\ p \notin run.del
    BY <1>t, <1>1 DEF PlansMirror, Unput
  <2>3. QED BY <2>1, <2>2 DEF PlanLeft
<1>7. QED BY <1>3, <1>4, <1>5, <1>6 DEF IndexInv

LEMMA StopKeeps ==
    ASSUME IndexInv, Stop
    PROVE  IndexInv'
<1>t. IndexTypeOK /\ VectorsRecorded /\ PlansMirror /\ RunMirrors /\ run.batch \in SUBSET Postings /\ run \in IndexRuns
  BY IndexTypes DEF IndexInv
<1>1. /\ run.at # "rest" /\ run' = Unscheduled
      /\ mirrored' = IF run.at = "prune" THEN mirrored ELSE "no"
      /\ UNCHANGED <<jobs, kin, vector, changes>>
      /\ lost' = IF run.at \in {"deleted", "put"}
                 THEN lost \cup {p \in run.batch : vector[p] # jobs[p].recorded} ELSE lost
  BY DEF Stop
<1>2. run' \in IndexRuns /\ run'.at = "rest"
  BY <1>1, UnscheduledIsRun, UnscheduledFields
<1>3. IndexTypeOK'
  <2>1. stops' \in 0..MaxStops
    BY <1>t, JobIndexAssumption DEF Stop, IndexTypeOK
  <2>2. lost' \subseteq Postings /\ mirrored' \in {"no", "running", "yes"}
    BY <1>t, <1>1 DEF IndexTypeOK
  <2>3. QED BY <1>t, <1>1, <1>2, <2>1, <2>2, IndexTypes, TypedAs DEF IndexTypeOK
<1>4. VectorsRecorded'
  <2>1. ASSUME NEW p \in Postings, p \notin lost' PROVE vector[p] = jobs[p].recorded
    BY <1>t, <1>1, <2>1 DEF VectorsRecorded
  <2>2. QED BY <1>1, <1>2, <2>1 DEF VectorsRecorded
<1>5. BatchesPlanned'
  BY <1>2 DEF BatchesPlanned
<1>6. PlansMirror'
  BY <1>t, <1>1, <1>2 DEF PlansMirror
<1>7. RunMirrors'
  <2> SUFFICES ASSUME mirrored' = "yes" PROVE RunMirrors'
    BY DEF RunMirrors
  <2>1. mirrored = "yes" /\ lost' = lost /\ vector' = vector /\ jobs' = jobs
    BY <1>1
  <2>2. Kept' = Kept
    BY <1>1, KeptUnmoved
  <2>3. QED BY <1>t, <2>1, <2>2 DEF RunMirrors
<1>8. QED BY <1>3, <1>4, <1>5, <1>6, <1>7 DEF IndexInv
-----------------------------------------------------------------------------
(* Pruning and adoption *)

LEMMA PruneReadKeeps ==
    ASSUME IndexInv, NEW protected \in SUBSET Postings, PruneRead(protected)
    PROVE  IndexInv'
<1>t. IndexTypeOK /\ VectorsRecorded /\ PlansMirror /\ RunMirrors
  BY DEF IndexInv
<1>1. PICK picked : picked = {p \in Postings \ protected : jobs[p].old /\ jobs[p].recorded = 0}
  OBVIOUS
<1>2. /\ run.at = "rest" /\ run' = [Unscheduled EXCEPT !.at = "prune", !.batch = picked]
      /\ UNCHANGED <<jobs, kin, vector, changes, stops, lost, mirrored>>
  BY <1>1 DEF PruneRead
<1>3. picked \in SUBSET Postings /\ \A p \in picked : jobs[p].recorded = 0
  BY <1>1
<1>4. run' \in IndexRuns /\ run'.at = "prune" /\ run'.batch = picked
  BY <1>2, <1>3, UnscheduledIsRun DEF IndexRuns
<1>5. IndexTypeOK'
  BY <1>t, <1>2, <1>4, IndexTypes, TypedAs DEF IndexTypeOK
<1>6. VectorsRecorded'
  BY <1>t, <1>2, <1>4 DEF VectorsRecorded
<1>7. BatchesPlanned'
  BY <1>2, <1>3, <1>4 DEF BatchesPlanned
<1>8. PlansMirror'
  BY <1>t, <1>2, <1>4 DEF PlansMirror
<1>9. RunMirrors'
  BY <1>t, <1>2, KeptUnmoved DEF RunMirrors
<1>10. QED BY <1>5, <1>6, <1>7, <1>8, <1>9 DEF IndexInv

LEMMA PruneDeleteKeeps ==
    ASSUME IndexInv, PruneDelete
    PROVE  IndexInv'
<1>t. /\ IndexTypeOK /\ VectorsRecorded /\ PlansMirror /\ RunMirrors /\ jobs \in [Postings -> PostingRows]
      /\ run.batch \in SUBSET Postings
  BY IndexTypes DEF IndexInv
<1>1. /\ run.at = "prune"
      /\ jobs' = [p \in Postings |-> IF p \in run.batch THEN Unlisted ELSE jobs[p]]
      /\ kin' = kin \ run.batch /\ run' = Unscheduled
      /\ mirrored' = IF \E p \in run.batch : jobs[p].status = "open" THEN "no" ELSE mirrored
      /\ UNCHANGED <<vector, changes, stops, lost>>
  BY DEF PruneDelete
<1>2. run' \in IndexRuns /\ run'.at = "rest"
  BY <1>1, UnscheduledIsRun, UnscheduledFields
<1>3. jobs' \in [Postings -> PostingRows]
  BY <1>t, <1>1, UnlistedIsRow
<1>4. \A p \in Postings : jobs'[p] = IF p \in run.batch THEN Unlisted ELSE jobs[p]
  BY <1>1
<1>5. Unlisted.recorded = 0 /\ Unlisted.status = "none" /\ Unlisted.print = 0
  BY DEF Unlisted
<1>6. IndexTypeOK'
  BY <1>t, <1>1, <1>2, <1>3, TypedAs, IndexTypes DEF IndexTypeOK
<1>7. VectorsRecorded'
  <2>1. \A p \in run.batch : jobs[p].recorded = 0
    BY <1>1 DEF IndexInv, BatchesPlanned
  <2>2. ASSUME NEW p \in Postings, p \notin lost PROVE vector[p] = jobs'[p].recorded
    BY <1>t, <1>1, <1>4, <1>5, <2>1, <2>2 DEF VectorsRecorded
  <2>3. QED BY <1>1, <1>2, <2>2 DEF VectorsRecorded
<1>8. BatchesPlanned'
  BY <1>2 DEF BatchesPlanned
<1>9. PlansMirror'
  BY <1>t, <1>1, <1>2 DEF PlansMirror
<1>10. RunMirrors'
  <2> SUFFICES ASSUME mirrored' = "yes", NEW p \in Postings \ lost
               PROVE  Kept' = Kept /\ vector[p] = IF p \in Kept THEN jobs'[p].print ELSE 0
    BY <1>1 DEF RunMirrors
  <2>1. mirrored = "yes" /\ \A q \in run.batch : jobs[q].status # "open"
    BY <1>1
  <2>2. Indexable' = Indexable /\ Indexable \cap run.batch = {} /\ Indexable \subseteq Postings
    BY <1>4, <1>5, <2>1 DEF Indexable
  <2>3. Kept' = Kept
    BY <1>1, <1>4, <2>2, KeptSame
  <2>4. p \in Kept => jobs'[p] = jobs[p]
    BY <1>4, <2>2, KeptIsIndexable
  <2>5. QED BY <1>t, <2>1, <2>3, <2>4 DEF RunMirrors
<1>11. QED BY <1>6, <1>7, <1>8, <1>9, <1>10 DEF IndexInv

LEMMA AdoptKeeps ==
    ASSUME IndexInv, Adopt
    PROVE  IndexInv'
<1>t. IndexTypeOK /\ VectorsRecorded /\ jobs \in [Postings -> PostingRows]
  BY IndexTypes DEF IndexInv
<1>1. PICK adopted \in SUBSET Postings :
        /\ jobs' = [p \in Postings |->
                      IF p \in adopted THEN [jobs[p] EXCEPT !.recorded = jobs[p].print] ELSE jobs[p]]
        /\ lost' = (lost \ adopted) \cup {p \in adopted : vector[p] # jobs[p].print}
  <2>1. PICK A : A = {p \in Postings : Stored(p) /\ vector[p] # 0
                                      /\ (jobs[p].status # "open" \/ vector[p] = jobs[p].print)}
    OBVIOUS
  <2>2. /\ jobs' = [p \in Postings |->
                      IF p \in A THEN [jobs[p] EXCEPT !.recorded = jobs[p].print] ELSE jobs[p]]
        /\ lost' = (lost \ A) \cup {p \in A : vector[p] # jobs[p].print}
    BY <2>1 DEF Adopt
  <2>3. QED BY <2>1, <2>2
<1>2. run.at = "rest" /\ mirrored' = "no" /\ UNCHANGED <<kin, vector, run, changes, stops>>
  BY DEF Adopt
<1>3. ASSUME NEW p \in Postings
      PROVE  jobs'[p] \in PostingRows /\ jobs'[p].recorded = IF p \in adopted THEN jobs[p].print ELSE jobs[p].recorded
  <2>1. jobs[p] \in PostingRows
    BY <1>t
  <2>2. CASE p \in adopted
    <3>1. jobs'[p] = [jobs[p] EXCEPT !.recorded = jobs[p].print]
      BY <1>1, <2>2
    <3>2. QED BY <2>1, <2>2, <3>1 DEF PostingRows
  <2>3. CASE p \notin adopted
    BY <1>1, <2>1, <2>3
  <2>4. QED BY <2>2, <2>3
<1>4. jobs' \in [Postings -> PostingRows]
  BY <1>1, <1>3
<1>5. IndexTypeOK'
  BY <1>t, <1>1, <1>2, <1>4, TypedAs, IndexTypes DEF IndexTypeOK
<1>6. VectorsRecorded'
  BY <1>t, <1>1, <1>2, <1>3 DEF VectorsRecorded
<1>7. BatchesPlanned' /\ PlansMirror' /\ RunMirrors'
  BY <1>2 DEF BatchesPlanned, PlansMirror, RunMirrors
<1>8. QED BY <1>5, <1>6, <1>7 DEF IndexInv

-----------------------------------------------------------------------------
(* The theorems *)

LEMMA IndexInitInv == IndexInit => IndexInv
<1> SUFFICES ASSUME IndexInit PROVE IndexInv
  OBVIOUS
<1>1. /\ jobs = [p \in Postings |-> Unlisted] /\ vector = [p \in Postings |-> 0]
      /\ run = Unscheduled /\ mirrored = "no" /\ lost = {}
  BY DEF IndexInit
<1>2. run \in IndexRuns /\ run.at = "rest"
  BY <1>1, UnscheduledIsRun, UnscheduledFields
<1>3. IndexTypeOK
  <2>1. Unlisted \in [status: {"none", "open", "removed", "closed"}, print: 0..MaxPrint,
                      recorded: 0..MaxPrint, old: BOOLEAN]
    BY UnlistedIsRow DEF PostingRows
  <2>2. run \in [at: {"rest", "index", "deleted", "put", "prune"}, put: [Postings -> 0..MaxPrint],
                 del: SUBSET Postings, batch: SUBSET Postings]
    BY <1>2 DEF IndexRuns
  <2>3. QED BY <1>1, <2>1, <2>2, JobIndexAssumption DEF IndexTypeOK, IndexInit
<1>4. VectorsRecorded
  BY <1>1, <1>2 DEF VectorsRecorded, Unlisted
<1>5. BatchesPlanned /\ PlansMirror /\ RunMirrors
  BY <1>1, <1>2 DEF BatchesPlanned, PlansMirror, RunMirrors
<1>6. QED BY <1>3, <1>4, <1>5 DEF IndexInv

LEMMA IndexNextInv == IndexInv /\ [IndexNext]_indexVars => IndexInv'
<1> SUFFICES ASSUME IndexInv, [IndexNext]_indexVars PROVE IndexInv'
  OBVIOUS
<1>1. CASE IndexNext
  BY <1>1, TableKeeps, PlanKeeps, DeleteBatchKeeps, UpsertBatchKeeps, ClearIndexedKeeps, MarkIndexedKeeps,
     EndRunKeeps, StopKeeps, PruneReadKeeps, PruneDeleteKeeps, AdoptKeeps
  DEF IndexNext
<1>2. CASE UNCHANGED indexVars
  <2>1. UNCHANGED <<jobs, kin, vector, run, changes, stops, lost, mirrored>>
    BY <1>2 DEF indexVars
  <2>2. Kept' = Kept
    BY <2>1, KeptUnmoved
  <2>3. IndexTypeOK' /\ VectorsRecorded'
    BY <2>1 DEF IndexInv, IndexTypeOK, VectorsRecorded
  <2>4. BatchesPlanned' /\ PlansMirror' /\ RunMirrors'
    BY <2>1, <2>2 DEF IndexInv, BatchesPlanned, Unput, PlansMirror, PlanLeft, RunMirrors
  <2>5. QED BY <2>3, <2>4 DEF IndexInv
<1>3. QED BY <1>1, <1>2

\* What the table records as indexed is what the index holds, but for the batch
\* at hand and what a stopped run left.
THEOREM IndexInvariance == IndexSpec => []IndexInv
BY IndexInitInv, IndexNextInv, PTL DEF IndexSpec

\* After a run over a table that did not change, the index holds what is to be
\* searched, as it is, and nothing else: for every number of postings, batches
\* and stopped runs before it.
THEOREM RunsAlwaysMirror == IndexSpec => []RunMirrors
<1>1. IndexInv => RunMirrors
  BY DEF IndexInv
<1>2. QED BY <1>1, IndexInvariance, PTL

\* Types of the table, the index and the run
THEOREM IndexTypeCorrect == IndexSpec => []IndexTypeOK
<1>1. IndexInv => IndexTypeOK
  BY DEF IndexInv
<1>2. QED BY <1>1, IndexInvariance, PTL
-----------------------------------------------------------------------------
(* What is not in the table has no vector, unless a stopped run left one *)

\* What has no row is not recorded as indexed, and no run will write it.
OnlyRows ==
    \A p \in Postings :
        ~Stored(p) => jobs[p].recorded = 0 /\ run.put[p] = 0 /\ p \notin run.del

\* A step that takes no row away and plans nothing
LEMMA RowsStay ==
    ASSUME OnlyRows, run'.put = run.put, run'.del = run.del,
           \A p \in Postings : jobs'[p].status = "none" =>
               jobs[p].status = "none" /\ jobs'[p].recorded = jobs[p].recorded
    PROVE  OnlyRows'
BY DEF OnlyRows, Stored

\* A step after which no run is left that plans anything
LEMMA PlansGone ==
    ASSUME run'.put = [p \in Postings |-> 0], run'.del = {},
           \A p \in Postings : jobs'[p].status = "none" => jobs'[p].recorded = 0
    PROVE  OnlyRows'
BY DEF OnlyRows, Stored

LEMMA TableOnlyRows ==
    ASSUME IndexTypeOK, OnlyRows,
           \/ \E p \in Postings :
                \/ \E print \in Prints, status \in {"open", "removed"} : Collect(p, print, status)
                \/ Observe(p) \/ CheckLink(p) \/ ReopenAlive(p)
           \/ DaysPass \/ \E group \in SUBSET Postings : Regroup(group)
    PROVE  OnlyRows'
<1>t. jobs \in [Postings -> PostingRows]
  BY IndexTypes
<1>1. run' = run
  BY DEF Collect, Observe, CheckLink, ReopenAlive, DaysPass, Regroup, Changes
<1>2. ASSUME NEW p \in Postings, NEW print \in Prints, NEW status \in {"open", "removed"},
             Collect(p, print, status)
      PROVE  OnlyRows'
  <2>1. PICK r : r = Written(p, print, status)
    OBVIOUS
  <2>2. r.status # "none"
    BY <2>1 DEF Written
  <2>3. jobs' = [jobs EXCEPT ![p] = r]
    BY <1>2, <2>1 DEF Collect
  <2>4. QED BY <1>t, <1>1, <2>2, <2>3, RowsStay
<1>3. ASSUME NEW p \in Postings, NEW s \in {"open", "removed", "closed"}, NEW b \in BOOLEAN,
             \/ jobs' = [jobs EXCEPT ![p].status = s]
             \/ jobs' = [jobs EXCEPT ![p].status = s, ![p].old = b]
      PROVE  OnlyRows'
  <2>1. PICK r : r = jobs'[p]
    OBVIOUS
  <2>2. r.status = s /\ \A q \in Postings : q # p => jobs'[q] = jobs[q]
    BY <1>t, <1>3, <2>1 DEF PostingRows
  <2>3. QED BY <1>1, <2>1, <2>2, RowsStay
<1>4. ASSUME NEW p \in Postings, Observe(p)
      PROVE  OnlyRows'
  BY <1>3, <1>4 DEF Observe
<1>5. ASSUME NEW p \in Postings, CheckLink(p) \/ ReopenAlive(p)
      PROVE  OnlyRows'
  BY <1>3, <1>5 DEF CheckLink, ReopenAlive
<1>6. ASSUME DaysPass
      PROVE  OnlyRows'
  <2>1. ASSUME NEW p \in Postings
        PROVE  jobs'[p].status = jobs[p].status /\ jobs'[p].recorded = jobs[p].recorded
    <3>1. PICK b : b = (jobs[p].status \in {"removed", "closed"})
      OBVIOUS
    <3>2. jobs'[p] = [jobs[p] EXCEPT !.old = b]
      BY <1>6, <3>1 DEF DaysPass
    <3>3. QED BY <1>t, <3>2 DEF PostingRows
  <2>2. QED BY <1>1, <2>1, RowsStay
<1>7. ASSUME NEW group \in SUBSET Postings, Regroup(group)
      PROVE  OnlyRows'
  BY <1>1, <1>7, RowsStay DEF Regroup
<1>8. QED BY <1>2, <1>4, <1>5, <1>6, <1>7

LEMMA OnlyRowsNext ==
    ASSUME IndexInv, OnlyRows, [IndexNext]_indexVars
    PROVE  OnlyRows'
<1>t. /\ IndexTypeOK /\ jobs \in [Postings -> PostingRows] /\ run \in IndexRuns
      /\ run.put \in [Postings -> 0..MaxPrint] /\ run.batch \subseteq Postings
  BY IndexTypes DEF IndexInv
<1>0. \A p \in Postings : jobs[p].status = "none" => jobs[p].recorded = 0
  BY DEF OnlyRows, Stored
<1>1. ASSUME NEW force \in BOOLEAN, Plan(force)
      PROVE  OnlyRows'
  <2>1. jobs' = jobs
    BY <1>1 DEF Plan
  <2>2. \A p \in Postings : p \in run'.del => jobs[p].recorded # 0
    BY <1>1 DEF Plan, ToDelete, Recorded
  <2>3. \A p \in Kept : jobs[p].status = "open"
    BY KeptIsIndexable DEF Indexable
  <2>4. \A p \in Postings : p \notin Kept => run'.put[p] = 0
    BY <1>1 DEF Plan
  <2>5. QED BY <1>0, <2>1, <2>2, <2>3, <2>4 DEF OnlyRows, Stored
<1>2. ASSUME NEW batch \in SUBSET Postings, DeleteBatch(batch) \/ UpsertBatch(batch)
      PROVE  OnlyRows'
  <2>1. jobs' = jobs
    BY <1>2 DEF DeleteBatch, UpsertBatch
  <2>2. run'.put = run.put /\ run'.del = run.del
    BY <1>t, <1>2 DEF DeleteBatch, UpsertBatch, IndexRuns
  <2>3. QED BY <2>1, <2>2, RowsStay
<1>3. ASSUME ClearIndexed
      PROVE  OnlyRows'
  <2>1. run'.put = run.put /\ run'.del \subseteq run.del
    BY <1>t, <1>3 DEF ClearIndexed, IndexRuns
  <2>2. ASSUME NEW p \in Postings, jobs'[p].status = "none"
        PROVE  jobs[p].status = "none" /\ jobs'[p].recorded = 0
    <3>1. jobs'[p] = IF p \in run.batch THEN [jobs[p] EXCEPT !.recorded = 0] ELSE jobs[p]
      BY <1>3 DEF ClearIndexed
    <3>2. QED BY <1>0, <1>t, <2>2, <3>1, RowRecorded, JobIndexAssumption DEF PostingRows
  <2>3. QED BY <2>1, <2>2 DEF OnlyRows, Stored
<1>4. ASSUME MarkIndexed
      PROVE  OnlyRows'
  <2>1. run.at = "put" /\ run.batch \subseteq Unput
    BY <1>4 DEF MarkIndexed, IndexInv, BatchesPlanned
  <2>2. run'.del = run.del /\ run'.put = [p \in Postings |-> IF p \in run.batch THEN 0 ELSE run.put[p]]
    BY <1>t, <1>4 DEF MarkIndexed, IndexRuns
  <2>3. ASSUME NEW p \in Postings, jobs'[p].status = "none"
        PROVE  jobs'[p] = jobs[p] /\ jobs[p].status = "none"
    <3>1. jobs'[p] = IF p \in run.batch THEN [jobs[p] EXCEPT !.recorded = run.put[p]] ELSE jobs[p]
      BY <1>4 DEF MarkIndexed
    <3>2. jobs[p].status = "none"
      BY <1>t, <2>3, <3>1 DEF PostingRows
    <3>3. run.put[p] = 0
      BY <3>2 DEF OnlyRows, Stored
    <3>4. p \notin run.batch
      BY <2>1, <3>3 DEF Unput
    <3>5. QED BY <3>1, <3>2, <3>4
  <2>4. QED BY <2>2, <2>3 DEF OnlyRows, Stored
<1>5. ASSUME EndRun \/ Stop
      PROVE  OnlyRows'
  <2>1. jobs' = jobs /\ run' = Unscheduled
    BY <1>5 DEF EndRun, Stop
  <2>2. QED BY <1>0, <2>1, UnscheduledFields, PlansGone
<1>6. ASSUME NEW protected \in SUBSET Postings, PruneRead(protected)
      PROVE  OnlyRows'
  <2>1. jobs' = jobs /\ \E picked : run' = [Unscheduled EXCEPT !.at = "prune", !.batch = picked]
    BY <1>6 DEF PruneRead
  <2>2. run'.put = [p \in Postings |-> 0] /\ run'.del = {}
    BY <2>1, UnscheduledFields DEF Unscheduled
  <2>3. QED BY <1>0, <2>1, <2>2, PlansGone
<1>7. ASSUME PruneDelete
      PROVE  OnlyRows'
  <2>1. /\ run' = Unscheduled
        /\ \A p \in Postings : jobs'[p] = Unlisted \/ jobs'[p] = jobs[p]
    BY <1>7 DEF PruneDelete
  <2>2. Unlisted.recorded = 0
    BY DEF Unlisted
  <2>3. QED BY <1>0, <2>1, <2>2, UnscheduledFields, PlansGone
<1>8. ASSUME Adopt
      PROVE  OnlyRows'
  <2>1. run' = run
    BY <1>8 DEF Adopt
  <2>2. ASSUME NEW p \in Postings, jobs'[p].status = "none"
        PROVE  jobs[p].status = "none" /\ jobs'[p].recorded = jobs[p].recorded
    <3>1. \/ jobs'[p] = jobs[p]
          \/ jobs[p].status # "none" /\ jobs'[p] = [jobs[p] EXCEPT !.recorded = jobs[p].print]
      BY <1>8 DEF Adopt, Stored
    <3>2. QED BY <1>t, <2>2, <3>1 DEF PostingRows
  <2>3. QED BY <2>1, <2>2, RowsStay
<1>9. ASSUME UNCHANGED indexVars
      PROVE  OnlyRows'
  BY <1>9 DEF indexVars, OnlyRows, Stored
<1>10. QED
  BY <1>t, <1>1, <1>2, <1>3, <1>4, <1>5, <1>6, <1>7, <1>8, <1>9, TableOnlyRows DEF IndexNext

\* A posting that is not in the table is not in the index either, unless a
\* stopped run changed its vector without recording it: neither closing,
\* grouping, pruning nor adopting leaves a vector that no run would know of
\* (prune.py keeps what is still in the index).
THEOREM OnlyStoppedRunsLeaveVectors ==
    IndexSpec => [](\A p \in Postings \ lost : Stored(p) \/ vector[p] = 0)
<1>1. IndexInit => OnlyRows
  BY UnscheduledFields DEF IndexInit, OnlyRows, Unlisted
<1>2. IndexInv /\ OnlyRows => \A p \in Postings \ lost : Stored(p) \/ vector[p] = 0
  BY DEF IndexInv, OnlyRows, VectorsRecorded, BatchesPlanned, Unput
<1>3. IndexInv /\ OnlyRows /\ [IndexNext]_indexVars => OnlyRows'
  BY OnlyRowsNext
<1>4. QED BY <1>1, <1>2, <1>3, IndexInvariance, PTL DEF IndexSpec

\* prune.py takes only what the table says is not in the index: as long as no
\* run is stopped half-way and no posting adopted with another content, no
\* posting that is gone from the table has a vector.
COROLLARY PruningIsSafe == IndexSpec /\ [](lost = {}) => []PrunedLeavesNoVector
<1>1. lost = {} /\ (\A p \in Postings \ lost : Stored(p) \/ vector[p] = 0) => PrunedLeavesNoVector
  BY DEF PrunedLeavesNoVector
<1>2. QED BY <1>1, OnlyStoppedRunsLeaveVectors, PTL

-----------------------------------------------------------------------------
(* The systems of the backend, side by side: MCBackend *)

\* The systems keep apart: side by side, each does what its own specification
\* says, so that all that is proved of one of them holds of the backend that has
\* them all.  The tabs' requests are among those the sessions must bear with.
THEOREM SystemsKeepApart ==
    BackendSpec => /\ Spec /\ PurchasesSpec /\ AttendanceSpec /\ NoticesSpec /\ CohortSpec /\ IndexSpec
                   /\ SessionsSpec
                   /\ system = "tabs" => TabsSpec
<1>1. BackendInit =>
          /\ Init /\ PurchasesInit /\ AttendanceInit /\ NoticesInit /\ CohortInit /\ IndexInit
          /\ SessionsInit /\ TabsInit
  BY DEF BackendInit, TabsInit
<1>2. ASSUME [BackendNext]_backendVars PROVE [Next]_vars
  BY <1>2 DEF BackendNext, OthersRest, backendVars
<1>3. ASSUME [BackendNext]_backendVars PROVE [PurchasesNext]_purchaseVars
  BY <1>3 DEF BackendNext, OthersRest, backendVars
<1>4. ASSUME [BackendNext]_backendVars PROVE [AttendanceNext]_attendanceVars
  BY <1>4 DEF BackendNext, OthersRest, backendVars
<1>5. ASSUME [BackendNext]_backendVars PROVE [NoticesNext]_noticesVars
  BY <1>5 DEF BackendNext, OthersRest, backendVars
<1>6. ASSUME [BackendNext]_backendVars PROVE [CohortNext]_cohortVars
  BY <1>6 DEF BackendNext, OthersRest, backendVars
<1>7. ASSUME [BackendNext]_backendVars PROVE [IndexNext]_indexVars
  BY <1>7 DEF BackendNext, OthersRest, backendVars
<1>8. ASSUME [BackendNext]_backendVars PROVE [SessionsNext]_sessionVars
  <2>1. CASE SessionsNext
    BY <2>1
  <2>2. CASE TabsNext
    BY <2>2, StepsAreSessionSteps
  <2>3. CASE UNCHANGED allVars
    BY <2>3 DEF allVars
  <2>4. QED BY <1>8, <2>1, <2>2, <2>3 DEF BackendNext, OthersRest, backendVars
<1>9. ASSUME system = "tabs", [BackendNext]_backendVars PROVE (system = "tabs")' /\ [TabsNext]_allVars
  BY <1>9 DEF BackendNext, OthersRest, backendVars
<1>10. QED
  BY <1>1, <1>2, <1>3, <1>4, <1>5, <1>6, <1>7, <1>8, <1>9, PTL
  DEF BackendSpec, Spec, PurchasesSpec, AttendanceSpec, NoticesSpec, CohortSpec, IndexSpec,
      SessionsSpec, TabsSpec

\* The tabs among them: what a tab waits for is what it sent, and nothing of it
\* moves while other systems do.
LEMMA TabsBesideOthers == BackendSpec => [](IF system = "tabs" THEN TabsInv ELSE TabsTypeOK)
<1> DEFINE I == IF system = "tabs" THEN TabsInv ELSE TabsTypeOK
<1>1. BackendInit => I
  BY TabsInitInv DEF BackendInit, TabsInv
<1>2. ASSUME I, [BackendNext]_backendVars PROVE I'
  <2>1. system' = system
    BY <1>2 DEF BackendNext, OthersRest, backendVars
  <2>2. CASE system = "tabs"
    <3>1. [TabsNext]_allVars
      BY <1>2, <2>2 DEF BackendNext, OthersRest, backendVars
    <3>2. QED BY <1>2, <2>1, <2>2, <3>1, TabsNextInv
  <2>3. CASE system # "tabs"
    <3>1. UNCHANGED tabVars
      BY <1>2, <2>3 DEF BackendNext, OthersRest, backendVars, allVars
    <3>2. QED BY <1>2, <2>1, <2>3, <3>1 DEF tabVars, TabsTypeOK
  <2>4. QED BY <2>2, <2>3
<1>3. QED BY <1>1, <1>2, PTL DEF BackendSpec

\* Type correctness of all these systems' state.
THEOREM BackendTypeCorrect == BackendSpec => []BackendTypeOK
<1>1. (IF system = "tabs" THEN TabsInv ELSE TabsTypeOK) => TabsTypeOK
  BY DEF TabsInv
<1>2. TypeOK /\ PurchasesTypeOK /\ CohortTypeOK /\ AttendanceTypeOK /\ NoticesTypeOK /\ IndexTypeOK
          /\ TabsTypeOK
      => BackendTypeOK
  BY DEF BackendTypeOK
<1>3. QED
  BY <1>1, <1>2, SystemsKeepApart, TabsBesideOthers, MissionTypeCorrect, PurchasesTypeCorrect,
     CohortTypeCorrect, AttendanceTypeCorrect, NoticesTypeCorrect, IndexTypeCorrect, PTL
=============================================================================
