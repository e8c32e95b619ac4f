---------------------------- MODULE QuestsProofs ----------------------------
(* What holds of Quests for every set of workers, students, quests and    *)
(* submissions, and every reward and limit.                                *)
EXTENDS Quests, LedgerSums

-----------------------------------------------------------------------------
(* Types *)

\* The two shapes a request at work has
SubmitStates == [at: {"submitRead", "submitCounted"}, pair: Pairs, seen: QuestRows]
ReviewStates == [at: {"reviewLocked", "reviewCounted"}, sub: Subs, seen: QuestRows,
                 decision: Decisions]

LEMMA ReqShape ==
    ASSUME TypeOK, NEW r \in Requests
    PROVE  /\ req[r].at \in {"submitRead", "submitCounted"} => req[r] \in SubmitStates
           /\ req[r].at \in {"reviewLocked", "reviewCounted"} => req[r] \in ReviewStates
BY DEF TypeOK, ReqStates, SubmitStates, ReviewStates, Idle

LEMMA ReqMoves ==
    ASSUME TypeOK, NEW r \in Requests
    PROVE  /\ req[r].at = "submitRead" =>
                [req[r] EXCEPT !.at = "submitCounted"] \in SubmitStates
           /\ req[r].at = "reviewLocked" =>
                [req[r] EXCEPT !.at = "reviewCounted"] \in ReviewStates
BY ReqShape DEF SubmitStates, ReviewStates

LEMMA GrantType ==
    ASSUME TypeOK, NEW s \in Subs, NEW amount \in Int, Grant(s, amount)
    PROVE  /\ ledger' \in [Subs -> Seq(LedgerRows)]
           /\ balance' \in [Students -> Int]
<1>1. [type |-> "quest", amount |-> amount] \in LedgerRows
  BY DEF LedgerRows
<1>2. ledger[s] \in Seq(LedgerRows) /\ UserOf(PairOf(s)) \in Students
  BY DEF TypeOK, Subs, Pairs, UserOf, PairOf
<1>3. Append(ledger[s], [type |-> "quest", amount |-> amount]) \in Seq(LedgerRows)
  BY <1>1, <1>2
<1>4. QED BY <1>2, <1>3 DEF TypeOK, Grant

LEMMA RevokeType ==
    ASSUME TypeOK, NEW s \in Subs, Revoke(s)
    PROVE  /\ ledger' \in [Subs -> Seq(LedgerRows)]
           /\ balance' \in [Students -> Int]
<1>0. granted[s] \in Int BY QuestsAssumption DEF TypeOK
<1>1. [type |-> "quest_revoke", amount |-> -granted[s]] \in LedgerRows
  BY <1>0 DEF LedgerRows
<1>2. ledger[s] \in Seq(LedgerRows) /\ UserOf(PairOf(s)) \in Students
  BY DEF TypeOK, Subs, Pairs, UserOf, PairOf
<1>3. Append(ledger[s], [type |-> "quest_revoke", amount |-> -granted[s]]) \in Seq(LedgerRows)
  BY <1>1, <1>2
<1>4. CASE granted[s] > 0
  <2>1. /\ ledger' = [ledger EXCEPT ![s] =
                         Append(ledger[s], [type |-> "quest_revoke", amount |-> -granted[s]])]
        /\ balance' = [balance EXCEPT ![UserOf(PairOf(s))] =
                         balance[UserOf(PairOf(s))] - granted[s]]
    BY <1>4 DEF Revoke
  <2>2. balance' \in [Students -> Int]
    BY <1>0, <1>2, <2>1 DEF TypeOK
  <2>3. ledger' \in [Subs -> Seq(LedgerRows)]
    BY <1>3, <2>1 DEF TypeOK
  <2>4. QED BY <2>2, <2>3
<1>5. CASE ~(granted[s] > 0)
  BY <1>5 DEF Revoke, TypeOK
<1>6. QED BY <1>4, <1>5

LEMMA InitType == Init => TypeOK
BY QuestsAssumption DEF Init, TypeOK, BlankQuest, QuestRows, Statuses, ReqStates, Idle

\* Every step keeps the types.
LEMMA NextType == TypeOK /\ [Next]_vars => TypeOK'
<1> SUFFICES ASSUME TypeOK, [Next]_vars PROVE TypeOK'
  OBVIOUS
<1> USE QuestsAssumption
<1>1. ASSUME NEW q \in QuestIds, NEW row \in QuestRows, CreateQuest(q, row)
      PROVE  TypeOK'
  BY <1>1 DEF TypeOK, CreateQuest, QuestRows
<1>2. ASSUME NEW q \in QuestIds, NEW row \in QuestRows, UpdateQuest(q, row)
      PROVE  TypeOK'
  BY <1>2 DEF TypeOK, UpdateQuest, QuestRows
<1>3. ASSUME NEW r \in Requests, NEW p \in Pairs, SubmitRead(r, p)
      PROVE  TypeOK'
  BY <1>3 DEF TypeOK, SubmitRead, ReqStates, Pairs, QuestOf
<1>4. ASSUME NEW r \in Requests, SubmitCount(r)
      PROVE  TypeOK'
  BY <1>4, ReqMoves DEF TypeOK, SubmitCount, ReqStates, SubmitStates
<1>5. ASSUME NEW r \in Requests, NEW n \in Slots, SubmitInsert(r, n)
      PROVE  TypeOK'
  <2> DEFINE s == <<req[r].pair, n>>
             amount == req[r].seen.reward
  <2>1. s \in Subs /\ amount \in 1..MaxReward
    BY <1>5, ReqShape DEF SubmitInsert, SubmitStates, QuestRows, Subs
  <2>2. /\ ledger' \in [Subs -> Seq(LedgerRows)]
        /\ balance' \in [Students -> Int]
    BY <1>5, <2>1, GrantType DEF SubmitInsert, TypeOK
  <2>3. status' \in [Subs -> Statuses] /\ granted' \in [Subs -> 0..MaxReward]
    <3>1. /\ status \in [Subs -> Statuses] /\ granted \in [Subs -> 0..MaxReward]
          /\ amount \in 0..MaxReward /\ {"approved", "pending"} \subseteq Statuses
      BY <2>1 DEF TypeOK, Statuses
    <3>2. CASE req[r].seen.auto
      BY <1>5, <3>1, <3>2 DEF SubmitInsert
    <3>3. CASE ~req[r].seen.auto
      BY <1>5, <3>1, <3>3 DEF SubmitInsert
    <3>4. QED BY <3>2, <3>3
  <2>4. req' \in [Requests -> ReqStates]
    BY <1>5 DEF TypeOK, SubmitInsert, ReqStates
  <2>5. UNCHANGED <<created, quest, highest>>
    BY <1>5 DEF SubmitInsert
  <2>6. QED BY <2>2, <2>3, <2>4, <2>5 DEF TypeOK
<1>6. ASSUME NEW r \in Requests, NEW s \in Subs, NEW d \in Decisions, ReviewLock(r, s, d)
      PROVE  TypeOK'
  BY <1>6 DEF TypeOK, ReviewLock, ReqStates, Subs, Pairs, QuestOf, PairOf
<1>7. ASSUME NEW r \in Requests, ReviewCount(r)
      PROVE  TypeOK'
  BY <1>7, ReqMoves DEF TypeOK, ReviewCount, ReqStates, ReviewStates
<1>8. ASSUME NEW r \in Requests, ReviewWrite(r)
      PROVE  TypeOK'
  <2> DEFINE s == req[r].sub
             amount == req[r].seen.reward
  <2>1. s \in Subs /\ amount \in 1..MaxReward
    BY <1>8, ReqShape DEF ReviewWrite, ReviewStates, QuestRows
  <2>2. /\ ledger' \in [Subs -> Seq(LedgerRows)]
        /\ balance' \in [Students -> Int]
    BY <1>8, <2>1, GrantType, RevokeType DEF ReviewWrite, TypeOK
  <2>3. status' \in [Subs -> Statuses] /\ granted' \in [Subs -> 0..MaxReward]
    <3>1. /\ status \in [Subs -> Statuses] /\ granted \in [Subs -> 0..MaxReward]
          /\ amount \in 0..MaxReward /\ 0 \in 0..MaxReward
          /\ {"approved", "rejected", "revoked"} \subseteq Statuses
      BY <2>1 DEF TypeOK, Statuses
    <3>2. \E st \in {"approved", "rejected", "revoked"}, g \in {0, amount} :
             /\ status' = [status EXCEPT ![s] = st]
             /\ granted' = [granted EXCEPT ![s] = g]
      BY <1>8 DEF ReviewWrite
    <3>3. PICK st \in {"approved", "rejected", "revoked"}, g \in {0, amount} :
             /\ status' = [status EXCEPT ![s] = st]
             /\ granted' = [granted EXCEPT ![s] = g]
      BY <3>2
    <3>4. st \in Statuses /\ g \in 0..MaxReward
      BY <3>1
    <3>5. status' \in [Subs -> Statuses]
      BY <3>1, <3>3, <3>4
    <3>6. granted' \in [Subs -> 0..MaxReward]
      BY <3>1, <3>3, <3>4
    <3>7. QED BY <3>5, <3>6
  <2>4. req' \in [Requests -> ReqStates]
    BY <1>8 DEF TypeOK, ReviewWrite, ReqStates
  <2>5. UNCHANGED <<created, quest, highest>>
    BY <1>8 DEF ReviewWrite
  <2>6. QED BY <2>2, <2>3, <2>4, <2>5 DEF TypeOK
<1>9. CASE UNCHANGED vars
  BY <1>9 DEF TypeOK, vars
<1>10. ASSUME NEW r \in Requests, Abort(r)
       PROVE  TypeOK'
  BY <1>10 DEF Abort, TypeOK, ReqStates
<1>11. QED
  BY <1>1, <1>2, <1>3, <1>4, <1>5, <1>6, <1>7, <1>8, <1>9, <1>10
  DEF Next, AdminNext, SubmitNext, ReviewNext

\* Type correctness: the rows, the ledger and the workers keep their shape.
THEOREM TypeCorrect == Spec => []TypeOK
BY InitType, NextType, PTL DEF Spec

-----------------------------------------------------------------------------
(* Sets of slots and their sizes *)

LEMMA SlotsFinite ==
    ASSUME NEW p, NEW st
    PROVE  /\ IsFiniteSet(SlotsWith(p, st))
           /\ Cardinality(SlotsWith(p, st)) \in Nat
BY QuestsAssumption, FS_Subset, FS_CardinalityType DEF SlotsWith

\* What writing one submission's status does to the sets of slots
LEMMA SlotsUpdate ==
    ASSUME status \in [Subs -> Statuses], NEW s \in Subs, NEW v \in Statuses,
           status' = [status EXCEPT ![s] = v],
           NEW p \in Pairs, NEW st \in Statuses
    PROVE  SlotsWith(p, st)' =
             IF p # PairOf(s) THEN SlotsWith(p, st)
             ELSE IF st = v THEN SlotsWith(p, st) \cup {s[2]}
             ELSE SlotsWith(p, st) \ {s[2]}
<1>1. s = <<PairOf(s), s[2]>> /\ s[2] \in Slots /\ PairOf(s) \in Pairs
  BY DEF Subs, PairOf
<1>2. \A n \in Slots : <<p, n>> \in Subs /\ (<<p, n>> = s <=> p = PairOf(s) /\ n = s[2])
  BY <1>1 DEF Subs
<1>3. \A n \in Slots : status'[<<p, n>>] = IF p = PairOf(s) /\ n = s[2] THEN v ELSE status[<<p, n>>]
  BY <1>2
<1>4. QED BY <1>1, <1>3 DEF SlotsWith

LEMMA OneElement ==
    ASSUME NEW S, IsFiniteSet(S), NEW x
    PROVE  /\ Cardinality(S \cup {x}) <= Cardinality(S) + 1
           /\ Cardinality(S \ {x}) <= Cardinality(S)
<1>1. Cardinality(S) \in Nat
  BY FS_CardinalityType
<1>2. CASE x \in S
  <2>1. Cardinality(S \cup {x}) = Cardinality(S)
    <3>1. S \cup {x} = S
      BY <1>2
    <3>2. QED BY <3>1
  <2>2. Cardinality(S \ {x}) = Cardinality(S) - 1
    BY <1>2, FS_RemoveElement
  <2>3. QED BY <1>1, <2>1, <2>2
<1>3. CASE x \notin S
  <2>1. Cardinality(S \ {x}) = Cardinality(S)
    <3>1. S \ {x} = S
      BY <1>3
    <3>2. QED BY <3>1
  <2>2. Cardinality(S \cup {x}) = Cardinality(S) + 1
    BY <1>3, FS_AddElement
  <2>3. QED BY <1>1, <2>1, <2>2
<1>4. QED BY <1>2, <1>3

\* Approved submissions of a pair are at most one more after an approval and
\* no more after any other write.
LEMMA ApprovedUpdate ==
    ASSUME status \in [Subs -> Statuses], NEW s \in Subs, NEW v \in Statuses,
           status' = [status EXCEPT ![s] = v], NEW p \in Pairs
    PROVE  /\ Cardinality(SlotsWith(p, "approved"))' <=
                Cardinality(SlotsWith(p, "approved")) + 1
           /\ v # "approved" \/ p # PairOf(s) =>
                Cardinality(SlotsWith(p, "approved"))' <= Cardinality(SlotsWith(p, "approved"))
<1> DEFINE A == SlotsWith(p, "approved")
           B == SlotsWith(p, "approved")'
<1>1. IsFiniteSet(A) /\ Cardinality(A) \in Nat
  BY SlotsFinite
<1>2. "approved" \in Statuses
  BY DEF Statuses
<1>3. B = IF p # PairOf(s) THEN A
           ELSE IF "approved" = v THEN A \cup {s[2]} ELSE A \ {s[2]}
  BY <1>2, SlotsUpdate
<1> HIDE DEF A, B
<1>4. /\ Cardinality(A \cup {s[2]}) <= Cardinality(A) + 1
      /\ Cardinality(A \ {s[2]}) <= Cardinality(A)
  BY <1>1, OneElement
<1>5. /\ Cardinality(B) <= Cardinality(A) + 1
      /\ v # "approved" \/ p # PairOf(s) => Cardinality(B) <= Cardinality(A)
  <2>1. CASE p # PairOf(s)
    <3>1. B = A
      BY <1>3, <2>1
    <3>2. QED BY <1>1, <3>1
  <2>2. CASE p = PairOf(s) /\ v = "approved"
    <3>1. B = A \cup {s[2]}
      BY <1>3, <2>2
    <3>2. Cardinality(B) = Cardinality(A \cup {s[2]})
      BY <3>1
    <3>3. QED BY <1>4, <2>2, <3>2
  <2>3. CASE p = PairOf(s) /\ v # "approved"
    <3>1. B = A \ {s[2]}
      BY <1>3, <2>3
    <3>2. Cardinality(B) = Cardinality(A \ {s[2]})
      BY <3>1
    <3>3. Cardinality(B) <= Cardinality(A)
      BY <1>4, <3>2
    <3>4. Cardinality(B) <= Cardinality(A) + 1
      BY <1>1, <1>3, <1>4, <3>2, FS_RemoveElement
    <3>5. QED BY <3>3, <3>4
  <2>4. QED BY <2>1, <2>2, <2>3
<1>6. QED BY <1>5 DEF A, B

-----------------------------------------------------------------------------
(* Initially *)

LEMMA InitIInv == Init => IInv
<1> SUFFICES ASSUME Init PROVE IInv
  OBVIOUS
<1>1. TypeOK
  BY InitType
<1>2. \A p \in Pairs, n \in Slots : status[<<p, n>>] = "none"
  BY DEF Init, Subs
<1>3. OnePending
  BY <1>2 DEF OnePending
<1>4. WithinLimit
  <2> SUFFICES ASSUME NEW p \in Pairs
               PROVE  Cardinality(SlotsWith(p, "approved")) <= highest[QuestOf(p)]
    BY DEF WithinLimit
  <2>1. SlotsWith(p, "approved") = {}
    BY <1>2 DEF SlotsWith
  <2>2. highest[QuestOf(p)] = 0
    BY DEF Init, Pairs, QuestOf
  <2>3. QED BY <2>1, <2>2, FS_EmptySet
<1>5. LedgerFollowsStatus
  BY DEF Init, LedgerFollowsStatus
<1>6. LocksExclude
  BY DEF Init, LocksExclude, Submitting, Reviewing, Idle
<1>7. RowsHaveQuests
  BY DEF Init, RowsHaveQuests
<1>8. RequestsRely
  BY DEF Init, RequestsRely, Idle
<1>9. QED BY <1>1, <1>3, <1>4, <1>5, <1>6, <1>7, <1>8 DEF IInv

-----------------------------------------------------------------------------
(* Steps that write no submission *)

\* With the rows unchanged and no limit lowered, what is said of rows stays.
LEMMA QuietRows ==
    ASSUME IInv, TypeOK', UNCHANGED <<status, granted, ledger>>,
           \A q \in QuestIds : highest[q] <= highest'[q]
    PROVE  OnePending' /\ WithinLimit' /\ LedgerFollowsStatus'
<1>1. OnePending'
  BY DEF IInv, OnePending
<1>2. LedgerFollowsStatus'
  BY DEF IInv, LedgerFollowsStatus
<1>3. WithinLimit'
  <2> SUFFICES ASSUME NEW p \in Pairs
               PROVE  Cardinality(SlotsWith(p, "approved")') <= highest'[QuestOf(p)]
    BY DEF WithinLimit
  <2>1. SlotsWith(p, "approved")' = SlotsWith(p, "approved")
    BY DEF SlotsWith
  <2>2. Cardinality(SlotsWith(p, "approved")') = Cardinality(SlotsWith(p, "approved"))
    BY <2>1
  <2>3. Cardinality(SlotsWith(p, "approved")) <= highest[QuestOf(p)]
    BY DEF IInv, WithinLimit
  <2>4. QuestOf(p) \in QuestIds
    BY DEF Pairs, QuestOf
  <2>5. /\ Cardinality(SlotsWith(p, "approved")) \in Nat
        /\ highest[QuestOf(p)] \in Int /\ highest'[QuestOf(p)] \in Int
        /\ highest[QuestOf(p)] <= highest'[QuestOf(p)]
    BY <2>4, SlotsFinite, QuestsAssumption DEF IInv, TypeOK
  <2>6. QED BY <2>2, <2>3, <2>5
<1>4. QED BY <1>1, <1>2, <1>3

\* The admin's edits of quests leave what requests rely on alone.
LEMMA AdminKeepsIInv ==
    ASSUME IInv, TypeOK', NEW q \in QuestIds, NEW row \in QuestRows,
           CreateQuest(q, row) \/ UpdateQuest(q, row)
    PROVE  IInv'
<1>1. UNCHANGED <<status, granted, ledger, balance, req>>
  BY DEF CreateQuest, UpdateQuest
<1>2. row.max \in 1..MaxLimit
  BY DEF QuestRows
<1>3. \A x \in QuestIds : highest[x] \in Nat /\ highest[x] <= highest'[x]
  <2>1. highest \in [QuestIds -> Nat] /\ row.max \in Nat
    BY <1>2, QuestsAssumption DEF IInv, TypeOK
  <2>2. CASE CreateQuest(q, row)
    <3>1. highest[q] = 0
      BY <2>2 DEF CreateQuest, IInv, RowsHaveQuests
    <3>2. QED BY <2>1, <2>2, <3>1 DEF CreateQuest
  <2>3. CASE UpdateQuest(q, row)
    BY <2>1, <2>3 DEF UpdateQuest
  <2>4. QED BY <2>2, <2>3
<1>4. OnePending' /\ WithinLimit' /\ LedgerFollowsStatus'
  BY <1>1, <1>3, QuietRows
<1>5. LocksExclude'
  BY <1>1 DEF IInv, LocksExclude, Submitting, Reviewing
<1>6. RowsHaveQuests'
  <2>1. \A s \in Subs : status'[s] # "none" => QuestOf(PairOf(s)) \in created'
    BY <1>1 DEF CreateQuest, UpdateQuest, IInv, RowsHaveQuests
  <2>2. \A x \in created' : quest'[x].max <= highest'[x]
    BY <1>2, <1>3, QuestsAssumption
    DEF CreateQuest, UpdateQuest, IInv, RowsHaveQuests, TypeOK, QuestRows
  <2>3. \A x \in QuestIds \ created' : highest'[x] = 0
    BY DEF CreateQuest, UpdateQuest, IInv, RowsHaveQuests, TypeOK
  <2>4. QED BY <2>1, <2>2, <2>3 DEF RowsHaveQuests
<1>7. RequestsRely'
  <2>2. ASSUME NEW r \in Requests, req'[r].at \in {"submitRead", "submitCounted"}
        PROVE  SubmitRelies(r)'
    <3>1. req[r] \in SubmitStates /\ SubmitRelies(r) /\ req'[r] = req[r]
      BY <1>1, <2>2, ReqShape DEF IInv, RequestsRely
    <3>2. req[r].pair \in Pairs /\ QuestOf(req[r].pair) \in QuestIds /\ req[r].seen.max \in Nat
      BY <3>1, QuestsAssumption DEF SubmitStates, QuestRows, Pairs, QuestOf
    <3>3. created \subseteq created'
      BY DEF CreateQuest, UpdateQuest
    <3>4. req[r].seen.max <= highest'[QuestOf(req[r].pair)]
      BY <1>3, <3>1, <3>2, QuestsAssumption DEF SubmitRelies, TypeOK
    <3>5. RoomToSubmit(req[r].pair, req[r].seen.max)' <=> RoomToSubmit(req[r].pair, req[r].seen.max)
      BY <1>1 DEF RoomToSubmit, SlotsWith
    <3>6. QED BY <3>1, <3>3, <3>4, <3>5 DEF SubmitRelies
  <2>3. ASSUME NEW r \in Requests, req'[r].at \in {"reviewLocked", "reviewCounted"}
        PROVE  ReviewRelies(r)'
    <3>1. req[r] \in ReviewStates /\ ReviewRelies(r) /\ req'[r] = req[r]
      BY <1>1, <2>3, ReqShape DEF IInv, RequestsRely
    <3>2. QuestOf(PairOf(req[r].sub)) \in QuestIds /\ req[r].seen.max \in Nat
      BY <3>1, QuestsAssumption DEF ReviewStates, QuestRows, Subs, Pairs, QuestOf, PairOf
    <3>3. req[r].seen.max <= highest'[QuestOf(PairOf(req[r].sub))]
      BY <1>3, <3>1, <3>2, QuestsAssumption DEF ReviewRelies, TypeOK
    <3>4. RoomToApprove(PairOf(req[r].sub), req[r].seen.max)'
            <=> RoomToApprove(PairOf(req[r].sub), req[r].seen.max)
      BY <1>1 DEF RoomToApprove, SlotsWith
    <3>5. QED BY <1>1, <3>1, <3>3, <3>4 DEF ReviewRelies
  <2>4. QED BY <2>2, <2>3 DEF RequestsRely
<1>8. QED BY <1>4, <1>5, <1>6, <1>7 DEF IInv

\* A request that only reads: the others see no difference, so the invariant
\* needs what this request relies on and holds next.
LEMMA ReadStep ==
    ASSUME IInv, TypeOK', NEW r \in Requests,
           UNCHANGED <<created, quest, status, granted, ledger, balance, highest>>,
           \A x \in Requests \ {r} : req'[x] = req[x],
           req'[r].at \in {"submitRead", "submitCounted"} => SubmitRelies(r)',
           req'[r].at \in {"reviewLocked", "reviewCounted"} => ReviewRelies(r)',
           \A p \in Pairs, x \in Requests \ {r} : Submitting(r, p)' => ~Submitting(x, p),
           \A s \in Subs, x \in Requests \ {r} : Reviewing(r, s)' => ~Reviewing(x, s)
    PROVE  IInv'
<1>1. \A q \in QuestIds : highest[q] <= highest'[q]
  BY QuestsAssumption DEF IInv, TypeOK
<1>2. OnePending' /\ WithinLimit' /\ LedgerFollowsStatus'
  BY <1>1, QuietRows
<1>3. RowsHaveQuests'
  BY DEF IInv, RowsHaveQuests
<1>4. LocksExclude'
  <2>1. ASSUME NEW r1 \in Requests, NEW r2 \in Requests, NEW p \in Pairs,
               Submitting(r1, p)', Submitting(r2, p)'
        PROVE  r1 = r2
    BY <2>1 DEF IInv, LocksExclude, Submitting
  <2>2. ASSUME NEW r1 \in Requests, NEW r2 \in Requests, NEW s \in Subs,
               Reviewing(r1, s)', Reviewing(r2, s)'
        PROVE  r1 = r2
    BY <2>2 DEF IInv, LocksExclude, Reviewing
  <2>3. QED BY <2>1, <2>2 DEF LocksExclude
<1>5. RequestsRely'
  <2>1. ASSUME NEW x \in Requests, x # r
        PROVE  /\ req'[x].at \in {"submitRead", "submitCounted"} => SubmitRelies(x)'
               /\ req'[x].at \in {"reviewLocked", "reviewCounted"} => ReviewRelies(x)'
    <3>1. req'[x] = req[x]
      BY <2>1
    <3>2. /\ req[x].at \in {"submitRead", "submitCounted"} => SubmitRelies(x)
          /\ req[x].at \in {"reviewLocked", "reviewCounted"} => ReviewRelies(x)
      BY DEF IInv, RequestsRely
    <3>3. SubmitRelies(x)' <=> SubmitRelies(x)
      BY <3>1 DEF SubmitRelies, RoomToSubmit, SlotsWith
    <3>4. ReviewRelies(x)' <=> ReviewRelies(x)
      BY <3>1 DEF ReviewRelies, RoomToApprove, SlotsWith
    <3>5. QED BY <3>1, <3>2, <3>3, <3>4
  <2>2. QED BY <2>1 DEF RequestsRely
<1>6. QED BY <1>2, <1>3, <1>4, <1>5 DEF IInv

LEMMA SubmitReadKeepsIInv ==
    ASSUME IInv, TypeOK', NEW r \in Requests, NEW p \in Pairs, SubmitRead(r, p)
    PROVE  IInv'
<1>1. /\ req'[r] = [at |-> "submitRead", pair |-> p, seen |-> quest[QuestOf(p)]]
      /\ \A x \in Requests \ {r} : req'[x] = req[x]
      /\ UNCHANGED <<created, quest, status, granted, ledger, balance, highest>>
      /\ QuestOf(p) \in created
  BY DEF SubmitRead, IInv, TypeOK
<1>2. quest[QuestOf(p)].max <= highest[QuestOf(p)]
  BY <1>1 DEF IInv, RowsHaveQuests
<1>3. SubmitRelies(r)'
  BY <1>1, <1>2 DEF SubmitRelies
<1>4. \A q \in Pairs : ~Submitting(r, q)'
  BY <1>1 DEF Submitting
<1>5. \A s \in Subs : ~Reviewing(r, s)'
  BY <1>1 DEF Reviewing
<1>6. req'[r].at \notin {"reviewLocked", "reviewCounted"}
  BY <1>1
<1>7. QED BY <1>1, <1>3, <1>4, <1>5, <1>6, ReadStep

LEMMA SubmitCountKeepsIInv ==
    ASSUME IInv, TypeOK', NEW r \in Requests, SubmitCount(r)
    PROVE  IInv'
<1> DEFINE p == req[r].pair
<1>1. /\ req[r] \in SubmitStates /\ SubmitRelies(r) /\ req[r].at = "submitRead"
  BY ReqShape DEF SubmitCount, IInv, RequestsRely
<1>2. /\ \A x \in Requests \ {r} : req'[x] = req[x]
      /\ UNCHANGED <<created, quest, status, granted, ledger, balance, highest>>
      /\ AdvisoryFree(p)
  BY DEF SubmitCount, IInv, TypeOK
<1>3. CASE RoomToSubmit(p, req[r].seen.max)
  <2>1. req'[r] = [req[r] EXCEPT !.at = "submitCounted"]
    BY <1>3 DEF SubmitCount, IInv, TypeOK
  <2>2. req'[r].at = "submitCounted" /\ req'[r].pair = p /\ req'[r].seen = req[r].seen
    BY <1>1, <2>1 DEF SubmitStates
  <2>3. RoomToSubmit(p, req[r].seen.max)'
    BY <1>2, <1>3, <2>2 DEF RoomToSubmit, SlotsWith
  <2>4. SubmitRelies(r)'
    BY <1>1, <1>2, <1>3, <2>2 DEF SubmitRelies, RoomToSubmit, SlotsWith
  <2>5. \A q \in Pairs, x \in Requests \ {r} : Submitting(r, q)' => ~Submitting(x, q)
    BY <1>2, <2>2 DEF Submitting, AdvisoryFree
  <2>6. \A s \in Subs : ~Reviewing(r, s)'
    BY <2>2 DEF Reviewing
  <2>7. req'[r].at \notin {"reviewLocked", "reviewCounted"}
    BY <2>2
  <2>8. QED BY <1>2, <2>4, <2>5, <2>6, <2>7, ReadStep
<1>4. CASE ~RoomToSubmit(p, req[r].seen.max)
  <2>1. req'[r] = Idle
    BY <1>4 DEF SubmitCount, IInv, TypeOK
  <2>2. req'[r].at = "idle"
    BY <2>1 DEF Idle
  <2>3. QED BY <1>2, <2>2, ReadStep DEF Submitting, Reviewing
<1>5. QED BY <1>3, <1>4

LEMMA ReviewLockKeepsIInv ==
    ASSUME IInv, TypeOK', NEW r \in Requests, NEW s \in Subs, NEW d \in Decisions,
           ReviewLock(r, s, d)
    PROVE  IInv'
<1> DEFINE q == QuestOf(PairOf(s))
<1>1. /\ req'[r] = [at |-> "reviewLocked", sub |-> s, seen |-> quest[q], decision |-> d]
      /\ \A x \in Requests \ {r} : req'[x] = req[x]
      /\ UNCHANGED <<created, quest, status, granted, ledger, balance, highest>>
      /\ DecisionFits(d, status[s]) /\ RowFree(s)
  BY DEF ReviewLock, IInv, TypeOK
<1>2. status[s] # "none"
  BY <1>1 DEF DecisionFits, Decisions
<1>3. quest[q].max <= highest[q]
  BY <1>2 DEF IInv, RowsHaveQuests
<1>4. ReviewRelies(r)'
  BY <1>1, <1>3 DEF ReviewRelies
<1>5. \A t \in Subs, x \in Requests \ {r} : Reviewing(r, t)' => ~Reviewing(x, t)
  BY <1>1 DEF Reviewing, RowFree
<1>6. \A p \in Pairs : ~Submitting(r, p)'
  BY <1>1 DEF Submitting
<1>7. req'[r].at \notin {"submitRead", "submitCounted"}
  BY <1>1
<1>8. QED BY <1>1, <1>4, <1>5, <1>6, <1>7, ReadStep

LEMMA ReviewCountKeepsIInv ==
    ASSUME IInv, TypeOK', NEW r \in Requests, ReviewCount(r)
    PROVE  IInv'
<1> DEFINE s == req[r].sub
<1>1. /\ req[r] \in ReviewStates /\ ReviewRelies(r)
      /\ req[r].at = "reviewLocked" /\ req[r].decision = "approve"
  BY ReqShape DEF ReviewCount, IInv, RequestsRely
<1>2. /\ \A x \in Requests \ {r} : req'[x] = req[x]
      /\ UNCHANGED <<created, quest, status, granted, ledger, balance, highest>>
  BY DEF ReviewCount, IInv, TypeOK
<1>3. CASE RoomToApprove(PairOf(s), req[r].seen.max)
  <2>1. req'[r] = [req[r] EXCEPT !.at = "reviewCounted"]
    BY <1>3 DEF ReviewCount, IInv, TypeOK
  <2>2. /\ req'[r].at = "reviewCounted" /\ req'[r].sub = s
        /\ req'[r].seen = req[r].seen /\ req'[r].decision = "approve"
    BY <1>1, <2>1 DEF ReviewStates
  <2>3. ReviewRelies(r)'
    BY <1>1, <1>2, <1>3, <2>2 DEF ReviewRelies, RoomToApprove, SlotsWith
  <2>4. \A t \in Subs, x \in Requests \ {r} : Reviewing(r, t)' => ~Reviewing(x, t)
    BY <1>1, <2>2 DEF Reviewing, IInv, LocksExclude
  <2>5. \A p \in Pairs : ~Submitting(r, p)'
    BY <2>2 DEF Submitting
  <2>6. req'[r].at \notin {"submitRead", "submitCounted"}
    BY <2>2
  <2>7. QED BY <1>2, <2>3, <2>4, <2>5, <2>6, ReadStep
<1>4. CASE ~RoomToApprove(PairOf(s), req[r].seen.max)
  <2>1. req'[r] = Idle
    BY <1>4 DEF ReviewCount, IInv, TypeOK
  <2>2. req'[r].at = "idle"
    BY <2>1 DEF Idle
  <2>3. QED BY <1>2, <2>2, ReadStep DEF Submitting, Reviewing
<1>5. QED BY <1>3, <1>4

-----------------------------------------------------------------------------
(* Steps that write a submission *)

\* What the other requests rely on survives the write of submission s, given
\* that none of them holds its row and that none that counted the approved
\* submissions of its pair is left behind by a new one.
LEMMA WriteStep ==
    ASSUME IInv, TypeOK', NEW r \in Requests, NEW s \in Subs, NEW v \in Statuses,
           status' = [status EXCEPT ![s] = v],
           UNCHANGED <<created, quest, highest>>,
           req' = [req EXCEPT ![r] = Idle],
           \A x \in Requests \ {r} : ~Reviewing(x, s),
           v \in {"pending", "approved"} =>
               \A x \in Requests \ {r} : ~Submitting(x, PairOf(s)),
           v = "approved" =>
               \A x \in Requests \ {r} :
                   req[x].at = "reviewCounted" => PairOf(req[x].sub) # PairOf(s)
    PROVE  LocksExclude' /\ RequestsRely'
<1>1. /\ req'[r].at = "idle"
      /\ \A x \in Requests \ {r} : req'[x] = req[x]
  BY DEF IInv, TypeOK, Idle
<1>2. LocksExclude'
  <2>1. ASSUME NEW r1 \in Requests, NEW r2 \in Requests, NEW p \in Pairs,
               Submitting(r1, p)', Submitting(r2, p)'
        PROVE  r1 = r2
    BY <1>1, <2>1 DEF IInv, LocksExclude, Submitting
  <2>2. ASSUME NEW r1 \in Requests, NEW r2 \in Requests, NEW t \in Subs,
               Reviewing(r1, t)', Reviewing(r2, t)'
        PROVE  r1 = r2
    BY <1>1, <2>2 DEF IInv, LocksExclude, Reviewing
  <2>3. QED BY <2>1, <2>2 DEF LocksExclude
<1>3. status \in [Subs -> Statuses] /\ {"pending", "approved"} \subseteq Statuses
  BY DEF IInv, TypeOK, Statuses
<1>4. ASSUME NEW x \in Requests, req'[x].at \in {"submitRead", "submitCounted"}
      PROVE  SubmitRelies(x)'
  <2>1. x # r /\ req'[x] = req[x]
    BY <1>1, <1>4
  <2>2. req[x] \in SubmitStates /\ SubmitRelies(x)
    BY <1>4, <2>1, ReqShape DEF IInv, RequestsRely
  <2>3. PICK p \in Pairs, max \in Nat : p = req[x].pair /\ max = req[x].seen.max
    BY <2>2, QuestsAssumption DEF SubmitStates, QuestRows
  <2>4. CASE req[x].at = "submitRead"
    BY <2>1, <2>2, <2>4 DEF SubmitRelies
  <2>5. CASE req[x].at = "submitCounted"
    <3>1. RoomToSubmit(p, max) /\ Submitting(x, p)
      BY <2>2, <2>3, <2>5 DEF SubmitRelies, Submitting
    <3>2. SlotsWith(p, "pending")' = {}
      <4>1. SlotsWith(p, "pending") = {}
        BY <3>1 DEF RoomToSubmit
      <4>2. p # PairOf(s) \/ v # "pending"
        BY <2>1, <3>1
      <4>3. SlotsWith(p, "pending")' = SlotsWith(p, "pending")
              \/ SlotsWith(p, "pending")' = SlotsWith(p, "pending") \ {s[2]}
        <5>1. "pending" \in Statuses
          BY <1>3
        <5>2. QED BY <1>3, <4>2, <5>1, SlotsUpdate
      <4>4. QED BY <4>1, <4>3
    <3>3. Cardinality(SlotsWith(p, "approved"))' <= Cardinality(SlotsWith(p, "approved"))
      <4>1. v # "approved" \/ p # PairOf(s)
        BY <2>1, <3>1
      <4>2. QED BY <1>3, <2>3, <4>1, ApprovedUpdate
    <3>4. /\ Cardinality(SlotsWith(p, "approved")) \in Nat
          /\ Cardinality(SlotsWith(p, "approved"))' \in Nat
      <4>1. IsFiniteSet(SlotsWith(p, "approved")')
        BY QuestsAssumption, FS_Subset DEF SlotsWith
      <4>2. QED BY <4>1, SlotsFinite, FS_CardinalityType
    <3>5. RoomToSubmit(p, max)'
      <4>1. Cardinality(SlotsWith(p, "approved")) < max
        BY <3>1 DEF RoomToSubmit
      <4>2. Cardinality(SlotsWith(p, "approved"))' < max
        BY <2>3, <3>3, <3>4, <4>1
      <4>3. QED BY <2>1, <3>2, <4>2 DEF RoomToSubmit
    <3>6. QED BY <2>1, <2>2, <2>3, <3>5 DEF SubmitRelies, RoomToSubmit, SlotsWith
  <2>6. QED BY <1>4, <2>1, <2>4, <2>5
<1>5. ASSUME NEW x \in Requests, req'[x].at \in {"reviewLocked", "reviewCounted"}
      PROVE  ReviewRelies(x)'
  <2>1. x # r /\ req'[x] = req[x]
    BY <1>1, <1>5
  <2>2. req[x] \in ReviewStates /\ ReviewRelies(x)
    BY <1>5, <2>1, ReqShape DEF IInv, RequestsRely
  <2>3. PICK t \in Subs, p \in Pairs, max \in Nat :
           t = req[x].sub /\ p = PairOf(t) /\ max = req[x].seen.max
    BY <2>2, QuestsAssumption DEF ReviewStates, QuestRows, Subs, PairOf
  <2>4. t # s /\ status'[t] = status[t]
    <3>1. Reviewing(x, t)
      BY <1>5, <2>1, <2>3 DEF Reviewing
    <3>2. t # s
      BY <2>1, <3>1
    <3>3. QED BY <1>3, <2>3, <3>2
  <2>5. CASE req[x].at = "reviewLocked"
    BY <2>1, <2>2, <2>3, <2>4, <2>5 DEF ReviewRelies
  <2>6. CASE req[x].at = "reviewCounted"
    <3>1. Cardinality(SlotsWith(p, "approved")) < max
      BY <2>2, <2>3, <2>6 DEF ReviewRelies, RoomToApprove
    <3>2. v # "approved" \/ p # PairOf(s)
      BY <2>1, <2>3, <2>6
    <3>3. Cardinality(SlotsWith(p, "approved"))' <= Cardinality(SlotsWith(p, "approved"))
      BY <1>3, <2>3, <3>2, ApprovedUpdate
    <3>4. /\ Cardinality(SlotsWith(p, "approved")) \in Nat
          /\ Cardinality(SlotsWith(p, "approved"))' \in Nat
      <4>1. IsFiniteSet(SlotsWith(p, "approved")')
        BY QuestsAssumption, FS_Subset DEF SlotsWith
      <4>2. QED BY <4>1, SlotsFinite, FS_CardinalityType
    <3>5. Cardinality(SlotsWith(p, "approved"))' < max
      BY <2>3, <3>1, <3>3, <3>4
    <3>6. RoomToApprove(p, max)'
      BY <2>1, <3>5 DEF RoomToApprove
    <3>7. QED BY <2>1, <2>2, <2>3, <2>4, <3>6 DEF ReviewRelies, RoomToApprove, SlotsWith
  <2>7. QED BY <1>5, <2>1, <2>5, <2>6
<1>6. QED BY <1>2, <1>4, <1>5 DEF RequestsRely

\* A limit that leaves room for one more is not passed by one more.
LEMMA LimitStep ==
    ASSUME IInv, TypeOK', NEW s \in Subs, NEW v \in Statuses,
           status' = [status EXCEPT ![s] = v], UNCHANGED highest,
           v = "approved" =>
               Cardinality(SlotsWith(PairOf(s), "approved")) < highest[QuestOf(PairOf(s))]
    PROVE  WithinLimit'
<1> SUFFICES ASSUME NEW p \in Pairs
             PROVE  Cardinality(SlotsWith(p, "approved")') <= highest[QuestOf(p)]
  BY DEF WithinLimit
<1>1. status \in [Subs -> Statuses] /\ highest[QuestOf(p)] \in Nat
  BY QuestsAssumption DEF IInv, TypeOK, Pairs, QuestOf
<1>2. Cardinality(SlotsWith(p, "approved")) <= highest[QuestOf(p)]
  BY DEF IInv, WithinLimit
<1>3. /\ Cardinality(SlotsWith(p, "approved")) \in Nat
      /\ Cardinality(SlotsWith(p, "approved")') \in Nat
  <2>1. IsFiniteSet(SlotsWith(p, "approved")')
    BY QuestsAssumption, FS_Subset DEF SlotsWith
  <2>2. QED BY <2>1, SlotsFinite, FS_CardinalityType
<1>4. CASE v = "approved" /\ p = PairOf(s)
  <2>1. Cardinality(SlotsWith(p, "approved"))' <= Cardinality(SlotsWith(p, "approved")) + 1
    BY <1>1, ApprovedUpdate
  <2>2. Cardinality(SlotsWith(p, "approved")) < highest[QuestOf(p)]
    BY <1>4
  <2>3. QED BY <1>1, <1>3, <2>1, <2>2
<1>5. CASE v # "approved" \/ p # PairOf(s)
  <2>1. Cardinality(SlotsWith(p, "approved"))' <= Cardinality(SlotsWith(p, "approved"))
    BY <1>1, <1>5, ApprovedUpdate
  <2>2. QED BY <1>1, <1>2, <1>3, <2>1
<1>6. QED BY <1>4, <1>5

\* A row under review is pending or approved, pending where the review counted.
LEMMA UnderReview ==
    ASSUME IInv, NEW r \in Requests, NEW s \in Subs, Reviewing(r, s)
    PROVE  /\ status[s] \in {"pending", "approved"}
           /\ req[r].at = "reviewCounted" => status[s] = "pending"
<1>1. req[r] \in ReviewStates /\ ReviewRelies(r) /\ req[r].sub = s
  BY ReqShape DEF Reviewing, IInv, RequestsRely
<1>2. req[r].decision \in Decisions
  BY <1>1 DEF ReviewStates
<1>3. QED BY <1>1, <1>2 DEF ReviewRelies, DecisionFits, Decisions

LEMMA SubmitInsertKeepsIInv ==
    ASSUME IInv, TypeOK', NEW r \in Requests, NEW n \in Slots, SubmitInsert(r, n)
    PROVE  IInv'
<1>1. req[r] \in SubmitStates /\ SubmitRelies(r) /\ req[r].at = "submitCounted"
  BY ReqShape DEF SubmitInsert, IInv, RequestsRely
<1>2. PICK p \in Pairs, s \in Subs, amount \in 1..MaxReward, max \in Nat :
         /\ p = req[r].pair /\ s = <<p, n>> /\ amount = req[r].seen.reward
         /\ max = req[r].seen.max
  <2>1. req[r].pair \in Pairs /\ req[r].seen \in QuestRows
    BY <1>1 DEF SubmitStates
  <2>2. <<req[r].pair, n>> \in Subs
    BY <2>1 DEF Subs
  <2>3. req[r].seen.reward \in 1..MaxReward /\ req[r].seen.max \in Nat
    BY <2>1, QuestsAssumption DEF QuestRows
  <2>4. QED BY <2>1, <2>2, <2>3
<1>3. PairOf(s) = p /\ s[2] = n /\ status[s] = "none"
  BY <1>2 DEF PairOf, SubmitInsert
<1>4. /\ UNCHANGED <<created, quest, highest>>
      /\ req' = [req EXCEPT ![r] = Idle]
  BY DEF SubmitInsert
<1>5. PICK v \in {"pending", "approved"} :
         /\ status' = [status EXCEPT ![s] = v]
         /\ v = "approved" => granted' = [granted EXCEPT ![s] = amount] /\ Grant(s, amount)
         /\ v = "pending" => UNCHANGED <<granted, ledger, balance>>
  BY <1>2 DEF SubmitInsert
<1>6. /\ SlotsWith(p, "pending") = {}
      /\ Cardinality(SlotsWith(p, "approved")) < max
      /\ max <= highest[QuestOf(p)] /\ QuestOf(p) \in created
  BY <1>1, <1>2 DEF SubmitRelies, RoomToSubmit
<1>7. \A x \in Requests : ~Reviewing(x, s)
  BY <1>3, UnderReview
<1>8. LocksExclude' /\ RequestsRely'
  <2>1. \A x \in Requests \ {r} : ~Submitting(x, p)
    BY <1>1, <1>2 DEF IInv, LocksExclude, Submitting
  <2>2. ASSUME NEW x \in Requests, req[x].at = "reviewCounted", PairOf(req[x].sub) = p
        PROVE  FALSE
    <3>1. req[x].sub \in Subs
      BY <2>2, ReqShape DEF ReviewStates, IInv
    <3>2. PICK t \in Subs : t = req[x].sub /\ PairOf(t) = p /\ Reviewing(x, t)
      BY <2>2, <3>1 DEF Reviewing
    <3>3. status[t] = "pending"
      BY <2>2, <3>2, UnderReview
    <3>4. t[2] \in SlotsWith(p, "pending")
      BY <3>2, <3>3 DEF Subs, PairOf, SlotsWith
    <3>5. QED BY <1>6, <3>4
  <2>3. v \in Statuses
    BY DEF Statuses
  <2>4. QED BY <1>3, <1>4, <1>5, <1>7, <2>1, <2>2, <2>3, WriteStep
<1>9. WithinLimit'
  <2>1. /\ Cardinality(SlotsWith(p, "approved")) \in Nat
        /\ highest[QuestOf(p)] \in Nat
    BY SlotsFinite, QuestsAssumption DEF IInv, TypeOK, Pairs, QuestOf
  <2>2. Cardinality(SlotsWith(p, "approved")) < highest[QuestOf(p)]
    BY <1>6, <2>1
  <2>3. v \in Statuses
    BY DEF Statuses
  <2>4. QED BY <1>3, <1>4, <1>5, <2>2, <2>3, LimitStep
<1>10. OnePending'
  <2> SUFFICES ASSUME NEW q \in Pairs, NEW m1 \in Slots, NEW m2 \in Slots,
                      status'[<<q, m1>>] = "pending", status'[<<q, m2>>] = "pending"
               PROVE  m1 = m2
    BY DEF OnePending
  <2>1. status \in [Subs -> Statuses] /\ <<q, m1>> \in Subs /\ <<q, m2>> \in Subs
    BY DEF IInv, TypeOK, Subs
  <2>2. CASE q = p
    <3>1. \A m \in Slots : status[<<p, m>>] # "pending"
      BY <1>6 DEF SlotsWith
    <3>2. m1 = n /\ m2 = n
      BY <1>2, <1>5, <2>1, <2>2, <3>1
    <3>3. QED BY <3>2
  <2>3. CASE q # p
    <3>1. status[<<q, m1>>] = "pending" /\ status[<<q, m2>>] = "pending"
      BY <1>2, <1>5, <2>1, <2>3
    <3>2. QED BY <3>1 DEF IInv, OnePending
  <2>4. QED BY <2>2, <2>3
<1>11. RowsHaveQuests'
  <2>1. ASSUME NEW t \in Subs, status'[t] # "none"
        PROVE  QuestOf(PairOf(t)) \in created
    <3>1. CASE t = s
      BY <1>3, <1>6, <3>1
    <3>2. CASE t # s
      BY <1>5, <2>1, <3>2 DEF IInv, TypeOK, RowsHaveQuests
    <3>3. QED BY <3>1, <3>2
  <2>2. QED BY <1>4, <2>1 DEF IInv, RowsHaveQuests
<1>12. LedgerFollowsStatus'
  <2>1. ledger[s] = <<>>
    BY <1>3 DEF IInv, LedgerFollowsStatus
  <2>2. /\ status \in [Subs -> Statuses] /\ ledger \in [Subs -> Seq(LedgerRows)]
        /\ granted \in [Subs -> 0..MaxReward]
    BY DEF IInv, TypeOK
  <2>3. ASSUME NEW t \in Subs, t # s
        PROVE  status'[t] = status[t] /\ granted'[t] = granted[t] /\ ledger'[t] = ledger[t]
    BY <1>5, <2>2, <2>3 DEF Grant
  <2>4. CASE v = "approved"
    <3>1. ledger'[s] = Append(<<>>, [type |-> "quest", amount |-> amount])
      BY <1>5, <2>1, <2>2, <2>4 DEF Grant
    <3>2. ledger'[s] = <<[type |-> "quest", amount |-> amount]>>
      BY <3>1
    <3>3. status'[s] = "approved" /\ granted'[s] = amount /\ amount > 0
      BY <1>5, <2>2, <2>4, QuestsAssumption
    <3>4. QED BY <2>3, <3>2, <3>3 DEF IInv, LedgerFollowsStatus
  <2>5. CASE v = "pending"
    <3>1. status'[s] = "pending" /\ ledger'[s] = <<>>
      BY <1>5, <2>1, <2>2, <2>5
    <3>2. QED BY <2>3, <3>1 DEF IInv, LedgerFollowsStatus
  <2>6. QED BY <2>4, <2>5
<1>13. QED BY <1>8, <1>9, <1>10, <1>11, <1>12 DEF IInv

LEMMA ReviewWriteKeepsIInv ==
    ASSUME IInv, TypeOK', NEW r \in Requests, ReviewWrite(r)
    PROVE  IInv'
<1>1. /\ req[r] \in ReviewStates /\ ReviewRelies(r)
      /\ req[r].at \in {"reviewLocked", "reviewCounted"}
  BY ReqShape DEF ReviewWrite, IInv, RequestsRely
<1>2. PICK s \in Subs, p \in Pairs, amount \in 1..MaxReward, max \in Nat :
         /\ s = req[r].sub /\ p = PairOf(s) /\ amount = req[r].seen.reward
         /\ max = req[r].seen.max
  <2>1. req[r].sub \in Subs /\ req[r].seen \in QuestRows
    BY <1>1 DEF ReviewStates
  <2>2. PairOf(req[r].sub) \in Pairs
    BY <2>1 DEF Subs, PairOf
  <2>3. req[r].seen.reward \in 1..MaxReward /\ req[r].seen.max \in Nat
    BY <2>1, QuestsAssumption DEF QuestRows
  <2>4. QED BY <2>1, <2>2, <2>3
<1>3. /\ UNCHANGED <<created, quest, highest>>
      /\ req' = [req EXCEPT ![r] = Idle]
      /\ Reviewing(r, s)
  BY <1>1, <1>2 DEF ReviewWrite, Reviewing
<1>4. PICK v \in {"approved", "rejected", "revoked"} :
         /\ status' = [status EXCEPT ![s] = v]
         /\ v = "approved" => /\ req[r].at = "reviewCounted"
                              /\ granted' = [granted EXCEPT ![s] = amount]
                              /\ Grant(s, amount)
         /\ v = "rejected" => /\ status[s] = "pending"
                              /\ granted' = [granted EXCEPT ![s] = 0]
                              /\ UNCHANGED <<ledger, balance>>
         /\ v = "revoked" => /\ status[s] = "approved"
                             /\ granted' = [granted EXCEPT ![s] = 0]
                             /\ Revoke(s)
  BY <1>1, <1>2 DEF ReviewWrite, ReviewRelies, DecisionFits
<1>5. v \in Statuses /\ status[s] # "none"
  BY <1>3, UnderReview DEF Statuses
<1>6. v = "approved" =>
         /\ status[s] = "pending" /\ s[2] \in SlotsWith(p, "pending")
         /\ Cardinality(SlotsWith(p, "approved")) < max /\ max <= highest[QuestOf(p)]
  <2> SUFFICES ASSUME v = "approved"
               PROVE  /\ status[s] = "pending" /\ s[2] \in SlotsWith(p, "pending")
                      /\ Cardinality(SlotsWith(p, "approved")) < max
                      /\ max <= highest[QuestOf(p)]
    OBVIOUS
  <2>1. status[s] = "pending"
    BY <1>3, <1>4, UnderReview
  <2>2. s[2] \in SlotsWith(p, "pending")
    BY <1>2, <2>1 DEF Subs, PairOf, SlotsWith
  <2>3. QED BY <1>1, <1>2, <1>4, <2>1, <2>2 DEF ReviewRelies, RoomToApprove
<1>7. LocksExclude' /\ RequestsRely'
  <2>1. \A x \in Requests \ {r} : ~Reviewing(x, s)
    BY <1>3 DEF IInv, LocksExclude
  <2>2. ASSUME v = "approved", NEW x \in Requests \ {r}, Submitting(x, p)
        PROVE  FALSE
    <3>1. SlotsWith(p, "pending") = {}
      BY <2>2 DEF Submitting, IInv, RequestsRely, SubmitRelies, RoomToSubmit
    <3>2. QED BY <1>6, <2>2, <3>1
  <2>3. ASSUME v = "approved", NEW x \in Requests \ {r},
               req[x].at = "reviewCounted", PairOf(req[x].sub) = p
        PROVE  FALSE
    <3>1. req[x].sub \in Subs
      BY <2>3, ReqShape DEF ReviewStates, IInv
    <3>2. PICK t \in Subs : t = req[x].sub /\ PairOf(t) = p /\ Reviewing(x, t)
      BY <2>3, <3>1 DEF Reviewing
    <3>3. status[t] = "pending"
      BY <2>3, <3>2, UnderReview
    <3>4. /\ s = <<p, s[2]>> /\ s[2] \in Slots
          /\ t = <<p, t[2]>> /\ t[2] \in Slots
      BY <1>2, <3>2 DEF Subs, PairOf
    <3>5. s[2] = t[2]
      BY <1>6, <2>3, <3>3, <3>4 DEF IInv, OnePending
    <3>6. Reviewing(x, s)
      BY <3>2, <3>4, <3>5
    <3>7. QED BY <2>1, <2>3, <3>6
  <2>4. QED BY <1>2, <1>3, <1>4, <1>5, <2>1, <2>2, <2>3, WriteStep
<1>8. WithinLimit'
  <2>1. /\ Cardinality(SlotsWith(p, "approved")) \in Nat
        /\ highest[QuestOf(p)] \in Nat
    BY SlotsFinite, QuestsAssumption DEF IInv, TypeOK, Pairs, QuestOf
  <2>2. v = "approved" => Cardinality(SlotsWith(p, "approved")) < highest[QuestOf(p)]
    BY <1>6, <2>1
  <2>3. QED BY <1>2, <1>3, <1>4, <1>5, <2>2, LimitStep
<1>9. OnePending'
  <2> SUFFICES ASSUME NEW q \in Pairs, NEW m1 \in Slots, NEW m2 \in Slots,
                      status'[<<q, m1>>] = "pending", status'[<<q, m2>>] = "pending"
               PROVE  m1 = m2
    BY DEF OnePending
  <2>1. status \in [Subs -> Statuses] /\ <<q, m1>> \in Subs /\ <<q, m2>> \in Subs
    BY DEF IInv, TypeOK, Subs
  <2>2. status[<<q, m1>>] = "pending" /\ status[<<q, m2>>] = "pending"
    BY <1>4, <2>1
  <2>3. QED BY <2>2 DEF IInv, OnePending
<1>10. RowsHaveQuests'
  <2>1. ASSUME NEW t \in Subs, status'[t] # "none"
        PROVE  status[t] # "none"
    BY <1>4, <1>5, <2>1 DEF IInv, TypeOK
  <2>2. QED BY <1>3, <2>1 DEF IInv, RowsHaveQuests
<1>11. LedgerFollowsStatus'
  <2>1. /\ status \in [Subs -> Statuses] /\ ledger \in [Subs -> Seq(LedgerRows)]
        /\ granted \in [Subs -> 0..MaxReward]
    BY DEF IInv, TypeOK
  <2>2. ASSUME NEW t \in Subs, t # s
        PROVE  status'[t] = status[t] /\ granted'[t] = granted[t] /\ ledger'[t] = ledger[t]
    BY <1>4, <2>1, <2>2 DEF Grant, Revoke
  <2>3. CASE v = "approved"
    <3>1. ledger[s] = <<>>
      BY <1>6, <2>3 DEF IInv, LedgerFollowsStatus
    <3>2. ledger'[s] = Append(<<>>, [type |-> "quest", amount |-> amount])
      BY <1>4, <2>1, <2>3, <3>1 DEF Grant
    <3>3. ledger'[s] = <<[type |-> "quest", amount |-> amount]>>
      BY <3>2
    <3>4. status'[s] = "approved" /\ granted'[s] = amount /\ amount > 0
      BY <1>4, <2>1, <2>3, QuestsAssumption
    <3>5. QED BY <2>2, <3>3, <3>4 DEF IInv, LedgerFollowsStatus
  <2>4. CASE v = "rejected"
    <3>1. ledger'[s] = <<>> /\ status'[s] = "rejected"
      BY <1>4, <2>1, <2>4 DEF IInv, LedgerFollowsStatus
    <3>2. QED BY <2>2, <3>1 DEF IInv, LedgerFollowsStatus
  <2>5. CASE v = "revoked"
    <3> DEFINE paid == [type |-> "quest", amount |-> granted[s]]
               back == [type |-> "quest_revoke", amount |-> -granted[s]]
    <3>1. granted[s] > 0 /\ ledger[s] = <<paid>>
      BY <1>4, <2>5 DEF IInv, LedgerFollowsStatus
    <3>2. ledger'[s] = Append(ledger[s], back)
      BY <1>4, <2>1, <2>5, <3>1 DEF Revoke
    <3>3. paid.type = "quest" /\ back = [type |-> "quest_revoke", amount |-> -paid.amount]
      OBVIOUS
    <3> HIDE DEF paid, back
    <3>4. ledger'[s] = Append(<<paid>>, back)
      BY <3>1, <3>2
    <3>5. /\ Len(ledger'[s]) = 2 /\ ledger'[s][1] = paid /\ ledger'[s][2] = back
      BY <3>4
    <3>6. /\ Len(ledger'[s]) = 2 /\ ledger'[s][1].type = "quest"
          /\ ledger'[s][2] = [type |-> "quest_revoke", amount |-> -ledger'[s][1].amount]
      BY <3>3, <3>5
    <3>7. status'[s] = "revoked"
      BY <1>4, <2>1, <2>5
    <3>8. QED BY <2>2, <3>6, <3>7 DEF IInv, LedgerFollowsStatus
  <2>6. QED BY <2>3, <2>4, <2>5
<1>12. QED BY <1>7, <1>8, <1>9, <1>10, <1>11 DEF IInv

\* A rolled back transaction only gives its locks and promises up.
LEMMA AbortKeepsIInv ==
    ASSUME IInv, TypeOK', NEW r \in Requests, Abort(r)
    PROVE  IInv'
<1>1. /\ UNCHANGED <<created, quest, status, granted, ledger, balance, highest>>
      /\ req'[r] = Idle
      /\ \A x \in Requests \ {r} : req'[x] = req[x]
  BY DEF Abort, IInv, TypeOK
<1>2. OnePending' /\ WithinLimit' /\ LedgerFollowsStatus' /\ RowsHaveQuests'
  BY <1>1 DEF IInv, OnePending, WithinLimit, LedgerFollowsStatus, RowsHaveQuests, SlotsWith
<1>3. LocksExclude'
  BY <1>1 DEF IInv, LocksExclude, Submitting, Reviewing, Idle
<1>4. RequestsRely'
  <2> SUFFICES ASSUME NEW x \in Requests, req'[x] # Idle
               PROVE  /\ req'[x].at \in {"submitRead", "submitCounted"} => SubmitRelies(x)'
                      /\ req'[x].at \in {"reviewLocked", "reviewCounted"} => ReviewRelies(x)'
    BY DEF RequestsRely, Idle
  <2>1. req'[x] = req[x]
    BY <1>1
  <2>2. QED BY <1>1, <2>1 DEF IInv, RequestsRely, SubmitRelies, ReviewRelies, RoomToSubmit,
                              RoomToApprove, SlotsWith
<1>5. QED BY <1>2, <1>3, <1>4 DEF IInv

-----------------------------------------------------------------------------
(* The theorems *)

\* Every step keeps the inductive invariant.
LEMMA NextIInv == IInv /\ [Next]_vars => IInv'
<1> SUFFICES ASSUME IInv, [Next]_vars PROVE IInv'
  OBVIOUS
<1>1. TypeOK'
  BY NextType DEF IInv
<1>2. CASE AdminNext
  BY <1>1, <1>2, AdminKeepsIInv DEF AdminNext
<1>3. ASSUME NEW r \in Requests, SubmitNext(r)
      PROVE  IInv'
  BY <1>1, <1>3, SubmitReadKeepsIInv, SubmitCountKeepsIInv, SubmitInsertKeepsIInv
  DEF SubmitNext
<1>4. ASSUME NEW r \in Requests, ReviewNext(r)
      PROVE  IInv'
  BY <1>1, <1>4, ReviewLockKeepsIInv, ReviewCountKeepsIInv, ReviewWriteKeepsIInv
  DEF ReviewNext
<1>5. CASE UNCHANGED vars
  BY <1>5 DEF vars, IInv, TypeOK, OnePending, WithinLimit, LedgerFollowsStatus, LocksExclude,
              RowsHaveQuests, RequestsRely, SlotsWith, Submitting, Reviewing, SubmitRelies,
              ReviewRelies, RoomToSubmit, RoomToApprove
<1>6. ASSUME NEW r \in Requests, Abort(r)
      PROVE  IInv'
  BY <1>1, <1>6, AbortKeepsIInv
<1>7. QED BY <1>2, <1>3, <1>4, <1>5, <1>6 DEF Next

\* What the transactions in flight have read keeps holding until they write.
THEOREM Invariance == Spec => []IInv
BY InitIInv, NextIInv, PTL DEF Spec

\* Whatever the endpoints' interleaving, a student has at most one submission
\* of a quest under review.
THEOREM AlwaysOnePending == Spec => []OnePending
<1>1. IInv => OnePending BY DEF IInv
<1>2. QED BY <1>1, Invariance, PTL

\* No student is paid for a quest more often than it has ever allowed.
THEOREM AlwaysWithinLimit == Spec => []WithinLimit
<1>1. IInv => WithinLimit BY DEF IInv
<1>2. QED BY <1>1, Invariance, PTL

\* Each submission is paid once when approved and taken back once, in full,
\* when revoked.
THEOREM LedgerAlwaysFollowsStatus == Spec => []LedgerFollowsStatus
<1>1. IInv => LedgerFollowsStatus BY DEF IInv
<1>2. QED BY <1>1, Invariance, PTL

\* No review overwrites another's decision: a status only moves forward.
THEOREM StatusAlwaysMovesForward == Spec => StatusOnlyMovesForward
<1>1. IInv /\ [Next]_vars => [StatusStep]_vars
  <2> SUFFICES ASSUME IInv, Next PROVE StatusStep \/ UNCHANGED vars
    BY DEF vars
  <2>1. status \in [Subs -> Statuses]
    BY DEF IInv, TypeOK
  <2>2. CASE AdminNext
    BY <2>2 DEF AdminNext, CreateQuest, UpdateQuest, StatusStep
  <2>3. ASSUME NEW r \in Requests, SubmitNext(r)
        PROVE  StatusStep
    <3>1. CASE UNCHANGED status
      BY <3>1 DEF StatusStep
    <3>2. ASSUME NEW n \in Slots, SubmitInsert(r, n)
          PROVE  StatusStep
      <4>1. PICK s \in Subs : s = <<req[r].pair, n>>
        BY <3>2, ReqShape DEF SubmitInsert, SubmitStates, Subs, IInv
      <4>2. PICK v \in {"pending", "approved"} :
               status[s] = "none" /\ status' = [status EXCEPT ![s] = v]
        BY <3>2, <4>1 DEF SubmitInsert
      <4>3. QED BY <2>1, <4>2 DEF StatusStep, StatusMoves
    <3>3. QED BY <2>3, <3>1, <3>2 DEF SubmitNext, SubmitRead, SubmitCount
  <2>4. ASSUME NEW r \in Requests, ReviewNext(r)
        PROVE  StatusStep
    <3>1. CASE UNCHANGED status
      BY <3>1 DEF StatusStep
    <3>2. CASE ReviewWrite(r)
      <4>1. PICK s \in Subs : s = req[r].sub /\ Reviewing(r, s) /\ ReviewRelies(r)
        BY <3>2, ReqShape DEF ReviewWrite, ReviewStates, Reviewing, IInv, RequestsRely
      <4>2. PICK v \in {"approved", "rejected", "revoked"} :
               /\ status' = [status EXCEPT ![s] = v]
               /\ v = "approved" => status[s] = "pending"
               /\ v = "rejected" => status[s] = "pending"
               /\ v = "revoked" => status[s] = "approved"
        BY <3>2, <4>1, UnderReview DEF ReviewWrite, ReviewRelies, DecisionFits
      <4>3. QED BY <2>1, <4>2 DEF StatusStep, StatusMoves
    <3>3. QED BY <2>4, <3>1, <3>2 DEF ReviewNext, ReviewLock, ReviewCount
  <2>5. ASSUME NEW r \in Requests, Abort(r)
        PROVE  StatusStep
    BY <2>5 DEF Abort, StatusStep
  <2>6. QED BY <2>2, <2>3, <2>4, <2>5 DEF Next
<1>2. QED BY <1>1, Invariance, PTL DEF Spec, StatusOnlyMovesForward

-----------------------------------------------------------------------------
(* The balance *)

\* A student's submissions are finitely many, and each stands for a number.
LEMMA SubsOfFinite == \A u \in Students : IsFiniteSet(SubsOf(u)) /\ SubsOf(u) \subseteq Subs
<1> SUFFICES ASSUME NEW u \in Students PROVE IsFiniteSet(SubsOf(u)) /\ SubsOf(u) \subseteq Subs
  OBVIOUS
<1>1. IsFiniteSet({u})
  BY FS_Singleton
<1>2. IsFiniteSet({u} \X QuestIds)
  BY <1>1, QuestsAssumption, FS_Product
<1>3. IsFiniteSet(({u} \X QuestIds) \X Slots)
  BY <1>2, QuestsAssumption, FS_Product
<1>4. SubsOf(u) \subseteq ({u} \X QuestIds) \X Slots
  BY DEF SubsOf, Subs, Pairs, PairOf, UserOf
<1>5. QED BY <1>3, <1>4, FS_Subset DEF SubsOf

LEMMA StandingType == TypeOK => \A s \in Subs : Standing[s] \in Int
BY QuestsAssumption DEF TypeOK, Standing

\* One submission's standing and its student's balance change alike.
LEMMA BalanceStep ==
    ASSUME TypeOK, TypeOK', BalanceIsWhatWasGranted, NEW s \in Subs, NEW d \in Int,
           balance' = [balance EXCEPT ![UserOf(PairOf(s))] = @ + d],
           Standing'[s] = Standing[s] + d,
           \A t \in Subs \ {s} : Standing'[t] = Standing[t]
    PROVE  BalanceIsWhatWasGranted'
<1> SUFFICES ASSUME NEW u \in Students
             PROVE  balance'[u] = SumFunctionOnSet(Standing', SubsOf(u))
  BY DEF BalanceIsWhatWasGranted, SubsOf
<1>1. IsFiniteSet(SubsOf(u)) /\ SubsOf(u) \subseteq Subs
  BY SubsOfFinite
<1>2. \A t \in Subs : Standing[t] \in Int
  BY StandingType
<1>3. balance[u] = SumFunctionOnSet(Standing, SubsOf(u)) /\ balance[u] \in Int
  BY DEF BalanceIsWhatWasGranted, TypeOK
<1>4. \A t \in SubsOf(u) : Standing[t] \in Int
  BY <1>1, <1>2
<1>5. CASE u = UserOf(PairOf(s))
  <2>1. s \in SubsOf(u) /\ Standing'[s] \in Int /\ \A t \in SubsOf(u) \ {s} : Standing'[t] = Standing[t]
    BY <1>1, <1>2, <1>5 DEF SubsOf
  <2>2. SumFunctionOnSet(Standing', SubsOf(u))
           = SumFunctionOnSet(Standing, SubsOf(u)) - Standing[s] + Standing'[s]
    BY <1>1, <1>4, <2>1, SumUpdate
  <2>3. balance'[u] = balance[u] + d
    BY <1>5 DEF TypeOK
  <2>4. Standing[s] \in Int
    BY <1>2
  <2>5. QED BY <1>3, <2>2, <2>3, <2>4
<1>6. CASE u # UserOf(PairOf(s))
  <2>1. \A t \in SubsOf(u) : Standing'[t] = Standing[t]
    BY <1>1, <1>6 DEF SubsOf
  <2>2. SumFunctionOnSet(Standing', SubsOf(u)) = SumFunctionOnSet(Standing, SubsOf(u))
    BY <1>1, <1>4, <2>1, SumSame
  <2>3. balance'[u] = balance[u]
    BY <1>6 DEF TypeOK
  <2>4. QED BY <1>3, <2>2, <2>3
<1>7. QED BY <1>5, <1>6

\* Rows that stand as they did leave a balance that stays.
LEMMA BalanceStays ==
    ASSUME TypeOK, TypeOK', BalanceIsWhatWasGranted, balance' = balance,
           \A t \in Subs : Standing'[t] = Standing[t]
    PROVE  BalanceIsWhatWasGranted'
<1> SUFFICES ASSUME NEW u \in Students
             PROVE  balance'[u] = SumFunctionOnSet(Standing', SubsOf(u))
  BY DEF BalanceIsWhatWasGranted, SubsOf
<1>1. IsFiniteSet(SubsOf(u)) /\ \A t \in SubsOf(u) : Standing[t] \in Int /\ Standing'[t] = Standing[t]
  BY SubsOfFinite, StandingType DEF SubsOf
<1>2. SumFunctionOnSet(Standing', SubsOf(u)) = SumFunctionOnSet(Standing, SubsOf(u))
  BY <1>1, SumSame
<1>3. QED BY <1>2 DEF BalanceIsWhatWasGranted

LEMMA InitBalance == Init => BalanceIsWhatWasGranted
<1> SUFFICES ASSUME Init, NEW u \in Students
             PROVE  balance[u] = SumFunctionOnSet(Standing, SubsOf(u))
  BY DEF BalanceIsWhatWasGranted
<1>1. IsFiniteSet(SubsOf(u)) /\ \A t \in SubsOf(u) : Standing[t] = 0
  BY SubsOfFinite DEF Init, Standing
<1>2. SumFunctionOnSet(Standing, SubsOf(u)) = 0
  BY <1>1, SumZero
<1>3. QED BY <1>2 DEF Init

\* A payment is made to a submission that stands for nothing yet.
LEMMA GrantKeepsBalance ==
    ASSUME IInv, TypeOK', BalanceIsWhatWasGranted, NEW s \in Subs, NEW amount \in 1..MaxReward,
           status[s] # "approved", Grant(s, amount),
           status' = [status EXCEPT ![s] = "approved"], granted' = [granted EXCEPT ![s] = amount]
    PROVE  BalanceIsWhatWasGranted'
<1>1. status \in [Subs -> Statuses] /\ granted \in [Subs -> 0..MaxReward] /\ TypeOK /\ amount \in Int
  BY QuestsAssumption DEF IInv, TypeOK
<1>2. Standing[s] = 0 /\ Standing'[s] = amount
  BY <1>1 DEF Standing
<1>3. \A t \in Subs \ {s} : Standing'[t] = Standing[t]
  BY <1>1 DEF Standing
<1>4. balance' = [balance EXCEPT ![UserOf(PairOf(s))] = @ + amount]
  BY DEF Grant
<1>5. Standing'[s] = Standing[s] + amount
  BY <1>1, <1>2
<1>6. QED BY <1>1, <1>3, <1>4, <1>5, BalanceStep

\* A revocation takes back what the submission stands for.
LEMMA RevokeKeepsBalance ==
    ASSUME IInv, TypeOK', BalanceIsWhatWasGranted, NEW s \in Subs,
           status[s] = "approved", Revoke(s),
           status' = [status EXCEPT ![s] = "revoked"], granted' = [granted EXCEPT ![s] = 0]
    PROVE  BalanceIsWhatWasGranted'
<1>1. status \in [Subs -> Statuses] /\ granted \in [Subs -> 0..MaxReward] /\ TypeOK
  BY DEF IInv, TypeOK
<1>2. granted[s] > 0 /\ granted[s] \in Int
  <2>1. granted[s] > 0
    BY DEF IInv, LedgerFollowsStatus
  <2>2. granted[s] \in Int
    BY <1>1, QuestsAssumption
  <2>3. QED BY <2>1, <2>2
<1>3. Standing[s] = granted[s] /\ Standing'[s] = 0
  BY <1>1 DEF Standing
<1>4. \A t \in Subs \ {s} : Standing'[t] = Standing[t]
  BY <1>1 DEF Standing
<1>5. PICK d \in Int : d = -granted[s]
  BY <1>2
<1>6. balance' = [balance EXCEPT ![UserOf(PairOf(s))] = balance[UserOf(PairOf(s))] - granted[s]]
  BY <1>2 DEF Revoke
<1>7. UserOf(PairOf(s)) \in Students /\ balance[UserOf(PairOf(s))] \in Int
  BY <1>1 DEF TypeOK, Subs, Pairs, UserOf, PairOf
<1>8. balance[UserOf(PairOf(s))] - granted[s] = balance[UserOf(PairOf(s))] + d
  BY <1>2, <1>5, <1>7
<1>9. balance' = [balance EXCEPT ![UserOf(PairOf(s))] = @ + d]
  <2> DEFINE b == balance[UserOf(PairOf(s))] - granted[s]
  <2>1. balance' = [balance EXCEPT ![UserOf(PairOf(s))] = b]
    BY <1>6
  <2>2. b = balance[UserOf(PairOf(s))] + d
    BY <1>8
  <2> HIDE DEF b
  <2>3. QED BY <2>1, <2>2
<1>10. Standing'[s] = Standing[s] + d
  BY <1>2, <1>3, <1>5
<1>11. QED BY <1>1, <1>4, <1>9, <1>10, BalanceStep

LEMMA NextBalance == IInv /\ BalanceIsWhatWasGranted /\ [Next]_vars => BalanceIsWhatWasGranted'
<1> SUFFICES ASSUME IInv, BalanceIsWhatWasGranted, [Next]_vars PROVE BalanceIsWhatWasGranted'
  OBVIOUS
<1>t. TypeOK /\ TypeOK'
  BY NextType DEF IInv
<1>1. CASE UNCHANGED <<status, granted, balance>>
  <2>1. \A t \in Subs : Standing'[t] = Standing[t]
    BY <1>1 DEF Standing
  <2>2. QED BY <1>t, <1>1, <2>1, BalanceStays
<1>2. ASSUME NEW r \in Requests, NEW n \in Slots, SubmitInsert(r, n)
      PROVE  BalanceIsWhatWasGranted'
  <2>1. req[r] \in SubmitStates
    BY <1>t, <1>2, ReqShape DEF SubmitInsert
  <2>2. /\ <<req[r].pair, n>> \in Subs /\ req[r].seen.reward \in 1..MaxReward
    BY <2>1 DEF SubmitStates, QuestRows, Subs
  <2>3. PICK s \in Subs, amount \in 1..MaxReward :
           s = <<req[r].pair, n>> /\ amount = req[r].seen.reward
    BY <2>2
  <2>4. status[s] = "none"
    BY <1>2, <2>3 DEF SubmitInsert
  <2>5. CASE req[r].seen.auto
    <3>1. /\ status' = [status EXCEPT ![s] = "approved"] /\ granted' = [granted EXCEPT ![s] = amount]
          /\ Grant(s, amount)
      BY <1>2, <2>3, <2>5 DEF SubmitInsert
    <3>2. QED BY <1>t, <2>4, <3>1, GrantKeepsBalance
  <2>6. CASE ~req[r].seen.auto
    <3>1. status' = [status EXCEPT ![s] = "pending"] /\ UNCHANGED <<granted, balance>>
      BY <1>2, <2>3, <2>6 DEF SubmitInsert
    <3>2. \A t \in Subs : Standing'[t] = Standing[t]
      BY <1>t, <2>4, <3>1 DEF Standing, TypeOK
    <3>3. QED BY <1>t, <3>1, <3>2, BalanceStays
  <2>7. QED BY <2>5, <2>6
<1>3. ASSUME NEW r \in Requests, ReviewWrite(r)
      PROVE  BalanceIsWhatWasGranted'
  <2>1. /\ req[r] \in ReviewStates /\ ReviewRelies(r)
    BY <1>t, <1>3, ReqShape DEF ReviewWrite, IInv, RequestsRely
  <2>2. req[r].sub \in Subs /\ req[r].seen.reward \in 1..MaxReward
    BY <2>1 DEF ReviewStates, QuestRows
  <2>3. PICK s \in Subs, amount \in 1..MaxReward : s = req[r].sub /\ amount = req[r].seen.reward
    BY <2>2
  <2>4. CASE req[r].at = "reviewCounted" /\ Grant(s, amount)
             /\ status' = [status EXCEPT ![s] = "approved"] /\ granted' = [granted EXCEPT ![s] = amount]
    <3>1. Reviewing(r, s)
      BY <2>3, <2>4 DEF Reviewing
    <3>2. status[s] = "pending"
      BY <2>4, <3>1, UnderReview
    <3>3. QED BY <1>t, <2>4, <3>2, GrantKeepsBalance
  <2>5. CASE req[r].decision = "reject"
             /\ status' = [status EXCEPT ![s] = "rejected"] /\ granted' = [granted EXCEPT ![s] = 0]
             /\ UNCHANGED <<ledger, balance>>
    <3>1. status[s] = "pending"
      BY <2>1, <2>3, <2>5 DEF ReviewRelies, DecisionFits
    <3>2. \A t \in Subs : Standing'[t] = Standing[t]
      BY <1>t, <2>5, <3>1 DEF Standing, TypeOK
    <3>3. QED BY <1>t, <2>5, <3>2, BalanceStays
  <2>6. CASE req[r].decision = "revoke" /\ Revoke(s)
             /\ status' = [status EXCEPT ![s] = "revoked"] /\ granted' = [granted EXCEPT ![s] = 0]
    <3>1. status[s] = "approved"
      BY <2>1, <2>3, <2>6 DEF ReviewRelies, DecisionFits
    <3>2. QED BY <1>t, <2>6, <3>1, RevokeKeepsBalance
  <2>7. QED BY <1>3, <2>3, <2>4, <2>5, <2>6 DEF ReviewWrite
<1>4. QED BY <1>1, <1>2, <1>3
  DEF Next, AdminNext, SubmitNext, ReviewNext, CreateQuest, UpdateQuest, SubmitRead, SubmitCount,
      ReviewLock, ReviewCount, Abort, vars

\* A student's balance is what the approved submissions were granted, however
\* payments, reviews and edits of the quest overtake each other.
THEOREM BalanceIsAlwaysWhatWasGranted == Spec => []BalanceIsWhatWasGranted
<1>1. Init => IInv /\ BalanceIsWhatWasGranted
  BY InitIInv, InitBalance
<1>2. IInv /\ BalanceIsWhatWasGranted /\ [Next]_vars => (IInv /\ BalanceIsWhatWasGranted)'
  BY NextIInv, NextBalance
<1>3. QED BY <1>1, <1>2, PTL DEF Spec
=============================================================================
