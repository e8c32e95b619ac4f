-------------------------- MODULE StudentRequestsProofs --------------------------
(* What holds of Purchases, of MissionRecords and of AttendanceRequests for *)
(* any number of workers, requests and records.  The first two are proved   *)
(* along sums over the ledger, which LedgerSums is about.                   *)
EXTENDS Purchases, MissionRecords, AttendanceRequests, LedgerSums

-----------------------------------------------------------------------------
(* Purchases: a balance that is its ledger, a request that is never free *)

LEMMA PurchasesInitInv == PurchasesInit => PurchasesInv
<1> SUFFICES ASSUME PurchasesInit PROVE PurchasesInv
  OBVIOUS
<1>1. PurchasesTypeOK /\ NeverFree /\ ReviewsRely
  BY PurchasesAssumption
  DEF PurchasesInit, PurchasesTypeOK, NeverFree, ReviewsRely, NoOrder, AtRest, Reviews, OrderRows
<1>2. SumFunction(adjusts) = 0
  <2>1. adjusts = <<>> /\ DOMAIN adjusts = {}
    BY DEF PurchasesInit
  <2>2. QED BY <2>1, SumEmpty DEF SumFunction
<1>3. SumFunction(cost) = 0
  <2>1. DOMAIN cost = Orders /\ \A id \in Orders : cost[id] = 0
    BY DEF PurchasesInit
  <2>2. QED BY <2>1, SumZero, PurchasesAssumption DEF SumFunction
<1>4. QED BY <1>1, <1>2, <1>3 DEF PurchasesInv, BalanceIsLedger, PurchasesInit

\* A request at work is a review of an order.
LEMMA ReviewShape ==
    ASSUME PurchasesTypeOK, NEW w \in Reviewers, reviewing[w].at = "review"
    PROVE  /\ reviewing[w].id \in Orders /\ reviewing[w].to \in OrderStatuses /\ reviewing[w].seen \in OrderRows
           /\ reviewing[w].seen.total \in Totals /\ reviewing[w].seen.status \in OrderStatuses
BY DEF PurchasesTypeOK, Reviews, AtRest, OrderRows

\* Where the row is written without a review.
LEMMA PutKeeps ==
    ASSUME PurchasesTypeOK, NEW id \in Orders, NEW status \in OrderStatuses, NEW total \in Totals,
           Put(id, status, total)
    PROVE  /\ order' = [order EXCEPT ![id] = [status |-> status, total |-> total]]
           /\ order' \in [Orders -> OrderRows \cup {NoOrder}]
           /\ order'[id] = [status |-> status, total |-> total] /\ order'[id] \in OrderRows
           /\ \A x \in Orders \ {id} : order'[x] = order[x]
           /\ given' \in [Orders -> Nat] /\ \A x \in Orders : given[x] <= given'[x]
           /\ status = "approved" /\ order[id].status # "approved" => given'[id] = given[id] + 1
           /\ UNCHANGED <<charges, cost, adjusts, balance, approvals, reviewing>>
<1>1. [status |-> status, total |-> total] \in OrderRows
  BY DEF OrderRows
<1>2. /\ order' = [order EXCEPT ![id] = [status |-> status, total |-> total]]
      /\ UNCHANGED <<charges, cost, adjusts, balance, approvals, reviewing>>
  BY DEF Put, payments
<1>3. /\ order' \in [Orders -> OrderRows \cup {NoOrder}]
      /\ order'[id] = [status |-> status, total |-> total]
      /\ \A x \in Orders \ {id} : order'[x] = order[x]
  BY <1>1, <1>2 DEF PurchasesTypeOK
<1>4. /\ given' \in [Orders -> Nat] /\ \A x \in Orders : given[x] <= given'[x]
      /\ status = "approved" /\ order[id].status # "approved" => given'[id] = given[id] + 1
  <2>1. given \in [Orders -> Nat]
    BY DEF PurchasesTypeOK
  <2>2. CASE status = "approved" /\ order[id].status # "approved"
    BY <2>1, <2>2 DEF Put
  <2>3. CASE ~(status = "approved" /\ order[id].status # "approved")
    BY <2>1, <2>3 DEF Put
  <2>4. QED BY <2>2, <2>3
<1>5. QED BY <1>1, <1>2, <1>3, <1>4

LEMMA NextType == PurchasesInv /\ [PurchasesNext]_purchaseVars => PurchasesTypeOK'
<1> SUFFICES ASSUME PurchasesInv, [PurchasesNext]_purchaseVars PROVE PurchasesTypeOK'
  OBVIOUS
<1>t. PurchasesTypeOK
  BY DEF PurchasesInv
<1>1. ASSUME NEW id \in Orders, NEW status \in OrderStatuses, NEW total \in Totals, Put(id, status, total)
      PROVE  PurchasesTypeOK'
  BY <1>t, <1>1, PutKeeps DEF PurchasesTypeOK
<1>2. ASSUME NEW w \in Reviewers, NEW id \in Orders, NEW to \in OrderStatuses, ReadOrder(w, id, to)
      PROVE  PurchasesTypeOK'
  <2>1. order[id] \in OrderRows
    BY <1>t, <1>2 DEF ReadOrder, PurchasesTypeOK
  <2>2. [at |-> "review", id |-> id, seen |-> order[id], to |-> to] \in Reviews
    BY <2>1 DEF Reviews
  <2>3. QED BY <1>t, <1>2, <2>2 DEF ReadOrder, PurchasesTypeOK, payments
<1>3. ASSUME NEW w \in Reviewers, DecideOrder(w)
      PROVE  PurchasesTypeOK'
  <2>1. /\ reviewing[w].id \in Orders /\ reviewing[w].to \in OrderStatuses /\ reviewing[w].seen.total \in Int
    BY <1>t, <1>3, ReviewShape, PurchasesAssumption DEF DecideOrder
  <2>2. order' \in [Orders -> OrderRows \cup {NoOrder}]
    <3>1. PICK id \in Orders, to \in OrderStatuses : id = reviewing[w].id /\ to = reviewing[w].to
      BY <2>1
    <3>2. order[id] \in OrderRows
      BY <1>3, <3>1 DEF DecideOrder, PurchasesInv, ReviewsRely
    <3>3. [status |-> to, total |-> order[id].total] \in OrderRows
      BY <3>2 DEF OrderRows
    <3>4. order' = [order EXCEPT ![id] = [status |-> to, total |-> order[id].total]]
      BY <1>3, <3>1 DEF DecideOrder
    <3>5. QED BY <1>t, <3>1, <3>3, <3>4 DEF PurchasesTypeOK
  <2>3. /\ charges' \in [Orders -> Nat] /\ cost' \in [Orders -> Int] /\ balance' \in Int
        /\ approvals' \in [Orders -> Nat]
    <3>1. PICK id \in Orders, total \in Int : id = reviewing[w].id /\ total = reviewing[w].seen.total
      BY <2>1
    <3>2. /\ \/ /\ charges' = [charges EXCEPT ![id] = @ + 1] /\ cost' = [cost EXCEPT ![id] = @ + total]
                /\ balance' = balance - total
             \/ charges' = charges /\ cost' = cost /\ balance' = balance
          /\ \/ approvals' = [approvals EXCEPT ![id] = @ + 1]
             \/ approvals' = [approvals EXCEPT ![id] = @]
      BY <1>3, <3>1 DEF DecideOrder, Charged
    <3>3. /\ charges[id] + 1 \in Nat /\ cost[id] + total \in Int /\ balance - total \in Int
          /\ approvals[id] + 1 \in Nat
      BY <1>t DEF PurchasesTypeOK
    <3>4. QED BY <1>t, <3>2, <3>3 DEF PurchasesTypeOK
  <2>4. adjusts' \in Seq(Adjustments) /\ given' \in [Orders -> Nat] /\ reviewing' \in [Reviewers -> Reviews]
    BY <1>t, <1>3 DEF DecideOrder, PurchasesTypeOK, Reviews
  <2>5. QED BY <2>2, <2>3, <2>4 DEF PurchasesTypeOK
<1>4. ASSUME NEW w \in Reviewers, RollBack(w)
      PROVE  PurchasesTypeOK'
  BY <1>t, <1>4 DEF RollBack, PurchasesTypeOK, Reviews, payments
<1>5. ASSUME NEW amount \in Adjustments, Adjust(amount)
      PROVE  PurchasesTypeOK'
  BY <1>t, <1>5, PurchasesAssumption DEF Adjust, PurchasesTypeOK
<1>6. CASE UNCHANGED purchaseVars
  BY <1>t, <1>6 DEF purchaseVars, PurchasesTypeOK
<1>7. QED BY <1>t, <1>1, <1>2, <1>3, <1>4, <1>5, <1>6 DEF PurchasesNext, Save, EditOrder

\* A charge is only made where none was read to be there, and an approval is
\* only written where a charge is, or was read to be.
LEMMA NextNeverFree == PurchasesInv /\ [PurchasesNext]_purchaseVars => NeverFree'
<1> SUFFICES ASSUME PurchasesInv, [PurchasesNext]_purchaseVars PROVE NeverFree'
  OBVIOUS
<1>t. PurchasesTypeOK /\ NeverFree
  BY DEF PurchasesInv
<1>1. ASSUME NEW w \in Reviewers, DecideOrder(w)
      PROVE  NeverFree'
  <2>1. PICK id \in Orders, to \in OrderStatuses : id = reviewing[w].id /\ to = reviewing[w].to
    BY <1>t, <1>1, ReviewShape DEF DecideOrder
  <2>2. /\ order' = [order EXCEPT ![id] = [status |-> to, total |-> order[id].total]]
        /\ charges' = IF ChargesNow(reviewing[w]) THEN [charges EXCEPT ![id] = @ + 1] ELSE charges
    BY <1>1, <2>1 DEF DecideOrder
  <2>g. given' = given
    BY <1>1 DEF DecideOrder
  <2>3. to = "approved" /\ ~ChargesNow(reviewing[w]) => charges[id] >= 1 \/ given[id] >= 1
    BY <1>1, <2>1 DEF DecideOrder, ChargesNow, PurchasesInv, ReviewsRely
  <2>4. SUFFICES ASSUME NEW x \in Orders, order'[x].status = "approved"
                 PROVE  charges'[x] >= 1 \/ given'[x] >= 1
    BY DEF NeverFree
  <2>5. CASE x = id
    <3>1. to = "approved"
      BY <1>t, <2>2, <2>4, <2>5 DEF PurchasesTypeOK
    <3>2. CASE ChargesNow(reviewing[w])
      BY <1>t, <2>2, <2>5, <3>2 DEF PurchasesTypeOK
    <3>3. CASE ~ChargesNow(reviewing[w])
      BY <2>2, <2>3, <2>g, <2>5, <3>1, <3>3
    <3>4. QED BY <3>2, <3>3
  <2>6. CASE x # id
    BY <1>t, <2>2, <2>g, <2>4, <2>6 DEF PurchasesTypeOK, NeverFree
  <2>7. QED BY <2>5, <2>6
<1>2. ASSUME NEW id \in Orders, NEW status \in OrderStatuses, NEW total \in Totals, Put(id, status, total)
      PROVE  NeverFree'
  <2>1. SUFFICES ASSUME NEW x \in Orders, order'[x].status = "approved"
                 PROVE  charges'[x] >= 1 \/ given'[x] >= 1
    BY DEF NeverFree
  <2>2. /\ order'[id] = [status |-> status, total |-> total]
        /\ \A y \in Orders \ {id} : order'[y] = order[y]
        /\ charges' = charges
        /\ status = "approved" /\ order[id].status # "approved" => given'[id] = given[id] + 1
        /\ given[x] \in Nat /\ given'[x] \in Nat /\ given[x] <= given'[x] /\ given[id] \in Nat
    BY <1>t, <1>2, PutKeeps DEF PurchasesTypeOK
  <2>3. CASE order[x].status = "approved"
    BY <1>t, <2>2, <2>3 DEF NeverFree
  <2>4. CASE order[x].status # "approved"
    <3>1. x = id /\ status = "approved"
      BY <2>1, <2>2, <2>4
    <3>2. QED BY <2>2, <2>4, <3>1
  <2>5. QED BY <2>3, <2>4
<1>3. CASE UNCHANGED <<order, charges, given>>
  BY <1>t, <1>3 DEF NeverFree
<1>4. QED
  BY <1>1, <1>2, <1>3
  DEF PurchasesNext, purchaseVars, payments, Save, EditOrder, ReadOrder, RollBack, Adjust

LEMMA NextReviewsRely == PurchasesInv /\ [PurchasesNext]_purchaseVars => ReviewsRely'
<1> SUFFICES ASSUME PurchasesInv, [PurchasesNext]_purchaseVars, NEW v \in Reviewers, reviewing'[v].at = "review"
             PROVE  /\ order'[reviewing'[v].id] \in OrderRows
                    /\ reviewing'[v].seen.status = "approved" =>
                         charges'[reviewing'[v].id] >= 1 \/ given'[reviewing'[v].id] >= 1
  BY DEF ReviewsRely
<1>t. PurchasesTypeOK /\ NeverFree /\ ReviewsRely
  BY DEF PurchasesInv
<1>1. ASSUME NEW w \in Reviewers, NEW id \in Orders, NEW to \in OrderStatuses, ReadOrder(w, id, to)
      PROVE  /\ order'[reviewing'[v].id] \in OrderRows
             /\ reviewing'[v].seen.status = "approved" =>
                  charges'[reviewing'[v].id] >= 1 \/ given'[reviewing'[v].id] >= 1
  <2>1. CASE v = w
    <3>1. reviewing'[v].id = id /\ reviewing'[v].seen = order[id]
      BY <1>t, <1>1, <2>1 DEF ReadOrder, PurchasesTypeOK
    <3>2. QED BY <1>t, <1>1, <3>1 DEF ReadOrder, PurchasesTypeOK, NeverFree, payments
  <2>2. CASE v # w
    BY <1>t, <1>1, <2>2 DEF ReadOrder, PurchasesTypeOK, ReviewsRely, payments
  <2>3. QED BY <2>1, <2>2
<1>2. ASSUME reviewing'[v] = reviewing[v], reviewing[v].at = "review" => order'[reviewing[v].id] \in OrderRows,
             reviewing[v].at = "review" => charges'[reviewing[v].id] >= charges[reviewing[v].id],
             reviewing[v].at = "review" => given'[reviewing[v].id] >= given[reviewing[v].id]
      PROVE  /\ order'[reviewing'[v].id] \in OrderRows
             /\ reviewing'[v].seen.status = "approved" =>
                  charges'[reviewing'[v].id] >= 1 \/ given'[reviewing'[v].id] >= 1
  <2>1. /\ charges[reviewing[v].id] \in Nat /\ charges'[reviewing[v].id] \in Nat
        /\ given[reviewing[v].id] \in Nat /\ given'[reviewing[v].id] \in Nat
    BY <1>t, <1>2, ReviewShape, NextType DEF PurchasesTypeOK
  <2>2. QED BY <1>t, <1>2, <2>1 DEF ReviewsRely
<1>3. ASSUME NEW w \in Reviewers, DecideOrder(w)
      PROVE  /\ order'[reviewing'[v].id] \in OrderRows
             /\ reviewing'[v].seen.status = "approved" =>
                  charges'[reviewing'[v].id] >= 1 \/ given'[reviewing'[v].id] >= 1
  <2>1. PICK id \in Orders, to \in OrderStatuses : id = reviewing[w].id /\ to = reviewing[w].to
    BY <1>t, <1>3, ReviewShape DEF DecideOrder
  <2>2. /\ order' = [order EXCEPT ![id] = [status |-> to, total |-> order[id].total]]
        /\ charges' = IF ChargesNow(reviewing[w]) THEN [charges EXCEPT ![id] = @ + 1] ELSE charges
    BY <1>3, <2>1 DEF DecideOrder
  <2>3. v # w /\ reviewing'[v] = reviewing[v]
    BY <1>t, <1>3 DEF DecideOrder, PurchasesTypeOK, AtRest
  <2>4. PICK x \in Orders : x = reviewing[v].id
    BY <1>t, <2>3, ReviewShape
  <2>5. order[x] \in OrderRows /\ order[id] \in OrderRows
    BY <1>t, <1>3, <2>1, <2>3, <2>4 DEF ReviewsRely, DecideOrder
  <2>6. order'[x] \in OrderRows
    BY <1>t, <2>2, <2>5 DEF PurchasesTypeOK, OrderRows
  <2>7. charges'[x] >= charges[x] /\ given'[x] >= given[x]
    BY <1>t, <1>3, <2>2 DEF PurchasesTypeOK, DecideOrder
  <2>8. QED BY <1>2, <2>3, <2>4, <2>6, <2>7
<1>4. ASSUME NEW w \in Reviewers, RollBack(w)
      PROVE  reviewing'[v] = reviewing[v]
  BY <1>t, <1>4 DEF RollBack, PurchasesTypeOK, AtRest
<1>5. ASSUME NEW id \in Orders, NEW status \in OrderStatuses, NEW total \in Totals, Put(id, status, total)
      PROVE  /\ order'[reviewing'[v].id] \in OrderRows
             /\ reviewing'[v].seen.status = "approved" =>
                  charges'[reviewing'[v].id] >= 1 \/ given'[reviewing'[v].id] >= 1
  <2>1. /\ reviewing' = reviewing /\ charges' = charges /\ order'[id] \in OrderRows
        /\ \A x \in Orders \ {id} : order'[x] = order[x]
        /\ \A x \in Orders : given[x] <= given'[x]
    BY <1>t, <1>5, PutKeeps
  <2>2. PICK x \in Orders : x = reviewing[v].id
    BY <1>t, <2>1, ReviewShape
  <2>3. order[x] \in OrderRows
    BY <1>t, <2>1, <2>2 DEF ReviewsRely
  <2>4. order'[x] \in OrderRows
    BY <2>1, <2>3
  <2>5. charges'[x] >= charges[x] /\ given'[x] >= given[x]
    BY <1>t, <2>1 DEF PurchasesTypeOK
  <2>6. QED BY <1>2, <2>1, <2>2, <2>4, <2>5
<1>6. CASE UNCHANGED <<order, charges, given>> /\ reviewing'[v] = reviewing[v]
  BY <1>t, <1>6 DEF ReviewsRely
<1>7. QED
  BY <1>1, <1>3, <1>4, <1>5, <1>6
  DEF PurchasesNext, purchaseVars, payments, Save, EditOrder, RollBack, Adjust

-----------------------------------------------------------------------------
(* The ledger *)

\* Adjustments are a sequence of numbers.
LEMMA AdjustsShape ==
    ASSUME NEW s \in Seq(Adjustments)
    PROVE  /\ DOMAIN s = 1..Len(s) /\ Len(s) \in Nat /\ IsFiniteSet(DOMAIN s)
           /\ \A n \in DOMAIN s : s[n] \in Int
<1>1. DOMAIN s = 1..Len(s) /\ Len(s) \in Nat
  OBVIOUS
<1>2. \A n \in 1..Len(s) : s[n] \in Adjustments
  OBVIOUS
<1>3. IsFiniteSet(1..Len(s))
  BY <1>1, FS_Interval
<1>4. QED BY <1>1, <1>2, <1>3, PurchasesAssumption

LEMMA NextBalance == PurchasesInv /\ [PurchasesNext]_purchaseVars => BalanceIsLedger'
<1> SUFFICES ASSUME PurchasesInv, [PurchasesNext]_purchaseVars PROVE BalanceIsLedger'
  OBVIOUS
<1>t. PurchasesTypeOK /\ PurchasesTypeOK'
  BY NextType DEF PurchasesInv
<1>b. /\ balance = SumFunction(adjusts) - SumFunction(cost)
      /\ DOMAIN cost = Orders /\ DOMAIN cost' = Orders /\ IsFiniteSet(Orders)
      /\ \A id \in Orders : cost[id] \in Int /\ cost'[id] \in Int
  BY <1>t, PurchasesAssumption DEF PurchasesInv, BalanceIsLedger, PurchasesTypeOK
<1>s. SumFunction(cost) \in Int
  BY <1>b, SumType DEF SumFunction
<1>a. SumFunction(adjusts) \in Int
  <2>1. IsFiniteSet(DOMAIN adjusts) /\ \A n \in DOMAIN adjusts : adjusts[n] \in Int
    BY <1>t, AdjustsShape DEF PurchasesTypeOK
  <2>2. QED BY <2>1, SumType DEF SumFunction
\* A charge is the same amount in the ledger and in the balance.
<1>1. ASSUME NEW w \in Reviewers, DecideOrder(w)
      PROVE  BalanceIsLedger'
  <2>1. PICK id \in Orders, total \in Totals : id = reviewing[w].id /\ total = reviewing[w].seen.total
    BY <1>t, <1>1, ReviewShape DEF DecideOrder
  <2>2. /\ adjusts' = adjusts
        /\ IF ChargesNow(reviewing[w])
           THEN cost' = [cost EXCEPT ![id] = @ + total] /\ balance' = balance - total
           ELSE cost' = cost /\ balance' = balance
    BY <1>1, <2>1 DEF DecideOrder, Charged
  <2>3. CASE ~ChargesNow(reviewing[w])
    BY <1>b, <2>2, <2>3 DEF BalanceIsLedger
  <2>4. CASE ChargesNow(reviewing[w])
    <3>1. \A x \in Orders \ {id} : cost'[x] = cost[x]
      BY <1>t, <2>2, <2>4 DEF PurchasesTypeOK
    <3>2. cost'[id] = cost[id] + total /\ total \in Int
      BY <1>t, <2>2, <2>4, PurchasesAssumption DEF PurchasesTypeOK
    <3>3. cost[id] \in Int /\ cost'[id] \in Int
      BY <1>b
    <3>4. SumFunctionOnSet(cost', Orders) = SumFunctionOnSet(cost, Orders) - cost[id] + cost'[id]
      BY <1>b, <3>1, <3>3, SumUpdate
    <3>5. SumFunction(cost)' = SumFunction(cost) + total
      BY <1>b, <1>s, <3>2, <3>3, <3>4 DEF SumFunction
    <3>6. QED BY <1>b, <1>s, <1>a, <2>2, <2>4, <3>2, <3>5 DEF BalanceIsLedger
  <2>5. QED BY <2>3, <2>4
<1>3. ASSUME NEW amount \in Adjustments, Adjust(amount)
      PROVE  BalanceIsLedger'
  <2> DEFINE n == Len(adjusts) + 1
  <2>1. /\ adjusts' = Append(adjusts, amount) /\ balance' = balance + amount
        /\ cost' = cost
    BY <1>3 DEF Adjust
  <2>2. /\ DOMAIN adjusts = 1..Len(adjusts) /\ Len(adjusts) \in Nat
        /\ DOMAIN adjusts' = DOMAIN adjusts \cup {n} /\ n \notin DOMAIN adjusts
        /\ adjusts'[n] = amount /\ amount \in Int
        /\ \A i \in DOMAIN adjusts : adjusts[i] \in Int /\ adjusts'[i] = adjusts[i]
    <3>1. /\ DOMAIN adjusts = 1..Len(adjusts) /\ Len(adjusts) \in Nat
          /\ \A i \in DOMAIN adjusts : adjusts[i] \in Int
      BY <1>t, AdjustsShape DEF PurchasesTypeOK
    <3>2. adjusts \in Seq(Adjustments)
      BY <1>t DEF PurchasesTypeOK
    <3>3. /\ DOMAIN adjusts' = 1..n /\ adjusts'[n] = amount
          /\ \A i \in 1..Len(adjusts) : adjusts'[i] = adjusts[i]
      BY <2>1, <3>2
    <3>4. amount \in Int
      BY PurchasesAssumption
    <3>5. QED BY <3>1, <3>3, <3>4
  <2> HIDE DEF n
  <2>3. IsFiniteSet(DOMAIN adjusts)
    BY <1>t, AdjustsShape DEF PurchasesTypeOK
  <2>4. SumFunctionOnSet(adjusts', DOMAIN adjusts) = SumFunctionOnSet(adjusts, DOMAIN adjusts)
    BY <2>2, <2>3, SumSame
  <2>5. SumFunctionOnSet(adjusts', DOMAIN adjusts \cup {n})
            = SumFunctionOnSet(adjusts', DOMAIN adjusts) + adjusts'[n]
    <3>1. \A i \in DOMAIN adjusts : adjusts'[i] \in Int
      BY <2>2
    <3>2. adjusts'[n] \in Int
      BY <2>2
    <3>3. QED BY <2>2, <2>3, <3>1, <3>2, SumAdd
  <2>6. SumFunction(adjusts)' = SumFunction(adjusts) + amount
    BY <2>2, <2>4, <2>5 DEF SumFunction
  <2>7. SumFunction(cost)' = SumFunction(cost)
    BY <2>1
  <2>8. QED BY <1>b, <1>s, <1>a, <2>1, <2>2, <2>6, <2>7 DEF BalanceIsLedger
<1>4. CASE UNCHANGED <<cost, adjusts, balance>>
  BY <1>b, <1>4 DEF BalanceIsLedger
<1>5. QED
  BY <1>1, <1>3, <1>4
  DEF PurchasesNext, purchaseVars, payments, Put, Save, EditOrder, ReadOrder, RollBack

\* Everything a review in flight relies on is kept, for any number of workers.
THEOREM PurchasesInvariance == PurchasesSpec => []PurchasesInv
<1>1. PurchasesInv /\ [PurchasesNext]_purchaseVars => PurchasesInv'
  BY NextType, NextNeverFree, NextReviewsRely, NextBalance DEF PurchasesInv
<1>2. QED BY PurchasesInitInv, <1>1, PTL DEF PurchasesSpec

\* Type correctness: the rows, the ledger and the workers keep their shape.
THEOREM PurchasesTypeCorrect == PurchasesSpec => []PurchasesTypeOK
<1>1. PurchasesInv => PurchasesTypeOK
  BY DEF PurchasesInv
<1>2. QED BY <1>1, PurchasesInvariance, PTL

\* An approved purchase request has been charged, or was once saved or edited
\* to be approved, which charges nothing: however reviews and edits overtake
\* each other and whichever of them are rolled back.
THEOREM ApprovedIsNeverFree == PurchasesSpec => []NeverFree
<1>1. PurchasesInv => NeverFree
  BY DEF PurchasesInv
<1>2. QED BY <1>1, PurchasesInvariance, PTL

\* The balance is what the ledger's rows add up to, however charges and
\* adjustments overtake each other.
THEOREM BalanceIsAlwaysTheLedger == PurchasesSpec => []BalanceIsLedger
<1>1. PurchasesInv => BalanceIsLedger
  BY DEF PurchasesInv
<1>2. QED BY <1>1, PurchasesInvariance, PTL

(* One reviewer to an order at a time *)

\* No two reviews of one order overlap.  It is the schedule the code would
\* have if resolve_row locked the row it reads.
OneReviewPerOrder ==
    \A v, w \in Reviewers :
        reviewing[v].at = "review" /\ reviewing[w].at = "review" /\ reviewing[v].id = reviewing[w].id
            => v = w

\* Each charge is that of one time the order became approved.  A review that is
\* to charge an order which staff have made approved since it was read has that
\* time still to its account.
ChargesAccounted ==
    \A id \in Orders :
        /\ charges[id] <= approvals[id] + given[id]
        /\ \A w \in Reviewers :
              /\ reviewing[w].at = "review" /\ reviewing[w].id = id
              /\ reviewing[w].seen.status # "approved" /\ order[id].status = "approved"
              => charges[id] < approvals[id] + given[id]

LEMMA NextChargesAccounted ==
    ASSUME PurchasesInv, OneReviewPerOrder, ChargesAccounted, [PurchasesNext]_purchaseVars
    PROVE  ChargesAccounted'
<1>t. PurchasesTypeOK
  BY DEF PurchasesInv
<1>n. \A x \in Orders : charges[x] \in Nat /\ approvals[x] \in Nat /\ given[x] \in Nat
  BY <1>t DEF PurchasesTypeOK
<1> SUFFICES ASSUME NEW x \in Orders
             PROVE  /\ charges'[x] <= approvals'[x] + given'[x]
                    /\ \A v \in Reviewers :
                          /\ reviewing'[v].at = "review" /\ reviewing'[v].id = x
                          /\ reviewing'[v].seen.status # "approved" /\ order'[x].status = "approved"
                          => charges'[x] < approvals'[x] + given'[x]
  BY DEF ChargesAccounted
<1>0. /\ charges[x] <= approvals[x] + given[x]
      /\ \A v \in Reviewers :
            /\ reviewing[v].at = "review" /\ reviewing[v].id = x
            /\ reviewing[v].seen.status # "approved" /\ order[x].status = "approved"
            => charges[x] < approvals[x] + given[x]
  BY DEF ChargesAccounted
\* Reviews that end or begin, and what leaves orders and accounts alone.
<1>1. ASSUME UNCHANGED <<order, charges, approvals, given>>, NEW w \in Reviewers,
             \A v \in Reviewers \ {w} : reviewing'[v] = reviewing[v],
             \/ reviewing'[w].at # "review"
             \/ reviewing'[w] = reviewing[w]
             \/ reviewing'[w].id \in Orders /\ reviewing'[w].seen = order[reviewing'[w].id]
      PROVE  /\ charges'[x] <= approvals'[x] + given'[x]
             /\ \A v \in Reviewers :
                   /\ reviewing'[v].at = "review" /\ reviewing'[v].id = x
                   /\ reviewing'[v].seen.status # "approved" /\ order'[x].status = "approved"
                   => charges'[x] < approvals'[x] + given'[x]
  BY <1>0, <1>1
<1>2. ASSUME NEW w \in Reviewers, NEW id \in Orders, NEW to \in OrderStatuses, ReadOrder(w, id, to)
      PROVE  /\ UNCHANGED <<order, charges, approvals, given>>
             /\ \A v \in Reviewers \ {w} : reviewing'[v] = reviewing[v]
             /\ reviewing'[w].id \in Orders /\ reviewing'[w].seen = order[reviewing'[w].id]
  BY <1>t, <1>2 DEF ReadOrder, PurchasesTypeOK, payments
<1>3. ASSUME NEW w \in Reviewers, RollBack(w)
      PROVE  /\ UNCHANGED <<order, charges, approvals, given>>
             /\ \A v \in Reviewers \ {w} : reviewing'[v] = reviewing[v]
             /\ reviewing'[w].at # "review"
  BY <1>t, <1>3 DEF RollBack, PurchasesTypeOK, AtRest, payments
<1>4. ASSUME NEW w \in Reviewers, DecideOrder(w)
      PROVE  /\ charges'[x] <= approvals'[x] + given'[x]
             /\ \A v \in Reviewers :
                   /\ reviewing'[v].at = "review" /\ reviewing'[v].id = x
                   /\ reviewing'[v].seen.status # "approved" /\ order'[x].status = "approved"
                   => charges'[x] < approvals'[x] + given'[x]
  <2>1. PICK id \in Orders, to \in OrderStatuses : id = reviewing[w].id /\ to = reviewing[w].to
    BY <1>t, <1>4, ReviewShape DEF DecideOrder
  <2>2. /\ order' = [order EXCEPT ![id] = [status |-> to, total |-> order[id].total]]
        /\ charges' = IF ChargesNow(reviewing[w]) THEN [charges EXCEPT ![id] = @ + 1] ELSE charges
        /\ approvals' = [approvals EXCEPT ![id] =
                            IF to = "approved" /\ order[id].status # "approved" THEN @ + 1 ELSE @]
        /\ given' = given
        /\ reviewing[w].at = "review"
    BY <1>4, <2>1 DEF DecideOrder
  <2>3. /\ reviewing'[w].at = "idle"
        /\ \A v \in Reviewers \ {w} : reviewing'[v] = reviewing[v]
    BY <1>t, <1>4 DEF DecideOrder, PurchasesTypeOK, AtRest
  <2>4. CASE x # id
    BY <1>t, <1>0, <2>2, <2>3, <2>4 DEF PurchasesTypeOK
  <2>5. CASE x = id
    <3>1. \A v \in Reviewers : ~(reviewing'[v].at = "review" /\ reviewing'[v].id = id)
      BY <2>1, <2>2, <2>3 DEF OneReviewPerOrder
    <3>2. /\ charges'[id] = IF ChargesNow(reviewing[w]) THEN charges[id] + 1 ELSE charges[id]
          /\ approvals'[id] = IF to = "approved" /\ order[id].status # "approved"
                              THEN approvals[id] + 1 ELSE approvals[id]
      BY <1>t, <2>2 DEF PurchasesTypeOK
    <3>3. charges'[id] <= approvals'[id] + given'[id]
      <4>1. CASE ~ChargesNow(reviewing[w])
        BY <1>n, <1>0, <2>2, <2>5, <3>2, <4>1
      <4>2. CASE ChargesNow(reviewing[w])
        <5>1. to = "approved" /\ reviewing[w].seen.status # "approved"
          BY <2>1, <4>2 DEF ChargesNow
        <5>2. CASE order[id].status = "approved"
          BY <1>n, <1>0, <2>1, <2>2, <2>5, <3>2, <4>2, <5>1, <5>2
        <5>3. CASE order[id].status # "approved"
          BY <1>n, <1>0, <2>2, <2>5, <3>2, <4>2, <5>1, <5>3
        <5>4. QED BY <5>2, <5>3
      <4>3. QED BY <4>1, <4>2
    <3>4. QED BY <2>5, <3>1, <3>3
  <2>6. QED BY <2>4, <2>5
<1>5. ASSUME NEW id \in Orders, NEW status \in OrderStatuses, NEW total \in Totals, Put(id, status, total)
      PROVE  /\ charges'[x] <= approvals'[x] + given'[x]
             /\ \A v \in Reviewers :
                   /\ reviewing'[v].at = "review" /\ reviewing'[v].id = x
                   /\ reviewing'[v].seen.status # "approved" /\ order'[x].status = "approved"
                   => charges'[x] < approvals'[x] + given'[x]
  <2>1. /\ order'[id] = [status |-> status, total |-> total]
        /\ \A y \in Orders \ {id} : order'[y] = order[y]
        /\ given[x] <= given'[x] /\ given'[x] \in Nat
        /\ status = "approved" /\ order[id].status # "approved" => given'[id] = given[id] + 1
        /\ charges' = charges /\ approvals' = approvals /\ reviewing' = reviewing
    BY <1>t, <1>5, PutKeeps DEF PurchasesTypeOK
  <2>2. CASE order[x].status = "approved"
    BY <1>n, <1>0, <2>1, <2>2
  <2>3. CASE order[x].status # "approved"
    <3>1. order'[x].status = "approved" => given'[x] = given[x] + 1
      BY <2>1, <2>3
    <3>2. QED BY <1>n, <1>0, <2>1, <3>1
  <2>4. QED BY <2>2, <2>3
<1>6. CASE UNCHANGED <<order, charges, approvals, given, reviewing>>
  BY <1>0, <1>6
<1>7. CASE \E w \in Reviewers, id \in Orders, to \in OrderStatuses : ReadOrder(w, id, to)
  BY <1>1, <1>2, <1>7
<1>8. CASE \E w \in Reviewers : RollBack(w)
  BY <1>1, <1>3, <1>8
<1>9. QED
  BY <1>4, <1>5, <1>6, <1>7, <1>8 DEF PurchasesNext, purchaseVars, Save, EditOrder, Adjust

\* "Approving charges the mileage and leaves a record" holds as long as no two
\* reviews of one order overlap: the order has then never been charged more
\* often than it has become approved, with any number of workers that review
\* different orders, staff that edit orders under a review, adjustments and
\* reviews rolled back.
THEOREM ReviewsApartChargeOnce ==
    PurchasesSpec /\ []OneReviewPerOrder => []ChargedOncePerApproval
<1>1. PurchasesInit => ChargesAccounted
  BY DEF PurchasesInit, ChargesAccounted, AtRest
<1>2. /\ PurchasesInv /\ OneReviewPerOrder /\ ChargesAccounted
      /\ [PurchasesNext]_purchaseVars
      => ChargesAccounted'
  BY NextChargesAccounted
<1>3. ChargesAccounted => ChargedOncePerApproval
  BY DEF ChargesAccounted, ChargedOncePerApproval
<1>4. QED BY <1>1, <1>2, <1>3, PurchasesInvariance, PTL DEF PurchasesSpec

-----------------------------------------------------------------------------
(* Mission records *)

(* Largest and smallest of a few numbers *)

LEMMA MaxOfTwo ==
    ASSUME NEW a \in Int, NEW b \in Int
    PROVE  Max({a, b}) = IF a >= b THEN a ELSE b
<1>1. CASE a >= b
  BY <1>1 DEF Max
<1>2. CASE ~(a >= b)
  BY <1>2 DEF Max
<1>3. QED BY <1>1, <1>2

LEMMA MinOfTwo ==
    ASSUME NEW a \in Int, NEW b \in Int
    PROVE  Min({a, b}) = IF a <= b THEN a ELSE b
<1>1. CASE a <= b
  BY <1>1 DEF Min
<1>2. CASE ~(a <= b)
  BY <1>2 DEF Min
<1>3. QED BY <1>1, <1>2

\* Both lists of tiers pay these amounts.
TierAmounts == {0, 10000, 30000, 50000}

LEMMA MaxOfTiers ==
    ASSUME NEW S \in SUBSET TierAmounts, S # {}
    PROVE  Max(S) \in S /\ \A y \in S : Max(S) >= y
<1>1. \E m \in S : \A y \in S : m >= y
  <2>0. S \subseteq {0, 10000, 30000, 50000}
    BY DEF TierAmounts
  <2>1. CASE 50000 \in S
    BY <2>0, <2>1
  <2>2. CASE 50000 \notin S /\ 30000 \in S
    BY <2>0, <2>2
  <2>3. CASE 50000 \notin S /\ 30000 \notin S /\ 10000 \in S
    BY <2>0, <2>3
  <2>4. CASE 50000 \notin S /\ 30000 \notin S /\ 10000 \notin S
    <3>1. \A y \in S : y = 0
      BY <2>0, <2>4
    <3>2. 0 \in S
      BY <3>1
    <3>3. QED BY <3>1, <3>2
  <2>5. QED BY <2>1, <2>2, <2>3, <2>4
<1>2. QED BY <1>1 DEF Max

\* The tiers a count has reached
Reached(count, tiers) == {0} \cup {t[2] : t \in {x \in tiers : count >= x[1]}}

LEMMA TierGrows ==
    ASSUME NEW tiers \in {StudyCertTiers, QuizTiers}, NEW c \in Nat, NEW d \in Nat, c <= d
    PROVE  /\ Tier(c, tiers) \in Nat /\ Tier(d, tiers) \in Nat
           /\ Tier(c, tiers) <= Tier(d, tiers)
<1>1. Reached(c, tiers) \subseteq TierAmounts /\ Reached(d, tiers) \subseteq TierAmounts
  BY DEF Reached, StudyCertTiers, QuizTiers, TierAmounts
<1>2. \A x \in tiers : x[1] \in Nat
  BY DEF StudyCertTiers, QuizTiers
<1>3. Reached(c, tiers) \subseteq Reached(d, tiers)
  BY <1>2 DEF Reached
<1>4. Reached(c, tiers) # {} /\ Reached(d, tiers) # {}
  BY DEF Reached
<1>5. Tier(c, tiers) = Max(Reached(c, tiers)) /\ Tier(d, tiers) = Max(Reached(d, tiers))
  BY DEF Tier, Reached
<1>6. /\ Tier(c, tiers) \in Reached(c, tiers) /\ Tier(d, tiers) \in Reached(d, tiers)
      /\ \A y \in Reached(d, tiers) : Tier(d, tiers) >= y
  BY <1>1, <1>4, <1>5, MaxOfTiers
<1>7. TierAmounts \subseteq Nat
  BY DEF TierAmounts
<1>8. QED BY <1>1, <1>3, <1>6, <1>7

LEMMA CodingGrows ==
    ASSUME NEW M, NEW N, M \subseteq N
    PROVE  Coding(M) \in Nat /\ Coding(M) <= Coding(N)
BY DEF Coding

Tiered == {"studyCert", "precourseQuiz", "certification"}

\* More approved records are worth no less.
LEMMA TargetGrows ==
    ASSUME NEW kind \in Tiered, NEW A, NEW B, A \subseteq B, IsFiniteSet(B)
    PROVE  /\ Target(kind, A) \in Nat /\ Target(kind, B) \in Nat
           /\ Target(kind, A) <= Target(kind, B)
<1>1. /\ IsFiniteSet(A) /\ Cardinality(A) \in Nat /\ Cardinality(B) \in Nat
      /\ Cardinality(A) <= Cardinality(B)
  BY FS_Subset, FS_CardinalityType
<1>2. /\ Cardinality(Passed(A)) \in Nat /\ Cardinality(Passed(B)) \in Nat
      /\ Cardinality(Passed(A)) <= Cardinality(Passed(B))
  <2>1. Passed(A) \subseteq Passed(B) /\ Passed(B) \subseteq B
    BY DEF Passed
  <2>2. IsFiniteSet(Passed(B))
    BY <2>1, FS_Subset
  <2>3. IsFiniteSet(Passed(A))
    BY <2>1, <2>2, FS_Subset
  <2>4. QED BY <2>1, <2>2, <2>3, FS_Subset, FS_CardinalityType
<1>3. CASE kind = "studyCert"
  BY <1>1, <1>3, TierGrows DEF Target
<1>4. CASE kind = "precourseQuiz"
  BY <1>2, <1>4, TierGrows DEF Target
<1>5. CASE kind = "certification"
  <2>1. {row[x].mark : x \in A} \subseteq {row[x].mark : x \in B}
    OBVIOUS
  <2>2. QED BY <1>5, <2>1, CodingGrows DEF Target
<1>6. QED BY <1>3, <1>4, <1>5 DEF Tiered

-----------------------------------------------------------------------------
(* Types *)

LEMMA MineShape ==
    ASSUME TypeOK
    PROVE  /\ Mine \subseteq Records /\ IsFiniteSet(Mine)
           /\ \A x \in Mine : student.kind[x] \in Kinds
           /\ student.amounts \subseteq Nat
<1>1. student \in Students
  BY DEF TypeOK
<1>2. Mine \subseteq Records /\ \A x \in Mine : student.kind[x] \in Kinds
  BY <1>1, MissionAssumption DEF Mine
<1>3. student.amounts \subseteq Nat
  BY <1>1, MissionAssumption
<1>4. QED BY <1>2, <1>3, MissionAssumption, FS_Subset

LEMMA RowShape ==
    ASSUME TypeOK, NEW x \in Records
    PROVE  row[x].paid \in Int /\ row[x].mark \in AllMarks /\ paidOut[x] \in Int
<1>1. row[x] \in Rows \/ row[x] = NoRow \/ row[x] = Gone
  BY DEF TypeOK
<1>2. \A r \in Rows : r.paid \in Int /\ r.mark \in AllMarks
  BY DEF Rows
<1>3. "any" \in AllMarks
  BY DEF AllMarks, Kinds, Marks
<1>4. /\ NoRow.paid \in Int /\ NoRow.mark \in AllMarks
      /\ Gone.paid \in Int /\ Gone.mark \in AllMarks
  BY <1>3 DEF NoRow, Gone
<1>5. row[x].paid \in Int /\ row[x].mark \in AllMarks
  BY <1>1, <1>2, <1>4
<1>6. QED BY <1>5 DEF TypeOK

\* The two shapes a request at work has
ReviewRequests == [at: {"review"}, rec: Records, seen: Rows, to: Statuses, reward: Int]
EditRequests == [at: {"edit"}, rec: Records, seen: Rows, to: Statuses \cup {"keep"},
          mark: AllMarks \cup {"keep"}]

LEMMA RequestShape ==
    ASSUME TypeOK, NEW w \in Workers
    PROVE  /\ req[w].at = "review" => req[w] \in ReviewRequests
           /\ req[w].at = "edit" => req[w] \in EditRequests
BY DEF TypeOK, ReqStates, Idle, ReviewRequests, EditRequests

\* What the approved records other than rec were given together
LEMMA GivenType ==
    ASSUME TypeOK, NEW R \in SUBSET Mine
    PROVE  /\ IsFiniteSet(R) /\ \A x \in R : Amounts[x] \in Int
           /\ SumFunctionOnSet(Amounts, R) \in Int
<1>1. IsFiniteSet(R)
  BY MineShape, FS_Subset
<1>2. \A x \in R : Amounts[x] \in Int
  BY MineShape, RowShape DEF Amounts
<1>3. QED BY <1>1, <1>2, SumType

\* A reward is a number, and within the cap of a mission that has one.
LEMMA RewardType ==
    ASSUME TypeOK, NEW rec \in Mine, NEW amount \in Nat
    PROVE  /\ Reward(rec, amount) \in Nat
           /\ LET kind == student.kind[rec]
                  others == Approved(kind) \ {rec}
                  sofar == SumFunctionOnSet(Amounts, others)
              IN  /\ kind \in {"blog", "study"} /\ sofar <= Cap(kind) =>
                        sofar + Reward(rec, amount) <= Cap(kind)
                  /\ kind \notin {"blog", "study"} =>
                        Reward(rec, amount) = Target(kind, others \cup {rec}) - Target(kind, others)
<1> DEFINE kind == student.kind[rec]
           others == Approved(kind) \ {rec}
           sofar == SumFunctionOnSet(Amounts, others)
           asked == IF amount = 0 THEN Default(kind) ELSE amount
<1>1. kind \in Kinds
  BY MineShape
<1>2. others \subseteq Mine /\ others \cup {rec} \subseteq Mine
  BY DEF Approved
<1>3. sofar \in Int
  BY <1>2, GivenType
<1>4. asked \in Nat /\ Cap(kind) \in Nat
  BY DEF Default, Cap, StudyReward, BlogMax
<1>5. CASE kind \in {"blog", "study"}
  <2>1. Reward(rec, amount) = Max({0, Min({asked, Cap(kind) - sofar})})
    BY <1>5 DEF Reward
  <2> HIDE DEF kind, sofar, asked
  <2>2. Cap(kind) - sofar \in Int /\ asked \in Int
    BY <1>3, <1>4
  <2>3. PICK left \in Int : left = Cap(kind) - sofar
    BY <2>2
  <2>4. Min({asked, left}) = IF asked <= left THEN asked ELSE left
    BY <2>2, MinOfTwo
  <2>5. PICK pay \in Int : pay = Min({asked, left})
    BY <2>2, <2>4
  <2>6. Max({0, pay}) = IF 0 >= pay THEN 0 ELSE pay
    BY MaxOfTwo
  <2>7. Reward(rec, amount) = IF 0 >= pay THEN 0 ELSE pay
    BY <2>1, <2>3, <2>5, <2>6
  <2>8. pay <= Cap(kind) - sofar
    BY <2>2, <2>3, <2>4, <2>5
  <2>9. Reward(rec, amount) \in Nat
    BY <2>7
  <2>10. sofar <= Cap(kind) => sofar + Reward(rec, amount) <= Cap(kind)
    BY <1>3, <1>4, <2>7, <2>8
  <2>11. QED BY <1>5, <2>9, <2>10 DEF kind, sofar
<1>6. CASE kind \notin {"blog", "study"}
  <2>1. kind \in Tiered
    BY <1>1, <1>6 DEF Kinds, Tiered
  <2>2. Reward(rec, amount) = Max({0, Target(kind, others \cup {rec}) - Target(kind, others)})
    BY <1>6 DEF Reward
  <2>3. IsFiniteSet(others \cup {rec}) /\ others \subseteq others \cup {rec}
    BY <1>2, MineShape, FS_Subset
  <2> HIDE DEF kind, others
  <2>4. PICK a \in Nat, b \in Nat : a = Target(kind, others) /\ b = Target(kind, others \cup {rec}) /\ a <= b
    BY <2>1, <2>3, TargetGrows
  <2>5. PICK d \in Nat : d = b - a
    BY <2>4
  <2>6. Max({0, d}) = d
    BY <2>5, MaxOfTwo
  <2>7. Reward(rec, amount) = d
    BY <2>2, <2>4, <2>5, <2>6
  <2>8. QED BY <1>6, <2>4, <2>5, <2>7 DEF kind, others
<1>7. QED BY <1>5, <1>6

-----------------------------------------------------------------------------
LEMMA MissionInitInv == Init => MissionInv
<1> SUFFICES ASSUME Init PROVE MissionInv
  OBVIOUS
<1>1. TypeOK
  <2>1. row \in [Records -> Rows \cup {NoRow, Gone}] /\ paidOut \in [Records -> Int]
    BY DEF Init
  <2>2. req \in [Workers -> ReqStates]
    BY DEF Init, ReqStates
  <2>3. student \in Students /\ reverted \in BOOLEAN
    BY DEF Init
  <2>4. QED BY <2>1, <2>2, <2>3 DEF TypeOK
<1>2. OneReview /\ RequestsRely
  <2>1. \A w \in Workers : req[w].at = "idle"
    BY DEF Init, Idle
  <2>2. QED BY <2>1 DEF OneReview, RequestsRely, Relies
<1>3. PaidAtAll /\ PaidFollowsStatus
  <2>1. \A rec \in Records : row[rec] = NoRow /\ paidOut[rec] = 0
    BY DEF Init
  <2>2. NoRow.paid = 0 /\ NoRow.status = "none" /\ Gone.status = "deleted"
    BY DEF NoRow, Gone
  <2>3. NoRow # Gone /\ NoRow \notin Rows
    BY <2>2 DEF Rows, Statuses
  <2>4. PaidAtAll
    <3>1. \A rec \in Records : row[rec].paid >= 0 /\ row[rec] # Gone
      BY <2>1, <2>2, <2>3
    <3>2. QED BY <2>1, <3>1, Zenon DEF PaidAtAll
  <2>5. PaidFollowsStatus
    BY <1>1, <2>1, <2>3, MineShape, Zenon DEF PaidFollowsStatus
  <2>6. QED BY <2>4, <2>5
<1>4. \A kind : Approved(kind) = {}
  <2>1. \A x \in Mine : row[x].status # "approved"
    BY <1>1, MineShape DEF Init, NoRow
  <2>2. QED BY <2>1 DEF Approved
<1>5. \A kind : Total(OfKind(kind)) = 0
  <2> SUFFICES ASSUME NEW kind PROVE Total(OfKind(kind)) = 0
    OBVIOUS
  <2>1. OfKind(kind) \subseteq Mine
    BY DEF OfKind
  <2>2. IsFiniteSet(OfKind(kind)) /\ \A x \in OfKind(kind) : paidOut[x] = 0
    BY <1>1, <2>1, MineShape, FS_Subset DEF Init
  <2>3. QED BY <2>2, SumZero DEF Total
<1>6. CapKept
  BY <1>5 DEF CapKept, Cap, BlogMax, StudyReward
<1>7. TiersAddUp
  <2>1. ASSUME NEW kind \in Tiered PROVE Target(kind, {}) = 0
    <3>1. Cardinality({}) = 0 /\ Passed({}) = {}
      BY FS_EmptySet DEF Passed
    <3>2. ASSUME NEW tiers \in {StudyCertTiers, QuizTiers} PROVE Tier(0, tiers) = 0
      <4>1. Reached(0, tiers) = {0}
        BY DEF Reached, StudyCertTiers, QuizTiers
      <4>2. Max({0, 0}) = 0
        BY MaxOfTwo
      <4>3. {0, 0} = {0}
        OBVIOUS
      <4>4. QED BY <4>1, <4>2, <4>3 DEF Tier, Reached
    <3>3. {row[x].mark : x \in {}} = {}
      OBVIOUS
    <3>4. Coding({}) = 0
      BY DEF Coding
    <3>5. CASE kind = "studyCert"
      BY <3>1, <3>2, <3>5 DEF Target
    <3>6. CASE kind = "precourseQuiz"
      BY <3>1, <3>2, <3>6 DEF Target
    <3>7. CASE kind = "certification"
      BY <3>3, <3>4, <3>7 DEF Target
    <3>8. QED BY <3>5, <3>6, <3>7 DEF Tiered
  <2>2. QED BY <1>4, <1>5, <2>1 DEF TiersAddUp, Tiered
<1>8. QED BY <1>1, <1>2, <1>3, <1>6, <1>7 DEF MissionInv

\* Every step keeps the types.
LEMMA MissionNextType == MissionInv /\ [Next]_vars => TypeOK'
<1> SUFFICES ASSUME MissionInv, [Next]_vars PROVE TypeOK'
  OBVIOUS
<1>t. TypeOK /\ RequestsRely
  BY DEF MissionInv
<1>m. Mine \subseteq Records /\ \A kind : Marks(kind) \subseteq AllMarks
  BY <1>t, MineShape DEF AllMarks, Kinds, Marks
<1>1. ASSUME NEW rec \in Mine, NEW mark \in Marks(student.kind[rec]), Submit(rec, mark)
      PROVE  TypeOK'
  <2>1. [status |-> "pending", paid |-> 0, mark |-> mark] \in Rows
    BY <1>m DEF Rows, Statuses
  <2>2. row' \in [Records -> Rows \cup {NoRow, Gone}]
    BY <1>t, <1>1, <2>1 DEF Submit, TypeOK
  <2>3. UNCHANGED <<student, paidOut, reverted, req>>
    BY <1>1 DEF Submit
  <2>4. QED BY <1>t, <2>2, <2>3 DEF TypeOK
<1>2. ASSUME NEW w \in Workers, NEW rec \in Mine, NEW to \in Statuses,
             NEW amount \in student.amounts, ReviewRead(w, rec, to, amount)
      PROVE  TypeOK'
  <2>1. PICK pay \in Int : pay = IF to = "approved" /\ row[rec].status # "approved"
                                 THEN Reward(rec, amount) ELSE 0
    <3>1. amount \in Nat
      BY <1>t, MineShape
    <3>2. Reward(rec, amount) \in Nat
      BY <1>t, <3>1, RewardType
    <3>3. QED BY <3>2
  <2>2. row[rec] \in Rows /\ rec \in Records
    BY <1>m, <1>2 DEF ReviewRead
  <2>3. [at |-> "review", rec |-> rec, seen |-> row[rec], to |-> to, reward |-> pay] \in ReviewRequests
    BY <2>2 DEF ReviewRequests
  <2>4. req' = [req EXCEPT ![w] =
                  [at |-> "review", rec |-> rec, seen |-> row[rec], to |-> to, reward |-> pay]]
    BY <1>2, <2>1 DEF ReviewRead
  <2>5. req' \in [Workers -> ReqStates]
    BY <1>t, <2>3, <2>4 DEF TypeOK, ReqStates, ReviewRequests
  <2>6. UNCHANGED <<student, row, paidOut, reverted>>
    BY <1>2 DEF ReviewRead
  <2>7. QED BY <1>t, <2>5, <2>6 DEF TypeOK
<1>3. ASSUME NEW w \in Workers, ReviewWrite(w)
      PROVE  TypeOK'
  <2>1. req[w] \in ReviewRequests
    BY <1>t, <1>3, RequestShape DEF ReviewWrite
  <2>2. PICK rec \in Records, seen \in Rows, to \in Statuses, pay \in Int :
           rec = req[w].rec /\ seen = req[w].seen /\ to = req[w].to /\ pay = req[w].reward
    BY <2>1 DEF ReviewRequests
  <2>3. seen.paid \in Int /\ seen.mark \in AllMarks
    BY DEF Rows
  <2>4. Payment(w) \in Int
    BY <2>2, <2>3 DEF Payment
  <2>5. PaidAfter(w) \in Int
    BY <2>2, <2>3 DEF PaidAfter
  <2>6. PICK m \in Int, p \in Int : m = Payment(w) /\ p = PaidAfter(w)
    BY <2>4, <2>5
  <2>7. [status |-> to, paid |-> p, mark |-> seen.mark] \in Rows
    BY <2>3 DEF Rows
  <2>8. /\ row' = [row EXCEPT ![rec] = [status |-> to, paid |-> p, mark |-> seen.mark]]
        /\ paidOut' = [paidOut EXCEPT ![rec] = @ + m]
        /\ req' = [req EXCEPT ![w] = Idle] /\ student' = student
    BY <1>3, <2>2, <2>6 DEF ReviewWrite
  <2>9. row' \in [Records -> Rows \cup {NoRow, Gone}]
    BY <1>t, <2>7, <2>8 DEF TypeOK
  <2>10. paidOut' \in [Records -> Int]
    BY <1>t, <2>8 DEF TypeOK
  <2>11. req' \in [Workers -> ReqStates]
    BY <1>t, <2>8 DEF TypeOK, ReqStates
  <2>12. reverted' \in BOOLEAN
    BY <1>3 DEF ReviewWrite
  <2>13. QED BY <1>t, <2>8, <2>9, <2>10, <2>11, <2>12 DEF TypeOK
<1>4. ASSUME NEW w \in Workers, NEW rec \in Mine, NEW to \in Statuses \cup {"keep"},
             NEW mark \in Marks(student.kind[rec]) \cup {"keep"}, EditRead(w, rec, to, mark)
      PROVE  TypeOK'
  <2>1. row[rec] \in Rows /\ rec \in Records /\ mark \in AllMarks \cup {"keep"}
    BY <1>m, <1>4 DEF EditRead
  <2>2. [at |-> "edit", rec |-> rec, seen |-> row[rec], to |-> to, mark |-> mark] \in EditRequests
    BY <2>1 DEF EditRequests
  <2>3. req' \in [Workers -> ReqStates]
    BY <1>t, <1>4, <2>2 DEF EditRead, TypeOK, ReqStates, EditRequests
  <2>4. UNCHANGED <<student, row, paidOut, reverted>>
    BY <1>4 DEF EditRead
  <2>5. QED BY <1>t, <2>3, <2>4 DEF TypeOK
<1>5. ASSUME NEW w \in Workers, EditWrite(w)
      PROVE  TypeOK'
  <2>1. req[w] \in EditRequests
    BY <1>t, <1>5, RequestShape DEF EditWrite
  <2>2. PICK rec \in Records, seen \in Rows, to \in Statuses \cup {"keep"}, mark \in AllMarks \cup {"keep"} :
           rec = req[w].rec /\ seen = req[w].seen /\ to = req[w].to /\ mark = req[w].mark
    BY <2>1 DEF EditRequests
  <2>3. row[rec] \in Rows \cup {Gone}
    BY <1>t, <1>5, <2>2 DEF RequestsRely, Relies, EditWrite, TypeOK
  <2>4. PICK s, p, m : /\ s = IF to = "keep" THEN row[rec].status ELSE to
                       /\ p = IF mark = "keep" THEN row[rec].paid ELSE seen.paid
                       /\ m = IF mark = "keep" THEN row[rec].mark ELSE mark
    OBVIOUS
  <2>5. /\ row' = [row EXCEPT ![rec] = IF @ = Gone THEN @ ELSE [status |-> s, paid |-> p, mark |-> m]]
        /\ req' = [req EXCEPT ![w] = Idle] /\ UNCHANGED <<student, paidOut, reverted>>
    BY <1>5, <2>2, <2>4 DEF EditWrite
  <2>6. row[rec] # Gone => [status |-> s, paid |-> p, mark |-> m] \in Rows
    <3>1. SUFFICES ASSUME row[rec] \in Rows PROVE s \in Statuses /\ p \in Int /\ m \in AllMarks
      BY <2>3 DEF Rows
    <3>2. s \in Statuses
      BY <2>4, <3>1 DEF Rows
    <3>3. p \in Int /\ m \in AllMarks
      BY <2>4, <3>1 DEF Rows
    <3>4. QED BY <3>2, <3>3
  <2>7. row' \in [Records -> Rows \cup {NoRow, Gone}]
    BY <1>t, <2>5, <2>6 DEF TypeOK
  <2>8. req' \in [Workers -> ReqStates]
    BY <1>t, <2>5 DEF TypeOK, ReqStates
  <2>9. QED BY <1>t, <2>5, <2>7, <2>8 DEF TypeOK
<1>6. ASSUME NEW rec \in Mine, Delete(rec)
      PROVE  TypeOK'
  BY <1>t, <1>6 DEF Delete, TypeOK
<1>7. ASSUME NEW w \in Workers, Abort(w)
      PROVE  TypeOK'
  BY <1>t, <1>7 DEF Abort, TypeOK, ReqStates
<1>8. CASE UNCHANGED vars
  BY <1>t, <1>8 DEF vars, TypeOK
<1>9. QED BY <1>1, <1>2, <1>3, <1>4, <1>5, <1>6, <1>7, <1>8 DEF Next, StudentNext, ReviewNext, EditNext
-----------------------------------------------------------------------------
(* What steps leave alone *)

\* What a set of records is worth depends on their marks.
LEMMA TargetStays ==
    ASSUME NEW kind, NEW R, \A x \in R : row'[x].mark = row[x].mark
    PROVE  Target(kind, R)' = Target(kind, R)
<1>1. Passed(R)' = Passed(R)
  BY DEF Passed
<1>2. {row'[x].mark : x \in R} = {row[x].mark : x \in R}
  OBVIOUS
<1>3. Cardinality(Passed(R)') = Cardinality(Passed(R))
  BY <1>1
<1>4. Coding({row'[x].mark : x \in R}) = Coding({row[x].mark : x \in R})
  BY <1>2
<1>5. QED BY <1>3, <1>4, Zenon DEF Target

\* A reward depends on the approved records and on the marks.
LEMMA RewardStays ==
    ASSUME student' = student, Amounts' = Amounts, NEW rec \in Mine, NEW amount,
           Approved(student.kind[rec])' = Approved(student.kind[rec]),
           \A x \in Approved(student.kind[rec]) \cup {rec} : row'[x].mark = row[x].mark
    PROVE  Reward(rec, amount)' = Reward(rec, amount)
<1>1. PICK kind, A, B : /\ kind = student.kind[rec] /\ A = Approved(kind) \ {rec} /\ B = A \cup {rec}
                        /\ A = Approved(kind)' \ {rec}
  OBVIOUS
<1>2. Target(kind, A)' = Target(kind, A) /\ Target(kind, B)' = Target(kind, B)
  BY <1>1, TargetStays
<1>3. /\ student'.kind[rec] = kind /\ Approved(kind)' \ {rec} = A
      /\ student.kind[rec] = kind /\ Approved(kind) \ {rec} = A
  BY <1>1
<1>4. QED BY <1>1, <1>2, <1>3, Zenon DEF Reward

\* What is said of the rows and the ledger stays while these do.
LEMMA QuietRows ==
    ASSUME MissionInv, UNCHANGED <<student, row, paidOut, reverted>>
    PROVE  /\ PaidAtAll' /\ PaidFollowsStatus' /\ CapKept' /\ TiersAddUp'
           /\ \A rec \in Mine : \A amount : Reward(rec, amount)' = Reward(rec, amount)
<1>1. Mine' = Mine /\ Amounts' = Amounts /\ \A kind : Approved(kind)' = Approved(kind)
  BY DEF Mine, Amounts, Approved
<1>2. \A kind : OfKind(kind)' = OfKind(kind)
  BY <1>1 DEF OfKind
<1>3. \A kind \in Tiered : Target(kind, Approved(kind))' = Target(kind, Approved(kind))
  <2> SUFFICES ASSUME NEW kind \in Tiered
               PROVE  Target(kind, Approved(kind))' = Target(kind, Approved(kind))
    OBVIOUS
  <2>1. PICK R : R = Approved(kind) /\ R = Approved(kind)'
    BY <1>1
  <2>2. Target(kind, R)' = Target(kind, R)
    BY TargetStays
  <2>3. QED BY <2>1, <2>2
<1>4. PaidAtAll' /\ PaidFollowsStatus'
  BY <1>1 DEF MissionInv, PaidAtAll, PaidFollowsStatus
<1>5. CapKept'
  BY <1>2 DEF MissionInv, CapKept, Total
<1>6. TiersAddUp'
  BY <1>2, <1>3 DEF MissionInv, TiersAddUp, Total, Tiered
<1>7. \A rec \in Mine : \A amount : Reward(rec, amount)' = Reward(rec, amount)
  BY <1>1, RewardStays
<1>8. QED BY <1>4, <1>5, <1>6, <1>7

\* A worker that does not move relies on its record and on the rewards.
LEMMA ReliesStays ==
    ASSUME TypeOK, NEW w \in Workers, Relies(w), student' = student, req'[w] = req[w],
           req[w].at \in {"review", "edit"} => row'[req[w].rec] = row[req[w].rec] \/ (req[w].at = "edit" /\ row'[req[w].rec] # NoRow),
           req[w].at = "review" /\ ~student.edited =>
               \A rec \in Mine, amount \in Nat :
                   rec = req[w].rec => Reward(rec, amount)' = Reward(rec, amount)
    PROVE  Relies(w)'
<1>1. Mine' = Mine /\ student.amounts \subseteq Nat
  BY MineShape DEF Mine
<1>2. CASE req[w].at = "review"
  <2>1. /\ req[w].rec \in Mine /\ row'[req[w].rec] = req[w].seen
    BY <1>2 DEF Relies
  <2>2. ASSUME ~student.edited, req[w].to = "approved", req[w].seen.status # "approved"
        PROVE  \E rec \in Mine, amount \in student.amounts :
                   rec = req[w].rec /\ req[w].reward = Reward(rec, amount)'
    <3>1. PICK rec \in Mine, amount \in student.amounts :
             rec = req[w].rec /\ req[w].reward = Reward(rec, amount)
      BY <1>2, <2>2 DEF Relies
    <3>2. Reward(rec, amount)' = Reward(rec, amount)
      BY <1>1, <1>2, <2>2, <3>1
    <3>3. QED BY <3>1, <3>2
  <2>3. QED BY <1>1, <1>2, <2>1, <2>2 DEF Relies
<1>3. CASE req[w].at = "edit"
  <2>1. row'[req[w].rec] # NoRow /\ student.edited
    BY <1>3 DEF Relies
  <2>2. QED BY <1>3, <2>1 DEF Relies
<1>4. CASE req[w].at \notin {"review", "edit"}
  BY <1>4 DEF Relies
<1>5. QED BY <1>2, <1>3, <1>4
-----------------------------------------------------------------------------
(* Steps that write no record *)

LEMMA ReviewReadKeeps ==
    ASSUME MissionInv, TypeOK', NEW w \in Workers, NEW rec \in Mine, NEW to \in Statuses,
           NEW amount \in student.amounts, ReviewRead(w, rec, to, amount)
    PROVE  MissionInv'
<1>t. TypeOK /\ RequestsRely /\ OneReview
  BY DEF MissionInv
<1>1. /\ UNCHANGED <<student, row, paidOut, reverted>>
      /\ req'[w] = [at |-> "review", rec |-> rec, seen |-> row[rec], to |-> to,
                    reward |-> IF to = "approved" /\ row[rec].status # "approved"
                               THEN Reward(rec, amount) ELSE 0]
      /\ \A v \in Workers \ {w} : req'[v] = req[v] /\ req[v].at # "review"
  BY <1>t DEF ReviewRead, TypeOK, ReviewFree
<1>2. PaidAtAll' /\ PaidFollowsStatus' /\ CapKept' /\ TiersAddUp'
  BY <1>1, QuietRows
<1>3. OneReview'
  BY <1>1 DEF OneReview
<1>4. ASSUME NEW v \in Workers, v # w PROVE Relies(v)'
  BY <1>t, <1>1, <1>4, ReliesStays DEF RequestsRely
<1>5. Relies(w)'
  <2>1. Mine' = Mine
    BY <1>1 DEF Mine
  <2>2. Reward(rec, amount)' = Reward(rec, amount)
    BY <1>1, QuietRows
  <2>3. /\ req'[w].at = "review" /\ req'[w].rec = rec /\ req'[w].seen = row[rec] /\ req'[w].to = to
        /\ to = "approved" /\ row[rec].status # "approved" => req'[w].reward = Reward(rec, amount)
    BY <1>1
  <2>4. to = "approved" /\ row[rec].status # "approved" =>
            \E x \in Mine, a \in student.amounts : rec = x /\ req'[w].reward = Reward(x, a)'
    BY <2>2, <2>3
  <2>5. QED BY <1>1, <2>1, <2>3, <2>4 DEF Relies
<1>6. QED BY <1>2, <1>3, <1>4, <1>5 DEF MissionInv, RequestsRely

\* A request that ends or begins without writing
LEMMA QuietStep ==
    ASSUME MissionInv, TypeOK', NEW w \in Workers, UNCHANGED <<student, row, paidOut, reverted>>,
           \A v \in Workers \ {w} : req'[v] = req[v],
           req'[w].at # "review", Relies(w)'
    PROVE  MissionInv'
<1>t. TypeOK /\ RequestsRely /\ OneReview
  BY DEF MissionInv
<1>1. PaidAtAll' /\ PaidFollowsStatus' /\ CapKept' /\ TiersAddUp'
  BY QuietRows
<1>2. OneReview'
  BY <1>t DEF OneReview
<1>3. ASSUME NEW v \in Workers, v # w PROVE Relies(v)'
  BY <1>t, <1>3, QuietRows, ReliesStays DEF RequestsRely
<1>4. QED BY <1>1, <1>2, <1>3 DEF MissionInv, RequestsRely

LEMMA EditReadKeeps ==
    ASSUME MissionInv, TypeOK', NEW w \in Workers, NEW rec \in Mine, NEW to, NEW mark,
           EditRead(w, rec, to, mark)
    PROVE  MissionInv'
<1>t. TypeOK
  BY DEF MissionInv
<1>1. /\ UNCHANGED <<student, row, paidOut, reverted>>
      /\ req'[w] = [at |-> "edit", rec |-> rec, seen |-> row[rec], to |-> to, mark |-> mark]
      /\ \A v \in Workers \ {w} : req'[v] = req[v]
      /\ student.edited /\ row[rec] \in Rows
  BY <1>t DEF EditRead, TypeOK
<1>2. row[rec] # NoRow
  BY <1>1 DEF Rows, NoRow, Statuses
<1>3. Relies(w)'
  BY <1>1, <1>2 DEF Relies
<1>4. req'[w].at # "review"
  BY <1>1
<1>5. QED BY <1>1, <1>3, <1>4, QuietStep

LEMMA AbortKeeps ==
    ASSUME MissionInv, TypeOK', NEW w \in Workers, Abort(w)
    PROVE  MissionInv'
<1>1. /\ UNCHANGED <<student, row, paidOut, reverted>> /\ req'[w].at = "idle"
      /\ \A v \in Workers \ {w} : req'[v] = req[v]
  BY DEF Abort, MissionInv, TypeOK, Idle
<1>2. Relies(w)' /\ req'[w].at # "review"
  BY <1>1 DEF Relies
<1>3. QED BY <1>1, <1>2, QuietStep

-----------------------------------------------------------------------------
(* Steps that write a record *)

LEMMA SubmitKeeps ==
    ASSUME MissionInv, TypeOK', NEW rec \in Mine, NEW mark, Submit(rec, mark)
    PROVE  MissionInv'
<1>t. TypeOK /\ RequestsRely /\ OneReview /\ PaidAtAll /\ PaidFollowsStatus /\ CapKept /\ TiersAddUp
  BY DEF MissionInv
<1>m. Mine \subseteq Records /\ Mine' = Mine
  BY <1>t, MineShape DEF Submit, Mine
<1>1. /\ row[rec] = NoRow /\ UNCHANGED <<student, paidOut, reverted, req>>
      /\ row'[rec] = [status |-> "pending", paid |-> 0, mark |-> mark]
      /\ \A x \in Records \ {rec} : row'[x] = row[x]
  BY <1>t, <1>m DEF Submit, TypeOK
<1>2. row[rec].paid = 0 /\ row[rec].status # "approved" /\ row[rec] \notin Rows
  BY <1>1 DEF NoRow, Rows, Statuses
<1>3. row'[rec].paid = 0 /\ row'[rec].status = "pending"
  BY <1>1
<1>4. Amounts' = Amounts
  BY <1>m, <1>1, <1>2, <1>3 DEF Amounts
<1>5. \A kind : Approved(kind)' = Approved(kind) /\ OfKind(kind)' = OfKind(kind)
  BY <1>m, <1>1, <1>2, <1>3 DEF Approved, OfKind
<1>6. \A kind : \A x \in Approved(kind) : x # rec /\ row'[x] = row[x]
  BY <1>m, <1>1, <1>2 DEF Approved
<1>7. PaidAtAll'
  <2>1. row'[rec] # NoRow /\ row'[rec] # Gone
    BY <1>3 DEF NoRow, Gone
  <2>2. \A x \in Records : row'[x] = NoRow => row[x] = NoRow /\ paidOut'[x] = paidOut[x]
    BY <1>1, <2>1
  <2>3. ~student.edited => \A x \in Records : row'[x].paid >= 0 /\ row'[x] # Gone
    BY <1>t, <1>1, <1>3, <2>1 DEF PaidAtAll
  <2>4. QED BY <1>t, <1>1, <2>2, <2>3 DEF PaidAtAll
<1>8. PaidFollowsStatus'
  <2>1. paidOut[rec] = 0
    BY <1>t, <1>m, <1>1 DEF PaidAtAll
  <2>2. SUFFICES ASSUME ~student.edited, NEW x \in Mine, row'[x] \in Rows
                 PROVE  paidOut[x] = row'[x].paid /\ (row'[x].status # "approved" => paidOut[x] = 0)
    BY <1>m, <1>1 DEF PaidFollowsStatus
  <2>3. CASE x = rec
    BY <1>3, <2>1, <2>3
  <2>4. CASE x # rec
    BY <1>t, <1>m, <1>1, <2>2, <2>4 DEF PaidFollowsStatus
  <2>5. QED BY <2>3, <2>4
<1>9. CapKept'
  BY <1>t, <1>1, <1>5 DEF CapKept, Total
<1>10. TiersAddUp'
  <2>1. ASSUME NEW kind \in Tiered PROVE Target(kind, Approved(kind))' = Target(kind, Approved(kind))
    <3>1. PICK R : R = Approved(kind) /\ R = Approved(kind)'
      BY <1>5
    <3>2. Target(kind, R)' = Target(kind, R)
      BY <1>6, <3>1, TargetStays
    <3>3. QED BY <3>1, <3>2
  <2>2. QED BY <1>t, <1>1, <1>5, <2>1 DEF TiersAddUp, Total, Tiered
<1>11. ASSUME NEW w \in Workers PROVE Relies(w)'
  <2>1. Relies(w)
    BY <1>t DEF RequestsRely
  <2>2. CASE req[w].at = "review"
    <3>1. req[w].rec \in Mine /\ row[req[w].rec] \in Rows
      BY <1>t, <2>1, <2>2, RequestShape DEF Relies, ReviewRequests
    <3>2. req[w].rec # rec /\ row'[req[w].rec] = row[req[w].rec]
      BY <1>m, <1>1, <1>2, <3>1
    <3>3. ASSUME NEW x \in Mine, NEW amount \in Nat, x = req[w].rec
          PROVE  Reward(x, amount)' = Reward(x, amount)
      <4>1. row'[x].mark = row[x].mark
        BY <3>2, <3>3
      <4>2. \A y \in Approved(student.kind[x]) \cup {x} : row'[y].mark = row[y].mark
        BY <1>6, <4>1
      <4>3. QED BY <1>1, <1>4, <1>5, <4>2, RewardStays
    <3>4. req'[w] = req[w] /\ student' = student
      BY <1>1
    <3>5. QED BY <1>t, <2>1, <2>2, <3>2, <3>3, <3>4, ReliesStays
  <2>3. CASE req[w].at = "edit"
    <3>1. req[w].rec \in Records
      BY <1>t, <2>3, RequestShape DEF EditRequests
    <3>2. row'[req[w].rec] # NoRow
      BY <1>1, <1>3, <2>1, <2>3, <3>1 DEF Relies, NoRow
    <3>3. QED BY <1>1, <2>1, <2>3, <3>2 DEF Relies
  <2>4. CASE req[w].at \notin {"review", "edit"}
    BY <1>1, <2>4 DEF Relies
  <2>5. QED BY <2>2, <2>3, <2>4
<1>12. OneReview'
  BY <1>t, <1>1 DEF OneReview
<1>13. QED BY <1>7, <1>8, <1>9, <1>10, <1>11, <1>12 DEF MissionInv, RequestsRely

\* A record edited or deleted in place is not under review, and nothing is
\* said of the ledger of a student whose records are edited.
LEMMA EditedInPlace ==
    ASSUME MissionInv, TypeOK', NEW rec \in Records, student.edited, RowFree(rec),
           UNCHANGED <<student, paidOut>>, row'[rec] # NoRow,
           \A x \in Records \ {rec} : row'[x] = row[x],
           \A v \in Workers : req'[v] = req[v] \/ req'[v] = Idle
    PROVE  MissionInv'
<1>t. TypeOK /\ RequestsRely /\ OneReview /\ PaidAtAll
  BY DEF MissionInv
<1>1. PaidFollowsStatus' /\ CapKept' /\ TiersAddUp'
  BY DEF PaidFollowsStatus, CapKept, TiersAddUp
<1>2. PaidAtAll'
  BY <1>t DEF PaidAtAll
<1>3. \A v \in Workers : req'[v].at \in {"review", "edit"} => req'[v] = req[v]
  BY DEF Idle
<1>4. OneReview'
  BY <1>t, <1>3 DEF OneReview
<1>5. ASSUME NEW w \in Workers PROVE Relies(w)'
  <2>1. CASE req'[w].at \notin {"review", "edit"}
    BY <2>1 DEF Relies
  <2>2. CASE req'[w].at = "review"
    <3>1. req[w].at = "review" /\ req'[w] = req[w] /\ Relies(w) /\ req[w].rec \in Records
      BY <1>t, <1>3, <2>2, RequestShape DEF RequestsRely, ReviewRequests
    <3>2. row'[req[w].rec] = row[req[w].rec]
      BY <3>1 DEF RowFree
    <3>3. QED BY <1>t, <3>1, <3>2, ReliesStays
  <2>3. CASE req'[w].at = "edit"
    <3>1. req[w].at = "edit" /\ req'[w] = req[w] /\ Relies(w) /\ req[w].rec \in Records
      BY <1>t, <1>3, <2>3, RequestShape DEF RequestsRely, EditRequests
    <3>2. row'[req[w].rec] # NoRow
      BY <3>1 DEF Relies
    <3>3. QED BY <1>t, <3>1, <3>2, ReliesStays
  <2>4. QED BY <2>1, <2>2, <2>3
<1>6. QED BY <1>1, <1>2, <1>4, <1>5 DEF MissionInv, RequestsRely

LEMMA EditWriteKeeps ==
    ASSUME MissionInv, TypeOK', NEW w \in Workers, EditWrite(w)
    PROVE  MissionInv'
<1>t. TypeOK /\ RequestsRely
  BY DEF MissionInv
<1>1. req[w] \in EditRequests /\ Relies(w) /\ req[w].at = "edit"
  BY <1>t, RequestShape DEF EditWrite, RequestsRely
<1>2. PICK rec \in Records : rec = req[w].rec
  BY <1>1 DEF EditRequests
<1>3. student.edited /\ row[rec] # NoRow
  BY <1>1, <1>2 DEF Relies
<1>4. PICK s, p, m :
         /\ row' = [row EXCEPT ![rec] = IF @ = Gone THEN @ ELSE [status |-> s, paid |-> p, mark |-> m]]
         /\ s = IF req[w].to = "keep" THEN row[rec].status ELSE req[w].to
  BY <1>2 DEF EditWrite
<1>5. row'[rec] # NoRow
  <2>1. row[rec] \in Rows \/ row[rec] = Gone
    BY <1>t, <1>3 DEF TypeOK
  <2>2. NoRow.status = "none" /\ NoRow # Gone
    BY DEF NoRow, Gone
  <2>3. CASE row[rec] = Gone
    BY <1>t, <1>4, <2>2, <2>3 DEF TypeOK
  <2>4. CASE row[rec] # Gone
    <3>1. row'[rec] = [status |-> s, paid |-> p, mark |-> m]
      BY <1>t, <1>4, <2>4 DEF TypeOK
    <3>2. row[rec].status \in Statuses /\ req[w].to \in Statuses \cup {"keep"}
      BY <1>1, <2>1, <2>4 DEF Rows, EditRequests
    <3>3. s # "none"
      BY <1>4, <3>2 DEF Statuses
    <3>4. row'[rec].status = s
      BY <3>1
    <3>5. QED BY <2>2, <3>3, <3>4
  <2>5. QED BY <2>3, <2>4
<1>6. /\ RowFree(rec) /\ UNCHANGED <<student, paidOut, reverted>> /\ req' = [req EXCEPT ![w] = Idle]
  BY <1>2 DEF EditWrite
<1>7. \A x \in Records \ {rec} : row'[x] = row[x]
  BY <1>t, <1>4 DEF TypeOK
<1>8. \A v \in Workers : req'[v] = req[v] \/ req'[v] = Idle
  BY <1>t, <1>6 DEF TypeOK
<1>9. QED BY <1>3, <1>5, <1>6, <1>7, <1>8, EditedInPlace

LEMMA DeleteKeeps ==
    ASSUME MissionInv, TypeOK', NEW rec \in Mine, Delete(rec)
    PROVE  MissionInv'
<1>t. TypeOK /\ rec \in Records
  BY MineShape DEF MissionInv
<1>1. row'[rec] # NoRow
  BY <1>t DEF Delete, TypeOK, Gone, NoRow
<1>2. QED BY <1>t, <1>1, EditedInPlace DEF Delete, TypeOK
\* What a review writes, and what its student has been paid by then.  Only the
\* first of the four cases pays, and only the second takes anything back.
LEMMA WhatIsWritten ==
    ASSUME MissionInv, NEW w \in Workers, ReviewWrite(w), ~student.edited
    PROVE  \E rec \in Mine :
             /\ rec = req[w].rec
             /\ \A x \in Records \ {rec} : row'[x] = row[x] /\ paidOut'[x] = paidOut[x]
             /\ row'[rec].mark = row[rec].mark /\ row'[rec].status = req[w].to
             /\ row'[rec].paid >= 0 /\ paidOut'[rec] = row'[rec].paid
             /\ paidOut[rec] = row[rec].paid
             /\ \/ /\ row'[rec].status = "approved" /\ row[rec].status # "approved"
                   /\ paidOut[rec] = 0
                   /\ \E a \in student.amounts : paidOut'[rec] = Reward(rec, a)
                \/ /\ row'[rec].status # "approved" /\ row[rec].status = "approved"
                   /\ reverted' /\ paidOut'[rec] = 0
                \/ /\ row'[rec].status = "approved" /\ row[rec].status = "approved"
                   /\ paidOut'[rec] = paidOut[rec]
                \/ /\ row'[rec].status # "approved" /\ row[rec].status # "approved"
                   /\ paidOut'[rec] = paidOut[rec] /\ paidOut'[rec] = 0
<1>t. TypeOK /\ RequestsRely /\ PaidAtAll /\ PaidFollowsStatus
  BY DEF MissionInv
<1>1. req[w] \in ReviewRequests /\ Relies(w) /\ req[w].at = "review"
  BY <1>t, RequestShape DEF ReviewWrite, RequestsRely
<1>2. PICK rec \in Mine, to \in Statuses, pay \in Int :
         rec = req[w].rec /\ row[rec] = req[w].seen /\ to = req[w].to /\ pay = req[w].reward
  BY <1>1 DEF Relies, ReviewRequests
<1>3. rec \in Records /\ row[rec] \in Rows
  BY <1>t, <1>1, <1>2, MineShape DEF ReviewRequests
<1>4. PICK m, p : m = Payment(w) /\ p = PaidAfter(w)
  OBVIOUS
<1>5. /\ row' = [row EXCEPT ![rec] = [status |-> to, paid |-> p, mark |-> row[rec].mark]]
      /\ paidOut' = [paidOut EXCEPT ![rec] = @ + m]
      /\ reverted' = (reverted \/ (row[rec].status = "approved" /\ to # "approved"))
  BY <1>2, <1>4 DEF ReviewWrite
<1>6. /\ \A x \in Records \ {rec} : row'[x] = row[x] /\ paidOut'[x] = paidOut[x]
      /\ row'[rec].mark = row[rec].mark /\ row'[rec].status = to /\ row'[rec].paid = p
      /\ paidOut'[rec] = paidOut[rec] + m
  BY <1>t, <1>3, <1>5 DEF TypeOK
<1>7. /\ paidOut[rec] = row[rec].paid /\ row[rec].paid \in Int /\ row[rec].paid >= 0
      /\ row[rec].status # "approved" => paidOut[rec] = 0
  <2>1. row[rec].paid >= 0
    BY <1>t, <1>3 DEF PaidAtAll
  <2>2. paidOut[rec] = row[rec].paid /\ (row[rec].status # "approved" => paidOut[rec] = 0)
    BY <1>t, <1>3 DEF PaidFollowsStatus
  <2>3. QED BY <1>t, <1>3, <2>1, <2>2, RowShape
<1>8. CASE to = "approved" /\ row[rec].status # "approved"
  <2>1. m = pay /\ p = pay
    BY <1>2, <1>4, <1>8 DEF Payment, PaidAfter
  <2>2. PICK amount \in student.amounts : pay = Reward(rec, amount)
    BY <1>1, <1>2, <1>8 DEF Relies
  <2>3. pay \in Nat
    <3>1. amount \in Nat
      BY <1>t, MineShape
    <3>2. Reward(rec, amount) \in Nat
      BY <1>t, <3>1, RewardType
    <3>3. QED BY <2>2, <3>2
  <2>4. paidOut[rec] = 0 /\ paidOut'[rec] = pay
    BY <1>6, <1>7, <1>8, <2>1, <2>3
  <2>5. /\ row'[rec].status = "approved" /\ row'[rec].status = req[w].to
        /\ row'[rec].paid >= 0 /\ paidOut'[rec] = row'[rec].paid
        /\ \E a \in student.amounts : paidOut'[rec] = Reward(rec, a)
    <3>1. paidOut'[rec] = Reward(rec, amount)
      BY <2>2, <2>4, Zenon
    <3>2. row'[rec].status = "approved" /\ row'[rec].status = req[w].to
      BY <1>2, <1>6, <1>8
    <3>3. row'[rec].paid >= 0 /\ paidOut'[rec] = row'[rec].paid
      BY <1>6, <2>1, <2>3, <2>4
    <3>4. QED BY <3>1, <3>2, <3>3
  <2>6. QED BY <1>2, <1>6, <1>7, <1>8, <2>4, <2>5
<1>9. CASE to # "approved" /\ row[rec].status = "approved"
  <2>1. reverted'
    BY <1>5, <1>9
  <2>2. CASE row[rec].paid > 0
    <3>1. m = -row[rec].paid
      BY <1>2, <1>4, <1>9, <2>2 DEF Payment
    <3>2. p = 0
      BY <1>2, <1>4, <1>7, <1>9, <2>2, <3>1 DEF PaidAfter
    <3>3. QED BY <1>2, <1>6, <1>7, <1>9, <2>1, <3>1, <3>2
  <2>3. CASE ~(row[rec].paid > 0)
    <3>1. m = 0
      BY <1>2, <1>4, <1>9, <2>3 DEF Payment
    <3>2. p = 0
      BY <1>2, <1>4, <1>7, <1>9, <2>3, <3>1 DEF PaidAfter
    <3>3. QED BY <1>2, <1>6, <1>7, <1>9, <2>1, <2>3, <3>1, <3>2
  <2>4. QED BY <2>2, <2>3
<1>10. CASE to = "approved" <=> row[rec].status = "approved"
  <2>1. m = 0
    BY <1>2, <1>4, <1>10 DEF Payment
  <2>2. p = row[rec].paid
    BY <1>2, <1>4, <1>10, <2>1 DEF PaidAfter
  <2>3. QED BY <1>2, <1>6, <1>7, <1>10, <2>1, <2>2
<1>11. QED BY <1>8, <1>9, <1>10, <1>2 DEF Statuses

\* What the approved records of a mission were given is all its records were.
LEMMA GivenIsTotal ==
    ASSUME MissionInv, ~student.edited, NEW kind
    PROVE  SumFunctionOnSet(Amounts, Approved(kind)) = Total(OfKind(kind))
<1>t. TypeOK /\ PaidAtAll /\ PaidFollowsStatus
  BY DEF MissionInv
<1>1. Mine \subseteq Records /\ OfKind(kind) \subseteq Mine /\ Approved(kind) \subseteq OfKind(kind)
  BY <1>t, MineShape DEF OfKind, Approved
<1>2. IsFiniteSet(OfKind(kind)) /\ \A x \in OfKind(kind) : paidOut[x] \in Int
  BY <1>t, <1>1, MineShape, RowShape, FS_Subset
<1>3. \A x \in OfKind(kind) \ Approved(kind) : paidOut[x] = 0
  <2> SUFFICES ASSUME NEW x \in OfKind(kind) \ Approved(kind) PROVE paidOut[x] = 0
    OBVIOUS
  <2>1. x \in Mine /\ x \in Records /\ row[x].status # "approved"
    BY <1>1 DEF OfKind, Approved
  <2>2. row[x] \in Rows \/ row[x] = NoRow
    BY <1>t, <2>1 DEF PaidAtAll, TypeOK
  <2>3. QED BY <1>t, <2>1, <2>2 DEF PaidAtAll, PaidFollowsStatus
<1>5. SumFunctionOnSet(paidOut, Approved(kind)) = SumFunctionOnSet(paidOut, OfKind(kind))
  BY <1>1, <1>2, <1>3, SumSkipZeros
<1>6. \A x \in Approved(kind) : paidOut[x] \in Int /\ Amounts[x] = paidOut[x]
  <2> SUFFICES ASSUME NEW x \in Approved(kind) PROVE paidOut[x] \in Int /\ Amounts[x] = paidOut[x]
    OBVIOUS
  <2>1. x \in Mine /\ x \in Records /\ row[x].status = "approved"
    BY <1>1 DEF Approved
  <2>2. row[x] \in Rows
    BY <1>t, <2>1 DEF TypeOK, NoRow, Gone
  <2>3. QED BY <1>t, <1>1, <1>2, <2>1, <2>2 DEF PaidFollowsStatus, Amounts
<1>7. IsFiniteSet(Approved(kind))
  BY <1>1, <1>2, FS_Subset
<1>8. SumFunctionOnSet(Amounts, Approved(kind)) = SumFunctionOnSet(paidOut, Approved(kind))
  BY <1>6, <1>7, SumSame
<1>9. QED BY <1>5, <1>8 DEF Total
LEMMA ReviewWriteKeepsSums ==
    ASSUME MissionInv, TypeOK', NEW w \in Workers, ReviewWrite(w), ~student.edited
    PROVE  CapKept' /\ TiersAddUp'
<1>t. /\ TypeOK /\ CapKept /\ TiersAddUp /\ student' = student
      /\ reverted' = (reverted \/ (req[w].seen.status = "approved" /\ req[w].to # "approved"))
  BY DEF MissionInv, ReviewWrite
<1>1. PICK rec \in Mine :
             /\ \A x \in Records \ {rec} : row'[x] = row[x] /\ paidOut'[x] = paidOut[x]
             /\ row'[rec].mark = row[rec].mark
             /\ \/ /\ row'[rec].status = "approved" /\ row[rec].status # "approved"
                   /\ paidOut[rec] = 0
                   /\ \E a \in student.amounts : paidOut'[rec] = Reward(rec, a)
                \/ /\ row'[rec].status # "approved" /\ row[rec].status = "approved"
                   /\ reverted' /\ paidOut'[rec] = 0 /\ paidOut[rec] >= 0
                \/ /\ row'[rec].status = "approved" /\ row[rec].status = "approved"
                   /\ paidOut'[rec] = paidOut[rec]
                \/ /\ row'[rec].status # "approved" /\ row[rec].status # "approved"
                   /\ paidOut'[rec] = paidOut[rec]
  <2>1. \A rec \in Mine : row[rec].paid >= 0
    BY <1>t, MineShape DEF MissionInv, PaidAtAll
  <2>2. QED BY <2>1, WhatIsWritten
<1>2. Mine \subseteq Records /\ IsFiniteSet(Mine) /\ \A kind : OfKind(kind)' = OfKind(kind) /\ OfKind(kind) \subseteq Mine
  BY <1>t, MineShape DEF OfKind, Mine
<1>3. \A x \in Records : paidOut[x] \in Int /\ paidOut'[x] \in Int
  BY <1>t DEF TypeOK
<1>f. ASSUME NEW kind
      PROVE  /\ IsFiniteSet(OfKind(kind)) /\ \A x \in OfKind(kind) : paidOut[x] \in Int
             /\ Total(OfKind(kind)) \in Int
  <2>1. IsFiniteSet(OfKind(kind)) /\ \A x \in OfKind(kind) : paidOut[x] \in Int
    BY <1>2, <1>3, FS_Subset
  <2>2. QED BY <2>1, SumType DEF Total
\* What becomes of a total
<1>4. ASSUME NEW kind
      PROVE  Total(OfKind(kind))' = IF rec \in OfKind(kind)
                                    THEN Total(OfKind(kind)) - paidOut[rec] + paidOut'[rec]
                                    ELSE Total(OfKind(kind))
  <2>1. Total(OfKind(kind))' = SumFunctionOnSet(paidOut', OfKind(kind))
    BY <1>2 DEF Total
  <2>2. CASE rec \in OfKind(kind)
    <3>1. paidOut'[rec] \in Int /\ \A x \in OfKind(kind) \ {rec} : paidOut'[x] = paidOut[x]
      BY <1>1, <1>2, <1>3
    <3>2. SumFunctionOnSet(paidOut', OfKind(kind))
             = SumFunctionOnSet(paidOut, OfKind(kind)) - paidOut[rec] + paidOut'[rec]
      BY <1>f, <2>2, <3>1, SumUpdate
    <3>3. QED BY <2>1, <2>2, <3>2 DEF Total
  <2>3. CASE rec \notin OfKind(kind)
    <3>1. \A x \in OfKind(kind) : paidOut[x] \in Int /\ paidOut'[x] = paidOut[x]
      BY <1>1, <1>2, <1>3, <2>3
    <3>2. SumFunctionOnSet(paidOut', OfKind(kind)) = SumFunctionOnSet(paidOut, OfKind(kind))
      BY <1>f, <3>1, SumSame
    <3>3. QED BY <2>1, <2>3, <3>2 DEF Total
  <2>4. QED BY <2>2, <2>3
\* What becomes of the approved records
<1>5. ASSUME NEW kind
      PROVE  Approved(kind)' = IF rec \notin OfKind(kind) \/ (row'[rec].status = "approved" <=> row[rec].status = "approved")
                               THEN Approved(kind)
                               ELSE IF row'[rec].status = "approved" THEN Approved(kind) \cup {rec}
                               ELSE Approved(kind) \ {rec}
  <2>1. Mine' = Mine /\ student'.kind = student.kind
    BY <1>t DEF Mine
  <2>2. \A x \in Mine : x # rec => row'[x] = row[x]
    BY <1>1, <1>2
  <2>3. QED BY <2>1, <2>2 DEF Approved, OfKind
\* An approval: the reward is computed from what the total has been.
<1>6. ASSUME NEW kind, rec \in OfKind(kind), row[rec].status # "approved", NEW amount \in student.amounts,
             paidOut'[rec] = Reward(rec, amount), paidOut[rec] = 0
      PROVE  /\ Total(OfKind(kind))' = Total(OfKind(kind)) + Reward(rec, amount)
             /\ Reward(rec, amount) \in Nat
             /\ kind \in {"blog", "study"} => Total(OfKind(kind))' <= Cap(kind)
             /\ kind \in Tiered =>
                   Reward(rec, amount) = Target(kind, Approved(kind) \cup {rec}) - Target(kind, Approved(kind))
  <2>1. PICK A, sofar, pay :
           A = Approved(kind) /\ sofar = Total(OfKind(kind)) /\ pay = Reward(rec, amount)
    OBVIOUS
  <2>2. A \ {rec} = A /\ student.kind[rec] = kind
    BY <1>6, <2>1 DEF Approved, OfKind
  <2>3. SumFunctionOnSet(Amounts, A) = sofar /\ sofar \in Int
    BY <1>f, <2>1, GivenIsTotal
  <2>4. amount \in Nat
    BY <1>t, MineShape
  <2>5. /\ pay \in Nat
        /\ kind \in {"blog", "study"} /\ sofar <= Cap(kind) => sofar + pay <= Cap(kind)
        /\ kind \notin {"blog", "study"} => pay = Target(kind, A \cup {rec}) - Target(kind, A)
    BY <1>t, <2>1, <2>2, <2>3, <2>4, RewardType
  <2>6. Total(OfKind(kind))' = sofar + pay
    BY <1>4, <1>6, <2>1, <2>3, <2>5
  <2>7. kind \in {"blog", "study"} => sofar <= Cap(kind)
    BY <1>t, <2>1 DEF CapKept
  <2>8. kind \in Tiered => kind \notin {"blog", "study"}
    BY DEF Tiered
  <2>9. QED BY <2>1, <2>5, <2>6, <2>7, <2>8
<1>7. CapKept'
  <2> SUFFICES ASSUME NEW kind \in {"blog", "study"}
               PROVE  Total(OfKind(kind))' <= Cap(kind)
    BY <1>t DEF CapKept
  <2>1. Total(OfKind(kind)) <= Cap(kind) /\ Total(OfKind(kind)) \in Int /\ Cap(kind) \in Int
    BY <1>t, <1>f DEF CapKept, Cap, BlogMax, StudyReward
  <2>2. paidOut[rec] \in Int
    BY <1>2, <1>3
  <2>3. CASE rec \notin OfKind(kind)
    BY <1>4, <2>1, <2>3
  <2>4. CASE rec \in OfKind(kind) /\ row'[rec].status = "approved" /\ row[rec].status # "approved"
    BY <1>1, <1>6, <2>4
  <2>5. CASE rec \in OfKind(kind) /\ (paidOut'[rec] = paidOut[rec] \/ (paidOut'[rec] = 0 /\ paidOut[rec] >= 0))
    BY <1>4, <2>1, <2>2, <2>5
  <2>6. QED BY <1>1, <2>3, <2>4, <2>5
<1>8. TiersAddUp'
  <2> SUFFICES ASSUME ~reverted', NEW kind \in Tiered
               PROVE  Total(OfKind(kind))' = Target(kind, Approved(kind))'
    BY DEF TiersAddUp, Tiered
  <2>1. Total(OfKind(kind)) = Target(kind, Approved(kind)) /\ Total(OfKind(kind)) \in Int
    <3>1. ~reverted
      BY <1>t
    <3>2. QED BY <1>t, <1>f, <3>1 DEF TiersAddUp, Tiered
  <2>2. ASSUME NEW R, R \subseteq Mine PROVE Target(kind, R)' = Target(kind, R)
    <3>1. \A x \in R : row'[x].mark = row[x].mark
      BY <1>1, <1>2, <2>2
    <3>2. QED BY <3>1, TargetStays
  <2>3. PICK A, B : A = Approved(kind) /\ B = Approved(kind)'
    OBVIOUS
  <2>4. A \subseteq Mine /\ A \cup {rec} \subseteq Mine
    BY <2>3 DEF Approved
  <2>5. paidOut[rec] \in Int
    BY <1>2, <1>3
  <2>6. Target(kind, Approved(kind))' = Target(kind, B)'
    BY <2>3
  <2>7. CASE rec \in OfKind(kind) /\ row'[rec].status = "approved" /\ row[rec].status # "approved"
    <3>1. B = A \cup {rec}
      BY <1>5, <2>3, <2>7
    <3>2. PICK amount \in student.amounts : paidOut'[rec] = Reward(rec, amount) /\ paidOut[rec] = 0
      BY <1>1, <2>7
    <3>3. PICK total \in Int, pay \in Nat : total = Total(OfKind(kind)) /\ pay = Reward(rec, amount)
      BY <1>6, <2>1, <2>7, <3>2
    <3>4. /\ Total(OfKind(kind))' = total + pay
          /\ pay = Target(kind, A \cup {rec}) - Target(kind, A)
      BY <1>6, <2>3, <2>7, <3>2, <3>3
    <3>5. total = Target(kind, A)
      BY <2>1, <2>3, <3>3
    <3>6. IsFiniteSet(A \cup {rec}) /\ A \subseteq A \cup {rec}
      BY <1>2, <2>4, FS_Subset
    <3>7. Target(kind, A \cup {rec}) \in Nat
      BY <3>6, TargetGrows
    <3>8. total + pay = Target(kind, A \cup {rec})
      BY <3>4, <3>5, <3>7
    <3>9. Target(kind, B)' = Target(kind, A \cup {rec})
      BY <2>2, <2>4, <3>1
    <3>10. QED BY <2>6, <3>4, <3>8, <3>9
  <2>8. CASE rec \notin OfKind(kind) \/ paidOut'[rec] = paidOut[rec]
    <3>1. Total(OfKind(kind))' = Total(OfKind(kind))
      BY <1>4, <2>1, <2>5, <2>8
    <3>2. CASE B = A
      <4>1. Target(kind, B)' = Target(kind, A)
        BY <2>2, <2>4, <3>2
      <4>2. QED BY <2>1, <2>3, <2>6, <3>1, <4>1
    <3>3. CASE B # A
      <4>1. rec \in OfKind(kind) /\ row'[rec].status = "approved" /\ row[rec].status # "approved"
        BY <1>1, <1>5, <2>3, <3>3
      <4>2. QED BY <2>7, <4>1
    <3>4. QED BY <3>2, <3>3
  <2>9. QED BY <1>1, <2>7, <2>8
<1>9. QED BY <1>7, <1>8
\* The record a review writes stays the one it has read.
LEMMA ReviewedRow ==
    ASSUME MissionInv, NEW w \in Workers, ReviewWrite(w)
    PROVE  \E rec \in Mine :
              /\ rec = req[w].rec /\ rec \in Records /\ row[rec] \in Rows /\ row[rec] = req[w].seen
              /\ row'[rec].status = req[w].to /\ req[w].to \in Statuses
              /\ paidOut'[rec] = paidOut[rec] + Payment(w)
              /\ \A x \in Records \ {rec} : row'[x] = row[x] /\ paidOut'[x] = paidOut[x]
<1>t. TypeOK /\ RequestsRely
  BY DEF MissionInv
<1>1. req[w] \in ReviewRequests /\ Relies(w) /\ req[w].at = "review"
  BY <1>t, RequestShape DEF ReviewWrite, RequestsRely
<1>2. PICK rec \in Mine : rec = req[w].rec /\ row[rec] = req[w].seen
  BY <1>1 DEF Relies
<1>3. rec \in Records /\ row[rec] \in Rows /\ req[w].to \in Statuses
  BY <1>t, <1>1, <1>2, MineShape DEF ReviewRequests
<1>4. PICK p, m : /\ row' = [row EXCEPT ![rec] = [status |-> req[w].to, paid |-> p, mark |-> req[w].seen.mark]]
                  /\ paidOut' = [paidOut EXCEPT ![rec] = @ + m] /\ m = Payment(w)
  BY <1>2 DEF ReviewWrite
<1>5. /\ row'[rec].status = req[w].to /\ paidOut'[rec] = paidOut[rec] + Payment(w)
      /\ \A x \in Records \ {rec} : row'[x] = row[x] /\ paidOut'[x] = paidOut[x]
  BY <1>t, <1>3, <1>4 DEF TypeOK
<1>6. QED BY <1>2, <1>3, <1>5

LEMMA ReviewWriteKeeps ==
    ASSUME MissionInv, TypeOK', NEW w \in Workers, ReviewWrite(w)
    PROVE  MissionInv'
<1>t. TypeOK /\ RequestsRely /\ OneReview /\ PaidAtAll /\ PaidFollowsStatus
  BY DEF MissionInv
<1>1. PICK rec \in Mine :
              /\ rec = req[w].rec /\ rec \in Records
              /\ row'[rec].status \in Statuses
              /\ \A x \in Records \ {rec} : row'[x] = row[x] /\ paidOut'[x] = paidOut[x]
  BY ReviewedRow
<1>2. row'[rec] # NoRow /\ row'[rec] # Gone
  BY <1>1 DEF NoRow, Gone, Statuses
<1>3. /\ student' = student /\ req'[w].at = "idle" /\ req[w].at = "review"
      /\ \A v \in Workers \ {w} : req'[v] = req[v]
  BY <1>t DEF ReviewWrite, TypeOK, Idle
<1>m. Mine' = Mine /\ Mine \subseteq Records
  BY <1>t, <1>3, MineShape DEF Mine
<1>4. OneReview'
  BY <1>t, <1>3 DEF OneReview
<1>5. ASSUME NEW v \in Workers PROVE Relies(v)'
  <2>1. CASE v = w
    BY <1>3, <2>1 DEF Relies
  <2>2. CASE v # w /\ req[v].at = "edit"
    <3>1. req[v].rec \in Records /\ Relies(v)
      BY <1>t, <2>2, RequestShape DEF EditRequests, RequestsRely
    <3>2. row'[req[v].rec] # NoRow
      BY <1>1, <1>2, <2>2, <3>1 DEF Relies
    <3>3. QED BY <1>3, <2>2, <3>1, <3>2 DEF Relies
  <2>3. CASE v # w /\ req[v].at # "edit"
    BY <1>t, <1>3, <2>3 DEF OneReview, Relies
  <2>4. QED BY <2>1, <2>2, <2>3
<1>6. CASE student.edited
  <2>1. PaidFollowsStatus' /\ CapKept' /\ TiersAddUp'
    BY <1>3, <1>6 DEF PaidFollowsStatus, CapKept, TiersAddUp
  <2>2. PaidAtAll'
    BY <1>t, <1>1, <1>2, <1>3, <1>6 DEF PaidAtAll
  <2>3. QED BY <1>4, <1>5, <2>1, <2>2 DEF MissionInv, RequestsRely
<1>7. CASE ~student.edited
  <2>1. CapKept' /\ TiersAddUp'
    BY <1>7, ReviewWriteKeepsSums
  <2>2. /\ row'[rec].paid >= 0 /\ paidOut'[rec] = row'[rec].paid
        /\ row'[rec].status # "approved" => paidOut'[rec] = 0
    BY <1>1, <1>7, WhatIsWritten
  <2>3. PaidAtAll'
    <3>1. \A x \in Records : row'[x] = NoRow => paidOut'[x] = 0
      BY <1>t, <1>1, <1>2 DEF PaidAtAll
    <3>2. \A x \in Records : row'[x].paid >= 0 /\ row'[x] # Gone
      BY <1>t, <1>1, <1>2, <1>7, <2>2 DEF PaidAtAll
    <3>3. QED BY <3>1, <3>2 DEF PaidAtAll
  <2>4. PaidFollowsStatus'
    <3>1. SUFFICES ASSUME NEW x \in Mine, row'[x] \in Rows
                   PROVE  paidOut'[x] = row'[x].paid /\ (row'[x].status # "approved" => paidOut'[x] = 0)
      BY <1>m DEF PaidFollowsStatus
    <3>2. CASE x = rec
      BY <2>2, <3>2
    <3>3. CASE x # rec
      BY <1>t, <1>m, <1>1, <1>7, <3>1, <3>3 DEF PaidFollowsStatus
    <3>4. QED BY <3>2, <3>3
  <2>5. QED BY <1>4, <1>5, <2>1, <2>3, <2>4 DEF MissionInv, RequestsRely
<1>8. QED BY <1>6, <1>7

-----------------------------------------------------------------------------
LEMMA MissionNextInv == MissionInv /\ [Next]_vars => MissionInv'
<1> SUFFICES ASSUME MissionInv, [Next]_vars PROVE MissionInv'
  OBVIOUS
<1>1. TypeOK'
  BY MissionNextType
<1>2. CASE UNCHANGED vars
  <2>1. /\ UNCHANGED <<student, row, paidOut, reverted>> /\ req' = req
    BY <1>2 DEF vars
  <2>2. PaidAtAll' /\ PaidFollowsStatus' /\ CapKept' /\ TiersAddUp'
    BY <2>1, QuietRows
  <2>3. OneReview'
    BY <2>1 DEF MissionInv, OneReview
  <2>4. \A w \in Workers : Relies(w)'
    BY <2>1, QuietRows, ReliesStays DEF MissionInv, RequestsRely
  <2>5. QED BY <1>1, <2>2, <2>3, <2>4 DEF MissionInv, RequestsRely
<1>3. QED
  BY <1>1, <1>2, SubmitKeeps, ReviewReadKeeps, ReviewWriteKeeps, EditReadKeeps, EditWriteKeeps,
     AbortKeeps, DeleteKeeps
  DEF Next, StudentNext, ReviewNext, EditNext

\* The inductive invariant: what reviews and edits in flight rely on, and
\* what the ledger adds up to.
THEOREM MissionInvariance == Spec => []MissionInv
BY MissionInitInv, MissionNextInv, PTL DEF Spec

\* Type correctness: records, ledger and requests keep their shape.
THEOREM MissionTypeCorrect == Spec => []TypeOK
<1>1. MissionInv => TypeOK
  BY DEF MissionInv
<1>2. QED BY <1>1, MissionInvariance, PTL

\* What a record has been paid is its mileage_amount, and nothing while it is
\* not approved, where records are not edited in place.
THEOREM PaidAlwaysFollowsStatus == Spec => []PaidFollowsStatus
<1>1. MissionInv => PaidFollowsStatus
  BY DEF MissionInv
<1>2. QED BY <1>1, MissionInvariance, PTL

\* The caps of blog and study missions hold, whatever amounts are entered and
\* however reviews overtake each other.
THEOREM CapIsAlwaysKept == Spec => []CapKept
<1>1. MissionInv => CapKept
  BY DEF MissionInv
<1>2. QED BY <1>1, MissionInvariance, PTL

\* Until an approval is undone, a tiered mission's payments are the tier its
\* approved records have reached, in whatever order they were approved.
THEOREM TiersAlwaysAddUp == Spec => []TiersAddUp
<1>1. MissionInv => TiersAddUp
  BY DEF MissionInv
<1>2. QED BY <1>1, MissionInvariance, PTL

\* A review pays only where it approves a record that is not approved, also
\* where records are edited in place.
THEOREM PaidOnlyOnApproval == Spec => PaysOnlyOnApproval
<1> DEFINE Pays == \A rec \in Records :
                       paidOut'[rec] > paidOut[rec] =>
                           row[rec].status # "approved" /\ row'[rec].status = "approved"
<1>1. MissionInv /\ [Next]_vars => [Pays]_vars
  <2> SUFFICES ASSUME MissionInv, [Next]_vars, NEW x \in Records, paidOut'[x] > paidOut[x]
               PROVE  row[x].status # "approved" /\ row'[x].status = "approved"
    OBVIOUS
  <2>t. TypeOK
    BY DEF MissionInv
  <2>1. ASSUME NEW w \in Workers, ReviewWrite(w)
        PROVE  row[x].status # "approved" /\ row'[x].status = "approved"
    <3>1. PICK rec \in Mine :
              /\ rec \in Records /\ row[rec] = req[w].seen /\ row[rec] \in Rows
              /\ row'[rec].status = req[w].to /\ paidOut'[rec] = paidOut[rec] + Payment(w)
              /\ \A y \in Records \ {rec} : paidOut'[y] = paidOut[y]
      BY <2>1, ReviewedRow
    <3>2. PICK a, p, m : a \in Int /\ p \in Int /\ a = paidOut[x] /\ p = row[rec].paid /\ m = Payment(w)
      BY <2>t, <3>1, RowShape
    <3>3. CASE req[w].to = "approved" /\ row[rec].status # "approved"
      <4>1. x = rec
        BY <3>1, <3>2
      <4>2. QED BY <3>1, <3>3, <4>1
    <3>4. CASE ~(req[w].to = "approved" /\ row[rec].status # "approved")
      <4>1. m = 0 \/ (m = -p /\ p > 0)
        BY <3>1, <3>2, <3>4 DEF Payment
      <4>2. paidOut'[x] = a \/ paidOut'[x] = a + m
        BY <3>1, <3>2
      <4>3. QED BY <3>2, <4>1, <4>2
    <3>5. QED BY <3>3, <3>4
  <2>2. CASE UNCHANGED paidOut
    <3>1. paidOut[x] \in Int
      BY <2>t, RowShape
    <3>2. QED BY <2>2, <3>1
  <2>3. QED BY <2>1, <2>2
    DEF Next, StudentNext, ReviewNext, EditNext, Submit, ReviewRead, EditRead, EditWrite, Delete, Abort, vars
<1>2. QED BY <1>1, MissionInvariance, PTL DEF Spec, PaysOnlyOnApproval

(* Records edited in place *)

\* Edits in place leave the status alone, and no edit and no review of one
\* record overlap.  It is what op_upsert_sql would have to see to.
EditsKeepOut ==
    \A v \in Workers : req[v].at = "edit" =>
        /\ req[v].to = "keep"
        /\ \A w \in Workers : req[w].at = "review" => req[w].rec # req[v].rec

\* The ledger has what the record says was paid, and nothing unless approved.
RecordIsLedger(rec) ==
    row[rec] \in Rows =>
        /\ paidOut[rec] = row[rec].paid /\ row[rec].paid >= 0
        /\ row[rec].status # "approved" => paidOut[rec] = 0

\* The details that an edit will write back are still those of the record.
RequestIsLedger(w) ==
    /\ req[w].at = "edit" => row[req[w].rec] = Gone \/ req[w].seen.paid = row[req[w].rec].paid
    /\ req[w].at = "review" => req[w].reward >= 0

LedgerKept ==
    (\A rec \in Records : RecordIsLedger(rec)) /\ (\A w \in Workers : RequestIsLedger(w))

\* A step that leaves ledger and payments of every record alone
LEMMA PaymentsStay ==
    ASSUME LedgerKept, UNCHANGED paidOut,
           \A x \in Records : row'[x] \in Rows =>
               row[x] \in Rows /\ row'[x].paid = row[x].paid /\ row'[x].status = row[x].status
    PROVE  \A x \in Records : RecordIsLedger(x)'
BY DEF LedgerKept, RecordIsLedger

LEMMA SubmitLedger ==
    ASSUME MissionInv, LedgerKept, NEW rec \in Records, NEW mark, Submit(rec, mark)
    PROVE  LedgerKept'
<1>t. TypeOK /\ RequestsRely /\ PaidAtAll
  BY DEF MissionInv
<1>1. /\ row[rec] = NoRow /\ row' = [row EXCEPT ![rec] = [status |-> "pending", paid |-> 0, mark |-> mark]]
      /\ UNCHANGED <<paidOut, req>>
  BY DEF Submit
<1>2. row'[rec].paid = 0 /\ paidOut[rec] = 0 /\ \A x \in Records \ {rec} : row'[x] = row[x]
  BY <1>t, <1>1 DEF TypeOK, PaidAtAll
<1>3. ASSUME NEW x \in Records PROVE RecordIsLedger(x)'
  BY <1>1, <1>2 DEF LedgerKept, RecordIsLedger
<1>4. ASSUME NEW w \in Workers PROVE RequestIsLedger(w)'
  <2>1. req[w].at = "edit" => req[w].rec \in Records /\ req[w].rec # rec
    BY <1>t, <1>1, RequestShape DEF EditRequests, RequestsRely, Relies
  <2>2. QED BY <1>1, <1>2, <2>1 DEF LedgerKept, RequestIsLedger
<1>5. QED BY <1>3, <1>4 DEF LedgerKept

LEMMA ReadLedger ==
    ASSUME MissionInv, LedgerKept, NEW w \in Workers, NEW rec \in Mine, NEW to,
           \/ \E amount \in student.amounts : ReviewRead(w, rec, to, amount)
           \/ \E mark : EditRead(w, rec, to, mark)
    PROVE  LedgerKept'
<1>t. TypeOK
  BY DEF MissionInv
<1>1. UNCHANGED <<row, paidOut>> /\ \A v \in Workers \ {w} : req'[v] = req[v]
  BY <1>t DEF ReviewRead, EditRead, TypeOK
<1>2. ASSUME NEW amount \in student.amounts, ReviewRead(w, rec, to, amount)
      PROVE  req'[w].at = "review" /\ req'[w].reward >= 0
  <2>1. PICK pay : pay = IF to = "approved" /\ row[rec].status # "approved"
                         THEN Reward(rec, amount) ELSE 0
    OBVIOUS
  <2>2. pay \in Nat
    <3>1. amount \in Nat
      BY <1>t, MineShape
    <3>2. Reward(rec, amount) \in Nat
      BY <1>t, <3>1, RewardType
    <3>3. QED BY <2>1, <3>2
  <2>3. req'[w] = [at |-> "review", rec |-> rec, seen |-> row[rec], to |-> to, reward |-> pay]
    BY <1>t, <1>2, <2>1 DEF ReviewRead, TypeOK
  <2>4. QED BY <2>2, <2>3
<1>3. ASSUME NEW mark, EditRead(w, rec, to, mark)
      PROVE  req'[w].at = "edit" /\ req'[w].seen = row[rec] /\ req'[w].rec = rec
  BY <1>t, <1>3 DEF EditRead, TypeOK
<1>4. RequestIsLedger(w)'
  BY <1>1, <1>2, <1>3 DEF RequestIsLedger
<1>5. ASSUME NEW v \in Workers, v # w PROVE RequestIsLedger(v)'
  BY <1>1, <1>5 DEF LedgerKept, RequestIsLedger
<1>6. \A x \in Records : RecordIsLedger(x)'
  BY <1>1, PaymentsStay
<1>7. QED BY <1>4, <1>5, <1>6 DEF LedgerKept

LEMMA ReviewLedger ==
    ASSUME MissionInv, LedgerKept, EditsKeepOut, NEW w \in Workers, ReviewWrite(w)
    PROVE  LedgerKept'
<1>t. TypeOK
  BY DEF MissionInv
<1>1. PICK rec \in Mine :
              /\ rec = req[w].rec /\ rec \in Records /\ row[rec] \in Rows /\ row[rec] = req[w].seen
              /\ row'[rec].status = req[w].to /\ req[w].to \in Statuses
              /\ paidOut'[rec] = paidOut[rec] + Payment(w)
              /\ \A x \in Records \ {rec} : row'[x] = row[x] /\ paidOut'[x] = paidOut[x]
  BY ReviewedRow
<1>2. req[w].at = "review" /\ req[w] \in ReviewRequests
  BY <1>t, RequestShape DEF ReviewWrite
<1>3. PICK pay \in Int, old \in Int, m \in {Payment(w)}, p \in {PaidAfter(w)} :
          pay = req[w].reward /\ old = row[rec].paid /\ m = Payment(w) /\ p = PaidAfter(w)
  BY <1>t, <1>1, <1>2, RowShape DEF ReviewRequests
<1>4. row'[rec].paid = p
  BY <1>t, <1>1, <1>3 DEF ReviewWrite, TypeOK
<1>5. pay >= 0 /\ old >= 0 /\ paidOut[rec] = old /\ (row[rec].status # "approved" => old = 0)
  BY <1>1, <1>2, <1>3 DEF LedgerKept, RecordIsLedger, RequestIsLedger
<1>6. p = old + m /\ p >= 0 /\ (req[w].to # "approved" => p = 0)
  <2>1. CASE req[w].to = "approved" /\ row[rec].status # "approved"
    BY <1>1, <1>3, <1>5, <2>1 DEF Payment, PaidAfter
  <2>2. CASE req[w].to # "approved" /\ row[rec].status = "approved" /\ old > 0
    <3>1. m = -old /\ p = 0
      BY <1>1, <1>3, <2>2 DEF Payment, PaidAfter
    <3>2. QED BY <2>2, <3>1
  <2>3. CASE ~(req[w].to = "approved" /\ row[rec].status # "approved")
             /\ ~(req[w].to # "approved" /\ row[rec].status = "approved" /\ old > 0)
    <3>1. m = 0 /\ p = old
      BY <1>1, <1>3, <2>3 DEF Payment, PaidAfter
    <3>2. QED BY <1>5, <2>3, <3>1
  <2>4. QED BY <2>1, <2>2, <2>3
<1>7. ASSUME NEW x \in Records PROVE RecordIsLedger(x)'
  <2>1. CASE x = rec
    BY <1>1, <1>3, <1>4, <1>5, <1>6, <2>1 DEF RecordIsLedger
  <2>2. CASE x # rec
    BY <1>1, <2>2 DEF LedgerKept, RecordIsLedger
  <2>3. QED BY <2>1, <2>2
<1>8. ASSUME NEW v \in Workers PROVE RequestIsLedger(v)'
  <2>1. CASE v = w
    BY <1>t, <2>1 DEF ReviewWrite, TypeOK, RequestIsLedger, Idle
  <2>2. CASE v # w
    <3>1. req'[v] = req[v]
      BY <1>t, <2>2 DEF ReviewWrite, TypeOK
    <3>2. req[v].at = "edit" => req[v].rec \in Records /\ req[v].rec # rec
      BY <1>t, <1>1, <1>2, RequestShape DEF EditRequests, EditsKeepOut
    <3>3. QED BY <1>1, <3>1, <3>2 DEF LedgerKept, RequestIsLedger
  <2>3. QED BY <2>1, <2>2
<1>9. QED BY <1>7, <1>8 DEF LedgerKept

LEMMA EditLedger ==
    ASSUME MissionInv, LedgerKept, EditsKeepOut, NEW w \in Workers, EditWrite(w)
    PROVE  LedgerKept'
<1>t. TypeOK /\ RequestsRely
  BY DEF MissionInv
<1>1. req[w] \in EditRequests /\ Relies(w) /\ req[w].at = "edit" /\ req[w].to = "keep"
  BY <1>t, RequestShape DEF EditWrite, RequestsRely, EditsKeepOut
<1>2. PICK rec \in Records : rec = req[w].rec
  BY <1>1 DEF EditRequests
<1>3. PICK p, m :
         /\ row' = [row EXCEPT ![rec] = IF @ = Gone THEN @
                                        ELSE [status |-> row[rec].status, paid |-> p, mark |-> m]]
         /\ p = row[rec].paid \/ p = req[w].seen.paid
  BY <1>1, <1>2 DEF EditWrite
<1>4. row[rec] = Gone \/ p = row[rec].paid
  BY <1>1, <1>2, <1>3 DEF LedgerKept, RequestIsLedger
<1>5. /\ \A x \in Records \ {rec} : row'[x] = row[x]
      /\ row[rec] = Gone => row'[rec] = Gone
      /\ row[rec] # Gone => row'[rec].paid = row[rec].paid /\ row'[rec].status = row[rec].status
  BY <1>t, <1>3, <1>4 DEF TypeOK
<1>6. row[rec] \in Rows \/ row[rec] = Gone
  BY <1>t, <1>1, <1>2 DEF TypeOK, Relies
<1>7. Gone \notin Rows
  BY DEF Gone, Rows, Statuses
<1>8. UNCHANGED paidOut /\ \A v \in Workers : req'[v] = req[v] \/ req'[v] = Idle
  BY <1>t DEF EditWrite, TypeOK
<1>9. \A x \in Records : RecordIsLedger(x)'
  BY <1>5, <1>6, <1>7, <1>8, PaymentsStay
<1>10. ASSUME NEW v \in Workers PROVE RequestIsLedger(v)'
  <2>1. req[v].at = "edit" => req[v].rec \in Records
    BY <1>t, RequestShape DEF EditRequests
  <2>2. QED BY <1>5, <1>8, <2>1 DEF LedgerKept, RequestIsLedger, Idle
<1>11. QED BY <1>9, <1>10 DEF LedgerKept

LEMMA DeleteLedger ==
    ASSUME MissionInv, LedgerKept, NEW rec \in Mine, Delete(rec)
    PROVE  LedgerKept'
<1>t. TypeOK /\ rec \in Records
  BY MineShape DEF MissionInv
<1>1. /\ row'[rec] = Gone /\ \A x \in Records \ {rec} : row'[x] = row[x]
      /\ UNCHANGED <<paidOut, req>>
  BY <1>t DEF Delete, TypeOK
<1>2. Gone \notin Rows
  BY DEF Gone, Rows, Statuses
<1>3. \A x \in Records : RecordIsLedger(x)'
  BY <1>1, <1>2, PaymentsStay
<1>4. ASSUME NEW v \in Workers PROVE RequestIsLedger(v)'
  <2>1. req[v].at = "edit" => req[v].rec \in Records
    BY <1>t, RequestShape DEF EditRequests
  <2>2. QED BY <1>1, <2>1 DEF LedgerKept, RequestIsLedger
<1>5. QED BY <1>3, <1>4 DEF LedgerKept

LEMMA LedgerNext ==
    ASSUME MissionInv, LedgerKept, EditsKeepOut, [Next]_vars
    PROVE  LedgerKept'
<1>t. TypeOK /\ Mine \subseteq Records
  BY MineShape DEF MissionInv
<1>1. ASSUME NEW w \in Workers, Abort(w) PROVE LedgerKept'
  <2>1. UNCHANGED <<row, paidOut>> /\ \A v \in Workers : req'[v] = req[v] \/ req'[v] = Idle
    BY <1>t, <1>1 DEF Abort, TypeOK
  <2>2. QED BY <2>1 DEF LedgerKept, RecordIsLedger, RequestIsLedger, Idle
<1>2. CASE UNCHANGED vars
  BY <1>2 DEF vars, LedgerKept, RecordIsLedger, RequestIsLedger
<1>3. QED
  BY <1>t, <1>1, <1>2, SubmitLedger, ReadLedger, ReviewLedger, EditLedger, DeleteLedger
  DEF Next, StudentNext, ReviewNext, EditNext

\* Undoing an approval takes back what was paid, also for records that are edited
\* in place and deleted, by any number of workers: as long as edits leave the
\* status alone and none overlaps a review of its record.
THEOREM UndoingTakesBack == Spec /\ []EditsKeepOut => []UndoneIsTakenBack
<1>1. Init => LedgerKept
  <2>1. NoRow \notin Rows
    BY DEF NoRow, Rows, Statuses
  <2>2. QED BY <2>1 DEF Init, LedgerKept, RecordIsLedger, RequestIsLedger, Idle
<1>2. LedgerKept => UndoneIsTakenBack
  BY DEF LedgerKept, RecordIsLedger, UndoneIsTakenBack
<1>3. MissionInv /\ LedgerKept /\ EditsKeepOut /\ [Next]_vars => LedgerKept'
  BY LedgerNext
<1>4. QED BY <1>1, <1>2, <1>3, MissionInvariance, PTL DEF Spec
-----------------------------------------------------------------------------
(* Attendance requests: the heaviest status and the latest snapshot *)

RegisterStatuses == {"officialLeave", "absent", "earlyLeave", "late", "outing"}

LEMMA Weights ==
    /\ DOMAIN Weight = RegisterStatuses
    /\ Weight["officialLeave"] = 5 /\ Weight["absent"] = 4 /\ Weight["earlyLeave"] = 3
    /\ Weight["late"] = 2 /\ Weight["outing"] = 1
BY DEF Weight, RegisterStatuses

\* Of any statuses, one is the heaviest.
LEMMA HeaviestIsOne ==
    ASSUME NEW S \in SUBSET RegisterStatuses, S # {}
    PROVE  HeaviestOf(S) \in S
<1>1. \E s \in S : \A other \in S : Weight[other] <= Weight[s]
  <2>1. CASE "officialLeave" \in S
    BY <2>1, Weights DEF RegisterStatuses
  <2>2. CASE "officialLeave" \notin S /\ "absent" \in S
    BY <2>2, Weights DEF RegisterStatuses
  <2>3. CASE "officialLeave" \notin S /\ "absent" \notin S /\ "earlyLeave" \in S
    BY <2>3, Weights DEF RegisterStatuses
  <2>4. CASE "officialLeave" \notin S /\ "absent" \notin S /\ "earlyLeave" \notin S /\ "late" \in S
    BY <2>4, Weights DEF RegisterStatuses
  <2>5. CASE S \subseteq {"outing"}
    <3>1. "outing" \in S /\ \A other \in S : other = "outing"
      BY <2>5
    <3>2. \A other \in S : Weight[other] <= Weight["outing"]
      BY <3>1, Weights
    <3>3. QED BY <3>1, <3>2
  <2>6. QED BY <2>1, <2>2, <2>3, <2>4, <2>5 DEF RegisterStatuses
<1>2. QED BY <1>1 DEF HeaviestOf

LEMMA ResultingIsStatus == \A report \in ReportRows : Resulting(report) \in RegisterStatuses
BY DEF Resulting, ReportRows, IssueTypes, RegisterStatuses

RequestTables == [Requests -> ReportRows \cup {NoRequest}]

LEMMA NoRequestIsNone ==
    /\ NoRequest \notin ReportRows /\ NoRequest.status = "none" /\ NoRequest.prev = Unset
    /\ Unset \in Snapshots /\ Blank \in Registered
    /\ \A report \in ReportRows : report.status \in Decisions /\ report.day \in Days /\ report.leave \in BOOLEAN
                               /\ report.prev \in Snapshots /\ report.updated \in Stamps
<1>1. NoRequest.status \notin Decisions
  BY DEF NoRequest, Decisions
<1>2. \A report \in ReportRows : report.status \in Decisions /\ report.day \in Days /\ report.leave \in BOOLEAN
                               /\ report.prev \in Snapshots /\ report.updated \in Stamps
  BY DEF ReportRows
<1>3. Blank \in Entries /\ Blank.source # "unset"
  BY DEF Blank, Entries, Sources
<1>4. QED BY <1>1, <1>2, <1>3 DEF NoRequest, Snapshots, Registered

\* Of the requests with a snapshot, one changed last.
LEMMA LatestIsOne ==
    ASSUME NEW rows \in RequestTables, NEW H \in SUBSET Requests, H # {},
           \A id \in H : rows[id].prev # Unset
    PROVE  \E id \in H : \A other \in H : rows[other].updated <= rows[id].updated
<1>1. \A id \in H : rows[id] \in ReportRows /\ rows[id].updated \in Stamps
  BY NoRequestIsNone DEF RequestTables
<1>2. MaxTransactions \in Nat
  BY AttendanceAssumption
<1> DEFINE Left == {n \in Nat : \E id \in H : n = MaxTransactions - rows[id].updated}
<1>3. \A id \in H : MaxTransactions - rows[id].updated \in Left
  BY <1>1, <1>2 DEF Stamps
<1>4. Left \subseteq Nat /\ Left # {}
  BY <1>3
<1>5. IsWellFoundedOn(OpToRel(<, Nat), Nat)
  BY NatLessThanWellFounded
<1>6. PICK least \in Left : \A n \in Left : ~(<<n, least>> \in OpToRel(<, Nat))
  BY <1>4, <1>5, WFMin
<1>7. \A n \in Left : ~(n < least)
  BY <1>4, <1>6 DEF OpToRel
<1>8. PICK id \in H : least = MaxTransactions - rows[id].updated
  OBVIOUS
<1>9. \A other \in H : rows[other].updated <= rows[id].updated
  BY <1>1, <1>2, <1>3, <1>7, <1>8 DEF Stamps
<1>10. QED BY <1>9

LEMMA SnapshotType ==
    ASSUME NEW rows \in RequestTables, NEW day, NEW fallback \in Snapshots
    PROVE  Snapshot(rows, day, fallback) \in Snapshots
<1> DEFINE H == {id \in Requests : rows[id].day = day /\ rows[id].prev # Unset}
<1>1. CASE H = {}
  BY <1>1 DEF Snapshot
<1>2. CASE H # {}
  <2>1. \E id \in H : \A other \in H : rows[other].updated <= rows[id].updated
    BY <1>2, LatestIsOne
  <2> DEFINE latest == CHOOSE id \in H : \A other \in H : rows[other].updated <= rows[id].updated
  <2>2. latest \in H
    BY <2>1
  <2>3. rows[latest] \in ReportRows
    BY <2>2, NoRequestIsNone DEF RequestTables
  <2>4. Snapshot(rows, day, fallback) = rows[latest].prev
    BY <1>2 DEF Snapshot
  <2>5. QED BY <2>3, <2>4, NoRequestIsNone
<1>3. QED BY <1>1, <1>2

LEMMA HeaviestType ==
    ASSUME NEW rows \in RequestTables, NEW day, ApprovedOn(rows, day) # {}
    PROVE  [status |-> Heaviest(rows, ApprovedOn(rows, day)), source |-> "form"] \in Registered
<1> DEFINE S == {Resulting(rows[id]) : id \in ApprovedOn(rows, day)}
<1>1. \A id \in ApprovedOn(rows, day) : rows[id] \in ReportRows
  BY NoRequestIsNone DEF ApprovedOn, RequestTables
<1>2. S \in SUBSET RegisterStatuses /\ S # {}
  BY <1>1, ResultingIsStatus
<1>3. HeaviestOf(S) \in RegisterStatuses
  BY <1>2, HeaviestIsOne
<1>4. Heaviest(rows, ApprovedOn(rows, day)) \in DOMAIN Weight
  BY <1>3, Weights DEF Heaviest
<1>5. QED BY <1>4 DEF Registered, Entries, Sources

-----------------------------------------------------------------------------
(* Types of the requests, the register and the transactions *)

AttendanceDesks == {AtHome} \cup Submitting \cup Reading \cup Marking \cup Weighing

LEMMA DeskIs ==
    ASSUME NEW t \in AttendanceDesks
    PROVE  /\ t.at = "submit" => t \in Submitting
           /\ t.at = "read" => t \in Reading
           /\ t.at = "marked" => t \in Marking
           /\ t.at = "weighed" => t \in Weighing
           /\ t # AtHome => t \in Submitting \cup Reading \cup Marking \cup Weighing
BY DEF AttendanceDesks, AtHome, Submitting, Reading, Marking, Weighing

LEMMA DeskWrite ==
    ASSUME AttendanceTypeOK, NEW w \in Desks, NEW t \in AttendanceDesks,
           desk' = [desk EXCEPT ![w] = t]
    PROVE  desk' \in [Desks -> AttendanceDesks]
BY DEF AttendanceTypeOK, AttendanceDesks

LEMMA HomeIsDesk == AtHome \in AttendanceDesks
BY DEF AttendanceDesks

LEMMA SeenType ==
    ASSUME AttendanceTypeOK, NEW w \in Desks,
           desk[w] \in Marking \cup Weighing
    PROVE  Seen(w) \in RequestTables
<1>1. desk[w].id \in Requests /\ desk[w].mark \in ReportRows \cup {NoRequest}
  BY DEF Marking, Weighing
<1>2. QED BY <1>1 DEF Seen, AttendanceTypeOK, RequestTables

LEMMA VerdictType ==
    ASSUME AttendanceTypeOK, NEW w \in Desks, desk[w] \in Marking
    PROVE  Verdict(w) \in SUBSET Registered
<1> DEFINE t == desk[w]
           day == t.row.day
           approved == ApprovedOn(Seen(w), day)
           snapshot == Snapshot(Seen(w), day, t.prev)
<1>1. Seen(w) \in RequestTables /\ t.prev \in Snapshots
  BY SeenType DEF Marking
<1>2. snapshot \in Snapshots
  BY <1>1, SnapshotType
<1>3. (IF snapshot = Unset THEN Blank ELSE snapshot) \in Registered
  BY <1>2, NoRequestIsNone DEF Snapshots
<1>4. approved # {} => [status |-> Heaviest(Seen(w), approved), source |-> "form"] \in Registered
  BY <1>1, HeaviestType
<1>5. QED BY <1>3, <1>4 DEF Verdict

\* The row that the UPDATE leaves.
Updated(r, d, l, p, u) == [r EXCEPT !.status = d, !.leave = l, !.prev = p, !.updated = u]

LEMMA MarkedRow ==
    ASSUME NEW r \in ReportRows, NEW d \in Decisions, NEW l \in BOOLEAN, NEW p \in Snapshots,
           NEW u \in Stamps
    PROVE  /\ Updated(r, d, l, p, u) \in ReportRows
           /\ Updated(r, d, l, p, u).status = d /\ Updated(r, d, l, p, u).day = r.day
BY DEF ReportRows, Updated
LEMMA AttendanceTypeInit == AttendanceInit => AttendanceTypeOK
<1>1. 0 \in 0..MaxTransactions
  BY AttendanceAssumption
<1>2. QED BY <1>1, NoRequestIsNone DEF AttendanceInit, AttendanceTypeOK

\* Which days a transaction is about, in each of its steps.
LEMMA TouchedBy ==
    ASSUME NEW t, NEW S
    PROVE  /\ t.at = "submit" =>
                 (Touched(t) \subseteq S <=> t.day \in S /\ (t.row = NoRequest \/ t.row.day \in S))
           /\ t.at = "read" => (Touched(t) \subseteq S <=> t.row = NoRequest \/ t.row.day \in S)
           /\ t.at = "marked" =>
                 (Touched(t) \subseteq S <=> /\ t.row = NoRequest \/ t.row.day \in S
                                             /\ t.mark = NoRequest \/ t.mark.day \in S)
           /\ t.at = "weighed" =>
                 (Touched(t) \subseteq S <=> t.day \in S /\ (t.mark = NoRequest \/ t.mark.day \in S))
<1>1. CASE t.at = "submit"
  BY <1>1 DEF Touched, DaysOf
<1>2. CASE t.at = "read"
  BY <1>2 DEF Touched, DaysOf
<1>3. CASE t.at = "marked"
  <2>1. PICK had, mark : had = t.row /\ mark = t.mark
    OBVIOUS
  <2>2. Touched(t) = {report.day : report \in {had, mark} \ {NoRequest}}
    BY <1>3, <2>1 DEF Touched, DaysOf
  <2>3. \A day : day \in Touched(t) <=>
                    (had # NoRequest /\ day = had.day) \/ (mark # NoRequest /\ day = mark.day)
    <3>1. \A report : report \in {had, mark} \ {NoRequest} <=>
                          (report = had \/ report = mark) /\ report # NoRequest
      OBVIOUS
    <3>2. \A day : day \in Touched(t) <=>
                      \E report \in {had, mark} \ {NoRequest} : day = report.day
      BY <2>2, Zenon
    <3>3. QED BY <3>1, <3>2, Zenon
  <2>4. Touched(t) \subseteq S <=> (had = NoRequest \/ had.day \in S) /\ (mark = NoRequest \/ mark.day \in S)
    BY <2>3
  <2>5. QED BY <1>3, <2>1, <2>4
<1>4. CASE t.at = "weighed"
  BY <1>4 DEF Touched, DaysOf
<1>5. QED BY <1>1, <1>2, <1>3, <1>4

LEMMA TouchesDays ==
    ASSUME NEW t \in AttendanceDesks, t # AtHome
    PROVE  Touched(t) \subseteq Days
<1>1. CASE t \in Submitting
  <2>1. t.at = "submit" /\ t.day \in Days /\ t.row \in ReportRows \cup {NoRequest}
    BY <1>1 DEF Submitting
  <2>2. QED BY <2>1, TouchedBy, NoRequestIsNone
<1>2. CASE t \in Reading
  <2>1. t.at = "read" /\ t.row \in ReportRows
    BY <1>2 DEF Reading
  <2>2. QED BY <2>1, TouchedBy, NoRequestIsNone
<1>3. CASE t \in Marking
  <2>1. t.at = "marked" /\ t.row \in ReportRows /\ t.mark \in ReportRows \cup {NoRequest}
    BY <1>3 DEF Marking
  <2>2. QED BY <2>1, TouchedBy, NoRequestIsNone
<1>4. CASE t \in Weighing
  <2>1. t.at = "weighed" /\ t.day \in Days /\ t.mark \in ReportRows \cup {NoRequest}
    BY <1>4 DEF Weighing
  <2>2. QED BY <2>1, TouchedBy, NoRequestIsNone
<1>5. QED BY <1>1, <1>2, <1>3, <1>4 DEF AttendanceDesks

LEMMA BeginTypes ==
    ASSUME AttendanceTypeOK, NEW w \in Desks, NEW t \in AttendanceDesks, t # AtHome, Begin(w, t)
    PROVE  AttendanceTypeOK'
<1>1. begun' \in 0..MaxTransactions
  BY AttendanceAssumption DEF AttendanceTypeOK, Begin
<1>2. desk' \in [Desks -> AttendanceDesks]
  BY DeskWrite DEF Begin
<1>3. crossed' \subseteq Days
  <2>1. desk \in [Desks -> AttendanceDesks] /\ crossed \subseteq Days
    BY DEF AttendanceTypeOK, AttendanceDesks
  <2>2. \A v \in Desks : desk[v] # AtHome => Touched(t) \cup Touched(desk[v]) \subseteq Days
    BY <2>1, TouchesDays
  <2>3. Crossing(w, t) \subseteq Days
    BY <2>2 DEF Crossing
  <2>4. QED BY <2>1, <2>3 DEF Begin
<1>4. QED BY <1>1, <1>2, <1>3 DEF AttendanceTypeOK, AttendanceDesks, Begin

LEMMA AStampIsFree ==
    ASSUME AttendanceTypeOK, begun < MaxTransactions
    PROVE  begun + 1 \in Stamps
BY AttendanceAssumption DEF AttendanceTypeOK, Stamps

LEMMA ReadForSubmitTypes ==
    ASSUME AttendanceTypeOK, NEW w \in Desks, NEW id \in Requests, NEW day \in Days,
           NEW form \in Forms, ReadForSubmit(w, id, day, form)
    PROVE  AttendanceTypeOK'
<1> DEFINE t == [at |-> "submit", id |-> id, row |-> request[id], day |-> day,
                 form |-> form, stamp |-> begun + 1]
<1>1. Begin(w, t)
  BY DEF ReadForSubmit
<1>2. begun + 1 \in Stamps
  BY <1>1, AStampIsFree DEF Begin
<1>3. request[id] \in ReportRows \cup {NoRequest}
  BY DEF AttendanceTypeOK
<1>4. t \in Submitting
  BY <1>2, <1>3 DEF Submitting
<1>5. t \in AttendanceDesks /\ t # AtHome
  BY <1>4 DEF AttendanceDesks, AtHome
<1>6. QED BY <1>1, <1>5, BeginTypes

LEMMA WriteSubmittedTypes ==
    ASSUME AttendanceTypeOK, NEW w \in Desks, WriteSubmitted(w)
    PROVE  AttendanceTypeOK'
<1> DEFINE t == desk[w]
           report == [status |-> "submitted", day |-> t.day, type |-> t.form.type,
                      leave |-> t.form.leave, prev |-> t.row.prev, updated |-> t.stamp]
<1>1. t \in Submitting
  BY DeskIs DEF AttendanceTypeOK, AttendanceDesks, WriteSubmitted
<1>2. /\ t.id \in Requests /\ t.row \in ReportRows \cup {NoRequest} /\ t.day \in Days
      /\ t.form \in Forms /\ t.stamp \in Stamps
  BY <1>1 DEF Submitting
<1>3. t.form.type \in IssueTypes /\ t.form.leave \in BOOLEAN /\ t.row.prev \in Snapshots
  BY <1>2, AttendanceAssumption, NoRequestIsNone
<1>4. report \in ReportRows
  BY <1>2, <1>3 DEF ReportRows, Decisions
<1>5. request' = [request EXCEPT ![t.id] = report] \/ request' = request
  BY DEF WriteSubmitted
<1>6. request' \in [Requests -> ReportRows \cup {NoRequest}]
  BY <1>2, <1>4, <1>5 DEF AttendanceTypeOK
<1>7. desk' \in [Desks -> AttendanceDesks]
  BY DeskWrite, HomeIsDesk DEF WriteSubmitted, LeaveDesk
<1>8. QED BY <1>6, <1>7 DEF AttendanceTypeOK, AttendanceDesks, WriteSubmitted

LEMMA ReadForReviewTypes ==
    ASSUME AttendanceTypeOK, NEW w \in Desks, NEW id \in Requests,
           NEW decision \in Decisions \cup {"none"}, ReadForReview(w, id, decision)
    PROVE  AttendanceTypeOK'
<1> DEFINE t == [at |-> "read", id |-> id, row |-> request[id], decision |-> decision,
                 prev |-> Noted(request[id], decision), stamp |-> begun + 1]
<1>1. Begin(w, t)
  BY DEF ReadForReview
<1>2. begun + 1 \in Stamps
  BY <1>1, AStampIsFree DEF Begin
<1>3. request[id] \in ReportRows
  BY DEF AttendanceTypeOK, ReadForReview
<1>4. request[id].day \in Days /\ request[id].prev \in Snapshots
  BY <1>3, NoRequestIsNone
<1>5. register[request[id].day] \in Registered
  BY <1>4 DEF AttendanceTypeOK
<1>6. Noted(request[id], decision) \in Snapshots
  BY <1>4, <1>5 DEF Noted, Snapshots
<1>7. t \in Reading
  BY <1>2, <1>3, <1>6 DEF Reading
<1>8. t \in AttendanceDesks /\ t # AtHome
  BY <1>7 DEF AttendanceDesks, AtHome
<1>9. QED BY <1>1, <1>8, BeginTypes

\* What Mark has a desk hold.
MarkOf(t, report) ==
    IF t.decision = "none" \/ report = NoRequest
    THEN NoRequest
    ELSE Updated(report, t.decision, t.row.leave, t.prev, t.stamp)

LEMMA MarkOfType ==
    ASSUME NEW t \in Reading, NEW report \in ReportRows \cup {NoRequest}
    PROVE  /\ MarkOf(t, report) \in ReportRows \cup {NoRequest}
           /\ \/ MarkOf(t, report) = NoRequest /\ (t.decision = "none" \/ report = NoRequest)
              \/ MarkOf(t, report) # NoRequest /\ MarkOf(t, report).status = t.decision
                 /\ MarkOf(t, report).day = report.day
<1>1. CASE t.decision = "none" \/ report = NoRequest
  BY <1>1 DEF MarkOf
<1>2. CASE t.decision # "none" /\ report # NoRequest
  <2>1. /\ t.decision \in Decisions /\ t.row \in ReportRows /\ t.prev \in Snapshots
        /\ t.stamp \in Stamps /\ report \in ReportRows
    BY <1>2 DEF Reading
  <2>2. t.row.leave \in BOOLEAN
    BY <2>1, NoRequestIsNone
  <2>3. MarkOf(t, report) = Updated(report, t.decision, t.row.leave, t.prev, t.stamp)
    BY <1>2 DEF MarkOf
  <2>4. /\ MarkOf(t, report) \in ReportRows /\ MarkOf(t, report).status = t.decision
        /\ MarkOf(t, report).day = report.day
    BY <2>1, <2>2, <2>3, MarkedRow
  <2>5. QED BY <2>4, NoRequestIsNone
<1>3. QED BY <1>1, <1>2

LEMMA MarkTypes ==
    ASSUME AttendanceTypeOK, NEW w \in Desks, Mark(w)
    PROVE  AttendanceTypeOK'
<1> DEFINE t == desk[w]
           marked == [at |-> "marked", id |-> t.id, row |-> t.row, decision |-> t.decision,
                      prev |-> t.prev, mark |-> MarkOf(t, request[t.id])]
<1>1. t \in Reading
  BY DeskIs DEF AttendanceTypeOK, AttendanceDesks, Mark
<1>2. /\ t.id \in Requests /\ t.row \in ReportRows /\ t.decision \in Decisions \cup {"none"}
      /\ t.prev \in Snapshots
  BY <1>1 DEF Reading
<1>3. request[t.id] \in ReportRows \cup {NoRequest}
  BY <1>2 DEF AttendanceTypeOK
<1>4. MarkOf(t, request[t.id]) \in ReportRows \cup {NoRequest}
  BY <1>1, <1>3, MarkOfType
<1>5. marked \in Marking
  BY <1>2, <1>4 DEF Marking
<1>6. marked \in AttendanceDesks
  BY <1>5 DEF AttendanceDesks
<1>7. desk' = [desk EXCEPT ![w] = marked]
  BY DEF Mark, MarkOf, Updated
<1>8. desk' \in [Desks -> AttendanceDesks]
  BY <1>6, <1>7, DeskWrite
<1>9. QED BY <1>8 DEF AttendanceTypeOK, AttendanceDesks, Mark

LEMMA WeighTypes ==
    ASSUME AttendanceTypeOK, NEW w \in Desks, Weigh(w)
    PROVE  AttendanceTypeOK'
<1> DEFINE t == desk[w]
           weighed == [at |-> "weighed", id |-> t.id, mark |-> t.mark, day |-> t.row.day,
                       entries |-> Verdict(w)]
<1>1. t \in Marking
  BY DeskIs DEF AttendanceTypeOK, AttendanceDesks, Weigh
<1>2. /\ t.id \in Requests /\ t.row \in ReportRows /\ t.mark \in ReportRows \cup {NoRequest}
      /\ t.row.day \in Days
  BY <1>1, NoRequestIsNone DEF Marking
<1>3. Verdict(w) \in SUBSET Registered
  BY <1>1, VerdictType
<1>4. weighed \in Weighing
  BY <1>2, <1>3 DEF Weighing
<1>5. weighed \in AttendanceDesks
  BY <1>4 DEF AttendanceDesks
<1>6. desk' = [desk EXCEPT ![w] = weighed]
  BY DEF Weigh
<1>7. desk' \in [Desks -> AttendanceDesks]
  BY <1>5, <1>6, DeskWrite
<1>8. QED BY <1>7 DEF AttendanceTypeOK, AttendanceDesks, Weigh

LEMMA SettleTypes ==
    ASSUME AttendanceTypeOK, NEW w \in Desks, Settle(w)
    PROVE  AttendanceTypeOK'
<1> DEFINE t == desk[w]
<1>1. t \in Weighing
  BY DeskIs DEF AttendanceTypeOK, AttendanceDesks, Settle
<1>2. t.day \in Days /\ t.entries \subseteq Registered
  BY <1>1 DEF Weighing
<1>3. request' \in [Requests -> ReportRows \cup {NoRequest}]
  BY <1>1, SeenType DEF Settle, RequestTables
<1>4. register' \in [Days -> Registered] /\ before' \in [Days -> Registered]
  <2>1. CASE UNCHANGED <<register, before>>
    BY <2>1 DEF AttendanceTypeOK
  <2>2. CASE \E e \in t.entries :
               /\ register' = [register EXCEPT ![t.day] = e]
               /\ before' = IF e.source = "form" /\ register[t.day].source # "form"
                            THEN [before EXCEPT ![t.day] = register[t.day]] ELSE before
    BY <1>2, <2>2 DEF AttendanceTypeOK
  <2>3. QED BY <2>1, <2>2 DEF Settle
<1>5. desk' \in [Desks -> AttendanceDesks]
  BY DeskWrite, HomeIsDesk DEF Settle, LeaveDesk
<1>6. QED BY <1>3, <1>4, <1>5 DEF AttendanceTypeOK, AttendanceDesks, Settle

LEMMA GiveUpTypes ==
    ASSUME AttendanceTypeOK, NEW w \in Desks, GiveUp(w)
    PROVE  AttendanceTypeOK'
<1>1. desk' \in [Desks -> AttendanceDesks]
  BY DeskWrite, HomeIsDesk DEF GiveUp, LeaveDesk
<1>2. QED BY <1>1 DEF AttendanceTypeOK, AttendanceDesks, GiveUp

LEMMA EditByHandTypes ==
    ASSUME AttendanceTypeOK, NEW day \in Days, NEW status \in HandStatuses, EditByHand(day, status)
    PROVE  AttendanceTypeOK'
<1>1. [status |-> status, source |-> "manual"] \in Registered
  BY DEF Registered, Entries, Sources
<1>2. register' \in [Days -> Registered]
  BY <1>1 DEF AttendanceTypeOK, EditByHand
<1>3. QED BY <1>2 DEF AttendanceTypeOK, EditByHand

LEMMA AttendanceTypeNext ==
    ASSUME AttendanceTypeOK, [AttendanceNext]_attendanceVars
    PROVE  AttendanceTypeOK'
<1>1. ASSUME NEW w \in Desks, DeskNext(w) PROVE AttendanceTypeOK'
  <2>1. ASSUME NEW id \in Requests, NEW day \in Days, NEW form \in Forms,
               ReadForSubmit(w, id, day, form)
        PROVE  AttendanceTypeOK'
    BY <2>1, ReadForSubmitTypes
  <2>2. ASSUME NEW id \in Requests, NEW decision \in {"approved", "rejected", "submitted", "none"},
               ReadForReview(w, id, decision)
        PROVE  AttendanceTypeOK'
    <3>1. decision \in Decisions \cup {"none"}
      BY DEF Decisions
    <3>2. QED BY <2>2, <3>1, ReadForReviewTypes
  <2>3. CASE WriteSubmitted(w)
    BY <2>3, WriteSubmittedTypes
  <2>4. CASE Mark(w)
    BY <2>4, MarkTypes
  <2>5. CASE Weigh(w)
    BY <2>5, WeighTypes
  <2>6. CASE Settle(w)
    BY <2>6, SettleTypes
  <2>7. CASE GiveUp(w)
    BY <2>7, GiveUpTypes
  <2>8. QED BY <1>1, <2>1, <2>2, <2>3, <2>4, <2>5, <2>6, <2>7 DEF DeskNext
<1>2. CASE UNCHANGED attendanceVars
  BY <1>2 DEF attendanceVars, AttendanceTypeOK
<1>3. QED BY <1>1, <1>2, EditByHandTypes DEF AttendanceNext

\* For any number of desks, the requests, the register and every transaction
\* keep their types: a snapshot is an entry no request made, or none, and what
\* is written to the register is an entry.
THEOREM AttendanceTypeCorrect == AttendanceSpec => []AttendanceTypeOK
<1>1. AttendanceInit => AttendanceTypeOK
  BY AttendanceTypeInit
<1>2. AttendanceTypeOK /\ [AttendanceNext]_attendanceVars => AttendanceTypeOK'
  BY AttendanceTypeNext
<1>3. QED BY <1>1, <1>2, PTL DEF AttendanceSpec
-----------------------------------------------------------------------------
(* The register follows the requests on the days no transactions crossed *)

LEMMA SameHeaviest ==
    ASSUME NEW rows, NEW others, NEW ids, \A id \in ids : others[id] = rows[id]
    PROVE  Heaviest(others, ids) = Heaviest(rows, ids)
<1>1. {Resulting(others[id]) : id \in ids} = {Resulting(rows[id]) : id \in ids}
  OBVIOUS
<1>2. QED BY <1>1, Zenon DEF Heaviest

\* A row that was not approved and is not approved changes no day.
LEMMA SameApproved ==
    ASSUME NEW rows \in RequestTables, NEW id \in Requests, NEW report, NEW day,
           rows[id].status # "approved" \/ rows[id].day # day,
           report.status # "approved" \/ report.day # day
    PROVE  /\ ApprovedOn([rows EXCEPT ![id] = report], day) = ApprovedOn(rows, day)
           /\ Heaviest([rows EXCEPT ![id] = report], ApprovedOn([rows EXCEPT ![id] = report], day))
                = Heaviest(rows, ApprovedOn(rows, day))
<1> DEFINE others == [rows EXCEPT ![id] = report]
<1>1. \A r \in Requests : others[r] = IF r = id THEN report ELSE rows[r]
  BY DEF RequestTables
<1>2. \A r : r \in ApprovedOn(others, day) <=> r \in ApprovedOn(rows, day)
  BY <1>1 DEF ApprovedOn
<1>3. ApprovedOn(others, day) = ApprovedOn(rows, day)
  BY <1>2
<1>4. \A r \in ApprovedOn(rows, day) : others[r] = rows[r]
  BY <1>1 DEF ApprovedOn
<1>5. Heaviest(others, ApprovedOn(rows, day)) = Heaviest(rows, ApprovedOn(rows, day))
  BY <1>4, SameHeaviest
<1>6. QED BY <1>3, <1>5, Zenon

LEMMA DayKept ==
    ASSUME NEW day, FollowsRequests(day), UNCHANGED <<request, register>>
    PROVE  FollowsRequests(day)'
BY DEF FollowsRequests

LEMMA AtHomeFollows ==
    ASSUME NEW w \in Desks, desk'[w] = AtHome
    PROVE  Follows(w)'
BY DEF Follows, AtHome

LEMMA LeavesHome ==
    ASSUME AttendanceTypeOK, NEW w \in Desks, LeaveDesk(w)
    PROVE  desk'[w] = AtHome
BY DEF AttendanceTypeOK, LeaveDesk

LEMMA BeginsWith ==
    ASSUME AttendanceTypeOK, NEW w \in Desks, NEW t, Begin(w, t)
    PROVE  /\ desk'[w] = t /\ UNCHANGED <<request, register>>
           /\ crossed' = crossed \cup Crossing(w, t)
BY DEF AttendanceTypeOK, Begin

\* A transaction begins with what it has just read.
LEMMA BeginsFollowing ==
    ASSUME AttendanceTypeOK, NEW w \in Desks, NEW t, Begin(w, t),
           t.at \in {"submit", "read"}, t.row = request[t.id],
           t.at = "submit" => t.row.status # "approved"
    PROVE  Follows(w)'
BY BeginsWith DEF Follows

LEMMA MarkFollows ==
    ASSUME AttendanceTypeOK, NEW w \in Desks, Follows(w), Mark(w)
    PROVE  Follows(w)'
<1> DEFINE t == desk[w]
           marked == [at |-> "marked", id |-> t.id, row |-> t.row, decision |-> t.decision,
                      prev |-> t.prev, mark |-> MarkOf(t, request[t.id])]
<1>1. t \in Reading /\ t.at = "read"
  BY DeskIs DEF AttendanceTypeOK, AttendanceDesks, Mark
<1>2. request[t.id] = t.row /\ t.row \in ReportRows /\ t.row # NoRequest
  BY <1>1, NoRequestIsNone DEF Reading, Follows
<1>3. \/ MarkOf(t, t.row) = NoRequest /\ t.decision = "none"
      \/ MarkOf(t, t.row) # NoRequest /\ MarkOf(t, t.row).status = t.decision
         /\ MarkOf(t, t.row).day = t.row.day
  BY <1>1, <1>2, MarkOfType
<1>4. desk' = [desk EXCEPT ![w] = marked] /\ UNCHANGED <<request, register>>
  BY DEF Mark, MarkOf, Updated
<1>5. desk'[w] = marked
  BY <1>4 DEF AttendanceTypeOK
<1>6. QED BY <1>2, <1>3, <1>4, <1>5 DEF Follows

LEMMA VerdictFollows ==
    ASSUME AttendanceTypeOK, NEW w \in Desks, Follows(w), desk[w] \in Marking
    PROVE  /\ Verdict(w) = {} =>
                \/ request[desk[w].id].status # "approved" /\ desk[w].mark.status # "approved"
                \/ register[desk[w].row.day].source # "form"
           /\ \A e \in Verdict(w) : e.source = "form" =>
                /\ ApprovedOn(Seen(w), desk[w].row.day) # {}
                /\ e.status = Heaviest(Seen(w), ApprovedOn(Seen(w), desk[w].row.day))
<1> DEFINE t == desk[w]
           day == t.row.day
           approved == ApprovedOn(Seen(w), day)
           snapshot == Snapshot(Seen(w), day, t.prev)
<1>1. /\ t.at = "marked" /\ t.id \in Requests /\ request[t.id] = t.row /\ t.prev \in Snapshots
      /\ \/ t.mark = NoRequest /\ t.decision = "none"
         \/ t.mark # NoRequest /\ t.mark.status = t.decision /\ t.mark.day = day
  BY DEF Marking, Follows
<1>2. Seen(w) \in RequestTables /\ Seen(w)[t.id] = t.mark
  <2>1. Seen(w) \in RequestTables
    BY SeenType
  <2>2. QED BY <1>1, <2>1 DEF Seen, AttendanceTypeOK
<1>3. t.decision = "approved" => approved # {}
  BY <1>1, <1>2 DEF ApprovedOn
<1>4. ~Concerns(t) => request[t.id].status # "approved" /\ t.mark.status # "approved"
  BY <1>1, NoRequestIsNone DEF Concerns
<1>5. (IF snapshot = Unset THEN Blank ELSE snapshot).source # "form"
  <2>1. snapshot \in Snapshots
    BY <1>1, <1>2, SnapshotType
  <2>2. QED BY <2>1 DEF Snapshots, Blank
<1>6. \/ ~Concerns(t) /\ Verdict(w) = {}
      \/ approved # {} /\ Verdict(w) = {[status |-> Heaviest(Seen(w), approved), source |-> "form"]}
      \/ /\ approved = {} /\ Verdict(w) = {}
         /\ t.decision = "approved" \/ register[day].source # "form"
      \/ Verdict(w) = {IF snapshot = Unset THEN Blank ELSE snapshot}
  BY DEF Verdict
<1>7. QED
  <2>1. CASE ~Concerns(t) /\ Verdict(w) = {}
    BY <1>4, <2>1
  <2>2. CASE approved # {} /\ Verdict(w) = {[status |-> Heaviest(Seen(w), approved), source |-> "form"]}
    <3>1. PICK heaviest : heaviest = Heaviest(Seen(w), approved)
      OBVIOUS
    <3>2. Verdict(w) # {} /\ \A e \in Verdict(w) : e.status = heaviest
      BY <2>2, <3>1
    <3>3. QED BY <2>2, <3>1, <3>2
  <2>3. CASE /\ approved = {} /\ Verdict(w) = {}
             /\ t.decision = "approved" \/ register[day].source # "form"
    BY <1>3, <2>3
  <2>4. CASE Verdict(w) = {IF snapshot = Unset THEN Blank ELSE snapshot}
    BY <1>5, <2>4
  <2>5. QED BY <1>6, <2>1, <2>2, <2>3, <2>4

LEMMA WeighFollows ==
    ASSUME AttendanceTypeOK, NEW w \in Desks, Follows(w), Weigh(w)
    PROVE  Follows(w)'
<1> DEFINE t == desk[w]
           weighed == [at |-> "weighed", id |-> t.id, mark |-> t.mark, day |-> t.row.day,
                       entries |-> Verdict(w)]
<1>1. t \in Marking /\ t.at = "marked"
  BY DeskIs DEF AttendanceTypeOK, AttendanceDesks, Weigh
<1>2. /\ request[t.id] = t.row
      /\ t.mark = NoRequest \/ t.mark.day = t.row.day
  BY <1>1 DEF Follows
<1>3. desk' = [desk EXCEPT ![w] = weighed] /\ UNCHANGED <<request, register>>
  BY DEF Weigh
<1>4. PICK entries : entries = Verdict(w)
  OBVIOUS
<1>5. desk'[w] = [at |-> "weighed", id |-> t.id, mark |-> t.mark, day |-> t.row.day,
                  entries |-> entries]
  BY <1>3, <1>4 DEF AttendanceTypeOK
<1>6. Seen(w)' = Seen(w)
  BY <1>3, <1>5 DEF Seen
<1>7. /\ entries = {} =>
            \/ request[t.id].status # "approved" /\ t.mark.status # "approved"
            \/ register[t.row.day].source # "form"
      /\ \A e \in entries : e.source = "form" =>
            /\ ApprovedOn(Seen(w), t.row.day) # {}
            /\ e.status = Heaviest(Seen(w), ApprovedOn(Seen(w), t.row.day))
  BY <1>1, <1>4, VerdictFollows
<1>8. QED BY <1>2, <1>3, <1>5, <1>6, <1>7 DEF Follows

\* What a transaction settles that follows its request keeps every day's register
\* on the requests.
LEMMA SettleKeepsDay ==
    ASSUME AttendanceTypeOK, NEW w \in Desks, Follows(w), Settle(w),
           NEW day \in Days, FollowsRequests(day)
    PROVE  FollowsRequests(day)'
<1> DEFINE t == desk[w]
<1>1. t \in Weighing /\ t.at = "weighed"
  BY DeskIs DEF AttendanceTypeOK, AttendanceDesks, Settle
<1>2. t.id \in Requests /\ t.day \in Days
  BY <1>1 DEF Weighing
<1>3. /\ request[t.id].day = t.day
      /\ t.mark = NoRequest \/ t.mark.day = t.day
      /\ t.entries = {} =>
            \/ request[t.id].status # "approved" /\ t.mark.status # "approved"
            \/ register[t.day].source # "form"
      /\ \A e \in t.entries : e.source = "form" =>
            /\ ApprovedOn(Seen(w), t.day) # {}
            /\ e.status = Heaviest(Seen(w), ApprovedOn(Seen(w), t.day))
  BY <1>1 DEF Follows
<1>4. request' = Seen(w) /\ request \in RequestTables
  BY DEF Settle, AttendanceTypeOK, RequestTables
<1>5. ASSUME day # t.day \/ (request[t.id].status # "approved" /\ t.mark.status # "approved")
      PROVE  /\ ApprovedOn(request', day) = ApprovedOn(request, day)
             /\ Heaviest(request', ApprovedOn(request', day))
                  = Heaviest(request, ApprovedOn(request, day))
  <2>1. request[t.id].status # "approved" \/ request[t.id].day # day
    BY <1>3, <1>5
  <2>2. t.mark.status # "approved" \/ t.mark.day # day
    BY <1>3, <1>5, NoRequestIsNone
  <2>3. PICK mark : mark = t.mark
    OBVIOUS
  <2>4. /\ ApprovedOn([request EXCEPT ![t.id] = mark], day) = ApprovedOn(request, day)
        /\ Heaviest([request EXCEPT ![t.id] = mark],
                    ApprovedOn([request EXCEPT ![t.id] = mark], day))
             = Heaviest(request, ApprovedOn(request, day))
    BY <1>2, <1>4, <2>1, <2>2, <2>3, SameApproved
  <2>5. request' = [request EXCEPT ![t.id] = mark]
    BY <1>4, <2>3 DEF Seen
  <2>6. QED BY <2>4, <2>5, Zenon
<1>6. ASSUME register'[day].source = "form"
      PROVE  /\ ApprovedOn(request', day) # {}
             /\ register'[day].status = Heaviest(request', ApprovedOn(request', day))
  <2>1. CASE register'[day] = register[day]
             /\ (day # t.day \/ (request[t.id].status # "approved" /\ t.mark.status # "approved"))
    <3>1. /\ ApprovedOn(request', day) = ApprovedOn(request, day)
          /\ Heaviest(request', ApprovedOn(request', day))
               = Heaviest(request, ApprovedOn(request, day))
      BY <1>5, <2>1
    <3>2. /\ ApprovedOn(request, day) # {}
          /\ register[day].status = Heaviest(request, ApprovedOn(request, day))
      BY <1>6, <2>1 DEF FollowsRequests
    <3>3. QED BY <2>1, <3>1, <3>2
  <2>2. CASE t.entries = {} /\ register' = register
    <3>1. day # t.day \/ (request[t.id].status # "approved" /\ t.mark.status # "approved")
      BY <1>3, <1>6, <2>2
    <3>2. QED BY <2>1, <2>2, <3>1
  <2>3. CASE \E e \in t.entries : register' = [register EXCEPT ![t.day] = e]
    <3>1. PICK e \in t.entries : register' = [register EXCEPT ![t.day] = e]
      BY <2>3
    <3>2. register'[day] = IF day = t.day THEN e ELSE register[day]
      BY <3>1 DEF AttendanceTypeOK
    <3>3. CASE day = t.day
      <4>1. /\ ApprovedOn(Seen(w), t.day) # {}
            /\ e.status = Heaviest(Seen(w), ApprovedOn(Seen(w), t.day))
        BY <1>3, <1>6, <3>2, <3>3
      <4>2. QED BY <1>4, <3>2, <3>3, <4>1
    <3>4. CASE day # t.day
      BY <2>1, <3>2, <3>4
    <3>5. QED BY <3>3, <3>4
  <2>4. QED BY <2>2, <2>3 DEF Settle
<1>7. QED BY <1>6 DEF FollowsRequests

\* What a desk follows is not touched by a step that writes neither table.
LEMMA OtherUntouched ==
    ASSUME NEW v \in Desks, Follows(v), desk'[v] = desk[v], UNCHANGED <<request, register>>
    PROVE  Follows(v)'
<1>1. Seen(v)' = Seen(v)
  BY DEF Seen
<1>2. QED BY <1>1 DEF Follows

\* Nor by one that writes another request and, while the desk has weighed a
\* day, neither an approval of that day nor its register.
LEMMA OtherWritten ==
    ASSUME AttendanceTypeOK, NEW v \in Desks, Follows(v), desk'[v] = desk[v],
           NEW id \in Requests, NEW report, request' = [request EXCEPT ![id] = report],
           desk[v] # AtHome => desk[v].id # id,
           desk[v].at = "weighed" =>
               /\ request[id].status # "approved" \/ request[id].day # desk[v].day
               /\ report.status # "approved" \/ report.day # desk[v].day
               /\ register'[desk[v].day] = register[desk[v].day]
    PROVE  Follows(v)'
<1> DEFINE t == desk[v]
<1>1. CASE t.at \notin {"submit", "read", "marked", "weighed"}
  BY <1>1 DEF Follows
<1>2. CASE t.at \in {"submit", "read", "marked"}
  <2>1. PICK other \in Requests : other = t.id
    BY <1>2, DeskIs DEF AttendanceTypeOK, AttendanceDesks, Submitting, Reading, Marking
  <2>2. other # id
    BY <1>2, <2>1 DEF AtHome
  <2>3. request'[other] = request[other]
    BY <2>2 DEF AttendanceTypeOK
  <2>4. QED BY <1>2, <2>1, <2>3 DEF Follows
<1>3. CASE t.at = "weighed"
  <2>1. t \in Weighing
    BY <1>3, DeskIs DEF AttendanceTypeOK, AttendanceDesks
  <2>2. PICK other \in Requests, mark \in ReportRows \cup {NoRequest}, day \in Days :
            other = t.id /\ mark = t.mark /\ day = t.day
    BY <2>1 DEF Weighing
  <2>3. other # id
    BY <1>3, <2>2 DEF AtHome
  <2>4. PICK rows \in RequestTables : rows = Seen(v)
    BY <2>2 DEF Seen, AttendanceTypeOK, RequestTables
  <2>5. rows = [request EXCEPT ![other] = mark]
    BY <2>2, <2>4 DEF Seen
  <2>6. Seen(v)' = [[request EXCEPT ![id] = report] EXCEPT ![other] = mark]
    BY <2>2 DEF Seen
  <2>7. [rows EXCEPT ![id] = report] = [[request EXCEPT ![id] = report] EXCEPT ![other] = mark]
    BY <2>3, <2>5 DEF AttendanceTypeOK
  <2>8. Seen(v)' = [rows EXCEPT ![id] = report]
    BY <2>6, <2>7
  <2>9. rows[id] = request[id]
    BY <2>3, <2>5 DEF AttendanceTypeOK
  <2>10. /\ ApprovedOn([rows EXCEPT ![id] = report], day) = ApprovedOn(rows, day)
         /\ Heaviest([rows EXCEPT ![id] = report], ApprovedOn([rows EXCEPT ![id] = report], day))
              = Heaviest(rows, ApprovedOn(rows, day))
    BY <1>3, <2>2, <2>9, SameApproved
  <2>11. PICK seen : seen = Seen(v)'
    OBVIOUS
  <2>12. /\ ApprovedOn(seen, day) = ApprovedOn(rows, day)
         /\ Heaviest(seen, ApprovedOn(seen, day)) = Heaviest(rows, ApprovedOn(rows, day))
    BY <2>8, <2>10, <2>11, Zenon
  <2>13. request'[other] = request[other] /\ register'[day] = register[day]
    BY <1>3, <2>2, <2>3 DEF AttendanceTypeOK
  <2>14. /\ request[other].day = day
         /\ mark = NoRequest \/ mark.day = day
         /\ t.entries = {} =>
               \/ request[other].status # "approved" /\ mark.status # "approved"
               \/ register[day].source # "form"
         /\ \A e \in t.entries : e.source = "form" =>
               /\ ApprovedOn(rows, day) # {}
               /\ e.status = Heaviest(rows, ApprovedOn(rows, day))
    BY <1>3, <2>2, <2>4 DEF Follows
  <2>15. /\ request'[other].day = day
         /\ mark = NoRequest \/ mark.day = day
         /\ t.entries = {} =>
               \/ request'[other].status # "approved" /\ mark.status # "approved"
               \/ register'[day].source # "form"
         /\ \A e \in t.entries : e.source = "form" =>
               /\ ApprovedOn(seen, day) # {}
               /\ e.status = Heaviest(seen, ApprovedOn(seen, day))
    BY <2>12, <2>13, <2>14
  <2>16. QED BY <1>3, <2>2, <2>11, <2>15 DEF Follows
<1>4. QED BY <1>1, <1>2, <1>3

\* What a desk that writes its request does to the tables.
LEMMA SubmitWrites ==
    ASSUME AttendanceTypeOK, NEW w \in Desks, WriteSubmitted(w)
    PROVE  /\ desk[w] \in Submitting /\ desk[w].at = "submit" /\ UNCHANGED <<register, crossed>>
           /\ \/ UNCHANGED request
              \/ \E report : /\ request' = [request EXCEPT ![desk[w].id] = report]
                             /\ report.status = "submitted" /\ report.day = desk[w].day
<1> DEFINE t == desk[w]
           report == [status |-> "submitted", day |-> t.day, type |-> t.form.type,
                      leave |-> t.form.leave, prev |-> t.row.prev, updated |-> t.stamp]
<1>1. t \in Submitting /\ t.at = "submit"
  BY DeskIs DEF AttendanceTypeOK, AttendanceDesks, WriteSubmitted
<1>2. UNCHANGED <<register, crossed>>
  BY DEF WriteSubmitted
<1>3. request' = [request EXCEPT ![t.id] = report] \/ UNCHANGED request
  BY DEF WriteSubmitted
<1>4. report.status = "submitted" /\ report.day = t.day
  OBVIOUS
<1> HIDE DEF report
<1>5. QED BY <1>1, <1>2, <1>3, <1>4

LEMMA SettleWrites ==
    ASSUME AttendanceTypeOK, NEW w \in Desks, Settle(w)
    PROVE  /\ desk[w] \in Weighing /\ desk[w].at = "weighed" /\ UNCHANGED crossed
           /\ request' = [request EXCEPT ![desk[w].id] = desk[w].mark]
           /\ \A day \in Days : day # desk[w].day => register'[day] = register[day]
<1>1. desk[w] \in Weighing /\ desk[w].at = "weighed"
  BY DeskIs DEF AttendanceTypeOK, AttendanceDesks, Settle
<1>2. request' = [request EXCEPT ![desk[w].id] = desk[w].mark] /\ UNCHANGED crossed
  BY DEF Settle, Seen
<1>3. \A day \in Days : day # desk[w].day => register'[day] = register[day]
  <2>1. PICK mine : mine = desk[w].day
    OBVIOUS
  <2>2. UNCHANGED register \/ \E e : register' = [register EXCEPT ![mine] = e]
    BY <2>1 DEF Settle
  <2>3. \A day \in Days : day # mine => register'[day] = register[day]
    BY <2>2 DEF AttendanceTypeOK
  <2>4. QED BY <2>1, <2>3
<1>4. QED BY <1>1, <1>2, <1>3

\* A transaction that strays is about crossed days only, whichever its step.
LEMMA StrayDays ==
    ASSUME NEW w \in Desks, Strays(w)
    PROVE  /\ request[desk[w].id] = NoRequest \/ request[desk[w].id].day \in crossed
           /\ desk[w].at = "submit" => desk[w].day \in crossed
           /\ desk[w].at = "weighed" =>
                desk[w].day \in crossed /\ (desk[w].mark = NoRequest \/ desk[w].mark.day \in crossed)
<1>1. Touched(desk[w]) \subseteq crossed /\ DaysOf({request[desk[w].id]}) \subseteq crossed
  BY DEF Strays
<1>2. request[desk[w].id] = NoRequest \/ request[desk[w].id].day \in crossed
  BY <1>1 DEF DaysOf
<1>3. QED BY <1>1, <1>2, TouchedBy

\* It goes on straying as long as its request is not moved to a day that no
\* transactions crossed on.
LEMMA StaysStray ==
    ASSUME NEW v \in Desks, Strays(v), NEW t, t # AtHome, desk'[v] = t, t.id = desk[v].id,
           crossed \subseteq crossed', Touched(t) \subseteq crossed',
           \/ request'[t.id] = request[t.id]
           \/ request'[t.id] = NoRequest
           \/ request'[t.id].day \in crossed'
    PROVE  Strays(v)'
<1>1. request[t.id] = NoRequest \/ request[t.id].day \in crossed
  BY StrayDays
<1>2. request'[t.id] = NoRequest \/ request'[t.id].day \in crossed'
  BY <1>1
<1>3. DaysOf({request'[t.id]}) \subseteq crossed'
  BY <1>2 DEF DaysOf
<1>4. Touched(t)' = Touched(t) /\ Touched(desk[v])' = Touched(t)
  BY DEF Touched, DaysOf
<1>5. QED BY <1>3, <1>4 DEF Strays

LEMMA MarkStrays ==
    ASSUME AttendanceTypeOK, NEW w \in Desks, Strays(w), Mark(w)
    PROVE  Strays(w)'
<1> DEFINE t == desk[w]
           marked == [at |-> "marked", id |-> t.id, row |-> t.row, decision |-> t.decision,
                      prev |-> t.prev, mark |-> MarkOf(t, request[t.id])]
<1>1. t \in Reading /\ t.at = "read" /\ request[t.id] \in ReportRows \cup {NoRequest}
  BY DeskIs DEF AttendanceTypeOK, AttendanceDesks, Mark, Reading
<1>2. desk' = [desk EXCEPT ![w] = marked] /\ UNCHANGED <<request, crossed>>
  BY DEF Mark, MarkOf, Updated
<1>3. desk'[w] = marked /\ marked.at = "marked" /\ marked # AtHome
  BY <1>2 DEF AttendanceTypeOK, AtHome
<1>4. t.row = NoRequest \/ t.row.day \in crossed
  BY <1>1, TouchedBy DEF Strays
<1>5. MarkOf(t, request[t.id]) = NoRequest \/ MarkOf(t, request[t.id]).day \in crossed
  <2>1. CASE request[t.id] = NoRequest
    BY <2>1 DEF MarkOf
  <2>2. CASE request[t.id] # NoRequest
    <3>1. request[t.id].day \in crossed
      BY <2>2, StrayDays
    <3>2. QED BY <1>1, <3>1, MarkOfType
  <2>3. QED BY <2>1, <2>2
<1>6. Touched(marked) \subseteq crossed
  <2>1. PICK mark : mark = MarkOf(t, request[t.id])
    OBVIOUS
  <2>2. marked.row = t.row /\ marked.mark = mark
    BY <2>1
  <2> HIDE DEF marked
  <2>3. QED BY <1>3, <1>4, <1>5, <2>1, <2>2, TouchedBy
<1>7. marked.id = t.id /\ UNCHANGED <<request, crossed>>
  BY <1>2
<1> HIDE DEF marked
<1>8. QED BY <1>3, <1>6, <1>7, StaysStray

LEMMA WeighStrays ==
    ASSUME AttendanceTypeOK, NEW w \in Desks, Strays(w), Weigh(w)
    PROVE  Strays(w)'
<1> DEFINE t == desk[w]
           weighed == [at |-> "weighed", id |-> t.id, mark |-> t.mark, day |-> t.row.day,
                       entries |-> Verdict(w)]
<1>1. t \in Marking /\ t.at = "marked"
  BY DeskIs DEF AttendanceTypeOK, AttendanceDesks, Weigh
<1>2. t.row # NoRequest
  BY <1>1, NoRequestIsNone DEF Marking
<1>3. /\ desk' = [desk EXCEPT ![w] = weighed] /\ UNCHANGED request
      /\ crossed \subseteq crossed'
  BY DEF Weigh
<1>4. desk'[w] = weighed /\ weighed.at = "weighed" /\ weighed # AtHome
  BY <1>3 DEF AttendanceTypeOK, AtHome
<1>5. t.row.day \in crossed /\ (t.mark = NoRequest \/ t.mark.day \in crossed)
  BY <1>1, <1>2, TouchedBy DEF Strays
<1>6. weighed.id = t.id /\ weighed.day = t.row.day /\ weighed.mark = t.mark
  OBVIOUS
<1> HIDE DEF weighed
<1>7. Touched(weighed) \subseteq crossed
  BY <1>4, <1>5, <1>6, TouchedBy
<1>8. QED BY <1>3, <1>4, <1>6, <1>7, StaysStray

\* A transaction that does not stray has weighed a day that none crossed on.
LEMMA WeighedUncrossed ==
    ASSUME NEW v \in Desks, Follows(v), ~Strays(v), desk[v].at = "weighed"
    PROVE  desk[v].day \notin crossed
<1> DEFINE t == desk[v]
<1>1. request[t.id].day = t.day /\ (t.mark = NoRequest \/ t.mark.day = t.day)
  BY DEF Follows
<1>2. t # AtHome
  BY DEF AtHome
<1>3. ASSUME t.day \in crossed PROVE FALSE
  <2>1. Touched(t) \subseteq crossed
    BY <1>1, <1>3, TouchedBy
  <2>2. DaysOf({request[t.id]}) \subseteq crossed
    BY <1>1, <1>3 DEF DaysOf
  <2>3. QED BY <1>2, <2>1, <2>2 DEF Strays
<1>4. QED BY <1>3

LEMMA OtherDesk ==
    ASSUME AttendanceTypeOK, NEW v \in Desks, NEW w \in Desks, v # w, DeskNext(w)
    PROVE  desk'[v] = desk[v] /\ crossed \subseteq crossed'
<1>1. ASSUME NEW t, Begin(w, t) PROVE desk'[v] = desk[v] /\ crossed \subseteq crossed'
  BY <1>1 DEF Begin, AttendanceTypeOK
<1>2. ASSUME LeaveDesk(w), UNCHANGED crossed PROVE desk'[v] = desk[v] /\ crossed \subseteq crossed'
  BY <1>2 DEF LeaveDesk, AttendanceTypeOK
<1>3. ASSUME Mark(w) PROVE desk'[v] = desk[v] /\ crossed \subseteq crossed'
  BY <1>3 DEF Mark, AttendanceTypeOK
<1>4. ASSUME Weigh(w) PROVE desk'[v] = desk[v] /\ crossed \subseteq crossed'
  BY <1>4 DEF Weigh, AttendanceTypeOK
<1>5. QED
  BY <1>1, <1>2, <1>3, <1>4 DEF DeskNext, ReadForSubmit, ReadForReview, WriteSubmitted, Settle, GiveUp

\* A step of a desk writes the request it is about, or none.
LEMMA DeskWrites ==
    ASSUME AttendanceTypeOK, NEW w \in Desks, DeskNext(w)
    PROVE  UNCHANGED <<request, register>> \/ WriteSubmitted(w) \/ Settle(w)
BY DEF DeskNext, ReadForSubmit, ReadForReview, Begin, Mark, Weigh, GiveUp

LEMMA OtherStays ==
    ASSUME AttendanceInv, NEW v \in Desks, NEW w \in Desks, v # w, Strays(v), DeskNext(w)
    PROVE  Strays(v)'
<1> DEFINE id == desk[v].id
<1>1. AttendanceTypeOK /\ desk[v] # AtHome /\ Touched(desk[v]) \subseteq crossed
  BY DEF AttendanceInv, Strays
<1>2. desk'[v] = desk[v] /\ crossed \subseteq crossed'
  BY <1>1, OtherDesk
<1>3. \/ request'[id] = request[id]
      \/ request'[id] = NoRequest
      \/ request'[id].day \in crossed
  <2>1. CASE UNCHANGED request
    BY <2>1
  <2>2. desk[w] # AtHome /\ desk[w].id = id => Strays(w)
    BY <1>1 DEF AttendanceInv, CrossingsCounted
  <2>3. CASE WriteSubmitted(w)
    <3>1. CASE desk[w].id = id
      <4>1. desk[w] # AtHome /\ desk[w].at = "submit"
        BY <2>3 DEF WriteSubmitted, AtHome
      <4>2. desk[w].day \in crossed /\ id \in Requests
        BY <1>1, <2>2, <2>3, <3>1, <4>1, StrayDays, SubmitWrites DEF Submitting
      <4>3. ASSUME NEW report, request' = [request EXCEPT ![id] = report]
            PROVE  request'[id] = report
        BY <1>1, <4>2, <4>3 DEF AttendanceTypeOK
      <4>4. QED BY <1>1, <2>1, <2>3, <3>1, <4>2, <4>3, SubmitWrites
    <3>2. CASE desk[w].id # id
      <4>1. UNCHANGED request \/ \E report : request' = [request EXCEPT ![desk[w].id] = report]
        BY <1>1, <2>3, SubmitWrites
      <4>2. ASSUME NEW report, request' = [request EXCEPT ![desk[w].id] = report]
            PROVE  request'[id] = request[id]
        <5>1. id \in Requests
          BY <1>1, DeskIs DEF AttendanceTypeOK, AttendanceDesks, Submitting, Reading, Marking, Weighing
        <5>2. QED BY <1>1, <3>2, <4>2, <5>1 DEF AttendanceTypeOK
      <4>3. QED BY <4>1, <4>2
    <3>3. QED BY <3>1, <3>2
  <2>4. CASE Settle(w)
    <3>1. PICK mark : mark = desk[w].mark
      OBVIOUS
    <3>2. request' = [request EXCEPT ![desk[w].id] = mark] /\ desk[w].at = "weighed"
      BY <1>1, <2>4, <3>1, SettleWrites
    <3>3. id \in Requests
      BY <1>1, DeskIs DEF AttendanceTypeOK, AttendanceDesks, Submitting, Reading, Marking, Weighing
    <3>4. CASE desk[w].id = id
      <4>1. desk[w] # AtHome
        BY <3>2 DEF AtHome
      <4>2. mark = NoRequest \/ mark.day \in crossed
        BY <2>2, <3>1, <3>2, <3>4, <4>1, StrayDays
      <4>3. request'[id] = mark
        BY <1>1, <3>2, <3>3, <3>4 DEF AttendanceTypeOK
      <4>4. QED BY <4>2, <4>3
    <3>5. CASE desk[w].id # id
      BY <1>1, <3>2, <3>3, <3>5 DEF AttendanceTypeOK
    <3>6. QED BY <3>4, <3>5
  <2>5. QED BY <1>1, <2>1, <2>3, <2>4, DeskWrites
<1>4. \/ request'[id] = request[id]
      \/ request'[id] = NoRequest
      \/ request'[id].day \in crossed'
  BY <1>2, <1>3
<1>5. QED BY <1>1, <1>2, <1>4, StaysStray

\* What a transaction that does not stray has read and weighed is left alone by
\* every other: those about its request would have made it stray, those that
\* stray write other days, and those that follow their own write another's.
LEMMA OtherFollows ==
    ASSUME AttendanceInv, NEW v \in Desks, NEW w \in Desks, v # w, Follows(v), ~Strays(v), DeskNext(w)
    PROVE  Follows(v)'
<1>1. AttendanceTypeOK /\ (Follows(w) \/ Strays(w))
  BY DEF AttendanceInv
<1>2. desk'[v] = desk[v]
  BY <1>1, OtherDesk
<1>3. CASE UNCHANGED <<request, register>>
  BY <1>2, <1>3, OtherUntouched
<1>4. desk[v] # AtHome /\ desk[w] # AtHome => desk[v].id # desk[w].id
  BY DEF AttendanceInv, CrossingsCounted
<1>5. desk[v].at = "weighed" => desk[v].day \notin crossed /\ desk[v].day \in Days /\ desk[v] # AtHome
  <2>1. desk[v].at = "weighed" => desk[v].day \in Days /\ desk[v] # AtHome
    BY <1>1, DeskIs DEF AttendanceTypeOK, AttendanceDesks, Weighing, AtHome
  <2>2. QED BY <2>1, WeighedUncrossed
<1>6. CASE WriteSubmitted(w)
  <2>1. desk[w].id \in Requests /\ desk[w] # AtHome /\ desk[w].at = "submit" /\ UNCHANGED register
    BY <1>1, <1>6, SubmitWrites DEF Submitting, AtHome
  <2>2. PICK id \in Requests : id = desk[w].id
    BY <2>1
  <2>3. \/ request[id].status # "approved"
        \/ request[id].day \in crossed
    BY <1>1, <2>1, <2>2, StrayDays, NoRequestIsNone DEF Follows
  <2>4. ASSUME NEW report, request' = [request EXCEPT ![id] = report], report.status = "submitted"
        PROVE  Follows(v)'
    <3>1. desk[v].at = "weighed" =>
              /\ request[id].status # "approved" \/ request[id].day # desk[v].day
              /\ report.status # "approved" \/ report.day # desk[v].day
              /\ register'[desk[v].day] = register[desk[v].day]
      BY <1>5, <2>1, <2>3, <2>4
    <3>2. QED BY <1>1, <1>2, <1>4, <2>1, <2>2, <2>4, <3>1, OtherWritten
  <2>5. QED BY <1>1, <1>2, <1>3, <1>6, <2>1, <2>2, <2>4, SubmitWrites
<1>7. CASE Settle(w)
  <2>1. /\ desk[w] \in Weighing /\ desk[w].at = "weighed" /\ desk[w] # AtHome
        /\ request' = [request EXCEPT ![desk[w].id] = desk[w].mark]
        /\ \A day \in Days : day # desk[w].day => register'[day] = register[day]
    BY <1>1, <1>7, SettleWrites DEF AtHome
  <2>2. PICK id \in Requests, mark \in ReportRows \cup {NoRequest}, day \in Days :
            id = desk[w].id /\ mark = desk[w].mark /\ day = desk[w].day
    BY <2>1 DEF Weighing
  <2>3. ASSUME desk[v].at = "weighed"
        PROVE  /\ request[id].status # "approved" \/ request[id].day # desk[v].day
               /\ mark.status # "approved" \/ mark.day # desk[v].day
               /\ register'[desk[v].day] = register[desk[v].day]
    <3>1. desk[v].day # day
      BY <1>5, <2>1, <2>2, <2>3 DEF AttendanceInv, CrossingsCounted
    <3>2. CASE Follows(w)
      <4>1. request[id].day = day /\ (mark = NoRequest \/ mark.day = day)
        BY <2>1, <2>2, <3>2 DEF Follows
      <4>2. QED BY <1>5, <2>1, <2>2, <2>3, <3>1, <4>1, NoRequestIsNone
    <3>3. CASE Strays(w)
      <4>1. /\ request[id] = NoRequest \/ request[id].day \in crossed
            /\ mark = NoRequest \/ mark.day \in crossed
        BY <2>1, <2>2, <3>3, StrayDays
      <4>2. QED BY <1>5, <2>1, <2>2, <2>3, <3>1, <4>1, NoRequestIsNone
    <3>4. QED BY <1>1, <3>2, <3>3
  <2>4. request' = [request EXCEPT ![id] = mark]
    BY <2>1, <2>2
  <2>5. desk[v] # AtHome => desk[v].id # id
    BY <1>4, <2>1, <2>2
  <2>6. QED BY <1>1, <1>2, <2>3, <2>4, <2>5, OtherWritten
<1>8. QED BY <1>1, <1>3, <1>6, <1>7, DeskWrites

\* What its own step leaves of a desk.
LEMMA OwnStep ==
    ASSUME AttendanceInv, NEW w \in Desks, DeskNext(w)
    PROVE  /\ Follows(w)' \/ Strays(w)'
           /\ desk[w] # AtHome /\ desk'[w] # AtHome =>
                /\ desk'[w].id = desk[w].id /\ (Strays(w) => Strays(w)')
                /\ desk'[w].at = "weighed" => Weigh(w)
           /\ desk[w] = AtHome /\ desk'[w] # AtHome =>
                /\ Begin(w, desk'[w]) /\ desk'[w].at \in {"submit", "read"}
                /\ desk'[w].row = request[desk'[w].id]
<1>1. AttendanceTypeOK /\ (Follows(w) \/ Strays(w))
  BY DEF AttendanceInv
<1>2. CASE LeaveDesk(w)
  <2>1. desk'[w] = AtHome
    BY <1>1, <1>2, LeavesHome
  <2>2. QED BY <2>1, AtHomeFollows
<1>3. ASSUME NEW t, Begin(w, t), t.at \in {"submit", "read"}, t.row = request[t.id],
             t.at = "submit" => t.row.status # "approved"
      PROVE  Follows(w)' /\ desk[w] = AtHome /\ desk'[w] = t
  BY <1>1, <1>3, BeginsFollowing, BeginsWith DEF Begin
<1>4. ASSUME NEW id \in Requests, NEW day \in Days, NEW form \in Forms, ReadForSubmit(w, id, day, form)
      PROVE  \E t : /\ Begin(w, t) /\ t.at \in {"submit", "read"} /\ t.row = request[t.id]
                    /\ t.at = "submit" => t.row.status # "approved"
  <2>1. PICK t : t = [at |-> "submit", id |-> id, row |-> request[id], day |-> day,
                      form |-> form, stamp |-> begun + 1]
    OBVIOUS
  <2>2. Begin(w, t) /\ request[id].status # "approved"
    BY <1>4, <2>1 DEF ReadForSubmit
  <2>3. t.at = "submit" /\ t.id = id /\ t.row = request[id]
    BY <2>1
  <2>4. QED BY <2>2, <2>3
<1>5. ASSUME NEW id \in Requests, NEW decision, ReadForReview(w, id, decision)
      PROVE  \E t : /\ Begin(w, t) /\ t.at \in {"submit", "read"} /\ t.row = request[t.id]
                    /\ t.at = "submit" => t.row.status # "approved"
  <2>1. PICK t : t = [at |-> "read", id |-> id, row |-> request[id], decision |-> decision,
                      prev |-> Noted(request[id], decision), stamp |-> begun + 1]
    OBVIOUS
  <2>2. Begin(w, t)
    BY <1>5, <2>1 DEF ReadForReview
  <2>3. t.at = "read" /\ t.id = id /\ t.row = request[id]
    BY <2>1
  <2>4. QED BY <2>2, <2>3
<1>6. CASE Mark(w)
  <2>1. Follows(w)' \/ Strays(w)'
    BY <1>1, <1>6, MarkFollows, MarkStrays
  <2>2. desk[w] # AtHome /\ desk'[w].id = desk[w].id /\ desk'[w].at = "marked"
    BY <1>1, <1>6 DEF Mark, AttendanceTypeOK, AtHome
  <2>3. QED BY <1>1, <1>6, <2>1, <2>2, MarkStrays
<1>7. CASE Weigh(w)
  <2>1. Follows(w)' \/ Strays(w)'
    BY <1>1, <1>7, WeighFollows, WeighStrays
  <2>2. desk[w] # AtHome /\ desk'[w].id = desk[w].id
    BY <1>1, <1>7 DEF Weigh, AttendanceTypeOK, AtHome
  <2>3. QED BY <1>1, <1>7, <2>1, <2>2, WeighStrays
<1>8. CASE \E t : /\ Begin(w, t) /\ t.at \in {"submit", "read"} /\ t.row = request[t.id]
                  /\ t.at = "submit" => t.row.status # "approved"
  BY <1>3, <1>8
<1>9. CASE WriteSubmitted(w) \/ Settle(w) \/ GiveUp(w)
  BY <1>2, <1>9 DEF WriteSubmitted, Settle, GiveUp
<1>10. QED BY <1>4, <1>5, <1>6, <1>7, <1>8, <1>9 DEF DeskNext

\* Every crossing is counted when it happens: at the reading of the second of
\* two transactions about a request, at the second of two weighings of a day.
LEMMA CrossingsNext ==
    ASSUME AttendanceInv, NEW w \in Desks, DeskNext(w)
    PROVE  CrossingsCounted'
<1>1. AttendanceTypeOK /\ AttendanceTypeOK'
  <2>1. AttendanceTypeOK /\ AttendanceNext
    BY DEF AttendanceInv, AttendanceNext
  <2>2. QED BY <2>1, AttendanceTypeNext
<1>2. \A v \in Desks : v # w => desk'[v] = desk[v] /\ crossed \subseteq crossed' /\ (Strays(v) => Strays(v)')
  BY <1>1, OtherDesk, OtherStays
<1>3. ASSUME NEW v \in Desks, v # w, desk[v] # AtHome, desk'[w] # AtHome, desk[v].id = desk'[w].id
      PROVE  Strays(v)' /\ Strays(w)'
  <2>1. CASE desk[w] # AtHome
    <3>1. desk[v].id = desk[w].id
      BY <1>3, <2>1, OwnStep
    <3>2. Strays(v) /\ Strays(w)
      BY <1>3, <2>1, <3>1 DEF AttendanceInv, CrossingsCounted
    <3>3. QED BY <1>2, <1>3, <2>1, <3>2, OwnStep
  <2>2. CASE desk[w] = AtHome
    <3>1. PICK t : t = desk'[w]
      OBVIOUS
    <3>2. /\ Begin(w, t) /\ t.at \in {"submit", "read"} /\ t.row = request[t.id]
          /\ t.id = desk[v].id /\ t # AtHome
      BY <1>3, <2>2, <3>1, OwnStep
    <3>3. UNCHANGED request /\ crossed' = crossed \cup Crossing(w, t)
      BY <1>1, <3>2, BeginsWith
    <3>4. Touched(t) \cup Touched(desk[v]) \subseteq crossed'
      BY <1>3, <3>2, <3>3 DEF Crossing
    <3>5. t.row = NoRequest \/ t.row.day \in crossed'
      BY <3>2, <3>4, TouchedBy
    <3>6. DaysOf({request[t.id]}) \subseteq crossed'
      BY <3>2, <3>5 DEF DaysOf
    <3>7. desk'[v] = desk[v] /\ request'[t.id] = request[t.id]
      BY <1>2, <1>3, <3>3
    <3>8. Strays(v)'
      BY <1>3, <3>2, <3>4, <3>6, <3>7 DEF Strays, Touched, DaysOf
    <3>9. Strays(w)'
      BY <3>1, <3>2, <3>4, <3>6, <3>7 DEF Strays, Touched, DaysOf
    <3>10. QED BY <3>8, <3>9
  <2>3. QED BY <2>1, <2>2
<1>4. ASSUME NEW v \in Desks, v # w, desk[v].at = "weighed", desk'[w].at = "weighed",
             desk[v].day = desk'[w].day
      PROVE  desk[v].day \in crossed'
  <2>1. desk'[w] # AtHome /\ Weigh(w)
    <3>1. desk'[w] # AtHome /\ ~(desk'[w].at \in {"submit", "read"})
      BY <1>4 DEF AtHome
    <3>2. QED BY <1>4, <3>1, OwnStep
  <2>2. desk'[w].day = desk[w].row.day
    BY <1>1, <2>1 DEF Weigh, AttendanceTypeOK
  <2>3. desk[v].day \in Days
    BY <1>1, <1>4, DeskIs DEF AttendanceTypeOK, AttendanceDesks, Weighing
  <2>4. QED BY <1>4, <2>1, <2>2, <2>3 DEF Weigh
<1>5. ASSUME NEW u \in Desks, NEW v \in Desks, u # v, desk'[u] # AtHome, desk'[v] # AtHome
      PROVE  /\ desk'[u].id = desk'[v].id => Strays(u)' /\ Strays(v)'
             /\ desk'[u].at = "weighed" /\ desk'[v].at = "weighed" /\ desk'[u].day = desk'[v].day =>
                   desk'[u].day \in crossed'
  <2>1. CASE u = w
    BY <1>2, <1>3, <1>4, <1>5, <2>1
  <2>2. CASE v = w
    BY <1>2, <1>3, <1>4, <1>5, <2>2
  <2>3. CASE u # w /\ v # w
    BY <1>2, <1>5, <2>3 DEF AttendanceInv, CrossingsCounted
  <2>4. QED BY <2>1, <2>2, <2>3
<1>6. QED BY <1>5 DEF CrossingsCounted

\* A request written on crossed days, or never approved, keeps the others.
LEMMA WriteKeepsDay ==
    ASSUME AttendanceTypeOK, NEW id \in Requests, NEW report, NEW day \in Days,
           request' = [request EXCEPT ![id] = report], register'[day] = register[day],
           request[id].status # "approved" \/ request[id].day # day,
           report.status # "approved" \/ report.day # day,
           FollowsRequests(day)
    PROVE  FollowsRequests(day)'
<1>1. request \in RequestTables
  BY DEF AttendanceTypeOK, RequestTables
<1>2. ASSUME NEW rows \in RequestTables,
             rows[id].status # "approved" \/ rows[id].day # day
      PROVE  /\ ApprovedOn([rows EXCEPT ![id] = report], day) = ApprovedOn(rows, day)
             /\ Heaviest([rows EXCEPT ![id] = report],
                         ApprovedOn([rows EXCEPT ![id] = report], day))
                  = Heaviest(rows, ApprovedOn(rows, day))
  BY <1>2, SameApproved
<1>3. /\ ApprovedOn(request', day) = ApprovedOn(request, day)
      /\ Heaviest(request', ApprovedOn(request', day)) = Heaviest(request, ApprovedOn(request, day))
  BY <1>1, <1>2, Zenon
<1>4. QED BY <1>3 DEF FollowsRequests

LEMMA UncrossedNext ==
    ASSUME AttendanceInv, NEW w \in Desks, DeskNext(w), NEW day \in Days, day \notin crossed
    PROVE  FollowsRequests(day)'
<1>1. AttendanceTypeOK /\ (Follows(w) \/ Strays(w)) /\ FollowsRequests(day)
  BY DEF AttendanceInv, UncrossedIsHeaviest
<1>2. CASE UNCHANGED <<request, register>>
  BY <1>1, <1>2, DayKept
<1>3. CASE WriteSubmitted(w)
  <2>1. /\ desk[w].id \in Requests /\ desk[w] # AtHome /\ desk[w].at = "submit"
        /\ register'[day] = register[day]
    BY <1>1, <1>3, SubmitWrites DEF Submitting, AtHome
  <2>2. PICK id \in Requests : id = desk[w].id
    BY <2>1
  <2>3. request[id].status # "approved" \/ request[id].day # day
    BY <1>1, <2>1, <2>2, StrayDays, NoRequestIsNone DEF Follows
  <2>4. ASSUME NEW report, request' = [request EXCEPT ![id] = report], report.status = "submitted"
        PROVE  FollowsRequests(day)'
    BY <1>1, <2>1, <2>3, <2>4, WriteKeepsDay
  <2>5. QED BY <1>1, <1>2, <1>3, <2>2, <2>4, SubmitWrites
<1>4. CASE Settle(w)
  <2>1. CASE Follows(w)
    BY <1>1, <1>4, <2>1, SettleKeepsDay
  <2>2. CASE Strays(w)
    <3>1. /\ desk[w] \in Weighing /\ desk[w].at = "weighed"
          /\ request' = [request EXCEPT ![desk[w].id] = desk[w].mark]
          /\ \A d \in Days : d # desk[w].day => register'[d] = register[d]
      BY <1>1, <1>4, SettleWrites
    <3>2. PICK id \in Requests, mark \in ReportRows \cup {NoRequest} :
              id = desk[w].id /\ mark = desk[w].mark
      BY <3>1 DEF Weighing
    <3>3. /\ request[id] = NoRequest \/ request[id].day \in crossed
          /\ mark = NoRequest \/ mark.day \in crossed
          /\ desk[w].day \in crossed
      BY <2>2, <3>1, <3>2, StrayDays
    <3>4. /\ request[id].status # "approved" \/ request[id].day # day
          /\ mark.status # "approved" \/ mark.day # day
      BY <3>3, NoRequestIsNone
    <3>5. request' = [request EXCEPT ![id] = mark] /\ register'[day] = register[day]
      BY <3>1, <3>2, <3>3
    <3>6. QED BY <1>1, <3>4, <3>5, WriteKeepsDay
  <2>3. QED BY <1>1, <2>1, <2>2
<1>5. QED BY <1>1, <1>2, <1>3, <1>4, DeskWrites

\* Staff's edits by hand take a day from the requests, which changes nothing
\* that a transaction relies on.
LEMMA EditByHandNext ==
    ASSUME AttendanceInv, NEW day \in Days, NEW status \in HandStatuses, EditByHand(day, status)
    PROVE  /\ \A w \in Desks : Follows(w)' \/ Strays(w)'
           /\ CrossingsCounted' /\ UncrossedIsHeaviest'
<1>1. /\ \A d \in Days : register'[d] = register[d] \/ register'[d].source = "manual"
      /\ UNCHANGED <<request, desk, crossed>>
  BY DEF EditByHand, AttendanceTypeOK, AttendanceInv
<1>2. UncrossedIsHeaviest'
  BY <1>1 DEF AttendanceInv, UncrossedIsHeaviest, FollowsRequests
<1>3. \A w \in Desks : Strays(w)' <=> Strays(w)
  BY <1>1 DEF Strays
<1>4. CrossingsCounted'
  BY <1>1, <1>3 DEF AttendanceInv, CrossingsCounted
<1>5. ASSUME NEW w \in Desks, Follows(w)
      PROVE  Follows(w)'
  <2>1. Seen(w)' = Seen(w)
    BY <1>1 DEF Seen
  <2>2. desk[w].at = "weighed" => desk[w].day \in Days
    BY DeskIs DEF AttendanceTypeOK, AttendanceDesks, Weighing, AttendanceInv
  <2>3. QED BY <1>1, <1>5, <2>1, <2>2 DEF Follows
<1>6. \A w \in Desks : Follows(w)' \/ Strays(w)'
  BY <1>3, <1>5 DEF AttendanceInv
<1>7. QED BY <1>2, <1>4, <1>6

LEMMA AttendanceInvNext ==
    ASSUME AttendanceInv, [AttendanceNext]_attendanceVars
    PROVE  AttendanceInv'
<1>1. AttendanceTypeOK'
  BY AttendanceTypeNext DEF AttendanceInv
<1>2. ASSUME NEW w \in Desks, DeskNext(w) PROVE AttendanceInv'
  <2>1. AttendanceTypeOK
    BY DEF AttendanceInv
  <2>2. ASSUME NEW v \in Desks PROVE Follows(v)' \/ Strays(v)'
    <3>1. CASE v = w
      BY <1>2, <3>1, OwnStep
    <3>2. CASE v # w /\ Strays(v)
      BY <1>2, <3>2, OtherStays
    <3>3. CASE v # w /\ ~Strays(v)
      BY <1>2, <3>3, OtherFollows DEF AttendanceInv
    <3>4. QED BY <3>1, <3>2, <3>3
  <2>3. CrossingsCounted'
    BY <1>2, CrossingsNext
  <2>4. crossed \subseteq crossed'
    BY <1>2 DEF DeskNext, ReadForSubmit, ReadForReview, Begin, WriteSubmitted, Mark, Weigh, Settle, GiveUp
  <2>5. UncrossedIsHeaviest'
    BY <1>2, <2>4, UncrossedNext DEF UncrossedIsHeaviest
  <2>6. QED BY <1>1, <2>2, <2>3, <2>5 DEF AttendanceInv
<1>3. ASSUME NEW day \in Days, NEW status \in HandStatuses, EditByHand(day, status) PROVE AttendanceInv'
  BY <1>1, <1>3, EditByHandNext DEF AttendanceInv
<1>4. ASSUME UNCHANGED attendanceVars PROVE AttendanceInv'
  <2>1. UNCHANGED <<request, register, desk, crossed>>
    BY <1>4 DEF attendanceVars
  <2>2. UncrossedIsHeaviest'
    BY <2>1 DEF AttendanceInv, UncrossedIsHeaviest, FollowsRequests
  <2>3. \A w \in Desks : Strays(w)' <=> Strays(w)
    BY <2>1 DEF Strays
  <2>4. CrossingsCounted'
    BY <2>1, <2>3 DEF AttendanceInv, CrossingsCounted
  <2>5. ASSUME NEW w \in Desks PROVE Follows(w)' \/ Strays(w)'
    BY <2>1, <2>3, OtherUntouched DEF AttendanceInv
  <2>6. QED BY <1>1, <2>2, <2>4, <2>5 DEF AttendanceInv
<1>5. QED BY <1>2, <1>3, <1>4 DEF AttendanceNext

LEMMA AttendanceInvInit == AttendanceInit => AttendanceInv
<1>1. ASSUME AttendanceInit PROVE AttendanceInv
  <2>1. AttendanceTypeOK
    BY <1>1, AttendanceTypeInit
  <2>2. \A w \in Desks : Follows(w)
    BY <1>1 DEF AttendanceInit, Follows, AtHome
  <2>3. UncrossedIsHeaviest
    BY <1>1 DEF AttendanceInit, UncrossedIsHeaviest, FollowsRequests, Blank
  <2>4. CrossingsCounted
    BY <1>1 DEF AttendanceInit, CrossingsCounted
  <2>5. QED BY <2>1, <2>2, <2>3, <2>4 DEF AttendanceInv
<1>2. QED BY <1>1

\* At any number of desks, whatever they do at once: on every day of which no
\* two transactions about one request were open together and no two weighed
\* before the first was settled, a register that says it comes from requests is
\* the heaviest of those approved now, through every review, review taken back,
\* deletion and edit by hand (_apply_to_attendance, _release_attendance).  The
\* crossings are those the run attendance_crossed shows one of: nothing else
\* takes the register from the requests.
THEOREM RegisterFollowsRequests == AttendanceSpec => []UncrossedIsHeaviest
<1>1. AttendanceInv /\ [AttendanceNext]_attendanceVars => AttendanceInv'
  BY AttendanceInvNext
<1>2. AttendanceInv => UncrossedIsHeaviest
  BY DEF AttendanceInv
<1>3. QED BY AttendanceInvInit, <1>1, <1>2, PTL DEF AttendanceSpec

LEMMA NoneCrossNext ==
    ASSUME \A v, w \in Desks : v = w, crossed = {}, [AttendanceNext]_attendanceVars
    PROVE  crossed' = {}
<1>1. ASSUME NEW w \in Desks, DeskNext(w) PROVE crossed' = {}
  <2>1. Desks \ {w} = {}
    OBVIOUS
  <2>2. \A t : Crossing(w, t) = {}
    BY <2>1 DEF Crossing
  <2>3. ASSUME NEW t, Begin(w, t) PROVE crossed' = {}
    BY <2>2, <2>3 DEF Begin
  <2>4. ASSUME Weigh(w) PROVE crossed' = {}
    BY <2>1, <2>4 DEF Weigh
  <2>5. QED BY <1>1, <2>3, <2>4 DEF DeskNext, ReadForSubmit, ReadForReview, WriteSubmitted, Mark, Settle, GiveUp
<1>2. QED BY <1>1 DEF AttendanceNext, EditByHand, attendanceVars

\* Where requests are served one at a time, none cross, and the register follows
\* the requests on every day, as STATUS_WEIGHT's comment has it.
COROLLARY OneDeskFollowsRequests ==
    ASSUME \A v, w \in Desks : v = w
    PROVE  AttendanceSpec => []FormIsHeaviest
<1>1. AttendanceInit => crossed = {}
  BY DEF AttendanceInit
<1>2. crossed = {} /\ [AttendanceNext]_attendanceVars => (crossed = {})'
  BY NoneCrossNext
<1>3. crossed = {} /\ UncrossedIsHeaviest => FormIsHeaviest
  BY DEF UncrossedIsHeaviest, FormIsHeaviest
<1>4. QED BY <1>1, <1>2, <1>3, RegisterFollowsRequests, PTL DEF AttendanceSpec
=============================================================================
