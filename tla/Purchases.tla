----------------------------- MODULE Purchases -----------------------------
(***************************************************************************)
(* Purchase requests paid with mileage: op_save_purchase_request and       *)
(* op_review_purchase_request of lms_api/lms/content_commands.py, staff's  *)
(* edits through the generic upsert (op_upsert_sql of commands.py), and    *)
(* the admin's adjustment of a balance (mileage_adjust of api.py).         *)
(*                                                                         *)
(* One student.  A review reads the request without a lock, and only that  *)
(* reading decides whether it charges; the UPDATE that follows waits for   *)
(* other writers of the row but does not look at its status again.         *)
(*                                                                         *)
(* A request becomes approved by a review, which charges, or is saved or   *)
(* edited so, which does not: the endpoints write the status they are      *)
(* sent.                                                                   *)
(*                                                                         *)
(* Products, memos and links are left out, and so is the emptying of the   *)
(* cart: students have no server-side cart to fill.  A request with        *)
(* products cannot be deleted, as they refer to it, and ledger rows edited *)
(* by hand are left out.                                                   *)
(***************************************************************************)
EXTENDS Integers, Sequences, FiniteSetsExt

CONSTANTS
    Reviewers,      \* server workers, each running one command at a time
    Orders,         \* purchase_requests ids
    Totals,         \* what a request may cost
    Adjustments,    \* amounts an admin may add to or take from the balance
    MaxCharges,     \* bound: no review starts on an order charged, or approved,
                    \* so often
    MaxGiven,       \* bound on how often an order is approved without a review
    MaxAdjusts      \* bound on the number of adjustments

ASSUME PurchasesAssumption ==
    /\ IsFiniteSet(Orders)
    /\ Totals \subseteq Int
    /\ Adjustments \subseteq Int
    /\ MaxCharges \in Nat /\ MaxGiven \in Nat
    /\ MaxAdjusts \in Nat

OrderStatuses == {"pending", "approved", "rejected"}
NoOrder == [status |-> "none", total |-> 0]
OrderRows == [status: OrderStatuses, total: Totals]

VARIABLES
    order,      \* purchase_requests rows
    charges,    \* by order, its rows of type purchase in mileage_transactions,
    cost,       \* and what they add up to
    adjusts,    \* the rows of type adjust, in insertion order
    balance,    \* users.mileage_balance, opened at 0
    approvals,  \* history: how often a review has made each order approved,
    given,      \* and how often it became so without a review
    reviewing   \* what each worker is doing

purchaseVars == <<order, charges, cost, adjusts, balance, approvals, given, reviewing>>
payments == <<charges, cost, adjusts, balance>>

AtRest == [at |-> "idle"]
Reviews == {AtRest} \cup [at: {"review"}, id: Orders, seen: OrderRows, to: OrderStatuses]

PurchasesTypeOK ==
    /\ order \in [Orders -> OrderRows \cup {NoOrder}]
    /\ charges \in [Orders -> Nat] /\ cost \in [Orders -> Int]
    /\ adjusts \in Seq(Adjustments)
    /\ balance \in Int
    /\ approvals \in [Orders -> Nat] /\ given \in [Orders -> Nat]
    /\ reviewing \in [Reviewers -> Reviews]

-----------------------------------------------------------------------------
\* The row is written with this status and total, and nothing is charged.
Put(id, status, total) ==
    /\ order' = [order EXCEPT ![id] = [status |-> status, total |-> total]]
    /\ IF status = "approved" /\ order[id].status # "approved"
       THEN given[id] < MaxGiven /\ given' = [given EXCEPT ![id] = @ + 1]
       ELSE UNCHANGED given
    /\ UNCHANGED <<payments, approvals, reviewing>>

\* op_save_purchase_request, which inserts the status it is sent
Save(id, status, total) == order[id] = NoOrder /\ Put(id, status, total)

\* op_upsert_sql, open to staff: the columns it is sent, in one UPDATE
EditOrder(id, status, total) == order[id] # NoOrder /\ Put(id, status, total)

\* op_review_purchase_request, up to the UPDATE: resolve_row takes no lock
ReadOrder(w, id, to) ==
    /\ reviewing[w].at = "idle"
    /\ order[id] # NoOrder
    /\ charges[id] < MaxCharges /\ approvals[id] < MaxCharges
    /\ reviewing' = [reviewing EXCEPT ![w] = [at |-> "review", id |-> id, seen |-> order[id], to |-> to]]
    /\ UNCHANGED <<order, payments, approvals, given>>

\* The fault of charging only a request that was pending
OnlyWhenPending(c) == c.to = "approved" /\ c.seen.status = "pending"
\* Whether this review charges
ChargesNow(c) == c.to = "approved" /\ c.seen.status # "approved"

\* The fault of a charge whose ledger row and balance disagree
ChargeAdded(total) == balance + total
\* users.mileage_balance after a charge: a relative UPDATE
Charged(total) == balance - total

\* UPDATE, the charge, and COMMIT; the row stays locked in between, and the
\* users row is updated in place.
DecideOrder(w) ==
    LET c == reviewing[w] IN
    /\ c.at = "review"
    /\ order' = [order EXCEPT ![c.id] = [status |-> c.to, total |-> @.total]]
    /\ IF ChargesNow(c)
       THEN /\ charges' = [charges EXCEPT ![c.id] = @ + 1]
            /\ cost' = [cost EXCEPT ![c.id] = @ + c.seen.total]
            /\ balance' = Charged(c.seen.total)
       ELSE UNCHANGED <<charges, cost, balance>>
    /\ approvals' = [approvals EXCEPT ![c.id] =
                       IF c.to = "approved" /\ order[c.id].status # "approved" THEN @ + 1 ELSE @]
    /\ reviewing' = [reviewing EXCEPT ![w] = AtRest]
    /\ UNCHANGED <<adjusts, given>>

\* Rolled back: a lost connection or a worker that dies
RollBack(w) ==
    /\ reviewing[w].at # "idle"
    /\ reviewing' = [reviewing EXCEPT ![w] = AtRest]
    /\ UNCHANGED <<order, payments, approvals, given>>

\* mileage_adjust: the users row is locked, then the row and the balance
\* are written in one transaction
Adjust(amount) ==
    /\ Len(adjusts) < MaxAdjusts
    /\ adjusts' = Append(adjusts, amount)
    /\ balance' = balance + amount
    /\ UNCHANGED <<order, charges, cost, approvals, given, reviewing>>

PurchasesInit ==
    /\ order = [id \in Orders |-> NoOrder]
    /\ charges = [id \in Orders |-> 0] /\ cost = [id \in Orders |-> 0]
    /\ adjusts = <<>>
    /\ balance = 0
    /\ approvals = [id \in Orders |-> 0] /\ given = [id \in Orders |-> 0]
    /\ reviewing = [w \in Reviewers |-> AtRest]

PurchasesNext ==
    \/ \E id \in Orders, status \in OrderStatuses, total \in Totals :
          Save(id, status, total) \/ EditOrder(id, status, total)
    \/ \E w \in Reviewers :
          \/ \E id \in Orders, to \in OrderStatuses : ReadOrder(w, id, to)
          \/ DecideOrder(w)
          \/ RollBack(w)
    \/ \E amount \in Adjustments : Adjust(amount)

PurchasesSpec == PurchasesInit /\ [][PurchasesNext]_purchaseVars

-----------------------------------------------------------------------------
(* Properties *)

\* What a review at work relies on: requests are never deleted, and one read as
\* approved, which it will not charge, has been paid for or approved without one.
ReviewsRely ==
    \A w \in Reviewers :
        reviewing[w].at = "review" =>
            /\ order[reviewing[w].id] \in OrderRows
            /\ reviewing[w].seen.status = "approved" =>
                  charges[reviewing[w].id] >= 1 \/ given[reviewing[w].id] >= 1

\* However reviews overtake each other and the edits of staff, an approved
\* request has been charged, unless it was once saved or edited to be approved:
\* a review that charges nothing because it read "approved" may write that
\* status over another's rejection, but the request had been paid by then.
NeverFree ==
    \A id \in Orders : order[id].status = "approved" => charges[id] >= 1 \/ given[id] >= 1

\* The balance students see is what the ledger adds up to, over the rows of
\* both services that write it, although a review charges the total it has
\* read, which staff may have changed since.
BalanceIsLedger == balance = SumFunction(adjusts) - SumFunction(cost)

\* The inductive strengthening of NeverFree and BalanceIsLedger
PurchasesInv == PurchasesTypeOK /\ NeverFree /\ ReviewsRely /\ BalanceIsLedger

\* "Approving charges the mileage and leaves a record": at most one purchase
\* row each time a request becomes approved, also when two reviewers approve it
\* at once.
ChargedOncePerApproval == \A id \in Orders : charges[id] <= approvals[id] + given[id]
=============================================================================
