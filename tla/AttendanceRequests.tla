------------------------- MODULE AttendanceRequests -------------------------
(***************************************************************************)
(* Requests about a student's attendance and the register they change:     *)
(* lms_api/lms/attendance_requests.py.                                     *)
(*                                                                         *)
(* One student.  Staff approve a request and the day's register takes the  *)
(* heaviest of the approved requests; when the last approval goes, the     *)
(* register is to be what it was before.  What it was is noted in the      *)
(* request whose approval first overwrote it.  Each desk runs one          *)
(* transaction at a time under READ COMMITTED: it reads the request,       *)
(* updates or deletes it (and holds its row from there on), reads what is  *)
(* approved, and writes the register with its commit.                      *)
(*                                                                         *)
(* Times, reasons, evidence, who reviewed and the roles are left out, and  *)
(* so is applyStatus, which no page sends; several requests reviewed in    *)
(* one command are several reviews here.                                   *)
(***************************************************************************)
EXTENDS Naturals

CONSTANTS
    Desks,          \* requests of staff and student being served at once
    Requests,       \* rows of attendance_issue_reports
    Days,
    Forms,          \* issue types asked for, with or without official leave
    HandStatuses,   \* what staff set in the register by hand
    MaxTransactions \* bound on the transactions begun

IssueTypes == {"late", "earlyLeave", "outing", "absent"}

ASSUME AttendanceAssumption ==
    Forms \subseteq [type: IssueTypes, leave: BOOLEAN] /\ MaxTransactions \in Nat

\* STATUS_WEIGHT
Weight == [officialLeave |-> 5, absent |-> 4, earlyLeave |-> 3, late |-> 2, outing |-> 1]

Sources == {"blank", "manual", "form"}
\* No row of attendances, or one without a status
Blank == [status |-> "blank", source |-> "blank"]
\* details without previousAttendance
Unset == [status |-> "unset", source |-> "unset"]
NoRequest == [status |-> "none", day |-> "none", type |-> "none", leave |-> FALSE,
              prev |-> Unset, updated |-> 0]
AtHome == [at |-> "home"]

VARIABLES
    request,    \* attendance_issue_reports
    register,   \* attendances, by day: status and data_source
    desk,       \* the transaction each desk is in
    begun,      \* transactions begun; now() is their order
    before,     \* history: the register of each day when a request last took it
    crossed     \* history: days of transactions that crossed one another

attendanceVars == <<request, register, desk, begun, before, crossed>>

Entries == [status: DOMAIN Weight \cup HandStatuses \cup {"blank", "unset"},
            source: Sources \cup {"unset"}]
Decisions == {"submitted", "approved", "rejected"}
Registered == {e \in Entries : e.source # "unset"}
Snapshots == {Unset} \cup {e \in Registered : e.source # "form"}
Stamps == 1..MaxTransactions
ReportRows == [status: Decisions, day: Days, type: IssueTypes, leave: BOOLEAN, prev: Snapshots,
               updated: Stamps]
Submitting == [at: {"submit"}, id: Requests, row: ReportRows \cup {NoRequest}, day: Days, form: Forms,
               stamp: Stamps]
Reading == [at: {"read"}, id: Requests, row: ReportRows, decision: Decisions \cup {"none"},
            prev: Snapshots, stamp: Stamps]
Marking == [at: {"marked"}, id: Requests, row: ReportRows, decision: Decisions \cup {"none"},
            prev: Snapshots, mark: ReportRows \cup {NoRequest}]
Weighing == [at: {"weighed"}, id: Requests, mark: ReportRows \cup {NoRequest}, day: Days,
             entries: SUBSET Registered]
\* Types of the requests, the register and the transactions.
AttendanceTypeOK ==
    /\ request \in [Requests -> ReportRows \cup {NoRequest}]
    /\ register \in [Days -> Registered] /\ before \in [Days -> Registered]
    /\ begun \in 0..MaxTransactions /\ crossed \subseteq Days
    /\ desk \in [Desks -> {AtHome} \cup Submitting \cup Reading \cup Marking \cup Weighing]

-----------------------------------------------------------------------------
\* A row updated or deleted by an open transaction
Held(id) == \E w \in Desks : desk[w].at \in {"marked", "weighed"} /\ desk[w].id = id

DaysOf(rows) == {row.day : row \in rows \ {NoRequest}}

\* The days a transaction is about
Touched(t) ==
    CASE t.at = "submit" -> {t.day} \cup DaysOf({t.row})
      [] t.at = "read" -> DaysOf({t.row})
      [] t.at = "marked" -> DaysOf({t.row, t.mark})
      [] t.at = "weighed" -> {t.day} \cup DaysOf({t.mark})

\* The days of a transaction begun while another about its request is open
Crossing(w, t) ==
    UNION {Touched(t) \cup Touched(desk[v]) :
             v \in {v \in Desks \ {w} : desk[v] # AtHome /\ desk[v].id = t.id}}

Begin(w, transaction) ==
    /\ desk[w] = AtHome
    /\ begun < MaxTransactions
    /\ begun' = begun + 1
    /\ desk' = [desk EXCEPT ![w] = transaction]
    /\ crossed' = crossed \cup Crossing(w, transaction)
    /\ UNCHANGED <<request, register, before>>

LeaveDesk(w) == desk' = [desk EXCEPT ![w] = AtHome]

-----------------------------------------------------------------------------
(* The student: op_submit_attendance_request *)

\* The fault of an edit that does not ask whether the request was approved
ReadAnyForSubmit(w, id, day, form) ==
    /\ \A other \in Requests \ {id} : request[other].day = day => request[other].type # form.type
    /\ Begin(w, [at |-> "submit", id |-> id, row |-> request[id], day |-> day,
                 form |-> form, stamp |-> begun + 1])

ReadForSubmit(w, id, day, form) ==
    /\ request[id].status # "approved"
    /\ \A other \in Requests \ {id} : request[other].day = day => request[other].type # form.type
    /\ Begin(w, [at |-> "submit", id |-> id, row |-> request[id], day |-> day,
                 form |-> form, stamp |-> begun + 1])

\* Inserts, or overwrites whatever has become of the row that was read
WriteSubmitted(w) ==
    LET t == desk[w] IN
    /\ t.at = "submit" /\ ~Held(t.id)
    /\ \/ (t.row = NoRequest) = (request[t.id] = NoRequest)
          /\ request' = [request EXCEPT ![t.id] =
                [status |-> "submitted", day |-> t.day, type |-> t.form.type,
                 leave |-> t.form.leave, prev |-> t.row.prev, updated |-> t.stamp]]
       \/ t.row # NoRequest /\ request[t.id] = NoRequest /\ UNCHANGED request
    /\ LeaveDesk(w)
    /\ UNCHANGED <<register, begun, before, crossed>>

-----------------------------------------------------------------------------
(* Reviews and cancellations *)

\* What the register will have to be put back to: _snapshot_before_approval
Noted(row, decision) ==
    IF decision = "approved" /\ row.status # "approved" /\ register[row.day].source # "form"
    THEN register[row.day]
    ELSE row.prev

\* op_review_attendance_request, and op_cancel_attendance_request (`none')
ReadForReview(w, id, decision) ==
    /\ request[id] # NoRequest
    /\ Begin(w, [at |-> "read", id |-> id, row |-> request[id], decision |-> decision,
                 prev |-> Noted(request[id], decision), stamp |-> begun + 1])

\* The UPDATE writes the details that were read; the DELETE leaves no row.
Mark(w) ==
    LET t == desk[w] IN
    /\ t.at = "read" /\ ~Held(t.id)
    /\ desk' = [desk EXCEPT ![w] =
         [at |-> "marked", id |-> t.id, row |-> t.row, decision |-> t.decision, prev |-> t.prev,
          mark |-> IF t.decision = "none" \/ request[t.id] = NoRequest
                   THEN NoRequest
                   ELSE [request[t.id] EXCEPT !.status = t.decision, !.leave = t.row.leave,
                                              !.prev = t.prev, !.updated = t.stamp]]]
    /\ UNCHANGED <<request, register, begun, before, crossed>>

\* The table as the transaction sees it, its own change included
Seen(w) == [request EXCEPT ![desk[w].id] = desk[w].mark]
ApprovedOn(rows, day) == {id \in Requests : rows[id].status = "approved" /\ rows[id].day = day}
\* resulting_status
Resulting(row) == IF row.leave THEN "officialLeave" ELSE row.type
HeaviestOf(statuses) ==
    CHOOSE status \in statuses : \A other \in statuses : Weight[other] <= Weight[status]
Heaviest(rows, ids) == HeaviestOf({Resulting(rows[id]) : id \in ids})

\* _find_snapshot: what the latest changed request of the day has noted
Snapshot(rows, day, fallback) ==
    LET holders == {id \in Requests : rows[id].day = day /\ rows[id].prev # Unset}
    IN  IF holders = {}
        THEN fallback
        ELSE rows[CHOOSE id \in holders : \A other \in holders :
                    rows[other].updated <= rows[id].updated].prev

\* An approval comes or goes
Concerns(t) == t.decision = "approved" \/ t.row.status = "approved"

\* _apply_to_attendance and, when nothing is approved, _release_attendance:
\* the entries to write, one or none
Verdict(w) ==
    LET t == desk[w]
        day == t.row.day
        approved == ApprovedOn(Seen(w), day)
        snapshot == Snapshot(Seen(w), day, t.prev)
    IN  IF ~Concerns(t) THEN {}
        ELSE IF approved # {}
        THEN {[status |-> Heaviest(Seen(w), approved), source |-> "form"]}
        ELSE IF t.decision = "approved" \/ register[day].source # "form" THEN {}
        ELSE {IF snapshot = Unset THEN Blank ELSE snapshot}

Weigh(w) ==
    LET t == desk[w] IN
    /\ t.at = "marked"
    /\ desk' = [desk EXCEPT ![w] = [at |-> "weighed", id |-> t.id, mark |-> t.mark,
                                    day |-> t.row.day, entries |-> Verdict(w)]]
    /\ crossed' = crossed \cup
         {day \in Days : \E v \in Desks \ {w} :
            desk[v].at = "weighed" /\ desk[v].day = day /\ t.row.day = day}
    /\ UNCHANGED <<request, register, begun, before>>

Settle(w) ==
    LET t == desk[w] IN
    /\ t.at = "weighed"
    /\ request' = Seen(w)
    /\ \/ t.entries = {} /\ UNCHANGED <<register, before>>
       \/ \E e \in t.entries :
            /\ register' = [register EXCEPT ![t.day] = e]
            /\ before' = IF e.source = "form" /\ register[t.day].source # "form"
                         THEN [before EXCEPT ![t.day] = register[t.day]] ELSE before
    /\ LeaveDesk(w)
    /\ UNCHANGED <<begun, crossed>>

\* A transaction rolled back: dispatch
GiveUp(w) ==
    /\ desk[w] # AtHome
    /\ LeaveDesk(w)
    /\ UNCHANGED <<request, register, begun, before, crossed>>

\* Staff edit the register: setAttendanceStatus and op_upsert_sql's upsert
EditByHand(day, status) ==
    /\ register' = [register EXCEPT ![day] = [status |-> status, source |-> "manual"]]
    /\ register' # register
    /\ UNCHANGED <<request, desk, begun, before, crossed>>

-----------------------------------------------------------------------------
AttendanceInit ==
    /\ request = [id \in Requests |-> NoRequest]
    /\ register = [d \in Days |-> Blank]
    /\ desk = [w \in Desks |-> AtHome]
    /\ begun = 0
    /\ before = [d \in Days |-> Blank]
    /\ crossed = {}

DeskNext(w) ==
    \/ \E id \in Requests :
        \/ \E day \in Days, form \in Forms : ReadForSubmit(w, id, day, form)
        \/ \E decision \in {"approved", "rejected", "submitted", "none"} :
             ReadForReview(w, id, decision)
    \/ WriteSubmitted(w) \/ Mark(w) \/ Weigh(w) \/ Settle(w) \/ GiveUp(w)

AttendanceNext ==
    \/ \E w \in Desks : DeskNext(w)
    \/ \E day \in Days, status \in HandStatuses : EditByHand(day, status)

AttendanceSpec == AttendanceInit /\ [][AttendanceNext]_attendanceVars

-----------------------------------------------------------------------------
(* Properties *)

\* A day's register that says it comes from requests gives the heaviest of
\* those approved for the day now.
FollowsRequests(day) ==
    register[day].source = "form" =>
        /\ ApprovedOn(request, day) # {}
        /\ register[day].status = Heaviest(request, ApprovedOn(request, day))

\* So it is on every day: of several requests approved for one day the register
\* keeps the heaviest (the module's docstring), and an approved one cannot be
\* edited (op_submit_attendance_request).  Nothing in the code keeps two desks
\* apart, so that this is more than it promises.
FormIsHeaviest == \A day \in Days : FollowsRequests(day)

\* So it is, at any number of desks, on every day of which no two transactions
\* about one request were open at once and no two weighed before the first was
\* settled: edits, reviews taken back, deletions and edits by hand included.
UncrossedIsHeaviest == \A day \in Days \ crossed : FollowsRequests(day)

\* When a day's last approval goes, its register goes back to what it was when
\* a request first took it ("puts it back to the state before the request",
\* _release_attendance).
ReleaseRestores ==
    [][\A day \in Days :
         (register[day].source = "form" /\ register'[day].source # "form" /\ desk' # desk)
             => register'[day] = before[day]]_attendanceVars

-----------------------------------------------------------------------------
(* The inductive strengthening *)

\* What a transaction has read of its request is still so, and what it will
\* write to the register is what the requests then call for.
Follows(w) ==
    LET t == desk[w] IN
    /\ t.at \in {"submit", "read", "marked"} => request[t.id] = t.row
    /\ t.at = "submit" => t.row.status # "approved"
    /\ t.at = "marked" =>
          \/ t.mark = NoRequest /\ t.decision = "none"
          \/ t.mark # NoRequest /\ t.mark.status = t.decision /\ t.mark.day = t.row.day
    /\ t.at = "weighed" =>
          /\ request[t.id].day = t.day
          /\ t.mark = NoRequest \/ t.mark.day = t.day
          /\ t.entries = {} =>
                \/ request[t.id].status # "approved" /\ t.mark.status # "approved"
                \/ register[t.day].source # "form"
          /\ \A e \in t.entries : e.source = "form" =>
                /\ ApprovedOn(Seen(w), t.day) # {}
                /\ e.status = Heaviest(Seen(w), ApprovedOn(Seen(w), t.day))

\* A transaction that crossed another may have read what is no longer so, but
\* the days it is about are counted as crossed.
Strays(w) ==
    /\ desk[w] # AtHome
    /\ Touched(desk[w]) \cup DaysOf({request[desk[w].id]}) \subseteq crossed

CrossingsCounted ==
    \A v, w \in Desks :
        v # w /\ desk[v] # AtHome /\ desk[w] # AtHome =>
            /\ desk[v].id = desk[w].id => Strays(v) /\ Strays(w)
            /\ desk[v].at = "weighed" /\ desk[w].at = "weighed" /\ desk[v].day = desk[w].day =>
                  desk[v].day \in crossed

AttendanceInv ==
    /\ AttendanceTypeOK
    /\ \A w \in Desks : Follows(w) \/ Strays(w)
    /\ CrossingsCounted
    /\ UncrossedIsHeaviest
=============================================================================
