----------------------------- MODULE MCBackend -----------------------------
(***************************************************************************)
(* Seven systems of the backend: reviewing a student's records, purchase   *)
(* requests and requests about attendance, publishing scheduled notices,   *)
(* deleting a cohort, the index of job postings, and one user's sessions,  *)
(* these once with requests no client of ours would send and once with     *)
(* those of a browser's tabs and their answers.  They share no state that  *)
(* their properties are about, so one run explores all of them, each with  *)
(* the others at rest.                                                     *)
(***************************************************************************)
EXTENDS MCMissionRecords, Purchases, CohortDeletion, AttendanceRequests, ScheduledNotices,
        JobIndex, AuthTabs

CONSTANTS MaxTabsSids, MaxTabsJti   \* bounds on the tabs' sessions and tokens

VARIABLE system

backendVars == <<system, vars, purchaseVars, cohortVars, attendanceVars, noticesVars,
                 indexVars, allVars>>

BackendInit ==
    /\ system \in {"records", "purchases", "attendance", "notices", "deletion", "index",
                   "sessions", "tabs"}
    /\ Init /\ PurchasesInit /\ AttendanceInit /\ NoticesInit /\ CohortInit /\ IndexInit /\ TabsInit
    /\ system # "records" => student = MCEdited

\* Every other system stays as it is.
OthersRest ==
    /\ system = "records" \/ (system # "records" /\ UNCHANGED vars)
    /\ system = "purchases" \/ (system # "purchases" /\ UNCHANGED purchaseVars)
    /\ system = "attendance" \/ (system # "attendance" /\ UNCHANGED attendanceVars)
    /\ system = "notices" \/ (system # "notices" /\ UNCHANGED noticesVars)
    /\ system = "deletion" \/ (system # "deletion" /\ UNCHANGED cohortVars)
    /\ system = "index" \/ (system # "index" /\ UNCHANGED indexVars)
    /\ system \in {"sessions", "tabs"} \/ (system \notin {"sessions", "tabs"} /\ UNCHANGED allVars)

\* Bounds: staff set by hand what a request has set before, and behaviours end
\* where the last day is crossed, of which UncrossedIsHeaviest has nothing to say.
AttendanceBound ==
    /\ \A day \in Days : register[day].source = "blank" => register'[day].source # "manual"
    /\ crossed' # Days

BackendNext ==
    /\ UNCHANGED system
    /\ OthersRest
    /\ \/ system = "records" /\ Next
       \/ system = "purchases" /\ PurchasesNext
       \/ system = "attendance" /\ AttendanceNext /\ AttendanceBound
       \/ system = "notices" /\ NoticesNext
       \/ system = "deletion" /\ CohortNext
       \/ system = "index" /\ IndexNext
       \/ system = "sessions" /\ SessionsNext /\ UNCHANGED tabVars
       \/ /\ system = "tabs"
          /\ TabsNext
          /\ jtis' <= MaxTabsJti
          /\ Cardinality({tok.sid : tok \in issued'}) <= MaxTabsSids

BackendSpec == BackendInit /\ [][BackendNext]_backendVars

MCAdjustments == {-100, 500}

\* One system moves at a time, so one group of permutations serves them all:
\* the actors of every system turn together, and so do their pairs of rows and
\* the tabs with the odd permutations of the uploads, which also permute the
\* sessions.
Turned(S) == [x \in S |-> CHOOSE y \in S : y # x]
Odd(p) == Cardinality({x \in DOMAIN p : p[x] = x}) = 1
\* Sids permuted as the uploads are
Upload == CHOOSE f \in [Sids -> Uploads] : \A i, j \in Sids : f[i] = f[j] => i = j
SidsAs(p) == [i \in Sids |-> CHOOSE j \in Sids : Upload[j] = p[Upload[i]]]
MCSymmetry ==
    {Turned(Workers) @@ Turned(Reviewers) @@ Turned(Admins) @@ Turned(Requests)
        @@ Turned(Desks) @@ Turned(Publishers) @@ Turned(Servers)}
    \cup {IF Odd(p) THEN p @@ SidsAs(p) @@ Turned(Days) @@ Turned(Tabs)
          ELSE p @@ SidsAs(p) : p \in Permutations(Uploads)}

MCForms == {[type |-> "late", leave |-> FALSE], [type |-> "absent", leave |-> TRUE]}

\* Types of all these systems' state.
BackendTypeOK ==
    /\ TypeOK /\ PurchasesTypeOK /\ CohortTypeOK /\ AttendanceTypeOK /\ NoticesTypeOK
    /\ IndexTypeOK /\ TabsTypeOK
=============================================================================
