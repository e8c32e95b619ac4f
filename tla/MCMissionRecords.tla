-------------------------- MODULE MCMissionRecords --------------------------
(* One student's records of several missions.  Two blog records of 60000   *)
(* pass the cap of 100000; two passed quizzes reach one tier and pay it    *)
(* once, and so do three study certificates; a PCCE and a PCCP certificate *)
(* cross both coding amounts.                                              *)
EXTENDS MissionRecords, TLC

CONSTANTS r1, r2, r3, r4

Submits(kinds, amounts) == [kind |-> kinds, amounts |-> amounts, edited |-> FALSE]
Blogs(recs) == [x \in recs |-> "blog"]

MCBlogger ==
    Submits(Blogs({r1, r2}) @@ [x \in {r3, r4} |-> "precourseQuiz"], {0, 60000})
MCCertified ==
    Submits([x \in {r1, r2} |-> "certification"] @@ [x \in {r3, r4} |-> "study"], {0, 30000})
MCStudier == Submits([x \in {r1, r2, r3} |-> "studyCert"], {0})
MCEdited == [kind |-> Blogs({r1}), amounts |-> {0}, edited |-> TRUE]

MCStudents == {MCBlogger, MCCertified, MCStudier, MCEdited}
MCEditedOnly == {MCEdited}
MCWorkers == Permutations(Workers)
=============================================================================
