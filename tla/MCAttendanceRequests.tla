------------------------ MODULE MCAttendanceRequests ------------------------
(* Two requests of one student for days staff have set by hand. *)
EXTENDS AttendanceRequests, TLC

MCForms == {[type |-> "late", leave |-> FALSE], [type |-> "absent", leave |-> TRUE]}

\* The register was set by hand before, and nobody touches it meanwhile.
QuietInit ==
    /\ request = [id \in Requests |-> NoRequest]
    /\ \E status \in HandStatuses :
         register = [d \in Days |-> [status |-> status, source |-> "manual"]]
    /\ desk = [w \in Desks |-> AtHome]
    /\ begun = 0
    /\ before = register
    /\ crossed = {}

QuietSpec == QuietInit /\ [][\E w \in Desks : DeskNext(w)]_attendanceVars

MCSymmetry == Permutations(Desks) \cup Permutations(Requests) \cup Permutations(Days)
=============================================================================
