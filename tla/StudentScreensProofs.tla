-------------------------- MODULE StudentScreensProofs --------------------------
(***************************************************************************)
(* No text is lost between the editor's draft, its writes and the server,  *)
(* and the review never writes beside the editor: for any number of edits, *)
(* saves and lost requests.  The run that has the editor, the notebook and *)
(* the background review side by side keeps what is proved of each.        *)
(***************************************************************************)
EXTENDS MCStudentScreens, NotebookProofs, ReviewJobsProofs

\* The latest write of a field has the student's text of it.
Carried(f) ==
    IF queued # Nothing /\ f \in DOMAIN queued.patch THEN typed[f] \subseteq queued.patch[f]
    ELSE IF flight # Nothing /\ f \in DOMAIN flight.patch
    THEN typed[f] \subseteq flight.patch[f] /\ (flight.applied => typed[f] \subseteq server[f])
    ELSE f \in failed \/ typed[f] \subseteq server[f]

NothingLost == \A f \in Fields : Carried(f)

\* What still counts as a save is of the whole résumé, and nothing came after it.
CleanIsLast ==
    /\ queued # Nothing => ~queued.applied /\ (queued.clean => DOMAIN queued.patch = Fields)
    /\ flight # Nothing /\ flight.clean => DOMAIN flight.patch = Fields /\ queued = Nothing
    /\ \A r \in Readers :
          reads[r].clean => queued = Nothing /\ (flight # Nothing => flight.clean)

ResumeInv == ResumeTypeOK /\ NothingLost /\ CleanIsLast /\ OneWriterAtATime

-----------------------------------------------------------------------------
(* Patches *)

\* A patch gives some of the fields their values.
LEMMA PatchIsFunction ==
    \A p : p \in Patches <=>
        DOMAIN p \in (SUBSET Fields) \ {{}} /\ p \in [DOMAIN p -> SUBSET Changes]
  <1>1. ASSUME NEW p \in Patches
        PROVE  DOMAIN p \in (SUBSET Fields) \ {{}} /\ p \in [DOMAIN p -> SUBSET Changes]
    <2>1. PICK F \in (SUBSET Fields) \ {{}} : p \in [F -> SUBSET Changes]
      BY DEF Patches
    <2> QED BY <2>1
  <1>2. ASSUME NEW p, DOMAIN p \in (SUBSET Fields) \ {{}}, p \in [DOMAIN p -> SUBSET Changes]
        PROVE  p \in Patches
    BY <1>2 DEF Patches
  <1> QED BY <1>1, <1>2

\* A résumé is a patch of every field.
LEMMA ResumeIsPatch == \A v \in Resumes : v \in Patches /\ DOMAIN v = Fields
  <1> TAKE v \in Resumes
  <1>1. Fields \in (SUBSET Fields) \ {{}} /\ DOMAIN v = Fields
    <2>1. "content" \in Fields
      BY DEF Fields
    <2>2. Fields # {}
      BY <2>1
    <2>3. DOMAIN v = Fields
      BY DEF Resumes
    <2>4. Fields \in SUBSET Fields
      OBVIOUS
    <2>5. Fields \notin {{}}
      BY <2>2
    <2> QED BY <2>3, <2>4, <2>5
  <1>2. v \in [DOMAIN v -> SUBSET Changes]
    BY <1>1 DEF Resumes
  <1> QED BY <1>1, <1>2, PatchIsFunction

\* A patch laid over another is a patch of the fields of both.
LEMMA OverPatch ==
    ASSUME NEW p \in Patches, NEW q \in Patches
    PROVE  /\ Over(p, q) \in Patches
           /\ DOMAIN Over(p, q) = DOMAIN p \cup DOMAIN q
           /\ \A f \in DOMAIN q : Over(p, q)[f] = q[f]
           /\ \A f \in DOMAIN p \ DOMAIN q : Over(p, q)[f] = p[f]
  <1>1. /\ DOMAIN Over(p, q) = DOMAIN p \cup DOMAIN q
        /\ \A f \in DOMAIN q : Over(p, q)[f] = q[f]
        /\ \A f \in DOMAIN p \ DOMAIN q : Over(p, q)[f] = p[f]
    BY DEF Over
  <1>2. /\ DOMAIN p \in (SUBSET Fields) \ {{}} /\ p \in [DOMAIN p -> SUBSET Changes]
        /\ DOMAIN q \in (SUBSET Fields) \ {{}} /\ q \in [DOMAIN q -> SUBSET Changes]
    BY PatchIsFunction
  <1>3. \A f \in DOMAIN p \cup DOMAIN q : Over(p, q)[f] \in SUBSET Changes
    <2> TAKE f \in DOMAIN p \cup DOMAIN q
    <2>1. CASE f \in DOMAIN q  BY <2>1, <1>1, <1>2
    <2>2. CASE f \notin DOMAIN q  BY <2>2, <1>1, <1>2
    <2> QED BY <2>1, <2>2
  <1>4. Over(p, q) \in [DOMAIN p \cup DOMAIN q -> SUBSET Changes]
    BY <1>1, <1>3 DEF Over
  <1>5. DOMAIN p \cup DOMAIN q \in (SUBSET Fields) \ {{}}
    BY <1>2
  <1> QED BY <1>1, <1>4, <1>5, PatchIsFunction

\* A patch laid over a résumé makes a résumé.
LEMMA OverResume ==
    ASSUME NEW v \in Resumes, NEW q \in Patches
    PROVE  /\ Over(v, q) \in Resumes
           /\ \A f \in DOMAIN q : f \in Fields /\ Over(v, q)[f] = q[f]
           /\ \A f \in Fields \ DOMAIN q : Over(v, q)[f] = v[f]
  <1>1. v \in Patches /\ DOMAIN v = Fields
    BY ResumeIsPatch
  <1>2. DOMAIN q \subseteq Fields
    BY PatchIsFunction
  <1>3. Over(v, q) \in Patches /\ DOMAIN Over(v, q) = Fields
    BY <1>1, <1>2, OverPatch
  <1>4. Over(v, q) \in [Fields -> SUBSET Changes]
    BY <1>3, PatchIsFunction
  <1> QED BY <1>1, <1>2, <1>4, OverPatch DEF Resumes

-----------------------------------------------------------------------------
(* Writes *)

\* Nothing is neither a write nor a draft.
LEMMA NothingIsNothing == Nothing \notin Writes /\ Nothing \notin Resumes
  <1>1. ASSUME Nothing \in Resumes  PROVE FALSE
    <2>1. DOMAIN Nothing = {}
      BY DEF Nothing
    <2>2. "content" \in DOMAIN Nothing
      BY <1>1 DEF Resumes, Fields
    <2> QED BY <2>1, <2>2
  <1>2. ASSUME Nothing \in Writes  PROVE FALSE
    <2>1. DOMAIN Nothing = {}
      BY DEF Nothing
    <2>2. "patch" \in DOMAIN Nothing
      BY <1>2 DEF Writes
    <2> QED BY <2>1, <2>2
  <1> QED BY <1>1, <1>2

\* What a new write makes of the one that was sent and the one that waits.
LEMMA WriteStep ==
    ASSUME ResumeTypeOK, CleanIsLast, NEW patch \in Patches, NEW save \in BOOLEAN,
           NEW still \in BOOLEAN, Write(patch, save, still)
    PROVE  /\ cache' \in Resumes /\ flight' \in Writes /\ queued' \in Writes \cup {Nothing}
           /\ flight = Nothing =>
                  flight' = [patch |-> patch, clean |-> save, applied |-> FALSE] /\ queued' = Nothing
           /\ flight # Nothing =>
                  /\ flight'.patch = flight.patch /\ flight'.applied = flight.applied
                  /\ flight'.clean = (flight.clean /\ still)
                  /\ queued' \in Writes /\ queued'.applied = FALSE
           /\ flight # Nothing /\ queued = Nothing => queued'.patch = patch /\ queued'.clean = save
           /\ flight # Nothing /\ queued # Nothing =>
                  /\ queued'.patch = Over(queued.patch, patch)
                  /\ queued'.clean = (save \/ (queued.clean /\ still))
  <1> DEFINE new == [patch |-> patch, clean |-> save, applied |-> FALSE]
  <1>1. new \in Writes
    BY DEF Writes
  <1>2. cache' \in Resumes
    BY OverResume DEF Write, ResumeTypeOK
  <1>3. CASE flight = Nothing
    <2>1. flight' = new /\ queued' = Nothing
      BY <1>3 DEF Write
    <2> QED BY <1>1, <1>2, <1>3, <2>1
  <1>4. CASE flight # Nothing
    <2>1. flight' = [flight EXCEPT !.clean = @ /\ still] /\ flight \in Writes
      BY <1>4 DEF Write, ResumeTypeOK
    <2>2. /\ flight' \in Writes /\ flight'.patch = flight.patch
          /\ flight'.applied = flight.applied /\ flight'.clean = (flight.clean /\ still)
      BY <2>1 DEF Writes
    <2>3. CASE queued = Nothing
      <3>1. queued' = new
        BY <1>4, <2>3 DEF Write
      <3> QED BY <1>1, <1>2, <1>4, <2>2, <2>3, <3>1
    <2>4. CASE queued # Nothing
      <3> DEFINE laid == Over(queued.patch, patch)
                 kept == save \/ (queued.clean /\ still)
      <3>1. queued' = [new EXCEPT !.patch = laid, !.clean = kept]
        BY <1>4, <2>4 DEF Write, Coalesced
      <3>2. queued.patch \in Patches
        BY <2>4 DEF ResumeTypeOK, Writes
      <3>3. laid \in Patches /\ kept \in BOOLEAN
        BY <3>2, OverPatch
      <3> HIDE DEF laid, kept
      <3>4. queued' = [patch |-> laid, clean |-> kept, applied |-> FALSE]
        BY <3>1
      <3>5. /\ queued' \in Writes /\ queued'.applied = FALSE
            /\ queued'.patch = laid /\ queued'.clean = kept
        BY <3>3, <3>4 DEF Writes
      <3> QED BY <1>2, <1>4, <2>2, <2>4, <3>5 DEF laid, kept
    <2> QED BY <2>3, <2>4
  <1> QED BY <1>3, <1>4

-----------------------------------------------------------------------------
(* The invariant *)

LEMMA ReadsAreReads ==
    /\ Blank \in Resumes /\ Idle \in Reads /\ Idle.clean = FALSE
    /\ \A b \in BOOLEAN : Asked(b) \in Reads /\ Asked(b).clean = b
  BY DEF Blank, Idle, Asked, Reads, Resumes

LEMMA OnScreenIsResume == ASSUME ResumeTypeOK  PROVE OnScreen \in Resumes
  BY DEF ResumeTypeOK, OnScreen

LEMMA InitResumeInv == ResumeInit => ResumeInv
  <1> SUFFICES ASSUME ResumeInit  PROVE ResumeInv
    OBVIOUS
  <1>1. ResumeTypeOK
    <2>1. {server, cache, typed} \subseteq Resumes
      BY ReadsAreReads DEF ResumeInit
    <2>2. reads \in [Readers -> Reads]
      BY ReadsAreReads DEF ResumeInit
    <2>3. edits \in 0..MaxWrites /\ mishaps \in 0..MaxMishaps
      BY ResumeAssumption DEF ResumeInit
    <2> QED BY <2>1, <2>2, <2>3 DEF ResumeInit, ResumeTypeOK
  <1>2. NothingLost
    BY DEF ResumeInit, NothingLost, Carried, Blank
  <1>3. CleanIsLast
    BY ReadsAreReads DEF ResumeInit, CleanIsLast
  <1>4. OneWriterAtATime
    BY DEF ResumeInit, OneWriterAtATime
  <1> QED BY <1>1, <1>2, <1>3, <1>4 DEF ResumeInv

\* Typing: the change is in what is sent last, and no save is whole any more.
LEMMA EditStep ==
    ASSUME ResumeInv, NEW f \in Fields, Edit(f)
    PROVE  ResumeInv'
  <1> DEFINE value == OnScreen[f] \cup {edits + 1}
             patch == [g \in {f} |-> value]
  <1>0. ResumeTypeOK /\ NothingLost /\ CleanIsLast /\ OneWriterAtATime
    BY DEF ResumeInv
  <1>1. value \in SUBSET Changes /\ edits + 1 \in 0..MaxWrites
    <2>1. edits \in Nat /\ edits < MaxWrites /\ MaxWrites \in Nat
      BY <1>0, ResumeAssumption DEF Edit, ResumeTypeOK
    <2>2. OnScreen[f] \in SUBSET Changes
      BY <1>0, OnScreenIsResume DEF Resumes
    <2> QED BY <2>1, <2>2 DEF Changes
  <1>2. patch \in Patches /\ DOMAIN patch = {f} /\ patch[f] = value
    <2>1. {f} \in (SUBSET Fields) \ {{}}
      OBVIOUS
    <2>2. patch \in [{f} -> SUBSET Changes]
      BY <1>1
    <2> QED BY <2>1, <2>2, PatchIsFunction
  <1>3. /\ review # "open" /\ edits' = edits + 1
        /\ draft' = Over(OnScreen, patch)
        /\ typed' = [typed EXCEPT ![f] = value]
        /\ Write(patch, FALSE, FALSE)
        /\ reads' = [r \in Readers |-> [reads[r] EXCEPT !.clean = @ /\ FALSE]]
        /\ UNCHANGED <<server, review, failed, missed, mishaps>>
    BY DEF Edit, Dirties
  <1> HIDE DEF value, patch
  <1>4. /\ cache' \in Resumes /\ flight' \in Writes /\ queued' \in Writes \cup {Nothing}
        /\ flight = Nothing =>
               flight' = [patch |-> patch, clean |-> FALSE, applied |-> FALSE] /\ queued' = Nothing
        /\ flight # Nothing =>
               /\ flight'.patch = flight.patch /\ flight'.applied = flight.applied
               /\ flight'.clean = FALSE
               /\ queued' \in Writes /\ queued'.applied = FALSE /\ queued'.clean = FALSE
        /\ flight # Nothing /\ queued = Nothing => queued'.patch = patch
        /\ flight # Nothing /\ queued # Nothing => queued'.patch = Over(queued.patch, patch)
    BY <1>0, <1>2, <1>3, WriteStep
  <1>5. \A r \in Readers : reads'[r] \in Reads /\ reads'[r].clean = FALSE
    BY <1>0, <1>3 DEF ResumeTypeOK, Reads
  <1>6. ResumeTypeOK'
    <2>1. draft' \in Resumes
      BY <1>0, <1>2, <1>3, OnScreenIsResume, OverResume
    <2>2. typed' \in Resumes
      BY <1>0, <1>1, <1>3 DEF ResumeTypeOK, Resumes
    <2>3. reads' \in [Readers -> Reads]
      BY <1>3, <1>5
    <2>4. {server', cache', typed'} \subseteq Resumes /\ draft' \in Resumes \cup {Nothing}
      BY <1>0, <1>3, <1>4, <2>1, <2>2 DEF ResumeTypeOK
    <2>5. edits' \in 0..MaxWrites /\ mishaps' \in 0..MaxMishaps
      BY <1>0, <1>1, <1>3 DEF ResumeTypeOK
    <2>6. flight' # Nothing
      BY <1>4, NothingIsNothing
    <2> QED BY <1>0, <1>3, <1>4, <2>3, <2>4, <2>5, <2>6 DEF ResumeTypeOK
  <1>7. NothingLost'
    <2> SUFFICES ASSUME NEW g \in Fields  PROVE Carried(g)'
      BY DEF NothingLost
    <2>0. Carried(g) /\ Nothing \notin Writes
      BY <1>0, NothingIsNothing DEF NothingLost
    <2>1. typed'[f] = value /\ (g # f => typed'[g] = typed[g])
      BY <1>0, <1>3 DEF ResumeTypeOK, Resumes
    <2>2. CASE flight = Nothing
      <3>1. /\ flight' # Nothing /\ flight'.patch = patch /\ flight'.applied = FALSE
            /\ queued' = Nothing /\ queued = Nothing
        BY <1>0, <1>4, <2>0, <2>2 DEF ResumeTypeOK
      <3>2. CASE g = f  BY <1>2, <2>1, <3>1, <3>2 DEF Carried
      <3>3. CASE g # f  BY <1>2, <1>3, <2>0, <2>1, <2>2, <3>1, <3>3 DEF Carried
      <3> QED BY <3>2, <3>3
    <2>3. CASE flight # Nothing /\ queued = Nothing
      <3>1. /\ flight' # Nothing /\ flight'.patch = flight.patch /\ flight'.applied = flight.applied
            /\ queued' # Nothing /\ queued'.patch = patch
        BY <1>4, <2>0, <2>3
      <3>2. CASE g = f  BY <1>2, <2>1, <3>1, <3>2 DEF Carried
      <3>3. CASE g # f  BY <1>2, <1>3, <2>0, <2>1, <2>3, <3>1, <3>3 DEF Carried
      <3> QED BY <3>2, <3>3
    <2>4. CASE flight # Nothing /\ queued # Nothing
      <3>1. /\ flight' # Nothing /\ flight'.patch = flight.patch /\ flight'.applied = flight.applied
            /\ queued' # Nothing /\ queued'.patch = Over(queued.patch, patch)
        BY <1>4, <2>0, <2>4
      <3>2. PICK p \in Patches : p = queued.patch
        BY <1>0, <2>4 DEF ResumeTypeOK, Writes
      <3>3. /\ DOMAIN queued'.patch = DOMAIN queued.patch \cup {f}
            /\ queued'.patch[f] = value
            /\ g \in DOMAIN queued.patch /\ g # f => queued'.patch[g] = queued.patch[g]
        <4>1. /\ DOMAIN Over(p, patch) = DOMAIN p \cup DOMAIN patch
              /\ \A h \in DOMAIN patch : Over(p, patch)[h] = patch[h]
              /\ \A h \in DOMAIN p \ DOMAIN patch : Over(p, patch)[h] = p[h]
          BY <1>2, OverPatch, Zenon
        <4>2. /\ DOMAIN Over(p, patch) = DOMAIN p \cup {f}
              /\ Over(p, patch)[f] = value
          BY <1>2, <4>1, Zenon
        <4>3. g \in DOMAIN p /\ g # f => Over(p, patch)[g] = p[g]
          BY <1>2, <4>1, Zenon
        <4> QED BY <3>1, <3>2, <4>2, <4>3
      <3>4. CASE g = f  BY <2>1, <3>1, <3>3, <3>4 DEF Carried
      <3>5. CASE g # f  BY <1>3, <2>0, <2>1, <2>4, <3>1, <3>3, <3>5 DEF Carried
      <3> QED BY <3>4, <3>5
    <2> QED BY <2>2, <2>3, <2>4
  <1>8. CleanIsLast'
    BY <1>0, <1>4, <1>5 DEF CleanIsLast
  <1>9. OneWriterAtATime'
    BY <1>3 DEF OneWriterAtATime
  <1> QED BY <1>6, <1>7, <1>8, <1>9 DEF ResumeInv

\* Saving: the whole of what the screen shows is sent last.
LEMMA SaveStep ==
    ASSUME ResumeInv, Save
    PROVE  ResumeInv'
  <1>0. ResumeTypeOK /\ NothingLost /\ CleanIsLast /\ OneWriterAtATime /\ Nothing \notin Writes
    BY NothingIsNothing DEF ResumeInv
  <1>1. PICK whole \in Resumes : whole = OnScreen
    BY <1>0, OnScreenIsResume
  <1>2. whole \in Patches /\ DOMAIN whole = Fields
    BY ResumeIsPatch
  <1>3. /\ review # "open" /\ ~Saving /\ edits < MaxWrites /\ edits' = edits + 1
        /\ Write(whole, TRUE, TRUE) /\ typed' = whole
        /\ UNCHANGED <<server, draft, reads, review, failed, missed, mishaps>>
    BY <1>1 DEF Save
  <1>4. /\ cache' \in Resumes /\ flight' \in Writes /\ queued' \in Writes \cup {Nothing}
        /\ flight = Nothing =>
               flight' = [patch |-> whole, clean |-> TRUE, applied |-> FALSE] /\ queued' = Nothing
        /\ flight # Nothing =>
               /\ flight'.patch = flight.patch /\ flight'.applied = flight.applied
               /\ flight'.clean = (flight.clean /\ TRUE)
               /\ queued' \in Writes /\ queued'.applied = FALSE
        /\ flight # Nothing /\ queued = Nothing => queued'.patch = whole
        /\ flight # Nothing /\ queued # Nothing => queued'.patch = Over(queued.patch, whole)
    BY <1>0, <1>2, <1>3, WriteStep
  <1>5. flight # Nothing =>
            DOMAIN queued'.patch = Fields /\ \A g \in Fields : queued'.patch[g] = whole[g]
    <2> SUFFICES ASSUME flight # Nothing
                 PROVE  DOMAIN queued'.patch = Fields /\ \A g \in Fields : queued'.patch[g] = whole[g]
      OBVIOUS
    <2>1. CASE queued = Nothing  BY <1>2, <1>4, <2>1
    <2>2. CASE queued # Nothing
      <3>1. PICK p \in Patches : p = queued.patch
        BY <1>0, <2>2 DEF ResumeTypeOK, Writes
      <3>2. /\ DOMAIN Over(p, whole) = DOMAIN p \cup Fields
            /\ \A g \in Fields : Over(p, whole)[g] = whole[g]
        BY <1>2, OverPatch
      <3>3. DOMAIN p \subseteq Fields
        BY PatchIsFunction
      <3> QED BY <1>4, <2>2, <3>1, <3>2, <3>3
    <2> QED BY <2>1, <2>2
  <1>6. flight # Nothing => flight.clean = FALSE /\ flight'.clean = FALSE
    BY <1>0, <1>3, <1>4 DEF Saving, ResumeTypeOK, Writes
  <1>7. ResumeTypeOK'
    <2>1. edits' \in 0..MaxWrites
      BY <1>0, <1>3, ResumeAssumption DEF ResumeTypeOK
    <2>2. {server', cache', typed'} \subseteq Resumes
      BY <1>0, <1>3, <1>4 DEF ResumeTypeOK
    <2> QED BY <1>0, <1>3, <1>4, <2>1, <2>2 DEF ResumeTypeOK
  <1>8. NothingLost'
    <2> SUFFICES ASSUME NEW g \in Fields  PROVE Carried(g)'
      BY DEF NothingLost
    <2>1. CASE flight = Nothing
      BY <1>0, <1>2, <1>3, <1>4, <2>1 DEF Carried
    <2>2. CASE flight # Nothing
      <3>1. queued' # Nothing /\ g \in DOMAIN queued'.patch /\ queued'.patch[g] = typed'[g]
        BY <1>0, <1>3, <1>4, <1>5, <2>2
      <3> QED BY <3>1 DEF Carried
    <2> QED BY <2>1, <2>2
  <1>9. CleanIsLast'
    <2>1. CASE flight = Nothing
      BY <1>0, <1>2, <1>3, <1>4, <2>1 DEF CleanIsLast
    <2>2. CASE flight # Nothing
      <3>1. \A r \in Readers : reads[r].clean => FALSE
        BY <1>0, <1>6, <2>2 DEF CleanIsLast
      <3> QED BY <1>3, <1>4, <1>5, <1>6, <2>2, <3>1 DEF CleanIsLast
    <2> QED BY <2>1, <2>2
  <1>10. OneWriterAtATime'
    BY <1>3 DEF OneWriterAtATime
  <1> QED BY <1>7, <1>8, <1>9, <1>10 DEF ResumeInv

\* The server takes over the patch that was sent.
LEMMA CarryStep ==
    ASSUME ResumeInv, Carry
    PROVE  ResumeInv'
  <1>0. ResumeTypeOK /\ NothingLost /\ CleanIsLast /\ OneWriterAtATime
    BY DEF ResumeInv
  <1>1. /\ flight \in Writes /\ flight # Nothing
        /\ flight' = [flight EXCEPT !.applied = TRUE] /\ server' = Over(server, flight.patch)
        /\ UNCHANGED <<cache, draft, queued, reads, review, edits, typed, failed, missed, mishaps>>
    BY <1>0 DEF Carry, Pending, ResumeTypeOK
  <1>2. /\ flight' \in Writes /\ flight' # Nothing /\ flight'.patch = flight.patch
        /\ flight'.clean = flight.clean
    BY <1>1, NothingIsNothing DEF Writes
  <1>3. PICK p \in Patches : p = flight.patch
    BY <1>1 DEF Writes
  <1>4. PICK s \in Resumes : s = server
    BY <1>0 DEF ResumeTypeOK
  <1>5. /\ server' \in Resumes
        /\ \A g \in DOMAIN flight.patch : server'[g] = flight.patch[g]
        /\ \A g \in Fields \ DOMAIN flight.patch : server'[g] = server[g]
    <2>1. /\ Over(s, p) \in Resumes
          /\ \A g \in DOMAIN p : Over(s, p)[g] = p[g]
          /\ \A g \in Fields \ DOMAIN p : Over(s, p)[g] = s[g]
      BY OverResume
    <2> QED BY <1>1, <1>3, <1>4, <2>1
  <1>6. ResumeTypeOK'
    BY <1>0, <1>1, <1>2, <1>5 DEF ResumeTypeOK
  <1>7. NothingLost'
    <2> SUFFICES ASSUME NEW g \in Fields  PROVE Carried(g)'
      BY DEF NothingLost
    <2>0. Carried(g)
      BY <1>0 DEF NothingLost
    <2>1. CASE g \in DOMAIN flight.patch  BY <1>1, <1>2, <1>5, <2>0, <2>1 DEF Carried
    <2>2. CASE g \notin DOMAIN flight.patch  BY <1>1, <1>2, <1>5, <2>0, <2>2 DEF Carried
    <2> QED BY <2>1, <2>2
  <1>8. CleanIsLast'
    BY <1>0, <1>1, <1>2 DEF CleanIsLast
  <1>9. OneWriterAtATime'
    BY <1>0, <1>1, <1>2 DEF OneWriterAtATime, Pending
  <1> QED BY <1>6, <1>7, <1>8, <1>9 DEF ResumeInv

\* The answer to a write: what waited is sent.
LEMMA WriteAnswerStep ==
    ASSUME ResumeInv, Answer
    PROVE  ResumeInv'
  <1>0. ResumeTypeOK /\ NothingLost /\ CleanIsLast /\ OneWriterAtATime
    BY DEF ResumeInv
  <1>1. /\ flight \in Writes /\ flight # Nothing /\ flight.applied
        /\ reads' = [reads EXCEPT !["refetch"] = Asked(FALSE)] /\ missed' = FALSE
        /\ draft' = (IF flight.clean THEN Nothing ELSE draft)
        /\ failed' = failed \ DOMAIN flight.patch
        /\ flight' = queued /\ queued' = Nothing
        /\ review' = (IF review = "waiting" /\ queued = Nothing THEN "open" ELSE review)
        /\ UNCHANGED <<server, cache, edits, typed, mishaps>>
    BY <1>0 DEF Answer, Pending, ResumeTypeOK, FreshRead, SendNext, Opened, WaitIsOver
  <1>2. /\ reads' \in [Readers -> Reads]
        /\ \A r \in Readers : reads'[r].clean => reads[r].clean
    BY <1>0, <1>1, ReadsAreReads DEF ResumeTypeOK
  <1>3. ResumeTypeOK'
    BY <1>0, <1>1, <1>2 DEF ResumeTypeOK
  <1>4. NothingLost'
    <2> SUFFICES ASSUME NEW g \in Fields  PROVE Carried(g)'
      BY DEF NothingLost
    <2>0. Carried(g)
      BY <1>0 DEF NothingLost
    <2>1. CASE queued # Nothing /\ g \in DOMAIN queued.patch
      BY <1>0, <1>1, <2>0, <2>1 DEF Carried, CleanIsLast
    <2>2. CASE ~(queued # Nothing /\ g \in DOMAIN queued.patch)
      BY <1>1, <2>0, <2>2 DEF Carried
    <2> QED BY <2>1, <2>2
  <1>5. CleanIsLast'
    BY <1>0, <1>1, <1>2 DEF CleanIsLast
  <1>6. OneWriterAtATime'
    BY <1>0, <1>1 DEF OneWriterAtATime, Pending
  <1> QED BY <1>3, <1>4, <1>5, <1>6 DEF ResumeInv

\* A write fails: what waited is sent all the same.
LEMMA WriteFailsStep ==
    ASSUME ResumeInv, WriteFails
    PROVE  ResumeInv'
  <1>0. ResumeTypeOK /\ NothingLost /\ CleanIsLast /\ OneWriterAtATime
    BY DEF ResumeInv
  <1>1. /\ flight \in Writes /\ flight # Nothing
        /\ mishaps < MaxMishaps /\ mishaps' = mishaps + 1 /\ missed' = TRUE
        /\ failed' = failed \cup DOMAIN flight.patch
        /\ flight' = queued /\ queued' = Nothing
        /\ review' = (IF review = "waiting" /\ queued = Nothing THEN "open" ELSE review)
        /\ UNCHANGED <<server, cache, draft, reads, edits, typed>>
    BY <1>0 DEF WriteFails, Mishap, Pending, ResumeTypeOK, SendNext, OpensAnyway, Opened, WaitIsOver
  <1>2. mishaps' \in 0..MaxMishaps /\ failed' \subseteq Fields
    BY <1>0, <1>1, ResumeAssumption, PatchIsFunction DEF ResumeTypeOK, Writes
  <1>3. ResumeTypeOK'
    BY <1>0, <1>1, <1>2 DEF ResumeTypeOK
  <1>4. NothingLost'
    <2> SUFFICES ASSUME NEW g \in Fields  PROVE Carried(g)'
      BY DEF NothingLost
    <2>0. Carried(g)
      BY <1>0 DEF NothingLost
    <2>1. CASE queued # Nothing /\ g \in DOMAIN queued.patch
      BY <1>0, <1>1, <2>0, <2>1 DEF Carried, CleanIsLast
    <2>2. CASE ~(queued # Nothing /\ g \in DOMAIN queued.patch)
      BY <1>1, <2>0, <2>2 DEF Carried
    <2> QED BY <2>1, <2>2
  <1>5. CleanIsLast'
    BY <1>0, <1>1 DEF CleanIsLast
  <1>6. OneWriterAtATime'
    BY <1>0, <1>1 DEF OneWriterAtATime, Pending
  <1> QED BY <1>3, <1>4, <1>5, <1>6 DEF ResumeInv

\* The steps that send nothing and carry nothing out leave a write as it is, or
\* make it less of a save.
LEMMA ReadAndReviewSteps ==
    ASSUME ResumeInv,
           \/ Reopen \/ OpenReview \/ ApplySuggestion \/ CloseReview
           \/ \E r \in Readers : Take(r) \/ Land(r) \/ ReadFails(r)
    PROVE  ResumeInv'
  <1>0. /\ ResumeTypeOK /\ NothingLost /\ CleanIsLast /\ OneWriterAtATime
        /\ Nothing \notin Writes
    BY NothingIsNothing DEF ResumeInv
  <1>1. CASE Reopen
    <2>1. /\ draft' = Nothing /\ mishaps < MaxMishaps /\ mishaps' = mishaps + 1
          /\ flight' = Forgotten(flight) /\ queued' = Forgotten(queued)
          /\ reads' = [r \in Readers |-> [reads[r] EXCEPT !.clean = FALSE]]
          /\ UNCHANGED <<server, cache, review, edits, typed, failed, missed>>
      BY <1>1 DEF Reopen, Mishap
    <2>2. /\ flight = Nothing => flight' = Nothing
          /\ flight # Nothing =>
                 /\ flight' \in Writes /\ flight'.clean = FALSE
                 /\ flight'.patch = flight.patch /\ flight'.applied = flight.applied
      BY <1>0, <2>1 DEF Forgotten, ResumeTypeOK, Writes
    <2>3. /\ queued = Nothing => queued' = Nothing
          /\ queued # Nothing =>
                 /\ queued' \in Writes /\ queued'.clean = FALSE
                 /\ queued'.patch = queued.patch /\ queued'.applied = queued.applied
      BY <1>0, <2>1 DEF Forgotten, ResumeTypeOK, Writes
    <2>4. \A r \in Readers : reads'[r] \in Reads /\ reads'[r].clean = FALSE
      BY <1>0, <2>1 DEF ResumeTypeOK, Reads
    <2>5. reads' \in [Readers -> Reads]
      BY <2>1, <2>4
    <2>6. mishaps' \in 0..MaxMishaps
      BY <1>0, <2>1, ResumeAssumption DEF ResumeTypeOK
    <2>7. ResumeTypeOK'
      BY <1>0, <2>1, <2>2, <2>3, <2>5, <2>6 DEF ResumeTypeOK
    <2>8. NothingLost'
      <3> SUFFICES ASSUME NEW g \in Fields  PROVE Carried(g)'
        BY DEF NothingLost
      <3>1. Carried(g)
        BY <1>0 DEF NothingLost
      <3> QED BY <1>0, <2>1, <2>2, <2>3, <3>1 DEF Carried
    <2>9. CleanIsLast'
      BY <1>0, <2>2, <2>3, <2>4 DEF CleanIsLast
    <2>10. OneWriterAtATime'
      BY <1>0, <2>1, <2>2 DEF OneWriterAtATime, Pending
    <2> QED BY <2>7, <2>8, <2>9, <2>10 DEF ResumeInv
  <1>2. CASE OpenReview
    <2>1. /\ review' = (IF Pending THEN "waiting" ELSE "open")
          /\ UNCHANGED <<server, cache, draft, flight, queued, reads, edits, typed, failed, missed, mishaps>>
      BY <1>2 DEF OpenReview
    <2>2. ResumeTypeOK' /\ CleanIsLast' /\ OneWriterAtATime'
      BY <1>0, <2>1 DEF ResumeTypeOK, CleanIsLast, OneWriterAtATime, Pending
    <2>3. NothingLost'
      BY <1>0, <2>1 DEF NothingLost, Carried
    <2> QED BY <2>2, <2>3 DEF ResumeInv
  <1>3. CASE ApplySuggestion
    <2>1. /\ review = "open" /\ server' = [server EXCEPT !["content"] = @ \cup {0}]
          /\ \/ reads' = [reads EXCEPT !["change"] = Asked(TRUE)] /\ UNCHANGED <<missed, mishaps>>
             \/ /\ mishaps < MaxMishaps /\ mishaps' = mishaps + 1 /\ missed' = TRUE
                /\ UNCHANGED reads
          /\ UNCHANGED <<cache, draft, flight, queued, review, edits, typed, failed>>
      BY <1>3 DEF ApplySuggestion, Mishap, Reviewed
    <2>2. flight = Nothing /\ queued = Nothing
      BY <1>0, <2>1 DEF OneWriterAtATime, Pending, ResumeTypeOK
    <2>3. reads' \in [Readers -> Reads]
      BY <1>0, <2>1, ReadsAreReads DEF ResumeTypeOK
    <2>4. server' \in Resumes /\ \A g \in Fields : server[g] \subseteq server'[g]
      <3>1. server["content"] \cup {0} \in SUBSET Changes
        BY <1>0, ResumeAssumption DEF ResumeTypeOK, Resumes, Fields, Changes
      <3> QED BY <1>0, <2>1, <3>1 DEF ResumeTypeOK, Resumes
    <2>5. mishaps' \in 0..MaxMishaps /\ missed' \in BOOLEAN
      <3>1. mishaps \in Nat /\ mishaps \in 0..MaxMishaps /\ missed \in BOOLEAN /\ MaxMishaps \in Nat
        BY <1>0, ResumeAssumption DEF ResumeTypeOK
      <3>2. CASE UNCHANGED <<missed, mishaps>>
        BY <3>1, <3>2
      <3>3. CASE mishaps < MaxMishaps /\ mishaps' = mishaps + 1 /\ missed' = TRUE
        BY <3>1, <3>3
      <3> QED BY <2>1, <3>2, <3>3
    <2>6. ResumeTypeOK'
      BY <1>0, <2>1, <2>3, <2>4, <2>5 DEF ResumeTypeOK
    <2>7. NothingLost'
      <3> SUFFICES ASSUME NEW g \in Fields  PROVE Carried(g)'
        BY DEF NothingLost
      <3>1. Carried(g)
        BY <1>0 DEF NothingLost
      <3> QED BY <2>1, <2>2, <2>4, <3>1 DEF Carried
    <2>8. CleanIsLast' /\ OneWriterAtATime'
      BY <1>0, <2>1, <2>2 DEF CleanIsLast, OneWriterAtATime, Pending
    <2> QED BY <2>6, <2>7, <2>8 DEF ResumeInv
  <1>4. CASE CloseReview
    <2>1. /\ review' = "done" /\ reads' = [reads EXCEPT !["close"] = Asked(FALSE)]
          /\ UNCHANGED <<server, cache, draft, flight, queued, edits, typed, failed, missed, mishaps>>
      BY <1>4 DEF CloseReview
    <2>2. reads' \in [Readers -> Reads] /\ \A r \in Readers : reads'[r].clean => reads[r].clean
      BY <1>0, <2>1, ReadsAreReads DEF ResumeTypeOK
    <2>3. ResumeTypeOK' /\ CleanIsLast' /\ OneWriterAtATime'
      BY <1>0, <2>1, <2>2 DEF ResumeTypeOK, CleanIsLast, OneWriterAtATime, Pending
    <2>4. NothingLost'
      BY <1>0, <2>1 DEF NothingLost, Carried
    <2> QED BY <2>3, <2>4 DEF ResumeInv
  <1>5. ASSUME NEW r \in Readers, Take(r)
        PROVE  ResumeInv'
    <2> DEFINE taken == [reads[r] EXCEPT !.at = "read", !.snap = server]
    <2>1. /\ reads' = [reads EXCEPT ![r] = taken]
          /\ UNCHANGED <<server, cache, draft, flight, queued, review, edits, typed, failed, missed, mishaps>>
      BY <1>5 DEF Take
    <2>2. taken \in Reads /\ taken.clean = reads[r].clean
      BY <1>0 DEF ResumeTypeOK, Reads
    <2> HIDE DEF taken
    <2>3. reads' \in [Readers -> Reads] /\ \A q \in Readers : reads'[q].clean => reads[q].clean
      BY <1>0, <2>1, <2>2 DEF ResumeTypeOK
    <2>4. ResumeTypeOK' /\ CleanIsLast' /\ OneWriterAtATime'
      BY <1>0, <2>1, <2>3 DEF ResumeTypeOK, CleanIsLast, OneWriterAtATime, Pending
    <2>5. NothingLost'
      BY <1>0, <2>1 DEF NothingLost, Carried
    <2> QED BY <2>4, <2>5 DEF ResumeInv
  <1>6. ASSUME NEW r \in Readers, Land(r) \/ ReadFails(r)
        PROVE  ResumeInv'
    <2>1. /\ reads' = [reads EXCEPT ![r] = Idle]
          /\ draft' = (IF reads[r].clean THEN Nothing ELSE draft)
          /\ UNCHANGED <<server, flight, queued, review, edits, typed, failed>>
      BY <1>6 DEF Land, ReadFails, EndRead
    <2>2. cache' \in Resumes /\ missed' \in BOOLEAN /\ mishaps' \in 0..MaxMishaps
      <3>1. CASE Land(r)
        <4>1. reads[r].snap \in Resumes
          BY <1>0 DEF ResumeTypeOK, Reads
        <4>2. missed' = (missed \/ Overtaken(r))
          BY <3>1 DEF Land
        <4>3. missed' \in BOOLEAN
          BY <4>2
        <4> QED BY <1>0, <3>1, <4>1, <4>3 DEF Land, ResumeTypeOK
      <3>2. CASE ReadFails(r)
        BY <1>0, <3>2, ResumeAssumption DEF ReadFails, Mishap, ResumeTypeOK
      <3> QED BY <1>6, <3>1, <3>2
    <2>3. reads' \in [Readers -> Reads] /\ \A q \in Readers : reads'[q].clean => reads[q].clean
      BY <1>0, <2>1, ReadsAreReads DEF ResumeTypeOK
    <2>4. ResumeTypeOK' /\ CleanIsLast' /\ OneWriterAtATime'
      BY <1>0, <2>1, <2>2, <2>3 DEF ResumeTypeOK, CleanIsLast, OneWriterAtATime, Pending
    <2>5. NothingLost'
      BY <1>0, <2>1 DEF NothingLost, Carried
    <2> QED BY <2>4, <2>5 DEF ResumeInv
  <1> QED BY <1>1, <1>2, <1>3, <1>4, <1>5, <1>6

LEMMA NextResumeInv == ResumeInv /\ [ResumeNext]_resumeVars => ResumeInv'
  <1> SUFFICES ASSUME ResumeInv, [ResumeNext]_resumeVars  PROVE ResumeInv'
    OBVIOUS
  <1>1. CASE Carry \/ Answer \/ WriteFails
    BY <1>1, CarryStep, WriteAnswerStep, WriteFailsStep
  <1>2. ASSUME NEW f \in Fields, Edit(f)  PROVE ResumeInv'
    BY <1>2, EditStep
  <1>3. CASE Save
    BY <1>3, SaveStep
  <1>4. CASE \/ Reopen \/ OpenReview \/ ApplySuggestion \/ CloseReview
             \/ \E r \in Readers : Take(r) \/ Land(r) \/ ReadFails(r)
    BY <1>4, ReadAndReviewSteps
  <1>5. CASE UNCHANGED resumeVars
    BY <1>5 DEF resumeVars, ResumeInv, ResumeTypeOK, NothingLost, Carried, CleanIsLast,
                OneWriterAtATime, Pending
  <1> QED BY <1>1, <1>2, <1>3, <1>4, <1>5 DEF ResumeNext, Network

-----------------------------------------------------------------------------
(* Theorems *)

\* The types, and what the theorems below rest on.
THEOREM ResumeInvariance == ResumeSpec => []ResumeInv
  BY InitResumeInv, NextResumeInv, PTL DEF ResumeSpec

\* With no write pending, the server has the last text of every field whose
\* last write did not fail.
THEOREM NothingIsEverUnsent == ResumeSpec => []NothingUnsent
  <1>1. ResumeInv => NothingUnsent
    BY DEF ResumeInv, ResumeTypeOK, NothingLost, Carried, NothingUnsent, Pending
  <1> QED BY <1>1, ResumeInvariance, PTL

\* The review never writes while the editor's writes are on their way.
THEOREM AlwaysOneWriter == ResumeSpec => []OneWriterAtATime
  <1>1. ResumeInv => OneWriterAtATime
    BY DEF ResumeInv
  <1> QED BY <1>1, ResumeInvariance, PTL

\* A draft is put down only when its text is on the server, or on its way with
\* a save.
THEOREM DraftsArePutDownSafely == ResumeSpec => PutDownIsOnServer
  <1> DEFINE Safe == draft # Nothing /\ draft' = Nothing /\ ~Reopen =>
                 Saving' \/ \A f \in Fields \ failed' : typed[f] \subseteq server[f]
  <1>1. ResumeInv /\ ResumeInv' /\ [ResumeNext]_resumeVars => [Safe]_resumeVars
    <2> SUFFICES ASSUME ResumeInv, ResumeInv', ResumeNext, draft # Nothing, draft' = Nothing, ~Reopen
                 PROVE  Saving' \/ \A f \in Fields \ failed' : typed[f] \subseteq server[f]
      OBVIOUS
    <2>0. ResumeTypeOK /\ NothingLost /\ CleanIsLast
      BY DEF ResumeInv
    <2>1. CASE Answer
      <3>1. /\ flight # Nothing /\ flight.applied /\ flight.clean
            /\ failed' = failed \ DOMAIN flight.patch
        BY <2>1 DEF Answer, Pending
      <3>2. queued = Nothing /\ DOMAIN flight.patch = Fields
        BY <2>0, <3>1 DEF CleanIsLast
      <3> QED BY <2>0, <3>1, <3>2 DEF NothingLost, Carried
    <2>2. ASSUME NEW r \in Readers, Land(r) \/ ReadFails(r)
          PROVE  Saving' \/ \A f \in Fields \ failed' : typed[f] \subseteq server[f]
      <3>1. reads[r].clean /\ UNCHANGED <<flight, queued, failed>>
        BY <2>2 DEF Land, ReadFails, EndRead
      <3>2. queued = Nothing /\ (flight # Nothing => flight.clean)
        BY <2>0, <3>1 DEF CleanIsLast
      <3>3. CASE flight = Nothing
        BY <2>0, <3>1, <3>2, <3>3 DEF NothingLost, Carried
      <3>4. CASE flight # Nothing
        BY <3>1, <3>2, <3>4 DEF Saving
      <3> QED BY <3>3, <3>4
    <2>3. ASSUME NEW f \in Fields, Edit(f)  PROVE FALSE
      <3> DEFINE patch == [g \in {f} |-> OnScreen[f] \cup {edits + 1}]
      <3>1. draft' = Over(OnScreen, patch)
        BY <2>3 DEF Edit
      <3>2. f \in DOMAIN draft'
        BY <3>1 DEF Over
      <3>3. DOMAIN Nothing = {}
        BY DEF Nothing
      <3> QED BY <3>2, <3>3
    <2>4. CASE UNCHANGED draft
      BY <2>4
    <2>5. CASE Carry \/ WriteFails \/ Save \/ OpenReview \/ ApplySuggestion \/ CloseReview
               \/ \E r \in Readers : Take(r)
      BY <2>4, <2>5 DEF Carry, WriteFails, Save, OpenReview, ApplySuggestion, CloseReview, Take
    <2> QED BY <2>1, <2>2, <2>3, <2>5 DEF ResumeNext, Network
  <1>2. ResumeSpec => [][Safe]_resumeVars
    BY <1>1, ResumeInvariance, PTL DEF ResumeSpec
  <1> QED BY <1>2 DEF PutDownIsOnServer-----------------------------------------------------------------------------
(* The snapshot *)

\* While nothing is pending and no read has been missed, a snapshot that is not
\* what the server has is about to be read anew, and a refetch has read what
\* the server has, or will be told that the review has changed it since.
SnapshotIsRenewed ==
    ~Pending /\ ~missed =>
        /\ cache = server \/ reads["refetch"].at # "none" \/ reads["change"].at # "none"
        /\ reads["refetch"].at = "read" =>
              Overtaken("refetch") \/ reads["refetch"].snap = server

\* Of three readers the one that ends is idle, the others are as they were.
LEMMA OneReaderEnds ==
    ASSUME ResumeInv, NEW r \in Readers, EndRead(r)
    PROVE  /\ reads'[r].at = "none"
           /\ \A q \in Readers \ {r} : reads'[q] = reads[q]
           /\ server' = server /\ flight' = flight
  <1>1. reads \in [Readers -> Reads]
    BY DEF ResumeInv, ResumeTypeOK
  <1>2. reads' = [reads EXCEPT ![r] = Idle] /\ Idle.at = "none"
    BY DEF EndRead, Idle
  <1> QED BY <1>1, <1>2 DEF EndRead

LEMMA ReadersAre ==
    /\ "refetch" \in Readers /\ "change" \in Readers /\ "close" \in Readers
    /\ \A r \in Readers : r \in {"refetch", "change", "close"}
  BY DEF Readers

LEMMA RenewedInit == ResumeInit => SnapshotIsRenewed
  BY ReadersAre DEF ResumeInit, SnapshotIsRenewed, Pending, Idle

LEMMA RenewedNext ==
    ASSUME ResumeInv, SnapshotIsRenewed, [ResumeNext]_resumeVars
    PROVE  SnapshotIsRenewed'
  <1>0. reads \in [Readers -> Reads] /\ (review = "open" => ~Pending)
    BY DEF ResumeInv, ResumeTypeOK, OneWriterAtATime
  <1>1. ASSUME flight' # Nothing  PROVE SnapshotIsRenewed'
    BY <1>1 DEF SnapshotIsRenewed, Pending
  <1>2. ASSUME missed'  PROVE SnapshotIsRenewed'
    BY <1>2 DEF SnapshotIsRenewed
  <1>3. CASE \/ UNCHANGED resumeVars \/ OpenReview \/ Reopen
    <2>1. /\ server' = server /\ cache' = cache /\ missed' = missed /\ (Pending' <=> Pending)
          /\ \A r \in Readers : reads'[r].at = reads[r].at /\ reads'[r].snap = reads[r].snap
      <3>1. CASE UNCHANGED resumeVars \/ OpenReview
        BY <3>1 DEF resumeVars, OpenReview, Pending
      <3>2. CASE Reopen
        <4>1. UNCHANGED <<server, cache, missed>>
          BY <3>2 DEF Reopen
        <4>2. reads' = [r \in Readers |-> [reads[r] EXCEPT !.clean = FALSE]]
          BY <3>2 DEF Reopen
        <4>3. \A r \in Readers : reads[r] \in Reads
          BY <1>0
        <4>4. \A r \in Readers : reads'[r].at = reads[r].at /\ reads'[r].snap = reads[r].snap
          BY <4>2, <4>3 DEF Reads
        <4>5. flight' # Nothing \/ flight' = flight
          <5>1. CASE flight = Nothing
            BY <3>2, <5>1 DEF Reopen, Forgotten
          <5>2. CASE flight # Nothing
            <6>1. flight \in Writes /\ flight' = [flight EXCEPT !.clean = FALSE]
              BY <3>2, <5>2 DEF Reopen, Forgotten, ResumeInv, ResumeTypeOK
            <6>2. flight' \in Writes
              BY <6>1 DEF Writes
            <6> QED BY <6>2, NothingIsNothing
          <5> QED BY <5>1, <5>2
        <4>6. flight = Nothing => flight' = Nothing
          BY <3>2 DEF Reopen, Forgotten
        <4> QED BY <4>1, <4>4, <4>5, <4>6 DEF Pending
      <3> QED BY <1>3, <3>1, <3>2
    <2> QED BY <2>1, ReadersAre DEF SnapshotIsRenewed, Overtaken
  <1>4. CASE Carry \/ Save \/ \E f \in Fields : Edit(f)
    <2>1. flight' \in Writes
      <3>1. CASE Carry
        BY <3>1 DEF Carry, Pending, ResumeInv, ResumeTypeOK, Writes
      <3>2. CASE Save
        <4>1. OnScreen \in Patches /\ Write(OnScreen, TRUE, TRUE)
          BY <3>2, OnScreenIsResume, ResumeIsPatch DEF ResumeInv, Save
        <4> QED BY <4>1, WriteStep DEF ResumeInv
      <3>3. ASSUME NEW f \in Fields, Edit(f)  PROVE flight' \in Writes
        <4> DEFINE patch == [g \in {f} |-> OnScreen[f] \cup {edits + 1}]
        <4>1. patch \in Patches
          <5>1. edits + 1 \in Changes /\ OnScreen[f] \in SUBSET Changes
            BY <3>3, OnScreenIsResume, ResumeAssumption DEF Edit, ResumeInv, ResumeTypeOK, Changes, Resumes
          <5>2. DOMAIN patch = {f} /\ patch \in [{f} -> SUBSET Changes]
            BY <5>1
          <5>3. {f} \in (SUBSET Fields) \ {{}}
            OBVIOUS
          <5> QED BY <5>2, <5>3, PatchIsFunction
        <4>2. Write(patch, FALSE, FALSE)
          BY <3>3 DEF Edit, Dirties
        <4> QED BY <4>1, <4>2, WriteStep DEF ResumeInv
      <3> QED BY <1>4, <3>1, <3>2, <3>3
    <2> QED BY <1>1, <2>1, NothingIsNothing
  <1>5. CASE Answer
    <2>1. reads'["refetch"] = Asked(FALSE)
      BY <1>0, <1>5, ReadersAre DEF Answer, FreshRead
    <2>2. Asked(FALSE).at = "asked"
      BY DEF Asked
    <2> QED BY <2>1, <2>2 DEF SnapshotIsRenewed
  <1>6. CASE WriteFails
    BY <1>2, <1>6 DEF WriteFails
  <1>7. CASE ApplySuggestion
    <2>1. CASE missed'
      BY <1>2, <2>1
    <2>2. CASE ~missed'
      <3>1. /\ reads' = [reads EXCEPT !["change"] = Asked(TRUE)] /\ missed' = missed
            /\ flight' = flight /\ ~Pending
            /\ Reviewed \notin server["content"]
            /\ server' = [server EXCEPT !["content"] = @ \cup {Reviewed}]
        BY <1>0, <1>7, <2>2 DEF ApplySuggestion
      <3>2. /\ reads'["change"].at = "asked" /\ reads'["refetch"] = reads["refetch"]
        BY <1>0, <3>1, ReadersAre DEF Asked
      <3>3. ASSUME reads["refetch"].at = "read"  PROVE Overtaken("refetch")'
        <4>1. reads["refetch"].snap = server
          BY <2>2, <3>1, <3>3 DEF SnapshotIsRenewed, Overtaken
        <4>2. Reviewed \in server'["content"]
          BY <3>1 DEF ResumeInv, ResumeTypeOK, Resumes, Fields
        <4> QED BY <3>1, <3>2, <4>1, <4>2 DEF Overtaken
      <3> QED BY <3>2, <3>3 DEF SnapshotIsRenewed
    <2> QED BY <2>1, <2>2
  <1>8. CASE CloseReview
    <2>1. /\ reads' = [reads EXCEPT !["close"] = Asked(FALSE)]
          /\ UNCHANGED <<server, cache, flight, missed>>
      BY <1>8 DEF CloseReview
    <2>2. reads'["refetch"] = reads["refetch"] /\ reads'["change"] = reads["change"]
      BY <1>0, <2>1, ReadersAre
    <2> QED BY <2>1, <2>2 DEF SnapshotIsRenewed, Pending, Overtaken
  <1>9. ASSUME NEW r \in Readers, Take(r)
        PROVE  SnapshotIsRenewed'
    <2>1. /\ reads' = [reads EXCEPT ![r] = [@ EXCEPT !.at = "read", !.snap = server]]
          /\ UNCHANGED <<server, cache, flight, missed>> /\ reads[r].at = "asked"
      BY <1>9 DEF Take
    <2>2. /\ reads'[r].at = "read" /\ reads'[r].snap = server
          /\ \A q \in Readers \ {r} : reads'[q] = reads[q]
      <3>1. reads[r] \in Reads
        BY <1>0
      <3> QED BY <1>0, <2>1, <3>1 DEF Reads
    <2>3. CASE r = "refetch"
      BY <2>1, <2>2, <2>3 DEF SnapshotIsRenewed
    <2>4. CASE r # "refetch"
      BY <2>1, <2>2, <2>4, ReadersAre DEF SnapshotIsRenewed, Pending, Overtaken
    <2> QED BY <2>3, <2>4
  <1>10. ASSUME NEW r \in Readers, Land(r)
         PROVE  SnapshotIsRenewed'
    <2>1. /\ reads[r].at = "read" /\ cache' = reads[r].snap
          /\ (~missed' => ~missed /\ ~Overtaken(r))
          /\ EndRead(r)
      BY <1>10 DEF Land
    <2>2. /\ reads'[r].at = "none" /\ server' = server /\ flight' = flight
          /\ \A q \in Readers \ {r} : reads'[q] = reads[q]
      BY <2>1, OneReaderEnds
    <2>3. ASSUME ~missed', ~Pending'  PROVE cache' = server'
      <3>1. CASE r = "refetch"
        BY <2>1, <2>2, <2>3, <3>1 DEF SnapshotIsRenewed, Pending
      <3>2. CASE r # "refetch"
        BY <2>1, <2>2, <2>3, <3>2 DEF Overtaken
      <3> QED BY <3>1, <3>2
    <2>4. ASSUME ~missed', ~Pending', reads'["refetch"].at = "read"
          PROVE  Overtaken("refetch")' \/ reads'["refetch"].snap = server'
      <3>1. r # "refetch"
        BY <2>2, <2>4
      <3>2. reads'["refetch"] = reads["refetch"]
        BY <2>2, <3>1, ReadersAre
      <3> QED BY <2>1, <2>2, <2>4, <3>2 DEF SnapshotIsRenewed, Pending, Overtaken
    <2> QED BY <2>3, <2>4 DEF SnapshotIsRenewed
  <1>11. ASSUME NEW r \in Readers, ReadFails(r)
         PROVE  SnapshotIsRenewed'
    BY <1>2, <1>11 DEF ReadFails
  <1> QED BY <1>3, <1>4, <1>5, <1>6, <1>7, <1>8, <1>9, <1>10, <1>11 DEF ResumeNext, Network

\* Once all is quiet, the snapshot is what the server has, unless a read was
\* missed or a direct one landed late.
THEOREM TheCacheSettles == ResumeSpec => []CacheSettles
  <1>1. SnapshotIsRenewed => CacheSettles
    <2> SUFFICES ASSUME SnapshotIsRenewed, ~Pending, ~missed, \A r \in Readers : reads[r].at = "none"
                 PROVE  cache = server
      BY DEF CacheSettles
    <2> QED BY ReadersAre DEF SnapshotIsRenewed
  <1>2. ResumeInv /\ SnapshotIsRenewed /\ [ResumeNext]_resumeVars => SnapshotIsRenewed'
    BY RenewedNext
  <1> QED BY <1>1, <1>2, RenewedInit, ResumeInvariance, PTL DEF ResumeSpec
-----------------------------------------------------------------------------
(* A review never waits for nothing *)

\* A review that waits, waits for a write under way; so Carry or Answer can be
\* taken.
WaitsForAWrite == review = "waiting" => Pending

\* Steps of the network until the last write has ended.
Remaining ==
    (IF flight = Nothing THEN 0 ELSE IF flight.applied THEN 1 ELSE 2)
      + (IF queued = Nothing THEN 0 ELSE 2)

\* Each of those steps brings the last write nearer to its end, nothing but what
\* the student writes puts it off, and the wait ends with the review open and no
\* write under way.
WaitGoesOn ==
    review = "waiting" =>
        /\ Carry \/ Answer \/ WriteFails => Remaining' < Remaining
        /\ Remaining' > Remaining => Save \/ \E f \in Fields : Edit(f)
        /\ review' # "waiting" => review' = "open" /\ ~Pending'
WaitIsWorkedOff == [][WaitGoesOn]_resumeVars

LEMMA WaitsNext ==
    ResumeInv /\ ResumeInv' /\ WaitsForAWrite /\ [ResumeNext]_resumeVars =>
        WaitsForAWrite' /\ [WaitGoesOn]_resumeVars
  <1> SUFFICES ASSUME ResumeInv, ResumeInv', WaitsForAWrite, [ResumeNext]_resumeVars
               PROVE  WaitsForAWrite' /\ (WaitGoesOn \/ UNCHANGED resumeVars)
    OBVIOUS
  <1>a. /\ Nothing \notin Writes
        /\ flight # Nothing => flight \in Writes /\ flight.applied \in BOOLEAN
        /\ queued # Nothing => queued \in Writes /\ ~queued.applied
        /\ queued # Nothing => flight # Nothing
    BY NothingIsNothing DEF ResumeInv, ResumeTypeOK, CleanIsLast, Writes
  <1>r. Remaining \in Nat
    BY DEF Remaining
  <1>1. CASE Carry
    <2>1. /\ flight # Nothing /\ ~flight.applied /\ flight' = [flight EXCEPT !.applied = TRUE]
          /\ UNCHANGED <<queued, review>>
      BY <1>1 DEF Carry, Pending
    <2>2. flight' \in Writes /\ flight'.applied
      BY <1>a, <2>1 DEF Writes
    <2>3. Remaining' < Remaining
      BY <1>a, <2>1, <2>2 DEF Remaining
    <2>4. WaitsForAWrite'
      BY <1>a, <2>2 DEF WaitsForAWrite, Pending
    <2> QED BY <1>r, <2>1, <2>3, <2>4 DEF WaitGoesOn, Remaining
  <1>2. CASE Answer \/ WriteFails
    <2>1. flight # Nothing /\ flight' = queued /\ queued' = Nothing /\ review' = Opened
      BY <1>2 DEF Answer, WriteFails, OpensAnyway, SendNext, Pending
    <2>2. Remaining' < Remaining
      BY <2>1, <1>a DEF Remaining
    <2>3. /\ WaitsForAWrite'
          /\ review = "waiting" /\ review' # "waiting" => review' = "open" /\ ~Pending'
      BY <2>1 DEF WaitsForAWrite, Opened, WaitIsOver, Pending
    <2> QED BY <1>r, <2>2, <2>3 DEF WaitGoesOn, Remaining
  <1>3. CASE Save \/ \E f \in Fields : Edit(f)
    <2>1. /\ review' = review /\ edits' = edits + 1
          /\ \E still \in BOOLEAN : flight # Nothing => flight' = [flight EXCEPT !.clean = @ /\ still]
      <3>1. CASE Save
        BY <3>1 DEF Save, Write
      <3>2. ASSUME NEW f \in Fields, Edit(f)
            PROVE  /\ review' = review /\ edits' = edits + 1
                   /\ flight # Nothing => flight' = [flight EXCEPT !.clean = @ /\ FALSE]
        BY <3>2 DEF Edit, Write, Dirties
      <3> QED BY <1>3, <3>1, <3>2
    <2>2. ASSUME review = "waiting"  PROVE flight' # Nothing
      <3>1. flight # Nothing
        BY <2>2 DEF WaitsForAWrite, Pending
      <3>2. PICK still \in BOOLEAN : flight' = [flight EXCEPT !.clean = @ /\ still]
        BY <2>1, <3>1
      <3>3. flight' \in Writes
        BY <1>a, <3>1, <3>2 DEF Writes
      <3> QED BY <1>a, <3>3
    <2>3. ~Carry /\ ~Answer /\ ~WriteFails
      <3>1. edits' = edits + 1 /\ edits \in Nat
        BY <2>1, ResumeAssumption DEF ResumeInv, ResumeTypeOK
      <3> QED BY <3>1 DEF Carry, Answer, WriteFails
    <2> QED BY <1>3, <2>1, <2>2, <2>3 DEF WaitsForAWrite, WaitGoesOn, Pending
  <1>4. CASE Reopen
    <2>1. /\ flight' = Forgotten(flight) /\ queued' = Forgotten(queued) /\ review' = review
          /\ UNCHANGED <<server, cache, edits, failed>>
      BY <1>4 DEF Reopen
    <2>2. /\ flight = Nothing => flight' = Nothing
          /\ flight # Nothing => flight' \in Writes /\ (flight'.applied <=> flight.applied)
          /\ queued = Nothing => queued' = Nothing
          /\ queued # Nothing => queued' \in Writes
      BY <1>a, <2>1 DEF Forgotten, Writes
    <2>3. Remaining' = Remaining
      BY <1>a, <2>2 DEF Remaining
    <2>4. ~Carry /\ ~Answer /\ ~WriteFails
      <3>1. mishaps' # mishaps /\ failed' = failed /\ missed' = missed
        BY <1>4, ResumeAssumption DEF Reopen, Mishap, ResumeInv, ResumeTypeOK
      <3>2. WriteFails => FALSE
        <4>1. SUFFICES ASSUME WriteFails PROVE FALSE
          OBVIOUS
        <4>2. flight' = queued /\ queued' = Nothing
          BY <4>1 DEF WriteFails, SendNext
        <4>3. flight # Nothing
          BY <4>1 DEF WriteFails, Pending
        <4>4. queued # Nothing
          BY <1>a, <2>2, <4>2, <4>3
        <4> QED BY <1>a, <2>2, <4>2, <4>4
      <3> QED BY <3>1, <3>2 DEF Carry, Answer
    <2>5. WaitsForAWrite'
      BY <1>a, <2>1, <2>2 DEF WaitsForAWrite, Pending
    <2> QED BY <1>r, <2>1, <2>3, <2>4, <2>5 DEF WaitGoesOn
  <1>5. CASE OpenReview \/ ApplySuggestion \/ CloseReview
    <2>1. UNCHANGED <<flight, queued>> /\ review # "waiting"
      BY <1>5 DEF OpenReview, ApplySuggestion, CloseReview
    <2>2. WaitsForAWrite'
      BY <1>5, <2>1 DEF OpenReview, ApplySuggestion, CloseReview, WaitsForAWrite, Pending
    <2> QED BY <2>1, <2>2 DEF WaitGoesOn
  <1>6. CASE (\E r \in Readers : Take(r) \/ Land(r) \/ ReadFails(r)) \/ UNCHANGED resumeVars
    <2>1. UNCHANGED <<flight, queued, review>>
      BY <1>6 DEF Take, Land, ReadFails, EndRead, resumeVars
    <2>2. ~Carry /\ ~Answer /\ ~WriteFails
      <3>1. ~Answer /\ ~WriteFails
        BY <1>a, <2>1 DEF Answer, WriteFails, SendNext, Pending
      <3>2. Carry => FALSE
        <4>1. SUFFICES ASSUME Carry PROVE FALSE
          OBVIOUS
        <4>2. flight # Nothing /\ ~flight.applied /\ flight' = [flight EXCEPT !.applied = TRUE]
          BY <4>1 DEF Carry, Pending
        <4>3. flight'.applied
          BY <1>a, <4>2 DEF Writes
        <4> QED BY <2>1, <4>2, <4>3
      <3> QED BY <3>1, <3>2
    <2> QED BY <1>r, <2>1, <2>2 DEF WaitsForAWrite, WaitGoesOn, Pending, Remaining
  <1> QED BY <1>1, <1>2, <1>3, <1>4, <1>5, <1>6 DEF ResumeNext, Network

\* A review never waits but for a write that is under way and will end, and each
\* end brings it nearer to being opened, with no write beside it: what
\* ReviewOpens rests on (ReviewDock.tsx; repository.ts: waitForResumeWrites).
THEOREM AReviewNeverWaitsInVain == ResumeSpec => []WaitsForAWrite /\ WaitIsWorkedOff
  <1>1. ResumeInit => WaitsForAWrite
    BY DEF ResumeInit, WaitsForAWrite
  <1> QED BY <1>1, WaitsNext, ResumeInvariance, PTL DEF ResumeSpec, WaitIsWorkedOff
-----------------------------------------------------------------------------
(* What the review has written *)

\* The student edits the text, or saves, only on a screen that shows what the
\* review has written there.
EditsWhatIsThere ==
    (Edit("content") \/ Save) /\ Reviewed \in server["content"] => Reviewed \in OnScreen["content"]

\* Of a patch that has the text: that it has the review's change, or not
Has(p) == "content" \in DOMAIN p => Reviewed \in p["content"]
HasNot(p) == "content" \in DOMAIN p => Reviewed \notin p["content"]

\* Once the review has written, every write that is under way or waits has it;
\* before, nothing does.
WritesHaveReview ==
    Reviewed \in server["content"] =>
        (flight # Nothing => Has(flight.patch)) /\ (queued # Nothing => Has(queued.patch))
NothingHasReview ==
    Reviewed \notin server["content"] =>
        /\ flight # Nothing => HasNot(flight.patch)
        /\ queued # Nothing => HasNot(queued.patch)
        /\ HasNot(cache) /\ (draft # Nothing => HasNot(draft))
        /\ \A r \in Readers : HasNot(reads[r].snap)

LEMMA OverHas ==
    ASSUME NEW p \in Patches, NEW q \in Patches
    PROVE  /\ Has(p) /\ Has(q) => Has(Over(p, q))
           /\ HasNot(p) /\ HasNot(q) => HasNot(Over(p, q))
  <1>1. PICK o : o = Over(p, q)
    OBVIOUS
  <1>2. /\ DOMAIN o = DOMAIN p \cup DOMAIN q
        /\ \A f \in DOMAIN q : o[f] = q[f]
        /\ \A f \in DOMAIN p \ DOMAIN q : o[f] = p[f]
    BY <1>1, OverPatch, Zenon
  <1>3. Has(p) /\ Has(q) => Has(o)
    BY <1>2 DEF Has
  <1>4. HasNot(p) /\ HasNot(q) => HasNot(o)
    BY <1>2 DEF HasNot
  <1> QED BY <1>1, <1>3, <1>4, Zenon

LEMMA ResumeHas == \A v \in Resumes : /\ Has(v) <=> Reviewed \in v["content"]
                                      /\ HasNot(v) <=> Reviewed \notin v["content"]
  BY ResumeIsPatch DEF Has, HasNot, Fields

LEMMA BlankHasNot == HasNot(Blank)
  BY DEF HasNot, Blank

\* A write made of a patch that agrees with the server
LEMMA WriteHas ==
    ASSUME ResumeInv, WritesHaveReview, NothingHasReview,
           NEW patch \in Patches, NEW save \in BOOLEAN, NEW still \in BOOLEAN,
           Write(patch, save, still), server' = server,
           Reviewed \in server["content"] => Has(patch),
           Reviewed \notin server["content"] =>
               /\ HasNot(patch)
               /\ draft' # Nothing => HasNot(draft')
               /\ \A r \in Readers : HasNot(reads'[r].snap)
    PROVE  WritesHaveReview' /\ NothingHasReview'
  <1>0. ResumeTypeOK /\ CleanIsLast /\ Nothing \notin Writes
    BY NothingIsNothing DEF ResumeInv
  <1>1. /\ flight = Nothing =>
              flight' = [patch |-> patch, clean |-> save, applied |-> FALSE] /\ queued' = Nothing
        /\ flight # Nothing => flight'.patch = flight.patch
        /\ flight # Nothing /\ queued = Nothing => queued'.patch = patch
        /\ flight # Nothing /\ queued # Nothing => queued'.patch = Over(queued.patch, patch)
    BY <1>0, WriteStep
  <1>2. PICK sent, next : sent = flight'.patch /\ next = queued'.patch
    OBVIOUS
  <1>3. sent = patch \/ (flight # Nothing /\ sent = flight.patch)
    BY <1>1, <1>2
  <1>4. \/ queued' = Nothing \/ next = patch
        \/ /\ flight # Nothing /\ queued # Nothing
           /\ \E p \in Patches : p = queued.patch /\ next = Over(p, patch)
    <2>1. queued # Nothing => queued.patch \in Patches
      BY <1>0 DEF ResumeTypeOK, Writes
    <2> QED BY <1>1, <1>2, <2>1
  <1>5. ASSUME Reviewed \in server["content"]
        PROVE  Has(sent) /\ (queued' # Nothing => Has(next))
    <2>1. ASSUME NEW p \in Patches, p = queued.patch, queued # Nothing, next = Over(p, patch)
          PROVE  Has(next)
      BY <1>5, <2>1, OverHas DEF WritesHaveReview
    <2> QED BY <1>3, <1>4, <1>5, <2>1 DEF WritesHaveReview
  <1>6. ASSUME Reviewed \notin server["content"]
        PROVE  HasNot(sent) /\ (queued' # Nothing => HasNot(next)) /\ HasNot(cache')
    <2>1. ASSUME NEW p \in Patches, p = queued.patch, queued # Nothing, next = Over(p, patch)
          PROVE  HasNot(next)
      BY <1>6, <2>1, OverHas DEF NothingHasReview
    <2>2. cache \in Patches /\ cache' = Over(cache, patch)
      BY <1>0, ResumeIsPatch DEF ResumeTypeOK, Write
    <2>3. PICK old \in Patches : old = cache
      BY <2>2
    <2>4. HasNot(Over(old, patch))
      BY <1>6, <2>3, OverHas DEF NothingHasReview
    <2>5. HasNot(cache')
      BY <2>2, <2>3, <2>4
    <2> QED BY <1>3, <1>4, <1>6, <2>1, <2>5 DEF NothingHasReview
  <1>7. WritesHaveReview'
    BY <1>2, <1>5 DEF WritesHaveReview
  <1>8. NothingHasReview'
    BY <1>2, <1>6 DEF NothingHasReview
  <1> QED BY <1>7, <1>8

\* A step of the network or of the screen that makes no write
LEMMA NoWriteHas ==
    ASSUME ResumeInv, WritesHaveReview, NothingHasReview, server' = server,
           flight' = Nothing \/ (flight # Nothing /\ flight'.patch = flight.patch)
                             \/ (queued # Nothing /\ flight'.patch = queued.patch),
           queued' = Nothing \/ (queued # Nothing /\ queued'.patch = queued.patch),
           draft' = draft \/ draft' = Nothing,
           cache' = cache \/ \E r \in Readers : cache' = reads[r].snap,
           \A r \in Readers : reads'[r].snap \in {reads[r].snap, Blank, server}
    PROVE  WritesHaveReview' /\ NothingHasReview'
  <1>0. ResumeTypeOK
    BY DEF ResumeInv
  <1>1. WritesHaveReview'
    BY DEF WritesHaveReview
  <1>2. ASSUME Reviewed \notin server["content"]
        PROVE  NothingHasReview'
    <2>1. HasNot(server)
      BY <1>0, <1>2, ResumeHas DEF ResumeTypeOK
    <2>2. \A r \in Readers : HasNot(reads'[r].snap)
      BY <1>2, <2>1, BlankHasNot DEF NothingHasReview
    <2>3. HasNot(cache')
      BY <1>2 DEF NothingHasReview
    <2> QED BY <1>2, <2>2, <2>3 DEF NothingHasReview
  <1> QED BY <1>1, <1>2 DEF NothingHasReview

LEMMA CarryHas ==
    ASSUME ResumeInv, WritesHaveReview, NothingHasReview, Carry
    PROVE  /\ WritesHaveReview' /\ NothingHasReview'
           /\ Reviewed \in server["content"] => Reviewed \in server'["content"]
  <1>0. ResumeTypeOK
    BY DEF ResumeInv
  <1>1. /\ flight # Nothing /\ flight' = [flight EXCEPT !.applied = TRUE]
        /\ server' = Over(server, flight.patch)
        /\ UNCHANGED <<cache, draft, queued, reads>>
    BY DEF Carry, Pending
  <1>2. PICK p \in Patches, old \in Resumes : p = flight.patch /\ old = server
    BY <1>0, <1>1 DEF ResumeTypeOK, Writes
  <1>3. flight'.patch = p
    BY <1>0, <1>1, <1>2 DEF ResumeTypeOK, Writes
  <1>4. PICK new \in Resumes : new = Over(old, p)
    BY OverResume
  <1>5. server' = new
    BY <1>1, <1>2, <1>4
  <1>6. Has(old) /\ Has(p) => Has(new)
    BY <1>4, OverHas, ResumeIsPatch
  <1>7. HasNot(old) /\ HasNot(p) => HasNot(new)
    BY <1>4, OverHas, ResumeIsPatch
  <1>8. CASE Reviewed \in server["content"]
    <2>1. Has(old) /\ Has(p)
      BY <1>1, <1>2, <1>8, ResumeHas DEF WritesHaveReview
    <2>2. Reviewed \in server'["content"]
      BY <1>5, <1>6, <2>1, ResumeHas
    <2>3. queued # Nothing => Has(queued.patch)
      BY <1>8 DEF WritesHaveReview
    <2> QED BY <1>1, <1>3, <2>1, <2>2, <2>3 DEF WritesHaveReview, NothingHasReview
  <1>9. CASE Reviewed \notin server["content"]
    <2>1. HasNot(old) /\ HasNot(p)
      BY <1>1, <1>2, <1>9, ResumeHas DEF NothingHasReview
    <2>2. Reviewed \notin server'["content"]
      BY <1>5, <1>7, <2>1, ResumeHas
    <2> QED BY <1>1, <1>3, <1>9, <2>1, <2>2 DEF WritesHaveReview, NothingHasReview
  <1> QED BY <1>8, <1>9

LEMMA EditHas ==
    ASSUME ResumeInv, WritesHaveReview, NothingHasReview, EditsWhatIsThere, NEW f \in Fields, Edit(f)
    PROVE  WritesHaveReview' /\ NothingHasReview'
  <1> DEFINE value == OnScreen[f] \cup {edits + 1}
             patch == [g \in {f} |-> value]
  <1>0. ResumeTypeOK
    BY DEF ResumeInv
  <1>1. value \in SUBSET Changes /\ edits + 1 # Reviewed
    <2>1. edits \in Nat /\ edits < MaxWrites /\ MaxWrites \in Nat
      BY <1>0, ResumeAssumption DEF Edit, ResumeTypeOK
    <2>2. OnScreen[f] \in SUBSET Changes
      BY <1>0, OnScreenIsResume DEF Resumes
    <2> QED BY <2>1, <2>2 DEF Changes, Reviewed
  <1>2. patch \in Patches /\ DOMAIN patch = {f} /\ patch[f] = value
    <2>1. {f} \in (SUBSET Fields) \ {{}}
      OBVIOUS
    <2>2. patch \in [{f} -> SUBSET Changes]
      BY <1>1
    <2> QED BY <2>1, <2>2, PatchIsFunction
  <1>3. /\ draft' = Over(OnScreen, patch) /\ Write(patch, FALSE, FALSE) /\ server' = server
        /\ reads' = [r \in Readers |-> [reads[r] EXCEPT !.clean = @ /\ FALSE]]
    BY DEF Edit, Dirties
  <1>4. \A r \in Readers : reads'[r].snap = reads[r].snap
    BY <1>0, <1>3 DEF ResumeTypeOK, Reads
  <1>5. Reviewed \in server["content"] => Has(patch)
    <2>1. f = "content" /\ Reviewed \in server["content"] => Reviewed \in value
      BY DEF EditsWhatIsThere
    <2> QED BY <1>2, <2>1 DEF Has
  <1>6. ASSUME Reviewed \notin server["content"]
        PROVE  HasNot(OnScreen) /\ HasNot(patch)
    <2>1. HasNot(OnScreen)
      BY <1>6 DEF NothingHasReview, OnScreen
    <2>2. f = "content" => Reviewed \notin value
      <3>1. Reviewed \notin OnScreen["content"]
        BY <1>0, <2>1, OnScreenIsResume, ResumeHas
      <3> QED BY <1>1, <3>1
    <2> QED BY <1>2, <2>1, <2>2 DEF HasNot
  <1> HIDE DEF value, patch
  <1>7. Reviewed \notin server["content"] => HasNot(draft')
    <2>1. PICK shown \in Patches : shown = OnScreen
      BY <1>0, OnScreenIsResume, ResumeIsPatch
    <2>2. HasNot(shown) /\ HasNot(patch) => HasNot(Over(shown, patch))
      BY <1>2, OverHas
    <2> QED BY <1>3, <1>6, <2>1, <2>2
  <1>8. Reviewed \notin server["content"] => \A r \in Readers : HasNot(reads'[r].snap)
    BY <1>4 DEF NothingHasReview
  <1> QED BY <1>2, <1>3, <1>5, <1>6, <1>7, <1>8, WriteHas

LEMMA SaveHas ==
    ASSUME ResumeInv, WritesHaveReview, NothingHasReview, EditsWhatIsThere, Save
    PROVE  WritesHaveReview' /\ NothingHasReview'
  <1>1. PICK whole \in Resumes : whole = OnScreen
    BY OnScreenIsResume DEF ResumeInv
  <1>2. whole \in Patches
    BY ResumeIsPatch
  <1>3. Write(whole, TRUE, TRUE) /\ UNCHANGED <<server, draft, reads>>
    BY <1>1 DEF Save
  <1>4. Reviewed \in server["content"] => Has(whole)
    BY <1>1, ResumeHas DEF EditsWhatIsThere
  <1>5. Reviewed \notin server["content"] =>
            /\ HasNot(whole)
            /\ draft' # Nothing => HasNot(draft')
            /\ \A r \in Readers : HasNot(reads'[r].snap)
    BY <1>1, <1>3 DEF NothingHasReview, OnScreen
  <1> QED BY <1>2, <1>3, <1>4, <1>5, WriteHas

LEMMA OthersHave ==
    ASSUME ResumeInv, WritesHaveReview, NothingHasReview,
           \/ Answer \/ WriteFails \/ Reopen \/ OpenReview \/ CloseReview
           \/ \E r \in Readers : Take(r) \/ Land(r) \/ ReadFails(r)
    PROVE  WritesHaveReview' /\ NothingHasReview' /\ server' = server
  <1>0. /\ flight \in Writes \cup {Nothing} /\ queued \in Writes \cup {Nothing}
        /\ reads \in [Readers -> Reads] /\ Nothing \notin Writes
    BY NothingIsNothing DEF ResumeInv, ResumeTypeOK
  <1>1. server' = server
    BY DEF Answer, WriteFails, Reopen, OpenReview, CloseReview, Take, Land, ReadFails, EndRead
  <1>a. Asked(FALSE).snap = Blank /\ Idle.snap = Blank
    BY DEF Asked, Idle
  <1>2. CASE Answer \/ WriteFails
    <2>1. /\ flight' = queued /\ queued' = Nothing /\ cache' = cache
          /\ draft' = draft \/ draft' = Nothing
          /\ reads' = [reads EXCEPT !["refetch"] = Asked(FALSE)] \/ reads' = reads
      BY <1>2 DEF Answer, WriteFails, SendNext, FreshRead
    <2>2. \A r \in Readers : reads'[r].snap \in {reads[r].snap, Blank, server}
      BY <1>0, <1>a, <2>1
    <2> QED BY <1>1, <2>1, <2>2, NoWriteHas
  <1>3. CASE Reopen
    <2>1. /\ draft' = Nothing /\ cache' = cache
          /\ flight' = Forgotten(flight) /\ queued' = Forgotten(queued)
          /\ reads' = [r \in Readers |-> [reads[r] EXCEPT !.clean = FALSE]]
      BY <1>3 DEF Reopen
    <2>2. \A r \in Readers : reads'[r].snap \in {reads[r].snap, Blank, server}
      BY <1>0, <2>1 DEF Reads
    <2>3. /\ flight' = Nothing \/ (flight # Nothing /\ flight'.patch = flight.patch)
          /\ queued' = Nothing \/ (queued # Nothing /\ queued'.patch = queued.patch)
      BY <1>0, <2>1 DEF Forgotten, Writes
    <2> QED BY <1>1, <2>1, <2>2, <2>3, NoWriteHas
  <1>4. CASE OpenReview \/ CloseReview
    <2>1. /\ UNCHANGED <<flight, queued, draft, cache>>
          /\ reads' = [reads EXCEPT !["close"] = Asked(FALSE)] \/ reads' = reads
      BY <1>4 DEF OpenReview, CloseReview
    <2>2. \A r \in Readers : reads'[r].snap \in {reads[r].snap, Blank, server}
      BY <1>0, <1>a, <2>1
    <2> QED BY <1>1, <2>1, <2>2, NoWriteHas
  <1>5. ASSUME NEW r \in Readers, Take(r)
        PROVE  WritesHaveReview' /\ NothingHasReview'
    <2>1. /\ UNCHANGED <<flight, queued, draft, cache>>
          /\ reads' = [reads EXCEPT ![r] = [@ EXCEPT !.at = "read", !.snap = server]]
      BY <1>5 DEF Take
    <2>2. \A q \in Readers : reads'[q].snap \in {reads[q].snap, Blank, server}
      BY <1>0, <2>1 DEF Reads
    <2> QED BY <1>1, <2>1, <2>2, NoWriteHas
  <1>6. ASSUME NEW r \in Readers, Land(r) \/ ReadFails(r)
        PROVE  WritesHaveReview' /\ NothingHasReview'
    <2>1. /\ UNCHANGED <<flight, queued>>
          /\ draft' = draft \/ draft' = Nothing
          /\ cache' = cache \/ cache' = reads[r].snap
          /\ reads' = [reads EXCEPT ![r] = Idle]
      BY <1>6 DEF Land, ReadFails, EndRead
    <2>2. \A q \in Readers : reads'[q].snap \in {reads[q].snap, Blank, server}
      BY <1>0, <1>a, <2>1
    <2> QED BY <1>1, <2>1, <2>2, NoWriteHas
  <1> QED BY <1>1, <1>2, <1>3, <1>4, <1>5, <1>6

LEMMA AppliedHas ==
    ASSUME ResumeInv, ApplySuggestion
    PROVE  WritesHaveReview' /\ NothingHasReview' /\ Reviewed \in server'["content"]
  <1>1. server' = [server EXCEPT !["content"] = @ \cup {Reviewed}] /\ server \in Resumes
    BY DEF ApplySuggestion, ResumeInv, ResumeTypeOK
  <1>2. Reviewed \in server'["content"]
    BY <1>1 DEF Resumes, Fields
  <1>3. flight' = Nothing /\ queued' = Nothing
    BY DEF ApplySuggestion, ResumeInv, OneWriterAtATime, Pending, ResumeTypeOK
  <1> QED BY <1>2, <1>3 DEF WritesHaveReview, NothingHasReview

LEMMA HasReviewNext ==
    ASSUME ResumeInv, WritesHaveReview, NothingHasReview, [EditsWhatIsThere]_resumeVars,
           [ResumeNext]_resumeVars
    PROVE  /\ WritesHaveReview' /\ NothingHasReview'
           /\ Reviewed \in server["content"] => Reviewed \in server'["content"]
  <1>1. ASSUME NEW f \in Fields, Edit(f)
        PROVE  WritesHaveReview' /\ NothingHasReview' /\ server' = server
    <2>1. edits' # edits /\ server' = server
      BY <1>1, ResumeAssumption DEF Edit, ResumeInv, ResumeTypeOK
    <2>2. EditsWhatIsThere
      BY <2>1 DEF resumeVars
    <2> QED BY <1>1, <2>1, <2>2, EditHas
  <1>2. ASSUME Save
        PROVE  WritesHaveReview' /\ NothingHasReview' /\ server' = server
    <2>1. edits' # edits /\ server' = server
      BY <1>2, ResumeAssumption DEF Save, ResumeInv, ResumeTypeOK
    <2>2. EditsWhatIsThere
      BY <2>1 DEF resumeVars
    <2> QED BY <1>2, <2>1, <2>2, SaveHas
  <1>3. ASSUME UNCHANGED resumeVars
        PROVE  WritesHaveReview' /\ NothingHasReview' /\ server' = server
    BY <1>3 DEF resumeVars, WritesHaveReview, NothingHasReview
  <1> QED BY <1>1, <1>2, <1>3, CarryHas, OthersHave, AppliedHas DEF ResumeNext, Network

\* What the review has written on the server stays there, through writes that
\* are put together, fail or arrive late and through reads that land late, as
\* long as the student does not edit the text or save on a screen from before it
\* (ReviewDock.tsx: the editor is locked while the review is open, and reads the
\* snapshot after it).  So the edit made just after the window is closed, before
\* that read has landed, is the only way to lose it.
THEOREM OnlyEditsFromBeforeOverwrite ==
    ResumeSpec /\ [][EditsWhatIsThere]_resumeVars => NeitherOverwrites
  <1> DEFINE Stays == Reviewed \in server["content"] => Reviewed \in server'["content"]
  <1>1. ResumeInit => WritesHaveReview /\ NothingHasReview
    BY ReadsAreReads, BlankHasNot, NothingIsNothing
    DEF ResumeInit, WritesHaveReview, NothingHasReview, Idle
  <1>2. ResumeInv /\ WritesHaveReview /\ NothingHasReview /\ [EditsWhatIsThere]_resumeVars
            /\ [ResumeNext]_resumeVars
            => WritesHaveReview' /\ NothingHasReview' /\ Stays
    BY HasReviewNext
  <1> QED BY <1>1, <1>2, ResumeInvariance, PTL DEF ResumeSpec, NeitherOverwrites
-----------------------------------------------------------------------------
(* The screens and the review, side by side: MCStudentScreens *)

\* The notebook, the editor and the background review keep apart: side by side,
\* each does what its own specification says, what it must get done in the end
\* included.  So all that is proved of one of them holds of the run that has
\* all three.
THEOREM ScreensKeepApart == ScreensSpec => NotebookSpec /\ ResumeSpec /\ FairSpec
  <1>1. ScreensInit => NotebookInit /\ ResumeInit /\ Init
    BY DEF ScreensInit
  <1>2. [ScreensNext]_screensVars => [NotebookNext]_notebookVars
    BY DEF ScreensNext, screensVars
  <1>3. [ScreensNext]_screensVars => [ResumeNext]_resumeVars
    BY DEF ScreensNext, screensVars
  <1>4. [ScreensNext]_screensVars => [Next]_vars
    BY DEF ScreensNext, screensVars
  <1> QED BY <1>1, <1>2, <1>3, <1>4, PTL DEF ScreensSpec, NotebookSpec, ResumeSpec, Spec, FairSpec

\* Type correctness of the screens' and the review's state.
THEOREM ScreensTypeCorrect == ScreensSpec => []ScreensTypeOK
  <1>1. NotebookInv /\ ResumeInv /\ IInv => ScreensTypeOK
    BY DEF NotebookInv, ResumeInv, IInv, ScreensTypeOK
  <1> QED
    BY <1>1, ScreensKeepApart, NotebookInvariance, ResumeInvariance, ReviewJobsInvariance, PTL
    DEF FairSpec
=============================================================================
