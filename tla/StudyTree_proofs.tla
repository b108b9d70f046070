---------------------------- MODULE StudyTree_proofs ----------------------------
(***************************************************************************)
(* Theorems about StudyTree for any projects, studies, runs, samples and    *)
(* requests: what no two requests worked on at once fits together.          *)
(***************************************************************************)
EXTENDS StudyTree, FiniteSetTheorems, TLAPS

Projects == [state : {"absent", "active", "deleted"}, type : ProjectType]
Studies  == [state : {"absent", "active", "deleted"}, in : Project \cup {NoId},
             type : StudyType, scope : Scope]
Samples  == [state : {"absent", "active", "deleted"}, in : Study \cup {NoId},
             rssi : BOOLEAN, snr : BOOLEAN]
Patches  == [state : {"active", "deleted", Keep}, in : Project \cup {Keep},
             type : StudyType \cup {Keep}, scope : Scope \cup {Keep}]

\* What a request carries between its check and its statement.
Carries(x) ==
  /\ x.op \in {"none", "project", "project type", "delete project", "study", "patch study",
               "run", "sample", "patch sample", "delete sample"}
  /\ x.op = "none" => x.touches = {}
  /\ x.touches \subseteq Project \cup Study \cup TestRun \cup Sample
  /\ x.op # "none" => x.id \in x.touches
  /\ x.op \in {"project", "project type", "delete project"} => x.id \in Project
  /\ x.op = "project" => x.set \in Projects
  /\ x.op = "project type" => x.set.type \in ProjectType
  /\ x.op = "study" => x.id \in Study /\ x.set \in Studies /\ x.set.state = "active"
                       /\ x.set.in \in Project /\ x.set.in \in x.touches
  /\ x.op = "patch study" => x.id \in Study /\ x.set \in Patches
                             /\ x.set.in \in x.touches \cup {Keep}
  /\ x.op = "run" => x.id \in TestRun /\ x.set \in Study /\ x.set \in x.touches
  /\ x.op \in {"sample", "patch sample", "delete sample"} => x.id \in Sample
  /\ x.op = "sample" => x.set \in Samples /\ x.set.state = "active" /\ x.set.in \in Study
  /\ x.op = "patch sample" =>
       x.set.rssi \in BOOLEAN \cup {Keep} /\ x.set.snr \in BOOLEAN \cup {Keep}

RowsOK ==
  /\ project \in [Project -> Projects]
  /\ study \in [Study -> Studies]
  /\ runStudy \in [TestRun -> Study \cup {NoId}]
  /\ sample \in [Sample -> Samples]
  /\ \A s \in Study : study[s].state # "absent" => study[s].in \in Project
  /\ \A r \in TestRun, s \in Study : runStudy[r] = s => study[s].state # "absent"
  /\ \A x \in Sample : sample[x].state # "absent" => sample[x].in \in Study

\* Two requests have nothing in common that is not disturbed.
Met == \A p, q \in Sender :
         p # q => sending[p].touches \cap sending[q].touches \subseteq disturbed

\* A study of this type may be in this project.
Fits(in, type) == project_row(in) /\ validate_project_study_type(in, type)

\* What was true when a request was checked still is, where nobody disturbed it.
ProjectStill(x) ==
  x.op \in {"project type", "delete project"} =>
    \A s \in Study \ disturbed :
      x.id \notin disturbed /\ study[s].in = x.id /\ study[s].state = "active" =>
        x.op = "project type" /\ x.set.type \in {"mixed", study[s].type}

StudyStill(x) ==
  x.op = "study" =>
    /\ x.set.in \notin disturbed => Fits(x.set.in, x.set.type)
    /\ validate_study_type_scope(x.set.type, x.set.scope)

\* The patched study as it would be now.
PatchFits(x, to) ==
  /\ study[x.id].in \in x.touches
  /\ to.in \notin disturbed => Fits(to.in, to.type)
  /\ validate_study_type_scope(to.type, to.scope)
  /\ \A r \in TestRun \ disturbed : runStudy[r] = x.id =>
       to.type = study[x.id].type /\ to.scope = study[x.id].scope

PatchStill(x) ==
  x.op = "patch study" =>
    /\ study[x.id].state # "absent"
    /\ x.id \notin disturbed => PatchFits(x, AsPatched(study[x.id], x.set))

RunStill(x) ==
  x.op = "run" =>
    /\ study[x.set].state # "absent"
    /\ x.set \notin disturbed => study[x.set].type = "rf" /\ study[x.set].scope = ActiveScope

SampleStill(x) ==
  /\ x.op = "sample" => x.set.rssi \/ x.set.snr
  /\ x.op = "patch sample" /\ x.id \notin disturbed =>
       Given(x.set.rssi, sample[x.id].rssi) \/ Given(x.set.snr, sample[x.id].snr)
  /\ x.op = "delete sample" => sample[x.id].state # "absent"

StillTrue(x) ==
  ProjectStill(x) /\ StudyStill(x) /\ PatchStill(x) /\ RunStill(x) /\ SampleStill(x)

\* A study, its project and its runs fit together.
StudyOK(s) ==
  /\ study[s].state = "active" /\ study[s].in \notin disturbed =>
       Fits(study[s].in, study[s].type)
  /\ study[s].state # "absent" => validate_study_type_scope(study[s].type, study[s].scope)
  /\ \A r \in TestRun \ disturbed :
       runStudy[r] = s => study[s].type = "rf" /\ study[s].scope = ActiveScope

SampleOK(x) == sample[x].state # "absent" => sample[x].rssi \/ sample[x].snr

TreeOK ==
  /\ \A s \in Study \ disturbed : StudyOK(s)
  /\ \A x \in Sample \ disturbed : SampleOK(x)

IInv ==
  /\ RowsOK
  /\ DOMAIN sending = Sender
  /\ disturbed \subseteq Project \cup Study \cup TestRun \cup Sample
  /\ \A q \in Sender : Carries(sending[q]) /\ StillTrue(sending[q])
  /\ Met
  /\ TreeOK

\* A statement changes only the rows its request is about, and removes none.
OnlyTouched(q) ==
  LET mine == sending[q].touches IN
  /\ \A p \in Project : project'[p] # project[p] => p \in mine
  /\ \A s \in Study : study'[s] # study[s] =>
       s \in mine /\ (s \notin disturbed => study'[s].in \in mine)
  /\ \A r \in TestRun : runStudy'[r] # runStudy[r] => runStudy'[r] \in mine
  /\ \A x \in Sample : sample'[x] # sample[x] => x \in mine
  /\ \A s \in Study : study[s].state # "absent" => study'[s].state # "absent"
  /\ \A x \in Sample : sample[x].state # "absent" => sample'[x].state # "absent"

-----------------------------------------------------------------------------
(* The statements *)

LEMMA CreateProjectWrites ==
  ASSUME IInv, NEW q \in Sender, sending[q].op = "project", UNCHANGED disturbed,
         project' = IF project[sending[q].id].state = "absent"
                    THEN [project EXCEPT ![sending[q].id] = sending[q].set] ELSE project,
         UNCHANGED <<study, runStudy, sample>>
  PROVE  RowsOK' /\ TreeOK' /\ OnlyTouched(q)
<1> DEFINE i == sending[q].id
<1>1. i \in Project /\ sending[q].set \in Projects /\ i \in sending[q].touches
  BY DEF IInv, Carries
<1>2. project \in [Project -> Projects]
  BY DEF IInv, RowsOK
<1>3. project' \in [Project -> Projects]
  BY <1>1, <1>2
<1>4. \A p \in Project : project'[p] # project[p] => p = i /\ project[p].state = "absent"
  BY <1>1, <1>2
<1> HIDE DEF i
<1>5. RowsOK'
  BY <1>3 DEF IInv, RowsOK
<1>6. ASSUME NEW s \in Study \ disturbed  PROVE StudyOK(s)'
  <2>1. study[s].state = "active" /\ study[s].in \notin disturbed =>
          study[s].in \in Project /\ project'[study[s].in] = project[study[s].in]
    BY <1>4 DEF IInv, RowsOK, TreeOK, StudyOK, Fits, project_row
  <2> QED  BY <2>1 DEF IInv, TreeOK, StudyOK, Fits, project_row,
                       validate_project_study_type, validate_study_type_scope
<1>7. TreeOK'
  BY <1>6 DEF IInv, TreeOK, SampleOK
<1>8. OnlyTouched(q)
  BY <1>1, <1>4 DEF OnlyTouched, i
<1> QED  BY <1>5, <1>7, <1>8

LEMMA ProjectTypeWrites ==
  ASSUME IInv, NEW q \in Sender, sending[q].op = "project type", UNCHANGED disturbed,
         project' = [project EXCEPT ![sending[q].id].type = sending[q].set.type],
         UNCHANGED <<study, runStudy, sample>>
  PROVE  RowsOK' /\ TreeOK' /\ OnlyTouched(q)
<1> DEFINE i == sending[q].id
           new == [project[i] EXCEPT !.type = sending[q].set.type]
<1>1. i \in Project /\ sending[q].set.type \in ProjectType /\ i \in sending[q].touches
  BY DEF IInv, Carries
<1>2. project \in [Project -> Projects]
  BY DEF IInv, RowsOK
<1>3. new \in Projects /\ new.state = project[i].state /\ new.type = sending[q].set.type
  <2>1. project[i] \in Projects
    BY <1>1, <1>2
  <2> HIDE DEF i
  <2> QED  BY <1>1, <2>1 DEF Projects
<1>4. project' = [project EXCEPT ![i] = new]
  OBVIOUS
<1> HIDE DEF new
<1>5. project' \in [Project -> Projects]
  BY <1>1, <1>2, <1>3, <1>4
<1>6. \A p \in Project : project'[p] = IF p = i THEN new ELSE project[p]
  BY <1>1, <1>2, <1>4
<1>7. RowsOK'
  BY <1>5 DEF IInv, RowsOK
<1>8. ASSUME NEW s \in Study \ disturbed  PROVE StudyOK(s)'
  <2>1. StudyOK(s)
    BY DEF IInv, TreeOK
  <2>2. ASSUME study[s].state = "active", study[s].in \notin disturbed
        PROVE  Fits(study[s].in, study[s].type)'
    <3>1. study[s].in \in Project /\ Fits(study[s].in, study[s].type)
      BY <2>1, <2>2 DEF IInv, RowsOK, StudyOK
    <3>2. study[s].in = i => sending[q].set.type \in {"mixed", study[s].type}
      BY <2>2 DEF IInv, StillTrue, ProjectStill
    <3> QED  BY <1>3, <1>6, <3>1, <3>2 DEF Fits, project_row, validate_project_study_type
  <2> QED  BY <2>1, <2>2 DEF StudyOK, validate_study_type_scope
<1>9. TreeOK'
  BY <1>8 DEF IInv, TreeOK, SampleOK
<1>10. OnlyTouched(q)
  BY <1>1, <1>6 DEF OnlyTouched
<1> QED  BY <1>7, <1>9, <1>10

LEMMA DeleteProjectWrites ==
  ASSUME IInv, NEW q \in Sender, sending[q].op = "delete project", UNCHANGED disturbed,
         project' = [project EXCEPT ![sending[q].id].state = "deleted"],
         UNCHANGED <<study, runStudy, sample>>
  PROVE  RowsOK' /\ TreeOK' /\ OnlyTouched(q)
<1> DEFINE i == sending[q].id
           new == [project[i] EXCEPT !.state = "deleted"]
<1>1. i \in Project /\ i \in sending[q].touches
  BY DEF IInv, Carries
<1>2. project \in [Project -> Projects]
  BY DEF IInv, RowsOK
<1>3. new \in Projects
  <2>1. project[i] \in Projects
    BY <1>1, <1>2
  <2> HIDE DEF i
  <2> QED  BY <2>1 DEF Projects
<1>4. project' = [project EXCEPT ![i] = new]
  OBVIOUS
<1> HIDE DEF new
<1>5. project' \in [Project -> Projects]
  BY <1>1, <1>2, <1>3, <1>4
<1>6. \A p \in Project : p # i => project'[p] = project[p]
  BY <1>1, <1>2, <1>4
<1>7. RowsOK'
  BY <1>5 DEF IInv, RowsOK
<1>8. ASSUME NEW s \in Study \ disturbed  PROVE StudyOK(s)'
  <2>1. StudyOK(s)
    BY DEF IInv, TreeOK
  <2>2. ASSUME study[s].state = "active", study[s].in \notin disturbed
        PROVE  Fits(study[s].in, study[s].type)'
    <3>1. study[s].in \in Project /\ Fits(study[s].in, study[s].type)
      BY <2>1, <2>2 DEF IInv, RowsOK, StudyOK
    <3>2. study[s].in # i
      BY <2>2 DEF IInv, StillTrue, ProjectStill
    <3> QED  BY <1>6, <3>1, <3>2 DEF Fits, project_row, validate_project_study_type
  <2> QED  BY <2>1, <2>2 DEF StudyOK, validate_study_type_scope
<1>9. TreeOK'
  BY <1>8 DEF IInv, TreeOK, SampleOK
<1>10. OnlyTouched(q)
  BY <1>1, <1>6 DEF OnlyTouched
<1> QED  BY <1>7, <1>9, <1>10

LEMMA CreateStudyWrites ==
  ASSUME IInv, NEW q \in Sender, sending[q].op = "study", UNCHANGED disturbed,
         study' = IF study[sending[q].id].state = "absent"
                  THEN [study EXCEPT ![sending[q].id] = sending[q].set] ELSE study,
         UNCHANGED <<project, runStudy, sample>>
  PROVE  RowsOK' /\ TreeOK' /\ OnlyTouched(q)
<1> DEFINE i == sending[q].id
           new == sending[q].set
<1>1. /\ i \in Study /\ i \in sending[q].touches
      /\ new \in Studies /\ new.state = "active"
      /\ new.in \in Project /\ new.in \in sending[q].touches
  BY DEF IInv, Carries
<1>2. study \in [Study -> Studies]
  BY DEF IInv, RowsOK
<1>3. study' \in [Study -> Studies]
  BY <1>1, <1>2
<1>4. \A s \in Study : study'[s] # study[s] =>
        s = i /\ study[s].state = "absent" /\ study'[s] = new
  BY <1>1, <1>2
<1>5. /\ new.in \notin disturbed => Fits(new.in, new.type)
      /\ validate_study_type_scope(new.type, new.scope)
  BY DEF IInv, StillTrue, StudyStill
<1>6. \A s \in Study, r \in TestRun : runStudy[r] = s => study'[s] = study[s]
  BY <1>4 DEF IInv, RowsOK
<1> HIDE DEF i, new
<1>7. RowsOK'
  BY <1>1, <1>3, <1>4 DEF IInv, RowsOK
<1>8. ASSUME NEW s \in Study \ disturbed  PROVE StudyOK(s)'
  <2>1. CASE study'[s] = study[s]
    BY <2>1 DEF IInv, TreeOK, StudyOK, Fits, project_row, validate_project_study_type,
                validate_study_type_scope
  <2>2. CASE study'[s] # study[s]
    <3>1. \A r \in TestRun : runStudy[r] # s
      BY <1>6, <2>2
    <3> QED  BY <1>4, <1>5, <2>2, <3>1 DEF StudyOK, Fits, project_row,
                  validate_project_study_type, validate_study_type_scope
  <2> QED  BY <2>1, <2>2
<1>9. TreeOK'
  BY <1>8 DEF IInv, TreeOK, SampleOK
<1>10. OnlyTouched(q)
  BY <1>1, <1>4 DEF OnlyTouched, i
<1> QED  BY <1>7, <1>9, <1>10

LEMMA PatchStudyWrites ==
  ASSUME IInv, NEW q \in Sender, sending[q].op = "patch study", UNCHANGED disturbed,
         study' = [study EXCEPT ![sending[q].id] =
                                  AsPatched(study[sending[q].id], sending[q].set)],
         UNCHANGED <<project, runStudy, sample>>
  PROVE  RowsOK' /\ TreeOK' /\ OnlyTouched(q)
<1> DEFINE i == sending[q].id
           to == sending[q].set
           new == AsPatched(study[i], to)
<1>1. /\ i \in Study /\ i \in sending[q].touches /\ to \in Patches
      /\ to.in \in sending[q].touches \cup {Keep}
  BY DEF IInv, Carries
<1>2. study \in [Study -> Studies]
  BY DEF IInv, RowsOK
<1>3. study[i].state # "absent" /\ study[i].in \in Project
  BY <1>1 DEF IInv, RowsOK, StillTrue, PatchStill, PatchFits
<1>4. /\ new \in Studies /\ new.state # "absent" /\ new.in \in Project
      /\ new.in \in {to.in, study[i].in}
      /\ to.in = Keep => new.in = study[i].in
  BY <1>1, <1>2, <1>3 DEF AsPatched, Given, Patches, Studies
<1>5. i \notin disturbed =>
        /\ study[i].in \in sending[q].touches
        /\ new.in \notin disturbed => Fits(new.in, new.type)
        /\ validate_study_type_scope(new.type, new.scope)
        /\ \A r \in TestRun \ disturbed : runStudy[r] = i =>
             new.type = study[i].type /\ new.scope = study[i].scope
  BY DEF IInv, StillTrue, PatchStill, PatchFits
<1>6. study' = [study EXCEPT ![i] = new]
  OBVIOUS
<1> HIDE DEF new
<1>7. study' \in [Study -> Studies] /\ study'[i] = new
      /\ \A s \in Study : s # i => study'[s] = study[s]
  BY <1>1, <1>2, <1>4, <1>6
<1> HIDE DEF i, to
<1>8. RowsOK'
  BY <1>3, <1>4, <1>7 DEF IInv, RowsOK
<1>9. ASSUME NEW s \in Study \ disturbed  PROVE StudyOK(s)'
  <2>1. StudyOK(s)
    BY DEF IInv, TreeOK
  <2>2. CASE s = i
    BY <1>5, <1>7, <2>1, <2>2 DEF StudyOK, Fits, project_row, validate_project_study_type,
                                  validate_study_type_scope
  <2>3. CASE s # i
    BY <1>7, <2>1, <2>3 DEF StudyOK, Fits, project_row, validate_project_study_type,
                            validate_study_type_scope
  <2> QED  BY <2>2, <2>3
<1>10. TreeOK'
  BY <1>9 DEF IInv, TreeOK, SampleOK
<1>11. new.in \in sending[q].touches \/ i \in disturbed
  BY <1>1, <1>4, <1>5
<1>12. \A s \in Study : study'[s] # study[s] =>
         s \in sending[q].touches /\ (s \notin disturbed => study'[s].in \in sending[q].touches)
  BY <1>1, <1>7, <1>11
<1>13. \A s \in Study : study[s].state # "absent" => study'[s].state # "absent"
  BY <1>4, <1>7
<1>14. OnlyTouched(q)
  BY <1>12, <1>13 DEF OnlyTouched
<1> QED  BY <1>8, <1>10, <1>14

LEMMA RunWrites ==
  ASSUME IInv, NEW q \in Sender, sending[q].op = "run", UNCHANGED disturbed,
         runStudy' = [runStudy EXCEPT ![sending[q].id] = sending[q].set],
         UNCHANGED <<project, study, sample>>
  PROVE  RowsOK' /\ TreeOK' /\ OnlyTouched(q)
<1> DEFINE i == sending[q].id
           to == sending[q].set
<1>1. i \in TestRun /\ to \in Study /\ to \in sending[q].touches
  BY DEF IInv, Carries
<1>2. /\ study[to].state # "absent"
      /\ to \notin disturbed => study[to].type = "rf" /\ study[to].scope = ActiveScope
  BY DEF IInv, StillTrue, RunStill
<1>3. runStudy \in [TestRun -> Study \cup {NoId}]
  BY DEF IInv, RowsOK
<1>4. runStudy' \in [TestRun -> Study \cup {NoId}] /\ runStudy'[i] = to
      /\ \A r \in TestRun : r # i => runStudy'[r] = runStudy[r]
  BY <1>1, <1>3
<1> HIDE DEF i, to
<1>5. RowsOK'
  BY <1>2, <1>4 DEF IInv, RowsOK
<1>6. ASSUME NEW s \in Study \ disturbed  PROVE StudyOK(s)'
  <2>1. StudyOK(s)
    BY DEF IInv, TreeOK
  <2> QED  BY <1>2, <1>4, <2>1 DEF StudyOK, Fits, project_row, validate_project_study_type,
                                   validate_study_type_scope
<1>7. TreeOK'
  BY <1>6 DEF IInv, TreeOK, SampleOK
<1>8. OnlyTouched(q)
  BY <1>1, <1>4 DEF OnlyTouched
<1> QED  BY <1>5, <1>7, <1>8

LEMMA CreateSampleWrites ==
  ASSUME IInv, NEW q \in Sender, sending[q].op = "sample", UNCHANGED disturbed,
         sample' = IF sample[sending[q].id].state = "absent"
                   THEN [sample EXCEPT ![sending[q].id] = sending[q].set] ELSE sample,
         UNCHANGED <<project, study, runStudy>>
  PROVE  RowsOK' /\ TreeOK' /\ OnlyTouched(q)
<1> DEFINE i == sending[q].id
           new == sending[q].set
<1>1. /\ i \in Sample /\ i \in sending[q].touches
      /\ new \in Samples /\ new.state = "active" /\ new.in \in Study
  BY DEF IInv, Carries
<1>2. new.rssi \/ new.snr
  BY DEF IInv, StillTrue, SampleStill
<1>3. sample \in [Sample -> Samples]
  BY DEF IInv, RowsOK
<1>4. /\ sample' \in [Sample -> Samples]
      /\ \A x \in Sample : sample'[x] # sample[x] =>
           x = i /\ sample[x].state = "absent" /\ sample'[x] = new
  BY <1>1, <1>3
<1> HIDE DEF i, new
<1>5. RowsOK'
  BY <1>1, <1>4 DEF IInv, RowsOK
<1>6. TreeOK'
  <2>1. \A s \in Study \ disturbed : StudyOK(s)'
    BY DEF IInv, TreeOK, StudyOK, Fits, project_row, validate_project_study_type,
           validate_study_type_scope
  <2>2. \A x \in Sample \ disturbed : SampleOK(x)'
    BY <1>2, <1>4 DEF IInv, TreeOK, SampleOK
  <2> QED  BY <2>1, <2>2 DEF TreeOK
<1>7. OnlyTouched(q)
  BY <1>1, <1>4 DEF OnlyTouched
<1> QED  BY <1>5, <1>6, <1>7

LEMMA PatchSampleWrites ==
  ASSUME IInv, NEW q \in Sender, sending[q].op = "patch sample", UNCHANGED disturbed,
         sample' = [sample EXCEPT
                      ![sending[q].id].rssi =
                        Given(sending[q].set.rssi, sample[sending[q].id].rssi),
                      ![sending[q].id].snr =
                        Given(sending[q].set.snr, sample[sending[q].id].snr)],
         UNCHANGED <<project, study, runStudy>>
  PROVE  RowsOK' /\ TreeOK' /\ OnlyTouched(q)
<1> DEFINE i == sending[q].id
           rssi == Given(sending[q].set.rssi, sample[i].rssi)
           snr == Given(sending[q].set.snr, sample[i].snr)
           new == [sample[i] EXCEPT !.rssi = rssi, !.snr = snr]
<1>1. /\ i \in Sample /\ i \in sending[q].touches
      /\ sending[q].set.rssi \in BOOLEAN \cup {Keep}
      /\ sending[q].set.snr \in BOOLEAN \cup {Keep}
  BY DEF IInv, Carries
<1>2. i \notin disturbed => rssi \/ snr
  BY DEF IInv, StillTrue, SampleStill
<1>3. sample \in [Sample -> Samples]
  BY DEF IInv, RowsOK
<1>4. rssi \in BOOLEAN /\ snr \in BOOLEAN
  BY <1>1, <1>3 DEF Given, Samples
<1>5. sample' = [sample EXCEPT ![i] = new]
  BY <1>1, <1>3
<1> HIDE DEF rssi, snr
<1>6. /\ new \in Samples /\ new.rssi = rssi /\ new.snr = snr
      /\ new.state = sample[i].state /\ new.in = sample[i].in
  <2>1. sample[i] \in Samples
    BY <1>1, <1>3
  <2> HIDE DEF i
  <2> QED  BY <1>4, <2>1 DEF Samples
<1> HIDE DEF new
<1>7. sample' \in [Sample -> Samples] /\ sample'[i] = new
      /\ \A x \in Sample : x # i => sample'[x] = sample[x]
  BY <1>1, <1>3, <1>5, <1>6
<1> HIDE DEF i
<1>8. RowsOK'
  BY <1>1, <1>6, <1>7 DEF IInv, RowsOK
<1>9. TreeOK'
  <2>1. \A s \in Study \ disturbed : StudyOK(s)'
    BY DEF IInv, TreeOK, StudyOK, Fits, project_row, validate_project_study_type,
           validate_study_type_scope
  <2>2. \A x \in Sample \ disturbed : SampleOK(x)'
    BY <1>2, <1>6, <1>7 DEF IInv, TreeOK, SampleOK
  <2> QED  BY <2>1, <2>2 DEF TreeOK
<1>10. OnlyTouched(q)
  BY <1>1, <1>6, <1>7 DEF OnlyTouched
<1> QED  BY <1>8, <1>9, <1>10

LEMMA DeleteSampleWrites ==
  ASSUME IInv, NEW q \in Sender, sending[q].op = "delete sample", UNCHANGED disturbed,
         sample' = [sample EXCEPT ![sending[q].id].state = "deleted"],
         UNCHANGED <<project, study, runStudy>>
  PROVE  RowsOK' /\ TreeOK' /\ OnlyTouched(q)
<1> DEFINE i == sending[q].id
           new == [sample[i] EXCEPT !.state = "deleted"]
<1>1. /\ i \in Sample /\ i \in sending[q].touches
  BY DEF IInv, Carries
<1>2. sample[i].state # "absent"
  BY DEF IInv, StillTrue, SampleStill
<1>3. sample \in [Sample -> Samples]
  BY DEF IInv, RowsOK
<1>4. sample' = [sample EXCEPT ![i] = new]
  OBVIOUS
<1>5. /\ new \in Samples /\ new.rssi = sample[i].rssi /\ new.snr = sample[i].snr
      /\ new.state = "deleted" /\ new.in = sample[i].in
  <2>1. sample[i] \in Samples
    BY <1>1, <1>3
  <2> HIDE DEF i
  <2> QED  BY <2>1 DEF Samples
<1> HIDE DEF new
<1>6. sample' \in [Sample -> Samples] /\ sample'[i] = new
      /\ \A x \in Sample : x # i => sample'[x] = sample[x]
  BY <1>1, <1>3, <1>4, <1>5
<1> HIDE DEF i
<1>7. RowsOK'
  BY <1>1, <1>2, <1>5, <1>6 DEF IInv, RowsOK
<1>8. TreeOK'
  <2>1. \A s \in Study \ disturbed : StudyOK(s)'
    BY DEF IInv, TreeOK, StudyOK, Fits, project_row, validate_project_study_type,
           validate_study_type_scope
  <2>2. \A x \in Sample \ disturbed : SampleOK(x)'
    BY <1>2, <1>5, <1>6 DEF IInv, TreeOK, SampleOK
  <2> QED  BY <2>1, <2>2 DEF TreeOK
<1>9. OnlyTouched(q)
  BY <1>1, <1>2, <1>5, <1>6 DEF OnlyTouched
<1> QED  BY <1>7, <1>8, <1>9

\* A row changed by one request is not one that another relied on.
LEMMA OthersKeep ==
  ASSUME IInv, NEW q \in Sender, NEW p \in Sender, p # q, UNCHANGED disturbed,
         sending'[p] = sending[p], RowsOK', OnlyTouched(q)
  PROVE  StillTrue(sending[p])'
<1> DEFINE x == sending[p]
<1>1. Carries(x) /\ StillTrue(x) /\ x' = x
  BY DEF IInv
<1>2. x.touches \cap sending[q].touches \subseteq disturbed
  BY DEF IInv, Met
<1>3. \A i \in Project \ disturbed : i \in x.touches => project'[i] = project[i]
  BY <1>2 DEF OnlyTouched
<1>4. \A s \in Study \ disturbed : s \in x.touches =>
        /\ study'[s] = study[s]
        /\ \A r \in TestRun : runStudy'[r] = s => runStudy[r] = s
  BY <1>2 DEF OnlyTouched
<1>5. \A i \in Sample \ disturbed : i \in x.touches => sample'[i] = sample[i]
  BY <1>2 DEF OnlyTouched
<1>6. ProjectStill(x)'
  <2> SUFFICES ASSUME x.op \in {"project type", "delete project"}, NEW s \in Study \ disturbed,
                      x.id \notin disturbed, study'[s].in = x.id, study'[s].state = "active"
               PROVE  x.op = "project type" /\ x.set.type \in {"mixed", study'[s].type}
    BY <1>1 DEF ProjectStill
  <2>1. x.id \in x.touches
    BY <1>1 DEF Carries
  <2>2. study'[s] = study[s]
    BY <1>2, <2>1 DEF OnlyTouched
  <2> QED  BY <1>1, <2>2 DEF StillTrue, ProjectStill
<1>7. StudyStill(x)'
  <2>1. x.op = "study" => x.set.in \in Project /\ x.set.in \in x.touches
    BY <1>1 DEF Carries
  <2> QED  BY <1>1, <1>3, <2>1 DEF StillTrue, StudyStill, Fits, project_row,
                         validate_project_study_type, validate_study_type_scope
<1>8. PatchStill(x)'
  <2> SUFFICES ASSUME x.op = "patch study"
               PROVE  /\ study'[x.id].state # "absent"
                      /\ x.id \notin disturbed => PatchFits(x, AsPatched(study[x.id], x.set))'
    BY <1>1 DEF PatchStill
  <2> DEFINE to == AsPatched(study[x.id], x.set)
  <2>1. /\ x.id \in Study /\ x.id \in x.touches /\ x.set \in Patches
        /\ x.set.in \in x.touches \cup {Keep}
    BY <1>1 DEF Carries
  <2>2. study[x.id].state # "absent" /\ study[x.id].in \in Project
    BY <1>1, <2>1 DEF IInv, RowsOK, StillTrue, PatchStill
  <2>3. study'[x.id].state # "absent"
    BY <2>1, <2>2 DEF OnlyTouched
  <2>4. ASSUME x.id \notin disturbed
        PROVE  PatchFits(x, to)'
    <3>1. PatchFits(x, to)
      BY <1>1, <2>4 DEF StillTrue, PatchStill
    <3>2. /\ study'[x.id] = study[x.id]
          /\ \A r \in TestRun : runStudy'[r] = x.id => runStudy[r] = x.id
      BY <1>4, <2>1, <2>4
    <3>3. to.in \in Project /\ to.in \in x.touches
      BY <2>1, <2>2, <3>1 DEF AsPatched, Given, Patches, PatchFits
    <3>4. to' = to
      BY <1>1, <3>2 DEF AsPatched, Given
    <3> HIDE DEF to
    <3> QED  BY <1>1, <1>3, <3>1, <3>2, <3>3, <3>4 DEF PatchFits, Fits, project_row,
                  validate_project_study_type, validate_study_type_scope
  <2> QED  BY <2>3, <2>4
<1>9. RunStill(x)'
  <2>1. x.op = "run" => x.set \in Study /\ x.set \in x.touches
    BY <1>1 DEF Carries
  <2> QED  BY <1>1, <1>4, <2>1 DEF StillTrue, RunStill, OnlyTouched
<1>10. SampleStill(x)'
  <2>1. x.op \in {"patch sample", "delete sample"} => x.id \in Sample /\ x.id \in x.touches
    BY <1>1 DEF Carries
  <2>2. x.op = "patch sample" /\ x.id \notin disturbed => sample'[x.id] = sample[x.id]
    BY <1>5, <2>1
  <2>3. x.op = "delete sample" => sample'[x.id].state # "absent"
    BY <1>1, <2>1 DEF StillTrue, SampleStill, OnlyTouched
  <2> QED  BY <1>1, <2>2, <2>3 DEF StillTrue, SampleStill, Given
<1> QED  BY <1>6, <1>7, <1>8, <1>9, <1>10 DEF StillTrue

LEMMA WriteKeeps ==
  ASSUME IInv, NEW q \in Sender, Write(q)
  PROVE  IInv'
<1>1. UNCHANGED disturbed /\ sending' = [sending EXCEPT ![q] = NoRequest]
  BY DEF Write
<1>2. RowsOK' /\ TreeOK' /\ OnlyTouched(q)
  BY CreateProjectWrites, ProjectTypeWrites, DeleteProjectWrites, CreateStudyWrites,
     PatchStudyWrites, RunWrites, CreateSampleWrites, PatchSampleWrites, DeleteSampleWrites,
     ZenonT(60) DEF Write
<1>3. /\ DOMAIN sending' = Sender /\ sending'[q] = NoRequest
      /\ \A p \in Sender : p # q => sending'[p] = sending[p]
  BY <1>1 DEF IInv
<1>4. ASSUME NEW p \in Sender  PROVE Carries(sending[p])' /\ StillTrue(sending[p])'
  <2>1. CASE p = q
    <3>1. sending'[p].op = "none" /\ sending'[p].touches = {}
      BY <1>3, <2>1 DEF NoRequest
    <3>2. Carries(sending[p])'
      BY <3>1 DEF Carries
    <3>3. StillTrue(sending[p])'
      BY <3>1 DEF StillTrue, ProjectStill, StudyStill, PatchStill, RunStill, SampleStill
    <3> QED  BY <3>2, <3>3
  <2>2. CASE p # q
    <3>1. StillTrue(sending[p])'
      BY <1>1, <1>2, <1>3, <2>2, OthersKeep
    <3>2. Carries(sending[p])'
      BY <1>3, <2>2 DEF IInv, Carries
    <3> QED  BY <3>1, <3>2
  <2> QED  BY <2>1, <2>2
<1>5. Met'
  BY <1>1, <1>3 DEF IInv, Met, NoRequest
<1> QED  BY <1>1, <1>2, <1>3, <1>4, <1>5 DEF IInv

-----------------------------------------------------------------------------
(* The checks *)

\* What holds of a request while the rows stay as they are holds still.
LEMMA StillAsRowsStay ==
  ASSUME NEW p \in Sender, NEW x, sending'[p] = x, StillTrue(x), UNCHANGED tree,
         disturbed \subseteq disturbed'
  PROVE  StillTrue(sending[p])'
<1>1. ProjectStill(sending[p])'
  BY DEF tree, StillTrue, ProjectStill
<1>2. StudyStill(sending[p])'
  BY DEF tree, StillTrue, StudyStill, Fits, project_row, validate_project_study_type,
         validate_study_type_scope
<1>3. PatchStill(sending[p])'
  BY DEF tree, StillTrue, PatchStill, PatchFits, AsPatched, Given, Fits, project_row,
         validate_project_study_type, validate_study_type_scope
<1>4. RunStill(sending[p])' /\ SampleStill(sending[p])'
  BY DEF tree, StillTrue, RunStill, SampleStill, Given
<1> QED  BY <1>1, <1>2, <1>3, <1>4 DEF StillTrue

LEMMA PlanKeeps ==
  ASSUME IInv, NEW q \in Sender, NEW op, NEW id, NEW set, NEW touches,
         Plan(q, op, id, set, touches),
         Carries([op |-> op, id |-> id, set |-> set, touches |-> touches]),
         StillTrue([op |-> op, id |-> id, set |-> set, touches |-> touches])
  PROVE  IInv'
<1> DEFINE x == [op |-> op, id |-> id, set |-> set, touches |-> touches]
<1>1. /\ sending[q] = NoRequest /\ sending' = [sending EXCEPT ![q] = x]
      /\ disturbed' = disturbed \cup UNION {sending[p].touches \cap touches : p \in Sender}
      /\ UNCHANGED tree
  BY DEF Plan
<1>2. Carries(x) /\ StillTrue(x) /\ x.touches = touches
  OBVIOUS
<1> HIDE DEF x
<1>3. /\ DOMAIN sending' = Sender /\ sending'[q] = x
      /\ \A p \in Sender : p # q => sending'[p] = sending[p]
  BY <1>1 DEF IInv
<1>4. disturbed \subseteq disturbed'
      /\ disturbed' \subseteq Project \cup Study \cup TestRun \cup Sample
  BY <1>1, <1>2 DEF IInv, Carries
<1>5. ASSUME NEW p \in Sender  PROVE Carries(sending[p])' /\ StillTrue(sending[p])'
  <2>1. CASE p = q
    <3>1. StillTrue(sending[p])'
      BY <1>1, <1>2, <1>3, <1>4, <2>1, StillAsRowsStay
    <3>2. Carries(sending[p])'
      BY <1>2, <1>3, <2>1 DEF Carries
    <3> QED  BY <3>1, <3>2
  <2>2. CASE p # q
    <3>1. StillTrue(sending[p])'
      BY <1>1, <1>3, <1>4, <2>2, StillAsRowsStay DEF IInv
    <3>2. Carries(sending[p])'
      BY <1>3, <2>2 DEF IInv, Carries
    <3> QED  BY <3>1, <3>2
  <2> QED  BY <2>1, <2>2
<1>6. Met'
  <2> SUFFICES ASSUME NEW p \in Sender, NEW r \in Sender, p # r
               PROVE  sending'[p].touches \cap sending'[r].touches \subseteq disturbed'
    BY DEF Met
  <2>1. \A y \in Sender : sending[y].touches \cap touches \subseteq disturbed'
    BY <1>1
  <2> QED  BY <1>2, <1>3, <1>4, <2>1 DEF IInv, Met
<1>7. RowsOK'
  BY <1>1 DEF IInv, RowsOK, tree
<1>8. TreeOK'
  <2>1. ASSUME NEW s \in Study, s \notin disturbed'  PROVE StudyOK(s)'
    BY <1>1, <1>4, <2>1 DEF IInv, TreeOK, StudyOK, Fits, project_row,
       validate_project_study_type, validate_study_type_scope, tree
  <2>2. ASSUME NEW y \in Sample, y \notin disturbed'  PROVE SampleOK(y)'
    BY <1>1, <1>4, <2>2 DEF IInv, TreeOK, SampleOK, tree
  <2> QED  BY <2>1, <2>2 DEF TreeOK
<1> QED  BY <1>3, <1>4, <1>5, <1>6, <1>7, <1>8 DEF IInv

LEMMA CreateProjectKeeps ==
  ASSUME IInv, NEW q \in Sender, create_project(q)
  PROVE  IInv'
<1>1. PICK p \in Project, type \in ProjectType :
        /\ project[p].state = "absent"
        /\ Plan(q, "project", p, [state |-> "active", type |-> type], {p})
  BY DEF create_project
<1> DEFINE x == [op |-> "project", id |-> p,
                 set |-> [state |-> "active", type |-> type],
                 touches |-> {p}]
<1>2. /\ x.op = "project" /\ x.id = p
      /\ x.set = [state |-> "active", type |-> type]
      /\ x.touches = {p}
  OBVIOUS
<1> HIDE DEF x
<1>8. Carries(x)
  BY <1>1, <1>2 DEF Carries, Projects
<1>9. StillTrue(x)
  BY <1>2 DEF StillTrue, ProjectStill, StudyStill, PatchStill,
                        RunStill, SampleStill
<1> QED  BY <1>1, <1>8, <1>9, PlanKeeps DEF x

LEMMA UpdateProjectKeeps ==
  ASSUME IInv, NEW q \in Sender, update_project(q)
  PROVE  IInv'
<1>1. PICK p \in Project, type \in ProjectType :
        /\ project_row(p)
        /\ type # project[p].type => project_study_count(p) = 0 \/ type = "mixed"
        /\ Plan(q, "project type", p, [type |-> type], {p})
  BY DEF update_project
<1> DEFINE x == [op |-> "project type", id |-> p, set |-> [type |-> type], touches |-> {p}]
<1>2. x.op = "project type" /\ x.id = p /\ x.set.type = type /\ x.touches = {p}
  OBVIOUS
<1> HIDE DEF x
<1>3. project_study_count(p) = 0 => \A s \in Study : study[s].in # p
  <2>1. IsFiniteSet({s \in Study : study[s].in = p})
    BY TreeAssumption, FS_Subset
  <2> QED  BY <2>1, FS_EmptySet DEF project_study_count
<1>4. ASSUME NEW s \in Study \ disturbed, p \notin disturbed, study[s].in = p,
             study[s].state = "active"
      PROVE  type \in {"mixed", study[s].type}
  <2>1. Fits(p, study[s].type)
    BY <1>4 DEF IInv, TreeOK, StudyOK
  <2> QED  BY <1>1, <1>3, <1>4, <2>1 DEF Fits, validate_project_study_type
<1>8. Carries(x)
  BY <1>1, <1>2 DEF Carries
<1>9. StillTrue(x)
  BY <1>2, <1>4 DEF StillTrue, ProjectStill, StudyStill, PatchStill,
                        RunStill, SampleStill
<1> QED  BY <1>1, <1>8, <1>9, PlanKeeps DEF x

LEMMA DeleteProjectKeeps ==
  ASSUME IInv, NEW q \in Sender, delete_project(q)
  PROVE  IInv'
<1>1. PICK p \in Project :
        /\ project_row(p) /\ ActiveStudies(p) = {}
        /\ Plan(q, "delete project", p, NoProject, {p})
  BY DEF delete_project
<1> DEFINE x == [op |-> "delete project", id |-> p, set |-> NoProject, touches |-> {p}]
<1>2. x.op = "delete project" /\ x.id = p /\ x.set = NoProject /\ x.touches = {p}
  OBVIOUS
<1> HIDE DEF x
<1>3. \A s \in Study : study[s].in = p => study[s].state # "active"
  BY <1>1 DEF ActiveStudies
<1>8. Carries(x)
  BY <1>1, <1>2 DEF Carries
<1>9. StillTrue(x)
  BY <1>2, <1>3 DEF StillTrue, ProjectStill, StudyStill, PatchStill,
                        RunStill, SampleStill
<1> QED  BY <1>1, <1>8, <1>9, PlanKeeps DEF x

LEMMA CreateProjectStudyKeeps ==
  ASSUME IInv, NEW q \in Sender, create_project_study(q)
  PROVE  IInv'
<1>1. PICK p \in Project, s \in Study, type \in StudyType, scope \in Scope :
        /\ project_row(p) /\ study[s].state = "absent"
        /\ validate_project_study_type(p, type) /\ validate_study_type_scope(type, scope)
        /\ Plan(q, "study", s,
                [state |-> "active", in |-> p, type |-> type, scope |-> scope],
                {p, s})
  BY DEF create_project_study
<1> DEFINE x == [op |-> "study", id |-> s,
                 set |-> [state |-> "active", in |-> p, type |-> type, scope |-> scope],
                 touches |-> {p, s}]
<1>2. /\ x.op = "study" /\ x.id = s
      /\ x.set = [state |-> "active", in |-> p, type |-> type, scope |-> scope]
      /\ x.touches = {p, s}
  OBVIOUS
<1> HIDE DEF x
<1>8. Carries(x)
  BY <1>1, <1>2 DEF Carries, Studies
<1>9. StillTrue(x)
  BY <1>2, <1>1 DEF StillTrue, ProjectStill, StudyStill, PatchStill,
                        RunStill, SampleStill, Fits
<1> QED  BY <1>1, <1>8, <1>9, PlanKeeps DEF x

LEMMA UpdateStudyKeeps ==
  ASSUME IInv, NEW q \in Sender, update_study(q)
  PROVE  IInv'
<1>1. PICK s \in Study, in \in Project \cup {Keep}, type \in StudyType \cup {Keep},
           scope \in Scope \cup {Keep}, state \in {"active", "deleted", Keep} :
        /\ study_row(s)
        /\ PatchAccepted(s, [in |-> in, type |-> type, scope |-> scope, state |-> state])
        /\ Plan(q, "patch study", s,
                [in |-> in, type |-> type, scope |-> scope, state |-> state],
                {s, study[s].in} \cup ({in} \ {Keep}))
  BY DEF update_study
<1> DEFINE x == [op |-> "patch study", id |-> s,
                 set |-> [in |-> in, type |-> type, scope |-> scope, state |-> state],
                 touches |-> {s, study[s].in} \cup ({in} \ {Keep})]
<1> DEFINE set == [in |-> in, type |-> type, scope |-> scope, state |-> state]
           to == AsPatched(study[s], set)
<1>2. /\ x.op = "patch study" /\ x.id = s /\ x.touches = {s, study[s].in} \cup ({in} \ {Keep})
      /\ x.set = set /\ set \in Patches /\ set.in = in
  BY DEF Patches
<1> HIDE DEF x
<1>3. study[s].state = "active"
  BY <1>1 DEF study_row
<1>4. study[s].in \in Project
  BY <1>3 DEF IInv, RowsOK
<1>5. /\ Fits(to.in, to.type) /\ validate_study_type_scope(to.type, to.scope)
      /\ study_run_count(s) > 0 => to.type = study[s].type /\ to.scope = study[s].scope
  BY <1>1 DEF PatchAccepted, AsPatched, Fits
<1>6. ASSUME NEW r \in TestRun, runStudy[r] = s
      PROVE  study_run_count(s) > 0
  <2>1. IsFiniteSet({t \in TestRun : runStudy[t] = s})
    BY TreeAssumption, FS_Subset
  <2>2. {t \in TestRun : runStudy[t] = s} # {}
    BY <1>6
  <2> QED  BY <2>1, <2>2, FS_EmptySet, FS_CardinalityType DEF study_run_count
<1>7. PatchFits(x, to)
  BY <1>2, <1>5, <1>6 DEF PatchFits
<1> HIDE DEF set, to
<1>8. Carries(x)
  BY <1>1, <1>2, <1>4 DEF Carries
<1>9. StillTrue(x)
  BY <1>2, <1>3, <1>7 DEF StillTrue, ProjectStill, StudyStill, PatchStill,
                        RunStill, SampleStill, to
<1> QED  BY <1>1, <1>8, <1>9, PlanKeeps DEF x

LEMMA DeleteStudyKeeps ==
  ASSUME IInv, NEW q \in Sender, delete_study(q)
  PROVE  IInv'
<1>1. PICK s \in Study :
        /\ study_row(s)
        /\ Plan(q, "patch study", s,
                [in |-> Keep, type |-> Keep, scope |-> Keep, state |-> "deleted"],
                {s, study[s].in})
  BY DEF delete_study
<1> DEFINE x == [op |-> "patch study", id |-> s,
                 set |-> [in |-> Keep, type |-> Keep, scope |-> Keep, state |-> "deleted"],
                 touches |-> {s, study[s].in}]
<1> DEFINE set == [in |-> Keep, type |-> Keep, scope |-> Keep, state |-> "deleted"]
           to == AsPatched(study[s], set)
<1>2. /\ x.op = "patch study" /\ x.id = s /\ x.touches = {s, study[s].in}
      /\ x.set = set /\ set \in Patches /\ set.in = Keep
  BY DEF Patches
<1> HIDE DEF x
<1>3. study[s].state = "active"
  BY <1>1 DEF study_row
<1>4. study[s].in \in Project
  BY <1>3 DEF IInv, RowsOK
<1>5. to.in = study[s].in /\ to.type = study[s].type /\ to.scope = study[s].scope
  BY DEF AsPatched, Given
<1>6. s \notin disturbed => StudyOK(s)
  BY DEF IInv, TreeOK
<1>7. s \notin disturbed => PatchFits(x, to)
  BY <1>2, <1>3, <1>5, <1>6 DEF PatchFits, StudyOK
<1> HIDE DEF set, to
<1>8. Carries(x)
  BY <1>1, <1>2, <1>4 DEF Carries
<1>9. StillTrue(x)
  BY <1>2, <1>3, <1>7 DEF StillTrue, ProjectStill, StudyStill, PatchStill,
                        RunStill, SampleStill, to
<1> QED  BY <1>1, <1>8, <1>9, PlanKeeps DEF x

LEMMA AttachRunKeeps ==
  ASSUME IInv, NEW q \in Sender, attach_run(q)
  PROVE  IInv'
<1>1. PICK r \in TestRun, s \in Study :
        /\ validate_rf_study_id(s)
        /\ Plan(q, "run", r, s, {r, s, study[s].in})
  BY DEF attach_run
<1> DEFINE x == [op |-> "run", id |-> r, set |-> s, touches |-> {r, s, study[s].in}]
<1>2. x.op = "run" /\ x.id = r /\ x.set = s /\ x.touches = {r, s, study[s].in}
  OBVIOUS
<1> HIDE DEF x
<1>3. study[s].state = "active" /\ study[s].type = "rf" /\ study[s].scope = ActiveScope
  BY <1>1 DEF validate_rf_study_id, study_row
<1>4. study[s].in \in Project
  BY <1>3 DEF IInv, RowsOK
<1>8. Carries(x)
  BY <1>1, <1>2, <1>4 DEF Carries
<1>9. StillTrue(x)
  BY <1>2, <1>3 DEF StillTrue, ProjectStill, StudyStill, PatchStill,
                        RunStill, SampleStill
<1> QED  BY <1>1, <1>8, <1>9, PlanKeeps DEF x

LEMMA CreateStudySampleKeeps ==
  ASSUME IInv, NEW q \in Sender, create_study_sample(q)
  PROVE  IInv'
<1>1. PICK y \in Sample, s \in Study, m \in {{"rssi"}, {"snr"}, {"rssi", "snr"}} :
        /\ sample[y].state = "absent" /\ study_row(s)
        /\ Plan(q, "sample", y,
                [state |-> "active", in |-> s, rssi |-> "rssi" \in m, snr |-> "snr" \in m],
                {y, s})
  BY DEF create_study_sample
<1> DEFINE rssi == "rssi" \in m
           snr == "snr" \in m
           new == [state |-> "active", in |-> s, rssi |-> rssi, snr |-> snr]
           x == [op |-> "sample", id |-> y, set |-> new, touches |-> {y, s}]
<1>2. (rssi \/ snr) /\ rssi \in BOOLEAN /\ snr \in BOOLEAN
  BY <1>1
<1> HIDE DEF rssi, snr
<1>3. /\ new \in Samples /\ new.state = "active" /\ new.in = s
      /\ new.rssi = rssi /\ new.snr = snr
  BY <1>2 DEF Samples
<1> HIDE DEF new
<1>4. x.op = "sample" /\ x.id = y /\ x.set = new /\ x.touches = {y, s}
  OBVIOUS
<1> HIDE DEF x
<1>5. Carries(x)
  BY <1>1, <1>3, <1>4 DEF Carries
<1>6. new.rssi \/ new.snr
  BY <1>2, <1>3
<1>7. StillTrue(x)
  BY <1>4, <1>6 DEF StillTrue, ProjectStill, StudyStill, PatchStill, RunStill, SampleStill
<1> QED  BY <1>1, <1>5, <1>7, PlanKeeps DEF x, new, rssi, snr

LEMMA UpdateStudySampleKeeps ==
  ASSUME IInv, NEW q \in Sender, update_study_sample(q)
  PROVE  IInv'
<1>1. PICK y \in Sample, rssi \in BOOLEAN \cup {Keep}, snr \in BOOLEAN \cup {Keep} :
        /\ sample[y].state = "active" /\ study_row(sample[y].in)
        /\ Given(rssi, sample[y].rssi) = TRUE \/ Given(snr, sample[y].snr) = TRUE
        /\ Plan(q, "patch sample", y, [rssi |-> rssi, snr |-> snr], {y, sample[y].in})
  BY DEF update_study_sample
<1> DEFINE x == [op |-> "patch sample", id |-> y,
                 set |-> [rssi |-> rssi, snr |-> snr],
                 touches |-> {y, sample[y].in}]
<1>2. /\ x.op = "patch sample" /\ x.id = y
      /\ x.set.rssi = rssi /\ x.set.snr = snr
      /\ x.touches = {y, sample[y].in}
  OBVIOUS
<1> HIDE DEF x
<1>3. sample[y].in \in Study
  BY <1>1 DEF IInv, RowsOK
<1>8. Carries(x)
  BY <1>1, <1>2, <1>3 DEF Carries
<1>9. StillTrue(x)
  BY <1>2, <1>1 DEF StillTrue, ProjectStill, StudyStill, PatchStill,
                        RunStill, SampleStill
<1> QED  BY <1>1, <1>8, <1>9, PlanKeeps DEF x

LEMMA DeleteStudySampleKeeps ==
  ASSUME IInv, NEW q \in Sender, delete_study_sample(q)
  PROVE  IInv'
<1>1. PICK y \in Sample :
        /\ sample[y].state = "active" /\ study_row(sample[y].in)
        /\ Plan(q, "delete sample", y, NoSample, {y, sample[y].in})
  BY DEF delete_study_sample
<1> DEFINE x == [op |-> "delete sample", id |-> y,
                 set |-> NoSample,
                 touches |-> {y, sample[y].in}]
<1>2. /\ x.op = "delete sample" /\ x.id = y
      /\ x.set = NoSample
      /\ x.touches = {y, sample[y].in}
  OBVIOUS
<1> HIDE DEF x
<1>3. sample[y].in \in Study
  BY <1>1 DEF IInv, RowsOK
<1>8. Carries(x)
  BY <1>1, <1>2, <1>3 DEF Carries
<1>9. StillTrue(x)
  BY <1>2, <1>1 DEF StillTrue, ProjectStill, StudyStill, PatchStill,
                        RunStill, SampleStill
<1> QED  BY <1>1, <1>8, <1>9, PlanKeeps DEF x

-----------------------------------------------------------------------------
(* The invariant *)

LEMMA DropRunKeeps ==
  ASSUME IInv, NEW r \in TestRun, DropRun(r)
  PROVE  IInv'
<1>1. UNCHANGED <<project, study, sample, sending, disturbed>>
  BY DEF DropRun
<1>2. /\ runStudy' \in [TestRun -> Study \cup {NoId}]
      /\ \A t \in TestRun, s \in Study : runStudy'[t] = s => runStudy[t] = s
  BY TreeAssumption DEF DropRun, IInv, RowsOK
<1>3. RowsOK'
  BY <1>1, <1>2 DEF IInv, RowsOK
<1>4. ASSUME NEW q \in Sender  PROVE Carries(sending[q])' /\ StillTrue(sending[q])'
  <2>1. Carries(sending[q]) /\ StillTrue(sending[q])
    BY DEF IInv
  <2>2. Carries(sending[q])'
    BY <1>1, <2>1 DEF Carries
  <2>3. ProjectStill(sending[q])' /\ RunStill(sending[q])' /\ SampleStill(sending[q])'
    BY <1>1, <2>1 DEF StillTrue, ProjectStill, RunStill, SampleStill, Given
  <2>4. StudyStill(sending[q])'
    BY <1>1, <2>1 DEF StillTrue, StudyStill, Fits, project_row, validate_project_study_type,
                      validate_study_type_scope
  <2>5. sending[q].op = "patch study" => sending[q].id \in Study
    BY <2>1 DEF Carries
  <2>6. PatchStill(sending[q])'
    <3> DEFINE x == sending[q]
               to == AsPatched(study[x.id], x.set)
    <3>1. to' = to /\ x' = x
      BY <1>1 DEF AsPatched, Given
    <3> HIDE DEF to
    <3>2. PatchFits(x, to) /\ x.id \in Study => PatchFits(x, to)'
      BY <1>1, <1>2, <3>1 DEF PatchFits, Fits, project_row, validate_project_study_type,
                              validate_study_type_scope
    <3> QED  BY <1>1, <2>1, <2>5, <3>2 DEF StillTrue, PatchStill, to
  <2> QED  BY <2>2, <2>3, <2>4, <2>6 DEF StillTrue
<1>5. TreeOK'
  <2>1. ASSUME NEW s \in Study \ disturbed  PROVE StudyOK(s)'
    BY <1>1, <1>2 DEF IInv, TreeOK, StudyOK, Fits, project_row, validate_project_study_type,
                      validate_study_type_scope
  <2> QED  BY <1>1, <2>1 DEF IInv, TreeOK, SampleOK
<1> QED  BY <1>1, <1>3, <1>4, <1>5 DEF IInv, Met

THEOREM InvariantHolds == TreeSpec => []IInv
<1>1. TreeInit => IInv
  <2> SUFFICES ASSUME TreeInit  PROVE IInv
    OBVIOUS
  <2>1. RowsOK
    BY TreeAssumption DEF TreeInit, RowsOK, Projects, Studies, Samples, NoProject, NoStudy,
         NoSample, ProjectType, StudyType, Scope
  <2>2. \A q \in Sender : sending[q].op = "none" /\ sending[q].touches = {}
    BY DEF TreeInit, NoRequest
  <2>3. \A q \in Sender : Carries(sending[q])
    BY <2>2 DEF Carries
  <2>4. \A q \in Sender : StillTrue(sending[q])
    BY <2>2 DEF StillTrue, ProjectStill, StudyStill, PatchStill, RunStill, SampleStill
  <2>5. TreeOK
    BY TreeAssumption DEF TreeInit, TreeOK, StudyOK, SampleOK, NoStudy, NoSample
  <2>6. Met /\ DOMAIN sending = Sender /\ disturbed = {}
    BY <2>2 DEF TreeInit, Met
  <2> QED  BY <2>1, <2>3, <2>4, <2>5, <2>6 DEF IInv
<1>2. IInv /\ [TreeNext]_treeVars => IInv'
  <2> SUFFICES ASSUME IInv, [TreeNext]_treeVars  PROVE IInv'
    OBVIOUS
  <2>1. CASE TreeNext
    BY <2>1, CreateProjectKeeps, UpdateProjectKeeps, DeleteProjectKeeps,
       CreateProjectStudyKeeps, UpdateStudyKeeps, DeleteStudyKeeps, AttachRunKeeps,
       CreateStudySampleKeeps, UpdateStudySampleKeeps, DeleteStudySampleKeeps,
       WriteKeeps, DropRunKeeps, ZenonT(60) DEF TreeNext
  <2>2. CASE UNCHANGED treeVars
    <3>1. UNCHANGED <<tree, sending, disturbed>>
      BY <2>2 DEF treeVars, tree
    <3>2. ASSUME NEW q \in Sender  PROVE Carries(sending[q])' /\ StillTrue(sending[q])'
      <4>1. Carries(sending[q])'
        BY <3>1 DEF IInv, Carries
      <4>2. StillTrue(sending[q])'
        BY <3>1, StillAsRowsStay DEF IInv
      <4> QED  BY <4>1, <4>2
    <3>3. RowsOK' /\ Met' /\ DOMAIN sending' = Sender
      BY <3>1 DEF IInv, RowsOK, Met, tree
    <3>4. TreeOK'
      <4>1. ASSUME NEW s \in Study \ disturbed  PROVE StudyOK(s)'
        BY <3>1 DEF IInv, TreeOK, StudyOK, Fits, project_row, validate_project_study_type,
                    validate_study_type_scope, tree
      <4> QED  BY <3>1, <4>1 DEF IInv, TreeOK, SampleOK, tree
    <3> QED  BY <3>1, <3>2, <3>3, <3>4 DEF IInv
  <2> QED  BY <2>1, <2>2
<1> QED  BY <1>1, <1>2, PTL DEF TreeSpec

(* Rows keep their types, whatever order the requests come in.             *)
THEOREM TypeCorrect == TreeSpec => []TypeOK
<1>1. IInv => TypeOK
  BY DEF IInv, RowsOK, TypeOK, Projects, Studies, Samples
<1> QED  BY <1>1, InvariantHolds, PTL

(* Two requests may pass their checks before either writes; all the same, a *)
(* listed study that no two of them worked on at once, nor its project, is  *)
(* in a listed project that admits its type and has a scope of its type,    *)
(* its runs fit it, and a manual sample keeps a measurement (main.py        *)
(* 672-880, 1575-1930).                                                     *)
THEOREM TreeHoldsTogether == TreeSpec => []TreeIsConsistent
<1>1. IInv => TreeIsConsistent
  BY DEF IInv, TreeOK, StudyOK, SampleOK, Fits, TreeIsConsistent
<1> QED  BY <1>1, InvariantHolds, PTL
=============================================================================
