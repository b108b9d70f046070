----------------------- MODULE UploadFinalizer_proofs -----------------------
(***************************************************************************)
(* Theorems about UploadFinalizer.  The first part holds for any number of  *)
(* finalizations under way; the second needs that there is one at a time,   *)
(* which the trigger's flock provides as long as no scan outlives it.       *)
(***************************************************************************)
EXTENDS UploadFinalizer, TLAPS

USE DataAssumption

Evidence == [id : Nat, data : Data \cup {Torn}]

-----------------------------------------------------------------------------
(* Any number of finalizations.                                             *)

IncomingOK == \A n \in Name : incoming[n] <= Version(n)

Claimed == {"open", "copy", "recheck"}
Copied  == {"commit", "verify", "unlink", "done"}

\* What a finalization knows.  The copy it checks is the version whose magic
\* number it read, or that version or its inode is no longer the current one,
\* which the recheck notices.
JobOK(w) ==
  LET n == job[w].name IN
  /\ job[w].stage \in Claimed => job[w].ino \in 1 .. Version(n)
  /\ job[w].stage \in {"copy", "recheck"} =>
       /\ job[w].ver \in 1 .. Version(n)
       /\ uploads[n][job[w].ver] \in Container
  /\ job[w].stage = "recheck" =>
       \/ job[w].buf = uploads[n][job[w].ver]
       \/ incoming[n] # job[w].ino
       \/ Version(n) > job[w].ver
  /\ job[w].stage \in Copied =>
       /\ job[w].ver \in 1 .. Version(n)
       /\ job[w].buf = uploads[n][job[w].ver]
       /\ job[w].buf \in Offered(n) \cap Container

IInv ==
  /\ TypeOK
  /\ IncomingOK
  /\ EvidenceIsOneVersion
  /\ \A w \in Worker : JobOK(w)

\* A version is content the upload account offered.
LEMMA VersionIsNat == TypeOK => \A n \in Name : Version(n) \in Nat
<1>1. TypeOK => \A n \in Name : uploads[n] \in Seq(Data)
  BY DEF TypeOK
<1>2. QED
  BY <1>1 DEF Version

LEMMA VersionIsOffered ==
  ASSUME TypeOK, NEW n \in Name, NEW i \in 1 .. Version(n)
  PROVE  uploads[n][i] \in Offered(n) /\ uploads[n][i] \in Data
<1>1. uploads[n] \in Seq(Data)
  BY DEF TypeOK
<1>2. i \in DOMAIN uploads[n]
  BY <1>1 DEF Version
<1>3. uploads[n][i] \in Data
  BY <1>1, <1>2
<1>4. QED
  BY <1>2, <1>3 DEF Offered

\* An upload adds a version and keeps the earlier ones.
LEMMA UploadGrows ==
  ASSUME TypeOK, NEW n \in Name, NEW d \in Data, Upload(n, d)
  PROVE  /\ \A m \in Name : Version(m)' \in {Version(m), Version(m) + 1}
         /\ Version(n)' = Version(n) + 1
         /\ \A m \in Name : \A i \in 1 .. Version(m) :
              uploads'[m][i] = uploads[m][i]
         /\ \A m \in Name : Offered(m) \subseteq Offered(m)'
<1>1. \A m \in Name : uploads'[m] = IF m = n THEN Append(uploads[m], d)
                                            ELSE uploads[m]
  BY DEF TypeOK, Upload
<1>2. \A m \in Name : uploads[m] \in Seq(Data)
  BY DEF TypeOK
<1>3. \A m \in Name : Version(m) \in Nat
  BY <1>2 DEF Version
<1>4. \A m \in Name : Version(m)' = IF m = n THEN Version(m) + 1
                                             ELSE Version(m)
  <2>1. ASSUME NEW m \in Name, m = n PROVE Len(uploads'[m]) = Len(uploads[m]) + 1
    <3>1. uploads[m] \in Seq(Data)
      BY <1>2
    <3>2. Len(Append(uploads[m], d)) = Len(uploads[m]) + 1
      BY <3>1
    <3>3. QED
      BY <1>1, <2>1, <3>2
  <2>2. QED
    BY <1>1, <2>1 DEF Version
<1>5. ASSUME NEW m \in Name, NEW i \in 1 .. Version(m)
      PROVE  uploads'[m][i] = uploads[m][i]
  <2>1. uploads[m] \in Seq(Data) /\ i \in 1 .. Len(uploads[m])
    BY <1>2 DEF Version
  <2>2. Append(uploads[m], d)[i] = uploads[m][i]
    BY <2>1
  <2>3. QED
    BY <1>1, <2>2
<1>6. \A m \in Name : DOMAIN uploads[m] = 1 .. Version(m)
  BY <1>2 DEF Version
<1>7. \A m \in Name : DOMAIN uploads'[m] = 1 .. Version(m)'
  <2>1. ASSUME NEW m \in Name PROVE uploads'[m] \in Seq(Data)
    <3>1. uploads[m] \in Seq(Data)
      BY <1>2
    <3>2. Append(uploads[m], d) \in Seq(Data)
      BY <3>1
    <3>3. QED
      BY <1>1, <3>1, <3>2
  <2>2. QED
    BY <2>1 DEF Version
<1>8. \A m \in Name : Offered(m) \subseteq Offered(m)'
  <2> SUFFICES ASSUME NEW m \in Name, NEW x \in Offered(m)
               PROVE  x \in Offered(m)'
    OBVIOUS
  <2>1. PICK i \in 1 .. Version(m) : x = uploads[m][i]
    BY <1>6 DEF Offered
  <2>2. i \in 1 .. Version(m)'
    BY <1>3, <1>4
  <2>3. QED
    BY <1>5, <1>7, <2>1, <2>2 DEF Offered
<1>9. QED
  BY <1>4, <1>5, <1>8

\* A step that leaves v's finalization and the uploads alone, and at most
\* removes files from incoming/, keeps what v knows.
LEMMA OthersKeep ==
  ASSUME TypeOK, NEW v \in Worker, JobOK(v), job'[v] = job[v],
         uploads' = uploads,
         \A n \in Name : incoming'[n] \in {incoming[n], 0}
  PROVE  JobOK(v)'
<1>1. CASE job[v].stage = "idle"
  BY <1>1 DEF JobOK, Claimed, Copied
<1>2. CASE job[v].stage # "idle"
  <2>1. job[v].name \in Name
    BY <1>2 DEF TypeOK, At
  <2>2. job[v].stage \in Claimed => job[v].ino # 0
    BY DEF JobOK
  <2>3. QED
    BY <2>1, <2>2 DEF JobOK, Claimed, Version, Offered
<1>3. QED
  BY <1>1, <1>2

LEMMA InitIInv == FsInit => IInv
<1> SUFFICES ASSUME FsInit PROVE IInv
  OBVIOUS
<1>1. TypeOK
  <2>1. uploads \in [Name -> Seq(Data)]
    BY DEF FsInit
  <2>2. job \in [Worker -> [stage : Stages, name : Name \cup {None}, ino : Nat,
                           ver : Nat, buf : Data \cup {Torn},
                           why : Failures \cup {""}]]
    BY DEF FsInit, NoJob, Stages
  <2>3. QED
    BY <2>1, <2>2 DEF FsInit, TypeOK, NoJob, At
<1>2. IncomingOK
  BY DEF FsInit, IncomingOK, Version
<1>3. EvidenceIsOneVersion
  BY DEF FsInit, EvidenceIsOneVersion
<1>4. ASSUME NEW w \in Worker PROVE JobOK(w)
  BY DEF FsInit, JobOK, NoJob, Claimed, Copied
<1>5. QED
  BY <1>1, <1>2, <1>3, <1>4 DEF IInv

LEMMA UploadStep ==
  ASSUME IInv, NEW n \in Name, NEW d \in Data, Upload(n, d)
  PROVE  IInv'
<1> USE DEF IInv
<1>1. \A m \in Name : Version(m) \in Nat
  BY VersionIsNat
<1>2. TypeOK'
  <2>1. Append(uploads[n], d) \in Seq(Data)
    <3>1. uploads[n] \in Seq(Data)
      BY DEF TypeOK
    <3>2. QED
      BY <3>1
  <2>2. uploads' \in [Name -> Seq(Data)]
    BY <2>1 DEF TypeOK, Upload
  <2>3. incoming' \in [Name -> Nat]
    <3>1. Version(n) + 1 \in Nat
      BY <1>1
    <3>2. incoming \in [Name -> Nat]
      BY DEF TypeOK
    <3>3. QED
      BY <3>1, <3>2 DEF Upload
  <2>4. QED
    BY <2>2, <2>3 DEF TypeOK, Upload, At
<1>3. /\ \A m \in Name : Version(m)' \in {Version(m), Version(m) + 1}
      /\ Version(n)' = Version(n) + 1
      /\ \A m \in Name : \A i \in 1 .. Version(m) :
           uploads'[m][i] = uploads[m][i]
      /\ \A m \in Name : Offered(m) \subseteq Offered(m)'
  BY UploadGrows
<1>4. \A m \in Name : incoming'[m] \in {incoming[m], Version(m) + 1}
  BY <1>1 DEF TypeOK, Upload
<1>5. \A m \in Name : m # n => incoming'[m] = incoming[m]
  BY DEF TypeOK, Upload
<1>6. IncomingOK'
  <2>1. \A m \in Name : incoming[m] \in Nat /\ incoming[m] <= Version(m)
    BY DEF IncomingOK, TypeOK
  <2>2. QED
    BY <1>1, <1>3, <1>4, <1>5, <2>1 DEF IncomingOK
<1>7. EvidenceIsOneVersion'
  BY <1>3 DEF EvidenceIsOneVersion, Upload
<1>8. ASSUME NEW w \in Worker PROVE JobOK(w)'
  <2>1. job' = job /\ JobOK(w)
    BY DEF Upload
  <2>2. CASE job[w].stage = "idle"
    BY <2>1, <2>2 DEF JobOK, Claimed, Copied
  <2>3. CASE job[w].stage # "idle"
    <3> DEFINE m == job[w].name
    <3>1. m \in Name
      BY <2>3 DEF TypeOK, At
    <3>2. job[w].ino \in Nat /\ job[w].ver \in Nat
      BY DEF TypeOK
    <3>3. job[w].stage \in Claimed => job[w].ino \in 1 .. Version(m)'
      BY <1>1, <1>3, <2>1, <3>1, <3>2 DEF JobOK
    <3>4. job[w].stage \in {"copy", "recheck"} =>
            /\ job[w].ver \in 1 .. Version(m)'
            /\ uploads'[m][job[w].ver] = uploads[m][job[w].ver]
            /\ uploads'[m][job[w].ver] \in Container
      BY <1>1, <1>3, <2>1, <3>1, <3>2 DEF JobOK
    <3>5. job[w].stage = "recheck" =>
            \/ job[w].buf = uploads'[m][job[w].ver]
            \/ incoming'[m] # job[w].ino
            \/ Version(m)' > job[w].ver
      BY <1>1, <1>3, <1>4, <2>1, <3>1, <3>2, <3>4 DEF JobOK, Claimed
    <3>6. job[w].stage \in Copied =>
            /\ job[w].ver \in 1 .. Version(m)'
            /\ job[w].buf = uploads'[m][job[w].ver]
            /\ job[w].buf \in Offered(m)' \cap Container
      BY <1>1, <1>3, <2>1, <3>1, <3>2 DEF JobOK
    <3>7. QED
      BY <2>1, <3>3, <3>4, <3>5, <3>6 DEF JobOK
  <2>4. QED
    BY <2>2, <2>3
<1>9. QED
  BY <1>2, <1>6, <1>7, <1>8

\* The steps of one finalization.
Act(w) ==
  \/ \E n \in Name : Begin(w, n)
  \/ StatSource(w) \/ OpenSource(w) \/ Copy(w) \/ Recheck(w)
  \/ \E id \in Nat : Commit(w, id)
  \/ Verify(w) \/ UnlinkSource(w) \/ Return(w)
  \/ DiskFails(w) \/ SyncFails(w)

\* A finalization writes no upload, and no other finalization's variables.
LEMMA ActFrame ==
  ASSUME TypeOK, NEW w \in Worker, Act(w)
  PROVE  /\ uploads' = uploads
         /\ \A n \in Name : incoming'[n] \in {incoming[n], 0}
         /\ \A v \in Worker : v # w => job'[v] = job[v]
<1> USE DEF TypeOK, Move, Fail
<1>1. CASE \E n \in Name : Begin(w, n)
  BY <1>1 DEF Begin
<1>2. CASE StatSource(w)
  BY <1>2 DEF StatSource
<1>3. CASE OpenSource(w)
  BY <1>3 DEF OpenSource
<1>4. CASE Copy(w)
  BY <1>4 DEF Copy
<1>5. CASE Recheck(w)
  BY <1>5 DEF Recheck
<1>6. CASE \E id \in Nat : Commit(w, id)
  BY <1>6 DEF Commit
<1>7. CASE Verify(w)
  BY <1>7 DEF Verify
<1>8. CASE UnlinkSource(w)
  BY <1>8 DEF UnlinkSource
<1>9. CASE Return(w)
  BY <1>9 DEF Return
<1>10. CASE DiskFails(w) \/ SyncFails(w)
  BY <1>10 DEF DiskFails, SyncFails
<1>11. QED
  BY <1>1, <1>2, <1>3, <1>4, <1>5, <1>6, <1>7, <1>8, <1>9, <1>10 DEF Act

Jobs == [stage : Stages, name : Name \cup {None}, ino : Nat, ver : Nat,
         buf : Data \cup {Torn}, why : Failures \cup {""}]

\* A step that gives w the record r keeps the types.
LEMMA JobUpdate ==
  ASSUME TypeOK, NEW w \in Worker, NEW r \in Jobs,
         r.stage = "idle" \/ r.name \in Name,
         job' = [job EXCEPT ![w] = r], uploads' = uploads,
         incoming' \in [Name -> Nat],
         pcaps' \in [Name -> Evidence \cup {None}]
  PROVE  TypeOK'
<1>1. job \in [Worker -> Jobs]
  BY DEF TypeOK, Jobs
<1>2. job' \in [Worker -> Jobs]
  BY <1>1
<1>3. ASSUME NEW v \in Worker
      PROVE  job'[v].stage = "idle" \/ job'[v].name \in Name
  <2>1. job[v].stage = "idle" \/ job[v].name \in Name
    BY DEF TypeOK, At
  <2>2. job'[v] = IF v = w THEN r ELSE job[v]
    BY <1>1
  <2>3. QED
    BY <2>1, <2>2
<1>4. uploads' \in [Name -> Seq(Data)]
  BY DEF TypeOK
<1>5. QED
  BY <1>2, <1>3, <1>4 DEF TypeOK, Jobs, At, Evidence

LEMMA ActKeepsTypes ==
  ASSUME IInv, NEW w \in Worker, Act(w)
  PROVE  TypeOK'
<1> DEFINE j == job[w]
<1>0. TypeOK
  BY DEF IInv
<1>1. job \in [Worker -> Jobs] /\ j \in Jobs
  BY <1>0 DEF TypeOK, Jobs
<1>2. /\ incoming \in [Name -> Nat]
      /\ pcaps \in [Name -> Evidence \cup {None}]
  BY <1>0 DEF TypeOK, Evidence
<1>3. j.stage # "idle" => j.name \in Name
  BY <1>0 DEF TypeOK, At
<1>4. Stages = {"idle", "stat", "open", "copy", "recheck", "commit", "verify",
                "unlink", "done", "failed"}
  BY DEF Stages
<1>5. Failures = {"unsafe_object", "invalid_magic",
                  "source_changed_during_claim", "promotion_hash_mismatch",
                  "promotion_copy_failed", "disk_space_insufficient"}
  BY DEF Failures, Quarantining
<1>6. ASSUME j.stage # "idle", uploads' = uploads,
             incoming' \in [Name -> Nat],
             pcaps' \in [Name -> Evidence \cup {None}],
             \/ \E s \in Stages : Move(w, s)
             \/ \E y \in Failures : Fail(w, y)
      PROVE  TypeOK'
  <2>1. CASE \E s \in Stages : Move(w, s)
    <3>1. PICK s \in Stages : job' = [job EXCEPT ![w] = [j EXCEPT !.stage = s]]
      BY <2>1 DEF Move
    <3>2. [j EXCEPT !.stage = s] \in Jobs /\ [j EXCEPT !.stage = s].name = j.name
      BY <1>1 DEF Jobs
    <3>3. QED
      BY <1>0, <1>3, <1>6, <3>1, <3>2, JobUpdate
  <2>2. CASE \E y \in Failures : Fail(w, y)
    <3>1. PICK y \in Failures :
            job' = [job EXCEPT ![w] = [j EXCEPT !.stage = "failed", !.why = y]]
      BY <2>2 DEF Fail
    <3> DEFINE r == [j EXCEPT !.stage = "failed", !.why = y]
    <3>2. r \in Jobs /\ r.name = j.name
      BY <1>1, <1>4 DEF Jobs
    <3> HIDE DEF r
    <3>3. QED
      BY <1>0, <1>3, <1>6, <3>1, <3>2, JobUpdate DEF r
  <2>3. QED
    BY <1>6, <2>1, <2>2
<1>7. CASE \E n \in Name : Begin(w, n)
  <2>1. PICK n \in Name : Begin(w, n)
    BY <1>7
  <2> DEFINE r == [NoJob EXCEPT !.stage = "stat", !.name = n]
  <2>2. r \in Jobs /\ r.name = n
    BY <1>4 DEF Jobs, NoJob
  <2>3. job' = [job EXCEPT ![w] = r]
    BY <2>1 DEF Begin
  <2>4. QED
    BY <1>0, <1>2, <2>1, <2>2, <2>3, JobUpdate DEF Begin
<1>8. CASE StatSource(w)
  <2>1. CASE \E y \in Failures : Fail(w, y)
    BY <1>2, <1>6, <1>8, <2>1 DEF StatSource, At
  <2>2. CASE ~\E y \in Failures : Fail(w, y)
    <3> DEFINE r == [j EXCEPT !.stage = "open", !.ino = incoming[j.name]]
    <3>1. job' = [job EXCEPT ![w] = r] /\ j.name \in Name
      BY <1>3, <1>5, <1>8, <2>2 DEF StatSource, At
    <3>2. r \in Jobs /\ r.name = j.name
      BY <1>1, <1>2, <1>4, <3>1 DEF Jobs
    <3>3. QED
      BY <1>0, <1>2, <1>8, <3>1, <3>2, JobUpdate DEF StatSource
  <2>3. QED
    BY <2>1, <2>2
<1>9. CASE OpenSource(w)
  <2>1. CASE \E y \in Failures : Fail(w, y)
    BY <1>2, <1>6, <1>9, <2>1 DEF OpenSource, At
  <2>2. CASE ~\E y \in Failures : Fail(w, y)
    <3> DEFINE r == [j EXCEPT !.stage = "copy", !.ver = Version(j.name)]
    <3>1. job' = [job EXCEPT ![w] = r] /\ j.name \in Name
      BY <1>3, <1>5, <1>9, <2>2 DEF OpenSource, At
    <3>2. Version(j.name) \in Nat
      BY <1>0, <3>1, VersionIsNat
    <3>3. r \in Jobs /\ r.name = j.name
      BY <1>1, <1>4, <3>2 DEF Jobs
    <3>4. QED
      BY <1>0, <1>2, <1>9, <3>1, <3>3, JobUpdate DEF OpenSource
  <2>3. QED
    BY <2>1, <2>2
<1>10. CASE Copy(w)
  <2> DEFINE b == IF SameInode(w) /\ Version(j.name) = j.ver
                  THEN Content(j.name) ELSE Torn
             r == [j EXCEPT !.stage = "recheck", !.buf = b]
  <2>1. job' = [job EXCEPT ![w] = r] /\ j.name \in Name
    BY <1>3, <1>10 DEF Copy, At
  <2>2. b \in Data \cup {Torn}
    <3>1. SameInode(w) /\ Version(j.name) = j.ver =>
            Version(j.name) \in 1 .. Version(j.name)
      BY <1>0, <1>10, <2>1, VersionIsNat DEF IInv, JobOK, Copy, At
    <3>2. QED
      BY <1>0, <2>1, <3>1, VersionIsOffered DEF Content
  <2>3. r \in Jobs /\ r.name = j.name
    BY <1>1, <1>4, <2>2 DEF Jobs
  <2>4. QED
    BY <1>0, <1>2, <1>10, <2>1, <2>3, JobUpdate DEF Copy
<1>11. CASE Recheck(w)
  BY <1>2, <1>4, <1>5, <1>6, <1>11 DEF Recheck, At
<1>12. CASE \E id \in Nat : Commit(w, id)
  <2>1. PICK id \in Nat : Commit(w, id)
    BY <1>12
  <2>2. [id |-> id, data |-> j.buf] \in Evidence
    BY <1>1 DEF Jobs, Evidence
  <2>3. pcaps' \in [Name -> Evidence \cup {None}]
    BY <1>2, <2>1, <2>2 DEF Commit
  <2>4. QED
    BY <1>2, <1>4, <1>6, <2>1, <2>3 DEF Commit, At
<1>13. CASE Verify(w)
  <2>1. pcaps' \in [Name -> Evidence \cup {None}]
    BY <1>2, <1>13 DEF Verify
  <2>2. QED
    BY <1>2, <1>4, <1>5, <1>6, <1>13, <2>1 DEF Verify, At
<1>14. CASE UnlinkSource(w)
  <2>1. incoming' \in [Name -> Nat]
    BY <1>2, <1>14 DEF UnlinkSource
  <2>2. QED
    BY <1>2, <1>4, <1>5, <1>6, <1>14, <2>1 DEF UnlinkSource, At
<1>15. CASE Return(w)
  <2>1. NoJob \in Jobs /\ NoJob.stage = "idle"
    BY <1>4 DEF Jobs, NoJob
  <2>2. QED
    BY <1>0, <1>2, <1>15, <2>1, JobUpdate DEF Return
<1>16. CASE DiskFails(w) \/ SyncFails(w)
  <2>1. /\ incoming' \in [Name -> Nat]
        /\ pcaps' \in [Name -> Evidence \cup {None}]
    BY <1>2, <1>16 DEF DiskFails, SyncFails
  <2>2. (\E y \in Failures : Fail(w, y)) /\ j.stage # "idle"
    BY <1>5, <1>16 DEF DiskFails, SyncFails, At
  <2>3. QED
    BY <1>6, <1>16, <2>1, <2>2 DEF DiskFails, SyncFails
<1>17. QED
  BY <1>7, <1>8, <1>9, <1>10, <1>11, <1>12, <1>13, <1>14, <1>15, <1>16 DEF Act

\* The record of w after a change of it.
LEMMA JobAfter ==
  ASSUME TypeOK, NEW w \in Worker
  PROVE  /\ \A s : Move(w, s) => /\ job'[w] = [job[w] EXCEPT !.stage = s]
                                 /\ job'[w].stage = s
         /\ \A y : Fail(w, y) => job'[w].stage = "failed"
         /\ \A r : job' = [job EXCEPT ![w] = r] => job'[w] = r
<1>1. job \in [Worker -> Jobs]
  BY DEF TypeOK, Jobs
<1>2. ASSUME NEW r, job' = [job EXCEPT ![w] = r] PROVE job'[w] = r
  BY <1>1, <1>2
<1>3. ASSUME NEW s, Move(w, s) PROVE job'[w] = [job[w] EXCEPT !.stage = s]
  BY <1>2, <1>3 DEF Move
<1>4. ASSUME NEW y, Fail(w, y)
      PROVE  job'[w] = [job[w] EXCEPT !.stage = "failed", !.why = y]
  <2>1. job' = [job EXCEPT ![w] = [job[w] EXCEPT !.stage = "failed", !.why = y]]
    BY <1>4 DEF Fail
  <2>2. QED
    BY <1>1, <2>1
<1>5. job[w] \in Jobs
  BY <1>1
<1>6. ASSUME NEW s, Move(w, s) PROVE job'[w].stage = s
  <2>1. job'[w] = [job[w] EXCEPT !.stage = s]
    BY <1>3, <1>6
  <2>2. QED
    BY <1>5, <2>1 DEF Jobs
<1>7. ASSUME NEW y, Fail(w, y) PROVE job'[w].stage = "failed"
  <2>1. job'[w] = [job[w] EXCEPT !.stage = "failed", !.why = y]
    BY <1>4, <1>7
  <2>2. QED
    BY <1>5, <2>1 DEF Jobs
<1>8. QED
  BY <1>2, <1>3, <1>6, <1>7

\* The stage that follows a step.
LEMMA StageAfter ==
  ASSUME TypeOK, NEW w \in Worker
  PROVE  /\ \A n \in Name : Begin(w, n) => job'[w].stage = "stat"
         /\ StatSource(w) => job'[w].stage \in {"open", "failed"}
         /\ OpenSource(w) => job'[w].stage \in {"copy", "failed"}
         /\ Copy(w) => job'[w].stage = "recheck"
         /\ Recheck(w) => job'[w].stage \in {"commit", "failed"}
         /\ Return(w) => job'[w].stage = "idle"
         /\ DiskFails(w) \/ SyncFails(w) => job'[w].stage = "failed"
<1> DEFINE j == job[w]
           n == j.name
<1>1. job \in [Worker -> Jobs] /\ j \in Jobs
  BY DEF TypeOK, Jobs
<1>2. ASSUME NEW m \in Name, Begin(w, m) PROVE job'[w].stage = "stat"
  <2>1. job' = [job EXCEPT ![w] = [NoJob EXCEPT !.stage = "stat", !.name = m]]
    BY <1>2 DEF Begin
  <2>2. job'[w] = [NoJob EXCEPT !.stage = "stat", !.name = m]
    BY <2>1, JobAfter
  <2>3. QED
    BY <2>2 DEF NoJob
<1>3. StatSource(w) => job'[w].stage \in {"open", "failed"}
  <2> DEFINE r == [j EXCEPT !.stage = "open",
                            !.ino = incoming[n]]
  <2>1. StatSource(w) => (\E y : Fail(w, y)) \/ job' = [job EXCEPT ![w] = r]
    BY DEF StatSource
  <2>2. r.stage = "open"
    BY <1>1 DEF Jobs
  <2> HIDE DEF r
  <2>3. QED
    BY <2>1, <2>2, JobAfter
<1>4. OpenSource(w) => job'[w].stage \in {"copy", "failed"}
  <2> DEFINE r == [j EXCEPT !.stage = "copy",
                            !.ver = Version(n)]
  <2>1. OpenSource(w) => (\E y : Fail(w, y)) \/ job' = [job EXCEPT ![w] = r]
    BY DEF OpenSource
  <2>2. r.stage = "copy"
    BY <1>1 DEF Jobs
  <2> HIDE DEF r
  <2>3. QED
    BY <2>1, <2>2, JobAfter
<1>5. Copy(w) => job'[w].stage = "recheck"
  <2> DEFINE r == [j EXCEPT !.stage = "recheck",
                            !.buf = IF SameInode(w) /\ Version(n) = j.ver THEN Content(n) ELSE Torn]
  <2>1. Copy(w) => job' = [job EXCEPT ![w] = r]
    BY DEF Copy
  <2>2. r.stage = "recheck"
    BY <1>1 DEF Jobs
  <2> HIDE DEF r
  <2>3. QED
    BY <2>1, <2>2, JobAfter
<1>6. Recheck(w) => job'[w].stage \in {"commit", "failed"}
  BY JobAfter DEF Recheck
<1>7. ASSUME Return(w) PROVE job'[w].stage = "idle"
  <2>1. job'[w] = NoJob
    BY <1>1, <1>7 DEF Return
  <2>2. NoJob.stage = "idle"
    BY DEF NoJob
  <2>3. QED
    BY <2>1, <2>2
<1>8. DiskFails(w) \/ SyncFails(w) => job'[w].stage = "failed"
  BY JobAfter DEF DiskFails, SyncFails
<1>9. QED
  BY <1>2, <1>3, <1>4, <1>5, <1>6, <1>7, <1>8

\* What w knows after its own step.
LEMMA ActKeepsJob ==
  ASSUME IInv, NEW w \in Worker, Act(w)
  PROVE  JobOK(w)'
<1> DEFINE j == job[w]
           n == j.name
<1>0. TypeOK /\ JobOK(w)
  BY DEF IInv
<1>1. job \in [Worker -> Jobs] /\ j \in Jobs
  BY <1>0 DEF TypeOK, Jobs
<1>2. j.stage # "idle" => n \in Name
  BY <1>0 DEF TypeOK, At
<1>3. \A m \in Name : Version(m) \in Nat
  BY <1>0, VersionIsNat
<1>4. /\ uploads' = uploads
      /\ \A m \in Name : incoming'[m] \in {incoming[m], 0}
  BY <1>0, ActFrame
<1>5. CASE job'[w].stage \in {"idle", "stat", "failed"}
  BY <1>5 DEF JobOK, Claimed, Copied
<1>6. CASE StatSource(w) /\ job'[w].stage = "open"
  <2>1. /\ n \in Name /\ incoming[n] # 0
        /\ job'[w] = [j EXCEPT !.stage = "open", !.ino = incoming[n]]
    <3>1. ~\E y : Fail(w, y)
      BY <1>0, <1>6, JobAfter
    <3>2. job' = [job EXCEPT ![w] = [j EXCEPT !.stage = "open", !.ino = incoming[n]]]
      BY <1>6, <3>1 DEF StatSource
    <3>3. QED
      BY <1>0, <1>2, <1>6, <3>1, <3>2, JobAfter DEF StatSource, At
  <2>2. incoming[n] \in 1 .. Version(n)
    <3>1. incoming[n] \in Nat
      BY <1>0, <2>1 DEF TypeOK
    <3>2. incoming[n] <= Version(n)
      BY <2>1 DEF IInv, IncomingOK
    <3>3. QED
      BY <1>3, <2>1, <3>1, <3>2
  <2>3. job'[w].name = n /\ job'[w].ino = incoming[n]
    BY <1>1, <2>1 DEF Jobs
  <2>4. QED
    BY <1>4, <1>6, <2>2, <2>3 DEF JobOK, Claimed, Copied, Version
<1>7. CASE OpenSource(w) /\ job'[w].stage = "copy"
  <2>1. /\ n \in Name /\ j.stage = "open" /\ Content(n) \notin BadMagic
        /\ job'[w] = [j EXCEPT !.stage = "copy", !.ver = Version(n)]
    <3>1. ~\E y : Fail(w, y)
      BY <1>0, <1>7, JobAfter
    <3>2. job' = [job EXCEPT ![w] = [j EXCEPT !.stage = "copy", !.ver = Version(n)]]
      BY <1>7, <3>1 DEF OpenSource
    <3>3. QED
      BY <1>0, <1>2, <1>7, <3>1, <3>2, JobAfter DEF OpenSource, At
  <2>2. job'[w].name = n /\ job'[w].ino = j.ino /\ job'[w].ver = Version(n)
    BY <1>1, <2>1 DEF Jobs
  <2>3. j.ino \in 1 .. Version(n)
    BY <1>0, <2>1 DEF JobOK, Claimed
  <2>4. Version(n) \in 1 .. Version(n)
    BY <1>3, <2>1, <2>3
  <2>5. uploads[n][Version(n)] \in Container
    BY <1>0, <2>1, <2>4, VersionIsOffered DEF Content, Container
  <2>6. QED
    BY <1>4, <1>7, <2>2, <2>3, <2>4, <2>5 DEF JobOK, Claimed, Copied, Version
<1>8. CASE Copy(w)
  <2> DEFINE b == IF SameInode(w) /\ Version(n) = j.ver
                  THEN Content(n) ELSE Torn
  <2>1. /\ n \in Name /\ j.stage = "copy"
        /\ job'[w] = [j EXCEPT !.stage = "recheck", !.buf = b]
        /\ incoming' = incoming
    <3>1. job' = [job EXCEPT ![w] = [j EXCEPT !.stage = "recheck", !.buf = b]]
      BY <1>8 DEF Copy
    <3>2. QED
      BY <1>0, <1>2, <1>8, <3>1, JobAfter DEF Copy, At
  <2>2. /\ job'[w].name = n /\ job'[w].ino = j.ino /\ job'[w].ver = j.ver
        /\ job'[w].buf = b /\ job'[w].stage = "recheck"
    BY <1>1, <2>1 DEF Jobs
  <2>3. /\ j.ino \in 1 .. Version(n) /\ j.ver \in 1 .. Version(n)
        /\ uploads[n][j.ver] \in Container
    BY <1>0, <2>1 DEF JobOK, Claimed
  <2>4. b = uploads[n][j.ver] \/ incoming[n] # j.ino \/ Version(n) > j.ver
    BY <1>3, <2>1, <2>3 DEF SameInode, Content
  <2>5. QED
    BY <1>4, <1>8, <2>1, <2>2, <2>3, <2>4 DEF JobOK, Claimed, Copied, Version
<1>9. CASE Recheck(w) /\ job'[w].stage = "commit"
  <2>1. /\ n \in Name /\ j.stage = "recheck" /\ SameInode(w)
        /\ Version(n) = j.ver /\ job'[w] = [j EXCEPT !.stage = "commit"]
    BY <1>0, <1>2, <1>9, JobAfter DEF Recheck, At
  <2>2. job'[w].name = n /\ job'[w].buf = j.buf /\ job'[w].ver = j.ver
    BY <1>1, <2>1 DEF Jobs
  <2>3. /\ j.ver \in 1 .. Version(n) /\ uploads[n][j.ver] \in Container
        /\ j.buf = uploads[n][j.ver]
    BY <1>0, <1>3, <2>1 DEF JobOK, SameInode
  <2>4. j.buf \in Offered(n) \cap Container
    BY <1>0, <2>1, <2>3, VersionIsOffered
  <2>5. QED
    BY <1>4, <1>9, <2>2, <2>3, <2>4 DEF JobOK, Claimed, Copied, Offered, Version
<1>10. CASE j.stage \in Copied /\ job'[w].stage \in Copied
            /\ job'[w] = [j EXCEPT !.stage = job'[w].stage]
  <2>1. job'[w].name = n /\ job'[w].buf = j.buf /\ job'[w].ver = j.ver
    BY <1>1, <1>10 DEF Jobs
  <2>2. /\ j.ver \in 1 .. Version(n) /\ j.buf = uploads[n][j.ver]
        /\ j.buf \in Offered(n) \cap Container
    BY <1>0, <1>10 DEF JobOK
  <2>3. QED
    BY <1>4, <1>10, <2>1, <2>2 DEF JobOK, Claimed, Copied, Offered, Version
<1>11. QED
  <2>1. CASE \E m \in Name : Begin(w, m)
    BY <1>0, <1>5, <2>1, StageAfter
  <2>2. CASE StatSource(w)
    BY <1>0, <1>5, <1>6, <2>2, StageAfter
  <2>3. CASE OpenSource(w)
    BY <1>0, <1>5, <1>7, <2>3, StageAfter
  <2>4. CASE Copy(w)
    BY <1>8, <2>4
  <2>5. CASE Recheck(w)
    BY <1>0, <1>5, <1>9, <2>5, StageAfter
  <2>6. CASE \E id \in Nat : Commit(w, id)
    BY <1>0, <1>10, <2>6, JobAfter DEF Commit, At, Copied
  <2>7. CASE Verify(w)
    <3>1. (\E y : Fail(w, y)) \/ (j.stage = "verify" /\ Move(w, "unlink"))
      BY <2>7 DEF Verify, At
    <3>2. QED
      BY <1>0, <1>5, <1>10, <3>1, JobAfter DEF Copied
  <2>8. CASE UnlinkSource(w)
    BY <1>0, <1>5, <1>10, <2>8, JobAfter DEF UnlinkSource, At, Copied
  <2>9. CASE Return(w)
    BY <1>0, <1>5, <2>9, StageAfter
  <2>10. CASE DiskFails(w) \/ SyncFails(w)
    BY <1>0, <1>5, <2>10, StageAfter
  <2>11. QED
    BY <2>1, <2>2, <2>3, <2>4, <2>5, <2>6, <2>7, <2>8, <2>9, <2>10 DEF Act

\* Only a commit changes evidence to something else, and it commits a copy
\* that was checked.
LEMMA ActKeepsEvidence ==
  ASSUME IInv, NEW w \in Worker, Act(w)
  PROVE  EvidenceIsOneVersion'
<1>0. TypeOK /\ EvidenceIsOneVersion /\ JobOK(w)
  BY DEF IInv
<1>1. uploads' = uploads
  BY <1>0, ActFrame
<1>2. pcaps \in [Name -> Evidence \cup {None}]
  BY <1>0 DEF TypeOK, Evidence
<1>3. CASE \E id \in Nat : Commit(w, id)
  <2>1. PICK id \in Nat : Commit(w, id)
    BY <1>3
  <2>2. job[w].buf \in Offered(job[w].name) \cap Container
    BY <1>0, <2>1 DEF Commit, At, JobOK, Copied
  <2>3. \A m \in Name :
          pcaps'[m] = IF m = job[w].name THEN [id |-> id, data |-> job[w].buf]
                                         ELSE pcaps[m]
    BY <1>2, <2>1 DEF Commit
  <2>4. QED
    BY <1>0, <1>1, <2>2, <2>3 DEF EvidenceIsOneVersion, Offered
<1>4. CASE \A m \in Name : pcaps'[m] \in {pcaps[m], None}
  BY <1>0, <1>1, <1>4 DEF EvidenceIsOneVersion, Offered
<1>5. CASE Verify(w) \/ SyncFails(w)
  BY <1>2, <1>4, <1>5 DEF Verify, SyncFails
<1>6. QED
  BY <1>3, <1>4, <1>5 DEF Act, Begin, StatSource, OpenSource, Copy, Recheck,
                          UnlinkSource, Return, DiskFails

LEMMA ActStep == ASSUME IInv, NEW w \in Worker, Act(w) PROVE IInv'
<1>1. TypeOK' /\ JobOK(w)' /\ EvidenceIsOneVersion'
  BY ActKeepsTypes, ActKeepsJob, ActKeepsEvidence
<1>2. /\ uploads' = uploads
      /\ \A n \in Name : incoming'[n] \in {incoming[n], 0}
      /\ \A v \in Worker : v # w => job'[v] = job[v]
  BY ActFrame DEF IInv
<1>3. IncomingOK'
  <2>1. \A n \in Name : 0 <= Version(n) /\ incoming[n] <= Version(n)
    BY VersionIsNat DEF IInv, IncomingOK
  <2>2. QED
    BY <1>2, <2>1 DEF IncomingOK, Version
<1>4. ASSUME NEW v \in Worker, v # w PROVE JobOK(v)'
  BY <1>2, <1>4, OthersKeep DEF IInv
<1>5. QED
  BY <1>1, <1>3, <1>4 DEF IInv

LEMMA CrashStep == IInv /\ CrashJobs => IInv'
<1> SUFFICES ASSUME IInv, CrashJobs PROVE IInv'
  OBVIOUS
<1>1. /\ uploads' = uploads /\ incoming' = incoming /\ pcaps' = pcaps
      /\ job' = [w \in Worker |-> NoJob]
  BY DEF CrashJobs
<1>2. job' \in [Worker -> Jobs]
  <2>1. NoJob \in Jobs
    BY DEF NoJob, Jobs, Stages
  <2>2. QED
    BY <1>1, <2>1
<1>3. TypeOK'
  BY <1>1, <1>2 DEF IInv, TypeOK, Jobs, At, NoJob
<1>4. IncomingOK' /\ EvidenceIsOneVersion'
  BY <1>1 DEF IInv, IncomingOK, EvidenceIsOneVersion, Version, Offered
<1>5. ASSUME NEW w \in Worker PROVE JobOK(w)'
  BY <1>1 DEF JobOK, NoJob, Claimed, Copied
<1>6. QED
  BY <1>3, <1>4, <1>5 DEF IInv

\* Every step is an upload, a crash or a step of one finalization.
LEMMA NextSteps ==
  Next => \/ \E n \in Name, d \in Data : Upload(n, d)
          \/ CrashJobs
          \/ \E w \in Worker : Act(w)
BY DEF Next, Act

LEMMA NextIInv == IInv /\ [Next]_fsvars => IInv'
<1> SUFFICES ASSUME IInv, [Next]_fsvars PROVE IInv'
  OBVIOUS
<1>1. CASE Next
  BY <1>1, NextSteps, UploadStep, CrashStep, ActStep
<1>2. CASE UNCHANGED fsvars
  <2>1. /\ uploads' = uploads /\ incoming' = incoming
        /\ pcaps' = pcaps /\ job' = job
    BY <1>2 DEF fsvars
  <2>2. TypeOK'
    BY <2>1 DEF IInv, TypeOK, At
  <2>3. IncomingOK' /\ EvidenceIsOneVersion'
    BY <2>1 DEF IInv, IncomingOK, EvidenceIsOneVersion, Version, Offered
  <2>4. ASSUME NEW w \in Worker PROVE JobOK(w)'
    BY <2>1 DEF IInv, JobOK, Version, Offered
  <2>5. QED
    BY <2>2, <2>3, <2>4 DEF IInv
<1>3. QED
  BY <1>1, <1>2

LEMMA AlwaysIInv == Spec => []IInv
BY InitIInv, NextIInv, PTL DEF Spec

\* Any number of scans: the variables keep their types.
THEOREM TypeCorrect == Spec => []TypeOK
<1>1. IInv => TypeOK
  BY DEF IInv
<1>2. QED
  BY <1>1, AlwaysIInv, PTL

\* Any number of scans finalizing any files, any number of writes at any time:
\* evidence is one whole version of its upload, with the magic number.
THEOREM EvidenceIsWhole == Spec => []EvidenceIsOneVersion
<1>1. IInv => EvidenceIsOneVersion
  BY DEF IInv
<1>2. QED
  BY <1>1, AlwaysIInv, PTL

-----------------------------------------------------------------------------
(* One finalization at a time.                                              *)

Serial == \A v, w \in Worker : v = w

\* Once w has put evidence in place, it stays there while w works, and the
\* upload stays until w has removed it.
KeptBy(w) ==
  /\ job[w].stage \in {"verify", "unlink", "done"} =>
       /\ pcaps[job[w].name] # None
       /\ pcaps[job[w].name].data = job[w].buf
  /\ job[w].stage \in {"commit", "verify", "unlink"} =>
       incoming[job[w].name] # 0

SInv ==
  /\ IInv
  /\ \A w \in Worker : KeptBy(w)

\* No upload loses its last version, except to one it is overtaken by.
KeepsUploads == \A n \in Name : Kept(n) => Kept(n)' \/ Overtaken(n)

\* What a step of the only finalization does to the directories: nothing, or
\* it publishes a checked copy, or it removes an upload with evidence.
LEMMA SerialAct ==
  ASSUME IInv, NEW w \in Worker, KeptBy(w), Act(w)
  PROVE  /\ KeptBy(w)'
         /\ \/ incoming' = incoming /\ pcaps' = pcaps
            \/ \E n \in Name, id \in Nat, d \in Data :
                 /\ d \in Offered(n) \cap Container
                 /\ pcaps' = [pcaps EXCEPT ![n] = [id |-> id, data |-> d]]
                 /\ incoming' = incoming /\ incoming[n] # 0
            \/ \E n \in Name : /\ pcaps[n] # None /\ pcaps' = pcaps
                             /\ incoming' = [incoming EXCEPT ![n] = 0]
                             /\ At(w, "unlink") /\ job[w].name = n
                             /\ job[w].ver \in 1 .. Version(n)
                             /\ pcaps[n].data = uploads[n][job[w].ver]
<1> DEFINE j == job[w]
           n == j.name
<1>0. TypeOK /\ JobOK(w)
  BY DEF IInv
<1>1. job \in [Worker -> Jobs] /\ j \in Jobs
  BY <1>0 DEF TypeOK, Jobs
<1>2. j.stage # "idle" => n \in Name
  BY <1>0 DEF TypeOK, At
<1>3. /\ pcaps \in [Name -> Evidence \cup {None}]
      /\ incoming \in [Name -> Nat]
  BY <1>0 DEF TypeOK, Evidence
<1>4. ASSUME NEW s, Move(w, s)
      PROVE  job'[w].name = n /\ job'[w].buf = j.buf /\ job'[w].stage = s
  <2>1. job'[w] = [j EXCEPT !.stage = s]
    BY <1>0, <1>4, JobAfter
  <2>2. QED
    BY <1>1, <2>1 DEF Jobs
<1>5. CASE \E id \in Nat : Commit(w, id)
  <2>1. PICK id \in Nat : Commit(w, id)
    BY <1>5
  <2>2. /\ n \in Name /\ j.stage = "commit" /\ incoming' = incoming
        /\ pcaps' = [pcaps EXCEPT ![n] = [id |-> id, data |-> j.buf]]
        /\ job'[w].name = n /\ job'[w].buf = j.buf
    BY <1>2, <1>4, <2>1 DEF Commit, At
  <2>3. j.buf \in Offered(n) \cap Container /\ j.buf \in Data /\ incoming[n] # 0
    BY <1>0, <2>2 DEF JobOK, Copied, Container, KeptBy
  <2>4. [id |-> id, data |-> j.buf] # None
    <3>1. [id |-> id, data |-> j.buf] \in [id : Nat, data : Data \cup {Torn}]
      BY <2>3
    <3>2. QED
      BY <3>1
  <2>5. pcaps'[n] = [id |-> id, data |-> j.buf]
    BY <1>3, <2>2
  <2>6. KeptBy(w)'
    BY <2>2, <2>3, <2>4, <2>5 DEF KeptBy
  <2>7. QED
    BY <2>2, <2>3, <2>6
<1>6. CASE Verify(w)
  <2>1. /\ j.stage = "verify" /\ pcaps[n] # None /\ pcaps[n].data = j.buf
        /\ incoming[n] # 0
    BY <1>6 DEF Verify, At, KeptBy
  <2>2. Move(w, "unlink") /\ pcaps' = pcaps /\ incoming' = incoming
    BY <1>6, <2>1 DEF Verify
  <2>3. QED
    BY <1>4, <2>1, <2>2 DEF KeptBy
<1>7. CASE j.stage = "unlink" /\ (UnlinkSource(w) \/ SyncFails(w))
  <2>1. /\ n \in Name /\ pcaps[n] # None
        /\ pcaps[n].data = j.buf /\ pcaps' = pcaps
        /\ j.ver \in 1 .. Version(n) /\ j.buf = uploads[n][j.ver]
    BY <1>0, <1>2, <1>7 DEF UnlinkSource, SyncFails, At, KeptBy, JobOK, Copied
  <2>2. Move(w, "done") \/ job'[w].stage = "failed"
    BY <1>0, <1>7, <2>1, StageAfter DEF UnlinkSource
  <2>3. incoming' = [incoming EXCEPT ![n] = 0] \/ incoming' = incoming
    BY <1>3, <1>7 DEF UnlinkSource, SyncFails, At
  <2>4. KeptBy(w)'
    BY <1>4, <2>1, <2>2 DEF KeptBy
  <2>5. QED
    BY <1>7, <2>1, <2>3, <2>4 DEF At
<1>8. CASE Recheck(w)
  <2>1. incoming' = incoming /\ pcaps' = pcaps
    BY <1>8 DEF Recheck
  <2>2. CASE Move(w, "commit")
    <3>1. ~\E y : Fail(w, y)
      BY <1>0, <1>4, <2>2, JobAfter
    <3>2. incoming[n] = j.ino /\ j.stage = "recheck"
      BY <1>8, <3>1 DEF Recheck, SameInode, At
    <3>3. j.ino \in 1 .. Version(n)
      BY <1>0, <3>2 DEF JobOK, Claimed
    <3>4. Version(n) \in Nat
      BY <1>0, <1>2, <3>2, VersionIsNat
    <3>5. incoming[n] # 0
      BY <3>2, <3>3, <3>4
    <3>6. QED
      BY <1>4, <2>1, <2>2, <3>5 DEF KeptBy
  <2>3. CASE ~Move(w, "commit")
    <3>1. job'[w].stage = "failed"
      BY <1>0, <1>8, <2>3, JobAfter DEF Recheck
    <3>2. QED
      BY <2>1, <3>1 DEF KeptBy
  <2>4. QED
    BY <2>2, <2>3
<1>9. CASE DiskFails(w)
  <2>1. incoming' = incoming /\ pcaps' = pcaps /\ job'[w].stage = "failed"
    BY <1>0, <1>9, StageAfter DEF DiskFails
  <2>2. QED
    BY <2>1 DEF KeptBy
<1>10. CASE \/ \E m \in Name : Begin(w, m)
            \/ StatSource(w) \/ OpenSource(w) \/ Copy(w) \/ Return(w)
  <2>1. incoming' = incoming /\ pcaps' = pcaps
    BY <1>10 DEF Begin, StatSource, OpenSource, Copy, Return
  <2>2. job'[w].stage \notin {"commit", "verify", "unlink", "done"}
    BY <1>0, <1>10, StageAfter
  <2>3. QED
    BY <2>1, <2>2 DEF KeptBy
<1>11. UnlinkSource(w) \/ SyncFails(w) => j.stage = "unlink"
  BY DEF UnlinkSource, SyncFails, At, KeptBy
<1>12. QED
  BY <1>5, <1>6, <1>7, <1>8, <1>9, <1>10, <1>11 DEF Act

\* Such a step keeps the last version of every upload, or overtakes it.
LEMMA SerialKeeps ==
  ASSUME IInv, NEW w \in Worker, KeptBy(w), Act(w)
  PROVE  KeepsUploads
<1> SUFFICES ASSUME NEW n \in Name, Kept(n), ~Kept(n)'
             PROVE  Overtaken(n)
  BY DEF KeepsUploads
<1>1. uploads' = uploads
  BY ActFrame DEF IInv
<1>2. /\ incoming \in [Name -> Nat] /\ pcaps \in [Name -> Evidence \cup {None}]
      /\ Version(n) \in Nat
  BY VersionIsNat DEF IInv, TypeOK, Evidence
<1>3. Content(n)' = Content(n)
  BY <1>1 DEF Content, Version
<1>4. CASE incoming' = incoming /\ pcaps' = pcaps
  BY <1>3, <1>4 DEF Kept
<1>5. CASE \E m \in Name, id \in Nat, d \in Data :
             /\ pcaps' = [pcaps EXCEPT ![m] = [id |-> id, data |-> d]]
             /\ incoming' = incoming /\ incoming[m] # 0
  <2>1. pcaps'[n] = pcaps[n] \/ incoming'[n] # 0
    BY <1>2, <1>5
  <2>2. QED
    BY <1>3, <1>5, <2>1 DEF Kept
<1>6. CASE \E m \in Name : /\ pcaps[m] # None /\ pcaps' = pcaps
                          /\ incoming' = [incoming EXCEPT ![m] = 0]
                          /\ At(w, "unlink") /\ job[w].name = m
                          /\ job[w].ver \in 1 .. Version(m)
                          /\ pcaps[m].data = uploads[m][job[w].ver]
  <2>1. PICK m \in Name : /\ pcaps[m] # None /\ pcaps' = pcaps
                         /\ incoming' = [incoming EXCEPT ![m] = 0]
                         /\ At(w, "unlink") /\ job[w].name = m
                         /\ job[w].ver \in 1 .. Version(m)
                         /\ pcaps[m].data = uploads[m][job[w].ver]
    BY <1>6
  <2>2. CASE m # n
    BY <1>2, <1>3, <2>1, <2>2 DEF Kept
  <2>3. CASE m = n
    <3>1. pcaps[n].data # Content(n)
      BY <1>2, <1>3, <2>1, <2>3 DEF Kept
    <3>2. job[w].ver # Version(n)
      BY <2>1, <2>3, <3>1 DEF Content
    <3>3. job[w].ver < Version(n)
      BY <1>2, <2>1, <2>3, <3>2
    <3>4. QED
      BY <2>1, <2>3, <3>3 DEF Overtaken
  <2>4. QED
    BY <2>2, <2>3
<1>7. QED
  BY <1>4, <1>5, <1>6, SerialAct

\* An upload is there, and so are the others and their evidence.
LEMMA UploadKeeps ==
  ASSUME TypeOK, NEW n \in Name, NEW d \in Data, Upload(n, d)
  PROVE  /\ KeepsUploads
         /\ \A w \in Worker : KeptBy(w) => KeptBy(w)'
<1>1. pcaps' = pcaps /\ job' = job
  BY DEF Upload
<1>2. Version(n) \in Nat /\ incoming \in [Name -> Nat]
  BY VersionIsNat DEF TypeOK
<1>3. incoming'[n] # 0
  BY <1>2 DEF Upload
<1>4. \A m \in Name : m # n => uploads'[m] = uploads[m]
                            /\ incoming'[m] = incoming[m]
  BY DEF Upload, TypeOK
<1>5. \A m \in Name : Kept(m) => Kept(m)'
  BY <1>1, <1>3, <1>4 DEF Kept, Content, Version
<1>6. ASSUME NEW w \in Worker, KeptBy(w) PROVE KeptBy(w)'
  <2>1. job[w].stage # "idle" => job[w].name \in Name
    BY DEF TypeOK, At
  <2>2. QED
    BY <1>1, <1>3, <1>4, <1>6, <2>1 DEF KeptBy
<1>7. QED
  BY <1>5, <1>6 DEF KeepsUploads

LEMMA InitSInv == FsInit => SInv
<1>1. FsInit => \A w \in Worker : KeptBy(w)
  <2> SUFFICES ASSUME FsInit, NEW w \in Worker PROVE KeptBy(w)
    OBVIOUS
  <2>1. job[w] = NoJob
    BY DEF FsInit
  <2>2. NoJob.stage = "idle"
    BY DEF NoJob
  <2>3. QED
    BY <2>1, <2>2 DEF KeptBy
<1>2. QED
  BY <1>1, InitIInv DEF SInv

LEMMA NextSInv ==
  ASSUME Serial, SInv, [Next]_fsvars
  PROVE  SInv' /\ [KeepsUploads]_fsvars
<1>1. IInv'
  BY NextIInv DEF SInv
<1>2. CASE \E n \in Name, d \in Data : Upload(n, d)
  BY <1>1, <1>2, UploadKeeps DEF SInv, IInv
<1>3. CASE \E w \in Worker : Act(w)
  <2>1. PICK w \in Worker : Act(w)
    BY <1>3
  <2>2. KeptBy(w)'
    BY <2>1, SerialAct DEF SInv
  <2>3. KeepsUploads
    BY <2>1, SerialKeeps DEF SInv
  <2>4. \A v \in Worker : KeptBy(v)'
    BY <2>2 DEF Serial
  <2>5. QED
    BY <1>1, <2>3, <2>4 DEF SInv
<1>4. CASE CrashJobs
  <2>1. \A w \in Worker : job'[w].stage = "idle"
    BY <1>4 DEF CrashJobs, NoJob
  <2>2. \A w \in Worker : KeptBy(w)'
    BY <2>1 DEF KeptBy
  <2>3. KeepsUploads
    BY <1>4 DEF CrashJobs, KeepsUploads, Kept, Content, Version
  <2>4. QED
    BY <1>1, <2>2, <2>3 DEF SInv
<1>5. CASE UNCHANGED fsvars
  BY <1>1, <1>5 DEF fsvars, SInv, KeptBy
<1>6. QED
  BY <1>2, <1>3, <1>4, <1>5, NextSteps

\* As long as finalizations take turns, whatever the upload account writes, the
\* disk refuses and whenever Study Web dies: the last version of an upload is in
\* incoming/ or in pcaps/, unless it was written in place after the finalizer
\* compared the file it then removed.
THEOREM NothingIsLost ==
  ASSUME Serial
  PROVE  Spec => NoUploadIsLost
<1>1. SInv /\ [Next]_fsvars => SInv' /\ [KeepsUploads]_fsvars
  BY NextSInv
<1>2. KeepsUploads <=> \A n \in Name : Kept(n) => Kept(n)' \/ Overtaken(n)
  BY DEF KeepsUploads
<1>3. QED
  BY <1>1, <1>2, InitSInv, PTL DEF Spec, NoUploadIsLost

\* The directories before and after an upload, as the abstract module sees it.
LEMMA UploadOffers ==
  ASSUME TypeOK, NEW n \in Name, NEW d \in Data, Upload(n, d)
  PROVE  Custody!Offer(n, d)
<1>1. \A m \in Name : uploads[m] \in Seq(Data)
  BY DEF TypeOK
<1>2. \A m \in Name : DOMAIN uploads[m] = 1 .. Version(m)
  BY <1>1 DEF Version
<1>3. \A m \in Name : uploads'[m] = IF m = n THEN Append(uploads[m], d)
                                            ELSE uploads[m]
  BY DEF TypeOK, Upload
<1>4. Offered(n)' = Offered(n) \cup {d}
  <2>1. uploads[n] \in Seq(Data)
    BY <1>1
  <2>2. /\ DOMAIN Append(uploads[n], d) = 1 .. (Len(uploads[n]) + 1)
        /\ \A i \in 1 .. Len(uploads[n]) : Append(uploads[n], d)[i] = uploads[n][i]
        /\ Append(uploads[n], d)[Len(uploads[n]) + 1] = d
    BY <2>1
  <2>3. Len(uploads[n]) \in Nat /\ DOMAIN uploads[n] = 1 .. Len(uploads[n])
    BY <2>1
  <2>4. uploads'[n] = Append(uploads[n], d)
    BY <1>3
  <2>5. \A x : x \in Offered(n)' <=> x \in Offered(n) \cup {d}
    BY <2>2, <2>3, <2>4 DEF Offered
  <2>6. QED
    BY <2>5
<1>5. \A m \in Name : m # n => Offered(m)' = Offered(m)
  BY <1>3 DEF Offered
<1>6. [m \in Name |-> Offered(m)]' =
        [[m \in Name |-> Offered(m)] EXCEPT ![n] = @ \cup {d}]
  BY <1>4, <1>5
<1>7. {m \in Name : incoming[m] # 0}' = {m \in Name : incoming[m] # 0} \cup {n}
  <2>1. Version(n) \in Nat /\ incoming \in [Name -> Nat]
    BY VersionIsNat DEF TypeOK
  <2>2. incoming'[n] # 0 /\ \A m \in Name : m # n => incoming'[m] = incoming[m]
    BY <2>1 DEF Upload
  <2>3. QED
    BY <2>2
<1>8. pcaps' = pcaps
  BY DEF Upload
<1>9. QED
  BY <1>6, <1>7, <1>8 DEF Custody!Offer

\* As long as finalizations take turns, the finalizer implements the custody
\* of evidence: it publishes whole containers from what was offered, withdraws
\* none, and discards an upload only once its name has evidence.
THEOREM Refinement ==
  ASSUME Serial
  PROVE  Spec => ImplementsCustody
<1> DEFINE ev == [n \in Name |-> IF pcaps[n] = None THEN None ELSE pcaps[n].data]
           in == {n \in Name : incoming[n] # 0}
           of == [n \in Name |-> Offered(n)]
<1>1. FsInit => Custody!Init
  BY DEF FsInit, Custody!Init, Offered
<1>2. ASSUME SInv, [Next]_fsvars PROVE [Custody!Next]_(Custody!vars)
  <2>1. CASE \E n \in Name, d \in Data : Upload(n, d)
    BY <1>2, <2>1, UploadOffers DEF Custody!Next, SInv, IInv
  <2>2. CASE UNCHANGED <<uploads, incoming, pcaps>>
    BY <2>2 DEF Custody!vars, Offered
  <2>3. CASE \E w \in Worker : Act(w)
    <3>1. PICK w \in Worker : Act(w)
      BY <2>3
    <3>2. uploads' = uploads
      BY <1>2, <3>1, ActFrame DEF SInv, IInv
    <3>3. of' = of
      BY <3>2 DEF Offered
    <3>4. /\ pcaps \in [Name -> Evidence \cup {None}]
          /\ incoming \in [Name -> Nat]
      BY <1>2 DEF SInv, IInv, TypeOK, Evidence
    <3>5. CASE incoming' = incoming /\ pcaps' = pcaps
      BY <2>2, <3>2, <3>5
    <3>6. CASE \E n \in Name, id \in Nat, d \in Data :
                 /\ d \in Offered(n) \cap Container
                 /\ pcaps' = [pcaps EXCEPT ![n] = [id |-> id, data |-> d]]
                 /\ incoming' = incoming
      <4>1. PICK n \in Name, id \in Nat, d \in Data :
              /\ d \in Offered(n) \cap Container
              /\ pcaps' = [pcaps EXCEPT ![n] = [id |-> id, data |-> d]]
              /\ incoming' = incoming
        BY <3>6
      <4>2. [id |-> id, data |-> d] # None
        <5>1. [id |-> id, data |-> d] \in [id : Nat, data : Data \cup {Torn}]
          OBVIOUS
        <5>2. QED
          BY <5>1
      <4>3. \A m \in Name : pcaps'[m] = IF m = n THEN [id |-> id, data |-> d]
                                                 ELSE pcaps[m]
        BY <3>4, <4>1
      <4>4. ev' = [ev EXCEPT ![n] = d]
        <5>1. pcaps'[n] # None /\ pcaps'[n].data = d
          BY <4>2, <4>3
        <5>2. \A m \in Name \ {n} : pcaps'[m] = pcaps[m]
          BY <4>3
        <5>3. \A m \in Name : ev'[m] = IF m = n THEN d ELSE ev[m]
          BY <5>1, <5>2
        <5>4. QED
          BY <5>3
      <4>5. in' = in
        BY <4>1
      <4>6. d \in of[n] \cap Container
        BY <4>1
      <4>7. Custody!Publish(n, d)
        BY <3>3, <4>4, <4>5, <4>6 DEF Custody!Publish
      <4>8. QED
        BY <4>7 DEF Custody!Next
    <3>7. CASE \E n \in Name : /\ pcaps[n] # None /\ pcaps' = pcaps
                              /\ incoming' = [incoming EXCEPT ![n] = 0]
      <4>1. PICK n \in Name : /\ pcaps[n] # None /\ pcaps' = pcaps
                             /\ incoming' = [incoming EXCEPT ![n] = 0]
        BY <3>7
      <4>2. in' = in \ {n}
        BY <3>4, <4>1
      <4>3. ev[n] # None
        <5>1. pcaps[n] \in Evidence
          BY <3>4, <4>1
        <5>2. pcaps[n].data \in Data \cup {Torn}
          BY <5>1 DEF Evidence
        <5>3. pcaps[n].data # None
          BY <5>2, DataAssumption
        <5>4. ev[n] = pcaps[n].data
          BY <4>1
        <5>5. QED
          BY <5>3, <5>4
      <4>4. ev' = ev
        BY <4>1
      <4>5. Custody!Discard(n)
        BY <3>3, <4>2, <4>3, <4>4 DEF Custody!Discard
      <4>6. QED
        BY <4>5 DEF Custody!Next
    <3>8. QED
      BY <1>2, <3>1, <3>5, <3>6, <3>7, SerialAct DEF SInv
  <2>4. CASE CrashJobs
    BY <2>2, <2>4 DEF CrashJobs
  <2>5. CASE UNCHANGED fsvars
    BY <2>2, <2>5 DEF fsvars
  <2>6. QED
    BY <1>2, <2>1, <2>3, <2>4, <2>5, NextSteps
<1>3. SInv /\ [Next]_fsvars => SInv'
  BY NextSInv
<1>4. QED
  BY <1>1, <1>2, <1>3, InitSInv, PTL DEF Spec, ImplementsCustody, Custody!Spec
=============================================================================
