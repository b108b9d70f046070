--------------------------- MODULE UploadFinalizer ---------------------------
(***************************************************************************)
(* finalize_upload_to_pcaps: a stable SCP upload in incoming/ becomes       *)
(* service-owned evidence in pcaps/ under the same name.  The file system   *)
(* is shared with the upload account, which may create or rewrite a file    *)
(* between any two system calls, and with other scans of Study Web that     *)
(* work on the same file.                                                   *)
(*                                                                         *)
(* A file in incoming/ is its inode; every write of it is a new version, so *)
(* equal versions mean equal size, mtime and ctime.  scp rewrites a file in *)
(* place (open, truncate), so a rewrite keeps the inode.                    *)
(***************************************************************************)
EXTENDS Naturals, Sequences

CONSTANTS
  Worker,      \* scans that may finalize at the same time
  Name,        \* file names of one session package
  Data,        \* contents of a file
  Unsafe,      \* contents and objects the first lstat rejects: a symbolic or
               \* hard link, no regular file, empty, larger than the limit
  BadMagic,    \* contents without the magic number of a capture container
  Torn,        \* bytes of more than one version
  None,        \* no file under the name in pcaps/; no name
  MaxWrites    \* bound on the writes of the upload account to one name

ASSUME DataAssumption ==
  /\ Unsafe \subseteq Data /\ BadMagic \subseteq Data
  /\ Torn \notin Data /\ MaxWrites \in Nat
  /\ None \notin Name /\ None \notin Data \cup {Torn}
  /\ None \notin [id : Nat, data : Data \cup {Torn}]

VARIABLES
  uploads,     \* the contents of each name's versions, in order
  incoming,    \* the inode under the name in incoming/, 0 without one
  pcaps,       \* None or the evidence: its identity (path, size, mtime), data
  job          \* the finalization each worker has under way

fsvars == <<uploads, incoming, pcaps, job>>

Container == Data \ BadMagic
Quarantining ==
  {"unsafe_object", "invalid_magic", "source_changed_during_claim",
   "promotion_hash_mismatch"}
Failures == Quarantining \cup {"promotion_copy_failed", "disk_space_insufficient"}
Stages ==
  {"idle", "stat", "open", "copy", "recheck", "commit", "verify", "unlink",
   "done", "failed"}

Version(n) == Len(uploads[n])
Content(n) == uploads[n][Version(n)]

NoJob == [stage |-> "idle", name |-> None, ino |-> 0, ver |-> 0,
          buf |-> Torn, why |-> ""]

FsInit ==
  /\ uploads = [n \in Name |-> <<>>]
  /\ incoming = [n \in Name |-> 0]
  /\ pcaps = [n \in Name |-> None]
  /\ job = [w \in Worker |-> NoJob]

\* The upload account creates the file or rewrites it in place.
Upload(n, d) ==
  /\ Version(n) < MaxWrites
  /\ uploads' = [uploads EXCEPT ![n] = Append(@, d)]
  /\ incoming' = [incoming EXCEPT ![n] = IF @ = 0 THEN Version(n) + 1 ELSE @]
  /\ UNCHANGED <<pcaps, job>>

-----------------------------------------------------------------------------
(* The system calls of one finalization, in order.                          *)

At(w, stage) == job[w].stage = stage
Move(w, stage) == job' = [job EXCEPT ![w].stage = stage]
Fail(w, why) == job' = [job EXCEPT ![w].stage = "failed", ![w].why = why]
Failed(w) == At(w, "failed")
SameInode(w) == incoming[job[w].name] = job[w].ino

Begin(w, n) ==
  /\ At(w, "idle")
  /\ job' = [job EXCEPT ![w] = [NoJob EXCEPT !.stage = "stat", !.name = n]]
  /\ UNCHANGED <<uploads, incoming, pcaps>>

\* lstat of the source: missing, unsafe, or fine.
StatSource(w) ==
  LET n == job[w].name IN
  /\ At(w, "stat")
  /\ \/ incoming[n] = 0 /\ Fail(w, "promotion_copy_failed")
     \/ incoming[n] # 0 /\ Content(n) \in Unsafe /\ Fail(w, "unsafe_object")
     \/ incoming[n] # 0 /\ Content(n) \notin Unsafe
          /\ job' = [job EXCEPT ![w].stage = "open", ![w].ino = incoming[n]]
  /\ UNCHANGED <<uploads, incoming, pcaps>>

\* Deviation: the magic number is not read.
OpenAnyContent(w) ==
  /\ At(w, "open")
  /\ \/ ~SameInode(w) /\ Fail(w, "source_changed_during_claim")
     \/ SameInode(w) /\ job' = [job EXCEPT ![w].stage = "copy",
                                    ![w].ver = Version(job[w].name)]
  /\ UNCHANGED <<uploads, incoming, pcaps>>

\* Open without following links, compare the inode, read the magic number.
OpenSource(w) ==
  LET n == job[w].name IN
  /\ At(w, "open")
  /\ \/ ~SameInode(w) /\ Fail(w, "source_changed_during_claim")
     \/ SameInode(w) /\ Content(n) \in BadMagic /\ Fail(w, "invalid_magic")
     \/ SameInode(w) /\ Content(n) \notin BadMagic
          /\ job' = [job EXCEPT ![w].stage = "copy", ![w].ver = Version(n)]
  /\ UNCHANGED <<uploads, incoming, pcaps>>

\* Copy the open file into a temporary file, hashing it.  A version written
\* since the open may be mixed in (and so may nothing be: Torn stands for both,
\* as the next step rejects the copy either way).
Copy(w) ==
  LET n == job[w].name IN
  /\ At(w, "copy")
  /\ job' = [job EXCEPT ![w].stage = "recheck",
                        ![w].buf = IF SameInode(w) /\ Version(n) = job[w].ver
                                   THEN Content(n) ELSE Torn]
  /\ UNCHANGED <<uploads, incoming, pcaps>>

\* Deviation: only the inode is compared after the copy.
RecheckInode(w) ==
  /\ At(w, "recheck")
  /\ IF SameInode(w) THEN Move(w, "commit")
                     ELSE Fail(w, "source_changed_during_claim")
  /\ UNCHANGED <<uploads, incoming, pcaps>>

\* Deviation: the upload is removed before its evidence is in place.
RecheckAndUnlink(w) ==
  /\ At(w, "recheck")
  /\ SameInode(w) /\ Version(job[w].name) = job[w].ver
  /\ Move(w, "commit")
  /\ incoming' = [incoming EXCEPT ![job[w].name] = 0]
  /\ UNCHANGED <<uploads, pcaps>>

\* The open file must not have been written and must still have its name.
Recheck(w) ==
  /\ At(w, "recheck")
  /\ IF SameInode(w) /\ Version(job[w].name) = job[w].ver
     THEN Move(w, "commit") ELSE Fail(w, "source_changed_during_claim")
  /\ UNCHANGED <<uploads, incoming, pcaps>>

\* os.replace of the temporary file; id is the identity the new file has.
Commit(w, id) ==
  /\ At(w, "commit")
  /\ pcaps' = [pcaps EXCEPT ![job[w].name] = [id |-> id, data |-> job[w].buf]]
  /\ Move(w, "verify")
  /\ UNCHANGED <<uploads, incoming>>

\* Hash the evidence; on a mismatch delete it.
Verify(w) ==
  LET n == job[w].name IN
  /\ At(w, "verify")
  /\ \/ pcaps[n] = None
          /\ Fail(w, "promotion_copy_failed") /\ UNCHANGED pcaps
     \/ pcaps[n] # None /\ pcaps[n].data # job[w].buf
          /\ Fail(w, "promotion_hash_mismatch")
          /\ pcaps' = [pcaps EXCEPT ![n] = None]
     \/ pcaps[n] # None /\ pcaps[n].data = job[w].buf
          /\ Move(w, "unlink") /\ UNCHANGED pcaps
  /\ UNCHANGED <<uploads, incoming>>

\* Remove the upload if its name is still the claimed inode, whatever was written
\* to it since it was last compared; stat the evidence.
UnlinkSource(w) ==
  LET n == job[w].name IN
  /\ At(w, "unlink")
  /\ incoming' = [incoming EXCEPT ![n] = IF SameInode(w) THEN 0 ELSE @]
  /\ IF pcaps[n] = None THEN Fail(w, "promotion_copy_failed")
                          ELSE Move(w, "done")
  /\ UNCHANGED <<uploads, pcaps>>

\* There is no space for the copy, or the disk refuses a later step: the
\* temporary file, its permissions or the rename; syncing pcaps/ or reading the
\* evidence that is already in place; the lstat or the unlink of the upload.
DiskFails(w) ==
  LET n == job[w].name IN
  /\ \/ At(w, "stat") /\ incoming[n] # 0 /\ Content(n) \notin Unsafe
          /\ Fail(w, "disk_space_insufficient")
     \/ job[w].stage \in {"copy", "commit", "verify", "unlink"}
          /\ Fail(w, "promotion_copy_failed")
  /\ UNCHANGED <<uploads, incoming, pcaps>>

\* A file is removed, the mismatching evidence or the upload, and the call after
\* it fails: the sync of its directory, or the last stat of the evidence.
SyncFails(w) ==
  LET n == job[w].name IN
  /\ \/ /\ At(w, "verify") /\ pcaps[n] # None /\ pcaps[n].data # job[w].buf
        /\ pcaps' = [pcaps EXCEPT ![n] = None] /\ UNCHANGED incoming
     \/ /\ At(w, "unlink") /\ SameInode(w)
        /\ incoming' = [incoming EXCEPT ![n] = 0] /\ UNCHANGED pcaps
  /\ Fail(w, "promotion_copy_failed")
  /\ UNCHANGED uploads

\* The caller has its answer.
Return(w) ==
  /\ job[w].stage \in {"done", "failed"}
  /\ job' = [job EXCEPT ![w] = NoJob]
  /\ UNCHANGED <<uploads, incoming, pcaps>>

\* Study Web dies: the finalizations are gone, the files stay.
CrashJobs ==
  /\ job' = [w \in Worker |-> NoJob]
  /\ UNCHANGED <<uploads, incoming, pcaps>>

\* One step of the finalization w has under way.
Step(w, id) ==
  \/ StatSource(w) \/ OpenSource(w) \/ Copy(w) \/ Recheck(w)
  \/ Commit(w, id) \/ Verify(w) \/ UnlinkSource(w)

-----------------------------------------------------------------------------
(* On its own: workers finalize any names, as the incoming scans make them. *)

Next ==
  \/ \E n \in Name, d \in Data : Upload(n, d)
  \/ \E w \in Worker, n \in Name : incoming[n] # 0 /\ Begin(w, n)
  \/ \E w \in Worker : \/ StatSource(w) \/ OpenSource(w) \/ Copy(w)
                       \/ Recheck(w) \/ Commit(w, 0) \/ Verify(w)
                       \/ UnlinkSource(w) \/ DiskFails(w) \/ SyncFails(w)
                       \/ Return(w)
  \/ CrashJobs

Spec == FsInit /\ [][Next]_fsvars

TypeOK ==
  /\ uploads \in [Name -> Seq(Data)]
  /\ incoming \in [Name -> Nat]
  /\ pcaps \in [Name -> [id : Nat, data : Data \cup {Torn}] \cup {None}]
  /\ job \in [Worker -> [stage : Stages, name : Name \cup {None}, ino : Nat,
                         ver : Nat, buf : Data \cup {Torn},
                         why : Failures \cup {""}]]
  /\ \A w \in Worker : At(w, "idle") \/ job[w].name \in Name

Offered(n) == {uploads[n][i] : i \in DOMAIN uploads[n]}

\* Evidence is one whole version of the upload, and a capture container, no
\* matter what the upload account writes during the copy and how many scans
\* finalize the file: the magic number that was read is the one that is kept.
EvidenceIsOneVersion ==
  \A n \in Name : pcaps[n] # None =>
                    pcaps[n].data \in Offered(n) \cap Container

\* The upload is still there, or its last version is the evidence.
Kept(n) ==
  \/ incoming[n] # 0
  \/ pcaps[n] # None /\ pcaps[n].data = Content(n)

\* The evidence is the version that a finalization compared before publishing
\* it, and a later one was written in place before the upload is removed.
Overtaken(n) ==
  \E w \in Worker : /\ At(w, "unlink") /\ job[w].name = n
                    /\ job[w].ver < Version(n)
                    /\ pcaps[n] # None /\ pcaps[n].data = uploads[n][job[w].ver]

\* No version of an upload is lost: an upload is removed only when its last
\* version is in pcaps/, and is not overwritten or deleted there afterwards.
\* Whatever fails, the one exception is a version written in place after the
\* comparison of the copied file: the removal compares the inode alone.
NoUploadIsLost ==
  [][\A n \in Name : Kept(n) => Kept(n)' \/ Overtaken(n)]_fsvars

Custody == INSTANCE EvidenceCustody WITH
  Trusted  <- Container,
  Absent   <- None,
  present  <- {n \in Name : incoming[n] # 0},
  offered  <- [n \in Name |-> Offered(n)],
  evidence <- [n \in Name |-> IF pcaps[n] = None THEN None
                              ELSE pcaps[n].data]

\* Finalization keeps the custody promises: evidence is published whole from
\* what was offered, is never withdrawn, and only then the upload is discarded.
ImplementsCustody == Custody!Spec
=============================================================================
