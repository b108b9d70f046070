------------------------------ MODULE WlcIngest ------------------------------
(***************************************************************************)
(* The ingest of WLC embedded packet captures for one capture session:      *)
(* scans of Study Web (media_wlc_ingest_scan) turn SCP uploads in incoming/ *)
(* into evidence in pcaps/, register it as a capture and run the parser on  *)
(* it, one artifact row per file name.  Every SQL statement is its own      *)
(* transaction and every step of a scan may be the last one before Study    *)
(* Web restarts.  UploadFinalizer does the file system part of a scan,      *)
(* ParseMutex stands for the parse lock that ParseLock details.             *)
(***************************************************************************)
EXTENDS Naturals, Sequences, FiniteSets

CONSTANTS
  Worker,      \* scans that Study Web may have under way
  Web,         \* a parse of some other capture, requested from the browser
  Name, Data, Unsafe, BadMagic, Torn, None, MaxWrites,   \* UploadFinalizer
  Exports,     \* the contents the WLC may export under each name
  MaxRetries,  \* WLC_INGEST_MAX_RETRIES
  Overlap,     \* TRUE: a scan outlives curl's max-time, which frees the lock of
               \* the trigger, so that the timer starts another one
  LateWrites,  \* TRUE: the upload account writes a name after it looked stable
  Troubles,    \* subset of {"db", "restart", "disk", "sync", "web"}
  MaxTrouble   \* bound on how often trouble strikes

ASSUME IngestAssumption ==
  /\ Web \notin Worker /\ MaxRetries \in Nat /\ MaxTrouble \in Nat
  /\ {Overlap, LateWrites} \subseteq BOOLEAN
  /\ Exports \in [Name -> SUBSET Data]

VARIABLES
  uploads, incoming, pcaps, job,    \* the files, see UploadFinalizer
  row,         \* vocera_media_session_artifacts, state "none" without a row
  captures,    \* identities in vocera_media_captures of the file pcaps/<name>
  complete,    \* those whose last parse run succeeded
  runs,        \* parse runs started for a name, counted up to MaxRetries + 2
  scan,        \* where each scan is and the local variables it still uses
  holder,      \* the parse lock, see ParseMutex
  enabled,     \* media_execution_enabled()
  trouble      \* how often trouble has struck

fvars == <<uploads, incoming, pcaps, job>>
cvars == <<captures, complete, runs>>
vars  == <<uploads, incoming, pcaps, job, row, captures, complete, runs, scan,
           holder, enabled, trouble>>

F == INSTANCE UploadFinalizer
M == INSTANCE ParseMutex WITH Run <- Worker \cup {Web}

\* The files are as UploadFinalizer assumes, and a run is no state of the lock.
ASSUME PartsAssumption ==
  /\ F!DataAssumption
  /\ IsFiniteSet(Worker)
  /\ {M!Nobody, M!Lingering} \cap (Worker \cup {Web}) = {}

Waiting   == {"upload_detected", "waiting_for_stability"}
\* Deviation: a scan does not skip a parsed file.
IngestedNotParsed == {"promoted", "registered", "imported", "parsing",
                      "retry_pending"}
Ingested  == {"promoted", "registered", "imported", "parsing", "parsed",
              "retry_pending"}
\* Deviation: a parse that was refused is not tried again.
RetryableOnce == {"promoted", "registered", "imported", "failed"}
Retryable == {"promoted", "registered", "imported", "failed", "retry_pending"}
States    == {"none", "validating", "validated", "failed", "quarantined"}
               \cup Waiting \cup Ingested

NoRow == [state |-> "none", final |-> FALSE, sha |-> None, cap |-> 0,
          seen |-> 0, tries |-> 0]

NoScan == [pc |-> "idle", todo |-> {}, handled |-> {}, rows |-> {},
           n |-> None, prev |-> 0, sig |-> 0, data |-> None, cap |-> 0,
           tries |-> 0, retry |-> FALSE, out |-> "none"]

Init ==
  /\ F!FsInit
  /\ row = [n \in Name |-> NoRow]
  /\ captures = [n \in Name |-> {}]
  /\ complete = [n \in Name |-> {}]
  /\ runs = [n \in Name |-> 0]
  /\ scan = [w \in Worker |-> NoScan]
  /\ M!Init
  /\ enabled \in BOOLEAN
  /\ trouble = 0

At(w, pc) == scan[w].pc = pc
Go(w, pc) == scan' = [scan EXCEPT ![w].pc = pc]
Mine(w)   == scan[w].n

\* On to the next file or row; the names in h count as handled by this scan.
Leave(w, h) ==
  scan' = [scan EXCEPT ![w] =
             [NoScan EXCEPT !.pc = IF scan[w].retry THEN "rows" ELSE "files",
                            !.todo = scan[w].todo, !.rows = scan[w].rows,
                            !.handled = scan[w].handled \cup h]]

\* The file is dealt with up to its last upsert, which stores state out.
Conclude(w, out, cap) ==
  scan' = [scan EXCEPT ![w].pc = "settle", ![w].out = out, ![w].cap = cap]

Abort(w) == scan' = [scan EXCEPT ![w] = NoScan]

SetState(n, s) == row' = [row EXCEPT ![n].state = s]

Strike(kind) ==
  /\ kind \in Troubles /\ trouble < MaxTrouble
  /\ trouble' = trouble + 1

\* Deviation: the table has no unique index.
ShaNeverTaken(n, d) == FALSE

\* uq_vocera_media_session_artifacts_session_sha refuses the upsert.
ShaTaken(n, d) == \E m \in Name \ {n} : row[m].sha = d

\* A finalized file is new: its mtime gives it an identity no row or scan knows.
FreshId(n) ==
  LET known == captures[n] \cup {scan[w].cap : w \in Worker}
                 \cup {IF pcaps[n] = None THEN 0 ELSE pcaps[n].id}
  IN CHOOSE i \in 1 .. (Cardinality(known) + 1) :
       i \notin known /\ 1 .. (i - 1) \subseteq known

-----------------------------------------------------------------------------
(* The first pass: media_wlc_process_incoming for every file of incoming/.  *)

\* The trigger's flock admits one scan at a time, unless a scan outlives it.
StartScan(w) ==
  /\ At(w, "idle")
  /\ Overlap \/ \A v \in Worker : At(v, "idle")
  /\ scan' = [scan EXCEPT ![w] =
                [NoScan EXCEPT !.pc = "files",
                               !.todo = {n \in Name : incoming[n] # 0}]]
  /\ UNCHANGED <<fvars, row, cvars, holder, enabled, trouble>>

ReadRow(w) ==
  /\ At(w, "files")
  /\ \E n \in scan[w].todo :
       scan' = [scan EXCEPT
         ![w] = IF row[n].state \in Ingested
                THEN [scan[w] EXCEPT !.todo = @ \ {n}, !.handled = @ \cup {n}]
                ELSE [scan[w] EXCEPT !.todo = @ \ {n}, !.pc = "stat",
                                  !.n = n, !.prev = row[n].seen]]
  /\ UNCHANGED <<fvars, row, cvars, holder, enabled, trouble>>

StatUpload(w) ==
  LET n == Mine(w) IN
  /\ At(w, "stat")
  /\ IF incoming[n] = 0
     THEN Leave(w, {n})
     ELSE scan' = [scan EXCEPT ![w].pc = "decide", ![w].sig = F!Version(n)]
  /\ UNCHANGED <<fvars, row, cvars, holder, enabled, trouble>>

\* wait_new, wait_changed, or wait_too_soon when the file was unchanged for
\* less than the stability interval, which keeps the first observation.
Wait(w) ==
  LET n == Mine(w) IN
  /\ At(w, "decide")
  /\ row' = [row EXCEPT
       ![n].state = IF scan[w].prev = 0 THEN "upload_detected"
                                        ELSE "waiting_for_stability",
       ![n].seen = IF scan[w].prev = scan[w].sig THEN @ ELSE scan[w].sig]
  /\ Leave(w, {n})
  /\ UNCHANGED <<fvars, cvars, holder, enabled, trouble>>

\* Deviation: the row is validated before the finalization.
ClaimAsValidated(w) ==
  /\ At(w, "decide") /\ scan[w].prev # 0 /\ scan[w].prev = scan[w].sig
  /\ SetState(Mine(w), "validated")
  /\ Go(w, "finalize")
  /\ F!Begin(w, Mine(w))
  /\ UNCHANGED <<cvars, holder, enabled, trouble>>

\* ready: the row is validating and the finalization begins.
Claim(w) ==
  LET n == Mine(w) IN
  /\ At(w, "decide") /\ scan[w].prev # 0 /\ scan[w].prev = scan[w].sig
  /\ SetState(n, "validating")
  /\ Go(w, "finalize")
  /\ F!Begin(w, n)
  /\ UNCHANGED <<cvars, holder, enabled, trouble>>

\* One step of finalize_upload_to_pcaps.  A disk that fails is trouble, and so
\* is a sync that fails after a file was removed.
Finalize(w) ==
  /\ At(w, "finalize")
  /\ \/ F!Step(w, FreshId(Mine(w))) /\ UNCHANGED trouble
     \/ F!DiskFails(w) /\ Strike("disk")
     \/ F!SyncFails(w) /\ Strike("sync")
  /\ UNCHANGED <<row, cvars, scan, holder, enabled>>

FinalizationFailed(w) ==
  LET n == Mine(w) IN
  /\ At(w, "finalize") /\ F!At(w, "failed")
  /\ SetState(n, IF job[w].why \in F!Quarantining THEN "quarantined"
                                                  ELSE "failed")
  /\ F!Return(w)
  /\ Leave(w, {n})
  /\ UNCHANGED <<cvars, holder, enabled, trouble>>

\* The hash is stored, or refused by the unique index: the exception leaves
\* media_wlc_process_incoming and the file does not count as handled.
Validated(w) ==
  LET n == Mine(w)
      d == job[w].buf
  IN
  /\ At(w, "finalize") /\ F!At(w, "done")
  /\ IF ShaTaken(n, d)
     THEN Leave(w, {}) /\ UNCHANGED row
     ELSE /\ row' = [row EXCEPT ![n].state = "validated", ![n].final = TRUE,
                                ![n].sha = d]
          /\ scan' = [scan EXCEPT ![w].pc = "promote", ![w].data = d]
  /\ F!Return(w)
  /\ UNCHANGED <<cvars, holder, enabled, trouble>>

\* The duplicate query selects rows of the session with the same hash.  If it
\* finds one, both upserts that may follow store the hash a second time and are
\* refused; so a file is either promoted or left behind with an exception.
Promote(w) ==
  LET n == Mine(w) IN
  /\ At(w, "promote")
  /\ IF ShaTaken(n, scan[w].data)
     THEN Leave(w, {}) /\ UNCHANGED row
     ELSE /\ row' = [row EXCEPT ![n].state = "promoted", ![n].final = TRUE,
                                ![n].sha = scan[w].data]
          /\ Go(w, "look")
  /\ UNCHANGED <<fvars, cvars, holder, enabled, trouble>>

-----------------------------------------------------------------------------
(* media_register_capture_record and media_run_capture_parse, for both      *)
(* passes.                                                                  *)

\* Deviation: captures are looked up by identity only.
LookById(w) ==
  LET n == Mine(w) IN
  /\ At(w, "look") /\ pcaps[n] # None
  /\ scan' = [scan EXCEPT
       ![w].cap = pcaps[n].id,
       ![w].pc = IF pcaps[n].id \in captures[n] THEN "link" ELSE "insert"]
  /\ UNCHANGED <<fvars, row, cvars, holder, enabled, trouble>>

\* Look for captures of the file: reuse the one with its identity, refuse a
\* path registered with another identity (409), or go on to insert.
Look(w) ==
  LET n == Mine(w) IN
  /\ At(w, "look")
  /\ pcaps[n] # None \/ ~scan[w].retry
  /\ IF pcaps[n] = None \/ (captures[n] # {} /\ pcaps[n].id \notin captures[n])
     THEN Conclude(w, "failed", 0)
     ELSE scan' = [scan EXCEPT
                     ![w].cap = pcaps[n].id,
                     ![w].pc = IF captures[n] = {} THEN "insert" ELSE "link"]
  /\ UNCHANGED <<fvars, row, cvars, holder, enabled, trouble>>

\* Deviation: a failing insert is not noticed.
InsertUnchecked(w) ==
  /\ At(w, "insert")
  /\ Go(w, "link")
  /\ UNCHANGED <<fvars, row, cvars, holder, enabled, trouble>>

\* The insert fails if another scan has registered the file in between.
Insert(w) ==
  LET n == Mine(w)
      c == scan[w].cap
  IN
  /\ At(w, "insert")
  /\ IF c \in captures[n]
     THEN Conclude(w, "failed", 0) /\ UNCHANGED captures
     ELSE Go(w, "link") /\ captures' = [captures EXCEPT ![n] = @ \cup {c}]
  /\ UNCHANGED <<fvars, row, complete, runs, holder, enabled, trouble>>

\* registered (and imported, if the parser is disabled), or retry_pending.
Link(w) ==
  LET n == Mine(w) IN
  /\ At(w, "link")
  /\ row' = [row EXCEPT
       ![n].cap = scan[w].cap,
       ![n].state = IF scan[w].retry THEN "retry_pending"
                    ELSE IF enabled THEN "registered" ELSE "imported"]
  /\ IF scan[w].retry \/ enabled THEN Go(w, "parsing") ELSE Leave(w, {n})
  /\ UNCHANGED <<fvars, cvars, holder, enabled, trouble>>

MarkParsing(w) ==
  /\ At(w, "parsing")
  /\ row' = [row EXCEPT ![Mine(w)].state = "parsing",
                        ![Mine(w)].cap = scan[w].cap]
  /\ Go(w, "parse")
  /\ UNCHANGED <<fvars, cvars, holder, enabled, trouble>>

\* Deviation: a refused retry leaves its row parsing.
RefusalForgotten(w) ==
  LET n == Mine(w) IN
  /\ At(w, "parse") /\ pcaps[n] # None
  /\ pcaps[n].id # scan[w].cap \/ holder # M!Nobody
  /\ Conclude(w, IF scan[w].retry THEN "parsing" ELSE "failed", scan[w].cap)
  /\ UNCHANGED <<fvars, row, cvars, holder, enabled, trouble>>

\* 409, the file's identity changed or the lock is busy: transient for a retry.
ParseRefused(w) ==
  LET n == Mine(w) IN
  /\ At(w, "parse") /\ pcaps[n] # None
  /\ pcaps[n].id # scan[w].cap \/ holder # M!Nobody
  /\ Conclude(w, IF scan[w].retry THEN "retry_pending" ELSE "failed",
              scan[w].cap)
  /\ UNCHANGED <<fvars, row, cvars, holder, enabled, trouble>>

\* stat of a missing file is not an HTTPException: the whole scan ends.
StatAborts(w) ==
  /\ At(w, "parse") \/ (At(w, "look") /\ scan[w].retry)
  /\ pcaps[Mine(w)] = None
  /\ Abort(w)
  /\ UNCHANGED <<fvars, row, cvars, holder, enabled, trouble>>

\* Deviation: the parser starts without the lock.
StartUnlocked(w) ==
  LET n == Mine(w) IN
  /\ At(w, "parse") /\ pcaps[n] # None /\ pcaps[n].id = scan[w].cap
  /\ holder' = w
  /\ complete' = [complete EXCEPT ![n] = @ \ {scan[w].cap}]
  /\ runs' = [runs EXCEPT ![n] = IF @ < MaxRetries + 2 THEN @ + 1 ELSE @]
  /\ Go(w, "running")
  /\ UNCHANGED <<fvars, row, captures, enabled, trouble>>

StartParser(w) ==
  LET n == Mine(w) IN
  /\ At(w, "parse") /\ pcaps[n] # None /\ pcaps[n].id = scan[w].cap
  /\ M!Acquire(w)
  /\ complete' = [complete EXCEPT ![n] = @ \ {scan[w].cap}]
  /\ runs' = [runs EXCEPT ![n] = IF @ < MaxRetries + 2 THEN @ + 1 ELSE @]
  /\ Go(w, "running")
  /\ UNCHANGED <<fvars, row, captures, enabled, trouble>>

RunSucceeds(n, c) ==
  /\ pcaps[n] # None /\ pcaps[n].id = c
  /\ complete' = [complete EXCEPT ![n] = @ \cup {c}]

\* Deviation: the result of the parser is not looked at.
ParserAlwaysSucceeds(w) ==
  /\ At(w, "running")
  /\ M!Finish(w) /\ holder' = M!Nobody
  /\ Conclude(w, "parsed", scan[w].cap)
  /\ UNCHANGED <<fvars, row, cvars, enabled, trouble>>

\* The parser exits or times out; success needs the registered file in place.
\* A file that another scan has replaced is imported under its own identity.
ParserEnds(w) ==
  LET n == Mine(w)
      c == scan[w].cap
  IN
  /\ At(w, "running")
  /\ M!Finish(w) /\ holder' = M!Nobody
  /\ \/ /\ RunSucceeds(n, c)
        /\ Conclude(w, "parsed", c)
        /\ UNCHANGED captures
     \/ /\ UNCHANGED complete
        /\ Conclude(w, "failed", c)
        /\ \/ UNCHANGED captures
           \/ /\ pcaps[n] # None /\ pcaps[n].id # c
              /\ captures' = [captures EXCEPT ![n] = @ \cup {pcaps[n].id}]
  /\ UNCHANGED <<fvars, row, runs, enabled, trouble>>

\* The last upsert of a file; only a failed retry stores the retry count.
Settle(w) ==
  LET n == Mine(w) IN
  /\ At(w, "settle")
  /\ row' = [row EXCEPT
       ![n].state = scan[w].out,
       ![n].cap = IF scan[w].cap = 0 THEN @ ELSE scan[w].cap,
       ![n].tries = IF scan[w].retry /\ scan[w].out = "failed"
                    THEN scan[w].tries + 1 ELSE @]
  /\ Leave(w, {n})
  /\ UNCHANGED <<fvars, cvars, holder, enabled, trouble>>

-----------------------------------------------------------------------------
(* The second pass: media_wlc_retry_promoted_artifacts.                     *)

ListRows(w) ==
  /\ At(w, "files") /\ scan[w].todo = {}
  /\ scan' = [scan EXCEPT ![w] =
       [NoScan EXCEPT !.pc = "rows",
          !.rows = {[n |-> n, cap |-> row[n].cap, tries |-> row[n].tries] :
                      n \in {m \in Name \ scan[w].handled :
                               /\ enabled
                               /\ row[m].state \in Retryable /\ row[m].final}}]]
  /\ UNCHANGED <<fvars, row, cvars, holder, enabled, trouble>>

\* media_wlc_retry_one gives up at the limit or without a file in pcaps/,
\* registers the file if the row has no capture, or goes on to parse it.
RetryRow(w) ==
  /\ At(w, "rows")
  /\ \E r \in scan[w].rows :
       LET rest == scan[w].rows \ {r} IN
       IF r.tries >= MaxRetries \/ pcaps[r.n] = None
       THEN /\ row' = [row EXCEPT
                 ![r.n].state = "failed",
                 ![r.n].tries = IF r.tries >= MaxRetries THEN r.tries
                                                         ELSE r.tries + 1]
            /\ scan' = [scan EXCEPT ![w].rows = rest]
       ELSE /\ scan' = [scan EXCEPT
                 ![w] = [NoScan EXCEPT
                           !.pc = IF r.cap = 0 THEN "look" ELSE "link",
                           !.rows = rest, !.n = r.n, !.cap = r.cap,
                           !.tries = r.tries, !.retry = TRUE]]
            /\ UNCHANGED row
  /\ UNCHANGED <<fvars, cvars, holder, enabled, trouble>>

EndScan(w) ==
  /\ At(w, "rows") /\ scan[w].rows = {}
  /\ scan' = [scan EXCEPT ![w] = NoScan]
  /\ UNCHANGED <<fvars, row, cvars, holder, enabled, trouble>>

-----------------------------------------------------------------------------
(* The surroundings.                                                        *)

LooksStable(n) ==
  \/ row[n].state \notin {"none"} \cup Waiting
  \/ \E w \in Worker : At(w, "decide") /\ Mine(w) = n
                      /\ scan[w].prev = scan[w].sig

\* The WLC exports a capture, perhaps with a pause that makes it look stable.
Upload(n, d) ==
  /\ LateWrites \/ ~LooksStable(n)
  /\ F!Upload(n, d)
  /\ UNCHANGED <<row, cvars, scan, holder, enabled, trouble>>

\* A statement fails outside any handler of the scanned file: the first pass
\* goes on to the next file, the second pass ends with the scan.
StatementFails(w) ==
  /\ Strike("db")
  /\ \/ /\ scan[w].pc \in {"decide", "promote", "link", "parsing", "settle"}
        /\ UNCHANGED fvars
     \/ /\ At(w, "finalize")
        /\ F!Return(w)
  /\ IF scan[w].retry THEN Abort(w) ELSE Leave(w, {})
  /\ UNCHANGED <<row, cvars, holder, enabled>>

\* The query for the session of a file, or for the rows to retry, fails.
ScanFails(w) ==
  /\ Strike("db")
  /\ At(w, "files")
  /\ Abort(w)
  /\ UNCHANGED <<fvars, row, cvars, holder, enabled>>

\* A statement of the registration or of the parse run fails, or the file is
\* over the limit of the parser: failed.  Releasing the lock may fail as well,
\* even after the success of the run was recorded.
HandledFailure(w) ==
  /\ Strike("db")
  /\ \/ /\ scan[w].pc \in {"look", "insert"}
        /\ Conclude(w, "failed", 0) /\ UNCHANGED <<holder, complete>>
     \/ /\ At(w, "parse")
        /\ Conclude(w, "failed", scan[w].cap) /\ UNCHANGED complete
        /\ UNCHANGED holder \/ M!Linger
     \/ /\ At(w, "running")
        /\ Conclude(w, "failed", scan[w].cap)
        /\ UNCHANGED complete \/ RunSucceeds(Mine(w), scan[w].cap)
        /\ M!Finish(w)
  /\ UNCHANGED <<fvars, row, captures, runs, enabled>>

\* Study Web restarts, perhaps with another setting of the parser switch.
Restart ==
  /\ Strike("restart")
  /\ scan' = [w \in Worker |-> NoScan]
  /\ F!CrashJobs
  /\ holder' = IF holder = M!Nobody THEN M!Nobody ELSE M!Lingering
  /\ enabled' \in BOOLEAN
  /\ UNCHANGED <<row, cvars>>

\* A row of the lock left behind is cleared once its lease has ended.
LeaseEnds ==
  /\ M!Clear
  /\ UNCHANGED <<fvars, row, cvars, scan, enabled, trouble>>

\* Somebody parses another capture from the browser.
WebParse ==
  /\ Strike("web") /\ M!Acquire(Web)
  /\ UNCHANGED <<fvars, row, cvars, scan, enabled>>

WebParseEnds ==
  /\ M!Finish(Web) /\ holder' = M!Nobody
  /\ UNCHANGED <<fvars, row, cvars, scan, enabled, trouble>>

ScanStep(w) ==
  \/ StartScan(w) \/ ReadRow(w) \/ StatUpload(w) \/ Wait(w) \/ Claim(w)
  \/ Finalize(w) \/ FinalizationFailed(w) \/ Validated(w) \/ Promote(w)
  \/ Look(w) \/ Insert(w) \/ Link(w) \/ MarkParsing(w)
  \/ ParseRefused(w) \/ StatAborts(w) \/ StartParser(w) \/ ParserEnds(w)
  \/ Settle(w) \/ ListRows(w) \/ RetryRow(w) \/ EndScan(w)

Next ==
  \/ \E w \in Worker : \/ ScanStep(w) \/ StatementFails(w) \/ ScanFails(w)
                      \/ HandledFailure(w)
  \/ \E n \in Name : \E d \in Exports[n] : Upload(n, d)
  \/ Restart \/ LeaseEnds \/ WebParse \/ WebParseEnds

Spec == Init /\ [][Next]_vars

\* The timer starts scans for ever and each comes to an end; a file that stays
\* unchanged is not too young for ever; leases and other parses end.
Fairness ==
  /\ \A w \in Worker : WF_vars(ScanStep(w))
  /\ \A w \in Worker, n \in Name : SF_vars(Claim(w) /\ Mine(w) = n)
  /\ WF_vars(LeaseEnds) /\ WF_vars(WebParseEnds)

FairSpec == Spec /\ Fairness
-----------------------------------------------------------------------------
Quiet == \A w \in Worker : At(w, "idle")

\* What a row says of a finalized file is true of the file: from validated on,
\* pcaps/ holds the bytes whose hash the row stores, however often statements fail
\* and Study Web restarts.  (A disk that fails behind the rename of a rewritten
\* upload leaves the row with the hash of the evidence that was replaced.)
EvidenceBehindRow ==
  \A n \in Name :
    row[n].state \in Ingested \cup {"validated"} =>
      /\ row[n].final
      /\ pcaps[n] # None /\ pcaps[n].data = row[n].sha

\* A row is parsed only if the last parse run of the file now in pcaps/ was a
\* success and the row links the capture it filled.
ParsedMeansComplete ==
  \A n \in Name :
    row[n].state = "parsed" =>
      /\ pcaps[n] # None
      /\ row[n].cap = pcaps[n].id
      /\ row[n].cap \in complete[n]

\* However often scans fail, end or restart, a file is registered once, and it
\* is parsed by its first scan and by at most MaxRetries retries.
OneCapturePerFile ==
  \A n \in Name : /\ \A c, d \in captures[n] : c = d
                  /\ runs[n] <= MaxRetries + 1

\* A parse run of the file that is now in pcaps/ has succeeded.
Parsed(n) == pcaps[n] # None /\ pcaps[n].id \in complete[n]

\* The evidence of one capture uploaded under two names is imported once, however
\* often statements fail and Study Web restarts.  (Not so on a disk that fails: the
\* unique index compares the hashes in the rows, see EvidenceBehindRow.)
NoContentParsedTwice ==
  \A n, m \in Name :
    n # m /\ Parsed(n) /\ Parsed(m) => pcaps[n].data # pcaps[m].data

\* A parsed row is final: no later scan changes it.
ParsedIsFinal ==
  [][\A n \in Name : row[n].state = "parsed" => row'[n] = row[n]]_vars

\* However scans overlap, fail and restart, the parser runs for one of them at
\* a time, and exactly for the one the parse lock names.
OneParserRuns ==
  \A w \in Worker : At(w, "running") <=> holder = w

\* Even when scans overlap, a row links a capture that was registered, and its
\* retries are counted, never beyond the limit.
RowLinksCapture ==
  \A n \in Name : /\ row[n].cap # 0 => row[n].cap \in captures[n]
                  /\ row[n].state = "parsed" => row[n].cap # 0
                  /\ row[n].tries <= MaxRetries

\* Between scans every file in pcaps/ is parsed or will be tried again: by the
\* second pass, or by the first one as its upload is still there.  A finalization
\* that fails after the rename leaves its evidence and a row without a path, but
\* the upload too; not if the sync fails that follows the removal of the upload.
FinalizedIsRetryable ==
  \A n \in Name :
    Quiet /\ pcaps[n] # None =>
      \/ row[n].state = "parsed"
      \/ row[n].state \in Retryable /\ row[n].final
      \/ row[n].state \notin Ingested /\ incoming[n] # 0

Settled(n) ==
  \/ row[n].state \in {"parsed", "quarantined"}
  \/ row[n].state = "failed" /\ row[n].tries >= MaxRetries

\* With the parser enabled every upload is in the end parsed, quarantined, or
\* given up after the last retry, whatever the disk refuses but that sync.
UploadsAreSettled ==
  []<>~enabled \/ \A n \in Name : uploads[n] # <<>> ~> Settled(n)
=============================================================================
