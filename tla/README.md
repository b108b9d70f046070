# Verification of Study Web and its collectors

This directory holds TLA+ models of the stateful parts of the repository, the
TLC runs that check them, and proofs that TLAPS checks. Paths below are
relative to the repository; `main.py` is `tools/study_web/main.py`, and files of
`tools/vocera_media_qoe/`, `tools/vocera_rf_validation/` and
`tools/wireless_rf/wireless_rf/` go by their names (`ingest.py` is
`vocera_wlc_session_ingest.py`).

## 1. The system

Study Web is a FastAPI process whose handlers run in threads and talk to
PostgreSQL through one `psql` process per statement. Around it stand commands
that a systemd timer or an operator starts: a publisher of media captures, a
packager of capture sessions, importers of RF surveys, collectors of wireless
statistics, a runner of migrations. They share directories and tables, and next
to no locks.

| Component | State it keeps | Operations | Interacts with |
|---|---|---|---|
| Parse lock (`main.py` 3019-3087, 5431-5626) | one row with a lease, runs of the parser | acquire, take over, release, run, time out | ingest, browser |
| Upload finalizer (`ingest.py` 381-556) | `incoming/<name>`, a temporary file, `pcaps/<name>` | one call, twelve system calls | upload account, scans |
| Ingest scan (`main.py` 5304-5626, 5900-6228, 6549-6605) | artifact rows, capture rows | first pass per file, second pass per row | both of the above, timer |
| Transcripts (`main.py` 6385-6547, `vocera_wlc_cli.py`) | terminal logs, snapshots, observations | third part of a scan | attempts, recorder |
| Broadcast attempts (`main.py` 3642-4057) | attempt and event rows, active-group sheets | event, start, outcome, group, end | operators, transcripts |
| Session package (`vocera_wlc_session.py`) | JSON files of a package | init, mark, start, outcome, resolve | operators |
| Capture sessions and AP-OTA legs (`main.py` 5104-5303) | rows, packages, a configuration file | create, patch | controller, operators |
| Evidence import (`vocera_wlc_attempt.py`, `vocera_wlc_evidence.py`) | attempt directories, ledger, findings | fill, ingest, load | operators |
| ICAP downloads and publisher (`vocera_dnac_icap.py`, `vocera_media_qoe_batch.py`, `vocera_media_qoe_sql.py`) | raw files, sidecars, caches, textfile, capture rows | download, analyze, publish, load | Catalyst Center, timer |
| Packet parser (`vocera_media_qoe.py`) | none: a function of a file | analyze, render | publisher |
| RF runs (`main.py` 2370-2990, `run_executor.py`, `sql_export.py`) | run rows, candidates, observations, matches, an output directory | attach, execute, enter, reset, delete | importers, operators |
| Input catalog (`main.py` 901-1360, 2023-2315) | files in `incoming/`, rows | upload, scan, register, edit, delete | RF runs |
| RF importers and correlation (`badge_diag_parser.py`, `ekahau_importer.py`, `correlate.py`, `stats.py`) | none: functions of files | parse, match, correlate | RF runs |
| Projects, studies, samples (`main.py` 672-880, 1575-1930) | rows that refer to one another | create, patch, delete | RF runs |
| Wireless collectors (`client_collector.py`, `client_storage.py`, `storage.py`) | a raw file, two SQLite histories | collect, parse | Prometheus, controller |
| Migrations (`scripts/apply_vocera_media_qoe_migrations.py`) | a ledger, the tables | apply, dry run | releases |
| Deployment scripts, topology, UI, dashboards | manifests, one-shot files | | |

`PROJECT.json` lists each with its status and the modules that model it.

### What is hard here

* **Read, decide, write.** Nearly every handler looks something up in one
  transaction and writes in a later one. Other handlers come between: two
  broadcasts are started at once, a study is created in a project that is being
  deleted, a late outcome closes an attempt somebody else has closed.
* **Files without locks.** Packages, sidecars, caches, raw outputs and `.tmp`
  names are read, replaced or truncated by several processes.
* **An adversary that is only a file transfer.** The upload account may write
  between any two system calls; a recorder appends to the log a scan is reading.
* **Kills and failing statements.** A restart, a full disk or a refused statement
  may be the last thing that happens to a request, between any two of its steps.
* **Leases and retries.** The parse lock expires on the clock of the database; a
  retry after a failure counts, one refused by a busy parser must not.
* **Rebuilding around what an operator typed in.** A reload deletes the rows of a
  run and restores the manual entries; parsing an output twice must not count a
  radar event twice; an edited migration must not pass for the one that ran.
* **Readers of what machines print.** Sequence numbers wrap, badges print lines
  in any order, surveys run over midnight, and a log pasted from a terminal has
  to be cut where its sheets were.

`PROJECT.json` lists the hazards at their lines (section 7 names some more), each
with its properties.

## 2. Modules

| Module | What it is | Kind |
|---|---|---|
| `ParseMutex` | what the parse lock promises | abstract specification |
| `ParseLock` | the lock row with its lease, runs and time | state machine |
| `EvidenceCustody` | publish whole, never withdraw, discard last | abstract specification |
| `UploadFinalizer` | the system calls of the finalization | state machine |
| `WlcIngest` | both passes of a scan; composes `UploadFinalizer` and `ParseMutex` | state machine |
| `WlcTranscripts` | two scans of one growing terminal log | state machine |
| `WlcCli` | from the lines of a log to blocks, phases, snapshots | functions |
| `BroadcastAttempts` | requests around the attempts of a session | state machine |
| `SessionPackage` | commands that rewrite the JSON files of a package | state machine |
| `CaptureSessions` | sessions, legs, and the sheets in their packages | state machine |
| `WlcEvidence` | attempt directories, verdicts, the ledger | state machine |
| `CaptureHistory` | downloads, the publisher, its caches and rows | state machine |
| `MediaAnalyzer` | from frames to streams, losses and gauges | functions |
| `RfRuns` | runs, executions, reloads, manual entries | state machine |
| `InputCatalog` | the files of `incoming/` and their rows | state machine |
| `StudyTree` | projects, studies, their runs and samples | state machine |
| `RfCorrelation` | from badge lines and exports to matches and deltas | functions |
| `BadgeCollection` | which badges a collection asks | state machine |
| `RadarCounters` | cumulative counters and the deltas of each parse | state machine |
| `Collectors` | the two collectors, and what they promise together | composition |
| `Migrations` | runners, the ledger, and what stands in the database | state machine |
| `MC_*` | values of the constants, composition of parts, functions checked over bounded inputs | for TLC |
| `UploadFinalizer_proofs`, `WlcIngest_proofs` | theorems about the modules of these names | for TLAPS |
| `MediaQoe_proofs` | theorems about `CaptureHistory`, `MediaAnalyzer`, `ParseLock` | for TLAPS |
| `Attempts_proofs` | theorems about `BroadcastAttempts`, `WlcTranscripts`, `WlcCli` | for TLAPS |
| `Sessions_proofs` | theorems about `SessionPackage`, `CaptureSessions` | for TLAPS |
| `InputsAndRuns_proofs` | theorems about `InputCatalog`, `RfRuns` | for TLAPS |
| `StudyTree_proofs` | theorems about `StudyTree` | for TLAPS |
| `Ledgers_proofs` | theorems about `Migrations`, `WlcEvidence`, `Collectors` | for TLAPS |

    WlcIngest --INSTANCE--> UploadFinalizer --implements--> EvidenceCustody
        \------INSTANCE--> ParseMutex <--implements-- ParseLock
    MC_Sessions = BroadcastAttempts | SessionPackage | CaptureSessions
    MC_Readers  = WlcTranscripts | WlcCli | RfCorrelation | MediaAnalyzer
    MC_Stores   = Migrations | RfRuns | StudyTree | InputCatalog
                | CaptureHistory | WlcEvidence
                | Collectors (BadgeCollection | RadarCounters)

The components joined by `|` share no state that their properties are about, so
their products would only multiply states: a behaviour of such a run is one of
its parts, which the variable `part` picks at the start, and the others stand
still. The parts that have theorems are extended by the MC module, so that TLC
checks the very definitions the theorems name and evaluates their assumptions;
`WlcCli` and `RfCorrelation` are instances.

Two conventions hold throughout. One action is one statement, one system call or
one stretch of code between two points where another process can come in, with
all it changes; and a request is a record whose `at` or `stage` is the next such
point and whose other fields are its local variables. Operators preceded by a
comment that begins with "Deviation" are plausible mistakes: putting one in the
place of the definition after it makes a property fail, which `PROJECT.json`
lists under `mutants`.

### The ingest

*ParseLock.* `lock` is the row (its run, what is left of the lease), `phase[r]`
where a run is in `media_run_capture_parse`, `age[r]` how long it has been there.
The one statement of `media_acquire_parse_lock` becomes `Acquire`, `Refuse`,
`RefuseAndDeleteStale` (PostgreSQL leaves the order of the two modifying common
table expressions open: the insert may meet the stale row that the delete then
removes, and the caller gets a 409) and `AcquireUnseen` (the insert commits, psql
fails, and `lock_acquired` is not yet set). `Release` is the `finally` block,
`DeleteOwnRow` its statement. `Tick` is one unit on every clock.
`SlackAssumption` (`StartDelay < Slack`) is what the code relies on without
enforcing it: the two statements between the insert of the row and the start of
the subprocess take less than the 60 seconds a lease adds to the timeout.

*UploadFinalizer.* A file in `incoming/` is an inode with versions; a write makes
a new version, so equal versions stand for equal size, mtime and ctime. `job[w]`
is the finalization worker `w` has under way: its stage is the next system call.
A copy that sees a write is `Torn`. `Verify` reads whatever is at the
destination, its own file or another scan's, and deletes it on a mismatch, as
the code does. Contents in `Unsafe` stand for everything the first lstat rejects,
those in `BadMagic` for files that are no capture. `UnlinkSource` removes the upload
if its inode is the claimed one, whatever version it has by then, as line 519 does.
`DiskFails` is an `OSError` that changes nothing: no space, the temporary file, the
rename, and behind the rename the sync of `pcaps/`, the reading of the evidence or the
unlink. `SyncFails` is one right after a file was removed, the mismatching evidence or
the upload. Both end as `promotion_copy_failed` (539-540), the latter two with the
evidence in place.

*WlcIngest.* `row[n]` keeps what decides of an artifact row: `ingest_state`,
whether `final_path` is set, the hash, the capture, the observed signature and
the retry count. `scan[w]` is a scan: its place in the code and the local
variables it still uses. The last upsert of every path through
`media_wlc_process_incoming` and `media_wlc_retry_one` is `Settle`, with the
state computed before. `Leave` ends a file's turn and records whether its result
carried an artifact id, which is what excludes it from the second pass. Three
kinds of failure are separated as in the code: an `HTTPException` inside a `try`
of the file (`HandledFailure`: the row becomes `failed`), one outside
(`StatementFails`: the first pass goes on with the next file and the second pass
ends), and one outside of both, or an error that is no `HTTPException`
(`ScanFails`, `StatAborts`: the scan ends).

*WlcTranscripts.* A text is a sequence of blocks; a log is a growing text, given
by `Scripts`. A scan hashes the file, opens the artifact row, reads the text and
stores one block after the other: snapshot, observation, the VLAN of the attempt,
which the database refuses without an override reason. `WlcCli` says how lines
become blocks: a line is a record of what the patterns of the code see in it, and
the sheets are those the session package prints.

### What operators do around a session

*BroadcastAttempts.* `row` are the attempt rows, `event` the timeline, `sheet`
the active-group sheets, `req` the requests. `InsertOpen` is an insert under the
partial unique index on open attempts; `LookupOpen` and `CheckNoneOpen` are the
lookups before it. Three other writers of the rows come in at any moment, without an
event and without a sheet: a terminal log that puts its group on the attempt it names
(`UpdateFromSnapshot`, `main.py` 6328-6344), the transaction of an import
(`ImportAttempt`, `emit_attempt_sql`), and the schema file every import runs first
(`ApplySchema`, which takes marked open rows for old ones). The history variables
`raced`, `abandoned`, `imported` and `scanned` (`marks`) tell what has happened to an
attempt, so that each part of `TimelineAgreesWithRows` excepts only what it must.

*SessionPackage.* Each command reads whole files, changes a copy and writes it
back; a write truncates and then fills, and a killed command may leave a file
cut, which `read_json` takes for empty. `acked` are the events whose command
printed its result while commands had only taken turns, `harmed` the files a
kill has cut. A forced `init` empties both timelines and leaves the index: `erased`
are the acknowledged events it has taken from the timelines, and the rows of their
attempts are still claimed.

*CaptureSessions.* A session asks for a name that `safe_name` may have to change
(`spaced`); `crossed` are pairs whose creations overlapped or of which one was
brought back by a patch; `torn` are sessions whose sheets two requests wrote at
once.

### Stores and files

*CaptureHistory.* A capture is a number of bytes and every copy a prefix. A
download opens and truncates the `.tmp` file (`OpenTmp`), fills it (`Fill`), renames it
(`ReplaceFile`) and writes the sidecar; the publisher stats, analyzes (`ReadState`,
`Parse`), writes the JSON of a capture, its Prometheus text and the textfile
(`WriteJson`, `WriteProm`, `publish_cache`), and loads the history. `overlapped` and `torn` name the captures for which downloads met or the
publisher died between its two files.

*RfRuns.* An execution runs five programs over the shared output directory of its
run and then the SQL of `sql_export.py`, step by step; each step may fail. An
identity is a BSSID at a survey time. *InputCatalog*, *StudyTree*: requests in
two steps (read, write), with `raced` and `disturbed` for those that met. A file that
is missing can be registered or a row repointed to it: the row then has no hash and is
unavailable.
*WlcEvidence*: an operator fills the directory, an import writes a report and then
loads it in one transaction that the keys may refuse. *BadgeCollection* has a
clock; *RadarCounters* keeps in `dump` what a saved output shows and what had
happened by then. *Migrations* runs a file statement by statement (create a
table, drop and add a constraint: the statements of the migrations that are not
idempotent as a whole); a file may be edited at any time.

### Readers

`WlcCli`, `RfCorrelation` and `MediaAnalyzer` are operators. `MC_Readers` picks an
input of a bounded set and its invariants compare what the operators return with
a definition that does not follow the code: the blocks of a pasted log are its
sheets; the points of a survey meet the nearest scan of their day; loss is what
is missing between the first and the highest number received (`Arrives` says in
which orders packets come, `LossIsWhatIsMissing` what the counts then are).
`RejectionReasons` and `ReasonsAgainst` are the checks of `rtp_plausibility_check`,
also those of the clock rate, the packetization and the jitter; the frames of the run
contain streams that each of them rejects, retransmissions, and fragments.

## 3. Runs

| Run | Shows | Bounds |
|---|---|---|
| `parse_lock` | mutual exclusion, lease covers work, own row only, implements `ParseMutex`, a leftover row is cleared | 3 runs, timeouts 1 and 3, slack 2, floor 4: both branches of the lease |
| `finalize_serial` | no version of an upload is lost, implements `EvidenceCustody` | 1 worker, 2 names, 2 versions each, any step failing |
| `finalize_overlap` | evidence is one whole version | 2 workers, 1 name, 3 versions |
| `ingest_faults` | row and file agree, `parsed` is true and final, one capture | 1 scan, 1 name, 3 versions of any content, 3 troubles of database, restart, busy parser |
| `ingest_names` | one content is parsed once | 2 names, the same contents, 2 troubles of database and restart |
| `ingest_live` | nothing finalized is forgotten, every upload settles | 2 names with captures of their own, 2 versions, none while a file looks stable, 3 troubles of disk and busy parser |
| `ingest_overlap` | one parser, rows linked | 2 scans, 1 name, 2 versions, late writes, 1 trouble of database, busy parser, disk, sync |
| `sessions` | one open attempt, completed is final, timeline and row agree; the index of a package and what was acknowledged; names and legs | 1 session, 2 attempts, 2 groups, 2 requests, 1 scanned log or import; 2 commands, 1 kill, 2 inits; 2 sessions, 3 requests, 1 edit, 1 patch |
| `readers` | a grown log is stored and in the end parsed, by explicit attempts only; blocks, snapshots, matches and counts are what the input says | 2 scans, 2 attempts, 1 fault; logs of up to 3 sheets, texts of up to 4 lines, 4 badge lines with 7 exports, 5 packets, captures of 5 frames of 9 kinds |
| `stores` | nine properties of eight stores | 1 run with 2 surveys, 2 requests, 2 executions; 2 projects, 2 names, 2 captures and 2 passes over them, 2 attempts, 3 badges, 3 radar events, 2 migrations and 2 runners |
| `ingest_db_outage`, `capture_name_reuse` | section 5 | |

The constants of every run are in its `.cfg` and `MC_*` module. `Max...` bounds
are the only artificial guards but for two: `Bounded` in `MC_Sessions` weighs what is
told of an attempt (an event or a selection counts one, a stopped session or a scanned
log or import two, together below 4), lets the other writer of rows work beside one
request only, and looks at races and at requests that give up one at a time; and
`SecondPassFindsCache` in `MC_Stores` lets the second pass over the captures begin once
the first has written a cache, which is what the second one is there to reuse. Without
them the two runs do not end; the theorems of section 6 do not have them. The bounds reach what the properties are about:
two versions tell a stable file from a changing one, a third one is exported
after the evidence of the first was replaced; two retries show that the count is
kept and that the limit ends it; two requests are the least that can race, and a
third actor would only repeat what the second does, since each of them meets the
state and not the others; two executions show what an earlier one leaves behind;
two migrations show the order and two runners the overlap; a counter modulo 8
wraps within five packets, and a day of four seconds ends within four lines.

`SYMMETRY` permutes requests, groups and attempts in `sessions` (the parts share
these values), contents and workers in the finalizer runs and `ingest_overlap`.
No run with a liveness property has symmetry or a state constraint.
`CHECK_DEADLOCK FALSE` stands in the composed runs, where every part stops when
its bounds are used up.

### What the properties except

The code does not keep every promise when requests overlap, and a property that
claimed it would be false. The models keep history variables that name exactly
the objects concerned, and the properties except those and nothing else:

* `NoUploadIsLost`: a version written in place after the finalizer compared the
  copied file, since the removal compares the inode alone (`Overtaken`, section 5);
* `TimelineAgreesWithRows`: attempts a request gave up on between its two statements,
  and rows an import wrote, which comes without events. What the row says is in the
  timeline also where outcomes raced; that it is the *last* outcome there, and the last
  group in the package, is claimed where no two requests worked on the attempt at once,
  the group where no scanned log has put another on the row since;
* `AcknowledgedStays`: files a kill has cut, events acknowledged while commands
  overlapped; the timelines give up at a forced init what they had before it, the
  index does not; `OneOpenInIndex` has no exception;
* `CaptureNamesApart`: pairs of sessions created at once or brought back, and
  names that `safe_name` changes (`capture_name_reuse` is about those);
* `LegsFitTheirSession`: legs whose configuration was edited meanwhile, sheets
  two requests wrote;
* `ParsedLogIsStored`: logs two scans read at once;
* `TreeIsConsistent`, `CompleteIsOfTheSelection`: rows and runs two requests worked
  on at once;
* `ListedAsStored`: paths written while another request had already read them,
  contents an operator took away, and rows made for a file that was missing, which
  have no hash and tell no content;
* `EntriesSurviveReload`: values entered during a reload of the same run, entries an
  operator resets or whose run is removed, and points the reloaded files do not have;
* `CollectedIsObserved`: the sum of the deltas is claimed as long as outputs are
  parsed in the order they were saved, each as often as one likes;
* `SheetsAreCutApart`: the phase of the one start sheet that the code files as an
  export (section 5);
* `HistoryIsOfItsFiles`: that a file is whole, for captures whose downloads overlapped;
  that the Prometheus text is the JSON's, for those the publisher was killed at;
* `RecordedIsInPlace`: migrations two runners executed at once, or whose file was
  edited after a part of it had run;
* `NoUploadIsLost`, `EvidenceBehindRow`, `ParsedIsFinal`: checked with one scan
  at a time, which is what the trigger's `flock` gives while no scan outlives the
  600 seconds of its curl;
* `EvidenceBehindRow`, `NoContentParsedTwice`: a disk that works (neither `"disk"` nor
  `"sync"` among the troubles). A statement, a restart or a sync that fails behind the
  replacement of an older file leaves its hash in the row, and a copy that fails next
  sends the row to the second pass with it;
* `FinalizedIsRetryable`, `UploadsAreSettled`: no statement fails and nobody restarts,
  no two names carry one content, and the sync that follows the removal of an upload
  does not fail (section 5); the run, but not the theorem, also has an upload account
  that leaves alone what looks stable. Every other refusal of the disk is in.

## 4. Fairness

* `ParseLock`: time goes on, a call or run in progress comes to its next
  statement, the timer makes new calls. Crashes and failures are never forced.
* `WlcIngest`: weak fairness of every scan (the timer starts it again every
  minute, `OnUnitActiveSec=1min`, and a handler runs to its end); strong fairness
  of `Claim` for each name, since a file that stays unchanged is not for ever
  younger than the stability interval, although each scan may find it too young;
  leases and parses from the browser end. Nothing is assumed of uploads, nor of
  the parser's success.
* `WlcTranscripts`: weak fairness of the timer's `Start` and of each scan's work.
  Nothing is assumed of the scans an operator asks for, nor of the growth of the
  log; faults are bounded and never forced.

The other modules have no fairness: their requests come from people, and what
they promise is safety.

## 5. Where the code does not do what the documents say

Two runs have one property each, quoted from a document, and TLC finds it
violated; `PROJECT.json` quotes the lines.

| Run | What happens |
|---|---|
| `ingest_db_outage` | one failing statement after the finalization leaves the row in a state that no scan retries, although "a finalized artifact is retryable" |
| `capture_name_reuse` | the name check compares what the request spells with what `safe_name` has stored: two sessions that ask for `floor 2` both become `floor-2` |

Writing the models turned up more disagreements, which no run shows:

* a second upload of a content is refused by the unique index (`main.py` 6026)
  before the branch that links duplicates is reached, and stays `validating`;
* a quarantined file is taken up again by the next scan (`main.py` 5947; the
  docstring at 6203 calls quarantine final);
* a 409 for a changed identity is taken for a busy parser (`main.py` 6172) and
  retried without end;
* two overlapping finalizations of a re-exported file delete both copies
  (`ingest.py` 507);
* a version that is written in place, keeping the inode, between the last comparison
  of the copied file (`ingest.py` 484) and the unlink is removed without having become
  evidence: line 519 compares the inode alone, though the function compares size, mtime
  and ctime before;
* a directory sync that fails right after the unlink of the upload (522) is answered as
  a failed copy (539-540): the evidence is in `pcaps/`, the row is `failed` without a
  path, the upload is gone, and no scan ever takes the file up again;
* the start sheet of a capture without continuous export says "Final export
  occurs" and is filed as an export (`vocera_wlc_cli.py` 128);
* a reload deletes a value that was entered after the values were copied aside
  (`sql_export.py` 437);
* a reload "does not re-open completed rows" (docstring at `sql_export.py` 71), but it
  keeps the value an operator entered and not the match made of it. Unless the manual
  CSV supplies a match, a candidate completed before is `pending_manual_entry` again;
* the JSON of a capture is written before its Prometheus text, and a kill in
  between leaves old metrics under a cache that passes for current;
* the id of a finding leaves the attempt out (`vocera_wlc_evidence.py` 299): a
  second attempt with the same finding has its whole import refused;
* an older controller output that is parsed after a newer one makes the next
  delta count radar events twice (`storage.py` 137);
* the checksum of a migration is that of the file before it ran: an edit between
  hash and execution leaves a checksum of a text that never ran.

## 6. Proofs

`MediaQoe_proofs` proves, for any set of runs, any timeouts, any floor, and any
slack that covers the start of a subprocess, that `ParserHoldsLease` and
`OneRunAtWork` are invariant, that a live row is ended by its run only, and that
`ParseLock` implements `ParseMutex`. `ParserHoldsLease` is not inductive: nothing
in it says that the lease will last. `Coverage` adds it: while a run is queued,
the lease that is left plus the run's age is at least timeout plus slack; while
it parses, more than its timeout. Every other statement may then only refuse, as
the row is live, and `Tick` cannot bring it to zero.

The same module proves `HistoryIsOfItsFiles` for any captures and downloads, any
passes of the publisher, edits of sidecars and kills, with the two exceptions of
section 3. The property compares a
cached result with a file; the publisher reads the state of the file, parses it,
and writes the cache in three steps, and the file may be replaced before each.
The invariant therefore says of every state that was read or cached that it is
either the file's own of this moment (`IsNow`) or one whose mtime belongs to no
file any more (`IsGone`), and `RawInv` says why the second is for good: mtimes
come from a clock, the two names of a capture never share an inode or an mtime,
and a file keeps its bytes as long as it keeps its mtime (`FilesMove`). A result
that is not of the present bytes is then filed under a state that no later
comparison finds equal.

`LossIsCounted` is about an operator, `rtp_sequence_stats`: for any number of
packets, however often the counter wraps, the counts of the code are what
`LossIsWhatIsMissing` says, for every order that `Arrives` allows. The fold is
unfolded into the sequence of its intermediate states, and an induction over the
naturals (by way of the least counterexample) shows that the state after `k`
packets is `Counted` of the first `k` numbers. The argument is about numbers
before they wrap: a number that is nearer than half the modulus to the highest
one so far is told apart from all others by its remainder, so that the code's
choice of ahead, late or duplicate is the right one. What arrives farther ahead
is outside the theorem, and so are the restarts of a source that the code guesses.

`UploadFinalizer_proofs` proves in its first part, for any number of scans,
names, contents and writes, that `EvidenceIsOneVersion` is invariant. The
invariant follows a finalization by its stages: from the open on the claimed
version exists and is a container; from the copy on the buffer is that version or
`Torn`; from the recheck on it is not `Torn`, because versions only grow and the
recheck found the claimed one still the latest. Its second part assumes `Serial`,
that finalizations take turns, and proves `NoUploadIsLost` and the refinement of
`EvidenceCustody`, whatever step of the disk fails. `NoUploadIsLost` is about the last
version of an upload, not its name. The strengthening is `KeptBy`: a finalization past
the replacement finds its own bytes in `pcaps/`, so `Verify` never deletes and
`UnlinkSource` removes the upload of a file that has evidence. That evidence is the
version the finalization claimed, and the last one unless a write in place has
overtaken it since (`Overtaken`, section 5). Without `Serial` the property is false
(section 5).

`WlcIngest_proofs` is about the whole ingest: any number of overlapping scans,
names, exports and troubles, restarts included. It proves that two parsers never
run at once (`OneParserRuns`), that a row links only a capture that is registered
(`RowLinksCapture`), that what lies in `pcaps/` is one whole version of an upload,
for which the invariant of the finalizer is taken over step by step from
`UploadFinalizer_proofs`, and that the ingest implements `ParseMutex`. The first
three need one invariant. `JobMatch` ties each scan to the finalization it drives,
`ScanLink` says which capture a scan has found or made at each place of its code,
`ShaUnique` is the unique index, without which the upsert of one scan could take
the capture of another.

The second part of `WlcIngest_proofs` assumes `~Overlap`: scans take turns, as the
`flock` of the trigger makes them while none outlives its curl (section 5 has what
happens otherwise). Its invariants grow with what is claimed.

* `SInv` says with `FileOK` what the scan at work knows of its file at each stage
  (the row it read is still the row, the evidence it finalized is still there),
  and with `RowOK` what a row has behind it between scans. It gives
  `ParsedMeansComplete`, `ParsedIsFinal`, `OneCapturePerFile` (with the bound on
  repeated parses) and, through the invariant of the serial finalizer,
  `NoUploadIsLost` for the whole ingest, with the same one exception.
* `DInv` adds that a row names the hash of its evidence (`Behind`) and which
  file a scan has just refused (`Blamed`). It gives `EvidenceBehindRow` and
  `NoContentParsedTwice` while the disk works (neither `"disk"` nor `"sync"` in
  `Troubles`). That hypothesis is needed: a failed statement, or a sync that fails
  behind the replacement of an older file, leaves a stale hash, which the next
  successful finalization corrects, but a copy that fails in between marks the row
  `failed` and sends it to the second pass with it.
* `RInv` adds that a finalized file is parsed, can be retried or is in the hands
  of a scan (`Tended`). It gives `FinalizedIsRetryable` when no statement fails,
  nobody restarts, no sync fails right after a file was removed, and two names do
  not carry one content, whatever else the disk refuses and whatever other parses and
  the upload account do. Without the first it is false (`ingest_db_outage`); without
  the third a finalized file is forgotten, and without the last the second name stays
  `validating` (section 5).

`Attempts_proofs` proves, for any sessions, attempts, groups and any
number of overlapping requests, that a session has at most one open attempt and
that a completed attempt is never opened again. The invariant adds what a request
carries at each stage (`ReqOK`) and that a row has a session (`RowOK`): the upsert
closes the gap between lookup and insert only because the request still names the
attempt and the session it has looked up. `TimelineTellsTheRows` is about three
places at once, rows, timeline and sheets, which a request changes one after the
other. The rows have two more writers, the scan of a terminal log and the import of an evidence
package, which write neither. Its invariant `WInv` says that a row without its event
has a request on the way to write it, also where outcomes raced (`Covered`), and for
attempts that are not raced that a request is alone at them (`Sole`) and what last
word it carries (`Word`, `Kept`). What it excepts is in section 3. It assumes that the
requests are finitely many, as the overlap count is a cardinality.

For terminal logs it proves `ParsedLogIsStored` and `OnlyExplicitAttempts`, for any
scans and attempts, however a log changes from one reading to the next.
What has to be found is why a scan that finishes may mark the log as parsed though
earlier scans stopped anywhere: `HashIsOfTheText` says that a scan whose hash is
that of the present text has read that text, since the hash is taken first and no
earlier text comes back; `BlocksAreStored` that such a scan has left all blocks before
its own as they are now, with the attempt bound as it is bound now (`AttemptsAreKnown`:
every attempt the present text names exists already); `ArtifactIsOfThePast` that the
row never claims a text yet to come. `AttemptIsNamed`, which needs no order of scans,
gives the second property also while they overlap.

`CuttingKeepsLines` is about `transcript_command_blocks`, for texts of any length
and lines of any kind: the blocks are all lines from the first command on, each once
and in order, and `terminal length 0` stands only at the beginning of a block. The
fold over the lines is unfolded into its states as in `LossIsCounted`, and
`HoldsTheText` says what a state holds after `k` lines: nothing, if no command has
come; else blocks and open lines that together are the text from some line on,
before which no line is a command. What phase a block is given, and that a block is
exactly one sheet of the package, is only model-checked.

`Sessions_proofs` proves, for any commands, ids and results and any number
of events, kills and runs of `init`, that the index never holds two open attempts,
and that what was acknowledged while commands took turns stays, in the timelines until a
forced init (`erased` is what that took). For the first the
invariant has to say which buffers are rows, since a command that started from a
whole index may write it back after others did. The second rests on `AInv`: a
command that is alone has, at each file, a buffer with all that was acknowledged
before it and its own event (`Progress`), and has told it in the files it is done
with (`Done`), so that the acknowledgement at the end of the last one adds nothing
that some file does not hold; a file that is being filled has only the buffer to
vouch for it, which is why a kill there harms it.

Its second half proves `CaptureNamesApart` and `LegsFitTheirSession` for any sessions,
names, calls and edits of the configuration. `NamesInv` follows a name over the gap
between the check and the insert: `NameIsFree` says that no other active session
has it, but one the history variable names, and `RowIsApart` keeps that true of
the row once it is inserted, since a call that fails later may still set the row's
state. `ReceiverInv` does the same for the target a leg takes from the
configuration file, and `SheetsInv` says for a session that is not torn that one
request at a time prepares its leg and which of the two sheets that request has
still to write.

`InputsAndRuns_proofs` proves `NoIdentityLost`, `EntriesSurviveReload` and
`CompleteIsOfTheSelection` for any runs, files, identities and requests. The first
needs `CompleteHasMatch`: a candidate that is not offered has a match, also half
way through a reload, where the deletes and inserts come in an order that keeps
it. The other two are about steps: `OneExecution` says that an execution nobody
met owns the outputs of its run, `Leaves` which of them are from its own selection
at each stage, down to the rows the last statement leaves.

The module also proves `ListedAsStored`, for any names, contents, uploads, scans,
edits and deletions, with the exceptions of section 3: a row made for a file that was
missing has no hash, and the invariant is about rows that have one (`HashedAt`). A
handler looks rows up and acts on them later; `CatalogInv`
says what is left of that knowledge. Every row a handler has seen was read from a
file that still lies where it lay, or its path is raced (`IsRead`); a body under way
is at a path nobody else writes (`BodyIsPartial`, `BodiesApart`); and the duplicate
that an upload is about to hide has another row that shows its content
(`CopyIsShown`), which is what keeps an acknowledged upload offered. Each statement
is then shown to be `Monotone`: it takes no content away, and exceptions are made
for good.

`StudyTree_proofs` proves `TreeIsConsistent` for any projects, studies, runs, samples
and requests. A request checks its own side of a rule and writes later, so the
invariant is about what it carries over that gap. `StillTrue` says that what was
checked still holds of every row it touches that nobody disturbed, `Met` that two
requests share only disturbed rows, and `TreeOK` states the property for each row by
itself. `OthersKeep` then shows once for all statements that a row one request
changes is none that another relied on, since a statement changes and refers to
touched rows only (`OnlyTouched`). `TreeOK` keeps what it says of a study's scope and
runs while its project is disturbed, since a patch may take it to one that is not.

`Ledgers_proofs` proves `RecordedIsInPlace` for any number of migrations,
runners and versions. The property is about recorded migrations only; the
invariant has to say what stands half done. `OfOneText` says that an unrecorded
migration which is not mixed is made of nothing but its file's present text, so
that a runner after a kill completes what the dead one began; `Fits` follows a
runner through its statements; `OneHolder` says that two runners are not at work
on a migration that is not mixed, so that no statement of one pulls the constraint
from under the other; and `InOrder` that recorded migrations have no gap before
them, for which a runner's place in the list has to be covered too.

It proves `LedgerIsOneReport` for any attempts and amendments: what an import holds
between writing its report and loading it is one report, whose verdict and findings
are about the same evidence (`ReportIsSound`), and the findings in the database are
those of the row (`FindingsAreOfTheRow`), which the refusal of a load by the keys of
another attempt leaves as they were. And it proves `CollectedIsObserved` for any
badges, windows, access points and outputs. The first half, `FallbackIsRecent`, rests on
the raw file and the history holding only answers, and on a job being the last one
(`JobIsTheLast`). The second, `DeltasAreEvents`, is where the order of parsing
matters: a counter grows between two outputs by no more than what happened, and by
just that without a restart (`DumpsFollowEvents`); while outputs are parsed in their
order the last stored count is that of an output parsed no later than the last one
(`LastIsOfADump`), so that the deltas add up to the span of events between the
first and the last output and not to more.

The proofs use the constants' assumptions `TimesAssumption`, `SlackAssumption`,
`DataAssumption`, `IngestAssumption`, `PartsAssumption`, `AttemptsAssumption`,
`ScanAssumption`, `ScriptAssumption`, `PackageAssumption`, `SelectedAssumption`,
`ContentAssumption`, `HistoryAssumption`, `PacketAssumption`, `TreeAssumption`,
`BoundsAssumption`, `AttemptAssumption`, `BadgeAssumption` and `NoCountAssumption`,
which TLC evaluates in the runs. Most say that a value standing for absence is none
of the others, or that a number is a number and a sequence a sequence. Two say more:
`SlackAssumption` (section 2) and `PacketAssumption` (the dropout and the misorder are
below half the modulus, as 3000 and 100 are below half of 65536). `Max...` constants bound
only what TLC has to enumerate; the theorems hold for all their values.

Only model-checked:

* `UploadsAreSettled`, `LeftoverRowsAreCleared` and `GrownLogIsParsed`, which are
  liveness properties, and the fairness they rest on;
* `OnlyTheAskedGroupResolves`, `PointsMeetTheirScans`, the part of `SheetsAreCutApart`
  about whole sheets and that of `EveryPacketIsCounted` about whole captures: these
  functions select from and fold over sequences with operators as parameters, one
  inside the other, and what each computes for every input needs an induction of its
  own, as no general one can be instantiated. `LossIsCounted` and `CuttingKeepsLines`
  show what it takes for one fold.

## 7. Plan and limits

What could come next:

1. An abstract life cycle of an artifact (uploaded, finalized, parsed, settled) that
   `WlcIngest` implements while scans take turns.
2. The bundle upload (extract, register, attach, without the duplicate check of
   single uploads), the current study, and the run archive.
3. The raw capture scan with its path checks, beside registration and execution.
4. Lemmas on the other readers in the manner of `LossIsCounted`: the nearest scan of a
   survey point first.

Not modelled:

* Several sessions in one scan: sessions share only the parse lock, which the
  browser's parses stand for. Orders of files and rows are left open (`\E`),
  where the code sorts them.
* Sizes and link counts after the first lstat, and symbolic links in `incoming/`.
* Statements that never return (psql is called without a timeout), and children
  of a killed parser that go on.
* Runs that stay `running` after a restart: `RfRuns` has the restart, and no
  document promises that somebody resets them.
* A log that names an attempt before its row exists: `Grow` lets a log name only
  attempts the scan can find.
* Ids of survey points of two runs of one export, which the code does not keep
  apart; `RfRuns` identifies a point by run.
* The patch of a leg, which only changes fields nothing reads.
* The text parsers of the controller's show commands, path probe, iperf, the
  client-detail log of an iPad, topology, deployment and rollback scripts, the
  browser front end, dashboards and manifests: text processing in one pass, shell
  scripts run by one operator, or configuration, without state that several
  actors share.
* Formats and wording, except where a pattern of the code decides by them.
