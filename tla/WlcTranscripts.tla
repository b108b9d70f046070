---------------------------- MODULE WlcTranscripts ----------------------------
(***************************************************************************)
(* The third part of an ingest scan: terminal logs that the console        *)
(* recorder is still writing are hashed, cut into blocks and stored as     *)
(* snapshots of attempts and observations of the session                   *)
(* (media_wlc_transcript_scan in study_web/main.py).                       *)
(*                                                                         *)
(* One log of one session is followed.  It grows while scans read it; two  *)
(* scans, that of the timer and one an operator asks for, may work on it   *)
(* at the same time; any statement may fail and a scan may be cut short.   *)
(***************************************************************************)
EXTENDS Naturals, Sequences, FiniteSets

CONSTANTS
  Scans,          \* scans that may be at work at the same time
  Timer,          \* the one of them that the timer starts again and again
  Attempts,       \* attempts of the session that the web server may create
  Scripts,        \* possible growths of the log: sequences of texts
  Configured,     \* the configured VLAN of the session
  MaxFaults,      \* failing statements and interrupted scans, in all
  None

ASSUME ScanAssumption == Timer \in Scans /\ None \notin Attempts /\ None \notin Nat

(* A text is a sequence of blocks.  A block has a phase, the attempts it   *)
(* names, the number of its observations and the VLAN it resolves, or None.*)
IsSequence(s) == Len(s) \in Nat /\ DOMAIN s = 1..Len(s)
IsText(text) ==
  IsSequence(text) /\ \A i \in DOMAIN text :
    text[i].obs \in Nat /\ text[i].ids \in Seq({text[i].ids[j] : j \in DOMAIN text[i].ids})

ASSUME ScriptAssumption ==
  \A growth \in Scripts :
    IsSequence(growth) /\ growth # <<>> /\ \A v \in DOMAIN growth : IsText(growth[v])

VARIABLES
  script,         \* the growth this log goes through
  version,        \* how far it has grown
  attempts,       \* attempt rows of the session that exist
  overridden,     \* those whose VLAN the operator has overridden
  artifact,       \* the artifact row: hash of the log it was parsed at, or None
  snapshots,      \* snapshot rows: [at, attempt, phase] -> block
  observations,   \* observation rows: [at, index] -> [attempt, block]
  scan,           \* where each scan is
  faults,         \* faults so far
  overlap         \* whether a scan is asked for while another is at work

transcriptVars == <<script, version, attempts, overridden, artifact, snapshots, observations,
                    scan, faults, overlap>>
rows == <<artifact, snapshots, observations>>

Log == script[version]

Named(text) == UNION {{text[i].ids[j] : j \in DOMAIN text[i].ids} : i \in DOMAIN text}

NoScan == [pc |-> "idle", sha |-> 0, text |-> <<>>, at |-> 1, index |-> 1, attempt |-> None]

(* Rows are keyed by hashes of where they come from: _media_wlc_snapshot_id *)
(* and _media_wlc_observation_id.                                           *)
SnapshotId(at, attempt, phase) == <<at, attempt, phase>>

ObservationId(at, index) == <<at, index>>

Put(table, id, row) == [k \in DOMAIN table \cup {id} |-> IF k = id THEN row ELSE table[k]]

(* Deviation: any known attempt of a block is bound, also one of several. *)
BoundToTheFirst(ids, known) ==
  IF \E i \in DOMAIN ids : ids[i] \in known
  THEN ids[CHOOSE i \in DOMAIN ids : ids[i] \in known] ELSE None

(* A block is bound to an attempt only when it names that one alone and    *)
(* the session has it.                                                     *)
Bound(ids, known) == IF Len(ids) = 1 /\ ids[1] \in known THEN ids[1] ELSE None

(* chk_vocera_media_attempt_vlan_override *)
Accepts(attempt, vlan) == vlan \in {None, Configured} \/ attempt \in overridden

-----------------------------------------------------------------------------
TranscriptsInit ==
  /\ script \in {growth \in Scripts : Named(growth[1]) \cap Attempts = {}}
  /\ version = 1
  /\ attempts = {}
  /\ overridden = {}
  /\ artifact = None
  /\ snapshots = <<>>
  /\ observations = <<>>
  /\ scan = [s \in Scans |-> NoScan]
  /\ faults = 0
  /\ overlap \in BOOLEAN

ScanGoes(s, there) == scan' = [scan EXCEPT ![s] = there]

(* A scan reaches the log and reads its artifact row; a log that was       *)
(* parsed at the hash it has now is left alone.                            *)
Start(s) ==
  /\ scan[s].pc = "idle"
  /\ overlap \/ \A t \in Scans : scan[t].pc = "idle"
  /\ ScanGoes(s, [NoScan EXCEPT !.pc = "hash", !.sha = IF artifact = None THEN 0 ELSE artifact])
  /\ UNCHANGED <<script, version, attempts, overridden, rows, faults, overlap>>

(* Deviation: a log that has a row is known, whatever its hash. *)
SkipKnownName(s) ==
  /\ scan[s].pc = "hash"
  /\ ScanGoes(s, IF scan[s].sha # 0 THEN NoScan
                 ELSE [NoScan EXCEPT !.pc = "read", !.sha = version])
  /\ UNCHANGED <<script, version, attempts, overridden, rows, faults, overlap>>

Hash(s) ==
  /\ scan[s].pc = "hash"
  /\ ScanGoes(s, IF scan[s].sha = version THEN NoScan
                 ELSE [NoScan EXCEPT !.pc = "read", !.sha = version])
  /\ UNCHANGED <<script, version, attempts, overridden, rows, faults, overlap>>

(* Deviation: the log is hashed after it was read. *)
ReadThenHash(s) ==
  /\ scan[s].pc \in {"read", "rehash"}
  /\ ScanGoes(s, IF scan[s].pc = "read" THEN [scan[s] EXCEPT !.pc = "rehash", !.text = Log]
             ELSE [scan[s] EXCEPT !.pc = "block", !.sha = version])
  /\ UNCHANGED <<script, version, attempts, overridden, rows, faults, overlap>>

Read(s) ==
  /\ scan[s].pc = "read"
  /\ ScanGoes(s, [scan[s] EXCEPT !.pc = "block", !.text = Log])
  /\ UNCHANGED <<script, version, attempts, overridden, rows, faults, overlap>>

Block(s) == scan[s].text[scan[s].at]
AtBlock(s) == scan[s].pc = "block" /\ scan[s].at <= Len(scan[s].text)

(* Look the named attempts of the next block up.                           *)
Associate(s) ==
  /\ AtBlock(s)
  /\ LET bound == Bound(Block(s).ids, attempts) IN
     ScanGoes(s, [scan[s] EXCEPT !.pc = IF bound = None THEN "observe" ELSE "snapshot",
                             !.attempt = bound, !.index = 1])
  /\ UNCHANGED <<script, version, attempts, overridden, rows, faults, overlap>>

(* media_wlc_store_snapshot *)
StoreSnapshot(s) ==
  /\ scan[s].pc = "snapshot"
  /\ snapshots' = Put(snapshots, SnapshotId(scan[s].at, scan[s].attempt, Block(s).phase), Block(s))
  /\ ScanGoes(s, [scan[s] EXCEPT !.pc = "attempt"])
  /\ UNCHANGED <<script, version, attempts, overridden, artifact, observations, faults, overlap>>

(* media_wlc_update_attempt_from_snapshot, when the row accepts the VLAN.  *)
UpdateAttempt(s) ==
  /\ scan[s].pc = "attempt"
  /\ Accepts(scan[s].attempt, Block(s).vlan)
  /\ ScanGoes(s, [scan[s] EXCEPT !.pc = "observe"])
  /\ UNCHANGED <<script, version, attempts, overridden, rows, faults, overlap>>

(* The database refuses the VLAN: the log stays as it is until a later scan. *)
RefuseAttempt(s) ==
  /\ scan[s].pc = "attempt"
  /\ ~Accepts(scan[s].attempt, Block(s).vlan)
  /\ ScanGoes(s, NoScan)
  /\ UNCHANGED <<script, version, attempts, overridden, rows, faults, overlap>>

(* media_wlc_store_observations, one statement each. *)
StoreObservation(s) ==
  /\ scan[s].pc = "observe"
  /\ scan[s].index <= Block(s).obs
  /\ observations' = Put(observations, ObservationId(scan[s].at, scan[s].index),
                         [attempt |-> scan[s].attempt, block |-> Block(s)])
  /\ ScanGoes(s, [scan[s] EXCEPT !.index = @ + 1])
  /\ UNCHANGED <<script, version, attempts, overridden, artifact, snapshots, faults, overlap>>

NextBlock(s) ==
  /\ scan[s].pc = "observe"
  /\ scan[s].index > Block(s).obs
  /\ ScanGoes(s, [scan[s] EXCEPT !.pc = "block", !.at = @ + 1])
  /\ UNCHANGED <<script, version, attempts, overridden, rows, faults, overlap>>

(* The artifact row is written last, with the hash the scan began with.    *)
Register(s) ==
  /\ scan[s].pc = "block"
  /\ scan[s].at > Len(scan[s].text)
  /\ artifact' = scan[s].sha
  /\ ScanGoes(s, NoScan)
  /\ UNCHANGED <<script, version, attempts, overridden, snapshots, observations, faults, overlap>>

(* A statement fails, or the process ends: what was stored stays.          *)
Stop(s) ==
  /\ scan[s].pc # "idle"
  /\ faults < MaxFaults
  /\ faults' = faults + 1
  /\ ScanGoes(s, NoScan)
  /\ UNCHANGED <<script, version, attempts, overridden, rows, overlap>>

-----------------------------------------------------------------------------
(* The session around the scan.  A sheet that names an attempt is made     *)
(* when the attempt exists; the other names in a log are of other sessions.*)

Grow ==
  /\ version < Len(script)
  /\ Named(script[version + 1]) \cap Attempts \subseteq attempts
  /\ version' = version + 1
  /\ UNCHANGED <<script, attempts, overridden, rows, scan, faults, overlap>>

AttemptStarts(a) ==
  /\ a \notin attempts
  /\ attempts' = attempts \cup {a}
  /\ UNCHANGED <<script, version, overridden, rows, scan, faults, overlap>>

(* The operator selects a group on another VLAN, with a reason. *)
Override(a) ==
  /\ a \in attempts \ overridden
  /\ overridden' = overridden \cup {a}
  /\ UNCHANGED <<script, version, attempts, rows, scan, faults, overlap>>

ScanWorks(s) ==
  \/ Hash(s) \/ Read(s) \/ Associate(s) \/ StoreSnapshot(s) \/ UpdateAttempt(s)
  \/ RefuseAttempt(s) \/ StoreObservation(s) \/ NextBlock(s) \/ Register(s)

TranscriptsNext ==
  \/ \E s \in Scans : Start(s) \/ ScanWorks(s) \/ Stop(s)
  \/ Grow
  \/ \E a \in Attempts : AttemptStarts(a) \/ Override(a)

(* The timer fires again and again, and a scan that runs takes its steps.  *)
TranscriptsSpec ==
  /\ TranscriptsInit /\ [][TranscriptsNext]_transcriptVars
  /\ WF_transcriptVars(Start(Timer)) /\ \A s \in Scans : WF_transcriptVars(ScanWorks(s))

-----------------------------------------------------------------------------
(* Rows that a parsed text leaves behind: every observation of every block,*)
(* under the attempt the block is bound to, and that attempt's snapshot.   *)

StoredBlock(at, block) ==
  /\ \A index \in 1..block.obs :
       /\ ObservationId(at, index) \in DOMAIN observations
       /\ observations[ObservationId(at, index)] =
            [attempt |-> Bound(block.ids, attempts), block |-> block]
  /\ Bound(block.ids, attempts) # None =>
       LET id == SnapshotId(at, Bound(block.ids, attempts), block.phase) IN
       id \in DOMAIN snapshots /\ snapshots[id] = block

(* An artifact row that says the log is parsed at the hash it has now      *)
(* stands for the rows of that very text, however the log grew under the   *)
(* scan and wherever earlier scans stopped, as long as scans do not        *)
(* overlap.                                                                *)
ParsedLogIsStored ==
  (~overlap /\ artifact = version) => \A at \in DOMAIN Log : StoredBlock(at, Log[at])

(* Evidence is put on an attempt only when its block names no other.       *)
OnlyExplicitAttempts ==
  /\ \A id \in DOMAIN snapshots : snapshots[id].ids = <<id[2]>>
  /\ \A id \in DOMAIN observations :
       observations[id].attempt # None =>
         /\ observations[id].block.ids = <<observations[id].attempt>>
         /\ SnapshotId(id[1], observations[id].attempt, observations[id].block.phase) \in DOMAIN snapshots

(* A log that has stopped growing is parsed in the end, or waits for an    *)
(* operator because the database refuses a VLAN it shows.                  *)
Refused ==
  \E at \in DOMAIN Log :
    LET a == Bound(Log[at].ids, attempts) IN a # None /\ ~Accepts(a, Log[at].vlan)
LogIsParsed == <>[](artifact = version \/ Refused)
=============================================================================
