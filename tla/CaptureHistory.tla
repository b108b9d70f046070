----------------------------- MODULE CaptureHistory -----------------------------
(***************************************************************************)
(* Captures of Catalyst Center on their way into the media history: the     *)
(* downloads of Study Web (main.py) and of the command line                 *)
(* (vocera_dnac_icap.py) into the raw directory, and the publisher          *)
(* (vocera_media_qoe_batch.py, vocera_media_qoe_sql.py) that a timer starts  *)
(* every minute to analyze what it finds there.                             *)
(*                                                                         *)
(* A file is a number of bytes: every copy of a capture is a prefix of it.  *)
(* Captures are numbered in the order of their creation.                    *)
(***************************************************************************)
EXTENDS Naturals, Sequences, FiniteSetsExt

CONSTANTS
  Capture,       \* captures of the client's MAC address, numbers
  Sizeless,      \* those Catalyst Center lists without a file size
  Corrupt,       \* lengths at which the analyzer gives up
  MaxBytes,      \* bound: length of a capture
  Download,      \* download processes, of the web and of the command line
  StudyOf,       \* study a web download registers to, NoStudy for the others
  NoWebStudy, DefaultStudy,
  MaxDownloads,  \* bound: downloads begun
  MaxPasses      \* bound: passes of the publisher

VARIABLES
  remote,        \* bytes Catalyst Center has of each capture, 0: not listed
  file, tmp,     \* inode, bytes and mtime under the final and the .tmp name
  sidecar,       \* expected size, NoSize (0), or Unreadable
  cache,         \* JSON cache: source state and result
  prom,          \* Prometheus cache: result
  textfile,      \* result node_exporter reads
  captured,      \* vocera_media_captures
  proc,          \* downloads: stage and local variables
  pub,           \* the publisher
  clock, downloads, passes,
  overlapped,    \* captures two downloads have written at the same time
  fetched,       \* lengths in which a capture was ever fetched
  torn           \* captures whose cache a killed publisher left half written

historyVars == <<remote, file, tmp, sidecar, cache, prom, textfile, captured, proc, pub,
                 clock, downloads, passes, overlapped, fetched, torn>>

NoPcap     == [ino |-> 0, bytes |-> 0, mtime |-> 0]
Unreadable == MaxBytes + 1
NoSize     == 0
Failed     == 0                    \* parse_success 0; others: bytes analyzed
Absent     == MaxBytes + 1         \* no cache file
Cut        == MaxBytes + 2         \* half of one
NoState    == [bytes |-> 0, mtime |-> 0, sidecar |-> Unreadable]
NoDownload == [stage |-> "idle", c |-> 0, size |-> 0, bytes |-> 0, ino |-> 0]
Asleep     == [stage |-> "idle", todo |-> <<>>, latest |-> 0, state |-> NoState, result |-> 0]

\* Captures are numbered; a result below MaxBytes is one of the analyzer's.
ASSUME HistoryAssumption ==
  /\ IsFiniteSet(Capture) /\ Capture = 1..Cardinality(Capture)
  /\ MaxBytes \in Nat /\ Corrupt \subseteq 1..MaxBytes

HistoryInit ==
  /\ remote = [c \in Capture |-> IF c = 1 THEN 1 ELSE 0]
  /\ file = [c \in Capture |-> NoPcap] /\ tmp = file
  /\ sidecar = [c \in Capture |-> Unreadable]
  /\ cache = [c \in Capture |-> [state |-> NoState, result |-> Absent]]
  /\ prom = [c \in Capture |-> Absent] /\ textfile = Absent
  /\ captured = {} /\ proc = [d \in Download |-> NoDownload] /\ pub = Asleep
  /\ clock = 0 /\ downloads = 0 /\ passes = 0
  /\ overlapped = {} /\ fetched = [c \in Capture |-> {}] /\ torn = {}

RemoteGrows ==
  /\ \E c \in Capture : remote[c] < MaxBytes /\ remote' = [remote EXCEPT ![c] = @ + 1]
  /\ UNCHANGED <<file, tmp, sidecar, cache, prom, textfile, captured, proc, pub,
                 clock, downloads, passes, overlapped, fetched, torn>>

-----------------------------------------------------------------------------
(* Downloads                                                                *)

Web(d)       == StudyOf[d] # NoWebStudy
DownloadAt(d, stage) == proc[d].stage = stage
DownloadGoes(d, stage) == proc' = [proc EXCEPT ![d].stage = stage]
DownloadEnds(d)    == proc' = [proc EXCEPT ![d] = NoDownload]
Writing(d, c) == proc[d].c = c /\ proc[d].stage \in {"fill", "replace"}

published == <<cache, prom, textfile, pub, passes, torn>>

CapturedAt(c)    == {r \in captured : r.c = c}
OnDisk(c)    == file[c].mtime > 0 /\ file[c].bytes > 0
ListedSize(c) == IF c \in Sizeless THEN NoSize ELSE remote[c]

\* media_dnac_select_capture, select_latest_capture: the one asked for (only
\* the web can ask), or the latest.
SelectCapture(d) ==
  LET listed == {c \in Capture : remote[c] > 0} IN
  /\ DownloadAt(d, "idle") /\ downloads < MaxDownloads /\ listed # {}
  /\ downloads' = downloads + 1
  /\ \E c \in IF Web(d) THEN listed ELSE {Max(listed)} :
       proc' = [proc EXCEPT ![d] = [NoDownload EXCEPT !.stage = "check", !.c = c,
                                                !.size = ListedSize(c)]]
  /\ UNCHANGED <<remote, file, tmp, sidecar, captured, clock, overlapped, fetched, published>>

\* registered_by_path prefers a row of this study.
ElsewhereOnly(d, c) == CapturedAt(c) # {} /\ \A r \in CapturedAt(c) : r.study # StudyOf[d]

\* capture_in_study: a cache file with the metadata of the sidecar.
capture_in_study(c) == cache[c].result <= MaxBytes /\ cache[c].state.sidecar # Unreadable

\* An existing file is kept when its size is right.  When it is not, the web
\* refuses and the command line downloads again, unless the study has it.
CheckLocal(d) ==
  LET c == proc[d].c
      fits == proc[d].size \in {NoSize, file[c].bytes}
  IN
  /\ DownloadAt(d, "check")
  /\ \/ Web(d) /\ ElsewhereOnly(d, c) /\ DownloadEnds(d)
     \/ ~Web(d) /\ capture_in_study(c) /\ DownloadEnds(d)
     \/ /\ Web(d) => ~ElsewhereOnly(d, c)
        /\ IF OnDisk(c) /\ fits THEN DownloadGoes(d, "sidecar")
           ELSE IF OnDisk(c) /\ Web(d) THEN DownloadEnds(d)
           ELSE DownloadGoes(d, "fetch")
  /\ UNCHANGED <<remote, file, tmp, sidecar, captured, clock, downloads, overlapped, fetched, published>>

\* All bytes come into memory; they must be as many as the list said.
Fetch(d) ==
  LET c == proc[d].c IN
  /\ DownloadAt(d, "fetch")
  /\ IF proc[d].size \in {NoSize, remote[c]}
     THEN /\ proc' = [proc EXCEPT ![d].stage = "write", ![d].bytes = remote[c]]
          /\ fetched' = [fetched EXCEPT ![c] = @ \cup {remote[c]}]
     ELSE DownloadEnds(d) /\ UNCHANGED fetched
  /\ UNCHANGED <<remote, file, tmp, sidecar, captured, clock, downloads, overlapped, published>>

\* Deviation: the final name is opened.
OpenInPlace(d) ==
  LET c == proc[d].c
      ino == IF file[c] = NoPcap THEN clock + 1 ELSE file[c].ino
  IN
  /\ DownloadAt(d, "write")
  /\ clock' = clock + 1
  /\ file' = [file EXCEPT ![c] = [ino |-> ino, bytes |-> 0, mtime |-> clock']]
  /\ proc' = [proc EXCEPT ![d].stage = "fill", ![d].ino = ino]
  /\ UNCHANGED <<remote, tmp, sidecar, captured, downloads, overlapped, fetched, published>>

\* All downloads of a capture open the same .tmp file, and truncate it.
OpenTmp(d) ==
  LET c == proc[d].c
      ino == IF tmp[c] = NoPcap THEN clock + 1 ELSE tmp[c].ino
  IN
  /\ DownloadAt(d, "write")
  /\ clock' = clock + 1
  /\ tmp' = [tmp EXCEPT ![c] = [ino |-> ino, bytes |-> 0, mtime |-> clock']]
  /\ proc' = [proc EXCEPT ![d].stage = "fill", ![d].ino = ino]
  /\ overlapped' = overlapped \cup {x \in {c} : \E o \in Download \ {d} : Writing(o, c)}
  /\ UNCHANGED <<remote, file, sidecar, captured, downloads, fetched, published>>

\* The open file may have been renamed meanwhile.
Fill(d) ==
  LET c == proc[d].c
      Filled(f) == IF f[c].ino = proc[d].ino
                   THEN [f EXCEPT ![c].bytes = Max({@, proc[d].bytes}), ![c].mtime = clock + 1]
                   ELSE f
  IN
  /\ DownloadAt(d, "fill")
  /\ tmp' = Filled(tmp) /\ file' = Filled(file) /\ clock' = clock + 1
  /\ DownloadGoes(d, "replace")
  /\ UNCHANGED <<remote, sidecar, captured, downloads, overlapped, fetched, published>>

ReplaceFile(d) ==
  LET c == proc[d].c IN
  /\ DownloadAt(d, "replace")
  /\ IF tmp[c] = NoPcap THEN DownloadEnds(d) /\ UNCHANGED <<file, tmp>>
     ELSE /\ file' = [file EXCEPT ![c] = tmp[c]]
          /\ tmp' = [tmp EXCEPT ![c] = NoPcap]
          /\ DownloadGoes(d, "sidecar")
  /\ UNCHANGED <<remote, sidecar, captured, clock, downloads, overlapped, fetched, published>>

\* write_metadata truncates the sidecar and fills it.
WriteSidecar(d) ==
  LET c == proc[d].c IN
  /\ \/ /\ DownloadAt(d, "sidecar")
        /\ sidecar' = [sidecar EXCEPT ![c] = Unreadable]
        /\ DownloadGoes(d, "metadata")
     \/ /\ DownloadAt(d, "metadata")
        /\ sidecar' = [sidecar EXCEPT ![c] = proc[d].size]
        /\ IF Web(d) THEN DownloadGoes(d, "register") \/ DownloadEnds(d) ELSE DownloadEnds(d)
  /\ UNCHANGED <<remote, file, tmp, captured, clock, downloads, overlapped, fetched, published>>

\* media_register_capture_record: a row of this path that is another study's
\* or has another identity refuses the registration.
Register(d) ==
  LET c == proc[d].c
      id == [c |-> c, bytes |-> file[c].bytes, mtime |-> file[c].mtime]
  IN
  /\ DownloadAt(d, "register")
  /\ captured' = IF CapturedAt(c) # {} THEN captured
            ELSE {[c |-> c, bytes |-> id.bytes, mtime |-> id.mtime, study |-> StudyOf[d],
                   result |-> Absent]}  \cup captured
  /\ DownloadEnds(d)
  /\ UNCHANGED <<remote, file, tmp, sidecar, clock, downloads, overlapped, fetched, published>>

\* The process is killed, or Catalyst Center does not answer.
Die(d) ==
  /\ ~DownloadAt(d, "idle") /\ DownloadEnds(d)
  /\ UNCHANGED <<remote, file, tmp, sidecar, captured, clock, downloads, overlapped, fetched, published>>

-----------------------------------------------------------------------------
(* The publisher                                                            *)

rawVars == <<remote, file, tmp, sidecar, proc, clock, downloads, overlapped, fetched>>

\* capture_state; capture_id is made of bytes and mtime.
State(c) == [bytes |-> file[c].bytes, mtime |-> file[c].mtime, sidecar |-> sidecar[c]]

\* parse_capture
Analysis(bytes, expected) ==
  IF expected \notin {NoSize, Unreadable, bytes} \/ bytes \in Corrupt \cup {0} THEN Failed
  ELSE bytes

cached_current(c) ==
  /\ cache[c].result <= MaxBytes /\ prom[c] # Absent
  /\ cache[c].state = State(c)

\* discover_pcaps: oldest first.  Without captures a failure is published.
DiscoverPcaps ==
  LET found == {c \in Capture : file[c] # NoPcap} IN
  /\ pub.stage = "idle" /\ passes < MaxPasses /\ passes' = passes + 1
  /\ IF found = {} THEN textfile' = Failed /\ UNCHANGED pub
     ELSE /\ UNCHANGED textfile
          /\ \E order \in {s \in [1..Cardinality(found) -> found] :
                 \A i, j \in DOMAIN s : i < j => file[s[i]].mtime < file[s[j]].mtime} :
               pub' = [Asleep EXCEPT !.stage = "state", !.todo = order,
                                     !.latest = order[Len(order)]]
  /\ UNCHANGED <<rawVars, cache, prom, captured, torn>>

Skip(p) == [p EXCEPT !.todo = Tail(@),
                     !.stage = IF Len(p.todo) = 1 THEN "publish" ELSE "state"]

ReadState ==
  LET c == Head(pub.todo) IN
  /\ pub.stage = "state"
  /\ pub' = IF cached_current(c) THEN Skip(pub)
            ELSE [pub EXCEPT !.stage = "parse", !.state = State(c)]
  /\ UNCHANGED <<rawVars, cache, prom, textfile, captured, passes, torn>>

\* Deviation: the state is read when the analysis is done.
ParseThenState ==
  LET c == Head(pub.todo) IN
  /\ \/ /\ pub.stage = "parse"
        /\ pub' = [pub EXCEPT !.stage = "late", !.result = Analysis(file[c].bytes, pub.state.sidecar)]
     \/ /\ pub.stage = "late"
        /\ pub' = [pub EXCEPT !.stage = "json", !.state = State(c)]
  /\ UNCHANGED <<rawVars, cache, prom, textfile, captured, passes, torn>>

\* The mismatch is judged on the state, the packets are those of the file.
Parse ==
  LET c == Head(pub.todo)
      mismatch == pub.state.sidecar \notin {NoSize, Unreadable, pub.state.bytes}
  IN
  /\ pub.stage = "parse"
  /\ pub' = [pub EXCEPT !.stage = "json",
       !.result = IF mismatch THEN Failed ELSE Analysis(file[c].bytes, NoSize)]
  /\ UNCHANGED <<rawVars, cache, prom, textfile, captured, passes, torn>>

WriteJson ==
  /\ pub.stage = "json"
  /\ cache' = [cache EXCEPT ![Head(pub.todo)] = [state |-> pub.state, result |-> pub.result]]
  /\ pub' = [pub EXCEPT !.stage = "prom"]
  /\ UNCHANGED <<rawVars, prom, textfile, captured, passes, torn>>

WriteProm ==
  /\ pub.stage = "prom"
  /\ prom' = [prom EXCEPT ![Head(pub.todo)] = pub.result]
  /\ torn' = torn \ {Head(pub.todo)}
  /\ pub' = Skip(pub)
  /\ UNCHANGED <<rawVars, cache, textfile, captured, passes>>

publish_cache ==
  /\ pub.stage = "publish"
  /\ textfile' = prom[pub.latest]
  /\ pub' = [pub EXCEPT !.stage = "history"]
  /\ UNCHANGED <<rawVars, cache, prom, captured, passes, torn>>

\* load_current_payloads: those whose file still has the size and mtime.
CurrentPayloads ==
  {c \in Capture : /\ cache[c].result <= MaxBytes
                   /\ cache[c].state.bytes = file[c].bytes
                   /\ cache[c].state.mtime = file[c].mtime}

\* emit_sql and load_sql: one transaction that replaces the result of a row and
\* leaves its study; psql may fail.
LoadHistory ==
  LET Same(r, c) == r.c = c /\ r.bytes = cache[c].state.bytes /\ r.mtime = cache[c].state.mtime
      Assigned(c) == IF \E r \in captured : Same(r, c)
                     THEN (CHOOSE r \in captured : Same(r, c)).study ELSE DefaultStudy
      Row(c) == [c |-> c, bytes |-> cache[c].state.bytes, mtime |-> cache[c].state.mtime,
                 study |-> Assigned(c), result |-> cache[c].result]
  IN
  /\ pub.stage = "history"
  /\ \/ captured' = {r \in captured : \A c \in CurrentPayloads : ~Same(r, c)}
                 \cup {Row(c) : c \in CurrentPayloads}
     \/ UNCHANGED captured
  /\ pub' = Asleep
  /\ UNCHANGED <<rawVars, cache, prom, textfile, passes, torn>>

\* The publisher is killed; a file it was writing may be cut.
Kill ==
  LET c == Head(pub.todo) IN
  /\ pub.stage # "idle" /\ pub' = Asleep
  /\ \/ /\ pub.stage = "json" /\ cache' = [cache EXCEPT ![c].result = Cut]
        /\ UNCHANGED <<prom, torn>>
     \/ /\ pub.stage = "prom" /\ UNCHANGED cache
        /\ prom' \in {prom, [prom EXCEPT ![c] = Cut]}
        /\ torn' = torn \cup {c}
     \/ UNCHANGED <<cache, prom, torn>> /\ pub.stage # "prom"
  /\ UNCHANGED <<rawVars, textfile, captured, passes>>

HistoryNext ==
  \/ RemoteGrows
  \/ \E d \in Download :
       \/ SelectCapture(d) \/ CheckLocal(d) \/ Fetch(d) \/ OpenTmp(d) \/ Fill(d)
       \/ ReplaceFile(d) \/ WriteSidecar(d) \/ Register(d) \/ Die(d)
  \/ DiscoverPcaps \/ ReadState \/ Parse \/ WriteJson \/ WriteProm \/ publish_cache
  \/ LoadHistory \/ Kill

HistorySpec == HistoryInit /\ [][HistoryNext]_historyVars

-----------------------------------------------------------------------------
(* Properties                                                               *)

(* A capture under its final name has all the bytes of one of its           *)
(* downloads, whatever is killed when; only two downloads of one capture    *)
(* that share the .tmp file can publish less.                               *)
FilesAreWhole ==
  \A c \in Capture \ overlapped : file[c] # NoPcap => file[c].bytes \in fetched[c]

(* Every result that counts is the analysis of exactly the bytes it is      *)
(* filed under: those of a row in the database, and those of the file as it *)
(* is now where the cache passes for current.  A download may replace file  *)
(* and sidecar at any moment of a pass.  Only where the publisher was       *)
(* killed between its two cache files may the Prometheus one lag behind.    *)
ResultsAreOfTheirBytes ==
  /\ \A r \in captured : r.result \in {Absent, Failed, r.bytes} /\ r.result \notin Corrupt
  /\ \A c \in Capture : cached_current(c) =>
       /\ cache[c].result = Analysis(file[c].bytes, sidecar[c])
       /\ \/ c \in torn
          \/ prom[c] = cache[c].result
          \/ pub.stage = "prom" /\ Head(pub.todo) = c

(* A capture whose downloads took turns is whole, and every result that     *)
(* counts, also of one whose downloads overlapped, is the analysis of       *)
(* exactly the bytes it is filed under, but for a Prometheus text that a    *)
(* killed publisher left behind (vocera_media_qoe_batch.py 191-219).        *)
HistoryIsOfItsFiles == FilesAreWhole /\ ResultsAreOfTheirBytes
=============================================================================
