---------------------------- MODULE MediaQoe_proofs ----------------------------
(***************************************************************************)
(* Theorems about CaptureHistory, MediaAnalyzer and ParseLock, for any      *)
(* captures, downloads, passes, kills, packets and runs, any timeouts, any  *)
(* lease floor and any slack longer than the delay before the subprocess    *)
(* starts: results are filed under the bytes they are of, lost packets are  *)
(* those that are missing, and one run parses at a time.                    *)
(***************************************************************************)
EXTENDS CaptureHistory, ParseLock, MediaAnalyzer, SequenceTheorems, FiniteSetTheorems, WellFoundedInduction, TLAPS

-----------------------------------------------------------------------------
(***************************************************************************)
(* Captures on their way into the history (CaptureHistory). RawInv is of the*)
(* files and their writers, PubInv of what the publisher has read and cached*)
(* of them.                                                                 *)
(***************************************************************************)

Pcap == [ino : Nat, bytes : Nat, mtime : Nat]

DownloadStage == {"idle", "check", "fetch", "write", "fill", "replace", "sidecar", "metadata",
                  "register"}

DownloadRecord ==
  {p \in [stage : DownloadStage, c : Nat, size : Nat, bytes : Nat, ino : Nat] :
     p.stage # "idle" => p.c \in Capture}

RawTypes ==
  /\ remote \in [Capture -> Nat]
  /\ file \in [Capture -> Pcap] /\ tmp \in [Capture -> Pcap]
  /\ sidecar \in [Capture -> Nat]
  /\ proc \in [Download -> DownloadRecord]
  /\ fetched \in [Capture -> SUBSET Nat]
  /\ clock \in Nat

\* An inode is made, and written, at a moment of its own.
Written(f) == f = NoPcap \/ (f.ino \in 1..clock /\ f.mtime \in 1..clock)

TwoInodes(c) ==
  /\ Written(file[c]) /\ Written(tmp[c])
  /\ file[c] # NoPcap /\ tmp[c] # NoPcap => /\ file[c].ino # tmp[c].ino
                                            /\ file[c].mtime # tmp[c].mtime

FileIsWhole(c) == c \notin overlapped /\ file[c] # NoPcap => file[c].bytes \in fetched[c]

\* A download holds bytes that were fetched; while it writes alone, the .tmp file
\* is its own.
WriterKnows(d) ==
  LET c == proc[d].c IN
  /\ proc[d].stage \in {"write", "fill"} => proc[d].bytes \in fetched[c]
  /\ proc[d].stage \in {"fill", "replace"} => proc[d].ino \in 1..clock
  /\ proc[d].stage = "fill" /\ c \notin overlapped =>
       tmp[c] # NoPcap /\ tmp[c].ino = proc[d].ino /\ tmp[c].bytes = 0
  /\ proc[d].stage = "replace" /\ c \notin overlapped =>
       tmp[c] # NoPcap /\ tmp[c].bytes \in fetched[c]

WritersApart(d, o) ==
  \A c \in Capture \ overlapped : Writing(d, c) /\ Writing(o, c) => d = o

RawInv ==
  /\ RawTypes
  /\ \A c \in Capture : TwoInodes(c) /\ FileIsWhole(c)
  /\ \A d \in Download : WriterKnows(d)
  /\ \A d, o \in Download : WritersApart(d, o)

-----------------------------------------------------------------------------
FileState == [bytes : Nat, mtime : Nat, sidecar : Nat]
PubStage == {"idle", "state", "parse", "json", "prom", "publish", "history"}

PubRecord ==
  [stage : PubStage, todo : Seq(Capture), latest : Nat, state : FileState, result : Nat]

PubTypes ==
  /\ pub \in PubRecord
  /\ cache \in [Capture -> [state : FileState, result : Nat]]
  /\ prom \in [Capture -> Nat]

\* The state is that of the file as it is, or of one that never comes back.
IsNow(c, s) == file[c] # NoPcap /\ file[c].bytes = s.bytes /\ file[c].mtime = s.mtime
IsGone(c, s) == s.mtime \in 1..clock /\ file[c].mtime # s.mtime /\ tmp[c].mtime # s.mtime

IsAnalysis(c, s, result) ==
  IsGone(c, s) \/ (IsNow(c, s) /\ result = Analysis(s.bytes, s.sidecar))

PubKnows ==
  LET c == Head(pub.todo) IN
  /\ pub.stage \in {"state", "parse", "json", "prom"} =>
       pub.todo # <<>> /\ \A i \in DOMAIN pub.todo : file[pub.todo[i]] # NoPcap
  /\ pub.stage = "parse" => IsNow(c, pub.state) \/ IsGone(c, pub.state)
  /\ pub.stage = "json" => IsAnalysis(c, pub.state, pub.result)
  /\ pub.stage = "prom" => cache[c].result = pub.result

CacheIsAnalysis(c) ==
  cache[c].result <= MaxBytes => IsAnalysis(c, cache[c].state, cache[c].result)

PromFollows(c) ==
  cache[c].result <= MaxBytes /\ prom[c] # Absent =>
    \/ c \in torn \/ prom[c] = cache[c].result
    \/ pub.stage = "prom" /\ Head(pub.todo) = c

RowOK(r) == r.result \in {Absent, Failed, r.bytes} /\ r.result \notin Corrupt

PubInv ==
  /\ PubTypes /\ PubKnows
  /\ \A c \in Capture : CacheIsAnalysis(c) /\ PromFollows(c)
  /\ \A r \in captured : RowOK(r)

-----------------------------------------------------------------------------
(* Moments and inodes                                                       *)

\* An mtime that is gone never comes back, and a file keeps its bytes as long as it
\* keeps its mtime.
FilesMove ==
  /\ clock' \in Nat /\ clock <= clock'
  /\ \A c \in Capture :
       /\ file[c] # NoPcap => file'[c] # NoPcap
       /\ \A k \in 1..clock :
            /\ file[c].mtime # k /\ tmp[c].mtime # k => file'[c].mtime # k /\ tmp'[c].mtime # k
            /\ file[c].mtime = k =>
                 file'[c] = file[c] \/ (file'[c].mtime # k /\ tmp'[c].mtime # k)

LEMMA PcapFacts == /\ NoPcap \in Pcap /\ NoPcap.mtime = 0 /\ NoPcap.ino = 0 /\ NoPcap.bytes = 0
                   /\ \A f \in Pcap : f.ino \in Nat /\ f.bytes \in Nat /\ f.mtime \in Nat
BY DEF NoPcap, Pcap

LEMMA WrittenStays ==
  ASSUME NEW f, Written(f), clock \in Nat, clock' \in Nat, clock <= clock'
  PROVE  Written(f)'
BY DEF Written

LEMMA FilesStayPut ==
  ASSUME RawTypes, UNCHANGED <<file, tmp>>, clock' \in Nat, clock <= clock'
  PROVE  FilesMove
BY DEF FilesMove

LEMMA AnalysisStays ==
  ASSUME RawInv, FilesMove, NEW c \in Capture, NEW s \in FileState, NEW result
  PROVE  /\ IsGone(c, s) => IsGone(c, s)'
         /\ IsNow(c, s) => IsNow(c, s)' \/ IsGone(c, s)'
         /\ IsAnalysis(c, s, result) => IsAnalysis(c, s, result)'
<1>1. clock \in Nat /\ TwoInodes(c) /\ file \in [Capture -> Pcap]
  BY DEF RawInv, RawTypes
<1>2. IsGone(c, s) => IsGone(c, s)'
  BY <1>1 DEF IsGone, FilesMove
<1>3. ASSUME IsNow(c, s) PROVE IsNow(c, s)' \/ IsGone(c, s)'
  <2>1. s.mtime \in 1..clock /\ file[c].mtime = s.mtime /\ file[c].bytes = s.bytes
    BY <1>1, <1>3 DEF IsNow, TwoInodes, Written
  <2> QED BY <1>1, <1>3, <2>1 DEF IsNow, IsGone, FilesMove
<1> QED BY <1>2, <1>3 DEF IsAnalysis

\* Files move below the publisher.
LEMMA PublisherStays ==
  ASSUME RawInv, PubInv, FilesMove, UNCHANGED <<cache, prom, pub, torn>>,
         \A r \in captured' : RowOK(r)
  PROVE  PubInv'
<1>1. PubTypes /\ PubTypes'
  BY DEF PubInv, PubTypes
<1>2. ASSUME NEW c \in Capture PROVE CacheIsAnalysis(c)' /\ PromFollows(c)'
  <2>1. PICK s, result : s = cache[c].state /\ result = cache[c].result
    OBVIOUS
  <2>2. s \in FileState
    BY <1>1, <2>1 DEF PubTypes
  <2>3. IsAnalysis(c, s, result) => IsAnalysis(c, s, result)'
    BY <2>2, AnalysisStays
  <2>4. CacheIsAnalysis(c)'
    BY <2>1, <2>3 DEF PubInv, CacheIsAnalysis
  <2>5. PromFollows(c)'
    BY DEF PubInv, PromFollows
  <2> QED BY <2>4, <2>5
<1>3. PubKnows'
  <2>1. PICK c, s, result, todo :
          c = Head(pub.todo) /\ s = pub.state /\ result = pub.result /\ todo = pub.todo
    OBVIOUS
  <2>2. s \in FileState /\ todo \in Seq(Capture)
    BY <1>1, <2>1 DEF PubTypes, PubRecord
  <2>3. /\ pub.stage \in {"state", "parse", "json", "prom"} =>
             todo # <<>> /\ \A i \in DOMAIN todo : file[todo[i]] # NoPcap
        /\ pub.stage = "parse" => IsNow(c, s) \/ IsGone(c, s)
        /\ pub.stage = "json" => IsAnalysis(c, s, result)
        /\ pub.stage = "prom" => cache[c].result = result
    BY <2>1 DEF PubInv, PubKnows
  <2>4. \A i \in DOMAIN todo : todo[i] \in Capture
    BY <2>2
  <2>5. ASSUME pub.stage \in {"state", "parse", "json", "prom"}
        PROVE  /\ todo # <<>> /\ \A i \in DOMAIN todo : file'[todo[i]] # NoPcap
               /\ c \in Capture
    <3>1. todo # <<>> /\ \A i \in DOMAIN todo : file[todo[i]] # NoPcap
      BY <2>3, <2>5
    <3>2. c \in Capture
      BY <2>1, <2>2, <3>1
    <3> QED BY <2>4, <3>1, <3>2 DEF FilesMove
  <2>6. pub.stage = "parse" => IsNow(c, s)' \/ IsGone(c, s)'
    BY <2>2, <2>3, <2>5, AnalysisStays
  <2>7. pub.stage = "json" => IsAnalysis(c, s, result)'
    BY <2>2, <2>3, <2>5, AnalysisStays
  <2>8. pub' = pub /\ cache' = cache
    OBVIOUS
  <2> QED BY <2>1, <2>3, <2>5, <2>6, <2>7, <2>8 DEF PubKnows
<1> QED BY <1>1, <1>2, <1>3 DEF PubInv

-----------------------------------------------------------------------------
(* Downloads                                                                *)

\* A step of one download, which goes on to p.
LEMMA DownloadStep ==
  ASSUME RawInv, NEW d \in Download, NEW p \in DownloadRecord,
         proc' = [proc EXCEPT ![d] = p],
         remote' \in [Capture -> Nat], sidecar' \in [Capture -> Nat],
         file' \in [Capture -> Pcap], tmp' \in [Capture -> Pcap],
         fetched' \in [Capture -> SUBSET Nat], clock' \in Nat, clock <= clock',
         overlapped \subseteq overlapped',
         \A c \in Capture : fetched[c] \subseteq fetched'[c] /\ TwoInodes(c)' /\ FileIsWhole(c)',
         \A o \in Download \ {d}, c \in Capture \ overlapped' : Writing(o, c) => tmp'[c] = tmp[c],
         \A c \in Capture \ overlapped' :
           p.c = c /\ p.stage \in {"fill", "replace"} =>
             \/ Writing(d, c) \/ \A o \in Download \ {d} : ~Writing(o, c),
         WriterKnows(d)'
  PROVE  RawInv'
<1>1. /\ proc \in [Download -> DownloadRecord]
      /\ \A o \in Download : proc'[o] = IF o = d THEN p ELSE proc[o]
  BY DEF RawInv, RawTypes
<1>2. RawTypes'
  BY <1>1 DEF RawTypes
<1>3. ASSUME NEW o \in Download PROVE WriterKnows(o)'
  <2>1. CASE o = d
    BY <2>1
  <2>2. CASE o # d
    <3>1. proc'[o] = proc[o] /\ WriterKnows(o) /\ clock \in Nat
      BY <1>1, <2>2 DEF RawInv, RawTypes
    <3>2. PICK c : c = proc[o].c
      OBVIOUS
    <3>3. CASE proc[o].stage \in {"write", "fill", "replace"}
      <4>1. c \in Capture
        BY <1>1, <3>2, <3>3 DEF DownloadRecord
      <4>2. c \notin overlapped' /\ proc[o].stage \in {"fill", "replace"} =>
              tmp'[c] = tmp[c] /\ c \notin overlapped
        BY <2>2, <3>2, <4>1 DEF Writing
      <4>3. fetched[c] \subseteq fetched'[c]
        BY <4>1
      <4> QED BY <3>1, <3>2, <4>2, <4>3 DEF WriterKnows
    <3>4. CASE proc[o].stage \notin {"write", "fill", "replace"}
      BY <3>1, <3>4 DEF WriterKnows
    <3> QED BY <3>3, <3>4
  <2> QED BY <2>1, <2>2
<1>4. ASSUME NEW o \in Download, NEW q \in Download PROVE WritersApart(o, q)'
  <2>1. ASSUME NEW c \in Capture \ overlapped', Writing(o, c)', Writing(q, c)' PROVE o = q
    <3>1. c \in Capture \ overlapped
      OBVIOUS
    <3>2. CASE o = d /\ q # d
      <4>1. Writing(q, c) /\ p.c = c /\ p.stage \in {"fill", "replace"}
        BY <1>1, <2>1, <3>2 DEF Writing
      <4>2. Writing(d, c)
        BY <2>1, <3>2, <4>1
      <4> QED BY <3>1, <3>2, <4>1, <4>2 DEF RawInv, WritersApart
    <3>3. CASE q = d /\ o # d
      <4>1. Writing(o, c) /\ p.c = c /\ p.stage \in {"fill", "replace"}
        BY <1>1, <2>1, <3>3 DEF Writing
      <4>2. Writing(d, c)
        BY <2>1, <3>3, <4>1
      <4> QED BY <3>1, <3>3, <4>1, <4>2 DEF RawInv, WritersApart
    <3>4. CASE o # d /\ q # d
      <4>1. Writing(o, c) /\ Writing(q, c)
        BY <1>1, <2>1, <3>4 DEF Writing
      <4> QED BY <3>1, <4>1 DEF RawInv, WritersApart
    <3> QED BY <3>2, <3>3, <3>4
  <2> QED BY <2>1 DEF WritersApart
<1> QED BY <1>2, <1>3, <1>4 DEF RawInv

\* A step that leaves the files and goes on to where nothing is written.
LEMMA QuietStep ==
  ASSUME RawInv, NEW d \in Download, NEW p \in DownloadRecord,
         proc' = [proc EXCEPT ![d] = p], p.stage \notin {"fill", "replace"},
         UNCHANGED <<remote, file, tmp, clock, overlapped>>,
         sidecar' \in [Capture -> Nat], fetched' \in [Capture -> SUBSET Nat],
         \A c \in Capture : fetched[c] \subseteq fetched'[c],
         p.stage = "write" => p.bytes \in fetched'[p.c]
  PROVE  RawInv' /\ FilesMove
<1>1. /\ remote' \in [Capture -> Nat] /\ file' \in [Capture -> Pcap] /\ tmp' \in [Capture -> Pcap]
      /\ clock' \in Nat /\ clock <= clock' /\ proc'[d] = p
  BY DEF RawInv, RawTypes
<1>2. \A c \in Capture : TwoInodes(c)' /\ FileIsWhole(c)'
  BY DEF RawInv, TwoInodes, Written, FileIsWhole
<1>3. WriterKnows(d)'
  BY <1>1 DEF WriterKnows
<1>4. FilesMove
  BY <1>1, FilesStayPut DEF RawInv
<1> QED BY <1>1, <1>2, <1>3, <1>4, DownloadStep

LEMMA GoesOn ==
  ASSUME RawInv, NEW d \in Download, NEW stage \in DownloadStage, DownloadGoes(d, stage),
         proc[d].stage # "idle"
  PROVE  \E p \in DownloadRecord :
           /\ proc' = [proc EXCEPT ![d] = p] /\ p.stage = stage
           /\ p.c = proc[d].c /\ p.bytes = proc[d].bytes /\ p.ino = proc[d].ino /\ p.c \in Capture
<1> DEFINE p == [proc[d] EXCEPT !.stage = stage]
<1>1. proc[d] \in DownloadRecord
  BY DEF RawInv, RawTypes
<1>2. proc' = [proc EXCEPT ![d] = p]
  BY DEF DownloadGoes
<1>3. /\ p \in DownloadRecord /\ p.stage = stage
      /\ p.c = proc[d].c /\ p.bytes = proc[d].bytes /\ p.ino = proc[d].ino /\ p.c \in Capture
  BY <1>1 DEF DownloadRecord
<1> HIDE DEF p
<1> QED BY <1>2, <1>3

LEMMA Ends ==
  ASSUME NEW d \in Download, DownloadEnds(d)
  PROVE  /\ proc' = [proc EXCEPT ![d] = NoDownload]
         /\ NoDownload \in DownloadRecord /\ NoDownload.stage = "idle"
BY DEF DownloadEnds, NoDownload, DownloadRecord, DownloadStage

\* A step that ends a download, or leads it to a stage that writes no file.
LEMMA StepGoesOn ==
  ASSUME RawInv, NEW d \in Download, proc[d].stage # "idle",
         \/ DownloadEnds(d)
         \/ \E stage \in DownloadStage \ {"write", "fill", "replace"} : DownloadGoes(d, stage),
         UNCHANGED <<remote, file, tmp, clock, overlapped, fetched>>,
         sidecar' \in [Capture -> Nat]
  PROVE  RawInv' /\ FilesMove
<1>1. PICK p \in DownloadRecord :
        proc' = [proc EXCEPT ![d] = p] /\ p.stage \notin {"write", "fill", "replace"}
  <2>1. CASE DownloadEnds(d)
    BY <2>1, Ends
  <2>2. ASSUME NEW stage \in DownloadStage \ {"write", "fill", "replace"}, DownloadGoes(d, stage)
        PROVE  \E p \in DownloadRecord : proc' = [proc EXCEPT ![d] = p] /\ p.stage = stage
    BY <2>2, GoesOn
  <2> QED BY <2>1, <2>2
<1>2. fetched' \in [Capture -> SUBSET Nat] /\ \A c \in Capture : fetched[c] \subseteq fetched'[c]
  BY DEF RawInv, RawTypes
<1> QED BY <1>1, <1>2, QuietStep

LEMMA GreatestNumber ==
  ASSUME NEW n \in Nat, NEW S \in SUBSET (1..n), S # {}
  PROVE  Max(S) \in S /\ \A i \in S : Max(S) >= i
<1> DEFINE R == OpToRel(<, Nat)
           T == {n - i : i \in S}
<1>1. IsWellFoundedOn(R, Nat)
  BY NatLessThanWellFounded
<1>2. T \subseteq Nat /\ T # {}
  <2> HIDE DEF R
  <2>1. \A i \in S : n - i \in Nat
    OBVIOUS
  <2>2. PICK i \in S : TRUE
    OBVIOUS
  <2>3. n - i \in T
    BY <2>2
  <2> QED BY <2>1, <2>3
<1>3. PICK m \in T : \A k \in T : ~(<<k, m>> \in R)
  <2> HIDE DEF R, T
  <2> QED BY <1>1, <1>2, WFMin
<1>4. PICK i \in S : m = n - i
  OBVIOUS
<1>5. ASSUME NEW j \in S PROVE i >= j
  <2>1. n - j \in T /\ m \in Nat /\ n - j \in Nat
    BY <1>2
  <2>2. ~(n - j < m)
    BY <1>3, <2>1 DEF OpToRel
  <2> QED BY <1>4, <2>2
<1>6. \E x \in S : \A y \in S : x >= y
  BY <1>5
<1> QED BY <1>6 DEF Max

LEMMA CaptureNumbers == Cardinality(Capture) \in Nat /\ Capture \subseteq 1..Cardinality(Capture)
BY HistoryAssumption, FS_CardinalityType

LEMMA SelectOK ==
  ASSUME RawInv, NEW d \in Download, SelectCapture(d)
  PROVE  RawInv' /\ FilesMove
<1> DEFINE listed == {c \in Capture : remote[c] > 0}
<1>1. PICK c \in IF Web(d) THEN listed ELSE {Max(listed)} :
        proc' = [proc EXCEPT ![d] = [NoDownload EXCEPT !.stage = "check", !.c = c,
                                                      !.size = ListedSize(c)]]
  BY DEF SelectCapture
<1>2. listed # {} /\ UNCHANGED <<remote, file, tmp, sidecar, clock, overlapped, fetched>>
  BY DEF SelectCapture
<1>3. c \in Capture
  <2>1. Max(listed) \in listed
    BY <1>2, CaptureNumbers, GreatestNumber
  <2> QED BY <1>1, <2>1
<1> HIDE DEF listed
<1>4. c \in Nat /\ ListedSize(c) \in Nat
  BY <1>3, CaptureNumbers DEF ListedSize, NoSize, RawInv, RawTypes
<1> DEFINE p1 == [NoDownload EXCEPT !.stage = "check"]
           p2 == [p1 EXCEPT !.c = c]
           p  == [p2 EXCEPT !.size = ListedSize(c)]
<1>5. proc' = [proc EXCEPT ![d] = p]
  BY <1>1
<1>6. p1 \in [stage : DownloadStage, c : Nat, size : Nat, bytes : Nat, ino : Nat]
      /\ p1.stage = "check"
  BY DEF NoDownload, DownloadStage
<1> HIDE DEF p1
<1>7. p2 \in DownloadRecord /\ p2.stage = "check"
  BY <1>3, <1>4, <1>6 DEF DownloadRecord
<1> HIDE DEF p2
<1>8. p \in DownloadRecord /\ p.stage = "check"
  BY <1>4, <1>7 DEF DownloadRecord
<1> HIDE DEF p
<1>9. /\ sidecar' \in [Capture -> Nat] /\ fetched' \in [Capture -> SUBSET Nat]
      /\ \A k \in Capture : fetched[k] \subseteq fetched'[k]
  BY <1>2 DEF RawInv, RawTypes
<1> QED BY <1>2, <1>5, <1>8, <1>9, QuietStep

LEMMA CheckOK ==
  ASSUME RawInv, NEW d \in Download, CheckLocal(d)
  PROVE  RawInv' /\ FilesMove
<1>1. /\ proc[d].stage # "idle"
      /\ UNCHANGED <<remote, file, tmp, sidecar, clock, overlapped, fetched>>
  BY DEF CheckLocal, DownloadAt
<1>2. DownloadEnds(d) \/ DownloadGoes(d, "sidecar") \/ DownloadGoes(d, "fetch")
  BY DEF CheckLocal
<1>3. sidecar' \in [Capture -> Nat] /\ {"sidecar", "fetch"} \subseteq DownloadStage \ {"write", "fill", "replace"}
  BY <1>1 DEF RawInv, RawTypes, DownloadStage
<1> QED BY <1>1, <1>2, <1>3, StepGoesOn

LEMMA FetchOK ==
  ASSUME RawInv, NEW d \in Download, Fetch(d)
  PROVE  RawInv' /\ FilesMove
<1>0. PICK c : c = proc[d].c
  OBVIOUS
<1>1. /\ proc[d].stage = "fetch"
      /\ UNCHANGED <<remote, file, tmp, sidecar, clock, overlapped>>
  BY DEF Fetch, DownloadAt
<1>2. proc[d] \in DownloadRecord /\ sidecar' \in [Capture -> Nat]
  BY <1>1 DEF RawInv, RawTypes
<1>3. c \in Capture /\ remote[c] \in Nat /\ fetched \in [Capture -> SUBSET Nat]
  BY <1>0, <1>1, <1>2 DEF DownloadRecord, RawInv, RawTypes
<1>4. CASE DownloadEnds(d) /\ UNCHANGED fetched
  BY <1>1, <1>2, <1>4, StepGoesOn
<1>5. CASE /\ proc' = [proc EXCEPT ![d].stage = "write", ![d].bytes = remote[c]]
           /\ fetched' = [fetched EXCEPT ![c] = @ \cup {remote[c]}]
  <2> DEFINE p1 == [proc[d] EXCEPT !.stage = "write"]
             p  == [p1 EXCEPT !.bytes = remote[c]]
             q1 == [proc EXCEPT ![d].stage = "write"]
  <2>1. q1 = [proc EXCEPT ![d] = p1]
    OBVIOUS
  <2>2. proc' = [q1 EXCEPT ![d].bytes = remote[c]]
    BY <1>5
  <2>3. proc \in [Download -> DownloadRecord]
    BY DEF RawInv, RawTypes
  <2>4. p1 \in DownloadRecord /\ p1.stage = "write" /\ p1.c = c
    BY <1>0, <1>2, <1>3 DEF DownloadRecord, DownloadStage
  <2> HIDE DEF q1, p1
  <2>5. proc' = [proc EXCEPT ![d] = p]
    BY <2>1, <2>2, <2>3
  <2>6. p \in DownloadRecord /\ p.stage = "write" /\ p.c = c /\ p.bytes = remote[c]
    BY <1>3, <2>4 DEF DownloadRecord
  <2> HIDE DEF p
  <2>7. /\ fetched' \in [Capture -> SUBSET Nat] /\ remote[c] \in fetched'[c]
        /\ \A k \in Capture : fetched[k] \subseteq fetched'[k]
    BY <1>3, <1>5
  <2> QED BY <1>1, <1>2, <2>5, <2>6, <2>7, QuietStep
<1> QED BY <1>0, <1>4, <1>5 DEF Fetch

\* The .tmp file is truncated under the inode it has, or is made.
LEMMA OpenOK ==
  ASSUME RawInv, NEW d \in Download, OpenTmp(d)
  PROVE  RawInv' /\ FilesMove
<1>0. PICK c, ino : c = proc[d].c /\ ino = IF tmp[c] = NoPcap THEN clock + 1 ELSE tmp[c].ino
  OBVIOUS
<1>1. /\ proc[d].stage = "write" /\ clock' = clock + 1
      /\ tmp' = [tmp EXCEPT ![c] = [ino |-> ino, bytes |-> 0, mtime |-> clock']]
      /\ proc' = [proc EXCEPT ![d].stage = "fill", ![d].ino = ino]
      /\ overlapped' = overlapped \cup {x \in {c} : \E o \in Download \ {d} : Writing(o, c)}
      /\ UNCHANGED <<remote, file, sidecar, fetched>>
  BY <1>0 DEF OpenTmp, DownloadAt
<1>2. RawTypes /\ proc[d] \in DownloadRecord /\ proc \in [Download -> DownloadRecord]
  BY DEF RawInv, RawTypes
<1>3. c \in Capture /\ clock \in Nat /\ clock' \in Nat
  BY <1>0, <1>1, <1>2 DEF DownloadRecord, RawTypes
<1>4. TwoInodes(c) /\ tmp[c] \in Pcap /\ file[c] \in Pcap
  BY <1>2, <1>3 DEF RawInv, RawTypes
<1>5. /\ ino \in 1..clock' /\ ino \in Nat
      /\ file[c] # NoPcap => file[c].ino # ino
  BY <1>0, <1>1, <1>3, <1>4 DEF TwoInodes, Written
<1> DEFINE f == [ino |-> ino, bytes |-> 0, mtime |-> clock']
<1>6. f \in Pcap /\ f.ino = ino /\ f.mtime = clock' /\ f.bytes = 0 /\ f # NoPcap
  BY <1>3, <1>5 DEF Pcap, NoPcap
<1>7. tmp' = [tmp EXCEPT ![c] = f]
  BY <1>1
<1> HIDE DEF f
<1>8. /\ tmp' \in [Capture -> Pcap] /\ tmp'[c] = f
      /\ \A k \in Capture : k # c => tmp'[k] = tmp[k]
  BY <1>2, <1>3, <1>6, <1>7 DEF RawTypes
<1>9. FilesMove
  <2>1. \A k \in 1..clock : clock' # k
    BY <1>1, <1>3
  <2> QED BY <1>1, <1>3, <1>6, <1>8, <2>1 DEF FilesMove
<1>10. ASSUME NEW k \in Capture PROVE TwoInodes(k)' /\ FileIsWhole(k)'
  <2>1. TwoInodes(k) /\ FileIsWhole(k)
    BY DEF RawInv
  <2>2. FileIsWhole(k)'
    BY <1>1, <2>1 DEF FileIsWhole
  <2>3. Written(file[k])' /\ (k # c => Written(tmp[k])')
    BY <1>1, <1>3, <1>8, <2>1, WrittenStays DEF TwoInodes, Written
  <2>4. Written(tmp[c])'
    BY <1>3, <1>5, <1>6, <1>8, <1>1 DEF Written
  <2>5. CASE k # c
    BY <1>1, <1>8, <2>1, <2>2, <2>3, <2>5 DEF TwoInodes
  <2>6. CASE k = c
    <3>1. file[c] # NoPcap => file[c].ino # ino /\ file[c].mtime # clock'
      BY <1>1, <1>3, <1>4, <1>5 DEF TwoInodes, Written
    <3> QED BY <1>1, <1>6, <1>8, <2>2, <2>3, <2>4, <2>6, <3>1 DEF TwoInodes
  <2> QED BY <2>5, <2>6
<1> DEFINE p1 == [proc[d] EXCEPT !.stage = "fill"]
           p  == [p1 EXCEPT !.ino = ino]
           q1 == [proc EXCEPT ![d].stage = "fill"]
<1>11. q1 = [proc EXCEPT ![d] = p1]
  OBVIOUS
<1>12. proc' = [q1 EXCEPT ![d].ino = ino]
  BY <1>1
<1>13. p1 \in DownloadRecord /\ p1.stage = "fill" /\ p1.c = c /\ p1.bytes = proc[d].bytes
  BY <1>0, <1>2, <1>3 DEF DownloadRecord, DownloadStage
<1> HIDE DEF q1, p1
<1>14. proc' = [proc EXCEPT ![d] = p]
  BY <1>2, <1>11, <1>12
<1>15. p \in DownloadRecord /\ p.stage = "fill" /\ p.c = c /\ p.bytes = proc[d].bytes /\ p.ino = ino
  BY <1>5, <1>13 DEF DownloadRecord
<1> HIDE DEF p
<1>16. WriterKnows(d)'
  <2>1. proc'[d] = p /\ proc[d].bytes \in fetched[c]
    BY <1>0, <1>1, <1>2, <1>14 DEF RawInv, WriterKnows
  <2> QED BY <1>1, <1>5, <1>6, <1>8, <1>15, <2>1 DEF WriterKnows
<1>17. c \in overlapped' \/ \A o \in Download \ {d} : ~Writing(o, c)
  BY <1>1
<1>18. \A k \in Capture : fetched[k] \subseteq fetched'[k]
  BY <1>1
<1>19. overlapped \subseteq overlapped' /\ clock <= clock'
  BY <1>1, <1>3
<1>20. \A o \in Download \ {d}, k \in Capture \ overlapped' : Writing(o, k) => tmp'[k] = tmp[k]
  BY <1>8, <1>17
<1>21. /\ remote' \in [Capture -> Nat] /\ sidecar' \in [Capture -> Nat]
       /\ file' \in [Capture -> Pcap] /\ fetched' \in [Capture -> SUBSET Nat]
  BY <1>1, <1>2 DEF RawTypes
<1>22. \A k \in Capture \ overlapped' :
         p.c = k /\ p.stage \in {"fill", "replace"} =>
           \/ Writing(d, k) \/ \A o \in Download \ {d} : ~Writing(o, k)
  BY <1>15, <1>17
<1> QED BY <1>3, <1>8, <1>9, <1>10, <1>14, <1>15, <1>16, <1>18, <1>19, <1>20, <1>21, <1>22, DownloadStep

LEMMA MaxOfZero ==
  ASSUME NEW n \in Nat
  PROVE  Max({0, n}) = n
<1>1. \E x \in {0, n} : \A y \in {0, n} : x >= y
  OBVIOUS
<1> DEFINE P(x) == x \in {0, n} /\ \A y \in {0, n} : x >= y
<1>2. P(Max({0, n}))
  BY <1>1 DEF Max
<1> QED BY <1>2

LEMMA MaxOfTwo ==
  ASSUME NEW m \in Nat, NEW n \in Nat
  PROVE  Max({m, n}) \in Nat
<1>1. \E x \in {m, n} : \A y \in {m, n} : x >= y
  OBVIOUS
<1>2. Max({m, n}) \in {m, n}
  BY <1>1 DEF Max
<1> QED BY <1>2

\* What the bytes of an open file become under a name of its inode.
FilledWith(f, g, c, ino, n) ==
  /\ g \in [Capture -> Pcap]
  /\ \A k \in Capture : k # c => g[k] = f[k]
  /\ f[c].ino # ino => g[c] = f[c]
  /\ f[c].ino = ino => /\ g[c].ino = ino /\ g[c].mtime = clock + 1
                       /\ g[c].bytes = Max({f[c].bytes, n})

LEMMA FilledFacts ==
  ASSUME NEW f \in [Capture -> Pcap], NEW c \in Capture, NEW ino, NEW n \in Nat, clock \in Nat, NEW g,
         g = IF f[c].ino = ino
             THEN [f EXCEPT ![c].bytes = Max({@, n}), ![c].mtime = clock + 1] ELSE f
  PROVE  FilledWith(f, g, c, ino, n)
<1>1. CASE f[c].ino # ino
  BY <1>1 DEF FilledWith
<1>2. CASE f[c].ino = ino
  <2> DEFINE r1 == [f[c] EXCEPT !.bytes = Max({@, n})]
             r  == [r1 EXCEPT !.mtime = clock + 1]
             g1 == [f EXCEPT ![c].bytes = Max({@, n})]
  <2>1. g1 = [f EXCEPT ![c] = r1]
    OBVIOUS
  <2>2. g = [g1 EXCEPT ![c].mtime = clock + 1]
    BY <1>2
  <2>3. Max({f[c].bytes, n}) \in Nat
    BY MaxOfTwo DEF Pcap
  <2>4. r1 \in Pcap /\ r1.ino = ino /\ r1.bytes = Max({f[c].bytes, n})
    <3> DEFINE m == Max({f[c].bytes, n})
    <3>1. r1 = [f[c] EXCEPT !.bytes = m]
      OBVIOUS
    <3>2. m \in Nat
      BY <2>3
    <3> HIDE DEF m, r1
    <3>3. r1 \in Pcap /\ r1.ino = ino /\ r1.bytes = m
      BY <1>2, <3>1, <3>2 DEF Pcap
    <3> QED BY <3>3 DEF m
  <2> HIDE DEF g1, r1
  <2>5. g = [f EXCEPT ![c] = r]
    BY <2>1, <2>2
  <2>6. /\ r \in Pcap /\ r.ino = ino /\ r.bytes = Max({f[c].bytes, n}) /\ r.mtime = clock + 1
    BY <2>4 DEF Pcap
  <2> HIDE DEF r
  <2>7. g \in [Capture -> Pcap] /\ g[c] = r /\ \A k \in Capture : k # c => g[k] = f[k]
    BY <2>5, <2>6
  <2> QED BY <1>2, <2>6, <2>7 DEF FilledWith
<1> QED BY <1>1, <1>2

LEMMA FillOK ==
  ASSUME RawInv, NEW d \in Download, Fill(d)
  PROVE  RawInv' /\ FilesMove
<1>0. PICK c, n, ino : c = proc[d].c /\ n = proc[d].bytes /\ ino = proc[d].ino
  OBVIOUS
<1>1. /\ proc[d].stage = "fill" /\ clock' = clock + 1 /\ DownloadGoes(d, "replace")
      /\ tmp' = IF tmp[c].ino = ino
                THEN [tmp EXCEPT ![c].bytes = Max({@, n}), ![c].mtime = clock + 1] ELSE tmp
      /\ file' = IF file[c].ino = ino
                 THEN [file EXCEPT ![c].bytes = Max({@, n}), ![c].mtime = clock + 1] ELSE file
      /\ UNCHANGED <<remote, sidecar, overlapped, fetched>>
  BY <1>0 DEF Fill, DownloadAt
<1>2. RawTypes /\ proc[d] \in DownloadRecord
  BY DEF RawInv, RawTypes
<1>3. c \in Capture /\ clock \in Nat /\ clock' \in Nat /\ n \in Nat
  BY <1>0, <1>1, <1>2 DEF DownloadRecord, RawTypes
<1>4. WriterKnows(d) /\ TwoInodes(c) /\ FileIsWhole(c)
  BY <1>3 DEF RawInv
<1>5. ino \in 1..clock /\ n \in fetched[c]
  BY <1>0, <1>1, <1>4 DEF WriterKnows
<1>6. FilledWith(tmp, tmp', c, ino, n) /\ FilledWith(file, file', c, ino, n)
  BY <1>1, <1>2, <1>3, FilledFacts DEF RawTypes
<1>7. file \in [Capture -> Pcap] /\ tmp \in [Capture -> Pcap]
  BY <1>2 DEF RawTypes
\* No inode has two names.
<1>8. ~(file[c].ino = ino /\ tmp[c].ino = ino)
  BY <1>4, <1>5, PcapFacts DEF TwoInodes
<1>9. FilesMove
  <2>1. ASSUME NEW k \in Capture PROVE file[k] # NoPcap => file'[k] # NoPcap
    <3>1. CASE k = c /\ file[c].ino = ino
      BY <1>3, <1>6, <3>1, PcapFacts DEF FilledWith
    <3>2. CASE ~(k = c /\ file[c].ino = ino)
      BY <1>6, <3>2 DEF FilledWith
    <3> QED BY <3>1, <3>2
  <2>2. ASSUME NEW k \in Capture, NEW t \in 1..clock
        PROVE  /\ file[k].mtime # t /\ tmp[k].mtime # t => file'[k].mtime # t /\ tmp'[k].mtime # t
               /\ file[k].mtime = t =>
                    file'[k] = file[k] \/ (file'[k].mtime # t /\ tmp'[k].mtime # t)
    <3>1. clock + 1 # t
      BY <1>3
    <3>2. CASE k # c
      BY <1>6, <2>2, <3>2 DEF FilledWith
    <3>3. CASE k = c /\ file[c].ino = ino
      <4>1. file'[c].mtime # t /\ tmp'[c] = tmp[c] /\ file[c] # NoPcap
        BY <1>5, <1>6, <1>8, <3>1, <3>3, PcapFacts DEF FilledWith
      <4>2. file[c].mtime = t => tmp[c].mtime # t
        BY <1>4, <1>7, <2>2, <4>1, PcapFacts DEF TwoInodes
      <4> QED BY <3>3, <4>1, <4>2
    <3>4. CASE k = c /\ file[c].ino # ino
      <4>1. file'[c] = file[c] /\ (tmp'[c] = tmp[c] \/ tmp'[c].mtime # t)
        BY <1>6, <3>1, <3>4 DEF FilledWith
      <4> QED BY <3>4, <4>1
    <3> QED BY <3>2, <3>3, <3>4
  <2>3. clock <= clock'
    BY <1>1, <1>3
  <2> QED BY <1>3, <2>1, <2>2, <2>3 DEF FilesMove
<1>10. ASSUME NEW k \in Capture PROVE TwoInodes(k)'
  <2>1. TwoInodes(k)
    BY DEF RawInv
  <2>2. Written(file[k])' /\ (k # c => Written(tmp[k])')
    <3>1. CASE k = c /\ file[c].ino = ino
      BY <1>1, <1>3, <1>5, <1>6, <3>1 DEF FilledWith, Written
    <3>2. CASE k = c /\ file[c].ino # ino
      BY <1>1, <1>3, <1>6, <2>1, <3>2 DEF FilledWith, Written, TwoInodes
    <3>3. CASE k # c
      BY <1>1, <1>3, <1>6, <2>1, <3>3 DEF FilledWith, Written, TwoInodes
    <3> QED BY <3>1, <3>2, <3>3
  <2>3. Written(tmp[c])'
    <3>1. CASE tmp[c].ino = ino
      BY <1>1, <1>3, <1>5, <1>6, <3>1 DEF FilledWith, Written
    <3>2. CASE tmp[c].ino # ino
      BY <1>1, <1>3, <1>4, <1>6, <3>2 DEF FilledWith, Written, TwoInodes
    <3> QED BY <3>1, <3>2
  <2>4. CASE k # c
    BY <1>6, <2>1, <2>2, <2>4 DEF FilledWith, TwoInodes
  <2>5. CASE k = c
    <3>1. file'[c].ino = file[c].ino /\ tmp'[c].ino = tmp[c].ino
      BY <1>6 DEF FilledWith
    <3>2. CASE file[c].ino = ino
      <4>1. file'[c].mtime = clock + 1 /\ tmp'[c] = tmp[c] /\ file[c] # NoPcap
        BY <1>5, <1>6, <1>8, <3>2, PcapFacts DEF FilledWith
      <4>2. tmp[c] # NoPcap => tmp[c].mtime # clock + 1
        BY <1>3, <1>4 DEF TwoInodes, Written
      <4> QED BY <1>4, <2>2, <2>3, <2>5, <3>1, <4>1, <4>2 DEF TwoInodes
    <3>3. CASE file[c].ino # ino /\ tmp[c].ino = ino
      <4>1. tmp'[c].mtime = clock + 1 /\ file'[c] = file[c] /\ tmp[c] # NoPcap
        BY <1>5, <1>6, <3>3, PcapFacts DEF FilledWith
      <4>2. file[c] # NoPcap => file[c].mtime # clock + 1
        BY <1>3, <1>4 DEF TwoInodes, Written
      <4> QED BY <1>4, <2>2, <2>3, <2>5, <3>1, <4>1, <4>2 DEF TwoInodes
    <3>4. CASE file[c].ino # ino /\ tmp[c].ino # ino
      BY <1>4, <1>6, <2>2, <2>3, <2>5, <3>4 DEF FilledWith, TwoInodes
    <3> QED BY <3>2, <3>3, <3>4
  <2> QED BY <2>4, <2>5
\* A download that writes alone writes no file that has its final name.
<1>11. c \notin overlapped => /\ tmp[c].ino = ino /\ file[c].ino # ino /\ tmp'[c] # NoPcap
                              /\ tmp'[c].bytes = n
  <2>1. ASSUME c \notin overlapped PROVE tmp[c].ino = ino /\ tmp[c].bytes = 0
    BY <1>0, <1>1, <1>4, <2>1 DEF WriterKnows
  <2>2. ASSUME c \notin overlapped PROVE tmp'[c].bytes = n /\ tmp'[c].ino = ino
    BY <1>3, <1>6, <2>1, <2>2, MaxOfZero DEF FilledWith
  <2>3. ASSUME c \notin overlapped PROVE tmp'[c] # NoPcap /\ file[c].ino # ino
    BY <1>5, <1>8, <2>1, <2>2, <2>3, PcapFacts
  <2> QED BY <2>1, <2>2, <2>3
<1>12. ASSUME NEW k \in Capture PROVE FileIsWhole(k)'
  <2>1. FileIsWhole(k)
    BY DEF RawInv
  <2>2. k \notin overlapped => file'[k] = file[k]
    BY <1>6, <1>11 DEF FilledWith
  <2> QED BY <1>1, <2>1, <2>2 DEF FileIsWhole
<1>13. PICK p \in DownloadRecord :
         /\ proc' = [proc EXCEPT ![d] = p] /\ p.stage = "replace" /\ p.c = c /\ p.ino = ino
  BY <1>0, <1>1, GoesOn DEF DownloadStage
<1>14. proc'[d] = p
  BY <1>2, <1>13 DEF RawTypes
<1>15. WriterKnows(d)'
  <2>1. fetched' = fetched /\ overlapped' = overlapped /\ ino \in 1..clock'
    BY <1>1, <1>3, <1>5
  <2> QED BY <1>5, <1>11, <1>13, <1>14, <2>1 DEF WriterKnows
<1>16. Writing(d, c)
  BY <1>0, <1>1 DEF Writing
<1>17. \A o \in Download \ {d}, k \in Capture \ overlapped' : Writing(o, k) => tmp'[k] = tmp[k]
  <2>1. ASSUME NEW o \in Download \ {d}, NEW k \in Capture \ overlapped', Writing(o, k)
        PROVE  k # c
    BY <1>1, <1>3, <1>16, <2>1 DEF RawInv, WritersApart
  <2> QED BY <1>6, <2>1 DEF FilledWith
<1>18. \A k \in Capture \ overlapped' :
         p.c = k /\ p.stage \in {"fill", "replace"} =>
           \/ Writing(d, k) \/ \A o \in Download \ {d} : ~Writing(o, k)
  BY <1>13, <1>16
<1>19. /\ remote' \in [Capture -> Nat] /\ sidecar' \in [Capture -> Nat]
       /\ file' \in [Capture -> Pcap] /\ tmp' \in [Capture -> Pcap]
       /\ fetched' \in [Capture -> SUBSET Nat] /\ \A k \in Capture : fetched[k] \subseteq fetched'[k]
       /\ overlapped \subseteq overlapped' /\ clock <= clock'
  BY <1>1, <1>2, <1>3, <1>6 DEF RawTypes, FilledWith
<1> QED BY <1>3, <1>9, <1>10, <1>12, <1>13, <1>15, <1>17, <1>18, <1>19, DownloadStep

LEMMA ReplaceOK ==
  ASSUME RawInv, NEW d \in Download, ReplaceFile(d)
  PROVE  RawInv' /\ FilesMove
<1>0. PICK c, f : c = proc[d].c /\ f = tmp[c]
  OBVIOUS
<1>1. /\ proc[d].stage = "replace" /\ UNCHANGED <<remote, sidecar, clock, overlapped, fetched>>
      /\ IF f = NoPcap THEN DownloadEnds(d) /\ UNCHANGED <<file, tmp>>
         ELSE /\ file' = [file EXCEPT ![c] = f]
              /\ tmp' = [tmp EXCEPT ![c] = NoPcap]
              /\ DownloadGoes(d, "sidecar")
  BY <1>0 DEF ReplaceFile, DownloadAt
<1>2. RawTypes /\ proc[d] \in DownloadRecord
  BY DEF RawInv, RawTypes
<1>3. c \in Capture /\ clock \in Nat /\ f \in Pcap /\ sidecar' \in [Capture -> Nat]
  BY <1>0, <1>1, <1>2 DEF DownloadRecord, RawTypes
<1>4. CASE f = NoPcap
  BY <1>1, <1>3, <1>4, StepGoesOn
<1>5. CASE f # NoPcap
  <2>1. /\ file' \in [Capture -> Pcap] /\ file'[c] = f
        /\ tmp' \in [Capture -> Pcap] /\ tmp'[c] = NoPcap
        /\ \A k \in Capture : k # c => file'[k] = file[k] /\ tmp'[k] = tmp[k]
    BY <1>1, <1>2, <1>3, <1>5, PcapFacts DEF RawTypes
  <2>2. TwoInodes(c) /\ WriterKnows(d)
    BY <1>3 DEF RawInv
  <2>3. FilesMove
    <3>1. ASSUME NEW k \in 1..clock
          PROVE  /\ file[c].mtime # k /\ tmp[c].mtime # k => file'[c].mtime # k /\ tmp'[c].mtime # k
                 /\ file[c].mtime = k => file'[c].mtime # k /\ tmp'[c].mtime # k
      BY <1>0, <1>3, <1>5, <2>1, <2>2, <3>1, PcapFacts DEF TwoInodes
    <3>2. clock' \in Nat /\ clock <= clock'
      BY <1>1, <1>3
    <3> QED BY <1>5, <2>1, <3>1, <3>2 DEF FilesMove
  <2>4. ASSUME NEW k \in Capture PROVE TwoInodes(k)' /\ FileIsWhole(k)'
    <3>1. TwoInodes(k) /\ FileIsWhole(k) /\ clock' = clock /\ overlapped' = overlapped
      BY <1>1 DEF RawInv
    <3>2. CASE k # c
      BY <1>1, <2>1, <3>1, <3>2 DEF TwoInodes, FileIsWhole, Written
    <3>3. CASE k = c
      <4>1. c \notin overlapped => f.bytes \in fetched[c]
        BY <1>0, <1>1, <2>2 DEF WriterKnows
      <4>2. Written(file[c])' /\ Written(tmp[c])'
        BY <1>0, <2>1, <2>2, <3>1 DEF TwoInodes, Written
      <4> QED BY <1>1, <2>1, <3>3, <4>1, <4>2 DEF TwoInodes, FileIsWhole
    <3> QED BY <3>2, <3>3
  <2>5. PICK p \in DownloadRecord : proc' = [proc EXCEPT ![d] = p] /\ p.stage = "sidecar"
    BY <1>1, <1>5, GoesOn DEF DownloadStage
  <2>6. WriterKnows(d)'
    BY <1>2, <2>5 DEF WriterKnows, RawTypes
  <2>7. Writing(d, c)
    BY <1>0, <1>1 DEF Writing
  <2>8. \A o \in Download \ {d}, k \in Capture \ overlapped' : Writing(o, k) => tmp'[k] = tmp[k]
    <3>1. ASSUME NEW o \in Download \ {d}, NEW k \in Capture \ overlapped', Writing(o, k)
          PROVE  k # c
      BY <1>1, <1>3, <2>7, <3>1 DEF RawInv, WritersApart
    <3> QED BY <2>1, <3>1
  <2>9. /\ remote' \in [Capture -> Nat] /\ fetched' \in [Capture -> SUBSET Nat]
        /\ \A k \in Capture : fetched[k] \subseteq fetched'[k]
        /\ overlapped \subseteq overlapped' /\ clock' \in Nat /\ clock <= clock'
    BY <1>1, <1>2, <1>3 DEF RawTypes
  <2> QED BY <1>3, <2>1, <2>3, <2>4, <2>5, <2>6, <2>8, <2>9, DownloadStep
<1> QED BY <1>4, <1>5

LEMMA SidecarOK ==
  ASSUME RawInv, NEW d \in Download, WriteSidecar(d)
  PROVE  RawInv' /\ FilesMove
<1>0. PICK c : c = proc[d].c
  OBVIOUS
<1>1. /\ proc[d].stage \in {"sidecar", "metadata"}
      /\ UNCHANGED <<remote, file, tmp, clock, overlapped, fetched>>
      /\ DownloadGoes(d, "metadata") \/ DownloadGoes(d, "register") \/ DownloadEnds(d)
      /\ \/ sidecar' = [sidecar EXCEPT ![c] = Unreadable]
         \/ sidecar' = [sidecar EXCEPT ![c] = proc[d].size]
  BY <1>0 DEF WriteSidecar, DownloadAt
<1>2. proc[d].size \in Nat /\ Unreadable \in Nat /\ sidecar \in [Capture -> Nat]
  BY HistoryAssumption DEF RawInv, RawTypes, DownloadRecord, Unreadable
<1>3. sidecar' \in [Capture -> Nat]
  BY <1>1, <1>2
<1>4. {"metadata", "register"} \subseteq DownloadStage \ {"write", "fill", "replace"}
  BY DEF DownloadStage
<1> QED BY <1>1, <1>3, <1>4, StepGoesOn

LEMMA EndsOK ==
  ASSUME RawInv, NEW d \in Download, proc[d].stage # "idle", DownloadEnds(d),
         UNCHANGED <<remote, file, tmp, sidecar, clock, overlapped, fetched>>
  PROVE  RawInv' /\ FilesMove
<1>1. sidecar' \in [Capture -> Nat]
  BY DEF RawInv, RawTypes
<1> QED BY <1>1, StepGoesOn

\* Any step of a download, and what Catalyst Center does meanwhile.
LEMMA DownloadsOK ==
  ASSUME RawInv, PubInv,
         \/ RemoteGrows
         \/ \E d \in Download :
              \/ SelectCapture(d) \/ CheckLocal(d) \/ Fetch(d) \/ OpenTmp(d) \/ Fill(d)
              \/ ReplaceFile(d) \/ WriteSidecar(d) \/ Register(d) \/ Die(d)
  PROVE  RawInv' /\ PubInv'
<1>1. CASE RemoteGrows
  <2>1. PICK c \in Capture : remote' = [remote EXCEPT ![c] = @ + 1]
    BY <1>1 DEF RemoteGrows
  <2>2. UNCHANGED <<file, tmp, sidecar, proc, clock, overlapped, fetched, captured,
                    cache, prom, pub, torn>>
    BY <1>1 DEF RemoteGrows
  <2>3. remote' \in [Capture -> Nat]
    BY <2>1 DEF RawInv, RawTypes
  <2>4. RawInv'
    BY <2>2, <2>3 DEF RawInv, RawTypes, TwoInodes, Written, FileIsWhole, WriterKnows,
                      WritersApart, Writing
  <2>5. FilesMove
    BY <2>2, FilesStayPut DEF RawInv, RawTypes
  <2> QED BY <2>2, <2>4, <2>5, PublisherStays DEF PubInv
<1>2. ASSUME NEW d \in Download,
             \/ SelectCapture(d) \/ CheckLocal(d) \/ Fetch(d) \/ OpenTmp(d) \/ Fill(d)
             \/ ReplaceFile(d) \/ WriteSidecar(d) \/ Register(d) \/ Die(d)
      PROVE  /\ RawInv' /\ FilesMove
             /\ UNCHANGED <<cache, prom, pub, torn>> /\ \A r \in captured' : RowOK(r)
  <2>0. \A r \in captured : RowOK(r)
    BY DEF PubInv
  <2>1. CASE SelectCapture(d)
    BY <2>0, <2>1, SelectOK DEF SelectCapture, published
  <2>2. CASE CheckLocal(d)
    BY <2>0, <2>2, CheckOK DEF CheckLocal, published
  <2>3. CASE Fetch(d)
    BY <2>0, <2>3, FetchOK DEF Fetch, published
  <2>4. CASE OpenTmp(d)
    BY <2>0, <2>4, OpenOK DEF OpenTmp, published
  <2>5. CASE Fill(d)
    BY <2>0, <2>5, FillOK DEF Fill, published
  <2>6. CASE ReplaceFile(d)
    BY <2>0, <2>6, ReplaceOK DEF ReplaceFile, published
  <2>7. CASE WriteSidecar(d)
    BY <2>0, <2>7, SidecarOK DEF WriteSidecar, published
  <2>8. CASE Register(d)
    <3>1. /\ proc[d].stage # "idle" /\ DownloadEnds(d)
          /\ UNCHANGED <<remote, file, tmp, sidecar, clock, overlapped, fetched>>
          /\ UNCHANGED <<cache, prom, pub, torn>>
      BY <2>8 DEF Register, DownloadAt, published
    <3>2. ASSUME NEW r \in captured' \ captured PROVE RowOK(r)
      <4>1. r.result = Absent
        BY <2>8, <3>2 DEF Register
      <4> QED BY <4>1, HistoryAssumption DEF RowOK, Absent
    <3> QED BY <2>0, <3>1, <3>2, EndsOK
  <2>9. CASE Die(d)
    BY <2>0, <2>9, EndsOK DEF Die, DownloadAt, published
  <2> QED BY <1>2, <2>1, <2>2, <2>3, <2>4, <2>5, <2>6, <2>7, <2>8, <2>9
<1>3. ASSUME NEW d \in Download,
             \/ SelectCapture(d) \/ CheckLocal(d) \/ Fetch(d) \/ OpenTmp(d) \/ Fill(d)
             \/ ReplaceFile(d) \/ WriteSidecar(d) \/ Register(d) \/ Die(d)
      PROVE  RawInv' /\ PubInv'
  BY <1>2, <1>3, PublisherStays
<1> QED BY <1>1, <1>3

-----------------------------------------------------------------------------
(* The publisher                                                            *)

LEMMA RawStays ==
  ASSUME RawInv, UNCHANGED rawVars
  PROVE  /\ RawInv'
         /\ \A c, s : (IsNow(c, s)' <=> IsNow(c, s)) /\ (IsGone(c, s)' <=> IsGone(c, s))
         /\ \A c, s, result : IsAnalysis(c, s, result)' <=> IsAnalysis(c, s, result)
<1>1. UNCHANGED <<remote, file, tmp, sidecar, proc, clock, overlapped, fetched>>
  BY DEF rawVars
<1>2. RawInv'
  BY <1>1 DEF RawInv, RawTypes, TwoInodes, Written, FileIsWhole, WriterKnows, WritersApart, Writing
<1>3. \A c, s : (IsNow(c, s)' <=> IsNow(c, s)) /\ (IsGone(c, s)' <=> IsGone(c, s))
  BY <1>1 DEF IsNow, IsGone
<1> QED BY <1>2, <1>3 DEF IsAnalysis

LEMMA PubFacts ==
  ASSUME PubInv
  PROVE  /\ pub \in PubRecord /\ pub.stage \in PubStage /\ pub.todo \in Seq(Capture)
         /\ pub.state \in FileState /\ pub.result \in Nat
         /\ cache \in [Capture -> [state : FileState, result : Nat]] /\ prom \in [Capture -> Nat]
         /\ pub.stage \in {"state", "parse", "json", "prom"} =>
              /\ pub.todo # <<>> /\ Head(pub.todo) \in Capture
              /\ file[Head(pub.todo)] # NoPcap
              /\ \A i \in DOMAIN pub.todo : file[pub.todo[i]] # NoPcap
<1>1. PubTypes /\ PubKnows
  BY DEF PubInv
<1>2. pub \in PubRecord /\ pub.todo \in Seq(Capture)
  BY <1>1 DEF PubTypes, PubRecord
<1>3. pub.todo # <<>> => Head(pub.todo) = pub.todo[1] /\ 1 \in DOMAIN pub.todo
  BY <1>2
<1> QED BY <1>1, <1>2, <1>3 DEF PubTypes, PubRecord, PubKnows

\* A step that only leads the publisher on.
LEMMA OnlyPublisher ==
  ASSUME RawInv, PubInv, UNCHANGED rawVars, UNCHANGED <<cache, prom>>,
         pub' \in PubRecord, PubKnows', torn \subseteq torn',
         pub.stage = "prom" => Head(pub.todo) \in torn',
         \A r \in captured' : RowOK(r)
  PROVE  PubInv'
<1>1. PubTypes'
  BY DEF PubInv, PubTypes
<1>2. ASSUME NEW c \in Capture PROVE CacheIsAnalysis(c)' /\ PromFollows(c)'
  BY RawStays DEF PubInv, CacheIsAnalysis, PromFollows
<1> QED BY <1>1, <1>2 DEF PubInv

LEMMA AsleepFacts ==
  /\ Asleep \in PubRecord /\ Asleep.stage = "idle"
  /\ NoState \in FileState
<1>1. Unreadable \in Nat
  BY HistoryAssumption DEF Unreadable
<1>2. NoState \in FileState
  BY <1>1 DEF NoState, FileState
<1>3. <<>> \in Seq(Capture)
  OBVIOUS
<1> QED BY <1>2, <1>3 DEF Asleep, PubRecord, PubStage

LEMMA AsleepKnows ==
  ASSUME pub' = Asleep
  PROVE  pub' \in PubRecord /\ PubKnows'
BY AsleepFacts DEF PubKnows

LEMMA SkipFacts ==
  ASSUME PubInv, pub.todo # <<>>, \A i \in DOMAIN pub.todo : file[pub.todo[i]] # NoPcap,
         pub' = Skip(pub), UNCHANGED file
  PROVE  pub' \in PubRecord /\ PubKnows'
<1> DEFINE stage == IF Len(pub.todo) = 1 THEN "publish" ELSE "state"
           todo  == Tail(pub.todo)
           p1    == [pub EXCEPT !.todo = todo]
           p     == [p1 EXCEPT !.stage = stage]
<1>1. pub' = p
  BY DEF Skip
<1>2. pub \in PubRecord /\ pub.todo \in Seq(Capture)
  BY PubFacts
<1>3. /\ todo \in Seq(Capture) /\ Len(todo) = Len(pub.todo) - 1 /\ Len(pub.todo) \in Nat
      /\ \A i \in DOMAIN todo : i + 1 \in DOMAIN pub.todo /\ todo[i] = pub.todo[i + 1]
  BY <1>2
<1>4. \A i \in DOMAIN todo : file[todo[i]] # NoPcap
  BY <1>3
<1>5. stage = "state" => todo # <<>>
  <2>1. Len(pub.todo) # 0 /\ Len(<<>>) = 0
    BY <1>2, EmptySeq
  <2>2. stage = "state" => Len(pub.todo) # 1
    OBVIOUS
  <2>3. Len(pub.todo) # 1 => Len(todo) # 0
    BY <1>3, <2>1
  <2> HIDE DEF stage, todo
  <2> QED BY <2>1, <2>2, <2>3
<1>6. stage \in {"state", "publish"}
  OBVIOUS
<1> HIDE DEF stage, todo
<1>7. p1 \in PubRecord
  BY <1>2, <1>3 DEF PubRecord
<1>8. p1.todo = todo
  BY <1>2 DEF PubRecord
<1> HIDE DEF p1
<1>9. p \in PubRecord /\ p.stage = stage /\ p.todo = todo
  BY <1>6, <1>7, <1>8 DEF PubRecord, PubStage
<1> HIDE DEF p
<1> QED BY <1>1, <1>4, <1>5, <1>6, <1>9 DEF PubKnows

LEMMA DiscoverOK ==
  ASSUME RawInv, PubInv, DiscoverPcaps
  PROVE  PubInv'
<1> DEFINE found == {c \in Capture : file[c] # NoPcap}
<1>1. /\ pub.stage = "idle" /\ UNCHANGED <<rawVars, cache, prom, captured, torn>>
      /\ \/ UNCHANGED pub
         \/ found # {} /\ \E order \in [1..Cardinality(found) -> found] :
              pub' = [Asleep EXCEPT !.stage = "state", !.todo = order, !.latest = order[Len(order)]]
  BY DEF DiscoverPcaps
<1>2. UNCHANGED rawVars /\ UNCHANGED <<cache, prom>> /\ \A r \in captured' : RowOK(r)
  BY <1>1 DEF PubInv
<1>3. pub' \in PubRecord /\ PubKnows'
  <2>1. CASE UNCHANGED pub
    BY <1>1, <2>1, PubFacts DEF PubKnows
  <2>2. ASSUME found # {}, NEW order \in [1..Cardinality(found) -> found],
               pub' = [Asleep EXCEPT !.stage = "state", !.todo = order, !.latest = order[Len(order)]]
        PROVE  pub' \in PubRecord /\ PubKnows'
    <3>1. found \subseteq Capture /\ IsFiniteSet(found)
      BY HistoryAssumption, FS_Subset
    <3>2. Cardinality(found) \in Nat /\ Cardinality(found) # 0
      BY <2>2, <3>1, FS_CardinalityType, FS_EmptySet
    <3> DEFINE n == Cardinality(found)
    <3>3. n \in Nat /\ n # 0 /\ order \in [1..n -> found]
      BY <2>2, <3>2
    <3> HIDE DEF n
    <3>4. order \in Seq(found)
      BY <3>3
    <3>5. Len(order) = n /\ DOMAIN order = 1..n
      BY <3>3, <3>4
    <3>6. /\ order # <<>> /\ order[Len(order)] \in Capture
          /\ \A i \in DOMAIN order : order[i] \in Capture /\ file[order[i]] # NoPcap
      <4>1. \A i \in DOMAIN order : order[i] \in found
        BY <3>3, <3>5
      <4>2. Len(order) \in DOMAIN order
        BY <3>3, <3>5
      <4>3. Len(<<>>) = 0
        BY EmptySeq
      <4> QED BY <3>3, <3>5, <4>1, <4>2, <4>3
    <3>7. order \in Seq(Capture)
      BY <3>1, <3>4, SeqMonotonic
    <3> DEFINE last == order[Len(order)]
               p1   == [Asleep EXCEPT !.stage = "state"]
               p2   == [p1 EXCEPT !.todo = order]
               p    == [p2 EXCEPT !.latest = last]
    <3>8. pub' = p
      BY <2>2
    <3>9. last \in Nat
      BY <3>6, CaptureNumbers
    <3> HIDE DEF last, found
    <3>10. p1 \in PubRecord /\ p1.stage = "state"
      BY AsleepFacts DEF PubRecord, PubStage
    <3> HIDE DEF p1
    <3>11. p2 \in PubRecord /\ p2.stage = "state" /\ p2.todo = order
      BY <3>7, <3>10 DEF PubRecord
    <3> HIDE DEF p2
    <3>12. p \in PubRecord /\ p.stage = "state" /\ p.todo = order
      BY <3>9, <3>11 DEF PubRecord
    <3> HIDE DEF p
    <3>13. \A i \in DOMAIN order : file'[order[i]] # NoPcap
      BY <1>1, <3>6 DEF rawVars
    <3> QED BY <3>6, <3>8, <3>12, <3>13 DEF PubKnows
  <2> QED BY <1>1, <2>1, <2>2
<1> QED BY <1>1, <1>2, <1>3, OnlyPublisher

LEMMA ReadStateOK ==
  ASSUME RawInv, PubInv, ReadState
  PROVE  PubInv'
<1>0. PICK c : c = Head(pub.todo)
  OBVIOUS
<1>1. /\ pub.stage = "state" /\ UNCHANGED <<rawVars, cache, prom, captured, torn>>
      /\ pub' = IF cached_current(c) THEN Skip(pub)
                ELSE [pub EXCEPT !.stage = "parse", !.state = State(c)]
  BY <1>0 DEF ReadState
<1>2. /\ pub.todo # <<>> /\ c \in Capture /\ file[c] # NoPcap
      /\ \A i \in DOMAIN pub.todo : file[pub.todo[i]] # NoPcap
  BY <1>0, <1>1, PubFacts
<1>3. UNCHANGED rawVars /\ UNCHANGED <<cache, prom>> /\ \A r \in captured' : RowOK(r)
  BY <1>1 DEF PubInv
<1>4. pub' \in PubRecord /\ PubKnows'
  <2>1. CASE cached_current(c)
    BY <1>1, <1>2, <2>1, SkipFacts DEF rawVars
  <2>2. CASE ~cached_current(c)
    <3>0. PICK s : s = State(c)
      OBVIOUS
    <3> DEFINE p1 == [pub EXCEPT !.stage = "parse"]
               p  == [p1 EXCEPT !.state = s]
    <3>1. pub' = p
      BY <1>1, <2>2, <3>0
    <3>2. s \in FileState /\ IsNow(c, s)
      BY <1>2, <3>0 DEF State, FileState, IsNow, RawInv, RawTypes, Pcap
    <3>3. p1 \in PubRecord /\ p1.stage = "parse" /\ p1.todo = pub.todo
      BY PubFacts DEF PubRecord, PubStage
    <3> HIDE DEF p1
    <3>4. p \in PubRecord /\ p.stage = "parse" /\ p.todo = pub.todo /\ p.state = s
      BY <3>2, <3>3 DEF PubRecord
    <3> HIDE DEF p
    <3>5. IsNow(c, s)'
      BY <1>3, <3>2 DEF IsNow, rawVars
    <3>6. file' = file
      BY <1>3 DEF rawVars
    <3>7. p.todo # <<>> /\ Head(p.todo) = c /\ \A i \in DOMAIN p.todo : file'[p.todo[i]] # NoPcap
      BY <1>0, <1>2, <3>4, <3>6
    <3> QED BY <3>1, <3>4, <3>5, <3>7 DEF PubKnows, IsNow
  <2> QED BY <2>1, <2>2
<1> QED BY <1>1, <1>3, <1>4, OnlyPublisher

LEMMA AnalysisFacts ==
  ASSUME NEW bytes \in Nat, NEW expected
  PROVE  /\ Analysis(bytes, expected) \in {Failed, bytes} /\ Analysis(bytes, expected) \in Nat
         /\ Analysis(bytes, expected) \notin Corrupt
         /\ Analysis(bytes, expected) =
              IF expected \notin {NoSize, Unreadable, bytes} THEN Failed ELSE Analysis(bytes, NoSize)
<1>1. Failed \notin Corrupt /\ Failed \in Nat
  BY HistoryAssumption DEF Failed
<1> QED BY <1>1 DEF Analysis

LEMMA ParseOK ==
  ASSUME RawInv, PubInv, Parse
  PROVE  PubInv'
<1>0. PICK c, s : c = Head(pub.todo) /\ s = pub.state
  OBVIOUS
<1>1. PICK r :
        /\ r = IF s.sidecar \notin {NoSize, Unreadable, s.bytes}
               THEN Failed ELSE Analysis(file[c].bytes, NoSize)
        /\ pub' = [pub EXCEPT !.stage = "json", !.result = r]
        /\ pub.stage = "parse" /\ UNCHANGED <<rawVars, cache, prom, captured, torn>>
  BY <1>0 DEF Parse
<1>2. /\ pub.todo # <<>> /\ c \in Capture /\ s \in FileState
      /\ \A i \in DOMAIN pub.todo : file[pub.todo[i]] # NoPcap
  BY <1>0, <1>1, PubFacts
<1>3. file[c].bytes \in Nat /\ s.bytes \in Nat
  BY <1>2 DEF RawInv, RawTypes, Pcap, FileState
<1>4. r \in Nat
  BY <1>1, <1>3, AnalysisFacts, HistoryAssumption DEF Failed
<1>5. IsAnalysis(c, s, r)
  <2>1. IsNow(c, s) \/ IsGone(c, s)
    BY <1>0, <1>1 DEF PubInv, PubKnows
  <2>2. IsNow(c, s) => r = Analysis(s.bytes, s.sidecar)
    <3>1. Analysis(s.bytes, s.sidecar) =
            IF s.sidecar \notin {NoSize, Unreadable, s.bytes}
            THEN Failed ELSE Analysis(s.bytes, NoSize)
      BY <1>3, AnalysisFacts
    <3> QED BY <1>1, <3>1 DEF IsNow
  <2> QED BY <2>1, <2>2 DEF IsAnalysis
<1> DEFINE p1 == [pub EXCEPT !.stage = "json"]
           p  == [p1 EXCEPT !.result = r]
<1>6. pub' = p
  BY <1>1
<1>7. p1 \in PubRecord /\ p1.stage = "json" /\ p1.todo = pub.todo /\ p1.state = s
  BY <1>0, PubFacts DEF PubRecord, PubStage
<1> HIDE DEF p1
<1>8. p \in PubRecord /\ p.stage = "json" /\ p.todo = pub.todo /\ p.state = s /\ p.result = r
  BY <1>4, <1>7 DEF PubRecord
<1> HIDE DEF p
<1>9. UNCHANGED rawVars /\ UNCHANGED <<cache, prom>> /\ \A k \in captured' : RowOK(k)
  BY <1>1 DEF PubInv
<1>10. IsAnalysis(c, s, r)'
  BY <1>5, <1>9 DEF IsAnalysis, IsNow, IsGone, rawVars
<1>11. file' = file
  BY <1>9 DEF rawVars
<1>12. pub' \in PubRecord /\ PubKnows'
  <2>1. p.todo # <<>> /\ Head(p.todo) = c /\ \A i \in DOMAIN p.todo : file'[p.todo[i]] # NoPcap
    BY <1>0, <1>2, <1>8, <1>11
  <2> QED BY <1>6, <1>8, <1>10, <2>1 DEF PubKnows, IsAnalysis, IsNow, IsGone
<1> QED BY <1>1, <1>9, <1>12, OnlyPublisher

LEMMA WriteJsonOK ==
  ASSUME RawInv, PubInv, WriteJson
  PROVE  PubInv'
<1>0. PICK c, e : c = Head(pub.todo) /\ e = [state |-> pub.state, result |-> pub.result]
  OBVIOUS
<1>1. /\ pub.stage = "json" /\ pub' = [pub EXCEPT !.stage = "prom"]
      /\ cache' = [cache EXCEPT ![c] = e]
      /\ UNCHANGED <<rawVars, prom, textfile, captured, passes, torn>>
  BY <1>0 DEF WriteJson
<1>2. /\ pub.todo # <<>> /\ c \in Capture /\ pub.state \in FileState /\ pub.result \in Nat
      /\ \A i \in DOMAIN pub.todo : file[pub.todo[i]] # NoPcap
      /\ pub \in PubRecord /\ cache \in [Capture -> [state : FileState, result : Nat]]
  BY <1>0, <1>1, PubFacts
<1>3. e \in [state : FileState, result : Nat] /\ e.state = pub.state /\ e.result = pub.result
  BY <1>0, <1>2
<1>4. /\ cache' \in [Capture -> [state : FileState, result : Nat]] /\ cache'[c] = e
      /\ \A k \in Capture : k # c => cache'[k] = cache[k]
  BY <1>1, <1>2, <1>3
<1>5. /\ pub' \in PubRecord /\ pub'.stage = "prom" /\ pub'.todo = pub.todo
      /\ pub'.result = pub.result
  BY <1>1, <1>2 DEF PubRecord, PubStage
<1>6. UNCHANGED rawVars /\ file' = file
  BY <1>1 DEF rawVars
<1>7. PubTypes'
  BY <1>1, <1>4, <1>5 DEF PubInv, PubTypes
<1>8. PubKnows'
  <2>1. Head(pub'.todo) = c
    BY <1>0, <1>5
  <2> QED BY <1>2, <1>3, <1>4, <1>5, <1>6, <2>1 DEF PubKnows
<1>9. ASSUME NEW k \in Capture PROVE CacheIsAnalysis(k)' /\ PromFollows(k)'
  <2>1. CASE k = c
    <3>1. PICK s, result : s = pub.state /\ result = pub.result
      OBVIOUS
    <3>2. IsAnalysis(c, s, result)
      BY <1>0, <1>1, <3>1 DEF PubInv, PubKnows
    <3>3. IsAnalysis(c, s, result)'
      BY <1>6, <3>2, RawStays
    <3>4. cache'[c].state = s /\ cache'[c].result = result
      BY <1>3, <1>4, <3>1
    <3>5. CacheIsAnalysis(c)'
      BY <3>3, <3>4 DEF CacheIsAnalysis
    <3>6. PromFollows(c)'
      BY <1>0, <1>5 DEF PromFollows
    <3> QED BY <2>1, <3>5, <3>6
  <2>2. CASE k # c
    <3>1. PICK s, result : s = cache[k].state /\ result = cache[k].result
      OBVIOUS
    <3>2. cache'[k] = cache[k]
      BY <1>4, <2>2
    <3>3. IsAnalysis(k, s, result)' <=> IsAnalysis(k, s, result)
      BY <1>6, RawStays
    <3>4. CacheIsAnalysis(k)'
      BY <3>1, <3>2, <3>3 DEF PubInv, CacheIsAnalysis
    <3>5. prom' = prom /\ torn' = torn /\ pub.stage # "prom"
      BY <1>1
    <3>6. PromFollows(k)'
      BY <3>2, <3>5 DEF PubInv, PromFollows
    <3> QED BY <3>4, <3>6
  <2> QED BY <2>1, <2>2
<1> QED BY <1>1, <1>7, <1>8, <1>9 DEF PubInv

LEMMA CacheStays ==
  ASSUME RawInv, PubInv, UNCHANGED rawVars, NEW c \in Capture, cache'[c] = cache[c]
  PROVE  CacheIsAnalysis(c)'
<1>1. PICK s, result : s = cache[c].state /\ result = cache[c].result
  OBVIOUS
<1>2. IsAnalysis(c, s, result)' <=> IsAnalysis(c, s, result)
  BY RawStays
<1> QED BY <1>1, <1>2 DEF PubInv, CacheIsAnalysis

LEMMA WritePromOK ==
  ASSUME RawInv, PubInv, WriteProm
  PROVE  PubInv'
<1>0. PICK c, result : c = Head(pub.todo) /\ result = pub.result
  OBVIOUS
<1>1. /\ pub.stage = "prom" /\ pub' = Skip(pub) /\ torn' = torn \ {c}
      /\ prom' = [prom EXCEPT ![c] = result]
      /\ UNCHANGED <<rawVars, cache, textfile, captured, passes>>
  BY <1>0 DEF WriteProm
<1>2. /\ pub.todo # <<>> /\ c \in Capture /\ result \in Nat
      /\ \A i \in DOMAIN pub.todo : file[pub.todo[i]] # NoPcap
      /\ prom \in [Capture -> Nat]
  BY <1>0, <1>1, PubFacts
<1>3. UNCHANGED rawVars /\ file' = file
  BY <1>1 DEF rawVars
<1>4. pub' \in PubRecord /\ PubKnows'
  BY <1>1, <1>2, <1>3, SkipFacts
<1>5. cache[c].result = result
  BY <1>0, <1>1 DEF PubInv, PubKnows
<1>6. PubTypes'
  BY <1>1, <1>2, <1>4 DEF PubInv, PubTypes
<1>7. ASSUME NEW k \in Capture PROVE CacheIsAnalysis(k)' /\ PromFollows(k)'
  <2>1. CacheIsAnalysis(k)'
    BY <1>1, <1>3, CacheStays
  <2>2. CASE k = c
    BY <1>1, <1>2, <1>5, <2>1, <2>2 DEF PromFollows
  <2>3. CASE k # c
    <3>1. prom'[k] = prom[k] /\ cache' = cache /\ (k \in torn => k \in torn')
      BY <1>1, <1>2, <2>3
    <3> QED BY <1>0, <2>1, <2>3, <3>1 DEF PubInv, PromFollows
  <2> QED BY <2>2, <2>3
<1> QED BY <1>1, <1>4, <1>6, <1>7 DEF PubInv

LEMMA PublishOK ==
  ASSUME RawInv, PubInv, publish_cache
  PROVE  PubInv'
<1>1. /\ pub.stage = "publish" /\ pub' = [pub EXCEPT !.stage = "history"]
      /\ UNCHANGED <<rawVars, cache, prom, captured, torn>>
  BY DEF publish_cache
<1>2. pub' \in PubRecord /\ pub'.stage = "history"
  BY <1>1, PubFacts DEF PubRecord, PubStage
<1>3. PubKnows'
  BY <1>2 DEF PubKnows
<1>4. UNCHANGED rawVars /\ UNCHANGED <<cache, prom>> /\ \A r \in captured' : RowOK(r)
  BY <1>1 DEF PubInv
<1> QED BY <1>1, <1>2, <1>3, <1>4, OnlyPublisher

\* A row that is written has the result of the bytes it names.
LEMMA LoadOK ==
  ASSUME RawInv, PubInv, LoadHistory
  PROVE  PubInv'
<1>1. /\ pub.stage = "history" /\ pub' = Asleep
      /\ UNCHANGED <<rawVars, cache, prom, torn>>
  BY DEF LoadHistory
<1>2. ASSUME NEW r \in captured' \ captured PROVE RowOK(r)
  <2>1. PICK c \in CurrentPayloads : r.bytes = cache[c].state.bytes /\ r.result = cache[c].result
    BY <1>2 DEF LoadHistory
  <2>2. /\ c \in Capture /\ cache[c].result <= MaxBytes
        /\ cache[c].state.mtime = file[c].mtime
    BY <2>1 DEF CurrentPayloads
  <2>3. IsAnalysis(c, cache[c].state, cache[c].result)
    BY <2>2 DEF PubInv, CacheIsAnalysis
  <2>4. cache[c].result = Analysis(cache[c].state.bytes, cache[c].state.sidecar)
    BY <2>2, <2>3 DEF IsAnalysis, IsGone
  <2>5. cache[c].state.bytes \in Nat
    BY <2>2, PubFacts DEF FileState
  <2> QED BY <2>1, <2>4, <2>5, AnalysisFacts DEF RowOK
<1>3. UNCHANGED rawVars /\ UNCHANGED <<cache, prom>> /\ \A r \in captured' : RowOK(r)
  BY <1>1, <1>2 DEF PubInv
<1> QED BY <1>1, <1>3, AsleepKnows, OnlyPublisher

LEMMA KillOK ==
  ASSUME RawInv, PubInv, Kill
  PROVE  PubInv'
<1>0. PICK c : c = Head(pub.todo)
  OBVIOUS
<1>1. /\ pub' = Asleep /\ UNCHANGED <<rawVars, textfile, captured, passes>>
      /\ \/ pub.stage = "json" /\ cache' = [cache EXCEPT ![c].result = Cut] /\ UNCHANGED <<prom, torn>>
         \/ /\ pub.stage = "prom" /\ UNCHANGED cache /\ torn' = torn \cup {c}
            /\ prom' \in {prom, [prom EXCEPT ![c] = Cut]}
         \/ UNCHANGED <<cache, prom, torn>> /\ pub.stage # "prom"
  BY <1>0 DEF Kill
<1>2. UNCHANGED rawVars /\ (\A r \in captured' : RowOK(r)) /\ pub' \in PubRecord /\ PubKnows'
  BY <1>1, AsleepKnows DEF PubInv
<1>3. Cut \in Nat /\ ~(Cut <= MaxBytes)
  BY HistoryAssumption DEF Cut
<1>4. /\ pub.stage \in {"json", "prom"} => c \in Capture
      /\ cache \in [Capture -> [state : FileState, result : Nat]] /\ prom \in [Capture -> Nat]
  BY <1>0, PubFacts
<1>5. CASE pub.stage = "json" /\ cache' = [cache EXCEPT ![c].result = Cut] /\ UNCHANGED <<prom, torn>>
  <2> DEFINE e == [cache[c] EXCEPT !.result = Cut]
  <2>1. cache' = [cache EXCEPT ![c] = e]
    BY <1>5
  <2>2. e \in [state : FileState, result : Nat] /\ e.result = Cut
    BY <1>3, <1>4, <1>5
  <2> HIDE DEF e
  <2>3. /\ cache' \in [Capture -> [state : FileState, result : Nat]] /\ cache'[c] = e
        /\ \A k \in Capture : k # c => cache'[k] = cache[k]
    BY <1>4, <1>5, <2>1, <2>2
  <2>4. ASSUME NEW k \in Capture PROVE CacheIsAnalysis(k)' /\ PromFollows(k)'
    <3>1. CASE k = c
      BY <1>3, <2>2, <2>3, <3>1 DEF CacheIsAnalysis, PromFollows
    <3>2. CASE k # c
      <4>1. CacheIsAnalysis(k)'
        BY <1>2, <2>3, <3>2, CacheStays
      <4>2. PromFollows(k)'
        BY <1>5, <2>3, <3>2 DEF PubInv, PromFollows
      <4> QED BY <4>1, <4>2
    <3> QED BY <3>1, <3>2
  <2>5. PubTypes'
    BY <1>2, <1>5, <2>3 DEF PubInv, PubTypes
  <2> QED BY <1>2, <2>4, <2>5 DEF PubInv
<1>6. CASE /\ pub.stage = "prom" /\ UNCHANGED cache /\ torn' = torn \cup {c}
           /\ prom' \in {prom, [prom EXCEPT ![c] = Cut]}
  <2>1. /\ prom' \in [Capture -> Nat]
        /\ \A k \in Capture : k # c => prom'[k] = prom[k]
    BY <1>3, <1>4, <1>6
  <2>2. ASSUME NEW k \in Capture PROVE CacheIsAnalysis(k)' /\ PromFollows(k)'
    <3>1. CacheIsAnalysis(k)'
      BY <1>2, <1>6, CacheStays
    <3>2. CASE k = c
      BY <1>6, <3>1, <3>2 DEF PromFollows
    <3>3. CASE k # c
      BY <1>0, <1>6, <2>1, <3>1, <3>3 DEF PubInv, PromFollows
    <3> QED BY <3>2, <3>3
  <2>3. PubTypes'
    BY <1>2, <1>6, <2>1 DEF PubInv, PubTypes
  <2> QED BY <1>2, <2>2, <2>3 DEF PubInv
<1>7. CASE UNCHANGED <<cache, prom, torn>> /\ pub.stage # "prom"
  BY <1>2, <1>7, OnlyPublisher
<1> QED BY <1>1, <1>5, <1>6, <1>7

-----------------------------------------------------------------------------
(* The invariant and what follows from it                                   *)

HistoryInv == RawInv /\ PubInv

LEMMA HistoryInitOK ==
  ASSUME HistoryInit
  PROVE  HistoryInv
<1>1. /\ Unreadable \in Nat /\ Absent \in Nat /\ ~(Absent <= MaxBytes)
  BY HistoryAssumption DEF Unreadable, Absent
<1>2. NoDownload \in DownloadRecord /\ NoDownload.stage = "idle"
  BY DEF NoDownload, DownloadRecord, DownloadStage
<1>3. /\ proc \in [Download -> DownloadRecord] /\ \A d \in Download : proc[d].stage = "idle"
  BY <1>2 DEF HistoryInit
<1>4. /\ \A c \in Capture : file[c] = NoPcap /\ tmp[c] = NoPcap
      /\ file \in [Capture -> Pcap] /\ tmp \in [Capture -> Pcap]
  BY PcapFacts DEF HistoryInit
<1>5. RawTypes
  BY <1>1, <1>3, <1>4 DEF HistoryInit, RawTypes
<1>6. \A c \in Capture : TwoInodes(c) /\ FileIsWhole(c)
  BY <1>4 DEF TwoInodes, FileIsWhole, Written
<1>7. \A d \in Download : WriterKnows(d)
  BY <1>3 DEF WriterKnows
<1>8. \A d, o \in Download : WritersApart(d, o)
  BY <1>3 DEF WritersApart, Writing
<1>9. /\ pub = Asleep /\ captured = {}
      /\ \A c \in Capture : cache[c] = [state |-> NoState, result |-> Absent]
      /\ cache \in [Capture -> [state : FileState, result : Nat]] /\ prom \in [Capture -> Nat]
  BY <1>1, AsleepFacts DEF HistoryInit
<1>10. PubTypes /\ PubKnows
  BY <1>9, AsleepFacts DEF PubTypes, PubKnows
<1>11. \A c \in Capture : CacheIsAnalysis(c) /\ PromFollows(c)
  BY <1>1, <1>9 DEF CacheIsAnalysis, PromFollows
<1> QED BY <1>5, <1>6, <1>7, <1>8, <1>9, <1>10, <1>11 DEF HistoryInv, RawInv, PubInv

LEMMA HistoryNextOK ==
  ASSUME HistoryInv, [HistoryNext]_historyVars
  PROVE  HistoryInv'
<1>0. RawInv /\ PubInv
  BY DEF HistoryInv
<1>1. CASE UNCHANGED historyVars
  <2>1. /\ UNCHANGED rawVars /\ UNCHANGED <<cache, prom, pub, torn>>
        /\ captured' = captured /\ UNCHANGED <<file, tmp>> /\ clock' = clock
    BY <1>1 DEF historyVars, rawVars
  <2>2. FilesMove
    <3>1. RawTypes /\ clock' \in Nat /\ clock <= clock'
      BY <1>0, <2>1 DEF RawInv, RawTypes
    <3> QED BY <2>1, <3>1, FilesStayPut
  <2>3. \A r \in captured' : RowOK(r)
    BY <1>0, <2>1 DEF PubInv
  <2>4. RawInv'
    BY <1>0, <2>1, RawStays
  <2>5. PubInv'
    BY <1>0, <2>1, <2>2, <2>3, PublisherStays
  <2> QED BY <2>4, <2>5 DEF HistoryInv
<1>2. CASE \/ RemoteGrows
           \/ \E d \in Download :
                \/ SelectCapture(d) \/ CheckLocal(d) \/ Fetch(d) \/ OpenTmp(d) \/ Fill(d)
                \/ ReplaceFile(d) \/ WriteSidecar(d) \/ Register(d) \/ Die(d)
  BY <1>0, <1>2, DownloadsOK DEF HistoryInv
<1>3. CASE DiscoverPcaps
  BY <1>0, <1>3, DiscoverOK, RawStays DEF HistoryInv, DiscoverPcaps
<1>4. CASE ReadState
  BY <1>0, <1>4, ReadStateOK, RawStays DEF HistoryInv, ReadState
<1>5. CASE Parse
  BY <1>0, <1>5, ParseOK, RawStays DEF HistoryInv, Parse
<1>6. CASE WriteJson
  BY <1>0, <1>6, WriteJsonOK, RawStays DEF HistoryInv, WriteJson
<1>7. CASE WriteProm
  BY <1>0, <1>7, WritePromOK, RawStays DEF HistoryInv, WriteProm
<1>8. CASE publish_cache
  BY <1>0, <1>8, PublishOK, RawStays DEF HistoryInv, publish_cache
<1>9. CASE LoadHistory
  BY <1>0, <1>9, LoadOK, RawStays DEF HistoryInv, LoadHistory
<1>10. CASE Kill
  BY <1>0, <1>10, KillOK, RawStays DEF HistoryInv, Kill
<1> QED BY <1>1, <1>2, <1>3, <1>4, <1>5, <1>6, <1>7, <1>8, <1>9, <1>10 DEF HistoryNext

LEMMA HistoryKeepsInv == HistorySpec => []HistoryInv
<1>1. HistoryInit => HistoryInv
  BY HistoryInitOK
<1>2. HistoryInv /\ [HistoryNext]_historyVars => HistoryInv'
  BY HistoryNextOK
<1> QED BY <1>1, <1>2, PTL DEF HistorySpec

\* For any number of downloads, captures, passes and kills: a capture is one of its
\* downloads as a whole, unless two of them were writing its .tmp file at once; every
\* result in the history and in a current JSON cache is the analysis of exactly the bytes
\* it is filed under, also where downloads overlapped; and the Prometheus text of a current
\* cache has that result, unless the publisher was killed between its two files
\* (vocera_dnac_icap.py, vocera_media_qoe_batch.py, vocera_media_qoe_sql.py).
THEOREM HistoryStaysTrue == HistorySpec => []HistoryIsOfItsFiles
<1>1. ASSUME HistoryInv PROVE HistoryIsOfItsFiles
  <2>0. RawInv /\ PubInv
    BY <1>1 DEF HistoryInv
  <2>1. FilesAreWhole
    BY <2>0 DEF FilesAreWhole, RawInv, FileIsWhole
  <2>2. \A r \in captured : r.result \in {Absent, Failed, r.bytes} /\ r.result \notin Corrupt
    BY <2>0 DEF PubInv, RowOK
  <2>3. ASSUME NEW c \in Capture, cached_current(c)
        PROVE  /\ cache[c].result = Analysis(file[c].bytes, sidecar[c])
               /\ \/ c \in torn \/ prom[c] = cache[c].result
                  \/ pub.stage = "prom" /\ Head(pub.todo) = c
    <3>1. /\ cache[c].result <= MaxBytes /\ prom[c] # Absent
          /\ cache[c].state.bytes = file[c].bytes /\ cache[c].state.mtime = file[c].mtime
          /\ cache[c].state.sidecar = sidecar[c]
      BY <2>3 DEF cached_current, State
    <3>2. IsAnalysis(c, cache[c].state, cache[c].result) /\ PromFollows(c)
      BY <2>0, <3>1 DEF PubInv, CacheIsAnalysis
    <3> QED BY <3>1, <3>2 DEF IsAnalysis, IsGone, PromFollows
  <2>4. ResultsAreOfTheirBytes
    BY <2>2, <2>3 DEF ResultsAreOfTheirBytes
  <2> QED BY <2>1, <2>4 DEF HistoryIsOfItsFiles
<1> QED BY <1>1, HistoryKeepsInv, PTL

-----------------------------------------------------------------------------
(***************************************************************************)
(* Lost packets (MediaAnalyzer): what the fold of Count over the sequence   *)
(* numbers of a source amounts to, for any number of packets.               *)
(***************************************************************************)

LEMMA NumbersByInduction ==
  ASSUME NEW T, 0 \in T, \A k \in T : k \in Nat => k + 1 \in T
  PROVE  Nat \subseteq T
<1> DEFINE R == OpToRel(<, Nat)
           S == Nat \ T
<1>1. IsWellFoundedOn(R, Nat)
  BY NatLessThanWellFounded
<1>2. ASSUME S # {} PROVE FALSE
  <2>1. PICK m \in S : \A k \in S : ~(<<k, m>> \in R)
    <3> HIDE DEF R
    <3>1. S \subseteq Nat
      OBVIOUS
    <3> HIDE DEF S
    <3> QED BY <1>1, <1>2, <3>1, WFMin
  <2>2. m \in Nat /\ m # 0 /\ m \notin T
    OBVIOUS
  <2>3. m - 1 \in Nat /\ m - 1 < m /\ (m - 1) + 1 = m
    BY <2>2
  <2>4. m - 1 \notin T
    BY <2>2, <2>3
  <2>5. <<m - 1, m>> \in R
    BY <2>2, <2>3 DEF OpToRel
  <2> QED BY <2>1, <2>3, <2>4, <2>5
<1> QED BY <1>2

-----------------------------------------------------------------------------
(* Division.                                                                *)

LEMMA Division ==
  ASSUME NEW n \in Int, NEW m \in Nat \ {0}
  PROVE  n \div m \in Int /\ n % m \in 0..(m - 1) /\ n = (n \div m) * m + (n % m)
OBVIOUS

LEMMA Remainder ==
  ASSUME NEW q \in Int, NEW r \in Int, NEW m \in Nat \ {0}, 0 <= r, r < m
  PROVE  (q * m + r) % m = r /\ (q * m + r) \div m = q
OBVIOUS

LEMMA ShiftedRemainder ==
  ASSUME NEW a \in Int, NEW n \in Int, NEW m \in Nat \ {0}
  PROVE  (a \div m) * m \in Int /\ (n - (a \div m) * m) % m = n % m
<1> DEFINE p == a \div m
           q == n \div m
           r == n % m
<1>1. p \in Int /\ q \in Int /\ r \in 0..(m - 1) /\ n = q * m + r
  BY Division
<1> HIDE DEF p, q, r
<1>2. /\ q - p \in Int /\ r \in Int /\ 0 <= r /\ r < m
      /\ p * m \in Int /\ n - p * m = (q - p) * m + r
  BY <1>1
<1>3. ((q - p) * m + r) % m = r
  BY <1>2, Remainder
<1>4. p * m \in Int /\ (n - p * m) % m = r
  BY <1>2, <1>3
<1> QED BY <1>4 DEF p, r

LEMMA Multiples ==
  ASSUME NEW p \in Int, NEW q \in Int, NEW m \in Nat \ {0}
  PROVE  /\ p * m \in Int /\ q * m \in Int
         /\ \/ q * m = p * m \/ q * m = p * m + m \/ q * m >= p * m + 2 * m
            \/ q * m = p * m - m \/ q * m <= p * m - 2 * m
<1> DEFINE d == q - p
<1>1. d \in Int /\ q * m = p * m + d * m
  OBVIOUS
<1>2. d = 0 \/ d = 1 \/ d >= 2 \/ d = -1 \/ d <= -2
  BY <1>1
<1>3. d >= 2 => d * m >= 2 * m
  OBVIOUS
<1>4. d <= -2 => d * m <= -(2 * m)
  OBVIOUS
<1>5. /\ d = 0 => d * m = 0
      /\ d = 1 => d * m = m
      /\ d = -1 => d * m = -m
  OBVIOUS
<1>6. d * m \in Int /\ p * m \in Int /\ q * m \in Int
  OBVIOUS
<1> HIDE DEF d
<1> QED BY <1>1, <1>2, <1>3, <1>4, <1>5, <1>6

\* A number nearer to the highest than half of the numbers there are is found from its remainder.
LEMMA NumberIsFound ==
  ASSUME NEW n \in Int, NEW h \in Int,
         n - h < SequenceModulus \div 2, h - n < SequenceModulus \div 2
  PROVE  extend_rtp_sequence(n % SequenceModulus, h) = n
<1>1. PICK m \in Nat \ {0}, half \in Nat :
        m = SequenceModulus /\ half = m \div 2 /\ 2 * half <= m
  BY PacketAssumption
<1>2. n - h < half /\ h - n < half /\ h # NoValue
  BY <1>1, PacketAssumption
<1> DEFINE p == h \div m
           r == h % m
           q == n \div m
           s == n % m
<1>3. /\ p \in Int /\ r \in 0..(m - 1) /\ h = p * m + r
      /\ q \in Int /\ s \in 0..(m - 1) /\ n = q * m + s
  BY <1>1, Division
<1>4. r \in Int /\ 0 <= r /\ r < m /\ s \in Int /\ 0 <= s /\ s < m
  BY <1>1, <1>3
<1>0. extend_rtp_sequence(s, h) = IF (p * m + s) - h < -half THEN (p * m + s) + m
                                  ELSE IF (p * m + s) - h > half THEN (p * m + s) - m ELSE p * m + s
  <2> DEFINE c == p * m + s
  <2>1. c \in Int
    BY <1>1, <1>3, <1>4
  <2>2. extend_rtp_sequence(s, h) =
          CASE h = NoValue -> s
            [] h # NoValue /\ c - h < -half -> c + m
            [] h # NoValue /\ c - h > half -> c - m
            [] OTHER -> c
    BY <1>1 DEF extend_rtp_sequence
  <2> HIDE DEF c
  <2>3. extend_rtp_sequence(s, h) = IF c - h < -half THEN c + m ELSE IF c - h > half THEN c - m ELSE c
    BY <1>1, <1>2, <2>1, <2>2
  <2> QED BY <2>3 DEF c
<1> HIDE DEF p, r, q, s
<1>5. PICK x, y : /\ x \in Int /\ y \in Int
                  /\ x = p * m /\ y = q * m
                  /\ y = x \/ y = x + m \/ y >= x + 2 * m \/ y = x - m \/ y <= x - 2 * m
  <2>1. /\ p * m \in Int /\ q * m \in Int
        /\ \/ q * m = p * m \/ q * m = p * m + m \/ q * m >= p * m + 2 * m
           \/ q * m = p * m - m \/ q * m <= p * m - 2 * m
    BY <1>1, <1>3, Multiples
  <2> DEFINE x == p * m
             y == q * m
  <2>2. /\ x \in Int /\ y \in Int
        /\ y = x \/ y = x + m \/ y >= x + 2 * m \/ y = x - m \/ y <= x - 2 * m
    BY <2>1
  <2>3. x = p * m /\ y = q * m
    OBVIOUS
  <2> HIDE DEF x, y
  <2> QED BY <2>2, <2>3
<1>6. h = x + r /\ n = y + s
  BY <1>3, <1>5
<1>7. extend_rtp_sequence(s, h) = IF (x + s) - h < -half THEN (x + s) + m
                                  ELSE IF (x + s) - h > half THEN (x + s) - m ELSE x + s
  BY <1>0, <1>5
<1>8. n = IF (x + s) - h < -half THEN (x + s) + m
          ELSE IF (x + s) - h > half THEN (x + s) - m ELSE x + s
  BY <1>1, <1>2, <1>4, <1>5, <1>6
<1>9. extend_rtp_sequence(s, h) = n
  BY <1>7, <1>8
<1> QED BY <1>1, <1>9 DEF s

-----------------------------------------------------------------------------
(* A fold over a sequence is a run of its steps.                            *)

LEMMA LastIsGreatest ==
  ASSUME NEW k \in Nat, NEW s \in SUBSET (1..k), k \in s
  PROVE  Max(s) = k
<1>1. Max(s) \in s /\ Max(s) >= k
  BY GreatestNumber
<1>2. \A x \in s : x \in 1..k
  OBVIOUS
<1>3. Max(s) \in 1..k
  BY <1>1, <1>2
<1> QED BY <1>1, <1>3

Folded(b, q) == FoldLeft(Count, b, q)

Steps(acc, b, q, n) == acc[0] = b /\ \A k \in 1..n : acc[k] = Count(acc[k - 1], q[k])

\* The counts after each packet (FoldLeft goes through the subsets of the domain, last element
\* first).
LEMMA CountsInOrder ==
  ASSUME NEW b, NEW q, NEW n \in Nat, DOMAIN q = 1..n
  PROVE  \E acc : Steps(acc, b, q, n) /\ Folded(b, q) = acc[n]
<1> DEFINE Iterates(it, k) ==
             it = [s \in SUBSET (1..k) |->
                     IF s = {} THEN b ELSE Count(it[s \ {Max(s)}], q[Max(s)])]
           T == {k \in Nat : \E it : Iterates(it, k)}
<1>1. 0 \in T
  <2> DEFINE it == [s \in SUBSET (1..0) |-> b]
  <2>1. \A s \in SUBSET (1..0) : s = {}
    OBVIOUS
  <2>2. Iterates(it, 0)
    BY <2>1
  <2> HIDE DEF Iterates, it
  <2> QED BY <2>2
<1>2. ASSUME NEW k \in T, k \in Nat PROVE k + 1 \in T
  <2>1. PICK it : Iterates(it, k)
    OBVIOUS
  <2>2. \A s \in SUBSET (1..k) :
          it[s] = IF s = {} THEN b ELSE Count(it[s \ {Max(s)}], q[Max(s)])
    BY <2>1
  <2> HIDE DEF Iterates
  <2> DEFINE new == [s \in SUBSET (1..(k + 1)) |->
                       IF k + 1 \in s THEN Count(it[s \ {k + 1}], q[k + 1]) ELSE it[s]]
  <2>3. ASSUME NEW s \in SUBSET (1..(k + 1))
        PROVE  new[s] = IF s = {} THEN b ELSE Count(new[s \ {Max(s)}], q[Max(s)])
    <3>1. CASE k + 1 \in s
      <4>1. k + 1 \in Nat
        BY <1>2
      <4>3. Max(s) = k + 1
        <5> HIDE DEF T, new
        <5> QED BY <3>1, <4>1, LastIsGreatest
      <4>4. s \ {k + 1} \in SUBSET (1..(k + 1)) /\ k + 1 \notin s \ {k + 1}
        OBVIOUS
      <4>5. new[s \ {k + 1}] = it[s \ {k + 1}] /\ new[s] = Count(it[s \ {k + 1}], q[k + 1])
        BY <3>1, <4>4
      <4> QED BY <3>1, <4>3, <4>5
    <3>2. CASE k + 1 \notin s
      <4>1. s \in SUBSET (1..k)
        BY <1>2, <3>2
      <4>2. new[s] = it[s]
        BY <3>2
      <4>3. CASE s = {}
        BY <2>2, <4>1, <4>2, <4>3
      <4>4. CASE s # {}
        <5>1. s \ {Max(s)} \in SUBSET (1..(k + 1)) /\ k + 1 \notin s \ {Max(s)}
          BY <3>2
        <5>2. new[s \ {Max(s)}] = it[s \ {Max(s)}]
          BY <5>1
        <5> QED BY <2>2, <4>1, <4>2, <4>4, <5>2
      <4> QED BY <4>3, <4>4
    <3> QED BY <3>1, <3>2
  <2>4. new = [s \in SUBSET (1..(k + 1)) |-> new[s]]
    OBVIOUS
  <2> HIDE DEF new
  <2>5. Iterates(new, k + 1)
    BY <2>3, <2>4 DEF Iterates
  <2> QED BY <1>2, <2>5
<1>3. n \in T
  <2> HIDE DEF T
  <2> QED BY <1>1, <1>2, NumbersByInduction
<1> DEFINE it == CHOOSE it : Iterates(it, n)
<1>4. Iterates(it, n)
  <2> HIDE DEF Iterates
  <2> QED BY <1>3
<1>5. Folded(b, q) = it[1..n]
  BY DEF Folded, FoldLeft, MapThenFoldSet
<1>6. \A s \in SUBSET (1..n) : it[s] = IF s = {} THEN b ELSE Count(it[s \ {Max(s)}], q[Max(s)])
  <2> HIDE DEF it
  <2> QED BY <1>4
<1> HIDE DEF it, Iterates, T
<1> DEFINE acc == [k \in 0..n |-> it[1..k]]
<1>7. acc[0] = b
  <2>1. 1..0 = {} /\ 1..0 \in SUBSET (1..n)
    OBVIOUS
  <2>2. it[1..0] = b
    BY <1>6, <2>1
  <2>3. acc[0] = it[1..0]
    OBVIOUS
  <2> QED BY <2>2, <2>3
<1>8. ASSUME NEW k \in 1..n PROVE acc[k] = Count(acc[k - 1], q[k])
  <2>1. 1..k \in SUBSET (1..n) /\ k \in 1..k /\ k \in Nat
    OBVIOUS
  <2>2. Max(1..k) = k
    BY <2>1, LastIsGreatest
  <2>3. Max(1..k) = k /\ (1..k) \ {k} = 1..(k - 1) /\ 1..k # {}
    BY <2>1, <2>2
  <2>4. it[1..k] = Count(it[1..(k - 1)], q[k])
    BY <1>6, <2>1, <2>3
  <2> QED BY <2>4
<1>9. acc[n] = it[1..n]
  OBVIOUS
<1> HIDE DEF acc
<1> QED BY <1>5, <1>7, <1>8, <1>9 DEF Steps

-----------------------------------------------------------------------------
(* One packet.  The counts of a source are kept by numbers from base on: G  *)
(* are the numbers received, f the first and h the highest of them.         *)

Counts(highest, seen, missing, valid, duplicates, disordered) ==
  [segment |-> 0, highest |-> highest, bad |-> NoValue, seen |-> seen, missing |-> missing,
   valid |-> valid, duplicates |-> duplicates, disordered |-> disordered]

OneAhead(s, c) ==
  [s EXCEPT !.missing = (@ \cup {<<s.segment, n>> : n \in (s.highest + 1)..(c - 1)})
                          \ {<<s.segment, c>>},
            !.seen = @ \cup {<<s.segment, c>>},
            !.valid = @ + 1, !.highest = c, !.bad = NoValue]

OneLate(s, c) ==
  [s EXCEPT !.disordered = @ + 1, !.seen = @ \cup {<<s.segment, c>>},
            !.missing = @ \ {<<s.segment, c>>}, !.valid = @ + 1, !.bad = NoValue]

\* The arms of Count that a packet not yet seen takes.
LEMMA CountAhead ==
  ASSUME NEW s, NEW sequence, NEW c, extend_rtp_sequence(sequence, s.highest) = c,
         <<s.segment, c>> \notin s.seen, c - s.highest \in 1..MaxDropout
  PROVE  Count(s, sequence) = OneAhead(s, c)
<1> DEFINE key == <<s.segment, c>>
           again == [s EXCEPT !.duplicates = @ + 1]
           later == [s EXCEPT !.missing = (@ \cup {<<s.segment, n>> : n \in (s.highest + 1)..(c - 1)})
                                            \ {key},
                              !.seen = @ \cup {key},
                              !.valid = @ + 1, !.highest = c, !.bad = NoValue]
           filled == [s EXCEPT !.disordered = @ + 1, !.seen = @ \cup {key},
                               !.missing = @ \ {key}, !.valid = @ + 1, !.bad = NoValue]
           restarted == [s EXCEPT !.segment = @ + 1, !.highest = sequence, !.valid = @ + 1,
                                  !.seen = @ \cup {<<s.segment + 1, sequence>>}, !.bad = NoValue]
           first == [s EXCEPT !.bad = (sequence + 1) % SequenceModulus]
           ahead == key \notin s.seen /\ c - s.highest \in 1..MaxDropout
           late == key \notin s.seen /\ -(c - s.highest) \in 1..MaxMisorder
           far == key \notin s.seen /\ ~ahead /\ ~late
<1>1. Count(s, sequence) = CASE key \in s.seen -> again [] ahead -> later [] late -> filled
                             [] far /\ sequence = s.bad -> restarted [] OTHER -> first
  BY Zenon DEF Count
<1>2. key \notin s.seen /\ ahead /\ ~late /\ ~far
  OBVIOUS
<1> HIDE DEF again, later, filled, restarted, first, ahead, late, key, far
<1>3. Count(s, sequence) = later
  BY <1>1, <1>2
<1> QED BY <1>3 DEF later, key, OneAhead

LEMMA CountLate ==
  ASSUME NEW s, NEW sequence, NEW c, extend_rtp_sequence(sequence, s.highest) = c,
         <<s.segment, c>> \notin s.seen, -(c - s.highest) \in 1..MaxMisorder,
         c - s.highest \notin 1..MaxDropout
  PROVE  Count(s, sequence) = OneLate(s, c)
<1> DEFINE key == <<s.segment, c>>
           again == [s EXCEPT !.duplicates = @ + 1]
           later == [s EXCEPT !.missing = (@ \cup {<<s.segment, n>> : n \in (s.highest + 1)..(c - 1)})
                                            \ {key},
                              !.seen = @ \cup {key},
                              !.valid = @ + 1, !.highest = c, !.bad = NoValue]
           filled == [s EXCEPT !.disordered = @ + 1, !.seen = @ \cup {key},
                               !.missing = @ \ {key}, !.valid = @ + 1, !.bad = NoValue]
           restarted == [s EXCEPT !.segment = @ + 1, !.highest = sequence, !.valid = @ + 1,
                                  !.seen = @ \cup {<<s.segment + 1, sequence>>}, !.bad = NoValue]
           first == [s EXCEPT !.bad = (sequence + 1) % SequenceModulus]
           ahead == key \notin s.seen /\ c - s.highest \in 1..MaxDropout
           late == key \notin s.seen /\ -(c - s.highest) \in 1..MaxMisorder
           far == key \notin s.seen /\ ~ahead /\ ~late
<1>1. Count(s, sequence) = CASE key \in s.seen -> again [] ahead -> later [] late -> filled
                             [] far /\ sequence = s.bad -> restarted [] OTHER -> first
  BY Zenon DEF Count
<1>2. key \notin s.seen /\ ~ahead /\ late /\ ~far
  OBVIOUS
<1> HIDE DEF again, later, filled, restarted, first, ahead, late, key, far
<1>3. Count(s, sequence) = filled
  BY <1>1, <1>2
<1> QED BY <1>3 DEF filled, key, OneLate

LEMMA OneMoreAhead ==
  ASSUME NEW h, NEW seen, NEW missing, NEW valid, NEW dup, NEW late, NEW sequence, NEW c,
         extend_rtp_sequence(sequence, h) = c, <<0, c>> \notin seen, c - h \in 1..MaxDropout
  PROVE  Count(Counts(h, seen, missing, valid, dup, late), sequence)
           = Counts(c, seen \cup {<<0, c>>},
                    (missing \cup {<<0, n>> : n \in (h + 1)..(c - 1)}) \ {<<0, c>>},
                    valid + 1, dup, late)
<1> DEFINE s == Counts(h, seen, missing, valid, dup, late)
           se == seen \cup {<<0, c>>}
           mi == (missing \cup {<<0, n>> : n \in (h + 1)..(c - 1)}) \ {<<0, c>>}
           va == valid + 1
<1>1. /\ s.segment = 0 /\ s.highest = h /\ s.seen = seen /\ s.missing = missing
      /\ s.valid = valid
  BY DEF Counts
<1> HIDE DEF s
<1>2. /\ extend_rtp_sequence(sequence, s.highest) = c /\ <<s.segment, c>> \notin s.seen
      /\ c - s.highest \in 1..MaxDropout
  BY <1>1
<1>3. Count(s, sequence) = OneAhead(s, c)
  BY <1>2, CountAhead
<1> DEFINE mi0 == (s.missing \cup {<<s.segment, n>> : n \in (s.highest + 1)..(c - 1)}) \ {<<s.segment, c>>}
           s1 == [s EXCEPT !.missing = mi0]
           s2 == [s1 EXCEPT !.seen = s.seen \cup {<<s.segment, c>>}]
           s3 == [s2 EXCEPT !.valid = s.valid + 1]
           s4 == [s3 EXCEPT !.highest = c]
           s5 == [s4 EXCEPT !.bad = NoValue]
<1>4. Count(s, sequence) = s5
  BY <1>3 DEF OneAhead
<1>5. mi0 = mi
  BY <1>1
<1>6. s.seen \cup {<<s.segment, c>>} = se /\ s.valid + 1 = va
  BY <1>1
<1> HIDE DEF se, mi, va, mi0
<1>7. s1 = Counts(h, seen, mi, valid, dup, late)
  BY <1>5 DEF Counts, s
<1> HIDE DEF s1
<1>8. s2 = Counts(h, se, mi, valid, dup, late)
  BY <1>6, <1>7 DEF Counts
<1> HIDE DEF s2
<1>9. s3 = Counts(h, se, mi, va, dup, late)
  BY <1>6, <1>8 DEF Counts
<1> HIDE DEF s3
<1>10. s4 = Counts(c, se, mi, va, dup, late)
  BY <1>9 DEF Counts
<1> HIDE DEF s4
<1>11. s5 = Counts(c, se, mi, va, dup, late)
  BY <1>10 DEF Counts
<1> QED BY <1>4, <1>11 DEF s, se, mi, va

LEMMA OneMoreLate ==
  ASSUME NEW h, NEW seen, NEW missing, NEW valid, NEW dup, NEW late, NEW sequence, NEW c,
         extend_rtp_sequence(sequence, h) = c, <<0, c>> \notin seen,
         -(c - h) \in 1..MaxMisorder, c - h \notin 1..MaxDropout
  PROVE  Count(Counts(h, seen, missing, valid, dup, late), sequence)
           = Counts(h, seen \cup {<<0, c>>}, missing \ {<<0, c>>}, valid + 1, dup, late + 1)
<1> DEFINE s == Counts(h, seen, missing, valid, dup, late)
           se == seen \cup {<<0, c>>}
           mi == missing \ {<<0, c>>}
           va == valid + 1
           di == late + 1
<1>1. /\ s.segment = 0 /\ s.highest = h /\ s.seen = seen /\ s.missing = missing
      /\ s.valid = valid /\ s.disordered = late
  BY DEF Counts
<1> HIDE DEF s
<1>2. /\ extend_rtp_sequence(sequence, s.highest) = c /\ <<s.segment, c>> \notin s.seen
      /\ -(c - s.highest) \in 1..MaxMisorder /\ c - s.highest \notin 1..MaxDropout
  BY <1>1
<1>3. Count(s, sequence) = OneLate(s, c)
  BY <1>2, CountLate
<1> DEFINE mi0 == s.missing \ {<<s.segment, c>>}
           s1 == [s EXCEPT !.disordered = s.disordered + 1]
           s2 == [s1 EXCEPT !.seen = s.seen \cup {<<s.segment, c>>}]
           s3 == [s2 EXCEPT !.missing = mi0]
           s4 == [s3 EXCEPT !.valid = s.valid + 1]
           s5 == [s4 EXCEPT !.bad = NoValue]
<1>4. Count(s, sequence) = s5
  BY <1>3 DEF OneLate
<1>5. s.disordered + 1 = di /\ mi0 = mi
  BY <1>1
<1>6. s.seen \cup {<<s.segment, c>>} = se /\ s.valid + 1 = va
  BY <1>1
<1> HIDE DEF se, mi, mi0, va, di
<1>7. s1 = Counts(h, seen, missing, valid, dup, di)
  BY <1>5 DEF Counts, s
<1> HIDE DEF s1
<1>8. s2 = Counts(h, se, missing, valid, dup, di)
  BY <1>6, <1>7 DEF Counts
<1> HIDE DEF s2
<1>9. s3 = Counts(h, se, mi, valid, dup, di)
  BY <1>5, <1>8 DEF Counts
<1> HIDE DEF s3
<1>10. s4 = Counts(h, se, mi, va, dup, di)
  BY <1>6, <1>9 DEF Counts
<1> HIDE DEF s4
<1>11. s5 = Counts(h, se, mi, va, dup, di)
  BY <1>10 DEF Counts
<1> QED BY <1>4, <1>11 DEF s, se, mi, va, di

Counted(base, G, f, h, duplicates, disordered) ==
  Counts(h - base, {<<0, g - base>> : g \in G}, {<<0, g - base>> : g \in (f..h) \ G},
         Cardinality(G), duplicates, disordered)

LEMMA NextIsFound ==
  ASSUME NEW base \in Int, NEW n \in Int, NEW h \in Int,
         n - h < SequenceModulus \div 2, h - n < SequenceModulus \div 2,
         (n - base) % SequenceModulus = n % SequenceModulus
  PROVE  extend_rtp_sequence(n % SequenceModulus, h - base) = n - base
<1>1. /\ n - base \in Int /\ h - base \in Int
      /\ (n - base) - (h - base) = n - h /\ (h - base) - (n - base) = h - n
  OBVIOUS
<1>2. extend_rtp_sequence((n - base) % SequenceModulus, h - base) = n - base
  BY <1>1, NumberIsFound
<1> QED BY <1>2

LEMMA RepeatedIsCounted ==
  ASSUME NEW base \in Int, NEW G \in SUBSET Int, NEW f, NEW h \in G, NEW dup, NEW late,
         NEW n \in G, n <= h, h - n < SequenceModulus \div 2,
         (n - base) % SequenceModulus = n % SequenceModulus
  PROVE  Count(Counted(base, G, f, h, dup, late), n % SequenceModulus)
           = Counted(base, G, f, h, dup + 1, late)
<1> DEFINE s == Counted(base, G, f, h, dup, late)
           seen == {<<0, g - base>> : g \in G}
           missing == {<<0, g - base>> : g \in (f..h) \ G}
           valid == Cardinality(G)
<1>1. n \in Int /\ h \in Int /\ SequenceModulus \div 2 \in Nat
      /\ n - h < SequenceModulus \div 2
  BY PacketAssumption
<1>2. extend_rtp_sequence(n % SequenceModulus, h - base) = n - base
  BY <1>1, NextIsFound
<1>3. s = Counts(h - base, seen, missing, valid, dup, late) /\ <<0, n - base>> \in seen
  BY DEF Counted
<1> HIDE DEF s, seen, missing, valid
<1>4. s.segment = 0 /\ s.highest = h - base /\ <<0, n - base>> \in s.seen /\ s.duplicates = dup
  BY <1>3 DEF Counts
<1>5. Count(s, n % SequenceModulus) = [s EXCEPT !.duplicates = dup + 1]
  BY <1>2, <1>4 DEF Count
<1>6. [s EXCEPT !.duplicates = dup + 1] = Counts(h - base, seen, missing, valid, dup + 1, late)
  BY <1>3 DEF Counts
<1> QED BY <1>5, <1>6 DEF s, seen, missing, valid, Counted

UpTo(G, h) == \A g \in G : g <= h

LEMMA AheadIsCounted ==
  ASSUME NEW base \in Int, NEW G \in SUBSET Int, IsFiniteSet(G), NEW f \in G, NEW h \in G,
         UpTo(G, h), NEW dup, NEW late,
         NEW n \in Int, n - h \in 1..MaxDropout,
         (n - base) % SequenceModulus = n % SequenceModulus
  PROVE  Count(Counted(base, G, f, h, dup, late), n % SequenceModulus)
           = Counted(base, G \cup {n}, f, n, dup, late)
<1> DEFINE s == Counted(base, G, f, h, dup, late)
           seen == {<<0, g - base>> : g \in G}
           missing == {<<0, g - base>> : g \in (f..h) \ G}
           valid == Cardinality(G)
           key == <<0, n - base>>
           gap == {<<0, i>> : i \in ((h - base) + 1)..((n - base) - 1)}
<1>1. /\ f \in Int /\ h \in Int /\ SequenceModulus \div 2 \in Nat /\ n > h /\ f <= h
      /\ n - h < SequenceModulus \div 2 /\ h - n < SequenceModulus \div 2
      /\ (n - base) - (h - base) = n - h /\ \A g \in G : g <= h
  BY PacketAssumption DEF UpTo
<1>2. extend_rtp_sequence(n % SequenceModulus, h - base) = n - base
  BY <1>1, NextIsFound
<1>3. s = Counts(h - base, seen, missing, valid, dup, late) /\ key \notin seen
  <2>1. s = Counts(h - base, seen, missing, valid, dup, late)
    BY DEF Counted
  <2>2. ASSUME NEW g \in G PROVE <<0, g - base>> # key
    <3>1. g \in Int /\ g # n
      BY <1>1
    <3> QED BY <3>1
  <2> HIDE DEF s, key
  <2> QED BY <2>1, <2>2
<1>4. seen \cup {key} = {<<0, g - base>> : g \in G \cup {n}}
  OBVIOUS
<1>5. (missing \cup gap) \ {key} = {<<0, g - base>> : g \in (f..n) \ (G \cup {n})}
  <2> DEFINE new == {<<0, g - base>> : g \in (f..n) \ (G \cup {n})}
  <2>1. ASSUME NEW x \in new PROVE x \in (missing \cup gap) \ {key}
    <3>1. PICK g \in (f..n) \ (G \cup {n}) : x = <<0, g - base>>
      OBVIOUS
    <3>2. CASE g <= h
      BY <1>1, <3>1, <3>2
    <3>3. CASE g > h
      <4>1. g - base \in ((h - base) + 1)..((n - base) - 1) /\ g - base # n - base
        BY <1>1, <3>1, <3>3
      <4> QED BY <3>1, <4>1
    <3> QED BY <1>1, <3>1, <3>2, <3>3
  <2>2. ASSUME NEW x \in missing PROVE x \in new
    <3>1. PICK g \in (f..h) \ G : x = <<0, g - base>>
      OBVIOUS
    <3>2. g \in (f..n) \ (G \cup {n})
      BY <1>1, <3>1
    <3> QED BY <3>1, <3>2
  <2>3. ASSUME NEW x \in gap PROVE x \in new
    <3>1. PICK i \in ((h - base) + 1)..((n - base) - 1) : x = <<0, i>>
      OBVIOUS
    <3>2. i + base \in (f..n) \ (G \cup {n}) /\ (i + base) - base = i
      BY <1>1, <3>1
    <3> QED BY <3>1, <3>2
  <2> HIDE DEF new, missing, gap
  <2>4. (missing \cup gap) \ {key} = new
    BY <2>1, <2>2, <2>3
  <2> QED BY <2>4 DEF new
<1>6. valid + 1 = Cardinality(G \cup {n})
  <2>1. n \notin G
    BY <1>1
  <2> QED BY <2>1, FS_AddElement
<1> HIDE DEF s, seen, missing, valid, gap, key
<1>7. Count(s, n % SequenceModulus)
        = Counts(n - base, seen \cup {key}, (missing \cup gap) \ {key}, valid + 1, dup, late)
  BY <1>1, <1>2, <1>3, OneMoreAhead DEF gap, key
<1> QED BY <1>4, <1>5, <1>6, <1>7 DEF s, seen, missing, valid, key, gap, Counted

LEMMA LateIsCounted ==
  ASSUME NEW base \in Int, NEW G \in SUBSET Int, IsFiniteSet(G), NEW f \in Int, NEW h \in G,
         NEW dup, NEW late,
         NEW n \in Int, n \notin G, h - n \in 1..MaxMisorder,
         (n - base) % SequenceModulus = n % SequenceModulus
  PROVE  Count(Counted(base, G, f, h, dup, late), n % SequenceModulus)
           = Counted(base, G \cup {n}, f, h, dup, late + 1)
<1> DEFINE s == Counted(base, G, f, h, dup, late)
           seen == {<<0, g - base>> : g \in G}
           missing == {<<0, g - base>> : g \in (f..h) \ G}
           valid == Cardinality(G)
           key == <<0, n - base>>
<1>1. /\ h \in Int /\ SequenceModulus \div 2 \in Nat /\ n < h
      /\ n - h < SequenceModulus \div 2 /\ h - n < SequenceModulus \div 2
      /\ -((n - base) - (h - base)) = h - n
      /\ (n - base) - (h - base) \notin 1..MaxDropout
  BY PacketAssumption
<1>2. extend_rtp_sequence(n % SequenceModulus, h - base) = n - base
  BY <1>1, NextIsFound
<1>3. s = Counts(h - base, seen, missing, valid, dup, late)
  BY DEF Counted
<1>4. seen \cup {key} = {<<0, g - base>> : g \in G \cup {n}} /\ key \notin seen
  <2>1. \A g \in G : <<0, g - base>> # key
    OBVIOUS
  <2> QED BY <2>1
<1>5. missing \ {key} = {<<0, g - base>> : g \in (f..h) \ (G \cup {n})}
  <2> DEFINE new == {<<0, g - base>> : g \in (f..h) \ (G \cup {n})}
  <2>1. ASSUME NEW x \in new PROVE x \in missing \ {key}
    <3>1. PICK g \in (f..h) \ (G \cup {n}) : x = <<0, g - base>>
      OBVIOUS
    <3>2. g \in Int /\ g - base # n - base
      BY <1>1, <3>1
    <3> QED BY <3>1, <3>2
  <2>2. ASSUME NEW x \in missing \ {key} PROVE x \in new
    <3>1. PICK g \in (f..h) \ G : x = <<0, g - base>>
      OBVIOUS
    <3>2. g # n
      BY <3>1
    <3> QED BY <3>1, <3>2
  <2> HIDE DEF new, missing, key
  <2>3. missing \ {key} = new
    BY <2>1, <2>2
  <2> QED BY <2>3 DEF new
<1>6. valid + 1 = Cardinality(G \cup {n})
  BY FS_AddElement
<1> HIDE DEF s, seen, missing, valid, key
<1>7. Count(s, n % SequenceModulus)
        = Counts(h - base, seen \cup {key}, missing \ {key}, valid + 1, dup, late + 1)
  BY <1>1, <1>2, <1>3, <1>4, OneMoreLate DEF key
<1> QED BY <1>4, <1>5, <1>6, <1>7 DEF s, seen, missing, valid, key, Counted

-----------------------------------------------------------------------------
(* All packets.  After the first k of them the counts are those of Got(k),  *)
(* the numbers received so far.                                             *)

LEMMA GreatestIs ==
  ASSUME NEW S \in SUBSET Int, NEW m \in S, \A g \in S : g <= m
  PROVE  Max(S) = m
<1>1. \A x \in S : (\A g \in S : x >= g) => x = m
  OBVIOUS
<1>2. \A g \in S : m >= g
  OBVIOUS
<1> QED BY <1>1, <1>2 DEF Max

Got(order, k) == {order[j] : j \in 1..k}

LateUpTo(order, k) ==
  {i \in 1..k : /\ \E j \in 1..(i - 1) : order[j] > order[i]
                /\ \A j \in 1..(i - 1) : order[j] # order[i]}

CountedUpTo(order, base, k) ==
  Counted(base, Got(order, k), order[1], Max(Got(order, k)),
          k - Cardinality(Got(order, k)), Cardinality(LateUpTo(order, k)))

\* What is known of the numbers received so far.
GotSome(order, k) ==
  /\ Got(order, k) \in SUBSET Int /\ IsFiniteSet(Got(order, k))
  /\ order[1] \in Got(order, k) /\ Max(Got(order, k)) \in Got(order, k)
  /\ \A g \in Got(order, k) : g <= Max(Got(order, k))

LEMMA LateOnes ==
  ASSUME NEW order, NEW k \in Nat
  PROVE  /\ IsFiniteSet(LateUpTo(order, k)) /\ Cardinality(LateUpTo(order, k)) \in Nat
         /\ k + 1 \notin LateUpTo(order, k)
         /\ LateUpTo(order, k + 1) =
              IF k + 1 \in LateUpTo(order, k + 1) THEN LateUpTo(order, k) \cup {k + 1}
              ELSE LateUpTo(order, k)
         /\ k + 1 \in LateUpTo(order, k + 1) <=>
              /\ \E g \in Got(order, k) : g > order[k + 1]
              /\ order[k + 1] \notin Got(order, k)
<1>1. LateUpTo(order, k) \in SUBSET (1..k)
  BY DEF LateUpTo
<1>2. IsFiniteSet(LateUpTo(order, k)) /\ Cardinality(LateUpTo(order, k)) \in Nat
  <2>1. IsFiniteSet(1..k)
    BY FS_Interval
  <2>2. IsFiniteSet(LateUpTo(order, k))
    BY <1>1, <2>1, FS_Subset
  <2> QED BY <2>2, FS_CardinalityType
<1>3. 1..(k + 1) = (1..k) \cup {k + 1} /\ (k + 1) - 1 = k /\ k + 1 \notin 1..k
  OBVIOUS
<1>4. LateUpTo(order, k + 1) =
        IF k + 1 \in LateUpTo(order, k + 1) THEN LateUpTo(order, k) \cup {k + 1}
        ELSE LateUpTo(order, k)
  BY <1>3 DEF LateUpTo
<1>5. k + 1 \in LateUpTo(order, k + 1) <=>
        /\ \E g \in Got(order, k) : g > order[k + 1]
        /\ order[k + 1] \notin Got(order, k)
  BY <1>3 DEF LateUpTo, Got
<1> QED BY <1>1, <1>2, <1>3, <1>4, <1>5

LEMMA FirstIsCounted ==
  ASSUME NEW order, NEW f \in Int, order[1] = f,
         NEW base, base = (f \div SequenceModulus) * SequenceModulus
  PROVE  /\ GotSome(order, 1)
         /\ FirstCount(f % SequenceModulus) = CountedUpTo(order, base, 1)
<1>1. SequenceModulus \in Nat \ {0}
  BY PacketAssumption
<1>2. base \in Int /\ f - base = f % SequenceModulus
  <2>1. f % SequenceModulus \in Int /\ f = base + (f % SequenceModulus)
    BY <1>1, Division
  <2>2. base \in Int
    BY <1>1, ShiftedRemainder
  <2> QED BY <2>1, <2>2
<1>3. Got(order, 1) = {f}
  BY DEF Got
<1>4. Max({f}) = f
  <2>1. {f} \in SUBSET Int /\ f \in {f} /\ \A g \in {f} : g <= f
    OBVIOUS
  <2> QED BY <2>1, GreatestIs
<1>5. LateUpTo(order, 1) = {}
  BY DEF LateUpTo
<1>6. Cardinality({f}) = 1 /\ IsFiniteSet({f}) /\ Cardinality({}) = 0
  BY FS_Singleton, FS_EmptySet
<1>7. GotSome(order, 1)
  <2>1. {f} \in SUBSET Int /\ f \in {f} /\ \A g \in {f} : g <= f
    OBVIOUS
  <2> QED BY <1>3, <1>4, <1>6, <2>1 DEF GotSome
<1>8. CountedUpTo(order, base, 1) = Counted(base, {f}, f, f, 0, 0)
  <2>1. /\ Got(order, 1) = {f} /\ Max(Got(order, 1)) = f
        /\ 1 - Cardinality(Got(order, 1)) = 0 /\ Cardinality(LateUpTo(order, 1)) = 0
    <3>1. Max(Got(order, 1)) = f
      BY Zenon, <1>3, <1>4
    <3>2. Cardinality(Got(order, 1)) = 1
      BY Zenon, <1>3, <1>6
    <3>3. Cardinality(LateUpTo(order, 1)) = 0
      BY Zenon, <1>5, <1>6
    <3> QED BY <1>3, <3>1, <3>2, <3>3
  <2>2. CountedUpTo(order, base, 1)
          = Counted(base, Got(order, 1), order[1], Max(Got(order, 1)),
                    1 - Cardinality(Got(order, 1)), Cardinality(LateUpTo(order, 1)))
    BY Zenon DEF CountedUpTo
  <2> QED BY <2>1, <2>2
<1>9. {<<0, g - base>> : g \in {f}} = {<<0, f % SequenceModulus>>}
  BY <1>2
<1>10. {<<0, g - base>> : g \in (f..f) \ {f}} = {}
  <2>1. (f..f) \ {f} = {}
    OBVIOUS
  <2> QED BY <2>1
<1>11. Counted(base, {f}, f, f, 0, 0)
         = Counts(f % SequenceModulus, {<<0, f % SequenceModulus>>}, {}, 1, 0, 0)
  BY <1>2, <1>6, <1>9, <1>10 DEF Counted
<1>12. FirstCount(f % SequenceModulus)
         = Counts(f % SequenceModulus, {<<0, f % SequenceModulus>>}, {}, 1, 0, 0)
  BY DEF FirstCount, Counts
<1> QED BY <1>7, <1>8, <1>11, <1>12

LEMMA NextIsCounted ==
  ASSUME NEW order \in Seq(Int), Arrives(order),
         NEW base, base = (order[1] \div SequenceModulus) * SequenceModulus,
         NEW k \in 1..(Len(order) - 1), GotSome(order, k)
  PROVE  /\ GotSome(order, k + 1)
         /\ Count(CountedUpTo(order, base, k), order[k + 1] % SequenceModulus)
              = CountedUpTo(order, base, k + 1)
<1> DEFINE G == Got(order, k)
           H == Got(order, k + 1)
           f == order[1]
           h == Max(G)
           x == order[k + 1]
           dup == k - Cardinality(G)
           late == Cardinality(LateUpTo(order, k))
<1>1. /\ k \in Nat /\ k + 1 \in 2..Len(order) /\ (k + 1) - 1 = k
      /\ x \in Int /\ f \in Int /\ SequenceModulus \in Nat \ {0}
  BY PacketAssumption
<1>2. base \in Int /\ (x - base) % SequenceModulus = x % SequenceModulus
  BY <1>1, ShiftedRemainder
<1>3. H = G \cup {x}
  <2>1. 1..(k + 1) = (1..k) \cup {k + 1}
    BY <1>1
  <2> QED BY <2>1 DEF Got
<1>4. /\ G \in SUBSET Int /\ IsFiniteSet(G) /\ f \in G /\ h \in G /\ \A g \in G : g <= h
      /\ h \in Int
  BY DEF GotSome
<1>5. Cardinality(G) \in Nat /\ IsFiniteSet(H)
      /\ Cardinality(H) = IF x \in G THEN Cardinality(G) ELSE Cardinality(G) + 1
  <2>1. Cardinality(G) \in Nat
    BY <1>4, FS_CardinalityType
  <2> HIDE DEF G, H, x
  <2> QED BY <1>3, <1>4, <2>1, FS_AddElement
<1>6. \/ x - h \in 1..MaxDropout
      \/ -(x - h) \in 1..MaxMisorder
      \/ x \in G /\ -(x - h) < SequenceModulus \div 2
  BY <1>1 DEF Arrives, Got
<1>7. CountedUpTo(order, base, k) = Counted(base, G, f, h, dup, late)
  BY DEF CountedUpTo
<1>8. /\ CountedUpTo(order, base, k + 1)
           = Counted(base, H, f, Max(H), (k + 1) - Cardinality(H),
                     Cardinality(LateUpTo(order, k + 1)))
      /\ GotSome(order, k + 1) <=>
           /\ H \in SUBSET Int /\ IsFiniteSet(H) /\ f \in H /\ Max(H) \in H
           /\ \A g \in H : g <= Max(H)
  BY DEF CountedUpTo, GotSome
<1>9. /\ late \in Nat /\ IsFiniteSet(LateUpTo(order, k)) /\ k + 1 \notin LateUpTo(order, k)
      /\ LateUpTo(order, k + 1) =
           IF (\E g \in G : g > x) /\ x \notin G THEN LateUpTo(order, k) \cup {k + 1}
           ELSE LateUpTo(order, k)
  BY <1>1, LateOnes
<1>10. MaxDropout \in Nat /\ MaxMisorder \in Nat /\ SequenceModulus \div 2 \in Nat
       /\ MaxMisorder < SequenceModulus \div 2
  BY PacketAssumption
<1> HIDE DEF G, H, f, h, x, dup, late
<1>11. CASE x - h \in 1..MaxDropout
  <2>1. x > h /\ x \notin G /\ ~(\E g \in G : g > x)
    BY <1>1, <1>4, <1>10, <1>11
  <2>2. H \in SUBSET Int /\ x \in H /\ \A g \in H : g <= x
    BY <1>1, <1>3, <1>4, <1>10, <1>11
  <2>3. Max(H) = x
    BY <2>2, GreatestIs
  <2>4. (k + 1) - Cardinality(H) = dup /\ Cardinality(LateUpTo(order, k + 1)) = late
    BY <1>1, <1>5, <1>9, <2>1 DEF dup, late
  <2>5. Count(Counted(base, G, f, h, dup, late), x % SequenceModulus)
          = Counted(base, H, f, x, dup, late)
    <3>1. Count(Counted(base, G, f, h, dup, late), x % SequenceModulus)
            = Counted(base, G \cup {x}, f, x, dup, late)
      <4>1. /\ base \in Int /\ G \in SUBSET Int /\ IsFiniteSet(G) /\ f \in G /\ h \in G
            /\ UpTo(G, h) /\ x \in Int /\ x - h \in 1..MaxDropout
            /\ (x - base) % SequenceModulus = x % SequenceModulus
        BY <1>1, <1>2, <1>4, <1>11 DEF UpTo
      <4> QED BY <4>1, AheadIsCounted
    <3> QED BY <1>3, <3>1
  <2>6. GotSome(order, k + 1)
    BY <1>3, <1>4, <1>5, <1>8, <2>2, <2>3
  <2> QED BY <1>7, <1>8, <2>3, <2>4, <2>5, <2>6 DEF x
<1>12. CASE x \in G /\ -(x - h) < SequenceModulus \div 2
  <2>1. H = G
    BY <1>3, <1>12
  <2>2. (k + 1) - Cardinality(H) = dup + 1 /\ Cardinality(LateUpTo(order, k + 1)) = late
    BY <1>1, <1>5, <1>9, <1>12 DEF dup, late
  <2>3. x <= h /\ h - x < SequenceModulus \div 2
    BY <1>1, <1>4, <1>10, <1>12
  <2>4. Count(Counted(base, G, f, h, dup, late), x % SequenceModulus)
          = Counted(base, H, f, h, dup + 1, late)
    BY <1>2, <1>4, <1>12, <2>1, <2>3, RepeatedIsCounted
  <2> QED BY <1>4, <1>7, <1>8, <2>1, <2>2, <2>4 DEF x, h
<1>13. CASE -(x - h) \in 1..MaxMisorder /\ x \notin G
  <2>1. h > x /\ h - x \in 1..MaxMisorder
    BY <1>1, <1>4, <1>10, <1>13
  <2>2. H \in SUBSET Int /\ h \in H /\ \A g \in H : g <= h
    BY <1>1, <1>3, <1>4, <1>10, <1>13
  <2>3. Max(H) = h
    BY <2>2, GreatestIs
  <2>4. LateUpTo(order, k + 1) = LateUpTo(order, k) \cup {k + 1}
    BY <1>4, <1>9, <1>13, <2>1
  <2>5. Cardinality(LateUpTo(order, k + 1)) = late + 1
    BY <1>9, <2>4, FS_AddElement DEF late
  <2>6. (k + 1) - Cardinality(H) = dup
    BY <1>1, <1>5, <1>13 DEF dup
  <2>7. Count(Counted(base, G, f, h, dup, late), x % SequenceModulus)
          = Counted(base, H, f, h, dup, late + 1)
    <3>1. /\ base \in Int /\ G \in SUBSET Int /\ IsFiniteSet(G) /\ f \in Int /\ h \in G
          /\ x \in Int /\ x \notin G /\ h - x \in 1..MaxMisorder
          /\ (x - base) % SequenceModulus = x % SequenceModulus
      BY <1>1, <1>2, <1>4, <1>13, <2>1
    <3>2. Count(Counted(base, G, f, h, dup, late), x % SequenceModulus)
            = Counted(base, G \cup {x}, f, h, dup, late + 1)
      BY <3>1, LateIsCounted
    <3> QED BY <1>3, <3>2
  <2>8. GotSome(order, k + 1)
    BY <1>3, <1>4, <1>5, <1>8, <2>2, <2>3
  <2> QED BY <1>7, <1>8, <2>5, <2>6, <2>7, <2>8, <2>3 DEF x
<1>14. CASE -(x - h) \in 1..MaxMisorder /\ x \in G
  <2>1. -(x - h) < SequenceModulus \div 2
    BY <1>10, <1>14
  <2> QED BY <1>12, <1>14, <2>1
<1> QED BY <1>6, <1>11, <1>12, <1>13, <1>14

LEMMA MissingOnes ==
  ASSUME NEW base \in Int, NEW D \in SUBSET Int, IsFiniteSet(D)
  PROVE  Cardinality({<<0, g - base>> : g \in D}) = Cardinality(D)
<1> DEFINE T == {<<0, g - base>> : g \in D}
           shift == [g \in D |-> <<0, g - base>>]
<1>1. shift \in [D -> T]
  OBVIOUS
<1>2. ASSUME NEW a \in D, NEW b \in D, shift[a] = shift[b] PROVE a = b
  <2>1. a \in Int /\ b \in Int /\ a - base = b - base
    BY <1>2
  <2> QED BY <2>1
<1>3. \A t \in T : \E g \in D : shift[g] = t
  OBVIOUS
<1>4. shift \in Bijection(D, T)
  <2> HIDE DEF shift, T
  <2>1. DOMAIN shift = D
    BY <1>1
  <2> QED BY <1>1, <1>2, <1>3, <2>1 DEF Bijection, Injection, Surjection, IsInjective
<1> HIDE DEF shift, T
<1>5. Cardinality(T) = Cardinality(D)
  BY <1>4, FS_Bijection DEF ExistsBijection
<1> QED BY <1>5 DEF T

(* However many packets of a source come, ahead by less than the dropout,  *)
(* late within the misorder or again while they are recent, and however    *)
(* often their counter wraps: the loss is what is missing between the first*)
(* number received and the highest, the duplicates are what came again, and*)
(* a late packet is out of order and not lost (rtp_sequence_stats).        *)
THEOREM LossIsCounted ==
  ASSUME NEW order \in Seq(Int), order # <<>>, Arrives(order)
  PROVE  LossIsWhatIsMissing(order)
<1> DEFINE n == Len(order)
           m == SequenceModulus
           base == (order[1] \div m) * m
           q == [i \in DOMAIN order |-> order[i] % m]
           G == Got(order, n)
           h == Max(G)
           D == (order[1]..h) \ G
           dup == n - Cardinality(G)
           late == Cardinality(LateUpTo(order, n))
<1>1. n \in Nat /\ n >= 1 /\ DOMAIN order = 1..n /\ n - 1 \in Nat /\ \A i \in 1..n : order[i] \in Int
  OBVIOUS
<1>2. base \in Int
  BY <1>1, ShiftedRemainder, PacketAssumption
<1>3. /\ q # <<>> /\ Head(q) = order[1] % m
      /\ DOMAIN Tail(q) = 1..(n - 1) /\ \A k \in 1..(n - 1) : Tail(q)[k] = order[k + 1] % m
  <2>1. \A i \in 1..n : q[i] = order[i] % m
    OBVIOUS
  <2>2. \A i \in 1..n : order[i] % m \in Int
    BY <1>1, PacketAssumption, Division
  <2>3. q \in Seq(Int) /\ Len(q) = n /\ q # <<>>
    BY <1>1, <2>2
  <2> HIDE DEF q, n, m
  <2> QED BY <1>1, <2>1, <2>3
<1> HIDE DEF q
<1>4. PICK acc : /\ acc[0] = FirstCount(Head(q))
                 /\ \A k \in 1..(n - 1) : acc[k] = Count(acc[k - 1], Tail(q)[k])
                 /\ Folded(FirstCount(Head(q)), Tail(q)) = acc[n - 1]
  <2> DEFINE b == FirstCount(Head(q))
             p == Tail(q)
             last == n - 1
  <2>1. last \in Nat /\ DOMAIN p = 1..last
    BY <1>1, <1>3
  <2> HIDE DEF b, p, last
  <2>2. \E acc : Steps(acc, b, p, last) /\ Folded(b, p) = acc[last]
    BY <2>1, CountsInOrder
  <2> QED BY <2>2 DEF b, p, last, Steps
<1> HIDE DEF n, m, base
<1> DEFINE T == {k \in Nat : k <= n - 1 => /\ GotSome(order, k + 1)
                                           /\ acc[k] = CountedUpTo(order, base, k + 1)}
<1>5. 0 \in T
  <2>1. GotSome(order, 1) /\ FirstCount(order[1] % m) = CountedUpTo(order, base, 1)
    BY <1>1, FirstIsCounted DEF base, m
  <2> QED BY <1>3, <1>4, <2>1
<1>6. ASSUME NEW k \in T, k \in Nat PROVE k + 1 \in T
  <2> SUFFICES ASSUME k + 1 <= n - 1
               PROVE  /\ GotSome(order, (k + 1) + 1)
                      /\ acc[k + 1] = CountedUpTo(order, base, (k + 1) + 1)
    BY <1>6
  <2>1. k + 1 \in 1..(n - 1) /\ (k + 1) - 1 = k /\ k <= n - 1
    BY <1>1, <1>6
  <2>2. GotSome(order, k + 1) /\ acc[k] = CountedUpTo(order, base, k + 1)
    BY <2>1
  <2> HIDE DEF T
  <2>3. acc[k + 1] = Count(acc[k], order[(k + 1) + 1] % m)
    BY <1>3, <1>4, <2>1
  <2> QED BY <2>1, <2>2, <2>3, NextIsCounted DEF base, m, n
<1>7. n - 1 \in T
  <2> HIDE DEF T
  <2> QED BY <1>1, <1>5, <1>6, NumbersByInduction
<1>8. GotSome(order, n) /\ acc[n - 1] = CountedUpTo(order, base, n)
  BY <1>1, <1>7
<1>9. acc[n - 1] = Counted(base, G, order[1], h, dup, late)
  BY <1>8 DEF CountedUpTo
<1>10. /\ G \in SUBSET Int /\ IsFiniteSet(G) /\ h \in Int /\ order[1] \in Int
  BY <1>8 DEF GotSome
<1>11. Range(order) = G
  BY <1>1 DEF Range, Got
<1>12. LateIn(order) = LateUpTo(order, n)
  BY <1>1 DEF LateIn, LateUpTo
<1>13. Len(order) = n
  BY DEF n
<1> HIDE DEF T, G, h, dup, late
<1>14. IsFiniteSet(D) /\ D \in SUBSET Int /\ G \cap D = {}
  <2>1. IsFiniteSet(order[1]..h) /\ D \in SUBSET (order[1]..h)
    BY <1>10, FS_Interval
  <2>2. D \in SUBSET Int /\ G \cap D = {}
    BY <1>10
  <2> HIDE DEF D
  <2>3. IsFiniteSet(D)
    BY <2>1, FS_Subset
  <2> QED BY <2>2, <2>3
<1>15. Cardinality(G \cup D) = Cardinality(G) + Cardinality(D)
  <2>1. Cardinality(G \cup D) = Cardinality(G) + Cardinality(D) - Cardinality(G \cap D)
    BY <1>10, <1>14, FS_Union
  <2>2. Cardinality(G) \in Nat /\ Cardinality(D) \in Nat /\ Cardinality(G \cap D) = 0
    BY <1>10, <1>14, FS_CardinalityType, FS_EmptySet
  <2> QED BY <2>1, <2>2
<1>16. Cardinality({<<0, g - base>> : g \in D}) = Cardinality(D)
  BY <1>2, <1>14, MissingOnes
<1>17. Totals(acc[n - 1])
         = [expected |-> Cardinality(G \cup D), lost |-> Cardinality(D),
            duplicates |-> dup, disordered |-> late]
  <2>1. acc[n - 1] = Counts(h - base, {<<0, g - base>> : g \in G}, {<<0, g - base>> : g \in D},
                            Cardinality(G), dup, late)
    BY <1>9 DEF Counted
  <2> HIDE DEF D
  <2> QED BY <1>15, <1>16, <2>1 DEF Totals, Counts
<1>18. rtp_sequence_stats(q) = Totals(acc[n - 1])
  <2>1. rtp_sequence_stats(q) = Totals(Folded(FirstCount(Head(q)), Tail(q)))
    BY <1>3 DEF rtp_sequence_stats, Folded
  <2> QED BY <1>4, <2>1
<1> QED BY <1>11, <1>12, <1>13, <1>17, <1>18 DEF LossIsWhatIsMissing, q, m, D, h, dup, late

-----------------------------------------------------------------------------
(***************************************************************************)
(* The lock of the parser (ParseLock).                                      *)
(***************************************************************************)

USE TimesAssumption, SlackAssumption

\* The invariant that carries mutual exclusion: the row of a run at work has
\* more of its lease left than the run can still take, so it cannot expire.
Coverage ==
  \A r \in Run :
    /\ phase[r] = "queued" =>
         /\ lock # NoLock /\ lock.run = r
         /\ age[r] <= StartDelay
         /\ lock.left + age[r] >= Timeout[r] + Slack
    /\ phase[r] = "parsing" =>
         /\ lock # NoLock /\ lock.run = r
         /\ age[r] <= Timeout[r]
         /\ lock.left + age[r] > Timeout[r]

IInv == TypeOK /\ Coverage

\* A lease covers the timeout and the slack, whatever the floor.
LEMMA LeaseCovers ==
  ASSUME NEW r \in Run
  PROVE  Lease(r) \in Nat /\ Lease(r) >= Timeout[r] + Slack
BY DEF Lease

\* The row of a run at work is live.
LEMMA CoverageImpliesLease == IInv => ParserHoldsLease
BY DEF IInv, TypeOK, Coverage, ParserHoldsLease, Active, Live

LEMMA InitIInv == Init => IInv
BY DEF Init, IInv, TypeOK, Coverage, Phases

\* A statement or a step of one run keeps the invariant.
LEMMA RunStep ==
  ASSUME IInv, NEW r \in Run,
         \/ Acquire(r) \/ Refuse(r) \/ RefuseAndDeleteStale(r)
         \/ AcquireUnseen(r) \/ StartParser(r) \/ StopParser(r)
         \/ Release(r) \/ ReleaseFails(r) \/ NewRun(r)
  PROVE  IInv'
<1> USE DEF IInv, TypeOK, Coverage, Goto, Phases, Active, Finished
<1>1. CASE Acquire(r)
  BY <1>1, LeaseCovers DEF Acquire, Insert, Live
<1>2. CASE Refuse(r)
  BY <1>2 DEF Refuse
<1>3. CASE RefuseAndDeleteStale(r)
  BY <1>3 DEF RefuseAndDeleteStale, Stale
<1>4. CASE AcquireUnseen(r)
  BY <1>4, LeaseCovers DEF AcquireUnseen, Insert, Live
<1>5. CASE StartParser(r)
  BY <1>5 DEF StartParser
<1>6. CASE StopParser(r)
  BY <1>6 DEF StopParser
<1>7. CASE Release(r)
  BY <1>7 DEF Release, DeleteOwnRow
<1>8. CASE ReleaseFails(r)
  BY <1>8 DEF ReleaseFails
<1>9. CASE NewRun(r)
  BY <1>9 DEF NewRun
<1>10. QED
  BY <1>1, <1>2, <1>3, <1>4, <1>5, <1>6, <1>7, <1>8, <1>9

\* Time shortens the lease and ages the run at work by the same amount.
LEMMA TickStep == IInv /\ Tick => IInv'
<1> SUFFICES ASSUME IInv, Tick PROVE IInv'
  OBVIOUS
<1>1. TypeOK'
  BY DEF IInv, TypeOK, Tick, Live
<1>2. Coverage'
  BY DEF IInv, TypeOK, Coverage, Tick, Live, Active
<1>3. QED
  BY <1>1, <1>2 DEF IInv

LEMMA CrashStep == IInv /\ Crash => IInv'
BY DEF IInv, TypeOK, Coverage, Crash, Phases, Active, Finished

LEMMA NextIInv == IInv /\ [Next]_vars => IInv'
<1> SUFFICES ASSUME IInv, [Next]_vars PROVE IInv'
  OBVIOUS
<1>1. CASE Tick
  BY <1>1, TickStep
<1>2. CASE Crash
  BY <1>2, CrashStep
<1>3. CASE \E r \in Run : \/ Acquire(r) \/ Refuse(r) \/ RefuseAndDeleteStale(r)
                          \/ AcquireUnseen(r) \/ StartParser(r) \/ StopParser(r)
                          \/ Release(r) \/ ReleaseFails(r) \/ NewRun(r)
  BY <1>3, RunStep
<1>4. CASE UNCHANGED vars
  BY <1>4 DEF vars, IInv, TypeOK, Coverage
<1>5. QED
  BY <1>1, <1>2, <1>3, <1>4 DEF Next

LEMMA AlwaysIInv == Spec => []IInv
BY InitIInv, NextIInv, PTL DEF Spec

\* Type correctness of the lock table, the runs and their clocks.
THEOREM TypeCorrect == Spec => []TypeOK
<1>1. IInv => TypeOK
  BY DEF IInv
<1>2. QED
  BY <1>1, AlwaysIInv, PTL

\* media_run_capture_parse never works without a live lock row of its own, so
\* taking over an expired row never starts a second parser subprocess.
THEOREM WorkIsCovered == Spec => []ParserHoldsLease
BY AlwaysIInv, CoverageImpliesLease, PTL

\* One parser subprocess at a time: the table has one row, and every run at
\* work is the one it names.
THEOREM MutualExclusion == Spec => []OneRunAtWork
<1>1. ParserHoldsLease => OneRunAtWork
  BY DEF ParserHoldsLease, OneRunAtWork
<1>2. QED
  BY <1>1, WorkIsCovered, PTL

\* A step of a run leaves a live row of another run in place.
LEMMA LiveRowStep ==
  ASSUME IInv, [Next]_vars, Live, lock' = NoLock \/ lock'.run # lock.run
  PROVE  phase[lock.run] # phase'[lock.run]
<1> USE DEF IInv, TypeOK, Live, Goto, Phases, Active, Finished
<1>1. PICK r \in Run : \/ Acquire(r) \/ Refuse(r) \/ RefuseAndDeleteStale(r)
                       \/ AcquireUnseen(r) \/ StartParser(r) \/ StopParser(r)
                       \/ Release(r) \/ ReleaseFails(r) \/ NewRun(r)
  <2>1. lock' # lock
    OBVIOUS
  <2>2. ~Crash /\ ~UNCHANGED vars
    BY <2>1 DEF Crash, vars
  <2>3. ~Tick
    BY DEF Tick
  <2>4. QED
    BY <2>2, <2>3 DEF Next
<1>2. Release(r) /\ lock.run = r
  BY <1>1 DEF Acquire, Refuse, RefuseAndDeleteStale, Stale, AcquireUnseen,
     StartParser, StopParser, Release, DeleteOwnRow, ReleaseFails, NewRun
<1>3. QED
  BY <1>2 DEF Release

\* media_release_parse_lock removes its own run's row only: whoever held a live
\* row keeps it until its own run ends.
THEOREM OnlyItsRunEndsALiveRow == Spec => LiveRowEndsByItsRun
<1>1. IInv /\ [Next]_vars =>
        [Live /\ (lock' = NoLock \/ lock'.run # lock.run)
           => phase[lock.run] # phase'[lock.run]]_vars
  BY LiveRowStep
<1>2. QED
  BY <1>1, AlwaysIInv, PTL DEF Spec, LiveRowEndsByItsRun

-----------------------------------------------------------------------------
(* ParseLock implements ParseMutex.                                         *)

\* The run at work is the holder; without one the row alone decides.
LEMMA HolderIs ==
  ASSUME OneRunAtWork
  PROVE  /\ \A r \in Run : phase[r] \in Active => Holder = r
         /\ (\A r \in Run : phase[r] \notin Active) =>
              Holder = IF lock = NoLock THEN "nobody" ELSE "lingering"
BY DEF Holder, OneRunAtWork

\* Every statement of a run is a step of the abstract lock or none.
LEMMA RunStepRefines ==
  ASSUME IInv, IInv', NEW r \in Run,
         \/ Acquire(r) \/ Refuse(r) \/ RefuseAndDeleteStale(r)
         \/ AcquireUnseen(r) \/ StartParser(r) \/ StopParser(r)
         \/ Release(r) \/ ReleaseFails(r) \/ NewRun(r)
  PROVE  [Mutex!Next]_Holder
<1> DEFINE Idle == \A s \in Run : phase[s] \notin Active
<1>1. ParserHoldsLease /\ ParserHoldsLease'
  BY CoverageImpliesLease, PTL
<1>2. OneRunAtWork /\ OneRunAtWork'
  BY <1>1 DEF ParserHoldsLease, OneRunAtWork
<1>3. /\ \A s \in Run : phase[s] \in Active => Holder = s
      /\ Idle => Holder = IF lock = NoLock THEN "nobody" ELSE "lingering"
      /\ \A s \in Run : phase'[s] \in Active => Holder' = s
      /\ Idle' => Holder' = IF lock' = NoLock THEN "nobody" ELSE "lingering"
  BY <1>2, HolderIs DEF Holder, OneRunAtWork, Active
<1>4. \A s \in Run : s # r => phase'[s] = phase[s]
  BY DEF IInv, TypeOK, Goto, Acquire, Refuse, RefuseAndDeleteStale,
     AcquireUnseen, StartParser, StopParser, Release, ReleaseFails, NewRun
<1> USE DEF IInv, TypeOK, Goto, Active, Finished
<1>5. CASE Acquire(r)
  <2>1. Idle
    BY <1>1, <1>5 DEF Acquire, ParserHoldsLease
  <2>2. Holder' = r
    BY <1>3, <1>5 DEF Acquire
  <2>3. Mutex!Acquire(r)
    BY <1>3, <2>1, <2>2 DEF Mutex!Acquire, Mutex!Nobody, Mutex!Lingering
  <2>4. QED
    BY <2>3 DEF Mutex!Next
<1>6. CASE StartParser(r)
  BY <1>3, <1>6 DEF StartParser
<1>7. CASE \/ StopParser(r)
           \/ Release(r) /\ phase[r] = "queued"
           \/ ReleaseFails(r) /\ phase[r] = "queued"
  <2>1. Holder = r
    BY <1>3, <1>7 DEF StopParser
  <2>2. Idle'
    BY <1>2, <1>4, <1>7 DEF StopParser, Release, ReleaseFails, OneRunAtWork
  <2>3. Mutex!Finish(r)
    BY <1>3, <2>1, <2>2 DEF Mutex!Finish, Mutex!Nobody, Mutex!Lingering
  <2>4. QED
    BY <2>3 DEF Mutex!Next
<1>8. CASE \/ Refuse(r) \/ NewRun(r)
           \/ ReleaseFails(r) /\ phase[r] = "recording"
  <2>1. lock' = lock /\ phase[r] \notin Active /\ phase'[r] \notin Active
    BY <1>8 DEF Refuse, NewRun, ReleaseFails
  <2>2. Holder' = Holder
    BY <1>3, <1>4, <2>1
  <2>3. QED
    BY <2>2
<1>9. CASE \/ RefuseAndDeleteStale(r) \/ AcquireUnseen(r)
           \/ Release(r) /\ phase[r] = "recording"
  <2>1. phase[r] \notin Active /\ phase'[r] \notin Active
    BY <1>9 DEF RefuseAndDeleteStale, AcquireUnseen, Release
  <2>2. CASE Idle
    <3>1. Idle'
      BY <1>4, <2>1, <2>2
    <3>2. Holder' = Holder \/ Mutex!Clear \/ Mutex!Linger
      BY <1>3, <2>2, <3>1
         DEF Mutex!Clear, Mutex!Linger, Mutex!Nobody, Mutex!Lingering
    <3>3. QED
      BY <3>2 DEF Mutex!Next
  <2>3. CASE ~Idle
    <3>1. Holder' = Holder
      BY <1>3, <1>4, <2>1, <2>3
    <3>2. QED
      BY <3>1
  <2>4. QED
    BY <2>2, <2>3
<1>10. /\ Release(r) => phase[r] = "queued" \/ phase[r] = "recording"
       /\ ReleaseFails(r) => phase[r] = "queued" \/ phase[r] = "recording"
  BY DEF Release, ReleaseFails
<1> HIDE DEF IInv, TypeOK, Goto, Active, Finished
<1>11. QED
  BY <1>5, <1>6, <1>7, <1>8, <1>9, <1>10

\* Callers of media_acquire_parse_lock may reason with ParseMutex: at most one
\* run at work, and a leftover row is cleared or taken over, never shared.
THEOREM Refinement == Spec => ImplementsParseMutex
<1>1. Init => Mutex!Init
  BY DEF Init, Mutex!Init, Mutex!Nobody, Holder, Active
<1>2. IInv /\ IInv' /\ [Next]_vars => [Mutex!Next]_Holder
  <2> SUFFICES ASSUME IInv, IInv', [Next]_vars PROVE [Mutex!Next]_Holder
    OBVIOUS
  <2>1. CASE Tick
    BY <2>1 DEF Tick, Holder, Live, IInv, TypeOK
  <2>2. CASE Crash
    <3>1. OneRunAtWork
      BY CoverageImpliesLease DEF ParserHoldsLease, OneRunAtWork
    <3>2. \A r \in Run : phase'[r] \notin Active
      BY <2>2 DEF Crash, Active, IInv, TypeOK
    <3>3. Holder' \in {"nobody", "lingering"} /\ lock' = lock
      BY <2>2, <3>2 DEF Holder, Crash
    <3>4. CASE \E r \in Run : phase[r] \in Active
      <4>1. PICK r \in Run : phase[r] \in Active
        BY <3>4
      <4>2. Mutex!Finish(r)
        BY <3>1, <3>3, <4>1, HolderIs
           DEF Mutex!Finish, Mutex!Nobody, Mutex!Lingering
      <4>3. QED
        BY <4>2 DEF Mutex!Next
    <3>5. CASE \A r \in Run : phase[r] \notin Active
      BY <3>2, <3>3, <3>5 DEF Holder
    <3>6. QED
      BY <3>4, <3>5
  <2>3. CASE \E r \in Run : \/ Acquire(r) \/ Refuse(r)
                            \/ RefuseAndDeleteStale(r) \/ AcquireUnseen(r)
                            \/ StartParser(r) \/ StopParser(r)
                            \/ Release(r) \/ ReleaseFails(r) \/ NewRun(r)
    BY <2>3, RunStepRefines
  <2>4. CASE UNCHANGED vars
    BY <2>4 DEF vars, Holder
  <2>5. QED
    BY <2>1, <2>2, <2>3, <2>4 DEF Next
<1>3. QED
  BY <1>1, <1>2, AlwaysIInv, PTL DEF Spec, ImplementsParseMutex, Mutex!Spec

=============================================================================
