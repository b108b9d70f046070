-------------------------- MODULE InputsAndRuns_proofs --------------------------
(***************************************************************************)
(* Theorems about InputCatalog and RfRuns for any names, contents, requests,*)
(* runs and identities: what the list of input files offers is on disk and  *)
(* an acknowledged upload stays on offer; what a run has found is never     *)
(* hidden, what an operator typed in outlives reloads, and an execution     *)
(* alone at its run leaves the rows of its files.                           *)
(***************************************************************************)
EXTENDS InputCatalog, RfRuns, TLAPS

-----------------------------------------------------------------------------
(***************************************************************************)
(* The input files (InputCatalog). The invariant says what a request may    *)
(* still rely on of what it has read, while others upload, scan and edit.   *)
(***************************************************************************)

HandlerStage == {"idle", "body", "lookup", "hide", "store", "scan", "register", "patch"}
\* A row is repointed under the id it has.
HandlerRecord ==
  {h \in [stage : HandlerStage, seen : SUBSET Seen, id : Path \cup {<<NoContent, 0>>}] :
     h.stage = "patch" => h.id \in Path}
RowRecord == [path : Path, sha : Content \cup {NoContent, Partial}, visible : BOOLEAN]

CatalogTypes ==
  /\ incoming \in [Path -> Content \cup {NoContent, Partial}]
  /\ listed \in [Path -> RowRecord \cup {NoRow}]
  /\ handling \in [Handler -> HandlerRecord]
  /\ uploads \in Nat
  /\ raced \subseteq Path /\ acked \subseteq Content
  /\ withdrawn \subseteq Content \cup {NoContent, Partial}

\* What was read of a file is its content, which never changes again, or the file
\* was read while its upload went on, or was missing and has not been uploaded unnoticed.
IsRead(s) ==
  \/ s.sha = NoContent /\ (s.path \in raced \/ incoming[s.path] \notin Content)
  \/ s.sha = Partial /\ s.path \in raced
  \/ s.sha \in Content /\ incoming[s.path] = s.sha

\* A row without a hash tells no content.
RowIsRead(i) == listed[i] # NoRow /\ listed[i].sha # NoContent => IsRead(listed[i])
HashedAt(p) == {i \in ListedAt(p) : listed[i].sha # NoContent}

\* Stamps to come have no file yet.
StampsAreFree == \A p \in Path : p[2] > uploads => incoming[p] = NoContent

Receiving(q) == handling[q].stage = "body"
Recording(q) == handling[q].stage \in InOneGo

BodyIsPartial(q) ==
  Receiving(q) => /\ handling[q].id \in Path /\ incoming[handling[q].id] = Partial
                  /\ handling[q].seen = {}

BodiesApart(q, o) == Receiving(q) /\ Receiving(o) /\ q # o => handling[q].id # handling[o].id

\* A path whose upload is being recorded has a row with a hash only from another request.
RowIsAnothers(q) ==
  Recording(q) =>
    \A s \in handling[q].seen : s.sha \in Content /\ (HashedAt(s.path) # {} => s.path \in raced)

\* Contents an operator took away, and those of raced paths.
Excused(c) == c \in withdrawn \/ \E p \in raced : incoming[p] = c

\* The duplicate an upload hides has a visible row under another path.
CopyIsShown(q) ==
  handling[q].stage = "hide" =>
    \A s \in handling[q].seen :
      Excused(s.sha) \/ \E i \in ShownOf(s.sha) : listed[i].path # s.path

AckedIsShown(c) == Excused(c) \/ ShownOf(c) # {}

CatalogInv ==
  /\ CatalogTypes
  /\ StampsAreFree
  /\ \A i \in Path : RowIsRead(i)
  /\ \A q \in Handler : /\ \A s \in handling[q].seen : IsRead(s)
                        /\ BodyIsPartial(q) /\ RowIsAnothers(q) /\ CopyIsShown(q)
  /\ \A q, o \in Handler : BodiesApart(q, o)
  /\ \A c \in acked : AckedIsShown(c)

-----------------------------------------------------------------------------
(* What no step takes back                                                  *)

\* Contents stay where they are, and exceptions are made for good.
Monotone ==
  /\ raced \subseteq raced' /\ withdrawn \subseteq withdrawn'
  /\ \A p \in Path : incoming[p] \in Content => incoming'[p] = incoming[p]

\* A row that shows a content goes on to show it under the same path.
ShownStays ==
  \A c \in Content : \A i \in ShownOf(c) :
    Excused(c)' \/ (i \in ShownOf(c)' /\ listed'[i].path = listed[i].path)

LEMMA ContentFacts ==
  /\ \A c \in Content : c # NoContent /\ c # Partial
  /\ NoContent # Partial /\ NoRow \notin RowRecord
BY ContentAssumption DEF NoContent, Partial, NoSha, NoRow, RowRecord

LEMMA ReadStays ==
  ASSUME Monotone, NEW s, s.path \in Path, IsRead(s),
         incoming[s.path] \notin Content /\ incoming'[s.path] \in Content => s.path \in raced'
  PROVE  IsRead(s)'
BY DEF Monotone, IsRead

LEMMA ExcusedStays ==
  ASSUME CatalogTypes, Monotone, NEW c \in Content, Excused(c)
  PROVE  Excused(c)'
BY DEF CatalogTypes, Monotone, Excused

\* What a handler has to know after its step.
KnowsAfter(q) ==
  /\ Receiving(q)' => /\ handling'[q].id \in Path /\ incoming'[handling'[q].id] = Partial
                      /\ handling'[q].seen = {}
                      /\ \A o \in Handler \ {q} : Receiving(o) => handling[o].id # handling'[q].id
  /\ \A s \in handling'[q].seen : IsRead(s)'
  /\ RowIsAnothers(q)' /\ CopyIsShown(q)'

\* What it has to leave of what another knows.
LeavesOther(o) ==
  /\ handling'[o] = handling[o]
  /\ Receiving(o) => incoming'[handling[o].id] = Partial
  /\ \A s \in handling[o].seen :
       /\ Recording(o) /\ HashedAt(s.path)' # {} => HashedAt(s.path) # {} \/ s.path \in raced'
       /\ incoming[s.path] \notin Content /\ incoming'[s.path] \in Content => s.path \in raced'

\* A step of one handler, or of none.
LEMMA CatalogStepOf ==
  ASSUME CatalogInv, CatalogTypes', Monotone, ShownStays, StampsAreFree',
         NEW M \in SUBSET Handler, \A p, q \in M : p = q,
         \A i \in Path : RowIsRead(i)',
         \A o \in Handler \ M : LeavesOther(o),
         \A q \in M : KnowsAfter(q),
         \A c \in acked' \ acked : AckedIsShown(c)'
  PROVE  CatalogInv'
<1>0. /\ handling \in [Handler -> HandlerRecord] /\ acked \subseteq Content
      /\ \A o \in Handler \ M : handling'[o] = handling[o]
  BY DEF CatalogInv, CatalogTypes, LeavesOther
<1>1. \A o \in Handler : \A s \in handling[o].seen : s.path \in Path
  BY <1>0 DEF HandlerRecord, Seen
<1>2. ASSUME NEW o \in Handler PROVE \A s \in handling'[o].seen : IsRead(s)'
  <2>1. CASE o \in M
    BY <2>1 DEF KnowsAfter
  <2>2. CASE o \notin M
    <3>1. \A s \in handling[o].seen : IsRead(s)'
      BY <1>1, <2>2, ReadStays DEF CatalogInv, LeavesOther
    <3> QED BY <1>0, <2>2, <3>1
  <2> QED BY <2>1, <2>2
<1>3. ASSUME NEW o \in Handler PROVE BodyIsPartial(o)'
  <2>1. CASE o \in M
    BY <2>1 DEF KnowsAfter, BodyIsPartial
  <2>2. CASE o \notin M
    <3>1. handling'[o] = handling[o] /\ BodyIsPartial(o) /\ LeavesOther(o)
      BY <1>0, <2>2 DEF CatalogInv
    <3> QED BY <3>1 DEF BodyIsPartial, Receiving, LeavesOther
  <2> QED BY <2>1, <2>2
<1>4. ASSUME NEW o \in Handler, NEW p \in Handler PROVE BodiesApart(o, p)'
  <2>1. CASE o \in M /\ p \in M
    BY <2>1 DEF BodiesApart
  <2>2. CASE o \in M /\ p \notin M
    BY <1>0, <2>2 DEF KnowsAfter, BodiesApart, Receiving
  <2>3. CASE o \notin M /\ p \in M
    BY <1>0, <2>3 DEF KnowsAfter, BodiesApart, Receiving
  <2>4. CASE o \notin M /\ p \notin M
    BY <1>0, <2>4 DEF CatalogInv, BodiesApart, Receiving
  <2> QED BY <2>1, <2>2, <2>3, <2>4
<1>5. ASSUME NEW o \in Handler PROVE RowIsAnothers(o)'
  <2>1. CASE o \in M
    BY <2>1 DEF KnowsAfter
  <2>2. CASE o \notin M
    <3>1. handling'[o] = handling[o] /\ RowIsAnothers(o) /\ LeavesOther(o)
      BY <1>0, <2>2 DEF CatalogInv
    <3>2. raced \subseteq raced'
      BY DEF Monotone
    <3>3. ASSUME NEW s \in handling[o].seen, Recording(o)
          PROVE  s.sha \in Content /\ (HashedAt(s.path)' # {} => s.path \in raced')
      BY <3>1, <3>2, <3>3 DEF RowIsAnothers, LeavesOther
    <3> QED BY <3>1, <3>3 DEF RowIsAnothers, Recording
  <2> QED BY <2>1, <2>2
<1>6. ASSUME NEW o \in Handler PROVE CopyIsShown(o)'
  <2>1. CASE o \in M
    BY <2>1 DEF KnowsAfter
  <2>2. CASE o \notin M
    <3>1. handling'[o] = handling[o] /\ CopyIsShown(o) /\ RowIsAnothers(o)
      BY <1>0, <2>2 DEF CatalogInv
    <3>2. ASSUME NEW s \in handling[o].seen, handling[o].stage = "hide"
          PROVE  Excused(s.sha)' \/ \E i \in ShownOf(s.sha)' : listed'[i].path # s.path
      <4>1. s.sha \in Content
        BY <3>1, <3>2 DEF RowIsAnothers, Recording, InOneGo
      <4>2. CASE Excused(s.sha)
        BY <4>1, <4>2, ExcusedStays DEF CatalogInv
      <4>3. CASE \E i \in ShownOf(s.sha) : listed[i].path # s.path
        BY <4>1, <4>3 DEF ShownStays
      <4> QED BY <3>1, <3>2, <4>2, <4>3 DEF CopyIsShown
    <3> QED BY <3>1, <3>2 DEF CopyIsShown
  <2> QED BY <2>1, <2>2
<1>7. ASSUME NEW c \in acked' PROVE AckedIsShown(c)'
  <2>1. CASE c \in acked
    <3>1. c \in Content /\ AckedIsShown(c)
      BY <1>0, <2>1 DEF CatalogInv
    <3>2. CASE Excused(c)
      BY <3>1, <3>2, ExcusedStays DEF CatalogInv, AckedIsShown
    <3>3. CASE ShownOf(c) # {}
      BY <3>1, <3>3 DEF ShownStays, AckedIsShown
    <3> QED BY <3>1, <3>2, <3>3 DEF AckedIsShown
  <2>2. CASE c \notin acked
    BY <2>2
  <2> QED BY <2>1, <2>2
<1> QED BY <1>2, <1>3, <1>4, <1>5, <1>6, <1>7 DEF CatalogInv

-----------------------------------------------------------------------------
(* The parts of a step                                                      *)

\* One handler goes on to h: the others are left where they have what they read.
LEMMA OneHandler ==
  ASSUME CatalogInv, NEW q \in Handler, NEW h \in HandlerRecord,
         handling' = [handling EXCEPT ![q] = h],
         \A o \in Handler \ {q} : Receiving(o) => incoming'[handling[o].id] = Partial,
         \A p \in Path : incoming[p] \notin Content /\ incoming'[p] \in Content =>
           p \in raced' \/ \A o \in Handler \ {q} : \A s \in handling[o].seen : s.path # p,
         \A p \in Path : HashedAt(p)' # {} =>
           \/ HashedAt(p) # {} \/ p \in raced'
           \/ \A o \in Handler \ {q} : \A s \in handling[o].seen : s.path # p
  PROVE  /\ handling' \in [Handler -> HandlerRecord] /\ handling'[q] = h
         /\ \A o \in Handler \ {q} : LeavesOther(o)
<1>1. handling \in [Handler -> HandlerRecord]
  BY DEF CatalogInv, CatalogTypes
<1>2. \A o \in Handler : \A s \in handling[o].seen : s.path \in Path
  BY <1>1 DEF HandlerRecord, Seen
<1> QED BY <1>1, <1>2 DEF LeavesOther

LEMMA GoesFacts ==
  ASSUME NEW q \in Handler, NEW stage \in HandlerStage \ {"patch"}, NEW seen \in SUBSET Seen,
         HandlerGoes(q, stage, seen)
  PROVE  \E h \in HandlerRecord : /\ handling' = [handling EXCEPT ![q] = h]
                                  /\ h.stage = stage /\ h.seen = seen
<1> DEFINE mid == [NoHandler EXCEPT !.stage = stage]
           h   == [mid EXCEPT !.seen = seen]
<1>1. handling' = [handling EXCEPT ![q] = h]
  BY DEF HandlerGoes
<1>2. NoHandler \in HandlerRecord
  BY DEF NoHandler, HandlerRecord, HandlerStage
<1>3. mid \in HandlerRecord /\ mid.stage = stage
  BY <1>2 DEF HandlerRecord
<1> HIDE DEF mid
<1>4. h \in HandlerRecord /\ h.stage = stage /\ h.seen = seen
  BY <1>3 DEF HandlerRecord
<1> HIDE DEF h
<1> QED BY <1>1, <1>4

LEMMA EndsFacts ==
  ASSUME NEW q \in Handler, HandlerEnds(q)
  PROVE  /\ handling' = [handling EXCEPT ![q] = NoHandler] /\ NoHandler \in HandlerRecord
         /\ NoHandler.stage = "idle" /\ NoHandler.seen = {}
BY DEF HandlerEnds, NoHandler, HandlerRecord, HandlerStage

LEMMA StaleFacts ==
  ASSUME NEW q \in Handler, NEW p \in Path, Stale(q, p), raced \subseteq Path
  PROVE  /\ raced \subseteq raced' /\ raced' \subseteq Path
         /\ p \in raced' \/ \A o \in Handler \ {q} : \A s \in handling[o].seen : s.path # p
BY DEF Stale

\* The rows stay as they are.
LEMMA RowsStay ==
  ASSUME CatalogInv, Monotone, UNCHANGED listed
  PROVE  /\ \A i \in Path : RowIsRead(i)'
         /\ ShownStays
         /\ \A p \in Path : HashedAt(p)' = HashedAt(p)
         /\ \A c : ShownOf(c)' = ShownOf(c)
<1>1. ASSUME NEW i \in Path PROVE RowIsRead(i)'
  <2>1. listed[i] # NoRow /\ listed[i].sha # NoContent => listed[i].path \in Path /\ IsRead(listed[i])
    BY DEF CatalogInv, CatalogTypes, RowRecord, RowIsRead
  <2>2. listed[i] # NoRow /\ listed[i].sha # NoContent => IsRead(listed[i])'
    <3> DEFINE r == listed[i]
    <3>1. ASSUME r # NoRow, r.sha # NoContent PROVE IsRead(r)'
      BY <2>1, <3>1 DEF Monotone, IsRead
    <3> QED BY <3>1
  <2> QED BY <2>2 DEF RowIsRead
<1>2. \A p \in Path : HashedAt(p)' = HashedAt(p)
  BY DEF HashedAt, ListedAt, Rows
<1>3. \A c : ShownOf(c)' = ShownOf(c)
  BY DEF ShownOf, Rows
<1> QED BY <1>1, <1>2, <1>3 DEF ShownStays

\* A row is written: what it says was read, and where it shows less than the row it
\* takes the place of, that is excused.
LEMMA RowWritten ==
  ASSUME CatalogInv, Monotone, NEW id \in Path, NEW r \in RowRecord,
         listed' = [listed EXCEPT ![id] = r], IsRead(r)',
         \/ listed[id] = NoRow \/ listed[id].sha = NoContent
         \/ listed[id].path = r.path /\ (r.visible \/ r.sha = NoContent \/ r.path \in raced')
         \/ listed[id].sha \in withdrawn'
  PROVE  /\ listed' \in [Path -> RowRecord \cup {NoRow}]
         /\ \A i \in Path : RowIsRead(i)'
         /\ ShownStays
         /\ \A p \in Path : HashedAt(p)' # {} => HashedAt(p) # {} \/ p = r.path
         /\ id \in Rows' /\ listed'[id] = r
<1>1. /\ listed \in [Path -> RowRecord \cup {NoRow}]
      /\ \A i \in Path : listed'[i] = IF i = id THEN r ELSE listed[i]
  BY DEF CatalogInv, CatalogTypes
<1>2. ASSUME NEW i \in Path PROVE RowIsRead(i)'
  <2>1. CASE i = id
    BY <1>1, <2>1 DEF RowIsRead, IsRead
  <2>2. CASE i # id
    <3>1. listed[i] # NoRow /\ listed[i].sha # NoContent => listed[i].path \in Path /\ IsRead(listed[i])
      BY <1>1 DEF CatalogInv, RowRecord, RowIsRead
    <3>2. listed'[i] = listed[i]
      BY <1>1, <2>2
    <3> QED BY <3>1, <3>2 DEF Monotone, IsRead, RowIsRead
  <2> QED BY <2>1, <2>2
<1>3. ASSUME NEW c \in Content, NEW i \in ShownOf(c)
      PROVE  Excused(c)' \/ (i \in ShownOf(c)' /\ listed'[i].path = listed[i].path)
  <2>1. i \in Path /\ listed[i] # NoRow /\ listed[i].visible /\ listed[i].sha = c
    BY <1>3 DEF ShownOf, Rows
  <2>2. listed[i] \in RowRecord /\ listed[i].path \in Path
    BY <1>1, <2>1 DEF RowRecord
  <2>3. incoming[listed[i].path] = c
    BY <2>1, ContentFacts DEF CatalogInv, RowIsRead, IsRead
  <2>4. incoming'[listed[i].path] = c
    BY <2>2, <2>3 DEF Monotone
  <2>5. CASE i # id
    BY <1>1, <2>1, <2>5 DEF ShownOf, Rows
  <2>6. CASE i = id /\ listed[id].path = r.path /\ r.path \in raced'
    BY <2>4, <2>6 DEF Excused
  <2>7. CASE i = id /\ listed[id].path = r.path /\ (r.visible \/ r.sha = NoContent) /\ r.path \notin raced'
    <3>1. r.sha = c /\ r.visible
      BY <2>4, <2>7, ContentFacts DEF IsRead
    <3> QED BY <1>1, <2>1, <2>7, <3>1, ContentFacts DEF ShownOf, Rows
  <2>8. CASE i = id /\ listed[id].sha \in withdrawn'
    BY <2>1, <2>8 DEF Excused
  <2> QED BY <2>1, <2>5, <2>6, <2>7, <2>8, ContentFacts
<1>4. \A p \in Path : HashedAt(p)' # {} => HashedAt(p) # {} \/ p = r.path
  BY <1>1 DEF HashedAt, ListedAt, Rows
<1>5. listed' \in [Path -> RowRecord \cup {NoRow}]
  BY <1>1
<1> QED BY <1>1, <1>2, <1>3, <1>4, <1>5, ContentFacts DEF ShownStays, Rows

\* upsert_input_file_sql writes a row of the path, or a new one.
LEMMA UpsertFacts ==
  ASSUME CatalogInv, NEW s \in Seen, CanUpsert(s.path), NEW v \in BOOLEAN
  PROVE  \E id \in Path, r \in RowRecord :
           /\ Upserted(s, v) = [listed EXCEPT ![id] = r]
           /\ r.path = s.path /\ r.sha = s.sha /\ r.visible = v
           /\ \/ listed[id] = NoRow
              \/ listed[id].path = s.path /\ ListedAt(s.path) # {}
<1> DEFINE id == IF ListedAt(s.path) # {} THEN CHOOSE i \in ListedAt(s.path) : TRUE ELSE s.path
           r  == [path |-> s.path, sha |-> s.sha, visible |-> v]
<1>1. s.path \in Path /\ s.sha \in Content \cup {NoContent, Partial}
  BY DEF Seen
<1>2. r \in RowRecord /\ r.path = s.path /\ r.sha = s.sha /\ r.visible = v
  BY <1>1 DEF RowRecord
<1>3. Upserted(s, v) = [listed EXCEPT ![id] = r]
  BY DEF Upserted
<1>4. CASE ListedAt(s.path) # {}
  <2>1. id \in ListedAt(s.path)
    BY <1>4
  <2>2. id \in Path /\ listed[id].path = s.path
    BY <2>1 DEF ListedAt, Rows
  <2> HIDE DEF id, r
  <2> QED BY <1>2, <1>3, <1>4, <2>2
<1>5. CASE ListedAt(s.path) = {}
  <2>1. id \in Path /\ listed[id] = NoRow
    BY <1>1, <1>5 DEF CanUpsert
  <2> HIDE DEF id, r
  <2> QED BY <1>2, <1>3, <2>1
<1> QED BY <1>4, <1>5

\* A handler that puts a path it has read back into the list.
LEMMA UpsertShown ==
  ASSUME CatalogInv, Monotone, NEW s \in Seen, CanUpsert(s.path), NEW v \in BOOLEAN,
         IsRead(s)', listed' = Upserted(s, v),
         v \/ s.sha = NoContent \/ s.path \in raced' \/ HashedAt(s.path) = {}
  PROVE  /\ listed' \in [Path -> RowRecord \cup {NoRow}]
         /\ \A i \in Path : RowIsRead(i)'
         /\ ShownStays
         /\ \A p \in Path : HashedAt(p)' # {} => HashedAt(p) # {} \/ p = s.path
         /\ v => ShownOf(s.sha)' # {}
<1>1. PICK id \in Path, r \in RowRecord :
        /\ listed' = [listed EXCEPT ![id] = r]
        /\ r.path = s.path /\ r.sha = s.sha /\ r.visible = v
        /\ \/ listed[id] = NoRow
           \/ listed[id].path = s.path /\ ListedAt(s.path) # {}
  BY UpsertFacts
<1>0. \/ listed[id] = NoRow \/ listed[id].sha = NoContent
      \/ listed[id].path = r.path /\ (r.visible \/ r.sha = NoContent \/ r.path \in raced')
  BY <1>1 DEF HashedAt, ListedAt, Rows
<1>2. IsRead(r)'
  BY <1>1 DEF IsRead
<1>3. /\ listed' \in [Path -> RowRecord \cup {NoRow}]
      /\ \A i \in Path : RowIsRead(i)'
      /\ ShownStays
      /\ \A p \in Path : HashedAt(p)' # {} => HashedAt(p) # {} \/ p = r.path
      /\ id \in Rows' /\ listed'[id] = r
  BY <1>0, <1>1, <1>2, RowWritten
<1>4. v => id \in ShownOf(s.sha)'
  BY <1>1, <1>3 DEF ShownOf
<1> QED BY <1>1, <1>3, <1>4

-----------------------------------------------------------------------------
(* Uploads                                                                  *)

LEMMA UploadBeginsOK ==
  ASSUME CatalogInv, NEW q \in Handler, UploadBegins(q)
  PROVE  CatalogInv'
<1>1. PICK n, p :
        /\ n \in Name
        /\ p = IF incoming[<<n, 0>>] = NoContent THEN <<n, 0>> ELSE <<n, uploads + 1>>
        /\ incoming' = [incoming EXCEPT ![p] = Partial]
        /\ handling' = [handling EXCEPT ![q] = [NoHandler EXCEPT !.stage = "body", !.id = p]]
        /\ Stale(q, p)
  BY DEF UploadBegins
<1>2. /\ HandlerAt(q, "idle") /\ uploads < MaxUploads /\ uploads' = uploads + 1
      /\ UNCHANGED <<listed, edits, acked, withdrawn>>
  BY DEF UploadBegins
<1>3. /\ incoming \in [Path -> Content \cup {NoContent, Partial}] /\ uploads \in Nat
      /\ raced \subseteq Path
  BY DEF CatalogInv, CatalogTypes
<1>4. p \in Path /\ incoming[p] = NoContent
  <2> DEFINE here == incoming[<<n, 0>>] = NoContent
  <2>0. /\ n \in Name
        /\ here => p = <<n, 0>>
        /\ ~here => p = <<n, uploads + 1>>
    BY <1>1
  <2>1. CASE here
    BY <2>0, <2>1, ContentAssumption DEF Path
  <2>2. CASE ~here
    <3>1. p = <<n, uploads + 1>> /\ uploads + 1 \in 0..MaxUploads
      BY <1>2, <1>3, <2>0, <2>2, ContentAssumption
    <3>2. p \in Path /\ p[2] > uploads
      BY <1>3, <2>0, <3>1 DEF Path
    <3> QED BY <3>2 DEF CatalogInv, StampsAreFree
  <2> QED BY <2>1, <2>2
<1>5. p[2] <= uploads'
  BY <1>1, <1>2, <1>3
<1> DEFINE mid == [NoHandler EXCEPT !.stage = "body"]
           h   == [mid EXCEPT !.id = p]
<1>6. handling' = [handling EXCEPT ![q] = h]
  BY <1>1
<1>7. mid \in HandlerRecord /\ mid.stage = "body" /\ mid.seen = {}
  BY DEF NoHandler, HandlerRecord, HandlerStage
<1> HIDE DEF mid
<1>8. h \in HandlerRecord /\ h.stage = "body" /\ h.seen = {} /\ h.id = p
  BY <1>4, <1>7 DEF HandlerRecord
<1> HIDE DEF h
<1>9. Monotone
  BY <1>1, <1>2, <1>3, <1>4, StaleFacts, ContentFacts DEF Monotone
<1>10. /\ \A i \in Path : RowIsRead(i)'
       /\ ShownStays
       /\ \A t \in Path : HashedAt(t)' = HashedAt(t)
  BY <1>2, <1>9, RowsStay
<1>11. \A o \in Handler : Receiving(o) => /\ incoming[handling[o].id] = Partial
                                          /\ handling[o].id \in Path /\ handling[o].id # p
  BY <1>4, ContentFacts DEF CatalogInv, BodyIsPartial
<1>12. \A o \in Handler \ {q} : Receiving(o) => incoming'[handling[o].id] = Partial
  BY <1>1, <1>3, <1>11
<1>18. \A t \in Path : incoming'[t] \in Content => incoming[t] \in Content
  BY <1>1, <1>3, ContentFacts
<1>13. /\ handling' \in [Handler -> HandlerRecord] /\ handling'[q] = h
       /\ \A o \in Handler \ {q} : LeavesOther(o)
  BY <1>6, <1>8, <1>10, <1>12, <1>18, OneHandler
<1>14. KnowsAfter(q)
  <2>1. incoming'[p] = Partial
    BY <1>1, <1>3, <1>4
  <2> QED BY <1>4, <1>8, <1>11, <1>13, <2>1
          DEF KnowsAfter, Receiving, RowIsAnothers, CopyIsShown, Recording, InOneGo
<1>15. StampsAreFree'
  <2>1. ASSUME NEW t \in Path, t[2] > uploads' PROVE incoming'[t] = NoContent
    <3>1. t # p /\ t[2] > uploads
      <4>1. t[2] \in Nat /\ p[2] \in Nat
        BY <1>4 DEF Path
      <4> QED BY <1>2, <1>3, <1>5, <2>1, <4>1
    <3> QED BY <1>1, <1>3, <3>1 DEF CatalogInv, StampsAreFree
  <2> QED BY <2>1 DEF StampsAreFree
<1>16. CatalogTypes'
  <2>1. incoming' \in [Path -> Content \cup {NoContent, Partial}]
    BY <1>1, <1>3
  <2>2. raced' \subseteq Path
    BY <1>1, <1>3, <1>4, StaleFacts
  <2> QED BY <1>2, <1>3, <1>13, <2>1, <2>2 DEF CatalogInv, CatalogTypes
<1>17. {q} \in SUBSET Handler /\ \A o, t \in {q} : o = t
  OBVIOUS
<1> QED BY <1>2, <1>9, <1>10, <1>13, <1>14, <1>15, <1>16, <1>17, CatalogStepOf

LEMMA UploadEndsOK ==
  ASSUME CatalogInv, NEW q \in Handler, UploadEnds(q)
  PROVE  CatalogInv'
<1>0. PICK p : p = handling[q].id
  OBVIOUS
<1>1. /\ HandlerAt(q, "body") /\ Stale(q, p)
      /\ UNCHANGED <<listed, uploads, edits, acked, withdrawn>>
      /\ \/ \E c \in Content :
              /\ incoming' = [incoming EXCEPT ![p] = c]
              /\ HandlerGoes(q, "lookup", {[path |-> p, sha |-> c]})
         \/ incoming' = [incoming EXCEPT ![p] = NoContent] /\ HandlerEnds(q)
  BY <1>0 DEF UploadEnds
<1>2. /\ p \in Path /\ incoming[p] = Partial /\ Receiving(q)
  BY <1>0, <1>1 DEF CatalogInv, BodyIsPartial, Receiving, HandlerAt
<1>3. /\ incoming \in [Path -> Content \cup {NoContent, Partial}] /\ uploads \in Nat
      /\ raced \subseteq Path
  BY DEF CatalogInv, CatalogTypes
<1>4. PICK c \in Content \cup {NoContent}, h \in HandlerRecord :
        /\ incoming' = [incoming EXCEPT ![p] = c]
        /\ handling' = [handling EXCEPT ![q] = h]
        /\ \/ h.stage = "idle" /\ h.seen = {}
           \/ c \in Content /\ h.stage = "lookup" /\ h.seen = {[path |-> p, sha |-> c]}
  <2>1. CASE incoming' = [incoming EXCEPT ![p] = NoContent] /\ HandlerEnds(q)
    BY <2>1, EndsFacts
  <2>2. ASSUME NEW c \in Content, incoming' = [incoming EXCEPT ![p] = c],
               HandlerGoes(q, "lookup", {[path |-> p, sha |-> c]})
        PROVE  \E h \in HandlerRecord :
                 /\ handling' = [handling EXCEPT ![q] = h]
                 /\ h.stage = "lookup" /\ h.seen = {[path |-> p, sha |-> c]}
    <3>1. {[path |-> p, sha |-> c]} \in SUBSET Seen /\ "lookup" \in HandlerStage
      BY <1>2 DEF Seen, HandlerStage
    <3> QED BY <2>2, <3>1, GoesFacts
  <2>3. CASE \E c \in Content : /\ incoming' = [incoming EXCEPT ![p] = c]
                                /\ HandlerGoes(q, "lookup", {[path |-> p, sha |-> c]})
    BY <2>2, <2>3
  <2> QED BY <1>1, <2>1, <2>3
<1>5. /\ incoming' \in [Path -> Content \cup {NoContent, Partial}]
      /\ \A t \in Path : incoming'[t] = IF t = p THEN c ELSE incoming[t]
  BY <1>3, <1>4
<1>6. raced \subseteq raced' /\ raced' \subseteq Path
  BY <1>1, <1>2, <1>3, StaleFacts
<1>7. Monotone
  BY <1>1, <1>2, <1>5, <1>6, ContentFacts DEF Monotone
<1>8. /\ \A i \in Path : RowIsRead(i)'
      /\ ShownStays
      /\ \A t \in Path : HashedAt(t)' = HashedAt(t)
  BY <1>1, <1>7, RowsStay
<1>9. \A o \in Handler \ {q} : Receiving(o) => incoming'[handling[o].id] = Partial
  BY <1>0, <1>2, <1>5 DEF CatalogInv, BodyIsPartial, BodiesApart
<1>16. \A t \in Path : incoming[t] \notin Content /\ incoming'[t] \in Content =>
         t \in raced' \/ \A o \in Handler \ {q} : \A s \in handling[o].seen : s.path # t
  BY <1>1, <1>2, <1>3, <1>5, StaleFacts
<1>10. /\ handling' \in [Handler -> HandlerRecord] /\ handling'[q] = h
       /\ \A o \in Handler \ {q} : LeavesOther(o)
  BY <1>4, <1>8, <1>9, <1>16, OneHandler
\* A row with a hash of a path that is being uploaded was read from a part of a file.
<1>11. HashedAt(p) # {} => p \in raced
  <2>1. ASSUME NEW i \in HashedAt(p) PROVE p \in raced
    <3>1. i \in Path /\ listed[i] # NoRow /\ listed[i].path = p /\ listed[i].sha # NoContent
      BY <2>1 DEF HashedAt, ListedAt, Rows
    <3>2. IsRead(listed[i])
      BY <3>1 DEF CatalogInv, RowIsRead
    <3> QED BY <1>2, <3>1, <3>2, ContentFacts DEF IsRead
  <2> QED BY <2>1
<1>12. KnowsAfter(q)
  <2>1. ~Receiving(q)' /\ handling'[q].stage # "hide"
    BY <1>4, <1>10 DEF Receiving
  <2>2. ASSUME NEW s \in handling'[q].seen
        PROVE  IsRead(s)' /\ s.sha \in Content /\ s.path = p
    <3>1. c \in Content /\ s = [path |-> p, sha |-> c]
      BY <1>4, <1>10, <2>2
    <3>2. s.path = p /\ s.sha = c
      BY <3>1
    <3> QED BY <1>2, <1>5, <3>1, <3>2 DEF IsRead
  <2>3. RowIsAnothers(q)'
    BY <1>2, <1>6, <1>8, <1>11, <2>2 DEF RowIsAnothers
  <2> QED BY <2>1, <2>2, <2>3 DEF KnowsAfter, CopyIsShown
<1>13. StampsAreFree'
  BY <1>1, <1>2, <1>5, ContentFacts DEF CatalogInv, StampsAreFree
<1>14. CatalogTypes'
  BY <1>1, <1>5, <1>6, <1>10 DEF CatalogInv, CatalogTypes
<1>15. {q} \in SUBSET Handler /\ \A o, t \in {q} : o = t
  OBVIOUS
<1> QED BY <1>1, <1>7, <1>8, <1>10, <1>12, <1>13, <1>14, <1>15, CatalogStepOf

-----------------------------------------------------------------------------
(* Steps that leave the files                                               *)

LEMMA FilesStay ==
  ASSUME CatalogInv, UNCHANGED <<incoming, uploads>>,
         raced \subseteq raced', raced' \subseteq Path,
         withdrawn \subseteq withdrawn', withdrawn' \subseteq Content \cup {NoContent, Partial},
         acked' \subseteq Content,
         NEW q \in Handler, NEW h \in HandlerRecord, h.stage # "body",
         handling' = [handling EXCEPT ![q] = h],
         listed' \in [Path -> RowRecord \cup {NoRow}],
         \A i \in Path : RowIsRead(i)',
         ShownStays,
         \A p \in Path : HashedAt(p)' # {} =>
           \/ HashedAt(p) # {} \/ p \in raced'
           \/ \A o \in Handler \ {q} : \A s \in handling[o].seen : s.path # p,
         \A s \in h.seen : IsRead(s)',
         h.stage \in InOneGo => RowIsAnothers(q)' /\ CopyIsShown(q)',
         \A c \in acked' \ acked : AckedIsShown(c)'
  PROVE  CatalogInv'
<1>1. Monotone
  BY DEF Monotone
<1>2. \A o \in Handler \ {q} : Receiving(o) => incoming'[handling[o].id] = Partial
  BY DEF CatalogInv, BodyIsPartial
<1>3. /\ handling' \in [Handler -> HandlerRecord] /\ handling'[q] = h
      /\ \A o \in Handler \ {q} : LeavesOther(o)
  BY <1>2, OneHandler
<1>4. RowIsAnothers(q)' /\ CopyIsShown(q)'
  BY <1>3 DEF RowIsAnothers, CopyIsShown, Recording, InOneGo
<1>5. KnowsAfter(q)
  BY <1>3, <1>4 DEF KnowsAfter, Receiving
<1>6. StampsAreFree'
  BY DEF CatalogInv, StampsAreFree
<1>7. CatalogTypes'
  BY <1>3 DEF CatalogInv, CatalogTypes
<1>8. {q} \in SUBSET Handler /\ \A o, t \in {q} : o = t
  OBVIOUS
<1> QED BY <1>1, <1>3, <1>5, <1>6, <1>7, <1>8, CatalogStepOf

\* A handler that reads files, or a row, and writes none.
LEMMA OnlyReads ==
  ASSUME CatalogInv, UNCHANGED <<incoming, listed, uploads, acked, withdrawn>>,
         raced \subseteq raced', raced' \subseteq Path,
         NEW q \in Handler, NEW h \in HandlerRecord, h.stage # "body",
         handling' = [handling EXCEPT ![q] = h],
         \A s \in h.seen : IsRead(s)',
         h.stage \in InOneGo => RowIsAnothers(q)' /\ CopyIsShown(q)'
  PROVE  CatalogInv'
<1>1. Monotone
  BY DEF Monotone
<1>2. /\ \A i \in Path : RowIsRead(i)'
      /\ ShownStays
      /\ \A t \in Path : HashedAt(t)' = HashedAt(t)
  BY <1>1, RowsStay
<1>3. /\ withdrawn' \subseteq Content \cup {NoContent, Partial} /\ acked' \subseteq Content
      /\ listed' \in [Path -> RowRecord \cup {NoRow}]
  BY DEF CatalogInv, CatalogTypes
<1> QED BY <1>2, <1>3, FilesStay

\* input_file_record reads a whole file, a missing one, or a path that is raced for it.
LEMMA RecordIsRead ==
  ASSUME CatalogInv, NEW p \in Path, ReadPartial, UNCHANGED incoming
  PROVE  FileRecord(p) \in Seen /\ IsRead(FileRecord(p))'
<1>1. incoming[p] \in Content \cup {NoContent, Partial} /\ NoContent \notin Content
  BY ContentFacts DEF CatalogInv, CatalogTypes
<1>2. FileRecord(p).path = p /\ FileRecord(p).sha = incoming[p] /\ FileRecord(p) \in Seen
  BY <1>1 DEF FileRecord, Seen
<1>3. incoming[p] = Partial => p \in raced'
  BY DEF ReadPartial
<1>4. FileRecord(p)' = FileRecord(p)
  BY DEF FileRecord
<1> QED BY <1>1, <1>2, <1>3, <1>4 DEF IsRead

LEMMA LookupOK ==
  ASSUME CatalogInv, NEW q \in Handler, LookupDuplicate(q)
  PROVE  CatalogInv'
<1>1. PICK s \in handling[q].seen :
        HandlerGoes(q, IF ShownOf(s.sha) # {} THEN "hide" ELSE "store", {s})
  BY DEF LookupDuplicate
<1>2. /\ handling[q].stage = "lookup" /\ UNCHANGED <<incoming, listed, uploads, edits, ghosts>>
  BY DEF LookupDuplicate, HandlerAt
<1>3. /\ handling[q] \in HandlerRecord /\ raced \subseteq Path
  BY DEF CatalogInv, CatalogTypes
<1>4. s \in Seen /\ s.path \in Path
  BY <1>3 DEF HandlerRecord, Seen
<1>5. PICK h \in HandlerRecord :
        /\ handling' = [handling EXCEPT ![q] = h] /\ h.seen = {s}
        /\ h.stage = IF ShownOf(s.sha) # {} THEN "hide" ELSE "store"
  <2>1. /\ (IF ShownOf(s.sha) # {} THEN "hide" ELSE "store") \in HandlerStage
        /\ {s} \in SUBSET Seen
    BY <1>4 DEF HandlerStage
  <2> QED BY <1>1, <2>1, GoesFacts
<1>6. IsRead(s) /\ RowIsAnothers(q)
  BY DEF CatalogInv
<1>7. IsRead(s)'
  BY <1>2, <1>6 DEF IsRead, ghosts
<1>8. s.sha \in Content /\ (HashedAt(s.path) # {} => s.path \in raced)
  BY <1>2, <1>6 DEF RowIsAnothers, Recording, InOneGo
<1>9. handling'[q] = h
  BY <1>5 DEF CatalogInv, CatalogTypes
<1>10. HashedAt(s.path)' = HashedAt(s.path) /\ ShownOf(s.sha)' = ShownOf(s.sha)
  BY <1>2 DEF HashedAt, ListedAt, ShownOf, Rows
<1>11. RowIsAnothers(q)'
  BY <1>2, <1>5, <1>8, <1>9, <1>10 DEF RowIsAnothers, ghosts
<1>12. CopyIsShown(q)'
  <2>1. ASSUME ShownOf(s.sha) # {}
        PROVE  Excused(s.sha)' \/ \E i \in ShownOf(s.sha)' : listed'[i].path # s.path
    <3>1. PICK i \in ShownOf(s.sha) : TRUE
      BY <2>1
    <3>2. CASE listed[i].path # s.path
      BY <1>2, <1>10, <3>1, <3>2
    <3>3. CASE listed[i].path = s.path
      <4>1. s.path \in raced
        BY <1>8, <3>1, <3>3, ContentFacts DEF HashedAt, ListedAt, ShownOf
      <4>2. incoming[s.path] = s.sha
        BY <1>6, <1>8, ContentFacts DEF IsRead
      <4> QED BY <1>2, <4>1, <4>2 DEF Excused, ghosts
    <3> QED BY <3>2, <3>3
  <2> QED BY <1>5, <1>9, <2>1 DEF CopyIsShown
<1>13. h.stage # "body" /\ raced' = raced /\ UNCHANGED <<acked, withdrawn>>
  BY <1>2, <1>5 DEF ghosts
<1> QED BY <1>2, <1>3, <1>5, <1>7, <1>11, <1>12, <1>13, OnlyReads

\* A step that puts a path its handler has read back into the list, and goes on to h.
LEMMA UpsertStep ==
  ASSUME CatalogInv, UNCHANGED <<incoming, uploads, withdrawn>>,
         NEW q \in Handler, NEW s \in handling[q].seen, CanUpsert(s.path), Stale(q, s.path),
         NEW v \in BOOLEAN, listed' = Upserted(s, v),
         v \/ s.sha = NoContent \/ s.path \in raced \/ HashedAt(s.path) = {},
         acked' \subseteq acked \cup {s.sha}, acked' \subseteq Content,
         s.sha \in acked' \ acked => v \/ (CopyIsShown(q) /\ handling[q].stage = "hide"),
         NEW h \in HandlerRecord, handling' = [handling EXCEPT ![q] = h],
         h.stage \notin InOneGo \cup {"body"}, h.seen \subseteq handling[q].seen
  PROVE  CatalogInv'
<1>1. /\ handling[q] \in HandlerRecord /\ raced \subseteq Path
      /\ withdrawn \subseteq Content \cup {NoContent, Partial}
  BY DEF CatalogInv, CatalogTypes
<1>2. s \in Seen /\ s.path \in Path /\ \A t \in handling[q].seen : IsRead(t) /\ t.path \in Path
  BY <1>1 DEF CatalogInv, HandlerRecord, Seen
<1>3. /\ raced \subseteq raced' /\ raced' \subseteq Path
      /\ s.path \in raced' \/ \A o \in Handler \ {q} : \A t \in handling[o].seen : t.path # s.path
  BY <1>1, <1>2, StaleFacts
<1>4. Monotone
  BY <1>3 DEF Monotone
<1>5. \A t \in handling[q].seen : IsRead(t)'
  BY <1>2, <1>3 DEF IsRead
<1>6. /\ listed' \in [Path -> RowRecord \cup {NoRow}]
      /\ \A i \in Path : RowIsRead(i)'
      /\ ShownStays
      /\ \A p \in Path : HashedAt(p)' # {} => HashedAt(p) # {} \/ p = s.path
      /\ v => ShownOf(s.sha)' # {}
  <2>1. v \/ s.sha = NoContent \/ s.path \in raced' \/ HashedAt(s.path) = {}
    BY <1>3
  <2>2. IsRead(s)'
    BY <1>5
  <2> QED BY <1>2, <1>4, <2>1, <2>2, UpsertShown
<1>7. \A p \in Path : HashedAt(p)' # {} =>
        \/ HashedAt(p) # {} \/ p \in raced'
        \/ \A o \in Handler \ {q} : \A t \in handling[o].seen : t.path # p
  BY <1>3, <1>6
<1>8. ASSUME NEW c \in acked' \ acked PROVE AckedIsShown(c)'
  <2>1. c = s.sha /\ c \in Content
    BY <1>8
  <2>2. CASE v
    BY <1>6, <2>1, <2>2 DEF AckedIsShown
  <2>3. CASE ~v
    <3>1. Excused(c) \/ \E i \in ShownOf(c) : TRUE
      BY <2>1, <2>3 DEF CopyIsShown
    <3>2. CASE Excused(c)
      BY <1>4, <2>1, <3>2, ExcusedStays DEF CatalogInv, AckedIsShown
    <3>3. CASE \E i \in ShownOf(c) : TRUE
      BY <1>6, <2>1, <3>3 DEF ShownStays, AckedIsShown
    <3> QED BY <3>1, <3>2, <3>3
  <2> QED BY <2>2, <2>3
<1>9. \A t \in h.seen : IsRead(t)'
  BY <1>5
<1>10. withdrawn \subseteq withdrawn' /\ withdrawn' \subseteq Content \cup {NoContent, Partial}
  BY <1>1
<1> QED BY <1>3, <1>6, <1>7, <1>8, <1>9, <1>10, FilesStay

\* A handler that ends and has changed no row.
LEMMA EndsOK ==
  ASSUME CatalogInv, UNCHANGED <<incoming, listed, uploads, acked, withdrawn>>,
         raced \subseteq raced', raced' \subseteq Path,
         NEW q \in Handler, HandlerEnds(q)
  PROVE  CatalogInv'
<1>1. /\ handling' = [handling EXCEPT ![q] = NoHandler] /\ NoHandler \in HandlerRecord
      /\ NoHandler.stage = "idle" /\ NoHandler.seen = {}
  BY EndsFacts
<1>2. NoHandler.stage # "body" /\ NoHandler.stage \notin InOneGo /\ \A s \in NoHandler.seen : IsRead(s)'
  BY <1>1 DEF InOneGo
<1> QED BY <1>1, <1>2, OnlyReads

LEMMA RecordedOK ==
  ASSUME CatalogInv, NEW q \in Handler, UploadRecorded(q)
  PROVE  CatalogInv'
<1>1. PICK s \in handling[q].seen :
        /\ IF CanUpsert(s.path)
           THEN /\ listed' = Upserted(s, HandlerAt(q, "store"))
                /\ acked' = acked \cup {s.sha}
           ELSE UNCHANGED <<listed, acked>>
        /\ Stale(q, s.path)
  BY DEF UploadRecorded
<1>2. /\ handling[q].stage \in {"hide", "store"} /\ HandlerEnds(q)
      /\ UNCHANGED <<incoming, uploads, edits, withdrawn>>
  BY DEF UploadRecorded, HandlerAt
<1>3. /\ handling[q] \in HandlerRecord /\ raced \subseteq Path /\ acked \subseteq Content
  BY DEF CatalogInv, CatalogTypes
<1>4. s.path \in Path /\ s.sha \in Content /\ (HashedAt(s.path) # {} => s.path \in raced)
  BY <1>2, <1>3 DEF CatalogInv, RowIsAnothers, Recording, InOneGo, HandlerRecord, Seen
<1>5. raced \subseteq raced' /\ raced' \subseteq Path
  BY <1>1, <1>3, <1>4, StaleFacts
<1>6. CASE ~CanUpsert(s.path)
  BY <1>1, <1>2, <1>5, <1>6, EndsOK
<1>7. CASE CanUpsert(s.path)
  <2> DEFINE v == HandlerAt(q, "store")
  <2>1. v \in BOOLEAN /\ (~v => handling[q].stage = "hide")
    BY <1>2 DEF HandlerAt
  <2>2. listed' = Upserted(s, v) /\ acked' = acked \cup {s.sha}
    BY <1>1, <1>7
  <2> HIDE DEF v
  <2>3. /\ handling' = [handling EXCEPT ![q] = NoHandler] /\ NoHandler \in HandlerRecord
        /\ NoHandler.stage \notin InOneGo \cup {"body"} /\ NoHandler.seen \subseteq handling[q].seen
    <3>1. /\ handling' = [handling EXCEPT ![q] = NoHandler] /\ NoHandler \in HandlerRecord
          /\ NoHandler.stage = "idle" /\ NoHandler.seen = {}
      BY <1>2, EndsFacts
    <3>2. NoHandler.stage \notin InOneGo \cup {"body"}
      BY <3>1 DEF InOneGo
    <3>3. NoHandler.seen \subseteq handling[q].seen
      BY <3>1
    <3> QED BY <3>1, <3>2, <3>3
  <2>4. CopyIsShown(q)
    BY DEF CatalogInv
  <2>5. acked' \subseteq acked \cup {s.sha} /\ acked' \subseteq Content
    BY <1>3, <1>4, <2>2
  <2>6. v \/ s.path \in raced \/ HashedAt(s.path) = {}
    BY <1>4
  <2>7. s.sha \in acked' \ acked => v \/ (CopyIsShown(q) /\ handling[q].stage = "hide")
    BY <2>1, <2>4
  <2> QED BY <1>1, <1>2, <1>7, <2>1, <2>2, <2>3, <2>5, <2>6, <2>7, UpsertStep
<1> QED BY <1>6, <1>7

-----------------------------------------------------------------------------
(* Scans, registrations and edits                                           *)

\* A handler that begins with the records of some files.
LEMMA ReadsFiles ==
  ASSUME CatalogInv, UNCHANGED <<incoming, listed, uploads, acked, withdrawn>>, ReadPartial,
         NEW q \in Handler, NEW h \in HandlerRecord, h.stage \notin InOneGo \cup {"body"},
         handling' = [handling EXCEPT ![q] = h],
         \A s \in h.seen : \E p \in Path : s = FileRecord(p)
  PROVE  CatalogInv'
<1>1. raced \subseteq raced' /\ raced' \subseteq Path
  BY DEF ReadPartial, CatalogInv, CatalogTypes
<1>2. ASSUME NEW s \in h.seen PROVE IsRead(s)'
  <2>1. PICK p \in Path : s = FileRecord(p)
    BY <1>2
  <2>2. IsRead(FileRecord(p))' /\ FileRecord(p)' = FileRecord(p)
    BY <2>1, RecordIsRead DEF FileRecord
  <2> QED BY <2>1, <2>2 DEF IsRead
<1> QED BY <1>1, <1>2, OnlyReads

LEMMA ScanBeginsOK ==
  ASSUME CatalogInv, NEW q \in Handler, ScanBegins(q)
  PROVE  CatalogInv'
<1> DEFINE seen == Dedupe({FileRecord(p) : p \in {f \in Path : incoming[f] # NoContent}})
<1>1. /\ HandlerGoes(q, "scan", seen) /\ ReadPartial
      /\ UNCHANGED <<incoming, listed, uploads, acked, withdrawn>>
  BY DEF ScanBegins
<1>2. \A s \in seen : \E p \in Path : s = FileRecord(p)
  BY DEF Dedupe
<1>3. seen \in SUBSET Seen
  BY <1>1, <1>2, RecordIsRead
<1> HIDE DEF seen
<1>4. PICK h \in HandlerRecord :
        handling' = [handling EXCEPT ![q] = h] /\ h.stage = "scan" /\ h.seen = seen
  BY <1>1, <1>3, GoesFacts DEF HandlerStage
<1>5. h.stage \notin InOneGo \cup {"body"}
  BY <1>4 DEF InOneGo
<1>6. \A s \in h.seen : \E p \in Path : s = FileRecord(p)
  BY <1>2, <1>4
<1> QED BY <1>1, <1>4, <1>5, <1>6, ReadsFiles

LEMMA RegisterBeginsOK ==
  ASSUME CatalogInv, NEW q \in Handler, RegisterBegins(q)
  PROVE  CatalogInv'
<1>1. PICK p \in Path : HandlerGoes(q, "register", {FileRecord(p)})
  BY DEF RegisterBegins
<1>2. ReadPartial /\ UNCHANGED <<incoming, listed, uploads, acked, withdrawn>>
  BY DEF RegisterBegins
<1>3. {FileRecord(p)} \in SUBSET Seen
  BY <1>1, <1>2, RecordIsRead
<1>4. PICK h \in HandlerRecord :
        handling' = [handling EXCEPT ![q] = h] /\ h.stage = "register" /\ h.seen = {FileRecord(p)}
  BY <1>1, <1>3, GoesFacts DEF HandlerStage
<1>5. h.stage \notin InOneGo \cup {"body"}
  BY <1>4 DEF InOneGo
<1>6. \A s \in h.seen : \E t \in Path : s = FileRecord(t)
  BY <1>1, <1>4
<1> QED BY <1>2, <1>4, <1>5, <1>6, ReadsFiles

LEMMA RepointBeginsOK ==
  ASSUME CatalogInv, NEW q \in Handler, RepointBegins(q)
  PROVE  CatalogInv'
<1>1. PICK i \in Rows, p \in Path :
        handling' = [handling EXCEPT ![q] = [stage |-> "patch", seen |-> {FileRecord(p)}, id |-> i]]
  BY DEF RepointBegins
<1>2. ReadPartial /\ UNCHANGED <<incoming, listed, uploads, acked, withdrawn>>
  BY DEF RepointBegins
<1>3. FileRecord(p) \in Seen /\ i \in Path
  BY <1>1, <1>2, RecordIsRead DEF Rows
<1> DEFINE h == [stage |-> "patch", seen |-> {FileRecord(p)}, id |-> i]
<1>4. h \in HandlerRecord /\ h.stage \notin InOneGo \cup {"body"} /\ h.seen = {FileRecord(p)}
  BY <1>3 DEF HandlerRecord, HandlerStage, InOneGo
<1>5. handling' = [handling EXCEPT ![q] = h]
  BY <1>1
<1> HIDE DEF h
<1>6. \A s \in h.seen : \E t \in Path : s = FileRecord(t)
  BY <1>1, <1>4
<1> QED BY <1>2, <1>4, <1>5, <1>6, ReadsFiles

LEMMA ScanStepOK ==
  ASSUME CatalogInv, NEW q \in Handler, ScanStep(q)
  PROVE  CatalogInv'
<1>1. HandlerAt(q, "scan") /\ UNCHANGED <<incoming, uploads, edits, acked, withdrawn>>
  BY DEF ScanStep
<1>2. /\ handling[q] \in HandlerRecord /\ raced \subseteq Path /\ acked \subseteq Content
  BY DEF CatalogInv, CatalogTypes
<1>3. CASE handling[q].seen = {}
  <2>1. HandlerEnds(q) /\ UNCHANGED <<listed, raced>>
    BY <1>3 DEF ScanStep
  <2> QED BY <1>1, <1>2, <2>1, EndsOK
<1>4. ASSUME NEW s \in handling[q].seen, Stale(q, s.path),
             IF CanUpsert(s.path)
             THEN listed' = Upserted(s, TRUE) /\ HandlerGoes(q, "scan", handling[q].seen \ {s})
             ELSE UNCHANGED listed /\ HandlerEnds(q)
      PROVE  CatalogInv'
  <2>1. s.path \in Path /\ handling[q].seen \ {s} \in SUBSET Seen
    BY <1>2 DEF HandlerRecord, Seen
  <2>2. raced \subseteq raced' /\ raced' \subseteq Path
    BY <1>2, <1>4, <2>1, StaleFacts
  <2>3. CASE ~CanUpsert(s.path)
    BY <1>1, <1>4, <2>2, <2>3, EndsOK
  <2>4. CASE CanUpsert(s.path)
    <3>1. listed' = Upserted(s, TRUE)
      BY <1>4, <2>4
    <3>2. PICK h \in HandlerRecord :
            /\ handling' = [handling EXCEPT ![q] = h]
            /\ h.stage = "scan" /\ h.seen = handling[q].seen \ {s}
      BY <1>4, <2>1, <2>4, GoesFacts DEF HandlerStage
    <3>3. h.stage \notin InOneGo \cup {"body"} /\ h.seen \subseteq handling[q].seen
      BY <3>2 DEF InOneGo
    <3>4. acked' \subseteq acked \cup {s.sha} /\ acked' \subseteq Content /\ s.sha \notin acked' \ acked
      BY <1>1, <1>2
    <3> QED BY <1>1, <1>4, <2>4, <3>1, <3>2, <3>3, <3>4, UpsertStep
  <2> QED BY <2>3, <2>4
<1>5. CASE handling[q].seen # {}
  BY <1>4, <1>5 DEF ScanStep
<1> QED BY <1>3, <1>5

LEMMA RegisteredOK ==
  ASSUME CatalogInv, NEW q \in Handler, Registered(q)
  PROVE  CatalogInv'
<1>1. HandlerEnds(q) /\ UNCHANGED <<incoming, uploads, edits, acked, withdrawn>>
  BY DEF Registered
<1>2. PICK s \in handling[q].seen :
        /\ listed' = IF CanUpsert(s.path) THEN Upserted(s, s.sha # NoContent) ELSE listed
        /\ Stale(q, s.path)
  BY DEF Registered
<1>3. /\ handling[q] \in HandlerRecord /\ raced \subseteq Path /\ acked \subseteq Content
  BY DEF CatalogInv, CatalogTypes
<1>4. s.path \in Path
  BY <1>3 DEF HandlerRecord, Seen
<1>5. raced \subseteq raced' /\ raced' \subseteq Path
  BY <1>2, <1>3, <1>4, StaleFacts
<1>6. CASE ~CanUpsert(s.path)
  BY <1>1, <1>2, <1>5, <1>6, EndsOK
<1>7. CASE CanUpsert(s.path)
  <2>1. listed' = Upserted(s, s.sha # NoContent) /\ (s.sha # NoContent) \in BOOLEAN
    BY <1>2, <1>7
  <2>2. /\ handling' = [handling EXCEPT ![q] = NoHandler] /\ NoHandler \in HandlerRecord
        /\ NoHandler.stage = "idle" /\ NoHandler.seen = {}
    BY <1>1, EndsFacts
  <2>3. NoHandler.stage \notin InOneGo \cup {"body"} /\ NoHandler.seen \subseteq handling[q].seen
    BY <2>2 DEF InOneGo
  <2>4. acked' \subseteq acked \cup {s.sha} /\ acked' \subseteq Content /\ s.sha \notin acked' \ acked
    BY <1>1, <1>3
  <2> QED BY <1>1, <1>2, <1>7, <2>1, <2>2, <2>3, <2>4, UpsertStep
<1> QED BY <1>6, <1>7

LEMMA RepointedOK ==
  ASSUME CatalogInv, NEW q \in Handler, Repointed(q)
  PROVE  CatalogInv'
<1>0. PICK i : i = handling[q].id
  OBVIOUS
<1>1. HandlerEnds(q) /\ UNCHANGED <<incoming, uploads, edits, acked>>
  BY DEF Repointed
<1>2. PICK s \in handling[q].seen :
        /\ IF listed[i] # NoRow /\ ListedAt(s.path) \subseteq {i}
           THEN /\ listed' = [listed EXCEPT ![i] =
                                [path |-> s.path, sha |-> s.sha, visible |-> s.sha # NoContent]]
                /\ withdrawn' = withdrawn \cup {listed[i].sha}
           ELSE UNCHANGED <<listed, withdrawn>>
        /\ Stale(q, s.path)
  BY <1>0 DEF Repointed
<1>3. /\ handling[q] \in HandlerRecord /\ raced \subseteq Path /\ acked \subseteq Content
      /\ withdrawn \subseteq Content \cup {NoContent, Partial}
      /\ listed \in [Path -> RowRecord \cup {NoRow}]
  BY DEF CatalogInv, CatalogTypes
<1>4. s.path \in Path /\ s.sha \in Content \cup {NoContent, Partial} /\ i \in Path \cup {<<NoContent, 0>>}
  BY <1>0, <1>3 DEF HandlerRecord, Seen
<1>5. /\ raced \subseteq raced' /\ raced' \subseteq Path
      /\ s.path \in raced' \/ \A o \in Handler \ {q} : \A t \in handling[o].seen : t.path # s.path
  BY <1>2, <1>3, <1>4, StaleFacts
<1>6. CASE ~(listed[i] # NoRow /\ ListedAt(s.path) \subseteq {i})
  BY <1>1, <1>2, <1>5, <1>6, EndsOK
<1>7. i \in Path
  BY <1>0, <1>3 DEF HandlerRecord, Repointed, HandlerAt
<1>8. CASE listed[i] # NoRow /\ ListedAt(s.path) \subseteq {i}
  <2> DEFINE r == [path |-> s.path, sha |-> s.sha, visible |-> s.sha # NoContent]
  <2>1. listed' = [listed EXCEPT ![i] = r] /\ withdrawn' = withdrawn \cup {listed[i].sha}
    BY <1>2, <1>8
  <2>2. r \in RowRecord /\ r.path = s.path /\ r.sha = s.sha
    BY <1>4 DEF RowRecord
  <2> HIDE DEF r
  <2>3. Monotone
    BY <1>1, <1>5, <2>1 DEF Monotone
  <2>4. IsRead(s)'
    BY <1>1, <1>4, <2>3, ReadStays DEF CatalogInv
  <2>5. IsRead(r)'
    BY <2>2, <2>4 DEF IsRead
  <2>6. /\ listed' \in [Path -> RowRecord \cup {NoRow}]
        /\ \A k \in Path : RowIsRead(k)'
        /\ ShownStays
        /\ \A p \in Path : HashedAt(p)' # {} => HashedAt(p) # {} \/ p = r.path
    BY <1>7, <1>8, <2>1, <2>2, <2>3, <2>5, RowWritten
  <2>7. listed[i].sha \in Content \cup {NoContent, Partial}
    BY <1>3, <1>7, <1>8 DEF RowRecord
  <2>8. /\ handling' = [handling EXCEPT ![q] = NoHandler] /\ NoHandler \in HandlerRecord
        /\ NoHandler.stage = "idle" /\ NoHandler.seen = {}
    BY <1>1, EndsFacts
  <2>9. /\ NoHandler.stage # "body" /\ NoHandler.stage \notin InOneGo
        /\ \A t \in NoHandler.seen : IsRead(t)'
    BY <2>8 DEF InOneGo
  <2>10. \A p \in Path : HashedAt(p)' # {} =>
           \/ HashedAt(p) # {} \/ p \in raced'
           \/ \A o \in Handler \ {q} : \A t \in handling[o].seen : t.path # p
    BY <1>5, <2>2, <2>6
  <2>11. /\ withdrawn \subseteq withdrawn' /\ withdrawn' \subseteq Content \cup {NoContent, Partial}
         /\ acked' \subseteq Content /\ \A c \in acked' \ acked : AckedIsShown(c)'
    BY <1>1, <1>3, <2>1, <2>7
  <2> QED BY <1>1, <1>5, <2>6, <2>8, <2>9, <2>10, <2>11, FilesStay
<1> QED BY <1>6, <1>8

\* A row that is hidden or removed gives up what it showed.
LEMMA EditRowOK ==
  ASSUME CatalogInv, EditRow
  PROVE  CatalogInv'
<1>1. PICK i \in Rows :
        /\ listed' \in {[listed EXCEPT ![i].visible = TRUE], [listed EXCEPT ![i].visible = FALSE],
                        [listed EXCEPT ![i] = NoRow]}
        /\ withdrawn' = IF listed'[i].visible THEN withdrawn ELSE withdrawn \cup {listed[i].sha}
  BY DEF EditRow
<1>2. UNCHANGED <<incoming, handling, uploads, raced, acked>>
  BY DEF EditRow
<1>3. /\ raced \subseteq Path /\ acked \subseteq Content /\ withdrawn \subseteq Content \cup {NoContent, Partial}
      /\ listed \in [Path -> RowRecord \cup {NoRow}]
  BY DEF CatalogInv, CatalogTypes
<1>4. i \in Path /\ listed[i] \in RowRecord /\ listed[i] # NoRow
  BY <1>1, <1>3 DEF Rows
<1>5. PICK r \in RowRecord \cup {NoRow} :
        /\ listed' = [listed EXCEPT ![i] = r]
        /\ r = NoRow \/ (r.path = listed[i].path /\ r.sha = listed[i].sha)
  <2>1. CASE listed' = [listed EXCEPT ![i] = NoRow]
    BY <2>1
  <2>2. ASSUME NEW v \in BOOLEAN, listed' = [listed EXCEPT ![i].visible = v]
        PROVE  \E r \in RowRecord : /\ listed' = [listed EXCEPT ![i] = r]
                                    /\ r.path = listed[i].path /\ r.sha = listed[i].sha
    <3> DEFINE r == [listed[i] EXCEPT !.visible = v]
    <3>1. r \in RowRecord /\ r.path = listed[i].path /\ r.sha = listed[i].sha
      BY <1>4 DEF RowRecord
    <3>2. listed' = [listed EXCEPT ![i] = r]
      BY <2>2
    <3> HIDE DEF r
    <3> QED BY <3>1, <3>2
  <2> QED BY <1>1, <2>1, <2>2
<1>6. /\ listed' \in [Path -> RowRecord \cup {NoRow}]
      /\ \A k \in Path : listed'[k] = IF k = i THEN r ELSE listed[k]
  BY <1>3, <1>5
<1>7. withdrawn \subseteq withdrawn' /\ withdrawn' \subseteq Content \cup {NoContent, Partial}
  BY <1>1, <1>3, <1>4 DEF RowRecord
<1>8. Monotone
  BY <1>2, <1>7 DEF Monotone
<1>9. ASSUME NEW k \in Path PROVE RowIsRead(k)'
  <2>1. listed'[k] # NoRow => /\ listed[k] # NoRow
                              /\ listed'[k].path = listed[k].path /\ listed'[k].sha = listed[k].sha
    BY <1>4, <1>5, <1>6
  <2> QED BY <1>2, <2>1 DEF CatalogInv, RowIsRead, IsRead
<1>10. ASSUME NEW c \in Content, NEW k \in ShownOf(c)
       PROVE  Excused(c)' \/ (k \in ShownOf(c)' /\ listed'[k].path = listed[k].path)
  <2>1. k \in Path /\ listed[k] # NoRow /\ listed[k].visible /\ listed[k].sha = c
    BY <1>10 DEF ShownOf, Rows
  <2>2. CASE k # i
    BY <1>6, <2>1, <2>2 DEF ShownOf, Rows
  <2>3. CASE k = i /\ ~listed'[i].visible
    BY <1>1, <2>1, <2>3 DEF Excused
  <2>4. CASE k = i /\ listed'[i].visible
    <3>1. r # NoRow
      BY <1>4, <1>6, <2>4 DEF NoRow
    <3> QED BY <1>4, <1>5, <1>6, <2>1, <2>4, <3>1 DEF ShownOf, Rows
  <2> QED BY <2>2, <2>3, <2>4
<1>11. ASSUME NEW o \in Handler PROVE LeavesOther(o)
  <2>1. handling \in [Handler -> HandlerRecord] /\ BodyIsPartial(o)
    BY DEF CatalogInv, CatalogTypes
  <2>2. \A p \in Path : HashedAt(p)' # {} => HashedAt(p) # {}
    BY <1>4, <1>5, <1>6 DEF HashedAt, ListedAt, Rows
  <2>3. \A s \in handling[o].seen : s.path \in Path
    BY <2>1 DEF HandlerRecord, Seen
  <2> QED BY <1>2, <2>1, <2>2, <2>3 DEF LeavesOther, BodyIsPartial
<1>12. CatalogTypes' /\ StampsAreFree'
  BY <1>2, <1>6, <1>7 DEF CatalogInv, CatalogTypes, StampsAreFree
<1>13. {} \in SUBSET Handler /\ acked' \ acked = {}
  BY <1>2
<1> QED BY <1>8, <1>9, <1>10, <1>11, <1>12, <1>13, CatalogStepOf DEF ShownStays

-----------------------------------------------------------------------------
(* The invariant and what follows from it                                   *)

LEMMA CatalogInitOK ==
  ASSUME CatalogInit
  PROVE  CatalogInv
<1>1. NoHandler \in HandlerRecord /\ NoHandler.stage = "idle" /\ NoHandler.seen = {}
  BY DEF NoHandler, HandlerRecord, HandlerStage
<1>2. CatalogTypes
  BY <1>1 DEF CatalogInit, CatalogTypes
<1>3. \A q \in Handler : handling[q] = NoHandler
  BY DEF CatalogInit
<1>4. StampsAreFree /\ acked = {} /\ \A i \in Path : RowIsRead(i)
  BY DEF CatalogInit, StampsAreFree, RowIsRead
<1>5. ASSUME NEW q \in Handler
      PROVE  /\ \A s \in handling[q].seen : IsRead(s)
             /\ BodyIsPartial(q) /\ RowIsAnothers(q) /\ CopyIsShown(q)
  BY <1>1, <1>3 DEF BodyIsPartial, RowIsAnothers, CopyIsShown, Receiving, Recording, InOneGo
<1>6. \A q, o \in Handler : BodiesApart(q, o)
  BY <1>1, <1>3 DEF BodiesApart, Receiving
<1> QED BY <1>2, <1>4, <1>5, <1>6 DEF CatalogInv

LEMMA CatalogStutterOK ==
  ASSUME CatalogInv, UNCHANGED catalogVars
  PROVE  CatalogInv'
BY DEF CatalogInv, catalogVars, CatalogTypes, StampsAreFree, RowIsRead, IsRead, BodyIsPartial,
       BodiesApart, RowIsAnothers, CopyIsShown, AckedIsShown, Excused, Receiving, Recording,
       HashedAt, ListedAt, ShownOf, Rows

LEMMA CatalogNextOK ==
  ASSUME CatalogInv, [CatalogNext]_catalogVars
  PROVE  CatalogInv'
<1>1. CASE UNCHANGED catalogVars
  BY <1>1, CatalogStutterOK
<1>2. CASE EditRow
  BY <1>2, EditRowOK
<1>3. ASSUME NEW q \in Handler,
             \/ UploadBegins(q) \/ UploadEnds(q) \/ LookupDuplicate(q) \/ UploadRecorded(q)
             \/ ScanBegins(q) \/ ScanStep(q)
             \/ RegisterBegins(q) \/ Registered(q) \/ RepointBegins(q) \/ Repointed(q)
      PROVE  CatalogInv'
  <2>1. CASE UploadBegins(q)
    BY <2>1, UploadBeginsOK
  <2>2. CASE UploadEnds(q)
    BY <2>2, UploadEndsOK
  <2>3. CASE LookupDuplicate(q)
    BY <2>3, LookupOK
  <2>4. CASE UploadRecorded(q)
    BY <2>4, RecordedOK
  <2>5. CASE ScanBegins(q)
    BY <2>5, ScanBeginsOK
  <2>6. CASE ScanStep(q)
    BY <2>6, ScanStepOK
  <2>7. CASE RegisterBegins(q)
    BY <2>7, RegisterBeginsOK
  <2>8. CASE Registered(q)
    BY <2>8, RegisteredOK
  <2>9. CASE RepointBegins(q)
    BY <2>9, RepointBeginsOK
  <2>10. CASE Repointed(q)
    BY <2>10, RepointedOK
  <2> QED BY <1>3, <2>1, <2>2, <2>3, <2>4, <2>5, <2>6, <2>7, <2>8, <2>9, <2>10
<1> QED BY <1>1, <1>2, <1>3 DEF CatalogNext

LEMMA CatalogKeepsInv == CatalogSpec => []CatalogInv
<1>1. CatalogInit => CatalogInv
  BY CatalogInitOK
<1>2. CatalogInv /\ [CatalogNext]_catalogVars => CatalogInv'
  BY CatalogNextOK
<1> QED BY <1>1, <1>2, PTL DEF CatalogSpec

\* The incoming directory, the rows and the requests stay in their types: a row is
\* of a path the server made, with the hash of a file, if it found one.
THEOREM CatalogTyped == CatalogSpec => []CatalogTypeOK
<1>1. CatalogInv => CatalogTypeOK
  BY DEF CatalogInv, CatalogTypes, CatalogTypeOK, RowRecord, HandlerRecord, HandlerStage
<1> QED BY <1>1, CatalogKeepsInv, PTL

\* A visible row that has a hash tells the content its file has, and a content whose
\* upload was answered with ok stays on offer until an operator takes it away:
\* hide_duplicate_input_file never hides the last copy.  Excepted are paths written
\* while another request had read them (upload_input_file, scan_input_files,
\* update_input_file).
THEOREM ListedStaysStored == CatalogSpec => []ListedAsStored
<1>1. ASSUME CatalogInv PROVE ListedAsStored
  <2>1. ASSUME NEW i \in Rows, listed[i].visible, listed[i].sha # NoContent,
               listed[i].path \notin raced
        PROVE  incoming[listed[i].path] = listed[i].sha
    <3>1. i \in Path /\ listed[i] # NoRow
      BY <2>1 DEF Rows
    <3>2. RowIsRead(i)
      BY <1>1, <3>1 DEF CatalogInv
    <3> QED BY <2>1, <3>1, <3>2 DEF RowIsRead, IsRead
  <2>2. ASSUME NEW c \in acked \ withdrawn, \A p \in raced : incoming[p] # c
        PROVE  ShownOf(c) # {}
    <3>1. AckedIsShown(c)
      BY <1>1 DEF CatalogInv
    <3> QED BY <2>2, <3>1 DEF AckedIsShown, Excused
  <2> QED BY <2>1, <2>2 DEF ListedAsStored
<1> QED BY <1>1, CatalogKeepsInv, PTL

-----------------------------------------------------------------------------
(***************************************************************************)
(* The runs over them (RfRuns).                                             *)
(***************************************************************************)

File      == Input \cup {Nothing}
Selection == [badge : File, survey : File, csv : File]
Artifacts == [badge : File, survey : File, template : Selection, matches : Selection]
Outputs   == [parsed : Artifacts, sql : Artifacts]

\* The stages of an execution, in order, and its failure.
AtWork == {"preflight", "inputs", "badge", "survey", "template", "correlate", "emit",
           "preserve", "replace", "complete", "failed"}
Requests == [stage : {"idle", "attach"} \cup AtWork, run : Run \cup {Nothing},
             input : File, files : SUBSET Input, saved : SUBSET Identity]

TypeOK ==
  /\ row \in [Run -> [status : Status \cup Patched, hidden : BOOLEAN]]
  /\ attached \in [Run -> SUBSET Input]
  /\ disk \in [Input -> {"good", "bad", "gone"}]
  /\ available \in [Input -> BOOLEAN]
  /\ out \in [Run -> Outputs]
  /\ candidate \in [Run -> [Identity -> {"none", "pending", "complete"}]]
  /\ match \in [Run -> [Identity -> {"none", "csv", "entered"}]]
  /\ observation \in [Run -> SUBSET Identity]
  /\ loaded \in [Run -> Selection]
  /\ request \in [Request -> Requests]
  /\ \A q \in Request : /\ request[q].stage # "idle" => request[q].run \in Run
                        /\ request[q].stage = "attach" => request[q].input \in Input

\* Nothing is marked complete without a match of its own run.
CompleteHasMatch ==
  \A r \in Run, k \in Identity : candidate[r][k] = "complete" => match[r][k] # "none"

\* A run that is alone has one execution.
OneExecution ==
  \A p, q \in Request :
    /\ request[p].stage \in AtWork /\ request[q].stage \in AtWork
    /\ request[p].run = request[q].run /\ request[p].run \in alone
    => p = q

\* What an execution that is alone at its run has left of its files so far.
Leaves(q) ==
  LET r == request[q].run
      s == request[q].stage
      c == Chosen(q)
      o == out[r]
  IN s \in AtWork /\ r \in alone =>
       /\ s \in {"survey", "template", "correlate", "emit"} => o.parsed.badge = c.badge
       /\ s \in {"template", "correlate", "emit"} => o.parsed.survey = c.survey
       /\ s \in {"correlate", "emit"} =>
            o.parsed.template = [badge |-> c.badge, survey |-> c.survey, csv |-> Nothing]
       /\ s = "emit" => o.parsed.matches = c
       /\ s \in {"preserve", "replace"} =>
            o.sql.badge = c.badge /\ o.sql.survey = c.survey /\ o.sql.matches = c
       /\ s = "complete" /\ Exists(r) => loaded[r] = c

IInv ==
  /\ TypeOK
  /\ CompleteHasMatch
  /\ OneExecution
  /\ \A q \in Request : Leaves(q)

-----------------------------------------------------------------------------
(* Files and requests.                                                      *)

LEMMA TheOneType ==
  ASSUME NEW fs \in SUBSET Input, NEW role
  PROVE  TheOne(fs, role) \in File
<1>1. CASE Only(fs, role) = {}
  BY <1>1 DEF TheOne, File
<1>2. CASE Only(fs, role) # {}
  BY <1>2 DEF TheOne, Only, File
<1>3. QED
  BY <1>1, <1>2

LEMMA ChosenType ==
  ASSUME NEW q \in Request, request[q].files \in SUBSET Input
  PROVE  Chosen(q) \in Selection
BY TheOneType DEF Chosen, Selection

LEMMA IdleType == Idle \in Requests
BY DEF Idle, Requests, File

LEMMA NothingLoaded == NoSelection \in Selection /\ NoOutput \in Outputs
BY DEF NoSelection, NoOutput, NoArtifacts, Selection, Outputs, Artifacts, File

\* Moving a request to another stage keeps everything else of it.
LEMMA GotoMoves ==
  ASSUME TypeOK, NEW q \in Request, NEW stage \in AtWork, Goto(q, stage),
         request[q].stage # "idle"
  PROVE  /\ request' \in [Request -> Requests]
         /\ request'[q] = [request[q] EXCEPT !.stage = stage]
         /\ \A p \in Request : p # q => request'[p] = request[p]
         /\ \A p \in Request : /\ request'[p].stage # "idle" => request'[p].run \in Run
                               /\ request'[p].stage = "attach" => request'[p].input \in Input
<1> stage \notin {"idle", "attach"} /\ stage \in {"idle", "attach"} \cup AtWork
  BY DEF AtWork
<1>1. request \in [Request -> Requests] /\ request[q].run \in Run
  BY DEF TypeOK
<1>2. /\ request' = [request EXCEPT ![q] = [request[q] EXCEPT !.stage = stage]]
      /\ [request[q] EXCEPT !.stage = stage] \in Requests
  BY <1>1 DEF Goto, Requests
<1>3. /\ [request[q] EXCEPT !.stage = stage].stage = stage
      /\ [request[q] EXCEPT !.stage = stage].run = request[q].run
  BY <1>1 DEF Requests
<1> HIDE DEF Requests
<1>4. QED
  BY <1>1, <1>2, <1>3 DEF TypeOK

LEMMA FinishMoves ==
  ASSUME TypeOK, NEW q \in Request, Finish(q)
  PROVE  /\ request' \in [Request -> Requests]
         /\ request'[q] = Idle
         /\ \A p \in Request : p # q => request'[p] = request[p]
         /\ \A p \in Request : /\ request'[p].stage # "idle" => request'[p].run \in Run
                               /\ request'[p].stage = "attach" => request'[p].input \in Input
BY IdleType DEF Finish, TypeOK, Idle

\* What a program leaves of the outputs.
\* A program puts content into one of the parsed artifacts of the run.
Writes(r, artifact, content) == out' = [out EXCEPT ![r].parsed[artifact] = content]

LEMMA OneOutput ==
  ASSUME NEW f \in [Run -> Outputs], NEW r \in Run, NEW o \in Outputs
  PROVE  /\ [f EXCEPT ![r] = o] \in [Run -> Outputs]
         /\ [f EXCEPT ![r] = o][r] = o
         /\ \A s \in Run : s # r => [f EXCEPT ![r] = o][s] = f[s]
OBVIOUS

LEMMA FileWritten ==
  ASSUME TypeOK, NEW r \in Run, NEW artifact \in {"badge", "survey"}, NEW content \in File,
         Writes(r, artifact, content)
  PROVE  /\ out' \in [Run -> Outputs]
         /\ out'[r].parsed[artifact] = content
         /\ \A a \in {"badge", "survey", "template", "matches"} :
              a # artifact => out'[r].parsed[a] = out[r].parsed[a]
         /\ \A s \in Run : s # r => out'[s] = out[s]
<1> DEFINE parsed == [out[r].parsed EXCEPT ![artifact] = content]
           o == [out[r] EXCEPT !.parsed = parsed]
<1>1. out[r] \in Outputs /\ out[r].parsed \in Artifacts
  BY DEF TypeOK, Outputs
<1>2. /\ parsed \in Artifacts /\ parsed[artifact] = content
      /\ \A a \in {"badge", "survey", "template", "matches"} :
           a # artifact => parsed[a] = out[r].parsed[a]
  BY <1>1 DEF Artifacts
<1>3. out' = [out EXCEPT ![r] = o]
  BY DEF Writes
<1> HIDE DEF parsed
<1>4. o \in Outputs /\ o.parsed = parsed
  BY <1>1, <1>2 DEF Outputs
<1> HIDE DEF o
<1>5. out' \in [Run -> Outputs] /\ out'[r] = o /\ \A s \in Run : s # r => out'[s] = out[s]
  <2>1. out \in [Run -> Outputs]
    BY DEF TypeOK
  <2>2. QED
    BY <1>3, <1>4, <2>1, OneOutput
<1>6. QED
  BY <1>2, <1>4, <1>5

LEMMA SelectionWritten ==
  ASSUME TypeOK, NEW r \in Run, NEW artifact \in {"template", "matches"},
         NEW content \in Selection,
         Writes(r, artifact, content)
  PROVE  /\ out' \in [Run -> Outputs]
         /\ out'[r].parsed[artifact] = content
         /\ \A a \in {"badge", "survey", "template", "matches"} :
              a # artifact => out'[r].parsed[a] = out[r].parsed[a]
         /\ \A s \in Run : s # r => out'[s] = out[s]
<1> DEFINE parsed == [out[r].parsed EXCEPT ![artifact] = content]
           o == [out[r] EXCEPT !.parsed = parsed]
<1>1. out[r] \in Outputs /\ out[r].parsed \in Artifacts
  BY DEF TypeOK, Outputs
<1>2. /\ parsed \in Artifacts /\ parsed[artifact] = content
      /\ \A a \in {"badge", "survey", "template", "matches"} :
           a # artifact => parsed[a] = out[r].parsed[a]
  BY <1>1 DEF Artifacts
<1>3. out' = [out EXCEPT ![r] = o]
  BY DEF Writes
<1> HIDE DEF parsed
<1>4. o \in Outputs /\ o.parsed = parsed
  BY <1>1, <1>2 DEF Outputs
<1> HIDE DEF o
<1>5. out' \in [Run -> Outputs] /\ out'[r] = o /\ \A s \in Run : s # r => out'[s] = out[s]
  <2>1. out \in [Run -> Outputs]
    BY DEF TypeOK
  <2>2. QED
    BY <1>3, <1>4, <2>1, OneOutput
<1>6. QED
  BY <1>2, <1>4, <1>5

-----------------------------------------------------------------------------
(* Steps that leave the database and the outputs alone.                     *)

\* What an invariant about an execution needs of a step that is not its own.
LEMMA LeavesStays ==
  ASSUME NEW q \in Request, Leaves(q), request'[q] = request[q],
         LET r == request[q].run IN
         request[q].stage \in AtWork /\ r \in alone' =>
           /\ r \in alone
           /\ out'[r] = out[r]
           /\ request[q].stage = "complete" /\ Exists(r)' => Exists(r) /\ loaded'[r] = loaded[r]
  PROVE  Leaves(q)'
<1> Chosen(q)' = Chosen(q)
  BY DEF Chosen
<1> HIDE DEF Chosen
<1> QED
  BY DEF Leaves

LEMMA RowStep ==
  ASSUME IInv, NEW r \in Run, Exists(r),
         \E status \in Status \cup Patched, hidden \in BOOLEAN :
           row' = [row EXCEPT ![r] = [status |-> status, hidden |-> hidden]],
         UNCHANGED <<files, out, db, request, alone>>
  PROVE  IInv'
<1>1. TypeOK'
  BY DEF IInv, TypeOK, files, db
<1>2. CompleteHasMatch' /\ OneExecution'
  BY DEF IInv, CompleteHasMatch, OneExecution, db
<1>3. \A s \in Run : Exists(s)' => Exists(s)
  BY DEF IInv, TypeOK, Exists
<1>4. ASSUME NEW q \in Request PROVE Leaves(q)'
  <2>1. request[q].stage \in AtWork => request[q].run \in Run
    BY DEF IInv, TypeOK, AtWork
  <2>2. QED
    BY <1>3, <2>1, LeavesStays DEF IInv, db
<1>5. QED
  BY <1>1, <1>2, <1>4 DEF IInv

\* A step that changes neither runs nor outputs nor what a request works with.
LEMMA QuietStep ==
  ASSUME IInv, TypeOK', CompleteHasMatch', UNCHANGED <<row, out, loaded, request, alone>>
  PROVE  IInv'
<1>1. OneExecution'
  BY DEF IInv, OneExecution
<1>2. ASSUME NEW q \in Request PROVE Leaves(q)'
  BY LeavesStays DEF IInv, Exists
<1>3. QED
  BY <1>1, <1>2 DEF IInv

LEMMA FilesStep ==
  ASSUME IInv,
         \/ \E r \in Run : RemoveFile(r)
         \/ \E i \in Fragile : Damage(i)
  PROVE  IInv'
<1>1. attached' \in [Run -> SUBSET Input] /\ disk' \in [Input -> {"good", "bad", "gone"}]
  <2>1. CASE \E r \in Run : RemoveFile(r)
    <3> PICK r \in Run : RemoveFile(r)
      BY <2>1
    <3>1. PICK i \in attached[r] : attached' = [attached EXCEPT ![r] = @ \ {i}]
      BY DEF RemoveFile
    <3>2. QED
      BY <3>1 DEF IInv, TypeOK, RemoveFile
  <2>2. CASE \E i \in Fragile : Damage(i)
    <3> PICK i \in Fragile : Damage(i)
      BY <2>2
    <3>1. disk' = [disk EXCEPT ![i] = "bad"] \/ disk' = [disk EXCEPT ![i] = "gone"]
      BY DEF Damage
    <3>2. QED
      BY <3>1 DEF IInv, TypeOK, Damage
  <2>3. QED
    BY <2>1, <2>2
<1> TypeOK'
  BY <1>1 DEF IInv, TypeOK, RemoveFile, Damage, db
<1>2. CompleteHasMatch'
  BY DEF IInv, CompleteHasMatch, RemoveFile, Damage, db
<1>3. UNCHANGED <<row, out, loaded, request, alone>>
  BY DEF RemoveFile, Damage, db
<1>4. QED
  BY <1>2, <1>3, QuietStep

LEMMA EntryStep ==
  ASSUME IInv, NEW r \in Run, NEW k \in Identity, SubmitEntry(r, k) \/ ResetEntry(r, k)
  PROVE  IInv'
<1> USE DEF IInv
<1>1. CASE SubmitEntry(r, k)
  <2>1. TypeOK'
    BY <1>1 DEF TypeOK, SubmitEntry, files
  <2>2. CompleteHasMatch'
    BY <1>1 DEF TypeOK, CompleteHasMatch, SubmitEntry
  <2>3. QED
    BY <1>1, <2>1, <2>2, QuietStep DEF SubmitEntry
<1>2. CASE ResetEntry(r, k)
  <2>1. TypeOK'
    BY <1>2 DEF TypeOK, ResetEntry, files
  <2>2. CompleteHasMatch'
    BY <1>2 DEF TypeOK, CompleteHasMatch, ResetEntry
  <2>3. QED
    BY <1>2, <2>1, <2>2, QuietStep DEF ResetEntry
<1>3. QED
  BY <1>1, <1>2

LEMMA RemoveStep ==
  ASSUME IInv, NEW r \in Run, RemoveRun(r)
  PROVE  IInv'
<1>1. TypeOK'
  BY NothingLoaded DEF IInv, TypeOK, RemoveRun, Cleared, Status
<1>2. CompleteHasMatch'
  BY DEF IInv, TypeOK, CompleteHasMatch, RemoveRun, Cleared
<1>3. OneExecution'
  BY DEF IInv, OneExecution, RemoveRun
<1>4. \A s \in Run : Exists(s)' => Exists(s) /\ loaded'[s] = loaded[s]
  BY DEF IInv, TypeOK, Exists, RemoveRun, Cleared
<1>5. ASSUME NEW q \in Request PROVE Leaves(q)'
  <2>1. request[q].stage \in AtWork => request[q].run \in Run
    BY DEF IInv, TypeOK, AtWork
  <2>2. QED
    BY <1>4, <2>1, LeavesStays DEF IInv, RemoveRun
<1>6. QED
  BY <1>1, <1>2, <1>3, <1>5 DEF IInv

LEMMA RestartStep ==
  ASSUME IInv, Restart
  PROVE  IInv'
<1>1. TypeOK'
  BY IdleType DEF IInv, TypeOK, Restart, files, db, Idle
<1>2. CompleteHasMatch'
  BY DEF IInv, CompleteHasMatch, Restart, db
<1>3. \A q \in Request : request'[q].stage \notin AtWork
  BY DEF Restart, Idle, AtWork
<1>4. QED
  BY <1>1, <1>2, <1>3 DEF IInv, OneExecution, Leaves

-----------------------------------------------------------------------------
(* Requests that attach a file, and executions that begin.                  *)

LEMMA AttachStep ==
  ASSUME IInv, NEW q \in Request,
         \/ \E r \in Run : AddFile(q, r)
         \/ Attach(q)
  PROVE  IInv'
<1>1. TypeOK' /\ (\A p \in Request : p # q => request'[p] = request[p])
              /\ request'[q].stage \in {"idle", "attach"}
  <2>1. CASE \E r \in Run : AddFile(q, r)
    <3> PICK r \in Run : AddFile(q, r)
      BY <2>1
    <3> PICK i \in Input :
          \/ available' = [available EXCEPT ![i] = FALSE] /\ request' = request
          \/ /\ request' = [request EXCEPT ![q] =
                  [Idle EXCEPT !.stage = "attach", !.run = r, !.input = i]]
             /\ available' = available
      BY DEF AddFile
    <3> DEFINE attach == [Idle EXCEPT !.stage = "attach", !.run = r, !.input = i]
    <3>1. /\ attach \in Requests
          /\ attach.stage = "attach" /\ attach.run = r /\ attach.input = i
          /\ request' = request \/ request' = [request EXCEPT ![q] = attach]
      BY DEF Idle, Requests, File
    <3> HIDE DEF attach
    <3>2. request' \in [Request -> Requests]
      BY <3>1 DEF IInv, TypeOK
    <3>3. \A p \in Request : p # q => request'[p] = request[p]
      BY DEF IInv, TypeOK
    <3>4. /\ request'[q].stage \in {"idle", "attach"}
          /\ request'[q].stage = "attach" => request'[q].run \in Run /\ request'[q].input \in Input
      BY <3>1 DEF IInv, TypeOK, AddFile, At
    <3>5. UNCHANGED <<row, attached, disk, out, candidate, match, observation, loaded>>
      BY DEF AddFile, db
    <3>6. available' \in [Input -> BOOLEAN]
      BY DEF IInv, TypeOK
    <3>7. QED
      BY <3>2, <3>3, <3>4, <3>5, <3>6 DEF IInv, TypeOK
  <2>2. CASE Attach(q)
    <3>1. request[q].run \in Run /\ request[q].input \in Input
      BY <2>2 DEF IInv, TypeOK, Attach, At
    <3>2. attached' \in [Run -> SUBSET Input]
      BY <2>2, <3>1 DEF IInv, TypeOK, Attach
    <3>3. UNCHANGED <<row, disk, available, out, candidate, match, observation, loaded>>
      BY <2>2 DEF Attach, db
    <3>4. QED
      BY <2>2, <3>2, <3>3, FinishMoves DEF IInv, TypeOK, Attach, Idle
  <2>3. QED
    BY <2>1, <2>2
<1>2. UNCHANGED <<row, out, candidate, match, loaded, alone>>
  BY DEF AddFile, Attach, db
<1>3. request'[q].stage \notin AtWork
  BY <1>1 DEF AtWork
<1>4. OneExecution'
  BY <1>1, <1>2, <1>3 DEF IInv, OneExecution
<1>5. ASSUME NEW p \in Request PROVE Leaves(p)'
  <2>1. CASE p = q
    BY <1>3, <2>1 DEF Leaves
  <2>2. CASE p # q
    BY <1>1, <1>2, <2>2, LeavesStays DEF IInv, Exists
  <2>3. QED
    BY <2>1, <2>2
<1>6. QED
  BY <1>1, <1>2, <1>4, <1>5 DEF IInv, CompleteHasMatch

LEMMA ExecuteStep ==
  ASSUME IInv, NEW q \in Request, NEW r \in Run, Execute(q, r)
  PROVE  IInv'
<1> DEFINE begun == [Idle EXCEPT !.stage = "preflight", !.run = r, !.files = attached[r]]
<1>1. /\ begun \in Requests /\ begun.stage = "preflight" /\ begun.run = r
      /\ request' = [request EXCEPT ![q] = begun]
  BY DEF IInv, TypeOK, Execute, Idle, Requests, File, AtWork
<1> HIDE DEF begun
<1>2. /\ request' \in [Request -> Requests] /\ request'[q] = begun
      /\ \A p \in Request : p # q => request'[p] = request[p]
  BY <1>1 DEF IInv, TypeOK
<1>3. UNCHANGED <<row, attached, available, disk, out, candidate, match, observation, loaded>>
  BY DEF Execute, files, db
<1>4. TypeOK'
  BY <1>1, <1>2, <1>3 DEF IInv, TypeOK
<1>5. \A p \in Request : Executing(p, r) <=> request[p].stage \in AtWork /\ request[p].run = r
  BY DEF IInv, TypeOK, Executing, Requests, AtWork
<1>6. /\ r \in alone' => \A p \in Request : ~Executing(p, r)
      /\ \A s \in Run : s # r => (s \in alone' <=> s \in alone)
      /\ alone' \subseteq alone \cup {r}
  BY DEF Execute
<1>7. OneExecution'
  BY <1>1, <1>2, <1>5, <1>6 DEF IInv, OneExecution
<1>8. ASSUME NEW p \in Request PROVE Leaves(p)'
  <2>1. CASE p = q
    BY <1>1, <1>2, <2>1 DEF Leaves
  <2>2. CASE p # q
    <3>1. request[p].stage \in AtWork /\ request[p].run \in alone' => request[p].run \in alone
      BY <1>5, <1>6
    <3>2. QED
      BY <1>2, <1>3, <2>2, <3>1, LeavesStays DEF IInv, Exists
  <2>3. QED
    BY <2>1, <2>2
<1>9. QED
  BY <1>3, <1>4, <1>7, <1>8 DEF IInv, CompleteHasMatch

-----------------------------------------------------------------------------
(* Steps of an execution.                                                   *)

\* What they share: other executions of the run are there only if it is not
\* alone, and those of other runs see nothing of it.
LEMMA WorkStep ==
  ASSUME IInv, TypeOK', CompleteHasMatch',
         NEW q \in Request, request[q].stage \in AtWork, alone' = alone,
         \A p \in Request : p # q => request'[p] = request[p],
         \A s \in Run : s # request[q].run =>
           out'[s] = out[s] /\ loaded'[s] = loaded[s] /\ row'[s] = row[s],
         \/ request'[q] = Idle
         \/ request'[q].run = request[q].run /\ Leaves(q)'
  PROVE  IInv'
<1>1. request'[q] = Idle => request'[q].stage \notin AtWork
  BY DEF Idle, AtWork
<1>2. OneExecution'
  BY <1>1 DEF IInv, OneExecution
<1>3. ASSUME NEW p \in Request PROVE Leaves(p)'
  <2>1. CASE p = q
    BY <1>1, <2>1 DEF Leaves
  <2>2. CASE p # q
    <3>1. CASE request[p].stage \in AtWork /\ request[p].run \in alone
      <4>1. request[p].run # request[q].run
        BY <2>2, <3>1 DEF IInv, OneExecution
      <4>2. request[p].run \in Run
        BY <3>1 DEF IInv, TypeOK, AtWork
      <4>3. QED
        BY <2>2, <4>1, <4>2, LeavesStays DEF IInv, Exists
    <3>2. CASE ~(request[p].stage \in AtWork /\ request[p].run \in alone)
      BY <2>2, <3>2 DEF Leaves
    <3>3. QED
      BY <3>1, <3>2
  <2>3. QED
    BY <2>1, <2>2
<1>4. QED
  BY <1>2, <1>3 DEF IInv

\* An execution that goes on still works with the files it has read.
LEMMA ExecutionMoves ==
  ASSUME IInv, NEW q \in Request, NEW stage \in AtWork, request[q].stage \in AtWork,
         Goto(q, stage)
  PROVE  /\ request[q].run \in Run /\ Chosen(q) \in Selection
         /\ request'[q].stage = stage /\ request'[q].run = request[q].run
         /\ request'[q].files = request[q].files /\ request'[q].saved = request[q].saved
         /\ Chosen(q)' = Chosen(q)
         /\ request' \in [Request -> Requests]
         /\ \A p \in Request : p # q => request'[p] = request[p]
         /\ \A p \in Request : /\ request'[p].stage # "idle" => request'[p].run \in Run
                               /\ request'[p].stage = "attach" => request'[p].input \in Input
<1>1. request[q].stage # "idle"
  BY DEF AtWork
<1>2. /\ request[q] \in Requests /\ request[q].run \in Run
      /\ request[q].files \in SUBSET Input
  BY <1>1 DEF IInv, TypeOK, Requests
<1>3. /\ request' \in [Request -> Requests]
      /\ request'[q] = [request[q] EXCEPT !.stage = stage]
      /\ \A p \in Request : p # q => request'[p] = request[p]
      /\ \A p \in Request : /\ request'[p].stage # "idle" => request'[p].run \in Run
                            /\ request'[p].stage = "attach" => request'[p].input \in Input
  BY <1>1, GotoMoves DEF IInv
<1>4. /\ request'[q].stage = stage /\ request'[q].run = request[q].run
      /\ request'[q].files = request[q].files /\ request'[q].saved = request[q].saved
  BY <1>2, <1>3 DEF Requests
<1>5. Chosen(q)' = Chosen(q)
  BY <1>4 DEF Chosen
<1>6. Chosen(q) \in Selection
  BY <1>2, ChosenType
<1>7. QED
  BY <1>2, <1>3, <1>4, <1>5, <1>6

LEMMA StatusSet ==
  ASSUME TypeOK, NEW r \in Run, NEW status \in Status, SetStatus(r, status)
  PROVE  /\ row' \in [Run -> [status : Status \cup Patched, hidden : BOOLEAN]]
         /\ Exists(r)' => Exists(r)
         /\ \A s \in Run : s # r => row'[s] = row[s]
<1>1. CASE Exists(r)
  <2>1. row' = [row EXCEPT ![r] = [row[r] EXCEPT !.status = status]]
    BY <1>1 DEF SetStatus
  <2>2. [row[r] EXCEPT !.status = status] \in [status : Status \cup Patched, hidden : BOOLEAN]
    <3>1. row[r] \in [status : Status \cup Patched, hidden : BOOLEAN]
      BY DEF TypeOK
    <3>2. QED
      BY <3>1
  <2>3. QED
    BY <1>1, <2>1, <2>2 DEF TypeOK
<1>2. CASE ~Exists(r)
  BY <1>2 DEF SetStatus, TypeOK, Exists
<1>3. QED
  BY <1>1, <1>2

\* Steps before and after the programs.
LEMMA StatusStep ==
  ASSUME IInv, NEW q \in Request, Preflight(q) \/ Inputs(q) \/ End(q)
  PROVE  IInv'
<1> DEFINE r == request[q].run
<1>1. request[q].stage \in AtWork /\ r \in Run
  BY DEF Preflight, Inputs, End, At, AtWork, IInv, TypeOK
<1>2. UNCHANGED <<attached, available, disk, out, candidate, match, observation, loaded, alone>>
  BY DEF Preflight, Inputs, End, files, db
<1>3. /\ row' \in [Run -> [status : Status \cup Patched, hidden : BOOLEAN]]
      /\ \A s \in Run : s # r => row'[s] = row[s]
  <2>1. row' = row \/ \E status \in Status : SetStatus(r, status)
    BY DEF Preflight, Inputs, End, Status
  <2>2. QED
    BY <1>1, <2>1, StatusSet DEF IInv, TypeOK
<1>4. Finish(q) \/ \E stage \in {"inputs", "badge", "failed"} : Goto(q, stage)
  BY DEF Preflight, Inputs, End, Fail
<1>5. CompleteHasMatch'
  BY <1>2 DEF IInv, CompleteHasMatch
<1>6. CASE Finish(q)
  <2>1. TypeOK'
    BY <1>2, <1>3, <1>6, FinishMoves DEF IInv, TypeOK
  <2>2. QED
    BY <1>1, <1>2, <1>3, <1>5, <1>6, <2>1, WorkStep, FinishMoves DEF IInv
<1>7. ASSUME NEW stage \in {"inputs", "badge", "failed"}, Goto(q, stage)
      PROVE  IInv'
  <2>1. stage \in AtWork
    BY DEF AtWork
  <2>2. TypeOK'
    BY <1>1, <1>2, <1>3, <1>7, <2>1, ExecutionMoves DEF IInv, TypeOK
  <2>3. request'[q].stage = stage /\ request'[q].run = r
    BY <1>1, <1>7, <2>1, ExecutionMoves
  <2>4. Leaves(q)'
    BY <2>3 DEF Leaves
  <2>5. \A p \in Request : p # q => request'[p] = request[p]
    BY <1>1, <1>7, <2>1, ExecutionMoves
  <2>6. QED
    BY <1>1, <1>2, <1>3, <1>5, <2>2, <2>3, <2>4, <2>5, WorkStep
<1>8. QED
  BY <1>4, <1>6, <1>7

\* A step of an execution that changes outputs or nothing, and is right about
\* what it leaves.
LEMMA ProgramStep ==
  ASSUME IInv, NEW q \in Request, NEW stage \in AtWork, request[q].stage \in AtWork,
         Goto(q, stage), UNCHANGED <<row, files, db, alone>>,
         out' \in [Run -> Outputs],
         \A s \in Run : s # request[q].run => out'[s] = out[s],
         Leaves(q)'
  PROVE  IInv'
<1>1. TypeOK'
  BY ExecutionMoves DEF IInv, TypeOK, files, db
<1>2. CompleteHasMatch'
  BY DEF IInv, CompleteHasMatch, db
<1>3. /\ request'[q].run = request[q].run
      /\ \A p \in Request : p # q => request'[p] = request[p]
  BY ExecutionMoves
<1>4. QED
  BY <1>1, <1>2, <1>3, WorkStep DEF db

LEMMA FailStep ==
  ASSUME IInv, NEW q \in Request, request[q].stage \in AtWork, Fail(q),
         UNCHANGED <<row, files, db, out, alone>>
  PROVE  IInv'
<1>1. Goto(q, "failed") /\ "failed" \in AtWork
  BY DEF Fail, AtWork
<1>2. request'[q].stage = "failed"
  BY <1>1, ExecutionMoves
<1>3. Leaves(q)'
  BY <1>2 DEF Leaves
<1>4. QED
  BY <1>1, <1>3, ProgramStep DEF IInv, TypeOK

LEMMA ParseBadgeStep ==
  ASSUME IInv, NEW q \in Request, ParseBadge(q)
  PROVE  IInv'
<1> DEFINE r == request[q].run
           c == Chosen(q)
<1>1. request[q].stage = "badge" /\ "badge" \in AtWork /\ "survey" \in AtWork
  BY DEF ParseBadge, Step, At, AtWork
<1>2. UNCHANGED <<row, files, db, alone>>
  BY DEF ParseBadge, Step
<1>3. CASE Fail(q) /\ UNCHANGED out
  BY <1>1, <1>2, <1>3, FailStep, Zenon
<1>4. ASSUME NEW content,
             content = Chosen(q).badge,
             Writes(r, "badge", content), Goto(q, "survey")
      PROVE  IInv'
  <2>1. /\ r \in Run /\ c \in Selection
        /\ request'[q].stage = "survey" /\ request'[q].run = r /\ Chosen(q)' = c
    BY <1>1, <1>4, ExecutionMoves
  <2> HIDE DEF c
  <2>2. content \in File
    BY <1>4, <2>1 DEF Selection, c
  <2>3. TypeOK
    BY DEF IInv
  <2>4. /\ out' \in [Run -> Outputs]
        /\ out'[r].parsed["badge"] = content
        /\ \A a \in {"badge", "survey", "template", "matches"} :
             a # "badge" => out'[r].parsed[a] = out[r].parsed[a]
        /\ \A s \in Run : s # r => out'[s] = out[s]
    BY <1>4, <2>1, <2>2, <2>3, FileWritten
  <2>5. alone' = alone
    BY <1>2
  <2>6. ASSUME r \in alone
        PROVE  out'[r].parsed.badge = c.badge
    BY <1>4, <2>4 DEF c
  <2>7. Leaves(q)'
    BY <2>1, <2>5, <2>6 DEF Leaves
  <2>8. QED
    BY <1>1, <1>2, <1>4, <2>4, <2>7, ProgramStep
<1>5. QED
  BY <1>3, <1>4 DEF ParseBadge, Step, Writes

LEMMA ParseEkahauStep ==
  ASSUME IInv, NEW q \in Request, ParseEkahau(q)
  PROVE  IInv'
<1> DEFINE r == request[q].run
           c == Chosen(q)
<1>1. request[q].stage = "survey" /\ "survey" \in AtWork /\ "template" \in AtWork
  BY DEF ParseEkahau, Step, At, AtWork
<1>2. UNCHANGED <<row, files, db, alone>>
  BY DEF ParseEkahau, Step
<1>3. CASE Fail(q) /\ UNCHANGED out
  BY <1>1, <1>2, <1>3, FailStep, Zenon
<1>4. ASSUME NEW content,
             content = Chosen(q).survey,
             Writes(r, "survey", content), Goto(q, "template")
      PROVE  IInv'
  <2>1. /\ r \in Run /\ c \in Selection
        /\ request'[q].stage = "template" /\ request'[q].run = r /\ Chosen(q)' = c
    BY <1>1, <1>4, ExecutionMoves
  <2> HIDE DEF c
  <2>2. content \in File
    BY <1>4, <2>1 DEF Selection, c
  <2>3. TypeOK
    BY DEF IInv
  <2>4. /\ out' \in [Run -> Outputs]
        /\ out'[r].parsed["survey"] = content
        /\ \A a \in {"badge", "survey", "template", "matches"} :
             a # "survey" => out'[r].parsed[a] = out[r].parsed[a]
        /\ \A s \in Run : s # r => out'[s] = out[s]
    BY <1>4, <2>1, <2>2, <2>3, FileWritten
  <2>5. alone' = alone
    BY <1>2
  <2>6. ASSUME r \in alone
        PROVE  out'[r].parsed.badge = c.badge /\ out'[r].parsed.survey = c.survey
    <3>1. out[r].parsed.badge = c.badge
      BY <1>1, <2>6 DEF IInv, Leaves, c
    <3>2. QED
      BY <1>4, <2>4, <3>1 DEF c
  <2>7. Leaves(q)'
    BY <2>1, <2>5, <2>6 DEF Leaves
  <2>8. QED
    BY <1>1, <1>2, <1>4, <2>4, <2>7, ProgramStep
<1>5. QED
  BY <1>3, <1>4 DEF ParseEkahau, Step, Writes

LEMMA ManualTemplateStep ==
  ASSUME IInv, NEW q \in Request, ManualTemplate(q)
  PROVE  IInv'
<1> DEFINE r == request[q].run
           c == Chosen(q)
<1>1. request[q].stage = "template" /\ "template" \in AtWork /\ "correlate" \in AtWork
  BY DEF ManualTemplate, Step, At, AtWork
<1>2. UNCHANGED <<row, files, db, alone>>
  BY DEF ManualTemplate, Step
<1>3. CASE Fail(q) /\ UNCHANGED out
  BY <1>1, <1>2, <1>3, FailStep, Zenon
<1>4. ASSUME NEW content,
             content = [badge |-> out[r].parsed.badge, survey |-> out[r].parsed.survey,
                        csv |-> Nothing],
             Writes(r, "template", content), Goto(q, "correlate")
      PROVE  IInv'
  <2>1. /\ r \in Run /\ c \in Selection
        /\ request'[q].stage = "correlate" /\ request'[q].run = r /\ Chosen(q)' = c
    BY <1>1, <1>4, ExecutionMoves
  <2> HIDE DEF c
  <2>2. content \in Selection
    <3>1. out[r].parsed \in Artifacts
      BY <2>1 DEF IInv, TypeOK, Outputs
    <3>2. QED
      BY <1>4, <3>1 DEF Artifacts, Selection, File
  <2>3. TypeOK
    BY DEF IInv
  <2>4. /\ out' \in [Run -> Outputs]
        /\ out'[r].parsed["template"] = content
        /\ \A a \in {"badge", "survey", "template", "matches"} :
             a # "template" => out'[r].parsed[a] = out[r].parsed[a]
        /\ \A s \in Run : s # r => out'[s] = out[s]
    BY <1>4, <2>1, <2>2, <2>3, SelectionWritten
  <2>5. alone' = alone
    BY <1>2
  <2>6. ASSUME r \in alone
        PROVE  /\ out'[r].parsed.badge = c.badge /\ out'[r].parsed.survey = c.survey
               /\ out'[r].parsed.template =
                    [badge |-> c.badge, survey |-> c.survey, csv |-> Nothing]
    <3>1. out[r].parsed.badge = c.badge /\ out[r].parsed.survey = c.survey
      BY <1>1, <2>6 DEF IInv, Leaves, c
    <3>2. content = [badge |-> c.badge, survey |-> c.survey, csv |-> Nothing]
      BY <1>4, <3>1
    <3>3. QED
      BY <2>4, <3>1, <3>2
  <2>7. Leaves(q)'
    BY <2>1, <2>5, <2>6 DEF Leaves
  <2>8. QED
    BY <1>1, <1>2, <1>4, <2>4, <2>7, ProgramStep
<1>5. QED
  BY <1>3, <1>4 DEF ManualTemplate, Step, Writes

LEMMA CorrelateStep ==
  ASSUME IInv, NEW q \in Request, Correlate(q)
  PROVE  IInv'
<1> DEFINE r == request[q].run
           c == Chosen(q)
<1>1. request[q].stage = "correlate" /\ "correlate" \in AtWork /\ "emit" \in AtWork
  BY DEF Correlate, Step, At, AtWork
<1>2. UNCHANGED <<row, files, db, alone>>
  BY DEF Correlate, Step
<1>3. CASE Fail(q) /\ UNCHANGED out
  BY <1>1, <1>2, <1>3, FailStep, Zenon
<1>4. ASSUME NEW content,
             content = [out[r].parsed.template EXCEPT !.csv = Chosen(q).csv],
             Writes(r, "matches", content), Goto(q, "emit")
      PROVE  IInv'
  <2>1. /\ r \in Run /\ c \in Selection
        /\ request'[q].stage = "emit" /\ request'[q].run = r /\ Chosen(q)' = c
    BY <1>1, <1>4, ExecutionMoves
  <2> HIDE DEF c
  <2>2. content \in Selection
    <3>1. out[r].parsed.template \in Selection
      BY <2>1 DEF IInv, TypeOK, Outputs, Artifacts
    <3>2. QED
      <4> DEFINE t == out[r].parsed.template
      <4> HIDE DEF t
      <4>1. content = [t EXCEPT !.csv = c.csv] /\ t \in Selection /\ c.csv \in File
        BY <1>4, <2>1, <3>1 DEF Selection, c, t
      <4>2. QED
        BY <4>1 DEF Selection
  <2>3. TypeOK
    BY DEF IInv
  <2>4. /\ out' \in [Run -> Outputs]
        /\ out'[r].parsed["matches"] = content
        /\ \A a \in {"badge", "survey", "template", "matches"} :
             a # "matches" => out'[r].parsed[a] = out[r].parsed[a]
        /\ \A s \in Run : s # r => out'[s] = out[s]
    BY <1>4, <2>1, <2>2, <2>3, SelectionWritten
  <2>5. alone' = alone
    BY <1>2
  <2>6. ASSUME r \in alone
        PROVE  /\ out'[r].parsed.badge = c.badge /\ out'[r].parsed.survey = c.survey
               /\ out'[r].parsed.template =
                    [badge |-> c.badge, survey |-> c.survey, csv |-> Nothing]
               /\ out'[r].parsed.matches = c
    <3>1. /\ out[r].parsed.badge = c.badge /\ out[r].parsed.survey = c.survey
          /\ out[r].parsed.template =
               [badge |-> c.badge, survey |-> c.survey, csv |-> Nothing]
      BY <1>1, <2>6 DEF IInv, Leaves, c
    <3>2. content = [badge |-> c.badge, survey |-> c.survey, csv |-> c.csv]
      BY <1>4, <3>1 DEF c
    <3>3. c = [badge |-> c.badge, survey |-> c.survey, csv |-> c.csv]
      BY <2>1 DEF Selection
    <3>4. QED
      BY <2>4, <3>1, <3>2, <3>3
  <2>7. Leaves(q)'
    BY <2>1, <2>5, <2>6 DEF Leaves
  <2>8. QED
    BY <1>1, <1>2, <1>4, <2>4, <2>7, ProgramStep
<1>5. QED
  BY <1>3, <1>4 DEF Correlate, Step, Writes

LEMMA EmitStep ==
  ASSUME IInv, NEW q \in Request, Emit(q)
  PROVE  IInv'
<1> DEFINE r == request[q].run
           c == Chosen(q)
<1>1. request[q].stage = "emit" /\ "emit" \in AtWork /\ "preserve" \in AtWork
  BY DEF Emit, At, AtWork
<1>2. UNCHANGED <<row, files, db, alone>>
  BY DEF Emit
<1>3. CASE Fail(q) /\ UNCHANGED out
  BY <1>1, <1>2, <1>3, FailStep, Zenon
<1>4. CASE out' = [out EXCEPT ![r].sql = out[r].parsed] /\ Goto(q, "preserve")
  <2>1. /\ r \in Run /\ request'[q].stage = "preserve" /\ request'[q].run = r
        /\ Chosen(q)' = c
    BY <1>1, <1>4, ExecutionMoves
  <2> DEFINE o == [out[r] EXCEPT !.sql = out[r].parsed]
  <2>2. out \in [Run -> Outputs] /\ out' = [out EXCEPT ![r] = o]
    BY <1>4 DEF IInv, TypeOK
  <2>3. o \in Outputs /\ o.sql = out[r].parsed
    BY <2>1, <2>2 DEF Outputs
  <2> HIDE DEF o
  <2>4. /\ out' \in [Run -> Outputs] /\ out'[r] = o
        /\ \A s \in Run : s # r => out'[s] = out[s]
    BY <2>1, <2>2, <2>3, OneOutput
  <2>5. alone' = alone
    BY <1>2
  <2> HIDE DEF c
  <2>6. Leaves(q)'
    <3>1. r \in alone => /\ o.sql.badge = c.badge /\ o.sql.survey = c.survey
                         /\ o.sql.matches = c
      BY <1>1, <2>3 DEF IInv, Leaves, c
    <3>2. QED
      BY <2>1, <2>4, <2>5, <3>1 DEF Leaves
  <2>7. QED
    BY <1>1, <1>2, <1>4, <2>4, <2>6, ProgramStep
<1>5. QED
  BY <1>3, <1>4 DEF Emit

\* The observations are set aside.
LEMMA PreserveStep ==
  ASSUME IInv, NEW q \in Request, Preserve(q)
  PROVE  IInv'
<1> DEFINE r == request[q].run
           moved == [request[q] EXCEPT !.stage = "replace", !.saved = observation[r]]
<1>1. request[q].stage = "preserve" /\ "preserve" \in AtWork /\ "replace" \in AtWork
  BY DEF Preserve, At, AtWork
<1>2. request[q] \in Requests /\ r \in Run /\ request \in [Request -> Requests]
  BY <1>1 DEF IInv, TypeOK
<1>3. observation[r] \in SUBSET Identity
  BY <1>2 DEF IInv, TypeOK
<1>4. /\ moved \in Requests /\ moved.stage = "replace" /\ moved.run = r
      /\ moved.files = request[q].files
  BY <1>1, <1>2, <1>3 DEF Requests
<1>5. request' = [request EXCEPT ![q] = moved]
  BY <1>2 DEF Preserve
<1> HIDE DEF moved
<1>6. /\ request' \in [Request -> Requests] /\ request'[q] = moved
      /\ \A p \in Request : p # q => request'[p] = request[p]
  BY <1>2, <1>4, <1>5
<1>7. UNCHANGED <<row, files, out, db, alone>>
  BY DEF Preserve
<1>8. TypeOK'
  BY <1>2, <1>4, <1>6, <1>7 DEF IInv, TypeOK, files, db
<1>9. CompleteHasMatch'
  BY <1>7 DEF IInv, CompleteHasMatch, db
<1>10. Leaves(q)'
  <2>1. request'[q].files = request[q].files
    BY <1>4, <1>6
  <2>2. Chosen(q)' = Chosen(q)
    BY <2>1 DEF Chosen
  <2>3. Leaves(q)
    BY DEF IInv
  <2>5. alone' = alone /\ out' = out
    BY <1>7
  <2>4. QED
    BY <1>1, <1>4, <1>6, <2>2, <2>3, <2>5 DEF Leaves
<1>11. QED
  BY <1>1, <1>4, <1>6, <1>7, <1>8, <1>9, <1>10, WorkStep DEF db

\* The rows of the run are replaced by those of the artifacts.
LEMMA ReplaceStep ==
  ASSUME IInv, NEW q \in Request, Replace(q)
  PROVE  IInv'
<1> DEFINE r == request[q].run
           sql == out[r].sql
           new == Found(sql.template)
           entered == Entered(sql.matches)
           restored == Restored(request[q].saved, new, entered)
           cand == [k \in Identity |->
             IF k \notin new THEN "none"
             ELSE IF MarkCompleted(k, entered, restored) THEN "complete" ELSE "pending"]
           mat == [k \in Identity |-> IF k \in entered THEN "csv" ELSE "none"]
           sel == [badge |-> sql.badge, survey |-> sql.survey, csv |-> sql.matches.csv]
<1>1. /\ request[q].stage = "replace" /\ "replace" \in AtWork /\ "complete" \in AtWork
      /\ r \in Run /\ request[q] \in Requests
  <2>1. request[q].stage = "replace"
    BY Zenon DEF Replace, At
  <2>2. QED
    BY <2>1 DEF AtWork, IInv, TypeOK
<1>2. UNCHANGED <<files, out, alone>>
  BY DEF Replace
<1>3. CASE Fail(q) /\ UNCHANGED <<row, db>>
  BY <1>1, <1>2, <1>3, FailStep, Zenon
<1>4. CASE /\ candidate' = [candidate EXCEPT ![r] = cand]
           /\ match' = [match EXCEPT ![r] = mat]
           /\ observation' = [observation EXCEPT ![r] = restored]
           /\ loaded' = [loaded EXCEPT ![r] = sel]
           /\ row' = IF Exists(r) THEN row
                     ELSE [row EXCEPT ![r] = [status |-> "draft", hidden |-> FALSE]]
           /\ Goto(q, "complete")
  <2>1. /\ cand \in [Identity -> {"none", "pending", "complete"}]
        /\ mat \in [Identity -> {"none", "csv", "entered"}]
        /\ \A k \in Identity : cand[k] = "complete" => mat[k] # "none"
    BY DEF MarkCompleted
  <2>2. restored \in SUBSET Identity
    BY <1>1 DEF Requests, Restored
  <2>3. sel \in Selection
    <3>1. sql \in Artifacts /\ sql.matches \in Selection
      BY <1>1 DEF IInv, TypeOK, Outputs, Artifacts
    <3>2. QED
      BY <3>1 DEF Artifacts, Selection
  <2>4. r \in alone => sel = Chosen(q)
    <3>1. r \in alone => /\ sql.badge = Chosen(q).badge /\ sql.survey = Chosen(q).survey
                         /\ sql.matches = Chosen(q)
      BY <1>1 DEF IInv, Leaves
    <3>2. QED
      BY <3>1 DEF Chosen
  <2>5. row' \in [Run -> [status : Status \cup Patched, hidden : BOOLEAN]]
    BY <1>1, <1>4 DEF IInv, TypeOK, Status
  <2> HIDE DEF cand, mat, restored, sel
  <2>6. /\ candidate' \in [Run -> [Identity -> {"none", "pending", "complete"}]]
        /\ match' \in [Run -> [Identity -> {"none", "csv", "entered"}]]
        /\ observation' \in [Run -> SUBSET Identity]
        /\ loaded' \in [Run -> Selection] /\ loaded'[r] = sel
    BY <1>1, <1>4, <2>1, <2>2, <2>3 DEF IInv, TypeOK
  <2>7. CompleteHasMatch'
    BY <1>1, <1>4, <2>1 DEF IInv, TypeOK, CompleteHasMatch
  <2>8. TypeOK'
    BY <1>1, <1>2, <1>4, <2>5, <2>6, ExecutionMoves DEF IInv, TypeOK, files
  <2>9. /\ request'[q].stage = "complete" /\ request'[q].run = r /\ Chosen(q)' = Chosen(q)
        /\ \A p \in Request : p # q => request'[p] = request[p]
    BY <1>1, <1>4, ExecutionMoves
  <2>10. Leaves(q)'
    <3> alone' = alone
      BY <1>2
    <3> QED
      BY <2>4, <2>6, <2>9 DEF Leaves
  <2>11. \A s \in Run : s # r => out'[s] = out[s] /\ loaded'[s] = loaded[s] /\ row'[s] = row[s]
    BY <1>2, <1>4 DEF IInv, TypeOK
  <2>12. QED
    BY <1>1, <1>2, <2>7, <2>8, <2>9, <2>10, <2>11, WorkStep
<1>5. QED
  BY <1>3, <1>4, Zenon DEF Replace

-----------------------------------------------------------------------------
(* The invariant.                                                           *)

LEMMA InitIInv == Init => IInv
<1> USE SelectedAssumption
<1> SUFFICES ASSUME Init PROVE IInv
  OBVIOUS
<1>1. TypeOK
  <2>1. /\ request \in [Request -> Requests]
        /\ \A q \in Request : request[q].stage = "idle"
    BY IdleType DEF Init, Idle
  <2>2. loaded \in [Run -> Selection] /\ out \in [Run -> Outputs]
    BY NothingLoaded DEF Init
  <2>3. row \in [Run -> [status : Status \cup Patched, hidden : BOOLEAN]]
    BY DEF Init, Status
  <2>4. /\ candidate \in [Run -> [Identity -> {"none", "pending", "complete"}]]
        /\ match \in [Run -> [Identity -> {"none", "csv", "entered"}]]
        /\ observation \in [Run -> SUBSET Identity]
        /\ disk \in [Input -> {"good", "bad", "gone"}]
        /\ available \in [Input -> BOOLEAN]
        /\ attached \in [Run -> SUBSET Input]
    BY DEF Init
  <2>5. QED
    BY <2>1, <2>2, <2>3, <2>4 DEF TypeOK
<1>2. CompleteHasMatch
  BY DEF Init, CompleteHasMatch
<1>3. \A q \in Request : request[q].stage \notin AtWork
  BY DEF Init, Idle, AtWork
<1>4. QED
  BY <1>1, <1>2, <1>3 DEF IInv, OneExecution, Leaves

LEMMA NextIInv == IInv /\ [Next]_vars => IInv'
<1> SUFFICES ASSUME IInv, [Next]_vars PROVE IInv'
  OBVIOUS
<1>1. CASE \E r \in Run : PatchStatus(r) \/ HideRun(r)
  <2> PICK r \in Run : PatchStatus(r) \/ HideRun(r)
    BY <1>1
  <2>1. /\ Exists(r) /\ UNCHANGED <<files, out, db, request, alone>>
        /\ \E status \in Status \cup Patched, hidden \in BOOLEAN :
             row' = [row EXCEPT ![r] = [status |-> status, hidden |-> hidden]]
    BY DEF PatchStatus, HideRun, Status
  <2>2. QED
    BY <2>1, RowStep
<1>2. CASE \E r \in Run : RemoveRun(r)
  BY <1>2, RemoveStep
<1>3. CASE (\E r \in Run : RemoveFile(r)) \/ \E i \in Fragile : Damage(i)
  BY <1>3, FilesStep
<1>4. ASSUME NEW q \in Request, NEW r \in Run, AddFile(q, r) \/ Execute(q, r)
      PROVE  IInv'
  BY <1>4, AttachStep, ExecuteStep
<1>5. ASSUME NEW q \in Request,
             \/ Attach(q) \/ Preflight(q) \/ Inputs(q)
             \/ ParseBadge(q) \/ ParseEkahau(q) \/ ManualTemplate(q) \/ Correlate(q) \/ Emit(q)
             \/ Preserve(q) \/ Replace(q) \/ End(q)
      PROVE  IInv'
  BY <1>5, AttachStep, StatusStep, ParseBadgeStep, ParseEkahauStep, ManualTemplateStep,
     CorrelateStep, EmitStep, PreserveStep, ReplaceStep
<1>6. CASE Restart
  BY <1>6, RestartStep
<1>7. CASE \E r \in Run, k \in Identity : SubmitEntry(r, k) \/ ResetEntry(r, k)
  BY <1>7, EntryStep
<1>8. CASE UNCHANGED vars
  <2>1. TypeOK' /\ CompleteHasMatch'
    BY <1>8 DEF IInv, TypeOK, CompleteHasMatch, vars
  <2>2. UNCHANGED <<row, out, loaded, request, alone>>
    BY <1>8 DEF vars
  <2>3. QED
    BY <2>1, <2>2, QuietStep
<1>9. QED
  BY <1>1, <1>2, <1>3, <1>4, <1>5, <1>6, <1>7, <1>8 DEF Next

LEMMA AlwaysIInv == Spec => []IInv
<1>1. IInv /\ [Next]_vars => IInv'
  BY NextIInv
<1>2. QED
  BY <1>1, InitIInv, PTL DEF Spec

-----------------------------------------------------------------------------
(* The theorems.                                                            *)

\* Rows, files, outputs, the rows of a run in the database and requests keep
\* their types.
THEOREM TypeCorrect == Spec => []TypeOK
<1>1. IInv => TypeOK
  BY DEF IInv
<1>2. QED
  BY <1>1, AlwaysIInv, PTL

\* Whatever a run has found is offered to the operator or has a match, after
\* any reload, entry or reset of any run: a candidate is complete only beside a
\* match of its own run.
THEOREM NothingFoundIsHidden == Spec => []NoIdentityLost
<1>1. IInv => NoIdentityLost
  <2> SUFFICES ASSUME IInv, NEW r \in Run, NEW k \in Identity, candidate[r][k] # "none",
                      \A s \in Run : match[s][k] = "none"
               PROVE  candidate[r][k] = "pending"
    BY DEF NoIdentityLost, Offered
  <2>1. candidate[r][k] \in {"none", "pending", "complete"}
    BY DEF IInv, TypeOK
  <2>2. QED
    BY <2>1 DEF IInv, CompleteHasMatch
<1>2. QED
  BY <1>1, AlwaysIInv, PTL

\* A reload of the run from files without the entry's point, or begun before it.
Drops(q, r, k) ==
  /\ At(q, "replace") /\ request[q].run = r
  /\ k \notin Found(out[r].sql.template) \/ k \notin request[q].saved

\* Why an entry may leave the database in a step: EntriesSurviveReload.
MayGo(r, k) ==
  \/ request' = request /\ match[r][k] = "entered" /\ match'[r][k] = "none"
  \/ row'[r].status = "absent"
  \/ \E q \in Request : Drops(q, r, k)

LEMMA EntriesStay ==
  ASSUME IInv, Next, NEW r \in Run, NEW k \in observation[r] \ observation'[r]
  PROVE  MayGo(r, k)
<1>1. /\ observation \in [Run -> SUBSET Identity] /\ k \in Identity
      /\ match \in [Run -> [Identity -> {"none", "csv", "entered"}]]
      /\ row \in [Run -> [status : Status \cup Patched, hidden : BOOLEAN]]
  BY DEF IInv, TypeOK
<1>2. observation' # observation
  OBVIOUS
<1>3. CASE \E s \in Run : RemoveRun(s)
  <2> PICK s \in Run : RemoveRun(s)
    BY <1>3
  <2>1. s = r /\ row'[r].status = "absent"
    BY <1>1 DEF RemoveRun, Cleared
  <2>2. QED
    BY <2>1 DEF MayGo
<1>4. ASSUME NEW q \in Request, Replace(q)
      PROVE  MayGo(r, k)
  <2> DEFINE s == request[q].run
             new == Found(out[s].sql.template)
  <2>1. /\ At(q, "replace")
        /\ observation' = [observation EXCEPT ![s] =
             Restored(request[q].saved, new, Entered(out[s].sql.matches))]
    BY <1>2, <1>4 DEF Replace, db
  <2>2. s = r /\ k \notin request[q].saved \cap new
    BY <1>1, <2>1 DEF Restored
  <2>3. Drops(q, r, k)
    BY <2>1, <2>2 DEF Drops
  <2>4. QED
    BY <2>3 DEF MayGo
<1>5. CASE \E s \in Run, j \in Identity : SubmitEntry(s, j) \/ ResetEntry(s, j)
  <2> PICK s \in Run, j \in Identity : SubmitEntry(s, j) \/ ResetEntry(s, j)
    BY <1>5
  <2>1. ~SubmitEntry(s, j)
    BY <1>1 DEF SubmitEntry
  <2>2. ResetEntry(s, j) /\ s = r /\ j = k /\ match[r][k] = "entered"
    BY <1>1, <2>1 DEF ResetEntry
  <2>3. request' = request /\ match'[r][k] = "none"
    BY <1>1, <2>2 DEF ResetEntry
  <2>4. QED
    BY <2>2, <2>3 DEF MayGo
<1>6. CASE \/ \E s \in Run : PatchStatus(s) \/ HideRun(s) \/ RemoveFile(s)
           \/ \E i \in Fragile : Damage(i)
           \/ \E q \in Request, s \in Run : AddFile(q, s) \/ Execute(q, s)
           \/ Restart
  <2>1. CASE \E s \in Run : PatchStatus(s) \/ HideRun(s) \/ RemoveFile(s)
    BY <1>2, <2>1 DEF PatchStatus, HideRun, RemoveFile, db
  <2>2. ASSUME NEW q \in Request, NEW s \in Run, AddFile(q, s) \/ Execute(q, s)
        PROVE  FALSE
    <3>1. UNCHANGED db
      BY <2>2 DEF AddFile, Execute
    <3>2. QED
      BY <1>2, <3>1 DEF db
  <2>3. ASSUME NEW i \in Fragile, Damage(i)
        PROVE  FALSE
    BY <1>2, <2>3 DEF Damage, db
  <2>4. CASE Restart
    BY <1>2, <2>4 DEF Restart, db
  <2>5. QED
    BY <1>6, <2>1, <2>2, <2>3, <2>4
<1>7. ASSUME NEW q \in Request,
             \/ Attach(q) \/ Preflight(q) \/ Inputs(q)
             \/ ParseBadge(q) \/ ParseEkahau(q) \/ ManualTemplate(q) \/ Correlate(q) \/ Emit(q)
             \/ Preserve(q) \/ End(q)
      PROVE  FALSE
  BY <1>2, <1>7 DEF Attach, Preflight, Inputs, ParseBadge, ParseEkahau, ManualTemplate,
     Correlate, Emit, Preserve, End, Step, db
<1>8. QED
  BY <1>3, <1>4, <1>5, <1>6, <1>7 DEF Next

\* What an operator typed in leaves the database only by a reset of that entry,
\* with its run, or in a reload that began before it or without its point.
THEOREM EntriesOutliveReloads == Spec => EntriesSurviveReload
<1> DEFINE Kept == \A r \in Run : \A k \in observation[r] \ observation'[r] : MayGo(r, k)
<1>1. IInv /\ [Next]_vars => [Kept]_vars
  BY EntriesStay
<1>2. Kept <=> \A r \in Run : \A k \in observation[r] \ observation'[r] :
       \/ request' = request /\ match[r][k] = "entered" /\ match'[r][k] = "none"
       \/ row'[r].status = "absent"
       \/ \E q \in Request :
            /\ At(q, "replace") /\ request[q].run = r
            /\ k \notin Found(out[r].sql.template) \/ k \notin request[q].saved
  BY DEF MayGo, Drops
<1> HIDE DEF Kept
<1>3. QED
  BY <1>1, <1>2, AlwaysIInv, PTL DEF Spec, EntriesSurviveReload

\* An execution that ends as complete.
Told(q) ==
  LET r == request[q].run IN
  /\ At(q, "complete") /\ request'[q] = Idle
  /\ r \in alone /\ row'[r].status = "complete"
  => loaded[r] = Chosen(q)

LEMMA CompleteTellsTheTruth ==
  ASSUME IInv, Next, NEW q \in Request
  PROVE  Told(q)
<1> SUFFICES ASSUME At(q, "complete"), request'[q] = Idle, request[q].run \in alone,
                    row'[request[q].run].status = "complete"
             PROVE  loaded[request[q].run] = Chosen(q)
  BY DEF Told
<1> DEFINE r == request[q].run
<1>1. request[q].stage = "complete" /\ r \in Run /\ "complete" \in AtWork
  BY DEF At, IInv, TypeOK, AtWork
<1>2. Exists(r) => loaded[r] = Chosen(q)
  <2>1. Leaves(q)
    BY DEF IInv
  <2>2. QED
    BY <1>1, <2>1 DEF Leaves
<1>3. request'[q] # request[q]
  BY <1>1 DEF Idle
<1>4. CASE Restart
  BY <1>2, <1>4 DEF Restart, Exists
<1>5. CASE End(q)
  <2>1. row' = row \/ Exists(r)
    BY <1>5 DEF End, SetStatus
  <2>2. QED
    BY <1>2, <2>1 DEF Exists
<1>6. ASSUME NEW p \in Request, p # q,
             \/ Attach(p) \/ Preflight(p) \/ Inputs(p)
             \/ ParseBadge(p) \/ ParseEkahau(p) \/ ManualTemplate(p) \/ Correlate(p) \/ Emit(p)
             \/ Preserve(p) \/ Replace(p) \/ End(p)
             \/ \E s \in Run : AddFile(p, s) \/ Execute(p, s)
      PROVE  FALSE
  <2>1. request'[q] = request[q]
    <3> USE DEF IInv, TypeOK
    <3>1. ASSUME NEW record, request' = [request EXCEPT ![p] = record]
          PROVE  request'[q] = request[q]
      BY <1>6, <3>1
    <3>2. ASSUME NEW stage, Goto(p, stage)
          PROVE  request'[q] = request[q]
      BY <3>1, <3>2 DEF Goto
    <3> HIDE DEF IInv, TypeOK
    <3>3. Finish(p) => request'[q] = request[q]
      BY <3>1 DEF Finish
    <3>4. CASE Attach(p) \/ Preflight(p) \/ Inputs(p) \/ End(p)
      BY <3>2, <3>3, <3>4 DEF Attach, Preflight, Inputs, End, Fail
    <3>5. CASE Emit(p) \/ Replace(p)
      BY <3>2, <3>5, Zenon DEF Emit, Replace, Fail
    <3>6. ASSUME NEW s, NEW i, NEW a, NEW x, NEW n, Step(p, s, i, a, x, n)
          PROVE  request'[q] = request[q]
      BY <3>2, <3>6, Zenon DEF Step, Fail
    <3>7. CASE ParseBadge(p) \/ ParseEkahau(p) \/ ManualTemplate(p) \/ Correlate(p)
      BY <3>6, <3>7 DEF ParseBadge, ParseEkahau, ManualTemplate, Correlate
    <3>8. CASE Preserve(p)
      BY <1>6, <3>8 DEF Preserve, IInv, TypeOK
    <3>9. CASE \E s \in Run : AddFile(p, s) \/ Execute(p, s)
      BY <3>1, <3>9 DEF AddFile, Execute
    <3>10. QED
      BY <1>6, <3>4, <3>5, <3>7, <3>8, <3>9
  <2>2. QED
    BY <1>3, <2>1
<1>7. CASE \/ Attach(q) \/ Preflight(q) \/ Inputs(q)
           \/ ParseBadge(q) \/ ParseEkahau(q) \/ ManualTemplate(q) \/ Correlate(q) \/ Emit(q)
           \/ Preserve(q) \/ Replace(q)
           \/ \E s \in Run : AddFile(q, s) \/ Execute(q, s)
  BY <1>1, <1>7 DEF Attach, Preflight, Inputs, ParseBadge, ParseEkahau, ManualTemplate, Correlate,
     Emit, Preserve, Replace, AddFile, Execute, Step, At
<1>8. CASE \/ \E s \in Run : PatchStatus(s) \/ HideRun(s) \/ RemoveRun(s) \/ RemoveFile(s)
           \/ \E i \in Fragile : Damage(i)
           \/ \E s \in Run, k \in Identity : SubmitEntry(s, k) \/ ResetEntry(s, k)
  BY <1>3, <1>8 DEF PatchStatus, HideRun, RemoveRun, RemoveFile, Damage, SubmitEntry, ResetEntry
<1>9. QED
  BY <1>4, <1>5, <1>6, <1>7, <1>8 DEF Next

\* An execution that was alone at its run and is told complete has left the rows
\* of the files that were selected when it began.
THEOREM CompleteMeansTheSelection == Spec => CompleteIsOfTheSelection
<1> DEFINE Truth == \A q \in Request : Told(q)
<1>1. IInv /\ [Next]_vars => [Truth]_vars
  BY CompleteTellsTheTruth
<1>2. Truth <=> \A q \in Request :
       LET r == request[q].run IN
       /\ At(q, "complete") /\ request'[q] = Idle
       /\ r \in alone /\ row'[r].status = "complete"
       => loaded[r] = Chosen(q)
  BY DEF Told
<1> HIDE DEF Truth
<1>3. QED
  BY <1>1, <1>2, AlwaysIInv, PTL DEF Spec, CompleteIsOfTheSelection
================================================================================
