------------------------------ MODULE InputCatalog ------------------------------
(***************************************************************************)
(* The input files of RF validation: uploads, scans, registrations and      *)
(* edits of vocera_rf_validation_input_files (main.py), one scope and one   *)
(* source type.  Uploads are coroutines: they give way to one another only  *)
(* while the body is read; the other handlers run in threads of their own.  *)
(***************************************************************************)
EXTENDS Naturals, FiniteSets

CONSTANTS
  Name,        \* names files are uploaded under
  Length,      \* their lengths
  Content,     \* contents, told apart by their SHA-256
  Handler,     \* requests under way at the same time
  MaxUploads,  \* bound: uploads, and with them stamped names
  MaxEdits     \* bound: scans, registrations and edits of rows

VARIABLES
  incoming,        \* the incoming directory
  listed,         \* rows by input_file_id, the hash of the path they were made for
  handling,     \* requests: stage and what they have read
  uploads, edits,
  raced,       \* paths written while another request had read them
  acked,       \* contents of uploads answered with ok
  withdrawn    \* contents an operator has hidden, removed or repointed

catalogVars == <<incoming, listed, handling, uploads, edits, raced, acked, withdrawn>>
ghosts == <<raced, acked, withdrawn>>

\* A path is a name, with the time stamp of the upload where it is not 0.
Path    == Name \X (0..MaxUploads)
NoContent == "missing"
Partial == "partial"
NoSha   == "no row"
NoRow   == [path |-> <<NoContent, 0>>, sha |-> NoSha, visible |-> FALSE]
NoHandler    == [stage |-> "idle", seen |-> {}, id |-> <<NoContent, 0>>]

ASSUME ContentAssumption == Content \cap {NoContent, Partial, NoSha} = {} /\ MaxUploads \in Nat

Seen == [path : Path, sha : Content \cup {NoContent, Partial}]

CatalogTypeOK ==
  /\ incoming \in [Path -> Content \cup {NoContent, Partial}]
  /\ \A i \in Path : listed[i] = NoRow \/
       listed[i] \in [path : Path, sha : Content \cup {NoContent, Partial}, visible : BOOLEAN]
  /\ \A q \in Handler :
       /\ handling[q].stage \in {"idle", "body", "lookup", "hide", "store", "scan", "register", "patch"}
       /\ handling[q].seen \subseteq Seen
  /\ raced \subseteq Path /\ acked \subseteq Content
  /\ withdrawn \subseteq Content \cup {NoContent, Partial}

CatalogInit ==
  /\ incoming = [p \in Path |-> NoContent]
  /\ listed = [i \in Path |-> NoRow]
  /\ handling = [q \in Handler |-> NoHandler]
  /\ uploads = 0 /\ edits = 0
  /\ raced = {} /\ acked = {} /\ withdrawn = {}

HandlerAt(q, stage) == handling[q].stage = stage
HandlerGoes(q, stage, seen) ==
  handling' = [handling EXCEPT ![q] = [NoHandler EXCEPT !.stage = stage, !.seen = seen]]
HandlerEnds(q) == handling' = [handling EXCEPT ![q] = NoHandler]

\* input_file_record: the file as it is now; one that is missing has no hash and is unavailable.
FileRecord(p) == [path |-> p, sha |-> incoming[p]]

Stale(q, p) ==
  raced' = raced \cup {r \in {p} : \E o \in Handler \ {q} : \E s \in handling[o].seen : s.path = p}

\* Files that are read while their upload goes on.
ReadPartial == raced' = raced \cup {p \in Path : incoming[p] = Partial}

Rows        == {i \in Path : listed[i] # NoRow}
ListedAt(p)   == {i \in Rows : listed[i].path = p}
ShownOf(c)  == {i \in Rows : listed[i].visible /\ listed[i].sha = c}

\* duplicate_source_sort_key: names without a stamp first, then short ones.
Rank(p) == (IF p[2] = 0 THEN 0 ELSE 100) + Length[p[1]]

\* upsert_input_file_sql: the row of the path, or a new one under the path's
\* id; an id that is in use for another path breaks the primary key.
CanUpsert(p) == ListedAt(p) # {} \/ listed[p] = NoRow
Upserted(s, visible) ==
  LET id == IF ListedAt(s.path) # {} THEN CHOOSE i \in ListedAt(s.path) : TRUE ELSE s.path
  IN  [listed EXCEPT ![id] = [path |-> s.path, sha |-> s.sha, visible |-> visible]]

-----------------------------------------------------------------------------
(* upload_input_file                                                        *)

\* unique_upload_path takes the name, or the name with a stamp.
UploadBegins(q) ==
  /\ HandlerAt(q, "idle") /\ uploads < MaxUploads
  /\ uploads' = uploads + 1
  /\ \E n \in Name :
       LET p == IF incoming[<<n, 0>>] = NoContent THEN <<n, 0>> ELSE <<n, uploads + 1>> IN
       /\ incoming' = [incoming EXCEPT ![p] = Partial]
       /\ handling' = [handling EXCEPT ![q] = [NoHandler EXCEPT !.stage = "body", !.id = p]]
       /\ Stale(q, p)
  /\ UNCHANGED <<listed, edits, acked, withdrawn>>

InOneGo == {"lookup", "hide", "store"}

\* The body is stored; or it is empty, cannot be stored or is quarantined.
UploadEnds(q) ==
  LET p == handling[q].id IN
  /\ HandlerAt(q, "body")
  /\ \A o \in Handler : handling[o].stage \notin InOneGo
  /\ \/ \E c \in Content :
          /\ incoming' = [incoming EXCEPT ![p] = c]
          /\ HandlerGoes(q, "lookup", {[path |-> p, sha |-> c]})
     \/ incoming' = [incoming EXCEPT ![p] = NoContent] /\ HandlerEnds(q)
  /\ Stale(q, p)
  /\ UNCHANGED <<listed, uploads, edits, acked, withdrawn>>

\* existing_visible_duplicate
LookupDuplicate(q) ==
  /\ HandlerAt(q, "lookup")
  /\ \E s \in handling[q].seen :
       HandlerGoes(q, IF ShownOf(s.sha) # {} THEN "hide" ELSE "store", {s})
  /\ UNCHANGED <<incoming, listed, uploads, edits, ghosts>>

\* hide_duplicate_input_file or upsert_input_file_record
UploadRecorded(q) ==
  /\ \E stage \in {"hide", "store"} : HandlerAt(q, stage)
  /\ \E s \in handling[q].seen :
       /\ IF CanUpsert(s.path)
          THEN /\ listed' = Upserted(s, HandlerAt(q, "store"))
               /\ acked' = acked \cup {s.sha}
          ELSE UNCHANGED <<listed, acked>>
       /\ Stale(q, s.path)
  /\ HandlerEnds(q)
  /\ UNCHANGED <<incoming, uploads, edits, withdrawn>>

-----------------------------------------------------------------------------
(* scan_input_files                                                         *)

CountEdit == edits < MaxEdits /\ edits' = edits + 1

\* dedupe_input_file_records
Dedupe(seen) ==
  {s \in seen : \A t \in seen : t.sha = s.sha => Rank(s.path) <= Rank(t.path)}

ScanBegins(q) ==
  /\ HandlerAt(q, "idle") /\ CountEdit
  /\ HandlerGoes(q, "scan",
                 Dedupe({FileRecord(p) : p \in {f \in Path : incoming[f] # NoContent}}))
  /\ ReadPartial
  /\ UNCHANGED <<incoming, listed, uploads, acked, withdrawn>>

\* Each winner is put back into the list; a broken key ends the scan.
ScanStep(q) ==
  /\ HandlerAt(q, "scan")
  /\ IF handling[q].seen = {} THEN HandlerEnds(q) /\ UNCHANGED <<listed, raced>>
     ELSE \E s \in handling[q].seen :
            /\ Stale(q, s.path)
            /\ IF CanUpsert(s.path)
               THEN listed' = Upserted(s, TRUE) /\ HandlerGoes(q, "scan", handling[q].seen \ {s})
               ELSE UNCHANGED listed /\ HandlerEnds(q)
  /\ UNCHANGED <<incoming, uploads, edits, acked, withdrawn>>

-----------------------------------------------------------------------------
(* Registration and edits                                                   *)

RegisterBegins(q) ==
  /\ HandlerAt(q, "idle") /\ CountEdit
  /\ \E p \in Path : HandlerGoes(q, "register", {FileRecord(p)})
  /\ ReadPartial
  /\ UNCHANGED <<incoming, listed, uploads, acked, withdrawn>>

Registered(q) ==
  /\ HandlerAt(q, "register")
  /\ \E s \in handling[q].seen :
       /\ listed' = IF CanUpsert(s.path) THEN Upserted(s, s.sha # NoContent) ELSE listed
       /\ Stale(q, s.path)
  /\ HandlerEnds(q)
  /\ UNCHANGED <<incoming, uploads, edits, acked, withdrawn>>

\* update_input_file with a file_path: the row keeps its id.
RepointBegins(q) ==
  /\ HandlerAt(q, "idle") /\ CountEdit
  /\ \E i \in Rows, p \in Path :
       handling' = [handling EXCEPT ![q] = [stage |-> "patch", seen |-> {FileRecord(p)}, id |-> i]]
  /\ ReadPartial
  /\ UNCHANGED <<incoming, listed, uploads, acked, withdrawn>>

\* Deviation: the row gets the new path and keeps the hash it had.
RepointedPathOnly(q) ==
  LET i == handling[q].id IN
  /\ HandlerAt(q, "patch")
  /\ \E s \in handling[q].seen :
       /\ IF listed[i] # NoRow /\ ListedAt(s.path) \subseteq {i}
          THEN /\ listed' = [listed EXCEPT ![i].path = s.path]
               /\ withdrawn' = withdrawn \cup {listed[i].sha}
          ELSE UNCHANGED <<listed, withdrawn>>
       /\ Stale(q, s.path)
  /\ HandlerEnds(q)
  /\ UNCHANGED <<incoming, uploads, edits, acked>>

\* The path may be another row's: the unique key refuses it.
Repointed(q) ==
  LET i == handling[q].id IN
  /\ HandlerAt(q, "patch")
  /\ \E s \in handling[q].seen :
       /\ IF listed[i] # NoRow /\ ListedAt(s.path) \subseteq {i}
          THEN /\ listed' = [listed EXCEPT ![i] =
                               [path |-> s.path, sha |-> s.sha, visible |-> s.sha # NoContent]]
               /\ withdrawn' = withdrawn \cup {listed[i].sha}
          ELSE UNCHANGED <<listed, withdrawn>>
       /\ Stale(q, s.path)
  /\ HandlerEnds(q)
  /\ UNCHANGED <<incoming, uploads, edits, acked>>

\* update_input_file and delete_input_file: one statement.
EditRow ==
  /\ CountEdit
  /\ \E i \in Rows :
       /\ listed' \in {[listed EXCEPT ![i].visible = TRUE], [listed EXCEPT ![i].visible = FALSE],
                    [listed EXCEPT ![i] = NoRow]}
       /\ withdrawn' = IF listed'[i].visible THEN withdrawn ELSE withdrawn \cup {listed[i].sha}
  /\ UNCHANGED <<incoming, handling, uploads, raced, acked>>

CatalogNext ==
  \/ \E q \in Handler :
       \/ UploadBegins(q) \/ UploadEnds(q) \/ LookupDuplicate(q) \/ UploadRecorded(q)
       \/ ScanBegins(q) \/ ScanStep(q)
       \/ RegisterBegins(q) \/ Registered(q) \/ RepointBegins(q) \/ Repointed(q)
  \/ EditRow

CatalogSpec == CatalogInit /\ [][CatalogNext]_catalogVars

-----------------------------------------------------------------------------
(* Properties                                                               *)

(* What the list offers is what is on disk, and a content whose upload was  *)
(* answered with ok is offered, whichever of its copies is: hiding          *)
(* duplicates never hides the last one.  A row made for a file that was     *)
(* missing has no hash and tells no content.  Excepted are contents an      *)
(* operator took away and paths that were written while another request had *)
(* already read them, such as a file scanned while its upload was going on. *)
ListedAsStored ==
  /\ \A i \in Rows :
       listed[i].visible /\ listed[i].sha # NoContent /\ listed[i].path \notin raced =>
         incoming[listed[i].path] = listed[i].sha
  /\ \A c \in acked \ withdrawn :
       (\A p \in raced : incoming[p] # c) => ShownOf(c) # {}
=============================================================================
