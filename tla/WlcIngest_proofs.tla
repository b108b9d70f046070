--------------------------- MODULE WlcIngest_proofs ---------------------------
(***************************************************************************)
(* Theorems about WlcIngest.  The first part holds however scans overlap.   *)
(* The second part is about scans that take turns (~Overlap), which the     *)
(* trigger's flock provides as long as no scan outlives it: its invariant   *)
(* adds to the first one what a scan knows of its file at each stage;       *)
(* nobody else changes the file in between.                                 *)
(***************************************************************************)
EXTENDS WlcIngest, FiniteSetTheorems, TLAPS

FP == INSTANCE UploadFinalizer_proofs

-----------------------------------------------------------------------------
(* The next unused identity.                                                *)

LEMMA LeastNumber ==
  ASSUME NEW S \in SUBSET Nat, S # {}
  PROVE  \E m \in S : \A k \in S : m <= k
<1> DEFINE R == OpToRel(<, Nat)
<1>1. IsWellFoundedOn(R, Nat)
  BY NatLessThanWellFounded
<1>2. PICK m \in S : \A k \in S : ~(<<k, m>> \in R)
  <2> HIDE DEF R
  <2>1. QED
    BY <1>1, WFMin
<1>3. \A k \in S : m <= k
  <2> SUFFICES ASSUME NEW k \in S PROVE m <= k
    OBVIOUS
  <2>1. ~(k < m)
    BY <1>2 DEF OpToRel
  <2>2. QED
    BY <2>1
<1>4. QED
  BY <1>3

\* A finite set leaves a number free among the first Cardinality(K) + 1.
LEMMA FreshNumber ==
  ASSUME NEW K, IsFiniteSet(K)
  PROVE  \E i \in 1 .. (Cardinality(K) + 1) :
           i \notin K /\ 1 .. (i - 1) \subseteq K
<1> DEFINE c == Cardinality(K)
           S == (1 .. (c + 1)) \ K
<1>1. c \in Nat
  BY FS_CardinalityType
<1>2. S # {}
  <2> SUFFICES ASSUME S = {} PROVE FALSE
    OBVIOUS
  <2>1. 1 .. (c + 1) \in SUBSET K
    OBVIOUS
  <2>2. Cardinality(1 .. (c + 1)) <= c
    BY <2>1, FS_Subset
  <2>3. Cardinality(1 .. (c + 1)) = c + 1
    BY <1>1, FS_Interval
  <2>4. QED
    BY <1>1, <2>2, <2>3
<1>3. PICK m \in S : \A k \in S : m <= k
  <2>1. S \in SUBSET Nat
    BY <1>1
  <2>2. QED
    BY <1>2, <2>1, LeastNumber
<1>4. 1 .. (m - 1) \subseteq K
  BY <1>1, <1>3
<1>5. QED
  BY <1>3, <1>4

LEMMA FiniteImage ==
  ASSUME NEW S, IsFiniteSet(S), NEW f, f = [x \in S |-> f[x]]
  PROVE  IsFiniteSet({f[x] : x \in S})
<1> DEFINE T == {f[x] : x \in S}
<1>1. f \in Surjection(S, T)
  <2>1. f \in [S -> T]
    <3>1. [x \in S |-> f[x]] \in [S -> T]
      OBVIOUS
    <3>2. QED
      BY <3>1
  <2>2. QED
    BY <2>1 DEF Surjection
<1> HIDE DEF T
<1>2. IsFiniteSet(T)
  BY <1>1, FS_Surjection
<1>3. QED
  BY <1>2 DEF T

-----------------------------------------------------------------------------
(* Types, and what a step makes of the record of its scan.                  *)

Pcs == {"idle", "files", "stat", "decide", "finalize", "promote", "look",
        "insert", "link", "parsing", "parse", "running", "settle", "rows"}
Between == {"idle", "files", "rows"}      \* a scan that is at no file
Listing == [n : Name, cap : Nat, tries : Nat]

Row  == [state : States, final : BOOLEAN, sha : Data \cup {None}, cap : Nat,
         seen : Nat, tries : Nat]
Scan == [pc : Pcs, todo : SUBSET Name, handled : SUBSET Name,
         rows : SUBSET Listing, n : Name \cup {None}, prev : Nat, sig : Nat,
         data : Data \cup {None}, cap : Nat, tries : Nat, retry : BOOLEAN,
         out : {"none", "parsed", "failed", "retry_pending"}]

TypeOK ==
  /\ row \in [Name -> Row]
  /\ captures \in [Name -> SUBSET Nat]
  /\ complete \in [Name -> SUBSET Nat]
  /\ \A n \in Name : IsFiniteSet(captures[n]) /\ complete[n] \subseteq captures[n]
  /\ runs \in [Name -> Nat]
  /\ scan \in [Worker -> Scan]
  /\ \A w \in Worker : scan[w].pc \in Between \/ Mine(w) \in Name

\* w has taken a step: its record is one of its type, the others are as before.
Moved(w) ==
  /\ scan' \in [Worker -> Scan]
  /\ scan'[w].pc \in Between \/ scan'[w].n \in Name
  /\ \A v \in Worker \ {w} : scan'[v] = scan[v]

\* ... and it is still at the same file in the same pass.
SameFile(w) ==
  /\ scan'[w].n = scan[w].n /\ scan'[w].retry = scan[w].retry
  /\ scan'[w].tries = scan[w].tries /\ scan'[w].rows = scan[w].rows
  /\ scan'[w].todo = scan[w].todo

LEMMA ScanUpdate ==
  ASSUME TypeOK, NEW w \in Worker, NEW r \in Scan,
         r.pc \in Between \/ r.n \in Name, scan' = [scan EXCEPT ![w] = r]
  PROVE  Moved(w) /\ scan'[w] = r
BY DEF TypeOK, Moved

LEMMA NoScanType == NoScan \in Scan /\ NoScan.pc = "idle"
BY DEF NoScan, Scan, Pcs

LEMMA GoEffect ==
  ASSUME TypeOK, NEW w \in Worker, NEW pc \in Pcs \ Between, Go(w, pc),
         scan[w].pc \notin Between
  PROVE  /\ Moved(w) /\ SameFile(w) /\ scan'[w].pc = pc
         /\ scan'[w].cap = scan[w].cap /\ scan'[w].data = scan[w].data
         /\ scan'[w].out = scan[w].out
<1> DEFINE r == [scan[w] EXCEPT !.pc = pc]
<1>1. scan[w] \in Scan /\ scan[w].n \in Name
  BY DEF TypeOK, Mine
<1>2. /\ r \in Scan /\ r.pc = pc /\ r.n = scan[w].n /\ r.retry = scan[w].retry
      /\ r.tries = scan[w].tries /\ r.rows = scan[w].rows
      /\ r.todo = scan[w].todo /\ r.cap = scan[w].cap
      /\ r.data = scan[w].data /\ r.out = scan[w].out
  BY <1>1 DEF Scan
<1>3. scan' = [scan EXCEPT ![w] = r]
  BY DEF Go
<1> HIDE DEF r
<1>4. Moved(w) /\ scan'[w] = r
  BY <1>1, <1>2, <1>3, ScanUpdate
<1>5. QED
  BY <1>2, <1>4 DEF SameFile

LEMMA ConcludeEffect ==
  ASSUME TypeOK, NEW w \in Worker, NEW out \in {"parsed", "failed", "retry_pending"},
         NEW c \in Nat, Conclude(w, out, c), scan[w].pc \notin Between
  PROVE  /\ Moved(w) /\ SameFile(w) /\ scan'[w].pc = "settle"
         /\ scan'[w].cap = c /\ scan'[w].out = out
<1> DEFINE r == [scan[w] EXCEPT !.pc = "settle", !.out = out, !.cap = c]
<1>1. scan[w] \in Scan /\ scan[w].n \in Name
  BY DEF TypeOK, Mine
<1>2. /\ r \in Scan /\ r.pc = "settle" /\ r.n = scan[w].n
      /\ r.retry = scan[w].retry /\ r.tries = scan[w].tries
      /\ r.rows = scan[w].rows /\ r.todo = scan[w].todo
      /\ r.cap = c /\ r.out = out
  BY <1>1 DEF Scan, Pcs
<1>3. scan' = [scan EXCEPT ![w] = r]
  BY DEF Conclude
<1> HIDE DEF r
<1>4. Moved(w) /\ scan'[w] = r
  BY <1>1, <1>2, <1>3, ScanUpdate
<1>5. QED
  BY <1>2, <1>4 DEF SameFile

LEMMA LeaveEffect ==
  ASSUME TypeOK, NEW w \in Worker, NEW h \in SUBSET Name, Leave(w, h)
  PROVE  /\ Moved(w) /\ scan'[w].rows = scan[w].rows
         /\ scan'[w].todo = scan[w].todo /\ scan'[w].retry = FALSE
         /\ scan'[w].pc = IF scan[w].retry THEN "rows" ELSE "files"
<1> DEFINE pc == IF scan[w].retry THEN "rows" ELSE "files"
           r == [NoScan EXCEPT !.pc = pc, !.todo = scan[w].todo,
                               !.rows = scan[w].rows,
                               !.handled = scan[w].handled \cup h]
<1>1. scan[w] \in Scan
  BY DEF TypeOK
<1>2. /\ r \in Scan /\ r.pc = pc /\ r.rows = scan[w].rows
      /\ r.todo = scan[w].todo /\ r.retry = FALSE
  BY <1>1 DEF Scan, NoScan, Pcs
<1>3. scan' = [scan EXCEPT ![w] = r]
  BY DEF Leave
<1>4. r.pc \in Between
  BY <1>2 DEF Between
<1> HIDE DEF r
<1>5. Moved(w) /\ scan'[w] = r
  BY <1>2, <1>3, <1>4, ScanUpdate
<1>6. QED
  BY <1>2, <1>5

\* A scan that ends, in any way.
LEMMA EndEffect ==
  ASSUME TypeOK, NEW w \in Worker, scan' = [scan EXCEPT ![w] = NoScan]
  PROVE  Moved(w) /\ scan'[w] = NoScan
BY NoScanType, ScanUpdate DEF Between

LEMMA StartEffect ==
  ASSUME TypeOK, NEW w \in Worker, StartScan(w)
  PROVE  /\ Moved(w) /\ scan'[w].pc = "files" /\ scan'[w].rows = {}
         /\ scan'[w].retry = FALSE
<1> DEFINE todo == {n \in Name : incoming[n] # 0}
           r == [NoScan EXCEPT !.pc = "files", !.todo = todo]
<1>1. r \in Scan /\ r.pc = "files" /\ r.rows = {} /\ r.retry = FALSE
  BY DEF Scan, NoScan, Pcs
<1>2. scan' = [scan EXCEPT ![w] = r]
  BY DEF StartScan
<1> HIDE DEF r
<1>3. Moved(w) /\ scan'[w] = r
  BY <1>1, <1>2, ScanUpdate DEF Between
<1>4. QED
  BY <1>1, <1>3

\* The first pass skips a file or takes up one whose row is not ingested.
LEMMA ReadRowEffect ==
  ASSUME TypeOK, NEW w \in Worker, ReadRow(w)
  PROVE  /\ Moved(w) /\ scan'[w].rows = scan[w].rows
         /\ scan'[w].retry = scan[w].retry
         /\ \/ scan'[w].pc = "files"
            \/ /\ scan'[w].pc = "stat" /\ scan'[w].n \in Name
               /\ row[scan'[w].n].state \notin Ingested
<1>1. PICK n \in scan[w].todo :
        scan' = [scan EXCEPT
          ![w] = IF row[n].state \in Ingested
                 THEN [scan[w] EXCEPT !.todo = @ \ {n}, !.handled = @ \cup {n}]
                 ELSE [scan[w] EXCEPT !.todo = @ \ {n}, !.pc = "stat",
                                         !.n = n, !.prev = row[n].seen]]
  BY DEF ReadRow
<1>2. scan[w] \in Scan /\ scan[w].pc = "files" /\ n \in Name /\ row[n] \in Row
  BY DEF TypeOK, ReadRow, At, Scan
<1>3. CASE row[n].state \in Ingested
  <2> DEFINE r == [scan[w] EXCEPT !.todo = @ \ {n}, !.handled = @ \cup {n}]
  <2>1. /\ r \in Scan /\ r.pc = "files" /\ r.rows = scan[w].rows
        /\ r.retry = scan[w].retry
    BY <1>2 DEF Scan
  <2>2. scan' = [scan EXCEPT ![w] = r]
    BY <1>1, <1>3
  <2> HIDE DEF r
  <2>3. Moved(w) /\ scan'[w] = r
    BY <2>1, <2>2, ScanUpdate DEF Between
  <2>4. QED
    BY <2>1, <2>3
<1>4. CASE row[n].state \notin Ingested
  <2> DEFINE r == [scan[w] EXCEPT !.todo = @ \ {n}, !.pc = "stat", !.n = n,
                                  !.prev = row[n].seen]
  <2>1. /\ r \in Scan /\ r.pc = "stat" /\ r.rows = scan[w].rows
        /\ r.retry = scan[w].retry /\ r.n = n
    BY <1>2 DEF Scan, Row, Pcs
  <2>2. scan' = [scan EXCEPT ![w] = r]
    BY <1>1, <1>4
  <2> HIDE DEF r
  <2>3. Moved(w) /\ scan'[w] = r
    BY <1>2, <2>1, <2>2, ScanUpdate
  <2>4. QED
    BY <1>2, <1>4, <2>1, <2>3
<1>5. QED
  BY <1>3, <1>4

LEMMA StatEffect ==
  ASSUME TypeOK, FP!TypeOK, NEW w \in Worker, StatUpload(w)
  PROVE  \/ Leave(w, {Mine(w)})
         \/ /\ Moved(w) /\ SameFile(w) /\ scan'[w].pc = "decide"
            /\ incoming[Mine(w)] # 0
<1> DEFINE n == Mine(w)
           r == [scan[w] EXCEPT !.pc = "decide", !.sig = F!Version(n)]
<1>1. scan[w] \in Scan /\ scan[w].n \in Name /\ scan[w].pc = "stat"
  BY DEF TypeOK, Mine, StatUpload, At, Between
<1>2. CASE incoming[n] = 0
  BY <1>2 DEF StatUpload
<1>3. CASE incoming[n] # 0
  <2>1. F!Version(n) \in Nat
    BY <1>1, FP!VersionIsNat, PartsAssumption
       DEF F!Version, FP!Version, Mine, F!DataAssumption, FP!DataAssumption
  <2>2. /\ r \in Scan /\ r.pc = "decide" /\ r.n = scan[w].n
        /\ r.retry = scan[w].retry /\ r.tries = scan[w].tries
        /\ r.rows = scan[w].rows /\ r.todo = scan[w].todo
    BY <1>1, <2>1 DEF Scan, Pcs
  <2>3. scan' = [scan EXCEPT ![w] = r]
    BY <1>3 DEF StatUpload
  <2> HIDE DEF r
  <2>4. Moved(w) /\ scan'[w] = r
    BY <1>1, <2>2, <2>3, ScanUpdate
  <2>5. QED
    BY <1>3, <2>2, <2>4 DEF SameFile
<1>4. QED
  BY <1>2, <1>3

LEMMA ValidatedEffect ==
  ASSUME TypeOK, NEW w \in Worker, NEW d \in Data, scan[w].pc = "finalize",
         scan' = [scan EXCEPT ![w].pc = "promote", ![w].data = d]
  PROVE  /\ Moved(w) /\ SameFile(w) /\ scan'[w].pc = "promote"
         /\ scan'[w].data = d
<1> DEFINE r == [scan[w] EXCEPT !.pc = "promote", !.data = d]
<1>1. scan[w] \in Scan /\ scan[w].n \in Name
  BY DEF TypeOK, Mine, Between
<1>2. /\ r \in Scan /\ r.pc = "promote" /\ r.n = scan[w].n /\ r.data = d
      /\ r.retry = scan[w].retry /\ r.tries = scan[w].tries
      /\ r.rows = scan[w].rows /\ r.todo = scan[w].todo
  BY <1>1 DEF Scan, Pcs
<1>3. scan' = [scan EXCEPT ![w] = r]
  OBVIOUS
<1> HIDE DEF r
<1>4. Moved(w) /\ scan'[w] = r
  BY <1>1, <1>2, <1>3, ScanUpdate
<1>5. QED
  BY <1>2, <1>4 DEF SameFile

LEMMA EvidenceType ==
  ASSUME FP!TypeOK, NEW n \in Name, pcaps[n] # None
  PROVE  pcaps[n] \in FP!Evidence /\ pcaps[n].id \in Nat
<1>1. pcaps[n] \in FP!Evidence
  BY DEF FP!TypeOK, FP!Evidence
<1>2. QED
  BY <1>1 DEF FP!Evidence

LEMMA LookEffect ==
  ASSUME TypeOK, FP!TypeOK, NEW w \in Worker, Look(w)
  PROVE  \/ Conclude(w, "failed", 0)
         \/ /\ Moved(w) /\ SameFile(w) /\ pcaps[Mine(w)] # None
            /\ scan'[w].cap = pcaps[Mine(w)].id
            /\ \/ scan'[w].pc = "insert" /\ captures[Mine(w)] = {}
               \/ scan'[w].pc = "link" /\ pcaps[Mine(w)].id \in captures[Mine(w)]
<1> DEFINE n == Mine(w)
           pc == IF captures[n] = {} THEN "insert" ELSE "link"
           r == [scan[w] EXCEPT !.cap = pcaps[n].id, !.pc = pc]
<1>1. scan[w] \in Scan /\ scan[w].n \in Name /\ scan[w].pc = "look"
  BY DEF TypeOK, Mine, Look, At, Between
<1>2. CASE pcaps[n] = None \/ (captures[n] # {} /\ pcaps[n].id \notin captures[n])
  BY <1>2 DEF Look
<1>3. CASE pcaps[n] # None /\ (captures[n] = {} \/ pcaps[n].id \in captures[n])
  <2>1. pcaps[n].id \in Nat
    BY <1>1, <1>3, EvidenceType DEF Mine
  <2>2. /\ r \in Scan /\ r.pc = pc /\ r.n = scan[w].n /\ r.cap = pcaps[n].id
        /\ r.retry = scan[w].retry /\ r.tries = scan[w].tries
        /\ r.rows = scan[w].rows /\ r.todo = scan[w].todo
    BY <1>1, <2>1 DEF Scan, Pcs
  <2>3. scan' = [scan EXCEPT ![w] = r]
    BY <1>3 DEF Look
  <2> HIDE DEF r
  <2>4. Moved(w) /\ scan'[w] = r
    BY <1>1, <2>2, <2>3, ScanUpdate
  <2>5. QED
    BY <1>3, <2>2, <2>4 DEF SameFile
<1>4. QED
  BY <1>2, <1>3

\* The second pass begins with the rows it may retry.
ToRetry(w) == {m \in Name \ scan[w].handled :
                 enabled /\ row[m].state \in Retryable /\ row[m].final}

LEMMA ListEffect ==
  ASSUME TypeOK, NEW w \in Worker, ListRows(w)
  PROVE  /\ Moved(w) /\ scan'[w].pc = "rows" /\ scan'[w].retry = FALSE
         /\ scan'[w].rows = {[n |-> n, cap |-> row[n].cap, tries |-> row[n].tries] :
                               n \in ToRetry(w)}
<1> DEFINE list == {[n |-> n, cap |-> row[n].cap, tries |-> row[n].tries] :
                      n \in ToRetry(w)}
           r == [NoScan EXCEPT !.pc = "rows", !.rows = list]
<1>1. list \in SUBSET Listing
  BY DEF ToRetry, TypeOK, Row, Listing
<1>2. scan' = [scan EXCEPT ![w] = r]
  BY DEF ListRows, ToRetry
<1> HIDE DEF list
<1>3. r \in Scan /\ r.pc = "rows" /\ r.rows = list /\ r.retry = FALSE
  BY <1>1 DEF Scan, NoScan, Pcs
<1> HIDE DEF r
<1>4. Moved(w) /\ scan'[w] = r
  BY <1>2, <1>3, ScanUpdate DEF Between
<1>5. QED
  BY <1>3, <1>4 DEF list

\* One listed row: given up, or taken up for another try.
GivesUp(w, x) ==
  /\ x.tries >= MaxRetries \/ pcaps[x.n] = None
  /\ row' = [row EXCEPT
       ![x.n].state = "failed",
       ![x.n].tries = IF x.tries >= MaxRetries THEN x.tries ELSE x.tries + 1]
  /\ scan' = [scan EXCEPT ![w].rows = scan[w].rows \ {x}]

TakesUp(w, x) ==
  /\ x.tries < MaxRetries /\ pcaps[x.n] # None
  /\ scan'[w].pc = (IF x.cap = 0 THEN "look" ELSE "link")
  /\ scan'[w].rows = scan[w].rows \ {x} /\ scan'[w].n = x.n
  /\ scan'[w].cap = x.cap /\ scan'[w].tries = x.tries /\ scan'[w].retry = TRUE
  /\ UNCHANGED row

LEMMA RetryEffect ==
  ASSUME TypeOK, NEW w \in Worker, RetryRow(w)
  PROVE  /\ Moved(w)
         /\ \E x \in scan[w].rows :
              \/ /\ GivesUp(w, x) /\ scan'[w].rows = scan[w].rows \ {x}
                 /\ scan'[w].pc = "rows" /\ scan'[w].retry = scan[w].retry
              \/ TakesUp(w, x)
<1>1. PICK x \in scan[w].rows :
        LET rest == scan[w].rows \ {x} IN
        IF x.tries >= MaxRetries \/ pcaps[x.n] = None
        THEN GivesUp(w, x)
        ELSE /\ scan' = [scan EXCEPT
                  ![w] = [NoScan EXCEPT
                            !.pc = IF x.cap = 0 THEN "look" ELSE "link",
                            !.rows = rest, !.n = x.n, !.cap = x.cap,
                            !.tries = x.tries, !.retry = TRUE]]
             /\ UNCHANGED row
  BY DEF RetryRow, GivesUp
<1>2. scan[w] \in Scan /\ scan[w].pc = "rows"
  BY DEF TypeOK, RetryRow, At
<1>3. x \in Listing /\ x.n \in Name /\ x.tries \in Nat /\ x.cap \in Nat
  BY <1>2 DEF Scan, Listing
<1>4. CASE x.tries >= MaxRetries \/ pcaps[x.n] = None
  <2> DEFINE r == [scan[w] EXCEPT !.rows = scan[w].rows \ {x}]
  <2>1. /\ r \in Scan /\ r.pc = "rows" /\ r.rows = scan[w].rows \ {x}
        /\ r.retry = scan[w].retry
    BY <1>2 DEF Scan
  <2>2. GivesUp(w, x)
    BY <1>1, <1>4
  <2>3. scan' = [scan EXCEPT ![w] = r]
    BY <2>2 DEF GivesUp
  <2> HIDE DEF r
  <2>4. Moved(w) /\ scan'[w] = r
    BY <2>1, <2>3, ScanUpdate DEF Between
  <2>5. QED
    BY <2>1, <2>2, <2>4
<1>5. CASE ~(x.tries >= MaxRetries \/ pcaps[x.n] = None)
  <2> DEFINE pc == IF x.cap = 0 THEN "look" ELSE "link"
             rest == scan[w].rows \ {x}
             r == [NoScan EXCEPT !.pc = pc, !.rows = rest, !.n = x.n,
                                 !.cap = x.cap, !.tries = x.tries, !.retry = TRUE]
  <2>1. rest \in SUBSET Listing /\ pc \in {"look", "link"}
    BY <1>2 DEF Scan
  <2>2. scan' = [scan EXCEPT ![w] = r] /\ row' = row
    BY <1>1, <1>5
  <2>3. /\ r \in Scan /\ r.pc = pc /\ r.rows = rest /\ r.n = x.n
        /\ r.cap = x.cap /\ r.tries = x.tries /\ r.retry = TRUE
    <3> HIDE DEF pc, rest
    <3>1. QED
      BY <1>3, <2>1 DEF Scan, NoScan, Pcs
  <2> HIDE DEF r
  <2>4. Moved(w) /\ scan'[w] = r
    BY <1>3, <2>2, <2>3, ScanUpdate
  <2>5. x.tries < MaxRetries
    BY <1>3, <1>5, IngestAssumption
  <2>6. TakesUp(w, x)
    BY <1>5, <2>2, <2>3, <2>4, <2>5 DEF TakesUp
  <2>7. QED
    BY <2>4, <2>6
<1>6. QED
  BY <1>4, <1>5

-----------------------------------------------------------------------------
(* What a step makes of the row of its file.                                *)

\* Only the row of n changes, and it keeps its type.
RowStep(n) ==
  /\ row' \in [Name -> Row]
  /\ \A m \in Name \ {n} : row'[m] = row[m]

LEMMA RowUpdate ==
  ASSUME TypeOK, NEW n \in Name, NEW r \in Row, row' = [row EXCEPT ![n] = r]
  PROVE  RowStep(n) /\ row'[n] = r
BY DEF TypeOK, RowStep

LEMMA StatesAre ==
  /\ Waiting \cup Ingested \subseteq States
  /\ {"validating", "validated", "failed", "quarantined"} \subseteq States
BY DEF States, Waiting, Ingested

LEMMA SetStateEffect ==
  ASSUME TypeOK, NEW n \in Name, NEW s \in States, SetState(n, s)
  PROVE  /\ RowStep(n) /\ row'[n].state = s
         /\ row'[n].final = row[n].final /\ row'[n].sha = row[n].sha
         /\ row'[n].cap = row[n].cap /\ row'[n].tries = row[n].tries
<1> DEFINE r == [row[n] EXCEPT !.state = s]
<1>1. row[n] \in Row
  BY DEF TypeOK
<1>2. /\ r \in Row /\ r.state = s /\ r.final = row[n].final
      /\ r.sha = row[n].sha /\ r.cap = row[n].cap /\ r.tries = row[n].tries
  BY <1>1 DEF Row
<1>3. row' = [row EXCEPT ![n] = r]
  BY DEF SetState
<1> HIDE DEF r
<1>4. QED
  BY <1>2, <1>3, RowUpdate

LEMMA WaitRow ==
  ASSUME TypeOK, NEW w \in Worker, Wait(w)
  PROVE  LET n == Mine(w) IN
         /\ n \in Name
         /\ RowStep(n) /\ row'[n].state \in Waiting
         /\ row'[n].final = row[n].final /\ row'[n].sha = row[n].sha
         /\ row'[n].cap = row[n].cap /\ row'[n].tries = row[n].tries
<1> DEFINE n == Mine(w)
           s == IF scan[w].prev = 0 THEN "upload_detected"
                                    ELSE "waiting_for_stability"
           e == IF scan[w].prev = scan[w].sig THEN row[n].seen ELSE scan[w].sig
           r == [row[n] EXCEPT !.state = s, !.seen = e]
<1>1. n \in Name /\ scan[w] \in Scan
  BY DEF TypeOK, Wait, At, Between
<1>2. row[n] \in Row
  BY <1>1 DEF TypeOK
<1>3. s \in Waiting /\ s \in States /\ e \in Nat
  BY <1>1, <1>2, StatesAre DEF Waiting, Row, Scan
<1>4. row' = [row EXCEPT ![n] = r]
  BY DEF Wait
<1> HIDE DEF s, e
<1>5. /\ r \in Row /\ r.state = s /\ r.final = row[n].final
      /\ r.sha = row[n].sha /\ r.cap = row[n].cap /\ r.tries = row[n].tries
  BY <1>2, <1>3 DEF Row
<1> HIDE DEF r
<1>6. RowStep(n) /\ row'[n] = r
  BY <1>1, <1>4, <1>5, RowUpdate
<1>7. QED
  BY <1>1, <1>3, <1>5, <1>6

\* The row of n takes on the state s with the hash of the finalized file.
StoresHash(n, s, d) ==
  row' = [row EXCEPT ![n].state = s, ![n].final = TRUE, ![n].sha = d]

LEMMA HashRow ==
  ASSUME TypeOK, NEW n \in Name, NEW s \in States, NEW d \in Data,
         StoresHash(n, s, d)
  PROVE  /\ RowStep(n) /\ row'[n].state = s /\ row'[n].final /\ row'[n].sha = d
         /\ row'[n].cap = row[n].cap /\ row'[n].tries = row[n].tries
<1> DEFINE r == [row[n] EXCEPT !.state = s, !.final = TRUE, !.sha = d]
<1>1. row[n] \in Row
  BY DEF TypeOK
<1>2. /\ r \in Row /\ r.state = s /\ r.final /\ r.sha = d
      /\ r.cap = row[n].cap /\ r.tries = row[n].tries
  BY <1>1 DEF Row
<1>3. row' = [row EXCEPT ![n] = r]
  BY DEF StoresHash
<1> HIDE DEF r
<1>4. QED
  BY <1>2, <1>3, RowUpdate

LEMMA CaptureRow ==
  ASSUME TypeOK, NEW n \in Name, NEW s \in States, NEW c \in Nat,
         row' = [row EXCEPT ![n].cap = c, ![n].state = s]
  PROVE  /\ RowStep(n) /\ row'[n].state = s /\ row'[n].cap = c
         /\ row'[n].final = row[n].final /\ row'[n].sha = row[n].sha
         /\ row'[n].tries = row[n].tries
<1> DEFINE r == [row[n] EXCEPT !.cap = c, !.state = s]
<1>1. row[n] \in Row
  BY DEF TypeOK
<1>2. /\ r \in Row /\ r.state = s /\ r.cap = c /\ r.final = row[n].final
      /\ r.sha = row[n].sha /\ r.tries = row[n].tries
  BY <1>1 DEF Row
<1>3. row' = [row EXCEPT ![n] = r]
  OBVIOUS
<1> HIDE DEF r
<1>4. QED
  BY <1>2, <1>3, RowUpdate

LEMMA SettleRow ==
  ASSUME TypeOK, NEW w \in Worker, Settle(w)
  PROVE  LET n == Mine(w) IN
         /\ n \in Name
         /\ RowStep(n) /\ row'[n].state = scan[w].out
         /\ row'[n].cap = (IF scan[w].cap = 0 THEN row[n].cap ELSE scan[w].cap)
         /\ row'[n].final = row[n].final /\ row'[n].sha = row[n].sha
         /\ row'[n].tries = IF scan[w].retry /\ scan[w].out = "failed"
                            THEN scan[w].tries + 1 ELSE row[n].tries
<1> DEFINE n == Mine(w)
           c == IF scan[w].cap = 0 THEN row[n].cap ELSE scan[w].cap
           t == IF scan[w].retry /\ scan[w].out = "failed"
                THEN scan[w].tries + 1 ELSE row[n].tries
           r == [row[n] EXCEPT !.state = scan[w].out, !.cap = c, !.tries = t]
<1>1. n \in Name /\ scan[w] \in Scan
  BY DEF TypeOK, Settle, At, Between
<1>2. row[n] \in Row
  BY <1>1 DEF TypeOK
<1>3. scan[w].out \in States /\ c \in Nat /\ t \in Nat
  BY <1>1, <1>2 DEF Row, Scan, States, Ingested
<1>4. row' = [row EXCEPT ![n] = r]
  BY DEF Settle
<1> HIDE DEF c, t
<1>5. /\ r \in Row /\ r.state = scan[w].out /\ r.cap = c
      /\ r.final = row[n].final /\ r.sha = row[n].sha /\ r.tries = t
  BY <1>2, <1>3 DEF Row
<1> HIDE DEF r
<1>6. RowStep(n) /\ row'[n] = r
  BY <1>1, <1>4, <1>5, RowUpdate
<1>7. QED
  BY <1>1, <1>5, <1>6 DEF c, t

LEMMA GiveUpRow ==
  ASSUME TypeOK, NEW w \in Worker, NEW x \in scan[w].rows, GivesUp(w, x)
  PROVE  /\ x.n \in Name /\ x.tries \in Nat /\ x.cap \in Nat
         /\ RowStep(x.n) /\ row'[x.n].state = "failed"
         /\ row'[x.n].tries = (IF x.tries >= MaxRetries THEN x.tries
                                                        ELSE x.tries + 1)
         /\ row'[x.n].final = row[x.n].final /\ row'[x.n].sha = row[x.n].sha
         /\ row'[x.n].cap = row[x.n].cap
<1> DEFINE n == x.n
           t == IF x.tries >= MaxRetries THEN x.tries ELSE x.tries + 1
           r == [row[n] EXCEPT !.state = "failed", !.tries = t]
<1>1. x \in Listing
  BY DEF TypeOK, Scan
<1>2. n \in Name /\ row[n] \in Row /\ t \in Nat /\ x.tries \in Nat /\ x.cap \in Nat
  BY <1>1 DEF TypeOK, Listing
<1>3. row' = [row EXCEPT ![n] = r]
  BY DEF GivesUp
<1> HIDE DEF t
<1>4. /\ r \in Row /\ r.state = "failed" /\ r.tries = t
      /\ r.final = row[n].final /\ r.sha = row[n].sha /\ r.cap = row[n].cap
  BY <1>2, StatesAre DEF Row
<1> HIDE DEF r
<1>5. RowStep(n) /\ row'[n] = r
  BY <1>2, <1>3, <1>4, RowUpdate
<1>6. QED
  BY <1>2, <1>4, <1>5 DEF t

-----------------------------------------------------------------------------
(* The invariant of any number of scans.                                    *)

\* A scan finalizes the file it is at, and nothing otherwise.
JobMatch(w) ==
  IF At(w, "finalize") THEN job[w].stage # "idle" /\ job[w].name = Mine(w)
                       ELSE job[w].stage = "idle"

\* An identity is a number above 0, which a row uses for "no capture".
IdsOK ==
  \A n \in Name : /\ pcaps[n] # None => pcaps[n].id # 0
                  /\ 0 \notin captures[n]

Registered(c, n) == c # 0 => c \in captures[n]

RowLink(n) ==
  /\ Registered(row[n].cap, n)
  /\ row[n].state = "parsed" => row[n].cap # 0
  /\ row[n].tries <= MaxRetries

\* The captures and the retry counts a scan carries along are those of rows.
ScanLink(w) ==
  LET n == Mine(w) IN
  /\ scan[w].pc = "insert" => scan[w].cap # 0
  /\ scan[w].pc \in {"link", "parsing", "parse", "running"} =>
       scan[w].cap \in captures[n]
  /\ scan[w].pc = "settle" =>
       /\ Registered(scan[w].cap, n)
       /\ scan[w].out # "none"
       /\ scan[w].out = "parsed" => scan[w].cap # 0
  /\ scan[w].pc = "promote" => scan[w].data \in Data
  /\ scan[w].retry => scan[w].pc \notin Between /\ scan[w].tries < MaxRetries
  /\ \A x \in scan[w].rows : x.tries <= MaxRetries /\ Registered(x.cap, x.n)

\* The unique index of the table.
ShaUnique ==
  \A n, m \in Name : n # m /\ row[n].sha # None => row[m].sha # row[n].sha

Links == IdsOK /\ (\A n \in Name : RowLink(n)) /\ (\A w \in Worker : ScanLink(w))

IInv ==
  /\ TypeOK
  /\ FP!IInv
  /\ \A w \in Worker : JobMatch(w)
  /\ OneParserRuns
  /\ Links
  /\ ShaUnique

-----------------------------------------------------------------------------
(* What a step keeps, group by group.                                       *)

\* The identity of a finalized file is above 0 and not registered.
LEMMA FreshIsNew ==
  ASSUME TypeOK, NEW n \in Name
  PROVE  /\ FreshId(n) \in Nat \ {0} /\ FreshId(n) \notin captures[n]
         /\ pcaps[n] # None => FreshId(n) # pcaps[n].id
<1> DEFINE caps == {scan[w].cap : w \in Worker}
           old == IF pcaps[n] = None THEN 0 ELSE pcaps[n].id
           known == captures[n] \cup caps \cup {old}
           c == Cardinality(known)
           good(i) == i \notin known /\ 1 .. (i - 1) \subseteq known
<1>1. IsFiniteSet(caps)
  <2> DEFINE f == [w \in Worker |-> scan[w].cap]
  <2>1. IsFiniteSet({f[w] : w \in Worker})
    <3>1. f = [w \in Worker |-> f[w]]
      OBVIOUS
    <3>2. IsFiniteSet(Worker)
      BY PartsAssumption
    <3> HIDE DEF f
    <3>3. QED
      BY <3>1, <3>2, FiniteImage
  <2>2. {f[w] : w \in Worker} = caps
    OBVIOUS
  <2>3. QED
    BY <2>1, <2>2
<1>2. IsFiniteSet(captures[n])
  BY DEF TypeOK
<1>3. IsFiniteSet(known)
  <2> HIDE DEF caps, old
  <2>1. IsFiniteSet({old})
    BY FS_Singleton
  <2>2. IsFiniteSet(captures[n] \cup caps)
    BY <1>1, <1>2, FS_Union
  <2>3. QED
    BY <2>1, <2>2, FS_Union
<1>4. c \in Nat
  <2> HIDE DEF known
  <2>1. QED
    BY <1>3, FS_CardinalityType
<1>5. \E i \in 1 .. (c + 1) : good(i)
  <2> HIDE DEF known
  <2>1. QED
    BY <1>3, FreshNumber
<1>6. FreshId(n) = CHOOSE i \in 1 .. (c + 1) : good(i)
  BY DEF FreshId
<1>7. FreshId(n) \in 1 .. (c + 1) /\ good(FreshId(n))
  <2> HIDE DEF good, c
  <2>1. QED
    BY <1>5, <1>6
<1>8. FreshId(n) \notin captures[n] /\ FreshId(n) # old
  BY <1>7
<1>9. FreshId(n) \in Nat \ {0}
  <2> HIDE DEF c, good
  <2>1. QED
    BY <1>4, <1>7
<1>10. QED
  BY <1>8, <1>9

CvarsOK ==
  /\ captures \in [Name -> SUBSET Nat]
  /\ complete \in [Name -> SUBSET Nat]
  /\ \A n \in Name : IsFiniteSet(captures[n]) /\ complete[n] \subseteq captures[n]
  /\ runs \in [Name -> Nat]

LEMMA TypeStep ==
  ASSUME TypeOK, NEW w \in Worker, Moved(w), row' \in [Name -> Row], CvarsOK'
  PROVE  TypeOK'
<1>1. ASSUME NEW v \in Worker PROVE scan'[v].pc \in Between \/ scan'[v].n \in Name
  <2>1. CASE v = w
    BY <2>1 DEF Moved
  <2>2. CASE v # w
    BY <2>2 DEF Moved, TypeOK, Mine
  <2>3. QED
    BY <2>1, <2>2
<1>2. QED
  BY <1>1 DEF TypeOK, CvarsOK, Moved, Mine

LEMMA CvarsKept == TypeOK /\ UNCHANGED cvars => CvarsOK'
BY DEF TypeOK, CvarsOK, cvars

LEMMA FilesKept == FP!IInv /\ UNCHANGED fvars => FP!IInv'
<1> SUFFICES ASSUME FP!IInv, UNCHANGED fvars PROVE FP!IInv'
  OBVIOUS
<1>1. /\ uploads' = uploads /\ incoming' = incoming
      /\ pcaps' = pcaps /\ job' = job
  BY DEF fvars
<1>2. FP!TypeOK'
  BY <1>1 DEF FP!IInv, FP!TypeOK, FP!At
<1>3. FP!IncomingOK' /\ FP!EvidenceIsOneVersion'
  BY <1>1 DEF FP!IInv, FP!IncomingOK, FP!EvidenceIsOneVersion, FP!Version,
              FP!Offered
<1>4. ASSUME NEW w \in Worker PROVE FP!JobOK(w)'
  BY <1>1 DEF FP!IInv, FP!JobOK, FP!Version, FP!Offered
<1>5. QED
  BY <1>2, <1>3, <1>4 DEF FP!IInv

LEMMA JobsKept ==
  ASSUME NEW w \in Worker, Moved(w), \A v \in Worker : JobMatch(v),
         \A v \in Worker \ {w} : job'[v] = job[v], JobMatch(w)'
  PROVE  \A v \in Worker : JobMatch(v)'
<1>1. ASSUME NEW v \in Worker \ {w} PROVE JobMatch(v)'
  BY DEF JobMatch, Moved, At, Mine
<1>2. QED
  BY <1>1

LEMMA ParserKept ==
  ASSUME NEW w \in Worker, Moved(w), OneParserRuns, holder' = holder,
         scan[w].pc # "running", scan'[w].pc # "running"
  PROVE  OneParserRuns'
<1>1. ASSUME NEW v \in Worker PROVE (At(v, "running") <=> holder = v)'
  <2>1. CASE v = w
    BY <2>1 DEF OneParserRuns, At
  <2>2. CASE v # w
    BY <2>2 DEF OneParserRuns, At, Moved
  <2>3. QED
    BY <2>1, <2>2
<1>2. QED
  BY <1>1 DEF OneParserRuns

\* Captures are never deleted, so links stay good.
LEMMA LinksKept ==
  ASSUME TypeOK, Links, NEW w \in Worker, Moved(w), NEW n \in Name,
         \A m \in Name \ {n} : row'[m] = row[m],
         \A m \in Name : captures[m] \subseteq captures'[m],
         IdsOK', RowLink(n)', ScanLink(w)'
  PROVE  Links'
<1>1. ASSUME NEW m \in Name \ {n} PROVE RowLink(m)'
  BY DEF Links, RowLink, Registered
<1>2. ASSUME NEW v \in Worker \ {w} PROVE ScanLink(v)'
  <2>1. scan'[v] = scan[v] /\ ScanLink(v) /\ scan[v] \in Scan
    BY DEF Links, Moved, TypeOK
  <2>2. \A x \in scan[v].rows : x.n \in Name
    BY <2>1 DEF Scan, Listing
  <2>3. scan[v].pc \notin Between => scan[v].n \in Name
    BY DEF TypeOK, Mine
  <2>4. QED
    BY <2>1, <2>2, <2>3 DEF ScanLink, Registered, Mine, Between
<1>3. QED
  BY <1>1, <1>2 DEF Links

LEMMA ShaKept ==
  ASSUME ShaUnique, \A n \in Name : row'[n].sha = row[n].sha
  PROVE  ShaUnique'
BY DEF ShaUnique

LEMMA ShaStored ==
  ASSUME ShaUnique, NEW n \in Name, NEW d \in Data, ~ShaTaken(n, d),
         \A m \in Name \ {n} : row'[m] = row[m], row'[n].sha = d
  PROVE  ShaUnique'
BY DEF ShaUnique, ShaTaken

\* A step of w that touches neither the files nor the captures nor the lock.
Plain(w) ==
  /\ Moved(w)
  /\ scan[w].pc \notin {"finalize", "running"}
  /\ scan'[w].pc \notin {"finalize", "running"}
  /\ UNCHANGED <<fvars, cvars, holder>>

LEMMA PlainParts ==
  ASSUME IInv, NEW w \in Worker, Plain(w), row' \in [Name -> Row]
  PROVE  /\ TypeOK' /\ FP!IInv' /\ (\A v \in Worker : JobMatch(v)')
         /\ OneParserRuns' /\ IdsOK'
<1>1. TypeOK'
  BY TypeStep, CvarsKept DEF IInv, Plain
<1>2. FP!IInv'
  BY FilesKept DEF IInv, Plain
<1>3. job' = job
  BY DEF Plain, fvars
<1>4. JobMatch(w)'
  BY <1>3 DEF IInv, JobMatch, Plain, At
<1>5. \A v \in Worker : JobMatch(v)'
  BY <1>3, <1>4, JobsKept DEF IInv, Plain
<1>6. OneParserRuns'
  BY ParserKept DEF IInv, Plain
<1>7. IdsOK'
  BY DEF Plain, fvars, cvars, IInv, Links, IdsOK
<1>8. QED
  BY <1>1, <1>2, <1>5, <1>6, <1>7

\* ... and leaves the hashes of the rows alone, so that the links remain.
LEMMA PlainStep ==
  ASSUME IInv, NEW w \in Worker, Plain(w), NEW n \in Name, RowStep(n),
         row'[n].sha = row[n].sha, RowLink(n)', ScanLink(w)'
  PROVE  IInv'
<1>1. /\ TypeOK' /\ FP!IInv' /\ (\A v \in Worker : JobMatch(v)')
      /\ OneParserRuns' /\ IdsOK'
  BY PlainParts DEF RowStep
<1>2. captures' = captures
  BY DEF Plain, cvars
<1>3. Links'
  BY <1>1, <1>2, LinksKept DEF IInv, Plain, RowStep
<1>4. ShaUnique'
  BY ShaKept DEF IInv, RowStep
<1>5. QED
  BY <1>1, <1>3, <1>4 DEF IInv

LEMMA QuietStep ==
  ASSUME IInv, NEW w \in Worker, Plain(w), row' = row, ScanLink(w)'
  PROVE  IInv'
<1>1. row' \in [Name -> Row]
  BY DEF IInv, TypeOK
<1>2. /\ TypeOK' /\ FP!IInv' /\ (\A v \in Worker : JobMatch(v)')
      /\ OneParserRuns' /\ IdsOK'
  BY <1>1, PlainParts
<1>3. captures' = captures
  BY DEF Plain, cvars
<1>4. Links'
  <2>1. CASE \E n \in Name : TRUE
    <3>1. PICK n \in Name : TRUE
      BY <2>1
    <3>2. RowLink(n)'
      BY <1>3 DEF IInv, Links, RowLink, Registered
    <3>3. QED
      BY <1>2, <1>3, <3>2, LinksKept DEF IInv, Plain
  <2>2. CASE Name = {}
    <3>1. ASSUME NEW v \in Worker \ {w} PROVE ScanLink(v)'
      BY <1>3 DEF IInv, Links, ScanLink, Registered, Mine, Plain, Moved
    <3>2. QED
      BY <1>2, <2>2, <3>1 DEF Links
  <2>3. QED
    BY <2>1, <2>2
<1>5. ShaUnique'
  BY ShaKept DEF IInv
<1>6. QED
  BY <1>2, <1>4, <1>5 DEF IInv

-----------------------------------------------------------------------------
(* The steps of a scan, any number of scans.                                *)

\* What the step of a scan that is at a file may rely on.
LEMMA AtFile ==
  ASSUME IInv, NEW w \in Worker, scan[w].pc \notin Between
  PROVE  /\ Mine(w) \in Name /\ scan[w] \in Scan /\ row[Mine(w)] \in Row
         /\ RowLink(Mine(w)) /\ ScanLink(w) /\ MaxRetries \in Nat
BY IngestAssumption DEF IInv, TypeOK, Links

LEMMA AtRows ==
  ASSUME IInv, NEW w \in Worker, NEW x \in scan[w].rows
  PROVE  /\ x \in Listing /\ x.n \in Name /\ x.tries \in Nat /\ x.cap \in Nat
         /\ x.tries <= MaxRetries /\ Registered(x.cap, x.n)
         /\ RowLink(x.n) /\ MaxRetries \in Nat
<1>1. x \in Listing
  BY DEF IInv, TypeOK, Scan
<1>2. x.n \in Name /\ x.tries \in Nat /\ x.cap \in Nat
  BY <1>1 DEF Listing
<1>3. QED
  BY <1>1, <1>2, IngestAssumption DEF IInv, Links, ScanLink

\* A scan between files keeps the rows it has still to retry.
LEMMA BetweenLinks ==
  ASSUME IInv, NEW w \in Worker, captures' = captures,
         scan'[w].rows \subseteq scan[w].rows, scan'[w].pc \in Between,
         ~scan'[w].retry
  PROVE  ScanLink(w)'
BY DEF IInv, Links, ScanLink, Registered, Between

\* ... and so does one that stays at its file.
LEMMA SameLinks ==
  ASSUME IInv, NEW w \in Worker, SameFile(w),
         \A m \in Name : captures[m] \subseteq captures'[m],
         scan[w].pc \notin Between,
         \/ scan'[w].pc \in {"stat", "decide", "finalize", "look"}
         \/ scan'[w].pc = "promote" /\ scan'[w].data \in Data
         \/ /\ scan'[w].pc = "insert" /\ scan'[w].cap # 0
         \/ /\ scan'[w].pc \in {"link", "parsing", "parse", "running"}
            /\ scan'[w].cap \in captures'[Mine(w)]
         \/ /\ scan'[w].pc = "settle" /\ scan'[w].out # "none"
            /\ scan'[w].out = "parsed" => scan'[w].cap # 0
            /\ scan'[w].cap # 0 => scan'[w].cap \in captures'[Mine(w)]
  PROVE  ScanLink(w)'
<1>1. ASSUME NEW x \in scan[w].rows
      PROVE  x.tries <= MaxRetries /\ Registered(x.cap, x.n)'
  BY AtRows DEF Registered
<1>2. ScanLink(w)
  BY DEF IInv, Links
<1>3. QED
  BY <1>1, <1>2 DEF ScanLink, Registered, Between, SameFile, Mine

LEMMA StartStep ==
  ASSUME IInv, NEW w \in Worker, StartScan(w)
  PROVE  IInv'
<1>1. /\ Moved(w) /\ scan'[w].pc = "files" /\ scan'[w].rows = {}
      /\ scan'[w].retry = FALSE
      /\ scan[w].pc = "idle" /\ UNCHANGED <<fvars, row, cvars, holder>>
  BY StartEffect DEF IInv, StartScan, At
<1>2. Plain(w) /\ ScanLink(w)'
  BY <1>1 DEF Plain, ScanLink, Between
<1>3. QED
  BY <1>1, <1>2, QuietStep

LEMMA ReadStep ==
  ASSUME IInv, NEW w \in Worker, ReadRow(w)
  PROVE  IInv'
<1>1. /\ Moved(w) /\ scan'[w].rows = scan[w].rows /\ scan[w].pc = "files"
      /\ scan'[w].pc \in {"files", "stat"} /\ UNCHANGED <<fvars, row, cvars, holder>>
      /\ scan'[w].retry = scan[w].retry
  BY ReadRowEffect DEF IInv, ReadRow, At
<1>2. Plain(w) /\ captures' = captures
  BY <1>1 DEF Plain, cvars
<1>3. ScanLink(w) /\ ~scan[w].retry
  BY <1>1 DEF IInv, Links, ScanLink, Between
<1>4. ScanLink(w)'
  BY <1>1, <1>2, <1>3 DEF ScanLink, Registered, Between
<1>5. QED
  BY <1>1, <1>2, <1>4, QuietStep

\* Leaving a file, on to the next.
LEMMA LeaveLinks ==
  ASSUME IInv, NEW w \in Worker, NEW h \in SUBSET Name, Leave(w, h),
         captures' = captures
  PROVE  /\ Moved(w) /\ ScanLink(w)' /\ scan'[w].pc \in {"files", "rows"}
<1>1. /\ Moved(w) /\ scan'[w].rows = scan[w].rows /\ scan'[w].retry = FALSE
      /\ scan'[w].pc \in {"files", "rows"}
  BY LeaveEffect DEF IInv
<1>2. QED
  BY <1>1, BetweenLinks DEF Between

LEMMA EndLinks ==
  ASSUME IInv, NEW w \in Worker, scan' = [scan EXCEPT ![w] = NoScan]
  PROVE  Moved(w) /\ ScanLink(w)' /\ scan'[w].pc = "idle"
<1>1. Moved(w) /\ scan'[w] = NoScan
  BY EndEffect DEF IInv
<1>2. QED
  BY <1>1, NoScanType DEF ScanLink, NoScan, Between

LEMMA StatStep ==
  ASSUME IInv, NEW w \in Worker, StatUpload(w)
  PROVE  IInv'
<1>1. /\ scan[w].pc = "stat" /\ UNCHANGED <<fvars, row, cvars, holder>>
      /\ captures' = captures
  BY DEF StatUpload, At, cvars
<1>2. Mine(w) \in Name
  BY <1>1, AtFile DEF Between
<1>3. CASE Leave(w, {Mine(w)})
  <2>1. Moved(w) /\ ScanLink(w)' /\ scan'[w].pc \in {"files", "rows"}
    BY <1>1, <1>2, <1>3, LeaveLinks
  <2>2. QED
    BY <1>1, <2>1, QuietStep DEF Plain
<1>4. CASE Moved(w) /\ SameFile(w) /\ scan'[w].pc = "decide"
  <2>1. ScanLink(w)'
    BY <1>1, <1>4, SameLinks DEF Between
  <2>2. QED
    BY <1>1, <1>4, <2>1, QuietStep DEF Plain
<1>5. QED
  BY <1>3, <1>4, StatEffect DEF IInv, FP!IInv

LEMMA WaitStep ==
  ASSUME IInv, NEW w \in Worker, Wait(w)
  PROVE  IInv'
<1>0. PICK n \in Name : n = Mine(w)
  BY WaitRow DEF IInv
<1>1. /\ scan[w].pc = "decide" /\ UNCHANGED <<fvars, cvars, holder>>
      /\ captures' = captures /\ Leave(w, {n})
  BY <1>0 DEF Wait, At, cvars
<1>2. /\ n \in Name /\ RowStep(n) /\ row'[n].state \in Waiting
      /\ row'[n].sha = row[n].sha
      /\ row'[n].cap = row[n].cap /\ row'[n].tries = row[n].tries
  BY <1>0, WaitRow DEF IInv
<1>3. Moved(w) /\ ScanLink(w)' /\ scan'[w].pc \in {"files", "rows"}
  BY <1>1, LeaveLinks
<1>4. RowLink(n)'
  BY <1>1, <1>2 DEF IInv, Links, RowLink, Registered, Waiting
<1>5. QED
  BY <1>1, <1>2, <1>3, <1>4, PlainStep DEF Plain

LEMMA PromoteStep ==
  ASSUME IInv, NEW w \in Worker, Promote(w)
  PROVE  IInv'
<1>0. PICK n \in Name, d \in Data : n = Mine(w) /\ d = scan[w].data
  BY AtFile DEF Between, ScanLink, Promote, At
<1>1. /\ scan[w].pc = "promote" /\ UNCHANGED <<fvars, cvars, holder>>
      /\ captures' = captures
  BY DEF Promote, At, cvars
<1>2. RowLink(n)
  BY DEF IInv, Links
<1>3. CASE ShaTaken(n, d)
  <2>1. Leave(w, {}) /\ row' = row
    BY <1>0, <1>3 DEF Promote
  <2>2. Moved(w) /\ ScanLink(w)' /\ scan'[w].pc \in {"files", "rows"}
    BY <1>1, <2>1, LeaveLinks
  <2>3. QED
    BY <1>1, <2>1, <2>2, QuietStep DEF Plain
<1>4. CASE ~ShaTaken(n, d)
  <2>1. Go(w, "look") /\ StoresHash(n, "promoted", d)
    BY <1>0, <1>4 DEF Promote, StoresHash
  <2>2. Moved(w) /\ SameFile(w) /\ scan'[w].pc = "look"
    BY <1>1, <2>1, GoEffect DEF IInv, Pcs, Between
  <2>3. /\ RowStep(n) /\ row'[n].state = "promoted" /\ row'[n].sha = d
        /\ row'[n].cap = row[n].cap /\ row'[n].tries = row[n].tries
    BY <1>2, <2>1, HashRow, StatesAre DEF IInv, Ingested
  <2>4. ScanLink(w)'
    BY <1>1, <2>2, SameLinks DEF Between
  <2>5. RowLink(n)'
    BY <1>1, <1>2, <2>3 DEF RowLink, Registered
  <2>6. Plain(w)
    BY <1>1, <2>2 DEF Plain
  <2>7. /\ TypeOK' /\ FP!IInv' /\ (\A v \in Worker : JobMatch(v)')
        /\ OneParserRuns' /\ IdsOK'
    BY <2>3, <2>6, PlainParts DEF RowStep
  <2>8. Links'
    BY <1>1, <1>2, <2>2, <2>3, <2>4, <2>5, <2>7, LinksKept DEF IInv, RowStep
  <2>9. ShaUnique'
    BY <1>2, <1>4, <2>3, ShaStored DEF IInv, RowStep
  <2>10. QED
    BY <2>7, <2>8, <2>9 DEF IInv
<1>5. QED
  BY <1>3, <1>4

LEMMA LookStep ==
  ASSUME IInv, NEW w \in Worker, Look(w)
  PROVE  IInv'
<1>1. /\ scan[w].pc = "look" /\ UNCHANGED <<fvars, row, cvars, holder>>
      /\ captures' = captures
  BY DEF Look, At, cvars
<1>2. Mine(w) \in Name
  BY <1>1, AtFile DEF Between
<1>3. CASE Conclude(w, "failed", 0)
  <2>1. /\ Moved(w) /\ SameFile(w) /\ scan'[w].pc = "settle"
        /\ scan'[w].cap = 0 /\ scan'[w].out = "failed"
    BY <1>1, <1>3, ConcludeEffect DEF IInv, Between
  <2>2. ScanLink(w)'
    BY <1>1, <2>1, SameLinks DEF Between
  <2>3. QED
    BY <1>1, <2>1, <2>2, QuietStep DEF Plain
<1>4. CASE /\ Moved(w) /\ SameFile(w) /\ pcaps[Mine(w)] # None
           /\ scan'[w].cap = pcaps[Mine(w)].id
           /\ \/ scan'[w].pc = "insert" /\ captures[Mine(w)] = {}
              \/ scan'[w].pc = "link" /\ pcaps[Mine(w)].id \in captures[Mine(w)]
  <2>1. pcaps[Mine(w)].id # 0
    BY <1>2, <1>4 DEF IInv, Links, IdsOK
  <2>2. ScanLink(w)'
    BY <1>1, <1>2, <1>4, <2>1, SameLinks DEF Between
  <2>3. QED
    BY <1>1, <1>4, <2>2, QuietStep DEF Plain
<1>5. QED
  BY <1>3, <1>4, LookEffect DEF IInv, FP!IInv

LEMMA LinkStep ==
  ASSUME IInv, NEW w \in Worker, Link(w)
  PROVE  IInv'
<1>1. /\ scan[w].pc = "link" /\ UNCHANGED <<fvars, cvars, holder>>
      /\ captures' = captures
  BY DEF Link, At, cvars
<1>2. PICK n \in Name : n = Mine(w)
  BY <1>1, AtFile DEF Between
<1>3. /\ scan[w].cap \in captures[n] /\ scan[w].cap \in Nat /\ RowLink(n)
  BY <1>1, <1>2, AtFile DEF Between, ScanLink, Scan
<1>4. PICK s \in {"retry_pending", "registered", "imported"} :
        row' = [row EXCEPT ![n].cap = scan[w].cap, ![n].state = s]
  BY <1>2 DEF Link
<1>5. /\ RowStep(n) /\ row'[n].state = s /\ row'[n].cap = scan[w].cap
      /\ row'[n].sha = row[n].sha /\ row'[n].tries = row[n].tries
  <2>1. s \in States
    BY StatesAre DEF Ingested
  <2>2. QED
    BY <1>3, <1>4, <2>1, CaptureRow DEF IInv
<1>6. RowLink(n)'
  BY <1>1, <1>3, <1>5 DEF RowLink, Registered
<1>7. CASE Go(w, "parsing")
  <2>1. /\ Moved(w) /\ SameFile(w) /\ scan'[w].pc = "parsing"
        /\ scan'[w].cap = scan[w].cap
    BY <1>1, <1>7, GoEffect DEF IInv, Pcs, Between
  <2>2. ScanLink(w)'
    BY <1>1, <1>2, <1>3, <2>1, SameLinks DEF Between
  <2>3. QED
    BY <1>1, <1>5, <1>6, <2>1, <2>2, PlainStep DEF Plain
<1>8. CASE Leave(w, {n})
  <2>1. Moved(w) /\ ScanLink(w)' /\ scan'[w].pc \in {"files", "rows"}
    BY <1>1, <1>8, LeaveLinks
  <2>2. QED
    BY <1>1, <1>5, <1>6, <2>1, PlainStep DEF Plain
<1>9. QED
  BY <1>2, <1>7, <1>8 DEF Link

LEMMA MarkStep ==
  ASSUME IInv, NEW w \in Worker, MarkParsing(w)
  PROVE  IInv'
<1>1. /\ scan[w].pc = "parsing" /\ UNCHANGED <<fvars, cvars, holder>>
      /\ captures' = captures /\ Go(w, "parse")
  BY DEF MarkParsing, At, cvars
<1>2. PICK n \in Name : n = Mine(w)
  BY <1>1, AtFile DEF Between
<1>3. /\ scan[w].cap \in captures[n] /\ scan[w].cap \in Nat /\ RowLink(n)
      /\ row[n] \in Row
  BY <1>1, <1>2, AtFile DEF Between, ScanLink, Scan
<1> DEFINE r == [row[n] EXCEPT !.state = "parsing", !.cap = scan[w].cap]
<1>4. /\ r \in Row /\ r.state = "parsing" /\ r.cap = scan[w].cap
      /\ r.sha = row[n].sha /\ r.tries = row[n].tries
  BY <1>3, StatesAre DEF Row, Ingested
<1>5. row' = [row EXCEPT ![n] = r]
  BY <1>2 DEF MarkParsing
<1> HIDE DEF r
<1>6. RowStep(n) /\ row'[n] = r
  BY <1>4, <1>5, RowUpdate DEF IInv
<1>7. RowLink(n)'
  BY <1>1, <1>3, <1>4, <1>6 DEF RowLink, Registered
<1>8. /\ Moved(w) /\ SameFile(w) /\ scan'[w].pc = "parse"
      /\ scan'[w].cap = scan[w].cap
  BY <1>1, GoEffect DEF IInv, Pcs, Between
<1>9. ScanLink(w)'
  BY <1>1, <1>2, <1>3, <1>8, SameLinks DEF Between
<1>10. QED
  BY <1>1, <1>4, <1>6, <1>7, <1>8, <1>9, PlainStep DEF Plain

LEMMA RefusedStep ==
  ASSUME IInv, NEW w \in Worker, ParseRefused(w)
  PROVE  IInv'
<1>1. /\ scan[w].pc = "parse" /\ UNCHANGED <<fvars, row, cvars, holder>>
      /\ captures' = captures
  BY DEF ParseRefused, At, cvars
<1>2. /\ scan[w].cap \in captures[Mine(w)] /\ scan[w].cap \in Nat
  BY <1>1, AtFile DEF Between, ScanLink, Scan
<1>3. PICK out \in {"retry_pending", "failed"} : Conclude(w, out, scan[w].cap)
  BY DEF ParseRefused
<1>4. /\ Moved(w) /\ SameFile(w) /\ scan'[w].pc = "settle"
      /\ scan'[w].cap = scan[w].cap /\ scan'[w].out = out
  BY <1>1, <1>2, <1>3, ConcludeEffect DEF IInv, Between
<1>5. ScanLink(w)'
  BY <1>1, <1>2, <1>4, SameLinks DEF Between
<1>6. QED
  BY <1>1, <1>4, <1>5, QuietStep DEF Plain

\* A scan that ends, in the order or with an exception.
LEMMA AbortStep ==
  ASSUME IInv, NEW w \in Worker, scan' = [scan EXCEPT ![w] = NoScan],
         scan[w].pc \notin {"finalize", "running"},
         UNCHANGED <<fvars, row, cvars, holder>>
  PROVE  IInv'
<1>1. Moved(w) /\ ScanLink(w)' /\ scan'[w].pc = "idle"
  BY EndLinks
<1>2. QED
  BY <1>1, QuietStep DEF Plain

LEMMA SettleStep ==
  ASSUME IInv, NEW w \in Worker, Settle(w)
  PROVE  IInv'
<1>1. /\ scan[w].pc = "settle" /\ UNCHANGED <<fvars, cvars, holder>>
      /\ captures' = captures /\ Leave(w, {Mine(w)})
  BY DEF Settle, At, cvars
<1>2. PICK n \in Name : n = Mine(w)
  BY <1>1, AtFile DEF Between
<1>3. /\ RowStep(n) /\ row'[n].state = scan[w].out /\ row'[n].sha = row[n].sha
      /\ row'[n].cap = (IF scan[w].cap = 0 THEN row[n].cap ELSE scan[w].cap)
      /\ row'[n].tries = IF scan[w].retry /\ scan[w].out = "failed"
                         THEN scan[w].tries + 1 ELSE row[n].tries
  BY <1>2, SettleRow DEF IInv
<1>4. Moved(w) /\ ScanLink(w)' /\ scan'[w].pc \in {"files", "rows"}
  BY <1>1, <1>2, LeaveLinks
<1>5. /\ RowLink(n) /\ ScanLink(w) /\ scan[w] \in Scan /\ MaxRetries \in Nat
      /\ row[n] \in Row
  BY <1>1, <1>2, AtFile DEF Between
<1>6. row'[n].tries <= MaxRetries
  BY <1>3, <1>5 DEF RowLink, ScanLink, Scan, Row
<1>7. Registered(scan[w].cap, n) /\ (scan[w].out = "parsed" => scan[w].cap # 0)
  BY <1>1, <1>2, <1>5 DEF ScanLink
<1>8. RowLink(n)'
  BY <1>1, <1>3, <1>5, <1>6, <1>7 DEF RowLink, Registered
<1>9. QED
  BY <1>1, <1>3, <1>4, <1>8, PlainStep DEF Plain

LEMMA ListStep ==
  ASSUME IInv, NEW w \in Worker, ListRows(w)
  PROVE  IInv'
<1>1. /\ scan[w].pc = "files" /\ UNCHANGED <<fvars, row, cvars, holder>>
      /\ captures' = captures
  BY DEF ListRows, At, cvars
<1>2. /\ Moved(w) /\ scan'[w].pc = "rows" /\ scan'[w].retry = FALSE
      /\ scan'[w].rows = {[n |-> n, cap |-> row[n].cap, tries |-> row[n].tries] :
                            n \in ToRetry(w)}
  BY ListEffect DEF IInv
<1>3. ASSUME NEW x \in scan'[w].rows
      PROVE  x.tries <= MaxRetries /\ Registered(x.cap, x.n)'
  <2>1. PICK n \in Name : x = [n |-> n, cap |-> row[n].cap, tries |-> row[n].tries]
    BY <1>2, <1>3 DEF ToRetry
  <2>2. RowLink(n)
    BY DEF IInv, Links
  <2>3. QED
    BY <1>1, <2>1, <2>2 DEF RowLink, Registered
<1>4. ScanLink(w)'
  BY <1>2, <1>3 DEF ScanLink, Between
<1>5. QED
  BY <1>1, <1>2, <1>4, QuietStep DEF Plain

LEMMA RetryStep ==
  ASSUME IInv, NEW w \in Worker, RetryRow(w)
  PROVE  IInv'
<1>1. /\ scan[w].pc = "rows" /\ UNCHANGED <<fvars, cvars, holder>>
      /\ captures' = captures
  BY DEF RetryRow, At, cvars
<1>2. PICK x \in scan[w].rows :
        /\ Moved(w)
        /\ \/ /\ GivesUp(w, x) /\ scan'[w].rows = scan[w].rows \ {x}
              /\ scan'[w].pc = "rows" /\ scan'[w].retry = scan[w].retry
           \/ TakesUp(w, x)
  BY RetryEffect DEF IInv
<1>3. /\ x \in Listing /\ x.n \in Name /\ x.tries \in Nat /\ x.cap \in Nat
      /\ x.tries <= MaxRetries /\ Registered(x.cap, x.n)
      /\ RowLink(x.n) /\ MaxRetries \in Nat
  BY AtRows
<1>4. ScanLink(w) /\ ~scan[w].retry
  BY <1>1 DEF IInv, Links, ScanLink, Between
<1>5. CASE GivesUp(w, x) /\ scan'[w].rows = scan[w].rows \ {x}
             /\ scan'[w].pc = "rows" /\ scan'[w].retry = scan[w].retry
  <2>1. /\ RowStep(x.n) /\ row'[x.n].state = "failed"
        /\ row'[x.n].tries = (IF x.tries >= MaxRetries THEN x.tries
                                                       ELSE x.tries + 1)
        /\ row'[x.n].sha = row[x.n].sha /\ row'[x.n].cap = row[x.n].cap
    BY <1>5, GiveUpRow DEF IInv
  <2>2. row'[x.n].tries <= MaxRetries
    BY <1>3, <2>1
  <2>3. ASSUME NEW n, n = x.n PROVE RowLink(n)'
    BY <1>1, <1>3, <2>1, <2>2, <2>3 DEF RowLink, Registered
  <2>4. ScanLink(w)'
    BY <1>1, <1>4, <1>5, BetweenLinks DEF Between
  <2>5. Plain(w)
    BY <1>1, <1>2, <1>5 DEF Plain
  <2>6. QED
    BY <1>3, <2>1, <2>3, <2>4, <2>5, PlainStep
<1>6. CASE TakesUp(w, x)
  <2>1. /\ x.tries < MaxRetries /\ row' = row
        /\ scan'[w].pc = (IF x.cap = 0 THEN "look" ELSE "link")
        /\ scan'[w].rows = scan[w].rows \ {x} /\ scan'[w].n = x.n
        /\ scan'[w].cap = x.cap /\ scan'[w].tries = x.tries
    BY <1>6 DEF TakesUp
  <2>2. ScanLink(w)'
    BY <1>1, <1>3, <1>4, <2>1 DEF ScanLink, Registered, Between, Mine
  <2>3. QED
    BY <1>1, <1>2, <2>1, <2>2, QuietStep DEF Plain
<1>7. QED
  BY <1>2, <1>5, <1>6

-----------------------------------------------------------------------------
(* The steps of a scan that move a finalization.                            *)

LEMMA FileData == FP!DataAssumption
BY PartsAssumption DEF F!DataAssumption, FP!DataAssumption

\* What Finalize does to the files.
FileMove(w, id) == FP!Step(w, id) \/ FP!DiskFails(w) \/ FP!SyncFails(w)

\* The operations of the two instances of UploadFinalizer are the same.
LEMMA SameSteps ==
  ASSUME NEW w \in Worker, NEW id \in Nat
  PROVE  /\ F!Step(w, id) => FP!Step(w, id)
         /\ F!DiskFails(w) => FP!DiskFails(w)
         /\ F!SyncFails(w) => FP!SyncFails(w)
         /\ FileMove(w, id) => FP!Act(w)
<1>1. FileMove(w, id) => FP!Act(w)
  BY DEF FileMove, FP!Step, FP!Act
<1>2. F!DiskFails(w) => FP!DiskFails(w)
  BY DEF F!DiskFails, FP!DiskFails, F!At, FP!At, F!Fail, FP!Fail, F!Content,
         FP!Content, F!Version, FP!Version
<1>3. F!SyncFails(w) => FP!SyncFails(w)
  BY DEF F!SyncFails, FP!SyncFails, F!At, FP!At, F!Fail, FP!Fail,
         F!SameInode, FP!SameInode
<1>4. F!Step(w, id) => FP!Step(w, id)
  BY DEF F!Step, FP!Step, F!Commit, FP!Commit, F!At, FP!At, F!Move,
         FP!Move, F!StatSource, FP!StatSource, F!Fail, FP!Fail, F!OpenSource,
         FP!OpenSource, F!SameInode, FP!SameInode, F!Content, FP!Content,
         F!Version, FP!Version, F!Copy, FP!Copy, F!Recheck, FP!Recheck,
         F!Verify, FP!Verify, F!UnlinkSource, FP!UnlinkSource
<1>5. QED
  BY <1>1, <1>2, <1>3, <1>4

\* ... and a scan takes them with the new identity of its file.
LEMMA FinalizeMoves ==
  ASSUME NEW w \in Worker, NEW id \in Nat, id = FreshId(Mine(w)), Finalize(w)
  PROVE  FileMove(w, id) /\ FP!Act(w)
<1>1. F!Step(w, id) \/ F!DiskFails(w) \/ F!SyncFails(w)
  BY DEF Finalize
<1>2. QED
  BY <1>1, SameSteps DEF FileMove

LEMMA SameBegin ==
  ASSUME NEW w \in Worker, NEW n \in Name, F!Begin(w, n)
  PROVE  FP!Begin(w, n) /\ FP!Act(w)
BY DEF F!Begin, FP!Begin, FP!Act, F!At, FP!At, F!NoJob, FP!NoJob

LEMMA SameReturn ==
  ASSUME NEW w \in Worker, F!Return(w)
  PROVE  FP!Return(w) /\ FP!Act(w)
BY DEF F!Return, FP!Return, FP!Act, F!NoJob, FP!NoJob

\* A step of a finalization keeps its file and gives the caller no answer yet.
LEMMA StepKeepsName ==
  ASSUME FP!TypeOK, NEW w \in Worker, NEW id \in Nat, FileMove(w, id)
  PROVE  /\ job[w].stage # "idle" /\ job'[w].stage # "idle"
         /\ job'[w].name = job[w].name
<1> DEFINE j == job[w]
<1>1. job \in [Worker -> FP!Jobs] /\ j \in FP!Jobs
  BY DEF FP!TypeOK, FP!Jobs
<1>2. ASSUME NEW s, s # "idle", FP!Move(w, s)
      PROVE  job'[w].stage # "idle" /\ job'[w].name = j.name
  <2>1. job' = [job EXCEPT ![w] = [j EXCEPT !.stage = s]]
    BY <1>2 DEF FP!Move
  <2>2. job'[w] = [j EXCEPT !.stage = s]
    BY <1>1, <2>1
  <2>3. QED
    BY <1>1, <1>2, <2>2 DEF FP!Jobs
<1>3. ASSUME NEW y, FP!Fail(w, y)
      PROVE  job'[w].stage # "idle" /\ job'[w].name = j.name
  <2>1. job' = [job EXCEPT ![w] = [j EXCEPT !.stage = "failed", !.why = y]]
    BY <1>3 DEF FP!Fail
  <2>2. job'[w] = [j EXCEPT !.stage = "failed", !.why = y]
    BY <1>1, <2>1
  <2>3. QED
    BY <1>1, <2>2 DEF FP!Jobs
<1>4. CASE FP!StatSource(w)
  <2>1. ASSUME NEW i, job' = [job EXCEPT ![w].stage = "open", ![w].ino = i]
        PROVE  job'[w].stage # "idle" /\ job'[w].name = j.name
    <3>1. job'[w] = [j EXCEPT !.stage = "open", !.ino = i]
      BY <1>1, <2>1
    <3>2. QED
      BY <1>1, <3>1 DEF FP!Jobs
  <2>2. QED
    BY <1>3, <1>4, <2>1 DEF FP!StatSource, FP!At
<1>5. CASE FP!OpenSource(w)
  <2>1. ASSUME NEW i, job' = [job EXCEPT ![w].stage = "copy", ![w].ver = i]
        PROVE  job'[w].stage # "idle" /\ job'[w].name = j.name
    <3>1. job'[w] = [j EXCEPT !.stage = "copy", !.ver = i]
      BY <1>1, <2>1
    <3>2. QED
      BY <1>1, <3>1 DEF FP!Jobs
  <2>2. QED
    BY <1>3, <1>5, <2>1 DEF FP!OpenSource, FP!At
<1>6. CASE FP!Copy(w)
  <2>1. ASSUME NEW i, job' = [job EXCEPT ![w].stage = "recheck", ![w].buf = i]
        PROVE  job'[w].stage # "idle" /\ job'[w].name = j.name
    <3>1. job'[w] = [j EXCEPT !.stage = "recheck", !.buf = i]
      BY <1>1, <2>1
    <3>2. QED
      BY <1>1, <3>1 DEF FP!Jobs
  <2>2. QED
    BY <1>3, <1>6, <2>1 DEF FP!Copy, FP!At
<1>7. CASE FP!Recheck(w)
  BY <1>2, <1>3, <1>7 DEF FP!Recheck, FP!At
<1>8. CASE FP!Commit(w, id)
  BY <1>2, <1>8 DEF FP!Commit, FP!At
<1>9. CASE FP!Verify(w)
  BY <1>2, <1>3, <1>9 DEF FP!Verify, FP!At
<1>10. CASE FP!UnlinkSource(w)
  BY <1>2, <1>3, <1>10 DEF FP!UnlinkSource, FP!At
<1>11. CASE FP!DiskFails(w) \/ FP!SyncFails(w)
  BY <1>3, <1>11 DEF FP!DiskFails, FP!SyncFails, FP!At
<1>12. QED
  BY <1>4, <1>5, <1>6, <1>7, <1>8, <1>9, <1>10, <1>11 DEF FP!Step, FileMove

\* What a finalization leaves alone, in terms of a scan's step.
LEMMA ActParts ==
  ASSUME IInv, NEW w \in Worker, FP!Act(w)
  PROVE  /\ FP!IInv' /\ uploads' = uploads
         /\ \A v \in Worker \ {w} : job'[v] = job[v]
<1>1. FP!IInv'
  BY FileData, FP!ActStep DEF IInv
<1>2. FP!TypeOK
  BY DEF IInv, FP!IInv
<1>3. QED
  BY <1>1, <1>2, FileData, FP!ActFrame

LEMMA BeginJob ==
  ASSUME FP!TypeOK, NEW w \in Worker, NEW n \in Name, F!Begin(w, n)
  PROVE  job'[w].stage = "stat" /\ job'[w].name = n /\ pcaps' = pcaps
BY DEF F!Begin, FP!TypeOK, F!NoJob

LEMMA ReturnJob ==
  ASSUME FP!TypeOK, NEW w \in Worker, F!Return(w)
  PROVE  /\ job'[w].stage = "idle" /\ pcaps' = pcaps
         /\ job[w].stage \in {"done", "failed"}
BY DEF F!Return, FP!TypeOK, F!NoJob

LEMMA FileStep ==
  ASSUME IInv, NEW w \in Worker, Moved(w), FP!Act(w), UNCHANGED <<cvars, holder>>,
         scan[w].pc # "running", scan'[w].pc # "running", JobMatch(w)', IdsOK',
         NEW n \in Name, RowStep(n), RowLink(n)', ScanLink(w)', ShaUnique'
  PROVE  IInv'
<1>1. /\ FP!IInv' /\ \A v \in Worker \ {w} : job'[v] = job[v]
  BY ActParts
<1>2. TypeOK'
  BY TypeStep, CvarsKept DEF IInv, RowStep
<1>3. \A v \in Worker : JobMatch(v)'
  BY <1>1, JobsKept DEF IInv
<1>4. OneParserRuns'
  BY ParserKept DEF IInv
<1>5. Links'
  BY LinksKept DEF IInv, RowStep, cvars
<1>6. QED
  BY <1>1, <1>2, <1>3, <1>4, <1>5 DEF IInv

LEMMA IdsKept ==
  ASSUME IInv, pcaps' = pcaps, captures' = captures
  PROVE  IdsOK'
BY DEF IInv, Links, IdsOK

\* A row that changes neither its capture nor its tries, nor to parsed.
LEMMA LinkKept ==
  ASSUME IInv, NEW n \in Name, captures' = captures,
         row'[n].cap = row[n].cap, row'[n].tries = row[n].tries,
         row'[n].state # "parsed"
  PROVE  RowLink(n)'
BY DEF IInv, Links, RowLink, Registered

LEMMA ClaimStep ==
  ASSUME IInv, NEW w \in Worker, Claim(w)
  PROVE  IInv'
<1>1. /\ scan[w].pc = "decide" /\ UNCHANGED <<cvars, holder>>
      /\ captures' = captures /\ Go(w, "finalize")
  BY DEF Claim, At, cvars
<1>2. PICK n \in Name : n = Mine(w)
  BY <1>1, AtFile DEF Between
<1>3. SetState(n, "validating") /\ F!Begin(w, n)
  BY <1>2 DEF Claim
<1>4. /\ RowStep(n) /\ row'[n].state = "validating" /\ row'[n].sha = row[n].sha
      /\ row'[n].cap = row[n].cap /\ row'[n].tries = row[n].tries
  BY <1>3, SetStateEffect, StatesAre DEF IInv
<1>5. /\ Moved(w) /\ SameFile(w) /\ scan'[w].pc = "finalize"
  BY <1>1, GoEffect DEF IInv, Pcs, Between
<1>6. job'[w].stage = "stat" /\ job'[w].name = n /\ pcaps' = pcaps
  BY <1>3, BeginJob DEF IInv, FP!IInv
<1>7. JobMatch(w)'
  BY <1>2, <1>5, <1>6 DEF JobMatch, At, Mine, SameFile
<1>8. ScanLink(w)'
  BY <1>1, <1>5, SameLinks DEF Between
<1>9. RowLink(n)' /\ ShaUnique' /\ IdsOK'
  BY <1>1, <1>4, <1>6, LinkKept, ShaKept, IdsKept DEF IInv, RowStep
<1>10. FP!Act(w)
  BY <1>3, SameBegin
<1>11. QED
  BY <1>1, <1>4, <1>5, <1>7, <1>8, <1>9, <1>10, FileStep

\* A step of a finalization puts nothing but a new identity into pcaps/.
LEMMA StepPcaps ==
  ASSUME FP!TypeOK, NEW w \in Worker, NEW id \in Nat, FileMove(w, id)
  PROVE  \/ pcaps' = pcaps
         \/ /\ job[w].stage = "commit"
            /\ pcaps' = [pcaps EXCEPT ![job[w].name] =
                           [id |-> id, data |-> job[w].buf]]
         \/ /\ job[w].stage = "verify" /\ pcaps[job[w].name] # None
            /\ pcaps[job[w].name].data # job[w].buf
            /\ pcaps' = [pcaps EXCEPT ![job[w].name] = None]
BY DEF FileMove, FP!Step, FP!StatSource, FP!OpenSource, FP!Copy, FP!Recheck,
       FP!Commit, FP!Verify, FP!UnlinkSource, FP!DiskFails, FP!SyncFails, FP!At

LEMMA FinalizeStep ==
  ASSUME IInv, NEW w \in Worker, Finalize(w)
  PROVE  IInv'
<1>1. /\ scan[w].pc = "finalize" /\ UNCHANGED <<row, cvars, scan, holder>>
      /\ captures' = captures
  BY DEF Finalize, At, cvars
<1>2. PICK n \in Name : n = Mine(w)
  BY <1>1, AtFile DEF Between
<1>3. PICK id \in Nat \ {0} : id = FreshId(n)
  BY FreshIsNew DEF IInv
<1>5. FileMove(w, id) /\ FP!Act(w)
  BY <1>2, <1>3, FinalizeMoves
<1>6. job'[w].stage # "idle" /\ job'[w].name = job[w].name
  BY <1>5, StepKeepsName DEF IInv, FP!IInv
<1>7. job[w].name = n
  BY <1>1, <1>2 DEF IInv, JobMatch, At
<1>8. JobMatch(w)'
  BY <1>1, <1>2, <1>6, <1>7 DEF JobMatch, At, Mine
<1>9. IdsOK'
  <2>1. pcaps \in [Name -> FP!Evidence \cup {None}]
    BY DEF IInv, FP!IInv, FP!TypeOK, FP!Evidence
  <2>2. IdsOK
    BY DEF IInv, Links
  <2>3. \/ pcaps' = pcaps
        \/ pcaps' = [pcaps EXCEPT ![n] = [id |-> id, data |-> job[w].buf]]
        \/ pcaps' = [pcaps EXCEPT ![n] = None]
    BY <1>5, <1>7, StepPcaps DEF IInv, FP!IInv
  <2>4. QED
    BY <1>1, <2>1, <2>2, <2>3 DEF IdsOK
<1>10. Moved(w)
  BY <1>1 DEF IInv, TypeOK, Moved, Mine
<1>11. RowStep(n)
  BY <1>1 DEF IInv, TypeOK, RowStep
<1>12. RowLink(n)' /\ ScanLink(w)'
  BY <1>1 DEF IInv, Links, RowLink, ScanLink, Registered, Mine
<1>13. ShaUnique'
  BY <1>1, ShaKept DEF IInv
<1>14. QED
  BY <1>1, <1>5, <1>8, <1>9, <1>10, <1>11, <1>12, <1>13, FileStep

\* The answer of a finalization takes its scan on to the next file.
LEMMA AnsweredStep ==
  ASSUME IInv, NEW w \in Worker, scan[w].pc = "finalize", F!Return(w),
         UNCHANGED <<cvars, holder>>, NEW h \in SUBSET Name, Leave(w, h),
         NEW n \in Name, RowStep(n), RowLink(n)', ShaUnique'
  PROVE  IInv'
<1>1. captures' = captures
  BY DEF cvars
<1>2. Moved(w) /\ ScanLink(w)' /\ scan'[w].pc \in {"files", "rows"}
  BY <1>1, LeaveLinks
<1>3. job'[w].stage = "idle" /\ pcaps' = pcaps
  BY ReturnJob DEF IInv, FP!IInv
<1>4. JobMatch(w)'
  BY <1>2, <1>3 DEF JobMatch, At
<1>5. IdsOK'
  BY <1>1, <1>3, IdsKept
<1>6. FP!Act(w)
  BY SameReturn
<1>7. QED
  BY <1>2, <1>4, <1>5, <1>6, FileStep

LEMMA RowUnchanged ==
  ASSUME IInv, NEW n \in Name, row' = row, captures' = captures
  PROVE  RowStep(n) /\ RowLink(n)' /\ ShaUnique'
<1>1. RowStep(n)
  BY DEF IInv, TypeOK, RowStep
<1>2. RowLink(n)'
  BY DEF IInv, Links, RowLink, Registered
<1>3. ShaUnique'
  BY ShaKept DEF IInv
<1>4. QED
  BY <1>1, <1>2, <1>3

LEMMA FailedStep ==
  ASSUME IInv, NEW w \in Worker, FinalizationFailed(w)
  PROVE  IInv'
<1>1. /\ scan[w].pc = "finalize" /\ UNCHANGED <<cvars, holder>>
      /\ captures' = captures /\ F!Return(w)
  BY DEF FinalizationFailed, At, cvars
<1>2. PICK n \in Name : n = Mine(w)
  BY <1>1, AtFile DEF Between
<1>3. PICK s \in {"quarantined", "failed"} : SetState(n, s)
  BY <1>2 DEF FinalizationFailed
<1>4. Leave(w, {n})
  BY <1>2 DEF FinalizationFailed
<1>5. /\ RowStep(n) /\ row'[n].state = s /\ row'[n].sha = row[n].sha
      /\ row'[n].cap = row[n].cap /\ row'[n].tries = row[n].tries
  BY <1>3, SetStateEffect, StatesAre DEF IInv
<1>6. RowLink(n)' /\ ShaUnique'
  BY <1>1, <1>5, LinkKept, ShaKept DEF IInv, RowStep
<1>7. QED
  BY <1>1, <1>4, <1>5, <1>6, AnsweredStep

\* The copy that a finalization has put in place is of the upload.
LEMMA DoneData ==
  ASSUME IInv, NEW w \in Worker, scan[w].pc = "finalize", job[w].stage \in FP!Copied
  PROVE  job[w].buf \in Data
BY DEF IInv, FP!IInv, FP!JobOK, FP!Container

LEMMA ValidatedStep ==
  ASSUME IInv, NEW w \in Worker, Validated(w)
  PROVE  IInv'
<1>1. /\ scan[w].pc = "finalize" /\ UNCHANGED <<cvars, holder>>
      /\ captures' = captures /\ F!Return(w) /\ job[w].stage = "done"
  BY DEF Validated, At, F!At, cvars
<1>2. PICK n \in Name, d \in Data : n = Mine(w) /\ d = job[w].buf
  BY <1>1, AtFile, DoneData DEF Between, FP!Copied
<1>3. CASE ShaTaken(n, d)
  <2>1. Leave(w, {}) /\ row' = row
    BY <1>2, <1>3 DEF Validated
  <2>2. RowStep(n) /\ RowLink(n)' /\ ShaUnique'
    BY <1>1, <2>1, RowUnchanged
  <2>3. QED
    BY <1>1, <2>1, <2>2, AnsweredStep
<1>4. CASE ~ShaTaken(n, d)
  <2>1. /\ StoresHash(n, "validated", d)
        /\ scan' = [scan EXCEPT ![w].pc = "promote", ![w].data = d]
    BY <1>2, <1>4 DEF Validated, StoresHash
  <2>2. /\ RowStep(n) /\ row'[n].state = "validated" /\ row'[n].sha = d
        /\ row'[n].cap = row[n].cap /\ row'[n].tries = row[n].tries
    BY <2>1, HashRow, StatesAre DEF IInv
  <2>3. /\ Moved(w) /\ SameFile(w) /\ scan'[w].pc = "promote"
        /\ scan'[w].data = d
    BY <1>1, <2>1, ValidatedEffect DEF IInv
  <2>4. job'[w].stage = "idle" /\ pcaps' = pcaps
    BY <1>1, ReturnJob DEF IInv, FP!IInv
  <2>5. JobMatch(w)'
    BY <2>3, <2>4 DEF JobMatch, At
  <2>6. IdsOK' /\ RowLink(n)'
    BY <1>1, <2>2, <2>4, IdsKept, LinkKept
  <2>7. ScanLink(w)'
    BY <1>1, <2>3, SameLinks DEF Between
  <2>8. ShaUnique'
    BY <1>4, <2>2, ShaStored DEF IInv, RowStep
  <2>9. FP!Act(w)
    BY <1>1, SameReturn
  <2>10. QED
    BY <1>1, <2>2, <2>3, <2>5, <2>6, <2>7, <2>8, <2>9, FileStep
<1>5. QED
  BY <1>3, <1>4

\* A statement that fails outside any handler.
LEMMA StatementStep ==
  ASSUME IInv, NEW w \in Worker, StatementFails(w)
  PROVE  IInv'
<1>1. UNCHANGED <<row, cvars, holder>> /\ captures' = captures
  BY DEF StatementFails, cvars
<1>2. CASE scan[w].pc = "finalize"
  <2>1. F!Return(w)
    BY <1>2 DEF StatementFails
  <2>2. PICK n \in Name : n = Mine(w)
    BY <1>2, AtFile DEF Between
  <2>3. RowStep(n) /\ RowLink(n)' /\ ShaUnique'
    BY <1>1, RowUnchanged
  <2>4. CASE scan[w].retry
    <3>1. scan' = [scan EXCEPT ![w] = NoScan]
      BY <2>4 DEF StatementFails, Abort
    <3>2. Moved(w) /\ ScanLink(w)' /\ scan'[w].pc = "idle"
      BY <3>1, EndLinks
    <3>3. job'[w].stage = "idle" /\ pcaps' = pcaps
      BY <2>1, ReturnJob DEF IInv, FP!IInv
    <3>4. JobMatch(w)' /\ IdsOK'
      BY <1>1, <3>2, <3>3, IdsKept DEF JobMatch, At
    <3>5. FP!Act(w)
      BY <2>1, SameReturn
    <3>6. QED
      BY <1>1, <1>2, <2>3, <3>2, <3>4, <3>5, FileStep
  <2>5. CASE ~scan[w].retry
    <3>1. Leave(w, {})
      BY <2>5 DEF StatementFails
    <3>2. QED
      BY <1>1, <1>2, <2>1, <2>3, <3>1, AnsweredStep
  <2>6. QED
    BY <2>4, <2>5
<1>3. CASE scan[w].pc # "finalize"
  <2>1. UNCHANGED fvars
        /\ scan[w].pc \in {"decide", "promote", "link", "parsing", "settle"}
    BY <1>3 DEF StatementFails, At
  <2>2. CASE scan[w].retry
    BY <1>1, <2>1, <2>2, AbortStep DEF StatementFails, Abort
  <2>3. CASE ~scan[w].retry
    <3>1. Leave(w, {})
      BY <2>3 DEF StatementFails
    <3>2. Moved(w) /\ ScanLink(w)' /\ scan'[w].pc \in {"files", "rows"}
      BY <1>1, <3>1, LeaveLinks
    <3>3. QED
      BY <1>1, <2>1, <3>2, QuietStep DEF Plain
  <2>4. QED
    BY <2>2, <2>3
<1>4. QED
  BY <1>2, <1>3

-----------------------------------------------------------------------------
(* The steps that register a capture or run the parser.                     *)

LEMMA CaptureStep ==
  ASSUME IInv, NEW w \in Worker, Moved(w), UNCHANGED <<fvars, row>>,
         scan[w].pc \notin {"idle", "files", "rows", "finalize"},
         scan'[w].pc # "finalize", CvarsOK',
         \A m \in Name : captures[m] \subseteq captures'[m] /\ 0 \notin captures'[m],
         ScanLink(w)', OneParserRuns'
  PROVE  IInv'
<1>1. PICK n \in Name : n = Mine(w)
  BY AtFile DEF Between
<1>2. row' \in [Name -> Row]
  BY DEF IInv, TypeOK
<1>3. TypeOK' /\ FP!IInv'
  BY <1>2, TypeStep, FilesKept DEF IInv
<1>4. \A v \in Worker : JobMatch(v)'
  <2>1. job' = job
    BY DEF fvars
  <2>2. JobMatch(w)'
    BY <2>1 DEF IInv, JobMatch, At
  <2>3. QED
    BY <2>1, <2>2, JobsKept DEF IInv
<1>5. IdsOK'
  BY DEF IInv, Links, IdsOK, fvars
<1>6. RowLink(n)'
  BY DEF IInv, Links, RowLink, Registered
<1>7. Links'
  BY <1>5, <1>6, LinksKept DEF IInv
<1>8. ShaUnique'
  BY ShaKept DEF IInv
<1>9. QED
  BY <1>3, <1>4, <1>7, <1>8 DEF IInv

\* Nobody else runs the parser, so w may start it; w has it, so w may end it.
LEMMA HolderStep ==
  ASSUME OneParserRuns, NEW w \in Worker, Moved(w),
         \/ /\ holder \in {M!Nobody, M!Lingering} /\ holder' = w
            /\ scan'[w].pc = "running"
         \/ /\ holder = w /\ holder' \in {M!Nobody, M!Lingering}
            /\ scan'[w].pc # "running"
         \/ /\ holder = M!Nobody /\ holder' = M!Lingering
            /\ scan'[w].pc # "running"
  PROVE  OneParserRuns'
<1>1. \A v \in Worker : v # M!Nobody /\ v # M!Lingering
  BY PartsAssumption
<1>2. ASSUME NEW v \in Worker PROVE (At(v, "running") <=> holder = v)'
  <2>1. CASE v = w
    BY <1>1, <2>1 DEF OneParserRuns, At
  <2>2. CASE v # w
    BY <1>1, <2>2 DEF OneParserRuns, At, Moved
  <2>3. QED
    BY <2>1, <2>2
<1>3. QED
  BY <1>2 DEF OneParserRuns

LEMMA InsertStep ==
  ASSUME IInv, NEW w \in Worker, Insert(w)
  PROVE  IInv'
<1>1. /\ scan[w].pc = "insert" /\ UNCHANGED <<fvars, row, complete, runs, holder>>
  BY DEF Insert, At
<1>2. PICK n \in Name, c \in Nat \ {0} : n = Mine(w) /\ c = scan[w].cap
  BY <1>1, AtFile DEF Between, ScanLink, Scan
<1>3. CASE c \in captures[n]
  <2>1. Conclude(w, "failed", 0) /\ captures' = captures
    BY <1>2, <1>3 DEF Insert
  <2>2. /\ Moved(w) /\ SameFile(w) /\ scan'[w].pc = "settle"
        /\ scan'[w].cap = 0 /\ scan'[w].out = "failed"
    BY <1>1, <2>1, ConcludeEffect DEF IInv, Between
  <2>3. ScanLink(w)'
    BY <1>1, <2>1, <2>2, SameLinks DEF Between
  <2>4. QED
    BY <1>1, <2>1, <2>2, <2>3, QuietStep DEF Plain, cvars
<1>4. CASE c \notin captures[n]
  <2>1. Go(w, "link") /\ captures' = [captures EXCEPT ![n] = captures[n] \cup {c}]
    BY <1>2, <1>4 DEF Insert
  <2>2. /\ Moved(w) /\ SameFile(w) /\ scan'[w].pc = "link" /\ scan'[w].cap = c
    BY <1>1, <1>2, <2>1, GoEffect DEF IInv, Pcs, Between
  <2>3. TypeOK
    BY DEF IInv
  <2>4. \A m \in Name : captures'[m] = IF m = n THEN captures[m] \cup {c}
                                               ELSE captures[m]
    BY <2>1, <2>3 DEF TypeOK
  <2>5. IsFiniteSet(captures[n] \cup {c})
    BY <2>3, FS_AddElement DEF TypeOK
  <2>6. captures' \in [Name -> SUBSET Nat]
    BY <2>1, <2>3 DEF TypeOK
  <2>7. CvarsOK'
    <3>1. \A m \in Name : /\ IsFiniteSet(captures'[m])
                          /\ complete'[m] \subseteq captures'[m]
      BY <1>1, <2>3, <2>4, <2>5 DEF TypeOK
    <3>2. QED
      BY <1>1, <2>3, <2>6, <3>1 DEF TypeOK, CvarsOK
  <2>8. \A m \in Name : captures[m] \subseteq captures'[m] /\ 0 \notin captures'[m]
    BY <2>4 DEF IInv, Links, IdsOK
  <2>9. ScanLink(w)'
    <3>1. scan'[w].cap \in captures'[Mine(w)]
      BY <1>2, <2>2, <2>4
    <3>2. QED
      BY <1>1, <2>2, <2>8, <3>1, SameLinks DEF Between
  <2>10. OneParserRuns'
    BY <1>1, <2>2, ParserKept DEF IInv
  <2>11. QED
    BY <1>1, <2>2, <2>7, <2>8, <2>9, <2>10, CaptureStep
<1>5. QED
  BY <1>3, <1>4

\* The last parse run of capture c of n succeeds, or a run of it begins.
LEMMA CompleteType ==
  ASSUME TypeOK, NEW n \in Name, NEW c \in captures[n], captures' = captures,
         \/ complete' = complete
         \/ complete' = [complete EXCEPT ![n] = complete[n] \cup {c}]
         \/ complete' = [complete EXCEPT ![n] = complete[n] \ {c}],
         runs' \in [Name -> Nat]
  PROVE  CvarsOK'
<1>1. complete' \in [Name -> SUBSET Nat]
  BY DEF TypeOK
<1>2. \A m \in Name : complete'[m] \subseteq captures'[m]
  BY DEF TypeOK
<1>3. QED
  BY <1>1, <1>2 DEF TypeOK, CvarsOK

LEMMA StartParserStep ==
  ASSUME IInv, NEW w \in Worker, StartParser(w)
  PROVE  IInv'
<1>1. /\ scan[w].pc = "parse" /\ UNCHANGED <<fvars, row>> /\ captures' = captures
      /\ Go(w, "running") /\ M!Acquire(w)
  BY DEF StartParser, At
<1>2. PICK n \in Name : n = Mine(w)
  BY <1>1, AtFile DEF Between
<1>3. scan[w].cap \in captures[n] /\ TypeOK /\ MaxRetries \in Nat
  BY <1>1, <1>2, AtFile DEF Between, ScanLink, IInv
<1>4. /\ Moved(w) /\ SameFile(w) /\ scan'[w].pc = "running"
      /\ scan'[w].cap = scan[w].cap
  BY <1>1, GoEffect DEF IInv, Pcs, Between
<1>5. complete' = [complete EXCEPT ![n] = complete[n] \ {scan[w].cap}]
  BY <1>2 DEF StartParser
<1>6. runs' \in [Name -> Nat]
  <2>1. runs' = [runs EXCEPT ![n] = IF runs[n] < MaxRetries + 2 THEN runs[n] + 1
                                                                ELSE runs[n]]
    BY <1>2 DEF StartParser
  <2>2. QED
    BY <1>3, <2>1 DEF TypeOK
<1>7. CvarsOK'
  BY <1>1, <1>3, <1>5, <1>6, CompleteType
<1>8. OneParserRuns'
  BY <1>1, <1>4, HolderStep DEF IInv, M!Acquire
<1>9. ScanLink(w)'
  BY <1>1, <1>2, <1>3, <1>4, SameLinks DEF Between
<1>10. \A m \in Name : captures[m] \subseteq captures'[m] /\ 0 \notin captures'[m]
  BY <1>1 DEF IInv, Links, IdsOK
<1>11. QED
  BY <1>1, <1>4, <1>7, <1>8, <1>9, <1>10, CaptureStep

\* The parser is done, however it went; its file may have been replaced.
LEMMA RunOver ==
  ASSUME IInv, NEW w \in Worker, scan[w].pc = "running", UNCHANGED <<fvars, row, runs>>,
         M!Finish(w), NEW out \in {"parsed", "failed"},
         Conclude(w, out, scan[w].cap), NEW n \in Name, n = Mine(w),
         \/ complete' = complete
         \/ complete' = [complete EXCEPT ![n] = complete[n] \cup {scan[w].cap}],
         \/ captures' = captures
         \/ /\ complete' = complete /\ pcaps[n] # None
            /\ captures' = [captures EXCEPT ![n] = captures[n] \cup {pcaps[n].id}]
  PROVE  IInv'
<1>1. /\ scan[w].cap \in captures[n] /\ scan[w].cap \in Nat /\ TypeOK /\ FP!TypeOK
  BY AtFile DEF Between, ScanLink, Scan, IInv, FP!IInv
<1>2. /\ Moved(w) /\ SameFile(w) /\ scan'[w].pc = "settle"
      /\ scan'[w].cap = scan[w].cap /\ scan'[w].out = out
  BY <1>1, ConcludeEffect DEF IInv, Between
<1>3. IdsOK
  BY DEF IInv, Links
<1>4. CvarsOK' /\ \A m \in Name : captures[m] \subseteq captures'[m]
                                  /\ 0 \notin captures'[m]
  <2>1. CASE captures' = captures
    <3>1. runs' \in [Name -> Nat]
      BY <1>1 DEF TypeOK
    <3>2. QED
      BY <1>1, <1>3, <2>1, <3>1, CompleteType DEF IdsOK
  <2>2. CASE /\ complete' = complete /\ pcaps[n] # None
             /\ captures' = [captures EXCEPT ![n] = captures[n] \cup {pcaps[n].id}]
    <3>1. pcaps[n].id \in Nat /\ pcaps[n].id # 0
      BY <1>1, <1>3, <2>2, EvidenceType DEF IdsOK
    <3>2. \A m \in Name : captures'[m] = IF m = n THEN captures[m] \cup {pcaps[n].id}
                                                 ELSE captures[m]
      BY <1>1, <2>2 DEF TypeOK
    <3>3. IsFiniteSet(captures[n] \cup {pcaps[n].id})
      BY <1>1, FS_AddElement DEF TypeOK
    <3>4. captures' \in [Name -> SUBSET Nat]
      BY <1>1, <2>2, <3>1 DEF TypeOK
    <3>5. \A m \in Name : /\ IsFiniteSet(captures'[m])
                          /\ complete'[m] \subseteq captures'[m]
      BY <1>1, <2>2, <3>2, <3>3 DEF TypeOK
    <3>6. QED
      BY <1>1, <1>3, <2>2, <3>1, <3>2, <3>4, <3>5 DEF TypeOK, CvarsOK, IdsOK
  <2>3. QED
    BY <2>1, <2>2
<1>5. ScanLink(w)'
  <2>1. scan[w].cap \in captures'[n] /\ scan[w].cap # 0
    BY <1>1, <1>3, <1>4 DEF IdsOK
  <2>2. QED
    BY <1>2, <1>4, <2>1, SameLinks DEF Between
<1>6. OneParserRuns'
  BY <1>2, HolderStep DEF IInv, M!Finish
<1>7. QED
  BY <1>2, <1>4, <1>5, <1>6, CaptureStep

LEMMA ParserEndsStep ==
  ASSUME IInv, NEW w \in Worker, ParserEnds(w)
  PROVE  IInv'
<1>1. scan[w].pc = "running" /\ UNCHANGED <<fvars, row, runs>> /\ M!Finish(w)
  BY DEF ParserEnds, At
<1>2. PICK n \in Name : n = Mine(w)
  BY <1>1, AtFile DEF Between
<1>3. CASE RunSucceeds(n, scan[w].cap) /\ Conclude(w, "parsed", scan[w].cap)
             /\ captures' = captures
  BY <1>1, <1>2, <1>3, RunOver DEF RunSucceeds
<1>4. CASE /\ complete' = complete /\ Conclude(w, "failed", scan[w].cap)
           /\ \/ captures' = captures
              \/ /\ pcaps[n] # None
                 /\ captures' = [captures EXCEPT ![n] = captures[n] \cup {pcaps[n].id}]
  BY <1>1, <1>2, <1>4, RunOver
<1>5. QED
  BY <1>2, <1>3, <1>4 DEF ParserEnds

LEMMA HandledStep ==
  ASSUME IInv, NEW w \in Worker, HandledFailure(w)
  PROVE  IInv'
<1>1. UNCHANGED <<fvars, row, captures, runs>>
  BY DEF HandledFailure
<1>2. CASE /\ scan[w].pc \in {"look", "insert"} /\ Conclude(w, "failed", 0)
           /\ UNCHANGED <<holder, complete>>
  <2>1. /\ Moved(w) /\ SameFile(w) /\ scan'[w].pc = "settle"
        /\ scan'[w].cap = 0 /\ scan'[w].out = "failed"
    BY <1>2, ConcludeEffect DEF IInv, Between
  <2>2. ScanLink(w)'
    BY <1>1, <1>2, <2>1, SameLinks DEF Between
  <2>3. QED
    BY <1>1, <1>2, <2>1, <2>2, QuietStep DEF Plain, cvars
<1>3. CASE /\ scan[w].pc = "parse" /\ Conclude(w, "failed", scan[w].cap)
           /\ complete' = complete /\ (holder' = holder \/ M!Linger)
  <2>1. scan[w].cap \in captures[Mine(w)] /\ scan[w].cap \in Nat
    BY <1>3, AtFile DEF Between, ScanLink, Scan
  <2>2. /\ Moved(w) /\ SameFile(w) /\ scan'[w].pc = "settle"
        /\ scan'[w].cap = scan[w].cap /\ scan'[w].out = "failed"
    BY <1>3, <2>1, ConcludeEffect DEF IInv, Between
  <2>3. ScanLink(w)'
    BY <1>1, <1>3, <2>1, <2>2, SameLinks DEF Between
  <2>4. OneParserRuns'
    BY <1>3, <2>2, HolderStep, ParserKept DEF IInv, M!Linger
  <2>5. CvarsOK'
    BY <1>1, <1>3, CvarsKept DEF IInv, cvars
  <2>6. \A m \in Name : captures[m] \subseteq captures'[m] /\ 0 \notin captures'[m]
    BY <1>1 DEF IInv, Links, IdsOK
  <2>7. QED
    BY <1>1, <1>3, <2>2, <2>3, <2>4, <2>5, <2>6, CaptureStep
<1>4. CASE /\ scan[w].pc = "running" /\ Conclude(w, "failed", scan[w].cap)
           /\ (complete' = complete \/ RunSucceeds(Mine(w), scan[w].cap))
           /\ M!Finish(w)
  <2>1. PICK n \in Name : n = Mine(w)
    BY <1>4, AtFile DEF Between
  <2>2. \/ complete' = complete
        \/ complete' = [complete EXCEPT ![n] = complete[n] \cup {scan[w].cap}]
    BY <1>4, <2>1 DEF RunSucceeds
  <2>3. QED
    BY <1>1, <1>4, <2>1, <2>2, RunOver
<1>5. QED
  BY <1>2, <1>3, <1>4 DEF HandledFailure, At

-----------------------------------------------------------------------------
(* Any number of scans: the invariant and what follows from it.             *)

\* A step of the surroundings.
LEMMA OutsideStep ==
  ASSUME IInv, FP!IInv', UNCHANGED <<row, cvars, scan>>, job' = job, pcaps' = pcaps,
         \A w \in Worker : holder' = w <=> holder = w
  PROVE  IInv'
<1>1. TypeOK'
  BY DEF IInv, TypeOK, cvars, Mine
<1>2. \A w \in Worker : JobMatch(w)'
  BY DEF IInv, JobMatch, At, Mine
<1>3. OneParserRuns'
  BY DEF IInv, OneParserRuns, At
<1>4. Links'
  BY DEF IInv, Links, IdsOK, RowLink, ScanLink, Registered, Mine, cvars
<1>5. ShaUnique'
  BY DEF IInv, ShaUnique
<1>6. QED
  BY <1>1, <1>2, <1>3, <1>4, <1>5 DEF IInv

LEMMA NotRuns ==
  ASSUME NEW w \in Worker
  PROVE  w # Web /\ w # M!Nobody /\ w # M!Lingering
BY IngestAssumption, PartsAssumption

LEMMA UploadKeeps ==
  ASSUME IInv, NEW n \in Name, NEW d \in Exports[n], Upload(n, d)
  PROVE  IInv'
<1>1. FP!Upload(n, d)
  BY DEF Upload, F!Upload, FP!Upload, F!Version, FP!Version
<1>2. d \in Data
  BY IngestAssumption
<1>3. FP!IInv'
  BY <1>1, <1>2, FileData, FP!UploadStep DEF IInv
<1>4. QED
  BY <1>1, <1>3, OutsideStep DEF Upload, FP!Upload

LEMMA RestartKeeps ==
  ASSUME IInv, Restart
  PROVE  IInv'
<1>1. /\ UNCHANGED <<row, cvars>> /\ scan' = [w \in Worker |-> NoScan]
      /\ holder' \in {M!Nobody, M!Lingering} /\ F!CrashJobs
  BY DEF Restart
<1>2. FP!CrashJobs
  BY <1>1 DEF F!CrashJobs, FP!CrashJobs, F!NoJob, FP!NoJob
<1>3. FP!IInv'
  BY <1>2, FileData, FP!CrashStep DEF IInv
<1>4. \A w \in Worker : scan'[w] = NoScan
  BY <1>1
<1>5. TypeOK'
  <2>1. scan' \in [Worker -> Scan]
    BY <1>1, NoScanType
  <2>2. \A w \in Worker : scan'[w].pc \in Between
    BY <1>4, NoScanType DEF Between
  <2>3. QED
    BY <1>1, <2>1, <2>2 DEF IInv, TypeOK, cvars, Mine
<1>6. \A w \in Worker : JobMatch(w)'
  BY <1>1, <1>4, NoScanType DEF F!CrashJobs, F!NoJob, JobMatch, At
<1>7. OneParserRuns'
  BY <1>1, <1>4, NoScanType, NotRuns DEF OneParserRuns, At
<1>8. Links'
  <2>1. IdsOK' /\ \A n \in Name : RowLink(n)'
    BY <1>1, <1>2 DEF IInv, Links, IdsOK, RowLink, Registered, cvars, FP!CrashJobs
  <2>2. \A w \in Worker : ScanLink(w)'
    BY <1>4 DEF ScanLink, NoScan, Between
  <2>3. QED
    BY <2>1, <2>2 DEF Links
<1>9. ShaUnique'
  BY <1>1 DEF IInv, ShaUnique
<1>10. QED
  BY <1>3, <1>5, <1>6, <1>7, <1>8, <1>9 DEF IInv

\* The lock is taken, left or cleared without a scan.
LEMMA LockKeeps ==
  ASSUME IInv, LeaseEnds \/ WebParse \/ WebParseEnds
  PROVE  IInv'
<1>1. UNCHANGED <<fvars, row, cvars, scan>>
  BY DEF LeaseEnds, WebParse, WebParseEnds
<1>2. \A w \in Worker : holder' = w <=> holder = w
  BY NotRuns DEF LeaseEnds, WebParse, WebParseEnds, M!Clear, M!Acquire, M!Finish
<1>3. FP!IInv'
  BY <1>1, FilesKept DEF IInv
<1>4. QED
  BY <1>1, <1>2, <1>3, OutsideStep DEF fvars

LEMMA ScanKeeps ==
  ASSUME IInv, NEW w \in Worker,
         ScanStep(w) \/ StatementFails(w) \/ ScanFails(w) \/ HandledFailure(w)
  PROVE  IInv'
<1>1. CASE StatAborts(w)
  BY <1>1, AbortStep DEF StatAborts, Abort, At
<1>2. CASE EndScan(w)
  BY <1>2, AbortStep DEF EndScan, At
<1>3. CASE ScanFails(w)
  BY <1>3, AbortStep DEF ScanFails, Abort, At
<1>4. QED
  BY <1>1, <1>2, <1>3, StartStep, ReadStep, StatStep, WaitStep, ClaimStep,
     FinalizeStep, FailedStep, ValidatedStep, PromoteStep, LookStep, InsertStep,
     LinkStep, MarkStep, RefusedStep, StartParserStep, ParserEndsStep,
     SettleStep, ListStep, RetryStep, StatementStep, HandledStep DEF ScanStep

LEMMA InitIInv == Init => IInv
<1> SUFFICES ASSUME Init PROVE IInv
  OBVIOUS
<1>1. FP!IInv
  <2>1. FP!FsInit
    BY DEF Init, F!FsInit, FP!FsInit, F!NoJob, FP!NoJob
  <2>2. QED
    BY <2>1, FileData, FP!InitIInv
<1>2. \A w \in Worker : scan[w] = NoScan
  BY DEF Init
<1>3. \A n \in Name : row[n] = NoRow /\ captures[n] = {} /\ complete[n] = {}
  BY DEF Init
<1>4. TypeOK
  <2>1. NoRow \in Row
    BY DEF NoRow, Row, States
  <2>2. row \in [Name -> Row] /\ scan \in [Worker -> Scan]
    BY <2>1, NoScanType DEF Init
  <2>3. \A w \in Worker : scan[w].pc \in Between
    BY <1>2, NoScanType DEF Between
  <2>4. \A n \in Name : IsFiniteSet(captures[n]) /\ complete[n] \subseteq captures[n]
    BY <1>3, FS_EmptySet
  <2>5. QED
    BY <2>2, <2>3, <2>4 DEF Init, TypeOK
<1>5. \A w \in Worker : JobMatch(w)
  BY <1>2, NoScanType DEF Init, F!FsInit, F!NoJob, JobMatch, At
<1>6. OneParserRuns
  BY <1>2, NoScanType, NotRuns DEF Init, M!Init, OneParserRuns, At
<1>7. Links
  <2>1. IdsOK
    BY <1>3 DEF IdsOK, Init, F!FsInit
  <2>2. \A n \in Name : RowLink(n)
    BY <1>3, IngestAssumption DEF RowLink, Registered, NoRow
  <2>3. \A w \in Worker : ScanLink(w)
    BY <1>2 DEF ScanLink, NoScan, Between
  <2>4. QED
    BY <2>1, <2>2, <2>3 DEF Links
<1>8. ShaUnique
  BY <1>3 DEF ShaUnique, NoRow
<1>9. QED
  BY <1>1, <1>4, <1>5, <1>6, <1>7, <1>8 DEF IInv

LEMMA NextIInv == IInv /\ [Next]_vars => IInv'
<1> SUFFICES ASSUME IInv, [Next]_vars PROVE IInv'
  OBVIOUS
<1>1. CASE UNCHANGED vars
  <2>1. UNCHANGED <<fvars, row, cvars, scan, holder>>
    BY <1>1 DEF vars, fvars, cvars
  <2>2. FP!IInv'
    BY <2>1, FilesKept DEF IInv
  <2>3. QED
    BY <2>1, <2>2, OutsideStep DEF fvars
<1>2. CASE Next
  BY <1>2, ScanKeeps, UploadKeeps, RestartKeeps, LockKeeps DEF Next
<1>3. QED
  BY <1>1, <1>2

LEMMA AlwaysIInv == Spec => []IInv
BY InitIInv, NextIInv, PTL DEF Spec

\* Scans that overlap, fail or end with Study Web: the variables keep their
\* types, and the last parse run of a capture is of a capture on record.
THEOREM TypeCorrect == Spec => []TypeOK
<1>1. IInv => TypeOK
  BY DEF IInv
<1>2. QED
  BY <1>1, AlwaysIInv, PTL

\* However many scans overlap, fail and restart, whoever else parses: the parser
\* runs for one scan at a time, the one the parse lock names.
THEOREM ParserRunsAlone == Spec => []OneParserRuns
<1>1. IInv => OneParserRuns
  BY DEF IInv
<1>2. QED
  BY <1>1, AlwaysIInv, PTL

\* However many scans overlap: a row links a capture that was registered, and
\* no row is retried beyond WLC_INGEST_MAX_RETRIES.
THEOREM RowsLinkCaptures == Spec => []RowLinksCapture
<1>1. IInv => RowLinksCapture
  BY DEF IInv, Links, RowLink, Registered, RowLinksCapture
<1>2. QED
  BY <1>1, AlwaysIInv, PTL

\* The scans finalize uploads as UploadFinalizer assumes: in the whole ingest,
\* evidence is one whole version of its upload, with the magic number.
THEOREM EvidenceIsWhole == Spec => []F!EvidenceIsOneVersion
<1>1. IInv => F!EvidenceIsOneVersion
  BY DEF IInv, FP!IInv, FP!EvidenceIsOneVersion, F!EvidenceIsOneVersion,
         FP!Offered, F!Offered, FP!Container, F!Container
<1>2. QED
  BY <1>1, AlwaysIInv, PTL

\* What a step of the ingest does to the parse lock.
Party == Worker \cup {Web}
HolderOK == holder \in Party \cup {M!Nobody, M!Lingering}

LEMMA LockStep ==
  ASSUME holder \in Party \cup {M!Nobody, M!Lingering}, [Next]_vars
  PROVE  [M!Next]_holder /\ holder' \in Party \cup {M!Nobody, M!Lingering}
<1>1. ASSUME NEW r \in Party, M!Acquire(r) \/ M!Finish(r)
      PROVE  M!Next /\ holder' \in Party \cup {M!Nobody, M!Lingering}
  BY <1>1 DEF M!Next, M!Acquire, M!Finish, Party
<1>2. CASE holder' = holder
  BY <1>2
<1>3. CASE LeaseEnds
  BY <1>3 DEF LeaseEnds, M!Clear, M!Next
<1>4. CASE WebParse \/ WebParseEnds
  BY <1>1, <1>4 DEF WebParse, WebParseEnds, Party
<1>5. CASE Restart
  <2>1. holder' = IF holder = M!Nobody THEN M!Nobody ELSE M!Lingering
    BY <1>5 DEF Restart
  <2>2. CASE holder \in Party
    <3>1. M!Finish(holder)
      BY <2>1, <2>2 DEF M!Finish
    <3>2. QED
      BY <1>1, <2>2, <3>1
  <2>3. CASE holder \in {M!Nobody, M!Lingering}
    BY <1>2, <2>1, <2>3
  <2>4. QED
    BY <2>2, <2>3
<1>6. ASSUME NEW w \in Worker, StartParser(w) \/ ParserEnds(w) \/ HandledFailure(w)
      PROVE  [M!Next]_holder /\ holder' \in Party \cup {M!Nobody, M!Lingering}
  <2>1. CASE StartParser(w)
    BY <1>1, <2>1 DEF StartParser, Party
  <2>2. CASE ParserEnds(w)
    BY <1>1, <2>2 DEF ParserEnds, Party
  <2>3. CASE HandledFailure(w)
    <3>1. holder' = holder \/ M!Linger \/ M!Finish(w)
      BY <2>3 DEF HandledFailure
    <3>2. CASE M!Linger
      BY <3>2 DEF M!Linger, M!Next
    <3>3. QED
      BY <1>1, <1>2, <3>1, <3>2 DEF Party
  <2>4. QED
    BY <1>6, <2>1, <2>2, <2>3
<1>7. ASSUME NEW w \in Worker, ScanStep(w) \/ StatementFails(w) \/ ScanFails(w),
             ~StartParser(w), ~ParserEnds(w)
      PROVE  holder' = holder
  BY <1>7 DEF ScanStep, StatementFails, ScanFails, StartScan, ReadRow, StatUpload,
     Wait, Claim, Finalize, FinalizationFailed, Validated, Promote, Look, Insert,
     Link, MarkParsing, ParseRefused, StatAborts, Settle, ListRows, RetryRow, EndScan
<1>8. CASE \E n \in Name : \E d \in Exports[n] : Upload(n, d)
  BY <1>2, <1>8 DEF Upload
<1>9. CASE UNCHANGED vars
  BY <1>2, <1>9 DEF vars
<1>10. QED
  BY <1>2, <1>3, <1>4, <1>5, <1>6, <1>7, <1>8, <1>9 DEF Next

\* The scans and the browser use the parse lock as its module promises, so that
\* what ParseLock guarantees to its callers is all that the ingest relies on.
THEOREM LockAsPromised == Spec => M!Spec
<1>1. Init => M!Init /\ HolderOK
  BY DEF Init, M!Init, HolderOK
<1>2. HolderOK /\ [Next]_vars => [M!Next]_holder /\ HolderOK'
  BY LockStep DEF HolderOK
<1>3. QED
  BY <1>1, <1>2, PTL DEF Spec, M!Spec


-----------------------------------------------------------------------------
(* The invariant of scans that take turns.                                  *)

Turns ==
  \A v, w \in Worker : scan[v].pc # "idle" /\ scan[w].pc # "idle" => v = w

\* The rows the second pass has still to retry: one entry for each, as the row
\* is, and none for the file the scan is at.
ListOK(w) ==
  /\ scan[w].pc \in {"idle", "files"} \/ (scan[w].pc # "rows" /\ ~scan[w].retry) =>
       scan[w].rows = {}
  /\ \A x \in scan[w].rows :
       /\ row[x.n].state \in Retryable /\ row[x.n].final
       /\ x.cap = row[x.n].cap /\ x.tries = row[x.n].tries
       /\ scan[w].pc \notin Between => x.n # Mine(w)
  /\ \A x, y \in scan[w].rows : x.n = y.n => x = y

\* pcaps/ holds a file under the name that is not registered yet.
New(n) == pcaps[n] # None /\ pcaps[n].id \notin captures[n]

\* What a scan knows of its file, stage by stage.
FileOK(w) ==
  LET n == Mine(w)
      pc == scan[w].pc
  IN
  /\ pc \in {"stat", "decide", "finalize", "promote"} => ~scan[w].retry
  /\ pc \in {"stat", "decide"} => row[n].state \notin Ingested
  /\ pc = "finalize" =>
       /\ row[n].state = "validating"
       /\ job[w].stage \in {"verify", "unlink", "done"} =>
            New(n) /\ pcaps[n].data = job[w].buf
       /\ job[w].stage \in {"commit", "verify", "unlink"} => incoming[n] # 0
  /\ pc = "promote" =>
       row[n].state = "validated" /\ New(n) /\ pcaps[n].data = scan[w].data
  /\ pc = "look" =>
       /\ row[n].state \in Retryable /\ pcaps[n] # None
       /\ ~scan[w].retry => New(n)
  /\ pc = "insert" =>
       /\ row[n].state \in Retryable /\ captures[n] = {}
       /\ pcaps[n] # None /\ pcaps[n].id = scan[w].cap
  /\ pc \in {"link", "parsing"} => row[n].state \in Retryable
  /\ pc \in {"parse", "running"} => row[n].state = "parsing"
  /\ pc \in {"link", "parsing", "parse"} =>
       /\ runs[n] <= 1 + row[n].tries
       /\ ~scan[w].retry => runs[n] = 0
  /\ pc = "running" => pcaps[n] # None /\ pcaps[n].id = scan[w].cap
  /\ pc \in {"running", "settle"} =>
       runs[n] <= 1 + (IF scan[w].retry THEN scan[w].tries + 1 ELSE row[n].tries)
  /\ pc = "settle" =>
       /\ row[n].state \in Retryable \cup {"parsing"}
       /\ scan[w].out = "parsed" =>
            /\ pcaps[n] # None /\ pcaps[n].id = scan[w].cap
            /\ scan[w].cap \in complete[n]
       /\ scan[w].out = "retry_pending" => runs[n] <= 1 + row[n].tries
  /\ pc \notin Between /\ scan[w].retry => scan[w].tries = row[n].tries

\* What holds of a file whoever works on it.
RowOK(n) ==
  /\ row[n].state = "parsed" =>
       /\ pcaps[n] # None /\ row[n].cap = pcaps[n].id
       /\ row[n].cap \in complete[n]
  /\ \A c, d \in captures[n] : c = d
  /\ captures[n] = {} => runs[n] = 0
  /\ row[n].state \notin {"parsing", "parsed"} => runs[n] <= 1 + row[n].tries
  /\ runs[n] <= MaxRetries + 1

SInv ==
  /\ IInv
  /\ Turns
  /\ \A w \in Worker : ListOK(w) /\ FileOK(w)
  /\ \A n \in Name : RowOK(n)

-----------------------------------------------------------------------------
(* ... and whose disk does not fail.                                        *)

Hashed == Ingested \cup {"validated", "failed"}

\* The row of a finalized file tells the truth about the file.
Behind(n) ==
  row[n].state \in Hashed =>
    /\ row[n].final
    /\ pcaps[n] # None /\ pcaps[n].data = row[n].sha

\* A finalization fails only over a file that was wrong.
Blamed(w) ==
  /\ scan[w].pc = "decide" \/ job[w].stage = "stat" => incoming[Mine(w)] # 0
  /\ job[w].stage = "failed" => job[w].why \in F!Quarantining

ParsedHash(n) == Parsed(n) => pcaps[n].data = row[n].sha

DInv ==
  /\ SInv
  /\ \A n \in Name : Behind(n) /\ ParsedHash(n)
  /\ \A w \in Worker : Blamed(w)

-----------------------------------------------------------------------------
(* What a step of the only scan keeps.                                      *)

\* A parsed row stays as it is.
KeepsParsed == \A n \in Name : row[n].state = "parsed" => row'[n] = row[n]

\* Everything about the file m is as before.
Untouched(m) ==
  /\ row'[m] = row[m] /\ pcaps'[m] = pcaps[m] /\ captures'[m] = captures[m]
  /\ complete'[m] = complete[m] /\ runs'[m] = runs[m]

LEMMA RowKept ==
  ASSUME SInv, NEW m \in Name, Untouched(m)
  PROVE  RowOK(m)'
BY DEF SInv, RowOK, Untouched

\* A scan that is under way is the only one.
LEMMA Alone ==
  ASSUME SInv, NEW w \in Worker, scan[w].pc # "idle", NEW v \in Worker \ {w}
  PROVE  scan[v].pc = "idle" /\ scan[v].rows = {}
BY DEF SInv, Turns, ListOK

LEMMA TurnStep ==
  ASSUME SInv, IInv', NEW w \in Worker, Moved(w),
         \A v \in Worker \ {w} : scan[v].pc = "idle",
         ListOK(w)', FileOK(w)', \A m \in Name : RowOK(m)'
  PROVE  SInv'
<1>1. ASSUME NEW v \in Worker \ {w} PROVE scan'[v].pc = "idle" /\ scan'[v].rows = {}
  <2>1. scan'[v] = scan[v]
    BY DEF Moved
  <2>2. scan[v].pc = "idle" /\ ListOK(v)
    BY DEF SInv
  <2>3. QED
    BY <2>1, <2>2 DEF ListOK
<1>2. Turns'
  BY <1>1 DEF Turns
<1>3. ASSUME NEW v \in Worker \ {w} PROVE ListOK(v)' /\ FileOK(v)'
  BY <1>1 DEF ListOK, FileOK, Between
<1>4. QED
  BY <1>2, <1>3 DEF SInv

\* A step at the file n that neither the directories nor the parser see.
LEMMA FileTurn ==
  ASSUME SInv, IInv', NEW w \in Worker, Moved(w), scan[w].pc # "idle",
         UNCHANGED <<uploads, incoming, pcaps>>, NEW n \in Name,
         \A m \in Name \ {n} : Untouched(m), RowOK(n)', ListOK(w)', FileOK(w)'
  PROVE  SInv'
<1>1. \A m \in Name : RowOK(m)'
  BY RowKept
<1>2. \A v \in Worker \ {w} : scan[v].pc = "idle"
  BY Alone
<1>3. QED
  BY <1>1, <1>2, TurnStep

\* ... and one that changes nothing but the scan.
LEMMA ScanTurn ==
  ASSUME SInv, IInv', NEW w \in Worker, Moved(w), scan[w].pc # "idle",
         UNCHANGED <<uploads, incoming, pcaps, row, cvars>>, ListOK(w)', FileOK(w)'
  PROVE  SInv' /\ KeepsParsed
<1>1. \A m \in Name : RowOK(m)'
  BY RowKept DEF Untouched, cvars
<1>2. \A v \in Worker \ {w} : scan[v].pc = "idle"
  BY Alone
<1>3. QED
  BY <1>1, <1>2, TurnStep DEF KeepsParsed

\* The rows still to retry are not those of the file n the scan is at.
LEMMA ListAtFile ==
  ASSUME SInv, NEW w \in Worker, scan[w].pc \notin Between, SameFile(w),
         scan'[w].pc \notin Between,
         \A m \in Name \ {Mine(w)} : row'[m] = row[m]
  PROVE  ListOK(w)'
<1>1. ListOK(w) /\ \A x \in scan[w].rows : x.n \in Name
  BY DEF SInv, IInv, TypeOK, Scan, Listing
<1>2. QED
  BY <1>1 DEF ListOK, SameFile, Mine, Between

LEMMA ListAfter ==
  ASSUME SInv, NEW w \in Worker, scan[w].pc \notin Between, NEW h \in SUBSET Name,
         Leave(w, h), \A m \in Name \ {Mine(w)} : row'[m] = row[m]
  PROVE  Moved(w) /\ ListOK(w)' /\ FileOK(w)'
<1>1. /\ Moved(w) /\ scan'[w].rows = scan[w].rows /\ scan'[w].retry = FALSE
      /\ scan'[w].pc = IF scan[w].retry THEN "rows" ELSE "files"
  BY LeaveEffect DEF SInv, IInv
<1>2. ListOK(w) /\ \A x \in scan[w].rows : x.n \in Name
  BY DEF SInv, IInv, TypeOK, Scan, Listing
<1>3. ListOK(w)'
  BY <1>1, <1>2 DEF ListOK, Mine, Between
<1>4. FileOK(w)'
  BY <1>1 DEF FileOK, Between
<1>5. QED
  BY <1>1, <1>3, <1>4

LEMMA ListAtEnd ==
  ASSUME SInv, NEW w \in Worker, scan' = [scan EXCEPT ![w] = NoScan]
  PROVE  Moved(w) /\ ListOK(w)' /\ FileOK(w)'
<1>1. Moved(w) /\ scan'[w] = NoScan
  BY EndEffect DEF SInv, IInv
<1>2. QED
  BY <1>1 DEF ListOK, FileOK, NoScan, Between

\* What the step of a scan that is at the file n may rely on.
LEMMA Knows ==
  ASSUME SInv, NEW w \in Worker, scan[w].pc \notin Between
  PROVE  /\ IInv /\ Mine(w) \in Name /\ FileOK(w) /\ ListOK(w) /\ RowOK(Mine(w))
         /\ ScanLink(w) /\ RowLink(Mine(w)) /\ scan[w] \in Scan
         /\ row[Mine(w)] \in Row /\ runs[Mine(w)] \in Nat /\ MaxRetries \in Nat
         /\ row[Mine(w)].tries \in Nat
<1>1. IInv
  BY DEF SInv
<1>2. /\ Mine(w) \in Name /\ scan[w] \in Scan /\ row[Mine(w)] \in Row
      /\ RowLink(Mine(w)) /\ ScanLink(w) /\ MaxRetries \in Nat
  BY <1>1, AtFile
<1>3. runs[Mine(w)] \in Nat /\ row[Mine(w)].tries \in Nat
  BY <1>1, <1>2 DEF IInv, TypeOK, Row
<1>4. QED
  BY <1>1, <1>2, <1>3 DEF SInv

-----------------------------------------------------------------------------
(* The first pass.                                                          *)

LEMMA StartTurn ==
  ASSUME ~Overlap, SInv, NEW w \in Worker, StartScan(w)
  PROVE  SInv' /\ KeepsParsed
<1>1. /\ Moved(w) /\ scan'[w].pc = "files" /\ scan'[w].rows = {}
      /\ UNCHANGED <<fvars, row, cvars>> /\ scan'[w].retry = FALSE
  BY StartEffect DEF SInv, IInv, StartScan
<1>2. \A v \in Worker : scan[v].pc = "idle"
  BY DEF StartScan, At
<1>3. ListOK(w)' /\ FileOK(w)'
  BY <1>1 DEF ListOK, FileOK, Between
<1>4. \A m \in Name : RowOK(m)'
  BY <1>1, RowKept DEF Untouched, cvars, fvars
<1>5. IInv'
  BY StartStep DEF SInv
<1>6. QED
  BY <1>1, <1>2, <1>3, <1>4, <1>5, TurnStep DEF KeepsParsed

LEMMA ReadTurn ==
  ASSUME SInv, NEW w \in Worker, ReadRow(w)
  PROVE  SInv' /\ KeepsParsed
<1>1. /\ Moved(w) /\ scan'[w].rows = scan[w].rows /\ scan[w].pc = "files"
      /\ scan'[w].retry = scan[w].retry
      /\ \/ scan'[w].pc = "files"
         \/ /\ scan'[w].pc = "stat" /\ scan'[w].n \in Name
            /\ row[scan'[w].n].state \notin Ingested
      /\ UNCHANGED <<fvars, row, cvars>>
  BY ReadRowEffect DEF SInv, IInv, ReadRow, At
<1>2. scan[w].rows = {} /\ ~scan[w].retry
  BY <1>1 DEF SInv, ListOK, IInv, Links, ScanLink, Between
<1>3. ListOK(w)' /\ FileOK(w)'
  BY <1>1, <1>2 DEF ListOK, FileOK, Between, Mine
<1>4. IInv'
  BY ReadStep DEF SInv
<1>5. QED
  BY <1>1, <1>3, <1>4, ScanTurn DEF fvars

LEMMA StatTurn ==
  ASSUME SInv, NEW w \in Worker, StatUpload(w)
  PROVE  SInv' /\ KeepsParsed
<1>1. scan[w].pc = "stat" /\ UNCHANGED <<fvars, row, cvars>>
  BY DEF StatUpload, At
<1>2. Mine(w) \in Name /\ FileOK(w) /\ IInv
  BY <1>1, Knows DEF Between
<1>3. IInv'
  BY <1>2, StatStep
<1>4. CASE Leave(w, {Mine(w)})
  <2>1. Moved(w) /\ ListOK(w)' /\ FileOK(w)'
    BY <1>1, <1>2, <1>4, ListAfter DEF Between
  <2>2. QED
    BY <1>1, <1>3, <2>1, ScanTurn DEF fvars
<1>5. CASE Moved(w) /\ SameFile(w) /\ scan'[w].pc = "decide"
  <2>1. ListOK(w)'
    BY <1>1, <1>5, ListAtFile DEF Between
  <2>2. FileOK(w)'
    BY <1>1, <1>2, <1>5 DEF FileOK, Between, SameFile, Mine
  <2>3. QED
    BY <1>1, <1>3, <1>5, <2>1, <2>2, ScanTurn DEF fvars
<1>6. QED
  BY <1>2, <1>4, <1>5, StatEffect DEF IInv, FP!IInv

LEMMA WaitTurn ==
  ASSUME SInv, NEW w \in Worker, Wait(w)
  PROVE  SInv' /\ KeepsParsed
<1>1. scan[w].pc = "decide" /\ UNCHANGED <<fvars, cvars>> /\ Leave(w, {Mine(w)})
  BY DEF Wait, At
<1>2. PICK n \in Name : n = Mine(w)
  BY <1>1, Knows DEF Between
<1>3. /\ RowStep(n) /\ row'[n].state \in Waiting
      /\ row'[n].cap = row[n].cap /\ row'[n].tries = row[n].tries
  BY <1>2, WaitRow DEF SInv, IInv
<1>4. FileOK(w) /\ RowOK(n)
  BY <1>1, <1>2, Knows DEF Between
<1>5. row[n].state \notin Ingested
  BY <1>1, <1>2, <1>4 DEF FileOK
<1>6. Moved(w) /\ ListOK(w)' /\ FileOK(w)'
  BY <1>1, <1>2, <1>3, ListAfter DEF Between, RowStep
<1>7. RowOK(n)'
  BY <1>1, <1>3, <1>4, <1>5 DEF RowOK, cvars, Waiting, Ingested
<1>8. \A m \in Name \ {n} : Untouched(m)
  BY <1>1, <1>3 DEF RowStep, Untouched, fvars, cvars
<1>9. IInv'
  BY WaitStep DEF SInv
<1>10. KeepsParsed
  BY <1>3, <1>5 DEF KeepsParsed, RowStep, Ingested
<1>11. QED
  BY <1>1, <1>6, <1>7, <1>8, <1>9, <1>10, FileTurn DEF fvars

LEMMA ClaimTurn ==
  ASSUME SInv, NEW w \in Worker, Claim(w)
  PROVE  SInv' /\ KeepsParsed
<1>1. /\ scan[w].pc = "decide" /\ UNCHANGED cvars /\ Go(w, "finalize")
  BY DEF Claim, At
<1>2. PICK n \in Name : n = Mine(w)
  BY <1>1, Knows DEF Between
<1>3. SetState(n, "validating") /\ F!Begin(w, n)
  BY <1>2 DEF Claim
<1>4. /\ RowStep(n) /\ row'[n].state = "validating"
      /\ row'[n].cap = row[n].cap /\ row'[n].tries = row[n].tries
  BY <1>3, SetStateEffect, StatesAre DEF SInv, IInv
<1>5. /\ Moved(w) /\ SameFile(w) /\ scan'[w].pc = "finalize"
  BY <1>1, GoEffect DEF SInv, IInv, Pcs, Between
<1>6. job'[w].stage = "stat" /\ UNCHANGED <<uploads, incoming, pcaps>>
  BY <1>3, BeginJob DEF SInv, IInv, FP!IInv, F!Begin
<1>7. FileOK(w) /\ RowOK(n)
  BY <1>1, <1>2, Knows DEF Between
<1>8. row[n].state \notin Ingested /\ ~scan[w].retry
  BY <1>1, <1>2, <1>7 DEF FileOK
<1>9. ListOK(w)'
  BY <1>1, <1>2, <1>4, <1>5, ListAtFile DEF Between, RowStep
<1>10. FileOK(w)'
  BY <1>2, <1>4, <1>5, <1>6, <1>8 DEF FileOK, SameFile, Mine, Between
<1>11. RowOK(n)'
  BY <1>1, <1>4, <1>7, <1>8 DEF RowOK, cvars, Ingested
<1>12. \A m \in Name \ {n} : Untouched(m)
  BY <1>1, <1>4, <1>6 DEF RowStep, Untouched, cvars
<1>13. IInv'
  BY ClaimStep DEF SInv
<1>14. KeepsParsed
  BY <1>4, <1>8 DEF KeepsParsed, RowStep, Ingested
<1>15. QED
  BY <1>1, <1>5, <1>6, <1>9, <1>10, <1>11, <1>12, <1>13, <1>14, FileTurn

\* A finalization whose evidence stays in place moves on one step.
LEMMA StageOrder ==
  ASSUME FP!TypeOK, NEW w \in Worker, NEW id \in Nat, FileMove(w, id),
         job'[w].stage \in {"verify", "unlink", "done"}
  PROVE  FP!Commit(w, id) \/ job[w].stage \in {"verify", "unlink"}
<1>1. /\ FP!StatSource(w) => job'[w].stage \in {"open", "failed"}
      /\ FP!OpenSource(w) => job'[w].stage \in {"copy", "failed"}
      /\ FP!Copy(w) => job'[w].stage = "recheck"
      /\ FP!Recheck(w) => job'[w].stage \in {"commit", "failed"}
      /\ FP!DiskFails(w) \/ FP!SyncFails(w) => job'[w].stage = "failed"
  BY FileData, FP!StageAfter
<1>2. QED
  BY <1>1 DEF FileMove, FP!Step, FP!Verify, FP!UnlinkSource, FP!At

\* The only finalization under way has its upload and its evidence in place.
LEMMA ScanKeepsFiles ==
  ASSUME SInv, NEW w \in Worker, scan[w].pc = "finalize"
  PROVE  FP!KeptBy(w)
<1>1. IInv /\ FileOK(w)
  BY Knows DEF Between
<1>2. job[w].stage # "idle" => job[w].name = Mine(w)
  BY <1>1 DEF IInv, JobMatch, At
<1>3. QED
  BY <1>1, <1>2 DEF FP!KeptBy, FileOK, New

LEMMA FinalizeTurn ==
  ASSUME SInv, NEW w \in Worker, Finalize(w)
  PROVE  SInv' /\ KeepsParsed
<1>1. scan[w].pc = "finalize" /\ UNCHANGED <<row, cvars, scan>>
  BY DEF Finalize, At
<1>2. PICK n \in Name : n = Mine(w)
  BY <1>1, Knows DEF Between
<1>3. PICK id \in Nat \ {0} : id = FreshId(n) /\ id \notin captures[n]
  BY FreshIsNew DEF SInv, IInv
<1>4. FileMove(w, id) /\ FP!Act(w)
  BY <1>2, <1>3, FinalizeMoves
<1>5. IInv /\ FileOK(w) /\ RowOK(n) /\ FP!IInv /\ FP!TypeOK
  BY <1>1, <1>2, Knows DEF Between, IInv, FP!IInv
<1>6. job[w].name = n /\ job'[w].name = n
  BY <1>1, <1>2, <1>4, <1>5, StepKeepsName DEF IInv, JobMatch, At
<1>7. /\ row[n].state = "validating" /\ ~scan[w].retry
      /\ job[w].stage \in {"verify", "unlink", "done"} =>
           New(n) /\ pcaps[n].data = job[w].buf
  BY <1>1, <1>2, <1>5 DEF FileOK
<1>8. FP!KeptBy(w)'
  BY <1>1, <1>4, <1>5, FileData, ScanKeepsFiles, FP!SerialAct
<1>9. pcaps \in [Name -> FP!Evidence \cup {None}]
  BY <1>5 DEF FP!TypeOK, FP!Evidence
<1>10. \/ pcaps' = pcaps
       \/ /\ job[w].stage = "commit"
          /\ pcaps' = [pcaps EXCEPT ![n] = [id |-> id, data |-> job[w].buf]]
  BY <1>4, <1>5, <1>6, <1>7, StepPcaps
<1>11. job'[w].stage \in {"verify", "unlink", "done"} =>
         /\ pcaps'[n] # None /\ pcaps'[n].data = job'[w].buf
         /\ pcaps'[n].id \notin captures[n]
  <2> SUFFICES ASSUME job'[w].stage \in {"verify", "unlink", "done"}
               PROVE  /\ pcaps'[n] # None /\ pcaps'[n].data = job'[w].buf
                      /\ pcaps'[n].id \notin captures[n]
    OBVIOUS
  <2>1. pcaps'[n] # None /\ pcaps'[n].data = job'[w].buf
    BY <1>6, <1>8 DEF FP!KeptBy
  <2>2. CASE FP!Commit(w, id)
    <3>1. pcaps'[n] = [id |-> id, data |-> job[w].buf]
      BY <1>6, <1>9, <2>2 DEF FP!Commit
    <3>2. QED
      BY <1>3, <2>1, <3>1
  <2>3. CASE job[w].stage \in {"verify", "unlink"}
    <3>1. pcaps' = pcaps /\ New(n)
      BY <1>7, <1>10, <2>3
    <3>2. QED
      BY <2>1, <3>1 DEF New
  <2>4. QED
    BY <1>4, <1>5, <2>2, <2>3, StageOrder
<1>12. FileOK(w)'
  BY <1>1, <1>2, <1>6, <1>7, <1>8, <1>11 DEF FP!KeptBy, FileOK, New, Mine, Between, cvars
<1>13. \A m \in Name \ {n} : Untouched(m)
  BY <1>1, <1>9, <1>10 DEF Untouched, cvars
<1>14. RowOK(n)'
  BY <1>1, <1>5, <1>7 DEF RowOK, cvars
<1>15. ListOK(w)'
  BY <1>1 DEF SInv, ListOK, Mine
<1>16. \A m \in Name : RowOK(m)'
  BY <1>13, <1>14, RowKept
<1>17. IInv' /\ Moved(w)
  BY <1>1, <1>5, FinalizeStep DEF IInv, TypeOK, Moved, Mine
<1>18. \A v \in Worker \ {w} : scan[v].pc = "idle"
  BY <1>1, Alone
<1>19. QED
  BY <1>1, <1>12, <1>15, <1>16, <1>17, <1>18, TurnStep DEF KeepsParsed

LEMMA FailedTurn ==
  ASSUME SInv, NEW w \in Worker, FinalizationFailed(w)
  PROVE  SInv' /\ KeepsParsed
<1>1. scan[w].pc = "finalize" /\ UNCHANGED cvars /\ F!Return(w)
  BY DEF FinalizationFailed, At
<1>2. PICK n \in Name : n = Mine(w)
  BY <1>1, Knows DEF Between
<1>3. PICK s \in {"quarantined", "failed"} : SetState(n, s)
  BY <1>2 DEF FinalizationFailed
<1>4. Leave(w, {n})
  BY <1>2 DEF FinalizationFailed
<1>5. /\ RowStep(n) /\ row'[n].state = s
      /\ row'[n].cap = row[n].cap /\ row'[n].tries = row[n].tries
  BY <1>3, SetStateEffect, StatesAre DEF SInv, IInv
<1>6. FileOK(w) /\ RowOK(n) /\ row[n].state = "validating"
  BY <1>1, <1>2, Knows DEF Between, FileOK
<1>7. Moved(w) /\ ListOK(w)' /\ FileOK(w)'
  BY <1>1, <1>2, <1>4, <1>5, ListAfter DEF Between, RowStep
<1>8. UNCHANGED <<uploads, incoming, pcaps>>
  BY <1>1 DEF F!Return
<1>9. RowOK(n)'
  BY <1>1, <1>5, <1>6 DEF RowOK, cvars
<1>10. \A m \in Name \ {n} : Untouched(m)
  BY <1>1, <1>5, <1>8 DEF RowStep, Untouched, cvars
<1>11. IInv'
  BY FailedStep DEF SInv
<1>12. KeepsParsed
  BY <1>5, <1>6 DEF KeepsParsed, RowStep
<1>13. QED
  BY <1>1, <1>7, <1>8, <1>9, <1>10, <1>11, <1>12, FileTurn

LEMMA ValidatedTurn ==
  ASSUME SInv, NEW w \in Worker, Validated(w)
  PROVE  SInv' /\ KeepsParsed
<1>1. /\ scan[w].pc = "finalize" /\ UNCHANGED cvars /\ F!Return(w)
      /\ job[w].stage = "done" /\ UNCHANGED <<uploads, incoming, pcaps>>
  BY DEF Validated, At, F!At, F!Return
<1>2. PICK n \in Name, d \in Data : n = Mine(w) /\ d = job[w].buf
  BY <1>1, Knows, DoneData DEF Between, FP!Copied
<1>3. /\ FileOK(w) /\ RowOK(n) /\ row[n].state = "validating" /\ ~scan[w].retry
      /\ New(n) /\ pcaps[n].data = d
  BY <1>1, <1>2, Knows DEF Between, FileOK
<1>4. IInv'
  BY ValidatedStep DEF SInv
<1>5. CASE ShaTaken(n, d)
  <2>1. Leave(w, {}) /\ row' = row
    BY <1>2, <1>5 DEF Validated
  <2>2. Moved(w) /\ ListOK(w)' /\ FileOK(w)'
    BY <1>1, <2>1, ListAfter DEF Between
  <2>3. QED
    BY <1>1, <1>4, <2>1, <2>2, ScanTurn
<1>6. CASE ~ShaTaken(n, d)
  <2>1. /\ StoresHash(n, "validated", d)
        /\ scan' = [scan EXCEPT ![w].pc = "promote", ![w].data = d]
    BY <1>2, <1>6 DEF Validated, StoresHash
  <2>2. /\ RowStep(n) /\ row'[n].state = "validated"
        /\ row'[n].cap = row[n].cap /\ row'[n].tries = row[n].tries
    BY <2>1, HashRow, StatesAre DEF SInv, IInv
  <2>3. /\ Moved(w) /\ SameFile(w) /\ scan'[w].pc = "promote"
        /\ scan'[w].data = d
    BY <1>1, <2>1, ValidatedEffect DEF SInv, IInv
  <2>4. ListOK(w)'
    BY <1>1, <1>2, <2>2, <2>3, ListAtFile DEF Between, RowStep
  <2>5. FileOK(w)'
    BY <1>1, <1>2, <1>3, <2>2, <2>3 DEF FileOK, New, SameFile, Mine, Between, cvars
  <2>6. RowOK(n)'
    BY <1>1, <1>3, <2>2 DEF RowOK, cvars
  <2>7. \A m \in Name \ {n} : Untouched(m)
    BY <1>1, <2>2 DEF RowStep, Untouched, cvars
  <2>8. KeepsParsed
    BY <1>3, <2>2 DEF KeepsParsed, RowStep
  <2>9. QED
    BY <1>1, <1>4, <2>3, <2>4, <2>5, <2>6, <2>7, <2>8, FileTurn
<1>7. QED
  BY <1>5, <1>6

LEMMA PromoteTurn ==
  ASSUME SInv, NEW w \in Worker, Promote(w)
  PROVE  SInv' /\ KeepsParsed
<1>1. scan[w].pc = "promote" /\ UNCHANGED <<fvars, cvars>>
  BY DEF Promote, At
<1>2. PICK n \in Name, d \in Data : n = Mine(w) /\ d = scan[w].data
  BY <1>1, Knows DEF Between, ScanLink
<1>3. /\ FileOK(w) /\ RowOK(n) /\ row[n].state = "validated" /\ ~scan[w].retry
      /\ New(n)
  BY <1>1, <1>2, Knows DEF Between, FileOK
<1>4. IInv'
  BY PromoteStep DEF SInv
<1>5. CASE ShaTaken(n, d)
  <2>1. Leave(w, {}) /\ row' = row
    BY <1>2, <1>5 DEF Promote
  <2>2. Moved(w) /\ ListOK(w)' /\ FileOK(w)'
    BY <1>1, <2>1, ListAfter DEF Between
  <2>3. QED
    BY <1>1, <1>4, <2>1, <2>2, ScanTurn DEF fvars
<1>6. CASE ~ShaTaken(n, d)
  <2>1. Go(w, "look") /\ StoresHash(n, "promoted", d)
    BY <1>2, <1>6 DEF Promote, StoresHash
  <2>2. Moved(w) /\ SameFile(w) /\ scan'[w].pc = "look"
    BY <1>1, <2>1, GoEffect DEF SInv, IInv, Pcs, Between
  <2>3. /\ RowStep(n) /\ row'[n].state = "promoted"
        /\ row'[n].cap = row[n].cap /\ row'[n].tries = row[n].tries
    BY <2>1, HashRow, StatesAre DEF SInv, IInv, Ingested
  <2>4. ListOK(w)'
    BY <1>1, <1>2, <2>2, <2>3, ListAtFile DEF Between, RowStep
  <2>5. FileOK(w)'
    BY <1>1, <1>2, <1>3, <2>2, <2>3
       DEF FileOK, New, SameFile, Mine, Between, cvars, fvars, Retryable
  <2>6. RowOK(n)'
    BY <1>1, <1>3, <2>3 DEF RowOK, cvars
  <2>7. \A m \in Name \ {n} : Untouched(m)
    BY <1>1, <2>3 DEF RowStep, Untouched, cvars, fvars
  <2>8. KeepsParsed
    BY <1>3, <2>3 DEF KeepsParsed, RowStep
  <2>9. QED
    BY <1>1, <1>4, <2>2, <2>4, <2>5, <2>6, <2>7, <2>8, FileTurn DEF fvars
<1>7. QED
  BY <1>5, <1>6

-----------------------------------------------------------------------------
(* Registration and parsing.                                                *)

\* A row that may be retried is neither parsing nor parsed.
LEMMA RetryableRow ==
  ASSUME NEW s \in Retryable
  PROVE  s \notin {"parsing", "parsed", "validating", "validated"}
BY DEF Retryable

\* The registration of a file is refused.
LEMMA NotRegistered ==
  ASSUME SInv, IInv', NEW w \in Worker, scan[w].pc \in {"look", "insert"},
         UNCHANGED <<uploads, incoming, pcaps, row, cvars>>, Conclude(w, "failed", 0)
  PROVE  SInv' /\ KeepsParsed
<1>1. PICK n \in Name : n = Mine(w)
  BY Knows DEF Between
<1>2. /\ FileOK(w) /\ RowOK(n) /\ row[n].state \in Retryable /\ scan[w] \in Scan
      /\ runs[n] \in Nat /\ row[n].tries \in Nat
      /\ scan[w].retry => scan[w].tries = row[n].tries
  BY <1>1, Knows DEF Between, FileOK
<1>3. /\ Moved(w) /\ SameFile(w) /\ scan'[w].pc = "settle"
      /\ scan'[w].cap = 0 /\ scan'[w].out = "failed"
  BY ConcludeEffect DEF SInv, IInv, Between
<1>4. ListOK(w)'
  BY <1>3, ListAtFile DEF Between
<1>5. runs[n] <= 1 + row[n].tries
  BY <1>2, RetryableRow DEF RowOK
<1>6. FileOK(w)'
  BY <1>1, <1>2, <1>3, <1>5, RetryableRow
     DEF FileOK, New, SameFile, Mine, Between, cvars
<1>7. QED
  BY <1>3, <1>4, <1>6, ScanTurn DEF Between

LEMMA LookTurn ==
  ASSUME SInv, NEW w \in Worker, Look(w)
  PROVE  SInv' /\ KeepsParsed
<1>1. /\ scan[w].pc = "look" /\ UNCHANGED <<fvars, row, cvars>>
  BY DEF Look, At
<1>2. PICK n \in Name : n = Mine(w)
  BY <1>1, Knows DEF Between
<1>3. /\ FileOK(w) /\ RowOK(n) /\ row[n].state \in Retryable
      /\ runs[n] \in Nat /\ row[n].tries \in Nat
      /\ scan[w].retry => scan[w].tries = row[n].tries
      /\ ~scan[w].retry => New(n)
  BY <1>1, <1>2, Knows DEF Between, FileOK
<1>4. IInv'
  BY LookStep DEF SInv
<1>5. CASE Conclude(w, "failed", 0)
  BY <1>1, <1>4, <1>5, NotRegistered DEF fvars
<1>6. CASE /\ Moved(w) /\ SameFile(w) /\ pcaps[n] # None
           /\ scan'[w].cap = pcaps[n].id
           /\ \/ scan'[w].pc = "insert" /\ captures[n] = {}
              \/ scan'[w].pc = "link" /\ pcaps[n].id \in captures[n]
  <2>1. ListOK(w)'
    BY <1>1, <1>6, ListAtFile DEF Between
  <2>2. runs[n] <= 1 + row[n].tries
    BY <1>3, RetryableRow DEF RowOK
  <2>3. scan'[w].pc = "link" => scan[w].retry
    BY <1>3, <1>6 DEF New
  <2>4. FileOK(w)'
    BY <1>1, <1>2, <1>3, <1>6, <2>2, <2>3
       DEF FileOK, New, SameFile, Mine, Between, cvars, fvars
  <2>5. QED
    BY <1>1, <1>4, <1>6, <2>1, <2>4, ScanTurn DEF fvars
<1>7. QED
  BY <1>2, <1>5, <1>6, LookEffect DEF SInv, IInv, FP!IInv

LEMMA InsertTurn ==
  ASSUME SInv, NEW w \in Worker, Insert(w)
  PROVE  SInv' /\ KeepsParsed
<1>1. /\ scan[w].pc = "insert" /\ UNCHANGED <<fvars, row, complete, runs>>
  BY DEF Insert, At
<1>2. PICK n \in Name, c \in Nat \ {0} : n = Mine(w) /\ c = scan[w].cap
  BY <1>1, Knows DEF Between, ScanLink, Scan
<1>3. /\ FileOK(w) /\ RowOK(n) /\ row[n].state \in Retryable /\ captures[n] = {}
      /\ runs[n] = 0 /\ row[n].tries \in Nat
      /\ scan[w].retry => scan[w].tries = row[n].tries
  BY <1>1, <1>2, Knows DEF Between, FileOK, RowOK
<1>4. Go(w, "link") /\ captures' = [captures EXCEPT ![n] = captures[n] \cup {c}]
  BY <1>2, <1>3 DEF Insert
<1>5. /\ Moved(w) /\ SameFile(w) /\ scan'[w].pc = "link" /\ scan'[w].cap = c
  BY <1>1, <1>2, <1>4, GoEffect DEF SInv, IInv, Pcs, Between
<1>6. \A m \in Name : captures'[m] = IF m = n THEN {c} ELSE captures[m]
  BY <1>3, <1>4 DEF SInv, IInv, TypeOK
<1>7. ListOK(w)'
  BY <1>1, <1>5, ListAtFile DEF Between
<1>8. FileOK(w)'
  BY <1>1, <1>2, <1>3, <1>5 DEF FileOK, New, SameFile, Mine, Between, fvars
<1>9. RowOK(n)'
  BY <1>1, <1>3, <1>6, RetryableRow DEF RowOK
<1>10. \A m \in Name \ {n} : Untouched(m)
  BY <1>1, <1>6 DEF Untouched, fvars
<1>11. IInv'
  BY InsertStep DEF SInv
<1>12. QED
  BY <1>1, <1>5, <1>7, <1>8, <1>9, <1>10, <1>11, FileTurn DEF fvars, KeepsParsed

LEMMA LinkTurn ==
  ASSUME SInv, NEW w \in Worker, Link(w)
  PROVE  SInv' /\ KeepsParsed
<1>1. scan[w].pc = "link" /\ UNCHANGED <<fvars, cvars>>
  BY DEF Link, At
<1>2. PICK n \in Name : n = Mine(w)
  BY <1>1, Knows DEF Between
<1>3. /\ FileOK(w) /\ RowOK(n) /\ row[n].state \in Retryable
      /\ runs[n] <= 1 + row[n].tries /\ (~scan[w].retry => runs[n] = 0)
      /\ scan[w].retry => scan[w].tries = row[n].tries
      /\ scan[w].cap \in Nat
  BY <1>1, <1>2, Knows DEF Between, FileOK, Scan
<1>4. PICK s \in {"retry_pending", "registered", "imported"} :
        row' = [row EXCEPT ![n].cap = scan[w].cap, ![n].state = s]
  BY <1>2 DEF Link
<1>5. /\ RowStep(n) /\ row'[n].state = s /\ row'[n].cap = scan[w].cap
      /\ row'[n].tries = row[n].tries
  <2>1. s \in States
    BY StatesAre DEF Ingested
  <2>2. QED
    BY <1>3, <1>4, <2>1, CaptureRow DEF SInv, IInv
<1>6. RowOK(n)'
  BY <1>1, <1>3, <1>5 DEF RowOK, cvars
<1>7. \A m \in Name \ {n} : Untouched(m)
  BY <1>1, <1>5 DEF RowStep, Untouched, fvars, cvars
<1>8. KeepsParsed
  BY <1>3, <1>5, RetryableRow DEF KeepsParsed, RowStep
<1>9. IInv'
  BY LinkStep DEF SInv
<1>10. CASE Go(w, "parsing")
  <2>1. /\ Moved(w) /\ SameFile(w) /\ scan'[w].pc = "parsing"
    BY <1>1, <1>10, GoEffect DEF SInv, IInv, Pcs, Between
  <2>2. ListOK(w)'
    BY <1>1, <1>2, <1>5, <2>1, ListAtFile DEF Between, RowStep
  <2>3. FileOK(w)'
    BY <1>1, <1>2, <1>3, <1>5, <2>1
       DEF FileOK, New, SameFile, Mine, Between, cvars, fvars, Retryable
  <2>4. QED
    BY <1>1, <1>6, <1>7, <1>8, <1>9, <2>1, <2>2, <2>3, FileTurn DEF fvars
<1>11. CASE Leave(w, {n})
  <2>1. Moved(w) /\ ListOK(w)' /\ FileOK(w)'
    BY <1>1, <1>2, <1>5, <1>11, ListAfter DEF Between, RowStep
  <2>2. QED
    BY <1>1, <1>6, <1>7, <1>8, <1>9, <2>1, FileTurn DEF fvars
<1>12. QED
  BY <1>2, <1>10, <1>11 DEF Link

LEMMA MarkTurn ==
  ASSUME SInv, NEW w \in Worker, MarkParsing(w)
  PROVE  SInv' /\ KeepsParsed
<1>1. scan[w].pc = "parsing" /\ UNCHANGED <<fvars, cvars>> /\ Go(w, "parse")
  BY DEF MarkParsing, At
<1>2. PICK n \in Name : n = Mine(w)
  BY <1>1, Knows DEF Between
<1>3. /\ FileOK(w) /\ RowOK(n) /\ row[n].state \in Retryable
      /\ runs[n] <= 1 + row[n].tries /\ (~scan[w].retry => runs[n] = 0)
      /\ scan[w].retry => scan[w].tries = row[n].tries
      /\ scan[w].cap \in Nat /\ row[n] \in Row
  BY <1>1, <1>2, Knows DEF Between, FileOK, Scan
<1> DEFINE r == [row[n] EXCEPT !.state = "parsing", !.cap = scan[w].cap]
<1>4. r \in Row /\ r.state = "parsing" /\ r.tries = row[n].tries
  BY <1>3, StatesAre DEF Row, Ingested
<1>5. row' = [row EXCEPT ![n] = r]
  BY <1>2 DEF MarkParsing
<1> HIDE DEF r
<1>6. RowStep(n) /\ row'[n] = r
  BY <1>4, <1>5, RowUpdate DEF SInv, IInv
<1>7. /\ Moved(w) /\ SameFile(w) /\ scan'[w].pc = "parse"
  BY <1>1, GoEffect DEF SInv, IInv, Pcs, Between
<1>8. ListOK(w)'
  BY <1>1, <1>2, <1>6, <1>7, ListAtFile DEF Between, RowStep
<1>9. FileOK(w)'
  BY <1>1, <1>2, <1>3, <1>4, <1>6, <1>7
     DEF FileOK, New, SameFile, Mine, Between, cvars, fvars
<1>10. RowOK(n)'
  BY <1>1, <1>3, <1>4, <1>6 DEF RowOK, cvars
<1>11. \A m \in Name \ {n} : Untouched(m)
  BY <1>1, <1>6 DEF RowStep, Untouched, fvars, cvars
<1>12. KeepsParsed
  BY <1>3, <1>6, RetryableRow DEF KeepsParsed, RowStep
<1>13. IInv'
  BY MarkStep DEF SInv
<1>14. QED
  BY <1>1, <1>7, <1>8, <1>9, <1>10, <1>11, <1>12, <1>13, FileTurn DEF fvars

\* The parse request is refused, or fails before the parser starts.
LEMMA NotStarted ==
  ASSUME SInv, IInv', NEW w \in Worker, scan[w].pc = "parse",
         UNCHANGED <<uploads, incoming, pcaps, row, cvars>>,
         NEW out \in {"retry_pending", "failed"}, Conclude(w, out, scan[w].cap)
  PROVE  SInv' /\ KeepsParsed
<1>1. PICK n \in Name : n = Mine(w)
  BY Knows DEF Between
<1>2. /\ FileOK(w) /\ row[n].state = "parsing" /\ scan[w].cap \in Nat
      /\ runs[n] <= 1 + row[n].tries /\ runs[n] \in Nat /\ row[n].tries \in Nat
      /\ scan[w].retry => scan[w].tries = row[n].tries
  BY <1>1, Knows DEF Between, FileOK, Scan
<1>3. /\ Moved(w) /\ SameFile(w) /\ scan'[w].pc = "settle" /\ scan'[w].out = out
  BY <1>2, ConcludeEffect DEF SInv, IInv, Between
<1>4. ListOK(w)'
  BY <1>3, ListAtFile DEF Between
<1>5. FileOK(w)'
  BY <1>1, <1>2, <1>3 DEF FileOK, New, SameFile, Mine, Between, cvars
<1>6. QED
  BY <1>3, <1>4, <1>5, ScanTurn DEF Between

LEMMA RefusedTurn ==
  ASSUME SInv, NEW w \in Worker, ParseRefused(w)
  PROVE  SInv' /\ KeepsParsed
<1>1. IInv'
  BY RefusedStep DEF SInv
<1>2. PICK out \in {"retry_pending", "failed"} : Conclude(w, out, scan[w].cap)
  BY DEF ParseRefused
<1>3. QED
  BY <1>1, <1>2, NotStarted DEF ParseRefused, At, fvars

\* A scan that ends, in the order or with an exception.
LEMMA AbortTurn ==
  ASSUME SInv, IInv', NEW w \in Worker, scan' = [scan EXCEPT ![w] = NoScan],
         scan[w].pc # "idle", UNCHANGED <<uploads, incoming, pcaps, row, cvars>>
  PROVE  SInv' /\ KeepsParsed
BY ListAtEnd, ScanTurn

LEMMA StartParserTurn ==
  ASSUME SInv, NEW w \in Worker, StartParser(w)
  PROVE  SInv' /\ KeepsParsed
<1>1. /\ scan[w].pc = "parse" /\ UNCHANGED <<fvars, row>> /\ captures' = captures
      /\ Go(w, "running")
  BY DEF StartParser, At
<1>2. PICK n \in Name : n = Mine(w)
  BY <1>1, Knows DEF Between
<1>3. /\ FileOK(w) /\ row[n].state = "parsing" /\ RowOK(n) /\ MaxRetries \in Nat
      /\ runs[n] <= 1 + row[n].tries /\ (~scan[w].retry => runs[n] = 0)
      /\ runs[n] \in Nat /\ row[n].tries \in Nat
      /\ scan[w].retry => scan[w].tries = row[n].tries
      /\ scan[w].retry => scan[w].tries < MaxRetries
      /\ scan[w].cap \in captures[n]
  BY <1>1, <1>2, Knows DEF Between, FileOK, ScanLink
<1>4. pcaps[n] # None /\ pcaps[n].id = scan[w].cap
  BY <1>2 DEF StartParser
<1>5. /\ Moved(w) /\ SameFile(w) /\ scan'[w].pc = "running"
      /\ scan'[w].cap = scan[w].cap
  BY <1>1, GoEffect DEF SInv, IInv, Pcs, Between
<1>6. /\ complete' = [complete EXCEPT ![n] = complete[n] \ {scan[w].cap}]
      /\ runs' = [runs EXCEPT ![n] = IF runs[n] < MaxRetries + 2
                                     THEN runs[n] + 1 ELSE runs[n]]
  BY <1>2 DEF StartParser
<1>7. /\ \A m \in Name \ {n} : complete'[m] = complete[m] /\ runs'[m] = runs[m]
      /\ runs'[n] \in {runs[n], runs[n] + 1}
  BY <1>6 DEF SInv, IInv, TypeOK
<1>8. ListOK(w)'
  BY <1>1, <1>5, ListAtFile DEF Between
<1>9. /\ runs'[n] <= MaxRetries + 1
      /\ runs'[n] <= 1 + (IF scan[w].retry THEN scan[w].tries + 1 ELSE row[n].tries)
  BY <1>3, <1>7
<1>10. FileOK(w)'
  BY <1>1, <1>2, <1>3, <1>4, <1>5, <1>9
     DEF FileOK, New, SameFile, Mine, Between, fvars
<1>11. RowOK(n)'
  BY <1>1, <1>3, <1>9 DEF RowOK
<1>12. \A m \in Name \ {n} : Untouched(m)
  BY <1>1, <1>7 DEF Untouched, fvars
<1>13. IInv'
  BY StartParserStep DEF SInv
<1>14. QED
  BY <1>1, <1>5, <1>8, <1>10, <1>11, <1>12, <1>13, FileTurn DEF fvars, KeepsParsed

\* The parser is done, however it went.
LEMMA RunOverTurn ==
  ASSUME SInv, IInv', NEW w \in Worker, scan[w].pc = "running",
         UNCHANGED <<uploads, incoming, pcaps, row, runs, captures>>,
         NEW n \in Name, n = Mine(w), NEW out \in {"parsed", "failed"},
         Conclude(w, out, scan[w].cap),
         \/ complete' = [complete EXCEPT ![n] = complete[n] \cup {scan[w].cap}]
         \/ complete' = complete /\ out = "failed"
  PROVE  SInv' /\ KeepsParsed
<1>1. /\ FileOK(w) /\ row[n].state = "parsing" /\ RowOK(n) /\ scan[w].cap \in Nat
      /\ runs[n] <= 1 + (IF scan[w].retry THEN scan[w].tries + 1 ELSE row[n].tries)
      /\ pcaps[n] # None /\ pcaps[n].id = scan[w].cap
      /\ scan[w].retry => scan[w].tries = row[n].tries
  BY Knows DEF Between, FileOK, Scan
<1>2. /\ Moved(w) /\ SameFile(w) /\ scan'[w].pc = "settle"
      /\ scan'[w].cap = scan[w].cap /\ scan'[w].out = out
  BY <1>1, ConcludeEffect DEF SInv, IInv, Between
<1>3. /\ \A m \in Name \ {n} : complete'[m] = complete[m]
      /\ out = "parsed" => scan[w].cap \in complete'[n]
  BY DEF SInv, IInv, TypeOK
<1>4. ListOK(w)'
  BY <1>2, ListAtFile DEF Between
<1>5. FileOK(w)'
  BY <1>1, <1>2, <1>3 DEF FileOK, New, SameFile, Mine, Between
<1>6. RowOK(n)'
  BY <1>1 DEF RowOK
<1>7. \A m \in Name \ {n} : Untouched(m)
  BY <1>3 DEF Untouched
<1>8. QED
  BY <1>2, <1>4, <1>5, <1>6, <1>7, FileTurn DEF KeepsParsed

LEMMA ParserEndsTurn ==
  ASSUME SInv, NEW w \in Worker, ParserEnds(w)
  PROVE  SInv' /\ KeepsParsed
<1>1. scan[w].pc = "running" /\ UNCHANGED <<fvars, row, runs>>
  BY DEF ParserEnds, At
<1>2. PICK n \in Name : n = Mine(w)
  BY <1>1, Knows DEF Between
<1>3. pcaps[n] # None /\ pcaps[n].id = scan[w].cap
  BY <1>1, <1>2, Knows DEF Between, FileOK
<1>4. IInv'
  BY ParserEndsStep DEF SInv
<1>5. CASE RunSucceeds(n, scan[w].cap) /\ Conclude(w, "parsed", scan[w].cap)
             /\ captures' = captures
  BY <1>1, <1>2, <1>4, <1>5, RunOverTurn DEF RunSucceeds, fvars
<1>6. CASE /\ complete' = complete /\ Conclude(w, "failed", scan[w].cap)
           /\ captures' = captures
  BY <1>1, <1>2, <1>4, <1>6, RunOverTurn DEF fvars
<1>7. QED
  BY <1>2, <1>3, <1>5, <1>6 DEF ParserEnds

LEMMA HandledTurn ==
  ASSUME SInv, NEW w \in Worker, HandledFailure(w)
  PROVE  SInv' /\ KeepsParsed
<1>1. UNCHANGED <<fvars, row, captures, runs>>
  BY DEF HandledFailure
<1>2. IInv'
  BY HandledStep DEF SInv
<1>3. CASE /\ scan[w].pc \in {"look", "insert"} /\ Conclude(w, "failed", 0)
           /\ complete' = complete
  BY <1>1, <1>2, <1>3, NotRegistered DEF fvars, cvars
<1>4. CASE /\ scan[w].pc = "parse" /\ Conclude(w, "failed", scan[w].cap)
           /\ complete' = complete
  BY <1>1, <1>2, <1>4, NotStarted DEF fvars, cvars
<1>5. CASE /\ scan[w].pc = "running" /\ Conclude(w, "failed", scan[w].cap)
           /\ (complete' = complete \/ RunSucceeds(Mine(w), scan[w].cap))
  <2>1. PICK n \in Name : n = Mine(w)
    BY <1>5, Knows DEF Between
  <2>2. \/ complete' = complete
        \/ complete' = [complete EXCEPT ![n] = complete[n] \cup {scan[w].cap}]
    BY <1>5, <2>1 DEF RunSucceeds
  <2>3. QED
    BY <1>1, <1>2, <1>5, <2>1, <2>2, RunOverTurn DEF fvars
<1>6. QED
  BY <1>3, <1>4, <1>5 DEF HandledFailure, At

LEMMA SettleTurn ==
  ASSUME SInv, NEW w \in Worker, Settle(w)
  PROVE  SInv' /\ KeepsParsed
<1>1. scan[w].pc = "settle" /\ UNCHANGED <<fvars, cvars>> /\ Leave(w, {Mine(w)})
  BY DEF Settle, At
<1>2. PICK n \in Name : n = Mine(w)
  BY <1>1, Knows DEF Between
<1>3. /\ RowStep(n) /\ row'[n].state = scan[w].out
      /\ row'[n].cap = (IF scan[w].cap = 0 THEN row[n].cap ELSE scan[w].cap)
      /\ row'[n].tries = IF scan[w].retry /\ scan[w].out = "failed"
                         THEN scan[w].tries + 1 ELSE row[n].tries
  BY <1>2, SettleRow DEF SInv, IInv
<1>4. /\ RowOK(n) /\ row[n].state # "parsed"
      /\ scan[w].out = "parsed" =>
           /\ pcaps[n] # None /\ pcaps[n].id = scan[w].cap
           /\ scan[w].cap \in complete[n]
      /\ scan[w].out = "retry_pending" => runs[n] <= 1 + row[n].tries
      /\ runs[n] <= 1 + (IF scan[w].retry THEN scan[w].tries + 1 ELSE row[n].tries)
  BY <1>1, <1>2, Knows, RetryableRow DEF Between, FileOK
<1>5. /\ scan[w].out \in {"parsed", "failed", "retry_pending"}
      /\ scan[w].out = "parsed" => scan[w].cap # 0
  BY <1>1, Knows DEF Between, ScanLink, Scan
<1>6. Moved(w) /\ ListOK(w)' /\ FileOK(w)'
  BY <1>1, <1>2, <1>3, ListAfter DEF Between, RowStep
<1>7. RowOK(n)'
  BY <1>1, <1>3, <1>4, <1>5 DEF RowOK, cvars, fvars
<1>8. \A m \in Name \ {n} : Untouched(m)
  BY <1>1, <1>3 DEF RowStep, Untouched, fvars, cvars
<1>9. IInv'
  BY SettleStep DEF SInv
<1>10. KeepsParsed
  BY <1>3, <1>4 DEF KeepsParsed, RowStep
<1>11. QED
  BY <1>1, <1>6, <1>7, <1>8, <1>9, <1>10, FileTurn DEF fvars

-----------------------------------------------------------------------------
(* The second pass.                                                         *)

LEMMA ListTurn ==
  ASSUME SInv, NEW w \in Worker, ListRows(w)
  PROVE  SInv' /\ KeepsParsed
<1>1. scan[w].pc = "files" /\ UNCHANGED <<fvars, row, cvars>>
  BY DEF ListRows, At
<1>2. /\ Moved(w) /\ scan'[w].pc = "rows" /\ scan'[w].retry = FALSE
      /\ scan'[w].rows = {[n |-> n, cap |-> row[n].cap, tries |-> row[n].tries] :
                            n \in ToRetry(w)}
  BY ListEffect DEF SInv, IInv
<1>3. ListOK(w)'
  BY <1>1, <1>2 DEF ListOK, ToRetry, Between
<1>4. FileOK(w)'
  BY <1>2 DEF FileOK, Between
<1>5. IInv'
  BY ListStep DEF SInv
<1>6. QED
  BY <1>1, <1>2, <1>3, <1>4, <1>5, ScanTurn DEF fvars

LEMMA RetryTurn ==
  ASSUME SInv, NEW w \in Worker, RetryRow(w)
  PROVE  SInv' /\ KeepsParsed
<1>1. scan[w].pc = "rows" /\ UNCHANGED <<fvars, cvars>>
  BY DEF RetryRow, At
<1>2. PICK x \in scan[w].rows :
        /\ Moved(w)
        /\ \/ /\ GivesUp(w, x) /\ scan'[w].rows = scan[w].rows \ {x}
              /\ scan'[w].pc = "rows" /\ scan'[w].retry = scan[w].retry
           \/ TakesUp(w, x)
  BY RetryEffect DEF SInv, IInv
<1>3. PICK n \in Name : n = x.n
  BY AtRows DEF SInv
<1>4. /\ ListOK(w) /\ RowOK(n) /\ row[n].state \in Retryable
      /\ x.cap = row[n].cap /\ x.tries = row[n].tries
      /\ \A y \in scan[w].rows \ {x} : y.n # n /\ y.n \in Name
  <2>1. ListOK(w) /\ RowOK(n) /\ \A y \in scan[w].rows : y.n \in Name
    BY AtRows DEF SInv
  <2>2. QED
    BY <1>3, <2>1 DEF ListOK
<1>5. /\ runs[n] \in Nat /\ row[n].tries \in Nat /\ MaxRetries \in Nat
      /\ runs[n] <= 1 + row[n].tries
  BY <1>4, IngestAssumption, RetryableRow DEF SInv, IInv, TypeOK, Row, RowOK
<1>6. IInv'
  BY RetryStep DEF SInv
<1>7. CASE GivesUp(w, x) /\ scan'[w].rows = scan[w].rows \ {x}
             /\ scan'[w].pc = "rows" /\ scan'[w].retry = scan[w].retry
  <2>1. /\ RowStep(n) /\ row'[n].state = "failed"
        /\ row'[n].tries = (IF x.tries >= MaxRetries THEN x.tries ELSE x.tries + 1)
    BY <1>3, <1>7, GiveUpRow DEF SInv, IInv
  <2>2. ListOK(w)'
    BY <1>4, <1>7, <2>1 DEF ListOK, RowStep, Between
  <2>3. FileOK(w)'
    BY <1>1, <1>7 DEF FileOK, Between, SInv, IInv, Links, ScanLink
  <2>4. RowOK(n)'
    BY <1>1, <1>4, <1>5, <2>1 DEF RowOK, cvars, fvars
  <2>5. \A m \in Name \ {n} : Untouched(m)
    BY <1>1, <2>1 DEF RowStep, Untouched, fvars, cvars
  <2>6. KeepsParsed
    BY <1>4, <2>1, RetryableRow DEF KeepsParsed, RowStep
  <2>7. QED
    BY <1>1, <1>2, <1>6, <2>2, <2>3, <2>4, <2>5, <2>6, FileTurn DEF fvars
<1>8. CASE TakesUp(w, x)
  <2>1. /\ row' = row /\ pcaps[n] # None
        /\ scan'[w].pc \in {"look", "link"}
        /\ scan'[w].rows = scan[w].rows \ {x} /\ scan'[w].n = n
        /\ scan'[w].tries = x.tries /\ scan'[w].retry = TRUE
    BY <1>3, <1>8 DEF TakesUp
  <2>2. ListOK(w)'
    BY <1>4, <2>1 DEF ListOK, Between, Mine
  <2>3. FileOK(w)'
    BY <1>1, <1>4, <1>5, <2>1 DEF FileOK, Between, Mine, fvars, cvars
  <2>4. QED
    BY <1>1, <1>2, <1>6, <2>1, <2>2, <2>3, ScanTurn DEF fvars
<1>9. QED
  BY <1>2, <1>7, <1>8

\* A statement that fails outside any handler.
LEMMA StatementTurn ==
  ASSUME SInv, NEW w \in Worker, StatementFails(w)
  PROVE  SInv' /\ KeepsParsed
<1>1. /\ UNCHANGED <<uploads, incoming, pcaps, row, cvars>>
      /\ scan[w].pc \in {"decide", "promote", "link", "parsing", "settle", "finalize"}
  BY DEF StatementFails, fvars, F!Return, At
<1>2. IInv'
  BY StatementStep DEF SInv
<1>3. CASE scan[w].retry
  BY <1>1, <1>2, <1>3, AbortTurn DEF StatementFails, Abort
<1>4. CASE ~scan[w].retry
  <2>1. Leave(w, {})
    BY <1>4 DEF StatementFails
  <2>2. Moved(w) /\ ListOK(w)' /\ FileOK(w)'
    BY <1>1, <2>1, ListAfter DEF Between
  <2>3. QED
    BY <1>1, <1>2, <2>2, ScanTurn
<1>5. QED
  BY <1>3, <1>4

-----------------------------------------------------------------------------
(* The surroundings, and the invariant of scans that take turns.            *)

LEMMA OutsideTurn ==
  ASSUME SInv, IInv', UNCHANGED <<row, cvars, scan>>, job' = job, pcaps' = pcaps,
         \A n \in Name : incoming[n] # 0 => incoming'[n] # 0
  PROVE  SInv' /\ KeepsParsed
<1>1. Turns'
  BY DEF SInv, Turns
<1>2. \A w \in Worker : ListOK(w)' /\ FileOK(w)'
  <2> SUFFICES ASSUME NEW w \in Worker PROVE ListOK(w)' /\ FileOK(w)'
    OBVIOUS
  <2>1. scan[w].pc = "finalize" => Mine(w) \in Name
    BY Knows DEF Between
  <2>2. QED
    BY <2>1 DEF SInv, ListOK, FileOK, New, Mine, cvars
<1>3. \A n \in Name : RowOK(n)'
  BY RowKept DEF Untouched, cvars
<1>4. QED
  BY <1>1, <1>2, <1>3 DEF SInv, KeepsParsed

LEMMA UploadTurn ==
  ASSUME SInv, NEW n \in Name, NEW d \in Exports[n], Upload(n, d)
  PROVE  SInv' /\ KeepsParsed
<1>1. /\ UNCHANGED <<row, cvars, scan>> /\ job' = job /\ pcaps' = pcaps
      /\ incoming' = [incoming EXCEPT ![n] = IF incoming[n] = 0 THEN F!Version(n) + 1
                                                                ELSE incoming[n]]
  BY DEF Upload, F!Upload
<1>2. incoming \in [Name -> Nat]
  BY DEF SInv, IInv, FP!IInv, FP!TypeOK
<1>3. \A m \in Name : incoming[m] # 0 => incoming'[m] # 0
  BY <1>1, <1>2
<1>4. IInv'
  BY UploadKeeps DEF SInv
<1>5. QED
  BY <1>1, <1>3, <1>4, OutsideTurn

LEMMA RestartTurn ==
  ASSUME SInv, Restart
  PROVE  SInv' /\ KeepsParsed
<1>1. /\ UNCHANGED <<row, cvars, pcaps>> /\ scan' = [w \in Worker |-> NoScan]
  BY DEF Restart, F!CrashJobs
<1>2. \A w \in Worker : scan'[w] = NoScan
  BY <1>1
<1>3. Turns'
  BY <1>2, NoScanType DEF Turns
<1>4. \A w \in Worker : ListOK(w)' /\ FileOK(w)'
  BY <1>2 DEF ListOK, FileOK, NoScan, Between
<1>5. \A n \in Name : RowOK(n)'
  BY <1>1, RowKept DEF Untouched, cvars
<1>6. IInv'
  BY RestartKeeps DEF SInv
<1>7. QED
  BY <1>1, <1>3, <1>4, <1>5, <1>6 DEF SInv, KeepsParsed

LEMMA LockTurn ==
  ASSUME SInv, LeaseEnds \/ WebParse \/ WebParseEnds
  PROVE  SInv' /\ KeepsParsed
<1>1. UNCHANGED <<fvars, row, cvars, scan>>
  BY DEF LeaseEnds, WebParse, WebParseEnds
<1>2. IInv'
  BY LockKeeps DEF SInv
<1>3. QED
  BY <1>1, <1>2, OutsideTurn DEF fvars

LEMMA ScanTurns ==
  ASSUME ~Overlap, SInv, NEW w \in Worker,
         ScanStep(w) \/ StatementFails(w) \/ ScanFails(w) \/ HandledFailure(w)
  PROVE  SInv' /\ KeepsParsed
<1>1. IInv'
  BY ScanKeeps DEF SInv
<1>2. CASE StatAborts(w)
  BY <1>1, <1>2, AbortTurn DEF StatAborts, Abort, At, fvars
<1>3. CASE EndScan(w)
  BY <1>1, <1>3, AbortTurn DEF EndScan, At, fvars
<1>4. CASE ScanFails(w)
  BY <1>1, <1>4, AbortTurn DEF ScanFails, Abort, At, fvars
<1>5. QED
  BY <1>2, <1>3, <1>4, StartTurn, ReadTurn, StatTurn, WaitTurn, ClaimTurn,
     FinalizeTurn, FailedTurn, ValidatedTurn, PromoteTurn, LookTurn, InsertTurn,
     LinkTurn, MarkTurn, RefusedTurn, StartParserTurn, ParserEndsTurn,
     SettleTurn, ListTurn, RetryTurn, StatementTurn, HandledTurn DEF ScanStep

LEMMA InitSInv == Init => SInv
<1> SUFFICES ASSUME Init PROVE SInv
  OBVIOUS
<1>1. \A w \in Worker : scan[w] = NoScan
  BY DEF Init
<1>2. \A n \in Name : /\ row[n] = NoRow /\ captures[n] = {} /\ complete[n] = {}
                      /\ runs[n] = 0
  BY DEF Init
<1>3. Turns
  BY <1>1, NoScanType DEF Turns
<1>4. \A w \in Worker : ListOK(w) /\ FileOK(w)
  BY <1>1 DEF ListOK, FileOK, NoScan, Between
<1>5. \A n \in Name : RowOK(n)
  BY <1>2, IngestAssumption DEF RowOK, NoRow
<1>6. QED
  BY <1>3, <1>4, <1>5, InitIInv DEF SInv

LEMMA NextSInv ==
  ASSUME ~Overlap, SInv, [Next]_vars
  PROVE  SInv' /\ KeepsParsed
<1>1. CASE UNCHANGED vars
  <2>1. UNCHANGED <<fvars, row, cvars, scan>>
    BY <1>1 DEF vars, fvars, cvars
  <2>2. IInv'
    BY <1>1, NextIInv DEF SInv
  <2>3. QED
    BY <2>1, <2>2, OutsideTurn DEF fvars
<1>2. CASE Next
  BY <1>2, ScanTurns, UploadTurn, RestartTurn, LockTurn DEF Next
<1>3. QED
  BY <1>1, <1>2

LEMMA AlwaysSInv == ASSUME ~Overlap PROVE Spec => []SInv
<1>1. SInv /\ [Next]_vars => SInv'
  BY NextSInv
<1>2. QED
  BY <1>1, InitSInv, PTL DEF Spec

\* Scans that take turns, however often they fail or Study Web restarts: a row
\* is parsed only if it links the file now in pcaps/, parsed with success.
THEOREM ParsedIsComplete ==
  ASSUME ~Overlap
  PROVE  Spec => []ParsedMeansComplete
<1>1. SInv => ParsedMeansComplete
  BY DEF SInv, RowOK, ParsedMeansComplete
<1>2. QED
  BY <1>1, AlwaysSInv, PTL

\* ... and no later scan changes it.
THEOREM ParsedStays ==
  ASSUME ~Overlap
  PROVE  Spec => ParsedIsFinal
<1>1. SInv /\ [Next]_vars => [KeepsParsed]_vars
  BY NextSInv
<1>2. KeepsParsed <=> \A n \in Name : row[n].state = "parsed" => row'[n] = row[n]
  BY DEF KeepsParsed
<1>3. QED
  BY <1>1, <1>2, AlwaysSInv, PTL DEF Spec, ParsedIsFinal

\* ... and a file is registered once and parsed once and MaxRetries times again
\* at most, whatever is uploaded under its name.
THEOREM CapturesAreBounded ==
  ASSUME ~Overlap
  PROVE  Spec => []OneCapturePerFile
<1>1. SInv => OneCapturePerFile
  BY DEF SInv, RowOK, OneCapturePerFile
<1>2. QED
  BY <1>1, AlwaysSInv, PTL

\* The directories are as they were.
LEMMA FilesStay ==
  ASSUME UNCHANGED <<uploads, incoming, pcaps>>
  PROVE  FP!KeepsUploads
BY DEF FP!KeepsUploads, FP!Kept, FP!Content, FP!Version

LEMMA TurnsKeepUploads ==
  ASSUME SInv, Next
  PROVE  FP!KeepsUploads
<1>1. ASSUME NEW w \in Worker, Finalize(w) PROVE FP!KeepsUploads
  <2>1. PICK id \in Nat : FileMove(w, id) /\ FP!Act(w)
    <3>1. Mine(w) \in Name
      BY <1>1, Knows DEF Finalize, At, Between
    <3>2. QED
      BY <1>1, <3>1, FreshIsNew, FinalizeMoves DEF SInv, IInv
  <2>2. FP!KeptBy(w) /\ FP!IInv
    BY <1>1, ScanKeepsFiles DEF Finalize, At, SInv, IInv
  <2>3. QED
    BY <2>1, <2>2, FileData, FP!SerialKeeps
<1>2. ASSUME NEW w \in Worker, ScanStep(w), ~Finalize(w)
      PROVE  UNCHANGED <<uploads, incoming, pcaps>>
  BY <1>2 DEF ScanStep, StartScan, ReadRow, StatUpload, Wait, Claim,
     FinalizationFailed, Validated, Promote, Look, Insert, Link, MarkParsing,
     ParseRefused, StatAborts, StartParser, ParserEnds, Settle, ListRows,
     RetryRow, EndScan, F!Begin, F!Return, fvars
<1>3. ASSUME NEW n \in Name, NEW d \in Exports[n], Upload(n, d)
      PROVE  FP!KeepsUploads
  <2>1. FP!Upload(n, d)
    BY <1>3 DEF Upload, F!Upload, FP!Upload, F!Version, FP!Version
  <2>2. d \in Data /\ FP!TypeOK
    BY IngestAssumption DEF SInv, IInv, FP!IInv
  <2>3. QED
    BY <2>1, <2>2, FileData, FP!UploadKeeps
<1>4. ASSUME NEW w \in Worker, StatementFails(w) \/ ScanFails(w) \/ HandledFailure(w)
      PROVE  UNCHANGED <<uploads, incoming, pcaps>>
  BY <1>4 DEF StatementFails, ScanFails, HandledFailure, F!Return, fvars
<1>5. Restart \/ LeaseEnds \/ WebParse \/ WebParseEnds =>
        UNCHANGED <<uploads, incoming, pcaps>>
  BY DEF Restart, LeaseEnds, WebParse, WebParseEnds, F!CrashJobs, fvars
<1>6. QED
  BY <1>1, <1>2, <1>3, <1>4, <1>5, FilesStay DEF Next

\* ... and the last version of an upload is in incoming/ or in pcaps/, whatever
\* fails; but for one written in place after the finalizer compared the file.
THEOREM NothingIsLost ==
  ASSUME ~Overlap
  PROVE  Spec => F!NoUploadIsLost
<1>1. SInv /\ [Next]_vars => [FP!KeepsUploads]_(F!fsvars)
  BY TurnsKeepUploads DEF vars, F!fsvars
<1>2. FP!KeepsUploads <=>
        \A n \in Name : F!Kept(n) => F!Kept(n)' \/ F!Overtaken(n)
  BY DEF FP!KeepsUploads, FP!Kept, F!Kept, FP!Overtaken, F!Overtaken, FP!At, F!At,
         FP!Content, F!Content, FP!Version, F!Version
<1>3. QED
  BY <1>1, <1>2, AlwaysSInv, PTL DEF Spec, F!NoUploadIsLost

-----------------------------------------------------------------------------
(* Scans that take turns on a disk that does not fail.                      *)

LEMMA RetryableIsHashed == Retryable \cup {"parsing"} \subseteq Hashed
BY DEF Retryable, Hashed, Ingested

\* No row of a finalized file comes into being, and no file changes.
LEMMA HashesKept ==
  ASSUME DInv, NEW n \in Name, pcaps' = pcaps, complete' = complete, RowStep(n),
         row'[n].final = row[n].final, row'[n].sha = row[n].sha,
         row'[n].state \in Hashed => row[n].state \in Hashed
  PROVE  \A m \in Name : Behind(m)' /\ ParsedHash(m)'
<1> SUFFICES ASSUME NEW m \in Name PROVE Behind(m)' /\ ParsedHash(m)'
  OBVIOUS
<1>1. /\ row'[m].final = row[m].final /\ row'[m].sha = row[m].sha
      /\ row'[m].state \in Hashed => row[m].state \in Hashed
  BY DEF RowStep
<1>2. Behind(m) /\ ParsedHash(m)
  BY DEF DInv
<1>3. QED
  BY <1>1, <1>2 DEF Behind, ParsedHash, Parsed

\* ... nor does a row change; a parse run may begin.
LEMMA HashesSame ==
  ASSUME DInv, pcaps' = pcaps, row' = row,
         \A n \in Name : complete'[n] \subseteq complete[n]
  PROVE  \A m \in Name : Behind(m)' /\ ParsedHash(m)'
BY DEF DInv, Behind, ParsedHash, Parsed

\* ... or end with success, which is recorded for the file in pcaps/.
LEMMA HashesParsed ==
  ASSUME DInv, pcaps' = pcaps, row' = row, NEW n \in Name, row[n].state \in Hashed,
         \A m \in Name \ {n} : complete'[m] = complete[m]
  PROVE  \A m \in Name : Behind(m)' /\ ParsedHash(m)'
BY DEF DInv, Behind, ParsedHash, Parsed

\* The hash of the file is stored.
LEMMA HashesStored ==
  ASSUME DInv, NEW n \in Name, pcaps' = pcaps, complete' = complete, RowStep(n),
         row'[n].final, pcaps[n] # None, pcaps[n].data = row'[n].sha
  PROVE  \A m \in Name : Behind(m)' /\ ParsedHash(m)'
BY DEF DInv, Behind, ParsedHash, Parsed, RowStep

\* There is nothing to blame on a scan that finalizes nothing.
LEMMA NotBlamed ==
  ASSUME SInv', NEW v \in Worker, scan'[v].pc \notin {"decide", "finalize"}
  PROVE  Blamed(v)'
BY DEF SInv, IInv, JobMatch, At, Blamed

LEMMA OthersNotBlamed ==
  ASSUME SInv, NEW w \in Worker, scan[w].pc # "idle", SInv', Moved(w),
         NEW v \in Worker \ {w}
  PROVE  Blamed(v)'
<1>1. scan'[v].pc = "idle"
  BY Alone DEF Moved
<1>2. QED
  BY <1>1, NotBlamed

\* A step of a scan, put together.
LEMMA DataStep ==
  ASSUME DInv, SInv', NEW w \in Worker, scan[w].pc # "idle", Moved(w),
         \A m \in Name : Behind(m)' /\ ParsedHash(m)',
         Blamed(w)' \/ scan'[w].pc \notin {"decide", "finalize"}
  PROVE  DInv'
BY NotBlamed, OthersNotBlamed DEF DInv

LEMMA StatData ==
  ASSUME DInv, SInv', NEW w \in Worker, StatUpload(w)
  PROVE  DInv'
<1>1. scan[w].pc = "stat" /\ UNCHANGED <<fvars, row, cvars>>
  BY DEF StatUpload, At
<1>2. /\ SInv /\ IInv /\ TypeOK /\ FP!TypeOK
  BY DEF DInv, SInv, IInv, FP!IInv
<1>3. \A m \in Name : Behind(m)' /\ ParsedHash(m)'
  BY <1>1, HashesSame DEF fvars, cvars
<1>4. CASE Leave(w, {Mine(w)})
  <2>1. Moved(w) /\ scan'[w].pc \in {"files", "rows"}
    BY <1>1, <1>2, <1>4, LeaveEffect, Knows DEF Between
  <2>2. QED
    BY <1>1, <1>3, <2>1, DataStep
<1>5. CASE /\ Moved(w) /\ SameFile(w) /\ scan'[w].pc = "decide"
           /\ incoming[Mine(w)] # 0
  <2>1. job'[w].stage = "idle"
    BY <1>5 DEF SInv, IInv, JobMatch, At
  <2>2. Blamed(w)'
    BY <1>1, <1>5, <2>1 DEF Blamed, Mine, SameFile, fvars
  <2>3. QED
    BY <1>1, <1>3, <1>5, <2>2, DataStep
<1>6. QED
  BY <1>2, <1>4, <1>5, StatEffect

LEMMA WaitData ==
  ASSUME DInv, SInv', NEW w \in Worker, Wait(w)
  PROVE  DInv'
<1>1. scan[w].pc = "decide" /\ UNCHANGED <<fvars, cvars>> /\ Leave(w, {Mine(w)})
  BY DEF Wait, At
<1>2. SInv /\ IInv /\ TypeOK
  BY DEF DInv, SInv, IInv
<1>3. PICK n \in Name : n = Mine(w)
  BY <1>1, <1>2, Knows DEF Between
<1>4. /\ RowStep(n) /\ row'[n].state \in Waiting
      /\ row'[n].final = row[n].final /\ row'[n].sha = row[n].sha
  BY <1>2, <1>3, WaitRow
<1>5. row'[n].state \notin Hashed
  BY <1>4 DEF Waiting, Hashed, Ingested
<1>6. Moved(w) /\ scan'[w].pc \in {"files", "rows"}
  BY <1>1, <1>2, <1>3, LeaveEffect
<1>7. \A m \in Name : Behind(m)' /\ ParsedHash(m)'
  BY <1>1, <1>4, <1>5, HashesKept DEF fvars, cvars
<1>8. QED
  BY <1>1, <1>6, <1>7, DataStep

LEMMA ClaimData ==
  ASSUME DInv, SInv', NEW w \in Worker, Claim(w)
  PROVE  DInv'
<1>1. /\ scan[w].pc = "decide" /\ UNCHANGED cvars /\ Go(w, "finalize")
  BY DEF Claim, At
<1>2. SInv /\ IInv /\ TypeOK /\ FP!TypeOK /\ Blamed(w)
  BY DEF DInv, SInv, IInv, FP!IInv
<1>3. PICK n \in Name : n = Mine(w)
  BY <1>1, <1>2, Knows DEF Between
<1>4. SetState(n, "validating") /\ F!Begin(w, n)
  BY <1>3 DEF Claim
<1>5. /\ RowStep(n) /\ row'[n].state \notin Hashed
      /\ row'[n].final = row[n].final /\ row'[n].sha = row[n].sha
  BY <1>2, <1>4, SetStateEffect, StatesAre DEF Hashed, Ingested
<1>6. Moved(w) /\ SameFile(w) /\ scan'[w].pc = "finalize"
  BY <1>1, <1>2, GoEffect DEF Pcs, Between
<1>7. job'[w].stage = "stat" /\ UNCHANGED <<uploads, incoming, pcaps>>
  BY <1>2, <1>4, BeginJob DEF F!Begin
<1>8. Blamed(w)'
  BY <1>1, <1>2, <1>6, <1>7 DEF Blamed, Mine, SameFile
<1>9. \A m \in Name : Behind(m)' /\ ParsedHash(m)'
  BY <1>1, <1>5, <1>7, HashesKept DEF cvars
<1>10. QED
  BY <1>1, <1>6, <1>8, <1>9, DataStep

\* Only a wrong file makes a finalization fail, if the disk does not.
LEMMA BlameStep ==
  ASSUME FP!TypeOK, NEW w \in Worker, NEW id \in Nat, FP!Step(w, id),
         job[w].stage = "stat" => incoming[job[w].name] # 0,
         job[w].stage \in {"verify", "unlink"} => pcaps[job[w].name] # None
  PROVE  /\ job'[w].stage # "stat"
         /\ job'[w].stage = "failed" => job'[w].why \in FP!Quarantining
<1> DEFINE j == job[w]
<1>1. job \in [Worker -> FP!Jobs] /\ j \in FP!Jobs
  BY DEF FP!TypeOK, FP!Jobs
<1>2. ASSUME NEW y, FP!Fail(w, y) PROVE job'[w].stage = "failed" /\ job'[w].why = y
  <2>1. job'[w] = [j EXCEPT !.stage = "failed", !.why = y]
    BY <1>1, <1>2 DEF FP!Fail
  <2>2. QED
    BY <1>1, <2>1 DEF FP!Jobs
<1>3. /\ FP!Recheck(w) => job'[w].stage \in {"commit", "failed"}
      /\ FP!Copy(w) => job'[w].stage = "recheck"
      /\ \A s : FP!Move(w, s) => job'[w].stage = s
  BY FileData, FP!StageAfter, FP!JobAfter
<1>4. CASE FP!StatSource(w)
  <2>1. \/ FP!Fail(w, "unsafe_object")
        \/ job' = [job EXCEPT ![w].stage = "open", ![w].ino = incoming[j.name]]
    BY <1>4 DEF FP!StatSource, FP!At
  <2>2. CASE job' = [job EXCEPT ![w].stage = "open", ![w].ino = incoming[j.name]]
    <3>1. job'[w] = [j EXCEPT !.stage = "open", !.ino = incoming[j.name]]
      BY <1>1, <2>2
    <3>2. QED
      BY <1>1, <3>1 DEF FP!Jobs
  <2>3. QED
    BY <1>2, <2>1, <2>2 DEF FP!Quarantining
<1>5. CASE FP!OpenSource(w)
  <2>1. \/ FP!Fail(w, "source_changed_during_claim") \/ FP!Fail(w, "invalid_magic")
        \/ job' = [job EXCEPT ![w].stage = "copy", ![w].ver = FP!Version(j.name)]
    BY <1>5 DEF FP!OpenSource
  <2>2. CASE job' = [job EXCEPT ![w].stage = "copy", ![w].ver = FP!Version(j.name)]
    <3>1. job'[w] = [j EXCEPT !.stage = "copy", !.ver = FP!Version(j.name)]
      BY <1>1, <2>2
    <3>2. QED
      BY <1>1, <3>1 DEF FP!Jobs
  <2>3. QED
    BY <1>2, <2>1, <2>2 DEF FP!Quarantining
<1>6. CASE FP!Copy(w)
  BY <1>3, <1>6
<1>7. CASE FP!Recheck(w)
  BY <1>2, <1>3, <1>7 DEF FP!Recheck, FP!Quarantining
<1>8. CASE FP!Commit(w, id)
  BY <1>3, <1>8 DEF FP!Commit
<1>9. CASE FP!Verify(w)
  BY <1>2, <1>3, <1>9 DEF FP!Verify, FP!At, FP!Quarantining
<1>10. CASE FP!UnlinkSource(w)
  BY <1>3, <1>10 DEF FP!UnlinkSource, FP!At
<1>11. QED
  BY <1>4, <1>5, <1>6, <1>7, <1>8, <1>9, <1>10 DEF FP!Step

LEMMA FinalizeData ==
  ASSUME {"disk", "sync"} \cap Troubles = {}, DInv, SInv', NEW w \in Worker,
         Finalize(w)
  PROVE  DInv'
<1>1. scan[w].pc = "finalize" /\ UNCHANGED <<row, cvars, scan>>
  BY DEF Finalize, At
<1>2. /\ SInv /\ IInv /\ TypeOK /\ FP!IInv /\ FP!TypeOK /\ Blamed(w)
  BY DEF DInv, SInv, IInv, FP!IInv
<1>3. PICK n \in Name : n = Mine(w)
  BY <1>1, <1>2, Knows DEF Between
<1>4. PICK id \in Nat \ {0} : id = FreshId(n) /\ id \notin captures[n]
  BY <1>2, FreshIsNew
<1>5. FP!Step(w, id) /\ FileMove(w, id)
  <2>1. F!Step(w, id)
    BY <1>3, <1>4 DEF Finalize, Strike
  <2>2. QED
    BY <2>1, SameSteps DEF FileMove
<1>6. job[w].name = n
  BY <1>1, <1>2, <1>3 DEF IInv, JobMatch, At
<1>7. /\ row[n].state = "validating"
      /\ job[w].stage \in {"verify", "unlink", "done"} =>
           pcaps[n] # None /\ pcaps[n].data = job[w].buf
  BY <1>1, <1>2, <1>3, Knows DEF Between, FileOK, New
<1>9. Blamed(w)'
  <2>1. /\ job'[w].stage # "stat"
        /\ job'[w].stage = "failed" => job'[w].why \in FP!Quarantining
    BY <1>2, <1>3, <1>5, <1>6, <1>7, BlameStep DEF Blamed
  <2>2. QED
    BY <1>1, <2>1 DEF Blamed, F!Quarantining, FP!Quarantining
<1>10. \/ pcaps' = pcaps
       \/ pcaps' = [pcaps EXCEPT ![n] = [id |-> id, data |-> job[w].buf]]
  BY <1>2, <1>5, <1>6, <1>7, StepPcaps
<1>11. \A m \in Name : Behind(m)' /\ ParsedHash(m)'
  <2>1. \A m \in Name : Behind(m) /\ ParsedHash(m)
    BY DEF DInv
  <2>2. pcaps \in [Name -> FP!Evidence \cup {None}] /\ complete[n] \subseteq captures[n]
    BY <1>2 DEF FP!TypeOK, FP!Evidence, TypeOK
  <2>3. \A m \in Name \ {n} : pcaps'[m] = pcaps[m]
    BY <1>10, <2>2
  <2>4. pcaps'[n] = pcaps[n] \/ pcaps'[n].id = id
    BY <1>10, <2>2
  <2>5. \A m \in Name : Behind(m)'
    BY <1>1, <1>7, <2>1, <2>3 DEF Behind, Hashed, Ingested
  <2>6. \A m \in Name : ParsedHash(m)'
    BY <1>1, <1>4, <2>1, <2>2, <2>3, <2>4 DEF ParsedHash, Parsed, cvars
  <2>7. QED
    BY <2>5, <2>6
<1>12. Moved(w)
  BY <1>1, <1>2 DEF TypeOK, Moved, Mine
<1>13. QED
  BY <1>1, <1>9, <1>11, <1>12, DataStep

LEMMA FailedData ==
  ASSUME DInv, SInv', NEW w \in Worker, FinalizationFailed(w)
  PROVE  DInv'
<1>1. /\ scan[w].pc = "finalize" /\ UNCHANGED cvars /\ F!Return(w)
      /\ job[w].stage = "failed" /\ UNCHANGED <<uploads, incoming, pcaps>>
  BY DEF FinalizationFailed, At, F!At, F!Return
<1>2. SInv /\ IInv /\ TypeOK /\ Blamed(w)
  BY DEF DInv, SInv, IInv
<1>3. PICK n \in Name : n = Mine(w)
  BY <1>1, <1>2, Knows DEF Between
<1>4. SetState(n, "quarantined") /\ Leave(w, {n})
  BY <1>1, <1>2, <1>3 DEF FinalizationFailed, Blamed
<1>5. /\ RowStep(n) /\ row'[n].state \notin Hashed
      /\ row'[n].final = row[n].final /\ row'[n].sha = row[n].sha
  BY <1>2, <1>4, SetStateEffect, StatesAre DEF Hashed, Ingested
<1>6. Moved(w) /\ scan'[w].pc \in {"files", "rows"}
  BY <1>2, <1>4, LeaveEffect
<1>7. \A m \in Name : Behind(m)' /\ ParsedHash(m)'
  BY <1>1, <1>5, HashesKept DEF cvars
<1>8. QED
  BY <1>1, <1>6, <1>7, DataStep

LEMMA ValidatedData ==
  ASSUME DInv, SInv', NEW w \in Worker, Validated(w)
  PROVE  DInv'
<1>1. /\ scan[w].pc = "finalize" /\ UNCHANGED cvars /\ F!Return(w)
      /\ job[w].stage = "done" /\ UNCHANGED <<uploads, incoming, pcaps>>
  BY DEF Validated, At, F!At, F!Return
<1>2. SInv /\ IInv /\ TypeOK
  BY DEF DInv, SInv, IInv
<1>3. PICK n \in Name, d \in Data : n = Mine(w) /\ d = job[w].buf
  BY <1>1, <1>2, Knows, DoneData DEF Between, FP!Copied
<1>4. pcaps[n] # None /\ pcaps[n].data = d
  BY <1>1, <1>2, <1>3, Knows DEF Between, FileOK, New
<1>5. CASE ShaTaken(n, d)
  <2>1. Leave(w, {}) /\ row' = row
    BY <1>3, <1>5 DEF Validated
  <2>2. Moved(w) /\ scan'[w].pc \in {"files", "rows"}
    BY <1>2, <2>1, LeaveEffect
  <2>3. \A m \in Name : Behind(m)' /\ ParsedHash(m)'
    BY <1>1, <2>1, HashesSame DEF cvars
  <2>4. QED
    BY <1>1, <2>2, <2>3, DataStep
<1>6. CASE ~ShaTaken(n, d)
  <2>1. /\ StoresHash(n, "validated", d)
        /\ scan' = [scan EXCEPT ![w].pc = "promote", ![w].data = d]
    BY <1>3, <1>6 DEF Validated, StoresHash
  <2>2. RowStep(n) /\ row'[n].final /\ row'[n].sha = d
    <3>1. TypeOK /\ "validated" \in States
      BY <1>2, StatesAre
    <3>2. QED
      BY <2>1, <3>1, HashRow
  <2>3. Moved(w) /\ scan'[w].pc = "promote"
    BY <1>1, <1>2, <2>1, ValidatedEffect
  <2>4. \A m \in Name : Behind(m)' /\ ParsedHash(m)'
    BY <1>1, <1>4, <2>2, HashesStored DEF cvars
  <2>5. QED
    BY <1>1, <2>3, <2>4, DataStep
<1>7. QED
  BY <1>5, <1>6

LEMMA PromoteData ==
  ASSUME DInv, SInv', NEW w \in Worker, Promote(w)
  PROVE  DInv'
<1>1. scan[w].pc = "promote" /\ UNCHANGED <<fvars, cvars>>
  BY DEF Promote, At
<1>2. SInv /\ IInv /\ TypeOK
  BY DEF DInv, SInv, IInv
<1>3. PICK n \in Name, d \in Data : n = Mine(w) /\ d = scan[w].data
  BY <1>1, <1>2, Knows DEF Between, ScanLink
<1>4. pcaps[n] # None /\ pcaps[n].data = d
  BY <1>1, <1>2, <1>3, Knows DEF Between, FileOK, New
<1>5. CASE ShaTaken(n, d)
  <2>1. Leave(w, {}) /\ row' = row
    BY <1>3, <1>5 DEF Promote
  <2>2. Moved(w) /\ scan'[w].pc \in {"files", "rows"}
    BY <1>2, <2>1, LeaveEffect
  <2>3. \A m \in Name : Behind(m)' /\ ParsedHash(m)'
    BY <1>1, <2>1, HashesSame DEF fvars, cvars
  <2>4. QED
    BY <1>1, <2>2, <2>3, DataStep
<1>6. CASE ~ShaTaken(n, d)
  <2>1. Go(w, "look") /\ StoresHash(n, "promoted", d)
    BY <1>3, <1>6 DEF Promote, StoresHash
  <2>2. Moved(w) /\ scan'[w].pc = "look"
    BY <1>1, <1>2, <2>1, GoEffect DEF Pcs, Between
  <2>3. RowStep(n) /\ row'[n].final /\ row'[n].sha = d
    <3>1. TypeOK /\ "promoted" \in States
      BY <1>2, StatesAre DEF Ingested
    <3>2. QED
      BY <2>1, <3>1, HashRow
  <2>4. \A m \in Name : Behind(m)' /\ ParsedHash(m)'
    BY <1>1, <1>4, <2>3, HashesStored DEF fvars, cvars
  <2>5. QED
    BY <1>1, <2>2, <2>4, DataStep
<1>7. QED
  BY <1>5, <1>6

\* Steps that leave the rows alone and finish no parse run.
LEMMA QuietData ==
  ASSUME DInv, SInv', NEW w \in Worker, scan[w].pc # "idle", Moved(w),
         scan'[w].pc \notin {"decide", "finalize"}, pcaps' = pcaps, row' = row,
         \A n \in Name : complete'[n] \subseteq complete[n]
  PROVE  DInv'
BY HashesSame, DataStep

LEMMA PassData ==
  ASSUME DInv, SInv', NEW w \in Worker, ReadRow(w) \/ Look(w) \/ Insert(w) \/ ListRows(w)
  PROVE  DInv'
<1>1. SInv /\ IInv /\ TypeOK /\ FP!TypeOK
  BY DEF DInv, SInv, IInv, FP!IInv
<1>2. /\ scan[w].pc \in {"files", "look", "insert"}
      /\ UNCHANGED <<fvars, row, complete>>
  <2>1. CASE ReadRow(w)
    BY <2>1 DEF ReadRow, At, cvars
  <2>2. CASE Look(w)
    BY <2>2 DEF Look, At, cvars
  <2>3. CASE Insert(w)
    BY <2>3 DEF Insert, At
  <2>4. CASE ListRows(w)
    BY <2>4 DEF ListRows, At, cvars
  <2>5. QED
    BY <2>1, <2>2, <2>3, <2>4
<1>3. Moved(w) /\ scan'[w].pc \notin {"decide", "finalize"}
  <2>1. CASE ReadRow(w)
    BY <1>1, <2>1, ReadRowEffect
  <2>2. CASE Look(w)
    <3>1. scan[w].pc \notin Between
      BY <2>2 DEF Look, At, Between
    <3>2. QED
      BY <1>1, <2>2, <3>1, LookEffect, ConcludeEffect
  <2>3. CASE Insert(w)
    <3>1. scan[w].pc \notin Between /\ (Conclude(w, "failed", 0) \/ Go(w, "link"))
      BY <2>3 DEF Insert, At, Between
    <3>2. QED
      BY <1>1, <3>1, ConcludeEffect, GoEffect DEF Pcs, Between
  <2>4. CASE ListRows(w)
    BY <1>1, <2>4, ListEffect
  <2>5. QED
    BY <2>1, <2>2, <2>3, <2>4
<1>4. QED
  BY <1>2, <1>3, QuietData DEF fvars

LEMMA EndData ==
  ASSUME DInv, SInv', NEW w \in Worker, StatAborts(w) \/ EndScan(w) \/ ScanFails(w)
  PROVE  DInv'
<1>1. /\ scan[w].pc # "idle" /\ UNCHANGED <<fvars, row, cvars>>
      /\ scan' = [scan EXCEPT ![w] = NoScan]
  BY DEF StatAborts, EndScan, ScanFails, Abort, At
<1>2. Moved(w) /\ scan'[w].pc = "idle"
  BY <1>1, EndEffect, NoScanType DEF DInv, SInv, IInv
<1>3. QED
  BY <1>1, <1>2, QuietData DEF fvars, cvars

LEMMA StatementData ==
  ASSUME DInv, SInv', NEW w \in Worker, StatementFails(w)
  PROVE  DInv'
<1>1. /\ UNCHANGED <<pcaps, row, cvars>> /\ scan[w].pc # "idle"
      /\ (Leave(w, {}) \/ scan' = [scan EXCEPT ![w] = NoScan])
  BY DEF StatementFails, Abort, fvars, F!Return, At
<1>2. Moved(w) /\ scan'[w].pc \in {"files", "rows", "idle"}
  BY <1>1, EndEffect, LeaveEffect, NoScanType DEF DInv, SInv, IInv
<1>3. QED
  BY <1>1, <1>2, QuietData DEF cvars

LEMMA ParserData ==
  ASSUME DInv, SInv', NEW w \in Worker,
         ParseRefused(w) \/ StartParser(w) \/ ParserEnds(w) \/ HandledFailure(w)
  PROVE  DInv'
<1>1. /\ scan[w].pc \in {"look", "insert", "parse", "running"}
      /\ UNCHANGED <<fvars, row>>
  BY DEF ParseRefused, StartParser, ParserEnds, HandledFailure, At
<1>2. SInv /\ IInv /\ TypeOK /\ scan[w].pc \notin Between
  BY <1>1 DEF DInv, SInv, IInv, Between
<1>3. PICK n \in Name : n = Mine(w)
  BY <1>2, Knows
<1>4. scan[w].cap \in Nat /\ row[n].state \in Hashed
  BY <1>1, <1>2, <1>3, Knows, RetryableIsHashed DEF FileOK, Scan
<1>5. \/ Go(w, "running")
      \/ \E out \in {"parsed", "failed", "retry_pending"}, c \in {0, scan[w].cap} :
           Conclude(w, out, c)
  BY DEF ParseRefused, StartParser, ParserEnds, HandledFailure
<1>6. Moved(w) /\ scan'[w].pc \notin {"decide", "finalize"}
  BY <1>2, <1>4, <1>5, GoEffect, ConcludeEffect DEF Pcs, Between
<1>7. \A m \in Name \ {n} : complete'[m] = complete[m]
  BY <1>2, <1>3 DEF ParseRefused, StartParser, ParserEnds, HandledFailure,
                    RunSucceeds, cvars, TypeOK
<1>8. \A m \in Name : Behind(m)' /\ ParsedHash(m)'
  BY <1>1, <1>4, <1>7, HashesParsed DEF fvars
<1>9. QED
  BY <1>1, <1>6, <1>8, DataStep

\* The row of a file that is registered or parsed takes on another state.
LEMMA RowData ==
  ASSUME DInv, SInv', NEW w \in Worker, Link(w) \/ MarkParsing(w) \/ Settle(w)
  PROVE  DInv'
<1>1. /\ scan[w].pc \in {"link", "parsing", "settle"}
      /\ UNCHANGED <<fvars, cvars>>
  BY DEF Link, MarkParsing, Settle, At
<1>2. SInv /\ IInv /\ TypeOK /\ scan[w].pc \notin Between
  BY <1>1 DEF DInv, SInv, IInv, Between
<1>3. PICK n \in Name : n = Mine(w)
  BY <1>2, Knows
<1>4. scan[w].cap \in Nat /\ row[n].state \in Hashed /\ row[n] \in Row
  BY <1>1, <1>2, <1>3, Knows, RetryableIsHashed DEF FileOK, Scan
<1>5. /\ RowStep(n) /\ row'[n].final = row[n].final /\ row'[n].sha = row[n].sha
  <2>1. ASSUME NEW s \in States,
               row' = [row EXCEPT ![n].cap = scan[w].cap, ![n].state = s]
        PROVE  RowStep(n) /\ row'[n].final = row[n].final /\ row'[n].sha = row[n].sha
    BY <1>2, <1>4, <2>1, CaptureRow
  <2>2. CASE Link(w)
    <3>1. PICK s \in {"retry_pending", "registered", "imported"} :
            row' = [row EXCEPT ![n].cap = scan[w].cap, ![n].state = s]
      BY <1>3, <2>2 DEF Link
    <3>2. s \in States
      BY StatesAre DEF Ingested
    <3>3. QED
      BY <2>1, <3>1, <3>2
  <2>3. CASE MarkParsing(w)
    <3> DEFINE r == [row[n] EXCEPT !.state = "parsing", !.cap = scan[w].cap]
    <3>1. row' = [row EXCEPT ![n] = r]
      BY <1>3, <2>3 DEF MarkParsing
    <3>2. r \in Row /\ r.final = row[n].final /\ r.sha = row[n].sha
      BY <1>4, StatesAre DEF Row, Ingested
    <3> HIDE DEF r
    <3>3. QED
      BY <1>2, <3>1, <3>2, RowUpdate
  <2>4. CASE Settle(w)
    BY <1>2, <1>3, <2>4, SettleRow
  <2>5. QED
    BY <2>2, <2>3, <2>4
<1>6. Moved(w) /\ scan'[w].pc \notin {"decide", "finalize"}
  <2>1. (\E pc \in {"parsing", "parse"} : Go(w, pc)) \/ Leave(w, {n})
    BY <1>3 DEF Link, MarkParsing, Settle
  <2>2. CASE Leave(w, {n})
    BY <1>2, <2>2, LeaveEffect
  <2>3. ASSUME NEW pc \in {"parsing", "parse"}, Go(w, pc)
        PROVE  Moved(w) /\ scan'[w].pc = pc
    <3>1. pc \in Pcs \ Between
      BY DEF Pcs, Between
    <3>2. QED
      BY <1>2, <2>3, <3>1, GoEffect
  <2>4. QED
    BY <2>1, <2>2, <2>3
<1>7. \A m \in Name : Behind(m)' /\ ParsedHash(m)'
  BY <1>1, <1>4, <1>5, HashesKept DEF fvars, cvars
<1>8. QED
  BY <1>1, <1>6, <1>7, DataStep

LEMMA RetryData ==
  ASSUME DInv, SInv', NEW w \in Worker, RetryRow(w)
  PROVE  DInv'
<1>1. scan[w].pc = "rows" /\ UNCHANGED <<fvars, cvars>>
  BY DEF RetryRow, At
<1>2. SInv /\ IInv /\ TypeOK
  BY DEF DInv, SInv, IInv
<1>3. PICK x \in scan[w].rows :
        /\ Moved(w)
        /\ \/ GivesUp(w, x) /\ scan'[w].pc = "rows"
           \/ TakesUp(w, x)
  BY <1>2, RetryEffect
<1>4. x.n \in Name /\ row[x.n].state \in Hashed
  BY <1>2, AtRows, RetryableIsHashed DEF SInv, ListOK
<1>5. CASE GivesUp(w, x) /\ scan'[w].pc = "rows"
  <2>1. \A m \in Name : Behind(m)' /\ ParsedHash(m)'
    BY <1>1, <1>2, <1>4, <1>5, GiveUpRow, HashesKept DEF fvars, cvars
  <2>2. QED
    BY <1>1, <1>3, <1>5, <2>1, DataStep
<1>6. CASE TakesUp(w, x)
  <2>1. row' = row /\ scan'[w].pc \in {"look", "link"}
    BY <1>6 DEF TakesUp
  <2>2. QED
    BY <1>1, <1>3, <2>1, QuietData DEF fvars, cvars
<1>7. QED
  BY <1>3, <1>5, <1>6

LEMMA StartData ==
  ASSUME ~Overlap, DInv, SInv', NEW w \in Worker, StartScan(w)
  PROVE  DInv'
<1>1. Moved(w) /\ scan'[w].pc = "files" /\ UNCHANGED <<fvars, row, cvars>>
  BY StartEffect DEF DInv, SInv, IInv, StartScan
<1>2. \A v \in Worker : scan'[v].pc \in {"idle", "files"}
  BY <1>1 DEF StartScan, At, Moved
<1>3. \A v \in Worker : Blamed(v)'
  BY <1>2, NotBlamed
<1>4. QED
  BY <1>1, <1>3, HashesSame DEF DInv, fvars, cvars

\* Steps of the surroundings: an upload leaves a file where there was one.
LEMMA OutsideData ==
  ASSUME DInv, SInv', UNCHANGED <<row, cvars, scan>>, job' = job, pcaps' = pcaps,
         \A n \in Name : incoming[n] # 0 => incoming'[n] # 0
  PROVE  DInv'
<1>1. ASSUME NEW w \in Worker PROVE Blamed(w)'
  <2>1. Blamed(w) /\ JobMatch(w) /\ TypeOK
    BY DEF DInv, SInv, IInv
  <2>2. CASE scan[w].pc \in {"decide", "finalize"}
    <3>1. Mine(w) \in Name
      BY <2>1, <2>2 DEF TypeOK, Between
    <3>2. QED
      BY <2>1, <3>1 DEF Blamed, Mine
  <2>3. CASE scan[w].pc \notin {"decide", "finalize"}
    BY <2>3, NotBlamed
  <2>4. QED
    BY <2>2, <2>3
<1>2. QED
  BY <1>1, HashesSame DEF DInv, cvars

LEMMA UploadData ==
  ASSUME DInv, SInv', NEW n \in Name, NEW d \in Exports[n], Upload(n, d)
  PROVE  DInv'
<1>1. /\ UNCHANGED <<row, cvars, scan>> /\ job' = job /\ pcaps' = pcaps
      /\ incoming' = [incoming EXCEPT ![n] = IF incoming[n] = 0 THEN F!Version(n) + 1
                                                                ELSE incoming[n]]
  BY DEF Upload, F!Upload
<1>2. incoming \in [Name -> Nat]
  BY DEF DInv, SInv, IInv, FP!IInv, FP!TypeOK
<1>3. \A m \in Name : incoming[m] # 0 => incoming'[m] # 0
  BY <1>1, <1>2
<1>4. QED
  BY <1>1, <1>3, OutsideData

LEMMA RestartData ==
  ASSUME DInv, SInv', Restart
  PROVE  DInv'
<1>1. /\ UNCHANGED <<row, cvars>> /\ pcaps' = pcaps
      /\ \A w \in Worker : scan'[w] = NoScan
  BY DEF Restart, F!CrashJobs
<1>2. \A w \in Worker : Blamed(w)'
  BY <1>1, NoScanType, NotBlamed
<1>3. QED
  BY <1>1, <1>2, HashesSame DEF DInv, cvars

LEMMA NextDInv ==
  ASSUME ~Overlap, {"disk", "sync"} \cap Troubles = {}, DInv, [Next]_vars
  PROVE  DInv'
<1>1. SInv'
  BY NextSInv DEF DInv
<1>2. CASE UNCHANGED vars \/ LeaseEnds \/ WebParse \/ WebParseEnds
  <2>1. UNCHANGED <<fvars, row, cvars, scan>>
    BY <1>2 DEF vars, fvars, cvars, LeaseEnds, WebParse, WebParseEnds
  <2>2. QED
    BY <1>1, <2>1, OutsideData DEF fvars
<1>3. CASE \E w \in Worker : \/ ScanStep(w) \/ StatementFails(w) \/ ScanFails(w)
                             \/ HandledFailure(w)
  BY <1>1, <1>3, StartData, PassData, StatData, WaitData, ClaimData, FinalizeData,
     FailedData, ValidatedData, PromoteData, RowData, ParserData, RetryData,
     EndData, StatementData DEF ScanStep
<1>4. CASE Restart \/ \E n \in Name : \E d \in Exports[n] : Upload(n, d)
  BY <1>1, <1>4, RestartData, UploadData
<1>5. QED
  BY <1>2, <1>3, <1>4 DEF Next

LEMMA InitDInv == Init => DInv
<1> SUFFICES ASSUME Init PROVE DInv
  OBVIOUS
<1>1. \A n \in Name : row[n] = NoRow /\ pcaps[n] = None
  BY DEF Init, F!FsInit
<1>2. \A n \in Name : Behind(n) /\ ParsedHash(n)
  BY <1>1 DEF Behind, ParsedHash, Parsed, NoRow, Hashed, Ingested
<1>3. \A w \in Worker : scan[w].pc = "idle" /\ job[w].stage = "idle"
  BY NoScanType DEF Init, F!FsInit, F!NoJob
<1>4. QED
  BY <1>2, <1>3, InitSInv DEF DInv, Blamed

LEMMA AlwaysDInv ==
  ASSUME ~Overlap, {"disk", "sync"} \cap Troubles = {}
  PROVE  Spec => []DInv
<1>1. DInv /\ [Next]_vars => DInv'
  BY NextDInv
<1>2. QED
  BY <1>1, InitDInv, PTL DEF Spec

\* ... on a disk that does not fail, what a row says of a finalized file is true
\* of the file in pcaps/, whatever is uploaded under its name and at what moment.
THEOREM RowsTellTheTruth ==
  ASSUME ~Overlap, {"disk", "sync"} \cap Troubles = {}
  PROVE  Spec => []EvidenceBehindRow
<1>1. DInv => EvidenceBehindRow
  BY DEF DInv, Behind, Hashed, EvidenceBehindRow
<1>2. QED
  BY <1>1, AlwaysDInv, PTL

\* ... and the evidence of one capture is not imported under two names: a file
\* that was parsed has the hash its row stores, and no other row stores it.
THEOREM ContentsParsedOnce ==
  ASSUME ~Overlap, {"disk", "sync"} \cap Troubles = {}
  PROVE  Spec => []NoContentParsedTwice
<1>1. DInv => NoContentParsedTwice
  <2> SUFFICES ASSUME DInv, NEW n \in Name, NEW m \in Name, n # m, Parsed(n), Parsed(m)
               PROVE  pcaps[n].data # pcaps[m].data
    BY DEF NoContentParsedTwice
  <2>1. /\ pcaps[n].data = row[n].sha /\ pcaps[m].data = row[m].sha
        /\ pcaps[n] # None
    BY DEF DInv, ParsedHash, Parsed
  <2>2. pcaps[n].data # None
    <3>1. pcaps[n] \in [id : Nat, data : Data \cup {Torn}]
      BY <2>1 DEF DInv, SInv, IInv, FP!IInv, FP!TypeOK
    <3>2. QED
      BY <3>1, FileData DEF FP!DataAssumption
  <2>3. QED
    BY <2>1, <2>2 DEF DInv, SInv, IInv, ShaUnique
<1>2. QED
  BY <1>1, AlwaysDInv, PTL

-----------------------------------------------------------------------------
(* Scans that take turns, without a failing statement, a restart or a sync  *)
(* that fails after a removal: nothing finalized is left behind.            *)

\* A scan works on the file n and has its row in a state of its own.
Busy(w, n) ==
  /\ scan[w].pc \in {"finalize", "promote", "parse", "running", "settle"}
  /\ Mine(w) = n

Finished(n) ==
  row[n].state = "parsed" \/ (row[n].state \in Retryable /\ row[n].final)

\* The upload is there, and the first pass does not skip it.
Offered(n) == row[n].state \notin Ingested /\ incoming[n] # 0

\* A finalized file is finished, or the file of a scan, or finalized again.
Tended(n) ==
  pcaps[n] # None => Finished(n) \/ Offered(n) \/ \E w \in Worker : Busy(w, n)

Exported(n) ==
  /\ \A i \in DOMAIN uploads[n] : uploads[n][i] \in Exports[n]
  /\ row[n].sha # None => row[n].sha \in Exports[n]

\* What a scan knows of the directories.
StageOK(w) ==
  LET n == Mine(w) IN
  /\ scan[w].pc = "decide" => incoming[n] # 0
  /\ scan[w].pc = "finalize" /\ job[w].stage # "done" => incoming[n] # 0
  /\ scan[w].pc \notin Between \cup {"stat", "decide", "finalize"} =>
       pcaps[n] # None /\ row[n].final

RInv ==
  /\ SInv
  /\ \A n \in Name : Tended(n) /\ Exported(n)
  /\ \A w \in Worker : StageOK(w)

\* The premises of this part, as far as they are about the constants.
Untroubled ==
  /\ ~Overlap /\ {"db", "restart", "sync"} \cap Troubles = {}
  /\ \A n, m \in Name : n # m => Exports[n] \cap Exports[m] = {}

LEMMA KnownR ==
  ASSUME RInv
  PROVE  /\ SInv /\ IInv /\ TypeOK /\ FP!IInv /\ FP!TypeOK
         /\ \A w \in Worker : JobMatch(w)
BY DEF RInv, SInv, IInv, FP!IInv

\* A file that no scan works on is as it should be, and so it stays.
LEMMA Rests ==
  ASSUME RInv, NEW w \in Worker, scan[w].pc # "idle", NEW n \in Name,
         ~Busy(w, n), pcaps[n] # None
  PROVE  Finished(n) \/ Offered(n)
<1>1. \A v \in Worker : ~Busy(v, n)
  BY Alone, KnownR DEF Busy
<1>2. QED
  BY <1>1 DEF RInv, Tended

LEMMA RestsOn ==
  ASSUME RInv, NEW w \in Worker, scan[w].pc # "idle", NEW n \in Name,
         ~Busy(w, n), row'[n] = row[n], pcaps'[n] = pcaps[n],
         incoming'[n] = incoming[n]
  PROVE  Tended(n)'
BY Rests DEF Tended, Finished, Offered

\* A step of a scan that leaves the directories alone.
LEMMA RestStep ==
  ASSUME RInv, SInv', NEW w \in Worker, scan[w].pc # "idle", Moved(w),
         UNCHANGED <<uploads, incoming, pcaps>>,
         \A m \in Name : row'[m].sha = row[m].sha \/ row'[m].sha \in Exports[m],
         \A m \in Name : Tended(m)', StageOK(w)'
  PROVE  RInv'
<1>1. \A v \in Worker \ {w} : scan[v].pc = "idle" /\ scan'[v].pc = "idle"
  BY Alone, KnownR DEF Moved
<1>2. \A v \in Worker : StageOK(v)'
  BY <1>1 DEF StageOK, Between
<1>3. \A m \in Name : Exported(m)'
  BY DEF RInv, Exported
<1>4. QED
  BY <1>2, <1>3 DEF RInv

\* ... and the rows: the scan is at a file it works on, or at none.
LEMMA RestSame ==
  ASSUME RInv, SInv', NEW w \in Worker, scan[w].pc # "idle", Moved(w),
         UNCHANGED <<uploads, incoming, pcaps, row>>, StageOK(w)',
         \A n \in Name : Busy(w, n) => Tended(n)'
  PROVE  RInv'
<1>1. \A m \in Name : Tended(m)'
  BY RestsOn
<1>2. QED
  BY <1>1, RestStep

\* ... or changes the row of its file.
LEMMA RestRow ==
  ASSUME RInv, SInv', NEW w \in Worker, scan[w].pc # "idle", Moved(w),
         UNCHANGED <<uploads, incoming, pcaps>>,
         NEW n \in Name, scan[w].pc \in Between \/ Mine(w) = n, RowStep(n),
         row'[n].sha = row[n].sha \/ row'[n].sha \in Exports[n],
         Tended(n)', StageOK(w)'
  PROVE  RInv'
<1>1. ASSUME NEW m \in Name \ {n} PROVE Tended(m)' /\ row'[m].sha = row[m].sha
  <2>1. ~Busy(w, m)
    BY DEF Busy, Between
  <2>2. QED
    BY <2>1, RestsOn DEF RowStep
<1>2. QED
  BY <1>1, RestStep

\* What w knows of the directories at a file it is at.
LEMMA KnowsStage ==
  ASSUME RInv, NEW w \in Worker, scan[w].pc \notin Between
  PROVE  /\ Mine(w) \in Name /\ StageOK(w) /\ FileOK(w) /\ scan[w] \in Scan
         /\ Tended(Mine(w)) /\ Exported(Mine(w))
         /\ row[Mine(w)] \in Row
BY Knows, KnownR DEF RInv

LEMMA StartRest ==
  ASSUME ~Overlap, RInv, SInv', NEW w \in Worker, StartScan(w)
  PROVE  RInv'
<1>1. Moved(w) /\ scan'[w].pc = "files" /\ UNCHANGED <<fvars, row>>
  BY KnownR, StartEffect DEF StartScan
<1>2. \A v \in Worker : scan[v].pc = "idle" /\ scan'[v].pc \in Between
  BY <1>1 DEF StartScan, At, Moved, Between
<1>3. \A v \in Worker : StageOK(v)'
  BY <1>2 DEF StageOK, Between
<1>4. \A m \in Name : Tended(m)' /\ Exported(m)'
  BY <1>1, <1>2 DEF RInv, Tended, Finished, Offered, Busy, Exported, fvars
<1>5. QED
  BY <1>3, <1>4 DEF RInv

LEMMA PassRest ==
  ASSUME RInv, SInv', NEW w \in Worker,
         ReadRow(w) \/ StatUpload(w) \/ ListRows(w) \/ EndScan(w)
  PROVE  RInv'
<1>1. /\ UNCHANGED <<uploads, incoming, pcaps, row>>
      /\ scan[w].pc \in {"files", "stat", "rows"}
  <2>1. CASE ReadRow(w)
    BY <2>1 DEF ReadRow, At, fvars
  <2>2. CASE StatUpload(w)
    BY <2>2 DEF StatUpload, At, fvars
  <2>3. CASE ListRows(w) \/ EndScan(w)
    BY <2>3 DEF ListRows, EndScan, At, fvars
  <2>4. QED
    BY <2>1, <2>2, <2>3
<1>2. \A n \in Name : ~Busy(w, n)
  BY <1>1 DEF Busy
<1>3. Moved(w) /\ StageOK(w)'
  <2>1. CASE ReadRow(w)
    <3>1. Moved(w) /\ scan'[w].pc \in {"files", "stat"}
      BY <2>1, KnownR, ReadRowEffect
    <3>2. QED
      BY <3>1 DEF StageOK, Between
  <2>2. CASE StatUpload(w)
    <3>1. scan[w].pc = "stat" /\ Mine(w) \in Name
      BY <2>2, KnowsStage DEF StatUpload, At, Between
    <3>2. \/ Leave(w, {Mine(w)})
          \/ /\ Moved(w) /\ SameFile(w) /\ scan'[w].pc = "decide"
             /\ incoming[Mine(w)] # 0
      BY <2>2, KnownR, StatEffect
    <3>3. CASE Leave(w, {Mine(w)})
      BY <3>1, <3>3, KnownR, LeaveEffect DEF StageOK, Between
    <3>4. QED
      BY <1>1, <3>2, <3>3 DEF StageOK, Between, SameFile, Mine
  <2>3. CASE ListRows(w)
    BY <2>3, KnownR, ListEffect DEF StageOK, Between
  <2>4. CASE EndScan(w)
    <3>1. Moved(w) /\ scan'[w].pc = "idle"
      BY <2>4, KnownR, EndEffect, NoScanType DEF EndScan
    <3>2. QED
      BY <3>1 DEF StageOK, Between
  <2>5. QED
    BY <2>1, <2>2, <2>3, <2>4
<1>4. QED
  BY <1>1, <1>2, <1>3, RestSame

LEMMA WaitRest ==
  ASSUME RInv, SInv', NEW w \in Worker, Wait(w)
  PROVE  RInv'
<1>1. scan[w].pc = "decide" /\ UNCHANGED <<fvars, cvars>> /\ Leave(w, {Mine(w)})
  BY DEF Wait, At
<1>2. PICK n \in Name : n = Mine(w)
  BY <1>1, KnowsStage DEF Between
<1>3. incoming[n] # 0
  BY <1>1, <1>2, KnowsStage DEF StageOK, Between
<1>4. RowStep(n) /\ row'[n].sha = row[n].sha /\ row'[n].state \in Waiting
  BY <1>2, KnownR, WaitRow
<1>5. Moved(w) /\ StageOK(w)'
  BY <1>1, <1>2, KnownR, LeaveEffect DEF StageOK, Between
<1>6. Tended(n)'
  BY <1>1, <1>3, <1>4 DEF Tended, Offered, Waiting, Ingested, fvars
<1>7. QED
  BY <1>1, <1>2, <1>4, <1>5, <1>6, RestRow DEF fvars

LEMMA ClaimRest ==
  ASSUME RInv, SInv', NEW w \in Worker, Claim(w)
  PROVE  RInv'
<1>1. scan[w].pc = "decide" /\ Go(w, "finalize")
  BY DEF Claim, At
<1>2. PICK n \in Name : n = Mine(w)
  BY <1>1, KnowsStage DEF Between
<1>3. SetState(n, "validating") /\ F!Begin(w, n)
  BY <1>2 DEF Claim
<1>4. incoming[n] # 0
  BY <1>1, <1>2, KnowsStage DEF StageOK, Between
<1>5. RowStep(n) /\ row'[n].sha = row[n].sha
  BY <1>3, KnownR, SetStateEffect, StatesAre
<1>6. Moved(w) /\ SameFile(w) /\ scan'[w].pc = "finalize"
  BY <1>1, KnownR, GoEffect DEF Pcs, Between
<1>7. job'[w].stage = "stat" /\ UNCHANGED <<uploads, incoming, pcaps>>
  BY <1>3, KnownR, BeginJob DEF F!Begin
<1>8. StageOK(w)' /\ Tended(n)'
  BY <1>2, <1>4, <1>6, <1>7 DEF StageOK, SameFile, Mine, Between, Tended, Busy
<1>9. QED
  BY <1>1, <1>2, <1>5, <1>6, <1>7, <1>8, RestRow

LEMMA FailedRest ==
  ASSUME RInv, SInv', NEW w \in Worker, FinalizationFailed(w)
  PROVE  RInv'
<1>1. /\ scan[w].pc = "finalize" /\ job[w].stage = "failed"
      /\ UNCHANGED <<uploads, incoming, pcaps>>
  BY DEF FinalizationFailed, At, F!At, F!Return
<1>2. PICK n \in Name : n = Mine(w)
  BY <1>1, KnowsStage DEF Between
<1>3. PICK s \in {"quarantined", "failed"} : SetState(n, s)
  BY <1>2 DEF FinalizationFailed
<1>4. Leave(w, {n})
  BY <1>2 DEF FinalizationFailed
<1>5. RowStep(n) /\ row'[n].sha = row[n].sha /\ row'[n].state = s
  BY <1>3, KnownR, SetStateEffect, StatesAre
<1>6. incoming[n] # 0
  BY <1>1, <1>2, KnowsStage DEF StageOK, Between
<1>7. Moved(w) /\ StageOK(w)'
  BY <1>4, KnownR, LeaveEffect DEF StageOK, Between
<1>8. Tended(n)'
  BY <1>1, <1>5, <1>6 DEF Tended, Offered, Ingested
<1>9. QED
  BY <1>1, <1>2, <1>5, <1>7, <1>8, RestRow

\* The hash of a file is not that of a file with another name.
LEMMA Apart ==
  ASSUME Untroubled, RInv, NEW n \in Name, NEW d \in Exports[n], d # None
  PROVE  ~ShaTaken(n, d)
BY DEF Untroubled, RInv, Exported, ShaTaken

LEMMA EvidenceOfExport ==
  ASSUME RInv, NEW n \in Name, pcaps[n] # None
  PROVE  pcaps[n].data \in Exports[n] /\ pcaps[n].data # None
<1>1. pcaps[n].data \in FP!Offered(n) \cap FP!Container
  BY KnownR DEF FP!IInv, FP!EvidenceIsOneVersion
<1>2. pcaps[n].data \in Exports[n]
  BY <1>1 DEF FP!Offered, RInv, Exported
<1>3. pcaps[n].data \in Data
  BY <1>1 DEF FP!Container
<1>4. QED
  BY <1>2, <1>3, FileData DEF FP!DataAssumption

LEMMA ValidatedRest ==
  ASSUME Untroubled, RInv, SInv', NEW w \in Worker, Validated(w)
  PROVE  RInv'
<1>1. /\ scan[w].pc = "finalize" /\ job[w].stage = "done"
      /\ UNCHANGED <<uploads, incoming, pcaps>>
  BY DEF Validated, At, F!At, F!Return
<1>2. PICK n \in Name, d \in Data : n = Mine(w) /\ d = job[w].buf
  BY <1>1, KnownR, KnowsStage, DoneData DEF Between, FP!Copied
<1>3. pcaps[n] # None /\ pcaps[n].data = d
  BY <1>1, <1>2, KnowsStage DEF Between, FileOK, New
<1>4. d \in Exports[n] /\ ~ShaTaken(n, d)
  BY <1>3, EvidenceOfExport, Apart
<1>5. /\ StoresHash(n, "validated", d)
      /\ scan' = [scan EXCEPT ![w].pc = "promote", ![w].data = d]
  BY <1>2, <1>4 DEF Validated, StoresHash
<1>6. RowStep(n) /\ row'[n].final /\ row'[n].sha = d
  <2>1. TypeOK /\ "validated" \in States
    BY KnownR, StatesAre
  <2>2. QED
    BY <1>5, <2>1, HashRow
<1>7. Moved(w) /\ SameFile(w) /\ scan'[w].pc = "promote"
  BY <1>1, <1>5, KnownR, ValidatedEffect
<1>8. StageOK(w)' /\ Tended(n)'
  BY <1>1, <1>2, <1>3, <1>6, <1>7
     DEF StageOK, SameFile, Mine, Between, Tended, Busy
<1>9. QED
  BY <1>1, <1>2, <1>4, <1>6, <1>7, <1>8, RestRow

LEMMA PromoteRest ==
  ASSUME Untroubled, RInv, SInv', NEW w \in Worker, Promote(w)
  PROVE  RInv'
<1>1. scan[w].pc = "promote" /\ UNCHANGED <<uploads, incoming, pcaps>>
  BY DEF Promote, At, fvars
<1>2. PICK n \in Name, d \in Data : n = Mine(w) /\ d = scan[w].data
  BY <1>1, KnownR, Knows DEF Between, ScanLink
<1>3. pcaps[n] # None /\ pcaps[n].data = d
  BY <1>1, <1>2, KnowsStage DEF Between, FileOK, New
<1>4. d \in Exports[n] /\ ~ShaTaken(n, d)
  BY <1>3, EvidenceOfExport, Apart
<1>5. Go(w, "look") /\ StoresHash(n, "promoted", d)
  BY <1>2, <1>4 DEF Promote, StoresHash
<1>6. /\ RowStep(n) /\ row'[n].final /\ row'[n].sha = d
      /\ row'[n].state = "promoted"
  <2>1. TypeOK /\ "promoted" \in States
    BY KnownR, StatesAre DEF Ingested
  <2>2. QED
    BY <1>5, <2>1, HashRow
<1>7. Moved(w) /\ SameFile(w) /\ scan'[w].pc = "look"
  BY <1>1, <1>5, KnownR, GoEffect DEF Pcs, Between
<1>8. StageOK(w)' /\ Tended(n)'
  BY <1>1, <1>2, <1>3, <1>6, <1>7
     DEF StageOK, SameFile, Mine, Between, Tended, Finished, Retryable
<1>9. QED
  BY <1>1, <1>2, <1>4, <1>6, <1>7, <1>8, RestRow

\* A finalization that removes the upload, with its evidence in place, is done.
LEMMA StageStep ==
  ASSUME FP!TypeOK, NEW w \in Worker, NEW id \in Nat,
         FP!Step(w, id) \/ FP!DiskFails(w),
         job[w].stage = "unlink" => pcaps[job[w].name] # None
  PROVE  /\ job[w].stage # "done"
         /\ job'[w].stage = "done" \/ incoming' = incoming
         /\ \A m \in Name : m # job[w].name => incoming'[m] = incoming[m]
<1>1. incoming \in [Name -> Nat]
  BY DEF FP!TypeOK
<1>2. CASE FP!StatSource(w) \/ FP!OpenSource(w) \/ FP!Copy(w) \/ FP!Recheck(w)
  BY <1>2 DEF FP!StatSource, FP!OpenSource, FP!Copy, FP!Recheck, FP!At
<1>3. CASE FP!Commit(w, id) \/ FP!Verify(w) \/ FP!DiskFails(w)
  BY <1>3 DEF FP!Commit, FP!Verify, FP!DiskFails, FP!At
<1>4. CASE FP!UnlinkSource(w)
  <2>1. FP!Move(w, "done") /\ job[w].stage = "unlink"
    BY <1>4 DEF FP!UnlinkSource, FP!At
  <2>2. QED
    BY <1>1, <1>4, <2>1, FileData, FP!JobAfter DEF FP!UnlinkSource
<1>5. QED
  BY <1>2, <1>3, <1>4 DEF FP!Step

LEMMA FinalizeRest ==
  ASSUME Untroubled, RInv, SInv', NEW w \in Worker, Finalize(w)
  PROVE  RInv'
<1>1. scan[w].pc = "finalize" /\ UNCHANGED <<row, scan>>
  BY DEF Finalize, At
<1>2. PICK n \in Name : n = Mine(w)
  BY <1>1, KnowsStage DEF Between
<1>3. PICK id \in Nat : id = FreshId(n)
  BY <1>2, KnownR, FreshIsNew
<1>4. FP!Step(w, id) \/ FP!DiskFails(w)
  <2>1. F!Step(w, id) \/ F!DiskFails(w)
    BY <1>2, <1>3 DEF Finalize, Strike, Untroubled
  <2>2. QED
    BY <2>1, SameSteps
<1>5. FileMove(w, id) /\ FP!Act(w)
  BY <1>2, <1>3, FinalizeMoves
<1>6. job[w].name = n /\ uploads' = uploads
  <2>1. job[w].stage # "idle"
    BY <1>5, KnownR, StepKeepsName
  <2>2. QED
    BY <1>1, <1>2, <1>5, <2>1, KnownR, ActParts DEF JobMatch, At
<1>7. job[w].stage = "unlink" => pcaps[n] # None
  BY <1>1, <1>2, KnowsStage DEF Between, FileOK, New
<1>8. /\ job[w].stage # "done"
      /\ job'[w].stage = "done" \/ incoming' = incoming
      /\ \A m \in Name \ {n} : incoming'[m] = incoming[m]
  BY <1>4, <1>6, <1>7, KnownR, StageStep
<1>9. \A m \in Name \ {n} : pcaps'[m] = pcaps[m]
  <2>1. pcaps \in [Name -> FP!Evidence \cup {None}]
    BY KnownR DEF FP!TypeOK, FP!Evidence
  <2>2. QED
    BY <1>5, <1>6, <2>1, KnownR, StepPcaps
<1>10. StageOK(w)'
  BY <1>1, <1>2, <1>8, KnowsStage DEF StageOK, Mine, Between
<1>11. \A v \in Worker \ {w} : scan[v].pc = "idle" /\ scan'[v].pc = "idle"
  BY <1>1, Alone, KnownR
<1>12. \A v \in Worker : StageOK(v)'
  BY <1>10, <1>11 DEF StageOK, Between
<1>13. \A m \in Name : Tended(m)'
  <2>1. Tended(n)'
    BY <1>1, <1>2 DEF Tended, Busy, Mine
  <2>2. ASSUME NEW m \in Name \ {n} PROVE Tended(m)'
    BY <1>1, <1>2, <1>8, <1>9, RestsOn DEF Busy
  <2>3. QED
    BY <2>1, <2>2
<1>14. \A m \in Name : Exported(m)'
  BY <1>1, <1>6 DEF RInv, Exported
<1>15. QED
  BY <1>12, <1>13, <1>14 DEF RInv

\* Registration and parsing leave the directories alone.
LEMMA LookRest ==
  ASSUME RInv, SInv', NEW w \in Worker, Look(w) \/ Insert(w)
  PROVE  RInv'
<1>1. /\ scan[w].pc \in {"look", "insert"}
      /\ UNCHANGED <<uploads, incoming, pcaps, row>>
  BY DEF Look, Insert, At, fvars
<1>2. PICK n \in Name : n = Mine(w)
  BY <1>1, KnowsStage DEF Between
<1>3. pcaps[n] # None /\ row[n].final
  BY <1>1, <1>2, KnowsStage DEF StageOK, Between
<1>4. Moved(w) /\ SameFile(w) /\ scan'[w].pc \in {"insert", "link", "settle"}
  <2>1. CASE Look(w)
    BY <1>1, <2>1, KnownR, LookEffect, ConcludeEffect DEF Between
  <2>2. CASE Insert(w)
    <3>1. Conclude(w, "failed", 0) \/ Go(w, "link")
      BY <2>2 DEF Insert
    <3>2. QED
      BY <1>1, <3>1, KnownR, ConcludeEffect, GoEffect DEF Pcs, Between
  <2>3. QED
    BY <2>1, <2>2
<1>5. StageOK(w)'
  BY <1>1, <1>2, <1>3, <1>4 DEF StageOK, SameFile, Mine, Between
<1>6. \A m \in Name : ~Busy(w, m)
  BY <1>1 DEF Busy
<1>7. QED
  BY <1>1, <1>4, <1>5, <1>6, RestSame

LEMMA ParserRest ==
  ASSUME RInv, SInv', NEW w \in Worker, ParseRefused(w) \/ StartParser(w) \/ ParserEnds(w)
  PROVE  RInv'
<1>1. /\ scan[w].pc \in {"parse", "running"}
      /\ UNCHANGED <<uploads, incoming, pcaps, row>>
  BY DEF ParseRefused, StartParser, ParserEnds, At, fvars
<1>2. PICK n \in Name : n = Mine(w)
  BY <1>1, KnowsStage DEF Between
<1>3. pcaps[n] # None /\ row[n].final /\ scan[w].cap \in Nat
  BY <1>1, <1>2, KnowsStage DEF StageOK, Between, Scan
<1>4. Moved(w) /\ SameFile(w) /\ scan'[w].pc \in {"running", "settle"}
  <2>1. \/ Go(w, "running")
        \/ \E out \in {"parsed", "failed", "retry_pending"} :
             Conclude(w, out, scan[w].cap)
    BY DEF ParseRefused, StartParser, ParserEnds
  <2>2. QED
    BY <1>1, <1>3, <2>1, KnownR, ConcludeEffect, GoEffect DEF Pcs, Between
<1>5. StageOK(w)' /\ Tended(n)'
  BY <1>1, <1>2, <1>3, <1>4 DEF StageOK, SameFile, Mine, Between, Tended, Busy
<1>6. \A m \in Name : Busy(w, m) => m = n
  BY <1>2 DEF Busy
<1>7. QED
  BY <1>1, <1>4, <1>5, <1>6, RestSame

LEMMA RowRest ==
  ASSUME RInv, SInv', NEW w \in Worker, Link(w) \/ MarkParsing(w) \/ Settle(w)
  PROVE  RInv'
<1>1. /\ scan[w].pc \in {"link", "parsing", "settle"}
      /\ UNCHANGED <<uploads, incoming, pcaps>>
  BY DEF Link, MarkParsing, Settle, At, fvars
<1>2. PICK n \in Name : n = Mine(w)
  BY <1>1, KnowsStage DEF Between
<1>3. pcaps[n] # None /\ row[n].final /\ scan[w].cap \in Nat /\ row[n] \in Row
  BY <1>1, <1>2, KnowsStage DEF StageOK, Between, Scan
<1>4. CASE Link(w)
  <2>1. PICK s \in {"retry_pending", "registered", "imported"} :
          row' = [row EXCEPT ![n].cap = scan[w].cap, ![n].state = s]
    BY <1>2, <1>4 DEF Link
  <2>2. s \in States /\ s \in Retryable
    BY StatesAre DEF Ingested, Retryable
  <2>3. /\ RowStep(n) /\ row'[n].sha = row[n].sha
        /\ row'[n].final /\ row'[n].state \in Retryable
    BY <1>3, <2>1, <2>2, KnownR, CaptureRow
  <2>4. \/ Moved(w) /\ scan'[w].pc \in Between
        \/ Moved(w) /\ SameFile(w) /\ scan'[w].pc = "parsing"
    <3>1. CASE Go(w, "parsing")
      BY <1>1, <3>1, KnownR, GoEffect DEF Pcs, Between
    <3>2. CASE Leave(w, {n})
      BY <3>2, KnownR, LeaveEffect DEF Between
    <3>3. QED
      BY <1>2, <1>4, <3>1, <3>2 DEF Link
  <2>5. StageOK(w)' /\ Tended(n)'
    BY <1>1, <1>2, <1>3, <2>3, <2>4
       DEF StageOK, SameFile, Mine, Between, Tended, Finished
  <2>6. QED
    BY <1>1, <1>2, <2>3, <2>4, <2>5, RestRow
<1>5. CASE MarkParsing(w)
  <2> DEFINE r == [row[n] EXCEPT !.state = "parsing", !.cap = scan[w].cap]
  <2>1. row' = [row EXCEPT ![n] = r] /\ Go(w, "parse")
    BY <1>2, <1>5 DEF MarkParsing
  <2>2. r \in Row /\ r.final = row[n].final /\ r.sha = row[n].sha
    BY <1>3, StatesAre DEF Row, Ingested
  <2> HIDE DEF r
  <2>3. RowStep(n) /\ row'[n].final /\ row'[n].sha = row[n].sha
    BY <1>3, <2>1, <2>2, KnownR, RowUpdate
  <2>4. Moved(w) /\ SameFile(w) /\ scan'[w].pc = "parse"
    BY <1>1, <2>1, KnownR, GoEffect DEF Pcs, Between
  <2>5. StageOK(w)' /\ Tended(n)'
    BY <1>1, <1>2, <1>3, <2>3, <2>4
       DEF StageOK, SameFile, Mine, Between, Tended, Busy
  <2>6. QED
    BY <1>1, <1>2, <2>3, <2>4, <2>5, RestRow
<1>6. CASE Settle(w)
  <2>1. /\ RowStep(n) /\ row'[n].state = scan[w].out
        /\ row'[n].final /\ row'[n].sha = row[n].sha
    BY <1>2, <1>3, <1>6, KnownR, SettleRow
  <2>2. scan[w].out \in {"parsed", "failed", "retry_pending"}
    BY <1>6, Knows, KnownR DEF Settle, At, Between, ScanLink, Scan
  <2>3. Moved(w) /\ scan'[w].pc \in Between
    BY <1>2, <1>6, KnownR, LeaveEffect DEF Settle, Between
  <2>4. StageOK(w)' /\ Tended(n)'
    BY <2>1, <2>2, <2>3
       DEF StageOK, Between, Tended, Finished, Retryable
  <2>5. QED
    BY <1>1, <1>2, <2>1, <2>3, <2>4, RestRow
<1>7. QED
  BY <1>4, <1>5, <1>6

\* A file whose parse is due is in pcaps/.
LEMMA NoAbort ==
  ASSUME RInv, NEW w \in Worker
  PROVE  ~StatAborts(w)
BY KnowsStage DEF StatAborts, At, StageOK, Between

LEMMA RetryRest ==
  ASSUME RInv, SInv', NEW w \in Worker, RetryRow(w)
  PROVE  RInv'
<1>1. scan[w].pc = "rows" /\ UNCHANGED <<uploads, incoming, pcaps>>
  BY DEF RetryRow, At, fvars
<1>2. PICK x \in scan[w].rows :
        /\ Moved(w)
        /\ \/ GivesUp(w, x) /\ scan'[w].pc = "rows"
           \/ TakesUp(w, x)
  BY KnownR, RetryEffect
<1>3. PICK n \in Name : n = x.n
  BY KnownR, AtRows
<1>4. row[n].state \in Retryable /\ row[n].final
  BY <1>3, KnownR DEF SInv, ListOK
<1>5. CASE GivesUp(w, x) /\ scan'[w].pc = "rows"
  <2>1. /\ RowStep(n) /\ row'[n].sha = row[n].sha
        /\ row'[n].final /\ row'[n].state = "failed"
    BY <1>3, <1>4, <1>5, KnownR, GiveUpRow
  <2>2. StageOK(w)' /\ Tended(n)'
    BY <1>5, <2>1 DEF StageOK, Between, Tended, Finished, Retryable
  <2>3. QED
    BY <1>1, <1>2, <2>1, <2>2, RestRow DEF Between
<1>6. CASE TakesUp(w, x)
  <2>1. /\ row' = row /\ pcaps[n] # None /\ scan'[w].n = n
        /\ scan'[w].pc \in {"look", "link"}
    BY <1>3, <1>6 DEF TakesUp
  <2>2. StageOK(w)'
    BY <1>1, <1>4, <2>1 DEF StageOK, Mine, Between
  <2>3. \A m \in Name : ~Busy(w, m)
    BY <1>1 DEF Busy
  <2>4. QED
    BY <1>1, <1>2, <2>1, <2>2, <2>3, RestSame
<1>7. QED
  BY <1>2, <1>5, <1>6

LEMMA UploadRest ==
  ASSUME RInv, SInv', NEW n \in Name, NEW d \in Exports[n], Upload(n, d)
  PROVE  RInv'
<1>1. /\ UNCHANGED <<row, scan>> /\ job' = job /\ pcaps' = pcaps
      /\ uploads' = [uploads EXCEPT ![n] = Append(uploads[n], d)]
      /\ incoming' = [incoming EXCEPT ![n] = IF incoming[n] = 0 THEN F!Version(n) + 1
                                                                ELSE incoming[n]]
  BY DEF Upload, F!Upload
<1>2. /\ uploads \in [Name -> Seq(Data)] /\ incoming \in [Name -> Nat] /\ d \in Data
  BY KnownR, IngestAssumption DEF FP!TypeOK
<1>3. /\ \A m \in Name \ {n} : uploads'[m] = uploads[m]
      /\ \A m \in Name : incoming[m] # 0 => incoming'[m] # 0
      /\ uploads'[n] = Append(uploads[n], d)
  BY <1>1, <1>2
<1>4. ASSUME NEW m \in Name PROVE Tended(m)'
  <2>1. Tended(m)
    BY DEF RInv
  <2>2. QED
    BY <1>1, <1>3, <2>1 DEF Tended, Finished, Offered, Busy, Mine
<1>5. ASSUME NEW m \in Name PROVE Exported(m)'
  <2>1. Exported(m)
    BY DEF RInv
  <2>2. CASE m = n
    <3>1. uploads[n] \in Seq(Data)
      BY <1>2
    <3>2. \A i \in DOMAIN uploads'[n] : uploads'[n][i] \in Exports[n]
      BY <1>2, <1>3, <2>1, <2>2, <3>1 DEF Exported
    <3>3. QED
      BY <1>1, <2>1, <2>2, <3>2 DEF Exported
  <2>3. CASE m # n
    BY <1>1, <1>3, <2>1, <2>3 DEF Exported
  <2>4. QED
    BY <2>2, <2>3
<1>6. ASSUME NEW w \in Worker PROVE StageOK(w)'
  <2>1. StageOK(w)
    BY DEF RInv
  <2>2. scan[w].pc \notin Between => Mine(w) \in Name
    BY KnowsStage
  <2>3. QED
    BY <1>1, <1>3, <2>1, <2>2 DEF StageOK, Mine, Between
<1>7. QED
  BY <1>4, <1>5, <1>6 DEF RInv

LEMMA NextRInv ==
  ASSUME Untroubled, RInv, [Next]_vars
  PROVE  RInv'
<1>1. SInv'
  BY NextSInv, KnownR DEF Untroubled
<1>2. CASE UNCHANGED vars \/ LeaseEnds \/ WebParse \/ WebParseEnds
  <2>1. UNCHANGED <<fvars, row, scan>>
    BY <1>2 DEF vars, fvars, LeaseEnds, WebParse, WebParseEnds
  <2>2. QED
    BY <1>1, <2>1 DEF RInv, Tended, Finished, Offered, Busy, Exported, StageOK,
                      Mine, fvars
<1>3. CASE \E w \in Worker : \/ ScanStep(w) \/ StatementFails(w) \/ ScanFails(w)
                             \/ HandledFailure(w)
  <2>1. \A w \in Worker : ~StatementFails(w) /\ ~ScanFails(w) /\ ~HandledFailure(w)
    BY DEF Untroubled, StatementFails, ScanFails, HandledFailure, Strike
  <2>2. QED
    BY <1>1, <1>3, <2>1, StartRest, PassRest, WaitRest, ClaimRest, FinalizeRest,
       FailedRest, ValidatedRest, PromoteRest, LookRest, ParserRest, RowRest,
       NoAbort, RetryRest DEF ScanStep, Untroubled
<1>4. CASE \E n \in Name : \E d \in Exports[n] : Upload(n, d)
  BY <1>1, <1>4, UploadRest
<1>5. ~Restart
  BY DEF Untroubled, Restart, Strike
<1>6. QED
  BY <1>2, <1>3, <1>4, <1>5 DEF Next

LEMMA InitRInv == Init => RInv
<1> SUFFICES ASSUME Init PROVE RInv
  OBVIOUS
<1>1. \A n \in Name : row[n] = NoRow /\ pcaps[n] = None /\ uploads[n] = <<>>
  BY DEF Init, F!FsInit
<1>2. \A n \in Name : Tended(n) /\ Exported(n)
  BY <1>1 DEF Tended, Exported, NoRow
<1>3. \A w \in Worker : scan[w].pc = "idle"
  BY NoScanType DEF Init
<1>4. QED
  BY <1>2, <1>3, InitSInv DEF RInv, StageOK, Between

\* While no statement fails, Study Web does not restart and no sync fails after a
\* file was removed: between scans every finalized file is parsed or will be tried
\* again, whatever else the disk refuses, other parses and the upload account do.
THEOREM FinalizedIsNotLost ==
  ASSUME ~Overlap, {"db", "restart", "sync"} \cap Troubles = {},
         \A n, m \in Name : n # m => Exports[n] \cap Exports[m] = {}
  PROVE  Spec => []FinalizedIsRetryable
<1>1. Untroubled
  BY DEF Untroubled
<1>2. RInv /\ [Next]_vars => RInv'
  BY <1>1, NextRInv
<1>3. RInv => FinalizedIsRetryable
  BY DEF RInv, Tended, Finished, Offered, Busy, FinalizedIsRetryable, Quiet, At
<1>4. QED
  BY <1>2, <1>3, InitRInv, PTL DEF Spec

=============================================================================
