------------------------------- MODULE Migrations -------------------------------
(***************************************************************************)
(* The runner of the database migrations                                   *)
(* (apply_vocera_media_qoe_migrations.py): each SQL file is hashed, looked *)
(* up in the ledger, executed by psql statement by statement, each of them *)
(* committed, and then recorded.  Runners may be killed between any two    *)
(* steps, overlap, and meet files that somebody edits.                     *)
(***************************************************************************)
EXTENDS Naturals, FiniteSets

CONSTANTS
  Last,          \* migrations are numbered in the order of their file names
  Runner,        \* runners at work at the same time
  MaxVersion     \* bound: versions of a file

ASSUME BoundsAssumption == Last \in Nat \ {0} /\ MaxVersion \in Nat \ {0}

Migration == 1..Last
Version   == 1..MaxVersion
Missing   == 0

VARIABLES
  text,          \* the version of each file
  place,         \* the table and the constraint a migration makes
  ledger,        \* schema_migrations: the version whose checksum is recorded
  runner,        \* where each runner is
  mixed          \* migrations run from two texts, or by two runners at once

migrationVars == <<text, place, ledger, runner, mixed>>

Waiting == [at |-> "idle", dry |-> FALSE, id |-> 1, checksum |-> Missing, body |-> Missing]

NotMade == [table |-> Missing, check |-> Missing]

\* A new database, or one that was installed from the monolithic schema.
MigrationsInit ==
  /\ text = [m \in Migration |-> 1]
  /\ place \in {[m \in Migration |-> NotMade], [m \in Migration |-> [table |-> 1, check |-> 1]]}
  /\ ledger = [m \in Migration |-> Missing]
  /\ runner = [r \in Runner |-> Waiting]
  /\ mixed = {}

Stands(r, step) == runner[r].at = step
Proceed(r, step) == runner' = [runner EXCEPT ![r].at = step]

NextFile(r) ==
  runner' = [runner EXCEPT ![r] =
    IF @.id = Last THEN Waiting
    ELSE [Waiting EXCEPT !.at = "hash", !.dry = runner[r].dry, !.id = runner[r].id + 1]]

\* Runners that have not seen a migration recorded and are not through with it.
Holding(m) ==
  {r \in Runner : runner[r].id = m /\ runner[r].at \in {"open", "table", "drop", "add", "record"}}

-----------------------------------------------------------------------------
(* apply_migrations *)

Begin(r) ==
  /\ Stands(r, "idle")
  /\ \E dry \in BOOLEAN : runner' = [runner EXCEPT ![r].at = "hash", ![r].dry = dry]
  /\ UNCHANGED <<text, place, ledger, mixed>>

Hash(r) ==
  /\ Stands(r, "hash")
  /\ runner' = [runner EXCEPT ![r].at = "look", ![r].checksum = text[runner[r].id]]
  /\ UNCHANGED <<text, place, ledger, mixed>>

\* Deviation: a row counts only if it has this checksum too.
LookByChecksum(r) ==
  LET m == runner[r].id IN
  /\ Stands(r, "look")
  /\ IF ledger[m] = runner[r].checksum \/ runner[r].dry
     THEN NextFile(r) /\ UNCHANGED mixed
     ELSE Proceed(r, "open") /\ mixed' = IF Holding(m) # {} THEN mixed \cup {m} ELSE mixed
  /\ UNCHANGED <<text, place, ledger>>

\* A recorded migration is skipped, or ends the runner if its file was edited.
Look(r) ==
  LET m == runner[r].id IN
  /\ Stands(r, "look")
  /\ \/ /\ ledger[m] = runner[r].checksum \/ (ledger[m] = Missing /\ runner[r].dry)
        /\ NextFile(r) /\ UNCHANGED mixed
     \/ /\ ledger[m] \notin {Missing, runner[r].checksum}
        /\ runner' = [runner EXCEPT ![r] = Waiting] /\ UNCHANGED mixed
     \/ /\ ledger[m] = Missing /\ ~runner[r].dry
        /\ Proceed(r, "open")
        /\ mixed' = IF Holding(m) # {} THEN mixed \cup {m} ELSE mixed
  /\ UNCHANGED <<text, place, ledger>>

\* psql_file reads the file again.
Open(r) ==
  /\ Stands(r, "open")
  /\ runner' = [runner EXCEPT ![r].at = "table", ![r].body = text[runner[r].id]]
  /\ UNCHANGED <<text, place, ledger, mixed>>

-----------------------------------------------------------------------------
(* The statements of a migration *)

\* create table if not exists
CreateTable(r) ==
  LET m == runner[r].id IN
  /\ Stands(r, "table")
  /\ place' = [place EXCEPT ![m].table = IF @ = Missing THEN runner[r].body ELSE @]
  /\ Proceed(r, "drop")
  /\ UNCHANGED <<text, ledger, mixed>>

\* alter table ... drop constraint if exists
DropCheck(r) ==
  /\ Stands(r, "drop")
  /\ place' = [place EXCEPT ![runner[r].id].check = Missing]
  /\ Proceed(r, "add")
  /\ UNCHANGED <<text, ledger, mixed>>

\* alter table ... add constraint, refused if there is one of that name
AddCheck(r) ==
  LET m == runner[r].id IN
  /\ Stands(r, "add")
  /\ IF place[m].check = Missing
     THEN place' = [place EXCEPT ![m].check = runner[r].body] /\ Proceed(r, "record")
     ELSE runner' = [runner EXCEPT ![r] = Waiting] /\ UNCHANGED place
  /\ UNCHANGED <<text, ledger, mixed>>

\* Refused if another runner has recorded the migration.
Record(r) ==
  LET m == runner[r].id IN
  /\ Stands(r, "record")
  /\ IF ledger[m] = Missing
     THEN ledger' = [ledger EXCEPT ![m] = runner[r].checksum] /\ NextFile(r)
     ELSE runner' = [runner EXCEPT ![r] = Waiting] /\ UNCHANGED ledger
  /\ UNCHANGED <<text, place, mixed>>

\* The runner is killed, or psql fails.
RunnerFails(r) ==
  /\ ~Stands(r, "idle")
  /\ runner' = [runner EXCEPT ![r] = Waiting]
  /\ UNCHANGED <<text, place, ledger, mixed>>

\* Somebody edits a file, or a new release brings another one.
Edit ==
  \E m \in Migration :
    /\ text[m] < MaxVersion
    /\ text' = [text EXCEPT ![m] = @ + 1]
    /\ mixed' = IF /\ ledger[m] = Missing
                   /\ \/ place[m] # NotMade
                      \/ \E r \in Runner : runner[r].id = m /\ runner[r].checksum # Missing
                THEN mixed \cup {m} ELSE mixed
    /\ UNCHANGED <<place, ledger, runner>>

MigrationsNext ==
  \/ \E r \in Runner :
       \/ Begin(r) \/ Hash(r) \/ Look(r) \/ Open(r) \/ CreateTable(r) \/ DropCheck(r)
       \/ AddCheck(r) \/ Record(r) \/ RunnerFails(r)
  \/ Edit

MigrationsSpec == MigrationsInit /\ [][MigrationsNext]_migrationVars

-----------------------------------------------------------------------------
(* Properties                                                               *)

\* What the ledger records is in place, in the version whose checksum it has,
\* wherever runners were killed and whatever happened to the file afterwards,
\* and so is everything before it; except for migrations that two runners
\* executed at once or whose file was edited after a part of it had run.
RecordedIsInPlace ==
  \A m \in Migration :
    ledger[m] # Missing =>
      /\ m \notin mixed => place[m] = [table |-> ledger[m], check |-> ledger[m]]
      /\ \A earlier \in 1..m : ledger[earlier] # Missing
=============================================================================
