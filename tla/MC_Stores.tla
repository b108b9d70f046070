------------------------------ MODULE MC_Stores ------------------------------
(***************************************************************************)
(* What the rest of the program keeps in rows and files: a behaviour is one *)
(* of eight parts that share no state, the migrations of the database, the  *)
(* RF runs of Study Web, its tree of projects and studies, its catalog of   *)
(* input files, the history of downloaded captures, the evidence ledger,    *)
(* and the two stores of the wireless collectors.                           *)
(***************************************************************************)
EXTENDS RfRuns, Migrations, StudyTree, InputCatalog, CaptureHistory, WlcEvidence, Collectors, TLC

VARIABLE part     \* the part at work

\* Two surveys whose points differ, and a CSV for the one identity.
InputFiles == {"b", "e1", "e2", "c"}
RoleOf  == [i \in InputFiles |-> CASE i = "b" -> "badge_log" [] i = "c" -> "manual_csv"
                                   [] OTHER -> "ekahau_json"]
InBoth  == [p \in {<<"b", "e1">>, <<"b", "e2">>} |-> IF p[2] = "e1" THEN {"k1"} ELSE {}]
Listing == [i \in {"c"} |-> {"k1"}]

\* One run with both logs, its operators, and two executions.
AtFirst   == [r \in Run |-> {"b", "e1"}]

\* Two names, one longer than the other.
Lengths == ("n" :> 1) @@ ("nn" :> 2)

\* A study and the command line.
Studies == ("w" :> "s") @@ ("x" :> "-")

\* Transcripts that name the group, the receiver, or neither.
Transcripts == {[group |-> TRUE, member |-> FALSE, fields |-> 2],
                [group |-> TRUE, member |-> TRUE, fields |-> 3],
                [group |-> FALSE, member |-> Unknown, fields |-> 1]}

runVars == vars
allVars == <<part, migrationVars, runVars, treeVars, catalogVars, historyVars,
             evidenceVars, badgeVars, radarVars>>

-----------------------------------------------------------------------------
MCInit ==
  /\ part \in {"runs", "tree", "catalog", "history", "evidence", "badges", "radar", "migrations"}
  /\ MigrationsInit /\ Init /\ TreeInit /\ CatalogInit /\ HistoryInit /\ EvidenceInit
  /\ BadgesInit /\ RadarInit
  /\ part # "badges" => onAir = {} /\ ~metrics
  /\ part # "migrations" => place[1] = NotMade

\* Bound: a second pass of the publisher begins when the first has written something.
SecondPassFindsCache == passes = 1 /\ passes' = 2 => \E c \in Capture : cache[c].result # Absent

MCNext ==
  /\ UNCHANGED part
  /\ \/ /\ part = "migrations" /\ MigrationsNext
        /\ UNCHANGED <<runVars, treeVars, catalogVars, historyVars, evidenceVars, badgeVars, radarVars>>
     \/ /\ part = "runs" /\ Next
        /\ UNCHANGED <<migrationVars, treeVars, catalogVars, historyVars, evidenceVars, badgeVars, radarVars>>
     \/ /\ part = "tree" /\ TreeNext
        /\ UNCHANGED <<migrationVars, runVars, catalogVars, historyVars, evidenceVars, badgeVars, radarVars>>
     \/ /\ part = "catalog" /\ CatalogNext
        /\ UNCHANGED <<migrationVars, runVars, treeVars, historyVars, evidenceVars, badgeVars, radarVars>>
     \/ /\ part = "history" /\ HistoryNext /\ SecondPassFindsCache
        /\ UNCHANGED <<migrationVars, runVars, treeVars, catalogVars, evidenceVars, badgeVars, radarVars>>
     \/ /\ part = "evidence" /\ EvidenceNext
        /\ UNCHANGED <<migrationVars, runVars, treeVars, catalogVars, historyVars, badgeVars, radarVars>>
     \/ /\ part = "badges" /\ BadgesNext
        /\ UNCHANGED <<migrationVars, runVars, treeVars, catalogVars, historyVars, evidenceVars, radarVars>>
     \/ /\ part = "radar" /\ RadarNext
        /\ UNCHANGED <<migrationVars, runVars, treeVars, catalogVars, historyVars, evidenceVars, badgeVars>>

MCSpec == MCInit /\ [][MCNext]_allVars
=============================================================================
