----------------------------- MODULE RadarCounters -----------------------------
(***************************************************************************)
(* DFS events of access points (wireless_rf): the WLC shows a cumulative    *)
(* counter, an operator saves its output to files, and each parse of a file *)
(* stores the counters and their increase over the snapshot stored before.  *)
(***************************************************************************)
EXTENDS Naturals, Sequences

CONSTANTS
  AP,          \* access points, one radio each
  NoCount,     \* a snapshot that shows no counter
  MaxEvents,   \* bound: radar events and restarts
  MaxDumps,    \* bound: outputs saved
  MaxParses    \* bound: parses

ASSUME NoCountAssumption == NoCount \notin Nat

VARIABLES
  counter,     \* radar changes as the WLC counts them
  happened,    \* radar events of each access point so far
  steps,       \* radar events and restarts so far
  dump,        \* outputs saved: what they show, and what had happened by then
  stored,      \* radar_changes_total of ap_rf_snapshot in the order of id
  inferred,    \* sum of delta in dfs_event_inferred
  span,        \* what had happened by the first and by the last count stored
  parsed,      \* indices of the dumps parsed, in that order
  restarted    \* access points that started counting anew

radarVars == <<counter, happened, steps, dump, stored, inferred, span, parsed, restarted>>

RadarInit ==
  /\ counter = [a \in AP |-> 0] /\ happened = [a \in AP |-> 0] /\ steps = 0
  /\ dump = <<>> /\ parsed = <<>>
  /\ stored = [a \in AP |-> <<>>] /\ inferred = [a \in AP |-> 0]
  /\ span = [a \in AP |-> <<0, 0>>] /\ restarted = {}

Radar(a) ==
  /\ steps < MaxEvents /\ steps' = steps + 1
  /\ counter' = [counter EXCEPT ![a] = @ + 1]
  /\ happened' = [happened EXCEPT ![a] = @ + 1]
  /\ UNCHANGED <<dump, stored, inferred, span, parsed, restarted>>

RestartAP(a) ==
  /\ steps < MaxEvents /\ steps' = steps + 1
  /\ counter' = [counter EXCEPT ![a] = 0]
  /\ restarted' = restarted \cup {a}
  /\ UNCHANGED <<happened, dump, stored, inferred, span, parsed>>

SaveOutput ==
  /\ Len(dump) < MaxDumps
  /\ \E shown \in SUBSET AP :
       dump' = Append(dump, [count |-> [a \in AP |-> IF a \in shown THEN counter[a] ELSE NoCount],
                             happened |-> happened])
  /\ UNCHANGED <<counter, happened, steps, stored, inferred, span, parsed, restarted>>

\* Deviation: the first snapshot of the access point is compared with.
first_radar_count(s) == s[1]

previous_radar_count(s) == s[Len(s)]

\* Nothing is inferred from a first count, nor from one that fell.
Delta(s, n) ==
  IF s = <<>> \/ n < previous_radar_count(s) THEN 0 ELSE n - previous_radar_count(s)

save_run(file) ==
  LET count(a)  == file.count[a]
      counts    == {a \in AP : count(a) # NoCount}
  IN /\ stored' = [a \in AP |-> IF a \in counts THEN Append(stored[a], count(a)) ELSE stored[a]]
     /\ inferred' = [a \in AP |-> IF a \in counts THEN inferred[a] + Delta(stored[a], count(a))
                                  ELSE inferred[a]]
     /\ span' = [a \in AP |->
          IF a \notin counts THEN span[a]
          ELSE <<IF stored[a] = <<>> THEN file.happened[a] ELSE span[a][1], file.happened[a]>>]

command_parse ==
  /\ Len(parsed) < MaxParses
  /\ \E i \in DOMAIN dump :
       /\ save_run(dump[i])
       /\ parsed' = Append(parsed, i)
  /\ UNCHANGED <<counter, happened, steps, dump, restarted>>

RadarNext == (\E a \in AP : Radar(a) \/ RestartAP(a)) \/ SaveOutput \/ command_parse

RadarSpec == RadarInit /\ [][RadarNext]_radarVars

\* Outputs parsed in the order they were saved, however often each of them,
\* never make more events of an access point than it had between the first
\* and the last count stored, and exactly those if it never restarted.
DeltasAreEvents ==
  (\A i \in 1..(Len(parsed) - 1) : parsed[i] <= parsed[i + 1]) =>
    \A a \in AP :
      /\ inferred[a] <= span[a][2] - span[a][1]
      /\ a \notin restarted => inferred[a] = span[a][2] - span[a][1]
=============================================================================
