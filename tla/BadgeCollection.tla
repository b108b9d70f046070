---------------------------- MODULE BadgeCollection ----------------------------
(***************************************************************************)
(* The badge collector (wireless_rf): it discovers which badges to ask,     *)
(* from Prometheus, from its own SQLite history or from the configuration,  *)
(* asks Catalyst Center for each, and overwrites one raw file that another  *)
(* command parses into the history, now or later, once or again.            *)
(***************************************************************************)
EXTENDS Naturals, FiniteSets

CONSTANTS
  Badge,        \* client MAC addresses
  Allowed,      \* those that mac_oui_allowlist admits
  Seed,         \* mac_addresses of the job
  MaxBadges,    \* max_badges of the job
  Window,       \* active_window_seconds
  MaxTime       \* bound: the clock

ASSUME BadgeAssumption == Seed \subseteq Badge /\ Window \in Nat

VARIABLES
  now,       \* clock
  onAir,     \* badges that the telemetry in Prometheus shows
  metrics,   \* Prometheus answers
  job,       \* the collection under way
  raw,       \* outputs.raw, the file written last: when it began, who answered
  history,   \* badge_client_snapshot: badge and collected_at_ms
  answered   \* the last collection each badge answered, 0 if none

badgeVars == <<now, onAir, metrics, job, raw, history, answered>>

Time   == 1..MaxTime
NoJob  == [at |-> 0, from |-> "none", left |-> {}, got |-> {}]
NoRaw == [at |-> 0, got |-> {}]

BadgesInit ==
  /\ now = 1
  /\ onAir \in SUBSET Badge /\ metrics \in BOOLEAN
  /\ job = NoJob /\ raw = NoRaw /\ history = {}
  /\ answered = [b \in Badge |-> 0]

-----------------------------------------------------------------------------
(* Which badges to ask.                                                     *)

Some(macs) == {m \in SUBSET macs : Cardinality(m) = MaxBadges \/
                                   (m = macs /\ Cardinality(macs) < MaxBadges)}

LastSeen(b) == CHOOSE t \in Time : /\ [badge |-> b, at |-> t] \in history
                                   /\ \A r \in history : r.badge = b => r.at <= t

\* Ordered by activity, at most MaxBadges; empty while Prometheus fails.
_active_macs_from_prometheus ==
  IF metrics THEN Some(onAir \cap Allowed) ELSE {{}}

\* Those of the window, the last seen first; a tie falls either way.
_active_macs_from_sqlite ==
  LET seen == {r.badge : r \in {x \in history : x.at + Window >= now}} \cap Allowed
  IN {m \in Some(seen) : \A b \in m, c \in seen \ m : LastSeen(b) >= LastSeen(c)}

\* Any MaxBadges of them: the order of addresses is not modelled.
resolve_badge_macs == Seed \cap Allowed

ChosenMacs(from, macs) ==
  job' = [at |-> now, from |-> from, left |-> macs, got |-> {}]

\* Nothing to ask anywhere ends the command: no step then.
_resolve_collection_macs ==
  LET live == _active_macs_from_prometheus
      old  == _active_macs_from_sqlite
      seed == resolve_badge_macs
  IN IF live # {{}}     THEN \E m \in live : ChosenMacs("prometheus", m)
     ELSE IF old # {{}} THEN \E m \in old : ChosenMacs("sqlite", m)
     ELSE seed # {} /\ \E m \in Some(seed) : ChosenMacs("seed", m)

-----------------------------------------------------------------------------
(* Steps.                                                                   *)

Discover ==
  /\ job = NoJob
  /\ _resolve_collection_macs
  /\ UNCHANGED <<now, onAir, metrics, raw, history, answered>>

\* Catalyst Center answers, whether or not the badge is still on the air, or
\* the record holds the error.
Ask ==
  \E b \in job.left :
    /\ \/ /\ job' = [job EXCEPT !.left = @ \ {b}, !.got = @ \cup {b}]
          /\ answered' = [answered EXCEPT ![b] = job.at]
       \/ job' = [job EXCEPT !.left = @ \ {b}] /\ UNCHANGED answered
    /\ UNCHANGED <<now, onAir, metrics, raw, history>>

\* The raw file carries the time at which its collection began.
WriteRaw ==
  /\ job # NoJob /\ job.left = {}
  /\ raw' = [at |-> job.at, got |-> job.got]
  /\ job' = NoJob
  /\ UNCHANGED <<now, onAir, metrics, history, answered>>

\* Deviation: a snapshot is dated when it is parsed.
SnapshotsDatedNow(file) == {[badge |-> b, at |-> now] : b \in file.got}

\* Records with an error are left out.
parse_badge_client_raw(file) == {[badge |-> b, at |-> file.at] : b \in file.got}

ParseBadges ==
  /\ raw # NoRaw
  /\ history' = history \cup parse_badge_client_raw(raw)
  /\ UNCHANGED <<now, onAir, metrics, job, raw, answered>>

Tick ==
  /\ now < MaxTime /\ now' = now + 1
  /\ onAir' \in SUBSET Badge /\ metrics' \in BOOLEAN
  /\ UNCHANGED <<job, raw, history, answered>>

BadgesNext == Discover \/ Ask \/ WriteRaw \/ ParseBadges \/ Tick

BadgesSpec == BadgesInit /\ [][BadgesNext]_badgeVars

-----------------------------------------------------------------------------
(* Property.                                                                *)

\* Without Prometheus only badges that answered within the window are asked,
\* however late and however often the raw file was parsed.
FallbackIsRecent ==
  job.from = "sqlite" =>
    \A b \in job.left \cup job.got :
      answered[b] # 0 /\ answered[b] + Window >= job.at
=============================================================================
