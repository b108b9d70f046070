------------------------------- MODULE Collectors -------------------------------
(***************************************************************************)
(* The two stores of the wireless collectors, which share a database file   *)
(* and no table: the badges that answered, and the radar counters.          *)
(***************************************************************************)
EXTENDS BadgeCollection, RadarCounters

\* Without Prometheus only badges that answered within the window are asked.
\* Radar events are counted once as long as outputs are parsed in the order they
\* were saved, each of them as often as one likes; an older one parsed after a
\* newer one is not covered (client_collector.py 219-317, storage.py 69-160).
CollectedIsObserved == FallbackIsRecent /\ DeltasAreEvents
=============================================================================
