------------------------------ MODULE MC_Readers ------------------------------
(***************************************************************************)
(* What the program reads from files.  A behaviour is either a terminal    *)
(* log that grows while scans read it, or one input of a reader that is a  *)
(* pure function: a log of sheets, a text, a survey, a sequence of         *)
(* packets or a capture.  For those the invariants compare what the code   *)
(* computes with what it is meant to compute.                              *)
(***************************************************************************)
EXTENDS WlcTranscripts, MediaAnalyzer

CONSTANTS x, y

VARIABLES part, in

allVars == <<part, in, transcriptVars>>

\* The input of a reader, under the name of its part.
Pick(name, inputs) ==
  /\ part = "none" /\ part' = name
  /\ \E i \in inputs : in' = [p \in {name} |-> i]
  /\ UNCHANGED transcriptVars

input == in[part]

-----------------------------------------------------------------------------
(* Two scans, two attempts, logs that grow twice: a block that turns out   *)
(* to name an attempt, one on another VLAN, one that names two.            *)

Block0(ids, obs, vlan) ==
  [ids |-> ids, obs |-> obs, vlan |-> vlan, phase |-> IF vlan = None THEN "unassigned" ELSE "resolved_group"]

MCScripts ==
  { << <<Block0(<<>>, 1, None)>>,
       <<Block0(<<>>, 1, None), Block0(<<x>>, 1, None)>>,
       <<Block0(<<>>, 1, None), Block0(<<x>>, 2, 684)>> >>,
    << <<Block0(<<>>, 0, None)>>,
       <<Block0(<<x>>, 1, 688)>> >>,
    << <<Block0(<<"other">>, 1, 684)>>,
       <<Block0(<<"other">>, 1, 684), Block0(<<x>>, 1, None)>>,
       <<Block0(<<"other">>, 1, 684), Block0(<<x, y>>, 2, None)>> >> }

-----------------------------------------------------------------------------
(* Terminal logs: whole sheets one after the other, and arbitrary short    *)
(* texts of one block about the groups A and B of the pool and X outside.  *)

Cli == INSTANCE WlcCli WITH Pool <- {"A", "B"}

Sheets ==
  [clock |-> Cli!clock_check, baseline |-> Cli!baseline, active |-> Cli!active_event,
   resolved |-> Cli!resolved_active_group("A", 684, "a1"),
   unbound |-> Cli!resolved_active_group("B", 688, NoValue),
   failure |-> Cli!post_failure, ap |-> Cli!ap_evidence,
   long |-> Cli!start(FALSE, FALSE), continuous |-> Cli!start(FALSE, TRUE),
   stop |-> Cli!stop_export, cleanup |-> Cli!cleanup]

PhaseOf ==
  [clock |-> "unassigned", baseline |-> "baseline", active |-> "active_event",
   resolved |-> "resolved_group", unbound |-> "resolved_group", failure |-> "post_failure",
   ap |-> "ap_evidence", long |-> "capture_start", continuous |-> "capture_start",
   stop |-> "capture_stop_export", cleanup |-> "cleanup"]

Logs == UNION {[1..n -> DOMAIN Sheets] : n \in 1..3}

Lines ==
  {Cli!LengthZero, Cli!Note, Cli!ShowOf("summary"), Cli!ShowGroup("A", 684),
   Cli!ShowGroup("X", 684), Cli!ShowSource("A", 688), Cli!SummaryRow("A", 684, 1),
   Cli!SummaryRow("B", 688, 2), Cli!GroupField("A"), Cli!VlanField(688), Cli!ClientHeader,
   Cli!ReceiverLine}

Texts == UNION {[1..n -> Lines] : n \in 0..4}

Pasted(sheets) == FlattenSeq([i \in DOMAIN sheets |-> Sheets[sheets[i]]])

(* A log of sheets is cut into exactly those sheets, and each block keeps  *)
(* the phase and the attempt of its sheet, whatever stands before or after *)
(* it, except the start of a capture without the continuous export, which  *)
(* the code files as an export.  In any text no line after the first       *)
(* command is lost, repeated or moved to another sheet                     *)
(* (transcript_command_blocks, infer_transcript_phase).                    *)
SheetsAreCutApart ==
  /\ part = "sheets" =>
       LET blocks == Cli!transcript_command_blocks(Pasted(input)) IN
       /\ Len(blocks) = Len(input)
       /\ \A i \in DOMAIN input :
            /\ input[i] # "long" => Cli!infer_transcript_phase(blocks[i]) = PhaseOf[input[i]]
            /\ Cli!extract_attempt_ids(blocks[i]) = IF input[i] = "resolved" THEN <<"a1">> ELSE <<>>
  /\ part = "text" => Cli!KeepsItsLines(input)

DetailsOf(t) == SelectSeq(Cli!DetailText(t), LAMBDA l : l.k \in {"show", "Group"})
GroupsAsked(t) == UNION {Range(Cli!AddressOf(l)) : l \in Range(DetailsOf(t))}

(* A block that asks the controller about one group resolves that group,   *)
(* on the VLAN it printed or was asked for, and nothing else; one that     *)
(* shows only the summary resolves nothing.  Membership is claimed for a   *)
(* group only where the controller listed its clients: of the observations *)
(* of a text that asks about one group, only that group's carries it       *)
(* (parse_wlc_snapshot).                                                   *)
OnlyTheAskedGroupResolves ==
  part = "text" =>
    LET seen == Cli!parse_wlc_snapshot(input, 684) IN
    /\ GroupsAsked(input) = {} => seen.resolved_group_ip = NoValue /\ seen.resolved_group_vlan = NoValue
    /\ seen.vlan_context_state = "resolved_confirmed" => seen.resolved_group_vlan = 684
    /\ \A g \in {"A", "B"} :
         /\ GroupsAsked(input) = {g} => seen.resolved_group_ip = g
         /\ GroupsAsked(input) \subseteq {g} =>
              \A o \in Range(seen.observations) :
                o.member # NoValue => o.group = g /\ GroupsAsked(input) = {g}

-----------------------------------------------------------------------------
(* A survey: the lines of a badge around midnight (a day is 4 seconds), an *)
(* export of one or two files, and an entry for each row the operator      *)
(* completes.                                                              *)

Rf == INSTANCE RfCorrelation WITH
        DayLength <- 4, Window <- 1, SampleWindow <- 2, SameDate <- TRUE

Line(k, t, n, b) == [k |-> k, t |-> t, n |-> n, b |-> b]

BadgeLines ==
  {Line("roam", 3, 0, "A"), Line("roam", NoValue, 0, "A"), Line("found", 5, 1, "A"),
   Line("candidate", NoValue, -60, "A"), Line("selected", 4, -50, "B"),
   Line("connected", NoValue, 0, "A"), Line("radio", 2, 20, "A")}

Route(id, start, times) ==
  [name |-> "f", floor |-> "1", surveys |-> <<[id |-> id, start |-> start, times |-> times]>>,
   objects |-> <<>>]
Dated(name, times) ==
  [name |-> name, floor |-> "2", surveys |-> <<>>,
   objects |-> [i \in DOMAIN times |-> [id |-> "o", time |-> times[i]]]]

Exports ==
  {<<>>, <<Route("s", 3, <<0, 10>>)>>, <<Route("s", 1, <<2000>>)>>, <<Route(NoValue, 4, <<NoValue, 0>>)>>,
   <<Route("s", NoValue, <<0>>), Dated("g", <<5>>)>>, <<Dated("g", <<3, 4>>)>>,
   <<Dated("g", <<4>>), Dated("h", <<3, NoValue>>)>>}

Surveys == [lines : UNION {[1..n -> BadgeLines] : n \in 0..4}, files : Exports]

(* From files to deltas: every candidate a badge printed after its first   *)
(* time stands in one scan, which no roam line cuts; the points of an      *)
(* export keep ids of their own; each point meets the candidates of its    *)
(* nearest scan of that day and of no other, exactly where the summary     *)
(* counts it as matched; and a row is complete exactly if an entry for its *)
(* point, BSSID and time was made, with the delta of the two levels        *)
(* (parse_badge_input, parse_ekahau_json, build_manual_entry_template,     *)
(* summarize_match_alignment, correlate_template_rows).                    *)
PointsMeetTheirScans ==
  part = "survey" =>
    LET lines == input.lines
        badge == Rf!parse_badge_input(lines)
        points == Rf!parse_ekahau_json(input.files)
        template == Rf!build_manual_entry_template(badge, points)
        told == Rf!summarize_match_alignment(badge, points)
        entries == SelectSeq(template, LAMBDA r : r.bssid = "A")
        filled == [i \in DOMAIN entries |->
                     [point |-> entries[i].point, bssid |-> "A", time |-> entries[i].time, rssi |-> -70]]
        matches == Rf!correlate_template_rows(template, filled, 4)
        marks == Rf!annotate_outliers(matches, 1)
        events == Range(badge.events)
        Timed(i) == \E j \in 1..i : lines[j].t # NoValue
        Near(p) == {e \in events : p.time \div 4 = e.time \div 4 /\ Rf!Gap(e.time, p.time) <= 1}
    IN  /\ FlattenSeq([e \in DOMAIN badge.events |->
                         [c \in DOMAIN badge.events[e].candidates |-> badge.events[e].candidates[c].line]])
             = SelectSeq([i \in DOMAIN lines |-> i],
                         LAMBDA i : lines[i].k \in {"candidate", "selected"} /\ Timed(i))
        /\ \A e \in events : \A c \in Range(e.candidates) :
             \A i \in (e.line + 1)..c.line : lines[i].k # "roam"
        /\ \A e \in events :
             e.total # NoValue /\ e.candidates # <<>> /\ Len(e.candidates) # e.total => e.warned
        /\ \A i, j \in DOMAIN points : points[i].id = points[j].id => i = j
        /\ told.matched = Len(SelectSeq(points, LAMBDA p : Near(p) # {}))
        /\ told.matched = 0 => told.reason \notin {NoValue, "no_comparable_points"}
        /\ \A p \in Range(points) :
             LET mine == SelectSeq(template, LAMBDA r : r.point = p.id)
             IN  IF Near(p) = {} THEN mine = <<>>
                 ELSE \E e \in Near(p) :
                        /\ \A other \in Near(p) : Rf!Gap(e.time, p.time) <= Rf!Gap(other.time, p.time)
                        /\ [r \in DOMAIN mine |-> mine[r].bssid]
                             = [c \in DOMAIN e.candidates |-> e.candidates[c].bssid]
        /\ Len(matches) = Len(template)
        /\ \A i \in DOMAIN matches :
             /\ matches[i].status = IF template[i].bssid = "A" THEN "complete" ELSE "pending_manual_entry"
             /\ matches[i].delta = IF template[i].bssid = "A" THEN 6 ELSE NoValue
             /\ marks[i] = IF template[i].bssid = "A" THEN "no_variance" ELSE NoValue

-----------------------------------------------------------------------------
(* Packets: the order in which a receiver meets the numbers of a source    *)
(* whose counter wraps at 8, and captures of up to five frames.            *)

Orders == {order \in UNION {[1..n -> 4..11] : n \in 1..5} : Arrives(order)}

\* "again" is the third packet once more, "skewed" one whose timestamp does not fit its time,
\* "first" a first fragment, of a source whose payload type has no configured clock.
FrameKinds ==
  {"next", "again", "skewed", "plain", "signalling", "future", "cut", "first", "later"}

Frame(kind, i) ==
  LET n == IF kind = "again" THEN 3 ELSE i
  IN  [link |-> "ethernet", type |-> "ipv4", cut |-> kind = "cut", flow |-> "f",
       ip |-> CASE kind = "first" -> "first fragment" [] kind = "later" -> "later fragment"
                [] OTHER -> "whole",
       time |-> IF kind = "future" THEN 10000 ELSE 200 * i,
       port |-> IF kind = "signalling" THEN 5002 ELSE 5200,
       rtp |-> IF kind \in {"plain", "signalling"} THEN NoValue
               ELSE [source |-> IF kind = "first" THEN 2 ELSE 1, seq |-> (6 + n) % 8,
                     stamp |-> (1400 + 200 * n + (IF kind = "skewed" THEN 80 ELSE 0)) % 2048]]

Captures == [frames : UNION {[1..n -> FrameKinds] : n \in 1..5}, strict : BOOLEAN]

\* A capture is counted: its file, what the analysis makes of it, and the gauges of that.
Counted(kinds, strict, file, result, gauges) ==
  LET OfMedia(i) == kinds[i] \in {"next", "again", "skewed", "plain", "first"}
      rtp == {s \in result.streams : s.mode = "rtp"}
      rejected == {s \in result.streams : s.mode = "rtp_candidate_rejected"}
  IN  /\ "cut" \in Range(kinds) => ~result.success
      /\ ~result.success => result.streams = {} /\ gauges.packets_observed = 0
      /\ result.success =>
           /\ gauges.packets_observed = Cardinality({i \in DOMAIN file : OfMedia(i)})
           /\ result.udp = Cardinality({i \in DOMAIN file : kinds[i] # "later"})
           /\ result.outliers = Cardinality({i \in DOMAIN file : kinds[i] = "future"})
      /\ gauges.lost <= gauges.expected
      /\ gauges.rtp_packets_observed <= gauges.packets_observed
      /\ \A s \in rtp : s.packets >= 3
      /\ strict => /\ \A s \in rejected : s.reasons # {}
                   /\ \A s \in rtp : s.source \in KnownClocks
      /\ MapThenSumSet(LAMBDA r : gauges.rejected[r], DOMAIN gauges.rejected) >= Cardinality(rejected)

Analyzed(file, strict) == analyze_pcap(file, {5200}, strict, 5000)

(* Loss is what is missing between the first number received and the       *)
(* highest, duplicates are what came again, and a late packet counts as    *)
(* out of order and not as lost, also across the wrap of the counter.      *)
(* Every UDP packet of a capture on a media port and not of the future is  *)
(* in one stream and in the gauges, a file that fails yields nothing, a    *)
(* stream is counted as RTP only with enough packets and under the strict  *)
(* check with no reason against it, and a rejected one names its reasons   *)
(* (rtp_sequence_stats, analyze_pcap, rtp_plausibility_check,              *)
(* render_prometheus).                                                     *)
EveryPacketIsCounted ==
  /\ part = "order" => LossIsWhatIsMissing(input)
  /\ part = "capture" =>
       LET file == [i \in DOMAIN input.frames |-> Frame(input.frames[i], i)] IN
       Counted(input.frames, input.strict, file, Analyzed(file, input.strict),
               render_prometheus(Analyzed(file, input.strict)))

-----------------------------------------------------------------------------
MCInit ==
  /\ TranscriptsInit /\ in = <<>>
  /\ part \in {"scans", "none"}
  /\ part = "none" => script = CHOOSE growth \in Scripts : TRUE

Scan == part = "scans" /\ UNCHANGED <<part, in>>

MCNext ==
  \/ Scan /\ TranscriptsNext
  \/ Pick("sheets", Logs)
  \/ Pick("text", Texts)
  \/ Pick("survey", Surveys)
  \/ Pick("order", Orders)
  \/ Pick("capture", Captures)

\* The fairness of WlcTranscripts, for the part that scans.
MCSpec ==
  /\ MCInit /\ [][MCNext]_allVars
  /\ WF_allVars(Scan /\ Start(Timer))
  /\ \A s \in Scans : WF_allVars(Scan /\ ScanWorks(s))

\* A log that has stopped growing is parsed in the end, or waits for an operator
\* (LogIsParsed of WlcTranscripts; media_wlc_process_terminal_output).
GrownLogIsParsed == part = "scans" => LogIsParsed
=============================================================================
