---------------------------- MODULE RfCorrelation ----------------------------
(***************************************************************************)
(* RF validation: from the lines of a badge diagnostic and the files of an *)
(* Ekahau export to the rows an operator completes and their deltas        *)
(* (tools/vocera_rf_validation: badge_diag_parser, ekahau_importer,        *)
(* correlate, stats).                                                      *)
(*                                                                         *)
(* Times are whole seconds and a local day is DayLength of them; a BSSID,  *)
(* a floor and a model are values; levels are whole decibels.  Geometry,   *)
(* names and the parsing of the words of a line are left out.              *)
(***************************************************************************)
EXTENDS Integers, Sequences, SequencesExt, FiniteSetsExt

CONSTANTS
  NoValue,       \* None
  DayLength,     \* seconds of a local day
  Window,        \* default_match_window_seconds
  SampleWindow,  \* associated_sample_match_window_seconds
  SameDate       \* require_same_measurement_date

Day(t) == t \div DayLength
Gap(a, b) == IF a < b THEN b - a ELSE a - b

\* The first of the values of a sequence that no other is smaller than (min with a key).
FirstLeast(s, Key(_)) ==
  LET least == Min({Key(s[i]) : i \in DOMAIN s})
  IN  s[Min({i \in DOMAIN s : Key(s[i]) = least})]

-----------------------------------------------------------------------------
(* The badge diagnostic.  A line is [k, t, n, b]: what it says, the time   *)
(* it carries or NoValue, the count or level in it and its BSSID, which    *)
(* also stands for the channel (a scan gives no candidate an SNR itself).  *)

\* The event that lines are being attached to: the last one, while it is open.
Current(s) == Last(s.events)

BadgeScanEvent(t, at) ==
  [time |-> t, line |-> at, total |-> NoValue, candidates |-> <<>>, connected |-> NoValue,
   warned |-> FALSE]

IsSelected(c) == c.selected

\* An event whose candidates do not fit its counts or its connection is kept, with a warning.
_validate_event(e) ==
  LET selected == SelectSeq(e.candidates, IsSelected)
      odd == \/ e.candidates # <<>> /\ Len(selected) # 1
             \/ e.total # NoValue /\ Len(e.candidates) > e.total
             \/ e.total # NoValue /\ e.candidates # <<>> /\ Len(e.candidates) < e.total
             \/ /\ e.connected # NoValue /\ selected # <<>>
                /\ Head(selected).bssid # e.connected
  IN  [e EXCEPT !.warned = odd]

Close(s) ==
  IF s.open THEN [s EXCEPT !.events[Len(s.events)] = _validate_event(@), !.open = FALSE] ELSE s

Open(s, t, at) == [s EXCEPT !.events = Append(@, BadgeScanEvent(t, at)), !.open = TRUE]

\* A roam line, or the second count of one scan, begins a scan of its own.
StartsNew(s, l) ==
  \/ l.k = "roam"
  \/ l.k = "found" /\ s.open /\ (Current(s).total # NoValue \/ Current(s).candidates # <<>>)

Attach(e, l, at) ==
  CASE l.k = "found" -> [e EXCEPT !.total = l.n]
    [] l.k \in {"candidate", "selected"} ->
         [e EXCEPT !.candidates =
            Append(@, [bssid |-> l.b, rssi |-> l.n, selected |-> l.k = "selected", line |-> at])]
    [] l.k = "connected" -> [e EXCEPT !.connected = l.b]
    [] OTHER -> e

\* Deviation: a roam line goes on with the scan that is open.
LineWithoutBoundary(s, l, at) ==
  LET t == IF l.t = NoValue THEN s.last ELSE l.t
      s2 == IF l.k \in {"roam", "found", "candidate", "selected"} /\ ~s.open /\ t # NoValue
              THEN Open(s, t, at) ELSE s
  IN  [(IF s2.open THEN [s2 EXCEPT !.events[Len(s2.events)] = Attach(@, l, at)] ELSE s2)
         EXCEPT !.last = t]

\* One line.  A line without a time has that of the last line that had one.
ParseLine(s, l, at) ==
  LET t == IF l.t = NoValue THEN s.last ELSE l.t
      new == StartsNew(s, l)
      s1 == IF new THEN Close(s) ELSE s
      s2 == IF /\ t # NoValue
               /\ new \/ (l.k \in {"found", "candidate", "selected"} /\ ~s1.open)
              THEN Open(s1, t, at) ELSE s1
      s3 == IF s2.open THEN [s2 EXCEPT !.events[Len(s2.events)] = Attach(@, l, at)] ELSE s2
  IN  [s3 EXCEPT
         !.last = t,
         !.skipped = @ \/ (new /\ t = NoValue),
         !.signals = IF l.k = "radio" /\ t # NoValue
                       THEN Append(@, [time |-> t, snr |-> l.n, channel |-> l.b]) ELSE @]

\* One file of a badge: its scans, its radio samples, and whether a scan was skipped.
parse_badge_input(lines) ==
  Close(FoldLeftDomain(LAMBDA s, i : ParseLine(s, lines[i], i),
          [events |-> <<>>, open |-> FALSE, last |-> NoValue, signals |-> <<>>, skipped |-> FALSE],
          lines))

-----------------------------------------------------------------------------
(* The Ekahau export.  A survey is [id, start, times]: its id or NoValue,  *)
(* its start or NoValue and the offsets of its route points; a dated       *)
(* object of another file is [id, time].                                   *)

\* Milliseconds or nanoseconds, told apart by the longest offset of a survey (NsFrom, in Unit).
Unit == 10
NsFrom == 1000
_route_point_scale(times) ==
  LET longest == Max({0} \cup {Gap(0, times[i]) : i \in DOMAIN times \cap {j \in DOMAIN times : times[j] # NoValue}})
  IN  CASE times = <<>> \/ longest >= NsFrom -> NsFrom
        [] longest >= 1 /\ longest < NsFrom -> Unit
        [] OTHER -> 1

\* The points of a survey file: a survey without a start is left out, a point without a time too.
SurveyPoints(file) ==
  FlattenSeq([s \in DOMAIN file.surveys |->
    LET v == file.surveys[s]
        scale == _route_point_scale(v.times)
        id == IF v.id # NoValue THEN <<v.id>> ELSE <<file.name, s>>
        Timed(p) == v.times[p] # NoValue
    IN  IF v.start = NoValue THEN <<>>
        ELSE [i \in DOMAIN SelectSeq([p \in DOMAIN v.times |-> p], Timed) |->
                LET p == SelectSeq([q \in DOMAIN v.times |-> q], Timed)[i]
                IN  [id |-> <<"route", id, p>>, time |-> v.start + v.times[p] \div scale,
                     floor |-> file.floor]]])

\* The dated objects of a file without surveys.  An id already used is replaced by one of its own.
ObjectPoints(file, seen) ==
  FoldLeftDomain(LAMBDA acc, i :
      LET o == file.objects[i]
          own == IF o.id # NoValue THEN <<"raw", o.id>> ELSE <<"made", file.name, i, o.time>>
          id == IF own \in acc.seen THEN <<"again", file.name, i, own, o.time>> ELSE own
      IN  IF o.time = NoValue THEN acc
          ELSE [seen |-> acc.seen \cup {id},
                points |-> Append(acc.points, [id |-> id, time |-> o.time, floor |-> file.floor])],
    [seen |-> seen, points |-> <<>>], file.objects)

\* One export: per file the surveys, or else the dated objects, sorted by time.
parse_ekahau_json(files) ==
  LET all == FoldLeft(LAMBDA acc, f :
               IF SurveyPoints(f) # <<>>
                 THEN [acc EXCEPT !.points = @ \o SurveyPoints(f)]
                 ELSE LET more == ObjectPoints(f, acc.seen)
                      IN  [seen |-> more.seen, points |-> acc.points \o more.points],
               [seen |-> {}, points |-> <<>>], files)
  IN  SortSeq(all.points, LAMBDA a, b : a.time < b.time)

-----------------------------------------------------------------------------
(* The rows to complete.                                                   *)

_same_measurement_date(a, b) == SameDate => Day(a) = Day(b)
_within_match_window(gap) == gap <= Window

match_quality(gap) ==
  CASE gap > Window -> NoValue
    [] gap <= Window /\ gap <= 1 -> "exact_1s"
    [] gap <= Window /\ gap > 1 /\ gap <= 5 -> "close_5s"
    [] OTHER -> "within_window"

\* Deviation: the scan nearest on any day, looked at for its day afterwards.
NearestOnAnyDay(events, p) ==
  IF events = <<>> THEN <<>>
  ELSE LET e == FirstLeast(events, LAMBDA x : Gap(x.time, p.time))
       IN  IF _same_measurement_date(e.time, p.time) THEN <<e>> ELSE <<>>

\* The scan of a survey point: the nearest of its local day, the first of equals.
Nearest(events, p) ==
  LET comparable == SelectSeq(events, LAMBDA e : _same_measurement_date(e.time, p.time))
  IN  IF comparable = <<>> THEN <<>> ELSE <<FirstLeast(comparable, LAMBDA e : Gap(e.time, p.time))>>

\* The nearest sample of the associated link, of one channel or of any (NoValue).
_nearest_radio_signal_sample(samples, t, channel) ==
  LET near == SelectSeq(samples, LAMBDA x : /\ Gap(x.time, t) <= SampleWindow
                                            /\ channel # NoValue => x.channel = channel)
  IN  IF near = <<>> THEN <<>> ELSE <<FirstLeast(near, LAMBDA x : Gap(x.time, t))>>

\* The SNR of a row and where it comes from.
_badge_snr_fields(badge, e, c) ==
  LET same == _nearest_radio_signal_sample(badge.signals, e.time, c.bssid)
      any == _nearest_radio_signal_sample(badge.signals, e.time, NoValue)
      associated == c.selected \/ (e.connected # NoValue /\ c.bssid = e.connected)
  IN  CASE same # <<>> -> [snr |-> same[1].snr, source |-> "associated_radio_signal"]
        [] same = <<>> /\ any # <<>> -> [snr |-> any[1].snr, source |-> "event_level"]
        [] OTHER -> [snr |-> NoValue,
                     source |-> IF associated THEN "no_sample" ELSE "not_associated"]

\* One row for each candidate of the scan of each survey point that has one in the window.
build_manual_entry_template(badge, points) ==
  FlattenSeq([i \in DOMAIN points |->
    LET p == points[i]
        nearest == Nearest(badge.events, p)
    IN  IF nearest = <<>> \/ ~_within_match_window(Gap(nearest[1].time, p.time)) THEN <<>>
        ELSE LET e == nearest[1] IN
             [c \in DOMAIN e.candidates |->
                [point |-> p.id, time |-> p.time, floor |-> p.floor, event |-> e.line,
                 badge_time |-> e.time, quality |-> match_quality(Gap(e.time, p.time)),
                 index |-> c, bssid |-> e.candidates[c].bssid, rssi |-> e.candidates[c].rssi,
                 snr |-> _badge_snr_fields(badge, e, e.candidates[c])]]])

\* What the operator is told about the two files: the points with a scan, and why there is none.
summarize_match_alignment(badge, points) ==
  LET gaps == FlattenSeq([i \in DOMAIN points |->
                LET n == Nearest(badge.events, points[i])
                IN  IF n = <<>> THEN <<>> ELSE <<Gap(n[1].time, points[i].time)>>])
      matched == Len(SelectSeq(gaps, _within_match_window))
      days == {Day(badge.events[i].time) : i \in DOMAIN badge.events}
                \cap {Day(points[i].time) : i \in DOMAIN points}
  IN  [matched |-> matched,
       reason |->
         CASE matched > 0 -> NoValue
           [] matched = 0 /\ badge.events = <<>> -> "no_badge_events"
           [] matched = 0 /\ badge.events # <<>> /\ points = <<>> -> "no_ekahau_points"
           [] /\ matched = 0 /\ badge.events # <<>> /\ points # <<>>
              /\ SameDate /\ days = {} -> "no_same_date_overlap"
           [] /\ matched = 0 /\ badge.events # <<>> /\ points # <<>>
              /\ ~(SameDate /\ days = {}) /\ gaps # <<>> -> "outside_match_window"
           [] OTHER -> "no_comparable_points"]

-----------------------------------------------------------------------------
(* The deltas.                                                             *)

\* The operator's entries by point, BSSID and time: the last of equals counts.
_manual_by_template_key(entries) ==
  [k \in {<<entries[i].point, entries[i].bssid, entries[i].time>> : i \in DOMAIN entries} |->
     entries[Max({i \in DOMAIN entries :
                    <<entries[i].point, entries[i].bssid, entries[i].time>> = k})].rssi]

\* offset is the configured Ekahau-to-badge offset of the row's model and band, or NoValue.
correlate_template_rows(rows, entries, offset) ==
  LET index == _manual_by_template_key(entries)
      kept == SelectSeq(rows, LAMBDA r : /\ _same_measurement_date(r.badge_time, r.time)
                                         /\ _within_match_window(Gap(r.badge_time, r.time)))
  IN  [i \in DOMAIN kept |->
        LET r == kept[i]
            key == <<r.point, r.bssid, r.time>>
            seen == IF key \in DOMAIN index THEN index[key] ELSE NoValue
        IN  [row |-> r, ekahau |-> seen,
             delta |-> IF seen = NoValue \/ offset = NoValue THEN NoValue
                       ELSE r.rssi - (seen + offset),
             status |-> CASE seen = NoValue -> "pending_manual_entry"
                          [] seen # NoValue /\ offset = NoValue -> "missing_vendor_offset"
                          [] OTHER -> "complete"]]

\* A delta stands out when it is more than two deviations from the mean of its floor (z_score,
\* squared and cleared of fractions); a floor with too few of them tells nothing.
annotate_outliers(matches, minimum) ==
  [i \in DOMAIN matches |->
    LET m == matches[i]
        group == {j \in DOMAIN matches : /\ matches[j].status = "complete"
                                         /\ matches[j].row.floor = m.row.floor}
        n == Cardinality(group)
        sum == MapThenSumSet(LAMBDA j : matches[j].delta, group)
        square == MapThenSumSet(LAMBDA j : matches[j].delta * matches[j].delta, group)
        spread == n * square - sum * sum
        far == n * m.delta - sum
    IN  CASE i \notin group -> NoValue
          [] i \in group /\ n < minimum -> "insufficient_samples"
          [] i \in group /\ n >= minimum /\ spread = 0 -> "no_variance"
          [] OTHER -> IF far * far * (n - 1) > 4 * n * spread THEN "outlier" ELSE "normal"]
=============================================================================
