---------------------------- MODULE MediaAnalyzer ----------------------------
(***************************************************************************)
(* The packet parser: from the frames of a capture to UDP packets, streams *)
(* with their RTP loss, and the gauges of one run                          *)
(* (tools/vocera_media_qoe/vocera_media_qoe.py).                           *)
(*                                                                         *)
(* A capture is a sequence of frames.  The layout of bytes is left out:    *)
(* a frame is a record of what its headers say.  Times are in milliseconds *)
(* and so is the RTP clock; the jitter and the gaps are computed for the   *)
(* plausibility check only, and names and roles are left out.              *)
(***************************************************************************)
EXTENDS Integers, Sequences, SequencesExt, FiniteSetsExt

CONSTANTS
  NoValue,      \* None
  SequenceModulus,       \* RTP_SEQ_MOD, 65536 in the code
  MaxDropout,   \* RTP_MAX_DROPOUT, 3000 in the code
  MaxMisorder,  \* RTP_MAX_MISORDER, 100 in the code
  StampModulus,     \* RTP_TS_MOD, 2^32 in the code
  MinPackets,   \* min_rtp_qoe_packets
  MinDuration,  \* min_rtp_duration_seconds
  MaxGap,       \* max_rtp_interarrival_ms
  MaxError,     \* max_rtp_timestamp_wallclock_error_ms
  MinPacketization,   \* min_voice_packetization_ms
  MaxPacketization,   \* max_voice_packetization_ms
  MaxJitter,    \* max_rtp_jitter_ms
  MaxTransitDelta,    \* max_rtp_transit_delta_seconds
  KnownClocks,  \* the sources whose payload type is in payload_clock_rates
  ClockRequired \* require_known_rtp_clock_rate

\* What is ahead or late is nearer than half the numbers, so that wrapped ones can be told apart.
ASSUME PacketAssumption ==
  /\ NoValue \notin Int /\ SequenceModulus \in Nat \ {0}
  /\ MaxDropout \in Nat /\ MaxDropout < SequenceModulus \div 2
  /\ MaxMisorder \in Nat /\ MaxMisorder < SequenceModulus \div 2
  /\ ClockRequired \in BOOLEAN

-----------------------------------------------------------------------------
(* Frames.  [link, type, ip, cut, time, flow, port, rtp, dscp]: the link   *)
(* layer, what the frame carries, whether the record is cut short, and the *)
(* packet in it.                                                           *)

LinkTypes == {"ethernet", "radiotap"}

\* A frame holds a UDP packet if it is a plain data frame with an IPv4 packet, or the first
\* fragment of one, that is long enough for the UDP header.
HoldsUdp(f) ==
  /\ f.type \notin {"arp", "management", "encrypted"}
  /\ f.ip \in {"whole", "first fragment"}

\* The frames of a file, up to the first record that contradicts the file: then the file fails.
iter_pcap_udp_packets(file) ==
  IF \E i \in DOMAIN file : file[i].link \notin LinkTypes \/ file[i].cut
    THEN [ok |-> FALSE, read |-> 0, packets |-> <<>>]
    ELSE [ok |-> TRUE, read |-> Len(file), packets |-> SelectSeq(file, HoldsUdp)]

-----------------------------------------------------------------------------
(* RTP sequence numbers.                                                   *)

\* The extended number nearest to the highest one so far.
extend_rtp_sequence(sequence, highest) ==
  LET candidate == (highest \div SequenceModulus) * SequenceModulus + sequence
  IN  CASE highest = NoValue -> sequence
        [] highest # NoValue /\ candidate - highest < -(SequenceModulus \div 2) -> candidate + SequenceModulus
        [] highest # NoValue /\ candidate - highest > SequenceModulus \div 2 -> candidate - SequenceModulus
        [] OTHER -> candidate

\* Counts so far: [segment, highest, bad, seen, missing, valid, duplicates, disordered].
FirstCount(sequence) ==
  [segment |-> 0, highest |-> sequence, bad |-> NoValue, seen |-> {<<0, sequence>>},
   missing |-> {}, valid |-> 1, duplicates |-> 0, disordered |-> 0]

\* Deviation: a late packet leaves open the gap it fills.
CountKeepingGaps(s, sequence) ==
  LET candidate == extend_rtp_sequence(sequence, s.highest)
      key == <<s.segment, candidate>>
      diff == candidate - s.highest
  IN  CASE key \in s.seen -> [s EXCEPT !.duplicates = @ + 1]
        [] key \notin s.seen /\ diff \in 1..MaxDropout ->
             [s EXCEPT !.missing = @ \cup {<<s.segment, n>> : n \in (s.highest + 1)..(candidate - 1)},
                       !.seen = @ \cup {key}, !.valid = @ + 1, !.highest = candidate]
        [] key \notin s.seen /\ -diff \in 1..MaxMisorder ->
             [s EXCEPT !.disordered = @ + 1, !.seen = @ \cup {key}, !.valid = @ + 1]
        [] OTHER -> s

\* One more packet: known, ahead within the dropout, late within the misorder, the second of a
\* restarted source, or remembered as its possible first.
Count(s, sequence) ==
  LET candidate == extend_rtp_sequence(sequence, s.highest)
      key == <<s.segment, candidate>>
      diff == candidate - s.highest
      ahead == key \notin s.seen /\ diff \in 1..MaxDropout
      late == key \notin s.seen /\ -diff \in 1..MaxMisorder
      far == key \notin s.seen /\ ~ahead /\ ~late
      gap == {<<s.segment, n>> : n \in (s.highest + 1)..(candidate - 1)}
  IN  CASE key \in s.seen -> [s EXCEPT !.duplicates = @ + 1]
        [] ahead -> [s EXCEPT !.missing = (@ \cup gap) \ {key}, !.seen = @ \cup {key},
                              !.valid = @ + 1, !.highest = candidate, !.bad = NoValue]
        [] late -> [s EXCEPT !.disordered = @ + 1, !.seen = @ \cup {key},
                             !.missing = @ \ {key}, !.valid = @ + 1, !.bad = NoValue]
        [] far /\ sequence = s.bad ->
             [s EXCEPT !.segment = @ + 1, !.highest = sequence, !.valid = @ + 1,
                       !.seen = @ \cup {<<s.segment + 1, sequence>>}, !.bad = NoValue]
        [] OTHER -> [s EXCEPT !.bad = (sequence + 1) % SequenceModulus]

Totals(s) ==
  [expected |-> s.valid + Cardinality(s.missing), lost |-> Cardinality(s.missing),
   duplicates |-> s.duplicates, disordered |-> s.disordered]

rtp_sequence_stats(sequences) ==
  IF sequences = <<>> THEN [expected |-> 0, lost |-> 0, duplicates |-> 0, disordered |-> 0]
  ELSE Totals(FoldLeft(Count, FirstCount(Head(sequences)), Tail(sequences)))

\* What the counts stand for: order is how a receiver meets the packets of a source, by their
\* numbers before they wrap.  They come ahead within the dropout, late within the misorder, or
\* again while they are recent.
Arrives(order) ==
  \A i \in 2..Len(order) :
    LET before == {order[j] : j \in 1..(i - 1)}
        ahead == order[i] - Max(before)
    IN  \/ ahead \in 1..MaxDropout
        \/ -ahead \in 1..MaxMisorder
        \/ order[i] \in before /\ -ahead < SequenceModulus \div 2

LateIn(order) ==
  {i \in DOMAIN order : /\ \E j \in 1..(i - 1) : order[j] > order[i]
                        /\ \A j \in 1..(i - 1) : order[j] # order[i]}

\* Lost is what is missing between the first number received and the highest one.
LossIsWhatIsMissing(order) ==
  LET got == Range(order)
      missing == order[1]..Max(got) \ got
  IN  rtp_sequence_stats([i \in DOMAIN order |-> order[i] % SequenceModulus])
        = [expected |-> Cardinality(got \cup missing), lost |-> Cardinality(missing),
           duplicates |-> Len(order) - Cardinality(got),
           disordered |-> Cardinality(LateIn(order))]

-----------------------------------------------------------------------------
(* Does an RTP-looking group behave like RTP?                              *)

\* The smallest value that a share p/100 of the values does not exceed.
percentile(values, p) ==
  IF values = <<>> THEN NoValue
  ELSE LET ordered == SortSeq(values, LAMBDA a, b : a < b)
           rank == (p * Len(values) + 99) \div 100
       IN  ordered[Max({1, Min({Len(values), rank})})]

Absolute(n) == IF n < 0 THEN -n ELSE n

ByArrival(packets) == SortSeq(packets, LAMBDA a, b : a.time < b.time)

\* The signed distance of two timestamps.
rtp_timestamp_delta(current, previous) ==
  LET delta == current - previous
  IN  CASE delta < -(StampModulus \div 2) -> delta + StampModulus
        [] delta > StampModulus \div 2 -> delta - StampModulus
        [] OTHER -> delta

\* The forward steps of a stream: <<time between arrivals, time between timestamps>>.
ForwardSteps(packets) ==
  FoldLeft(LAMBDA acc, i :
      LET p == packets[i]
          candidate == extend_rtp_sequence(p.rtp.seq, acc.highest)
      IN  IF candidate - acc.highest \in 1..MaxDropout
            THEN [highest |-> candidate,
                  steps |-> Append(acc.steps, <<p.time - packets[i - 1].time,
                                                rtp_timestamp_delta(p.rtp.stamp, packets[i - 1].rtp.stamp)>>)]
            ELSE acc,
    [highest |-> Head(packets).rtp.seq, steps |-> <<>>],
    [i \in 1..(Len(packets) - 1) |-> i + 1]).steps

\* RFC 3550 jitter as a fraction: a sixteenth of the way to each change of transit time, changes
\* beyond MaxTransitDelta, those of a wrapped timestamp among them, left aside.
rtp_jitter_ms(packets) ==
  LET Transit(i) == packets[i].time - packets[i].rtp.stamp
  IN  FoldLeft(LAMBDA j, i :
          LET delta == Absolute(Transit(i) - Transit(i - 1))
          IN  IF delta > MaxTransitDelta THEN j
              ELSE [over |-> delta * j.under + 15 * j.over, under |-> 16 * j.under],
        [over |-> 0, under |-> 1], [i \in 1..(Len(packets) - 1) |-> i + 1])

NumbersOf(packets) == [i \in DOMAIN packets |-> packets[i].rtp.seq]

\* The reasons against packets in the order of arrival, with their counts and forward steps,
\* those in which the timestamp moved on, in one list as in the code.
ReasonsAgainst(packets, stats, steps, timed) ==
  LET n == Len(packets)
      duration == Last(packets).time - Head(packets).time
      gaps == [i \in 1..(n - 1) |-> packets[i + 1].time - packets[i].time]
      errors == [i \in DOMAIN timed |-> Absolute(timed[i][1] - timed[i][2])]
      jitter == rtp_jitter_ms(packets)
      packetization == percentile([i \in DOMAIN timed |-> timed[i][2]], 50)
      Exceeds(value, limit) == IF value = NoValue THEN FALSE ELSE value > limit
      Below(value, limit) == IF value = NoValue THEN FALSE ELSE value < limit
      named == { <<"too_few_packets", n < MinPackets>>,
                 <<"duration_too_short", duration <= 0 \/ duration < MinDuration>>,
                 <<"unknown_clock_rate", ClockRequired /\ Head(packets).rtp.source \notin KnownClocks>>,
                 <<"sequence_not_progressing", n < 2 \/ 5 * Len(steps) < 4 * (n - 1)>>,
                 <<"timestamp_not_progressing", steps = <<>> \/ 5 * Len(timed) < 4 * Len(steps)>>,
                 <<"timestamp_wallclock_mismatch", Exceeds(percentile(errors, 95), MaxError)>>,
                 <<"packetization_implausible", \/ Below(packetization, MinPacketization)
                                                \/ Exceeds(packetization, MaxPacketization)>>,
                 <<"interarrival_gap_too_large", Exceeds(percentile(gaps, 95), MaxGap)>>,
                 <<"loss_ratio_implausible", 2 * stats.lost > stats.expected>>,
                 <<"duplicate_ratio_implausible", 2 * stats.duplicates > n>>,
                 <<"out_of_order_ratio_implausible", 2 * stats.disordered > n>>,
                 <<"jitter_implausible", jitter.over > MaxJitter * jitter.under>> }
  IN  {x[1] : x \in {y \in named : y[2]}}

RejectionReasons(packets) ==
  LET Against(steps) ==
        ReasonsAgainst(packets, rtp_sequence_stats(NumbersOf(packets)), steps,
                       SelectSeq(steps, LAMBDA s : s[2] > 0))
  IN  Against(ForwardSteps(packets))

\* Without the strict check a number of sequence numbers and two timestamps are enough.
rtp_plausibility_check(group, strict) ==
  LET reasons == RejectionReasons(ByArrival(group))
      loose == /\ Len(group) >= MinPackets
               /\ Cardinality({p.rtp.seq : p \in Range(group)}) >= Max({2, MinPackets \div 2})
               /\ Cardinality({p.rtp.stamp : p \in Range(group)}) >= 2
  IN  [plausible |-> IF strict THEN reasons = {} ELSE loose, reasons |-> reasons]

-----------------------------------------------------------------------------
(* Streams.                                                                *)

\* Deviation: the groups that fail the check are left out.
TrustedStreamsOf(flow, packets, strict) ==
  LET rtp == SelectSeq(packets, LAMBDA p : p.rtp # NoValue)
      Group(source) == SelectSeq(rtp, LAMBDA p : p.rtp.source = source)
  IN  {[flow |-> flow, source |-> source, mode |-> "rtp", packets |-> Len(Group(source)),
        reasons |-> {}, expected |-> 0, lost |-> 0]
         : source \in {x \in {p.rtp.source : p \in Range(rtp)} :
                         rtp_plausibility_check(Group(x), strict).plausible}}

\* Packets of later than now are dropped as outliers of the clock.
filter_future_timestamp_outliers(packets, latest) ==
  SelectSeq(packets, LAMBDA p : p.time <= latest)

StreamStats(flow, source, mode, packets, reasons) ==
  LET stats == rtp_sequence_stats(NumbersOf(ByArrival(packets)))
  IN  [flow |-> flow, source |-> source, mode |-> mode, packets |-> Len(packets), reasons |-> reasons,
       expected |-> IF mode = "rtp" THEN stats.expected ELSE 0,
       lost |-> IF mode = "rtp" THEN stats.lost ELSE 0]

\* The streams of one flow: a group for each source and payload type, and the packets without
\* a visible RTP header.
StreamsOf(flow, packets, strict) ==
  LET rtp == SelectSeq(packets, LAMBDA p : p.rtp # NoValue)
      plain == SelectSeq(packets, LAMBDA p : p.rtp = NoValue)
      Group(source) == SelectSeq(rtp, LAMBDA p : p.rtp.source = source)
      Judged(source, group, check) ==
        IF check.plausible THEN StreamStats(flow, source, "rtp", group, {})
        ELSE StreamStats(flow, source, "rtp_candidate_rejected", group, check.reasons)
  IN  {Judged(source, Group(source), rtp_plausibility_check(Group(source), strict))
         : source \in {p.rtp.source : p \in Range(rtp)}}
        \cup IF plain = <<>> THEN {}
             ELSE LET mode == IF Len(plain) > 1 THEN "udp_interarrival_only" ELSE "unknown_udp"
                  IN  {StreamStats(flow, NoValue, mode, plain, {})}

analyze_udp_packets(all, ports, strict) ==
  LET packets == SelectSeq(all, LAMBDA p : ports # {} => p.port \in ports)
  IN  UNION {StreamsOf(flow, SelectSeq(packets, LAMBDA p : p.flow = flow), strict)
               : flow \in {p.flow : p \in Range(packets)}}

\* One file.  A file that fails, or whose packets are all of the future, has no streams.
analyze_pcap(file, ports, strict, latest) ==
  LET Analyzed(seen, kept) ==
        LET good == seen.ok /\ (kept # <<>> \/ seen.packets = <<>>)
        IN  [success |-> good, read |-> seen.read, udp |-> Len(seen.packets),
             outliers |-> Len(seen.packets) - Len(kept),
             streams |-> IF good THEN analyze_udp_packets(kept, ports, strict) ELSE {}]
      seen == iter_pcap_udp_packets(file)
  IN  Analyzed(seen, filter_future_timestamp_outliers(seen.packets, latest))

\* The gauges of a run: sums over the streams, and per reason the streams it rejected.
render_prometheus(result) ==
  LET Sum(streams, Of(_)) == MapThenSumSet(Of, streams)
      rtp == {s \in result.streams : s.mode = "rtp"}
      rejected == {s \in result.streams : s.mode = "rtp_candidate_rejected"}
      ReasonsOf(s) == IF s.reasons = {} THEN {"unknown_rejection"} ELSE s.reasons
  IN  [active_streams |-> Cardinality(result.streams),
       packets_observed |-> Sum(result.streams, LAMBDA s : s.packets),
       rtp_plausible_streams |-> Cardinality(rtp),
       rtp_packets_observed |-> Sum(rtp, LAMBDA s : s.packets),
       non_rtp_udp_streams |-> Cardinality(result.streams \ rtp),
       expected |-> Sum(rtp, LAMBDA s : IF s.expected = 0 THEN s.packets ELSE s.expected),
       lost |-> Sum(rtp, LAMBDA s : s.lost),
       rejected |-> [r \in UNION {ReasonsOf(s) : s \in rejected} |->
                       Cardinality({s \in rejected : r \in ReasonsOf(s)})]]
=============================================================================
