-------------------------------- MODULE WlcCli --------------------------------
(***************************************************************************)
(* How a saved terminal log of the wireless controller is cut into blocks, *)
(* how a block is given a phase and an attempt, and which multicast group  *)
(* it resolves (vocera_wlc_cli.py), together with the command sheets an    *)
(* operator pastes into that terminal (vocera_wlc_session.py).             *)
(*                                                                         *)
(* A log is a sequence of lines.  A line is a record: "k" is what the      *)
(* regular expressions of the parser make of it, the other fields are the  *)
(* values they capture.  Text that no expression looks at is one kind.     *)
(***************************************************************************)
EXTENDS Naturals, SequencesExt

CONSTANTS
  Pool,          \* the addresses of the Vocera multicast pool
  NoValue        \* None: a field that no line shows

-----------------------------------------------------------------------------
(* Lines *)

LengthZero        == [k |-> "length0"]
ShowOf(what)      == [k |-> "show", what |-> what]
ShowGroup(g, v)   == [k |-> "show", what |-> "group", group |-> g, vlan |-> v]
ShowSource(g, v)  == [k |-> "show", what |-> "source", group |-> g, vlan |-> v]
Capture(verb)     == [k |-> "capture", verb |-> verb]
Removal           == [k |-> "remove"]
Configure         == [k |-> "configure"]
SummaryRow(g, v, m) == [k |-> "row", group |-> g, vlan |-> v, mgid |-> m]
GroupField(g)     == [k |-> "Group", value |-> g]
VlanField(v)      == [k |-> "Vlan", value |-> v]
MgidField(m)      == [k |-> "MGID", value |-> m]
ClientHeader      == [k |-> "clients"]
ReceiverLine      == [k |-> "receiver"]
Marker(a)         == [k |-> "attempt", id |-> a]
Note              == [k |-> "text", says |-> ""]
NoteOf(word)      == [k |-> "text", says |-> word]

(* WLC_COMMAND_RE: the lines that are commands. *)
IsCommand(l) == l.k \in {"length0", "show", "capture", "remove", "configure"}

IsShow(l, whats) == l.k = "show" /\ l.what \in whats

Some(t, Test(_)) == \E i \in DOMAIN t : Test(t[i])

-----------------------------------------------------------------------------
(* The sheets of the session package.  Output is whatever the controller   *)
(* prints between two commands.                                            *)

clock_check == <<LengthZero, ShowOf("clock"), ShowOf("capture")>>

baseline ==
  <<LengthZero, Note, Note, ShowOf("clock"), ShowOf("client"), ShowOf("history"),
    ShowOf("client"), ShowOf("history"), ShowOf("other"), ShowOf("mom"),
    ShowOf("other"), ShowOf("summary"), ShowOf("other"), ShowOf("capture")>>

active_event ==
  <<LengthZero, Note, Note, Note, ShowOf("clock"), ShowOf("client"), ShowOf("client"),
    ShowOf("summary"), ShowOf("other"), ShowOf("brief")>>

resolved_active_group(g, v, attempt) ==
  <<LengthZero, IF attempt = NoValue THEN Note ELSE Marker(attempt), Note, Note, Note,
    ShowOf("clock"), ShowGroup(g, v), ShowSource(g, v), ShowOf("other"), ShowOf("brief")>>

post_failure ==
  <<LengthZero, ShowOf("clock"), ShowOf("client"), ShowOf("history"), ShowOf("client"),
    ShowOf("summary"), ShowOf("other"), ShowOf("mom"), ShowOf("brief")>>

ap_evidence == <<LengthZero, Note, ShowOf("mgid"), ShowOf("mgid")>>

(* The line about the continuous export is a command or a comment, and the *)
(* comment reads "Continuous export disabled. Final export occurs in ...". *)
start(short, continuous) ==
  <<LengthZero, ShowOf("clock"), ShowOf("capture"), Configure, Configure, Note, Configure,
    Capture("interface"), Capture("buffer"), Capture("access-list"),
    IF short THEN Capture("limit") ELSE Note,
    IF continuous THEN Capture("continuous-capture") ELSE NoteOf("export"),
    Capture("start"), ShowOf("capture")>>

stop_export ==
  <<LengthZero, ShowOf("clock"), ShowOf("capture"), Capture("stop"), ShowOf("capture"),
    Capture("export"), Note, Note>>

cleanup ==
  <<LengthZero, ShowOf("capture"), Removal, ShowOf("capture"), Configure, Removal,
    Configure, ShowOf("capture")>>

-----------------------------------------------------------------------------
(* Phase and attempts of a block of text *)

extract_attempt_ids(t) ==
  FoldLeft(LAMBDA ids, l : IF l.k = "attempt" /\ ~Contains(ids, l.id)
                           THEN Append(ids, l.id) ELSE ids, <<>>, t)

(* "monitor capture", " export " and " start" are looked for anywhere in   *)
(* the text, in commands, comments and output alike.                       *)
NamesCapture(t) ==
  Some(t, LAMBDA l : l.k = "capture" \/ IsShow(l, {"capture", "brief"}))
Says(t, word) ==
  Some(t, LAMBDA l : \/ l.k = "capture" /\ l.verb = word
                     \/ l.k = "text" /\ l.says = word)
Shows(t, what) == Some(t, LAMBDA l : IsShow(l, {what}))

(* Deviation: the summary of all groups passes for the detail of one. *)
AnyGroupCommand(t) == Shows(t, "group") \/ Shows(t, "source") \/ Shows(t, "summary")

HasGroupDetail(t) == Shows(t, "group") \/ Shows(t, "source")

infer_transcript_phase(t) ==
  IF Some(t, LAMBDA l : l.k = "remove")             THEN "cleanup"
  ELSE IF NamesCapture(t) /\ Says(t, "export")      THEN "capture_stop_export"
  ELSE IF NamesCapture(t) /\ Says(t, "start")       THEN "capture_start"
  ELSE IF Shows(t, "mgid")                          THEN "ap_evidence"
  ELSE IF HasGroupDetail(t)                         THEN "resolved_group"
  ELSE IF Shows(t, "summary") /\ Shows(t, "history") /\ Shows(t, "brief") THEN "post_failure"
  ELSE IF Shows(t, "summary") /\ Shows(t, "brief")  THEN "active_event"
  ELSE IF Shows(t, "summary") /\ (Shows(t, "history") \/ Shows(t, "mom")) THEN "baseline"
  ELSE IF Shows(t, "history")                       THEN "post_failure"
  ELSE "unassigned"

-----------------------------------------------------------------------------
(* transcript_command_blocks: one pass over the lines.  The lines before   *)
(* the first command belong to no block; "terminal length 0" ends a block  *)
(* and starts the next.                                                    *)

flush(s) ==
  IF s.commands = <<>> THEN [s EXCEPT !.lines = <<>>]
  ELSE [blocks   |-> Append(s.blocks, s.lines),
        lines    |-> <<>>,
        commands |-> <<>>]

(* Deviation: a new block starts without closing the one before it. *)
StepWithoutFlush(s, l) ==
  IF IsCommand(l)
  THEN [s EXCEPT !.lines = IF l.k = "length0" THEN <<l>> ELSE Append(@, l),
                 !.commands = Append(@, l)]
  ELSE IF s.lines # <<>> THEN [s EXCEPT !.lines = Append(@, l)] ELSE s

Step(s, l) ==
  IF l.k = "length0"
  THEN [flush(s) EXCEPT !.lines = <<l>>, !.commands = <<l>>]
  ELSE IF IsCommand(l)
  THEN [s EXCEPT !.lines = Append(@, l), !.commands = Append(@, l)]
  ELSE IF s.lines # <<>> THEN [s EXCEPT !.lines = Append(@, l)] ELSE s

transcript_command_blocks(t) ==
  flush(FoldLeft(Step, [blocks |-> <<>>, lines |-> <<>>, commands |-> <<>>], t)).blocks

\* What the cutting is for: no line after the first command is lost, repeated or moved, and
\* "terminal length 0" stands nowhere but at the beginning of a block.
KeepsItsLines(t) ==
  LET blocks == transcript_command_blocks(t)
      dropped == Len(t) - Len(FlattenSeq(blocks))
  IN  /\ FlattenSeq(blocks) = SubSeq(t, dropped + 1, Len(t))
      /\ \A i \in 1..dropped : ~IsCommand(t[i])
      /\ \A b \in DOMAIN blocks : \A i \in DOMAIN blocks[b] : blocks[b][i].k = "length0" => i = 1

(* _show_blocks: a block per "show" command, up to the next one. *)
ShowBlocks(t) ==
  LET add(bs, l) == IF l.k = "show" THEN Append(bs, <<l>>)
                    ELSE IF bs = <<>> THEN bs
                    ELSE [bs EXCEPT ![Len(bs)] = Append(@, l)]
  IN  FoldLeft(add, <<>>, t)

(* _group_detail_blocks, joined. *)
DetailText(t) ==
  FlattenSeq(SelectSeq(ShowBlocks(t), LAMBDA b : b[1].what \in {"group", "source"}))

-----------------------------------------------------------------------------
(* parse_wlc_snapshot *)

First(s) == IF s = <<>> THEN NoValue ELSE s[1]

FieldOf(t, name) ==
  LET hits == SelectSeq(t, LAMBDA l : l.k = name) IN
  IF hits = <<>> THEN NoValue ELSE hits[1].value

(* The commands are searched for "group" first, then for "source". *)
CommandOf(d) ==
  First(SelectSeq(d, LAMBDA l : IsShow(l, {"group"}))
          \o SelectSeq(d, LAMBDA l : IsShow(l, {"source"})))

Else(a, b) == IF a # NoValue THEN a ELSE b

_extract_group_summary(t) ==
  FoldLeft(LAMBDA rows, l : IF l.k = "row" /\ ~Contains(rows, l) THEN Append(rows, l) ELSE rows,
           <<>>, t)

_extract_receiver_membership(d) ==
  IF Some(d, LAMBDA l : l.k = "receiver") THEN TRUE
  ELSE IF Some(d, LAMBDA l : l.k = "clients") THEN FALSE
  ELSE NoValue

(* The addresses a line shows, and those of the pool in order of appearance. *)
AddressOf(l) ==
  IF l.k = "row" \/ IsShow(l, {"group", "source"}) THEN <<l.group>>
  ELSE IF l.k = "Group" THEN <<l.value>> ELSE <<>>
find_vocera_multicast_ips(t) ==
  SelectSeq(FlattenSeq([i \in DOMAIN t |-> AddressOf(t[i])]), LAMBDA g : g \in Pool)

_vlan_context_state(configured, resolved, group) ==
  IF group # NoValue /\ resolved # NoValue
  THEN IF configured # NoValue /\ resolved # configured
       THEN "configured_group_mismatch" ELSE "resolved_confirmed"
  ELSE IF configured # NoValue THEN "configured_only" ELSE "unresolved"

(* The row of the summary that stands in for a missing detail: the first   *)
(* on the expected VLAN, or the first at all.                              *)
SummaryChoice(rows, expected) ==
  First(SelectSeq(rows, LAMBDA r : expected = NoValue \/ r.vlan = expected) \o rows)

(* Deviation: the group of the summary is taken for resolved when no       *)
(* detail was printed.                                                     *)
ResolveFromSummary(dynamic, vlan, detailed) ==
  [ip |-> dynamic, vlan |-> IF dynamic # NoValue THEN vlan ELSE NoValue]

Resolve(dynamic, vlan, detailed) ==
  [ip   |-> IF detailed THEN dynamic ELSE NoValue,
   vlan |-> IF detailed /\ dynamic # NoValue THEN vlan ELSE NoValue]

(* Deviation: every group of the summary is given the membership that the  *)
(* detail of one group shows.                                              *)
MembershipForAll(item, dynamic, vlan, detailed) == detailed

(* item_is_resolved_detail *)
IsResolvedDetail(item, dynamic, vlan, detailed) ==
  /\ detailed
  /\ item.group = dynamic
  /\ vlan = NoValue \/ item.vlan = vlan

(* What the detail tells: an IP, a VLAN and an index, printed or asked for. *)
DetailOf(detail, command) ==
  LET asked == IF command = NoValue THEN [group |-> NoValue, vlan |-> NoValue] ELSE command IN
  [group |-> Else(FieldOf(detail, "Group"), asked.group),
   vlan  |-> Else(FieldOf(detail, "Vlan"), asked.vlan),
   mgid  |-> FieldOf(detail, "MGID")]

(* Where the detail leaves the group open, the row of the summary fills in. *)
Filled(told, choice) ==
  IF told.group # NoValue \/ choice = NoValue THEN told
  ELSE [group |-> choice.group, vlan |-> Else(told.vlan, choice.vlan),
        mgid |-> Else(told.mgid, choice.mgid)]

(* The observation of one row of the summary.                              *)
Observe(item, told, dynamic, member, detailed, expected) ==
  LET is == IsResolvedDetail(item, dynamic, told.vlan, detailed) IN
  [group |-> item.group, vlan |-> item.vlan, mgid |-> Else(item.mgid, told.mgid),
   resolved_vlan |-> IF is THEN told.vlan ELSE NoValue,
   state |-> _vlan_context_state(expected, IF is THEN told.vlan ELSE NoValue,
                                 IF is THEN item.group ELSE NoValue),
   member |-> IF is THEN member ELSE NoValue]

(* The snapshot, once the detail, the summary and the group are known.     *)
Snapshot(rows, told, dynamic, member, detailed, expected) ==
  LET resolved == Resolve(dynamic, told.vlan, detailed)
      items    == IF rows # <<>> THEN rows
                  ELSE IF dynamic # NoValue THEN <<SummaryRow(dynamic, told.vlan, told.mgid)>> ELSE <<>>
      pooled   == SelectSeq(items, LAMBDA i : i.group \in Pool)
  IN  [group |-> told.group, dynamic |-> dynamic, vlan |-> told.vlan, mgid |-> told.mgid,
       member |-> member,
       resolved_group_ip |-> resolved.ip, resolved_group_vlan |-> resolved.vlan,
       vlan_context_state |-> _vlan_context_state(expected, resolved.vlan, resolved.ip),
       observations |-> [i \in DOMAIN pooled |->
         Observe([pooled[i] EXCEPT !.vlan = Else(@, told.vlan)],
                 told, dynamic, member, detailed, expected)]]

parse_wlc_snapshot(t, expected) ==
  LET Told(detail, rows) ==
        Filled(DetailOf(detail, CommandOf(detail)), SummaryChoice(rows, expected))
      Parsed(detail, rows, told) ==
        Snapshot(rows, told,
                 IF told.group \in Pool THEN told.group ELSE First(find_vocera_multicast_ips(t)),
                 IF detail # <<>> THEN _extract_receiver_membership(detail) ELSE NoValue,
                 detail # <<>>, expected)
  IN  Parsed(DetailText(t), _extract_group_summary(t), Told(DetailText(t), _extract_group_summary(t)))
=============================================================================
