---------------------------- MODULE CaptureSessions ----------------------------
(***************************************************************************)
(* WLC capture sessions and their AP over-the-air capture legs in Study     *)
(* Web (main.py): a session is checked, gets its package directory and then *)
(* its row; a leg is checked against the configuration, gets its row and    *)
(* then its command sheets in the package.  Requests overlap, and the       *)
(* configuration file may be edited at any time.                            *)
(***************************************************************************)
EXTENDS Naturals, Sequences, FiniteSetsExt

CONSTANTS
  CaptureId,      \* session ids
  Base,         \* capture names up to what safe_name replaces
  Client,       \* MAC addresses
  AP,           \* access points
  Call,      \* requests under way at the same time
  MaxCalls,  \* bound: requests that start work
  MaxEdits,     \* bound: edits of the configuration
  MaxPatches    \* bound: PATCH requests

VARIABLES
  session,       \* vocera_media_capture_sessions
  package,   \* package directories
  leg,       \* vocera_media_capture_legs, oldest first
  config,    \* ap_ota_capture and the receiver of wlc_capture
  call,   \* requests between two of their steps
  used,      \* requests, edits and patches so far
  crossed,   \* pairs of sessions no longer protected by the name check
  torn       \* sessions whose sheets two leg requests wrote, or one left

captureVars == <<session, package, leg, config, call, used, crossed, torn>>

Blank     == "blank"
Malformed == "malformed"     \* not twelve hexadecimal digits
Terminal  == {"imported", "aborted"}
State     == {"prepared_not_started", "running", "imported", "aborted"}

Asked  == [base : Base, spaced : BOOLEAN]
NoName == [base |-> Blank, spaced |-> FALSE]
NoSession  == [state |-> "absent", name |-> NoName, asked |-> NoName, receiver |-> Blank]
NoPackage == [made |-> FALSE, start |-> Blank, stop |-> Blank]
NoCall == [op |-> "none", at |-> "none", session |-> Blank, asked |-> NoName,
         mac |-> Blank, ap |-> Blank, edited |-> FALSE]

CapturesInit ==
  /\ session = [s \in CaptureId |-> NoSession]
  /\ package = [s \in CaptureId |-> NoPackage]
  /\ leg = <<>>
  /\ config \in [receiver : Client \cup {Blank}, target : {Blank}, ap : AP, ready : {TRUE}]
  /\ call = [q \in Call |-> NoCall]
  /\ used = [requests |-> 0, edits |-> 0, patches |-> 0]
  /\ crossed = {} /\ torn = {}

media_normalized_mac(m) == IF m \in Client THEN m ELSE Blank
safe_name(n)            == [n EXCEPT !.spaced = FALSE]

Active(s)  == session[s].state \notin Terminal \cup {"absent"}
LegsOf(s)  == {i \in DOMAIN leg : leg[i].session = s}
Working(op, s) == {q \in Call : call[q].op = op /\ call[q].session = s}

BeginCall(q, record) ==
  /\ call[q] = NoCall
  /\ used.requests < MaxCalls /\ used' = [used EXCEPT !.requests = @ + 1]
  /\ call' = [call EXCEPT ![q] = record]

CallGoes(q, step) == call' = [call EXCEPT ![q].at = step]
EndCall(q)     == call' = [call EXCEPT ![q] = NoCall]

-----------------------------------------------------------------------------
(* create_study_media_qoe_wlc_session                                       *)

\* Refused at once for an id that has a row.
CreateSession(q) ==
  \E s \in {t \in CaptureId : session[t] = NoSession} :
    /\ BeginCall(q, [NoCall EXCEPT !.op = "session", !.at = "package", !.session = s])
    /\ crossed' = crossed \cup
         {{s, call[p].session} : p \in {p \in Call : call[p].op = "session"}}
    /\ UNCHANGED <<session, package, leg, config, torn>>

CheckDirectory(q) ==
  /\ call[q].op = "session" /\ call[q].at = "package"
  /\ IF package[call[q].session].made THEN EndCall(q) ELSE CallGoes(q, "name")
  /\ UNCHANGED <<session, package, leg, config, used, crossed, torn>>

\* Deviation: only sessions whose capture is running are asked.
RunningUsersOf(asked) ==
  {s \in CaptureId : session[s].state = "running" /\ session[s].name = asked}

\* Sessions that use the name as the request spells it.
UsersOf(asked) == {s \in CaptureId : Active(s) /\ session[s].name = asked}

\* A blank name is generated, a safe one: the request then asks for that.
CheckName(q) ==
  /\ call[q].op = "session" /\ call[q].at = "name"
  /\ \E asked \in Asked :
       IF UsersOf(asked) # {} THEN EndCall(q)
       ELSE call' = [call EXCEPT ![q].at = "make", ![q].asked = asked]
  /\ UNCHANGED <<session, package, leg, config, used, crossed, torn>>

\* media_wlc_namespace: what the request leaves blank comes from the
\* configuration, and a receiver there must be.
media_wlc_namespace(mac) == IF mac # Blank THEN mac ELSE config.receiver

\* The package is refused before it is written, or written over what is there.
CreatePackage(q) ==
  LET s == call[q].session IN
  /\ call[q].op = "session" /\ call[q].at = "make"
  /\ \/ EndCall(q) /\ UNCHANGED package          \* a field missing, no SCP account
     \/ \E mac \in Client \cup {Blank, Malformed} :
          /\ media_wlc_namespace(mac) # Blank
          /\ package' = [package EXCEPT ![s].made = TRUE]
          /\ call' = [call EXCEPT ![q].at = "insert",
                           ![q].mac = media_normalized_mac(media_wlc_namespace(mac))]
  /\ UNCHANGED <<session, leg, config, used, crossed, torn>>

session_payload(q) ==
  [state |-> "prepared_not_started", name |-> safe_name(call[q].asked),
   asked |-> call[q].asked, receiver |-> call[q].mac]

\* On conflict only the state is set.
media_wlc_insert_session(q) ==
  LET s == call[q].session IN
  /\ call[q].op = "session" /\ call[q].at = "insert"
  /\ session' = [session EXCEPT ![s] =
       IF @ = NoSession THEN session_payload(q)
       ELSE [@ EXCEPT !.state = "prepared_not_started"]]
  /\ EndCall(q)
  /\ UNCHANGED <<package, leg, config, used, crossed, torn>>

\* update_media_qoe_wlc_session: any state may follow any other.
media_wlc_update_session ==
  /\ used.patches < MaxPatches /\ used' = [used EXCEPT !.patches = @ + 1]
  /\ \E s \in {t \in CaptureId : session[t] # NoSession}, to \in State :
       /\ session' = [session EXCEPT ![s].state = to]
       /\ crossed' = IF ~Active(s) /\ to \notin Terminal
                     THEN crossed \cup {{s, t} : t \in CaptureId} ELSE crossed
  /\ UNCHANGED <<package, leg, config, call, torn>>

-----------------------------------------------------------------------------
(* create_media_qoe_ap_ota_leg                                              *)

EditConfig ==
  /\ used.edits < MaxEdits /\ used' = [used EXCEPT !.edits = @ + 1]
  /\ \/ \E c \in Client \cup {Blank} : config' = [config EXCEPT !.target = c]
     \/ \E a \in AP \cup {Blank} : config' = [config EXCEPT !.ap = a]
     \/ config' = [config EXCEPT !.ready = ~@]
  /\ call' = [q \in Call |-> [call[q] EXCEPT !.edited = @ \/ call[q].op = "leg"]]
  /\ UNCHANGED <<session, package, leg, crossed, torn>>

\* media_ap_ota_defaults: the configured receiver, else that of wlc_capture.
TargetMac == IF config.target # Blank THEN config.target ELSE config.receiver

\* The target asked for is the configured one; its session is looked up first.
CreateLeg(q) ==
  \E s \in {t \in CaptureId : session[t] # NoSession} :
    /\ TargetMac # Blank
    /\ BeginCall(q, [NoCall EXCEPT !.op = "leg", !.at = "preflight", !.session = s,
                             !.mac = TargetMac])
    /\ torn' = IF Working("leg", s) # {} THEN torn \cup {s} ELSE torn
    /\ UNCHANGED <<session, package, leg, config, crossed>>

\* Deviation: the receiver of the session is not looked at.
BlockersOfNoSession(s) ==
  {b \in {"target", "ap", "ready"} :
     CASE b = "target" -> TargetMac = Blank
       [] b = "ap"     -> config.ap = Blank
       [] OTHER        -> ~config.ready}

\* media_ap_ota_preflight_payload, read from the configuration once more;
\* "ready" stands for the confirmations of the controller, the AP, the site
\* lock, the classifiers and the drop zone.
Blockers(s) ==
  {b \in {"target", "receiver", "ap", "ready"} :
     CASE b = "target"   -> TargetMac = Blank
       [] b = "receiver" -> /\ session[s].receiver # Blank /\ TargetMac # Blank
                            /\ session[s].receiver # TargetMac
       [] b = "ap"       -> config.ap = Blank
       [] OTHER          -> ~config.ready}

\* An access point other than the serving one needs a reason.
Preflight(q) ==
  /\ call[q].op = "leg" /\ call[q].at = "preflight"
  /\ \E asked \in AP \cup {Blank}, reason \in BOOLEAN :
       LET ap == IF asked # Blank THEN asked ELSE config.ap IN
       IF Blockers(call[q].session) # {} \/ (ap # config.ap /\ ~reason)
       THEN EndCall(q)
       ELSE call' = [call EXCEPT ![q].at = "insert", ![q].ap = ap]
  /\ UNCHANGED <<session, package, leg, config, used, crossed, torn>>

InsertLeg(q) ==
  /\ call[q].op = "leg" /\ call[q].at = "insert"
  /\ leg' = Append(leg, [session |-> call[q].session, client |-> call[q].mac,
                         ap |-> call[q].ap, edited |-> call[q].edited])
  /\ CallGoes(q, "start")
  /\ UNCHANGED <<session, package, config, used, crossed, torn>>

\* Deviation: the loop over the sheets ends with the first of them.
WriteStartSheet(q) ==
  /\ call[q].op = "leg" /\ call[q].at \in {"start", "stop"}
  /\ package' = [package EXCEPT ![call[q].session].start = call[q].ap]
  /\ EndCall(q)
  /\ UNCHANGED <<session, leg, config, used, crossed, torn>>

\* media_ap_ota_write_command_sheets: the start sheet before the stop sheet.
WriteLegSheet(q) ==
  /\ call[q].op = "leg" /\ call[q].at \in {"start", "stop"}
  /\ package' = [package EXCEPT ![call[q].session][call[q].at] = call[q].ap]
  /\ IF call[q].at = "start" THEN CallGoes(q, "stop") ELSE EndCall(q)
  /\ UNCHANGED <<session, leg, config, used, crossed, torn>>

\* The process is stopped or its statement fails.
GiveUpLeg(q) ==
  /\ call[q].at \in {"insert", "start", "stop"}
  /\ torn' = IF call[q].at # "insert" THEN torn \cup {call[q].session} ELSE torn
  /\ EndCall(q)
  /\ UNCHANGED <<session, package, leg, config, used, crossed>>

CapturesNext ==
  \/ \E q \in Call :
       \/ CreateSession(q) \/ CheckDirectory(q) \/ CheckName(q)
       \/ CreatePackage(q) \/ media_wlc_insert_session(q)
       \/ CreateLeg(q) \/ Preflight(q) \/ InsertLeg(q) \/ WriteLegSheet(q) \/ GiveUpLeg(q)
  \/ media_wlc_update_session \/ EditConfig

CapturesSpec == CapturesInit /\ [][CapturesNext]_captureVars

-----------------------------------------------------------------------------
(* Properties.                                                              *)

\* Two active sessions whose creations did not overlap, none of them brought
\* back from imported or aborted, never share the capture name that the
\* controller is told, as long as both asked for a name safe_name keeps.
CaptureNamesApart ==
  \A s, t \in CaptureId :
    /\ s # t /\ Active(s) /\ Active(t) /\ {s, t} \notin crossed
    /\ ~session[s].asked.spaced /\ ~session[t].asked.spaced
    => session[s].name # session[t].name

\* The same of every name: "Study Web also rejects reuse of a capture name by
\* any non-terminal session" (vocera-wlc-continuous-capture-runbook.md:275-276).
CaptureNameIsNotReused ==
  \A s, t \in CaptureId :
    s # t /\ Active(s) /\ Active(t) /\ {s, t} \notin crossed => session[s].name # session[t].name

\* A leg captures the receiver of its session, unless the configuration was
\* edited while the leg was being prepared: the target is taken from a first
\* reading of it and checked in a second.
LegsAreOfTheirReceiver ==
  \A i \in DOMAIN leg :
    leg[i].edited \/ session[leg[i].session].receiver \in {Blank, leg[i].client}

\* With no leg request under way, the start and the stop sheet of a package
\* are those of the session's newest leg, unless two requests wrote them at
\* once or one ended half way.
SheetsAreOfTheNewestLeg ==
  \A s \in CaptureId \ torn :
    Working("leg", s) = {} =>
      LET newest == IF LegsOf(s) = {} THEN Blank ELSE leg[Max(LegsOf(s))].ap
      IN package[s].start = newest /\ package[s].stop = newest

\* A leg captures the receiver of its session, and the sheets of the package are
\* those of the newest leg (main.py 5174-5227).
LegsFitTheirSession == LegsAreOfTheirReceiver /\ SheetsAreOfTheNewestLeg
=============================================================================
