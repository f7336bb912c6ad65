--------------------------- MODULE SatLinkProofs ----------------------------
(***************************************************************************)
(* What SatLink promises, for every interval, timeout and limit: types,    *)
(* when the feeder gives up, that heartbeats are sent, that the label      *)
(* tells the truth and that pictures are coherent.                         *)
(***************************************************************************)
EXTENDS SatLink, TLAPS

-----------------------------------------------------------------------------
(***************************************************************************)
(* The feeder.  Its state changes in its own rounds, on a signal, and in   *)
(* its timer when time passes.                                             *)
(***************************************************************************)
\* The count of failures is that of the rounds without a snapshot; it stops
\* the feeder at the limit.  heartbeat_counter may run ahead of quiet: a
\* snapshot resets only the latter.
FeederInv ==
  /\ FeederTypeOK
  /\ consecutive_failures = dry
  /\ quiet <= heartbeat_counter
  /\ pc # "stopped" => dry < MaxFailures
  /\ pc = "stopped" /\ g_running => dry = MaxFailures

LEMMA FeederInit == Init => FeederInv
BY LinkAssumption DEF Init, FeederInv, FeederTypeOK

\* What a round does to the counts, whatever it was.
LEMMA FeederRound ==
  ASSUME FeederInv, pc = "fetch", NEW failed \in BOOLEAN, Round(failed),
         heartbeat_counter' \in 0 .. HeartbeatEvery - 1, quiet' \in Nat,
         quiet' <= heartbeat_counter'
  PROVE  FeederInv'
<1>1. /\ consecutive_failures' = (IF failed THEN consecutive_failures + 1 ELSE 0)
      /\ dry' = consecutive_failures'
  BY DEF FeederInv, Round
<1>2. /\ dry' \in 0 .. MaxFailures
      /\ pc' # "stopped" => dry' < MaxFailures
      /\ pc' = "stopped" => dry' = MaxFailures
  BY <1>1, LinkAssumption DEF FeederInv, FeederTypeOK, Round
<1>3. pc' \in {"fetch", "sleep", "stopped"} /\ timer' = 0 /\ g_running' = g_running
  BY DEF Round
<1> QED
  BY <1>1, <1>2, <1>3 DEF FeederInv, FeederTypeOK

LEMMA FeederNext == FeederInv /\ cable \in BOOLEAN /\ [Next]_vars => FeederInv'
<1> SUFFICES ASSUME FeederInv, cable \in BOOLEAN, [Next]_vars PROVE FeederInv'
  OBVIOUS
<1>0. ASSUME UNCHANGED feeder PROVE FeederInv'
  BY <1>0 DEF FeederInv, FeederTypeOK, feeder
<1>1. ASSUME NEW s \in Statuses, SendSnapshot(s) PROVE FeederInv'
  <2>1. /\ heartbeat_counter' \in 0 .. HeartbeatEvery - 1 /\ quiet' \in Nat
        /\ quiet' <= heartbeat_counter'
    BY <1>1, LinkAssumption DEF SendSnapshot, FeederInv, FeederTypeOK
  <2>2. pc = "fetch" /\ Round(~cable) /\ (~cable) \in BOOLEAN
    BY <1>1 DEF SendSnapshot, http_get
  <2> QED
    BY <2>1, <2>2, FeederRound
<1>2. CASE ParseError
  <2>1. /\ heartbeat_counter' \in 0 .. HeartbeatEvery - 1 /\ quiet' \in Nat
        /\ quiet' <= heartbeat_counter'
    BY <1>2 DEF ParseError, FeederInv, FeederTypeOK
  <2>2. pc = "fetch" /\ Round(TRUE)
    BY <1>2 DEF ParseError, http_get
  <2> QED
    BY <2>1, <2>2, FeederRound
<1>3. CASE FetchFailed
  <2>1. /\ heartbeat_counter' \in 0 .. HeartbeatEvery - 1 /\ quiet' \in Nat
        /\ quiet' <= heartbeat_counter'
    BY <1>3, LinkAssumption DEF FetchFailed, HeartbeatDue, FeederInv, FeederTypeOK
  <2>2. pc = "fetch" /\ Round(TRUE)
    BY <1>3 DEF FetchFailed, http_get
  <2> QED
    BY <2>1, <2>2, FeederRound
<1>4. CASE Wake
  BY <1>4 DEF Wake, FeederInv, FeederTypeOK
<1>5. CASE signal_handler
  BY <1>5 DEF signal_handler, FeederInv, FeederTypeOK
<1>6. CASE Tick
  BY <1>6 DEF Tick, FeederInv, FeederTypeOK
<1>7. CASE receiver_task \/ sat_ui_update \/ ApiChanges \/ Unplug \/ UNCHANGED vars
  <2>1. UNCHANGED feeder
    BY <1>7 DEF receiver_task, process_frame, UpdateAlerts, UpdateIfaces, CheckConnection,
                sat_ui_update, ShowNoLink, ShowAlerts, ShowGauges, ApiChanges, Unplug, vars
  <2> QED
    BY <1>0, <2>1
<1> QED
  BY <1>1, <1>2, <1>3, <1>4, <1>5, <1>6, <1>7 DEF Next, main

LEMMA CableType == Spec => [](cable \in BOOLEAN)
<1>1. Init => cable \in BOOLEAN
  BY DEF Init
<1>2. cable \in BOOLEAN /\ [Next]_vars => (cable \in BOOLEAN)'
  BY DEF Next, main, SendSnapshot, ParseError, FetchFailed, Round, Wake, signal_handler, Tick,
         receiver_task, process_frame, UpdateAlerts, UpdateIfaces, CheckConnection,
         sat_ui_update, ShowNoLink, ShowAlerts, ShowGauges, ApiChanges, Unplug, vars, world
<1> QED
  BY <1>1, <1>2, PTL DEF Spec

LEMMA FeederCorrect == Spec => []FeederInv
BY FeederInit, FeederNext, CableType, PTL DEF Spec

\* The feeder stops by itself exactly after MaxFailures rounds in a row
\* without a snapshot, be it the fetch, the parser or the port that fails.
THEOREM FeederGivesUp == Spec => []GivesUpInTime
<1>1. FeederInv => GivesUpInTime
  BY DEF FeederInv, GivesUpInTime
<1> QED
  BY <1>1, FeederCorrect, PTL

\* Fewer than HeartbeatEvery fetches in a row fail without a write to the port.
THEOREM HeartbeatsCorrect == Spec => []HeartbeatsAreSent
<1>1. FeederInv => HeartbeatsAreSent
  BY LinkAssumption DEF FeederInv, FeederTypeOK, HeartbeatsAreSent
<1> QED
  BY <1>1, FeederCorrect, PTL

-----------------------------------------------------------------------------
(***************************************************************************)
(* The label.                                                              *)
(***************************************************************************)
\* Who has run in this unit decides how far label, connected and age can be
\* apart: a connection that was looked at is within the timeout, one that was
\* not may be a unit over it; a label that was painted in this unit is as good
\* as the connection was, an older one a unit worse.
ClockInv ==
  /\ age \in 0 .. AgeCap
  /\ rx # "idle" => age = 0
  /\ ~connected => age > Timeout
  /\ connected => age <= Timeout + 1
  /\ connected /\ polled => age <= Timeout

LabelInv ==
  /\ ui = "gauges" => label = "UP" /\ age <= Timeout + 1
  /\ label = "UP" => age <= Timeout + 2
  /\ label = "NO LINK" => age <= 1 \/ age > Timeout

PaintInv ==
  painted => /\ label = "UP" => age <= Timeout + 1
             /\ label = "NO LINK" => age = 0 \/ age > Timeout

clock == <<rx, age, connected, polled>>
paint == <<age, ui, painted, label>>

LEMMA TimeoutType == Timeout \in Nat
BY LinkAssumption

LEMMA LabelInit == Init => ClockInv /\ LabelInv /\ PaintInv
<1> SUFFICES ASSUME Init PROVE ClockInv /\ LabelInv /\ PaintInv
  OBVIOUS
<1>1. ClockInv
  BY TimeoutType DEF Init, ClockInv, AgeCap
<1>2. LabelInv
  BY TimeoutType DEF Init, LabelInv, AgeCap
<1>3. PaintInv
  BY DEF Init, PaintInv
<1> QED
  BY <1>1, <1>2, <1>3

LEMMA ClockNext == ClockInv /\ [Next]_vars => ClockInv'
<1> SUFFICES ASSUME ClockInv, [Next]_vars PROVE ClockInv'
  OBVIOUS
<1>0. ASSUME UNCHANGED clock PROVE ClockInv'
  BY <1>0 DEF ClockInv, clock
<1>1. ASSUME NEW f \in Frame, process_frame(f) PROVE ClockInv'
  BY <1>1, TimeoutType DEF process_frame, ClockInv, AgeCap
<1>2. CASE UpdateAlerts
  BY <1>2 DEF UpdateAlerts, ClockInv
<1>3. CASE UpdateIfaces
  BY <1>3, TimeoutType DEF UpdateIfaces, ClockInv, AgeCap
<1>4. CASE CheckConnection
  <2>1. connected' => connected /\ ~(age > Timeout)
    BY <1>4 DEF CheckConnection, Expired
  <2>2. ~connected' => ~connected \/ age > Timeout
    BY <1>4 DEF CheckConnection, Expired
  <2>3. UNCHANGED <<rx, age>>
    BY <1>4 DEF CheckConnection
  <2> QED
    BY <2>1, <2>2, <2>3, TimeoutType DEF ClockInv, AgeCap
<1>5. CASE Tick
  BY <1>5, TimeoutType DEF Tick, ClockInv, AgeCap
<1>6. CASE main \/ signal_handler \/ sat_ui_update \/ ApiChanges \/ Unplug \/ UNCHANGED vars
  <2>1. UNCHANGED clock
    BY <1>6 DEF main, SendSnapshot, ParseError, FetchFailed, Round, Wake, signal_handler,
                sat_ui_update, ShowNoLink, ShowAlerts, ShowGauges, ApiChanges, Unplug,
                vars, receiver, s_data, clock
  <2> QED
    BY <1>0, <2>1
<1> QED
  BY <1>1, <1>2, <1>3, <1>4, <1>5, <1>6 DEF Next, receiver_task

LEMMA LabelNext ==
  ClockInv /\ LabelInv /\ PaintInv /\ [Next]_vars => LabelInv' /\ PaintInv'
<1>s. SUFFICES ASSUME ClockInv, LabelInv, PaintInv, [Next]_vars PROVE LabelInv' /\ PaintInv'
  OBVIOUS
<1>a. age \in 0 .. AgeCap
  BY <1>s DEF ClockInv
<1>0. ASSUME UNCHANGED paint PROVE LabelInv' /\ PaintInv'
  BY <1>0, <1>s DEF LabelInv, PaintInv, paint
<1>1. ASSUME NEW f \in Frame, process_frame(f) PROVE LabelInv' /\ PaintInv'
  <2>1. age' = 0 /\ UNCHANGED <<ui, painted, label>>
    BY <1>1 DEF process_frame, display
  <2>2. LabelInv'
    <3>1. ui' = "gauges" => label' = "UP"
      BY <2>1, <1>s DEF LabelInv
    <3> QED
      BY <2>1, <3>1, TimeoutType DEF LabelInv
  <2>3. PaintInv'
    <3>1. age' = 0
      BY <2>1
    <3> QED
      BY <3>1, TimeoutType DEF PaintInv
  <2> QED
    BY <2>2, <2>3
<1>2. CASE ShowNoLink
  <2>1. age > Timeout
    BY <1>2, <1>s DEF ShowNoLink, ClockInv
  <2>2. label' = "NO LINK" /\ ui' # "gauges" /\ age' = age
    BY <1>2 DEF ShowNoLink, receiver, s_data
  <2>3. LabelInv'
    BY <2>1, <2>2 DEF LabelInv
  <2>4. PaintInv'
    BY <2>1, <2>2 DEF PaintInv
  <2> QED
    BY <2>3, <2>4
<1>3. CASE ShowAlerts
  <2>1. age <= Timeout + 1
    BY <1>3, <1>s DEF ShowAlerts, ClockInv
  <2>2. label' = "UP" /\ age' = age
    BY <1>3 DEF ShowAlerts, receiver, s_data
  <2>3. LabelInv'
    BY <2>1, <2>2, <1>a, TimeoutType DEF LabelInv, AgeCap
  <2>4. PaintInv'
    BY <2>1, <2>2 DEF PaintInv
  <2> QED
    BY <2>3, <2>4
<1>4. CASE ShowGauges
  <2>1. label = "UP" /\ age <= Timeout + 1
    BY <1>4, <1>s DEF ShowGauges, LabelInv
  <2>2. label' = label /\ ui' = "idle" /\ age' = age
    BY <1>4 DEF ShowGauges, receiver, s_data
  <2>3. LabelInv'
    BY <2>1, <2>2, <1>a, TimeoutType DEF LabelInv, AgeCap
  <2>4. PaintInv'
    BY <2>1, <2>2 DEF PaintInv
  <2> QED
    BY <2>3, <2>4
<1>5. CASE Tick
  <2>1. /\ label = "UP" => age <= Timeout + 1
        /\ label = "NO LINK" => age = 0 \/ age > Timeout
    BY <1>5, <1>s DEF Tick, PaintInv
  <2>2. label' = label /\ ui' = "idle" /\ age' = (IF age < AgeCap THEN age + 1 ELSE age)
    BY <1>5 DEF Tick
  <2>3. LabelInv'
    <3>1. label' = "UP" => age' <= Timeout + 2
      <4>1. ASSUME age <= Timeout + 1 PROVE age' <= Timeout + 2
        BY <4>1, <2>2, <1>a, TimeoutType DEF AgeCap
      <4> QED
        BY <4>1, <2>1, <2>2
    <3>2. label' = "NO LINK" => age' <= 1 \/ age' > Timeout
      <4>1. ASSUME age = 0 \/ age > Timeout PROVE age' <= 1 \/ age' > Timeout
        BY <4>1, <2>2, <1>a, TimeoutType DEF AgeCap
      <4> QED
        BY <4>1, <2>1, <2>2
    <3> QED
      BY <2>2, <3>1, <3>2 DEF LabelInv
  <2>4. PaintInv'
    BY <1>5 DEF Tick, PaintInv
  <2> QED
    BY <2>3, <2>4
<1>6. CASE \/ main \/ signal_handler \/ UpdateAlerts \/ UpdateIfaces \/ CheckConnection
           \/ ApiChanges \/ Unplug \/ UNCHANGED vars
  <2>1. UNCHANGED paint
    BY <1>6 DEF main, SendSnapshot, ParseError, FetchFailed, Round, Wake, signal_handler,
                UpdateAlerts, UpdateIfaces, CheckConnection, ApiChanges, Unplug,
                vars, receiver, s_data, display, paint
  <2> QED
    BY <1>0, <2>1
<1> QED
  BY <1>s, <1>1, <1>2, <1>3, <1>4, <1>5, <1>6 DEF Next, receiver_task, sat_ui_update

\* UP is shown only within the timeout of a frame and NO LINK only beyond it,
\* up to the periods of check and paint.
THEOREM LabelCorrect == Spec => []LabelTellsLink
<1>1. LabelInv => LabelTellsLink
  BY DEF LabelInv, LabelTellsLink
<1>2. Spec => [](ClockInv /\ LabelInv /\ PaintInv)
  BY LabelInit, ClockNext, LabelNext, PTL DEF Spec
<1> QED
  BY <1>1, <1>2, PTL

-----------------------------------------------------------------------------
(***************************************************************************)
(* The picture.                                                            *)
(***************************************************************************)
\* Between two snapshots the parts of s_data belong together; while one is
\* written, the alerts already belong to the incoming one.
DataInv ==
  /\ rx = "idle" \/ rx = "alerts" => FromOne(alerts, ifaces)
  /\ rx = "ifaces" => FromOne(alerts, incoming)

\* In the middle of an undisturbed paint, the bar is that of s_data.
HalfPainted == ui = "gauges" /\ ~overlap => FromOne(bar, ifaces)

PictureInv == DataInv /\ HalfPainted /\ PictureIsCoherent

data    == <<rx, incoming, alerts, ifaces>>
picture == <<ui, label, bar, gauges, overlap>>

LEMMA PictureInit == Init => PictureInv
<1> SUFFICES ASSUME Init PROVE PictureInv
  OBVIOUS
<1>1. FromOne(alerts, ifaces) /\ rx = "idle" /\ ui = "idle" /\ label # "UP"
  BY DEF Init, FromOne
<1> QED
  BY <1>1 DEF PictureInv, DataInv, HalfPainted, PictureIsCoherent

LEMMA PictureNext == PictureInv /\ [Next]_vars => PictureInv'
<1>s. SUFFICES ASSUME PictureInv, [Next]_vars PROVE PictureInv'
  OBVIOUS
<1>p. ASSUME UNCHANGED <<ifaces, picture>> PROVE HalfPainted' /\ PictureIsCoherent'
  BY <1>p, <1>s DEF picture, PictureInv, HalfPainted, PictureIsCoherent, FromOne
<1>d. ASSUME UNCHANGED data PROVE DataInv'
  BY <1>d, <1>s DEF data, PictureInv, DataInv, FromOne
<1>1. ASSUME NEW f \in Frame, process_frame(f) PROVE PictureInv'
  <2>1. rx = "idle" /\ (rx' = "idle" \/ rx' = "alerts") /\ UNCHANGED <<alerts, ifaces>>
    BY <1>1 DEF process_frame
  <2>2. DataInv'
    BY <2>1, <1>s DEF PictureInv, DataInv, FromOne
  <2>3. UNCHANGED <<ifaces, picture>>
    BY <1>1 DEF process_frame, display, picture
  <2> QED
    BY <2>2, <2>3, <1>p DEF PictureInv
<1>2. CASE UpdateAlerts
  <2>1. PICK s \in incoming : alerts' = EncodeAlerts(s)
    BY <1>2 DEF UpdateAlerts
  <2>2. rx' = "ifaces" /\ incoming' = incoming
    BY <1>2 DEF UpdateAlerts
  <2>3. DataInv'
    BY <2>1, <2>2 DEF DataInv, FromOne
  <2>4. ui = "gauges" => overlap'
    BY <1>2 DEF UpdateAlerts
  <2>5. (overlap => overlap') /\ UNCHANGED <<ui, label, bar, gauges, ifaces>>
    BY <1>2 DEF UpdateAlerts, display
  <2>6. HalfPainted' /\ PictureIsCoherent'
    BY <2>4, <2>5, <1>s DEF PictureInv, HalfPainted, PictureIsCoherent, FromOne
  <2> QED
    BY <2>3, <2>6 DEF PictureInv
<1>3. CASE UpdateIfaces
  <2>1. rx = "ifaces" /\ rx' = "idle" /\ ifaces' = incoming /\ alerts' = alerts
    BY <1>3 DEF UpdateIfaces
  <2>2. DataInv'
    BY <2>1, <1>s DEF PictureInv, DataInv, FromOne
  <2>3. ui = "gauges" => overlap'
    BY <1>3 DEF UpdateIfaces
  <2>4. (overlap => overlap') /\ UNCHANGED <<ui, label, bar, gauges>>
    BY <1>3 DEF UpdateIfaces, display
  <2>5. HalfPainted' /\ PictureIsCoherent'
    BY <2>3, <2>4, <1>s DEF PictureInv, HalfPainted, PictureIsCoherent, FromOne
  <2> QED
    BY <2>2, <2>5 DEF PictureInv
<1>4. CASE ShowNoLink
  <2>1. DataInv'
    BY <1>4, <1>d DEF ShowNoLink, receiver, s_data, data
  <2>2. ui' = "idle" /\ label' = "NO LINK"
    BY <1>4 DEF ShowNoLink
  <2> QED
    BY <2>1, <2>2 DEF PictureInv, HalfPainted, PictureIsCoherent
<1>5. CASE ShowAlerts
  <2>1. DataInv'
    BY <1>5, <1>d DEF ShowAlerts, receiver, s_data, data
  <2>2. ui' = "gauges" /\ bar' = alerts /\ ifaces' = ifaces /\ (~overlap' => rx = "idle")
    BY <1>5 DEF ShowAlerts, receiver, s_data
  <2>3. HalfPainted'
    BY <2>2, <1>s DEF PictureInv, DataInv, HalfPainted, FromOne
  <2> QED
    BY <2>1, <2>2, <2>3 DEF PictureInv, PictureIsCoherent
<1>6. CASE ShowGauges
  <2>1. DataInv'
    BY <1>6, <1>d DEF ShowGauges, receiver, s_data, data
  <2>2. ui = "gauges" /\ ui' = "idle" /\ gauges' = ifaces /\ bar' = bar /\ overlap' = overlap
    BY <1>6 DEF ShowGauges
  <2>3. PictureIsCoherent'
    BY <2>2, <1>s DEF PictureInv, HalfPainted, PictureIsCoherent, FromOne
  <2> QED
    BY <2>1, <2>2, <2>3 DEF PictureInv, HalfPainted
<1>7. CASE \/ main \/ signal_handler \/ CheckConnection \/ ApiChanges \/ Unplug \/ Tick
           \/ UNCHANGED vars
  <2>1. UNCHANGED data /\ UNCHANGED <<ifaces, picture>>
    BY <1>7 DEF main, SendSnapshot, ParseError, FetchFailed, Round, Wake, signal_handler,
                CheckConnection, ApiChanges, Unplug, Tick, vars, receiver, s_data, display,
                data, picture
  <2> QED
    BY <2>1, <1>d, <1>p DEF PictureInv
<1> QED
  BY <1>s, <1>1, <1>2, <1>3, <1>4, <1>5, <1>6, <1>7 DEF Next, receiver_task, sat_ui_update

\* Without a lock, a picture mixes two snapshots only if the receiver was
\* writing one while it was painted.
THEOREM PictureCorrect == Spec => []PictureIsCoherent
<1>1. Spec => []PictureInv
  BY PictureInit, PictureNext, PTL DEF Spec
<1>2. PictureInv => PictureIsCoherent
  BY DEF PictureInv
<1> QED
  BY <1>1, <1>2, PTL

-----------------------------------------------------------------------------
(***************************************************************************)
(* Types.  Those of the feeder and of age are part of the invariants above *)
(***************************************************************************)
WorldTypeOK == api \in {"answers", "cut", "silent"} /\ cable \in BOOLEAN /\ line \subseteq Frame

DataTypeOK ==
  /\ rx \in {"idle", "alerts", "ifaces"} /\ polled \in BOOLEAN /\ connected \in BOOLEAN
  /\ incoming \subseteq Statuses /\ ifaces \subseteq Statuses /\ alerts \in Report

OtherTypes == WorldTypeOK /\ DataTypeOK /\ DisplayTypeOK

LEMMA NoAlerts == EncodeAlerts({}) \in Report
BY LinkAssumption DEF Report

LEMMA OtherInit == Init => OtherTypes
BY NoAlerts DEF Init, OtherTypes, WorldTypeOK, DataTypeOK, DisplayTypeOK

LEMMA OtherNext == OtherTypes /\ [Next]_vars => OtherTypes'
<1>s. SUFFICES ASSUME OtherTypes, [Next]_vars PROVE OtherTypes'
  OBVIOUS
<1>w. ASSUME UNCHANGED <<world, line>> PROVE WorldTypeOK'
  BY <1>w, <1>s DEF OtherTypes, WorldTypeOK, world
<1>r. ASSUME UNCHANGED receiver PROVE DataTypeOK'
  BY <1>r, <1>s DEF OtherTypes, DataTypeOK, receiver, s_data
<1>d. ASSUME UNCHANGED <<display, overlap>> PROVE DisplayTypeOK'
  BY <1>d, <1>s DEF OtherTypes, DisplayTypeOK, display
<1>1. ASSUME NEW f \in Frame, line' \in {line, line \cup {f}}, UNCHANGED world
      PROVE  WorldTypeOK'
  BY <1>1, <1>s DEF OtherTypes, WorldTypeOK, world
<1>2. ASSUME NEW s \in Statuses, SendSnapshot(s) PROVE OtherTypes'
  <2>1. Snapshot(s) \in Frame
    BY DEF Frame
  <2>2. line' \in {line, line \cup {Snapshot(s)}} /\ UNCHANGED <<world, receiver, display, overlap>>
    BY <1>2 DEF SendSnapshot, serial_write, Round
  <2> QED
    BY <2>1, <2>2, <1>1, <1>r, <1>d DEF OtherTypes
<1>3. CASE FetchFailed
  <2>1. HEARTBEAT \in Frame
    BY DEF Frame
  <2>2. line' \in {line, line \cup {HEARTBEAT}} /\ UNCHANGED <<world, receiver, display, overlap>>
    BY <1>3 DEF FetchFailed, serial_write, Round
  <2> QED
    BY <2>1, <2>2, <1>1, <1>r, <1>d DEF OtherTypes
<1>4. ASSUME NEW f \in Frame, process_frame(f) PROVE OtherTypes'
  <2>1. f # HEARTBEAT => f.status \in Statuses
    BY DEF Frame, Snapshot
  <2>2. DataTypeOK'
    BY <1>4, <2>1, <1>s DEF process_frame, OtherTypes, DataTypeOK
  <2>3. WorldTypeOK' /\ DisplayTypeOK'
    BY <1>4, <1>s, <1>d DEF process_frame, OtherTypes, WorldTypeOK, world
  <2> QED
    BY <2>2, <2>3 DEF OtherTypes
<1>5. CASE UpdateAlerts
  <2>1. PICK s \in incoming : alerts' = EncodeAlerts(s)
    BY <1>5 DEF UpdateAlerts
  <2>2. alerts' \in Report
    BY <2>1, <1>s DEF OtherTypes, DataTypeOK, Report
  <2>3. DataTypeOK' /\ WorldTypeOK'
    BY <1>5, <2>2, <1>s, <1>w DEF UpdateAlerts, OtherTypes, DataTypeOK
  <2>4. DisplayTypeOK'
    BY <1>5, <1>s DEF UpdateAlerts, OtherTypes, DisplayTypeOK, display
  <2> QED
    BY <2>3, <2>4 DEF OtherTypes
<1>6. CASE UpdateIfaces
  <2>1. DataTypeOK' /\ WorldTypeOK'
    BY <1>6, <1>s, <1>w DEF UpdateIfaces, OtherTypes, DataTypeOK
  <2>2. DisplayTypeOK'
    BY <1>6, <1>s DEF UpdateIfaces, OtherTypes, DisplayTypeOK, display
  <2> QED
    BY <2>1, <2>2 DEF OtherTypes
<1>7. CASE CheckConnection
  BY <1>7, <1>s, <1>w, <1>d DEF CheckConnection, OtherTypes, DataTypeOK
<1>8. CASE ShowNoLink \/ ShowAlerts \/ ShowGauges
  <2>1. DisplayTypeOK'
    BY <1>8, <1>s DEF ShowNoLink, ShowAlerts, ShowGauges, OtherTypes, DisplayTypeOK, DataTypeOK
  <2> QED
    BY <1>8, <2>1, <1>w, <1>r DEF ShowNoLink, ShowAlerts, ShowGauges, OtherTypes
<1>9. CASE ApiChanges \/ Unplug
  <2>1. WorldTypeOK'
    BY <1>9, <1>s DEF ApiChanges, Unplug, OtherTypes, WorldTypeOK
  <2> QED
    BY <1>9, <2>1, <1>r, <1>d DEF ApiChanges, Unplug, OtherTypes
<1>10. CASE Tick
  <2>1. DataTypeOK' /\ DisplayTypeOK'
    BY <1>10, <1>s DEF Tick, OtherTypes, DataTypeOK, DisplayTypeOK
  <2> QED
    BY <1>10, <2>1, <1>w DEF Tick, OtherTypes
<1>11. CASE ParseError \/ Wake \/ signal_handler \/ UNCHANGED vars
  <2>1. UNCHANGED <<world, line, receiver, display, overlap>>
    BY <1>11 DEF ParseError, Round, Wake, signal_handler, vars
  <2> QED
    BY <2>1, <1>w, <1>r, <1>d DEF OtherTypes
<1> QED
  BY <1>s, <1>2, <1>3, <1>4, <1>5, <1>6, <1>7, <1>8, <1>9, <1>10, <1>11
  DEF Next, main, receiver_task, sat_ui_update

\* Every variable stays in its type; in particular the two counters of the
\* feeder never pass their limits.
THEOREM TypeCorrect == Spec => []TypeOK
<1>1. Spec => []OtherTypes
  BY OtherInit, OtherNext, PTL DEF Spec
<1>2. Spec => []ClockInv
  BY LabelInit, ClockNext, PTL DEF Spec
<1>3. OtherTypes /\ ClockInv /\ FeederInv => TypeOK
  BY DEF OtherTypes, WorldTypeOK, DataTypeOK, ClockInv, FeederInv, ReceiverTypeOK, TypeOK
<1> QED
  BY <1>1, <1>2, <1>3, FeederCorrect, PTL
=============================================================================
