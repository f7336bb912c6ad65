------------------------------ MODULE SatLink -------------------------------
(***************************************************************************)
(* The satellite display end to end: the loop of the feeder                *)
(* (satellite/host/src/sat_feeder.c), the line, and the two tasks of the   *)
(* firmware, the receiver that writes s_data and the LVGL loop that paints *)
(* it, which share s_data without a lock.                                  *)
(*                                                                         *)
(* Frames are whole here; SatReceiver shows how they are found.  Time      *)
(* passes in units; in each of them, at any moment, the receiver looks at  *)
(* the clock and the display is painted.  s_data.last_rx_time is kept as   *)
(* the time that has passed since, which is all that is read of it, and    *)
(* beyond the timeout it is not told apart.  Of what the monitor reports   *)
(* only the alerts are told apart.                                         *)
(***************************************************************************)
EXTENDS Integers, FiniteSetsExt

CONSTANTS
  Statuses,        \* states of the monitor: severities of its active alerts
  Interval,        \* interval_ms, in units
  Timeout,         \* CONNECTION_TIMEOUT_MS, in units
  MaxFetch,        \* the longest an http_get takes, in units
  MaxFailures,     \* MAX_CONSECUTIVE_FAILURES
  HeartbeatEvery   \* failures between heartbeats

\* alert_severity_t of the monitor, copied into the protocol's max_severity,
\* whose sat_severity_t has one value more, SAT_NONE.
\* The display therefore takes each severity for the one below it.
INFO         == 0
WARNING      == 1
CRITICAL     == 2
SAT_NONE     == 0

ASSUME LinkAssumption ==
  /\ Statuses \subseteq SUBSET {INFO, WARNING, CRITICAL} /\ {} \in Statuses
  /\ Interval \in Nat \ {0} /\ Timeout \in Nat \ {0} /\ MaxFetch \in Nat
  /\ MaxFailures \in Nat \ {0} /\ HeartbeatEvery \in Nat \ {0}

\* The bound on age, beyond which nothing depends on it.
AgeCap == Timeout + 3

HEARTBEAT   == [type |-> "heartbeat"]
Snapshot(s) == [type |-> "snapshot", status |-> s]
Frame       == {HEARTBEAT} \cup {Snapshot(s) : s \in Statuses}

VARIABLES
  (* The monitor and the cable. *)
  api,           \* what GET /api/v1/status brings
  cable,         \* writes to the serial port succeed
  line,          \* frames under way
  (* The feeder. *)
  pc,            \* where main is
  timer,         \* units spent there
  g_running,     \* no signal yet
  consecutive_failures,
  heartbeat_counter,
  (* The receiver task; a set that stands for a status is empty before the
     first snapshot. *)
  rx,            \* idle, or the part of s_data that is written next
  incoming,      \* the status that is being written
  polled,        \* it has looked at the clock in this unit
  connected,     \* s_data.connected
  age,           \* time since s_data.last_rx_time, counted up to AgeCap
  alerts,        \* s_data.active_alerts and max_severity
  ifaces,        \* the rest of s_data: the status that it is from
  (* The LVGL loop. *)
  ui,            \* idle, or in the middle of sat_ui_update
  painted,       \* it has run in this unit
  label,         \* s_conn_label
  bar,           \* the alerts that s_alert_label was painted from
  gauges,        \* the status that the gauges were painted from
  (* History, for the properties only: *)
  dry,           \* rounds of the feeder since it last wrote a snapshot
  quiet,         \* failed fetches since it last wrote to the port
  overlap        \* s_data was in the making during the last paint

world    == <<api, cable>>
feeder   == <<pc, timer, g_running, consecutive_failures, heartbeat_counter, dry, quiet>>
s_data   == <<connected, age, alerts, ifaces>>
receiver == <<rx, incoming, polled, s_data>>
display  == <<ui, painted, label, bar, gauges>>
vars     == <<world, line, feeder, receiver, display, overlap>>

-----------------------------------------------------------------------------
(***************************************************************************)
(* encoder_json_to_frame and sat_data_update_snapshot: what becomes of the *)
(* alerts.  Of active_alerts only whether it is zero matters.              *)
(***************************************************************************)
EncodeAlerts(s) == [active |-> s # {}, max_severity |-> Max(s \cup {SAT_NONE})]

Report == {EncodeAlerts(s) : s \in Statuses}

Init ==
  /\ api \in {"answers", "cut", "silent"} /\ cable = TRUE /\ line = {}
  /\ pc = "fetch" /\ timer = 0 /\ g_running = TRUE
  /\ consecutive_failures = 0 /\ heartbeat_counter = 0 /\ dry = 0 /\ quiet = 0
  /\ rx = "idle" /\ incoming = {} /\ polled = FALSE
  /\ connected = FALSE /\ age = AgeCap /\ alerts = EncodeAlerts({}) /\ ifaces = {}
  /\ ui = "idle" /\ painted = FALSE /\ label = "CONNECTING..."
  /\ bar = EncodeAlerts({}) /\ gauges = {} /\ overlap = FALSE

-----------------------------------------------------------------------------
(***************************************************************************)
(* The feeder: one round of the loop in main, from the end of http_get to  *)
(* the sleep or the end.                                                   *)
(***************************************************************************)
\* serial_write: fails on a cable that was pulled; otherwise the frame is on
\* the line, where it may get lost.
serial_write(f) ==
  IF cable THEN line' \in {line, line \cup {f}} ELSE UNCHANGED line

\* Mutant: a heartbeat that was written counts as a success.
RoundResets(failed) ==
  /\ consecutive_failures' = IF failed /\ line' = line THEN consecutive_failures + 1 ELSE 0
  /\ pc' = IF consecutive_failures' >= MaxFailures THEN "stopped" ELSE "sleep"
  /\ timer' = 0 /\ dry' = IF failed THEN Min({dry + 1, MaxFailures}) ELSE 0
  /\ UNCHANGED <<g_running, world, receiver, display, overlap>>

\* Mutant: a round without failure leaves the count alone.
RoundKeeps(failed) ==
  /\ consecutive_failures' = IF failed THEN consecutive_failures + 1 ELSE consecutive_failures
  /\ pc' = IF consecutive_failures' >= MaxFailures THEN "stopped" ELSE "sleep"
  /\ timer' = 0 /\ dry' = IF failed THEN dry + 1 ELSE 0
  /\ UNCHANGED <<g_running, world, receiver, display, overlap>>

\* The count of failures, and how a round ends.
Round(failed) ==
  /\ consecutive_failures' = IF failed THEN consecutive_failures + 1 ELSE 0
  /\ pc' = IF consecutive_failures' >= MaxFailures THEN "stopped" ELSE "sleep"
  /\ timer' = 0 /\ dry' = IF failed THEN dry + 1 ELSE 0
  /\ UNCHANGED <<g_running, world, receiver, display, overlap>>

\* http_get: the body, or NULL (silent) when it is refused, times out or has
\* no headers.  A monitor that answers may do so too late.
http_get(result) == pc = "fetch" /\ result \in {api, "silent"}

\* The body is a status: it is encoded and written.
SendSnapshot(s) ==
  /\ http_get("answers")
  /\ serial_write(Snapshot(s))
  /\ Round(~cable)
  /\ quiet' = 0 /\ UNCHANGED heartbeat_counter

\* The body does not parse: it is longer than HTTP_BUF_SIZE and was cut.
ParseError ==
  /\ http_get("cut")
  /\ UNCHANGED <<line, heartbeat_counter, quiet>>
  /\ Round(TRUE)

\* Mutant: one failure more before a heartbeat.
LateHeartbeat == heartbeat_counter >= HeartbeatEvery

HeartbeatDue == heartbeat_counter + 1 >= HeartbeatEvery

\* No body: another failure, and a heartbeat when it is due.
FetchFailed ==
  /\ http_get("silent")
  /\ \/ /\ HeartbeatDue
        /\ serial_write(HEARTBEAT)
        /\ heartbeat_counter' = 0 /\ quiet' = 0
     \/ /\ ~HeartbeatDue
        /\ heartbeat_counter' = heartbeat_counter + 1 /\ quiet' = quiet + 1
        /\ UNCHANGED line
  /\ Round(TRUE)

\* The sleep ends, early if a signal interrupts it.
Wake ==
  /\ pc = "sleep" /\ (timer = Interval \/ ~g_running)
  /\ pc' = IF g_running THEN "fetch" ELSE "stopped"
  /\ timer' = 0
  /\ UNCHANGED <<g_running, consecutive_failures, heartbeat_counter, dry, quiet>>
  /\ UNCHANGED <<world, line, receiver, display, overlap>>

main == (\E s \in Statuses : SendSnapshot(s)) \/ ParseError \/ FetchFailed \/ Wake

\* SIGINT or SIGTERM.
signal_handler ==
  /\ g_running /\ pc # "stopped" /\ g_running' = FALSE
  /\ UNCHANGED <<pc, timer, consecutive_failures, heartbeat_counter, dry, quiet>>
  /\ UNCHANGED <<world, line, receiver, display, overlap>>

-----------------------------------------------------------------------------
(***************************************************************************)
(* The receiver task.  mark_alive comes before the snapshot is applied,    *)
(* and applying it takes more than one write.                              *)
(***************************************************************************)
process_frame(f) ==
  /\ rx = "idle" /\ f \in line /\ line' = line \ {f}
  /\ connected' = TRUE /\ age' = 0
  /\ \/ f = HEARTBEAT /\ polled' = TRUE /\ UNCHANGED <<rx, incoming>>
     \/ f # HEARTBEAT /\ rx' = "alerts" /\ incoming' = {f.status} /\ UNCHANGED polled
  /\ UNCHANGED <<alerts, ifaces, world, feeder, display, overlap>>

\* sat_data_update_snapshot, up to the alerts and from there on.
UpdateAlerts ==
  /\ rx = "alerts" /\ rx' = "ifaces"
  /\ \E s \in incoming : alerts' = EncodeAlerts(s)
  /\ overlap' = (overlap \/ ui # "idle")
  /\ UNCHANGED <<incoming, polled, connected, age, ifaces, world, line, feeder, display>>

UpdateIfaces ==
  /\ rx = "ifaces" /\ rx' = "idle"
  /\ ifaces' = incoming /\ incoming' = {}
  /\ polled' = TRUE /\ overlap' = (overlap \/ ui # "idle")
  /\ UNCHANGED <<connected, age, alerts, world, line, feeder, display>>

\* Mutant: the timeout is never noticed.
NeverExpires == FALSE

Expired == age > Timeout

\* A turn of the task that finds no frame: sat_data_check_connection.
CheckConnection ==
  /\ rx = "idle" /\ line = {} /\ ~polled
  /\ connected' = (connected /\ ~Expired)
  /\ polled' = TRUE
  /\ UNCHANGED <<rx, incoming, age, alerts, ifaces, world, line, feeder, display, overlap>>

receiver_task ==
  (\E f \in Frame : process_frame(f)) \/ UpdateAlerts \/ UpdateIfaces \/ CheckConnection

-----------------------------------------------------------------------------
(***************************************************************************)
(* The display: sat_ui_update, called by the LVGL timer.                   *)
(***************************************************************************)
\* Without a link the gauges are blanked; everything else stays.
ShowNoLink ==
  /\ ui = "idle" /\ ~painted /\ ~connected
  /\ label' = "NO LINK" /\ gauges' = {} /\ painted' = TRUE
  /\ UNCHANGED <<ui, bar, world, line, feeder, receiver, overlap>>

\* Mutant: the bar is not set back when the last alert is gone.
ShowNewAlerts ==
  /\ ui = "idle" /\ ~painted /\ connected
  /\ label' = "UP" /\ bar' = (IF alerts.active THEN alerts ELSE bar) /\ ui' = "gauges"
  /\ overlap' = (rx # "idle")
  /\ UNCHANGED <<painted, gauges, world, line, feeder, receiver>>

ShowAlerts ==
  /\ ui = "idle" /\ ~painted /\ connected
  /\ label' = "UP" /\ bar' = alerts /\ ui' = "gauges"
  /\ overlap' = (rx # "idle")
  /\ UNCHANGED <<painted, gauges, world, line, feeder, receiver>>

ShowGauges ==
  /\ ui = "gauges" /\ ui' = "idle"
  /\ gauges' = ifaces /\ painted' = TRUE
  /\ UNCHANGED <<label, bar, world, line, feeder, receiver, overlap>>

sat_ui_update == ShowNoLink \/ ShowAlerts \/ ShowGauges

-----------------------------------------------------------------------------
\* The monitor starts, stops, or its report outgrows the feeder's buffer.
ApiChanges ==
  /\ api' \in {"answers", "cut", "silent"} \ {api}
  /\ UNCHANGED <<cable, line, feeder, receiver, display, overlap>>

\* The cable is pulled; the feeder's descriptor does not come back.
Unplug ==
  /\ cable /\ cable' = FALSE
  /\ UNCHANGED <<api, line, feeder, receiver, display, overlap>>

\* A unit passes.  Fetch and sleep end in time, and the firmware has done
\* what it does several times in a unit.
Tick ==
  /\ polled /\ painted /\ line = {} /\ rx = "idle" /\ ui = "idle"
  /\ \/ pc = "stopped" /\ UNCHANGED timer
     \/ pc = "fetch" /\ timer < MaxFetch /\ timer' = timer + 1
     \/ pc = "sleep" /\ timer < Interval /\ timer' = timer + 1
  /\ age' = IF age < AgeCap THEN age + 1 ELSE age
  /\ polled' = FALSE /\ painted' = FALSE
  /\ UNCHANGED <<pc, g_running, consecutive_failures, heartbeat_counter, dry, quiet>>
  /\ UNCHANGED <<rx, incoming, connected, alerts, ifaces, ui, label, bar, gauges>>
  /\ UNCHANGED <<world, line, overlap>>

Next ==
  main \/ signal_handler \/ receiver_task \/ sat_ui_update \/ ApiChanges \/ Unplug \/ Tick

\* Time passes, and neither the feeder nor a task of the firmware stands still.
Spec ==
  /\ Init /\ [][Next]_vars
  /\ WF_vars(main) /\ WF_vars(receiver_task) /\ WF_vars(sat_ui_update) /\ WF_vars(Tick)

-----------------------------------------------------------------------------
(***************************************************************************)
(* Properties.                                                             *)
(***************************************************************************)
FeederTypeOK ==
  /\ pc \in {"fetch", "sleep", "stopped"} /\ timer \in Nat /\ g_running \in BOOLEAN
  /\ consecutive_failures \in 0 .. MaxFailures
  /\ heartbeat_counter \in 0 .. HeartbeatEvery - 1
  /\ dry \in Nat /\ quiet \in Nat

ReceiverTypeOK ==
  /\ rx \in {"idle", "alerts", "ifaces"} /\ incoming \subseteq Statuses /\ polled \in BOOLEAN
  /\ connected \in BOOLEAN /\ age \in 0 .. AgeCap /\ alerts \in Report
  /\ ifaces \subseteq Statuses

DisplayTypeOK ==
  /\ ui \in {"idle", "gauges"} /\ painted \in BOOLEAN
  /\ label \in {"CONNECTING...", "UP", "NO LINK"}
  /\ bar \in Report /\ gauges \subseteq Statuses /\ overlap \in BOOLEAN

TypeOK ==
  /\ api \in {"answers", "cut", "silent"} /\ cable \in BOOLEAN /\ line \subseteq Frame
  /\ FeederTypeOK /\ ReceiverTypeOK /\ DisplayTypeOK

\* The label tells the truth about the link, up to the two periods of check
\* and paint: UP only if a frame came within the timeout, NO LINK only if
\* none did, whichever of receiver, clock and paint comes first.
LabelTellsLink ==
  ui = "idle" => /\ label = "UP" => age <= Timeout + 2
                 /\ label = "NO LINK" => age <= 1 \/ age > Timeout

\* Alerts a are those of the status in d; both are zero at the start.
FromOne(a, d) == (d = {} /\ a = EncodeAlerts({})) \/ (\E s \in d : a = EncodeAlerts(s))

\* A picture that was not painted while s_data was being written shows the
\* alerts and the rates of one and the same status.
PictureIsCoherent == ui = "idle" /\ label = "UP" /\ ~overlap => FromOne(bar, gauges)

\* The feeder gives up after MaxFailures rounds in a row that brought the
\* display no snapshot, whatever made them fail, and not before.
GivesUpInTime ==
  /\ pc # "stopped" => dry < MaxFailures
  /\ pc = "stopped" /\ g_running => dry = MaxFailures

\* While fetches fail, the line is never left alone for HeartbeatEvery of
\* them: heartbeat_counter is not reset by a snapshot, but that only makes
\* the first heartbeat earlier.
HeartbeatsAreSent == quiet < HeartbeatEvery

\* Once the feeder has stopped, the display says so in the end.
SilenceIsShown == pc = "stopped" ~> label = "NO LINK"

\* A monitor that stays away stops the feeder, heartbeats or not.
DeadMonitorStopsFeeder == <>[](api # "answers") => <>(pc = "stopped")
=============================================================================
