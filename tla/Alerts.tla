------------------------------- MODULE Alerts -------------------------------
(***************************************************************************)
(* The alert engine of src/src/core/alerts.c: a check of the network state *)
(* that the collector runs after every medium tick, hysteresis counters,   *)
(* and a circular log of the alerts that were raised.                      *)
(*                                                                         *)
(* One check evaluates every condition in a fixed order and pushes any     *)
(* number of alerts, so it is one action.  Where an alert lands in the log *)
(* is given by how many earlier conditions of the same check pushed one.   *)
(***************************************************************************)
EXTENDS Integers, Sequences, FiniteSets

CONSTANTS
  MaxInterfaces,     \* APP_MAX_INTERFACES, rows of the counter table
  MaxAlerts,         \* APP_MAX_ALERTS, length of the log
  Hysteresis,        \* APP_ALERT_HYSTERESIS
  ErrThreshold,      \* APP_ALERT_ERR_THRESHOLD, errors per second
  PingWarn,          \* APP_ALERT_PING_WARN_MS
  PingCrit,          \* APP_ALERT_PING_CRIT_MS
  Ignored,           \* interface slots whose name is in alert_ignore_ifaces
  ErrRates,          \* error rates an interface may show (rx + tx)
  Latencies,         \* gateway latencies a ping may measure
  GatewayAnswers,    \* whether a ping of the gateway may be answered
  DnsAnswers         \* whether a DNS probe may be answered

Iface == 0 .. MaxInterfaces - 1
LogSlot == 0 .. MaxAlerts - 1

ASSUME AlertsAssumption ==
  /\ MaxInterfaces \in Nat \ {0}
  /\ MaxAlerts \in Nat \ {0}
  /\ Hysteresis \in Nat \ {0}
  /\ ErrThreshold \in Nat /\ PingWarn \in Nat /\ PingCrit \in Nat
  /\ PingWarn <= PingCrit
  /\ Ignored \subseteq Iface
  /\ ErrRates \subseteq Nat /\ Latencies \subseteq Nat
  /\ GatewayAnswers \subseteq BOOLEAN /\ DnsAnswers \subseteq BOOLEAN

\* The log holds everything one check can push: two alerts per watched
\* interface, the gateway or its latency, and DNS (64 slots against 18).
ASSUME LogHoldsOneCheck ==
  MaxAlerts >= 2 * Cardinality(Iface \ Ignored) + 2

-----------------------------------------------------------------------------
(***************************************************************************)
(* The conditions of a check, as cells of g_hyst_counters: an alert type   *)
(* and a row.  The system-wide conditions share row 0.                     *)
(***************************************************************************)
IfaceDown(i)    == <<"IFACE_DOWN", i>>
PacketErrors(i) == <<"PACKET_ERRORS", i>>
Gateway         == <<"GATEWAY_UNREACHABLE", 0>>
Latency         == <<"HIGH_LATENCY", 0>>
Dns             == <<"DNS_FAILURE", 0>>

IfaceCond  == ({"IFACE_DOWN", "PACKET_ERRORS"} \X Iface)
SystemCond == {Gateway, Latency, Dns}
Cond       == IfaceCond \cup SystemCond

\* Every condition except the latency has a hysteresis counter in use.
Counted == Cond \ {Latency}

\* The order in which alerts_check evaluates the conditions.
Order(c) ==
  CASE c[1] = "IFACE_DOWN"          -> 2 * c[2]
    [] c[1] = "PACKET_ERRORS"       -> 2 * c[2] + 1
    [] c[1] = "GATEWAY_UNREACHABLE" -> 2 * MaxInterfaces
    [] c[1] = "HIGH_LATENCY"        -> 2 * MaxInterfaces + 1
    [] OTHER                        -> 2 * MaxInterfaces + 2

Severity == {"none", "warning", "critical"}
Entry    == [cond : Cond, severity : Severity, active : BOOLEAN]

\* A log slot that alerts_init zeroed and no alert has reached yet.
Unused == [cond |-> IfaceDown(0), severity |-> "none", active |-> FALSE]

\* What a check reads of the collector's state when n interfaces are known.
Observation(n) ==
  [num_ifaces : {n},
   down       : SUBSET (0 .. n - 1),           \* not both up and running
   errRate    : [0 .. n - 1 -> ErrRates],
   gateway    : GatewayAnswers,                \* gateway_reachable
   latency    : Latencies,                     \* gateway_latency_ms
   dns        : DnsAnswers]                    \* dns_reachable

-----------------------------------------------------------------------------
VARIABLES
  alert_log, alert_head, alert_count,   \* g_alert_log and its indices
  active_count,                         \* g_active_count
  hyst_counters,                        \* g_hyst_counters
  num_ifaces,       \* the collector's interface count at the last check
  (* History, for the properties only: *)
  raised,           \* conditions for which the last check pushed an alert
  streak            \* consecutive checks a condition has held, see Longer

engine  == <<alert_log, alert_head, alert_count, active_count, hyst_counters>>
history == <<raised, streak>>
vars    == <<engine, num_ifaces, history>>

-----------------------------------------------------------------------------
(***************************************************************************)
(* A check.                                                                *)
(***************************************************************************)
\* The interface rows a check looks at: the known ones that are not ignored.
Watched(o) == {i \in 0 .. o.num_ifaces - 1 : i \notin Ignored}

\* The conditions a check evaluates at all.
Evaluated(o) == ({"IFACE_DOWN", "PACKET_ERRORS"} \X Watched(o)) \cup SystemCond

\* The conditions that hold in what the check sees.
Bad(o) ==
  {c \in Evaluated(o) :
     CASE c[1] = "IFACE_DOWN"          -> c[2] \in o.down
       [] c[1] = "PACKET_ERRORS"       -> o.errRate[c[2]] > ErrThreshold
       [] c[1] = "GATEWAY_UNREACHABLE" -> ~o.gateway
       [] c[1] = "HIGH_LATENCY"        -> o.gateway /\ o.latency > PingWarn
       [] OTHER                        -> ~o.dns}

\* Mutant: the alert comes one check late.
PushesLate(o) ==
  {c \in Bad(o) : c = Latency \/ hyst_counters[c] + 1 > Hysteresis}

\* The conditions that push: a counted one when its counter reaches the
\* hysteresis, the latency whenever it is too high.
Pushes(o) ==
  {c \in Bad(o) : c = Latency \/ hyst_counters[c] + 1 >= Hysteresis}

SeverityOf(c, o) ==
  CASE c[1] \in {"IFACE_DOWN", "GATEWAY_UNREACHABLE"} -> "critical"
    [] c[1] \in {"PACKET_ERRORS", "DNS_FAILURE"}      -> "warning"
    [] OTHER -> IF o.latency > PingCrit THEN "critical" ELSE "warning"

\* How many alerts the check has pushed before it comes to condition c.
Before(c, P) == Cardinality({d \in P : Order(d) < Order(c)})

\* The slot push_alert writes for condition c when the check pushes P.
SlotOf(c, P) == (alert_head + Before(c, P)) % MaxAlerts

\* The log after the pushes of one check.
PushAll(P, o) ==
  LET slot == [c \in P |-> SlotOf(c, P)]
  IN  [s \in LogSlot |->
         IF \E c \in P : slot[c] = s
           THEN LET c == CHOOSE d \in P : slot[d] = s
                IN  [cond |-> c, severity |-> SeverityOf(c, o), active |-> TRUE]
           ELSE alert_log[s]]

\* The entries a reader of alerts_get_log is told to look at, if active.
ActiveIn(log, count) == {s \in LogSlot : s < count /\ log[s].active}

\* The streak of a condition that holds once more: it counts to Hysteresis
\* and beyond that stays between Hysteresis and 2 * Hysteresis - 1.
Longer(n) == IF n = 2 * Hysteresis - 1 THEN Hysteresis ELSE n + 1

alerts_check(o) ==
  LET E == Evaluated(o)
      B == Bad(o)
      P == Pushes(o)
      K == Cardinality(P)
  IN  /\ alert_log'   = PushAll(P, o)
      /\ alert_head'  = (alert_head + K) % MaxAlerts
      /\ alert_count' = IF alert_count + K < MaxAlerts THEN alert_count + K
                                                       ELSE MaxAlerts
      /\ active_count' = K + Cardinality(ActiveIn(alert_log', alert_count'))
      /\ hyst_counters' =
           [c \in Counted |->
              IF c \notin E THEN hyst_counters[c]
              ELSE IF c \in B \ P THEN hyst_counters[c] + 1
              ELSE 0]
      /\ num_ifaces' = o.num_ifaces
      /\ raised' = P
      /\ streak' = [c \in Cond |->
                      IF c \notin E THEN streak[c]
                      ELSE IF c \in B THEN Longer(streak[c]) ELSE 0]

\* Mutant: Clear All empties the log but leaves the head where it is.
clear_forgets_head ==
  /\ alert_log' = [s \in LogSlot |-> [alert_log[s] EXCEPT !.active = FALSE]]
  /\ active_count' = 0 /\ alert_count' = 0
  /\ UNCHANGED <<alert_head, hyst_counters, num_ifaces, history>>

\* Mutant: Clear All forgets the badge.
clear_keeps_badge ==
  /\ alert_log' = [s \in LogSlot |-> [alert_log[s] EXCEPT !.active = FALSE]]
  /\ UNCHANGED <<alert_head, alert_count, active_count, hyst_counters, num_ifaces,
                 history>>

\* The Clear All button of the alerts screen.
alerts_clear_all ==
  /\ alert_log' = [s \in LogSlot |-> [alert_log[s] EXCEPT !.active = FALSE]]
  /\ active_count' = 0
  /\ UNCHANGED <<alert_head, alert_count, hyst_counters, num_ifaces, history>>

alerts_init ==
  /\ alert_log = [s \in LogSlot |-> Unused]
  /\ alert_head = 0 /\ alert_count = 0 /\ active_count = 0
  /\ hyst_counters = [c \in Counted |-> 0]
  /\ num_ifaces = 0
  /\ raised = {} /\ streak = [c \in Cond |-> 0]

\* The interface table only grows (slow_timer_cb adds, nothing removes).
Next ==
  \/ \E n \in num_ifaces .. MaxInterfaces : \E o \in Observation(n) : alerts_check(o)
  \/ alerts_clear_all

Spec == alerts_init /\ [][Next]_vars

-----------------------------------------------------------------------------
(***************************************************************************)
(* Properties.                                                             *)
(***************************************************************************)
TypeOK ==
  /\ alert_log \in [LogSlot -> Entry]
  /\ alert_head \in LogSlot
  /\ alert_count \in 0 .. MaxAlerts
  /\ active_count \in Nat
  /\ hyst_counters \in [Counted -> 0 .. Hysteresis - 1]
  /\ num_ifaces \in 0 .. MaxInterfaces
  /\ raised \subseteq Cond
  /\ streak \in [Cond -> 0 .. 2 * Hysteresis - 1]

\* The two indices of the log agree: until the log is full the next slot is
\* the first unused one, and no slot outside the counted range is active.
\* The recount at the end of a check (alerts.c:172-175) only looks below
\* g_alert_count, so an active entry above it would be lost to the badge.
LogIndicesAgree ==
  /\ alert_count < MaxAlerts => alert_head = alert_count
  /\ \A s \in LogSlot : s >= alert_count => ~alert_log[s].active

\* An alert with hysteresis is pushed by exactly those checks at which the
\* condition has held for Hysteresis consecutive checks, and again after
\* each further Hysteresis of them (developer_manual.md:269).
RaisedOnPersistence ==
  \A c \in Counted : c \in raised <=> streak[c] = Hysteresis

\* Although the number behind the badge is not the number of active alerts,
\* it is zero exactly when none is active: the badge never hides an active
\* alert and never stays on without one.
BadgeZeroIffNoneActive ==
  active_count = 0 <=> \A s \in LogSlot : ~alert_log[s].active
=============================================================================
