------------------------------- MODULE Monitor ------------------------------
(***************************************************************************)
(* The main loop (main.c:113-125) and the collector's medium and slow      *)
(* ticks that it runs (net_collector.c:421-535), driving the alert engine. *)
(* The medium tick pings the gateway and ends with a check; the slow tick  *)
(* refreshes what the checks in between only re-read: the interfaces'      *)
(* flags and the DNS verdict.                                              *)
(*                                                                         *)
(* A turn of the loop advances LVGL's clock by what the wall clock says    *)
(* has passed since the turn before; LVGL then runs the timers that are    *)
(* due, each at most once.  Their probes block the loop, and the clock may *)
(* be set meanwhile, forwards or backwards.  Time is in units of which a   *)
(* medium period has MediumPeriod; a turn in which none has passed changes *)
(* nothing.  What the ticks also refresh without touching the alerts       *)
(* (infrastructure pings, WAN path, WiFi manager, tables for the screens)  *)
(* is not part of this module, and an enumeration of the interfaces does   *)
(* not fail (see NetCollector).                                            *)
(***************************************************************************)
EXTENDS Alerts

CONSTANTS
  MediumPeriod,    \* APP_MEDIUM_TIMER_MS
  SlowPeriod,      \* APP_SLOW_TIMER_MS
  MediumBlocks,    \* how long the pings of a medium tick block, at most
  SlowBlocks,      \* how long the probes of a slow tick block, at most
  TickMod,         \* 2^32 ms: LVGL's clock wraps, and so do differences of it
  MaxSettings,     \* how often the wall clock is set (bound)
  Faults           \* what may happen to an interface: "down", "gone"

ASSUME MonitorAssumption ==
  /\ MediumPeriod \in Nat \ {0} /\ SlowPeriod \in Nat /\ SlowPeriod >= MediumPeriod
  /\ MediumBlocks \in Nat /\ SlowBlocks \in Nat
  /\ TickMod \in Nat /\ TickMod > 2 * SlowPeriod
  /\ MaxSettings \in Nat
  /\ Faults \subseteq {"down", "gone"}

Larger(m, n)  == IF m > n THEN m ELSE n
Smaller(m, n) == IF m < n THEN m ELSE n

\* Between slow ticks a check comes round in this time.
CheckRound == Larger(MediumPeriod, MediumBlocks)

\* The first check after a slow tick comes in this time.
FirstCheck == Larger(CheckRound, SlowBlocks)

\* From a slow tick to the next one: its period, and the turn it waits for.
SlowRound == SlowPeriod - 1 + Larger(1, MediumBlocks)

\* The probes of a slow tick and a round of checks fit into a slow period,
\* and so do the checks of a hysteresis that begins with a slow tick: 14 s of
\* timeouts (net_collector.c:509-530) and two rounds of 5 s in 30 s.
ASSUME PeriodsAssumption ==
  /\ CheckRound + SlowBlocks <= SlowPeriod
  /\ FirstCheck + (Hysteresis - 1) * CheckRound <= SlowPeriod

VARIABLES
  (* The world. *)
  link,           \* per row: "ok", "down" (listed, not running), "gone"
  late,           \* time that the ticks of this turn have blocked the loop
  (* LVGL. *)
  medium_age,     \* lv_tick_elaps of the medium timer
  slow_age,       \* and of the slow timer
  due,            \* timers that this turn has still to run
  (* The collector. *)
  known,          \* g_state.num_ifaces
  running,        \* rows whose last enumerated flags were up and running
  dns_reachable,  \* g_state.connectivity.dns_reachable
  (* History, for the properties only: *)
  settings,       \* how often the clock has been set
  since,          \* time since the link of a row changed, up to Longest
  reported        \* rows whose interface was reported down since then

lvgl      == <<medium_age, slow_age, due>>
collector == <<known, running, dns_reachable>>
watch     == <<since, reported>>
monVars   == <<vars, link, late, lvgl, collector, settings, watch>>

\* When a change of a link must have shown, if the clock was set n times: the
\* next slow tick has seen it, which a clock that is set back puts off, and a
\* check follows; the other checks of the hysteresis take a round each.
Seen(n)    == SlowRound * (1 + n) + FirstCheck
Settled(n) == Seen(n) + (Hysteresis - 1) * CheckRound
Longest    == Settled(MaxSettings) + 1

MonInit ==
  /\ alerts_init
  /\ known \in 1 .. MaxInterfaces
  /\ link = [i \in Iface |-> "ok"]
  /\ late = 0 /\ medium_age = 0 /\ slow_age = 0 /\ due = {}
  /\ running = 0 .. known - 1
  /\ dns_reachable = FALSE                 \* memset of g_state
  /\ settings = 0
  /\ since = [i \in Iface |-> 0] /\ reported = {}

-----------------------------------------------------------------------------
(* The world. *)

\* An interface loses its carrier, loses its address, or recovers.
LinkChanges(i) ==
  /\ i < known
  /\ \E l \in Faults \cup {"ok"} : l # link[i] /\ link' = [link EXCEPT ![i] = l]
  /\ since' = [since EXCEPT ![i] = 0]
  /\ reported' = reported \ {i}
  /\ UNCHANGED <<vars, late, lvgl, collector, settings>>

-----------------------------------------------------------------------------
(* The main loop. *)

\* What the loop takes for the time since the turn before, when the clock
\* was set by step: a difference of unsigned numbers.
Elapsed(passed, step) == (passed + step) % TickMod

\* lv_tick_inc, and what lv_timer_handler finds due.
main(step) ==
  LET passed == Larger(late, 1)
      age(a) == (a + Elapsed(passed, step)) % TickMod
  IN  /\ due = {}
      /\ step # 0 => settings < MaxSettings
      /\ settings' = IF step # 0 THEN settings + 1 ELSE settings
      /\ late' = 0
      /\ medium_age' = age(medium_age) /\ slow_age' = age(slow_age)
      /\ due' = {t \in {"medium", "slow"} :
                   \/ t = "medium" /\ medium_age' >= MediumPeriod
                   \/ t = "slow" /\ slow_age' >= SlowPeriod}
      /\ since' = [i \in Iface |-> IF i < known THEN Smaller(since[i] + passed, Longest)
                                              ELSE since[i]]
      /\ UNCHANGED <<vars, link, collector, reported>>

\* The ping of this tick and the state it finds decide the check.
medium_timer_cb(answer, lat, errs) ==
  /\ due = {"medium"}
  /\ due' = {} /\ medium_age' = 0 /\ \E b \in 0 .. MediumBlocks : late' = late + b
  /\ alerts_check([num_ifaces |-> known,
                   down       |-> (0 .. known - 1) \ running,
                   errRate    |-> errs,
                   gateway    |-> answer,
                   latency    |-> lat,
                   dns        |-> dns_reachable])
  /\ reported' = reported \cup {i \in Iface : IfaceDown(i) \in raised'}
  /\ UNCHANGED <<link, slow_age, known, running, dns_reachable, settings, since>>

\* Mutant: only new interfaces get flags.
RefreshNew(new) == running \cup known .. known + new - 1

\* Mutant: a refresh clears the running flag and never sets it again.
RefreshDown(new) ==
  {i \in running : link[i] # "down"} \cup known .. known + new - 1

\* The rows that are running after an enumeration with new interfaces.
Refresh(new) ==
  {i \in Iface : \/ i < known /\ link[i] = "ok"
                 \/ link[i] = "gone" /\ i \in running
                 \/ known <= i /\ i < known + new}

\* Interfaces that are listed get their flags refreshed, those that are not
\* keep the ones they had; new ones are appended; then DNS is probed.  LVGL
\* runs the timer that was created last first.
slow_timer_cb(new, answer) ==
  /\ "slow" \in due
  /\ due' = due \ {"slow"} /\ slow_age' = 0 /\ \E b \in 0 .. SlowBlocks : late' = late + b
  /\ known' = known + new
  /\ running' = Refresh(new)
  /\ dns_reachable' = answer
  /\ UNCHANGED <<vars, link, medium_age, settings, since, reported>>

\* Clear All, from the alerts screen, which LVGL serves in a turn as well.
ClearAll == alerts_clear_all /\ UNCHANGED <<link, late, lvgl, collector, settings, watch>>

MonNext ==
  \/ \E i \in Iface : LinkChanges(i)
  \/ \E step \in 0 .. TickMod - 1 : main(step)
  \/ \E answer \in GatewayAnswers, lat \in Latencies,
        errs \in [0 .. known - 1 -> ErrRates] : medium_timer_cb(answer, lat, errs)
  \/ \E new \in 0 .. MaxInterfaces - known, answer \in DnsAnswers :
       slow_timer_cb(new, answer)
  \/ ClearAll

MonSpec == MonInit /\ [][MonNext]_monVars

-----------------------------------------------------------------------------
(***************************************************************************)
(* Properties.                                                             *)
(***************************************************************************)
\* An interface that goes down and stays down is reported within the time to
\* the next slow tick, that to the check after it, and a round for each other
\* check of the hysteresis, wherever in the period it went down and whatever
\* happened before (user_manual.md:167); every time the clock is set costs no
\* more than the time to one slow tick.  An interface that is no longer
\* listed at all is not: its row keeps the flags it had.
DownIsReported ==
  \A i \in (0 .. known - 1) \ Ignored :
    link[i] = "down" /\ since[i] > Settled(settings) => i \in reported

\* No check reports an interface as down that has been up for longer than it
\* takes to the next slow tick and the check after it, and a slow round more
\* for every time the clock was set (alerts_check, slow_timer_cb).
NoLateAlarm ==
  \A i \in 0 .. known - 1 :
    link[i] = "ok" /\ since[i] > Seen(settings) => IfaceDown(i) \notin raised
=============================================================================
