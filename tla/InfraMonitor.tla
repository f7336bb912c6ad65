---------------------------- MODULE InfraMonitor ----------------------------
(***************************************************************************)
(* Monitoring of infrastructure devices: the round robin of the medium     *)
(* tick, which pings one device per turn (net_collector.c:445-464), and    *)
(* the settings screen, which adds, switches and readdresses devices under *)
(* it (ui_settings.c).                                                     *)
(*                                                                         *)
(* Addresses are left out: an answer is whatever the ping brings, also for *)
(* a device that has none.  Failures are counted up to MaxFails.           *)
(*                                                                         *)
(* The stored count is cut to the size of the table from above only.  With *)
(* a negative one no device is pinged or saved, and Add Device writes the  *)
(* new device and its card before their arrays (ui_settings.c:283, :321):  *)
(* what that overwrites is undefined and outside this module, which has    *)
(* the count go up and the slots stay as they are.                         *)
(***************************************************************************)
EXTENDS Integers, FiniteSets, FiniteSetsExt

CONSTANTS
  MaxInfra,     \* APP_MAX_INFRA_DEVICES
  Below,        \* how far a stored infra_count may be below zero (bound)
  MaxFails      \* bound on consecutive_fails

ASSUME InfraAssumption ==
  /\ MaxInfra \in Nat \ {0} /\ MaxFails \in Nat \ {0}
  /\ Below \in Nat

Slot  == 0 .. MaxInfra - 1
Count == -Below .. MaxInfra
None == -1

VARIABLES
  num_infra,       \* g_state.num_infra
  enabled,         \* slots whose device is enabled
  reachable,       \* slots whose last ping was answered
  fails,           \* consecutive_fails of each slot
  ping_idx,        \* g_infra_ping_idx
  built,           \* the settings screen has been created
  infra_count,     \* its g_infra_count
  switches,        \* slots whose switch on the screen is on
  (* History, for the properties only: *)
  last,            \* the slot that the last medium tick pinged, or None
  wait             \* medium ticks since a slot was pinged, enabled or added,
                   \* counted up to MaxInfra

table  == <<num_infra, enabled, reachable, fails>>
screen == <<built, infra_count, switches>>
ghosts == <<last, wait>>
vars   == <<table, ping_idx, screen, ghosts>>

Device == 0 .. num_infra - 1

-----------------------------------------------------------------------------
\* load_infra_config: a device with an address is enabled.
load_infra_config ==
  /\ num_infra \in Count
  /\ enabled \in SUBSET Device
  /\ reachable = {} /\ fails = [i \in Slot |-> 0]
  /\ ping_idx = 0
  /\ built = FALSE /\ infra_count = 0 /\ switches = {}
  /\ last = None /\ wait = [i \in Slot |-> 0]

\* Mutant: the index is not wrapped.
StartUnwrapped(i) == i + 1

\* Mutant: the next turn starts with the first device again.
StartAtFirst(i) == 0

\* Where the search of the next turn starts after device i was pinged.
StartAfter(i) == (i + 1) % num_infra

\* Mutant: the search gives up at the first device that is switched off.
PingedOnlyIfFirst ==
  IF enabled \cap Device # {} /\ ping_idx % num_infra \in enabled
    THEN ping_idx % num_infra ELSE None

\* The device the tick comes to: the first enabled one from ping_idx on.
Pinged ==
  IF enabled \cap Device = {} THEN None
  ELSE LET ahead == {k \in Device : (ping_idx + k) % num_infra \in enabled}
       IN  (ping_idx + Min(ahead)) % num_infra

FailsAfter(i, ok) == IF ok THEN 0 ELSE Min({fails[i] + 1, MaxFails})

\* The part of the medium tick that serves the devices; ok is the answer.
medium_timer_cb(ok) ==
  LET i == Pinged
  IN  /\ last' = i
      /\ wait' = [j \in Slot |-> IF j = i \/ j \notin enabled \cap Device THEN 0
                                 ELSE Min({wait[j] + 1, MaxInfra})]
      /\ \/ /\ i = None
            /\ UNCHANGED <<table, ping_idx, screen>>
         \/ /\ i # None
            /\ ping_idx' = StartAfter(i)
            /\ reachable' = IF ok THEN reachable \cup {i} ELSE reachable \ {i}
            /\ fails' = [fails EXCEPT ![i] = FailsAfter(i, ok)]
            /\ UNCHANGED <<num_infra, enabled, screen>>

-----------------------------------------------------------------------------
(***************************************************************************)
(* The settings screen.                                                    *)
(***************************************************************************)
\* ui_settings_create, at the first visit: one card per device.
ui_settings_create ==
  /\ ~built /\ built' = TRUE
  /\ infra_count' = num_infra /\ switches' = enabled
  /\ UNCHANGED <<table, ping_idx, ghosts>>

\* A finger on the switch of a card; nothing else happens before Save.
Toggle(i) ==
  /\ i < infra_count
  /\ switches' = IF i \in switches THEN switches \ {i} ELSE switches \cup {i}
  /\ UNCHANGED <<table, ping_idx, built, infra_count, ghosts>>

\* Add Device: live at once, with no address, and switched on.
add_device_cb ==
  LET added == {infra_count} \cap Slot IN
  /\ built /\ infra_count < MaxInfra
  /\ num_infra' = infra_count + 1 /\ infra_count' = infra_count + 1
  /\ enabled' = enabled \cup added /\ switches' = switches \cup added
  /\ reachable' = reachable \ added
  /\ fails' = [i \in Slot |-> IF i \in added THEN 0 ELSE fails[i]]
  /\ wait' = [i \in Slot |-> IF i \in added THEN 0 ELSE wait[i]]
  /\ UNCHANGED <<ping_idx, built, last>>

\* Save: the switches of the cards go live.  Verdicts and counts stay as they
\* are, for a device with a new address too.
save_btn_cb ==
  /\ built
  /\ enabled' = switches
  /\ num_infra' = infra_count
  /\ wait' = [i \in Slot |-> IF i \in switches \ enabled THEN 0 ELSE wait[i]]
  /\ UNCHANGED <<reachable, fails, ping_idx, screen, last>>

Next ==
  \/ \E ok \in BOOLEAN : medium_timer_cb(ok)
  \/ ui_settings_create
  \/ \E i \in Slot : Toggle(i)
  \/ add_device_cb
  \/ save_btn_cb

\* LVGL runs the medium timer as long as the main loop runs.
Spec == load_infra_config /\ [][Next]_vars /\ WF_vars(\E ok \in BOOLEAN : medium_timer_cb(ok))

-----------------------------------------------------------------------------
(***************************************************************************)
(* Properties.                                                             *)
(***************************************************************************)
\* A count may be negative, but what is enabled, answers, is pinged or is
\* switched on the screen is a device of the table, and the index of the
\* round robin stays in it (load_infra_config, medium_timer_cb, add_device_cb).
TypeOK ==
  /\ num_infra \in Count /\ infra_count \in Count /\ built \in BOOLEAN
  /\ enabled \subseteq Device /\ reachable \subseteq Device /\ Device \subseteq Slot
  /\ fails \in [Slot -> 0 .. MaxFails]
  /\ ping_idx \in Slot
  /\ switches \subseteq Device
  /\ last \in Device \cup {None} /\ wait \in [Slot -> 0 .. MaxInfra]

\* The round robin is fair: an enabled device waits for fewer turns than
\* there are devices, however the table grows and devices are switched
\* under the search.
FairShare == \A i \in enabled : wait[i] < num_infra

\* A device that stays enabled is pinged again and again.
EveryDeviceIsPinged ==
  \A i \in Slot : <>[](i \in enabled) => []<>(last = i)
=============================================================================
