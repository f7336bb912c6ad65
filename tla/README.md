# Formal models of the Embedded Network Monitor

This directory holds TLA+ models of the network monitor (`src/`, C, one thread
driven by LVGL timers) and of its satellite display (`satellite/`, a feeder on
the host and ESP32 firmware), TLC configurations that check them on small
instances, and TLAPS proofs of the results that matter most for every instance.

## Inventory

| Component | State | Operations | Hard part | What makes it correct |
|---|---|---|---|---|
| alert engine `core/alerts.c` | circular log (entries, head, count), active count, hysteresis counters | `alerts_check` after every medium tick, Clear All from the screen | several alerts per check, wrap of the log, counters across clears | an alert exactly after N bad checks; log in order; badge on iff something is active |
| ring buffer `core/ring_buffer.c` | array, head, count | push, get, clear | wrap-around arithmetic | reads back the most recent values in order |
| collector `net/net_collector.c` | interface table, previous reading, rates, peaks, totals, short and long history, minute accumulators | fast tick 1 s, medium 5 s, slow 30 s | interfaces that come and go, unreadable seconds, late ticks, wrapping counters, two different orders of interfaces | totals are the traffic; rows never change owner; the minutes take what the totals take while ticks are a second apart; peaks bound the charts |
| infrastructure monitoring `net_collector.c`, `ui_settings.c` | device table, round-robin index, settings form | one ping per medium tick, add, switch, save | table changed between turns, a stored count below zero | every enabled device gets its turn |
| satellite link `satellite/` | frame on the wire; receiver state and buffer | encode, feed byte, process frame | lost, foreign bytes, reset inside a frame, payloads that look like frames | stays in its buffer, accepts clean frames, invents nothing, resynchronises |
| satellite feeder and display data | failure and heartbeat counters; `s_data`, last receive time; the picture | fetch, encode, heartbeat, exit; mark alive, apply, expire; paint | timeout against heartbeat, two tasks without a lock, several ways to fail | label tells the truth, pictures of one snapshot, gives up after exactly ten failures, silence is noticed |
| configuration `core/config.c` | key/value table, its file, the fields of the settings screen | load, save, POST /config, Save and Connect buttons | kill or full disk during a save, two writers, full table, odd files, keys that are too long or hold blanks or a `=` | later starts work with what the last save wrote, unless that save was cut; a key stands in the table twice only as the remnant of a longer one; the screen shows the table |
| WiFi manager `net/net_wifi_mgr.c` | enabled, connected, network name, scan results | start and automatic connection, switch, scan, connect, update every slow tick | commands that fail, two tools with outputs of their own, belief against the real link, limits of the scan table | the list is what the last scan with a name found; a lost link is noticed |
| screens `ui/` | current and previous screen, screens built so far, cards, selector, list length, badge | show, back, menu, tap, selection, refresh timers | screens built late and refreshed only while shown, tables that grow meanwhile, rows without a history | card, chart, list, badge and detail screen stand for what they say |
| probes `net_ping.c`, `net_dns.c`, `net_discovery.c` | sequence number, hops, loss, reachability of the WAN | ping, name query, trace, quality test | late, lost, foreign and short packets on raw sockets, timeouts that restart | success is an answer; waiting is bounded by the short packets heard; hops are aligned |
| history file `core/data_store.c` | none: what is loaded is thrown away | load, save | | not modelled |

Interaction: the main loop (`main.c:116-125`) runs the LVGL timers, then polls
the HTTP server. All of the monitor is therefore one thread: every timer
callback, button callback and HTTP handler is one atomic step, and what is
concurrent is the order of those steps, the kernel underneath and the user.
The satellite receiver is a task of its own on another processor, joined to
the feeder only by a serial line.

## Modules

| Module | Models |
|---|---|
| `BoundedLog` | abstract: the last `Capacity` values pushed, oldest first |
| `RingBuffer` | `ring_buffer.c`; refines `BoundedLog` through `Contents` |
| `Alerts` | `alerts.c`: one action per check and one for Clear All |
| `AlertsProofs` | persistence, indices, badge and types, for every configuration, alone and in the main loop; the reporting bounds of `Monitor` |
| `Monitor` | extends `Alerts`: the main loop and its clock, the medium and the slow tick that drive the engine, and the world they sample |
| `NetCollector`, `MCNetCollector` | traffic accounting of the fast tick and the table that the slow tick extends |
| `NetCollectorProofs` | the circular buffer and the histories kept in it; types, minutes and peaks; the index, and the totals of boards whose addressed devices come first |
| `InfraMonitor` | round-robin pings and the infrastructure part of the settings screen |
| `InfraMonitorProofs` | types and the fairness bound, for every table and every stored count |
| `SatReceiver` | frame format, the line and the byte machine of the firmware |
| `SatCrc16` | `sat_crc16`, checked against the published check value |
| `MCSatReceiver` | frames for the instance |
| `SatReceiverProofs` | type correctness, no overrun, acceptance of clean frames, and that only a collision of the checksum invents a snapshot |
| `SatLink` | the feeder's loop, the line and the two tasks of the display, with time; frames are whole |
| `SatLinkProofs` | types, label, picture, failures and heartbeats, for every limit |
| `Config`, `MCConfig` | `config.c` with its file, POST /config and the settings screen |
| `ConfigProofs` | types, durability and the screen, for every file, every key and every bound |
| `WifiMgr` | `net_wifi_mgr.c` with its callers and the world it commands |
| `Ui`, `MCUi` | `ui_manager.c` and what five screens keep between refreshes |
| `ScreenProofs` | types and scan list of `WifiMgr`, cards and chart of `Ui`, for every table, scan and number of slots |
| `Probes`, `MCProbes` | `net_ping.c`, `net_dns.c` and `net_discovery.c` on a network that loses and delays |
| `ProbesProofs` | answers, time, hops and the quality test, for every path, timeout and limit |

Operators keep the names of the C functions and variables where there is one.
Definitions whose comment begins with "Mutant:" are deliberate errors; they
replace the definition below them when the strength of a property is tested.
Variables marked "History" are read by properties only. The specifications of
`WifiMgr` and `RingBuffer` have prefixed names (`WifiSpec`, `RingSpec`), because
one proof module extends each together with another component.

**Alerts.** `g_alert_log`, `g_alert_head`, `g_alert_count`, `g_active_count`
and `g_hyst_counters` are variables of the same names. A condition is a pair
of alert type and row of the counter table. One check evaluates the conditions
in the order of the code (`Order`), pushes those whose counter reaches the
hysteresis and the latency without one, then recounts; `active_count` counts
the new alerts twice as the code does (`alerts.c:54` and `:172-175`). `streak`
records how long a condition has really held.

**Monitor.** The ping's answer is the input of the medium tick. The slow tick
refreshes the flags of listed interfaces, appends new ones and probes DNS.
`main` is a turn of the main loop: it hands LVGL the difference of two readings
of the wall clock, unsigned, and LVGL runs what is due, the slow timer first
because it was created last. `late` is how long the probes of the last turn
blocked. Setting the clock is the input `step`: a step back by less than a
timer's age delays it, by more it fires the timer at once. An interface can be down (listed, not
running) or gone (no longer listed: its row keeps the last flags).

**NetCollector.** The kernel's device list, addresses and counters are the
environment. The collector's table is ordered by discovery, its previous
reading by `/proc/net/dev`, as in the code. `net_enumerate_interfaces` is the set
of the lists the kernel may return; a device appears in it once per address. Byte counters are words modulo
`CounterMod`. `moved`, `seen` and `from` record what was really received.
Only received bytes are modelled: sent bytes, packets and errors go through
the same subtraction. The total of the day takes the bytes since the last
reading, rate, peak and minutes take those bytes divided by the time since the
last tick (`gap`, one of `Gaps`), in whole bytes per second where the code has
floating point. A tick after a blocked loop is late and LVGL does not catch up;
one after a late reading of the clock is early, which the module allows and the
proofs cover, but no run has in its `Gaps`. Each history is the bounded log
that `RingBuffer` is proved to implement.

**InfraMonitor.** `ping_idx` is `g_infra_ping_idx`; the search over disabled
devices is `Pinged`. The settings screen adds a device at once and applies its
switches on Save. The stored count is cut to the table from above only, so it
starts anywhere in `Count`, also below zero. With such a count no device is
pinged, and Add Device writes before its arrays (`ui_settings.c:283`, `:321`):
what that overwrites is undefined and left out, the count goes up all the same.

**SatReceiver.** One action per byte. `s_frame_buf` up to `s_frame_pos` is the
sequence `frame_buf`. A snapshot is shown as its payload: what
`sat_data_update_snapshot` unpacks is not told apart. The checksum function is
a parameter of the module; the instance uses the real one.

**SatLink.** One round of the feeder's loop, from the end of `http_get` to the
sleep, is one action; each action of the receiver is a write to `s_data` that
the display can observe, and `sat_ui_update` is split at the point where it has
read the alerts and not yet the rates. `Tick` passes a unit of time once the
receiver has polled and the display has painted in it, which the firmware does
every 10 ms and 100 ms; how long a fetch takes is open up to `MaxFetch`. A
status of the monitor is the set of severities of its active alerts; the rest
of a snapshot is represented by the status it came from. A body that
`HTTP_BUF_SIZE` cuts is `api = "cut"`. `build_frame` cannot fail here: the
longest snapshot has 208 bytes of 256. `s_data.last_seq` and the frame counters
are written only and left out. A blocked serial port, on which the feeder
would wait forever without counting, is left out as well.

**Config.** A handler is cut into one step per `config_set_str` and two for
`config_save` (open, close), because a kill can fall between any two. `Stop`
during a save leaves any prefix of the lines, the last one possibly torn; so
does a full disk (`SaveShort`), which the code does not notice. Two fields
stand for the screen: `ping_target` for those that are always written,
`wifi_ssid` for those that may be left out. A key is a name about which table
and file may disagree: the array of an entry keeps its first 63 characters
(`StoredAs`), while `config_find` compares all of it, and `config_load` finds
what is in front of the first `=`, without blanks (`ReadAs`, `SplitKeys`), unless
the line is skipped (`SkippedKeys`). `acked` is what the last save to open the
file has to leave there, and `whole` says whether it got to its end; a save
that is cut takes with it what earlier saves had written, and the property says
what is left then. `unsaved` and `drift` are what has changed in memory since.

**WifiMgr.** `up`, `wanted` and `link` are the adapter and the supplicant, which
the program only learns about through commands; each command may fail. `Parsing`
is the state of the parser after each line of a scan, `Told` the names in the
lines so far, and `Listed` what a reader of the list expects. `tool` is the one
that answered, `heard` the names in its output up to the 4095 bytes that
`run_cmd` keeps. `iwlist` hears networks as well, but in a format that the parser
does not read. `expected` is what the dropdown should offer: the last list with
a name in it, or the configured network, since a scan that finds none leaves
the dropdown as it is.

**Ui.** An interface is its name: a card, the totals and the lines of the traffic
screen (`totals`, `charted`) and the detail screen stand for the interface whose
values they show. `flushed` rows have a long history, which a row gets when the
first minute ends with it in the table (`MinuteFlush`); the lines are not set
for the others. `due` holds from that minute to the next refresh. `pushed` counts the alerts ever
pushed and stands for the contents of the log. Builders run at the first visit
(`Build`), refreshes only while their screen is shown.

**Probes.** `air` holds the answers under way with the number of probes sent
since their own. A raw socket hears all of them. `waited` is the time since the
running `recvfrom`, `elapsed` the time since the request. Short packets restart
the wait without a look at the time, and nothing limits them; `shorts` counts
them up to `MaxShort` and `elapsed` stops at `MaxElapsed`, where the bound on a
ping no longer says anything.

## Runs

| Run | Shows | Bounds |
|---|---|---|
| `ring_buffer` | the buffer implements the log, from any array contents | capacity 4 of three values: wraps several times |
| `alerts` | alert persistence, indices of the log, badge | one interface, hysteresis 2, a log of 4 slots: the smallest that holds one check's alerts, so it wraps within one check; DNS, which differs from the gateway in its name only, always answers here |
| `monitor` | a link that goes down is reported after a slow round, the first check and the rest of the hysteresis; a recovered one is not reported again; setting the clock costs at most a slow round | the real hysteresis (3), periods of 2 and 7 and blocking of 1 and 3 units by a medium and a slow tick: the two fall due together as well as in turns of their own; the clock is set once, by any amount. Both bounds are exact here: either is violated when it is one less |
| `net_collector` | totals, minutes, peaks, an unambiguous table | gaps of one and two seconds; two devices of which one gains and loses its (double) address and is unplugged; counters modulo 3, so that they wrap all the time; minutes of two ticks |
| `net_collector_unaddressed` (violation) | no traffic for an interface listed after one without address | |
| `infra_monitor` | fairness of the round robin | three devices, stored counts from −2 to 3, failures counted to 1 (none or some) |
| `sat_receiver` | buffer, clean frames, no invention, resynchronisation | three frames, two of which carry the magic bytes in their payload; two faults, so that one frame can be damaged twice or two in a row |
| `sat_link` | label, picture, failures, heartbeats, and that silence ends the feeder and shows | interval 1, heartbeat every 3 and timeout 3 keep the real ratio 1:5:5, 6 failures that of 5:10; fetches of up to 4 outlast the timeout; two statuses, so that pictures can mix |
| `config` | durability of saves, table, settings screen | a table of 2 for 8 keys, so that it fills: the two of the screen, a plain one, the same with a blank, with a `=` and with a `#`, one that is too long and its remnant; five bodies to post, one of two such keys; first files with a key twice and with too many keys |
| `wifi_mgr` | scan list, lost links | 2 slots and up to 4 names, hidden networks among them: every way in which the table fills before, at or after the end; scans by `iw`, by `iwlist` and by neither, with and without a name |
| `ui` | cards, selector and chart, alert list, badge, detail screen | two of three interfaces at boot, the hidden one in the middle, and minutes that end at any time; a log of 2 for 2 alerts, so that it fills (`alerts` wraps it, and the proofs have any table, an empty one too) |
| `probes` | ping, trace, quality test, end of every tick | 3 sequence numbers, so that they wrap; 2 answers under way; a path of 3 routers for 4 hops, of which any may be silent; a timeout of 2 units; short packets without limit, counted to 2 |

The violation run states what the manual says and shows a behaviour of the code
that differs; PROJECT.json quotes the line.

`TodayIsTraffic` excepts devices that came back with a counter of zero: the
unsigned difference is then huge (`net_collector.c:350`). `NothingInvented`
holds for the frames and faults of the instance, not for every line noise: a
16-bit checksum lets some damaged frames through.

**Fairness.** `InfraMonitor` assumes weak fairness of the medium timer: LVGL
runs it as long as the main loop runs, and every callback returns because the
probes have timeouts. `SatReceiver` assumes weak fairness of sending and
delivering together: the feeder loops until it is stopped and the receiver task
never ends. `SatLink` assumes it of the feeder's loop (every call in it has a
timeout or returns), of the two tasks and of time. `WifiMgr` assumes that the
start comes and that the slow timer comes round and is answered by `iw` now and
then (`Answered`); `LostLinkIsNoticed` would be false without an answer, because
the code then keeps what it believed. `Ui` assumes that the timer of the shown
screen comes round. `Probes` assumes that time passes while a probe waits, that
`SO_RCVTIMEO` ends the wait, and that the thread goes on; nothing keeps short
packets away, so `TicksEnd` excepts a stream of them that never ceases. No fairness is assumed
of users, faults, the network or the kernel. The other modules state safety only.

No run switches off the deadlock check: the monitor never stops by itself.

## Proofs

All proofs hold for every value of the constants that satisfies the named
assumptions (positive sizes, thresholds in order, a log that holds the alerts of
one check, payloads that fit the buffer, checksums of two bytes). One of them
is about time: `PeriodsAssumption` of `Monitor` wants the probes of a slow tick
and a round of checks to fit into a slow period, and the checks of a hysteresis
that begins with a slow tick as well. Nominally that is 14 s of timeouts and two
rounds of 5 s in 30 s (`net_collector.c:509-530`). It does not cover the extreme
in which every ping waits for nearly two timeouts (see `net_ping.c:135` below):
19 s and two rounds of 6 s are a second too long.

* `NetCollectorProofs!RingTypeHolds`, `RingImplementsLog`. `RingTypeOK` is
  inductive. A push before the buffer is full appends to `Contents` (lemma
  `PushAppends`), one after that drops the first element (`PushShifts`); both rest
  on lemmas that replace the modulo by a case distinction. `HistoriesAreRings`
  joins the two modules: what a reader of the buffer sees after a push is
  `history_push` of `NetCollector`, so the accounting may use the log.
* `AlertsProofs!AlertsNeedPersistence`. That an alert comes exactly after
  `Hysteresis` bad checks is not inductive. `CounterInv` adds the types, the
  relation between counter and streak, and that rows beyond the known
  interfaces were never counted.
* `AlertsProofs!IndicesCorrect`, `BadgeCorrect`, `TypeCorrect`. `LogInv` joins
  the three: a check writes below the new count, because until the log is full
  the head is the count; hence the recount finds every active entry.
* `SatReceiverProofs!TypeCorrect`, `NoOverrun`. The stage of the receiver
  determines how many bytes the buffer holds, and past the header that header,
  payload and checksum fit (`StageMatchesBuffer`); this is inductive and bounds
  the position.
* `SatReceiverProofs!CleanFramesArrive`. `CleanSoFar`: while a clean frame is on
  its way the buffer holds exactly the bytes that have arrived. `FrameShape`
  says where the encoder puts each field; the receiver's tests then all succeed.
* `SatReceiverProofs!InventionIsCollision`, `FramesAreNotMistaken`. `NothingInvented`
  is false for arbitrary payloads and noise, because a checksum of 16 bits lets
  some damaged frames through; the run shows it for the frames and faults of its
  instance. Two theorems say what is left of it for every instance. `PassingSoFar`
  says which tests the bytes in the buffer have passed at each stage, and
  `ShownPassed` that what is shown has passed all of them: a snapshot that was not
  sent needs foreign bytes that pass (`Collision`). `Undisturbed` says that without
  faults the buffer holds the frame on its way up to the byte that has arrived, so
  nothing is ever taken for a frame but a frame.
* `SatLinkProofs!FeederGivesUp`, `HeartbeatsCorrect`. `FeederInv`: the count of
  failures equals the rounds without a snapshot, and `heartbeat_counter` is
  never behind the fetches that failed in silence. One lemma (`FeederRound`)
  covers the end of a round for every branch.
* `SatLinkProofs!LabelCorrect`. What the label may say depends on who has run in
  the current unit: `ClockInv` bounds the age of a connection before and after
  the check, `PaintInv` and `LabelInv` that of a label before and after a paint.
* `SatLinkProofs!PictureCorrect`. `DataInv` says to which snapshot each part of
  `s_data` belongs at each point of an update, `HalfPainted` the same of a
  picture in the making.
* `SatLinkProofs!TypeCorrect` collects the types from these invariants.

* `AlertsProofs!EngineKeepsItsPromises`. A medium tick of `Monitor` is a check of
  the engine with the observation that the loop has made; everything else leaves
  the engine alone. The invariants of the engine are therefore those of the loop.
* `AlertsProofs!DownGetsReported`, `AlarmsEnd`. That a row has been down for no
  longer than the bound says nothing about how much of the way to its report is
  left. `ReportInv` adds what the ages of the timers and the blocked time can be
  in each state of a turn (`LoopInv`); how long a row can have been out of date,
  measured by the age of the slow timer (`StaleInv`); and, once it is up to date,
  that the time gone by and the time that the outstanding checks still take are
  within the bound together (`Within`). A slow tick can fall due in a turn of its
  own and block the next check, but hardly again before the last one: so the
  budget has room for its probes, or it comes too late to matter (`Fits`). The
  arithmetic is in lemmas about numbers (`FitsTurn` to `FitsFromChange`). An
  earlier form of the bound, in whole periods, was false for finer units of time.
* `InfraMonitorProofs!TurnsAreFair`, `TypeCorrect`. That a device has waited less
  than a round is not inductive. `TurnComes` is: what it has waited and the
  distance from the index to it are together less than the size of the table.
  The search returns the nearest enabled device (`PingedIsNext`), so every other
  device comes nearer by at least what it has waited longer; a device that is
  added or switched on starts without a wait. Both start from any count that is
  not above the table, so from negative ones too: the table is then empty until
  as many devices have been added.
* `ConfigProofs!SavesAreDurable`. `DurableInv` says where the promise of the last
  save is. A save under way promises what it is about to write (`SavingInv`).
  Afterwards the file says it (`FileInv`): at most one of its lines reads as a
  promised key, and that line is the key's own; only a save that was cut may
  have no such line or a torn one. While it loads, the table says what the lines
  taken so far say (`LoadInv`), and then it keeps the promise for all keys that
  were not set since (`WorkInv`). What is left of a table fits the table, hence
  its load drops nothing. As remnants may stand in it twice, the first entry of a
  key is the least of several (`LeastExists`); `SetIs` says what a set does to
  each key, `WritesIs` what a save of a table makes the file say.
* `ConfigProofs!ScreenIsTable`, `TypeCorrect`. `ScreenInv` relates each field to
  the table through all the steps of a save.
* `ProbesProofs!PingsAreAnswered`. `AirInv`: an answer's number is at most as many
  pings behind the running one as there were probes since. An answer with the
  running number is then the answer, unless it is `SeqMod` probes old, which the
  age at which answers are dropped excludes.
* `ProbesProofs!PingsAreBounded`. `ClockInv` relates the time since the request to
  the time since the last `recvfrom` and to the short packets heard, for as long
  as they are counted; as `MaxShort` is arbitrary, so is the count.
* `ProbesProofs!TraceIsThePath`, `HealthIsMeasured`. `HopInv` counts hops and
  probes at each stage; `JudgedInv` ties the loss on the screen to the last test.
* `NetCollectorProofs!DaysAreMinutes`, `ChartsAreBounded`. `AccountInv` holds the
  types, for every row of the array, also of those that only a later slow tick
  will fill, and the peaks. `DaysAreMinutes` is about steps: `PaceIs` bounds the
  rate of a tick by its bytes, with equality for a gap of one second, `TickAdds`
  follows both through accumulator, push and total. It says nothing of early
  ticks, whose rate exceeds the bytes. `ModSum`, `ModMove` and `ModStep` move
  differences of counters through the modulus.
* `NetCollectorProofs!RowsAreUnambiguous`, for boards on which no interface has two
  addresses at boot: the first enumeration takes its entries as they are, so the
  hypothesis cannot be dropped (hazard at `net_collector.c:571`). After that the
  slow tick adds only names that it does not find.
* `NetCollectorProofs!TotalsAreTraffic`, for boards whose addressed devices come
  first and where of the others only the next one may ever get an address. On
  other boards it is false, as the run `net_collector_unaddressed` shows. `Boards`
  says that the table is a prefix of the order at boot (`TableIsPrefix`), that a
  device only moves forward in the kernel's list unless it comes back
  (`MovesForward`), and hence that a row of the stored reading and the row of the
  table it is subtracted from are the same device (`ReadingsAgree`); `Measured`
  says up to which reading each row has been counted.

* `ScreenProofs!ScansAreExact`, `WifiTypesHold`. The parser's loop is a recursive
  function; `Rounds` and `Loop` turn it into facts about each round by induction
  on a set of numbers instead of an operator. `ParserFollows` then carries a
  relation between the parser and `Told` through the lines, past the point where
  the slots are full. `ScanIsExact` alone is not inductive, because a scan that
  fails shows the slots again: `ScanInv` adds that, as long as any are counted,
  the slots hold what the dropdown should offer.
* `ScreenProofs!CardsAreRight`. The code counts visible interfaces up to the card;
  `VisibleIs` and `PlacesAre` say where that count ends, `VisibleGrows` that it
  ends there still when the table has grown. `CardInv` relates cards and labels
  to today's table, although they were made for an earlier one.
* `ScreenProofs!ChartIsSelected`. `ChartInv`: the selector lists a prefix of the
  table, the totals belong to the line selected, and the lines of the chart as
  well unless that row has no history (`ChartFlush`: or has had one only since
  the last refresh). The selector
  is rebuilt only when its selected line is not the name in the table; as the table
  only grows, the other lines are then right as well.

Only model-checked: all liveness properties, which are out of the prover's reach
(`EveryDeviceIsPinged`, `Resynchronises`, `SilenceIsShown`, `DeadMonitorStopsFeeder`,
`LostLinkIsNoticed`, `AlertsAreListed`, `BadgeCatchesUp`, `LaterTapIsShown`,
`TicksEnd`, the last with its exception of short packets that never cease);
`SatReceiver!NothingInvented` as it stands, without the collision of the checksum
or the restriction to faultless lines. `SatCrc16` uses bitwise operators and is
only evaluated.

## Divergences noted while modelling

Behaviours of the code that a manual, a header or a comment describes
differently. The models have the behaviour of the code; a property that would
state the description is false of them.

* `net_collector.c:382`: the one-minute samples (`developer_manual.md:699`,
  `user_manual.md:139`) add up rates, once per tick, so the bytes of a second in
  which the main loop was blocked are in the total of the day but in no sample.
* `net_collector.c:81`: a stored count below zero is taken as it is, and Add
  Device then writes before its arrays (`ui_settings.c:283`, `:321`).
* `alerts.c:172`: the active count is too high right after an alert, whose
  entries are counted twice (`alerts.h:63`).
* `main.c:119`: LVGL's clock follows the wall clock (`developer_manual.md:798`),
  so its periods are those of the manual only while nobody sets the clock.
* `alerts.c:119`: an alert stays active however long its condition has been
  gone; only Clear All ends it (`user_manual.md:187`).
* `alerts.c:161`: the third check after the start raises a DNS alert although
  no server has been asked (`user_manual.md:172`); and `net_dns.c` takes an
  answer that the name does not exist for success.
* `sat_encoder.c:130`: severities are copied into a field of another numbering,
  so that a critical alert is amber on the satellite (`sat_protocol.h:87`,
  `user_manual.md:183`).
* `ui_interface.c:93`: the first tap on a card opens the details of the first
  interface, because the builder resets what the tap has set
  (`user_manual.md:55`). `LaterTapIsShown` excepts that tap.
* `ui_traffic.c:273`: a new interface shows the 24-hour lines of the one before
  it under its own name until its first minute is over (`user_manual.md:139`).
  `SelectionIsCharted` excepts the lines of an interface without a history.
* `ui_dashboard.c:387`: behind a hidden interface the cards show the values of
  their neighbours. `CardsAgree` excepts those cards.
* `ui_alerts.c:175`: once the log is full the list no longer changes, and its
  order is that of the array, not of time. `ui_manager.c:362`: the badge is
  not refreshed on the other screens (`user_manual.md:191`).
* `net_wifi_mgr.c:197`: with all slots in use the count of a scan can be one
  more than the slots; a failed scan shows the results of the one before; an
  adapter without a link can read as disabled, which forbids to connect it.
* `net_wifi_mgr.c:150`: the fallback to `iwlist` (also at `:7`) never yields a
  network, because the parser knows the output of `iw` only. A long output is
  cut in the middle of a network (`:63`, `:144`), and a scan without a name
  leaves the list of an earlier one in the dropdown, under "Found 0 networks".
* `net_ping.c:135`: a ping may wait for nearly two timeouts (`net_ping.h` calls
  the timeout a maximum), and `:118`: each short packet starts the wait again
  without a look at the time, so a stream of them never lets the tick end.
* `net_discovery.c:106`: the trace takes any answer for its own; the latency of
  the WAN is that of the last hop that answered, not of the first beyond the
  gateway (`net_discovery.h`).
* `config.c:113`: a key of 64 characters or more is cut when it is appended and
  not found again, so that posting it twice makes two entries; one with blanks
  around it or a `=` in it is another key after a restart.
* `config.c:130`: a save truncates the file before it writes, so one that is cut
  short loses what all the saves before had written.
* `config.c:134`: a full disk is not noticed, the Save button still turns green.
  A file named on the command line is read, but every save goes to the default path.
* `data_store.c:52`: the history file is read and thrown away, so no chart
  survives a restart (`developer_manual.md:284`).

## Plan

A start that fails or finds two addresses in `NetCollector`
(`net_collector.c:571`, `:575`).

## Not modelled

Framebuffer and touch drivers, theme, layout, logging and string utilities (no
control state); the readers of ARP, connection and wireless tables and the
connection list (filled afresh every time and only displayed); the read-only
HTTP routes and the beacon (they serialise the state); `data_store.c` (nothing
depends on what it reads); `assess_health` and the other values that a refresh
only formats; the vendored mongoose and cJSON, which are most of the lines of
the repository and none of its own logic.
