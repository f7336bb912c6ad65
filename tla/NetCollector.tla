---------------------------- MODULE NetCollector ----------------------------
(***************************************************************************)
(* Traffic accounting of src/src/net/net_collector.c: the interface table, *)
(* which the slow tick extends, and what the fast tick derives from two    *)
(* successive readings of /proc/net/dev: rates, peaks, daily totals, the   *)
(* short history and the one-minute samples of the long history.           *)
(*                                                                         *)
(* Only the received bytes are modelled: sent bytes, packets and errors go *)
(* through the same subtraction.  The timer asks for a tick every second;  *)
(* a blocked main loop makes one late and LVGL does not catch up, and one  *)
(* after a late reading of the clock comes early.  A rate is in whole      *)
(* bytes per second, where the code has floating point.  The histories are *)
(* the bounded logs that the circular buffers are proved to implement      *)
(* (module RingBuffer).                                                    *)
(***************************************************************************)
EXTENDS Integers, Sequences, FiniteSets, SequencesExt, FiniteSetsExt

CONSTANTS
  BootOrder,         \* devices other than lo, in the kernel's order at boot
  BootAddressed,     \* those with an IPv4 address when the program starts
  MayGainAddress,    \* those that may get an address while it runs
  Removable,         \* those that may be unregistered and come back
  Aliased,           \* those that have a second address whenever they have one
  MaxInterfaces,     \* APP_MAX_INTERFACES
  CounterMod,        \* 2^64: byte counters and totals wrap
  BootCounters,      \* what the byte counters may show at boot
  MaxDelta,          \* bytes each device receives between two ticks, at most
  Second,            \* units of time in a second
  Gaps,              \* time that may pass between two fast ticks
  ShortLen,          \* APP_HISTORY_SHORT_LEN
  MinuteLen          \* 60 fast ticks to a sample of the long history

Name   == Range(BootOrder)
Slot   == 1 .. MaxInterfaces
Word   == 0 .. CounterMod - 1
NoName == "none"     \* the zeroed name of a table row never written
Never  == -1

ASSUME CollectorAssumption ==
  /\ MaxInterfaces \in Nat \ {0} /\ CounterMod \in Nat \ {0}
  /\ ShortLen \in Nat \ {0} /\ MinuteLen \in Nat \ {0}
  /\ Second \in Nat \ {0} /\ Gaps \subseteq Nat \ {0}
  /\ MaxDelta \in [Name -> 0 .. CounterMod - 1]
  /\ BootCounters \subseteq 0 .. CounterMod - 1
  /\ BootOrder \in Seq(Name) /\ IsInjective(BootOrder) /\ NoName \notin Name
  /\ BootAddressed \subseteq Name /\ MayGainAddress \subseteq Name
  /\ Removable \subseteq Name /\ Aliased \subseteq Name

-----------------------------------------------------------------------------
VARIABLES
  (* The kernel. *)
  devices,        \* registered devices, in the order /proc/net/dev lists them
  addressed,      \* devices with an IPv4 address
  counter,        \* the byte counter of each device
  (* The collector. *)
  ifaces,         \* names in g_state.ifaces, in order; num_ifaces is its length
  prev_stats,     \* g_prev_stats: name and bytes of every row
  prev_valid,     \* g_prev_valid
  rate,           \* rx_bytes_per_sec of each row of the table
  peak,           \* peak_rx_bps
  today,          \* rx_bytes_today
  short_history,  \* g_short_history, oldest first
  minute_acc,     \* g_minute_rx_acc
  minute_count,   \* g_minute_sample_count
  (* History, for the properties only: *)
  moved,          \* bytes each device has really received since it was registered
  seen,           \* moved, at the last reading that succeeded
  from,           \* seen, at the reading an interface is measured from
  replugged,      \* devices that came back with a counter of zero
  long_sum,       \* sum of the rates in all samples pushed to the long history
  gap             \* time between the last two fast ticks; 0 before the first

kernel    == <<devices, addressed, counter>>
table     == <<ifaces>>
account   == <<prev_stats, prev_valid, rate, peak, today, short_history,
               minute_acc, minute_count>>
truth     == <<moved, seen, from, replugged, long_sum, gap>>
vars      == <<kernel, table, account, truth>>

num_ifaces == Len(ifaces)

-----------------------------------------------------------------------------
(***************************************************************************)
(* Readings.                                                               *)
(***************************************************************************)
\* parse_proc_net_dev: the first MaxInterfaces devices with their counters.
parse_proc_net_dev(bytes) ==
  [i \in 1 .. Min({MaxInterfaces, Len(devices)}) |->
     [name |-> devices[i], bytes |-> bytes[devices[i]]]]

\* The place of a device in the kernel's list.
Place(n) == CHOOSE i \in DOMAIN devices : devices[i] = n

\* How many entries SIOCGIFCONF has for a device: one for every address.
Entries(n) == CASE n \notin addressed -> 0 [] n \in Aliased -> 2 [] OTHER -> 1

Mentions(q, n) == Cardinality({i \in DOMAIN q : q[i] = n})

\* net_enumerate_interfaces: the entries in the order of the kernel, of which
\* the first MaxInterfaces are taken.  The set has one member.
net_enumerate_interfaces ==
  {q \in SeqOf(addressed, MaxInterfaces) :
     /\ \A i, j \in DOMAIN q : i < j => Place(q[i]) <= Place(q[j])
     /\ \A n \in Name :
          \/ Mentions(q, n) = Entries(n)
          \/ /\ Mentions(q, n) < Entries(n) /\ Len(q) = MaxInterfaces
             /\ \A i \in DOMAIN q : Place(q[i]) <= Place(n)}

\* Mutant: the search stops before the last row.
RowOfButLast(name) ==
  LET found == {k \in 1 .. num_ifaces - 1 : ifaces[k] = name}
  IN  IF found = {} THEN 0 ELSE Min(found)

\* The row of the table that holds a name; 0 if none does.
RowOf(name) ==
  LET found == {k \in 1 .. num_ifaces : ifaces[k] = name}
  IN  IF found = {} THEN 0 ELSE Min(found)

\* The row of the previous reading that holds a name; 0 if none is found.
\* The search covers as many rows as there are interfaces in the table.
PrevRowOf(name) ==
  LET found == {j \in 1 .. num_ifaces : prev_stats[j].name = name}
  IN  IF found = {} THEN 0 ELSE Min(found)

\* history_push, on the bounded log that the circular buffer implements.
history_push(q, v) == Append(IF Len(q) < ShortLen THEN q ELSE Tail(q), v)

-----------------------------------------------------------------------------
(***************************************************************************)
(* The fast tick.  d is what each registered device received since the     *)
(* tick before; readable is whether /proc/net/dev could be opened; dt is   *)
(* the time since the tick before, which is that of the reading before     *)
(* unless that tick could not read.                                        *)
(***************************************************************************)
Received(d) == [n \in Name |-> (counter[n] + d[n]) % CounterMod]

\* Mutant: the first tick trusts the reading of net_collector_init.
FreshAlways(cur) ==
  {k \in 1 .. num_ifaces :
     /\ \E i \in DOMAIN cur : RowOf(cur[i].name) = k
     /\ PrevRowOf(ifaces[k]) # 0}

\* The rows for which the tick finds a new and a previous reading.
Fresh(cur) ==
  {k \in 1 .. num_ifaces :
     /\ prev_valid
     /\ \E i \in DOMAIN cur : RowOf(cur[i].name) = k
     /\ PrevRowOf(ifaces[k]) # 0}

\* What row k received between the two readings, in unsigned arithmetic.
Delta(bytes, k) ==
  (bytes[ifaces[k]] - prev_stats[PrevRowOf(ifaces[k])].bytes) % CounterMod

\* delta / dt, in whole bytes per second.
PerSecond(delta, dt) == (delta * Second) \div dt

\* Mutant: the peak follows the last rate.
LastRate(p, v) == v

NewPeak(p, v) == Max({p, v})

\* Mutant: the accumulators are not reset with the sample.
AccKept(acc, full) == acc

\* The accumulators after the tick: a full minute is pushed and reset.
AccAfter(acc, full) ==
  [k \in Slot |-> IF full /\ k <= num_ifaces THEN 0 ELSE acc[k]]

fast_timer_cb(d, readable, dt) ==
  LET bytes == Received(d)
      cur   == IF readable THEN parse_proc_net_dev(bytes) ELSE << >>
      fresh == Fresh(cur)
      delta == [k \in fresh |-> Delta(bytes, k)]
      pace  == [k \in fresh |-> PerSecond(delta[k], dt)]
      acc   == [k \in Slot |-> minute_acc[k] + IF k \in fresh THEN pace[k] ELSE 0]
      full  == minute_count + 1 >= MinuteLen
  IN  /\ counter' = bytes /\ gap' = dt
      /\ rate'  = [k \in Slot |-> IF k \in fresh THEN pace[k] ELSE rate[k]]
      /\ peak'  = [k \in Slot |-> IF k \in fresh THEN NewPeak(peak[k], pace[k]) ELSE peak[k]]
      /\ today' = [k \in Slot |-> IF k \in fresh THEN (today[k] + delta[k]) % CounterMod
                                                  ELSE today[k]]
      /\ short_history' = [k \in Slot |-> IF k \in fresh
                                            THEN history_push(short_history[k], pace[k])
                                            ELSE short_history[k]]
      /\ minute_count' = IF full THEN 0 ELSE minute_count + 1
      /\ minute_acc' = AccAfter(acc, full)
      /\ prev_stats' = [j \in Slot |-> IF j \in DOMAIN cur THEN cur[j] ELSE prev_stats[j]]
      /\ prev_valid' = TRUE
      /\ moved' = [n \in Name |-> (moved[n] + d[n]) % CounterMod]
      /\ seen'  = [n \in Name |-> IF \E i \in DOMAIN cur : cur[i].name = n
                                    THEN moved'[n] ELSE seen[n]]
      /\ from'  = [k \in Slot |->
                     IF from[k] = Never /\ prev_valid /\ k <= num_ifaces
                       THEN seen[ifaces[k]] ELSE from[k]]
      /\ long_sum' = [k \in Slot |->
                        IF full /\ k <= num_ifaces THEN (long_sum[k] + acc[k]) % CounterMod
                                                   ELSE long_sum[k]]
      /\ UNCHANGED <<devices, addressed, ifaces, replugged>>

(***************************************************************************)
(* The slow tick re-enumerates: names it does not know are appended, once, *)
(* while there is room, and nothing is ever removed.  An enumeration that  *)
(* fails finds nothing.                                                    *)
(***************************************************************************)
\* The names in an enumeration that the table does not hold.
NewNames(found) == {n \in Range(found) : RowOf(n) = 0}

\* The rows for new names, each once and in the order of the kernel: all of
\* them, or the first of them that fit.  The set has one member.
NewRows(new) ==
  {q \in SeqOf(new, MaxInterfaces - num_ifaces) :
     /\ \A i, j \in DOMAIN q : i < j => Place(q[i]) < Place(q[j])
     /\ \A n \in new \ Range(q) :
          /\ Len(q) = MaxInterfaces - num_ifaces
          /\ \A i \in DOMAIN q : Place(q[i]) < Place(n)}

slow_timer_cb(works) ==
  /\ \E found \in IF works THEN net_enumerate_interfaces ELSE {<< >>} :
       \E q \in NewRows(NewNames(found)) : ifaces' = ifaces \o q
  /\ UNCHANGED <<kernel, account, truth>>

(***************************************************************************)
(* The kernel's side.                                                      *)
(***************************************************************************)
GainAddress(n) ==
  /\ n \in (MayGainAddress \cap Range(devices)) \ addressed
  /\ addressed' = addressed \cup {n}
  /\ UNCHANGED <<devices, counter, table, account, truth>>

\* A lease expires: the device is no longer enumerated, its row stays.
LoseAddress(n) ==
  /\ n \in MayGainAddress \cap addressed
  /\ addressed' = addressed \ {n}
  /\ UNCHANGED <<devices, counter, table, account, truth>>

Unregister(n) ==
  /\ n \in Removable \cap Range(devices)
  /\ devices' = RemoveAt(devices, Place(n))
  /\ addressed' = addressed \ {n}
  /\ UNCHANGED <<counter, table, account, truth>>

\* A device that comes back is last in the list and counts from zero.
Register(n) ==
  /\ n \in Removable \ Range(devices)
  /\ devices' = Append(devices, n)
  /\ addressed' = addressed \cup {n}
  /\ counter' = [counter EXCEPT ![n] = 0]
  /\ replugged' = replugged \cup {n}
  /\ moved' = [moved EXCEPT ![n] = 0] /\ seen' = [seen EXCEPT ![n] = 0]
  /\ UNCHANGED <<table, account, from, long_sum, gap>>

\* net_collector_init: the first enumeration, whose entries become rows as
\* they are, and the first reading, which the first fast tick does not use
\* (g_prev_valid is still 0).
net_collector_init ==
  /\ devices = BootOrder
  /\ addressed = BootAddressed
  /\ counter \in [Name -> BootCounters]
  /\ ifaces \in net_enumerate_interfaces
  /\ LET cur == parse_proc_net_dev(counter)
     IN  prev_stats = [j \in Slot |-> IF j \in DOMAIN cur THEN cur[j]
                                      ELSE [name |-> NoName, bytes |-> 0]]
  /\ prev_valid = FALSE
  /\ rate = [k \in Slot |-> 0] /\ peak = [k \in Slot |-> 0] /\ today = [k \in Slot |-> 0]
  /\ short_history = [k \in Slot |-> << >>]
  /\ minute_acc = [k \in Slot |-> 0] /\ minute_count = 0
  /\ moved = [n \in Name |-> 0] /\ seen = [n \in Name |-> 0]
  /\ from = [k \in Slot |-> Never] /\ replugged = {}
  /\ long_sum = [k \in Slot |-> 0] /\ gap = 0

\* What the devices may receive between two ticks.
Traffic ==
  {d \in [Name -> Word] :
     \A n \in Name : d[n] <= IF n \in Range(devices) THEN MaxDelta[n] ELSE 0}

Next ==
  \/ \E d \in Traffic, readable \in BOOLEAN, dt \in Gaps : fast_timer_cb(d, readable, dt)
  \/ \E works \in BOOLEAN : slow_timer_cb(works)
  \/ \E n \in Name :
       GainAddress(n) \/ LoseAddress(n) \/ Unregister(n) \/ Register(n)

Spec == net_collector_init /\ [][Next]_vars

-----------------------------------------------------------------------------
(***************************************************************************)
(* Properties.                                                             *)
(***************************************************************************)
\* The table fits its array and names each interface once: the row that a
\* reading, a history and an alert counter are filed under is unambiguous.
TableIsAnIndex ==
  /\ num_ifaces <= MaxInterfaces
  /\ IsInjective(ifaces)

\* The total for the day is what the interface received from the reading it
\* is measured from up to the last one (user_manual.md:98): no second is
\* skipped or counted twice, across late addresses, unreadable seconds and
\* the wrap of the counter.  A device that comes back with a new counter is
\* excepted: the subtraction then runs backwards (net_collector.c:350).  So
\* are boards where a device without an address precedes one with an address
\* (net_collector.c:339): the second run of this module is about those.
TodayIsTraffic ==
  \A k \in 1 .. num_ifaces :
    from[k] # Never /\ ifaces[k] \notin replugged =>
      today[k] = (seen[ifaces[k]] - from[k]) % CounterMod

\* What a step adds to the total for the day, and to the long history with
\* the minute being accumulated.
Total(k)   == (today'[k] - today[k]) % CounterMod
Minutes(k) == ((long_sum'[k] + minute_acc'[k]) - (long_sum[k] + minute_acc[k])) % CounterMod

Paced ==
  \A k \in Slot : /\ gap' = Second => Minutes(k) = Total(k)
                  /\ gap' > Second => Minutes(k) <= Total(k)

\* The minutes keep pace with the daily total, and never run ahead of it
\* after a late tick: what a tick a second after the last one adds to the
\* total, it adds to the long history or the minute being accumulated, once,
\* also when the minute is pushed and when the second before it could not be
\* read.  After a longer gap it adds no more than that, but it may add less,
\* since the minutes take the rate and the total the bytes
\* (net_collector.c:353, 371, 382): what a blocked main loop misses is in no
\* sample.
MinutesKeepPace == [][Paced]_vars

\* The peak shown beside a chart bounds every sample of the chart, also when
\* ticks come late or early.
PeakBoundsHistory ==
  \A k \in Slot : \A i \in DOMAIN short_history[k] : short_history[k][i] <= peak[k]
=============================================================================
