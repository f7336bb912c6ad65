---------------------------- MODULE AlertsProofs ----------------------------
(***************************************************************************)
(* Theorems about the alert engine, alone and driven by the main loop, for *)
(* every number of interfaces, log length, hysteresis, set of ignored      *)
(* interfaces, and every period and time that the probes block.            *)
(***************************************************************************)
EXTENDS Monitor, FiniteSetTheorems, TLAPS

\* There are finitely many conditions.
LEMMA CondFinite == IsFiniteSet(Cond)
<1>1. IsFiniteSet(Iface)
  <2>1. 0 \in Int /\ MaxInterfaces - 1 \in Int
    BY AlertsAssumption
  <2>2. QED
    BY <2>1, FS_Interval DEF Iface
<1>2. IsFiniteSet({"IFACE_DOWN", "PACKET_ERRORS"})
  <2>1. IsFiniteSet({} \cup {"IFACE_DOWN"} \cup {"PACKET_ERRORS"})
    BY FS_EmptySet, FS_AddElement
  <2>2. {"IFACE_DOWN", "PACKET_ERRORS"} = {} \cup {"IFACE_DOWN"} \cup {"PACKET_ERRORS"}
    OBVIOUS
  <2>3. QED
    BY <2>1, <2>2
<1>3. IsFiniteSet(IfaceCond)
  BY <1>1, <1>2, FS_Product DEF IfaceCond
<1>4. IsFiniteSet(SystemCond)
  <2>1. IsFiniteSet({} \cup {Gateway} \cup {Latency} \cup {Dns})
    BY FS_EmptySet, FS_AddElement
  <2>2. SystemCond = {} \cup {Gateway} \cup {Latency} \cup {Dns}
    BY DEF SystemCond
  <2>3. QED
    BY <2>1, <2>2
<1>5. QED
  BY <1>3, <1>4, FS_Union DEF Cond

\* The order of evaluation is a number.
LEMMA OrderType == \A c \in Cond : Order(c) \in Nat
<1> SUFFICES ASSUME NEW c \in Cond
             PROVE  Order(c) \in Nat
  OBVIOUS
<1>1. CASE c \in IfaceCond
  BY <1>1, AlertsAssumption DEF IfaceCond, Iface, Order
<1>2. CASE c \in SystemCond
  BY <1>2, AlertsAssumption DEF SystemCond, Gateway, Latency, Dns, Order
<1>3. QED
  BY <1>1, <1>2 DEF Cond

\* A check pushes finitely many alerts, and before the alert of a condition
\* it pushes fewer than all of them.
LEMMA BeforeBound ==
  ASSUME NEW P \in SUBSET Cond
  PROVE  /\ Cardinality(P) \in Nat
         /\ Cardinality(P) = 0 <=> P = {}
         /\ \A c \in P : Before(c, P) \in 0 .. Cardinality(P) - 1
<1>1. IsFiniteSet(P)
  BY CondFinite, FS_Subset
<1>2. Cardinality(P) \in Nat
  BY <1>1, FS_CardinalityType
<1>3. Cardinality(P) = 0 <=> P = {}
  BY <1>1, FS_EmptySet
<1>4. ASSUME NEW c \in P
      PROVE  Before(c, P) \in 0 .. Cardinality(P) - 1
  <2> DEFINE S == {d \in P : Order(d) < Order(c)}
  <2>1. S \subseteq P \ {c}
    BY OrderType
  <2>2. IsFiniteSet(P \ {c}) /\ Cardinality(P \ {c}) = Cardinality(P) - 1
    BY <1>1, FS_RemoveElement
  <2>3. Cardinality(S) \in Nat /\ Cardinality(S) <= Cardinality(P) - 1
    <3>1. IsFiniteSet(S) /\ Cardinality(S) <= Cardinality(P \ {c})
      BY <2>1, <2>2, FS_Subset
    <3>2. QED
      BY <2>2, <3>1, FS_CardinalityType
  <2>4. QED
    BY <1>2, <2>3 DEF Before
<1>5. QED
  BY <1>2, <1>3, <1>4

-----------------------------------------------------------------------------
(***************************************************************************)
(* The counters.  That an alert is pushed exactly at the end of a run of   *)
(* bad checks is not inductive: it needs the value of the counter, and     *)
(* that a row which a check skips was never counted before.                *)
(***************************************************************************)
CounterTypeOK ==
  /\ hyst_counters \in [Counted -> 0 .. Hysteresis - 1]
  /\ num_ifaces \in 0 .. MaxInterfaces
  /\ raised \subseteq Cond
  /\ streak \in [Cond -> 0 .. 2 * Hysteresis - 1]

StreakOnlyWhereWatched ==
  \A c \in IfaceCond :
    streak[c] # 0 => c[2] < num_ifaces /\ c[2] \notin Ignored

\* The counter of a condition is the length of its current run of bad checks
\* modulo the hysteresis: neither an alert, nor Clear All, nor an interface
\* that appears later makes a counter lose or gain a check.
CounterFollowsStreak ==
  \A c \in Counted :
    hyst_counters[c] = IF streak[c] < Hysteresis THEN streak[c]
                                                 ELSE streak[c] - Hysteresis

CounterInv ==
  /\ CounterTypeOK
  /\ StreakOnlyWhereWatched
  /\ CounterFollowsStreak
  /\ RaisedOnPersistence

\* A condition that a check skips belongs to an interface it does not watch.
LEMMA SkippedRow ==
  ASSUME NEW n \in 0 .. MaxInterfaces, NEW o, o.num_ifaces = n,
         NEW c \in Cond, c \notin Evaluated(o)
  PROVE  c \in IfaceCond /\ ~(c[2] < n /\ c[2] \notin Ignored)
BY AlertsAssumption
   DEF Cond, Evaluated, Watched, IfaceCond, Iface

\* What is evaluated is a condition, and belongs to a watched interface.
LEMMA EvaluatedRow ==
  ASSUME NEW n \in 0 .. MaxInterfaces, NEW o, o.num_ifaces = n,
         NEW c \in Evaluated(o)
  PROVE  /\ c \in Cond
         /\ c \in IfaceCond => c[2] < n /\ c[2] \notin Ignored
<1>1. CASE c \in SystemCond
  BY <1>1 DEF Cond, SystemCond, Gateway, Latency, Dns, IfaceCond
<1>2. CASE c \in {"IFACE_DOWN", "PACKET_ERRORS"} \X Watched(o)
  BY <1>2, AlertsAssumption DEF Cond, Watched, IfaceCond, Iface
<1>3. QED
  BY <1>1, <1>2 DEF Evaluated

\* alerts_init zeroes every counter.
LEMMA CounterInit == alerts_init => CounterInv
BY AlertsAssumption
   DEF alerts_init, CounterInv, CounterTypeOK, StreakOnlyWhereWatched,
       CounterFollowsStreak, RaisedOnPersistence, Counted, IfaceCond, Cond

\* A check keeps the counters, the streaks and the pushes in step.
LEMMA CounterCheck ==
  ASSUME CounterInv,
         NEW n \in num_ifaces .. MaxInterfaces, NEW o, o.num_ifaces = n,
         alerts_check(o)
  PROVE  CounterInv'
<1> DEFINE E == Evaluated(o)
           B == Bad(o)
           P == Pushes(o)
<1> USE AlertsAssumption
<1>1. /\ n \in 0 .. MaxInterfaces
      /\ o.num_ifaces = n
  BY DEF CounterInv, CounterTypeOK
<1>2. B \subseteq E /\ P \subseteq B /\ E \subseteq Cond
  BY <1>1, EvaluatedRow DEF Bad, Pushes
<1>3. \A c \in B \cap Counted : c \in P <=> hyst_counters[c] + 1 >= Hysteresis
  BY DEF Pushes, Counted
<1>4. /\ hyst_counters' = [c \in Counted |->
                             IF c \notin E THEN hyst_counters[c]
                             ELSE IF c \in B \ P THEN hyst_counters[c] + 1
                             ELSE 0]
      /\ streak' = [c \in Cond |->
                      IF c \notin E THEN streak[c]
                      ELSE IF c \in B THEN Longer(streak[c]) ELSE 0]
      /\ raised' = P
      /\ num_ifaces' = n
  BY <1>1 DEF alerts_check
<1> HIDE DEF E, B, P
<1>5. CounterTypeOK'
  <2>1. hyst_counters' \in [Counted -> 0 .. Hysteresis - 1]
    <3> SUFFICES ASSUME NEW c \in Counted
                 PROVE  hyst_counters'[c] \in 0 .. Hysteresis - 1
      BY <1>4
    <3>1. hyst_counters[c] \in 0 .. Hysteresis - 1
      BY DEF CounterInv, CounterTypeOK
    <3>2. QED
      BY <1>3, <1>4, <3>1
  <2>2. streak' \in [Cond -> 0 .. 2 * Hysteresis - 1]
    <3> SUFFICES ASSUME NEW c \in Cond
                 PROVE  streak'[c] \in 0 .. 2 * Hysteresis - 1
      BY <1>4
    <3>1. streak[c] \in 0 .. 2 * Hysteresis - 1
      BY DEF CounterInv, CounterTypeOK
    <3>2. QED
      BY <1>4, <3>1 DEF Longer
  <2>3. QED
    BY <1>1, <1>2, <1>4, <2>1, <2>2 DEF CounterTypeOK
<1>6. StreakOnlyWhereWatched'
  <2> SUFFICES ASSUME NEW c \in IfaceCond, streak'[c] # 0
               PROVE  c[2] < n /\ c[2] \notin Ignored
    BY <1>4 DEF StreakOnlyWhereWatched
  <2>1. c \in Cond
    BY DEF Cond
  <2>2. CASE c \in E
    BY <1>1, <2>2, EvaluatedRow DEF E
  <2>3. CASE c \notin E
    <3>1. streak[c] # 0
      BY <1>4, <2>1, <2>3
    <3>2. c[2] < num_ifaces /\ c[2] \notin Ignored
      BY <3>1 DEF CounterInv, StreakOnlyWhereWatched
    <3>3. QED
      BY <3>2 DEF CounterInv, CounterTypeOK, IfaceCond, Iface
  <2>4. QED
    BY <2>2, <2>3
<1>7. ASSUME NEW c \in Counted
      PROVE  /\ hyst_counters'[c] = IF streak'[c] < Hysteresis THEN streak'[c]
                                    ELSE streak'[c] - Hysteresis
             /\ c \in raised' <=> streak'[c] = Hysteresis
  <2>1. /\ c \in Cond
        /\ streak[c] \in 0 .. 2 * Hysteresis - 1
        /\ hyst_counters[c] = IF streak[c] < Hysteresis THEN streak[c]
                                                        ELSE streak[c] - Hysteresis
    BY DEF CounterInv, CounterTypeOK, CounterFollowsStreak, Counted
  <2>2. CASE c \notin E
    <3>1. c \in IfaceCond /\ ~(c[2] < n /\ c[2] \notin Ignored)
      BY <1>1, <2>1, <2>2, SkippedRow DEF E
    <3>2. streak[c] = 0
      BY <3>1 DEF CounterInv, CounterTypeOK, StreakOnlyWhereWatched, IfaceCond, Iface
    <3>3. c \notin raised' /\ streak'[c] = 0 /\ hyst_counters'[c] = 0
      BY <1>2, <1>4, <2>1, <2>2, <3>2
    <3>4. QED
      BY <3>3
  <2>3. CASE c \in E \ B
    <3>1. c \notin raised' /\ streak'[c] = 0 /\ hyst_counters'[c] = 0
      BY <1>2, <1>4, <2>1, <2>3
    <3>2. QED
      BY <3>1
  <2>4. CASE c \in B
    <3>1. streak'[c] = Longer(streak[c])
      BY <1>2, <1>4, <2>1, <2>4
    <3>2. c \in P <=> hyst_counters[c] + 1 >= Hysteresis
      BY <1>3, <2>4
    <3>3. hyst_counters'[c] = IF c \in P THEN 0 ELSE hyst_counters[c] + 1
      BY <1>2, <1>4, <2>4
    <3>4. QED
      BY <1>4, <2>1, <3>1, <3>2, <3>3 DEF Longer
  <2>5. QED
    BY <1>2, <2>2, <2>3, <2>4
<1>8. QED
  BY <1>5, <1>6, <1>7 DEF CounterInv, CounterFollowsStreak, RaisedOnPersistence

\* Clear All does not touch the counters.
LEMMA CounterClear ==
  ASSUME CounterInv, alerts_clear_all \/ UNCHANGED vars
  PROVE  CounterInv'
BY DEF alerts_clear_all, vars, engine, history, CounterInv, CounterTypeOK,
       StreakOnlyWhereWatched, CounterFollowsStreak, RaisedOnPersistence

\* The counters follow the runs of bad checks in every state.
LEMMA CounterInvariant == Spec => []CounterInv
<1>1. CounterInv /\ [Next]_vars => CounterInv'
  <2> SUFFICES ASSUME CounterInv, [Next]_vars
               PROVE  CounterInv'
    OBVIOUS
  <2>1. ASSUME NEW n \in num_ifaces .. MaxInterfaces, NEW o \in Observation(n),
               alerts_check(o)
        PROVE  CounterInv'
    <3>1. o.num_ifaces = n
      BY DEF Observation
    <3>2. QED
      BY <2>1, <3>1, CounterCheck
  <2>2. QED
    BY <2>1, CounterClear DEF Next
<1>2. QED
  BY <1>1, CounterInit, PTL DEF Spec

\* Every alert with hysteresis is pushed by exactly the checks that complete
\* a run of Hysteresis bad ones (alerts.c:110-147, 160-170).
THEOREM AlertsNeedPersistence == Spec => [](CounterFollowsStreak /\ RaisedOnPersistence)
BY CounterInvariant, PTL DEF CounterInv

-----------------------------------------------------------------------------
(***************************************************************************)
(* The log and the badge.  That the badge is zero exactly when no entry is *)
(* active needs the agreement of the log's indices: the recount stops at   *)
(* alert_count, so every pushed entry must lie below it.                   *)
(***************************************************************************)
LogTypeOK ==
  /\ alert_log \in [LogSlot -> Entry]
  /\ alert_head \in LogSlot
  /\ alert_count \in 0 .. MaxAlerts
  /\ active_count \in Nat

LogInv ==
  /\ LogTypeOK
  /\ LogIndicesAgree
  /\ BadgeZeroIffNoneActive

\* The head moves over the slots that were pushed, around the end.
LEMMA HeadMoves ==
  ASSUME NEW h \in LogSlot, NEW k \in Nat
  PROVE  /\ (h + k) % MaxAlerts \in LogSlot
         /\ h + k < MaxAlerts => (h + k) % MaxAlerts = h + k
BY AlertsAssumption DEF LogSlot

\* Active entries are finitely many.
LEMMA ActiveCount ==
  ASSUME NEW log, NEW count \in 0 .. MaxAlerts
  PROVE  /\ Cardinality(ActiveIn(log, count)) \in Nat
         /\ Cardinality(ActiveIn(log, count)) = 0 <=> ActiveIn(log, count) = {}
<1>1. 0 \in Int /\ MaxAlerts - 1 \in Int
  BY AlertsAssumption
<1>2. IsFiniteSet(LogSlot)
  BY <1>1, FS_Interval DEF LogSlot
<1>3. IsFiniteSet(ActiveIn(log, count))
  BY <1>2, FS_Subset DEF ActiveIn
<1>4. QED
  BY <1>3, FS_CardinalityType, FS_EmptySet

\* alerts_init leaves an empty log.
LEMMA LogInit == alerts_init => LogInv
<1> SUFFICES ASSUME alerts_init
             PROVE  LogInv
  OBVIOUS
<1>1. Unused \in Entry /\ ~Unused.active
  BY AlertsAssumption DEF Unused, Entry, Cond, IfaceCond, IfaceDown, Iface, Severity
<1>2. QED
  BY <1>1, AlertsAssumption
     DEF alerts_init, LogInv, LogTypeOK, LogIndicesAgree,
         BadgeZeroIffNoneActive, LogSlot

\* A check writes its alerts below the new count and recounts them all.
LEMMA LogCheck ==
  ASSUME LogInv, CounterInv,
         NEW n \in num_ifaces .. MaxInterfaces, NEW o, o.num_ifaces = n,
         alerts_check(o)
  PROVE  LogInv'
<1> DEFINE P == Pushes(o)
           K == Cardinality(P)
           slot == [c \in P |-> SlotOf(c, P)]
<1> USE AlertsAssumption
<1>1. P \in SUBSET Cond
  <2>1. n \in 0 .. MaxInterfaces
    BY DEF CounterInv, CounterTypeOK
  <2>2. QED
    BY <2>1, EvaluatedRow DEF Pushes, Bad
<1>2. /\ K \in Nat
      /\ K = 0 <=> P = {}
      /\ \A c \in P : Before(c, P) \in 0 .. K - 1
  BY <1>1, BeforeBound
<1>3. /\ alert_head \in LogSlot /\ alert_head \in Nat
      /\ alert_count \in 0 .. MaxAlerts
      /\ alert_log \in [LogSlot -> Entry]
      /\ alert_count < MaxAlerts => alert_head = alert_count
      /\ \A s \in LogSlot : s >= alert_count => ~alert_log[s].active
  BY DEF LogInv, LogTypeOK, LogIndicesAgree, LogSlot
<1>4. /\ alert_log' = [s \in LogSlot |->
                         IF \E c \in P : slot[c] = s
                           THEN [cond     |-> CHOOSE d \in P : slot[d] = s,
                                 severity |-> SeverityOf(CHOOSE d \in P : slot[d] = s, o),
                                 active   |-> TRUE]
                           ELSE alert_log[s]]
      /\ alert_head' = (alert_head + K) % MaxAlerts
      /\ alert_count' = IF alert_count + K < MaxAlerts THEN alert_count + K
                                                       ELSE MaxAlerts
      /\ active_count' = K + Cardinality(ActiveIn(alert_log', alert_count'))
  BY DEF alerts_check, PushAll
<1>5. ASSUME NEW c \in P
      PROVE  /\ slot[c] \in LogSlot
             /\ slot[c] < alert_count'
  <2>1. slot[c] = (alert_head + Before(c, P)) % MaxAlerts
    BY DEF SlotOf
  <2>2. /\ Before(c, P) \in Nat /\ Before(c, P) < K
    BY <1>2
  <2>3. slot[c] \in LogSlot
    BY <1>3, <2>1, <2>2, HeadMoves
  <2>4. CASE alert_count + K < MaxAlerts
    <3>1. alert_head = alert_count /\ alert_head + Before(c, P) < MaxAlerts
      BY <1>2, <1>3, <2>2, <2>4
    <3>2. slot[c] = alert_head + Before(c, P)
      BY <1>3, <2>1, <2>2, <3>1, HeadMoves
    <3>3. QED
      BY <1>2, <1>3, <1>4, <2>2, <2>3, <2>4, <3>1, <3>2
  <2>5. CASE ~(alert_count + K < MaxAlerts)
    BY <1>4, <2>3, <2>5 DEF LogSlot
  <2>6. QED
    BY <2>4, <2>5
<1> HIDE DEF P, K, slot
<1>6. ASSUME NEW s \in LogSlot
      PROVE  /\ alert_log'[s] \in Entry
             /\ (\E c \in P : slot[c] = s) => alert_log'[s].active
             /\ ~(\E c \in P : slot[c] = s) => alert_log'[s] = alert_log[s]
  <2>1. CASE \E c \in P : slot[c] = s
    <3> DEFINE c == CHOOSE d \in P : slot[d] = s
    <3>1. c \in P
      BY <2>1
    <3>2. alert_log'[s] = [cond |-> c, severity |-> SeverityOf(c, o), active |-> TRUE]
      BY <1>4, <2>1
    <3>3. SeverityOf(c, o) \in Severity
      BY DEF SeverityOf, Severity
    <3> HIDE DEF c
    <3>4. QED
      BY <1>1, <2>1, <3>1, <3>2, <3>3 DEF Entry
  <2>2. CASE ~(\E c \in P : slot[c] = s)
    BY <1>3, <1>4, <2>2
  <2>3. QED
    BY <2>1, <2>2
<1>7. alert_head' \in LogSlot /\ alert_count' \in 0 .. MaxAlerts
  BY <1>2, <1>3, <1>4, HeadMoves
<1>8. LogIndicesAgree'
  <2>1. ASSUME alert_count' < MaxAlerts
        PROVE  alert_head' = alert_count'
    <3>1. alert_count + K < MaxAlerts
      BY <1>2, <1>3, <1>4, <2>1
    <3>2. alert_head = alert_count
      BY <1>2, <1>3, <3>1
    <3>3. QED
      BY <1>2, <1>3, <1>4, <3>1, <3>2, HeadMoves
  <2>2. ASSUME NEW s \in LogSlot, s >= alert_count'
        PROVE  ~alert_log'[s].active
    <3>1. ~(\E c \in P : slot[c] = s)
      BY <1>5, <1>7, <2>2 DEF LogSlot
    <3>2. s >= alert_count
      BY <1>2, <1>3, <1>4, <1>7, <2>2 DEF LogSlot
    <3>3. QED
      BY <1>3, <1>6, <3>1, <3>2
  <2>3. QED
    BY <2>1, <2>2 DEF LogIndicesAgree
<1> DEFINE A == ActiveIn(alert_log', alert_count')
<1>9. /\ Cardinality(A) \in Nat
      /\ Cardinality(A) = 0 <=> A = {}
  BY <1>7, ActiveCount
<1>10. active_count' \in Nat /\ (active_count' = 0 <=> K = 0 /\ A = {})
  <2>1. active_count' = K + Cardinality(A)
    BY <1>4
  <2>2. K \in Nat
    BY <1>2
  <2> HIDE DEF A, K
  <2>3. QED
    BY <1>9, <2>1, <2>2
<1>11. A = {} <=> \A s \in LogSlot : ~alert_log'[s].active
  <2>1. \A s \in LogSlot : s < alert_count' \/ s >= alert_count'
    BY <1>7 DEF LogSlot
  <2>2. QED
    BY <1>8, <2>1 DEF ActiveIn, LogIndicesAgree
<1>12. K # 0 => \E s \in LogSlot : alert_log'[s].active
  BY <1>2, <1>5, <1>6
<1>13. BadgeZeroIffNoneActive'
  BY <1>10, <1>11, <1>12 DEF BadgeZeroIffNoneActive
<1>14. LogTypeOK'
  <2>1. alert_log' \in [LogSlot -> Entry]
    BY <1>4, <1>6
  <2>2. QED
    BY <1>7, <1>10, <2>1 DEF LogTypeOK
<1>15. QED
  BY <1>8, <1>13, <1>14 DEF LogInv

\* Clear All deactivates every entry and keeps the indices.
LEMMA LogClear ==
  ASSUME LogInv, alerts_clear_all \/ UNCHANGED vars
  PROVE  LogInv'
<1>1. CASE alerts_clear_all
  <2>1. ASSUME NEW s \in LogSlot
        PROVE  alert_log'[s] \in Entry /\ ~alert_log'[s].active
    BY <1>1 DEF alerts_clear_all, LogInv, LogTypeOK, Entry
  <2>2. alert_log' \in [LogSlot -> Entry]
    BY <1>1, <2>1 DEF alerts_clear_all
  <2>3. QED
    BY <1>1, <2>1, <2>2 DEF alerts_clear_all, LogInv, LogTypeOK,
                            LogIndicesAgree, BadgeZeroIffNoneActive
<1>2. CASE UNCHANGED vars
  BY <1>2 DEF vars, engine, history, LogInv, LogTypeOK, LogIndicesAgree,
              BadgeZeroIffNoneActive
<1>3. QED
  BY <1>1, <1>2

\* The log's indices and the badge agree with the entries in every state.
LEMMA LogInvariant == Spec => []LogInv
<1>1. LogInv /\ CounterInv /\ [Next]_vars => LogInv'
  <2> SUFFICES ASSUME LogInv, CounterInv, [Next]_vars
               PROVE  LogInv'
    OBVIOUS
  <2>1. ASSUME NEW n \in num_ifaces .. MaxInterfaces, NEW o \in Observation(n),
               alerts_check(o)
        PROVE  LogInv'
    <3>1. o.num_ifaces = n
      BY DEF Observation
    <3>2. QED
      BY <2>1, <3>1, LogCheck
  <2>2. QED
    BY <2>1, LogClear DEF Next
<1>2. QED
  BY <1>1, LogInit, CounterInvariant, PTL DEF Spec

\* Every variable keeps its type; in particular no check leaves a counter at
\* or above the hysteresis, and the log's indices stay inside the log.
THEOREM TypeCorrect == Spec => []TypeOK
<1>1. LogInv /\ CounterInv => TypeOK
  BY DEF LogInv, CounterInv, LogTypeOK, CounterTypeOK, TypeOK
<1>2. QED
  BY <1>1, LogInvariant, CounterInvariant, PTL

\* The number behind the badge (alerts.c:54, 103, 172-175, 195) is zero
\* exactly when no entry of the log is active.
THEOREM BadgeCorrect == Spec => []BadgeZeroIffNoneActive
BY LogInvariant, PTL DEF LogInv

\* No active entry lies outside the range that the recount visits.
THEOREM IndicesCorrect == Spec => []LogIndicesAgree
BY LogInvariant, PTL DEF LogInv

-----------------------------------------------------------------------------
(***************************************************************************)
(* The engine in the main loop.  When an interface that is down must have  *)
(* been reported is not inductive.  Three things have to be known in every *)
(* state: what the ages of the timers and the time blocked can be          *)
(* (LoopInv); how long a row can have been out of date, measured by the    *)
(* age of the slow timer (StaleInv); and, once the row is up to date, that *)
(* the time the link has been as it is and the time the outstanding checks *)
(* still take are within the bound together (Within).                      *)
(***************************************************************************)
MonTypes ==
  /\ known \in 1 .. MaxInterfaces /\ num_ifaces <= known
  /\ running \subseteq Iface
  /\ link \in [Iface -> {"ok", "down", "gone"}]
  /\ since \in [Iface -> Nat] /\ settings \in Nat
  /\ \A i \in Iface : i >= known => link[i] = "ok"

\* Timers that are due run in the turn that finds them so; only the ticks of
\* this turn have blocked, and a slow tick has left its age at zero.
LoopInv ==
  /\ due \subseteq {"medium", "slow"}
  /\ medium_age \in Nat /\ slow_age \in Nat /\ late \in Nat
  /\ "medium" \in due <=> medium_age >= MediumPeriod
  /\ "slow" \in due <=> slow_age >= SlowPeriod
  /\ "slow" \in due => late = 0
  /\ due # {} => late <= SlowBlocks /\ (late = 0 \/ slow_age = 0)
  /\ late <= SlowBlocks + MediumBlocks
  /\ late <= Larger(1, MediumBlocks) \/ slow_age = 0

\* How long the next check may still be away when the loop has been blocked
\* for l and the last one was m ago.
Wait(l, m) == Larger(l, CheckRound - m)

Rounds(r) == r * CheckRound
Delays(n) == SlowRound * n

\* Checks that still take the time rest come in time for a row that has been
\* up to date since s to have had them by b: even if a slow tick blocks the
\* loop before, or because no slow tick can before they have come.
Fits(s, rest, age, b) ==
  \/ s + rest + SlowBlocks <= b
  \/ s + rest <= b /\ age + rest <= SlowPeriod

\* So with r checks to come after the next one; or the last check is what this
\* turn has still to run.
Within(s, r, b) ==
  \/ Fits(s, Wait(late, medium_age) + Rounds(r), slow_age, b)
  \/ s <= b /\ r = 0 /\ due = {"medium"}

Agrees(i) == i \in running <=> link[i] = "ok"

\* A row that is out of date has been so for no longer than the last slow
\* tick is ago, and a slow round for each time the clock was set.
StaleInv ==
  \A i \in 0 .. known - 1 :
    link[i] # "gone" /\ ~Agrees(i) =>
      since[i] <= Delays(settings) + Smaller(slow_age, SlowRound)

\* The checks that an interface which is down has still to fail.
Outstanding(i) == Hysteresis - 1 - hyst_counters[IfaceDown(i)]

CountInv ==
  \A i \in (0 .. known - 1) \ Ignored :
    link[i] = "down" /\ i \notin running /\ i \notin reported =>
      Within(since[i], Outstanding(i), Settled(settings))

\* An interface that is up again was reported by a check that the last slow
\* tick is younger than.
EndInv ==
  /\ \A i \in Iface : IfaceDown(i) \in raised => i < known
  /\ \A i \in 0 .. known - 1 :
       link[i] = "ok" /\ i \in running /\ IfaceDown(i) \in raised =>
         Within(since[i], 0, Seen(settings))

ReportInv == MonTypes /\ LoopInv /\ StaleInv /\ CountInv /\ EndInv

-----------------------------------------------------------------------------
(* Time.  The lemmas of this part are about one row and one bound. *)

\* The constants and the rounds made of them.
LEMMA Periods ==
  /\ MediumPeriod \in Nat \ {0} /\ SlowPeriod \in Nat \ {0}
  /\ MediumBlocks \in Nat /\ SlowBlocks \in Nat /\ TickMod \in Nat
  /\ TickMod > 2 * SlowPeriod /\ Hysteresis \in Nat \ {0}
  /\ CheckRound \in Nat /\ CheckRound >= MediumPeriod /\ CheckRound >= MediumBlocks
  /\ FirstCheck \in Nat /\ FirstCheck >= CheckRound /\ FirstCheck >= SlowBlocks
  /\ SlowRound \in Nat /\ SlowRound >= SlowPeriod
  /\ SlowRound = SlowPeriod - 1 + Larger(1, MediumBlocks)
  /\ CheckRound + SlowBlocks <= SlowPeriod
  /\ FirstCheck + Rounds(Hysteresis - 1) <= SlowPeriod
BY MonitorAssumption, PeriodsAssumption, AlertsAssumption
   DEF CheckRound, FirstCheck, SlowRound, Larger, Rounds

\* Rounds are added one by one.
LEMMA RoundsAdd ==
  ASSUME NEW r \in Nat
  PROVE  /\ Rounds(r) \in Nat
         /\ Rounds(0) = 0
         /\ Rounds(r + 1) = Rounds(r) + CheckRound
         /\ r > 0 => Rounds(r) >= CheckRound
         /\ r <= Hysteresis - 1 => Rounds(r) <= Rounds(Hysteresis - 1)
<1>1. CheckRound \in Nat /\ Hysteresis \in Nat \ {0}
  BY Periods
<1>2. ASSUME NEW c \in Nat, NEW q \in Nat
      PROVE  q * c \in Nat /\ 0 * c = 0 /\ (q + 1) * c = q * c + c
  OBVIOUS
<1>3. ASSUME NEW c \in Nat, r > 0
      PROVE  r * c >= c
  <2>1. (r - 1) * c \in Nat /\ r * c = (r - 1) * c + c
    BY <1>2, <1>3
  <2>2. QED
    BY <2>1
<1>4. ASSUME NEW c \in Nat, NEW q \in Nat, r <= q
      PROVE  r * c <= q * c
  <2>1. (q - r) * c \in Nat /\ q * c = (q - r) * c + r * c
    BY <1>2, <1>4
  <2>2. QED
    BY <2>1, <1>2
<1>5. QED
  BY <1>1, <1>2, <1>3, <1>4 DEF Rounds

\* Delays are added one by one, and make up the bounds.
LEMMA DelaysAdd ==
  ASSUME NEW n \in Nat
  PROVE  /\ Delays(n) \in Nat
         /\ Delays(n + 1) = Delays(n) + SlowRound
         /\ Seen(n) = Delays(n) + SlowRound + FirstCheck
         /\ Settled(n) = Delays(n) + SlowRound + FirstCheck + Rounds(Hysteresis - 1)
<1>1. SlowRound \in Nat /\ FirstCheck \in Nat
  BY Periods
<1>2. ASSUME NEW c \in Nat
      PROVE  /\ c * n \in Nat /\ c * (n + 1) = c * n + c
             /\ c * (1 + n) = c * n + c
  OBVIOUS
<1>3. Delays(n) \in Nat /\ SlowRound * (1 + n) = Delays(n) + SlowRound
  BY <1>1, <1>2 DEF Delays
<1>4. Delays(n + 1) = Delays(n) + SlowRound
  BY <1>1, <1>2 DEF Delays
<1>5. Seen(n) = Delays(n) + SlowRound + FirstCheck
  BY <1>3 DEF Seen
<1>6. QED
  BY <1>3, <1>4, <1>5 DEF Settled, Rounds

\* What fits still does when time has passed and as much less is left.
LEMMA FitsLater ==
  ASSUME NEW s \in Int, NEW rest \in Int, NEW age \in Int, NEW b \in Int,
         NEW t \in Int, NEW left \in Int, NEW old \in Int,
         Fits(s, rest, age, b), t + left <= s + rest, old + left <= age + rest
  PROVE  Fits(t, left, old, b)
BY Periods DEF Fits

\* A turn of the loop, the clock untouched, takes from what is left.
LEMMA FitsTurn ==
  ASSUME NEW s \in Nat, NEW t \in Nat, NEW b \in Nat, NEW R \in Nat,
         NEW l \in Nat, NEW m \in Nat, m < MediumPeriod, NEW a \in Nat,
         Fits(s, Wait(l, m) + R, a, b), t <= s + Larger(l, 1)
  PROVE  Fits(t, Wait(0, m + Larger(l, 1)) + R, a + Larger(l, 1), b)
<1>1. /\ Larger(l, 1) \in Nat /\ Wait(l, m) \in Nat /\ Wait(0, m + Larger(l, 1)) \in Nat
      /\ Larger(l, 1) + Wait(0, m + Larger(l, 1)) = Wait(l, m)
  BY Periods DEF Wait, Larger
<1> HIDE DEF Wait, Larger
<1>2. QED
  BY <1>1, FitsLater

\* Setting the clock costs a round of checks and lets a slow tick in.
LEMMA FitsSetting ==
  ASSUME NEW s \in Nat, NEW t \in Nat, NEW b \in Nat, NEW R \in Nat,
         NEW l \in Nat, NEW m \in Nat, m < MediumPeriod, NEW a \in Nat,
         Fits(s, Wait(l, m) + R, a, b), t <= s + Larger(l, 1), NEW n \in Nat, NEW c \in Nat
  PROVE  Fits(t, Wait(0, n) + R, c, b + SlowRound)
<1>1. /\ Larger(l, 1) \in Nat /\ Larger(l, 1) <= Wait(l, m) /\ Wait(l, m) \in Nat
      /\ Wait(0, n) \in Nat /\ Wait(0, n) <= CheckRound
  BY Periods DEF Wait, Larger
<1>2. t + Wait(0, n) + R + SlowBlocks <= b + SlowRound
  BY <1>1, Periods DEF Fits
<1>3. QED
  BY <1>1, <1>2, Periods DEF Fits

\* A check that is not the last one.
LEMMA FitsCheck ==
  ASSUME NEW s \in Nat, NEW b \in Nat, NEW R \in Nat, NEW l \in Nat,
         NEW m \in Nat, NEW a \in Nat, NEW k \in 0 .. MediumBlocks,
         Fits(s, Wait(l, m) + R + CheckRound, a, b)
  PROVE  Fits(s, Wait(l + k, 0) + R, a, b)
<1>1. /\ Wait(l, m) \in Nat /\ Wait(l + k, 0) \in Nat /\ CheckRound \in Nat
      /\ Wait(l + k, 0) <= Wait(l, m) + CheckRound
  BY Periods DEF Wait, Larger
<1>2. QED
  BY <1>1, FitsLater

\* A slow tick comes in between, or finds that the last check is due.
LEMMA FitsSlow ==
  ASSUME NEW s \in Nat, NEW b \in Nat, NEW r \in 0 .. Hysteresis - 1,
         NEW m \in Nat, NEW a \in Nat, a >= SlowPeriod, NEW k \in 0 .. SlowBlocks,
         Fits(s, Wait(0, m) + Rounds(r), a, b)
  PROVE  \/ Fits(s, Wait(k, m) + Rounds(r), 0, b)
         \/ s <= b /\ r = 0 /\ m >= MediumPeriod
<1>1. /\ Rounds(r) \in Nat /\ SlowBlocks \in Nat /\ SlowPeriod \in Nat
      /\ CheckRound \in Nat \ {0} /\ CheckRound >= MediumPeriod
      /\ r \in Nat
      /\ r > 0 => Rounds(r) >= CheckRound
      /\ FirstCheck \in Nat /\ FirstCheck + Rounds(r) <= SlowPeriod
  <2>1. r \in Nat /\ r <= Hysteresis - 1 /\ Hysteresis - 1 \in Nat
    BY Periods
  <2>2. /\ Rounds(r) \in Nat /\ Rounds(Hysteresis - 1) \in Nat
        /\ r > 0 => Rounds(r) >= CheckRound
        /\ Rounds(r) <= Rounds(Hysteresis - 1)
    BY <2>1, RoundsAdd
  <2>3. QED
    BY <2>1, <2>2, Periods
<1>2. /\ Wait(0, m) \in Nat /\ Wait(k, m) \in Nat /\ Wait(k, m) <= Wait(0, m) + SlowBlocks
      /\ Wait(k, m) <= FirstCheck
      /\ Wait(0, m) = 0 => m >= CheckRound
  BY Periods DEF Wait, Larger
<1>3. CASE s + (Wait(0, m) + Rounds(r)) + SlowBlocks <= b
  <2>1. s + (Wait(k, m) + Rounds(r)) <= b /\ 0 + (Wait(k, m) + Rounds(r)) <= SlowPeriod
    BY <1>1, <1>2, <1>3
  <2>2. QED
    BY <2>1 DEF Fits
<1>4. CASE s + (Wait(0, m) + Rounds(r)) <= b /\ a + (Wait(0, m) + Rounds(r)) <= SlowPeriod
  <2>1. Wait(0, m) = 0 /\ Rounds(r) = 0 /\ s <= b
    BY <1>1, <1>2, <1>4
  <2>2. ~(r > 0)
    BY <1>1, <2>1
  <2>3. Wait(0, m) = 0 /\ r = 0 /\ s <= b
    BY <1>1, <2>1, <2>2
  <2>4. QED
    BY <1>1, <1>2, <2>3, Periods
<1>5. QED
  BY <1>3, <1>4 DEF Fits

\* The slow tick that brings a row up to date starts the count.
LEMMA FitsFromSlow ==
  ASSUME NEW s \in Nat, NEW b \in Nat, NEW r \in 0 .. Hysteresis - 1,
         NEW m \in Nat, NEW k \in 0 .. SlowBlocks,
         s + FirstCheck + Rounds(r) <= b
  PROVE  Fits(s, Wait(k, m) + Rounds(r), 0, b)
<1>1. /\ Rounds(r) \in Nat /\ SlowBlocks \in Nat /\ SlowPeriod \in Nat
      /\ FirstCheck \in Nat /\ FirstCheck + Rounds(r) <= SlowPeriod
  <2>1. r \in Nat /\ r <= Hysteresis - 1 /\ Hysteresis - 1 \in Nat
    BY Periods
  <2>2. /\ Rounds(r) \in Nat /\ Rounds(Hysteresis - 1) \in Nat
        /\ Rounds(r) <= Rounds(Hysteresis - 1)
    BY <2>1, RoundsAdd
  <2>3. QED
    BY <2>1, <2>2, Periods
<1>2. Wait(k, m) \in Nat /\ Wait(k, m) <= FirstCheck
  BY Periods DEF Wait, Larger
<1>3. QED
  BY <1>1, <1>2 DEF Fits

\* So does a link that changes while its row is up to date with the change.
LEMMA FitsFromChange ==
  ASSUME NEW b \in Nat, NEW R \in Nat, NEW l \in 0 .. SlowBlocks + MediumBlocks,
         NEW m \in Nat, NEW a \in Nat, SlowRound + FirstCheck + R <= b
  PROVE  Fits(0, Wait(l, m) + R, a, b)
<1>1. SlowBlocks \in Nat /\ SlowRound \in Nat /\ FirstCheck \in Nat /\ SlowBlocks <= FirstCheck
  BY Periods
<1>2. Wait(l, m) \in Nat /\ Wait(l, m) <= SlowRound
  BY Periods DEF Wait, Larger
<1>3. QED
  BY <1>1, <1>2 DEF Fits

-----------------------------------------------------------------------------
(* The steps. *)

\* The cells of a row, and how many checks it has to fail at most.
LEMMA RowCells ==
  ASSUME CounterInv, NEW i \in Iface
  PROVE  /\ IfaceDown(i) \in Counted /\ IfaceDown(i) \in Cond
         /\ hyst_counters[IfaceDown(i)] \in 0 .. Hysteresis - 1
         /\ Outstanding(i) \in 0 .. Hysteresis - 1
<1>1. IfaceDown(i) \in Counted /\ IfaceDown(i) \in Cond
  BY DEF IfaceDown, Latency, Counted, Cond, IfaceCond
<1>2. hyst_counters[IfaceDown(i)] \in 0 .. Hysteresis - 1
  BY <1>1 DEF CounterInv, CounterTypeOK
<1>3. QED
  BY <1>1, <1>2, Periods DEF Outstanding

\* The bounds leave room for a count that begins with a slow tick.
LEMMA RoomForCount ==
  ASSUME NEW n \in Nat, NEW r \in 0 .. Hysteresis - 1
  PROVE  /\ Settled(n) \in Nat /\ Seen(n) \in Nat
         /\ Delays(n) + SlowRound + FirstCheck + Rounds(r) <= Settled(n)
         /\ Delays(n) + SlowRound + FirstCheck + Rounds(0) <= Seen(n)
         /\ SlowRound + FirstCheck + Rounds(r) <= Settled(n)
         /\ SlowRound + FirstCheck + Rounds(0) <= Seen(n)
         /\ Rounds(r) \in Nat /\ Rounds(0) \in Nat /\ Delays(n) \in Nat
         /\ Settled(n + 1) = Settled(n) + SlowRound
         /\ Seen(n + 1) = Seen(n) + SlowRound
<1>1. r \in Nat /\ r <= Hysteresis - 1 /\ Hysteresis - 1 \in Nat /\ 0 \in Nat
      /\ n + 1 \in Nat
  BY Periods
<1>2. /\ Rounds(r) \in Nat /\ Rounds(Hysteresis - 1) \in Nat /\ Rounds(0) = 0
      /\ Rounds(r) <= Rounds(Hysteresis - 1)
  BY <1>1, RoundsAdd
<1>3. /\ Delays(n) \in Nat /\ Delays(n + 1) = Delays(n) + SlowRound
      /\ Seen(n) = Delays(n) + SlowRound + FirstCheck
      /\ Settled(n) = Delays(n) + SlowRound + FirstCheck + Rounds(Hysteresis - 1)
      /\ Seen(n + 1) = Delays(n + 1) + SlowRound + FirstCheck
      /\ Settled(n + 1) = Delays(n + 1) + SlowRound + FirstCheck + Rounds(Hysteresis - 1)
  BY <1>1, DelaysAdd
<1>4. SlowRound \in Nat /\ FirstCheck \in Nat
  BY Periods
<1>5. QED
  BY <1>2, <1>3, <1>4

\* All links are up at the start and no timer has run.
LEMMA ReportInit == MonInit => ReportInv /\ CounterInv
<1> SUFFICES ASSUME MonInit
             PROVE  ReportInv /\ CounterInv
  OBVIOUS
<1>1. CounterInv
  BY CounterInit DEF MonInit
<1>2. 0 .. known - 1 \subseteq Iface /\ known \in 1 .. MaxInterfaces
  BY AlertsAssumption DEF MonInit, Iface
<1>3. MonTypes
  BY <1>2 DEF MonInit, alerts_init, MonTypes
<1>4. LoopInv
  BY Periods DEF MonInit, LoopInv, Larger
<1>5. StaleInv
  BY <1>2 DEF MonInit, StaleInv, Agrees
<1>6. CountInv
  BY <1>2 DEF MonInit, CountInv
<1>7. EndInv
  BY <1>2 DEF MonInit, alerts_init, EndInv
<1>8. QED
  BY <1>1, <1>3, <1>4, <1>5, <1>6, <1>7 DEF ReportInv

\* A link changes: its row is out of date from now on, or the count begins.
LEMMA ReportLink ==
  ASSUME ReportInv, CounterInv, NEW i \in Iface, LinkChanges(i)
  PROVE  ReportInv'
<1>1. PICK l \in Faults \cup {"ok"} : link' = [link EXCEPT ![i] = l]
  BY DEF LinkChanges
<1>2. l \in {"ok", "down", "gone"}
  BY MonitorAssumption
<1>3. /\ since' = [since EXCEPT ![i] = 0] /\ reported' = reported \ {i} /\ i < known
      /\ UNCHANGED <<late, medium_age, slow_age, due, known, running, settings>>
      /\ UNCHANGED <<num_ifaces, raised, hyst_counters>>
  BY DEF LinkChanges, vars, engine, history, lvgl, collector
<1>4. MonTypes
  BY DEF ReportInv
<1>5. 0 .. known - 1 \subseteq Iface /\ settings \in Nat
  BY <1>4, AlertsAssumption DEF MonTypes, Iface
<1>6. MonTypes'
  BY <1>1, <1>2, <1>3, <1>4 DEF MonTypes, Iface
<1>7. LoopInv /\ LoopInv'
  BY <1>3 DEF ReportInv, LoopInv
<1>8. late \in 0 .. SlowBlocks + MediumBlocks /\ medium_age \in Nat /\ slow_age \in Nat
  BY <1>7, Periods DEF LoopInv
<1>9. since'[i] = 0 /\ \A j \in Iface : j # i => since'[j] = since[j] /\ link'[j] = link[j]
  BY <1>1, <1>3, <1>4 DEF MonTypes
<1>10. StaleInv'
  <2>1. SUFFICES ASSUME NEW j \in 0 .. known - 1, link'[j] # "gone", ~Agrees(j)'
                 PROVE  since'[j] <= Delays(settings) + Smaller(slow_age, SlowRound)
    BY <1>3 DEF StaleInv, Delays
  <2>2. CASE j = i
    <3>1. Delays(settings) \in Nat
      BY <1>5, DelaysAdd
    <3>2. QED
      BY <2>2, <3>1, <1>8, <1>9, Periods DEF Smaller
  <2>3. CASE j # i
    <3>1. since'[j] = since[j] /\ link'[j] = link[j] /\ ~Agrees(j)
      BY <1>3, <1>5, <1>9, <2>1, <2>3 DEF Agrees
    <3>2. QED
      BY <2>1, <3>1 DEF ReportInv, StaleInv
  <2>4. QED
    BY <2>2, <2>3
<1>11. CountInv'
  <2>1. SUFFICES ASSUME NEW j \in (0 .. known - 1) \ Ignored,
                        link'[j] = "down", j \notin running, j \notin reported'
                 PROVE  Within(since[j], Outstanding(j), Settled(settings))'
    BY <1>3 DEF CountInv
  <2>2. j \in Iface /\ Outstanding(j) \in 0 .. Hysteresis - 1
    BY <1>5, RowCells
  <2>3. CASE j = i
    <3>1. Fits(0, Wait(late, medium_age) + Rounds(Outstanding(j)), slow_age, Settled(settings))
      BY <1>5, <1>8, <2>2, RoomForCount, FitsFromChange
    <3>2. QED
      BY <1>3, <1>9, <2>3, <3>1 DEF Within, Outstanding
  <2>4. CASE j # i
    <3>1. since'[j] = since[j] /\ link'[j] = link[j] /\ j \notin reported
      BY <1>3, <1>9, <2>1, <2>2, <2>4
    <3>2. Within(since[j], Outstanding(j), Settled(settings))
      BY <2>1, <3>1 DEF ReportInv, CountInv
    <3>3. QED
      BY <1>3, <3>1, <3>2 DEF Within, Outstanding
  <2>5. QED
    BY <2>3, <2>4
<1>12. EndInv'
  <2>1. ASSUME NEW j \in 0 .. known - 1,
               link'[j] = "ok", j \in running, IfaceDown(j) \in raised
        PROVE  Within(since[j], 0, Seen(settings))'
    <3>1. CASE j = i
      <4>1. 0 \in 0 .. Hysteresis - 1
        BY Periods
      <4>2. Fits(0, Wait(late, medium_age) + Rounds(0), slow_age, Seen(settings))
        BY <1>5, <1>8, <4>1, RoomForCount, FitsFromChange
      <4>3. QED
        BY <1>3, <1>9, <3>1, <4>2 DEF Within
    <3>2. CASE j # i
      <4>1. since'[j] = since[j] /\ link'[j] = link[j]
        BY <1>5, <1>9, <3>2
      <4>2. Within(since[j], 0, Seen(settings))
        BY <2>1, <4>1 DEF ReportInv, EndInv
      <4>3. QED
        BY <1>3, <4>1, <4>2 DEF Within
    <3>3. QED
      BY <3>1, <3>2
  <2>2. QED
    BY <1>3, <2>1 DEF ReportInv, EndInv, IfaceDown
<1>13. QED
  BY <1>6, <1>7, <1>10, <1>11, <1>12 DEF ReportInv

\* What a medium tick shows the check.
Shown(answer, lat, errs) ==
  [num_ifaces |-> known, down |-> (0 .. known - 1) \ running, errRate |-> errs,
   gateway |-> answer, latency |-> lat, dns |-> dns_reachable]

\* A check reports no row whose flags are running, and one that is watched
\* and whose flags are not it counts or reports.
LEMMA CheckOfRow ==
  ASSUME CounterInv, MonTypes, NEW answer, NEW lat, NEW errs,
         medium_timer_cb(answer, lat, errs), NEW i \in Iface
  PROVE  /\ i \in running => IfaceDown(i) \notin raised'
         /\ i \in 0 .. known - 1 /\ i \notin Ignored /\ i \notin running =>
              \/ i \in reported'
              \/ hyst_counters'[IfaceDown(i)] = hyst_counters[IfaceDown(i)] + 1
         /\ IfaceDown(i) \in raised' => i < known
<1> DEFINE o == Shown(answer, lat, errs)
           c == IfaceDown(i)
<1>1. /\ alerts_check(o)
      /\ reported' = reported \cup {j \in Iface : IfaceDown(j) \in raised'}
  BY DEF medium_timer_cb, Shown
<1>2. o.num_ifaces = known /\ o.down = (0 .. known - 1) \ running
  BY DEF Shown
<1> HIDE DEF o
<1>3. c \in Counted /\ c \in Cond /\ c # Latency /\ c[1] = "IFACE_DOWN" /\ c[2] = i
  BY RowCells DEF IfaceDown, Latency
<1>4. known \in 0 .. MaxInterfaces
  BY AlertsAssumption DEF MonTypes
<1>5. c \in Evaluated(o) <=> i \in 0 .. known - 1 /\ i \notin Ignored
  BY <1>2, <1>3 DEF Evaluated, Watched, SystemCond, IfaceDown, Gateway, Latency, Dns
<1>6. c \in Bad(o) <=> c \in Evaluated(o) /\ i \in (0 .. known - 1) \ running
  BY <1>2, <1>3 DEF Bad
<1>7. c \in Pushes(o) <=> c \in Bad(o) /\ hyst_counters[c] + 1 >= Hysteresis
  BY <1>3 DEF Pushes
<1>8. /\ raised' = Pushes(o)
      /\ hyst_counters' = [d \in Counted |->
                             IF d \notin Evaluated(o) THEN hyst_counters[d]
                             ELSE IF d \in Bad(o) \ Pushes(o) THEN hyst_counters[d] + 1
                             ELSE 0]
  BY <1>1 DEF alerts_check
<1>9. c \in raised' => i \in reported'
  BY <1>1
<1>10. c \in Bad(o) \ Pushes(o) => hyst_counters'[c] = hyst_counters[c] + 1
  BY <1>3, <1>6, <1>8
<1> HIDE DEF c
<1>11. QED
  BY <1>4, <1>5, <1>6, <1>7, <1>8, <1>9, <1>10 DEF c, Iface

\* A medium tick counts every row that is out of date or down.
LEMMA ReportMedium ==
  ASSUME ReportInv, CounterInv, NEW answer, NEW lat, NEW errs,
         medium_timer_cb(answer, lat, errs), CounterInv'
  PROVE  ReportInv'
<1>1. PICK b \in 0 .. MediumBlocks : late' = late + b
  BY DEF medium_timer_cb
<1>2. /\ due = {"medium"} /\ due' = {} /\ medium_age' = 0 /\ num_ifaces' = known
      /\ reported \subseteq reported'
      /\ UNCHANGED <<link, slow_age, known, running, settings, since>>
  BY DEF medium_timer_cb, alerts_check
<1>3. MonTypes /\ LoopInv
  BY DEF ReportInv
<1>4. 0 .. known - 1 \subseteq Iface /\ settings \in Nat /\ since \in [Iface -> Nat]
  BY <1>3, AlertsAssumption DEF MonTypes, Iface
<1>5. MonTypes'
  BY <1>2, <1>3 DEF MonTypes
<1>6. LoopInv'
  BY <1>1, <1>2, <1>3, Periods DEF LoopInv, Larger
<1>7. StaleInv'
  BY <1>2 DEF ReportInv, StaleInv, Agrees, Delays, Smaller
<1>8. late \in Nat /\ medium_age \in Nat /\ slow_age \in Nat
  BY <1>3 DEF LoopInv
<1>9. CountInv'
  <2>1. SUFFICES ASSUME NEW j \in (0 .. known - 1) \ Ignored,
                        link[j] = "down", j \notin running, j \notin reported'
                 PROVE  Within(since[j], Outstanding(j), Settled(settings))'
    BY <1>2 DEF CountInv
  <2>2. /\ j \in Iface /\ Outstanding(j) \in 0 .. Hysteresis - 1
        /\ Outstanding(j)' \in 0 .. Hysteresis - 1
        /\ hyst_counters[IfaceDown(j)] \in 0 .. Hysteresis - 1
    <3>1. j \in Iface
      BY <1>4
    <3>2. IfaceDown(j) \in Counted
      BY <3>1, RowCells
    <3>3. hyst_counters'[IfaceDown(j)] \in 0 .. Hysteresis - 1
      BY <3>2 DEF CounterInv, CounterTypeOK
    <3>4. Outstanding(j)' \in 0 .. Hysteresis - 1
      BY <3>3, Periods DEF Outstanding, IfaceDown
    <3>5. QED
      BY <3>1, <3>4, RowCells
  <2>3. hyst_counters'[IfaceDown(j)] = hyst_counters[IfaceDown(j)] + 1
    BY <1>3, <2>1, <2>2, CheckOfRow
  <2>4. Outstanding(j) = Outstanding(j)' + 1
    BY <2>2, <2>3, Periods DEF Outstanding, IfaceDown
  <2>5. Within(since[j], Outstanding(j), Settled(settings))
    BY <1>2, <2>1 DEF ReportInv, CountInv
  <2>6. PICK r \in 0 .. Hysteresis - 1 : r = Outstanding(j)'
    BY <2>2
  <2>7. Rounds(r) \in Nat /\ Rounds(r + 1) = Rounds(r) + CheckRound /\ CheckRound \in Nat
    <3>1. r \in Nat /\ CheckRound \in Nat
      BY Periods
    <3>2. QED
      BY <3>1, RoundsAdd
  <2>8. Fits(since[j], Wait(late, medium_age) + Rounds(r + 1), slow_age, Settled(settings))
    BY <2>4, <2>5, <2>6 DEF Within
  <2>9. Wait(late, medium_age) + Rounds(r + 1) = Wait(late, medium_age) + Rounds(r) + CheckRound
    BY <1>8, <2>7 DEF Wait, Larger
  <2>10. Fits(since[j], Wait(late, medium_age) + Rounds(r) + CheckRound, slow_age, Settled(settings))
    BY <2>8, <2>9
  <2>11. since[j] \in Nat /\ Settled(settings) \in Nat
    BY <1>4, <2>2, RoomForCount
  <2>12. Fits(since[j], Wait(late + b, 0) + Rounds(r), slow_age, Settled(settings))
    BY <1>8, <2>7, <2>10, <2>11, FitsCheck
  <2>13. QED
    BY <1>1, <1>2, <2>6, <2>12 DEF Within
<1>10. EndInv'
  BY <1>2, <1>3, <1>4, CheckOfRow DEF EndInv
<1>11. QED
  BY <1>5, <1>6, <1>7, <1>9, <1>10 DEF ReportInv

\* A slow tick brings every listed row up to date, and its probes block.
LEMMA ReportSlow ==
  ASSUME ReportInv, CounterInv, NEW new \in 0 .. MaxInterfaces - known, NEW answer,
         slow_timer_cb(new, answer)
  PROVE  ReportInv'
<1>1. PICK b \in 0 .. SlowBlocks : late' = late + b
  BY DEF slow_timer_cb
<1>2. /\ "slow" \in due /\ due' = due \ {"slow"} /\ slow_age' = 0
      /\ known' = known + new /\ running' = Refresh(new)
      /\ UNCHANGED <<link, medium_age, settings, since, reported>>
      /\ UNCHANGED <<num_ifaces, raised, hyst_counters>>
  BY DEF slow_timer_cb, vars, engine, history
<1>3. MonTypes /\ LoopInv
  BY DEF ReportInv
<1>4. /\ 0 .. known - 1 \subseteq Iface /\ 0 .. known' - 1 \subseteq Iface
      /\ settings \in Nat /\ since \in [Iface -> Nat] /\ known \in Nat
      /\ known' \in 1 .. MaxInterfaces /\ known' >= known
  BY <1>2, <1>3, AlertsAssumption DEF MonTypes, Iface
<1>5. MonTypes'
  <2>1. num_ifaces <= known'
    BY <1>3, <1>4 DEF MonTypes, CounterInv, CounterTypeOK
  <2>2. running' \subseteq Iface
    BY <1>2 DEF Refresh
  <2>3. \A j \in Iface : j >= known' => link'[j] = "ok"
    BY <1>2, <1>3, <1>4 DEF MonTypes, Iface
  <2>4. QED
    BY <1>2, <1>3, <1>4, <2>1, <2>2, <2>3 DEF MonTypes
<1>6. late = 0 /\ medium_age \in Nat /\ slow_age \in Nat /\ slow_age >= SlowPeriod
  BY <1>2, <1>3 DEF LoopInv
<1>7. late' = b /\ late' \in 0 .. SlowBlocks
  BY <1>1, <1>6, Periods
<1>8. LoopInv'
  BY <1>2, <1>3, <1>6, <1>7, Periods DEF LoopInv
<1>9. \A j \in Iface : j >= known => link[j] = "ok"
  BY <1>3 DEF MonTypes
<1>10. \A j \in 0 .. known' - 1 : link[j] # "gone" => (j \in running' <=> link[j] = "ok")
  BY <1>2, <1>4, <1>9 DEF Refresh
<1>11. StaleInv'
  BY <1>2, <1>10 DEF StaleInv, Agrees
<1>12. ASSUME NEW j \in 0 .. known - 1, NEW r \in 0 .. Hysteresis - 1, NEW c \in Nat,
              link[j] # "gone",
              Agrees(j) => Within(since[j], r, c),
              Delays(settings) + SlowRound + FirstCheck + Rounds(r) <= c
       PROVE  \/ Fits(since[j], Wait(b, medium_age) + Rounds(r), 0, c)
              \/ since[j] <= c /\ r = 0 /\ due' = {"medium"}
  <2>1. since[j] \in Nat
    BY <1>4
  <2>2. CASE Agrees(j)
    <3>1. Fits(since[j], Wait(0, medium_age) + Rounds(r), slow_age, c)
      BY <1>2, <1>6, <1>12, <2>2 DEF Within
    <3>2. \/ Fits(since[j], Wait(b, medium_age) + Rounds(r), 0, c)
          \/ since[j] <= c /\ r = 0 /\ medium_age >= MediumPeriod
      BY <1>6, <2>1, <3>1, FitsSlow
    <3>3. medium_age >= MediumPeriod => due' = {"medium"}
      BY <1>2, <1>3 DEF LoopInv
    <3>4. QED
      BY <3>2, <3>3
  <2>3. CASE ~Agrees(j)
    <3>1. since[j] <= Delays(settings) + Smaller(slow_age, SlowRound)
      BY <1>12, <2>3 DEF ReportInv, StaleInv
    <3>2. /\ Delays(settings) \in Nat /\ Rounds(r) \in Nat
          /\ FirstCheck \in Nat /\ SlowRound \in Nat
      BY <1>4, RoomForCount, Periods
    <3>3. Smaller(slow_age, SlowRound) \in Nat /\ Smaller(slow_age, SlowRound) <= SlowRound
      BY <1>6, <3>2 DEF Smaller
    <3>4. since[j] + FirstCheck + Rounds(r) <= c
      BY <1>12, <2>1, <3>1, <3>2, <3>3
    <3>5. QED
      BY <1>6, <2>1, <3>4, FitsFromSlow
  <2>4. QED
    BY <2>2, <2>3
<1>13. CountInv'
  <2>1. SUFFICES ASSUME NEW j \in (0 .. known' - 1) \ Ignored,
                        link[j] = "down", j \notin running', j \notin reported
                 PROVE  Within(since[j], Outstanding(j), Settled(settings))'
    BY <1>2 DEF CountInv
  <2>2. j \in Iface /\ Outstanding(j) \in 0 .. Hysteresis - 1 /\ j \in 0 .. known - 1
    <3>1. j \in 0 .. known' - 1 /\ \A k \in Iface : k \in Nat
      BY AlertsAssumption DEF Iface
    <3>2. j \in Iface /\ j \in Nat
      BY <1>4, <3>1
    <3>3. ~(j >= known)
      BY <1>9, <2>1, <3>2
    <3>4. QED
      BY <1>4, <3>2, <3>3, RowCells
  <2>3. PICK r \in 0 .. Hysteresis - 1 : r = Outstanding(j)
    BY <2>2
  <2>4. /\ Settled(settings) \in Nat
        /\ Delays(settings) + SlowRound + FirstCheck + Rounds(r) <= Settled(settings)
    BY <1>4, RoomForCount
  <2>5. Agrees(j) => Within(since[j], r, Settled(settings))
    BY <2>1, <2>2, <2>3 DEF ReportInv, CountInv, Agrees
  <2>6. \/ Fits(since[j], Wait(b, medium_age) + Rounds(r), 0, Settled(settings))
        \/ since[j] <= Settled(settings) /\ r = 0 /\ due' = {"medium"}
    BY <1>12, <2>1, <2>2, <2>4, <2>5
  <2>7. r = Outstanding(j)'
    BY <1>2, <2>3 DEF Outstanding, IfaceDown
  <2>8. QED
    BY <1>2, <1>7, <2>6, <2>7 DEF Within
<1>14. EndInv'
  <2>1. ASSUME NEW j \in 0 .. known' - 1,
               link[j] = "ok", j \in running', IfaceDown(j) \in raised
        PROVE  Within(since[j], 0, Seen(settings))'
    <3>1. j \in 0 .. known - 1 /\ 0 \in 0 .. Hysteresis - 1
      <4>1. j \in 0 .. known' - 1 /\ \A k \in Iface : k \in Nat
        BY AlertsAssumption DEF Iface
      <4>2. j \in Iface /\ j \in Nat
        BY <1>4, <4>1
      <4>3. j < known
        BY <2>1, <4>2 DEF ReportInv, EndInv
      <4>4. QED
        BY <1>4, <4>2, <4>3, Periods
    <3>2. /\ Seen(settings) \in Nat
          /\ Delays(settings) + SlowRound + FirstCheck + Rounds(0) <= Seen(settings)
      BY <1>4, <3>1, RoomForCount
    <3>3. Agrees(j) => Within(since[j], 0, Seen(settings))
      BY <2>1, <3>1 DEF ReportInv, EndInv, Agrees
    <3>4. \/ Fits(since[j], Wait(b, medium_age) + Rounds(0), 0, Seen(settings))
          \/ since[j] <= Seen(settings) /\ 0 = 0 /\ due' = {"medium"}
      BY <1>12, <2>1, <3>1, <3>2, <3>3
    <3>5. QED
      BY <1>2, <1>7, <3>4 DEF Within
  <2>2. \A j \in Iface : IfaceDown(j) \in raised => j < known'
    BY <1>4 DEF ReportInv, EndInv, Iface
  <2>3. QED
    BY <1>2, <2>1, <2>2 DEF EndInv, IfaceDown
<1>15. QED
  BY <1>5, <1>8, <1>11, <1>13, <1>14 DEF ReportInv

\* What the loop takes for the time of a turn, the clock untouched.
LEMMA ElapsedIs ==
  ASSUME NEW p \in Nat, NEW a \in Nat, a + p < TickMod
  PROVE  (a + Elapsed(p, 0)) % TickMod = a + p
<1>1. ASSUME NEW x \in Nat, x < TickMod
      PROVE  x % TickMod = x
  BY <1>1, Periods
<1>2. Elapsed(p, 0) = p
  BY <1>1, Periods DEF Elapsed
<1>3. QED
  BY <1>1, <1>2

\* A turn of the main loop lets time pass, and may set the clock.
LEMMA ReportMain ==
  ASSUME ReportInv, CounterInv, NEW step \in 0 .. TickMod - 1, main(step)
  PROVE  ReportInv'
<1> DEFINE age(a) == (a + Elapsed(Larger(late, 1), step)) % TickMod
<1>1. /\ due = {} /\ late' = 0
      /\ settings' = IF step # 0 THEN settings + 1 ELSE settings
      /\ medium_age' = age(medium_age) /\ slow_age' = age(slow_age)
      /\ due' = {t \in {"medium", "slow"} :
                   \/ t = "medium" /\ medium_age' >= MediumPeriod
                   \/ t = "slow" /\ slow_age' >= SlowPeriod}
      /\ since' = [i \in Iface |-> IF i < known THEN Smaller(since[i] + Larger(late, 1), Longest)
                                              ELSE since[i]]
      /\ UNCHANGED <<link, known, running, reported>>
      /\ UNCHANGED <<num_ifaces, raised, hyst_counters>>
  BY DEF main, vars, engine, history, collector
<1>2. MonTypes /\ LoopInv
  BY DEF ReportInv
<1>3. /\ 0 .. known - 1 \subseteq Iface /\ settings \in Nat /\ since \in [Iface -> Nat]
      /\ known \in Nat /\ \A i \in 0 .. known - 1 : i < known
  BY <1>2, AlertsAssumption DEF MonTypes, Iface
<1>4. /\ late \in Nat /\ medium_age \in Nat /\ slow_age \in Nat
      /\ medium_age < MediumPeriod /\ slow_age < SlowPeriod
  BY <1>1, <1>2, Periods DEF LoopInv
<1>5. PICK p \in Nat : p = Larger(late, 1)
  BY <1>4 DEF Larger
<1>6. /\ p <= SlowPeriod /\ slow_age + p <= SlowRound
      /\ medium_age + p < TickMod /\ slow_age + p < TickMod
  BY <1>2, <1>4, <1>5, Periods DEF LoopInv, Larger
<1>7. medium_age' \in 0 .. TickMod - 1 /\ slow_age' \in 0 .. TickMod - 1
  <2>1. ASSUME NEW x \in Int
        PROVE  x % TickMod \in 0 .. TickMod - 1
    BY Periods
  <2>2. p + step \in Int
    OBVIOUS
  <2>3. Elapsed(p, step) \in Int
    BY <2>1, <2>2, Periods DEF Elapsed
  <2>4. QED
    BY <1>1, <1>4, <1>5, <2>1, <2>3
<1>8. step = 0 => medium_age' = medium_age + p /\ slow_age' = slow_age + p
  BY <1>1, <1>4, <1>5, <1>6, ElapsedIs
<1> HIDE DEF age
<1>9. Longest \in Nat
  <2>1. 0 \in 0 .. Hysteresis - 1 /\ MaxSettings \in Nat
    BY MonitorAssumption, Periods
  <2>2. Settled(MaxSettings) \in Nat
    BY <2>1, RoomForCount
  <2>3. QED
    BY <2>2 DEF Longest
<1>10. ASSUME NEW j \in Iface
       PROVE  since'[j] \in Nat /\ since'[j] <= since[j] + p
  BY <1>1, <1>3, <1>5, <1>9 DEF Smaller
<1>11. settings' \in Nat /\ settings' = IF step # 0 THEN settings + 1 ELSE settings
  BY <1>1, <1>3
<1>12. MonTypes'
  <2>1. since' \in [Iface -> Nat]
    BY <1>1, <1>10
  <2>2. QED
    BY <1>1, <1>2, <1>11, <2>1 DEF MonTypes
<1>13. LoopInv'
  BY <1>1, <1>7, Periods DEF LoopInv, Larger
<1>14. StaleInv'
  <2>1. SUFFICES ASSUME NEW j \in 0 .. known - 1, link[j] # "gone", ~Agrees(j)
                 PROVE  since'[j] <= Delays(settings') + Smaller(slow_age', SlowRound)
    BY <1>1 DEF StaleInv, Agrees, Delays, Smaller, SlowRound, Larger
  <2>2. since[j] <= Delays(settings) + Smaller(slow_age, SlowRound)
    BY <2>1 DEF ReportInv, StaleInv
  <2>3. /\ Delays(settings) \in Nat /\ Delays(settings + 1) = Delays(settings) + SlowRound
        /\ SlowRound \in Nat
    BY <1>3, DelaysAdd, Periods
  <2>4. since[j] \in Nat /\ since'[j] \in Nat /\ since'[j] <= since[j] + p
    BY <1>3, <1>10
  <2>5. Smaller(slow_age, SlowRound) = slow_age
    BY <1>4, <1>6, <2>3 DEF Smaller
  <2>6. since'[j] <= Delays(settings) + slow_age + p
    BY <1>4, <2>2, <2>3, <2>4, <2>5
  <2>7. CASE step = 0
    <3>1. Smaller(slow_age', SlowRound) = slow_age + p
      BY <1>4, <1>6, <1>8, <2>3, <2>7 DEF Smaller
    <3>2. QED
      BY <1>4, <1>11, <2>3, <2>6, <2>7, <3>1
  <2>8. CASE step # 0
    <3>1. Smaller(slow_age', SlowRound) \in Nat
      BY <1>7, <2>3, Periods DEF Smaller
    <3>2. QED
      BY <1>4, <1>6, <1>11, <2>3, <2>4, <2>6, <2>8, <3>1
  <2>9. QED
    BY <2>7, <2>8
<1>15. ASSUME NEW j \in Iface, NEW r \in Nat, NEW c \in Nat, NEW d \in Nat,
              Within(since[j], r, c), d = IF step # 0 THEN c + SlowRound ELSE c
       PROVE  Fits(since'[j], Wait(0, medium_age') + Rounds(r), slow_age', d)
  <2>1. Rounds(r) \in Nat /\ since[j] \in Nat /\ since'[j] \in Nat
    BY <1>3, <1>10, RoundsAdd
  <2>2. Fits(since[j], Wait(late, medium_age) + Rounds(r), slow_age, c)
    BY <1>1, <1>15 DEF Within
  <2>3. since'[j] <= since[j] + Larger(late, 1)
    BY <1>5, <1>10
  <2>4. CASE step = 0
    <3>1. Fits(since'[j], Wait(0, medium_age + Larger(late, 1)) + Rounds(r),
               slow_age + Larger(late, 1), c)
      BY <1>4, <2>1, <2>2, <2>3, FitsTurn
    <3>2. QED
      BY <1>5, <1>8, <1>15, <2>4, <3>1
  <2>5. CASE step # 0
    <3>1. medium_age' \in Nat /\ slow_age' \in Nat
      BY <1>7, Periods
    <3>2. Fits(since'[j], Wait(0, medium_age') + Rounds(r), slow_age', c + SlowRound)
      BY <1>4, <2>1, <2>2, <2>3, <3>1, FitsSetting
    <3>3. QED
      BY <1>15, <2>5, <3>2
  <2>6. QED
    BY <2>4, <2>5
<1>16. CountInv'
  <2>1. SUFFICES ASSUME NEW j \in (0 .. known - 1) \ Ignored,
                        link[j] = "down", j \notin running, j \notin reported
                 PROVE  Within(since[j], Outstanding(j), Settled(settings))'
    BY <1>1 DEF CountInv
  <2>2. j \in Iface /\ Outstanding(j) \in 0 .. Hysteresis - 1
    BY <1>3, RowCells
  <2>3. PICK r \in 0 .. Hysteresis - 1 : r = Outstanding(j) /\ r = Outstanding(j)'
    BY <1>1, <2>2 DEF Outstanding, IfaceDown
  <2>4. Within(since[j], Outstanding(j), Settled(settings))
    BY <2>1 DEF ReportInv, CountInv
  <2>5. r \in Nat
    BY Periods
  <2>6. Within(since[j], r, Settled(settings)) /\ r \in Nat
    BY <2>3, <2>4, <2>5
  <2>7. /\ Settled(settings) \in Nat /\ Settled(settings') \in Nat
        /\ Settled(settings + 1) = Settled(settings) + SlowRound
    BY <1>3, <1>11, <2>2, RoomForCount
  <2>8. Settled(settings') = IF step # 0 THEN Settled(settings) + SlowRound ELSE Settled(settings)
    BY <1>11, <2>7
  <2>9. Fits(since'[j], Wait(0, medium_age') + Rounds(r), slow_age', Settled(settings'))
    BY <1>15, <2>2, <2>6, <2>7, <2>8
  <2>10. QED
    BY <1>1, <2>3, <2>9 DEF Within
<1>17. EndInv'
  <2>1. ASSUME NEW j \in 0 .. known - 1,
               link[j] = "ok", j \in running, IfaceDown(j) \in raised
        PROVE  Within(since[j], 0, Seen(settings))'
    <3>1. Within(since[j], 0, Seen(settings)) /\ j \in Iface
      BY <1>3, <2>1 DEF ReportInv, EndInv
    <3>2. 0 \in 0 .. Hysteresis - 1
      BY Periods
    <3>3. /\ Seen(settings) \in Nat /\ Seen(settings') \in Nat
          /\ Seen(settings + 1) = Seen(settings) + SlowRound
      BY <1>3, <1>11, <3>2, RoomForCount
    <3>4. Seen(settings') = IF step # 0 THEN Seen(settings) + SlowRound ELSE Seen(settings)
      BY <1>11, <3>3
    <3>5. Fits(since'[j], Wait(0, medium_age') + Rounds(0), slow_age', Seen(settings'))
      BY <1>15, <3>1, <3>3, <3>4
    <3>6. QED
      BY <1>1, <3>5 DEF Within
  <2>2. QED
    BY <1>1, <2>1 DEF ReportInv, EndInv, IfaceDown
<1>18. QED
  BY <1>12, <1>13, <1>14, <1>16, <1>17 DEF ReportInv

\* Clear All touches neither the counters nor the time.
LEMMA ReportClear ==
  ASSUME ReportInv, ClearAll \/ UNCHANGED monVars
  PROVE  ReportInv'
<1>1. /\ UNCHANGED <<num_ifaces, raised, hyst_counters>>
      /\ UNCHANGED <<link, late, medium_age, slow_age, due, known, running, settings,
                     since, reported>>
  BY DEF ClearAll, alerts_clear_all, monVars, vars, engine, history, lvgl, collector, watch
<1>2. MonTypes' /\ LoopInv'
  BY <1>1 DEF ReportInv, MonTypes, LoopInv
<1>3. StaleInv'
  BY <1>1 DEF ReportInv, StaleInv, Agrees, Delays, Smaller
<1>4. CountInv'
  BY <1>1 DEF ReportInv, CountInv, Within, Outstanding
<1>5. EndInv'
  BY <1>1 DEF ReportInv, EndInv, Within
<1>6. QED
  BY <1>2, <1>3, <1>4, <1>5 DEF ReportInv

\* The observation of a medium tick is one of the known interfaces.
LEMMA EngineInLoop ==
  ASSUME CounterInv, LogInv, MonTypes, [MonNext]_monVars
  PROVE  CounterInv' /\ LogInv'
<1>1. ASSUME NEW answer, NEW lat, NEW errs, medium_timer_cb(answer, lat, errs)
      PROVE  CounterInv' /\ LogInv'
  <2>1. alerts_check(Shown(answer, lat, errs)) /\ Shown(answer, lat, errs).num_ifaces = known
    BY <1>1 DEF medium_timer_cb, Shown
  <2>2. known \in num_ifaces .. MaxInterfaces
    BY AlertsAssumption DEF MonTypes, CounterInv, CounterTypeOK
  <2>3. QED
    BY <2>1, <2>2, CounterCheck, LogCheck
<1>2. ASSUME alerts_clear_all \/ UNCHANGED vars
      PROVE  CounterInv' /\ LogInv'
  BY <1>2, CounterClear, LogClear
<1>3. CASE MonNext
  <2>1. ASSUME NEW i \in Iface, LinkChanges(i)
        PROVE  UNCHANGED vars
    BY <2>1 DEF LinkChanges
  <2>2. ASSUME NEW step \in 0 .. TickMod - 1, main(step)
        PROVE  UNCHANGED vars
    BY <2>2 DEF main
  <2>3. ASSUME NEW new, NEW answer, slow_timer_cb(new, answer)
        PROVE  UNCHANGED vars
    BY <2>3 DEF slow_timer_cb
  <2>4. ClearAll => alerts_clear_all
    BY DEF ClearAll
  <2>5. QED
    BY <1>1, <1>2, <1>3, <2>1, <2>2, <2>3, <2>4 DEF MonNext
<1>4. CASE UNCHANGED monVars
  BY <1>2, <1>4 DEF monVars
<1>5. QED
  BY <1>3, <1>4

\* What the engine promises it promises in the main loop, too; and time and
\* counters are bounded as said above.
LEMMA MonInvariant == MonSpec => [](ReportInv /\ CounterInv /\ LogInv)
<1>1. MonInit => ReportInv /\ CounterInv /\ LogInv
  BY ReportInit, LogInit DEF MonInit
<1>2. ReportInv /\ CounterInv /\ LogInv /\ [MonNext]_monVars
        => ReportInv' /\ CounterInv' /\ LogInv'
  <2>1. SUFFICES ASSUME ReportInv, CounterInv, LogInv, [MonNext]_monVars
                 PROVE  ReportInv' /\ CounterInv' /\ LogInv'
    OBVIOUS
  <2>2. CounterInv' /\ LogInv'
    BY <2>1, EngineInLoop DEF ReportInv
  <2>3. ASSUME NEW i \in Iface, LinkChanges(i)
        PROVE  ReportInv'
    BY <2>1, <2>3, ReportLink
  <2>4. ASSUME NEW step \in 0 .. TickMod - 1, main(step)
        PROVE  ReportInv'
    BY <2>1, <2>4, ReportMain
  <2>5. ASSUME NEW answer, NEW lat, NEW errs, medium_timer_cb(answer, lat, errs)
        PROVE  ReportInv'
    BY <2>1, <2>2, <2>5, ReportMedium
  <2>6. ASSUME NEW new \in 0 .. MaxInterfaces - known, NEW answer, slow_timer_cb(new, answer)
        PROVE  ReportInv'
    BY <2>1, <2>6, ReportSlow
  <2>7. ASSUME ClearAll \/ UNCHANGED monVars
        PROVE  ReportInv'
    BY <2>1, <2>7, ReportClear
  <2>8. CASE MonNext
    BY <2>2, <2>3, <2>4, <2>5, <2>6, <2>7, <2>8 DEF MonNext
  <2>9. CASE UNCHANGED monVars
    BY <2>2, <2>7, <2>9
  <2>10. QED
    BY <2>1, <2>8, <2>9
<1>3. QED
  BY <1>1, <1>2, PTL DEF MonSpec

\* Driven by the ticks of the main loop, the engine keeps its promises
\* (net_collector.c:467): persistence, the log's indices and the badge.
THEOREM EngineKeepsItsPromises ==
  MonSpec => [](TypeOK /\ RaisedOnPersistence /\ LogIndicesAgree /\ BadgeZeroIffNoneActive)
<1>1. LogInv /\ CounterInv => TypeOK
  BY DEF LogInv, CounterInv, LogTypeOK, CounterTypeOK, TypeOK
<1>2. LogInv /\ CounterInv =>
        RaisedOnPersistence /\ LogIndicesAgree /\ BadgeZeroIffNoneActive
  BY DEF LogInv, CounterInv
<1>3. QED
  BY <1>1, <1>2, MonInvariant, PTL

\* An interface that is down has been reported when the next slow tick, the
\* check after it and the rest of the hysteresis have had their time, however
\* the probes block and the clock is set (main.c:116-125,
\* net_collector.c:473-501, alerts.c:110-125).
THEOREM DownGetsReported == MonSpec => []DownIsReported
<1>1. ReportInv /\ CounterInv => DownIsReported
  <2>1. SUFFICES ASSUME ReportInv, CounterInv, NEW i \in (0 .. known - 1) \ Ignored,
                        link[i] = "down", since[i] > Settled(settings), i \notin reported
                 PROVE  FALSE
    BY DEF DownIsReported
  <2>2. /\ i \in Iface /\ since[i] \in Nat /\ settings \in Nat
        /\ late \in Nat /\ medium_age \in Nat /\ slow_age \in Nat
    BY <2>1, AlertsAssumption DEF ReportInv, MonTypes, LoopInv, Iface
  <2>3. PICK r \in 0 .. Hysteresis - 1 : r = Outstanding(i)
    BY <2>1, <2>2, RowCells
  <2>4. /\ Settled(settings) \in Nat /\ Rounds(r) \in Nat /\ Delays(settings) \in Nat
        /\ Delays(settings) + SlowRound + FirstCheck + Rounds(r) <= Settled(settings)
    BY <2>2, RoomForCount
  <2>5. Wait(late, medium_age) \in Nat /\ SlowBlocks \in Nat /\ SlowRound \in Nat /\ FirstCheck \in Nat
    BY <2>2, Periods DEF Wait, Larger
  <2>6. CASE i \in running
    <3>1. since[i] <= Delays(settings) + Smaller(slow_age, SlowRound)
      BY <2>1, <2>6 DEF ReportInv, StaleInv, Agrees
    <3>2. Smaller(slow_age, SlowRound) \in Nat /\ Smaller(slow_age, SlowRound) <= SlowRound
      BY <2>2, <2>5 DEF Smaller
    <3>3. QED
      BY <2>1, <2>2, <2>4, <2>5, <3>1, <3>2
  <2>7. CASE i \notin running
    <3>1. Within(since[i], r, Settled(settings))
      BY <2>1, <2>3, <2>7 DEF ReportInv, CountInv
    <3>2. QED
      BY <2>1, <2>2, <2>4, <2>5, <3>1 DEF Within, Fits
  <2>8. QED
    BY <2>6, <2>7
<1>2. QED
  BY <1>1, MonInvariant, PTL

\* No check reports an interface that has been up again for longer than a
\* slow round and the check after it (net_collector.c:480-486, :467).
THEOREM AlarmsEnd == MonSpec => []NoLateAlarm
<1>1. ReportInv /\ CounterInv => NoLateAlarm
  <2>1. SUFFICES ASSUME ReportInv, CounterInv, NEW i \in 0 .. known - 1,
                        link[i] = "ok", since[i] > Seen(settings), IfaceDown(i) \in raised
                 PROVE  FALSE
    BY DEF NoLateAlarm
  <2>2. /\ i \in Iface /\ since[i] \in Nat /\ settings \in Nat
        /\ late \in Nat /\ medium_age \in Nat /\ slow_age \in Nat
    BY <2>1, AlertsAssumption DEF ReportInv, MonTypes, LoopInv, Iface
  <2>3. 0 \in 0 .. Hysteresis - 1
    BY Periods
  <2>4. /\ Seen(settings) \in Nat /\ Rounds(0) \in Nat /\ Delays(settings) \in Nat
        /\ Delays(settings) + SlowRound + FirstCheck + Rounds(0) <= Seen(settings)
    BY <2>2, <2>3, RoomForCount
  <2>5. Wait(late, medium_age) \in Nat /\ SlowBlocks \in Nat /\ SlowRound \in Nat /\ FirstCheck \in Nat
    BY <2>2, Periods DEF Wait, Larger
  <2>6. CASE i \notin running
    <3>1. since[i] <= Delays(settings) + Smaller(slow_age, SlowRound)
      BY <2>1, <2>6 DEF ReportInv, StaleInv, Agrees
    <3>2. Smaller(slow_age, SlowRound) \in Nat /\ Smaller(slow_age, SlowRound) <= SlowRound
      BY <2>2, <2>5 DEF Smaller
    <3>3. QED
      BY <2>1, <2>2, <2>4, <2>5, <3>1, <3>2
  <2>7. CASE i \in running
    <3>1. Within(since[i], 0, Seen(settings))
      BY <2>1, <2>7 DEF ReportInv, EndInv
    <3>2. QED
      BY <2>1, <2>2, <2>4, <2>5, <3>1 DEF Within, Fits
  <2>8. QED
    BY <2>6, <2>7
<1>2. QED
  BY <1>1, MonInvariant, PTL
=============================================================================
