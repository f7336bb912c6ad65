------------------------- MODULE InfraMonitorProofs -------------------------
(***************************************************************************)
(* Theorems about the round robin over infrastructure devices, for every   *)
(* size of the table and every bound on the failures counted.              *)
(***************************************************************************)
EXTENDS InfraMonitor, FiniteSetTheorems, WellFoundedInduction, TLAPS

\* A set of naturals that is not empty has a least element.
LEMMA MinIs ==
  ASSUME NEW S \in SUBSET Nat, S # {}
  PROVE  Min(S) \in S /\ \A y \in S : Min(S) <= y
<1> DEFINE Spans == {0 .. x : x \in S}
           R     == StrictSubsetOrdering(Nat)
<1>1. Spans \subseteq FiniteSubsetsOf(Nat)
  <2>1. \A x \in S : IsFiniteSet(0 .. x) /\ 0 .. x \subseteq Nat
    BY FS_Interval
  <2>2. QED
    BY <2>1 DEF FiniteSubsetsOf
<1>2. PICK T \in Spans : \A U \in Spans : ~(<<U, T>> \in R)
  <2>1. IsWellFoundedOn(R, FiniteSubsetsOf(Nat))
    BY FS_StrictSubsetOrderingWellFounded
  <2>2. Spans # {}
    OBVIOUS
  <2> HIDE DEF Spans, R
  <2>3. QED
    BY <1>1, <2>1, <2>2, WFMin
<1>3. PICK x \in S : T = 0 .. x
  BY <1>2
<1>4. \A y \in S : x <= y
  <2>1. SUFFICES ASSUME NEW y \in S, y < x
                 PROVE  FALSE
    OBVIOUS
  <2>2. 0 .. y \subseteq 0 .. x /\ 0 .. y # 0 .. x
    BY <2>1
  <2>3. <<0 .. y, T>> \in R
    BY <1>3, <2>2 DEF StrictSubsetOrdering
  <2>4. QED
    BY <1>2, <2>3
<1>5. QED
  BY <1>4 DEF Min

\* Wrap-around without division.
LEMMA WrapIs ==
  ASSUME NEW n \in Nat \ {0}, NEW x \in 0 .. 2 * n - 1
  PROVE  x % n = IF x < n THEN x ELSE x - n
<1>1. CASE x < n
  BY <1>1
<1>2. CASE x >= n
  <2>1. x - n \in 0 .. n - 1 /\ x = n + (x - n)
    BY <1>2
  <2>2. QED
    BY <2>1
<1>3. QED
  BY <1>1, <1>2

-----------------------------------------------------------------------------
(***************************************************************************)
(* That an enabled device waits for fewer turns than there are devices is  *)
(* not inductive: what a device has waited and how far the search still    *)
(* has to go to reach it are less than that together.                      *)
(***************************************************************************)
Ahead(i) == IF i >= ping_idx THEN i - ping_idx ELSE i - ping_idx + num_infra

TableType ==
  /\ num_infra \in Count
  /\ enabled \subseteq Device /\ reachable \subseteq Device
  /\ fails \in [Slot -> 0 .. MaxFails]

IndexType ==
  /\ ping_idx \in Nat
  /\ IF num_infra <= 0 THEN ping_idx = 0 ELSE ping_idx < num_infra
  /\ last \in Device \cup {None}

ScreenType ==
  /\ built \in BOOLEAN /\ infra_count = IF built THEN num_infra ELSE 0
  /\ switches \subseteq Device

WaitType == wait \in [Slot -> 0 .. MaxInfra]

TurnComes == \A i \in enabled : wait[i] + Ahead(i) < num_infra

RoundInv == TableType /\ IndexType /\ ScreenType /\ WaitType /\ TurnComes

\* The tick comes to the enabled device that is the fewest places ahead.
LEMMA PingedIsNext ==
  ASSUME TableType, IndexType
  PROVE  IF enabled = {} THEN Pinged = None
         ELSE Pinged \in enabled /\ \A j \in enabled : Ahead(Pinged) <= Ahead(j)
<1>1. CASE enabled = {}
  BY <1>1 DEF Pinged
<1>2. CASE enabled # {}
  <2> DEFINE ahead == {k \in Device : (ping_idx + k) % num_infra \in enabled}
  <2>1. num_infra \in Nat \ {0} /\ ping_idx \in 0 .. num_infra - 1
    <3>1. num_infra \in Int
      BY InfraAssumption DEF TableType, Count, InfraAssumption
    <3>2. num_infra > 0
      <4>1. PICK j \in enabled : TRUE
        BY <1>2
      <4>2. j \in 0 .. num_infra - 1
        BY <4>1 DEF TableType, Device
      <4>3. QED
        BY <3>1, <4>2
    <3>3. ping_idx \in Nat /\ ping_idx < num_infra
      BY <3>1, <3>2 DEF IndexType
    <3>4. QED
      BY <3>1, <3>2, <3>3
  <2>2. \A i \in Device : Ahead(i) \in Device /\ (ping_idx + Ahead(i)) % num_infra = i
    <3>1. ASSUME NEW i \in Device
          PROVE  /\ Ahead(i) \in Device
                 /\ ping_idx + Ahead(i) \in {i, i + num_infra}
                 /\ ping_idx + Ahead(i) \in 0 .. 2 * num_infra - 1
      BY <2>1 DEF Device, Ahead
    <3>2. ASSUME NEW i \in Device
          PROVE  (ping_idx + Ahead(i)) % num_infra = i
      <4>1. i \in Nat /\ i < num_infra
        BY <2>1 DEF Device
      <4> DEFINE x == ping_idx + Ahead(i)
      <4>2. x \in 0 .. 2 * num_infra - 1 /\ x \in {i, i + num_infra}
        BY <3>1
      <4>3. num_infra \in Nat \ {0}
        BY <2>1
      <4> HIDE DEF x
      <4>4. x % num_infra = IF x < num_infra THEN x ELSE x - num_infra
        BY <4>2, <4>3, WrapIs
      <4>5. x % num_infra = i
        BY <4>1, <4>2, <4>3, <4>4
      <4>6. QED
        BY <4>5 DEF x
    <3>3. QED
      BY <3>1, <3>2
  <2>3. \A k \in Device : Ahead((ping_idx + k) % num_infra) = k
    <3>1. ASSUME NEW k \in Device
          PROVE  (ping_idx + k) % num_infra = IF ping_idx + k < num_infra THEN ping_idx + k
                                              ELSE ping_idx + k - num_infra
      <4> DEFINE x == ping_idx + k
      <4>1. x \in 0 .. 2 * num_infra - 1 /\ num_infra \in Nat \ {0}
        BY <2>1 DEF Device
      <4> HIDE DEF x
      <4>2. x % num_infra = IF x < num_infra THEN x ELSE x - num_infra
        BY <4>1, WrapIs
      <4>3. QED
        BY <2>1, <4>2 DEF x, Device
    <3>2. QED
      BY <2>1, <3>1 DEF Device, Ahead
  <2>4. \A j \in enabled : Ahead(j) \in ahead
    BY <2>2 DEF TableType
  <2>5. ahead \in SUBSET Nat /\ ahead # {}
    BY <1>2, <2>4 DEF Device
  <2>6. Min(ahead) \in ahead /\ \A k \in ahead : Min(ahead) <= k
    BY <2>5, MinIs
  <2>7. Pinged = (ping_idx + Min(ahead)) % num_infra
    <3>1. enabled \cap Device # {}
      BY <1>2 DEF TableType
    <3>2. QED
      BY <3>1 DEF Pinged
  <2>8. Pinged \in enabled /\ Ahead(Pinged) = Min(ahead)
    BY <2>3, <2>6, <2>7
  <2>9. QED
    BY <1>2, <2>4, <2>6, <2>8
<1>3. QED
  BY <1>1, <1>2

\* A count that stops at a bound.
LEMMA Capped ==
  ASSUME NEW m \in Nat, NEW n \in Nat
  PROVE  Min({m, n}) \in 0 .. n /\ Min({m, n}) <= m
<1>1. {m, n} \in SUBSET Nat /\ {m, n} # {}
  OBVIOUS
<1>2. QED
  BY <1>1, MinIs

-----------------------------------------------------------------------------
\* The medium tick keeps the invariant.
LEMMA TickKeepsInv ==
  ASSUME RoundInv, NEW ok \in BOOLEAN, medium_timer_cb(ok)
  PROVE  RoundInv'
<1> DEFINE i == Pinged
<1>s. InfraAssumption /\ TableType /\ IndexType /\ ScreenType /\ WaitType /\ TurnComes
  BY InfraAssumption DEF RoundInv
<1>1. num_infra' = num_infra /\ enabled' = enabled /\ UNCHANGED screen
  BY DEF medium_timer_cb, table
<1>2. WaitType'
  <2>1. \A j \in Slot : Min({wait[j] + 1, MaxInfra}) \in 0 .. MaxInfra
    BY <1>s, Capped DEF WaitType, InfraAssumption
  <2>2. wait' = [j \in Slot |-> IF j = i \/ j \notin enabled \cap Device THEN 0
                                ELSE Min({wait[j] + 1, MaxInfra})]
    BY DEF medium_timer_cb
  <2>3. 0 \in 0 .. MaxInfra
    BY <1>s DEF InfraAssumption
  <2> HIDE DEF i
  <2>4. QED
    BY <2>1, <2>2, <2>3 DEF WaitType
<1>3. CASE enabled = {}
  <2>1. Pinged = None
    BY <1>s, <1>3, PingedIsNext
  <2>2. last' = None /\ UNCHANGED <<table, ping_idx, screen>>
    <3>1. None \notin enabled
      BY <1>3
    <3>2. QED
      BY <2>1 DEF medium_timer_cb
  <2>3. TableType' /\ IndexType' /\ ScreenType' /\ TurnComes'
    BY <1>s, <1>3, <2>2
       DEF TableType, IndexType, ScreenType, TurnComes, Device, table, screen
  <2>4. QED
    BY <1>2, <2>3 DEF RoundInv
<1>4. CASE enabled # {}
  <2>1. i \in enabled /\ \A j \in enabled : Ahead(i) <= Ahead(j)
    BY <1>s, <1>4, PingedIsNext
  <2>2. i \in Device /\ i \in Slot /\ i # None
    BY <1>s, <2>1 DEF TableType, Count, Device, Slot, None, InfraAssumption
  <2>3. /\ last' = i /\ ping_idx' = StartAfter(i)
        /\ reachable' = IF ok THEN reachable \cup {i} ELSE reachable \ {i}
        /\ fails' = [fails EXCEPT ![i] = FailsAfter(i, ok)]
        /\ wait' = [j \in Slot |-> IF j = i \/ j \notin enabled \cap Device THEN 0
                                   ELSE Min({wait[j] + 1, MaxInfra})]
    BY <2>2 DEF medium_timer_cb
  <2> HIDE DEF i
  <2>4. num_infra \in Nat \ {0} /\ i \in 0 .. num_infra - 1 /\ num_infra <= MaxInfra
    BY <1>s, <2>2 DEF TableType, Count, Device, InfraAssumption
  <2>5. ping_idx' = IF i + 1 = num_infra THEN 0 ELSE i + 1
    <3>1. i + 1 \in 0 .. 2 * num_infra - 1
      BY <2>4
    <3>2. (i + 1) % num_infra = IF i + 1 < num_infra THEN i + 1 ELSE i + 1 - num_infra
      BY <2>4, <3>1, WrapIs
    <3>3. QED
      BY <2>3, <2>4, <3>2 DEF StartAfter
  <2>6. TableType'
    <3>1. FailsAfter(i, ok) \in 0 .. MaxFails
      <4>1. fails[i] + 1 \in Nat /\ MaxFails \in Nat
        BY <1>s, <2>2 DEF TableType, InfraAssumption
      <4>2. QED
        BY <4>1, Capped DEF FailsAfter
    <3>2. fails' \in [Slot -> 0 .. MaxFails]
      BY <1>s, <2>2, <2>3, <3>1 DEF TableType
    <3>3. QED
      BY <1>s, <1>1, <2>2, <2>3, <3>2 DEF TableType, Device
  <2>7. IndexType'
    BY <1>1, <2>2, <2>3, <2>4, <2>5 DEF IndexType, Device
  <2>8. ScreenType'
    BY <1>s, <1>1 DEF ScreenType, screen, Device
  <2>9. ASSUME NEW j \in enabled
        PROVE  wait'[j] + Ahead(j)' < num_infra
    <3>1. j \in Device /\ j \in Slot /\ j \in 0 .. num_infra - 1
      BY <1>s, <2>4 DEF TableType, Device, Slot
    <3>2. Ahead(j)' \in 0 .. num_infra - 1
      BY <1>1, <2>4, <2>5, <3>1 DEF Ahead
    <3>3. CASE j = i
      BY <2>3, <2>4, <3>1, <3>2, <3>3
    <3>4. CASE j # i
      <4>1. wait'[j] = Min({wait[j] + 1, MaxInfra})
        BY <2>3, <3>1, <3>4
      <4>2. wait[j] \in Nat /\ MaxInfra \in Nat
        BY <1>s, <3>1 DEF WaitType, InfraAssumption
      <4>3. wait'[j] \in Nat /\ wait'[j] <= wait[j] + 1
        BY <4>1, <4>2, Capped
      <4>4. ping_idx \in 0 .. num_infra - 1 /\ Ahead(i) <= Ahead(j)
        BY <1>s, <2>1, <2>4 DEF IndexType
      <4>5. Ahead(j)' < Ahead(j)
        BY <1>1, <2>4, <2>5, <3>1, <3>4, <4>4 DEF Ahead
      <4>6. wait[j] + Ahead(j) < num_infra /\ Ahead(j) \in Nat
        BY <1>s, <2>4, <3>1, <4>4 DEF TurnComes, Ahead
      <4>7. QED
        BY <2>4, <3>2, <4>2, <4>3, <4>5, <4>6
    <3>5. QED
      BY <3>3, <3>4
  <2>10. TurnComes'
    BY <1>1, <2>9 DEF TurnComes
  <2>11. QED
    BY <1>2, <2>6, <2>7, <2>8, <2>10 DEF RoundInv
<1>5. QED
  BY <1>3, <1>4

-----------------------------------------------------------------------------
\* Nothing is enabled, waits or counts at the start.
LEMMA LoadGivesInv ==
  ASSUME load_infra_config
  PROVE  RoundInv
<1>s. InfraAssumption
  BY InfraAssumption
<1>1. TableType /\ IndexType /\ ScreenType /\ WaitType
  <2>1. num_infra \in Int /\ num_infra <= MaxInfra /\ num_infra \in Count
    BY <1>s DEF load_infra_config, InfraAssumption, Count
  <2>2. TableType
    <3>1. Device \subseteq Slot
      BY <1>s, <2>1 DEF Device, Slot, InfraAssumption
    <3>2. fails \in [Slot -> 0 .. MaxFails]
      BY <1>s DEF load_infra_config, InfraAssumption
    <3>3. enabled \subseteq Device /\ reachable \subseteq Device
      BY DEF load_infra_config
    <3>4. QED
      BY <2>1, <3>1, <3>2, <3>3 DEF TableType
  <2>3. IndexType
    BY <1>s, <2>1 DEF load_infra_config, IndexType, InfraAssumption, Slot
  <2>4. ScreenType
    BY <1>s DEF load_infra_config, ScreenType, InfraAssumption, Count
  <2>5. WaitType
    BY <1>s DEF load_infra_config, WaitType, InfraAssumption
  <2>6. QED
    BY <2>2, <2>3, <2>4, <2>5
<1>2. ASSUME NEW i \in enabled
      PROVE  wait[i] + Ahead(i) < num_infra
  <2>1. i \in Slot /\ i \in 0 .. num_infra - 1 /\ num_infra \in Nat
    BY <1>s, <1>1 DEF TableType, Count, Device, Slot, InfraAssumption
  <2>2. wait[i] = 0 /\ Ahead(i) = i
    BY <2>1 DEF load_infra_config, Ahead
  <2>3. QED
    BY <2>1, <2>2
<1>3. QED
  BY <1>1, <1>2 DEF RoundInv, TurnComes

\* Opening the screen and switching on it touch no device.
LEMMA ScreenKeepsInv ==
  ASSUME RoundInv, ui_settings_create \/ (\E i \in Slot : Toggle(i)) \/ UNCHANGED vars
  PROVE  RoundInv'
<1>s. InfraAssumption /\ TableType /\ IndexType /\ ScreenType /\ WaitType /\ TurnComes
  BY InfraAssumption DEF RoundInv
<1>1. UNCHANGED <<table, ping_idx, ghosts>>
  BY DEF ui_settings_create, Toggle, vars
<1>2. UNCHANGED <<num_infra, enabled, reachable, fails, ping_idx, last, wait>>
  BY <1>1 DEF table, ghosts
<1>3. TableType' /\ IndexType' /\ WaitType' /\ TurnComes'
  BY <1>s, <1>2 DEF TableType, IndexType, WaitType, TurnComes, Ahead, Device
<1>4. ScreenType'
  <2>1. CASE ui_settings_create
    BY <1>s, <1>2, <2>1 DEF ui_settings_create, ScreenType, TableType, Device
  <2>2. ASSUME NEW i \in Slot, Toggle(i)
        PROVE  ScreenType'
    <3>1. i < infra_count /\ UNCHANGED <<built, infra_count>>
      BY <2>2 DEF Toggle
    <3>2. i \in Device
      BY <1>s, <3>1 DEF Slot, Device, TableType, Count, ScreenType, InfraAssumption
    <3>3. switches' \subseteq switches \cup {i}
      BY <2>2 DEF Toggle
    <3>4. QED
      BY <1>s, <1>2, <3>1, <3>2, <3>3 DEF ScreenType, Device
  <2>3. CASE UNCHANGED vars
    BY <1>s, <1>2, <2>3 DEF vars, screen, ScreenType, Device
  <2>4. QED
    BY <2>1, <2>2, <2>3
<1>5. QED
  BY <1>3, <1>4 DEF RoundInv

\* A device that is added goes to the end of the table: it has waited for
\* nothing yet, and the way to the others grows by one place at most, as
\* does the number of turns they may wait for.
LEMMA AddKeepsInv ==
  ASSUME RoundInv, add_device_cb
  PROVE  RoundInv'
<1>s. InfraAssumption /\ TableType /\ IndexType /\ ScreenType /\ WaitType /\ TurnComes
  BY InfraAssumption DEF RoundInv
<1> DEFINE n == num_infra
           added == {n} \cap Slot
<1>1. built /\ infra_count = n /\ n \in Int /\ n < MaxInfra /\ MaxInfra \in Nat /\ Below \in Nat /\ n >= -Below
  BY <1>s DEF add_device_cb, ScreenType, TableType, Count, InfraAssumption
<1>2. /\ num_infra' = n + 1 /\ infra_count' = n + 1
      /\ enabled' = enabled \cup added /\ switches' = switches \cup added
      /\ reachable' = reachable \ added
      /\ fails' = [i \in Slot |-> IF i \in added THEN 0 ELSE fails[i]]
      /\ wait' = [i \in Slot |-> IF i \in added THEN 0 ELSE wait[i]]
      /\ ping_idx' = ping_idx /\ last' = last /\ built' = built
  BY <1>1 DEF add_device_cb
<1>3. Device \subseteq Device' /\ added \subseteq Device'
  BY <1>1, <1>2 DEF Device, Slot
<1>4. TableType'
  <2>1. fails' \in [Slot -> 0 .. MaxFails]
    BY <1>s, <1>2 DEF TableType, InfraAssumption
  <2>2. num_infra' \in Count
    BY <1>1, <1>2 DEF Count
  <2>3. QED
    BY <1>s, <1>2, <1>3, <2>1, <2>2 DEF TableType
<1>5. IndexType'
  <2>1. last' \in Device' \cup {None}
    BY <1>s, <1>2, <1>3 DEF IndexType
  <2>2. IF num_infra' <= 0 THEN ping_idx' = 0 ELSE ping_idx' < num_infra'
    BY <1>s, <1>1, <1>2 DEF IndexType
  <2>3. QED
    BY <1>s, <1>2, <2>1, <2>2 DEF IndexType
<1>6. ScreenType'
  BY <1>s, <1>1, <1>2, <1>3 DEF ScreenType
<1>7. WaitType'
  BY <1>s, <1>1, <1>2 DEF WaitType
<1>8. ASSUME NEW i \in enabled'
      PROVE  wait'[i] + Ahead(i)' < num_infra'
  <2>1. i \in Slot /\ i \in 0 .. n /\ n \in Nat
    BY <1>s, <1>1, <1>2 DEF TableType, Device, Slot
  <2>2. ping_idx \in Nat /\ ping_idx <= n
    BY <1>s, <2>1 DEF IndexType
  <2>3. CASE i = n
    <3>1. wait'[i] = 0
      BY <1>2, <2>1, <2>3
    <3>2. Ahead(i)' \in Nat /\ Ahead(i)' < n + 1
      BY <1>2, <2>1, <2>2, <2>3 DEF Ahead
    <3>3. QED
      BY <1>2, <2>1, <3>1, <3>2
  <2>4. CASE i # n
    <3>1. i \in enabled /\ i \in 0 .. n - 1
      BY <1>2, <2>1, <2>4
    <3>2. wait'[i] = wait[i] /\ wait[i] \in Nat
      BY <1>s, <1>2, <2>1, <2>4 DEF WaitType, InfraAssumption
    <3>3. Ahead(i) \in Nat /\ Ahead(i)' \in Nat /\ Ahead(i)' <= Ahead(i) + 1
      BY <1>2, <2>1, <2>2, <3>1 DEF Ahead
    <3>4. wait[i] + Ahead(i) < n
      BY <1>s, <3>1 DEF TurnComes
    <3>5. QED
      BY <1>2, <2>1, <3>2, <3>3, <3>4
  <2>5. QED
    BY <2>3, <2>4
<1>9. QED
  BY <1>4, <1>5, <1>6, <1>7, <1>8 DEF RoundInv, TurnComes

\* Saving changes which devices wait, not how many there are.
LEMMA SaveKeepsInv ==
  ASSUME RoundInv, save_btn_cb
  PROVE  RoundInv'
<1>s. InfraAssumption /\ TableType /\ IndexType /\ ScreenType /\ WaitType /\ TurnComes
  BY InfraAssumption DEF RoundInv
<1>1. /\ num_infra' = num_infra /\ infra_count' = infra_count
      /\ enabled' = switches /\ switches' = switches
      /\ wait' = [i \in Slot |-> IF i \in switches \ enabled THEN 0 ELSE wait[i]]
      /\ UNCHANGED <<reachable, fails, ping_idx, last, built>>
  BY <1>s DEF save_btn_cb, ScreenType, screen
<1>2. TableType' /\ IndexType' /\ ScreenType'
  <2>1. Device' = Device
    BY <1>1 DEF Device
  <2>2. TableType'
    BY <1>s, <1>1, <2>1 DEF TableType, ScreenType
  <2>3. IndexType'
    BY <1>s, <1>1, <2>1 DEF IndexType
  <2>4. ScreenType'
    BY <1>s, <1>1, <2>1 DEF ScreenType
  <2>5. QED
    BY <2>2, <2>3, <2>4
<1>3. WaitType'
  BY <1>s, <1>1 DEF WaitType, InfraAssumption
<1>4. ASSUME NEW i \in switches
      PROVE  wait'[i] + Ahead(i)' < num_infra'
  <2>1. i \in Slot /\ i \in 0 .. num_infra - 1 /\ num_infra \in Nat
    BY <1>s DEF TableType, Count, ScreenType, Device, Slot, InfraAssumption
  <2>2. Ahead(i)' = Ahead(i)
    BY <1>1 DEF Ahead
  <2>3. CASE i \in enabled
    BY <1>s, <1>1, <2>1, <2>2, <2>3 DEF TurnComes
  <2>4. CASE i \notin enabled
    <3>1. wait'[i] = 0
      BY <1>1, <2>1, <2>4
    <3>2. Ahead(i) \in 0 .. num_infra - 1
      BY <1>s, <2>1 DEF IndexType, Ahead
    <3>3. QED
      BY <1>1, <2>1, <2>2, <3>1, <3>2
  <2>5. QED
    BY <2>3, <2>4
<1>5. QED
  BY <1>1, <1>2, <1>3, <1>4 DEF RoundInv, TurnComes

-----------------------------------------------------------------------------
\* The invariant holds for every size of the table, whatever the screen does
\* between two ticks.
THEOREM RoundInvHolds == Spec => []RoundInv
<1>1. load_infra_config => RoundInv
  BY LoadGivesInv
<1>2. RoundInv /\ [Next]_vars => RoundInv'
  <2>s. SUFFICES ASSUME RoundInv, [Next]_vars
                 PROVE  RoundInv'
    OBVIOUS
  <2>1. ASSUME NEW ok \in BOOLEAN, medium_timer_cb(ok)
        PROVE  RoundInv'
    BY <2>s, <2>1, TickKeepsInv
  <2>2. CASE ui_settings_create \/ (\E i \in Slot : Toggle(i)) \/ UNCHANGED vars
    BY <2>s, <2>2, ScreenKeepsInv
  <2>3. CASE add_device_cb
    BY <2>s, <2>3, AddKeepsInv
  <2>4. CASE save_btn_cb
    BY <2>s, <2>4, SaveKeepsInv
  <2>5. QED
    BY <2>s, <2>1, <2>2, <2>3, <2>4 DEF Next
<1>3. QED
  BY <1>1, <1>2, PTL DEF Spec

\* Whatever count the file holds, also a negative one: what is enabled,
\* answers or was pinged is a device of the table, and a device of the table
\* has a slot of the array.
THEOREM TypeCorrect == Spec => []TypeOK
<1>1. RoundInv => TypeOK
  <2>s. SUFFICES ASSUME RoundInv
                 PROVE  TypeOK
    OBVIOUS
  <2>1. InfraAssumption /\ TableType /\ IndexType /\ ScreenType /\ WaitType
    BY <2>s, InfraAssumption DEF RoundInv
  <2>2. Device \subseteq Slot /\ infra_count \in Count
    BY <2>1 DEF TableType, ScreenType, Count, Device, Slot, InfraAssumption
  <2>3. ping_idx \in Slot
    BY <2>1 DEF IndexType, TableType, Count, Slot, InfraAssumption
  <2>4. QED
    BY <2>1, <2>2, <2>3 DEF TypeOK, TableType, IndexType, ScreenType, WaitType
<1>2. QED
  BY <1>1, RoundInvHolds, PTL

\* No enabled device waits for as many turns as there are devices: the turn
\* of net_collector.c:447-463 starves nobody, whatever ui_settings.c adds,
\* switches or saves in between.
THEOREM TurnsAreFair == Spec => []FairShare
<1>1. RoundInv => FairShare
  <2>s. SUFFICES ASSUME RoundInv, NEW i \in enabled
                 PROVE  wait[i] < num_infra
    BY DEF FairShare
  <2>1. TableType /\ IndexType /\ WaitType /\ TurnComes /\ InfraAssumption
    BY <2>s, InfraAssumption DEF RoundInv
  <2>2. i \in Slot /\ i \in 0 .. num_infra - 1 /\ num_infra \in Nat
    BY <2>1 DEF TableType, Count, Device, Slot, InfraAssumption
  <2>3. Ahead(i) \in Nat /\ wait[i] \in Nat
    BY <2>1, <2>2 DEF IndexType, WaitType, InfraAssumption, Ahead
  <2>4. wait[i] + Ahead(i) < num_infra
    BY <2>1 DEF TurnComes
  <2>5. QED
    BY <2>2, <2>3, <2>4
<1>2. QED
  BY <1>1, RoundInvHolds, PTL
=============================================================================
