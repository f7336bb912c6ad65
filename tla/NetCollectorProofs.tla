------------------------- MODULE NetCollectorProofs -------------------------
(***************************************************************************)
(* Theorems about the accounting of traffic, for every number of devices   *)
(* and rows, every width of the counters and every length of the           *)
(* histories; and about the circular buffer (RingBuffer) in which each     *)
(* history is kept, for every capacity.                                    *)
(***************************************************************************)
EXTENDS NetCollector, RingBuffer, FiniteSetTheorems, SequenceTheorems, WellFoundedInduction, TLAPS

\* A set of naturals that is not empty has a least element.
LEMMA MinIs ==
  ASSUME NEW S \in SUBSET Nat, S # {}
  PROVE  Min(S) \in S /\ \A y \in S : Min(S) <= y
<1> DEFINE Below == {0 .. x : x \in S}
           R     == StrictSubsetOrdering(Nat)
<1>1. Below \subseteq FiniteSubsetsOf(Nat)
  <2>1. \A x \in S : IsFiniteSet(0 .. x) /\ 0 .. x \subseteq Nat
    BY FS_Interval
  <2>2. QED
    BY <2>1 DEF FiniteSubsetsOf
<1>2. PICK T \in Below : \A U \in Below : ~(<<U, T>> \in R)
  <2>1. IsWellFoundedOn(R, FiniteSubsetsOf(Nat))
    BY FS_StrictSubsetOrderingWellFounded
  <2>2. Below # {}
    OBVIOUS
  <2> HIDE DEF Below, R
  <2>3. QED
    BY <1>1, <2>1, <2>2, WFMin
<1>3. PICK x \in S : T = 0 .. x
  BY <1>2
<1>4. \A y \in S : x <= y
  <2>1. SUFFICES ASSUME NEW y \in S, y < x
                 PROVE  FALSE
    OBVIOUS
  <2>2. 0 .. y \subseteq 0 .. x /\ 0 .. y # 0 .. x
    BY <2>1
  <2>3. <<0 .. y, T>> \in R
    BY <1>3, <2>2 DEF StrictSubsetOrdering
  <2>4. QED
    BY <1>2, <2>3
<1>5. QED
  BY <1>4 DEF Min

\* The greater of two naturals.
LEMMA MaxIs ==
  ASSUME NEW a \in Nat, NEW b \in Nat
  PROVE  Max({a, b}) \in {a, b} /\ Max({a, b}) >= a /\ Max({a, b}) >= b
<1>1. \E x \in {a, b} : \A y \in {a, b} : x >= y
  <2>1. CASE a >= b
    BY <2>1
  <2>2. CASE b >= a
    BY <2>2
  <2>3. QED
    BY <2>1, <2>2
<1>2. QED
  BY <1>1 DEF Max

(***************************************************************************)
(* Unsigned arithmetic: remainders depend on the congruence class only.    *)
(***************************************************************************)
LEMMA ModUnique ==
  ASSUME NEW n \in Nat \ {0}, NEW a \in Int, NEW b \in Int, NEW q \in Int, a = b + n * q
  PROVE  a % n = b % n
<1> DEFINE r == a % n  s == b % n  u == a \div n  v == (b \div n) + q
<1>1. /\ r \in 0 .. n - 1 /\ u \in Int /\ a = n * u + r
      /\ s \in 0 .. n - 1 /\ (b \div n) \in Int /\ b = n * (b \div n) + s
  OBVIOUS
<1>2. v \in Int /\ a = n * v + s
  <2>1. n * v = n * (b \div n) + n * q
    BY <1>1
  <2>2. QED
    BY <1>1, <2>1
<1> HIDE DEF r, s, u, v
<1>3. CASE u = v
  BY <1>1, <1>2, <1>3 DEF r, s
<1>4. ASSUME u > v
      PROVE  FALSE
  <2>1. n * (u - v) >= n
    BY <1>1, <1>2, <1>4
  <2>2. n * (u - v) = n * u - n * v
    BY <1>1, <1>2
  <2>3. QED
    BY <1>1, <1>2, <2>1, <2>2
<1>5. ASSUME v > u
      PROVE  FALSE
  <2>1. n * (v - u) >= n
    BY <1>1, <1>2, <1>5
  <2>2. n * (v - u) = n * v - n * u
    BY <1>1, <1>2
  <2>3. QED
    BY <1>1, <1>2, <2>1, <2>2
<1>6. QED
  BY <1>1, <1>2, <1>3, <1>4, <1>5

\* A remainder taken too early changes nothing.
LEMMA ModSum ==
  ASSUME NEW n \in Nat \ {0}, NEW a \in Int, NEW b \in Int
  PROVE  ((a % n) + b) % n = (a + b) % n
<1> DEFINE r == a % n  u == a \div n  x == a + b  y == r + b
<1>1. r \in Int /\ u \in Int /\ a = n * u + r
  OBVIOUS
<1> HIDE DEF r, u
<1>2. x \in Int /\ y \in Int /\ x = y + n * u
  BY <1>1
<1> HIDE DEF x, y
<1>3. x % n = y % n
  BY <1>1, <1>2, ModUnique
<1>4. QED
  BY <1>3 DEF r, x, y

\* What moves on is added to a difference.
LEMMA ModMove ==
  ASSUME NEW n \in Nat \ {0}, NEW x \in Int, NEW y \in Int, NEW d \in Int
  PROVE  (((x + d) % n) - y) % n = (((x - y) % n) + d) % n
<1> DEFINE g == x + d  r == g % n  h == x - y  z == -y
<1>1. g \in Int /\ r \in Int /\ h \in Int /\ z \in Int /\ r + z = r - y /\ g + z = h + d
  OBVIOUS
<1> HIDE DEF g, h, z
<1>2. (r + z) % n = (g + z) % n
  BY <1>1, ModSum
<1>3. ((h % n) + d) % n = (h + d) % n
  BY <1>1, ModSum
<1>4. QED
  BY <1>1, <1>2, <1>3 DEF g, h

\* What moved on in between is added to the difference.
LEMMA ModStep ==
  ASSUME NEW n \in Nat \ {0}, NEW a \in Int, NEW b \in Int, NEW c \in Int
  PROVE  (((b - c) % n) + ((a - b) % n)) % n = (a - c) % n
<1> DEFINE x == b - c  y == a - b  r == y % n
<1>1. x \in Int /\ y \in Int /\ r \in Int /\ x + y = a - c
  OBVIOUS
<1> HIDE DEF x, y
<1>2. ((x % n) + r) % n = (x + r) % n
  BY <1>1, ModSum
<1>3. ((y % n) + x) % n = (y + x) % n
  BY <1>1, ModSum
<1>4. x + r = (y % n) + x /\ y + x = x + y
  BY <1>1
<1>5. QED
  BY <1>1, <1>2, <1>3, <1>4 DEF x, y, r

-----------------------------------------------------------------------------
(***************************************************************************)
(* The invariant of every board.                                           *)
(***************************************************************************)
Reading == [name : Name \cup {NoName}, bytes : Word]

KernelType ==
  /\ devices \in Seq(Name) /\ IsInjective(devices)
  /\ addressed \subseteq Range(devices)
  /\ counter \in [Name -> Word]

TableType == ifaces \in Seq(Name) /\ num_ifaces <= MaxInterfaces

AccountType ==
  /\ prev_stats \in [Slot -> Reading] /\ prev_valid \in BOOLEAN
  /\ rate \in [Slot -> Nat] /\ peak \in [Slot -> Nat] /\ today \in [Slot -> Word]
  /\ short_history \in [Slot -> Seq(Nat)]
  /\ minute_acc \in [Slot -> Nat] /\ minute_count \in Nat

TruthType ==
  /\ moved \in [Name -> Word] /\ seen \in [Name -> Word]
  /\ from \in [Slot -> Word \cup {Never}]
  /\ replugged \subseteq Name
  /\ long_sum \in [Slot -> Word] /\ gap \in Nat

TypeInv == KernelType /\ TableType /\ AccountType /\ TruthType

AccountInv == TypeInv /\ PeakBoundsHistory

(***************************************************************************)
(* The invariant of the boards that TodayIsTraffic is about: the devices   *)
(* with an address come first at boot, and of the others only the next one *)
(* can ever get one.                                                       *)
(***************************************************************************)
OneAddressAtBoot == BootAddressed \cap Aliased = {}

Leads(m) ==
  /\ \A i \in DOMAIN BootOrder : BootOrder[i] \in BootAddressed <=> i <= m
  /\ \A i \in DOMAIN BootOrder : i > m + 1 => BootOrder[i] \notin MayGainAddress \cup Removable

AddressedFirst == \E m \in 0 .. Len(BootOrder) : Leads(m)

\* The rows of the table are the first devices at boot, in their order.
Fits(m) == IF m <= MaxInterfaces THEN m ELSE MaxInterfaces

TableIsPrefix(m) ==
  /\ num_ifaces <= Len(BootOrder) /\ num_ifaces >= Fits(m) /\ num_ifaces <= m + 1
  /\ \A k \in 1 .. num_ifaces : ifaces[k] = BootOrder[k]
  /\ \A i \in DOMAIN BootOrder : i > m + 1 => BootOrder[i] \notin addressed

\* A device that was never replugged only moves forward in the kernel's list.
MovesForward ==
  \A i \in DOMAIN devices : \A b \in DOMAIN BootOrder :
    devices[i] = BootOrder[b] /\ devices[i] \notin replugged => i <= b

\* The first reading of a name, in the rows up to b.
FirstRead(n, j) == prev_stats[j].name = n /\ \A i \in 1 .. j - 1 : prev_stats[i].name # n

\* What a device received since its last reading shows in its counter.
ReadingsAgree ==
  \A b \in Slot \cap DOMAIN BootOrder :
    BootOrder[b] \in Range(devices) \ replugged =>
      \E j \in 1 .. b :
        /\ FirstRead(BootOrder[b], j)
        /\ (counter[BootOrder[b]] - prev_stats[j].bytes) % CounterMod
             = (moved[BootOrder[b]] - seen[BootOrder[b]]) % CounterMod

\* An interface is measured from the first tick that had two readings.
Measured ==
  \A k \in Slot :
    /\ from[k] = Never => today[k] = 0
    /\ from[k] # Never => prev_valid /\ k <= num_ifaces

Boards(m) ==
  TypeInv /\ TableIsPrefix(m) /\ MovesForward /\ ReadingsAgree /\ Measured /\ TodayIsTraffic

-----------------------------------------------------------------------------
(***************************************************************************)
(* Types.                                                                  *)
(***************************************************************************)
LEMMA Constants ==
  /\ MaxInterfaces \in Nat \ {0} /\ CounterMod \in Nat \ {0}
  /\ ShortLen \in Nat \ {0} /\ MinuteLen \in Nat \ {0}
  /\ Slot = 1 .. MaxInterfaces /\ Word = 0 .. CounterMod - 1 /\ 0 \in Word
  /\ Never \notin Word /\ NoName \notin Name
  /\ BootOrder \in Seq(Name) /\ IsInjective(BootOrder)
  /\ BootAddressed \subseteq Name /\ BootCounters \subseteq Word
  /\ Second \in Nat \ {0} /\ Gaps \subseteq Nat \ {0}
BY CollectorAssumption DEF CollectorAssumption, Slot, Word, Never

\* A sum taken modulo the width of a counter is a counter.
LEMMA Wraps ==
  ASSUME NEW x \in Int
  PROVE  x % CounterMod \in Word
BY Constants

\* What moves on is added to a difference; differences that meet add up.
Moves(x, y, d) ==
  (((x + d) % CounterMod) - y) % CounterMod = (((x - y) % CounterMod) + d) % CounterMod

Steps(a, b, c) ==
  (((b - c) % CounterMod) + ((a - b) % CounterMod)) % CounterMod = (a - c) % CounterMod

LEMMA DifferencesAdd ==
  /\ \A x, y, d \in Int : Moves(x, y, d)
  /\ \A a, b, c \in Int : Steps(a, b, c)
<1>1. CounterMod \in Nat \ {0}
  BY Constants
<1>2. \A x, y, d \in Int : Moves(x, y, d)
  BY <1>1, ModMove DEF Moves
<1>3. \A a, b, c \in Int : Steps(a, b, c)
  BY <1>1, ModStep DEF Steps
<1>4. QED
  BY <1>2, <1>3

\* How many devices a reading covers.
Listed == Min({MaxInterfaces, Len(devices)})

LEMMA ListedIs ==
  ASSUME devices \in Seq(Name)
  PROVE  /\ Listed \in Nat /\ Listed <= MaxInterfaces /\ Listed <= Len(devices)
         /\ Listed = MaxInterfaces \/ Listed = Len(devices)
<1>1. {MaxInterfaces, Len(devices)} \in SUBSET Nat
  BY Constants
<1>2. QED
  BY <1>1, MinIs DEF Listed

\* What the fast tick reads.
Cur(d, readable) == IF readable THEN parse_proc_net_dev(Received(d)) ELSE << >>

LEMMA ReceivedIs ==
  ASSUME KernelType, NEW d \in Traffic
  PROVE  /\ d \in [Name -> Word]
         /\ Received(d) \in [Name -> Word]
         /\ \A n \in Name : Received(d)[n] = (counter[n] + d[n]) % CounterMod
<1>1. d \in [Name -> Word]
  BY DEF Traffic
<1>2. \A n \in Name : (counter[n] + d[n]) % CounterMod \in Word
  <2>1. SUFFICES ASSUME NEW n \in Name
                 PROVE  (counter[n] + d[n]) % CounterMod \in Word
    OBVIOUS
  <2>2. counter[n] \in Word /\ d[n] \in Word
    BY <1>1 DEF KernelType
  <2>3. counter[n] + d[n] \in Int
    BY <2>2 DEF Word
  <2>4. QED
    BY <2>3, Wraps
<1>3. QED
  BY <1>1, <1>2 DEF Received

LEMMA ParseIs ==
  ASSUME KernelType, NEW bytes \in [Name -> Word]
  PROVE  /\ DOMAIN parse_proc_net_dev(bytes) = 1 .. Listed
         /\ \A i \in 1 .. Listed :
              /\ i \in Slot /\ i \in DOMAIN devices /\ devices[i] \in Name
              /\ parse_proc_net_dev(bytes)[i]
                   = [name |-> devices[i], bytes |-> bytes[devices[i]]]
              /\ parse_proc_net_dev(bytes)[i] \in Reading
<1>1. parse_proc_net_dev(bytes) = [i \in 1 .. Listed |->
                                     [name |-> devices[i], bytes |-> bytes[devices[i]]]]
  BY DEF parse_proc_net_dev, Listed
<1>2. ASSUME NEW i \in 1 .. Listed
      PROVE  i \in Slot /\ i \in DOMAIN devices /\ devices[i] \in Name
  BY ListedIs, Constants DEF KernelType
<1>3. ASSUME NEW n \in Name
      PROVE  [name |-> n, bytes |-> bytes[n]] \in Reading
  BY DEF Reading
<1>4. QED
  BY <1>1, <1>2, <1>3

LEMMA CurIs ==
  ASSUME KernelType, NEW d \in Traffic, NEW readable \in BOOLEAN
  PROVE  /\ DOMAIN Cur(d, readable) = IF readable THEN 1 .. Listed ELSE {}
         /\ \A i \in DOMAIN Cur(d, readable) :
              /\ i \in Slot /\ i \in DOMAIN devices /\ devices[i] \in Name
              /\ Cur(d, readable)[i] = [name |-> devices[i], bytes |-> Received(d)[devices[i]]]
              /\ Cur(d, readable)[i] \in Reading
<1>1. CASE readable
  BY <1>1, ReceivedIs, ParseIs DEF Cur
<1>2. CASE ~readable
  <2>1. Cur(d, readable) = << >>
    BY <1>2 DEF Cur
  <2>2. DOMAIN << >> = {}
    OBVIOUS
  <2>3. QED
    BY <1>2, <2>1, <2>2
<1>3. QED
  BY <1>1, <1>2

\* The searches of the two tables return the first row with the name, or 0.
LEMMA RowIs ==
  ASSUME ifaces \in Seq(Name), NEW n
  PROVE  IF \E k \in 1 .. num_ifaces : ifaces[k] = n
         THEN /\ RowOf(n) \in 1 .. num_ifaces /\ ifaces[RowOf(n)] = n
              /\ \A k \in 1 .. num_ifaces : ifaces[k] = n => RowOf(n) <= k
         ELSE RowOf(n) = 0
<1> DEFINE found == {k \in 1 .. num_ifaces : ifaces[k] = n}
<1>1. found \in SUBSET Nat
  BY DEF num_ifaces
<1>2. RowOf(n) = IF found = {} THEN 0 ELSE Min(found)
  BY DEF RowOf
<1>3. found # {} => Min(found) \in found /\ \A y \in found : Min(found) <= y
  BY <1>1, MinIs
<1>4. QED
  BY <1>2, <1>3

LEMMA PrevRowIs ==
  ASSUME TableType, NEW n
  PROVE  IF \E j \in 1 .. num_ifaces : prev_stats[j].name = n
         THEN /\ PrevRowOf(n) \in 1 .. num_ifaces /\ prev_stats[PrevRowOf(n)].name = n
              /\ \A j \in 1 .. num_ifaces : prev_stats[j].name = n => PrevRowOf(n) <= j
         ELSE PrevRowOf(n) = 0
<1> DEFINE found == {j \in 1 .. num_ifaces : prev_stats[j].name = n}
<1>1. found \in SUBSET Nat
  BY DEF num_ifaces, TableType
<1>2. PrevRowOf(n) = IF found = {} THEN 0 ELSE Min(found)
  BY DEF PrevRowOf
<1>3. found # {} => Min(found) \in found /\ \A y \in found : Min(found) <= y
  BY <1>1, MinIs
<1>4. QED
  BY <1>2, <1>3

\* A row that is fresh is in use, and so is the row its difference starts from.
LEMMA FreshIs ==
  ASSUME TypeInv, NEW d \in Traffic, NEW cur, NEW k \in Fresh(cur)
  PROVE  /\ k \in Slot /\ k \in 1 .. num_ifaces /\ prev_valid
         /\ ifaces[k] \in Name /\ PrevRowOf(ifaces[k]) \in Slot
         /\ Delta(Received(d), k) \in Word
<1>1. k \in 1 .. num_ifaces /\ prev_valid /\ PrevRowOf(ifaces[k]) # 0
  BY DEF Fresh
<1>2. num_ifaces \in Nat /\ num_ifaces <= MaxInterfaces
  BY DEF TypeInv, TableType, num_ifaces
<1>3. ifaces[k] \in Name
  BY <1>1 DEF TypeInv, TableType, num_ifaces
<1>4. PrevRowOf(ifaces[k]) \in 1 .. num_ifaces
  BY <1>1, PrevRowIs DEF TypeInv
<1>5. k \in Slot /\ PrevRowOf(ifaces[k]) \in Slot
  BY <1>1, <1>2, <1>4, Constants
<1>6. Delta(Received(d), k) \in Word
  <2>1. Received(d)[ifaces[k]] \in Word
    BY <1>3, ReceivedIs DEF TypeInv
  <2>2. prev_stats[PrevRowOf(ifaces[k])] \in Reading
    BY <1>5 DEF TypeInv, AccountType
  <2>3. prev_stats[PrevRowOf(ifaces[k])].bytes \in Word
    BY <2>2 DEF Reading
  <2>4. Received(d)[ifaces[k]] - prev_stats[PrevRowOf(ifaces[k])].bytes \in Int
    BY <2>1, <2>3 DEF Word
  <2>5. QED
    BY <2>4, Wraps DEF Delta
<1>7. QED
  BY <1>1, <1>3, <1>5, <1>6

LEMMA SeqOfIs ==
  ASSUME NEW S, NEW n \in Int, NEW q \in SeqOf(S, n)
  PROVE  q \in Seq(S) /\ Len(q) \in 0 .. n /\ DOMAIN q = 1 .. Len(q) /\ \A i \in DOMAIN q : q[i] \in S
<1>1. PICK m \in 0 .. n : q \in [1 .. m -> S]
  BY DEF SeqOf
<1>2. q \in Seq(S)
  BY <1>1, SeqDef
<1>3. DOMAIN q = 1 .. m /\ Len(q) = m
  BY <1>1, <1>2, LenProperties
<1>4. QED
  BY <1>1, <1>2, <1>3

\* Places are those of a list without repetitions.
LEMMA PlaceIs ==
  ASSUME KernelType
  PROVE  /\ \A n \in Range(devices) : Place(n) \in DOMAIN devices /\ devices[Place(n)] = n
         /\ \A i \in DOMAIN devices : devices[i] \in Range(devices) /\ Place(devices[i]) = i
         /\ DOMAIN devices = 1 .. Len(devices) /\ Len(devices) \in Nat
<1>1. \A n \in Range(devices) : Place(n) \in DOMAIN devices /\ devices[Place(n)] = n
  BY DEF Place, Range
<1>2. \A i \in DOMAIN devices : devices[i] \in Range(devices)
  BY DEF Range
<1>3. \A i \in DOMAIN devices : Place(devices[i]) = i
  BY <1>1, <1>2 DEF KernelType, IsInjective
<1>4. QED
  BY <1>1, <1>2, <1>3 DEF KernelType

\* An enumeration.
LEMMA EnumIs ==
  ASSUME KernelType, NEW q \in net_enumerate_interfaces
  PROVE  /\ q \in Seq(Name) /\ Len(q) \in 0 .. MaxInterfaces /\ DOMAIN q = 1 .. Len(q)
         /\ \A i \in DOMAIN q : q[i] \in addressed /\ q[i] \in Range(devices) /\ q[i] \in Name
<1>1. q \in SeqOf(addressed, MaxInterfaces)
  BY DEF net_enumerate_interfaces
<1>2. /\ q \in Seq(addressed) /\ Len(q) \in 0 .. MaxInterfaces /\ DOMAIN q = 1 .. Len(q)
      /\ \A i \in DOMAIN q : q[i] \in addressed
  BY <1>1, SeqOfIs, Constants
<1>3. Range(devices) \subseteq Name
  BY RangeOfSeq DEF KernelType
<1>4. addressed \subseteq Range(devices) /\ addressed \subseteq Name
  BY <1>3 DEF KernelType
<1>5. q \in Seq(Name)
  BY <1>2, <1>4, SeqMonotonic
<1>6. QED
  BY <1>2, <1>4, <1>5

\* The rows that a slow tick adds: names that the table does not hold, of
\* devices with an address, each once.
LEMMA SlowIs ==
  ASSUME TypeInv, NEW works \in BOOLEAN, slow_timer_cb(works)
  PROVE  \E q \in Seq(Name) :
           /\ ifaces' = ifaces \o q /\ num_ifaces + Len(q) <= MaxInterfaces
           /\ DOMAIN q = 1 .. Len(q) /\ IsInjective(q)
           /\ \A i \in DOMAIN q :
                q[i] \in addressed /\ \A k \in 1 .. num_ifaces : ifaces[k] # q[i]
<1> DEFINE Found == IF works THEN net_enumerate_interfaces ELSE {<< >>}
<1>1. PICK found \in Found : \E q \in NewRows(NewNames(found)) : ifaces' = ifaces \o q
  BY DEF slow_timer_cb
<1>2. PICK q \in NewRows(NewNames(found)) : ifaces' = ifaces \o q
  BY <1>1
<1>3. Range(found) \subseteq addressed
  <2>1. CASE works
    BY <2>1, EnumIs DEF TypeInv, Range
  <2>2. CASE ~works
    <3>1. found = << >> /\ DOMAIN << >> = {}
      BY <2>2
    <3>2. QED
      BY <3>1 DEF Range
  <2>3. QED
    BY <2>1, <2>2
<1>4. addressed \subseteq Range(devices) /\ Range(devices) \subseteq Name
  BY RangeOfSeq DEF TypeInv, KernelType
<1>5. num_ifaces \in Nat /\ num_ifaces <= MaxInterfaces /\ ifaces \in Seq(Name)
  BY DEF TypeInv, TableType, num_ifaces
<1>6. q \in SeqOf(NewNames(found), MaxInterfaces - num_ifaces)
  BY <1>2 DEF NewRows
<1>7. /\ q \in Seq(NewNames(found)) /\ Len(q) \in 0 .. MaxInterfaces - num_ifaces
      /\ DOMAIN q = 1 .. Len(q) /\ \A i \in DOMAIN q : q[i] \in NewNames(found)
  BY <1>5, <1>6, SeqOfIs, Constants
<1>8. NewNames(found) \subseteq Name
  BY <1>3, <1>4 DEF NewNames
<1>9. q \in Seq(Name)
  BY <1>7, <1>8, SeqMonotonic
<1>10. \A i \in DOMAIN q : q[i] \in addressed /\ RowOf(q[i]) = 0
  BY <1>3, <1>7 DEF NewNames
<1>11. \A i \in DOMAIN q : \A k \in 1 .. num_ifaces : ifaces[k] # q[i]
  BY <1>5, <1>10, RowIs
<1>12. IsInjective(q)
  <2>1. \A i \in DOMAIN q : Place(q[i]) \in Int
    BY <1>4, <1>10, PlaceIs DEF TypeInv
  <2>2. \A i, j \in DOMAIN q : i < j => Place(q[i]) < Place(q[j])
    BY <1>2 DEF NewRows
  <2>3. \A i, j \in DOMAIN q : i < j => q[i] # q[j]
    BY <2>1, <2>2
  <2>4. \A i, j \in DOMAIN q : i < j \/ j < i \/ i = j
    BY <1>7
  <2>5. QED
    BY <2>3, <2>4 DEF IsInjective
<1>13. num_ifaces + Len(q) <= MaxInterfaces
  BY <1>5, <1>7, Constants
<1>14. \A i \in DOMAIN q :
         q[i] \in addressed /\ \A k \in 1 .. num_ifaces : ifaces[k] # q[i]
  BY <1>10, <1>11
<1>15. QED
  BY <1>2, <1>7, <1>9, <1>12, <1>13, <1>14, Zenon

LEMMA InitTypes ==
  ASSUME net_collector_init
  PROVE  TypeInv
<1>1. KernelType
  <2>1. devices \in Seq(Name) /\ IsInjective(devices)
    BY Constants DEF net_collector_init
  <2>2. addressed \subseteq Range(devices)
    BY Constants DEF net_collector_init, Name
  <2>3. counter \in [Name -> Word]
    BY Constants DEF net_collector_init
  <2>4. QED
    BY <2>1, <2>2, <2>3 DEF KernelType
<1>2. TableType
  <2>1. ifaces \in net_enumerate_interfaces
    BY DEF net_collector_init
  <2>2. ifaces \in Seq(Name) /\ Len(ifaces) \in 0 .. MaxInterfaces
    BY <1>1, <2>1, EnumIs
  <2>3. QED
    BY <2>2, Constants DEF TableType, num_ifaces
<1>3. AccountType
  <2>1. prev_stats \in [Slot -> Reading]
    <3> DEFINE cur == parse_proc_net_dev(counter)
    <3>1. \A j \in DOMAIN cur : cur[j] \in Reading
      BY <1>1, ParseIs DEF KernelType
    <3>2. [name |-> NoName, bytes |-> 0] \in Reading
      BY Constants DEF Reading
    <3>3. prev_stats = [j \in Slot |-> IF j \in DOMAIN cur THEN cur[j]
                                       ELSE [name |-> NoName, bytes |-> 0]]
      BY DEF net_collector_init
    <3>4. QED
      BY <3>1, <3>2, <3>3
  <2>2. prev_valid \in BOOLEAN
    BY DEF net_collector_init
  <2>3. rate \in [Slot -> Nat] /\ peak \in [Slot -> Nat] /\ today \in [Slot -> Word]
    BY Constants DEF net_collector_init
  <2>4. short_history \in [Slot -> Seq(Nat)]
    BY EmptySeq DEF net_collector_init
  <2>5. minute_acc \in [Slot -> Nat] /\ minute_count \in Nat
    BY DEF net_collector_init
  <2>6. QED
    BY <2>1, <2>2, <2>3, <2>4, <2>5 DEF AccountType
<1>4. TruthType
  <2>1. moved \in [Name -> Word] /\ seen \in [Name -> Word] /\ long_sum \in [Slot -> Word]
    BY Constants DEF net_collector_init
  <2>2. from \in [Slot -> Word \cup {Never}]
    BY DEF net_collector_init
  <2>3. replugged \subseteq Name /\ gap \in Nat
    BY DEF net_collector_init
  <2>4. QED
    BY <2>1, <2>2, <2>3 DEF TruthType
<1>5. QED
  BY <1>1, <1>2, <1>3, <1>4 DEF TypeInv

(***************************************************************************)
(* The fast tick.                                                          *)
(***************************************************************************)
LEMMA PushIs ==
  ASSUME NEW q \in Seq(Nat), NEW v \in Nat
  PROVE  /\ history_push(q, v) \in Seq(Nat)
         /\ \A i \in DOMAIN history_push(q, v) :
              history_push(q, v)[i] = v \/ \E j \in DOMAIN q : history_push(q, v)[i] = q[j]
<1> DEFINE kept == IF Len(q) < ShortLen THEN q ELSE Tail(q)
<1>1. kept \in Seq(Nat) /\ \A i \in 1 .. Len(kept) : \E j \in DOMAIN q : kept[i] = q[j]
  <2>1. CASE Len(q) < ShortLen
    BY <2>1
  <2>2. CASE ~(Len(q) < ShortLen)
    <3>1. q # << >>
      BY <2>2, Constants
    <3>2. /\ Tail(q) \in Seq(Nat) /\ Len(Tail(q)) = Len(q) - 1
          /\ \A i \in 1 .. Len(Tail(q)) : Tail(q)[i] = q[i + 1]
      BY <3>1, HeadTailProperties
    <3>3. \A i \in 1 .. Len(Tail(q)) : i + 1 \in DOMAIN q
      BY <3>2
    <3>4. QED
      BY <2>2, <3>2, <3>3
  <2>3. QED
    BY <2>1, <2>2
<1>2. history_push(q, v) = Append(kept, v)
  BY DEF history_push
<1> HIDE DEF kept
<1>3. /\ Append(kept, v) \in Seq(Nat) /\ Len(Append(kept, v)) = Len(kept) + 1
      /\ \A i \in 1 .. Len(kept) : Append(kept, v)[i] = kept[i]
      /\ Append(kept, v)[Len(kept) + 1] = v
  BY <1>1, AppendProperties
<1>4. DOMAIN Append(kept, v) = 1 .. Len(kept) + 1 /\ Len(kept) \in Nat
  BY <1>1, <1>3
<1>5. \A i \in DOMAIN Append(kept, v) : i \in 1 .. Len(kept) \/ i = Len(kept) + 1
  BY <1>4
<1>6. QED
  BY <1>1, <1>2, <1>3, <1>5

\* What row k received, as the tick sees it, and the rate that it makes of it.
Got(d, k) == Delta(Received(d), k)
Pace(d, k, dt) == PerSecond(Got(d, k), dt)
Full == minute_count + 1 >= MinuteLen
AccOf(d, readable, dt) ==
  [k \in Slot |-> minute_acc[k] + IF k \in Fresh(Cur(d, readable)) THEN Pace(d, k, dt) ELSE 0]

LEMMA FastIs ==
  ASSUME NEW d \in Traffic, NEW readable \in BOOLEAN, NEW dt \in Gaps,
         fast_timer_cb(d, readable, dt)
  PROVE  LET cur   == Cur(d, readable)
             fresh == Fresh(cur)
             acc   == AccOf(d, readable, dt)
         IN  /\ counter' = Received(d) /\ gap' = dt
             /\ rate' = [k \in Slot |-> IF k \in fresh THEN Pace(d, k, dt) ELSE rate[k]]
             /\ peak' = [k \in Slot |-> IF k \in fresh THEN Max({peak[k], Pace(d, k, dt)})
                                                       ELSE peak[k]]
             /\ today' = [k \in Slot |-> IF k \in fresh
                                           THEN (today[k] + Got(d, k)) % CounterMod
                                           ELSE today[k]]
             /\ short_history' = [k \in Slot |->
                                    IF k \in fresh
                                      THEN history_push(short_history[k], Pace(d, k, dt))
                                      ELSE short_history[k]]
             /\ minute_acc' = AccAfter(acc, Full)
             /\ minute_count' = IF Full THEN 0 ELSE minute_count + 1
             /\ long_sum' = [k \in Slot |->
                               IF Full /\ k <= num_ifaces THEN (long_sum[k] + acc[k]) % CounterMod
                                                          ELSE long_sum[k]]
<1> DEFINE cur   == Cur(d, readable)
           fresh == Fresh(cur)
           delta == [k \in fresh |-> Delta(Received(d), k)]
           pace  == [k \in fresh |-> PerSecond(delta[k], dt)]
           acc   == [k \in Slot |-> minute_acc[k] + IF k \in fresh THEN pace[k] ELSE 0]
<1>1. \A k \in fresh : delta[k] = Got(d, k) /\ pace[k] = Pace(d, k, dt)
  BY DEF Got, Pace
<1>2. /\ counter' = Received(d) /\ gap' = dt
      /\ rate' = [k \in Slot |-> IF k \in fresh THEN pace[k] ELSE rate[k]]
      /\ peak' = [k \in Slot |-> IF k \in fresh THEN Max({peak[k], pace[k]}) ELSE peak[k]]
      /\ today' = [k \in Slot |-> IF k \in fresh THEN (today[k] + delta[k]) % CounterMod
                                                 ELSE today[k]]
      /\ short_history' = [k \in Slot |-> IF k \in fresh
                                            THEN history_push(short_history[k], pace[k])
                                            ELSE short_history[k]]
      /\ minute_count' = IF Full THEN 0 ELSE minute_count + 1
      /\ minute_acc' = AccAfter(acc, Full)
      /\ long_sum' = [k \in Slot |->
                        IF Full /\ k <= num_ifaces THEN (long_sum[k] + acc[k]) % CounterMod
                                                   ELSE long_sum[k]]
  BY DEF fast_timer_cb, Cur, NewPeak, Full
<1> HIDE DEF pace, delta, fresh
<1>3. acc = [k \in Slot |-> minute_acc[k] + IF k \in fresh THEN Pace(d, k, dt) ELSE 0]
  BY <1>1
<1>4. QED
  BY <1>1, <1>2, <1>3 DEF AccOf, fresh

\* The rest of the tick: the stored reading and what the properties remember.
LEMMA FastRest ==
  ASSUME NEW d \in Traffic, NEW readable \in BOOLEAN, NEW dt \in Gaps, fast_timer_cb(d, readable, dt)
  PROVE  LET cur == Cur(d, readable)
         IN  /\ prev_stats' = [j \in Slot |-> IF j \in DOMAIN cur THEN cur[j] ELSE prev_stats[j]]
             /\ prev_valid' = TRUE
             /\ moved' = [n \in Name |-> (moved[n] + d[n]) % CounterMod]
             /\ seen' = [n \in Name |-> IF \E i \in DOMAIN cur : cur[i].name = n
                                          THEN moved'[n] ELSE seen[n]]
             /\ from' = [k \in Slot |-> IF from[k] = Never /\ prev_valid /\ k <= num_ifaces
                                          THEN seen[ifaces[k]] ELSE from[k]]
             /\ UNCHANGED <<devices, addressed, ifaces, replugged>>
BY DEF fast_timer_cb, Cur

\* A rate is a number; with one second between the ticks it is what was
\* received, and with more it is not more than that.
LEMMA PaceIs ==
  ASSUME NEW x \in Nat, NEW dt \in Gaps
  PROVE  /\ PerSecond(x, dt) \in Nat
         /\ dt = Second => PerSecond(x, dt) = x
         /\ dt >= Second => PerSecond(x, dt) <= x
<1>1. Second \in Nat /\ Second > 0 /\ dt \in Nat /\ dt > 0
  BY Constants
<1> DEFINE y == x * Second  q == y \div dt  r == y % dt
<1>2. y \in Nat
  BY <1>1
<1> HIDE DEF y
<1>3. q \in Int /\ r \in 0 .. dt - 1 /\ y = dt * q + r
  BY <1>1, <1>2
<1> HIDE DEF q, r
<1>4. q \in Nat
  <2>1. SUFFICES ASSUME q <= -1
                 PROVE  FALSE
    BY <1>3
  <2>2. dt * q <= -dt
    BY <1>1, <1>3, <2>1
  <2>3. QED
    BY <1>1, <1>2, <1>3, <2>2
<1>5. ASSUME dt >= Second
      PROVE  q <= x
  <2>1. SUFFICES ASSUME q >= x + 1
                 PROVE  FALSE
    BY <1>3
  <2>2. dt * q >= dt * (x + 1)
    BY <1>1, <1>3, <2>1
  <2>3. dt * (x + 1) = dt * x + dt
    BY <1>1
  <2>4. dt * x >= y
    BY <1>1, <1>5 DEF y
  <2>5. QED
    BY <1>1, <1>2, <1>3, <2>2, <2>3, <2>4
<1>6. ASSUME dt = Second
      PROVE  q = x
  <2>1. q <= x
    BY <1>1, <1>5, <1>6
  <2>2. SUFFICES ASSUME q <= x - 1
                 PROVE  FALSE
    BY <1>3, <2>1
  <2>3. dt * q <= dt * (x - 1)
    BY <1>1, <1>3, <2>2
  <2>4. dt * (x - 1) = dt * x - dt
    BY <1>1
  <2>5. y = dt * x
    BY <1>1, <1>6 DEF y
  <2>6. QED
    BY <1>1, <1>2, <1>3, <2>3, <2>4, <2>5
<1>7. PerSecond(x, dt) = q
  BY DEF PerSecond, q, y
<1>8. QED
  BY <1>4, <1>5, <1>6, <1>7

\* What the tick gives to the rows that it finds.
LEMMA GotIs ==
  ASSUME TypeInv, NEW d \in Traffic, NEW readable \in BOOLEAN, NEW dt \in Gaps,
         NEW k \in Fresh(Cur(d, readable))
  PROVE  k \in Slot /\ Got(d, k) \in Word /\ Got(d, k) \in Nat /\ Pace(d, k, dt) \in Nat
<1>1. k \in Slot /\ Got(d, k) \in Word
  BY FreshIs DEF Got
<1>2. Got(d, k) \in Nat
  BY <1>1, Constants
<1>3. QED
  BY <1>1, <1>2, PaceIs DEF Pace

LEMMA AccIs ==
  ASSUME TypeInv, NEW d \in Traffic, NEW readable \in BOOLEAN, NEW dt \in Gaps
  PROVE  /\ AccOf(d, readable, dt) \in [Slot -> Nat]
         /\ AccAfter(AccOf(d, readable, dt), Full) \in [Slot -> Nat]
<1> DEFINE fresh == Fresh(Cur(d, readable))
<1>1. \A k \in fresh : Pace(d, k, dt) \in Nat
  BY GotIs
<1>2. \A k \in Slot : minute_acc[k] \in Nat
  BY DEF TypeInv, AccountType
<1> HIDE DEF fresh
<1>3. \A k \in Slot : (minute_acc[k] + IF k \in fresh THEN Pace(d, k, dt) ELSE 0) \in Nat
  BY <1>1, <1>2
<1>4. AccOf(d, readable, dt) \in [Slot -> Nat]
  BY <1>3 DEF AccOf, fresh
<1>5. QED
  BY <1>4 DEF AccAfter

LEMMA FastTypes ==
  ASSUME TypeInv, NEW d \in Traffic, NEW readable \in BOOLEAN, NEW dt \in Gaps, fast_timer_cb(d, readable, dt)
  PROVE  TypeInv'
<1> DEFINE cur   == Cur(d, readable)
           fresh == Fresh(cur)
<1>1. \A k \in fresh : k \in Slot /\ Got(d, k) \in Word /\ Pace(d, k, dt) \in Nat
  BY GotIs
<1>2. KernelType'
  <2>1. UNCHANGED <<devices, addressed>> /\ counter' = Received(d)
    BY FastRest, FastIs
  <2>2. Received(d) \in [Name -> Word]
    BY ReceivedIs DEF TypeInv
  <2>3. QED
    BY <2>1, <2>2 DEF TypeInv, KernelType
<1>3. TableType'
  BY FastRest DEF TypeInv, TableType, num_ifaces
<1>4. AccountType'
  <2>1. prev_stats' \in [Slot -> Reading]
    <3>1. \A j \in DOMAIN cur : cur[j] \in Reading
      BY CurIs DEF TypeInv
    <3>2. prev_stats' = [j \in Slot |-> IF j \in DOMAIN cur THEN cur[j] ELSE prev_stats[j]]
      BY FastRest
    <3>3. prev_stats \in [Slot -> Reading]
      BY DEF TypeInv, AccountType
    <3> HIDE DEF cur
    <3>4. QED
      BY <3>1, <3>2, <3>3
  <2>2. prev_valid' \in BOOLEAN
    BY FastRest
  <2>3. rate' \in [Slot -> Nat]
    <3>1. rate' = [k \in Slot |-> IF k \in fresh THEN Pace(d, k, dt) ELSE rate[k]]
      BY FastIs
    <3>2. QED
      BY <1>1, <3>1 DEF TypeInv, AccountType
  <2>4. peak' \in [Slot -> Nat]
    <3>1. peak' = [k \in Slot |-> IF k \in fresh THEN Max({peak[k], Pace(d, k, dt)}) ELSE peak[k]]
      BY FastIs
    <3>2. \A k \in fresh : Max({peak[k], Pace(d, k, dt)}) \in Nat
      <4>1. SUFFICES ASSUME NEW k \in fresh
                     PROVE  Max({peak[k], Pace(d, k, dt)}) \in Nat
        OBVIOUS
      <4>2. peak[k] \in Nat /\ Pace(d, k, dt) \in Nat
        BY <1>1 DEF TypeInv, AccountType
      <4>3. QED
        BY <4>2, MaxIs
    <3>3. QED
      BY <3>1, <3>2 DEF TypeInv, AccountType
  <2>5. today' \in [Slot -> Word]
    <3>1. today' = [k \in Slot |-> IF k \in fresh THEN (today[k] + Got(d, k)) % CounterMod
                                                  ELSE today[k]]
      BY FastIs
    <3>2. \A k \in fresh : (today[k] + Got(d, k)) % CounterMod \in Word
      <4>1. SUFFICES ASSUME NEW k \in fresh
                     PROVE  (today[k] + Got(d, k)) % CounterMod \in Word
        OBVIOUS
      <4>2. today[k] \in Word /\ Got(d, k) \in Word
        BY <1>1 DEF TypeInv, AccountType
      <4>3. today[k] + Got(d, k) \in Int
        BY <4>2 DEF Word
      <4>4. QED
        BY <4>3, Wraps
    <3>3. QED
      BY <3>1, <3>2 DEF TypeInv, AccountType
  <2>6. short_history' \in [Slot -> Seq(Nat)]
    <3>1. short_history' = [k \in Slot |->
                              IF k \in fresh THEN history_push(short_history[k], Pace(d, k, dt))
                                             ELSE short_history[k]]
      BY FastIs
    <3>2. \A k \in fresh : history_push(short_history[k], Pace(d, k, dt)) \in Seq(Nat)
      BY <1>1, PushIs DEF TypeInv, AccountType
    <3>3. QED
      BY <3>1, <3>2 DEF TypeInv, AccountType
  <2>7. minute_acc' \in [Slot -> Nat]
    BY FastIs, AccIs
  <2>8. minute_count' \in Nat
    <3>1. minute_count' = IF Full THEN 0 ELSE minute_count + 1
      BY FastIs
    <3>2. QED
      BY <3>1 DEF TypeInv, AccountType
  <2>9. QED
    BY <2>1, <2>2, <2>3, <2>4, <2>5, <2>6, <2>7, <2>8 DEF AccountType
<1>5. TruthType'
  <2>1. moved' \in [Name -> Word]
    <3>1. \A n \in Name : (moved[n] + d[n]) % CounterMod \in Word
      <4>1. SUFFICES ASSUME NEW n \in Name
                     PROVE  (moved[n] + d[n]) % CounterMod \in Word
        OBVIOUS
      <4>2. moved[n] \in Word /\ d[n] \in Word
        BY ReceivedIs DEF TypeInv, TruthType
      <4>3. moved[n] + d[n] \in Int
        BY <4>2 DEF Word
      <4>4. QED
        BY <4>3, Wraps
    <3>2. moved' = [n \in Name |-> (moved[n] + d[n]) % CounterMod]
      BY FastRest
    <3>3. QED
      BY <3>1, <3>2
  <2>2. seen' \in [Name -> Word]
    <3>1. seen' = [n \in Name |-> IF \E i \in DOMAIN cur : cur[i].name = n
                                    THEN moved'[n] ELSE seen[n]]
      BY FastRest
    <3> HIDE DEF cur
    <3>2. QED
      BY <2>1, <3>1 DEF TypeInv, TruthType
  <2>3. from' \in [Slot -> Word \cup {Never}]
    <3>1. \A k \in Slot : k <= num_ifaces => ifaces[k] \in Name
      BY Constants DEF TypeInv, TableType, num_ifaces
    <3>2. \A k \in Slot : k <= num_ifaces => seen[ifaces[k]] \in Word
      BY <3>1 DEF TypeInv, TruthType
    <3>3. QED
      BY <3>2, FastRest DEF TypeInv, TruthType
  <2>4. replugged' \subseteq Name
    BY FastRest DEF TypeInv, TruthType
  <2>5. long_sum' \in [Slot -> Word]
    <3>1. \A k \in Slot : (long_sum[k] + AccOf(d, readable, dt)[k]) % CounterMod \in Word
      <4>1. SUFFICES ASSUME NEW k \in Slot
                     PROVE  (long_sum[k] + AccOf(d, readable, dt)[k]) % CounterMod \in Word
        OBVIOUS
      <4>2. long_sum[k] \in Word /\ AccOf(d, readable, dt)[k] \in Nat
        BY AccIs DEF TypeInv, TruthType
      <4>3. long_sum[k] + AccOf(d, readable, dt)[k] \in Int
        BY <4>2 DEF Word
      <4>4. QED
        BY <4>3, Wraps
    <3>2. QED
      BY <3>1, FastIs DEF TypeInv, TruthType
  <2>6. gap' \in Nat
    BY FastIs, Constants
  <2>7. QED
    BY <2>1, <2>2, <2>3, <2>4, <2>5, <2>6 DEF TruthType
<1>6. QED
  BY <1>2, <1>3, <1>4, <1>5 DEF TypeInv

(***************************************************************************)
(* The slow tick and the kernel.                                           *)
(***************************************************************************)
LEMMA SlowTypes ==
  ASSUME TypeInv, NEW works \in BOOLEAN, slow_timer_cb(works)
  PROVE  TypeInv'
<1>1. UNCHANGED <<kernel, account, truth>>
  BY DEF slow_timer_cb
<1>2. PICK q \in Seq(Name) : ifaces' = ifaces \o q /\ num_ifaces + Len(q) <= MaxInterfaces
  BY SlowIs
<1>3. TableType'
  <2>1. ifaces' \in Seq(Name) /\ Len(ifaces') = Len(ifaces) + Len(q)
    BY <1>2, ConcatProperties DEF TypeInv, TableType
  <2>2. QED
    BY <1>2, <2>1 DEF TableType, num_ifaces
<1>4. QED
  BY <1>1, <1>3 DEF TypeInv, kernel, account, truth, KernelType, AccountType, TruthType

LEMMA RemoveIs ==
  ASSUME KernelType, NEW p \in DOMAIN devices
  PROVE  /\ RemoveAt(devices, p) \in Seq(Name)
         /\ DOMAIN RemoveAt(devices, p) = 1 .. Len(devices) - 1
         /\ \A i \in 1 .. Len(devices) - 1 :
              RemoveAt(devices, p)[i] = IF i < p THEN devices[i] ELSE devices[i + 1]
         /\ IsInjective(RemoveAt(devices, p))
<1> DEFINE r == RemoveAt(devices, p)
           a == SubSeq(devices, 1, p - 1)
           b == SubSeq(devices, p + 1, Len(devices))
<1>1. devices \in Seq(Name) /\ Len(devices) \in Nat /\ p \in 1 .. Len(devices)
  BY DEF KernelType
<1>2. /\ a \in Seq(Name) /\ Len(a) = p - 1
      /\ \A i \in 1 .. p - 1 : a[i] = devices[i]
  <2>1. \A i \in 1 .. p - 1 : devices[i] \in Name
    BY <1>1
  <2>2. p - 1 \in Int /\ 1 \in Int
    BY <1>1
  <2>3. /\ a \in Seq(Name) /\ Len(a) = IF 1 <= p - 1 THEN (p - 1) - 1 + 1 ELSE 0
        /\ \A i \in 1 .. (p - 1) - 1 + 1 : a[i] = devices[1 + i - 1]
    BY <2>1, <2>2, SubSeqProperties
  <2>4. QED
    BY <1>1, <2>3
<1>3. /\ b \in Seq(Name) /\ Len(b) = Len(devices) - p
      /\ \A i \in 1 .. Len(devices) - p : b[i] = devices[p + i]
  <2>1. \A i \in p + 1 .. Len(devices) : devices[i] \in Name
    BY <1>1
  <2>2. p + 1 \in Int /\ Len(devices) \in Int
    BY <1>1
  <2>3. /\ b \in Seq(Name)
        /\ Len(b) = IF p + 1 <= Len(devices) THEN Len(devices) - (p + 1) + 1 ELSE 0
        /\ \A i \in 1 .. Len(devices) - (p + 1) + 1 : b[i] = devices[(p + 1) + i - 1]
    <3> DEFINE s == p + 1  l == Len(devices)
    <3>1. s \in Int /\ l \in Int /\ \A i \in s .. l : devices[i] \in Name
      BY <2>1, <2>2
    <3> HIDE DEF s, l
    <3>2. /\ SubSeq(devices, s, l) \in Seq(Name)
          /\ Len(SubSeq(devices, s, l)) = IF s <= l THEN l - s + 1 ELSE 0
          /\ \A i \in 1 .. l - s + 1 : SubSeq(devices, s, l)[i] = devices[s + i - 1]
      BY <3>1, SubSeqProperties
    <3>3. QED
      BY <3>2 DEF s, l
  <2>4. QED
    BY <1>1, <2>3
<1>4. r = a \o b
  BY DEF RemoveAt
<1> HIDE DEF r, a, b
<1>5. /\ r \in Seq(Name) /\ Len(r) = Len(devices) - 1
      /\ \A i \in 1 .. Len(devices) - 1 :
           r[i] = IF i <= p - 1 THEN a[i] ELSE b[i - (p - 1)]
  <2>1. Len(a) + Len(b) = Len(devices) - 1
    BY <1>1, <1>2, <1>3
  <2>2. /\ r \in Seq(Name) /\ Len(r) = Len(a) + Len(b)
        /\ \A i \in 1 .. Len(a) + Len(b) : r[i] = IF i <= Len(a) THEN a[i] ELSE b[i - Len(a)]
    BY <1>2, <1>3, <1>4, ConcatProperties
  <2>3. Len(a) = p - 1
    BY <1>2
  <2>4. QED
    BY <2>1, <2>2, <2>3
<1>6. \A i \in 1 .. Len(devices) - 1 :
        r[i] = IF i < p THEN devices[i] ELSE devices[i + 1]
  <2>1. SUFFICES ASSUME NEW i \in 1 .. Len(devices) - 1
                 PROVE  r[i] = IF i < p THEN devices[i] ELSE devices[i + 1]
    OBVIOUS
  <2>2. CASE i < p
    <3>1. i <= p - 1 /\ i \in 1 .. p - 1
      BY <1>1, <2>2
    <3>2. r[i] = a[i] /\ a[i] = devices[i]
      BY <1>2, <1>5, <3>1
    <3>3. QED
      BY <2>2, <3>2
  <2>3. CASE ~(i < p)
    <3>1. r[i] = b[i - (p - 1)] /\ i - (p - 1) \in 1 .. Len(devices) - p
      BY <1>1, <1>5, <2>3
    <3> DEFINE x == i - (p - 1)
    <3>2. x \in 1 .. Len(devices) - p /\ p + x = i + 1
      BY <1>1, <3>1
    <3> HIDE DEF x
    <3>3. b[x] = devices[p + x]
      BY <1>3, <3>2
    <3>4. QED
      BY <2>3, <3>1, <3>2, <3>3 DEF x
  <2>4. QED
    BY <2>2, <2>3
<1>7. DOMAIN r = 1 .. Len(devices) - 1
  BY <1>1, <1>5
<1>8. IsInjective(r)
  <2>1. SUFFICES ASSUME NEW i \in DOMAIN r, NEW j \in DOMAIN r, r[i] = r[j]
                 PROVE  i = j
    BY DEF IsInjective
  <2> DEFINE up(x) == IF x < p THEN x ELSE x + 1
  <2>2. devices[up(i)] = devices[up(j)] /\ up(i) \in DOMAIN devices /\ up(j) \in DOMAIN devices
    BY <1>1, <1>6, <1>7, <2>1
  <2>3. up(i) = up(j)
    BY <2>2 DEF KernelType, IsInjective
  <2>4. QED
    BY <1>1, <1>7, <2>3
<1>9. QED
  BY <1>5, <1>6, <1>7, <1>8 DEF r

LEMMA GainTypes ==
  ASSUME TypeInv, NEW n \in Name, GainAddress(n)
  PROVE  TypeInv'
<1>1. UNCHANGED <<devices, counter, table, account, truth>>
  BY DEF GainAddress
<1>2. addressed' \subseteq Range(devices')
  BY DEF GainAddress, TypeInv, KernelType
<1>3. KernelType'
  BY <1>1, <1>2 DEF TypeInv, KernelType
<1>4. QED
  BY <1>1, <1>3 DEF TypeInv, table, account, truth, TableType, num_ifaces, AccountType, TruthType

LEMMA LoseTypes ==
  ASSUME TypeInv, NEW n \in Name, LoseAddress(n)
  PROVE  TypeInv'
<1>1. UNCHANGED <<devices, counter, table, account, truth>>
  BY DEF LoseAddress
<1>2. addressed' \subseteq Range(devices')
  BY DEF LoseAddress, TypeInv, KernelType
<1>3. KernelType'
  BY <1>1, <1>2 DEF TypeInv, KernelType
<1>4. QED
  BY <1>1, <1>3 DEF TypeInv, table, account, truth, TableType, num_ifaces, AccountType, TruthType

\* The others stay in the list when a device leaves it.
LEMMA UnregisterIs ==
  ASSUME KernelType, NEW n \in Name, Unregister(n)
  PROVE  /\ devices' \in Seq(Name) /\ IsInjective(devices')
         /\ Place(n) \in DOMAIN devices
         /\ DOMAIN devices' = 1 .. Len(devices) - 1
         /\ \A i \in DOMAIN devices' :
              devices'[i] = IF i < Place(n) THEN devices[i] ELSE devices[i + 1]
         /\ Range(devices') = Range(devices) \ {n}
<1>1. n \in Range(devices) /\ devices' = RemoveAt(devices, Place(n))
  BY DEF Unregister
<1>2. /\ Place(n) \in DOMAIN devices /\ devices[Place(n)] = n
      /\ DOMAIN devices = 1 .. Len(devices) /\ Len(devices) \in Nat
  BY <1>1, PlaceIs
<1>3. /\ devices' \in Seq(Name) /\ IsInjective(devices')
      /\ DOMAIN devices' = 1 .. Len(devices) - 1
      /\ \A i \in DOMAIN devices' :
           devices'[i] = IF i < Place(n) THEN devices[i] ELSE devices[i + 1]
  BY <1>1, <1>2, RemoveIs
<1>4. ASSUME NEW i \in DOMAIN devices'
      PROVE  devices'[i] \in Range(devices) \ {n}
  <2>1. PICK j \in DOMAIN devices : devices'[i] = devices[j] /\ j # Place(n)
    <3>1. CASE i < Place(n)
      BY <1>2, <1>3, <3>1
    <3>2. CASE ~(i < Place(n))
      <4>1. i + 1 \in DOMAIN devices /\ i + 1 # Place(n)
        BY <1>2, <1>3, <3>2
      <4>2. QED
        BY <1>3, <3>2, <4>1
    <3>3. QED
      BY <3>1, <3>2
  <2>2. QED
    BY <2>1, PlaceIs
<1>5. ASSUME NEW m \in Range(devices), m # n
      PROVE  m \in Range(devices')
  <2>1. Place(m) \in DOMAIN devices /\ devices[Place(m)] = m /\ Place(m) # Place(n)
    BY <1>2, <1>5, PlaceIs
  <2>2. PICK i \in DOMAIN devices' : devices'[i] = m
    <3>1. CASE Place(m) < Place(n)
      <4>1. Place(m) \in DOMAIN devices'
        BY <1>2, <1>3, <2>1, <3>1
      <4>2. devices'[Place(m)] = m
        BY <1>3, <2>1, <3>1, <4>1
      <4>3. QED
        BY <4>1, <4>2
    <3>2. CASE ~(Place(m) < Place(n))
      <4> DEFINE i == Place(m) - 1
      <4>1. i \in DOMAIN devices' /\ ~(i < Place(n)) /\ i + 1 = Place(m)
        BY <1>2, <1>3, <2>1, <3>2
      <4>2. devices'[i] = m
        BY <1>3, <2>1, <4>1
      <4>3. QED
        BY <4>1, <4>2
    <3>3. QED
      BY <3>1, <3>2
  <2>3. QED
    BY <2>2 DEF Range
<1>6. Range(devices') \subseteq Range(devices) \ {n}
  BY <1>4 DEF Range
<1>7. Range(devices) \ {n} \subseteq Range(devices')
  BY <1>5
<1>8. QED
  BY <1>2, <1>3, <1>6, <1>7

LEMMA UnregisterTypes ==
  ASSUME TypeInv, NEW n \in Name, Unregister(n)
  PROVE  TypeInv'
<1>1. UNCHANGED <<counter, table, account, truth>> /\ addressed' = addressed \ {n}
  BY DEF Unregister
<1>2. /\ devices' \in Seq(Name) /\ IsInjective(devices')
      /\ Range(devices') = Range(devices) \ {n}
  BY UnregisterIs DEF TypeInv
<1>3. KernelType'
  BY <1>1, <1>2 DEF TypeInv, KernelType
<1>4. QED
  BY <1>1, <1>3 DEF TypeInv, table, account, truth, TableType, num_ifaces, AccountType, TruthType

LEMMA RegisterIs ==
  ASSUME KernelType, NEW n \in Name, Register(n)
  PROVE  /\ devices' \in Seq(Name) /\ IsInjective(devices')
         /\ DOMAIN devices' = 1 .. Len(devices) + 1
         /\ \A i \in DOMAIN devices : devices'[i] = devices[i]
         /\ devices'[Len(devices) + 1] = n
         /\ Range(devices') = Range(devices) \cup {n}
<1>1. n \notin Range(devices) /\ devices' = Append(devices, n)
  BY DEF Register
<1>2. DOMAIN devices = 1 .. Len(devices) /\ Len(devices) \in Nat /\ devices \in Seq(Name)
  BY DEF KernelType
<1>3. /\ devices' \in Seq(Name) /\ Len(devices') = Len(devices) + 1
      /\ \A i \in 1 .. Len(devices) : devices'[i] = devices[i]
      /\ devices'[Len(devices) + 1] = n
  BY <1>1, <1>2, AppendProperties
<1>4. DOMAIN devices' = 1 .. Len(devices) + 1
  BY <1>2, <1>3
<1>5. \A i \in DOMAIN devices' : i \in DOMAIN devices \/ i = Len(devices) + 1
  BY <1>2, <1>4
<1>6. \A i \in DOMAIN devices : devices'[i] = devices[i] /\ devices[i] # n /\ i \in DOMAIN devices'
  BY <1>1, <1>2, <1>3, <1>4 DEF Range
<1>7. IsInjective(devices')
  BY <1>3, <1>5, <1>6 DEF KernelType, IsInjective
<1>8. Len(devices) + 1 \in DOMAIN devices'
  BY <1>2, <1>4
<1>9. Range(devices') = Range(devices) \cup {n}
  BY <1>3, <1>5, <1>6, <1>8 DEF Range
<1>10. QED
  BY <1>3, <1>4, <1>6, <1>7, <1>9

LEMMA RegisterTypes ==
  ASSUME TypeInv, NEW n \in Name, Register(n)
  PROVE  TypeInv'
<1>1. /\ UNCHANGED <<table, account, from, long_sum, gap>>
      /\ addressed' = addressed \cup {n} /\ replugged' = replugged \cup {n}
      /\ counter' = [counter EXCEPT ![n] = 0]
      /\ moved' = [moved EXCEPT ![n] = 0] /\ seen' = [seen EXCEPT ![n] = 0]
  BY DEF Register
<1>2. /\ devices' \in Seq(Name) /\ IsInjective(devices')
      /\ Range(devices') = Range(devices) \cup {n}
  BY RegisterIs DEF TypeInv
<1>3. counter' \in [Name -> Word]
  BY <1>1, Constants DEF TypeInv, KernelType
<1>4. KernelType'
  BY <1>1, <1>2, <1>3 DEF TypeInv, KernelType
<1>5. TruthType'
  BY <1>1, Constants DEF TypeInv, TruthType
<1>6. QED
  BY <1>1, <1>4, <1>5 DEF TypeInv, table, account, TableType, num_ifaces, AccountType

LEMMA NextTypes ==
  ASSUME TypeInv, [Next]_vars
  PROVE  TypeInv'
<1>1. CASE UNCHANGED vars
  BY <1>1 DEF vars, kernel, table, account, truth, TypeInv, KernelType, TableType, num_ifaces,
              AccountType, TruthType
<1>2. CASE Next
  BY <1>2, FastTypes, SlowTypes, GainTypes, LoseTypes, UnregisterTypes, RegisterTypes DEF Next
<1>3. QED
  BY <1>1, <1>2

-----------------------------------------------------------------------------
(***************************************************************************)
(* Every board: the totals and the peaks.                                  *)
(***************************************************************************)
LEMMA InitAccount ==
  ASSUME net_collector_init
  PROVE  PeakBoundsHistory
<1>1. \A k \in Slot : short_history[k] = << >>
  BY DEF net_collector_init
<1>2. DOMAIN << >> = {}
  OBVIOUS
<1>3. QED
  BY <1>1, <1>2 DEF PeakBoundsHistory

LEMMA PeaksAre ==
  ASSUME TypeInv, NEW d \in Traffic, NEW readable \in BOOLEAN, NEW dt \in Gaps,
         fast_timer_cb(d, readable, dt)
  PROVE  peak' = [k \in Slot |-> IF k \in Fresh(Cur(d, readable))
                                  THEN Max({peak[k], Pace(d, k, dt)}) ELSE peak[k]]
BY FastIs

LEMMA FastPeaks ==
  ASSUME TypeInv, PeakBoundsHistory, NEW d \in Traffic, NEW readable \in BOOLEAN, NEW dt \in Gaps,
         fast_timer_cb(d, readable, dt)
  PROVE  PeakBoundsHistory'
<1> DEFINE fresh == Fresh(Cur(d, readable))
<1>p. peak' = [k \in Slot |-> IF k \in fresh THEN Max({peak[k], Pace(d, k, dt)}) ELSE peak[k]]
  BY PeaksAre
<1>s. SUFFICES ASSUME NEW k \in Slot, NEW i \in DOMAIN short_history'[k]
               PROVE  short_history'[k][i] <= peak'[k]
  BY DEF PeakBoundsHistory
<1>1. CASE k \notin fresh
  <2>1. short_history'[k] = short_history[k]
    BY <1>1, FastIs
  <2> HIDE DEF fresh
  <2>2. peak'[k] = peak[k]
    BY <1>p, <1>1
  <2>3. QED
    BY <2>1, <2>2 DEF PeakBoundsHistory
<1>2. CASE k \in fresh
  <2> DEFINE q == short_history[k]  v == Pace(d, k, dt)  p == peak[k]
  <2>1. q \in Seq(Nat) /\ v \in Nat /\ p \in Nat
    BY <1>2, GotIs DEF TypeInv, AccountType
  <2>2. \A j \in DOMAIN q : q[j] <= p /\ q[j] \in Nat
    BY <2>1 DEF PeakBoundsHistory
  <2>3. short_history'[k] = history_push(q, v) /\ peak'[k] = Max({p, v})
    BY <1>2, FastIs
  <2> HIDE DEF q, v, p
  <2>4. Max({p, v}) \in Nat /\ Max({p, v}) >= p /\ Max({p, v}) >= v
    BY <2>1, MaxIs
  <2>5. history_push(q, v)[i] = v \/ \E j \in DOMAIN q : history_push(q, v)[i] = q[j]
    BY <2>1, <2>3, PushIs
  <2>6. QED
    BY <2>1, <2>2, <2>3, <2>4, <2>5
<1>3. QED
  BY <1>1, <1>2

LEMMA NextAccount ==
  ASSUME AccountInv, [Next]_vars
  PROVE  AccountInv'
<1>1. TypeInv'
  BY NextTypes DEF AccountInv
<1>2. ASSUME UNCHANGED <<peak, short_history>>
      PROVE  PeakBoundsHistory'
  BY <1>2 DEF AccountInv, PeakBoundsHistory
<1>3. CASE UNCHANGED vars
  BY <1>1, <1>2, <1>3 DEF vars, account, AccountInv
<1>4. ASSUME NEW d \in Traffic, NEW readable \in BOOLEAN, NEW dt \in Gaps,
             fast_timer_cb(d, readable, dt)
      PROVE  PeakBoundsHistory'
  BY <1>4, FastPeaks DEF AccountInv
<1>5. ASSUME NEW works \in BOOLEAN, slow_timer_cb(works)
      PROVE  PeakBoundsHistory'
  BY <1>2, <1>5 DEF slow_timer_cb, account
<1>6. ASSUME NEW n \in Name, GainAddress(n) \/ LoseAddress(n) \/ Unregister(n) \/ Register(n)
      PROVE  PeakBoundsHistory'
  BY <1>2, <1>6 DEF GainAddress, LoseAddress, Unregister, Register, account
<1>7. QED
  BY <1>1, <1>3, <1>4, <1>5, <1>6 DEF Next, AccountInv

\* Types and peaks, of every board and whatever time passes between the ticks.
THEOREM AccountInvHolds == Spec => []AccountInv
<1>1. net_collector_init => AccountInv
  BY InitTypes, InitAccount DEF AccountInv
<1>2. AccountInv /\ [Next]_vars => AccountInv'
  BY NextAccount
<1>3. QED
  BY <1>1, <1>2, PTL DEF Spec

-----------------------------------------------------------------------------
(***************************************************************************)
(* Every board: the minutes beside the total.                              *)
(***************************************************************************)
\* What was added modulo the width of a counter is found again.
LEMMA Gained ==
  ASSUME NEW a \in Int, NEW b \in Int
  PROVE  (((a + b) % CounterMod) - a) % CounterMod = b % CounterMod
<1> DEFINE x == a + b  r == x % CounterMod  z == -a
<1>1. CounterMod \in Nat \ {0} /\ x \in Int /\ r \in Int /\ z \in Int /\ x + z = b /\ r + z = r - a
  BY Constants
<1> HIDE DEF x, z
<1>2. (r + z) % CounterMod = (x + z) % CounterMod
  BY <1>1, ModSum
<1>3. QED
  BY <1>1, <1>2 DEF x, z

\* A tick gives the bytes to the total and the rate to the minutes, also when
\* the minute is full and moves to the long history.
LEMMA TickAdds ==
  ASSUME TypeInv, NEW d \in Traffic, NEW readable \in BOOLEAN, NEW dt \in Gaps,
         fast_timer_cb(d, readable, dt), NEW k \in Slot
  PROVE  IF k \in Fresh(Cur(d, readable))
         THEN Total(k) = Got(d, k) /\ Minutes(k) = Pace(d, k, dt) % CounterMod
         ELSE Total(k) = 0 /\ Minutes(k) = 0
<1> DEFINE fresh == Fresh(Cur(d, readable))
           acc   == AccOf(d, readable, dt)
           p     == IF k \in fresh THEN Pace(d, k, dt) ELSE 0
           g     == IF k \in fresh THEN Got(d, k) ELSE 0
           s == long_sum[k]  a == minute_acc[k]  t == today[k]
<1>1. s \in Word /\ t \in Word /\ a \in Nat /\ p \in Nat /\ g \in Word
  BY GotIs, Constants DEF TypeInv, AccountType, TruthType
<1>2. s \in Int /\ t \in Int /\ g \in Int
  BY <1>1 DEF Word
<1>3. today'[k] = IF k \in fresh THEN (t + g) % CounterMod ELSE t
  BY FastIs
<1>4. acc[k] = a + p
  BY DEF AccOf
<1>5. minute_acc'[k] = IF Full /\ k <= num_ifaces THEN 0 ELSE a + p
  <2>1. minute_acc' = AccAfter(acc, Full)
    BY FastIs
  <2>2. QED
    BY <1>4, <2>1 DEF AccAfter
<1>6. long_sum'[k] = IF Full /\ k <= num_ifaces THEN (s + (a + p)) % CounterMod ELSE s
  BY <1>4, FastIs
<1>7. Total(k) = g
  <2>1. g % CounterMod = g /\ 0 % CounterMod = 0
    <3> HIDE DEF g
    <3>1. g \in 0 .. CounterMod - 1 /\ CounterMod \in Nat \ {0}
      BY <1>1, Constants
    <3>2. QED
      BY <3>1
  <2>2. (((t + g) % CounterMod) - t) % CounterMod = g % CounterMod
    BY <1>2, Gained
  <2>3. CASE k \in fresh
    BY <1>3, <2>1, <2>2, <2>3 DEF Total
  <2>4. CASE k \notin fresh
    <3> HIDE DEF fresh
    <3>1. today'[k] = t /\ t - t = 0 /\ g = 0
      BY <1>2, <1>3, <2>4
    <3>2. QED
      BY <2>1, <3>1 DEF Total
  <2>5. QED
    BY <2>3, <2>4
<1> HIDE DEF p, g, fresh, acc
<1>8. Minutes(k) = p % CounterMod
  <2>1. CASE Full /\ k <= num_ifaces
    <3> DEFINE b == s + a  r == (b + p) % CounterMod
    <3>1. b \in Int /\ s + (a + p) = b + p
      BY <1>1, <1>2
    <3>2. long_sum'[k] = r /\ minute_acc'[k] = 0
      BY <1>5, <1>6, <2>1, <3>1
    <3> HIDE DEF b
    <3>3. r \in Int /\ (r + 0) - b = r - b
      BY <1>1, <3>1, Constants
    <3>4. (r - b) % CounterMod = p % CounterMod
      BY <1>1, <3>1, Gained
    <3>5. Minutes(k) = ((r + 0) - b) % CounterMod
      BY <3>2 DEF Minutes, b
    <3>6. QED
      BY <3>3, <3>4, <3>5
  <2>2. CASE ~(Full /\ k <= num_ifaces)
    <3>1. (s + (a + p)) - (s + a) = p
      BY <1>1, <1>2
    <3>2. QED
      BY <1>5, <1>6, <2>2, <3>1 DEF Minutes
  <2>3. QED
    BY <2>1, <2>2
<1>9. 0 % CounterMod = 0
  BY Constants
<1>10. QED
  BY <1>7, <1>8, <1>9 DEF p, g, fresh

\* Whatever a tick on time adds to the total for the day it adds to the
\* minutes, and a late one adds no more than that: no minute is pushed twice,
\* kept after it was pushed, or dropped (net_collector.c:353-399).
THEOREM DaysAreMinutes == Spec => MinutesKeepPace
<1>1. ASSUME AccountInv, [Next]_vars
      PROVE  Paced
  <2>1. SUFFICES ASSUME NEW k \in Slot
                 PROVE  \/ Minutes(k) = 0 /\ Total(k) = 0
                        \/ /\ gap' = Second => Minutes(k) = Total(k)
                           /\ gap' > Second => Minutes(k) <= Total(k)
    BY DEF Paced
  <2>t. TypeInv
    BY <1>1 DEF AccountInv
  <2>2. ASSUME UNCHANGED <<today, long_sum, minute_acc>>
        PROVE  Minutes(k) = 0 /\ Total(k) = 0
    <3> DEFINE b == long_sum[k] + minute_acc[k]  t == today[k]
    <3>1. long_sum[k] \in Word /\ t \in Word /\ minute_acc[k] \in Nat
      BY <2>t DEF TypeInv, AccountType, TruthType
    <3>2. b \in Int /\ t \in Int
      BY <3>1 DEF Word
    <3>3. Minutes(k) = (b - b) % CounterMod /\ Total(k) = (t - t) % CounterMod
      BY <2>2 DEF Minutes, Total
    <3> HIDE DEF b, t
    <3>4. b - b = 0 /\ t - t = 0 /\ 0 % CounterMod = 0
      BY <3>2, Constants
    <3>5. QED
      BY <3>3, <3>4
  <2>3. CASE UNCHANGED vars
    BY <2>2, <2>3 DEF vars, account, truth
  <2>4. ASSUME NEW d \in Traffic, NEW readable \in BOOLEAN, NEW dt \in Gaps,
               fast_timer_cb(d, readable, dt)
        PROVE  \/ Minutes(k) = 0 /\ Total(k) = 0
               \/ /\ gap' = Second => Minutes(k) = Total(k)
                  /\ gap' > Second => Minutes(k) <= Total(k)
    <3> DEFINE g == Got(d, k)  p == Pace(d, k, dt)
    <3>1. CASE k \notin Fresh(Cur(d, readable))
      BY <2>t, <2>4, <3>1, TickAdds
    <3>2. CASE k \in Fresh(Cur(d, readable))
      <4>1. Total(k) = g /\ Minutes(k) = p % CounterMod /\ gap' = dt
        BY <2>t, <2>4, <3>2, TickAdds, FastIs
      <4>2. g \in 0 .. CounterMod - 1 /\ g \in Nat /\ p \in Nat
        BY <2>t, <3>2, GotIs, Constants
      <4>3. (dt = Second => p = g) /\ (dt >= Second => p <= g)
        BY <4>2, PaceIs DEF Pace
      <4> HIDE DEF g, p
      <4>4. Second \in Nat /\ dt \in Nat /\ CounterMod \in Nat \ {0}
        BY Constants
      <4>5. ASSUME dt >= Second
            PROVE  p % CounterMod = p
        BY <4>2, <4>3, <4>4, <4>5
      <4>6. QED
        BY <4>1, <4>3, <4>4, <4>5
    <3>3. QED
      BY <3>1, <3>2
  <2>5. ASSUME NEW works \in BOOLEAN, slow_timer_cb(works)
        PROVE  Minutes(k) = 0 /\ Total(k) = 0
    BY <2>2, <2>5 DEF slow_timer_cb, account, truth
  <2>6. ASSUME NEW n \in Name, GainAddress(n) \/ LoseAddress(n) \/ Unregister(n) \/ Register(n)
        PROVE  Minutes(k) = 0 /\ Total(k) = 0
    BY <2>2, <2>6 DEF GainAddress, LoseAddress, Unregister, Register, account, truth
  <2>7. QED
    BY <1>1, <2>3, <2>4, <2>5, <2>6 DEF Next
<1>2. AccountInv /\ [Next]_vars => [Paced]_vars
  BY <1>1
<1>3. QED
  BY <1>2, AccountInvHolds, PTL DEF Spec, MinutesKeepPace

\* No sample of the chart is above the peak shown beside it, also after the
\* buffer has come round.
THEOREM ChartsAreBounded == Spec => []PeakBoundsHistory
<1>1. AccountInv => PeakBoundsHistory
  BY DEF AccountInv
<1>2. QED
  BY <1>1, AccountInvHolds, PTL

-----------------------------------------------------------------------------
(***************************************************************************)
(* Boards without a second address at boot: the table names each interface *)
(* once.  The first enumeration copies its entries as they are             *)
(* (net_collector.c:571), so the hypothesis cannot be dropped.             *)
(***************************************************************************)
LEMMA EnumOnce ==
  ASSUME KernelType, addressed \cap Aliased = {}, NEW q \in net_enumerate_interfaces
  PROVE  /\ IsInjective(q)
         /\ \A n \in addressed \ Range(q) :
              Len(q) = MaxInterfaces /\ \A i \in DOMAIN q : Place(q[i]) <= Place(n)
<1>1. /\ DOMAIN q = 1 .. Len(q) /\ Len(q) \in Nat
      /\ \A i \in DOMAIN q : q[i] \in addressed /\ q[i] \in Name
  BY EnumIs, Constants
<1>2. \A n : /\ Mentions(q, n) = Cardinality({i \in DOMAIN q : q[i] = n})
             /\ IsFiniteSet({i \in DOMAIN q : q[i] = n})
  <2>1. IsFiniteSet(DOMAIN q)
    BY <1>1, FS_Interval
  <2>2. QED
    BY <2>1, FS_Subset DEF Mentions
<1>3. \A n \in addressed : Entries(n) = 1
  BY DEF Entries
<1>4. \A n \in Name : Mentions(q, n) \in Nat
  BY <1>2, FS_CardinalityType
<1>5. \A n \in Name :
        \/ Mentions(q, n) = Entries(n)
        \/ /\ Mentions(q, n) < Entries(n) /\ Len(q) = MaxInterfaces
           /\ \A i \in DOMAIN q : Place(q[i]) <= Place(n)
  BY DEF net_enumerate_interfaces
<1>6. IsInjective(q)
  <2>1. SUFFICES ASSUME NEW i \in DOMAIN q, NEW j \in DOMAIN q, q[i] = q[j], i # j
                 PROVE  FALSE
    BY DEF IsInjective
  <2> DEFINE S == {x \in DOMAIN q : q[x] = q[i]}
  <2>2. {i, j} \subseteq S /\ IsFiniteSet(S)
    BY <1>2, <2>1
  <2>3. Cardinality({i, j}) = 2
    <3>1. {i, j} = {i} \cup {j} /\ j \notin {i}
      BY <2>1
    <3>2. IsFiniteSet({i}) /\ Cardinality({i}) = 1
      BY FS_Singleton
    <3>3. Cardinality({i} \cup {j}) = Cardinality({i}) + 1
      BY <3>1, <3>2, FS_AddElement
    <3>4. QED
      BY <3>1, <3>2, <3>3
  <2>4. Cardinality({i, j}) <= Cardinality(S)
    BY <2>2, FS_Subset
  <2>5. Cardinality(S) \in Nat /\ Cardinality(S) <= 1
    BY <1>1, <1>2, <1>3, <1>4, <1>5
  <2>6. QED
    BY <2>3, <2>4, <2>5
<1>7. ASSUME NEW n \in addressed, n \notin Range(q)
      PROVE  Len(q) = MaxInterfaces /\ \A i \in DOMAIN q : Place(q[i]) <= Place(n)
  <2>1. {i \in DOMAIN q : q[i] = n} = {}
    BY <1>7 DEF Range
  <2>2. Mentions(q, n) = 0
    BY <1>2, <2>1, FS_EmptySet
  <2>3. n \in Name
    BY RangeOfSeq DEF KernelType
  <2>4. QED
    BY <1>3, <1>5, <2>2, <2>3
<1>8. QED
  BY <1>6, <1>7

TableInv == TypeInv /\ IsInjective(ifaces)

LEMMA NextTable ==
  ASSUME TableInv, [Next]_vars
  PROVE  TableInv'
<1>1. TypeInv'
  BY NextTypes DEF TableInv
<1>2. ASSUME UNCHANGED ifaces
      PROVE  IsInjective(ifaces)'
  BY <1>2 DEF TableInv
<1>3. ASSUME NEW works \in BOOLEAN, slow_timer_cb(works)
      PROVE  IsInjective(ifaces')
  <2>1. PICK q \in Seq(Name) :
          /\ ifaces' = ifaces \o q /\ DOMAIN q = 1 .. Len(q) /\ IsInjective(q)
          /\ \A i \in DOMAIN q : \A k \in 1 .. num_ifaces : ifaces[k] # q[i]
    BY <1>3, SlowIs DEF TableInv
  <2> DEFINE m == num_ifaces
  <2>2. /\ m \in Nat /\ Len(q) \in Nat /\ ifaces \in Seq(Name) /\ DOMAIN ifaces = 1 .. m
        /\ IsInjective(ifaces)
    BY DEF TableInv, TypeInv, TableType, num_ifaces
  <2>3. /\ ifaces' \in Seq(Name) /\ Len(ifaces') = m + Len(q)
        /\ \A i \in 1 .. m + Len(q) : ifaces'[i] = IF i <= m THEN ifaces[i] ELSE q[i - m]
    BY <2>1, <2>2, ConcatProperties DEF num_ifaces
  <2>4. DOMAIN ifaces' = 1 .. m + Len(q)
    BY <2>2, <2>3
  <2> HIDE DEF m
  <2>5. SUFFICES ASSUME NEW i \in 1 .. m + Len(q), NEW j \in 1 .. m + Len(q),
                        ifaces'[i] = ifaces'[j]
                 PROVE  i = j
    BY <2>4 DEF IsInjective
  <2>6. ASSUME NEW x \in 1 .. m + Len(q)
        PROVE  \/ x \in 1 .. m /\ ifaces'[x] = ifaces[x]
               \/ x - m \in DOMAIN q /\ ifaces'[x] = q[x - m]
    <3>1. ifaces'[x] = IF x <= m THEN ifaces[x] ELSE q[x - m]
      BY <2>3
    <3>2. x <= m => x \in 1 .. m
      BY <2>2
    <3>3. ~(x <= m) => x - m \in 1 .. Len(q)
      BY <2>2
    <3>4. QED
      BY <2>1, <3>1, <3>2, <3>3
  <2>7. CASE i \in 1 .. m /\ j \in 1 .. m
    BY <2>2, <2>3, <2>5, <2>7 DEF IsInjective
  <2>8. CASE i \notin 1 .. m /\ j \notin 1 .. m
    <3>1. q[i - m] = q[j - m] /\ i - m \in DOMAIN q /\ j - m \in DOMAIN q
      BY <2>5, <2>6, <2>8
    <3>2. i - m = j - m
      BY <2>1, <3>1 DEF IsInjective
    <3>3. QED
      BY <2>2, <3>2
  <2>9. ASSUME NEW x \in 1 .. m, NEW y \in 1 .. m + Len(q), y \notin 1 .. m
        PROVE  ifaces'[x] # ifaces'[y]
    <3>1. y - m \in DOMAIN q /\ ifaces'[y] = q[y - m]
      BY <2>6, <2>9
    <3>2. x \in 1 .. m + Len(q)
      BY <2>2
    <3>3. ifaces'[x] = ifaces[x]
      BY <2>2, <2>3, <3>2
    <3>4. ifaces[x] # q[y - m]
      BY <2>1, <3>1 DEF m
    <3>5. QED
      BY <3>1, <3>3, <3>4
  <2>10. QED
    BY <2>5, <2>7, <2>8, <2>9
<1>4. CASE UNCHANGED vars
  BY <1>1, <1>2, <1>4 DEF vars, table, TableInv
<1>5. CASE Next
  <2>1. ASSUME NEW d \in Traffic, NEW readable \in BOOLEAN, NEW dt \in Gaps, fast_timer_cb(d, readable, dt)
        PROVE  UNCHANGED ifaces
    BY <2>1, FastRest
  <2>2. ASSUME NEW n \in Name, GainAddress(n) \/ LoseAddress(n) \/ Unregister(n) \/ Register(n)
        PROVE  UNCHANGED ifaces
    BY <2>2 DEF GainAddress, LoseAddress, Unregister, Register, table
  <2>3. QED
    BY <1>1, <1>2, <1>3, <1>5, <2>1, <2>2 DEF Next, TableInv
<1>6. QED
  BY <1>4, <1>5

\* The table fits its array and names each interface once, whatever devices
\* come, go, gain or lose addresses between two slow ticks.
THEOREM RowsAreUnambiguous ==
  ASSUME OneAddressAtBoot
  PROVE  Spec => []TableIsAnIndex
<1>1. net_collector_init => TableInv
  <2>1. SUFFICES ASSUME net_collector_init
                 PROVE  TableInv
    OBVIOUS
  <2>2. TypeInv
    BY <2>1, InitTypes
  <2>3. addressed \cap Aliased = {} /\ ifaces \in net_enumerate_interfaces
    BY <2>1 DEF net_collector_init, OneAddressAtBoot
  <2>4. IsInjective(ifaces)
    BY <2>2, <2>3, EnumOnce DEF TypeInv
  <2>5. QED
    BY <2>2, <2>4 DEF TableInv
<1>2. TableInv /\ [Next]_vars => TableInv'
  BY NextTable
<1>3. TableInv => TableIsAnIndex
  BY DEF TableInv, TypeInv, TableType, TableIsAnIndex
<1>4. QED
  BY <1>1, <1>2, <1>3, PTL DEF Spec

-----------------------------------------------------------------------------
(***************************************************************************)
(* Boards whose devices with an address come first: the table, the list of *)
(* the kernel and the rows of the stored reading keep to the order at boot.*)
(***************************************************************************)
LEMMA Boot ==
  /\ DOMAIN BootOrder = 1 .. Len(BootOrder) /\ Len(BootOrder) \in Nat
  /\ \A i \in DOMAIN BootOrder : BootOrder[i] \in Name
  /\ \A n \in Name : \E b \in DOMAIN BootOrder : BootOrder[b] = n
  /\ \A i, j \in DOMAIN BootOrder : BootOrder[i] = BootOrder[j] => i = j
BY Constants DEF Name, Range, IsInjective

\* The first enumeration takes the devices with an address in order: the
\* first that was out of place would have been passed over.
LEMMA InitPrefix ==
  ASSUME net_collector_init, OneAddressAtBoot, NEW m \in 0 .. Len(BootOrder), Leads(m)
  PROVE  TableIsPrefix(m)
<1> DEFINE q == ifaces  P(i) == Place(q[i])
<1>1. /\ KernelType /\ devices = BootOrder /\ addressed = BootAddressed
      /\ q \in net_enumerate_interfaces
  BY InitTypes DEF TypeInv, net_collector_init
<1>2. /\ Len(q) \in 0 .. MaxInterfaces /\ DOMAIN q = 1 .. Len(q)
      /\ \A i \in DOMAIN q : q[i] \in addressed /\ q[i] \in Range(devices)
  BY <1>1, EnumIs
<1>3. /\ IsInjective(q)
      /\ \A n \in addressed \ Range(q) :
           Len(q) = MaxInterfaces /\ \A i \in DOMAIN q : P(i) <= Place(n)
  BY <1>1, EnumOnce DEF OneAddressAtBoot
<1>4. \A i \in DOMAIN BootOrder : Place(BootOrder[i]) = i
  BY <1>1, PlaceIs
<1>5. \A i \in DOMAIN q : P(i) \in 1 .. m /\ q[i] = BootOrder[P(i)]
  <2>1. \A i \in DOMAIN q : P(i) \in DOMAIN BootOrder /\ BootOrder[P(i)] = q[i]
    BY <1>1, <1>2, PlaceIs
  <2>2. \A i \in DOMAIN q : P(i) <= m
    BY <1>1, <1>2, <2>1 DEF Leads
  <2>3. QED
    BY <2>1, <2>2, Boot
<1>6. \A i, j \in DOMAIN q : i < j => P(i) < P(j)
  <2>1. \A i, j \in DOMAIN q : i < j => P(i) <= P(j)
    BY <1>1 DEF net_enumerate_interfaces
  <2>2. \A i, j \in DOMAIN q : i < j => P(i) # P(j)
    BY <1>2, <1>3, <1>5 DEF IsInjective
  <2>3. \A i \in DOMAIN q : P(i) \in Int
    BY <1>5
  <2> HIDE DEF P
  <2>4. QED
    BY <2>1, <2>2, <2>3
<1>7. \A i \in DOMAIN BootOrder : i <= m => BootOrder[i] \in addressed
  BY <1>1 DEF Leads
<1>8. m \in Nat /\ m <= Len(BootOrder)
  BY Boot
<1> HIDE DEF P
<1>9. \A i \in DOMAIN q : P(i) = i
  <2> DEFINE S == {i \in DOMAIN q : P(i) # i}
  <2>1. SUFFICES ASSUME S # {}
                 PROVE  FALSE
    OBVIOUS
  <2>2. PICK i \in S : \A j \in S : i <= j
    <3>1. S \in SUBSET Nat
      BY <1>2
    <3>2. QED
      BY <2>1, <3>1, MinIs
  <2>3. i \in DOMAIN q /\ P(i) # i /\ \A j \in DOMAIN q : j < i => P(j) = j
    BY <1>2, <2>2
  <2>4. P(i) > i
    <3>1. CASE i = 1
      BY <1>5, <2>3, <3>1
    <3>2. CASE i # 1
      <4>1. i - 1 \in DOMAIN q /\ i - 1 < i
        BY <1>2, <2>3, <3>2
      <4>2. P(i - 1) = i - 1 /\ P(i - 1) < P(i)
        BY <1>6, <2>3, <4>1
      <4>3. QED
        BY <1>2, <1>5, <2>3, <4>2
    <3>3. QED
      BY <3>1, <3>2
  <2>5. i \in DOMAIN BootOrder /\ i <= m
    BY <1>2, <1>5, <1>8, <2>3, <2>4, Boot
  <2>6. BootOrder[i] \in addressed
    BY <1>7, <2>5
  <2>7. ASSUME NEW j \in DOMAIN q, q[j] = BootOrder[i]
        PROVE  FALSE
    <3>1. P(j) = i
      BY <1>4, <2>5, <2>7 DEF P
    <3>2. CASE j < i
      BY <2>3, <3>1, <3>2, <1>2
    <3>3. CASE j = i
      BY <2>3, <3>1, <3>3
    <3>4. CASE i < j
      BY <1>5, <1>6, <2>3, <2>4, <3>1, <3>4
    <3>5. QED
      BY <1>2, <2>3, <3>2, <3>3, <3>4
  <2>8. BootOrder[i] \notin Range(q)
    BY <2>7 DEF Range
  <2>9. P(i) <= Place(BootOrder[i])
    BY <1>3, <2>3, <2>6, <2>8
  <2>10. QED
    BY <1>2, <1>4, <1>5, <2>3, <2>4, <2>5, <2>9
<1>10. \A k \in DOMAIN q : q[k] = BootOrder[k] /\ k <= m
  BY <1>5, <1>9
<1>11. Len(q) <= m
  <2>1. CASE Len(q) = 0
    BY <1>8, <2>1
  <2>2. CASE Len(q) # 0
    BY <1>2, <1>10, <2>2
  <2>3. QED
    BY <2>1, <2>2
<1>12. Len(q) < m => Len(q) = MaxInterfaces
  <2>1. SUFFICES ASSUME Len(q) < m
                 PROVE  Len(q) = MaxInterfaces
    OBVIOUS
  <2> DEFINE b == Len(q) + 1
  <2>2. b \in DOMAIN BootOrder /\ b <= m /\ b \notin DOMAIN q
    BY <1>2, <1>8, <2>1, Boot, Constants
  <2>3. \A k \in DOMAIN q : k \in DOMAIN BootOrder
    BY <1>2, <1>8, <1>10, Boot, Constants
  <2>4. \A k \in DOMAIN q : q[k] # BootOrder[b]
    BY <1>10, <2>2, <2>3, Boot
  <2>5. BootOrder[b] \in addressed \ Range(q)
    BY <1>7, <2>2, <2>4 DEF Range
  <2>6. QED
    BY <1>3, <2>5
<1>13. \A i \in DOMAIN BootOrder : i > m + 1 => BootOrder[i] \notin addressed
  <2>1. \A i \in DOMAIN BootOrder : i > m + 1 => ~(i <= m)
    BY <1>8, Boot
  <2>2. QED
    BY <1>1, <2>1 DEF Leads
<1>14. Len(q) >= Fits(m) /\ Len(q) <= Len(BootOrder) /\ Len(q) <= m + 1
  <2> DEFINE l == Len(q)  w == Len(BootOrder)
  <2>1. l \in 0 .. MaxInterfaces /\ MaxInterfaces \in Nat /\ w \in Nat
    BY <1>2, Boot, Constants
  <2>2. m \in Nat /\ m <= w /\ l <= m /\ (l < m => l = MaxInterfaces)
    BY <1>8, <1>11, <1>12
  <2> HIDE DEF l, w
  <2>3. l >= Fits(m) /\ l <= w /\ l <= m + 1
    BY <2>1, <2>2 DEF Fits
  <2>4. QED
    BY <2>3 DEF l, w
<1>15. QED
  BY <1>2, <1>10, <1>13, <1>14 DEF TableIsPrefix, num_ifaces

\* Only the next device can get an address, and only the next row is free.
LEMMA SlowPrefix ==
  ASSUME TypeInv, NEW m \in 0 .. Len(BootOrder), TableIsPrefix(m),
         NEW works \in BOOLEAN, slow_timer_cb(works)
  PROVE  TableIsPrefix(m)' /\ num_ifaces' >= num_ifaces
                           /\ \A k \in 1 .. num_ifaces : ifaces'[k] = ifaces[k]
<1>1. PICK q \in Seq(Name) :
        /\ ifaces' = ifaces \o q /\ num_ifaces + Len(q) <= MaxInterfaces
        /\ DOMAIN q = 1 .. Len(q) /\ IsInjective(q)
        /\ \A i \in DOMAIN q :
             q[i] \in addressed /\ \A k \in 1 .. num_ifaces : ifaces[k] # q[i]
  BY SlowIs
<1> DEFINE l == num_ifaces  c == Len(q)  w == Len(BootOrder)
<1>2. /\ l \in Nat /\ c \in Nat /\ w \in Nat /\ m \in Nat /\ m <= w
      /\ l + c <= MaxInterfaces /\ MaxInterfaces \in Nat
  BY <1>1, Boot, Constants DEF TypeInv, TableType, num_ifaces
<1>3. /\ ifaces' \in Seq(Name) /\ num_ifaces' = l + c
      /\ \A i \in 1 .. l + c : ifaces'[i] = IF i <= l THEN ifaces[i] ELSE q[i - l]
  <2>1. ifaces \in Seq(Name) /\ q \in Seq(Name)
    BY DEF TypeInv, TableType
  <2>2. /\ ifaces \o q \in Seq(Name) /\ Len(ifaces \o q) = Len(ifaces) + Len(q)
        /\ \A i \in 1 .. Len(ifaces) + Len(q) :
             (ifaces \o q)[i] = IF i <= Len(ifaces) THEN ifaces[i] ELSE q[i - Len(ifaces)]
    BY <2>1, ConcatProperties
  <2>3. QED
    BY <1>1, <2>2 DEF num_ifaces
<1>4. addressed \subseteq Name
  BY RangeOfSeq DEF TypeInv, KernelType
<1>5. /\ l <= w /\ l >= Fits(m) /\ l <= m + 1
      /\ \A k \in 1 .. l : ifaces[k] = BootOrder[k]
      /\ \A i \in DOMAIN BootOrder : i > m + 1 => BootOrder[i] \notin addressed
  BY DEF TableIsPrefix
<1>6. \A i \in DOMAIN q : q[i] = BootOrder[m + 1] /\ l = m /\ m + 1 <= w
  <2>1. SUFFICES ASSUME NEW i \in DOMAIN q
                 PROVE  q[i] = BootOrder[m + 1] /\ l = m /\ m + 1 <= w
    OBVIOUS
  <2>2. PICK b \in DOMAIN BootOrder : BootOrder[b] = q[i]
    BY <1>1, <1>4, Boot
  <2>3. ~(b > m + 1)
    BY <1>1, <1>5, <2>2
  <2>4. b \notin 1 .. l
    BY <1>1, <1>5, <2>2
  <2>5. c > 0
    BY <1>1, <1>2
  <2>6. b \in 1 .. w
    BY Boot
  <2>7. Fits(m) \in {m, MaxInterfaces}
    BY DEF Fits
  <2> HIDE DEF l, c, w
  <2>8. l < MaxInterfaces
    BY <1>2, <2>5
  <2>9. Fits(m) = m
    BY <1>2, <1>5, <2>7, <2>8
  <2>10. b = m + 1 /\ l = m /\ m + 1 <= w
    BY <1>2, <1>5, <2>3, <2>4, <2>6, <2>9
  <2>11. QED
    BY <2>2, <2>10
<1>7. c <= 1
  <2>1. SUFFICES ASSUME c > 1
                 PROVE  FALSE
    BY <1>2
  <2>2. 1 \in DOMAIN q /\ 2 \in DOMAIN q
    BY <1>1, <1>2, <2>1
  <2>3. q[1] = q[2]
    BY <1>6, <2>2
  <2>4. IsInjective(q)
    BY <1>1
  <2>5. QED
    BY <2>2, <2>3, <2>4 DEF IsInjective
<1>8. c = 1 => q[1] = BootOrder[m + 1] /\ l = m /\ m + 1 <= w
  BY <1>1, <1>6
<1>9. UNCHANGED addressed
  BY DEF slow_timer_cb, kernel
<1> HIDE DEF l, c, w
<1>10. ASSUME NEW k \in 1 .. l
       PROVE  ifaces'[k] = ifaces[k]
  <2>1. k \in 1 .. l + c /\ k <= l
    BY <1>2
  <2>2. QED
    BY <1>3, <2>1
<1>11. \A k \in 1 .. l + c : ifaces'[k] = BootOrder[k]
  <2>1. SUFFICES ASSUME NEW k \in 1 .. l + c
                 PROVE  ifaces'[k] = BootOrder[k]
    OBVIOUS
  <2>2. CASE k <= l
    BY <1>2, <1>5, <1>10, <2>2
  <2>3. CASE ~(k <= l)
    <3>1. c = 1 /\ k = l + 1
      BY <1>2, <1>7, <2>3
    <3>2. k = m + 1 /\ k - l = 1
      BY <1>2, <1>8, <3>1
    <3>3. ifaces'[k] = q[k - l]
      BY <1>3, <2>3
    <3>4. QED
      BY <1>8, <3>1, <3>2, <3>3
  <2>4. QED
    BY <2>2, <2>3
<1>12. Fits(m) \in {m, MaxInterfaces}
  BY DEF Fits
<1>13. l + c <= w /\ l + c >= Fits(m) /\ l + c <= m + 1 /\ l + c >= l
  BY <1>2, <1>5, <1>7, <1>8, <1>12
<1>14. TableIsPrefix(m)'
  BY <1>3, <1>5, <1>9, <1>11, <1>13 DEF TableIsPrefix, w
<1>15. QED
  BY <1>3, <1>10, <1>13, <1>14 DEF l

LEMMA InitBoards ==
  ASSUME net_collector_init, OneAddressAtBoot, NEW m \in 0 .. Len(BootOrder), Leads(m)
  PROVE  Boards(m)
<1>1. TypeInv
  BY InitTypes
<1>2. TableIsPrefix(m)
  BY InitPrefix
<1>3. devices = BootOrder /\ KernelType
  BY <1>1 DEF net_collector_init, TypeInv
<1>4. MovesForward
  <2>1. \A i \in DOMAIN BootOrder : \A b \in DOMAIN BootOrder :
          BootOrder[i] = BootOrder[b] => i = b /\ i \in Int
    BY Boot
  <2>2. QED
    BY <1>3, <2>1 DEF MovesForward
<1>5. ReadingsAgree
  <2>1. SUFFICES ASSUME NEW b \in Slot \cap DOMAIN BootOrder
                 PROVE  /\ FirstRead(BootOrder[b], b) /\ b \in 1 .. b
                        /\ (counter[BootOrder[b]] - prev_stats[b].bytes) % CounterMod
                             = (moved[BootOrder[b]] - seen[BootOrder[b]]) % CounterMod
    BY DEF ReadingsAgree
  <2> DEFINE cur == parse_proc_net_dev(counter)
  <2>2. counter \in [Name -> Word]
    BY <1>3 DEF KernelType
  <2>3. /\ DOMAIN cur = 1 .. Listed
        /\ \A j \in 1 .. Listed :
             cur[j] = [name |-> BootOrder[j], bytes |-> counter[BootOrder[j]]]
    BY <1>3, <2>2, ParseIs
  <2>4. prev_stats = [j \in Slot |-> IF j \in DOMAIN cur THEN cur[j]
                                     ELSE [name |-> NoName, bytes |-> 0]]
    BY DEF net_collector_init
  <2> HIDE DEF cur
  <2>5. 1 .. b \subseteq Slot /\ 1 .. b \subseteq DOMAIN BootOrder /\ b \in 1 .. b
    BY Boot, Constants
  <2>6. 1 .. b \subseteq 1 .. Listed
    <3>1. Listed \in Nat /\ (Listed = MaxInterfaces \/ Listed = Len(BootOrder))
      BY <1>3, ListedIs DEF KernelType
    <3>2. b <= MaxInterfaces /\ b <= Len(BootOrder) /\ b \in Nat
      BY Boot, Constants
    <3>3. b <= Listed
      BY <3>1, <3>2
    <3>4. QED
      BY <3>1, <3>2, <3>3
  <2>7. \A j \in 1 .. b :
          prev_stats[j] = [name |-> BootOrder[j], bytes |-> counter[BootOrder[j]]]
    BY <2>3, <2>4, <2>5, <2>6
  <2>8. \A j \in 1 .. b : /\ prev_stats[j].name = BootOrder[j]
                          /\ prev_stats[j].bytes = counter[BootOrder[j]]
    <3>1. SUFFICES ASSUME NEW j \in 1 .. b
                   PROVE  /\ prev_stats[j].name = BootOrder[j]
                          /\ prev_stats[j].bytes = counter[BootOrder[j]]
      OBVIOUS
    <3>2. prev_stats[j] = [name |-> BootOrder[j], bytes |-> counter[BootOrder[j]]]
      BY <2>7
    <3>3. QED
      BY <3>2
  <2>9. FirstRead(BootOrder[b], b)
    <3>1. \A j \in 1 .. b - 1 : j \in 1 .. b /\ j # b
      BY <2>5, Boot
    <3>2. \A j \in 1 .. b - 1 : prev_stats[j].name # BootOrder[b]
      BY <2>5, <2>8, <3>1, Boot
    <3>3. QED
      BY <2>5, <2>8, <3>2 DEF FirstRead
  <2>10. BootOrder[b] \in Name /\ counter[BootOrder[b]] \in Word
    BY <2>2, Boot
  <2>11. /\ counter[BootOrder[b]] - prev_stats[b].bytes = 0
         /\ moved[BootOrder[b]] - seen[BootOrder[b]] = 0
    <3>1. moved[BootOrder[b]] = 0 /\ seen[BootOrder[b]] = 0
      BY <2>10 DEF net_collector_init
    <3>2. prev_stats[b].bytes = counter[BootOrder[b]] /\ counter[BootOrder[b]] \in Int
      BY <2>5, <2>8, <2>10 DEF Word
    <3>3. QED
      BY <3>1, <3>2
  <2>12. QED
    BY <2>5, <2>9, <2>11
<1>6. \A k \in Slot : from[k] = Never /\ today[k] = 0
  BY DEF net_collector_init
<1>7. Measured
  BY <1>6 DEF Measured
<1>8. TodayIsTraffic
  <2>1. \A k \in 1 .. num_ifaces : k \in Slot
    BY <1>1, Constants DEF TypeInv, TableType, num_ifaces
  <2>2. QED
    BY <1>6, <2>1 DEF TodayIsTraffic
<1>9. QED
  BY <1>1, <1>2, <1>4, <1>5, <1>7, <1>8 DEF Boards

\* What a step that leaves the accounts alone preserves.
LEMMA Quiet ==
  ASSUME NEW m \in 0 .. Len(BootOrder), Boards(m),
         UNCHANGED <<ifaces, prev_stats, prev_valid, today, from>>,
         \A n \in Name \ replugged' : moved'[n] = moved[n] /\ seen'[n] = seen[n],
         replugged \subseteq replugged',
         \A n \in Range(devices') \ replugged' :
           n \in Range(devices) /\ counter'[n] = counter[n]
  PROVE  ReadingsAgree' /\ Measured' /\ TodayIsTraffic'
<1>1. ReadingsAgree'
  <2>1. SUFFICES ASSUME NEW b \in Slot \cap DOMAIN BootOrder,
                        BootOrder[b] \in Range(devices') \ replugged'
                 PROVE  \E j \in 1 .. b :
                          /\ FirstRead(BootOrder[b], j)'
                          /\ (counter'[BootOrder[b]] - prev_stats'[j].bytes) % CounterMod
                               = (moved'[BootOrder[b]] - seen'[BootOrder[b]]) % CounterMod
    BY DEF ReadingsAgree, FirstRead
  <2>2. PICK j \in 1 .. b :
          /\ FirstRead(BootOrder[b], j)
          /\ (counter[BootOrder[b]] - prev_stats[j].bytes) % CounterMod
               = (moved[BootOrder[b]] - seen[BootOrder[b]]) % CounterMod
    BY <2>1 DEF Boards, ReadingsAgree
  <2>3. BootOrder[b] \in Name
    BY Constants
  <2>4. QED
    BY <2>1, <2>2, <2>3 DEF FirstRead
<1>2. Measured'
  BY DEF Boards, Measured, num_ifaces
<1>3. TodayIsTraffic'
  <2>1. \A k \in 1 .. num_ifaces : ifaces[k] \in Name
    BY DEF Boards, TypeInv, TableType, num_ifaces
  <2>2. SUFFICES ASSUME NEW k \in 1 .. num_ifaces, from[k] # Never, ifaces[k] \notin replugged'
                 PROVE  today[k] = (seen'[ifaces[k]] - from[k]) % CounterMod
    BY DEF TodayIsTraffic, num_ifaces
  <2>3. QED
    BY <2>1, <2>2 DEF Boards, TodayIsTraffic
<1>4. QED
  BY <1>1, <1>2, <1>3

LEMMA SlowBoards ==
  ASSUME NEW m \in 0 .. Len(BootOrder), Boards(m), NEW works \in BOOLEAN, slow_timer_cb(works)
  PROVE  Boards(m)'
<1>1. TypeInv'
  BY SlowTypes DEF Boards
<1>2. TableIsPrefix(m)' /\ num_ifaces' >= num_ifaces
                        /\ \A k \in 1 .. num_ifaces : ifaces'[k] = ifaces[k]
  BY SlowPrefix DEF Boards
<1>3. UNCHANGED <<kernel, account, truth>>
  BY DEF slow_timer_cb
<1>4. MovesForward'
  BY <1>3 DEF Boards, MovesForward, kernel, truth
<1>5. ReadingsAgree'
  BY <1>3 DEF Boards, ReadingsAgree, FirstRead, kernel, account, truth
<1>6. num_ifaces \in Nat /\ num_ifaces' \in Nat
  BY <1>1 DEF Boards, TypeInv, TableType, num_ifaces
<1>7. Measured'
  <2>1. SUFFICES ASSUME NEW k \in Slot
                 PROVE  /\ from[k] = Never => today[k] = 0
                        /\ from[k] # Never => prev_valid /\ k <= num_ifaces'
    BY <1>3 DEF Measured, account, truth
  <2>2. /\ from[k] = Never => today[k] = 0
        /\ from[k] # Never => prev_valid /\ k <= num_ifaces
    BY DEF Boards, Measured
  <2>3. k <= num_ifaces => k <= num_ifaces'
    BY <1>2, <1>6, Constants
  <2>4. QED
    BY <2>2, <2>3
<1>8. TodayIsTraffic'
  <2>1. SUFFICES ASSUME NEW k \in 1 .. num_ifaces', from[k] # Never, ifaces'[k] \notin replugged
                 PROVE  today[k] = (seen[ifaces'[k]] - from[k]) % CounterMod
    BY <1>3 DEF TodayIsTraffic, account, truth
  <2>2. k \in Slot
    BY <1>1, Constants DEF TypeInv, TableType, num_ifaces
  <2>3. k \in 1 .. num_ifaces
    BY <1>6, <2>1, <2>2 DEF Boards, Measured
  <2>4. QED
    BY <1>2, <2>1, <2>3 DEF Boards, TodayIsTraffic
<1>9. QED
  BY <1>1, <1>2, <1>4, <1>5, <1>7, <1>8 DEF Boards

LEMMA AddressBoards ==
  ASSUME NEW m \in 0 .. Len(BootOrder), Leads(m), Boards(m), NEW n \in Name,
         GainAddress(n) \/ LoseAddress(n)
  PROVE  Boards(m)'
<1>1. TypeInv'
  BY GainTypes, LoseTypes DEF Boards
<1>2. UNCHANGED <<devices, counter, table, account, truth>>
  BY DEF GainAddress, LoseAddress
<1>3. addressed' \subseteq addressed \cup MayGainAddress
  BY DEF GainAddress, LoseAddress
<1>4. TableIsPrefix(m)'
  BY <1>2, <1>3 DEF Boards, TableIsPrefix, Leads, num_ifaces, table
<1>5. MovesForward'
  BY <1>2 DEF Boards, MovesForward, truth
<1>6. ReadingsAgree' /\ Measured' /\ TodayIsTraffic'
  BY <1>2, Quiet DEF table, account, truth
<1>7. QED
  BY <1>1, <1>4, <1>5, <1>6 DEF Boards

LEMMA UnregisterBoards ==
  ASSUME NEW m \in 0 .. Len(BootOrder), Boards(m), NEW n \in Name, Unregister(n)
  PROVE  Boards(m)'
<1>1. TypeInv'
  BY UnregisterTypes DEF Boards
<1>2. UNCHANGED <<counter, table, account, truth>> /\ addressed' = addressed \ {n}
  BY DEF Unregister
<1>3. TableIsPrefix(m)'
  BY <1>2 DEF Boards, TableIsPrefix, num_ifaces, table
<1>4. KernelType
  BY DEF Boards, TypeInv
<1>5. /\ DOMAIN devices' = 1 .. Len(devices) - 1 /\ Place(n) \in DOMAIN devices
      /\ \A i \in DOMAIN devices' :
           devices'[i] = IF i < Place(n) THEN devices[i] ELSE devices[i + 1]
      /\ Range(devices') = Range(devices) \ {n}
  BY <1>4, UnregisterIs
<1>6. MovesForward'
  <2>1. SUFFICES ASSUME NEW i \in DOMAIN devices', NEW b \in DOMAIN BootOrder,
                        devices'[i] = BootOrder[b], devices'[i] \notin replugged
                 PROVE  i <= b
    BY <1>2 DEF MovesForward, truth
  <2>2. DOMAIN devices = 1 .. Len(devices) /\ Len(devices) \in Nat
    BY <1>4, PlaceIs
  <2>3. PICK j \in DOMAIN devices : devices'[i] = devices[j] /\ j >= i
    <3>1. CASE i < Place(n)
      BY <1>5, <2>2, <3>1
    <3>2. CASE ~(i < Place(n))
      <4>1. i + 1 \in DOMAIN devices /\ i + 1 >= i
        BY <1>5, <2>2
      <4>2. QED
        BY <1>5, <3>2, <4>1
    <3>3. QED
      BY <3>1, <3>2
  <2>4. j <= b
    BY <2>1, <2>3 DEF Boards, MovesForward
  <2>5. QED
    BY <1>5, <2>2, <2>3, <2>4, Boot
<1>7. ReadingsAgree' /\ Measured' /\ TodayIsTraffic'
  BY <1>2, <1>5, Quiet DEF table, account, truth
<1>8. QED
  BY <1>1, <1>3, <1>6, <1>7 DEF Boards

LEMMA RegisterBoards ==
  ASSUME NEW m \in 0 .. Len(BootOrder), Leads(m), Boards(m), NEW n \in Name, Register(n)
  PROVE  Boards(m)'
<1>1. TypeInv'
  BY RegisterTypes DEF Boards
<1>2. /\ UNCHANGED <<table, account, from, long_sum>>
      /\ addressed' = addressed \cup {n} /\ replugged' = replugged \cup {n}
      /\ counter' = [counter EXCEPT ![n] = 0] /\ n \in Removable
      /\ moved' = [moved EXCEPT ![n] = 0] /\ seen' = [seen EXCEPT ![n] = 0]
  BY DEF Register
<1>3. TableIsPrefix(m)'
  BY <1>2 DEF Boards, TableIsPrefix, Leads, num_ifaces, table
<1>4. KernelType
  BY DEF Boards, TypeInv
<1>5. /\ DOMAIN devices' = 1 .. Len(devices) + 1
      /\ \A i \in DOMAIN devices : devices'[i] = devices[i]
      /\ devices'[Len(devices) + 1] = n
      /\ Range(devices') = Range(devices) \cup {n}
  BY <1>4, RegisterIs
<1>6. MovesForward'
  <2>1. SUFFICES ASSUME NEW i \in DOMAIN devices', NEW b \in DOMAIN BootOrder,
                        devices'[i] = BootOrder[b], devices'[i] \notin replugged'
                 PROVE  i <= b
    BY DEF MovesForward
  <2>2. i # Len(devices) + 1
    BY <1>2, <1>5, <2>1
  <2>3. i \in DOMAIN devices
    BY <1>4, <1>5, <2>2, PlaceIs
  <2>4. QED
    BY <1>2, <1>5, <2>1, <2>3 DEF Boards, MovesForward
<1>7. \A x \in Range(devices') \ replugged' : x \in Range(devices) /\ counter'[x] = counter[x]
  <2>1. counter \in [Name -> Word] /\ Range(devices) \subseteq Name
    BY <1>4, RangeOfSeq DEF KernelType
  <2>2. QED
    BY <1>2, <1>5, <2>1
<1>8. ReadingsAgree' /\ Measured' /\ TodayIsTraffic'
  <2>1. \A x \in Name \ replugged' : moved'[x] = moved[x] /\ seen'[x] = seen[x]
    BY <1>2 DEF Boards, TypeInv, TruthType
  <2>2. UNCHANGED <<ifaces, prev_stats, prev_valid, today, from>> /\ replugged \subseteq replugged'
    BY <1>2 DEF table, account
  <2>3. QED
    BY <1>7, <2>1, <2>2, Quiet
<1>9. QED
  BY <1>1, <1>3, <1>6, <1>8 DEF Boards

\* What a tick reads of a device, and that a difference can be taken for it.
LEMMA ReadOf ==
  ASSUME NEW m \in 0 .. Len(BootOrder), Boards(m), NEW d \in Traffic, NEW readable \in BOOLEAN,
         NEW b \in Slot \cap DOMAIN BootOrder, BootOrder[b] \notin replugged
  PROVE  IF readable /\ BootOrder[b] \in Range(devices)
         THEN LET p == Place(BootOrder[b])
              IN  /\ p \in 1 .. b /\ p \in DOMAIN Cur(d, readable)
                  /\ devices[p] = BootOrder[b]
                  /\ Cur(d, readable)[p] = [name  |-> BootOrder[b],
                                            bytes |-> Received(d)[BootOrder[b]]]
                  /\ \A i \in 1 .. p - 1 : i \in DOMAIN Cur(d, readable) /\ i \in Slot
                                           /\ Cur(d, readable)[i].name # BootOrder[b]
         ELSE \A i \in DOMAIN Cur(d, readable) : Cur(d, readable)[i].name # BootOrder[b]
<1> DEFINE n == BootOrder[b]  cur == Cur(d, readable)  p == Place(n)
<1>1. KernelType
  BY DEF Boards, TypeInv
<1>2. /\ DOMAIN cur = IF readable THEN 1 .. Listed ELSE {}
      /\ \A i \in DOMAIN cur :
           /\ i \in Slot /\ i \in DOMAIN devices
           /\ cur[i] = [name |-> devices[i], bytes |-> Received(d)[devices[i]]]
  BY <1>1, CurIs
<1>3. \A i \in DOMAIN cur : cur[i].name = devices[i]
  <2>1. SUFFICES ASSUME NEW i \in DOMAIN cur
                 PROVE  cur[i].name = devices[i]
    OBVIOUS
  <2>2. cur[i] = [name |-> devices[i], bytes |-> Received(d)[devices[i]]]
    BY <1>2
  <2>3. QED
    BY <2>2
<1>4. CASE readable /\ n \in Range(devices)
  <2>1. p \in DOMAIN devices /\ devices[p] = n /\ DOMAIN devices = 1 .. Len(devices)
    BY <1>1, <1>4, PlaceIs
  <2>2. p <= b
    BY <2>1 DEF Boards, MovesForward
  <2>3. p \in 1 .. b
    BY <2>1, <2>2, Boot
  <2>4. p \in 1 .. Listed
    <3>1. /\ Listed \in Nat /\ (Listed = MaxInterfaces \/ Listed = Len(devices))
          /\ Len(devices) \in Nat
      BY <1>1, ListedIs DEF KernelType
    <3>2. b <= MaxInterfaces /\ b \in Nat
      BY Boot, Constants
    <3>3. QED
      BY <2>1, <2>3, <3>1, <3>2, Constants
  <2>5. p \in DOMAIN cur
    BY <1>2, <1>4, <2>4
  <2>6. cur[p] = [name |-> n, bytes |-> Received(d)[n]]
    BY <1>2, <2>1, <2>5
  <2>7. ASSUME NEW i \in 1 .. p - 1
        PROVE  i \in DOMAIN cur /\ i \in Slot /\ cur[i].name # n
    <3>1. i \in 1 .. Listed /\ i # p
      BY <2>1, <2>4, <1>1, ListedIs DEF KernelType
    <3>2. i \in DOMAIN cur
      BY <1>2, <1>4, <3>1
    <3>3. i \in Slot /\ i \in DOMAIN devices /\ cur[i].name = devices[i]
      BY <1>2, <1>3, <3>2
    <3>4. devices[i] # devices[p]
      BY <1>1, <2>1, <3>1, <3>3 DEF KernelType, IsInjective
    <3>5. QED
      BY <2>1, <3>2, <3>3, <3>4
  <2>8. QED
    BY <1>4, <2>1, <2>3, <2>5, <2>6, <2>7
<1>5. CASE ~(readable /\ n \in Range(devices))
  <2>1. ASSUME NEW i \in DOMAIN cur
        PROVE  cur[i].name # n
    <3>1. readable /\ i \in DOMAIN devices
      BY <1>2, <2>1
    <3>2. devices[i] \in Range(devices)
      BY <3>1 DEF Range
    <3>3. QED
      BY <1>3, <1>5, <2>1, <3>1, <3>2
  <2>2. QED
    BY <1>5, <2>1
<1>6. QED
  BY <1>4, <1>5

\* A reading that succeeds starts again from zero; one that fails leaves
\* counter and truth to move on together.
LEMMA FastReadings ==
  ASSUME NEW m \in 0 .. Len(BootOrder), Boards(m), NEW d \in Traffic, NEW readable \in BOOLEAN, NEW dt \in Gaps,
         fast_timer_cb(d, readable, dt)
  PROVE  ReadingsAgree'
<1> DEFINE cur == Cur(d, readable)
<1>s. SUFFICES ASSUME NEW b \in Slot \cap DOMAIN BootOrder,
                      BootOrder[b] \in Range(devices) \ replugged
               PROVE  \E j \in 1 .. b :
                        /\ FirstRead(BootOrder[b], j)'
                        /\ (counter'[BootOrder[b]] - prev_stats'[j].bytes) % CounterMod
                             = (moved'[BootOrder[b]] - seen'[BootOrder[b]]) % CounterMod
  <2>1. UNCHANGED <<devices, replugged>>
    BY FastRest
  <2>2. QED
    BY <2>1 DEF ReadingsAgree, FirstRead
<1> DEFINE n == BootOrder[b]
<1>1. n \in Name /\ n \in Range(devices) /\ n \notin replugged
  BY <1>s, Boot
<1>2. /\ counter' = Received(d)
      /\ prev_stats' = [j \in Slot |-> IF j \in DOMAIN cur THEN cur[j] ELSE prev_stats[j]]
      /\ moved' = [x \in Name |-> (moved[x] + d[x]) % CounterMod]
      /\ seen' = [x \in Name |-> IF \E i \in DOMAIN cur : cur[i].name = x
                                   THEN moved'[x] ELSE seen[x]]
  BY FastIs, FastRest
<1>3. /\ counter[n] \in Int /\ moved[n] \in Int /\ seen[n] \in Int /\ d[n] \in Int
      /\ Received(d)[n] = (counter[n] + d[n]) % CounterMod
      /\ moved'[n] = (moved[n] + d[n]) % CounterMod
      /\ Received(d)[n] \in Int /\ moved'[n] \in Int
  <2>1. counter[n] \in Word /\ moved[n] \in Word /\ seen[n] \in Word
    BY <1>1 DEF Boards, TypeInv, KernelType, TruthType
  <2>2. d[n] \in Word /\ Received(d)[n] = (counter[n] + d[n]) % CounterMod
        /\ Received(d)[n] \in Word
    BY <1>1, ReceivedIs DEF Boards, TypeInv
  <2>3. moved'[n] = (moved[n] + d[n]) % CounterMod
    BY <1>1, <1>2
  <2>4. moved'[n] \in Word
    BY <1>1, FastTypes DEF Boards, TypeInv, TruthType
  <2>5. QED
    BY <2>1, <2>2, <2>3, <2>4 DEF Word
<1>4. CASE readable
  <2>1. PICK p \in 1 .. b :
          /\ p \in DOMAIN cur
          /\ cur[p] = [name |-> n, bytes |-> Received(d)[n]]
          /\ \A i \in 1 .. p - 1 : i \in DOMAIN cur /\ i \in Slot /\ cur[i].name # n
    BY <1>1, <1>4, ReadOf
  <2>2. 1 .. b \subseteq Slot
    BY Boot, Constants
  <2>3. prev_stats'[p] = [name |-> n, bytes |-> Received(d)[n]]
    BY <1>2, <2>1, <2>2
  <2>4. prev_stats'[p].name = n /\ prev_stats'[p].bytes = Received(d)[n]
    BY <2>3
  <2>5. \A i \in 1 .. p - 1 : prev_stats'[i].name # n
    <3>1. SUFFICES ASSUME NEW i \in 1 .. p - 1
                   PROVE  prev_stats'[i].name # n
      OBVIOUS
    <3>2. prev_stats'[i] = cur[i]
      BY <1>2, <2>1
    <3>3. QED
      BY <2>1, <3>2
  <2>6. FirstRead(n, p)'
    BY <2>4, <2>5 DEF FirstRead
  <2>7. seen'[n] = moved'[n]
    <3>1. cur[p].name = n
      BY <2>1
    <3>2. QED
      BY <1>1, <1>2, <2>1, <3>1
  <2>8. /\ counter'[n] - prev_stats'[p].bytes = 0
        /\ moved'[n] - seen'[n] = 0
    BY <1>2, <1>3, <2>4, <2>7
  <2>9. QED
    BY <2>1, <2>6, <2>8
<1>5. CASE ~readable
  <2>1. \A i \in DOMAIN cur : cur[i].name # n
    BY <1>1, <1>5, ReadOf
  <2>2. DOMAIN cur = {}
    BY <1>5, CurIs DEF Boards, TypeInv
  <2>3. seen'[n] = seen[n]
    BY <1>1, <1>2, <2>1
  <2>4. prev_stats' = prev_stats
    BY <1>2, <2>2 DEF Boards, TypeInv, AccountType
  <2>5. PICK j \in 1 .. b :
          /\ FirstRead(n, j)
          /\ (counter[n] - prev_stats[j].bytes) % CounterMod
               = (moved[n] - seen[n]) % CounterMod
    BY <1>s DEF Boards, ReadingsAgree
  <2>6. FirstRead(n, j)'
    BY <2>4, <2>5 DEF FirstRead
  <2>7. prev_stats[j].bytes \in Int
    <3>1. j \in Slot
      BY Boot, Constants
    <3>2. prev_stats[j] \in Reading
      BY <3>1 DEF Boards, TypeInv, AccountType
    <3>3. prev_stats[j].bytes \in Word
      BY <3>2 DEF Reading
    <3>4. QED
      BY <3>3 DEF Word
  <2> DEFINE c == counter[n]  y == prev_stats[j].bytes  e == moved[n]  f == seen[n]  g == d[n]
  <2>8. (((c + g) % CounterMod) - y) % CounterMod = (((e + g) % CounterMod) - f) % CounterMod
    <3>1. c \in Int /\ y \in Int /\ e \in Int /\ f \in Int /\ g \in Int
      BY <1>3, <2>7
    <3>2. (c - y) % CounterMod = (e - f) % CounterMod
      BY <2>5
    <3> HIDE DEF c, y, e, f, g
    <3>3. Moves(c, y, g) /\ Moves(e, f, g)
      BY <3>1, DifferencesAdd
    <3>4. QED
      BY <3>2, <3>3 DEF Moves
  <2>9. (counter'[n] - prev_stats'[j].bytes) % CounterMod = (moved'[n] - seen'[n]) % CounterMod
    BY <1>2, <1>3, <2>3, <2>4, <2>8
  <2>10. QED
    BY <2>6, <2>9
<1>6. QED
  BY <1>4, <1>5

LEMMA FastMeasured ==
  ASSUME NEW m \in 0 .. Len(BootOrder), Boards(m), NEW d \in Traffic, NEW readable \in BOOLEAN, NEW dt \in Gaps,
         fast_timer_cb(d, readable, dt)
  PROVE  Measured'
<1> DEFINE fresh == Fresh(Cur(d, readable))
<1>s. SUFFICES ASSUME NEW k \in Slot
               PROVE  /\ from'[k] = Never => today'[k] = 0
                      /\ from'[k] # Never => prev_valid' /\ k <= num_ifaces'
  BY DEF Measured
<1>1. /\ from'[k] = IF from[k] = Never /\ prev_valid /\ k <= num_ifaces
                      THEN seen[ifaces[k]] ELSE from[k]
      /\ prev_valid' = TRUE /\ UNCHANGED ifaces
  BY FastRest
<1>2. /\ from[k] = Never => today[k] = 0
      /\ from[k] # Never => prev_valid /\ k <= num_ifaces
  BY DEF Boards, Measured
<1>3. k \notin fresh => today'[k] = today[k]
  BY FastIs
<1>4. k \in fresh => prev_valid /\ k <= num_ifaces
  <2>1. k \in fresh => prev_valid /\ k \in 1 .. num_ifaces
    BY FreshIs DEF Boards
  <2>2. num_ifaces \in Nat
    BY DEF Boards, TypeInv, TableType, num_ifaces
  <2> HIDE DEF fresh
  <2>3. QED
    BY <2>1, <2>2
<1>5. k <= num_ifaces => seen[ifaces[k]] # Never
  <2>1. k <= num_ifaces => ifaces[k] \in Name
    BY Constants DEF Boards, TypeInv, TableType, num_ifaces
  <2>2. k <= num_ifaces => seen[ifaces[k]] \in Word
    BY <2>1 DEF Boards, TypeInv, TruthType
  <2>3. QED
    BY <2>2, Constants
<1>6. num_ifaces' = num_ifaces
  BY <1>1 DEF num_ifaces
<1> HIDE DEF fresh
<1>7. QED
  BY <1>1, <1>2, <1>3, <1>4, <1>5, <1>6

\* Whichever reading the tick makes, what it adds to the total is what the
\* device received since the last reading that succeeded.
LEMMA FastTraffic ==
  ASSUME NEW m \in 0 .. Len(BootOrder), Boards(m), NEW d \in Traffic, NEW readable \in BOOLEAN, NEW dt \in Gaps,
         fast_timer_cb(d, readable, dt)
  PROVE  TodayIsTraffic'
<1> DEFINE cur == Cur(d, readable)  fresh == Fresh(cur)
<1>s. SUFFICES ASSUME NEW k \in 1 .. num_ifaces, from'[k] # Never, ifaces[k] \notin replugged
               PROVE  today'[k] = (seen'[ifaces[k]] - from'[k]) % CounterMod
  BY FastRest DEF TodayIsTraffic, num_ifaces
<1> DEFINE n == ifaces[k]
<1>1. /\ k \in Slot /\ k \in DOMAIN BootOrder /\ n = BootOrder[k] /\ n \in Name
      /\ num_ifaces \in Nat /\ num_ifaces <= Len(BootOrder) /\ num_ifaces <= MaxInterfaces
  <2>1. num_ifaces \in Nat /\ num_ifaces <= Len(BootOrder) /\ num_ifaces <= MaxInterfaces
    BY DEF Boards, TypeInv, TableType, TableIsPrefix, num_ifaces
  <2>2. k \in Slot /\ k \in DOMAIN BootOrder
    BY <2>1, Boot, Constants
  <2>3. n = BootOrder[k]
    BY DEF Boards, TableIsPrefix
  <2>4. QED
    BY <2>1, <2>2, <2>3, Boot
<1>2. /\ from'[k] = IF from[k] = Never /\ prev_valid /\ k <= num_ifaces
                      THEN seen[n] ELSE from[k]
      /\ moved' = [x \in Name |-> (moved[x] + d[x]) % CounterMod]
      /\ seen' = [x \in Name |-> IF \E i \in DOMAIN cur : cur[i].name = x
                                   THEN moved'[x] ELSE seen[x]]
  BY <1>1, FastRest
<1>3. /\ counter[n] \in Int /\ moved[n] \in Int /\ seen[n] \in Int /\ seen[n] \in Word
      /\ moved'[n] \in Int /\ Received(d)[n] = (counter[n] + d[n]) % CounterMod
      /\ moved'[n] = (moved[n] + d[n]) % CounterMod /\ d[n] \in Int
  <2>1. counter[n] \in Word /\ moved[n] \in Word /\ seen[n] \in Word
    BY <1>1 DEF Boards, TypeInv, KernelType, TruthType
  <2>2. d[n] \in Word /\ Received(d)[n] = (counter[n] + d[n]) % CounterMod
    BY <1>1, ReceivedIs DEF Boards, TypeInv
  <2>3. moved'[n] = (moved[n] + d[n]) % CounterMod
    BY <1>1, <1>2
  <2>4. moved'[n] \in Word
    BY <1>1, FastTypes DEF Boards, TypeInv, TruthType
  <2>5. QED
    BY <2>1, <2>2, <2>3, <2>4 DEF Word
<1>4. /\ prev_valid /\ from'[k] \in Int
      /\ today[k] = (seen[n] - from'[k]) % CounterMod
  <2>1. k <= num_ifaces
    BY <1>1
  <2>2. CASE from[k] = Never
    <3>1. prev_valid
      BY <1>s, <1>2, <2>2
    <3>2. from'[k] = seen[n]
      BY <1>2, <2>1, <2>2, <3>1
    <3>3. today[k] = 0
      BY <1>1, <2>2 DEF Boards, Measured
    <3>4. seen[n] - from'[k] = 0
      BY <1>3, <3>2
    <3>5. 0 % CounterMod = 0
      BY Constants
    <3>6. QED
      BY <1>3, <3>1, <3>2, <3>3, <3>4, <3>5
  <2>3. CASE from[k] # Never
    <3>1. prev_valid
      BY <1>1, <2>3 DEF Boards, Measured
    <3>2. from'[k] = from[k]
      BY <1>2, <2>3
    <3>3. from[k] \in Word
      BY <1>1, <2>3 DEF Boards, TypeInv, TruthType
    <3>4. from[k] \in Int
      BY <3>3 DEF Word
    <3>5. today[k] = (seen[n] - from[k]) % CounterMod
      BY <1>s, <2>3 DEF Boards, TodayIsTraffic
    <3>6. QED
      BY <3>1, <3>2, <3>4, <3>5
  <2>4. QED
    BY <2>2, <2>3
<1>5. today'[k] = IF k \in fresh THEN (today[k] + Got(d, k)) % CounterMod ELSE today[k]
  BY <1>1, FastIs
<1>6. CASE readable /\ n \in Range(devices)
  <2>1. PICK p \in DOMAIN cur : cur[p] = [name |-> n, bytes |-> Received(d)[n]]
    BY <1>s, <1>1, <1>6, ReadOf
  <2>2. cur[p].name = n
    BY <2>1
  <2>3. seen'[n] = moved'[n]
    BY <1>1, <1>2, <2>2
  <2>4. RowOf(n) = k
    <3>1. RowOf(n) \in 1 .. num_ifaces /\ ifaces[RowOf(n)] = n
      BY RowIs DEF Boards, TypeInv, TableType
    <3>2. BootOrder[RowOf(n)] = BootOrder[k]
      BY <1>1, <3>1 DEF Boards, TableIsPrefix
    <3>3. RowOf(n) \in DOMAIN BootOrder
      BY <1>1, <3>1, Boot
    <3>4. QED
      BY <1>1, <3>2, <3>3, Boot
  <2>5. PICK j \in 1 .. k :
          /\ FirstRead(n, j)
          /\ (counter[n] - prev_stats[j].bytes) % CounterMod
               = (moved[n] - seen[n]) % CounterMod
    BY <1>s, <1>1, <1>6 DEF Boards, ReadingsAgree
  <2>6. j \in 1 .. num_ifaces /\ j \in Slot
    BY <1>1, Constants
  <2>7. PrevRowOf(n) = j
    <3>1. prev_stats[j].name = n /\ \A i \in 1 .. j - 1 : prev_stats[i].name # n
      BY <2>5 DEF FirstRead
    <3>2. /\ PrevRowOf(n) \in 1 .. num_ifaces /\ prev_stats[PrevRowOf(n)].name = n
          /\ PrevRowOf(n) <= j
      BY <2>6, <3>1, PrevRowIs DEF Boards, TypeInv
    <3>3. PrevRowOf(n) \notin 1 .. j - 1
      BY <3>1, <3>2
    <3>4. QED
      BY <1>1, <2>6, <3>2, <3>3
  <2>8. k \in fresh
    <3>1. RowOf(cur[p].name) = k
      BY <2>2, <2>4
    <3>2. PrevRowOf(ifaces[k]) # 0
      BY <1>1, <2>6, <2>7
    <3>3. QED
      BY <1>4, <2>1, <3>1, <3>2 DEF Fresh
  <2> DEFINE c == counter[n]  y == prev_stats[j].bytes  e == moved[n]  f == seen[n]  g == d[n]
             h == from'[k]  v == moved'[n]
  <2>9. y \in Int
    <3>1. prev_stats[j] \in Reading
      BY <2>6 DEF Boards, TypeInv, AccountType
    <3>2. prev_stats[j].bytes \in Word
      BY <3>1 DEF Reading
    <3>3. QED
      BY <3>2 DEF Word
  <2>10. Got(d, k) = (((c + g) % CounterMod) - y) % CounterMod
    BY <1>3, <2>7 DEF Got, Delta
  <2>11. (c - y) % CounterMod = (e - f) % CounterMod
    BY <2>5
  <2>12. v = (e + g) % CounterMod
    BY <1>3
  <2>13. c \in Int /\ y \in Int /\ e \in Int /\ f \in Int /\ g \in Int /\ h \in Int /\ v \in Int
    BY <1>3, <1>4, <2>9
  <2>14. today'[k] = (((f - h) % CounterMod) + Got(d, k)) % CounterMod
    BY <1>4, <1>5, <2>8
  <2>15. seen'[n] - from'[k] = v - h
    BY <2>3
  <2> HIDE DEF c, y, e, f, g, h, v
  <2>16. Moves(c, y, g) /\ Moves(e, f, g) /\ Steps(v, f, h)
    BY <2>13, DifferencesAdd
  <2>17. Got(d, k) = (v - f) % CounterMod
    BY <2>10, <2>11, <2>12, <2>16 DEF Moves
  <2>18. (((f - h) % CounterMod) + ((v - f) % CounterMod)) % CounterMod = (v - h) % CounterMod
    BY <2>16 DEF Steps
  <2>19. QED
    BY <2>14, <2>15, <2>17, <2>18
<1>7. CASE ~(readable /\ n \in Range(devices))
  <2>1. \A i \in DOMAIN cur : cur[i].name # n
    BY <1>s, <1>1, <1>7, ReadOf
  <2>2. seen'[n] = seen[n]
    BY <1>1, <1>2, <2>1
  <2>3. k \notin fresh
    <3>1. SUFFICES ASSUME k \in fresh
                   PROVE  FALSE
      OBVIOUS
    <3>2. PICK i \in DOMAIN cur : RowOf(cur[i].name) = k
      BY <3>1 DEF Fresh
    <3>3. ifaces[k] = cur[i].name
      BY <1>1, <3>2, RowIs DEF Boards, TypeInv, TableType
    <3>4. QED
      BY <2>1, <3>3
  <2>4. QED
    BY <1>4, <1>5, <2>2, <2>3
<1>8. QED
  BY <1>6, <1>7

LEMMA FastBoards ==
  ASSUME NEW m \in 0 .. Len(BootOrder), Boards(m), NEW d \in Traffic, NEW readable \in BOOLEAN, NEW dt \in Gaps,
         fast_timer_cb(d, readable, dt)
  PROVE  Boards(m)'
<1>1. TypeInv'
  BY FastTypes DEF Boards
<1>2. UNCHANGED <<devices, addressed, ifaces, replugged>>
  BY FastRest
<1>3. TableIsPrefix(m)' /\ MovesForward'
  BY <1>2 DEF Boards, TableIsPrefix, MovesForward, num_ifaces
<1>4. ReadingsAgree' /\ Measured' /\ TodayIsTraffic'
  BY FastReadings, FastMeasured, FastTraffic
<1>5. QED
  BY <1>1, <1>3, <1>4 DEF Boards

LEMMA NextBoards ==
  ASSUME NEW m \in 0 .. Len(BootOrder), Leads(m), Boards(m), [Next]_vars
  PROVE  Boards(m)'
<1>1. CASE UNCHANGED vars
  BY <1>1 DEF vars, kernel, table, account, truth, Boards, TypeInv, KernelType, TableType,
              num_ifaces, AccountType, TruthType, TableIsPrefix, MovesForward, ReadingsAgree,
              FirstRead, Measured, TodayIsTraffic
<1>2. CASE Next
  BY <1>2, FastBoards, SlowBoards, AddressBoards, UnregisterBoards, RegisterBoards DEF Next
<1>3. QED
  BY <1>1, <1>2

\* The total for the day is what the interface received: no second is lost
\* or counted twice, whatever seconds cannot be read, whichever addresses
\* come late and however often the counter wraps.
THEOREM TotalsAreTraffic ==
  ASSUME OneAddressAtBoot, AddressedFirst
  PROVE  Spec => []TodayIsTraffic
<1>1. PICK m \in 0 .. Len(BootOrder) : Leads(m)
  BY DEF AddressedFirst
<1>2. net_collector_init => Boards(m)
  BY <1>1, InitBoards
<1>3. Boards(m) /\ [Next]_vars => Boards(m)'
  BY <1>1, NextBoards
<1>4. Boards(m) => TodayIsTraffic
  BY DEF Boards
<1>5. QED
  BY <1>2, <1>3, <1>4, PTL DEF Spec

-----------------------------------------------------------------------------
(***************************************************************************)
(* The circular buffer (ring_buffer.c), for every capacity.                *)
(***************************************************************************)

\* Wrap-around without division: the successor of a slot.
LEMMA NextSlotIs ==
  ASSUME NEW s \in RingSlot
  PROVE  NextSlot(s) = IF s = Capacity - 1 THEN 0 ELSE s + 1
<1>1. CASE s = Capacity - 1
  BY <1>1, CapacityAssumption DEF NextSlot, RingSlot
<1>2. CASE s # Capacity - 1
  BY <1>2, CapacityAssumption DEF NextSlot, RingSlot
<1>3. QED
  BY <1>1, <1>2

\* Wrap-around without division: where the reader's arithmetic lands for the
\* value at index k of a buffer with head h and count c.
LEMMA ReadSlotIs ==
  ASSUME NEW h \in RingSlot, NEW c \in 0 .. Capacity, NEW k \in 0 .. c - 1
  PROVE  (((h - c + Capacity) % Capacity) + k) % Capacity
           = IF h - c + k < 0 THEN h - c + k + Capacity ELSE h - c + k
<1> USE CapacityAssumption DEF RingSlot
<1>1. CASE h = c
  BY <1>1
<1>2. CASE h > c
  <2>1. (h - c + Capacity) % Capacity = h - c
    BY <1>2
  <2>2. QED
    BY <1>2, <2>1
<1>3. CASE h < c
  <2>1. (h - c + Capacity) % Capacity = h - c + Capacity
    BY <1>3
  <2>2. QED
    BY <1>3, <2>1
<1>4. QED
  BY <1>1, <1>2, <1>3

\* Where a reader finds the value at an index, without division.
LEMMA GetIs ==
  ASSUME NEW r \in Ring, NEW k \in 0 .. r.count - 1
  PROVE  Get(r, k) = r.data[IF r.head - r.count + k < 0
                              THEN r.head - r.count + k + Capacity
                              ELSE r.head - r.count + k]
<1>1. r.head \in RingSlot /\ r.count \in 0 .. Capacity
  BY DEF Ring
<1>2. (((r.head - r.count + Capacity) % Capacity) + k) % Capacity
        = IF r.head - r.count + k < 0
            THEN r.head - r.count + k + Capacity
            ELSE r.head - r.count + k
  BY <1>1, ReadSlotIs
<1>3. ~(k < 0 \/ k >= r.count)
  BY <1>1
<1>4. QED
  BY <1>2, <1>3 DEF Get, Oldest

\* A read inside the buffer returns a value that was stored.
LEMMA GetType ==
  ASSUME NEW r \in Ring, NEW k \in 0 .. r.count - 1
  PROVE  Get(r, k) \in Value
<1> DEFINE j == IF r.head - r.count + k < 0
                  THEN r.head - r.count + k + Capacity
                  ELSE r.head - r.count + k
<1>1. j \in RingSlot
  BY CapacityAssumption DEF Ring, RingSlot
<1>2. Get(r, k) = r.data[j]
  BY GetIs
<1>3. QED
  <2> HIDE DEF j
  <2> QED BY <1>1, <1>2 DEF Ring

\* The buffer's fields keep their ranges.
THEOREM RingTypeHolds == RingSpec => []RingTypeOK
<1> USE CapacityAssumption DEF RingTypeOK
<1>1. ring_buffer_init => RingTypeOK
  BY DEF ring_buffer_init, Ring, RingSlot
<1>2. RingTypeOK /\ [RingNext]_rb => RingTypeOK'
  <2> SUFFICES ASSUME RingTypeOK, [RingNext]_rb
               PROVE  RingTypeOK'
    OBVIOUS
  <2>1. ASSUME NEW v \in Value, ring_buffer_push(v)
        PROVE  RingTypeOK'
    <3>1. NextSlot(rb.head) \in RingSlot
      BY NextSlotIs DEF Ring, RingSlot
    <3>2. QED
      BY <2>1, <3>1 DEF ring_buffer_push, Pushed, Ring, RingSlot
  <2>2. CASE ring_buffer_clear
    BY <2>2 DEF ring_buffer_clear, Cleared, Ring, RingSlot
  <2>3. CASE UNCHANGED rb
    BY <2>3
  <2>4. QED
    BY <2>1, <2>2, <2>3 DEF RingNext
<1>3. QED
  BY <1>1, <1>2, PTL DEF RingSpec

\* A push into a buffer that is not full appends to what readers see.
LEMMA PushAppends ==
  ASSUME NEW r \in Ring, NEW v \in Value, r.count < Capacity
  PROVE  Contents(Pushed(r, v)) = Append(Contents(r), v)
<1> DEFINE p == Pushed(r, v)
<1> USE CapacityAssumption
<1>1. /\ p \in Ring
      /\ p.count = r.count + 1
      /\ p.head = IF r.head = Capacity - 1 THEN 0 ELSE r.head + 1
      /\ p.data = [r.data EXCEPT ![r.head] = v]
  BY NextSlotIs DEF Pushed, Ring, RingSlot
<1> HIDE DEF p
<1>2. ASSUME NEW k \in 1 .. r.count + 1
      PROVE  Get(p, k - 1) = IF k = r.count + 1 THEN v ELSE Get(r, k - 1)
  <2>1. k - 1 \in 0 .. p.count - 1
    BY <1>1 DEF Ring
  <2>2. Get(p, k - 1) = p.data[IF p.head - p.count + (k - 1) < 0
                                 THEN p.head - p.count + (k - 1) + Capacity
                                 ELSE p.head - p.count + (k - 1)]
    BY <1>1, <2>1, GetIs
  <2>3. CASE k = r.count + 1
    BY <1>1, <2>2, <2>3 DEF Ring, RingSlot
  <2>4. CASE k # r.count + 1
    <3>1. k - 1 \in 0 .. r.count - 1
      BY <2>4 DEF Ring
    <3>2. Get(r, k - 1) = r.data[IF r.head - r.count + (k - 1) < 0
                                   THEN r.head - r.count + (k - 1) + Capacity
                                   ELSE r.head - r.count + (k - 1)]
      BY <3>1, GetIs
    <3> DEFINE j == IF r.head - r.count + (k - 1) < 0
                      THEN r.head - r.count + (k - 1) + Capacity
                      ELSE r.head - r.count + (k - 1)
    <3>3. j = IF p.head - p.count + (k - 1) < 0
                THEN p.head - p.count + (k - 1) + Capacity
                ELSE p.head - p.count + (k - 1)
      <4>1. r.head \in 0 .. Capacity - 1 /\ r.count \in 0 .. Capacity - 1 /\ k \in 1 .. r.count
        BY <3>1 DEF Ring, RingSlot
      <4>2. CASE r.head = Capacity - 1
        BY <1>1, <4>1, <4>2
      <4>3. CASE r.head # Capacity - 1
        BY <1>1, <4>1, <4>3
      <4>4. QED
        BY <4>2, <4>3
    <3>4. j \in RingSlot /\ j # r.head
      BY <3>1 DEF Ring, RingSlot
    <3>5. p.data[j] = r.data[j]
      <4> HIDE DEF j
      <4> QED BY <1>1, <3>4 DEF Ring
    <3>6. QED
      BY <2>2, <2>4, <3>2, <3>3, <3>5
  <2>5. QED
    BY <2>3, <2>4
<1>3. QED
  BY <1>1, <1>2 DEF Contents, Ring, p

\* A push into a full buffer drops the oldest value that readers see.
LEMMA PushShifts ==
  ASSUME NEW r \in Ring, NEW v \in Value, r.count = Capacity
  PROVE  Contents(Pushed(r, v)) = Append(Tail(Contents(r)), v)
<1> DEFINE p == Pushed(r, v)
<1> USE CapacityAssumption
<1>1. /\ p \in Ring
      /\ p.count = Capacity
      /\ p.head = IF r.head = Capacity - 1 THEN 0 ELSE r.head + 1
      /\ p.data = [r.data EXCEPT ![r.head] = v]
  BY NextSlotIs DEF Pushed, Ring, RingSlot
<1> HIDE DEF p
<1>2. ASSUME NEW k \in 1 .. Capacity
      PROVE  Get(p, k - 1) = IF k = Capacity THEN v ELSE Get(r, k)
  <2>1. k - 1 \in 0 .. p.count - 1
    BY <1>1 DEF Ring
  <2>2. Get(p, k - 1) = p.data[IF p.head - p.count + (k - 1) < 0
                                 THEN p.head - p.count + (k - 1) + Capacity
                                 ELSE p.head - p.count + (k - 1)]
    BY <1>1, <2>1, GetIs
  <2>3. CASE k = Capacity
    BY <1>1, <2>2, <2>3 DEF Ring, RingSlot
  <2>4. CASE k # Capacity
    <3>1. k \in 0 .. r.count - 1
      BY <2>4 DEF Ring
    <3>2. Get(r, k) = r.data[IF r.head - r.count + k < 0
                               THEN r.head - r.count + k + Capacity
                               ELSE r.head - r.count + k]
      BY <3>1, GetIs
    <3> DEFINE j == IF r.head - r.count + k < 0
                      THEN r.head - r.count + k + Capacity
                      ELSE r.head - r.count + k
    <3>3. r.head \in 0 .. Capacity - 1 /\ p.count = Capacity /\ k \in 1 .. Capacity - 1
      BY <1>1, <2>4 DEF Ring, RingSlot
    <3>4. j = IF p.head - p.count + (k - 1) < 0
                THEN p.head - p.count + (k - 1) + Capacity
                ELSE p.head - p.count + (k - 1)
      BY <1>1, <3>3
    <3>5. j \in RingSlot /\ j # r.head
      BY <3>3 DEF RingSlot
    <3>6. p.data[j] = r.data[j]
      <4> HIDE DEF j
      <4> QED BY <1>1, <3>5 DEF Ring
    <3>7. QED
      BY <2>2, <2>4, <3>2, <3>4, <3>6
  <2>5. QED
    BY <2>3, <2>4
<1>3. Contents(r) \in Seq(Value) /\ Len(Contents(r)) = Capacity
  <2>1. ASSUME NEW k \in 1 .. Capacity
        PROVE  Get(r, k - 1) \in Value
    <3>1. k - 1 \in 0 .. r.count - 1
      OBVIOUS
    <3>2. QED
      BY <3>1, GetType
  <2>2. QED
    BY <2>1 DEF Contents, Ring
<1>4. ASSUME NEW k \in 1 .. Capacity - 1
      PROVE  Contents(r)[k + 1] = Get(r, k)
  BY DEF Contents, Ring
<1>5. /\ Tail(Contents(r)) \in Seq(Value)
      /\ Len(Tail(Contents(r))) = Capacity - 1
      /\ \A k \in 1 .. Capacity - 1 : Tail(Contents(r))[k] = Get(r, k)
  <2> HIDE DEF Contents
  <2> QED BY <1>3, <1>4
<1> DEFINE t == Tail(Contents(r))
<1> HIDE DEF t
<1>6. ASSUME NEW k \in 1 .. Capacity
      PROVE  Get(p, k - 1) = IF k = Capacity THEN v ELSE t[k]
  BY <1>2, <1>5 DEF t
<1>7. /\ Contents(p) \in Seq(Value)
      /\ Len(Contents(p)) = Capacity
      /\ \A k \in 1 .. Capacity : Contents(p)[k] = Get(p, k - 1)
  <2>1. ASSUME NEW k \in 1 .. Capacity
        PROVE  Get(p, k - 1) \in Value
    <3>1. k - 1 \in 0 .. p.count - 1
      BY <1>1
    <3>2. QED
      BY <1>1, <3>1, GetType
  <2>2. QED
    BY <1>1, <2>1 DEF Contents
<1>8. /\ Append(t, v) \in Seq(Value)
      /\ Len(Append(t, v)) = Capacity
      /\ \A k \in 1 .. Capacity : Append(t, v)[k] = IF k = Capacity THEN v ELSE t[k]
  <2>1. t \in Seq(Value) /\ Len(t) = Capacity - 1
    BY <1>5 DEF t
  <2>2. QED
    BY <2>1, AppendProperties
<1>9. Contents(p) = Append(t, v)
  BY <1>6, <1>7, <1>8, SeqEqual
<1>10. QED
  BY <1>9 DEF p, t

\* The circular buffer implements the bounded log: whatever is pushed, and
\* however often the index wraps, ring_buffer_get walks exactly the most
\* recent Capacity values, oldest first (ring_buffer.c:13-35).
THEOREM RingImplementsLog == RingSpec => ImplementsBoundedLog
<1> USE CapacityAssumption
<1>1. ring_buffer_init => Log!LogInit
  BY DEF ring_buffer_init, Log!LogInit, Contents
<1>2. RingTypeOK /\ [RingNext]_rb => [Log!LogNext]_(Contents(rb))
  <2> SUFFICES ASSUME RingTypeOK, [RingNext]_rb
               PROVE  [Log!LogNext]_(Contents(rb))
    OBVIOUS
  <2>1. ASSUME NEW v \in Value, ring_buffer_push(v)
        PROVE  Log!LogPush(v)
    <3>1. Len(Contents(rb)) = rb.count /\ rb.count \in 0 .. Capacity
      BY DEF Contents, RingTypeOK, Ring
    <3>2. CASE rb.count < Capacity
      BY <2>1, <3>1, <3>2, PushAppends DEF RingTypeOK, ring_buffer_push, Log!LogPush
    <3>3. CASE rb.count = Capacity
      BY <2>1, <3>1, <3>3, PushShifts DEF RingTypeOK, ring_buffer_push, Log!LogPush
    <3>4. QED
      BY <3>1, <3>2, <3>3
  <2>2. CASE ring_buffer_clear
    BY <2>2 DEF ring_buffer_clear, Cleared, Contents, Log!LogNext, Log!LogClear
  <2>3. CASE UNCHANGED rb
    BY <2>3 DEF Contents, Get, Oldest
  <2>4. QED
    BY <2>1, <2>2, <2>3 DEF RingNext, Log!LogNext
<1>3. QED
  BY <1>1, <1>2, RingTypeHolds, PTL DEF RingSpec, ImplementsBoundedLog, Log!LogSpec

\* The short histories are such buffers: what readers of a buffer see after a
\* push is what history_push makes of what they saw before it, full or not.
THEOREM HistoriesAreRings ==
  ASSUME Capacity = ShortLen, NEW r \in Ring, NEW v \in Value
  PROVE  Contents(Pushed(r, v)) = history_push(Contents(r), v)
<1>1. Len(Contents(r)) = r.count /\ r.count \in 0 .. Capacity /\ Capacity \in Nat
  BY CapacityAssumption DEF Contents, Ring
<1>2. CASE r.count < Capacity
  BY <1>1, <1>2, PushAppends DEF history_push
<1>3. CASE r.count = Capacity
  BY <1>1, <1>3, PushShifts DEF history_push
<1>4. QED
  BY <1>1, <1>2, <1>3
=============================================================================
