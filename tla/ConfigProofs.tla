---------------------------- MODULE ConfigProofs ----------------------------
(***************************************************************************)
(* Theorems about the configuration, for every size of the table, every    *)
(* set of values and every file that the first start may find.             *)
(***************************************************************************)
EXTENDS Config, FiniteSetTheorems, WellFoundedInduction, TLAPS

\* Every key is as short as the array of an entry.
Stored(t) == \A i \in 1 .. Len(t) : StoredAs[t[i].key] = t[i].key

\* No key twice but the remnants of longer ones.
NoTwins(t) ==
  \A i, j \in 1 .. Len(t) : t[i].key = t[j].key => i = j \/ t[i].key \in Remnants

\* The first line of t that has key k gives it the value v.
Gives(t, k, v) ==
  \E i \in 1 .. Len(t) :
    t[i].key = k /\ t[i].val = v /\ \A j \in 1 .. i - 1 : t[j].key # k

\* The strings of the model, opaque to the provers from here on.
LEMMA Names0 ==
  /\ Ping # Ssid /\ FormKeys = {Ping, Ssid}
  /\ FormKeys \subseteq Keys /\ OtherKeys \subseteq Keys
BY DEF Keys, FormKeys, Ping, Ssid

\* What a table and a file make of keys.
LEMMA KeysAre ==
  /\ \A k \in Keys : StoredAs[k] \in Keys /\ ReadAs[k] \in Keys
  /\ \A k \in Keys : StoredAs[StoredAs[k]] = StoredAs[k]
  /\ \A k \in FormKeys : StoredAs[k] = k
  /\ \A k \in Keys : StoredAs[k] \in FormKeys => StoredAs[k] = k
  /\ \A k \in Keys \ SkippedKeys :
       /\ ReadAs[k] \notin SkippedKeys /\ ReadAs[k] \notin SplitKeys
       /\ ReadAs[ReadAs[k]] = ReadAs[k]
       /\ StoredAs[k] = k => StoredAs[ReadAs[k]] = ReadAs[k]
BY KeyAssumption, Names0 DEF KeyAssumption

\* A set of naturals that is not empty has a least element.
LEMMA LeastExists ==
  ASSUME NEW S \in SUBSET Nat, S # {}
  PROVE  \E x \in S : \A y \in S : x <= y
<1> DEFINE Spans == {0 .. x : x \in S}
           R     == StrictSubsetOrdering(Nat)
<1>1. Spans \subseteq FiniteSubsetsOf(Nat)
  <2>1. \A x \in S : IsFiniteSet(0 .. x) /\ 0 .. x \subseteq Nat
    BY FS_Interval
  <2>2. QED
    BY <2>1 DEF FiniteSubsetsOf
<1>2. PICK T \in Spans : \A U \in Spans : ~(<<U, T>> \in R)
  <2>1. IsWellFoundedOn(R, FiniteSubsetsOf(Nat))
    BY FS_StrictSubsetOrderingWellFounded
  <2>2. Spans # {}
    OBVIOUS
  <2> HIDE DEF Spans, R
  <2>3. QED
    BY <1>1, <2>1, <2>2, WFMin
<1>3. PICK x \in S : T = 0 .. x
  BY <1>2
<1>4. \A y \in S : x <= y
  <2>1. SUFFICES ASSUME NEW y \in S, y < x
                 PROVE  FALSE
    OBVIOUS
  <2>2. 0 .. y \subseteq 0 .. x /\ 0 .. y # 0 .. x
    BY <2>1
  <2>3. <<0 .. y, T>> \in R
    BY <1>3, <2>2 DEF StrictSubsetOrdering
  <2>4. QED
    BY <1>2, <2>3
<1>5. QED
  BY <1>4

\* A value is still one after the file has taken its blanks, and the texts
\* that the screen and a torn line bring are values.
LEMMA ValuesAre ==
  /\ \A v \in Value : trim(v) \in Value /\ trim(trim(v)) = trim(v)
  /\ \A text \in Addresses \cup Names : Plain(text) \in Value
  /\ Plain(Empty) \in Value /\ Plain(Cut) \in Value
  /\ Plain(DefaultPing) \in Value /\ Plain(DefaultSsid) \in Value
  /\ \A v \in Value : InEditor(v) \in Value
  /\ trim(Plain(Cut)) = Plain(Cut)
  /\ \A line \in Entry : ReadValue(line) \in Value
<1>1. \A text \in Addresses \cup Names \cup {Zero, Empty, Cut, Rest} :
        Plain(text) \in Value /\ trim(Plain(text)) = Plain(text)
  BY DEF Value, Plain, trim
<1>2. \A v \in Value : v.text \in Addresses \cup Names \cup {Zero, Empty, Cut, Rest}
  BY DEF Value
<1>3. DefaultPing \in Addresses /\ DefaultSsid \in Names
  BY ConfigAssumption DEF ConfigAssumption
<1>4. \A line \in Entry : line.val \in Value
  BY DEF Entry
<1>5. QED
  BY <1>1, <1>2, <1>3, <1>4 DEF trim, InEditor, ReadValue

\* The entry that gives a key its value is unique.
LEMMA GivesOnce ==
  ASSUME NEW t \in Seq(Entry), NEW k, NEW v, NEW w, Gives(t, k, v), Gives(t, k, w)
  PROVE  v = w
<1>1. PICK i \in 1 .. Len(t) : t[i].key = k /\ t[i].val = v /\ \A n \in 1 .. i - 1 : t[n].key # k
  BY DEF Gives
<1>2. PICK j \in 1 .. Len(t) : t[j].key = k /\ t[j].val = w /\ \A n \in 1 .. j - 1 : t[n].key # k
  BY DEF Gives
<1>3. ~(i < j) /\ ~(j < i)
  BY <1>1, <1>2
<1>4. QED
  BY <1>1, <1>2, <1>3

\* config_find returns the entry that gives a key its value.
LEMMA FindIs ==
  ASSUME NEW t \in Seq(Entry), NEW k, Has(t, k)
  PROVE  /\ config_find(t, k) \in 1 .. Len(t)
         /\ t[config_find(t, k)].key = k
         /\ \A j \in 1 .. config_find(t, k) - 1 : t[j].key # k
         /\ \A v : Gives(t, k, v) <=> t[config_find(t, k)].val = v
<1> DEFINE S == {i \in 1 .. Len(t) : t[i].key = k}
           First(x) == t[x].key = k /\ \A j \in 1 .. x - 1 : t[j].key # k
<1>1. S \in SUBSET Nat /\ S # {}
  BY DEF Has
<1>2. PICK x \in S : \A y \in S : x <= y
  <2> HIDE DEF S
  <2>1. QED
    BY <1>1, LeastExists
<1>3. x \in 1 .. Len(t) /\ First(x)
  <2>1. \A j \in 1 .. x - 1 : j \in 1 .. Len(t) /\ ~(x <= j)
    BY <1>2
  <2>2. QED
    BY <1>2, <2>1
<1>4. config_find(t, k) = CHOOSE y \in 1 .. Len(t) : First(y)
  BY DEF config_find
<1>5. config_find(t, k) \in 1 .. Len(t) /\ First(config_find(t, k))
  <2> HIDE DEF First
  <2>1. QED
    BY <1>3, <1>4
<1>6. Gives(t, k, t[config_find(t, k)].val)
  BY <1>5 DEF Gives
<1>7. QED
  BY <1>5, <1>6, GivesOnce

\* A table that keeps its lines, and gets no other line of a key, gives the
\* key the same value.
LEMMA SameGives ==
  ASSUME NEW t \in Seq(Entry), NEW u \in Seq(Entry), Len(t) <= Len(u), NEW key,
         \A j \in 1 .. Len(t) :
           u[j].key = t[j].key /\ (t[j].key = key => u[j].val = t[j].val),
         \A j \in 1 .. Len(u) : u[j].key = key => j \in 1 .. Len(t)
  PROVE  (\A w : Gives(u, key, w) <=> Gives(t, key, w)) /\ (Has(u, key) <=> Has(t, key))
<1>1. \A j \in 1 .. Len(t) : j \in 1 .. Len(u)
  OBVIOUS
<1>2. Has(u, key) <=> Has(t, key)
  BY <1>1 DEF Has
<1>3. \A n \in 1 .. Len(t) : \A j \in 1 .. n - 1 : j \in 1 .. Len(t)
  OBVIOUS
<1>4. ASSUME NEW w, Gives(u, key, w)
      PROVE  Gives(t, key, w)
  <2>1. PICK i \in 1 .. Len(u) : u[i].key = key /\ u[i].val = w /\ \A j \in 1 .. i - 1 : u[j].key # key
    BY <1>4 DEF Gives
  <2>2. i \in 1 .. Len(t) /\ t[i].key = key /\ t[i].val = w
    BY <2>1
  <2>3. \A j \in 1 .. i - 1 : t[j].key # key
    BY <1>3, <2>1, <2>2
  <2>4. QED
    BY <2>2, <2>3 DEF Gives
<1>5. ASSUME NEW w, Gives(t, key, w)
      PROVE  Gives(u, key, w)
  <2>1. PICK i \in 1 .. Len(t) : t[i].key = key /\ t[i].val = w /\ \A j \in 1 .. i - 1 : t[j].key # key
    BY <1>5 DEF Gives
  <2>2. i \in 1 .. Len(u) /\ u[i].key = key /\ u[i].val = w
    BY <1>1, <2>1
  <2>3. \A j \in 1 .. i - 1 : u[j].key # key
    BY <1>3, <2>1
  <2>4. QED
    BY <2>2, <2>3 DEF Gives
<1>6. QED
  BY <1>2, <1>4, <1>5

\* What the writer of one key does to a table (config_set_str).
LEMMA SetIs ==
  ASSUME NEW t \in Seq(Entry), Stored(t), Len(t) <= MaxEntries,
         NEW k \in Keys, NEW v \in Value
  PROVE  LET u == config_set_str(t, k, v)
         IN  /\ u \in Seq(Entry) /\ Stored(u) /\ Len(u) <= MaxEntries
             /\ Len(u) <= Len(t) + 1
             /\ NoTwins(t) => NoTwins(u)
             /\ \A key, w : key # StoredAs[k] => (Gives(u, key, w) <=> Gives(t, key, w))
             /\ \A key : key # StoredAs[k] => (Has(u, key) <=> Has(t, key))
             /\ \A w : StoredAs[k] = k /\ Gives(u, k, w) => w = v
             /\ StoredAs[k] = k /\ (Has(t, k) \/ Len(t) < MaxEntries) => Gives(u, k, v)
<1> DEFINE u == config_set_str(t, k, v)
<1>s. MaxEntries \in Nat /\ Len(t) \in Nat
  BY ConfigAssumption DEF ConfigAssumption
<1>1. CASE Has(t, k)
  <2> DEFINE i == config_find(t, k)
  <2>1. i \in 1 .. Len(t) /\ t[i].key = k /\ \A j \in 1 .. i - 1 : t[j].key # k
    BY <1>1, FindIs
  <2>2. u = [t EXCEPT ![i].val = v]
    BY <1>1 DEF config_set_str
  <2> HIDE DEF i
  <2>3. \A e \in Entry : [e EXCEPT !.val = v] \in Entry
    BY DEF Entry
  <2>4. u \in Seq(Entry) /\ Len(u) = Len(t)
    BY <2>1, <2>2, <2>3
  <2>5. \A j \in 1 .. Len(t) : /\ u[j].key = t[j].key
                               /\ u[j].val = IF j = i THEN v ELSE t[j].val
    BY <2>1, <2>2 DEF Entry
  <2>k. StoredAs[k] = k
    BY <2>1 DEF Stored
  <2> HIDE DEF u
  <2>6. Stored(u) /\ (NoTwins(t) => NoTwins(u))
    BY <2>4, <2>5 DEF Stored, NoTwins
  <2>7. ASSUME NEW key, key # k
        PROVE  (\A w : Gives(u, key, w) <=> Gives(t, key, w)) /\ (Has(u, key) <=> Has(t, key))
    <3>1. \A j \in 1 .. Len(t) :
            u[j].key = t[j].key /\ (t[j].key = key => u[j].val = t[j].val)
      BY <2>1, <2>5, <2>7
    <3>2. /\ Len(t) <= Len(u)
          /\ \A j \in 1 .. Len(u) : u[j].key = key => j \in 1 .. Len(t)
      BY <1>s, <2>4
    <3>3. QED
      BY <2>4, <3>1, <3>2, SameGives, Zenon
  <2>8. Gives(u, k, v)
    <3>1. i \in 1 .. Len(u) /\ u[i].key = k /\ u[i].val = v
      BY <2>1, <2>4, <2>5
    <3>2. \A j \in 1 .. i - 1 : j \in 1 .. Len(t) /\ u[j].key # k
      BY <1>s, <2>1, <2>5
    <3>3. QED
      BY <3>1, <3>2 DEF Gives
  <2>10. \A w : Gives(u, k, w) => w = v
    BY <2>4, <2>8, GivesOnce
  <2>11. QED
    BY <1>s, <2>k, <2>4, <2>6, <2>7, <2>8, <2>10 DEF u
<1>2. CASE ~Has(t, k) /\ Len(t) < MaxEntries
  <2> DEFINE e == NewEntry(k, v)
  <2>1. u = Append(t, e) /\ e \in Entry /\ e.key = StoredAs[k] /\ e.val = v
    BY <1>2, KeysAre DEF config_set_str, NewEntry, Entry
  <2> HIDE DEF e
  <2>2. u \in Seq(Entry) /\ Len(u) = Len(t) + 1
    BY <2>1
  <2>3. /\ \A j \in 1 .. Len(t) : u[j] = t[j]
        /\ u[Len(t) + 1].key = StoredAs[k] /\ u[Len(t) + 1].val = v
    BY <2>1
  <2>4. 1 .. Len(u) = 1 .. Len(t) \cup {Len(t) + 1}
    BY <1>s, <2>2
  <2>5. \A j \in 1 .. Len(t) : t[j].key # k
    BY <1>2 DEF Has
  <2> HIDE DEF u
  <2>6. Stored(u)
    <3>1. StoredAs[StoredAs[k]] = StoredAs[k]
      BY KeysAre
    <3>2. QED
      BY <2>3, <2>4, <3>1 DEF Stored
  <2>7. NoTwins(t) => NoTwins(u)
    <3>1. StoredAs[k] = k \/ StoredAs[k] \in Remnants
      BY DEF Remnants
    <3>2. \A j \in 1 .. Len(t) : t[j].key = StoredAs[k] => StoredAs[k] \in Remnants
      BY <2>5, <3>1
    <3>3. QED
      BY <2>3, <2>4, <3>2 DEF NoTwins
  <2>8. ASSUME NEW key, key # StoredAs[k]
        PROVE  (\A w : Gives(u, key, w) <=> Gives(t, key, w)) /\ (Has(u, key) <=> Has(t, key))
    <3>1. \A j \in 1 .. Len(u) : u[j].key = key => j \in 1 .. Len(t)
      BY <2>3, <2>4, <2>8
    <3>2. /\ Len(t) <= Len(u)
          /\ \A j \in 1 .. Len(t) :
               u[j].key = t[j].key /\ (t[j].key = key => u[j].val = t[j].val)
      BY <1>s, <2>2, <2>3
    <3>3. QED
      BY <2>2, <3>1, <3>2, SameGives, Zenon
  <2>10. ASSUME StoredAs[k] = k
         PROVE  Gives(u, k, v)
    <3>1. Len(t) + 1 \in 1 .. Len(u) /\ 1 .. (Len(t) + 1) - 1 = 1 .. Len(t)
      BY <1>s, <2>2
    <3>2. QED
      BY <2>3, <2>5, <2>10, <3>1 DEF Gives
  <2>11. \A w : StoredAs[k] = k /\ Gives(u, k, w) => w = v
    BY <2>2, <2>10, GivesOnce
  <2>12. QED
    BY <1>s, <1>2, <2>2, <2>6, <2>7, <2>8, <2>10, <2>11 DEF u
<1>3. CASE ~Has(t, k) /\ ~(Len(t) < MaxEntries)
  <2>1. u = t
    BY <1>3 DEF config_set_str
  <2>2. \A w : ~Gives(t, k, w)
    BY <1>3 DEF Gives, Has
  <2>3. QED
    BY <1>s, <1>3, <2>1, <2>2
<1>4. QED
  BY <1>1, <1>2, <1>3

-----------------------------------------------------------------------------
(***************************************************************************)
(* What the last save promised is not yet a fact about the table while     *)
(* the process is down or loading: it is one about the file, then one      *)
(* about the lines that the load has taken so far.                         *)
(***************************************************************************)
Promised == \E k \in Keys : acked[k] # {}

\* A save that is under way starts with an empty file, and promises what it
\* is about to write.
SavingInv ==
  pc = "saving" =>
    file = <<>> /\ ~whole /\ \A k \in Keys : acked[k] = Writes(table, k)

\* At most one line of the file is for key k; it is the key's own, and holds
\* what is left of v.  Only a save that was cut has lost it.
FileSays(k, v) ==
  /\ \A i \in 1 .. Len(file) :
       Reads(file[i], k) => file[i].key = k /\ trim(file[i].val) \in Left(v)
  /\ \A i, j \in 1 .. Len(file) : Reads(file[i], k) /\ Reads(file[j], k) => i = j
  /\ whole => \E i \in 1 .. Len(file) : Reads(file[i], k)

\* A file that makes a promise is what is left of a table.
FileInv ==
  Promised =>
    /\ Stored(file) /\ Len(file) <= MaxEntries
    /\ \A k \in Keys : \A v \in acked[k] : FileSays(k, v)

\* Of key k, the table says what the first n lines of the file say.
Taken(k, n) ==
  /\ \A i \in 1 .. n : Reads(file[i], k) => Gives(table, k, trim(file[i].val))
  /\ Has(table, k) => \E i \in 1 .. n : Reads(file[i], k)

\* The load has taken the first lines of the file.
LoadInv ==
  pc = "loading" =>
    \E n \in 0 .. Len(file) :
      /\ todo = SubSeq(file, n + 1, Len(file))
      /\ Promised => /\ Len(table) <= n
                     /\ \A k \in Keys : acked[k] # {} => Taken(k, n)

\* Key k has what is left of v, up to blanks.
Keeps(k, v) ==
  /\ whole => Has(table, k)
  /\ \A w : Gives(table, k, w) => trim(w) \in Left(v)

\* Keys that were not set since the save have the value it wrote.
WorkInv ==
  pc \in {"idle", "setting"} =>
    \A k \in Keys \ unsaved : \A v \in acked[k] : Keeps(k, v)

DurableInv == SavingInv /\ FileInv /\ LoadInv /\ WorkInv

(***************************************************************************)
(* While a handler sets keys, a field agrees with the table or with what   *)
(* the handler is about to write.                                          *)
(***************************************************************************)
Agrees(k) == \A v \in Value : Gives(table, k, v) => v = form[k]

ScreenInv ==
  /\ built => pc \in {"idle", "setting", "saving"}
  /\ built => \A k \in FormKeys \ drift : Agrees(k) \/ (pc = "setting" /\ Has(todo, k))
  /\ pc = "setting" =>
       \A i \in 1 .. Len(todo) :
         built /\ todo[i].key \in FormKeys \ drift => todo[i].val = form[todo[i].key]

IInv == TypeOK /\ DurableInv /\ ScreenInv

-----------------------------------------------------------------------------
\* A line of a table or of a file.
LEMMA LinesAre ==
  ASSUME NEW t \in Seq(Entry), NEW i \in 1 .. Len(t)
  PROVE  t[i].key \in Keys /\ t[i].val \in Value
<1>1. t[i] \in Entry
  OBVIOUS
<1>2. QED
  BY <1>1 DEF Entry

\* What a handler has still to take.
LEMMA HeadTail ==
  ASSUME NEW q \in Seq(Entry), q # <<>>
  PROVE  /\ Head(q) \in Entry /\ Head(q).key \in Keys /\ Head(q).val \in Value
         /\ Head(q) = q[1] /\ 1 \in 1 .. Len(q)
         /\ Tail(q) \in Seq(Entry) /\ Len(Tail(q)) = Len(q) - 1
         /\ \A i \in 1 .. Len(q) - 1 : Tail(q)[i] = q[i + 1]
<1>1. Head(q) \in Entry /\ Head(q) = q[1]
  OBVIOUS
<1>2. Head(q).key \in Keys /\ Head(q).val \in Value
  BY <1>1 DEF Entry
<1>3. QED
  BY <1>1, <1>2

\* What a save that is interrupted leaves is the start of the table, but for
\* a torn value.
LEMMA RemainsAre ==
  ASSUME NEW t \in Seq(Entry), NEW r \in Remains(t)
  PROVE  /\ r \in Seq(Entry) /\ Len(r) <= Len(t)
         /\ \A i \in 1 .. Len(r) :
              r[i].key = t[i].key /\ r[i].val \in {t[i].val, Plain(Cut)}
<1>1. CASE \E n \in 0 .. Len(t) : r = SubSeq(t, 1, n)
  BY <1>1
<1>2. ASSUME NEW n \in 1 .. Len(t),
             r = Append(SubSeq(t, 1, n - 1), [t[n] EXCEPT !.val = Plain(Cut)])
      PROVE  /\ r \in Seq(Entry) /\ Len(r) <= Len(t)
             /\ \A i \in 1 .. Len(r) :
                  r[i].key = t[i].key /\ r[i].val \in {t[i].val, Plain(Cut)}
  <2> DEFINE p == SubSeq(t, 1, n - 1)
             e == [t[n] EXCEPT !.val = Plain(Cut)]
  <2>1. e \in Entry /\ e.key = t[n].key /\ e.val = Plain(Cut)
    <3>1. t[n] \in Entry
      OBVIOUS
    <3>2. QED
      BY <3>1, ValuesAre DEF Entry
  <2>2. p \in Seq(Entry) /\ Len(p) = n - 1 /\ \A i \in 1 .. n - 1 : p[i] = t[i]
    OBVIOUS
  <2> HIDE DEF p, e
  <2>3. r = Append(p, e)
    BY <1>2 DEF p, e
  <2>4. /\ r \in Seq(Entry) /\ Len(r) = n /\ r[n] = e
        /\ \A i \in 1 .. n - 1 : r[i] = t[i]
    BY <2>1, <2>2, <2>3
  <2>5. \A i \in 1 .. n : i = n \/ i \in 1 .. n - 1
    OBVIOUS
  <2>6. QED
    BY <2>1, <2>4, <2>5
<1>3. QED
  BY <1>1, <1>2 DEF Remains

\* Nothing but the writer of a key changes a table that is a table.
LEMMA SetKeepsTable ==
  ASSUME TableOK, NEW k \in Keys, NEW v \in Value,
         table' = config_set_str(table, k, v)
  PROVE  TableOK'
<1>1. table \in Seq(Entry) /\ Stored(table) /\ NoTwins(table) /\ Len(table) <= MaxEntries
  BY DEF TableOK, Stored, NoTwins
<1>2. /\ table' \in Seq(Entry) /\ Stored(table') /\ NoTwins(table')
      /\ Len(table') <= MaxEntries
  BY <1>1, SetIs
<1>3. QED
  BY <1>2 DEF TableOK, Stored, NoTwins

\* What a save writes for a key is in the one line that reads as the key.
LEMMA WritesIs ==
  ASSUME NEW t \in Seq(Entry), NEW k \in Keys, NEW v \in Writes(t, k)
  PROVE  /\ v \in Value
         /\ \E i \in 1 .. Len(t) :
              /\ t[i].key = k /\ trim(t[i].val) = v
              /\ \A n \in 1 .. Len(t) : Reads(t[n], k) \/ t[n].key = k <=> n = i
<1>1. PICK i \in 1 .. Len(t) :
        t[i].key = k /\ trim(t[i].val) = v /\ {n \in 1 .. Len(t) : Reads(t[n], k)} = {i}
  BY DEF Writes
<1>2. \A n \in 1 .. Len(t) : Reads(t[n], k) <=> n = i
  BY <1>1
<1>3. Reads(t[i], k)
  BY <1>2
<1>4. \A n \in 1 .. Len(t) : t[n].key = k => Reads(t[n], k)
  BY <1>1, <1>3 DEF Reads
<1>5. v \in Value
  BY <1>1, LinesAre, ValuesAre
<1>6. QED
  BY <1>1, <1>2, <1>4, <1>5

\* Every step keeps the types and what the table is.
LEMMA TypeStep ==
  ASSUME TypeOK, Next
  PROVE  TypeOK'
<1>s. TableOK /\ todo \in Seq(Entry) /\ file \in Seq(Entry)
  BY DEF TypeOK
<1>1. CASE Start
  <2>1. TableOK'
    BY <1>1, ConfigAssumption DEF Start, TableOK, ConfigAssumption
  <2>2. QED
    BY <1>1, <2>1 DEF Start, TypeOK, screen, ghosts
<1>2. CASE LoadLine
  <2>1. Head(todo) \in Entry /\ Head(todo).key \in Keys /\ Tail(todo) \in Seq(Entry)
    BY <1>s, <1>2, HeadTail DEF LoadLine
  <2>2. ReadValue(Head(todo)) \in Value /\ ReadAs[Head(todo).key] \in Keys
    BY <2>1, ValuesAre, KeysAre
  <2>3. TableOK'
    <3>1. CASE Head(todo).key \in SkippedKeys
      BY <1>s, <1>2, <3>1 DEF LoadLine, TableOK
    <3>2. CASE Head(todo).key \notin SkippedKeys
      BY <1>s, <1>2, <2>2, <3>2, SetKeepsTable DEF LoadLine
    <3>3. QED
      BY <3>1, <3>2
  <2>4. QED
    BY <1>2, <2>1, <2>3 DEF LoadLine, TypeOK, screen, ghosts
<1>3. CASE LoadEnd
  BY <1>s, <1>3 DEF LoadEnd, TypeOK, TableOK, screen, ghosts
<1>4. ASSUME NEW entries \in Posted, handle_post_config(entries)
      PROVE  TypeOK'
  <2>1. entries \in Seq(Entry)
    BY ConfigAssumption DEF ConfigAssumption
  <2>2. QED
    BY <1>s, <1>4, <2>1 DEF handle_post_config, TypeOK, TableOK, screen
<1>5. CASE ui_settings_create
  <2>1. Fields(table) \in [FormKeys -> Value]
    <3>1. \A k, d : d \in Value => config_get_str(table, k, d) \in Value
      <4>1. \A i \in 1 .. Len(table) : table[i].val \in Value
        BY <1>s, LinesAre DEF TableOK
      <4>2. \A k : Has(table, k) => config_find(table, k) \in 1 .. Len(table)
        BY <1>s, FindIs DEF TableOK
      <4>3. QED
        BY <4>1, <4>2 DEF config_get_str
    <3>2. QED
      BY <3>1, ValuesAre DEF Fields
  <2>2. QED
    BY <1>s, <1>5, <2>1 DEF ui_settings_create, TypeOK, TableOK
<1>6. ASSUME NEW k \in FormKeys, NEW text \in Addresses \cup Names, Edit(k, text)
      PROVE  TypeOK'
  <2>1. Plain(text) \in Value
    BY ValuesAre
  <2>2. form' \in [FormKeys -> Value]
    BY <1>6, <2>1 DEF Edit, TypeOK
  <2>3. QED
    BY <1>s, <1>6, <2>2 DEF Edit, TypeOK, TableOK
<1>7. CASE wifi_connect_cb
  <2>1. Ssid \in Keys /\ form[Ssid] \in Value
    BY Names0 DEF TypeOK
  <2>2. TableOK'
    BY <1>s, <1>7, <2>1, SetKeepsTable DEF wifi_connect_cb
  <2>3. QED
    BY <1>7, <2>1, <2>2 DEF wifi_connect_cb, TypeOK, screen
<1>8. CASE save_btn_cb
  <2>1. /\ [key |-> Ping, val |-> form[Ping]] \in Entry
        /\ [key |-> Ssid, val |-> form[Ssid]] \in Entry
    BY Names0 DEF TypeOK, Entry
  <2>2. todo' \in Seq(Entry)
    BY <1>8, <2>1 DEF save_btn_cb
  <2>3. QED
    BY <1>s, <1>8, <2>2 DEF save_btn_cb, TypeOK, TableOK, screen
<1>9. CASE SetNext
  <2>1. Head(todo).key \in Keys /\ Head(todo).val \in Value /\ Tail(todo) \in Seq(Entry)
    BY <1>s, <1>9, HeadTail DEF SetNext
  <2>2. TableOK'
    BY <1>s, <1>9, <2>1, SetKeepsTable DEF SetNext
  <2>3. StoredAs[Head(todo).key] \in Keys
    BY <2>1, KeysAre
  <2>4. QED
    BY <1>9, <2>1, <2>2, <2>3 DEF SetNext, TypeOK, screen
<1>10. CASE SaveOpen
  <2>1. \A k \in Keys : Writes(table, k) \subseteq Value
    BY <1>s, WritesIs DEF TableOK
  <2>2. acked' \in [Keys -> SUBSET Value]
    BY <1>10, <2>1 DEF SaveOpen
  <2>3. QED
    BY <1>s, <1>10, <2>2 DEF SaveOpen, OpenTruncating, TypeOK, TableOK, screen
<1>11. CASE SaveFails
  BY <1>s, <1>11 DEF SaveFails, TypeOK, TableOK, screen, ghosts
<1>12. CASE SaveClose
  <2>1. file \o table \in Seq(Entry)
    BY <1>s DEF TableOK
  <2>2. QED
    BY <1>s, <1>12, <2>1 DEF SaveClose, TypeOK, TableOK, screen
<1>13. CASE SaveShort
  <2>1. file' \in Seq(Entry)
    BY <1>s, <1>13, RemainsAre DEF SaveShort, TableOK
  <2>2. QED
    BY <1>s, <1>13, <2>1 DEF SaveShort, TypeOK, TableOK, screen, ghosts
<1>14. CASE Stop
  <2>1. file' \in Seq(Entry)
    BY <1>s, <1>14, RemainsAre DEF Stop, TableOK
  <2>2. form' \in [FormKeys -> Value]
    BY <1>14, ValuesAre DEF Stop
  <2>3. TableOK'
    BY <1>14, ConfigAssumption DEF Stop, TableOK, ConfigAssumption
  <2>4. /\ pc' = "down" /\ todo' = <<>> /\ built' = FALSE
        /\ unsaved' = {} /\ drift' = {} /\ acked' = acked /\ whole' = whole
    BY <1>14 DEF Stop
  <2>5. acked' \in [Keys -> SUBSET Value] /\ whole' \in BOOLEAN /\ todo' \in Seq(Entry)
    BY <2>4 DEF TypeOK
  <2>6. QED
    BY <2>1, <2>2, <2>3, <2>4, <2>5 DEF TypeOK
<1>15. QED
  BY <1>1, <1>2, <1>3, <1>4, <1>5, <1>6, <1>7, <1>8, <1>9, <1>10, <1>11, <1>12, <1>13, <1>14
     DEF Next

-----------------------------------------------------------------------------
\* A file and a promise that do not change.
LEMMA FileStays ==
  ASSUME FileInv, UNCHANGED <<file, acked, whole>>
  PROVE  FileInv' /\ (Promised' <=> Promised)
<1>1. \A k, v : FileSays(k, v)' <=> FileSays(k, v)
  BY DEF FileSays, Left, Reads
<1>2. (Promised' <=> Promised) /\ (Stored(file)' <=> Stored(file))
  BY DEF Promised, Stored
<1>3. QED
  BY <1>1, <1>2 DEF FileInv

\* Handlers that leave table, file and promise alone keep what was promised.
LEMMA QuietKeepsDurable ==
  ASSUME DurableInv, UNCHANGED <<table, file, acked, whole, unsaved>>,
         pc \in {"idle", "setting"}, pc' \in {"idle", "setting"}
  PROVE  DurableInv'
<1>1. \A k, v : Keeps(k, v)' <=> Keeps(k, v)
  BY DEF Keeps, Left, Gives, Has
<1>2. WorkInv' /\ SavingInv' /\ LoadInv'
  BY <1>1 DEF DurableInv, WorkInv, SavingInv, LoadInv
<1>3. QED
  BY <1>2, FileStays DEF DurableInv

\* One line of the load: the table says what the lines taken so far say.
LEMMA LoadLineKeepsDurable ==
  ASSUME TypeOK, DurableInv, LoadLine
  PROVE  DurableInv'
<1>s. /\ table \in Seq(Entry) /\ Stored(table) /\ Len(table) <= MaxEntries
      /\ todo \in Seq(Entry) /\ file \in Seq(Entry)
  BY DEF TypeOK, TableOK, Stored
<1>1. pc' = "loading" /\ pc = "loading" /\ UNCHANGED <<file, acked, whole, unsaved>>
  BY DEF LoadLine, ghosts
<1>2. SavingInv' /\ FileInv' /\ WorkInv' /\ (Promised' <=> Promised)
  BY <1>1, FileStays DEF DurableInv, SavingInv, WorkInv
<1>3. PICK n \in 0 .. Len(file) :
        /\ todo = SubSeq(file, n + 1, Len(file))
        /\ Promised => /\ Len(table) <= n
                       /\ \A k \in Keys : acked[k] # {} => Taken(k, n)
  BY <1>1 DEF DurableInv, LoadInv
<1> DEFINE m == n + 1
<1>4. todo # <<>> /\ n < Len(file) /\ Len(todo) = Len(file) - n /\ Len(file) \in Nat
  BY <1>s, <1>3 DEF LoadLine
<1>5. m \in 1 .. Len(file) /\ Head(todo) = file[m] /\ Tail(todo) = SubSeq(file, m + 1, Len(file))
  <2>1. Head(todo) = file[m]
    BY <1>s, <1>3, <1>4
  <2>2. Tail(todo) = SubSeq(file, m + 1, Len(file))
    BY <1>s, <1>3, <1>4
  <2>3. QED
    BY <1>4, <2>1, <2>2
<1>6. todo' = SubSeq(file', m + 1, Len(file'))
  BY <1>1, <1>5 DEF LoadLine
<1>7. file[m] \in Entry /\ file[m].key \in Keys /\ ReadValue(file[m]) \in Value
  BY <1>s, <1>5, LinesAre, ValuesAre
<1>x. 1 .. m = 1 .. n \cup {m} /\ \A i \in 1 .. m : i \in 1 .. Len(file)
  BY <1>3, <1>5
<1> DEFINE key == ReadAs[file[m].key]
<1>8. ASSUME Promised
      PROVE  /\ Len(table') <= m
             /\ \A k \in Keys : acked[k] # {} => Taken(k, m)'
  <2>1. Len(table) <= n /\ Len(table) \in Nat /\ \A k \in Keys : acked[k] # {} => Taken(k, n)
    BY <1>s, <1>3, <1>8
  <2>2. CASE file[m].key \in SkippedKeys
    <3>1. table' = table
      BY <1>5, <2>2 DEF LoadLine
    <3>2. \A k : ~Reads(file[m], k)
      BY <2>2 DEF Reads
    <3>3. Len(table') <= m
      BY <1>3, <2>1, <3>1
    <3> HIDE DEF m
    <3>4. \A k \in Keys : Taken(k, n) => Taken(k, m)'
      BY <1>1, <1>x, <3>1, <3>2 DEF Taken, Gives, Has, Reads
    <3>5. QED
      BY <2>1, <3>3, <3>4
  <2>3. CASE file[m].key \notin SkippedKeys
    <3>1. table' = config_set_str(table, key, ReadValue(file[m])) /\ Len(table) < MaxEntries
      BY <1>5, <2>3 DEF LoadLine
    <3>2. StoredAs[file[m].key] = file[m].key
      BY <1>5, <1>8 DEF DurableInv, FileInv, Stored
    <3>3. key \in Keys /\ StoredAs[key] = key /\ key \notin SplitKeys
      BY <1>7, <2>3, <3>2, KeysAre
    <3>4. /\ Len(table') <= Len(table) + 1 /\ table' \in Seq(Entry)
          /\ \A k, w : k # key => (Gives(table', k, w) <=> Gives(table, k, w))
          /\ \A k : k # key => (Has(table', k) <=> Has(table, k))
          /\ Gives(table', key, ReadValue(file[m]))
      <4> DEFINE v == ReadValue(file[m])
      <4>1. v \in Value /\ table' = config_set_str(table, key, v)
        BY <1>7, <3>1
      <4> HIDE DEF key, v
      <4>2. /\ Len(table') <= Len(table) + 1 /\ table' \in Seq(Entry)
            /\ \A k, w : k # StoredAs[key] => (Gives(table', k, w) <=> Gives(table, k, w))
            /\ \A k : k # StoredAs[key] => (Has(table', k) <=> Has(table, k))
            /\ Gives(table', key, v)
        BY <1>s, <3>1, <3>3, <4>1, SetIs
      <4>3. QED
        BY <3>3, <4>2 DEF v
    <3>5. Len(table') <= m
      BY <1>3, <2>1, <3>4
    <3>6. \A k : Reads(file[m], k) <=> k = key
      BY <2>3 DEF Reads
    <3>7. ASSUME NEW k \in Keys, acked[k] # {}
          PROVE  Taken(k, m)'
      <4>1. CASE k # key
        <5> HIDE DEF m, key
        <5>1. \A i \in 1 .. m : Reads(file[i], k) => i \in 1 .. n
          BY <1>x, <3>6, <4>1
        <5>2. QED
          BY <1>1, <1>x, <2>1, <3>4, <3>7, <4>1, <5>1 DEF Taken, Reads
      <4>2. CASE k = key
        <5>1. PICK v \in acked[k] : FileSays(k, v)
          BY <1>8, <3>7 DEF DurableInv, FileInv
        <5>2. Reads(file[m], k)
          BY <3>6, <4>2
        <5>3. file[m].key = k
          BY <1>5, <5>1, <5>2 DEF FileSays
        <5>4. ReadValue(file[m]) = trim(file[m].val)
          BY <3>3, <4>2, <5>3 DEF ReadValue
        <5>5. \A i \in 1 .. m : Reads(file[i], k) => i = m
          BY <1>5, <1>x, <5>1, <5>2 DEF FileSays
        <5>6. m \in 1 .. m
          BY <1>3
        <5> HIDE DEF m, key
        <5>7. QED
          BY <1>1, <3>4, <4>2, <5>2, <5>4, <5>5, <5>6 DEF Taken, Reads
      <4>3. QED
        BY <4>1, <4>2
    <3>8. QED
      BY <3>5, <3>7
  <2>4. QED
    BY <2>2, <2>3
<1>9. LoadInv'
  <2>1. m \in 0 .. Len(file')
    BY <1>1, <1>5
  <2> HIDE DEF m, key
  <2>2. /\ todo' = SubSeq(file', m + 1, Len(file'))
        /\ Promised' => /\ Len(table') <= m
                        /\ \A k \in Keys : acked'[k] # {} => Taken(k, m)'
    BY <1>1, <1>2, <1>6, <1>8
  <2>3. QED
    BY <2>1, <2>2 DEF LoadInv, Taken
<1>10. QED
  BY <1>2, <1>9 DEF DurableInv

\* The load is complete if the file makes a promise: what is left of a table
\* fits the table.
LEMMA LoadEndKeepsDurable ==
  ASSUME TypeOK, DurableInv, LoadEnd
  PROVE  DurableInv'
<1>s. table \in Seq(Entry) /\ todo \in Seq(Entry) /\ file \in Seq(Entry) /\ MaxEntries \in Nat
  BY ConfigAssumption DEF TypeOK, TableOK, ConfigAssumption
<1>1. pc = "loading" /\ pc' = "idle" /\ UNCHANGED <<table, file, acked, whole, unsaved>>
  BY DEF LoadEnd, ghosts
<1>2. SavingInv' /\ FileInv' /\ LoadInv'
  BY <1>1, FileStays DEF DurableInv, SavingInv, LoadInv
<1>3. ASSUME NEW k \in Keys, NEW v \in acked[k]
      PROVE  Keeps(k, v)
  <2>1. Promised
    BY <1>3 DEF Promised
  <2>2. PICK n \in 0 .. Len(file) :
          todo = SubSeq(file, n + 1, Len(file)) /\ Len(table) <= n /\ Taken(k, n)
    BY <1>1, <1>3, <2>1 DEF DurableInv, LoadInv
  <2>3. Len(file) <= MaxEntries /\ FileSays(k, v)
    BY <1>3, <2>1 DEF DurableInv, FileInv
  <2>4. n = Len(file)
    <3>1. Len(todo) = Len(file) - n /\ Len(file) \in Nat /\ Len(table) \in Nat
      BY <1>s, <2>2
    <3>2. CASE todo = <<>>
      <4>1. Len(todo) = 0
        BY <3>2
      <4>2. QED
        BY <3>1, <4>1
    <3>3. CASE Len(table) >= MaxEntries
      BY <1>s, <2>2, <2>3, <3>1, <3>3
    <3>4. QED
      BY <3>2, <3>3 DEF LoadEnd
  <2>5. ASSUME whole
        PROVE  Has(table, k)
    <3>1. PICK i \in 1 .. Len(file) : Reads(file[i], k)
      BY <2>3, <2>5 DEF FileSays
    <3>2. Gives(table, k, trim(file[i].val))
      BY <2>2, <2>4, <3>1 DEF Taken
    <3>3. QED
      BY <3>2 DEF Gives, Has
  <2>6. ASSUME NEW w, Gives(table, k, w)
        PROVE  trim(w) \in Left(v)
    <3>1. Has(table, k)
      BY <2>6 DEF Gives, Has
    <3>2. PICK i \in 1 .. Len(file) : Reads(file[i], k)
      BY <2>2, <2>4, <3>1 DEF Taken
    <3>3. w = trim(file[i].val)
      BY <1>s, <2>2, <2>4, <2>6, <3>2, GivesOnce DEF Taken
    <3>4. trim(w) = trim(file[i].val)
      BY <1>s, <3>3, LinesAre, ValuesAre
    <3>5. QED
      BY <2>3, <3>2, <3>4 DEF FileSays
  <2>7. QED
    BY <2>5, <2>6 DEF Keeps
<1>4. WorkInv'
  BY <1>1, <1>3 DEF WorkInv, Keeps, Left
<1>5. QED
  BY <1>2, <1>4 DEF DurableInv

\* Setting one key of the table keeps the promises about the others.
LEMMA SetKeepsDurable ==
  ASSUME TypeOK, DurableInv, NEW k \in Keys, NEW v \in Value,
         table' = config_set_str(table, k, v), unsaved' = unsaved \cup {StoredAs[k]},
         pc \in {"idle", "setting"}, pc' = pc, UNCHANGED <<file, acked, whole>>
  PROVE  DurableInv'
<1>1. SavingInv' /\ FileInv' /\ LoadInv'
  BY FileStays DEF DurableInv, SavingInv, LoadInv
<1>2. table \in Seq(Entry) /\ Stored(table) /\ Len(table) <= MaxEntries
  BY DEF TypeOK, TableOK, Stored
<1>3. /\ \A key, w : key # StoredAs[k] => (Gives(table', key, w) <=> Gives(table, key, w))
      /\ \A key : key # StoredAs[k] => (Has(table', key) <=> Has(table, key))
  BY <1>2, SetIs
<1>4. ASSUME NEW key \in Keys \ unsaved', NEW w \in acked[key]
      PROVE  Keeps(key, w)'
  <2>1. Keeps(key, w) /\ key # StoredAs[k]
    BY <1>4 DEF DurableInv, WorkInv
  <2>2. QED
    BY <1>3, <2>1 DEF Keeps, Left
<1>5. WorkInv'
  BY <1>4 DEF WorkInv
<1>6. QED
  BY <1>1, <1>5 DEF DurableInv

\* A save that ends, whole or not, keeps its promise: the file is the start
\* of the table, and the table stays.
LEMMA SaveEndKeepsDurable ==
  ASSUME TypeOK, DurableInv, pc = "saving", pc' \in {"idle", "down"},
         UNCHANGED acked, pc' = "idle" => UNCHANGED table,
         \/ file' = table /\ whole'
         \/ file' \in Remains(table) /\ ~whole'
  PROVE  DurableInv'
<1>s. table \in Seq(Entry) /\ Stored(table) /\ Len(table) <= MaxEntries
  BY DEF TypeOK, TableOK, Stored
<1>1. \A k \in Keys : acked'[k] = Writes(table, k)
  BY DEF DurableInv, SavingInv
<1>2. /\ file' \in Seq(Entry) /\ Len(file') <= Len(table)
      /\ \A i \in 1 .. Len(file') :
           /\ i \in 1 .. Len(table) /\ file'[i].key = table[i].key
           /\ file'[i].val \in IF whole' THEN {table[i].val} ELSE {table[i].val, Plain(Cut)}
  <2>1. CASE file' = table /\ whole'
    BY <1>s, <2>1
  <2>2. CASE file' \in Remains(table) /\ ~whole'
    <3>1. /\ file' \in Seq(Entry) /\ Len(file') <= Len(table)
          /\ \A i \in 1 .. Len(file') :
               file'[i].key = table[i].key /\ file'[i].val \in {table[i].val, Plain(Cut)}
      BY <1>s, <2>2, RemainsAre
    <3>2. \A i \in 1 .. Len(file') : i \in 1 .. Len(table)
      BY <1>s, <3>1
    <3>3. QED
      BY <2>2, <3>1, <3>2
  <2>3. QED
    BY <2>1, <2>2
<1>3. ASSUME NEW k \in Keys, NEW v \in acked'[k]
      PROVE  FileSays(k, v)' /\ (pc' = "idle" => Keeps(k, v)')
  <2>1. PICK i \in 1 .. Len(table) :
          /\ table[i].key = k /\ trim(table[i].val) = v
          /\ \A n \in 1 .. Len(table) : Reads(table[n], k) \/ table[n].key = k <=> n = i
    BY <1>s, <1>1, <1>3, WritesIs
  <2>2. \A n \in 1 .. Len(file') : Reads(file'[n], k) <=> Reads(table[n], k)
    BY <1>2 DEF Reads
  <2>3. Reads(table[i], k)
    <3>1. PICK n \in 1 .. Len(table) : {j \in 1 .. Len(table) : Reads(table[j], k)} = {n}
      BY <1>1, <1>3 DEF Writes
    <3>2. Reads(table[n], k)
      BY <3>1
    <3>3. QED
      BY <2>1, <3>2
  <2>4. ASSUME NEW n \in 1 .. Len(file'), Reads(file'[n], k)
        PROVE  n = i /\ file'[n].key = k /\ trim(file'[n].val) \in Left(v)'
    <3>1. n = i /\ file'[n].key = k
      BY <1>2, <2>1, <2>2, <2>4
    <3>2. trim(file'[n].val) \in IF whole' THEN {v} ELSE {v, Plain(Cut)}
      BY <1>2, <2>1, <3>1, ValuesAre
    <3>3. QED
      BY <3>1, <3>2 DEF Left
  <2>5. ASSUME whole'
        PROVE  \E n \in 1 .. Len(file') : Reads(file'[n], k)
    BY <2>3, <2>5
  <2>6. FileSays(k, v)'
    BY <2>4, <2>5 DEF FileSays, Reads
  <2>7. ASSUME pc' = "idle"
        PROVE  Keeps(k, v)'
    <3>1. Has(table, k)
      BY <2>1 DEF Has
    <3>2. \A w : Gives(table, k, w) => trim(w) = v
      BY <2>1 DEF Gives
    <3>3. QED
      BY <2>7, <3>1, <3>2 DEF Keeps, Left, Has, Gives
  <2>8. QED
    BY <2>6, <2>7
<1>4. FileInv'
  <2>1. Stored(file')
    BY <1>s, <1>2 DEF Stored
  <2>2. Len(file') <= MaxEntries
    BY <1>s, <1>2, ConfigAssumption DEF ConfigAssumption
  <2>3. QED
    BY <1>3, <2>1, <2>2 DEF FileInv, Stored
<1>5. SavingInv' /\ LoadInv' /\ WorkInv'
  BY <1>3 DEF SavingInv, LoadInv, WorkInv
<1>6. QED
  BY <1>4, <1>5 DEF DurableInv

\* Every step keeps what the last save promised.
LEMMA DurableStep ==
  ASSUME TypeOK, DurableInv, Next
  PROVE  DurableInv'
<1>s. /\ table \in Seq(Entry) /\ todo \in Seq(Entry) /\ file \in Seq(Entry)
      /\ form \in [FormKeys -> Value] /\ acked \in [Keys -> SUBSET Value]
  BY DEF TypeOK, TableOK
<1>1. CASE Start
  <2>1. /\ pc' = "loading" /\ pc = "down" /\ table' = <<>> /\ todo' = file
        /\ UNCHANGED <<file, acked, whole, unsaved>>
    BY <1>1 DEF Start, ghosts
  <2>2. SavingInv' /\ FileInv' /\ WorkInv'
    BY <2>1, FileStays DEF DurableInv, SavingInv, WorkInv
  <2>3. todo' = SubSeq(file', 0 + 1, Len(file')) /\ 0 \in 0 .. Len(file') /\ Len(table') <= 0
    BY <1>s, <2>1
  <2>4. (\A i \in 1 .. 0 : FALSE) /\ \A k : ~Has(table', k)
    BY <2>1 DEF Has
  <2>5. LoadInv'
    BY <2>3, <2>4 DEF LoadInv, Taken, Has
  <2>6. QED
    BY <2>2, <2>5 DEF DurableInv
<1>2. CASE LoadLine
  BY <1>2, LoadLineKeepsDurable
<1>3. CASE LoadEnd
  BY <1>3, LoadEndKeepsDurable
<1>4. CASE \/ \E entries \in Posted : handle_post_config(entries)
           \/ ui_settings_create
           \/ \E k \in FormKeys, text \in Addresses \cup Names : Edit(k, text)
           \/ save_btn_cb
           \/ SaveFails
  <2>1. /\ UNCHANGED <<table, file, acked, whole, unsaved>>
        /\ pc \in {"idle", "setting"} /\ pc' \in {"idle", "setting"}
    BY <1>4 DEF handle_post_config, ui_settings_create, Edit, save_btn_cb, SaveFails, ghosts
  <2>2. QED
    BY <2>1, QuietKeepsDurable
<1>5. CASE wifi_connect_cb
  <2>1. Ssid \in Keys /\ form[Ssid] \in Value /\ StoredAs[Ssid] = Ssid
    BY <1>s, Names0, KeysAre
  <2>2. QED
    BY <1>5, <2>1, SetKeepsDurable DEF wifi_connect_cb
<1>6. CASE SetNext
  <2>1. Head(todo).key \in Keys /\ Head(todo).val \in Value
    BY <1>s, <1>6, HeadTail DEF SetNext
  <2>2. QED
    BY <1>6, <2>1, SetKeepsDurable DEF SetNext
<1>7. CASE SaveOpen
  <2>1. /\ pc' = "saving" /\ file' = <<>> /\ ~whole' /\ table' = table
        /\ acked' = [k \in Keys |-> Writes(table, k)]
    BY <1>7 DEF SaveOpen, OpenTruncating
  <2>2. SavingInv' /\ LoadInv' /\ WorkInv'
    BY <2>1 DEF SavingInv, LoadInv, WorkInv, Writes, Reads
  <2>3. Len(file') = 0 /\ 1 .. Len(file') = {} /\ 0 <= MaxEntries
    BY <2>1, ConfigAssumption DEF ConfigAssumption
  <2>4. FileInv'
    BY <2>1, <2>3 DEF FileInv, FileSays, Stored
  <2>5. QED
    BY <2>2, <2>4 DEF DurableInv
<1>8. CASE SaveClose
  <2>1. file = <<>>
    BY <1>8 DEF DurableInv, SavingInv, SaveClose
  <2>2. file' = table
    BY <1>s, <1>8, <2>1 DEF SaveClose
  <2>3. QED
    BY <1>8, <2>2, SaveEndKeepsDurable DEF SaveClose
<1>9. CASE SaveShort \/ (Stop /\ pc = "saving")
  <2>1. ~whole
    BY <1>9 DEF DurableInv, SavingInv, SaveShort
  <2>2. /\ pc = "saving" /\ pc' \in {"idle", "down"} /\ UNCHANGED acked /\ ~whole'
        /\ file' \in Remains(table) /\ (pc' = "idle" => UNCHANGED table)
    BY <1>9, <2>1 DEF SaveShort, Stop, ghosts
  <2>3. QED
    BY <2>2, SaveEndKeepsDurable
<1>10. CASE Stop /\ pc # "saving"
  <2>1. pc' = "down" /\ UNCHANGED <<file, acked, whole>>
    BY <1>10 DEF Stop
  <2>2. FileInv'
    BY <2>1, FileStays DEF DurableInv
  <2>3. QED
    BY <2>1, <2>2 DEF DurableInv, SavingInv, LoadInv, WorkInv
<1>11. QED
  BY <1>1, <1>2, <1>3, <1>4, <1>5, <1>6, <1>7, <1>8, <1>9, <1>10 DEF Next

-----------------------------------------------------------------------------
\* A field that is not excepted agrees with the table, or is about to be
\* written, after every step.
LEMMA ScreenStep ==
  ASSUME TypeOK, ScreenInv, Next
  PROVE  ScreenInv'
<1>s. /\ table \in Seq(Entry) /\ Stored(table) /\ Len(table) <= MaxEntries
      /\ todo \in Seq(Entry)
      /\ form \in [FormKeys -> Value] /\ drift \subseteq FormKeys
  BY DEF TypeOK, TableOK, Stored
<1>1. CASE Start \/ LoadLine \/ LoadEnd
  <2>1. ~built /\ pc # "setting" /\ built' = built /\ pc' \in {"loading", "idle"}
    BY <1>1 DEF ScreenInv, Start, LoadLine, LoadEnd, screen
  <2>2. QED
    BY <2>1 DEF ScreenInv
<1>2. ASSUME NEW q \in Posted, handle_post_config(q)
      PROVE  ScreenInv'
  <2>1. /\ pc = "idle" /\ pc' = "setting" /\ todo' = q
        /\ drift' = drift \cup {k \in FormKeys : Has(q, k)}
        /\ UNCHANGED <<table, form, built>>
    BY <1>2 DEF handle_post_config, screen
  <2>2. built => \A k \in FormKeys \ drift : Agrees(k)
    BY <2>1 DEF ScreenInv
  <2>3. built' => \A k \in FormKeys \ drift' : Agrees(k)'
    BY <2>1, <2>2 DEF Agrees, Gives
  <2>4. \A i \in 1 .. Len(q) : q[i].key \notin FormKeys \ drift'
    BY <2>1 DEF Has
  <2>5. QED
    BY <2>1, <2>3, <2>4 DEF ScreenInv
<1>3. CASE ui_settings_create
  <2>1. /\ pc = "idle" /\ pc' = "idle" /\ UNCHANGED <<table, todo>>
        /\ drift' = {k \in FormKeys : config_get_str(table, k, form'[k]) # form'[k]}
    BY <1>3 DEF ui_settings_create
  <2>2. ASSUME NEW k \in FormKeys \ drift', NEW v \in Value, Gives(table, k, v)
        PROVE  v = form'[k]
    <3>1. config_get_str(table, k, form'[k]) = form'[k]
      BY <2>1, <2>2
    <3>2. Has(table, k)
      BY <2>2 DEF Gives, Has
    <3>3. table[config_find(table, k)].val = v
      BY <1>s, <2>2, <3>2, FindIs
    <3>4. QED
      BY <3>1, <3>2, <3>3 DEF config_get_str
  <2>3. \A k \in FormKeys \ drift' : Agrees(k)'
    BY <2>1, <2>2 DEF Agrees, Gives
  <2>4. QED
    BY <2>1, <2>3 DEF ScreenInv
<1>4. ASSUME NEW key \in FormKeys, NEW text \in Addresses \cup Names, Edit(key, text)
      PROVE  ScreenInv'
  <2>1. /\ pc = "idle" /\ pc' = "idle" /\ UNCHANGED <<table, todo, built>>
        /\ form' = [form EXCEPT ![key] = Plain(text)] /\ drift' = drift \cup {key}
    BY <1>4 DEF Edit
  <2>2. \A k \in FormKeys \ drift' : k \in FormKeys \ drift /\ form'[k] = form[k]
    BY <1>s, <2>1
  <2>3. built' => \A k \in FormKeys \ drift' : Agrees(k)'
    BY <2>1, <2>2 DEF ScreenInv, Agrees, Gives
  <2>4. QED
    BY <2>1, <2>3 DEF ScreenInv
<1>5. CASE wifi_connect_cb
  <2>1. /\ pc = "idle" /\ pc' = "idle" /\ built /\ UNCHANGED <<form, built>>
        /\ table' = config_set_str(table, Ssid, form[Ssid])
        /\ drift' = drift \ {Ssid}
    BY <1>5 DEF wifi_connect_cb, screen
  <2>2. Ssid \in Keys /\ Ssid \in FormKeys /\ form[Ssid] \in Value /\ StoredAs[Ssid] = Ssid
    BY <1>s, Names0, KeysAre
  <2>3. /\ \A k, w : k # Ssid => (Gives(table', k, w) <=> Gives(table, k, w))
        /\ \A w : Gives(table', Ssid, w) => w = form[Ssid]
    BY <1>s, <2>1, <2>2, SetIs
  <2>4. \A k \in FormKeys \ drift' : Agrees(k)'
    BY <2>1, <2>3 DEF ScreenInv, Agrees
  <2>5. QED
    BY <2>1, <2>4 DEF ScreenInv
<1>6. CASE save_btn_cb
  <2> DEFINE a == [key |-> Ping, val |-> form[Ping]]
             b == [key |-> Ssid, val |-> form[Ssid]]
  <2>1. /\ pc = "idle" /\ pc' = "setting" /\ built /\ UNCHANGED <<table, form, built>>
        /\ drift' = {k \in drift : ~Has(todo', k)}
    BY <1>6 DEF save_btn_cb, screen
  <2>2. todo' = <<a>> \o <<>> \/ todo' = <<a>> \o <<b>>
    BY <1>6 DEF save_btn_cb
  <2>3. \A i \in 1 .. Len(todo') : todo'[i].val = form[todo'[i].key]
    <3>1. a.val = form[a.key] /\ b.val = form[b.key]
      OBVIOUS
    <3> HIDE DEF a, b
    <3>2. <<a>> \in Seq({a, b}) /\ <<>> \in Seq({a, b}) /\ <<b>> \in Seq({a, b})
      OBVIOUS
    <3>3. todo' \in Seq({a, b})
      <4>1. \A p, q \in Seq({a, b}) : p \o q \in Seq({a, b})
        OBVIOUS
      <4>2. QED
        BY <2>2, <3>2, <4>1, Zenon
    <3>4. \A i \in 1 .. Len(todo') : todo'[i] \in {a, b}
      BY <3>3
    <3>5. QED
      BY <3>1, <3>4
  <2>4. ASSUME NEW k \in FormKeys \ drift'
        PROVE  Agrees(k)' \/ Has(todo', k)
    <3>1. k \in drift => Has(todo', k)
      BY <2>1, <2>4
    <3>2. k \notin drift => Agrees(k)
      BY <2>1, <2>4 DEF ScreenInv
    <3>3. QED
      BY <2>1, <3>1, <3>2 DEF Agrees, Gives
  <2>5. QED
    BY <2>1, <2>3, <2>4 DEF ScreenInv
<1>7. CASE SetNext
  <2> DEFINE e == Head(todo)
  <2>1. /\ pc = "setting" /\ pc' = "setting" /\ UNCHANGED <<form, built, drift>>
        /\ table' = config_set_str(table, e.key, e.val) /\ todo' = Tail(todo)
        /\ todo # <<>>
    BY <1>7 DEF SetNext, screen
  <2>2. /\ e.key \in Keys /\ e.val \in Value /\ e = todo[1] /\ 1 \in 1 .. Len(todo)
        /\ Len(todo') = Len(todo) - 1
        /\ \A i \in 1 .. Len(todo) - 1 : todo'[i] = todo[i + 1]
    BY <1>s, <2>1, HeadTail
  <2>3. /\ \A k, w : k # StoredAs[e.key] => (Gives(table', k, w) <=> Gives(table, k, w))
        /\ \A w : StoredAs[e.key] = e.key /\ Gives(table', e.key, w) => w = e.val
    <3> HIDE DEF e
    <3>1. QED
      BY <1>s, <2>1, <2>2, SetIs
  <2>4. \A i \in 1 .. Len(todo') :
          i + 1 \in 1 .. Len(todo) /\ todo'[i] = todo[i + 1]
    BY <1>s, <2>2
  <2> HIDE DEF e
  <2>5. \A i \in 1 .. Len(todo') :
          built' /\ todo'[i].key \in FormKeys \ drift' => todo'[i].val = form'[todo'[i].key]
    BY <2>1, <2>4 DEF ScreenInv
  <2>6. ASSUME built, NEW k \in FormKeys \ drift
        PROVE  Agrees(k)' \/ Has(todo', k)
    <3>1. CASE k = e.key
      <4>1. e.val = form[k]
        BY <2>1, <2>2, <2>6, <3>1 DEF ScreenInv
      <4>2. QED
        BY <2>1, <2>3, <3>1, <4>1, KeysAre DEF Agrees
    <3>2. CASE k # e.key /\ Agrees(k)
      <4>1. k # StoredAs[e.key]
        BY <2>2, <2>6, <3>2, KeysAre
      <4>2. QED
        BY <2>1, <2>3, <3>2, <4>1 DEF Agrees
    <3>3. CASE k # e.key /\ Has(todo, k)
      <4>1. PICK i \in 1 .. Len(todo) : todo[i].key = k
        BY <3>3 DEF Has
      <4>2. i # 1
        BY <2>2, <3>3, <4>1
      <4>3. i - 1 \in 1 .. Len(todo') /\ todo'[i - 1] = todo[i]
        BY <1>s, <2>2, <4>1, <4>2
      <4>4. QED
        BY <4>1, <4>3 DEF Has
    <3>4. QED
      BY <2>1, <2>6, <3>1, <3>2, <3>3 DEF ScreenInv
  <2>7. QED
    BY <2>1, <2>5, <2>6 DEF ScreenInv
<1>8. CASE SaveOpen \/ SaveFails \/ SaveClose \/ SaveShort
  <2>1. /\ UNCHANGED <<table, form, built, drift, todo>>
        /\ pc \in {"setting", "saving"} /\ pc' \in {"idle", "saving"}
        /\ pc = "setting" => todo = <<>>
    BY <1>8 DEF SaveOpen, SaveFails, SaveClose, SaveShort, screen, ghosts
  <2>2. built => \A k \in FormKeys \ drift : Agrees(k)
    <3>1. \A k : Has(<<>>, k) => FALSE
      BY DEF Has
    <3>2. QED
      BY <2>1, <3>1 DEF ScreenInv
  <2>3. QED
    BY <2>1, <2>2 DEF ScreenInv, Agrees, Gives
<1>9. CASE Stop
  BY <1>9 DEF Stop, ScreenInv
<1>10. QED
  BY <1>1, <1>2, <1>3, <1>4, <1>5, <1>6, <1>7, <1>8, <1>9 DEF Next

-----------------------------------------------------------------------------
\* The three invariants hold in every behaviour: the program starts with
\* nothing promised and no screen.
THEOREM InvariantHolds == Spec => []IInv
<1>1. Init => IInv
  <2>s. SUFFICES ASSUME Init
                 PROVE  IInv
    OBVIOUS
  <2>1. TypeOK
    <3>1. FirstFiles \subseteq Seq(Entry) /\ MaxEntries \in Nat
      BY ConfigAssumption DEF ConfigAssumption
    <3>2. form \in [FormKeys -> Value]
      BY <2>s, ValuesAre DEF Init
    <3>3. TableOK
      BY <2>s, <3>1 DEF Init, TableOK
    <3>4. todo \in Seq(Entry) /\ file \in Seq(Entry) /\ acked \in [Keys -> SUBSET Value]
      BY <2>s, <3>1 DEF Init
    <3>5. pc = "down" /\ built = FALSE /\ unsaved = {} /\ drift = {} /\ whole = TRUE
      BY <2>s DEF Init
    <3>6. QED
      BY <3>2, <3>3, <3>4, <3>5 DEF TypeOK
  <2>2. DurableInv
    BY <2>s DEF Init, DurableInv, SavingInv, FileInv, LoadInv, WorkInv, Promised
  <2>3. ScreenInv
    BY <2>s DEF Init, ScreenInv
  <2>4. QED
    BY <2>1, <2>2, <2>3 DEF IInv
<1>2. IInv /\ [Next]_vars => IInv'
  <2>s. SUFFICES ASSUME IInv, [Next]_vars
                 PROVE  IInv'
    OBVIOUS
  <2>1. TypeOK /\ DurableInv /\ ScreenInv
    BY <2>s DEF IInv
  <2>2. CASE Next
    BY <2>1, <2>2, TypeStep, DurableStep, ScreenStep DEF IInv
  <2>3. CASE UNCHANGED vars
    <3>1. UNCHANGED <<pc, table, todo, file, built, form, acked, whole, unsaved, drift>>
      BY <2>3 DEF vars, screen, ghosts
    <3>2. TypeOK'
      BY <2>1, <3>1 DEF TypeOK, TableOK
    <3>3. DurableInv'
      <4>1. FileInv' /\ (Promised' <=> Promised)
        BY <2>1, <3>1, FileStays DEF DurableInv
      <4>2. SavingInv' /\ WorkInv'
        BY <2>1, <3>1 DEF DurableInv, SavingInv, WorkInv, Writes, Reads, Keeps, Left, Gives, Has
      <4>3. \A k, n : Taken(k, n)' <=> Taken(k, n)
        BY <3>1 DEF Taken, Reads, Gives, Has
      <4>4. LoadInv'
        BY <2>1, <3>1, <4>1, <4>3 DEF DurableInv, LoadInv
      <4>5. QED
        BY <4>1, <4>2, <4>4 DEF DurableInv
    <3>4. ScreenInv'
      BY <2>1, <3>1 DEF ScreenInv, Agrees, Gives, Has
    <3>5. QED
      BY <3>2, <3>3, <3>4 DEF IInv
  <2>4. QED
    BY <2>s, <2>2, <2>3
<1>3. QED
  BY <1>1, <1>2, PTL DEF Spec

\* The table fits its array, every key in it fits its own, and a key is there
\* twice only when it is the remnant of a longer one, whatever was in the file
\* that was loaded and in the bodies that were posted (config_load,
\* config_set_str).
THEOREM TypeCorrect == Spec => []TypeOK
<1>1. IInv => TypeOK
  BY DEF IInv
<1>2. QED
  BY <1>1, InvariantHolds, PTL

\* What the last save to open the file wrote is what the process works with,
\* across any number of restarts and of saves that could not open the file,
\* for as long as that save is the last; one that was cut has lost keys and
\* torn a value, but brings back no older value and no value of another key.
THEOREM SavesAreDurable == Spec => []AckedIsDurable
<1>1. IInv => AckedIsDurable
  <2>s. SUFFICES ASSUME IInv, pc = "idle", NEW k \in Keys \ unsaved, NEW v \in acked[k]
                 PROVE  IF Has(table, k)
                        THEN trim(table[config_find(table, k)].val) \in Left(v)
                        ELSE ~whole
    BY DEF AckedIsDurable
  <2>1. table \in Seq(Entry)
    BY <2>s DEF IInv, TypeOK, TableOK
  <2>2. Keeps(k, v)
    BY <2>s DEF IInv, DurableInv, WorkInv
  <2>3. CASE Has(table, k)
    BY <2>1, <2>2, <2>3, FindIs DEF Keeps
  <2>4. CASE ~Has(table, k)
    BY <2>2, <2>4 DEF Keeps
  <2>5. QED
    BY <2>3, <2>4
<1>2. QED
  BY <1>1, InvariantHolds, PTL

\* Between two handlers, a field of the settings screen shows what is in the
\* table unless one of the listed reasons excepts it.
THEOREM ScreenIsTable == Spec => []ScreenMatchesTable
<1>1. IInv => ScreenMatchesTable
  <2>s. SUFFICES ASSUME IInv, pc = "idle", built, NEW k \in FormKeys \ drift
                 PROVE  config_get_str(table, k, form[k]) = form[k]
    BY DEF ScreenMatchesTable
  <2>1. table \in Seq(Entry) /\ Agrees(k)
    BY <2>s DEF IInv, TypeOK, TableOK, ScreenInv
  <2>2. CASE Has(table, k)
    <3>1. /\ config_find(table, k) \in 1 .. Len(table)
          /\ Gives(table, k, table[config_find(table, k)].val)
      BY <2>1, <2>2, FindIs
    <3>2. table[config_find(table, k)].val \in Value
      BY <2>1, <3>1, LinesAre
    <3>3. QED
      BY <2>1, <2>2, <3>1, <3>2 DEF config_get_str, Agrees
  <2>3. CASE ~Has(table, k)
    BY <2>3 DEF config_get_str
  <2>4. QED
    BY <2>2, <2>3
<1>2. QED
  BY <1>1, InvariantHolds, PTL
=============================================================================
