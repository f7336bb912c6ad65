---------------------------- MODULE ScreenProofs ----------------------------
(***************************************************************************)
(* Theorems about what the screens show: the cards of the dashboard and    *)
(* the chart of the traffic screen (Ui), and the list of networks on the   *)
(* settings screen with the WiFi manager behind it (WifiMgr).  Both build  *)
(* lists in a loop, of which the modules say what it has after each round. *)
(***************************************************************************)
EXTENDS Ui, WifiMgr, FiniteSetTheorems, SequenceTheorems, WellFoundedInduction, TLAPS

-----------------------------------------------------------------------------
(* Loops. *)

\* What holds at first and after every round that it held before holds after
\* all rounds.
LEMMA Rounds ==
  ASSUME NEW n \in Nat, NEW A, 0 \in A,
         \A k \in 1 .. n : k - 1 \in A => k \in A
  PROVE  \A k \in 0 .. n : k \in A
<1> DEFINE Bad   == {k \in 0 .. n : k \notin A}
           Below == {0 .. k : k \in Bad}
           R     == StrictSubsetOrdering(Nat)
<1>s. SUFFICES ASSUME Bad # {}
               PROVE  FALSE
  OBVIOUS
<1>1. Below \subseteq FiniteSubsetsOf(Nat)
  <2>1. \A k \in Bad : IsFiniteSet(0 .. k) /\ 0 .. k \subseteq Nat
    BY FS_Interval
  <2>2. QED
    BY <2>1 DEF FiniteSubsetsOf
<1>2. PICK T \in Below : \A U \in Below : ~(<<U, T>> \in R)
  <2>1. IsWellFoundedOn(R, FiniteSubsetsOf(Nat))
    BY FS_StrictSubsetOrderingWellFounded
  <2>2. Below # {}
    BY <1>s
  <2> HIDE DEF Below, R
  <2>3. QED
    BY <1>1, <2>1, <2>2, WFMin
<1>3. PICK k \in Bad : T = 0 .. k
  BY <1>2
<1>4. k \in 1 .. n
  OBVIOUS
<1>5. k - 1 \in Bad
  BY <1>4
<1>6. 0 .. k - 1 \subseteq 0 .. k /\ 0 .. k - 1 # 0 .. k
  BY <1>4
<1>7. <<0 .. k - 1, T>> \in R
  BY <1>3, <1>4, <1>6 DEF StrictSubsetOrdering
<1>8. QED
  BY <1>2, <1>5, <1>7

\* The values, in S, after each of the first k rounds of a loop that begins
\* with b and of which round j takes v to step[j][v].
Runs(f, k, S, b, step) ==
  f \in [0 .. k -> S] /\ f[0] = b /\ \A j \in 1 .. k : f[j] = step[j][f[j - 1]]

\* A loop has a value after every round.
LEMMA Loop ==
  ASSUME NEW n \in Nat, NEW S, NEW b \in S, NEW step \in [1 .. n -> [S -> S]]
  PROVE  \E f : Runs(f, n, S, b, step)
<1> DEFINE Run(k, f) == Runs(f, k, S, b, step)
           A == {k \in 0 .. n : \E f : Run(k, f)}
<1> USE DEF Runs
<1>1. 0 \in A
  <2>1. Run(0, [j \in 0 .. 0 |-> b])
    OBVIOUS
  <2> HIDE DEF Run
  <2>2. \E f : Run(0, f)
    BY <2>1
  <2>3. QED
    BY <2>2
<1>2. ASSUME NEW k \in 1 .. n, k - 1 \in A
      PROVE  k \in A
  <2>1. PICK f : Run(k - 1, f)
    BY <1>2
  <2> DEFINE g == [j \in 0 .. k |-> IF j = k THEN step[k][f[k - 1]] ELSE f[j]]
  <2>2. k - 1 \in 0 .. k - 1 /\ f[k - 1] \in S /\ step[k][f[k - 1]] \in S
    BY <2>1
  <2>3. g \in [0 .. k -> S]
    BY <2>1, <2>2
  <2>4. g[0] = b
    BY <2>1
  <2>5. ASSUME NEW j \in 1 .. k
        PROVE  g[j] = step[j][g[j - 1]]
    <3>1. j - 1 \in 0 .. k - 1 /\ g[j - 1] = f[j - 1]
      OBVIOUS
    <3>2. CASE j = k
      BY <3>1, <3>2
    <3>3. CASE j # k
      BY <2>1, <3>1, <3>3
    <3>4. QED
      BY <3>2, <3>3
  <2>6. Run(k, g)
    BY <2>3, <2>4, <2>5
  <2> HIDE DEF Run, g
  <2>7. \E h : Run(k, h)
    BY <2>6
  <2>8. QED
    BY <2>7
<1>3. n \in A
  <2> HIDE DEF A
  <2>1. \A k \in 0 .. n : k \in A
    BY <1>1, <1>2, Rounds
  <2>2. QED
    BY <2>1
<1>4. QED
  BY <1>3

-----------------------------------------------------------------------------
(***************************************************************************)
(* The parser of a scan (wifi_mgr_scan).                                   *)
(***************************************************************************)
Slots   == [1 .. MaxNetworks -> Ssids]
Parsers == [num : 0 .. MaxNetworks, cur : 0 .. MaxNetworks, slots : Slots]

\* A line takes a state of the parser to a state of the parser.
LEMMA ParseLineType ==
  ASSUME NEW p \in Parsers, NEW name \in Ssids
  PROVE  ParseLine(p, name) \in Parsers
<1>1. MaxNetworks \in Nat \ {0}
  BY WifiAssumption
<1>2. p.num \in 0 .. MaxNetworks /\ p.cur \in 0 .. MaxNetworks /\ p.slots \in Slots
  BY DEF Parsers
<1>3. p = [num |-> p.num, cur |-> p.cur, slots |-> p.slots]
  BY DEF Parsers
<1> DEFINE n == IF Complete(p) THEN p.num + 1 ELSE p.num
<1>4. p.num < MaxNetworks => n \in 0 .. MaxNetworks
  BY <1>1, <1>2
<1>5. p.num < MaxNetworks => [p EXCEPT !.num = n] \in Parsers
  BY <1>2, <1>3, <1>4 DEF Parsers
<1>6. n \in 0 .. MaxNetworks /\ n < MaxNetworks =>
        [num |-> n, cur |-> n + 1, slots |-> [p.slots EXCEPT ![n + 1] = name]] \in Parsers
  BY <1>1, <1>2 DEF Parsers, Slots
<1>7. ParseLine(p, name) = IF p.num >= MaxNetworks THEN p
                           ELSE IF n >= MaxNetworks THEN [p EXCEPT !.num = n]
                           ELSE [num |-> n, cur |-> n + 1, slots |-> [p.slots EXCEPT ![n + 1] = name]]
  BY DEF ParseLine
<1> HIDE DEF n
<1>8. QED
  BY <1>1, <1>2, <1>4, <1>5, <1>6, <1>7

\* The states of the parser are what its loop makes of them.
LEMMA ParsingIs ==
  ASSUME NEW s \in Slots, NEW lines \in Seq(Ssids)
  PROVE  /\ Parsing(s, lines) \in [0 .. Len(lines) -> Parsers]
         /\ Parsing(s, lines)[0] = Unparsed(s)
         /\ \A k \in 1 .. Len(lines) :
              Parsing(s, lines)[k] = ParseLine(Parsing(s, lines)[k - 1], lines[k])
<1> DEFINE n == Len(lines)
           Rule(g) == g = [k \in 0 .. n |-> IF k = 0 THEN Unparsed(s)
                                            ELSE ParseLine(g[k - 1], lines[k])]
           step == [k \in 1 .. n |-> [p \in Parsers |-> ParseLine(p, lines[k])]]
           f == Parsing(s, lines)
<1>1. n \in Nat /\ Unparsed(s) \in Parsers
  BY WifiAssumption DEF Unparsed, Parsers
<1>2. step \in [1 .. n -> [Parsers -> Parsers]]
  BY ParseLineType
<1>3. \E g : Rule(g)
  <2>1. PICK g \in [0 .. n -> Parsers] :
               g[0] = Unparsed(s) /\ \A k \in 1 .. n : g[k] = step[k][g[k - 1]]
    <3> DEFINE b == Unparsed(s)
    <3>1. n \in Nat /\ b \in Parsers
      BY <1>1
    <3> HIDE DEF step, n, b
    <3>2. \E g : Runs(g, n, Parsers, b, step)
      BY <3>1, <1>2, Loop
    <3>3. QED
      BY <3>2 DEF b, Runs
  <2>2. ASSUME NEW k \in 1 .. n
        PROVE  g[k] = ParseLine(g[k - 1], lines[k])
    <3>1. k - 1 \in 0 .. n
      BY <1>1
    <3>2. g[k - 1] \in Parsers /\ g[k] = step[k][g[k - 1]]
      BY <2>1, <3>1
    <3>3. QED
      BY <3>2
  <2>3. g = [k \in 0 .. n |-> IF k = 0 THEN Unparsed(s) ELSE ParseLine(g[k - 1], lines[k])]
    BY <2>1, <2>2
  <2>4. QED
    BY <2>3
<1>4. Rule(f)
  <2>1. f = CHOOSE g : Rule(g)
    BY DEF Parsing
  <2> HIDE DEF Rule, f
  <2>2. QED
    BY <1>3, <2>1
<1>5. f[0] = Unparsed(s) /\ \A k \in 1 .. n : f[k] = ParseLine(f[k - 1], lines[k])
  <2> HIDE DEF f
  <2>1. QED
    BY <1>1, <1>4
<1>6. \A k \in 0 .. n : f[k] \in Parsers
  <2> DEFINE A == {k \in 0 .. n : f[k] \in Parsers}
  <2>1. 0 \in A
    BY <1>1, <1>5
  <2>2. ASSUME NEW k \in 1 .. n, k - 1 \in A
        PROVE  k \in A
    <3>1. lines[k] \in Ssids
      OBVIOUS
    <3> HIDE DEF f
    <3>2. QED
      BY <1>5, <2>2, <3>1, ParseLineType
  <2>3. \A k \in 0 .. n : k \in A
    <3> HIDE DEF A, n
    <3>1. QED
      BY <1>1, <2>1, <2>2, Rounds
  <2>4. QED
    BY <2>3
<1>7. QED
  <2> HIDE DEF f
  <2>1. f \in [0 .. n -> Parsers]
    BY <1>4, <1>6
  <2>2. QED
    BY <1>5, <2>1 DEF f

\* The names that have been told are what the loop of the reference makes.
LEMMA ToldIs ==
  ASSUME NEW lines \in Seq(Ssids)
  PROVE  /\ Told(lines) \in [0 .. Len(lines) -> Seq(Networks)]
         /\ Told(lines)[0] = << >>
         /\ \A k \in 1 .. Len(lines) :
              Told(lines)[k] = IF lines[k] = NoSsid THEN Told(lines)[k - 1]
                               ELSE Append(Told(lines)[k - 1], lines[k])
<1> DEFINE n == Len(lines)
           Add(k, q) == IF lines[k] = NoSsid THEN q ELSE Append(q, lines[k])
           Rule(g) == g = [k \in 0 .. n |-> IF k = 0 THEN << >>
                                            ELSE IF lines[k] = NoSsid THEN g[k - 1]
                                            ELSE Append(g[k - 1], lines[k])]
           step == [k \in 1 .. n |-> [q \in Seq(Networks) |-> Add(k, q)]]
           f == Told(lines)
<1>1. n \in Nat /\ << >> \in Seq(Networks)
  OBVIOUS
<1>a. ASSUME NEW k \in 1 .. n, NEW q \in Seq(Networks)
      PROVE  Add(k, q) \in Seq(Networks)
  <2>1. lines[k] \in Ssids
    OBVIOUS
  <2>2. QED
    BY <2>1 DEF Ssids
<1>2. step \in [1 .. n -> [Seq(Networks) -> Seq(Networks)]]
  <2> HIDE DEF Add
  <2>1. QED
    BY <1>a
<1>3. \E g : Rule(g)
  <2>1. PICK g : Runs(g, n, Seq(Networks), << >>, step)
    <3> HIDE DEF step, n
    <3>1. QED
      BY <1>1, <1>2, Loop
  <2>2. ASSUME NEW k \in 1 .. n
        PROVE  g[k] = Add(k, g[k - 1])
    <3>1. k - 1 \in 0 .. n
      BY <1>1
    <3>2. g[k - 1] \in Seq(Networks) /\ g[k] = step[k][g[k - 1]]
      BY <2>1, <3>1 DEF Runs
    <3> HIDE DEF Add
    <3>3. QED
      BY <3>2
  <2>3. g = [k \in 0 .. n |-> IF k = 0 THEN << >> ELSE Add(k, g[k - 1])]
    <3> HIDE DEF Add
    <3>1. QED
      BY <2>1, <2>2 DEF Runs
  <2>4. QED
    BY <2>3
<1>4. Rule(f)
  <2>1. f = CHOOSE g : Rule(g)
    BY DEF Told
  <2> HIDE DEF Rule, f
  <2>2. QED
    BY <1>3, <2>1
<1>5. f[0] = << >> /\ \A k \in 1 .. n : f[k] = Add(k, f[k - 1])
  <2> HIDE DEF f, n
  <2>1. f[0] = << >>
    BY <1>1, <1>4
  <2>2. ASSUME NEW k \in 1 .. n
        PROVE  f[k] = Add(k, f[k - 1])
    <3>1. k \in 0 .. n /\ k # 0
      BY <1>1
    <3>2. QED
      BY <1>4, <3>1
  <2>3. QED
    BY <2>1, <2>2
<1>6. \A k \in 0 .. n : f[k] \in Seq(Networks)
  <2> DEFINE A == {k \in 0 .. n : f[k] \in Seq(Networks)}
  <2>1. 0 \in A
    <3>1. f[0] \in Seq(Networks)
      <4> HIDE DEF f, Add, n
      <4>1. QED
        BY <1>1, <1>5
    <3>2. 0 \in 0 .. n
      BY <1>1
    <3> HIDE DEF f, n
    <3>3. QED
      BY <3>1, <3>2
  <2>2. ASSUME NEW k \in 1 .. n, k - 1 \in A
        PROVE  k \in A
    <3> HIDE DEF f, Add
    <3>1. QED
      BY <1>5, <1>a, <2>2
  <2>3. \A k \in 0 .. n : k \in A
    <3> HIDE DEF A, n
    <3>1. QED
      BY <1>1, <2>1, <2>2, Rounds
  <2>4. QED
    BY <2>3
<1>7. QED
  <2> HIDE DEF f
  <2>1. f \in [0 .. n -> Seq(Networks)]
    BY <1>4, <1>6
  <2>2. QED
    BY <1>5, <2>1 DEF f

\* What the parser has when t are the names told so far: it has counted them
\* all but the last, which is complete in the open slot, or all of them when
\* the open slot is still without a name; or all slots are counted, and the
\* first names are in them.
Counted(p) == IF Complete(p) THEN p.num + 1 ELSE p.num

Follows(p, t) ==
  IF p.num < MaxNetworks
  THEN /\ Len(t) = Counted(p)
       /\ p.cur \in {0, p.num + 1}
       /\ \A i \in 1 .. Len(t) : p.slots[i] = t[i]
  ELSE /\ Len(t) >= MaxNetworks /\ Complete(p)
       /\ \A i \in 1 .. MaxNetworks : p.slots[i] = t[i]

\* A line that completes a slot and opens the next one keeps that up, also
\* when there is no next slot.
LEMMA LineFollows ==
  ASSUME NEW p \in Parsers, NEW t \in Seq(Networks), NEW name \in Ssids, Follows(p, t)
  PROVE  Follows(ParseLine(p, name), IF name = NoSsid THEN t ELSE Append(t, name))
<1> DEFINE q == ParseLine(p, name)
           u == IF name = NoSsid THEN t ELSE Append(t, name)
<1>1. MaxNetworks \in Nat \ {0} /\ NoSsid \notin Networks
  BY WifiAssumption
<1>2. p.num \in 0 .. MaxNetworks /\ p.cur \in 0 .. MaxNetworks /\ p.slots \in Slots
  BY DEF Parsers
<1>3. Len(t) \in Nat /\ Len(u) = IF name = NoSsid THEN Len(t) ELSE Len(t) + 1
  BY DEF Ssids
<1>4. ASSUME NEW i \in 1 .. Len(t)
      PROVE  u[i] = t[i]
  BY DEF Ssids
<1>5. name # NoSsid => u[Len(t) + 1] = name
  BY DEF Ssids
<1> HIDE DEF u
<1>6. CASE p.num >= MaxNetworks
  <2>1. q = p
    BY <1>6 DEF ParseLine
  <2>2. ~(p.num < MaxNetworks)
    BY <1>1, <1>2, <1>6
  <2>3. Len(t) >= MaxNetworks /\ Complete(p) /\ \A i \in 1 .. MaxNetworks : p.slots[i] = t[i]
    BY <2>2 DEF Follows
  <2>4. Len(u) >= MaxNetworks /\ \A i \in 1 .. MaxNetworks : p.slots[i] = u[i]
    BY <1>1, <1>3, <1>4, <2>3
  <2>5. QED
    BY <2>1, <2>2, <2>3, <2>4 DEF Follows, u
<1>7. CASE p.num < MaxNetworks
  <2> DEFINE n == Counted(p)
  <2>1. /\ Len(t) = n /\ p.cur \in {0, p.num + 1}
        /\ \A i \in 1 .. n : p.slots[i] = t[i]
    BY <1>7 DEF Follows
  <2>2. n \in 0 .. MaxNetworks
    BY <1>1, <1>2, <1>7 DEF Counted
  <2>3. CASE n >= MaxNetworks
    <3>1. Complete(p) /\ n = MaxNetworks
      BY <1>1, <1>2, <1>7, <2>2, <2>3 DEF Counted
    <3>2. q = [p EXCEPT !.num = n]
      BY <1>1, <1>2, <1>7, <2>3 DEF ParseLine, Counted
    <3>3. q.num = n /\ q.cur = p.cur /\ q.slots = p.slots
      BY <3>2 DEF Parsers
    <3>4. Complete(q)
      BY <3>1, <3>3 DEF Complete
    <3>5. ~(q.num < MaxNetworks)
      BY <1>1, <3>1, <3>3
    <3>6. Len(u) >= MaxNetworks /\ \A i \in 1 .. MaxNetworks : q.slots[i] = u[i]
      BY <1>1, <1>3, <1>4, <2>1, <3>1, <3>3
    <3>7. QED
      BY <3>4, <3>5, <3>6 DEF Follows, u
  <2>4. CASE n < MaxNetworks
    <3>1. q = [num |-> n, cur |-> n + 1, slots |-> [p.slots EXCEPT ![n + 1] = name]]
      BY <1>1, <1>2, <1>7, <2>2, <2>4 DEF ParseLine, Counted
    <3>2. q.num = n /\ q.cur = n + 1 /\ q.slots = [p.slots EXCEPT ![n + 1] = name]
      BY <3>1
    <3> HIDE DEF n, q
    <3>3. q.slots[n + 1] = name /\ \A i \in 1 .. n : q.slots[i] = p.slots[i]
      BY <1>1, <1>2, <2>2, <2>4, <3>2 DEF Slots
    <3>4. Counted(q) = IF name = NoSsid THEN n ELSE n + 1
      BY <2>2, <3>2, <3>3 DEF Counted, Complete
    <3>5. Len(u) = Counted(q)
      BY <1>3, <2>1, <3>4
    <3>6. ASSUME NEW i \in 1 .. Len(u)
          PROVE  q.slots[i] = u[i]
      <4>1. CASE i \in 1 .. n
        BY <1>4, <2>1, <2>2, <3>3, <4>1
      <4>2. CASE i \notin 1 .. n
        <5>1. i = n + 1 /\ name # NoSsid
          BY <2>2, <3>4, <3>5, <4>2
        <5>2. QED
          BY <1>5, <2>1, <3>3, <5>1
      <4>3. QED
        BY <4>1, <4>2
    <3>7. QED
      BY <2>4, <3>2, <3>5, <3>6 DEF Follows, u, q
  <2>5. QED
    BY <1>1, <2>2, <2>3, <2>4
<1>8. QED
  BY <1>1, <1>2, <1>6, <1>7

\* The parser follows what is told through all lines.
LEMMA ParserFollows ==
  ASSUME NEW s \in Slots, NEW lines \in Seq(Ssids)
  PROVE  Follows(Parsing(s, lines)[Len(lines)], Told(lines)[Len(lines)])
<1> DEFINE n == Len(lines)
           p == Parsing(s, lines)
           t == Told(lines)
           A == {k \in 0 .. n : Follows(p[k], t[k])}
<1>1. /\ p \in [0 .. n -> Parsers] /\ p[0] = Unparsed(s)
      /\ \A k \in 1 .. n : p[k] = ParseLine(p[k - 1], lines[k])
  BY ParsingIs
<1>2. /\ t \in [0 .. n -> Seq(Networks)] /\ t[0] = << >>
      /\ \A k \in 1 .. n : t[k] = IF lines[k] = NoSsid THEN t[k - 1] ELSE Append(t[k - 1], lines[k])
  BY ToldIs
<1>3. n \in Nat
  OBVIOUS
<1>4. 0 \in A
  <2>1. Follows(Unparsed(s), << >>)
    BY WifiAssumption DEF Follows, Counted, Complete, Unparsed
  <2> HIDE DEF p, t
  <2>2. Follows(p[0], t[0])
    BY <1>1, <1>2, <2>1
  <2>3. QED
    BY <1>3, <2>2
<1>5. ASSUME NEW k \in 1 .. n, k - 1 \in A
      PROVE  k \in A
  <2>1. lines[k] \in Ssids /\ k - 1 \in 0 .. n /\ k \in 0 .. n
    BY <1>3
  <2> HIDE DEF p, t, n
  <2>2. p[k - 1] \in Parsers /\ t[k - 1] \in Seq(Networks) /\ Follows(p[k - 1], t[k - 1])
    BY <1>1, <1>2, <1>5, <2>1
  <2>3. Follows(ParseLine(p[k - 1], lines[k]),
                IF lines[k] = NoSsid THEN t[k - 1] ELSE Append(t[k - 1], lines[k]))
    BY <2>1, <2>2, LineFollows
  <2>4. QED
    BY <1>1, <1>2, <2>1, <2>3
<1>6. \A k \in 0 .. n : k \in A
  <2> HIDE DEF A, n
  <2>1. QED
    BY <1>3, <1>4, <1>5, Rounds
<1>7. QED
  BY <1>3, <1>6

\* The first m elements of a sequence.
LEMMA FirstOnes ==
  ASSUME NEW S, NEW s, NEW m \in Nat, \A i \in 1 .. m : s[i] \in S
  PROVE  /\ SubSeq(s, 1, m) \in Seq(S) /\ Len(SubSeq(s, 1, m)) = m
         /\ \A i \in 1 .. m : SubSeq(s, 1, m)[i] = s[i]
<1>1. /\ SubSeq(s, 1, m) \in Seq(S)
      /\ Len(SubSeq(s, 1, m)) = IF 1 <= m THEN m - 1 + 1 ELSE 0
      /\ \A i \in 1 .. m - 1 + 1 : SubSeq(s, 1, m)[i] = s[1 + i - 1]
  BY SubSeqProperties
<1>2. QED
  BY <1>1

\* The list of names that Show takes from n results.
Offer(n, s) == SubSeq(s, 1, IF n < MaxNetworks THEN n ELSE MaxNetworks)

\* The reference for a scan is a list of networks, the first of those told.
LEMMA ListedIs ==
  ASSUME NEW lines \in Seq(Ssids)
  PROVE  LET t == Told(lines)[Len(lines)]
             m == IF Len(t) < MaxNetworks THEN Len(t) ELSE MaxNetworks
         IN  /\ t \in Seq(Networks)
             /\ Listed(lines) \in Seq(Networks) /\ Len(Listed(lines)) = m
             /\ \A i \in 1 .. m : Listed(lines)[i] = t[i]
<1> DEFINE t == Told(lines)[Len(lines)]
           m == IF Len(t) < MaxNetworks THEN Len(t) ELSE MaxNetworks
<1>1. t \in Seq(Networks)
  <2>1. Len(lines) \in 0 .. Len(lines)
    OBVIOUS
  <2>2. QED
    BY <2>1, ToldIs
<1>2. Listed(lines) = SubSeq(t, 1, m)
  BY DEF Listed
<1> HIDE DEF t
<1>3. m \in Nat /\ \A i \in 1 .. m : t[i] \in Networks
  BY <1>1, WifiAssumption
<1> HIDE DEF m
<1>4. /\ SubSeq(t, 1, m) \in Seq(Networks) /\ Len(SubSeq(t, 1, m)) = m
      /\ \A i \in 1 .. m : SubSeq(t, 1, m)[i] = t[i]
  BY <1>3, FirstOnes
<1>5. QED
  BY <1>1, <1>2, <1>4 DEF t, m

\* No lines tell of no network.
LEMMA NothingListed == Listed(<< >>) = << >>
<1> DEFINE none == << >>
<1>1. none \in Seq(Ssids) /\ Len(none) = 0
  OBVIOUS
<1> HIDE DEF none
<1>2. Len(Told(none)[Len(none)]) = 0
  <2>1. Told(none)[0] = << >>
    BY <1>1, ToldIs
  <2>2. QED
    BY <1>1, <2>1
<1>3. /\ Listed(none) \in Seq(Networks)
      /\ Len(Listed(none)) = IF Len(Told(none)[Len(none)]) < MaxNetworks
                             THEN Len(Told(none)[Len(none)]) ELSE MaxNetworks
  BY <1>1, ListedIs
<1>4. Len(Listed(none)) = 0
  BY <1>2, <1>3, WifiAssumption
<1>5. Listed(none) = << >>
  BY <1>3, <1>4
<1>6. QED
  BY <1>5 DEF none

\* A scan counts the networks that the reference lists, and one more only
\* when all slots are in use; what Show takes from its slots is that list.
LEMMA ScanIs ==
  ASSUME NEW s \in Slots, NEW lines \in Seq(Ssids)
  PROVE  LET p == Parse(s, lines)
             want == Listed(lines)
         IN  /\ p.num \in 0 .. MaxNetworks + 1 /\ p.slots \in Slots
             /\ p.num >= Len(want)
             /\ p.num > Len(want) => p.num = MaxNetworks + 1 /\ Len(want) = MaxNetworks
             /\ Offer(p.num, p.slots) = want
<1> DEFINE q == Parsing(s, lines)[Len(lines)]
           t == Told(lines)[Len(lines)]
           p == Parse(s, lines)
           want == Listed(lines)
<1>1. q \in Parsers
  <2>1. Len(lines) \in 0 .. Len(lines)
    OBVIOUS
  <2>2. QED
    BY <2>1, ParsingIs
<1>2. Follows(q, t)
  BY ParserFollows
<1>3. MaxNetworks \in Nat \ {0}
  BY WifiAssumption
<1>4. p = [q EXCEPT !.num = IF Complete(q) THEN @ + 1 ELSE @]
  BY DEF Parse
<1>5. t \in Seq(Networks) /\ want \in Seq(Networks)
  BY ListedIs
<1>6. /\ Len(want) = IF Len(t) < MaxNetworks THEN Len(t) ELSE MaxNetworks
      /\ \A i \in 1 .. Len(want) : want[i] = t[i]
  BY ListedIs
<1> HIDE DEF p, q, t, want
<1>7. /\ p.num = Counted(q) /\ p.slots = q.slots
      /\ q.num \in 0 .. MaxNetworks /\ q.slots \in Slots
  BY <1>1, <1>4 DEF Parsers, Counted
<1>8. Len(t) \in Nat
  BY <1>5
<1>9. /\ p.num \in 0 .. MaxNetworks + 1
      /\ p.num >= Len(want)
      /\ p.num > Len(want) => p.num = MaxNetworks + 1 /\ Len(want) = MaxNetworks
      /\ Len(want) = IF p.num < MaxNetworks THEN p.num ELSE MaxNetworks
      /\ \A i \in 1 .. Len(want) : p.slots[i] = t[i]
  BY <1>2, <1>3, <1>6, <1>7, <1>8 DEF Follows, Counted
<1>10. Offer(p.num, p.slots) = want
  <2> DEFINE m == Len(want)
  <2>1. Offer(p.num, p.slots) = SubSeq(p.slots, 1, m)
    BY <1>9 DEF Offer
  <2>2. m \in Nat /\ \A i \in 1 .. m : want[i] \in Networks /\ p.slots[i] = want[i]
    BY <1>5, <1>6, <1>9
  <2> HIDE DEF m
  <2>3. /\ SubSeq(p.slots, 1, m) \in Seq(Networks) /\ Len(SubSeq(p.slots, 1, m)) = m
        /\ \A i \in 1 .. m : SubSeq(p.slots, 1, m)[i] = p.slots[i]
    BY <2>2, FirstOnes
  <2> DEFINE o == SubSeq(p.slots, 1, m)
  <2>4. o \in Seq(Networks) /\ Len(o) = Len(want) /\ \A i \in 1 .. Len(o) : o[i] = want[i]
    BY <2>2, <2>3 DEF m
  <2> HIDE DEF o
  <2>5. o = want
    BY <1>5, <2>4, SeqEqual
  <2>6. QED
    BY <2>1, <2>5 DEF o
<1>11. QED
  BY <1>7, <1>9, <1>10 DEF p, want

\* What the manager may believe: a name exactly when it claims a link.
Beliefs ==
  {w \in [enabled : BOOLEAN, connected : BOOLEAN, current_ssid : Ssids] :
     w.connected <=> w.current_ssid # NoSsid}

LinkInv ==
  /\ initialized \in BOOLEAN /\ wifi \in Beliefs
  /\ up \in BOOLEAN /\ wanted \in Ssids /\ link \in Ssids
  /\ link # NoSsid => up

\* The slots hold what the dropdown should offer as long as any are counted:
\* a scan that fails shows the results of the scan before it once more.
ScanInv ==
  /\ num \in 0 .. MaxNetworks + 1 /\ slots \in Slots
  /\ offered \in Seq(Networks) /\ tool \in Tools
  /\ num > 0 => Offer(num, slots) = expected
  /\ ScanIsExact

\* An update and a connection leave a belief.
LEMMA UpdatedType ==
  ASSUME NEW w \in Beliefs, NEW isDown \in BOOLEAN, NEW answers \in BOOLEAN, link \in Ssids
  PROVE  Updated(w, isDown, answers) \in Beliefs
BY DEF Updated, Beliefs

LEMMA ConnectKeeps ==
  ASSUME LinkInv, NEW w \in Beliefs, NEW ssid \in Ssids, ssid # NoSsid, NEW succeeds \in BOOLEAN,
         Connect(w, ssid, succeeds)
  PROVE  /\ wifi' \in Beliefs
         /\ up' \in BOOLEAN /\ wanted' \in Ssids /\ link' \in Ssids
         /\ link' # NoSsid => up'
<1>1. Believed(w, ssid) \in Beliefs
  BY DEF Believed, Beliefs
<1>2. NoSsid \in Ssids
  BY DEF Ssids
<1>3. QED
  BY <1>1, <1>2 DEF Connect, LinkInv

\* At first nothing was heard.
LEMMA WifiInitHolds ==
  ASSUME WifiInit
  PROVE  LinkInv /\ ScanInv
<1>1. NoSsid \in Ssids
  BY DEF Ssids
<1>2. LinkInv
  BY <1>1 DEF WifiInit, LinkInv, Beliefs
<1>3. tool = "none" /\ num = 0 /\ found = 0 /\ expected = offered
  BY DEF WifiInit
<1>4. slots \in Slots
  BY <1>1 DEF WifiInit, Slots
<1>5. offered \in Seq(Networks)
  <2>1. offered = << >> \/ \E n \in Networks : offered = <<n>>
    BY DEF WifiInit
  <2>2. \A n \in Networks : <<n>> \in Seq(Networks)
    OBVIOUS
  <2>3. << >> \in Seq(Networks)
    OBVIOUS
  <2>4. QED
    BY <2>1, <2>2, <2>3, Zenon
<1>6. ScanIsExact
  BY <1>3 DEF ScanIsExact
<1>7. QED
  BY <1>2, <1>3, <1>4, <1>5, <1>6, WifiAssumption DEF ScanInv, Tools

\* Every step keeps the belief and the world together.
LEMMA LinkStep ==
  ASSUME LinkInv, offered \in Seq(Networks), [WifiNext]_wifiVars
  PROVE  LinkInv'
<1> USE DEF LinkInv
<1>a. NoSsid \in Ssids /\ Networks \subseteq Ssids /\ NoSsid \notin Networks
  BY WifiAssumption DEF Ssids
<1>1. ASSUME NEW n \in Ssids, Start(n)
      PROVE  LinkInv'
  <2>1. PICK isDown \in DownStates, answers \in BOOLEAN, succeeds \in BOOLEAN :
          LET w == Updated([wifi EXCEPT !.enabled = TRUE], isDown, answers) IN
          IF ~w.connected /\ n # NoSsid /\ w.enabled
          THEN Connect(w, n, succeeds)
          ELSE wifi' = w /\ UNCHANGED world
    BY <1>1 DEF Start
  <2> DEFINE w == Updated([wifi EXCEPT !.enabled = TRUE], isDown, answers)
  <2>2. isDown \in BOOLEAN
    BY DEF DownStates
  <2>3. [wifi EXCEPT !.enabled = TRUE] \in Beliefs
    BY DEF Beliefs
  <2>4. w \in Beliefs
    BY <2>2, <2>3, UpdatedType
  <2>5. initialized' \in BOOLEAN
    BY <1>1 DEF Start
  <2> HIDE DEF w
  <2>6. CASE ~w.connected /\ n # NoSsid /\ w.enabled
    <3>1. Connect(w, n, succeeds)
      BY <2>1, <2>6 DEF w
    <3>2. QED
      BY <2>4, <2>5, <2>6, <3>1, ConnectKeeps
  <2>7. CASE ~(~w.connected /\ n # NoSsid /\ w.enabled)
    <3>1. wifi' = w /\ UNCHANGED world
      BY <2>1, <2>7 DEF w
    <3>2. QED
      BY <2>4, <2>5, <3>1 DEF world
  <2>8. QED
    BY <2>6, <2>7
<1>2. CASE wifi_mgr_update
  <2>1. PICK isDown \in DownStates, answers \in BOOLEAN : wifi' = Updated(wifi, isDown, answers)
    BY <1>2 DEF wifi_mgr_update
  <2>2. isDown \in BOOLEAN
    BY DEF DownStates
  <2>3. wifi' \in Beliefs
    BY <2>1, <2>2, UpdatedType
  <2>4. QED
    BY <1>2, <2>3 DEF wifi_mgr_update, world
<1>3. ASSUME NEW e \in BOOLEAN, wifi_mgr_set_enabled(e)
      PROVE  LinkInv'
  <2>1. wifi' \in Beliefs
    BY <1>a, <1>3 DEF wifi_mgr_set_enabled, Beliefs
  <2>2. QED
    BY <1>a, <1>3, <2>1 DEF wifi_mgr_set_enabled
<1>4. ASSUME NEW i \in 1 .. Len(offered), wifi_mgr_connect(offered[i])
      PROVE  LinkInv'
  <2> DEFINE n == offered[i]
  <2>1. PICK succeeds \in BOOLEAN : Connect(wifi, n, succeeds)
    BY <1>4 DEF wifi_mgr_connect
  <2>2. n \in Ssids /\ n # NoSsid
    BY <1>a
  <2>3. initialized' = initialized
    BY <1>4 DEF wifi_mgr_connect
  <2>4. QED
    BY <2>1, <2>2, <2>3, ConnectKeeps
<1>5. ASSUME NEW lines \in Heard, Scan(lines)
      PROVE  LinkInv'
  BY <1>5 DEF Scan, belief, world
<1>6. ASSUME NEW lines \in Heard, ScanWithIwlist(lines)
      PROVE  LinkInv'
  BY <1>6 DEF ScanWithIwlist, belief, world
<1>7. CASE ScanFails
  BY <1>7 DEF ScanFails, belief, world
<1>8. CASE Associate
  BY <1>8 DEF Associate, belief
<1>9. CASE LoseLink
  BY <1>a, <1>9 DEF LoseLink, belief
<1>10. CASE UNCHANGED wifiVars
  BY <1>10 DEF wifiVars, belief, world
<1>11. QED
  BY <1>1, <1>2, <1>3, <1>4, <1>5, <1>6, <1>7, <1>8, <1>9, <1>10 DEF WifiNext

\* Every step keeps the list and the results together.
LEMMA ScanStep ==
  ASSUME ScanInv, [WifiNext]_wifiVars
  PROVE  ScanInv'
<1>a. MaxNetworks \in Nat \ {0} /\ MaxLines \in Nat
  BY WifiAssumption
<1>b. ASSUME UNCHANGED scanned
      PROVE  ScanInv'
  BY <1>b DEF ScanInv, ScanIsExact, Offer, scanned, output
<1>1. ASSUME NEW n \in Ssids, Start(n)
      PROVE  ScanInv'
  BY <1>1, <1>b DEF Start
<1>2. CASE wifi_mgr_update
  BY <1>2, <1>b DEF wifi_mgr_update
<1>3. ASSUME NEW e \in BOOLEAN, wifi_mgr_set_enabled(e)
      PROVE  ScanInv'
  BY <1>3, <1>b DEF wifi_mgr_set_enabled
<1>4. ASSUME NEW n, wifi_mgr_connect(n)
      PROVE  ScanInv'
  BY <1>4, <1>b DEF wifi_mgr_connect
<1>5. ASSUME NEW lines \in Heard, Scan(lines)
      PROVE  ScanInv'
  <2> DEFINE p == Parse(slots, lines)
  <2>1. lines \in Seq(Ssids)
    BY DEF Heard
  <2>2. slots \in Slots /\ offered \in Seq(Networks) /\ offered = expected
    BY DEF ScanInv, ScanIsExact
  <2>3. /\ p.num \in 0 .. MaxNetworks + 1 /\ p.slots \in Slots
        /\ p.num >= Len(Listed(lines))
        /\ p.num > Len(Listed(lines)) => p.num = MaxNetworks + 1 /\ Len(Listed(lines)) = MaxNetworks
        /\ Offer(p.num, p.slots) = Listed(lines)
    BY <2>1, <2>2, ScanIs
  <2>4. /\ num' = p.num /\ slots' = p.slots /\ found' = num'
        /\ tool' = "iw" /\ heard' = lines
        /\ expected' = IF Listed(lines) # << >> THEN Listed(lines) ELSE expected
    BY <1>5 DEF Scan, Show
  <2>5. offered' = IF num' > 0 THEN Offer(num', slots') ELSE offered
    BY <1>5 DEF Scan, Show, Offer
  <2>6. Listed(lines) \in Seq(Networks)
    BY <2>1, ListedIs
  <2> HIDE DEF p
  <2>7. num' > 0 <=> Listed(lines) # << >>
    <3>1. Len(Listed(lines)) \in Nat /\ (Listed(lines) = << >> <=> Len(Listed(lines)) = 0)
      BY <2>6
    <3>2. QED
      BY <1>a, <2>3, <2>4, <3>1
  <2>8. /\ offered' \in Seq(Networks) /\ offered' = expected'
        /\ num' > 0 => Offer(num', slots') = expected'
    BY <2>2, <2>3, <2>4, <2>5, <2>6, <2>7
  <2>9. ScanIsExact'
    <3>1. Len(Listed(lines)) \in Nat
      BY <2>6
    <3>2. num' = Len(Listed(lines)) \/ (num' = MaxNetworks + 1 /\ Len(Listed(lines)) = MaxNetworks)
      BY <2>3, <2>4, <3>1
    <3>3. QED
      BY <2>4, <2>8, <3>2 DEF ScanIsExact
  <2>10. QED
    BY <2>3, <2>4, <2>8, <2>9 DEF ScanInv, Offer, Tools
<1>6. ASSUME NEW lines \in Heard, ScanWithIwlist(lines)
      PROVE  ScanInv'
  <2> DEFINE none == << >>
             p == Parse(slots, none)
  <2>1. none \in Seq(Ssids) /\ Len(Listed(none)) = 0 /\ slots \in Slots
    BY NothingListed DEF ScanInv
  <2>2. /\ p.num \in 0 .. MaxNetworks + 1 /\ p.slots \in Slots
        /\ p.num > Len(Listed(none)) => p.num = MaxNetworks + 1 /\ Len(Listed(none)) = MaxNetworks
    <3> HIDE DEF none
    <3>1. QED
      BY <2>1, ScanIs
  <2>3. p.num = 0
    BY <1>a, <2>1, <2>2
  <2>4. /\ num' = p.num /\ slots' = p.slots /\ found' = num' /\ tool' = "iwlist"
        /\ expected' = expected
        /\ offered' = IF num' > 0 THEN Offer(num', slots') ELSE offered
    BY <1>6 DEF ScanWithIwlist, Show, Offer
  <2> HIDE DEF p
  <2>5. offered' = offered /\ offered = expected /\ offered \in Seq(Networks)
    BY <2>3, <2>4 DEF ScanInv, ScanIsExact
  <2>6. ScanIsExact'
    BY <2>3, <2>4, <2>5 DEF ScanIsExact
  <2>7. QED
    BY <2>2, <2>3, <2>4, <2>5, <2>6 DEF ScanInv, Tools
<1>7. CASE ScanFails
  <2>1. /\ UNCHANGED <<num, slots, tool, heard, expected>> /\ found' = num
        /\ offered' = IF num > 0 THEN Offer(num, slots) ELSE offered
    BY <1>7 DEF ScanFails, Show, Offer, output
  <2>2. offered' = offered
    BY <2>1 DEF ScanInv, ScanIsExact
  <2>3. QED
    BY <2>1, <2>2 DEF ScanInv, ScanIsExact, Offer
<1>8. CASE Associate
  BY <1>8, <1>b DEF Associate
<1>9. CASE LoseLink
  BY <1>9, <1>b DEF LoseLink
<1>10. CASE UNCHANGED wifiVars
  BY <1>10, <1>b DEF wifiVars
<1>11. QED
  BY <1>1, <1>2, <1>3, <1>4, <1>5, <1>6, <1>7, <1>8, <1>9, <1>10 DEF WifiNext

\* The types hold, and with them that a name is believed exactly when a link
\* is: after every update, connection, failure and change of the switch.
THEOREM WifiTypesHold == WifiSpec => []WifiTypeOK
<1>1. WifiInit => LinkInv /\ ScanInv
  BY WifiInitHolds
<1>2. LinkInv /\ ScanInv /\ [WifiNext]_wifiVars => (LinkInv /\ ScanInv)'
  BY LinkStep, ScanStep DEF ScanInv
<1>3. LinkInv /\ ScanInv => WifiTypeOK
  BY DEF LinkInv, ScanInv, Beliefs, Slots, WifiTypeOK, ScanIsExact
<1>4. QED
  BY <1>1, <1>2, <1>3, PTL DEF WifiSpec

\* Whatever iw prints, and whichever scans fail or fall back to iwlist, the
\* count is that of the names in the output that was kept, only a full array
\* lets it be one too many, and what the dropdown offers is what the last
\* scan with a name to list has found.
THEOREM ScansAreExact == WifiSpec => []ScanIsExact
<1>1. WifiInit => ScanInv
  BY WifiInitHolds
<1>2. ScanInv /\ [WifiNext]_wifiVars => ScanInv'
  BY ScanStep
<1>3. ScanInv => ScanIsExact
  BY DEF ScanInv
<1>4. QED
  BY <1>1, <1>2, <1>3, PTL DEF WifiSpec

-----------------------------------------------------------------------------
(***************************************************************************)
(* The cards of the dashboard (ui_dashboard_update).                       *)
(***************************************************************************)

\* The places are what the loop makes of them.
LEMMA VisibleIs ==
  ASSUME NEW rows \in Seq(Names)
  PROVE  /\ Visible(rows) \in [0 .. Len(rows) -> Seq(Nat)]
         /\ Visible(rows)[0] = << >>
         /\ \A k \in 1 .. Len(rows) :
              Visible(rows)[k] = IF rows[k] \in Hidden THEN Visible(rows)[k - 1]
                                 ELSE Append(Visible(rows)[k - 1], k)
<1> DEFINE n == Len(rows)
           Add(k, q) == IF rows[k] \in Hidden THEN q ELSE Append(q, k)
           Rule(g) == g = [k \in 0 .. n |-> IF k = 0 THEN << >>
                                            ELSE IF rows[k] \in Hidden THEN g[k - 1]
                                            ELSE Append(g[k - 1], k)]
           step == [k \in 1 .. n |-> [q \in Seq(Nat) |-> Add(k, q)]]
           f == Visible(rows)
<1>1. n \in Nat /\ << >> \in Seq(Nat)
  OBVIOUS
<1>a. ASSUME NEW k \in 1 .. n, NEW q \in Seq(Nat)
      PROVE  Add(k, q) \in Seq(Nat)
  OBVIOUS
<1>2. step \in [1 .. n -> [Seq(Nat) -> Seq(Nat)]]
  <2> HIDE DEF Add
  <2>1. QED
    BY <1>a
<1>3. \E g : Rule(g)
  <2>1. PICK g : Runs(g, n, Seq(Nat), << >>, step)
    <3> HIDE DEF step, n
    <3>1. QED
      BY <1>1, <1>2, Loop
  <2>2. ASSUME NEW k \in 1 .. n
        PROVE  g[k] = Add(k, g[k - 1])
    <3>1. k - 1 \in 0 .. n
      BY <1>1
    <3>2. g[k - 1] \in Seq(Nat) /\ g[k] = step[k][g[k - 1]]
      BY <2>1, <3>1 DEF Runs
    <3> HIDE DEF Add
    <3>3. QED
      BY <3>2
  <2>3. g = [k \in 0 .. n |-> IF k = 0 THEN << >> ELSE Add(k, g[k - 1])]
    <3> HIDE DEF Add
    <3>1. QED
      BY <2>1, <2>2 DEF Runs
  <2>4. QED
    BY <2>3
<1>4. Rule(f)
  <2>1. f = CHOOSE g : Rule(g)
    BY DEF Visible
  <2> HIDE DEF Rule, f
  <2>2. QED
    BY <1>3, <2>1
<1>5. f[0] = << >> /\ \A k \in 1 .. n : f[k] = Add(k, f[k - 1])
  <2> HIDE DEF f, n
  <2>1. f[0] = << >>
    BY <1>1, <1>4
  <2>2. ASSUME NEW k \in 1 .. n
        PROVE  f[k] = Add(k, f[k - 1])
    <3>1. k \in 0 .. n /\ k # 0
      BY <1>1
    <3>2. QED
      BY <1>4, <3>1
  <2>3. QED
    BY <2>1, <2>2
<1>6. \A k \in 0 .. n : f[k] \in Seq(Nat)
  <2> DEFINE A == {k \in 0 .. n : f[k] \in Seq(Nat)}
  <2>1. 0 \in A
    <3>1. f[0] \in Seq(Nat)
      <4> HIDE DEF f, Add, n
      <4>1. QED
        BY <1>1, <1>5
    <3>2. 0 \in 0 .. n
      BY <1>1
    <3> HIDE DEF f, n
    <3>3. QED
      BY <3>1, <3>2
  <2>2. ASSUME NEW k \in 1 .. n, k - 1 \in A
        PROVE  k \in A
    <3> HIDE DEF f, Add
    <3>1. QED
      BY <1>5, <1>a, <2>2
  <2>3. \A k \in 0 .. n : k \in A
    <3> HIDE DEF A, n
    <3>1. QED
      BY <1>1, <2>1, <2>2, Rounds
  <2>4. QED
    BY <2>3
<1>7. QED
  <2> HIDE DEF f
  <2>1. f \in [0 .. n -> Seq(Nat)]
    BY <1>4, <1>6
  <2>2. QED
    BY <1>5, <2>1 DEF f

\* What v, the places among the first k rows, is: each is the place of a row,
\* none comes before its own number, and where no row up to it is hidden it
\* is its own number.
Places(rows, k, v) ==
  /\ Len(v) <= k
  /\ \A c \in 1 .. Len(v) : v[c] \in 1 .. k /\ c <= v[c]
  /\ \A c \in 1 .. Len(v) : (\A i \in 1 .. v[c] : rows[i] \notin Hidden) => v[c] = c
  /\ (\A i \in 1 .. k : rows[i] \notin Hidden) => Len(v) = k

LEMMA PlacesGrow ==
  ASSUME NEW rows, NEW k \in Nat \ {0}, NEW v \in Seq(Nat), Places(rows, k - 1, v)
  PROVE  Places(rows, k, IF rows[k] \in Hidden THEN v ELSE Append(v, k))
<1>1. Len(v) \in Nat
  OBVIOUS
<1>2. ASSUME NEW c \in 1 .. Len(v)
      PROVE  v[c] \in 1 .. k - 1 /\ c <= v[c] /\ v[c] \in 1 .. k
  BY DEF Places
<1>3. CASE rows[k] \in Hidden
  <2>1. Places(rows, k, v)
    BY <1>1, <1>2, <1>3 DEF Places
  <2>2. QED
    BY <1>3, <2>1
<1>4. CASE rows[k] \notin Hidden
  <2> DEFINE w == Append(v, k)
  <2>1. Len(w) = Len(v) + 1 /\ w[Len(v) + 1] = k /\ \A c \in 1 .. Len(v) : w[c] = v[c]
    OBVIOUS
  <2> HIDE DEF w
  <2>2. ASSUME NEW c \in 1 .. Len(w)
        PROVE  /\ w[c] \in 1 .. k /\ c <= w[c]
               /\ (\A i \in 1 .. w[c] : rows[i] \notin Hidden) => w[c] = c
    <3>1. CASE c \in 1 .. Len(v)
      BY <1>2, <2>1, <3>1 DEF Places
    <3>2. CASE c \notin 1 .. Len(v)
      <4>1. c = Len(v) + 1 /\ w[c] = k
        BY <1>1, <2>1, <3>2
      <4>2. c <= k
        BY <1>1, <4>1 DEF Places
      <4>3. ASSUME \A i \in 1 .. w[c] : rows[i] \notin Hidden
            PROVE  w[c] = c
        <5>1. \A i \in 1 .. k - 1 : rows[i] \notin Hidden
          BY <4>1, <4>3
        <5>2. QED
          BY <4>1, <5>1 DEF Places
      <4>4. QED
        BY <4>1, <4>2, <4>3
    <3>3. QED
      BY <3>1, <3>2
  <2>3. Len(w) <= k
    BY <1>1, <2>1 DEF Places
  <2>4. (\A i \in 1 .. k : rows[i] \notin Hidden) => Len(w) = k
    BY <1>1, <2>1 DEF Places
  <2>5. Places(rows, k, w)
    BY <2>2, <2>3, <2>4 DEF Places
  <2>6. QED
    BY <1>4, <2>5 DEF w
<1>5. QED
  BY <1>3, <1>4

LEMMA PlacesAre ==
  ASSUME NEW rows \in Seq(Names)
  PROVE  Places(rows, Len(rows), Visible(rows)[Len(rows)])
<1> DEFINE n == Len(rows)
           v == Visible(rows)
           A == {k \in 0 .. n : Places(rows, k, v[k])}
<1>1. /\ v \in [0 .. n -> Seq(Nat)] /\ v[0] = << >>
      /\ \A k \in 1 .. n : v[k] = IF rows[k] \in Hidden THEN v[k - 1] ELSE Append(v[k - 1], k)
  BY VisibleIs
<1>2. n \in Nat
  OBVIOUS
<1>3. 0 \in A
  <2>1. Places(rows, 0, << >>)
    BY DEF Places
  <2> HIDE DEF v
  <2>2. Places(rows, 0, v[0])
    BY <1>1, <2>1
  <2>3. QED
    BY <1>2, <2>2
<1>4. ASSUME NEW k \in 1 .. n, k - 1 \in A
      PROVE  k \in A
  <2>1. k - 1 \in 0 .. n /\ k \in 0 .. n /\ k \in Nat \ {0}
    BY <1>2
  <2> HIDE DEF v, n
  <2>2. v[k - 1] \in Seq(Nat) /\ Places(rows, k - 1, v[k - 1])
    BY <1>1, <1>4, <2>1
  <2>3. Places(rows, k, IF rows[k] \in Hidden THEN v[k - 1] ELSE Append(v[k - 1], k))
    BY <2>1, <2>2, PlacesGrow
  <2>4. QED
    BY <1>1, <2>1, <2>3
<1>5. \A k \in 0 .. n : k \in A
  <2> HIDE DEF A, n
  <2>1. QED
    BY <1>2, <1>3, <1>4, Rounds
<1>6. QED
  BY <1>2, <1>5

\* A row more changes no place before it.
LEMMA VisibleGrows ==
  ASSUME NEW rows \in Seq(Names), NEW x \in Names
  PROVE  LET v == Visible(rows)[Len(rows)]
             w == Visible(Append(rows, x))[Len(rows) + 1]
         IN  w = IF x \in Hidden THEN v ELSE Append(v, Len(rows) + 1)
<1> DEFINE n == Len(rows)
           more == Append(rows, x)
           v == Visible(rows)
           w == Visible(more)
           A == {k \in 0 .. n : w[k] = v[k]}
<1>1. n \in Nat /\ more \in Seq(Names) /\ Len(more) = n + 1
  OBVIOUS
<1>2. more[n + 1] = x /\ \A k \in 1 .. n : more[k] = rows[k]
  OBVIOUS
<1>3. /\ v[0] = << >>
      /\ \A k \in 1 .. n : v[k] = IF rows[k] \in Hidden THEN v[k - 1] ELSE Append(v[k - 1], k)
  BY VisibleIs
<1>4. /\ w[0] = << >>
      /\ \A k \in 1 .. Len(more) :
           w[k] = IF more[k] \in Hidden THEN w[k - 1] ELSE Append(w[k - 1], k)
  <2> HIDE DEF more
  <2>1. QED
    BY <1>1, VisibleIs
<1> HIDE DEF v, w, more, n
<1>5. 0 \in A
  BY <1>1, <1>3, <1>4
<1>6. ASSUME NEW k \in 1 .. n, k - 1 \in A
      PROVE  k \in A
  <2>1. k \in 1 .. Len(more) /\ k \in 0 .. n
    BY <1>1
  <2>2. QED
    BY <1>2, <1>3, <1>4, <1>6, <2>1
<1>7. \A k \in 0 .. n : k \in A
  <2> HIDE DEF A
  <2>1. QED
    BY <1>1, <1>5, <1>6, Rounds
<1>8. w[n] = v[n]
  BY <1>1, <1>7
<1>9. w[n + 1] = IF x \in Hidden THEN w[n] ELSE Append(w[n], n + 1)
  <2>1. PICK j \in 1 .. Len(more) : j = n + 1
    BY <1>1
  <2>2. w[j] = IF more[j] \in Hidden THEN w[j - 1] ELSE Append(w[j - 1], j)
    BY <1>4
  <2>3. j - 1 = n /\ more[j] = x
    BY <1>1, <1>2, <2>1
  <2>4. QED
    BY <2>1, <2>2, <2>3
<1>10. QED
  BY <1>8, <1>9 DEF v, w, n, more

-----------------------------------------------------------------------------
(***************************************************************************)
(* The cards and the chart, through every visit.                           *)
(***************************************************************************)

\* The table only grows, so the cards that are there stay the first of those
\* that belong there, and each keeps the name at its own place.
CardInv ==
  /\ table \in Seq(Names)
  /\ cards \in Seq(Nat) /\ Len(cards) <= Len(Shown)
  /\ \A c \in 1 .. Len(cards) : cards[c] = Shown[c] /\ labels[c] = table[c]

\* Likewise the entries of the selector.  The selection is an entry of the
\* table as soon as there is one, and the rows with a history are rows.
ChartInv ==
  /\ table \in Seq(Names)
  /\ options \in Seq(Names) /\ Len(options) <= Len(table)
  /\ \A i \in 1 .. Len(options) : options[i] = table[i]
  /\ g_selected_iface \in Nat \ {0}
  /\ g_selected_iface = 1 \/ g_selected_iface <= Len(table)
  /\ flushed \in Nat /\ flushed <= Len(table) /\ due \in BOOLEAN
  /\ charted # Nothing => totals # Nothing
  /\ SelectionIsCharted

\* The places of the interfaces with a card.
LEMMA ShownIs ==
  ASSUME table \in Seq(Names)
  PROVE  Shown \in Seq(Nat) /\ Places(table, Len(table), Shown)
<1>1. Len(table) \in 0 .. Len(table)
  OBVIOUS
<1>2. Shown \in Seq(Nat)
  BY <1>1, VisibleIs DEF Shown
<1>3. QED
  BY <1>2, PlacesAre DEF Shown

\* The update completes the cards: after it there is one for each.
LEMMA CardsCompleteIs ==
  ASSUME CardInv
  PROVE  CardsComplete = Shown
<1> DEFINE n == Len(cards)
           N == Len(Shown)
           rest == SubSeq(Shown, n + 1, N)
           both == cards \o rest
<1>1. Shown \in Seq(Nat)
  BY ShownIs DEF CardInv
<1>2. /\ cards \in Seq(Nat) /\ n \in Nat /\ N \in Nat /\ n <= N
      /\ \A c \in 1 .. n : cards[c] = Shown[c]
  BY <1>1 DEF CardInv
<1>3. /\ rest \in Seq(Nat) /\ Len(rest) = N - n
      /\ \A i \in 1 .. N - n : rest[i] = Shown[n + i]
  <2>1. \A i \in n + 1 .. N : Shown[i] \in Nat
    BY <1>1, <1>2
  <2> HIDE DEF n, N
  <2>2. /\ rest \in Seq(Nat) /\ Len(rest) = IF n + 1 <= N THEN N - (n + 1) + 1 ELSE 0
        /\ \A i \in 1 .. N - (n + 1) + 1 : rest[i] = Shown[n + 1 + i - 1]
    BY <1>2, <2>1, SubSeqProperties
  <2> HIDE DEF rest
  <2>3. QED
    BY <1>2, <2>2
<1> HIDE DEF rest
<1>4. /\ both \in Seq(Nat) /\ Len(both) = n + Len(rest)
      /\ \A i \in 1 .. Len(both) : both[i] = IF i <= n THEN cards[i] ELSE rest[i - n]
  BY <1>2, <1>3, ConcatProperties
<1> HIDE DEF both, n, N
<1>5. Len(both) = N
  BY <1>2, <1>3, <1>4
<1>6. ASSUME NEW i \in 1 .. Len(both)
      PROVE  both[i] = Shown[i]
  <2>1. CASE i <= n
    BY <1>2, <1>4, <2>1
  <2>2. CASE ~(i <= n)
    <3>1. i - n \in 1 .. N - n /\ n + (i - n) = i
      BY <1>2, <1>5, <2>2
    <3>2. both[i] = rest[i - n] /\ rest[i - n] = Shown[n + (i - n)]
      BY <1>3, <1>4, <2>2, <3>1
    <3>3. QED
      BY <3>1, <3>2
  <2>3. QED
    BY <2>1, <2>2
<1>7. both = Shown
  BY <1>1, <1>4, <1>5, <1>6, SeqEqual DEF N
<1>8. QED
  BY <1>7 DEF CardsComplete, both, rest, n, N

LEMMA CardsUpdate ==
  ASSUME CardInv, ui_dashboard_update, table' = table
  PROVE  CardInv'
<1>1. Shown \in Seq(Nat)
  BY ShownIs DEF CardInv
<1>2. cards' = Shown /\ labels' = [i \in 1 .. Len(cards') |-> table[i]]
  BY CardsCompleteIs DEF ui_dashboard_update
<1>3. Shown' = Shown
  BY DEF Shown
<1>4. ASSUME NEW c \in 1 .. Len(cards')
      PROVE  cards'[c] = Shown'[c] /\ labels'[c] = table'[c]
  BY <1>2, <1>3
<1>5. Len(cards') <= Len(Shown')
  <2>1. Len(Shown) \in Nat
    BY <1>1
  <2>2. QED
    BY <1>2, <1>3, <2>1
<1>6. table' \in Seq(Names) /\ cards' \in Seq(Nat)
  BY <1>1, <1>2 DEF CardInv
<1>7. QED
  BY <1>4, <1>5, <1>6 DEF CardInv

LEMMA CardsStay ==
  ASSUME CardInv, UNCHANGED board, table' = table
  PROVE  CardInv'
<1>1. Shown' = Shown
  BY DEF Shown
<1>2. QED
  BY <1>1 DEF CardInv, board

\* An update of the traffic screen, also its first and one that a choice in
\* the selector causes.
LEMMA ChartUpdate ==
  ASSUME ChartInv, UNCHANGED <<table, flushed>>,
         NEW opts \in {options, table}, NEW sel \in Nat \ {0},
         sel = 1 \/ sel <= Len(table),
         ui_traffic_update(opts, sel)
  PROVE  ChartInv'
<1> DEFINE text == IF sel <= Len(opts) THEN opts[sel] ELSE Nothing
           last == IF sel <= Len(table) THEN sel ELSE 1
<1>1. /\ options' = IF sel <= Len(table) /\ text # table[sel] THEN table ELSE opts
      /\ g_selected_iface' = last
      /\ totals' = IF table = << >> THEN totals ELSE table[last]
      /\ charted' = IF last <= flushed THEN table[last] ELSE charted
      /\ due' = FALSE
  BY DEF ui_traffic_update, Options
<1>2. /\ table \in Seq(Names) /\ Len(table) \in Nat
      /\ opts \in Seq(Names) /\ Len(opts) \in Nat /\ Len(opts) <= Len(table)
      /\ \A i \in 1 .. Len(opts) : opts[i] = table[i]
      /\ flushed \in Nat /\ flushed <= Len(table)
      /\ charted # Nothing => totals # Nothing
  BY DEF ChartInv
<1>3. last \in Nat \ {0} /\ (last = 1 \/ last <= Len(table))
  OBVIOUS
<1>4. /\ options' \in Seq(Names) /\ Len(options') <= Len(table)
      /\ \A i \in 1 .. Len(options') : options'[i] = table[i]
  BY <1>1, <1>2
<1>5. CASE table = << >>
  <2>1. Len(table) = 0 /\ Len(options) \in Nat /\ Len(options) <= Len(table)
    BY <1>5 DEF ChartInv
  <2>2. totals = Nothing /\ charted = Nothing
    <3>1. g_selected_iface \in Nat \ {0} /\ ~(g_selected_iface <= Len(options))
      BY <2>1 DEF ChartInv
    <3>2. QED
      BY <1>2, <3>1 DEF ChartInv, SelectionIsCharted
  <2>3. totals' = Nothing /\ charted' = Nothing
    BY <1>1, <1>2, <1>3, <1>5, <2>1, <2>2
  <2> HIDE DEF last, text
  <2>4. QED
    BY <1>1, <1>2, <1>3, <1>4, <2>3 DEF ChartInv, SelectionIsCharted
<1>6. CASE table # << >>
  <2>1. Len(table) >= 1
    BY <1>2, <1>6
  <2>2. sel <= Len(table) /\ last = sel /\ table[sel] \in Names
    BY <1>2, <2>1
  <2>3. totals' = table[sel] /\ g_selected_iface' = sel /\ table[sel] # Nothing
    BY <1>1, <1>6, <2>2, UiAssumption
  <2>4. g_selected_iface' <= Len(options') /\ options'[g_selected_iface'] = totals'
    <3>1. CASE text # table[sel]
      BY <1>1, <2>2, <2>3, <3>1
    <3>2. CASE text = table[sel]
      <4>1. options' = opts
        BY <1>1, <3>2
      <4>2. sel <= Len(opts) /\ opts[sel] = table[sel]
        BY <2>3, <3>2
      <4>3. QED
        BY <2>3, <4>1, <4>2
    <3>3. QED
      BY <3>1, <3>2
  <2>5. charted' = totals' \/ g_selected_iface' > flushed
    BY <1>1, <1>2, <2>2, <2>3
  <2>6. SelectionIsCharted'
    BY <2>4, <2>5 DEF SelectionIsCharted
  <2>7. charted' # Nothing => totals' # Nothing
    BY <2>3
  <2> HIDE DEF last, text
  <2>8. QED
    BY <1>1, <1>2, <1>3, <1>4, <2>6, <2>7 DEF ChartInv
<1>7. QED
  BY <1>5, <1>6

LEMMA ChartStays ==
  ASSUME ChartInv, UNCHANGED chart, UNCHANGED <<table, flushed>>
  PROVE  ChartInv'
BY DEF ChartInv, SelectionIsCharted, chart

\* The end of a minute leaves the lines as they are: the row whose lines are
\* missing is due for them.
LEMMA ChartFlush ==
  ASSUME ChartInv, MinuteFlush
  PROVE  ChartInv'
<1>1. /\ flushed' = Len(table) /\ due' = (due \/ (totals # Nothing /\ g_selected_iface > flushed))
      /\ UNCHANGED <<table, options, g_selected_iface, totals, charted>>
  BY DEF MinuteFlush
<1>2. charted \notin {Nothing, totals} => due'
  BY <1>1 DEF ChartInv, SelectionIsCharted
<1>3. SelectionIsCharted'
  BY <1>1, <1>2 DEF ChartInv, SelectionIsCharted
<1>4. QED
  BY <1>1, <1>3 DEF ChartInv

\* To show a screen is to leave cards and chart alone or to build them.
LEMMA ShowKeeps ==
  ASSUME CardInv, ChartInv, NEW s, NEW idx, ui_manager_show(s, idx), UNCHANGED <<table, flushed>>
  PROVE  CardInv' /\ ChartInv'
<1>1. ui_dashboard_update \/ UNCHANGED board
  BY DEF ui_manager_show, Build, ui_dashboard_create
<1>2. ui_traffic_update(Options, 1) \/ UNCHANGED chart
  BY DEF ui_manager_show, Build, ui_traffic_create
<1>3. CardInv'
  BY <1>1, CardsUpdate, CardsStay
<1>4. ChartInv'
  <2>1. ASSUME ui_traffic_update(table, 1)
        PROVE  ChartInv'
    BY <2>1, ChartUpdate
  <2>2. QED
    BY <1>2, <2>1, ChartStays DEF Options
<1>5. QED
  BY <1>3, <1>4

\* A new interface comes behind all others.
LEMMA TableGrows ==
  ASSUME CardInv, ChartInv, NewIface
  PROVE  CardInv' /\ ChartInv'
<1> DEFINE n == Len(table)
           x == Arrivals[n + 1]
<1>1. table \in Seq(Names) /\ n \in Nat /\ Shown \in Seq(Nat) /\ Len(Shown) \in Nat
  BY ShownIs DEF CardInv
<1>2. x \in Names
  <2>1. Len(Arrivals) \in Nat
    BY UiAssumption
  <2>2. n + 1 \in 1 .. Len(Arrivals)
    BY <1>1, <2>1 DEF NewIface
  <2> HIDE DEF n
  <2>3. QED
    BY <2>2 DEF Names
<1>3. table' = Append(table, x) /\ UNCHANGED <<board, chart, flushed>>
  BY DEF NewIface
<1> HIDE DEF x, n
<1>4. /\ table' \in Seq(Names) /\ Len(table') = n + 1
      /\ \A i \in 1 .. n : table'[i] = table[i]
  BY <1>1, <1>2, <1>3 DEF n
<1>5. Shown' = IF x \in Hidden THEN Shown ELSE Append(Shown, n + 1)
  <2>1. Visible(Append(table, x))[n + 1] =
          IF x \in Hidden THEN Visible(table)[n] ELSE Append(Visible(table)[n], n + 1)
    BY <1>1, <1>2, VisibleGrows DEF n
  <2>2. Shown' = Visible(table')[Len(table')] /\ Shown = Visible(table)[n]
    BY DEF Shown, n
  <2>3. QED
    BY <1>3, <1>4, <2>1, <2>2
<1>6. Len(Shown) <= Len(Shown') /\ \A c \in 1 .. Len(Shown) : Shown'[c] = Shown[c]
  BY <1>1, <1>5
<1>7. Len(Shown') \in Nat
  BY <1>1, <1>5
<1>8. CardInv'
  <2>1. Len(cards) \in Nat /\ Len(cards) <= Len(Shown) /\ cards' = cards /\ labels' = labels
    BY <1>3 DEF CardInv, board
  <2>2. Len(cards) <= n
    BY <1>1, <2>1, ShownIs DEF Places, n, CardInv
  <2>3. ASSUME NEW c \in 1 .. Len(cards)
        PROVE  cards[c] = Shown'[c] /\ labels[c] = table'[c]
    <3>1. c \in 1 .. Len(Shown) /\ c \in 1 .. n
      BY <1>1, <2>1, <2>2
    <3>2. cards[c] = Shown[c] /\ labels[c] = table[c]
      BY DEF CardInv
    <3>3. QED
      BY <1>4, <1>6, <3>1, <3>2
  <2>4. Len(cards) <= Len(Shown')
    BY <1>1, <1>6, <1>7, <2>1
  <2>5. QED
    BY <1>4, <2>1, <2>3, <2>4 DEF CardInv
<1>9. ChartInv'
  <2>1. Len(options) \in Nat /\ Len(options) <= n
    BY DEF ChartInv, n
  <2>2. \A i \in 1 .. Len(options) : options[i] = table'[i]
    BY <1>1, <1>4, <2>1 DEF ChartInv
  <2>3. Len(options) <= Len(table') /\ (g_selected_iface = 1 \/ g_selected_iface <= Len(table'))
    BY <1>1, <1>4, <2>1 DEF ChartInv, n
  <2>4. flushed' \in Nat /\ flushed' <= Len(table') /\ SelectionIsCharted'
    BY <1>1, <1>3, <1>4 DEF ChartInv, SelectionIsCharted, chart, n
  <2>5. QED
    BY <1>3, <1>4, <2>2, <2>3, <2>4 DEF ChartInv, chart
<1>10. QED
  BY <1>8, <1>9

LEMMA UiInit ==
  ASSUME Init
  PROVE  CardInv /\ ChartInv
<1>1. /\ table = SubSeq(Arrivals, 1, AtBoot) /\ cards = << >> /\ labels = << >> /\ options = << >>
      /\ g_selected_iface = 1 /\ totals = Nothing /\ charted = Nothing
      /\ flushed = 0 /\ due = FALSE
  BY DEF Init
<1>2. table \in Seq(Names) /\ Len(table) \in Nat
  <2>1. Arrivals \in Seq(STRING) /\ Len(Arrivals) \in Nat /\ AtBoot \in 0 .. Len(Arrivals)
    BY UiAssumption
  <2>2. \A i \in 1 .. AtBoot : Arrivals[i] \in Names
    BY <2>1 DEF Names
  <2>3. SubSeq(Arrivals, 1, AtBoot) \in Seq(Names)
    BY <2>1, <2>2, FirstOnes
  <2>4. QED
    BY <1>1, <2>3
<1>3. /\ cards \in Seq(Nat) /\ options \in Seq(Names)
      /\ Len(cards) = 0 /\ Len(options) = 0
  BY <1>1
<1>4. Len(Shown) \in Nat
  BY <1>2, ShownIs
<1>5. CardInv
  BY <1>1, <1>2, <1>3, <1>4 DEF CardInv
<1>6. ChartInv
  <2>1. SelectionIsCharted
    BY <1>1 DEF SelectionIsCharted
  <2>2. \A i \in 1 .. Len(options) : options[i] = table[i]
    BY <1>3
  <2>3. /\ g_selected_iface \in Nat \ {0} /\ flushed \in Nat /\ flushed <= Len(table)
        /\ Len(options) <= Len(table)
    BY <1>1, <1>2, <1>3
  <2>4. due \in BOOLEAN
    BY <1>1
  <2>5. QED
    BY <1>1, <1>2, <1>3, <2>1, <2>2, <2>3, <2>4 DEF ChartInv
<1>7. QED
  BY <1>5, <1>6

\* Every step, of the user, a timer or the collector, keeps both.
LEMMA UiStep ==
  ASSUME CardInv, ChartInv, [Next]_vars
  PROVE  CardInv' /\ ChartInv'
<1>a. ASSUME UNCHANGED <<board, chart, table, flushed>>
      PROVE  CardInv' /\ ChartInv'
  BY <1>a, CardsStay, ChartStays
<1>1. CASE hamburger_btn_cb \/ backdrop_cb
  BY <1>1, <1>a DEF hamburger_btn_cb, backdrop_cb, data
<1>2. ASSUME NEW s \in MenuScreens, menu_item_cb(s)
      PROVE  CardInv' /\ ChartInv'
  BY <1>2, ShowKeeps DEF menu_item_cb, data
<1>3. CASE connections_btn_cb
  BY <1>3, ShowKeeps DEF connections_btn_cb, data
<1>4. CASE back_btn_cb
  BY <1>4, ShowKeeps DEF back_btn_cb, data
<1>5. ASSUME NEW c \in 1 .. Len(cards), card_click_cb(c)
      PROVE  CardInv' /\ ChartInv'
  BY <1>5, ShowKeeps DEF card_click_cb, data
<1>6. ASSUME NEW sel \in 1 .. Len(options), dropdown_cb(sel)
      PROVE  CardInv' /\ ChartInv'
  <2>1. ui_traffic_update(options, sel) /\ UNCHANGED <<board, table, flushed>>
    BY <1>6 DEF dropdown_cb, data
  <2>2. Len(options) \in Nat /\ Len(table) \in Nat /\ Len(options) <= Len(table)
    BY DEF ChartInv
  <2>3. sel \in Nat \ {0} /\ sel <= Len(table) /\ table # << >>
    BY <2>2
  <2>4. ChartInv'
    BY <2>1, <2>3, ChartUpdate
  <2>5. QED
    BY <2>1, <2>4, CardsStay
<1>7. CASE clear_all_cb
  BY <1>7, <1>a DEF clear_all_cb
<1>8. CASE status_timer
  BY <1>8, <1>a DEF status_timer, data
<1>9. CASE dashboard_timer
  <2>1. ui_dashboard_update /\ UNCHANGED <<chart, table, flushed>>
    BY <1>9 DEF dashboard_timer, data
  <2>2. QED
    BY <2>1, CardsUpdate, ChartStays
<1>10. CASE detail_timer
  BY <1>10, <1>a DEF detail_timer, data
<1>11. CASE traffic_timer
  <2>1. ui_traffic_update(options, g_selected_iface) /\ UNCHANGED <<board, table, flushed>>
    BY <1>11 DEF traffic_timer, data
  <2>2. g_selected_iface \in Nat \ {0} /\ (g_selected_iface = 1 \/ g_selected_iface <= Len(table))
    BY DEF ChartInv
  <2>3. ChartInv'
    BY <2>1, <2>2, ChartUpdate
  <2>4. QED
    BY <2>1, <2>3, CardsStay
<1>12. CASE alerts_timer
  BY <1>12, <1>a DEF alerts_timer, data
<1>13. CASE NewIface
  BY <1>13, TableGrows
<1>14. CASE PushAlert
  BY <1>14, <1>a DEF PushAlert
<1>15. CASE MinuteFlush
  <2>1. UNCHANGED board /\ table' = table
    BY <1>15 DEF MinuteFlush
  <2>2. QED
    BY <1>15, <2>1, CardsStay, ChartFlush
<1>16. CASE UNCHANGED vars
  BY <1>16, <1>a DEF vars, data
<1>17. QED
  BY <1>1, <1>2, <1>3, <1>4, <1>5, <1>6, <1>7, <1>8, <1>9, <1>10, <1>11, <1>12,
     <1>13, <1>14, <1>15, <1>16 DEF Next

\* Whatever the order in which the table grows, the dashboard is visited and
\* its timer comes round, the cards are the first of the interfaces that are
\* not hidden, and a card bears the name of the interface that it opens
\* unless a hidden one stands before it.
THEOREM CardsAreRight == Spec => []CardsAgree
<1>1. Init => CardInv /\ ChartInv
  BY UiInit
<1>2. CardInv /\ ChartInv /\ [Next]_vars => (CardInv /\ ChartInv)'
  BY UiStep
<1>3. CardInv => CardsAgree
  <2> SUFFICES ASSUME CardInv
               PROVE  CardsAgree
    OBVIOUS
  <2> DEFINE n == Len(cards)
             first == SubSeq(Shown, 1, n)
  <2>1. /\ Shown \in Seq(Nat) /\ Len(Shown) \in Nat
        /\ cards \in Seq(Nat) /\ n \in Nat /\ n <= Len(Shown)
        /\ \A c \in 1 .. n : cards[c] = Shown[c] /\ labels[c] = table[c]
    BY ShownIs DEF CardInv
  <2>2. Places(table, Len(table), Shown)
    BY ShownIs DEF CardInv
  <2>3. cards = first
    <3>1. \A c \in 1 .. n : Shown[c] \in Nat
      BY <2>1
    <3> HIDE DEF n
    <3>2. first \in Seq(Nat) /\ Len(first) = n /\ \A c \in 1 .. n : first[c] = Shown[c]
      BY <2>1, <3>1, FirstOnes
    <3> HIDE DEF first
    <3>3. \A c \in 1 .. Len(cards) : cards[c] = first[c]
      BY <2>1, <3>2 DEF n
    <3>4. QED
      BY <2>1, <3>2, <3>3, SeqEqual DEF n
  <2>4. ASSUME NEW c \in 1 .. n, \A i \in 1 .. cards[c] : table[i] \notin Hidden
        PROVE  labels[c] = table[cards[c]]
    <3>1. c \in 1 .. Len(Shown) /\ cards[c] = Shown[c] /\ labels[c] = table[c]
      BY <2>1
    <3>2. Shown[c] = c
      BY <2>2, <2>4, <3>1 DEF Places
    <3>3. QED
      BY <3>1, <3>2
  <2>5. QED
    BY <2>3, <2>4 DEF CardsAgree
<1>4. QED
  BY <1>1, <1>2, <1>3, PTL DEF Spec

\* The totals are those of the interface whose name the selector shows,
\* however long the selector has not been rebuilt; the lines are too, once
\* that interface has a history and the screen has been refreshed since.
THEOREM ChartIsSelected == Spec => []SelectionIsCharted
<1>1. Init => CardInv /\ ChartInv
  BY UiInit
<1>2. CardInv /\ ChartInv /\ [Next]_vars => (CardInv /\ ChartInv)'
  BY UiStep
<1>3. ChartInv => SelectionIsCharted
  BY DEF ChartInv
<1>4. QED
  BY <1>1, <1>2, <1>3, PTL DEF Spec
=============================================================================
