---------------------------- MODULE ProbesProofs ----------------------------
(***************************************************************************)
(* Theorems about the probes, for every path, every number of hops and     *)
(* pings, every timeout, and any number of packets under way.              *)
(***************************************************************************)
EXTENDS Probes, TLAPS

Uses == {"gateway", "device", "quality"}

(***************************************************************************)
(* The types, by the variables that steps change together.                 *)
(***************************************************************************)
PcType == pc \in {"idle", "ping", "pinged", "query", "probe", "probed"}

PingType ==
  /\ use \in Uses /\ aim \in Hosts
  /\ result \in BOOLEAN /\ g_seq \in 0 .. SeqMod - 1
  /\ elapsed \in 0 .. MaxElapsed /\ waited \in 0 .. Timeout
  /\ shorts \in 0 .. MaxShort /\ accepted \subseteq Packet

AirType == air \subseteq Packet

TraceType == responder \in Hosts \cup {Star} /\ probes \in 0 .. MaxHops /\ strayed \in BOOLEAN

TestType ==
  sent \in 0 .. Attempts /\ successes \in 0 .. Attempts /\ measured \in -1 .. Attempts

StateType ==
  /\ wan_tick \in {0, 1}
  /\ wan \in [hops : Seq(Hosts \cup {Star}), reachable : BOOLEAN, loss : 0 .. 100]
  /\ Len(wan.hops) <= MaxHops

(***************************************************************************)
(* An answer to a ping tells how many pings ago it was asked for, and was  *)
(* asked for at least as many probes ago.  So one with the number of the   *)
(* running ping is the answer to it.                                       *)
(***************************************************************************)
Since(p) == IF g_seq >= p.seq THEN g_seq - p.seq ELSE g_seq - p.seq + SeqMod

AirInv ==
  \A p \in air : p.kind = "ping" =>
    /\ Since(p) <= p.age
    /\ pc = "ping" /\ Since(p) = 0 => p.age = 0 /\ p.from = aim

\* When recvfrom was called last, less than one timeout had passed, and one
\* more for every short packet, as long as these are counted.
ClockInv ==
  /\ waited <= elapsed
  /\ shorts < MaxShort => elapsed - waited < (1 + shorts) * Timeout

PingInv == PcType /\ PingType /\ AirType /\ AirInv /\ SuccessIsAnswer /\ ClockInv

(***************************************************************************)
(* The trace has one hop for every probe that returned, and the answer to  *)
(* the running one is the only answer to a probe that is not old.          *)
(***************************************************************************)
ProbeInv ==
  pc = "probe" => \A p \in air : p.kind = "trace" /\ p.age = 0 => p.from = Reached(probes)

HopInv ==
  /\ pc \in {"probe", "probed"} => probes \in 1 .. MaxHops /\ Len(wan.hops) = probes - 1
  /\ pc = "probed" /\ ~strayed => responder \in {Star, Reached(probes)}
  /\ wan.reachable => Len(wan.hops) >= 2

TraceInv == TraceType /\ StateType /\ ProbeInv /\ HopInv /\ HopsAreThePath

(***************************************************************************)
(* The quality test has answered pings only among those sent, and once it  *)
(* has ended the share of lost pings on the screen is the one it measured. *)
(***************************************************************************)
CountInv ==
  /\ use = "quality" => pc \in {"ping", "pinged"}
  /\ IF use = "quality" THEN sent \in 1 .. Attempts /\ successes \in 0 .. sent - 1
                        ELSE sent = 0 /\ successes = 0

JudgedInv ==
  pc \notin {"probe", "probed"} /\ use # "quality" /\ wan.reachable /\ wan.loss <= 20 =>
    \/ wan.hops[2] = Star
    \/ measured >= 0 /\ (Attempts - measured) * 100 < 21 * Attempts

TestInv == TestType /\ CountInv /\ JudgedInv

ProbesInv == PingInv /\ TraceInv /\ TestInv

-----------------------------------------------------------------------------
\* The constants, where Path need not be written out.
LEMMA Constants0 ==
  /\ Len(Path) \in Nat \ {0} /\ SeqMod \in Nat \ {0, 1} /\ Timeout \in Nat \ {0}
  /\ MaxHops \in Nat \ {0} /\ Attempts \in Nat \ {0} /\ MaxShort \in Nat \ {0}
  /\ Star \notin Hosts /\ Gateway \in Hosts /\ Device \in Hosts
  /\ \A ttl \in Nat \ {0} : Reached(ttl) \in Hosts
  /\ MaxElapsed \in Nat /\ Timeout <= MaxElapsed
<1>1. \A i \in 1 .. Len(Path) : Path[i] \in Hosts
  BY DEF Hosts
<1>2. Len(Path) \in Nat \ {0}
  BY ProbesAssumption DEF ProbesAssumption
<1>3. \A ttl \in Nat \ {0} : Reached(ttl) \in Hosts
  BY <1>1, <1>2 DEF Reached, TraceTarget
<1>4. MaxElapsed \in Nat /\ Timeout <= MaxElapsed
  <2>1. Timeout \in Nat \ {0} /\ MaxShort \in Nat
    BY ProbesAssumption
  <2>2. MaxShort * Timeout \in Nat /\ MaxElapsed = 2 * Timeout + MaxShort * Timeout
    BY <2>1 DEF MaxElapsed
  <2>3. QED
    BY <2>1, <2>2
<1>5. QED
  BY <1>2, <1>3, <1>4, ProbesAssumption DEF Hosts

\* The next sequence number, without division.
LEMMA SeqNextIs ==
  ASSUME g_seq \in 0 .. SeqMod - 1
  PROVE  SeqNext = IF g_seq = SeqMod - 1 THEN 0 ELSE g_seq + 1
<1>1. SeqMod \in Nat \ {0, 1}
  BY Constants0
<1>2. CASE g_seq = SeqMod - 1
  <2>1. SeqNext = SeqMod % SeqMod
    BY <1>1, <1>2 DEF SeqNext
  <2>2. QED
    BY <1>1, <1>2, <2>1
<1>3. CASE g_seq # SeqMod - 1
  BY <1>1, <1>3 DEF SeqNext
<1>4. QED
  BY <1>2, <1>3

\* A packet that grows older stays what it is.
LEMMA AgedAre ==
  ASSUME AirType, NEW p \in Aged
  PROVE  /\ p \in Packet
         /\ \E q \in air : /\ q \in Packet /\ q.age < SeqMod - 1
                           /\ p.kind = q.kind /\ p.from = q.from /\ p.seq = q.seq
                           /\ p.age = q.age + 1
<1>1. PICK q \in air : q.age < SeqMod - 1 /\ p = [q EXCEPT !.age = @ + 1]
  BY DEF Aged
<1>2. q \in Packet /\ SeqMod \in Nat \ {0, 1}
  BY Constants0 DEF AirType
<1>3. /\ p.kind = q.kind /\ p.from = q.from /\ p.seq = q.seq /\ p.age = q.age + 1
      /\ p \in Packet
  BY <1>1, <1>2 DEF Packet
<1>4. QED
  BY <1>1, <1>2, <1>3

\* Only age and kind of the packets under way matter when a probe is sent.
LEMMA AnswerIs ==
  ASSUME AirType, NEW p \in Packet, Answer(p)
  PROVE  AirType' /\ \A q \in air' : q \in Aged \cup {p}
<1>1. air' \subseteq Aged \cup {p}
  BY DEF Answer
<1>2. QED
  BY <1>1, AgedAre DEF AirType

-----------------------------------------------------------------------------
\* A ping starts with a number that no answer under way has.
LEMMA SendPingKeeps ==
  ASSUME PingInv, NEW host \in Hosts, NEW for \in Uses, SendPing(host, for)
  PROVE  PingInv'
<1> DEFINE new == [kind |-> "ping", from |-> host, seq |-> g_seq', age |-> 0]
<1>s. PingType /\ AirType /\ AirInv
  BY DEF PingInv
<1>c. /\ SeqMod \in Nat \ {0, 1} /\ Timeout \in Nat \ {0} /\ MaxShort \in Nat
      /\ MaxElapsed \in Nat /\ Timeout <= MaxElapsed
  BY Constants0
<1>1. /\ pc' = "ping" /\ use' = for /\ aim' = host /\ g_seq' = SeqNext
      /\ elapsed' = 0 /\ waited' = 0 /\ shorts' = 0 /\ accepted' = {} /\ result' = FALSE
      /\ Answer(new)
  BY DEF SendPing
<1>2. g_seq \in 0 .. SeqMod - 1 /\ g_seq' = IF g_seq = SeqMod - 1 THEN 0 ELSE g_seq + 1
  BY <1>s, <1>1, SeqNextIs DEF PingType
<1>3. g_seq' \in 0 .. SeqMod - 1
  BY <1>c, <1>2
<1>4. new \in Packet
  BY <1>c, <1>3 DEF Packet
<1>5. PcType' /\ PingType' /\ SuccessIsAnswer'
  <2>1. PcType' /\ SuccessIsAnswer'
    BY <1>1 DEF PcType, SuccessIsAnswer
  <2>2. /\ 0 \in 0 .. Timeout /\ 0 \in 0 .. MaxShort /\ 0 \in 0 .. MaxElapsed
        /\ {} \subseteq Packet /\ FALSE \in BOOLEAN
    BY <1>c
  <2>3. PingType'
    BY <1>1, <1>3, <2>2 DEF PingType
  <2>4. QED
    BY <2>1, <2>3
<1>6. ClockInv'
  BY <1>c, <1>1 DEF ClockInv
<1>7. AirType' /\ \A q \in air' : q \in Aged \cup {new}
  <2> HIDE DEF new
  <2>1. QED
    BY <1>s, <1>1, <1>4, AnswerIs
<1>8. ASSUME NEW p \in air', p.kind = "ping"
      PROVE  /\ Since(p)' <= p.age
             /\ Since(p)' = 0 => p.age = 0 /\ p.from = aim'
  <2>1. CASE p = new
    <3>1. p.seq = g_seq' /\ p.age = 0 /\ p.from = host
      BY <2>1
    <3>2. QED
      BY <1>1, <1>3, <3>1 DEF Since
  <2>2. CASE p \in Aged
    <3>1. PICK q \in air : /\ q \in Packet /\ q.age < SeqMod - 1
                           /\ p.kind = q.kind /\ p.from = q.from /\ p.seq = q.seq
                           /\ p.age = q.age + 1
      BY <1>s, <2>2, AgedAre
    <3>2. q.seq \in 0 .. SeqMod - 1 /\ q.age \in 0 .. SeqMod - 1
      BY <3>1 DEF Packet
    <3>3. Since(q) <= q.age
      BY <1>s, <1>8, <3>1 DEF AirInv
    <3>4. Since(p)' = Since(q) + 1 /\ Since(q) \in Nat
      BY <1>c, <1>2, <3>1, <3>2, <3>3 DEF Since
    <3>5. QED
      BY <3>1, <3>2, <3>3, <3>4
  <2>3. QED
    BY <1>7, <2>1, <2>2
<1>9. AirInv'
  BY <1>8 DEF AirInv
<1>10. QED
  BY <1>5, <1>6, <1>7, <1>9 DEF PingInv

\* A probe of the trace leaves the pings' answers what they are.
LEMMA SendProbeKeeps ==
  ASSUME PingInv, NEW ttl \in Nat \ {0}, SendProbe(ttl), UNCHANGED ping
  PROVE  PingInv' /\ ProbeInv'
<1> DEFINE new == [kind |-> "trace", from |-> Reached(ttl), seq |-> 0, age |-> 0]
<1>s. PingType /\ AirType /\ AirInv /\ SuccessIsAnswer /\ ClockInv
  BY DEF PingInv
<1>c. SeqMod \in Nat \ {0, 1} /\ Reached(ttl) \in Hosts
  BY Constants0
<1>1. pc' = "probe" /\ probes' = ttl /\ Answer(new)
  BY DEF SendProbe
<1>2. UNCHANGED <<use, aim, result, g_seq, elapsed, waited, shorts, accepted>>
  BY DEF ping
<1>3. new \in Packet
  BY <1>c DEF Packet
<1>4. AirType' /\ \A q \in air' : q \in Aged \cup {new}
  <2> HIDE DEF new
  <2>1. QED
    BY <1>s, <1>1, <1>3, AnswerIs
<1>5. ASSUME NEW p \in air'
      PROVE  /\ p.kind = "ping" => Since(p)' <= p.age
             /\ p.kind = "trace" /\ p.age = 0 => p.from = Reached(ttl)
  <2>1. CASE p = new
    BY <2>1
  <2>2. CASE p \in Aged
    <3>1. PICK q \in air : /\ q \in Packet /\ q.age < SeqMod - 1
                           /\ p.kind = q.kind /\ p.from = q.from /\ p.seq = q.seq
                           /\ p.age = q.age + 1
      BY <1>s, <2>2, AgedAre
    <3>2. q.seq \in Nat /\ q.age \in Nat /\ g_seq \in Nat
      BY <1>s, <1>c, <3>1 DEF Packet, PingType
    <3>3. p.kind = "ping" => Since(q) <= q.age
      BY <1>s, <3>1 DEF AirInv
    <3>4. Since(p)' = Since(q) /\ Since(q) \in Int
      BY <1>c, <1>2, <3>1, <3>2 DEF Since
    <3>5. QED
      BY <3>1, <3>2, <3>3, <3>4
  <2>3. QED
    BY <1>4, <2>1, <2>2
<1>6. AirInv' /\ ProbeInv'
  <2>1. Reached(ttl)' = Reached(ttl)
    BY DEF Reached, TraceTarget
  <2>2. QED
    BY <1>1, <1>5, <2>1 DEF AirInv, ProbeInv, Reached, TraceTarget
<1>7. PcType' /\ PingType' /\ SuccessIsAnswer' /\ ClockInv'
  BY <1>s, <1>1, <1>2 DEF PcType, PingType, SuccessIsAnswer, ClockInv
<1>8. QED
  BY <1>4, <1>6, <1>7 DEF PingInv

\* Between pings, packets may only be lost.
LEMMA IdleKeepsPing ==
  ASSUME PingInv, UNCHANGED ping \/ EndTick, air' \subseteq air,
         pc' \in {"idle", "query", "probed"}
  PROVE  PingInv'
<1>s. PingType /\ AirType /\ AirInv /\ SuccessIsAnswer /\ ClockInv
  BY DEF PingInv
<1>1. /\ UNCHANGED <<g_seq, elapsed, waited, shorts>>
      /\ \/ UNCHANGED <<use, aim, result, accepted>>
         \/ use' = "gateway" /\ aim' = Gateway /\ result' = FALSE /\ accepted' = {}
  BY DEF ping, EndTick
<1>2. PcType' /\ AirType' /\ ClockInv'
  BY <1>s, <1>1 DEF PcType, AirType, ClockInv
<1>3. AirInv'
  BY <1>s, <1>1 DEF AirInv, Since
<1>4. PingType'
  <2>1. CASE UNCHANGED <<use, aim, result, accepted>>
    BY <1>s, <1>1, <2>1 DEF PingType
  <2>2. CASE use' = "gateway" /\ aim' = Gateway /\ result' = FALSE /\ accepted' = {}
    BY <1>s, <1>1, <2>2, Constants0 DEF PingType, Uses
  <2>3. QED
    BY <1>1, <2>1, <2>2
<1>5. SuccessIsAnswer'
  <2>1. CASE UNCHANGED <<use, aim, result, accepted>>
    BY <1>s, <2>1 DEF SuccessIsAnswer
  <2>2. CASE accepted' = {}
    BY <2>2 DEF SuccessIsAnswer
  <2>3. QED
    BY <1>1, <2>1, <2>2
<1>6. QED
  BY <1>2, <1>3, <1>4, <1>5 DEF PingInv

\* While a ping waits: the answer that ends it is the one to its request, and
\* every wait that starts starts in time.
LEMMA WaitKeepsPing ==
  ASSUME PingInv,
         \/ \E p \in air : HearReply(p)
         \/ \E rest \in Foreign : HearOther(rest)
         \/ \E rest \in Short : HearShort(rest)
         \/ PingFails
         \/ TimePasses
  PROVE  PingInv'
<1>s. PcType /\ PingType /\ AirType /\ AirInv /\ SuccessIsAnswer /\ ClockInv
  BY DEF PingInv
<1>c. /\ SeqMod \in Nat \ {0, 1} /\ Timeout \in Nat \ {0} /\ MaxShort \in Nat
      /\ MaxElapsed \in Nat /\ Timeout <= MaxElapsed
  BY Constants0
<1>t. /\ elapsed \in 0 .. MaxElapsed /\ waited \in 0 .. Timeout /\ shorts \in 0 .. MaxShort
      /\ waited <= elapsed
      /\ shorts < MaxShort => elapsed - waited < (1 + shorts) * Timeout
  BY <1>s DEF PingType, ClockInv
<1>0. pc = "ping"
  BY DEF HearReply, HearOther, HearShort, PingFails, TimePasses
<1>1. ASSUME NEW p \in air, HearReply(p)
      PROVE  PingInv'
  <2>1. /\ IsReply(p) /\ pc' = "pinged" /\ result' = TRUE
        /\ elapsed' = 0 /\ waited' = 0 /\ shorts' = 0
        /\ accepted' = {p} /\ air' = air \ {p} /\ UNCHANGED <<use, aim, g_seq>>
    BY <1>1 DEF HearReply, Returns
  <2>2. p \in Packet /\ p.kind = "ping" /\ p.seq = g_seq
    BY <1>s, <1>1, <2>1 DEF AirType, IsReply
  <2>3. p.age = 0 /\ p.from = aim
    <3>1. Since(p) = 0
      BY <1>s, <1>c, <2>2 DEF Since, PingType
    <3>2. QED
      BY <1>s, <1>0, <1>1, <2>2, <3>1 DEF AirInv
  <2>4. PingType' /\ PcType' /\ AirType'
    <3>1. 0 \in 0 .. Timeout /\ 0 \in 0 .. MaxShort /\ 0 \in 0 .. MaxElapsed /\ {p} \subseteq Packet
      BY <1>c, <2>2
    <3>2. QED
      BY <1>s, <2>1, <3>1 DEF PingType, PcType, AirType
  <2>5. SuccessIsAnswer'
    BY <2>1, <2>3 DEF SuccessIsAnswer
  <2>6. AirInv'
    BY <1>s, <2>1 DEF AirInv, Since
  <2>7. ClockInv'
    BY <1>c, <2>1 DEF ClockInv
  <2>8. QED
    BY <2>4, <2>5, <2>6, <2>7 DEF PingInv
<1>2. CASE \/ \E rest \in Foreign : HearOther(rest) /\ ~Over
           \/ \E rest \in Short : HearShort(rest)
           \/ TimePasses
  <2>1. /\ air' \subseteq air /\ pc' = "ping"
        /\ UNCHANGED <<use, aim, result, g_seq, accepted>>
    BY <1>0, <1>2 DEF Foreign, Short, HearOther, HearShort, TimePasses
  <2>2. AirType' /\ AirInv' /\ PcType' /\ SuccessIsAnswer'
    BY <1>s, <1>0, <2>1 DEF AirType, AirInv, PcType, SuccessIsAnswer, Since
  <2>3. \/ elapsed' = elapsed /\ waited' = 0 /\ shorts' = shorts /\ elapsed < Timeout
        \/ /\ elapsed' = elapsed /\ waited' = 0
           /\ shorts' = IF shorts < MaxShort THEN shorts + 1 ELSE MaxShort
        \/ /\ elapsed' = IF elapsed < MaxElapsed THEN elapsed + 1 ELSE MaxElapsed
           /\ waited' = waited + 1 /\ shorts' = shorts /\ waited < Timeout
    <3>1. ~Over => elapsed < Timeout
      BY <1>c, <1>t DEF Over
    <3>2. CASE \E rest \in Foreign : HearOther(rest) /\ ~Over
      BY <3>1, <3>2 DEF HearOther
    <3>3. CASE \E rest \in Short : HearShort(rest)
      BY <3>3 DEF HearShort
    <3>4. CASE TimePasses
      BY <3>4 DEF TimePasses
    <3>5. QED
      BY <1>2, <3>2, <3>3, <3>4
  <2>4. elapsed' \in 0 .. MaxElapsed /\ waited' \in 0 .. Timeout /\ shorts' \in 0 .. MaxShort
    BY <1>c, <1>t, <2>3
  <2>5. PingType'
    BY <1>s, <2>1, <2>4 DEF PingType
  <2>6. ClockInv'
    <3> DEFINE P == (1 + shorts) * Timeout
    <3>1. P >= Timeout /\ P \in Nat
      BY <1>c, <1>t
    <3>2. (1 + (shorts + 1)) * Timeout = P + Timeout
      BY <1>c, <1>t
    <3>3. waited' <= elapsed'
      BY <1>c, <1>t, <2>3, <2>4
    <3>4. ASSUME shorts' < MaxShort
          PROVE  elapsed' - waited' < (1 + shorts') * Timeout
      <4>1. shorts < MaxShort
        BY <1>c, <1>t, <2>3, <3>4
      <4>2. elapsed - waited < P
        BY <1>t, <4>1
      <4>3. CASE shorts' = shorts
        <5>1. elapsed' - waited' < P
          <6> HIDE DEF P
          <6>1. \/ elapsed' = elapsed /\ waited' = 0 /\ elapsed < Timeout
                \/ elapsed' <= elapsed + 1 /\ waited' = waited + 1
            BY <1>c, <1>t, <2>3, <4>1, <4>3
          <6>2. elapsed \in Nat /\ waited \in Nat /\ elapsed' \in Nat /\ P \in Nat /\ Timeout <= P
            BY <1>c, <1>t, <2>4, <3>1
          <6>3. QED
            BY <1>c, <4>2, <6>1, <6>2
        <5>2. QED
          BY <4>3, <5>1
      <4>4. CASE shorts' # shorts
        <5>1. elapsed' = elapsed /\ waited' = 0 /\ shorts' = shorts + 1
          BY <2>3, <4>1, <4>4
        <5>2. (1 + shorts') * Timeout = P + Timeout
          BY <3>2, <5>1
        <5>3. elapsed < P + Timeout
          <6> HIDE DEF P
          <6>1. QED
            BY <1>c, <1>t, <3>1, <4>2
        <5> HIDE DEF P
        <5>4. elapsed' - waited' = elapsed
          BY <1>t, <5>1
        <5>5. QED
          BY <5>2, <5>3, <5>4
      <4>5. QED
        BY <4>3, <4>4
    <3>5. QED
      BY <3>3, <3>4 DEF ClockInv
  <2>7. QED
    BY <2>2, <2>5, <2>6 DEF PingInv
<1>3. CASE PingFails \/ (\E rest \in Foreign : HearOther(rest) /\ Over)
  <2>1. /\ air' \subseteq air /\ pc' = "pinged" /\ result' = FALSE
        /\ elapsed' = 0 /\ waited' = 0 /\ shorts' = 0
        /\ UNCHANGED <<use, aim, g_seq, accepted>>
    BY <1>3 DEF PingFails, HearOther, Returns, Foreign
  <2>2. AirType' /\ AirInv' /\ PcType'
    BY <1>s, <2>1 DEF AirType, AirInv, PcType, Since
  <2>3. SuccessIsAnswer'
    BY <1>s, <2>1 DEF SuccessIsAnswer
  <2>4. ClockInv'
    BY <1>c, <2>1 DEF ClockInv
  <2>5. PingType'
    <3>1. 0 \in 0 .. Timeout /\ 0 \in 0 .. MaxShort /\ 0 \in 0 .. MaxElapsed /\ FALSE \in BOOLEAN
      BY <1>c
    <3>2. QED
      BY <1>s, <2>1, <3>1 DEF PingType
  <2>6. QED
    BY <2>2, <2>3, <2>4, <2>5 DEF PingInv
<1>4. QED
  BY <1>1, <1>2, <1>3

\* What the ping and the packets under way see of a step.
LEMMA PingSteps ==
  ASSUME PingInv, TraceInv, Next
  PROVE  \/ \E host \in Hosts, for \in Uses : SendPing(host, for)
         \/ \E ttl \in Nat \ {0} : SendProbe(ttl) /\ UNCHANGED ping
         \/ /\ UNCHANGED ping \/ EndTick
            /\ air' \subseteq air /\ pc' \in {"idle", "query", "probed"}
         \/ \E p \in air : HearReply(p)
         \/ \E rest \in Foreign : HearOther(rest)
         \/ \E rest \in Short : HearShort(rest)
         \/ PingFails
         \/ TimePasses
<1>s. PingType /\ TraceType /\ StateType /\ HopInv
  BY DEF PingInv, TraceInv
<1>c. Gateway \in Hosts /\ Device \in Hosts /\ MaxHops \in Nat
  BY Constants0
<1>1. CASE MediumTick \/ GatewayDone \/ DeviceDone
  BY <1>c, <1>1 DEF MediumTick, GatewayDone, DeviceDone, EndTick, Uses
<1>2. CASE SlowTick \/ QueryDone
  BY <1>2 DEF SlowTick, QueryDone, StartTrace
<1>3. CASE QualityDone
  BY <1>s, <1>3 DEF QualityDone, EndTick, Uses, PingType
<1>4. CASE ProbeFails \/ (\E p \in air : ProbeHears(p))
  BY <1>4 DEF ProbeFails, ProbeHears
<1>5. CASE ProbeDone
  <2> DEFINE w == Traced(wan, responder)
  <2>1. w.hops = Append(wan.hops, responder)
    BY <1>s DEF Traced, WithHop, StateType
  <2>2. w.hops \in Seq(Hosts \cup {Star})
    BY <1>s, <2>1 DEF StateType, TraceType
  <2>3. Testable(w) => w.hops[2] \in Hosts
    BY <2>2 DEF Testable
  <2>4. probes + 1 \in Nat \ {0}
    BY <1>s, <1>c DEF TraceType
  <2>5. \/ SendProbe(probes + 1) /\ UNCHANGED ping
        \/ Testable(w) /\ SendPing(w.hops[2], "quality")
        \/ EndTick
    BY <1>5 DEF ProbeDone
  <2> HIDE DEF w
  <2>6. QED
    BY <2>3, <2>4, <2>5 DEF EndTick, Uses
<1>6. QED
  BY <1>1, <1>2, <1>3, <1>4, <1>5 DEF Next

LEMMA PingStep ==
  ASSUME PingInv, TraceInv, Next
  PROVE  PingInv'
BY PingSteps, SendPingKeeps, SendProbeKeeps, IdleKeepsPing, WaitKeepsPing

-----------------------------------------------------------------------------
\* The percentage is one, and one of at most 20 means less than 21 percent.
LEMMA LossIs ==
  ASSUME NEW s \in 0 .. Attempts
  PROVE  /\ Loss(s) \in 0 .. 100
         /\ Loss(s) <= 20 => (Attempts - s) * 100 < 21 * Attempts
<1> DEFINE x == (Attempts - s) * 100
           q == x \div Attempts
           r == x % Attempts
<1>1. Attempts \in Nat \ {0}
  BY Constants0
<1>2. x \in Nat /\ x <= 100 * Attempts
  BY <1>1
<1> HIDE DEF x
<1>3. q \in Nat /\ r \in 0 .. Attempts - 1 /\ x = Attempts * q + r
  BY <1>1, <1>2
<1> HIDE DEF q, r
<1>4. q <= 100
  <2>1. SUFFICES ASSUME q >= 101
                 PROVE  FALSE
    BY <1>3
  <2>2. Attempts * q >= Attempts * 101
    BY <1>1, <1>3, <2>1
  <2>3. QED
    BY <1>1, <1>2, <1>3, <2>2
<1>5. ASSUME q <= 20
      PROVE  x < 21 * Attempts
  <2>1. Attempts * q <= Attempts * 20
    BY <1>1, <1>3, <1>5
  <2>2. QED
    BY <1>1, <1>2, <1>3, <2>1
<1>6. Loss(s) = q
  BY DEF Loss, q, x
<1>7. QED
  BY <1>3, <1>4, <1>5, <1>6 DEF x

\* What a probe adds to the hops.
LEMMA TracedIs ==
  ASSUME StateType, NEW host \in Hosts \cup {Star}, Len(wan.hops) < MaxHops
  PROVE  LET w == Traced(wan, host)
         IN  /\ w \in [hops : Seq(Hosts \cup {Star}), reachable : BOOLEAN, loss : 0 .. 100]
             /\ Len(w.hops) = Len(wan.hops) + 1 /\ Len(w.hops) <= MaxHops
             /\ \A i \in 1 .. Len(wan.hops) : w.hops[i] = wan.hops[i]
             /\ w.hops[Len(w.hops)] = host
             /\ w.reachable => wan.reachable \/ (host # Star /\ Len(w.hops) >= 2)
             /\ wan.reachable => w.reachable
             /\ w.loss = wan.loss
<1> DEFINE w == Traced(wan, host)
           hops == WithHop(wan.hops, host)
<1>1. /\ wan.hops \in Seq(Hosts \cup {Star}) /\ wan.reachable \in BOOLEAN
      /\ wan.loss \in 0 .. 100 /\ MaxHops \in Nat
  BY Constants0 DEF StateType
<1>2. hops = Append(wan.hops, host)
  BY DEF WithHop
<1>3. /\ hops \in Seq(Hosts \cup {Star}) /\ Len(hops) = Len(wan.hops) + 1
      /\ \A i \in 1 .. Len(wan.hops) : hops[i] = wan.hops[i]
      /\ hops[Len(hops)] = host
  BY <1>1, <1>2
<1> DEFINE beyond == host \notin {Star, Gateway} /\ Len(hops) >= 2
<1>4. /\ w.hops = hops /\ w.loss = wan.loss
      /\ w.reachable = (wan.reachable \/ beyond)
      /\ w \in [hops : Seq(Hosts \cup {Star}), reachable : BOOLEAN, loss : 0 .. 100]
  <2>1. w = [wan EXCEPT !.hops = hops, !.reachable = wan.reachable \/ beyond]
    BY DEF Traced, StateType
  <2>2. \A h \in Seq(Hosts \cup {Star}), r \in BOOLEAN :
          /\ [wan EXCEPT !.hops = h, !.reachable = r].hops = h
          /\ [wan EXCEPT !.hops = h, !.reachable = r].reachable = r
          /\ [wan EXCEPT !.hops = h, !.reachable = r].loss = wan.loss
          /\ [wan EXCEPT !.hops = h, !.reachable = r]
               \in [hops : Seq(Hosts \cup {Star}), reachable : BOOLEAN, loss : 0 .. 100]
    BY DEF StateType
  <2>3. (wan.reachable \/ beyond) \in BOOLEAN
    OBVIOUS
  <2> HIDE DEF w, hops, beyond
  <2>4. QED
    BY <1>3, <2>1, <2>2, <2>3
<1>5. Len(hops) <= MaxHops
  BY <1>1, <1>3
<1> HIDE DEF w, hops
<1>6. QED
  BY <1>3, <1>4, <1>5 DEF w

\* Steps outside the trace do not touch its results.
LEMMA OutsideKeepsTrace ==
  ASSUME TraceInv, UNCHANGED <<responder, probes, strayed, wan_tick>>,
         \/ wan' = wan
         \/ \E s \in 0 .. Attempts : wan' = [wan EXCEPT !.loss = Loss(s)] /\ Loss(s) \in 0 .. 100,
         pc' \notin {"probe", "probed"}
  PROVE  TraceInv'
<1>s. TraceType /\ StateType /\ HopInv /\ HopsAreThePath
  BY DEF TraceInv
<1>1. /\ wan' \in [hops : Seq(Hosts \cup {Star}), reachable : BOOLEAN, loss : 0 .. 100]
      /\ wan'.hops = wan.hops /\ wan'.reachable = wan.reachable
  BY <1>s DEF StateType
<1>2. TraceType' /\ StateType' /\ ProbeInv' /\ HopInv'
  BY <1>s, <1>1 DEF TraceType, StateType, ProbeInv, HopInv
<1>3. HopsAreThePath'
  BY <1>s, <1>1 DEF HopsAreThePath, Reached, TraceTarget
<1>4. QED
  BY <1>2, <1>3 DEF TraceInv

\* The trace ends or goes on with a hop for the probe that returned.
LEMMA ProbeDoneKeepsTrace ==
  ASSUME PingInv, TraceInv, ProbeDone
  PROVE  TraceInv'
<1>s. TraceType /\ StateType /\ HopInv /\ HopsAreThePath
  BY DEF TraceInv
<1>c. MaxHops \in Nat \ {0} /\ Star \notin Hosts
  BY Constants0
<1> DEFINE w    == Traced(wan, responder)
           done == probes = MaxHops \/ responder = TraceTarget
<1>1. /\ pc = "probed" /\ wan' = w /\ responder' = Star
      /\ strayed' = strayed /\ wan_tick' = wan_tick
      /\ \/ ~done /\ SendProbe(probes + 1) /\ UNCHANGED ping
         \/ pc' \in {"ping", "idle"} /\ probes' = 0
  BY DEF ProbeDone, SendPing, EndTick
<1>2. /\ probes \in 1 .. MaxHops /\ Len(wan.hops) = probes - 1
      /\ responder \in Hosts \cup {Star}
      /\ ~strayed => responder \in {Star, Reached(probes)}
  BY <1>s, <1>1 DEF HopInv, TraceType
<1>3. /\ w \in [hops : Seq(Hosts \cup {Star}), reachable : BOOLEAN, loss : 0 .. 100]
      /\ Len(w.hops) = probes /\ Len(w.hops) <= MaxHops
      /\ \A i \in 1 .. probes - 1 : w.hops[i] = wan.hops[i]
      /\ w.hops[probes] = responder
      /\ w.reachable => wan.reachable \/ (responder # Star /\ probes >= 2)
  <2> HIDE DEF w
  <2>1. Len(wan.hops) < MaxHops
    BY <1>2, <1>c
  <2>2. /\ w \in [hops : Seq(Hosts \cup {Star}), reachable : BOOLEAN, loss : 0 .. 100]
        /\ Len(w.hops) = Len(wan.hops) + 1 /\ Len(w.hops) <= MaxHops
        /\ \A i \in 1 .. Len(wan.hops) : w.hops[i] = wan.hops[i]
        /\ w.hops[Len(w.hops)] = responder
        /\ w.reachable => wan.reachable \/ (responder # Star /\ Len(w.hops) >= 2)
    BY <1>s, <1>2, <2>1, TracedIs DEF w
  <2>3. Len(wan.hops) + 1 = probes
    BY <1>2, <1>c
  <2>4. QED
    BY <1>2, <2>2, <2>3
<1> HIDE DEF w, done
<1>4. probes' \in 0 .. MaxHops
  <2>1. CASE ~done /\ SendProbe(probes + 1)
    BY <1>c, <1>2, <2>1 DEF SendProbe, done
  <2>2. CASE probes' = 0
    BY <1>c, <2>2
  <2>3. QED
    BY <1>1, <2>1, <2>2
<1>5. TraceType' /\ StateType'
  BY <1>s, <1>1, <1>3, <1>4 DEF TraceType, StateType
<1>6. HopInv'
  <2>1. w.reachable => Len(w.hops) >= 2
    <3>1. wan.reachable => probes - 1 >= 2
      BY <1>s, <1>2 DEF HopInv
    <3>2. QED
      BY <1>2, <1>3, <3>1
  <2>2. pc' = "probe" => probes' \in 1 .. MaxHops /\ Len(w.hops) = probes' - 1
    <3>1. CASE ~done /\ SendProbe(probes + 1)
      BY <1>c, <1>2, <1>3, <3>1 DEF SendProbe, done
    <3>2. QED
      BY <1>1, <3>1
  <2>3. pc' # "probed"
    BY <1>1 DEF SendProbe
  <2>4. QED
    BY <1>1, <2>1, <2>2, <2>3 DEF HopInv
<1>7. ProbeInv'
  <2>1. CASE SendProbe(probes + 1) /\ UNCHANGED ping
    <3>1. probes + 1 \in Nat \ {0}
      BY <1>2
    <3>2. QED
      BY <2>1, <3>1, SendProbeKeeps
  <2>2. CASE pc' \in {"ping", "idle"}
    BY <2>2 DEF ProbeInv
  <2>3. QED
    BY <1>1, <2>1, <2>2
<1>8. ASSUME ~strayed
      PROVE  /\ \A i \in 1 .. Len(w.hops) : w.hops[i] \in {Star, Reached(i)}
             /\ w.reachable => \E i \in 2 .. Len(w.hops) : w.hops[i] = Reached(i)
  <2>1. /\ \A i \in 1 .. probes - 1 : wan.hops[i] \in {Star, Reached(i)}
        /\ wan.reachable => \E i \in 2 .. probes - 1 : wan.hops[i] = Reached(i)
    BY <1>s, <1>2, <1>8 DEF HopsAreThePath
  <2>2. /\ 1 .. probes = 1 .. probes - 1 \cup {probes}
        /\ \A i \in 2 .. probes - 1 : i \in 1 .. probes - 1 /\ i \in 2 .. probes
        /\ probes >= 2 => probes \in 2 .. probes
    BY <1>2
  <2>3. \A i \in 1 .. probes : w.hops[i] \in {Star, Reached(i)}
    BY <1>2, <1>3, <1>8, <2>1, <2>2
  <2>4. w.reachable => \E i \in 2 .. probes : w.hops[i] = Reached(i)
    <3>1. CASE wan.reachable
      <4>1. PICK i \in 2 .. probes - 1 : wan.hops[i] = Reached(i)
        BY <2>1, <3>1
      <4>2. w.hops[i] = Reached(i) /\ i \in 2 .. probes
        BY <1>3, <2>2, <4>1
      <4>3. QED
        BY <4>2
    <3>2. CASE responder # Star /\ probes >= 2
      BY <1>2, <1>3, <1>8, <2>2, <3>2
    <3>3. QED
      BY <1>3, <3>1, <3>2
  <2>5. QED
    BY <1>3, <2>3, <2>4
<1>9. HopsAreThePath'
  BY <1>1, <1>8 DEF HopsAreThePath, Reached, TraceTarget
<1>10. QED
  BY <1>5, <1>6, <1>7, <1>9 DEF TraceInv

\* Every step keeps the hops aligned with the path.
LEMMA TraceStep ==
  ASSUME PingInv, TraceInv, TestInv, Next
  PROVE  TraceInv'
<1>s. AirType /\ TraceType /\ StateType /\ ProbeInv /\ HopInv /\ HopsAreThePath
  BY DEF PingInv, TraceInv
<1>c. MaxHops \in Nat \ {0}
  BY Constants0
<1>1. CASE \/ MediumTick \/ SlowTick \/ GatewayDone \/ DeviceDone
           \/ (\E p \in air : HearReply(p))
           \/ (\E rest \in Foreign : HearOther(rest))
           \/ (\E rest \in Short : HearShort(rest))
           \/ PingFails \/ TimePasses
           \/ (QualityDone /\ wan' = wan)
  <2>1. UNCHANGED <<trace, wan_tick, wan>> /\ pc' \notin {"probe", "probed"}
    BY <1>1 DEF MediumTick, SlowTick, GatewayDone, DeviceDone, HearReply, HearOther, HearShort,
                PingFails, TimePasses, QualityDone, SendPing, EndTick, Returns, state
  <2>2. UNCHANGED <<responder, probes, strayed, wan_tick>>
    BY <2>1 DEF trace
  <2>3. QED
    BY <2>1, <2>2, OutsideKeepsTrace
<1>2. CASE QualityDone /\ ~(wan' = wan)
  <2> DEFINE s == IF result THEN successes + 1 ELSE successes
  <2>1. /\ UNCHANGED <<responder, probes, strayed, wan_tick>>
        /\ pc' = "idle" /\ use = "quality" /\ sent = Attempts
        /\ wan' = [wan EXCEPT !.loss = Loss(s)]
    BY <1>2 DEF QualityDone, EndTick, trace
  <2>2. s \in 0 .. Attempts
    BY <2>1, Constants0 DEF TestInv, CountInv
  <2> HIDE DEF s
  <2>3. Loss(s) \in 0 .. 100
    BY <2>2, LossIs
  <2>4. QED
    BY <2>1, <2>2, <2>3, OutsideKeepsTrace
<1>3. CASE QueryDone
  <2>1. CASE wan_tick = 1
    <3>1. /\ wan_tick' = 0 /\ wan' = Unknown /\ strayed' = FALSE /\ SendProbe(1)
          /\ UNCHANGED <<ping, responder>>
      BY <1>3, <2>1 DEF QueryDone, StartTrace
    <3>2. pc' = "probe" /\ probes' = 1
      BY <3>1 DEF SendProbe
    <3>3. /\ Unknown \in [hops : Seq(Hosts \cup {Star}), reachable : BOOLEAN, loss : 0 .. 100]
          /\ Unknown.hops = <<>> /\ Unknown.reachable = FALSE /\ Len(Unknown.hops) = 0
      BY DEF Unknown
    <3>4. TraceType' /\ StateType' /\ HopInv'
      <4>1. wan' \in [hops : Seq(Hosts \cup {Star}), reachable : BOOLEAN, loss : 0 .. 100]
            /\ Len(wan'.hops) = 0 /\ wan'.reachable = FALSE
        BY <3>1, <3>3
      <4>2. TraceType'
        <5>1. 1 \in 0 .. MaxHops /\ FALSE \in BOOLEAN
          BY <1>c
        <5>2. responder' = responder /\ strayed' = FALSE /\ probes' = 1
          BY <3>1, <3>2
        <5>3. QED
          BY <1>s, <5>1, <5>2, Zenon DEF TraceType
      <4>3. StateType'
        BY <1>c, <3>1, <4>1 DEF StateType
      <4>4. HopInv'
        BY <1>c, <3>2, <4>1 DEF HopInv
      <4>5. QED
        BY <4>2, <4>3, <4>4
    <3>5. ProbeInv'
      BY <3>1, SendProbeKeeps
    <3>6. HopsAreThePath'
      <4>1. 1 .. 0 = {}
        OBVIOUS
      <4>2. QED
        BY <3>1, <3>3, <4>1 DEF HopsAreThePath
    <3>7. QED
      BY <3>4, <3>5, <3>6 DEF TraceInv
  <2>2. CASE wan_tick # 1
    <3>1. /\ wan_tick' = wan_tick + 1 /\ pc' = "idle"
          /\ UNCHANGED <<responder, probes, strayed, wan>>
      BY <1>3, <2>2 DEF QueryDone, StartTrace
    <3>2. wan_tick' \in {0, 1}
      BY <1>s, <2>2, <3>1 DEF StateType
    <3>3. TraceType' /\ StateType' /\ ProbeInv' /\ HopInv'
      BY <1>s, <3>1, <3>2 DEF TraceType, StateType, ProbeInv, HopInv
    <3>4. HopsAreThePath'
      BY <1>s, <3>1 DEF HopsAreThePath, Reached, TraceTarget
    <3>5. QED
      BY <3>3, <3>4 DEF TraceInv
  <2>3. QED
    BY <2>1, <2>2
<1>4. CASE ProbeFails \/ (\E p \in air : ProbeHears(p))
  <2>1. /\ pc = "probe" /\ pc' = "probed" /\ UNCHANGED <<probes, wan, wan_tick>>
        /\ \/ responder' = Star /\ strayed' = strayed
           \/ \E p \in air : /\ responder' = p.from
                             /\ strayed' = (strayed \/ p.kind # "trace" \/ p.age # 0)
    BY <1>4 DEF ProbeFails, ProbeHears, state
  <2>2. \A p \in air : /\ p.from \in Hosts /\ p.kind \in {"ping", "trace"}
                       /\ p.kind = "trace" /\ p.age = 0 => p.from = Reached(probes)
    BY <1>s, <2>1 DEF AirType, Packet, ProbeInv
  <2>3. /\ responder' \in Hosts \cup {Star} /\ strayed' \in BOOLEAN
        /\ ~strayed' => ~strayed /\ responder' \in {Star, Reached(probes)}
    BY <1>s, <2>1, <2>2 DEF TraceType
  <2>4. TraceType' /\ StateType' /\ ProbeInv'
    BY <1>s, <2>1, <2>3 DEF TraceType, StateType, ProbeInv
  <2>5. HopInv'
    BY <1>s, <2>1, <2>3 DEF HopInv, Reached, TraceTarget
  <2>6. HopsAreThePath'
    BY <1>s, <2>1, <2>3 DEF HopsAreThePath, Reached, TraceTarget
  <2>7. QED
    BY <2>4, <2>5, <2>6 DEF TraceInv
<1>5. CASE ProbeDone
  BY <1>5, ProbeDoneKeepsTrace
<1>6. QED
  BY <1>1, <1>2, <1>3, <1>4, <1>5 DEF Next

-----------------------------------------------------------------------------
\* Steps that leave the test and its verdict alone.
LEMMA OutsideKeepsTest ==
  ASSUME TestInv, UNCHANGED <<sent, successes, measured, wan>>,
         \/ use' = use /\ (use = "quality" => pc' \in {"ping", "pinged"})
         \/ use # "quality" /\ use' # "quality",
         pc' \notin {"probe", "probed"} => pc \notin {"probe", "probed"}
  PROVE  TestInv'
<1>1. TestType' /\ CountInv'
  BY DEF TestInv, TestType, CountInv
<1>2. JudgedInv'
  BY DEF TestInv, JudgedInv
<1>3. QED
  BY <1>1, <1>2 DEF TestInv

\* The trace ends in the quality test, or with a second hop that is silent.
LEMMA ProbeDoneKeepsTest ==
  ASSUME PingInv, TraceInv, TestInv, ProbeDone
  PROVE  TestInv'
<1>s. StateType /\ TraceType /\ HopInv /\ TestType /\ CountInv
  BY DEF TraceInv, TestInv
<1>c. Attempts \in Nat \ {0} /\ MaxHops \in Nat \ {0} /\ Star \notin Hosts
  BY Constants0
<1> DEFINE w == Traced(wan, responder)
<1>1. /\ pc = "probed" /\ wan' = w /\ successes' = successes /\ measured' = measured
      /\ \/ SendProbe(probes + 1) /\ UNCHANGED ping /\ sent' = sent
         \/ Testable(w) /\ SendPing(w.hops[2], "quality") /\ sent' = 1
         \/ ~Testable(w) /\ EndTick /\ sent' = 0
  BY DEF ProbeDone
<1>2. use # "quality" /\ sent = 0 /\ successes = 0
  BY <1>s, <1>1 DEF CountInv
<1>3. /\ w.hops \in Seq(Hosts \cup {Star})
      /\ w.reachable => Len(w.hops) >= 2
  <2>1. /\ probes \in 1 .. MaxHops /\ Len(wan.hops) = probes - 1
        /\ responder \in Hosts \cup {Star} /\ Len(wan.hops) < MaxHops
    BY <1>s, <1>c, <1>1 DEF HopInv, TraceType
  <2> HIDE DEF w
  <2>2. /\ w \in [hops : Seq(Hosts \cup {Star}), reachable : BOOLEAN, loss : 0 .. 100]
        /\ Len(w.hops) = Len(wan.hops) + 1
        /\ w.reachable => wan.reachable \/ (responder # Star /\ Len(w.hops) >= 2)
    BY <1>s, <2>1, TracedIs DEF w
  <2>3. wan.reachable => Len(wan.hops) >= 2
    BY <1>s DEF HopInv
  <2>4. QED
    BY <2>1, <2>2, <2>3
<1> HIDE DEF w
<1>4. CASE SendProbe(probes + 1) /\ UNCHANGED ping /\ sent' = sent
  <2>1. pc' = "probe" /\ use' = use
    BY <1>4 DEF SendProbe, ping
  <2>2. QED
    BY <1>s, <1>1, <1>2, <1>4, <2>1 DEF TestInv, TestType, CountInv, JudgedInv
<1>5. CASE Testable(w) /\ SendPing(w.hops[2], "quality") /\ sent' = 1
  <2>1. pc' = "ping" /\ use' = "quality"
    BY <1>5 DEF SendPing
  <2>2. sent' \in 1 .. Attempts /\ successes' \in 0 .. sent' - 1 /\ sent' \in 0 .. Attempts
    BY <1>c, <1>1, <1>2, <1>5
  <2>3. QED
    BY <1>s, <1>1, <2>1, <2>2 DEF TestInv, TestType, CountInv, JudgedInv
<1>6. CASE ~Testable(w) /\ EndTick /\ sent' = 0
  <2>1. pc' = "idle" /\ use' = "gateway"
    BY <1>6 DEF EndTick
  <2>2. sent' = 0 /\ successes' = 0 /\ 0 \in 0 .. Attempts
    BY <1>c, <1>1, <1>2, <1>6
  <2>3. TestType' /\ CountInv'
    BY <1>s, <1>1, <2>1, <2>2 DEF TestType, CountInv
  <2>4. w.reachable => w.hops[2] = Star
    BY <1>3, <1>6 DEF Testable
  <2>5. JudgedInv'
    BY <1>1, <2>4 DEF JudgedInv
  <2>6. QED
    BY <2>3, <2>5 DEF TestInv
<1>7. QED
  BY <1>1, <1>4, <1>5, <1>6

\* A ping of the quality test returns.
LEMMA QualityDoneKeepsTest ==
  ASSUME PingInv, TraceInv, TestInv, QualityDone
  PROVE  TestInv'
<1>s. StateType /\ TestType /\ CountInv
  BY DEF TraceInv, TestInv
<1>c. Attempts \in Nat \ {0}
  BY Constants0
<1> DEFINE s == IF result THEN successes + 1 ELSE successes
<1>1. /\ pc = "pinged" /\ use = "quality"
      /\ \/ /\ sent < Attempts /\ SendPing(aim, "quality")
            /\ sent' = sent + 1 /\ successes' = s
            /\ UNCHANGED <<wan, measured>>
         \/ /\ sent = Attempts /\ EndTick
            /\ sent' = 0 /\ successes' = 0 /\ measured' = s
            /\ wan' = [wan EXCEPT !.loss = Loss(s)]
  BY DEF QualityDone
<1>2. sent \in 1 .. Attempts /\ s \in 0 .. sent
  BY <1>s, <1>1 DEF CountInv
<1> HIDE DEF s
<1>3. CASE sent < Attempts /\ SendPing(aim, "quality")
           /\ sent' = sent + 1 /\ successes' = s /\ UNCHANGED <<wan, measured>>
  <2>1. pc' = "ping" /\ use' = "quality"
    BY <1>3 DEF SendPing
  <2>2. /\ sent' \in 1 .. Attempts /\ successes' \in 0 .. sent' - 1
        /\ sent' \in 0 .. Attempts /\ successes' \in 0 .. Attempts
    BY <1>c, <1>2, <1>3
  <2>3. QED
    BY <1>s, <1>3, <2>1, <2>2 DEF TestInv, TestType, CountInv, JudgedInv
<1>4. CASE /\ sent = Attempts /\ EndTick
           /\ sent' = 0 /\ successes' = 0 /\ measured' = s
           /\ wan' = [wan EXCEPT !.loss = Loss(s)]
  <2>1. pc' = "idle" /\ use' = "gateway"
    BY <1>4 DEF EndTick
  <2>2. s \in 0 .. Attempts /\ s \in -1 .. Attempts /\ s >= 0 /\ 0 \in 0 .. Attempts
    BY <1>c, <1>2, <1>4
  <2>3. TestType' /\ CountInv'
    BY <1>4, <2>1, <2>2 DEF TestType, CountInv
  <2>4. wan'.loss = Loss(s)
    BY <1>s, <1>4 DEF StateType
  <2>5. JudgedInv'
    BY <1>4, <2>2, <2>4, LossIs DEF JudgedInv
  <2>6. QED
    BY <2>3, <2>5 DEF TestInv
<1>5. QED
  BY <1>1, <1>3, <1>4

\* Every step keeps the count of the test and what its verdict rests on.
LEMMA TestStep ==
  ASSUME PingInv, TraceInv, TestInv, Next
  PROVE  TestInv'
<1>s. TestType /\ CountInv /\ JudgedInv
  BY DEF TestInv
<1>1. CASE \/ MediumTick \/ SlowTick \/ GatewayDone \/ DeviceDone
           \/ (\E p \in air : HearReply(p))
           \/ (\E rest \in Foreign : HearOther(rest))
           \/ (\E rest \in Short : HearShort(rest))
           \/ PingFails \/ TimePasses
           \/ ProbeFails \/ (\E p \in air : ProbeHears(p))
  <2>1. UNCHANGED <<sent, successes, measured, wan>>
    BY <1>1 DEF MediumTick, SlowTick, GatewayDone, DeviceDone, HearReply, HearOther, HearShort,
                PingFails, TimePasses, ProbeFails, ProbeHears, test, state
  <2>2. \/ use' = use /\ (use = "quality" => pc' \in {"ping", "pinged"})
        \/ use # "quality" /\ use' # "quality"
    <3>1. CASE MediumTick \/ GatewayDone \/ DeviceDone
      BY <1>s, <3>1 DEF MediumTick, GatewayDone, DeviceDone, SendPing, EndTick, CountInv
    <3>2. CASE SlowTick \/ ProbeFails \/ (\E p \in air : ProbeHears(p))
      BY <1>s, <3>2 DEF SlowTick, ProbeFails, ProbeHears, CountInv, ping
    <3>3. CASE \/ (\E p \in air : HearReply(p))
               \/ (\E rest \in Foreign : HearOther(rest))
               \/ (\E rest \in Short : HearShort(rest))
               \/ PingFails \/ TimePasses
      BY <3>3 DEF HearReply, HearOther, HearShort, PingFails, TimePasses, Returns
    <3>4. QED
      BY <1>1, <3>1, <3>2, <3>3
  <2>3. pc' \notin {"probe", "probed"} => pc \notin {"probe", "probed"}
    BY <1>1 DEF MediumTick, SlowTick, GatewayDone, DeviceDone, HearReply, HearOther, HearShort,
                PingFails, TimePasses, ProbeFails, ProbeHears
  <2>4. QED
    BY <2>1, <2>2, <2>3, OutsideKeepsTest
<1>2. CASE QueryDone
  <2>1. /\ pc = "query" /\ use' = use /\ UNCHANGED <<sent, successes>>
        /\ \/ pc' = "probe" /\ measured' = -1
           \/ pc' = "idle" /\ UNCHANGED <<wan, measured>>
    BY <1>2 DEF QueryDone, StartTrace, SendProbe, ping
  <2>2. -1 \in -1 .. Attempts
    BY Constants0
  <2>3. TestType' /\ CountInv'
    BY <1>s, <2>1, <2>2 DEF TestType, CountInv
  <2>4. JudgedInv'
    BY <1>s, <2>1 DEF JudgedInv
  <2>5. QED
    BY <2>3, <2>4 DEF TestInv
<1>3. CASE ProbeDone
  BY <1>3, ProbeDoneKeepsTest
<1>4. CASE QualityDone
  BY <1>4, QualityDoneKeepsTest
<1>5. QED
  BY <1>1, <1>2, <1>3, <1>4 DEF Next

-----------------------------------------------------------------------------
\* The invariant of pings, trace and test holds in every behaviour.
THEOREM ProbesInvHolds == Spec => []ProbesInv
<1>1. Init => ProbesInv
  <2>s. SUFFICES ASSUME Init
                 PROVE  ProbesInv
    OBVIOUS
  <2>c. /\ SeqMod \in Nat \ {0, 1} /\ Timeout \in Nat \ {0} /\ MaxHops \in Nat \ {0}
        /\ Attempts \in Nat \ {0} /\ MaxShort \in Nat /\ Gateway \in Hosts /\ MaxElapsed \in Nat
    BY Constants0
  <2>1. PcType /\ AirType /\ AirInv /\ SuccessIsAnswer
    BY <2>s DEF Init, PcType, AirType, AirInv, SuccessIsAnswer
  <2>2. PingType /\ ClockInv
    <3>1. /\ 0 \in 0 .. SeqMod - 1 /\ 0 \in 0 .. Timeout /\ 0 \in 0 .. MaxShort
          /\ 0 \in 0 .. MaxElapsed /\ FALSE \in BOOLEAN /\ (1 + 0) * Timeout = Timeout /\ 0 < Timeout
      BY <2>c
    <3>2. /\ use = "gateway" /\ aim = Gateway /\ result = FALSE /\ g_seq = 0
          /\ elapsed = 0 /\ waited = 0 /\ shorts = 0 /\ accepted = {}
      BY <2>s DEF Init
    <3>3. PingType
      BY <2>c, <3>1, <3>2 DEF PingType, Uses
    <3>4. ClockInv
      BY <3>1, <3>2 DEF ClockInv
    <3>5. QED
      BY <3>3, <3>4
  <2>3. TraceType /\ ProbeInv
    <3>1. 0 \in 0 .. MaxHops /\ FALSE \in BOOLEAN
      BY <2>c
    <3>2. responder = Star /\ probes = 0 /\ strayed = FALSE /\ pc = "idle"
      BY <2>s DEF Init
    <3>3. QED
      BY <3>1, <3>2 DEF TraceType, ProbeInv
  <2>4. /\ wan \in [hops : Seq(Hosts \cup {Star}), reachable : BOOLEAN, loss : 0 .. 100]
        /\ Len(wan.hops) = 0 /\ wan.reachable = FALSE
    BY <2>s DEF Init, Unknown
  <2>5. StateType /\ HopInv
    BY <2>s, <2>c, <2>4 DEF Init, StateType, HopInv
  <2>6. HopsAreThePath
    BY <2>4 DEF HopsAreThePath
  <2>7. TestInv
    BY <2>s, <2>c, <2>4 DEF Init, TestInv, TestType, CountInv, JudgedInv
  <2>8. QED
    BY <2>1, <2>2, <2>3, <2>5, <2>6, <2>7 DEF ProbesInv, PingInv, TraceInv
<1>2. ProbesInv /\ [Next]_vars => ProbesInv'
  <2>s. SUFFICES ASSUME ProbesInv, [Next]_vars
                 PROVE  ProbesInv'
    OBVIOUS
  <2>1. PingInv /\ TraceInv /\ TestInv
    BY <2>s DEF ProbesInv
  <2>2. CASE Next
    BY <2>1, <2>2, PingStep, TraceStep, TestStep DEF ProbesInv
  <2>3. CASE UNCHANGED vars
    <3>1. /\ UNCHANGED <<pc, use, aim, result, g_seq, elapsed, waited, shorts, accepted>>
          /\ UNCHANGED <<responder, probes, strayed, sent, successes, measured>>
          /\ UNCHANGED <<wan_tick, wan, air>>
      BY <2>3 DEF vars, ping, trace, test, state
    <3>2. PingInv'
      BY <2>1, <3>1 DEF PingInv, PcType, PingType, AirType, AirInv, SuccessIsAnswer, ClockInv,
                        Since
    <3>3. TraceInv'
      BY <2>1, <3>1 DEF TraceInv, TraceType, StateType, ProbeInv, HopInv, HopsAreThePath,
                        Reached, TraceTarget
    <3>4. TestInv'
      BY <2>1, <3>1 DEF TestInv, TestType, CountInv, JudgedInv
    <3>5. QED
      BY <3>2, <3>3, <3>4 DEF ProbesInv
  <2>4. QED
    BY <2>s, <2>2, <2>3
<1>3. QED
  BY <1>1, <1>2, PTL DEF Spec

\* Types: the hops never leave their array, whatever the network answers.
THEOREM TypeCorrect == Spec => []TypeOK
<1>1. ProbesInv => TypeOK
  BY DEF ProbesInv, PingInv, TraceInv, TestInv, PcType, PingType, AirType, TraceType, StateType,
         TestType, TypeOK, Uses
<1>2. QED
  BY <1>1, ProbesInvHolds, PTL

\* A late answer never passes for the answer to a newer ping, for every
\* number of packets under way and every wrap of the sequence number.
THEOREM PingsAreAnswered == Spec => []SuccessIsAnswer
<1>1. ProbesInv => SuccessIsAnswer
  BY DEF ProbesInv, PingInv
<1>2. QED
  BY <1>1, ProbesInvHolds, PTL

\* The time for which net_ping blocks the thread is bounded by the number of
\* short packets that it hears, for every such number; there is no bound
\* without one.
THEOREM PingsAreBounded == Spec => []PingIsBounded
<1>1. ProbesInv => PingIsBounded
  <2>s. SUFFICES ASSUME ProbesInv
                 PROVE  PingIsBounded
    OBVIOUS
  <2>1. /\ elapsed \in 0 .. MaxElapsed /\ waited \in 0 .. Timeout /\ shorts \in 0 .. MaxShort
        /\ shorts < MaxShort => elapsed - waited < (1 + shorts) * Timeout
    BY <2>s DEF ProbesInv, PingInv, PingType, ClockInv
  <2>2. Timeout \in Nat \ {0} /\ MaxShort \in Nat /\ MaxElapsed \in Nat
    BY Constants0
  <2> DEFINE P == (1 + shorts) * Timeout
  <2>3. P \in Nat /\ (2 + shorts) * Timeout = P + Timeout
    BY <2>1, <2>2
  <2>4. ASSUME shorts < MaxShort
        PROVE  elapsed < (2 + shorts) * Timeout
    <3>1. elapsed - waited < P
      BY <2>1, <2>4
    <3> HIDE DEF P
    <3>2. elapsed < P + Timeout
      BY <2>1, <2>2, <2>3, <3>1
    <3>3. QED
      BY <2>3, <3>2
  <2>5. QED
    BY <2>4 DEF PingIsBounded
<1>2. QED
  BY <1>1, ProbesInvHolds, PTL

\* The hops of the trace are the routers of the path, each at its place.
THEOREM TraceIsThePath == Spec => []HopsAreThePath
<1>1. ProbesInv => HopsAreThePath
  BY DEF ProbesInv, TraceInv
<1>2. QED
  BY <1>1, ProbesInvHolds, PTL

\* The status screen says "Healthy" only of a link that was measured to be
\* so, or that could not be measured.
THEOREM HealthIsMeasured == Spec => []HealthyIsMeasured
<1>1. ProbesInv => HealthyIsMeasured
  <2>s. SUFFICES ASSUME ProbesInv, pc = "idle", WanLabel = "Healthy"
                 PROVE  \/ wan.hops[2] = Star
                        \/ measured >= 0 /\ (Attempts - measured) * 100 < 21 * Attempts
    BY DEF HealthyIsMeasured
  <2>1. CountInv /\ JudgedInv /\ wan.loss \in 0 .. 100
    BY <2>s DEF ProbesInv, TestInv, TraceInv, StateType
  <2>2. wan.reachable /\ wan.loss <= 20
    BY <2>s, <2>1 DEF WanLabel
  <2>3. use # "quality"
    BY <2>s, <2>1 DEF CountInv
  <2>4. QED
    BY <2>s, <2>1, <2>2, <2>3 DEF JudgedInv
<1>2. QED
  BY <1>1, ProbesInvHolds, PTL
=============================================================================
