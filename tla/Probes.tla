------------------------------- MODULE Probes -------------------------------
(***************************************************************************)
(* The probes that the collector's ticks run: the echo request of          *)
(* net_ping.c, sent to the gateway, to a device and to the next hop, and   *)
(* the trace and the quality test of net_discovery.c, with the word that   *)
(* the status screen makes of them.  What the ticks do with the verdicts   *)
(* on gateway and devices is in Monitor and InfraMonitor; the name query   *)
(* takes the first packet that reaches the port of its socket, and Monitor *)
(* has its verdict.                                                        *)
(*                                                                         *)
(* Probes run one at a time and block the only thread.  Each opens a raw   *)
(* socket of its own, which hears every ICMP packet that arrives while it  *)
(* is open: answers to the probes before it, late ones included, and       *)
(* packets that have nothing to do with the program.  An answer may be     *)
(* lost, delayed and overtaken; it dies before SeqMod more probes are      *)
(* sent, which 2^16 sequence numbers make certain.  Time passes in units   *)
(* of which a ping's timeout has Timeout; latencies are left out.  A ping  *)
(* may hear short packets without end: they are counted up to MaxShort,    *)
(* and its time up to the bound that goes with that count.                 *)
(***************************************************************************)
EXTENDS Integers, Sequences, FiniteSets

CONSTANTS
  Path,       \* the routers on the way to the trace target, and the target
  Gateway,    \* the configured ping_target
  Device,     \* an infrastructure device on the local network
  SeqMod,     \* 2^16: values of g_seq
  Timeout,    \* timeout_ms of net_ping
  MaxHops,    \* DISCOVERY_MAX_HOPS
  Attempts,   \* pings of discovery_wan_quality
  MaxShort,   \* short packets during one ping are counted up to here (bound)
  MaxAir      \* answers under way (bound)

TraceTarget == Path[Len(Path)]
Hosts       == {Path[i] : i \in 1 .. Len(Path)} \cup {Gateway, Device}
Star        == "*"     \* a hop that did not answer

ASSUME ProbesAssumption ==
  /\ Len(Path) \in Nat \ {0}
  /\ \A i, j \in 1 .. Len(Path) : Path[i] = Path[j] => i = j
  /\ Star \notin Hosts
  /\ SeqMod \in Nat \ {0, 1} /\ Timeout \in Nat \ {0} /\ MaxHops \in Nat \ {0}
  /\ Attempts \in Nat \ {0} /\ MaxShort \in Nat \ {0} /\ MaxAir \in Nat

\* Where the time of a ping is no longer counted.
MaxElapsed == (2 + MaxShort) * Timeout

\* An answer under way: to a ping with its sequence number or to a trace
\* probe; age counts the probes sent since.
Packet == [kind : {"ping", "trace"}, from : Hosts, seq : 0 .. SeqMod - 1, age : 0 .. SeqMod - 1]

VARIABLES
  pc,          \* idle, or in a probe: waiting ("ping", "probe", "query") or
               \* returning from it ("pinged", "probed")
  use,         \* whom the ping is for: gateway, device, quality
  aim,         \* the host that it is sent to
  result,      \* what it returned
  g_seq,
  elapsed,     \* time since the request was sent, up to MaxElapsed
  waited,      \* time since the running recvfrom was called
  responder,   \* what the trace probe returned: a host, or Star
  probes,      \* trace probes sent
  sent,        \* pings of the quality test sent, and
  successes,   \* how many of them were answered
  wan_tick,    \* g_wan_discovery_tick
  wan,         \* g_wan_discovery: hops, wan_reachable, wan_packet_loss_pct
  air,         \* answers under way
  (* History: *)
  shorts,      \* short packets that the ping has heard, up to MaxShort
  accepted,    \* the answer that ended the ping, {} if none
  strayed,     \* the trace took a packet for an answer that is none
  measured     \* pings answered in the quality test after the trace, or -1

ping  == <<use, aim, result, g_seq, elapsed, waited, shorts, accepted>>
trace == <<responder, probes, strayed>>
test  == <<sent, successes, measured>>
state == <<wan_tick, wan>>
vars  == <<pc, ping, trace, test, state, air>>

Unknown == [hops |-> <<>>, reachable |-> FALSE, loss |-> 0]

Init ==
  /\ pc = "idle" /\ use = "gateway" /\ aim = Gateway /\ result = FALSE
  /\ g_seq = 0 /\ elapsed = 0 /\ waited = 0 /\ shorts = 0 /\ accepted = {}
  /\ responder = Star /\ probes = 0 /\ strayed = FALSE
  /\ sent = 0 /\ successes = 0 /\ measured = -1
  /\ wan_tick = 0 /\ wan = Unknown /\ air = {}

-----------------------------------------------------------------------------
(* The network.  A new probe makes the answers under way older; its own    *)
(* answer joins them, unless it is lost or there is none.                  *)

Aged == {[p EXCEPT !.age = @ + 1] : p \in {q \in air : q.age < SeqMod - 1}}

Answer(p) ==
  \/ air' = Aged
  \/ Cardinality(Aged) < MaxAir /\ air' = Aged \cup {p}

-----------------------------------------------------------------------------
(* net_ping.  Its locals are forgotten when it returns.                    *)

Returns(ok) ==
  /\ pc' = "pinged" /\ result' = ok
  /\ elapsed' = 0 /\ waited' = 0 /\ shorts' = 0

\* Mutant: the counter is wider than the field it is sent in.
SeqUnwrapped == g_seq + 1

\* Mutant: the sequence number is not advanced.
SeqKept == g_seq

\* ++g_seq
SeqNext == (g_seq + 1) % SeqMod

\* Up to sendto.
SendPing(host, for) ==
  /\ pc' = "ping" /\ use' = for /\ aim' = host /\ g_seq' = SeqNext
  /\ elapsed' = 0 /\ waited' = 0 /\ shorts' = 0 /\ accepted' = {} /\ result' = FALSE
  /\ Answer([kind |-> "ping", from |-> host, seq |-> g_seq', age |-> 0])

\* What net_ping looks for in a packet.
IsReply(p) == p.kind = "ping" /\ p.seq = g_seq

\* Packets too short for struct icmp; echo replies to the trace's requests
\* are among them.
IsShort(p) == p.kind = "trace" /\ p.from = TraceTarget

\* recvfrom returns the reply.
HearReply(p) ==
  /\ pc = "ping" /\ IsReply(p)
  /\ Returns(TRUE)
  /\ accepted' = {p} /\ air' = air \ {p}
  /\ UNCHANGED <<use, aim, g_seq, trace, test, state>>

\* Mutant: the time is not looked at.
NeverOver == FALSE

\* Whether a packet that is not the reply comes after the timeout.
Over == elapsed >= Timeout

\* recvfrom returns a full-sized packet of another kind, which leaves the
\* others under way: out of time, or wait again.
HearOther(rest) ==
  /\ pc = "ping"
  /\ \/ Over /\ Returns(FALSE)
     \/ ~Over /\ waited' = 0 /\ UNCHANGED <<pc, result, elapsed, shorts>>
  /\ air' = rest
  /\ UNCHANGED <<use, aim, g_seq, accepted, trace, test, state>>

\* recvfrom returns a short packet: wait again without a look at the time.
HearShort(rest) ==
  /\ pc = "ping"
  /\ waited' = 0 /\ air' = rest
  /\ shorts' = IF shorts < MaxShort THEN shorts + 1 ELSE MaxShort
  /\ UNCHANGED <<pc, use, aim, result, g_seq, elapsed, accepted, trace, test, state>>

\* Mutant: the socket has no receive timeout.
NeverExpires == FALSE

\* SO_RCVTIMEO
Expired == waited = Timeout

\* recvfrom gives up after the timeout; or sendto, or the socket, failed.
PingFails ==
  /\ pc = "ping" /\ (Expired \/ elapsed = 0)
  /\ Returns(FALSE)
  /\ UNCHANGED <<use, aim, g_seq, accepted, trace, test, state, air>>

TimePasses ==
  /\ pc = "ping" /\ waited < Timeout
  /\ waited' = waited + 1
  /\ elapsed' = IF elapsed < MaxElapsed THEN elapsed + 1 ELSE MaxElapsed
  /\ UNCHANGED <<pc, use, aim, result, g_seq, shorts, accepted, trace, test, state, air>>

-----------------------------------------------------------------------------
(* The medium tick: the gateway, then a device if one is enabled.          *)

\* The tick ends.
EndTick ==
  /\ pc' = "idle" /\ use' = "gateway" /\ aim' = Gateway /\ result' = FALSE /\ accepted' = {}
  /\ UNCHANGED <<g_seq, elapsed, waited, shorts, air>>

MediumTick ==
  /\ pc = "idle"
  /\ SendPing(Gateway, "gateway")
  /\ UNCHANGED <<trace, test, state>>

GatewayDone ==
  /\ pc = "pinged" /\ use = "gateway"
  /\ EndTick \/ SendPing(Device, "device")
  /\ UNCHANGED <<trace, test, state>>

DeviceDone ==
  /\ pc = "pinged" /\ use = "device"
  /\ EndTick
  /\ UNCHANGED <<trace, test, state>>

-----------------------------------------------------------------------------
(* The slow tick: the name query, and every other time the trace and the   *)
(* quality test.                                                           *)

\* slow_timer_cb up to net_dns_probe.
SlowTick ==
  /\ pc = "idle" /\ pc' = "query"
  /\ UNCHANGED <<ping, trace, test, state, air>>

\* Who answers a probe with that time to live: the router at the distance, or
\* the target if it is nearer.
Reached(ttl) == IF ttl <= Len(Path) THEN Path[ttl] ELSE TraceTarget

\* probe_ttl up to sendto.
SendProbe(ttl) ==
  /\ pc' = "probe" /\ probes' = ttl
  /\ Answer([kind |-> "trace", from |-> Reached(ttl), seq |-> 0, age |-> 0])

\* Every other time the results are cleared for a trace.
StartTrace ==
  IF wan_tick = 1
  THEN wan_tick' = 0 /\ wan' = Unknown /\ strayed' = FALSE /\ measured' = -1 /\ SendProbe(1)
  ELSE pc' = "idle" /\ wan_tick' = wan_tick + 1 /\ UNCHANGED <<probes, strayed, measured, wan, air>>

\* net_dns_probe returns, with the first packet or after its timeout.
QueryDone ==
  /\ pc = "query"
  /\ StartTrace
  /\ UNCHANGED <<ping, responder, sent, successes>>

\* probe_ttl takes the first packet that comes: any echo reply and any time
\* exceeded message is an answer, whomever it is for.
ProbeHears(p) ==
  /\ pc = "probe"
  /\ pc' = "probed" /\ responder' = p.from /\ air' = air \ {p}
  /\ strayed' = (strayed \/ p.kind # "trace" \/ p.age # 0)
  /\ UNCHANGED <<probes, ping, test, state>>

\* Nothing comes in time, or something else.
ProbeFails ==
  /\ pc = "probe"
  /\ pc' = "probed" /\ responder' = Star
  /\ UNCHANGED <<probes, strayed, ping, test, state, air>>

\* Mutant: a probe without an answer leaves no hop.
HopSkipped(hops, host) == IF host = Star THEN hops ELSE Append(hops, host)

\* A hop for every probe, answered or not.
WithHop(hops, host) == Append(hops, host)

\* The loop of discovery_trace_wan after a probe.
Traced(w, host) ==
  LET hops == WithHop(w.hops, host)
  IN  [w EXCEPT !.hops = hops,
                !.reachable = @ \/ (host \notin {Star, Gateway} /\ Len(hops) >= 2)]

\* Whether slow_timer_cb runs the quality test.
Testable(w) == Len(w.hops) >= 2 /\ w.hops[2] # Star

ProbeDone ==
  LET w    == Traced(wan, responder)
      done == probes = MaxHops \/ responder = TraceTarget
  IN  /\ pc = "probed"
      /\ wan' = w /\ responder' = Star
      /\ \/ ~done /\ SendProbe(probes + 1) /\ UNCHANGED <<ping, sent>>
         \/ done /\ Testable(w) /\ SendPing(w.hops[2], "quality") /\ sent' = 1 /\ probes' = 0
         \/ done /\ ~Testable(w) /\ EndTick /\ sent' = 0 /\ probes' = 0
      /\ UNCHANGED <<strayed, successes, measured, wan_tick>>

\* Mutant: the share of the answers.
Gain(s) == (s * 100) \div Attempts

\* wan_packet_loss_pct after s answers.
Loss(s) == ((Attempts - s) * 100) \div Attempts

\* The loop of discovery_wan_quality after a ping, and what it computes.
QualityDone ==
  LET s == IF result THEN successes + 1 ELSE successes
  IN  /\ pc = "pinged" /\ use = "quality"
      /\ \/ /\ sent < Attempts
            /\ SendPing(aim, "quality")
            /\ sent' = sent + 1 /\ successes' = s
            /\ UNCHANGED <<wan, measured>>
         \/ /\ sent = Attempts
            /\ EndTick
            /\ sent' = 0 /\ successes' = 0 /\ measured' = s
            /\ wan' = [wan EXCEPT !.loss = Loss(s)]
      /\ UNCHANGED <<trace, wan_tick>>

-----------------------------------------------------------------------------
Foreign == {air} \cup {air \ {p} : p \in {q \in air : ~IsReply(q) /\ ~IsShort(q)}}
Short   == {air} \cup {air \ {p} : p \in {q \in air : IsShort(q)}}

Next ==
  \/ MediumTick \/ SlowTick \/ QueryDone
  \/ \E p \in air : HearReply(p)
  \/ \E rest \in Foreign : HearOther(rest)
  \/ \E rest \in Short : HearShort(rest)
  \/ PingFails \/ TimePasses
  \/ GatewayDone \/ DeviceDone \/ QualityDone
  \/ \E p \in air : ProbeHears(p)
  \/ ProbeFails \/ ProbeDone

\* Time passes for a probe that waits, a receive timeout that has expired ends
\* the wait, and the thread goes on.  Nothing keeps short packets away.
Fairness ==
  /\ WF_vars(TimePasses) /\ WF_vars(Expired /\ PingFails)
  /\ WF_vars(GatewayDone) /\ WF_vars(DeviceDone) /\ WF_vars(QualityDone)
  /\ WF_vars(QueryDone) /\ WF_vars(ProbeFails) /\ WF_vars(ProbeDone)

Spec == Init /\ [][Next]_vars /\ Fairness

-----------------------------------------------------------------------------
(* Properties *)

TypeOK ==
  /\ pc \in {"idle", "ping", "pinged", "query", "probe", "probed"}
  /\ use \in {"gateway", "device", "quality"} /\ aim \in Hosts
  /\ result \in BOOLEAN /\ g_seq \in 0 .. SeqMod - 1
  /\ elapsed \in 0 .. MaxElapsed /\ waited \in 0 .. Timeout
  /\ responder \in Hosts \cup {Star} /\ probes \in 0 .. MaxHops
  /\ sent \in 0 .. Attempts /\ successes \in 0 .. Attempts
  /\ wan_tick \in {0, 1}
  /\ wan \in [hops : Seq(Hosts \cup {Star}), reachable : BOOLEAN, loss : 0 .. 100]
  /\ Len(wan.hops) <= MaxHops
  /\ air \subseteq Packet /\ shorts \in 0 .. MaxShort
  /\ accepted \subseteq Packet /\ strayed \in BOOLEAN /\ measured \in -1 .. Attempts

\* A ping succeeds on the answer to its own request, from the host it was
\* sent to, and never on an answer to an earlier ping that comes late
\* (net_ping).
SuccessIsAnswer ==
  /\ pc = "pinged" /\ result => accepted # {}
  /\ \A p \in accepted : p.from = aim /\ p.age = 0

\* A ping blocks the thread for less than two timeouts, and for one more
\* with every short packet that it hears, for as many as are counted; there
\* is no bound without such a count (net_ping).
PingIsBounded == shorts < MaxShort => elapsed < (2 + shorts) * Timeout

\* Hop i of the trace is the router at distance i, also behind routers that
\* do not answer, or the target itself if it is nearer and was not heard at
\* its own distance; and the WAN counts as reachable only after an answer
\* from beyond the first router; unless the trace took a late or foreign
\* packet for an answer (probe_ttl, discovery_trace_wan).
HopsAreThePath ==
  ~strayed =>
    /\ \A i \in 1 .. Len(wan.hops) : wan.hops[i] \in {Star, Reached(i)}
    /\ wan.reachable => \E i \in 2 .. Len(wan.hops) : wan.hops[i] = Reached(i)

\* The status screen's word on the WAN; much jitter is "Degraded", too.
WanLabel ==
  IF ~wan.reachable THEN "No upstream"
  ELSE IF wan.loss > 20 THEN "Degraded" ELSE "Healthy"

\* "Healthy" on the status screen means that the quality test lost less than
\* 21 percent of its pings (the percentage is cut to a whole number, so this
\* is at most one of the five), unless the second hop did not answer the
\* trace, in which case nothing was measured (slow_timer_cb,
\* discovery_wan_quality, ui_status_update).
HealthyIsMeasured ==
  pc = "idle" /\ WanLabel = "Healthy" =>
    \/ wan.hops[2] = Star
    \/ measured >= 0 /\ (Attempts - measured) * 100 < 21 * Attempts

\* Every tick ends, unless short packets keep coming for ever, each before
\* the receive timeout: net_ping starts to wait again on each of them without
\* a look at the time, and the only thread with it (net_ping, net_dns_probe,
\* probe_ttl).
TicksEnd == []<>(pc = "idle") \/ []<><<\E rest \in Short : HearShort(rest)>>_vars
=============================================================================
