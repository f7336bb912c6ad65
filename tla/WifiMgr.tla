------------------------------ MODULE WifiMgr ------------------------------
(***************************************************************************)
(* The WiFi manager (net/net_wifi_mgr.c) with those who call it: the start *)
(* of the collector with its automatic connection, the slow tick, and the  *)
(* switch, the Scan and the Connect buttons of the settings screen.        *)
(*                                                                         *)
(* The adapter, the supplicant and the tools iw, iwlist, ip and            *)
(* wpa_passphrase are outside the program; each command may fail.  The     *)
(* program runs them one after the other in its only thread, so a handler  *)
(* is one step, and the air interface changes between handlers.  Signal    *)
(* and frequency of the scan results are left out: nobody reads them.      *)
(*                                                                         *)
(* The output of a scan is the names in its lines, as far as run_cmd keeps *)
(* it: a long output is cut after 4095 bytes, so that networks are lost    *)
(* and the last name may be shorter than the network's (any line stands    *)
(* for that), or the tool fails at the end of the pipe.                    *)
(***************************************************************************)
EXTENDS Integers, Sequences

CONSTANTS
  Networks,       \* names: of networks, and what is left of one that was cut
  MaxNetworks,    \* WIFI_MAX_NETWORKS
  MaxLines        \* names in the output of a scan (bound)

NoSsid == ""      \* the name of a network that does not tell it; no network
Ssids  == Networks \cup {NoSsid}
Heard  == UNION {[1 .. n -> Ssids] : n \in 0 .. MaxLines}
Tools  == {"none", "iw", "iwlist"}

ASSUME WifiAssumption ==
  /\ MaxNetworks \in Nat \ {0} /\ MaxLines \in Nat
  /\ NoSsid \notin Networks

VARIABLES
  initialized,  \* g_initialized
  wifi,         \* g_wifi_state: enabled, connected, current_ssid
  num,          \* g_wifi_state.num_scan_results
  slots,        \* the names in g_wifi_state.scan_results
  offered,      \* the entries of the dropdown of the settings screen
  found,        \* the number in its label "Found %d networks"
  (* The world: *)
  up,           \* the adapter is administratively up
  wanted,       \* the network that the running supplicant looks for
  link,         \* the network that the adapter is associated with
  (* History: *)
  tool,         \* the tool that answered the last scan
  heard,        \* the names in its output, as far as it was kept
  expected      \* the names that the dropdown should offer

belief   == <<initialized, wifi>>
output   == <<tool, heard, expected>>
scanned  == <<num, slots, offered, found, output>>
world    == <<up, wanted, link>>
wifiVars == <<belief, scanned, world>>

-----------------------------------------------------------------------------
\* /sys/class/net/<iface>/operstate, as far as the code tells it apart: an
\* adapter without a link may be down or waiting.
DownStates == IF ~up THEN {TRUE} ELSE IF link # NoSsid THEN {FALSE} ELSE BOOLEAN

\* Mutant: the answer "Not connected" is not looked for.
UpdatedIfNamed(w, isDown, answers) ==
  [w EXCEPT !.enabled = ~isDown,
            !.connected = @ \/ (answers /\ link # NoSsid),
            !.current_ssid = IF answers /\ link # NoSsid THEN link ELSE @]

\* wifi_mgr_update: the flag from operstate, the rest from iw link, if iw
\* answers.
Updated(w, isDown, answers) ==
  [w EXCEPT !.enabled = ~isDown,
            !.connected = IF answers THEN link # NoSsid ELSE @,
            !.current_ssid = IF answers THEN link ELSE @]

\* Mutant: the name is left to the next update.
BelievedNameless(w, ssid) == [w EXCEPT !.connected = TRUE]

\* A successful wifi_mgr_connect believes at once that the link is there.
Believed(w, ssid) == [w EXCEPT !.connected = TRUE, !.current_ssid = ssid]

\* What wifi_mgr_connect does once its guards are passed: it kills the
\* supplicant, and with it the link, and then it starts a new one or fails.
Connect(w, ssid, succeeds) ==
  /\ wifi' = IF succeeds THEN Believed(w, ssid) ELSE w
  /\ wanted' = IF succeeds THEN ssid ELSE NoSsid
  /\ link' = NoSsid
  /\ UNCHANGED up

-----------------------------------------------------------------------------
(* The parser of wifi_mgr_scan.  Its state is the number of results, the   *)
(* slot under construction (0 for none) and the slots.                     *)

Unparsed(s) == [num |-> 0, cur |-> 0, slots |-> s]

Complete(p) == p.cur # 0 /\ p.slots[p.cur] # NoSsid

\* Mutant: a slot is counted when it is opened.
CountEarly(p, name) ==
  IF p.num >= MaxNetworks THEN p
  ELSE [num |-> p.num + 1, cur |-> p.num + 1, slots |-> [p.slots EXCEPT ![p.num + 1] = name]]

\* A line with a name: it completes the slot before it and opens the next.
\* The loop ends when all slots are counted.
ParseLine(p, name) ==
  LET n == IF Complete(p) THEN p.num + 1 ELSE p.num IN
  IF p.num >= MaxNetworks THEN p
  ELSE IF n >= MaxNetworks THEN [p EXCEPT !.num = n]
  ELSE [num |-> n, cur |-> n + 1, slots |-> [p.slots EXCEPT ![n + 1] = name]]

\* The state of the parser after each line.
Parsing(s, lines) ==
  LET after[k \in 0 .. Len(lines)] ==
        IF k = 0 THEN Unparsed(s) ELSE ParseLine(after[k - 1], lines[k])
  IN  after

\* All lines, and the last slot.
Parse(s, lines) ==
  LET p == Parsing(s, lines)[Len(lines)]
  IN  [p EXCEPT !.num = IF Complete(p) THEN @ + 1 ELSE @]

(* The reference for a scan. *)

\* The networks among the first k lines that tell their name, for every k.
Told(lines) ==
  LET told[k \in 0 .. Len(lines)] ==
        IF k = 0 THEN << >>
        ELSE IF lines[k] = NoSsid THEN told[k - 1] ELSE Append(told[k - 1], lines[k])
  IN  told

\* As many of them as there are slots.
Listed(lines) ==
  LET named == Told(lines)[Len(lines)]
  IN  SubSeq(named, 1, IF Len(named) < MaxNetworks THEN Len(named) ELSE MaxNetworks)

-----------------------------------------------------------------------------
\* Before net_collector_init.  Something else may have made a link.  The
\* dropdown begins with the configured network.
WifiInit ==
  /\ initialized = FALSE
  /\ wifi = [enabled |-> FALSE, connected |-> FALSE, current_ssid |-> NoSsid]
  /\ num = 0 /\ slots = [i \in 1 .. MaxNetworks |-> NoSsid]
  /\ offered \in {<<>>} \cup {<<n>> : n \in Networks} /\ expected = offered
  /\ found = 0 /\ tool = "none" /\ heard = <<>>
  /\ up \in BOOLEAN /\ wanted \in Ssids
  /\ link \in IF up THEN {NoSsid, wanted} ELSE {NoSsid}

\* net_collector_init: wifi_mgr_init with its first update, then the
\* automatic connection, which a link or an adapter that is down forbids.
Start(configured) ==
  /\ ~initialized /\ initialized' = TRUE
  /\ \E isDown \in DownStates, answers, succeeds \in BOOLEAN :
       LET w == Updated([wifi EXCEPT !.enabled = TRUE], isDown, answers) IN
       IF ~w.connected /\ configured # NoSsid /\ w.enabled
       THEN Connect(w, configured, succeeds)
       ELSE wifi' = w /\ UNCHANGED world
  /\ UNCHANGED scanned

\* The end of slow_timer_cb.
wifi_mgr_update ==
  /\ initialized
  /\ \E isDown \in DownStates, answers \in BOOLEAN : wifi' = Updated(wifi, isDown, answers)
  /\ UNCHANGED <<initialized, scanned, world>>

\* wifi_switch_cb and wifi_mgr_set_enabled, when ip link succeeds; when it
\* fails nothing changes.
wifi_mgr_set_enabled(enable) ==
  /\ initialized
  /\ up' = enable
  /\ link' = IF enable THEN link ELSE NoSsid
  /\ wifi' = [wifi EXCEPT !.enabled = enable,
                          !.connected = enable /\ @,
                          !.current_ssid = IF enable THEN @ ELSE NoSsid]
  /\ UNCHANGED <<initialized, scanned, wanted>>

\* wifi_connect_cb and wifi_mgr_connect.
wifi_mgr_connect(ssid) ==
  /\ initialized /\ wifi.enabled /\ ssid # NoSsid
  /\ \E succeeds \in BOOLEAN : Connect(wifi, ssid, succeeds)
  /\ UNCHANGED <<initialized, scanned>>

\* The rest of wifi_scan_cb: the dropdown and the label from the results,
\* unless there are none.
Show(n, s) ==
  /\ offered' = IF n > 0 THEN SubSeq(s, 1, IF n < MaxNetworks THEN n ELSE MaxNetworks) ELSE offered
  /\ found' = n

\* wifi_scan_cb when iw scan succeeds.
Scan(lines) ==
  /\ initialized /\ wifi.enabled
  /\ LET p == Parse(slots, lines) IN num' = p.num /\ slots' = p.slots
  /\ tool' = "iw" /\ heard' = lines
  /\ expected' = IF Listed(lines) # <<>> THEN Listed(lines) ELSE expected
  /\ Show(num', slots')
  /\ UNCHANGED <<belief, world>>

\* wifi_scan_cb when iw fails and iwlist succeeds.  iwlist writes
\* ESSID:"name" and the parser looks for "SSID: ", so that whatever iwlist
\* has heard there is no line for the parser.
ScanWithIwlist(lines) ==
  /\ initialized /\ wifi.enabled
  /\ LET p == Parse(slots, <<>>) IN num' = p.num /\ slots' = p.slots
  /\ tool' = "iwlist" /\ heard' = lines
  /\ Show(num', slots')
  /\ UNCHANGED <<belief, world, expected>>

\* wifi_scan_cb when the scan is refused or fails; its result is ignored and
\* the results of the scan before are shown.
ScanFails ==
  /\ Show(num, slots)
  /\ UNCHANGED <<belief, world, num, slots, output>>

\* The air: the supplicant makes the link it wants, or the link is lost.
Associate ==
  /\ up /\ wanted # NoSsid /\ link # wanted
  /\ link' = wanted
  /\ UNCHANGED <<belief, scanned, up, wanted>>

LoseLink ==
  /\ link # NoSsid
  /\ link' = NoSsid
  /\ UNCHANGED <<belief, scanned, up, wanted>>

WifiNext ==
  \/ \E n \in Ssids : Start(n)
  \/ wifi_mgr_update
  \/ \E e \in BOOLEAN : wifi_mgr_set_enabled(e)
  \/ \E i \in 1 .. Len(offered) : wifi_mgr_connect(offered[i])
  \/ \E lines \in Heard : Scan(lines) \/ ScanWithIwlist(lines)
  \/ ScanFails
  \/ Associate \/ LoseLink

\* The slow timer comes round, and iw answers now and then.
Answered ==
  /\ wifi_mgr_update
  /\ wifi'.connected = (link # NoSsid)

WifiSpec == WifiInit /\ [][WifiNext]_wifiVars /\ WF_wifiVars(Start(NoSsid)) /\ WF_wifiVars(Answered)

-----------------------------------------------------------------------------
(* Properties *)

\* Types; the state names a network exactly when it claims a link, although
\* four functions set the flag and the name separately.
WifiTypeOK ==
  /\ initialized \in BOOLEAN
  /\ wifi \in [enabled : BOOLEAN, connected : BOOLEAN, current_ssid : Ssids]
  /\ wifi.connected <=> wifi.current_ssid # NoSsid
  /\ num \in 0 .. MaxNetworks + 1 /\ found \in 0 .. MaxNetworks + 1
  /\ slots \in [1 .. MaxNetworks -> Ssids]
  /\ offered \in Seq(Networks) /\ expected \in Seq(Networks) /\ tool \in Tools
  /\ up \in BOOLEAN /\ wanted \in Ssids /\ link \in Ssids
  /\ link # NoSsid => up

\* After a scan with iw the count is that of the names in the output, as
\* far as it was kept, up to the number of slots; with all slots in use it
\* may be one more.  The fallback to iwlist counts none, whatever it heard.
\* The label tells the count.  The dropdown offers what the last scan with a
\* name to list has found, in order and no more than there are slots: a scan
\* that counts none leaves the names of an earlier one in it, or the
\* configured one (wifi_mgr_scan, wifi_scan_cb).
ScanIsExact ==
  /\ tool = "iw" => \/ num = Len(Listed(heard))
                     \/ (num = MaxNetworks + 1 /\ Len(Listed(heard)) = MaxNetworks)
  /\ tool = "iwlist" => num = 0
  /\ found = num
  /\ offered = expected

\* A link that is gone for good is not claimed for ever: again and again the
\* state says so, whatever the user orders in between (wifi_mgr_update).
LostLinkIsNoticed ==
  <>[](initialized /\ link = NoSsid) => []<>(~wifi.connected)
=============================================================================
