--------------------------------- MODULE Ui ---------------------------------
(***************************************************************************)
(* The screens of the panel: the manager that shows one of them at a time  *)
(* (ui/ui_manager.c), and what the screens keep between two refreshes: the *)
(* cards of the dashboard, the interface of the detail screen, the         *)
(* selector of the traffic screen, the list of the alert screen and the    *)
(* badge in the status bar.                                                *)
(*                                                                         *)
(* A screen is built at its first visit and refreshed by a timer of its    *)
(* own, which does nothing while another screen is shown.  The collector   *)
(* appends interfaces to its table and never removes one; a row has no     *)
(* long history before the first minute ends with it in the table.  The    *)
(* alert log is a ring, of which the screens see how many entries were     *)
(* ever pushed and how many are active.  Values that a refresh only        *)
(* formats are left out: a card, the detail screen, the totals and the     *)
(* lines of the traffic screen stand for the interface whose they are.     *)
(***************************************************************************)
EXTENDS Integers, Sequences

CONSTANTS
  Arrivals,     \* names of interfaces, in the order in which they appear
  AtBoot,       \* how many are there when net_collector_init looks
  Hidden,       \* those that net_iface_is_hidden names
  MaxAlerts,    \* APP_MAX_ALERTS
  MaxPushed,    \* alerts ever pushed (bound)
  MenuScreens   \* the screens of menu_entries that the user visits (bound)

Status      == "status"
Dashboard   == "dashboard"
Traffic     == "traffic"
Alerts      == "alerts"
Detail      == "detail"
Connections == "connections"
Settings    == "settings"
Screens     == {Status, Dashboard, Traffic, Alerts, Detail, Connections, Settings}
Nothing     == ""     \* an empty label

Names == {Arrivals[i] : i \in 1 .. Len(Arrivals)}

ASSUME UiAssumption ==
  /\ Arrivals \in Seq(STRING)
  /\ \A i, j \in 1 .. Len(Arrivals) : Arrivals[i] = Arrivals[j] => i = j
  /\ AtBoot \in 0 .. Len(Arrivals)
  /\ Hidden \subseteq Names /\ Nothing \notin Names
  /\ MaxAlerts \in Nat \ {0} /\ MaxPushed \in Nat
  /\ MenuScreens \subseteq Screens \ {Detail}

VARIABLES
  (* The manager: *)
  current, previous,   \* current_screen, previous_screen
  created,             \* screens with a screen_objs entry
  menu_open,
  badge,               \* the number in the alert badge, 0 when it is hidden
  (* The screens: *)
  cards,               \* g_cards: iface_idx of each card, counted from 1
  labels,              \* the name on each card
  g_iface_idx,         \* the interface of the detail screen, counted from 1
  header,              \* the name in its header
  options,             \* the names in the selector of the traffic screen
  g_selected_iface,    \* the entry selected there, counted from 1
  totals,              \* the interface whose totals of the day it shows
  charted,             \* the interface whose 24 hours its lines show
  g_last_count,        \* length of the alert list
  listed,              \* alerts pushed when the list was built
  (* What the screens show: *)
  table,               \* names of g_state.ifaces
  flushed,             \* its first rows, those with a long history
  pushed,              \* alerts ever pushed
  active,              \* g_active_count
  (* History: *)
  tapped,              \* the interface of the last tap on a card, 0 before
                       \* it and when the tap built the detail screen
  due                  \* the charted row got its first history since the last update

manager == <<current, previous, created, menu_open>>
board   == <<cards, labels>>
detail  == <<g_iface_idx, header>>
chart   == <<options, g_selected_iface, totals, charted, due>>
list    == <<g_last_count, listed>>
data    == <<table, flushed, pushed, active>>
vars    == <<manager, badge, board, detail, chart, list, data, tapped>>

Smaller(a, b) == IF a < b THEN a ELSE b
Count == Smaller(pushed, MaxAlerts)     \* g_alert_count

-----------------------------------------------------------------------------
(* The updates, each the body of a ui_..._update function.                 *)

\* Mutant: no alerts leave the badge as it is.
KeepLastBadge == badge' = IF active = 0 THEN badge ELSE active

\* ui_manager_set_alert_count, from the status and the dashboard screen.
SetBadge == badge' = active

\* Places of the interfaces that are not hidden, in the order of the table:
\* of the first k rows for every k, and of all.
Visible(rows) ==
  LET visible[k \in 0 .. Len(rows)] ==
        IF k = 0 THEN << >>
        ELSE IF rows[k] \in Hidden THEN visible[k - 1] ELSE Append(visible[k - 1], k)
  IN  visible

Shown == Visible(table)[Len(table)]

\* Mutant: the search for the next interface forgets to skip hidden ones.
CardsInPlace == [i \in 1 .. Len(Shown) |-> i]

\* The loop of ui_dashboard_update (and of ui_dashboard_create) that adds
\* the cards that are missing.
CardsComplete == cards \o SubSeq(Shown, Len(cards) + 1, Len(Shown))

\* ui_dashboard_update: a card is labelled with the interface at its own
\* place among the cards, not at its iface_idx.
ui_dashboard_update ==
  /\ cards' = CardsComplete
  /\ labels' = [i \in 1 .. Len(cards') |-> table[i]]
  /\ SetBadge

\* ui_interface_update returns early while the interface does not exist.
ui_interface_update(idx) == header' = IF idx <= Len(table) THEN table[idx] ELSE header

\* Mutant: the selector is rebuilt in the order of the cards.
OptionsVisible == SelectSeq(table, LAMBDA n : n \notin Hidden)

\* The names that rebuild_dropdown puts into the selector.
Options == table

\* ui_traffic_update: the selector is rebuilt when the selected text is not
\* the name at the selected place; the selection stays where it is.  The
\* lines stay those of the interface before when this one has no history.
ui_traffic_update(opts, sel) ==
  LET text == IF sel <= Len(opts) THEN opts[sel] ELSE Nothing
      last == IF sel <= Len(table) THEN sel ELSE 1
  IN  /\ options' = IF sel <= Len(table) /\ text # table[sel] THEN Options ELSE opts
      /\ g_selected_iface' = last
      /\ totals' = IF table = <<>> THEN totals ELSE table[last]
      /\ charted' = IF last <= flushed THEN table[last] ELSE charted
      /\ due' = FALSE

\* Mutant: the list is kept when it has a length at all.
RebuildOnce(last) == last <= 0

\* Whether ui_alerts_update builds the list anew.
Rebuild(last) == Count # last

\* ui_alerts_update.
ui_alerts_update(last) ==
  IF Rebuild(last) THEN g_last_count' = Count /\ listed' = pushed
                   ELSE g_last_count' = last /\ UNCHANGED listed

-----------------------------------------------------------------------------
(* The manager.                                                            *)

\* Mutant: the interface of the detail screen is not set while it is hidden.
KeepIface(i) == g_iface_idx

\* ui_interface_set_iface.
set_iface(i) == i

(* The builders.  Each ends with the update of its screen.                 *)

ui_dashboard_create == ui_dashboard_update
ui_traffic_create   == ui_traffic_update(Options, 1)
ui_alerts_create    == ui_alerts_update(-1)

\* The builder of the detail screen sets its interface back to the first.
ui_interface_create == g_iface_idx' = 1 /\ ui_interface_update(1)

\* ensure_screen_obj: a screen is built at its first visit; idx is what
\* ui_interface_set_iface has put into g_iface_idx before.
Build(s, idx) ==
  LET first(t) == s = t /\ s \notin created
  IN  /\ created' = created \cup {s}
      /\ IF first(Dashboard) THEN ui_dashboard_create ELSE UNCHANGED <<board, badge>>
      /\ IF first(Detail) THEN ui_interface_create ELSE g_iface_idx' = idx /\ UNCHANGED header
      /\ IF first(Traffic) THEN ui_traffic_create ELSE UNCHANGED chart
      /\ IF first(Alerts) THEN ui_alerts_create ELSE UNCHANGED list

\* ui_manager_show, for a detail screen with interface idx: all screens are
\* hidden but s.
ui_manager_show(s, idx) ==
  /\ previous' = current /\ current' = s
  /\ Build(s, idx)

-----------------------------------------------------------------------------
\* ui_manager_init shows the status screen; the collector has started.
Init ==
  /\ current = Status /\ previous = Status
  /\ created = {Status} /\ menu_open = FALSE
  /\ badge = 0
  /\ cards = <<>> /\ labels = <<>> /\ g_iface_idx = 1 /\ header = Nothing
  /\ options = <<>> /\ g_selected_iface = 1
  /\ totals = Nothing /\ charted = Nothing /\ due = FALSE
  /\ g_last_count = 0 /\ listed = 0
  /\ table = SubSeq(Arrivals, 1, AtBoot) /\ flushed = 0 /\ pushed = 0 /\ active = 0
  /\ tapped = 0

(* The user.  The open menu covers everything else.                        *)

hamburger_btn_cb ==
  /\ ~menu_open /\ menu_open' = TRUE
  /\ UNCHANGED <<current, previous, created, badge, board, detail, chart, list, data, tapped>>

backdrop_cb ==
  /\ menu_open /\ menu_open' = FALSE
  /\ UNCHANGED <<current, previous, created, badge, board, detail, chart, list, data, tapped>>

menu_item_cb(s) ==
  /\ menu_open /\ menu_open' = FALSE
  /\ ui_manager_show(s, g_iface_idx)
  /\ UNCHANGED <<data, tapped>>

\* The button on the settings screen.
connections_btn_cb ==
  /\ ~menu_open /\ current = Settings
  /\ ui_manager_show(Connections, g_iface_idx)
  /\ UNCHANGED <<menu_open, data, tapped>>

\* The back arrow of two screens.
back_btn_cb ==
  /\ ~menu_open /\ current \in {Detail, Connections}
  /\ ui_manager_show(previous, g_iface_idx)
  /\ UNCHANGED <<menu_open, data, tapped>>

\* A tap on a card.
card_click_cb(c) ==
  /\ ~menu_open /\ current = Dashboard
  /\ ui_manager_show(Detail, set_iface(cards[c]))
  /\ tapped' = IF Detail \in created THEN cards[c] ELSE 0
  /\ UNCHANGED <<menu_open, data>>

\* Another entry of the traffic screen's selector.
dropdown_cb(sel) ==
  /\ ~menu_open /\ current = Traffic
  /\ ui_traffic_update(options, sel)
  /\ UNCHANGED <<manager, badge, board, detail, list, data, tapped>>

\* The Clear All button: alerts_clear_all, then the list.
clear_all_cb ==
  /\ ~menu_open /\ current = Alerts
  /\ active' = 0
  /\ ui_alerts_update(g_last_count)
  /\ UNCHANGED <<manager, badge, board, detail, chart, table, flushed, pushed, tapped>>

(* The timers of the screens.                                              *)

status_timer ==
  /\ current = Status
  /\ SetBadge
  /\ UNCHANGED <<manager, board, detail, chart, list, data, tapped>>

dashboard_timer ==
  /\ current = Dashboard
  /\ ui_dashboard_update
  /\ UNCHANGED <<manager, detail, chart, list, data, tapped>>

detail_timer ==
  /\ current = Detail
  /\ ui_interface_update(g_iface_idx)
  /\ UNCHANGED <<manager, badge, board, g_iface_idx, chart, list, data, tapped>>

traffic_timer ==
  /\ current = Traffic
  /\ ui_traffic_update(options, g_selected_iface)
  /\ UNCHANGED <<manager, badge, board, detail, list, data, tapped>>

alerts_timer ==
  /\ current = Alerts
  /\ ui_alerts_update(g_last_count)
  /\ UNCHANGED <<manager, badge, board, detail, chart, data, tapped>>

(* The collector.                                                          *)

\* The slow tick finds a new interface.
NewIface ==
  /\ Len(table) < Len(Arrivals)
  /\ table' = Append(table, Arrivals[Len(table) + 1])
  /\ UNCHANGED <<manager, badge, board, detail, chart, list, flushed, pushed, active, tapped>>

\* The fast tick ends a minute and gives every row a sample, some their
\* first.
MinuteFlush ==
  /\ flushed < Len(table)
  /\ flushed' = Len(table)
  /\ due' = (due \/ (totals # Nothing /\ g_selected_iface > flushed))
  /\ UNCHANGED <<manager, badge, board, detail, options, g_selected_iface, totals, charted, list,
                 table, pushed, active, tapped>>

\* alerts_check pushes an alert, over the oldest when the log is full.
PushAlert ==
  /\ pushed < MaxPushed
  /\ pushed' = pushed + 1 /\ active' = Smaller(active + 1, MaxAlerts)
  /\ UNCHANGED <<manager, badge, board, detail, chart, list, table, flushed, tapped>>

Timers == status_timer \/ dashboard_timer \/ detail_timer \/ traffic_timer \/ alerts_timer

Next ==
  \/ hamburger_btn_cb \/ backdrop_cb
  \/ \E s \in MenuScreens : menu_item_cb(s)
  \/ connections_btn_cb \/ back_btn_cb
  \/ \E c \in 1 .. Len(cards) : card_click_cb(c)
  \/ \E sel \in 1 .. Len(options) : dropdown_cb(sel)
  \/ clear_all_cb
  \/ status_timer \/ dashboard_timer \/ detail_timer \/ traffic_timer \/ alerts_timer
  \/ NewIface
  \/ MinuteFlush
  \/ PushAlert

\* The timers of the screens come round; the user may do nothing for ever.
Spec == Init /\ [][Next]_vars /\ WF_vars(Timers)

-----------------------------------------------------------------------------
(* Properties *)

\* However the table grows between two visits, each interface that is not
\* hidden has at most one card and cards come in the order of the table; a
\* card bears the name of the interface that a tap on it opens, unless a
\* hidden interface stands before that one (ui_dashboard_create,
\* ui_dashboard_update, card_click_cb).
CardsAgree ==
  /\ cards = SubSeq(Shown, 1, Len(cards))
  /\ \A c \in 1 .. Len(cards) :
       (\A i \in 1 .. cards[c] : table[i] \notin Hidden) => labels[c] = table[cards[c]]

\* The totals on the traffic screen are those of the interface whose name
\* the selector shows, although the selector is not rebuilt when the table
\* grows.  The lines are too, except that an interface without a history
\* gets those of the one before under its name, until the first refresh
\* after the end of its first minute (rebuild_dropdown, ui_traffic_update).
SelectionIsCharted ==
  /\ totals # Nothing =>
       g_selected_iface <= Len(options) /\ options[g_selected_iface] = totals
  /\ charted \notin {Nothing, totals} => g_selected_iface > flushed \/ due

\* A user who stays on the alert screen gets to see every alert until the
\* log is full; after that the length no longer changes and the list is not
\* rebuilt (ui_alerts_update).
AlertsAreListed == []<>(current = Alerts => listed >= Count)

\* On the status and the dashboard screen the badge catches up with the
\* number of active alerts (ui_status_update, ui_dashboard_update).
BadgeCatchesUp == []<>(current \in {Status, Dashboard} => badge = active)

\* A tap on a card, other than the one that builds the detail screen, leads
\* to the details of the interface of that card (ui_interface_set_iface,
\* ui_interface_update).
LaterTapIsShown == []<>(current = Detail /\ tapped # 0 => header = table[tapped])
=============================================================================
