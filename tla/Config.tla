------------------------------- MODULE Config -------------------------------
(***************************************************************************)
(* The configuration: the table of keys and values in memory               *)
(* (core/config.c), the file behind it, and everyone who changes either:   *)
(* start and end of the process, POST /config, and the settings screen     *)
(* with its Save and Connect buttons.                                      *)
(*                                                                         *)
(* A key is a text of any length, and of two things about it a table and a *)
(* file disagree: StoredAs is what the array of an entry keeps of it, its  *)
(* first CONFIG_KEY_MAX - 1 characters, while config_find compares all of  *)
(* it; ReadAs is the key that config_load finds on its line, in front of   *)
(* the first '=' and without blanks around it.  A value is a text,         *)
(* possibly padded with blanks, shorter than CONFIG_VAL_MAX.  No text has  *)
(* line breaks, and a line fits config_load's buffer, as all those that    *)
(* config_save writes do.  A line of the file is the entry it was written  *)
(* from; a missing file reads like an empty one.  Two fields stand for the *)
(* screen: the ping target, which passes through an address editor and is  *)
(* always written (as are the DNS server, the thresholds and the devices'  *)
(* addresses), and the network name of a dropdown, written only when it is *)
(* not empty.                                                              *)
(*                                                                         *)
(* Everything runs in one thread, so a handler is not interrupted by       *)
(* another one; it is cut into steps here because the process can be       *)
(* killed, or the disk be full, between any two of them.                   *)
(***************************************************************************)
EXTENDS Integers, Sequences, FiniteSets

CONSTANTS
  MaxEntries,    \* CONFIG_MAX_ENTRIES
  Addresses,     \* texts that the address editor can hold
  Names,         \* other texts
  DefaultPing,   \* APP_DEFAULT_PING_TARGET
  DefaultSsid,   \* APP_DEFAULT_WIFI_SSID
  OtherKeys,     \* keys that are not on the settings screen
  SkippedKeys,   \* those whose lines a load skips: they start with '#', or
                 \* nothing but blanks is in front of the '='
  SplitKeys,     \* those with a '=' in them, where their lines are split
  StoredAs,      \* the start of a key that fits the array of an entry
  ReadAs,        \* the key that a load finds on the line of a key
  Posted,        \* bodies that POST /config brings: entries, in their order
  FirstFiles     \* files that the first start may find

Zero  == "0.0.0.0"     \* what the editor makes of a text it cannot parse
Empty == ""
Cut   == "cut"         \* what is left of a value whose line was torn
Rest  == "rest"        \* the end of a split key, a '=', and its value

Ping     == "ping_target"
Ssid     == "wifi_ssid"
FormKeys == {Ping, Ssid}
Keys     == FormKeys \cup OtherKeys

Value == [text : Addresses \cup Names \cup {Zero, Empty, Cut, Rest}, pad : BOOLEAN]
Entry == [key : Keys, val : Value]
Plain(text) == [text |-> text, pad |-> FALSE]

ASSUME ConfigAssumption ==
  /\ MaxEntries \in Nat \ {0}
  /\ DefaultPing \in Addresses /\ DefaultSsid \in Names
  /\ Posted \subseteq Seq(Entry)
  /\ FirstFiles \subseteq Seq(Entry)

\* What cutting, trimming and splitting a key can do.  The program's own
\* keys are short and plain, and a key that was cut is longer than they are.
ASSUME KeyAssumption ==
  /\ SkippedKeys \subseteq OtherKeys /\ SplitKeys \subseteq OtherKeys
  /\ StoredAs \in [Keys -> Keys] /\ ReadAs \in [Keys -> Keys]
  /\ \A k \in Keys : StoredAs[StoredAs[k]] = StoredAs[k]
  /\ \A k \in Keys : k \in FormKeys \/ StoredAs[k] \in FormKeys => StoredAs[k] = k
  /\ \A k \in FormKeys : ReadAs[k] = k
  /\ \A k \in Keys \ SkippedKeys :
       /\ ReadAs[k] \notin SkippedKeys \cup SplitKeys
       /\ ReadAs[ReadAs[k]] = ReadAs[k]
       /\ StoredAs[k] = k => StoredAs[ReadAs[k]] = ReadAs[k]

VARIABLES
  pc,        \* where the process is: down, loading, idle, setting, saving
  table,     \* g_config.entries, the first g_config.count of them
  todo,      \* entries that the running handler has yet to take
  file,      \* the lines of APP_CONFIG_PATH
  built,     \* the settings screen has been created
  form,      \* what its fields hold
  (* History, for the properties only: *)
  acked,     \* per key, what the last save to open the file has to leave
             \* there: {}, or {value}
  whole,     \* that save has reached its end
  unsaved,   \* keys set in memory since that save
  drift      \* fields that need not agree with the table

ghosts == <<acked, whole, unsaved, drift>>
screen == <<built, form>>
vars   == <<pc, table, todo, file, screen, ghosts>>

-----------------------------------------------------------------------------
\* config_find: the first entry with the whole of a key, if there is one.
Has(t, k) == \E i \in 1 .. Len(t) : t[i].key = k
config_find(t, k) ==
  CHOOSE i \in 1 .. Len(t) : t[i].key = k /\ \A j \in 1 .. i - 1 : t[j].key # k

config_get_str(t, k, default) ==
  IF Has(t, k) THEN t[config_find(t, k)].val ELSE default

\* A new entry: its key is cut to what the array holds.
NewEntry(k, v) == [key |-> StoredAs[k], val |-> v]

\* Mutant: the entry is appended without looking for the key.
SetBlindly(t, k, v) ==
  IF Len(t) < MaxEntries THEN Append(t, NewEntry(k, v)) ELSE t

\* Mutant: the bound is checked one entry too late.
SetPastEnd(t, k, v) ==
  IF Has(t, k) THEN [t EXCEPT ![config_find(t, k)].val = v]
  ELSE IF Len(t) <= MaxEntries THEN Append(t, NewEntry(k, v)) ELSE t

\* config_set_str: a new key is dropped silently when the table is full.  A
\* key that is too long is never found, and appended again each time.
config_set_str(t, k, v) ==
  IF Has(t, k) THEN [t EXCEPT ![config_find(t, k)].val = v]
  ELSE IF Len(t) < MaxEntries THEN Append(t, NewEntry(k, v)) ELSE t

\* trim: blanks around a value do not survive the file.
trim(v) == Plain(v.text)

\* The value that config_load finds on a line.
ReadValue(line) == IF line.key \in SplitKeys THEN Plain(Rest) ELSE trim(line.val)

\* A load takes a line for one of key k.
Reads(line, k) == line.key \notin SkippedKeys /\ ReadAs[line.key] = k

\* What a save of t makes the file say of key k: the value of its entry, if
\* no other line reads as the same key.
Writes(t, k) ==
  {trim(t[i].val) : i \in {j \in 1 .. Len(t) :
     t[j].key = k /\ {n \in 1 .. Len(t) : Reads(t[n], k)} = {j}}}

\* What an interrupted config_save leaves: some of the lines, of which the
\* last may have lost the end of its value.  (A line cut before its '=' is
\* skipped by the next load, as if it were not there.)
Remains(t) ==
  {SubSeq(t, 1, n) : n \in 0 .. Len(t)} \cup
  {Append(SubSeq(t, 1, n - 1), [t[n] EXCEPT !.val = Plain(Cut)]) : n \in 1 .. Len(t)}

\* ui_create_ip_editor and ui_ip_editor_get_value: four numbers, or zeros.
InEditor(v) == IF v.text \in Addresses THEN Plain(v.text) ELSE Plain(Zero)

\* What ui_settings_create puts into the fields.
Fields(t) ==
  [k \in FormKeys |->
     IF k = Ping THEN InEditor(config_get_str(t, Ping, Plain(DefaultPing)))
                 ELSE config_get_str(t, Ssid, Plain(DefaultSsid))]

-----------------------------------------------------------------------------
\* The system starts with the process down and a file someone edited.
Init ==
  /\ pc = "down" /\ table = <<>> /\ todo = <<>> /\ file \in FirstFiles
  /\ built = FALSE /\ form = [k \in FormKeys |-> Plain(Empty)]
  /\ acked = [k \in Keys |-> {}] /\ whole = TRUE /\ unsaved = {} /\ drift = {}

\* main calls config_load, which empties the table and opens the file.
Start ==
  /\ pc = "down"
  /\ pc' = "loading" /\ table' = <<>> /\ todo' = file
  /\ UNCHANGED <<file, screen, ghosts>>

\* One turn of config_load's loop, which a full table ends: a comment and a
\* line without a name are skipped, any other line updates the key it reads
\* as or appends it.
LoadLine ==
  /\ pc = "loading" /\ todo # <<>>
  /\ \/ Head(todo).key \in SkippedKeys
     \/ Len(table) < MaxEntries
  /\ table' = IF Head(todo).key \in SkippedKeys THEN table
              ELSE config_set_str(table, ReadAs[Head(todo).key], ReadValue(Head(todo)))
  /\ todo' = Tail(todo)
  /\ UNCHANGED <<pc, file, screen, ghosts>>

\* The end of config_load, and of the start-up that follows it.
LoadEnd ==
  /\ pc = "loading"
  /\ \/ todo = <<>>
     \/ todo # <<>> /\ Head(todo).key \notin SkippedKeys /\ Len(table) >= MaxEntries
  /\ pc' = "idle" /\ todo' = <<>>
  /\ UNCHANGED <<table, file, screen, ghosts>>

\* handle_post_config: the string members of the body are set one by one,
\* then the table is saved.  Fields of the screen keep what they hold.
handle_post_config(entries) ==
  /\ pc = "idle"
  /\ pc' = "setting" /\ todo' = entries
  /\ drift' = drift \cup {k \in FormKeys : Has(entries, k)}
  /\ UNCHANGED <<table, file, screen, acked, whole, unsaved>>

\* The first visit of the settings screen creates its fields.
ui_settings_create ==
  /\ pc = "idle" /\ ~built
  /\ built' = TRUE /\ form' = Fields(table)
  /\ drift' = {k \in FormKeys : config_get_str(table, k, form'[k]) # form'[k]}
  /\ UNCHANGED <<pc, table, todo, file, acked, whole, unsaved>>

\* The user turns the rollers of the editor or picks a network that a scan
\* has found.
Edit(k, text) ==
  /\ pc = "idle" /\ built
  /\ text \in IF k = Ping THEN Addresses ELSE Names
  /\ form' = [form EXCEPT ![k] = Plain(text)]
  /\ drift' = drift \cup {k}
  /\ UNCHANGED <<pc, table, todo, file, built, acked, whole, unsaved>>

\* wifi_connect_cb after wifi_mgr_connect has succeeded: the name goes into
\* the table but not into the file.
wifi_connect_cb ==
  /\ pc = "idle" /\ built /\ form[Ssid].text # Empty
  /\ table' = config_set_str(table, Ssid, form[Ssid])
  /\ unsaved' = unsaved \cup {Ssid}
  /\ drift' = drift \ {Ssid}
  /\ UNCHANGED <<pc, todo, file, screen, acked, whole>>

\* save_btn_cb: the fields, in the order in which they are set.
save_btn_cb ==
  /\ pc = "idle" /\ built
  /\ pc' = "setting"
  /\ todo' = <<[key |-> Ping, val |-> form[Ping]]>> \o
             (IF form[Ssid].text = Empty THEN <<>>
              ELSE <<[key |-> Ssid, val |-> form[Ssid]]>>)
  /\ drift' = {k \in drift : ~Has(todo', k)}
  /\ UNCHANGED <<table, file, screen, acked, whole, unsaved>>

\* One config_set_str of the handler.
SetNext ==
  /\ pc = "setting" /\ todo # <<>>
  /\ table' = config_set_str(table, Head(todo).key, Head(todo).val)
  /\ unsaved' = unsaved \cup {StoredAs[Head(todo).key]}
  /\ todo' = Tail(todo)
  /\ UNCHANGED <<pc, file, screen, acked, whole, drift>>

\* Mutant: the file is opened for appending.
OpenAppending == file' = file

\* config_save opens the file for writing, which empties it ...
OpenTruncating == file' = <<>>

SaveOpen ==
  /\ pc = "setting" /\ todo = <<>>
  /\ OpenTruncating
  /\ pc' = "saving"
  /\ acked' = [k \in Keys |-> Writes(table, k)] /\ whole' = FALSE /\ unsaved' = {}
  /\ UNCHANGED <<table, todo, screen, drift>>

\* ... or cannot open it, and leaves it alone.
SaveFails ==
  /\ pc = "setting" /\ todo = <<>>
  /\ pc' = "idle"
  /\ UNCHANGED <<table, todo, file, screen, ghosts>>

\* All lines are written and the file is closed.
SaveClose ==
  /\ pc = "saving"
  /\ pc' = "idle" /\ file' = file \o table
  /\ whole' = TRUE
  /\ UNCHANGED <<table, todo, screen, acked, unsaved, drift>>

\* The disk is full: fprintf and fclose fail, nobody looks at their results.
SaveShort ==
  /\ pc = "saving"
  /\ pc' = "idle" /\ file' \in Remains(table)
  /\ UNCHANGED <<table, todo, screen, ghosts>>

\* The process ends, by a signal or a crash; the configuration is not saved
\* at the end, and a save that is under way leaves a part of the lines.
Stop ==
  /\ pc # "down"
  /\ pc' = "down" /\ table' = <<>> /\ todo' = <<>>
  /\ IF pc = "saving" THEN file' \in Remains(table) ELSE UNCHANGED file
  /\ built' = FALSE /\ form' = [k \in FormKeys |-> Plain(Empty)]
  /\ unsaved' = {} /\ drift' = {}
  /\ UNCHANGED <<acked, whole>>

Next ==
  \/ Start \/ LoadLine \/ LoadEnd
  \/ \E entries \in Posted : handle_post_config(entries)
  \/ ui_settings_create
  \/ \E k \in FormKeys, text \in Addresses \cup Names : Edit(k, text)
  \/ wifi_connect_cb \/ save_btn_cb \/ SetNext
  \/ SaveOpen \/ SaveFails \/ SaveClose \/ SaveShort \/ Stop

Spec == Init /\ [][Next]_vars

-----------------------------------------------------------------------------
(* Properties *)

\* What config_find cannot tell from the cut remains of a longer key.
Remnants == {StoredAs[k] : k \in {l \in Keys : StoredAs[l] # l}}

\* Types; the table fits its array, and whatever file it was loaded from,
\* whatever was posted, a key stands in it twice only when it is what the
\* array keeps of a longer one (config_load, config_set_str).
TableOK ==
  /\ table \in Seq(Entry) /\ Len(table) <= MaxEntries
  /\ \A i \in 1 .. Len(table) : StoredAs[table[i].key] = table[i].key
  /\ \A i, j \in 1 .. Len(table) :
       table[i].key = table[j].key => i = j \/ table[i].key \in Remnants

TypeOK ==
  /\ pc \in {"down", "loading", "idle", "setting", "saving"}
  /\ TableOK
  /\ todo \in Seq(Entry) /\ file \in Seq(Entry)
  /\ built \in BOOLEAN /\ form \in [FormKeys -> Value]
  /\ acked \in [Keys -> SUBSET Value] /\ whole \in BOOLEAN
  /\ unsaved \subseteq Keys /\ drift \subseteq FormKeys

\* What may be found of a value that the last save had to write: a save
\* that was cut may have torn its line.
Left(v) == IF whole THEN {v} ELSE {v, Plain(Cut)}

\* What the last save wrote for a key is what the process works with from
\* then on, across any number of restarts, until the key is set again.  Only
\* a save that a kill or a full disk has cut loses it, together with all
\* that the saves before had written: a key may then be gone, or hold a torn
\* value, but never an older value or that of another key.  Not kept are
\* blanks around a value, keys that do not read as themselves, and keys that
\* another line reads as (config_save, config_load).
AckedIsDurable ==
  pc = "idle" =>
    \A k \in Keys \ unsaved : \A v \in acked[k] :
      IF Has(table, k) THEN trim(table[config_find(table, k)].val) \in Left(v)
                       ELSE ~whole

\* The settings screen shows what is in the table, except for a field that
\* the user has edited since the last Save, that POST /config has changed
\* under it, whose value the editor cannot hold, or that a full table
\* dropped (ui_settings_create, save_btn_cb).
ScreenMatchesTable ==
  pc = "idle" /\ built =>
    \A k \in FormKeys \ drift : config_get_str(table, k, form[k]) = form[k]
=============================================================================
