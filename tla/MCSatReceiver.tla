--------------------------- MODULE MCSatReceiver ----------------------------
(***************************************************************************)
(* Frames for model checking.  The timestamp 0x69014E4D is in use since    *)
(* October 2025 and looks like the start of a frame of version 1.          *)
(***************************************************************************)
EXTENDS SatReceiver, SatCrc16

HEARTBEAT == 2

\* A heartbeat, and two snapshots cut down to their timestamp and uptime: 7 s
\* makes a false header that fits the buffer, 10 s one that just does not.
Types    == [s \in SeqNum |-> IF s = 0 THEN HEARTBEAT ELSE SNAPSHOT]
Payloads ==
  [s \in SeqNum |-> CASE s = 0 -> <<76, 78, 1, 105>>
                      [] s = 1 -> <<77, 78, 1, 105, 7, 0, 0, 0>>
                      [] OTHER -> <<77, 78, 1, 105, 10, 0, 0, 0>>]
=============================================================================
