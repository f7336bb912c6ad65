--------------------------- MODULE MCNetCollector ---------------------------
(***************************************************************************)
(* The devices of an instance, in the order in which the kernel lists them *)
(* at boot, and their traffic: wlan0 is busy, eth0 is silent.  A reading   *)
(* filed under the wrong row shows, since eth0 must then stay at zero.     *)
(***************************************************************************)
EXTENDS NetCollector

EthThenWlan == <<"eth0", "wlan0">>

WlanBusy == [n \in Name |-> IF n = "wlan0" THEN 2 ELSE 0]
=============================================================================
