-------------------------------- MODULE MCUi --------------------------------
(* Three interfaces, of which the second to appear is hidden.               *)
EXTENDS Ui

MCArrivals == <<"eth0", "usb0", "wlan0">>
=============================================================================
