------------------------------- MODULE WifiMC -------------------------------
(* Model checking of the WiFi connection; the constants are in the .cfg.    *)
EXTENDS EspWifi
=============================================================================
