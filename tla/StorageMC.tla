------------------------------ MODULE StorageMC ------------------------------
(* Model checking of the settings; the constants are in the .cfg files.     *)
EXTENDS EspStorage
=============================================================================
