-------------------------------- MODULE MCDB --------------------------------
(* Small instances of DB: two tables side by side that fill the EEPROM.     *)
EXTENDS DB

MCHeadPtrs == {0, 7}
=============================================================================
