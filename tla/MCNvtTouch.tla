----------------------------- MODULE MCNvtTouch -----------------------------
(***************************************************************************)
(* Small instances of NvtTouch for TLC.                                    *)
(***************************************************************************)
EXTENDS NvtTouch

None == {}
\* Everything but the recovery callback, which another driver calls.
NoRecovery == {"boot", "mp", "pm"}
All == {"fp", "boot", "mp", "pm"}
Recovery == {"fp"}

AllFailures == {"spi", "fw", "wdt", "test"}
=============================================================================
