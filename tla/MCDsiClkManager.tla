--------------------------- MODULE MCDsiClkManager ---------------------------
(***************************************************************************)
(* Small instances of DsiClkManager for TLC.                               *)
(***************************************************************************)
EXTENDS DsiClkManager, TLC

\* The driver in this repository asks for ON and OFF; the interface also
\* takes EARLY_GATE.
OnOff == {"ON", "OFF"}

NoFaults == {}
AllFaults == FaultPoint
\* Failures on the way to running core clocks, and after they stopped.
CoreFaults == {"pre_clkon_cb", "core_start", "post_clkoff_cb"}

\* The two clients the driver registers are interchangeable.
Symmetry == Permutations(Client)
=============================================================================
