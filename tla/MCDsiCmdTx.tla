----------------------------- MODULE MCDsiCmdTx -----------------------------
(***************************************************************************)
(* A small instance of DsiCmdTx for TLC.                                   *)
(***************************************************************************)
EXTENDS DsiCmdTx

\* One that waits in the buffer of 16 bytes, and one too long for the FIFO.
SomeLens == {1, 12}
=============================================================================
