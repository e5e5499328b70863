---------------------------- MODULE MCDsiDisplay ----------------------------
(***************************************************************************)
(* Small instances of DsiDisplay for TLC.                                  *)
(***************************************************************************)
EXTENDS DsiDisplay

\* The phone's panels (video mode, up after LP-11, PHY off when idle) and what
\* the driver supports besides: command mode, ULPS when idle or in suspend.
Ginkgo == [cmdMode |-> FALSE, lp11 |-> TRUE, ulps |-> FALSE, ulpsSuspend |-> FALSE,
           idleOff |-> TRUE]
CommandMode == [Ginkgo EXCEPT !.cmdMode = TRUE, !.lp11 = FALSE]
IdleUlps == [CommandMode EXCEPT !.ulps = TRUE]
SuspendUlps == [IdleUlps EXCEPT !.ulpsSuspend = TRUE, !.idleOff = FALSE]
AllPanels == {Ginkgo, CommandMode, IdleUlps, SuspendUlps}

AllJobs == {"esd", "backlight", "command", "recovery"}
None == {}

\* The failures the driver cleans up after.
Recoverable == {"reset", "phy", "clkSrc", "softReset", "command"}
=============================================================================
