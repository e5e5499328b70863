------------------------------ MODULE NvtTouch ------------------------------
(***************************************************************************)
(* The running NT36xxx touchscreen driver (drivers/nt36xxx_spi_c3j), after *)
(* probe: suspend and resume as the display driver's notifier, the resume  *)
(* worker and the recovery callback call them, the interrupt thread, the   *)
(* boot firmware update, the manufacturing test, and system sleep.         *)
(*                                                                         *)
(* Only some of this runs under ts->lock.  bTouchIsAwake, is_gesture_mode, *)
(* irq_enabled and dev_pm_suspend are also read and written outside it;    *)
(* each such access is a step of its own.  delay_gesture, the hold on the  *)
(* regulators and the interrupt's wakeup mark are left out: nothing else   *)
(* in the running driver depends on them (enable_irq_wake at a suspend in  *)
(* gesture mode has no counterpart in the driver, so the mark only grows). *)
(***************************************************************************)
EXTENDS Integers

CONSTANTS
    Actors,       \* which optional actors take part
    Failures,     \* what goes wrong on the bus and in the chip
    AnySwitch,    \* gesture mode is switched at any time, not only when settled
    RecoveryMax   \* recovery_cnt_max (10 in the code)

Thread == {"irq", "work", "drm", "fp", "mp"}

ASSUME ActorsAssumption == Actors \subseteq {"fp", "boot", "mp", "pm"}
ASSUME FailuresAssumption == Failures \subseteq {"spi", "fw", "wdt", "test"}
ASSUME SwitchAssumption == AnySwitch \in BOOLEAN
ASSUME RecoveryAssumption == RecoveryMax \in Nat

VARIABLES
    pc,       \* where each thread stands; "idle" outside the driver
    lock,     \* who holds ts->lock
    awake,    \* bTouchIsAwake
    gesture,  \* ts->is_gesture_mode
    irqOn,    \* ts->irq_enabled
    depth,    \* the kernel's disable depth of the interrupt
    chip,     \* what the chip runs: no firmware, touch, gestures, deep sleep, test
    down,     \* fingers reported to user space as down
    bad,      \* recovery_cnt
    pending,  \* ts->resume_work is queued
    boot,     \* ts->nvt_fwu_work is queued
    display,  \* the display, as its driver announces it
    pmFlag,   \* ts->dev_pm_suspend
    pmDone,   \* ts->dev_pm_suspend_completion
    phase     \* of a system sleep; the SPI bus is dead while it is "down"

vars == <<pc, lock, awake, gesture, irqOn, depth, chip, down, bad, pending,
          boot, display, pmFlag, pmDone, phase>>
irqVars == <<irqOn, depth>>
chipVars == <<chip, bad>>
pmVars == <<pmFlag, pmDone, phase>>
envVars == <<gesture, boot, display>>

SuspendPc == {"susCheck", "susIrq", "susSync", "susLock", "susSleep", "susMode",
              "susRelease"}
ResumePc == {"resCheck", "resLock", "resLoad", "resAwake"}
Pc == {"idle", "cancel", "wait", "irqLock", "irqRead", "mpLock", "mpTest"}
        \cup SuspendPc \cup ResumePc

\* The places at which a thread holds ts->lock.
Critical == {"susSleep", "susMode", "resLoad", "resAwake", "irqRead", "mpTest"}

TypeOK ==
    /\ pc \in [Thread -> Pc]
    /\ lock \in Thread \cup {"none"}
    /\ awake \in BOOLEAN /\ gesture \in BOOLEAN /\ irqOn \in BOOLEAN
    /\ depth \in Nat
    /\ chip \in {"none", "touch", "gesture", "sleep", "test"}
    /\ down \in BOOLEAN
    /\ bad \in 0..RecoveryMax
    /\ pending \in BOOLEAN /\ boot \in BOOLEAN
    /\ display \in {"on", "off"}
    /\ pmFlag \in BOOLEAN /\ pmDone \in {0, 1}
    /\ phase \in {"run", "flagged", "down", "up"}

\* The end of nvt_ts_probe, and with no boot update to come the time after it.
Init ==
    /\ pc = [t \in Thread |-> "idle"]
    /\ lock = "none"
    /\ awake = TRUE /\ gesture = FALSE
    /\ irqOn = TRUE /\ depth = 0
    /\ boot = ("boot" \in Actors)
    /\ chip = IF boot THEN "none" ELSE "touch"
    /\ down = FALSE
    /\ bad = 0
    /\ pending = FALSE
    /\ display = "on"
    /\ pmFlag = FALSE /\ pmDone = 0 /\ phase = "run"

Goto(t, p) == pc' = [pc EXCEPT ![t] = p]
At(t, p) == pc[t] = p

Lock(t) == lock = "none" /\ lock' = t
Unlock(t) == lock = t /\ lock' = "none"

Settled == (\A t \in Thread : At(t, "idle")) /\ ~pending /\ phase = "run"

-----------------------------------------------------------------------------
(* The chip.                                                               *)

BusDead == phase = "down"

\* nvt_update_firmware: a download that fails leaves the chip alone (no file)
\* or without firmware.
Download(image) ==
    \/ ~BusDead /\ chip' = image
    \/ (BusDead \/ "fw" \in Failures) /\ chip' \in {chip, "none"}

\* CTP_SPI_WRITE of a host command, whose result is not looked at.
HostCmd(mode) ==
    \/ ~BusDead /\ chip' = mode
    \/ (BusDead \/ "spi" \in Failures) /\ UNCHANGED chip

-----------------------------------------------------------------------------
(* nvt_ts_suspend and nvt_ts_resume, in any thread that calls them.        *)

\* Where a thread goes when the call it made returns: nvt_ts_recovery_callback
\* suspends after it has resumed.
AfterResume(t) == IF t = "fp" THEN "susCheck" ELSE "idle"

SuspendCheck(t) ==
    /\ At(t, "susCheck")
    /\ Goto(t, IF awake THEN "susIrq" ELSE "idle")
    /\ display' = IF t = "drm" /\ ~awake THEN "off" ELSE display
    /\ UNCHANGED <<lock, awake, gesture, irqVars, chipVars, down, pending, boot, pmVars>>

\* Mutated: the interrupt is switched off in gesture mode too.
SuspendIrq_Always(t) ==
    /\ At(t, "susIrq")
    /\ IF irqOn THEN depth' = depth + 1 /\ Goto(t, "susSync")
                ELSE UNCHANGED depth /\ Goto(t, "susLock")
    /\ UNCHANGED <<lock, awake, irqOn, chipVars, down, pending, envVars, pmVars>>

\* nvt_irq_enable(false) unless in gesture mode: disable_irq raises the depth
\* and waits for the interrupt thread.
SuspendIrq(t) ==
    /\ At(t, "susIrq")
    /\ IF ~gesture /\ irqOn THEN depth' = depth + 1 /\ Goto(t, "susSync")
                            ELSE UNCHANGED depth /\ Goto(t, "susLock")
    /\ UNCHANGED <<lock, awake, irqOn, chipVars, down, pending, envVars, pmVars>>

\* Mutated: the flag is not kept.
SuspendSync_NoFlag(t) ==
    /\ At(t, "susSync")
    /\ At("irq", "idle")
    /\ Goto(t, "susLock")
    /\ UNCHANGED <<lock, awake, irqVars, chipVars, down, pending, envVars, pmVars>>

SuspendSync(t) ==
    /\ At(t, "susSync")
    /\ At("irq", "idle")
    /\ irqOn' = FALSE
    /\ Goto(t, "susLock")
    /\ UNCHANGED <<lock, awake, depth, chipVars, down, pending, envVars, pmVars>>

SuspendLock(t) ==
    /\ At(t, "susLock")
    /\ Lock(t)
    /\ Goto(t, "susSleep")
    /\ UNCHANGED <<awake, irqVars, chipVars, down, pending, envVars, pmVars>>

SuspendSleep(t) ==
    /\ At(t, "susSleep")
    /\ awake' = FALSE
    /\ Goto(t, "susMode")
    /\ UNCHANGED <<lock, irqVars, chipVars, down, pending, envVars, pmVars>>

\* The chip goes to wakeup gesture mode (0x13) or to deep sleep (0x11).
SuspendMode(t) ==
    /\ At(t, "susMode")
    /\ HostCmd(IF gesture THEN "gesture" ELSE "sleep")
    /\ Unlock(t)
    /\ Goto(t, "susRelease")
    /\ UNCHANGED <<awake, irqVars, bad, down, pending, envVars, pmVars>>

\* "release all touches", outside the lock.  With this the notifier is done
\* and the display goes dark.
SuspendRelease(t) ==
    /\ At(t, "susRelease")
    /\ down' = FALSE
    /\ Goto(t, "idle")
    /\ display' = IF t = "drm" THEN "off" ELSE display
    /\ UNCHANGED <<lock, awake, gesture, irqVars, chipVars, pending, boot, pmVars>>

ResumeCheck(t) ==
    /\ At(t, "resCheck")
    /\ Goto(t, IF awake THEN AfterResume(t) ELSE "resLock")
    /\ UNCHANGED <<lock, awake, irqVars, chipVars, down, pending, envVars, pmVars>>

\* Mutated: a resume that finds the lock taken gives up.
ResumeLock_Try(t) ==
    /\ At(t, "resLock")
    /\ IF lock = "none" THEN lock' = t /\ Goto(t, "resLoad")
                        ELSE UNCHANGED lock /\ Goto(t, AfterResume(t))
    /\ UNCHANGED <<awake, irqVars, chipVars, down, pending, envVars, pmVars>>

ResumeLock(t) ==
    /\ At(t, "resLock")
    /\ Lock(t)
    /\ Goto(t, "resLoad")
    /\ UNCHANGED <<awake, irqVars, chipVars, down, pending, envVars, pmVars>>

\* The firmware is loaded again, whatever comes of it, and nvt_irq_enable(true)
\* unless in gesture mode.
ResumeLoad(t) ==
    /\ At(t, "resLoad")
    /\ Download("touch")
    /\ IF ~gesture /\ ~irqOn THEN irqOn' = TRUE /\ depth' = depth - 1
                             ELSE UNCHANGED irqVars
    /\ Goto(t, "resAwake")
    /\ UNCHANGED <<lock, awake, bad, down, pending, envVars, pmVars>>

ResumeAwake(t) ==
    /\ At(t, "resAwake")
    /\ awake' = TRUE
    /\ Unlock(t)
    /\ Goto(t, AfterResume(t))
    /\ UNCHANGED <<irqVars, chipVars, down, pending, envVars, pmVars>>

Suspend(t) ==
    \/ SuspendCheck(t) \/ SuspendIrq(t) \/ SuspendSync(t) \/ SuspendLock(t)
    \/ SuspendSleep(t) \/ SuspendMode(t) \/ SuspendRelease(t)
Resume(t) == ResumeCheck(t) \/ ResumeLock(t) \/ ResumeLoad(t) \/ ResumeAwake(t)

-----------------------------------------------------------------------------
(* nvt_drm_notifier_callback, in the thread that switches the display, and *)
(* nvt_ts_resume_work.  User space is frozen during a system sleep.        *)

\* MSM_DRM_EARLY_EVENT_BLANK with MSM_DRM_BLANK_POWERDOWN.
Blank ==
    /\ At("drm", "idle") /\ phase = "run"
    /\ Goto("drm", "cancel")
    /\ UNCHANGED <<lock, awake, irqVars, chipVars, down, pending, envVars, pmVars>>

\* Mutated: a resume that is queued or running goes on.
CancelWork_Not ==
    /\ At("drm", "cancel")
    /\ Goto("drm", "susCheck")
    /\ UNCHANGED <<lock, awake, irqVars, chipVars, down, pending, envVars, pmVars>>

\* cancel_work_sync: the work is taken off the queue and a running one waited for.
CancelWork ==
    /\ At("drm", "cancel")
    /\ At("work", "idle")
    /\ pending' = FALSE
    /\ Goto("drm", "susCheck")
    /\ UNCHANGED <<lock, awake, irqVars, chipVars, down, envVars, pmVars>>

\* MSM_DRM_EVENT_BLANK with MSM_DRM_BLANK_UNBLANK.
Unblank ==
    /\ At("drm", "idle") /\ phase = "run"
    /\ display' = "on"
    /\ pending' = TRUE
    /\ UNCHANGED <<pc, lock, awake, gesture, irqVars, chipVars, down, boot, pmVars>>

ResumeWork ==
    /\ pending /\ At("work", "idle")
    /\ pending' = FALSE
    /\ Goto("work", "resCheck")
    /\ UNCHANGED <<lock, awake, irqVars, chipVars, down, envVars, pmVars>>

\* nvt_ts_recovery_callback, which another driver calls.
Recover ==
    /\ "fp" \in Actors
    /\ At("fp", "idle") /\ phase = "run"
    /\ ~awake /\ gesture
    /\ Goto("fp", "resCheck")
    /\ UNCHANGED <<lock, awake, irqVars, chipVars, down, pending, envVars, pmVars>>

\* nvt_gesture_switch, double_tap_store: no lock is taken.
GestureSwitch ==
    /\ phase = "run"
    /\ AnySwitch \/ (awake /\ Settled)
    /\ gesture' = ~gesture
    /\ UNCHANGED <<pc, lock, awake, irqVars, chipVars, down, pending, boot, display, pmVars>>

-----------------------------------------------------------------------------
(* The interrupt thread, nvt_ts_work_func.                                 *)

\* An interrupt; a system sleep has the thread wait for the bus first.
Irq ==
    /\ At("irq", "idle") /\ depth = 0
    /\ Goto("irq", IF pmFlag /\ gesture THEN "wait" ELSE "irqLock")
    /\ UNCHANGED <<lock, awake, irqVars, chipVars, down, pending, envVars, pmVars>>

\* Mutated: the thread waits as long as it takes.
IrqWait_Forever ==
    /\ At("irq", "wait")
    /\ pmDone > 0 /\ pmDone' = pmDone - 1 /\ Goto("irq", "irqLock")
    /\ UNCHANGED <<lock, awake, irqVars, chipVars, down, pending, envVars, pmFlag, phase>>

\* wait_for_completion_timeout: the event is skipped after 700 ms.
IrqWait ==
    /\ At("irq", "wait")
    /\ \/ pmDone > 0 /\ pmDone' = pmDone - 1 /\ Goto("irq", "irqLock")
       \/ pmDone = 0 /\ UNCHANGED pmDone /\ Goto("irq", "idle")
    /\ UNCHANGED <<lock, awake, irqVars, chipVars, down, pending, envVars, pmFlag, phase>>

IrqLock ==
    /\ At("irq", "irqLock")
    /\ Lock("irq")
    /\ Goto("irq", "irqRead")
    /\ UNCHANGED <<awake, irqVars, chipVars, down, pending, envVars, pmVars>>

\* Mutated: a touch that is asleep reports fingers too.
IrqRead_Fingers ==
    /\ At("irq", "irqRead")
    /\ ~BusDead /\ bad' = 0 /\ down' \in BOOLEAN /\ UNCHANGED chip
    /\ Unlock("irq")
    /\ Goto("irq", "idle")
    /\ UNCHANGED <<awake, irqVars, pending, envVars, pmVars>>

\* The points are read.  nvt_wdt_fw_recovery counts reads that look like a
\* firmware reset and has the firmware loaded after too many of them, awake or
\* not; else a touch that is asleep reports a gesture, one that is awake which
\* fingers are down.
IrqRead ==
    /\ At("irq", "irqRead")
    /\ \/ /\ BusDead \/ "spi" \in Failures
          /\ UNCHANGED <<chipVars, down>>
       \/ /\ ~BusDead /\ "wdt" \in Failures /\ bad = RecoveryMax
          /\ bad' = 0
          /\ Download("touch")
          /\ UNCHANGED down
       \/ /\ ~BusDead
          /\ \/ bad' = 0
             \/ "wdt" \in Failures /\ bad < RecoveryMax /\ bad' = bad + 1
          /\ IF awake THEN down' \in BOOLEAN ELSE UNCHANGED down
          /\ UNCHANGED chip
    /\ Unlock("irq")
    /\ Goto("irq", "idle")
    /\ UNCHANGED <<awake, irqVars, pending, envVars, pmVars>>

-----------------------------------------------------------------------------
(* Firmware: Boot_Update_Firmware, five seconds after probe, and           *)
(* nvt_selftest_open, each under ts->lock.                                 *)

BootUpdate ==
    /\ boot /\ lock = "none"
    /\ boot' = FALSE
    /\ Download("touch")
    /\ UNCHANGED <<pc, lock, awake, gesture, irqVars, bad, down, pending, display, pmVars>>

SelfTest ==
    /\ "mp" \in Actors
    /\ At("mp", "idle") /\ phase = "run"
    /\ Goto("mp", "mpLock")
    /\ UNCHANGED <<lock, awake, irqVars, chipVars, down, pending, envVars, pmVars>>

\* mutex_lock_interruptible gives up on a signal to the reader: -ERESTARTSYS.
SelfTestSignal ==
    /\ At("mp", "mpLock")
    /\ Goto("mp", "idle")
    /\ UNCHANGED <<lock, awake, irqVars, chipVars, down, pending, envVars, pmVars>>

SelfTestLoad ==
    /\ At("mp", "mpLock")
    /\ Lock("mp")
    /\ Download("test")
    /\ Goto("mp", "mpTest")
    /\ UNCHANGED <<awake, irqVars, bad, down, pending, envVars, pmVars>>

\* The normal firmware is put back, except when a step of the test fails.
SelfTestEnd ==
    /\ At("mp", "mpTest")
    /\ Download("touch") \/ ("test" \in Failures /\ UNCHANGED chip)
    /\ Unlock("mp")
    /\ Goto("mp", "idle")
    /\ UNCHANGED <<awake, irqVars, bad, down, pending, envVars, pmVars>>

-----------------------------------------------------------------------------
(* System sleep: nvt_pm_suspend runs before the SPI controller suspends    *)
(* and nvt_pm_resume after it has resumed; both store the flag first.      *)

PmSuspend ==
    /\ "pm" \in Actors
    /\ phase = "run" /\ display = "off"
    /\ \A t \in {"drm", "fp", "mp"} : At(t, "idle")
    /\ pmFlag' = TRUE /\ phase' = "flagged"
    /\ UNCHANGED <<pc, lock, awake, irqVars, chipVars, down, pending, envVars, pmDone>>

\* Mutated: the completion keeps what it has from the last sleep.
PmSuspended_NoReinit ==
    /\ phase = "flagged"
    /\ phase' = "down"
    /\ UNCHANGED <<pc, lock, awake, irqVars, chipVars, down, pending, envVars, pmFlag, pmDone>>

\* reinit_completion.
PmSuspended ==
    /\ phase = "flagged"
    /\ pmDone' = 0 /\ phase' = "down"
    /\ UNCHANGED <<pc, lock, awake, irqVars, chipVars, down, pending, envVars, pmFlag>>

PmResume ==
    /\ phase = "down"
    /\ pmFlag' = FALSE /\ phase' = "up"
    /\ UNCHANGED <<pc, lock, awake, irqVars, chipVars, down, pending, envVars, pmDone>>

PmResumed ==
    /\ phase = "up"
    /\ pmDone' = pmDone + 1 /\ phase' = "run"
    /\ UNCHANGED <<pc, lock, awake, irqVars, chipVars, down, pending, envVars, pmFlag>>

-----------------------------------------------------------------------------
\* What a thread does once it is inside the driver.
Step(t) ==
    \/ Suspend(t) \/ Resume(t)
    \/ t = "drm" /\ CancelWork
    \/ t = "work" /\ ResumeWork
    \/ t = "irq" /\ (IrqWait \/ IrqLock \/ IrqRead)
    \/ t = "mp" /\ (SelfTestLoad \/ SelfTestEnd)

Next ==
    \/ \E t \in Thread : Step(t)
    \/ Blank \/ Unblank \/ Recover \/ GestureSwitch
    \/ Irq \/ BootUpdate \/ SelfTest \/ SelfTestSignal
    \/ PmSuspend \/ PmSuspended \/ PmResume \/ PmResumed

Spec == Init /\ [][Next]_vars

\* The kernel runs its threads and hands a mutex to those that wait for it in
\* turn.  Nobody has to press a key, and a system may sleep for ever.
FairSpec == Spec /\ \A t \in Thread : SF_vars(Step(t))

-----------------------------------------------------------------------------
(* Properties.                                                             *)

\* nvt_drm_notifier_callback: whenever nothing is under way, the touch is awake
\* exactly when the display is on, however fast it was switched and whatever
\* else held the lock meanwhile.
FollowsDisplay == Settled => (awake <=> display = "on")

\* nvt_ts_suspend and nvt_ts_resume: when nothing is under way the interrupt
\* fires exactly when somebody wants it, for touches or for the wakeup gesture.
IrqFollowsMode == Settled => (depth = 0 <=> (awake \/ gesture))

\* nvt_ts_resume: a touch that a resume has woken and reported as such gets its
\* interrupts, whatever mode it was suspended in.
AwakeTouchFires == Settled /\ awake => depth = 0

\* nvt_irq_enable: its flag and the kernel's depth agree, and one enable undoes
\* what was disabled, whichever threads called it.
IrqBalanced ==
    (\A t \in Thread : ~At(t, "susSync")) => depth = (IF irqOn THEN 0 ELSE 1)

\* "release all touches": a touch that is asleep, its suspend over, has no
\* finger down in user space, whatever the interrupt thread was doing.
NoStuckTouch ==
    (~awake /\ \A t \in Thread : ~(pc[t] \in {"susMode", "susRelease"})) => ~down

\* Every call returns and the interrupt thread comes back: disable_irq and
\* cancel_work_sync wait for threads that wait for ts->lock, never in a circle.
CallsReturn == \A t \in Thread : ~At(t, "idle") ~> At(t, "idle")

\* A display that stays on gets its touch back.
DisplayOnWakes ==
    (display = "on" /\ At("drm", "idle")) ~> (awake \/ ~At("drm", "idle"))
=============================================================================
