# A verification project for ginkgo-mainline-linux

This directory holds TLA+ models of the concurrent parts of the repository, the
TLC configurations that check them on small instances, and TLAPS proofs that
hold for every instance. Paths below are relative to `src/`; `dsi-staging/` and
`nt36xxx/` abbreviate `reference/downstream/drivers/dsi-staging/` and
`reference/downstream/drivers/nt36xxx_spi_c3j/`.

## 1. The system

The repository brings mainline Linux up on the Xiaomi Redmi Note 8 (ginkgo). It
consists of the two downstream kernel drivers that drive the panel and the
touchscreen, a boot chain (an initramfs `init`, systemd units and shell scripts
of the root filesystem), scripts that build, flash and probe the device, and
device trees, defconfigs, firmware and documents.

| component | state it keeps | operations | who it talks to |
|---|---|---|---|
| DSI clock manager, `dsi-staging/dsi_clk_manager.c` | per client a reference count and a vote for core and link clocks; one state per domain; the enables held on each controller | request ON / OFF / EARLY_GATE, forced rate update, (de)register client, (de)register manager | called by `dsi_display.c` under a global mutex; calls the clock, bus and power frameworks, and four callbacks of the display |
| DSI display, `dsi-staging/dsi_display.c`, `dsi_drm.c` | ULPS, clamp, PHY idle and splash flags, command engine count, panel and display locks | prepare, enable, disable, unprepare, set_mode, backlight, ESD check, dynamic clock rate, bind and unbind | DRM core above; clock manager, controllers, PHY and panel below |
| DSI controller, `dsi-staging/dsi_ctrl*.c` | power, engine, controller and interrupt state; the command in flight | state setters with a validity check, command transfer by DMA, interrupt handler, error recovery | display above, hardware and interrupt below |
| DSI panel, `dsi-staging/dsi_panel.c`, `dsi_pwr.c` | panel_initialized, ESD pending flag, regulators, GPIOs | power, prepare, enable, disable, backlight, command sets | display above |
| DSI PHY, `dsi-staging/dsi_phy*.c` | power state, regulator and clamp state, ULPS state | power, enable, idle on and off, ULPS, dynamic refresh | display above |
| DSI timing, `dsi-staging/dsi_phy_timing*.c` | none between two calls | compute the lane timings of a bit clock | called by the PHY when it is enabled and when the clock changes |
| NT36xxx touch, `nt36xxx/nt36xxx.c` | awake, gesture mode, interrupt enabled, PM suspend flag and completion, workqueues | probe, remove, suspend, resume, interrupt thread, DRM notifier, gesture switch, watchdog recovery, boot firmware update | SPI device, DRM notifier chain, input core, PM core |
| NT36xxx firmware and self test, `nt36xxx_fw_update.c`, `nt36xxx_ext_proc.c`, `nt36xxx_mp_ctrlram.c` | the loaded firmware image, bus addresses | download with retries, proc files, manufacturing test | the touch core, under its mutex |
| initramfs, `initramfs/init.c`, `initramfs/init` | mounts | find userdata, mount, deploy overlay, switch root | kernel, block devices |
| USB gadget, `rootfs-overlay/usr/local/sbin/usb-gadget-rndis.sh` | configfs tree, bound UDC, interface address | start, stop, restart | systemd, configfs |
| root filesystem services, `rootfs-overlay/` | root password and marker, modem state, mounts, backlight | one shell script each | systemd, remoteproc, NetworkManager |
| build, flash and publish scripts, `scripts/` | images, device partitions | build, flash, restore, update over recovery | fastboot, adb, GitHub |
| display and touch bring-up tools, `scripts/*.py`, `display-bringup-loop*.sh` | collected logs | probe, simulate, judge | the device over ssh and uart |
| device trees, defconfigs, bindings, firmware, documents | none | none | data |

### What is hard here

* **Interleavings.** The clock manager is called from the DRM commit path, from
  the backlight and ESD workers, from sysfs and from the MDP driver. Touch
  suspend and resume come from a notifier, a workqueue, the watchdog recovery
  and the PM core, while the interrupt thread and the boot firmware update run.
* **Partial failure.** Every clock, bus and regulator call can fail between two
  others; many error paths undo only a part.
* **Ordering.** Core before link, master before slave, power before clocks, and
  the reverse on the way down; ULPS entry before clamps.
* **Restart.** The first program and the gadget script run again on what an
  interrupted run, a kill or a power loss left behind.
* **Rounding.** Lane timings are integer divisions of each other, in unsigned and
  fixed-point arithmetic, that must fit eight bits.

`PROJECT.json` lists each hazard at its line under `hazards`.

### What makes each component correct

* **Clock manager**: clocks follow the votes; no enable leaks or underflows; the
  orders above hold at every step; a granted clock keeps running; an error of
  one call does not corrupt the next.
* **Touch**: awake exactly when the display is on; the interrupt's enables are
  balanced and fit the mode; no finger stays down; no circle of threads waiting.
* **Display, controller, PHY**: ULPS and clamp flags agree with the lanes; a
  failed prepare gives back all it took; one lock order on every path; a command
  never touches a controller that is off; supplies are counted as they are used.
* **Commands**: the interrupt's count and line come back whoever releases them
  first; a reported result is the DMA's own; a transfer returns.
* **Lane timings**: the values keep the limits they are computed from at every bit
  clock, and no clock in range is refused.
* **Probe ladders**: an error undoes exactly what was done; regulators stay
  balanced.
* **Boot chain and services**: every retry loop ends; a second start completes
  or repeats what the first began.

## 2. The plan

| order | modules | what | state |
|---|---|---|---|
| 1 | `DsiClkManager`, `SharedClock`, `DsiClkManager_proofs` | the clock manager, its abstract specification, its invariants | done |
| 2 | `NvtTouch`, `NvtTouch_proofs` | the running touch driver and its threads | done |
| 3 | `DsiHardware`, `DsiDisplay` | controller, PHY, supplies and clock callbacks; over them the display's life cycle with the threads beside it | done |
| 4 | `DsiCmdTx`, `DsiCmdTx_proofs` | command transfer by DMA against its interrupt handler | done |
| 5 | `Initramfs`, `UsbGadget`, `PhoneBoot`, `PhoneBoot_proofs` | the first program, the gadget script and its unit, and the phone made of both | done |
| 6 | `PhyTiming`, `PhyTiming_proofs` | the lane timings of D-PHY and C-PHY | done |
| 7 | `DsiHardware_proofs`, `DsiDisplay_proofs` | what the calls below the display leave; over it the invariant of the display's life cycle | done |
| 8 | `DsiClkManager_proofs` (its second half) | granted clocks, both orders, and the manager implements `SharedClock` step by step | done |
| 9 | `UsbGadget_proofs` | the invariant of the gadget service, `SuccessIsReal`, `RestartHeals` | done |
| 10 | `DsiDisplay_proofs` (its end) | the display's picture of the clock manager: its clients nest as the manager assumes, and find what `SharedClock` promises | done |

Three modules compose others: `DsiDisplay` extends `DsiHardware`, `PhoneBoot`
extends `Initramfs` and `UsbGadget`, and `DsiClkManager` instantiates
`SharedClock` twice as what it implements. `DsiDisplay` has the clock manager in
the form `DsiHardware` gives it (votes and what follows from them when no clock
fails), because `VotesDecideState` and `ClocksMatchState` say that this is what
the manager amounts to. The two meet in both directions: `CallersNestHolds` proves
of the display what the manager's model assumes of its callers, and
`ClocksAreShared` proves of the display's picture, between requests, what the
manager is proved to keep at every step. A request is one step of `DsiHardware`,
and a transfer one that takes clocks and gives them back, so there is no
refinement of `SharedClock` step by step to prove there.

## 3. The models and the code

### DsiClkManager (`dsi-staging/dsi_clk_manager.c`)

| model | code |
|---|---|
| `clients`, `ref`, `vote` | `client_list`, `core_refcount` / `link_refcount`, `core_clk_state` / `link_clk_state` of `dsi_clk_client_info` |
| `mgr` | `core_clk_state`, `link_clk_state` of `dsi_clk_mngr` |
| `en` | enables minus disables given to the clock, bus and power frameworks, per controller; outside the driver, so that leaks and underflows show |
| `pc`, `op`, `by`, `want`, `lcOn`, `done`, `rc` | the thread that holds `clk_mutex`: its place, its arguments and its locals |
| `faults`, `failed` | history: how many calls of the environment failed, and which |
| `Req`, `Register`, `Deregister`, `MngrRegister`, `MngrDeregister`, `ForceUpdate` | the exported calls, up to the first call on the hardware |
| `Aggregate`, `Wanted`, `Recheck` | `dsi_recheck_clk_state` |
| `FirstPart`, `LinkPart`, `CorePart` and the loops `CoreEnable` ... `LinkDisable` with their ends | `dsi_update_clk_state` and the functions it calls; one step per controller and clock group |
| `Return` | the unlock, and what (de)registration does after it |

Every call that can fail does so by itself and its cleanup is the code's, also
where the code undoes only a part; the one clean-up that can fail itself, stopping
the master's core clocks (`dsi_clk_manager.c:649`), does so too (`FailTwice`). The environment nests its requests
(`CallerNests`: core clocks around link clocks, as every function of
`dsi_display.c` does), and does not use a client whose deregistration failed
(`Usable`). Left out: the clock rates, the splash flag, and the difference
between clocks that fail and are cleaned up the same way.

`SharedClock` says what a client is promised of one domain: the clock starts
before it is handed out, runs while somebody holds it, and stops once nobody
does. The manager implements it twice, for the core and for the link clocks;
the mapping counts as holders the clients whose vote the manager has acted on,
and as running a domain all of whose clocks are on at all controllers.

### NvtTouch (`nt36xxx/nt36xxx.c`, with `nt36xxx_fw_update.c`, `nt36xxx_mp_ctrlram.c`)

| model | code |
|---|---|
| `pc[t]` for `irq`, `work`, `drm`, `fp`, `mp` | the interrupt thread, `resume_work`, the thread that switches the display, the caller of `nvt_ts_recovery_callback`, a reader of the self test's proc file |
| `lock` | `ts->lock` |
| `awake`, `gesture`, `irqOn`, `pmFlag`, `pmDone` | `bTouchIsAwake`, `is_gesture_mode`, `irq_enabled`, `dev_pm_suspend`, its completion |
| `pending`, `boot` | `resume_work`, `nvt_fwu_work` queued |
| `depth` | the kernel's disable depth of the interrupt |
| `chip`, `bad`, `down` | the firmware and mode of the chip, `recovery_cnt`, fingers reported down |
| `display`, `phase` | the display as its driver announces it; the phases of a system sleep |
| `Suspend`, `Resume` | `nvt_ts_suspend`, `nvt_ts_resume`, split at every access made outside `ts->lock` |
| `Blank`, `CancelWork`, `Unblank`, `ResumeWork` | `nvt_drm_notifier_callback` and its worker |
| `Irq` ... `IrqRead` | `nvt_ts_work_func`, `nvt_wdt_fw_recovery` |
| `GestureSwitch`, `Recover`, `BootUpdate`, `SelfTest...`, `PmSuspend...` | the callbacks of the same purpose; `SelfTestSignal` is a signal that ends the self test's wait for the lock |

The display's announcements, system sleep and the caller of the recovery
callback are the environment. `cancel_work_sync`, `disable_irq` and the mutex
wait as the kernel's do. `delay_gesture` and the hold on the regulators, which
the gesture switch takes and drops, and `enable_irq_wake`, which a suspend in
gesture mode asks for and no resume takes back (`nt36xxx.c:2266`), are left out:
nothing else in the running driver depends on them. With `AnySwitch` FALSE, gesture mode is switched while the touch is
awake and idle; with TRUE, at any time.

### DsiHardware (`dsi_ctrl.c`, `dsi_phy.c`, `dsi_pwr.c`, callbacks of `dsi_display.c`)

A record `h` holds what the calls below the display change; a call is an operator
from `h` to the set of its outcomes (the new state, whether it returned 0, which
outside calls failed), so that `DsiDisplay` decides where a call happens and
which failures the instance has.

| model | code |
|---|---|
| `vote`, `core`, `link` | the clients' votes and what the manager runs for them |
| `sup` | each supply's reference count and whether it is on (`dsi_pwr_enable_regulator`) |
| `power`, `host`, `engine`, `vid`, `cmd` | `dsi_ctrl.current_state` and its engine states |
| `cmdRef`, `idle`, `clamp`, `ulps`, `splash` | `cmd_engine_refcount`, `phy_idle_power_off`, `clamp_enabled`, `ulps_enabled`, `is_cont_splash_enabled` of `dsi_display` |
| `phyPower`, `phyEngine`, `lanes` | the PHY's power and engine state, the lanes in ULPS |
| `init`, `esd` | `panel_initialized`, `esd_recovery_pending` |
| `Allowed` | `dsi_ctrl_check_state` |
| `CtrlPowerOn` ... `VidEngine`, `PhyPowerOn` ... `PhyEngineOff` | the controller's and the PHY's state setters |
| `CoreUp`, `LinkUp`, `LinkDown`, `CoreDown`, `SetUlps`, `Clamp`, `PhyIdleOn`, `PhyIdleOff` | the four clock callbacks and what they call |
| `Request`, `Recheck`, `Voted` | a request to the clock manager with its callbacks |

One controller, as the repository's device trees have; ULPS driven by the
controller (controller v2.3, PHY v2.0). Left out: `regulator_required` of the PHY,
which binding the display sets for good (`dsi_phy.c:1102`), and a regulator that
fails to switch off (`dsi_pwr.c:380`), whose count goes down all the same.

### DsiDisplay (`dsi_drm.c`, `dsi_display.c`, `dsi_panel.c`)

| model | code |
|---|---|
| `pc`, `back` | where the DRM thread stands in the bridge's pre_enable, enable, disable and post_disable; where unprepare returns to |
| `PanelOn` ... `EngineOn` and the `a...` places | `dsi_display_prepare` with its error ladder, `dsi_display_enable` |
| `PanelUnprepare` ... `PanelOff`, `Unregister` | `dsi_display_disable`, `dsi_display_unprepare`, the error handler's removal |
| `ContSplashConfig`, `SplashCleanup` | the take-over of the boot loader's picture |
| `job`, `lock`, `plock` | the ESD check, the backlight, a user's command and the recovery work, with `display_lock` and `panel_lock` |
| `Work`, `JobSend` | what a job does under its lock: the status read, the backlight's level (with `Transfer`, on panels that take it as a command), a user's command |
| `ErrorInterrupt`, `RecoveryCheck`, `RecoveryDropped` | the error callback, the work's look at `esd_recovery_pending` before the lock, its drop |
| `MdpClocks` | `dsi_display_clk_ctrl_cb`: the display processor's votes, under no lock of the display |

The error handler's three work items share one thread, so one recovery at a time
is at work; another may be queued as soon as it ends (`JobEnd`). Left out: failures
while the boot picture is up, and a work queue that cannot be made
(`dsi_display.c:6982`), without which errors are not handled at all.

### DsiCmdTx (`dsi_ctrl.c`, `dsi_ctrl_hw_cmn.c`)

| model | code |
|---|---|
| `sender` and its steps `Collect`, `Begin`, `Reinit` ... `GiveUp` | `dsi_message_tx`, one step per access to what the handler shares |
| `handler` and its steps | `dsi_ctrl_isr` |
| `refs`, `depth`, `installed` | `irq_stat_refcount`, the line's disable depth, `irq_num` |
| `unmasked`, `raised`, `sseen`, `hseen` | `DSI_INT_CTRL`, and what sender and handler read of it before they write it back |
| `done` | the completion `cmd_dma_done` |
| `running`, `DmaDone`, `DmaLost` | the DMA engine: this transfer's, an earlier one's that was given up |
| `ownDone`, `taken`, `settled`, `overtakes`, `orphans` | history, for the properties and the bounds |

Sender and handler change the one register by reading it and writing it back,
without a common lock, and the handler reads it a second time to clear it. After
a timeout the sender looks for the DMA's bit itself; that look is what makes the
results right when an interrupt is lost. A transfer may begin without a handler,
whose installation may fail (`SetupIsr`), and then ends by its timeout. Left out:
the wait for the video frame before a command (`dsi_ctrl.c:1278`), which returns at
once from controller v2.2 on (`:1036`); the phone's is v2.3.

### Initramfs, UsbGadget, PhoneBoot (`initramfs/init.c`, `usb-gadget-rndis.sh`, its unit, `ssh.service.d/override.conf`)

| model | code |
|---|---|
| `phase`, `tries`, `done`, `copying` | where `main` is; the looks left of `find_userdata`; the entries `deploy_dir` has visited; the file that `copy_file` has open |
| `disk`, `linked`, `dirty` | what the root file system holds of each entry, and what a power loss may still take from it |
| `image`, `NewImage` | the boot image that is flashed |
| `usb` | configfs: the parts of the gadget made, the binding, the interface |
| `script[a]` | the script as systemd (`unit`) and an operator (`shell`) run it, one command a step, with `set -e` |
| `unit`, `sshd`, `BootStart`, `AskUnit`, `StartSsh`, `Kill` | systemd on the unit and on `ssh.service` |

The kernel's rules for configfs (what may be made, removed and bound when) are
external. A power loss may lose or cut any entry written since power on, and
empties configfs. A script may be killed before any command. The controller may
appear late or never. `PhoneBoot` lets the unit run only once the first program
has put the unit's link and the script on the root file system. Left out are the
errors `init.c` passes over in silence, an open, a write, a link or a directory that
fails (`:80-90`, `:106`, `:158`): the entry is then missing or cut and the boot goes on,
so `DeployedAtInit` fails with them. `NewImage` is a person who flashes an image
(`scripts/flash-linux-boot.sh`).

### PhyTiming (`dsi_phy_timing_calc.c`, `dsi_phy_timing_v2_0.c`, `_v3_0.c`, `_v4_0.c`)

| model | code |
|---|---|
| `bitclk`, `version`, `cphy` | what `dsi_phy_hw_calculate_timing_params` is called for |
| `desc`, `todo`, `Calc...` | `phy_timing_desc`, filled by one `calc_` function after the other; a value over eight bits ends the call |
| `V2...`, `V3...` and the operators that choose between them | the versions' `timing_ops` |
| `timing`, `UpdateTimingParams` | the lane entries `update_timing_params` writes |

Times are in thousandths of a bit (ns times Mbit/s), in which every division of
the code is one between integers; the code's fractions of 20 bits become exact.
What an unsigned difference below zero becomes is `TooWide`. The results were
compared, for every one of the instance's inputs, with those of the compiled C
functions: they are equal, refusals included.

## 4. What TLC checks

| run | shows | instance |
|---|---|---|
| `clk_votes` | states follow votes; no leak, no underflow; granted clocks run; a request that succeeds at once is true; both domains implement `SharedClock` | 2 clients, 2 controllers, counts to 2, no failure |
| `clk_faults` | after up to two failures: a success follows the votes; core clocks and both orders (core around link, master around slave) survive every failure of the core clocks; no HS clock leaks when link clocks fail | counts to 1, any two failures |
| `clk_failed_retry` (violated) | a failed ON request leaves its vote, so the next one reports success with the clocks off | one failure |
| `touch_display` | the touch ends awake exactly when the display is on; calls return; a display that stays on wakes the touch | all but the recovery callback, all failures |
| `touch_threads` | the interrupt fits the mode and is balanced, no finger stays down | every actor, all failures |
| `touch_recovery` (violated) | the recovery callback suspends a touch that the display has woken | recovery callback |
| `touch_switch_asleep` (violated) | gesture mode switched on while asleep: the next resume leaves the awake touch without its interrupt | `AnySwitch` |
| `dsi_display` | transfers have power, host, engine and clocks; a blanked display holds nothing; supplies' counts fit; ULPS and its flag agree; the attempt after a failed one works; link clocks are held within core clocks; DRM's calls return | 4 panels, 4 jobs, two failures |
| `cmd_transfer` | the line follows its users; a transfer gives its interrupt back once; results are true; transfers return | 2 message lengths, one overtaken handler, one removed in use |
| `cmd_lost_done` (violated) | a DMA that ends between the handler's two reads is cleared without being completed | nothing else goes wrong |
| `phone_boot` | init finds the whole overlay; the boot ends; a start that succeeds is real; a restart heals; ssh comes up | 3 entries, 2 images, 1 power loss, 2 calls of an operator, 1 kill |
| `phy_timing` | values fit registers and limits; no clock in range is refused | every bit clock to 2500 Mbit/s, 3 versions, both PHY kinds |

**Bounds.** Two clients suffice to have one hold what the other releases, and
the driver registers two. Two controllers are the most a display has. `MaxRef` 2
has nested holds of one client; 1 where failures make the state large.
`MaxFaults` 2 has a failure in the call, or the clean-up, that follows a failed
one. `MaxDebt` 2 bounds how often EARLY_GATE is left for OFF, which gives link
clocks back twice. `RecoveryMax` 1 stands for 10: a counter below, at and past its
limit. The touch has one thread of each kind because the kernel runs one.
`MaxVote` 4 is more votes than the display's callers ever nest. The command
buffer of 16 bytes with messages that take 8 and 16 of it has a batch that fits,
one that fills it and one that does not; `MaxOvertakes` and `MaxOrphans` 1 have
each of the two races happen and its count stay. `Tries`, `UdcTries` 2 and
`IfaceTries` 1 have a wait that ends early, at its last look, and never. Two
images and one loss have files of an old image, cut files, and a boot after both.
Two calls and a kill beside the unit's own have any two scripts overlap, one cut
short. The `phy_timing` instance is the whole range of a D-PHY (2.5 Gbit/s):
nothing is left out. What the proof adds is the reason: the inequalities between
divisions, roundings and margins, step by step, where the run only says that they hold.

**Failures of `dsi_display`.** They are those the driver cleans up after: the
controller's and the PHY's resets, the PHY, the clock source, a command. It
does not clean up after the others: a supply that fails stays counted
(`dsi_pwr.c:372`), so `SuppliesMatch` and, but for the panel's own supply,
`BlankReleases` fail with it, and with the controller's and the PHY's power
`TransfersAreFed` too; failing link clocks leave a vote behind
(`dsi_display.c:7139`), which `CallersNest` does not survive, and a failed ULPS exit leaves the lanes asleep.

**Fairness.** The clock manager assumes, in `clk_votes`, weak fairness of the steps of
the call that holds the mutex: a thread that holds a mutex is scheduled, and no step
of it waits. (`SharedClock` needs it: clocks nobody holds stop.) The touch assumes strong fairness of each thread's steps: a kernel
mutex is handed to its waiters in turn, so a thread that finds it free again and
again gets it. The same holds of the display's DRM thread and its work queue;
its jobs, once begun, hold their locks and need only weak fairness. The sender
of commands is a running thread with a timeout, the handler an interrupt: weak
fairness. In the phone the first program, the scripts' commands and systemd's
own jobs go on (weak fairness). Nothing is assumed of users, interrupts, DMAs,
displays, sleep, power, controllers or operators.

**Symmetry** of the clients is used in `clk_failed_retry` and `clk_faults`, which check
invariants and action properties; nowhere that liveness or refinement is checked.

**Deadlock** is checked except in `phone_boot`, where a phone that is off or whose
first program died stops, and `phy_timing`, where the one call ends.

**Code and comments disagree** in four places, listed as findings in
`PROJECT.json`, each with the run that shows it: the votes of a failed request,
the recovery callback's unlocked test, the interrupt after a switch of gesture
mode, the interrupt register that is cleared of more than was read. Seen while
modelling, without a run:
* leaving EARLY_GATE for OFF masks the link clock types with `&` to nothing
  (`dsi_clk_manager.c:982`), so link clocks stop twice;
* HS clocks that fail leave the LP clocks running past the core
  (`dsi_clk_manager.c:948`), against the comment at 908-910;
* a suspend in gesture mode asks for wakeups by the interrupt, and no resume takes
  that back (`nt36xxx.c:2266`);
* the boot update does not ask whether the touch sleeps (`nt36xxx.c:1893`);
* a start of the gadget that finds no controller leaves its directory, and every
  later start takes that for a complete gadget and fails on its interface, until
  a stop or restart (`usb-gadget-rndis.sh:39`); a stop killed after it has unbound
  the gadget leaves the interface, and the next start then reports success;
* version 4 of the timings hands a C-PHY the entries of a D-PHY
  (`dsi_phy_timing_v4_0.c:82`), so the C-PHY's own values never reach registers 5
  to 7 (`dsi_phy_hw_v4_0.c:216-218`);
* `calc_clk_post` and `calc_clk_pre` round down where their comments round up
  (`dsi_phy_timing_calc.c:477` and `:526`).

## 5. What TLAPS proves

For any clients, controllers, threads, failures, messages, overlays and bounds,
unless stated.

`DsiClkManager_proofs`:
* `TypeCorrect`, with any failures. `WantOK` strengthens `TypeOK`: at each place of
  the transition the wanted state is one that place can be about.
* `VotesDecideStateHolds`, when nothing fails, EARLY_GATE included. `VotesInv` says
  what the transition still owes: a domain that needs no change is where the
  votes want it, the others are wanted there, and those the transition has
  passed are there.
* `ClocksMatchStateHolds`, `NoUnderflowHolds`, `MasterCoversHolds`, when nothing
  fails and clients ask for ON and OFF. `NoGate` shows that EARLY_GATE then never
  arises; `ClockInv` gives every count at every step as a function of the place,
  the controllers the loop has been through and the manager's state, and
  `Order` where the master stands in the loop. It needs `VotesInv`, because a
  manager that is freed must already be OFF.
* `SuccessFollowsVotesHolds`, with any failures: the failed step that `VotesInv`
  would contradict is always one that makes the call report an error.
* `CoreSurvivesFaultsHolds` and `OrderSurvivesFaultsHolds`, with any failures, for
  at most two controllers (`Pair`) and ON and OFF. `MAX_DSI_CTRL` is 2
  (`dsi_clk.h:25`) and the registration refuses more (`dsi_clk_manager.c:1405`);
  with three the loop's clean-up, which stops only the master
  (`dsi_clk_manager.c:648`), would leave the second one on.
* `NoHsLeakHolds`, under the same assumptions: `HsInv` gives the HS clocks' count at each
  place of the transition, failures included. The LP clocks have no such theorem: they
  do stay on when HS clocks fail (section 4).
* `ImmediateOnIsOnHolds`, when nothing fails, and `GrantedClocksRunHolds`, for ON
  and OFF besides. `Nested` (a client with a link vote has a core vote, as its
  callers nest them) survives every request, so `LinkUnderCore` does, and a
  transition started for one client never stops what another one holds.
* `DomainsAreSharedSafely`: under the same assumptions the manager implements
  `Safety` of `SharedClock` for either domain, by the mapping section 3 describes;
  each step starts, hands out, takes back or stops the shared clock, or moves
  nothing of it. `HeldClocksRun` carries the promise back. The one part of
  `SharedClock` that is left to TLC is its liveness, that unheld clocks stop.

`NvtTouch_proofs`:
* `TypeCorrect` and `NoStuckTouchHolds`, with any actors and failures: who is inside
  the lock is its holder, so the interrupt thread cannot report a finger between
  the suspend that puts the touch to sleep and its release. The type needs `DepthInv`
  (the depth covers every disable recorded or about to be) and `PmInv` (a sleep
  is completed once).
* `FollowsDisplayHolds` and `IrqBalancedHolds`, without the recovery callback (with
  it the first is false, see `touch_recovery`): only the worker resumes and only
  the notifier suspends, and it waits for the worker first; so each value that
  was tested outside the lock still holds when it is used.
* `IrqFollowsModeHolds` and `IrqBalancedSettledHolds`, with every actor and failure
  as long as gesture mode is switched only on a settled touch (`touch_switch_asleep`
  shows what happens otherwise): `SettledInv` says at each place of suspend and
  resume what the mode read there is, and that no other thread can change it
  before it has been acted on.

`DsiHardware_proofs`, for every state the calls may find and any panel, as long
as no supply, no link clock and no lane fails:
* `RecheckGives`: a change of votes leaves the hardware `Coherent` (supplies are
  counted as they are used, controller and PHY are powered with the core clocks,
  what sleeps says so and may sleep) and the clocks as the votes want them. One
  lemma for each of the four clock callbacks; `ULPS` and `clamp` meet in `Parked`.
* `TransferGives`: a command gives back the clocks and the engine it takes, on every
  path, and is refused by no controller that is on.

`DsiDisplay_proofs`, for any panels, jobs and number of failures (`Recovered`: those
the driver cleans up after, as in the run `dsi_display`; section 4 says why the
others break these properties):
* `InvHolds`: `CoreVotes` and `LinkVotes` account for every clock vote by its holder:
  the boot picture, the DRM thread (`DrmCore` and `DrmLink` say at which places),
  the job that owns the panel's lock, the job that owns the display's.
  `EngineInv` does the same for the command engine's count. `HostInv`, `PanelInv`
  and `PhyInv` give host, engines, supply and PHY as functions of the DRM
  thread's place; `LockInv` ties a job at work to its lock and to a host that is up.
  Each step adds or removes exactly one holder, which is why a ladder that
  skipped or repeated a release would break it. `PhyEnable`'s, `CtrlInit`'s and the
  others' failures need `Coherent` only.
* `TransfersAreFedHolds`, `BlankReleasesHolds`, `SuppliesMatchHolds`, `LanesAwakeHolds`,
  `NextAttemptWorksHolds` and `TypeOKHolds` follow from it. The last needs `MaxVote`
  at 3 or more, and shows that a client never nests more votes.
  `BlankReleasesHolds` includes the interrupt handler and the error work queue, so no
  prepare makes a work queue over an old one (`dsi_display.c:6981`).
  TLC checked the invariant on the instance of `dsi_display` before it was proved.
* `CallersNestHolds`: whoever holds a link vote holds a core vote, because every holder
  in `LinkVotes` is one in `CoreVotes`. With it the assumption on the environment of
  `DsiClkManager` (`CallerNests`) is a fact about the driver that calls it.
* `ClocksAreShared`: `SharedClock`, instantiated once for each domain with the clients
  that have a vote as its holders, keeps its promise; besides, no clock runs unheld
  and the link runs within the core.

`PhyTiming_proofs`, for any versions and any whole bit clocks of a D-PHY, 1 to 2500
Mbit/s (the code checks no range, and would divide by zero at 0):
* What the arithmetic is made of: `Quotient`, `CeilIs`, `DivRoundUpIs` bound a division
  from both sides, `WeightedIs`, `TwiceIs` and `ShareIs` say where a value lies that
  a margin in percent puts between its limits.
* One lemma for each entry (`ClkPrepareFits` to `CphyClkFits`): at a clock a prepare
  phase can serve its value fits eight bits and keeps its limits, if those it is
  computed from do. They split where the code does: by version, and by the clocks at
  which it rounds or adds differently (`HsPrepare` at 120 and 160 Mbit/s). The tightest
  is version 2's clock trail: the code adds a remainder to its maximum twice, so the
  largest register value may exceed the limit. The chosen one does not: up to 105 Mbit/s
  the largest is 2, up to 199 the margin of 30% reaches no more than 3, and above that
  the margin leaves the excess out.
* `InvHolds`: what is still to do is the end of the order, all before it keeps its
  limits (`ComputedKept`), and a refusal means a clock no prepare phase serves. It is
  needed because a zero phase is laid out for the prepare phase as rounded, and the
  trails' successors for theirs. TLC checked it on the instance of `phy_timing` first.
* `TypeCorrect`, `FittingPhases`, `ServedClocks` follow: what `update_timing_params`
  hands on was computed, so it keeps its limits.

`DsiCmdTx_proofs`, by one inductive invariant of three parts beside the types:
* `TypeCorrect`: the buffer never overflows (`PaddedFits`: a padded message keeps it
  aligned and inside) and no count passes what overtakes and orphans explain.
* `LineAlwaysFollows`: `LineInv` ties the line's depth to whether anybody counts.
* `CountsComeBack`: `CountInv` says who still owes a count at each place of sender
  and handler, so that the second of the two to release finds nothing of its own.
* `ResultsAreTrue`: `ResultInv` says where the knowledge of a finished DMA is: in the
  register, with the handler, in the completion, or with the sender.

`PhoneBoot_proofs`:
* `BootInvHolds`: every entry the first program has passed is on disk, complete and
  from this image; what is cut or old is still ahead of it.
* `PhoneRunsItsInitramfs`: the whole phone implements `Initramfs`' own specification,
  scripts and operators being stuttering steps; `AlwaysDeployed` follows from the
  two.
* `GadgetInvHolds`: the invariant of the gadget service (`UsbGadget_proofs`, one lemma
  per command of the script and per step of systemd, the operator and the kernel).
  `KernelInv` closes configfs under "made in"; `AloneInv` says that a script whose
  history counts as alone runs alone and that a meeting of two is on record; `Owns` and
  `Heals` say what such a script may rely on at each of its commands. The step that
  needs an argument is `OrderIsSafe`: when everything earlier in `teardown_gadget`'s
  list is gone, nothing is left that is made in the next part, so the kernel lets it go.
* `SuccessIsRealHolds`, `RestartHealsHolds`: they follow from `GadgetInv` and the command
  at hand. For the first, `SoundInv`: without earlier trouble, and with no removal under
  way, an interface belongs to a bound gadget. For the second, `TearsDown` and `SetsUp`:
  no command of such a restart can fail before the last. `TypeOKHolds` is the type of
  both halves of the phone.

The assumptions are those the modules state of their constants and those named
above, and nothing else. Only model-checked: all liveness (`CallsReturn`,
`TransfersReturn`, `BootSettles` and the like, and that `SharedClock`'s clocks stop), which
under fairness is beyond the prover. Every invariant and every action property that a
passing run checks is proved.

## 6. Not modelled

`PROJECT.json` lists each component with its status and what is missing of it.

* **Probe, bind, remove** of both drivers and their error ladders: one thread, once,
  before and after everything else; the hazards seen there are facts of single
  lines and carry a note.
* **The touch's regulators**, `/proc/NVTSPI`, the test's criteria and the firmware's
  format.
* **Reads, broadcast and deferred triggers** of commands, and the FIFO path of
  secure sessions: they use the same interrupt the same way, or none.
* **Mode switches, dynamic refresh, partial update** of the display.
* **Register writes** (`dsi_ctrl_hw_*`, `dsi_phy_hw_*`) beyond the interrupt register:
  what they do is for the hardware to judge.
* **The parser, the panel's description, device trees, configurations, firmware**:
  data. **Build, flash and bring-up scripts**: sequences of external commands run by
  a person, with no state between two of them.
* **The small services** of the root file system: a command or two each.

This leaves most of the repository's lines out. They are, for the most part,
register definitions, bindings, device trees, and drivers' probe and parsing
code, none of which has states in which steps interact.
