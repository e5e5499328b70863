----------------------------- MODULE DsiDisplay -----------------------------
(***************************************************************************)
(* The life cycle of the display: the DRM bridge's four calls (dsi_drm.c), *)
(* step by step through dsi_display_prepare, enable, disable and unprepare *)
(* with their error ladders, while other threads use the panel: the ESD    *)
(* check and the backlight under the panel's lock, commands and the error  *)
(* recovery work under the display's lock, the display processor (MDP)     *)
(* with clock votes of its own and no lock of the display.                 *)
(*                                                                         *)
(* A step is a call of the display driver on a controller, a PHY, the      *)
(* panel or the clock manager, each made under that part's lock; a few     *)
(* steps join two such calls when no other thread tells them apart.        *)
(***************************************************************************)
EXTENDS DsiHardware

CONSTANTS
    Panels,       \* the panels to consider
    Jobs,         \* the other threads
    Faults,       \* the outside calls that may fail once the boot picture is gone
    MaxFaults     \* bound on the failures of a behaviour

ASSUME PanelsAssumption == Panels \subseteq Panel
ASSUME JobsAssumption == Jobs \subseteq {"esd", "backlight", "command", "recovery"}
ASSUME BoundsAssumption == MaxFaults \in Nat /\ MaxVote \in Nat

VARIABLES
    hw,       \* the state DsiHardware describes
    pc,       \* what the DRM thread does next
    back,     \* where dsi_display_unprepare returns to
    lock,     \* display->display_lock: its owner
    plock,    \* panel->panel_lock: its owner among the jobs
    job,      \* what each of the other threads does next
    isr,      \* the controller's interrupt handler is installed
    wq,       \* the error work queue exists, and its callbacks are registered
    clean,    \* no failure since the display was last told to come on
    faults    \* failures so far

vars == <<hw, pc, back, lock, plock, job, isr, wq, clean, faults>>
otherVars == <<back, lock, plock, job, isr, wq>>

\* Between two calls of the DRM framework.
Rest == {"boot", "off", "preEnabled", "on", "preDisabled"}
Prepare == {"panelOn", "coreOn", "phyOn", "clkSrc", "hostInit", "hostOn", "linkOn", "panelPrepare"}
Abort == {"aLinkOff", "aHostOff", "aHostDeinit", "aPhyOff", "aCoreOff", "aPanelOff"}
Unprepare == {"panelUnprepare", "hostOff", "linkOff", "hostDeinit", "phyOff", "coreOff", "panelOff"}
Moving == Prepare \cup Abort \cup Unprepare
            \cup {"enable", "engineOn", "disable", "panelDisable", "unregister"}

TypeOK ==
    /\ hw \in Hardware
    /\ pc \in Rest \cup Moving
    /\ back \in Rest
    /\ lock \in {"none", "drm"} \cup Jobs
    /\ plock \in {"none"} \cup Jobs
    /\ job \in [Jobs -> {"idle", "queued", "checked", "ready", "send", "sent", "failed"}]
    /\ isr \in BOOLEAN
    /\ wq \in BOOLEAN
    /\ clean \in BOOLEAN
    /\ faults \in 0..MaxFaults

Init ==
    /\ \E p \in Panels : hw = Cold(p)
    /\ pc = "boot" /\ back = "off"
    /\ lock = "none" /\ plock = "none"
    /\ job = [j \in Jobs |-> "idle"]
    /\ isr = FALSE /\ wq = FALSE
    /\ clean = TRUE
    /\ faults = 0

-----------------------------------------------------------------------------
\* The step takes the outcome r; failures are those the instance allows.
Takes(r) ==
    /\ r.hit \subseteq IF hw.splash THEN {} ELSE Faults
    /\ faults + Cardinality(r.hit) <= MaxFaults
    /\ hw' = r.h
    /\ faults' = faults + Cardinality(r.hit)
    /\ clean' = (clean /\ r.hit = {})

\* A step of the DRM thread at p: on to yes, or to no when its call fails.
Step(p, outcomes, yes, no) ==
    /\ pc = p
    /\ \E r \in outcomes : Takes(r) /\ pc' = IF r.ok THEN yes ELSE no

Dsi(h, ks, on) == Request(h, "dsi", ks, on)

\* A step that takes the panel's lock finds no job holding it.
PanelFree == plock = "none"

-----------------------------------------------------------------------------
(* dsi_bridge_pre_enable.                                                  *)

\* dsi_display_cont_splash_config: the boot loader's picture is kept: clocks,
\* the panel's supply, the host engine.
ContSplashConfig ==
    /\ pc = "boot"
    /\ pc' = "off"
    /\ \/ UNCHANGED <<hw, isr, clean, faults>>
       \/ /\ \E r \in Then(Then(Dsi([hw EXCEPT !.splash = TRUE], Clock, TRUE),
                               LAMBDA g : SupplyOn(g, "panelPwr")),
                          LAMBDA g : HostEngine(g, TRUE)) :
                r.hit = {} /\ Takes(r)
          /\ isr' = TRUE
    /\ UNCHANGED <<back, lock, plock, job, wq>>

\* The display's lock, the interrupt handler; the splash has the panel on.
PreEnable ==
    /\ pc = "off" /\ lock = "none"
    /\ hw' = [hw EXCEPT !.esd = FALSE]
    /\ lock' = "drm"
    /\ isr' = TRUE
    /\ clean' = TRUE
    /\ pc' = IF hw.splash THEN "coreOn" ELSE "panelOn"
    /\ UNCHANGED <<back, plock, job, wq, faults>>

\* dsi_panel_power_on: supply, pins and reset; the last two clean up.
PanelPower(h) ==
    LET Reset(g) == {Good(g), Failed(SupplyOff(g, "panelPwr"), "reset")}
    IN  Then(SupplyOn(h, "panelPwr"), Reset)

\* dsi_panel_pre_prepare: a panel that powers up after LP-11 does not yet.
PanelPrePrepare ==
    /\ PanelFree
    /\ \E r \in IF hw.panel.lp11 THEN {Good(hw)} ELSE PanelPower(hw) :
          /\ pc = "panelOn"
          /\ Takes(r)
          /\ pc' = IF r.ok THEN "coreOn" ELSE "preEnabled"
          /\ lock' = IF r.ok THEN lock ELSE "none"
    /\ UNCHANGED <<back, plock, job, isr, wq>>

CoreOn ==
    /\ Step("coreOn", Dsi(hw, {"core"}, TRUE), "phyOn", "aPanelOff")
    /\ UNCHANGED otherVars

PhyEnable ==
    /\ Step("phyOn", PhyUp(hw), "clkSrc", "aCoreOff")
    /\ UNCHANGED otherVars

SetClkSrc ==
    /\ Step("clkSrc", {Good(hw), Failed(hw, "clkSrc")}, "hostInit", "aPhyOff")
    /\ UNCHANGED otherVars

\* dsi_display_ctrl_init, then the error handler: work queue and callbacks.
\* Resuming from a suspend in ULPS the result is not looked at.  That the queue
\* can be made is assumed: without it no error would be handled.
CtrlInit ==
    /\ Step("hostInit", IF hw.panel.ulpsSuspend /\ hw.ulps
                          THEN Ignored(HostInit(hw)) ELSE HostInit(hw),
            "hostOn", "aPhyOff")
    /\ wq' = (wq \/ pc' = "hostOn")
    /\ UNCHANGED <<back, lock, plock, job, isr>>

\* dsi_display_ctrl_host_enable: the splash has it enabled.
HostEnable ==
    /\ Step("hostOn", IF hw.splash THEN {Good(hw)} ELSE HostEngine(hw, TRUE),
            "linkOn", "aHostDeinit")
    /\ UNCHANGED otherVars

\* A link that does not start keeps its vote.
LinkOn ==
    /\ Step("linkOn", Dsi(hw, {"link"}, TRUE), "panelPrepare", "aHostOff")
    /\ UNCHANGED otherVars

\* The soft reset and dsi_panel_prepare: power after LP-11, PRE_ON commands.
PanelPrepare ==
    LET Reset(g) == {Good(g), Failed(g, "softReset")}
        Power(g) == IF g.panel.lp11 THEN PanelPower(g) ELSE {Good(g)}
    IN  /\ PanelFree
        /\ Step("panelPrepare",
                IF hw.splash THEN {Good(hw)}
                ELSE Then(Then(Reset(hw), Power), Transfer),
                "enable", "aLinkOff")
        /\ lock' = IF pc' = "enable" THEN "none" ELSE lock
        /\ UNCHANGED <<back, plock, job, isr, wq>>

\* dsi_display_splash_res_cleanup: the result is that of the last call, which
\* takes back the vote for the power domain.
SplashCleanup(h) ==
    LET Vote(g) == {Good([g EXCEPT !.splash = FALSE]),
                    Failed([g EXCEPT !.splash = FALSE], "gdsc")}
    IN  IF h.splash THEN Then(Ignored(Dsi(h, Clock, FALSE)), Vote) ELSE {Good(h)}

\* The engine of the panel's mode.
EngineOn(h) == IF h.panel.cmdMode THEN CmdEngineOn(h) ELSE VidEngine(h, TRUE)

\* dsi_display_enable.  After the splash only the states are brought up to
\* date, under no lock; otherwise dsi_panel_enable sends the ON commands.  A
\* display that does not come on is unprepared.
DisplayEnable ==
    LET Ready(g) == {Good([g EXCEPT !.init = TRUE])}
    IN  /\ \/ /\ hw.splash
              /\ Step("enable", Then(Then(Ignored(EngineOn(hw)), SplashCleanup), Ready),
                      "preEnabled", "panelUnprepare")
              /\ back' = "preEnabled"
              /\ UNCHANGED lock
           \/ /\ ~hw.splash /\ lock = "none" /\ PanelFree
              /\ Step("enable", Then(Transfer(hw), Ready), "engineOn", "panelUnprepare")
              /\ lock' = IF pc' = "engineOn" THEN "drm" ELSE "none"
              /\ back' = "preEnabled"
        /\ UNCHANGED <<plock, job, isr, wq>>

\* dsi_panel_disable: the OFF commands may fail, or are not sent.
PanelOffCommands(h) ==
    {[r EXCEPT !.h.init = FALSE] : r \in Ignored(Transfer(h))}

EngineEnable ==
    /\ PanelFree
    /\ pc = "engineOn"
    /\ \E r \in EngineOn(hw) :
          IF r.ok THEN Takes(r) /\ pc' = "preEnabled"
          ELSE (\E q \in PanelOffCommands(r.h) : Takes(q)) /\ pc' = "panelUnprepare"
    /\ lock' = "none"
    /\ UNCHANGED <<back, plock, job, isr, wq>>

-----------------------------------------------------------------------------
(* dsi_bridge_enable and dsi_bridge_disable.                               *)

\* dsi_display_post_enable, whatever came before: POST_ON commands; a panel in
\* command mode gives its clocks back.
PostEnable ==
    LET Clocks(g) == IF g.panel.cmdMode THEN Ignored(Dsi(g, Clock, FALSE)) ELSE {Good(g)}
    IN  /\ lock = "none" /\ PanelFree
        /\ Step("preEnabled", Then(Ignored(Transfer(hw)), Clocks), "on", "on")
        /\ UNCHANGED otherVars

\* Mutated: command mode does not take its clocks back.
PreDisable_NoClocks ==
    /\ lock = "none" /\ PanelFree
    /\ Step("on", Ignored(Transfer(hw)), "preDisabled", "preDisabled")
    /\ UNCHANGED otherVars

\* dsi_display_pre_disable: the clocks of command mode, PRE_OFF commands.
PreDisable ==
    LET clocks == IF hw.panel.cmdMode THEN Ignored(Dsi(hw, Clock, TRUE)) ELSE {Good(hw)}
    IN  /\ lock = "none" /\ PanelFree
        /\ Step("on", Then(clocks, LAMBDA g : Ignored(Transfer(g))),
                "preDisabled", "preDisabled")
        /\ UNCHANGED otherVars

-----------------------------------------------------------------------------
(* dsi_bridge_post_disable: dsi_display_disable, dsi_display_unprepare.    *)

\* DRM has disabled the encoder, so the MDP holds no clock any more.
Disable ==
    LET engine == IF hw.panel.cmdMode THEN CmdEngineOff(hw) ELSE VidEngine(hw, FALSE)
    IN  /\ lock = "none"
        /\ hw.vote["mdp"] = [k \in Clock |-> 0]
        /\ Step("preDisabled", Ignored(engine), "panelDisable", "panelDisable")
        /\ lock' = "drm"
        /\ UNCHANGED <<back, plock, job, isr, wq>>

\* Mutated: the panel stays initialized.
PanelDisable_StaysInit ==
    /\ PanelFree
    /\ Step("panelDisable", Ignored(Transfer(hw)), "panelUnprepare", "panelUnprepare")
    /\ lock' = "none"
    /\ back' = "off"
    /\ UNCHANGED <<plock, job, isr, wq>>

PanelDisable ==
    /\ PanelFree
    /\ Step("panelDisable", PanelOffCommands(hw), "panelUnprepare", "panelUnprepare")
    /\ lock' = "none"
    /\ back' = "off"
    /\ UNCHANGED <<plock, job, isr, wq>>

\* POST_OFF commands, then the clock source (neither is looked at).
PanelUnprepare ==
    /\ lock = "none" /\ PanelFree
    /\ Step("panelUnprepare", Ignored(Transfer(hw)), "hostOff", "hostOff")
    /\ lock' = "drm"
    /\ UNCHANGED <<back, plock, job, isr, wq>>

\* Mutated: unprepare tries until the controller agrees.
HostDisable_Retries ==
    /\ \/ Step("hostOff", HostEngine(hw, FALSE), "linkOff", "hostOff")
       \/ Step("aHostOff", Ignored(HostEngine(hw, FALSE)), "aHostDeinit", "aHostDeinit")
    /\ UNCHANGED otherVars

\* dsi_display_ctrl_host_disable: with ULPS in suspend the controller is left
\* alone and only its state is updated, under the same check.
HostDisable ==
    /\ \/ Step("hostOff", Ignored(HostEngine(hw, FALSE)), "linkOff", "linkOff")
       \/ Step("aHostOff", Ignored(HostEngine(hw, FALSE)), "aHostDeinit", "aHostDeinit")
    /\ UNCHANGED otherVars

\* Mutated: for ULPS in suspend unprepare leaves the link on, as it does the PHY.
LinkOff_LeavesUlps ==
    /\ \/ Step("linkOff", IF hw.panel.ulpsSuspend THEN {Good(hw)}
                         ELSE Ignored(Dsi(hw, {"link"}, FALSE)), "hostDeinit", "hostDeinit")
       \/ Step("aLinkOff", Ignored(Dsi(hw, {"link"}, FALSE)), "aHostOff", "aHostOff")
    /\ UNCHANGED otherVars

LinkOff ==
    /\ \/ Step("linkOff", Ignored(Dsi(hw, {"link"}, FALSE)), "hostDeinit", "hostDeinit")
       \/ Step("aLinkOff", Ignored(Dsi(hw, {"link"}, FALSE)), "aHostOff", "aHostOff")
    /\ UNCHANGED otherVars

CtrlDeinit ==
    /\ \/ Step("hostDeinit", Ignored(HostDeinit(hw)), "phyOff", "phyOff")
       \/ Step("aHostDeinit", Ignored(HostDeinit(hw)), "aPhyOff", "aPhyOff")
    /\ UNCHANGED otherVars

\* dsi_display_phy_disable; unprepare leaves the PHY on for ULPS in suspend.
PhyDisable ==
    LET off == {Good(PhyEngineOff(hw))}
    IN  /\ \/ Step("phyOff", IF hw.panel.ulpsSuspend THEN {Good(hw)} ELSE off,
                   "coreOff", "coreOff")
           \/ Step("aPhyOff", off, "aCoreOff", "aCoreOff")
        /\ UNCHANGED otherVars

CoreOff ==
    /\ \/ Step("coreOff", Ignored(Dsi(hw, {"core"}, FALSE)), "panelOff", "panelOff")
       \/ Step("aCoreOff", Ignored(Dsi(hw, {"core"}, FALSE)), "aPanelOff", "aPanelOff")
    /\ UNCHANGED otherVars

\* dsi_panel_post_unprepare, after the interrupt handler is gone.  The ladder
\* of prepare ends here with handler, work queue and callbacks still there.
PanelOff ==
    /\ PanelFree
    /\ \/ /\ Step("panelOff", {Good(SupplyOff(hw, "panelPwr"))}, "unregister", "unregister")
          /\ isr' = FALSE
       \/ /\ Step("aPanelOff", {Good(SupplyOff(hw, "panelPwr"))}, "preEnabled", "preEnabled")
          /\ UNCHANGED isr
    /\ lock' = "none"
    /\ UNCHANGED <<back, plock, job, wq>>

\* dsi_display_unregister_error_handler: callbacks first; destroying the queue
\* waits for the work in it.
Unregister ==
    /\ pc = "unregister"
    /\ "recovery" \in Jobs => job["recovery"] = "idle"
    /\ wq' = FALSE
    /\ pc' = back
    /\ UNCHANGED <<hw, back, lock, plock, job, isr, clean, faults>>
-----------------------------------------------------------------------------
(* The other threads.                                                      *)

PanelJobs == {"esd", "backlight"} \cap Jobs    \* under panel->panel_lock
DisplayJobs == {"command", "recovery"} \cap Jobs \* under display->display_lock

\* The clocks a job asks for.
JobClocks(j) == IF j = "backlight" THEN {"core"} ELSE Clock

\* What a job finds under its lock before it does anything: an initialized
\* panel, or an initialized host; no recovery pending, for those that look.
MayRun(j) ==
    /\ IF j \in PanelJobs THEN hw.init ELSE hw.host
    /\ j \in {"esd", "command"} => ~hw.esd

\* Mutated: the ESD check does not take the panel's lock.
TakeLock_NoPanelLock(j) ==
    CASE j = "esd" -> UNCHANGED <<lock, plock>>
      [] j = "backlight" -> plock = "none" /\ plock' = j /\ UNCHANGED lock
      [] OTHER -> lock = "none" /\ lock' = j /\ UNCHANGED plock

TakeLock(j) ==
    IF j \in PanelJobs THEN plock = "none" /\ plock' = j /\ UNCHANGED lock
    ELSE lock = "none" /\ lock' = j /\ UNCHANGED plock

DropLock(j) ==
    IF j \in PanelJobs THEN plock' = "none" /\ UNCHANGED lock
    ELSE lock' = "none" /\ UNCHANGED plock

\* dsi_display_check_status, dsi_display_set_backlight, dsi_display_cmd_transfer
\* and the error work up to their clocks.  The backlight and a command give up
\* when the clocks do not start (and keep their vote); the others do not look.
JobStart(j) ==
    LET ask == Dsi(hw, JobClocks(j), TRUE)
    IN  /\ job[j] = IF j = "recovery" THEN "checked" ELSE "idle"
        /\ MayRun(j)
        /\ \E r \in IF j \in {"backlight", "command"} THEN ask ELSE Ignored(ask) :
              /\ Takes(r)
              /\ IF r.ok
                   THEN /\ TakeLock(j)
                        /\ job' = [job EXCEPT ![j] = "ready"]
                   ELSE UNCHANGED <<lock, plock, job>>
              /\ r.ok \/ (IF j \in PanelJobs THEN plock ELSE lock) = "none"
        /\ UNCHANGED <<pc, back, isr, wq>>

\* The error work looks for a pending recovery once, before it waits for the
\* lock.
RecoveryCheck ==
    /\ "recovery" \in Jobs
    /\ job["recovery"] = "queued"
    /\ job' = [job EXCEPT !["recovery"] = IF hw.esd THEN "idle" ELSE "checked"]
    /\ UNCHANGED <<hw, pc, back, lock, plock, isr, wq, clean, faults>>

\* With the lock it finds the host down.
RecoveryDropped ==
    /\ "recovery" \in Jobs
    /\ job["recovery"] = "checked"
    /\ lock = "none"
    /\ ~MayRun("recovery")
    /\ job' = [job EXCEPT !["recovery"] = "idle"]
    /\ UNCHANGED <<hw, pc, back, lock, plock, isr, wq, clean, faults>>

\* Only transfers need the command engine.
JobEngine(j) ==
    /\ job[j] = "ready"
    /\ \E r \in IF j \in {"esd", "command"} THEN CmdEngineOn(hw) ELSE {Good(hw)} :
          /\ Takes(r)
          /\ job' = [job EXCEPT ![j] = IF r.ok THEN "send"
                                      ELSE IF j = "esd" THEN "failed" ELSE "sent"]
    /\ UNCHANGED <<pc, back, lock, plock, isr, wq>>

\* What a job does with clocks and engine: a transfer, under the controller's
\* check, which the ESD check takes for passed on a host that is not initialized;
\* the backlight's level, which some panels take as a command of their own.
Work(j) ==
    CASE j = "recovery" \/ (j = "esd" /\ ~hw.host) -> {Good(hw)}
      [] j = "backlight" -> {Good(hw)} \cup Transfer(hw)
      [] OTHER -> IF Allowed(hw, "transfer", TRUE) THEN {Good(hw), Failed(hw, "command")}
                  ELSE {Refused(hw)}

\* The work, and the engine given back.
JobSend(j) ==
    LET sends == j \in {"esd", "command"}
    IN  /\ job[j] = "send"
        /\ \E r \in Work(j) :
             \E q \in IF sends THEN CmdEngineOff(r.h) ELSE {Good(r.h)} :
                /\ Takes([q EXCEPT !.hit = @ \cup r.hit])
                /\ job' = [job EXCEPT ![j] = IF j = "esd" /\ ~r.ok THEN "failed" ELSE "sent"]
        /\ UNCHANGED <<pc, back, lock, plock, isr, wq>>

\* Mutated: the clocks are given back only when all went well.
JobEnd_LeaksClocks(j) ==
    /\ job[j] \in {"sent", "failed"}
    /\ \E r \in IF job[j] = "failed" THEN {Good(hw)} ELSE Dsi(hw, JobClocks(j), FALSE) :
          Takes([r EXCEPT !.h.esd = @ \/ job[j] = "failed"])
    /\ DropLock(j)
    /\ job' = [job EXCEPT ![j] = "idle"]
    /\ UNCHANGED <<pc, back, isr, wq>>

\* The clocks and the lock are given back.  A failed ESD check asks for the
\* recovery, which stops all transfers until the next pre_enable.  The work queue
\* has one thread for the work of three kinds of errors: one that was reported
\* meanwhile is next.
JobEnd(j) ==
    /\ job[j] \in {"sent", "failed"}
    /\ \E r \in Dsi(hw, JobClocks(j), FALSE) :
          Takes([r EXCEPT !.h.esd = @ \/ job[j] = "failed"])
    /\ DropLock(j)
    /\ \E next \in IF j = "recovery" THEN {"idle", "queued"} ELSE {"idle"} :
          job' = [job EXCEPT ![j] = next]
    /\ UNCHANGED <<pc, back, isr, wq>>

\* The controller's interrupt reports a FIFO error: its callback queues the
\* work (dsi_display_cb_error_handler).
ErrorInterrupt ==
    /\ "recovery" \in Jobs
    /\ isr /\ wq /\ hw.core /\ hw.host
    /\ job["recovery"] = "idle"
    /\ job' = [job EXCEPT !["recovery"] = "queued"]
    /\ UNCHANGED <<hw, pc, back, lock, plock, isr, wq, clean, faults>>

\* The MDP votes while its encoder is enabled: after the bridge's pre_enable
\* and before its post_disable (dsi_display_clk_ctrl_cb).
MdpClocks ==
    /\ pc \in {"preEnabled", "on", "preDisabled"}
    /\ \E r \in Request(hw, "mdp", Clock, hw.vote["mdp"]["core"] = 0) : Takes(r)
    /\ UNCHANGED <<pc, back, lock, plock, job, isr, wq>>

-----------------------------------------------------------------------------
PreEnableSteps ==
    \/ PanelPrePrepare \/ CoreOn \/ PhyEnable \/ SetClkSrc \/ CtrlInit
    \/ HostEnable \/ LinkOn \/ PanelPrepare \/ DisplayEnable \/ EngineEnable

PostDisableSteps ==
    \/ PanelDisable \/ PanelUnprepare \/ HostDisable \/ LinkOff \/ CtrlDeinit
    \/ PhyDisable \/ CoreOff \/ PanelOff \/ Unregister

\* The steps of a call under way, and DRM's next call.
DrmStep == PreEnableSteps \/ PostDisableSteps
DrmCall == ContSplashConfig \/ PreEnable \/ PostEnable \/ PreDisable \/ Disable

JobStep(j) == JobEngine(j) \/ JobSend(j) \/ JobEnd(j)
WorkerRuns == RecoveryCheck \/ RecoveryDropped \/ \E j \in Jobs \cap {"recovery"} : JobStart(j)

Next ==
    \/ DrmStep \/ DrmCall
    \/ \E j \in Jobs : JobStart(j) \/ JobStep(j)
    \/ RecoveryCheck \/ RecoveryDropped \/ ErrorInterrupt \/ MdpClocks

Spec == Init /\ [][Next]_vars

\* A call under way goes on, and so does a job; a mutex reaches every waiter
\* (strong fairness); the work queue runs what is queued.  DRM may stop making
\* calls, and no job has to start.
FairSpec ==
    /\ Spec
    /\ SF_vars(DrmStep)
    /\ \A j \in Jobs : WF_vars(JobStep(j))
    /\ SF_vars(WorkerRuns)

-----------------------------------------------------------------------------
(* Properties.                                                             *)

\* A transfer on its way has all it needs: power, host, command engine and
\* both clocks, whatever the DRM thread, the MDP and the other threads do
\* meanwhile (dsi_ctrl_check_state refuses one that has not, dsi_ctrl.c:341).
TransfersAreFed ==
    \A j \in Jobs \cap {"esd", "command"} :
        job[j] = "send" => hw.power /\ hw.host /\ hw.cmd /\ hw.core /\ hw.link

\* A display that DRM has switched off holds nothing: no vote, no supply, no
\* engine, no interrupt handler and no error work queue, which the next prepare
\* would replace by another one, whatever failed on the way on or off
\* (dsi_display_unprepare and the ladder of dsi_display_prepare).  Only ULPS
\* in suspend keeps the PHY, its supply and the lanes.
BlankReleases ==
    pc = "off" /\ ~hw.splash =>
        /\ \A c \in Client, k \in Clock : hw.vote[c][k] = 0
        /\ \A s \in Supply \ {"phyPwr"} : hw.sup[s].ref = 0
        /\ hw.sup["phyPwr"].ref > 0 => hw.panel.ulpsSuspend
        /\ ~hw.power /\ ~hw.host /\ ~hw.engine /\ ~hw.vid /\ ~hw.cmd
        /\ hw.cmdRef = 0 /\ ~hw.init
        /\ ~isr /\ ~wq

\* The counts of the supplies fit the states that take them at every step:
\* no regulator is lost to an order of power and PHY calls nobody thought of
\* (dsi_ctrl_enable_supplies, dsi_phy_set_power_state), and an initialized host
\* keeps its supply while its clocks come and go: "Their state should not be
\* changed during static screen" (dsi_display.c:3455).
SuppliesMatch ==
    /\ hw.sup["digital"].ref = IF hw.power THEN 1 ELSE 0
    /\ hw.sup["hostPwr"].ref = IF hw.power \/ hw.host THEN 1 ELSE 0
    /\ hw.sup["phyDigital"].ref = IF hw.phyPower THEN 1 ELSE 0
    /\ hw.sup["phyPwr"].ref = IF hw.phyPower \/ hw.phyEngine THEN 1 ELSE 0
    /\ \A s \in Supply : hw.sup[s].on <=> hw.sup[s].ref > 0

\* After any failures the next attempt that meets none brings the display up:
\* nothing an earlier attempt left behind stands in its way.
NextAttemptWorks ==
    pc = "on" /\ clean =>
        /\ hw.init /\ hw.host /\ hw.engine /\ hw.sup["panelPwr"].on /\ isr /\ wq
        /\ IF hw.panel.cmdMode THEN hw.cmd /\ hw.cmdRef > 0
           ELSE hw.vid /\ hw.power /\ hw.core /\ hw.link

\* The lanes of a running link are out of ULPS, and the flag tells the truth
\* about them whenever the link runs (dsi_post_clkon_cb).
LanesAwake == hw.link => ~hw.lanes /\ ~hw.ulps

\* Each client holds the link clocks within the core clocks, and no more often:
\* the splash, dsi_display_prepare with its ladder, unprepare, the bridge's
\* pre-disable of command mode and the jobs give back together what they took
\* together.  The clock manager leaves that to its callers (its model says so as
\* CallerNests), and stops the core clocks under running link clocks otherwise.
CallersNest ==
    \A c \in Client : hw.vote[c]["link"] <= hw.vote[c]["core"]

\* Every call DRM makes returns: a thread that waits for a lock, or unprepare
\* for the work queue to drain, gets it.
CallsReturn == pc \in Moving ~> pc \in Rest
=============================================================================
