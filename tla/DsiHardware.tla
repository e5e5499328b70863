----------------------------- MODULE DsiHardware -----------------------------
(***************************************************************************)
(* The DSI controller, its PHY, their supplies and the clock votes, as the *)
(* display driver sees them: dsi_ctrl.c, dsi_phy.c, dsi_pwr.c and the      *)
(* clock callbacks of dsi_display.c, for a display of one controller (as   *)
(* the device trees of this repository describe it) whose controller       *)
(* drives ULPS (controller v2.3, PHY v2.0).                                *)
(*                                                                         *)
(* The state is one record h.  A call is an operator from h to the set of  *)
(* its outcomes [h, ok, hit]: the state it leaves, whether it returns 0,   *)
(* and the calls outside the driver that failed on the way.  A module that *)
(* uses this one picks an outcome in each step.                            *)
(*                                                                         *)
(* The PHY's regulator_required is left out: dsi_phy_set_clk_freq          *)
(* (dsi_phy.c:1102) sets it for good when the display is bound, before any *)
(* call here.  So is a regulator that fails to switch off (dsi_pwr.c:380): *)
(* its count goes down all the same.                                       *)
(***************************************************************************)
EXTENDS Naturals, FiniteSets

CONSTANT MaxVote      \* bound on one client's votes for one clock

Client == {"dsi", "mdp"}
Clock == {"core", "link"}
Supply == {"digital", "hostPwr", "phyDigital", "phyPwr", "panelPwr"}

\* How the panel is described: command or video mode, powered up after LP-11,
\* ULPS on idle and in suspend, and whether the PHY may go off when idle.
Panel == [cmdMode : BOOLEAN, lp11 : BOOLEAN, ulps : BOOLEAN,
          ulpsSuspend : BOOLEAN, idleOff : BOOLEAN]

Hardware ==
    [panel : Panel,
     vote : [Client -> [Clock -> 0..MaxVote]],
     core : BOOLEAN, link : BOOLEAN,          \* what the clock manager runs
     sup : [Supply -> [ref : Nat, on : BOOLEAN]],
     power : BOOLEAN,                         \* dsi_ctrl.current_state
     host : BOOLEAN,                          \*   host_initialized
     engine : BOOLEAN,                        \*   controller_state
     vid : BOOLEAN, cmd : BOOLEAN,            \*   vid/cmd_engine_state
     cmdRef : Nat,                            \* display->cmd_engine_refcount
     phyPower : BOOLEAN, phyEngine : BOOLEAN, \* dsi_phy.power_state, dsi_phy_state
     idle : BOOLEAN,                          \* display->phy_idle_power_off
     clamp : BOOLEAN, ulps : BOOLEAN,         \* display->clamp/ulps_enabled
     lanes : BOOLEAN,                         \* the controller's lanes are in ULPS
     init : BOOLEAN,                          \* panel->panel_initialized
     esd : BOOLEAN,                           \* panel->esd_recovery_pending
     splash : BOOLEAN]                        \* display->is_cont_splash_enabled

\* The zeroed driver data of a display with panel p.
Cold(p) ==
    [panel |-> p,
     vote |-> [c \in Client |-> [k \in Clock |-> 0]],
     core |-> FALSE, link |-> FALSE,
     sup |-> [s \in Supply |-> [ref |-> 0, on |-> FALSE]],
     power |-> FALSE, host |-> FALSE, engine |-> FALSE, vid |-> FALSE,
     cmd |-> FALSE, cmdRef |-> 0, phyPower |-> FALSE, phyEngine |-> FALSE,
     idle |-> FALSE, clamp |-> FALSE, ulps |-> FALSE, lanes |-> FALSE,
     init |-> FALSE, esd |-> FALSE, splash |-> FALSE]

-----------------------------------------------------------------------------
(* Outcomes.                                                               *)

Good(h) == [h |-> h, ok |-> TRUE, hit |-> {}]
Refused(h) == [h |-> h, ok |-> FALSE, hit |-> {}]
Failed(h, f) == [h |-> h, ok |-> FALSE, hit |-> {f}]

\* The outcomes of a call followed, if it succeeds, by the call Op.
Then(outcomes, Op(_)) ==
    {r \in outcomes : ~r.ok}
      \cup UNION {{[q EXCEPT !.hit = @ \cup r.hit] : q \in Op(r.h)}
                    : r \in {r \in outcomes : r.ok}}

\* Its caller does not look at the result.
Ignored(outcomes) == {[r EXCEPT !.ok = TRUE] : r \in outcomes}

-----------------------------------------------------------------------------
(* dsi_pwr_enable_regulator: the count goes up whether or not the          *)
(* regulators could be enabled; a release of nothing is only logged.       *)

SupplyOn(h, s) ==
    {Good([h EXCEPT !.sup[s] = [ref |-> @.ref + 1, on |-> @.on \/ @.ref = 0]])}
      \cup (IF h.sup[s].ref = 0
              THEN {Failed([h EXCEPT !.sup[s].ref = 1], s)} ELSE {})

SupplyOff(h, s) ==
    [h EXCEPT !.sup[s] =
        IF @.ref = 0 THEN @ ELSE [ref |-> @.ref - 1, on |-> @.on /\ @.ref > 1]]

-----------------------------------------------------------------------------
(* The controller.                                                         *)

\* dsi_ctrl_check_state: whether the state admits the operation.
Allowed(h, op, on) ==
    CASE op = "power" -> h.power # on /\ (on \/ ~h.vid)
      [] op = "init" -> h.host # on /\ h.power
      [] op = "host" -> h.engine # on /\ h.power /\ (on \/ ~(h.cmd \/ h.vid))
      [] op = "cmd" -> h.cmd # on /\ h.power /\ h.engine
      [] op = "vid" -> h.vid # on /\ h.power /\ h.engine
      [] op = "transfer" -> h.power /\ h.host /\ h.cmd
      [] op = "phyReset" -> h.power

\* dsi_ctrl_enable_supplies.  An initialized host keeps its supply, so only the
\* first power-on takes it.
CtrlSuppliesOn(h) ==
    LET Digital(g) ==
            {IF r.ok THEN r ELSE [r EXCEPT !.h = SupplyOff(@, "hostPwr")]
                : r \in SupplyOn(g, "digital")}
    IN  Then(IF h.host THEN {Good(h)} ELSE SupplyOn(h, "hostPwr"), Digital)

CtrlSuppliesOff(h) ==
    LET off == SupplyOff(h, "digital")
    IN  IF h.host THEN off ELSE SupplyOff(off, "hostPwr")

\* dsi_ctrl_set_power_state.  The controller comes back from a power collapse
\* out of ULPS.
CtrlPowerOn(h) ==
    LET Done(g) == {Good([g EXCEPT !.power = TRUE])}
    IN  IF Allowed(h, "power", TRUE) THEN Then(CtrlSuppliesOn(h), Done) ELSE {Refused(h)}

\* Mutated: the host supply goes with every power-off.
CtrlPowerOff_DropsHost(h) ==
    IF Allowed(h, "power", FALSE)
      THEN {Good([SupplyOff(SupplyOff(h, "digital"), "hostPwr")
                    EXCEPT !.power = FALSE, !.lanes = FALSE])}
      ELSE {Refused(h)}

CtrlPowerOff(h) ==
    IF Allowed(h, "power", FALSE)
      THEN {Good([CtrlSuppliesOff(h) EXCEPT !.power = FALSE, !.lanes = FALSE])}
      ELSE {Refused(h)}

\* The host, its engine and the two engines behind it.
HostInit(h) ==
    IF Allowed(h, "init", TRUE) THEN {Good([h EXCEPT !.host = TRUE])} ELSE {Refused(h)}

HostDeinit(h) ==
    IF Allowed(h, "init", FALSE) THEN {Good([h EXCEPT !.host = FALSE])} ELSE {Refused(h)}

HostEngine(h, on) ==
    IF Allowed(h, "host", on) THEN {Good([h EXCEPT !.engine = on])} ELSE {Refused(h)}

VidEngine(h, on) ==
    IF Allowed(h, "vid", on) THEN {Good([h EXCEPT !.vid = on])} ELSE {Refused(h)}

CmdEngine(h, on) ==
    IF Allowed(h, "cmd", on) THEN {Good([h EXCEPT !.cmd = on])} ELSE {Refused(h)}

\* dsi_display_cmd_engine_enable: counted, under the controller's lock.
CmdEngineOn(h) ==
    IF h.cmdRef > 0 THEN {Good([h EXCEPT !.cmdRef = @ + 1])}
    ELSE Then(CmdEngine(h, TRUE), LAMBDA g : {Good([g EXCEPT !.cmdRef = 1])})

\* dsi_display_cmd_engine_disable: the count ends at 0 even when the
\* controller refuses.
CmdEngineOff(h) ==
    CASE h.cmdRef = 0 -> {Good(h)}
      [] h.cmdRef > 1 -> {Good([h EXCEPT !.cmdRef = @ - 1])}
      [] h.cmdRef = 1 -> CmdEngine([h EXCEPT !.cmdRef = 0], FALSE)

-----------------------------------------------------------------------------
(* The PHY.                                                                *)

\* dsi_phy_set_power_state: the PHY supply is taken and given back only while
\* the PHY is not enabled.  A power-on that is already there succeeds.
PhyPowerOn(h) ==
    LET Pwr(g) ==
            IF g.phyEngine THEN {Good(g)}
            ELSE {IF r.ok THEN r ELSE [r EXCEPT !.h = SupplyOff(@, "phyDigital")]
                    : r \in SupplyOn(g, "phyPwr")}
        Done(g) == {Good([g EXCEPT !.phyPower = TRUE])}
    IN  IF h.phyPower THEN {Good(h)}
        ELSE Then(Then(SupplyOn(h, "phyDigital"), Pwr), Done)

PhyPowerOff(h) ==
    IF ~h.phyPower THEN h
    ELSE [SupplyOff(IF h.phyEngine THEN h ELSE SupplyOff(h, "phyPwr"), "phyDigital")
            EXCEPT !.phyPower = FALSE]

\* dsi_display_phy_sw_reset: the splash has done it.
PhyReset(h) ==
    IF h.splash \/ Allowed(h, "phyReset", TRUE) THEN {Good(h)} ELSE {Refused(h)}

\* dsi_phy_enable: the calculation of the timing can fail.
PhyEngineOn(h) == {Good([h EXCEPT !.phyEngine = TRUE]), Failed(h, "phy")}
PhyEngineOff(h) == [h EXCEPT !.phyEngine = FALSE]

\* Skipped by a prepare that resumes from a suspend in ULPS.
PhyUp(h) ==
    IF h.panel.ulpsSuspend /\ h.ulps THEN {Good(h)} ELSE Then(PhyReset(h), PhyEngineOn)

\* dsi_display_phy_idle_on and off: a PHY that was only clamped is enabled
\* again, and a failure of that is not looked at.
PhyIdleOn(h) ==
    CASE h.idle -> {Good([h EXCEPT !.phyEngine = TRUE, !.idle = FALSE])}
      [] h.clamp /\ ~h.idle -> Ignored(PhyEngineOn(h))
      [] OTHER -> {Good(h)}

PhyIdleOff(h) ==
    IF h.panel.idleOff THEN [h EXCEPT !.phyEngine = FALSE, !.idle = TRUE] ELSE h

\* dsi_display_set_clamp.
Clamp(h, on) == [h EXCEPT !.clamp = on]

-----------------------------------------------------------------------------
(* ULPS and the clock callbacks.                                           *)

\* dsi_display_is_ulps_req_valid.
UlpsWanted(h, on) ==
    /\ ~h.esd
    /\ h.panel.ulps \/ h.panel.ulpsSuspend
    /\ h.init \/ h.panel.ulpsSuspend
    /\ h.ulps # on
    /\ ~(on /\ h.splash)

\* dsi_enable_ulps and dsi_disable_ulps: the lanes may not follow.  Only lanes
\* that are in ULPS are taken out of it.
LanesUlps(h, on) ==
    {Good([h EXCEPT !.lanes = on])}
      \cup (IF on \/ h.lanes THEN {Failed(h, "ulps")} ELSE {})

\* dsi_display_set_ulps: the flag follows the lanes, at the end.
SetUlps(h, on) ==
    IF UlpsWanted(h, on)
      THEN Then(LanesUlps(h, on), LAMBDA g : {Good([g EXCEPT !.ulps = on])})
      ELSE {Good(h)}

\* dsi_pre_clkon_cb powers the controller and then the PHY before the core
\* clocks start.  A PHY that fails leaves the controller on.
CoreUp(h) ==
    LET Run(g) == {Good([g EXCEPT !.core = TRUE])}
    IN  Then(Then(CtrlPowerOn(h), PhyPowerOn), Run)

\* Mutated: lanes that were in ULPS before the collapse are not put back.
LinkUp_NoReentry(h) ==
    LET Lp(g) == {Good(Clamp(g, FALSE))}
        Hs(g) == IF g.ulps /\ g.lanes THEN SetUlps(g, FALSE) ELSE {Good(g)}
        Run(g) == {Good([g EXCEPT !.link = TRUE])}
    IN  Then(Then(Then(Then({Good(h), Failed(h, "link")}, PhyIdleOn), Lp), Hs), Run)

\* The LP clocks, the way out of idle (dsi_post_clkon_cb: PHY, ULPS re-entry,
\* clamps), the HS clocks, the way out of ULPS.
LinkUp(h) ==
    LET Reenter(g) == IF g.ulps /\ g.clamp
                        THEN SetUlps([g EXCEPT !.ulps = FALSE], TRUE) ELSE {Good(g)}
        Unclamp(g) == {Good(Clamp(g, FALSE))}
        Leave(g) == IF g.ulps THEN SetUlps(g, FALSE) ELSE {Good(g)}
        Run(g) == {Good([g EXCEPT !.link = TRUE])}
    IN  Then(Then(Then(Then(Then({Good(h), Failed(h, "link")}, PhyIdleOn), Reenter),
                       Unclamp), Leave), Run)

\* dsi_pre_clkoff_cb for the LP clocks: ULPS when idle, or in suspend if asked
\* for.
LinkDown(h) ==
    LET enter == IF h.init THEN h.panel.ulps ELSE h.panel.ulpsSuspend
    IN  {[r EXCEPT !.h.link = FALSE] :
            r \in Ignored(IF enter THEN SetUlps(h, TRUE) ELSE {Good(h)})}

\* dsi_pre_clkoff_cb: clamps when idle or suspended in ULPS, else out of ULPS;
\* dsi_post_clkoff_cb: the PHY and the controller lose their power.
CoreDown(h) ==
    LET park == h.init \/ h.panel.ulpsSuspend
        before == IF park THEN {Good(Clamp(PhyIdleOff(h), TRUE))}
                          ELSE Ignored(SetUlps(h, FALSE))
        After(g) == {[r EXCEPT !.h.core = FALSE] : r \in CtrlPowerOff(PhyPowerOff(g))}
    IN  Then(before, After)

-----------------------------------------------------------------------------
(* dsi_display_clk_ctrl: votes, and the clocks they ask for.               *)

Voted(h, k) == \E c \in Client : h.vote[c][k] > 0

\* dsi_recheck_clk_state and dsi_update_clk_state (DsiClkManager has them step
\* by step): core clocks up, link clocks, core clocks down.
Recheck(h) ==
    LET Link(g) == CASE Voted(g, "link") /\ ~g.link -> LinkUp(g)
                     [] ~Voted(g, "link") /\ g.link -> LinkDown(g)
                     [] OTHER -> {Good(g)}
        Core(g) == IF ~Voted(g, "core") /\ g.core THEN CoreDown(g) ELSE {Good(g)}
    IN  Then(Then(IF Voted(h, "core") /\ ~h.core THEN CoreUp(h) ELSE {Good(h)}, Link),
             Core)

\* Client c asks for the clocks ks.  Only a vote that changes is acted upon,
\* and it stays when that fails.
Request(h, c, ks, on) ==
    LET new == [k \in Clock |->
                  IF k \notin ks THEN h.vote[c][k]
                  ELSE IF on THEN h.vote[c][k] + 1
                  ELSE IF h.vote[c][k] = 0 THEN 0 ELSE h.vote[c][k] - 1]
        g == [h EXCEPT !.vote[c] = new]
    IN  IF \E k \in ks : (new[k] > 0) # (h.vote[c][k] > 0)
          THEN Recheck(g) ELSE {Good(g)}

\* dsi_host_transfer, a command of the panel: all clocks, the command engine,
\* the transfer, and back.  Nothing is sent while ESD recovery is pending.
Transfer(h) ==
    LET Send(g) == IF Allowed(g, "transfer", TRUE)
                     THEN {Good(g), Failed(g, "command")} ELSE {Refused(g)}
        \* the engine and the clocks are given back, the first error returned
        Back(rs, Op(_)) == UNION {{[q EXCEPT !.ok = r.ok, !.hit = @ \cup r.hit]
                                     : q \in Op(r.h)} : r \in rs}
        Release(g) == Request(g, "dsi", Clock, FALSE)
        Engine(g) == LET up == CmdEngineOn(g)
                     IN  Back({r \in up : ~r.ok}
                                \cup Back(Then(up, Send), CmdEngineOff), Release)
    IN  IF h.esd THEN {Good(h)} ELSE Then(Request(h, "dsi", Clock, TRUE), Engine)
=============================================================================
