---------------------------- MODULE DsiClkManager ----------------------------
(***************************************************************************)
(* The DSI clock manager (drivers/dsi-staging/dsi_clk_manager.c).          *)
(*                                                                         *)
(* Clients vote for the core and the link clocks of one display.  The      *)
(* manager keeps a reference count and a vote per client, reduces the      *)
(* votes to one state per clock domain, and moves the clocks of every DSI  *)
(* controller to that state.  A call holds clk_mutex from its first test   *)
(* to its return; here pc # "idle" says that the mutex is held, and every  *)
(* call made on the clock and power frameworks is a step, so that the      *)
(* hardware is visible in the middle of a transition and each call that    *)
(* can fail fails on its own.                                              *)
(***************************************************************************)
EXTENDS Integers, FiniteSets

CONSTANTS
    Client,     \* the client handles the display driver registers
    NoClient,   \* stands for "no client"
    Ctrl,       \* the DSI controllers of the display (dsi_ctrl_count of them)
    Master,     \* the controller that sources the clock (master_ndx)
    ReqStates,  \* the states clients ask for
    MaxRef,     \* bound on a reference count
    MaxDebt,    \* bound on the enables given back beyond those held
    Faults,     \* the calls of the environment that may fail
    MaxFaults   \* bound on the failures of one behaviour

ClkState == {"OFF", "ON", "EARLY_GATE"}
Domain == {"core", "link"}

\* What one controller has to hand back: its vote on the shared power
\* resource, its core clocks, the prepare and enable counts of the escape
\* (LP) clock, and its byte and pixel (HS) clocks.
Kind == {"power", "core", "escPrep", "esc", "hs"}
FaultPoint == {"pre_clkon_cb", "core_start", "lp_start", "hs_start",
               "post_clkon_cb", "core_stop", "post_clkoff_cb"}

ASSUME ClientsAssumption == IsFiniteSet(Client) /\ NoClient \notin Client
ASSUME CtrlAssumption == IsFiniteSet(Ctrl) /\ Master \in Ctrl
ASSUME BoundsAssumption == MaxRef \in Nat \ {0} /\ MaxDebt \in Nat /\ MaxFaults \in Nat
ASSUME StatesAssumption == ReqStates \subseteq ClkState
ASSUME FaultsAssumption == Faults \subseteq FaultPoint

VARIABLES
    alive,    \* the manager exists (between register and deregister)
    clients,  \* mngr->client_list
    ref,      \* ref[d][c]: core_refcount and link_refcount of client c
    vote,     \* vote[d][c]: core_clk_state and link_clk_state of client c
    mgr,      \* mngr->core_clk_state and mngr->link_clk_state
    en,       \* en[k][i]: enables minus disables of kind k on controller i
    pc,       \* where the call that holds clk_mutex stands
    op,       \* which call that is
    by,       \* the client it is made for
    want,     \* the new state per domain; "same" where no change is needed
    lcOn,     \* l_c_on of dsi_update_clk_state
    done,     \* the controllers the current loop has been through
    rc,       \* the return code so far
    faults,   \* how many calls have failed
    failed    \* which ones they were

vars == <<alive, clients, ref, vote, mgr, en, pc, op, by, want, lcOn, done,
          rc, faults, failed>>
faultVars == <<faults, failed>>
callVars == <<op, by, want>>
voteVars == <<alive, clients, ref, vote>>

CoreOnPc == {"coreOn", "ecgOn", "ecgCoreOn"}
CoreOffPc == {"coreOff", "ecgOff"}
LinkOnPc == {"lpOn", "hsOn", "forceOn"}
LinkOffPc == {"hsOff", "lpOff", "forceOff"}
Pc == {"idle", "preOn", "ret"} \cup CoreOnPc \cup CoreOffPc
        \cup LinkOnPc \cup LinkOffPc

TypeOK ==
    /\ alive \in BOOLEAN
    /\ clients \in SUBSET Client
    /\ ref \in [Domain -> [Client -> 0..MaxRef]]
    /\ vote \in [Domain -> [Client -> ClkState]]
    /\ mgr \in [Domain -> ClkState]
    /\ en \in [Kind -> [Ctrl -> Int]]
    /\ pc \in Pc
    /\ op \in {"none", "req", "force", "dereg", "destroy"}
    /\ by \in Client \cup {NoClient}
    /\ want \in [Domain -> ClkState \cup {"same"}]
    /\ lcOn \in BOOLEAN
    /\ done \in SUBSET Ctrl
    /\ rc \in {0, -1}
    /\ faults \in 0..MaxFaults
    /\ failed \in SUBSET FaultPoint

AllOff == [d \in Domain |-> "OFF"]
NoWant == [d \in Domain |-> "same"]

Init ==
    /\ alive = FALSE
    /\ clients = {}
    /\ ref = [d \in Domain |-> [c \in Client |-> 0]]
    /\ vote = [d \in Domain |-> [c \in Client |-> "OFF"]]
    /\ mgr = AllOff
    /\ en = [k \in Kind |-> [i \in Ctrl |-> 0]]
    /\ pc = "idle"
    /\ op = "none"
    /\ by = NoClient
    /\ want = NoWant
    /\ lcOn = FALSE
    /\ done = {}
    /\ rc = 0
    /\ faults = 0
    /\ failed = {}

-----------------------------------------------------------------------------
(* The decision: from the votes to the first step of the transition.       *)

\* Mutated: a client that is OFF wins over one that is ON.
Aggregate_OffWins(v, list) ==
    IF \E c \in list : v[c] = "OFF" THEN "OFF"
    ELSE IF \E c \in list : v[c] = "ON" THEN "ON" ELSE "OFF"

\* dsi_recheck_clk_state: ON if any client is ON, else EARLY_GATE if any
\* client is, else OFF.
Aggregate(v, list) ==
    IF \E c \in list : v[c] = "ON" THEN "ON"
    ELSE IF \E c \in list : v[c] = "EARLY_GATE" THEN "EARLY_GATE"
    ELSE "OFF"

Wanted(v, list) ==
    [d \in Domain |-> LET new == Aggregate(v[d], list)
                      IN  IF new = mgr[d] THEN "same" ELSE new]

\* Mutated: l_c_on is not looked at.
CorePart_AlwaysStart(w, core, lc) ==
    CASE w["core"] \in {"same", "ON"} -> "ret"
      [] w["core"] = "OFF" /\ core = "EARLY_GATE" -> "ecgCoreOn"
      [] OTHER -> "coreOff"

\* Core clocks stop last; a core that goes from EARLY_GATE to OFF is started
\* first, unless the link part has left it on.
CorePart(w, core, lc) ==
    CASE w["core"] \in {"same", "ON"} -> "ret"
      [] w["core"] = "OFF" /\ core = "EARLY_GATE" /\ ~lc -> "ecgCoreOn"
      [] OTHER -> "coreOff"

\* Then the link clocks; the core state is the one the first part has left.
LinkPart(w, core) ==
    CASE w["link"] = "same" -> CorePart(w, core, FALSE)
      [] w["link"] = "ON" -> "lpOn"
      [] w["link"] = "OFF" /\ mgr["link"] = "EARLY_GATE" /\ core # "ON" -> "ecgOn"
      [] OTHER -> "hsOff"

\* Mutated: core clocks are stopped before the link clocks that need them.
FirstPart_CoreStopsFirst(w) ==
    CASE w["core"] = "OFF" -> "coreOff"
      [] w["core"] = "same" -> LinkPart(w, mgr["core"])
      [] OTHER -> "preOn"

\* Core clocks start first, after pre_clkon_cb when they were OFF.
FirstPart(w) ==
    IF w["core"] = "ON" THEN (IF mgr["core"] = "OFF" THEN "preOn" ELSE "coreOn")
    ELSE LinkPart(w, mgr["core"])

\* The call o for client c takes clk_mutex and rechecks the votes v of list.
Recheck(o, c, v, list) ==
    LET w == Wanted(v, list)
    IN  /\ op' = o
        /\ by' = c
        /\ want' = w
        /\ pc' = FirstPart(w)

-----------------------------------------------------------------------------
(* The calls.                                                              *)

\* dsi_display_clk_mngr_register: a zeroed manager with no client.
MngrRegister ==
    /\ ~alive
    /\ alive' = TRUE
    /\ UNCHANGED <<clients, ref, vote, mgr, en, pc, op, by, want, lcOn, done,
                   rc, faultVars>>

\* dsi_register_clk_handle: a zeroed client joins the list.
Register(c) ==
    /\ alive /\ pc = "idle"
    /\ c \notin clients
    /\ clients' = clients \cup {c}
    /\ ref' = [d \in Domain |-> [ref[d] EXCEPT ![c] = 0]]
    /\ vote' = [d \in Domain |-> [vote[d] EXCEPT ![c] = "OFF"]]
    /\ UNCHANGED <<alive, mgr, en, pc, op, by, want, lcOn, done, rc, faultVars>>

\* Mutated: a release without a vote is counted.
NewRef_NoFloor(r, s) == IF s = "ON" THEN r + 1 ELSE r - 1

NewRef(r, s) ==
    IF s = "ON" THEN r + 1 ELSE IF r = 0 THEN 0 ELSE r - 1

NewVote(r, v, s) ==
    CASE s = "ON" -> "ON"
      [] s # "ON" /\ r = 0 ->
            IF v = "EARLY_GATE" /\ s = "OFF" THEN "OFF" ELSE v
      [] s # "ON" /\ r = 1 -> s
      [] OTHER -> v

\* Mutated: the count is tested before it is incremented.
Changed_SecondOn(r, v, s) == r = 1

Changed(r, v, s) ==
    IF s = "ON" THEN v # "ON"
    ELSE r = 1 \/ (r = 0 /\ v = "EARLY_GATE" /\ s = "OFF")

\* How the display driver calls the manager: a client takes link clocks only
\* under core clocks and gives core clocks back last (nested pairs), and may
\* release more often than it acquired (the error paths do).
CallerNests(c, clk, s) ==
    /\ s = "ON" => \A d \in clk : ref[d][c] < MaxRef
    /\ LET core == IF "core" \in clk THEN NewRef(ref["core"][c], s)
                                     ELSE ref["core"][c]
           link == IF "link" \in clk THEN NewRef(ref["link"][c], s)
                                     ELSE ref["link"][c]
       IN  link <= core

\* A client whose deregistration failed stays in the list without its votes;
\* nobody uses it again.
Usable(c) == \A d \in Domain : ref[d][c] > 0 => vote[d][c] # "OFF"

\* Leaving EARLY_GATE for OFF gives link clocks back twice; MaxDebt bounds how
\* often (it matters to runs in which clients ask for EARLY_GATE only).
DebtBounded(s) == s = "EARLY_GATE" => \A k \in Kind, i \in Ctrl : en[k][i] >= -MaxDebt

\* dsi_clk_req_state.  A request that changes no vote returns at once.
Req(c, clk, s) ==
    /\ alive /\ pc = "idle"
    /\ c \in clients /\ Usable(c)
    /\ CallerNests(c, clk, s) /\ DebtBounded(s)
    /\ ref' = [d \in Domain |->
                 IF d \in clk THEN [ref[d] EXCEPT ![c] = NewRef(@, s)]
                              ELSE ref[d]]
    /\ vote' = [d \in Domain |->
                 IF d \in clk
                   THEN [vote[d] EXCEPT ![c] = NewVote(ref[d][c], @, s)]
                   ELSE vote[d]]
    /\ IF \E d \in clk : Changed(ref[d][c], vote[d][c], s)
         THEN Recheck("req", c, vote', clients)
         ELSE UNCHANGED <<pc, op, by, want>>
    /\ UNCHANGED <<alive, clients, mgr, en, lcOn, done, rc, faultVars>>

\* Mutated: the client goes without a recheck.
Deregister_NoRecheck(c) ==
    /\ alive /\ pc = "idle"
    /\ c \in clients /\ Usable(c)
    /\ clients' = clients \ {c}
    /\ vote' = [d \in Domain |-> [vote[d] EXCEPT ![c] = "OFF"]]
    /\ UNCHANGED <<alive, ref, mgr, en, pc, op, by, want, lcOn, done, rc, faultVars>>

\* dsi_deregister_clk_handle: both votes go, the counts stay; the client
\* leaves the list only when the recheck succeeds (Return).
Deregister(c) ==
    /\ alive /\ pc = "idle"
    /\ c \in clients /\ Usable(c)
    /\ vote' = [d \in Domain |-> [vote[d] EXCEPT ![c] = "OFF"]]
    /\ Recheck("dereg", c, vote', clients)
    /\ UNCHANGED <<alive, clients, ref, mgr, en, lcOn, done, rc, faultVars>>

\* dsi_display_clk_mngr_deregister: every client is dropped, then the votes
\* that are left (none) are rechecked and the manager is freed (Return).
MngrDeregister ==
    /\ alive /\ pc = "idle"
    /\ clients' = {}
    /\ Recheck("destroy", NoClient, vote, {})
    /\ UNCHANGED <<alive, ref, vote, mgr, en, lcOn, done, rc, faultVars>>

\* Mutated: the clocks are restarted whatever their state.
ForceUpdate_Always(c) ==
    /\ alive /\ pc = "idle"
    /\ c \in clients /\ Usable(c)
    /\ op' = "force"
    /\ by' = c
    /\ pc' = "forceOff"
    /\ UNCHANGED <<alive, clients, ref, vote, mgr, en, want, lcOn, done, rc,
                   faultVars>>

\* dsi_display_link_clk_force_update: the link clocks stop and start again at
\* the rates set meanwhile; nothing happens (-EAGAIN) when they are OFF.
ForceUpdate(c) ==
    /\ alive /\ pc = "idle"
    /\ c \in clients /\ Usable(c)
    /\ mgr["link"] # "OFF"
    /\ op' = "force"
    /\ by' = c
    /\ pc' = "forceOff"
    /\ UNCHANGED <<alive, clients, ref, vote, mgr, en, want, lcOn, done, rc,
                   faultVars>>

-----------------------------------------------------------------------------
(* The steps of the call that holds clk_mutex.                             *)

CanFail(f) == f \in Faults /\ faults < MaxFaults

\* Mutated: the error code is lost on the way out.
Fail_Lost(f) ==
    /\ CanFail(f)
    /\ faults' = faults + 1
    /\ failed' = failed \cup {f}
    /\ rc' = 0

Fail(f) ==
    /\ CanFail(f)
    /\ faults' = faults + 1
    /\ failed' = failed \cup {f}
    /\ rc' = -1

\* A failure whose clean-up fails as well.
FailTwice(f, g) ==
    /\ {f, g} \subseteq Faults /\ faults + 2 <= MaxFaults
    /\ faults' = faults + 2
    /\ failed' = failed \cup {f, g}
    /\ rc' = -1

Succeed == rc' = 0 /\ UNCHANGED faultVars

\* The enable counts after n more enables of the kinds K on controller i.
Bump(e, K, i, n) ==
    [k \in Kind |-> IF k \in K THEN [e[k] EXCEPT ![i] = @ + n] ELSE e[k]]

CoreKinds == {"power", "core"}

\* l_type of the loop at p: which link clocks it handles.
LinkType(p) ==
    CASE p \in {"lpOn", "lpOff"} -> {"LP"}
      [] p \in {"hsOn", "hsOff"} -> {"HS"}
      [] p \in {"forceOn", "forceOff"} -> {"LP", "HS"}
      [] OTHER -> {}

LpKinds == {"escPrep", "esc"}
LinkKinds(t) == (IF "LP" \in t THEN LpKinds ELSE {})
                  \cup (IF "HS" \in t THEN {"hs"} ELSE {})

\* The master is switched on before the other controllers, and off after them.
UpNext(i) == i \in Ctrl \ done /\ (i = Master \/ Master \in done)

DownNext(i) == i \in Ctrl \ done /\ (i # Master \/ Ctrl \ done = {Master})

\* dsi_update_clk_state: pre_clkon_cb powers the controllers and the PHY.
PreClkOn ==
    /\ pc = "preOn"
    /\ \/ Succeed /\ pc' = "coreOn"
       \/ Fail("pre_clkon_cb") /\ pc' = "ret"
    /\ UNCHANGED <<voteVars, mgr, en, callVars, lcOn, done>>

\* Mutated: a controller that fails leaves the master on.
CoreEnable_KeepMaster(i) ==
    /\ pc \in CoreOnPc
    /\ UpNext(i)
    /\ \/ /\ Succeed
          /\ en' = Bump(en, CoreKinds, i, 1)
          /\ done' = done \cup {i}
          /\ pc' = pc
       \/ /\ Fail("core_start")
          /\ pc' = "ret"
          /\ UNCHANGED <<en, done>>
    /\ UNCHANGED <<voteVars, mgr, callVars, lcOn>>

\* dsi_display_core_clk_enable, one controller: the power resource and the
\* core clocks.  A controller that fails leaves nothing on and takes the
\* master down with it: the clocks, unless their bus vote cannot be taken
\* back, which nobody looks at, and the power resource in any case.
CoreEnable(i) ==
    /\ pc \in CoreOnPc
    /\ UpNext(i)
    /\ \/ /\ Succeed
          /\ en' = Bump(en, CoreKinds, i, 1)
          /\ done' = done \cup {i}
          /\ pc' = pc
       \/ /\ Fail("core_start")
          /\ en' = IF i = Master THEN en ELSE Bump(en, CoreKinds, Master, -1)
          /\ pc' = "ret"
          /\ UNCHANGED done
       \/ /\ i # Master
          /\ FailTwice("core_start", "core_stop")
          /\ en' = Bump(en, {"power"}, Master, -1)
          /\ pc' = "ret"
          /\ UNCHANGED done
    /\ UNCHANGED <<voteVars, mgr, callVars, lcOn>>

\* The core clocks are on.  post_clkon_cb may fail without stopping the call
\* (its code is returned if nothing overwrites it).  On the EARLY_GATE path
\* to OFF the state is not touched; link clocks are asked for with the mask
\* DSI_LINK_LP_CLK & DSI_LINK_HS_CLK, which is zero, so none is started.
CoreEnabled ==
    /\ done = Ctrl
    /\ done' = {}
    /\ \/ /\ pc = "coreOn"
          /\ Succeed \/ Fail("post_clkon_cb")
          /\ mgr' = [mgr EXCEPT !["core"] = "ON"]
          /\ pc' = LinkPart(want, "ON")
          /\ UNCHANGED lcOn
       \/ /\ pc = "ecgOn"
          /\ Succeed
          /\ lcOn' = TRUE
          /\ pc' = "hsOff"
          /\ UNCHANGED mgr
       \/ /\ pc = "ecgCoreOn"
          /\ Succeed
          /\ pc' = "coreOff"
          /\ UNCHANGED <<mgr, lcOn>>
    /\ UNCHANGED <<voteVars, en, callVars>>

\* Mutated: a controller that fails leaves the master's link clocks on.
LinkEnable_KeepMaster(i) ==
    LET t == LinkType(pc)
    IN  /\ pc \in LinkOnPc
        /\ UpNext(i)
        /\ \/ /\ Succeed
              /\ en' = Bump(en, LinkKinds(t), i, 1)
              /\ done' = done \cup {i}
              /\ pc' = pc
           \/ /\ "LP" \in t
              /\ Fail("lp_start")
              /\ pc' = "ret"
              /\ UNCHANGED <<en, done>>
           \/ /\ "HS" \in t
              /\ Fail("hs_start")
              /\ pc' = "ret"
              /\ UNCHANGED <<en, done>>
        /\ UNCHANGED <<voteVars, mgr, callVars, lcOn>>

\* dsi_display_link_clk_enable, one controller.  dsi_link_lp_clk_start undoes
\* a failed prepare_enable with one unprepare too many; dsi_link_hs_clk_start
\* cleans up.  The master is stopped again only when the call is for LP alone
\* or for HS alone.
LinkEnable(i) ==
    LET t == LinkType(pc)
        undone == IF i # Master /\ t # {"LP", "HS"}
                    THEN Bump(en, LinkKinds(t), Master, -1) ELSE en
    IN  /\ pc \in LinkOnPc
        /\ UpNext(i)
        /\ \/ /\ Succeed
              /\ en' = Bump(en, LinkKinds(t), i, 1)
              /\ done' = done \cup {i}
              /\ pc' = pc
           \/ /\ "LP" \in t
              /\ Fail("lp_start")
              /\ \/ en' = undone                             \* clk_set_rate
                 \/ en' = Bump(undone, {"escPrep"}, i, -1)   \* clk_prepare_enable
              /\ pc' = "ret"
              /\ UNCHANGED done
           \/ /\ "HS" \in t
              /\ Fail("hs_start")
              /\ en' = IF "LP" \in t THEN Bump(undone, LpKinds, i, 1) ELSE undone
              /\ pc' = "ret"
              /\ UNCHANGED done
        /\ UNCHANGED <<voteVars, mgr, callVars, lcOn>>

\* post_clkon_cb for the link clocks: its failure ends the call.
LinkEnabled ==
    /\ done = Ctrl
    /\ done' = {}
    /\ \/ /\ pc \in LinkOnPc
          /\ Fail("post_clkon_cb")
          /\ pc' = "ret"
          /\ UNCHANGED mgr
       \/ pc = "lpOn" /\ Succeed /\ pc' = "hsOn" /\ UNCHANGED mgr
       \/ /\ pc = "hsOn"
          /\ Succeed
          /\ mgr' = [mgr EXCEPT !["link"] = "ON"]
          /\ pc' = CorePart(want, mgr["core"], FALSE)
       \/ pc = "forceOn" /\ Succeed /\ pc' = "ret" /\ UNCHANGED mgr
    /\ UNCHANGED <<voteVars, en, callVars, lcOn>>

\* dsi_display_link_clk_disable, one controller; nothing in it can fail.
LinkDisable(i) ==
    /\ pc \in LinkOffPc
    /\ DownNext(i)
    /\ Succeed
    /\ en' = Bump(en, LinkKinds(LinkType(pc)), i, -1)
    /\ done' = done \cup {i}
    /\ UNCHANGED <<voteVars, mgr, pc, callVars, lcOn>>

\* Mutated: the LP clocks are forgotten.
LinkDisabled_HsOnly ==
    /\ done = Ctrl
    /\ done' = {}
    /\ Succeed
    /\ \/ pc = "forceOff" /\ pc' = "forceOn" /\ UNCHANGED mgr
       \/ /\ pc = "hsOff"
          /\ mgr' = [mgr EXCEPT !["link"] = want["link"]]
          /\ pc' = CorePart(want, mgr["core"], lcOn)
    /\ UNCHANGED <<voteVars, en, callVars, lcOn>>

\* After the HS clocks the LP clocks; after those the core clocks that were
\* started only for them, unless the core part is about to stop them.
LinkDisabled ==
    /\ done = Ctrl
    /\ done' = {}
    /\ Succeed
    /\ \/ pc = "hsOff" /\ pc' = "lpOff" /\ UNCHANGED mgr
       \/ pc = "forceOff" /\ pc' = "forceOn" /\ UNCHANGED mgr
       \/ /\ pc = "lpOff"
          /\ IF lcOn /\ ~(want["core"] = "OFF" /\ mgr["core"] = "EARLY_GATE")
               THEN pc' = "ecgOff" /\ UNCHANGED mgr
               ELSE /\ mgr' = [mgr EXCEPT !["link"] = want["link"]]
                    /\ pc' = CorePart(want, mgr["core"], lcOn)
    /\ UNCHANGED <<voteVars, en, callVars, lcOn>>

\* dsi_display_core_clk_disable, one controller: dsi_core_clk_stop may fail
\* before it stops a clock (bus vote), the power resource after it.
CoreDisable(i) ==
    /\ pc \in CoreOffPc
    /\ DownNext(i)
    /\ \/ /\ Succeed
          /\ en' = Bump(en, CoreKinds, i, -1)
          /\ done' = done \cup {i}
          /\ pc' = pc
       \/ /\ Fail("core_stop")
          /\ en' = en \/ en' = Bump(en, {"core"}, i, -1)
          /\ pc' = "ret"
          /\ UNCHANGED done
    /\ UNCHANGED <<voteVars, mgr, callVars, lcOn>>

\* post_clkoff_cb powers the PHY and the controllers off; its failure is
\* returned, but the state is OFF all the same.
CoreDisabled ==
    /\ done = Ctrl
    /\ done' = {}
    /\ \/ /\ pc = "coreOff"
          /\ Succeed \/ (want["core"] = "OFF" /\ Fail("post_clkoff_cb"))
          /\ mgr' = [mgr EXCEPT !["core"] = want["core"]]
          /\ pc' = "ret"
          /\ UNCHANGED lcOn
       \/ /\ pc = "ecgOff"
          /\ Succeed
          /\ lcOn' = FALSE
          /\ mgr' = [mgr EXCEPT !["link"] = want["link"]]
          /\ pc' = CorePart(want, mgr["core"], FALSE)
    /\ UNCHANGED <<voteVars, en, callVars>>

\* The call returns and clk_mutex is free.  A deregistered client leaves the
\* list if the recheck succeeded; a deregistered manager is freed either way.
Return ==
    /\ pc = "ret"
    /\ pc' = "idle"
    /\ clients' = IF op = "dereg" /\ rc = 0 THEN clients \ {by} ELSE clients
    /\ alive' = (op # "destroy")
    /\ mgr' = IF op = "destroy" THEN AllOff ELSE mgr
    /\ op' = "none" /\ by' = NoClient /\ want' = NoWant
    /\ lcOn' = FALSE /\ done' = {} /\ rc' = 0
    /\ UNCHANGED <<ref, vote, en, faultVars>>

-----------------------------------------------------------------------------
Call ==
    \/ MngrRegister \/ MngrDeregister
    \/ \E c \in Client :
          \/ Register(c) \/ Deregister(c) \/ ForceUpdate(c)
          \/ \E clk \in SUBSET Domain \ {{}}, s \in ReqStates : Req(c, clk, s)

Step ==
    \/ PreClkOn \/ CoreEnabled \/ LinkEnabled \/ LinkDisabled \/ CoreDisabled
    \/ Return
    \/ \E i \in Ctrl :
          CoreEnable(i) \/ LinkEnable(i) \/ LinkDisable(i) \/ CoreDisable(i)

Next == Call \/ Step

Spec == Init /\ [][Next]_vars

\* The thread that holds the mutex keeps running.
FairSpec == Spec /\ WF_vars(Step)

-----------------------------------------------------------------------------
(* What the manager is for.                                                *)

KindsOf(d) == IF d = "core" THEN CoreKinds ELSE LpKinds \cup {"hs"}

\* dsi_recheck_clk_state, whatever the order of the calls: between two calls
\* the manager is in the state its clients' votes ask for.
VotesDecideState ==
    pc = "idle" => \A d \in Domain : mgr[d] = Aggregate(vote[d], clients)

Matches(d) ==
    \A k \in KindsOf(d), i \in Ctrl : en[k][i] = IF mgr[d] = "ON" THEN 1 ELSE 0

\* dsi_update_clk_state: between two calls every controller holds exactly one
\* enable of each clock of a domain that is ON and none of one that is not,
\* over any history of votes, rate updates, (de)registrations and rebinds.
ClocksMatchState == pc = "idle" => \A d \in Domain : Matches(d)

\* Whatever failed before, unless it was a stop of core clocks, the core clocks
\* fit their state again once the call has returned: a controller that fails in
\* the middle of the loop has those before it stopped again.
CoreSurvivesFaults == (pc = "idle" /\ "core_stop" \notin failed) => Matches("core")

\* The clock framework's counts: no controller ever gives back an enable it
\* does not hold, not even in the middle of a transition.
NoUnderflow == \A k \in Kind, i \in Ctrl : en[k][i] >= 0

\* dsi_update_clk_state, "For ON sequence, Core clocks before link clocks; for
\* OFF sequence, Link clocks before core clocks": no link clock of a
\* controller runs while its core clocks do not.
LinkNeedsCore ==
    \A i \in Ctrl : (en["esc"][i] > 0 \/ en["hs"][i] > 0) => en["core"][i] > 0

\* "The clock for master controller should be enabled before the other
\* controller", and disabled after it: no controller runs a clock whose
\* source, the master, is off.
MasterCovers == \A k \in Kind, i \in Ctrl : en[k][i] > 0 => en[k][Master] > 0

\* The failures after which link clocks or core clocks stay on behind the
\* manager's back.
Leaks == {"lp_start", "hs_start", "post_clkon_cb", "core_stop"}

\* The same two orders hold in every call after any other failure, the one in
\* the middle of a loop over the controllers included.
OrderSurvivesFaults == failed \cap Leaks = {} => LinkNeedsCore /\ MasterCovers

\* A client whose ON request has returned keeps its clocks until it releases
\* them, whatever calls the other clients make meanwhile; only a rate update
\* interrupts the link clocks.
GrantedClocksRun ==
    \A c \in clients, d \in Domain :
        (vote[d][c] = "ON" /\ by # c /\ ~(d = "link" /\ op = "force")) =>
            \A k \in KindsOf(d), i \in Ctrl : en[k][i] > 0

\* An ON request that returns success at once (its vote is already ON, so
\* nothing is rechecked) finds the clocks on.
ImmediateOnIsOn ==
    [][\A c \in Client, d \in Domain :
        (pc = "idle" /\ pc' = "idle" /\ ref'[d][c] > ref[d][c]) => mgr[d] = "ON"]_vars

\* A call that moved the clocks and returned success has left the manager in
\* the state the votes ask for, whatever failed in earlier calls.
SuccessFollowsVotes ==
    [][(pc = "ret" /\ op # "force" /\ rc = 0) =>
        \A d \in Domain : mgr'[d] = Aggregate(vote'[d], clients')]_vars

\* No high-speed clock of any controller is left on behind the manager's back,
\* nor enabled twice, by a link clock that failed on this or the other controller
\* or by a rate update that failed half way (dsi_display_link_clk_enable, "goto
\* error_disable_master"); only a post_clkon_cb that fails leaves some on.
NoHsLeak ==
    (pc = "idle" /\ "post_clkon_cb" \notin failed) =>
        \A i \in Ctrl : en["hs"][i] <= IF mgr["link"] = "ON" THEN 1 ELSE 0

-----------------------------------------------------------------------------
(* Each domain is a shared clock: the clients whose vote the manager has   *)
(* acted on hold it.  A rate update is no release of the link clocks.      *)

Holders(d) == IF mgr[d] = "ON" THEN {c \in clients : vote[d][c] = "ON"} ELSE {}
Running(d) == \A k \in KindsOf(d), i \in Ctrl : en[k][i] > 0

CoreClock == INSTANCE SharedClock WITH holders <- Holders("core"), on <- Running("core")
LinkClock == INSTANCE SharedClock WITH
                holders <- Holders("link"), on <- Running("link") \/ op = "force"

\* The core clocks, over all controllers and through every step of a
\* transition, behave as one clock that runs while somebody holds it and
\* stops once nobody does; so do the link clocks.
DomainsAreShared == CoreClock!Spec /\ LinkClock!Spec
=============================================================================
