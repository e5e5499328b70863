-------------------------- MODULE DsiDisplay_proofs --------------------------
(***************************************************************************)
(* Proofs about DsiDisplay: for every set of panels, every set of jobs and *)
(* any number of failures, as long as no supply, no link clock and no lane *)
(* fails (DsiHardware_proofs says what those leave).                       *)
(***************************************************************************)
EXTENDS DsiDisplay, DsiHardware_proofs, FiniteSetTheorems

-----------------------------------------------------------------------------
(* The inductive invariant.                                                *)

\* Where the MDP may vote, the host may be initialized, or must be, and its
\* engine runs; and where the DRM thread holds the display's lock.
Running == {"preEnabled", "on", "preDisabled"}
HostAt == {"hostOn", "linkOn", "panelPrepare", "enable", "engineOn",
           "aLinkOff", "aHostOff", "aHostDeinit"}
HostMayBe == Running \cup {"panelDisable", "panelUnprepare", "hostOff", "linkOff", "hostDeinit"}
EngineAt == {"linkOn", "panelPrepare", "enable", "engineOn", "panelDisable",
             "panelUnprepare", "hostOff", "aLinkOff", "aHostOff"} \cup Running
DrmLocked == Prepare \cup Abort \cup (Unprepare \ {"panelUnprepare"})
               \cup {"engineOn", "panelDisable"}
SplashAt == {"off", "coreOn", "phyOn", "clkSrc", "hostInit", "hostOn", "linkOn",
             "panelPrepare", "enable"}

\* The vote of the DRM thread for the link clocks, and for the core clocks.
\* While the PHY and the core clocks go off only the votes themselves tell.
DrmLink(h) ==
    \/ pc \in {"panelPrepare", "enable", "engineOn", "aLinkOff"}
    \/ pc = "preEnabled" /\ h.host
    \/ pc = "on" /\ h.host /\ ~h.panel.cmdMode
    \/ /\ pc \in {"preDisabled", "panelDisable", "panelUnprepare", "hostOff", "linkOff"}
       /\ h.host \/ h.panel.cmdMode
DrmCore(h) ==
    \/ DrmLink(h)
    \/ pc \in {"phyOn", "clkSrc", "hostInit", "hostOn", "linkOn",
               "aHostOff", "aHostDeinit", "aPhyOff", "aCoreOff"}
    \/ pc = "hostDeinit" /\ (h.host \/ h.panel.cmdMode)
    \/ pc \in {"phyOff", "coreOff"} /\ h.vote["dsi"]["core"] > 0

\* Every vote of the driver has one holder: the splash, the DRM thread, the
\* owner of the panel's lock, the job that owns the display's lock.
CoreVotes ==
    hw.vote["dsi"]["core"] =
      One(hw.splash) + One(DrmCore(hw)) + One(plock # "none") + One(lock \in Jobs)
LinkVotes ==
    hw.vote["dsi"]["link"] =
      One(hw.splash) + One(DrmLink(hw)) + One(plock = "esd") + One(lock \in Jobs)
MdpVotes ==
    /\ hw.vote["mdp"]["core"] \in {0, 1}
    /\ hw.vote["mdp"]["link"] = hw.vote["mdp"]["core"]
    /\ hw.vote["mdp"]["core"] = 1 => pc \in Running

\* A job at work holds its lock, and finds the host, or the panel, up.
Busy == {"ready", "send", "sent", "failed"}
LockInv ==
    /\ plock \in {"none"} \cup PanelJobs
    /\ lock \in {"none", "drm"} \cup DisplayJobs
    /\ \A j \in PanelJobs : job[j] \in Busy <=> plock = j
    /\ \A j \in DisplayJobs : job[j] \in Busy <=> lock = j
    /\ lock = "drm" <=> pc \in DrmLocked
    /\ \A j \in Jobs : job[j] = "failed" => j = "esd"
    /\ lock \in Jobs => hw.host
    /\ plock # "none" => hw.init

\* What each state of the controller says about the DRM thread.
HostInv ==
    /\ hw.splash => pc \in SplashAt
    /\ pc \in HostAt => hw.host
    /\ hw.host => pc \in HostAt \cup HostMayBe
    /\ hw.init <=> hw.host /\ pc \in Running \cup {"engineOn", "panelDisable"}
    /\ hw.engine <=> hw.splash \/ (hw.host /\ pc \in EngineAt)
    /\ hw.vid <=> ~hw.panel.cmdMode /\ hw.host /\ pc \in Running
    /\ hw.cmd <=> hw.cmdRef > 0

\* The command engine is counted by the DRM thread and by each transfer.
Sends(j) == j \in Jobs /\ job[j] = "send"
EngineInv ==
    hw.cmdRef = One(hw.panel.cmdMode /\ hw.host /\ pc \in Running)
                  + One(Sends("esd")) + One(Sends("command"))

\* The panel's supply.
PanelInv ==
    LET n == hw.sup["panelPwr"].ref
    IN  /\ n \in {0, 1}
        /\ pc \in {"boot", "panelOn", "unregister"} => n = 0
        /\ pc = "off" => n = One(hw.splash)
        /\ pc \in Prepare \ {"panelOn"} => n = One(hw.splash \/ ~hw.panel.lp11)
        /\ pc \in {"enable", "engineOn"} => n = 1
        /\ pc \in Running => n = One(hw.host)

\* The PHY of a host that is down is disabled, but for ULPS in suspend.
PhyInv ==
    ~hw.panel.ulpsSuspend =>
        /\ ~hw.host /\ pc \notin {"clkSrc", "hostInit", "aPhyOff", "phyOff"} => ~hw.phyEngine
        /\ pc = "phyOff" /\ ~hw.core => ~hw.phyEngine

\* Handlers are there while the display is up, none is left while it is off, and
\* an attempt without failure does not turn back.
CleanInv ==
    /\ pc = "boot" => ~isr /\ ~wq
    /\ pc = "off" => ~wq /\ (isr => hw.splash)
    /\ pc = "unregister" => ~isr
    /\ pc \in Prepare \cup {"enable", "engineOn"} => isr
    /\ pc \in Running /\ hw.host => isr /\ wq
    /\ pc \in HostAt => wq
    /\ clean => pc \notin Abort
    /\ clean /\ pc \in Running => hw.host
    /\ clean /\ pc \in Unprepare \cup {"unregister"} => back = "off"

TypeInv ==
    /\ pc \in (Rest \cup Moving) \ {"disable"}
    /\ back \in {"off", "preEnabled"}
    /\ job \in [Jobs -> {"idle", "queued", "checked", "ready", "send", "sent", "failed"}]
    /\ isr \in BOOLEAN /\ wq \in BOOLEAN /\ clean \in BOOLEAN
    /\ faults \in 0..MaxFaults

BootInv == pc = "boot" => hw = Cold(hw.panel)

HwInv == Coherent(hw) /\ Clocked(hw)
Ctl == /\ CoreVotes /\ LinkVotes /\ MdpVotes
       /\ LockInv /\ HostInv /\ EngineInv /\ PanelInv /\ PhyInv /\ CleanInv
Inv == TypeInv /\ HwInv /\ Ctl /\ BootInv

\* The failures that the proofs consider.
Recovered == Faults \cap Bad = {} /\ IsFiniteSet(Faults)

-----------------------------------------------------------------------------
(* What a step finds and what the calls give.                              *)

\* The outcome of a step is sound, and counts.
LEMMA TakesGives ==
  ASSUME Recovered, TypeInv, NEW r, Takes(r)
  PROVE  /\ Sound(r) /\ hw' = r.h /\ clean' \in BOOLEAN /\ faults' \in 0..MaxFaults
         /\ clean' => clean /\ r.hit = {}
         /\ hw.splash => r.hit = {}
<1>1. r.hit \subseteq Faults
  BY DEF Takes
<1>2. IsFiniteSet(r.hit)
  BY <1>1, FS_Subset DEF Recovered
<1>3. Cardinality(r.hit) \in Nat
  BY <1>2, FS_CardinalityType
<1>4. faults' \in 0..MaxFaults
  <2>1. faults \in Nat /\ MaxFaults \in Nat
    BY BoundsAssumption DEF TypeInv
  <2>2. faults' = faults + Cardinality(r.hit) /\ faults' <= MaxFaults
    BY DEF Takes
  <2> QED
    BY <1>3, <2>1, <2>2
<1>5. hw.splash => r.hit = {}
  BY DEF Takes
<1>6. clean' <=> clean /\ r.hit = {}
  BY DEF Takes
<1>7. clean' \in BOOLEAN
  BY DEF Takes
<1> QED
  BY <1>1, <1>4, <1>5, <1>6, <1>7 DEF Takes, Sound, Recovered

\* The fields of the hardware that its own calls move.
Wires(h) == <<h.panel, h.vote, h.core, h.link, h.power, h.phyPower, h.phyEngine,
              h.idle, h.clamp, h.ulps, h.lanes>>

\* A change of the other fields is harmless: the host's on a powered
\* controller, a recovery that becomes pending while the link is what the core
\* is, a panel that is given up while nothing sleeps.
LEMMA StatesKeep ==
  ASSUME NEW h, Coherent(h), Clocked(h), NEW g, Typed(g), Wires(g) = Wires(h),
         g.host = h.host \/ h.power,
         \A s \in Supply \ {"panelPwr"} : g.sup[s] = h.sup[s],
         g.sup["panelPwr"].on <=> g.sup["panelPwr"].ref > 0,
         g.esd => h.esd \/ h.link = h.core,
         h.init => \/ g.init
                   \/ h.link \/ h.panel.ulpsSuspend
  PROVE  Coherent(g) /\ Clocked(g) /\ g.phyEngine = h.phyEngine /\ g.core = h.core
         /\ g.link = h.link /\ g.vote = h.vote /\ g.panel = h.panel
<1>1. /\ g.panel = h.panel /\ g.vote = h.vote /\ g.core = h.core /\ g.link = h.link
      /\ g.power = h.power /\ g.phyPower = h.phyPower /\ g.phyEngine = h.phyEngine
      /\ g.idle = h.idle /\ g.clamp = h.clamp /\ g.ulps = h.ulps /\ g.lanes = h.lanes
  BY DEF Wires
<1>2. Typed(h) /\ Supplied(h) /\ Powered(h) /\ Parked(h)
  BY DEF Coherent
<1>3. Powered(g)
  BY <1>1, <1>2 DEF Powered
<1>4. Supplied(g)
  <2>1. {"digital", "hostPwr", "phyDigital", "phyPwr"} \subseteq Supply \ {"panelPwr"}
    BY DEF Supply
  <2>2. \A s \in Supply : g.sup[s].on <=> g.sup[s].ref > 0
    BY <1>2 DEF Supplied
  <2>3. g.power \/ g.host <=> h.power \/ h.host
    BY <1>1
  <2>4. g.sup["hostPwr"].ref = One(g.power \/ g.host)
    BY <1>2, <2>1, <2>3 DEF Supplied, One
  <2>5. /\ g.sup["digital"].ref = One(g.power)
        /\ g.sup["phyDigital"].ref = One(g.phyPower)
        /\ g.sup["phyPwr"].ref = One(g.phyPower \/ g.phyEngine)
    BY <1>1, <1>2, <2>1 DEF Supplied
  <2> QED
    BY <2>2, <2>4, <2>5 DEF Supplied
<1>5. Parked(g)
  BY <1>1, <1>2 DEF Parked, Typed
<1>6. Clocked(g)
  BY <1>1 DEF Clocked, Voted
<1> QED
  BY <1>1, <1>2, <1>3, <1>4, <1>5, <1>6 DEF Coherent

-----------------------------------------------------------------------------
(* Requests and transfers.                                                 *)

\* All but the fields named in F are left alone.
But(F, h, g) ==
    /\ g.panel = h.panel
    /\ "host" \in F \/ g.host = h.host
    /\ "engine" \in F \/ g.engine = h.engine
    /\ "vid" \in F \/ g.vid = h.vid
    /\ "cmd" \in F \/ (g.cmd = h.cmd /\ g.cmdRef = h.cmdRef)
    /\ "init" \in F \/ g.init = h.init
    /\ "esd" \in F \/ g.esd = h.esd
    /\ "splash" \in F \/ g.splash = h.splash
    /\ "panelPwr" \in F \/ g.sup["panelPwr"] = h.sup["panelPwr"]
    /\ "phy" \in F \/ g.phyEngine = h.phyEngine
    /\ "vote" \in F \/ (g.vote = h.vote /\ g.core = h.core /\ g.link = h.link)

\* What a request leaves alone.
Same(h, g) == But({"phy", "vote"}, h, g) /\ PhyStays(h, g)

\* What clock requests leave alone, field by field.
LEMMA SameIs ==
  ASSUME NEW h, NEW g, Life(g) = Life(h), PhyStays(h, g)
  PROVE  Same(h, g)
BY DEF Life, Same, But

\* The driver asks for clocks.
LEMMA AskGives ==
  ASSUME NEW h, Coherent(h), Clocked(h), NEW ks \in SUBSET Clock,
         NEW r \in Request(h, "dsi", ks, TRUE), Sound(r), Sensible(h, h.vote),
         "core" \in ks \/ h.vote["dsi"]["core"] > 0
  PROVE  /\ r.ok /\ Coherent(r.h) /\ Clocked(r.h) /\ Same(h, r.h)
         /\ r.h.vote["dsi"]["core"] = h.vote["dsi"]["core"] + One("core" \in ks)
         /\ r.h.vote["dsi"]["link"] = h.vote["dsi"]["link"] + One("link" \in ks)
         /\ r.h.vote["mdp"] = h.vote["mdp"]
<1> DEFINE v == NewVotes(h, "dsi", ks, TRUE)
<1>1. {"dsi", "mdp"} = Client /\ {"core", "link"} \subseteq Clock /\ TRUE \in BOOLEAN
  BY DEF Client, Clock
<1>2. h.vote \in Votes
  BY DEF Coherent, Typed
<1> DEFINE w == [k \in Clock |-> IF k \notin ks THEN h.vote["dsi"][k] ELSE
                       h.vote["dsi"][k] + 1]
<1>3. v = [h.vote EXCEPT !["dsi"] = w]
  BY DEF NewVotes
<1>4. \A d \in Client, k \in Clock : h.vote[d][k] \in Nat
  BY <1>2 DEF Votes
<1>5. /\ \A k \in Clock \ ks : w[k] = h.vote["dsi"][k]
      /\ \A k \in ks : w[k] = h.vote["dsi"][k] + 1
      /\ \A k \in Clock : w[k] \in Nat
  BY <1>1, <1>4
<1> HIDE DEF w
<1>6. v["dsi"] = w /\ v["mdp"] = h.vote["mdp"]
  BY <1>1, <1>2, <1>3 DEF Votes
<1> HIDE DEF v
<1>7. /\ v["mdp"] = h.vote["mdp"]
      /\ \A k \in Clock \ ks : v["dsi"][k] = h.vote["dsi"][k]
      /\ \A k \in ks : v["dsi"][k] = h.vote["dsi"][k] + 1
      /\ \A d \in Client, k \in Clock : v[d][k] \in Nat /\ h.vote[d][k] \in Nat
  BY <1>1, <1>4, <1>5, <1>6
<1>8. /\ v["dsi"]["core"] = h.vote["dsi"]["core"] + One("core" \in ks)
      /\ v["dsi"]["link"] = h.vote["dsi"]["link"] + One("link" \in ks)
  BY <1>1, <1>7 DEF One
<1>9. v["dsi"]["core"] > 0
  BY <1>1, <1>7, <1>8 DEF One
<1>10. Sensible(h, v)
  BY <1>1, <1>9 DEF Sensible
<1>11. /\ r.ok /\ Coherent(r.h) /\ Clocked(r.h)
      /\ Life(r.h) = Life(h) /\ PhyStays(h, r.h) /\ r.h.vote = v
  <2>1. "dsi" \in Client /\ ks \in SUBSET Clock
    BY <1>1
  <2> QED
    BY <1>10, <2>1, RequestsGive DEF v
<1> QED
  BY <1>7, <1>8, <1>11, SameIs

\* The driver gives clocks back that it holds: what is left.
Left(h, k, ks) == IF k \in ks THEN h.vote["dsi"][k] - 1 ELSE h.vote["dsi"][k]

\* The driver gives clocks back that it holds.
LEMMA GiveGives ==
  ASSUME NEW h, Coherent(h), Clocked(h), NEW ks \in SUBSET Clock,
         NEW r \in Request(h, "dsi", ks, FALSE), Sound(r),
         \A k \in ks : h.vote["dsi"][k] > 0,
         Left(h, "link", ks) > 0 \/ h.vote["mdp"]["link"] > 0 \/ h.vid
           => Left(h, "core", ks) > 0 \/ h.vote["mdp"]["core"] > 0
  PROVE  /\ r.ok /\ Coherent(r.h) /\ Clocked(r.h) /\ Same(h, r.h)
         /\ r.h.vote["dsi"]["core"] = Left(h, "core", ks)
         /\ r.h.vote["dsi"]["link"] = Left(h, "link", ks)
         /\ r.h.vote["mdp"] = h.vote["mdp"]
<1> DEFINE v == NewVotes(h, "dsi", ks, FALSE)
<1>1. {"dsi", "mdp"} = Client /\ {"core", "link"} \subseteq Clock /\ FALSE \in BOOLEAN
  BY DEF Client, Clock
<1>2. h.vote \in Votes
  BY DEF Coherent, Typed
<1> DEFINE w == [k \in Clock |-> IF k \notin ks THEN h.vote["dsi"][k] ELSE
                       IF h.vote["dsi"][k] = 0 THEN 0 ELSE h.vote["dsi"][k] - 1]
<1>3. v = [h.vote EXCEPT !["dsi"] = w]
  BY DEF NewVotes
<1>4. \A d \in Client, k \in Clock : h.vote[d][k] \in Nat
  BY <1>2 DEF Votes
<1>5. /\ \A k \in Clock \ ks : w[k] = h.vote["dsi"][k]
      /\ \A k \in ks : w[k] = h.vote["dsi"][k] - 1
      /\ \A k \in Clock : w[k] \in Nat
  BY <1>1, <1>4
<1> HIDE DEF w
<1>6. v["dsi"] = w /\ v["mdp"] = h.vote["mdp"]
  BY <1>1, <1>2, <1>3 DEF Votes
<1> HIDE DEF v
<1>7. /\ v["mdp"] = h.vote["mdp"]
      /\ \A k \in Clock \ ks : v["dsi"][k] = h.vote["dsi"][k]
      /\ \A k \in ks : v["dsi"][k] = h.vote["dsi"][k] - 1
      /\ \A d \in Client, k \in Clock : v[d][k] \in Nat /\ h.vote[d][k] \in Nat
  BY <1>1, <1>4, <1>5, <1>6
<1>8. v["dsi"]["core"] = Left(h, "core", ks) /\ v["dsi"]["link"] = Left(h, "link", ks)
  BY <1>1, <1>7 DEF Left
<1>9. Sensible(h, v)
  BY <1>1, <1>7, <1>8 DEF Sensible
<1>10. /\ r.ok /\ Coherent(r.h) /\ Clocked(r.h)
      /\ Life(r.h) = Life(h) /\ PhyStays(h, r.h) /\ r.h.vote = v
  <2>1. "dsi" \in Client /\ ks \in SUBSET Clock
    BY <1>1
  <2> QED
    BY <1>9, <2>1, RequestsGive DEF v
<1> QED
  BY <1>7, <1>8, <1>10, SameIs

\* The MDP takes or drops its two votes together.
LEMMA MdpGives ==
  ASSUME NEW h, Coherent(h), Clocked(h), Sensible(h, h.vote),
         h.vote["mdp"]["core"] \in {0, 1}, h.vote["mdp"]["link"] = h.vote["mdp"]["core"],
         h.vote["dsi"]["link"] > 0 \/ h.vid => h.vote["dsi"]["core"] > 0,
         NEW on \in BOOLEAN, on <=> h.vote["mdp"]["core"] = 0,
         NEW r \in Request(h, "mdp", Clock, on), Sound(r)
  PROVE  /\ r.ok /\ Coherent(r.h) /\ Clocked(r.h) /\ Same(h, r.h)
         /\ r.h.vote["mdp"]["core"] = 1 - h.vote["mdp"]["core"]
         /\ r.h.vote["mdp"]["link"] = 1 - h.vote["mdp"]["core"]
         /\ r.h.vote["dsi"] = h.vote["dsi"]
<1> DEFINE v == NewVotes(h, "mdp", Clock, on)
           w == [k \in Clock |-> IF on THEN h.vote["mdp"][k] + 1
                                 ELSE IF h.vote["mdp"][k] = 0 THEN 0 ELSE h.vote["mdp"][k] - 1]
<1>1. {"dsi", "mdp"} = Client /\ {"core", "link"} = Clock
  BY DEF Client, Clock
<1>2. h.vote \in Votes
  BY DEF Coherent, Typed
<1>3. v = [h.vote EXCEPT !["mdp"] = w]
  BY DEF NewVotes
<1>4. \A k \in Clock : h.vote["mdp"][k] = h.vote["mdp"]["core"]
  BY <1>1
<1>5. \A k \in Clock : w[k] = 1 - h.vote["mdp"]["core"]
  <2> TAKE k \in Clock
  <2>1. CASE h.vote["mdp"]["core"] = 0
    <3>1. w[k] = h.vote["mdp"][k] + 1
      BY <2>1
    <3> QED
      BY <1>4, <2>1, <3>1
  <2>2. CASE h.vote["mdp"]["core"] = 1
    <3>1. ~on
      BY <2>2
    <3>2. w[k] = IF h.vote["mdp"][k] = 0 THEN 0 ELSE h.vote["mdp"][k] - 1
      BY <3>1
    <3> QED
      BY <1>4, <2>2, <3>2
  <2> QED
    BY <2>1, <2>2
<1> HIDE DEF w
<1>6. v["mdp"] = w /\ v["dsi"] = h.vote["dsi"]
  BY <1>1, <1>2, <1>3 DEF Votes
<1> HIDE DEF v
<1>7. v["mdp"]["core"] = v["mdp"]["link"] /\ v["mdp"]["core"] = 1 - h.vote["mdp"]["core"]
  BY <1>1, <1>5, <1>6
<1>8. Sensible(h, v)
  BY <1>1, <1>6, <1>7 DEF Sensible
<1>9. /\ r.ok /\ Coherent(r.h) /\ Clocked(r.h)
      /\ Life(r.h) = Life(h) /\ PhyStays(h, r.h) /\ r.h.vote = v
  <2>1. "mdp" \in Client /\ Clock \in SUBSET Clock
    BY <1>1
  <2> QED
    BY <1>8, <2>1, RequestsGive DEF v
<1> QED
  BY <1>6, <1>7, <1>9, SameIs

\* A command of the panel.
LEMMA CommandGives ==
  ASSUME NEW h, Coherent(h), Clocked(h), Counted(h), Sensible(h, h.vote),
         NEW r \in Transfer(h), Sound(r)
  PROVE  /\ Outcome(r) /\ Coherent(r.h) /\ Clocked(r.h) /\ Same(h, r.h)
         /\ r.h.vote = h.vote
         /\ h.host /\ h.engine => r.ok \/ r.hit # {}
BY TransferGives, SameIs

-----------------------------------------------------------------------------
(* What the invariant says of the hardware.                                *)

\* The hardware that any step finds.
LEMMA Found ==
  ASSUME Inv
  PROVE  /\ Coherent(hw) /\ Clocked(hw) /\ Typed(hw) /\ Counted(hw) /\ Sensible(hw, hw.vote)
         /\ \A c \in Client, k \in Clock : hw.vote[c][k] \in Nat
         /\ hw.power = hw.core /\ hw.phyPower = hw.core
         /\ hw.core <=> hw.vote["dsi"]["core"] > 0 \/ hw.vote["mdp"]["core"] > 0
         /\ hw.link <=> hw.vote["dsi"]["link"] > 0 \/ hw.vote["mdp"]["link"] > 0
         /\ (hw.vote["dsi"]["link"] > 0 => hw.vote["dsi"]["core"] > 0)
<1>1. Coherent(hw) /\ Clocked(hw) /\ Typed(hw) /\ Counted(hw) /\ Powered(hw)
  BY DEF Inv, HwInv, Coherent, Ctl, HostInv, Counted
<1>2. {"dsi", "mdp"} = Client /\ {"core", "link"} = Clock
  BY DEF Client, Clock
<1>3. \A c \in Client, k \in Clock : hw.vote[c][k] \in Nat
  BY <1>1 DEF Typed, Votes
<1>4. /\ hw.core <=> hw.vote["dsi"]["core"] > 0 \/ hw.vote["mdp"]["core"] > 0
      /\ hw.link <=> hw.vote["dsi"]["link"] > 0 \/ hw.vote["mdp"]["link"] > 0
  BY <1>1, <1>2 DEF Clocked, Voted, Typed
<1>5. hw.vote["dsi"]["link"] > 0 => hw.vote["dsi"]["core"] > 0
  BY DEF Inv, Ctl, CoreVotes, LinkVotes, DrmCore, One
<1>6. hw.vid => hw.vote["dsi"]["core"] > 0
  BY DEF Inv, Ctl, CoreVotes, HostInv, DrmCore, DrmLink, Running, One
<1>7. Sensible(hw, hw.vote)
  BY <1>2, <1>5, <1>6 DEF Inv, Ctl, MdpVotes, Sensible
<1> QED
  BY <1>1, <1>3, <1>4, <1>5, <1>7 DEF Powered

-----------------------------------------------------------------------------
(* dsi_display_prepare.                                                    *)

\* dsi_bridge_pre_enable takes the lock.
LEMMA PreEnableKeeps ==
  ASSUME Inv, PreEnable
  PROVE  Inv'
<1>1. /\ pc = "off" /\ lock = "none" /\ hw' = [hw EXCEPT !.esd = FALSE]
      /\ lock' = "drm" /\ isr' = TRUE /\ clean' = TRUE
      /\ pc' = IF hw.splash THEN "coreOn" ELSE "panelOn"
      /\ UNCHANGED <<back, plock, job, wq, faults>>
  BY DEF PreEnable
<1>2. /\ Typed(hw') /\ Wires(hw') = Wires(hw) /\ hw'.sup = hw.sup /\ hw'.esd = FALSE
      /\ But({"esd"}, hw, hw')
  BY <1>1, Found DEF Typed, Wires, But
<1>3. /\ Coherent(hw') /\ Clocked(hw')
  <2>1. hw'.sup["panelPwr"].on <=> hw'.sup["panelPwr"].ref > 0
    BY <1>2, Found DEF Coherent, Supplied, Supply
  <2> QED
    BY <1>2, <2>1, Found, StatesKeep DEF But
<1>4. TypeInv'
  BY <1>1 DEF Inv, TypeInv, Moving, Rest, Prepare, Abort, Unprepare, otherVars
<1>5. Ctl'
  <2>1. (CoreVotes /\ LinkVotes /\ MdpVotes)'
    BY <1>1, <1>2, JobsAssumption DEF Inv, Ctl, Same, But, otherVars, CoreVotes,
         LinkVotes, MdpVotes, DrmCore, DrmLink, Running, One
  <2>2. LockInv'
    BY <1>1, <1>2, JobsAssumption DEF Inv, Ctl, Same, But, otherVars, LockInv,
         DrmLocked, Prepare, Abort, Unprepare, DisplayJobs, PanelJobs, Busy
  <2>3. HostInv'
    BY <1>1, <1>2 DEF Inv, Ctl, Same, But, otherVars, HostInv, Running, HostAt,
         HostMayBe, EngineAt, SplashAt
  <2>4. EngineInv'
    BY <1>1, <1>2 DEF Inv, Ctl, Same, But, otherVars, EngineInv, Sends, Running, One
  <2>5. PanelInv'
    BY <1>1, <1>2 DEF Inv, Ctl, Same, But, otherVars, PanelInv, Prepare, Running, One
  <2>6. PhyInv'
    BY <1>1, <1>2 DEF Inv, Ctl, Same, But, otherVars, PhyInv, HostInv, HostAt,
         HostMayBe, Running, PhyStays
  <2>7. CleanInv'
    BY <1>1, <1>2 DEF Inv, Ctl, Same, But, otherVars, CleanInv, Running, Prepare,
         HostAt, Abort, Unprepare
  <2> QED
    BY <2>1, <2>2, <2>3, <2>4, <2>5, <2>6, <2>7 DEF Ctl
<1>6. BootInv'
  BY <1>1 DEF BootInv
<1> QED
  BY <1>3, <1>4, <1>5, <1>6 DEF Inv, HwInv

\* The DRM thread takes its vote for the core clocks.
LEMMA CoreOnKeeps ==
  ASSUME Recovered, Inv, CoreOn
  PROVE  Inv'
<1>1. PICK r \in Request(hw, "dsi", {"core"}, TRUE) :
        Takes(r) /\ pc' = IF r.ok THEN "phyOn" ELSE "aPanelOff"
  BY DEF CoreOn, Step, Dsi
<1>2. /\ Sound(r) /\ hw' = r.h /\ clean' \in BOOLEAN /\ faults' \in 0..MaxFaults
      /\ clean' => clean /\ r.hit = {}
      /\ hw.splash => r.hit = {}
  BY <1>1, TakesGives DEF Inv
<1>3. /\ r.ok /\ Coherent(hw') /\ Clocked(hw') /\ Same(hw, hw')
      /\ hw'.vote["dsi"]["core"] = hw.vote["dsi"]["core"] + One("core" \in {"core"})
      /\ hw'.vote["dsi"]["link"] = hw.vote["dsi"]["link"] + One("link" \in {"core"})
      /\ hw'.vote["mdp"] = hw.vote["mdp"]
  <2>1. {"core"} \in SUBSET Clock /\ "core" \in {"core"}
    BY DEF Clock
  <2> QED
    BY <1>2, <2>1, Found, AskGives
<1>4. pc = "coreOn" /\ pc' = "phyOn" /\ UNCHANGED otherVars
  BY <1>1, <1>3 DEF CoreOn, Step
<1>5. hw.vote["dsi"]["core"] \in Nat /\ hw.vote["dsi"]["link"] \in Nat
  BY Found DEF Client, Clock
<1>6. TypeInv'
  BY <1>2, <1>4 DEF Inv, TypeInv, Moving, Rest, Prepare, Abort, Unprepare, otherVars
<1>7. Ctl'
  <2>1. (CoreVotes /\ LinkVotes /\ MdpVotes)'
    BY <1>2, <1>3, <1>4, <1>5 DEF Inv, Ctl, Same, But, otherVars, CoreVotes, LinkVotes,
         MdpVotes, DrmCore, DrmLink, Running, One
  <2>2. LockInv'
    BY <1>2, <1>3, <1>4, <1>5 DEF Inv, Ctl, Same, But, otherVars, LockInv, DrmLocked,
         Prepare, Abort, Unprepare
  <2>3. HostInv'
    BY <1>2, <1>3, <1>4, <1>5 DEF Inv, Ctl, Same, But, otherVars, HostInv, Running,
         HostAt, HostMayBe, EngineAt, SplashAt
  <2>4. EngineInv'
    BY <1>2, <1>3, <1>4, <1>5 DEF Inv, Ctl, Same, But, otherVars, EngineInv, Sends,
         Running, One
  <2>5. PanelInv'
    BY <1>2, <1>3, <1>4, <1>5 DEF Inv, Ctl, Same, But, otherVars, PanelInv, Prepare,
         Running, One
  <2>6. PhyInv'
    BY <1>2, <1>3, <1>4, <1>5 DEF Inv, Ctl, Same, But, otherVars, PhyInv, HostInv,
         HostAt, HostMayBe, Running, PhyStays
  <2>7. CleanInv'
    BY <1>2, <1>3, <1>4, <1>5 DEF Inv, Ctl, Same, But, otherVars, CleanInv, Running,
         Prepare, HostAt, Abort, Unprepare
  <2> QED
    BY <2>1, <2>2, <2>3, <2>4, <2>5, <2>6, <2>7 DEF Ctl
<1>8. BootInv'
  BY <1>4 DEF BootInv
<1> QED
  BY <1>3, <1>6, <1>7, <1>8 DEF Inv, HwInv


\* The DRM thread takes its vote for the link clocks.
LEMMA LinkOnKeeps ==
  ASSUME Recovered, Inv, LinkOn
  PROVE  Inv'
<1>1. PICK r \in Request(hw, "dsi", {"link"}, TRUE) :
        Takes(r) /\ pc' = IF r.ok THEN "panelPrepare" ELSE "aHostOff"
  BY DEF LinkOn, Step, Dsi
<1>2. /\ Sound(r) /\ hw' = r.h /\ clean' \in BOOLEAN /\ faults' \in 0..MaxFaults
      /\ clean' => clean /\ r.hit = {}
      /\ hw.splash => r.hit = {}
  BY <1>1, TakesGives DEF Inv
<1>3. pc = "linkOn" /\ hw.vote["dsi"]["core"] > 0
  BY DEF LinkOn, Step, Inv, Ctl, CoreVotes, DrmCore, One
<1>4. /\ r.ok /\ Coherent(hw') /\ Clocked(hw') /\ Same(hw, hw')
      /\ hw'.vote["dsi"]["core"] = hw.vote["dsi"]["core"] + One("core" \in {"link"})
      /\ hw'.vote["dsi"]["link"] = hw.vote["dsi"]["link"] + One("link" \in {"link"})
      /\ hw'.vote["mdp"] = hw.vote["mdp"]
  <2>1. {"link"} \in SUBSET Clock
    BY DEF Clock
  <2> QED
    BY <1>2, <1>3, <2>1, Found, AskGives
<1>5. pc' = "panelPrepare" /\ UNCHANGED otherVars
  BY <1>1, <1>4 DEF LinkOn, Step
<1>6. hw.vote["dsi"]["core"] \in Nat /\ hw.vote["dsi"]["link"] \in Nat
  BY Found DEF Client, Clock
<1>7. TypeInv'
  BY <1>2, <1>5 DEF Inv, TypeInv, Moving, Rest, Prepare, Abort, Unprepare, otherVars
<1>8. Ctl'
  <2>1. (CoreVotes /\ LinkVotes /\ MdpVotes)'
    BY <1>2, <1>3, <1>4, <1>5, <1>6 DEF Inv, Ctl, Same, But, otherVars, CoreVotes,
         LinkVotes, MdpVotes, DrmCore, DrmLink, Running, One
  <2>2. LockInv'
    BY <1>2, <1>3, <1>4, <1>5, <1>6 DEF Inv, Ctl, Same, But, otherVars, LockInv,
         DrmLocked, Prepare, Abort, Unprepare
  <2>3. HostInv'
    BY <1>2, <1>3, <1>4, <1>5, <1>6 DEF Inv, Ctl, Same, But, otherVars, HostInv,
         Running, HostAt, HostMayBe, EngineAt, SplashAt
  <2>4. EngineInv'
    BY <1>2, <1>3, <1>4, <1>5, <1>6 DEF Inv, Ctl, Same, But, otherVars, EngineInv,
         Sends, Running, One
  <2>5. PanelInv'
    BY <1>2, <1>3, <1>4, <1>5, <1>6 DEF Inv, Ctl, Same, But, otherVars, PanelInv,
         Prepare, Running, One
  <2>6. PhyInv'
    BY <1>2, <1>3, <1>4, <1>5, <1>6 DEF Inv, Ctl, Same, But, otherVars, PhyInv,
         HostInv, HostAt, HostMayBe, Running, PhyStays
  <2>7. CleanInv'
    BY <1>2, <1>3, <1>4, <1>5, <1>6 DEF Inv, Ctl, Same, But, otherVars, CleanInv,
         Running, Prepare, HostAt, Abort, Unprepare
  <2> QED
    BY <2>1, <2>2, <2>3, <2>4, <2>5, <2>6, <2>7 DEF Ctl
<1>9. BootInv'
  BY <1>5 DEF BootInv
<1> QED
  BY <1>4, <1>7, <1>8, <1>9 DEF Inv, HwInv

\* The PHY is enabled, or its timing fails.
LEMMA PhyEnableKeeps ==
  ASSUME Recovered, Inv, PhyEnable
  PROVE  Inv'
<1>1. PICK r \in PhyUp(hw) : Takes(r) /\ pc' = IF r.ok THEN "clkSrc" ELSE "aCoreOff"
  BY DEF PhyEnable, Step
<1>2. /\ Sound(r) /\ hw' = r.h /\ clean' \in BOOLEAN /\ faults' \in 0..MaxFaults
      /\ clean' => clean /\ r.hit = {}
      /\ hw.splash => r.hit = {}
  BY <1>1, TakesGives DEF Inv
<1>3. pc = "phyOn" /\ hw.core /\ hw.power /\ ~hw.host /\ UNCHANGED otherVars
  <2>1. pc = "phyOn" /\ UNCHANGED otherVars
    BY DEF PhyEnable, Step
  <2>2. hw.vote["dsi"]["core"] > 0
    BY <2>1 DEF Inv, Ctl, CoreVotes, DrmCore, One
  <2> QED
    BY <2>1, <2>2, Found DEF Inv, Ctl, HostInv, HostAt, HostMayBe, Running
<1>4. /\ r \in {Good(hw), Good([hw EXCEPT !.phyEngine = TRUE]), Failed(hw, "phy")}
      /\ r = Good(hw) => hw.panel.ulpsSuspend
  <2>1. CASE hw.panel.ulpsSuspend /\ hw.ulps
    BY <2>1 DEF PhyUp
  <2>2. CASE ~(hw.panel.ulpsSuspend /\ hw.ulps)
    <3>1. PhyReset(hw) = {Good(hw)}
      BY <1>3 DEF PhyReset, Allowed
    <3>2. r \in Then({Good(hw)}, PhyEngineOn)
      BY <2>2, <3>1 DEF PhyUp
    <3>3. PICK y \in PhyEngineOn(hw) : r = [y EXCEPT !.hit = @ \cup {}]
      <4>1. PICK x \in {Good(hw)} :
              \/ ~x.ok /\ r = x
              \/ x.ok /\ \E y \in PhyEngineOn(x.h) : r = [y EXCEPT !.hit = @ \cup x.hit]
        BY <3>2 DEF Then
      <4>2. x.ok /\ x.h = hw /\ x.hit = {}
        BY <4>1, GoodIs
      <4> QED
        BY <4>1, <4>2
    <3>4. y = Good([hw EXCEPT !.phyEngine = TRUE]) \/ y = Failed(hw, "phy")
      BY <3>3 DEF PhyEngineOn
    <3>5. r = y
      BY <3>3, <3>4 DEF Good, Failed
    <3>6. [hw EXCEPT !.phyEngine = TRUE] # hw \/ hw.panel.ulpsSuspend
      BY <1>3, Found DEF Typed, Inv, Ctl, PhyInv
    <3>7. r # Good(hw) \/ hw.panel.ulpsSuspend
      BY <3>4, <3>5, <3>6 DEF Good, Failed
    <3> QED
      BY <3>4, <3>5, <3>7
  <2> QED
    BY <2>1, <2>2
<1>5. /\ Coherent(hw') /\ Clocked(hw') /\ But({"phy"}, hw, hw')
      /\ r.ok => pc' = "clkSrc"
      /\ ~r.ok => pc' = "aCoreOff" /\ hw' = hw /\ ~clean' /\ ~hw.splash
  <2>1. CASE r = Good(hw)
    BY <1>1, <1>2, <2>1, Found, GoodIs DEF But
  <2>2. CASE r = Failed(hw, "phy")
    <3>1. hw' = hw /\ ~r.ok /\ r.hit # {}
      BY <1>2, <2>2, FailedIs
    <3> QED
      BY <1>1, <1>2, <3>1, Found DEF But
  <2>3. CASE r = Good([hw EXCEPT !.phyEngine = TRUE])
    <3>1. hw' = [hw EXCEPT !.phyEngine = TRUE] /\ r.ok
      BY <1>2, <2>3, GoodIs
    <3>2. /\ Typed(hw') /\ But({"phy"}, hw, hw') /\ hw'.sup = hw.sup
          /\ hw'.power = hw.power /\ hw'.phyPower = hw.phyPower /\ hw'.idle = hw.idle
          /\ hw'.clamp = hw.clamp /\ hw'.ulps = hw.ulps /\ hw'.lanes = hw.lanes
      BY <3>1, Found DEF Typed, But
    <3>3. hw.phyPower
      BY <1>3, Found
    <3>4. Coherent(hw') /\ Clocked(hw')
      BY <3>2, <3>3, Found DEF Coherent, Supplied, Powered, Parked, Clocked, Voted, But
    <3> QED
      BY <1>1, <3>1, <3>2, <3>4
  <2> QED
    BY <1>4, <2>1, <2>2, <2>3
<1>6. pc' \in {"clkSrc", "aCoreOff"} /\ (pc' = "aCoreOff" => hw' = hw /\ ~clean' /\ ~hw.splash)
  BY <1>1, <1>5
<1>7. TypeInv'
  BY <1>2, <1>3, <1>6 DEF Inv, TypeInv, Moving, Rest, Prepare, Abort, Unprepare,
       otherVars
<1>8. Ctl'
  <2>1. (CoreVotes /\ LinkVotes /\ MdpVotes)'
    BY <1>2, <1>3, <1>5, <1>6 DEF Inv, Ctl, Same, But, otherVars, CoreVotes, LinkVotes,
         MdpVotes, DrmCore, DrmLink, Running, One
  <2>2. LockInv'
    BY <1>2, <1>3, <1>5, <1>6 DEF Inv, Ctl, Same, But, otherVars, LockInv, DrmLocked,
         Prepare, Abort, Unprepare
  <2>3. HostInv'
    BY <1>2, <1>3, <1>5, <1>6 DEF Inv, Ctl, Same, But, otherVars, HostInv, Running,
         HostAt, HostMayBe, EngineAt, SplashAt
  <2>4. EngineInv'
    BY <1>2, <1>3, <1>5, <1>6 DEF Inv, Ctl, Same, But, otherVars, EngineInv, Sends,
         Running, One
  <2>5. PanelInv'
    BY <1>2, <1>3, <1>5, <1>6 DEF Inv, Ctl, Same, But, otherVars, PanelInv, Prepare,
         Running, One
  <2>6. PhyInv'
    BY <1>2, <1>3, <1>5, <1>6 DEF Inv, Ctl, Same, But, otherVars, PhyInv, HostInv,
         HostAt, HostMayBe, Running, PhyStays
  <2>7. CleanInv'
    BY <1>2, <1>3, <1>5, <1>6 DEF Inv, Ctl, Same, But, otherVars, CleanInv, Running,
         Prepare, HostAt, Abort, Unprepare
  <2> QED
    BY <2>1, <2>2, <2>3, <2>4, <2>5, <2>6, <2>7 DEF Ctl
<1>9. BootInv'
  BY <1>3, <1>6 DEF BootInv
<1> QED
  BY <1>5, <1>7, <1>8, <1>9 DEF Inv, HwInv


\* The clock source.
LEMMA SetClkSrcKeeps ==
  ASSUME Recovered, Inv, SetClkSrc
  PROVE  Inv'
<1>1. PICK r \in {Good(hw), Failed(hw, "clkSrc")} :
        Takes(r) /\ pc' = IF r.ok THEN "hostInit" ELSE "aPhyOff"
  BY DEF SetClkSrc, Step
<1>2. /\ Sound(r) /\ hw' = r.h /\ clean' \in BOOLEAN /\ faults' \in 0..MaxFaults
      /\ clean' => clean /\ r.hit = {}
      /\ hw.splash => r.hit = {}
  BY <1>1, TakesGives DEF Inv
<1>3. pc = "clkSrc" /\ UNCHANGED otherVars
  BY DEF SetClkSrc, Step
<1>4. hw' = hw /\ pc' \in {"hostInit", "aPhyOff"} /\ (pc' = "aPhyOff" => ~clean' /\ ~hw.splash)
  <2>1. CASE r = Good(hw)
    BY <1>1, <1>2, <2>1, GoodIs
  <2>2. CASE r = Failed(hw, "clkSrc")
    <3>1. hw' = hw /\ ~r.ok /\ r.hit # {}
      BY <1>2, <2>2, FailedIs
    <3> QED
      BY <1>1, <1>2, <3>1
  <2> QED
    BY <1>1, <2>1, <2>2
<1>5. Coherent(hw') /\ Clocked(hw')
  BY <1>4, Found
<1>6. TypeInv'
  BY <1>2, <1>3, <1>4 DEF Inv, TypeInv, Moving, Rest, Prepare, Abort, Unprepare,
       otherVars
<1>7. Ctl'
  <2>1. (CoreVotes /\ LinkVotes /\ MdpVotes)'
    BY <1>2, <1>3, <1>4 DEF Inv, Ctl, Same, But, otherVars, CoreVotes, LinkVotes,
         MdpVotes, DrmCore, DrmLink, Running, One
  <2>2. LockInv'
    BY <1>2, <1>3, <1>4 DEF Inv, Ctl, Same, But, otherVars, LockInv, DrmLocked,
         Prepare, Abort, Unprepare
  <2>3. HostInv'
    BY <1>2, <1>3, <1>4 DEF Inv, Ctl, Same, But, otherVars, HostInv, Running, HostAt,
         HostMayBe, EngineAt, SplashAt
  <2>4. EngineInv'
    BY <1>2, <1>3, <1>4 DEF Inv, Ctl, Same, But, otherVars, EngineInv, Sends, Running,
         One
  <2>5. PanelInv'
    BY <1>2, <1>3, <1>4 DEF Inv, Ctl, Same, But, otherVars, PanelInv, Prepare, Running,
         One
  <2>6. PhyInv'
    BY <1>2, <1>3, <1>4 DEF Inv, Ctl, Same, But, otherVars, PhyInv, HostInv, HostAt,
         HostMayBe, Running, PhyStays
  <2>7. CleanInv'
    BY <1>2, <1>3, <1>4 DEF Inv, Ctl, Same, But, otherVars, CleanInv, Running, Prepare,
         HostAt, Abort, Unprepare
  <2> QED
    BY <2>1, <2>2, <2>3, <2>4, <2>5, <2>6, <2>7 DEF Ctl
<1>8. BootInv'
  BY <1>3, <1>4 DEF BootInv
<1> QED
  BY <1>5, <1>6, <1>7, <1>8 DEF Inv, HwInv


\* The host is initialized, and the error handlers are there.
LEMMA CtrlInitKeeps ==
  ASSUME Recovered, Inv, CtrlInit
  PROVE  Inv'
<1>1. PICK r \in IF hw.panel.ulpsSuspend /\ hw.ulps THEN Ignored(HostInit(hw)) ELSE HostInit(hw) :
        Takes(r) /\ pc' = IF r.ok THEN "hostOn" ELSE "aPhyOff"
  BY DEF CtrlInit, Step
<1>2. /\ Sound(r) /\ hw' = r.h /\ clean' \in BOOLEAN /\ faults' \in 0..MaxFaults
      /\ clean' => clean /\ r.hit = {}
      /\ hw.splash => r.hit = {}
  BY <1>1, TakesGives DEF Inv
<1>3. /\ pc = "hostInit" /\ UNCHANGED <<back, lock, plock, job, isr>>
      /\ wq' = (wq \/ pc' = "hostOn")
  BY DEF CtrlInit, Step
<1>4. hw.core /\ hw.power /\ hw.host = FALSE
  <2>1. hw.vote["dsi"]["core"] > 0
    BY <1>3 DEF Inv, Ctl, CoreVotes, DrmCore, One
  <2> QED
    BY <1>3, <2>1, Found DEF Inv, Ctl, HostInv, HostAt, HostMayBe, Running, Typed
<1>5. r = Good([hw EXCEPT !.host = TRUE])
  <2>1. HostInit(hw) = {Good([hw EXCEPT !.host = TRUE])}
    BY <1>4 DEF HostInit, Allowed
  <2> QED
    BY <1>1, <2>1 DEF Ignored, Good
<1>6. hw' = [hw EXCEPT !.host = TRUE] /\ pc' = "hostOn"
  BY <1>1, <1>2, <1>5, GoodIs
<1>7. /\ Typed(hw') /\ Wires(hw') = Wires(hw) /\ hw'.sup = hw.sup /\ hw'.host = TRUE
      /\ But({"host"}, hw, hw')
  BY <1>6, Found DEF Typed, Wires, But
<1>8. /\ Coherent(hw') /\ Clocked(hw')
  <2>1. hw'.sup["panelPwr"].on <=> hw'.sup["panelPwr"].ref > 0
    BY <1>7, Found DEF Coherent, Supplied, Supply
  <2> QED
    BY <1>4, <1>7, <2>1, Found, StatesKeep DEF But
<1>9. TypeInv'
  BY <1>2, <1>3, <1>6 DEF Inv, TypeInv, Moving, Rest, Prepare, Abort, Unprepare,
       otherVars
<1>10. Ctl'
  <2>1. (CoreVotes /\ LinkVotes /\ MdpVotes)'
    BY <1>2, <1>3, <1>4, <1>6, <1>7 DEF Inv, Ctl, Same, But, otherVars, CoreVotes,
         LinkVotes, MdpVotes, DrmCore, DrmLink, Running, One
  <2>2. LockInv'
    BY <1>2, <1>3, <1>4, <1>6, <1>7 DEF Inv, Ctl, Same, But, otherVars, LockInv,
         DrmLocked, Prepare, Abort, Unprepare
  <2>3. HostInv'
    BY <1>2, <1>3, <1>4, <1>6, <1>7 DEF Inv, Ctl, Same, But, otherVars, HostInv,
         Running, HostAt, HostMayBe, EngineAt, SplashAt
  <2>4. EngineInv'
    BY <1>2, <1>3, <1>4, <1>6, <1>7 DEF Inv, Ctl, Same, But, otherVars, EngineInv,
         Sends, Running, One
  <2>5. PanelInv'
    BY <1>2, <1>3, <1>4, <1>6, <1>7 DEF Inv, Ctl, Same, But, otherVars, PanelInv,
         Prepare, Running, One
  <2>6. PhyInv'
    BY <1>2, <1>3, <1>4, <1>6, <1>7 DEF Inv, Ctl, Same, But, otherVars, PhyInv,
         HostInv, HostAt, HostMayBe, Running, PhyStays
  <2>7. CleanInv'
    BY <1>2, <1>3, <1>4, <1>6, <1>7 DEF Inv, Ctl, Same, But, otherVars, CleanInv,
         Running, Prepare, HostAt, Abort, Unprepare
  <2> QED
    BY <2>1, <2>2, <2>3, <2>4, <2>5, <2>6, <2>7 DEF Ctl
<1>11. BootInv'
  BY <1>3, <1>6 DEF BootInv
<1> QED
  BY <1>8, <1>9, <1>10, <1>11 DEF Inv, HwInv


\* The host's engine.
LEMMA HostEnableKeeps ==
  ASSUME Recovered, Inv, HostEnable
  PROVE  Inv'
<1>1. PICK r \in IF hw.splash THEN {Good(hw)} ELSE HostEngine(hw, TRUE) :
        Takes(r) /\ pc' = IF r.ok THEN "linkOn" ELSE "aHostDeinit"
  BY DEF HostEnable, Step
<1>2. /\ Sound(r) /\ hw' = r.h /\ clean' \in BOOLEAN /\ faults' \in 0..MaxFaults
      /\ clean' => clean /\ r.hit = {}
      /\ hw.splash => r.hit = {}
  BY <1>1, TakesGives DEF Inv
<1>3. pc = "hostOn" /\ UNCHANGED otherVars
  BY DEF HostEnable, Step
<1>4. /\ hw.core /\ hw.power /\ hw.host = TRUE
      /\ hw.engine = hw.splash
  <2>1. hw.vote["dsi"]["core"] > 0
    BY <1>3 DEF Inv, Ctl, CoreVotes, DrmCore, One
  <2> QED
    BY <1>3, <2>1, Found DEF Inv, Ctl, HostInv, HostAt, EngineAt, Running, Typed
<1>5. r = Good([hw EXCEPT !.engine = TRUE])
  <2>1. CASE hw.splash
    <3>1. [hw EXCEPT !.engine = TRUE] = hw
      BY <1>4, <2>1, Found DEF Typed
    <3> QED
      BY <1>1, <2>1, <3>1
  <2>2. CASE ~hw.splash
    BY <1>1, <1>4, <2>2 DEF HostEngine, Allowed
  <2> QED
    BY <2>1, <2>2
<1>6. hw' = [hw EXCEPT !.engine = TRUE] /\ pc' = "linkOn"
  BY <1>1, <1>2, <1>5, GoodIs
<1>7. /\ Typed(hw') /\ Wires(hw') = Wires(hw) /\ hw'.sup = hw.sup /\ hw'.engine = TRUE
      /\ But({"engine"}, hw, hw')
  BY <1>6, Found DEF Typed, Wires, But
<1>8. /\ Coherent(hw') /\ Clocked(hw')
  <2>1. hw'.sup["panelPwr"].on <=> hw'.sup["panelPwr"].ref > 0
    BY <1>7, Found DEF Coherent, Supplied, Supply
  <2> QED
    BY <1>7, <2>1, Found, StatesKeep DEF But
<1>9. TypeInv'
  BY <1>2, <1>3, <1>6 DEF Inv, TypeInv, Moving, Rest, Prepare, Abort, Unprepare,
       otherVars
<1>10. Ctl'
  <2>1. (CoreVotes /\ LinkVotes /\ MdpVotes)'
    BY <1>2, <1>3, <1>4, <1>6, <1>7 DEF Inv, Ctl, Same, But, otherVars, CoreVotes,
         LinkVotes, MdpVotes, DrmCore, DrmLink, Running, One
  <2>2. LockInv'
    BY <1>2, <1>3, <1>4, <1>6, <1>7 DEF Inv, Ctl, Same, But, otherVars, LockInv,
         DrmLocked, Prepare, Abort, Unprepare
  <2>3. HostInv'
    BY <1>2, <1>3, <1>4, <1>6, <1>7 DEF Inv, Ctl, Same, But, otherVars, HostInv,
         Running, HostAt, HostMayBe, EngineAt, SplashAt
  <2>4. EngineInv'
    BY <1>2, <1>3, <1>4, <1>6, <1>7 DEF Inv, Ctl, Same, But, otherVars, EngineInv,
         Sends, Running, One
  <2>5. PanelInv'
    BY <1>2, <1>3, <1>4, <1>6, <1>7 DEF Inv, Ctl, Same, But, otherVars, PanelInv,
         Prepare, Running, One
  <2>6. PhyInv'
    BY <1>2, <1>3, <1>4, <1>6, <1>7 DEF Inv, Ctl, Same, But, otherVars, PhyInv,
         HostInv, HostAt, HostMayBe, Running, PhyStays
  <2>7. CleanInv'
    BY <1>2, <1>3, <1>4, <1>6, <1>7 DEF Inv, Ctl, Same, But, otherVars, CleanInv,
         Running, Prepare, HostAt, Abort, Unprepare
  <2> QED
    BY <2>1, <2>2, <2>3, <2>4, <2>5, <2>6, <2>7 DEF Ctl
<1>11. BootInv'
  BY <1>3, <1>6 DEF BootInv
<1> QED
  BY <1>8, <1>9, <1>10, <1>11 DEF Inv, HwInv

-----------------------------------------------------------------------------
(* The panel's power.                                                      *)

\* The panel's supply, taken.
LEMMA PanelPwrIs ==
  ASSUME NEW h, Coherent(h), Clocked(h), NEW x \in [ref : Nat, on : BOOLEAN],
         x.on <=> x.ref > 0, NEW g, g = [h EXCEPT !.sup["panelPwr"] = x]
  PROVE  /\ Coherent(g) /\ Clocked(g) /\ But({"panelPwr"}, h, g)
         /\ g.sup["panelPwr"].ref = x.ref
<1>1. Typed(h) /\ "panelPwr" \in Supply
  BY DEF Coherent, Supply
<1>2. g.sup = [h.sup EXCEPT !["panelPwr"] = x]
  BY <1>1 DEF Typed
<1>3. [h.sup EXCEPT !["panelPwr"] = x] \in Supplies
  BY <1>1 DEF Typed, Supplies
<1>4. g = [h EXCEPT !.sup = g.sup]
  BY <1>1, <1>2 DEF Typed
<1>5. /\ Typed(g) /\ Wires(g) = Wires(h) /\ But({"panelPwr"}, h, g)
  BY <1>1, <1>2, <1>3, <1>4 DEF Typed, Wires, But
<1>6. /\ g.sup["panelPwr"] = x
      /\ \A s \in Supply \ {"panelPwr"} : g.sup[s] = h.sup[s]
  BY <1>1, <1>2 DEF Typed, Supplies
<1>7. g.sup["panelPwr"].ref = x.ref /\ (g.sup["panelPwr"].on <=> x.ref > 0)
  BY <1>6
<1>8. g.host = h.host /\ g.esd = h.esd /\ g.init = h.init
  BY <1>5 DEF But
<1> QED
  BY <1>5, <1>6, <1>7, <1>8, StatesKeep

\* The panel's supply, given back or not held.
LEMMA SupplyOffGives ==
  ASSUME NEW h, Coherent(h), Clocked(h), h.sup["panelPwr"].ref \in {0, 1},
         NEW g, g = SupplyOff(h, "panelPwr")
  PROVE  /\ Coherent(g) /\ Clocked(g) /\ But({"panelPwr"}, h, g)
         /\ g.sup["panelPwr"].ref = 0
<1>1. Typed(h) /\ "panelPwr" \in Supply
  BY DEF Coherent, Supply
<1>2. CASE h.sup["panelPwr"].ref = 0
  <2>1. g = [h EXCEPT !.sup["panelPwr"] = h.sup["panelPwr"]]
    BY <1>2 DEF SupplyOff
  <2>2. g = h
    BY <1>1, <2>1 DEF Typed, Supplies
  <2> QED
    BY <1>2, <2>2 DEF But
<1>3. CASE h.sup["panelPwr"].ref = 1
  <2> DEFINE x == [ref |-> h.sup["panelPwr"].ref - 1,
                   on |-> h.sup["panelPwr"].on /\ h.sup["panelPwr"].ref > 1]
  <2>1. g = [h EXCEPT !.sup["panelPwr"] = x]
    BY <1>3 DEF SupplyOff
  <2>2. x \in [ref : Nat, on : BOOLEAN] /\ x.ref = 0 /\ (x.on <=> x.ref > 0)
    <3>1. h.sup["panelPwr"].ref - 1 = 0 /\ ~(h.sup["panelPwr"].ref > 1)
      BY <1>3
    <3>2. x = [ref |-> 0, on |-> FALSE]
      BY <3>1
    <3> QED
      BY <3>2
  <2> HIDE DEF x
  <2> QED
    BY <2>1, <2>2, PanelPwrIs
<1> QED
  BY <1>2, <1>3

\* A panel that fails to power up gives its supply back.
LEMMA PanelPowerGives ==
  ASSUME NEW h, Coherent(h), Clocked(h), h.sup["panelPwr"].ref = 0,
         NEW r \in PanelPower(h)
  PROVE  /\ Outcome(r)
         /\ Sound(r) =>
              /\ Coherent(r.h) /\ Clocked(r.h) /\ But({"panelPwr"}, h, r.h)
              /\ r.ok => r.h.sup["panelPwr"].ref = 1
              /\ ~r.ok => r.h.sup["panelPwr"].ref = 0 /\ r.hit # {}
<1> DEFINE Reset(g) == {Good(g), Failed(SupplyOff(g, "panelPwr"), "reset")}
<1> HIDE DEF Reset
<1>1. PICK x \in SupplyOn(h, "panelPwr") :
        \/ ~x.ok /\ r = x
        \/ x.ok /\ \E y \in Reset(x.h) : r = [y EXCEPT !.hit = @ \cup x.hit]
  BY DEF PanelPower, Then, Reset
<1>2. Outcome(x) /\ (x.ok \/ "panelPwr" \notin x.hit => x = Good(Taken(h, "panelPwr")))
  BY SupplyOnGives
<1>3. CASE ~x.ok
  BY <1>1, <1>2, <1>3, GoodIs DEF Sound, Bad, Supply
<1>4. CASE x.ok
  <2>1. x.h = Taken(h, "panelPwr") /\ x.hit = {}
    BY <1>2, <1>4, GoodIs
  <2>2. PICK y \in Reset(x.h) : r = [y EXCEPT !.hit = @ \cup x.hit]
    BY <1>1, <1>4
  <2>3. /\ Coherent(x.h) /\ Clocked(x.h) /\ But({"panelPwr"}, h, x.h)
        /\ x.h.sup["panelPwr"].ref = 1
    <3> DEFINE z == [ref |-> h.sup["panelPwr"].ref + 1,
                     on |-> h.sup["panelPwr"].on \/ h.sup["panelPwr"].ref = 0]
    <3>1. x.h = [h EXCEPT !.sup["panelPwr"] = z]
      BY <2>1 DEF Taken
    <3>2. z \in [ref : Nat, on : BOOLEAN] /\ z.ref = 1 /\ (z.on <=> z.ref > 0)
      <4>1. h.sup["panelPwr"].ref + 1 = 1 /\ h.sup["panelPwr"].ref = 0
        OBVIOUS
      <4>2. z = [ref |-> 1, on |-> TRUE]
        BY <4>1
      <4> QED
        BY <4>2
    <3> HIDE DEF z
    <3> DEFINE k == x.h
    <3>3. k = [h EXCEPT !.sup["panelPwr"] = z]
      BY <3>1
    <3> HIDE DEF k
    <3>4. /\ Coherent(k) /\ Clocked(k) /\ But({"panelPwr"}, h, k)
          /\ k.sup["panelPwr"].ref = z.ref
      BY <3>2, <3>3, PanelPwrIs
    <3> QED
      BY <3>2, <3>4 DEF k
  <2>4. CASE y = Good(x.h)
    BY <2>1, <2>2, <2>3, <2>4, GoodIs, Follows
  <2>5. CASE y = Failed(SupplyOff(x.h, "panelPwr"), "reset")
    <3>1. Outcome(y) /\ ~y.ok /\ y.h = SupplyOff(x.h, "panelPwr") /\ y.hit = {"reset"}
      BY <2>5, FailedIs
    <3>2. Outcome(r) /\ r.h = y.h /\ r.ok = y.ok /\ r.hit = y.hit \cup x.hit
      BY <2>2, <3>1, Follows
    <3>3. Coherent(r.h) /\ Clocked(r.h) /\ But({"panelPwr"}, x.h, r.h) /\ r.h.sup["panelPwr"].ref = 0
      BY <2>3, <3>1, <3>2, SupplyOffGives
    <3>4. But({"panelPwr"}, h, r.h)
      BY <2>3, <3>3 DEF But
    <3> QED
      BY <3>1, <3>2, <3>3, <3>4
  <2> QED
    BY <2>2, <2>4, <2>5 DEF Reset
<1> QED
  BY <1>3, <1>4

\* A panel that powers up before LP-11.
LEMMA PanelPrePrepareKeeps ==
  ASSUME Recovered, Inv, PanelPrePrepare
  PROVE  Inv'
<1>1. PICK r \in IF hw.panel.lp11 THEN {Good(hw)} ELSE PanelPower(hw) :
        /\ Takes(r)
        /\ pc' = IF r.ok THEN "coreOn" ELSE "preEnabled"
        /\ lock' = IF r.ok THEN lock ELSE "none"
  BY DEF PanelPrePrepare
<1>2. /\ Sound(r) /\ hw' = r.h /\ clean' \in BOOLEAN /\ faults' \in 0..MaxFaults
      /\ clean' => clean /\ r.hit = {}
      /\ hw.splash => r.hit = {}
  BY <1>1, TakesGives DEF Inv
<1>3. pc = "panelOn" /\ plock = "none" /\ UNCHANGED <<back, plock, job, isr, wq>>
  BY DEF PanelPrePrepare, PanelFree
<1>4. ~hw.splash /\ ~hw.host /\ hw.sup["panelPwr"].ref = 0 /\ lock = "drm"
  BY <1>3 DEF Inv, Ctl, HostInv, SplashAt, PanelInv, HostAt, HostMayBe, Running, LockInv,
              DrmLocked, Prepare
<1>5. /\ Coherent(hw') /\ Clocked(hw') /\ But({"panelPwr"}, hw, hw')
      /\ r.ok => pc' = "coreOn" /\ lock' = "drm" /\ hw'.sup["panelPwr"].ref = One(~hw.panel.lp11)
      /\ ~r.ok => /\ pc' = "preEnabled" /\ lock' = "none" /\ ~clean'
                  /\ hw'.sup["panelPwr"].ref = 0
  <2>1. CASE hw.panel.lp11
    <3>1. r = Good(hw)
      BY <1>1, <2>1
    <3> QED
      BY <1>1, <1>2, <1>4, <2>1, <3>1, Found, GoodIs DEF But, One
  <2>2. CASE ~hw.panel.lp11
    <3>1. r \in PanelPower(hw)
      BY <1>1, <2>2
    <3>2. /\ Coherent(r.h) /\ Clocked(r.h) /\ But({"panelPwr"}, hw, r.h)
          /\ r.ok => r.h.sup["panelPwr"].ref = 1
          /\ ~r.ok => r.h.sup["panelPwr"].ref = 0 /\ r.hit # {}
      BY <1>2, <1>4, <3>1, Found, PanelPowerGives
    <3> QED
      BY <1>1, <1>2, <1>4, <2>2, <3>2 DEF One
  <2> QED
    BY <2>1, <2>2
<1>6. \/ /\ pc' = "coreOn" /\ lock' = "drm" /\ hw'.sup["panelPwr"].ref = One(~hw.panel.lp11)
      \/ /\ pc' = "preEnabled" /\ lock' = "none" /\ ~clean' /\ hw'.sup["panelPwr"].ref = 0
  BY <1>5
<1>7. TypeInv'
  BY <1>2, <1>3, <1>6 DEF Inv, TypeInv, Moving, Rest, Prepare, Abort, Unprepare,
       otherVars
<1>8. Ctl'
  <2>1. (CoreVotes /\ LinkVotes /\ MdpVotes)'
    BY <1>2, <1>3, <1>4, <1>5, <1>6, JobsAssumption DEF Inv, Ctl, Same, But, otherVars,
         CoreVotes, LinkVotes, MdpVotes, DrmCore, DrmLink, Running, One
  <2>2. LockInv'
    BY <1>2, <1>3, <1>4, <1>5, <1>6, JobsAssumption DEF Inv, Ctl, Same, But, otherVars,
         LockInv, DrmLocked, Prepare, Abort, Unprepare, DisplayJobs, PanelJobs, Busy
  <2>3. HostInv'
    BY <1>2, <1>3, <1>4, <1>5, <1>6 DEF Inv, Ctl, Same, But, otherVars, HostInv,
         Running, HostAt, HostMayBe, EngineAt, SplashAt
  <2>4. EngineInv'
    BY <1>2, <1>3, <1>4, <1>5, <1>6 DEF Inv, Ctl, Same, But, otherVars, EngineInv,
         Sends, Running, One
  <2>5. PanelInv'
    BY <1>2, <1>3, <1>4, <1>5, <1>6 DEF Inv, Ctl, Same, But, otherVars, PanelInv,
         Prepare, Running, One
  <2>6. PhyInv'
    BY <1>2, <1>3, <1>4, <1>5, <1>6 DEF Inv, Ctl, Same, But, otherVars, PhyInv,
         HostInv, HostAt, HostMayBe, Running, PhyStays
  <2>7. CleanInv'
    BY <1>2, <1>3, <1>4, <1>5, <1>6 DEF Inv, Ctl, Same, But, otherVars, CleanInv,
         Running, Prepare, HostAt, Abort, Unprepare
  <2> QED
    BY <2>1, <2>2, <2>3, <2>4, <2>5, <2>6, <2>7 DEF Ctl
<1>9. BootInv'
  BY <1>6 DEF BootInv
<1> QED
  BY <1>5, <1>7, <1>8, <1>9 DEF Inv, HwInv

-----------------------------------------------------------------------------
(* The engines and the panel's state.                                      *)

\* A change that leaves wires and supplies alone.
LEMMA StateKeeps ==
  ASSUME NEW h, Coherent(h), Clocked(h), NEW g, Typed(g), Wires(g) = Wires(h), g.sup = h.sup,
         g.host = h.host \/ h.power,
         g.esd => h.esd \/ h.link = h.core,
         h.init => g.init \/ h.link \/ h.panel.ulpsSuspend
  PROVE  Coherent(g) /\ Clocked(g)
<1>1. h.sup["panelPwr"].on <=> h.sup["panelPwr"].ref > 0
  BY DEF Coherent, Supplied, Supply
<1> QED
  BY <1>1, StatesKeep

\* The panel counts as initialized, or not any more while its link runs.
LEMMA InitIs ==
  ASSUME NEW h, Coherent(h), Clocked(h), NEW b \in BOOLEAN, h.init => b \/ h.link,
         NEW g, g = [h EXCEPT !.init = b]
  PROVE  Coherent(g) /\ Clocked(g) /\ But({"init"}, h, g) /\ g.init = b
<1>1. Typed(h)
  BY DEF Coherent
<1>2. /\ Typed(g) /\ Wires(g) = Wires(h) /\ g.sup = h.sup /\ g.init = b
      /\ But({"init"}, h, g)
  BY <1>1 DEF Typed, Wires, But
<1> QED
  BY <1>2, StateKeeps DEF But

\* The command engine with one user more.
LEMMA EngagedIs ==
  ASSUME NEW h, Coherent(h), Clocked(h), Counted(h)
  PROVE  /\ Coherent(Engaged(h)) /\ Clocked(Engaged(h)) /\ Counted(Engaged(h))
         /\ But({"cmd"}, h, Engaged(h)) /\ Engaged(h).cmdRef = h.cmdRef + 1
<1>1. Typed(h)
  BY DEF Coherent
<1> DEFINE g == Engaged(h)
<1>2. Typed(g) /\ Counted(g) /\ g.cmdRef = h.cmdRef + 1
  BY <1>1, EngagedGives
<1>3. Wires(g) = Wires(h) /\ g.sup = h.sup /\ But({"cmd"}, h, g)
  BY <1>1 DEF Typed, Wires, But, Engaged
<1> HIDE DEF g
<1>4. Coherent(g) /\ Clocked(g)
  BY <1>2, <1>3, StateKeeps DEF But
<1> QED
  BY <1>2, <1>3, <1>4 DEF g

\* The command engine with one user less.
LEMMA ReleasedGives ==
  ASSUME NEW h, Coherent(h), Clocked(h), Counted(h), NEW r \in CmdEngineOff(h),
         h.cmdRef > 0 => h.power /\ h.engine
  PROVE  /\ Outcome(r) /\ r.hit = {} /\ Coherent(r.h) /\ Clocked(r.h) /\ Counted(r.h)
         /\ But({"cmd"}, h, r.h)
         /\ r.h.cmdRef = IF h.cmdRef = 0 THEN 0 ELSE h.cmdRef - 1
<1>1. Typed(h) /\ h.cmdRef \in Nat
  BY DEF Coherent, Typed
<1>2. /\ Outcome(r) /\ r.hit = {}
      /\ h.cmdRef = 0 => r.h = h
      /\ h.cmdRef > 1 => r.h = [h EXCEPT !.cmdRef = h.cmdRef - 1]
      /\ h.cmdRef = 1 => r.h = [[h EXCEPT !.cmdRef = 0] EXCEPT !.cmd = FALSE]
  <2>1. h.cmdRef = 1 => h.power /\ h.engine
    BY <1>1
  <2> QED
    BY <1>1, <2>1, CmdEngineOffGives
<1> DEFINE g == r.h
<1>3. /\ Typed(g) /\ Counted(g) /\ Wires(g) = Wires(h) /\ g.sup = h.sup
      /\ But({"cmd"}, h, g) /\ g.cmdRef = IF h.cmdRef = 0 THEN 0 ELSE h.cmdRef - 1
  <2>1. CASE h.cmdRef = 0
    BY <1>1, <1>2, <2>1 DEF Typed, Counted, Wires, But
  <2>2. CASE h.cmdRef > 1
    <3>1. g = [h EXCEPT !.cmdRef = h.cmdRef - 1] /\ h.cmdRef - 1 \in Nat /\ h.cmdRef - 1 > 0
      BY <1>1, <1>2, <2>2
    <3> HIDE DEF g
    <3>2. Typed(g) /\ Wires(g) = Wires(h) /\ g.sup = h.sup /\ But({"cmd"}, h, g)
          /\ g.cmdRef = h.cmdRef - 1 /\ g.cmd = h.cmd
      BY <1>1, <3>1 DEF Typed, Wires, But
    <3>0. h.cmdRef > 0
      BY <1>1, <2>2
    <3>3. h.cmd
      BY <3>0 DEF Counted
    <3>4. Counted(g)
      BY <3>1, <3>2, <3>3 DEF Counted
    <3>5. h.cmdRef # 0
      BY <2>2
    <3> QED
      BY <3>2, <3>4, <3>5
  <2>3. CASE h.cmdRef = 1
    <3>1. g = [[h EXCEPT !.cmdRef = 0] EXCEPT !.cmd = FALSE]
      BY <1>2, <2>3
    <3> HIDE DEF g
    <3> DEFINE k == [h EXCEPT !.cmdRef = 0]
    <3>2. Typed(k) /\ Wires(k) = Wires(h) /\ k.sup = h.sup /\ But({"cmd"}, h, k) /\ k.cmdRef = 0
      BY <1>1 DEF Typed, Wires, But
    <3>3. g = [k EXCEPT !.cmd = FALSE]
      BY <3>1
    <3> HIDE DEF k
    <3>4. Typed(g) /\ Wires(g) = Wires(k) /\ g.sup = k.sup /\ But({"cmd"}, k, g)
          /\ g.cmdRef = k.cmdRef /\ g.cmd = FALSE
      BY <3>2, <3>3 DEF Typed, Wires, But
    <3> QED
      BY <2>3, <3>2, <3>4 DEF Counted, But
  <2> QED
    BY <1>1, <2>1, <2>2, <2>3
<1> HIDE DEF g
<1>4. Coherent(g) /\ Clocked(g)
  BY <1>3, StateKeeps DEF But
<1> QED
  BY <1>2, <1>3, <1>4 DEF g

\* The engine of the panel's mode, on a controller that is ready for it.
LEMMA EngineOnGives ==
  ASSUME NEW h, Coherent(h), Clocked(h), Counted(h), h.power, h.engine, ~h.vid,
         NEW r \in EngineOn(h)
  PROVE  /\ Outcome(r) /\ r.ok /\ r.hit = {} /\ Coherent(r.h) /\ Clocked(r.h) /\ Counted(r.h)
         /\ But({"cmd", "vid"}, h, r.h)
         /\ r.h.cmdRef = h.cmdRef + One(h.panel.cmdMode)
         /\ r.h.vid <=> ~h.panel.cmdMode
<1>1. Typed(h)
  BY DEF Coherent
<1>2. CASE h.panel.cmdMode
  <2>1. r \in CmdEngineOn(h)
    BY <1>2 DEF EngineOn
  <2>2. Outcome(r) /\ r.hit = {} /\ r.ok /\ r.h = Engaged(h)
    BY <1>1, <2>1, CmdEngineOnGives
  <2>3. /\ Coherent(r.h) /\ Clocked(r.h) /\ Counted(r.h) /\ But({"cmd"}, h, r.h)
        /\ r.h.cmdRef = h.cmdRef + 1
    BY <2>2, EngagedIs
  <2>4. But({"cmd", "vid"}, h, r.h) /\ ~r.h.vid
    BY <2>3 DEF But
  <2>5. One(h.panel.cmdMode) = 1
    BY <1>2 DEF One
  <2> QED
    BY <1>2, <2>2, <2>3, <2>4, <2>5
<1>3. CASE ~h.panel.cmdMode
  <2> DEFINE g == [h EXCEPT !.vid = TRUE]
  <2>1. r = Good(g)
    BY <1>1, <1>3 DEF EngineOn, VidEngine, Allowed, Typed
  <2>2. /\ Typed(g) /\ Wires(g) = Wires(h) /\ g.sup = h.sup /\ But({"vid"}, h, g) /\ g.vid
    BY <1>1 DEF Typed, Wires, But
  <2> HIDE DEF g
  <2>3. Coherent(g) /\ Clocked(g)
    BY <2>2, StateKeeps DEF But
  <2>4. Counted(g) /\ g.cmdRef = h.cmdRef + One(h.panel.cmdMode) /\ h.cmdRef \in Nat
    BY <1>1, <1>3, <2>2 DEF Counted, But, One, Typed
  <2> QED
    BY <1>3, <2>1, <2>2, <2>3, <2>4, GoodIs DEF But
<1> QED
  BY <1>2, <1>3

\* A command leaves votes and clocks as it found them.
LEMMA CommandKeeps ==
  ASSUME NEW h, Coherent(h), Clocked(h), Counted(h), Sensible(h, h.vote),
         NEW r \in Transfer(h), Sound(r)
  PROVE  /\ Outcome(r) /\ Coherent(r.h) /\ Clocked(r.h) /\ PhyStays(h, r.h)
         /\ But({"phy"}, h, r.h)
         /\ h.host /\ h.engine => r.ok \/ r.hit # {}
<1>1. /\ Outcome(r) /\ Coherent(r.h) /\ Clocked(r.h) /\ Same(h, r.h) /\ r.h.vote = h.vote
      /\ h.host /\ h.engine => r.ok \/ r.hit # {}
  BY CommandGives
<1>2. r.h.core = h.core /\ r.h.link = h.link
  BY <1>1 DEF Clocked, Voted
<1> QED
  BY <1>1, <1>2 DEF Same, But

\* The same when nobody looks at the result.
LEMMA CommandIgnored ==
  ASSUME NEW h, Coherent(h), Clocked(h), Counted(h), Sensible(h, h.vote),
         NEW r \in Ignored(Transfer(h)), Sound(r)
  PROVE  /\ Outcome(r) /\ r.ok /\ Coherent(r.h) /\ Clocked(r.h) /\ PhyStays(h, r.h)
         /\ But({"phy"}, h, r.h)
<1>1. PICK x \in Transfer(h) : r = [x EXCEPT !.ok = TRUE]
  BY DEF Ignored
<1>2. Shape(x)
  BY <1>1, TransferGives
<1>3. /\ Outcome(r) /\ r.ok /\ r.h = x.h /\ r.hit = x.hit
  BY <1>1, <1>2 DEF Shape, Outcome
<1> QED
  BY <1>1, <1>3, CommandKeeps DEF Sound

\* Clocks that the driver does not hold are not given back.
LEMMA NoneGiven ==
  ASSUME NEW h, Typed(h), NEW ks \in SUBSET Clock, \A k \in ks : h.vote["dsi"][k] = 0
  PROVE  Request(h, "dsi", ks, FALSE) = {Good(h)}
<1> DEFINE w == [k \in Clock |-> IF k \notin ks THEN h.vote["dsi"][k] ELSE
                       IF h.vote["dsi"][k] = 0 THEN 0 ELSE h.vote["dsi"][k] - 1]
<1>1. "dsi" \in Client
  BY DEF Client
<1>2. w = h.vote["dsi"]
  BY <1>1 DEF Typed, Votes
<1>3. Request(h, "dsi", ks, FALSE) =
        IF \E k \in ks : (w[k] > 0) # (h.vote["dsi"][k] > 0)
          THEN Recheck([h EXCEPT !.vote["dsi"] = w]) ELSE {Good([h EXCEPT !.vote["dsi"] = w])}
  BY DEF Request
<1> HIDE DEF w
<1>4. [h EXCEPT !.vote["dsi"] = w] = h
  BY <1>1, <1>2 DEF Typed, Votes
<1>5. ~ \E k \in ks : (w[k] > 0) # (h.vote["dsi"][k] > 0)
  BY <1>2
<1> QED
  BY <1>3, <1>4, <1>5

-----------------------------------------------------------------------------
(* dsi_panel_prepare and dsi_display_enable.                               *)

\* Soft reset, power after LP-11, PRE_ON commands.
LEMMA PanelPrepareKeeps ==
  ASSUME Recovered, Inv, PanelPrepare
  PROVE  Inv'
<1> DEFINE Reset(g) == {Good(g), Failed(g, "softReset")}
           Power(g) == IF g.panel.lp11 THEN PanelPower(g) ELSE {Good(g)}
<1>1. PICK r \in IF hw.splash THEN {Good(hw)} ELSE Then(Then(Reset(hw), Power), Transfer) :
        Takes(r) /\ pc' = IF r.ok THEN "enable" ELSE "aLinkOff"
  BY DEF PanelPrepare, Step, Reset, Power
<1> HIDE DEF Reset, Power
<1>2. /\ Sound(r) /\ hw' = r.h /\ clean' \in BOOLEAN /\ faults' \in 0..MaxFaults
      /\ clean' => clean /\ r.hit = {}
      /\ hw.splash => r.hit = {}
  BY <1>1, TakesGives DEF Inv
<1>3. /\ pc = "panelPrepare" /\ plock = "none" /\ UNCHANGED <<back, plock, job, isr, wq>>
      /\ lock' = IF pc' = "enable" THEN "none" ELSE lock
  BY DEF PanelPrepare, PanelFree, Step
<1>4. /\ hw.host /\ hw.engine /\ lock = "drm" /\ ~hw.init
      /\ hw.sup["panelPwr"].ref = One(hw.splash \/ ~hw.panel.lp11)
  BY <1>3 DEF Inv, Ctl, HostInv, SplashAt, PanelInv, HostAt, EngineAt, HostMayBe, Running,
              LockInv, DrmLocked, Prepare
<1>5. /\ Coherent(hw') /\ Clocked(hw') /\ But({"panelPwr", "phy"}, hw, hw')
      /\ hw'.sup["panelPwr"].ref \in {0, 1}
      /\ r.ok => hw'.sup["panelPwr"].ref = 1
      /\ ~r.ok => ~hw.splash /\ r.hit # {}
  <2>1. CASE hw.splash
    <3>1. hw' = hw /\ r.ok
      BY <1>1, <1>2, <2>1, GoodIs
    <3> QED
      BY <1>4, <2>1, <3>1, Found DEF But, One
  <2>2. CASE ~hw.splash
    <3>1. r \in Then(Then(Reset(hw), Power), Transfer)
      BY <1>1, <2>2
    <3>2. PICK y \in Then(Reset(hw), Power) :
            \/ ~y.ok /\ r = y
            \/ y.ok /\ \E z \in Transfer(y.h) : r = [z EXCEPT !.hit = @ \cup y.hit]
      BY <3>1 DEF Then
    <3>3. /\ Outcome(y)
          /\ Sound(y) => /\ Coherent(y.h) /\ Clocked(y.h) /\ But({"panelPwr"}, hw, y.h)
                         /\ y.h.sup["panelPwr"].ref \in {0, 1}
                         /\ y.ok => y.h.sup["panelPwr"].ref = 1
                         /\ ~y.ok => y.hit # {}
      <4>1. PICK x \in Reset(hw) :
              \/ ~x.ok /\ y = x
              \/ x.ok /\ \E z \in Power(x.h) : y = [z EXCEPT !.hit = @ \cup x.hit]
        BY <3>2 DEF Then
      <4>2. CASE x = Failed(hw, "softReset")
        <5>1. y = Failed(hw, "softReset")
          BY <4>1, <4>2, FailedIs
        <5>2. hw.sup["panelPwr"].ref \in {0, 1}
          BY <1>4 DEF One
        <5> QED
          BY <5>1, <5>2, FailedIs, Found DEF But
      <4>3. CASE x = Good(hw)
        <5>1. PICK z \in Power(hw) : y = [z EXCEPT !.hit = @ \cup x.hit]
          BY <4>1, <4>3, GoodIs
        <5>2. CASE hw.panel.lp11
          <6>1. hw.sup["panelPwr"].ref = 0 /\ z \in PanelPower(hw)
            BY <1>4, <2>2, <5>1, <5>2 DEF Power, One
          <6>2. /\ Outcome(z)
                /\ Sound(z) =>
                     /\ Coherent(z.h) /\ Clocked(z.h) /\ But({"panelPwr"}, hw, z.h)
                     /\ z.ok => z.h.sup["panelPwr"].ref = 1
                     /\ ~z.ok => z.h.sup["panelPwr"].ref = 0 /\ z.hit # {}
            BY <6>1, Found, PanelPowerGives
          <6>3. Outcome(y) /\ y.h = z.h /\ y.ok = z.ok /\ y.hit = z.hit
            BY <4>3, <5>1, <6>2, Follows, GoodIs
          <6> QED
            BY <6>2, <6>3 DEF Sound
        <5>3. CASE ~hw.panel.lp11
          <6>1. hw.sup["panelPwr"].ref = 1 /\ z = Good(hw)
            BY <1>4, <5>1, <5>3 DEF Power, One
          <6>2. Outcome(y) /\ y.h = hw /\ y.ok
            BY <5>1, <6>1, Follows, GoodIs
          <6> QED
            BY <6>1, <6>2, Found DEF But
        <5> QED
          BY <5>2, <5>3
      <4> QED
        BY <4>2, <4>3 DEF Reset
    <3>4. CASE ~y.ok /\ r = y
      BY <1>2, <2>2, <3>3, <3>4 DEF But
    <3>5. CASE y.ok /\ \E z \in Transfer(y.h) : r = [z EXCEPT !.hit = @ \cup y.hit]
      <4>1. PICK z \in Transfer(y.h) : r = [z EXCEPT !.hit = @ \cup y.hit]
        BY <3>5
      <4>2. Shape(z)
        BY TransferGives
      <4>3. /\ r.h = z.h /\ r.ok = z.ok /\ r.hit = z.hit \cup y.hit
            /\ Sound(y) /\ Sound(z)
        BY <1>2, <4>1, <4>2, ShapeFollows
      <4>4. /\ Coherent(y.h) /\ Clocked(y.h) /\ But({"panelPwr"}, hw, y.h)
            /\ y.h.sup["panelPwr"].ref = 1
        BY <3>3, <3>5, <4>3
      <4>5. Counted(y.h) /\ Sensible(y.h, y.h.vote) /\ y.h.host /\ y.h.engine
        BY <1>4, <4>4, Found DEF But, Counted, Sensible
      <4>6. /\ Coherent(z.h) /\ Clocked(z.h) /\ But({"phy"}, y.h, z.h)
            /\ z.ok \/ z.hit # {}
        BY <4>3, <4>4, <4>5, CommandKeeps
      <4>7. But({"panelPwr", "phy"}, hw, z.h) /\ z.h.sup["panelPwr"].ref = 1
        BY <4>4, <4>6 DEF But
      <4> QED
        BY <1>2, <2>2, <4>3, <4>6, <4>7
    <3> QED
      BY <3>2, <3>4, <3>5
  <2> QED
    BY <2>1, <2>2
<1>6. \/ /\ pc' = "enable" /\ lock' = "none" /\ hw'.sup["panelPwr"].ref = 1
      \/ /\ pc' = "aLinkOff" /\ lock' = "drm" /\ ~clean' /\ ~hw.splash
  BY <1>1, <1>2, <1>3, <1>4, <1>5
<1>7. TypeInv'
  BY <1>2, <1>3, <1>6 DEF Inv, TypeInv, Moving, Rest, Prepare, Abort, Unprepare,
       otherVars
<1>8. Ctl'
  <2>1. (CoreVotes /\ LinkVotes /\ MdpVotes)'
    BY <1>2, <1>3, <1>4, <1>5, <1>6, JobsAssumption DEF Inv, Ctl, Same, But, otherVars,
         CoreVotes, LinkVotes, MdpVotes, DrmCore, DrmLink, Running, One
  <2>2. LockInv'
    BY <1>2, <1>3, <1>4, <1>5, <1>6, JobsAssumption DEF Inv, Ctl, Same, But, otherVars,
         LockInv, DrmLocked, Prepare, Abort, Unprepare, DisplayJobs, PanelJobs, Busy
  <2>3. HostInv'
    BY <1>2, <1>3, <1>4, <1>5, <1>6 DEF Inv, Ctl, Same, But, otherVars, HostInv,
         Running, HostAt, HostMayBe, EngineAt, SplashAt
  <2>4. EngineInv'
    BY <1>2, <1>3, <1>4, <1>5, <1>6 DEF Inv, Ctl, Same, But, otherVars, EngineInv,
         Sends, Running, One
  <2>5. PanelInv'
    BY <1>2, <1>3, <1>4, <1>5, <1>6 DEF Inv, Ctl, Same, But, otherVars, PanelInv,
         Prepare, Running, One
  <2>6. PhyInv'
    BY <1>2, <1>3, <1>4, <1>5, <1>6 DEF Inv, Ctl, Same, But, otherVars, PhyInv,
         HostInv, HostAt, HostMayBe, Running, PhyStays
  <2>7. CleanInv'
    BY <1>2, <1>3, <1>4, <1>5, <1>6 DEF Inv, Ctl, Same, But, otherVars, CleanInv,
         Running, Prepare, HostAt, Abort, Unprepare
  <2> QED
    BY <2>1, <2>2, <2>3, <2>4, <2>5, <2>6, <2>7 DEF Ctl
<1>9. BootInv'
  BY <1>6 DEF BootInv
<1> QED
  BY <1>5, <1>7, <1>8, <1>9 DEF Inv, HwInv

\* After the splash only the states are brought up to date, and its votes given
\* back.
LEMMA SplashEnableKeeps ==
  ASSUME Recovered, Inv, DisplayEnable, hw.splash
  PROVE  Inv'
<1> DEFINE Ready(g) == {Good([g EXCEPT !.init = TRUE])}
<1>1. PICK r \in Then(Then(Ignored(EngineOn(hw)), SplashCleanup), Ready) :
        Takes(r) /\ pc' = IF r.ok THEN "preEnabled" ELSE "panelUnprepare"
  BY DEF DisplayEnable, Step, Ready
<1> HIDE DEF Ready
<1>2. /\ Sound(r) /\ hw' = r.h /\ clean' \in BOOLEAN /\ faults' \in 0..MaxFaults
      /\ clean' => clean /\ r.hit = {}
      /\ hw.splash => r.hit = {}
  BY <1>1, TakesGives DEF Inv
<1>3. pc = "enable" /\ back' = "preEnabled" /\ UNCHANGED <<lock, plock, job, isr, wq>>
  BY DEF DisplayEnable, Step
<1>4. /\ hw.host /\ hw.engine /\ ~hw.init /\ ~hw.vid /\ lock # "drm"
      /\ hw.vote["dsi"]["core"] > 1 /\ hw.vote["dsi"]["link"] > 1 /\ hw.power
      /\ hw.vote["dsi"]["core"] \in Nat /\ hw.vote["dsi"]["link"] \in Nat
  <2>1. hw.host /\ hw.engine /\ ~hw.init /\ ~hw.vid /\ lock # "drm"
    BY <1>3 DEF Inv, Ctl, HostInv, HostAt, EngineAt, Running, LockInv, DrmLocked, Prepare,
                Abort, Unprepare
  <2>2. hw.vote["dsi"]["core"] > 1 /\ hw.vote["dsi"]["link"] > 1
    BY <1>3 DEF Inv, Ctl, CoreVotes, LinkVotes, DrmCore, DrmLink, One
  <2>3. hw.vote["dsi"]["core"] \in Nat /\ hw.vote["dsi"]["link"] \in Nat
    BY Found DEF Client, Clock
  <2>4. hw.power
    BY <2>2, <2>3, Found
  <2> QED
    BY <2>1, <2>2, <2>3, <2>4
<1>5. PICK y \in Then(Ignored(EngineOn(hw)), SplashCleanup) :
        \/ ~y.ok /\ r = y
        \/ y.ok /\ \E z \in Ready(y.h) : r = [z EXCEPT !.hit = @ \cup y.hit]
  BY <1>1 DEF Then
<1>6. PICK x \in Ignored(EngineOn(hw)) :
        \/ ~x.ok /\ y = x
        \/ x.ok /\ \E z \in SplashCleanup(x.h) : y = [z EXCEPT !.hit = @ \cup x.hit]
  BY <1>5 DEF Then
<1>7. /\ Outcome(x) /\ x.ok /\ x.hit = {} /\ Coherent(x.h) /\ Clocked(x.h) /\ Counted(x.h)
      /\ But({"cmd", "vid"}, hw, x.h)
      /\ x.h.cmdRef = hw.cmdRef + One(hw.panel.cmdMode)
      /\ x.h.vid <=> ~hw.panel.cmdMode
  <2>1. PICK e \in EngineOn(hw) : x = [e EXCEPT !.ok = TRUE]
    BY DEF Ignored
  <2>2. /\ Outcome(e) /\ e.ok /\ e.hit = {} /\ Coherent(e.h) /\ Clocked(e.h) /\ Counted(e.h)
        /\ But({"cmd", "vid"}, hw, e.h)
        /\ e.h.cmdRef = hw.cmdRef + One(hw.panel.cmdMode)
        /\ e.h.vid <=> ~hw.panel.cmdMode
    BY <1>4, <2>1, Found, EngineOnGives
  <2>3. Outcome(x) /\ x.ok /\ x.h = e.h /\ x.hit = e.hit
    BY <2>1, <2>2, IgnoredGives
  <2> QED
    BY <2>2, <2>3
<1>8. PICK s \in SplashCleanup(x.h) : y = [s EXCEPT !.hit = @ \cup x.hit]
  BY <1>6, <1>7
<1> DEFINE k == x.h
<1> DEFINE Vote(g) == {Good([g EXCEPT !.splash = FALSE]),
                       Failed([g EXCEPT !.splash = FALSE], "gdsc")}
<1>asked. PICK p \in Ignored(Request(k, "dsi", Clock, FALSE)) :
         \E v \in Vote(p.h) : p.ok /\ s = [v EXCEPT !.hit = @ \cup p.hit]
  <2>1. x.h.splash
    BY <1>7 DEF But
  <2>2. s \in Then(Ignored(Request(k, "dsi", Clock, FALSE)), Vote)
    BY <1>8, <2>1 DEF SplashCleanup, Dsi
  <2>3. \A p \in Ignored(Request(k, "dsi", Clock, FALSE)) : p.ok
    <3> TAKE p \in Ignored(Request(k, "dsi", Clock, FALSE))
    <3>1. PICK q \in Request(k, "dsi", Clock, FALSE) : p = [q EXCEPT !.ok = TRUE]
      BY DEF Ignored
    <3>2. Outcome(q)
      BY <3>1, RequestGives DEF Client, Clock
    <3> QED
      BY <3>1, <3>2, IgnoredGives
  <2> HIDE DEF Vote
  <2>4. PICK p \in Ignored(Request(k, "dsi", Clock, FALSE)) :
          \/ ~p.ok /\ s = p
          \/ p.ok /\ \E v \in Vote(p.h) : s = [v EXCEPT !.hit = @ \cup p.hit]
    BY <2>2 DEF Then
  <2> QED
    BY <2>3, <2>4
<1>9. PICK q \in Request(k, "dsi", Clock, FALSE) : p = [q EXCEPT !.ok = TRUE]
  BY <1>asked DEF Ignored
<1>10. "dsi" \in Client /\ Clock \in SUBSET Clock /\ {"core", "link"} = Clock /\ FALSE \in BOOLEAN
  BY DEF Client, Clock
<1>11. Outcome(q)
  BY <1>9, <1>10, RequestGives
<1>given. Outcome(p) /\ p.ok /\ p.h = q.h /\ p.hit = q.hit
  BY <1>9, <1>11 DEF Outcome
<1>12. /\ Outcome(s) /\ s.ok /\ s.h = [q.h EXCEPT !.splash = FALSE] /\ s.hit = q.hit
  <2>0. PICK v \in Vote(p.h) : s = [v EXCEPT !.hit = @ \cup p.hit]
    BY <1>asked
  <2>1. CASE v = Good([p.h EXCEPT !.splash = FALSE])
    <3>1. Outcome(v) /\ v.ok /\ v.hit = {} /\ v.h = [q.h EXCEPT !.splash = FALSE]
      BY <1>given, <2>1, GoodIs
    <3> QED
      BY <1>given, <2>0, <3>1, Follows
  <2>2. CASE v = Failed([p.h EXCEPT !.splash = FALSE], "gdsc")
    <3>1. Outcome(v) /\ ~v.ok /\ v.hit = {"gdsc"}
      BY <2>2, FailedIs
    <3>2. Outcome(s) /\ ~s.ok /\ "gdsc" \in s.hit
      BY <2>0, <3>1, Follows
    <3>3. Outcome(y) /\ ~y.ok /\ "gdsc" \in y.hit
      BY <1>8, <3>2, Follows
    <3>4. r = y
      BY <1>5, <3>3
    <3>5. hw.splash
      OBVIOUS
    <3> QED
      BY <1>2, <3>3, <3>4, <3>5
  <2> QED
    BY <2>0, <2>1, <2>2
<1>13. /\ Outcome(y) /\ y.ok /\ y.h = s.h /\ y.hit = s.hit
  BY <1>7, <1>8, <1>12, Follows
<1>14. PICK z \in Ready(y.h) : r = [z EXCEPT !.hit = @ \cup y.hit]
  BY <1>5, <1>13
<1>15. Outcome(r) /\ r.ok /\ r.h = [y.h EXCEPT !.init = TRUE] /\ r.hit = y.hit
  <2>1. Outcome(z) /\ z.ok /\ z.h = [y.h EXCEPT !.init = TRUE] /\ z.hit = {}
    BY <1>14, GoodIs DEF Ready
  <2> QED
    BY <1>14, <2>1, Follows
<1>16. Sound(q)
  BY <1>2, <1>12, <1>13, <1>15 DEF Sound
<1>17. /\ Coherent(q.h) /\ Clocked(q.h) /\ Same(k, q.h)
       /\ q.h.vote["dsi"]["core"] = hw.vote["dsi"]["core"] - 1
       /\ q.h.vote["dsi"]["link"] = hw.vote["dsi"]["link"] - 1
       /\ q.h.vote["mdp"] = hw.vote["mdp"]
  <2>1. k.vote = hw.vote /\ Coherent(k) /\ Clocked(k)
    BY <1>7 DEF But
  <2> HIDE DEF k
  <2>2. /\ Left(k, "core", Clock) = hw.vote["dsi"]["core"] - 1
        /\ Left(k, "link", Clock) = hw.vote["dsi"]["link"] - 1
        /\ Left(k, "core", Clock) > 0
    BY <1>4, <1>10, <2>1 DEF Left
  <2>3. \A j \in Clock : k.vote["dsi"][j] > 0
    BY <1>4, <1>10, <2>1
  <2>4. /\ Coherent(q.h) /\ Clocked(q.h) /\ Same(k, q.h)
        /\ q.h.vote["dsi"]["core"] = Left(k, "core", Clock)
        /\ q.h.vote["dsi"]["link"] = Left(k, "link", Clock)
        /\ q.h.vote["mdp"] = k.vote["mdp"]
    <3>1. Clock \in SUBSET Clock
      OBVIOUS
    <3>2. Left(k, "core", Clock) > 0
      BY <2>2
    <3> QED
      BY <1>16, <2>1, <2>3, <3>1, <3>2, GiveGives
  <2> QED
    BY <2>1, <2>2, <2>4
<1>18. /\ Coherent(s.h) /\ Clocked(s.h) /\ But({"splash"}, q.h, s.h) /\ ~s.h.splash
  <2>1. Typed(q.h)
    BY <1>17 DEF Coherent
  <2>2. /\ Typed(s.h) /\ Wires(s.h) = Wires(q.h) /\ s.h.sup = q.h.sup
        /\ But({"splash"}, q.h, s.h) /\ ~s.h.splash
    BY <1>12, <2>1 DEF Typed, Wires, But
  <2> QED
    BY <1>17, <2>2, StateKeeps DEF But
<1>19. /\ Coherent(hw') /\ Clocked(hw') /\ But({"init"}, s.h, hw') /\ hw'.init
  <2>1. hw' = [s.h EXCEPT !.init = TRUE]
    BY <1>2, <1>13, <1>15
  <2>2. TRUE \in BOOLEAN
    OBVIOUS
  <2>3. Coherent(hw') /\ Clocked(hw') /\ But({"init"}, s.h, hw') /\ hw'.init = TRUE
    BY <1>18, <2>1, <2>2, InitIs
  <2> QED
    BY <2>3
<1>20. /\ hw'.init /\ ~hw'.splash /\ hw'.host = hw.host /\ hw'.engine = hw.engine
       /\ hw'.panel = hw.panel /\ hw'.sup["panelPwr"] = hw.sup["panelPwr"]
       /\ hw'.cmdRef = hw.cmdRef + One(hw.panel.cmdMode)
       /\ hw'.cmd <=> hw'.cmdRef > 0
       /\ hw'.vid <=> ~hw.panel.cmdMode
       /\ hw'.vote["dsi"]["core"] = hw.vote["dsi"]["core"] - 1
       /\ hw'.vote["dsi"]["link"] = hw.vote["dsi"]["link"] - 1
       /\ hw'.vote["mdp"] = hw.vote["mdp"]
  BY <1>7, <1>17, <1>18, <1>19 DEF But, Same, Counted
<1>21. pc' = "preEnabled" /\ clean' \in BOOLEAN /\ (clean' => clean)
  BY <1>1, <1>2, <1>15
<1>22. TypeInv'
  BY <1>2, <1>3, <1>21 DEF Inv, TypeInv, Moving, Rest, Prepare, Abort, Unprepare,
       otherVars
<1>23. Ctl'
  <2>1. (CoreVotes /\ LinkVotes /\ MdpVotes)'
    BY <1>3, <1>4, <1>20, <1>21, JobsAssumption DEF Inv, Ctl, CoreVotes, LinkVotes,
         MdpVotes, DrmCore, DrmLink, Running, One
  <2>2. LockInv'
    BY <1>3, <1>4, <1>20, <1>21, JobsAssumption DEF Inv, Ctl, LockInv, DrmLocked,
         Prepare, Abort, Unprepare, DisplayJobs, PanelJobs, Busy
  <2>3. HostInv'
    BY <1>3, <1>4, <1>20, <1>21 DEF Inv, Ctl, HostInv, Running, HostAt, HostMayBe,
         EngineAt, SplashAt
  <2>4. EngineInv'
    BY <1>3, <1>4, <1>20, <1>21 DEF Inv, Ctl, EngineInv, Sends, Running, One
  <2>5. PanelInv'
    BY <1>3, <1>4, <1>20, <1>21 DEF Inv, Ctl, PanelInv, Prepare, Running, One
  <2>6. PhyInv'
    BY <1>3, <1>4, <1>20, <1>21 DEF Inv, Ctl, PhyInv, HostInv, HostAt, HostMayBe,
         Running, Same, PhyStays
  <2>7. CleanInv'
    BY <1>3, <1>4, <1>20, <1>21 DEF Inv, Ctl, CleanInv, Running, Prepare, HostAt,
         Abort, Unprepare
  <2> QED
    BY <2>1, <2>2, <2>3, <2>4, <2>5, <2>6, <2>7 DEF Ctl
<1>24. BootInv'
  BY <1>21 DEF BootInv
<1> QED
  BY <1>19, <1>22, <1>23, <1>24 DEF Inv, HwInv

\* Otherwise the ON commands are sent.
LEMMA CommandEnableKeeps ==
  ASSUME Recovered, Inv, DisplayEnable, ~hw.splash
  PROVE  Inv'
<1> DEFINE Ready(g) == {Good([g EXCEPT !.init = TRUE])}
<1>1. PICK r \in Then(Transfer(hw), Ready) :
        Takes(r) /\ pc' = IF r.ok THEN "engineOn" ELSE "panelUnprepare"
  BY DEF DisplayEnable, Step, Ready
<1> HIDE DEF Ready
<1>2. /\ Sound(r) /\ hw' = r.h /\ clean' \in BOOLEAN /\ faults' \in 0..MaxFaults
      /\ clean' => clean /\ r.hit = {}
      /\ hw.splash => r.hit = {}
  BY <1>1, TakesGives DEF Inv
<1>3. /\ pc = "enable" /\ lock = "none" /\ plock = "none"
      /\ lock' = IF pc' = "engineOn" THEN "drm" ELSE "none"
      /\ back' = "preEnabled" /\ UNCHANGED <<plock, job, isr, wq>>
  BY DEF DisplayEnable, PanelFree, Step
<1>4. hw.host /\ hw.engine /\ ~hw.init
  BY <1>3 DEF Inv, Ctl, HostInv, HostAt, EngineAt, Running
<1>5. PICK x \in Transfer(hw) :
        \/ ~x.ok /\ r = x
        \/ x.ok /\ \E z \in Ready(x.h) : r = [z EXCEPT !.hit = @ \cup x.hit]
  BY <1>1 DEF Then
<1>6. CASE ~x.ok /\ r = x
  <2>1. Coherent(hw') /\ Clocked(hw') /\ But({"phy"}, hw, hw') /\ r.hit # {}
    BY <1>2, <1>4, <1>6, Found, CommandKeeps
  <2>2. pc' = "panelUnprepare" /\ lock' = "none" /\ ~clean'
    BY <1>1, <1>2, <1>3, <1>6, <2>1
  <2>3. TypeInv'
    BY <1>2, <1>3, <2>2 DEF Inv, TypeInv, Moving, Rest, Prepare, Abort, Unprepare,
         otherVars
  <2>4. Ctl'
    <3>1. (CoreVotes /\ LinkVotes /\ MdpVotes)'
      BY <1>2, <1>3, <1>4, <2>1, <2>2, JobsAssumption DEF Inv, Ctl, Same, But, otherVars,
           CoreVotes, LinkVotes, MdpVotes, DrmCore, DrmLink, Running, One
    <3>2. LockInv'
      BY <1>2, <1>3, <1>4, <2>1, <2>2, JobsAssumption DEF Inv, Ctl, Same, But, otherVars,
           LockInv, DrmLocked, Prepare, Abort, Unprepare, DisplayJobs, PanelJobs, Busy
    <3>3. HostInv'
      BY <1>2, <1>3, <1>4, <2>1, <2>2 DEF Inv, Ctl, Same, But, otherVars, HostInv,
           Running, HostAt, HostMayBe, EngineAt, SplashAt
    <3>4. EngineInv'
      BY <1>2, <1>3, <1>4, <2>1, <2>2 DEF Inv, Ctl, Same, But, otherVars, EngineInv,
           Sends, Running, One
    <3>5. PanelInv'
      BY <1>2, <1>3, <1>4, <2>1, <2>2 DEF Inv, Ctl, Same, But, otherVars, PanelInv,
           Prepare, Running, One
    <3>6. PhyInv'
      BY <1>2, <1>3, <1>4, <2>1, <2>2 DEF Inv, Ctl, Same, But, otherVars, PhyInv,
           HostInv, HostAt, HostMayBe, Running, PhyStays
    <3>7. CleanInv'
      BY <1>2, <1>3, <1>4, <2>1, <2>2 DEF Inv, Ctl, Same, But, otherVars, CleanInv,
           Running, Prepare, HostAt, Abort, Unprepare
    <3> QED
      BY <3>1, <3>2, <3>3, <3>4, <3>5, <3>6, <3>7 DEF Ctl
  <2>5. BootInv'
    BY <2>2 DEF BootInv
  <2> QED
    BY <2>1, <2>3, <2>4, <2>5 DEF Inv, HwInv
<1>7. CASE x.ok /\ \E z \in Ready(x.h) : r = [z EXCEPT !.hit = @ \cup x.hit]
  <2>1. r = [Good([x.h EXCEPT !.init = TRUE]) EXCEPT !.hit = @ \cup x.hit]
    BY <1>7 DEF Ready
  <2>2. r.ok /\ r.h = [x.h EXCEPT !.init = TRUE] /\ r.hit = x.hit
    BY <2>1, GoodIs, Follows
  <2>3. Coherent(x.h) /\ Clocked(x.h) /\ But({"phy"}, hw, x.h)
    BY <1>2, <2>2, Found, CommandKeeps DEF Sound
  <2>4. Coherent(hw') /\ Clocked(hw') /\ But({"init"}, x.h, hw') /\ hw'.init
    <3>1. TRUE \in BOOLEAN /\ hw' = [x.h EXCEPT !.init = TRUE]
      BY <1>2, <2>2
    <3>2. Coherent(hw') /\ Clocked(hw') /\ But({"init"}, x.h, hw') /\ hw'.init = TRUE
      BY <2>3, <3>1, InitIs
    <3> QED
      BY <3>2
  <2>5. But({"init", "phy"}, hw, hw')
    BY <2>3, <2>4 DEF But
  <2>6. pc' = "engineOn" /\ lock' = "drm"
    BY <1>1, <1>3, <2>2
  <2>7. TypeInv'
    BY <1>2, <1>3, <2>6 DEF Inv, TypeInv, Moving, Rest, Prepare, Abort, Unprepare,
         otherVars
  <2>8. Ctl'
    <3>1. (CoreVotes /\ LinkVotes /\ MdpVotes)'
      BY <1>2, <1>3, <1>4, <2>4, <2>5, <2>6, JobsAssumption DEF Inv, Ctl, Same, But,
           otherVars, CoreVotes, LinkVotes, MdpVotes, DrmCore, DrmLink, Running, One
    <3>2. LockInv'
      BY <1>2, <1>3, <1>4, <2>4, <2>5, <2>6, JobsAssumption DEF Inv, Ctl, Same, But,
           otherVars, LockInv, DrmLocked, Prepare, Abort, Unprepare, DisplayJobs,
           PanelJobs, Busy
    <3>3. HostInv'
      BY <1>2, <1>3, <1>4, <2>4, <2>5, <2>6 DEF Inv, Ctl, Same, But, otherVars, HostInv,
           Running, HostAt, HostMayBe, EngineAt, SplashAt
    <3>4. EngineInv'
      BY <1>2, <1>3, <1>4, <2>4, <2>5, <2>6 DEF Inv, Ctl, Same, But, otherVars,
           EngineInv, Sends, Running, One
    <3>5. PanelInv'
      BY <1>2, <1>3, <1>4, <2>4, <2>5, <2>6 DEF Inv, Ctl, Same, But, otherVars, PanelInv,
           Prepare, Running, One
    <3>6. PhyInv'
      BY <1>2, <1>3, <1>4, <2>4, <2>5, <2>6 DEF Inv, Ctl, Same, But, otherVars, PhyInv,
           HostInv, HostAt, HostMayBe, Running, PhyStays
    <3>7. CleanInv'
      BY <1>2, <1>3, <1>4, <2>4, <2>5, <2>6 DEF Inv, Ctl, Same, But, otherVars, CleanInv,
           Running, Prepare, HostAt, Abort, Unprepare
    <3> QED
      BY <3>1, <3>2, <3>3, <3>4, <3>5, <3>6, <3>7 DEF Ctl
  <2>9. BootInv'
    BY <2>6 DEF BootInv
  <2> QED
    BY <2>4, <2>7, <2>8, <2>9 DEF Inv, HwInv
<1> QED
  BY <1>5, <1>6, <1>7

\* dsi_display_enable, with the boot picture or without.
LEMMA DisplayEnableKeeps ==
  ASSUME Recovered, Inv, DisplayEnable
  PROVE  Inv'
BY SplashEnableKeeps, CommandEnableKeeps

\* The engine of a display that is up does not refuse.
LEMMA EngineEnableKeeps ==
  ASSUME Recovered, Inv, EngineEnable
  PROVE  Inv'
<1>1. PICK e \in EngineOn(hw) :
        IF e.ok THEN Takes(e) /\ pc' = "preEnabled"
        ELSE (\E q \in PanelOffCommands(e.h) : Takes(q)) /\ pc' = "panelUnprepare"
  BY DEF EngineEnable
<1>2. /\ pc = "engineOn" /\ plock = "none" /\ lock' = "none"
      /\ UNCHANGED <<back, plock, job, isr, wq>>
  BY DEF EngineEnable, PanelFree
<1>3. hw.host /\ hw.engine /\ ~hw.vid /\ hw.power /\ lock = "drm"
  <2>1. hw.host /\ hw.engine /\ ~hw.vid /\ lock = "drm"
    BY <1>2 DEF Inv, Ctl, HostInv, HostAt, EngineAt, Running, LockInv, DrmLocked, Prepare,
                Abort, Unprepare
  <2>2. hw.vote["dsi"]["core"] > 0
    BY <1>2 DEF Inv, Ctl, CoreVotes, DrmCore, DrmLink, One
  <2> QED
    BY <2>1, <2>2, Found
<1>4. /\ e.ok /\ e.hit = {} /\ Coherent(e.h) /\ Clocked(e.h) /\ Counted(e.h)
      /\ But({"cmd", "vid"}, hw, e.h)
      /\ e.h.cmdRef = hw.cmdRef + One(hw.panel.cmdMode)
      /\ e.h.vid <=> ~hw.panel.cmdMode
  BY <1>3, Found, EngineOnGives
<1>5. Takes(e) /\ pc' = "preEnabled"
  BY <1>1, <1>4
<1>6. /\ hw' = e.h /\ clean' \in BOOLEAN /\ faults' \in 0..MaxFaults /\ (clean' => clean)
  BY <1>5, TakesGives DEF Inv
<1>7. Coherent(hw') /\ Clocked(hw')
  BY <1>4, <1>6
<1>8. /\ hw'.init = hw.init /\ hw'.splash = hw.splash /\ hw'.host = hw.host
      /\ hw'.engine = hw.engine /\ hw'.panel = hw.panel /\ hw'.vote = hw.vote
      /\ hw'.sup["panelPwr"] = hw.sup["panelPwr"]
      /\ hw'.cmdRef = hw.cmdRef + One(hw.panel.cmdMode)
      /\ hw'.cmd <=> hw'.cmdRef > 0
      /\ hw'.vid <=> ~hw.panel.cmdMode
  BY <1>4, <1>6 DEF But, Counted
<1>9. TypeInv'
  BY <1>2, <1>5, <1>6 DEF Inv, TypeInv, Moving, Rest, Prepare, Abort, Unprepare,
       otherVars
<1>10. Ctl'
  <2>1. (CoreVotes /\ LinkVotes /\ MdpVotes)'
    BY <1>2, <1>3, <1>5, <1>6, <1>8, JobsAssumption DEF Inv, Ctl, CoreVotes, LinkVotes,
         MdpVotes, DrmCore, DrmLink, Running, One
  <2>2. LockInv'
    BY <1>2, <1>3, <1>5, <1>6, <1>8, JobsAssumption DEF Inv, Ctl, LockInv, DrmLocked,
         Prepare, Abort, Unprepare, DisplayJobs, PanelJobs, Busy
  <2>3. HostInv'
    BY <1>2, <1>3, <1>5, <1>6, <1>8 DEF Inv, Ctl, HostInv, Running, HostAt, HostMayBe,
         EngineAt, SplashAt
  <2>4. EngineInv'
    BY <1>2, <1>3, <1>5, <1>6, <1>8 DEF Inv, Ctl, EngineInv, Sends, Running, One
  <2>5. PanelInv'
    BY <1>2, <1>3, <1>5, <1>6, <1>8 DEF Inv, Ctl, PanelInv, Prepare, Running, One
  <2>6. PhyInv'
    BY <1>2, <1>3, <1>5, <1>6, <1>8 DEF Inv, Ctl, PhyInv, HostInv, HostAt, HostMayBe,
         Running, Same, PhyStays
  <2>7. CleanInv'
    BY <1>2, <1>3, <1>5, <1>6, <1>8 DEF Inv, Ctl, CleanInv, Running, Prepare, HostAt,
         Abort, Unprepare
  <2> QED
    BY <2>1, <2>2, <2>3, <2>4, <2>5, <2>6, <2>7 DEF Ctl
<1>11. BootInv'
  BY <1>5 DEF BootInv
<1> QED
  BY <1>7, <1>9, <1>10, <1>11 DEF Inv, HwInv

-----------------------------------------------------------------------------
(* dsi_display_post_enable and dsi_display_pre_disable.                    *)

\* POST_ON commands; command mode gives its clocks back.
LEMMA PostEnableKeeps ==
  ASSUME Recovered, Inv, PostEnable
  PROVE  Inv'
<1> DEFINE Clocks(g) == IF g.panel.cmdMode THEN Ignored(Request(g, "dsi", Clock, FALSE))
                        ELSE {Good(g)}
<1>1. PICK r \in Then(Ignored(Transfer(hw)), Clocks) : Takes(r) /\ pc' = "on"
  BY DEF PostEnable, Step, Dsi, Clocks
<1> HIDE DEF Clocks
<1>2. /\ Sound(r) /\ hw' = r.h /\ clean' \in BOOLEAN /\ faults' \in 0..MaxFaults
      /\ clean' => clean /\ r.hit = {}
      /\ hw.splash => r.hit = {}
  BY <1>1, TakesGives DEF Inv
<1>3. pc = "preEnabled" /\ lock = "none" /\ plock = "none" /\ UNCHANGED otherVars
  BY DEF PostEnable, PanelFree, Step
<1>4. PICK x \in Ignored(Transfer(hw)) :
        \/ ~x.ok /\ r = x
        \/ x.ok /\ \E z \in Clocks(x.h) : r = [z EXCEPT !.hit = @ \cup x.hit]
  BY <1>1 DEF Then
<1>5. "dsi" \in Client /\ {"core", "link"} = Clock /\ Clock \in SUBSET Clock /\ FALSE \in BOOLEAN
  BY DEF Client, Clock
<1>6. /\ ~hw.splash /\ (hw.vid => ~hw.panel.cmdMode /\ hw.host)
      /\ hw.vote["dsi"]["core"] = One(hw.host) /\ hw.vote["dsi"]["link"] = One(hw.host)
  <2>1. ~hw.splash /\ (hw.vid => ~hw.panel.cmdMode /\ hw.host)
    BY <1>3 DEF Inv, Ctl, HostInv, SplashAt
  <2> QED
    BY <1>3, <2>1, JobsAssumption DEF Inv, Ctl, CoreVotes, LinkVotes, DrmCore, DrmLink, One
<1>7. /\ Coherent(hw') /\ Clocked(hw') /\ Same(hw, hw')
      /\ hw'.vote["dsi"]["core"] = One(hw.host /\ ~hw.panel.cmdMode)
      /\ hw'.vote["dsi"]["link"] = One(hw.host /\ ~hw.panel.cmdMode)
      /\ hw'.vote["mdp"] = hw.vote["mdp"]
  <2>1. PICK w \in Transfer(hw) : x = [w EXCEPT !.ok = TRUE]
    BY DEF Ignored
  <2>2. Shape(w)
    BY TransferGives
  <2>3. Outcome(x) /\ x.ok /\ x.h = w.h /\ x.hit = w.hit
    BY <2>1, <2>2 DEF Shape, Outcome
  <2>4. PICK z \in Clocks(x.h) : r = [z EXCEPT !.hit = @ \cup x.hit]
    BY <1>4, <2>3
  <2>5. Outcome(z)
    <3>1. CASE x.h.panel.cmdMode
      <4>1. PICK q \in Request(x.h, "dsi", Clock, FALSE) : z = [q EXCEPT !.ok = TRUE]
        BY <2>4, <3>1 DEF Clocks, Ignored
      <4> QED
        BY <1>5, <4>1, RequestGives, IgnoredGives
    <3>2. CASE ~x.h.panel.cmdMode
      <4>1. z = Good(x.h)
        BY <2>4, <3>2 DEF Clocks
      <4> QED
        BY <4>1, GoodIs
    <3> QED
      BY <3>1, <3>2
  <2>6. r.h = z.h /\ Sound(x) /\ Sound(z)
    BY <1>2, <2>4, <2>5, Follows
  <2>7. /\ Coherent(x.h) /\ Clocked(x.h) /\ PhyStays(hw, x.h) /\ But({"phy"}, hw, x.h)
    BY <2>6, Found, CommandIgnored
  <2>8. CASE ~hw.panel.cmdMode
    <3>1. z = Good(x.h)
      BY <2>4, <2>7, <2>8 DEF Clocks, But
    <3>2. hw' = x.h
      BY <1>2, <2>6, <3>1, GoodIs
    <3> QED
      BY <1>6, <2>7, <2>8, <3>2 DEF But, Same, One
  <2>9. CASE hw.panel.cmdMode
    <3>1. PICK q \in Request(x.h, "dsi", Clock, FALSE) : z = [q EXCEPT !.ok = TRUE]
      BY <2>4, <2>7, <2>9 DEF Clocks, But, Ignored
    <3>2. Outcome(q)
      BY <1>5, RequestGives
    <3>3. z.h = q.h /\ Sound(q)
      BY <2>6, <3>1, <3>2, IgnoredGives
    <3>4. CASE hw.host
      <4>1. hw.vote["dsi"]["core"] = 1 /\ hw.vote["dsi"]["link"] = 1 /\ ~hw.vid
        BY <1>6, <2>9, <3>4 DEF One
      <4>2. x.h.vote = hw.vote /\ x.h.vid = hw.vid
        BY <2>7 DEF But
      <4>3. \A k \in Clock : x.h.vote["dsi"][k] > 0
        BY <1>5, <4>1, <4>2
      <4>4. Left(x.h, "core", Clock) = 0 /\ Left(x.h, "link", Clock) = 0
        BY <1>5, <4>1, <4>2 DEF Left
      <4>5. x.h.vote["mdp"]["link"] > 0 => x.h.vote["mdp"]["core"] > 0
        BY <4>2 DEF Inv, Ctl, MdpVotes
      <4>6. ~(Left(x.h, "link", Clock) > 0) /\ ~x.h.vid
        BY <4>1, <4>2, <4>4
      <4>7. /\ Coherent(q.h) /\ Clocked(q.h) /\ Same(x.h, q.h)
            /\ q.h.vote["dsi"]["core"] = Left(x.h, "core", Clock)
            /\ q.h.vote["dsi"]["link"] = Left(x.h, "link", Clock)
            /\ q.h.vote["mdp"] = x.h.vote["mdp"]
        <5>1. Clock \in SUBSET Clock /\ Coherent(x.h) /\ Clocked(x.h) /\ Sound(q)
          BY <2>7, <3>3
        <5>2. Left(x.h, "link", Clock) > 0 \/ x.h.vote["mdp"]["link"] > 0 \/ x.h.vid
                => Left(x.h, "core", Clock) > 0 \/ x.h.vote["mdp"]["core"] > 0
          BY <4>5, <4>6
        <5> QED
          BY <4>3, <5>1, <5>2, GiveGives
      <4>8. hw' = q.h /\ One(hw.host /\ ~hw.panel.cmdMode) = 0
        BY <1>2, <2>6, <2>9, <3>3 DEF One
      <4>9. Same(hw, q.h)
        BY <2>7, <4>7 DEF Same, But, PhyStays
      <4> QED
        BY <4>2, <4>4, <4>7, <4>8, <4>9
    <3>5. CASE ~hw.host
      <4>1. hw.vote["dsi"]["core"] = 0 /\ hw.vote["dsi"]["link"] = 0
        BY <1>6, <3>5 DEF One
      <4>2. x.h.vote = hw.vote /\ Typed(x.h)
        BY <2>7 DEF But, Coherent
      <4>3. \A k \in Clock : x.h.vote["dsi"][k] = 0
        BY <1>5, <4>1, <4>2
      <4>4. q = Good(x.h)
        <5>1. Clock \in SUBSET Clock
          OBVIOUS
        <5>2. Request(x.h, "dsi", Clock, FALSE) = {Good(x.h)}
          BY <4>2, <4>3, <5>1, NoneGiven
        <5> QED
          BY <5>2
      <4>5. hw' = x.h /\ One(hw.host /\ ~hw.panel.cmdMode) = 0
        BY <1>2, <2>6, <2>9, <3>3, <4>4, GoodIs DEF One
      <4> QED
        BY <2>7, <4>1, <4>2, <4>5 DEF Same, But
    <3> QED
      BY <3>4, <3>5
  <2> QED
    BY <2>8, <2>9
<1>8. /\ hw'.init = hw.init /\ hw'.splash = hw.splash /\ hw'.host = hw.host
      /\ hw'.engine = hw.engine /\ hw'.panel = hw.panel /\ hw'.vid = hw.vid
      /\ hw'.sup["panelPwr"] = hw.sup["panelPwr"]
      /\ hw'.cmdRef = hw.cmdRef /\ hw'.cmd = hw.cmd /\ PhyStays(hw, hw') /\ pc' = "on"
  BY <1>1, <1>7 DEF Same, But
<1>9. TypeInv'
  BY <1>2, <1>3, <1>8 DEF Inv, TypeInv, Moving, Rest, Prepare, Abort, Unprepare,
       otherVars
<1>10. Ctl'
  <2>1. (CoreVotes /\ LinkVotes /\ MdpVotes)'
    BY <1>2, <1>3, <1>6, <1>7, <1>8, JobsAssumption DEF Inv, Ctl, otherVars, CoreVotes,
         LinkVotes, MdpVotes, DrmCore, DrmLink, Running, One
  <2>2. LockInv'
    BY <1>2, <1>3, <1>6, <1>7, <1>8, JobsAssumption DEF Inv, Ctl, otherVars, LockInv,
         DrmLocked, Prepare, Abort, Unprepare, DisplayJobs, PanelJobs, Busy
  <2>3. HostInv'
    BY <1>2, <1>3, <1>6, <1>7, <1>8 DEF Inv, Ctl, otherVars, HostInv, Running, HostAt,
         HostMayBe, EngineAt, SplashAt
  <2>4. EngineInv'
    BY <1>2, <1>3, <1>6, <1>7, <1>8 DEF Inv, Ctl, otherVars, EngineInv, Sends, Running,
         One
  <2>5. PanelInv'
    BY <1>2, <1>3, <1>6, <1>7, <1>8 DEF Inv, Ctl, otherVars, PanelInv, Prepare,
         Running, One
  <2>6. PhyInv'
    BY <1>2, <1>3, <1>6, <1>7, <1>8 DEF Inv, Ctl, otherVars, PhyInv, HostInv, HostAt,
         HostMayBe, Running, Same, PhyStays
  <2>7. CleanInv'
    BY <1>2, <1>3, <1>6, <1>7, <1>8 DEF Inv, Ctl, otherVars, CleanInv, Running,
         Prepare, HostAt, Abort, Unprepare
  <2> QED
    BY <2>1, <2>2, <2>3, <2>4, <2>5, <2>6, <2>7 DEF Ctl
<1>11. BootInv'
  BY <1>8 DEF BootInv
<1> QED
  BY <1>7, <1>9, <1>10, <1>11 DEF Inv, HwInv

\* Command mode takes its clocks again; PRE_OFF commands.
LEMMA PreDisableKeeps ==
  ASSUME Recovered, Inv, PreDisable
  PROVE  Inv'
<1> DEFINE clocks == IF hw.panel.cmdMode THEN Ignored(Request(hw, "dsi", Clock, TRUE))
                     ELSE {Good(hw)}
           Send1(g) == Ignored(Transfer(g))
<1>1. PICK r \in Then(clocks, Send1) : Takes(r) /\ pc' = "preDisabled"
  BY DEF PreDisable, Step, Dsi, clocks, Send1
<1> HIDE DEF clocks, Send1
<1>2. /\ Sound(r) /\ hw' = r.h /\ clean' \in BOOLEAN /\ faults' \in 0..MaxFaults
      /\ clean' => clean /\ r.hit = {}
      /\ hw.splash => r.hit = {}
  BY <1>1, TakesGives DEF Inv
<1>3. pc = "on" /\ lock = "none" /\ plock = "none" /\ UNCHANGED otherVars
  BY DEF PreDisable, PanelFree, Step
<1>4. PICK x \in clocks :
        \/ ~x.ok /\ r = x
        \/ x.ok /\ \E z \in Send1(x.h) : r = [z EXCEPT !.hit = @ \cup x.hit]
  BY <1>1 DEF Then
<1>5. "dsi" \in Client /\ {"core", "link"} = Clock /\ Clock \in SUBSET Clock /\ TRUE \in BOOLEAN
  BY DEF Client, Clock
<1>6. hw.vote["dsi"]["core"] \in Nat /\ hw.vote["dsi"]["link"] \in Nat
  BY <1>5, Found
<1>7. Outcome(x) /\ x.ok
  <2>1. CASE hw.panel.cmdMode
    <3>1. PICK q \in Request(hw, "dsi", Clock, TRUE) : x = [q EXCEPT !.ok = TRUE]
      BY <1>4, <2>1 DEF clocks, Ignored
    <3> QED
      BY <1>5, <3>1, RequestGives, IgnoredGives
  <2>2. CASE ~hw.panel.cmdMode
    BY <2>2, GoodIs DEF clocks
  <2> QED
    BY <2>1, <2>2
<1>8. PICK z \in Ignored(Transfer(x.h)) : r = [z EXCEPT !.hit = @ \cup x.hit]
  BY <1>4, <1>7 DEF Send1
<1>9. Outcome(z)
  <2>1. PICK w \in Transfer(x.h) : z = [w EXCEPT !.ok = TRUE]
    BY DEF Ignored
  <2>2. Shape(w)
    BY TransferGives
  <2> QED
    BY <2>1, <2>2 DEF Shape, Outcome
<1>10. hw' = z.h /\ Sound(x) /\ Sound(z)
  BY <1>2, <1>8, <1>9, Follows
<1>11. /\ Coherent(x.h) /\ Clocked(x.h) /\ Same(hw, x.h)
       /\ x.h.vote["dsi"]["core"] = hw.vote["dsi"]["core"] + One(hw.panel.cmdMode)
       /\ x.h.vote["dsi"]["link"] = hw.vote["dsi"]["link"] + One(hw.panel.cmdMode)
       /\ x.h.vote["mdp"] = hw.vote["mdp"]
  <2>1. CASE hw.panel.cmdMode
    <3>1. PICK q \in Request(hw, "dsi", Clock, TRUE) : x = [q EXCEPT !.ok = TRUE]
      BY <1>4, <2>1 DEF clocks, Ignored
    <3>2. Outcome(q)
      BY <1>5, RequestGives
    <3>3. x.h = q.h /\ Sound(q)
      BY <1>10, <3>1, <3>2, IgnoredGives
    <3>4. /\ Coherent(q.h) /\ Clocked(q.h) /\ Same(hw, q.h)
          /\ q.h.vote["dsi"]["core"] = hw.vote["dsi"]["core"] + One("core" \in Clock)
          /\ q.h.vote["dsi"]["link"] = hw.vote["dsi"]["link"] + One("link" \in Clock)
          /\ q.h.vote["mdp"] = hw.vote["mdp"]
      BY <1>5, <3>3, Found, AskGives
    <3>5. One("core" \in Clock) = 1 /\ One("link" \in Clock) = 1 /\ One(hw.panel.cmdMode) = 1
      BY <1>5, <2>1 DEF One
    <3> QED
      BY <3>3, <3>4, <3>5
  <2>2. CASE ~hw.panel.cmdMode
    <3>1. x.h = hw
      BY <2>2, GoodIs DEF clocks
    <3> QED
      BY <1>6, <2>2, <3>1, Found DEF Same, But, PhyStays, One
  <2> QED
    BY <2>1, <2>2
<1>12. Counted(x.h) /\ Sensible(x.h, x.h.vote)
  <2>1. CASE hw.panel.cmdMode
    <3>1. x.h.vote["dsi"]["core"] > 0
      BY <1>6, <1>11, <2>1 DEF One
    <3> QED
      BY <1>5, <1>11, <3>1, Found DEF Sensible, Counted, Same, But
  <2>2. CASE ~hw.panel.cmdMode
    <3>1. x.h = hw
      BY <2>2, GoodIs DEF clocks
    <3> QED
      BY <3>1, Found
  <2> QED
    BY <2>1, <2>2
<1>13. /\ Coherent(hw') /\ Clocked(hw') /\ PhyStays(x.h, hw') /\ But({"phy"}, x.h, hw')
  BY <1>10, <1>11, <1>12, CommandIgnored
<1>14. /\ hw'.init = hw.init /\ hw'.splash = hw.splash /\ hw'.host = hw.host
       /\ hw'.engine = hw.engine /\ hw'.panel = hw.panel /\ hw'.vid = hw.vid
       /\ hw'.sup["panelPwr"] = hw.sup["panelPwr"]
       /\ hw'.cmdRef = hw.cmdRef /\ hw'.cmd = hw.cmd /\ PhyStays(hw, hw')
       /\ pc' = "preDisabled"
       /\ hw'.vote["dsi"]["core"] = hw.vote["dsi"]["core"] + One(hw.panel.cmdMode)
       /\ hw'.vote["dsi"]["link"] = hw.vote["dsi"]["link"] + One(hw.panel.cmdMode)
       /\ hw'.vote["mdp"] = hw.vote["mdp"]
  BY <1>1, <1>11, <1>13 DEF Same, But, PhyStays
<1>15. TypeInv'
  BY <1>2, <1>3, <1>14 DEF Inv, TypeInv, Moving, Rest, Prepare, Abort, Unprepare,
       otherVars
<1>16. Ctl'
  <2>1. (CoreVotes /\ LinkVotes /\ MdpVotes)'
    BY <1>2, <1>3, <1>6, <1>14, JobsAssumption DEF Inv, Ctl, otherVars, CoreVotes,
         LinkVotes, MdpVotes, DrmCore, DrmLink, Running, One
  <2>2. LockInv'
    BY <1>2, <1>3, <1>6, <1>14, JobsAssumption DEF Inv, Ctl, otherVars, LockInv,
         DrmLocked, Prepare, Abort, Unprepare, DisplayJobs, PanelJobs, Busy
  <2>3. HostInv'
    BY <1>2, <1>3, <1>6, <1>14 DEF Inv, Ctl, otherVars, HostInv, Running, HostAt,
         HostMayBe, EngineAt, SplashAt
  <2>4. EngineInv'
    BY <1>2, <1>3, <1>6, <1>14 DEF Inv, Ctl, otherVars, EngineInv, Sends, Running, One
  <2>5. PanelInv'
    BY <1>2, <1>3, <1>6, <1>14 DEF Inv, Ctl, otherVars, PanelInv, Prepare, Running, One
  <2>6. PhyInv'
    BY <1>2, <1>3, <1>6, <1>14 DEF Inv, Ctl, otherVars, PhyInv, HostInv, HostAt,
         HostMayBe, Running, Same, PhyStays
  <2>7. CleanInv'
    BY <1>2, <1>3, <1>6, <1>14 DEF Inv, Ctl, otherVars, CleanInv, Running, Prepare,
         HostAt, Abort, Unprepare
  <2> QED
    BY <2>1, <2>2, <2>3, <2>4, <2>5, <2>6, <2>7 DEF Ctl
<1>17. BootInv'
  BY <1>14 DEF BootInv
<1> QED
  BY <1>13, <1>15, <1>16, <1>17 DEF Inv, HwInv

-----------------------------------------------------------------------------
(* dsi_display_disable and dsi_display_unprepare.                          *)

\* The engine of the panel's mode stops.
LEMMA DisableKeeps ==
  ASSUME Recovered, Inv, Disable
  PROVE  Inv'
<1> DEFINE engine == IF hw.panel.cmdMode THEN CmdEngineOff(hw) ELSE VidEngine(hw, FALSE)
<1>1. PICK r \in Ignored(engine) : Takes(r) /\ pc' = "panelDisable"
  BY DEF Disable, Step, engine
<1> HIDE DEF engine
<1>2. /\ Sound(r) /\ hw' = r.h /\ clean' \in BOOLEAN /\ faults' \in 0..MaxFaults
      /\ clean' => clean /\ r.hit = {}
      /\ hw.splash => r.hit = {}
  BY <1>1, TakesGives DEF Inv
<1>3. /\ pc = "preDisabled" /\ lock = "none" /\ lock' = "drm"
      /\ hw.vote["mdp"] = [k \in Clock |-> 0]
      /\ UNCHANGED <<back, plock, job, isr, wq>>
  BY DEF Disable, Step
<1>4. /\ ~hw.splash /\ (hw.vid <=> ~hw.panel.cmdMode /\ hw.host) /\ (hw.host => hw.engine)
      /\ (hw.cmdRef > 0 <=> hw.cmd) /\ hw.cmdRef \in Nat /\ ~Sends("command")
  <2>1. /\ ~hw.splash /\ (hw.vid <=> ~hw.panel.cmdMode /\ hw.host) /\ (hw.host => hw.engine)
        /\ (hw.cmdRef > 0 <=> hw.cmd) /\ hw.cmdRef \in Nat
    BY <1>3, Found DEF Inv, Ctl, HostInv, SplashAt, EngineAt, Running, Typed
  <2>2. ~Sends("command")
    BY <1>3, JobsAssumption DEF Inv, Ctl, LockInv, DisplayJobs, Sends, Busy
  <2> QED
    BY <2>1, <2>2
<1>5. hw.cmdRef > 0 \/ hw.vid => hw.host /\ hw.power /\ hw.engine
  <2>1. hw.cmdRef > 0 => hw.host
    <3>1. Sends("esd") => hw.host
      BY <1>3, JobsAssumption DEF Inv, Ctl, LockInv, PanelJobs, Sends, Busy, HostInv
    <3> QED
      BY <1>4, <3>1 DEF Inv, Ctl, EngineInv, One
  <2>2. hw.host => hw.vote["dsi"]["core"] > 0
    BY <1>3 DEF Inv, Ctl, CoreVotes, DrmCore, DrmLink, One
  <2> QED
    BY <1>4, <2>1, <2>2, Found
<1>6. PICK e \in engine : r = [e EXCEPT !.ok = TRUE]
  BY <1>1 DEF Ignored
<1>7. /\ Coherent(hw') /\ Clocked(hw') /\ But({"cmd", "vid"}, hw, hw') /\ ~hw'.vid
      /\ hw'.cmdRef = hw.cmdRef - One(hw.panel.cmdMode /\ hw.host)
      /\ hw'.cmd <=> hw'.cmdRef > 0
  <2>1. CASE hw.panel.cmdMode
    <3>1. e \in CmdEngineOff(hw)
      BY <1>6, <2>1 DEF engine
    <3>2. /\ Outcome(e) /\ Coherent(e.h) /\ Clocked(e.h) /\ Counted(e.h) /\ But({"cmd"}, hw, e.h)
          /\ e.h.cmdRef = IF hw.cmdRef = 0 THEN 0 ELSE hw.cmdRef - 1
      BY <1>5, <3>1, Found, ReleasedGives
    <3>3. hw' = e.h
      BY <1>2, <1>6, <3>2, IgnoredGives
    <3>4. hw.cmdRef = 0 <=> ~hw.host
      <4>1. hw.host => hw.cmdRef > 0
        BY <1>3, <2>1 DEF Inv, Ctl, EngineInv, Running, One
      <4> QED
        BY <1>4, <1>5, <4>1
    <3>5. e.h.cmdRef = hw.cmdRef - One(hw.panel.cmdMode /\ hw.host)
      BY <1>4, <2>1, <3>2, <3>4 DEF One
    <3> QED
      BY <1>4, <2>1, <3>2, <3>3, <3>5 DEF But, Counted
  <2>2. CASE ~hw.panel.cmdMode
    <3>1. e \in VidEngine(hw, FALSE) /\ One(hw.panel.cmdMode /\ hw.host) = 0
      BY <1>6, <2>2 DEF engine, One
    <3>2. CASE hw.host
      <4>1. hw.vid = TRUE /\ hw.power /\ hw.engine
        BY <1>4, <1>5, <2>2, <3>2, Found DEF Typed
      <4>2. e = Good([hw EXCEPT !.vid = FALSE])
        BY <3>1, <4>1 DEF VidEngine, Allowed
      <4>3. Outcome(e) /\ e.h = [hw EXCEPT !.vid = FALSE]
        BY <4>2, GoodIs
      <4>4. hw' = [hw EXCEPT !.vid = FALSE]
        BY <1>2, <1>6, <4>3, IgnoredGives
      <4>5. /\ Typed(hw') /\ Wires(hw') = Wires(hw) /\ hw'.sup = hw.sup /\ hw'.vid = FALSE
            /\ But({"vid"}, hw, hw')
        BY <4>4, Found DEF Typed, Wires, But
      <4>6. Coherent(hw') /\ Clocked(hw')
        BY <4>5, Found, StateKeeps DEF But
      <4> QED
        BY <1>4, <3>1, <4>5, <4>6 DEF But
    <3>3. CASE ~hw.host
      <4>1. hw.vid = FALSE
        BY <1>4, <3>3, Found DEF Typed
      <4>2. e = Refused(hw)
        BY <3>1, <4>1 DEF VidEngine, Allowed
      <4>3. Outcome(e) /\ e.h = hw
        BY <4>2, FailedIs
      <4>4. hw' = hw
        BY <1>2, <1>6, <4>3, IgnoredGives
      <4> QED
        BY <1>4, <3>1, <4>1, <4>4, Found DEF But
    <3> QED
      BY <3>2, <3>3
  <2> QED
    BY <2>1, <2>2
<1>8. /\ hw'.init = hw.init /\ hw'.splash = hw.splash /\ hw'.host = hw.host
      /\ hw'.engine = hw.engine /\ hw'.panel = hw.panel /\ hw'.vote = hw.vote
      /\ hw'.sup["panelPwr"] = hw.sup["panelPwr"] /\ pc' = "panelDisable"
      /\ hw'.phyEngine = hw.phyEngine /\ hw'.vote["mdp"]["core"] = 0
  <2>1. "core" \in Clock
    BY DEF Clock
  <2>2. hw.vote["mdp"]["core"] = 0
    BY <1>3, <2>1
  <2> QED
    BY <1>1, <1>7, <2>2 DEF But
<1>9. TypeInv'
  BY <1>2, <1>3, <1>8 DEF Inv, TypeInv, Moving, Rest, Prepare, Abort, Unprepare,
       otherVars
<1>10. Ctl'
  <2>1. (CoreVotes /\ LinkVotes /\ MdpVotes)'
    BY <1>2, <1>3, <1>4, <1>7, <1>8, JobsAssumption DEF Inv, Ctl, CoreVotes, LinkVotes,
         MdpVotes, DrmCore, DrmLink, Running, One
  <2>2. LockInv'
    BY <1>2, <1>3, <1>4, <1>7, <1>8, JobsAssumption DEF Inv, Ctl, LockInv, DrmLocked,
         Prepare, Abort, Unprepare, DisplayJobs, PanelJobs, Busy
  <2>3. HostInv'
    BY <1>2, <1>3, <1>4, <1>7, <1>8 DEF Inv, Ctl, HostInv, Running, HostAt, HostMayBe,
         EngineAt, SplashAt
  <2>4. EngineInv'
    BY <1>2, <1>3, <1>4, <1>7, <1>8 DEF Inv, Ctl, EngineInv, Sends, Running, One
  <2>5. PanelInv'
    BY <1>2, <1>3, <1>4, <1>7, <1>8 DEF Inv, Ctl, PanelInv, Prepare, Running, One
  <2>6. PhyInv'
    BY <1>2, <1>3, <1>4, <1>7, <1>8 DEF Inv, Ctl, PhyInv, HostInv, HostAt, HostMayBe,
         Running, Same, PhyStays
  <2>7. CleanInv'
    BY <1>2, <1>3, <1>4, <1>7, <1>8 DEF Inv, Ctl, CleanInv, Running, Prepare, HostAt,
         Abort, Unprepare
  <2> QED
    BY <2>1, <2>2, <2>3, <2>4, <2>5, <2>6, <2>7 DEF Ctl
<1>11. BootInv'
  BY <1>8 DEF BootInv
<1> QED
  BY <1>7, <1>9, <1>10, <1>11 DEF Inv, HwInv

\* The OFF commands, and a panel that is not initialized any more.
LEMMA PanelDisableKeeps ==
  ASSUME Recovered, Inv, PanelDisable
  PROVE  Inv'
<1>1. PICK r \in PanelOffCommands(hw) : Takes(r) /\ pc' = "panelUnprepare"
  BY DEF PanelDisable, Step
<1>2. /\ Sound(r) /\ hw' = r.h /\ clean' \in BOOLEAN /\ faults' \in 0..MaxFaults
      /\ clean' => clean /\ r.hit = {}
      /\ hw.splash => r.hit = {}
  BY <1>1, TakesGives DEF Inv
<1>3. /\ pc = "panelDisable" /\ plock = "none" /\ lock' = "none" /\ back' = "off"
      /\ UNCHANGED <<plock, job, isr, wq>>
  BY DEF PanelDisable, PanelFree, Step
<1>4. PICK x \in Ignored(Transfer(hw)) : r = [x EXCEPT !.h.init = FALSE]
  BY <1>1 DEF PanelOffCommands
<1>5. Outcome(x)
  <2>1. PICK w \in Transfer(hw) : x = [w EXCEPT !.ok = TRUE]
    BY DEF Ignored
  <2>2. Shape(w)
    BY TransferGives
  <2> QED
    BY <2>1, <2>2 DEF Shape, Outcome
<1>6. r.h = [x.h EXCEPT !.init = FALSE] /\ r.hit = x.hit
  BY <1>4, <1>5 DEF Outcome
<1>7. /\ Coherent(x.h) /\ Clocked(x.h) /\ PhyStays(hw, x.h) /\ But({"phy"}, hw, x.h)
  <2>1. Sound(x)
    BY <1>2, <1>6 DEF Sound
  <2> QED
    BY <2>1, Found, CommandIgnored
<1>8. (hw.init => hw.host /\ hw.link) /\ lock = "drm"
  <2>0. lock = "drm"
    BY <1>3 DEF Inv, Ctl, LockInv, DrmLocked
  <2>1. hw.init => hw.host
    BY DEF Inv, Ctl, HostInv
  <2>2. hw.host => hw.vote["dsi"]["link"] > 0
    BY <1>3 DEF Inv, Ctl, LinkVotes, DrmLink, One
  <2> QED
    BY <2>0, <2>1, <2>2, Found
<1>9. Coherent(hw') /\ Clocked(hw') /\ But({"init"}, x.h, hw') /\ hw'.init = FALSE
  <2>1. hw' = [x.h EXCEPT !.init = FALSE] /\ FALSE \in BOOLEAN /\ (x.h.init => FALSE \/ x.h.link)
    BY <1>2, <1>6, <1>7, <1>8 DEF But
  <2> QED
    BY <1>7, <2>1, InitIs
<1>10. /\ ~hw'.init /\ hw'.splash = hw.splash /\ hw'.host = hw.host
       /\ hw'.engine = hw.engine /\ hw'.panel = hw.panel /\ hw'.vid = hw.vid
       /\ hw'.sup["panelPwr"] = hw.sup["panelPwr"] /\ hw'.vote = hw.vote
       /\ hw'.cmdRef = hw.cmdRef /\ hw'.cmd = hw.cmd
       /\ hw'.phyEngine => hw.phyEngine \/ hw.host \/ hw.panel.ulpsSuspend
       /\ pc' = "panelUnprepare"
  BY <1>1, <1>7, <1>8, <1>9 DEF But, PhyStays
<1>11. TypeInv'
  BY <1>2, <1>3, <1>8, <1>10 DEF Inv, TypeInv, Moving, Rest, Prepare, Abort, Unprepare,
       otherVars
<1>12. Ctl'
  <2>1. (CoreVotes /\ LinkVotes /\ MdpVotes)'
    BY <1>2, <1>3, <1>8, <1>10, JobsAssumption DEF Inv, Ctl, CoreVotes, LinkVotes, MdpVotes,
         DrmCore, DrmLink, Running, One
  <2>2. LockInv'
    BY <1>2, <1>3, <1>8, <1>10, JobsAssumption DEF Inv, Ctl, LockInv, DrmLocked, Prepare,
         Abort, Unprepare, DisplayJobs, PanelJobs, Busy
  <2>3. HostInv'
    BY <1>2, <1>3, <1>8, <1>10 DEF Inv, Ctl, HostInv, Running, HostAt, HostMayBe, EngineAt,
         SplashAt
  <2>4. EngineInv'
    BY <1>2, <1>3, <1>8, <1>10 DEF Inv, Ctl, EngineInv, Sends, Running, One
  <2>5. PanelInv'
    BY <1>2, <1>3, <1>8, <1>10 DEF Inv, Ctl, PanelInv, Prepare, Running, One
  <2>6. PhyInv'
    BY <1>2, <1>3, <1>8, <1>10 DEF Inv, Ctl, PhyInv, HostInv, HostAt, HostMayBe, Running,
         Same, PhyStays
  <2>7. CleanInv'
    BY <1>2, <1>3, <1>8, <1>10 DEF Inv, Ctl, CleanInv, Running, Prepare, HostAt, Abort,
         Unprepare
  <2> QED
    BY <2>1, <2>2, <2>3, <2>4, <2>5, <2>6, <2>7 DEF Ctl
<1>13. BootInv'
  BY <1>10 DEF BootInv
<1> QED
  BY <1>9, <1>11, <1>12, <1>13 DEF Inv, HwInv

\* The POST_OFF commands.
LEMMA PanelUnprepareKeeps ==
  ASSUME Recovered, Inv, PanelUnprepare
  PROVE  Inv'
<1>1. PICK r \in Ignored(Transfer(hw)) : Takes(r) /\ pc' = "hostOff"
  BY DEF PanelUnprepare, Step
<1>2. /\ Sound(r) /\ hw' = r.h /\ clean' \in BOOLEAN /\ faults' \in 0..MaxFaults
      /\ clean' => clean /\ r.hit = {}
      /\ hw.splash => r.hit = {}
  BY <1>1, TakesGives DEF Inv
<1>3. /\ pc = "panelUnprepare" /\ plock = "none" /\ lock = "none" /\ lock' = "drm"
      /\ UNCHANGED <<back, plock, job, isr, wq>>
  BY DEF PanelUnprepare, PanelFree, Step
<1>4. /\ Coherent(hw') /\ Clocked(hw') /\ PhyStays(hw, hw') /\ But({"phy"}, hw, hw')
  BY <1>2, Found, CommandIgnored
<1>5. /\ ~hw'.init /\ ~hw.init /\ hw'.splash = hw.splash /\ hw'.host = hw.host
      /\ hw'.engine = hw.engine /\ hw'.panel = hw.panel /\ hw'.vid = hw.vid
      /\ hw'.sup["panelPwr"] = hw.sup["panelPwr"] /\ hw'.vote = hw.vote
      /\ hw'.cmdRef = hw.cmdRef /\ hw'.cmd = hw.cmd
      /\ hw'.phyEngine => hw.phyEngine \/ hw.panel.ulpsSuspend
      /\ pc' = "hostOff"
  BY <1>1, <1>3, <1>4 DEF But, PhyStays, Inv, Ctl, HostInv, Running
<1>6. TypeInv'
  BY <1>2, <1>3, <1>5 DEF Inv, TypeInv, Moving, Rest, Prepare, Abort, Unprepare,
       otherVars
<1>7. Ctl'
  <2>1. (CoreVotes /\ LinkVotes /\ MdpVotes)'
    BY <1>2, <1>3, <1>5, JobsAssumption DEF Inv, Ctl, CoreVotes, LinkVotes, MdpVotes,
         DrmCore, DrmLink, Running, One
  <2>2. LockInv'
    BY <1>2, <1>3, <1>5, JobsAssumption DEF Inv, Ctl, LockInv, DrmLocked, Prepare,
         Abort, Unprepare, DisplayJobs, PanelJobs, Busy
  <2>3. HostInv'
    BY <1>2, <1>3, <1>5 DEF Inv, Ctl, HostInv, Running, HostAt, HostMayBe, EngineAt,
         SplashAt
  <2>4. EngineInv'
    BY <1>2, <1>3, <1>5 DEF Inv, Ctl, EngineInv, Sends, Running, One
  <2>5. PanelInv'
    BY <1>2, <1>3, <1>5 DEF Inv, Ctl, PanelInv, Prepare, Running, One
  <2>6. PhyInv'
    BY <1>2, <1>3, <1>5 DEF Inv, Ctl, PhyInv, HostInv, HostAt, HostMayBe, Running,
         Same, PhyStays
  <2>7. CleanInv'
    BY <1>2, <1>3, <1>5 DEF Inv, Ctl, CleanInv, Running, Prepare, HostAt, Abort,
         Unprepare
  <2> QED
    BY <2>1, <2>2, <2>3, <2>4, <2>5, <2>6, <2>7 DEF Ctl
<1>8. BootInv'
  BY <1>5 DEF BootInv
<1> QED
  BY <1>4, <1>6, <1>7, <1>8 DEF Inv, HwInv

\* While the display goes down nobody but the DRM thread holds a clock or an
\* engine.
LEMMA Alone ==
  ASSUME Inv, pc \in {"hostOff", "linkOff", "hostDeinit", "phyOff", "coreOff", "aLinkOff",
                      "aHostOff", "aHostDeinit", "aPhyOff", "aCoreOff"}
  PROVE  /\ ~hw.splash /\ ~hw.vid /\ hw.cmdRef = 0 /\ ~hw.cmd /\ ~hw.init /\ plock = "none"
         /\ lock = "drm"
         /\ hw.vote["dsi"]["core"] = One(DrmCore(hw))
         /\ hw.vote["dsi"]["link"] = One(DrmLink(hw))
         /\ hw.vote["mdp"]["core"] = 0 /\ hw.vote["mdp"]["link"] = 0
<1>1. /\ ~hw.splash /\ ~hw.vid /\ ~hw.init
  BY DEF Inv, Ctl, HostInv, SplashAt, Running
<1>2. plock = "none" /\ lock = "drm" /\ lock \notin Jobs
  BY <1>1, JobsAssumption DEF Inv, Ctl, LockInv, DrmLocked, Abort, Unprepare, DisplayJobs
<1>3. hw.cmdRef = 0 /\ ~hw.cmd
  <2>1. ~Sends("esd") /\ ~Sends("command")
    BY <1>2 DEF Inv, Ctl, LockInv, PanelJobs, DisplayJobs, Sends, Busy
  <2> QED
    BY <2>1 DEF Inv, Ctl, EngineInv, HostInv, Running, One
<1>4. hw.vote["mdp"]["core"] = 0 /\ hw.vote["mdp"]["link"] = 0
  BY DEF Inv, Ctl, MdpVotes, Running
<1>5. One(hw.splash) = 0 /\ One(plock # "none") = 0 /\ One(plock = "esd") = 0
      /\ One(lock \in Jobs) = 0 /\ One(DrmCore(hw)) \in Nat /\ One(DrmLink(hw)) \in Nat
  BY <1>1, <1>2 DEF One
<1>6. /\ hw.vote["dsi"]["core"] = One(DrmCore(hw))
      /\ hw.vote["dsi"]["link"] = One(DrmLink(hw))
  BY <1>5 DEF Inv, Ctl, CoreVotes, LinkVotes
<1> QED
  BY <1>1, <1>2, <1>3, <1>4, <1>6

\* The host's engine stops, unless it may not.
LEMMA HostDisableKeeps ==
  ASSUME Recovered, Inv, HostDisable
  PROVE  Inv'
<1>1. PICK r \in Ignored(HostEngine(hw, FALSE)) :
        /\ Takes(r)
        /\ \/ pc = "hostOff" /\ pc' = "linkOff"
           \/ pc = "aHostOff" /\ pc' = "aHostDeinit"
  BY DEF HostDisable, Step
<1>2. /\ Sound(r) /\ hw' = r.h /\ clean' \in BOOLEAN /\ faults' \in 0..MaxFaults
      /\ clean' => clean /\ r.hit = {}
      /\ hw.splash => r.hit = {}
  BY <1>1, TakesGives DEF Inv
<1>3. /\ pc \in {"hostOff", "aHostOff"} /\ UNCHANGED otherVars
      /\ ~hw.splash /\ ~hw.vid /\ ~hw.cmd /\ lock = "drm" /\ plock = "none"
      /\ hw.engine = hw.host
  <2>1. pc \in {"hostOff", "aHostOff"} /\ UNCHANGED otherVars
    BY <1>1 DEF HostDisable
  <2> QED
    BY <2>1, Alone, Found DEF Inv, Ctl, HostInv, EngineAt, Typed
<1>4. PICK e \in HostEngine(hw, FALSE) : r = [e EXCEPT !.ok = TRUE]
  BY <1>1 DEF Ignored
<1>5. /\ Coherent(hw') /\ Clocked(hw') /\ But({"engine"}, hw, hw') /\ ~hw'.engine
  <2>1. CASE hw.host
    <3>1. hw.vote["dsi"]["core"] > 0
      BY <1>1, <2>1 DEF Inv, Ctl, CoreVotes, DrmCore, DrmLink, One
    <3>2. hw.power /\ hw.engine = TRUE
      BY <1>3, <2>1, <3>1, Found DEF Typed
    <3>3. e = Good([hw EXCEPT !.engine = FALSE])
      BY <1>3, <1>4, <3>2 DEF HostEngine, Allowed
    <3>4. Outcome(e) /\ e.h = [hw EXCEPT !.engine = FALSE]
      BY <3>3, GoodIs
    <3>5. hw' = [hw EXCEPT !.engine = FALSE]
      BY <1>2, <1>4, <3>4, IgnoredGives
    <3>6. /\ Typed(hw') /\ Wires(hw') = Wires(hw) /\ hw'.sup = hw.sup /\ hw'.engine = FALSE
          /\ But({"engine"}, hw, hw')
      BY <3>5, Found DEF Typed, Wires, But
    <3> QED
      BY <3>6, Found, StateKeeps DEF But
  <2>2. CASE ~hw.host
    <3>1. hw.engine = FALSE
      BY <1>3, <2>2, Found DEF Typed
    <3>2. e = Refused(hw)
      BY <1>4, <3>1 DEF HostEngine, Allowed
    <3>3. Outcome(e) /\ e.h = hw
      BY <3>2, FailedIs
    <3>4. hw' = hw
      BY <1>2, <1>4, <3>3, IgnoredGives
    <3> QED
      BY <3>1, <3>4, Found DEF But
  <2> QED
    BY <2>1, <2>2
<1>6. /\ ~hw'.engine /\ hw'.splash = hw.splash /\ hw'.host = hw.host /\ hw'.init = hw.init
      /\ hw'.panel = hw.panel /\ hw'.vid = hw.vid /\ hw'.phyEngine = hw.phyEngine
      /\ hw'.sup["panelPwr"] = hw.sup["panelPwr"] /\ hw'.vote = hw.vote
      /\ hw'.cmdRef = hw.cmdRef /\ hw'.cmd = hw.cmd /\ hw'.core = hw.core
  BY <1>5 DEF But
<1>7. TypeInv'
  BY <1>1, <1>2, <1>3 DEF Inv, TypeInv, Moving, Rest, Prepare, Abort, Unprepare,
       otherVars
<1>8. Ctl'
  <2>1. (CoreVotes /\ LinkVotes /\ MdpVotes)'
    BY <1>1, <1>2, <1>3, <1>6, JobsAssumption DEF Inv, Ctl, otherVars, CoreVotes,
         LinkVotes, MdpVotes, DrmCore, DrmLink, Running, One
  <2>2. LockInv'
    BY <1>1, <1>2, <1>3, <1>6, JobsAssumption DEF Inv, Ctl, otherVars, LockInv,
         DrmLocked, Prepare, Abort, Unprepare, DisplayJobs, PanelJobs, Busy
  <2>3. HostInv'
    BY <1>1, <1>2, <1>3, <1>6 DEF Inv, Ctl, otherVars, HostInv, Running, HostAt,
         HostMayBe, EngineAt, SplashAt
  <2>4. EngineInv'
    BY <1>1, <1>2, <1>3, <1>6 DEF Inv, Ctl, otherVars, EngineInv, Sends, Running, One
  <2>5. PanelInv'
    BY <1>1, <1>2, <1>3, <1>6 DEF Inv, Ctl, otherVars, PanelInv, Prepare, Running, One
  <2>6. PhyInv'
    BY <1>1, <1>2, <1>3, <1>6 DEF Inv, Ctl, otherVars, PhyInv, HostInv, HostAt,
         HostMayBe, Running, Same, PhyStays
  <2>7. CleanInv'
    BY <1>1, <1>2, <1>3, <1>6 DEF Inv, Ctl, otherVars, CleanInv, Running, Prepare,
         HostAt, Abort, Unprepare
  <2> QED
    BY <2>1, <2>2, <2>3, <2>4, <2>5, <2>6, <2>7 DEF Ctl
<1>9. BootInv'
  BY <1>1 DEF BootInv
<1> QED
  BY <1>5, <1>7, <1>8, <1>9 DEF Inv, HwInv

\* The DRM thread gives its vote for the link clocks back.
LEMMA LinkOffKeeps ==
  ASSUME Recovered, Inv, LinkOff
  PROVE  Inv'
<1>1. PICK r \in Ignored(Request(hw, "dsi", {"link"}, FALSE)) :
        /\ Takes(r)
        /\ \/ pc = "linkOff" /\ pc' = "hostDeinit"
           \/ pc = "aLinkOff" /\ pc' = "aHostOff"
  BY DEF LinkOff, Step, Dsi
<1>2. /\ Sound(r) /\ hw' = r.h /\ clean' \in BOOLEAN /\ faults' \in 0..MaxFaults
      /\ clean' => clean /\ r.hit = {}
      /\ hw.splash => r.hit = {}
  BY <1>1, TakesGives DEF Inv
<1>3. /\ pc \in {"linkOff", "aLinkOff"} /\ UNCHANGED otherVars
      /\ ~hw.splash /\ ~hw.vid /\ ~hw.init /\ lock = "drm" /\ plock = "none"
      /\ hw.vote["dsi"]["core"] = One(DrmCore(hw)) /\ hw.vote["dsi"]["link"] = One(DrmLink(hw))
      /\ hw.vote["mdp"]["core"] = 0 /\ hw.vote["mdp"]["link"] = 0
  <2>1. pc \in {"linkOff", "aLinkOff"} /\ UNCHANGED otherVars
    BY <1>1 DEF LinkOff
  <2> QED
    BY <2>1, Alone
<1>4. PICK q \in Request(hw, "dsi", {"link"}, FALSE) : r = [q EXCEPT !.ok = TRUE]
  BY <1>1 DEF Ignored
<1>5. hw' = q.h /\ Sound(q)
  <2>1. "dsi" \in Client /\ {"link"} \in SUBSET Clock /\ FALSE \in BOOLEAN
    BY DEF Client, Clock
  <2>2. Outcome(q)
    BY <2>1, RequestGives
  <2> QED
    BY <1>2, <1>4, <2>2, IgnoredGives
<1>6. /\ Coherent(hw') /\ Clocked(hw') /\ Same(hw, hw')
      /\ hw'.vote["dsi"]["link"] = 0 /\ hw'.vote["dsi"]["core"] = hw.vote["dsi"]["core"]
      /\ hw'.vote["mdp"] = hw.vote["mdp"]
  <2>1. {"link"} \in SUBSET Clock
    BY DEF Clock
  <2>2. hw.vote["dsi"]["link"] \in {0, 1}
    BY <1>3 DEF One
  <2>3. CASE hw.vote["dsi"]["link"] = 1
    <3>1. \A j \in {"link"} : hw.vote["dsi"][j] > 0
      BY <2>3
    <3>2. /\ Left(hw, "link", {"link"}) = 0
          /\ Left(hw, "core", {"link"}) = hw.vote["dsi"]["core"]
      BY <2>3 DEF Left
    <3>3. Left(hw, "link", {"link"}) > 0 \/ hw.vote["mdp"]["link"] > 0 \/ hw.vid
            => Left(hw, "core", {"link"}) > 0 \/ hw.vote["mdp"]["core"] > 0
      BY <1>3, <3>2
    <3>4. Coherent(hw) /\ Clocked(hw)
      BY Found
    <3>5. /\ Coherent(q.h) /\ Clocked(q.h) /\ Same(hw, q.h)
          /\ q.h.vote["dsi"]["core"] = Left(hw, "core", {"link"})
          /\ q.h.vote["dsi"]["link"] = Left(hw, "link", {"link"})
          /\ q.h.vote["mdp"] = hw.vote["mdp"]
      BY <1>5, <2>1, <3>1, <3>3, <3>4, GiveGives
    <3> QED
      BY <1>5, <3>2, <3>5
  <2>4. CASE hw.vote["dsi"]["link"] = 0
    <3>1. \A j \in {"link"} : hw.vote["dsi"][j] = 0
      BY <2>4
    <3>2. Request(hw, "dsi", {"link"}, FALSE) = {Good(hw)}
      BY <2>1, <3>1, Found, NoneGiven
    <3>3. hw' = hw
      BY <1>5, <3>2, GoodIs
    <3> QED
      BY <2>4, <3>3, Found DEF Same, But, PhyStays
  <2> QED
    BY <2>2, <2>3, <2>4
<1>7. /\ hw'.engine = hw.engine /\ hw'.splash = hw.splash /\ hw'.host = hw.host
      /\ hw'.init = hw.init /\ hw'.panel = hw.panel /\ hw'.vid = hw.vid
      /\ hw'.phyEngine => hw.phyEngine \/ hw.panel.ulpsSuspend
      /\ hw'.sup["panelPwr"] = hw.sup["panelPwr"]
      /\ hw'.cmdRef = hw.cmdRef /\ hw'.cmd = hw.cmd
  BY <1>3, <1>6 DEF Same, But, PhyStays
<1>8. TypeInv'
  BY <1>1, <1>2, <1>3 DEF Inv, TypeInv, Moving, Rest, Prepare, Abort, Unprepare,
       otherVars
<1>9. Ctl'
  <2>1. (CoreVotes /\ LinkVotes /\ MdpVotes)'
    BY <1>1, <1>2, <1>3, <1>6, <1>7, JobsAssumption DEF Inv, Ctl, otherVars, CoreVotes,
         LinkVotes, MdpVotes, DrmCore, DrmLink, Running, One
  <2>2. LockInv'
    BY <1>1, <1>2, <1>3, <1>6, <1>7, JobsAssumption DEF Inv, Ctl, otherVars, LockInv,
         DrmLocked, Prepare, Abort, Unprepare, DisplayJobs, PanelJobs, Busy
  <2>3. HostInv'
    BY <1>1, <1>2, <1>3, <1>6, <1>7 DEF Inv, Ctl, otherVars, HostInv, Running, HostAt,
         HostMayBe, EngineAt, SplashAt
  <2>4. EngineInv'
    BY <1>1, <1>2, <1>3, <1>6, <1>7 DEF Inv, Ctl, otherVars, EngineInv, Sends, Running,
         One
  <2>5. PanelInv'
    BY <1>1, <1>2, <1>3, <1>6, <1>7 DEF Inv, Ctl, otherVars, PanelInv, Prepare,
         Running, One
  <2>6. PhyInv'
    BY <1>1, <1>2, <1>3, <1>6, <1>7 DEF Inv, Ctl, otherVars, PhyInv, HostInv, HostAt,
         HostMayBe, Running, Same, PhyStays
  <2>7. CleanInv'
    BY <1>1, <1>2, <1>3, <1>6, <1>7 DEF Inv, Ctl, otherVars, CleanInv, Running,
         Prepare, HostAt, Abort, Unprepare
  <2> QED
    BY <2>1, <2>2, <2>3, <2>4, <2>5, <2>6, <2>7 DEF Ctl
<1>10. BootInv'
  BY <1>1 DEF BootInv
<1> QED
  BY <1>6, <1>8, <1>9, <1>10 DEF Inv, HwInv

\* The host is not initialized any more.
LEMMA CtrlDeinitKeeps ==
  ASSUME Recovered, Inv, CtrlDeinit
  PROVE  Inv'
<1>1. PICK r \in Ignored(HostDeinit(hw)) :
        /\ Takes(r)
        /\ \/ pc = "hostDeinit" /\ pc' = "phyOff"
           \/ pc = "aHostDeinit" /\ pc' = "aPhyOff"
  BY DEF CtrlDeinit, Step
<1>2. /\ Sound(r) /\ hw' = r.h /\ clean' \in BOOLEAN /\ faults' \in 0..MaxFaults
      /\ clean' => clean /\ r.hit = {}
      /\ hw.splash => r.hit = {}
  BY <1>1, TakesGives DEF Inv
<1>3. /\ pc \in {"hostDeinit", "aHostDeinit"} /\ UNCHANGED otherVars
      /\ ~hw.splash /\ ~hw.vid /\ ~hw.init /\ ~hw.engine /\ lock = "drm" /\ plock = "none"
      /\ hw.vote["dsi"]["core"] = One(DrmCore(hw)) /\ hw.vote["dsi"]["link"] = One(DrmLink(hw))
      /\ hw.vote["mdp"]["core"] = 0 /\ hw.vote["mdp"]["link"] = 0
  <2>1. pc \in {"hostDeinit", "aHostDeinit"} /\ UNCHANGED otherVars
    BY <1>1 DEF CtrlDeinit
  <2> QED
    BY <2>1, Alone DEF Inv, Ctl, HostInv, EngineAt, Running
<1>4. PICK e \in HostDeinit(hw) : r = [e EXCEPT !.ok = TRUE]
  BY <1>1 DEF Ignored
<1>5. /\ Coherent(hw') /\ Clocked(hw') /\ But({"host"}, hw, hw') /\ ~hw'.host
  <2>1. CASE hw.host
    <3>1. hw.vote["dsi"]["core"] > 0
      BY <1>1, <1>3, <2>1 DEF DrmCore, One
    <3>2. hw.power /\ hw.host = TRUE
      BY <2>1, <3>1, Found DEF Typed
    <3>3. e = Good([hw EXCEPT !.host = FALSE])
      BY <1>4, <3>2 DEF HostDeinit, Allowed
    <3>4. Outcome(e) /\ e.h = [hw EXCEPT !.host = FALSE]
      BY <3>3, GoodIs
    <3>5. hw' = [hw EXCEPT !.host = FALSE]
      BY <1>2, <1>4, <3>4, IgnoredGives
    <3>6. /\ Typed(hw') /\ Wires(hw') = Wires(hw) /\ hw'.sup = hw.sup /\ hw'.host = FALSE
          /\ But({"host"}, hw, hw')
      BY <3>5, Found DEF Typed, Wires, But
    <3> QED
      BY <3>2, <3>6, Found, StateKeeps DEF But
  <2>2. CASE ~hw.host
    <3>1. hw.host = FALSE
      BY <2>2, Found DEF Typed
    <3>2. e = Refused(hw)
      BY <1>4, <3>1 DEF HostDeinit, Allowed
    <3>3. Outcome(e) /\ e.h = hw
      BY <3>2, FailedIs
    <3>4. hw' = hw
      BY <1>2, <1>4, <3>3, IgnoredGives
    <3> QED
      BY <3>1, <3>4, Found DEF But
  <2> QED
    BY <2>1, <2>2
<1>6. /\ hw'.engine = hw.engine /\ hw'.splash = hw.splash /\ hw'.init = hw.init
      /\ hw'.panel = hw.panel /\ hw'.vid = hw.vid /\ hw'.phyEngine = hw.phyEngine
      /\ hw'.sup["panelPwr"] = hw.sup["panelPwr"] /\ hw'.vote = hw.vote
      /\ hw'.cmdRef = hw.cmdRef /\ hw'.cmd = hw.cmd /\ hw'.core = hw.core
  BY <1>5 DEF But
<1>7. pc = "hostDeinit" /\ ~hw.core => ~hw.host
  <2>1. pc = "hostDeinit" /\ hw.host => hw.vote["dsi"]["core"] > 0
    BY <1>3 DEF DrmCore, One
  <2> QED
    BY <2>1, Found
<1>8. TypeInv'
  BY <1>1, <1>2, <1>3 DEF Inv, TypeInv, Moving, Rest, Prepare, Abort, Unprepare,
       otherVars
<1>9. Ctl'
  <2>1. (CoreVotes /\ LinkVotes /\ MdpVotes)'
    BY <1>1, <1>2, <1>3, <1>5, <1>6, <1>7, JobsAssumption DEF Inv, Ctl, otherVars,
         CoreVotes, LinkVotes, MdpVotes, DrmCore, DrmLink, Running, One
  <2>2. LockInv'
    BY <1>1, <1>2, <1>3, <1>5, <1>6, <1>7, JobsAssumption DEF Inv, Ctl, otherVars,
         LockInv, DrmLocked, Prepare, Abort, Unprepare, DisplayJobs, PanelJobs, Busy
  <2>3. HostInv'
    BY <1>1, <1>2, <1>3, <1>5, <1>6, <1>7 DEF Inv, Ctl, otherVars, HostInv, Running,
         HostAt, HostMayBe, EngineAt, SplashAt
  <2>4. EngineInv'
    BY <1>1, <1>2, <1>3, <1>5, <1>6, <1>7 DEF Inv, Ctl, otherVars, EngineInv, Sends,
         Running, One
  <2>5. PanelInv'
    BY <1>1, <1>2, <1>3, <1>5, <1>6, <1>7 DEF Inv, Ctl, otherVars, PanelInv, Prepare,
         Running, One
  <2>6. PhyInv'
    BY <1>1, <1>2, <1>3, <1>5, <1>6, <1>7 DEF Inv, Ctl, otherVars, PhyInv, HostInv,
         HostAt, HostMayBe, Running, Same, PhyStays
  <2>7. CleanInv'
    BY <1>1, <1>2, <1>3, <1>5, <1>6, <1>7 DEF Inv, Ctl, otherVars, CleanInv, Running,
         Prepare, HostAt, Abort, Unprepare
  <2> QED
    BY <2>1, <2>2, <2>3, <2>4, <2>5, <2>6, <2>7 DEF Ctl
<1>10. BootInv'
  BY <1>1 DEF BootInv
<1> QED
  BY <1>5, <1>8, <1>9, <1>10 DEF Inv, HwInv

\* The PHY is disabled, but for ULPS in suspend.
LEMMA PhyDisableKeeps ==
  ASSUME Recovered, Inv, PhyDisable
  PROVE  Inv'
<1>1. PICK r : /\ Takes(r)
               /\ \/ /\ pc = "phyOff" /\ pc' = "coreOff"
                     /\ r = Good(IF hw.panel.ulpsSuspend THEN hw ELSE PhyEngineOff(hw))
                  \/ /\ pc = "aPhyOff" /\ pc' = "aCoreOff"
                     /\ r = Good(PhyEngineOff(hw))
  BY DEF PhyDisable, Step
<1>2. /\ Sound(r) /\ hw' = r.h /\ clean' \in BOOLEAN /\ faults' \in 0..MaxFaults
      /\ clean' => clean /\ r.hit = {}
      /\ hw.splash => r.hit = {}
  BY <1>1, TakesGives DEF Inv
<1>3. /\ pc \in {"phyOff", "aPhyOff"} /\ UNCHANGED otherVars
      /\ ~hw.splash /\ ~hw.vid /\ ~hw.init /\ lock = "drm" /\ plock = "none" /\ ~hw.host
      /\ hw.vote["dsi"]["core"] = One(DrmCore(hw)) /\ hw.vote["dsi"]["link"] = One(DrmLink(hw))
      /\ hw.vote["mdp"]["core"] = 0 /\ hw.vote["mdp"]["link"] = 0
  <2>1. pc \in {"phyOff", "aPhyOff"} /\ UNCHANGED otherVars
    BY <1>1 DEF PhyDisable
  <2> QED
    BY <2>1, Alone DEF Inv, Ctl, HostInv, HostAt, HostMayBe, Running
<1>4. /\ Coherent(hw') /\ Clocked(hw') /\ But({"phy"}, hw, hw')
      /\ hw.panel.ulpsSuspend \/ ~hw'.phyEngine
  <2>1. CASE hw' = hw /\ hw.panel.ulpsSuspend
    BY <2>1, Found DEF But
  <2>2. CASE hw' = PhyEngineOff(hw) /\ (pc = "phyOff" => ~hw.panel.ulpsSuspend)
    <3>1. /\ Typed(hw') /\ But({"phy"}, hw, hw') /\ hw'.sup = hw.sup /\ hw'.phyEngine = FALSE
          /\ hw'.power = hw.power /\ hw'.phyPower = hw.phyPower /\ hw'.idle = hw.idle
          /\ hw'.clamp = hw.clamp /\ hw'.ulps = hw.ulps /\ hw'.lanes = hw.lanes
      BY <2>2, Found DEF Typed, But, PhyEngineOff
    <3>2. pc = "aPhyOff" => hw.core
      BY <1>3, Found DEF DrmCore, One
    <3>3. hw.phyPower \/ ~hw.phyEngine
      BY <1>3, <2>2, <3>2, Found DEF Inv, Ctl, PhyInv
    <3>4. (hw'.phyPower \/ hw'.phyEngine) <=> (hw.phyPower \/ hw.phyEngine)
      BY <3>1, <3>3
    <3>5. Supplied(hw')
      BY <3>1, <3>4, Found DEF Coherent, Supplied, But, One
    <3>6. Powered(hw') /\ Parked(hw') /\ Clocked(hw')
      BY <3>1, Found DEF Coherent, Powered, Parked, Clocked, Voted, But
    <3> QED
      BY <3>1, <3>5, <3>6 DEF Coherent
  <2> QED
    BY <1>1, <1>2, <2>1, <2>2, GoodIs
<1>5. /\ hw'.engine = hw.engine /\ hw'.splash = hw.splash /\ hw'.init = hw.init
      /\ hw'.panel = hw.panel /\ hw'.vid = hw.vid /\ hw'.host = hw.host
      /\ hw'.sup["panelPwr"] = hw.sup["panelPwr"] /\ hw'.vote = hw.vote
      /\ hw'.cmdRef = hw.cmdRef /\ hw'.cmd = hw.cmd /\ hw'.core = hw.core
  BY <1>4 DEF But
<1>6. TypeInv'
  BY <1>1, <1>2, <1>3 DEF Inv, TypeInv, Moving, Rest, Prepare, Abort, Unprepare,
       otherVars
<1>7. Ctl'
  <2>1. (CoreVotes /\ LinkVotes /\ MdpVotes)'
    BY <1>1, <1>2, <1>3, <1>4, <1>5, JobsAssumption DEF Inv, Ctl, otherVars, CoreVotes,
         LinkVotes, MdpVotes, DrmCore, DrmLink, Running, One
  <2>2. LockInv'
    BY <1>1, <1>2, <1>3, <1>4, <1>5, JobsAssumption DEF Inv, Ctl, otherVars, LockInv,
         DrmLocked, Prepare, Abort, Unprepare, DisplayJobs, PanelJobs, Busy
  <2>3. HostInv'
    BY <1>1, <1>2, <1>3, <1>4, <1>5 DEF Inv, Ctl, otherVars, HostInv, Running, HostAt,
         HostMayBe, EngineAt, SplashAt
  <2>4. EngineInv'
    BY <1>1, <1>2, <1>3, <1>4, <1>5 DEF Inv, Ctl, otherVars, EngineInv, Sends, Running,
         One
  <2>5. PanelInv'
    BY <1>1, <1>2, <1>3, <1>4, <1>5 DEF Inv, Ctl, otherVars, PanelInv, Prepare,
         Running, One
  <2>6. PhyInv'
    BY <1>1, <1>2, <1>3, <1>4, <1>5 DEF Inv, Ctl, otherVars, PhyInv, HostInv, HostAt,
         HostMayBe, Running, Same, PhyStays
  <2>7. CleanInv'
    BY <1>1, <1>2, <1>3, <1>4, <1>5 DEF Inv, Ctl, otherVars, CleanInv, Running,
         Prepare, HostAt, Abort, Unprepare
  <2> QED
    BY <2>1, <2>2, <2>3, <2>4, <2>5, <2>6, <2>7 DEF Ctl
<1>8. BootInv'
  BY <1>1 DEF BootInv
<1> QED
  BY <1>4, <1>6, <1>7, <1>8 DEF Inv, HwInv

\* The DRM thread gives its vote for the core clocks back.
LEMMA CoreOffKeeps ==
  ASSUME Recovered, Inv, CoreOff
  PROVE  Inv'
<1>1. PICK r \in Ignored(Request(hw, "dsi", {"core"}, FALSE)) :
        /\ Takes(r)
        /\ \/ pc = "coreOff" /\ pc' = "panelOff"
           \/ pc = "aCoreOff" /\ pc' = "aPanelOff"
  BY DEF CoreOff, Step, Dsi
<1>2. /\ Sound(r) /\ hw' = r.h /\ clean' \in BOOLEAN /\ faults' \in 0..MaxFaults
      /\ clean' => clean /\ r.hit = {}
      /\ hw.splash => r.hit = {}
  BY <1>1, TakesGives DEF Inv
<1>3. /\ pc \in {"coreOff", "aCoreOff"} /\ UNCHANGED otherVars /\ ~hw.host
      /\ ~hw.splash /\ ~hw.vid /\ ~hw.init /\ lock = "drm" /\ plock = "none"
      /\ hw.vote["dsi"]["core"] = One(DrmCore(hw)) /\ hw.vote["dsi"]["link"] = 0
      /\ hw.vote["mdp"]["core"] = 0 /\ hw.vote["mdp"]["link"] = 0
  <2>1. pc \in {"coreOff", "aCoreOff"} /\ UNCHANGED otherVars
    BY <1>1 DEF CoreOff
  <2>2. One(DrmLink(hw)) = 0
    BY <2>1 DEF DrmLink, One
  <2> QED
    BY <2>1, <2>2, Alone DEF Inv, Ctl, HostInv, HostAt, HostMayBe, Running
<1>4. PICK q \in Request(hw, "dsi", {"core"}, FALSE) : r = [q EXCEPT !.ok = TRUE]
  BY <1>1 DEF Ignored
<1>5. hw' = q.h /\ Sound(q)
  <2>1. "dsi" \in Client /\ {"core"} \in SUBSET Clock /\ FALSE \in BOOLEAN
    BY DEF Client, Clock
  <2>2. Outcome(q)
    BY <2>1, RequestGives
  <2> QED
    BY <1>2, <1>4, <2>2, IgnoredGives
<1>6. /\ Coherent(hw') /\ Clocked(hw') /\ Same(hw, hw')
      /\ hw'.vote["dsi"]["core"] = 0 /\ hw'.vote["dsi"]["link"] = hw.vote["dsi"]["link"]
      /\ hw'.vote["mdp"] = hw.vote["mdp"]
  <2>1. {"core"} \in SUBSET Clock
    BY DEF Clock
  <2>2. hw.vote["dsi"]["core"] \in {0, 1}
    BY <1>3 DEF One
  <2>3. CASE hw.vote["dsi"]["core"] = 1
    <3>1. \A j \in {"core"} : hw.vote["dsi"][j] > 0
      BY <2>3
    <3>2. /\ Left(hw, "core", {"core"}) = 0
          /\ Left(hw, "link", {"core"}) = hw.vote["dsi"]["link"]
      BY <2>3 DEF Left
    <3>3. Left(hw, "link", {"core"}) > 0 \/ hw.vote["mdp"]["link"] > 0 \/ hw.vid
            => Left(hw, "core", {"core"}) > 0 \/ hw.vote["mdp"]["core"] > 0
      BY <1>3, <3>2
    <3>4. Coherent(hw) /\ Clocked(hw)
      BY Found
    <3>5. /\ Coherent(q.h) /\ Clocked(q.h) /\ Same(hw, q.h)
          /\ q.h.vote["dsi"]["core"] = Left(hw, "core", {"core"})
          /\ q.h.vote["dsi"]["link"] = Left(hw, "link", {"core"})
          /\ q.h.vote["mdp"] = hw.vote["mdp"]
      BY <1>5, <2>1, <3>1, <3>3, <3>4, GiveGives
    <3> QED
      BY <1>5, <3>2, <3>5
  <2>4. CASE hw.vote["dsi"]["core"] = 0
    <3>1. \A j \in {"core"} : hw.vote["dsi"][j] = 0
      BY <2>4
    <3>2. Request(hw, "dsi", {"core"}, FALSE) = {Good(hw)}
      BY <2>1, <3>1, Found, NoneGiven
    <3>3. hw' = hw
      BY <1>5, <3>2, GoodIs
    <3> QED
      BY <2>4, <3>3, Found DEF Same, But, PhyStays
  <2> QED
    BY <2>2, <2>3, <2>4
<1>7. /\ hw'.engine = hw.engine /\ hw'.splash = hw.splash /\ hw'.host = hw.host
      /\ hw'.init = hw.init /\ hw'.panel = hw.panel /\ hw'.vid = hw.vid
      /\ hw'.phyEngine => hw.phyEngine \/ hw.panel.ulpsSuspend
      /\ hw'.sup["panelPwr"] = hw.sup["panelPwr"]
      /\ hw'.cmdRef = hw.cmdRef /\ hw'.cmd = hw.cmd
  BY <1>3, <1>6 DEF Same, But, PhyStays
<1>8. TypeInv'
  BY <1>1, <1>2, <1>3 DEF Inv, TypeInv, Moving, Rest, Prepare, Abort, Unprepare,
       otherVars
<1>9. Ctl'
  <2>1. (CoreVotes /\ LinkVotes /\ MdpVotes)'
    BY <1>1, <1>2, <1>3, <1>6, <1>7, JobsAssumption DEF Inv, Ctl, otherVars, CoreVotes,
         LinkVotes, MdpVotes, DrmCore, DrmLink, Running, One
  <2>2. LockInv'
    BY <1>1, <1>2, <1>3, <1>6, <1>7, JobsAssumption DEF Inv, Ctl, otherVars, LockInv,
         DrmLocked, Prepare, Abort, Unprepare, DisplayJobs, PanelJobs, Busy
  <2>3. HostInv'
    BY <1>1, <1>2, <1>3, <1>6, <1>7 DEF Inv, Ctl, otherVars, HostInv, Running, HostAt,
         HostMayBe, EngineAt, SplashAt
  <2>4. EngineInv'
    BY <1>1, <1>2, <1>3, <1>6, <1>7 DEF Inv, Ctl, otherVars, EngineInv, Sends, Running,
         One
  <2>5. PanelInv'
    BY <1>1, <1>2, <1>3, <1>6, <1>7 DEF Inv, Ctl, otherVars, PanelInv, Prepare,
         Running, One
  <2>6. PhyInv'
    BY <1>1, <1>2, <1>3, <1>6, <1>7 DEF Inv, Ctl, otherVars, PhyInv, HostInv, HostAt,
         HostMayBe, Running, Same, PhyStays
  <2>7. CleanInv'
    BY <1>1, <1>2, <1>3, <1>6, <1>7 DEF Inv, Ctl, otherVars, CleanInv, Running,
         Prepare, HostAt, Abort, Unprepare
  <2> QED
    BY <2>1, <2>2, <2>3, <2>4, <2>5, <2>6, <2>7 DEF Ctl
<1>10. BootInv'
  BY <1>1 DEF BootInv
<1> QED
  BY <1>6, <1>8, <1>9, <1>10 DEF Inv, HwInv

\* The panel's supply, and the end of the ladder.
LEMMA PanelOffKeeps ==
  ASSUME Recovered, Inv, PanelOff
  PROVE  Inv'
<1>1. PICK r \in {Good(SupplyOff(hw, "panelPwr"))} :
        /\ Takes(r)
        /\ \/ pc = "panelOff" /\ pc' = "unregister" /\ isr' = FALSE
           \/ pc = "aPanelOff" /\ pc' = "preEnabled" /\ isr' = isr
  BY DEF PanelOff, Step
<1>2. /\ Sound(r) /\ hw' = r.h /\ clean' \in BOOLEAN /\ faults' \in 0..MaxFaults
      /\ clean' => clean /\ r.hit = {}
      /\ hw.splash => r.hit = {}
  BY <1>1, TakesGives DEF Inv
<1>3. /\ plock = "none" /\ lock' = "none" /\ UNCHANGED <<back, plock, job, wq>>
      /\ ~hw.splash /\ ~hw.host /\ ~hw.init /\ lock = "drm"
      /\ hw.sup["panelPwr"].ref \in {0, 1}
  <2>1. plock = "none" /\ lock' = "none" /\ UNCHANGED <<back, plock, job, wq>>
    BY DEF PanelOff, PanelFree
  <2> QED
    BY <1>1, <2>1 DEF Inv, Ctl, HostInv, HostAt, HostMayBe, SplashAt, Running, LockInv,
       DrmLocked, Abort, Unprepare, PanelInv
<1>4. /\ Coherent(hw') /\ Clocked(hw') /\ But({"panelPwr"}, hw, hw')
      /\ hw'.sup["panelPwr"].ref = 0
  <2>1. hw' = SupplyOff(hw, "panelPwr")
    BY <1>1, <1>2, GoodIs
  <2> QED
    BY <1>3, <2>1, Found, SupplyOffGives
<1>5. /\ hw'.engine = hw.engine /\ hw'.splash = hw.splash /\ hw'.init = hw.init
      /\ hw'.panel = hw.panel /\ hw'.vid = hw.vid /\ hw'.host = hw.host
      /\ hw'.vote = hw.vote /\ hw'.phyEngine = hw.phyEngine
      /\ hw'.cmdRef = hw.cmdRef /\ hw'.cmd = hw.cmd /\ hw'.core = hw.core
  BY <1>4 DEF But
<1>6. TypeInv'
  BY <1>1, <1>2, <1>3 DEF Inv, TypeInv, Moving, Rest, Prepare, Abort, Unprepare,
       otherVars
<1>7. Ctl'
  <2>1. (CoreVotes /\ LinkVotes /\ MdpVotes)'
    BY <1>1, <1>2, <1>3, <1>4, <1>5, JobsAssumption DEF Inv, Ctl, CoreVotes, LinkVotes,
         MdpVotes, DrmCore, DrmLink, Running, One
  <2>2. LockInv'
    BY <1>1, <1>2, <1>3, <1>4, <1>5, JobsAssumption DEF Inv, Ctl, LockInv, DrmLocked,
         Prepare, Abort, Unprepare, DisplayJobs, PanelJobs, Busy
  <2>3. HostInv'
    BY <1>1, <1>2, <1>3, <1>4, <1>5 DEF Inv, Ctl, HostInv, Running, HostAt, HostMayBe,
         EngineAt, SplashAt
  <2>4. EngineInv'
    BY <1>1, <1>2, <1>3, <1>4, <1>5 DEF Inv, Ctl, EngineInv, Sends, Running, One
  <2>5. PanelInv'
    BY <1>1, <1>2, <1>3, <1>4, <1>5 DEF Inv, Ctl, PanelInv, Prepare, Running, One
  <2>6. PhyInv'
    BY <1>1, <1>2, <1>3, <1>4, <1>5 DEF Inv, Ctl, PhyInv, HostInv, HostAt, HostMayBe,
         Running, Same, PhyStays
  <2>7. CleanInv'
    BY <1>1, <1>2, <1>3, <1>4, <1>5 DEF Inv, Ctl, CleanInv, Running, Prepare, HostAt,
         Abort, Unprepare
  <2> QED
    BY <2>1, <2>2, <2>3, <2>4, <2>5, <2>6, <2>7 DEF Ctl
<1>8. BootInv'
  BY <1>1 DEF BootInv
<1> QED
  BY <1>4, <1>6, <1>7, <1>8 DEF Inv, HwInv

\* The error handlers are gone; unprepare is done.
LEMMA UnregisterKeeps ==
  ASSUME Inv, Unregister
  PROVE  Inv'
<1>1. /\ pc = "unregister" /\ wq' = FALSE /\ pc' = back
      /\ UNCHANGED <<hw, back, lock, plock, job, isr, clean, faults>>
  BY DEF Unregister
<1>2. /\ ~hw.splash /\ ~hw.host /\ ~hw.init /\ lock # "drm"
      /\ hw.sup["panelPwr"].ref = 0 /\ back \in {"off", "preEnabled"}
  BY <1>1 DEF Inv, TypeInv, Ctl, HostInv, HostAt, HostMayBe, SplashAt, Running, LockInv,
     DrmLocked, Prepare, Abort, Unprepare, PanelInv
<1>3. TypeInv'
  BY <1>1, <1>2 DEF Inv, TypeInv, Moving, Rest, Prepare, Abort, Unprepare, otherVars
<1>4. Ctl'
  <2>1. (CoreVotes /\ LinkVotes /\ MdpVotes)'
    BY <1>1, <1>2, JobsAssumption DEF Inv, Ctl, CoreVotes, LinkVotes, MdpVotes,
         DrmCore, DrmLink, Running, One
  <2>2. LockInv'
    BY <1>1, <1>2, JobsAssumption DEF Inv, Ctl, LockInv, DrmLocked, Prepare, Abort,
         Unprepare, DisplayJobs, PanelJobs, Busy
  <2>3. HostInv'
    BY <1>1, <1>2 DEF Inv, Ctl, HostInv, Running, HostAt, HostMayBe, EngineAt, SplashAt
  <2>4. EngineInv'
    BY <1>1, <1>2 DEF Inv, Ctl, EngineInv, Sends, Running, One
  <2>5. PanelInv'
    BY <1>1, <1>2 DEF Inv, Ctl, PanelInv, Prepare, Running, One
  <2>6. PhyInv'
    BY <1>1, <1>2 DEF Inv, Ctl, PhyInv, HostInv, HostAt, HostMayBe, Running, Same,
         PhyStays
  <2>7. CleanInv'
    BY <1>1, <1>2 DEF Inv, Ctl, CleanInv, Running, Prepare, HostAt, Abort, Unprepare
  <2> QED
    BY <2>1, <2>2, <2>3, <2>4, <2>5, <2>6, <2>7 DEF Ctl
<1>5. BootInv'
  BY <1>1, <1>2 DEF BootInv
<1> QED
  BY <1>1, <1>3, <1>4, <1>5 DEF Inv, HwInv

-----------------------------------------------------------------------------
(* The boot picture and the MDP.                                           *)

\* A blank display that another step only lets go.
LEMMA Booted ==
  ASSUME Inv, pc = "boot"
  PROVE  /\ lock # "drm" /\ hw = Cold(hw.panel) /\ lock \notin Jobs /\ plock = "none"
         /\ hw.panel \in Panel
<1>1. hw = Cold(hw.panel) /\ hw.panel \in Panel
  BY Found DEF Inv, BootInv, Typed
<1>2. ~hw.host /\ ~hw.init
  BY <1>1 DEF Cold
<1> QED
  BY <1>1, <1>2 DEF Inv, Ctl, LockInv, DrmLocked, Prepare, Abort, Unprepare

\* The boot loader's picture is kept, or there is none.
LEMMA ContSplashKeeps ==
  ASSUME Recovered, Inv, ContSplashConfig
  PROVE  Inv'
<1> DEFINE h0 == [hw EXCEPT !.splash = TRUE]
           Supply1(g) == SupplyOn(g, "panelPwr")
           Engine1(g) == HostEngine(g, TRUE)
<1>0. /\ pc = "boot" /\ pc' = "off" /\ UNCHANGED <<back, lock, plock, job, wq>>
      /\ lock # "drm" /\ lock \notin Jobs /\ plock = "none"
      /\ hw = Cold(hw.panel)
  BY Booted DEF ContSplashConfig
<1>00. /\ ~hw.splash /\ ~hw.host /\ ~hw.init /\ ~hw.engine /\ ~hw.vid /\ ~hw.cmd /\ hw.cmdRef = 0
       /\ hw.vote["dsi"]["core"] = 0 /\ hw.vote["dsi"]["link"] = 0
       /\ hw.vote["mdp"]["core"] = 0 /\ hw.vote["mdp"]["link"] = 0
       /\ hw.sup["panelPwr"].ref = 0 /\ ~hw.esd
       /\ hw.engine = FALSE /\ ~hw.phyEngine
  BY <1>0 DEF Cold, Client, Clock, Supply
<1>a. CASE UNCHANGED <<hw, isr, clean, faults>>
  <2>1. TypeInv'
    BY <1>0, <1>a DEF Inv, TypeInv, Moving, Rest, Prepare, Abort, Unprepare, otherVars
  <2>2. Ctl'
    <3>1. (CoreVotes /\ LinkVotes /\ MdpVotes)'
      BY <1>0, <1>00, <1>a, JobsAssumption DEF Inv, Ctl, CoreVotes, LinkVotes, MdpVotes,
           DrmCore, DrmLink, Running, One
    <3>2. LockInv'
      BY <1>0, <1>00, <1>a, JobsAssumption DEF Inv, Ctl, LockInv, DrmLocked, Prepare,
           Abort, Unprepare, DisplayJobs, PanelJobs, Busy
    <3>3. HostInv'
      BY <1>0, <1>00, <1>a DEF Inv, Ctl, HostInv, Running, HostAt, HostMayBe, EngineAt,
           SplashAt
    <3>4. EngineInv'
      BY <1>0, <1>00, <1>a DEF Inv, Ctl, EngineInv, Sends, Running, One
    <3>5. PanelInv'
      BY <1>0, <1>00, <1>a DEF Inv, Ctl, PanelInv, Prepare, Running, One
    <3>6. PhyInv'
      BY <1>0, <1>00, <1>a DEF Inv, Ctl, PhyInv, HostInv, HostAt, HostMayBe, Running,
           Same, PhyStays
    <3>7. CleanInv'
      BY <1>0, <1>00, <1>a DEF Inv, Ctl, CleanInv, Running, Prepare, HostAt, Abort,
           Unprepare
    <3> QED
      BY <3>1, <3>2, <3>3, <3>4, <3>5, <3>6, <3>7 DEF Ctl
  <2>3. BootInv'
    BY <1>0 DEF BootInv
  <2> QED
    BY <1>a, <2>1, <2>2, <2>3 DEF Inv, HwInv
<1>b. CASE ~UNCHANGED <<hw, isr, clean, faults>>
  <2>1. PICK r \in Then(Then(Request(h0, "dsi", Clock, TRUE), Supply1), Engine1) :
          r.hit = {} /\ Takes(r) /\ isr' = TRUE
    BY <1>b DEF ContSplashConfig, Dsi
  <2> HIDE DEF Supply1, Engine1
  <2>2. hw' = r.h /\ clean' \in BOOLEAN /\ faults' \in 0..MaxFaults /\ (clean' => clean)
    BY <2>1, TakesGives DEF Inv
  <2>3. /\ Typed(h0) /\ Coherent(h0) /\ Clocked(h0) /\ But({"splash"}, hw, h0) /\ h0.splash
    <3>1. /\ Typed(h0) /\ Wires(h0) = Wires(hw) /\ h0.sup = hw.sup /\ But({"splash"}, hw, h0)
          /\ h0.splash
      BY Found DEF Typed, Wires, But
    <3> HIDE DEF h0
    <3> QED
      BY <3>1, Found, StateKeeps DEF But
  <2> HIDE DEF h0
  <2>4. /\ h0.vote = hw.vote /\ ~h0.vid /\ h0.sup["panelPwr"] = hw.sup["panelPwr"]
    BY <1>00, <2>3 DEF But
  <2>5. PICK y \in Then(Request(h0, "dsi", Clock, TRUE), Supply1) :
          \/ ~y.ok /\ r = y
          \/ y.ok /\ \E z \in Engine1(y.h) : r = [z EXCEPT !.hit = @ \cup y.hit]
    BY <2>1 DEF Then
  <2>6. PICK x \in Request(h0, "dsi", Clock, TRUE) :
          \/ ~x.ok /\ y = x
          \/ x.ok /\ \E z \in Supply1(x.h) : y = [z EXCEPT !.hit = @ \cup x.hit]
    <3>1. y \in Then(Request(h0, "dsi", Clock, TRUE), Supply1)
      OBVIOUS
    <3> QED
      BY <3>1 DEF Then
  <2>7. "dsi" \in Client /\ {"core", "link"} = Clock /\ Clock \in SUBSET Clock /\ TRUE \in BOOLEAN
    BY DEF Client, Clock
  <2>8. Outcome(x)
    BY <2>7, RequestGives
  <2>9. Outcome(y) /\ (Sound(y) => Sound(x)) /\ (x.ok => \E z \in Supply1(x.h) :
           Outcome(z) /\ y = [z EXCEPT !.hit = @ \cup x.hit])
    <3>1. \A z \in Supply1(x.h) : Outcome(z)
      BY SupplyOnGives DEF Supply1
    <3> QED
      BY <2>6, <2>8, <3>1, Follows
  <2>10. /\ \A z \in Engine1(y.h) : Outcome(z)
         /\ y.hit = {}
    <3>1. \A z \in Engine1(y.h) : Outcome(z)
      <4> TAKE z \in Engine1(y.h)
      <4>1. z = Good([y.h EXCEPT !.engine = TRUE]) \/ z = Refused(y.h)
        BY DEF Engine1, HostEngine
      <4>2. CASE z = Good([y.h EXCEPT !.engine = TRUE])
        BY <4>2, GoodIs
      <4>3. CASE z = Refused(y.h)
        BY <4>3 DEF Refused, Outcome
      <4> QED
        BY <4>1, <4>2, <4>3
    <3>2. CASE r = y
      BY <2>1, <3>1, <3>2
    <3>3. CASE y.ok /\ \E z \in Engine1(y.h) : r = [z EXCEPT !.hit = @ \cup y.hit]
      <4>1. PICK z \in Engine1(y.h) : r = [z EXCEPT !.hit = @ \cup y.hit]
        BY <3>3
      <4>2. r.hit = z.hit \cup y.hit
        BY <3>1, <4>1, Follows
      <4> QED
        BY <2>1, <3>1, <4>2
    <3> QED
      BY <2>5, <3>2, <3>3
  <2>11. /\ x.ok /\ Coherent(x.h) /\ Clocked(x.h) /\ Same(h0, x.h)
         /\ x.h.vote["dsi"]["core"] = 1 /\ x.h.vote["dsi"]["link"] = 1
         /\ x.h.vote["mdp"] = hw.vote["mdp"]
    <3>1. Sound(x)
      BY <2>9, <2>10 DEF Sound
    <3>2. Sensible(h0, h0.vote) /\ "core" \in Clock
      BY <2>4, <2>7, Found DEF Sensible
    <3>3. /\ x.ok /\ Coherent(x.h) /\ Clocked(x.h) /\ Same(h0, x.h)
          /\ x.h.vote["dsi"]["core"] = h0.vote["dsi"]["core"] + One("core" \in Clock)
          /\ x.h.vote["dsi"]["link"] = h0.vote["dsi"]["link"] + One("link" \in Clock)
          /\ x.h.vote["mdp"] = h0.vote["mdp"]
      BY <2>3, <2>7, <3>1, <3>2, AskGives
    <3>4. One("core" \in Clock) = 1 /\ One("link" \in Clock) = 1
      BY <2>7 DEF One
    <3> QED
      BY <1>00, <2>4, <3>3, <3>4
  <2>12. /\ y.ok /\ Coherent(y.h) /\ Clocked(y.h) /\ But({"panelPwr"}, x.h, y.h)
         /\ y.h.sup["panelPwr"].ref = 1
    <3>1. PICK z \in Supply1(x.h) : Outcome(z) /\ y = [z EXCEPT !.hit = @ \cup x.hit]
      BY <2>9, <2>11
    <3>2. y.h = z.h /\ y.ok = z.ok /\ y.hit = z.hit \cup x.hit
      BY <3>1, Follows
    <3>3. "panelPwr" \notin z.hit
      BY <2>10, <3>2
    <3>4. z.ok /\ z.h = Taken(x.h, "panelPwr")
      BY <3>1, <3>3, SupplyOnGives, GoodIs DEF Supply1
    <3>5. x.h.sup["panelPwr"].ref = 0
      BY <1>00, <2>4, <2>11 DEF Same, But
    <3> DEFINE v == [ref |-> x.h.sup["panelPwr"].ref + 1,
                     on |-> x.h.sup["panelPwr"].on \/ x.h.sup["panelPwr"].ref = 0]
               k == y.h
    <3>6. k = [x.h EXCEPT !.sup["panelPwr"] = v]
      BY <3>2, <3>4 DEF Taken
    <3>7. v \in [ref : Nat, on : BOOLEAN] /\ v.ref = 1 /\ (v.on <=> v.ref > 0)
      <4>0. x.h.sup["panelPwr"].ref + 1 = 1
        BY <3>5
      <4>1. v = [ref |-> 1, on |-> TRUE]
        BY <3>5, <4>0
      <4> QED
        BY <4>1
    <3> HIDE DEF v, k
    <3>8. /\ Coherent(k) /\ Clocked(k) /\ But({"panelPwr"}, x.h, k)
          /\ k.sup["panelPwr"].ref = v.ref
      BY <2>11, <3>6, <3>7, PanelPwrIs
    <3> QED
      BY <3>2, <3>4, <3>7, <3>8 DEF k
  <2>13. /\ y.h.vote = x.h.vote /\ y.h.engine = FALSE /\ y.h.power
    <3>1. y.h.vote = x.h.vote /\ y.h.engine = FALSE
      BY <1>00, <2>3, <2>11, <2>12 DEF Same, But
    <3>2. y.h.vote["dsi"]["core"] > 0 /\ "dsi" \in Client
      BY <2>7, <2>11, <3>1
    <3>3. y.h.core
      BY <2>12, <3>2 DEF Clocked, Voted
    <3>4. y.h.power
      BY <2>12, <3>3 DEF Coherent, Powered
    <3> QED
      BY <3>1, <3>4
  <2>14. hw' = [y.h EXCEPT !.engine = TRUE]
    <3>1. PICK z \in Engine1(y.h) : r = [z EXCEPT !.hit = @ \cup y.hit]
      BY <2>5, <2>12
    <3>2. z = Good([y.h EXCEPT !.engine = TRUE])
      BY <2>13, <3>1 DEF Engine1, HostEngine, Allowed
    <3>3. Outcome(z) /\ z.h = [y.h EXCEPT !.engine = TRUE]
      BY <3>2, GoodIs
    <3> QED
      BY <2>2, <3>1, <3>3, Follows
  <2>15. /\ Typed(hw') /\ Wires(hw') = Wires(y.h) /\ hw'.sup = y.h.sup /\ hw'.engine
         /\ But({"engine"}, y.h, hw')
    BY <2>12, <2>14 DEF Coherent, Typed, Wires, But
  <2>16. Coherent(hw') /\ Clocked(hw')
    BY <2>12, <2>15, StateKeeps DEF But
  <2>17. /\ hw'.engine /\ hw'.splash /\ hw'.init = hw.init
         /\ hw'.panel = hw.panel /\ hw'.vid = hw.vid /\ hw'.host = hw.host
         /\ hw'.vote["dsi"]["core"] = 1 /\ hw'.vote["dsi"]["link"] = 1
         /\ hw'.vote["mdp"] = hw.vote["mdp"] /\ hw'.sup["panelPwr"].ref = 1
         /\ hw'.phyEngine => hw.phyEngine \/ hw.panel.ulpsSuspend
         /\ hw'.cmdRef = hw.cmdRef /\ hw'.cmd = hw.cmd
    <3>1. /\ x.h.panel = hw.panel /\ x.h.init = hw.init /\ x.h.host = hw.host
          /\ x.h.vid = hw.vid /\ x.h.splash /\ x.h.cmdRef = hw.cmdRef /\ x.h.cmd = hw.cmd
          /\ x.h.phyEngine => hw.phyEngine \/ hw.init \/ hw.panel.ulpsSuspend
      BY <2>3, <2>11 DEF Same, But, PhyStays
    <3>2. But({"panelPwr", "engine"}, x.h, hw')
      BY <2>12, <2>15 DEF But
    <3>3. hw'.sup["panelPwr"].ref = 1
      BY <2>12, <2>15
    <3> QED
      BY <1>00, <2>11, <2>15, <3>1, <3>2, <3>3 DEF But
  <2>18. TypeInv'
    BY <1>0, <2>1, <2>2 DEF Inv, TypeInv, Moving, Rest, Prepare, Abort, Unprepare,
         otherVars
  <2>19. Ctl'
    <3>1. (CoreVotes /\ LinkVotes /\ MdpVotes)'
      BY <1>0, <1>00, <2>1, <2>2, <2>17, JobsAssumption DEF Inv, Ctl, CoreVotes,
           LinkVotes, MdpVotes, DrmCore, DrmLink, Running, One
    <3>2. LockInv'
      BY <1>0, <1>00, <2>1, <2>2, <2>17, JobsAssumption DEF Inv, Ctl, LockInv, DrmLocked,
           Prepare, Abort, Unprepare, DisplayJobs, PanelJobs, Busy
    <3>3. HostInv'
      BY <1>0, <1>00, <2>1, <2>2, <2>17 DEF Inv, Ctl, HostInv, Running, HostAt,
           HostMayBe, EngineAt, SplashAt
    <3>4. EngineInv'
      BY <1>0, <1>00, <2>1, <2>2, <2>17 DEF Inv, Ctl, EngineInv, Sends, Running, One
    <3>5. PanelInv'
      BY <1>0, <1>00, <2>1, <2>2, <2>17 DEF Inv, Ctl, PanelInv, Prepare, Running, One
    <3>6. PhyInv'
      BY <1>0, <1>00, <2>1, <2>2, <2>17 DEF Inv, Ctl, PhyInv, HostInv, HostAt, HostMayBe,
           Running, Same, PhyStays
    <3>7. CleanInv'
      BY <1>0, <1>00, <2>1, <2>2, <2>17 DEF Inv, Ctl, CleanInv, Running, Prepare, HostAt,
           Abort, Unprepare
    <3> QED
      BY <3>1, <3>2, <3>3, <3>4, <3>5, <3>6, <3>7 DEF Ctl
  <2>20. BootInv'
    BY <1>0 DEF BootInv
  <2> QED
    BY <2>16, <2>18, <2>19, <2>20 DEF Inv, HwInv
<1> QED
  BY <1>a, <1>b

\* The MDP votes or drops its vote.
LEMMA MdpClocksKeeps ==
  ASSUME Recovered, Inv, MdpClocks
  PROVE  Inv'
<1> DEFINE on == hw.vote["mdp"]["core"] = 0
<1>1. PICK r \in Request(hw, "mdp", Clock, on) : Takes(r)
  BY DEF MdpClocks
<1>2. /\ Sound(r) /\ hw' = r.h /\ clean' \in BOOLEAN /\ faults' \in 0..MaxFaults
      /\ clean' => clean /\ r.hit = {}
      /\ hw.splash => r.hit = {}
  BY <1>1, TakesGives DEF Inv
<1>3. pc \in Running /\ UNCHANGED <<pc, back, lock, plock, job, isr, wq>>
  BY DEF MdpClocks, Running
<1>4. /\ hw.vote["mdp"]["core"] \in {0, 1} /\ hw.vote["mdp"]["link"] = hw.vote["mdp"]["core"]
      /\ hw.vid => hw.vote["dsi"]["core"] > 0
  BY DEF Inv, Ctl, MdpVotes, CoreVotes, HostInv, DrmCore, DrmLink, Running, One
<1>5. on \in BOOLEAN /\ (on <=> hw.vote["mdp"]["core"] = 0)
  OBVIOUS
<1> HIDE DEF on
<1>6. /\ Coherent(hw') /\ Clocked(hw') /\ Same(hw, hw')
      /\ hw'.vote["mdp"]["core"] = 1 - hw.vote["mdp"]["core"]
      /\ hw'.vote["mdp"]["link"] = 1 - hw.vote["mdp"]["core"]
      /\ hw'.vote["dsi"] = hw.vote["dsi"]
  BY <1>2, <1>4, <1>5, Found, MdpGives
<1>7. /\ hw'.engine = hw.engine /\ hw'.splash = hw.splash /\ hw'.init = hw.init
      /\ hw'.panel = hw.panel /\ hw'.vid = hw.vid /\ hw'.host = hw.host
      /\ hw'.phyEngine => hw.phyEngine \/ hw.host \/ hw.panel.ulpsSuspend
      /\ hw'.sup["panelPwr"] = hw.sup["panelPwr"]
      /\ hw'.cmdRef = hw.cmdRef /\ hw'.cmd = hw.cmd
  BY <1>6 DEF Same, But, PhyStays, Inv, Ctl, HostInv
<1>8. TypeInv'
  BY <1>2, <1>3 DEF Inv, TypeInv, Running
<1>9. Ctl'
  <2>1. (CoreVotes /\ LinkVotes /\ MdpVotes)'
    BY <1>2, <1>3, <1>4, <1>6, <1>7, JobsAssumption DEF Inv, Ctl, CoreVotes, LinkVotes,
         MdpVotes, DrmCore, DrmLink, Running, One
  <2>2. LockInv'
    BY <1>2, <1>3, <1>4, <1>6, <1>7, JobsAssumption DEF Inv, Ctl, LockInv, DrmLocked,
         Prepare, Abort, Unprepare, DisplayJobs, PanelJobs, Busy
  <2>3. HostInv'
    BY <1>2, <1>3, <1>4, <1>6, <1>7 DEF Inv, Ctl, HostInv, Running, HostAt, HostMayBe,
         EngineAt, SplashAt
  <2>4. EngineInv'
    BY <1>2, <1>3, <1>4, <1>6, <1>7 DEF Inv, Ctl, EngineInv, Sends, Running, One
  <2>5. PanelInv'
    BY <1>2, <1>3, <1>4, <1>6, <1>7 DEF Inv, Ctl, PanelInv, Prepare, Running, One
  <2>6. PhyInv'
    BY <1>2, <1>3, <1>4, <1>6, <1>7 DEF Inv, Ctl, PhyInv, HostInv, HostAt, HostMayBe,
         Running, Same, PhyStays
  <2>7. CleanInv'
    BY <1>2, <1>3, <1>4, <1>6, <1>7 DEF Inv, Ctl, CleanInv, Running, Prepare, HostAt,
         Abort, Unprepare
  <2> QED
    BY <2>1, <2>2, <2>3, <2>4, <2>5, <2>6, <2>7 DEF Ctl
<1>10. BootInv'
  BY <1>3 DEF BootInv, Running
<1> QED
  BY <1>6, <1>8, <1>9, <1>10 DEF Inv, HwInv

-----------------------------------------------------------------------------
(* The other threads.                                                      *)

\* The error work is queued, finds nothing to do, or is dropped.
LEMMA QueueKeeps ==
  ASSUME Inv, RecoveryCheck \/ RecoveryDropped \/ ErrorInterrupt
  PROVE  Inv'
<1>1. PICK u \in {"idle", "checked", "queued"} :
        /\ "recovery" \in Jobs /\ job' = [job EXCEPT !["recovery"] = u]
        /\ job["recovery"] \in {"idle", "checked", "queued"}
        /\ UNCHANGED <<hw, pc, back, lock, plock, isr, wq, clean, faults>>
  BY DEF RecoveryCheck, RecoveryDropped, ErrorInterrupt
<1>2. /\ job' \in [Jobs -> {"idle", "queued", "checked", "ready", "send", "sent", "failed"}]
      /\ job'["recovery"] = u
      /\ \A j \in Jobs \ {"recovery"} : job'[j] = job[j]
      /\ "recovery" \in DisplayJobs
  BY <1>1 DEF Inv, TypeInv, DisplayJobs
<1>3. TypeInv'
  BY <1>1, <1>2 DEF Inv, TypeInv
<1>4. HwInv' /\ BootInv'
  BY <1>1 DEF Inv, HwInv, BootInv
<1>5. Ctl'
  <2>1. (CoreVotes /\ LinkVotes /\ MdpVotes)'
    BY <1>1 DEF Inv, Ctl, CoreVotes, LinkVotes, MdpVotes, DrmCore, DrmLink
  <2>2. LockInv'
    BY <1>1, <1>2 DEF Inv, Ctl, LockInv, DisplayJobs, PanelJobs, Busy
  <2>3. (HostInv /\ PanelInv /\ PhyInv /\ CleanInv)'
    BY <1>1 DEF Inv, Ctl, HostInv, PanelInv, PhyInv, CleanInv
  <2>4. (Sends("esd") <=> Sends("esd")') /\ (Sends("command") <=> Sends("command")')
    BY <1>2 DEF Sends
  <2>5. EngineInv'
    BY <1>1, <2>4 DEF Inv, Ctl, EngineInv, One
  <2> QED
    BY <2>1, <2>2, <2>3, <2>5 DEF Ctl
<1> QED
  BY <1>3, <1>4, <1>5 DEF Inv

\* A job that holds its lock, or may take it, has the host up.
LEMMA JobHasHost ==
  ASSUME Inv, NEW j \in Jobs, job[j] \in Busy \/ (MayRun(j) /\ (j \in PanelJobs \/ lock = "none"))
  PROVE  /\ hw.host /\ pc \in HostAt \cup HostMayBe
         /\ j \in PanelJobs => hw.init
         /\ j \in PanelJobs \/ j \in DisplayJobs
         /\ j \in PanelJobs <=> j \in {"esd", "backlight"}
         /\ j \in DisplayJobs <=> j \in {"command", "recovery"}
         /\ job[j] \in Busy => (j \in PanelJobs => plock = j) /\ (j \in DisplayJobs => lock = j)
<1>1. /\ j \in PanelJobs \/ j \in DisplayJobs
      /\ j \in PanelJobs <=> j \in {"esd", "backlight"}
      /\ j \in DisplayJobs <=> j \in {"command", "recovery"}
  BY JobsAssumption DEF PanelJobs, DisplayJobs
<1>2. job[j] \in Busy => (j \in PanelJobs => plock = j) /\ (j \in DisplayJobs => lock = j)
  BY DEF Inv, Ctl, LockInv
<1>3. hw.host /\ (j \in PanelJobs => hw.init)
  <2>1. CASE job[j] \in Busy
    <3>1. CASE j \in PanelJobs
      <4>1. plock # "none"
        BY <1>1, <1>2, <2>1, <3>1
      <4> QED
        BY <3>1, <4>1 DEF Inv, Ctl, LockInv, HostInv
    <3>2. CASE j \in DisplayJobs
      BY <1>1, <1>2, <2>1, <3>2 DEF Inv, Ctl, LockInv
    <3> QED
      BY <1>1, <3>1, <3>2
  <2>2. CASE MayRun(j)
    BY <2>2 DEF MayRun, Inv, Ctl, HostInv
  <2> QED
    BY <2>1, <2>2
<1> QED
  BY <1>1, <1>2, <1>3 DEF Inv, Ctl, HostInv

\* A job takes its lock and its clocks.
LEMMA JobStartKeeps ==
  ASSUME Recovered, Inv, NEW j \in Jobs, JobStart(j)
  PROVE  Inv'
<1> DEFINE ask == Request(hw, "dsi", JobClocks(j), TRUE)
<1>1. PICK r \in IF j \in {"backlight", "command"} THEN ask ELSE Ignored(ask) :
        /\ Takes(r)
        /\ IF r.ok THEN TakeLock(j) /\ job' = [job EXCEPT ![j] = "ready"]
                   ELSE UNCHANGED <<lock, plock, job>>
        /\ r.ok \/ (IF j \in PanelJobs THEN plock ELSE lock) = "none"
  BY DEF JobStart, Dsi
<1>2. /\ Sound(r) /\ hw' = r.h /\ clean' \in BOOLEAN /\ faults' \in 0..MaxFaults
      /\ clean' => clean /\ r.hit = {}
      /\ hw.splash => r.hit = {}
  BY <1>1, TakesGives DEF Inv
<1>3. /\ MayRun(j) /\ UNCHANGED <<pc, back, isr, wq>>
      /\ job[j] = IF j = "recovery" THEN "checked" ELSE "idle"
  BY DEF JobStart
<1>4. "dsi" \in Client /\ JobClocks(j) \in SUBSET Clock /\ "core" \in JobClocks(j)
      /\ TRUE \in BOOLEAN /\ ("link" \in JobClocks(j) <=> j # "backlight")
  BY DEF Client, Clock, JobClocks
<1>5. hw.vote["dsi"]["core"] \in Nat /\ hw.vote["dsi"]["link"] \in Nat
  BY Found DEF Client, Clock
<1>6. PICK q \in ask : r = q \/ r = [q EXCEPT !.ok = TRUE]
  BY <1>1 DEF Ignored
<1>7. Outcome(q) /\ r.h = q.h /\ Sound(q) /\ (q.ok => r.ok)
  <2>1. Outcome(q)
    BY <1>4, RequestGives
  <2> QED
    BY <1>2, <1>6, <2>1, IgnoredGives
<1>8. /\ q.ok /\ Coherent(hw') /\ Clocked(hw') /\ Same(hw, hw')
      /\ hw'.vote["dsi"]["core"] = hw.vote["dsi"]["core"] + 1
      /\ hw'.vote["dsi"]["link"] = hw.vote["dsi"]["link"] + One(j # "backlight")
      /\ hw'.vote["mdp"] = hw.vote["mdp"]
  <2>1. /\ q.ok /\ Coherent(q.h) /\ Clocked(q.h) /\ Same(hw, q.h)
        /\ q.h.vote["dsi"]["core"] = hw.vote["dsi"]["core"] + One("core" \in JobClocks(j))
        /\ q.h.vote["dsi"]["link"] = hw.vote["dsi"]["link"] + One("link" \in JobClocks(j))
        /\ q.h.vote["mdp"] = hw.vote["mdp"]
    BY <1>4, <1>7, Found, AskGives
  <2>2. One("core" \in JobClocks(j)) = 1 /\ One("link" \in JobClocks(j)) = One(j # "backlight")
    BY <1>4 DEF One
  <2> QED
    BY <1>2, <1>7, <2>1, <2>2
<1>9. TakeLock(j) /\ job' = [job EXCEPT ![j] = "ready"]
  BY <1>1, <1>7, <1>8
<1>10. /\ hw.host /\ pc \in HostAt \cup HostMayBe
       /\ j \in PanelJobs => hw.init
       /\ j \in PanelJobs \/ j \in DisplayJobs
       /\ j \in PanelJobs <=> j \in {"esd", "backlight"}
       /\ j \in DisplayJobs <=> j \in {"command", "recovery"}
  BY <1>3, <1>9, JobHasHost DEF TakeLock
<1>11. /\ j \in PanelJobs => plock = "none" /\ plock' = j /\ lock' = lock
       /\ j \in DisplayJobs => lock = "none" /\ lock' = j /\ plock' = plock
  BY <1>9, <1>10 DEF TakeLock
<1>12. /\ job' \in [Jobs -> {"idle", "queued", "checked", "ready", "send", "sent", "failed"}]
       /\ job'[j] = "ready" /\ \A i \in Jobs \ {j} : job'[i] = job[i]
  BY <1>9 DEF Inv, TypeInv
<1>13. /\ hw'.engine = hw.engine /\ hw'.splash = hw.splash /\ hw'.init = hw.init
       /\ hw'.panel = hw.panel /\ hw'.vid = hw.vid /\ hw'.host = hw.host
       /\ hw'.sup["panelPwr"] = hw.sup["panelPwr"]
       /\ hw'.cmdRef = hw.cmdRef /\ hw'.cmd = hw.cmd
  BY <1>8 DEF Same, But
<1>14. TypeInv'
  BY <1>2, <1>3, <1>12 DEF Inv, TypeInv
<1>15. Ctl'
  <2>1. (CoreVotes /\ LinkVotes /\ MdpVotes)'
    <3>1. /\ DrmLink(hw)' <=> DrmLink(hw)
          /\ DrmCore(hw)' <=> DrmCore(hw)
      BY <1>3, <1>10, <1>13 DEF DrmLink, DrmCore, HostAt, HostMayBe, Running
    <3>2. MdpVotes'
      BY <1>3, <1>8 DEF Inv, Ctl, MdpVotes
    <3>3. CASE j \in PanelJobs
      <4>1. /\ One(plock # "none") = 0 /\ One(plock' # "none") = 1
            /\ One(plock = "esd") = 0 /\ One(plock' = "esd") = One(j # "backlight")
            /\ One(lock' \in Jobs) = One(lock \in Jobs)
        BY <1>10, <1>11, <3>3 DEF One
      <4> QED
        BY <1>5, <1>8, <1>13, <3>1, <3>2, <4>1 DEF Inv, Ctl, CoreVotes, LinkVotes, One
    <3>4. CASE j \in DisplayJobs
      <4>1. /\ One(lock \in Jobs) = 0 /\ One(lock' \in Jobs) = 1 /\ One(j # "backlight") = 1
            /\ plock' = plock
        BY <1>10, <1>11, <3>4, JobsAssumption DEF One
      <4> QED
        BY <1>5, <1>8, <1>13, <3>1, <3>2, <4>1 DEF Inv, Ctl, CoreVotes, LinkVotes, One
    <3> QED
      BY <1>10, <3>3, <3>4
  <2>2. LockInv'
    <3>1. CASE j \in PanelJobs
      BY <1>3, <1>10, <1>11, <1>12, <1>13, <3>1, JobsAssumption
         DEF Inv, Ctl, LockInv, DisplayJobs, PanelJobs, Busy
    <3>2. CASE j \in DisplayJobs
      BY <1>3, <1>10, <1>11, <1>12, <1>13, <3>2, JobsAssumption
         DEF Inv, Ctl, LockInv, DisplayJobs, PanelJobs, Busy
    <3> QED
      BY <1>10, <3>1, <3>2
  <2>3. HostInv'
    BY <1>3, <1>13 DEF Inv, Ctl, HostInv
  <2>4. EngineInv'
    <3>1. \A i : Sends(i)' <=> Sends(i)
      BY <1>3, <1>12 DEF Sends
    <3> QED
      BY <1>3, <1>13, <3>1 DEF Inv, Ctl, EngineInv, One
  <2>5. PanelInv'
    BY <1>3, <1>13 DEF Inv, Ctl, PanelInv
  <2>6. PhyInv'
    BY <1>3, <1>10, <1>13 DEF PhyInv, HostAt, HostMayBe, Running
  <2>7. CleanInv'
    BY <1>2, <1>3, <1>13 DEF Inv, Ctl, CleanInv
  <2> QED
    BY <2>1, <2>2, <2>3, <2>4, <2>5, <2>6, <2>7 DEF Ctl
<1>16. BootInv'
  BY <1>3, <1>10 DEF BootInv, HostAt, HostMayBe, Running
<1> QED
  BY <1>8, <1>14, <1>15, <1>16 DEF Inv, HwInv

\* A job at work holds a vote for the core clocks, and a transfer all it needs.
LEMMA JobFed ==
  ASSUME Inv, NEW j \in Jobs, job[j] \in Busy
  PROVE  /\ hw.power /\ hw.core /\ hw.vote["dsi"]["core"] > 0
         /\ j # "backlight" => hw.link /\ hw.vote["dsi"]["link"] > 0
         /\ j \in {"esd", "command"} => hw.engine
         /\ j \in {"esd", "command"} /\ job[j] = "send" => hw.cmdRef > 0 /\ hw.cmd
<1>1. /\ hw.host /\ pc \in HostAt \cup HostMayBe
      /\ j \in PanelJobs => hw.init /\ plock = j
      /\ j \in DisplayJobs => lock = j
      /\ j \in PanelJobs \/ j \in DisplayJobs
      /\ j \in PanelJobs <=> j \in {"esd", "backlight"}
      /\ j \in DisplayJobs <=> j \in {"command", "recovery"}
  BY JobHasHost
<1>2. hw.vote["dsi"]["core"] > 0 /\ (j # "backlight" => hw.vote["dsi"]["link"] > 0)
  <2>1. CASE j \in PanelJobs
    <3>1. plock # "none" /\ (j # "backlight" => plock = "esd")
      BY <1>1, <2>1
    <3> QED
      BY <3>1 DEF Inv, Ctl, CoreVotes, LinkVotes, One
  <2>2. CASE j \in DisplayJobs
    <3>1. lock \in Jobs
      BY <1>1, <2>2
    <3> QED
      BY <3>1 DEF Inv, Ctl, CoreVotes, LinkVotes, One
  <2> QED
    BY <1>1, <2>1, <2>2
<1>3. hw.power /\ hw.core /\ (j # "backlight" => hw.link)
  BY <1>2, Found
<1>4. j \in {"esd", "command"} => hw.engine
  <2>1. CASE j = "esd"
    BY <1>1, <2>1 DEF Inv, Ctl, HostInv, EngineAt, Running
  <2>2. CASE j = "command"
    <3>1. lock = "command"
      BY <1>1, <2>2
    <3>2. pc \notin DrmLocked
      BY <3>1 DEF Inv, Ctl, LockInv
    <3>3. pc \in EngineAt
      BY <1>1, <3>2 DEF EngineAt, HostAt, HostMayBe, DrmLocked, Running, Prepare, Abort, Unprepare
    <3> QED
      BY <1>1, <3>3 DEF Inv, Ctl, HostInv
  <2> QED
    BY <2>1, <2>2
<1>5. j \in {"esd", "command"} /\ job[j] = "send" => hw.cmdRef > 0 /\ hw.cmd
  <2> HAVE j \in {"esd", "command"} /\ job[j] = "send"
  <2>1. Sends("esd") \/ Sends("command")
    BY DEF Sends
  <2> QED
    BY <2>1 DEF Inv, Ctl, EngineInv, HostInv, One
<1> QED
  BY <1>2, <1>3, <1>4, <1>5

\* A job that goes on with its work moves nothing but the command engine, which
\* is counted for it while it sends.
LEMMA JobWorks ==
  ASSUME Inv, NEW j \in Jobs, job[j] \in {"ready", "send"},
         NEW s \in {"send", "sent", "failed"}, s = "failed" => j = "esd",
         job' = [job EXCEPT ![j] = s], UNCHANGED <<pc, back, lock, plock, isr, wq>>,
         clean' \in BOOLEAN, clean' => clean, faults' \in 0..MaxFaults,
         Coherent(hw'), Clocked(hw'), Counted(hw'), But({"cmd", "phy"}, hw, hw'),
         s = "send" => job[j] = "ready",
         hw'.cmdRef = IF j \notin {"esd", "command"} THEN hw.cmdRef
                      ELSE IF s = "send" THEN hw.cmdRef + 1
                      ELSE IF job[j] = "send" THEN hw.cmdRef - 1 ELSE hw.cmdRef
  PROVE  Inv'
<1>1. /\ hw.host /\ pc \in HostAt \cup HostMayBe
  BY JobHasHost DEF Busy
<1>2. /\ job' \in [Jobs -> {"idle", "queued", "checked", "ready", "send", "sent", "failed"}]
      /\ job'[j] = s /\ \A i \in Jobs \ {j} : job'[i] = job[i]
  BY DEF Inv, TypeInv
<1>3. /\ hw'.engine = hw.engine /\ hw'.splash = hw.splash /\ hw'.init = hw.init
      /\ hw'.panel = hw.panel /\ hw'.vid = hw.vid /\ hw'.host = hw.host
      /\ hw'.sup["panelPwr"] = hw.sup["panelPwr"]
      /\ hw'.vote = hw.vote /\ hw'.core = hw.core
  BY DEF But
<1>4. TypeInv'
  BY <1>2 DEF Inv, TypeInv
<1>5. Ctl'
  <2>1. (CoreVotes /\ LinkVotes /\ MdpVotes)'
    BY <1>3 DEF Inv, Ctl, CoreVotes, LinkVotes, MdpVotes, DrmCore, DrmLink
  <2>2. LockInv'
    BY <1>2, <1>3 DEF Inv, Ctl, LockInv, DisplayJobs, PanelJobs, Busy
  <2>3. HostInv'
    BY <1>3 DEF Inv, Ctl, HostInv, Counted
  <2>4. EngineInv'
    <3>1. \A i : i # j => (Sends(i)' <=> Sends(i))
      BY <1>2 DEF Sends
    <3>2. (Sends(j)' <=> s = "send") /\ (Sends(j) <=> job[j] = "send")
      BY <1>2 DEF Sends
    <3>3. hw'.panel = hw.panel /\ hw'.host = hw.host /\ pc' = pc /\ hw.cmdRef \in Nat
      BY <1>3, Found DEF Typed
    <3> DEFINE rest == One(hw.panel.cmdMode /\ hw.host /\ pc \in Running)
    <3>4. /\ hw.cmdRef = rest + One(Sends("esd")) + One(Sends("command"))
          /\ (EngineInv' <=> hw'.cmdRef = rest + One(Sends("esd")') + One(Sends("command")'))
          /\ rest \in Nat
      BY <3>3 DEF Inv, Ctl, EngineInv, One
    <3> HIDE DEF rest
    <3>5. CASE j = "esd"
      <4>1. /\ One(Sends("command")') = One(Sends("command")) /\ One(Sends("command")) \in Nat
            /\ One(Sends("esd")') = One(s = "send") /\ One(Sends("esd")) = One(job["esd"] = "send")
        BY <3>1, <3>2, <3>5 DEF One
      <4> QED
        BY <3>3, <3>4, <3>5, <4>1 DEF One
    <3>6. CASE j = "command"
      <4>1. /\ One(Sends("esd")') = One(Sends("esd")) /\ One(Sends("esd")) \in Nat
            /\ One(Sends("command")') = One(s = "send")
            /\ One(Sends("command")) = One(job["command"] = "send")
        BY <3>1, <3>2, <3>6 DEF One
      <4> QED
        BY <3>3, <3>4, <3>6, <4>1 DEF One
    <3>7. CASE j \notin {"esd", "command"}
      <4>1. One(Sends("esd")') = One(Sends("esd")) /\ One(Sends("command")') = One(Sends("command"))
        BY <3>1, <3>7 DEF One
      <4> QED
        BY <3>4, <3>7, <4>1
    <3> QED
      BY <3>5, <3>6, <3>7
  <2>5. PanelInv'
    BY <1>3 DEF Inv, Ctl, PanelInv
  <2>6. PhyInv'
    BY <1>1, <1>3 DEF PhyInv, HostAt, HostMayBe, Running
  <2>7. CleanInv'
    BY <1>3 DEF Inv, Ctl, CleanInv
  <2> QED
    BY <2>1, <2>2, <2>3, <2>4, <2>5, <2>6, <2>7 DEF Ctl
<1>6. BootInv'
  BY <1>1 DEF BootInv, HostAt, HostMayBe, Running
<1> QED
  BY <1>4, <1>5, <1>6 DEF Inv, HwInv

\* The command engine of a transfer.
LEMMA JobEngineKeeps ==
  ASSUME Recovered, Inv, NEW j \in Jobs, JobEngine(j)
  PROVE  Inv'
<1>1. PICK r \in IF j \in {"esd", "command"} THEN CmdEngineOn(hw) ELSE {Good(hw)} :
        /\ Takes(r)
        /\ job' = [job EXCEPT ![j] = IF r.ok THEN "send"
                                    ELSE IF j = "esd" THEN "failed" ELSE "sent"]
  BY DEF JobEngine
<1>2. /\ Sound(r) /\ hw' = r.h /\ clean' \in BOOLEAN /\ faults' \in 0..MaxFaults
      /\ clean' => clean /\ r.hit = {}
      /\ hw.splash => r.hit = {}
  BY <1>1, TakesGives DEF Inv
<1>3. job[j] = "ready" /\ UNCHANGED <<pc, back, lock, plock, isr, wq>>
  BY DEF JobEngine
<1>4. /\ r.ok /\ Coherent(hw') /\ Clocked(hw') /\ Counted(hw') /\ But({"cmd"}, hw, hw')
      /\ hw'.cmdRef = IF j \in {"esd", "command"} THEN hw.cmdRef + 1 ELSE hw.cmdRef
  <2>1. CASE j \in {"esd", "command"}
    <3>1. hw.power /\ hw.engine
      BY <1>3, <2>1, JobFed DEF Busy
    <3>2. r.ok /\ r.h = Engaged(hw)
      BY <1>1, <2>1, <3>1, Found, CmdEngineOnGives
    <3>3. hw' = Engaged(hw)
      BY <1>2, <3>2
    <3> QED
      BY <2>1, <3>2, <3>3, Found, EngagedIs
  <2>2. CASE j \notin {"esd", "command"}
    <3>1. r.ok /\ hw' = hw
      BY <1>1, <1>2, <2>2, GoodIs
    <3> QED
      BY <2>2, <3>1, Found DEF But
  <2> QED
    BY <2>1, <2>2
<1>5. job' = [job EXCEPT ![j] = "send"]
  BY <1>1, <1>4
<1>6. But({"cmd", "phy"}, hw, hw')
  BY <1>4 DEF But
<1> QED
  BY <1>2, <1>3, <1>4, <1>5, <1>6, JobWorks

\* The work of a job, and the command engine given back.
LEMMA JobSendKeeps ==
  ASSUME Recovered, Inv, NEW j \in Jobs, JobSend(j)
  PROVE  Inv'
<1> DEFINE sends == j \in {"esd", "command"}
<1>1. PICK x \in Work(j) : \E q \in IF sends THEN CmdEngineOff(x.h) ELSE {Good(x.h)} :
        /\ Takes([q EXCEPT !.hit = @ \cup x.hit])
        /\ job' = [job EXCEPT ![j] = IF j = "esd" /\ ~x.ok THEN "failed" ELSE "sent"]
  BY DEF JobSend
<1>2. PICK q \in IF sends THEN CmdEngineOff(x.h) ELSE {Good(x.h)} :
        /\ Takes([q EXCEPT !.hit = @ \cup x.hit])
        /\ job' = [job EXCEPT ![j] = IF j = "esd" /\ ~x.ok THEN "failed" ELSE "sent"]
  BY <1>1
<1> DEFINE r == [q EXCEPT !.hit = @ \cup x.hit]
<1>3. job[j] = "send" /\ UNCHANGED <<pc, back, lock, plock, isr, wq>>
  BY DEF JobSend
<1>4. /\ Sound(r) /\ hw' = r.h /\ clean' \in BOOLEAN /\ faults' \in 0..MaxFaults
      /\ clean' => clean /\ r.hit = {}
  BY <1>2, TakesGives DEF Inv
<1>5. x.h = hw \/ (j = "backlight" /\ x \in Transfer(hw))
  <2>1. \/ x \in {Good(hw), Failed(hw, "command"), Refused(hw)}
        \/ j = "backlight" /\ x \in Transfer(hw)
    BY <1>1 DEF Work
  <2> QED
    BY <2>1 DEF Good, Failed, Refused
<1>6. x.h = hw => /\ Coherent(x.h) /\ Clocked(x.h) /\ Counted(x.h)
                  /\ But({"phy"}, hw, x.h)
  BY Found DEF But
<1>7. CASE sends
  <2>1. x.h = hw /\ hw.power /\ hw.engine /\ hw.cmdRef > 0
    BY <1>3, <1>5, <1>7, JobFed DEF Busy
  <2>2. q \in CmdEngineOff(hw) /\ hw.cmdRef # 0
    BY <1>7, <2>1
  <2>3. /\ Outcome(q) /\ Coherent(q.h) /\ Clocked(q.h) /\ Counted(q.h) /\ But({"cmd"}, hw, q.h)
        /\ q.h.cmdRef = hw.cmdRef - 1
    BY <2>1, <2>2, Found, ReleasedGives
  <2>4. hw' = q.h
    BY <1>4, <2>3 DEF Outcome
  <2>5. But({"cmd", "phy"}, hw, hw')
    BY <2>3, <2>4 DEF But
  <2>6. PICK s \in {"sent", "failed"} :
          job' = [job EXCEPT ![j] = s] /\ (s = "failed" => j = "esd")
    BY <1>2
  <2> HIDE DEF r
  <2> QED
    BY <1>3, <1>4, <1>7, <2>3, <2>4, <2>5, <2>6, JobWorks
<1>8. CASE ~sends
  <2>1. Outcome(q) /\ q.h = x.h /\ q.hit = {}
    BY <1>2, <1>8, GoodIs
  <2>2. r.h = x.h /\ r.hit = x.hit
    BY <2>1 DEF Outcome
  <2>3. job' = [job EXCEPT ![j] = "sent"]
    BY <1>2, <1>8
  <2> HIDE DEF r
  <2>4. Sound(x)
    BY <1>4, <2>2 DEF Sound
  <2>5. /\ Coherent(x.h) /\ Clocked(x.h) /\ Counted(x.h) /\ But({"phy"}, hw, x.h)
    <3>1. CASE x.h = hw
      BY <1>6, <3>1
    <3>2. CASE x \in Transfer(hw)
      <4>1. Coherent(x.h) /\ Clocked(x.h) /\ But({"phy"}, hw, x.h)
        BY <2>4, <3>2, Found, CommandKeeps
      <4> QED
        BY <4>1, Found DEF But, Counted
    <3> QED
      BY <1>5, <3>1, <3>2
  <2>6. But({"cmd", "phy"}, hw, hw') /\ hw' = x.h /\ hw'.cmdRef = hw.cmdRef
    BY <1>4, <2>2, <2>5 DEF But
  <2> QED
    BY <1>3, <1>4, <1>8, <2>3, <2>5, <2>6, JobWorks
<1> QED
  BY <1>7, <1>8

\* The clocks and the lock are given back; a failed check asks for the recovery.
LEMMA JobEndKeeps ==
  ASSUME Recovered, Inv, NEW j \in Jobs, JobEnd(j)
  PROVE  Inv'
<1>0. PICK q \in Request(hw, "dsi", JobClocks(j), FALSE) :
        Takes([q EXCEPT !.h.esd = @ \/ job[j] = "failed"])
  BY DEF JobEnd, Dsi
<1> DEFINE r == [q EXCEPT !.h.esd = @ \/ job[j] = "failed"]
<1>1. Takes(r)
  BY <1>0
<1> HIDE DEF r
<1>2. /\ Sound(r) /\ hw' = r.h /\ clean' \in BOOLEAN /\ faults' \in 0..MaxFaults
      /\ clean' => clean /\ r.hit = {}
      /\ hw.splash => r.hit = {}
  BY <1>1, TakesGives DEF Inv
<1>ends. PICK next \in {"idle", "queued"} : job' = [job EXCEPT ![j] = next]
  BY DEF JobEnd
<1>3. /\ job[j] \in {"sent", "failed"} /\ job[j] \in Busy /\ DropLock(j)
      /\ UNCHANGED <<pc, back, isr, wq>>
  BY DEF JobEnd, Busy
<1>4. "dsi" \in Client /\ JobClocks(j) \in SUBSET Clock /\ "core" \in JobClocks(j)
      /\ FALSE \in BOOLEAN /\ ("link" \in JobClocks(j) <=> j # "backlight")
      /\ Clock = {"core", "link"}
  BY DEF Client, Clock, JobClocks
<1>5. /\ hw.host /\ pc \in HostAt \cup HostMayBe
      /\ j \in PanelJobs => hw.init /\ plock = j
      /\ j \in DisplayJobs => lock = j
      /\ j \in PanelJobs \/ j \in DisplayJobs
      /\ j \in PanelJobs <=> j \in {"esd", "backlight"}
      /\ j \in DisplayJobs <=> j \in {"command", "recovery"}
  BY <1>3, JobHasHost
<1>6. Outcome(q)
  BY <1>4, RequestGives
<1>7. /\ r.hit = q.hit /\ r.h = [q.h EXCEPT !.esd = @ \/ job[j] = "failed"]
  BY <1>6 DEF Outcome, r
<1>8. Sound(q)
  BY <1>2, <1>7 DEF Sound
<1>9. hw.vote["dsi"]["core"] \in Nat /\ hw.vote["dsi"]["link"] \in Nat
      /\ hw.vote["mdp"]["core"] \in Nat /\ hw.vote["mdp"]["link"] = hw.vote["mdp"]["core"]
  BY Found DEF Client, Clock, Inv, Ctl, MdpVotes
<1> DEFINE core == One(hw.splash) + One(DrmCore(hw))
                     + One(plock # "none" /\ j \notin PanelJobs)
                     + One(lock \in Jobs /\ j \in PanelJobs)
           link == One(hw.splash) + One(DrmLink(hw))
                     + One(plock = "esd" /\ j \notin PanelJobs)
                     + One(lock \in Jobs /\ j \in PanelJobs)
<1>10. /\ hw.vote["dsi"]["core"] = core + 1
       /\ hw.vote["dsi"]["link"] = link + One(j # "backlight")
       /\ core \in Nat /\ link \in Nat
  <2>1. CASE j \in PanelJobs
    <3>1. /\ One(plock # "none") = 1 /\ One(plock = "esd") = One(j # "backlight")
          /\ One(plock # "none" /\ j \notin PanelJobs) = 0
          /\ One(plock = "esd" /\ j \notin PanelJobs) = 0
          /\ One(lock \in Jobs /\ j \in PanelJobs) = One(lock \in Jobs)
      BY <1>5, <2>1 DEF One
    <3> QED
      BY <3>1 DEF Inv, Ctl, CoreVotes, LinkVotes, One
  <2>2. CASE j \in DisplayJobs
    <3>0. j \notin PanelJobs
      BY <1>5, <2>2
    <3>1. /\ One(plock # "none" /\ j \notin PanelJobs) = One(plock # "none")
          /\ One(plock = "esd" /\ j \notin PanelJobs) = One(plock = "esd")
          /\ One(lock \in Jobs /\ j \in PanelJobs) = 0
          /\ One(lock \in Jobs) = 1 /\ One(j # "backlight") = 1
      BY <1>5, <2>2, <3>0 DEF One
    <3> QED
      BY <3>1 DEF Inv, Ctl, CoreVotes, LinkVotes, One
  <2> QED
    BY <1>5, <2>1, <2>2
<1>11. (link > 0 => core > 0) /\ (hw.vid => core > 0)
  <2>1. DrmLink(hw) => DrmCore(hw)
    BY DEF DrmCore
  <2>2. hw.vid => DrmCore(hw)
    BY DEF Inv, Ctl, HostInv, DrmCore, DrmLink, Running
  <2> QED
    BY <2>1, <2>2 DEF One
<1> HIDE DEF core, link
<1>12. /\ Left(hw, "core", JobClocks(j)) = core
       /\ Left(hw, "link", JobClocks(j)) = link
  BY <1>4, <1>9, <1>10 DEF Left, One
<1>13. \A k \in JobClocks(j) : hw.vote["dsi"][k] > 0
  BY <1>4, <1>9, <1>10 DEF One
<1>14. /\ Coherent(q.h) /\ Clocked(q.h) /\ Same(hw, q.h)
       /\ q.h.vote["dsi"]["core"] = core /\ q.h.vote["dsi"]["link"] = link
       /\ q.h.vote["mdp"] = hw.vote["mdp"]
  <2>1. Left(hw, "link", JobClocks(j)) > 0 \/ hw.vote["mdp"]["link"] > 0 \/ hw.vid
          => Left(hw, "core", JobClocks(j)) > 0 \/ hw.vote["mdp"]["core"] > 0
    BY <1>9, <1>11, <1>12
  <2>2. JobClocks(j) \in SUBSET Clock
    BY <1>4
  <2> QED
    BY <1>8, <1>12, <1>13, <2>1, <2>2, Found, GiveGives
<1>15. job[j] = "failed" => q.h.link = q.h.core
  <2> HAVE job[j] = "failed"
  <2>1. j = "esd"
    BY DEF Inv, Ctl, LockInv
  <2>2. DrmCore(hw) <=> DrmLink(hw)
    <3>1. pc \in Running \cup {"engineOn", "panelDisable"}
      BY <1>5, <2>1 DEF Inv, Ctl, HostInv
    <3> QED
      BY <3>1 DEF DrmCore, DrmLink, Running
  <2>3. core = link
    BY <1>5, <2>1, <2>2 DEF core, link, One
  <2>4. /\ q.h.core = (q.h.vote["dsi"]["core"] > 0 \/ q.h.vote["mdp"]["core"] > 0)
        /\ q.h.link = (q.h.vote["dsi"]["link"] > 0 \/ q.h.vote["mdp"]["link"] > 0)
    BY <1>14 DEF Clocked, Voted, Client
  <2> QED
    BY <1>9, <1>14, <2>3, <2>4
<1> DEFINE b == q.h.esd \/ job[j] = "failed"
<1>16. /\ Coherent(hw') /\ Clocked(hw') /\ But({"esd"}, q.h, hw')
  <2>1. Typed(q.h)
    BY <1>14 DEF Coherent
  <2>2. b \in BOOLEAN /\ hw' = [q.h EXCEPT !.esd = b]
    BY <1>2, <1>7
  <2>3. b => q.h.esd \/ q.h.link = q.h.core
    BY <1>15
  <2> HIDE DEF b
  <2>4. /\ Typed(hw') /\ Wires(hw') = Wires(q.h) /\ hw'.sup = q.h.sup /\ hw'.esd = b
        /\ But({"esd"}, q.h, hw')
    BY <2>1, <2>2 DEF Typed, Wires, But
  <2> QED
    BY <1>14, <2>3, <2>4, StateKeeps DEF But
<1>17. /\ hw'.engine = hw.engine /\ hw'.splash = hw.splash /\ hw'.init = hw.init
       /\ hw'.panel = hw.panel /\ hw'.vid = hw.vid /\ hw'.host = hw.host
       /\ hw'.sup["panelPwr"] = hw.sup["panelPwr"]
       /\ hw'.cmdRef = hw.cmdRef /\ hw'.cmd = hw.cmd
       /\ hw'.vote["dsi"]["core"] = core /\ hw'.vote["dsi"]["link"] = link
       /\ hw'.vote["mdp"] = hw.vote["mdp"]
  BY <1>14, <1>16 DEF Same, But
<1>18. /\ job' \in [Jobs -> {"idle", "queued", "checked", "ready", "send", "sent", "failed"}]
       /\ job'[j] \in {"idle", "queued"} /\ \A i \in Jobs \ {j} : job'[i] = job[i]
  BY <1>ends DEF Inv, TypeInv
<1>19. /\ j \in PanelJobs => plock' = "none" /\ lock' = lock
       /\ j \in DisplayJobs => lock' = "none" /\ plock' = plock
  BY <1>3, <1>5 DEF DropLock
<1>20. TypeInv'
  BY <1>2, <1>3, <1>18 DEF Inv, TypeInv
<1>21. Ctl'
  <2>1. (CoreVotes /\ LinkVotes /\ MdpVotes)'
    <3>1. /\ DrmLink(hw)' <=> DrmLink(hw)
          /\ DrmCore(hw)' <=> DrmCore(hw)
      BY <1>3, <1>5, <1>17 DEF DrmLink, DrmCore, HostAt, HostMayBe, Running
    <3>2. MdpVotes'
      BY <1>3, <1>17 DEF Inv, Ctl, MdpVotes
    <3>3. CASE j \in PanelJobs
      <4>1. /\ One(plock' # "none") = 0 /\ One(plock' = "esd") = 0
            /\ One(lock' \in Jobs) = One(lock \in Jobs /\ j \in PanelJobs)
            /\ One(plock # "none" /\ j \notin PanelJobs) = 0
            /\ One(plock = "esd" /\ j \notin PanelJobs) = 0
        BY <1>19, <3>3 DEF One
      <4> QED
        BY <1>17, <3>1, <3>2, <4>1 DEF CoreVotes, LinkVotes, core, link, One
    <3>4. CASE j \in DisplayJobs
      <4>1. /\ One(lock' \in Jobs) = 0 /\ One(lock \in Jobs /\ j \in PanelJobs) = 0
            /\ One(plock # "none" /\ j \notin PanelJobs) = One(plock' # "none")
            /\ One(plock = "esd" /\ j \notin PanelJobs) = One(plock' = "esd")
        <5>1. j \notin PanelJobs /\ "none" \notin Jobs
          BY <1>5, <3>4, JobsAssumption
        <5> QED
          BY <1>19, <3>4, <5>1 DEF One
      <4> QED
        BY <1>17, <3>1, <3>2, <4>1 DEF CoreVotes, LinkVotes, core, link, One
    <3> QED
      BY <1>5, <3>3, <3>4
  <2>2. LockInv'
    <3>1. CASE j \in PanelJobs
      BY <1>3, <1>5, <1>17, <1>18, <1>19, <3>1, JobsAssumption
         DEF Inv, Ctl, LockInv, DisplayJobs, PanelJobs, Busy
    <3>2. CASE j \in DisplayJobs
      BY <1>3, <1>5, <1>17, <1>18, <1>19, <3>2, JobsAssumption
         DEF Inv, Ctl, LockInv, DisplayJobs, PanelJobs, Busy
    <3> QED
      BY <1>5, <3>1, <3>2
  <2>3. HostInv'
    BY <1>3, <1>17 DEF Inv, Ctl, HostInv
  <2>4. EngineInv'
    <3>1. \A i : Sends(i)' <=> Sends(i)
      BY <1>3, <1>18 DEF Sends
    <3> QED
      BY <1>3, <1>17, <3>1 DEF Inv, Ctl, EngineInv, One
  <2>5. PanelInv'
    BY <1>3, <1>17 DEF Inv, Ctl, PanelInv
  <2>6. PhyInv'
    BY <1>3, <1>5, <1>17 DEF PhyInv, HostAt, HostMayBe, Running
  <2>7. CleanInv'
    BY <1>2, <1>3, <1>17 DEF Inv, Ctl, CleanInv
  <2> QED
    BY <2>1, <2>2, <2>3, <2>4, <2>5, <2>6, <2>7 DEF Ctl
<1>22. BootInv'
  BY <1>3, <1>5 DEF BootInv, HostAt, HostMayBe, Running
<1> QED
  BY <1>16, <1>20, <1>21, <1>22 DEF Inv, HwInv

-----------------------------------------------------------------------------
(* The invariant holds.                                                    *)

\* The driver data of a cold display.
LEMMA ColdIs ==
  ASSUME NEW p \in Panel
  PROVE  /\ Coherent(Cold(p)) /\ Clocked(Cold(p)) /\ Cold(p).panel = p
         /\ ~Cold(p).host /\ ~Cold(p).engine /\ ~Cold(p).vid /\ ~Cold(p).cmd
         /\ ~Cold(p).init /\ ~Cold(p).splash /\ Cold(p).cmdRef = 0
         /\ ~Cold(p).phyEngine /\ Cold(p).sup["panelPwr"].ref = 0
         /\ \A c \in Client, k \in Clock : Cold(p).vote[c][k] = 0
<1> DEFINE v == [c \in Client |-> [k \in Clock |-> 0]]
           s == [x \in Supply |-> [ref |-> 0, on |-> FALSE]]
           h == Cold(p)
<1>1. v \in Votes /\ \A c \in Client, k \in Clock : v[c][k] = 0
  BY DEF Votes
<1>2. s \in Supplies /\ \A x \in Supply : s[x].ref = 0 /\ s[x].on = FALSE
  BY DEF Supplies
<1>3. h.vote = v /\ h.sup = s
  BY DEF Cold
<1> HIDE DEF v, s
<1>4. /\ Typed(h) /\ h.panel = p /\ h.core = FALSE /\ h.link = FALSE /\ h.power = FALSE
      /\ h.host = FALSE /\ h.engine = FALSE /\ h.vid = FALSE /\ h.cmd = FALSE /\ h.cmdRef = 0
      /\ h.phyPower = FALSE /\ h.phyEngine = FALSE /\ h.idle = FALSE /\ h.clamp = FALSE
      /\ h.ulps = FALSE /\ h.lanes = FALSE /\ h.init = FALSE /\ h.esd = FALSE /\ h.splash = FALSE
  BY <1>1, <1>2 DEF Cold, Typed, v, s
<1> HIDE DEF h
<1>5. Powered(h) /\ Parked(h)
  BY <1>4 DEF Powered, Parked
<1>6. Supplied(h) /\ h.sup["panelPwr"].ref = 0
  <2>1. \A x \in {"digital", "hostPwr", "phyDigital", "phyPwr", "panelPwr"} : x \in Supply
    BY DEF Supply
  <2> QED
    BY <1>2, <1>3, <1>4, <2>1 DEF Supplied, One
<1>7. Clocked(h) /\ \A c \in Client, k \in Clock : h.vote[c][k] = 0
  <2>1. "core" \in Clock /\ "link" \in Clock
    BY DEF Clock
  <2>2. \A c \in Client, k \in Clock : h.vote[c][k] = 0
    BY <1>1, <1>3
  <2>3. ~Voted(h, "core") /\ ~Voted(h, "link")
    BY <2>1, <2>2 DEF Voted
  <2>4. h.core = Voted(h, "core") /\ h.link = Voted(h, "link")
    BY <1>4, <2>3, Zenon DEF Voted
  <2> QED
    BY <2>2, <2>4 DEF Clocked
<1> QED
  BY <1>4, <1>5, <1>6, <1>7 DEF Coherent, h

\* A cold display meets the invariant.
LEMMA InitInv ==
  ASSUME Init
  PROVE  Inv
<1>1. PICK p \in Panels : hw = Cold(p)
  BY DEF Init
<1>2. /\ pc = "boot" /\ back = "off" /\ lock = "none" /\ plock = "none"
      /\ job = [j \in Jobs |-> "idle"]
      /\ isr = FALSE /\ wq = FALSE /\ clean = TRUE /\ faults = 0
  BY DEF Init
<1>3. /\ Coherent(hw) /\ Clocked(hw) /\ hw.panel = p
      /\ ~hw.host /\ ~hw.engine /\ ~hw.vid /\ ~hw.cmd
      /\ ~hw.init /\ ~hw.splash /\ hw.cmdRef = 0
      /\ ~hw.phyEngine /\ hw.sup["panelPwr"].ref = 0
      /\ \A c \in Client, k \in Clock : hw.vote[c][k] = 0
  BY <1>1, ColdIs, PanelsAssumption
<1>4. \A j \in Jobs : job[j] = "idle"
  BY <1>2
<1>5. TypeInv
  <2>1. 0 \in 0..MaxFaults
    BY BoundsAssumption
  <2> QED
    BY <1>2, <2>1 DEF TypeInv, Rest
<1>6. Ctl
  <2>1. CoreVotes /\ LinkVotes /\ MdpVotes
    <3>1. {"dsi", "mdp"} = Client /\ {"core", "link"} = Clock
      BY DEF Client, Clock
    <3>2. One(hw.splash) = 0 /\ One(DrmCore(hw)) = 0 /\ One(DrmLink(hw)) = 0
          /\ One(plock # "none") = 0 /\ One(plock = "esd") = 0 /\ One(lock \in Jobs) = 0
      BY <1>2, <1>3, JobsAssumption DEF One, DrmCore, DrmLink
    <3> QED
      BY <1>3, <3>1, <3>2 DEF CoreVotes, LinkVotes, MdpVotes
  <2>2. LockInv
    BY <1>2, <1>4, JobsAssumption DEF LockInv, DrmLocked, Prepare, Abort, Unprepare,
         PanelJobs, DisplayJobs, Busy
  <2>3. HostInv
    BY <1>2, <1>3 DEF HostInv, HostAt, Running, EngineAt
  <2>4. EngineInv
    BY <1>2, <1>3, <1>4 DEF EngineInv, Sends, Running, One
  <2>5. PanelInv
    BY <1>2, <1>3 DEF PanelInv, Prepare, Running
  <2>6. PhyInv
    BY <1>3 DEF PhyInv
  <2>7. CleanInv
    BY <1>2 DEF CleanInv, Prepare, Running, HostAt, Abort, Unprepare
  <2> QED
    BY <2>1, <2>2, <2>3, <2>4, <2>5, <2>6, <2>7 DEF Ctl
<1>7. BootInv
  BY <1>1, <1>3 DEF BootInv
<1> QED
  BY <1>3, <1>5, <1>6, <1>7 DEF Inv, HwInv

\* A step that moves nothing.
LEMMA StutterKeeps ==
  ASSUME Inv, UNCHANGED vars
  PROVE  Inv'
<1>1. UNCHANGED <<hw, pc, back, lock, plock, job, isr, wq, clean, faults>>
  BY DEF vars
<1>2. TypeInv' /\ HwInv' /\ BootInv'
  BY <1>1 DEF Inv, TypeInv, HwInv, BootInv
<1>3. Ctl'
  <2>1. (CoreVotes /\ LinkVotes /\ MdpVotes)'
    BY <1>1 DEF Inv, Ctl, CoreVotes, LinkVotes, MdpVotes, DrmCore, DrmLink
  <2>2. (LockInv /\ HostInv /\ PanelInv /\ PhyInv /\ CleanInv)'
    BY <1>1 DEF Inv, Ctl, LockInv, HostInv, PanelInv, PhyInv, CleanInv
  <2>3. EngineInv'
    <3>1. \A j : Sends(j)' <=> Sends(j)
      BY <1>1 DEF Sends
    <3> QED
      BY <1>1, <3>1 DEF Inv, Ctl, EngineInv, One
  <2> QED
    BY <2>1, <2>2, <2>3 DEF Ctl
<1> QED
  BY <1>2, <1>3 DEF Inv

\* Every step of the display, of its other threads and of the MDP keeps it.
LEMMA NextKeeps ==
  ASSUME Recovered, Inv, [Next]_vars
  PROVE  Inv'
<1>1. CASE PreEnableSteps
  BY <1>1, PanelPrePrepareKeeps, CoreOnKeeps, PhyEnableKeeps, SetClkSrcKeeps, CtrlInitKeeps,
     HostEnableKeeps, LinkOnKeeps, PanelPrepareKeeps, DisplayEnableKeeps, EngineEnableKeeps
     DEF PreEnableSteps
<1>2. CASE PostDisableSteps
  BY <1>2, PanelDisableKeeps, PanelUnprepareKeeps, HostDisableKeeps, LinkOffKeeps,
     CtrlDeinitKeeps, PhyDisableKeeps, CoreOffKeeps, PanelOffKeeps, UnregisterKeeps
     DEF PostDisableSteps
<1>3. CASE DrmCall
  BY <1>3, ContSplashKeeps, PreEnableKeeps, PostEnableKeeps, PreDisableKeeps, DisableKeeps
     DEF DrmCall
<1>4. ASSUME NEW j \in Jobs, JobStart(j) \/ JobStep(j)
      PROVE  Inv'
  BY <1>4, JobStartKeeps, JobEngineKeeps, JobSendKeeps, JobEndKeeps DEF JobStep
<1>5. CASE RecoveryCheck \/ RecoveryDropped \/ ErrorInterrupt
  BY <1>5, QueueKeeps
<1>6. CASE MdpClocks
  BY <1>6, MdpClocksKeeps
<1>7. CASE UNCHANGED vars
  BY <1>7, StutterKeeps
<1> QED
  BY <1>1, <1>2, <1>3, <1>4, <1>5, <1>6, <1>7 DEF Next, DrmStep

\* The invariant of the display's life cycle: every clock vote and every use of
\* the command engine has one holder, the states of host, engines, panel and PHY
\* follow from where the DRM thread is, and the hardware is coherent.
THEOREM InvHolds == Recovered => (Spec => []Inv)
<1> SUFFICES ASSUME Recovered PROVE Spec => []Inv
  OBVIOUS
<1>1. Init => Inv
  BY InitInv
<1>2. Inv /\ [Next]_vars => Inv'
  BY NextKeeps
<1> QED
  BY <1>1, <1>2, PTL DEF Spec

-----------------------------------------------------------------------------
(* What follows from the invariant.                                        *)

\* The counts of the supplies fit the states of the controller and the PHY at
\* every step (dsi_ctrl_enable_supplies, dsi_phy_set_power_state).
THEOREM SuppliesMatchHolds == Recovered => (Spec => []SuppliesMatch)
<1>1. Inv => SuppliesMatch
  BY DEF Inv, HwInv, Coherent, Supplied, SuppliesMatch, One
<1> QED
  BY <1>1, InvHolds, PTL

\* The lanes of a running link are awake, and the flag says so
\* (dsi_post_clkon_cb).
THEOREM LanesAwakeHolds == Recovered => (Spec => []LanesAwake)
<1>1. Inv => LanesAwake
  BY DEF Inv, HwInv, Coherent, Parked, LanesAwake
<1> QED
  BY <1>1, InvHolds, PTL

\* A transfer on its way has power, host, command engine and both clocks
\* (dsi_ctrl_check_state never refuses one).
THEOREM TransfersAreFedHolds == Recovered => (Spec => []TransfersAreFed)
<1>1. ASSUME Inv
      PROVE  TransfersAreFed
  <2> SUFFICES ASSUME NEW j \in Jobs \cap {"esd", "command"}, job[j] = "send"
               PROVE  hw.power /\ hw.host /\ hw.cmd /\ hw.core /\ hw.link
    BY DEF TransfersAreFed
  <2>1. j \in Jobs /\ job[j] \in Busy
    BY DEF Busy
  <2>2. hw.host
    BY <1>1, <2>1, JobHasHost
  <2>3. hw.power /\ hw.cmd /\ hw.core /\ hw.link
    BY <1>1, <2>1, JobFed
  <2> QED
    BY <2>2, <2>3
<1> QED
  BY <1>1, InvHolds, PTL

\* A display that is off holds no vote, no supply, no engine and no handler, whatever
\* failed on the way on or off (dsi_display_unprepare, the ladder of
\* dsi_display_prepare).
THEOREM BlankReleasesHolds == Recovered => (Spec => []BlankReleases)
<1>1. ASSUME Inv, pc = "off", ~hw.splash
      PROVE  /\ \A c \in Client, k \in Clock : hw.vote[c][k] = 0
             /\ \A s \in Supply \ {"phyPwr"} : hw.sup[s].ref = 0
             /\ hw.sup["phyPwr"].ref > 0 => hw.panel.ulpsSuspend
             /\ ~hw.power /\ ~hw.host /\ ~hw.engine /\ ~hw.vid /\ ~hw.cmd
             /\ hw.cmdRef = 0 /\ ~hw.init
             /\ ~isr /\ ~wq
  <2>8. ~isr /\ ~wq
    BY <1>1 DEF Inv, Ctl, CleanInv
  <2>1. ~hw.host /\ ~hw.init /\ ~hw.engine /\ ~hw.vid
    BY <1>1 DEF Inv, Ctl, HostInv, HostAt, HostMayBe, Running
  <2>2. plock = "none" /\ lock \notin Jobs
    BY <1>1, <2>1 DEF Inv, Ctl, LockInv
  <2>3. hw.cmdRef = 0 /\ ~hw.cmd
    <3>1. ~Sends("esd") /\ ~Sends("command")
      <4>1. "esd" \in Jobs => "esd" \in PanelJobs
        BY DEF PanelJobs
      <4>2. "command" \in Jobs => "command" \in DisplayJobs
        BY DEF DisplayJobs
      <4> QED
        BY <1>1, <2>2, <4>1, <4>2, JobsAssumption DEF Inv, Ctl, LockInv, Sends, Busy
    <3> QED
      BY <1>1, <2>1, <3>1 DEF Inv, Ctl, EngineInv, HostInv, One
  <2>4. /\ hw.vote["dsi"]["core"] = 0 /\ hw.vote["dsi"]["link"] = 0
        /\ hw.vote["mdp"]["core"] = 0 /\ hw.vote["mdp"]["link"] = 0
    <3>1. ~DrmCore(hw) /\ ~DrmLink(hw)
      BY <1>1 DEF DrmCore, DrmLink
    <3>2. hw.vote["mdp"]["core"] = 0 /\ hw.vote["mdp"]["link"] = 0
      BY <1>1 DEF Inv, Ctl, MdpVotes, Running
    <3> QED
      BY <1>1, <2>2, <3>1, <3>2 DEF Inv, Ctl, CoreVotes, LinkVotes, One
  <2>5. ~hw.core /\ ~hw.power /\ ~hw.phyPower
    BY <1>1, <2>4, Found
  <2>6. /\ hw.sup["digital"].ref = 0 /\ hw.sup["hostPwr"].ref = 0
        /\ hw.sup["phyDigital"].ref = 0 /\ hw.sup["panelPwr"].ref = 0
    BY <1>1, <2>1, <2>5 DEF Inv, HwInv, Coherent, Supplied, Ctl, PanelInv, One
  <2>7. hw.sup["phyPwr"].ref > 0 => hw.panel.ulpsSuspend
    <3>1. hw.sup["phyPwr"].ref > 0 => hw.phyEngine
      BY <1>1, <2>5 DEF Inv, HwInv, Coherent, Supplied, One
    <3>2. hw.phyEngine => hw.panel.ulpsSuspend
      BY <1>1, <2>1 DEF Inv, Ctl, PhyInv
    <3> QED
      BY <3>1, <3>2
  <2> QED
    BY <2>1, <2>3, <2>4, <2>5, <2>6, <2>7, <2>8 DEF Client, Clock, Supply
<1>2. Inv => BlankReleases
  BY <1>1 DEF BlankReleases
<1> QED
  BY <1>2, InvHolds, PTL

\* After any failures an attempt that meets none brings the display up.
THEOREM NextAttemptWorksHolds == Recovered => (Spec => []NextAttemptWorks)
<1>1. ASSUME Inv, pc = "on", clean
      PROVE  /\ hw.init /\ hw.host /\ hw.engine /\ hw.sup["panelPwr"].on /\ isr /\ wq
             /\ IF hw.panel.cmdMode THEN hw.cmd /\ hw.cmdRef > 0
                ELSE hw.vid /\ hw.power /\ hw.core /\ hw.link
  <2>1. hw.host /\ isr /\ wq
    BY <1>1 DEF Inv, Ctl, CleanInv, Running
  <2>2. hw.init /\ hw.engine
    BY <1>1, <2>1 DEF Inv, Ctl, HostInv, Running, EngineAt
  <2>3. hw.sup["panelPwr"].on
    <3>1. hw.sup["panelPwr"].ref = 1
      BY <1>1, <2>1 DEF Inv, Ctl, PanelInv, Running, One
    <3> QED
      BY <1>1, <3>1 DEF Inv, HwInv, Coherent, Supplied, Supply
  <2>4. hw.panel.cmdMode => hw.cmdRef > 0 /\ hw.cmd
    BY <1>1, <2>1 DEF Inv, Ctl, EngineInv, HostInv, Running, One
  <2>5. ~hw.panel.cmdMode => hw.vid /\ hw.power /\ hw.core /\ hw.link
    <3> HAVE ~hw.panel.cmdMode
    <3>1. hw.vid
      BY <1>1, <2>1 DEF Inv, Ctl, HostInv, Running
    <3>2. hw.vote["dsi"]["link"] > 0
      <4>1. DrmLink(hw)
        BY <1>1, <2>1 DEF DrmLink
      <4> QED
        BY <1>1, <4>1 DEF Inv, Ctl, LinkVotes, One
    <3> QED
      BY <1>1, <3>1, <3>2, Found
  <2> QED
    BY <2>1, <2>2, <2>3, <2>4, <2>5
<1>2. Inv => NextAttemptWorks
  BY <1>1 DEF NextAttemptWorks
<1> QED
  BY <1>2, InvHolds, PTL

\* The type invariant; it includes that the driver never holds more than three
\* votes for a clock: the DRM thread's or the splash's, and one under each lock.
THEOREM TypeOKHolds == Recovered /\ MaxVote >= 3 => (Spec => []TypeOK)
<1>1. ASSUME Inv, MaxVote >= 3
      PROVE  TypeOK
  <2>1. Typed(hw) /\ \A c \in Client, k \in Clock : hw.vote[c][k] \in Nat
    BY <1>1, Found
  <2>2. /\ hw.vote["dsi"]["core"] <= 3 /\ hw.vote["dsi"]["link"] <= 3
        /\ hw.vote["mdp"]["core"] <= 3 /\ hw.vote["mdp"]["link"] <= 3
    <3>1. hw.vote["mdp"]["core"] <= 3 /\ hw.vote["mdp"]["link"] <= 3
      BY <1>1 DEF Inv, Ctl, MdpVotes
    <3>2. hw.splash => plock = "none"
      BY <1>1 DEF Inv, Ctl, HostInv, LockInv, SplashAt, Running
    <3>3. plock = "esd" => plock # "none"
      OBVIOUS
    <3> QED
      BY <1>1, <3>1, <3>2, <3>3 DEF Inv, Ctl, CoreVotes, LinkVotes, One
  <2>3. hw.vote \in [Client -> [Clock -> 0..MaxVote]]
    <3>1. \A c \in Client, k \in Clock : hw.vote[c][k] \in 0..MaxVote
      BY <1>1, <2>1, <2>2, BoundsAssumption DEF Client, Clock
    <3> QED
      BY <2>1, <3>1 DEF Typed, Votes
  <2>4. hw \in Hardware
    BY <2>1, <2>3 DEF Typed, Hardware, Supplies
  <2>5. lock \in {"none", "drm"} \cup Jobs /\ plock \in {"none"} \cup Jobs
    BY <1>1 DEF Inv, Ctl, LockInv, PanelJobs, DisplayJobs
  <2> QED
    BY <1>1, <2>4, <2>5 DEF Inv, TypeInv, TypeOK, Rest
<1>2. MaxVote >= 3 => (Inv => TypeOK)
  BY <1>1
<1> SUFFICES ASSUME Recovered, MaxVote >= 3 PROVE Spec => []TypeOK
  OBVIOUS
<1>3. Inv => TypeOK
  BY <1>2
<1> QED
  BY <1>3, InvHolds, PTL

-----------------------------------------------------------------------------
(* The clock manager, as the display knows it.  A request is one step here, *)
(* so what SharedClock promises is stated of the states between requests.   *)

\* Who holds a clock: the clients with a vote for it.
Holders(k) == {c \in Client : hw.vote[c][k] > 0}

Core == INSTANCE SharedClock WITH Client <- Client, holders <- Holders("core"),
                                  on <- hw.core
Link == INSTANCE SharedClock WITH Client <- Client, holders <- Holders("link"),
                                  on <- hw.link

\* The promise of SharedClock for both domains, and more: between requests a clock
\* runs if and only if somebody holds it, and the link runs within the core.
Shared ==
    /\ Core!HeldRuns /\ Link!HeldRuns
    /\ hw.core => Holders("core") # {}
    /\ hw.link => Holders("link") # {}
    /\ hw.link => hw.core

\* Whoever holds the link clocks holds the core clocks at least as often,
\* because every holder of a link vote in LinkVotes is one in CoreVotes: what
\* the clock manager's proofs assume of its callers (CallerNests).
THEOREM CallersNestHolds == Recovered => (Spec => []CallersNest)
<1>1. Inv => CallersNest
  <2> SUFFICES ASSUME Inv PROVE CallersNest
      OBVIOUS
  <2>1. Client = {"dsi", "mdp"}
    BY DEF Client
  <2>2. DrmLink(hw) => DrmCore(hw)
    BY DEF DrmCore
  <2>3. plock = "esd" => plock # "none"
    OBVIOUS
  <2>4. hw.vote["dsi"]["link"] <= hw.vote["dsi"]["core"]
    BY <2>2, <2>3 DEF Inv, Ctl, CoreVotes, LinkVotes, One
  <2>5. hw.vote["mdp"]["link"] <= hw.vote["mdp"]["core"]
    BY DEF Inv, Ctl, MdpVotes
  <2> QED
    BY <2>1, <2>4, <2>5 DEF CallersNest
<1> QED
  BY <1>1, InvHolds, PTL

\* Between any two requests the clocks are to the display what SharedClock
\* promises its clients, in both domains, with the order of the two: the form
\* in which DsiHardware has the manager (Recheck) keeps the promise that
\* DsiClkManager is proved to implement.
THEOREM ClocksAreShared == Recovered => (Spec => []Shared)
<1>1. Inv => Shared
  <2> SUFFICES ASSUME Inv PROVE Shared
      OBVIOUS
  <2>1. hw.core = Voted(hw, "core") /\ hw.link = Voted(hw, "link")
    BY DEF Inv, HwInv, Clocked
  <2>2. \A k \in Clock : Voted(hw, k) <=> Holders(k) # {}
    BY DEF Voted, Holders
  <2>3. {"core", "link"} \subseteq Clock
    BY DEF Clock
  <2>4. Voted(hw, "link") => Voted(hw, "core")
    <3>1. \A c \in Client, k \in Clock : hw.vote[c][k] \in Nat
      BY Found
    <3>2. \A c \in Client : hw.vote[c]["link"] > 0 => hw.vote[c]["core"] > 0
      <4>1. DrmLink(hw) => DrmCore(hw)
        BY DEF DrmCore
      <4>2. plock = "esd" => plock # "none"
        OBVIOUS
      <4>3. hw.vote["dsi"]["link"] > 0 => hw.vote["dsi"]["core"] > 0
        BY <4>1, <4>2 DEF Inv, Ctl, CoreVotes, LinkVotes, One
      <4>4. hw.vote["mdp"]["link"] > 0 => hw.vote["mdp"]["core"] > 0
        BY DEF Inv, Ctl, MdpVotes
      <4> QED
        BY <4>3, <4>4 DEF Client
    <3> QED
      BY <3>2 DEF Voted
  <2> QED
    BY <2>1, <2>2, <2>3, <2>4 DEF Shared, Core!HeldRuns, Link!HeldRuns
<1> QED
  BY <1>1, InvHolds, PTL

=============================================================================
