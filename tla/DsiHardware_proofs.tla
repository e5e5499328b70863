------------------------- MODULE DsiHardware_proofs -------------------------
(***************************************************************************)
(* What the calls of DsiHardware leave, for every panel and every state    *)
(* they may find, as long as no supply, no link clock and no lane fails:   *)
(* the lemmas that the proofs about the display rest on.  All other        *)
(* failures (PHY, reset, commands, ...) are covered.                       *)
(***************************************************************************)
EXTENDS DsiHardware, TLAPS

\* A state of the hardware, with no bound on the votes.
Votes == [Client -> [Clock -> Nat]]
Supplies == [Supply -> [ref : Nat, on : BOOLEAN]]

Typed(h) ==
    h \in [panel : Panel,
           vote : Votes,
           core : BOOLEAN, link : BOOLEAN,
           sup : Supplies,
           power : BOOLEAN, host : BOOLEAN, engine : BOOLEAN, vid : BOOLEAN,
           cmd : BOOLEAN, cmdRef : Nat, phyPower : BOOLEAN, phyEngine : BOOLEAN,
           idle : BOOLEAN, clamp : BOOLEAN, ulps : BOOLEAN, lanes : BOOLEAN,
           init : BOOLEAN, esd : BOOLEAN, splash : BOOLEAN]

One(b) == IF b THEN 1 ELSE 0

\* The counts of the supplies fit the states that take them.
Supplied(h) ==
    /\ h.sup["digital"].ref = One(h.power)
    /\ h.sup["hostPwr"].ref = One(h.power \/ h.host)
    /\ h.sup["phyDigital"].ref = One(h.phyPower)
    /\ h.sup["phyPwr"].ref = One(h.phyPower \/ h.phyEngine)
    /\ \A s \in Supply : h.sup[s].on <=> h.sup[s].ref > 0

\* The controller and the PHY are powered exactly while the core clocks run,
\* and the link clocks run only then.
Powered(h) ==
    /\ h.power = h.core
    /\ h.phyPower = h.core
    /\ h.link => h.core

\* What sleeps: a running link has left idle and ULPS; lanes are in ULPS only
\* on a powered controller that says so; ULPS without clamps belongs to a
\* powered controller with no recovery pending; and nothing sleeps but for a
\* panel that is initialized or may sleep in suspend.
Parked(h) ==
    /\ h.link => ~h.clamp /\ ~h.idle /\ ~h.ulps
    /\ h.lanes => h.core /\ h.ulps /\ ~h.clamp
    /\ h.ulps /\ ~h.clamp => h.core /\ ~h.esd
    /\ h.ulps => h.panel.ulps \/ h.panel.ulpsSuspend
    /\ h.ulps \/ h.clamp \/ h.idle => h.init \/ h.panel.ulpsSuspend

Coherent(h) == Typed(h) /\ Supplied(h) /\ Powered(h) /\ Parked(h)

\* The clocks that are voted for run, and no others.
Clocked(h) == h.core = Voted(h, "core") /\ h.link = Voted(h, "link")

\* What no clock request touches, and what only the clocks' power does.
Life(h) == <<h.panel, h.host, h.engine, h.vid, h.cmd, h.cmdRef, h.init, h.esd,
             h.splash, h.sup["panelPwr"]>>
Base(h) == <<Life(h), h.sup, h.power, h.phyPower, h.core, h.vote>>

\* A PHY is enabled by the clocks only on the way out of idle.
PhyStays(h, g) == g.phyEngine => h.phyEngine \/ h.init \/ h.panel.ulpsSuspend

Outcome(r) == r = [h |-> r.h, ok |-> r.ok, hit |-> r.hit] /\ r.ok \in BOOLEAN

\* The failures that leave the hardware in a state of their own.
Bad == Supply \cup {"link", "ulps"}
Sound(r) == r.hit \cap Bad = {}

\* An outcome that follows another takes over its failures, no more.
LEMMA Follows ==
  ASSUME NEW x, NEW y, Outcome(y), NEW r, r = [y EXCEPT !.hit = @ \cup x.hit]
  PROVE  /\ Outcome(r) /\ r.h = y.h /\ r.ok = y.ok /\ r.hit = y.hit \cup x.hit
         /\ Sound(r) => Sound(x) /\ Sound(y)
BY DEF Outcome, Sound

\* A call that succeeds.
LEMMA GoodIs ==
  ASSUME NEW h
  PROVE  Outcome(Good(h)) /\ Good(h).h = h /\ Good(h).ok /\ Good(h).hit = {} /\ Sound(Good(h))
BY DEF Outcome, Good, Sound

\* A call that fails, and one that the state does not admit.
LEMMA FailedIs ==
  ASSUME NEW h, NEW f
  PROVE  Outcome(Failed(h, f)) /\ ~Failed(h, f).ok /\ Failed(h, f).h = h
         /\ Failed(h, f).hit = {f} /\ Outcome(Refused(h)) /\ ~Refused(h).ok
         /\ Refused(h).h = h /\ Refused(h).hit = {}
BY DEF Outcome, Failed, Refused

\* A success after a call without failure is a success without failure.
LEMMA GoodFollows ==
  ASSUME NEW k, NEW x, x.hit = {}, NEW r, r = [Good(k) EXCEPT !.hit = @ \cup x.hit]
  PROVE  r = Good(k)
BY DEF Good

-----------------------------------------------------------------------------
(* The supplies and the core clocks.                                       *)

\* The supply is taken and comes up.
Taken(h, s) == [h EXCEPT !.sup[s] = [ref |-> @.ref + 1, on |-> @.on \/ @.ref = 0]]

\* A supply either comes up or is the call's failure.
LEMMA SupplyOnGives ==
  ASSUME NEW h, NEW s, NEW r \in SupplyOn(h, s)
  PROVE  /\ Outcome(r) /\ (r.ok \/ s \notin r.hit => r = Good(Taken(h, s)))
         /\ r.ok \/ r.hit = {s}
<1>1. CASE r = Good(Taken(h, s))
  BY <1>1, GoodIs
<1>2. CASE r = Failed([h EXCEPT !.sup[s].ref = 1], s)
  BY <1>2 DEF Failed, Outcome
<1> QED
  BY <1>1, <1>2 DEF SupplyOn, Taken

\* A supply that came up has one user more.
LEMMA TakenTyped ==
  ASSUME NEW h, Typed(h), NEW s \in Supply
  PROVE  /\ Typed(Taken(h, s))
         /\ Taken(h, s).phyEngine = h.phyEngine /\ Taken(h, s).phyPower = h.phyPower
         /\ Taken(h, s).host = h.host
<1>1. [ref |-> h.sup[s].ref + 1, on |-> h.sup[s].on \/ h.sup[s].ref = 0]
        \in [ref : Nat, on : BOOLEAN]
  BY DEF Typed, Supplies
<1>2. [h.sup EXCEPT ![s] = [ref |-> h.sup[s].ref + 1,
                            on |-> h.sup[s].on \/ h.sup[s].ref = 0]]
        \in [Supply -> [ref : Nat, on : BOOLEAN]]
  BY <1>1 DEF Typed, Supplies
<1> QED
  BY <1>2 DEF Typed, Taken, Supplies

\* The supply given back when another one failed is not the one that failed.
Undone(p, t) == IF p.ok THEN p ELSE [p EXCEPT !.h = SupplyOff(@, t)]

\* Undoing part of a failed call changes only the state it leaves.
LEMMA UndoneOutcome ==
  ASSUME NEW p, Outcome(p), NEW t
  PROVE  /\ Outcome(Undone(p, t)) /\ Undone(p, t).ok = p.ok
         /\ Undone(p, t).hit = p.hit /\ (p.ok => Undone(p, t) = p)
<1>1. CASE p.ok
  BY <1>1 DEF Undone
<1>2. CASE ~p.ok
  BY <1>2 DEF Outcome, Undone
<1> QED
  BY <1>1, <1>2

\* The controller's supplies come up, or one of them has failed.
LEMMA CtrlSuppliesOnGives ==
  ASSUME NEW h, NEW r \in CtrlSuppliesOn(h), r.ok \/ Sound(r)
  PROVE  r = Good(Taken(IF h.host THEN h ELSE Taken(h, "hostPwr"), "digital"))
<1> DEFINE Digital(g) ==
            {IF r1.ok THEN r1 ELSE [r1 EXCEPT !.h = SupplyOff(@, "hostPwr")]
                : r1 \in SupplyOn(g, "digital")}
           first == IF h.host THEN {Good(h)} ELSE SupplyOn(h, "hostPwr")
<1> HIDE DEF Digital, first
<1>1. r \in Then(first, Digital)
  BY DEF CtrlSuppliesOn, Digital, first
<1>2. PICK x \in first :
        \/ ~x.ok /\ r = x
        \/ x.ok /\ \E y \in Digital(x.h) : r = [y EXCEPT !.hit = @ \cup x.hit]
  BY <1>1 DEF Then
<1>3. x = Good(IF h.host THEN h ELSE Taken(h, "hostPwr"))
  BY <1>2, SupplyOnGives DEF Supply, Bad, Sound, first
<1>4. PICK y \in Digital(x.h) : r = [y EXCEPT !.hit = @ \cup x.hit]
  BY <1>2, <1>3, GoodIs
<1>5. PICK z \in SupplyOn(x.h, "digital") : y = Undone(z, "hostPwr")
  BY <1>4 DEF Digital, Undone
<1>6. Outcome(y) /\ y.ok = z.ok /\ y.hit = z.hit /\ (z.ok => y = z)
  BY <1>5, UndoneOutcome, SupplyOnGives
<1>7. z.ok \/ Sound(z)
  BY <1>4, <1>6, Follows DEF Sound
<1>8. z = Good(Taken(x.h, "digital"))
  BY <1>7, SupplyOnGives DEF Supply, Bad, Sound
<1>9. r = [Good(Taken(x.h, "digital")) EXCEPT !.hit = @ \cup {}]
  BY <1>3, <1>4, <1>6, <1>8, GoodIs
<1> QED
  BY <1>3, <1>9 DEF Good

CtrlUp(h) ==
    [Taken(IF h.host THEN h ELSE Taken(h, "hostPwr"), "digital") EXCEPT !.power = TRUE]

PhyPowerUp(h) ==
    [IF h.phyEngine THEN Taken(h, "phyDigital")
     ELSE Taken(Taken(h, "phyDigital"), "phyPwr") EXCEPT !.phyPower = TRUE]

\* The controller is powered, refused, or a supply has failed.
LEMMA CtrlPowerOnGives ==
  ASSUME NEW h, ~h.power, NEW r \in CtrlPowerOn(h), r.ok \/ Sound(r)
  PROVE  r = Good(CtrlUp(h))
<1> DEFINE Done(g) == {Good([g EXCEPT !.power = TRUE])}
<1> HIDE DEF Done
<1>1. r \in Then(CtrlSuppliesOn(h), Done)
  BY DEF CtrlPowerOn, Allowed, Done
<1>2. PICK x \in CtrlSuppliesOn(h) :
        \/ ~x.ok /\ r = x
        \/ x.ok /\ \E y \in Done(x.h) : r = [y EXCEPT !.hit = @ \cup x.hit]
  BY <1>1 DEF Then
<1>3. x = Good(Taken(IF h.host THEN h ELSE Taken(h, "hostPwr"), "digital"))
  BY <1>2, CtrlSuppliesOnGives
<1>4. r = [Good(CtrlUp(h)) EXCEPT !.hit = @ \cup {}]
  BY <1>2, <1>3, GoodIs DEF Done, CtrlUp
<1> QED
  BY <1>4 DEF Good

\* The PHY is powered, or a supply has failed.
LEMMA PhyPowerOnGives ==
  ASSUME NEW h, Typed(h), ~h.phyPower, NEW r \in PhyPowerOn(h)
  PROVE  Outcome(r) /\ (r.ok \/ Sound(r) => r = Good(PhyPowerUp(h)))
<1> DEFINE Pwr(g) ==
             IF g.phyEngine THEN {Good(g)}
             ELSE {IF p.ok THEN p ELSE [p EXCEPT !.h = SupplyOff(@, "phyDigital")]
                     : p \in SupplyOn(g, "phyPwr")}
           Done(g) == {Good([g EXCEPT !.phyPower = TRUE])}
           up == IF h.phyEngine THEN Taken(h, "phyDigital")
                 ELSE Taken(Taken(h, "phyDigital"), "phyPwr")
<1> HIDE DEF Pwr, Done, up
<1>1. r \in Then(Then(SupplyOn(h, "phyDigital"), Pwr), Done)
  BY DEF PhyPowerOn, Pwr, Done
<1>2. PICK x \in Then(SupplyOn(h, "phyDigital"), Pwr) :
        \/ ~x.ok /\ r = x
        \/ x.ok /\ r = [Good([x.h EXCEPT !.phyPower = TRUE]) EXCEPT !.hit = @ \cup x.hit]
  BY <1>1 DEF Then, Done
<1>3. PICK z \in SupplyOn(h, "phyDigital") :
        \/ ~z.ok /\ x = z
        \/ z.ok /\ \E y \in Pwr(z.h) : x = [y EXCEPT !.hit = @ \cup z.hit]
  BY <1>2 DEF Then
<1>4. CASE ~z.ok
  BY <1>2, <1>3, <1>4, SupplyOnGives DEF Supply, Bad, Sound
<1>5. CASE z.ok
  <2>1. z = Good(Taken(h, "phyDigital"))
    BY <1>5, SupplyOnGives
  <2>2. /\ z.h.phyEngine = h.phyEngine /\ z.hit = {}
        /\ z.h = Taken(h, "phyDigital")
    BY <2>1, TakenTyped, GoodIs DEF Supply
  <2>3. PICK y \in Pwr(z.h) : x = [y EXCEPT !.hit = @ \cup z.hit]
    BY <1>3, <1>5
  <2>4. Outcome(y) /\ (y.ok \/ Sound(y) => y = Good(up))
    <3>1. CASE h.phyEngine
      BY <2>2, <2>3, <3>1, GoodIs DEF Pwr, up
    <3>2. CASE ~h.phyEngine
      <4>1. PICK p \in SupplyOn(z.h, "phyPwr") : y = Undone(p, "phyDigital")
        BY <2>2, <2>3, <3>2 DEF Pwr, Undone
      <4>2. Outcome(y) /\ y.ok = p.ok /\ y.hit = p.hit /\ (p.ok => y = p)
        BY <4>1, UndoneOutcome, SupplyOnGives
      <4>3. y.ok \/ Sound(y) => p = Good(Taken(z.h, "phyPwr"))
        BY <4>2, SupplyOnGives DEF Supply, Bad, Sound
      <4> QED
        BY <2>2, <3>2, <4>2, <4>3, GoodIs DEF up
    <3> QED
      BY <3>1, <3>2
  <2>5. Outcome(x) /\ x.ok = y.ok /\ (Sound(x) => Sound(y))
    BY <2>3, <2>4, Follows
  <2>6. x.ok \/ Sound(x) => x = Good(up)
    BY <2>2, <2>3, <2>4, <2>5, GoodFollows
  <2>7. CASE ~x.ok
    BY <1>2, <2>5, <2>6, <2>7, GoodIs
  <2>8. CASE x.ok
    <3>1. x.h = up /\ x.hit = {}
      BY <2>6, <2>8, GoodIs
    <3>2. r = [Good([x.h EXCEPT !.phyPower = TRUE]) EXCEPT !.hit = @ \cup x.hit]
      BY <1>2, <2>8
    <3>3. r = Good([x.h EXCEPT !.phyPower = TRUE])
      BY <3>1, <3>2, GoodFollows
    <3> QED
      BY <3>1, <3>3, GoodIs DEF PhyPowerUp, up
  <2> QED
    BY <2>7, <2>8
<1> QED
  BY <1>4, <1>5

\* A powered controller and PHY are a state of the hardware.
LEMMA UpTyped ==
  ASSUME NEW h, Typed(h)
  PROVE  /\ Typed(CtrlUp(h)) /\ CtrlUp(h).phyPower = h.phyPower
         /\ Typed(PhyPowerUp(h))
<1>1. {"digital", "hostPwr", "phyPwr", "phyDigital"} \subseteq Supply
  BY DEF Supply
<1>2. Typed(IF h.host THEN h ELSE Taken(h, "hostPwr"))
  BY <1>1, TakenTyped
<1>3. Typed(Taken(IF h.host THEN h ELSE Taken(h, "hostPwr"), "digital"))
  BY <1>1, <1>2, TakenTyped
<1>4. Typed(IF h.phyEngine THEN Taken(h, "phyDigital")
            ELSE Taken(Taken(h, "phyDigital"), "phyPwr"))
  BY <1>1, TakenTyped
<1>5. Taken(IF h.host THEN h ELSE Taken(h, "hostPwr"), "digital").phyPower = h.phyPower
  BY <1>1, <1>2, TakenTyped
<1>6. ASSUME NEW g, Typed(g)
      PROVE  /\ Typed([g EXCEPT !.power = TRUE]) /\ Typed([g EXCEPT !.phyPower = TRUE])
             /\ [g EXCEPT !.power = TRUE].phyPower = g.phyPower
  BY <1>6 DEF Typed
<1> QED
  BY <1>3, <1>4, <1>5, <1>6 DEF CtrlUp, PhyPowerUp

\* The core clocks of an unpowered controller start, unless a supply fails.
LEMMA CoreUpGives ==
  ASSUME NEW h, Typed(h), ~h.power, ~h.phyPower, NEW r \in CoreUp(h), r.ok \/ Sound(r)
  PROVE  r = Good([PhyPowerUp(CtrlUp(h)) EXCEPT !.core = TRUE])
<1> DEFINE Run(g) == {Good([g EXCEPT !.core = TRUE])}
<1> HIDE DEF Run
<1>1. r \in Then(Then(CtrlPowerOn(h), PhyPowerOn), Run)
  BY DEF CoreUp, Run
<1>2. PICK x \in Then(CtrlPowerOn(h), PhyPowerOn) :
        \/ ~x.ok /\ r = x
        \/ x.ok /\ \E y \in Run(x.h) : r = [y EXCEPT !.hit = @ \cup x.hit]
  BY <1>1 DEF Then
<1>3. PICK z \in CtrlPowerOn(h) :
        \/ ~z.ok /\ x = z
        \/ z.ok /\ \E y \in PhyPowerOn(z.h) : x = [y EXCEPT !.hit = @ \cup z.hit]
  BY <1>2 DEF Then
<1>4. z = Good(CtrlUp(h))
  BY <1>2, <1>3, CtrlPowerOnGives
<1>5. z.ok /\ z.h = CtrlUp(h) /\ z.hit = {} /\ Typed(z.h) /\ ~z.h.phyPower
  BY <1>4, GoodIs, UpTyped
<1>6. PICK y \in PhyPowerOn(z.h) : x = [y EXCEPT !.hit = @ \cup z.hit]
  BY <1>3, <1>5
<1>7. Outcome(y) /\ (y.ok \/ Sound(y) => y = Good(PhyPowerUp(z.h)))
  BY <1>5, PhyPowerOnGives
<1>8. y.ok \/ Sound(y)
  BY <1>2, <1>6, <1>7, Follows
<1>9. x = Good(PhyPowerUp(z.h))
  BY <1>5, <1>6, <1>7, <1>8, GoodFollows
<1>10. x.ok /\ x.h = PhyPowerUp(CtrlUp(h)) /\ x.hit = {}
  BY <1>5, <1>9, GoodIs
<1>11. r = [Good([x.h EXCEPT !.core = TRUE]) EXCEPT !.hit = @ \cup x.hit]
  BY <1>2, <1>10 DEF Run
<1>12. r = Good([x.h EXCEPT !.core = TRUE])
  BY <1>10, <1>11, GoodFollows
<1> QED
  BY <1>10, <1>12

\* Everything but the supplies of controller and PHY and what they power.
Others(h) == <<Life(h), h.vote, h.core, h.link, h.phyEngine, h.idle, h.clamp,
               h.ulps, h.lanes>>

\* What a taken supply changes, and what it leaves.
LEMMA TakenKeeps ==
  ASSUME NEW h, Typed(h), NEW s \in Supply
  PROVE  /\ Taken(h, s).power = h.power /\ Taken(h, s).phyPower = h.phyPower
         /\ s # "panelPwr" => Others(Taken(h, s)) = Others(h)
         /\ h.sup[s].ref = 0 => Taken(h, s).sup[s].ref = 1 /\ Taken(h, s).sup[s].on
         /\ \A t \in Supply \ {s} : Taken(h, s).sup[t] = h.sup[t]
<1>1. Taken(h, s).sup = [h.sup EXCEPT ![s] = [ref |-> h.sup[s].ref + 1,
                                              on |-> h.sup[s].on \/ h.sup[s].ref = 0]]
  BY DEF Taken, Typed
<1>2. DOMAIN h.sup = Supply
  BY DEF Typed, Supplies
<1>3. Taken(h, s).power = h.power /\ Taken(h, s).phyPower = h.phyPower
  BY DEF Typed, Taken
<1>4. ASSUME s # "panelPwr" PROVE Others(Taken(h, s)) = Others(h)
  <2>1. Taken(h, s).sup["panelPwr"] = h.sup["panelPwr"]
    BY <1>1, <1>2, <1>4 DEF Supply
  <2> QED
    BY <2>1 DEF Typed, Taken, Others, Life
<1>5. Taken(h, s).sup[s] = [ref |-> h.sup[s].ref + 1,
                            on |-> h.sup[s].on \/ h.sup[s].ref = 0]
  BY <1>1, <1>2
<1>6. ASSUME h.sup[s].ref = 0 PROVE Taken(h, s).sup[s].ref = 1 /\ Taken(h, s).sup[s].on
  <2>1. h.sup[s].ref + 1 = 1 /\ (h.sup[s].on \/ h.sup[s].ref = 0)
    BY <1>6
  <2>2. Taken(h, s).sup[s].ref = 1
    BY <1>5, <2>1
  <2>3. Taken(h, s).sup[s].on = (h.sup[s].on \/ h.sup[s].ref = 0)
    BY <1>5
  <2> QED
    BY <2>1, <2>2, <2>3, Zenon
<1>7. \A t \in Supply \ {s} : Taken(h, s).sup[t] = h.sup[t]
  BY <1>1, <1>2
<1> QED
  BY <1>3, <1>4, <1>6, <1>7

\* Powering the controller takes exactly the supplies it needs.
LEMMA CtrlUpKeeps ==
  ASSUME NEW h, Typed(h), Supplied(h), ~h.power
  PROVE  /\ Typed(CtrlUp(h)) /\ Supplied(CtrlUp(h)) /\ CtrlUp(h).power
         /\ CtrlUp(h).phyPower = h.phyPower /\ Others(CtrlUp(h)) = Others(h)
<1> DEFINE a == IF h.host THEN h ELSE Taken(h, "hostPwr")
           b == Taken(a, "digital")
<1> HIDE DEF a, b
<1>1. {"digital", "hostPwr", "phyPwr", "phyDigital", "panelPwr"} = Supply
  BY DEF Supply
<1>2. Typed(a) /\ Typed(b)
  BY <1>1, TakenTyped DEF a, b
<1>3. /\ a.power = h.power /\ a.phyPower = h.phyPower /\ Others(a) = Others(h)
      /\ a.sup["hostPwr"].ref = 1 /\ a.sup["hostPwr"].on
      /\ \A t \in Supply \ {"hostPwr"} : a.sup[t] = h.sup[t]
  <2>1. CASE h.host
    BY <2>1, <1>1 DEF Supplied, One, a
  <2>2. CASE ~h.host
    <3>1. "hostPwr" \in Supply /\ a = Taken(h, "hostPwr")
      BY <2>2, <1>1 DEF a
    <3>2. h.sup["hostPwr"].ref = 0
      BY <2>2 DEF Supplied, One
    <3> QED
      BY <3>1, <3>2, TakenKeeps
  <2> QED
    BY <2>1, <2>2
<1>4. /\ b.power = h.power /\ b.phyPower = h.phyPower /\ Others(b) = Others(h)
      /\ b.sup["digital"].ref = 1 /\ b.sup["digital"].on
      /\ \A t \in Supply \ {"digital"} : b.sup[t] = a.sup[t]
  <2>1. a.sup["digital"].ref = 0 /\ "digital" \in Supply /\ b = Taken(a, "digital")
    BY <1>1, <1>3 DEF Supplied, One, b
  <2> QED
    BY <1>2, <1>3, <2>1, TakenKeeps
<1>5. CtrlUp(h) = [b EXCEPT !.power = TRUE]
  BY DEF CtrlUp, a, b
<1>6. Typed(CtrlUp(h))
  BY UpTyped
<1>7. /\ CtrlUp(h).power /\ CtrlUp(h).sup = b.sup /\ CtrlUp(h).phyPower = b.phyPower
      /\ Others(CtrlUp(h)) = Others(b)
  BY <1>2, <1>5 DEF Typed, Others, Life
<1>8. Supplied(CtrlUp(h))
  <2>1. CtrlUp(h).host = h.host /\ CtrlUp(h).phyEngine = h.phyEngine
    BY <1>4, <1>7 DEF Others, Life
  <2> QED
    BY <1>1, <1>3, <1>4, <1>7, <2>1 DEF Supplied, One
<1> QED
  BY <1>4, <1>6, <1>7, <1>8

\* Powering the PHY takes exactly the supplies it needs.
LEMMA PhyPowerUpKeeps ==
  ASSUME NEW h, Typed(h), Supplied(h), ~h.phyPower
  PROVE  /\ Typed(PhyPowerUp(h)) /\ Supplied(PhyPowerUp(h)) /\ PhyPowerUp(h).phyPower
         /\ PhyPowerUp(h).power = h.power /\ Others(PhyPowerUp(h)) = Others(h)
<1> DEFINE a == Taken(h, "phyDigital")
           b == IF h.phyEngine THEN a ELSE Taken(a, "phyPwr")
<1> HIDE DEF a, b
<1>1. {"digital", "hostPwr", "phyPwr", "phyDigital", "panelPwr"} = Supply
  BY DEF Supply
<1>2. Typed(a) /\ Typed(b)
  BY <1>1, TakenTyped DEF a, b
<1>3. /\ a.power = h.power /\ a.phyPower = h.phyPower /\ Others(a) = Others(h)
      /\ a.sup["phyDigital"].ref = 1 /\ a.sup["phyDigital"].on
      /\ \A t \in Supply \ {"phyDigital"} : a.sup[t] = h.sup[t]
  <2>1. h.sup["phyDigital"].ref = 0 /\ "phyDigital" \in Supply /\ a = Taken(h, "phyDigital")
    BY <1>1 DEF Supplied, One, a
  <2> QED
    BY <2>1, TakenKeeps
<1>4. /\ b.power = h.power /\ b.phyPower = h.phyPower /\ Others(b) = Others(h)
      /\ b.sup["phyPwr"].ref = 1 /\ b.sup["phyPwr"].on
      /\ \A t \in Supply \ {"phyPwr"} : b.sup[t] = a.sup[t]
  <2>1. CASE h.phyEngine
    BY <2>1, <1>1, <1>3 DEF Supplied, One, b
  <2>2. CASE ~h.phyEngine
    <3>1. "phyPwr" \in Supply /\ b = Taken(a, "phyPwr")
      BY <2>2, <1>1 DEF b
    <3>2. a.sup["phyPwr"].ref = 0
      BY <2>2, <1>1, <1>3 DEF Supplied, One
    <3> QED
      BY <1>2, <1>3, <3>1, <3>2, TakenKeeps
  <2> QED
    BY <2>1, <2>2
<1>5. PhyPowerUp(h) = [b EXCEPT !.phyPower = TRUE]
  BY DEF PhyPowerUp, a, b
<1>6. Typed(PhyPowerUp(h))
  BY UpTyped
<1>7. /\ PhyPowerUp(h).phyPower /\ PhyPowerUp(h).sup = b.sup
      /\ PhyPowerUp(h).power = b.power /\ Others(PhyPowerUp(h)) = Others(b)
  BY <1>2, <1>5 DEF Typed, Others, Life
<1>8. Supplied(PhyPowerUp(h))
  <2>1. PhyPowerUp(h).host = h.host
    BY <1>4, <1>7 DEF Others, Life
  <2> QED
    BY <1>1, <1>3, <1>4, <1>7, <2>1 DEF Supplied, One
<1> QED
  BY <1>4, <1>6, <1>7, <1>8

\* The core clocks come up.
LEMMA CoreUpKeeps ==
  ASSUME NEW h, Coherent(h), ~h.core, NEW r \in CoreUp(h), r.ok \/ Sound(r)
  PROVE  /\ Outcome(r) /\ r.ok /\ r.hit = {}
         /\ Coherent(r.h) /\ r.h.core /\ r.h.link = h.link
         /\ Life(r.h) = Life(h) /\ r.h.vote = h.vote /\ PhyStays(h, r.h)
<1> DEFINE k == CtrlUp(h)
           m == PhyPowerUp(k)
<1> HIDE DEF k, m
<1>1. ~h.power /\ ~h.phyPower /\ Typed(h) /\ Supplied(h)
  BY DEF Coherent, Powered
<1>2. Typed(k) /\ Supplied(k) /\ k.power /\ ~k.phyPower /\ Others(k) = Others(h)
  BY <1>1, CtrlUpKeeps DEF k
<1>3. Typed(m) /\ Supplied(m) /\ m.phyPower /\ m.power /\ Others(m) = Others(h)
  BY <1>2, PhyPowerUpKeeps DEF m
<1>4. r = Good([m EXCEPT !.core = TRUE])
  BY <1>1, CoreUpGives DEF k, m
<1>5. Outcome(r) /\ r.ok /\ r.hit = {} /\ r.h = [m EXCEPT !.core = TRUE]
  BY <1>4, GoodIs
<1>6. Typed(r.h) /\ r.h.core /\ r.h.power /\ r.h.phyPower /\ Supplied(r.h)
  BY <1>3, <1>5 DEF Typed, Supplied
<1>7. /\ Life(r.h) = Life(h) /\ r.h.vote = h.vote /\ r.h.link = h.link
      /\ r.h.phyEngine = h.phyEngine /\ r.h.idle = h.idle /\ r.h.clamp = h.clamp
      /\ r.h.ulps = h.ulps /\ r.h.lanes = h.lanes
  BY <1>3, <1>5 DEF Typed, Others, Life
<1>8. r.h.esd = h.esd /\ r.h.panel = h.panel /\ r.h.init = h.init
  BY <1>7 DEF Life
<1>9. Powered(r.h) /\ Parked(r.h)
  BY <1>6, <1>7, <1>8 DEF Coherent, Powered, Parked
<1> QED
  BY <1>5, <1>6, <1>7, <1>9 DEF Coherent, PhyStays

-----------------------------------------------------------------------------
(* ULPS and the link clocks.                                               *)

\* Everything the way out of idle and ULPS leaves alone.
Awake(h, g) ==
    /\ Typed(g) /\ Base(g) = Base(h) /\ g.link = h.link

\* Lanes and flag go together, as long as the lanes do not fail.
LEMMA SetUlpsGives ==
  ASSUME NEW h, Typed(h), NEW on \in BOOLEAN, NEW r \in SetUlps(h, on)
  PROVE  /\ Outcome(r) /\ Awake(h, r.h)
         /\ r.h.phyEngine = h.phyEngine /\ r.h.idle = h.idle /\ r.h.clamp = h.clamp
         /\ r.ok \/ Sound(r) =>
              /\ r.ok
              /\ UlpsWanted(h, on) => r.h.lanes = on /\ r.h.ulps = on
              /\ ~UlpsWanted(h, on) => r.h = h
<1>1. CASE ~UlpsWanted(h, on)
  <2>1. r = Good(h)
    BY <1>1 DEF SetUlps
  <2> QED
    BY <1>1, <2>1, GoodIs DEF Awake
<1>2. CASE UlpsWanted(h, on)
  <2> DEFINE Flag(g) == {Good([g EXCEPT !.ulps = on])}
  <2> HIDE DEF Flag
  <2>1. r \in Then(LanesUlps(h, on), Flag)
    BY <1>2 DEF SetUlps, Flag
  <2>2. PICK x \in LanesUlps(h, on) :
          \/ ~x.ok /\ r = x
          \/ x.ok /\ r = [Good([x.h EXCEPT !.ulps = on]) EXCEPT !.hit = @ \cup x.hit]
    BY <2>1 DEF Then, Flag
  <2>3. x = Good([h EXCEPT !.lanes = on]) \/ x = Failed(h, "ulps")
    BY <2>2 DEF LanesUlps
  <2>4. CASE x = Good([h EXCEPT !.lanes = on])
    <3>1. x.ok /\ x.hit = {} /\ x.h = [h EXCEPT !.lanes = on]
      BY <2>4, GoodIs
    <3>2. r = Good([[h EXCEPT !.lanes = on] EXCEPT !.ulps = on])
      BY <2>2, <3>1, GoodFollows
    <3>3. /\ Outcome(r) /\ r.ok
          /\ r.h = [[h EXCEPT !.lanes = on] EXCEPT !.ulps = on]
      BY <3>2, GoodIs
    <3> QED
      BY <1>2, <3>3 DEF Typed, Awake, Base, Life
  <2>5. CASE x = Failed(h, "ulps")
    <3>1. x = [h |-> h, ok |-> FALSE, hit |-> {"ulps"}]
      BY <2>5 DEF Failed
    <3>2. r = x
      BY <2>2, <3>1
    <3> QED
      BY <3>1, <3>2 DEF Outcome, Sound, Bad, Awake
  <2> QED
    BY <2>3, <2>4, <2>5
<1> QED
  BY <1>1, <1>2

\* The way out of idle enables the PHY where it was off.
LEMMA PhyIdleOnGives ==
  ASSUME NEW h, Typed(h), NEW r \in PhyIdleOn(h)
  PROVE  /\ Outcome(r) /\ r.ok /\ Awake(h, r.h) /\ ~r.h.idle
         /\ r.h.clamp = h.clamp /\ r.h.ulps = h.ulps /\ r.h.lanes = h.lanes
         /\ r.h.phyEngine => h.phyEngine \/ h.idle \/ h.clamp
         /\ h.phyEngine => r.h.phyEngine
<1>1. \/ h.idle /\ r = Good([h EXCEPT !.phyEngine = TRUE, !.idle = FALSE])
      \/ ~h.idle /\ r = Good(h)
      \/ ~h.idle /\ h.clamp /\ r = [Good([h EXCEPT !.phyEngine = TRUE]) EXCEPT !.ok = TRUE]
      \/ ~h.idle /\ h.clamp /\ r = [Failed(h, "phy") EXCEPT !.ok = TRUE]
  BY DEF PhyIdleOn, PhyEngineOn, Ignored
<1>2. CASE h.idle /\ r = Good([h EXCEPT !.phyEngine = TRUE, !.idle = FALSE])
  <2>1. Outcome(r) /\ r.ok /\ r.h = [h EXCEPT !.phyEngine = TRUE, !.idle = FALSE]
    BY <1>2, GoodIs
  <2>2. Typed(r.h)
    BY <2>1 DEF Typed
  <2>3. Base(r.h) = Base(h) /\ r.h.link = h.link
    BY <2>1 DEF Typed, Base, Life
  <2>4. /\ ~r.h.idle /\ r.h.phyEngine /\ r.h.clamp = h.clamp /\ r.h.ulps = h.ulps
        /\ r.h.lanes = h.lanes
    BY <2>1 DEF Typed
  <2> QED
    BY <1>2, <2>1, <2>2, <2>3, <2>4 DEF Awake
<1>3. CASE ~h.idle /\ r = Good(h)
  BY <1>3, GoodIs DEF Awake
<1>4. CASE ~h.idle /\ h.clamp /\ r = [Good([h EXCEPT !.phyEngine = TRUE]) EXCEPT !.ok = TRUE]
  <2>1. Outcome(r) /\ r.ok /\ r.h = [h EXCEPT !.phyEngine = TRUE]
    BY <1>4 DEF Good, Outcome
  <2>2. Typed(r.h)
    BY <2>1 DEF Typed
  <2>3. Base(r.h) = Base(h) /\ r.h.link = h.link
    BY <2>1 DEF Typed, Base, Life
  <2>4. /\ r.h.idle = h.idle /\ r.h.phyEngine /\ r.h.clamp = h.clamp
        /\ r.h.ulps = h.ulps /\ r.h.lanes = h.lanes
    BY <2>1 DEF Typed
  <2> QED
    BY <1>4, <2>1, <2>2, <2>3, <2>4 DEF Awake
<1>5. CASE ~h.idle /\ h.clamp /\ r = [Failed(h, "phy") EXCEPT !.ok = TRUE]
  <2>1. Outcome(r) /\ r.ok /\ r.h = h
    BY <1>5 DEF Failed, Outcome
  <2> QED
    BY <1>5, <2>1 DEF Awake
<1> QED
  BY <1>1, <1>2, <1>3, <1>4, <1>5

\* What the re-entry leaves: lanes that can be woken.
CanWake(h) ==
    /\ h.lanes => h.ulps
    /\ h.ulps => /\ ~h.esd
                 /\ h.panel.ulps \/ h.panel.ulpsSuspend
                 /\ h.init \/ h.panel.ulpsSuspend

Reenter(g) ==
    IF g.ulps /\ g.clamp THEN SetUlps([g EXCEPT !.ulps = FALSE], TRUE) ELSE {Good(g)}
Leave(g) == IF g.ulps THEN SetUlps(g, FALSE) ELSE {Good(g)}

\* Lanes that were in ULPS before the collapse are put back.
LEMMA ReenterGives ==
  ASSUME NEW g, Typed(g), Parked(g), NEW r \in Reenter(g)
  PROVE  /\ Outcome(r) /\ Awake(g, r.h) /\ r.h.phyEngine = g.phyEngine /\ r.h.idle = g.idle
         /\ r.ok \/ Sound(r) => r.ok /\ CanWake(r.h)
<1>1. CASE ~(g.ulps /\ g.clamp)
  <2>1. r = Good(g)
    BY <1>1 DEF Reenter
  <2> QED
    BY <1>1, <2>1, GoodIs DEF Awake, Parked, CanWake, Typed, Panel
<1>2. CASE g.ulps /\ g.clamp
  <2> DEFINE k == [g EXCEPT !.ulps = FALSE]
  <2>1. r \in SetUlps(k, TRUE)
    BY <1>2 DEF Reenter
  <2>2. /\ Typed(k) /\ Base(k) = Base(g) /\ k.link = g.link
        /\ k.phyEngine = g.phyEngine /\ k.idle = g.idle /\ ~k.ulps /\ ~k.lanes
    BY <1>2 DEF Typed, Base, Life, Parked
  <2> HIDE DEF k
  <2>3. /\ Outcome(r) /\ Awake(k, r.h) /\ r.h.phyEngine = k.phyEngine
        /\ r.h.idle = k.idle
        /\ r.ok \/ Sound(r) =>
             /\ r.ok
             /\ UlpsWanted(k, TRUE) => r.h.lanes = TRUE /\ r.h.ulps = TRUE
             /\ ~UlpsWanted(k, TRUE) => r.h = k
    BY <2>1, <2>2, SetUlpsGives
  <2>4. Awake(g, r.h)
    BY <2>2, <2>3 DEF Awake
  <2>5. ASSUME r.ok \/ Sound(r) PROVE CanWake(r.h)
    <3>1. r.h.esd = k.esd /\ r.h.panel = k.panel /\ r.h.init = k.init
      BY <2>3 DEF Awake, Base, Life
    <3>2. CASE UlpsWanted(k, TRUE)
      BY <2>3, <2>5, <3>1, <3>2 DEF UlpsWanted, CanWake
    <3>3. CASE ~UlpsWanted(k, TRUE)
      BY <2>2, <2>3, <2>5, <3>3 DEF CanWake
    <3> QED
      BY <3>2, <3>3
  <2> QED
    BY <2>2, <2>3, <2>4, <2>5
<1> QED
  BY <1>1, <1>2

\* A link that comes up takes the lanes out of ULPS.
LEMMA LeaveGives ==
  ASSUME NEW g, Typed(g), CanWake(g), NEW r \in Leave(g)
  PROVE  /\ Outcome(r) /\ Awake(g, r.h) /\ r.h.phyEngine = g.phyEngine
         /\ r.h.idle = g.idle /\ r.h.clamp = g.clamp
         /\ r.ok \/ Sound(r) => r.ok /\ ~r.h.ulps /\ ~r.h.lanes
<1>1. CASE ~g.ulps
  <2>1. r = Good(g)
    BY <1>1 DEF Leave
  <2> QED
    BY <1>1, <2>1, GoodIs DEF Awake, CanWake
<1>2. CASE g.ulps
  <2>1. r \in SetUlps(g, FALSE)
    BY <1>2 DEF Leave
  <2>2. UlpsWanted(g, FALSE)
    BY <1>2 DEF UlpsWanted, CanWake, Typed
  <2> QED
    BY <2>1, <2>2, SetUlpsGives
<1> QED
  BY <1>1, <1>2

\* The link clocks start, and the panel leaves idle and ULPS.
LEMMA LinkUpKeeps ==
  ASSUME NEW h, Coherent(h), h.core, ~h.link, NEW r \in LinkUp(h), r.ok \/ Sound(r)
  PROVE  /\ Outcome(r) /\ r.ok
         /\ Coherent(r.h) /\ r.h.core /\ r.h.link
         /\ Life(r.h) = Life(h) /\ r.h.vote = h.vote /\ PhyStays(h, r.h)
<1> DEFINE Unclamp(g) == {Good(Clamp(g, FALSE))}
           Run(g) == {Good([g EXCEPT !.link = TRUE])}
           t1 == {Good(h), Failed(h, "link")}
           t2 == Then(t1, PhyIdleOn)
           t3 == Then(t2, Reenter)
           t4 == Then(t3, Unclamp)
           t5 == Then(t4, Leave)
<1> HIDE DEF t2, t3, t4, t5, Unclamp, Run
<1>1. r \in Then(t5, Run)
  BY DEF LinkUp, t5, t4, t3, t2, Reenter, Leave, Unclamp, Run
<1>2. PICK x5 \in t5 :
        \/ ~x5.ok /\ r = x5
        \/ x5.ok /\ r = [Good([x5.h EXCEPT !.link = TRUE]) EXCEPT !.hit = @ \cup x5.hit]
  BY <1>1 DEF Then, Run
<1>3. PICK x4 \in t4 :
        \/ ~x4.ok /\ x5 = x4
        \/ x4.ok /\ \E y \in Leave(x4.h) : x5 = [y EXCEPT !.hit = @ \cup x4.hit]
  BY <1>2 DEF Then, t5
<1>4. PICK x3 \in t3 :
        \/ ~x3.ok /\ x4 = x3
        \/ x3.ok /\ \E y \in Unclamp(x3.h) : x4 = [y EXCEPT !.hit = @ \cup x3.hit]
  BY <1>3 DEF Then, t4
<1>5. PICK x2 \in t2 :
        \/ ~x2.ok /\ x3 = x2
        \/ x2.ok /\ \E y \in Reenter(x2.h) : x3 = [y EXCEPT !.hit = @ \cup x2.hit]
  BY <1>4 DEF Then, t3
<1>6. PICK x1 \in t1 :
        \/ ~x1.ok /\ x2 = x1
        \/ x1.ok /\ \E y \in PhyIdleOn(x1.h) : x2 = [y EXCEPT !.hit = @ \cup x1.hit]
  BY <1>5 DEF Then, t2
<1>7. x5.ok \/ Sound(x5)
  BY <1>2
<1>8. x4.ok \/ Sound(x4)
  BY <1>3, <1>7
<1>9. x3.ok \/ Sound(x3)
  BY <1>4, <1>8
<1>10. x2.ok \/ Sound(x2)
  BY <1>5, <1>9
<1>11. x1.ok \/ Sound(x1)
  BY <1>6, <1>10
<1>12. x1.ok /\ x1.h = h
  <2>1. CASE x1 = Good(h)
    BY <2>1, GoodIs
  <2>2. CASE x1 = Failed(h, "link")
    BY <2>2, <1>11 DEF Failed, Sound, Bad
  <2> QED
    BY <2>1, <2>2 DEF t1
<1>13. Typed(h) /\ Supplied(h) /\ Powered(h) /\ Parked(h)
  BY DEF Coherent
<1>14. /\ Outcome(x2) /\ x2.ok /\ Awake(h, x2.h) /\ ~x2.h.idle
       /\ x2.h.clamp = h.clamp /\ x2.h.ulps = h.ulps /\ x2.h.lanes = h.lanes
       /\ x2.h.phyEngine => h.phyEngine \/ h.idle \/ h.clamp
       /\ h.phyEngine => x2.h.phyEngine
  <2>1. PICK y \in PhyIdleOn(h) : x2 = [y EXCEPT !.hit = @ \cup x1.hit]
    BY <1>6, <1>12
  <2>2. /\ Outcome(y) /\ y.ok /\ Awake(h, y.h) /\ ~y.h.idle
        /\ y.h.clamp = h.clamp /\ y.h.ulps = h.ulps /\ y.h.lanes = h.lanes
        /\ y.h.phyEngine => h.phyEngine \/ h.idle \/ h.clamp
        /\ h.phyEngine => y.h.phyEngine
    BY <1>13, PhyIdleOnGives
  <2> QED
    BY <2>1, <2>2, Follows
<1>15. Parked(x2.h) /\ Typed(x2.h)
  <2>1. /\ x2.h.link = h.link /\ x2.h.core = h.core /\ x2.h.esd = h.esd
        /\ x2.h.panel = h.panel /\ x2.h.init = h.init
    BY <1>14 DEF Awake, Base, Life
  <2> QED
    BY <1>13, <1>14, <2>1 DEF Parked, Awake
<1>16. /\ Outcome(x3) /\ x3.ok /\ Awake(h, x3.h) /\ ~x3.h.idle /\ CanWake(x3.h)
       /\ x3.h.phyEngine = x2.h.phyEngine
  <2>1. PICK y \in Reenter(x2.h) : x3 = [y EXCEPT !.hit = @ \cup x2.hit]
    BY <1>5, <1>14
  <2>2. /\ Outcome(y) /\ Awake(x2.h, y.h) /\ y.h.phyEngine = x2.h.phyEngine
        /\ y.h.idle = x2.h.idle /\ (y.ok \/ Sound(y) => y.ok /\ CanWake(y.h))
    BY <1>15, ReenterGives
  <2>3. /\ Outcome(x3) /\ x3.h = y.h /\ x3.ok = y.ok /\ (Sound(x3) => Sound(y))
    BY <2>1, <2>2, Follows
  <2> QED
    BY <1>9, <1>14, <2>2, <2>3 DEF Awake
<1>17. /\ x4.ok /\ Awake(h, x4.h) /\ ~x4.h.idle /\ CanWake(x4.h) /\ ~x4.h.clamp
       /\ x4.h.phyEngine = x2.h.phyEngine
  <2>1. x4 = [Good(Clamp(x3.h, FALSE)) EXCEPT !.hit = @ \cup x3.hit]
    BY <1>4, <1>16 DEF Unclamp
  <2>2. x4.ok /\ x4.h = [x3.h EXCEPT !.clamp = FALSE]
    BY <2>1, GoodIs, Follows DEF Clamp
  <2>3. Typed(x4.h) /\ ~x4.h.clamp /\ x4.h.idle = x3.h.idle /\ x4.h.phyEngine = x3.h.phyEngine
    BY <1>16, <2>2 DEF Awake, Typed
  <2>4. Base(x4.h) = Base(x3.h) /\ x4.h.link = x3.h.link
    BY <1>16, <2>2 DEF Awake, Typed, Base, Life
  <2>5. CanWake(x4.h)
    BY <1>16, <2>2 DEF Awake, Typed, CanWake
  <2> QED
    BY <1>16, <2>2, <2>3, <2>4, <2>5 DEF Awake
<1>18. /\ x5.ok /\ Awake(h, x5.h) /\ ~x5.h.idle /\ ~x5.h.clamp
       /\ ~x5.h.ulps /\ ~x5.h.lanes /\ x5.h.phyEngine = x2.h.phyEngine
  <2>1. PICK y \in Leave(x4.h) : x5 = [y EXCEPT !.hit = @ \cup x4.hit]
    BY <1>3, <1>17
  <2>2. /\ Outcome(y) /\ Awake(x4.h, y.h) /\ y.h.phyEngine = x4.h.phyEngine
        /\ y.h.idle = x4.h.idle /\ y.h.clamp = x4.h.clamp
        /\ (y.ok \/ Sound(y) => y.ok /\ ~y.h.ulps /\ ~y.h.lanes)
    BY <1>17, LeaveGives DEF Awake
  <2>3. /\ Outcome(x5) /\ x5.h = y.h /\ x5.ok = y.ok /\ (Sound(x5) => Sound(y))
    BY <2>1, <2>2, Follows
  <2> QED
    BY <1>7, <1>17, <2>2, <2>3 DEF Awake
<1>19. Outcome(r) /\ r.ok /\ r.h = [x5.h EXCEPT !.link = TRUE]
  <2>1. r = [Good([x5.h EXCEPT !.link = TRUE]) EXCEPT !.hit = @ \cup x5.hit]
    BY <1>2, <1>18
  <2> DEFINE k == [x5.h EXCEPT !.link = TRUE]
  <2> HIDE DEF k
  <2>2. Outcome(Good(k)) /\ Good(k).ok /\ Good(k).h = k
    BY GoodIs
  <2>3. r = [Good(k) EXCEPT !.hit = @ \cup x5.hit]
    BY <2>1 DEF k
  <2>4. Outcome(r) /\ r.ok /\ r.h = k
    BY <2>2, <2>3, Follows
  <2> QED
    BY <2>4 DEF k
<1> DEFINE g == x5.h
<1> HIDE DEF g
<1>20. /\ Typed(g) /\ Base(g) = Base(h) /\ ~g.idle /\ ~g.clamp /\ ~g.ulps /\ ~g.lanes
       /\ (g.phyEngine => h.phyEngine \/ h.idle \/ h.clamp)
       /\ (h.phyEngine => g.phyEngine) /\ r.h = [g EXCEPT !.link = TRUE]
  BY <1>14, <1>18, <1>19 DEF Awake, g
<1>21. /\ Typed(r.h) /\ r.h.link /\ ~r.h.idle /\ ~r.h.clamp /\ ~r.h.ulps /\ ~r.h.lanes
       /\ r.h.phyEngine = g.phyEngine
  BY <1>20 DEF Typed
<1>22. Base(r.h) = Base(h)
  BY <1>20 DEF Typed, Base, Life
<1>23. /\ Life(r.h) = Life(h) /\ r.h.sup = h.sup /\ r.h.power = h.power
       /\ r.h.phyPower = h.phyPower /\ r.h.core = h.core /\ r.h.vote = h.vote
  BY <1>22 DEF Base
<1>24. Powered(r.h) /\ Parked(r.h)
  BY <1>13, <1>21, <1>23 DEF Powered, Parked
<1>25. Supplied(r.h)
  <2>1. r.h.host = h.host /\ h.phyPower
    BY <1>13, <1>23 DEF Life, Powered
  <2> QED
    BY <1>13, <1>23, <2>1 DEF Supplied, One
<1>26. PhyStays(h, r.h)
  BY <1>13, <1>20, <1>21 DEF PhyStays, Parked
<1> QED
  BY <1>19, <1>21, <1>23, <1>24, <1>25, <1>26 DEF Coherent

\* An outcome its caller does not look at.
LEMMA IgnoredGives ==
  ASSUME NEW x, Outcome(x), NEW r, r = [x EXCEPT !.ok = TRUE]
  PROVE  Outcome(r) /\ r.ok /\ r.h = x.h /\ r.hit = x.hit /\ (Sound(r) => Sound(x))
BY DEF Outcome, Sound

\* The link clocks stop; the panel may enter ULPS on the way.
LEMMA LinkDownKeeps ==
  ASSUME NEW h, Coherent(h), h.link, NEW r \in LinkDown(h)
  PROVE  /\ Outcome(r) /\ r.ok
         /\ Sound(r) => /\ Coherent(r.h) /\ r.h.core /\ ~r.h.link
                        /\ Life(r.h) = Life(h) /\ r.h.vote = h.vote
                        /\ PhyStays(h, r.h)
<1> DEFINE enter == IF h.init THEN h.panel.ulps ELSE h.panel.ulpsSuspend
<1>1. PICK q \in Ignored(IF enter THEN SetUlps(h, TRUE) ELSE {Good(h)}) :
         r = [q EXCEPT !.h.link = FALSE]
  BY DEF LinkDown
<1>2. PICK x \in (IF enter THEN SetUlps(h, TRUE) ELSE {Good(h)}) : q = [x EXCEPT !.ok = TRUE]
  BY <1>1 DEF Ignored
<1>3. Typed(h) /\ Supplied(h) /\ Powered(h) /\ Parked(h)
  BY DEF Coherent
<1>4. /\ Outcome(x) /\ Awake(h, x.h)
      /\ x.h.phyEngine = h.phyEngine /\ x.h.idle = h.idle /\ x.h.clamp = h.clamp
      /\ Sound(x) => \/ x.h.lanes /\ x.h.ulps /\ UlpsWanted(h, TRUE)
                     \/ x.h = h
  <2>1. CASE enter
    BY <1>2, <1>3, <2>1, SetUlpsGives
  <2>2. CASE ~enter
    BY <1>2, <1>3, <2>2, GoodIs DEF Awake
  <2> QED
    BY <2>1, <2>2
<1>5. Outcome(q) /\ q.ok /\ q.h = x.h /\ q.hit = x.hit
  BY <1>2, <1>4, IgnoredGives
<1>6. /\ Outcome(r) /\ r.ok /\ r.hit = x.hit /\ r.h = [x.h EXCEPT !.link = FALSE]
  BY <1>1, <1>5 DEF Outcome
<1> DEFINE g == x.h
<1> HIDE DEF g
<1>7. ASSUME Sound(r)
      PROVE  /\ Coherent(r.h) /\ r.h.core /\ ~r.h.link
             /\ Life(r.h) = Life(h) /\ r.h.vote = h.vote /\ PhyStays(h, r.h)
  <2>1. /\ Typed(g) /\ Base(g) = Base(h) /\ g.phyEngine = h.phyEngine
        /\ g.idle = h.idle /\ g.clamp = h.clamp /\ r.h = [g EXCEPT !.link = FALSE]
        /\ \/ g.lanes /\ g.ulps /\ UlpsWanted(h, TRUE)
           \/ g = h
    BY <1>4, <1>6, <1>7 DEF Awake, Sound, g
  <2>2. /\ Typed(r.h) /\ ~r.h.link /\ r.h.idle = h.idle /\ r.h.clamp = h.clamp
        /\ r.h.phyEngine = h.phyEngine /\ r.h.lanes = g.lanes /\ r.h.ulps = g.ulps
    BY <2>1 DEF Typed
  <2>3. Base(r.h) = Base(h)
    BY <2>1 DEF Typed, Base, Life
  <2>4. /\ Life(r.h) = Life(h) /\ r.h.sup = h.sup /\ r.h.power = h.power
        /\ r.h.phyPower = h.phyPower /\ r.h.core = h.core /\ r.h.vote = h.vote
    BY <2>3 DEF Base
  <2>5. /\ r.h.host = h.host /\ r.h.esd = h.esd /\ r.h.panel = h.panel /\ r.h.init = h.init
    BY <2>4 DEF Life
  <2>6. Powered(r.h) /\ Supplied(r.h)
    BY <1>3, <2>2, <2>4, <2>5 DEF Powered, Supplied
  <2>7. Parked(r.h)
    BY <1>3, <2>1, <2>2, <2>4, <2>5 DEF Powered, Parked, UlpsWanted
  <2> QED
    BY <1>3, <2>2, <2>4, <2>6, <2>7 DEF Coherent, PhyStays, Powered
<1> QED
  BY <1>6, <1>7

-----------------------------------------------------------------------------
(* The core clocks stop.                                                   *)

\* A supply that is held loses one user.
LEMMA SupplyOffKeeps ==
  ASSUME NEW h, Typed(h), NEW s \in Supply
  PROVE  /\ Typed(SupplyOff(h, s))
         /\ SupplyOff(h, s).power = h.power /\ SupplyOff(h, s).phyPower = h.phyPower
         /\ s # "panelPwr" => Others(SupplyOff(h, s)) = Others(h)
         /\ h.sup[s].ref = 1 => SupplyOff(h, s).sup[s].ref = 0 /\ ~SupplyOff(h, s).sup[s].on
         /\ \A t \in Supply \ {s} : SupplyOff(h, s).sup[t] = h.sup[t]
<1> DEFINE v == IF h.sup[s].ref = 0 THEN h.sup[s]
                ELSE [ref |-> h.sup[s].ref - 1, on |-> h.sup[s].on /\ h.sup[s].ref > 1]
<1>1. v \in [ref : Nat, on : BOOLEAN]
  BY DEF Typed, Supplies
<1> HIDE DEF v
<1>2. SupplyOff(h, s) = [h EXCEPT !.sup = [h.sup EXCEPT ![s] = v]]
  BY DEF SupplyOff, v
<1>3. [h.sup EXCEPT ![s] = v] \in Supplies
  BY <1>1 DEF Typed, Supplies
<1>4. SupplyOff(h, s).sup = [h.sup EXCEPT ![s] = v]
  BY <1>2 DEF Typed
<1>5. Typed(SupplyOff(h, s))
  BY <1>2, <1>3 DEF Typed
<1>6. SupplyOff(h, s).power = h.power /\ SupplyOff(h, s).phyPower = h.phyPower
  BY <1>2 DEF Typed
<1>7. SupplyOff(h, s).sup[s] = v /\ \A t \in Supply \ {s} : SupplyOff(h, s).sup[t] = h.sup[t]
  BY <1>4 DEF Typed, Supplies
<1>8. ASSUME h.sup[s].ref = 1
      PROVE  SupplyOff(h, s).sup[s].ref = 0 /\ ~SupplyOff(h, s).sup[s].on
  <2>1. v = [ref |-> 0, on |-> h.sup[s].on /\ h.sup[s].ref > 1]
    BY <1>8 DEF v
  <2>2. ~(h.sup[s].on /\ h.sup[s].ref > 1)
    BY <1>8
  <2>3. v.ref = 0 /\ v.on = (h.sup[s].on /\ h.sup[s].ref > 1)
    BY <2>1
  <2>4. ~v.on
    BY <2>2, <2>3, Zenon
  <2> QED
    BY <1>7, <2>3, <2>4
<1>9. ASSUME s # "panelPwr" PROVE Others(SupplyOff(h, s)) = Others(h)
  <2>1. SupplyOff(h, s).sup["panelPwr"] = h.sup["panelPwr"]
    BY <1>7, <1>9 DEF Supply
  <2> QED
    BY <1>2, <2>1 DEF Typed, Others, Life
<1> QED
  BY <1>5, <1>6, <1>7, <1>8, <1>9

\* The PHY gives back what it holds.
LEMMA PhyPowerOffKeeps ==
  ASSUME NEW h, Typed(h), Supplied(h), h.phyPower
  PROVE  /\ Typed(PhyPowerOff(h)) /\ Supplied(PhyPowerOff(h)) /\ ~PhyPowerOff(h).phyPower
         /\ PhyPowerOff(h).power = h.power /\ Others(PhyPowerOff(h)) = Others(h)
<1> DEFINE a == IF h.phyEngine THEN h ELSE SupplyOff(h, "phyPwr")
           b == SupplyOff(a, "phyDigital")
<1> HIDE DEF a, b
<1>1. {"digital", "hostPwr", "phyPwr", "phyDigital", "panelPwr"} = Supply
  BY DEF Supply
<1>2. Typed(a) /\ Typed(b)
  BY <1>1, SupplyOffKeeps DEF a, b
<1>3. /\ a.power = h.power /\ Others(a) = Others(h)
      /\ a.sup["phyPwr"].ref = One(h.phyEngine) /\ (a.sup["phyPwr"].on <=> h.phyEngine)
      /\ \A t \in Supply \ {"phyPwr"} : a.sup[t] = h.sup[t]
  <2>1. h.sup["phyPwr"].ref = 1 /\ h.sup["phyPwr"].on /\ "phyPwr" \in Supply
    BY <1>1 DEF Supplied, One
  <2>2. CASE h.phyEngine
    BY <2>1, <2>2 DEF a, One
  <2>3. CASE ~h.phyEngine
    <3>1. a = SupplyOff(h, "phyPwr")
      BY <2>3 DEF a
    <3> QED
      BY <2>1, <2>3, <3>1, SupplyOffKeeps DEF One
  <2> QED
    BY <2>2, <2>3
<1>4. /\ b.power = h.power /\ Others(b) = Others(h)
      /\ b.sup["phyDigital"].ref = 0 /\ ~b.sup["phyDigital"].on
      /\ \A t \in Supply \ {"phyDigital"} : b.sup[t] = a.sup[t]
  <2>1. a.sup["phyDigital"].ref = 1 /\ "phyDigital" \in Supply
    BY <1>1, <1>3 DEF Supplied, One
  <2> QED
    BY <1>2, <1>3, <2>1, SupplyOffKeeps DEF b
<1>5. PhyPowerOff(h) = [b EXCEPT !.phyPower = FALSE]
  BY DEF PhyPowerOff, a, b
<1>6. /\ Typed(PhyPowerOff(h)) /\ ~PhyPowerOff(h).phyPower /\ PhyPowerOff(h).sup = b.sup
      /\ PhyPowerOff(h).power = b.power
  BY <1>2, <1>5 DEF Typed
<1>7. Others(PhyPowerOff(h)) = Others(b)
  BY <1>2, <1>5 DEF Typed, Others, Life
<1>8. Supplied(PhyPowerOff(h))
  <2>1. PhyPowerOff(h).host = h.host /\ PhyPowerOff(h).phyEngine = h.phyEngine
    BY <1>4, <1>7 DEF Others, Life
  <2> QED
    BY <1>1, <1>3, <1>4, <1>6, <2>1 DEF Supplied, One
<1> QED
  BY <1>4, <1>6, <1>7, <1>8

\* The controller gives back what it holds.
LEMMA CtrlPowerOffKeeps ==
  ASSUME NEW h, Typed(h), Supplied(h), h.power, ~h.vid, NEW r \in CtrlPowerOff(h)
  PROVE  /\ Outcome(r) /\ r.ok /\ r.hit = {}
         /\ Typed(r.h) /\ Supplied(r.h) /\ ~r.h.power /\ ~r.h.lanes
         /\ r.h.phyPower = h.phyPower
         /\ Life(r.h) = Life(h) /\ r.h.vote = h.vote /\ r.h.core = h.core
         /\ r.h.link = h.link /\ r.h.phyEngine = h.phyEngine /\ r.h.idle = h.idle
         /\ r.h.clamp = h.clamp /\ r.h.ulps = h.ulps
<1> DEFINE a == SupplyOff(h, "digital")
           b == IF h.host THEN a ELSE SupplyOff(a, "hostPwr")
<1> HIDE DEF a, b
<1>1. {"digital", "hostPwr", "phyPwr", "phyDigital", "panelPwr"} = Supply
  BY DEF Supply
<1>2. Typed(a) /\ Typed(b)
  BY <1>1, SupplyOffKeeps DEF a, b
<1>3. /\ a.phyPower = h.phyPower /\ Others(a) = Others(h)
      /\ a.sup["digital"].ref = 0 /\ ~a.sup["digital"].on
      /\ \A t \in Supply \ {"digital"} : a.sup[t] = h.sup[t]
  <2>1. h.sup["digital"].ref = 1 /\ "digital" \in Supply
    BY <1>1 DEF Supplied, One
  <2> QED
    BY <2>1, SupplyOffKeeps DEF a
<1>4. /\ b.phyPower = h.phyPower /\ Others(b) = Others(h)
      /\ b.sup["hostPwr"].ref = One(h.host) /\ (b.sup["hostPwr"].on <=> h.host)
      /\ \A t \in Supply \ {"hostPwr"} : b.sup[t] = a.sup[t]
  <2>1. a.sup["hostPwr"].ref = 1 /\ a.sup["hostPwr"].on /\ "hostPwr" \in Supply
    BY <1>1, <1>3 DEF Supplied, One
  <2>2. CASE h.host
    BY <1>3, <2>1, <2>2 DEF b, One
  <2>3. CASE ~h.host
    <3>1. b = SupplyOff(a, "hostPwr")
      BY <2>3 DEF b
    <3> QED
      BY <1>2, <1>3, <2>1, <2>3, <3>1, SupplyOffKeeps DEF One
  <2> QED
    BY <2>2, <2>3
<1>5. CtrlSuppliesOff(h) = b
  BY DEF CtrlSuppliesOff, a, b
<1>6. r = Good([b EXCEPT !.power = FALSE, !.lanes = FALSE])
  <2>1. Allowed(h, "power", FALSE)
    BY DEF Allowed
  <2> QED
    BY <1>5, <2>1 DEF CtrlPowerOff
<1>7. Outcome(r) /\ r.ok /\ r.hit = {} /\ r.h = [b EXCEPT !.power = FALSE, !.lanes = FALSE]
  BY <1>6, GoodIs
<1>8. /\ Typed(r.h) /\ ~r.h.power /\ ~r.h.lanes /\ r.h.sup = b.sup
      /\ r.h.phyPower = b.phyPower
  <2> DEFINE c == [b EXCEPT !.power = FALSE]
  <2>1. Typed(c) /\ c.sup = b.sup /\ c.phyPower = b.phyPower /\ ~c.power
    BY <1>2 DEF Typed
  <2>2. r.h = [c EXCEPT !.lanes = FALSE]
    BY <1>7
  <2> HIDE DEF c
  <2>3. Typed(r.h)
    BY <2>1, <2>2 DEF Typed
  <2> QED
    BY <2>1, <2>2, <2>3 DEF Typed
<1>9. /\ Life(r.h) = Life(b) /\ r.h.vote = b.vote /\ r.h.core = b.core
      /\ r.h.link = b.link /\ r.h.phyEngine = b.phyEngine /\ r.h.idle = b.idle
      /\ r.h.clamp = b.clamp /\ r.h.ulps = b.ulps
  BY <1>2, <1>7 DEF Typed, Life
<1>10. /\ Life(b) = Life(h) /\ b.vote = h.vote /\ b.core = h.core
       /\ b.link = h.link /\ b.phyEngine = h.phyEngine /\ b.idle = h.idle
       /\ b.clamp = h.clamp /\ b.ulps = h.ulps
  BY <1>4 DEF Others
<1>11. Supplied(r.h)
  <2>1. r.h.host = h.host /\ r.h.phyEngine = h.phyEngine
    BY <1>9, <1>10 DEF Life
  <2> QED
    BY <1>1, <1>3, <1>4, <1>8, <2>1 DEF Supplied, One
<1> QED
  BY <1>4, <1>7, <1>8, <1>9, <1>10, <1>11

\* The core clocks stop: the panel is parked, PHY and controller go off.
LEMMA CoreDownKeeps ==
  ASSUME NEW h, Coherent(h), h.core, ~h.link, ~h.vid, NEW r \in CoreDown(h)
  PROVE  /\ Outcome(r)
         /\ Sound(r) => /\ r.ok /\ Coherent(r.h) /\ ~r.h.core /\ ~r.h.link
                        /\ Life(r.h) = Life(h) /\ r.h.vote = h.vote
                        /\ PhyStays(h, r.h)
<1> DEFINE park == h.init \/ h.panel.ulpsSuspend
           before == IF park THEN {Good(Clamp(PhyIdleOff(h), TRUE))}
                     ELSE Ignored(SetUlps(h, FALSE))
           After(g) == {[q EXCEPT !.h.core = FALSE] : q \in CtrlPowerOff(PhyPowerOff(g))}
<1> HIDE DEF park, before, After
<1>1. r \in Then(before, After)
  BY DEF CoreDown, park, before, After
<1>2. PICK x \in before :
        \/ ~x.ok /\ r = x
        \/ x.ok /\ \E y \in After(x.h) : r = [y EXCEPT !.hit = @ \cup x.hit]
  BY <1>1 DEF Then
<1>3. Typed(h) /\ Supplied(h) /\ Powered(h) /\ Parked(h)
  BY DEF Coherent
\* Whatever happened on the way, the panel is asleep behind its clamps or awake.
<1>4. /\ Outcome(x) /\ x.ok /\ Typed(x.h) /\ Supplied(x.h)
      /\ Life(x.h) = Life(h) /\ x.h.vote = h.vote /\ x.h.power = h.power
      /\ x.h.phyPower = h.phyPower /\ x.h.core = h.core /\ x.h.link = h.link
      /\ x.h.phyEngine => h.phyEngine
      /\ Sound(x) => /\ x.h.ulps => x.h.clamp /\ h.ulps
                     /\ x.h.clamp \/ x.h.idle => park
  <2>1. CASE park
    <3> DEFINE k == PhyIdleOff(h)
    <3>1. /\ Typed(k) /\ Life(k) = Life(h) /\ k.vote = h.vote /\ k.power = h.power
          /\ k.phyPower = h.phyPower /\ k.core = h.core /\ k.link = h.link /\ k.sup = h.sup
          /\ k.ulps = h.ulps /\ (k.phyEngine => h.phyEngine)
      <4>1. CASE h.panel.idleOff
        <5>1. k = [h EXCEPT !.phyEngine = FALSE, !.idle = TRUE]
          BY <4>1 DEF PhyIdleOff
        <5>2. Typed(k)
          BY <1>3, <5>1 DEF Typed
        <5>3. Life(k) = Life(h)
          BY <1>3, <5>1 DEF Typed, Life
        <5> QED
          BY <1>3, <5>1, <5>2, <5>3 DEF Typed
      <4>2. CASE ~h.panel.idleOff
        BY <1>3, <4>2 DEF PhyIdleOff
      <4> QED
        BY <4>1, <4>2
    <3> HIDE DEF k
    <3>2. x = Good([k EXCEPT !.clamp = TRUE])
      BY <1>2, <2>1 DEF before, k, Clamp
    <3>3. Outcome(x) /\ x.ok /\ x.h = [k EXCEPT !.clamp = TRUE]
      BY <3>2, GoodIs
    <3>4. /\ Typed(x.h) /\ Life(x.h) = Life(k) /\ x.h.vote = k.vote /\ x.h.power = k.power
          /\ x.h.phyPower = k.phyPower /\ x.h.core = k.core /\ x.h.link = k.link
          /\ x.h.sup = k.sup /\ x.h.ulps = k.ulps /\ x.h.phyEngine = k.phyEngine
          /\ x.h.clamp
      BY <3>1, <3>3 DEF Typed, Life
    <3>5. x.h.host = h.host
      BY <3>1, <3>4 DEF Life
    <3>6. Supplied(x.h)
      BY <1>3, <3>1, <3>4, <3>5 DEF Supplied, Powered, One
    <3> QED
      BY <2>1, <3>1, <3>3, <3>4, <3>6
  <2>2. CASE ~park
    <3>1. PICK z \in SetUlps(h, FALSE) : x = [z EXCEPT !.ok = TRUE]
      BY <1>2, <2>2 DEF before, Ignored
    <3>2. /\ Outcome(z) /\ Awake(h, z.h) /\ z.h.phyEngine = h.phyEngine
          /\ z.h.idle = h.idle /\ z.h.clamp = h.clamp
          /\ (Sound(z) => /\ UlpsWanted(h, FALSE) => z.h.ulps = FALSE
                          /\ ~UlpsWanted(h, FALSE) => z.h = h)
      BY <1>3, <3>1, SetUlpsGives
    <3>3. Outcome(x) /\ x.ok /\ x.h = z.h /\ (Sound(x) => Sound(z))
      BY <3>1, <3>2, IgnoredGives
    <3>4. ~h.ulps /\ ~h.clamp /\ ~h.idle
      BY <1>3, <2>2 DEF Parked, park
    <3>5. /\ Life(z.h) = Life(h) /\ z.h.sup = h.sup /\ z.h.power = h.power
          /\ z.h.phyPower = h.phyPower /\ z.h.core = h.core /\ z.h.vote = h.vote
          /\ Typed(z.h) /\ z.h.link = h.link
      BY <3>2 DEF Awake, Base
    <3>6. z.h.host = h.host
      BY <3>5 DEF Life
    <3>7. Supplied(z.h)
      BY <1>3, <3>2, <3>5, <3>6 DEF Supplied
    <3>8. Sound(z) => ~z.h.ulps
      BY <3>2, <3>4
    <3> QED
      BY <3>2, <3>3, <3>4, <3>5, <3>7, <3>8
  <2> QED
    BY <2>1, <2>2
<1> DEFINE p == PhyPowerOff(x.h)
<1> HIDE DEF p
<1>5. /\ Typed(p) /\ Supplied(p) /\ ~p.phyPower /\ p.power /\ Others(p) = Others(x.h)
  BY <1>3, <1>4, PhyPowerOffKeeps DEF Powered, p
<1>6. PICK y \in After(x.h) : r = [y EXCEPT !.hit = @ \cup x.hit]
  BY <1>2, <1>4
<1>7. PICK q \in CtrlPowerOff(p) : y = [q EXCEPT !.h.core = FALSE]
  BY <1>6 DEF After, p
<1>8. ~p.vid
  BY <1>4, <1>5 DEF Others, Life
<1>9. /\ Outcome(q) /\ q.ok /\ q.hit = {}
      /\ Typed(q.h) /\ Supplied(q.h) /\ ~q.h.power /\ ~q.h.lanes
      /\ q.h.phyPower = p.phyPower
      /\ Life(q.h) = Life(p) /\ q.h.vote = p.vote
      /\ q.h.link = p.link /\ q.h.phyEngine = p.phyEngine /\ q.h.idle = p.idle
      /\ q.h.clamp = p.clamp /\ q.h.ulps = p.ulps
  BY <1>5, <1>8, CtrlPowerOffKeeps
<1>10. Outcome(y) /\ y.ok /\ y.h = [q.h EXCEPT !.core = FALSE]
  BY <1>7, <1>9 DEF Outcome
<1>11. Outcome(r) /\ r.ok /\ r.h = [q.h EXCEPT !.core = FALSE] /\ (Sound(r) => Sound(x))
  BY <1>6, <1>10, Follows
<1> DEFINE g == q.h
<1> HIDE DEF g
<1>12. /\ Typed(g) /\ Supplied(g) /\ ~g.power /\ ~g.lanes /\ ~g.phyPower
       /\ Life(g) = Life(h) /\ g.vote = h.vote /\ ~g.link
       /\ g.phyEngine = x.h.phyEngine /\ g.idle = x.h.idle /\ g.clamp = x.h.clamp
       /\ g.ulps = x.h.ulps /\ r.h = [g EXCEPT !.core = FALSE]
  BY <1>4, <1>5, <1>9, <1>11 DEF Others, g
<1>13. /\ Typed(r.h) /\ ~r.h.core /\ ~r.h.power /\ ~r.h.lanes /\ ~r.h.phyPower
       /\ r.h.vote = h.vote /\ ~r.h.link /\ r.h.phyEngine = g.phyEngine
       /\ r.h.idle = g.idle /\ r.h.clamp = g.clamp /\ r.h.ulps = g.ulps
       /\ r.h.sup = g.sup
  BY <1>12 DEF Typed
<1>14. Life(r.h) = Life(h)
  BY <1>12 DEF Typed, Life
<1>15. /\ r.h.host = h.host /\ r.h.esd = h.esd /\ r.h.panel = h.panel /\ r.h.init = h.init
       /\ g.host = h.host
  BY <1>12, <1>14 DEF Life
<1>16. Supplied(r.h)
  BY <1>12, <1>13, <1>15 DEF Supplied
<1>17. Powered(r.h)
  BY <1>13 DEF Powered, Typed
<1>18. ASSUME Sound(r) PROVE Parked(r.h)
  BY <1>3, <1>4, <1>11, <1>12, <1>13, <1>15, <1>18 DEF Parked, park
<1> QED
  BY <1>4, <1>11, <1>12, <1>13, <1>14, <1>16, <1>17, <1>18 DEF Coherent, PhyStays

-----------------------------------------------------------------------------
(* Every outcome is one, of the calls a clock request is made of.          *)

\* A sequence of calls has an outcome if its calls have.
LEMMA ThenOutcome ==
  ASSUME NEW A, \A x \in A : Outcome(x),
         NEW r, \E x \in A : \/ ~x.ok /\ r = x
                             \/ x.ok /\ \E y : Outcome(y) /\ r = [y EXCEPT !.hit = @ \cup x.hit]
  PROVE  Outcome(r)
BY Follows

\* Starting the core clocks returns, or records what failed.
LEMMA CoreUpOutcome ==
  ASSUME NEW h
  PROVE  \A r \in CoreUp(h) : Outcome(r)
<1> DEFINE DoneC(g) == {Good([g EXCEPT !.power = TRUE])}
           DoneP(g) == {Good([g EXCEPT !.phyPower = TRUE])}
           Run(g) == {Good([g EXCEPT !.core = TRUE])}
           Digital(g) ==
             {IF r1.ok THEN r1 ELSE [r1 EXCEPT !.h = SupplyOff(@, "hostPwr")]
                : r1 \in SupplyOn(g, "digital")}
           Pwr(g) ==
             IF g.phyEngine THEN {Good(g)}
             ELSE {IF p.ok THEN p ELSE [p EXCEPT !.h = SupplyOff(@, "phyDigital")]
                     : p \in SupplyOn(g, "phyPwr")}
           first(g) == IF g.host THEN {Good(g)} ELSE SupplyOn(g, "hostPwr")
<1>1. /\ \A g : \A y \in DoneC(g) : Outcome(y)
      /\ \A g : \A y \in DoneP(g) : Outcome(y)
      /\ \A g : \A y \in Run(g) : Outcome(y)
  BY GoodIs
<1>2. ASSUME NEW g, NEW y \in Digital(g) PROVE Outcome(y)
  <2>1. PICK p \in SupplyOn(g, "digital") : y = Undone(p, "hostPwr")
    BY <1>2 DEF Undone
  <2> QED
    BY <2>1, SupplyOnGives, UndoneOutcome
<1>3. ASSUME NEW g, NEW y \in Pwr(g) PROVE Outcome(y)
  <2>1. CASE g.phyEngine
    BY <1>3, <2>1, GoodIs
  <2>2. CASE ~g.phyEngine
    <3>1. PICK p \in SupplyOn(g, "phyPwr") : y = Undone(p, "phyDigital")
      BY <1>3, <2>2 DEF Undone
    <3> QED
      BY <3>1, SupplyOnGives, UndoneOutcome
  <2> QED
    BY <2>1, <2>2
<1>4. \A g : \A y \in first(g) : Outcome(y)
  BY GoodIs, SupplyOnGives
<1>5. \A g : \A y \in SupplyOn(g, "phyDigital") : Outcome(y)
  BY SupplyOnGives
<1> HIDE DEF DoneC, DoneP, Run, Digital, Pwr, first
<1>6. ASSUME NEW g, NEW y \in CtrlSuppliesOn(g) PROVE Outcome(y)
  <2>1. y \in Then(first(g), Digital)
    BY <1>6 DEF CtrlSuppliesOn, first, Digital
  <2> QED
    BY <2>1, <1>2, <1>4, ThenOutcome DEF Then
<1>7. ASSUME NEW g, NEW y \in CtrlPowerOn(g) PROVE Outcome(y)
  <2>1. y \in Then(CtrlSuppliesOn(g), DoneC) \/ y = Refused(g)
    BY <1>7 DEF CtrlPowerOn, DoneC
  <2>2. CASE y = Refused(g)
    BY <2>2, FailedIs
  <2>3. CASE y \in Then(CtrlSuppliesOn(g), DoneC)
    BY <2>3, <1>1, <1>6, ThenOutcome DEF Then
  <2> QED
    BY <2>1, <2>2, <2>3
<1>8. ASSUME NEW g, NEW y \in Then(SupplyOn(g, "phyDigital"), Pwr) PROVE Outcome(y)
  BY <1>8, <1>3, <1>5, ThenOutcome DEF Then
<1>9. ASSUME NEW g, NEW y \in PhyPowerOn(g) PROVE Outcome(y)
  <2>1. y \in Then(Then(SupplyOn(g, "phyDigital"), Pwr), DoneP) \/ y = Good(g)
    BY <1>9 DEF PhyPowerOn, DoneP, Pwr
  <2>2. CASE y \in Then(Then(SupplyOn(g, "phyDigital"), Pwr), DoneP)
    <3> DEFINE both == Then(SupplyOn(g, "phyDigital"), Pwr)
    <3>1. \A x \in both : Outcome(x)
      BY <1>8
    <3> HIDE DEF both
    <3>2. y \in Then(both, DoneP)
      BY <2>2 DEF both
    <3> QED
      BY <3>1, <3>2, <1>1, ThenOutcome DEF Then
  <2> QED
    BY <2>1, <2>2, GoodIs
<1>10. ASSUME NEW y \in Then(CtrlPowerOn(h), PhyPowerOn) PROVE Outcome(y)
  BY <1>10, <1>7, <1>9, ThenOutcome DEF Then
<1>11. ASSUME NEW y \in CoreUp(h) PROVE Outcome(y)
  <2>1. y \in Then(Then(CtrlPowerOn(h), PhyPowerOn), Run)
    BY <1>11 DEF CoreUp, Run
  <2> QED
    <3> DEFINE both == Then(CtrlPowerOn(h), PhyPowerOn)
    <3>1. \A x \in both : Outcome(x)
      BY <1>10
    <3> HIDE DEF both
    <3>2. y \in Then(both, Run)
      BY <2>1 DEF both
    <3> QED
      BY <3>1, <3>2, <1>1, ThenOutcome DEF Then
<1> QED
  BY <1>11

\* A ULPS request returns, or records that the lanes failed.
LEMMA SetUlpsOutcome ==
  ASSUME NEW h, NEW on
  PROVE  \A r \in SetUlps(h, on) : Outcome(r)
<1> DEFINE Flag(g) == {Good([g EXCEPT !.ulps = on])}
<1>1. \A g : \A y \in Flag(g) : Outcome(y)
  BY GoodIs
<1> HIDE DEF Flag
<1>2. ASSUME NEW y \in LanesUlps(h, on) PROVE Outcome(y)
  <2>1. y = Good([h EXCEPT !.lanes = on]) \/ y = Failed(h, "ulps")
    BY <1>2 DEF LanesUlps
  <2> QED
    BY <2>1, GoodIs, FailedIs
<1>3. ASSUME NEW r \in SetUlps(h, on) PROVE Outcome(r)
  <2>1. r \in Then(LanesUlps(h, on), Flag) \/ r = Good(h)
    BY <1>3 DEF SetUlps, Flag
  <2>2. CASE r \in Then(LanesUlps(h, on), Flag)
    BY <2>2, <1>1, <1>2, ThenOutcome DEF Then
  <2> QED
    BY <2>1, <2>2, GoodIs
<1> QED
  BY <1>3

\* Starting the link clocks returns, or records what failed.
LEMMA LinkUpOutcome ==
  ASSUME NEW h
  PROVE  \A r \in LinkUp(h) : Outcome(r)
<1> DEFINE Unclamp(g) == {Good(Clamp(g, FALSE))}
           Run(g) == {Good([g EXCEPT !.link = TRUE])}
           t1 == {Good(h), Failed(h, "link")}
           t2 == Then(t1, PhyIdleOn)
           t3 == Then(t2, Reenter)
           t4 == Then(t3, Unclamp)
           t5 == Then(t4, Leave)
<1>1. /\ \A g : \A y \in Unclamp(g) : Outcome(y)
      /\ \A g : \A y \in Run(g) : Outcome(y)
  BY GoodIs
<1>2. \A y \in t1 : Outcome(y)
  BY GoodIs, FailedIs
<1>3. ASSUME NEW g, NEW y \in PhyIdleOn(g) PROVE Outcome(y)
  <2>1. \/ y = Good([g EXCEPT !.phyEngine = TRUE, !.idle = FALSE])
        \/ y = Good(g)
        \/ y = [Good([g EXCEPT !.phyEngine = TRUE]) EXCEPT !.ok = TRUE]
        \/ y = [Failed(g, "phy") EXCEPT !.ok = TRUE]
    BY <1>3 DEF PhyIdleOn, PhyEngineOn, Ignored
  <2> QED
    BY <2>1, GoodIs DEF Outcome, Good, Failed
<1>4. \A g : \A y \in Reenter(g) : Outcome(y)
  BY SetUlpsOutcome, GoodIs DEF Reenter
<1>5. \A g : \A y \in Leave(g) : Outcome(y)
  BY SetUlpsOutcome, GoodIs DEF Leave
<1> HIDE DEF Unclamp, Run, t1
<1>6. \A y \in t2 : Outcome(y)
  BY <1>2, <1>3, ThenOutcome DEF Then
<1> HIDE DEF t2
<1>7. \A y \in t3 : Outcome(y)
  BY <1>4, <1>6, ThenOutcome DEF Then
<1> HIDE DEF t3
<1>8. \A y \in t4 : Outcome(y)
  BY <1>1, <1>7, ThenOutcome DEF Then
<1> HIDE DEF t4
<1>9. \A y \in t5 : Outcome(y)
  BY <1>5, <1>8, ThenOutcome DEF Then
<1> HIDE DEF t5
<1>10. \A y \in Then(t5, Run) : Outcome(y)
  BY <1>1, <1>9, ThenOutcome DEF Then
<1> QED
  BY <1>10 DEF LinkUp, t5, t4, t3, t2, t1, Reenter, Leave, Unclamp, Run

\* Stopping the link clocks returns.
LEMMA LinkDownOutcome ==
  ASSUME NEW h
  PROVE  \A r \in LinkDown(h) : Outcome(r) /\ r.ok
<1> DEFINE enter == IF h.init THEN h.panel.ulps ELSE h.panel.ulpsSuspend
<1> SUFFICES ASSUME NEW r \in LinkDown(h) PROVE Outcome(r) /\ r.ok
    OBVIOUS
<1>1. PICK q \in Ignored(IF enter THEN SetUlps(h, TRUE) ELSE {Good(h)}) :
         r = [q EXCEPT !.h.link = FALSE]
  BY DEF LinkDown
<1>2. PICK x \in (IF enter THEN SetUlps(h, TRUE) ELSE {Good(h)}) : q = [x EXCEPT !.ok = TRUE]
  BY <1>1 DEF Ignored
<1>3. Outcome(x)
  BY <1>2, SetUlpsOutcome, GoodIs
<1>4. Outcome(q) /\ q.ok
  BY <1>2, <1>3, IgnoredGives
<1> QED
  BY <1>1, <1>4 DEF Outcome

\* Stopping the core clocks returns.
LEMMA CoreDownOutcome ==
  ASSUME NEW h
  PROVE  \A r \in CoreDown(h) : Outcome(r)
<1> DEFINE before == IF h.init \/ h.panel.ulpsSuspend
                       THEN {Good(Clamp(PhyIdleOff(h), TRUE))}
                       ELSE Ignored(SetUlps(h, FALSE))
           After(g) == {[q EXCEPT !.h.core = FALSE] : q \in CtrlPowerOff(PhyPowerOff(g))}
<1>1. ASSUME NEW y \in before PROVE Outcome(y)
  <2>1. CASE h.init \/ h.panel.ulpsSuspend
    BY <1>1, <2>1, GoodIs
  <2>2. CASE ~(h.init \/ h.panel.ulpsSuspend)
    <3>1. PICK z \in SetUlps(h, FALSE) : y = [z EXCEPT !.ok = TRUE]
      BY <1>1, <2>2 DEF Ignored
    <3> QED
      BY <3>1, SetUlpsOutcome, IgnoredGives
  <2> QED
    BY <2>1, <2>2
<1>2. ASSUME NEW g, NEW y \in After(g) PROVE Outcome(y)
  <2>1. PICK q \in CtrlPowerOff(PhyPowerOff(g)) : y = [q EXCEPT !.h.core = FALSE]
    BY <1>2
  <2>2. PICK k : q = Good(k) \/ q = Refused(k)
    BY <2>1 DEF CtrlPowerOff
  <2>3. Outcome(Good(k)) /\ Outcome(Refused(k))
    BY GoodIs DEF Refused, Outcome
  <2>4. Outcome(q)
    BY <2>2, <2>3
  <2> QED
    BY <2>1, <2>4 DEF Outcome
<1> HIDE DEF before, After
<1>3. \A y \in Then(before, After) : Outcome(y)
  BY <1>1, <1>2, ThenOutcome DEF Then
<1> QED
  BY <1>3 DEF CoreDown, before, After

-----------------------------------------------------------------------------
(* Clock requests.                                                         *)

LinkStep(g) == CASE Voted(g, "link") /\ ~g.link -> LinkUp(g)
                 [] ~Voted(g, "link") /\ g.link -> LinkDown(g)
                 [] OTHER -> {Good(g)}
CoreStep(g) == IF ~Voted(g, "core") /\ g.core THEN CoreDown(g) ELSE {Good(g)}

\* Each part of a request returns.
LEMMA StepOutcomes ==
  ASSUME NEW g
  PROVE  /\ \A y \in LinkStep(g) : Outcome(y)
         /\ \A y \in CoreStep(g) : Outcome(y)
<1>1. ASSUME NEW y \in LinkStep(g) PROVE Outcome(y)
  <2>1. y \in LinkUp(g) \/ y \in LinkDown(g) \/ y = Good(g)
    BY <1>1 DEF LinkStep
  <2> QED
    BY <2>1, LinkUpOutcome, LinkDownOutcome, GoodIs
<1>2. ASSUME NEW y \in CoreStep(g) PROVE Outcome(y)
  BY <1>2, CoreDownOutcome, GoodIs DEF CoreStep
<1> QED
  BY <1>1, <1>2

\* Clocks follow the votes, core before link on the way up and after it on the
\* way down, and the hardware stays coherent (dsi_recheck_clk_state).
THEOREM RecheckGives ==
  ASSUME NEW h, NEW r \in Recheck(h)
  PROVE  /\ Outcome(r)
         /\ (/\ Coherent(h) /\ Sound(r)
             /\ Voted(h, "link") => Voted(h, "core")
             /\ h.vid => Voted(h, "core"))
              => /\ r.ok /\ Coherent(r.h) /\ Clocked(r.h)
                 /\ Life(r.h) = Life(h) /\ r.h.vote = h.vote /\ PhyStays(h, r.h)
<1> DEFINE t1 == IF Voted(h, "core") /\ ~h.core THEN CoreUp(h) ELSE {Good(h)}
           t2 == Then(t1, LinkStep)
<1>1. \A y \in t1 : Outcome(y)
  BY CoreUpOutcome, GoodIs
<1> HIDE DEF t1
<1>2. \A y \in t2 : Outcome(y)
  BY <1>1, StepOutcomes, ThenOutcome DEF Then
<1> HIDE DEF t2
<1>3. r \in Then(t2, CoreStep)
  BY DEF Recheck, LinkStep, CoreStep, t1, t2
<1>4. PICK x2 \in t2 :
        \/ ~x2.ok /\ r = x2
        \/ x2.ok /\ \E y \in CoreStep(x2.h) : r = [y EXCEPT !.hit = @ \cup x2.hit]
  BY <1>3 DEF Then
<1>5. PICK x1 \in t1 :
        \/ ~x1.ok /\ x2 = x1
        \/ x1.ok /\ \E y \in LinkStep(x1.h) : x2 = [y EXCEPT !.hit = @ \cup x1.hit]
  BY <1>4 DEF Then, t2
<1>6. Outcome(x1) /\ Outcome(x2)
  BY <1>1, <1>2
<1>7. Outcome(r) /\ (Sound(r) => Sound(x2))
  BY <1>4, <1>6, StepOutcomes, Follows
<1>8. Sound(x2) => Sound(x1)
  BY <1>5, <1>6, StepOutcomes, Follows
<1>9. ASSUME Coherent(h), Sound(r), Voted(h, "link") => Voted(h, "core"),
             h.vid => Voted(h, "core")
      PROVE  /\ r.ok /\ Coherent(r.h) /\ Clocked(r.h)
             /\ Life(r.h) = Life(h) /\ r.h.vote = h.vote /\ PhyStays(h, r.h)
  <2>1. /\ x1.ok /\ Coherent(x1.h) /\ Life(x1.h) = Life(h) /\ x1.h.vote = h.vote
        /\ PhyStays(h, x1.h) /\ (Voted(h, "core") => x1.h.core) /\ x1.h.link = h.link
    <3>1. CASE Voted(h, "core") /\ ~h.core
      <4>1. x1 \in CoreUp(h)
        BY <3>1 DEF t1
      <4> QED
        BY <1>7, <1>8, <1>9, <3>1, <4>1, CoreUpKeeps
    <3>2. CASE ~(Voted(h, "core") /\ ~h.core)
      <4>1. x1 = Good(h)
        BY <3>2 DEF t1
      <4> QED
        BY <1>9, <3>2, <4>1, GoodIs DEF PhyStays
    <3> QED
      BY <3>1, <3>2
  <2>2. PICK y \in LinkStep(x1.h) : x2 = [y EXCEPT !.hit = @ \cup x1.hit]
    BY <1>5, <2>1
  <2>3. Outcome(y) /\ x2.h = y.h /\ x2.ok = y.ok /\ Sound(y)
    BY <1>7, <1>9, <2>2, StepOutcomes, Follows
  <2>4. \A k \in Clock : Voted(x1.h, k) <=> Voted(h, k)
    BY <2>1 DEF Voted
  <2>5. "core" \in Clock /\ "link" \in Clock
    BY DEF Clock
  <2>6. /\ y.ok /\ Coherent(y.h) /\ Life(y.h) = Life(h) /\ y.h.vote = h.vote
        /\ PhyStays(h, y.h) /\ (Voted(h, "core") => y.h.core)
        /\ y.h.link = Voted(h, "link")
    <3>1. x1.h.init = h.init /\ x1.h.panel = h.panel
      BY <2>1 DEF Life
    <3>2. Powered(x1.h) /\ x1.h.link \in BOOLEAN
      BY <2>1 DEF Coherent, Typed
    <3>3. CASE Voted(x1.h, "link") /\ ~x1.h.link
      <4>1. y \in LinkUp(x1.h) /\ x1.h.core
        BY <1>9, <2>1, <2>4, <2>5, <3>3 DEF LinkStep
      <4>2. /\ y.ok /\ Coherent(y.h) /\ y.h.core /\ y.h.link
            /\ Life(y.h) = Life(x1.h) /\ y.h.vote = x1.h.vote /\ PhyStays(x1.h, y.h)
        BY <2>1, <2>3, <3>3, <4>1, LinkUpKeeps
      <4>3. y.h.link \in BOOLEAN
        BY <4>2 DEF Coherent, Typed
      <4> QED
        BY <2>1, <2>4, <2>5, <3>1, <3>3, <4>2, <4>3 DEF PhyStays, Voted
    <3>4. CASE ~Voted(x1.h, "link") /\ x1.h.link
      <4>1. y \in LinkDown(x1.h)
        BY <3>4 DEF LinkStep
      <4>2. /\ y.ok /\ Coherent(y.h) /\ y.h.core /\ ~y.h.link
            /\ Life(y.h) = Life(x1.h) /\ y.h.vote = x1.h.vote /\ PhyStays(x1.h, y.h)
        BY <2>1, <2>3, <3>4, <4>1, LinkDownKeeps
      <4>3. y.h.link \in BOOLEAN
        BY <4>2 DEF Coherent, Typed
      <4> QED
        BY <2>1, <2>4, <2>5, <3>1, <3>4, <4>2, <4>3 DEF PhyStays, Voted
    <3>5. CASE /\ ~(Voted(x1.h, "link") /\ ~x1.h.link)
               /\ ~(~Voted(x1.h, "link") /\ x1.h.link)
      <4>1. y = Good(x1.h)
        BY <3>5 DEF LinkStep
      <4> QED
        BY <2>1, <2>4, <2>5, <3>2, <3>5, <4>1, GoodIs DEF Voted
    <3> QED
      BY <3>3, <3>4, <3>5
  <2>7. PICK z \in CoreStep(x2.h) : r = [z EXCEPT !.hit = @ \cup x2.hit]
    BY <1>4, <2>3, <2>6
  <2>8. Outcome(z) /\ r.h = z.h /\ r.ok = z.ok /\ Sound(z)
    BY <1>9, <2>7, StepOutcomes, Follows
  <2>9. \A k \in Clock : Voted(x2.h, k) <=> Voted(h, k)
    BY <2>3, <2>6 DEF Voted
  <2> DEFINE g == x2.h
  <2>10. /\ Coherent(g) /\ Life(g) = Life(h) /\ g.vote = h.vote /\ PhyStays(h, g)
         /\ (Voted(h, "core") => g.core) /\ g.link = Voted(h, "link")
         /\ (Voted(g, "core") <=> Voted(h, "core")) /\ g.link \in BOOLEAN /\ g.core \in BOOLEAN
    BY <2>3, <2>5, <2>6, <2>9 DEF Coherent, Typed
  <2> HIDE DEF g
  <2>11. CASE ~Voted(g, "core") /\ g.core
    <3>1. z \in CoreDown(g)
      BY <2>7, <2>11 DEF CoreStep, g
    <3>2. ~g.link /\ ~g.vid
      <4>1. g.vid = h.vid
        BY <2>10 DEF Life
      <4> QED
        BY <1>9, <2>10, <2>11, <4>1
    <3>3. /\ z.ok /\ Coherent(z.h) /\ ~z.h.core /\ ~z.h.link
          /\ Life(z.h) = Life(g) /\ z.h.vote = g.vote /\ PhyStays(g, z.h)
      BY <2>8, <2>10, <2>11, <3>1, <3>2, CoreDownKeeps
    <3>4. z.h.core = Voted(z.h, "core") /\ z.h.link = Voted(z.h, "link")
      BY <1>9, <2>10, <2>11, <3>2, <3>3 DEF Voted, Coherent, Typed
    <3>5. PhyStays(h, z.h)
      BY <2>10, <3>3 DEF PhyStays, Life
    <3> QED
      BY <2>8, <2>10, <3>3, <3>4, <3>5 DEF Clocked
  <2>12. CASE ~(~Voted(g, "core") /\ g.core)
    <3>1. z = Good(g)
      BY <2>7, <2>12 DEF CoreStep, g
    <3>2. g.core = Voted(g, "core") /\ g.link = Voted(g, "link")
      BY <2>10, <2>12 DEF Voted
    <3> QED
      BY <2>8, <2>10, <3>1, <3>2, GoodIs DEF Clocked
  <2> QED
    BY <2>11, <2>12
<1> QED
  BY <1>7, <1>9

\* The votes a request leaves.
NewVotes(h, c, ks, on) ==
    [h.vote EXCEPT ![c] =
        [k \in Clock |-> IF k \notin ks THEN h.vote[c][k]
                         ELSE IF on THEN h.vote[c][k] + 1
                         ELSE IF h.vote[c][k] = 0 THEN 0 ELSE h.vote[c][k] - 1]]

\* The link clocks are not asked for without the core clocks, and a video
\* engine has its core clocks.
Sensible(h, vote) ==
    /\ (\E c \in Client : vote[c]["link"] > 0) => \E c \in Client : vote[c]["core"] > 0
    /\ h.vid => \E c \in Client : vote[c]["core"] > 0

\* A request with sensible votes succeeds and leaves clocks that match them.
LEMMA RequestGives ==
  ASSUME NEW h, NEW c \in Client, NEW ks \in SUBSET Clock, NEW on \in BOOLEAN,
         NEW r \in Request(h, c, ks, on)
  PROVE  /\ Outcome(r)
         /\ (/\ Coherent(h) /\ Clocked(h) /\ Sound(r)
             /\ Sensible(h, NewVotes(h, c, ks, on)))
              => /\ r.ok /\ Coherent(r.h) /\ Clocked(r.h)
                 /\ Life(r.h) = Life(h) /\ PhyStays(h, r.h)
                 /\ r.h.vote = NewVotes(h, c, ks, on)
<1> DEFINE new == [k \in Clock |->
                     IF k \notin ks THEN h.vote[c][k]
                     ELSE IF on THEN h.vote[c][k] + 1
                     ELSE IF h.vote[c][k] = 0 THEN 0 ELSE h.vote[c][k] - 1]
           g == [h EXCEPT !.vote[c] = new]
           turns == \E k \in ks : (new[k] > 0) # (h.vote[c][k] > 0)
<1>1. r \in (IF turns THEN Recheck(g) ELSE {Good(g)})
  BY DEF Request
<1>2. NewVotes(h, c, ks, on) = [h.vote EXCEPT ![c] = new]
  BY DEF NewVotes
<1>3. ~turns => \A k \in ks : (new[k] > 0) = (h.vote[c][k] > 0)
  OBVIOUS
<1>4. \A k \in Clock \ ks : new[k] = h.vote[c][k]
  OBVIOUS
<1>5. Typed(h) => new \in [Clock -> Nat]
  BY DEF Typed, Votes
<1> HIDE DEF new, turns
<1>6. Outcome(r)
  BY <1>1, RecheckGives, GoodIs
<1>7. ASSUME Coherent(h), Clocked(h), Sound(r), Sensible(h, NewVotes(h, c, ks, on))
      PROVE  /\ r.ok /\ Coherent(r.h) /\ Clocked(r.h)
             /\ Life(r.h) = Life(h) /\ PhyStays(h, r.h)
             /\ r.h.vote = NewVotes(h, c, ks, on)
  <2>1. Typed(h) /\ Supplied(h) /\ Powered(h) /\ Parked(h)
    BY <1>7 DEF Coherent
  <2>2. g = [h EXCEPT !.vote = [h.vote EXCEPT ![c] = new]]
    OBVIOUS
  <2>3. [h.vote EXCEPT ![c] = new] \in Votes
    BY <1>5, <2>1 DEF Typed, Votes
  <2>4. Typed(g) /\ g.vote = [h.vote EXCEPT ![c] = new]
    BY <2>1, <2>2, <2>3 DEF Typed
  <2>5. /\ Life(g) = Life(h) /\ g.sup = h.sup /\ g.power = h.power /\ g.core = h.core
        /\ g.phyPower = h.phyPower /\ g.link = h.link
    BY <2>1, <2>2 DEF Typed, Life
  <2>6. /\ g.phyEngine = h.phyEngine /\ g.idle = h.idle /\ g.clamp = h.clamp
        /\ g.ulps = h.ulps /\ g.lanes = h.lanes
    BY <2>1, <2>2 DEF Typed
  <2>7. /\ g.host = h.host /\ g.esd = h.esd /\ g.panel = h.panel /\ g.init = h.init
        /\ g.vid = h.vid
    BY <2>5 DEF Life
  <2> HIDE DEF g
  <2>8. Coherent(g)
    BY <2>1, <2>4, <2>5, <2>6, <2>7 DEF Coherent, Supplied, Powered, Parked
  <2>9. PhyStays(h, g)
    BY <2>6 DEF PhyStays
  <2>10. CASE turns
    <3>1. r \in Recheck(g)
      BY <1>1, <2>10
    <3>2. (Voted(g, "link") => Voted(g, "core")) /\ (g.vid => Voted(g, "core"))
      BY <1>2, <1>7, <2>4, <2>7 DEF Sensible, Voted
    <3>3. /\ r.ok /\ Coherent(r.h) /\ Clocked(r.h)
          /\ Life(r.h) = Life(g) /\ r.h.vote = g.vote /\ PhyStays(g, r.h)
      BY <1>7, <2>8, <3>1, <3>2, RecheckGives
    <3> QED
      BY <1>2, <2>4, <2>5, <2>6, <2>7, <3>3 DEF PhyStays
  <2>11. CASE ~turns
    <3>1. r = Good(g)
      BY <1>1, <2>11
    <3>2. \A k \in Clock : (new[k] > 0) = (h.vote[c][k] > 0)
      BY <1>3, <1>4, <2>11
    <3>3. \A k \in Clock : \A d \in Client : (g.vote[d][k] > 0) = (h.vote[d][k] > 0)
      BY <2>1, <2>4, <3>2 DEF Typed, Votes
    <3>4. Clocked(g)
      BY <1>7, <2>5, <3>3 DEF Clocked, Voted, Clock
    <3> QED
      BY <1>2, <2>4, <2>5, <2>8, <2>9, <3>1, <3>4, GoodIs
  <2> QED
    BY <2>10, <2>11
<1> QED
  BY <1>6, <1>7

\* The same, for either kind of request.
LEMMA RequestsGive ==
  ASSUME NEW h, NEW c \in Client, NEW ks \in SUBSET Clock, Coherent(h), Clocked(h)
  PROVE  \A on \in BOOLEAN : \A r \in Request(h, c, ks, on) :
           Sound(r) /\ Sensible(h, NewVotes(h, c, ks, on)) =>
             /\ r.ok /\ Coherent(r.h) /\ Clocked(r.h)
             /\ Life(r.h) = Life(h) /\ PhyStays(h, r.h)
             /\ r.h.vote = NewVotes(h, c, ks, on)
BY RequestGives

-----------------------------------------------------------------------------
(* The command engine and the transfers.                                   *)

\* The engine runs exactly while it is counted.
Counted(h) == h.cmd <=> h.cmdRef > 0

\* The engine is counted once more, and runs.
Engaged(h) == [[h EXCEPT !.cmd = TRUE] EXCEPT !.cmdRef = h.cmdRef + 1]

\* One user more for the command engine; undone, it was never there.
LEMMA EngagedGives ==
  ASSUME NEW h, Typed(h), Counted(h)
  PROVE  /\ Typed(Engaged(h)) /\ Counted(Engaged(h))
         /\ Engaged(h).cmd = TRUE /\ Engaged(h).cmdRef = h.cmdRef + 1
         /\ Engaged(h).power = h.power /\ Engaged(h).host = h.host
         /\ Engaged(h).engine = h.engine
         /\ h.cmdRef > 0 => /\ Engaged(h) = [h EXCEPT !.cmdRef = h.cmdRef + 1]
                            /\ [Engaged(h) EXCEPT !.cmdRef = h.cmdRef] = h
         /\ h.cmdRef = 0 => [[Engaged(h) EXCEPT !.cmdRef = 0] EXCEPT !.cmd = FALSE] = h
<1> DEFINE k == [h EXCEPT !.cmd = TRUE]
<1>1. /\ Typed(k) /\ k.cmd = TRUE /\ k.cmdRef = h.cmdRef
      /\ k.power = h.power /\ k.host = h.host /\ k.engine = h.engine
  BY DEF Typed
<1>2. h.cmdRef > 0 => k = h
  BY DEF Typed, Counted
<1>3. Engaged(h) = [k EXCEPT !.cmdRef = h.cmdRef + 1]
  BY DEF Engaged
<1>4. h.cmdRef \in Nat /\ h.cmd \in BOOLEAN
  BY DEF Typed
<1>5. h.cmdRef = 0 => h.cmd = FALSE
  BY <1>4 DEF Counted
<1>6. h.cmdRef = 0 => [[[k EXCEPT !.cmdRef = h.cmdRef + 1] EXCEPT !.cmdRef = 0]
                          EXCEPT !.cmd = FALSE] = h
  BY <1>5 DEF Typed
<1>9. h.cmdRef = 0 => [[Engaged(h) EXCEPT !.cmdRef = 0] EXCEPT !.cmd = FALSE] = h
  BY <1>6 DEF Engaged
<1> HIDE DEF k
<1>7. /\ Typed(Engaged(h)) /\ Engaged(h).cmd = TRUE /\ Engaged(h).cmdRef = h.cmdRef + 1
      /\ Engaged(h).power = h.power /\ Engaged(h).host = h.host
      /\ Engaged(h).engine = h.engine
  BY <1>1, <1>3 DEF Typed
<1>8. h.cmdRef > 0 => [[h EXCEPT !.cmdRef = h.cmdRef + 1] EXCEPT !.cmdRef = h.cmdRef] = h
  BY DEF Typed
<1> QED
  <2>1. Counted(Engaged(h))
    BY <1>4, <1>7 DEF Counted
  <2>2. ASSUME h.cmdRef > 0
        PROVE  /\ Engaged(h) = [h EXCEPT !.cmdRef = h.cmdRef + 1]
               /\ [Engaged(h) EXCEPT !.cmdRef = h.cmdRef] = h
    <3>1. Engaged(h) = [h EXCEPT !.cmdRef = h.cmdRef + 1]
      BY <1>2, <1>3, <2>2
    <3> QED
      BY <1>8, <2>2, <3>1
  <2> QED
    BY <1>7, <1>9, <2>1, <2>2

\* The command engine starts where controller and host engine run.
LEMMA CmdEngineOnGives ==
  ASSUME NEW h, Typed(h), Counted(h), NEW r \in CmdEngineOn(h)
  PROVE  /\ Outcome(r) /\ r.hit = {}
         /\ r.ok => r.h = Engaged(h)
         /\ r.ok => h.cmdRef > 0 \/ (h.power /\ h.engine)
         /\ ~r.ok => r.h = h /\ h.cmdRef = 0 /\ ~(h.power /\ h.engine)
<1>1. CASE h.cmdRef > 0
  <2>1. r = Good([h EXCEPT !.cmdRef = h.cmdRef + 1])
    BY <1>1 DEF CmdEngineOn
  <2>2. r = Good(Engaged(h))
    BY <1>1, <2>1, EngagedGives
  <2> QED
    BY <1>1, <2>2, GoodIs
<1>2. CASE ~(h.cmdRef > 0)
  <2> DEFINE One1(g) == {Good([g EXCEPT !.cmdRef = 1])}
  <2> HIDE DEF One1
  <2>1. r \in Then(CmdEngine(h, TRUE), One1)
    BY <1>2 DEF CmdEngineOn, One1
  <2>2. PICK x \in CmdEngine(h, TRUE) :
          \/ ~x.ok /\ r = x
          \/ x.ok /\ r = [Good([x.h EXCEPT !.cmdRef = 1]) EXCEPT !.hit = @ \cup x.hit]
    BY <2>1 DEF Then, One1
  <2>3. h.cmdRef = 0 /\ ~h.cmd
    BY <1>2 DEF Typed, Counted
  <2>4. Allowed(h, "cmd", TRUE) = (h.power /\ h.engine)
    BY <2>3 DEF Allowed, Typed
  <2>5. CASE h.power /\ h.engine
    <3>1. x = Good([h EXCEPT !.cmd = TRUE])
      BY <2>2, <2>4, <2>5 DEF CmdEngine
    <3>2. x.ok /\ x.hit = {} /\ x.h = [h EXCEPT !.cmd = TRUE]
      BY <3>1, GoodIs
    <3>3. r = Good([x.h EXCEPT !.cmdRef = 1])
      BY <2>2, <3>2, GoodFollows
    <3>4. [x.h EXCEPT !.cmdRef = 1] = Engaged(h)
      BY <2>3, <3>2 DEF Engaged
    <3>5. r = Good(Engaged(h))
      BY <3>3, <3>4
    <3> QED
      BY <2>5, <3>5, GoodIs
  <2>6. CASE ~(h.power /\ h.engine)
    <3>1. x = Refused(h)
      BY <2>2, <2>4, <2>6 DEF CmdEngine
    <3>2. ~x.ok
      BY <3>1, FailedIs
    <3>3. r = Refused(h)
      BY <2>2, <3>1, <3>2
    <3> QED
      BY <2>3, <2>6, <3>3, FailedIs
  <2> QED
    BY <2>5, <2>6
<1> QED
  BY <1>1, <1>2

\* The command engine stops with its last user.
LEMMA CmdEngineOffGives ==
  ASSUME NEW h, Typed(h), Counted(h), NEW r \in CmdEngineOff(h)
  PROVE  /\ Outcome(r) /\ r.hit = {}
         /\ h.cmdRef = 0 => r.h = h
         /\ h.cmdRef > 1 => r.h = [h EXCEPT !.cmdRef = h.cmdRef - 1]
         /\ h.cmdRef = 1 /\ h.power /\ h.engine =>
              r.h = [[h EXCEPT !.cmdRef = 0] EXCEPT !.cmd = FALSE]
<1>1. CASE h.cmdRef = 0
  <2>1. r = Good(h)
    BY <1>1 DEF CmdEngineOff
  <2> QED
    BY <1>1, <2>1, GoodIs
<1>0. h.cmdRef \in Nat
  BY DEF Typed
<1>2. CASE h.cmdRef > 1
  <2>0. h.cmdRef # 0 /\ h.cmdRef # 1
    BY <1>0, <1>2
  <2>1. r = Good([h EXCEPT !.cmdRef = h.cmdRef - 1])
    BY <1>2, <2>0 DEF CmdEngineOff
  <2> QED
    BY <1>2, <2>1, GoodIs
<1>3. CASE h.cmdRef = 1
  <2> DEFINE g == [h EXCEPT !.cmdRef = 0]
  <2>0. h.cmdRef # 0 /\ ~(h.cmdRef > 1)
    BY <1>3
  <2>1. r \in CmdEngine(g, FALSE)
    BY <1>3, <2>0 DEF CmdEngineOff
  <2>2. g.cmd = TRUE /\ g.power = h.power /\ g.engine = h.engine
    BY <1>3 DEF Typed, Counted
  <2> HIDE DEF g
  <2>3. r \in (IF h.power /\ h.engine THEN {Good([g EXCEPT !.cmd = FALSE])} ELSE {Refused(g)})
    BY <2>1, <2>2 DEF CmdEngine, Allowed
  <2>4. CASE h.power /\ h.engine
    <3>1. r = Good([g EXCEPT !.cmd = FALSE])
      BY <2>3, <2>4
    <3> QED
      BY <1>3, <3>1, GoodIs DEF g
  <2>5. CASE ~(h.power /\ h.engine)
    <3>1. r = Refused(g)
      BY <2>3, <2>5
    <3> QED
      BY <1>3, <2>5, <3>1, FailedIs
  <2> QED
    BY <2>4, <2>5
<1> QED
  BY <1>1, <1>2, <1>3 DEF Typed

\* One transfer: the engine, the command, the engine.
Send(g) == IF Allowed(g, "transfer", TRUE)
             THEN {Good(g), Failed(g, "command")} ELSE {Refused(g)}
Sent(g) ==
    {r \in CmdEngineOn(g) : ~r.ok}
      \cup UNION {{[q EXCEPT !.ok = r.ok, !.hit = @ \cup r.hit] : q \in CmdEngineOff(r.h)}
                    : r \in Then(CmdEngineOn(g), Send)}

\* Whatever became of the command, the engine is as it was.
LEMMA SentGives ==
  ASSUME NEW h, Typed(h), Counted(h), h.power, NEW u \in Sent(h)
  PROVE  /\ Outcome(u) /\ u.h = h
         /\ h.host /\ h.engine => u.ok \/ u.hit # {}
<1>1. CASE u \in CmdEngineOn(h) /\ ~u.ok
  BY <1>1, CmdEngineOnGives
<1>2. CASE ~(u \in CmdEngineOn(h) /\ ~u.ok)
  <2>1. PICK s \in Then(CmdEngineOn(h), Send) : \E q \in CmdEngineOff(s.h) :
           u = [q EXCEPT !.ok = s.ok, !.hit = @ \cup s.hit]
    BY <1>2 DEF Sent
  <2>2. PICK q \in CmdEngineOff(s.h) : u = [q EXCEPT !.ok = s.ok, !.hit = @ \cup s.hit]
    BY <2>1
  <2>3. PICK x \in CmdEngineOn(h) :
          \/ ~x.ok /\ s = x
          \/ x.ok /\ \E y \in Send(x.h) : s = [y EXCEPT !.hit = @ \cup x.hit]
    BY <2>1 DEF Then
  <2>4. CASE ~x.ok
    <3>1. s.h = h /\ s.ok \in BOOLEAN /\ h.cmdRef = 0 /\ ~(h.power /\ h.engine)
      BY <2>3, <2>4, CmdEngineOnGives DEF Outcome
    <3>2. Outcome(q) /\ q.h = h
      BY <3>1, <2>2, CmdEngineOffGives
    <3> QED
      BY <2>2, <3>1, <3>2 DEF Outcome
  <2>5. CASE x.ok
    <3>1. /\ Outcome(x) /\ x.hit = {} /\ x.h = Engaged(h)
          /\ h.cmdRef > 0 \/ h.engine
      BY <2>5, CmdEngineOnGives
    <3> DEFINE g == x.h
    <3>2. h.cmdRef \in Nat
      BY DEF Typed
    <3>3. /\ Typed(g) /\ Counted(g) /\ g.cmd /\ g.cmdRef = h.cmdRef + 1
          /\ g.power = h.power /\ g.host = h.host /\ g.engine = h.engine
      <4>1. /\ Typed(Engaged(h)) /\ Counted(Engaged(h))
            /\ Engaged(h).cmd /\ Engaged(h).cmdRef = h.cmdRef + 1
            /\ Engaged(h).power = h.power /\ Engaged(h).host = h.host
            /\ Engaged(h).engine = h.engine
        BY EngagedGives
      <4> QED
        BY <3>1, <4>1
    <3>5. PICK y \in Send(g) : s = [y EXCEPT !.hit = @ \cup x.hit]
      BY <2>3, <2>5
    <3>6. y \in {Good(g), Failed(g, "command"), Refused(g)}
      BY <3>5 DEF Send
    <3>7. h.host => y \in {Good(g), Failed(g, "command")}
      BY <3>3, <3>5 DEF Send, Allowed
    <3>8. /\ Outcome(y) /\ y.h = g
          /\ h.host => y.ok \/ y.hit = {"command"}
      BY <3>6, <3>7, GoodIs, FailedIs
    <3>9. /\ Outcome(s) /\ s.h = g /\ s.ok = y.ok /\ s.hit = y.hit \cup x.hit
      BY <3>1, <3>5, <3>8, Follows
    <3>10. Outcome(q) /\ q.h = h
      <4>1. q \in CmdEngineOff(g)
        BY <2>2, <3>9
      <4> HIDE DEF g
      <4>2. CASE h.cmdRef > 0
        <5>1. g.cmdRef > 1 /\ g.cmdRef - 1 = h.cmdRef
          BY <3>2, <3>3, <4>2
        <5>2. Outcome(q) /\ q.h = [g EXCEPT !.cmdRef = g.cmdRef - 1]
          BY <3>3, <4>1, <5>1, CmdEngineOffGives
        <5>3. [g EXCEPT !.cmdRef = h.cmdRef] = h
          BY <3>1, <4>2, EngagedGives DEF g
        <5> QED
          BY <5>1, <5>2, <5>3
      <4>3. CASE ~(h.cmdRef > 0)
        <5>1. h.cmdRef = 0 /\ h.engine /\ g.cmdRef = 1
          BY <3>1, <3>2, <3>3, <4>3
        <5>2. Outcome(q) /\ q.h = [[g EXCEPT !.cmdRef = 0] EXCEPT !.cmd = FALSE]
          BY <3>3, <4>1, <5>1, CmdEngineOffGives
        <5>3. [[g EXCEPT !.cmdRef = 0] EXCEPT !.cmd = FALSE] = h
          BY <3>1, <5>1, EngagedGives DEF g
        <5> QED
          BY <5>2, <5>3
      <4> QED
        BY <4>2, <4>3
    <3>11. u.h = q.h /\ u.ok = s.ok /\ u.hit = q.hit \cup s.hit /\ Outcome(u)
      BY <2>2, <3>9, <3>10 DEF Outcome
    <3> QED
      BY <3>8, <3>9, <3>10, <3>11
  <2> QED
    BY <2>4, <2>5
<1> QED
  BY <1>1, <1>2

\* An outcome but for its verdict, which may be that of another call.
Shape(r) == r = [h |-> r.h, ok |-> r.ok, hit |-> r.hit]

\* An outcome that follows another has the shape of an outcome.
LEMMA ShapeFollows ==
  ASSUME NEW x, NEW y, Shape(y), NEW r, r = [y EXCEPT !.hit = @ \cup x.hit]
  PROVE  /\ Shape(r) /\ r.h = y.h /\ r.ok = y.ok /\ r.hit = y.hit \cup x.hit
         /\ Sound(r) => Sound(x) /\ Sound(y)
         /\ Outcome(y) => Outcome(r)
BY DEF Shape, Outcome, Sound

\* A request for all clocks by the driver, and its opposite.
LEMMA RoundTrip ==
  ASSUME NEW h, h.vote \in Votes, NEW v, v = NewVotes(h, "dsi", Clock, TRUE)
  PROVE  /\ Sensible(h, v)
         /\ v["dsi"]["core"] > 0
         /\ \A g : g.vote = v => NewVotes(g, "dsi", Clock, FALSE) = h.vote
<1>1. "dsi" \in Client /\ {"core", "link"} \subseteq Clock
  BY DEF Client, Clock
<1>2. /\ v \in Votes
      /\ \A k \in Clock : v["dsi"][k] = h.vote["dsi"][k] + 1
      /\ \A c \in Client \ {"dsi"} : v[c] = h.vote[c]
  BY <1>1 DEF NewVotes, Votes
<1>0. \A n \in Nat : n + 1 > 0 /\ n + 1 # 0 /\ (n + 1) - 1 = n
  OBVIOUS
<1>3. v["dsi"]["core"] > 0
  <2>1. h.vote["dsi"]["core"] \in Nat
    BY <1>1 DEF Votes
  <2>2. v["dsi"]["core"] = h.vote["dsi"]["core"] + 1
    BY <1>1, <1>2
  <2> QED
    BY <1>0, <2>1, <2>2, Zenon
<1>4. Sensible(h, v)
  BY <1>1, <1>3 DEF Sensible
<1>5. ASSUME NEW g, g.vote = v
      PROVE  NewVotes(g, "dsi", Clock, FALSE) = h.vote
  <2>1. \A k \in Clock : /\ v["dsi"][k] # 0 /\ v["dsi"][k] - 1 = h.vote["dsi"][k]
    <3> TAKE k \in Clock
    <3>1. v["dsi"][k] = h.vote["dsi"][k] + 1
      BY <1>2
    <3>2. h.vote["dsi"][k] \in Nat
      BY <1>1 DEF Votes
    <3> QED
      BY <1>0, <3>1, <3>2, Zenon
  <2>2. [k \in Clock |-> IF v["dsi"][k] = 0 THEN 0 ELSE v["dsi"][k] - 1] = h.vote["dsi"]
    BY <1>1, <2>1 DEF Votes
  <2>3. [v EXCEPT !["dsi"] = h.vote["dsi"]] = h.vote
    BY <1>1, <1>2 DEF Votes
  <2>4. NewVotes(g, "dsi", Clock, FALSE) =
          [v EXCEPT !["dsi"] = [k \in Clock |-> IF v["dsi"][k] = 0 THEN 0
                                                ELSE v["dsi"][k] - 1]]
    BY <1>5 DEF NewVotes
  <2> QED
    BY <2>2, <2>3, <2>4
<1> QED
  BY <1>3, <1>4, <1>5

\* A command leaves the hardware as it found it, and only a failure of a call
\* or an engine that is off keeps it from being sent.
THEOREM TransferGives ==
  ASSUME NEW h, NEW r \in Transfer(h)
  PROVE  /\ Shape(r)
         /\ h.esd => r = Good(h)
         /\ (Coherent(h) /\ Clocked(h) /\ Counted(h) /\ Sensible(h, h.vote) /\ Sound(r)) =>
              /\ Outcome(r)
              /\ Coherent(r.h) /\ Clocked(r.h) /\ Life(r.h) = Life(h)
              /\ PhyStays(h, r.h) /\ r.h.vote = h.vote
              /\ h.host /\ h.engine => r.ok \/ r.hit # {}
<1> DEFINE Engine(g) == UNION {{[q EXCEPT !.ok = u.ok, !.hit = @ \cup u.hit] :
                                  q \in Request(u.h, "dsi", Clock, FALSE)} : u \in Sent(g)}
<1>1. r \in (IF h.esd THEN {Good(h)} ELSE Then(Request(h, "dsi", Clock, TRUE), Engine))
  BY DEF Transfer, Sent, Send, Engine
<1> HIDE DEF Engine
<1>2. CASE h.esd
  <2>1. r = Good(h)
    BY <1>1, <1>2
  <2> QED
    BY <1>2, <2>1, GoodIs DEF PhyStays, Outcome, Shape
<1>3. CASE ~h.esd
  <2>1. PICK x \in Request(h, "dsi", Clock, TRUE) :
          \/ ~x.ok /\ r = x
          \/ x.ok /\ \E y \in Engine(x.h) : r = [y EXCEPT !.hit = @ \cup x.hit]
    BY <1>1, <1>3 DEF Then
  <2>2. "dsi" \in Client /\ Clock \in SUBSET Clock /\ {"core", "link"} \subseteq Clock
    BY DEF Client, Clock
  <2>3. Outcome(x)
    BY <2>2, RequestGives
  <2> DEFINE v == NewVotes(h, "dsi", Clock, TRUE)
  <2>4. ASSUME Coherent(h), Clocked(h), Sound(x)
        PROVE  /\ x.ok /\ Coherent(x.h) /\ Clocked(x.h)
               /\ Life(x.h) = Life(h) /\ PhyStays(h, x.h) /\ x.h.vote = v
    <3>1. h.vote \in Votes
      BY <2>4 DEF Coherent, Typed
    <3>2. Sensible(h, v)
      BY <3>1, RoundTrip
    <3> QED
      BY <2>2, <2>4, <3>2, RequestGives
  <2> HIDE DEF v
  <2>5. CASE ~x.ok
    <3>1. r = x
      BY <2>1, <2>5
    <3> QED
      BY <1>3, <2>3, <2>4, <2>5, <3>1 DEF Shape, Outcome
  <2>6. CASE x.ok
    <3> DEFINE g == x.h
    <3>1. PICK y \in Engine(g) : r = [y EXCEPT !.hit = @ \cup x.hit]
      BY <2>1, <2>6
    <3>2. PICK u \in Sent(g) : \E q \in Request(u.h, "dsi", Clock, FALSE) :
            y = [q EXCEPT !.ok = u.ok, !.hit = @ \cup u.hit]
      BY <3>1 DEF Engine
    <3>3. PICK q \in Request(u.h, "dsi", Clock, FALSE) :
            y = [q EXCEPT !.ok = u.ok, !.hit = @ \cup u.hit]
      BY <3>2
    <3>4. Outcome(q)
      BY <2>2, RequestGives
    <3>5. Shape(y) /\ y.h = q.h /\ y.ok = u.ok /\ y.hit = q.hit \cup u.hit
      BY <3>3, <3>4 DEF Outcome, Shape
    <3>6. /\ Shape(r) /\ r.h = y.h /\ r.ok = y.ok /\ r.hit = y.hit \cup x.hit
          /\ Sound(r) => Sound(y) /\ Sound(x)
      BY <3>1, <3>5, ShapeFollows
    <3>7. ASSUME Coherent(h), Clocked(h), Counted(h), Sensible(h, h.vote), Sound(r)
          PROVE  /\ Outcome(r)
                 /\ Coherent(r.h) /\ Clocked(r.h) /\ Life(r.h) = Life(h)
                 /\ PhyStays(h, r.h) /\ r.h.vote = h.vote
                 /\ h.host /\ h.engine => r.ok \/ r.hit # {}
      <4>1. Coherent(g) /\ Clocked(g) /\ Life(g) = Life(h) /\ PhyStays(h, g) /\ g.vote = v
        BY <2>4, <3>6, <3>7
      <4>2. /\ g.host = h.host /\ g.engine = h.engine /\ g.vid = h.vid
            /\ g.init = h.init /\ g.panel = h.panel
            /\ g.cmd = h.cmd /\ g.cmdRef = h.cmdRef
        BY <4>1 DEF Life
      <4>3. /\ v["dsi"]["core"] > 0
            /\ NewVotes(g, "dsi", Clock, FALSE) = h.vote
        <5>1. h.vote \in Votes
          BY <3>7 DEF Coherent, Typed
        <5> QED
          BY <4>1, <5>1, RoundTrip DEF v
      <4>4. g.power
        BY <2>2, <4>1, <4>3 DEF Coherent, Powered, Clocked, Voted
      <4>5. Counted(g) /\ Typed(g)
        BY <3>7, <4>1, <4>2 DEF Counted, Coherent
      <4> HIDE DEF g
      <4>6. Outcome(u) /\ u.h = g /\ (g.host /\ g.engine => u.ok \/ u.hit # {})
        BY <4>4, <4>5, SentGives
      <4>7. Sound(q)
        BY <3>5, <3>6, <3>7 DEF Sound
      <4>8. Sensible(g, h.vote)
        BY <3>7, <4>2 DEF Sensible
      <4>9. /\ Coherent(q.h) /\ Clocked(q.h) /\ Life(q.h) = Life(g)
            /\ PhyStays(g, q.h) /\ q.h.vote = h.vote
        <5>1. q \in Request(g, "dsi", Clock, FALSE)
          BY <3>3, <4>6
        <5>2. Sensible(g, NewVotes(g, "dsi", Clock, FALSE))
          BY <4>3, <4>8
        <5>3. /\ Coherent(q.h) /\ Clocked(q.h) /\ Life(q.h) = Life(g)
              /\ PhyStays(g, q.h) /\ q.h.vote = NewVotes(g, "dsi", Clock, FALSE)
          <6>1. "dsi" \in Client /\ Clock \in SUBSET Clock
            BY <2>2
          <6>2. Coherent(g) /\ Clocked(g)
            BY <4>1
          <6> QED
            BY <4>7, <5>1, <5>2, <6>1, <6>2, RequestsGive
        <5> QED
          BY <4>3, <5>3
      <4>10. PhyStays(h, q.h)
        BY <4>1, <4>2, <4>9 DEF PhyStays
      <4>11. Outcome(r)
        BY <3>5, <3>6, <4>6 DEF Outcome, Shape
      <4>12. h.host /\ h.engine => r.ok \/ r.hit # {}
        BY <3>5, <3>6, <4>2, <4>6
      <4> QED
        BY <3>5, <3>6, <4>1, <4>9, <4>10, <4>11, <4>12
    <3> QED
      BY <1>3, <3>6, <3>7
  <2> QED
    BY <2>5, <2>6
<1> QED
  BY <1>2, <1>3

=============================================================================
