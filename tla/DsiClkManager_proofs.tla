------------------------ MODULE DsiClkManager_proofs ------------------------
(***************************************************************************)
(* Proofs about DsiClkManager, for any clients, controllers and bounds.    *)
(***************************************************************************)
EXTENDS DsiClkManager, TLAPS

\* What the transition at pc is about; without it TypeOK is not inductive
\* ("same" could be assigned to a manager state).
WantOK ==
    /\ pc \in {"preOn", "coreOn"} => want["core"] = "ON"
    /\ pc \in {"lpOn", "hsOn"} => want["link"] = "ON"
    /\ pc \in {"ecgOn", "hsOff", "lpOff", "ecgOff"} => want["link"] \in {"OFF", "EARLY_GATE"}
    /\ pc \in {"ecgCoreOn", "coreOff"} => want["core"] \in {"OFF", "EARLY_GATE"}

TypeInv == TypeOK /\ WantOK

-----------------------------------------------------------------------------
(* The operators.                                                          *)

\* Bump yields counts again.
LEMMA BumpType ==
    ASSUME NEW e \in [Kind -> [Ctrl -> Int]], NEW K, NEW i \in Ctrl, NEW n \in Int
    PROVE  Bump(e, K, i, n) \in [Kind -> [Ctrl -> Int]]
BY DEF Bump

\* A count that a request is allowed to change stays within its bound.
LEMMA NewRefType ==
    ASSUME NEW r \in 0..MaxRef, NEW s, s = "ON" => r < MaxRef
    PROVE  NewRef(r, s) \in 0..MaxRef
BY BoundsAssumption DEF NewRef

LEMMA NewVoteType ==
    ASSUME NEW r, NEW v \in ClkState, NEW s \in ClkState
    PROVE  NewVote(r, v, s) \in ClkState
BY DEF NewVote, ClkState

\* The manager is asked for states of its domains.
LEMMA WantedType ==
    ASSUME NEW v, NEW list PROVE Wanted(v, list) \in [Domain -> ClkState \cup {"same"}]
BY DEF Wanted, Aggregate, ClkState

\* CorePart starts work on the core clocks only when they are to stop.
LEMMA CorePartType ==
    ASSUME NEW w \in [Domain -> ClkState \cup {"same"}], NEW core, NEW lc
    PROVE  /\ CorePart(w, core, lc) \in {"ret", "ecgCoreOn", "coreOff"}
           /\ CorePart(w, core, lc) # "ret" => w["core"] \in {"OFF", "EARLY_GATE"}
BY DEF CorePart, ClkState, Domain

\* LinkPart starts work on the domain whose change it finds first.
LEMMA LinkPartType ==
    ASSUME NEW w \in [Domain -> ClkState \cup {"same"}], NEW core
    PROVE  /\ LinkPart(w, core) \in {"ret", "ecgCoreOn", "coreOff", "lpOn", "ecgOn", "hsOff"}
           /\ LinkPart(w, core) \in {"ecgCoreOn", "coreOff"}
                => w["core"] \in {"OFF", "EARLY_GATE"}
           /\ LinkPart(w, core) = "lpOn" => w["link"] = "ON"
           /\ LinkPart(w, core) \in {"ecgOn", "hsOff"}
                => w["link"] \in {"OFF", "EARLY_GATE"}
<1>1. w["link"] \in ClkState \cup {"same"}
  BY DEF Domain
<1>2. CASE w["link"] = "same"
  <2>1. LinkPart(w, core) = CorePart(w, core, FALSE)
    BY <1>2 DEF LinkPart
  <2>. QED BY <2>1, CorePartType
<1>3. CASE w["link"] # "same"
  BY <1>1, <1>3 DEF LinkPart, ClkState
<1>. QED BY <1>2, <1>3

LEMMA FirstPartType ==
    ASSUME NEW w \in [Domain -> ClkState \cup {"same"}]
    PROVE  /\ FirstPart(w) \in {"ret", "preOn", "coreOn", "ecgCoreOn", "coreOff",
                                "lpOn", "ecgOn", "hsOff"}
           /\ FirstPart(w) \in {"preOn", "coreOn"} => w["core"] = "ON"
           /\ FirstPart(w) \in {"ecgCoreOn", "coreOff"}
                => w["core"] \in {"OFF", "EARLY_GATE"}
           /\ FirstPart(w) = "lpOn" => w["link"] = "ON"
           /\ FirstPart(w) \in {"ecgOn", "hsOff"}
                => w["link"] \in {"OFF", "EARLY_GATE"}
<1>1. CASE w["core"] # "ON"
  <2>1. FirstPart(w) = LinkPart(w, mgr["core"])
    BY <1>1 DEF FirstPart
  <2>. QED BY <2>1, LinkPartType
<1>2. CASE w["core"] = "ON"
  BY <1>2 DEF FirstPart
<1>. QED BY <1>1, <1>2

\* A recheck sets up a transition that WantOK describes.
LEMMA RecheckType ==
    ASSUME NEW o, NEW c, NEW v, NEW list, Recheck(o, c, v, list)
    PROVE  op' = o /\ by' = c /\ pc' \in Pc
             /\ want' \in [Domain -> ClkState \cup {"same"}] /\ WantOK'
<1>. DEFINE w == Wanted(v, list)
<1>1. w \in [Domain -> ClkState \cup {"same"}]
  BY WantedType
<1>2. op' = o /\ by' = c /\ want' = w /\ pc' = FirstPart(w)
  BY DEF Recheck
<1>. HIDE DEF w
<1>. QED BY <1>1, <1>2, FirstPartType DEF WantOK, Pc, CoreOnPc, CoreOffPc, LinkOnPc, LinkOffPc

-----------------------------------------------------------------------------
(* Type correctness.                                                       *)

\* Failures are counted within their bound.
LEMMA FailType ==
    ASSUME NEW f, Fail(f), faults \in 0..MaxFaults, failed \in SUBSET FaultPoint
    PROVE  rc' \in {0, -1} /\ faults' \in 0..MaxFaults /\ failed' \in SUBSET FaultPoint
BY BoundsAssumption, FaultsAssumption DEF Fail, CanFail

\* So are those that come in pairs, and a step that succeeds adds none.
LEMMA FailTwiceType ==
    ASSUME NEW f, NEW g, FailTwice(f, g), faults \in 0..MaxFaults, failed \in SUBSET FaultPoint
    PROVE  rc' \in {0, -1} /\ faults' \in 0..MaxFaults /\ failed' \in SUBSET FaultPoint
BY BoundsAssumption, FaultsAssumption DEF FailTwice

LEMMA SucceedType ==
    ASSUME Succeed, faults \in 0..MaxFaults, failed \in SUBSET FaultPoint
    PROVE  rc' \in {0, -1} /\ faults' \in 0..MaxFaults /\ failed' \in SUBSET FaultPoint
BY DEF Succeed, faultVars

\* A request the callers' nesting allows keeps the counts within MaxRef.
LEMMA ReqType ==
    ASSUME TypeOK, NEW c \in Client, NEW clk \in SUBSET Domain, NEW s \in ReqStates,
           Req(c, clk, s)
    PROVE  /\ ref' \in [Domain -> [Client -> 0..MaxRef]]
           /\ vote' \in [Domain -> [Client -> ClkState]]
<1>. USE BoundsAssumption DEF TypeOK
<1>1. s \in ClkState
  BY StatesAssumption
<1>2. ASSUME NEW d \in Domain
      PROVE  /\ d \in clk => NewRef(ref[d][c], s) \in 0..MaxRef
             /\ NewVote(ref[d][c], vote[d][c], s) \in ClkState
  <2>1. d \in clk /\ s = "ON" => ref[d][c] < MaxRef
    BY DEF Req, CallerNests
  <2>2. ref[d][c] \in 0..MaxRef /\ vote[d][c] \in ClkState
    OBVIOUS
  <2>3. d \in clk => NewRef(ref[d][c], s) \in 0..MaxRef
    BY <2>1, <2>2, NewRefType
  <2>4. NewVote(ref[d][c], vote[d][c], s) \in ClkState
    BY <1>1, <2>2, NewVoteType
  <2>. QED BY <2>3, <2>4
<1>3. ref' = [d \in Domain |-> IF d \in clk THEN [ref[d] EXCEPT ![c] = NewRef(@, s)]
                                             ELSE ref[d]]
  BY DEF Req
<1>4. vote' = [d \in Domain |-> IF d \in clk
                 THEN [vote[d] EXCEPT ![c] = NewVote(ref[d][c], @, s)] ELSE vote[d]]
  BY DEF Req
<1>5. ref' \in [Domain -> [Client -> 0..MaxRef]]
  BY <1>2, <1>3
<1>6. vote' \in [Domain -> [Client -> ClkState]]
  BY <1>2, <1>4
<1>. QED BY <1>5, <1>6

LEMMA TypeInvInit == Init => TypeInv
<1>. SUFFICES ASSUME Init PROVE TypeInv
  OBVIOUS
<1>1. /\ ref \in [Domain -> [Client -> 0..MaxRef]]
      /\ faults \in 0..MaxFaults
  BY BoundsAssumption DEF Init
<1>2. /\ vote \in [Domain -> [Client -> ClkState]]
      /\ mgr \in [Domain -> ClkState]
      /\ want \in [Domain -> ClkState \cup {"same"}]
      /\ en \in [Kind -> [Ctrl -> Int]]
  BY DEF Init, AllOff, NoWant, ClkState
<1>. QED BY <1>1, <1>2 DEF Init, TypeInv, TypeOK, WantOK, Pc

LEMMA TypeInvNext == TypeInv /\ [Next]_vars => TypeInv'
<1>. SUFFICES ASSUME TypeInv, [Next]_vars PROVE TypeInv'
  OBVIOUS
<1>t. TypeOK /\ WantOK
  BY DEF TypeInv
<1>c. Master \in Ctrl /\ faults \in 0..MaxFaults /\ failed \in SUBSET FaultPoint /\ en \in [Kind -> [Ctrl -> Int]]
  BY CtrlAssumption, <1>t DEF TypeOK
<1>e. en \in [Kind -> [Ctrl -> Int]]
  BY <1>c
<1>n. Master \in Ctrl
  BY <1>c
<1>. USE DEF voteVars, callVars, faultVars
<1>m. /\ mgr \in [Domain -> ClkState] /\ want \in [Domain -> ClkState \cup {"same"}]
      /\ "OFF" \in ClkState /\ "ON" \in ClkState /\ "EARLY_GATE" \in ClkState
      /\ "core" \in Domain /\ "link" \in Domain
  BY <1>t DEF ClkState, Domain, TypeOK
<1>p. ASSUME NEW core, NEW lc
      PROVE  /\ CorePart(want, core, lc) \in {"ret", "ecgCoreOn", "coreOff"}
             /\ CorePart(want, core, lc) # "ret" => want["core"] \in {"OFF", "EARLY_GATE"}
  BY <1>m, CorePartType
<1>1. CASE MngrRegister
  BY <1>1, <1>t, <1>c DEF TypeInv, TypeOK, WantOK, MngrRegister
<1>2. CASE MngrDeregister
  BY <1>2, <1>t, <1>c, RecheckType DEF TypeInv, TypeOK, WantOK, MngrDeregister
<1>3. ASSUME NEW c \in Client, Register(c) PROVE TypeInv'
  <2>1. ref' \in [Domain -> [Client -> 0..MaxRef]]
    BY <1>3, <1>t, BoundsAssumption DEF Register, TypeOK
  <2>2. vote' \in [Domain -> [Client -> ClkState]]
    BY <1>3, <1>t, <1>m DEF Register, TypeOK
  <2>. QED BY <1>3, <1>t, <2>1, <2>2 DEF TypeInv, TypeOK, WantOK, Register
<1>4. ASSUME NEW c \in Client, Deregister(c) PROVE TypeInv'
  <2>1. vote' \in [Domain -> [Client -> ClkState]]
    BY <1>4, <1>t, <1>m DEF Deregister, TypeOK
  <2>. QED BY <1>4, <1>t, <1>c, <2>1, RecheckType DEF TypeInv, TypeOK, WantOK, Deregister
<1>5. ASSUME NEW c \in Client, ForceUpdate(c) PROVE TypeInv'
  BY <1>5, <1>t, <1>c DEF TypeInv, TypeOK, WantOK, ForceUpdate, Pc, LinkOffPc
<1>6. ASSUME NEW c \in Client, NEW clk \in SUBSET Domain, NEW s \in ReqStates,
             Req(c, clk, s)
      PROVE  TypeInv'
  <2>1. /\ ref' \in [Domain -> [Client -> 0..MaxRef]]
        /\ vote' \in [Domain -> [Client -> ClkState]]
    BY <1>6, <1>t, ReqType
  <2>2. CASE Recheck("req", c, vote', clients)
    BY <1>6, <1>t, <1>c, <2>1, <2>2, RecheckType DEF TypeInv, TypeOK, WantOK, Req
  <2>3. CASE UNCHANGED <<pc, op, by, want>>
    BY <1>6, <1>t, <1>c, <2>1, <2>3 DEF TypeInv, TypeOK, WantOK, Req
  <2>. QED BY <1>6, <1>t, <1>c, <2>2, <2>3 DEF TypeInv, TypeOK, WantOK, Req
<1>7. CASE PreClkOn
  BY <1>7, <1>t, <1>c, SucceedType, FailType DEF TypeInv, TypeOK, WantOK, PreClkOn, Pc, CoreOnPc
<1>8. ASSUME NEW i \in Ctrl, CoreEnable(i) PROVE TypeInv'
  <2>1. en' \in [Kind -> [Ctrl -> Int]]
    <3>1. Bump(en, CoreKinds, i, 1) \in [Kind -> [Ctrl -> Int]]
      BY <1>e, <1>n, BumpType
    <3>2. Bump(en, CoreKinds, Master, -1) \in [Kind -> [Ctrl -> Int]]
      BY <1>e, <1>n, BumpType
    <3>3. Bump(en, {"power"}, Master, -1) \in [Kind -> [Ctrl -> Int]]
      BY <1>e, <1>n, BumpType
    <3>. QED BY <1>8, <1>c, <3>1, <3>2, <3>3 DEF CoreEnable
  <2>. QED BY <1>8, <1>t, <1>c, <2>1, SucceedType, FailType, FailTwiceType DEF TypeInv, TypeOK, WantOK, CoreEnable, Pc
<1>9. CASE CoreEnabled
  <2>1. CASE pc = "coreOn"
    BY <1>9, <1>t, <1>c, <2>1, <1>m, SucceedType, FailType, LinkPartType
       DEF TypeInv, TypeOK, WantOK, CoreEnabled, Pc, CoreOnPc, CoreOffPc, LinkOnPc, LinkOffPc
  <2>2. CASE pc # "coreOn"
    BY <1>9, <1>t, <1>c, <2>2, SucceedType
       DEF TypeInv, TypeOK, WantOK, CoreEnabled, Pc, CoreOnPc, CoreOffPc, LinkOnPc, LinkOffPc
  <2>. QED BY <2>1, <2>2
<1>10. ASSUME NEW i \in Ctrl, LinkEnable(i) PROVE TypeInv'
  <2>. DEFINE t == LinkType(pc)
              u == IF i # Master /\ t # {"LP", "HS"}
                     THEN Bump(en, LinkKinds(t), Master, -1) ELSE en
  <2>1. u \in [Kind -> [Ctrl -> Int]]
    BY <1>e, <1>n, BumpType
  <2>2. en' \in {u, Bump(en, LinkKinds(t), i, 1), Bump(u, {"escPrep"}, i, -1),
                 Bump(u, LpKinds, i, 1)}
    BY <1>10 DEF LinkEnable
  <2>. HIDE DEF t, u
  <2>3. en' \in [Kind -> [Ctrl -> Int]]
    <3>1. Bump(en, LinkKinds(t), i, 1) \in [Kind -> [Ctrl -> Int]]
      BY <1>e, <1>n, BumpType
    <3>2. Bump(u, {"escPrep"}, i, -1) \in [Kind -> [Ctrl -> Int]]
      BY <2>1, BumpType
    <3>3. Bump(u, LpKinds, i, 1) \in [Kind -> [Ctrl -> Int]]
      BY <2>1, BumpType
    <3>. QED BY <2>1, <2>2, <3>1, <3>2, <3>3
  <2>. QED BY <1>10, <1>t, <1>c, <2>3, SucceedType, FailType DEF TypeInv, TypeOK, WantOK, LinkEnable, Pc
<1>11. CASE LinkEnabled
  <2>1. mgr' \in [Domain -> ClkState]
    BY <1>11, <1>m DEF LinkEnabled
  <2>2. pc' \in Pc /\ WantOK'
    <3>1. want' = want /\ (pc' \in {"ret", "hsOn"} \/ pc' = CorePart(want, mgr["core"], FALSE))
      BY <1>11 DEF LinkEnabled
    <3>2. pc' = "hsOn" => pc = "lpOn" \/ pc' = CorePart(want, mgr["core"], FALSE)
      BY <1>11 DEF LinkEnabled
    <3>. QED BY <1>t, <1>p, <3>1, <3>2 DEF WantOK, Pc, CoreOnPc, CoreOffPc, LinkOnPc, LinkOffPc
  <2>. QED BY <1>11, <1>t, <1>c, <2>1, <2>2, SucceedType, FailType DEF TypeInv, TypeOK, LinkEnabled
<1>12. ASSUME NEW i \in Ctrl, LinkDisable(i) PROVE TypeInv'
  <2>1. Bump(en, LinkKinds(LinkType(pc)), i, -1) \in [Kind -> [Ctrl -> Int]]
    BY <1>e, <1>n, BumpType
  <2>. QED BY <1>12, <1>t, <1>c, <2>1, SucceedType DEF LinkDisable, TypeInv, TypeOK, WantOK
<1>13. CASE LinkDisabled
  <2>1. mgr' \in [Domain -> ClkState]
    BY <1>13, <1>t, <1>m DEF LinkDisabled, WantOK
  <2>2. pc' \in Pc /\ WantOK'
    BY <1>13, <1>t, <1>p DEF TypeOK, WantOK, LinkDisabled, Pc, CoreOnPc, CoreOffPc, LinkOnPc, LinkOffPc
  <2>. QED BY <1>13, <1>t, <1>c, <2>1, <2>2, SucceedType DEF TypeInv, TypeOK, LinkDisabled
<1>14. ASSUME NEW i \in Ctrl, CoreDisable(i) PROVE TypeInv'
  <2>1. en' \in [Kind -> [Ctrl -> Int]]
    <3>1. Bump(en, CoreKinds, i, -1) \in [Kind -> [Ctrl -> Int]]
      BY <1>e, <1>n, BumpType
    <3>2. Bump(en, {"core"}, i, -1) \in [Kind -> [Ctrl -> Int]]
      BY <1>e, <1>n, BumpType
    <3>. QED BY <1>14, <1>c, <3>1, <3>2 DEF CoreDisable
  <2>. QED BY <1>14, <1>t, <1>c, <2>1, SucceedType, FailType DEF TypeInv, TypeOK, WantOK, CoreDisable, Pc
<1>15. CASE CoreDisabled
  <2>1. mgr' \in [Domain -> ClkState]
    BY <1>15, <1>t, <1>m DEF CoreDisabled, WantOK
  <2>2. pc' \in Pc /\ WantOK'
    BY <1>15, <1>t, <1>p DEF TypeOK, WantOK, CoreDisabled, Pc, CoreOnPc, CoreOffPc, LinkOnPc, LinkOffPc
  <2>. QED BY <1>15, <1>t, <1>c, <2>1, <2>2, SucceedType, FailType DEF TypeInv, TypeOK, CoreDisabled
<1>16. CASE Return
  BY <1>16, <1>t, <1>c, <1>m DEF TypeInv, TypeOK, WantOK, Return, AllOff, NoWant, Pc
<1>17. CASE UNCHANGED vars
  BY <1>17, <1>t, <1>c DEF TypeInv, TypeOK, WantOK, vars
<1>. QED
  BY <1>1, <1>2, <1>3, <1>4, <1>5, <1>6, <1>7, <1>8, <1>9, <1>10, <1>11, <1>12,
     <1>13, <1>14, <1>15, <1>16, <1>17 DEF Next, Call, Step

\* Every variable keeps its type: in particular no count exceeds its bound and
\* "same" never becomes a state of the manager.
THEOREM TypeCorrect == Spec => []TypeOK
<1>1. Spec => []TypeInv
  BY TypeInvInit, TypeInvNext, PTL DEF Spec
<1>2. TypeInv => TypeOK
  BY DEF TypeInv
<1>. QED BY <1>1, <1>2, PTL

-----------------------------------------------------------------------------
(* Votes decide the state, and failures keep it from following only until  *)
(* a call succeeds.                                                         *)

Goal(d) == Aggregate(vote[d], clients)

\* The call under way wants each domain where the votes want it.
Wishes == \A d \in Domain : IF want[d] = "same" THEN mgr[d] = Goal(d) ELSE want[d] = Goal(d)

\* Both domains are there.
Reached == \A d \in Domain : mgr[d] = Goal(d)

\* The transition at pc has dealt with the domains before it.
VotesInv ==
    /\ op \notin {"none", "force"} => Wishes
    /\ pc \in {"idle", "ret", "forceOff", "forceOn"} /\ failed = {} => Reached
    /\ pc = "ret" /\ op # "force" /\ rc = 0 => Reached
    /\ pc \in {"coreOff", "ecgCoreOn"} => mgr["link"] = Goal("link")
    /\ pc \notin {"idle", "preOn", "coreOn", "ret"} => (want["core"] = "ON" => mgr["core"] = "ON")
    /\ pc \in {"idle", "forceOff", "forceOn"} => want = NoWant
    /\ op = "dereg" => \A d \in Domain : vote[d][by] = "OFF"
    /\ op = "destroy" => clients = {}
    /\ pc = "idle" => op = "none" /\ rc = 0
    /\ op = "none" => pc = "idle"
    /\ pc \in {"forceOff", "forceOn"} => op = "force"
    /\ op = "force" => pc \in {"forceOff", "forceOn", "ret"}

\* A client that votes OFF does not count.
LEMMA AggregateOff ==
    ASSUME NEW v, NEW c, v[c] = "OFF", NEW list
    PROVE  /\ Aggregate(v, list \cup {c}) = Aggregate(v, list)
           /\ Aggregate(v, list \ {c}) = Aggregate(v, list)
BY DEF Aggregate

\* Only the votes of the list count.
LEMMA AggregateSame ==
    ASSUME NEW v, NEW w, NEW list, \A c \in list : v[c] = w[c]
    PROVE  Aggregate(v, list) = Aggregate(w, list)
BY DEF Aggregate

LEMMA AggregateEmpty == ASSUME NEW v PROVE Aggregate(v, {}) = "OFF"
BY DEF Aggregate

LEMMA AggregateType == ASSUME NEW v, NEW list PROVE Aggregate(v, list) \in ClkState
BY DEF Aggregate, ClkState

\* A request that changes no vote changes no vote.
LEMMA UnchangedVote ==
    ASSUME NEW r, NEW v, NEW s, ~Changed(r, v, s)
    PROVE  NewVote(r, v, s) = v
BY DEF Changed, NewVote

\* CorePart is finished when the core clocks are where they are wanted.
LEMMA CorePartDone ==
    ASSUME NEW w \in [Domain -> ClkState \cup {"same"}], NEW core, NEW lc,
           CorePart(w, core, lc) = "ret"
    PROVE  w["core"] \in {"same", "ON"}
BY DEF CorePart

\* After a recheck of votes whose outcome is the next Goal the invariant holds.
LEMMA RecheckVotes ==
    ASSUME TypeOK, NEW o \in {"req", "dereg", "destroy"}, NEW c,
           Recheck(o, c, vote', clients'), UNCHANGED mgr,
           o = "dereg" => \A d \in Domain : vote'[d][c] = "OFF",
           o = "destroy" => clients' = {}
    PROVE  VotesInv'
<1>. DEFINE w == Wanted(vote', clients')
<1>1. w \in [Domain -> ClkState \cup {"same"}]
  BY WantedType
<1>2. op' = o /\ by' = c /\ want' = w /\ pc' = FirstPart(w) /\ mgr' = mgr
  BY DEF Recheck
<1>3. Wishes'
  <2>. SUFFICES ASSUME NEW d \in Domain
                PROVE  IF w[d] = "same" THEN mgr[d] = Goal(d)' ELSE w[d] = Goal(d)'
    BY <1>2 DEF Wishes
  <2>1. Goal(d)' = Aggregate(vote'[d], clients')
    BY DEF Goal
  <2>2. w[d] = IF Aggregate(vote'[d], clients') = mgr[d] THEN "same"
                                                       ELSE Aggregate(vote'[d], clients')
    BY DEF Wanted
  <2>3. Aggregate(vote'[d], clients') # "same"
    BY AggregateType DEF ClkState
  <2>. QED BY <2>1, <2>2, <2>3
<1>. HIDE DEF w
<1>4. pc' \notin {"idle", "forceOff", "forceOn"}
  BY <1>1, <1>2, FirstPartType
<1>5. CASE w["core"] = "ON"
  <2>1. pc' \in {"preOn", "coreOn"}
    BY <1>2, <1>5 DEF FirstPart
  <2>. QED BY <1>2, <1>3, <2>1 DEF VotesInv
<1>6. CASE w["core"] # "ON"
  <2>1. pc' = LinkPart(w, mgr["core"])
    BY <1>2, <1>6 DEF FirstPart
  <2>2. CASE w["link"] = "same"
    <3>1. pc' = CorePart(w, mgr["core"], FALSE)
      BY <2>1, <2>2 DEF LinkPart
    <3>2. pc' = "ret" => w["core"] = "same"
      BY <3>1, <1>1, <1>6, CorePartDone
    <3>3. mgr'["link"] = Goal("link")' /\ (pc' = "ret" => Reached')
      BY <1>2, <1>3, <2>2, <3>2 DEF Wishes, Reached, Domain
    <3>. QED BY <1>2, <1>3, <1>4, <1>6, <3>3 DEF VotesInv
  <2>3. CASE w["link"] # "same"
    <3>1. pc' \in {"lpOn", "ecgOn", "hsOff"}
      BY <2>1, <2>3 DEF LinkPart
    <3>. QED BY <1>2, <1>3, <1>6, <3>1 DEF VotesInv
  <2>. QED BY <2>2, <2>3
<1>. QED BY <1>5, <1>6

\* A step that leaves the call where it is, or takes it to its end by a
\* failure, keeps the invariant.
LEMMA VotesFrame ==
    ASSUME VotesInv, UNCHANGED <<voteVars, mgr, op, by, want>>,
           \/ UNCHANGED <<pc, rc, failed>>
           \/ pc \notin {"idle", "ret"} /\ pc' = pc /\ (failed' = {} => failed = {})
           \/ pc # "idle" /\ pc' = "ret" /\ failed' # {} /\ rc' # 0
    PROVE  VotesInv'
<1>1. \A d : Goal(d)' = Goal(d)
  BY DEF Goal, voteVars
<1>2. Wishes => Wishes'
  BY <1>1 DEF Wishes
<1>3. Reached => Reached'
  BY <1>1 DEF Reached
<1>. QED BY <1>1, <1>2, <1>3 DEF VotesInv, voteVars

\* What success and failure do to the history.
LEMMA FailHistory == ASSUME NEW f, Fail(f) PROVE failed' # {} /\ rc' # 0
BY DEF Fail

\* Two failures do the same.
LEMMA FailTwiceHistory == ASSUME NEW f, NEW g, FailTwice(f, g) PROVE failed' # {} /\ rc' # 0
BY DEF FailTwice

LEMMA SucceedHistory == Succeed => failed' = failed /\ rc' = 0
BY DEF Succeed, faultVars

\* A request that rechecks nothing leaves every vote as it is.
LEMMA QuietReq ==
    ASSUME TypeOK, NEW c \in Client, NEW clk \in SUBSET Domain, NEW s \in ReqStates,
           Req(c, clk, s), ~\E d \in clk : Changed(ref[d][c], vote[d][c], s)
    PROVE  \A d \in Domain : vote'[d] = vote[d]
<1>. TAKE d \in Domain
<1>1. d \in clk => NewVote(ref[d][c], vote[d][c], s) = vote[d][c]
  BY UnchangedVote
<1>2. vote[d] \in [Client -> ClkState]
  BY DEF TypeOK
<1>3. vote'[d] = IF d \in clk
             THEN [vote[d] EXCEPT ![c] = NewVote(ref[d][c], @, s)] ELSE vote[d]
  BY DEF Req
<1>. QED BY <1>1, <1>2, <1>3

\* The end of a call takes away nothing but clients that vote OFF.
LEMMA ReturnKeepsGoal ==
    ASSUME VotesInv, Reached, Return PROVE Reached'
<1>. SUFFICES ASSUME NEW d \in Domain PROVE mgr'[d] = Goal(d)'
  BY DEF Reached
<1>1. mgr[d] = Goal(d) /\ vote' = vote
  BY DEF Reached, Return
<1>2. CASE op = "destroy"
  <2>1. clients' = {} /\ mgr' = AllOff
    BY <1>2 DEF Return, VotesInv
  <2>. QED BY <2>1, AggregateEmpty DEF Goal, AllOff
<1>3. CASE op = "dereg"
  <2>1. vote[d][by] = "OFF" /\ mgr' = mgr /\ clients' \in {clients, clients \ {by}}
    BY <1>3 DEF Return, VotesInv
  <2>2. Aggregate(vote[d], clients') = Aggregate(vote[d], clients)
    BY <2>1, AggregateOff
  <2>. QED BY <1>1, <2>1, <2>2 DEF Goal
<1>4. CASE op \notin {"destroy", "dereg"}
  BY <1>1, <1>4 DEF Return, Goal
<1>. QED BY <1>2, <1>3, <1>4

LEMMA VotesNext == TypeInv /\ VotesInv /\ [Next]_vars => VotesInv'
<1>. SUFFICES ASSUME TypeInv, VotesInv, [Next]_vars PROVE VotesInv'
  OBVIOUS
<1>t. TypeOK /\ WantOK
  BY DEF TypeInv
<1>m. /\ mgr \in [Domain -> ClkState] /\ want \in [Domain -> ClkState \cup {"same"}]
      /\ "core" \in Domain /\ "link" \in Domain /\ Domain = {"core", "link"}
      /\ "same" \notin ClkState
  BY <1>t DEF ClkState, Domain, TypeOK
<1>p. ASSUME NEW core, NEW lc
      PROVE  /\ CorePart(want, core, lc) \in {"ret", "ecgCoreOn", "coreOff"}
             /\ CorePart(want, core, lc) = "ret" => want["core"] \in {"same", "ON"}
  BY <1>m, CorePartType, CorePartDone
<1>g. ASSUME UNCHANGED <<clients, vote>>, NEW d PROVE Goal(d)' = Goal(d)
  BY <1>g DEF Goal
<1>w. ASSUME UNCHANGED <<clients, vote, want>>, Wishes,
             \A d \in Domain : mgr'[d] = mgr[d] \/ (want[d] # "same" /\ mgr'[d] = want[d])
      PROVE  Wishes'
  BY <1>w, <1>g DEF Wishes
<1>r. Wishes /\ (\A d \in Domain : want[d] \in {"same", mgr[d]}) => Reached
  BY DEF Wishes, Reached
<1>. USE DEF voteVars, callVars
<1>1. CASE MngrRegister
  <2>1. UNCHANGED <<clients, vote, mgr, pc, op, by, want, rc, failed>>
    BY <1>1 DEF MngrRegister, faultVars
  <2>. QED BY <2>1, <1>g DEF VotesInv, Wishes, Reached
<1>2. CASE MngrDeregister
  BY <1>2, <1>t, RecheckVotes DEF MngrDeregister
<1>3. ASSUME NEW c \in Client, Register(c) PROVE VotesInv'
  <2>1. ASSUME NEW d \in Domain PROVE Goal(d)' = Goal(d)
    <3>1. vote'[d][c] = "OFF" /\ clients' = clients \cup {c}
      BY <1>3, <1>t DEF Register, TypeOK
    <3>2. \A x \in clients : vote'[d][x] = vote[d][x]
      BY <1>3, <1>t DEF Register, TypeOK
    <3>3. Aggregate(vote'[d], clients') = Aggregate(vote'[d], clients)
      BY <3>1, AggregateOff
    <3>4. Aggregate(vote'[d], clients) = Aggregate(vote[d], clients)
      BY <3>2, AggregateSame
    <3>. QED BY <3>3, <3>4 DEF Goal
  <2>2. pc = "idle" /\ UNCHANGED <<mgr, pc, op, by, want, rc, failed>>
    BY <1>3 DEF Register, faultVars
  <2>. QED BY <2>1, <2>2 DEF VotesInv, Wishes, Reached
<1>4. ASSUME NEW c \in Client, Deregister(c) PROVE VotesInv'
  <2>1. Recheck("dereg", c, vote', clients') /\ mgr' = mgr
    BY <1>4 DEF Deregister
  <2>2. \A d \in Domain : vote'[d][c] = "OFF"
    BY <1>4, <1>t DEF Deregister, TypeOK
  <2>. QED BY <2>1, <2>2, <1>t, RecheckVotes
<1>5. ASSUME NEW c \in Client, ForceUpdate(c) PROVE VotesInv'
  <2>1. pc = "idle" /\ pc' = "forceOff" /\ op' = "force"
        /\ UNCHANGED <<voteVars, mgr, want, failed>>
    BY <1>5 DEF ForceUpdate, faultVars
  <2>2. want = NoWant /\ want["core"] = "same"
    BY <2>1, <1>m DEF VotesInv, NoWant
  <2>. QED BY <2>1, <2>2, <1>g DEF VotesInv, Reached
<1>6. ASSUME NEW c \in Client, NEW clk \in SUBSET Domain, NEW s \in ReqStates,
             Req(c, clk, s)
      PROVE  VotesInv'
  <2>1. CASE \E d \in clk : Changed(ref[d][c], vote[d][c], s)
    <3>1. Recheck("req", c, vote', clients') /\ mgr' = mgr
      BY <1>6, <2>1 DEF Req
    <3>. QED BY <3>1, <1>t, RecheckVotes
  <2>2. CASE ~\E d \in clk : Changed(ref[d][c], vote[d][c], s)
    <3>1. UNCHANGED <<pc, op, by, want, mgr, clients, rc, failed>> /\ pc = "idle"
      BY <1>6, <2>2 DEF Req, faultVars
    <3>2. \A d \in Domain : vote'[d] = vote[d]
      BY <1>6, <2>2, <1>t, QuietReq
    <3>3. ASSUME NEW d \in Domain PROVE Goal(d)' = Goal(d)
      BY <3>1, <3>2 DEF Goal
    <3>. QED BY <3>1, <3>3 DEF VotesInv, Wishes, Reached
  <2>. QED BY <2>1, <2>2
<1>7. CASE PreClkOn
  <2>1. CASE pc' = "coreOn"
    <3>1. pc = "preOn" /\ UNCHANGED <<voteVars, mgr, op, by, want>>
      BY <1>7, <2>1 DEF PreClkOn
    <3>. QED BY <2>1, <3>1, <1>g DEF VotesInv, Wishes
  <2>2. CASE pc' # "coreOn"
    BY <1>7, <2>2, FailHistory, VotesFrame DEF PreClkOn
  <2>. QED BY <2>1, <2>2
<1>8. ASSUME NEW i \in Ctrl, CoreEnable(i) PROVE VotesInv'
  BY <1>8, FailHistory, FailTwiceHistory, SucceedHistory, VotesFrame DEF CoreEnable, CoreOnPc
<1>9. CASE CoreEnabled
  <2>1. CASE pc = "coreOn"
    <3>1. mgr' = [mgr EXCEPT !["core"] = "ON"] /\ pc' = LinkPart(want, "ON")
          /\ UNCHANGED <<voteVars, callVars>>
      BY <1>9, <2>1 DEF CoreEnabled
    <3>2. want["core"] = "ON" /\ mgr'["core"] = "ON" /\ mgr'["link"] = mgr["link"]
      BY <2>1, <3>1, <1>t, <1>m DEF WantOK
    <3>3. pc' \notin {"idle", "preOn", "coreOn", "forceOff", "forceOn"}
      BY <3>1, <1>m, LinkPartType
    <3>4. pc' \in {"ret", "coreOff", "ecgCoreOn"} => want["link"] = "same"
      BY <3>1, <1>m DEF LinkPart, ClkState
    <3>5. op \notin {"none", "force"} /\ Wishes
      BY <2>1 DEF VotesInv
    <3>6. Wishes'
      BY <3>1, <3>2, <3>5, <1>m, <1>w
    <3>7. want["link"] = "same" => Reached' /\ mgr'["link"] = Goal("link")'
      BY <3>1, <3>2, <3>6, <1>m DEF Wishes, Reached
    <3>. QED BY <2>1, <3>1, <3>2, <3>3, <3>4, <3>5, <3>6, <3>7 DEF VotesInv
  <2>2. CASE pc # "coreOn"
    <3>1. /\ UNCHANGED <<voteVars, mgr, op, by, want>>
          /\ \/ pc = "ecgOn" /\ pc' = "hsOff"
             \/ pc = "ecgCoreOn" /\ pc' = "coreOff"
      BY <1>9, <2>2 DEF CoreEnabled
    <3>. QED BY <3>1, <1>g DEF VotesInv, Wishes
  <2>. QED BY <2>1, <2>2
<1>10. ASSUME NEW i \in Ctrl, LinkEnable(i) PROVE VotesInv'
  BY <1>10, FailHistory, SucceedHistory, VotesFrame DEF LinkEnable, LinkOnPc
<1>11. CASE LinkEnabled
  <2>0. UNCHANGED <<voteVars, op, by, want>>
    BY <1>11 DEF LinkEnabled
  <2>1. CASE pc' = "ret" /\ Fail("post_clkon_cb") /\ pc \in LinkOnPc /\ mgr' = mgr
    BY <1>11, <2>1, <2>0, FailHistory, VotesFrame DEF LinkEnabled, LinkOnPc
  <2>2. CASE pc = "hsOn" /\ Succeed
    <3>1. mgr' = [mgr EXCEPT !["link"] = "ON"] /\ pc' = CorePart(want, mgr["core"], FALSE)
      BY <1>11, <2>2 DEF LinkEnabled, Fail, Succeed
    <3>2. want["link"] = "ON" /\ mgr'["link"] = "ON" /\ mgr'["core"] = mgr["core"]
      BY <2>2, <3>1, <1>t, <1>m DEF WantOK
    <3>3. (want["core"] = "ON" => mgr["core"] = "ON") /\ op \notin {"none", "force"} /\ Wishes
      BY <2>2 DEF VotesInv
    <3>4. Wishes'
      BY <2>0, <3>1, <3>2, <3>3, <1>m, <1>w
    <3>5. pc' \in {"ret", "ecgCoreOn", "coreOff"}
          /\ (pc' = "ret" => want["core"] \in {"same", "ON"})
      BY <3>1, <1>p
    <3>6. mgr'["link"] = Goal("link")' /\ (pc' = "ret" => Reached')
      BY <2>0, <3>2, <3>3, <3>4, <3>5, <1>m DEF Wishes, Reached
    <3>. QED BY <2>0, <3>2, <3>3, <3>4, <3>5, <3>6 DEF VotesInv
  <2>3. CASE pc = "lpOn" /\ pc' = "hsOn" /\ mgr' = mgr
    BY <2>0, <2>3, <1>g DEF VotesInv, Wishes
  <2>4. CASE pc = "forceOn" /\ Succeed /\ pc' = "ret" /\ mgr' = mgr
    BY <2>0, <2>4, <1>g, SucceedHistory DEF VotesInv, Reached
  <2>. QED BY <1>11, <2>1, <2>2, <2>3, <2>4 DEF LinkEnabled
<1>12. ASSUME NEW i \in Ctrl, LinkDisable(i) PROVE VotesInv'
  BY <1>12, SucceedHistory, VotesFrame DEF LinkDisable, LinkOffPc
<1>13. CASE LinkDisabled
  <2>0. UNCHANGED <<voteVars, op, by, want, failed>>
    BY <1>13, SucceedHistory DEF LinkDisabled
  <2>1. CASE pc = "lpOff" /\ pc' # "ecgOff"
    <3>1. mgr' = [mgr EXCEPT !["link"] = want["link"]] /\ pc' = CorePart(want, mgr["core"], lcOn)
      BY <1>13, <2>1 DEF LinkDisabled
    <3>2. want["link"] # "same" /\ mgr'["link"] = want["link"] /\ mgr'["core"] = mgr["core"]
      BY <2>1, <3>1, <1>t, <1>m DEF WantOK
    <3>3. (want["core"] = "ON" => mgr["core"] = "ON") /\ op \notin {"none", "force"} /\ Wishes
      BY <2>1 DEF VotesInv
    <3>4. Wishes'
      BY <2>0, <3>1, <3>2, <3>3, <1>m, <1>w
    <3>5. pc' \in {"ret", "ecgCoreOn", "coreOff"}
          /\ (pc' = "ret" => want["core"] \in {"same", "ON"})
      BY <3>1, <1>p
    <3>6. mgr'["link"] = Goal("link")' /\ (pc' = "ret" => Reached')
      BY <2>0, <3>2, <3>3, <3>4, <3>5, <1>m DEF Wishes, Reached
    <3>. QED BY <2>0, <3>2, <3>3, <3>4, <3>5, <3>6 DEF VotesInv
  <2>2. CASE pc = "lpOff" /\ pc' = "ecgOff"
    <3>1. mgr' = mgr
      BY <1>13, <2>2, <1>p DEF LinkDisabled
    <3>. QED BY <2>0, <2>2, <3>1, <1>g DEF VotesInv, Wishes
  <2>3. CASE pc # "lpOff"
    <3>1. /\ mgr' = mgr
          /\ \/ pc = "hsOff" /\ pc' = "lpOff"
             \/ pc = "forceOff" /\ pc' = "forceOn"
      BY <1>13, <2>3 DEF LinkDisabled
    <3>. QED BY <2>0, <3>1, <1>g DEF VotesInv, Wishes, Reached
  <2>. QED BY <2>1, <2>2, <2>3
<1>14. ASSUME NEW i \in Ctrl, CoreDisable(i) PROVE VotesInv'
  BY <1>14, FailHistory, SucceedHistory, VotesFrame DEF CoreDisable, CoreOffPc
<1>15. CASE CoreDisabled
  <2>0. UNCHANGED <<voteVars, op, by, want>>
    BY <1>15 DEF CoreDisabled
  <2>1. CASE pc = "coreOff"
    <3>1. mgr' = [mgr EXCEPT !["core"] = want["core"]] /\ pc' = "ret"
      BY <1>15, <2>1 DEF CoreDisabled
    <3>2. want["core"] # "same" /\ mgr'["core"] = want["core"] /\ mgr'["link"] = mgr["link"]
      BY <2>1, <3>1, <1>t, <1>m DEF WantOK
    <3>3. Wishes /\ mgr["link"] = Goal("link") /\ op \notin {"none", "force"}
      BY <2>1 DEF VotesInv
    <3>4. Wishes'
      BY <2>0, <3>1, <3>2, <3>3, <1>m, <1>w
    <3>5. Reached'
      BY <2>0, <3>1, <3>2, <3>3, <1>m, <1>g DEF Wishes, Reached
    <3>. QED BY <2>0, <2>1, <3>1, <3>3, <3>4, <3>5 DEF VotesInv
  <2>2. CASE pc # "coreOff"
    <3>1. pc = "ecgOff" /\ mgr' = [mgr EXCEPT !["link"] = want["link"]]
          /\ pc' = CorePart(want, mgr["core"], FALSE)
      BY <1>15, <2>2 DEF CoreDisabled
    <3>2. want["link"] # "same" /\ mgr'["link"] = want["link"] /\ mgr'["core"] = mgr["core"]
      BY <3>1, <1>t, <1>m DEF WantOK
    <3>3. (want["core"] = "ON" => mgr["core"] = "ON") /\ op \notin {"none", "force"} /\ Wishes
      BY <3>1 DEF VotesInv
    <3>4. Wishes'
      BY <2>0, <3>1, <3>2, <3>3, <1>m, <1>w
    <3>5. pc' \in {"ret", "ecgCoreOn", "coreOff"}
          /\ (pc' = "ret" => want["core"] \in {"same", "ON"})
      BY <3>1, <1>p
    <3>6. mgr'["link"] = Goal("link")' /\ (pc' = "ret" => Reached')
      BY <2>0, <3>2, <3>3, <3>4, <3>5, <1>m DEF Wishes, Reached
    <3>. QED BY <2>0, <3>2, <3>3, <3>4, <3>5, <3>6 DEF VotesInv
  <2>. QED BY <2>1, <2>2
<1>16. CASE Return
  <2>1. pc' = "idle" /\ op' = "none" /\ want' = NoWant /\ rc' = 0 /\ failed' = failed
    BY <1>16 DEF Return, faultVars
  <2>2. Reached => Reached'
    BY <1>16, ReturnKeepsGoal
  <2>3. failed = {} => Reached
    BY <1>16 DEF Return, VotesInv
  <2>. QED BY <2>1, <2>2, <2>3 DEF VotesInv
<1>17. CASE UNCHANGED vars
  BY <1>17, VotesFrame DEF vars
<1>. QED
  BY <1>1, <1>2, <1>3, <1>4, <1>5, <1>6, <1>7, <1>8, <1>9, <1>10, <1>11, <1>12,
     <1>13, <1>14, <1>15, <1>16, <1>17 DEF Next, Call, Step

LEMMA VotesInvariant == Spec => [](TypeInv /\ VotesInv)
<1>1. Init => VotesInv
  BY AggregateEmpty DEF Init, VotesInv, Wishes, Reached, Goal, AllOff, NoWant
<1>. QED BY <1>1, TypeInvInit, TypeInvNext, VotesNext, PTL DEF Spec

\* Nothing fails where nothing can.
Unfailed == failed = {}

LEMMA NoFailures == ASSUME Faults = {} PROVE Spec => []Unfailed
<1>. USE DEF Unfailed
<1>1. Init => Unfailed
  BY DEF Init
<1>f. ASSUME NEW f, Fail(f) PROVE FALSE
  BY <1>f DEF Fail, CanFail
<1>g. ASSUME NEW f, NEW g, FailTwice(f, g) PROVE FALSE
  BY <1>g DEF FailTwice
<1>2. Unfailed /\ [Next]_vars => Unfailed'
  BY <1>f, <1>g DEF Next, Call, Step, vars, faultVars, MngrRegister, MngrDeregister, Register,
     Deregister, ForceUpdate, Req, PreClkOn, CoreEnable, CoreEnabled, LinkEnable, LinkEnabled,
     LinkDisable, LinkDisabled, CoreDisable, CoreDisabled, Return, Succeed
<1>. QED BY <1>1, <1>2, PTL DEF Spec

\* When nothing fails, the manager is between any two calls in the state its
\* clients' votes ask for, with any clients and any states they ask for.
THEOREM VotesDecideStateHolds == ASSUME Faults = {} PROVE Spec => []VotesDecideState
<1>1. VotesInv /\ Unfailed => VotesDecideState
  BY DEF Unfailed, VotesInv, VotesDecideState, Reached, Goal
<1>. QED BY <1>1, VotesInvariant, NoFailures, PTL

\* A call that returns success has done what the votes ask for, whatever failed
\* in the calls before it and whatever it had to make good.
THEOREM SuccessFollowsVotesHolds == Spec => SuccessFollowsVotes
<1>. DEFINE Followed == \A d \in Domain : mgr'[d] = Aggregate(vote'[d], clients')
            Success == pc = "ret" /\ op # "force" /\ rc = 0
<1>1. TypeInv /\ VotesInv /\ [Next]_vars => (Success => Followed)
  <2>. SUFFICES ASSUME TypeInv, VotesInv, [Next]_vars, Success PROVE Followed
    OBVIOUS
  <2>1. Reached
    BY DEF VotesInv
  <2>2. CASE Return
    BY <2>1, <2>2, ReturnKeepsGoal DEF Reached, Goal
  <2>3. CASE UNCHANGED <<mgr, vote, clients>>
    BY <2>1, <2>3 DEF Reached, Goal
  <2>4. Return \/ UNCHANGED <<mgr, vote, clients>>
    <3>1. pc = "ret"
      OBVIOUS
    <3>. QED BY <3>1 DEF Next, Call, Step, vars, MngrRegister, MngrDeregister, Register,
         Deregister, ForceUpdate, Req, PreClkOn, CoreEnable, CoreEnabled, LinkEnable,
         LinkEnabled, LinkDisable, LinkDisabled, CoreDisable, CoreDisabled, CoreOnPc,
         CoreOffPc, LinkOnPc, LinkOffPc
  <2>. QED BY <2>2, <2>3, <2>4
<1>. QED BY <1>1, VotesInvariant, PTL DEF Spec, SuccessFollowsVotes

-----------------------------------------------------------------------------
(* Clients that ask for ON and OFF alone, as the display driver does, never *)
(* bring EARLY_GATE about.                                                  *)

GatePc == {"ecgOn", "ecgCoreOn", "ecgOff"}

NoGate ==
    /\ \A d \in Domain : mgr[d] # "EARLY_GATE" /\ want[d] # "EARLY_GATE"
    /\ \A d \in Domain, c \in Client : vote[d][c] # "EARLY_GATE"
    /\ pc \notin GatePc
    /\ lcOn = FALSE

LEMMA NoGateParts ==
    ASSUME TypeOK, NoGate, NEW w \in [Domain -> ClkState \cup {"same"}],
           NEW core, core # "EARLY_GATE",
           \A d \in Domain : w[d] # "EARLY_GATE"
    PROVE  /\ CorePart(w, core, FALSE) \in {"ret", "coreOff"}
           /\ LinkPart(w, core) \in {"ret", "coreOff", "lpOn", "hsOff"}
<1>1. CorePart(w, core, FALSE) \in {"ret", "coreOff"}
  BY CorePartType DEF CorePart
<1>2. LinkPart(w, core) # "ecgOn"
  <2>1. mgr["link"] # "EARLY_GATE"
    BY DEF NoGate, Domain
  <2>2. CASE w["link"] = "same"
    BY <1>1, <2>2 DEF LinkPart, CorePart
  <2>3. CASE w["link"] # "same"
    BY <2>1, <2>3 DEF LinkPart
  <2>. QED BY <2>2, <2>3
<1>3. LinkPart(w, core) # "ecgCoreOn"
  <2>1. CASE w["link"] = "same"
    <3>1. LinkPart(w, core) = CorePart(w, core, FALSE)
      BY <2>1 DEF LinkPart
    <3>. QED BY <1>1, <3>1
  <2>2. CASE w["link"] # "same"
    BY <2>2 DEF LinkPart
  <2>. QED BY <2>1, <2>2
<1>. QED BY <1>1, <1>2, <1>3, LinkPartType

LEMMA NoGateRecheck ==
    ASSUME TypeOK, NoGate, NEW o, NEW c, NEW list \in SUBSET Client, NEW v,
           Recheck(o, c, v, list), UNCHANGED <<mgr, lcOn>>, vote' = v,
           \A d \in Domain, x \in Client : v[d][x] # "EARLY_GATE"
    PROVE  NoGate'
<1>. DEFINE w == Wanted(v, list)
<1>1. w \in [Domain -> ClkState \cup {"same"}]
  BY WantedType
<1>2. ASSUME NEW d \in Domain PROVE w[d] # "EARLY_GATE"
  <2>1. Aggregate(v[d], list) # "EARLY_GATE"
    BY DEF Aggregate
  <2>. QED BY <2>1 DEF Wanted
<1>3. want' = w /\ pc' = FirstPart(w)
  BY DEF Recheck
<1>. HIDE DEF w
<1>4. mgr["core"] # "EARLY_GATE"
  BY DEF NoGate, Domain
<1>5. LinkPart(w, mgr["core"]) \notin GatePc
  BY <1>1, <1>2, <1>4, NoGateParts DEF GatePc
<1>6. pc' \notin GatePc
  BY <1>3, <1>5 DEF FirstPart, GatePc
<1>. QED BY <1>2, <1>3, <1>6 DEF NoGate

LEMMA NoGateNext ==
    ASSUME ReqStates \subseteq {"ON", "OFF"}
    PROVE  TypeInv /\ NoGate /\ [Next]_vars => NoGate'
<1>. SUFFICES ASSUME TypeInv, NoGate, [Next]_vars PROVE NoGate'
  OBVIOUS
<1>t. TypeOK /\ WantOK
  BY DEF TypeInv
<1>m. /\ mgr \in [Domain -> ClkState] /\ want \in [Domain -> ClkState \cup {"same"}]
      /\ vote \in [Domain -> [Client -> ClkState]]
      /\ \A d \in Domain : mgr[d] # "EARLY_GATE" /\ want[d] # "EARLY_GATE"
      /\ pc \notin GatePc /\ lcOn = FALSE
      /\ Domain = {"core", "link"}
  BY <1>t DEF ClkState, Domain, TypeOK, NoGate
<1>p. /\ CorePart(want, mgr["core"], FALSE) \notin GatePc
      /\ LinkPart(want, "ON") \notin GatePc
  BY <1>t, <1>m, NoGateParts DEF GatePc
<1>. USE DEF voteVars, callVars, faultVars, GatePc
<1>1. CASE MngrRegister
  BY <1>1 DEF MngrRegister, NoGate
<1>2. CASE MngrDeregister
  <2>1. Recheck("destroy", NoClient, vote, {}) /\ UNCHANGED <<mgr, lcOn, vote>>
    BY <1>2 DEF MngrDeregister
  <2>. QED BY <2>1, <1>t, NoGateRecheck DEF NoGate
<1>3. ASSUME NEW c \in Client, Register(c) PROVE NoGate'
  BY <1>3, <1>m DEF Register, NoGate
<1>4. ASSUME NEW c \in Client, Deregister(c) PROVE NoGate'
  <2>1. Recheck("dereg", c, vote', clients) /\ UNCHANGED <<mgr, lcOn>>
    BY <1>4 DEF Deregister
  <2>2. \A d \in Domain, x \in Client : vote'[d][x] # "EARLY_GATE"
    BY <1>4, <1>m DEF Deregister, NoGate
  <2>3. clients \in SUBSET Client
    BY <1>t DEF TypeOK
  <2>. QED BY <2>1, <2>2, <2>3, <1>t, NoGateRecheck
<1>5. ASSUME NEW c \in Client, ForceUpdate(c) PROVE NoGate'
  BY <1>5 DEF ForceUpdate, NoGate
<1>6. ASSUME NEW c \in Client, NEW clk \in SUBSET Domain, NEW s \in ReqStates,
             Req(c, clk, s)
      PROVE  NoGate'
  <2>1. \A d \in Domain, x \in Client : vote'[d][x] # "EARLY_GATE"
    <3>. TAKE d \in Domain, x \in Client
    <3>1. NewVote(ref[d][c], vote[d][c], s) # "EARLY_GATE"
      BY DEF NewVote, NoGate
    <3>2. vote'[d] = IF d \in clk
                 THEN [vote[d] EXCEPT ![c] = NewVote(ref[d][c], @, s)] ELSE vote[d]
      BY <1>6 DEF Req
    <3>. QED BY <3>1, <3>2, <1>m DEF NoGate
  <2>2. CASE Recheck("req", c, vote', clients)
    <3>1. UNCHANGED <<mgr, lcOn>> /\ clients \in SUBSET Client
      BY <1>6, <1>t DEF Req, TypeOK
    <3>. QED BY <2>1, <2>2, <3>1, <1>t, NoGateRecheck
  <2>3. CASE UNCHANGED <<pc, op, by, want>>
    BY <1>6, <2>1, <2>3 DEF Req, NoGate
  <2>. QED BY <1>6, <2>2, <2>3 DEF Req
<1>7. CASE PreClkOn
  BY <1>7 DEF PreClkOn, NoGate
<1>8. ASSUME NEW i \in Ctrl, CoreEnable(i) PROVE NoGate'
  BY <1>8 DEF CoreEnable, NoGate
<1>9. CASE CoreEnabled
  <2>1. pc = "coreOn" /\ mgr' = [mgr EXCEPT !["core"] = "ON"] /\ pc' = LinkPart(want, "ON")
        /\ UNCHANGED <<voteVars, callVars, lcOn>>
    BY <1>9, <1>m DEF CoreEnabled
  <2>. QED BY <2>1, <1>p, <1>m DEF NoGate
<1>10. ASSUME NEW i \in Ctrl, LinkEnable(i) PROVE NoGate'
  BY <1>10 DEF LinkEnable, NoGate
<1>11. CASE LinkEnabled
  BY <1>11, <1>p, <1>m DEF LinkEnabled, NoGate
<1>12. ASSUME NEW i \in Ctrl, LinkDisable(i) PROVE NoGate'
  BY <1>12 DEF LinkDisable, NoGate
<1>13. CASE LinkDisabled
  BY <1>13, <1>p, <1>m DEF LinkDisabled, NoGate
<1>14. ASSUME NEW i \in Ctrl, CoreDisable(i) PROVE NoGate'
  BY <1>14 DEF CoreDisable, NoGate
<1>15. CASE CoreDisabled
  BY <1>15, <1>m DEF CoreDisabled, NoGate
<1>16. CASE Return
  BY <1>16 DEF Return, NoGate, AllOff, NoWant
<1>17. CASE UNCHANGED vars
  BY <1>17 DEF vars, NoGate
<1>. QED
  BY <1>1, <1>2, <1>3, <1>4, <1>5, <1>6, <1>7, <1>8, <1>9, <1>10, <1>11, <1>12,
     <1>13, <1>14, <1>15, <1>16, <1>17 DEF Next, Call, Step

-----------------------------------------------------------------------------
(* The enables each controller holds, at every step, and what failures may *)
(* do to them.                                                              *)

Count(b) == IF b THEN 1 ELSE 0

\* Enables a controller holds at p, when the loop has been through S and the
\* manager's states are m.
HeldCore(p, S, m, i) ==
    IF p = "coreOn" THEN Count(i \in S)
    ELSE IF p = "coreOff" THEN Count(i \notin S)
    ELSE Count(m["core"] = "ON")
HeldLp(p, S, m, i) ==
    IF p \in {"lpOn", "forceOn"} THEN Count(i \in S)
    ELSE IF p \in {"lpOff", "forceOff"} THEN Count(i \notin S)
    ELSE IF p = "hsOn" THEN 1
    ELSE Count(m["link"] = "ON")
HeldHs(p, S, m, i) ==
    IF p \in {"hsOn", "forceOn"} THEN Count(i \in S)
    ELSE IF p \in {"hsOff", "forceOff"} THEN Count(i \notin S)
    ELSE IF p = "lpOff" THEN 0
    ELSE Count(m["link"] = "ON")

CoreCounts ==
    \A i \in Ctrl :
        /\ en["power"][i] = HeldCore(pc, done, mgr, i)
        /\ en["core"][i] = HeldCore(pc, done, mgr, i)

LinkCounts ==
    \A i \in Ctrl :
        /\ en["escPrep"][i] = HeldLp(pc, done, mgr, i)
        /\ en["esc"][i] = HeldLp(pc, done, mgr, i)
        /\ en["hs"][i] = HeldHs(pc, done, mgr, i)

\* A display has one controller besides the master, if any: MAX_DSI_CTRL is 2
\* (dsi_clk.h), and dsi_display_clk_mngr_register refuses more.
Pair == \A i, j \in Ctrl \ {Master} : i = j

\* A core that fails to start gives back the master alone, which is all there
\* is to give back when the controllers are two.
CoreSafe == "core_stop" \notin failed /\ (Pair \/ "core_start" \notin failed)
LinkSafe == failed \cap {"lp_start", "hs_start", "post_clkon_cb"} = {}

CountsInv == (CoreSafe => CoreCounts) /\ (LinkSafe => LinkCounts)

\* A domain is only started from OFF and only stopped from ON.
Coherent ==
    /\ pc \in {"preOn", "coreOn"} => mgr["core"] = "OFF"
    /\ pc = "coreOff" => mgr["core"] = "ON"
    /\ pc \in {"lpOn", "hsOn"} => mgr["link"] = "OFF"
    /\ pc \in {"hsOff", "lpOff", "forceOff", "forceOn"} => mgr["link"] = "ON"

\* And so will those that the transition has not come to yet.
Pending ==
    /\ pc \in {"preOn", "coreOn"} =>
          /\ want["link"] = "ON" => mgr["link"] = "OFF"
          /\ want["link"] = "OFF" => mgr["link"] = "ON"
    /\ pc \in {"lpOn", "hsOn", "hsOff", "lpOff"} =>
          (want["core"] = "OFF" => mgr["core"] = "ON")

\* The master comes first on the way up and last on the way down.
Order ==
    /\ pc \in {"idle", "preOn"} => done = {}
    /\ pc \in CoreOnPc \cup LinkOnPc => (done = {} \/ Master \in done)
    /\ pc \in CoreOffPc \cup LinkOffPc => (Master \in done => done = Ctrl)

\* A manager that is freed has stopped its clocks, unless that failed.
Freeing ==
    op = "destroy" =>
        /\ pc \in {"hsOff", "lpOff", "coreOff", "ret"}
        /\ pc \in {"coreOff", "ret"} => mgr["link"] = "OFF"
        /\ pc = "ret" /\ "core_stop" \notin failed => mgr["core"] = "OFF"

ClockInv == CountsInv /\ Coherent /\ Pending /\ Order /\ Freeing

\* The invariant before this one, with all it needs.
BaseInv == TypeInv /\ VotesInv /\ NoGate

\* The history only grows, so what was unsafe stays so.
LEMMA SafeShrinks ==
    ASSUME failed \subseteq failed' PROVE (CoreSafe' => CoreSafe) /\ (LinkSafe' => LinkSafe)
BY DEF CoreSafe, LinkSafe, Pair

LEMMA BumpValue ==
    ASSUME NEW e \in [Kind -> [Ctrl -> Int]], NEW K \in SUBSET Kind, NEW i \in Ctrl, NEW n \in Int
    PROVE  \A k \in Kind, j \in Ctrl :
              Bump(e, K, i, n)[k][j] = IF k \in K /\ j = i THEN e[k][j] + n ELSE e[k][j]
BY DEF Bump

\* Where a loop begins, or none is under way, the counts follow the states.
StartPc == {"idle", "ret", "preOn", "coreOn", "coreOff", "lpOn", "hsOff", "forceOff"}
AtStart == pc \in StartPc /\ (done = {} \/ pc = "ret")

LEMMA StartHeld ==
    ASSUME Coherent, AtStart, NEW i \in Ctrl
    PROVE  /\ HeldCore(pc, done, mgr, i) = Count(mgr["core"] = "ON")
           /\ HeldLp(pc, done, mgr, i) = Count(mgr["link"] = "ON")
           /\ HeldHs(pc, done, mgr, i) = Count(mgr["link"] = "ON")
BY DEF Coherent, StartPc, AtStart, HeldCore, HeldLp, HeldHs, Count

\* From the counts at such a place to those at the next one.
LEMMA StartCounts ==
    ASSUME ClockInv, AtStart, Coherent', AtStart', UNCHANGED en, failed \subseteq failed',
           CoreSafe' => (mgr'["core"] = mgr["core"] \/ (mgr["core"] # "ON" /\ mgr'["core"] # "ON")),
           mgr'["link"] = mgr["link"] \/ (mgr["link"] # "ON" /\ mgr'["link"] # "ON")
    PROVE  CountsInv'
<1>0. (CoreSafe' => CoreSafe) /\ (LinkSafe' => LinkSafe)
  BY SafeShrinks
<1>1. ASSUME NEW i \in Ctrl
      PROVE  /\ HeldCore(pc, done, mgr, i) = Count(mgr["core"] = "ON")
             /\ HeldLp(pc, done, mgr, i) = Count(mgr["link"] = "ON")
             /\ HeldHs(pc, done, mgr, i) = Count(mgr["link"] = "ON")
  BY StartHeld DEF ClockInv
<1>2. ASSUME NEW i \in Ctrl
      PROVE  /\ HeldCore(pc', done', mgr', i) = Count(mgr'["core"] = "ON")
             /\ HeldLp(pc', done', mgr', i) = Count(mgr'["link"] = "ON")
             /\ HeldHs(pc', done', mgr', i) = Count(mgr'["link"] = "ON")
  BY DEF Coherent, StartPc, AtStart, HeldCore, HeldLp, HeldHs, Count
<1>3. /\ CoreSafe' => Count(mgr'["core"] = "ON") = Count(mgr["core"] = "ON")
      /\ Count(mgr'["link"] = "ON") = Count(mgr["link"] = "ON")
  BY DEF Count
<1>4. CoreSafe' => CoreCounts'
  <2>1. CoreSafe' => \A i \in Ctrl : en'["power"][i] = HeldCore(pc', done', mgr', i)
                                  /\ en'["core"][i] = HeldCore(pc', done', mgr', i)
    BY <1>0, <1>1, <1>2, <1>3 DEF ClockInv, CountsInv, CoreCounts
  <2>. QED BY <2>1 DEF CoreCounts, HeldCore, Count
<1>5. LinkSafe' => LinkCounts'
  <2>1. LinkSafe' => \A i \in Ctrl : en'["escPrep"][i] = HeldLp(pc', done', mgr', i)
                                  /\ en'["esc"][i] = HeldLp(pc', done', mgr', i)
                                  /\ en'["hs"][i] = HeldHs(pc', done', mgr', i)
    BY <1>0, <1>1, <1>2, <1>3 DEF ClockInv, CountsInv, LinkCounts
  <2>. QED BY <2>1 DEF LinkCounts, HeldLp, HeldHs, Count
<1>. QED BY <1>4, <1>5 DEF CountsInv

\* A recheck begins a transition that fits the states it finds.
LEMMA ClockRecheck ==
    ASSUME BaseInv, ClockInv, pc = "idle", NoGate',
           NEW o, NEW c, NEW v, NEW list, Recheck(o, c, v, list),
           UNCHANGED <<mgr, en, done, failed>>,
           o = "destroy" => list = {}
    PROVE  ClockInv'
<1>. DEFINE w == Wanted(v, list)
<1>t. /\ mgr \in [Domain -> ClkState] /\ done = {} /\ Domain = {"core", "link"}
      /\ mgr["core"] \in {"ON", "OFF"} /\ mgr["link"] \in {"ON", "OFF"}
      /\ AtStart
  BY DEF BaseInv, TypeInv, TypeOK, NoGate, ClkState, Domain, ClockInv, Order, AtStart, StartPc
<1>1. w \in [Domain -> ClkState \cup {"same"}]
  BY WantedType
<1>2. want' = w /\ pc' = FirstPart(w) /\ mgr' = mgr /\ en' = en /\ done' = {}
      /\ failed' = failed /\ op' = o
  BY <1>t DEF Recheck
<1>3. \A d \in Domain : w[d] # mgr[d] /\ w[d] \in {"same", "ON", "OFF"}
  <2>. TAKE d \in Domain
  <2>1. w[d] # mgr[d]
    BY <1>t DEF Wanted, ClkState
  <2>2. w[d] # "EARLY_GATE"
    BY <1>2 DEF NoGate
  <2>. QED BY <1>1, <2>1, <2>2 DEF ClkState
<1>d. o = "destroy" => \A d \in Domain : /\ w[d] # "ON"
                                         /\ w[d] = "same" => mgr[d] = "OFF"
  <2>. SUFFICES ASSUME o = "destroy", NEW d \in Domain
                PROVE  w[d] # "ON" /\ (w[d] = "same" => mgr[d] = "OFF")
    OBVIOUS
  <2>1. Aggregate(v[d], list) = "OFF"
    BY AggregateEmpty
  <2>. QED BY <2>1 DEF Wanted
<1>. HIDE DEF w
<1>4. pc' \in {"ret", "preOn", "coreOn", "coreOff", "lpOn", "hsOff"}
  BY <1>1, <1>2, FirstPartType DEF NoGate, GatePc
<1>5. CASE w["core"] = "ON"
  <2>1. pc' \in {"preOn", "coreOn"}
    BY <1>2, <1>5 DEF FirstPart
  <2>2. Coherent' /\ Pending' /\ Order'
    BY <1>2, <1>3, <1>5, <1>t, <2>1 DEF Coherent, Pending, Order, CoreOnPc, LinkOnPc, CoreOffPc, LinkOffPc
  <2>3. Freeing'
    BY <1>2, <1>5, <1>d, <1>t DEF Freeing
  <2>4. AtStart'
    BY <1>2, <1>4 DEF AtStart, StartPc
  <2>. QED BY <1>2, <1>t, <2>2, <2>3, <2>4, StartCounts DEF ClockInv
<1>6. CASE w["core"] # "ON"
  <2>1. pc' = LinkPart(w, mgr["core"])
    BY <1>2, <1>6 DEF FirstPart
  <2>2. pc' = "coreOff" => w["core"] = "OFF"
    BY <1>2, <1>1, <1>3, <1>4, <1>t, FirstPartType
  <2>3. /\ pc' = "lpOn" => w["link"] = "ON"
        /\ pc' = "hsOff" => w["link"] = "OFF"
    BY <1>2, <1>1, <1>3, <1>4, <1>t, FirstPartType
  <2>4. pc' \notin {"preOn", "coreOn"}
    BY <1>1, <2>1, LinkPartType
  <2>5. Coherent' /\ Pending' /\ Order'
    BY <1>2, <1>3, <1>4, <1>6, <1>t, <2>2, <2>3, <2>4 DEF Coherent, Pending, Order, CoreOnPc, LinkOnPc, CoreOffPc, LinkOffPc
  <2>6. Freeing'
    <3>1. pc' \in {"coreOff", "ret"} => w["link"] = "same"
      BY <2>1, <1>1, <1>t DEF LinkPart, ClkState
    <3>2. pc' = "ret" => w["core"] = "same"
      <4>1. pc' = "ret" => CorePart(w, mgr["core"], FALSE) = "ret"
        BY <2>1, <3>1 DEF LinkPart
      <4>. QED BY <4>1, <1>1, <1>6, CorePartDone
    <3>. QED BY <1>2, <1>4, <1>d, <1>t, <2>3, <2>4, <3>1, <3>2 DEF Freeing
  <2>7. AtStart'
    BY <1>2, <1>4 DEF AtStart, StartPc
  <2>. QED BY <1>2, <1>t, <2>5, <2>6, <2>7, StartCounts DEF ClockInv
<1>. QED BY <1>5, <1>6

LEMMA ClockFrame == ClockInv /\ UNCHANGED <<en, mgr, pc, op, done, want, failed>> => ClockInv'
BY DEF ClockInv, CountsInv, CoreCounts, LinkCounts, CoreSafe, LinkSafe, Pair, Coherent, Pending,
       Order, Freeing, HeldCore, HeldLp, HeldHs

\* One controller of a loop over the core clocks.
LEMMA CoreLoop ==
    ASSUME BaseInv, ClockInv, NEW i \in Ctrl, UNCHANGED <<pc, op, mgr, want, failed>>,
           i \notin done, done' = done \cup {i},
           \/ pc = "coreOn" /\ en' = Bump(en, CoreKinds, i, 1) /\ Master \in done'
           \/ pc = "coreOff" /\ en' = Bump(en, CoreKinds, i, -1)
                /\ (i = Master => done' = Ctrl)
    PROVE  ClockInv'
<1>t. /\ en \in [Kind -> [Ctrl -> Int]] /\ done \in SUBSET Ctrl
      /\ Kind = {"power", "core", "escPrep", "esc", "hs"}
  BY DEF BaseInv, TypeInv, TypeOK, Kind
<1>e. en \in [Kind -> [Ctrl -> Int]]
  BY <1>t
<1>1. PICK n \in {1, -1} : /\ en' = Bump(en, CoreKinds, i, n)
                           /\ n = 1 <=> pc = "coreOn"
  OBVIOUS
<1>2. \A k \in Kind, j \in Ctrl :
         en'[k][j] = IF k \in CoreKinds /\ j = i THEN en[k][j] + n ELSE en[k][j]
  <2>1. CoreKinds \in SUBSET Kind /\ n \in Int
    BY <1>t DEF CoreKinds
  <2>2. \A k \in Kind, j \in Ctrl : Bump(en, CoreKinds, i, n)[k][j]
           = IF k \in CoreKinds /\ j = i THEN en[k][j] + n ELSE en[k][j]
    BY <1>e, <2>1, BumpValue
  <2>. QED BY <1>1, <2>2
<1>3. CountsInv'
  <2>1. ASSUME NEW j \in Ctrl
        PROVE  /\ HeldCore(pc, done', mgr, j) = HeldCore(pc, done, mgr, j) + (IF j = i THEN n ELSE 0)
               /\ HeldLp(pc, done', mgr, j) = HeldLp(pc, done, mgr, j)
               /\ HeldHs(pc, done', mgr, j) = HeldHs(pc, done, mgr, j)
    BY <1>1 DEF HeldCore, HeldLp, HeldHs, Count
  <2>2. \A j \in Ctrl : HeldCore(pc, done, mgr, j) \in Int
    BY DEF HeldCore, Count
  <2>3. CoreSafe' => CoreCounts'
    BY <1>2, <1>t, <2>1, <2>2
       DEF ClockInv, CountsInv, CoreSafe, Pair, CoreCounts, CoreKinds, HeldCore
  <2>4. LinkSafe' => LinkCounts'
    BY <1>2, <1>t, <2>1
       DEF ClockInv, CountsInv, LinkSafe, LinkCounts, CoreKinds, HeldLp, HeldHs
  <2>. QED BY <2>3, <2>4 DEF CountsInv
<1>4. Coherent' /\ Pending' /\ Freeing'
  BY DEF ClockInv, Coherent, Pending, Freeing
<1>5. Order'
  BY <1>t DEF ClockInv, Order, CoreOnPc, CoreOffPc, LinkOnPc, LinkOffPc
<1>. QED BY <1>3, <1>4, <1>5 DEF ClockInv

\* One controller of a loop over link clocks.
LEMMA LinkLoop ==
    ASSUME BaseInv, ClockInv, NEW i \in Ctrl, UNCHANGED <<pc, op, mgr, want, failed>>,
           i \notin done, done' = done \cup {i},
           \/ pc \in LinkOnPc /\ en' = Bump(en, LinkKinds(LinkType(pc)), i, 1) /\ Master \in done'
           \/ pc \in LinkOffPc /\ en' = Bump(en, LinkKinds(LinkType(pc)), i, -1)
                /\ (i = Master => done' = Ctrl)
    PROVE  ClockInv'
<1>t. /\ en \in [Kind -> [Ctrl -> Int]] /\ done \in SUBSET Ctrl
      /\ Kind = {"power", "core", "escPrep", "esc", "hs"}
  BY DEF BaseInv, TypeInv, TypeOK, Kind
<1>e. en \in [Kind -> [Ctrl -> Int]]
  BY <1>t
<1>. DEFINE K == LinkKinds(LinkType(pc))
<1>1. PICK n \in {1, -1} : /\ en' = Bump(en, K, i, n)
                           /\ n = 1 => pc \in LinkOnPc
                           /\ n = -1 => pc \in LinkOffPc
  OBVIOUS
<1>k. /\ K \in SUBSET Kind /\ "power" \notin K /\ "core" \notin K
      /\ "esc" \in K <=> "LP" \in LinkType(pc)
      /\ "escPrep" \in K <=> "LP" \in LinkType(pc)
      /\ "hs" \in K <=> "HS" \in LinkType(pc)
  BY <1>t DEF LinkKinds, LpKinds
<1>p. pc \in {"lpOn", "hsOn", "forceOn", "lpOff", "hsOff", "forceOff"}
  BY DEF LinkOnPc, LinkOffPc
<1>l. /\ "LP" \in LinkType(pc) <=> pc \in {"lpOn", "forceOn", "lpOff", "forceOff"}
      /\ "HS" \in LinkType(pc) <=> pc \in {"hsOn", "forceOn", "hsOff", "forceOff"}
  BY <1>p DEF LinkType
<1>. HIDE DEF K
<1>2. \A k \in Kind, j \in Ctrl :
         en'[k][j] = IF k \in K /\ j = i THEN en[k][j] + n ELSE en[k][j]
  <2>1. n \in Int /\ K \in SUBSET Kind
    BY <1>k
  <2>2. \A k \in Kind, j \in Ctrl : Bump(en, K, i, n)[k][j]
           = IF k \in K /\ j = i THEN en[k][j] + n ELSE en[k][j]
    BY <1>e, <2>1, BumpValue
  <2>. QED BY <1>1, <2>2
<1>3. CountsInv'
  <2>1. ASSUME NEW j \in Ctrl
        PROVE  /\ HeldCore(pc, done', mgr, j) = HeldCore(pc, done, mgr, j)
               /\ HeldLp(pc, done', mgr, j) = HeldLp(pc, done, mgr, j)
                     + (IF j = i /\ "LP" \in LinkType(pc) THEN n ELSE 0)
               /\ HeldHs(pc, done', mgr, j) = HeldHs(pc, done, mgr, j)
                     + (IF j = i /\ "HS" \in LinkType(pc) THEN n ELSE 0)
    BY <1>1, <1>p, <1>l DEF HeldCore, HeldLp, HeldHs, Count, LinkOnPc, LinkOffPc
  <2>2. \A j \in Ctrl : HeldLp(pc, done, mgr, j) \in Int /\ HeldHs(pc, done, mgr, j) \in Int
    BY DEF HeldLp, HeldHs, Count
  <2>3. CoreSafe' => CoreCounts'
    BY <1>2, <1>t, <1>k, <2>1 DEF ClockInv, CountsInv, CoreSafe, Pair, CoreCounts, HeldCore
  <2>4. LinkSafe' => LinkCounts'
    BY <1>2, <1>t, <1>k, <2>1, <2>2
       DEF ClockInv, CountsInv, LinkSafe, LinkCounts, HeldLp, HeldHs
  <2>. QED BY <2>3, <2>4 DEF CountsInv
<1>4. Coherent' /\ Pending' /\ Freeing'
  BY DEF ClockInv, Coherent, Pending, Freeing
<1>5. Order'
  BY <1>t, <1>p DEF ClockInv, Order, CoreOnPc, CoreOffPc, LinkOnPc, LinkOffPc
<1>. QED BY <1>3, <1>4, <1>5 DEF ClockInv

\* A call that a failure ends, in a state in which the core's counts are right
\* or no longer vouched for, and the link's as well.
LEMMA FailedCounts ==
    ASSUME ClockInv, pc' = "ret", UNCHANGED <<op, mgr, want>>,
           CoreSafe' => CoreCounts', LinkSafe' => LinkCounts', op # "destroy"
    PROVE  ClockInv'
BY DEF ClockInv, CountsInv, Coherent, Pending, Order, Freeing, CoreOnPc, CoreOffPc,
       LinkOnPc, LinkOffPc

\* A controller whose core clocks do not start.
LEMMA CoreStartFails ==
    ASSUME BaseInv, ClockInv, NEW i \in Ctrl, pc = "coreOn", UpNext(i), Fail("core_start"),
           en' = IF i = Master THEN en ELSE Bump(en, CoreKinds, Master, -1),
           pc' = "ret", UNCHANGED <<done, op, mgr, want>>
    PROVE  ClockInv'
<1>t. /\ en \in [Kind -> [Ctrl -> Int]] /\ done \in SUBSET Ctrl /\ Master \in Ctrl
      /\ Kind = {"power", "core", "escPrep", "esc", "hs"}
  BY CtrlAssumption DEF BaseInv, TypeInv, TypeOK, Kind
<1>e. en \in [Kind -> [Ctrl -> Int]]
  BY <1>t
<1>f. failed' = failed \cup {"core_start"}
  BY DEF Fail
<1>1. mgr["core"] = "OFF" /\ op # "destroy" /\ (done = {} \/ Master \in done)
  BY DEF ClockInv, Coherent, Freeing, Order, CoreOnPc
<1>2. i \in Ctrl \ done /\ (i = Master \/ Master \in done)
  BY DEF UpNext
<1>3. \A k \in Kind, j \in Ctrl :
         en'[k][j] = IF i # Master /\ k \in CoreKinds /\ j = Master THEN en[k][j] - 1 ELSE en[k][j]
  <2>1. CoreKinds \in SUBSET Kind /\ -1 \in Int /\ Master \in Ctrl
    BY <1>t DEF CoreKinds
  <2>2. \A k \in Kind, j \in Ctrl : Bump(en, CoreKinds, Master, -1)[k][j]
           = IF k \in CoreKinds /\ j = Master THEN en[k][j] + -1 ELSE en[k][j]
    BY <1>e, <2>1, BumpValue
  <2>3. \A k \in Kind, j \in Ctrl : en[k][j] + -1 = en[k][j] - 1
    BY <1>e
  <2>4. CASE i = Master
    BY <2>4
  <2>5. CASE i # Master
    BY <2>2, <2>3, <2>5
  <2>. QED BY <2>4, <2>5
<1>4. LinkSafe' => LinkCounts'
  <2>1. LinkSafe' => LinkSafe
    BY <1>f, SafeShrinks
  <2>2. \A j \in Ctrl : /\ HeldLp("ret", done, mgr, j) = HeldLp(pc, done, mgr, j)
                        /\ HeldHs("ret", done, mgr, j) = HeldHs(pc, done, mgr, j)
    BY DEF HeldLp, HeldHs
  <2>. QED BY <1>t, <1>3, <2>1, <2>2 DEF ClockInv, CountsInv, LinkCounts, CoreKinds
<1>5. CoreSafe' => CoreCounts'
  <2>. SUFFICES ASSUME CoreSafe' PROVE CoreCounts'
    OBVIOUS
  <2>1. CoreSafe /\ Pair
    BY <1>f DEF CoreSafe, Pair
  <2>2. ASSUME NEW j \in Ctrl, NEW k \in CoreKinds PROVE en'[k][j] = 0
    <3>1. en[k][j] = Count(j \in done) /\ k \in Kind
      BY <2>1, <1>t DEF ClockInv, CountsInv, CoreCounts, HeldCore, CoreKinds
    <3>2. CASE i = Master
      BY <1>1, <1>2, <1>3, <3>1, <3>2 DEF Count
    <3>3. CASE i # Master
      <4>1. j = Master \/ j = i
        BY <2>1, <3>3 DEF Pair
      <4>. QED BY <1>2, <1>3, <3>1, <3>3, <4>1 DEF Count
    <3>. QED BY <3>2, <3>3
  <2>3. \A j \in Ctrl : HeldCore(pc', done', mgr', j) = 0
    BY <1>1 DEF HeldCore, Count
  <2>. QED BY <2>2, <2>3 DEF CoreCounts, CoreKinds
<1>. QED BY <1>1, <1>4, <1>5, FailedCounts

\* Core clocks that do not stop, on the way down or when a start is cleaned up:
\* nothing is claimed of them any more, and the link clocks are not touched.
LEMMA CoreStopFails ==
    ASSUME BaseInv, ClockInv, NEW i \in Ctrl, pc \in {"coreOff", "coreOn"},
           NEW F, failed' = failed \cup F, "core_stop" \in F,
           NEW K \in SUBSET CoreKinds, en' = en \/ en' = Bump(en, K, i, -1),
           pc' = "ret", UNCHANGED <<op, mgr, want>>
    PROVE  ClockInv'
<1>t. /\ en \in [Kind -> [Ctrl -> Int]]
      /\ Kind = {"power", "core", "escPrep", "esc", "hs"}
  BY DEF BaseInv, TypeInv, TypeOK, Kind
<1>e. en \in [Kind -> [Ctrl -> Int]]
  BY <1>t
<1>1. \A k \in {"escPrep", "esc", "hs"}, j \in Ctrl : en'[k][j] = en[k][j]
  <2>1. K \in SUBSET Kind /\ -1 \in Int /\ K \cap {"escPrep", "esc", "hs"} = {}
    BY <1>t DEF CoreKinds
  <2>2. \A k \in Kind, j \in Ctrl : Bump(en, K, i, -1)[k][j]
           = IF k \in K /\ j = i THEN en[k][j] + -1 ELSE en[k][j]
    BY <1>e, <2>1, BumpValue
  <2>. QED BY <1>t, <2>1, <2>2
<1>2. ~CoreSafe'
  BY DEF CoreSafe
<1>3. LinkSafe' => LinkCounts'
  <2>1. LinkSafe' => LinkSafe
    BY SafeShrinks
  <2>2. \A j \in Ctrl : /\ HeldLp("ret", done', mgr, j) = HeldLp(pc, done, mgr, j)
                        /\ HeldHs("ret", done', mgr, j) = HeldHs(pc, done, mgr, j)
    BY DEF HeldLp, HeldHs
  <2>. QED BY <1>1, <2>1, <2>2 DEF ClockInv, CountsInv, LinkCounts
<1>4. Coherent' /\ Pending' /\ Order' /\ Freeing'
  BY DEF ClockInv, Coherent, Pending, Order, Freeing, CoreOnPc, CoreOffPc, LinkOnPc, LinkOffPc
<1>. QED BY <1>2, <1>3, <1>4 DEF ClockInv, CountsInv

\* Link clocks that do not start: the same with the parts exchanged.
LEMMA LinkStartFails ==
    ASSUME BaseInv, ClockInv, pc \in LinkOnPc,
           NEW f \in {"lp_start", "hs_start", "post_clkon_cb"}, Fail(f),
           \A k \in CoreKinds, j \in Ctrl : en'[k][j] = en[k][j],
           pc' = "ret", UNCHANGED <<op, mgr, want>>
    PROVE  ClockInv'
<1>f. failed' = failed \cup {f}
  BY DEF Fail
<1>1. ~LinkSafe'
  BY <1>f DEF LinkSafe
<1>2. op # "destroy"
  BY DEF ClockInv, Freeing, LinkOnPc
<1>3. CoreSafe' => CoreCounts'
  <2>1. CoreSafe' => CoreSafe
    BY <1>f, SafeShrinks
  <2>2. \A j \in Ctrl : HeldCore("ret", done', mgr, j) = HeldCore(pc, done, mgr, j)
    BY DEF HeldCore, LinkOnPc
  <2>. QED BY <2>1, <2>2 DEF ClockInv, CountsInv, CoreCounts, CoreKinds
<1>. QED BY <1>1, <1>2, <1>3, FailedCounts


\* Whatever becomes of a link clock, the core clocks are not touched.
LEMMA LinkStartCore ==
    ASSUME TypeOK, NEW i \in Ctrl, LinkEnable(i)
    PROVE  \A k \in CoreKinds, j \in Ctrl : en'[k][j] = en[k][j]
<1>. DEFINE t == LinkType(pc)
            u == IF i # Master /\ t # {"LP", "HS"}
                   THEN Bump(en, LinkKinds(t), Master, -1) ELSE en
<1>1. CoreKinds \subseteq Kind /\ CoreKinds \cap LinkKinds(t) = {}
      /\ CoreKinds \cap LpKinds = {} /\ CoreKinds \cap {"escPrep"} = {}
  BY DEF CoreKinds, Kind, LinkKinds, LpKinds
<1>2. en' \in {u, Bump(en, LinkKinds(t), i, 1), Bump(u, {"escPrep"}, i, -1),
               Bump(u, LpKinds, i, 1)}
  BY DEF LinkEnable
<1>. HIDE DEF t
<1>3. ASSUME NEW e, NEW K, NEW j, NEW n, CoreKinds \cap K = {}
      PROVE  \A k \in CoreKinds : Bump(e, K, j, n)[k] = e[k]
  BY <1>1, <1>3 DEF Bump
<1>4. \A k \in CoreKinds : u[k] = en[k]
  BY <1>1, <1>3
<1>. HIDE DEF u
<1>5. /\ \A k \in CoreKinds : Bump(en, LinkKinds(t), i, 1)[k] = en[k]
      /\ \A k \in CoreKinds : Bump(u, {"escPrep"}, i, -1)[k] = u[k]
      /\ \A k \in CoreKinds : Bump(u, LpKinds, i, 1)[k] = u[k]
  BY <1>1, <1>3
<1>. QED BY <1>2, <1>4, <1>5

LEMMA ClockNext == BaseInv /\ ClockInv /\ NoGate' /\ [Next]_vars => ClockInv'
<1>. SUFFICES ASSUME BaseInv, ClockInv, NoGate', [Next]_vars PROVE ClockInv'
  OBVIOUS
<1>t. /\ mgr \in [Domain -> ClkState] /\ want \in [Domain -> ClkState \cup {"same"}]
      /\ Domain = {"core", "link"} /\ WantOK /\ pc \notin GatePc /\ lcOn = FALSE
      /\ \A d \in Domain : mgr[d] \in {"ON", "OFF"} /\ want[d] \in {"same", "ON", "OFF"}
  BY DEF BaseInv, TypeInv, TypeOK, NoGate, ClkState, Domain
<1>p. /\ CorePart(want, mgr["core"], FALSE) \in {"ret", "coreOff"}
      /\ LinkPart(want, "ON") \in {"ret", "coreOff", "lpOn", "hsOff"}
  BY <1>t, NoGateParts DEF BaseInv, TypeInv
<1>q. CorePart(want, mgr["core"], FALSE) = "coreOff" => want["core"] = "OFF"
  BY <1>t, CorePartType
\* A transition that stays in step with the counts.
<1>s. ASSUME failed \subseteq failed', UNCHANGED en, Coherent', Pending', Order', Freeing',
             \A j \in Ctrl : /\ HeldCore(pc', done', mgr', j) = HeldCore(pc, done, mgr, j)
                             /\ HeldLp(pc', done', mgr', j) = HeldLp(pc, done, mgr, j)
                             /\ HeldHs(pc', done', mgr', j) = HeldHs(pc, done, mgr, j)
      PROVE  ClockInv'
  <2>1. (CoreSafe' => CoreSafe) /\ (LinkSafe' => LinkSafe)
    BY <1>s, SafeShrinks
  <2>2. CoreCounts => CoreCounts'
    BY <1>s DEF CoreCounts, HeldCore, Count
  <2>3. LinkCounts => LinkCounts'
    BY <1>s DEF LinkCounts, HeldLp, HeldHs, Count
  <2>. QED BY <1>s, <2>1, <2>2, <2>3 DEF ClockInv, CountsInv
<1>. USE DEF voteVars, callVars, faultVars
<1>1. CASE MngrRegister
  BY <1>1, ClockFrame DEF MngrRegister
<1>2. CASE MngrDeregister
  BY <1>2, ClockRecheck DEF MngrDeregister
<1>3. ASSUME NEW c \in Client, Register(c) PROVE ClockInv'
  BY <1>3, ClockFrame DEF Register
<1>4. ASSUME NEW c \in Client, Deregister(c) PROVE ClockInv'
  BY <1>4, ClockRecheck DEF Deregister
<1>5. ASSUME NEW c \in Client, ForceUpdate(c) PROVE ClockInv'
  <2>1. /\ pc = "idle" /\ pc' = "forceOff" /\ op' = "force" /\ mgr["link"] = "ON"
        /\ UNCHANGED <<en, mgr, done, want, failed>> /\ done = {}
    BY <1>5, <1>t DEF ForceUpdate, ClockInv, Order
  <2>2. Coherent' /\ Pending' /\ Order' /\ Freeing' /\ AtStart /\ AtStart'
    BY <2>1 DEF Coherent, Pending, Order, Freeing, AtStart, StartPc, CoreOnPc, LinkOnPc,
                CoreOffPc, LinkOffPc
  <2>. QED BY <2>1, <2>2, StartCounts DEF ClockInv
<1>6. ASSUME NEW c \in Client, NEW clk \in SUBSET Domain, NEW s \in ReqStates,
             Req(c, clk, s)
      PROVE  ClockInv'
  <2>1. CASE Recheck("req", c, vote', clients)
    BY <1>6, <2>1, ClockRecheck DEF Req
  <2>2. CASE UNCHANGED <<pc, op, by, want>>
    BY <1>6, <2>2, ClockFrame DEF Req
  <2>. QED BY <1>6, <2>1, <2>2 DEF Req
<1>7. CASE PreClkOn
  <2>1. /\ pc = "preOn" /\ pc' \in {"coreOn", "ret"} /\ done = {}
        /\ UNCHANGED <<en, mgr, op, done, want>> /\ failed \subseteq failed'
    BY <1>7 DEF PreClkOn, ClockInv, Order, Fail, Succeed
  <2>2. Coherent' /\ Pending' /\ Order' /\ Freeing' /\ AtStart /\ AtStart'
    BY <2>1 DEF ClockInv, Coherent, Pending, Order, Freeing, AtStart, StartPc, CoreOnPc,
                LinkOnPc, CoreOffPc, LinkOffPc
  <2>. QED BY <2>1, <2>2, StartCounts DEF ClockInv
<1>8. ASSUME NEW i \in Ctrl, CoreEnable(i) PROVE ClockInv'
  <2>1. /\ pc = "coreOn" /\ UNCHANGED <<mgr, op, want>>
    BY <1>8, <1>t DEF CoreEnable, CoreOnPc, GatePc
  <2>2. CASE Succeed
    <3>1. /\ UNCHANGED <<pc, failed>>
          /\ i \notin done /\ done' = done \cup {i} /\ Master \in done'
          /\ en' = Bump(en, CoreKinds, i, 1)
      <4>1. rc' = 0 /\ failed' = failed /\ UpNext(i)
        BY <1>8, <2>2, SucceedHistory DEF CoreEnable
      <4>2. ~Fail("core_start") /\ ~FailTwice("core_start", "core_stop")
        BY <4>1, FailHistory, FailTwiceHistory
      <4>. QED BY <1>8, <4>1, <4>2 DEF CoreEnable, UpNext
    <3>. QED BY <2>1, <3>1, CoreLoop
  <2>3. CASE Fail("core_start")
    <3>1. /\ failed' = failed \cup {"core_start"} /\ failed' # {} /\ rc' # 0
          /\ faults' = faults + 1 /\ faults \in Int
      BY <2>3, <1>t, BoundsAssumption, FailHistory DEF Fail, BaseInv, TypeInv, TypeOK
    <3>2. ~Succeed /\ ~FailTwice("core_start", "core_stop")
      BY <3>1 DEF Succeed, FailTwice
    <3>. QED BY <1>8, <2>1, <2>3, <3>2, CoreStartFails DEF CoreEnable
  <2>4. CASE FailTwice("core_start", "core_stop")
    <3>1. failed' = failed \cup {"core_start", "core_stop"} /\ rc' # 0
          /\ faults' = faults + 2 /\ faults \in Int
      BY <2>4, BoundsAssumption DEF FailTwice, BaseInv, TypeInv, TypeOK
    <3>2. ~Succeed /\ ~Fail("core_start")
      BY <3>1 DEF Succeed, Fail
    <3>3. en' = Bump(en, {"power"}, Master, -1) /\ pc' = "ret" /\ Master \in Ctrl
      BY <1>8, <3>2, CtrlAssumption DEF CoreEnable
    <3>4. {"power"} \subseteq CoreKinds
      BY DEF CoreKinds
    <3>. QED BY <2>1, <3>1, <3>3, <3>4, CoreStopFails
  <2>. QED BY <1>8, <2>2, <2>3, <2>4 DEF CoreEnable
<1>9. CASE CoreEnabled
  <2>1. /\ pc = "coreOn" /\ done = Ctrl /\ done' = {} /\ mgr' = [mgr EXCEPT !["core"] = "ON"]
        /\ pc' = LinkPart(want, "ON") /\ UNCHANGED <<en, op, want>> /\ failed \subseteq failed'
    BY <1>9, <1>t DEF CoreEnabled, GatePc, Succeed, Fail
  <2>2. want["core"] = "ON" /\ mgr'["core"] = "ON" /\ mgr'["link"] = mgr["link"]
    BY <2>1, <1>t DEF WantOK
  <2>3. pc' \in {"ret", "lpOn", "hsOff"}
    BY <2>1, <2>2, <1>p, <1>t, LinkPartType
  <2>4. /\ pc' = "lpOn" => want["link"] = "ON"
        /\ pc' = "hsOff" => want["link"] = "OFF"
    BY <2>1, <1>t, LinkPartType
  <2>5. Coherent' /\ Pending' /\ Order' /\ Freeing'
    BY <2>1, <2>2, <2>3, <2>4 DEF ClockInv, Coherent, Pending, Order, Freeing, CoreOnPc, LinkOnPc, CoreOffPc, LinkOffPc
  <2>6. ASSUME NEW j \in Ctrl
        PROVE  /\ HeldCore(pc', done', mgr', j) = HeldCore(pc, done, mgr, j)
               /\ HeldLp(pc', done', mgr', j) = HeldLp(pc, done, mgr, j)
               /\ HeldHs(pc', done', mgr', j) = HeldHs(pc, done, mgr, j)
    BY <2>1, <2>2, <2>3, <2>5 DEF HeldCore, HeldLp, HeldHs, Count, Coherent
  <2>. QED BY <2>1, <2>5, <2>6, <1>s
<1>10. ASSUME NEW i \in Ctrl, LinkEnable(i) PROVE ClockInv'
  <2>1. pc \in LinkOnPc /\ UNCHANGED <<op, mgr, want>>
    BY <1>10 DEF LinkEnable
  <2>2. CASE Succeed
    <3>1. /\ UNCHANGED <<pc, failed>>
          /\ i \notin done /\ done' = done \cup {i} /\ Master \in done'
          /\ en' = Bump(en, LinkKinds(LinkType(pc)), i, 1)
      BY <1>10, <2>2 DEF LinkEnable, UpNext, Succeed, Fail
    <3>. QED BY <2>1, <3>1, LinkLoop
  <2>3. CASE ~Succeed
    <3>1. /\ pc' = "ret"
          /\ \E f \in {"lp_start", "hs_start", "post_clkon_cb"} : Fail(f)
      BY <1>10, <2>3 DEF LinkEnable
    <3>2. \A k \in CoreKinds, j \in Ctrl : en'[k][j] = en[k][j]
      BY <1>10, <2>3, LinkStartCore DEF LinkEnable, BaseInv, TypeInv
    <3>. QED BY <2>1, <3>1, <3>2, LinkStartFails
  <2>. QED BY <2>2, <2>3
<1>11. CASE LinkEnabled
  <2>1. CASE Fail("post_clkon_cb") /\ pc \in LinkOnPc /\ pc' = "ret" /\ UNCHANGED mgr
    BY <1>11, <2>1, LinkStartFails DEF LinkEnabled
  <2>2. CASE Succeed
    <3>1. /\ done = Ctrl /\ done' = {} /\ UNCHANGED <<en, op, want, failed>>
          /\ \/ pc = "lpOn" /\ pc' = "hsOn" /\ mgr' = mgr
             \/ /\ pc = "hsOn" /\ mgr' = [mgr EXCEPT !["link"] = "ON"]
                /\ pc' = CorePart(want, mgr["core"], FALSE)
             \/ pc = "forceOn" /\ pc' = "ret" /\ mgr' = mgr
      <4>1. ~Fail("post_clkon_cb") /\ failed' = failed
        BY <2>2, SucceedHistory, FailHistory
      <4>. QED BY <1>11, <4>1 DEF LinkEnabled
    <3>2. /\ mgr'["core"] = mgr["core"]
          /\ mgr'["link"] = IF pc = "hsOn" THEN "ON" ELSE mgr["link"]
          /\ pc = "hsOn" => pc' \in {"ret", "coreOff"} /\ (pc' = "coreOff" => want["core"] = "OFF")
      BY <3>1, <1>t, <1>p, <1>q
    <3>3. Coherent' /\ Pending' /\ Order' /\ Freeing'
      BY <3>1, <3>2 DEF ClockInv, Coherent, Pending, Order, Freeing, CoreOnPc, LinkOnPc, CoreOffPc, LinkOffPc
    <3>4. ASSUME NEW j \in Ctrl
          PROVE  /\ HeldCore(pc', done', mgr', j) = HeldCore(pc, done, mgr, j)
                 /\ HeldLp(pc', done', mgr', j) = HeldLp(pc, done, mgr, j)
                 /\ HeldHs(pc', done', mgr', j) = HeldHs(pc, done, mgr, j)
      BY <3>1, <3>2, <3>3 DEF HeldCore, HeldLp, HeldHs, Count, ClockInv, Coherent
    <3>. QED BY <3>1, <3>3, <3>4, <1>s
  <2>. QED BY <1>11, <2>1, <2>2 DEF LinkEnabled
<1>12. ASSUME NEW i \in Ctrl, LinkDisable(i) PROVE ClockInv'
  <2>1. /\ pc \in LinkOffPc /\ UNCHANGED <<pc, op, mgr, want, failed>>
        /\ i \notin done /\ done' = done \cup {i} /\ (i = Master => done' = Ctrl)
        /\ en' = Bump(en, LinkKinds(LinkType(pc)), i, -1)
    BY <1>12 DEF LinkDisable, DownNext, BaseInv, TypeInv, TypeOK, Succeed
  <2>. QED BY <2>1, LinkLoop
<1>13. CASE LinkDisabled
  <2>1. /\ done = Ctrl /\ done' = {} /\ UNCHANGED <<en, op, want, failed>>
        /\ \/ pc = "hsOff" /\ pc' = "lpOff" /\ mgr' = mgr
           \/ pc = "forceOff" /\ pc' = "forceOn" /\ mgr' = mgr
           \/ /\ pc = "lpOff" /\ mgr' = [mgr EXCEPT !["link"] = want["link"]]
              /\ pc' = CorePart(want, mgr["core"], FALSE)
    BY <1>13, <1>t DEF LinkDisabled, Succeed
  <2>2. /\ mgr'["core"] = mgr["core"]
        /\ mgr'["link"] = IF pc = "lpOff" THEN "OFF" ELSE mgr["link"]
        /\ pc = "lpOff" => pc' \in {"ret", "coreOff"} /\ (pc' = "coreOff" => want["core"] = "OFF")
    BY <2>1, <1>t, <1>p, <1>q DEF WantOK
  <2>3. Coherent' /\ Pending' /\ Order'
    BY <2>1, <2>2 DEF ClockInv, Coherent, Pending, Order, CoreOnPc, LinkOnPc, CoreOffPc, LinkOffPc
  <2>4. Freeing'
    <3>1. CASE op = "destroy" /\ pc' = "ret"
      <4>0. pc = "lpOff" /\ CorePart(want, mgr["core"], FALSE) = "ret"
        BY <2>1, <3>1
      <4>1. Wishes /\ clients = {} /\ want["core"] \in {"same", "ON"}
        BY <4>0, <3>1, <1>t, CorePartDone DEF BaseInv, VotesInv
      <4>2. mgr["core"] = "OFF"
        BY <4>1, <1>t, AggregateEmpty DEF Wishes, Goal
      <4>. QED BY <2>2, <3>1, <4>0, <4>2 DEF Freeing
    <3>2. CASE op # "destroy" \/ pc' # "ret"
      BY <2>1, <2>2, <3>2 DEF ClockInv, Freeing
    <3>. QED BY <3>1, <3>2
  <2>5. ASSUME NEW j \in Ctrl
        PROVE  /\ HeldCore(pc', done', mgr', j) = HeldCore(pc, done, mgr, j)
               /\ HeldLp(pc', done', mgr', j) = HeldLp(pc, done, mgr, j)
               /\ HeldHs(pc', done', mgr', j) = HeldHs(pc, done, mgr, j)
    BY <2>1, <2>2, <2>3 DEF HeldCore, HeldLp, HeldHs, Count, ClockInv, Coherent
  <2>. QED BY <2>1, <2>3, <2>4, <2>5, <1>s
<1>14. ASSUME NEW i \in Ctrl, CoreDisable(i) PROVE ClockInv'
  <2>1. pc = "coreOff" /\ UNCHANGED <<mgr, op, want>>
    BY <1>14, <1>t DEF CoreDisable, CoreOffPc, GatePc
  <2>2. CASE Succeed
    <3>1. /\ UNCHANGED <<pc, failed>>
          /\ i \notin done /\ done' = done \cup {i} /\ (i = Master => done' = Ctrl)
          /\ en' = Bump(en, CoreKinds, i, -1)
      <4>1. ~Fail("core_stop") /\ failed' = failed
        BY <2>2, SucceedHistory, FailHistory
      <4>2. /\ DownNext(i) /\ pc' = pc /\ done' = done \cup {i}
            /\ en' = Bump(en, CoreKinds, i, -1)
        BY <1>14, <4>1 DEF CoreDisable
      <4>3. done \in SUBSET Ctrl
        BY DEF BaseInv, TypeInv, TypeOK
      <4>. QED BY <4>1, <4>2, <4>3 DEF DownNext
    <3>. QED BY <2>1, <3>1, CoreLoop
  <2>3. CASE Fail("core_stop")
    <3>1. /\ pc' = "ret" /\ failed' = failed \cup {"core_stop"}
          /\ en' = en \/ en' = Bump(en, {"core"}, i, -1)
      BY <1>14, <2>3, FailHistory, SucceedHistory DEF CoreDisable, Fail
    <3>2. {"core"} \subseteq CoreKinds
      BY DEF CoreKinds
    <3>. QED BY <2>1, <3>1, <3>2, CoreStopFails
  <2>. QED BY <1>14, <2>2, <2>3 DEF CoreDisable
<1>15. CASE CoreDisabled
  <2>1. /\ pc = "coreOff" /\ done = Ctrl /\ done' = {} /\ UNCHANGED <<en, op, want>>
        /\ pc' = "ret" /\ mgr' = [mgr EXCEPT !["core"] = want["core"]]
        /\ failed \subseteq failed'
    BY <1>15, <1>t DEF CoreDisabled, GatePc, Succeed, Fail
  <2>2. mgr'["core"] = "OFF" /\ mgr'["link"] = mgr["link"]
    BY <2>1, <1>t DEF WantOK
  <2>3. Coherent' /\ Pending' /\ Order' /\ Freeing'
    BY <2>1, <2>2 DEF ClockInv, Coherent, Pending, Order, Freeing, CoreOnPc, LinkOnPc, CoreOffPc, LinkOffPc
  <2>4. ASSUME NEW j \in Ctrl
        PROVE  /\ HeldCore(pc', done', mgr', j) = HeldCore(pc, done, mgr, j)
               /\ HeldLp(pc', done', mgr', j) = HeldLp(pc, done, mgr, j)
               /\ HeldHs(pc', done', mgr', j) = HeldHs(pc, done, mgr, j)
    BY <2>1, <2>2 DEF HeldCore, HeldLp, HeldHs, Count
  <2>. QED BY <2>1, <2>3, <2>4, <1>s
<1>16. CASE Return
  <2>1. /\ pc = "ret" /\ pc' = "idle" /\ op' = "none" /\ done' = {} /\ en' = en
        /\ mgr' = IF op = "destroy" THEN AllOff ELSE mgr
        /\ failed' = failed
    BY <1>16 DEF Return
  <2>2. mgr'["link"] = mgr["link"]
    BY <2>1, <1>t DEF ClockInv, Freeing, AllOff
  <2>3. CoreSafe' => mgr'["core"] = mgr["core"]
    BY <2>1, <1>t DEF ClockInv, Freeing, AllOff, CoreSafe
  <2>4. Coherent' /\ Pending' /\ Order' /\ Freeing' /\ AtStart /\ AtStart'
    BY <2>1 DEF Coherent, Pending, Order, Freeing, AtStart, StartPc, CoreOnPc, LinkOnPc,
                CoreOffPc, LinkOffPc
  <2>. QED BY <2>1, <2>2, <2>3, <2>4, StartCounts DEF ClockInv
<1>17. CASE UNCHANGED vars
  BY <1>17, ClockFrame DEF vars
<1>. QED
  BY <1>1, <1>2, <1>3, <1>4, <1>5, <1>6, <1>7, <1>8, <1>9, <1>10, <1>11, <1>12,
     <1>13, <1>14, <1>15, <1>16, <1>17 DEF Next, Call, Step


LEMMA ClockInvariant ==
    ASSUME ReqStates \subseteq {"ON", "OFF"}
    PROVE  Spec => [](BaseInv /\ ClockInv)
<1>1. Init => NoGate
  BY DEF Init, NoGate, GatePc, AllOff, NoWant
<1>2. Init => ClockInv
  BY DEF Init, ClockInv, CountsInv, CoreCounts, LinkCounts, Coherent, Pending, Order, Freeing,
         HeldCore, HeldLp, HeldHs, Count, Kind, AllOff, CoreOnPc, LinkOnPc, CoreOffPc,
         LinkOffPc, Domain
<1>3. TypeInv /\ VotesInv /\ NoGate /\ ClockInv /\ [Next]_vars
        => TypeInv' /\ VotesInv' /\ NoGate' /\ ClockInv'
  BY TypeInvNext, VotesNext, NoGateNext, ClockNext DEF BaseInv
<1>4. Init => TypeInv /\ VotesInv
  BY TypeInvInit, AggregateEmpty DEF Init, VotesInv, Wishes, Reached, Goal, AllOff, NoWant
<1>. QED BY <1>1, <1>2, <1>3, <1>4, PTL DEF Spec, BaseInv

\* Where nothing has failed the counts are all vouched for.
LEMMA UnfailedSafe == ClockInv /\ Unfailed => CoreCounts /\ LinkCounts
BY DEF ClockInv, CountsInv, CoreSafe, LinkSafe, Unfailed

\* When nothing fails, no history of votes, registrations and rate updates
\* leaks or loses an enable: between two calls every controller holds one of
\* each clock of a domain that is ON, none of the others.
THEOREM ClocksMatchStateHolds ==
    ASSUME Faults = {}, ReqStates \subseteq {"ON", "OFF"}
    PROVE  Spec => []ClocksMatchState
<1>1. BaseInv /\ CoreCounts /\ LinkCounts => ClocksMatchState
  BY DEF BaseInv, NoGate, CoreCounts, LinkCounts, ClocksMatchState, Matches, KindsOf, CoreKinds,
         LpKinds, Kind, Domain, HeldCore, HeldLp, HeldHs, Count
<1>. QED BY <1>1, ClockInvariant, NoFailures, UnfailedSafe, PTL

\* Nor is one given back that is not held, at any step of any call.
THEOREM NoUnderflowHolds ==
    ASSUME Faults = {}, ReqStates \subseteq {"ON", "OFF"}
    PROVE  Spec => []NoUnderflow
<1>1. CoreCounts /\ LinkCounts => NoUnderflow
  BY DEF CoreCounts, LinkCounts, NoUnderflow, Kind, HeldCore, HeldLp, HeldHs, Count
<1>. QED BY <1>1, ClockInvariant, NoFailures, UnfailedSafe, PTL

\* The master's enables cover those of the other controllers wherever the
\* counts are vouched for.
LEMMA CountsCover == BaseInv /\ ClockInv /\ CoreCounts /\ LinkCounts => MasterCovers
<1>1. ASSUME BaseInv, ClockInv, CoreCounts, LinkCounts, NEW k \in Kind, NEW i \in Ctrl, en[k][i] > 0
      PROVE  en[k][Master] > 0
  <2>t. Master \in Ctrl /\ done \in SUBSET Ctrl /\ pc \in Pc
    BY <1>1, CtrlAssumption DEF BaseInv, TypeInv, TypeOK
  <2>1. /\ HeldCore(pc, done, mgr, i) > 0 => HeldCore(pc, done, mgr, Master) > 0
        /\ HeldLp(pc, done, mgr, i) > 0 => HeldLp(pc, done, mgr, Master) > 0
        /\ HeldHs(pc, done, mgr, i) > 0 => HeldHs(pc, done, mgr, Master) > 0
    BY <1>1, <2>t DEF ClockInv, Order, HeldCore, HeldLp, HeldHs, Count, CoreOnPc, LinkOnPc, CoreOffPc, LinkOffPc
  <2>. QED BY <1>1, <2>t, <2>1 DEF CoreCounts, LinkCounts, Kind
<1>. QED BY <1>1 DEF MasterCovers

\* And no controller runs a clock that its source, the master, does not.
THEOREM MasterCoversHolds ==
    ASSUME Faults = {}, ReqStates \subseteq {"ON", "OFF"}
    PROVE  Spec => []MasterCovers
BY ClockInvariant, NoFailures, UnfailedSafe, CountsCover, PTL

\* Two controllers, and any failures but that of a stop: once the call has
\* returned the core clocks fit their state.  With a third controller this
\* would not hold, since only the master is stopped again.
THEOREM CoreSurvivesFaultsHolds ==
    ASSUME Pair, ReqStates \subseteq {"ON", "OFF"}
    PROVE  Spec => []CoreSurvivesFaults
<1>1. BaseInv /\ ClockInv => CoreSurvivesFaults
  BY DEF BaseInv, NoGate, ClockInv, CountsInv, CoreSafe, CoreCounts, CoreSurvivesFaults,
         Matches, KindsOf, CoreKinds, Domain, HeldCore, Count
<1>. QED BY <1>1, ClockInvariant, PTL

-----------------------------------------------------------------------------
(* The high-speed clocks under failures.                                    *)

\* Only a post_clkon_cb that fails leaves a high-speed clock on unaccounted.
HsInv ==
    "post_clkon_cb" \notin failed => \A j \in Ctrl : en["hs"][j] <= HeldHs(pc, done, mgr, j)

\* A step that starts none keeps to the account if it allows as many as before.
LEMMA HsFrame ==
    ASSUME HsInv, TypeOK, failed \subseteq failed', en'["hs"] = en["hs"],
           \A j \in Ctrl : HeldHs(pc, done, mgr, j) <= HeldHs(pc', done', mgr', j)
    PROVE  HsInv'
<1>1. \A j \in Ctrl : /\ en["hs"][j] \in Int
                      /\ HeldHs(pc, done, mgr, j) \in Int
                      /\ HeldHs(pc', done', mgr', j) \in Int
  BY DEF TypeOK, Kind, HeldHs, Count
<1>. QED BY <1>1 DEF HsInv

\* The high-speed clocks of a controller in a loop over link clocks.
LEMMA HsBump ==
    ASSUME TypeOK, NEW K \in SUBSET Kind, NEW i \in Ctrl, NEW n \in Int
    PROVE  \A j \in Ctrl : Bump(en, K, i, n)["hs"][j]
              = IF "hs" \in K /\ j = i THEN en["hs"][j] + n ELSE en["hs"][j]
<1>1. en \in [Kind -> [Ctrl -> Int]] /\ "hs" \in Kind
  BY DEF TypeOK, Kind
<1>. QED BY <1>1, BumpValue

\* Which loops are over them.
LEMMA HsLoops ==
    ASSUME pc \in LinkOnPc \cup LinkOffPc
    PROVE  /\ LinkKinds(LinkType(pc)) \in SUBSET Kind
           /\ "hs" \in LinkKinds(LinkType(pc)) <=> pc \in {"hsOn", "forceOn", "hsOff", "forceOff"}
           /\ LinkType(pc) = IF pc \in {"forceOn", "forceOff"} THEN {"LP", "HS"}
                             ELSE IF pc \in {"hsOn", "hsOff"} THEN {"HS"} ELSE {"LP"}
BY DEF LinkOnPc, LinkOffPc, LinkType, LinkKinds, LpKinds, Kind

\* One controller's link clocks start, or fail to and have the master's stopped.
LEMMA HsLinkEnable ==
    ASSUME Pair, BaseInv, ClockInv, HsInv, NEW i \in Ctrl, LinkEnable(i)
    PROVE  HsInv'
<1>t. /\ TypeOK /\ Master \in Ctrl /\ \A j \in Ctrl : en["hs"][j] \in Int
      /\ en \in [Kind -> [Ctrl -> Int]]
  BY CtrlAssumption DEF BaseInv, TypeInv, TypeOK, Kind
<1>p. pc \in {"lpOn", "hsOn", "forceOn"} /\ mgr' = mgr /\ UpNext(i)
  BY DEF LinkEnable, LinkOnPc
<1>k. /\ LinkKinds(LinkType(pc)) \in SUBSET Kind
      /\ "hs" \in LinkKinds(LinkType(pc)) <=> pc \in {"hsOn", "forceOn"}
      /\ LinkType(pc) = IF pc = "forceOn" THEN {"LP", "HS"}
                        ELSE IF pc = "hsOn" THEN {"HS"} ELSE {"LP"}
  BY <1>p, HsLoops DEF LinkOnPc
<1>u. i \notin done /\ (i = Master \/ Master \in done) /\ (done = {} \/ Master \in done)
  BY <1>p DEF UpNext, ClockInv, Order, LinkOnPc
<1>m. /\ pc \in {"lpOn", "hsOn"} => mgr["link"] = "OFF"
      /\ pc = "forceOn" => mgr["link"] = "ON"
  BY DEF ClockInv, Coherent
<1>. DEFINE K == LinkKinds(LinkType(pc))
            u == IF i # Master /\ LinkType(pc) # {"LP", "HS"} THEN Bump(en, K, Master, -1) ELSE en
<1>1. \A j \in Ctrl : u["hs"][j] =
         IF pc = "hsOn" /\ i # Master /\ j = Master THEN en["hs"][j] - 1 ELSE en["hs"][j]
  <2>1. \A j \in Ctrl : Bump(en, K, Master, -1)["hs"][j]
                          = IF "hs" \in K /\ j = Master THEN en["hs"][j] + -1 ELSE en["hs"][j]
    BY <1>t, <1>k, HsBump
  <2>2. "hs" \in K <=> pc \in {"hsOn", "forceOn"}
    BY <1>k
  <2>3. LinkType(pc) # {"LP", "HS"} <=> pc # "forceOn"
    BY <1>k
  <2>4. \A j \in Ctrl : en["hs"][j] + -1 = en["hs"][j] - 1
    BY <1>t
  <2>5. CASE i # Master /\ pc # "forceOn"
    <3>1. u = Bump(en, K, Master, -1)
      BY <2>3, <2>5
    <3>. HIDE DEF u, K
    <3>. QED BY <1>p, <2>1, <2>2, <2>4, <2>5, <3>1
  <2>6. CASE i = Master \/ pc = "forceOn"
    <3>1. u = en
      BY <2>3, <2>6
    <3>. HIDE DEF u, K
    <3>. QED BY <2>6, <3>1
  <2>. QED BY <2>5, <2>6
<1>2. \A j \in Ctrl : Bump(en, K, i, 1)["hs"][j] =
         IF pc \in {"hsOn", "forceOn"} /\ j = i THEN en["hs"][j] + 1 ELSE en["hs"][j]
  BY <1>t, <1>k, HsBump
<1>3. Bump(u, {"escPrep"}, i, -1)["hs"] = u["hs"] /\ Bump(u, LpKinds, i, 1)["hs"] = u["hs"]
  BY DEF Bump, LpKinds, Kind
<1>4. \/ /\ en' = Bump(en, K, i, 1) /\ done' = done \cup {i} /\ pc' = pc /\ failed' = failed
      \/ /\ en' = u \/ en' = Bump(u, {"escPrep"}, i, -1) \/ en' = Bump(u, LpKinds, i, 1)
         /\ pc' = "ret" /\ done' = done /\ failed \subseteq failed'
  BY DEF LinkEnable, Succeed, Fail, faultVars
<1>. HIDE DEF K, u
<1>5. CASE en' = Bump(en, K, i, 1) /\ done' = done \cup {i} /\ pc' = pc /\ failed' = failed
  BY <1>2, <1>5, <1>t, <1>u, <1>p DEF HsInv, HeldHs, Count
<1>6. CASE en'["hs"] = u["hs"] /\ pc' = "ret" /\ done' = done /\ failed \subseteq failed'
  <2>1. CASE pc # "hsOn"
    <3>1. \A j \in Ctrl : u["hs"][j] = en["hs"][j]
      BY <1>1, <2>1
    <3>2. \A j \in Ctrl : HeldHs(pc, done, mgr, j) <= HeldHs(pc', done', mgr', j)
      BY <1>6, <1>p, <1>m, <2>1 DEF HeldHs, Count
    <3>3. \A j \in Ctrl : HeldHs(pc, done, mgr, j) \in Int /\ HeldHs(pc', done', mgr', j) \in Int
      BY DEF HeldHs, Count
    <3>. QED BY <1>6, <1>t, <3>1, <3>2, <3>3 DEF HsInv
  <2>2. CASE pc = "hsOn"
    <3>1. \A j \in Ctrl : HeldHs(pc, done, mgr, j) = Count(j \in done)
                          /\ HeldHs(pc', done', mgr', j) = 0
      BY <1>6, <1>p, <1>m, <2>2 DEF HeldHs, Count
    <3>2. CASE i = Master
      <4>1. done = {}
        BY <1>u, <3>2
      <4>. QED BY <1>1, <1>6, <1>t, <3>1, <3>2, <4>1 DEF HsInv, Count
    <3>3. CASE i # Master
      <4>1. \A j \in Ctrl : j = i \/ j = Master
        BY <3>3 DEF Pair
      <4>. QED BY <1>1, <1>6, <1>t, <1>u, <2>2, <3>1, <3>3, <4>1 DEF HsInv, Count
    <3>. QED BY <3>2, <3>3
  <2>. QED BY <2>1, <2>2
<1>. QED BY <1>3, <1>4, <1>5, <1>6

\* Every step keeps the account of the high-speed clocks.
LEMMA HsNext ==
    ASSUME Pair
    PROVE  BaseInv /\ ClockInv /\ NoGate' /\ HsInv /\ [Next]_vars => HsInv'
<1>. SUFFICES ASSUME BaseInv, ClockInv, NoGate', HsInv, [Next]_vars PROVE HsInv'
  OBVIOUS
<1>t. /\ TypeOK /\ Domain = {"core", "link"} /\ mgr \in [Domain -> ClkState]
      /\ pc \in Pc /\ pc \notin GatePc /\ pc' \notin GatePc
  BY DEF BaseInv, TypeInv, TypeOK, NoGate, Domain
<1>w. /\ want \in [Domain -> ClkState \cup {"same"}] /\ WantOK
  BY DEF BaseInv, TypeInv, TypeOK
<1>d. pc \in {"idle", "preOn"} => done = {}
  BY DEF ClockInv, Order
\* The places from which and to which nothing of the account changes.
<1>r. ASSUME en' = en, mgr'["link"] = mgr["link"], failed \subseteq failed',
             pc \in {"idle", "ret", "preOn", "coreOn", "coreOff"},
             pc' \in {"idle", "ret", "preOn", "coreOn", "coreOff", "lpOn"}
                \/ (pc' \in {"hsOff", "forceOff"} /\ done' = {})
      PROVE  HsInv'
  <2>1. \A j \in Ctrl : HeldHs(pc, done, mgr, j) <= HeldHs(pc', done', mgr', j)
    BY <1>r DEF HeldHs, Count
  <2>. QED BY <1>r, <1>t, <2>1, HsFrame
<1>c. ASSUME NEW o, NEW c, NEW v, NEW list, Recheck(o, c, v, list), pc = "idle",
             UNCHANGED <<en, mgr, done, failed>>
      PROVE  HsInv'
  <2>1. pc' \in {"ret", "preOn", "coreOn", "coreOff", "lpOn", "hsOff"}
    <3>1. Wanted(v, list) \in [Domain -> ClkState \cup {"same"}]
      BY WantedType
    <3>. QED BY <1>c, <1>t, <3>1, FirstPartType DEF Recheck, GatePc
  <2>. QED BY <1>c, <1>d, <1>r, <2>1
<1>. USE DEF voteVars, callVars, faultVars
<1>1. CASE MngrRegister \/ \E c \in Client : Register(c)
  BY <1>1, <1>t, HsFrame DEF MngrRegister, Register, HeldHs, Count
<1>2. CASE MngrDeregister
  BY <1>2, <1>c DEF MngrDeregister
<1>4. ASSUME NEW c \in Client, Deregister(c) PROVE HsInv'
  BY <1>4, <1>c DEF Deregister
<1>5. ASSUME NEW c \in Client, ForceUpdate(c) PROVE HsInv'
  BY <1>5, <1>d, <1>r DEF ForceUpdate
<1>6. ASSUME NEW c \in Client, NEW clk \in SUBSET Domain, NEW s \in ReqStates, Req(c, clk, s)
      PROVE  HsInv'
  <2>1. CASE Recheck("req", c, vote', clients)
    BY <1>6, <2>1, <1>c DEF Req
  <2>2. CASE UNCHANGED <<pc, op, by, want>>
    BY <1>6, <2>2, <1>r DEF Req
  <2>. QED BY <1>6, <2>1, <2>2 DEF Req
<1>7. CASE PreClkOn
  BY <1>7, <1>r DEF PreClkOn, Fail, Succeed
<1>8. ASSUME NEW i \in Ctrl, CoreEnable(i) \/ CoreDisable(i) PROVE HsInv'
  <2>1. pc \in {"coreOn", "coreOff"} /\ pc' \in {pc, "ret"} /\ mgr' = mgr
    BY <1>8, <1>t DEF CoreEnable, CoreDisable, CoreOnPc, CoreOffPc, GatePc
  <2>2. en'["hs"] = en["hs"]
    BY <1>8 DEF CoreEnable, CoreDisable, Bump, CoreKinds, Kind
  <2>3. failed \subseteq failed'
    BY <1>8 DEF CoreEnable, CoreDisable, Succeed, Fail, FailTwice
  <2>4. \A j \in Ctrl : HeldHs(pc, done, mgr, j) <= HeldHs(pc', done', mgr', j)
    BY <2>1 DEF HeldHs, Count
  <2>. QED BY <1>t, <2>2, <2>3, <2>4, HsFrame
<1>9. CASE CoreEnabled
  <2>1. /\ pc = "coreOn" /\ done' = {} /\ mgr' = [mgr EXCEPT !["core"] = "ON"] /\ en' = en
        /\ pc' = LinkPart(want, "ON") /\ failed \subseteq failed'
    BY <1>9, <1>t DEF CoreEnabled, GatePc, Succeed, Fail
  <2>2. pc' \in {"ret", "lpOn", "hsOff", "coreOff"}
    BY <2>1, <1>t, <1>w, LinkPartType DEF GatePc
  <2>. QED BY <2>1, <2>2, <1>t, <1>r
<1>10. ASSUME NEW i \in Ctrl, LinkEnable(i) PROVE HsInv'
  BY <1>10, HsLinkEnable
<1>11. CASE LinkEnabled
  <2>1. CASE "post_clkon_cb" \in failed'
    BY <2>1 DEF HsInv
  <2>2. CASE "post_clkon_cb" \notin failed'
    <3>1. /\ done = Ctrl /\ done' = {} /\ en' = en /\ failed' = failed
          /\ \/ pc = "lpOn" /\ pc' = "hsOn" /\ mgr' = mgr
             \/ /\ pc = "hsOn" /\ mgr' = [mgr EXCEPT !["link"] = "ON"]
                /\ pc' = CorePart(want, mgr["core"], FALSE)
             \/ pc = "forceOn" /\ pc' = "ret" /\ mgr' = mgr
      BY <1>11, <2>2 DEF LinkEnabled, Succeed, Fail
    <3>2. /\ mgr'["link"] = IF pc = "hsOn" THEN "ON" ELSE mgr["link"]
          /\ pc = "hsOn" => pc' \in {"ret", "coreOff"}
      <4>1. pc = "hsOn" => pc' \in {"ret", "ecgCoreOn", "coreOff"}
        <5>1. CorePart(want, mgr["core"], FALSE) \in {"ret", "ecgCoreOn", "coreOff"}
          BY <1>w, CorePartType
        <5>. QED BY <3>1, <5>1
      <4>2. mgr'["link"] = IF pc = "hsOn" THEN "ON" ELSE mgr["link"]
        BY <3>1, <1>t
      <4>. QED BY <4>1, <4>2, <1>t DEF GatePc
    <3>3. \A j \in Ctrl : HeldHs(pc, done, mgr, j) <= HeldHs(pc', done', mgr', j)
      <4>1. CASE pc = "lpOn"
        BY <3>1, <4>1 DEF HeldHs, Count, ClockInv, Coherent
      <4>2. CASE pc = "hsOn"
        <5>1. pc' \in {"ret", "coreOff"} /\ mgr'["link"] = "ON"
          BY <3>2, <4>2
        <5>2. \A j \in Ctrl : HeldHs(pc', done', mgr', j) = 1
          BY <5>1 DEF HeldHs, Count
        <5>3. \A j \in Ctrl : HeldHs(pc, done, mgr, j) \in {0, 1}
          BY DEF HeldHs, Count
        <5>. QED BY <5>2, <5>3
      <4>3. CASE pc = "forceOn"
        BY <3>1, <4>3 DEF HeldHs, Count, ClockInv, Coherent
      <4>. QED BY <3>1, <4>1, <4>2, <4>3
    <3>. QED BY <1>t, <3>1, <3>3, HsFrame
  <2>. QED BY <2>1, <2>2
<1>12. ASSUME NEW i \in Ctrl, LinkDisable(i) PROVE HsInv'
  <2>1. /\ pc \in {"hsOff", "lpOff", "forceOff"} /\ pc' = pc /\ mgr' = mgr /\ failed' = failed
        /\ done' = done \cup {i} /\ i \notin done
        /\ en' = Bump(en, LinkKinds(LinkType(pc)), i, -1)
    BY <1>12 DEF LinkDisable, DownNext, LinkOffPc, Succeed
  <2>2. /\ LinkKinds(LinkType(pc)) \in SUBSET Kind
        /\ "hs" \in LinkKinds(LinkType(pc)) <=> pc \in {"hsOff", "forceOff"}
    BY <2>1, HsLoops DEF LinkOffPc
  <2>3. \A j \in Ctrl : en'["hs"][j]
           = IF pc \in {"hsOff", "forceOff"} /\ j = i THEN en["hs"][j] + -1 ELSE en["hs"][j]
    BY <1>t, <2>1, <2>2, HsBump
  <2>4. \A j \in Ctrl : en["hs"][j] \in Int
    BY <1>t DEF TypeOK, Kind
  <2>. QED BY <2>1, <2>3, <2>4 DEF HsInv, HeldHs, Count
<1>13. CASE LinkDisabled
  <2>1. /\ done = Ctrl /\ done' = {} /\ en' = en /\ failed' = failed
        /\ \/ pc = "hsOff" /\ pc' = "lpOff" /\ mgr' = mgr
           \/ pc = "forceOff" /\ pc' = "forceOn" /\ mgr' = mgr
           \/ /\ pc = "lpOff" /\ pc' \in {"ret", "coreOff"}
    <3>1. pc = "lpOff" => pc' \in {"ret", "coreOff", "ecgOff", "ecgCoreOn"}
      BY <1>13, <1>w, CorePartType DEF LinkDisabled
    <3>. QED BY <1>13, <1>t, <3>1 DEF LinkDisabled, Succeed, GatePc
  <2>2. \A j \in Ctrl : HeldHs(pc, done, mgr, j) <= HeldHs(pc', done', mgr', j)
    BY <2>1 DEF HeldHs, Count
  <2>. QED BY <1>t, <2>1, <2>2, HsFrame
<1>15. CASE CoreDisabled
  <2>1. /\ pc = "coreOff" /\ en' = en /\ pc' = "ret" /\ mgr'["link"] = mgr["link"]
        /\ failed \subseteq failed'
    BY <1>15, <1>t DEF CoreDisabled, GatePc, Succeed, Fail
  <2>. QED BY <2>1, <1>r
<1>16. CASE Return
  <2>1. /\ pc = "ret" /\ pc' = "idle" /\ en' = en /\ failed' = failed
        /\ mgr' = IF op = "destroy" THEN AllOff ELSE mgr
    BY <1>16 DEF Return
  <2>2. mgr'["link"] = mgr["link"]
    BY <2>1, <1>t DEF ClockInv, Freeing, AllOff
  <2>. QED BY <2>1, <2>2, <1>r
<1>17. CASE UNCHANGED vars
  BY <1>17, <1>t, HsFrame DEF vars, HeldHs, Count
<1>. QED
  BY <1>1, <1>2, <1>4, <1>5, <1>6, <1>7, <1>8, <1>9, <1>10, <1>11, <1>12,
     <1>13, <1>15, <1>16, <1>17 DEF Next, Call, Step

\* Two controllers, and any failures but that of post_clkon_cb: no call, failed
\* or not, leaves a high-speed clock on or enabled twice.
THEOREM NoHsLeakHolds ==
    ASSUME Pair, ReqStates \subseteq {"ON", "OFF"}
    PROVE  Spec => []NoHsLeak
<1>1. Init => HsInv
  BY DEF Init, HsInv, HeldHs, Count, Kind, AllOff, Domain
<1>2. BaseInv /\ ClockInv /\ HsInv => NoHsLeak
  BY DEF HsInv, NoHsLeak, HeldHs, Count
<1>3. BaseInv /\ ClockInv /\ BaseInv' /\ HsInv /\ [Next]_vars => HsInv'
  BY HsNext DEF BaseInv
<1>. QED BY <1>1, <1>2, <1>3, ClockInvariant, PTL DEF Spec

-----------------------------------------------------------------------------
(* What clients are granted: link clocks under core clocks, clocks that run *)
(* as long as they are held, and the refinement of SharedClock.  These rest *)
(* on three more invariants: how the votes of one client nest, that the     *)
(* link is ON only under the core, and whose vote the manager has already   *)
(* acted on.                                                                *)

-----------------------------------------------------------------------------
(* Votes nest as the callers' requests do.                                  *)

\* What one client holds: link clocks under core clocks, and, unless its
\* deregistration has taken both votes away, a vote where there is a count.
NestedClient(c) ==
    /\ ref["link"][c] <= ref["core"][c]
    /\ \A d \in Domain : vote[d][c] = "ON" => ref[d][c] > 0
    /\ \/ \A d \in Domain : ref[d][c] > 0 => vote[d][c] = "ON"
       \/ \A d \in Domain : vote[d][c] = "OFF"

Nested == \A c \in Client : NestedClient(c)

\* One domain of one client before and after a request for ON or OFF.
LEMMA RequestPairs ==
    ASSUME NEW r \in Nat, NEW v \in {"ON", "OFF"}, NEW s \in {"ON", "OFF"}, v = "ON" <=> r > 0
    PROVE  NewVote(r, v, s) = "ON" <=> NewRef(r, s) > 0
BY DEF NewVote, NewRef

LEMMA NestedReq ==
    ASSUME TypeOK, NoGate, Nested, ReqStates \subseteq {"ON", "OFF"},
           NEW c \in Client, NEW clk \in SUBSET Domain, NEW s \in ReqStates, Req(c, clk, s)
    PROVE  Nested'
<1>t. /\ ref \in [Domain -> [Client -> 0..MaxRef]] /\ vote \in [Domain -> [Client -> ClkState]]
      /\ Domain = {"core", "link"} /\ MaxRef \in Nat
      /\ \A d \in Domain, x \in Client : vote[d][x] \in {"ON", "OFF"} /\ ref[d][x] \in Nat
  BY BoundsAssumption DEF TypeOK, NoGate, ClkState, Domain
<1>1. \A d \in Domain : ref'[d] = IF d \in clk THEN [ref[d] EXCEPT ![c] = NewRef(@, s)] ELSE ref[d]
  BY DEF Req
<1>2. \A d \in Domain : vote'[d] = IF d \in clk
         THEN [vote[d] EXCEPT ![c] = NewVote(ref[d][c], @, s)] ELSE vote[d]
  BY DEF Req
<1>3. ASSUME NEW x \in Client, x # c PROVE NestedClient(x)'
  <2>1. \A d \in Domain : ref'[d][x] = ref[d][x] /\ vote'[d][x] = vote[d][x]
    BY <1>1, <1>2, <1>3, <1>t
  <2>2. NestedClient(x)
    BY DEF Nested
  <2>. QED BY <2>1, <2>2, <1>t DEF NestedClient
<1>4. NestedClient(c)'
  <2>1. \A d \in Domain : vote[d][c] = "ON" <=> ref[d][c] > 0
    BY <1>t DEF Req, Usable, Nested, NestedClient
  <2>2. ASSUME NEW d \in Domain
        PROVE  /\ ref'[d][c] = IF d \in clk THEN NewRef(ref[d][c], s) ELSE ref[d][c]
               /\ vote'[d][c] = IF d \in clk THEN NewVote(ref[d][c], vote[d][c], s) ELSE vote[d][c]
    BY <1>1, <1>2, <1>t
  <2>3. ASSUME NEW d \in Domain PROVE vote'[d][c] = "ON" <=> ref'[d][c] > 0
    <3>1. s \in {"ON", "OFF"} /\ ref[d][c] \in Nat /\ vote[d][c] \in {"ON", "OFF"}
      BY <1>t
    <3>2. NewVote(ref[d][c], vote[d][c], s) = "ON" <=> NewRef(ref[d][c], s) > 0
      BY <3>1, <2>1, RequestPairs
    <3>. QED BY <2>1, <2>2, <3>2
  <2>4. ref'["link"][c] <= ref'["core"][c]
    BY <2>2, <1>t DEF Req, CallerNests
  <2>. QED BY <2>3, <2>4 DEF NestedClient
<1>. QED BY <1>3, <1>4 DEF Nested

LEMMA NestedNext ==
    ASSUME ReqStates \subseteq {"ON", "OFF"}
    PROVE  TypeInv /\ NoGate /\ Nested /\ [Next]_vars => Nested'
<1>. SUFFICES ASSUME TypeInv, NoGate, Nested, [Next]_vars PROVE Nested'
  OBVIOUS
<1>t. /\ TypeOK /\ Domain = {"core", "link"}
      /\ ref \in [Domain -> [Client -> 0..MaxRef]] /\ vote \in [Domain -> [Client -> ClkState]]
      /\ \A d \in Domain, x \in Client : ref[d][x] \in Int
  BY BoundsAssumption DEF TypeInv, TypeOK, Domain
<1>1. ASSUME NEW c \in Client, Register(c) PROVE Nested'
  <2>1. ASSUME NEW d \in Domain, NEW x \in Client
        PROVE  /\ ref'[d][x] = IF x = c THEN 0 ELSE ref[d][x]
               /\ vote'[d][x] = IF x = c THEN "OFF" ELSE vote[d][x]
    BY <1>1, <1>t DEF Register
  <2>. QED BY <2>1, <1>t DEF Nested, NestedClient
<1>2. ASSUME NEW c \in Client, Deregister(c) PROVE Nested'
  <2>1. ASSUME NEW d \in Domain, NEW x \in Client
        PROVE  ref' = ref /\ vote'[d][x] = IF x = c THEN "OFF" ELSE vote[d][x]
    BY <1>2, <1>t DEF Deregister
  <2>. QED BY <2>1, <1>t DEF Nested, NestedClient
<1>3. ASSUME NEW c \in Client, NEW clk \in SUBSET Domain, NEW s \in ReqStates, Req(c, clk, s)
      PROVE  Nested'
  BY <1>3, <1>t, NestedReq
<1>4. CASE UNCHANGED <<ref, vote>>
  BY <1>4 DEF Nested, NestedClient
<1>5. CASE Step
  BY <1>4, <1>5 DEF Step, voteVars, PreClkOn, CoreEnable, CoreEnabled, LinkEnable, LinkEnabled,
     LinkDisable, LinkDisabled, CoreDisable, CoreDisabled, Return
<1>. QED
  BY <1>1, <1>2, <1>3, <1>4, <1>5 DEF Next, Call, vars, MngrRegister, MngrDeregister, ForceUpdate

\* Link clocks are voted for only under core clocks.
LEMMA GoalNests ==
    ASSUME TypeInv, NoGate, Nested, Goal("link") = "ON" PROVE Goal("core") = "ON"
<1>t. Domain = {"core", "link"} /\ clients \subseteq Client
      /\ \A d \in Domain, x \in Client : ref[d][x] \in Int
  BY BoundsAssumption DEF TypeInv, TypeOK, Domain
<1>1. PICK c \in clients : vote["link"][c] = "ON"
  BY DEF Goal, Aggregate
<1>2. vote["core"][c] = "ON"
  BY <1>1, <1>t DEF Nested, NestedClient
<1>. QED BY <1>1, <1>2 DEF Goal, Aggregate

-----------------------------------------------------------------------------
(* The link is ON only under the core.                                      *)

LinkUnderCore == mgr["link"] = "ON" => mgr["core"] = "ON"

\* Where the call is about to start link clocks, and where it stops core
\* clocks.
LEMMA TransitionNests ==
    ASSUME BaseInv, Nested
    PROVE  /\ pc \in {"lpOn", "hsOn"} => mgr["core"] = "ON"
           /\ pc = "coreOff" => mgr["link"] # "ON"
<1>t. /\ Domain = {"core", "link"} /\ VotesInv /\ WantOK
      /\ want["core"] # "EARLY_GATE" /\ want["link"] # "EARLY_GATE"
      /\ want["core"] \in ClkState \cup {"same"}
  BY DEF BaseInv, TypeInv, TypeOK, NoGate, Domain
<1>n. Goal("link") = "ON" => Goal("core") = "ON"
  BY GoalNests DEF BaseInv
<1>1. CASE pc \in {"lpOn", "hsOn"}
  <2>1. Wishes /\ want["link"] = "ON" /\ (want["core"] = "ON" => mgr["core"] = "ON")
    BY <1>1, <1>t DEF VotesInv, WantOK
  <2>2. Goal("core") = "ON"
    BY <2>1, <1>t, <1>n DEF Wishes
  <2>. QED BY <1>1, <2>1, <2>2, <1>t DEF Wishes
<1>2. CASE pc = "coreOff"
  <2>1. Wishes /\ want["core"] = "OFF" /\ mgr["link"] = Goal("link")
    BY <1>2, <1>t DEF VotesInv, WantOK
  <2>. QED BY <1>2, <2>1, <1>t, <1>n DEF Wishes
<1>. QED BY <1>1, <1>2

LEMMA LinkUnderCoreNext ==
    BaseInv /\ Nested /\ LinkUnderCore /\ [Next]_vars => LinkUnderCore'
<1>. SUFFICES ASSUME BaseInv, Nested, LinkUnderCore, [Next]_vars PROVE LinkUnderCore'
  OBVIOUS
<1>t. /\ mgr \in [Domain -> ClkState] /\ Domain = {"core", "link"} /\ WantOK /\ pc \notin GatePc
      /\ \A d \in Domain : want[d] # "EARLY_GATE"
  BY DEF BaseInv, TypeInv, TypeOK, NoGate, Domain
<1>u. CASE UNCHANGED mgr
  BY <1>u DEF LinkUnderCore
<1>1. CASE Call
  BY <1>u, <1>1 DEF Call, MngrRegister, MngrDeregister, Register, Deregister, ForceUpdate, Req
<1>2. CASE CoreEnabled
  BY <1>2, <1>t DEF CoreEnabled, LinkUnderCore
<1>3. CASE LinkEnabled
  BY <1>3, <1>t, TransitionNests DEF LinkEnabled, LinkUnderCore
<1>4. CASE LinkDisabled
  BY <1>4, <1>t DEF LinkDisabled, LinkUnderCore, WantOK
<1>5. CASE CoreDisabled
  BY <1>5, <1>t, TransitionNests DEF CoreDisabled, LinkUnderCore, GatePc
<1>6. CASE Return
  BY <1>6 DEF Return, LinkUnderCore, AllOff, Domain
<1>. QED
  BY <1>u, <1>1, <1>2, <1>3, <1>4, <1>5, <1>6 DEF Next, Step, vars, PreClkOn, CoreEnable,
     LinkEnable, LinkDisable, CoreDisable

LEMMA NestInvariant ==
    ASSUME ReqStates \subseteq {"ON", "OFF"}
    PROVE  Spec => [](BaseInv /\ ClockInv /\ Nested /\ LinkUnderCore)
<1>1. Init => Nested /\ LinkUnderCore
  BY DEF Init, Nested, NestedClient, LinkUnderCore, AllOff, Domain
<1>2. BaseInv /\ Nested /\ LinkUnderCore /\ [Next]_vars => Nested' /\ LinkUnderCore'
  BY NestedNext, LinkUnderCoreNext DEF BaseInv
<1>. QED BY <1>1, <1>2, ClockInvariant, PTL DEF Spec

\* The counts of link clocks are covered by those of the core clocks.
LEMMA CountsNest ==
    ASSUME BaseInv, ClockInv, Nested, LinkUnderCore, CoreCounts, LinkCounts
    PROVE  LinkNeedsCore
<1>. SUFFICES ASSUME NEW i \in Ctrl, en["esc"][i] > 0 \/ en["hs"][i] > 0
              PROVE  en["core"][i] > 0
  BY DEF LinkNeedsCore
<1>1. /\ en["core"][i] = HeldCore(pc, done, mgr, i)
      /\ HeldLp(pc, done, mgr, i) > 0 \/ HeldHs(pc, done, mgr, i) > 0
  BY DEF CoreCounts, LinkCounts
<1>2. pc \in {"lpOn", "hsOn"} \/ mgr["link"] = "ON"
  BY <1>1 DEF HeldLp, HeldHs, Count, ClockInv, Coherent
<1>3. mgr["core"] = "ON" /\ pc # "coreOff"
  BY <1>2, TransitionNests DEF LinkUnderCore
<1>4. pc # "coreOn"
  BY <1>3 DEF ClockInv, Coherent
<1>. QED BY <1>1, <1>3, <1>4 DEF HeldCore, Count

\* Two controllers, and any failures but those that leave clocks on: link
\* clocks run only over core clocks and the slave only under the master, in
\* every call and in the middle of every loop.
THEOREM OrderSurvivesFaultsHolds ==
    ASSUME Pair, ReqStates \subseteq {"ON", "OFF"}
    PROVE  Spec => []OrderSurvivesFaults
<1>1. ASSUME BaseInv, ClockInv, Nested, LinkUnderCore PROVE OrderSurvivesFaults
  <2>. SUFFICES ASSUME failed \cap Leaks = {} PROVE LinkNeedsCore /\ MasterCovers
    BY DEF OrderSurvivesFaults
  <2>1. CoreCounts /\ LinkCounts
    BY <1>1 DEF ClockInv, CountsInv, CoreSafe, LinkSafe, Leaks
  <2>. QED BY <1>1, <2>1, CountsNest, CountsCover
<1>. QED BY <1>1, NestInvariant, PTL

-----------------------------------------------------------------------------
(* Whose vote the manager has acted on.                                     *)

\* An ON request that returns at once has found its vote ON, and where nothing
\* fails the manager is between two calls where the votes want it, so that the
\* success it returns is true.
THEOREM ImmediateOnIsOnHolds == ASSUME Faults = {} PROVE Spec => ImmediateOnIsOn
<1>. DEFINE FindsOn == \A c \in Client, d \in Domain :
               (pc = "idle" /\ pc' = "idle" /\ ref'[d][c] > ref[d][c]) => mgr[d] = "ON"
<1>1. TypeInv /\ VotesInv /\ Unfailed /\ [Next]_vars => FindsOn
  <2>. SUFFICES ASSUME TypeInv, VotesInv, Unfailed, [Next]_vars, NEW c \in Client, NEW d \in Domain,
                       pc = "idle", pc' = "idle", ref'[d][c] > ref[d][c]
                PROVE  mgr[d] = "ON"
    OBVIOUS
  <2>t. /\ ref \in [Domain -> [Client -> 0..MaxRef]] /\ MaxRef \in Nat /\ TypeOK
        /\ \A x \in Domain, y \in Client : ref[x][y] \in Nat
    BY BoundsAssumption DEF TypeInv, TypeOK
  <2>n. ref' # ref
    BY <2>t
  <2>1. CASE \E x \in Client : Register(x)
    <3>1. ref'[d][c] \in {0, ref[d][c]}
      BY <2>1, <2>t DEF Register
    <3>. QED BY <3>1, <2>t
  <2>2. ASSUME NEW x \in Client, NEW clk \in SUBSET Domain, NEW s \in ReqStates, Req(x, clk, s)
        PROVE  mgr[d] = "ON"
    <3>1. ref'[d] = IF d \in clk THEN [ref[d] EXCEPT ![x] = NewRef(@, s)] ELSE ref[d]
      BY <2>2 DEF Req
    <3>2. d \in clk /\ x = c /\ NewRef(ref[d][c], s) > ref[d][c]
      BY <3>1, <2>t
    <3>3. s = "ON"
      BY <3>2, <2>t DEF NewRef
    <3>4. ~Changed(ref[d][c], vote[d][c], s)
      <4>1. ASSUME Recheck("req", x, vote', clients) PROVE FALSE
        BY <4>1, FirstPartType, WantedType DEF Recheck
      <4>. QED BY <2>2, <3>2, <4>1 DEF Req
    <3>5. vote[d][c] = "ON" /\ c \in clients
      BY <2>2, <3>2, <3>3, <3>4 DEF Changed, Req
    <3>6. Goal(d) = "ON"
      BY <3>5 DEF Goal, Aggregate
    <3>. QED BY <3>6 DEF VotesInv, Unfailed, Reached
  <2>. QED BY <2>n, <2>1, <2>2 DEF Next, Call, Step, vars, voteVars, MngrRegister, MngrDeregister,
       Deregister, ForceUpdate, PreClkOn, CoreEnable, CoreEnabled, LinkEnable, LinkEnabled,
       LinkDisable, LinkDisabled, CoreDisable, CoreDisabled, Return
<1>. QED BY <1>1, VotesInvariant, NoFailures, PTL DEF Spec, ImmediateOnIsOn

\* A vote for ON has been acted on unless the call under way is about it.
Granted ==
    \A c \in clients, d \in Domain : (vote[d][c] = "ON" /\ by # c) => mgr[d] = "ON"

\* A step between two calls, or at their beginning, that adds no such vote.
LEMMA GrantedFrame ==
    ASSUME VotesInv, Unfailed, pc = "idle", UNCHANGED mgr,
           \A c \in clients', d \in Domain :
              (vote'[d][c] = "ON" /\ by' # c) => c \in clients /\ vote[d][c] = "ON"
    PROVE  Granted'
<1>1. ASSUME NEW c \in clients, NEW d \in Domain, vote[d][c] = "ON" PROVE mgr[d] = "ON"
  <2>1. Goal(d) = "ON"
    BY <1>1 DEF Goal, Aggregate
  <2>. QED BY <2>1 DEF VotesInv, Unfailed, Reached
<1>. QED BY <1>1 DEF Granted

\* A step of a call that moves no domain but to where it is wanted.
LEMMA GrantedStep ==
    ASSUME VotesInv, Granted, pc # "idle", UNCHANGED <<voteVars, by>>,
           \A d \in Domain : \/ mgr'[d] = mgr[d]
                             \/ Wishes /\ want[d] # "same" /\ mgr'[d] = want[d]
    PROVE  Granted'
<1>. SUFFICES ASSUME NEW c \in clients, NEW d \in Domain, vote[d][c] = "ON", by # c
              PROVE  mgr'[d] = "ON"
  BY DEF Granted, voteVars
<1>1. mgr[d] = "ON"
  BY DEF Granted
<1>2. Goal(d) = "ON"
  BY DEF Goal, Aggregate
<1>. QED BY <1>1, <1>2 DEF Wishes

LEMMA GrantedNext ==
    TypeInv /\ VotesInv /\ Unfailed /\ Granted /\ [Next]_vars => Granted'
<1>. SUFFICES ASSUME TypeInv, VotesInv, Unfailed, Granted, [Next]_vars PROVE Granted'
  OBVIOUS
<1>t. /\ TypeOK /\ WantOK /\ Domain = {"core", "link"} /\ mgr \in [Domain -> ClkState]
      /\ vote \in [Domain -> [Client -> ClkState]] /\ clients \subseteq Client
      /\ "same" \notin ClkState
  BY DEF TypeInv, TypeOK, Domain, ClkState
<1>. USE DEF voteVars, callVars
<1>1. CASE MngrRegister
  BY <1>1 DEF MngrRegister, Granted
<1>2. CASE MngrDeregister
  BY <1>2, GrantedFrame DEF MngrDeregister, Recheck
<1>3. ASSUME NEW c \in Client, Register(c) PROVE Granted'
  <2>1. \A d \in Domain, x \in Client : vote'[d][x] = IF x = c THEN "OFF" ELSE vote[d][x]
    BY <1>3, <1>t DEF Register
  <2>. QED BY <1>3, <2>1, <1>t, GrantedFrame DEF Register
<1>4. ASSUME NEW c \in Client, Deregister(c) PROVE Granted'
  <2>1. \A d \in Domain, x \in Client : vote'[d][x] = IF x = c THEN "OFF" ELSE vote[d][x]
    BY <1>4, <1>t DEF Deregister
  <2>. QED BY <1>4, <2>1, <1>t, GrantedFrame DEF Deregister
<1>5. ASSUME NEW c \in Client, ForceUpdate(c) PROVE Granted'
  BY <1>5, GrantedFrame DEF ForceUpdate
<1>6. ASSUME NEW c \in Client, NEW clk \in SUBSET Domain, NEW s \in ReqStates, Req(c, clk, s)
      PROVE  Granted'
  <2>1. pc = "idle" /\ UNCHANGED <<mgr, clients>>
    BY <1>6 DEF Req
  <2>2. CASE \E d \in clk : Changed(ref[d][c], vote[d][c], s)
    <3>1. by' = c
      BY <1>6, <2>2 DEF Req, Recheck
    <3>2. \A d \in Domain : vote'[d] = IF d \in clk
            THEN [vote[d] EXCEPT ![c] = NewVote(ref[d][c], @, s)] ELSE vote[d]
      BY <1>6 DEF Req
    <3>3. \A d \in Domain, x \in Client : x # c => vote'[d][x] = vote[d][x]
      BY <3>2, <1>t
    <3>. QED BY <2>1, <3>1, <3>3, <1>t, GrantedFrame
  <2>3. CASE ~\E d \in clk : Changed(ref[d][c], vote[d][c], s)
    <3>1. \A d \in Domain : vote'[d] = vote[d]
      BY <1>6, <2>3, <1>t, QuietReq
    <3>. QED BY <2>1, <3>1, GrantedFrame
  <2>. QED BY <2>2, <2>3
<1>7. CASE UNCHANGED <<voteVars, by, mgr>>
  BY <1>7 DEF Granted
<1>8. CASE CoreEnabled
  <2>1. CASE pc = "coreOn"
    <3>1. Wishes /\ want["core"] = "ON"
      BY <2>1, <1>t DEF VotesInv, WantOK
    <3>. QED BY <1>8, <2>1, <3>1, <1>t, GrantedStep DEF CoreEnabled
  <2>. QED BY <1>7, <1>8, <2>1 DEF CoreEnabled
<1>9. CASE LinkEnabled
  <2>1. CASE pc = "hsOn"
    <3>1. Wishes /\ want["link"] = "ON"
      BY <2>1, <1>t DEF VotesInv, WantOK
    <3>2. mgr' = mgr \/ mgr' = [mgr EXCEPT !["link"] = "ON"]
      BY <1>9 DEF LinkEnabled
    <3>. QED BY <1>9, <2>1, <3>1, <3>2, <1>t, GrantedStep DEF LinkEnabled
  <2>. QED BY <1>7, <1>9, <2>1 DEF LinkEnabled
<1>10. CASE LinkDisabled
  <2>1. CASE pc = "lpOff"
    <3>1. Wishes /\ want["link"] # "same"
      BY <2>1, <1>t DEF VotesInv, WantOK
    <3>2. mgr' = mgr \/ mgr' = [mgr EXCEPT !["link"] = want["link"]]
      BY <1>10 DEF LinkDisabled
    <3>. QED BY <1>10, <2>1, <3>1, <3>2, <1>t, GrantedStep DEF LinkDisabled
  <2>. QED BY <1>7, <1>10, <2>1 DEF LinkDisabled
<1>11. CASE CoreDisabled
  <2>1. Wishes
    BY <1>11 DEF VotesInv, CoreDisabled
  <2>2. CASE pc = "coreOff"
    <3>1. want["core"] # "same" /\ mgr' = [mgr EXCEPT !["core"] = want["core"]]
      BY <1>11, <2>2, <1>t DEF WantOK, CoreDisabled
    <3>. QED BY <1>11, <2>1, <2>2, <3>1, <1>t, GrantedStep DEF CoreDisabled
  <2>3. CASE pc = "ecgOff"
    <3>1. want["link"] # "same" /\ mgr' = [mgr EXCEPT !["link"] = want["link"]]
      BY <1>11, <2>3, <1>t DEF WantOK, CoreDisabled
    <3>. QED BY <1>11, <2>1, <2>3, <3>1, <1>t, GrantedStep DEF CoreDisabled
  <2>. QED BY <1>11, <2>2, <2>3 DEF CoreDisabled
<1>12. CASE Return
  <2>1. Reached'
    BY <1>12, ReturnKeepsGoal DEF Return, VotesInv, Unfailed
  <2>2. ASSUME NEW c \in clients', NEW d \in Domain, vote'[d][c] = "ON" PROVE mgr'[d] = "ON"
    <3>1. Goal(d)' = "ON"
      BY <2>2 DEF Goal, Aggregate
    <3>. QED BY <2>1, <3>1 DEF Reached
  <2>. QED BY <2>2 DEF Granted
<1>. QED
  BY <1>1, <1>2, <1>3, <1>4, <1>5, <1>6, <1>7, <1>8, <1>9, <1>10, <1>11, <1>12
     DEF Next, Call, Step, vars, PreClkOn, CoreEnable, LinkEnable, LinkDisable, CoreDisable

\* Everything the clients' view rests on when nothing fails.
GrantInv == BaseInv /\ ClockInv /\ Unfailed /\ Granted

LEMMA GrantInvariant ==
    ASSUME Faults = {}, ReqStates \subseteq {"ON", "OFF"}
    PROVE  Spec => []GrantInv
<1>1. Init => Granted
  BY DEF Init, Granted
<1>2. BaseInv /\ Unfailed /\ Granted /\ [Next]_vars => Granted'
  BY GrantedNext DEF BaseInv
<1>. QED BY <1>1, <1>2, ClockInvariant, NoFailures, PTL DEF Spec, GrantInv

\* A domain that is ON and wanted ON runs on every controller, except that a
\* rate update takes the link clocks down.
LEMMA OnRuns ==
    ASSUME GrantInv, NEW d \in Domain, mgr[d] = "ON", Goal(d) = "ON",
           ~(d = "link" /\ op = "force")
    PROVE  Running(d)
<1>t. /\ VotesInv /\ WantOK /\ Coherent /\ CoreCounts /\ LinkCounts
      /\ Domain = {"core", "link"}
  BY UnfailedSafe DEF GrantInv, BaseInv, TypeInv, ClockInv, Domain
<1>1. CASE d = "core"
  <2>1. pc # "coreOn"
    BY <1>1, <1>t DEF Coherent
  <2>2. pc # "coreOff"
    BY <1>1, <1>t DEF VotesInv, Wishes, WantOK
  <2>. QED BY <1>1, <1>t, <2>1, <2>2 DEF Running, KindsOf, CoreKinds, CoreCounts, HeldCore, Count
<1>2. CASE d = "link"
  <2>1. pc \notin {"lpOn", "hsOn"}
    BY <1>2, <1>t DEF Coherent
  <2>2. pc \notin {"hsOff", "lpOff"}
    BY <1>2, <1>t DEF VotesInv, Wishes, WantOK
  <2>3. pc \notin {"forceOff", "forceOn"}
    BY <1>2, <1>t DEF VotesInv
  <2>4. \A i \in Ctrl : HeldLp(pc, done, mgr, i) = 1 /\ HeldHs(pc, done, mgr, i) = 1
    BY <1>2, <2>1, <2>2, <2>3 DEF HeldLp, HeldHs, Count
  <2>. QED BY <1>2, <1>t, <2>4 DEF Running, KindsOf, LpKinds, LinkCounts
<1>. QED BY <1>1, <1>2, <1>t

\* Nobody takes away what a client has been granted: while it votes ON and no
\* call of its own is under way, its clocks run on every controller, through
\* every step of the other clients' calls.
THEOREM GrantedClocksRunHolds ==
    ASSUME Faults = {}, ReqStates \subseteq {"ON", "OFF"}
    PROVE  Spec => []GrantedClocksRun
<1>1. ASSUME GrantInv, NEW c \in clients, NEW d \in Domain, vote[d][c] = "ON", by # c,
             ~(d = "link" /\ op = "force")
      PROVE  Running(d)
  <2>1. mgr[d] = "ON" /\ Goal(d) = "ON"
    BY <1>1 DEF GrantInv, Granted, Goal, Aggregate
  <2>. QED BY <1>1, <2>1, OnRuns
<1>2. GrantInv => GrantedClocksRun
  BY <1>1 DEF GrantedClocksRun, Running
<1>. QED BY <1>2, GrantInvariant, PTL

-----------------------------------------------------------------------------
(* Each domain implements SharedClock, step by step.                        *)

\* The clock of the abstract specification.
Live(d) == IF d = "link" THEN Running("link") \/ op = "force" ELSE Running(d)

\* What a step may do to one domain: it keeps the holders, and stops the clock
\* only when there are none; it hands the running clock to one client; or it
\* takes it away from some.
Promise(d) ==
    \/ Holders(d)' = Holders(d) /\ (Live(d) => Live(d)' \/ Holders(d) = {})
    \/ \E c \in Client : Live(d) /\ Live(d)' /\ Holders(d)' = Holders(d) \cup {c}
    \/ \E S \in SUBSET Client : (Live(d)' <=> Live(d)) /\ Holders(d)' = Holders(d) \ S

\* Holders are clients, and somebody holds only what is wanted ON.
LEMMA HoldersAre ==
    ASSUME GrantInv, NEW d \in Domain
    PROVE  /\ Holders(d) \subseteq clients /\ clients \subseteq Client
           /\ Holders(d) # {} => mgr[d] = "ON" /\ Goal(d) = "ON"
BY DEF GrantInv, BaseInv, TypeInv, TypeOK, Holders, Goal, Aggregate

\* A step that touches neither votes nor states.
LEMMA QuietPromise ==
    ASSUME NEW d \in Domain, UNCHANGED <<clients, vote, mgr>>,
           Live(d) => Live(d)' \/ Holders(d) = {}
    PROVE  Promise(d)
BY DEF Promise, Holders

\* Counts that only grow keep a clock running.
LEMMA RunningGrows ==
    ASSUME NEW d \in Domain,
           \A k \in KindsOf(d), i \in Ctrl : en[k][i] > 0 => en'[k][i] > 0
    PROVE  Running(d) => Running(d)'
BY DEF Running

\* One controller of a loop changes the counts of these kinds alone.
LEMMA BumpOthers ==
    ASSUME TypeOK, NEW i \in Ctrl, NEW K \in SUBSET Kind, NEW n \in {1, -1}, en' = Bump(en, K, i, n)
    PROVE  /\ \A k \in Kind \ K : en'[k] = en[k]
           /\ n = 1 => \A k \in Kind, j \in Ctrl : en[k][j] > 0 => en'[k][j] > 0
<1>1. en \in [Kind -> [Ctrl -> Int]] /\ n \in Int
  BY DEF TypeOK
<1>2. \A k \in Kind, j \in Ctrl : en'[k][j] = IF k \in K /\ j = i THEN en[k][j] + n ELSE en[k][j]
  BY <1>1, BumpValue
<1>3. \A k \in Kind \ K : en'[k] = en[k]
  BY DEF Bump
<1>4. n = 1 => \A k \in Kind, j \in Ctrl : en[k][j] > 0 => en'[k][j] > 0
  BY <1>1, <1>2
<1>. QED BY <1>3, <1>4

\* The loops: what they stop nobody holds.
LEMMA LoopPromise ==
    ASSUME GrantInv, Unfailed', NEW d \in Domain, NEW i \in Ctrl,
           CoreEnable(i) \/ LinkEnable(i) \/ LinkDisable(i) \/ CoreDisable(i)
    PROVE  Promise(d)
<1>t. /\ TypeOK /\ WantOK /\ VotesInv /\ Domain = {"core", "link"} /\ pc \notin GatePc
      /\ \A x \in Domain : want[x] # "EARLY_GATE"
      /\ KindsOf("core") = CoreKinds /\ KindsOf("link") = LpKinds \cup {"hs"}
      /\ KindsOf(d) \subseteq Kind
  BY DEF GrantInv, BaseInv, TypeInv, NoGate, Domain, KindsOf, CoreKinds, LpKinds, Kind
<1>k. /\ CoreKinds \subseteq Kind /\ LinkKinds(LinkType(pc)) \subseteq KindsOf("link")
      /\ KindsOf("link") \subseteq Kind
      /\ CoreKinds \cap KindsOf("link") = {}
  BY DEF CoreKinds, Kind, LinkKinds, LpKinds, KindsOf
<1>f. ASSUME NEW f PROVE ~Fail(f)
  BY DEF Fail, Unfailed
<1>g. ~FailTwice("core_start", "core_stop")
  BY DEF FailTwice, Unfailed
<1>0. UNCHANGED <<clients, vote, mgr, op>>
  BY DEF CoreEnable, LinkEnable, LinkDisable, CoreDisable, voteVars, callVars
<1>h. want[d] = "OFF" /\ Wishes => Holders(d) = {}
  <2>1. want[d] = "OFF" /\ Wishes => Goal(d) # "ON"
    BY DEF Wishes
  <2>. QED BY <2>1, HoldersAre
<1>1. ASSUME NEW K \in SUBSET Kind, en' = Bump(en, K, i, 1) PROVE Promise(d)
  <2>1. \A k \in Kind, j \in Ctrl : en[k][j] > 0 => en'[k][j] > 0
    BY <1>1, <1>t, BumpOthers
  <2>2. Running(d) => Running(d)'
    BY <2>1, <1>t, RunningGrows
  <2>. QED BY <1>0, <1>t, <2>2, QuietPromise DEF Live
<1>2. ASSUME NEW K \in SUBSET Kind, en' = Bump(en, K, i, -1), K \cap KindsOf(d) = {}
      PROVE  Promise(d)
  <2>1. \A k \in KindsOf(d) : en'[k] = en[k]
    BY <1>2, <1>t, BumpOthers
  <2>2. Running(d) => Running(d)'
    BY <2>1, RunningGrows
  <2>. QED BY <1>0, <1>t, <2>2, QuietPromise DEF Live
<1>3. CASE CoreEnable(i)
  BY <1>1, <1>3, <1>f, <1>g, <1>k DEF CoreEnable
<1>4. CASE LinkEnable(i)
  BY <1>1, <1>4, <1>f, <1>k DEF LinkEnable
<1>5. CASE LinkDisable(i)
  <2>1. en' = Bump(en, LinkKinds(LinkType(pc)), i, -1) /\ pc \in {"hsOff", "lpOff", "forceOff"}
    BY <1>5 DEF LinkDisable, LinkOffPc
  <2>2. CASE d = "core"
    BY <1>2, <1>k, <1>t, <2>1, <2>2
  <2>3. CASE d = "link" /\ pc = "forceOff"
    BY <1>0, <1>t, <2>3, QuietPromise DEF VotesInv, Live
  <2>4. CASE d = "link" /\ pc # "forceOff"
    BY <1>0, <1>t, <1>h, <2>1, <2>4, QuietPromise DEF VotesInv, WantOK
  <2>. QED BY <2>2, <2>3, <2>4, <1>t
<1>6. CASE CoreDisable(i)
  <2>1. en' = Bump(en, CoreKinds, i, -1) /\ pc = "coreOff"
    BY <1>6, <1>f, <1>t DEF CoreDisable, CoreOffPc, GatePc
  <2>2. CASE d = "link"
    BY <1>2, <1>k, <1>t, <2>1, <2>2
  <2>3. CASE d = "core"
    BY <1>0, <1>t, <1>h, <2>1, <2>3, QuietPromise DEF VotesInv, WantOK
  <2>. QED BY <2>2, <2>3, <1>t
<1>. QED BY <1>3, <1>4, <1>5, <1>6

\* The calls, while the clocks rest.
LEMMA CallPromise ==
    ASSUME GrantInv, NEW d \in Domain, Call
    PROVE  Promise(d)
<1>t. /\ TypeOK /\ VotesInv /\ Domain = {"core", "link"}
      /\ vote \in [Domain -> [Client -> ClkState]] /\ clients \subseteq Client
      /\ mgr[d] = "ON" \/ Holders(d) = {}
  BY DEF GrantInv, BaseInv, TypeInv, TypeOK, Domain, Holders
<1>. USE DEF voteVars, faultVars
<1>1. CASE MngrRegister
  BY <1>1, QuietPromise DEF MngrRegister, Live, Running
<1>i. ~MngrRegister => pc = "idle" /\ op = "none" /\ UNCHANGED <<en, mgr>>
  BY <1>t DEF Call, MngrDeregister, Register, Deregister, ForceUpdate, Req, VotesInv
<1>l. ~MngrRegister /\ op' # "force" => (Live(d)' <=> Live(d))
  BY <1>i DEF Live, Running
<1>g. ~MngrRegister /\ mgr[d] = "ON" => Live(d)
  <2>1. ~MngrRegister /\ mgr[d] = "ON" => Goal(d) = "ON"
    BY <1>i, <1>t DEF GrantInv, VotesInv, Reached, Unfailed
  <2>. QED BY <1>i, <2>1, OnRuns DEF Live
<1>2. CASE MngrDeregister
  <2>1. op' = "destroy" /\ Holders(d)' = Holders(d) \ clients
    BY <1>2 DEF MngrDeregister, Recheck, Holders
  <2>2. ~MngrRegister
    BY <1>2 DEF MngrRegister, MngrDeregister
  <2>. QED BY <2>1, <2>2, <1>l, <1>t DEF Promise
<1>3. ASSUME NEW c \in Client, Register(c) PROVE Promise(d)
  <2>1. \A x \in Client : vote'[d][x] = IF x = c THEN "OFF" ELSE vote[d][x]
    BY <1>3, <1>t DEF Register
  <2>2. Holders(d)' = Holders(d) /\ op' = op /\ en' = en
    BY <1>3, <1>t, <2>1 DEF Register, Holders
  <2>. QED BY <2>2 DEF Promise, Live, Running
<1>4. ASSUME NEW c \in Client, Deregister(c) PROVE Promise(d)
  <2>1. \A x \in Client : vote'[d][x] = IF x = c THEN "OFF" ELSE vote[d][x]
    BY <1>4, <1>t DEF Deregister
  <2>2. Holders(d)' = Holders(d) \ {c} /\ op' = "dereg"
    BY <1>4, <1>t, <2>1 DEF Deregister, Holders, Recheck
  <2>3. ~MngrRegister
    BY <1>4 DEF MngrRegister, Deregister
  <2>. QED BY <2>2, <2>3, <1>l DEF Promise
<1>5. ASSUME NEW c \in Client, ForceUpdate(c) PROVE Promise(d)
  <2>1. UNCHANGED <<clients, vote, mgr, en>> /\ op' = "force"
    BY <1>5 DEF ForceUpdate
  <2>. QED BY <1>t, <2>1, QuietPromise DEF Live, Running
<1>6. ASSUME NEW c \in Client, NEW clk \in SUBSET Domain, NEW s \in ReqStates, Req(c, clk, s)
      PROVE  Promise(d)
  <2>1. /\ UNCHANGED <<mgr, clients>> /\ c \in clients
        /\ vote'[d] = IF d \in clk
             THEN [vote[d] EXCEPT ![c] = NewVote(ref[d][c], @, s)] ELSE vote[d]
    BY <1>6 DEF Req
  <2>2. \A x \in Client : x # c => vote'[d][x] = vote[d][x]
    BY <2>1, <1>t
  <2>3. op' # "force"
    BY <1>6, <1>t DEF Req, Recheck, VotesInv
  <2>4. ~MngrRegister
    BY <1>6 DEF MngrRegister, Req
  <2>5. CASE mgr[d] # "ON"
    <3>1. Holders(d)' = Holders(d)
      BY <2>1, <2>5 DEF Holders
    <3>. QED BY <3>1, <2>3, <2>4, <1>l DEF Promise
  <2>6. CASE mgr[d] = "ON" /\ vote'[d][c] = "ON"
    <3>1. Holders(d)' = Holders(d) \cup {c}
      BY <2>1, <2>2, <2>6, <1>t DEF Holders
    <3>. QED BY <3>1, <2>3, <2>4, <2>6, <1>l, <1>g DEF Promise
  <2>7. CASE mgr[d] = "ON" /\ vote'[d][c] # "ON"
    <3>1. Holders(d)' = Holders(d) \ {c}
      BY <2>1, <2>2, <2>7, <1>t DEF Holders
    <3>. QED BY <3>1, <2>3, <2>4, <1>l DEF Promise
  <2>. QED BY <2>5, <2>6, <2>7
<1>. QED BY <1>1, <1>2, <1>3, <1>4, <1>5, <1>6 DEF Call

\* The end of a start: at most the caller is waiting for the clock.
LEMMA HandOver ==
    ASSUME GrantInv, NEW d \in Domain, mgr[d] # "ON", UNCHANGED <<clients, vote>>,
           Live(d), Live(d)'
    PROVE  Promise(d)
<1>1. Holders(d) = {} /\ clients \subseteq Client
  BY HoldersAre
<1>2. Holders(d)' \subseteq {by} \cap clients
  BY DEF Holders, GrantInv, Granted
<1>3. Holders(d)' = {} \/ (by \in clients /\ Holders(d)' = {by})
  BY <1>2
<1>. QED BY <1>1, <1>3 DEF Promise

\* And of a stop: nobody has the clock.
LEMMA GivenUp ==
    ASSUME GrantInv, NEW d \in Domain, UNCHANGED <<clients, vote>>,
           Holders(d) = {}, mgr'[d] # "ON"
    PROVE  Promise(d)
BY DEF Promise, Holders

LEMMA EndPromise ==
    ASSUME GrantInv, Unfailed', NEW d \in Domain,
           PreClkOn \/ CoreEnabled \/ LinkEnabled \/ LinkDisabled \/ CoreDisabled
    PROVE  Promise(d)
<1>t. /\ TypeOK /\ WantOK /\ VotesInv /\ Coherent /\ CoreCounts /\ LinkCounts
      /\ Domain = {"core", "link"} /\ pc \notin GatePc /\ lcOn = FALSE
      /\ mgr \in [Domain -> ClkState]
      /\ \A x \in Domain : want[x] # "EARLY_GATE"
  BY UnfailedSafe DEF GrantInv, BaseInv, TypeInv, TypeOK, ClockInv, NoGate, Domain
<1>0. UNCHANGED <<clients, vote, en, op>>
  BY DEF PreClkOn, CoreEnabled, LinkEnabled, LinkDisabled, CoreDisabled, voteVars, callVars
<1>l. Live(d)' <=> Live(d)
  BY <1>0 DEF Live, Running
<1>m. mgr'[d] = mgr[d] => Promise(d)
  <2>1. mgr'[d] = mgr[d] => Holders(d)' = Holders(d)
    BY <1>0 DEF Holders
  <2>. QED BY <2>1, <1>l DEF Promise
<1>f. ASSUME NEW f PROVE ~Fail(f)
  BY DEF Fail, Unfailed
<1>h. want[d] = "OFF" /\ Wishes => Holders(d) = {}
  <2>1. want[d] = "OFF" /\ Wishes => Goal(d) # "ON"
    BY DEF Wishes
  <2>. QED BY <2>1, HoldersAre
<1>1. CASE PreClkOn
  BY <1>1, <1>m DEF PreClkOn
<1>2. CASE CoreEnabled
  <2>1. pc = "coreOn" /\ done = Ctrl /\ mgr' = [mgr EXCEPT !["core"] = "ON"]
    BY <1>2, <1>t DEF CoreEnabled, GatePc
  <2>2. CASE d = "core"
    <3>1. mgr[d] # "ON" /\ Running("core")
      BY <2>1, <2>2, <1>t DEF Coherent, Running, KindsOf, CoreKinds, CoreCounts, HeldCore, Count
    <3>. QED BY <3>1, <2>2, <1>0, <1>l, HandOver DEF Live
  <2>3. CASE d = "link"
    BY <2>1, <2>3, <1>m, <1>t
  <2>. QED BY <2>2, <2>3, <1>t
<1>3. CASE LinkEnabled
  <2>1. mgr' = mgr \/ (pc = "hsOn" /\ done = Ctrl /\ mgr' = [mgr EXCEPT !["link"] = "ON"])
    BY <1>3 DEF LinkEnabled
  <2>2. CASE d = "link" /\ mgr' # mgr
    <3>1. mgr[d] # "ON" /\ Running("link")
      BY <2>1, <2>2, <1>t DEF Coherent, Running, KindsOf, LpKinds, LinkCounts, HeldLp, HeldHs, Count
    <3>. QED BY <3>1, <2>2, <1>0, <1>l, HandOver DEF Live
  <2>3. CASE d = "core" \/ mgr' = mgr
    BY <2>1, <2>3, <1>m, <1>t
  <2>. QED BY <2>2, <2>3, <1>t
<1>4. CASE LinkDisabled
  <2>1. mgr' = mgr \/ (pc = "lpOff" /\ mgr' = [mgr EXCEPT !["link"] = want["link"]])
    BY <1>4 DEF LinkDisabled
  <2>2. CASE d = "link" /\ mgr' # mgr
    <3>1. Wishes /\ want["link"] = "OFF"
      BY <2>1, <2>2, <1>t DEF VotesInv, WantOK
    <3>. QED BY <2>1, <2>2, <3>1, <1>0, <1>h, <1>t, GivenUp
  <2>3. CASE d = "core" \/ mgr' = mgr
    BY <2>1, <2>3, <1>m, <1>t
  <2>. QED BY <2>2, <2>3, <1>t
<1>5. CASE CoreDisabled
  <2>1. pc = "coreOff" /\ mgr' = [mgr EXCEPT !["core"] = want["core"]]
    BY <1>5, <1>t DEF CoreDisabled, GatePc
  <2>2. CASE d = "core"
    <3>1. Wishes /\ want["core"] = "OFF"
      BY <2>1, <1>t DEF VotesInv, WantOK
    <3>. QED BY <2>1, <2>2, <3>1, <1>0, <1>h, <1>t, GivenUp
  <2>3. CASE d = "link"
    BY <2>1, <2>3, <1>m, <1>t
  <2>. QED BY <2>2, <2>3, <1>t
<1>. QED BY <1>1, <1>2, <1>3, <1>4, <1>5

LEMMA ReturnPromise ==
    ASSUME GrantInv, NEW d \in Domain, Return
    PROVE  Promise(d)
<1>t. /\ VotesInv /\ Domain = {"core", "link"} /\ LinkCounts /\ Reached
      /\ pc = "ret" /\ op' = "none" /\ UNCHANGED <<en, vote>>
  BY UnfailedSafe DEF GrantInv, BaseInv, Domain, Return, VotesInv, Unfailed
<1>1. Holders(d)' = Holders(d)
  <2>1. CASE op = "destroy"
    <3>1. clients = {} /\ clients' = {}
      BY <2>1, <1>t DEF Return, VotesInv
    <3>. QED BY <3>1 DEF Holders
  <2>2. CASE op = "dereg"
    BY <2>2, <1>t DEF Return, VotesInv, Holders
  <2>3. CASE op \notin {"destroy", "dereg"}
    BY <2>3 DEF Return, Holders
  <2>. QED BY <2>1, <2>2, <2>3
<1>2. Live(d) => Live(d)' \/ Holders(d) = {}
  <2>1. Running(d)' <=> Running(d)
    BY <1>t DEF Running
  <2>2. CASE d = "core"
    BY <2>1, <2>2 DEF Live
  <2>3. CASE d = "link"
    <3>1. mgr["link"] = "ON" => Running("link")
      BY <1>t DEF Running, KindsOf, LpKinds, LinkCounts, HeldLp, HeldHs, Count
    <3>. QED BY <2>1, <2>3, <3>1 DEF Live, Holders
  <2>. QED BY <2>2, <2>3, <1>t
<1>. QED BY <1>1, <1>2 DEF Promise

LEMMA EveryPromise ==
    ASSUME GrantInv, Unfailed', [Next]_vars, NEW d \in Domain
    PROVE  Promise(d)
<1>1. CASE UNCHANGED vars
  BY <1>1, QuietPromise DEF vars, Live, Running
<1>. QED BY <1>1, CallPromise, EndPromise, ReturnPromise, LoopPromise DEF Next, Step

\* A promise kept is a step of SharedClock.
LEMMA CoreRefines ==
    ASSUME Promise("core")
    PROVE  [CoreClock!Next]_<<Holders("core"), Running("core")>>
<1>1. (Live("core") <=> Running("core")) /\ (Live("core")' <=> Running("core")')
  BY DEF Live
<1>2. CASE /\ Holders("core")' = Holders("core")
           /\ Live("core") => Live("core")' \/ Holders("core") = {}
  <2>1. CASE Running("core") <=> Running("core")'
    <3>1. Running("core")' = Running("core")
      BY <2>1 DEF Running
    <3>. QED BY <1>2, <3>1
  <2>2. CASE Running("core") /\ ~Running("core")'
    BY <1>1, <1>2, <2>2 DEF CoreClock!Next, CoreClock!Stop
  <2>3. CASE ~Running("core") /\ Running("core")'
    BY <1>2, <2>3 DEF CoreClock!Next, CoreClock!Start
  <2>. QED BY <2>1, <2>2, <2>3
<1>3. ASSUME NEW c \in Client, Live("core"), Live("core")',
             Holders("core")' = Holders("core") \cup {c}
      PROVE  CoreClock!Acquire(c)
  BY <1>1, <1>3 DEF CoreClock!Acquire, Running
<1>4. ASSUME NEW S \in SUBSET Client, Live("core")' <=> Live("core"),
             Holders("core")' = Holders("core") \ S
      PROVE  CoreClock!Release(S)
  BY <1>1, <1>4 DEF CoreClock!Release, Running
<1>. QED BY <1>2, <1>3, <1>4 DEF Promise, CoreClock!Next

LEMMA LinkRefines ==
    ASSUME Promise("link")
    PROVE  [LinkClock!Next]_<<Holders("link"), Running("link") \/ op = "force">>
BY DEF Promise, Live, LinkClock!Next, LinkClock!Start, LinkClock!Stop, LinkClock!Acquire,
       LinkClock!Release

\* When nothing fails each domain behaves as one clock that its clients share:
\* it is handed out only while it runs on every controller, and stops only
\* when nobody holds it.
THEOREM DomainsAreSharedSafely ==
    ASSUME Faults = {}, ReqStates \subseteq {"ON", "OFF"}
    PROVE  Spec => CoreClock!Safety /\ LinkClock!Safety
<1>1. Init => CoreClock!Init /\ LinkClock!Init
  <2>1. Init => ~Running("core") /\ ~Running("link")
    BY CtrlAssumption DEF Init, Running, KindsOf, CoreKinds, LpKinds, Kind
  <2>2. Init => Holders("core") = {} /\ Holders("link") = {} /\ op # "force"
    BY DEF Init, Holders
  <2>. QED BY <2>1, <2>2 DEF CoreClock!Init, LinkClock!Init
<1>2. GrantInv /\ GrantInv' /\ [Next]_vars =>
         /\ [CoreClock!Next]_<<Holders("core"), Running("core")>>
         /\ [LinkClock!Next]_<<Holders("link"), Running("link") \/ op = "force">>
  <2>. SUFFICES ASSUME GrantInv, GrantInv', [Next]_vars
                PROVE  Promise("core") /\ Promise("link")
    BY CoreRefines, LinkRefines
  <2>. QED BY EveryPromise DEF GrantInv, Domain
<1>. QED BY <1>1, <1>2, GrantInvariant, PTL DEF Spec, CoreClock!Safety, LinkClock!Safety

\* In particular whoever holds a clock finds it running, the client whose call
\* is under way included.
THEOREM HeldClocksRun ==
    ASSUME Faults = {}, ReqStates \subseteq {"ON", "OFF"}
    PROVE  Spec => [](CoreClock!HeldRuns /\ LinkClock!HeldRuns)
<1>1. ASSUME GrantInv PROVE CoreClock!HeldRuns /\ LinkClock!HeldRuns
  BY <1>1, HoldersAre, OnRuns DEF Domain, CoreClock!HeldRuns, LinkClock!HeldRuns
<1>. QED BY <1>1, GrantInvariant, PTL
=============================================================================
