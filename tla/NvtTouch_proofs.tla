--------------------------- MODULE NvtTouch_proofs ---------------------------
(***************************************************************************)
(* Proofs about NvtTouch, for any actors, failures and bounds.             *)
(***************************************************************************)
EXTENDS NvtTouch, TLAPS

\* Which thread runs which code: only the notifier and the recovery callback
\* suspend, only the worker and the recovery callback resume.
Roles ==
    /\ pc["irq"] \in {"idle", "wait", "irqLock", "irqRead"}
    /\ pc["work"] \in {"idle"} \cup ResumePc
    /\ pc["drm"] \in {"idle", "cancel"} \cup SuspendPc
    /\ pc["fp"] \in {"idle"} \cup SuspendPc \cup ResumePc
    /\ pc["mp"] \in {"idle", "mpLock", "mpTest"}

Count(b) == IF b THEN 1 ELSE 0

\* The depth covers every disable that is recorded in the flag or about to be.
DepthInv ==
    depth >= Count(pc["drm"] = "susSync") + Count(pc["fp"] = "susSync") + Count(~irqOn)

\* Nothing completes the sleep between its suspend and its resume.
PmInv == phase \in {"down", "up"} => pmDone = 0

RunInv == TypeOK /\ Roles /\ DepthInv
TypeInv == RunInv /\ PmInv

\* What the steps change, thread by thread.
LEMMA GotoType ==
    ASSUME pc \in [Thread -> Pc], NEW t \in Thread, NEW p \in Pc, Goto(t, p)
    PROVE  /\ pc' \in [Thread -> Pc]
           /\ pc'[t] = p
           /\ \A u \in Thread \ {t} : pc'[u] = pc[u]
BY DEF Goto

LEMMA DownloadType ==
    ASSUME NEW image \in {"touch", "test"}, Download(image),
           chip \in {"none", "touch", "gesture", "sleep", "test"}
    PROVE  chip' \in {"none", "touch", "gesture", "sleep", "test"}
BY DEF Download

LEMMA HostCmdType ==
    ASSUME NEW mode \in {"gesture", "sleep"}, HostCmd(mode),
           chip \in {"none", "touch", "gesture", "sleep", "test"}
    PROVE  chip' \in {"none", "touch", "gesture", "sleep", "test"}
BY DEF HostCmd

LEMMA TypeInvInit == Init => TypeInv
<1>. SUFFICES ASSUME Init PROVE TypeInv
  OBVIOUS
<1>b. boot \in BOOLEAN
  BY DEF Init
<1>1. /\ awake \in BOOLEAN /\ gesture \in BOOLEAN
      /\ irqOn \in BOOLEAN /\ down \in BOOLEAN /\ pending \in BOOLEAN
      /\ pmFlag \in BOOLEAN
  <2>1. /\ awake = TRUE /\ gesture = FALSE /\ irqOn = TRUE /\ down = FALSE
        /\ pending = FALSE /\ pmFlag = FALSE
    BY DEF Init
  <2>. QED BY <2>1
<1>c. chip \in {"none", "touch"}
  BY Zenon DEF Init
<1>2. TypeOK
  BY <1>1, <1>b, <1>c, RecoveryAssumption DEF Init, TypeOK, Pc, Thread
<1>3. Roles /\ DepthInv /\ PmInv
  BY DEF Init, Roles, DepthInv, PmInv, Count, Thread
<1>. QED BY <1>2, <1>3 DEF TypeInv, RunInv

LEMMA RunInvNext == TypeInv /\ [Next]_vars => RunInv'
<1>. SUFFICES ASSUME TypeInv, [Next]_vars PROVE RunInv'
  OBVIOUS
<1>. USE DEF RunInv, TypeInv, Pc, Thread, SuspendPc, ResumePc, At, irqVars, chipVars, pmVars, envVars
<1>1. ASSUME NEW t \in Thread, SuspendCheck(t) PROVE RunInv'
  <2>1. t \in {"drm", "fp"}
    BY <1>1 DEF SuspendCheck, Roles
  <2>2. CASE t = "drm"
    BY <1>1, <2>2, GotoType DEF SuspendCheck, TypeOK, Roles, DepthInv, Count
  <2>3. CASE t = "fp"
    BY <1>1, <2>3, GotoType DEF SuspendCheck, TypeOK, Roles, DepthInv, Count
  <2>. QED BY <2>1, <2>2, <2>3
<1>2. ASSUME NEW t \in Thread, SuspendIrq(t) PROVE RunInv'
  <2>1. t \in {"drm", "fp"}
    BY <1>2 DEF SuspendIrq, Roles
  <2>2. CASE t = "drm"
    BY <1>2, <2>2, GotoType DEF SuspendIrq, TypeOK, Roles, DepthInv, Count
  <2>3. CASE t = "fp"
    BY <1>2, <2>3, GotoType DEF SuspendIrq, TypeOK, Roles, DepthInv, Count
  <2>. QED BY <2>1, <2>2, <2>3
<1>3. ASSUME NEW t \in Thread, SuspendSync(t) PROVE RunInv'
  <2>1. t \in {"drm", "fp"}
    BY <1>3 DEF SuspendSync, Roles
  <2>2. CASE t = "drm"
    <3>0. irqOn' \in BOOLEAN
      BY <1>3, <2>2 DEF SuspendSync
    <3>1. TypeOK'
      BY <3>0, <1>3, <2>2, GotoType DEF SuspendSync, TypeOK
    <3>2. Roles'
      BY <1>3, <2>2, GotoType DEF SuspendSync, TypeOK, Roles
    <3>3. DepthInv'
      BY <1>3, <2>2, GotoType DEF SuspendSync, TypeOK, Roles, DepthInv, Count
    <3>. QED BY <3>1, <3>2, <3>3
  <2>3. CASE t = "fp"
    <3>0. irqOn' \in BOOLEAN
      BY <1>3, <2>3 DEF SuspendSync
    <3>1. TypeOK'
      BY <3>0, <1>3, <2>3, GotoType DEF SuspendSync, TypeOK
    <3>2. Roles'
      BY <1>3, <2>3, GotoType DEF SuspendSync, TypeOK, Roles
    <3>3. DepthInv'
      BY <1>3, <2>3, GotoType DEF SuspendSync, TypeOK, Roles, DepthInv, Count
    <3>. QED BY <3>1, <3>2, <3>3
  <2>. QED BY <2>1, <2>2, <2>3
<1>4. ASSUME NEW t \in Thread, SuspendLock(t) PROVE RunInv'
  <2>1. t \in {"drm", "fp"}
    BY <1>4 DEF SuspendLock, Roles
  <2>2. CASE t = "drm"
    BY <1>4, <2>2, GotoType DEF SuspendLock, Lock, TypeOK, Roles, DepthInv, Count
  <2>3. CASE t = "fp"
    BY <1>4, <2>3, GotoType DEF SuspendLock, Lock, TypeOK, Roles, DepthInv, Count
  <2>. QED BY <2>1, <2>2, <2>3
<1>5. ASSUME NEW t \in Thread, SuspendSleep(t) PROVE RunInv'
  <2>1. t \in {"drm", "fp"}
    BY <1>5 DEF SuspendSleep, Roles
  <2>2. CASE t = "drm"
    <3>0. awake' \in BOOLEAN
      BY <1>5, <2>2 DEF SuspendSleep
    <3>1. TypeOK'
      BY <3>0, <1>5, <2>2, GotoType DEF SuspendSleep, TypeOK
    <3>2. Roles'
      BY <1>5, <2>2, GotoType DEF SuspendSleep, TypeOK, Roles
    <3>3. DepthInv'
      BY <1>5, <2>2, GotoType DEF SuspendSleep, TypeOK, Roles, DepthInv, Count
    <3>. QED BY <3>1, <3>2, <3>3
  <2>3. CASE t = "fp"
    <3>0. awake' \in BOOLEAN
      BY <1>5, <2>3 DEF SuspendSleep
    <3>1. TypeOK'
      BY <3>0, <1>5, <2>3, GotoType DEF SuspendSleep, TypeOK
    <3>2. Roles'
      BY <1>5, <2>3, GotoType DEF SuspendSleep, TypeOK, Roles
    <3>3. DepthInv'
      BY <1>5, <2>3, GotoType DEF SuspendSleep, TypeOK, Roles, DepthInv, Count
    <3>. QED BY <3>1, <3>2, <3>3
  <2>. QED BY <2>1, <2>2, <2>3
<1>6. ASSUME NEW t \in Thread, SuspendMode(t) PROVE RunInv'
  <2>1. t \in {"drm", "fp"}
    BY <1>6 DEF SuspendMode, Roles
  <2>2. CASE t = "drm"
    BY <1>6, <2>2, HostCmdType, GotoType DEF SuspendMode, Unlock, TypeOK, Roles, DepthInv, Count
  <2>3. CASE t = "fp"
    BY <1>6, <2>3, HostCmdType, GotoType DEF SuspendMode, Unlock, TypeOK, Roles, DepthInv, Count
  <2>. QED BY <2>1, <2>2, <2>3
<1>7. ASSUME NEW t \in Thread, SuspendRelease(t) PROVE RunInv'
  <2>1. t \in {"drm", "fp"}
    BY <1>7 DEF SuspendRelease, Roles
  <2>2. CASE t = "drm"
    <3>0. down' \in BOOLEAN
      BY <1>7, <2>2 DEF SuspendRelease
    <3>1. TypeOK'
      BY <3>0, <1>7, <2>2, GotoType DEF SuspendRelease, TypeOK
    <3>2. Roles'
      BY <1>7, <2>2, GotoType DEF SuspendRelease, TypeOK, Roles
    <3>3. DepthInv'
      BY <1>7, <2>2, GotoType DEF SuspendRelease, TypeOK, Roles, DepthInv, Count
    <3>. QED BY <3>1, <3>2, <3>3
  <2>3. CASE t = "fp"
    <3>0. down' \in BOOLEAN
      BY <1>7, <2>3 DEF SuspendRelease
    <3>1. TypeOK'
      BY <3>0, <1>7, <2>3, GotoType DEF SuspendRelease, TypeOK
    <3>2. Roles'
      BY <1>7, <2>3, GotoType DEF SuspendRelease, TypeOK, Roles
    <3>3. DepthInv'
      BY <1>7, <2>3, GotoType DEF SuspendRelease, TypeOK, Roles, DepthInv, Count
    <3>. QED BY <3>1, <3>2, <3>3
  <2>. QED BY <2>1, <2>2, <2>3
<1>8. ASSUME NEW t \in Thread, ResumeCheck(t) PROVE RunInv'
  <2>1. t \in {"work", "fp"}
    BY <1>8 DEF ResumeCheck, Roles
  <2>2. CASE t = "work"
    BY <1>8, <2>2, GotoType DEF ResumeCheck, AfterResume, TypeOK, Roles, DepthInv, Count
  <2>3. CASE t = "fp"
    BY <1>8, <2>3, GotoType DEF ResumeCheck, AfterResume, TypeOK, Roles, DepthInv, Count
  <2>. QED BY <2>1, <2>2, <2>3
<1>9. ASSUME NEW t \in Thread, ResumeLock(t) PROVE RunInv'
  <2>1. t \in {"work", "fp"}
    BY <1>9 DEF ResumeLock, Roles
  <2>2. CASE t = "work"
    BY <1>9, <2>2, GotoType DEF ResumeLock, Lock, TypeOK, Roles, DepthInv, Count
  <2>3. CASE t = "fp"
    BY <1>9, <2>3, GotoType DEF ResumeLock, Lock, TypeOK, Roles, DepthInv, Count
  <2>. QED BY <2>1, <2>2, <2>3
<1>10. ASSUME NEW t \in Thread, ResumeLoad(t) PROVE RunInv'
  <2>1. t \in {"work", "fp"}
    BY <1>10 DEF ResumeLoad, Roles
  <2>2. CASE t = "work"
    <3>0. irqOn' \in BOOLEAN
      BY <1>10, <2>2, Zenon DEF ResumeLoad, TypeOK
    <3>b. ~irqOn => depth > 0
      BY DEF DepthInv, TypeOK, Count
    <3>c. depth' \in Nat
      BY <3>b, <1>10, <2>2 DEF ResumeLoad, TypeOK
    <3>a. chip' \in {"none", "touch", "gesture", "sleep", "test"}
      BY <1>10, <2>2, DownloadType DEF ResumeLoad, TypeOK
    <3>1. TypeOK'
      BY <3>0, <3>a, <3>c, <1>10, <2>2, GotoType DEF ResumeLoad, TypeOK
    <3>2. Roles'
      BY <1>10, <2>2, DownloadType, GotoType DEF ResumeLoad, TypeOK, Roles
    <3>3. DepthInv'
      BY <1>10, <2>2, DownloadType, GotoType DEF ResumeLoad, TypeOK, Roles, DepthInv, Count
    <3>. QED BY <3>1, <3>2, <3>3
  <2>3. CASE t = "fp"
    <3>0. irqOn' \in BOOLEAN
      BY <1>10, <2>3, Zenon DEF ResumeLoad, TypeOK
    <3>b. ~irqOn => depth > 0
      BY DEF DepthInv, TypeOK, Count
    <3>c. depth' \in Nat
      BY <3>b, <1>10, <2>3 DEF ResumeLoad, TypeOK
    <3>a. chip' \in {"none", "touch", "gesture", "sleep", "test"}
      BY <1>10, <2>3, DownloadType DEF ResumeLoad, TypeOK
    <3>1. TypeOK'
      BY <3>0, <3>a, <3>c, <1>10, <2>3, GotoType DEF ResumeLoad, TypeOK
    <3>2. Roles'
      BY <1>10, <2>3, DownloadType, GotoType DEF ResumeLoad, TypeOK, Roles
    <3>3. DepthInv'
      BY <1>10, <2>3, DownloadType, GotoType DEF ResumeLoad, TypeOK, Roles, DepthInv, Count
    <3>. QED BY <3>1, <3>2, <3>3
  <2>. QED BY <2>1, <2>2, <2>3
<1>11. ASSUME NEW t \in Thread, ResumeAwake(t) PROVE RunInv'
  <2>1. t \in {"work", "fp"}
    BY <1>11 DEF ResumeAwake, Roles
  <2>2. CASE t = "work"
    BY <1>11, <2>2, GotoType DEF ResumeAwake, AfterResume, Unlock, TypeOK, Roles, DepthInv, Count
  <2>3. CASE t = "fp"
    BY <1>11, <2>3, GotoType DEF ResumeAwake, AfterResume, Unlock, TypeOK, Roles, DepthInv, Count
  <2>. QED BY <2>1, <2>2, <2>3
<1>12. CASE Blank
  BY <1>12, GotoType DEF Blank, TypeOK, Roles, DepthInv, Count
<1>13. CASE CancelWork
  <2>1. pending' \in BOOLEAN
    BY <1>13 DEF CancelWork
  <2>2. TypeOK'
    BY <1>13, <2>1, GotoType DEF CancelWork, TypeOK
  <2>3. Roles'
    BY <1>13, GotoType DEF CancelWork, TypeOK, Roles
  <2>4. DepthInv'
    BY <1>13, GotoType DEF CancelWork, TypeOK, Roles, DepthInv, Count
  <2>. QED BY <2>2, <2>3, <2>4
<1>14. CASE Unblank
  BY <1>14 DEF Unblank, TypeOK, Roles, DepthInv, Count
<1>15. CASE ResumeWork
  <2>0. pending' \in BOOLEAN
    BY <1>15 DEF ResumeWork
  <2>1. TypeOK'
    BY <2>0, <1>15, GotoType DEF ResumeWork, TypeOK
  <2>2. Roles'
    BY <1>15, GotoType DEF ResumeWork, TypeOK, Roles
  <2>3. DepthInv'
    BY <1>15, GotoType DEF ResumeWork, TypeOK, Roles, DepthInv, Count
  <2>. QED BY <2>1, <2>2, <2>3
<1>16. CASE Recover
  BY <1>16, GotoType DEF Recover, TypeOK, Roles, DepthInv, Count
<1>17. CASE GestureSwitch
  BY <1>17 DEF GestureSwitch, TypeOK, Roles, DepthInv, Count
<1>18. CASE Irq
  BY <1>18, GotoType DEF Irq, TypeOK, Roles, DepthInv, Count
<1>19. CASE IrqWait
  BY <1>19, GotoType DEF IrqWait, TypeOK, Roles, DepthInv, Count
<1>20. CASE IrqLock
  BY <1>20, GotoType DEF IrqLock, Lock, TypeOK, Roles, DepthInv, Count
<1>21. CASE IrqRead
  <2>1. /\ bad' \in 0..RecoveryMax /\ down' \in BOOLEAN
        /\ chip' \in {"none", "touch", "gesture", "sleep", "test"}
    BY <1>21, DownloadType, RecoveryAssumption DEF IrqRead, TypeOK
  <2>2. lock' = "none" /\ Goto("irq", "idle")
        /\ UNCHANGED <<awake, irqVars, pending, envVars, pmVars>>
    BY <1>21 DEF IrqRead, Unlock
  <2>. QED BY <2>1, <2>2, GotoType DEF TypeOK, Roles, DepthInv, Count
<1>22. CASE BootUpdate
  <2>1. TypeOK'
    BY <1>22, DownloadType DEF BootUpdate, TypeOK
  <2>2. Roles'
    BY <1>22, DownloadType DEF BootUpdate, TypeOK, Roles
  <2>3. DepthInv'
    BY <1>22, DownloadType DEF BootUpdate, TypeOK, Roles, DepthInv, Count
  <2>. QED BY <2>1, <2>2, <2>3
<1>23. CASE SelfTest \/ SelfTestSignal
  BY <1>23, GotoType DEF SelfTest, SelfTestSignal, TypeOK, Roles, DepthInv, Count
<1>24. CASE SelfTestLoad
  BY <1>24, GotoType, DownloadType DEF SelfTestLoad, Lock, TypeOK, Roles, DepthInv, Count
<1>25. CASE SelfTestEnd
  BY <1>25, GotoType, DownloadType DEF SelfTestEnd, Unlock, TypeOK, Roles, DepthInv, Count
<1>26. CASE PmSuspend \/ PmSuspended \/ PmResume \/ PmResumed
  <2>1. CASE PmSuspend
    <3>1. TypeOK'
      BY <2>1 DEF PmSuspend, TypeOK
    <3>2. Roles'
      BY <2>1 DEF PmSuspend, TypeOK, Roles
    <3>3. DepthInv'
      BY <2>1 DEF PmSuspend, TypeOK, Roles, DepthInv, Count
    <3>. QED BY <3>1, <3>2, <3>3
  <2>2. CASE PmSuspended
    <3>1. TypeOK'
      BY <2>2 DEF PmSuspended, TypeOK
    <3>2. Roles'
      BY <2>2 DEF PmSuspended, TypeOK, Roles
    <3>3. DepthInv'
      BY <2>2 DEF PmSuspended, TypeOK, Roles, DepthInv, Count
    <3>. QED BY <3>1, <3>2, <3>3
  <2>3. CASE PmResume
    <3>0. pmFlag' \in BOOLEAN
      BY <2>3 DEF PmResume
    <3>1. TypeOK'
      BY <3>0, <2>3 DEF PmResume, TypeOK
    <3>2. Roles'
      BY <2>3 DEF PmResume, TypeOK, Roles
    <3>3. DepthInv'
      BY <2>3 DEF PmResume, TypeOK, Roles, DepthInv, Count
    <3>. QED BY <3>1, <3>2, <3>3
  <2>4. CASE PmResumed
    <3>1. TypeOK'
      BY <2>4 DEF PmResumed, TypeOK, PmInv
    <3>2. Roles'
      BY <2>4 DEF PmResumed, TypeOK, Roles
    <3>3. DepthInv'
      BY <2>4 DEF PmResumed, TypeOK, Roles, DepthInv, Count
    <3>. QED BY <3>1, <3>2, <3>3
  <2>. QED BY <1>26, <2>1, <2>2, <2>3, <2>4
<1>27. CASE UNCHANGED vars
  BY <1>27 DEF vars, TypeOK, Roles, DepthInv, Count
<1>. QED
  BY <1>1, <1>2, <1>3, <1>4, <1>5, <1>6, <1>7, <1>8, <1>9, <1>10, <1>11, <1>12,
     <1>13, <1>14, <1>15, <1>16, <1>17, <1>18, <1>19, <1>20, <1>21, <1>22, <1>23,
     <1>24, <1>25, <1>26, <1>27 DEF Next, Step, Suspend, Resume

LEMMA PmInvNext == PmInv /\ [Next]_vars => PmInv'
<1>. SUFFICES ASSUME PmInv, [Next]_vars PROVE PmInv'
  OBVIOUS
<1>. USE DEF PmInv, irqVars, chipVars, pmVars, envVars
<1>1. ASSUME NEW t \in Thread, Suspend(t) \/ Resume(t) PROVE PmInv'
  BY <1>1 DEF Suspend, SuspendCheck, SuspendIrq, SuspendSync, SuspendLock, SuspendSleep,
     SuspendMode, SuspendRelease, Resume, ResumeCheck, ResumeLock, ResumeLoad, ResumeAwake
<1>2. CASE CancelWork \/ ResumeWork \/ IrqLock \/ IrqRead \/ SelfTestLoad \/ SelfTestEnd
  BY <1>2 DEF CancelWork, ResumeWork, IrqLock, IrqRead, SelfTestLoad, SelfTestEnd
<1>3. CASE IrqWait
  BY <1>3 DEF IrqWait
<1>4. CASE Blank \/ Unblank \/ Recover \/ GestureSwitch \/ Irq \/ BootUpdate \/ SelfTest \/ SelfTestSignal
  BY <1>4 DEF Blank, Unblank, Recover, GestureSwitch, Irq, BootUpdate, SelfTest, SelfTestSignal
<1>5. CASE PmSuspend \/ PmSuspended \/ PmResume \/ PmResumed
  BY <1>5 DEF PmSuspend, PmSuspended, PmResume, PmResumed
<1>6. CASE UNCHANGED vars
  BY <1>6 DEF vars
<1>. QED BY <1>1, <1>2, <1>3, <1>4, <1>5, <1>6 DEF Next, Step

LEMMA TypeInvNext == TypeInv /\ [Next]_vars => TypeInv'
BY RunInvNext, PmInvNext DEF TypeInv

\* Every variable keeps its type; in particular the interrupt is never enabled
\* more often than it was disabled, however many threads suspend and resume.
THEOREM TypeCorrect == Spec => []TypeOK
<1>1. Spec => []TypeInv
  BY TypeInvInit, TypeInvNext, PTL DEF Spec
<1>2. TypeInv => TypeOK
  BY DEF RunInv, TypeInv
<1>. QED BY <1>1, <1>2, PTL

-----------------------------------------------------------------------------
(* No finger stays down, whoever suspends and resumes.                     *)

Releasing == {"susMode", "susRelease"}

\* A thread that moves on without leaving the end of a suspend changes nothing.
LEMMA StuckFrame ==
    ASSUME TypeOK, NoStuckTouch, NEW t \in Thread, NEW p \in Pc, Goto(t, p),
           pc[t] \in Releasing => p \in Releasing, UNCHANGED <<awake, down>>
    PROVE  NoStuckTouch'
BY GotoType DEF TypeOK, NoStuckTouch, Releasing

\* The same for an action of no thread.
LEMMA StuckStutter ==
    ASSUME NoStuckTouch, UNCHANGED <<pc, awake, down>> PROVE NoStuckTouch'
BY DEF NoStuckTouch

LEMMA NoStuckNext == TypeInv /\ NoStuckTouch /\ [Next]_vars => NoStuckTouch'
<1>. SUFFICES ASSUME TypeInv, NoStuckTouch, [Next]_vars PROVE NoStuckTouch'
  OBVIOUS
<1>t. TypeOK
  BY DEF RunInv, TypeInv
<1>p. Pc = {"idle", "cancel", "wait", "irqLock", "irqRead", "mpLock", "mpTest",
            "susCheck", "susIrq", "susSync", "susLock", "susSleep", "susMode",
            "susRelease", "resCheck", "resLock", "resLoad", "resAwake"}
  BY DEF Pc, SuspendPc, ResumePc
<1>th. Thread = {"irq", "work", "drm", "fp", "mp"}
  BY DEF Thread
<1>. USE <1>p DEF At, irqVars, chipVars, pmVars, envVars, Releasing
<1>1. ASSUME NEW t \in Thread, SuspendCheck(t) PROVE NoStuckTouch'
  BY <1>1, <1>t, StuckFrame DEF SuspendCheck
<1>2. ASSUME NEW t \in Thread, SuspendIrq(t) PROVE NoStuckTouch'
  BY <1>2, <1>t, StuckFrame DEF SuspendIrq
<1>3. ASSUME NEW t \in Thread, SuspendSync(t) PROVE NoStuckTouch'
  BY <1>3, <1>t, StuckFrame DEF SuspendSync
<1>4. ASSUME NEW t \in Thread, SuspendLock(t) PROVE NoStuckTouch'
  BY <1>4, <1>t, StuckFrame DEF SuspendLock
<1>5. ASSUME NEW t \in Thread, SuspendSleep(t) PROVE NoStuckTouch'
  BY <1>5, <1>t, GotoType DEF SuspendSleep, NoStuckTouch, TypeOK
<1>6. ASSUME NEW t \in Thread, SuspendMode(t) PROVE NoStuckTouch'
  BY <1>6, <1>t, StuckFrame DEF SuspendMode
<1>7. ASSUME NEW t \in Thread, SuspendRelease(t) PROVE NoStuckTouch'
  BY <1>7 DEF SuspendRelease, NoStuckTouch
<1>8. ASSUME NEW t \in Thread, ResumeCheck(t) PROVE NoStuckTouch'
  BY <1>8, <1>t, StuckFrame DEF ResumeCheck, AfterResume
<1>9. ASSUME NEW t \in Thread, ResumeLock(t) PROVE NoStuckTouch'
  BY <1>9, <1>t, StuckFrame DEF ResumeLock
<1>10. ASSUME NEW t \in Thread, ResumeLoad(t) PROVE NoStuckTouch'
  BY <1>10, <1>t, StuckFrame DEF ResumeLoad
<1>11. ASSUME NEW t \in Thread, ResumeAwake(t) PROVE NoStuckTouch'
  BY <1>11 DEF ResumeAwake, NoStuckTouch
<1>12. CASE Blank
  BY <1>12, <1>t, <1>th, StuckFrame DEF Blank
<1>13. CASE CancelWork
  BY <1>13, <1>t, <1>th, StuckFrame DEF CancelWork
<1>14. CASE Unblank \/ GestureSwitch \/ BootUpdate
  BY <1>14, StuckStutter DEF Unblank, GestureSwitch, BootUpdate
<1>15. CASE ResumeWork
  BY <1>15, <1>t, <1>th, StuckFrame DEF ResumeWork
<1>16. CASE Recover
  BY <1>16, <1>t, <1>th, StuckFrame DEF Recover
<1>17. CASE Irq
  BY <1>17, <1>t, <1>th, StuckFrame DEF Irq
<1>18. CASE IrqWait
  BY <1>18, <1>t, <1>th, StuckFrame DEF IrqWait
<1>19. CASE IrqLock
  BY <1>19, <1>t, <1>th, StuckFrame DEF IrqLock
<1>20. CASE IrqRead
  <2>1. pc["irq"] = "irqRead" /\ Goto("irq", "idle") /\ awake' = awake
        /\ (awake \/ down' = down)
    BY <1>20 DEF IrqRead
  <2>2. CASE awake
    BY <2>1, <2>2 DEF NoStuckTouch
  <2>3. CASE ~awake
    BY <2>1, <2>3, <1>t, <1>th, StuckFrame
  <2>. QED BY <2>2, <2>3
<1>21. CASE SelfTest \/ SelfTestSignal
  BY <1>21, <1>t, <1>th, StuckFrame DEF SelfTest, SelfTestSignal
<1>22. CASE SelfTestLoad
  BY <1>22, <1>t, <1>th, StuckFrame DEF SelfTestLoad
<1>23. CASE SelfTestEnd
  BY <1>23, <1>t, <1>th, StuckFrame DEF SelfTestEnd
<1>24. CASE PmSuspend \/ PmSuspended \/ PmResume \/ PmResumed
  BY <1>24, StuckStutter DEF PmSuspend, PmSuspended, PmResume, PmResumed
<1>25. CASE UNCHANGED vars
  BY <1>25, StuckStutter DEF vars
<1>. QED
  BY <1>1, <1>2, <1>3, <1>4, <1>5, <1>6, <1>7, <1>8, <1>9, <1>10, <1>11, <1>12,
     <1>13, <1>14, <1>15, <1>16, <1>17, <1>18, <1>19, <1>20, <1>21, <1>22, <1>23,
     <1>24, <1>25 DEF Next, Step, Suspend, Resume

\* A touch that is asleep has no finger down, with any actors and failures:
\* neither the interrupt thread nor a second caller can slip a finger between
\* the lock and the release.
THEOREM NoStuckTouchHolds == Spec => []NoStuckTouch
<1>1. Init => NoStuckTouch
  BY DEF Init, NoStuckTouch
<1>. QED BY <1>1, TypeInvInit, TypeInvNext, NoStuckNext, PTL DEF Spec

-----------------------------------------------------------------------------
(* Without the recovery callback: the notifier and the worker alone.       *)

\* cancel_work_sync keeps the worker out of a suspend; a dark display has a
\* sleeping touch, and a lit one has a touch that is awake or on its way.
NotifierInv ==
    /\ pc["fp"] = "idle"
    /\ pc["drm"] \in SuspendPc => (~pending /\ pc["work"] = "idle")
    /\ pc["drm"] \in Releasing => ~awake
    /\ display = "off" => (~awake /\ ~pending /\ pc["work"] = "idle")
    /\ (display = "on" /\ pc["drm"] \in {"idle", "cancel"}) =>
            (awake \/ pending \/ pc["work"] \in ResumePc)

\* Only the notifier disables, and only when the flag says that it may.
DepthExact ==
    /\ depth = Count(pc["drm"] = "susSync") + Count(~irqOn)
    /\ pc["drm"] = "susSync" => irqOn

NoRecoveryInv == TypeInv /\ NotifierInv /\ DepthExact

\* Steps of other threads leave both alone.
LEMMA NotifierFrame ==
    ASSUME NotifierInv, DepthExact,
           pc'["drm"] = pc["drm"], pc'["work"] = pc["work"], pc'["fp"] = pc["fp"],
           UNCHANGED <<awake, pending, display, irqOn, depth>>
    PROVE  NotifierInv' /\ DepthExact'
BY DEF NotifierInv, DepthExact

\* In particular those of the interrupt thread and of the self test.
LEMMA OtherThreadFrame ==
    ASSUME TypeOK, NotifierInv, DepthExact, NEW t \in {"irq", "mp"}, NEW p \in Pc, Goto(t, p),
           UNCHANGED <<awake, pending, display, irqOn, depth>>
    PROVE  NotifierInv' /\ DepthExact'
<1>1. pc'["drm"] = pc["drm"] /\ pc'["work"] = pc["work"] /\ pc'["fp"] = pc["fp"]
  BY GotoType DEF TypeOK, Thread
<1>. QED BY <1>1, NotifierFrame

LEMMA NoRecoveryNext ==
    ASSUME "fp" \notin Actors
    PROVE  NoRecoveryInv /\ [Next]_vars => (NotifierInv /\ DepthExact)'
<1>. SUFFICES ASSUME NoRecoveryInv, [Next]_vars PROVE (NotifierInv /\ DepthExact)'
  OBVIOUS
<1>t. TypeOK /\ Roles /\ NotifierInv /\ DepthExact
  BY DEF NoRecoveryInv, RunInv, TypeInv
<1>p. Pc = {"idle", "cancel", "wait", "irqLock", "irqRead", "mpLock", "mpTest",
            "susCheck", "susIrq", "susSync", "susLock", "susSleep", "susMode",
            "susRelease", "resCheck", "resLock", "resLoad", "resAwake"}
  BY DEF Pc, SuspendPc, ResumePc
<1>r. pc["fp"] = "idle" /\ pc["drm"] \notin ResumePc /\ pc["work"] \notin SuspendPc
      /\ pc["irq"] \notin SuspendPc \cup ResumePc /\ pc["mp"] \notin SuspendPc \cup ResumePc
  BY <1>t DEF NotifierInv, Roles, SuspendPc, ResumePc
<1>g. ASSUME NEW t \in Thread, NEW p \in Pc, Goto(t, p)
      PROVE  /\ pc'[t] = p
             /\ \A u \in Thread \ {t} : pc'[u] = pc[u]
  BY <1>t, <1>g, GotoType DEF TypeOK
<1>th. Thread = {"irq", "work", "drm", "fp", "mp"}
  BY DEF Thread
<1>. USE <1>p, <1>th DEF At, irqVars, chipVars, pmVars, envVars, Releasing, SuspendPc, ResumePc
<1>1. ASSUME NEW t \in Thread, Suspend(t) PROVE (NotifierInv /\ DepthExact)'
  <2>1. t = "drm"
    BY <1>1, <1>r DEF Suspend, SuspendCheck, SuspendIrq, SuspendSync, SuspendLock,
                      SuspendSleep, SuspendMode, SuspendRelease
  <2>2. CASE SuspendCheck(t)
    BY <2>1, <2>2, <1>t, <1>g DEF SuspendCheck, NotifierInv, DepthExact, Count
  <2>3. CASE SuspendIrq(t)
    BY <2>1, <2>3, <1>t, <1>g DEF SuspendIrq, NotifierInv, DepthExact, Count
  <2>4. CASE SuspendSync(t)
    BY <2>1, <2>4, <1>t, <1>g DEF SuspendSync, NotifierInv, DepthExact, Count
  <2>5. CASE SuspendLock(t)
    BY <2>1, <2>5, <1>t, <1>g DEF SuspendLock, NotifierInv, DepthExact, Count
  <2>6. CASE SuspendSleep(t)
    BY <2>1, <2>6, <1>t, <1>g DEF SuspendSleep, NotifierInv, DepthExact, Count
  <2>7. CASE SuspendMode(t)
    BY <2>1, <2>7, <1>t, <1>g DEF SuspendMode, NotifierInv, DepthExact, Count
  <2>8. CASE SuspendRelease(t)
    BY <2>1, <2>8, <1>t, <1>g DEF SuspendRelease, NotifierInv, DepthExact, Count
  <2>. QED BY <1>1, <2>2, <2>3, <2>4, <2>5, <2>6, <2>7, <2>8 DEF Suspend
<1>2. ASSUME NEW t \in Thread, Resume(t) PROVE (NotifierInv /\ DepthExact)'
  <2>1. t = "work"
    BY <1>2, <1>r DEF Resume, ResumeCheck, ResumeLock, ResumeLoad, ResumeAwake
  <2>2. CASE ResumeCheck(t)
    BY <2>1, <2>2, <1>t, <1>g DEF ResumeCheck, AfterResume, NotifierInv, DepthExact, Count
  <2>3. CASE ResumeLock(t)
    BY <2>1, <2>3, <1>t, <1>g DEF ResumeLock, NotifierInv, DepthExact, Count
  <2>4. CASE ResumeLoad(t)
    BY <2>1, <2>4, <1>t, <1>g DEF ResumeLoad, NotifierInv, DepthExact, Count
  <2>5. CASE ResumeAwake(t)
    BY <2>1, <2>5, <1>t, <1>g DEF ResumeAwake, AfterResume, NotifierInv, DepthExact, Count
  <2>. QED BY <1>2, <2>2, <2>3, <2>4, <2>5 DEF Resume
<1>3. CASE Blank
  BY <1>3, <1>t, <1>g DEF Blank, NotifierInv, DepthExact, Count
<1>4. CASE CancelWork
  BY <1>4, <1>t, <1>g DEF CancelWork, NotifierInv, DepthExact, Count
<1>5. CASE Unblank
  BY <1>5, <1>t DEF Unblank, NotifierInv, DepthExact, Count
<1>6. CASE ResumeWork
  BY <1>6, <1>t, <1>g DEF ResumeWork, NotifierInv, DepthExact, Count
<1>7. CASE Recover
  BY <1>7 DEF Recover
<1>8. CASE GestureSwitch \/ BootUpdate
  BY <1>8, <1>t, NotifierFrame DEF GestureSwitch, BootUpdate
<1>9. CASE Irq \/ IrqWait \/ IrqLock \/ IrqRead
  BY <1>9, <1>t, OtherThreadFrame DEF Irq, IrqWait, IrqLock, IrqRead
<1>10. CASE SelfTest \/ SelfTestSignal \/ SelfTestLoad \/ SelfTestEnd
  BY <1>10, <1>t, OtherThreadFrame DEF SelfTest, SelfTestSignal, SelfTestLoad, SelfTestEnd
<1>11. CASE PmSuspend \/ PmSuspended \/ PmResume \/ PmResumed
  BY <1>11, <1>t, NotifierFrame DEF PmSuspend, PmSuspended, PmResume, PmResumed
<1>12. CASE UNCHANGED vars
  BY <1>12, <1>t, NotifierFrame DEF vars
<1>. QED
  BY <1>1, <1>2, <1>3, <1>4, <1>5, <1>6, <1>7, <1>8, <1>9, <1>10, <1>11, <1>12 DEF Next, Step

LEMMA NoRecoveryInvariant ==
    ASSUME "fp" \notin Actors PROVE Spec => []NoRecoveryInv
<1>1. Init => NoRecoveryInv
  <2>1. Init => NotifierInv /\ DepthExact
    BY DEF Init, NotifierInv, DepthExact, Count, Thread, SuspendPc, ResumePc, Releasing
  <2>. QED BY <2>1, TypeInvInit DEF NoRecoveryInv
<1>2. NoRecoveryInv /\ [Next]_vars => NoRecoveryInv'
  BY NoRecoveryNext, TypeInvNext DEF NoRecoveryInv
<1>. QED BY <1>1, <1>2, PTL DEF Spec

\* Without the recovery callback the touch ends awake exactly when the display
\* is on, whatever fails and however gesture mode is switched.
THEOREM FollowsDisplayHolds ==
    ASSUME "fp" \notin Actors PROVE Spec => []FollowsDisplay
<1>1. NoRecoveryInv => FollowsDisplay
  <2>. SUFFICES ASSUME NoRecoveryInv, Settled PROVE awake <=> display = "on"
    BY DEF FollowsDisplay
  <2>1. ~pending /\ pc["drm"] = "idle" /\ pc["work"] = "idle" /\ display \in {"on", "off"}
    BY DEF Settled, At, Thread, NoRecoveryInv, RunInv, TypeInv, TypeOK
  <2>. QED BY <2>1 DEF NoRecoveryInv, NotifierInv, ResumePc
<1>. QED BY <1>1, NoRecoveryInvariant, PTL

\* Without it one enable undoes one disable at all times.
THEOREM IrqBalancedHolds ==
    ASSUME "fp" \notin Actors PROVE Spec => []IrqBalanced
<1>1. NoRecoveryInv => IrqBalanced
  BY DEF NoRecoveryInv, DepthExact, Count, IrqBalanced, At, Thread
<1>. QED BY <1>1, NoRecoveryInvariant, PTL

-----------------------------------------------------------------------------
(* With the recovery callback, and gesture mode switched when settled.      *)

\* Gesture mode keeps the interrupt on; without it only the notifier suspends
\* and only the worker resumes, in turn, and the flag follows where they are.
ModeInv ==
    /\ pc["drm"] \in SuspendPc => (~pending /\ pc["work"] = "idle")
    /\ gesture => (irqOn /\ pc["drm"] # "susSync" /\ pc["fp"] # "susSync")
    /\ ~gesture =>
          /\ pc["fp"] = "idle"
          /\ pc["drm"] \in {"susIrq", "susSync", "susLock", "susSleep"} => awake
          /\ pc["drm"] \in {"susLock", "susSleep"} => ~irqOn
          /\ pc["drm"] \in Releasing => ~awake
          /\ pc["work"] \in {"resLock", "resLoad", "resAwake"} => ~awake
          /\ awake => (irqOn \/ pc["drm"] \in {"susLock", "susSleep"})
          /\ ~awake => (irqOn <=> pc["work"] = "resAwake")

SettledInv == TypeInv /\ ModeInv /\ DepthExact

\* Steps of other threads leave both alone.
LEMMA ModeFrame ==
    ASSUME ModeInv, DepthExact,
           pc'["drm"] = pc["drm"], pc'["work"] = pc["work"], pc'["fp"] = pc["fp"],
           UNCHANGED <<awake, gesture, pending, irqOn, depth>>
    PROVE  ModeInv' /\ DepthExact'
BY DEF ModeInv, DepthExact

LEMMA OtherThreadMode ==
    ASSUME TypeOK, ModeInv, DepthExact, NEW t \in {"irq", "mp"}, NEW p \in Pc, Goto(t, p),
           UNCHANGED <<awake, gesture, pending, irqOn, depth>>
    PROVE  ModeInv' /\ DepthExact'
<1>1. pc'["drm"] = pc["drm"] /\ pc'["work"] = pc["work"] /\ pc'["fp"] = pc["fp"]
  BY GotoType DEF TypeOK, Thread
<1>. QED BY <1>1, ModeFrame

LEMMA SettledNext ==
    ASSUME ~AnySwitch
    PROVE  SettledInv /\ [Next]_vars => (ModeInv /\ DepthExact)'
<1>. SUFFICES ASSUME SettledInv, [Next]_vars PROVE (ModeInv /\ DepthExact)'
  OBVIOUS
<1>t. TypeOK /\ Roles /\ ModeInv /\ DepthExact
  BY DEF SettledInv, RunInv, TypeInv
<1>b. irqOn \in BOOLEAN /\ awake \in BOOLEAN /\ gesture \in BOOLEAN /\ depth \in Nat
  BY <1>t DEF TypeOK
<1>p. Pc = {"idle", "cancel", "wait", "irqLock", "irqRead", "mpLock", "mpTest",
            "susCheck", "susIrq", "susSync", "susLock", "susSleep", "susMode",
            "susRelease", "resCheck", "resLock", "resLoad", "resAwake"}
  BY DEF Pc, SuspendPc, ResumePc
<1>g. ASSUME NEW t \in Thread, NEW p \in Pc, Goto(t, p)
      PROVE  /\ pc'[t] = p
             /\ \A u \in Thread \ {t} : pc'[u] = pc[u]
  BY <1>t, <1>g, GotoType DEF TypeOK
<1>th. Thread = {"irq", "work", "drm", "fp", "mp"}
  BY DEF Thread
<1>. USE <1>p, <1>th DEF At, irqVars, chipVars, pmVars, envVars, Releasing, SuspendPc, ResumePc
<1>1. ASSUME NEW t \in Thread, Suspend(t) PROVE (ModeInv /\ DepthExact)'
  <2>1. t \in {"drm", "fp"}
    BY <1>1, <1>t DEF Suspend, SuspendCheck, SuspendIrq, SuspendSync, SuspendLock,
                      SuspendSleep, SuspendMode, SuspendRelease, Roles
  <2>2. CASE SuspendCheck(t)
    BY <2>1, <2>2, <1>b, <1>t, <1>g DEF SuspendCheck, ModeInv, DepthExact, Count
  <2>3. CASE SuspendIrq(t)
    BY <2>1, <2>3, <1>b, <1>t, <1>g DEF SuspendIrq, ModeInv, DepthExact, Count
  <2>4. CASE SuspendSync(t)
    BY <2>1, <2>4, <1>b, <1>t, <1>g DEF SuspendSync, ModeInv, DepthExact, Count
  <2>5. CASE SuspendLock(t)
    BY <2>1, <2>5, <1>b, <1>t, <1>g DEF SuspendLock, ModeInv, DepthExact, Count
  <2>6. CASE SuspendSleep(t)
    BY <2>1, <2>6, <1>b, <1>t, <1>g DEF SuspendSleep, ModeInv, DepthExact, Count
  <2>7. CASE SuspendMode(t)
    BY <2>1, <2>7, <1>b, <1>t, <1>g DEF SuspendMode, ModeInv, DepthExact, Count
  <2>8. CASE SuspendRelease(t)
    BY <2>1, <2>8, <1>b, <1>t, <1>g DEF SuspendRelease, ModeInv, DepthExact, Count
  <2>. QED BY <1>1, <2>2, <2>3, <2>4, <2>5, <2>6, <2>7, <2>8 DEF Suspend
<1>2. ASSUME NEW t \in Thread, Resume(t) PROVE (ModeInv /\ DepthExact)'
  <2>1. t \in {"work", "fp"}
    BY <1>2, <1>t DEF Resume, ResumeCheck, ResumeLock, ResumeLoad, ResumeAwake, Roles
  <2>2. CASE ResumeCheck(t)
    BY <2>1, <2>2, <1>b, <1>t, <1>g DEF ResumeCheck, AfterResume, ModeInv, DepthExact, Count
  <2>3. CASE ResumeLock(t)
    BY <2>1, <2>3, <1>b, <1>t, <1>g DEF ResumeLock, ModeInv, DepthExact, Count
  <2>4. CASE ResumeLoad(t)
    BY <2>1, <2>4, <1>b, <1>t, <1>g DEF ResumeLoad, ModeInv, DepthExact, Count
  <2>5. CASE ResumeAwake(t)
    BY <2>1, <2>5, <1>b, <1>t, <1>g DEF ResumeAwake, AfterResume, ModeInv, DepthExact, Count
  <2>. QED BY <1>2, <2>2, <2>3, <2>4, <2>5 DEF Resume
<1>3. CASE Blank
  BY <1>3, <1>b, <1>t, <1>g DEF Blank, ModeInv, DepthExact, Count
<1>4. CASE CancelWork
  BY <1>4, <1>b, <1>t, <1>g DEF CancelWork, ModeInv, DepthExact, Count
<1>5. CASE Unblank
  BY <1>5, <1>t DEF Unblank, ModeInv, DepthExact, Count
<1>6. CASE ResumeWork
  BY <1>6, <1>b, <1>t, <1>g DEF ResumeWork, ModeInv, DepthExact, Count
<1>7. CASE Recover
  BY <1>7, <1>b, <1>t, <1>g DEF Recover, ModeInv, DepthExact, Count
<1>8. CASE GestureSwitch
  BY <1>8, <1>b, <1>t DEF GestureSwitch, Settled, ModeInv, DepthExact, Count
<1>9. CASE BootUpdate
  BY <1>9, <1>t, ModeFrame DEF BootUpdate
<1>10. CASE Irq \/ IrqWait \/ IrqLock \/ IrqRead
  BY <1>10, <1>t, OtherThreadMode DEF Irq, IrqWait, IrqLock, IrqRead
<1>11. CASE SelfTest \/ SelfTestSignal \/ SelfTestLoad \/ SelfTestEnd
  BY <1>11, <1>t, OtherThreadMode DEF SelfTest, SelfTestSignal, SelfTestLoad, SelfTestEnd
<1>12. CASE PmSuspend \/ PmSuspended \/ PmResume \/ PmResumed
  BY <1>12, <1>t, ModeFrame DEF PmSuspend, PmSuspended, PmResume, PmResumed
<1>13. CASE UNCHANGED vars
  BY <1>13, <1>t, ModeFrame DEF vars
<1>. QED
  BY <1>1, <1>2, <1>3, <1>4, <1>5, <1>6, <1>7, <1>8, <1>9, <1>10, <1>11, <1>12, <1>13
     DEF Next, Step

LEMMA SettledInvariant == ASSUME ~AnySwitch PROVE Spec => []SettledInv
<1>1. Init => SettledInv
  <2>1. Init => ModeInv /\ DepthExact
    BY DEF Init, ModeInv, DepthExact, Count, Thread, SuspendPc, ResumePc, Releasing
  <2>. QED BY <2>1, TypeInvInit DEF SettledInv
<1>2. SettledInv /\ [Next]_vars => SettledInv'
  BY SettledNext, TypeInvNext DEF SettledInv
<1>. QED BY <1>1, <1>2, PTL DEF Spec

\* With every actor, the recovery callback included, and every failure: once
\* nothing is under way the interrupt fires exactly when somebody wants it, as
\* long as gesture mode is only switched then.
THEOREM IrqFollowsModeHolds == ASSUME ~AnySwitch PROVE Spec => []IrqFollowsMode
<1>1. SettledInv => IrqFollowsMode
  <2>. SUFFICES ASSUME SettledInv, Settled PROVE depth = 0 <=> (awake \/ gesture)
    BY DEF IrqFollowsMode
  <2>1. pc["drm"] = "idle" /\ pc["work"] = "idle" /\ depth = Count(~irqOn)
    BY DEF Settled, At, Thread, SettledInv, DepthExact, Count
  <2>. QED BY <2>1 DEF SettledInv, ModeInv, Count
<1>. QED BY <1>1, SettledInvariant, PTL

\* And one enable undoes one disable, with the recovery callback too.
THEOREM IrqBalancedSettledHolds == ASSUME ~AnySwitch PROVE Spec => []IrqBalanced
<1>1. SettledInv => IrqBalanced
  BY DEF SettledInv, DepthExact, Count, IrqBalanced, At, Thread
<1>. QED BY <1>1, SettledInvariant, PTL
=============================================================================
