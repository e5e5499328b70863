------------------------- MODULE PhoneBoot_proofs -------------------------
(***************************************************************************)
(* Proofs about the way from power on to the root file system's init, for  *)
(* every overlay, every number of tries, images and power losses.          *)
(***************************************************************************)
EXTENDS PhoneBoot, UsbGadget_proofs, TLAPS

USE TriesAssumption, ImagesAssumption, LossesAssumption, OverlayAssumption

\* What deploying has done so far: every entry it has visited is in place, and
\* the one file that is open is still to be visited.
Progressed ==
  /\ phase \in {"off", "mounts", "search", "mount"} => done = {} /\ copying = {}
  /\ phase \in {"move", "init"} => done = Entries
  /\ phase # "off" =>
       /\ \A f \in Files \cap done : disk[f] = Copy(image)
       /\ Links \cap done \subseteq linked
  /\ copying \cap done = {}
  /\ \A f, g \in copying : f = g

BootInv == BootTypeOK /\ Progressed

\* What a file may hold.
LEMMA Contents ==
  /\ Nothing \in Content /\ Broken \in Content
  /\ \A i \in 1 .. MaxImages : Copy(i) \in Content
BY DEF Nothing, Broken, Copy, Content

\* The state a boot may begin in has it.
LEMMA BootInvInit == BootInit => BootInv
<1> SUFFICES ASSUME BootInit PROVE BootInv
    OBVIOUS
<1>1. 1 \in 1 .. MaxImages
  OBVIOUS
<1>2. {Nothing, Copy(1)} \subseteq Content
  BY <1>1, Contents
<1>3. disk \in [Files -> Content]
  BY <1>2 DEF BootInit
<1>4. BootTypeOK
  <2>1. /\ phase = "off" /\ image = 1 /\ linked \subseteq Links
        /\ dirty = {} /\ done = {} /\ copying = {} /\ node = FALSE
        /\ tries = Tries /\ losses = 0
    BY DEF BootInit
  <2>2. phase \in Phases /\ node \in BOOLEAN
    BY <2>1 DEF Phases
  <2>3. tries \in 0 .. Tries /\ losses \in 0 .. MaxLosses
    BY <2>1
  <2>4. dirty \subseteq Entries /\ done \subseteq Entries /\ copying \subseteq Files
    BY <2>1
  <2>5. image \in 1 .. MaxImages
    BY <1>1, <2>1
  <2> QED
    BY <1>3, <2>1, <2>2, <2>3, <2>4, <2>5, Zenon DEF BootTypeOK
<1> QED
  BY <1>4 DEF BootInit, BootInv, Progressed

\* Whatever the program does next keeps it.
LEMMA ProgramKeeps == BootInv /\ Program => BootInv'
<1> SUFFICES ASSUME BootInv, Program PROVE BootInv'
    OBVIOUS
<1> USE DEF BootInv, BootTypeOK, Progressed, Phases, Entries, store, deploying,
            outside
<1>1. CASE MountKernelFs
  BY <1>1 DEF MountKernelFs, Reach, Die
<1>2. CASE FindUserdata
  BY <1>2 DEF FindUserdata, Reach, Die
<1>3. CASE MountUserdata
  BY <1>3 DEF MountUserdata, Reach, Die
<1>4. CASE DeployFile
  <2>1. PICK f \in Files \ done : OpenCopy(f) /\ dirty' = dirty \cup {f}
    BY <1>4 DEF DeployFile
  <2> QED
    BY <1>4, <2>1, Contents DEF DeployFile, OpenCopy
<1>5. CASE FinishCopy
  <2>1. PICK f \in copying : /\ disk' = [disk EXCEPT ![f] = Copy(image)]
                             /\ done' = done \cup {f}
    BY <1>5 DEF FinishCopy
  <2>2. f \in Files /\ Copy(image) \in Content
    BY Contents
  <2>3. disk' \in [Files -> Content]
    BY <2>1, <2>2
  <2> QED
    BY <1>5, <2>1, <2>2, <2>3 DEF FinishCopy
<1>6. CASE DeployLink
  <2>1. PICK l \in Links \ done : /\ done' = done \cup {l}
                                  /\ linked' = linked \cup {l}
                                  /\ dirty' = IF l \in linked THEN dirty
                                                ELSE dirty \cup {l}
    BY <1>6 DEF DeployLink
  <2> QED
    BY <1>6, <2>1 DEF DeployLink
<1>7. CASE DeployEnds
  BY <1>7 DEF DeployEnds, Reach
<1>8. CASE SwitchRoot
  BY <1>8 DEF SwitchRoot, Reach, Die
<1> QED
  BY <1>1, <1>2, <1>3, <1>4, <1>5, <1>6, <1>7, <1>8 DEF Program

\* So does what happens around the program, losing the power included: what
\* the deployment had done is forgotten with it.
LEMMA OutsideKeeps ==
  BootInv /\ (PowerOn \/ PowerLoss \/ NewImage \/ NodeAppears) => BootInv'
<1> SUFFICES ASSUME BootInv, PowerOn \/ PowerLoss \/ NewImage \/ NodeAppears
             PROVE  BootInv'
    OBVIOUS
<1> USE DEF BootInv, BootTypeOK, Progressed, Phases, Entries, store, deploying,
            outside
<1>1. CASE PowerOn
  BY <1>1 DEF PowerOn
<1>2. CASE PowerLoss
  <2>1. PICK lost \in SUBSET dirty :
          /\ disk' = [f \in Files |-> IF f \in lost THEN Broken ELSE disk[f]]
          /\ linked' = linked \ lost
    BY <1>2 DEF PowerLoss
  <2>2. disk' \in [Files -> Content]
    BY <2>1, Contents
  <2>3. linked' \subseteq Links
    BY <2>1
  <2>4. losses' \in 0 .. MaxLosses /\ tries' \in 0 .. Tries
    BY <1>2 DEF PowerLoss
  <2>5. BootTypeOK'
    BY <1>2, <2>2, <2>3, <2>4 DEF PowerLoss
  <2> QED
    BY <1>2, <2>5 DEF PowerLoss
<1>3. CASE NewImage
  BY <1>3 DEF NewImage
<1>4. CASE NodeAppears
  BY <1>4 DEF NodeAppears
<1> QED
  BY <1>1, <1>2, <1>3, <1>4

\* The invariant of the boot on its own.
THEOREM BootInvHolds == BootSpec => []BootInv
<1>1. BootInv /\ [BootNext]_bootVars => BootInv'
  <2> SUFFICES ASSUME BootInv, [BootNext]_bootVars PROVE BootInv'
      OBVIOUS
  <2>1. CASE BootNext
    BY <2>1, ProgramKeeps, OutsideKeeps DEF BootNext
  <2>2. CASE UNCHANGED bootVars
    BY <2>2 DEF BootInv, BootTypeOK, Progressed, bootVars, store, deploying,
                outside
  <2> QED
    BY <2>1, <2>2
<1> QED
  BY <1>1, BootInvInit, PTL DEF BootSpec

\* The phone implements its first program: to the root file system and the
\* boot, whatever the unit, the script and the operator do is a stutter.
THEOREM PhoneRunsItsInitramfs == Spec => BootSpec
<1>1. Init => BootInit
  BY DEF Init
<1>2. [Next]_vars => [BootNext]_bootVars
  BY DEF Next, vars, BootNext
<1> QED
  BY <1>1, <1>2, PTL DEF Spec, BootSpec

\* Whenever the root file system's init runs, every file of the overlay is a
\* whole copy of the flashed image and every link exists, whatever earlier
\* boots were cut short and whichever images they ran.
THEOREM AlwaysDeployed == Spec => []DeployedAtInit
<1>1. BootInv => DeployedAtInit
  BY DEF BootInv, BootTypeOK, Progressed, DeployedAtInit, Entries
<1> QED
  BY <1>1, BootInvHolds, PhoneRunsItsInitramfs, PTL

-----------------------------------------------------------------------------
(* The gadget service on the phone.                                        *)

\* A step of the phone is one of the service, one that takes its state away
\* with the power, or one that leaves it alone.
LEMMA PhoneStep ==
  [Next]_vars => GadgetNext \/ GadgetReset \/ UNCHANGED gadgetVars
BY DEF Next, vars

\* The invariant of the gadget service holds on the phone.
THEOREM GadgetInvHolds == Spec => []GadgetInv
<1>1. Init => GadgetInv
  BY GadgetBegins DEF Init
<1>2. GadgetInv /\ [Next]_vars => GadgetInv'
  BY PhoneStep, GadgetKeeps
<1> QED
  BY <1>1, <1>2, PTL DEF Spec

\* Every variable of the phone keeps its type.
THEOREM TypeOKHolds == Spec => []TypeOK
<1>1. BootInv => BootTypeOK
  BY DEF BootInv
<1>2. BootTypeOK /\ GadgetTypeOK => TypeOK
  BY DEF TypeOK
<1> QED
  BY <1>1, <1>2, PhoneRunsItsInitramfs, BootInvHolds, GadgetInvHolds, GadgetTyped, PTL

\* A start that ran alone, with no removal cut short or overlapped before it,
\* reports success only for a gadget that is bound and an interface that is up
\* with its address: setup_gadget's early return and wait_iface let nothing else
\* through, for any number of looks, of calls and of kills.
THEOREM SuccessIsRealHolds == Spec => SuccessIsReal
<1> DEFINE Real == \A a \in Actors :
                     script[a].alone /\ ~spoiled /\ Address(a) /\ usb'.iface.addr
                       => Ready'
<1>1. GadgetInv => Real
  BY SuccessFromInv
<1>2. GadgetInv => [Real]_gadgetVars
  BY <1>1
<1> HIDE DEF Real
<1>3. [][Real]_gadgetVars => SuccessIsReal
  BY DEF Real, SuccessIsReal
<1> QED
  BY <1>2, <1>3, GadgetInvHolds, PTL

\* Whatever failed, killed or colliding scripts have left behind, a restart that
\* runs alone to its end, with a controller present, ends with the network
\* ready: teardown_gadget's order is one the kernel accepts from any leftover,
\* and nothing setup_gadget needs is then missing.
THEOREM RestartHealsHolds == Spec => RestartHeals
<1> DEFINE Healed == \A a \in Actors :
                       /\ script[a].op = "restart" /\ script[a].alone /\ usb.udc
                       /\ Command(a) /\ script'[a] = Idle
                       => Ready'
<1>1. GadgetInv => Healed
  BY HealsFromInv
<1>2. GadgetInv => [Healed]_gadgetVars
  BY <1>1
<1> HIDE DEF Healed
<1>3. [][Healed]_gadgetVars => RestartHeals
  BY DEF Healed, RestartHeals
<1> QED
  BY <1>2, <1>3, GadgetInvHolds, PTL
=============================================================================
