---------------------------- MODULE PhoneBoot ----------------------------
(***************************************************************************)
(* The way from power on to a login over USB: the boot image's first       *)
(* program (Initramfs), then the unit and the script of the overlay it has *)
(* deployed (UsbGadget).  systemd can start the unit only from the link    *)
(* and the script that are on the root file system by then; losing the     *)
(* power takes both back to where a boot begins.                           *)
(***************************************************************************)
EXTENDS Initramfs, UsbGadget

CONSTANTS
  WantsLink,   \* sysinit.target.wants/usb-gadget-rndis.service
  Script       \* usb-gadget-rndis.sh

ASSUME EntriesAssumption == WantsLink \in Links /\ Script \in Files

vars == <<bootVars, gadgetVars>>

TypeOK == BootTypeOK /\ GadgetTypeOK

Init == BootInit /\ GadgetInit

\* The script runs from the root file system: an empty or cut copy would not.
Deployed == WantsLink \in linked /\ disk[Script].from # 0

Next ==
  \/ PowerLoss /\ GadgetReset
  \/ PowerOn /\ UNCHANGED gadgetVars
  \/ NewImage /\ UNCHANGED gadgetVars
  \/ NodeAppears /\ UNCHANGED gadgetVars
  \/ Program /\ UNCHANGED gadgetVars
  \/ phase = "init" /\ Deployed /\ GadgetNext /\ UNCHANGED bootVars

\* The kernel schedules every process: a script's next command, the first
\* program's next step, systemd's own jobs.  Nothing makes the power stay, the
\* controller or the partition appear, or an operator act.
Fairness ==
  /\ WF_vars(Program /\ UNCHANGED gadgetVars)
  /\ \A a \in Actors :
       WF_vars(phase = "init" /\ Deployed /\ Command(a) /\ UNCHANGED bootVars)
  /\ WF_vars(phase = "init" /\ Deployed /\ BootStart /\ UNCHANGED bootVars)
  /\ WF_vars(phase = "init" /\ Deployed /\ StartSsh /\ UNCHANGED bootVars)

Spec == Init /\ [][Next]_vars /\ Fairness

-----------------------------------------------------------------------------
(* Properties                                                              *)

\* A phone that reaches the root file system's init and keeps its power starts
\* its ssh server, whether or not a USB controller ever appears and whatever
\* an operator does to the gadget meanwhile (ssh.service waits for the unit's
\* start to end, and every loop of the script gives up).
SshComesUp == (phase = "init") ~> (sshd \/ phase = "off")
=============================================================================
