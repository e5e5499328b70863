---------------------------- MODULE UsbGadget ----------------------------
(***************************************************************************)
(* The network over USB: usb-gadget-rndis.sh and the unit that runs it.    *)
(* Two actors run the script: systemd, once per boot and on request, and   *)
(* an operator at a console or over WiFi.  The script has no state of its  *)
(* own; it reads and writes the kernel's.  Every step is one command; a    *)
(* script may be killed between any two (TimeoutStartSec, systemctl stop,  *)
(* Ctrl-C), and "set -e" ends it at the first unguarded command that       *)
(* fails.  Left out: the attributes' values, the mount of configfs, and    *)
(* the UDC environment variable, which the unit does not set.              *)
(***************************************************************************)
EXTENDS Integers, Sequences

CONSTANTS
  UdcTries,     \* looks for a controller (60 in the code)
  IfaceTries,   \* looks for the interface (40 in the code)
  MaxCalls,     \* requests of the operator in one history
  MaxKills      \* scripts killed in one history

ASSUME LooksAssumption == {UdcTries, IfaceTries} \subseteq Nat \ {0}
ASSUME GadgetBoundsAssumption == {MaxCalls, MaxKills} \subseteq Nat

Actors == {"unit", "shell"}
Ops == {"start", "stop", "restart"}

VARIABLES
  usb,       \* the kernel: the parts of the gadget in configfs, its binding,
             \* whether a controller is probed, the interface
  script,    \* of each actor: the call it runs, its next command, its place in
             \* a list, its looks left, whether the directory it entered still
             \* exists, and (history) whether it has run alone so far
  unit,      \* the unit's state
  sshd,      \* whether ssh.service has been started
  spoiled,   \* history: a removal was cut short, or two scripts overlapped
  calls, kills

gadgetVars == <<usb, script, unit, sshd, spoiled, calls, kills>>

\* The order of teardown_gadget and, after the directory, of setup_gadget.
Removals == <<"link", "function", "configStrings", "config", "strings", "gadget">>
Creations == <<"strings", "config", "configStrings", "function", "link">>
Parts == {Removals[i] : i \in DOMAIN Removals}

NoIface == [there |-> FALSE, up |-> FALSE, addr |-> FALSE]
NoGadget == [made |-> {}, bound |-> FALSE, udc |-> FALSE, iface |-> NoIface]
Idle == [op |-> "none", pc |-> "idle", at |-> 1, looks |-> 0, home |-> FALSE,
         alone |-> TRUE]

GadgetTypeOK ==
  /\ usb \in [made : SUBSET Parts, bound : BOOLEAN, udc : BOOLEAN,
              iface : [there : BOOLEAN, up : BOOLEAN, addr : BOOLEAN]]
  /\ \A a \in Actors :
       /\ script[a].op \in Ops \cup {"none"}
       /\ script[a].at \in DOMAIN Removals
       /\ script[a].looks \in 0 .. UdcTries + IfaceTries
       /\ (script[a].pc = "idle") = (script[a] = Idle)
       /\ script[a].home => "gadget" \in usb.made
  /\ unit \in {"inactive", "starting", "active", "stopping", "failed"}
  /\ {sshd, spoiled} \subseteq BOOLEAN
  /\ calls \in 0 .. MaxCalls /\ kills \in 0 .. MaxKills

GadgetInit ==
  /\ usb = NoGadget /\ script = [a \in Actors |-> Idle]
  /\ unit = "inactive" /\ sshd = FALSE /\ spoiled = FALSE
  /\ calls = 0 /\ kills = 0

\* configfs lives in memory.
GadgetReset ==
  /\ usb' = NoGadget /\ script' = [a \in Actors |-> Idle]
  /\ unit' = "inactive" /\ sshd' = FALSE /\ spoiled' = FALSE
  /\ UNCHANGED <<calls, kills>>

-----------------------------------------------------------------------------
(* The kernel's rules (configfs and the composite gadget)                  *)

\* What a part is made in, and so what keeps that one from being removed; a
\* link holds the function it points to as well.
Parents(p) == CASE p = "gadget"        -> {}
                [] p = "configStrings" -> {"config"}
                [] p = "link"          -> {"config", "function"}
                [] OTHER               -> {"gadget"}
Removable(p) == p \in usb.made /\ \A q \in usb.made : p \notin Parents(q)

\* Removing the link of a bound gadget unbinds it; the interface goes with the
\* function.
Without(p) == [usb EXCEPT !.made = @ \ {p},
                          !.bound = @ /\ p # "link",
                          !.iface = IF p = "function" THEN NoIface ELSE @]

-----------------------------------------------------------------------------
(* How a script goes on and how a start ends                               *)

At(a, label) == script[a].pc = label

\* s is what the actor's script becomes.
Goes(a, s) == script' = [script EXCEPT ![a] = s] /\ UNCHANGED <<unit, spoiled>>
Goto(a, label) == Goes(a, [script[a] EXCEPT !.pc = label])

End(a, ok) ==
  /\ script' = [script EXCEPT ![a] = Idle]
  /\ unit' = IF a = "shell" THEN unit ELSE IF ok THEN "active" ELSE "failed"

\* A command of which ok says whether it works: it has its effect and the
\* script goes on, or the script ends there.
Try(a, ok, effect, s) ==
  \/ ok /\ usb' = effect /\ Goes(a, s)
  \/ ~ok /\ End(a, FALSE) /\ UNCHANGED <<usb, spoiled>>

TryGoto(a, ok, effect, label) == Try(a, ok, effect, [script[a] EXCEPT !.pc = label])

-----------------------------------------------------------------------------
(* stop: teardown_network, then teardown_gadget; no failure ends it        *)

Flush(a) == At(a, "flush") /\ usb' = [usb EXCEPT !.iface.addr = FALSE] /\ Goto(a, "down")
Down(a) == At(a, "down") /\ usb' = [usb EXCEPT !.iface.up = FALSE] /\ Goto(a, "exists")

\* A stop ends here, a restart goes on to setup_gadget.  A removal that no
\* other script took part in leaves nothing of earlier trouble behind.  Who
\* had entered a directory that is gone cannot use it any more.
TeardownEnds(a, gone) ==
  /\ spoiled' = (spoiled /\ ~script[a].alone)
  /\ LET left == [b \in Actors |-> [script[b] EXCEPT !.home = @ /\ ~gone]]
     IN IF script[a].op = "stop"
          THEN script' = [left EXCEPT ![a] = Idle]
          ELSE script' = [left EXCEPT ![a].pc = "check", ![a].at = 1]
  /\ unit' = IF a = "unit" THEN "inactive" ELSE unit

Exists(a) ==
  /\ At(a, "exists")
  /\ IF "gadget" \in usb.made THEN Goto(a, "unbind") ELSE TeardownEnds(a, FALSE)
  /\ UNCHANGED usb

Unbind_KeepsTheRest(a) ==
  At(a, "unbind") /\ usb' = [usb EXCEPT !.bound = FALSE] /\ TeardownEnds(a, FALSE)

Unbind(a) == At(a, "unbind") /\ usb' = [usb EXCEPT !.bound = FALSE] /\ Goto(a, "remove")

RemovalAt_FunctionFirst(i) ==
  CASE i = 1 -> "function" [] i = 2 -> "link" [] OTHER -> Removals[i]

RemovalAt(i) == Removals[i]

\* Each removal is tried, whatever became of the one before.
Remove(a) ==
  /\ At(a, "remove")
  /\ LET p == RemovalAt(script[a].at)
     IN /\ usb' = IF Removable(p) THEN Without(p) ELSE usb
        /\ IF p = "gadget" THEN TeardownEnds(a, Removable(p))
                           ELSE Goes(a, [script[a] EXCEPT !.at = @ + 1])

-----------------------------------------------------------------------------
(* start: setup_gadget, then setup_network                                 *)

\* A directory that exists, whatever it holds, is taken for a gadget that is
\* set up.
Check(a) ==
  /\ At(a, "check")
  /\ IF "gadget" \in usb.made
       THEN Goes(a, [script[a] EXCEPT !.pc = "wait", !.looks = IfaceTries])
       ELSE Goto(a, "make")
  /\ UNCHANGED usb

Make(a) == At(a, "make") /\ usb' = [usb EXCEPT !.made = @ \cup {"gadget"}] /\ Goto(a, "enter")

Enter(a) ==
  At(a, "enter") /\ Try(a, "gadget" \in usb.made, usb,
                        [script[a] EXCEPT !.pc = "fill", !.home = TRUE])

\* The commands after cd fail once the directory that was entered is removed,
\* even if another has its name.  mkdir -p finds no fault with a directory
\* that exists, ln does with a link that does.
Fill(a) ==
  /\ At(a, "fill")
  /\ LET p == Creations[script[a].at]
     IN Try(a, /\ script[a].home
               /\ Parents(p) \subseteq usb.made
               /\ p = "link" => p \notin usb.made,
            [usb EXCEPT !.made = @ \cup {p}],
            IF p = "link"
              THEN [script[a] EXCEPT !.pc = "findUdc", !.at = 1, !.looks = UdcTries]
              ELSE [script[a] EXCEPT !.at = @ + 1])

Look_Forever(a, seen, next) == UNCHANGED usb /\ Goto(a, IF seen THEN next ELSE script[a].pc)

\* One turn of a loop that looks for something a limited number of times.
Look(a, seen, next) ==
  IF ~seen /\ script[a].looks > 1
    THEN UNCHANGED usb /\ Goes(a, [script[a] EXCEPT !.looks = @ - 1])
    ELSE Try(a, seen, usb, [script[a] EXCEPT !.pc = next, !.looks = 0])

FindUdc(a) == At(a, "findUdc") /\ Look(a, usb.udc, "bind")

\* The kernel binds a gadget whose configuration has a function, once.
Bind(a) ==
  /\ At(a, "bind")
  /\ Try(a, script[a].home /\ ~usb.bound /\ "link" \in usb.made,
         [usb EXCEPT !.bound = TRUE, !.iface.there = TRUE],
         [script[a] EXCEPT !.pc = "wait", !.looks = IfaceTries])

WaitIface(a) == At(a, "wait") /\ Look(a, usb.iface.there, "up")

LinkUp(a) ==
  At(a, "up") /\ TryGoto(a, usb.iface.there, [usb EXCEPT !.iface.up = TRUE], "reflush")

Reflush(a) ==
  At(a, "reflush") /\ usb' = [usb EXCEPT !.iface.addr = FALSE] /\ Goto(a, "address")

\* The address is refused when the interface has it already.
Address(a) ==
  /\ At(a, "address")
  /\ LET ok == usb.iface.there /\ ~usb.iface.addr
     IN usb' = (IF ok THEN [usb EXCEPT !.iface.addr = TRUE] ELSE usb) /\ End(a, ok)
  /\ UNCHANGED spoiled

Command(a) ==
  /\ \/ Flush(a) \/ Down(a) \/ Exists(a) \/ Unbind(a) \/ Remove(a)
     \/ Check(a) \/ Make(a) \/ Enter(a) \/ Fill(a) \/ FindUdc(a) \/ Bind(a)
     \/ WaitIface(a) \/ LinkUp(a) \/ Reflush(a) \/ Address(a)
  /\ UNCHANGED <<sshd, calls, kills>>

-----------------------------------------------------------------------------
(* systemd and the operator                                                *)

Begin(a, o) ==
  LET overlap == \E b \in Actors : script[b] # Idle
  IN /\ script[a] = Idle
     /\ script' = [b \in Actors |->
          IF b = a THEN [Idle EXCEPT !.op = o, !.alone = ~overlap,
                                     !.pc = IF o = "start" THEN "check" ELSE "flush"]
          ELSE IF overlap THEN [script[b] EXCEPT !.alone = FALSE] ELSE script[b]]
     /\ spoiled' = (spoiled \/ overlap)
     /\ UNCHANGED usb

\* Booting starts the unit once, for either target that wants it.
BootStart ==
  /\ unit = "inactive" /\ ~sshd
  /\ Begin("unit", "start") /\ unit' = "starting"
  /\ UNCHANGED <<sshd, calls, kills>>

\* A later systemctl start or stop.  Stopping a unit whose start failed runs no
\* ExecStop, so it is no call.
AskUnit ==
  /\ sshd /\ calls < MaxCalls
  /\ \/ unit \in {"inactive", "failed"} /\ Begin("unit", "start") /\ unit' = "starting"
     \/ unit = "active" /\ Begin("unit", "stop") /\ unit' = "stopping"
  /\ calls' = calls + 1
  /\ UNCHANGED <<sshd, kills>>

CallScript ==
  /\ calls < MaxCalls
  /\ \E o \in Ops : Begin("shell", o)
  /\ calls' = calls + 1
  /\ UNCHANGED <<unit, sshd, kills>>

Kill(a) ==
  /\ script[a] # Idle /\ kills < MaxKills
  /\ script' = [script EXCEPT ![a] = Idle]
  /\ unit' = IF a = "unit" THEN "failed" ELSE unit
  /\ spoiled' = (spoiled \/ At(a, "remove"))
  /\ kills' = kills + 1
  /\ UNCHANGED <<usb, sshd, calls>>

UdcAppears ==
  /\ ~usb.udc /\ usb' = [usb EXCEPT !.udc = TRUE]
  /\ UNCHANGED <<script, unit, sshd, spoiled, calls, kills>>

\* ssh.service is ordered after the unit and only wants it: it starts once the
\* unit's start has ended, well or badly.
StartSsh ==
  /\ ~sshd /\ unit \in {"active", "failed"} /\ sshd' = TRUE
  /\ UNCHANGED <<usb, script, unit, spoiled, calls, kills>>

GadgetNext ==
  \/ BootStart \/ AskUnit \/ CallScript \/ UdcAppears \/ StartSsh
  \/ \E a \in Actors : Command(a) \/ Kill(a)

-----------------------------------------------------------------------------
(* Properties                                                              *)

Ready == usb.bound /\ usb.iface = [there |-> TRUE, up |-> TRUE, addr |-> TRUE]

\* A start that no other script overlapped reports success only for a gadget
\* that is bound and an interface that is up with its address, even when it
\* found the gadget's directory and took it for one that is set up - unless an
\* earlier removal was cut short or overlapped (setup_gadget returns early;
\* only wait_iface tells a gadget in use from one left over).
SuccessIsReal ==
  [][\A a \in Actors :
       script[a].alone /\ ~spoiled /\ Address(a) /\ usb'.iface.addr
         => Ready']_gadgetVars

\* Whatever earlier scripts left behind when they failed, were killed or ran
\* into each other, a restart that runs alone, to its end, with a controller
\* present, ends with the network ready (teardown_gadget tries every removal,
\* in an order the kernel accepts, from any leftover).
RestartHeals ==
  [][\A a \in Actors :
       /\ script[a].op = "restart" /\ script[a].alone /\ usb.udc
       /\ Command(a) /\ script'[a] = Idle
       => Ready']_gadgetVars
=============================================================================
