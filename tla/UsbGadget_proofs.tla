-------------------------- MODULE UsbGadget_proofs --------------------------
(***************************************************************************)
(* Proofs about the gadget script and its unit, for any number of looks,   *)
(* of the operator's calls and of kills.                                   *)
(***************************************************************************)
EXTENDS UsbGadget, TLAPS

-----------------------------------------------------------------------------
(* The inductive invariant.                                                *)

Units == {"inactive", "starting", "active", "stopping", "failed"}
Teardown == {"flush", "down", "exists", "unbind", "remove"}
Setup == {"check", "make", "enter", "fill", "findUdc", "bind", "wait", "up",
          "reflush", "address"}
Calls == [op : Ops \cup {"none"}, pc : Teardown \cup Setup \cup {"idle"},
          at : 1 .. 6, looks : 0 .. UdcTries + IfaceTries,
          home : BOOLEAN, alone : BOOLEAN]

Runs(a) == script[a].pc # "idle"

\* A call is at a command of its own, and its place is one of its list.
Placed(s) ==
  IF s.pc = "idle" THEN s = Idle
  ELSE /\ s.op \in Ops
       /\ s.op = "stop" => s.pc \in Teardown
       /\ s.op = "start" => s.pc \in Setup
       /\ s.pc \notin {"remove", "fill"} => s.at = 1
       /\ s.pc = "fill" => s.at <= 5

ScriptInv == script \in [Actors -> Calls] /\ \A a \in Actors : Placed(script[a])

\* configfs holds no part without what it is in; only a whole gadget is bound,
\* and the interface is the function's.
KernelType ==
  usb \in [made : SUBSET Parts, bound : BOOLEAN, udc : BOOLEAN,
           iface : [there : BOOLEAN, up : BOOLEAN, addr : BOOLEAN]]
KernelInv ==
  /\ KernelType
  /\ \A p \in usb.made : Parents(p) \subseteq usb.made
  /\ usb.bound => "link" \in usb.made
  /\ usb.iface.there => "function" \in usb.made
HomeInv == \A a \in Actors : script[a].home => "gadget" \in usb.made

\* A script that has run alone runs alone; where two have met, it is on record.
AloneInv ==
  \A a \in Actors : Runs(a) =>
    IF script[a].alone THEN \A b \in Actors \ {a} : ~Runs(b) ELSE spoiled

\* Without earlier trouble an interface belongs to a bound gadget, except while
\* its removal goes on.
SoundInv ==
  ~spoiled /\ usb.iface.there /\ (\A a \in Actors : ~At(a, "remove")) => usb.bound

\* What a script that runs alone has removed is gone, and what it has waited
\* for and set on the interface stays.
Owns(a) ==
  script[a].alone =>
    /\ At(a, "remove") => \A i \in 1 .. script[a].at - 1 : Removals[i] \notin usb.made
    /\ script[a].pc \in {"up", "reflush", "address"} => usb.iface.there
    /\ script[a].pc \in {"reflush", "address"} => usb.iface.up
    /\ At(a, "address") => ~usb.iface.addr

\* What a restart that runs alone has made so far, from nothing.
Heals(a) ==
  script[a].alone /\ script[a].op = "restart" =>
    /\ script[a].pc \in {"check", "make"} => usb.made = {}
    /\ At(a, "enter") => usb.made = {"gadget"}
    /\ At(a, "fill") =>
         usb.made = {"gadget"} \cup {Creations[i] : i \in 1 .. script[a].at - 1}
    /\ script[a].pc \in {"findUdc", "bind"} => "link" \in usb.made
    /\ script[a].pc \in {"fill", "findUdc", "bind"} => script[a].home
    /\ script[a].pc \in {"check", "make", "enter", "fill", "findUdc", "bind"}
         => ~usb.bound
    /\ script[a].pc \in {"wait", "up", "reflush", "address"}
         => usb.bound /\ usb.iface.there

CallsInv == \A a \in Actors : Owns(a) /\ Heals(a)

RecordInv ==
  /\ unit \in Units /\ sshd \in BOOLEAN /\ spoiled \in BOOLEAN
  /\ calls \in 0 .. MaxCalls /\ kills \in 0 .. MaxKills

GadgetInv ==
  /\ ScriptInv /\ KernelInv /\ HomeInv /\ RecordInv
  /\ AloneInv /\ SoundInv /\ CallsInv

-----------------------------------------------------------------------------
(* The lists of the script, and the initial state                          *)

\* The removals, one by one.
LEMMA RemovalList ==
  /\ DOMAIN Removals = 1 .. 6
  /\ Removals[1] = "link" /\ Removals[2] = "function" /\ Removals[3] = "configStrings"
  /\ Removals[4] = "config" /\ Removals[5] = "strings" /\ Removals[6] = "gadget"
  /\ Parts = {"link", "function", "configStrings", "config", "strings", "gadget"}
<1>1. /\ DOMAIN Removals = 1 .. 6
      /\ Removals[1] = "link" /\ Removals[2] = "function"
      /\ Removals[3] = "configStrings" /\ Removals[4] = "config"
      /\ Removals[5] = "strings" /\ Removals[6] = "gadget"
  BY DEF Removals
<1>2. \A i \in 1 .. 6 : i = 1 \/ i = 2 \/ i = 3 \/ i = 4 \/ i = 5 \/ i = 6
  OBVIOUS
<1>3. Parts = {Removals[i] : i \in 1 .. 6}
  BY <1>1 DEF Parts
<1> QED
  BY <1>1, <1>2, <1>3

\* The creations, one by one.
LEMMA CreationList ==
  /\ Creations[1] = "strings" /\ Creations[2] = "config"
  /\ Creations[3] = "configStrings" /\ Creations[4] = "function"
  /\ Creations[5] = "link"
BY DEF Creations

\* What each part is made in.
LEMMA ParentList ==
  /\ Parents("gadget") = {} /\ Parents("configStrings") = {"config"}
  /\ Parents("link") = {"config", "function"} /\ Parents("strings") = {"gadget"}
  /\ Parents("config") = {"gadget"} /\ Parents("function") = {"gadget"}
BY DEF Parents

\* An actor that runs nothing.
LEMMA IdleCall == Idle \in Calls /\ Placed(Idle)
BY LooksAssumption DEF Idle, Calls, Placed

\* The parts of configfs hold together with nothing made, and then nothing is
\* bound.
LEMMA NothingMade ==
  ASSUME KernelInv, usb.made = {} \/ "gadget" \notin usb.made
  PROVE  usb.made = {} /\ usb.bound = FALSE /\ usb.iface.there = FALSE
<1>1. \A p \in usb.made : p \in Parts /\ Parents(p) \subseteq usb.made
  BY DEF KernelInv, KernelType
<1>2. usb.made = {}
  BY <1>1, RemovalList, ParentList
<1>3. usb.bound \in BOOLEAN /\ usb.iface.there \in BOOLEAN
  BY DEF KernelInv, KernelType
<1> QED
  BY <1>2, <1>3 DEF KernelInv

\* The system begins with no gadget and no script.
LEMMA InitHas ==
  ASSUME usb = NoGadget, script = [a \in Actors |-> Idle], unit = "inactive",
         sshd = FALSE, spoiled = FALSE, calls \in 0 .. MaxCalls,
         kills \in 0 .. MaxKills
  PROVE  GadgetInv
<1>1. \A a \in Actors : script[a] = Idle
  OBVIOUS
<1>2. ScriptInv
  BY <1>1, IdleCall DEF ScriptInv
<1>3. KernelInv
  BY DEF KernelInv, KernelType, NoGadget, NoIface
<1>4. HomeInv /\ AloneInv /\ CallsInv
  BY <1>1 DEF HomeInv, AloneInv, CallsInv, Owns, Heals, Runs, At, Idle
<1>5. SoundInv /\ RecordInv
  BY DEF SoundInv, RecordInv, NoGadget, NoIface, Units
<1> QED
  BY <1>2, <1>3, <1>4, <1>5 DEF GadgetInv

-----------------------------------------------------------------------------
(* What a script's step does to the invariant                              *)

\* While one script runs, another that counts as alone runs nothing.
LEMMA OthersQuiet ==
  ASSUME ScriptInv, AloneInv, NEW a \in Actors, NEW b \in Actors \ {a},
         Runs(a), script[b].alone
  PROVE  script[b] = Idle /\ script[b].pc = "idle"
BY DEF ScriptInv, Placed, AloneInv, Runs

\* What is demanded of a script that runs alone is not of one that is idle.
LEMMA IdleOwnsNothing ==
  ASSUME NEW b \in Actors, script[b].alone => script[b].pc = "idle"
  PROVE  Owns(b) /\ Heals(b)
BY DEF Owns, Heals, At

\* A script that goes on to its next command.
LEMMA Moves ==
  ASSUME GadgetInv, NEW a \in Actors, Runs(a), NEW s \in Calls, s.pc # "idle",
         Placed(s), s.alone = script[a].alone, Goes(a, s),
         UNCHANGED <<sshd, calls, kills>>,
         KernelInv', HomeInv', SoundInv', Owns(a)', Heals(a)'
  PROVE  GadgetInv'
<1> USE DEF GadgetInv
<1>1. /\ script' = [script EXCEPT ![a] = s] /\ unit' = unit /\ spoiled' = spoiled
      /\ script \in [Actors -> Calls]
  BY DEF Goes, ScriptInv
<1>2. script'[a] = s /\ \A b \in Actors \ {a} : script'[b] = script[b]
  BY <1>1
<1>3. ScriptInv'
  BY <1>1, <1>2 DEF ScriptInv
<1>4. AloneInv'
  BY <1>1, <1>2 DEF AloneInv, Runs
<1>5. CallsInv'
  <2> SUFFICES ASSUME NEW b \in Actors PROVE Owns(b)' /\ Heals(b)'
      BY DEF CallsInv
  <2>1. CASE b = a
    BY <2>1
  <2>2. CASE b # a
    <3>1. script[b].alone => script[b].pc = "idle"
      BY <2>2, OthersQuiet
    <3>2. script'[b].alone => script'[b].pc = "idle"
      BY <3>1, <2>2, <1>2
    <3> QED
      BY <3>2 DEF Owns, Heals, At
  <2> QED
    BY <2>1, <2>2
<1>6. RecordInv'
  BY <1>1 DEF RecordInv
<1> QED
  BY <1>3, <1>4, <1>5, <1>6

\* A script that ends, or is killed: nothing is demanded of it any more.
LEMMA Stops ==
  ASSUME GadgetInv, NEW a \in Actors,
         script' = [script EXCEPT ![a] = Idle], unit' \in Units,
         spoiled' \in BOOLEAN, spoiled => spoiled',
         sshd' = sshd, calls' = calls, kills' \in 0 .. MaxKills,
         usb' = usb \/ Runs(a), KernelInv', SoundInv',
         "gadget" \in usb.made => "gadget" \in usb'.made
  PROVE  GadgetInv'
<1> USE DEF GadgetInv
<1>1. script'[a] = Idle /\ \A b \in Actors \ {a} : script'[b] = script[b]
  BY DEF ScriptInv
<1>2. ScriptInv'
  BY <1>1, IdleCall DEF ScriptInv
<1>3. AloneInv'
  BY <1>1 DEF AloneInv, Runs, Idle
<1>4. HomeInv'
  BY <1>1 DEF HomeInv, Idle
<1>5. CallsInv'
  <2> SUFFICES ASSUME NEW b \in Actors PROVE Owns(b)' /\ Heals(b)'
      BY DEF CallsInv
  <2>1. CASE b = a
    BY <2>1, <1>1 DEF Owns, Heals, At, Idle
  <2>2. CASE b # a /\ Runs(a)
    <3>1. script'[b].alone => script'[b].pc = "idle"
      BY <2>2, <1>1, OthersQuiet
    <3> QED
      BY <3>1 DEF Owns, Heals, At
  <2>3. CASE b # a /\ usb' = usb
    BY <2>3, <1>1 DEF CallsInv, Owns, Heals, At
  <2> QED
    BY <2>1, <2>2, <2>3
<1>6. RecordInv'
  BY DEF RecordInv
<1> QED
  BY <1>2, <1>3, <1>4, <1>5, <1>6

\* A teardown that ends: if it has run alone it leaves nothing, and what was
\* cut short before no longer counts.
LEMMA TeardownKeeps ==
  ASSUME GadgetInv, NEW a \in Actors, Runs(a), script[a].op \in {"stop", "restart"},
         NEW gone \in BOOLEAN, TeardownEnds(a, gone),
         UNCHANGED <<sshd, calls, kills>>, KernelInv',
         gone \/ ("gadget" \in usb.made => "gadget" \in usb'.made),
         script[a].alone => "gadget" \notin usb'.made
  PROVE  GadgetInv'
<1> USE DEF GadgetInv
<1> DEFINE left == [b \in Actors |-> [script[b] EXCEPT !.home = @ /\ ~gone]]
           next == [left[a] EXCEPT !.pc = "check", !.at = 1]
<1>1. script \in [Actors -> Calls] /\ \A b \in Actors : Placed(script[b])
  BY DEF ScriptInv
<1>2. \A b \in Actors : /\ left[b] \in Calls /\ left[b].pc = script[b].pc
                        /\ left[b].op = script[b].op /\ left[b].at = script[b].at
                        /\ left[b].alone = script[b].alone
                        /\ left[b].home = (script[b].home /\ ~gone)
                        /\ left[b].looks = script[b].looks
  BY <1>1 DEF Calls
<1>l. \A b \in Actors : left[b] = [script[b] EXCEPT !.home = @ /\ ~gone]
  OBVIOUS
<1>e. /\ script' = IF script[a].op = "stop" THEN [left EXCEPT ![a] = Idle]
                     ELSE [left EXCEPT ![a] = next]
      /\ left = [b \in Actors |-> left[b]]
  <2>1. CASE script[a].op = "stop"
    BY <2>1 DEF TeardownEnds
  <2>2. CASE script[a].op # "stop"
    <3>1. script' = [left EXCEPT ![a].pc = "check", ![a].at = 1]
      BY <2>2 DEF TeardownEnds
    <3> QED
      BY <2>2, <3>1
  <2> QED
    BY <2>1, <2>2
<1> HIDE DEF left
<1>3. \A b \in Actors : Placed(left[b])
  <2> SUFFICES ASSUME NEW b \in Actors PROVE Placed(left[b])
      OBVIOUS
  <2>1. CASE script[b].pc # "idle"
    BY <2>1, <1>1, <1>2 DEF Placed
  <2>2. CASE script[b].pc = "idle"
    <3>1. script[b] = Idle
      BY <2>2, <1>1 DEF Placed
    <3>2. left[b] = [Idle EXCEPT !.home = FALSE]
      <4>1. (script[b].home /\ ~gone) = FALSE
        BY <3>1 DEF Idle
      <4>2. left[b] = [script[b] EXCEPT !.home = script[b].home /\ ~gone]
        BY <1>l
      <4> QED
        BY <3>1, <4>1, <4>2, Zenon
    <3> QED
      BY <3>2, IdleCall DEF Idle
  <2> QED
    BY <2>1, <2>2
<1>5. /\ next.pc = "check" /\ next.op = script[a].op /\ next.at = 1
      /\ next.alone = script[a].alone /\ next.home = left[a].home
      /\ next \in Calls
  <2> DEFINE c == left[a]
             d == [c EXCEPT !.pc = "check"]
  <2>1. c \in Calls /\ c.op = script[a].op /\ c.alone = script[a].alone
    BY <1>2
  <2> HIDE DEF c
  <2>2. /\ d \in Calls /\ d.pc = "check" /\ d.op = c.op /\ d.alone = c.alone
        /\ d.home = c.home
    BY <2>1 DEF Calls, Setup
  <2> HIDE DEF d
  <2> DEFINE e == [d EXCEPT !.at = 1]
  <2>3. /\ e \in Calls /\ e.pc = d.pc /\ e.op = d.op /\ e.alone = d.alone
        /\ e.home = d.home /\ e.at = 1
    BY <2>2 DEF Calls
  <2>4. next = e
    BY DEF c, d
  <2> HIDE DEF e, next
  <2> QED
    BY <2>1, <2>2, <2>3, <2>4 DEF c
<1> HIDE DEF next
<1>4. /\ script'[a] = Idle \/ (script'[a] = next /\ script[a].op = "restart")
      /\ \A b \in Actors \ {a} : script'[b] = left[b]
      /\ script' \in [Actors -> Calls]
  BY <1>e, <1>2, <1>5, IdleCall
<1>6. spoiled' = (spoiled /\ ~script[a].alone) /\ unit' \in Units
  BY DEF TeardownEnds, RecordInv, Units
<1>7. ScriptInv'
  BY <1>3, <1>4, <1>5, IdleCall DEF ScriptInv, Placed, Setup, Ops
<1>8. HomeInv'
  <2> SUFFICES ASSUME NEW b \in Actors, script'[b].home PROVE "gadget" \in usb'.made
      BY DEF HomeInv
  <2>1. script'[b] # Idle
    BY DEF Idle
  <2>2. script'[b].home = left[b].home
    BY <2>1, <1>4, <1>5
  <2>3. script[b].home /\ ~gone
    BY <2>2, <1>2
  <2> QED
    BY <2>3 DEF HomeInv
<1>9. \A b \in Actors \ {a} : script'[b].alone => script'[b].pc = "idle"
  BY <1>2, <1>4, OthersQuiet
<1>10. AloneInv'
  <2>1. CASE script[a].alone
    <3>1. \A b \in Actors \ {a} : script[b].pc = "idle"
      BY <2>1 DEF AloneInv, Runs
    <3>2. \A b \in Actors \ {a} : script'[b].pc = "idle"
      BY <3>1, <1>2, <1>4
    <3>3. script'[a].alone
      <4>1. Idle.alone
        BY DEF Idle
      <4> QED
        BY <4>1, <2>1, <1>4, <1>5
    <3> QED
      BY <3>2, <3>3 DEF AloneInv, Runs
  <2>2. CASE ~script[a].alone
    <3>1. spoiled'
      BY <2>2, <1>6 DEF AloneInv, RecordInv
    <3>2. CASE script'[a] = Idle
      BY <3>1, <3>2, <1>9 DEF AloneInv, Runs, Idle
    <3>3. CASE script'[a] = next
      BY <3>1, <3>3, <2>2, <1>5, <1>9 DEF AloneInv, Runs
    <3> QED
      BY <3>2, <3>3, <1>4
  <2> QED
    BY <2>1, <2>2
<1>11. script[a].alone => usb'.made = {} /\ ~usb'.bound /\ ~usb'.iface.there
  <2> SUFFICES ASSUME "gadget" \notin usb'.made
               PROVE  usb'.made = {} /\ ~usb'.bound /\ ~usb'.iface.there
      OBVIOUS
  <2>1. \A p \in usb'.made : p \in Parts /\ Parents(p) \subseteq usb'.made
    BY DEF KernelInv, KernelType, Parts, Parents
  <2>2. usb'.made = {}
    BY <2>1, RemovalList, ParentList
  <2> QED
    BY <2>2 DEF KernelInv
<1>12. SoundInv'
  BY <1>6, <1>11 DEF SoundInv, AloneInv, RecordInv
<1>13. CallsInv'
  <2> SUFFICES ASSUME NEW b \in Actors PROVE Owns(b)' /\ Heals(b)'
      BY DEF CallsInv
  <2>1. CASE b # a
    BY <2>1, <1>9 DEF Owns, Heals, At
  <2>2. CASE b = a /\ script'[a] = Idle
    BY <2>2 DEF Owns, Heals, At, Idle
  <2>3. CASE b = a /\ script'[a] = next
    BY <2>3, <1>5, <1>11 DEF Owns, Heals, At
  <2> QED
    BY <2>1, <2>2, <2>3, <1>4
<1>14. RecordInv'
  BY <1>6 DEF RecordInv
<1> QED
  BY <1>7, <1>8, <1>10, <1>12, <1>13, <1>14

\* A script that goes on and takes no part, binding or interface away.
LEMMA Steps ==
  ASSUME GadgetInv, NEW a \in Actors, Runs(a), ~At(a, "remove"),
         NEW s \in Calls, s.pc # "idle", Placed(s), s.alone = script[a].alone,
         s.home => script[a].home \/ "gadget" \in usb.made,
         Goes(a, s), UNCHANGED <<sshd, calls, kills>>, KernelType',
         usb'.made = usb.made, usb'.bound = usb.bound,
         usb'.iface.there = usb.iface.there, Owns(a)', Heals(a)'
  PROVE  GadgetInv'
<1> USE DEF GadgetInv
<1>1. script' = [script EXCEPT ![a] = s] /\ spoiled' = spoiled
  BY DEF Goes
<1>2. script'[a] = s /\ \A b \in Actors \ {a} : script'[b] = script[b]
  BY <1>1 DEF ScriptInv
<1>3. KernelInv'
  BY DEF KernelInv, Parents
<1>4. HomeInv'
  BY <1>2 DEF HomeInv
<1>5. SoundInv'
  BY <1>1, <1>2 DEF SoundInv, At
<1> QED
  BY <1>3, <1>4, <1>5, Moves

\* A call that is at another of its commands, and is otherwise as it was.
LEMMA Labelled ==
  ASSUME NEW c \in Calls, NEW label \in Teardown \cup Setup,
         NEW s, s = [c EXCEPT !.pc = label]
  PROVE  /\ s \in Calls /\ s.pc = label /\ s.pc # "idle" /\ s.op = c.op
         /\ s.at = c.at /\ s.looks = c.looks /\ s.home = c.home
         /\ s.alone = c.alone
<1>1. label # "idle"
  BY DEF Teardown, Setup
<1> QED
  BY <1>1 DEF Calls

\* How many looks a script may be given.
LEMMA LookCounts ==
  /\ UdcTries \in 0 .. UdcTries + IfaceTries
  /\ IfaceTries \in 0 .. UdcTries + IfaceTries
  /\ 0 \in 0 .. UdcTries + IfaceTries
<1>1. UdcTries \in Nat /\ IfaceTries \in Nat
  BY LooksAssumption
<1> QED
  BY <1>1

\* A call that is sent to one of its commands with new looks, already at the
\* start of a list or put there.
Sent(c, label, n) == [c EXCEPT !.pc = label, !.looks = n]
SentAnew(c, label, n) == [c EXCEPT !.pc = label, !.at = 1, !.looks = n]

\* It is a call still, and otherwise as it was.
LEMMA Looking ==
  ASSUME NEW c \in Calls, NEW label \in Setup,
         NEW n \in 0 .. UdcTries + IfaceTries,
         NEW s, \/ s = Sent(c, label, n) /\ c.at = 1
                \/ s = SentAnew(c, label, n)
  PROVE  /\ s \in Calls /\ s.pc = label /\ s.pc # "idle" /\ s.op = c.op
         /\ s.at = 1 /\ s.home = c.home /\ s.alone = c.alone
<1> DEFINE d == [c EXCEPT !.pc = label]
           e == [d EXCEPT !.at = 1]
<1>1. /\ d \in Calls /\ d.pc = label /\ d.pc # "idle" /\ d.op = c.op
      /\ d.at = c.at /\ d.home = c.home /\ d.alone = c.alone
  BY Labelled
<1>2. \/ s = [d EXCEPT !.looks = n] /\ c.at = 1
      \/ s = [e EXCEPT !.looks = n]
  BY DEF Sent, SentAnew
<1> HIDE DEF d
<1>3. /\ e \in Calls /\ e.pc = d.pc /\ e.op = d.op /\ e.at = 1
      /\ e.home = d.home /\ e.alone = d.alone
  BY <1>1 DEF Calls
<1> HIDE DEF e
<1>4. CASE s = [d EXCEPT !.looks = n] /\ c.at = 1
  BY <1>1, <1>4 DEF Calls
<1>5. CASE s = [e EXCEPT !.looks = n]
  BY <1>1, <1>3, <1>5 DEF Calls
<1> QED
  BY <1>2, <1>4, <1>5

\* What the invariant says of a script that runs.
LEMMA Running ==
  ASSUME GadgetInv, NEW a \in Actors, Runs(a)
  PROVE  /\ script[a] \in Calls /\ script[a].op \in Ops
         /\ script[a].op = "stop" => script[a].pc \in Teardown
         /\ script[a].op = "start" => script[a].pc \in Setup
         /\ script[a].pc \notin {"remove", "fill"} => script[a].at = 1
         /\ script[a].pc = "fill" => script[a].at <= 5
         /\ script[a].at \in 1 .. 6 /\ script[a].alone \in BOOLEAN
         /\ script[a].home => "gadget" \in usb.made
         /\ script \in [Actors -> Calls]
         /\ Owns(a) /\ Heals(a)
<1>1. script[a] \in Calls /\ Placed(script[a]) /\ script \in [Actors -> Calls]
  BY DEF GadgetInv, ScriptInv
<1> QED
  BY <1>1 DEF GadgetInv, HomeInv, CallsInv, Placed, Runs, Calls

-----------------------------------------------------------------------------
(* The commands of stop                                                    *)

\* Taking the address and the link down.
LEMMA FlushKeeps ==
  ASSUME GadgetInv, NEW a \in Actors, Flush(a) \/ Down(a),
         UNCHANGED <<sshd, calls, kills>>
  PROVE  GadgetInv'
<1> DEFINE label == IF At(a, "flush") THEN "down" ELSE "exists"
           s == [script[a] EXCEPT !.pc = label]
<1>1. /\ Runs(a) /\ ~At(a, "remove") /\ Goes(a, s) /\ script[a].pc \in {"flush", "down"}
      /\ usb' = [usb EXCEPT !.iface.addr = FALSE] \/ usb' = [usb EXCEPT !.iface.up = FALSE]
  BY DEF Flush, Down, Goto, At, Runs
<1>2. label \in Teardown /\ label \in {"down", "exists"}
  BY DEF Teardown
<1>3. /\ s \in Calls /\ s.pc = label /\ s.pc # "idle" /\ s.op = script[a].op
      /\ s.at = script[a].at /\ s.home = script[a].home /\ s.alone = script[a].alone
  BY <1>1, <1>2, Running, Labelled
<1> HIDE DEF s, label
<1>4. Placed(s)
  BY <1>1, <1>2, <1>3, Running DEF Placed, Setup
<1>5. /\ KernelType' /\ usb'.made = usb.made /\ usb'.bound = usb.bound
      /\ usb'.iface.there = usb.iface.there
  <2>1. KernelType
    BY DEF GadgetInv, KernelInv
  <2>2. CASE usb' = [usb EXCEPT !.iface.addr = FALSE]
    BY <2>1, <2>2 DEF KernelType
  <2>3. CASE usb' = [usb EXCEPT !.iface.up = FALSE]
    BY <2>1, <2>3 DEF KernelType
  <2> QED
    BY <1>1, <2>2, <2>3
<1>6. script'[a] = s
  BY <1>1, Running DEF Goes
<1>7. Owns(a)' /\ Heals(a)'
  BY <1>2, <1>3, <1>6 DEF Owns, Heals, At
<1> QED
  BY <1>1, <1>3, <1>4, <1>5, <1>7, Steps

\* Looking whether there is anything to tear down.
LEMMA ExistsKeeps ==
  ASSUME GadgetInv, NEW a \in Actors, Exists(a), UNCHANGED <<sshd, calls, kills>>
  PROVE  GadgetInv'
<1>1. Runs(a) /\ script[a].pc = "exists" /\ usb' = usb
  BY DEF Exists, At, Runs
<1>k. KernelInv' /\ KernelType'
  BY <1>1 DEF GadgetInv, KernelInv, KernelType, Parents
<1>2. CASE "gadget" \in usb.made
  <2> DEFINE s == [script[a] EXCEPT !.pc = "unbind"]
  <2>1. Goes(a, s)
    BY <1>2 DEF Exists, Goto
  <2>2. /\ s \in Calls /\ s.pc = "unbind" /\ s.pc # "idle" /\ s.op = script[a].op
        /\ s.at = script[a].at /\ s.home = script[a].home /\ s.alone = script[a].alone
    BY <1>1, Running, Labelled DEF Teardown
  <2> HIDE DEF s
  <2>3. Placed(s)
    BY <1>1, <2>2, Running DEF Placed, Setup, Teardown
  <2>4. script'[a] = s
    BY <1>1, <2>1, Running DEF Goes
  <2>5. Owns(a)' /\ Heals(a)'
    BY <2>2, <2>4 DEF Owns, Heals, At
  <2> QED
    BY <1>1, <1>k, <2>1, <2>2, <2>3, <2>5, Steps DEF At
<1>3. CASE "gadget" \notin usb.made
  <2>1. TeardownEnds(a, FALSE)
    BY <1>3 DEF Exists
  <2>2. script[a].op \in {"stop", "restart"}
    BY <1>1, Running DEF Setup, Ops
  <2>3. script[a].alone => "gadget" \notin usb'.made
    BY <1>1, <1>3
  <2>4. "gadget" \in usb.made => "gadget" \in usb'.made
    BY <1>3
  <2> QED
    BY <1>1, <1>k, <2>1, <2>2, <2>3, <2>4, TeardownKeeps
<1> QED
  BY <1>2, <1>3

\* Taking the gadget off the controller, before its parts are removed.
LEMMA UnbindKeeps ==
  ASSUME GadgetInv, NEW a \in Actors, Unbind(a), UNCHANGED <<sshd, calls, kills>>
  PROVE  GadgetInv'
<1> DEFINE s == [script[a] EXCEPT !.pc = "remove"]
<1>1. /\ Runs(a) /\ script[a].pc = "unbind" /\ usb' = [usb EXCEPT !.bound = FALSE]
      /\ Goes(a, s)
  BY DEF Unbind, At, Runs, Goto
<1>2. /\ s \in Calls /\ s.pc = "remove" /\ s.pc # "idle" /\ s.op = script[a].op
      /\ s.at = script[a].at /\ s.home = script[a].home /\ s.alone = script[a].alone
  BY <1>1, Running, Labelled DEF Teardown
<1> HIDE DEF s
<1>3. Placed(s)
  BY <1>1, <1>2, Running DEF Placed, Setup, Teardown
<1>4. script'[a] = s /\ \A b \in Actors \ {a} : script'[b] = script[b]
  BY <1>1, Running DEF Goes
<1>5. KernelInv'
  BY <1>1 DEF GadgetInv, KernelInv, KernelType, Parents
<1>6. HomeInv'
  <2>1. usb'.made = usb.made
    BY <1>1 DEF GadgetInv, KernelInv, KernelType
  <2> QED
    BY <2>1, <1>2, <1>4 DEF GadgetInv, HomeInv
<1>7. SoundInv'
  BY <1>2, <1>4 DEF SoundInv, At
<1>8. Owns(a)' /\ Heals(a)'
  <2>1. script'[a].at = 1
    BY <1>1, <1>2, <1>4, Running
  <2> QED
    BY <2>1, <1>2, <1>4 DEF Owns, Heals, At
<1> QED
  BY <1>1, <1>2, <1>3, <1>5, <1>6, <1>7, <1>8, Moves

\* What one removal does to the parts: those that stand still stand in what
\* they were made in, and the part is gone if nothing is made in it.
LEMMA RemovalKeepsKernel ==
  ASSUME GadgetInv, NEW p \in Parts,
         usb' = IF Removable(p) THEN Without(p) ELSE usb
  PROVE  /\ KernelInv' /\ usb'.made \subseteq usb.made
         /\ Removable(p) => usb'.made = usb.made \ {p}
         /\ ~Removable(p) => usb'.made = usb.made
<1>1. CASE Removable(p)
  <2>1. usb' = Without(p)
    BY <1>1
  <2>2. /\ usb'.made = usb.made \ {p} /\ usb'.udc = usb.udc
        /\ usb'.bound = (usb.bound /\ p # "link")
        /\ usb'.iface = IF p = "function" THEN NoIface ELSE usb.iface
        /\ KernelType'
    <3> DEFINE m == usb.made \ {p}
               b == usb.bound /\ p # "link"
               i == IF p = "function" THEN NoIface ELSE usb.iface
    <3>1. KernelType
      BY DEF GadgetInv, KernelInv
    <3>2. usb' = [[[usb EXCEPT !.made = m] EXCEPT !.bound = b] EXCEPT !.iface = i]
      BY <2>1 DEF Without
    <3>3. /\ m \in SUBSET Parts /\ b \in BOOLEAN
          /\ i \in [there : BOOLEAN, up : BOOLEAN, addr : BOOLEAN]
      BY <3>1 DEF KernelType, NoIface
    <3> HIDE DEF m, b, i
    <3>4. /\ usb'.made = m /\ usb'.udc = usb.udc /\ usb'.bound = b
          /\ usb'.iface = i /\ KernelType'
      BY <3>1, <3>2, <3>3 DEF KernelType
    <3> QED
      BY <3>4 DEF m, b, i
  <2>3. \A q \in usb'.made : Parents(q) \subseteq usb'.made
    BY <1>1, <2>2 DEF Removable, GadgetInv, KernelInv
  <2>4. usb'.bound => "link" \in usb'.made
    BY <2>2 DEF GadgetInv, KernelInv
  <2>5. usb'.iface.there => "function" \in usb'.made
    BY <2>2 DEF GadgetInv, KernelInv, NoIface
  <2> QED
    BY <1>1, <2>2, <2>3, <2>4, <2>5 DEF KernelInv
<1>2. CASE ~Removable(p)
  BY <1>2 DEF GadgetInv, KernelInv, KernelType, Parents
<1> QED
  BY <1>1, <1>2

\* A part of which everything earlier in the list is gone can be removed, if
\* it is there.
LEMMA OrderIsSafe ==
  ASSUME GadgetInv, NEW i \in 1 .. 6,
         \A j \in 1 .. i - 1 : Removals[j] \notin usb.made,
         Removals[i] \in usb.made
  PROVE  Removable(Removals[i])
<1>1. usb.made \subseteq Parts
  BY DEF GadgetInv, KernelInv, KernelType
<1>2. i = 1 \/ i = 2 \/ i = 3 \/ i = 4 \/ i = 5 \/ i = 6
  OBVIOUS
<1>3. \A q \in usb.made : \E j \in i .. 6 : q = Removals[j]
  BY <1>1, RemovalList
<1>4. \A j \in i .. 6 : Removals[i] \notin Parents(Removals[j])
  BY <1>2, RemovalList, ParentList
<1> QED
  BY <1>3, <1>4 DEF Removable

\* The next removal of the list.
LEMMA RemoveKeeps ==
  ASSUME GadgetInv, NEW a \in Actors, Remove(a), UNCHANGED <<sshd, calls, kills>>
  PROVE  GadgetInv'
<1> DEFINE p == Removals[script[a].at]
           s == [script[a] EXCEPT !.at = @ + 1]
<1>1. /\ Runs(a) /\ script[a].pc = "remove" /\ script[a].at \in 1 .. 6
      /\ usb' = (IF Removable(p) THEN Without(p) ELSE usb)
      /\ IF p = "gadget" THEN TeardownEnds(a, Removable(p)) ELSE Goes(a, s)
      /\ script[a].op \in {"stop", "restart"}
  BY Running DEF Remove, RemovalAt, At, Runs, Setup, Ops
<1>2. p \in Parts
  BY <1>1, RemovalList DEF Parts
<1>3. /\ KernelInv' /\ usb'.made \subseteq usb.made
      /\ Removable(p) => usb'.made = usb.made \ {p}
      /\ ~Removable(p) => usb'.made = usb.made
  BY <1>1, <1>2, RemovalKeepsKernel
<1>4. script[a].alone => \A i \in 1 .. script[a].at : Removals[i] \notin usb'.made
  <2> SUFFICES ASSUME script[a].alone
               PROVE  \A i \in 1 .. script[a].at : Removals[i] \notin usb'.made
      OBVIOUS
  <2>1. \A i \in 1 .. script[a].at - 1 : Removals[i] \notin usb.made
    BY <1>1, Running DEF Owns, At
  <2>2. p \notin usb'.made
    BY <1>1, <1>3, <2>1, OrderIsSafe
  <2> QED
    BY <1>1, <1>3, <2>1, <2>2
<1>5. CASE p = "gadget"
  <2>1. TeardownEnds(a, Removable(p)) /\ Removable(p) \in BOOLEAN
    BY <1>1, <1>5 DEF Removable
  <2>2. script[a].alone => "gadget" \notin usb'.made
    BY <1>1, <1>4, <1>5
  <2>3. Removable(p) \/ ("gadget" \in usb.made => "gadget" \in usb'.made)
    BY <1>3
  <2> QED
    BY <1>1, <1>3, <2>1, <2>2, <2>3, TeardownKeeps
<1>6. CASE p # "gadget"
  <2>1. Goes(a, s) /\ script[a].at \in 1 .. 5
    BY <1>1, <1>6, RemovalList
  <2>2. /\ s \in Calls /\ s.pc = "remove" /\ s.op = script[a].op
        /\ s.at = script[a].at + 1 /\ s.home = script[a].home
        /\ s.alone = script[a].alone
    BY <1>1, <2>1, Running DEF Calls
  <2> HIDE DEF s
  <2>3. Placed(s)
    BY <1>1, <2>2, Running DEF Placed, Setup, Teardown, Ops
  <2>4. script'[a] = s /\ \A b \in Actors \ {a} : script'[b] = script[b]
    BY <1>1, <2>1, Running DEF Goes
  <2>5. HomeInv'
    <3>1. "gadget" \in usb.made => "gadget" \in usb'.made
      BY <1>3, <1>6
    <3> QED
      BY <3>1, <2>2, <2>4 DEF GadgetInv, HomeInv
  <2>6. SoundInv'
    BY <2>2, <2>4 DEF SoundInv, At
  <2>7. Owns(a)' /\ Heals(a)'
    <3>1. script'[a].at - 1 = script[a].at /\ script'[a].pc = "remove"
          /\ script'[a].alone = script[a].alone
      BY <1>1, <2>2, <2>4
    <3> QED
      BY <1>4, <3>1 DEF Owns, Heals, At
  <2> QED
    BY <1>1, <1>3, <2>1, <2>2, <2>3, <2>5, <2>6, <2>7, Moves
<1> QED
  BY <1>5, <1>6

-----------------------------------------------------------------------------
(* The commands of start                                                   *)

\* A start that ends, well or badly.
LEMMA EndKeeps ==
  ASSUME GadgetInv, NEW a \in Actors, Runs(a), ~At(a, "remove"),
         NEW ok \in BOOLEAN, End(a, ok), spoiled' = spoiled,
         UNCHANGED <<sshd, calls, kills>>, KernelType', usb'.made = usb.made,
         usb'.bound = usb.bound, usb'.iface.there = usb.iface.there
  PROVE  GadgetInv'
<1>1. script' = [script EXCEPT ![a] = Idle]
  BY DEF End
<1>2. script'[a] = Idle /\ \A b \in Actors \ {a} : script'[b] = script[b]
  BY <1>1, Running
<1>3. unit' \in Units
  BY DEF End, Units, GadgetInv, RecordInv
<1>4. KernelInv'
  BY DEF GadgetInv, KernelInv, Parents
<1>5. SoundInv'
  BY <1>2 DEF GadgetInv, SoundInv, At
<1>6. spoiled' \in BOOLEAN /\ kills' \in 0 .. MaxKills
  BY DEF GadgetInv, RecordInv
<1> QED
  BY <1>1, <1>3, <1>4, <1>5, <1>6, Stops

\* The same, where nothing of the kernel has changed.
LEMMA EndsAsIs ==
  ASSUME GadgetInv, NEW a \in Actors, Runs(a), ~At(a, "remove"),
         NEW ok \in BOOLEAN, End(a, ok), UNCHANGED <<usb, spoiled>>,
         UNCHANGED <<sshd, calls, kills>>
  PROVE  GadgetInv'
<1>1. KernelType'
  BY DEF GadgetInv, KernelInv, KernelType
<1> QED
  BY <1>1, EndKeeps

\* Looking whether the gadget's directory exists.
LEMMA CheckKeeps ==
  ASSUME GadgetInv, NEW a \in Actors, Check(a), UNCHANGED <<sshd, calls, kills>>
  PROVE  GadgetInv'
<1>1. /\ Runs(a) /\ script[a].pc = "check" /\ ~At(a, "remove") /\ usb' = usb
      /\ KernelType'
  BY DEF Check, At, Runs, GadgetInv, KernelInv, KernelType
<1>2. CASE "gadget" \in usb.made
  <2> DEFINE s == [script[a] EXCEPT !.pc = "wait", !.looks = IfaceTries]
  <2>1. Goes(a, s)
    BY <1>2 DEF Check
  <2>2. /\ s \in Calls /\ s.pc = "wait" /\ s.op = script[a].op
        /\ s.at = script[a].at /\ s.home = script[a].home /\ s.alone = script[a].alone
    <3>1. script[a].at = 1 /\ script[a] \in Calls /\ "wait" \in Setup
      BY <1>1, Running DEF Setup
    <3>2. s = Sent(script[a], "wait", IfaceTries)
      BY DEF Sent
    <3> HIDE DEF s
    <3> QED
      BY <3>1, <3>2, Looking, LookCounts
  <2> HIDE DEF s
  <2>3. Placed(s)
    BY <1>1, <2>2, Running DEF Placed, Setup, Teardown
  <2>4. script'[a] = s
    BY <1>1, <2>1, Running DEF Goes
  <2>5. ~(script[a].alone /\ script[a].op = "restart")
    BY <1>1, <1>2, Running DEF Heals
  <2>6. Owns(a)' /\ Heals(a)'
    BY <2>2, <2>4, <2>5 DEF Owns, Heals, At
  <2> QED
    BY <1>1, <2>1, <2>2, <2>3, <2>6, Steps
<1>3. CASE "gadget" \notin usb.made
  <2> DEFINE s == [script[a] EXCEPT !.pc = "make"]
  <2>1. Goes(a, s)
    BY <1>3 DEF Check, Goto
  <2>2. /\ s \in Calls /\ s.pc = "make" /\ s.op = script[a].op
        /\ s.at = script[a].at /\ s.home = script[a].home /\ s.alone = script[a].alone
    BY <1>1, Running, Labelled DEF Setup
  <2> HIDE DEF s
  <2>3. Placed(s)
    BY <1>1, <2>2, Running DEF Placed, Setup, Teardown
  <2>4. script'[a] = s
    BY <1>1, <2>1, Running DEF Goes
  <2>5. Owns(a)' /\ Heals(a)'
    BY <1>1, <2>2, <2>4, Running DEF Owns, Heals, At
  <2> QED
    BY <1>1, <2>1, <2>2, <2>3, <2>5, Steps
<1> QED
  BY <1>2, <1>3

\* Making the gadget's directory.
LEMMA MakeKeeps ==
  ASSUME GadgetInv, NEW a \in Actors, Make(a), UNCHANGED <<sshd, calls, kills>>
  PROVE  GadgetInv'
<1> DEFINE s == [script[a] EXCEPT !.pc = "enter"]
<1>1. /\ Runs(a) /\ script[a].pc = "make" /\ Goes(a, s)
      /\ usb' = [usb EXCEPT !.made = @ \cup {"gadget"}]
  BY DEF Make, At, Runs, Goto
<1>2. /\ s \in Calls /\ s.pc = "enter" /\ s.op = script[a].op
      /\ s.at = script[a].at /\ s.home = script[a].home /\ s.alone = script[a].alone
  BY <1>1, Running, Labelled DEF Setup
<1> HIDE DEF s
<1>3. Placed(s)
  BY <1>1, <1>2, Running DEF Placed, Setup, Teardown
<1>4. /\ script'[a] = s /\ \A b \in Actors \ {a} : script'[b] = script[b]
      /\ spoiled' = spoiled
  BY <1>1, Running DEF Goes
<1>5. /\ usb'.made = usb.made \cup {"gadget"} /\ usb'.bound = usb.bound
      /\ usb'.iface = usb.iface /\ KernelType'
  BY <1>1, RemovalList DEF GadgetInv, KernelInv, KernelType
<1>6. KernelInv'
  BY <1>5, ParentList DEF GadgetInv, KernelInv
<1>7. HomeInv'
  BY <1>5 DEF HomeInv
<1>8. SoundInv'
  BY <1>1, <1>4, <1>5 DEF GadgetInv, SoundInv, At
<1>9. Owns(a)' /\ Heals(a)'
  BY <1>1, <1>2, <1>4, <1>5, Running DEF Owns, Heals, At
<1> QED
  BY <1>1, <1>2, <1>3, <1>6, <1>7, <1>8, <1>9, Moves

\* Entering it.
LEMMA EnterKeeps ==
  ASSUME GadgetInv, NEW a \in Actors, Enter(a), UNCHANGED <<sshd, calls, kills>>
  PROVE  GadgetInv'
<1> DEFINE s == [script[a] EXCEPT !.pc = "fill", !.home = TRUE]
<1>1. /\ Runs(a) /\ script[a].pc = "enter" /\ ~At(a, "remove")
      /\ \/ "gadget" \in usb.made /\ usb' = usb /\ Goes(a, s)
         \/ End(a, FALSE) /\ UNCHANGED <<usb, spoiled>>
  BY DEF Enter, Try, At, Runs
<1>2. CASE "gadget" \in usb.made /\ usb' = usb /\ Goes(a, s)
  <2>2. /\ s \in Calls /\ s.pc = "fill" /\ s.op = script[a].op
        /\ s.at = script[a].at /\ s.home = TRUE /\ s.alone = script[a].alone
    BY <1>1, Running DEF Calls, Setup
  <2>1. Goes(a, s)
    BY <1>2
  <2> HIDE DEF s
  <2>3. Placed(s)
    BY <1>1, <2>2, Running DEF Placed, Setup, Teardown
  <2>4. script'[a] = s
    BY <1>1, <2>1, Running DEF Goes
  <2>5. KernelType'
    BY <1>2 DEF GadgetInv, KernelInv, KernelType
  <2>6. Owns(a)'
    BY <2>2, <2>4 DEF Owns, At
  <2>7. Heals(a)'
    <3>1. script[a].alone /\ script[a].op = "restart"
            => usb.made = {"gadget"} /\ ~usb.bound
      BY <1>1, Running DEF Heals, At
    <3>2. {Creations[i] : i \in 1 .. script'[a].at - 1} = {}
      BY <1>1, <2>2, <2>4, Running
    <3> QED
      BY <3>1, <3>2, <1>2, <2>2, <2>4 DEF Heals, At
  <2> QED
    BY <1>1, <1>2, <2>1, <2>2, <2>3, <2>5, <2>6, <2>7, Steps
<1>3. CASE End(a, FALSE) /\ UNCHANGED <<usb, spoiled>>
  BY <1>1, <1>3, EndsAsIs
<1> QED
  BY <1>1, <1>2, <1>3

\* Making the next part in it.
LEMMA FillKeeps ==
  ASSUME GadgetInv, NEW a \in Actors, Fill(a), UNCHANGED <<sshd, calls, kills>>
  PROVE  GadgetInv'
<1> DEFINE p == Creations[script[a].at]
           s == IF p = "link"
                  THEN [script[a] EXCEPT !.pc = "findUdc", !.at = 1, !.looks = UdcTries]
                  ELSE [script[a] EXCEPT !.at = @ + 1]
           ok == /\ script[a].home /\ Parents(p) \subseteq usb.made
                 /\ p = "link" => p \notin usb.made
<1>1. /\ Runs(a) /\ script[a].pc = "fill" /\ ~At(a, "remove")
      /\ \/ ok /\ usb' = [usb EXCEPT !.made = @ \cup {p}] /\ Goes(a, s)
         \/ End(a, FALSE) /\ UNCHANGED <<usb, spoiled>>
  BY DEF Fill, Try, At, Runs
<1>2. CASE ok /\ usb' = [usb EXCEPT !.made = @ \cup {p}] /\ Goes(a, s)
  <2>1. script[a].at \in 1 .. 5 /\ script[a] \in Calls
    BY <1>1, Running
  <2>2. p \in Parts /\ p # "gadget" /\ (p = "link" <=> script[a].at = 5)
    BY <2>1, CreationList, RemovalList
  <2>3. /\ s \in Calls /\ s.op = script[a].op /\ s.home = script[a].home
        /\ s.alone = script[a].alone
        /\ s.pc = (IF p = "link" THEN "findUdc" ELSE "fill")
        /\ s.at = (IF p = "link" THEN 1 ELSE script[a].at + 1)
    <3>1. CASE p = "link"
      <4>1. s = SentAnew(script[a], "findUdc", UdcTries)
        BY <3>1 DEF SentAnew
      <4>2. "findUdc" \in Setup
        BY DEF Setup
      <4> HIDE DEF s
      <4> QED
        BY <2>1, <3>1, <4>1, <4>2, Looking, LookCounts
    <3>2. CASE p # "link"
      BY <1>1, <2>1, <2>2, <3>2 DEF Calls
    <3> QED
      BY <3>1, <3>2
  <2>4. Goes(a, s) /\ ok
    BY <1>2
  <2> HIDE DEF s
  <2>5. Placed(s)
    BY <1>1, <2>1, <2>2, <2>3, Running DEF Placed, Setup, Teardown
  <2>6. /\ script'[a] = s /\ \A b \in Actors \ {a} : script'[b] = script[b]
        /\ spoiled' = spoiled
    BY <1>1, <2>4, Running DEF Goes
  <2>7. /\ usb'.made = usb.made \cup {p} /\ usb'.bound = usb.bound
        /\ usb'.iface = usb.iface /\ KernelType'
    BY <1>2, <2>2 DEF GadgetInv, KernelInv, KernelType
  <2>8. KernelInv'
    BY <2>4, <2>7 DEF GadgetInv, KernelInv
  <2>9. HomeInv'
    BY <1>1, <2>3, <2>6, <2>7, Running DEF GadgetInv, HomeInv
  <2>10. SoundInv'
    BY <1>1, <2>6, <2>7 DEF GadgetInv, SoundInv, At
  <2>11. Owns(a)'
    BY <2>3, <2>6 DEF Owns, At
  <2>12. Heals(a)'
    <3> SUFFICES ASSUME script[a].alone, script[a].op = "restart" PROVE Heals(a)'
        BY <2>3, <2>6 DEF Heals
    <3>1. /\ usb.made = {"gadget"} \cup {Creations[i] : i \in 1 .. script[a].at - 1}
          /\ ~usb.bound /\ script[a].home
      BY <1>1, Running DEF Heals, At
    <3>2. CASE p = "link"
      BY <3>1, <3>2, <2>3, <2>6, <2>7 DEF Heals, At
    <3>3. CASE p # "link"
      <4>1. script'[a].at - 1 = script[a].at
        BY <3>3, <2>1, <2>3, <2>6
      <4>2. usb'.made = {"gadget"} \cup {Creations[i] : i \in 1 .. script[a].at}
        BY <3>1, <2>1, <2>7
      <4> QED
        BY <4>1, <4>2, <3>1, <3>3, <2>3, <2>6, <2>7 DEF Heals, At
    <3> QED
      BY <3>2, <3>3
  <2>13. s.pc # "idle"
    BY <2>3
  <2> QED
    BY <1>1, <2>3, <2>4, <2>5, <2>8, <2>9, <2>10, <2>11, <2>12, <2>13, Moves
<1>3. CASE End(a, FALSE) /\ UNCHANGED <<usb, spoiled>>
  BY <1>1, <1>3, EndsAsIs
<1> QED
  BY <1>1, <1>2, <1>3

\* One turn of a loop.
LEMMA LookKeeps ==
  ASSUME GadgetInv, NEW a \in Actors, Runs(a), script[a].pc \in Setup \ {"fill"},
         NEW seen \in BOOLEAN, NEW next \in Setup \ {"fill"}, Look(a, seen, next),
         UNCHANGED <<sshd, calls, kills>>,
         /\ seen /\ usb' = usb /\ script'[a].pc = next /\ script'[a].op = script[a].op
         /\ script'[a].home = script[a].home /\ script'[a].alone = script[a].alone
         => Owns(a)' /\ Heals(a)'
  PROVE  GadgetInv'
<1>1. ~At(a, "remove") /\ script[a].pc # "idle" /\ usb' = usb /\ KernelType'
  BY DEF Look, Try, Setup, At, GadgetInv, KernelInv, KernelType
<1>2. CASE ~seen /\ script[a].looks > 1
  <2> DEFINE s == [script[a] EXCEPT !.looks = @ - 1]
  <2>1. Goes(a, s)
    BY <1>2 DEF Look
  <2>2. /\ s \in Calls /\ s.pc = script[a].pc /\ s.op = script[a].op
        /\ s.at = script[a].at /\ s.home = script[a].home /\ s.alone = script[a].alone
    BY <1>2, Running, LooksAssumption DEF Calls
  <2> HIDE DEF s
  <2>3. Placed(s)
    BY <1>1, <2>2, Running DEF Placed
  <2>4. script'[a] = s
    BY <2>1, Running DEF Goes
  <2>5. Owns(a)' /\ Heals(a)'
    BY <1>1, <2>2, <2>4, Running DEF Owns, Heals, At
  <2>6. s.pc # "idle"
    BY <1>1, <2>2
  <2> QED
    BY <1>1, <2>1, <2>2, <2>3, <2>5, <2>6, Steps
<1>3. CASE seen /\ Goes(a, [script[a] EXCEPT !.pc = next, !.looks = 0])
  <2> DEFINE s == [script[a] EXCEPT !.pc = next, !.looks = 0]
  <2>1. Goes(a, s)
    BY <1>3
  <2>2. /\ s \in Calls /\ s.pc = next /\ s.op = script[a].op
        /\ s.at = script[a].at /\ s.home = script[a].home /\ s.alone = script[a].alone
    <3>1. script[a].at = 1 /\ script[a] \in Calls
      BY Running DEF Setup
    <3>2. s = Sent(script[a], next, 0)
      BY DEF Sent
    <3> HIDE DEF s
    <3> QED
      BY <3>1, <3>2, Looking, LookCounts
  <2> HIDE DEF s
  <2>3. Placed(s)
    BY <1>1, <2>2, Running DEF Placed, Setup, Teardown
  <2>4. script'[a] = s
    BY <2>1, Running DEF Goes
  <2>5. Owns(a)' /\ Heals(a)'
    BY <1>1, <1>3, <2>2, <2>4
  <2>6. s.pc # "idle"
    BY <2>2 DEF Setup
  <2> QED
    BY <1>1, <2>1, <2>2, <2>3, <2>5, <2>6, Steps
<1>4. CASE End(a, FALSE) /\ UNCHANGED <<usb, spoiled>>
  BY <1>1, <1>4, EndsAsIs
<1> QED
  BY <1>2, <1>3, <1>4 DEF Look, Try

\* The loops for the controller and for the interface.
LEMMA LoopsKeep ==
  ASSUME GadgetInv, NEW a \in Actors, FindUdc(a) \/ WaitIface(a),
         UNCHANGED <<sshd, calls, kills>>
  PROVE  GadgetInv'
<1>1. usb.udc \in BOOLEAN /\ usb.iface.there \in BOOLEAN
  BY DEF GadgetInv, KernelInv, KernelType
<1>2. CASE FindUdc(a)
  <2>1. Runs(a) /\ script[a].pc = "findUdc" /\ Look(a, usb.udc, "bind")
    BY <1>2 DEF FindUdc, Runs, At
  <2>2. /\ usb' = usb /\ script'[a].pc = "bind" /\ script'[a].op = script[a].op
        /\ script'[a].home = script[a].home /\ script'[a].alone = script[a].alone
        => Owns(a)' /\ Heals(a)'
    BY <2>1, Running DEF Owns, Heals, At
  <2>3. "bind" \in Setup \ {"fill"} /\ "findUdc" \in Setup \ {"fill"}
    BY DEF Setup
  <2> QED
    BY <1>1, <2>1, <2>2, <2>3, LookKeeps
<1>3. CASE WaitIface(a)
  <2>1. Runs(a) /\ script[a].pc = "wait" /\ Look(a, usb.iface.there, "up")
    BY <1>3 DEF WaitIface, Runs, At
  <2>2. /\ usb.iface.there
        /\ usb' = usb /\ script'[a].pc = "up" /\ script'[a].op = script[a].op
        /\ script'[a].home = script[a].home /\ script'[a].alone = script[a].alone
        => Owns(a)' /\ Heals(a)'
    BY <2>1, Running DEF Owns, Heals, At
  <2>3. "up" \in Setup \ {"fill"} /\ "wait" \in Setup \ {"fill"}
    BY DEF Setup
  <2> QED
    BY <1>1, <2>1, <2>2, <2>3, LookKeeps
<1> QED
  BY <1>2, <1>3

\* Binding the gadget to the controller, which makes the interface.
LEMMA BindKeeps ==
  ASSUME GadgetInv, NEW a \in Actors, Bind(a), UNCHANGED <<sshd, calls, kills>>
  PROVE  GadgetInv'
<1> DEFINE s == [script[a] EXCEPT !.pc = "wait", !.looks = IfaceTries]
           ok == script[a].home /\ ~usb.bound /\ "link" \in usb.made
<1>1. /\ Runs(a) /\ script[a].pc = "bind" /\ ~At(a, "remove")
      /\ \/ /\ ok /\ usb' = [usb EXCEPT !.bound = TRUE, !.iface.there = TRUE]
            /\ Goes(a, s)
         \/ End(a, FALSE) /\ UNCHANGED <<usb, spoiled>>
  BY DEF Bind, Try, At, Runs
<1>2. CASE ok /\ usb' = [usb EXCEPT !.bound = TRUE, !.iface.there = TRUE] /\ Goes(a, s)
  <2>1. /\ s \in Calls /\ s.pc = "wait" /\ s.pc # "idle" /\ s.op = script[a].op
        /\ s.at = 1 /\ s.home = script[a].home /\ s.alone = script[a].alone
    <3>1. script[a].at = 1 /\ script[a] \in Calls /\ "wait" \in Setup
      BY <1>1, Running DEF Setup
    <3>2. s = Sent(script[a], "wait", IfaceTries)
      BY DEF Sent
    <3> HIDE DEF s
    <3> QED
      BY <3>1, <3>2, Looking, LookCounts
  <2>2. Goes(a, s) /\ ok
    BY <1>2
  <2> HIDE DEF s
  <2>3. Placed(s)
    BY <1>1, <2>1, Running DEF Placed, Setup, Teardown
  <2>4. script'[a] = s /\ \A b \in Actors \ {a} : script'[b] = script[b]
    BY <1>1, <2>2, Running DEF Goes
  <2>5. /\ usb'.made = usb.made /\ usb'.bound = TRUE /\ usb'.iface.there = TRUE
        /\ KernelType'
    <3> DEFINE u == [usb EXCEPT !.bound = TRUE]
    <3>1. KernelType
      BY DEF GadgetInv, KernelInv
    <3>2. /\ u.made = usb.made /\ u.bound = TRUE /\ u.iface = usb.iface
          /\ u \in [made : SUBSET Parts, bound : BOOLEAN, udc : BOOLEAN,
                    iface : [there : BOOLEAN, up : BOOLEAN, addr : BOOLEAN]]
      BY <3>1 DEF KernelType
    <3>3. usb' = [u EXCEPT !.iface.there = TRUE]
      BY <1>2
    <3> HIDE DEF u
    <3> QED
      BY <3>2, <3>3 DEF KernelType
  <2>6. KernelInv'
    BY <2>2, <2>5, ParentList DEF GadgetInv, KernelInv
  <2>7. HomeInv'
    BY <2>1, <2>4, <2>5 DEF GadgetInv, HomeInv
  <2>8. SoundInv'
    BY <2>5 DEF SoundInv
  <2>9. Owns(a)' /\ Heals(a)'
    BY <2>1, <2>4, <2>5 DEF Owns, Heals, At
  <2> QED
    BY <1>1, <2>1, <2>2, <2>3, <2>6, <2>7, <2>8, <2>9, Moves
<1>3. CASE End(a, FALSE) /\ UNCHANGED <<usb, spoiled>>
  BY <1>1, <1>3, EndsAsIs
<1> QED
  BY <1>1, <1>2, <1>3

\* Bringing the link up, and taking an old address off it.
LEMMA LinkUpKeeps ==
  ASSUME GadgetInv, NEW a \in Actors, LinkUp(a) \/ Reflush(a),
         UNCHANGED <<sshd, calls, kills>>
  PROVE  GadgetInv'
<1> DEFINE label == IF At(a, "up") THEN "reflush" ELSE "address"
           s == [script[a] EXCEPT !.pc = label]
<1>1. /\ Runs(a) /\ script[a].pc \in {"up", "reflush"} /\ ~At(a, "remove")
      /\ \/ /\ At(a, "up") /\ usb.iface.there
            /\ usb' = [usb EXCEPT !.iface.up = TRUE] /\ Goes(a, s)
         \/ At(a, "reflush") /\ usb' = [usb EXCEPT !.iface.addr = FALSE] /\ Goes(a, s)
         \/ End(a, FALSE) /\ UNCHANGED <<usb, spoiled>>
  BY DEF LinkUp, Reflush, TryGoto, Try, Goto, At, Runs
<1>2. label \in Setup /\ label \in {"reflush", "address"}
  BY DEF Setup
<1>3. CASE /\ Goes(a, s)
           /\ \/ /\ At(a, "up") /\ usb.iface.there
                 /\ usb' = [usb EXCEPT !.iface.up = TRUE]
              \/ At(a, "reflush") /\ usb' = [usb EXCEPT !.iface.addr = FALSE]
  <2>1. /\ s \in Calls /\ s.pc = label /\ s.pc # "idle" /\ s.op = script[a].op
        /\ s.at = script[a].at /\ s.home = script[a].home /\ s.alone = script[a].alone
    BY <1>1, <1>2, Running, Labelled
  <2>2. Goes(a, s)
    BY <1>3
  <2> HIDE DEF s
  <2>3. Placed(s)
    BY <1>1, <1>2, <2>1, Running DEF Placed, Setup, Teardown
  <2>4. script'[a] = s
    BY <1>1, <2>2, Running DEF Goes
  <2>5. KernelType
    BY DEF GadgetInv, KernelInv
  <2>6. /\ KernelType' /\ usb'.made = usb.made /\ usb'.bound = usb.bound
        /\ usb'.iface.there = usb.iface.there
        /\ At(a, "up") => usb'.iface.up
        /\ At(a, "reflush") => usb'.iface.up = usb.iface.up /\ ~usb'.iface.addr
    <3>1. CASE At(a, "up") /\ usb' = [usb EXCEPT !.iface.up = TRUE]
      BY <2>5, <3>1 DEF KernelType, At
    <3>2. CASE At(a, "reflush") /\ usb' = [usb EXCEPT !.iface.addr = FALSE]
      BY <2>5, <3>2 DEF KernelType, At
    <3> QED
      BY <1>3, <3>1, <3>2
  <2>7. Owns(a)' /\ Heals(a)'
    BY <1>1, <2>1, <2>4, <2>6, Running DEF Owns, Heals, At
  <2> QED
    BY <1>1, <2>1, <2>2, <2>3, <2>6, <2>7, Steps
<1>4. CASE End(a, FALSE) /\ UNCHANGED <<usb, spoiled>>
  BY <1>1, <1>4, EndsAsIs
<1> QED
  BY <1>1, <1>3, <1>4

\* Giving it its address, with which a start has succeeded.
LEMMA AddressKeeps ==
  ASSUME GadgetInv, NEW a \in Actors, Address(a), UNCHANGED <<sshd, calls, kills>>
  PROVE  GadgetInv'
<1> DEFINE ok == usb.iface.there /\ ~usb.iface.addr
<1>1. /\ Runs(a) /\ ~At(a, "remove") /\ End(a, ok) /\ spoiled' = spoiled
      /\ usb' = IF ok THEN [usb EXCEPT !.iface.addr = TRUE] ELSE usb
  BY DEF Address, At, Runs
<1>2. KernelType
  BY DEF GadgetInv, KernelInv
<1>3. /\ KernelType' /\ usb'.made = usb.made /\ usb'.bound = usb.bound
      /\ usb'.iface.there = usb.iface.there
  <2>1. CASE usb' = [usb EXCEPT !.iface.addr = TRUE]
    BY <1>2, <2>1 DEF KernelType
  <2>2. CASE usb' = usb
    BY <1>2, <2>2 DEF KernelType
  <2> QED
    BY <1>1, <2>1, <2>2
<1>4. ok \in BOOLEAN
  OBVIOUS
<1> HIDE DEF ok
<1> QED
  BY <1>1, <1>3, <1>4, EndKeeps

\* Every command of the script.
LEMMA CommandKeeps ==
  ASSUME GadgetInv, NEW a \in Actors, Command(a)
  PROVE  GadgetInv'
BY FlushKeeps, ExistsKeeps, UnbindKeeps, RemoveKeeps, CheckKeeps, MakeKeeps,
   EnterKeeps, FillKeeps, LoopsKeep, BindKeeps, LinkUpKeeps, AddressKeeps
   DEF Command

-----------------------------------------------------------------------------
(* systemd, the operator, and the kernel                                   *)

\* A call of the script: the first of two that overlap loses its good name with
\* the second.
LEMMA BeginKeeps ==
  ASSUME GadgetInv, NEW a \in Actors, NEW o \in Ops, Begin(a, o), unit' \in Units,
         calls' \in 0 .. MaxCalls, UNCHANGED <<sshd, kills>>
  PROVE  GadgetInv'
<1> USE DEF GadgetInv
<1> DEFINE overlap == \E b \in Actors : script[b] # Idle
           s == [Idle EXCEPT !.op = o, !.alone = ~overlap,
                             !.pc = IF o = "start" THEN "check" ELSE "flush"]
<1>1. /\ script[a] = Idle /\ spoiled' = (spoiled \/ overlap) /\ usb' = usb
      /\ script'[a] = s
      /\ \A b \in Actors \ {a} :
           script'[b] = IF overlap THEN [script[b] EXCEPT !.alone = FALSE]
                                   ELSE script[b]
      /\ script' \in [Actors -> {script'[b] : b \in Actors}]
  BY DEF Begin
<1>2. /\ s \in Calls /\ s.op = o /\ s.at = 1 /\ s.home = FALSE
      /\ s.alone = ~overlap
      /\ s.pc = (IF o = "start" THEN "check" ELSE "flush")
  BY IdleCall DEF Idle, Calls, Setup, Teardown, Ops
<1>3. overlap \in BOOLEAN
  OBVIOUS
<1>4. overlap <=> \E b \in Actors \ {a} : script[b] # Idle
  BY <1>1
<1> HIDE DEF s, overlap
<1>5. \A b \in Actors : /\ script[b] \in Calls /\ Placed(script[b])
                        /\ script[b].pc = "idle" <=> script[b] = Idle
  BY DEF ScriptInv, Placed, Idle
<1>6. \A b \in Actors \ {a} :
        /\ script'[b] \in Calls /\ Placed(script'[b])
        /\ script'[b].pc = script[b].pc /\ script'[b].home = script[b].home
        /\ overlap => ~script'[b].alone
        /\ ~overlap => script'[b] = Idle
  <2> SUFFICES ASSUME NEW b \in Actors \ {a}
               PROVE  /\ script'[b] \in Calls /\ Placed(script'[b])
                      /\ script'[b].pc = script[b].pc
                      /\ script'[b].home = script[b].home
                      /\ overlap => ~script'[b].alone
                      /\ ~overlap => script'[b] = Idle
      OBVIOUS
  <2>1. CASE ~overlap
    BY <2>1, <1>1, <1>4, <1>5
  <2>2. CASE overlap
    <3>1. script'[b] = [script[b] EXCEPT !.alone = FALSE]
      BY <2>2, <1>1
    <3>2. script[b] # Idle
      BY <2>2, <1>4 DEF Actors
    <3> QED
      BY <2>2, <3>1, <3>2, <1>5 DEF Calls, Placed
  <2> QED
    BY <2>1, <2>2
<1>7. ScriptInv'
  <2>1. Placed(s)
    BY <1>2 DEF Placed, Setup, Teardown, Ops
  <2> QED
    BY <1>1, <1>2, <1>6, <2>1 DEF ScriptInv
<1>8. KernelInv'
  BY <1>1 DEF KernelInv, KernelType, Parents
<1>9. HomeInv'
  BY <1>1, <1>2, <1>6 DEF HomeInv
<1>10. AloneInv'
  <2>1. CASE overlap
    <3>1. spoiled' /\ ~script'[a].alone
      BY <2>1, <1>1, <1>2
    <3> QED
      BY <2>1, <3>1, <1>6 DEF AloneInv
  <2>2. CASE ~overlap
    <3>1. script'[a].alone /\ \A b \in Actors \ {a} : ~Runs(b)'
      <4>1. Idle.pc = "idle"
        BY DEF Idle
      <4>2. \A b \in Actors \ {a} : script'[b].pc = "idle"
        BY <2>2, <1>6, <4>1
      <4>3. script'[a].alone
        BY <2>2, <1>1, <1>2
      <4> QED
        BY <4>2, <4>3 DEF Runs
    <3> QED
      BY <3>1 DEF AloneInv
  <2> QED
    BY <2>1, <2>2
<1>11. SoundInv'
  <2> SUFFICES ASSUME ~spoiled', usb'.iface.there,
                      \A b \in Actors : ~At(b, "remove")'
               PROVE  usb'.bound
      BY DEF SoundInv
  <2>1. ~spoiled /\ usb.iface.there
    BY <1>1 DEF RecordInv
  <2>2. \A b \in Actors : ~At(b, "remove")
    BY <1>1, <1>6 DEF At, Idle
  <2> QED
    BY <1>1, <2>1, <2>2 DEF SoundInv
<1>12. CallsInv'
  <2> SUFFICES ASSUME NEW b \in Actors PROVE Owns(b)' /\ Heals(b)'
      BY DEF CallsInv
  <2>1. CASE b = a
    BY <2>1, <1>1, <1>2 DEF Owns, Heals, At
  <2>2. CASE b # a
    BY <2>2, <1>6 DEF Owns, Heals, At, Idle
  <2> QED
    BY <2>1, <2>2
<1>13. RecordInv'
  BY <1>1, <1>3 DEF RecordInv
<1> QED
  BY <1>7, <1>8, <1>9, <1>10, <1>11, <1>12, <1>13

\* A script that is killed.  What it was removing is on record as cut short.
LEMMA KillKeeps ==
  ASSUME GadgetInv, NEW a \in Actors, Kill(a)
  PROVE  GadgetInv'
<1>1. /\ script' = [script EXCEPT ![a] = Idle]
      /\ spoiled' = (spoiled \/ At(a, "remove"))
      /\ UNCHANGED <<usb, sshd, calls>> /\ kills < MaxKills /\ kills' = kills + 1
  BY DEF Kill
<1>2. script \in [Actors -> Calls] /\ unit \in Units /\ spoiled \in BOOLEAN
      /\ kills \in 0 .. MaxKills
  BY DEF GadgetInv, ScriptInv, RecordInv
<1>3. \A b \in Actors \ {a} : script'[b] = script[b]
  BY <1>1, <1>2
<1>4. unit' \in Units
  BY <1>2 DEF Kill, Units
<1>5. spoiled' \in BOOLEAN /\ (spoiled => spoiled')
  BY <1>1, <1>2 DEF At
<1>6. kills' \in 0 .. MaxKills
  BY <1>1, <1>2, GadgetBoundsAssumption
<1>7. KernelInv'
  BY <1>1 DEF GadgetInv, KernelInv, KernelType, Parents
<1>8. SoundInv'
  <2> SUFFICES ASSUME ~spoiled', usb'.iface.there,
                      \A b \in Actors : ~At(b, "remove")'
               PROVE  usb'.bound
      BY DEF SoundInv
  <2>1. ~spoiled /\ ~At(a, "remove")
    BY <1>1
  <2>2. \A b \in Actors : ~At(b, "remove")
    BY <1>3, <2>1 DEF At
  <2> QED
    BY <1>1, <2>1, <2>2 DEF GadgetInv, SoundInv
<1> QED
  BY <1>1, <1>4, <1>5, <1>6, <1>7, <1>8, Stops

\* systemd starts and stops the unit when its state allows it.
LEMMA UnitKeeps ==
  ASSUME GadgetInv, BootStart \/ AskUnit
  PROVE  GadgetInv'
<1>1. calls \in 0 .. MaxCalls
  BY DEF GadgetInv, RecordInv
<1>2. "unit" \in Actors /\ {"start", "stop"} \subseteq Ops
      /\ {"starting", "stopping"} \subseteq Units
  BY DEF Actors, Ops, Units
<1>3. PICK o \in {"start", "stop"} :
        Begin("unit", o) /\ unit' \in {"starting", "stopping"}
  BY DEF BootStart, AskUnit
<1>4. calls' \in 0 .. MaxCalls /\ UNCHANGED <<sshd, kills>>
  BY <1>1, GadgetBoundsAssumption DEF BootStart, AskUnit
<1> HIDE DEF Actors
<1> QED
  BY <1>2, <1>3, <1>4, BeginKeeps

\* The operator calls the script.
LEMMA CallKeeps ==
  ASSUME GadgetInv, CallScript
  PROVE  GadgetInv'
<1>1. calls \in 0 .. MaxCalls /\ unit \in Units
  BY DEF GadgetInv, RecordInv
<1>2. "shell" \in Actors
  BY DEF Actors
<1>3. PICK o \in Ops : Begin("shell", o)
  BY DEF CallScript
<1>4. calls' \in 0 .. MaxCalls /\ UNCHANGED <<sshd, kills>> /\ unit' \in Units
  BY <1>1, GadgetBoundsAssumption DEF CallScript
<1> QED
  BY <1>2, <1>3, <1>4, BeginKeeps

\* A controller is probed, ssh is started, or nothing happens.
LEMMA KernelStepKeeps ==
  ASSUME GadgetInv, UdcAppears \/ StartSsh \/ UNCHANGED gadgetVars
  PROVE  GadgetInv'
<1>1. /\ UNCHANGED <<script, unit, spoiled, calls, kills>>
      /\ usb' = usb \/ usb' = [usb EXCEPT !.udc = TRUE]
      /\ sshd' = sshd \/ sshd' = TRUE
  BY DEF UdcAppears, StartSsh, gadgetVars
<1>2. KernelType
  BY DEF GadgetInv, KernelInv
<1>3. /\ KernelType' /\ usb'.made = usb.made /\ usb'.bound = usb.bound
      /\ usb'.iface = usb.iface
  <2>1. CASE usb' = usb
    BY <1>2, <2>1 DEF KernelType
  <2>2. CASE usb' = [usb EXCEPT !.udc = TRUE]
    BY <1>2, <2>2 DEF KernelType
  <2> QED
    BY <1>1, <2>1, <2>2
<1>4. KernelInv' /\ HomeInv' /\ SoundInv'
  BY <1>1, <1>3 DEF GadgetInv, KernelInv, HomeInv, SoundInv, At, Parents
<1>5. ScriptInv' /\ AloneInv'
  BY <1>1 DEF GadgetInv, ScriptInv, AloneInv, Runs, Placed
<1>6. CallsInv'
  BY <1>1, <1>3 DEF GadgetInv, CallsInv, Owns, Heals, At
<1>7. RecordInv'
  BY <1>1 DEF GadgetInv, RecordInv
<1> QED
  BY <1>4, <1>5, <1>6, <1>7 DEF GadgetInv

\* A history of the gadget service begins with the invariant.
LEMMA GadgetBegins == GadgetInit => GadgetInv
<1> SUFFICES ASSUME GadgetInit PROVE GadgetInv
    OBVIOUS
<1>1. calls \in 0 .. MaxCalls /\ kills \in 0 .. MaxKills
  BY GadgetBoundsAssumption DEF GadgetInit
<1> QED
  BY <1>1, InitHas DEF GadgetInit

\* What losing the power leaves has it again.
LEMMA GadgetBeginsAgain ==
  ASSUME GadgetInv, GadgetReset PROVE GadgetInv'
<1>1. /\ usb' = NoGadget /\ script' = [a \in Actors |-> Idle]
      /\ unit' = "inactive" /\ sshd' = FALSE /\ spoiled' = FALSE
      /\ calls' \in 0 .. MaxCalls /\ kills' \in 0 .. MaxKills
  BY DEF GadgetReset, GadgetInv, RecordInv
<1>2. \A a \in Actors : script'[a] = Idle
  BY <1>1
<1>3. ScriptInv'
  BY <1>1, <1>2, IdleCall DEF ScriptInv
<1>4. KernelInv'
  BY <1>1 DEF KernelInv, KernelType, NoGadget, NoIface
<1>5. HomeInv' /\ AloneInv' /\ CallsInv'
  BY <1>2 DEF HomeInv, AloneInv, CallsInv, Owns, Heals, Runs, At, Idle
<1>6. SoundInv' /\ RecordInv'
  BY <1>1 DEF SoundInv, RecordInv, NoGadget, NoIface, Units
<1> QED
  BY <1>3, <1>4, <1>5, <1>6 DEF GadgetInv

\* Every step of the service has the invariant.
LEMMA GadgetKeeps ==
  ASSUME GadgetInv, GadgetNext \/ GadgetReset \/ UNCHANGED gadgetVars
  PROVE  GadgetInv'
BY CommandKeeps, KillKeeps, UnitKeeps, CallKeeps, KernelStepKeeps,
   GadgetBeginsAgain DEF GadgetNext

-----------------------------------------------------------------------------
(* What follows from it                                                    *)

\* The type invariant.
LEMMA GadgetTyped == GadgetInv => GadgetTypeOK
<1> SUFFICES ASSUME GadgetInv PROVE GadgetTypeOK
    OBVIOUS
<1>1. \A a \in Actors : script[a] \in Calls /\ Placed(script[a])
  BY DEF GadgetInv, ScriptInv
<1>2. \A a \in Actors :
        /\ script[a].op \in Ops \cup {"none"} /\ script[a].at \in 1 .. 6
        /\ script[a].looks \in 0 .. UdcTries + IfaceTries
        /\ (script[a].pc = "idle") = (script[a] = Idle)
        /\ script[a].home => "gadget" \in usb.made
  <2> TAKE a \in Actors
  <2>1. script[a].pc = "idle" <=> script[a] = Idle
    BY <1>1 DEF Placed, Idle
  <2> QED
    BY <1>1, <2>1 DEF Calls, GadgetInv, HomeInv
<1> QED
  BY <1>2, RemovalList DEF GadgetInv, GadgetTypeOK, KernelInv, KernelType, RecordInv,
     Units

\* A start that has run alone, with nothing cut short or overlapped before it,
\* gives the address to a gadget that is bound and an interface that is up.
LEMMA SuccessFromInv ==
  ASSUME GadgetInv, NEW a \in Actors, script[a].alone, ~spoiled, Address(a),
         usb'.iface.addr
  PROVE  Ready'
<1>1. Runs(a) /\ script[a].pc = "address"
  BY DEF Address, Runs, At
<1>2. usb.iface.there /\ usb.iface.up /\ ~usb.iface.addr
  BY <1>1, Running DEF Owns, At
<1>3. usb' = [usb EXCEPT !.iface.addr = TRUE]
  BY <1>2 DEF Address
<1>4. \A b \in Actors : ~At(b, "remove")
  BY <1>1 DEF GadgetInv, AloneInv, Runs, At
<1>5. usb.bound
  BY <1>2, <1>4 DEF GadgetInv, SoundInv
<1>6. KernelType
  BY DEF GadgetInv, KernelInv
<1>7. /\ usb'.bound = usb.bound /\ usb'.iface = [usb.iface EXCEPT !.addr = TRUE]
      /\ usb.iface \in [there : BOOLEAN, up : BOOLEAN, addr : BOOLEAN]
      /\ usb.iface.there = TRUE /\ usb.iface.up = TRUE
  BY <1>2, <1>3, <1>6 DEF KernelType
<1> QED
  BY <1>5, <1>7 DEF Ready

\* A script that goes on is not at its end.
LEMMA GoesOn ==
  ASSUME GadgetInv, NEW a \in Actors, NEW s, Goes(a, s), s.pc # "idle"
  PROVE  script'[a] # Idle
<1>1. script'[a] = s
  BY DEF Goes, GadgetInv, ScriptInv
<1> QED
  BY <1>1 DEF Idle

\* Nor is one at another of its commands, with new looks or not.
LEMMA SentOn ==
  ASSUME GadgetInv, NEW a \in Actors, Runs(a),
         \/ \E label \in Teardown \cup Setup : Goto(a, label)
         \/ \E label \in Setup, n \in 0 .. UdcTries + IfaceTries :
              \/ Goes(a, Sent(script[a], label, n)) /\ script[a].at = 1
              \/ Goes(a, SentAnew(script[a], label, n))
  PROVE  script'[a] # Idle
<1>1. script[a] \in Calls
  BY Running
<1>2. CASE \E label \in Teardown \cup Setup : Goto(a, label)
  <2>1. PICK label \in Teardown \cup Setup :
               Goes(a, [script[a] EXCEPT !.pc = label])
    BY <1>2 DEF Goto
  <2> DEFINE s == [script[a] EXCEPT !.pc = label]
  <2>2. Goes(a, s) /\ s.pc # "idle"
    BY <1>1, <2>1, Labelled
  <2> HIDE DEF s
  <2> QED
    BY <2>2, GoesOn
<1>3. CASE \E label \in Setup, n \in 0 .. UdcTries + IfaceTries :
             \/ Goes(a, Sent(script[a], label, n)) /\ script[a].at = 1
             \/ Goes(a, SentAnew(script[a], label, n))
  <2>1. PICK label \in Setup, n \in 0 .. UdcTries + IfaceTries :
             \/ Goes(a, Sent(script[a], label, n)) /\ script[a].at = 1
             \/ Goes(a, SentAnew(script[a], label, n))
    BY <1>3
  <2>2. CASE Goes(a, Sent(script[a], label, n)) /\ script[a].at = 1
    BY <1>1, <2>2, Looking, GoesOn
  <2>3. CASE Goes(a, SentAnew(script[a], label, n))
    BY <1>1, <2>3, Looking, GoesOn
  <2> QED
    BY <2>1, <2>2, <2>3
<1> QED
  BY <1>2, <1>3

\* A restart that runs alone does not stop while it tears down,
LEMMA TearsDown ==
  ASSUME GadgetInv, NEW a \in Actors, script[a].op = "restart",
         Flush(a) \/ Down(a) \/ Exists(a) \/ Unbind(a) \/ Remove(a)
  PROVE  script'[a] # Idle
<1>1. Runs(a)
  BY DEF Runs, At, Flush, Down, Exists, Unbind, Remove
<1>2. {"down", "exists", "unbind", "remove"} \subseteq Teardown
  BY DEF Teardown
<1>3. ASSUME NEW gone \in BOOLEAN, TeardownEnds(a, gone) PROVE script'[a] # Idle
  <2> DEFINE left == [b \in Actors |-> [script[b] EXCEPT !.home = @ /\ ~gone]]
             next == [[left[a] EXCEPT !.pc = "check"] EXCEPT !.at = 1]
  <2>1. script' = [left EXCEPT ![a] = next]
    BY <1>3 DEF TeardownEnds
  <2>2. left[a] = [script[a] EXCEPT !.home = @ /\ ~gone] /\ script[a] \in Calls
    BY <1>1, Running
  <2>3. next.pc = "check"
    BY <2>2 DEF Calls
  <2>4. script'[a] = next
    BY <2>1
  <2> HIDE DEF next
  <2> QED
    BY <2>3, <2>4 DEF Idle
<1>4. CASE Flush(a) \/ Down(a) \/ Unbind(a)
  <2>1. \E label \in Teardown : Goto(a, label)
    BY <1>2, <1>4 DEF Flush, Down, Unbind
  <2> QED
    BY <1>1, <2>1, SentOn
<1>5. CASE Exists(a)
  <2>1. Goto(a, "unbind") \/ TeardownEnds(a, FALSE)
    BY <1>5 DEF Exists
  <2> QED
    BY <1>1, <1>2, <1>3, <2>1, SentOn
<1>6. CASE Remove(a)
  <2> DEFINE s == [script[a] EXCEPT !.at = @ + 1]
  <2>1. \/ Goes(a, s)
        \/ TeardownEnds(a, Removable(Removals[script[a].at]))
    BY <1>6 DEF Remove, RemovalAt
  <2>2. Removable(Removals[script[a].at]) \in BOOLEAN
    BY DEF Removable
  <2>3. s.pc = script[a].pc /\ s.pc # "idle"
    BY <1>1, Running DEF Calls, Runs
  <2> HIDE DEF s
  <2> QED
    BY <1>3, <2>1, <2>2, <2>3, GoesOn
<1> QED
  BY <1>4, <1>5, <1>6

\* nor while it builds the gadget and waits for the interface, for nothing it
\* needs is missing.
LEMMA SetsUp ==
  ASSUME GadgetInv, NEW a \in Actors, script[a].op = "restart", script[a].alone,
         usb.udc,
         \/ Check(a) \/ Make(a) \/ Enter(a) \/ Fill(a) \/ FindUdc(a) \/ Bind(a)
         \/ WaitIface(a) \/ LinkUp(a) \/ Reflush(a)
  PROVE  script'[a] # Idle
<1>1. Runs(a)
  BY DEF Runs, At, Check, Make, Enter, Fill, FindUdc, Bind, WaitIface, LinkUp,
         Reflush
<1>2. {"make", "enter", "bind", "wait", "up", "reflush", "address", "findUdc"}
        \subseteq Setup
  BY DEF Setup
<1>3. script[a] \in Calls /\ (script[a].pc \notin {"remove", "fill"} => script[a].at = 1)
  BY <1>1, Running
<1>4. CASE Check(a) \/ Make(a) \/ Reflush(a)
  <2>1. \/ Goes(a, [script[a] EXCEPT !.pc = "wait", !.looks = IfaceTries])
        \/ \E label \in Setup : Goto(a, label)
    BY <1>2, <1>4 DEF Check, Make, Reflush
  <2>2. \/ Goes(a, Sent(script[a], "wait", IfaceTries)) /\ script[a].at = 1
        \/ \E label \in Setup : Goto(a, label)
    BY <2>1, <1>3, <1>4 DEF Sent, Check, Make, Reflush, At
  <2> QED
    BY <1>1, <1>2, <2>2, SentOn, LookCounts
<1>5. CASE Enter(a)
  <2> DEFINE s == [script[a] EXCEPT !.pc = "fill", !.home = TRUE]
  <2>1. usb.made = {"gadget"}
    BY <1>1, <1>5, Running DEF Enter, Heals, At
  <2>2. Goes(a, s)
    BY <1>5, <2>1 DEF Enter, Try
  <2>3. s.pc # "idle"
    BY <1>3 DEF Calls
  <2> HIDE DEF s
  <2> QED
    BY <2>2, <2>3, GoesOn
<1>6. CASE Fill(a)
  <2> DEFINE p == Creations[script[a].at]
             s == [script[a] EXCEPT !.at = @ + 1]
  <2>1. /\ script[a].home /\ script[a].at \in 1 .. 5 /\ script[a].pc = "fill"
        /\ usb.made = {"gadget"} \cup {Creations[i] : i \in 1 .. script[a].at - 1}
    BY <1>1, <1>6, Running DEF Fill, Heals, At
  <2>2. Parents(p) \subseteq usb.made /\ (p = "link" => p \notin usb.made)
    <3>1. \A i \in 1 .. 5 : i = 1 \/ i = 2 \/ i = 3 \/ i = 4 \/ i = 5
      OBVIOUS
    <3>2. \A i \in 1 .. script[a].at - 1 : Creations[i] \in usb.made
      BY <2>1
    <3>3. "gadget" \in usb.made
      BY <2>1
    <3>4. CASE script[a].at = 1
      BY <3>3, <3>4, CreationList, ParentList
    <3>5. CASE script[a].at = 2
      BY <3>3, <3>5, CreationList, ParentList
    <3>6. CASE script[a].at = 3
      BY <3>2, <3>6, CreationList, ParentList
    <3>7. CASE script[a].at = 4
      BY <3>3, <3>7, CreationList, ParentList
    <3>8. CASE script[a].at = 5
      <4>1. Creations[2] \in usb.made /\ Creations[4] \in usb.made
        BY <3>2, <3>8
      <4>2. "link" \notin usb.made
        <5>1. \A i \in 1 .. 4 : i = 1 \/ i = 2 \/ i = 3 \/ i = 4
          OBVIOUS
        <5>2. \A i \in 1 .. 4 : Creations[i] # "link"
          BY <5>1, CreationList
        <5> QED
          BY <2>1, <3>8, <5>2
      <4> QED
        BY <3>8, <4>1, <4>2, CreationList, ParentList
    <3> QED
      BY <2>1, <3>1, <3>4, <3>5, <3>6, <3>7, <3>8
  <2>3. Goes(a, IF p = "link" THEN SentAnew(script[a], "findUdc", UdcTries) ELSE s)
    BY <1>6, <2>1, <2>2 DEF Fill, Try, SentAnew
  <2>4. CASE p = "link"
    BY <1>1, <1>2, <2>3, <2>4, SentOn, LookCounts
  <2>5. CASE p # "link"
    <3>1. s.pc # "idle"
      BY <1>3, <2>1 DEF Calls
    <3>2. Goes(a, s)
      BY <2>3, <2>5
    <3> HIDE DEF s
    <3> QED
      BY <3>1, <3>2, GoesOn
  <2> QED
    BY <2>4, <2>5
<1>7. CASE FindUdc(a) \/ WaitIface(a)
  <2>1. script[a].at = 1 /\ (At(a, "wait") => usb.iface.there)
    BY <1>1, <1>3, <1>7, Running DEF FindUdc, WaitIface, Heals, At
  <2>2. \/ Goes(a, Sent(script[a], "bind", 0))
        \/ Goes(a, Sent(script[a], "up", 0))
    BY <1>7, <2>1 DEF FindUdc, WaitIface, Look, Try, Sent
  <2> QED
    BY <1>1, <1>2, <2>1, <2>2, SentOn, LookCounts
<1>8. CASE Bind(a)
  <2>1. script[a].at = 1 /\ script[a].home /\ ~usb.bound /\ "link" \in usb.made
    BY <1>1, <1>3, <1>8, Running DEF Bind, Heals, At
  <2>2. Goes(a, Sent(script[a], "wait", IfaceTries))
    BY <1>8, <2>1 DEF Bind, Try, Sent
  <2> QED
    BY <1>1, <1>2, <2>1, <2>2, SentOn, LookCounts
<1>9. CASE LinkUp(a)
  <2>1. usb.iface.there
    BY <1>1, <1>9, Running DEF LinkUp, Heals, At
  <2>2. Goto(a, "reflush")
    BY <1>9, <2>1 DEF LinkUp, TryGoto, Try, Goto
  <2> QED
    BY <1>1, <1>2, <2>2, SentOn
<1> QED
  BY <1>4, <1>5, <1>6, <1>7, <1>8, <1>9

\* So a restart that runs alone with a controller present ends where a start
\* succeeds, with the network ready, whatever it was called upon.
LEMMA HealsFromInv ==
  ASSUME GadgetInv, NEW a \in Actors, script[a].op = "restart", script[a].alone,
         usb.udc, Command(a), script'[a] = Idle
  PROVE  Ready'
<1>1. Address(a)
  BY TearsDown, SetsUp DEF Command
<1>2. Runs(a) /\ script[a].pc = "address"
  BY <1>1 DEF Address, Runs, At
<1>3. usb.iface.there /\ usb.iface.up /\ ~usb.iface.addr /\ usb.bound
  BY <1>2, Running DEF Owns, Heals, At
<1>4. usb' = [usb EXCEPT !.iface.addr = TRUE]
  BY <1>1, <1>3 DEF Address
<1>5. KernelType
  BY DEF GadgetInv, KernelInv
<1>6. /\ usb'.bound = usb.bound /\ usb'.iface = [usb.iface EXCEPT !.addr = TRUE]
      /\ usb.iface \in [there : BOOLEAN, up : BOOLEAN, addr : BOOLEAN]
      /\ usb.iface.there = TRUE /\ usb.iface.up = TRUE
  BY <1>3, <1>4, <1>5 DEF KernelType
<1> QED
  BY <1>3, <1>6 DEF Ready
=============================================================================
