------------------------------ MODULE DsiCmdTx ------------------------------
(***************************************************************************)
(* Commands on the DSI link (dsi_ctrl.c): messages are collected in a 4K   *)
(* buffer and sent by DMA; the sender waits at most 200 ms for the         *)
(* interrupt that says the DMA is done, and otherwise looks at the         *)
(* interrupt register itself.  The handler runs on another processor,      *)
(* also for errors, and shares with the sender                             *)
(*   - the count and the mask of the interrupts in use (irq_lock), and     *)
(*   - the register that holds status and mask bits (no lock): it is       *)
(*     changed by reading it and writing it back.                          *)
(*                                                                         *)
(* A step is one access to shared state, or one section under irq_lock.    *)
(* Everything else runs under ctrl_lock, one caller at a time.  The wait   *)
(* for the end of a video frame (dsi_ctrl_wait_for_video_done) returns at  *)
(* once from controller v2.2 on, and this phone's is v2.3: it is left out. *)
(***************************************************************************)
EXTENDS Naturals, FiniteSets

CONSTANTS
    Lens,           \* lengths of the messages to consider
    Embedded,       \* the longest command the FIFO takes (256)
    Size,           \* the command buffer (SZ_4K)
    MaxOvertakes,   \* bound on the handlers overtaken by a new transfer
    MaxOrphans      \* bound on the handlers removed with interrupts in use

ASSUME LensAssumption == Lens \subseteq Nat
ASSUME SizeAssumption == Size \in Nat /\ Embedded \in Nat /\ Size % 4 = 0
ASSUME CapsAssumption == MaxOvertakes \in Nat /\ MaxOrphans \in Nat

VARIABLES
    installed,   \* irq_info.irq_num # -1
    depth,       \* how often the interrupt line is disabled
    refs,        \* irq_info.irq_stat_refcount
    core,        \* the core clocks run
    unmasked,    \* the register lets the DMA interrupt through
    raised,      \* the register says that a DMA is done
    running,     \* DMAs under way: of this transfer, of an earlier one
    done,        \* irq_info.cmd_dma_done
    cmdLen,      \* bytes collected in the command buffer
    sender,      \* what the sending thread does next
    sseen,       \* the register as the sender read it to change it
    handler,     \* what the interrupt handler does next
    status,      \* what the handler found in the register
    hseen,       \* the register as the handler read it to change it
    ownDone,     \* the DMA of this transfer is done
    taken,       \* a handler has cleared its bit
    settled,     \* nothing of an earlier transfer was left when it began
    overtakes,   \* transfers begun while a handler completed an earlier one
    orphans      \* handlers removed with interrupts in use

lineVars == <<installed, depth, core>>
regVars == <<unmasked, raised>>
senderVars == <<cmdLen, sender, sseen, settled>>
handlerVars == <<handler, status, hseen>>
boundVars == <<overtakes, orphans>>
vars == <<installed, depth, refs, core, unmasked, raised, running, done, cmdLen, sender,
          sseen, handler, status, hseen, ownDone, taken, settled, overtakes, orphans>>

Sint == {"dma", "error"}
Seen == [unmasked : BOOLEAN, raised : BOOLEAN]
Unread == [unmasked |-> FALSE, raised |-> FALSE]
Padded(len) == 4 * ((len + 7) \div 4)
RefMax == MaxOvertakes + MaxOrphans + 1

TypeOK ==
    /\ installed \in BOOLEAN /\ core \in BOOLEAN
    /\ depth \in 0..2
    /\ refs \in [Sint -> 0..RefMax]
    /\ unmasked \in BOOLEAN /\ raised \in BOOLEAN
    /\ running \subseteq {"own", "earlier"}
    /\ done \in BOOLEAN
    /\ cmdLen \in 0..Size
    /\ sender \in {"idle", "enabled", "reset", "waiting", "expired", "found", "clearing",
                   "cleared", "missed"}
    /\ handler \in {"idle", "read", "clear", "cleared", "mask", "masked", "unmask", "handled",
                    "complete"}
    /\ sseen \in Seen /\ hseen \in Seen
    /\ status \subseteq Sint
    /\ ownDone \in BOOLEAN /\ taken \in BOOLEAN /\ settled \in BOOLEAN
    /\ overtakes \in 0..MaxOvertakes
    /\ orphans \in 0..MaxOrphans

Init ==
    /\ installed = FALSE /\ core = FALSE /\ depth = 0
    /\ refs = [i \in Sint |-> 0]
    /\ unmasked = FALSE /\ raised = FALSE
    /\ running = {} /\ done = FALSE
    /\ cmdLen = 0
    /\ sender = "idle" /\ handler = "idle"
    /\ sseen = Unread /\ hseen = Unread
    /\ status = {}
    /\ ownDone = FALSE /\ taken = FALSE /\ settled = TRUE
    /\ overtakes = 0 /\ orphans = 0

-----------------------------------------------------------------------------
(* The interrupts in use.                                                  *)

\* irq_info.irq_stat_mask
Mask(r) == {i \in Sint : r[i] > 0}

\* The first user of any interrupt enables the line, the first of one its bit.
EnableStatus(i) ==
    IF installed
    THEN /\ refs' = [refs EXCEPT ![i] = @ + 1]
         /\ depth' = IF Mask(refs) = {} THEN depth - 1 ELSE depth
         /\ unmasked' = IF refs[i] = 0 THEN "dma" \in Mask(refs') ELSE unmasked
    ELSE UNCHANGED <<refs, depth, unmasked>>

\* Mutant: the last user of any interrupt disables the line.
DisableStatus_Each(i) ==
    IF installed /\ refs[i] > 0
    THEN /\ refs' = [refs EXCEPT ![i] = @ - 1]
         /\ unmasked' = IF refs[i] = 1 THEN "dma" \in Mask(refs') ELSE unmasked
         /\ depth' = IF refs[i] = 1 /\ depth < 2 THEN depth + 1 ELSE depth
    ELSE UNCHANGED <<refs, depth, unmasked>>

DisableStatus(i) ==
    IF installed /\ refs[i] > 0
    THEN /\ refs' = [refs EXCEPT ![i] = @ - 1]
         /\ unmasked' = IF refs[i] = 1 THEN "dma" \in Mask(refs') ELSE unmasked
         /\ depth' = IF Mask(refs') = {} THEN depth + 1 ELSE depth
    ELSE UNCHANGED <<refs, depth, unmasked>>

\* _dsi_ctrl_setup_isr: a fresh handler's line is enabled, and disabled at once.
\* Nobody looks at the error of a handler that cannot be had.
SetupIsr ==
    /\ sender = "idle" /\ ~installed
    /\ \/ installed' = TRUE /\ depth' = 1
       \/ UNCHANGED <<installed, depth>>
    /\ done' = FALSE
    /\ UNCHANGED <<refs, core, regVars, running, senderVars, handlerVars, ownDone, taken, boundVars>>

\* _dsi_ctrl_destroy_isr waits for the handler; counts and mask stay as they are.
DestroyIsr ==
    /\ sender = "idle" /\ installed /\ handler = "idle"
    /\ orphans' = IF Mask(refs) = {} THEN orphans ELSE orphans + 1
    /\ orphans' <= MaxOrphans
    /\ installed' = FALSE
    /\ UNCHANGED <<depth, refs, core, regVars, running, done, senderVars, handlerVars, ownDone,
                   taken, overtakes>>

\* The core clocks start and stop: errors may interrupt while they run
\* (dsi_ctrl_irq_update).  Nobody stops them under a sender.
CoreOn ==
    /\ sender = "idle" /\ ~core
    /\ core' = TRUE
    /\ EnableStatus("error")
    /\ UNCHANGED <<installed, raised, running, done, senderVars, handlerVars, ownDone, taken, boundVars>>

CoreOff ==
    /\ sender = "idle" /\ core
    /\ core' = FALSE
    /\ DisableStatus("error")
    /\ UNCHANGED <<installed, raised, running, done, senderVars, handlerVars, ownDone, taken, boundVars>>

-----------------------------------------------------------------------------
(* dsi_message_tx under ctrl_lock.                                         *)

\* Mutant: what is already collected is not counted.
Fits_Alone(len) == len + 4 <= Size

\* dsi_message_validate_tx_mode
Fits(len) == cmdLen + len + 4 <= Size

\* The last message of a batch starts the DMA, and so does one that is too long
\* for the FIFO.
Starts(len, last) == last \/ len + 4 > Embedded

\* A message that is not the last one waits in the buffer.
Collect(len) ==
    /\ sender = "idle" /\ core
    /\ Fits(len) /\ ~Starts(len, FALSE)
    /\ cmdLen' = cmdLen + Padded(len)
    /\ UNCHANGED <<lineVars, refs, regVars, running, done, sender, sseen, handlerVars,
                   ownDone, taken, settled, boundVars>>

\* A transfer does not ask for a handler: without one no interrupt is counted.
Begin(len, last) ==
    /\ sender = "idle" /\ core
    /\ Fits(len) /\ Starts(len, last)
    /\ cmdLen' = 0
    /\ EnableStatus("dma")
    /\ sender' = "enabled"
    /\ ownDone' = FALSE /\ taken' = FALSE
    /\ settled' = (running = {} /\ ~raised /\ "dma" \notin status)
    /\ overtakes' = IF "dma" \in status THEN overtakes + 1 ELSE overtakes
    /\ overtakes' <= MaxOvertakes
    /\ UNCHANGED <<installed, core, raised, running, done, sseen, handlerVars, orphans>>

\* reinit_completion, after the interrupt was enabled.
Reinit ==
    /\ sender = "enabled"
    /\ sender' = "reset"
    /\ done' = FALSE
    /\ UNCHANGED <<lineVars, refs, regVars, running, cmdLen, sseen, settled, handlerVars,
                   ownDone, taken, boundVars>>

Kickoff ==
    /\ sender = "reset"
    /\ sender' = "waiting"
    /\ running' = running \cup {"own"}
    /\ UNCHANGED <<lineVars, refs, regVars, done, cmdLen, sseen, settled, handlerVars,
                   ownDone, taken, boundVars>>

\* The caller goes on; a DMA still under way is an earlier one from now on.
Return ==
    /\ sender' = "idle"
    /\ running' = IF "own" \in running THEN {"earlier"} ELSE running
    /\ ownDone' = FALSE /\ taken' = FALSE /\ settled' = TRUE

Completed ==
    /\ sender = "waiting" /\ done
    /\ Return
    /\ UNCHANGED <<lineVars, refs, regVars, done, cmdLen, sseen, handlerVars, boundVars>>

\* Mutant: after the timeout the interrupt is waited for again.
Expire_Again == sender = "waiting" /\ ~done /\ UNCHANGED vars

Expire ==
    /\ sender = "waiting" /\ ~done
    /\ sender' = "expired"
    /\ UNCHANGED <<lineVars, refs, regVars, running, done, cmdLen, sseen, settled,
                   handlerVars, ownDone, taken, boundVars>>

\* Mutant: an interrupt that did not come means that the DMA is not done.
Look_Not ==
    /\ sender = "expired"
    /\ sender' = "missed"
    /\ UNCHANGED <<lineVars, refs, regVars, running, done, cmdLen, sseen, settled,
                   handlerVars, ownDone, taken, boundVars>>

\* get_interrupt_status: the DMA may be done although no interrupt came.
Look ==
    /\ sender = "expired"
    /\ sender' = IF raised THEN "found" ELSE "missed"
    /\ UNCHANGED <<lineVars, refs, regVars, running, done, cmdLen, sseen, settled,
                   handlerVars, ownDone, taken, boundVars>>

\* clear_interrupt_status(DMA_DONE) reads the register ...
ClearRead ==
    /\ sender = "found"
    /\ sender' = "clearing"
    /\ sseen' = [unmasked |-> unmasked, raised |-> raised]
    /\ UNCHANGED <<lineVars, refs, regVars, running, done, cmdLen, settled, handlerVars,
                   ownDone, taken, boundVars>>

\* ... and writes it back: the mask as it was read, the bit cleared.
ClearWrite ==
    /\ sender = "clearing"
    /\ sender' = "cleared"
    /\ unmasked' = sseen.unmasked
    /\ raised' = FALSE
    /\ sseen' = Unread
    /\ UNCHANGED <<lineVars, refs, running, done, cmdLen, settled, handlerVars,
                   ownDone, taken, boundVars>>

\* "dma_tx done but irq not triggered"
Rescue ==
    /\ sender = "cleared"
    /\ DisableStatus("dma")
    /\ done' = TRUE
    /\ Return
    /\ UNCHANGED <<installed, core, raised, cmdLen, sseen, handlerVars,
                   boundVars>>

\* Mutant: a transfer that timed out keeps its interrupt.
GiveUp_KeepsCount ==
    /\ sender = "missed"
    /\ Return
    /\ UNCHANGED <<lineVars, refs, regVars, done, cmdLen, sseen, handlerVars, boundVars>>

\* -ETIMEDOUT
GiveUp ==
    /\ sender = "missed"
    /\ DisableStatus("dma")
    /\ Return
    /\ UNCHANGED <<installed, core, raised, done, cmdLen, sseen, handlerVars, boundVars>>

-----------------------------------------------------------------------------
(* The hardware.                                                           *)

DmaDone(d) ==
    /\ d \in running /\ core
    /\ running' = running \ {d}
    /\ raised' = TRUE
    /\ ownDone' = (ownDone \/ d = "own")
    /\ UNCHANGED <<lineVars, refs, unmasked, done, senderVars, handlerVars, taken, boundVars>>

\* The panel or the link does not take the command, or a reset stops the DMA.
DmaLost(d) ==
    /\ d \in running
    /\ running' = running \ {d}
    /\ UNCHANGED <<lineVars, refs, regVars, done, senderVars, handlerVars, ownDone, taken, boundVars>>

-----------------------------------------------------------------------------
(* dsi_ctrl_isr.                                                           *)

\* An interrupt for a DMA or for an error: get_interrupt_status.
Interrupt ==
    /\ handler = "idle" /\ installed /\ depth = 0 /\ core
    /\ \E error \in BOOLEAN :
          /\ (unmasked /\ raised) \/ error
          /\ status' = {i \in Sint : IF i = "dma" THEN raised ELSE error}
    /\ handler' = "read"
    /\ UNCHANGED <<lineVars, refs, regVars, running, done, senderVars, hseen, ownDone, taken, boundVars>>

\* A read and a write of the register, from handler step "from" to "to".
HandlerReads(from, to) ==
    /\ handler = from
    /\ handler = "cleared" => "error" \in status
    /\ handler' = to
    /\ hseen' = [unmasked |-> unmasked, raised |-> raised]
    /\ UNCHANGED <<lineVars, refs, regVars, running, done, senderVars, status, ownDone, taken, boundVars>>

\* clear_interrupt_status(0) writes back what it read, and so clears whatever
\* was raised by then, looked at or not.
HandlerClears ==
    /\ handler = "clear"
    /\ handler' = "cleared"
    /\ unmasked' = hseen.unmasked
    /\ raised' = (raised /\ ~hseen.raised)
    /\ taken' = (taken \/ (hseen.raised /\ ownDone))
    /\ hseen' = Unread
    /\ UNCHANGED <<lineVars, refs, running, done, senderVars, status, ownDone, boundVars>>

\* error_intr_ctrl masks the errors and unmasks them when they are handled; the
\* mask of the DMA interrupt is written back as it was read.
HandlerMasks(from, to) ==
    /\ handler = from
    /\ handler' = to
    /\ unmasked' = hseen.unmasked
    /\ hseen' = Unread
    /\ UNCHANGED <<lineVars, refs, raised, running, done, senderVars, status, ownDone, taken,
                   boundVars>>

\* No error, or too many of them during an ESD check: they stay masked.
HandlerSkips ==
    /\ (handler = "cleared" /\ "error" \notin status) \/ handler = "masked"
    /\ handler' = "handled"
    /\ UNCHANGED <<lineVars, refs, regVars, running, done, senderVars, status, hseen, ownDone, taken,
                   boundVars>>

HandlerDisables ==
    /\ handler = "handled"
    /\ IF "dma" \in status
       THEN DisableStatus("dma") /\ handler' = "complete" /\ status' = status
       ELSE handler' = "idle" /\ status' = {} /\ UNCHANGED <<refs, depth, unmasked>>
    /\ UNCHANGED <<installed, core, raised, running, done, senderVars, hseen, ownDone, taken,
                   boundVars>>

HandlerCompletes ==
    /\ handler = "complete"
    /\ handler' = "idle"
    /\ status' = {}
    /\ done' = TRUE
    /\ UNCHANGED <<lineVars, refs, regVars, running, senderVars, hseen, ownDone, taken, boundVars>>

SenderStep == Reinit \/ Kickoff \/ Completed \/ Expire \/ Look \/ ClearRead \/ ClearWrite \/ Rescue \/ GiveUp

HandlerStep ==
    \/ HandlerReads("read", "clear") \/ HandlerClears \/ HandlerSkips
    \/ HandlerReads("cleared", "mask") \/ HandlerMasks("mask", "masked")
    \/ HandlerReads("masked", "unmask") \/ HandlerMasks("unmask", "handled")
    \/ HandlerDisables \/ HandlerCompletes

Next ==
    \/ SetupIsr \/ DestroyIsr \/ CoreOn \/ CoreOff
    \/ \E len \in Lens : Collect(len) \/ \E last \in BOOLEAN : Begin(len, last)
    \/ SenderStep
    \/ \E d \in {"own", "earlier"} : DmaDone(d) \/ DmaLost(d)
    \/ Interrupt
    \/ HandlerStep

Spec == Init /\ [][Next]_vars

\* The sender is a running thread with a timeout, the handler an interrupt.
FairSpec == Spec /\ WF_vars(SenderStep) /\ WF_vars(HandlerStep)
-----------------------------------------------------------------------------
(* Properties.                                                             *)

\* The interrupt line is enabled exactly while some interrupt is in use and never
\* disabled twice, however the sender and the handler count up and down
\* (dsi_ctrl_enable_status_interrupt, dsi_ctrl_disable_status_interrupt), unless
\* the handler was removed while another user of the clocks still counted.
LineFollows ==
    installed /\ orphans = 0 => depth = IF Mask(refs) = {} THEN 1 ELSE 0

\* Every transfer gives its interrupt back exactly once, whether the handler, the
\* sender after its timeout, or both release it; a count is left over only by a
\* transfer that began while the handler was still completing an earlier one.
LeaksAreOvertakes ==
    sender = "idle" => refs["dma"] <= overtakes

\* What dsi_message_tx returns is true: success means that this transfer's DMA is
\* done, if nothing of an earlier transfer was left when it began; and a DMA that
\* is done is reported as a timeout only if the handler has cleared its bit.
ResultIsTrue ==
    [][/\ sender \in {"waiting", "cleared"} /\ sender' = "idle" /\ settled => ownDone
       /\ sender = "expired" /\ sender' = "missed" /\ ownDone => taken]_vars

\* A DMA that is done is completed, or the register still says so when no handler
\* is at work: clear_interrupt_status clears "the specified interrupts" only.
DoneIsKept ==
    sender = "waiting" /\ ownDone /\ handler = "idle" => done \/ raised

\* Every transfer returns, with a lost DMA, a lost interrupt, a handler that was
\* removed or could not be installed, or a line left disabled.
TransfersReturn == sender # "idle" ~> sender = "idle"
=============================================================================
