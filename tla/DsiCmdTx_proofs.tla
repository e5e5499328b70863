--------------------------- MODULE DsiCmdTx_proofs ---------------------------
(***************************************************************************)
(* Proofs about DsiCmdTx, for messages and a buffer of any size and any    *)
(* number of overtaken and of removed handlers.                            *)
(***************************************************************************)
EXTENDS DsiCmdTx, TLAPS

\* The types, with the counts not bounded yet.
LineTypes ==
    /\ installed \in BOOLEAN /\ core \in BOOLEAN
    /\ depth \in 0..2
    /\ refs \in [Sint -> Nat]
    /\ unmasked \in BOOLEAN /\ raised \in BOOLEAN
    /\ orphans \in 0..MaxOrphans

SenderTypes ==
    /\ cmdLen \in 0..Size /\ cmdLen % 4 = 0
    /\ sender \in {"idle", "enabled", "reset", "waiting", "expired", "found", "clearing",
                   "cleared", "missed"}
    /\ sseen \in Seen
    /\ settled \in BOOLEAN
    /\ overtakes \in 0..MaxOvertakes

HandlerTypes ==
    /\ running \subseteq {"own", "earlier"}
    /\ done \in BOOLEAN
    /\ handler \in {"idle", "read", "clear", "cleared", "mask", "masked", "unmask", "handled",
                    "complete"}
    /\ hseen \in Seen
    /\ status \subseteq Sint
    /\ ownDone \in BOOLEAN /\ taken \in BOOLEAN

Types == LineTypes /\ SenderTypes /\ HandlerTypes

\* No interrupt is in use.
NoUser == refs["dma"] = 0 /\ refs["error"] = 0

\* The line against the counts, with what removed handlers leave behind.
LineInv ==
    /\ installed => IF NoUser THEN depth \in {1, 2} ELSE depth \in {0, 1}
    /\ orphans = 0 => IF installed THEN depth = (IF NoUser THEN 1 ELSE 0) ELSE NoUser
    /\ handler # "idle" => installed

\* Who still owes a count: the transfer under way, if there is a handler and until
\* that or the sender has given it back, and every overtaken handler and every
\* removed one.
CountInv ==
    /\ refs["dma"] <= overtakes + 1
    /\ sender = "idle" \/ handler = "complete" \/ ~installed => refs["dma"] <= overtakes
    /\ sender \in {"reset", "waiting"} /\ done => refs["dma"] <= overtakes
    /\ handler = "complete" => "dma" \in status
    /\ refs["error"] <= orphans + 1
    /\ ~installed \/ ~core => refs["error"] <= orphans

\* Where a finished DMA is known: in the register, with the handler, in the
\* completion, or with the sender.
ResultInv ==
    /\ sender # "idle" /\ settled =>
          /\ running \subseteq {"own"}
          /\ raised \/ "dma" \in status => ownDone
          /\ sender \in {"reset", "waiting"} /\ done => ownDone
          /\ sender \in {"found", "clearing", "cleared"} => ownDone
    /\ sender \in {"waiting", "expired"} /\ ownDone => raised \/ taken
    /\ sender \in {"idle", "enabled", "reset"} => "own" \notin running
    /\ sender \in {"enabled", "reset"} => ~ownDone

Inv == Types /\ LineInv /\ CountInv /\ ResultInv

-----------------------------------------------------------------------------
(* The operators.                                                          *)

\* A padded message keeps the buffer aligned and inside its size.
LEMMA PaddedFits ==
    ASSUME NEW len \in Nat, NEW c \in Nat, c % 4 = 0, c + len + 4 <= Size
    PROVE  /\ c + Padded(len) \in 0..Size
           /\ (c + Padded(len)) % 4 = 0
BY SizeAssumption DEF Padded

\* The mask is empty exactly when nobody uses an interrupt.
LEMMA MaskOf ==
    ASSUME NEW r \in [Sint -> Nat]
    PROVE  /\ Mask(r) = {} <=> r["dma"] = 0 /\ r["error"] = 0
           /\ "dma" \in Mask(r) <=> r["dma"] > 0
BY DEF Mask, Sint

LEMMA EnableStatusFacts ==
    ASSUME NEW i \in Sint, Types, LineInv, installed, EnableStatus(i)
    PROVE  /\ refs' \in [Sint -> Nat]
           /\ refs'[i] = refs[i] + 1
           /\ \A j \in Sint \ {i} : refs'[j] = refs[j]
           /\ depth' = IF NoUser THEN depth - 1 ELSE depth
           /\ depth' \in 0..2
           /\ unmasked' \in BOOLEAN
<1>1. refs' = [refs EXCEPT ![i] = @ + 1]
  BY DEF EnableStatus
<1>2. Mask(refs) = {} <=> NoUser
  BY MaskOf DEF Types, LineTypes, NoUser
<1>3. depth' = IF NoUser THEN depth - 1 ELSE depth
  BY <1>2 DEF EnableStatus
<1>4. depth' \in 0..2
  BY <1>3 DEF LineInv, Types, LineTypes
<1>5. unmasked' \in BOOLEAN
  <2>1. unmasked' = (IF refs[i] = 0 THEN "dma" \in Mask(refs') ELSE unmasked)
    BY DEF EnableStatus
  <2>2. unmasked \in BOOLEAN
    BY DEF Types, LineTypes
  <2>3. CASE refs[i] = 0
    <3>1. unmasked' = ("dma" \in Mask(refs'))
      BY <2>1, <2>3, Zenon
    <3>. QED BY <3>1
  <2>4. CASE refs[i] # 0
    BY <2>1, <2>2, <2>4, Zenon
  <2>. QED BY <2>3, <2>4
<1>. QED BY <1>1, <1>3, <1>4, <1>5 DEF Types, LineTypes, Sint

LEMMA DisableStatusFacts ==
    ASSUME NEW i \in Sint, Types, LineInv, installed, DisableStatus(i)
    PROVE  /\ refs' \in [Sint -> Nat]
           /\ refs'[i] = IF refs[i] > 0 THEN refs[i] - 1 ELSE 0
           /\ \A j \in Sint \ {i} : refs'[j] = refs[j]
           /\ depth' = IF refs[i] > 0 /\ NoUser' THEN depth + 1 ELSE depth
           /\ depth' \in 0..2
           /\ unmasked' \in BOOLEAN
<1>1. CASE refs[i] > 0
  <2>1. refs' = [refs EXCEPT ![i] = @ - 1]
    BY <1>1 DEF DisableStatus
  <2>2. refs' \in [Sint -> Nat]
    BY <1>1, <2>1 DEF Types, LineTypes, Sint
  <2>3. Mask(refs') = {} <=> NoUser'
    BY <2>2, MaskOf DEF NoUser
  <2>4. depth' = IF NoUser' THEN depth + 1 ELSE depth
    BY <1>1, <2>3 DEF DisableStatus
  <2>5. ~NoUser
    BY <1>1 DEF NoUser, Sint, Types, LineTypes
  <2>6. depth' \in 0..2
    BY <2>4, <2>5 DEF LineInv, Types, LineTypes
  <2>7. unmasked' \in BOOLEAN
    <3>1. unmasked' = (IF refs[i] = 1 THEN "dma" \in Mask(refs') ELSE unmasked)
      BY <1>1 DEF DisableStatus
    <3>2. unmasked \in BOOLEAN
      BY DEF Types, LineTypes
    <3>3. CASE refs[i] = 1
      <4>1. unmasked' = ("dma" \in Mask(refs'))
        BY <3>1, <3>3, Zenon
      <4>. QED BY <4>1
    <3>4. CASE refs[i] # 1
      BY <3>1, <3>2, <3>4, Zenon
    <3>. QED BY <3>3, <3>4
  <2>. QED BY <1>1, <2>1, <2>2, <2>4, <2>6, <2>7 DEF Types, LineTypes, Sint
<1>2. CASE ~(refs[i] > 0)
  <2>1. UNCHANGED <<refs, depth, unmasked>>
    BY <1>2 DEF DisableStatus
  <2>2. refs[i] = 0
    BY <1>2 DEF Types, LineTypes
  <2>. QED BY <1>2, <2>1, <2>2 DEF Types, LineTypes
<1>. QED BY <1>1, <1>2

-----------------------------------------------------------------------------
(* The invariant.                                                          *)

LEMMA InitInv == Init => Inv
<1>. SUFFICES ASSUME Init PROVE Inv
  OBVIOUS
<1>1. LineTypes
  <2>1. refs \in [Sint -> Nat]
    BY DEF Init
  <2>2. depth \in 0..2 /\ orphans \in 0..MaxOrphans
    BY CapsAssumption DEF Init
  <2>3. installed = FALSE /\ core = FALSE /\ unmasked = FALSE /\ raised = FALSE
    BY DEF Init
  <2>. QED BY <2>1, <2>2, <2>3 DEF LineTypes
<1>2. SenderTypes
  BY SizeAssumption, CapsAssumption DEF Init, SenderTypes, Seen, Unread
<1>3. HandlerTypes
  BY DEF Init, HandlerTypes, Seen, Unread
<1>4. LineInv /\ CountInv /\ ResultInv
  BY DEF Init, LineInv, CountInv, ResultInv, NoUser, Sint
<1>. QED BY <1>1, <1>2, <1>3, <1>4 DEF Inv, Types

LEMMA SetupIsrInv == Inv /\ SetupIsr => Inv'
<1>. SUFFICES ASSUME Inv, SetupIsr PROVE Inv'
  OBVIOUS
<1>1. LineTypes'
  <2>1. installed' \in BOOLEAN /\ depth' \in 0..2
    <3>1. CASE installed' = TRUE /\ depth' = 1
      BY <3>1
    <3>2. CASE UNCHANGED <<installed, depth>>
      BY <3>2 DEF Inv, Types, LineTypes
    <3>. QED BY <3>1, <3>2 DEF SetupIsr
  <2>. QED
    BY <2>1 DEF Inv, Types, LineTypes, SetupIsr, lineVars, regVars, senderVars, handlerVars, boundVars
<1>2. SenderTypes'
  BY DEF Inv, Types, SenderTypes, SetupIsr, lineVars, regVars, senderVars, handlerVars, boundVars
<1>3. HandlerTypes'
  BY DEF Inv, Types, HandlerTypes, SetupIsr, lineVars, regVars, senderVars, handlerVars, boundVars
<1>4. LineInv'
  BY DEF Inv, Types, LineTypes, LineInv, NoUser, Sint, SetupIsr, lineVars, regVars, senderVars,
      handlerVars, boundVars
<1>5. CountInv'
  BY DEF Inv, Types, LineTypes, SenderTypes, CountInv, Sint, SetupIsr, lineVars, regVars, senderVars,
      handlerVars, boundVars
<1>6. ResultInv'
  BY DEF Inv, ResultInv, SetupIsr, lineVars, regVars, senderVars, handlerVars, boundVars
<1>. QED BY <1>1, <1>2, <1>3, <1>4, <1>5, <1>6 DEF Inv, Types

LEMMA DestroyIsrInv == Inv /\ DestroyIsr => Inv'
<1>. SUFFICES ASSUME Inv, DestroyIsr PROVE Inv'
  OBVIOUS
<1>1. orphans' = IF NoUser THEN orphans ELSE orphans + 1
  BY MaskOf DEF Inv, Types, LineTypes, NoUser, DestroyIsr
<1>2. orphans' \in 0..MaxOrphans
  BY <1>1, CapsAssumption DEF Inv, Types, LineTypes, DestroyIsr
<1>3. LineTypes'
  BY <1>2
  DEF Inv, Types, LineTypes, DestroyIsr, lineVars, regVars, senderVars, handlerVars, boundVars
<1>4. SenderTypes'
  BY DEF Inv, Types, SenderTypes, DestroyIsr, lineVars, regVars, senderVars, handlerVars, boundVars
<1>5. HandlerTypes'
  BY DEF Inv, Types, HandlerTypes, DestroyIsr, lineVars, regVars, senderVars, handlerVars, boundVars
<1>6. LineInv'
  BY <1>1
  DEF Inv, Types, LineTypes, LineInv, NoUser, Sint, DestroyIsr, lineVars, regVars, senderVars,
      handlerVars, boundVars
<1>7. CountInv'
  BY <1>1
  DEF Inv, Types, LineTypes, SenderTypes, CountInv, Sint, NoUser, DestroyIsr, lineVars, regVars,
      senderVars, handlerVars, boundVars
<1>8. ResultInv'
  BY DEF Inv, ResultInv, DestroyIsr, lineVars, regVars, senderVars, handlerVars, boundVars
<1>. QED BY <1>3, <1>4, <1>5, <1>6, <1>7, <1>8 DEF Inv, Types

LEMMA CoreOnInv == Inv /\ CoreOn => Inv'
<1>. SUFFICES ASSUME Inv, CoreOn PROVE Inv'
  OBVIOUS
<1>1. installed =>
         /\ refs' \in [Sint -> Nat]
         /\ refs'["error"] = refs["error"] + 1
         /\ refs'["dma"] = refs["dma"]
         /\ depth' = IF NoUser THEN depth - 1 ELSE depth
         /\ depth' \in 0..2
         /\ unmasked' \in BOOLEAN
  BY EnableStatusFacts DEF Inv, LineInv, CoreOn, Sint
<1>2. ~installed => UNCHANGED <<refs, depth, unmasked>>
  BY DEF CoreOn, EnableStatus
<1>3. LineTypes'
  BY <1>1, <1>2
  DEF Inv, Types, LineTypes, CoreOn, lineVars, regVars, senderVars, handlerVars, boundVars
<1>4. SenderTypes'
  BY DEF Inv, Types, SenderTypes, CoreOn, lineVars, regVars, senderVars, handlerVars, boundVars
<1>5. HandlerTypes'
  BY DEF Inv, Types, HandlerTypes, CoreOn, lineVars, regVars, senderVars, handlerVars, boundVars
<1>6. LineInv'
  BY <1>1, <1>2
  DEF Inv, Types, LineTypes, LineInv, NoUser, Sint, CoreOn, lineVars, regVars, senderVars,
      handlerVars, boundVars
<1>7. CountInv'
  BY <1>1, <1>2
  DEF Inv, Types, LineTypes, SenderTypes, CountInv, Sint, CoreOn, lineVars, regVars, senderVars,
      handlerVars, boundVars
<1>8. ResultInv'
  BY DEF Inv, ResultInv, CoreOn, lineVars, regVars, senderVars, handlerVars, boundVars
<1>. QED BY <1>3, <1>4, <1>5, <1>6, <1>7, <1>8 DEF Inv, Types

LEMMA CoreOffInv == Inv /\ CoreOff => Inv'
<1>. SUFFICES ASSUME Inv, CoreOff PROVE Inv'
  OBVIOUS
<1>1. installed =>
         /\ refs' \in [Sint -> Nat]
         /\ refs'["error"] = IF refs["error"] > 0 THEN refs["error"] - 1 ELSE 0
         /\ refs'["dma"] = refs["dma"]
         /\ depth' = IF refs["error"] > 0 /\ NoUser' THEN depth + 1 ELSE depth
         /\ depth' \in 0..2
         /\ unmasked' \in BOOLEAN
  BY DisableStatusFacts DEF Inv, LineInv, CoreOff, Sint
<1>2. ~installed => UNCHANGED <<refs, depth, unmasked>>
  BY DEF CoreOff, DisableStatus
<1>3. LineTypes'
  BY <1>1, <1>2
  DEF Inv, Types, LineTypes, CoreOff, lineVars, regVars, senderVars, handlerVars, boundVars
<1>4. SenderTypes'
  BY DEF Inv, Types, SenderTypes, CoreOff, lineVars, regVars, senderVars, handlerVars, boundVars
<1>5. HandlerTypes'
  BY DEF Inv, Types, HandlerTypes, CoreOff, lineVars, regVars, senderVars, handlerVars, boundVars
<1>6. LineInv'
  BY <1>1, <1>2
  DEF Inv, Types, LineTypes, LineInv, NoUser, Sint, CoreOff, lineVars, regVars, senderVars,
      handlerVars, boundVars
<1>7. CountInv'
  BY <1>1, <1>2
  DEF Inv, Types, LineTypes, SenderTypes, CountInv, Sint, CoreOff, lineVars, regVars, senderVars,
      handlerVars, boundVars
<1>8. ResultInv'
  BY DEF Inv, ResultInv, CoreOff, lineVars, regVars, senderVars, handlerVars, boundVars
<1>. QED BY <1>3, <1>4, <1>5, <1>6, <1>7, <1>8 DEF Inv, Types

LEMMA CollectInv ==
    ASSUME NEW len \in Lens PROVE Inv /\ Collect(len) => Inv'
<1>. SUFFICES ASSUME Inv, Collect(len) PROVE Inv'
  OBVIOUS
<1>1. cmdLen' \in 0..Size /\ cmdLen' % 4 = 0
  <2>1. len \in Nat /\ cmdLen \in Nat /\ cmdLen % 4 = 0 /\ cmdLen + len + 4 <= Size
    BY LensAssumption, SizeAssumption DEF Inv, Types, SenderTypes, Collect, Fits
  <2>. QED BY <2>1, PaddedFits DEF Collect
<1>2. LineTypes'
  BY DEF Inv, Types, LineTypes, Collect, lineVars, regVars, senderVars, handlerVars, boundVars
<1>3. SenderTypes'
  BY <1>1
  DEF Inv, Types, SenderTypes, Collect, lineVars, regVars, senderVars, handlerVars, boundVars
<1>4. HandlerTypes'
  BY DEF Inv, Types, HandlerTypes, Collect, lineVars, regVars, senderVars, handlerVars, boundVars
<1>5. LineInv'
  BY DEF Inv, Types, LineTypes, LineInv, NoUser, Sint, Collect, lineVars, regVars, senderVars,
      handlerVars, boundVars
<1>6. CountInv'
  BY DEF Inv, Types, LineTypes, SenderTypes, CountInv, Sint, Collect, lineVars, regVars, senderVars,
      handlerVars, boundVars
<1>7. ResultInv'
  BY DEF Inv, ResultInv, Collect, lineVars, regVars, senderVars, handlerVars, boundVars
<1>. QED BY <1>2, <1>3, <1>4, <1>5, <1>6, <1>7 DEF Inv, Types

LEMMA BeginInv ==
    ASSUME NEW len \in Lens, NEW last \in BOOLEAN PROVE Inv /\ Begin(len, last) => Inv'
<1>. SUFFICES ASSUME Inv, Begin(len, last) PROVE Inv'
  OBVIOUS
<1>1. installed =>
         /\ refs' \in [Sint -> Nat]
         /\ refs'["dma"] = refs["dma"] + 1
         /\ refs'["error"] = refs["error"]
         /\ depth' = IF NoUser THEN depth - 1 ELSE depth
         /\ depth' \in 0..2
         /\ unmasked' \in BOOLEAN
  BY EnableStatusFacts DEF Inv, LineInv, Begin, Sint
<1>noHandler. ~installed => UNCHANGED <<refs, depth, unmasked>>
  BY DEF Begin, EnableStatus
<1>2. settled' \in BOOLEAN
  BY DEF Begin
<1>3. settled' => running = {} /\ ~raised /\ "dma" \notin status
  BY DEF Begin
<1>4. LineTypes'
  BY <1>1, <1>noHandler DEF Inv, Types, LineTypes, Begin, lineVars, regVars, senderVars, handlerVars, boundVars
<1>5. SenderTypes'
  BY <1>2, SizeAssumption, CapsAssumption
  DEF Inv, Types, SenderTypes, Begin, lineVars, regVars, senderVars, handlerVars, boundVars
<1>6. HandlerTypes'
  BY DEF Inv, Types, HandlerTypes, Begin, lineVars, regVars, senderVars, handlerVars, boundVars
<1>7. LineInv'
  BY <1>1, <1>noHandler
  DEF Inv, Types, LineTypes, LineInv, NoUser, Sint, Begin, lineVars, regVars, senderVars,
      handlerVars, boundVars
<1>8. CountInv'
  BY <1>1, <1>noHandler
  DEF Inv, Types, LineTypes, SenderTypes, CountInv, Sint, Begin, lineVars, regVars, senderVars,
      handlerVars, boundVars
<1>9. ResultInv'
  BY <1>3
  DEF Inv, ResultInv, Types, HandlerTypes, Begin, lineVars, regVars, senderVars, handlerVars,
      boundVars
<1>. QED BY <1>4, <1>5, <1>6, <1>7, <1>8, <1>9 DEF Inv, Types

LEMMA ReinitInv == Inv /\ Reinit => Inv'
<1>. SUFFICES ASSUME Inv, Reinit PROVE Inv'
  OBVIOUS
<1>1. LineTypes'
  BY DEF Inv, Types, LineTypes, Reinit, lineVars, regVars, senderVars, handlerVars, boundVars
<1>2. SenderTypes'
  BY DEF Inv, Types, SenderTypes, Seen, Unread, Reinit, lineVars, regVars, senderVars, handlerVars,
      boundVars
<1>3. HandlerTypes'
  BY DEF Inv, Types, HandlerTypes, Reinit, lineVars, regVars, senderVars, handlerVars, boundVars
<1>4. LineInv'
  BY DEF Inv, Types, LineTypes, LineInv, NoUser, Sint, Reinit, lineVars, regVars, senderVars,
      handlerVars, boundVars
<1>5. CountInv'
  BY DEF Inv, Types, LineTypes, SenderTypes, CountInv, Sint, Reinit, lineVars, regVars, senderVars,
      handlerVars, boundVars
<1>6. ResultInv'
  BY DEF Inv, ResultInv, Types, HandlerTypes, Reinit, lineVars, regVars, senderVars, handlerVars,
      boundVars
<1>. QED BY <1>1, <1>2, <1>3, <1>4, <1>5, <1>6 DEF Inv, Types

LEMMA KickoffInv == Inv /\ Kickoff => Inv'
<1>. SUFFICES ASSUME Inv, Kickoff PROVE Inv'
  OBVIOUS
<1>1. LineTypes'
  BY DEF Inv, Types, LineTypes, Kickoff, lineVars, regVars, senderVars, handlerVars, boundVars
<1>2. SenderTypes'
  BY DEF Inv, Types, SenderTypes, Seen, Unread, Kickoff, lineVars, regVars, senderVars, handlerVars,
      boundVars
<1>3. HandlerTypes'
  BY DEF Inv, Types, HandlerTypes, Kickoff, lineVars, regVars, senderVars, handlerVars, boundVars
<1>4. LineInv'
  BY DEF Inv, Types, LineTypes, LineInv, NoUser, Sint, Kickoff, lineVars, regVars, senderVars,
      handlerVars, boundVars
<1>5. CountInv'
  BY DEF Inv, Types, LineTypes, SenderTypes, CountInv, Sint, Kickoff, lineVars, regVars, senderVars,
      handlerVars, boundVars
<1>6. ResultInv'
  BY DEF Inv, ResultInv, Types, HandlerTypes, Kickoff, lineVars, regVars, senderVars, handlerVars,
      boundVars
<1>. QED BY <1>1, <1>2, <1>3, <1>4, <1>5, <1>6 DEF Inv, Types

LEMMA CompletedInv == Inv /\ Completed => Inv'
<1>. SUFFICES ASSUME Inv, Completed PROVE Inv'
  OBVIOUS
<1>1. LineTypes'
  BY DEF Inv, Types, LineTypes, Completed, Return, lineVars, regVars, senderVars, handlerVars,
      boundVars
<1>2. SenderTypes'
  BY DEF Inv, Types, SenderTypes, Seen, Unread, Completed, Return, lineVars, regVars, senderVars,
      handlerVars, boundVars
<1>3. HandlerTypes'
  BY DEF Inv, Types, HandlerTypes, Completed, Return, lineVars, regVars, senderVars, handlerVars,
      boundVars
<1>4. LineInv'
  BY DEF Inv, Types, LineTypes, LineInv, NoUser, Sint, Completed, Return, lineVars, regVars,
      senderVars, handlerVars, boundVars
<1>5. CountInv'
  BY DEF Inv, Types, LineTypes, SenderTypes, CountInv, Sint, Completed, Return, lineVars, regVars,
      senderVars, handlerVars, boundVars
<1>6. ResultInv'
  BY DEF Inv, ResultInv, Types, HandlerTypes, Completed, Return, lineVars, regVars, senderVars,
      handlerVars, boundVars
<1>. QED BY <1>1, <1>2, <1>3, <1>4, <1>5, <1>6 DEF Inv, Types

LEMMA ExpireInv == Inv /\ Expire => Inv'
<1>. SUFFICES ASSUME Inv, Expire PROVE Inv'
  OBVIOUS
<1>1. LineTypes'
  BY DEF Inv, Types, LineTypes, Expire, lineVars, regVars, senderVars, handlerVars, boundVars
<1>2. SenderTypes'
  BY DEF Inv, Types, SenderTypes, Seen, Unread, Expire, lineVars, regVars, senderVars, handlerVars,
      boundVars
<1>3. HandlerTypes'
  BY DEF Inv, Types, HandlerTypes, Expire, lineVars, regVars, senderVars, handlerVars, boundVars
<1>4. LineInv'
  BY DEF Inv, Types, LineTypes, LineInv, NoUser, Sint, Expire, lineVars, regVars, senderVars,
      handlerVars, boundVars
<1>5. CountInv'
  BY DEF Inv, Types, LineTypes, SenderTypes, CountInv, Sint, Expire, lineVars, regVars, senderVars,
      handlerVars, boundVars
<1>6. ResultInv'
  BY DEF Inv, ResultInv, Types, HandlerTypes, Expire, lineVars, regVars, senderVars, handlerVars,
      boundVars
<1>. QED BY <1>1, <1>2, <1>3, <1>4, <1>5, <1>6 DEF Inv, Types

LEMMA LookInv == Inv /\ Look => Inv'
<1>. SUFFICES ASSUME Inv, Look PROVE Inv'
  OBVIOUS
<1>1. LineTypes'
  BY DEF Inv, Types, LineTypes, Look, lineVars, regVars, senderVars, handlerVars, boundVars
<1>2. SenderTypes'
  BY DEF Inv, Types, SenderTypes, Seen, Unread, Look, lineVars, regVars, senderVars, handlerVars,
      boundVars
<1>3. HandlerTypes'
  BY DEF Inv, Types, HandlerTypes, Look, lineVars, regVars, senderVars, handlerVars, boundVars
<1>4. LineInv'
  BY DEF Inv, Types, LineTypes, LineInv, NoUser, Sint, Look, lineVars, regVars, senderVars,
      handlerVars, boundVars
<1>5. CountInv'
  BY DEF Inv, Types, LineTypes, SenderTypes, CountInv, Sint, Look, lineVars, regVars, senderVars,
      handlerVars, boundVars
<1>6. ResultInv'
  BY DEF Inv, ResultInv, Types, HandlerTypes, Look, lineVars, regVars, senderVars, handlerVars,
      boundVars
<1>. QED BY <1>1, <1>2, <1>3, <1>4, <1>5, <1>6 DEF Inv, Types

LEMMA ClearReadInv == Inv /\ ClearRead => Inv'
<1>. SUFFICES ASSUME Inv, ClearRead PROVE Inv'
  OBVIOUS
<1>1. LineTypes'
  BY DEF Inv, Types, LineTypes, ClearRead, lineVars, regVars, senderVars, handlerVars, boundVars
<1>2. SenderTypes'
  BY DEF Inv, Types, LineTypes, SenderTypes, Seen, Unread, ClearRead, lineVars, regVars, senderVars,
      handlerVars, boundVars
<1>3. HandlerTypes'
  BY DEF Inv, Types, HandlerTypes, ClearRead, lineVars, regVars, senderVars, handlerVars, boundVars
<1>4. LineInv'
  BY DEF Inv, Types, LineTypes, LineInv, NoUser, Sint, ClearRead, lineVars, regVars, senderVars,
      handlerVars, boundVars
<1>5. CountInv'
  BY DEF Inv, Types, LineTypes, SenderTypes, CountInv, Sint, ClearRead, lineVars, regVars,
      senderVars, handlerVars, boundVars
<1>6. ResultInv'
  BY DEF Inv, ResultInv, Types, HandlerTypes, ClearRead, lineVars, regVars, senderVars, handlerVars,
      boundVars
<1>. QED BY <1>1, <1>2, <1>3, <1>4, <1>5, <1>6 DEF Inv, Types

LEMMA ClearWriteInv == Inv /\ ClearWrite => Inv'
<1>. SUFFICES ASSUME Inv, ClearWrite PROVE Inv'
  OBVIOUS
<1>1. LineTypes'
  BY DEF Inv, Types, LineTypes, SenderTypes, Seen, ClearWrite, lineVars, regVars, senderVars,
      handlerVars, boundVars
<1>2. SenderTypes'
  BY DEF Inv, Types, SenderTypes, Seen, Unread, ClearWrite, lineVars, regVars, senderVars,
      handlerVars, boundVars
<1>3. HandlerTypes'
  BY DEF Inv, Types, HandlerTypes, ClearWrite, lineVars, regVars, senderVars, handlerVars, boundVars
<1>4. LineInv'
  BY DEF Inv, Types, LineTypes, LineInv, NoUser, Sint, ClearWrite, lineVars, regVars, senderVars,
      handlerVars, boundVars
<1>5. CountInv'
  BY DEF Inv, Types, LineTypes, SenderTypes, CountInv, Sint, ClearWrite, lineVars, regVars,
      senderVars, handlerVars, boundVars
<1>6. ResultInv'
  BY DEF Inv, ResultInv, Types, HandlerTypes, ClearWrite, lineVars, regVars, senderVars, handlerVars,
      boundVars
<1>. QED BY <1>1, <1>2, <1>3, <1>4, <1>5, <1>6 DEF Inv, Types

LEMMA RescueInv == Inv /\ Rescue => Inv'
<1>. SUFFICES ASSUME Inv, Rescue PROVE Inv'
  OBVIOUS
<1>1. installed =>
         /\ refs' \in [Sint -> Nat]
         /\ refs'["dma"] = IF refs["dma"] > 0 THEN refs["dma"] - 1 ELSE 0
         /\ refs'["error"] = refs["error"]
         /\ depth' = IF refs["dma"] > 0 /\ NoUser' THEN depth + 1 ELSE depth
         /\ depth' \in 0..2
         /\ unmasked' \in BOOLEAN
  BY DisableStatusFacts DEF Inv, LineInv, Rescue, Sint
<1>noHandler. ~installed => UNCHANGED <<refs, depth, unmasked>>
  BY DEF Rescue, DisableStatus
<1>2. LineTypes'
  BY <1>1, <1>noHandler
  DEF Inv, Types, LineTypes, Return, Rescue, lineVars, regVars, senderVars, handlerVars, boundVars
<1>3. SenderTypes'
  BY DEF Inv, Types, SenderTypes, Return, Rescue, lineVars, regVars, senderVars, handlerVars, boundVars
<1>4. HandlerTypes'
  BY DEF Inv, Types, HandlerTypes, Return, Rescue, lineVars, regVars, senderVars, handlerVars,
      boundVars
<1>5. LineInv'
  BY <1>1, <1>noHandler
  DEF Inv, Types, LineTypes, LineInv, NoUser, Sint, Return, Rescue, lineVars, regVars, senderVars,
      handlerVars, boundVars
<1>6. CountInv'
  BY <1>1, <1>noHandler
  DEF Inv, Types, LineTypes, SenderTypes, CountInv, Sint, Return, Rescue, lineVars, regVars,
      senderVars, handlerVars, boundVars
<1>7. ResultInv'
  BY DEF Inv, ResultInv, Types, HandlerTypes, Return, Rescue, lineVars, regVars, senderVars,
      handlerVars, boundVars
<1>. QED BY <1>2, <1>3, <1>4, <1>5, <1>6, <1>7 DEF Inv, Types

LEMMA GiveUpInv == Inv /\ GiveUp => Inv'
<1>. SUFFICES ASSUME Inv, GiveUp PROVE Inv'
  OBVIOUS
<1>1. installed =>
         /\ refs' \in [Sint -> Nat]
         /\ refs'["dma"] = IF refs["dma"] > 0 THEN refs["dma"] - 1 ELSE 0
         /\ refs'["error"] = refs["error"]
         /\ depth' = IF refs["dma"] > 0 /\ NoUser' THEN depth + 1 ELSE depth
         /\ depth' \in 0..2
         /\ unmasked' \in BOOLEAN
  BY DisableStatusFacts DEF Inv, LineInv, GiveUp, Sint
<1>noHandler. ~installed => UNCHANGED <<refs, depth, unmasked>>
  BY DEF GiveUp, DisableStatus
<1>2. LineTypes'
  BY <1>1, <1>noHandler
  DEF Inv, Types, LineTypes, Return, GiveUp, lineVars, regVars, senderVars, handlerVars, boundVars
<1>3. SenderTypes'
  BY DEF Inv, Types, SenderTypes, Return, GiveUp, lineVars, regVars, senderVars, handlerVars, boundVars
<1>4. HandlerTypes'
  BY DEF Inv, Types, HandlerTypes, Return, GiveUp, lineVars, regVars, senderVars, handlerVars,
      boundVars
<1>5. LineInv'
  BY <1>1, <1>noHandler
  DEF Inv, Types, LineTypes, LineInv, NoUser, Sint, Return, GiveUp, lineVars, regVars, senderVars,
      handlerVars, boundVars
<1>6. CountInv'
  BY <1>1, <1>noHandler
  DEF Inv, Types, LineTypes, SenderTypes, CountInv, Sint, Return, GiveUp, lineVars, regVars,
      senderVars, handlerVars, boundVars
<1>7. ResultInv'
  BY DEF Inv, ResultInv, Types, HandlerTypes, Return, GiveUp, lineVars, regVars, senderVars,
      handlerVars, boundVars
<1>. QED BY <1>2, <1>3, <1>4, <1>5, <1>6, <1>7 DEF Inv, Types

LEMMA DmaDoneInv ==
    ASSUME NEW d \in {"own", "earlier"} PROVE Inv /\ DmaDone(d) => Inv'
<1>. SUFFICES ASSUME Inv, DmaDone(d) PROVE Inv'
  OBVIOUS
<1>1. LineTypes'
  BY DEF Inv, Types, LineTypes, DmaDone, lineVars, regVars, senderVars, handlerVars, boundVars
<1>2. SenderTypes'
  BY DEF Inv, Types, SenderTypes, DmaDone, lineVars, regVars, senderVars, handlerVars, boundVars
<1>3. HandlerTypes'
  BY DEF Inv, Types, HandlerTypes, DmaDone, lineVars, regVars, senderVars, handlerVars, boundVars
<1>4. LineInv'
  BY DEF Inv, Types, LineTypes, LineInv, NoUser, Sint, DmaDone, lineVars, regVars, senderVars,
      handlerVars, boundVars
<1>5. CountInv'
  BY DEF Inv, Types, LineTypes, SenderTypes, CountInv, Sint, DmaDone, lineVars, regVars, senderVars,
      handlerVars, boundVars
<1>6. ResultInv'
  BY DEF Inv, ResultInv, Types, HandlerTypes, DmaDone, lineVars, regVars, senderVars, handlerVars,
      boundVars
<1>. QED BY <1>1, <1>2, <1>3, <1>4, <1>5, <1>6 DEF Inv, Types

LEMMA DmaLostInv ==
    ASSUME NEW d \in {"own", "earlier"} PROVE Inv /\ DmaLost(d) => Inv'
<1>. SUFFICES ASSUME Inv, DmaLost(d) PROVE Inv'
  OBVIOUS
<1>1. LineTypes'
  BY DEF Inv, Types, LineTypes, DmaLost, lineVars, regVars, senderVars, handlerVars, boundVars
<1>2. SenderTypes'
  BY DEF Inv, Types, SenderTypes, DmaLost, lineVars, regVars, senderVars, handlerVars, boundVars
<1>3. HandlerTypes'
  BY DEF Inv, Types, HandlerTypes, DmaLost, lineVars, regVars, senderVars, handlerVars, boundVars
<1>4. LineInv'
  BY DEF Inv, Types, LineTypes, LineInv, NoUser, Sint, DmaLost, lineVars, regVars, senderVars,
      handlerVars, boundVars
<1>5. CountInv'
  BY DEF Inv, Types, LineTypes, SenderTypes, CountInv, Sint, DmaLost, lineVars, regVars, senderVars,
      handlerVars, boundVars
<1>6. ResultInv'
  BY DEF Inv, ResultInv, Types, HandlerTypes, DmaLost, lineVars, regVars, senderVars, handlerVars,
      boundVars
<1>. QED BY <1>1, <1>2, <1>3, <1>4, <1>5, <1>6 DEF Inv, Types

LEMMA InterruptInv == Inv /\ Interrupt => Inv'
<1>. SUFFICES ASSUME Inv, Interrupt PROVE Inv'
  OBVIOUS
<1>1. LineTypes'
  BY DEF Inv, Types, LineTypes, Interrupt, lineVars, regVars, senderVars, handlerVars, boundVars
<1>2. SenderTypes'
  BY DEF Inv, Types, SenderTypes, Interrupt, lineVars, regVars, senderVars, handlerVars, boundVars
<1>3. HandlerTypes'
  BY DEF Inv, Types, HandlerTypes, Sint, Interrupt, lineVars, regVars, senderVars, handlerVars,
      boundVars
<1>4. LineInv'
  BY DEF Inv, Types, LineTypes, LineInv, NoUser, Sint, Interrupt, lineVars, regVars, senderVars,
      handlerVars, boundVars
<1>5. CountInv'
  BY DEF Inv, Types, LineTypes, SenderTypes, CountInv, Sint, Interrupt, lineVars, regVars,
      senderVars, handlerVars, boundVars
<1>6. ResultInv'
  BY DEF Inv, ResultInv, Sint, Interrupt, lineVars, regVars, senderVars, handlerVars, boundVars
<1>. QED BY <1>1, <1>2, <1>3, <1>4, <1>5, <1>6 DEF Inv, Types

LEMMA HandlerReadsInv ==
    ASSUME NEW from, NEW to, to \in {"clear", "mask", "unmask"}, from # "idle" PROVE Inv /\ HandlerReads(from, to) => Inv'
<1>. SUFFICES ASSUME Inv, HandlerReads(from, to) PROVE Inv'
  OBVIOUS
<1>1. LineTypes'
  BY DEF Inv, Types, LineTypes, HandlerReads, lineVars, regVars, senderVars, handlerVars, boundVars
<1>2. SenderTypes'
  BY DEF Inv, Types, SenderTypes, HandlerReads, lineVars, regVars, senderVars, handlerVars, boundVars
<1>3. HandlerTypes'
  BY DEF Inv, Types, LineTypes, HandlerTypes, Seen, HandlerReads, lineVars, regVars, senderVars,
      handlerVars, boundVars
<1>4. LineInv'
  BY DEF Inv, Types, LineTypes, LineInv, NoUser, Sint, HandlerReads, lineVars, regVars, senderVars,
      handlerVars, boundVars
<1>5. CountInv'
  BY DEF Inv, Types, LineTypes, SenderTypes, CountInv, Sint, HandlerReads, lineVars, regVars,
      senderVars, handlerVars, boundVars
<1>6. ResultInv'
  BY DEF Inv, ResultInv, HandlerReads, lineVars, regVars, senderVars, handlerVars, boundVars
<1>. QED BY <1>1, <1>2, <1>3, <1>4, <1>5, <1>6 DEF Inv, Types

LEMMA HandlerClearsInv == Inv /\ HandlerClears => Inv'
<1>. SUFFICES ASSUME Inv, HandlerClears PROVE Inv'
  OBVIOUS
<1>1. LineTypes'
  BY DEF Inv, Types, LineTypes, Types, HandlerTypes, Seen, HandlerClears, lineVars, regVars,
      senderVars, handlerVars, boundVars
<1>2. SenderTypes'
  BY DEF Inv, Types, SenderTypes, HandlerClears, lineVars, regVars, senderVars, handlerVars, boundVars
<1>3. HandlerTypes'
  BY DEF Inv, Types, HandlerTypes, Seen, Unread, HandlerClears, lineVars, regVars, senderVars,
      handlerVars, boundVars
<1>4. LineInv'
  BY DEF Inv, Types, LineTypes, LineInv, NoUser, Sint, HandlerClears, lineVars, regVars, senderVars,
      handlerVars, boundVars
<1>5. CountInv'
  BY DEF Inv, Types, LineTypes, SenderTypes, CountInv, Sint, HandlerClears, lineVars, regVars,
      senderVars, handlerVars, boundVars
<1>6. ResultInv'
  BY DEF Inv, ResultInv, HandlerClears, lineVars, regVars, senderVars, handlerVars, boundVars
<1>. QED BY <1>1, <1>2, <1>3, <1>4, <1>5, <1>6 DEF Inv, Types

LEMMA HandlerMasksInv ==
    ASSUME NEW from, NEW to, to \in {"masked", "handled"}, from # "idle" PROVE Inv /\ HandlerMasks(from, to) => Inv'
<1>. SUFFICES ASSUME Inv, HandlerMasks(from, to) PROVE Inv'
  OBVIOUS
<1>1. LineTypes'
  BY DEF Inv, Types, LineTypes, Types, HandlerTypes, Seen, HandlerMasks, lineVars, regVars,
      senderVars, handlerVars, boundVars
<1>2. SenderTypes'
  BY DEF Inv, Types, SenderTypes, HandlerMasks, lineVars, regVars, senderVars, handlerVars, boundVars
<1>3. HandlerTypes'
  BY DEF Inv, Types, HandlerTypes, Seen, Unread, HandlerMasks, lineVars, regVars, senderVars,
      handlerVars, boundVars
<1>4. LineInv'
  BY DEF Inv, Types, LineTypes, LineInv, NoUser, Sint, HandlerMasks, lineVars, regVars, senderVars,
      handlerVars, boundVars
<1>5. CountInv'
  BY DEF Inv, Types, LineTypes, SenderTypes, CountInv, Sint, HandlerMasks, lineVars, regVars,
      senderVars, handlerVars, boundVars
<1>6. ResultInv'
  BY DEF Inv, ResultInv, HandlerMasks, lineVars, regVars, senderVars, handlerVars, boundVars
<1>. QED BY <1>1, <1>2, <1>3, <1>4, <1>5, <1>6 DEF Inv, Types

LEMMA HandlerSkipsInv == Inv /\ HandlerSkips => Inv'
<1>. SUFFICES ASSUME Inv, HandlerSkips PROVE Inv'
  OBVIOUS
<1>1. LineTypes'
  BY DEF Inv, Types, LineTypes, HandlerSkips, lineVars, regVars, senderVars, handlerVars, boundVars
<1>2. SenderTypes'
  BY DEF Inv, Types, SenderTypes, HandlerSkips, lineVars, regVars, senderVars, handlerVars, boundVars
<1>3. HandlerTypes'
  BY DEF Inv, Types, HandlerTypes, HandlerSkips, lineVars, regVars, senderVars, handlerVars, boundVars
<1>4. LineInv'
  BY DEF Inv, Types, LineTypes, LineInv, NoUser, Sint, HandlerSkips, lineVars, regVars, senderVars,
      handlerVars, boundVars
<1>5. CountInv'
  BY DEF Inv, Types, LineTypes, SenderTypes, CountInv, Sint, HandlerSkips, lineVars, regVars,
      senderVars, handlerVars, boundVars
<1>6. ResultInv'
  BY DEF Inv, ResultInv, HandlerSkips, lineVars, regVars, senderVars, handlerVars, boundVars
<1>. QED BY <1>1, <1>2, <1>3, <1>4, <1>5, <1>6 DEF Inv, Types

LEMMA HandlerDisablesInv == Inv /\ HandlerDisables => Inv'
<1>. SUFFICES ASSUME Inv, HandlerDisables PROVE Inv'
  OBVIOUS
<1>1. "dma" \in status =>
         /\ refs' \in [Sint -> Nat]
         /\ refs'["dma"] = IF refs["dma"] > 0 THEN refs["dma"] - 1 ELSE 0
         /\ refs'["error"] = refs["error"]
         /\ depth' = IF refs["dma"] > 0 /\ NoUser' THEN depth + 1 ELSE depth
         /\ depth' \in 0..2
         /\ unmasked' \in BOOLEAN
  BY DisableStatusFacts DEF Inv, LineInv, HandlerDisables, Sint
<1>2. "dma" \in status => handler' = "complete" /\ status' = status
  BY DEF HandlerDisables
<1>3. "dma" \notin status =>
         handler' = "idle" /\ status' = {} /\ UNCHANGED <<refs, depth, unmasked>>
  BY DEF HandlerDisables
<1>4. /\ handler = "handled"
      /\ UNCHANGED <<installed, core, raised, running, done, senderVars, hseen, ownDone, taken,
                     boundVars>>
  BY DEF HandlerDisables
<1>. USE DEF senderVars, boundVars
<1>5. LineTypes'
  BY <1>1, <1>3, <1>4 DEF Inv, Types, LineTypes
<1>6. SenderTypes'
  BY <1>4 DEF Inv, Types, SenderTypes
<1>7. HandlerTypes'
  BY <1>2, <1>3, <1>4 DEF Inv, Types, HandlerTypes
<1>8. LineInv'
  BY <1>1, <1>3, <1>4 DEF Inv, Types, LineTypes, LineInv, NoUser, Sint
<1>9. CountInv'
  BY <1>1, <1>2, <1>3, <1>4 DEF Inv, Types, LineTypes, SenderTypes, CountInv, Sint
<1>10. ResultInv'
  <2>1. "dma" \in status' => "dma" \in status
    BY <1>2, <1>3
  <2>2. /\ sender' = sender /\ settled' = settled /\ running' = running /\ raised' = raised
        /\ ownDone' = ownDone /\ taken' = taken /\ done' = done
    BY <1>4
  <2>. QED BY <2>1, <2>2 DEF Inv, ResultInv
<1>. QED BY <1>5, <1>6, <1>7, <1>8, <1>9, <1>10 DEF Inv, Types

LEMMA HandlerCompletesInv == Inv /\ HandlerCompletes => Inv'
<1>. SUFFICES ASSUME Inv, HandlerCompletes PROVE Inv'
  OBVIOUS
<1>1. LineTypes'
  BY DEF Inv, Types, LineTypes, HandlerCompletes, lineVars, regVars, senderVars, handlerVars, boundVars
<1>2. SenderTypes'
  BY DEF Inv, Types, SenderTypes, HandlerCompletes, lineVars, regVars, senderVars, handlerVars,
      boundVars
<1>3. HandlerTypes'
  BY DEF Inv, Types, HandlerTypes, HandlerCompletes, lineVars, regVars, senderVars, handlerVars,
      boundVars
<1>4. LineInv'
  BY DEF Inv, Types, LineTypes, LineInv, NoUser, Sint, HandlerCompletes, lineVars, regVars,
      senderVars, handlerVars, boundVars
<1>5. CountInv'
  BY DEF Inv, Types, LineTypes, SenderTypes, CountInv, Sint, HandlerCompletes, lineVars, regVars,
      senderVars, handlerVars, boundVars
<1>6. ResultInv'
  BY DEF Inv, CountInv, ResultInv, HandlerCompletes, lineVars, regVars, senderVars, handlerVars,
      boundVars
<1>. QED BY <1>1, <1>2, <1>3, <1>4, <1>5, <1>6 DEF Inv, Types

-----------------------------------------------------------------------------
(* The theorems.                                                           *)

LEMMA NextInv == Inv /\ [Next]_vars => Inv'
<1>. SUFFICES ASSUME Inv, [Next]_vars PROVE Inv'
  OBVIOUS
<1>1. CASE SetupIsr \/ DestroyIsr \/ CoreOn \/ CoreOff
  BY <1>1, SetupIsrInv, DestroyIsrInv, CoreOnInv, CoreOffInv
<1>2. CASE \E len \in Lens : Collect(len) \/ \E last \in BOOLEAN : Begin(len, last)
  BY <1>2, CollectInv, BeginInv
<1>3. CASE SenderStep
  BY <1>3, ReinitInv, KickoffInv, CompletedInv, ExpireInv, LookInv, ClearReadInv, ClearWriteInv,
     RescueInv, GiveUpInv DEF SenderStep
<1>4. CASE \E d \in {"own", "earlier"} : DmaDone(d) \/ DmaLost(d)
  BY <1>4, DmaDoneInv, DmaLostInv
<1>5. CASE Interrupt
  BY <1>5, InterruptInv
<1>6. CASE HandlerStep
  BY <1>6, HandlerReadsInv, HandlerClearsInv, HandlerSkipsInv, HandlerMasksInv, HandlerDisablesInv,
     HandlerCompletesInv DEF HandlerStep
<1>7. CASE UNCHANGED vars
  <2>. USE <1>7 DEF vars
  <2>1. Types'
    <3>1. LineTypes'
      BY DEF Inv, Types, LineTypes
    <3>2. SenderTypes'
      BY DEF Inv, Types, SenderTypes
    <3>3. HandlerTypes'
      BY DEF Inv, Types, HandlerTypes
    <3>. QED BY <3>1, <3>2, <3>3 DEF Types
  <2>2. LineInv' /\ CountInv' /\ ResultInv'
    BY DEF Inv, LineInv, NoUser, CountInv, ResultInv
  <2>. QED BY <2>1, <2>2 DEF Inv
<1>. QED BY <1>1, <1>2, <1>3, <1>4, <1>5, <1>6, <1>7 DEF Next

LEMMA Invariance == Spec => []Inv
<1>. QED BY InitInv, NextInv, PTL DEF Spec

\* Every variable keeps its type, for messages and buffers of any size: what is
\* collected never passes the end of the command buffer (dsi_message_tx), and the
\* counts stay below what overtaken and removed handlers explain.
THEOREM TypeCorrect == Spec => []TypeOK
<1>1. Inv => TypeOK
  <2>. SUFFICES ASSUME Inv PROVE TypeOK
    OBVIOUS
  <2>1. refs \in [Sint -> 0..RefMax]
    <3>1. refs \in [Sint -> Nat] /\ refs["dma"] <= RefMax /\ refs["error"] <= RefMax
      BY CapsAssumption DEF Inv, Types, LineTypes, SenderTypes, CountInv, Sint, RefMax
    <3>2. \A i \in Sint : refs[i] \in 0..RefMax
      BY <3>1, CapsAssumption DEF Sint, RefMax
    <3>. QED BY <3>1, <3>2
  <2>. QED BY <2>1 DEF Inv, Types, LineTypes, SenderTypes, HandlerTypes, TypeOK
<1>. QED BY <1>1, Invariance, PTL

\* The interrupt line is enabled exactly while an interrupt is in use
\* (dsi_ctrl_enable_status_interrupt, dsi_ctrl_disable_status_interrupt).
THEOREM LineAlwaysFollows == Spec => []LineFollows
<1>1. Inv => LineFollows
  BY MaskOf DEF Inv, Types, LineTypes, LineInv, NoUser, LineFollows
<1>. QED BY <1>1, Invariance, PTL

\* A transfer leaves its interrupt's count behind only if it overtook the handler
\* of an earlier one (dsi_message_tx against dsi_ctrl_isr).
THEOREM CountsComeBack == Spec => []LeaksAreOvertakes
<1>1. Inv => LeaksAreOvertakes
  BY DEF Inv, CountInv, LeaksAreOvertakes
<1>. QED BY <1>1, Invariance, PTL

\* The result of a transfer is true (dsi_message_tx): of every transfer that begins
\* when nothing of an earlier one is left, and of every timeout unless the handler
\* has cleared the bit the sender looks for.
THEOREM ResultsAreTrue == Spec => ResultIsTrue
<1>1. Inv /\ [Next]_vars =>
        [/\ sender \in {"waiting", "cleared"} /\ sender' = "idle" /\ settled => ownDone
         /\ sender = "expired" /\ sender' = "missed" /\ ownDone => taken]_vars
  <2>. SUFFICES ASSUME Inv, [Next]_vars
                PROVE  /\ sender \in {"waiting", "cleared"} /\ sender' = "idle" /\ settled => ownDone
                       /\ sender = "expired" /\ sender' = "missed" /\ ownDone => taken
    OBVIOUS
  <2>1. CASE sender = "waiting" /\ sender' = "idle"
    <3>1. done
      BY <2>1 DEF Next, vars, SenderStep, HandlerStep, SetupIsr, DestroyIsr, CoreOn, CoreOff, Collect,
         Begin, Reinit, Kickoff, Completed, Expire, Look, ClearRead, ClearWrite, Rescue, GiveUp,
         DmaDone, DmaLost, Interrupt, HandlerReads, HandlerClears, HandlerMasks, HandlerSkips,
         HandlerDisables, HandlerCompletes, senderVars
    <3>. QED BY <2>1, <3>1 DEF Inv, ResultInv
  <2>2. CASE sender = "cleared"
    BY <2>2 DEF Inv, ResultInv
  <2>3. CASE sender = "expired" /\ sender' = "missed"
    <3>1. ~raised
      BY <2>3 DEF Next, vars, SenderStep, HandlerStep, SetupIsr, DestroyIsr, CoreOn, CoreOff, Collect,
         Begin, Reinit, Kickoff, Completed, Expire, Look, ClearRead, ClearWrite, Rescue, GiveUp,
         DmaDone, DmaLost, Interrupt, HandlerReads, HandlerClears, HandlerMasks, HandlerSkips,
         HandlerDisables, HandlerCompletes, senderVars
    <3>. QED BY <2>3, <3>1 DEF Inv, ResultInv
  <2>. QED BY <2>1, <2>2, <2>3
<1>. QED BY <1>1, Invariance, PTL DEF Spec, ResultIsTrue
=============================================================================
