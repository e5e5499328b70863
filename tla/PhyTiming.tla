------------------------------ MODULE PhyTiming ------------------------------
(***************************************************************************)
(* The D-PHY and C-PHY lane timings the driver computes for a bit clock    *)
(* (dsi_phy_timing_calc.c and its three versions), when a panel gives none *)
(* or its clock changes: one parameter after the other, each from those    *)
(* before it, each refused when its register cannot hold it.               *)
(*                                                                         *)
(* Times are in thousandths of a bit, that is in ns * Mbit/s: the unit in  *)
(* which the code's divisions are between integers.  Its fixed-point       *)
(* fractions (20 bits) are exact fractions here; where it adds the         *)
(* remainder of a division a second time, so does the model.  The debug    *)
(* output, the minima and maxima computed only for it, and the lane        *)
(* registers' constant entries are left out.                               *)
(***************************************************************************)
EXTENDS Integers, Sequences

CONSTANTS Version,      \* the PHY versions: 2, 3 and 4
          BitClk        \* the bit clocks asked for, in Mbit/s

ASSUME VersionAssumption == Version \subseteq {2, 3, 4}

\* The range of a D-PHY.  The code checks none: its caller derives the clock from
\* the panel's mode.  A clock of 0 would divide by zero.
ASSUME BitClkAssumption == BitClk \subseteq 1..2500

DphyOrder == <<"clk_prepare", "clk_zero", "clk_trail", "hs_prepare", "hs_zero",
               "hs_trail", "hs_rqst", "hs_exit", "hs_rqst_clk", "clk_post",
               "clk_pre">>
CphyOrder == <<"clk_prepare", "clk_pre", "clk_post", "hs_rqst", "hs_exit">>
Entry == {DphyOrder[i] : i \in DOMAIN DphyOrder}

VARIABLES version, cphy, bitclk,
          todo,         \* the entries still to compute, in order
          desc,         \* the register values computed so far
          timing,       \* what update_timing_params handed to the lanes
          rc            \* "busy" until the call returns "ok" or "EINVAL"

vars == <<version, cphy, bitclk, todo, desc, timing, rc>>

------------------------------------------------------------------------------
(* Arithmetic.                                                             *)

Ns(n) == n * bitclk
Bits(n) == 1000 * n
Unit == IF cphy THEN Bits(7) ELSE Bits(8)       \* what a register counts

Ceil(x, d) == -((-x) \div d)

\* Unsigned 32-bit arithmetic turns what would be negative into a number no
\* register holds.
TooWide == 2^20
DivRoundUp(x, d) == IF x + d - 1 < 0 THEN TooWide ELSE (x + d - 1) \div d

\* The share buf (in percent) of the way from lo to hi.
Share(lo, hi, buf) == IF (hi - lo) * buf < 0 THEN TooWide
                                             ELSE Ceil((hi - lo) * buf, 100)
Weighted(lo, hi, buf) == DivRoundUp((hi - lo) * buf + lo * 100, 100)

\* Time n ns plus k bits, the division's remainder added once more.
Twice(n, k) == Ns(n) + Bits(k) + (Bits(k) % bitclk)

------------------------------------------------------------------------------
(* What differs between the versions; 4 computes as 3 does.                *)

\* The margins, in percent.
V2Buffer(e) ==
  CASE e \in {"clk_prepare", "hs_prepare"} -> 50
    [] e \in {"clk_trail", "hs_trail"} -> 30
    [] e \in {"hs_zero", "hs_exit"} -> 10
    [] e = "clk_zero" -> 2
    [] OTHER -> 0

V3Buffer(e) ==
  CASE cphy /\ e = "clk_prepare" -> 50
    [] cphy /\ e \in {"clk_pre", "clk_post", "hs_exit"} -> 10
    [] OTHER -> 0

Buffer(e) == CASE version = 2 -> V2Buffer(e)
               [] version = 3 -> V3Buffer(e)
               [] version = 4 -> 0

\* The register value that covers the time x, or that stays within it.
V2ClkZero(x) == Ceil(x - Bits(11), Bits(8)) - 3
V3ClkZero(x) == Ceil(x - Bits(1), Bits(8)) - 1
V2ClkTrailMin(x) == Ceil(x + Bits(3), Bits(8))
V3ClkTrailMin(x) == Ceil(x, Bits(8)) - 1
V2ClkTrailMax(x) == (x + Bits(3)) \div Bits(8)
V3ClkTrailMax(x) == x \div Bits(8) - 1
V2HsZero(x) == Ceil(x - Bits(11), Bits(8)) - 3
V3HsZero(x) == Ceil(x, Bits(8)) - 1
V2HsTrail(min, max) == <<DivRoundUp(min + Bits(3), Bits(8)),
                         DivRoundUp(max + Bits(3), Bits(8))>>
V3HsTrail(min, max) == <<DivRoundUp(min, Bits(8)) - 1, max \div Bits(8) - 1>>

ClkZeroMin(x) == IF version = 2 THEN V2ClkZero(x) ELSE V3ClkZero(x)
ClkTrailMin(x) == IF version = 2 THEN V2ClkTrailMin(x) ELSE V3ClkTrailMin(x)
ClkTrailMax(x) == IF version = 2 THEN V2ClkTrailMax(x) ELSE V3ClkTrailMax(x)
HsZeroMin(x) == IF version = 2 THEN V2HsZero(x) ELSE V3HsZero(x)
HsTrailLimits(min, max) == IF version = 2 THEN V2HsTrail(min, max)
                                          ELSE V3HsTrail(min, max)

\* The entries the lane registers take.  Only version 3 looks at cphy, and none
\* hands on the clk_pre and clk_post of a D-PHY.
DphyLaid == {"hs_exit", "clk_zero", "hs_zero", "clk_prepare", "hs_prepare",
             "clk_trail", "hs_trail", "hs_rqst"}
V2Laid == DphyLaid \cup {"hs_rqst_clk"}
V3Laid == IF cphy THEN {"hs_exit", "clk_pre", "clk_prepare", "clk_post", "hs_rqst"}
                  ELSE DphyLaid
Laid == CASE version = 2 -> V2Laid [] version = 3 -> V3Laid [] version = 4 -> DphyLaid

------------------------------------------------------------------------------
(* The entries.                                                            *)

\* Mutated: the maximum a unit down, as the trails' are.
ClkPrepare_MaxUnitDown ==
  LET lo == DivRoundUp(Ns(38), Unit)
      hi == Ns(95) \div Unit - 1
  IN lo + Share(lo, hi, Buffer("clk_prepare"))

ClkPrepare ==
  LET lo == DivRoundUp(Ns(38), Unit)
      hi == Ns(95) \div Unit
  IN lo + Share(lo, hi, Buffer("clk_prepare"))

ZeroMax(lo) == IF lo > 255 THEN 511 ELSE 255

\* Mutated: as if prepare took the longest time it may.
ClkZero_LongestPrepare ==
  LET lo == ClkZeroMin(Ns(300) - Ns(95))
  IN Weighted(lo, ZeroMax(lo), Buffer("clk_zero"))

\* A zero phase fills what its prepare phase left of the minimum.
ClkZero ==
  LET lo == ClkZeroMin(Ns(300) - Bits(8) * desc["clk_prepare"])
  IN Weighted(lo, ZeroMax(lo), Buffer("clk_zero"))

ClkTrail ==
  LET lo == ClkTrailMin(Ns(60) + (Ns(60) % 1000))
      hi == ClkTrailMax(Twice(105, 12) - Ns(20))
  IN Weighted(lo, hi, Buffer("clk_trail"))

LowClock == IF bitclk <= 120 THEN Bits(2) ELSE 0

HsPrepare ==
  LET min == Twice(40, 4) - LowClock
      lo == Ceil(min + (min % 1000), Bits(8))
      hi == (Ns(85) + Bits(6) - LowClock) \div Bits(8)
  IN lo + Share(lo, hi, Buffer("hs_prepare"))

HsZero ==
  LET lo == HsZeroMin(Ns(145) + Bits(10) - Bits(8) * desc["hs_prepare"])
  IN Weighted(lo, ZeroMax(lo), Buffer("hs_zero"))

\* The limits are whole nanoseconds here.
HsTrail ==
  LET limits == HsTrailLimits(Ns(60 + 4000 \div bitclk),
                              Ns(Twice(105, 12) \div bitclk - 20))
      lo == limits[1]
      hi == limits[2]
  IN lo + DivRoundUp((hi - lo) * Buffer("hs_trail"), 100)

HsRqst == DivRoundUp(Ns(50) - Unit, Unit)

HsExit ==
  LET lo == DivRoundUp(Ns(100), Unit) - 1
  IN Weighted(lo, 255, Buffer("hs_exit"))

\* cal_clk_pulse_time: k bits plus n ns, in whole nanoseconds.
PulseTime(k, n) == Twice(n, k) \div bitclk

\* The buffers of the next two are divided by 100 first, and all are below.
DphyClkPost ==
  (PulseTime(8 * (desc["hs_trail"] + 1), 0) + PulseTime(52, 60))
      \div PulseTime(16, 0) - 1

DphyClkPre ==
  (52 + PulseTime(8 * desc["clk_prepare"], 0)
      + PulseTime(8 * (desc["clk_zero"] + 1), 0) + 54) \div PulseTime(16, 0) - 1

\* Between 7 bits and max bits, rounded to whole nanoseconds first.
CphyClk(max, e) ==
  LET lo == DivRoundUp(Ns(Bits(7) \div bitclk), Bits(7))
      hi == Ns(Bits(max) \div bitclk) \div Bits(7)
  IN lo + Share(lo, hi, Buffer(e))

ClkPost == IF cphy THEN CphyClk(224, "clk_post") ELSE DphyClkPost
ClkPre == IF cphy THEN CphyClk(448, "clk_pre") ELSE DphyClkPre

------------------------------------------------------------------------------
(* The call.                                                               *)

Init ==
  /\ version \in Version
  /\ cphy \in BOOLEAN
  /\ bitclk \in BitClk
  /\ todo = IF cphy THEN CphyOrder ELSE DphyOrder
  /\ desc = [e \in Entry |-> 0]
  /\ timing = [e \in {} |-> 0]
  /\ rc = "busy"

\* Mutated: only a negative value is refused.
Fits_AnyWidth(rec) == rec >= 0

\* dsi_phy_cmn_validate_and_set: the output can only be 8 bits.
Fits(rec) == rec \in 0..255

Calc(e, rec) ==
  /\ rc = "busy"
  /\ todo # <<>>
  /\ Head(todo) = e
  /\ \/ /\ Fits(rec)
        /\ desc' = [desc EXCEPT ![e] = rec]
        /\ todo' = Tail(todo)
        /\ UNCHANGED rc
     \/ /\ ~Fits(rec)
        /\ rc' = "EINVAL"
        /\ UNCHANGED <<desc, todo>>
  /\ UNCHANGED <<version, cphy, bitclk, timing>>

CalcClkPrepare == Calc("clk_prepare", ClkPrepare)
CalcClkZero == Calc("clk_zero", ClkZero)
CalcClkTrail == Calc("clk_trail", ClkTrail)
CalcHsPrepare == Calc("hs_prepare", HsPrepare)
CalcHsZero == Calc("hs_zero", HsZero)
CalcHsTrail == Calc("hs_trail", HsTrail)
CalcHsRqst == Calc("hs_rqst", HsRqst)
CalcHsExit == Calc("hs_exit", HsExit)
CalcHsRqstClk == Calc("hs_rqst_clk", HsRqst)
CalcClkPost == Calc("clk_post", ClkPost)
CalcClkPre == Calc("clk_pre", ClkPre)

UpdateTimingParams ==
  /\ rc = "busy"
  /\ todo = <<>>
  /\ timing' = [e \in Laid |-> desc[e]]
  /\ rc' = "ok"
  /\ UNCHANGED <<version, cphy, bitclk, todo, desc>>

Next ==
  \/ CalcClkPrepare \/ CalcClkZero \/ CalcClkTrail
  \/ CalcHsPrepare \/ CalcHsZero \/ CalcHsTrail
  \/ CalcHsRqst \/ CalcHsExit \/ CalcHsRqstClk
  \/ CalcClkPost \/ CalcClkPre
  \/ UpdateTimingParams

Spec == Init /\ [][Next]_vars

------------------------------------------------------------------------------
(* Properties.                                                             *)

\* The bits a register value stands for: the form the version's formulas
\* invert (dsi_phy_timing_v2_0.c:30-86, dsi_phy_timing_v3_0.c:38-88).
PhaseBits(e) ==
  LET r == timing[e]
  IN CASE e = "clk_prepare" -> IF cphy THEN 7 * r ELSE 8 * r
       [] e = "hs_prepare" -> 8 * r + (IF bitclk <= 120 THEN 2 ELSE 0)
       [] e = "clk_zero" -> IF version = 2 THEN 8 * (r + 3) + 11
                                           ELSE 8 * (r + 1) + 1
       [] e = "hs_zero" -> IF version = 2 THEN 8 * (r + 3) + 11 ELSE 8 * (r + 1)
       [] e \in {"clk_trail", "hs_trail"} ->
            IF version = 2 THEN 8 * r - 3 ELSE 8 * (r + 1)
       [] e \in {"hs_exit", "hs_rqst"} -> IF cphy THEN 7 * (r + 1)
                                                  ELSE 8 * (r + 1)
       [] OTHER -> 7 * r
Phase(e) == Bits(PhaseBits(e))

\* Every value is of its type: what reaches the lanes fits an 8-bit register,
\* and only a call that succeeds reaches them.
TypeOK ==
  /\ version \in Version
  /\ cphy \in BOOLEAN
  /\ bitclk \in BitClk
  /\ todo \in Seq(Entry)
  /\ desc \in [Entry -> 0..255]
  /\ timing \in [DOMAIN timing -> 0..255]
  /\ DOMAIN timing = IF rc = "ok" THEN Laid ELSE {}
  /\ rc \in {"busy", "ok", "EINVAL"}

\* The longest prepare phase, 95 ns, has room for one unit of its register.
Attainable == Unit <= Ns(95)

\* The phases of a D-PHY keep the limits that dsi_phy_timing_calc.c:870-878
\* and the calc_ functions start from, margins and rounding included: the
\* prepare phases within theirs, prepare and zero together, the trails, the
\* exit and the request times.  The data trail's minimum was cut to whole
\* nanoseconds (line 328), and version 2 rounds its maximum up.
DphyFits ==
  /\ Phase("clk_prepare") \in Ns(38)..Ns(95)
  /\ Phase("clk_prepare") + Phase("clk_zero") >= Ns(300)
  /\ Phase("clk_trail") \in Ns(60)..(Ns(85) + Bits(12))
  /\ Phase("hs_prepare") \in (Ns(40) + Bits(4))..(Ns(85) + Bits(6))
  /\ Phase("hs_prepare") + Phase("hs_zero") >= Ns(145) + Bits(10)
  /\ Phase("hs_trail") > Ns(59) + Bits(4)
  /\ Phase("hs_exit") >= Ns(100)
  /\ Phase("hs_rqst") >= Ns(50)

CphyFits ==
  /\ Phase("clk_prepare") \in Ns(38)..Ns(95)
  /\ Phase("clk_pre") \in Bits(7)..Bits(448)
  /\ Phase("clk_post") \in Bits(7)..Bits(224)
  /\ Phase("hs_exit") >= Ns(100)
  /\ Phase("hs_rqst") >= Ns(50)

\* What a successful call hands to the lanes keeps the limits, at every bit
\* clock a prepare phase can serve and for every layout that exists: versions
\* 2 and 4 hand a C-PHY the D-PHY entries (dsi_phy_timing_v4_0.c:82).
PhasesFit ==
  rc = "ok" /\ Attainable =>
    IF cphy THEN version = 3 => CphyFits ELSE DphyFits

\* No bit clock a prepare phase can serve is refused: not for a register too
\* small, and not because a maximum came out below its minimum.
ClocksServed == rc = "EINVAL" => ~Attainable

==============================================================================
