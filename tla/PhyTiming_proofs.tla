--------------------------- MODULE PhyTiming_proofs ---------------------------
(***************************************************************************)
(* Proofs about the lane timings, for every version and every whole bit    *)
(* clock of a D-PHY, 1 to 2500 Mbit/s.                                     *)
(***************************************************************************)
EXTENDS PhyTiming, TLAPS

-----------------------------------------------------------------------------
(* Arithmetic.                                                             *)

\* A quotient by a number that is not fixed, and its remainder.
LEMMA Quotient ==
  ASSUME NEW x \in Nat, NEW d \in Nat \ {0}
  PROVE  /\ x \div d \in Nat /\ x % d \in 0 .. d - 1
         /\ d * (x \div d) = x - (x % d)
OBVIOUS

\* The least number of units that covers x.
LEMMA CeilIs ==
  ASSUME NEW x \in Int
  PROVE  /\ Ceil(x, 100) \in Int
         /\ 100 * Ceil(x, 100) >= x /\ 100 * Ceil(x, 100) <= x + 99
         /\ Ceil(x, 8000) \in Int
         /\ 8000 * Ceil(x, 8000) >= x /\ 8000 * Ceil(x, 8000) <= x + 7999
BY DEF Ceil

\* The same, where the code's type is unsigned.
LEMMA DivRoundUpIs ==
  ASSUME NEW x \in Int
  PROVE  /\ DivRoundUp(x, 100) \in Int
         /\ x >= -99 => /\ 100 * DivRoundUp(x, 100) >= x
                        /\ 100 * DivRoundUp(x, 100) <= x + 99
         /\ DivRoundUp(x, 7000) \in Int
         /\ x >= -6999 => /\ 7000 * DivRoundUp(x, 7000) >= x
                          /\ 7000 * DivRoundUp(x, 7000) <= x + 6999
         /\ DivRoundUp(x, 8000) \in Int
         /\ x >= -7999 => /\ 8000 * DivRoundUp(x, 8000) >= x
                          /\ 8000 * DivRoundUp(x, 8000) <= x + 7999
<1>1. TooWide \in Int
  BY DEF TooWide
<1> QED
  BY <1>1 DEF DivRoundUp

\* A share of the way from lo to hi that a register takes is on that way.
LEMMA ShareIs ==
  \A lo, hi \in Int : \A buf \in {0, 10, 50} :
    lo <= hi => Share(lo, hi, buf) \in 0 .. hi - lo
<1> SUFFICES ASSUME NEW lo \in Int, NEW hi \in Int, lo <= hi,
                    NEW buf \in {0, 10, 50}
             PROVE  Share(lo, hi, buf) \in 0 .. hi - lo
    OBVIOUS
<1> DEFINE x == (hi - lo) * buf
<1>1. /\ x \in Int /\ x >= 0
      /\ buf = 0 => x = 0
      /\ buf = 10 => x = 10 * (hi - lo)
      /\ buf = 50 => x = 50 * (hi - lo)
  OBVIOUS
<1>2. Share(lo, hi, buf) = IF x < 0 THEN TooWide ELSE Ceil(x, 100)
  BY DEF Share
<1> HIDE DEF x
<1>3. /\ Ceil(x, 100) \in Int
      /\ 100 * Ceil(x, 100) >= x /\ 100 * Ceil(x, 100) <= x + 99
  BY <1>1, CeilIs
<1> QED
  BY <1>1, <1>2, <1>3

\* A value that lies by a margin between lo and hi.
LEMMA WeightedIs ==
  ASSUME NEW lo \in Int, NEW hi \in Int
  PROVE  /\ lo >= 0 => Weighted(lo, hi, 0) = lo
         /\ 2 * hi + 98 * lo >= 0 =>
              /\ Weighted(lo, hi, 2) \in Int
              /\ 100 * Weighted(lo, hi, 2) >= 2 * hi + 98 * lo
              /\ 100 * Weighted(lo, hi, 2) <= 2 * hi + 98 * lo + 99
         /\ 10 * hi + 90 * lo >= 0 =>
              /\ Weighted(lo, hi, 10) \in Int
              /\ 100 * Weighted(lo, hi, 10) >= 10 * hi + 90 * lo
              /\ 100 * Weighted(lo, hi, 10) <= 10 * hi + 90 * lo + 99
         /\ 30 * hi + 70 * lo >= 0 =>
              /\ Weighted(lo, hi, 30) \in Int
              /\ 100 * Weighted(lo, hi, 30) >= 30 * hi + 70 * lo
              /\ 100 * Weighted(lo, hi, 30) <= 30 * hi + 70 * lo + 99
<1>1. \A x \in Int : x >= 0 =>
         /\ DivRoundUp(x, 100) \in Int
         /\ 100 * DivRoundUp(x, 100) >= x /\ 100 * DivRoundUp(x, 100) <= x + 99
  BY DivRoundUpIs
<1>2. /\ Weighted(lo, hi, 0) = DivRoundUp(100 * lo, 100)
      /\ Weighted(lo, hi, 2) = DivRoundUp(2 * hi + 98 * lo, 100)
      /\ Weighted(lo, hi, 10) = DivRoundUp(10 * hi + 90 * lo, 100)
      /\ Weighted(lo, hi, 30) = DivRoundUp(30 * hi + 70 * lo, 100)
  <2>1. /\ (hi - lo) * 0 + lo * 100 = 100 * lo
        /\ (hi - lo) * 2 + lo * 100 = 2 * hi + 98 * lo
        /\ (hi - lo) * 10 + lo * 100 = 10 * hi + 90 * lo
        /\ (hi - lo) * 30 + lo * 100 = 30 * hi + 70 * lo
    OBVIOUS
  <2> QED
    BY <2>1 DEF Weighted
<1>3. lo >= 0 => Weighted(lo, hi, 0) = lo
  <2> DEFINE x == 100 * lo
  <2>1. Weighted(lo, hi, 0) = DivRoundUp(x, 100)
    BY <1>2
  <2>2. x \in Int /\ (lo >= 0 => x >= 0) /\ x = 100 * lo
    OBVIOUS
  <2> HIDE DEF x
  <2> QED
    BY <1>1, <2>1, <2>2
<1>4. /\ 2 * hi + 98 * lo \in Int
      /\ 10 * hi + 90 * lo \in Int
      /\ 30 * hi + 70 * lo \in Int
  OBVIOUS
<1> QED
  BY <1>1, <1>2, <1>3, <1>4

-----------------------------------------------------------------------------
(* The bit clock.                                                          *)

\* What a call is made with, and does not change.
Asked == version \in {2, 3, 4} /\ cphy \in BOOLEAN /\ bitclk \in 1 .. 2500

\* A remainder that is added a second time is less than the bit clock.
LEMMA TwiceIs ==
  ASSUME Asked, NEW n \in Nat, NEW k \in Nat
  PROVE  /\ Twice(n, k) \in Nat
         /\ Twice(n, k) >= n * bitclk + 1000 * k
         /\ Twice(n, k) < n * bitclk + 1000 * k + bitclk
<1>1. 1000 * k \in Nat /\ n * bitclk \in Nat /\ bitclk \in Nat \ {0}
  BY DEF Asked
<1>2. (1000 * k) % bitclk \in 0 .. bitclk - 1
  BY <1>1, Quotient
<1> QED
  BY <1>1, <1>2 DEF Twice, Ns, Bits

\* A time in whole nanoseconds, counted again in thousandths of a bit, is less
\* than a nanosecond short.
LEMMA WholeNs ==
  ASSUME Asked, NEW x \in Nat
  PROVE  /\ x \div bitclk \in Nat /\ Ns(x \div bitclk) \in Nat
         /\ Ns(x \div bitclk) <= x /\ Ns(x \div bitclk) > x - bitclk
<1>1. bitclk \in Nat \ {0}
  BY DEF Asked
<1>2. /\ x \div bitclk \in Nat /\ x % bitclk \in 0 .. bitclk - 1
      /\ bitclk * (x \div bitclk) = x - (x % bitclk)
  BY <1>1, Quotient
<1>3. Ns(x \div bitclk) = bitclk * (x \div bitclk)
  BY <1>1, <1>2 DEF Ns
<1> QED
  BY <1>1, <1>2, <1>3

\* The unit of a register, and the clocks a prepare phase can serve.
LEMMA UnitIs ==
  ASSUME Asked
  PROVE  /\ Unit = IF cphy THEN 7000 ELSE 8000
         /\ Attainable <=> (IF cphy THEN 7000 ELSE 8000) <= 95 * bitclk
BY DEF Asked, Unit, Bits, Attainable, Ns

\* The margins of each entry.
LEMMA BufferIs ==
  ASSUME Asked
  PROVE  /\ Buffer("clk_prepare") \in {0, 50} /\ Buffer("hs_prepare") \in {0, 50}
         /\ Buffer("clk_zero") \in {0, 2} /\ Buffer("hs_zero") \in {0, 10}
         /\ Buffer("clk_trail") \in {0, 30} /\ Buffer("hs_trail") \in {0, 30}
         /\ Buffer("hs_exit") \in {0, 10}
         /\ Buffer("clk_pre") \in {0, 10} /\ Buffer("clk_post") \in {0, 10}
         /\ version # 2 /\ ~cphy =>
              \A e \in Entry : Buffer(e) = 0
         /\ version = 2 => /\ Buffer("clk_zero") = 2 /\ Buffer("hs_zero") = 10
                           /\ Buffer("clk_trail") = 30 /\ Buffer("hs_trail") = 30
BY DEF Asked, Buffer, V2Buffer, V3Buffer

-----------------------------------------------------------------------------
(* The entries: at a clock that a prepare phase can serve, each fits its   *)
(* register and keeps its limits, if those it is computed from do.         *)

Served == Asked /\ Attainable

\* The clocks a D-PHY's and a C-PHY's prepare phase can serve.
LEMMA DphyClock ==
  Served /\ ~cphy => bitclk \in Int /\ bitclk >= 85 /\ bitclk <= 2500
BY UnitIs DEF Served, Asked

\* For a C-PHY, from 74 Mbit/s on.
LEMMA CphyClock ==
  Served /\ cphy => bitclk \in Int /\ bitclk >= 74 /\ bitclk <= 2500
BY UnitIs DEF Served, Asked

\* The prepare phase of the clock lane.
PrepareKept(r) == r \in 0 .. 255 /\ Unit * r \in Ns(38) .. Ns(95)

\* Its minimum is not above its maximum, and the share taken stays between.
LEMMA ClkPrepareFits == Served => PrepareKept(ClkPrepare)
<1> SUFFICES ASSUME Served PROVE PrepareKept(ClkPrepare)
    OBVIOUS
<1> DEFINE U == IF cphy THEN 7000 ELSE 8000
           lo == DivRoundUp(Ns(38), U)
           hi == Ns(95) \div U
           s == Share(lo, hi, Buffer("clk_prepare"))
<1>1. /\ bitclk \in 1 .. 2500 /\ Unit = U /\ U \in {7000, 8000} /\ U <= 95 * bitclk
      /\ Buffer("clk_prepare") \in {0, 50} /\ ClkPrepare = lo + s
  BY UnitIs, BufferIs DEF Served, Asked, ClkPrepare
<1>2. Ns(38) = 38 * bitclk /\ Ns(95) = 95 * bitclk
  BY <1>1 DEF Ns
<1> HIDE DEF U
<1>3. lo \in Int /\ U * lo >= 38 * bitclk /\ U * lo <= 38 * bitclk + U - 1
  <2>1. 38 * bitclk \in Int /\ 38 * bitclk >= 0
    BY <1>1
  <2>2. CASE U = 7000
    BY <1>2, <2>1, <2>2, DivRoundUpIs
  <2>3. CASE U = 8000
    BY <1>2, <2>1, <2>3, DivRoundUpIs
  <2> QED
    BY <1>1, <2>2, <2>3
<1>4. hi \in Int /\ U * hi <= 95 * bitclk /\ U * hi > 95 * bitclk - U
  <2>1. CASE U = 7000
    BY <1>1, <1>2, <2>1
  <2>2. CASE U = 8000
    BY <1>1, <1>2, <2>2
  <2> QED
    BY <1>1, <2>1, <2>2
<1> HIDE DEF lo, hi
<1>5. lo <= hi
  <2>1. CASE U = 7000
    BY <1>1, <1>3, <1>4, <2>1
  <2>2. CASE U = 8000
    BY <1>1, <1>3, <1>4, <2>2
  <2> QED
    BY <1>1, <2>1, <2>2
<1>6. s \in 0 .. hi - lo
  <2>1. lo \in Int /\ hi \in Int
    BY <1>3, <1>4
  <2>2. Buffer("clk_prepare") \in {0, 10, 50}
    BY <1>1
  <2> QED
    BY <1>5, <2>1, <2>2, ShareIs, Zenon
<1> HIDE DEF s
<1>7. ClkPrepare \in lo .. hi
  BY <1>1, <1>3, <1>4, <1>6
<1>8. CASE U = 7000
  BY <1>1, <1>2, <1>3, <1>4, <1>7, <1>8 DEF PrepareKept
<1>9. CASE U = 8000
  BY <1>1, <1>2, <1>3, <1>4, <1>7, <1>9 DEF PrepareKept
<1> QED
  BY <1>1, <1>8, <1>9

\* Prepare and zero phase of the clock lane together.
ClkZeroPhase(r) == IF version = 2 THEN Bits(8 * (r + 3) + 11)
                                  ELSE Bits(8 * (r + 1) + 1)
ZeroKept(p, r) ==
  /\ r \in 0 .. 255 /\ 8000 * r <= 300 * bitclk + 60000
  /\ Bits(8 * p) + ClkZeroPhase(r) >= Ns(300)

\* Whatever prepare phase was chosen, the zero phase fills up to 300 ns.
LEMMA ClkZeroFits ==
  ASSUME Served, ~cphy, PrepareKept(desc["clk_prepare"])
  PROVE  ZeroKept(desc["clk_prepare"], ClkZero)
<1> DEFINE p == desc["clk_prepare"]
           x == Ns(300) - Bits(8) * p
           lo == ClkZeroMin(x)
           w == Weighted(lo, ZeroMax(lo), Buffer("clk_zero"))
<1>1. /\ bitclk \in 85 .. 2500 /\ version \in {2, 3, 4}
      /\ p \in 0 .. 255 /\ 8000 * p >= 38 * bitclk /\ 8000 * p <= 95 * bitclk
  BY UnitIs DEF Served, Asked, PrepareKept, Ns
<1>2. x = 300 * bitclk - 8000 * p /\ ClkZero = w
  BY <1>1 DEF Ns, Bits, ClkZero
<1> HIDE DEF p
<1>3. x \in Int /\ x >= 17425 /\ x <= 655000
  BY <1>1, <1>2
<1> HIDE DEF x
<1>4. CASE version = 2
  <2> DEFINE c == Ceil(x - 11000, 8000)
  <2>1. lo = c - 3
    BY <1>4 DEF ClkZeroMin, V2ClkZero, Bits
  <2>2. c \in Int /\ 8000 * c >= x - 11000 /\ 8000 * c <= x - 3001
    BY <1>3, CeilIs
  <2> HIDE DEF c, lo
  <2>3. lo \in Int /\ lo >= -2 /\ lo <= 255
    BY <1>3, <2>1, <2>2
  <2>4. ZeroMax(lo) = 255 /\ Buffer("clk_zero") = 2
    BY <1>4, <2>3, BufferIs DEF ZeroMax, Served
  <2>5. w \in Int /\ 100 * w >= 510 + 98 * lo /\ 100 * w <= 510 + 98 * lo + 99
    <3>1. w = Weighted(lo, 255, 2)
      BY <2>4
    <3>2. lo \in Int /\ 2 * 255 + 98 * lo >= 0
      BY <2>3
    <3> HIDE DEF w
    <3> QED
      BY <3>1, <3>2, WeightedIs
  <2> HIDE DEF w
  <2>6. w >= lo /\ w \in 0 .. 255
    BY <2>3, <2>5
  <2>7. 8000 * w <= 300 * bitclk + 60000
    BY <1>1, <1>2, <2>1, <2>2, <2>3, <2>5
  <2>8. Bits(8 * p) + ClkZeroPhase(w) >= Ns(300)
    BY <1>1, <1>2, <1>4, <2>1, <2>2, <2>6 DEF ClkZeroPhase, Bits, Ns
  <2> QED
    BY <1>2, <2>6, <2>7, <2>8 DEF ZeroKept, p
<1>5. CASE version # 2
  <2> DEFINE c == Ceil(x - 1000, 8000)
  <2>1. lo = c - 1
    BY <1>5 DEF ClkZeroMin, V3ClkZero, Bits
  <2>2. c \in Int /\ 8000 * c >= x - 1000 /\ 8000 * c <= x + 6999
    BY <1>3, CeilIs
  <2> HIDE DEF c, lo
  <2>3. lo \in Int /\ lo >= 0 /\ lo <= 255
    BY <1>3, <2>1, <2>2
  <2>4. ZeroMax(lo) = 255 /\ Buffer("clk_zero") = 0
    BY <1>5, <2>3, BufferIs DEF ZeroMax, Served, Entry, DphyOrder
  <2>5. w = lo
    <3>1. w = Weighted(lo, 255, 0)
      BY <2>4
    <3> HIDE DEF w
    <3> QED
      BY <2>3, <3>1, WeightedIs
  <2> HIDE DEF w
  <2>8. Bits(8 * p) + ClkZeroPhase(w) >= Ns(300)
    BY <1>1, <1>2, <1>5, <2>1, <2>2, <2>3, <2>5 DEF ClkZeroPhase, Bits, Ns
  <2> QED
    BY <1>1, <1>2, <2>1, <2>2, <2>3, <2>5, <2>8 DEF ZeroKept, p
<1> QED
  BY <1>4, <1>5

\* The trail of the clock lane.
TrailPhase(r) == IF version = 2 THEN Bits(8 * r - 3) ELSE Bits(8 * (r + 1))
ClkTrailKept(r) ==
  r \in 0 .. 255 /\ TrailPhase(r) \in Ns(60) .. (Ns(85) + Bits(12))

\* Version 2's margin lies between the two limits; at 105 Mbit/s only the value
\* of the remainder that is added to the maximum shows that it stays within it.
LEMMA ClkTrailFits == Served /\ ~cphy => ClkTrailKept(ClkTrail)
<1> SUFFICES ASSUME Served, ~cphy PROVE ClkTrailKept(ClkTrail)
    OBVIOUS
<1> DEFINE x == Ns(60) + (Ns(60) % 1000)
           t == Twice(105, 12)
           y == t - Ns(20)
           lo == ClkTrailMin(x)
           hi == ClkTrailMax(y)
           w == Weighted(lo, hi, Buffer("clk_trail"))
<1>1. bitclk \in Int /\ bitclk >= 85 /\ bitclk <= 2500
  BY DphyClock
<1>2. ClkTrail = w
  BY DEF ClkTrail
<1>3. x \in Int /\ x >= 60 * bitclk /\ x <= 60 * bitclk + 999
  BY <1>1 DEF Ns
<1>4. /\ t \in Nat /\ t >= 105 * bitclk + 12000 /\ t < 106 * bitclk + 12000
      /\ bitclk = 105 => t = 105 * bitclk + 12030
  <2>1. t \in Nat /\ t >= 105 * bitclk + 12000 /\ t < 105 * bitclk + 12000 + bitclk
    BY <1>1, TwiceIs DEF Served
  <2>2. CASE bitclk = 105
    <3>1. (1000 * 12) % 105 = 30
      OBVIOUS
    <3> QED
      BY <2>1, <2>2, <3>1 DEF Twice, Ns, Bits
  <2> HIDE DEF t
  <2> QED
    BY <1>1, <2>1, <2>2
<1>5. y = t - 20 * bitclk
  BY <1>1, <1>4 DEF Ns
<1> HIDE DEF x, t
<1>6. y \in Int /\ y >= 85 * bitclk + 12000 /\ y < 86 * bitclk + 12000
      /\ (bitclk = 105 => y = 85 * bitclk + 12030)
  BY <1>1, <1>4, <1>5
<1> HIDE DEF y
<1>7. CASE version = 2
  <2>1. lo = Ceil(x + 3000, 8000) /\ hi = (y + 3000) \div 8000
    BY <1>7 DEF ClkTrailMin, ClkTrailMax, V2ClkTrailMin, V2ClkTrailMax, Bits
  <2>2. lo \in Int /\ 8000 * lo >= x + 3000 /\ 8000 * lo <= x + 10999
    BY <1>3, <2>1, CeilIs
  <2>3. hi \in Int /\ 8000 * hi <= y + 3000 /\ 8000 * hi > y - 5000
    BY <1>6, <2>1
  <2> HIDE DEF lo, hi
  <2>4. lo <= hi /\ lo >= 0 /\ hi <= 100
    BY <1>1, <1>3, <1>6, <2>2, <2>3
  <2>5. /\ w \in Int
        /\ 100 * w >= 30 * hi + 70 * lo /\ 100 * w <= 30 * hi + 70 * lo + 99
    <3>1. w = Weighted(lo, hi, 30)
      BY <1>7, BufferIs DEF Served
    <3>2. lo \in Int /\ hi \in Int /\ 30 * hi + 70 * lo >= 0
      BY <2>2, <2>3, <2>4
    <3> HIDE DEF w
    <3> QED
      BY <3>1, <3>2, WeightedIs
  <2> HIDE DEF w
  <2>6. w >= lo /\ w <= hi
    BY <2>2, <2>3, <2>4, <2>5
  <2>7. 8000 * w - 3000 >= 60 * bitclk
    BY <1>1, <1>3, <2>2, <2>5, <2>6
  <2>8. 8000 * w - 3000 <= 85 * bitclk + 12000
    <3>1. CASE bitclk <= 105
      <4>1. hi <= 2
        BY <1>1, <1>6, <2>3, <3>1
      <4> QED
        BY <1>1, <2>3, <2>5, <2>6, <3>1, <4>1
    <3>2. CASE bitclk \in 106 .. 199
      <4>1. lo <= 2 /\ hi <= 4
        BY <1>1, <1>3, <1>6, <2>2, <2>3, <3>2
      <4>2. w <= 3
        BY <2>4, <2>5, <4>1, <2>2, <2>3
      <4> QED
        BY <3>2, <4>2, <2>5
    <3>3. CASE bitclk >= 200
      BY <1>1, <1>3, <1>6, <2>2, <2>3, <2>4, <2>5, <3>3
    <3> QED
      BY <1>1, <3>1, <3>2, <3>3
  <2>9. w \in 0 .. 255
    BY <2>2, <2>3, <2>4, <2>5, <2>6
  <2> QED
    BY <1>1, <1>2, <1>7, <2>7, <2>8, <2>9 DEF ClkTrailKept, TrailPhase, Bits, Ns
<1>8. CASE version # 2
  <2> DEFINE c == Ceil(x, 8000)
  <2>1. lo = c - 1 /\ hi = y \div 8000 - 1
    BY <1>8 DEF ClkTrailMin, ClkTrailMax, V3ClkTrailMin, V3ClkTrailMax, Bits
  <2>2. c \in Int /\ 8000 * c >= x /\ 8000 * c <= x + 7999
    BY <1>3, CeilIs
  <2>3. hi \in Int
    BY <1>6, <2>1
  <2> HIDE DEF c
  <2>4. lo \in Int /\ 8000 * lo >= x - 8000 /\ 8000 * lo <= x - 1
    BY <1>3, <2>1, <2>2
  <2> HIDE DEF lo, hi
  <2>5. w = lo /\ lo \in 0 .. 255
    <3>1. w = Weighted(lo, hi, 0)
      BY <1>8, BufferIs DEF Served, Entry, DphyOrder
    <3>2. x \in Int /\ x >= 5100 /\ x <= 150999
      BY <1>1, <1>3
    <3>3. lo \in Int /\ lo >= 0 /\ lo <= 255
      BY <2>4, <3>2
    <3> HIDE DEF w
    <3>4. w = lo
      BY <2>3, <3>1, <3>3, WeightedIs
    <3> QED
      BY <3>3, <3>4
  <2> HIDE DEF w
  <2> QED
    BY <1>1, <1>3, <1>2, <1>8, <2>4, <2>5 DEF ClkTrailKept, TrailPhase, Bits, Ns
<1> QED
  BY <1>7, <1>8

\* The prepare phase of the data lanes.
HsPreparePhase(r) == Bits(8 * r + (IF bitclk <= 120 THEN 2 ELSE 0))
HsPrepareKept(r) ==
  r \in 0 .. 255 /\ HsPreparePhase(r) \in (Ns(40) + Bits(4)) .. (Ns(85) + Bits(6))

\* Below 160 Mbit/s the limits leave one value or two, and never none.
LEMMA HsPrepareFits == Served /\ ~cphy => HsPrepareKept(HsPrepare)
<1> SUFFICES ASSUME Served, ~cphy PROVE HsPrepareKept(HsPrepare)
    OBVIOUS
<1> DEFINE min == Twice(40, 4) - LowClock
           x == min + (min % 1000)
           y == Ns(85) + Bits(6) - LowClock
           lo == Ceil(x, 8000)
           hi == y \div 8000
           s == Share(lo, hi, Buffer("hs_prepare"))
<1>1. bitclk \in Int /\ bitclk >= 85 /\ bitclk <= 2500
  BY DphyClock
<1>2. HsPrepare = lo + s
  BY DEF HsPrepare, Bits
<1>3. LowClock = IF bitclk <= 120 THEN 2000 ELSE 0
  BY DEF LowClock, Bits
<1>4. /\ min \in Int /\ min >= 40 * bitclk + 4000 - LowClock
      /\ min < 41 * bitclk + 4000 - LowClock
  <2> DEFINE t == Twice(40, 4)
  <2>1. t \in Nat /\ t >= 40 * bitclk + 4000 /\ t < 40 * bitclk + 4000 + bitclk
    BY <1>1, TwiceIs DEF Served
  <2> HIDE DEF t
  <2> QED
    BY <1>1, <1>3, <2>1 DEF t
<1>5. y \in Int /\ y = 85 * bitclk + 6000 - LowClock
  BY <1>1, <1>3 DEF Ns, Bits
<1> HIDE DEF min
<1>6. x \in Int /\ x >= min /\ x <= min + 999
  BY <1>4
<1> HIDE DEF x, y
<1>7. lo \in Int /\ 8000 * lo >= x /\ 8000 * lo <= x + 7999
  BY <1>6, CeilIs
<1>8. hi \in Int /\ 8000 * hi <= y /\ 8000 * hi > y - 8000
  BY <1>5
<1> HIDE DEF lo, hi
<1>9. lo <= hi
  <2>1. CASE bitclk <= 120
    <3>1. lo <= 1
      BY <1>1, <1>3, <1>4, <1>6, <1>7, <2>1
    <3>2. hi >= 1
      BY <1>1, <1>3, <1>5, <1>8, <2>1
    <3> QED
      BY <1>7, <1>8, <3>1, <3>2
  <2>2. CASE bitclk > 120 /\ bitclk < 160
    <3>1. lo <= 2
      BY <1>1, <1>3, <1>4, <1>6, <1>7, <2>2
    <3>2. hi >= 2
      BY <1>1, <1>3, <1>5, <1>8, <2>2
    <3> QED
      BY <1>7, <1>8, <3>1, <3>2
  <2>3. CASE bitclk >= 160
    BY <1>1, <1>3, <1>4, <1>5, <1>6, <1>7, <1>8, <2>3
  <2> QED
    BY <1>1, <2>1, <2>2, <2>3
<1>10. s \in 0 .. hi - lo
  <2>1. lo \in Int /\ hi \in Int
    BY <1>7, <1>8
  <2>2. Buffer("hs_prepare") \in {0, 10, 50}
    BY BufferIs DEF Served
  <2> QED
    BY <1>9, <2>1, <2>2, ShareIs, Zenon
<1> HIDE DEF s
<1>11. HsPrepare \in Int /\ HsPrepare >= lo /\ HsPrepare <= hi
  BY <1>2, <1>7, <1>8, <1>10
<1>12. HsPrepare >= 0 /\ HsPrepare <= 255
  BY <1>1, <1>3, <1>4, <1>5, <1>6, <1>7, <1>8, <1>11
<1>13. HsPreparePhase(HsPrepare) = 8000 * HsPrepare + LowClock
  BY <1>3, <1>11 DEF HsPreparePhase, Bits
<1>14. /\ 8000 * HsPrepare + LowClock >= 40 * bitclk + 4000
       /\ 8000 * HsPrepare + LowClock <= 85 * bitclk + 6000
  BY <1>1, <1>3, <1>4, <1>5, <1>6, <1>7, <1>8, <1>11
<1> QED
  BY <1>1, <1>3, <1>11, <1>12, <1>13, <1>14 DEF HsPrepareKept, Ns, Bits

\* Prepare and zero phase of the data lanes together.
HsZeroPhase(r) == IF version = 2 THEN Bits(8 * (r + 3) + 11)
                                 ELSE Bits(8 * (r + 1))
HsZeroKept(p, r) ==
  r \in 0 .. 255 /\ HsPreparePhase(p) + HsZeroPhase(r) >= Ns(145) + Bits(10)

\* Whatever prepare phase was chosen, the zero phase fills 145 ns and 10 bits.
LEMMA HsZeroFits ==
  ASSUME Served, ~cphy, HsPrepareKept(desc["hs_prepare"])
  PROVE  HsZeroKept(desc["hs_prepare"], HsZero)
<1> DEFINE p == desc["hs_prepare"]
           x == Ns(145) + Bits(10) - Bits(8) * p
           lo == HsZeroMin(x)
           w == Weighted(lo, ZeroMax(lo), Buffer("hs_zero"))
           low == IF bitclk <= 120 THEN 2000 ELSE 0
<1>1. bitclk \in Int /\ bitclk >= 85 /\ bitclk <= 2500
  BY DphyClock
<1>2. /\ p \in Int /\ p >= 0
      /\ HsPreparePhase(p) = 8000 * p + low
      /\ 8000 * p + low >= 40 * bitclk + 4000 /\ 8000 * p + low <= 85 * bitclk + 6000
  <2>1. p \in 0 .. 255 /\ HsPreparePhase(p) \in (Ns(40) + Bits(4)) .. (Ns(85) + Bits(6))
    BY DEF HsPrepareKept
  <2> HIDE DEF p
  <2>2. HsPreparePhase(p) = 8000 * p + low
    BY <1>1, <2>1 DEF HsPreparePhase, Bits
  <2> QED
    BY <1>1, <2>1, <2>2 DEF Ns, Bits
<1>3. x = 145 * bitclk + 10000 - 8000 * p /\ low \in Int /\ low >= 0 /\ low <= 2000
  BY <1>1 DEF Ns, Bits
<1>4. HsZero = w
  BY DEF HsZero
<1>5. /\ HsZeroKept(p, HsZero) <=>
           HsZero \in 0 .. 255
             /\ HsPreparePhase(p) + HsZeroPhase(HsZero) >= 145 * bitclk + 10000
  BY <1>1 DEF HsZeroKept, Ns, Bits
<1> HIDE DEF p, low
<1>6. x \in Int /\ x >= 9100 /\ x <= 270000
  BY <1>1, <1>2, <1>3
<1> HIDE DEF x
<1>7. CASE version = 2
  <2> DEFINE c == Ceil(x - 11000, 8000)
  <2>1. lo = c - 3
    BY <1>7 DEF HsZeroMin, V2HsZero, Bits
  <2>2. c \in Int /\ 8000 * c >= x - 11000 /\ 8000 * c <= x - 3001
    BY <1>6, CeilIs
  <2> HIDE DEF c, lo
  <2>3. lo \in Int /\ lo >= -3 /\ lo <= 255
    BY <1>6, <2>1, <2>2
  <2>4. ZeroMax(lo) = 255 /\ Buffer("hs_zero") = 10
    BY <1>7, <2>3, BufferIs DEF ZeroMax, Served
  <2>5. w \in Int /\ 100 * w >= 2550 + 90 * lo /\ 100 * w <= 2550 + 90 * lo + 99
    <3>1. w = Weighted(lo, 255, 10)
      BY <2>4
    <3>2. lo \in Int /\ 10 * 255 + 90 * lo >= 0
      BY <2>3
    <3> HIDE DEF w
    <3> QED
      BY <3>1, <3>2, WeightedIs
  <2> HIDE DEF w
  <2>6. w \in Int /\ w >= lo /\ w >= 0 /\ w <= 255
    BY <2>3, <2>5
  <2>7. HsZeroPhase(w) = 8000 * w + 35000
    BY <1>7, <2>6 DEF HsZeroPhase, Bits
  <2>8. 8000 * p + low + 8000 * w + 35000 >= 145 * bitclk + 10000
    BY <1>1, <1>2, <1>3, <2>1, <2>2, <2>6
  <2> QED
    BY <1>1, <1>2, <1>3, <1>4, <1>5, <2>6, <2>7, <2>8 DEF p
<1>8. CASE version # 2
  <2> DEFINE c == Ceil(x, 8000)
  <2>1. lo = c - 1
    BY <1>8 DEF HsZeroMin, V3HsZero, Bits
  <2>2. c \in Int /\ 8000 * c >= x /\ 8000 * c <= x + 7999
    BY <1>6, CeilIs
  <2> HIDE DEF c, lo
  <2>3. lo \in Int /\ lo >= 0 /\ lo <= 255
    BY <1>6, <2>1, <2>2
  <2>4. ZeroMax(lo) = 255 /\ Buffer("hs_zero") = 0
    BY <1>8, <2>3, BufferIs DEF ZeroMax, Served, Entry, DphyOrder
  <2>5. w = lo
    <3>1. w = Weighted(lo, 255, 0)
      BY <2>4
    <3> HIDE DEF w
    <3> QED
      BY <2>3, <3>1, WeightedIs
  <2> HIDE DEF w
  <2>6. HsZeroPhase(w) = 8000 * w + 8000
    BY <1>8, <2>3, <2>5 DEF HsZeroPhase, Bits
  <2>7. 8000 * p + low + 8000 * w + 8000 >= 145 * bitclk + 10000
    BY <1>1, <1>2, <1>3, <2>1, <2>2, <2>3, <2>5
  <2> QED
    BY <1>1, <1>2, <1>3, <1>4, <1>5, <2>3, <2>5, <2>6, <2>7 DEF p
<1> QED
  BY <1>7, <1>8

\* The trail of the data lanes.
HsTrailKept(r) == r \in 0 .. 255 /\ TrailPhase(r) > Ns(59) + Bits(4)

\* The minimum in whole nanoseconds costs a nanosecond at most.
LEMMA HsTrailFits == Served /\ ~cphy => HsTrailKept(HsTrail)
<1> SUFFICES ASSUME Served, ~cphy PROVE HsTrailKept(HsTrail)
    OBVIOUS
<1> DEFINE t == Twice(105, 12)
           min == Ns(60 + 4000 \div bitclk)
           max == Ns(t \div bitclk - 20)
           lo == HsTrailLimits(min, max)[1]
           hi == HsTrailLimits(min, max)[2]
           w == lo + DivRoundUp((hi - lo) * Buffer("hs_trail"), 100)
<1>1. bitclk \in Int /\ bitclk >= 85 /\ bitclk <= 2500
  BY DphyClock
<1>2. HsTrail = w
  BY DEF HsTrail
<1>3. min \in Int /\ min > 59 * bitclk + 4000 /\ min <= 60 * bitclk + 4000
  <2> DEFINE q == 4000 \div bitclk
  <2>1. q \in Nat /\ Ns(q) \in Nat /\ Ns(q) <= 4000 /\ Ns(q) > 4000 - bitclk
    BY WholeNs DEF Served
  <2> HIDE DEF q
  <2>2. Ns(60 + q) = 60 * bitclk + Ns(q)
    BY <1>1, <2>1 DEF Ns
  <2> QED
    BY <1>1, <2>1, <2>2 DEF q
<1>4. max \in Int /\ max > 84 * bitclk + 12000 /\ max < 86 * bitclk + 12000
  <2>1. t \in Nat /\ t >= 105 * bitclk + 12000 /\ t < 105 * bitclk + 12000 + bitclk
    BY <1>1, TwiceIs DEF Served
  <2> HIDE DEF t
  <2> DEFINE q == t \div bitclk
  <2>2. q \in Nat /\ Ns(q) \in Nat /\ Ns(q) <= t /\ Ns(q) > t - bitclk
    BY <2>1, WholeNs DEF Served
  <2> HIDE DEF q
  <2>3. Ns(q - 20) = Ns(q) - 20 * bitclk
    BY <1>1, <2>2 DEF Ns
  <2> QED
    BY <1>1, <2>1, <2>2, <2>3 DEF q
<1> HIDE DEF min, max
<1>5. CASE version = 2
  <2>1. lo = DivRoundUp(min + 3000, 8000) /\ hi = DivRoundUp(max + 3000, 8000)
    BY <1>5 DEF HsTrailLimits, V2HsTrail, Bits
  <2>2. lo \in Int /\ 8000 * lo >= min + 3000 /\ 8000 * lo <= min + 10999
    <3>1. min + 3000 \in Int /\ min + 3000 >= 0
      BY <1>1, <1>3
    <3> HIDE DEF lo
    <3> QED
      BY <1>3, <2>1, <3>1, DivRoundUpIs
  <2>3. hi \in Int /\ 8000 * hi >= max + 3000 /\ 8000 * hi <= max + 10999
    <3>1. max + 3000 \in Int /\ max + 3000 >= 0
      BY <1>1, <1>4
    <3> HIDE DEF hi
    <3> QED
      BY <1>4, <2>1, <3>1, DivRoundUpIs
  <2> HIDE DEF lo, hi
  <2>4. hi - lo >= 0 /\ hi - lo <= 100 /\ lo >= 0 /\ lo <= 100
    BY <1>1, <1>3, <1>4, <2>2, <2>3
  <2> DEFINE x == (hi - lo) * 30
             s == DivRoundUp(x, 100)
  <2>5. w = lo + s
    BY <1>5, BufferIs DEF Served
  <2>6. x \in Int /\ x >= 0 /\ x <= 3000
    BY <2>2, <2>3, <2>4
  <2> HIDE DEF w, x
  <2>7. s \in Int /\ 100 * s >= x /\ 100 * s <= x + 99
    BY <2>6, DivRoundUpIs
  <2> HIDE DEF s
  <2>8. w \in Int /\ w >= lo /\ w >= 0 /\ w <= 255
    BY <2>2, <2>4, <2>5, <2>6, <2>7
  <2>9. TrailPhase(w) = 8000 * w - 3000
    BY <1>5, <2>8 DEF TrailPhase, Bits
  <2>10. 8000 * w - 3000 > 59 * bitclk + 4000
    BY <1>1, <1>3, <2>2, <2>8
  <2> QED
    BY <1>1, <1>2, <2>8, <2>9, <2>10 DEF HsTrailKept, Ns, Bits
<1>6. CASE version # 2
  <2> DEFINE c == DivRoundUp(min, 8000)
  <2>1. lo = c - 1 /\ hi = max \div 8000 - 1
    BY <1>6 DEF HsTrailLimits, V3HsTrail, Bits
  <2>2. c \in Int /\ 8000 * c >= min /\ 8000 * c <= min + 7999
    <3>1. min >= 0
      BY <1>1, <1>3
    <3> QED
      BY <1>3, <3>1, DivRoundUpIs
  <2> HIDE DEF c
  <2>3. hi \in Int
    BY <1>4, <2>1
  <2> HIDE DEF lo, hi
  <2>4. lo \in Int /\ 8000 * lo >= min - 8000 /\ 8000 * lo <= min - 1
    BY <1>3, <2>1, <2>2
  <2>5. min >= 8000 /\ min <= 154000
    BY <1>1, <1>3
  <2>6. lo >= 0 /\ lo <= 255
    BY <1>3, <2>4, <2>5
  <2>7. w = lo
    <3>1. w = lo + DivRoundUp((hi - lo) * 0, 100)
      BY <1>6, BufferIs DEF Served, Entry, DphyOrder
    <3>2. (hi - lo) * 0 = 0
      BY <2>3, <2>4
    <3> HIDE DEF w
    <3> DEFINE z == DivRoundUp(0, 100)
    <3>3. z \in Int /\ 100 * z >= 0 /\ 100 * z <= 99
      BY DivRoundUpIs
    <3>4. w = lo + z
      BY <3>1, <3>2
    <3> HIDE DEF z
    <3> QED
      BY <2>4, <3>3, <3>4
  <2> HIDE DEF w
  <2>8. TrailPhase(w) = 8000 * lo + 8000
    BY <1>6, <2>4, <2>7 DEF TrailPhase, Bits
  <2>9. 8000 * lo + 8000 > 59 * bitclk + 4000
    BY <1>1, <1>3, <2>4
  <2> QED
    BY <1>1, <1>2, <2>4, <2>6, <2>7, <2>8, <2>9 DEF HsTrailKept, Ns, Bits
<1> QED
  BY <1>5, <1>6

\* The request and the exit times, of either PHY.
HsRqstKept(r) == r \in 0 .. 255 /\ Unit * (r + 1) >= Ns(50)
HsExitKept(r) == r \in 0 .. 255 /\ Unit * (r + 1) >= Ns(100)

\* The two units.
LEMMA ServedClock ==
  ASSUME Served
  PROVE  /\ bitclk \in Int /\ bitclk >= 74 /\ bitclk <= 2500
         /\ \/ cphy /\ Unit = 7000
            \/ ~cphy /\ bitclk >= 85 /\ Unit = 8000
<1>1. cphy \in BOOLEAN
  BY DEF Served, Asked
<1> QED
  BY <1>1, DphyClock, CphyClock, UnitIs DEF Served

\* The request time in either unit.
LEMMA HsRqstFits == Served => HsRqstKept(HsRqst)
<1> SUFFICES ASSUME Served PROVE HsRqstKept(HsRqst)
    OBVIOUS
<1>1. bitclk \in Int /\ bitclk >= 74 /\ bitclk <= 2500
  BY ServedClock
<1>2. Ns(50) = 50 * bitclk
  BY DEF Ns
<1>3. CASE Unit = 7000
  <2> DEFINE x == 50 * bitclk - 7000
             r == DivRoundUp(x, 7000)
  <2>1. x \in Int /\ x >= -6999 /\ x <= 120000 /\ x = 50 * bitclk - 7000
    BY <1>1
  <2>2. HsRqst = r
    BY <1>2, <1>3 DEF HsRqst
  <2> HIDE DEF x
  <2>3. r \in Int /\ 7000 * r >= x /\ 7000 * r <= x + 6999
    BY <2>1, DivRoundUpIs
  <2> HIDE DEF r
  <2>4. r >= 0 /\ r <= 255 /\ 7000 * (r + 1) >= 50 * bitclk
    BY <1>1, <2>1, <2>3
  <2> QED
    BY <1>2, <1>3, <2>2, <2>3, <2>4 DEF HsRqstKept
<1>4. CASE Unit = 8000
  <2> DEFINE x == 50 * bitclk - 8000
             r == DivRoundUp(x, 8000)
  <2>1. x \in Int /\ x >= -7999 /\ x <= 120000 /\ x = 50 * bitclk - 8000
    BY <1>1
  <2>2. HsRqst = r
    BY <1>2, <1>4 DEF HsRqst
  <2> HIDE DEF x
  <2>3. r \in Int /\ 8000 * r >= x /\ 8000 * r <= x + 7999
    BY <2>1, DivRoundUpIs
  <2> HIDE DEF r
  <2>4. r >= 0 /\ r <= 255 /\ 8000 * (r + 1) >= 50 * bitclk
    BY <1>1, <2>1, <2>3
  <2> QED
    BY <1>2, <1>4, <2>2, <2>3, <2>4 DEF HsRqstKept
<1> QED
  BY <1>3, <1>4, ServedClock

\* A value weighted up to the widest is not below its minimum, and fits.
LEMMA WeightedUp ==
  ASSUME NEW lo \in Int, lo >= 0, lo <= 255, NEW buf \in {0, 10}
  PROVE  Weighted(lo, 255, buf) \in lo .. 255
<1>1. CASE buf = 0
  <2>1. Weighted(lo, 255, 0) = lo
    BY WeightedIs
  <2> QED
    BY <1>1, <2>1
<1>2. CASE buf = 10
  <2> DEFINE w == Weighted(lo, 255, 10)
  <2>1. w \in Int /\ 100 * w >= 2550 + 90 * lo /\ 100 * w <= 2649 + 90 * lo
    BY WeightedIs
  <2> HIDE DEF w
  <2>2. w >= lo /\ w <= 255
    BY <2>1
  <2> QED
    BY <1>2, <2>1, <2>2 DEF w
<1> QED
  BY <1>1, <1>2

\* The exit time in either unit, with version 2's and 3's margin or none.
LEMMA HsExitFits == Served => HsExitKept(HsExit)
<1> SUFFICES ASSUME Served PROVE HsExitKept(HsExit)
    OBVIOUS
<1> DEFINE x == Ns(100)
           c == DivRoundUp(x, Unit)
           lo == c - 1
           w == Weighted(lo, 255, Buffer("hs_exit"))
<1>1. bitclk \in Int /\ bitclk >= 74 /\ bitclk <= 2500
  BY ServedClock
<1>2. HsExit = w /\ Buffer("hs_exit") \in {0, 10}
  BY BufferIs DEF HsExit, Served
<1>3. x \in Int /\ x >= 7400 /\ x <= 250000
  BY <1>1 DEF Ns
<1> HIDE DEF x
<1>4. /\ c \in Int /\ c >= 1 /\ c <= 255
      /\ \/ Unit = 7000 /\ 7000 * c >= x
         \/ Unit = 8000 /\ 8000 * c >= x
  <2>1. CASE Unit = 7000
    <3> DEFINE d == DivRoundUp(x, 7000)
    <3>1. d \in Int /\ 7000 * d >= x /\ 7000 * d <= x + 6999
      BY <1>3, DivRoundUpIs
    <3>2. c = d
      BY <2>1
    <3> HIDE DEF d, c
    <3> QED
      BY <1>3, <2>1, <3>1, <3>2
  <2>2. CASE Unit = 8000
    <3> DEFINE d == DivRoundUp(x, 8000)
    <3>1. d \in Int /\ 8000 * d >= x /\ 8000 * d <= x + 7999
      BY <1>3, DivRoundUpIs
    <3>2. c = d
      BY <2>2
    <3> HIDE DEF d, c
    <3> QED
      BY <1>3, <2>2, <3>1, <3>2
  <2> QED
    BY <2>1, <2>2, ServedClock
<1> HIDE DEF c
<1>5. lo \in Int /\ lo >= 0 /\ lo <= 255
  BY <1>4
<1>6. w \in lo .. 255
  <2> HIDE DEF lo
  <2> QED
    BY <1>2, <1>5, WeightedUp
<1> HIDE DEF w
<1>7. w \in Int /\ w >= 0 /\ w <= 255 /\ w + 1 >= c
  BY <1>4, <1>6
<1>8. Unit * (w + 1) >= x
  <2>1. CASE Unit = 7000 /\ 7000 * c >= x
    BY <1>3, <1>4, <1>7, <2>1
  <2>2. CASE Unit = 8000 /\ 8000 * c >= x
    BY <1>3, <1>4, <1>7, <2>2
  <2> QED
    BY <1>4, <2>1, <2>2
<1> QED
  BY <1>2, <1>7, <1>8 DEF HsExitKept, x

\* Times in thousandths of a bit add up and compare as the nanoseconds do.
LEMMA NsIs ==
  ASSUME Asked, NEW x \in Int, NEW y \in Int
  PROVE  /\ Ns(x) \in Int /\ Ns(x + y) = Ns(x) + Ns(y)
         /\ Ns(257 * x) = 257 * Ns(x) /\ Ns(106) = 106 * bitclk
         /\ Ns(x) < Ns(y) => x < y
         /\ Ns(0) = 0
<1>1. bitclk \in Int /\ bitclk > 0
  BY DEF Asked
<1>2. /\ x * bitclk \in Int /\ (x + y) * bitclk = x * bitclk + y * bitclk
      /\ (257 * x) * bitclk = 257 * (x * bitclk)
      /\ x >= y => x * bitclk >= y * bitclk
  BY <1>1
<1>3. y * bitclk \in Int
  BY <1>1
<1> QED
  BY <1>1, <1>2, <1>3 DEF Ns

\* A time in whole nanoseconds is right to a nanosecond.
LEMMA PulseTimeIs ==
  ASSUME Asked, NEW k \in Nat, NEW n \in Nat
  PROVE  /\ PulseTime(k, n) \in Nat
         /\ Ns(PulseTime(k, n)) > n * bitclk + 1000 * k - bitclk
         /\ Ns(PulseTime(k, n)) < n * bitclk + 1000 * k + bitclk
<1> DEFINE t == Twice(n, k)
           nb == n * bitclk
<1>1. bitclk \in Int /\ bitclk > 0 /\ nb \in Int
  BY DEF Asked
<1>2. t \in Nat /\ t >= nb + 1000 * k /\ t < nb + 1000 * k + bitclk
  BY TwiceIs
<1>3. PulseTime(k, n) = t \div bitclk
  BY DEF PulseTime
<1> HIDE DEF t
<1>4. /\ t \div bitclk \in Nat /\ Ns(t \div bitclk) \in Nat
      /\ Ns(t \div bitclk) <= t /\ Ns(t \div bitclk) > t - bitclk
  BY <1>2, WholeNs
<1> DEFINE q == t \div bitclk
<1> HIDE DEF nb, q
<1>5. Ns(q) > nb + 1000 * k - bitclk /\ Ns(q) < nb + 1000 * k + bitclk
  BY <1>1, <1>2, <1>4 DEF q
<1> QED
  BY <1>3, <1>4, <1>5 DEF q, nb

\* The last division: a quotient from 1 to 256, less one, fits.
LEMMA LastFits ==
  ASSUME NEW x \in Nat, NEW c \in Nat, c > 0, x >= c, x < 257 * c
  PROVE  x \div c - 1 \in 0 .. 255
<1> DEFINE q == x \div c
<1>1. q \in Nat /\ c * q = x - (x % c) /\ x % c \in 0 .. c - 1
  BY Quotient
<1> HIDE DEF q
<1>2. q # 0
  <2>1. q = 0 => c * q = 0
    OBVIOUS
  <2> QED
    BY <1>1, <2>1
<1>3. q < 257
  <2>1. q >= 257 => c * q >= 257 * c
    BY <1>1
  <2> QED
    BY <1>1, <2>1
<1> QED
  BY <1>1, <1>2, <1>3 DEF q

\* A pulse of 16 bits, by which both are divided.
LEMMA SixteenBits ==
  ASSUME Served
  PROVE  /\ PulseTime(16, 0) \in Nat /\ PulseTime(16, 0) > 0
         /\ Ns(PulseTime(16, 0)) > 16000 - bitclk
         /\ Ns(PulseTime(16, 0)) < 16000 + bitclk
<1> DEFINE c == PulseTime(16, 0)
<1>1. bitclk \in Int /\ bitclk >= 74 /\ bitclk <= 2500
  BY ServedClock
<1>2. 0 * bitclk = 0 /\ 1000 * 16 = 16000
  BY <1>1
<1>3. c \in Nat /\ Ns(c) > 16000 - bitclk /\ Ns(c) < 16000 + bitclk
  <2>1. /\ c \in Nat /\ Ns(c) > 0 * bitclk + 1000 * 16 - bitclk
        /\ Ns(c) < 0 * bitclk + 1000 * 16 + bitclk
    BY PulseTimeIs DEF Served
  <2> HIDE DEF c
  <2> QED
    BY <1>1, <1>2, <2>1
<1> HIDE DEF c
<1>4. c # 0
  BY <1>1, <1>3, NsIs DEF Served
<1> QED
  BY <1>3, <1>4 DEF c

\* However long the trail, what follows a burst fits.
LEMMA DphyClkPostFits ==
  ASSUME Served, desc["hs_trail"] \in 0 .. 255
  PROVE  DphyClkPost \in 0 .. 255
<1> DEFINE k == 8 * (desc["hs_trail"] + 1)
           a == PulseTime(k, 0)
           b == PulseTime(52, 60)
           c == PulseTime(16, 0)
<1>1. bitclk \in Int /\ bitclk >= 74 /\ bitclk <= 2500
  BY ServedClock
<1>2. k \in Nat /\ k <= 2048
  OBVIOUS
<1>3. DphyClkPost = (a + b) \div c - 1
  BY DEF DphyClkPost
<1> HIDE DEF k
<1>4. a \in Nat /\ Ns(a) > 0 - bitclk /\ Ns(a) < 2048000 + bitclk
  <2>1. /\ a \in Nat /\ Ns(a) > 0 * bitclk + 1000 * k - bitclk
        /\ Ns(a) < 0 * bitclk + 1000 * k + bitclk
    BY <1>2, PulseTimeIs DEF Served
  <2>2. 0 * bitclk = 0
    BY <1>1
  <2> HIDE DEF a
  <2>3. Ns(a) \in Int
    BY <2>1, NsIs DEF Served
  <2> QED
    BY <1>1, <1>2, <2>1, <2>2, <2>3
<1>5. b \in Nat /\ Ns(b) > 59 * bitclk + 52000 /\ Ns(b) < 61 * bitclk + 52000
  <2>1. /\ b \in Nat /\ Ns(b) > 60 * bitclk + 1000 * 52 - bitclk
        /\ Ns(b) < 60 * bitclk + 1000 * 52 + bitclk
    BY PulseTimeIs DEF Served
  <2> HIDE DEF b
  <2>2. Ns(b) \in Int
    BY <2>1, NsIs DEF Served
  <2> QED
    BY <1>1, <2>1, <2>2
<1>6. /\ c \in Nat /\ c > 0
      /\ Ns(c) > 16000 - bitclk /\ Ns(c) < 16000 + bitclk
  BY SixteenBits
<1> HIDE DEF a, b, c
<1>7. Ns(a) \in Int /\ Ns(b) \in Int /\ Ns(c) \in Int
  BY <1>4, <1>5, <1>6, NsIs DEF Served
<1>8. Ns(a + b) = Ns(a) + Ns(b) /\ Ns(257 * c) = 257 * Ns(c)
  BY <1>4, <1>5, <1>6, NsIs DEF Served
<1>9. Ns(c) < Ns(a + b) /\ Ns(a + b) < Ns(257 * c)
  BY <1>1, <1>4, <1>5, <1>6, <1>7, <1>8
<1>10. c < a + b /\ a + b < 257 * c
  <2> DEFINE d == a + b
             m == 257 * c
  <2>1. c \in Int /\ d \in Int /\ m \in Int
    BY <1>4, <1>5, <1>6
  <2>2. Ns(c) < Ns(d) /\ Ns(d) < Ns(m)
    BY <1>9
  <2> HIDE DEF d, m
  <2>3. c < d /\ d < m
    BY <2>1, <2>2, NsIs DEF Served
  <2> QED
    BY <2>3 DEF d, m
<1>11. a + b \in Nat /\ a + b >= c
  BY <1>4, <1>5, <1>6, <1>10
<1>12. (a + b) \div c - 1 \in 0 .. 255
  BY <1>6, <1>10, <1>11, LastFits
<1> QED
  BY <1>3, <1>12

\* What precedes a burst fits because prepare and zero phase keep their limits.
LEMMA DphyClkPreFits ==
  ASSUME Served, ~cphy, PrepareKept(desc["clk_prepare"]),
         ZeroKept(desc["clk_prepare"], desc["clk_zero"])
  PROVE  DphyClkPre \in 0 .. 255
<1> DEFINE p == desc["clk_prepare"]
           z == desc["clk_zero"]
           kp == 8 * p
           kz == 8 * (z + 1)
           a == PulseTime(kp, 0)
           b == PulseTime(kz, 0)
           c == PulseTime(16, 0)
<1>1. bitclk \in Int /\ bitclk >= 85 /\ bitclk <= 2500
  BY DphyClock
<1>2. /\ p \in Nat /\ z \in Nat
      /\ 8000 * p >= 38 * bitclk /\ 8000 * p <= 95 * bitclk
      /\ 8000 * z <= 300 * bitclk + 60000
  BY ServedClock DEF PrepareKept, ZeroKept, Ns
<1>3. DphyClkPre = (52 + a + b + 54) \div c - 1
  BY DEF DphyClkPre
<1> HIDE DEF p, z
<1>4. p >= 1
  BY <1>1, <1>2
<1>5. kp \in Nat /\ kz \in Nat /\ 1000 * kp = 8000 * p /\ 1000 * kz = 8000 * z + 8000
  BY <1>2
<1> HIDE DEF kp, kz
<1>6. a \in Nat /\ Ns(a) > 8000 * p - bitclk /\ Ns(a) < 8000 * p + bitclk
  <2>1. /\ a \in Nat /\ Ns(a) > 0 * bitclk + 1000 * kp - bitclk
        /\ Ns(a) < 0 * bitclk + 1000 * kp + bitclk
    <3>1. kp \in Nat
      BY <1>5
    <3> QED
      BY <3>1, PulseTimeIs DEF Served
  <2>2. 0 * bitclk = 0
    BY <1>1
  <2> HIDE DEF a
  <2>3. Ns(a) \in Int
    BY <2>1, NsIs DEF Served
  <2> QED
    BY <1>1, <1>2, <1>5, <2>1, <2>2, <2>3
<1>7. b \in Nat /\ Ns(b) > 8000 * z + 8000 - bitclk /\ Ns(b) < 8000 * z + 8000 + bitclk
  <2>1. /\ b \in Nat /\ Ns(b) > 0 * bitclk + 1000 * kz - bitclk
        /\ Ns(b) < 0 * bitclk + 1000 * kz + bitclk
    <3>1. kz \in Nat
      BY <1>5
    <3> QED
      BY <3>1, PulseTimeIs DEF Served
  <2>2. 0 * bitclk = 0
    BY <1>1
  <2> HIDE DEF b
  <2>3. Ns(b) \in Int
    BY <2>1, NsIs DEF Served
  <2> QED
    BY <1>1, <1>2, <1>5, <2>1, <2>2, <2>3
<1>8. /\ c \in Nat /\ c > 0
      /\ Ns(c) > 16000 - bitclk /\ Ns(c) < 16000 + bitclk
  BY SixteenBits
<1> HIDE DEF a, b, c
<1> DEFINE d == a + b
           x == 106 + d
<1>9. Ns(a) \in Int /\ Ns(b) \in Int /\ Ns(c) \in Int
  BY <1>6, <1>7, <1>8, NsIs DEF Served
<1>10. Ns(d) = Ns(a) + Ns(b) /\ Ns(257 * c) = 257 * Ns(c)
  BY <1>6, <1>7, <1>8, NsIs DEF Served
<1>11. d \in Nat /\ x \in Nat /\ 52 + a + b + 54 = x
  BY <1>6, <1>7
<1> HIDE DEF d
<1>12. Ns(x) = 106 * bitclk + Ns(d)
  BY <1>11, NsIs DEF Served
<1> HIDE DEF x
<1>13. Ns(c) < Ns(x)
  BY <1>1, <1>2, <1>4, <1>6, <1>7, <1>8, <1>9, <1>10, <1>12
<1>14. Ns(x) < Ns(257 * c)
  BY <1>1, <1>2, <1>6, <1>7, <1>8, <1>9, <1>10, <1>12
<1>15. c < x /\ x < 257 * c
  <2>1. c \in Int /\ x \in Int /\ 257 * c \in Int
    BY <1>8, <1>11
  <2> QED
    BY <1>13, <1>14, <2>1, NsIs DEF Served
<1>16. x >= c
  BY <1>8, <1>11, <1>15
<1>17. x \div c - 1 \in 0 .. 255
  BY <1>8, <1>11, <1>15, <1>16, LastFits
<1> QED
  BY <1>3, <1>11, <1>17

\* What comes before and after a C-PHY's burst: 7 bits at least.
CphyClkKept(max, r) == r \in 1 .. 255 /\ Bits(7 * r) <= Bits(max)

\* There is room for a value at the fastest clock and the slowest.
LEMMA CphyClkFits ==
  ASSUME Served, cphy, NEW max \in {224, 448}, NEW e \in {"clk_pre", "clk_post"}
  PROVE  CphyClkKept(max, CphyClk(max, e))
<1> DEFINE q == Ns(7000 \div bitclk)
           m == 1000 * max
           u == Ns(m \div bitclk)
           lo == DivRoundUp(q, 7000)
           hi == u \div 7000
           s == Share(lo, hi, Buffer(e))
<1>1. bitclk \in Int /\ bitclk >= 74 /\ bitclk <= 2500
  BY CphyClock
<1>2. CphyClk(max, e) = lo + s
  BY DEF CphyClk, Bits
<1>3. q \in Nat /\ q <= 7000 /\ q > 7000 - bitclk
  BY WholeNs DEF Served
<1>4. m \in Nat /\ m >= 224000 /\ m <= 448000
  OBVIOUS
<1>5. u \in Nat /\ u <= m /\ u > m - bitclk
  <2> HIDE DEF m
  <2> QED
    BY <1>4, WholeNs DEF Served
<1> HIDE DEF q, u
<1>6. lo = 1
  <2>1. lo \in Int /\ 7000 * lo >= q /\ 7000 * lo <= q + 6999
    BY <1>3, DivRoundUpIs
  <2> HIDE DEF lo
  <2> QED
    BY <1>1, <1>3, <2>1
<1>7. hi \in Int /\ hi >= 1 /\ hi <= 255 /\ 7000 * hi <= m
  <2> HIDE DEF m
  <2>1. hi \in Int /\ 7000 * hi <= u /\ 7000 * hi > u - 7000
    BY <1>5
  <2> HIDE DEF hi
  <2> QED
    BY <1>1, <1>4, <1>5, <2>1
<1> HIDE DEF lo, hi
<1>8. s \in 0 .. hi - lo
  <2>1. Buffer(e) \in {0, 10, 50}
    BY BufferIs DEF Served
  <2>2. lo \in Int /\ hi \in Int /\ lo <= hi
    BY <1>6, <1>7
  <2> QED
    BY <2>1, <2>2, ShareIs, Zenon
<1> HIDE DEF s
<1> DEFINE r == lo + s
<1>9. r \in Int /\ r >= 1 /\ r <= hi
  BY <1>6, <1>7, <1>8
<1> HIDE DEF r
<1>10. r \in 1 .. 255
  BY <1>7, <1>9
<1>11. 1000 * (7 * r) <= m
  <2> HIDE DEF m
  <2> QED
    BY <1>4, <1>7, <1>9
<1> QED
  BY <1>2, <1>10, <1>11 DEF CphyClkKept, Bits, r

-----------------------------------------------------------------------------
(* The call: what is computed is a prefix of the order, each entry of it    *)
(* keeps its limits, and only a clock no prepare phase can serve is refused.*)

Order == IF cphy THEN CphyOrder ELSE DphyOrder
Done == Len(Order) - Len(todo)

\* What r keeps as the value of entry e.
Keeps(e, r) ==
  CASE e = "clk_prepare" -> PrepareKept(r)
    [] e = "clk_zero" -> ZeroKept(desc["clk_prepare"], r)
    [] e = "clk_trail" -> ClkTrailKept(r)
    [] e = "hs_prepare" -> HsPrepareKept(r)
    [] e = "hs_zero" -> HsZeroKept(desc["hs_prepare"], r)
    [] e = "hs_trail" -> HsTrailKept(r)
    [] e = "hs_rqst" -> HsRqstKept(r)
    [] e = "hs_exit" -> HsExitKept(r)
    [] e = "clk_pre" -> IF cphy THEN CphyClkKept(448, r) ELSE r \in 0 .. 255
    [] e = "clk_post" -> IF cphy THEN CphyClkKept(224, r) ELSE r \in 0 .. 255
    [] OTHER -> r \in 0 .. 255

Typed ==
  /\ version \in Version /\ cphy \in BOOLEAN /\ bitclk \in BitClk
  /\ desc \in [Entry -> 0 .. 255]
  /\ rc \in {"busy", "ok", "EINVAL"}

\* What is left to compute is the end of the order.
InOrder ==
  /\ todo \in Seq(Entry) /\ Len(todo) <= Len(Order)
  /\ \A i \in 1 .. Len(todo) : todo[i] = Order[Done + i]

\* What has been computed keeps its limits.
ComputedKept ==
  Attainable => \A i \in 1 .. Done : Keeps(Order[i], desc[Order[i]])

Answered ==
  /\ rc = "EINVAL" => ~Attainable
  /\ rc = "ok" => todo = <<>> /\ timing = [e \in Laid |-> desc[e]]
  /\ rc # "ok" => timing = [e \in {} |-> 0]

IInv == Typed /\ InOrder /\ ComputedKept /\ Answered

\* The two orders, place by place.
LEMMA DphyOrderIs ==
  /\ Len(DphyOrder) = 11
  /\ DphyOrder[1] = "clk_prepare" /\ DphyOrder[2] = "clk_zero"
  /\ DphyOrder[3] = "clk_trail" /\ DphyOrder[4] = "hs_prepare"
  /\ DphyOrder[5] = "hs_zero" /\ DphyOrder[6] = "hs_trail"
  /\ DphyOrder[7] = "hs_rqst" /\ DphyOrder[8] = "hs_exit"
  /\ DphyOrder[9] = "hs_rqst_clk" /\ DphyOrder[10] = "clk_post"
  /\ DphyOrder[11] = "clk_pre"
BY DEF DphyOrder

\* A C-PHY's order.
LEMMA CphyOrderIs ==
  /\ Len(CphyOrder) = 5
  /\ CphyOrder[1] = "clk_prepare" /\ CphyOrder[2] = "clk_pre"
  /\ CphyOrder[3] = "clk_post" /\ CphyOrder[4] = "hs_rqst"
  /\ CphyOrder[5] = "hs_exit"
BY DEF CphyOrder

\* The entries, listed.
LEMMA EntryIs ==
  Entry = {"clk_prepare", "clk_zero", "clk_trail", "hs_prepare", "hs_zero",
           "hs_trail", "hs_rqst", "hs_exit", "hs_rqst_clk", "clk_post", "clk_pre"}
<1>1. DOMAIN DphyOrder = 1 .. 11
  BY DEF DphyOrder
<1> QED
  BY <1>1, DphyOrderIs DEF Entry

\* An order names each entry once, and a prepare phase before its zero phase.
LEMMA OrderIs ==
  ASSUME cphy \in BOOLEAN
  PROVE  /\ Len(Order) = IF cphy THEN 5 ELSE 11
         /\ \A i \in 1 .. Len(Order) : Order[i] \in Entry
         /\ \A j, k \in 1 .. Len(Order) : j < k =>
              /\ Order[j] # Order[k]
              /\ ~(Order[j] = "clk_zero" /\ Order[k] = "clk_prepare")
              /\ ~(Order[j] = "hs_zero" /\ Order[k] = "hs_prepare")
<1>1. CASE cphy
  <2>1. Order = CphyOrder
    BY <1>1 DEF Order
  <2>2. \A i \in 1 .. 5 : i = 1 \/ i = 2 \/ i = 3 \/ i = 4 \/ i = 5
    OBVIOUS
  <2> QED
    BY <1>1, <2>1, <2>2, CphyOrderIs, EntryIs
<1>2. CASE ~cphy
  <2>1. Order = DphyOrder
    BY <1>2 DEF Order
  <2>2. \A i \in 1 .. 11 : \/ i = 1 \/ i = 2 \/ i = 3 \/ i = 4 \/ i = 5 \/ i = 6
                           \/ i = 7 \/ i = 8 \/ i = 9 \/ i = 10 \/ i = 11
    OBVIOUS
  <2>3. \A i \in 1 .. 11 : DphyOrder[i] \in Entry
    BY <2>2, DphyOrderIs, EntryIs
  <2>4. \A j, k \in 1 .. 11 : j < k =>
              /\ DphyOrder[j] # DphyOrder[k]
              /\ ~(DphyOrder[j] = "clk_zero" /\ DphyOrder[k] = "clk_prepare")
              /\ ~(DphyOrder[j] = "hs_zero" /\ DphyOrder[k] = "hs_prepare")
    BY <2>2, DphyOrderIs
  <2> QED
    BY <1>2, <2>1, <2>3, <2>4, DphyOrderIs
<1> QED
  BY <1>1, <1>2

\* What a value keeps is about the clock and the prepare phases only.
LEMMA KeepsSame ==
  ASSUME UNCHANGED <<version, cphy, bitclk>>, NEW e, NEW r,
         e = "clk_zero" => desc'["clk_prepare"] = desc["clk_prepare"],
         e = "hs_zero" => desc'["hs_prepare"] = desc["hs_prepare"]
  PROVE  Keeps(e, r)' <=> Keeps(e, r)
<1>1. \A n : Ns(n)' = Ns(n)
  BY DEF Ns
<1>2. Unit' = Unit
  BY DEF Unit, Bits
<1>3. PrepareKept(r)' <=> PrepareKept(r)
  BY <1>1, <1>2 DEF PrepareKept
<1>4. \A p : ZeroKept(p, r)' <=> ZeroKept(p, r)
  BY DEF ZeroKept, ClkZeroPhase, Ns, Bits
<1>5. (ClkTrailKept(r)' <=> ClkTrailKept(r)) /\ (HsTrailKept(r)' <=> HsTrailKept(r))
  BY DEF ClkTrailKept, HsTrailKept, TrailPhase, Ns, Bits
<1>6. HsPrepareKept(r)' <=> HsPrepareKept(r)
  BY DEF HsPrepareKept, HsPreparePhase, Ns, Bits
<1>7. \A p : HsZeroKept(p, r)' <=> HsZeroKept(p, r)
  BY DEF HsZeroKept, HsPreparePhase, HsZeroPhase, Ns, Bits
<1>8. (HsRqstKept(r)' <=> HsRqstKept(r)) /\ (HsExitKept(r)' <=> HsExitKept(r))
  BY <1>1, <1>2 DEF HsRqstKept, HsExitKept
<1>9. \A max : CphyClkKept(max, r)' <=> CphyClkKept(max, r)
  BY DEF CphyClkKept, Bits
<1> QED
  BY <1>3, <1>4, <1>5, <1>6, <1>7, <1>8, <1>9 DEF Keeps

\* What keeps its limits fits its register.
LEMMA KeepsFits == ASSUME NEW e, NEW r, Keeps(e, r) PROVE r \in 0 .. 255
<1>1. r \in 1 .. 255 => r \in 0 .. 255
  OBVIOUS
<1> QED
  BY <1>1 DEF Keeps, PrepareKept, ZeroKept, ClkTrailKept, HsPrepareKept, HsZeroKept,
              HsTrailKept, HsRqstKept, HsExitKept, CphyClkKept

\* The clocks and versions asked for are those assumed of the constants.
LEMMA AskedIs == Typed => Asked
BY VersionAssumption, BitClkAssumption DEF Typed, Asked

\* Nothing is computed yet.
LEMMA InitHolds == Init => IInv
<1> SUFFICES ASSUME Init PROVE IInv
    OBVIOUS
<1>1. cphy \in BOOLEAN /\ todo = Order /\ rc = "busy"
  BY DEF Init, Order
<1>2. Len(Order) \in Nat /\ Order \in Seq(Entry)
  <2>1. DphyOrder \in Seq(Entry) /\ CphyOrder \in Seq(Entry)
    BY EntryIs DEF DphyOrder, CphyOrder
  <2> QED
    BY <1>1, <2>1, OrderIs DEF Order
<1>3. Done = 0
  BY <1>1, <1>2 DEF Done
<1>4. Typed
  <2>1. desc \in [Entry -> 0 .. 255]
    BY DEF Init
  <2> QED
    BY <1>1, <2>1 DEF Typed, Init
<1>5. InOrder
  BY <1>1, <1>2, <1>3 DEF InOrder
<1>6. ComputedKept
  BY <1>3 DEF ComputedKept
<1>7. Answered
  BY <1>1 DEF Answered, Init
<1> QED
  BY <1>4, <1>5, <1>6, <1>7 DEF IInv

\* The entry whose turn it is, and what a call has done so far.
LEMMA TurnIs ==
  ASSUME IInv, todo # <<>>
  PROVE  /\ Done \in Nat /\ Done + 1 \in 1 .. Len(Order)
         /\ Len(todo) \in Nat /\ Len(todo) >= 1
         /\ Head(todo) = Order[Done + 1]
<1>1. todo \in Seq(Entry) /\ Len(todo) <= Len(Order) /\ cphy \in BOOLEAN
      /\ \A i \in 1 .. Len(todo) : todo[i] = Order[Done + i]
  BY DEF IInv, InOrder, Typed
<1>2. Len(todo) \in Nat /\ Len(todo) >= 1 /\ Head(todo) = todo[1]
  BY <1>1
<1>3. Len(Order) \in Nat
  BY <1>1, OrderIs
<1> QED
  BY <1>1, <1>2, <1>3 DEF Done

\* A value that keeps its limits is taken and keeps the invariant; one that
\* does not fit is an answer only where the clock cannot be served.
LEMMA CalcKeeps ==
  ASSUME IInv, NEW e \in Entry, NEW rec, Calc(e, rec),
         Attainable => Keeps(e, rec)
  PROVE  IInv'
<1>1. /\ rc = "busy" /\ todo # <<>> /\ Head(todo) = e
      /\ UNCHANGED <<version, cphy, bitclk>> /\ timing' = timing
  BY DEF Calc
<1>2. /\ Done \in Nat /\ Done + 1 \in 1 .. Len(Order)
      /\ Len(todo) \in Nat /\ Len(todo) >= 1 /\ e = Order[Done + 1]
  BY <1>1, TurnIs
<1>3. cphy \in BOOLEAN /\ Len(Order) \in Nat
  BY OrderIs DEF IInv, Typed
<1>4. Order' = Order /\ (Attainable' <=> Attainable) /\ Laid' = Laid
  BY <1>1 DEF Order, Attainable, Unit, Ns, Bits, Laid, V2Laid, V3Laid, DphyLaid
<1>5. todo \in Seq(Entry) /\ Len(todo) <= Len(Order)
      /\ \A i \in 1 .. Len(todo) : todo[i] = Order[Done + i]
  BY DEF IInv, InOrder
<1>6. desc \in [Entry -> 0 .. 255]
  BY DEF IInv, Typed
<1>7. CASE rec \in 0 .. 255 /\ desc' = [desc EXCEPT ![e] = rec]
           /\ todo' = Tail(todo) /\ rc' = rc
  <2>1. /\ desc' \in [Entry -> 0 .. 255] /\ desc'[e] = rec
        /\ \A x \in Entry : x # e => desc'[x] = desc[x]
    BY <1>6, <1>7
  <2>2. /\ todo' \in Seq(Entry) /\ Len(todo') = Len(todo) - 1
        /\ \A i \in 1 .. Len(todo') : todo'[i] = todo[i + 1]
    BY <1>1, <1>5, <1>7
  <2>3. Done' = Done + 1
    BY <1>2, <1>3, <1>4, <2>2 DEF Done
  <2>4. Typed'
    BY <1>1, <1>7, <2>1 DEF IInv, Typed
  <2>5. InOrder'
    <3>1. ASSUME NEW i \in 1 .. Len(todo') PROVE todo'[i] = Order'[Done' + i]
      <4>1. i + 1 \in 1 .. Len(todo) /\ Done + (i + 1) = Done' + i
        BY <1>2, <2>2, <2>3
      <4> QED
        BY <1>4, <1>5, <2>2, <4>1
    <3>2. Len(todo') <= Len(Order')
      BY <1>2, <1>3, <1>4, <1>5, <2>2
    <3> QED
      BY <2>2, <3>1, <3>2 DEF InOrder
  <2>6. ComputedKept'
    <3> SUFFICES ASSUME Attainable, NEW i \in 1 .. Done + 1
                 PROVE  Keeps(Order[i], desc[Order[i]])'
        BY <1>4, <2>3 DEF ComputedKept
    <3> PICK x : x = Order[i]
        OBVIOUS
    <3> PICK r : r = desc'[x]
        OBVIOUS
    <3>1. i \in 1 .. Len(Order) /\ x \in Entry
      BY <1>2, <1>3, OrderIs
    <3>2. "clk_prepare" \in Entry /\ "hs_prepare" \in Entry
      BY EntryIs
    <3>3. /\ x = "clk_zero" => e # "clk_prepare"
          /\ x = "hs_zero" => e # "hs_prepare"
      <4>1. CASE i = Done + 1
        BY <1>2, <4>1
      <4>2. CASE i # Done + 1
        BY <1>2, <1>3, <3>1, <4>2, OrderIs
      <4> QED
        BY <4>1, <4>2
    <3>4. Keeps(x, r)
      <4>1. CASE i = Done + 1
        BY <1>2, <2>1, <4>1
      <4>2. CASE i # Done + 1
        <5>1. i \in 1 .. Done /\ x # e
          BY <1>2, <1>3, <3>1, <4>2, OrderIs
        <5> QED
          BY <2>1, <3>1, <5>1 DEF IInv, ComputedKept
      <4> QED
        BY <4>1, <4>2
    <3>5. /\ x = "clk_zero" => desc'["clk_prepare"] = desc["clk_prepare"]
          /\ x = "hs_zero" => desc'["hs_prepare"] = desc["hs_prepare"]
      BY <2>1, <3>2, <3>3
    <3>6. Keeps(x, r)'
      BY <1>1, <3>4, <3>5, KeepsSame
    <3> QED
      BY <1>4, <3>6
  <2>7. Answered'
    BY <1>1, <1>7 DEF IInv, Answered
  <2> QED
    BY <2>4, <2>5, <2>6, <2>7 DEF IInv
<1>8. CASE rec \notin 0 .. 255 /\ rc' = "EINVAL" /\ UNCHANGED <<desc, todo>>
  <2>1. ~Attainable
    BY <1>8, KeepsFits
  <2>2. Done' = Done
    BY <1>4, <1>8 DEF Done
  <2>3. Typed'
    BY <1>1, <1>8 DEF IInv, Typed
  <2>4. InOrder'
    BY <1>4, <1>5, <1>8, <2>2 DEF InOrder
  <2>5. ComputedKept'
    BY <1>4, <2>1 DEF ComputedKept
  <2>6. Answered'
    BY <1>1, <1>4, <1>8, <2>1 DEF IInv, Answered
  <2> QED
    BY <2>3, <2>4, <2>5, <2>6 DEF IInv
<1> QED
  BY <1>7, <1>8 DEF Calc, Fits

\* What an entry is computed from was computed before, and keeps its limits.
LEMMA ComputedBefore ==
  ASSUME IInv, Attainable, todo # <<>>
  PROVE  /\ Head(todo) \in {"clk_zero", "clk_trail", "hs_prepare", "hs_zero",
                            "hs_trail", "hs_rqst_clk"} => ~cphy
         /\ Head(todo) = "clk_zero" => PrepareKept(desc["clk_prepare"])
         /\ Head(todo) = "hs_zero" => HsPrepareKept(desc["hs_prepare"])
         /\ Head(todo) = "clk_post" /\ ~cphy => HsTrailKept(desc["hs_trail"])
         /\ Head(todo) = "clk_pre" /\ ~cphy =>
              /\ PrepareKept(desc["clk_prepare"])
              /\ ZeroKept(desc["clk_prepare"], desc["clk_zero"])
<1>1. /\ cphy \in BOOLEAN
      /\ Done \in Nat /\ Done + 1 \in 1 .. Len(Order) /\ Head(todo) = Order[Done + 1]
      /\ \A i \in 1 .. Done : Keeps(Order[i], desc[Order[i]])
  <2>1. /\ cphy \in BOOLEAN
        /\ \A i \in 1 .. Done : Keeps(Order[i], desc[Order[i]])
    BY DEF IInv, Typed, ComputedKept
  <2> QED
    BY <2>1, TurnIs
<1>2. CASE cphy
  <2>1. Order = CphyOrder /\ Len(Order) = 5
    BY <1>2, CphyOrderIs DEF Order
  <2>2. \/ Done = 0 \/ Done = 1 \/ Done = 2 \/ Done = 3 \/ Done = 4
    BY <1>1, <2>1
  <2> QED
    BY <1>1, <1>2, <2>1, <2>2, CphyOrderIs
<1>3. CASE ~cphy
  <2>1. Order = DphyOrder /\ Len(Order) = 11
    BY <1>3, DphyOrderIs DEF Order
  <2>2. \/ Done = 0 \/ Done = 1 \/ Done = 2 \/ Done = 3 \/ Done = 4 \/ Done = 5
        \/ Done = 6 \/ Done = 7 \/ Done = 8 \/ Done = 9 \/ Done = 10
    BY <1>1, <2>1
  <2>3. /\ Done >= 1 => PrepareKept(desc["clk_prepare"])
        /\ Done >= 2 => ZeroKept(desc["clk_prepare"], desc["clk_zero"])
        /\ Done >= 4 => HsPrepareKept(desc["hs_prepare"])
        /\ Done >= 6 => HsTrailKept(desc["hs_trail"])
    <3>1. /\ Done >= 1 => Keeps("clk_prepare", desc["clk_prepare"])
          /\ Done >= 2 => Keeps("clk_zero", desc["clk_zero"])
          /\ Done >= 4 => Keeps("hs_prepare", desc["hs_prepare"])
          /\ Done >= 6 => Keeps("hs_trail", desc["hs_trail"])
      BY <1>1, <2>1, DphyOrderIs
    <3> QED
      BY <3>1 DEF Keeps
  <2>4. /\ Head(todo) = "clk_zero" => Done = 1
        /\ Head(todo) = "hs_zero" => Done = 4
        /\ Head(todo) = "clk_post" => Done = 9
        /\ Head(todo) = "clk_pre" => Done = 10
    BY <1>1, <2>1, <2>2, DphyOrderIs
  <2> QED
    BY <1>3, <2>3, <2>4
<1> QED
  BY <1>1, <1>2, <1>3

\* Each entry is computed in its turn, from values that keep their limits.
LEMMA StepHolds == IInv /\ [Next]_vars => IInv'
<1> SUFFICES ASSUME IInv, [Next]_vars PROVE IInv'
    OBVIOUS
<1>1. Attainable => Served
  BY AskedIs DEF IInv, Served
<1>2. \A e, rec : Calc(e, rec) => todo # <<>> /\ Head(todo) = e
  BY DEF Calc
<1>3. CASE CalcClkPrepare
  <2>1. Attainable => Keeps("clk_prepare", ClkPrepare)
    BY <1>1, ClkPrepareFits DEF Keeps
  <2> QED
    BY <1>3, <2>1, EntryIs, CalcKeeps DEF CalcClkPrepare
<1>4. CASE CalcClkZero
  <2>1. Attainable => Keeps("clk_zero", ClkZero)
    BY <1>1, <1>2, <1>4, ComputedBefore, ClkZeroFits DEF Keeps, CalcClkZero
  <2> QED
    BY <1>4, <2>1, EntryIs, CalcKeeps DEF CalcClkZero
<1>5. CASE CalcClkTrail
  <2>1. Attainable => Keeps("clk_trail", ClkTrail)
    BY <1>1, <1>2, <1>5, ComputedBefore, ClkTrailFits DEF Keeps, CalcClkTrail
  <2> QED
    BY <1>5, <2>1, EntryIs, CalcKeeps DEF CalcClkTrail
<1>6. CASE CalcHsPrepare
  <2>1. Attainable => Keeps("hs_prepare", HsPrepare)
    BY <1>1, <1>2, <1>6, ComputedBefore, HsPrepareFits DEF Keeps, CalcHsPrepare
  <2> QED
    BY <1>6, <2>1, EntryIs, CalcKeeps DEF CalcHsPrepare
<1>7. CASE CalcHsZero
  <2>1. Attainable => Keeps("hs_zero", HsZero)
    BY <1>1, <1>2, <1>7, ComputedBefore, HsZeroFits DEF Keeps, CalcHsZero
  <2> QED
    BY <1>7, <2>1, EntryIs, CalcKeeps DEF CalcHsZero
<1>8. CASE CalcHsTrail
  <2>1. Attainable => Keeps("hs_trail", HsTrail)
    BY <1>1, <1>2, <1>8, ComputedBefore, HsTrailFits DEF Keeps, CalcHsTrail
  <2> QED
    BY <1>8, <2>1, EntryIs, CalcKeeps DEF CalcHsTrail
<1>9. CASE CalcHsRqst
  <2>1. Attainable => Keeps("hs_rqst", HsRqst)
    BY <1>1, HsRqstFits DEF Keeps
  <2> QED
    BY <1>9, <2>1, EntryIs, CalcKeeps DEF CalcHsRqst
<1>10. CASE CalcHsExit
  <2>1. Attainable => Keeps("hs_exit", HsExit)
    BY <1>1, HsExitFits DEF Keeps
  <2> QED
    BY <1>10, <2>1, EntryIs, CalcKeeps DEF CalcHsExit
<1>11. CASE CalcHsRqstClk
  <2>1. Attainable => Keeps("hs_rqst_clk", HsRqst)
    BY <1>1, HsRqstFits DEF Keeps, HsRqstKept
  <2> QED
    BY <1>11, <2>1, EntryIs, CalcKeeps DEF CalcHsRqstClk
<1>12. CASE CalcClkPost
  <2>1. Attainable => Keeps("clk_post", ClkPost)
    <3> SUFFICES ASSUME Attainable PROVE Keeps("clk_post", ClkPost)
        OBVIOUS
    <3>1. CASE cphy
      BY <1>1, <3>1, CphyClkFits DEF Keeps, ClkPost
    <3>2. CASE ~cphy
      <4>1. desc["hs_trail"] \in 0 .. 255
        BY EntryIs DEF IInv, Typed
      <4> QED
        BY <1>1, <3>2, <4>1, DphyClkPostFits DEF Keeps, ClkPost
    <3> QED
      BY <3>1, <3>2
  <2> QED
    BY <1>12, <2>1, EntryIs, CalcKeeps DEF CalcClkPost
<1>13. CASE CalcClkPre
  <2>1. Attainable => Keeps("clk_pre", ClkPre)
    <3> SUFFICES ASSUME Attainable PROVE Keeps("clk_pre", ClkPre)
        OBVIOUS
    <3>1. CASE cphy
      BY <1>1, <3>1, CphyClkFits DEF Keeps, ClkPre
    <3>2. CASE ~cphy
      <4>1. todo # <<>> /\ Head(todo) = "clk_pre"
        BY <1>2, <1>13 DEF CalcClkPre
      <4>2. PrepareKept(desc["clk_prepare"])
            /\ ZeroKept(desc["clk_prepare"], desc["clk_zero"])
        BY <3>2, <4>1, ComputedBefore
      <4> QED
        BY <1>1, <3>2, <4>2, DphyClkPreFits DEF Keeps, ClkPre
    <3> QED
      BY <3>1, <3>2
  <2> QED
    BY <1>13, <2>1, EntryIs, CalcKeeps DEF CalcClkPre
<1>14. ASSUME UNCHANGED <<version, cphy, bitclk, todo, desc>>,
              Answered', rc' \in {"busy", "ok", "EINVAL"}
       PROVE  IInv'
  <2>1. /\ Order' = Order /\ Done' = Done /\ (Attainable' <=> Attainable)
    BY <1>14 DEF Order, Done, Attainable, Unit, Ns, Bits
  <2>2. Typed' /\ InOrder'
    BY <1>14, <2>1 DEF IInv, Typed, InOrder
  <2>3. ComputedKept'
    <3> SUFFICES ASSUME Attainable, NEW i \in 1 .. Done
                 PROVE  Keeps(Order[i], desc[Order[i]])'
        BY <2>1 DEF ComputedKept
    <3> PICK x : x = Order[i]
        OBVIOUS
    <3> PICK r : r = desc[x]
        OBVIOUS
    <3>1. Keeps(x, r)
      BY DEF IInv, ComputedKept
    <3>2. Keeps(x, r)'
      BY <1>14, <3>1, KeepsSame
    <3> QED
      BY <1>14, <2>1, <3>2
  <2> QED
    BY <1>14, <2>2, <2>3 DEF IInv
<1>15. CASE UpdateTimingParams
  <2>1. Answered' /\ rc' \in {"busy", "ok", "EINVAL"}
    BY <1>15 DEF UpdateTimingParams, Answered, Laid, V2Laid, V3Laid, DphyLaid
  <2> QED
    BY <1>14, <1>15, <2>1 DEF UpdateTimingParams
<1>16. CASE UNCHANGED vars
  <2>1. Laid' = Laid /\ (Attainable' <=> Attainable)
    BY <1>16 DEF Attainable, Unit, Ns, Bits, Laid, V2Laid, V3Laid, DphyLaid, vars
  <2>2. Answered' /\ rc' \in {"busy", "ok", "EINVAL"}
    BY <1>16, <2>1 DEF IInv, Typed, Answered, vars
  <2> QED
    BY <1>14, <1>16, <2>2 DEF vars
<1> QED
  BY <1>3, <1>4, <1>5, <1>6, <1>7, <1>8, <1>9, <1>10, <1>11, <1>12, <1>13,
     <1>15, <1>16 DEF Next

-----------------------------------------------------------------------------
(* The properties.                                                         *)

\* What a call that has answered "ok" handed on.
LEMMA LaidKept ==
  ASSUME IInv, rc = "ok", Attainable
  PROVE  /\ \A e \in Laid : timing[e] = desc[e]
         /\ ~cphy => /\ PrepareKept(desc["clk_prepare"])
                     /\ ZeroKept(desc["clk_prepare"], desc["clk_zero"])
                     /\ ClkTrailKept(desc["clk_trail"])
                     /\ HsPrepareKept(desc["hs_prepare"])
                     /\ HsZeroKept(desc["hs_prepare"], desc["hs_zero"])
                     /\ HsTrailKept(desc["hs_trail"])
         /\ cphy => /\ PrepareKept(desc["clk_prepare"])
                    /\ CphyClkKept(448, desc["clk_pre"])
                    /\ CphyClkKept(224, desc["clk_post"])
         /\ HsRqstKept(desc["hs_rqst"]) /\ HsExitKept(desc["hs_exit"])
<1>1. /\ todo = <<>> /\ timing = [e \in Laid |-> desc[e]] /\ cphy \in BOOLEAN
      /\ \A i \in 1 .. Done : Keeps(Order[i], desc[Order[i]])
  BY DEF IInv, Typed, Answered, ComputedKept
<1>2. CASE cphy
  <2>1. Order = CphyOrder /\ Done = 5
    BY <1>1, <1>2, CphyOrderIs DEF Order, Done
  <2>2. \A e \in {"clk_prepare", "clk_pre", "clk_post", "hs_rqst", "hs_exit"} :
           Keeps(e, desc[e])
    BY <1>1, <2>1, CphyOrderIs
  <2> QED
    BY <1>1, <1>2, <2>2 DEF Keeps
<1>3. CASE ~cphy
  <2>1. Order = DphyOrder /\ Done = 11
    BY <1>1, <1>3, DphyOrderIs DEF Order, Done
  <2>2. \A e \in {"clk_prepare", "clk_zero", "clk_trail", "hs_prepare", "hs_zero",
                  "hs_trail", "hs_rqst", "hs_exit"} : Keeps(e, desc[e])
    BY <1>1, <2>1, DphyOrderIs
  <2> QED
    BY <1>1, <1>3, <2>2 DEF Keeps
<1> QED
  BY <1>1, <1>2, <1>3

\* The values of a D-PHY, as the phases they stand for.
LEMMA DphyFitsHolds ==
  ASSUME IInv, rc = "ok", Attainable, ~cphy
  PROVE  DphyFits
<1>1. /\ version \in {2, 3, 4} /\ bitclk \in Int
      /\ desc \in [Entry -> 0 .. 255] /\ Unit = 8000
  <2>1. Asked
    BY AskedIs DEF IInv
  <2>2. Unit = 8000
    BY <2>1, UnitIs
  <2> QED
    BY <2>1, <2>2 DEF IInv, Typed, Asked
<1>2. \A e \in DphyLaid : timing[e] = desc[e]
  BY <1>1, LaidKept DEF Laid, V2Laid, V3Laid
<1>3. \A e \in DphyLaid : desc[e] \in 0 .. 255
  BY <1>1, EntryIs DEF DphyLaid
<1>4. Phase("clk_prepare") \in Ns(38) .. Ns(95)
  <2>1. Phase("clk_prepare") = 8000 * desc["clk_prepare"]
    BY <1>2, <1>3 DEF Phase, PhaseBits, Bits, DphyLaid
  <2> QED
    BY <1>1, <2>1, LaidKept DEF PrepareKept
<1>5. Phase("clk_prepare") + Phase("clk_zero") >= Ns(300)
  <2>1. Phase("clk_prepare") = Bits(8 * desc["clk_prepare"])
    BY <1>2 DEF Phase, PhaseBits, DphyLaid
  <2>2. Phase("clk_zero") = ClkZeroPhase(desc["clk_zero"])
    BY <1>2 DEF Phase, PhaseBits, DphyLaid, ClkZeroPhase
  <2> QED
    BY <2>1, <2>2, LaidKept DEF ZeroKept
<1>6. Phase("clk_trail") \in Ns(60) .. (Ns(85) + Bits(12))
  <2>1. Phase("clk_trail") = TrailPhase(desc["clk_trail"])
    BY <1>2 DEF Phase, PhaseBits, DphyLaid, TrailPhase
  <2> QED
    BY <2>1, LaidKept DEF ClkTrailKept
<1>7. Phase("hs_prepare") = HsPreparePhase(desc["hs_prepare"])
  BY <1>2 DEF Phase, PhaseBits, DphyLaid, HsPreparePhase
<1>8. Phase("hs_prepare") \in (Ns(40) + Bits(4)) .. (Ns(85) + Bits(6))
  BY <1>7, LaidKept DEF HsPrepareKept
<1>9. Phase("hs_prepare") + Phase("hs_zero") >= Ns(145) + Bits(10)
  <2>1. Phase("hs_zero") = HsZeroPhase(desc["hs_zero"])
    BY <1>2 DEF Phase, PhaseBits, DphyLaid, HsZeroPhase
  <2> QED
    BY <1>7, <2>1, LaidKept DEF HsZeroKept
<1>10. Phase("hs_trail") > Ns(59) + Bits(4)
  <2>1. Phase("hs_trail") = TrailPhase(desc["hs_trail"])
    BY <1>2 DEF Phase, PhaseBits, DphyLaid, TrailPhase
  <2> QED
    BY <2>1, LaidKept DEF HsTrailKept
<1>11. \A e \in {"hs_exit", "hs_rqst"} : Phase(e) = Unit * (desc[e] + 1)
  <2>1. \A e \in {"hs_exit", "hs_rqst"} : Phase(e) = Bits(8 * (desc[e] + 1))
    BY <1>2 DEF Phase, PhaseBits, DphyLaid
  <2> QED
    BY <1>1, <1>3, <2>1 DEF Bits, DphyLaid
<1>12. Phase("hs_exit") >= Ns(100) /\ Phase("hs_rqst") >= Ns(50)
  BY <1>11, LaidKept DEF HsExitKept, HsRqstKept
<1> QED
  BY <1>4, <1>5, <1>6, <1>8, <1>9, <1>10, <1>12 DEF DphyFits

\* The values of a C-PHY, as the phases they stand for.
LEMMA CphyFitsHolds ==
  ASSUME IInv, rc = "ok", Attainable, cphy, version = 3
  PROVE  CphyFits
<1>1. /\ bitclk \in Int /\ desc \in [Entry -> 0 .. 255] /\ Unit = 7000
  BY AskedIs, UnitIs DEF IInv, Asked, Typed
<1>2. \A e \in {"hs_exit", "clk_pre", "clk_prepare", "clk_post", "hs_rqst"} :
         timing[e] = desc[e] /\ desc[e] \in 0 .. 255
  BY <1>1, EntryIs, LaidKept DEF Laid, V3Laid
<1>3. Phase("clk_prepare") \in Ns(38) .. Ns(95)
  <2>1. Phase("clk_prepare") = 7000 * desc["clk_prepare"]
    BY <1>2 DEF Phase, PhaseBits, Bits
  <2> QED
    BY <1>1, <2>1, LaidKept DEF PrepareKept
<1>4. \A e \in {"clk_pre", "clk_post"} : Phase(e) = Bits(7 * desc[e])
  BY <1>2 DEF Phase, PhaseBits
<1>5. /\ Phase("clk_pre") \in Bits(7) .. Bits(448)
      /\ Phase("clk_post") \in Bits(7) .. Bits(224)
  <2>1. \A e \in {"clk_pre", "clk_post"} : desc[e] \in 1 .. 255
    BY LaidKept DEF CphyClkKept
  <2>2. \A r \in 1 .. 255 : Bits(7 * r) \in Int /\ Bits(7 * r) >= Bits(7)
    BY DEF Bits
  <2>3. /\ Bits(7 * desc["clk_pre"]) <= Bits(448)
        /\ Bits(7 * desc["clk_post"]) <= Bits(224)
    BY LaidKept DEF CphyClkKept
  <2>4. Bits(7) \in Int /\ Bits(448) \in Int /\ Bits(224) \in Int
    BY DEF Bits
  <2> QED
    BY <1>4, <2>1, <2>2, <2>3, <2>4
<1>6. \A e \in {"hs_exit", "hs_rqst"} : Phase(e) = Unit * (desc[e] + 1)
  <2>1. \A e \in {"hs_exit", "hs_rqst"} : Phase(e) = Bits(7 * (desc[e] + 1))
    BY <1>2 DEF Phase, PhaseBits
  <2> QED
    BY <1>1, <1>2, <2>1 DEF Bits
<1>7. Phase("hs_exit") >= Ns(100) /\ Phase("hs_rqst") >= Ns(50)
  BY <1>6, LaidKept DEF HsExitKept, HsRqstKept
<1> QED
  BY <1>3, <1>5, <1>7 DEF CphyFits

\* The inductive invariant.
THEOREM InvHolds == Spec => []IInv
<1>1. Init => IInv
  BY InitHolds
<1>2. IInv /\ [Next]_vars => IInv'
  BY StepHolds
<1> QED
  BY <1>1, <1>2, PTL DEF Spec

\* Every value is of its type, and only a call that succeeds reaches the lanes,
\* with values that fit an 8-bit register (dsi_phy_cmn_validate_and_set,
\* update_timing_params).
THEOREM TypeCorrect == Spec => []TypeOK
<1>1. IInv => TypeOK
  <2> SUFFICES ASSUME IInv PROVE TypeOK
      OBVIOUS
  <2>1. Laid \subseteq Entry
    BY AskedIs, EntryIs DEF IInv, Asked, Laid, V2Laid, V3Laid, DphyLaid
  <2>2. /\ timing \in [DOMAIN timing -> 0 .. 255]
        /\ DOMAIN timing = IF rc = "ok" THEN Laid ELSE {}
    <3>1. CASE rc = "ok"
      <4>1. timing = [e \in Laid |-> desc[e]]
        BY <3>1 DEF IInv, Answered
      <4>2. \A e \in Laid : desc[e] \in 0 .. 255
        BY <2>1 DEF IInv, Typed
      <4>3. DOMAIN timing = Laid /\ timing \in [Laid -> 0 .. 255]
        BY <4>1, <4>2
      <4> QED
        BY <3>1, <4>3
    <3>2. CASE rc # "ok"
      BY <3>2 DEF IInv, Answered
    <3> QED
      BY <3>1, <3>2
  <2>3. /\ version \in Version /\ cphy \in BOOLEAN /\ bitclk \in BitClk
        /\ desc \in [Entry -> 0 .. 255] /\ rc \in {"busy", "ok", "EINVAL"}
        /\ todo \in Seq(Entry)
    BY DEF IInv, Typed, InOrder
  <2> QED
    BY <2>2, <2>3 DEF TypeOK
<1> QED
  BY <1>1, InvHolds, PTL

\* Whatever the version and the bit clock, the phases a successful call lays
\* down keep the limits they were computed from, margins and rounding included
\* (dsi_phy_timing_calc.c:870-878 and the calc_ functions).
THEOREM FittingPhases == Spec => []PhasesFit
<1>1. IInv => PhasesFit
  BY DphyFitsHolds, CphyFitsHolds DEF PhasesFit, IInv, Typed
<1> QED
  BY <1>1, InvHolds, PTL

\* No bit clock a prepare phase can serve is refused
\* (dsi_phy_cmn_validate_and_set).
THEOREM ServedClocks == Spec => []ClocksServed
<1>1. IInv => ClocksServed
  BY DEF IInv, Answered, ClocksServed
<1> QED
  BY <1>1, InvHolds, PTL
=============================================================================
