-------------------------- MODULE CropWindowsProofs --------------------------
(***************************************************************************)
(* Proofs about CropWindows: for every size of image, filter and window,   *)
(* the walk of the sampler takes the samples of its window once and ends,  *)
(* each is added to the pixels that the filter reaches, and at the end of  *)
(* a frame the image has all samples that its pixels need.                 *)
(***************************************************************************)
EXTENDS CropWindows, InductionLemmas

(***************************************************************************)
(* Arithmetic.                                                             *)
(***************************************************************************)

\* The smaller and the larger of two integers.
LEMMA MinOfTwo ==
  ASSUME NEW a \in Int, NEW b \in Int
  PROVE  Min({a, b}) = IF a <= b THEN a ELSE b
<1> DEFINE m == IF a <= b THEN a ELSE b
<1>1. m \in {a, b} /\ \A y \in {a, b} : m =< y
  OBVIOUS
<1>2. \A x \in {a, b} : (\A y \in {a, b} : x =< y) => x = m
  OBVIOUS
<1> QED
  BY <1>1, <1>2 DEF Min

\* The larger of two numbers.
LEMMA MaxOfTwo ==
  ASSUME NEW a \in Int, NEW b \in Int
  PROVE  Max({a, b}) = IF a >= b THEN a ELSE b
<1> DEFINE m == IF a >= b THEN a ELSE b
<1>1. m \in {a, b} /\ \A y \in {a, b} : m >= y
  OBVIOUS
<1>2. \A x \in {a, b} : (\A y \in {a, b} : x >= y) => x = m
  OBVIOUS
<1> QED
  BY <1>1, <1>2 DEF Max

\* The two roundings: to a neighbour less than a pixel away, of an odd integer even.
LEMMA Rounding ==
  ASSUME NEW q \in Int
  PROVE  /\ RoundEven(q) \in Int
         /\ 4 * RoundEven(q) <= q + 2 /\ q - 2 <= 4 * RoundEven(q)
         /\ Floor32(q) \in Int /\ 4 * Floor32(q) <= q /\ q - 4 <= 4 * Floor32(q)
         /\ Ceil32(q) \in Int /\ q <= 4 * Ceil32(q) /\ 4 * Ceil32(q) <= q + 4
<1>1. \A r \in Int : /\ RoundEven(r) \in Int
                     /\ 4 * RoundEven(r) <= r + 2 /\ r - 2 <= 4 * RoundEven(r)
  BY DEF RoundEven
<1>2. q - 2 \in Int /\ q + 2 \in Int
  OBVIOUS
<1> QED
  BY <1>1, <1>2 DEF Floor32, Ceil32

\* Rounding keeps the order.
LEMMA RoundingMonotone ==
  ASSUME NEW q \in Int, NEW r \in Int, q <= r
  PROVE  RoundEven(q) <= RoundEven(r) /\ Ceil32(q) <= Ceil32(r)
<1>1. \A a, b \in Int : a <= b => RoundEven(a) <= RoundEven(b)
  BY DEF RoundEven
<1> QED
  BY <1>1 DEF Ceil32

\* Multiplying by a natural number keeps the order.
LEMMA ProductMonotone ==
  ASSUME NEW a \in Nat, NEW b \in Nat, NEW s \in Nat, a <= b
  PROVE  a * s <= b * s
<1>1. (b - a) * s >= 0
  OBVIOUS
<1>2. b * s = a * s + (b - a) * s
  OBVIOUS
<1> QED
  BY <1>1, <1>2

-----------------------------------------------------------------------------
(***************************************************************************)
(* The coordinates of a scan go up from one to the next.                   *)
(***************************************************************************)
LEMMA InnerIsInterval ==
  ASSUME NEW res \in Nat
  PROVE  \E n \in Nat : Inner(res) = 1 .. n
<1> DEFINE Upto(m) == {k \in 1 .. m : k * Step < res}
           Good == {m \in Nat : \E n \in Nat : Upto(m) = 1 .. n}
<1>1. 0 \in Good
  <2>1. Upto(0) = 1 .. 0
    OBVIOUS
  <2> QED
    BY <2>1
<1>2. ASSUME NEW m \in Good PROVE m + 1 \in Good
  <2>1. PICK n \in Nat : Upto(m) = 1 .. n
    OBVIOUS
  <2>2. CASE (m + 1) * Step < res
    <3>1. \A k \in 1 .. (m + 1) : k * Step < res
      BY <2>2, ProductMonotone, CropAssumption
    <3>2. Upto(m + 1) = 1 .. (m + 1)
      BY <3>1
    <3> QED
      BY <3>2
  <2>3. CASE ~((m + 1) * Step < res)
    <3>1. Upto(m + 1) = Upto(m)
      BY <2>3
    <3> QED
      BY <2>1, <3>1
  <2> QED
    BY <2>2, <2>3
<1>3. Good = Nat
  <2> HIDE DEF Good
  <2>1. Good \in SUBSET Nat
    BY DEF Good
  <2> QED
    BY <1>1, <1>2, <2>1, SetInduction
<1> QED
  BY <1>3 DEF Inner

Ascending(c) ==
  /\ c \in Seq(Nat) /\ Len(c) >= 2
  /\ \A i \in 1 .. Len(c) - 1 : c[i] <= c[i + 1]

\* A sequence that goes up goes up with a smaller element before it and a larger one behind.
LEMMA AscendingBetween ==
  ASSUME NEW s \in Seq(Nat), NEW e \in Nat,
         \A k \in 1 .. Len(s) : s[k] <= e /\ (k < Len(s) => s[k] <= s[k + 1])
  PROVE  /\ Ascending(<<0>> \o s \o <<e>>)
         /\ \A f \in Nat : e <= f => Ascending(<<0>> \o s \o <<e>> \o <<f>>)
<1> DEFINE c == <<0>> \o s \o <<e>>
           n == Len(s) + 2
<1>1. /\ c \in Seq(Nat) /\ Len(c) = n /\ c[1] = 0 /\ c[n] = e
      /\ \A k \in 1 .. Len(s) : c[k + 1] = s[k]
  OBVIOUS
<1>2. ASSUME NEW i \in 1 .. n - 1 PROVE c[i] <= c[i + 1]
  <2> HIDE DEF c
  <2>1. CASE i = 1
    <3>1. c[2] \in Nat
      BY <1>1
    <3> QED
      BY <1>1, <2>1, <3>1
  <2>2. CASE i # 1
    <3>1. i - 1 \in 1 .. Len(s) /\ c[i] = s[i - 1]
      <4>1. i - 1 \in 1 .. Len(s) /\ (i - 1) + 1 = i
        BY <2>2
      <4> QED
        BY <1>1, <4>1
    <3>2. CASE i = n - 1
      BY <1>1, <3>1, <3>2
    <3>3. CASE i # n - 1
      <4>1. i \in 1 .. Len(s) /\ (i - 1) + 1 = i /\ i - 1 < Len(s)
        BY <2>2, <3>3
      <4>2. c[i + 1] = s[i]
        BY <1>1, <4>1
      <4> QED
        BY <3>1, <4>1, <4>2
    <3> QED
      BY <3>2, <3>3
  <2> QED
    BY <2>1, <2>2
<1>3. ASSUME NEW f \in Nat, e <= f PROVE Ascending(c \o <<f>>)
  <2> DEFINE d == c \o <<f>>
  <2> HIDE DEF c
  <2>1. /\ d \in Seq(Nat) /\ Len(d) = n + 1 /\ d[n + 1] = f
        /\ \A k \in 1 .. n : d[k] = c[k]
    BY <1>1
  <2>2. ASSUME NEW i \in 1 .. n PROVE d[i] <= d[i + 1]
    <3> HIDE DEF d
    <3>1. CASE i = n
      <4>1. d[i] = c[n] /\ d[i + 1] = f
        BY <2>1, <3>1
      <4> QED
        BY <1>1, <1>3, <4>1
    <3>2. CASE i # n
      <4>1. i \in 1 .. n - 1 /\ i + 1 \in 1 .. n
        BY <1>1, <3>2
      <4> QED
        BY <1>2, <2>1, <4>1
    <3> QED
      BY <3>1, <3>2
  <2> HIDE DEF d
  <2>3. Ascending(d)
    BY <2>1, <2>2 DEF Ascending
  <2> QED
    BY <2>3 DEF d
<1> HIDE DEF c
<1>4. Ascending(c)
  BY <1>1, <1>2 DEF Ascending
<1> QED
  BY <1>3, <1>4 DEF c

\* A later cut of the scan is not before an earlier one.
LEMMA CutsAscend ==
  ASSUME NEW res \in Nat \ {0}, NEW c \in Cuts(res)
  PROVE  Ascending(c)
<1>1. PICK n \in Nat : Inner(res) = 1 .. n
  BY InnerIsInterval
<1>2. PICK t \in Sums(res), b \in Below(res) : c = <<0>> \o t \o b \o <<4 * res>>
  BY DEF Cuts
<1>3. PICK up \in [Inner(res) -> {0, 1}] : t = [k \in Inner(res) |-> 4 * k * Step + up[k]]
  BY DEF Sums
<1> DEFINE s == [k \in 1 .. n |-> 4 * k * Step + up[k]]
<1>4. ASSUME NEW k \in 1 .. n
      PROVE  /\ k * Step \in Nat /\ k * Step <= res - 1
             /\ s[k] \in Nat /\ 4 * (k * Step) <= s[k] /\ s[k] <= 4 * (k * Step) + 1
  <2>1. k \in Inner(res) /\ up[k] \in {0, 1} /\ k * Step < res
    BY <1>1, <1>3 DEF Inner
  <2>2. k * Step \in Nat /\ 4 * k * Step = 4 * (k * Step)
    BY CropAssumption
  <2>3. s[k] = 4 * (k * Step) + up[k]
    BY <2>2
  <2> HIDE DEF s
  <2> QED
    BY <2>1, <2>2, <2>3
<1>5. s \in Seq(Nat) /\ Len(s) = n
  BY <1>4
<1>6. b = <<>> \/ b = <<4 * res - 1>>
  BY DEF Below
<1>7. ASSUME NEW k \in 1 .. n
      PROVE  s[k] <= 4 * res - 1 /\ (k < n => s[k] <= s[k + 1])
  <2> HIDE DEF s
  <2>1. s[k] <= 4 * res - 1
    BY <1>4
  <2>2. ASSUME k < n PROVE s[k] <= s[k + 1]
    <3>1. k + 1 \in 1 .. n
      BY <2>2
    <3>2. (k + 1) * Step = k * Step + Step /\ Step >= 1 /\ Step \in Nat
      BY CropAssumption
    <3>3. 4 * ((k + 1) * Step) <= s[k + 1] /\ s[k + 1] \in Nat
      BY <1>4, <3>1
    <3>4. s[k] <= 4 * (k * Step) + 1 /\ k * Step \in Nat /\ s[k] \in Nat
      BY <1>4
    <3> QED
      BY <3>2, <3>3, <3>4
  <2> QED
    BY <2>1, <2>2
<1>8. c = <<0>> \o s \o b \o <<4 * res>>
  BY <1>1, <1>2, <1>3
<1>9. 4 * res - 1 \in Nat /\ 4 * res \in Nat /\ 4 * res - 1 <= 4 * res
  OBVIOUS
<1> DEFINE e == 4 * res - 1
           f == 4 * res
<1>10. /\ s \in Seq(Nat) /\ e \in Nat /\ f \in Nat /\ e <= f
      /\ \A k \in 1 .. Len(s) : s[k] <= e /\ s[k] <= f /\ (k < Len(s) => s[k] <= s[k + 1])
  BY <1>4, <1>5, <1>7, <1>9
<1>11. c = <<0>> \o s \o b \o <<f>> /\ (b = <<>> \/ b = <<e>>)
  BY <1>6, <1>8
<1> HIDE DEF s, e, f
<1>12. CASE b = <<>>
  <2>1. c = <<0>> \o s \o <<f>>
    BY <1>10, <1>11, <1>12
  <2> QED
    BY <1>10, <2>1, AscendingBetween
<1>13. CASE b = <<e>>
  BY <1>10, <1>11, <1>13, AscendingBetween
<1> QED
  BY <1>11, <1>12, <1>13

-----------------------------------------------------------------------------
(***************************************************************************)
(* The invariant of the scan: the last window lies between neighbouring    *)
(* coordinates.                                                            *)
(***************************************************************************)
Side(lo, hi, n) == lo \in 1 .. n /\ hi \in 1 .. n /\ (hi = lo \/ hi = lo + 1)

ScanTyped ==
  /\ Ascending(xCuts) /\ Ascending(yCuts)
  /\ last = [xmin |-> last.xmin, xmax |-> last.xmax, ymin |-> last.ymin, ymax |-> last.ymax]
  /\ Side(last.xmin, last.xmax, XOne) /\ Side(last.ymin, last.ymax, YOne)

\* The next window lies there too.
LEMMA NextWindowTyped ==
  ASSUME ScanTyped
  PROVE  LET w == NextWindow(last)
         IN /\ w = [xmin |-> w.xmin, xmax |-> w.xmax, ymin |-> w.ymin, ymax |-> w.ymax]
            /\ Side(w.xmin, w.xmax, XOne) /\ Side(w.ymin, w.ymax, YOne)
<1> DEFINE ymin == IF last.xmax = XOne THEN last.ymax ELSE last.ymin
           xmin == IF last.xmax = XOne /\ ymin < YOne THEN 1 ELSE last.xmax
           w == NextWindow(last)
<1>1. XOne \in Nat /\ XOne >= 2 /\ YOne \in Nat /\ YOne >= 2
  BY DEF ScanTyped, Ascending, XOne, YOne
<1>2. xmin \in 1 .. XOne /\ ymin \in 1 .. YOne
  BY <1>1 DEF ScanTyped, Side
<1>3. w = [xmin |-> xmin, xmax |-> Min({XOne, xmin + 1}), ymin |-> ymin, ymax |-> Min({YOne, ymin + 1})]
  BY DEF NextWindow
<1> HIDE DEF xmin, ymin, w
<1>4. Min({XOne, xmin + 1}) = IF XOne <= xmin + 1 THEN XOne ELSE xmin + 1
  BY <1>1, <1>2, MinOfTwo
<1>5. Min({YOne, ymin + 1}) = IF YOne <= ymin + 1 THEN YOne ELSE ymin + 1
  BY <1>1, <1>2, MinOfTwo
<1>6. /\ w = [xmin |-> w.xmin, xmax |-> w.xmax, ymin |-> w.ymin, ymax |-> w.ymax]
      /\ Side(w.xmin, w.xmax, XOne) /\ Side(w.ymin, w.ymax, YOne)
  BY <1>1, <1>2, <1>3, <1>4, <1>5 DEF Side
<1> QED
  BY <1>6 DEF w

\* The scan begins with the invariant of the windows.
LEMMA ScanInit ==
  ASSUME Init
  PROVE  ScanTyped
<1>1. Ascending(xCuts) /\ Ascending(yCuts)
  BY CutsAscend, CropAssumption DEF Init
<1> QED
  BY <1>1 DEF Init, ScanTyped, NoWindow, Side, XOne, YOne, Ascending

\* Every step keeps the invariant of the windows.
LEMMA ScanStep ==
  ASSUME ScanTyped, [Next]_vars
  PROVE  ScanTyped'
<1>1. XOne >= 2 /\ YOne >= 2 /\ XOne \in Nat /\ YOne \in Nat
  BY DEF ScanTyped, Ascending, XOne, YOne
<1>2. ASSUME UNCHANGED <<xCuts, yCuts>>, last' = NextWindow(last) PROVE ScanTyped'
  <2> DEFINE w == NextWindow(last)
  <2>1. /\ w = [xmin |-> w.xmin, xmax |-> w.xmax, ymin |-> w.ymin, ymax |-> w.ymax]
        /\ Side(w.xmin, w.xmax, XOne) /\ Side(w.ymin, w.ymax, YOne)
    BY NextWindowTyped
  <2> HIDE DEF w
  <2>2. last' = w
    BY <1>2 DEF w
  <2> QED
    BY <1>2, <2>1, <2>2 DEF ScanTyped, XOne, YOne
<1>3. CASE GetNextCropWindow
  <2>1. CASE last = NoWindow
    <3>1. last' = [xmin |-> 1, xmax |-> 2, ymin |-> 1, ymax |-> 2] /\ UNCHANGED <<xCuts, yCuts>>
      BY <1>3, <2>1 DEF GetNextCropWindow
    <3> QED
      BY <1>1, <3>1 DEF ScanTyped, Side, XOne, YOne
  <2>2. CASE last # NoWindow
    BY <1>2, <1>3, <2>2 DEF GetNextCropWindow
  <2> QED
    BY <2>1, <2>2
<1>4. CASE GetEmptyWindow
  BY <1>2, <1>4 DEF GetEmptyWindow
<1>5. CASE UNCHANGED <<xCuts, yCuts, last>>
  BY <1>5 DEF ScanTyped, XOne, YOne
<1> QED
  BY <1>3, <1>4, <1>5 DEF Next, vars, serverVars, EndFrame, RenderCropWindow, NextSample, WindowDone

(***************************************************************************)
(* The invariant of the walk: how many samples were taken is where the     *)
(* sampler stands.                                                         *)
(***************************************************************************)
Width == sampler.x[2] - sampler.x[1]
Height == sampler.y[2] - sampler.y[1]
Total == PixelSamples * Width * Height

WalkTyped ==
  /\ sampler = [x |-> sampler.x, y |-> sampler.y, xPos |-> sampler.xPos, yPos |-> sampler.yPos,
                samplePos |-> sampler.samplePos]
  /\ sampler.x \in Int \X Int /\ sampler.y \in Int \X Int
  /\ sampler.xPos \in Int /\ sampler.yPos \in Int /\ sampler.samplePos \in Int
  /\ taken \in Nat

\* The place of the walk: before the first pixel, or at one of the pixels.
Walking ==
  /\ sampler.x[1] - 1 <= sampler.xPos /\ sampler.xPos < sampler.x[2]
  /\ sampler.y[1] <= sampler.yPos /\ sampler.yPos < sampler.y[2]
  /\ 1 <= sampler.samplePos /\ sampler.samplePos <= PixelSamples
  /\ sampler.xPos < sampler.x[1] => taken = 0 /\ sampler.samplePos = PixelSamples
  /\ taken = PixelSamples * ((sampler.yPos - sampler.y[1]) * Width + (sampler.xPos - sampler.x[1]))
             + sampler.samplePos

WalkInv ==
  /\ WalkTyped /\ Width >= 1 /\ Height >= 1 /\ taken <= Total
  /\ task = "sample" => Walking

\* Samples counted pixel by pixel and row by row.
LEMMA WalkCount ==
  ASSUME NEW p \in Nat \ {0}, NEW w \in Nat \ {0}, NEW h \in Nat \ {0},
         NEW dx \in Int, NEW dy \in Nat, dx < w, dy < h
  PROVE  /\ p * (dy * w + (dx + 1)) = p * (dy * w + dx) + p
         /\ p * ((dy + 1) * w) = p * (dy * w + (w - 1)) + p
         /\ p * (dy * w + dx) + p <= p * w * h
         /\ dy + 1 = h /\ dx + 1 = w => p * (dy * w + dx) + p = p * w * h
<1>1. p * (dy * w + (dx + 1)) = p * (dy * w + dx) + p
  OBVIOUS
<1>2. (dy + 1) * w = dy * w + w /\ dy * w \in Nat /\ w * h = h * w
  OBVIOUS
<1>3. p * (dy * w + (w - 1)) + p = p * (dy * w + w)
  BY <1>2
<1>4. p * w * h = p * (w * h)
  OBVIOUS
<1>5. dy * w + dx + 1 <= w * h
  <2>1. (dy + 1) * w <= h * w
    BY ProductMonotone
  <2> QED
    BY <1>2, <2>1
<1>6. p * (dy * w + dx) + p <= p * (w * h)
  <2> DEFINE a == dy * w + dx + 1
             b == w * h
  <2>1. a \in Int /\ b \in Int /\ a <= b /\ p * (dy * w + dx) + p = p * a
    BY <1>1, <1>2, <1>5
  <2> HIDE DEF a, b
  <2>2. p * (b - a) >= 0 /\ p * b = p * a + p * (b - a)
    BY <2>1
  <2>3. p * a <= p * b
    BY <2>1, <2>2
  <2> QED
    BY <2>1, <2>3 DEF b
<1>7. ASSUME dy + 1 = h, dx + 1 = w PROVE p * (dy * w + dx) + p = p * w * h
  <2>1. h * w = dy * w + (dx + 1)
    BY <1>2, <1>7
  <2> QED
    BY <1>1, <1>2, <1>4, <2>1
<1> QED
  BY <1>1, <1>2, <1>3, <1>4, <1>6, <1>7

\* A window without extent has pixels to sample too, by the width of the filter.
LEMMA ExtentHasPixels ==
  ASSUME NEW start \in Int, NEW count \in Nat, NEW width \in Nat \ {0, 1, 2}
  PROVE  /\ SampleExtent(start, count, width) \in Int \X Int
         /\ SampleExtent(start, count, width)[2] - SampleExtent(start, count, width)[1] >= 1
<1> DEFINE lo == 4 * start - width
           hi == 4 * (start + count) + width
<1>1. lo \in Int /\ hi \in Int /\ lo <= 4 * start - 3 /\ 4 * start + 3 <= hi
  OBVIOUS
<1>2. SampleExtent(start, count, width) = <<RoundEven(lo), RoundEven(hi)>>
  <2>1. 4 * start + 2 - width - 2 = lo /\ 4 * (start + count) + 2 + width - 2 = hi
    OBVIOUS
  <2> QED
    BY <2>1 DEF SampleExtent, Floor32
<1> HIDE DEF lo, hi
<1>3. RoundEven(4 * start + 3) = start + 1 /\ RoundEven(4 * start - 3) = start - 1
  BY DEF RoundEven
<1>4. RoundEven(lo) <= start - 1 /\ start + 1 <= RoundEven(hi)
  BY <1>1, <1>3, RoundingMonotone
<1>5. RoundEven(lo) \in Int /\ RoundEven(hi) \in Int
  BY <1>1, Rounding
<1> QED
  BY <1>2, <1>4, <1>5

\* Going from one coordinate of a scan to the same or the next covers no less than nothing.
LEMMA WindowCount ==
  ASSUME NEW c, Ascending(c), NEW lo, NEW hi, Side(lo, hi, Len(c))
  PROVE  Ceil32(c[lo]) \in Int /\ Ceil32(c[hi]) - Ceil32(c[lo]) \in Nat
<1>1. c[lo] \in Nat /\ c[hi] \in Nat /\ c[lo] <= c[hi]
  <2>1. CASE hi = lo
    BY <2>1 DEF Ascending, Side
  <2>2. CASE hi = lo + 1
    <3>1. lo \in 1 .. Len(c) - 1
      BY <2>2 DEF Ascending, Side
    <3> QED
      BY <2>2, <3>1 DEF Ascending, Side
  <2> QED
    BY <2>1, <2>2 DEF Side
<1>2. ASSUME NEW a \in Nat, NEW b \in Nat, a <= b
      PROVE  Ceil32(a) <= Ceil32(b) /\ Ceil32(a) \in Int /\ Ceil32(b) \in Int
  <2>1. a \in Int /\ b \in Int
    OBVIOUS
  <2> QED
    BY <1>2, <2>1, Rounding, RoundingMonotone
<1>3. Ceil32(c[lo]) <= Ceil32(c[hi]) /\ Ceil32(c[lo]) \in Int /\ Ceil32(c[hi]) \in Int
  BY <1>1, <1>2
<1> QED
  BY <1>3

\* A sampler at the beginning of its walk.
LEMMA WalkBegins ==
  ASSUME NEW x \in Int \X Int, NEW y \in Int \X Int, x[2] - x[1] >= 1, y[2] - y[1] >= 1,
         sampler' = LDSampler(x, y), taken' = 0
  PROVE  WalkInv'
<1>1. sampler' = [x |-> x, y |-> y, xPos |-> x[1] - 1, yPos |-> y[1], samplePos |-> PixelSamples]
  BY DEF LDSampler
<1>2. PixelSamples \in Nat \ {0}
  BY CropAssumption
<1>3. Width' = x[2] - x[1] /\ Height' = y[2] - y[1] /\ Width' \in Nat /\ Height' \in Nat
  BY <1>1 DEF Width, Height
<1>4. WalkTyped'
  BY <1>1, <1>2 DEF WalkTyped
<1>5. Total' \in Nat
  BY <1>2, <1>3 DEF Total
<1>6. PixelSamples * ((y[1] - y[1]) * Width' + (x[1] - 1 - x[1])) + PixelSamples = 0
  <2>1. (y[1] - y[1]) * Width' = 0 /\ x[1] - 1 - x[1] = -1
    BY <1>3
  <2> QED
    BY <1>2, <2>1
<1>7. Walking'
  BY <1>1, <1>2, <1>3, <1>6 DEF Walking
<1> QED
  BY <1>3, <1>4, <1>5, <1>7 DEF WalkInv

\* The sampler begins with the invariant of its walk.
LEMMA WalkInit ==
  ASSUME Init
  PROVE  WalkInv
<1>1. XCount \in Nat /\ YCount \in Nat
  <2>1. \A q \in Nat : Ceil32(q) \in Nat
    <3> SUFFICES ASSUME NEW q \in Nat PROVE Ceil32(q) \in Nat
      OBVIOUS
    <3>1. Ceil32(q) \in Int /\ q <= 4 * Ceil32(q)
      BY Rounding
    <3> QED
      BY <3>1
  <2>2. 4 * XRes \in Nat /\ 4 * YRes \in Nat
    BY CropAssumption
  <2> QED
    BY <2>1, <2>2 DEF XCount, YCount
<1> DEFINE x == SampleExtent(0, XCount, XWidth)
           y == SampleExtent(0, YCount, YWidth)
<1>2. x \in Int \X Int /\ y \in Int \X Int /\ x[2] - x[1] >= 1 /\ y[2] - y[1] >= 1
  <2>1. XWidth \in Nat \ {0, 1, 2} /\ YWidth \in Nat \ {0, 1, 2} /\ 0 \in Int
    BY CropAssumption
  <2> QED
    BY <1>1, <2>1, ExtentHasPixels
<1>3. sampler = LDSampler(x, y) /\ taken = 0 /\ task = "request"
  BY DEF Init
<1> HIDE DEF x, y
<1>4. sampler = [x |-> x, y |-> y, xPos |-> x[1] - 1, yPos |-> y[1], samplePos |-> PixelSamples]
  BY <1>3 DEF LDSampler
<1>5. WalkTyped /\ Width >= 1 /\ Height >= 1 /\ Width \in Nat /\ Height \in Nat
  BY <1>2, <1>3, <1>4, CropAssumption DEF WalkTyped, Width, Height
<1>6. Total \in Nat
  BY <1>5, CropAssumption DEF Total
<1> QED
  BY <1>3, <1>5, <1>6 DEF WalkInv

\* One more sample of the walk.
LEMMA WalkStep ==
  ASSUME WalkInv, NextSample
  PROVE  WalkInv'
<1> DEFINE P == PixelSamples
           dx == sampler.xPos - sampler.x[1]
           dy == sampler.yPos - sampler.y[1]
<1>1. /\ task = "sample" /\ ~WalkEnds /\ task' = task /\ taken' = taken + 1
      /\ sampler' = [sampler EXCEPT !.xPos = XPos, !.yPos = YPos,
                                    !.samplePos = IF Advances THEN 1 ELSE @ + 1]
  BY DEF NextSample
<1>2. Walking /\ WalkTyped
  BY <1>1 DEF WalkInv
<1>3. P \in Nat \ {0} /\ Width \in Nat \ {0} /\ Height \in Nat \ {0}
  BY <1>2, CropAssumption DEF WalkInv, WalkTyped, Width, Height
<1>4. dx \in Int /\ dy \in Nat /\ dx < Width /\ dy < Height
  BY <1>2 DEF WalkTyped, Walking, Width, Height
<1>5. /\ P * (dy * Width + (dx + 1)) = P * (dy * Width + dx) + P
      /\ P * ((dy + 1) * Width) = P * (dy * Width + (Width - 1)) + P
  <2> HIDE DEF dx, dy
  <2> QED
    BY <1>3, <1>4, WalkCount
<1>6. taken = P * (dy * Width + dx) + sampler.samplePos
  BY <1>2 DEF Walking
<1>7. /\ sampler' = [x |-> sampler.x, y |-> sampler.y, xPos |-> XPos, yPos |-> YPos,
                      samplePos |-> IF Advances THEN 1 ELSE sampler.samplePos + 1]
      /\ sampler'.x = sampler.x /\ sampler'.y = sampler.y /\ sampler'.xPos = XPos /\ sampler'.yPos = YPos
      /\ sampler'.samplePos = IF Advances THEN 1 ELSE sampler.samplePos + 1
      /\ Width' = Width /\ Height' = Height /\ Total' = Total
  BY <1>1, <1>2 DEF WalkTyped, Width, Height, Total
<1>8. /\ XPos \in Int /\ YPos \in Int
      /\ sampler.x[1] - 1 <= XPos /\ XPos < sampler.x[2] /\ sampler.y[1] <= YPos /\ YPos < sampler.y[2]
      /\ sampler.x[1] <= XPos
  <2> DEFINE a == sampler.x[1]
             b == sampler.x[2]
             d == sampler.y[2]
  <2>1. /\ a \in Int /\ b \in Int /\ d \in Int /\ sampler.xPos \in Int /\ sampler.yPos \in Int
        /\ a + 1 <= b /\ a - 1 <= sampler.xPos /\ sampler.xPos < b
        /\ sampler.y[1] \in Int /\ sampler.y[1] <= sampler.yPos /\ sampler.yPos < d
    BY <1>2, <1>3 DEF WalkTyped, Walking, Width
  <2>2. ~Advances => a <= sampler.xPos
    BY <1>2 DEF Walking, WalkTyped, Advances
  <2> HIDE DEF a, b, d
  <2>3. CASE EndOfRow
    <3>1. XPos = a /\ YPos = sampler.yPos + 1 /\ YPos # d
      BY <1>1, <2>3 DEF XPos, YPos, EndOfRow, WalkEnds, a, d
    <3> QED
      BY <2>1, <3>1 DEF a, b, d
  <2>4. CASE ~EndOfRow
    <3>1. XPos = (IF Advances THEN sampler.xPos + 1 ELSE sampler.xPos) /\ YPos = sampler.yPos
          /\ (Advances => sampler.xPos + 1 # b)
      BY <2>4 DEF XPos, YPos, EndOfRow, b
    <3> QED
      BY <2>1, <2>2, <3>1 DEF a, b, d
  <2> QED
    BY <2>3, <2>4
<1>9. WalkTyped'
  <2>1. sampler.samplePos \in Int /\ taken' \in Nat /\ sampler.x \in Int \X Int /\ sampler.y \in Int \X Int
    BY <1>1, <1>2 DEF WalkTyped
  <2>2. sampler' = [x |-> sampler'.x, y |-> sampler'.y, xPos |-> sampler'.xPos, yPos |-> sampler'.yPos,
                    samplePos |-> sampler'.samplePos]
    BY <1>7
  <2> QED
    BY <1>7, <1>8, <2>1, <2>2 DEF WalkTyped
<1>10. 1 <= sampler'.samplePos /\ sampler'.samplePos <= P /\ sampler'.samplePos \in Nat
  BY <1>2, <1>3, <1>7 DEF WalkTyped, Walking, Advances
<1>11. taken' = P * ((YPos - sampler.y[1]) * Width + (XPos - sampler.x[1])) + sampler'.samplePos
  <2>1. CASE ~Advances
    <3>1. XPos - sampler.x[1] = dx /\ YPos - sampler.y[1] = dy
      BY <2>1 DEF XPos, YPos, EndOfRow
    <3>2. sampler'.samplePos = sampler.samplePos + 1 /\ sampler.samplePos \in Int
      BY <1>2, <1>7, <2>1 DEF WalkTyped
    <3>3. P * (dy * Width + dx) \in Int
      BY <1>3, <1>4
    <3> HIDE DEF dx, dy
    <3> QED
      BY <1>1, <1>6, <3>1, <3>2, <3>3
  <2>2. CASE Advances /\ ~EndOfRow
    <3>1. XPos - sampler.x[1] = dx + 1 /\ YPos - sampler.y[1] = dy /\ sampler.samplePos = P
      BY <1>2, <2>2 DEF XPos, YPos, Advances, WalkTyped
    <3>2. sampler'.samplePos = 1
      BY <1>7, <2>2
    <3>3. P * (dy * Width + dx) \in Int
      BY <1>3, <1>4
    <3> HIDE DEF dx, dy
    <3> QED
      BY <1>1, <1>3, <1>5, <1>6, <3>1, <3>2, <3>3
  <2>3. CASE EndOfRow
    <3>1. XPos - sampler.x[1] = 0 /\ YPos - sampler.y[1] = dy + 1 /\ sampler.samplePos = P
          /\ dx = Width - 1
      BY <1>2, <2>3 DEF XPos, YPos, Advances, EndOfRow, WalkTyped, Width
    <3>2. sampler'.samplePos = 1
      BY <1>7, <2>3 DEF EndOfRow
    <3>3. P * (dy * Width + dx) \in Int /\ (dy + 1) * Width \in Int /\ (dy + 1) * Width + 0 = (dy + 1) * Width
      BY <1>3, <1>4
    <3> HIDE DEF dx, dy
    <3> QED
      BY <1>1, <1>3, <1>5, <1>6, <3>1, <3>2, <3>3
  <2> QED
    BY <2>1, <2>2, <2>3
<1>12. Walking'
  <2>1. /\ sampler'.x[1] - 1 <= sampler'.xPos /\ sampler'.xPos < sampler'.x[2]
        /\ sampler'.y[1] <= sampler'.yPos /\ sampler'.yPos < sampler'.y[2]
    BY <1>7, <1>8
  <2>2. ~(sampler'.xPos < sampler'.x[1])
    <3>1. sampler.x[1] \in Int
      BY <1>2 DEF WalkTyped
    <3> QED
      BY <1>7, <1>8, <3>1
  <2>3. taken' = PixelSamples * ((sampler'.yPos - sampler'.y[1]) * Width' + (sampler'.xPos - sampler'.x[1]))
                 + sampler'.samplePos
    BY <1>7, <1>11
  <2> QED
    BY <1>10, <2>1, <2>2, <2>3 DEF Walking
<1>13. taken' <= Total'
  <2> DEFINE ex == XPos - sampler.x[1]
             ey == YPos - sampler.y[1]
  <2>1. ex \in Int /\ ey \in Nat /\ ex < Width /\ ey < Height
    BY <1>2, <1>8 DEF WalkTyped, Width, Height
  <2>2. taken' = P * (ey * Width + ex) + sampler'.samplePos
    BY <1>11
  <2> HIDE DEF ex, ey
  <2>3. P * (ey * Width + ex) + P <= P * Width * Height
    BY <1>3, <2>1, WalkCount
  <2>4. P * (ey * Width + ex) \in Int /\ P * Width * Height \in Int
    BY <1>3, <2>1
  <2> QED
    BY <1>3, <1>7, <1>10, <2>2, <2>3, <2>4 DEF Total
<1> QED
  BY <1>1, <1>7, <1>9, <1>12, <1>13 DEF WalkInv

\* Every step of the system.
LEMMA WalkNext ==
  ASSUME ScanTyped, WalkInv, [Next]_vars
  PROVE  WalkInv'
<1>1. CASE RenderCropWindow
  <2> DEFINE xStart == Ceil32(xCuts[last.xmin])
             xCount == Ceil32(xCuts[last.xmax]) - xStart
             yStart == Ceil32(yCuts[last.ymin])
             yCount == Ceil32(yCuts[last.ymax]) - yStart
             x == SampleExtent(xStart, xCount, XWidth)
             y == SampleExtent(yStart, yCount, YWidth)
  <2>1. xStart \in Int /\ xCount \in Nat /\ yStart \in Int /\ yCount \in Nat
    BY WindowCount DEF ScanTyped, XOne, YOne
  <2>2. sampler' = LDSampler(x, y) /\ taken' = 0
    BY <1>1 DEF RenderCropWindow, ResetWalk
  <2>3. XWidth \in Nat \ {0, 1, 2} /\ YWidth \in Nat \ {0, 1, 2}
    BY CropAssumption
  <2> HIDE DEF xStart, xCount, yStart, yCount
  <2>4. x \in Int \X Int /\ y \in Int \X Int /\ x[2] - x[1] >= 1 /\ y[2] - y[1] >= 1
    BY <2>1, <2>3, ExtentHasPixels
  <2> QED
    BY <2>2, <2>4, WalkBegins
<1>2. CASE NextSample
  BY <1>2, WalkStep
<1>3. CASE WindowDone
  <2>1. sampler' = [sampler EXCEPT !.xPos = XPos, !.yPos = YPos] /\ taken' = taken /\ task' = "request"
        /\ task = "sample"
    BY <1>3 DEF WindowDone
  <2>2. WalkTyped
    BY DEF WalkInv
  <2>3. XPos \in Int /\ YPos \in Int
    BY <2>2 DEF WalkTyped, XPos, YPos
  <2>4. sampler' = [x |-> sampler.x, y |-> sampler.y, xPos |-> XPos, yPos |-> YPos,
                    samplePos |-> sampler.samplePos]
    BY <2>1, <2>2 DEF WalkTyped
  <2>5. WalkTyped' /\ Width' = Width /\ Height' = Height /\ Total' = Total
    BY <2>1, <2>2, <2>3, <2>4 DEF WalkTyped, Width, Height, Total
  <2> QED
    BY <2>1, <2>5 DEF WalkInv
<1>4. CASE UNCHANGED <<sampler, taken>> /\ (task' = "sample" => task = "sample")
  BY <1>4 DEF WalkInv, WalkTyped, Width, Height, Total, Walking
<1> QED
  BY <1>1, <1>2, <1>3, <1>4 DEF Next, vars, clientVars, GetNextCropWindow, GetEmptyWindow, EndFrame

\* What the invariant says of the walk over a window.
LEMMA WalkInvImplies ==
  ASSUME WalkInv
  PROVE  WalksOnce
<1> DEFINE dx == sampler.xPos - sampler.x[1]
           dy == sampler.yPos - sampler.y[1]
<1>1. Total = PixelSamples * (sampler.x[2] - sampler.x[1]) * (sampler.y[2] - sampler.y[1])
  BY DEF Total, Width, Height
<1>2. ASSUME task = "sample", WalkEnds PROVE taken = Total
  <2>1. Walking /\ WalkTyped
    BY <1>2 DEF WalkInv
  <2>2. EndOfRow /\ sampler.yPos + 1 = sampler.y[2]
    BY <1>2, <2>1 DEF WalkEnds, YPos, Walking, WalkTyped
  <2>3. PixelSamples \in Nat \ {0} /\ Width \in Nat \ {0} /\ Height \in Nat \ {0}
    BY <2>1, CropAssumption DEF WalkInv, WalkTyped, Width, Height
  <2>4. dx \in Int /\ dy \in Nat /\ dx + 1 = Width /\ dy + 1 = Height /\ sampler.samplePos = PixelSamples
    <3>1. sampler.x[1] \in Int /\ sampler.x[2] \in Int /\ sampler.y[1] \in Int /\ sampler.y[2] \in Int
          /\ sampler.xPos \in Int /\ sampler.yPos \in Int /\ sampler.y[1] <= sampler.yPos
      BY <2>1 DEF WalkTyped, Walking
    <3>2. sampler.samplePos = PixelSamples /\ sampler.xPos + 1 = sampler.x[2]
      BY <2>2 DEF EndOfRow, Advances
    <3> QED
      BY <2>2, <3>1, <3>2 DEF Width, Height
  <2>5. taken = PixelSamples * (dy * Width + dx) + PixelSamples
    BY <2>1, <2>4 DEF Walking
  <2> HIDE DEF dx, dy
  <2>6. dx < Width /\ dy < Height
    BY <2>3, <2>4
  <2>7. PixelSamples * (dy * Width + dx) + PixelSamples = PixelSamples * Width * Height
    BY <2>3, <2>4, <2>6, WalkCount
  <2> QED
    BY <2>5, <2>7 DEF Total
<1>3. ASSUME task = "sample", taken > 0
      PROVE  /\ sampler.xPos \in sampler.x[1] .. sampler.x[2] - 1
             /\ sampler.yPos \in sampler.y[1] .. sampler.y[2] - 1
  <2>1. Walking /\ WalkTyped
    BY <1>3 DEF WalkInv
  <2> QED
    BY <1>3, <2>1 DEF Walking, WalkTyped
<1> QED
  BY <1>1, <1>2, <1>3 DEF WalksOnce, WalkInv

\* The sampler's walk over a window takes every sample of it once, and ends: for every size of
\* image, window and filter, and for every rounding of the server's sums of floats.
THEOREM WalksOnceHolds == Spec => []WalksOnce
<1>1. Init => ScanTyped /\ WalkInv
  BY ScanInit, WalkInit
<1>2. ScanTyped /\ WalkInv /\ [Next]_vars => (ScanTyped /\ WalkInv)'
  BY ScanStep, WalkNext
<1>3. ScanTyped /\ WalkInv => WalksOnce
  BY WalkInvImplies
<1> QED
  BY <1>1, <1>2, <1>3, PTL DEF Spec

-----------------------------------------------------------------------------
(***************************************************************************)
(* Which pixels a sample is added to.                                      *)
(***************************************************************************)
Near(x, width, count) == {p \in 0 .. count - 1 : 4 * p + 2 - x \in 1 - width .. width - 1}
Nearest(x, count) == IF x < 2 THEN 0 ELSE count - 1

\* Rounding is exact everywhere but at the integers.
LEMMA RoundingBetween ==
  ASSUME NEW q \in Int, NEW p \in Int
  PROVE  /\ 4 * p < q => p <= Floor32(q)
         /\ q < 4 * p => Ceil32(q) <= p
BY DEF Floor32, Ceil32, RoundEven

\* The pixels of a sample are those of the film that its filter reaches.
LEMMA RasterWithinReach ==
  ASSUME NEW x \in Int, NEW width \in Nat \ {0, 1, 2}, NEW count \in Nat \ {0}
  PROVE  LET S == Raster(x, width, 0, count)
         IN /\ S # {}
            /\ Near(x, width, count) = {} => S = {Nearest(x, count)}
            /\ Near(x, width, count) # {} => /\ Near(x, width, count) \subseteq S
                                             /\ S \subseteq Near(x, width + 1, count)
<1> DEFINE end == count - 1
           f == Floor32(x - 2 + width)
           c == Ceil32(x - 2 - width)
           x0 == IF c <= f THEN c ELSE f
           a == IF x0 >= 0 THEN x0 ELSE 0
           b == IF f <= end THEN f ELSE end
           lo == IF a <= end THEN a ELSE end
           hi == IF b >= 0 THEN b ELSE 0
<1>1. /\ f \in Int /\ 4 * f <= x - 2 + width /\ x - 2 + width - 4 <= 4 * f
      /\ c \in Int /\ x - 2 - width <= 4 * c
  <2>1. x - 2 + width \in Int /\ x - 2 - width \in Int
    OBVIOUS
  <2> QED
    BY <2>1, Rounding
<1>2. \A p \in Int : /\ 4 * p < x - 2 + width => p <= f
                     /\ x - 2 - width < 4 * p => c <= p
  <2>1. x - 2 + width \in Int /\ x - 2 - width \in Int
    OBVIOUS
  <2> QED
    BY <2>1, RoundingBetween
<1>3. Raster(x, width, 0, count) = lo .. hi
  <2> HIDE DEF f, c
  <2>1. Min({c, f}) = x0
    BY <1>1, MinOfTwo
  <2>2. Max({x0, 0}) = a /\ Min({f, end}) = b
    BY <1>1, MaxOfTwo, MinOfTwo
  <2>3. Min({a, end}) = lo /\ Max({b, 0}) = hi
    BY <1>1, MaxOfTwo, MinOfTwo
  <2>4. Raster(x, width, 0, count) = Min({Max({Min({c, f}), 0}), 0 + count - 1}) .. Max({Min({f, 0 + count - 1}), 0})
    BY DEF Raster, f, c
  <2>5. 0 + count - 1 = end
    OBVIOUS
  <2> HIDE DEF x0, a, b, lo, hi, end
  <2> QED
    BY <2>1, <2>2, <2>3, <2>4, <2>5
<1> HIDE DEF f, c
<1>4. lo .. hi # {}
  <2>1. lo <= hi /\ lo \in Int /\ hi \in Int
    BY <1>1
  <2> HIDE DEF lo, hi
  <2> QED
    BY <2>1
<1>5. ASSUME NEW q \in Near(x, width, count)
      PROVE  /\ Near(x, width, count) \subseteq lo .. hi
             /\ lo .. hi \subseteq Near(x, width + 1, count)
  <2>1. \A p \in Near(x, width, count) : p \in 0 .. end /\ c <= p /\ p <= f
    BY <1>2 DEF Near
  <2>2. c <= q /\ q <= f /\ q \in 0 .. end
    BY <2>1
  <2>3. lo = (IF c >= 0 THEN c ELSE 0) /\ hi = (IF f <= end THEN f ELSE end)
    BY <1>1, <2>2
  <2>4. ASSUME NEW p \in lo .. hi PROVE p \in Near(x, width + 1, count)
    <3>1. c <= p /\ p <= f /\ p \in 0 .. end
      BY <1>1, <2>3
    <3> QED
      BY <1>1, <3>1 DEF Near
  <2>5. ASSUME NEW p \in Near(x, width, count) PROVE p \in lo .. hi
    BY <1>1, <2>1, <2>3
  <2> QED
    BY <2>4, <2>5
<1>6. ASSUME Near(x, width, count) = {} PROVE lo .. hi = {Nearest(x, count)}
  <2>1. \A p \in 0 .. end : ~(4 * p + 2 - x \in 1 - width .. width - 1)
    BY <1>6 DEF Near
  <2>2. x < 0 \/ x >= 4 * count
    <3> SUFFICES ASSUME 0 <= x, x < 4 * count PROVE FALSE
      OBVIOUS
    <3>1. x \div 4 \in 0 .. end /\ 4 * (x \div 4) + 2 - x \in -1 .. 2
      OBVIOUS
    <3> QED
      BY <2>1, <3>1
  <2>3. CASE x < 0
    <3>1. 2 - x >= width
      <4>1. 0 \in 0 .. end
        OBVIOUS
      <4> QED
        BY <2>1, <2>3, <4>1
    <3>2. lo = 0 /\ hi = 0
      BY <1>1, <3>1
    <3> QED
      BY <2>3, <3>2 DEF Nearest
  <2>4. CASE x >= 4 * count
    <3>1. x - 4 * end - 2 >= width
      <4>1. end \in 0 .. end
        OBVIOUS
      <4> QED
        BY <2>1, <2>4, <4>1
    <3>2. lo = end /\ hi = end
      BY <1>1, <3>1
    <3> QED
      BY <2>4, <3>2 DEF Nearest
  <2> QED
    BY <2>2, <2>3, <2>4
<1> HIDE DEF lo, hi
<1> QED
  BY <1>3, <1>4, <1>5, <1>6

\* The last sample, and the pixels it was added to.
SampleAdded ==
  taken > 0 =>
    /\ sample.x \in Int /\ sample.y \in Int
    /\ sample.added = Raster(sample.x, XWidth, 0, XCount) \X Raster(sample.y, YWidth, 0, YCount)

\* Every step keeps the invariant of the last sample.
LEMMA SampleStep ==
  ASSUME WalkInv, SampleAdded, [Next]_vars
  PROVE  SampleAdded'
<1>1. CASE NextSample
  <2>1. PICK u \in 0 .. 3, v \in 0 .. 3 : AddSample(4 * XPos + u, 4 * YPos + v)
    BY <1>1 DEF NextSample
  <2>2. XPos \in Int /\ YPos \in Int
    BY DEF WalkInv, WalkTyped, XPos, YPos
  <2> DEFINE x == 4 * XPos + u
             y == 4 * YPos + v
  <2>3. x \in Int /\ y \in Int
    BY <2>2
  <2> HIDE DEF x, y
  <2>4. sample' = [x |-> x, y |-> y, added |-> Raster(x, XWidth, 0, XCount) \X Raster(y, YWidth, 0, YCount)]
    BY <2>1 DEF AddSample, x, y
  <2> QED
    BY <2>3, <2>4 DEF SampleAdded
<1>2. CASE UNCHANGED sample /\ (taken' = taken \/ taken' = 0)
  BY <1>2 DEF SampleAdded
<1> QED
  BY <1>1, <1>2 DEF Next, vars, clientVars, imageVars, GetNextCropWindow, GetEmptyWindow, EndFrame,
                    RenderCropWindow, WindowDone

\* The sides of a rectangle of pixels.
LEMMA SidesOfProduct ==
  ASSUME NEW A, NEW B
  PROVE  /\ B # {} => {p[1] : p \in A \X B} = A
         /\ A # {} => {p[2] : p \in A \X B} = B
<1>1. ASSUME NEW a \in A, NEW b \in B PROVE <<a, b>> \in A \X B /\ <<a, b>>[1] = a /\ <<a, b>>[2] = b
  BY <1>1
<1>2. \A p \in A \X B : p[1] \in A /\ p[2] \in B
  OBVIOUS
<1>3. ASSUME NEW b \in B PROVE {p[1] : p \in A \X B} = A
  <2>1. \A a \in A : \E p \in A \X B : p[1] = a
    BY <1>1
  <2> QED
    BY <1>2, <2>1
<1>4. ASSUME NEW a \in A PROVE {p[2] : p \in A \X B} = B
  <2>1. \A b \in B : \E p \in A \X B : p[2] = b
    BY <1>1
  <2> QED
    BY <1>2, <2>1
<1> QED
  BY <1>3, <1>4

\* The invariant of the last sample gives the property.
LEMMA SampleAddedImplies ==
  ASSUME SampleAdded
  PROVE  AddedWithinReach
<1> SUFFICES ASSUME taken > 0 PROVE AddedWithinReach
  BY DEF AddedWithinReach
<1> DEFINE A == Raster(sample.x, XWidth, 0, XCount)
           B == Raster(sample.y, YWidth, 0, YCount)
<1>1. XCount \in Nat \ {0} /\ YCount \in Nat \ {0}
  <2>1. \A q \in Nat \ {0} : Ceil32(q) \in Nat \ {0}
    <3> SUFFICES ASSUME NEW q \in Nat \ {0} PROVE Ceil32(q) \in Nat \ {0}
      OBVIOUS
    <3>1. Ceil32(q) \in Int /\ q <= 4 * Ceil32(q)
      <4>1. q \in Int
        OBVIOUS
      <4> QED
        BY <4>1, Rounding
    <3> QED
      BY <3>1
  <2>2. 4 * XRes \in Nat \ {0} /\ 4 * YRes \in Nat \ {0}
    BY CropAssumption
  <2> QED
    BY <2>1, <2>2 DEF XCount, YCount
<1>2. XWidth \in Nat \ {0, 1, 2} /\ YWidth \in Nat \ {0, 1, 2}
  BY CropAssumption
<1>3. sample.x \in Int /\ sample.y \in Int /\ sample.added = A \X B
  BY DEF SampleAdded
<1>4. /\ A # {}
      /\ Near(sample.x, XWidth, XCount) = {} => A = {Nearest(sample.x, XCount)}
      /\ Near(sample.x, XWidth, XCount) # {} =>
           Near(sample.x, XWidth, XCount) \subseteq A /\ A \subseteq Near(sample.x, XWidth + 1, XCount)
  BY <1>1, <1>2, <1>3, RasterWithinReach
<1>5. /\ B # {}
      /\ Near(sample.y, YWidth, YCount) = {} => B = {Nearest(sample.y, YCount)}
      /\ Near(sample.y, YWidth, YCount) # {} =>
           Near(sample.y, YWidth, YCount) \subseteq B /\ B \subseteq Near(sample.y, YWidth + 1, YCount)
  BY <1>1, <1>2, <1>3, RasterWithinReach
<1> HIDE DEF A, B
<1>6. {p[1] : p \in sample.added} = A /\ {p[2] : p \in sample.added} = B
  <2>1. {p[1] : p \in A \X B} = A
    BY <1>5, SidesOfProduct
  <2>2. {p[2] : p \in A \X B} = B
    BY <1>4, SidesOfProduct
  <2> QED
    BY <1>3, <2>1, <2>2
<1> QED
  BY <1>4, <1>5, <1>6 DEF AddedWithinReach, Near, Nearest

\* A sample is added to all the pixels that the filter's width reaches, and to no other by
\* more than the rounding: for every size of image and filter.
THEOREM AddedWithinReachHolds == Spec => []AddedWithinReach
<1>1. Init => ScanTyped /\ WalkInv /\ SampleAdded
  <2>1. Init => SampleAdded
    BY DEF Init, SampleAdded
  <2> QED
    BY <2>1, ScanInit, WalkInit
<1>2. ScanTyped /\ WalkInv /\ SampleAdded /\ [Next]_vars => (ScanTyped /\ WalkInv /\ SampleAdded)'
  BY ScanStep, WalkNext, SampleStep
<1>3. SampleAdded => AddedWithinReach
  BY SampleAddedImplies
<1> QED
  BY <1>1, <1>2, <1>3, PTL DEF Spec

-----------------------------------------------------------------------------
(***************************************************************************)
(* Where windows and what their filter reaches lie along one side.         *)
(***************************************************************************)

\* What is sampled for a window from one of the coordinates c to another.
Extent(lo, hi, c, width) == SampleExtent(Ceil32(c[lo]), Ceil32(c[hi]) - Ceil32(c[lo]), width)
Inside(q, e) == e[1] <= q /\ q < e[2]

\* The filter reaches over an edge by no more than the margin, and by something.
LEMMA EdgeWithinMargin ==
  ASSUME NEW e \in Int, NEW width \in Nat \ {0, 1, 2}
  PROVE  /\ RoundEven(4 * e - width) \in Int /\ RoundEven(4 * e + width) \in Int
         /\ Margin(width) \in Nat
         /\ e - Margin(width) <= RoundEven(4 * e - width)
         /\ RoundEven(4 * e + width) <= e + Margin(width)
         /\ RoundEven(4 * e - width) < RoundEven(4 * e + width)
BY DEF RoundEven, Margin

\* The reach over both edges of a window.
LEMMA ExtentIs ==
  ASSUME NEW c, Ascending(c), NEW width \in Nat \ {0, 1, 2}, NEW lo, NEW hi, Side(lo, hi, Len(c))
  PROVE  /\ Ceil32(c[lo]) \in Int /\ Ceil32(c[hi]) \in Int /\ Ceil32(c[lo]) <= Ceil32(c[hi])
         /\ Extent(lo, hi, c, width) =
              <<RoundEven(4 * Ceil32(c[lo]) - width), RoundEven(4 * Ceil32(c[hi]) + width)>>
<1> DEFINE a == Ceil32(c[lo])
           b == Ceil32(c[hi])
<1>1. a \in Int /\ b - a \in Nat
  BY WindowCount
<1>2. b \in Int
  <2>1. c[hi] \in Nat
    BY DEF Side, Ascending
  <2>2. c[hi] \in Int
    BY <2>1
  <2> QED
    BY <2>2, Rounding
<1> HIDE DEF a, b
<1>3. 4 * a + 2 - width - 2 = 4 * a - width /\ 4 * (a + (b - a)) + 2 + width - 2 = 4 * b + width
  BY <1>1, <1>2
<1>4. SampleExtent(a, b - a, width) = <<RoundEven(4 * a - width), RoundEven(4 * b + width)>>
  BY <1>1, <1>2, <1>3 DEF SampleExtent, Floor32
<1>5. a <= b
  BY <1>1, <1>2
<1> QED
  BY <1>1, <1>2, <1>4, <1>5, Zenon DEF Extent, a, b

\* Later coordinates are no smaller.
LEMMA CutsInOrder ==
  ASSUME NEW c, Ascending(c), NEW i \in 1 .. Len(c), NEW j \in 1 .. Len(c), i <= j
  PROVE  Ceil32(c[i]) \in Int /\ Ceil32(c[j]) \in Int /\ Ceil32(c[i]) <= Ceil32(c[j])
<1>1. Len(c) \in Nat /\ \A k \in 1 .. Len(c) : c[k] \in Nat
  BY DEF Ascending
<1> DEFINE Good == {m \in Nat : i + m <= Len(c) => c[i] <= c[i + m]}
<1>2. 0 \in Good
  BY <1>1
<1>3. ASSUME NEW m \in Good PROVE m + 1 \in Good
  <2> SUFFICES ASSUME i + (m + 1) <= Len(c) PROVE c[i] <= c[i + (m + 1)]
    OBVIOUS
  <2>1. i + m \in 1 .. Len(c) - 1 /\ (i + m) + 1 = i + (m + 1) /\ i + m \in 1 .. Len(c)
        /\ (i + m) + 1 \in 1 .. Len(c)
    BY <1>1
  <2>2. c[i] <= c[i + m]
    BY <2>1
  <2>3. c[i + m] <= c[(i + m) + 1]
    BY <2>1 DEF Ascending
  <2>4. c[i] \in Nat /\ c[i + m] \in Nat /\ c[(i + m) + 1] \in Nat
    BY <1>1, <2>1
  <2> QED
    BY <2>1, <2>2, <2>3, <2>4
<1>4. Good = Nat
  <2> HIDE DEF Good
  <2>1. Good \in SUBSET Nat
    BY DEF Good
  <2> QED
    BY <1>2, <1>3, <2>1, SetInduction
<1>5. c[i] <= c[j]
  <2>1. j - i \in Good
    <3> HIDE DEF Good
    <3> QED
      BY <1>4
  <2> QED
    BY <2>1
<1>6. c[i] \in Int /\ c[j] \in Int
  BY <1>1
<1> QED
  BY <1>5, <1>6, Rounding, RoundingMonotone

\* A place that the filter reaches from somewhere in the image is sampled for one of the windows.
LEMMA ExtentsCover ==
  ASSUME NEW c, Ascending(c), NEW width \in Nat \ {0, 1, 2}, NEW q \in Int,
         RoundEven(4 * Ceil32(c[1]) - width) <= q,
         q < RoundEven(4 * Ceil32(c[Len(c)]) + width)
  PROVE  \E i \in 1 .. Len(c) - 1 : Inside(q, Extent(i, i + 1, c, width))
<1>1. Len(c) \in Nat /\ Len(c) >= 2
  BY DEF Ascending
<1> DEFINE Found == \E i \in 1 .. Len(c) - 1 : Inside(q, Extent(i, i + 1, c, width))
           Good == {m \in Nat : m + 1 <= Len(c) =>
                                  Found \/ RoundEven(4 * Ceil32(c[m + 1]) - width) <= q}
<1>2. \A k \in 1 .. Len(c) : Ceil32(c[k]) \in Int
  <2> TAKE k \in 1 .. Len(c)
  <2> QED
    BY CutsInOrder
<1>3. 0 \in Good
  BY <1>1
<1>4. ASSUME NEW m \in Good PROVE m + 1 \in Good
  <2> SUFFICES ASSUME (m + 1) + 1 <= Len(c), ~Found
               PROVE  RoundEven(4 * Ceil32(c[(m + 1) + 1]) - width) <= q
    OBVIOUS
  <2> DEFINE i == m + 1
             f == Ceil32(c[i + 1])
  <2>1. i \in 1 .. Len(c) - 1 /\ i + 1 \in 1 .. Len(c) /\ Side(i, i + 1, Len(c)) /\ i <= Len(c)
    BY <1>1 DEF Side
  <2>2. RoundEven(4 * Ceil32(c[i]) - width) <= q
    BY <2>1
  <2>3. ~Inside(q, Extent(i, i + 1, c, width))
    BY <2>1
  <2> HIDE DEF i, Found, Good
  <2>4. Extent(i, i + 1, c, width) =
          <<RoundEven(4 * Ceil32(c[i]) - width), RoundEven(4 * f + width)>>
    BY <2>1, ExtentIs
  <2>5. f \in Int
    BY <1>2, <2>1
  <2> HIDE DEF f
  <2>6. ~(q < RoundEven(4 * f + width))
    BY <2>2, <2>3, <2>4 DEF Inside
  <2>7. RoundEven(4 * f - width) < RoundEven(4 * f + width)
        /\ RoundEven(4 * f - width) \in Int /\ RoundEven(4 * f + width) \in Int
    BY <2>5, EdgeWithinMargin
  <2> QED
    BY <2>6, <2>7 DEF f, i
<1>5. Good = Nat
  <2> HIDE DEF Good
  <2>1. Good \in SUBSET Nat
    BY DEF Good
  <2> QED
    BY <1>3, <1>4, <2>1, SetInduction
<1> DEFINE i == Len(c) - 1
<1>6. i \in 1 .. Len(c) - 1 /\ i + 1 = Len(c) /\ Side(i, i + 1, Len(c))
  BY <1>1 DEF Side
<1>7. Found \/ RoundEven(4 * Ceil32(c[i]) - width) <= q
  <2>1. i - 1 \in Nat /\ (i - 1) + 1 = i /\ i <= Len(c)
    BY <1>1
  <2>2. i - 1 \in Good
    <3> HIDE DEF Good
    <3> QED
      BY <1>5, <2>1
  <2> QED
    BY <2>1, <2>2
<1> HIDE DEF i
<1>8. Extent(i, i + 1, c, width) =
        <<RoundEven(4 * Ceil32(c[i]) - width), RoundEven(4 * Ceil32(c[Len(c)]) + width)>>
  BY <1>6, ExtentIs
<1>9. RoundEven(4 * Ceil32(c[i]) - width) <= q => Inside(q, Extent(i, i + 1, c, width))
  BY <1>8 DEF Inside
<1> QED
  BY <1>6, <1>7, <1>9

\* Away from where windows meet a place is sampled for one window only, ...
LEMMA ExtentsApart ==
  ASSUME NEW c, Ascending(c), NEW width \in Nat \ {0, 1, 2}, NEW q \in Int,
         FarFromCuts(q, c, width), NEW i \in 1 .. Len(c) - 1, NEW j \in 1 .. Len(c) - 1,
         Inside(q, Extent(i, i + 1, c, width)), Inside(q, Extent(j, j + 1, c, width))
  PROVE  i = j
<1>1. Len(c) \in Nat /\ Len(c) >= 2
  BY DEF Ascending
<1>2. ASSUME NEW a \in 1 .. Len(c) - 1, NEW b \in 1 .. Len(c) - 1, a < b,
             Inside(q, Extent(a, a + 1, c, width)), Inside(q, Extent(b, b + 1, c, width))
      PROVE  FALSE
  <2>1. /\ a \in 1 .. Len(c) /\ a + 1 \in 2 .. Len(c) /\ a + 1 \in 1 .. Len(c) /\ b \in 2 .. Len(c)
        /\ b \in 1 .. Len(c) /\ a + 1 <= b /\ Side(a, a + 1, Len(c)) /\ Side(b, b + 1, Len(c))
    BY <1>1, <1>2 DEF Side
  <2> DEFINE e == Ceil32(c[a + 1])
             f == Ceil32(c[b])
  <2>2. e \in Int /\ f \in Int /\ e <= f
    BY <2>1, CutsInOrder
  <2>3. q < RoundEven(4 * e + width)
    <3>1. Extent(a, a + 1, c, width) =
            <<RoundEven(4 * Ceil32(c[a]) - width), RoundEven(4 * Ceil32(c[a + 1]) + width)>>
      BY <2>1, ExtentIs, Zenon
    <3> QED
      BY <1>2, <3>1 DEF Inside
  <2>4. RoundEven(4 * f - width) <= q
    <3>1. Extent(b, b + 1, c, width) =
            <<RoundEven(4 * Ceil32(c[b]) - width), RoundEven(4 * Ceil32(c[b + 1]) + width)>>
      BY <2>1, ExtentIs, Zenon
    <3> QED
      BY <1>2, <3>1 DEF Inside
  <2>5. /\ q < e - Margin(width) \/ q >= e + Margin(width)
        /\ q < f - Margin(width) \/ q >= f + Margin(width)
    BY <2>1, Zenon DEF FarFromCuts
  <2> HIDE DEF e, f
  <2>6. /\ RoundEven(4 * e + width) <= e + Margin(width) /\ f - Margin(width) <= RoundEven(4 * f - width)
        /\ RoundEven(4 * e + width) \in Int /\ RoundEven(4 * f - width) \in Int /\ Margin(width) \in Nat
    BY <2>2, EdgeWithinMargin
  <2> QED
    BY <2>2, <2>3, <2>4, <2>5, <2>6
<1>3. ~(i < j)
  BY <1>2
<1>4. ~(j < i)
  BY <1>2
<1> QED
  BY <1>3, <1>4

\* ... and not for one without extent at the end.
LEMMA ExtentAtEnd ==
  ASSUME NEW c, Ascending(c), NEW width \in Nat \ {0, 1, 2}, NEW q \in Int,
         FarFromCuts(q, c, width)
  PROVE  ~Inside(q, Extent(Len(c), Len(c), c, width))
<1>1. Len(c) \in Nat /\ Len(c) \in 2 .. Len(c) /\ Side(Len(c), Len(c), Len(c))
  BY DEF Ascending, Side
<1> DEFINE e == Ceil32(c[Len(c)])
<1>2. e \in Int
  BY <1>1, ExtentIs
<1>3. Extent(Len(c), Len(c), c, width) = <<RoundEven(4 * e - width), RoundEven(4 * e + width)>>
  BY <1>1, ExtentIs
<1>4. q < e - Margin(width) \/ q >= e + Margin(width)
  BY <1>1, Zenon DEF FarFromCuts
<1> HIDE DEF e
<1>5. /\ RoundEven(4 * e + width) <= e + Margin(width) /\ e - Margin(width) <= RoundEven(4 * e - width)
      /\ RoundEven(4 * e + width) \in Int /\ RoundEven(4 * e - width) \in Int /\ Margin(width) \in Nat
  BY <1>2, EdgeWithinMargin
<1> QED
  BY <1>2, <1>3, <1>4, <1>5 DEF Inside

\* The scan along a side goes from the beginning of the image to its end.
Whole(c, res) == Ascending(c) /\ c[1] = 0 /\ c[Len(c)] = 4 * res

\* The coordinates of a scan do.
LEMMA CutsWhole ==
  ASSUME NEW res \in Nat \ {0}, NEW c \in Cuts(res)
  PROVE  Whole(c, res)
<1>1. Ascending(c)
  BY CutsAscend
<1>2. PICK t \in Sums(res), b \in Below(res) : c = <<0>> \o t \o b \o <<4 * res>>
  BY DEF Cuts
<1>3. PICK n \in Nat : Inner(res) = 1 .. n
  BY InnerIsInterval
<1>4. t \in Seq(Int)
  <2>1. PICK up \in [Inner(res) -> {0, 1}] : t = [k \in Inner(res) |-> 4 * k * Step + up[k]]
    BY DEF Sums
  <2>2. ASSUME NEW k \in 1 .. n PROVE 4 * k * Step + up[k] \in Int
    <3>1. up[k] \in {0, 1}
      BY <1>3, <2>1
    <3>2. 4 * k * Step \in Int
      BY CropAssumption
    <3> QED
      BY <3>1, <3>2
  <2>3. t = [k \in 1 .. n |-> 4 * k * Step + up[k]]
    BY <1>3, <2>1
  <2> QED
    BY <2>2, <2>3
<1>5. b \in Seq(Int)
  <2>1. b = <<>> \/ b = <<4 * res - 1>>
    BY DEF Below
  <2>2. <<>> \in Seq(Int) /\ <<4 * res - 1>> \in Seq(Int)
    OBVIOUS
  <2> QED
    BY <2>1, <2>2, Zenon
<1>6. <<0>> \o t \o b \in Seq(Int) /\ (<<0>> \o t \o b)[1] = 0 /\ Len(<<0>> \o t \o b) >= 1
  BY <1>4, <1>5
<1> DEFINE s == <<0>> \o t \o b
<1>7. c = s \o <<4 * res>>
  BY <1>2
<1> HIDE DEF s
<1>8. s \in Seq(Int) /\ s[1] = 0 /\ Len(s) >= 1 /\ 4 * res \in Int
  BY <1>6 DEF s
<1>9. c[1] = 0 /\ c[Len(c)] = 4 * res
  BY <1>7, <1>8
<1> QED
  BY <1>1, <1>9 DEF Whole

\* What is sampled for a window lies in the image and its margin.
LEMMA ExtentInMargin ==
  ASSUME NEW res \in Nat \ {0}, NEW c, Whole(c, res), NEW width \in Nat \ {0, 1, 2},
         NEW lo, NEW hi, Side(lo, hi, Len(c)), NEW q \in Int, Inside(q, Extent(lo, hi, c, width))
  PROVE  q \in -Margin(width) .. Ceil32(4 * res) - 1 + Margin(width)
<1>1. Ascending(c) /\ c[1] = 0 /\ c[Len(c)] = 4 * res /\ Len(c) \in Nat /\ Len(c) >= 2
  BY DEF Whole, Ascending
<1> DEFINE a == Ceil32(c[lo])
           b == Ceil32(c[hi])
           z == Ceil32(c[Len(c)])
<1>2. a \in Int /\ b \in Int /\ Extent(lo, hi, c, width) = <<RoundEven(4 * a - width), RoundEven(4 * b + width)>>
  BY <1>1, ExtentIs
<1>3. Ceil32(c[1]) <= a
  <2>1. 1 \in 1 .. Len(c) /\ lo \in 1 .. Len(c) /\ 1 <= lo
    BY <1>1 DEF Side
  <2> QED
    BY <1>1, <2>1, CutsInOrder
<1>4. b <= z /\ z \in Int
  <2>1. Len(c) \in 1 .. Len(c) /\ hi \in 1 .. Len(c) /\ hi <= Len(c)
    BY <1>1 DEF Side
  <2> QED
    BY <1>1, <2>1, CutsInOrder
<1>5. Ceil32(0) = 0
  BY DEF Ceil32, RoundEven
<1>6. z = Ceil32(4 * res)
  BY <1>1
<1>7. 0 <= a
  BY <1>1, <1>3, <1>5
<1> HIDE DEF a, b, z
<1>8. RoundEven(4 * a - width) <= q /\ q < RoundEven(4 * b + width)
  BY <1>2 DEF Inside
<1>9. /\ a - Margin(width) <= RoundEven(4 * a - width) /\ RoundEven(4 * b + width) <= b + Margin(width)
      /\ RoundEven(4 * a - width) \in Int /\ RoundEven(4 * b + width) \in Int /\ Margin(width) \in Nat
  BY <1>2, EdgeWithinMargin
<1>10. -Margin(width) <= q /\ q <= z - 1 + Margin(width)
  BY <1>2, <1>4, <1>7, <1>8, <1>9
<1> QED
  BY <1>4, <1>6, <1>9, <1>10

\* Samples that a pixel of the image needs are taken for one of the windows.
LEMMA ReachCovered ==
  ASSUME NEW res \in Nat \ {0}, NEW c, Whole(c, res), NEW width \in Nat \ {0, 1, 2},
         NEW p \in 0 .. Ceil32(4 * res) - 1, NEW q \in Reach(p, width)
  PROVE  \E i \in 1 .. Len(c) - 1 : Inside(q, Extent(i, i + 1, c, width))
<1>1. Ascending(c) /\ c[1] = 0 /\ c[Len(c)] = 4 * res
  BY DEF Whole
<1> DEFINE n == Ceil32(4 * res)
<1>2. n \in Int
  <2>1. 4 * res \in Int
    OBVIOUS
  <2> QED
    BY <2>1, Rounding
<1>3. Ceil32(0) = 0
  BY DEF Ceil32, RoundEven
<1> HIDE DEF n
<1>4. q \in Int /\ p \in Int /\ 0 <= p /\ p <= n - 1
  BY <1>2 DEF Reach, n
<1>5. RoundEven(4 * 0 - width) <= q
  BY <1>4 DEF Reach, RoundEven
<1>6. q < RoundEven(4 * n + width)
  <2>1. q <= (4 * (n - 1) + 1 + width) \div 4
    BY <1>2, <1>4 DEF Reach
  <2>2. (4 * (n - 1) + 1 + width) \div 4 < RoundEven(4 * n + width)
    BY <1>2 DEF RoundEven
  <2>3. RoundEven(4 * n + width) \in Int /\ (4 * (n - 1) + 1 + width) \div 4 \in Int
    BY <1>2 DEF RoundEven
  <2> QED
    BY <1>4, <2>1, <2>2, <2>3
<1>7. RoundEven(4 * Ceil32(c[1]) - width) <= q /\ q < RoundEven(4 * Ceil32(c[Len(c)]) + width)
  BY <1>1, <1>3, <1>5, <1>6 DEF n
<1> QED
  BY <1>1, <1>4, <1>7, ExtentsCover

-----------------------------------------------------------------------------
(***************************************************************************)
(* The scan: which windows are finished.                                   *)
(***************************************************************************)
ScanWhole == Whole(xCuts, XRes) /\ Whole(yCuts, YRes)

\* A window between neighbouring coordinates, and the one without extent after them all.
WholeWindow(w) ==
  /\ w.xmin \in 1 .. XOne - 1 /\ w.xmax = w.xmin + 1
  /\ w.ymin \in 1 .. YOne - 1 /\ w.ymax = w.ymin + 1
Corner(w) == w.xmin = XOne /\ w.xmax = XOne /\ w.ymin = YOne /\ w.ymax = YOne

LastShape ==
  /\ task \in {"request", "render_crop", "sample", "end_frame"}
  /\ (last = NoWindow /\ task = "request") \/ WholeWindow(last) \/ Corner(last)

\* The windows whose samples are all taken: those before the last, in the order of the scan,
\* and the last when the client asks for the next.
Finished(i, j) ==
  /\ last # NoWindow
  /\ \/ j < last.ymin
     \/ j = last.ymin /\ i < last.xmin
     \/ j = last.ymin /\ i = last.xmin /\ task \in {"request", "end_frame"}

\* The last window comes at the end of a row, of the scan, or neither.
LEMMA NextWindowIs ==
  ASSUME ScanTyped, WholeWindow(last) \/ Corner(last)
  PROVE  NextWindow(last) =
           IF last.xmax < XOne
             THEN [xmin |-> last.xmax, xmax |-> last.xmax + 1, ymin |-> last.ymin, ymax |-> last.ymin + 1]
             ELSE IF last.ymax < YOne
               THEN [xmin |-> 1, xmax |-> 2, ymin |-> last.ymax, ymax |-> last.ymax + 1]
               ELSE [xmin |-> XOne, xmax |-> XOne, ymin |-> YOne, ymax |-> YOne]
<1> DEFINE ymin == IF last.xmax = XOne THEN last.ymax ELSE last.ymin
           xmin == IF last.xmax = XOne /\ ymin < YOne THEN 1 ELSE last.xmax
<1>1. XOne \in Nat /\ XOne >= 2 /\ YOne \in Nat /\ YOne >= 2
  BY DEF ScanTyped, Ascending, XOne, YOne
<1>2. xmin \in 1 .. XOne /\ ymin \in 1 .. YOne
  BY <1>1 DEF ScanTyped, Side
<1>3. NextWindow(last) =
        [xmin |-> xmin, xmax |-> Min({XOne, xmin + 1}), ymin |-> ymin, ymax |-> Min({YOne, ymin + 1})]
  BY Zenon DEF NextWindow
<1>4. Min({XOne, xmin + 1}) = IF XOne <= xmin + 1 THEN XOne ELSE xmin + 1
  <2> HIDE DEF xmin, ymin
  <2> QED
    BY <1>1, <1>2, MinOfTwo
<1>5. Min({YOne, ymin + 1}) = IF YOne <= ymin + 1 THEN YOne ELSE ymin + 1
  <2> HIDE DEF xmin, ymin
  <2> QED
    BY <1>1, <1>2, MinOfTwo
<1>6. CASE last.xmax < XOne
  <2>1. WholeWindow(last)
    BY <1>1, <1>6 DEF Corner
  <2>2. xmin = last.xmax /\ ymin = last.ymin
    BY <1>1, <1>6, <2>1 DEF WholeWindow
  <2> HIDE DEF xmin, ymin
  <2>3. Min({XOne, xmin + 1}) = xmin + 1 /\ Min({YOne, ymin + 1}) = ymin + 1
    BY <1>1, <1>2, <1>4, <1>5, <1>6, <2>1, <2>2 DEF WholeWindow
  <2> QED
    BY <1>3, <1>6, <2>2, <2>3, Zenon
<1>7. CASE ~(last.xmax < XOne) /\ last.ymax < YOne
  <2>1. WholeWindow(last) /\ last.xmax = XOne
    BY <1>1, <1>7 DEF Corner, WholeWindow
  <2>2. xmin = 1 /\ ymin = last.ymax
    BY <1>7, <2>1
  <2> HIDE DEF xmin, ymin
  <2>3. Min({XOne, xmin + 1}) = 2 /\ Min({YOne, ymin + 1}) = ymin + 1
    BY <1>1, <1>2, <1>4, <1>5, <1>7, <2>2
  <2> QED
    BY <1>3, <1>7, <2>2, <2>3, Zenon
<1>8. CASE ~(last.xmax < XOne) /\ ~(last.ymax < YOne)
  <2>1. last.xmax = XOne /\ last.ymax = YOne
    BY <1>1, <1>8 DEF Corner, WholeWindow
  <2>2. xmin = XOne /\ ymin = YOne
    BY <1>1, <2>1
  <2> HIDE DEF xmin, ymin
  <2>3. Min({XOne, xmin + 1}) = XOne /\ Min({YOne, ymin + 1}) = YOne
    BY <1>1, <1>2, <1>4, <1>5, <2>2
  <2> QED
    BY <1>3, <1>8, <2>2, <2>3, Zenon
<1> QED
  BY <1>6, <1>7, <1>8

\* The scan is over when the last window is the one in the far corner, or follows it.
LEMMA ScanOverIs ==
  ASSUME ScanTyped, LastShape
  PROVE  /\ ScanOver <=> /\ WholeWindow(last) \/ Corner(last)
                         /\ last.xmax = XOne /\ last.ymax = YOne
         /\ WholeWindow(last) => last # NoWindow
         /\ Corner(last) => last # NoWindow
<1>1. XOne \in Nat /\ XOne >= 2 /\ YOne \in Nat /\ YOne >= 2
  BY DEF ScanTyped, Ascending, XOne, YOne
<1>2. ~WholeWindow(NoWindow) /\ ~Corner(NoWindow)
  BY <1>1 DEF WholeWindow, Corner, NoWindow
<1>3. (WholeWindow(last) => last # NoWindow) /\ (Corner(last) => last # NoWindow)
  BY <1>2, Zenon
<1>4. ASSUME WholeWindow(last) \/ Corner(last)
      PROVE  ScanOver <=> last.xmax = XOne /\ last.ymax = YOne
  <2> DEFINE w == NextWindow(last)
  <2>1. w = IF last.xmax < XOne
              THEN [xmin |-> last.xmax, xmax |-> last.xmax + 1, ymin |-> last.ymin, ymax |-> last.ymin + 1]
              ELSE IF last.ymax < YOne
                THEN [xmin |-> 1, xmax |-> 2, ymin |-> last.ymax, ymax |-> last.ymax + 1]
                ELSE [xmin |-> XOne, xmax |-> XOne, ymin |-> YOne, ymax |-> YOne]
    BY <1>4, NextWindowIs
  <2>2. last.xmax \in 1 .. XOne /\ last.ymax \in 1 .. YOne
    BY <1>1, <1>4 DEF WholeWindow, Corner
  <2>3. ScanOver <=> w.xmin >= w.xmax /\ w.ymin >= w.ymax
    BY <1>3, <1>4, Zenon DEF ScanOver, IsEmpty
  <2> HIDE DEF w
  <2>4. CASE last.xmax < XOne
    <3>1. w.xmin = last.xmax /\ w.xmax = last.xmax + 1
      BY <2>1, <2>4
    <3> QED
      BY <1>1, <2>2, <2>3, <2>4, <3>1
  <2>5. CASE ~(last.xmax < XOne) /\ last.ymax < YOne
    <3>1. w.xmin = 1 /\ w.xmax = 2
      BY <2>1, <2>5
    <3> QED
      BY <1>1, <2>2, <2>3, <2>5, <3>1
  <2>6. CASE ~(last.xmax < XOne) /\ ~(last.ymax < YOne)
    <3>1. w.xmin = XOne /\ w.xmax = XOne /\ w.ymin = YOne /\ w.ymax = YOne
      BY <2>1, <2>6
    <3> QED
      BY <1>1, <2>2, <2>3, <2>6, <3>1
  <2> QED
    BY <2>4, <2>5, <2>6
<1>5. last = NoWindow => ~ScanOver
  BY DEF ScanOver
<1> QED
  BY <1>2, <1>3, <1>4, <1>5 DEF LastShape

\* The next window is whole, or the one without extent, and when it is handed out the windows
\* that are finished are the same.
LEMMA NextWindowFollows ==
  ASSUME ScanTyped, LastShape, WholeWindow(last) \/ Corner(last), task = "request",
         last' = NextWindow(last), task' = "render_crop", UNCHANGED <<xCuts, yCuts>>
  PROVE  /\ LastShape'
         /\ \A i \in 1 .. XOne - 1, j \in 1 .. YOne - 1 : Finished(i, j)' <=> Finished(i, j)
<1>1. /\ XOne \in Nat /\ XOne >= 2 /\ YOne \in Nat /\ YOne >= 2 /\ XOne' = XOne /\ YOne' = YOne
  BY DEF ScanTyped, Ascending, XOne, YOne
<1>2. last' = IF last.xmax < XOne
                THEN [xmin |-> last.xmax, xmax |-> last.xmax + 1, ymin |-> last.ymin, ymax |-> last.ymin + 1]
                ELSE IF last.ymax < YOne
                  THEN [xmin |-> 1, xmax |-> 2, ymin |-> last.ymax, ymax |-> last.ymax + 1]
                  ELSE [xmin |-> XOne, xmax |-> XOne, ymin |-> YOne, ymax |-> YOne]
  BY NextWindowIs
<1>3. last # NoWindow
  BY ScanOverIs
<1>4. \A i \in 1 .. XOne - 1, j \in 1 .. YOne - 1 :
        Finished(i, j) <=> j < last.ymin \/ (j = last.ymin /\ i <= last.xmin)
  <2> TAKE i \in 1 .. XOne - 1, j \in 1 .. YOne - 1
  <2>1. last.xmin \in Int
    BY <1>1 DEF WholeWindow, Corner
  <2> QED
    BY <1>3, <2>1 DEF Finished
<1>5. ASSUME WholeWindow(last') \/ Corner(last')
      PROVE  /\ LastShape'
             /\ \A i \in 1 .. XOne - 1, j \in 1 .. YOne - 1 :
                  Finished(i, j)' <=> j < last'.ymin \/ (j = last'.ymin /\ i < last'.xmin)
  <2>1. ~WholeWindow(NoWindow) /\ ~Corner(NoWindow)
    BY <1>1 DEF WholeWindow, Corner, NoWindow
  <2>2. last' # NoWindow
    BY <1>5, <2>1, Zenon
  <2>3. NoWindow' = NoWindow
    BY DEF NoWindow
  <2>4. WholeWindow(last)' <=> WholeWindow(last')
    BY <1>1 DEF WholeWindow
  <2>5. Corner(last)' <=> Corner(last')
    BY <1>1 DEF Corner
  <2>6. LastShape'
    BY <1>5, <2>4, <2>5 DEF LastShape
  <2>7. \A i \in 1 .. XOne - 1, j \in 1 .. YOne - 1 :
          Finished(i, j)' <=> j < last'.ymin \/ (j = last'.ymin /\ i < last'.xmin)
    BY <2>2, <2>3 DEF Finished
  <2> QED
    BY <2>6, <2>7
<1>6. CASE last.xmax < XOne
  <2>1. last'.xmin = last.xmax /\ last'.xmax = last.xmax + 1 /\ last'.ymin = last.ymin
        /\ last'.ymax = last.ymin + 1
    BY <1>2, <1>6
  <2>2. WholeWindow(last)
    BY <1>1, <1>6 DEF Corner
  <2>3. WholeWindow(last')
    BY <1>1, <1>6, <2>1, <2>2 DEF WholeWindow
  <2>4. \A i \in 1 .. XOne - 1 : i <= last.xmin <=> i < last'.xmin
    BY <2>1, <2>2 DEF WholeWindow
  <2> QED
    BY <1>4, <1>5, <2>1, <2>3, <2>4
<1>7. CASE ~(last.xmax < XOne) /\ last.ymax < YOne
  <2>1. last'.xmin = 1 /\ last'.xmax = 2 /\ last'.ymin = last.ymax /\ last'.ymax = last.ymax + 1
    BY <1>2, <1>7
  <2>2. WholeWindow(last) /\ last.xmax = XOne
    BY <1>1, <1>7 DEF Corner, WholeWindow
  <2>3. WholeWindow(last')
    BY <1>1, <1>7, <2>1, <2>2 DEF WholeWindow
  <2>4. last.xmin = XOne - 1 /\ last'.ymin = last.ymin + 1 /\ last.ymin \in Int
    BY <1>1, <2>1, <2>2 DEF WholeWindow
  <2>5. \A i \in 1 .. XOne - 1, j \in 1 .. YOne - 1 :
          (j < last.ymin \/ (j = last.ymin /\ i <= last.xmin))
            <=> (j < last'.ymin \/ (j = last'.ymin /\ i < last'.xmin))
    BY <1>1, <2>1, <2>4
  <2> QED
    BY <1>4, <1>5, <2>3, <2>5
<1>8. CASE ~(last.xmax < XOne) /\ ~(last.ymax < YOne)
  <2>1. last'.xmin = XOne /\ last'.xmax = XOne /\ last'.ymin = YOne /\ last'.ymax = YOne
    BY <1>2, <1>8
  <2>2. Corner(last')
    BY <2>1 DEF Corner
  <2>3. last.xmin \in Int /\ last.ymin \in Int
        /\ (last.ymin = YOne \/ (last.ymin = YOne - 1 /\ last.xmin = XOne - 1))
    BY <1>1, <1>8 DEF WholeWindow, Corner
  <2>4. \A i \in 1 .. XOne - 1, j \in 1 .. YOne - 1 :
          (j < last.ymin \/ (j = last.ymin /\ i <= last.xmin))
            <=> (j < last'.ymin \/ (j = last'.ymin /\ i < last'.xmin))
    BY <1>1, <2>1, <2>3
  <2> QED
    BY <1>4, <1>5, <2>2, <2>4
<1> QED
  BY <1>6, <1>7, <1>8

-----------------------------------------------------------------------------
(***************************************************************************)
(* How many samples each place was given.                                  *)
(***************************************************************************)

\* The places of the window (i, j), and of the walk.
InWindow(q, i, j) ==
  /\ Inside(q[1], Extent(i, i + 1, xCuts, XWidth))
  /\ Inside(q[2], Extent(j, j + 1, yCuts, YWidth))
InWalk(q) == task = "sample" /\ Inside(q[1], sampler.x) /\ Inside(q[2], sampler.y)

\* The sampler walks over the last window.
WalksLast ==
  task = "sample" => /\ sampler.x = Extent(last.xmin, last.xmax, xCuts, XWidth)
                     /\ sampler.y = Extent(last.ymin, last.ymax, yCuts, YWidth)

\* A place has been sampled for a finished window, has been passed by the walk, or is the
\* one where it stands.
Sampled(q) == \E i \in 1 .. XOne - 1, j \in 1 .. YOne - 1 : Finished(i, j) /\ InWindow(q, i, j)
Passed(q) ==
  InWalk(q) /\ (q[2] < sampler.yPos \/ (q[2] = sampler.yPos /\ q[1] < sampler.xPos))
Standing(q) == InWalk(q) /\ q[1] = sampler.xPos /\ q[2] = sampler.yPos

Far(q) == FarFromCuts(q[1], xCuts, XWidth) /\ FarFromCuts(q[2], yCuts, YWidth)

Counted(q) ==
  /\ Sampled(q) \/ Passed(q) => pixels[q] >= PixelSamples
  /\ Standing(q) => pixels[q] >= sampler.samplePos
  /\ Far(q) => pixels[q] <= IF Sampled(q) \/ Passed(q) THEN PixelSamples
                            ELSE IF Standing(q) THEN sampler.samplePos ELSE 0

AllCounted == pixels \in [Places -> Nat] /\ \A q \in Places : Counted(q)

\* Whenever the frame has ended its image was written as it is, and the scan is over.
EndedAtEnd == task = "end_frame" => onDisk = pixels /\ ScanOver

CoverInv ==
  /\ ScanTyped /\ ScanWhole /\ LastShape
  /\ WalkInv /\ WalksLast /\ AllCounted /\ EndedAtEnd

\* Places have two integer coordinates.
LEMMA PlaceType ==
  ASSUME NEW q \in Places
  PROVE  q = <<q[1], q[2]>> /\ q[1] \in Int /\ q[2] \in Int
<1> DEFINE a == -Margin(XWidth)
           b == XCount - 1 + Margin(XWidth)
           c == -Margin(YWidth)
           d == YCount - 1 + Margin(YWidth)
<1>1. Places = (a .. b) \X (c .. d)
  BY Zenon DEF Places
<1> HIDE DEF a, b, c, d
<1> QED
  BY <1>1

\* The walk over a window keeps to places that the film has.
LEMMA WalkInPlaces ==
  ASSUME ScanTyped, ScanWhole, WalksLast, task = "sample", NEW x \in Int, NEW y \in Int,
         Inside(x, sampler.x), Inside(y, sampler.y)
  PROVE  <<x, y>> \in Places
<1>1. XRes \in Nat \ {0} /\ YRes \in Nat \ {0} /\ XWidth \in Nat \ {0, 1, 2} /\ YWidth \in Nat \ {0, 1, 2}
  BY CropAssumption
<1>2. Side(last.xmin, last.xmax, Len(xCuts)) /\ Side(last.ymin, last.ymax, Len(yCuts))
  BY DEF ScanTyped, XOne, YOne
<1>3. Whole(xCuts, XRes) /\ Whole(yCuts, YRes)
  BY DEF ScanWhole
<1>4. x \in -Margin(XWidth) .. Ceil32(4 * XRes) - 1 + Margin(XWidth)
  <2>1. Inside(x, Extent(last.xmin, last.xmax, xCuts, XWidth))
    BY Zenon DEF WalksLast
  <2> QED
    BY <1>1, <1>2, <1>3, <2>1, ExtentInMargin
<1>5. y \in -Margin(YWidth) .. Ceil32(4 * YRes) - 1 + Margin(YWidth)
  <2>1. Inside(y, Extent(last.ymin, last.ymax, yCuts, YWidth))
    BY Zenon DEF WalksLast
  <2> QED
    BY <1>1, <1>2, <1>3, <2>1, ExtentInMargin
<1> QED
  BY <1>4, <1>5, Zenon DEF Places, XCount, YCount

\* Away from where windows meet, a place of the walk is in no finished window.
LEMMA FarNotSampled ==
  ASSUME ScanTyped, LastShape, WalksLast, NEW q \in Places, Far(q), InWalk(q)
  PROVE  WholeWindow(last) /\ ~Sampled(q)
<1>1. XWidth \in Nat \ {0, 1, 2} /\ YWidth \in Nat \ {0, 1, 2}
  BY CropAssumption
<1>2. Ascending(xCuts) /\ Ascending(yCuts) /\ q[1] \in Int /\ q[2] \in Int
  BY PlaceType DEF ScanTyped
<1>3. /\ Inside(q[1], Extent(last.xmin, last.xmax, xCuts, XWidth))
      /\ Inside(q[2], Extent(last.ymin, last.ymax, yCuts, YWidth))
      /\ task = "sample"
  BY Zenon DEF InWalk, WalksLast
<1>4. FarFromCuts(q[1], xCuts, XWidth) /\ FarFromCuts(q[2], yCuts, YWidth)
  BY Zenon DEF Far
<1> DEFINE x == q[1]
           y == q[2]
<1> HIDE DEF x, y
<1>5. ~Corner(last)
  <2> SUFFICES ASSUME Corner(last) PROVE FALSE
    OBVIOUS
  <2>1. Inside(x, Extent(Len(xCuts), Len(xCuts), xCuts, XWidth))
    BY <1>3, Zenon DEF Corner, XOne, x
  <2>2. x \in Int /\ FarFromCuts(x, xCuts, XWidth)
    BY <1>2, <1>4 DEF x
  <2> QED
    BY <1>1, <1>2, <2>1, <2>2, ExtentAtEnd
<1>6. WholeWindow(last)
  BY <1>3, <1>5 DEF LastShape
<1>7. ASSUME NEW i \in 1 .. XOne - 1, NEW j \in 1 .. YOne - 1, Finished(i, j), InWindow(q, i, j)
      PROVE  FALSE
  <2> DEFINE m == last.xmin
             n == last.ymin
  <2>1. m \in 1 .. Len(xCuts) - 1 /\ n \in 1 .. Len(yCuts) - 1 /\ last.xmax = m + 1 /\ last.ymax = n + 1
    BY <1>6 DEF WholeWindow, XOne, YOne
  <2>2. i \in 1 .. Len(xCuts) - 1 /\ j \in 1 .. Len(yCuts) - 1
    BY DEF XOne, YOne
  <2> HIDE DEF m, n
  <2>3. Inside(x, Extent(m, m + 1, xCuts, XWidth)) /\ Inside(y, Extent(n, n + 1, yCuts, YWidth))
    BY <1>3, <2>1, Zenon DEF m, n, x, y
  <2>4. Inside(x, Extent(i, i + 1, xCuts, XWidth)) /\ Inside(y, Extent(j, j + 1, yCuts, YWidth))
    BY <1>7, Zenon DEF InWindow, x, y
  <2>5. x \in Int /\ FarFromCuts(x, xCuts, XWidth) /\ y \in Int /\ FarFromCuts(y, yCuts, YWidth)
    BY <1>2, <1>4 DEF x, y
  <2>6. i = m
    BY <1>1, <1>2, <2>1, <2>2, <2>3, <2>4, <2>5, ExtentsApart
  <2>7. j = n
    BY <1>1, <1>2, <2>1, <2>2, <2>3, <2>4, <2>5, ExtentsApart
  <2>8. m \in Int /\ n \in Int
    BY <2>1
  <2> QED
    BY <1>3, <1>7, <2>6, <2>7, <2>8 DEF Finished, m, n
<1> QED
  BY <1>6, <1>7, Zenon DEF Sampled

\* Nothing is counted anew while no walk is under way and the same windows are finished.
LEMMA CountedSame ==
  ASSUME AllCounted, UNCHANGED <<xCuts, yCuts, pixels>>, task # "sample",
         \A q \in Places : ~Passed(q)' /\ ~Standing(q)',
         \A i \in 1 .. XOne - 1, j \in 1 .. YOne - 1 : Finished(i, j)' <=> Finished(i, j)
  PROVE  AllCounted'
<1>1. pixels' \in [Places -> Nat] /\ Places' = Places
  BY DEF AllCounted, Places, XCount, YCount
<1>2. ASSUME NEW q \in Places PROVE Counted(q)'
  <2>1. ~Passed(q) /\ ~Standing(q)
    BY DEF Passed, Standing, InWalk
  <2>2. Far(q)' = Far(q) /\ XOne' = XOne /\ YOne' = YOne
    BY DEF Far, XOne, YOne
  <2>3. \A i, j : InWindow(q, i, j)' <=> InWindow(q, i, j)
    BY DEF InWindow
  <2>4. Sampled(q)' <=> Sampled(q)
    BY <2>2, <2>3 DEF Sampled
  <2>5. Counted(q)
    BY DEF AllCounted
  <2>6. ~Passed(q)' /\ ~Standing(q)' /\ pixels' = pixels
    OBVIOUS
  <2> QED
    BY <2>1, <2>2, <2>4, <2>5, <2>6 DEF Counted
<1> QED
  BY <1>1, <1>2 DEF AllCounted

\* Where the walk goes, and what it has passed then.
LEMMA WalkMoves ==
  ASSUME WalkInv, NextSample
  PROVE  /\ task = "sample" /\ task' = "sample" /\ sampler'.x = sampler.x /\ sampler'.y = sampler.y
         /\ sampler'.xPos = XPos /\ sampler'.yPos = YPos
         /\ sampler'.samplePos = IF Advances THEN 1 ELSE sampler.samplePos + 1
         /\ XPos \in Int /\ YPos \in Int /\ Inside(XPos, sampler.x) /\ Inside(YPos, sampler.y)
         /\ sampler.samplePos \in Int /\ sampler.samplePos <= PixelSamples
         /\ Advances <=> sampler.samplePos = PixelSamples
         /\ ~Advances => XPos = sampler.xPos /\ YPos = sampler.yPos
         /\ Advances => \A x \in Int, y \in Int : Inside(x, sampler.x) /\ Inside(y, sampler.y) =>
              /\ (y < YPos \/ (y = YPos /\ x < XPos)) <=>
                   \/ y < sampler.yPos \/ (y = sampler.yPos /\ x < sampler.xPos)
                   \/ y = sampler.yPos /\ x = sampler.xPos
<1> DEFINE a == sampler.x[1]
           b == sampler.x[2]
           c == sampler.y[1]
           d == sampler.y[2]
<1>1. /\ task = "sample" /\ ~WalkEnds /\ task' = task
      /\ sampler' = [sampler EXCEPT !.xPos = XPos, !.yPos = YPos,
                                    !.samplePos = IF Advances THEN 1 ELSE @ + 1]
  BY DEF NextSample
<1>2. Walking /\ WalkTyped /\ Width >= 1
  BY <1>1 DEF WalkInv
<1>3. /\ sampler'.x = sampler.x /\ sampler'.y = sampler.y
      /\ sampler'.xPos = XPos /\ sampler'.yPos = YPos
      /\ sampler'.samplePos = IF Advances THEN 1 ELSE sampler.samplePos + 1
  <2>1. sampler = [x |-> sampler.x, y |-> sampler.y, xPos |-> sampler.xPos, yPos |-> sampler.yPos,
                   samplePos |-> sampler.samplePos]
    BY <1>2 DEF WalkTyped
  <2> QED
    BY <1>1, <2>1
<1>4. /\ a \in Int /\ b \in Int /\ c \in Int /\ d \in Int
      /\ sampler.xPos \in Int /\ sampler.yPos \in Int /\ sampler.samplePos \in Int
      /\ a + 1 <= b /\ a - 1 <= sampler.xPos /\ sampler.xPos < b
      /\ c <= sampler.yPos /\ sampler.yPos < d
      /\ sampler.samplePos <= PixelSamples
      /\ sampler.xPos < a => sampler.samplePos = PixelSamples
  BY <1>2 DEF WalkTyped, Walking, Width
<1>5. Advances <=> sampler.samplePos = PixelSamples
  BY Zenon DEF Advances
<1> HIDE DEF a, b, c, d
<1>6. \A x, y : /\ Inside(x, sampler.x) <=> a <= x /\ x < b
                /\ Inside(y, sampler.y) <=> c <= y /\ y < d
  BY Zenon DEF Inside, a, b, c, d
<1>7. CASE EndOfRow
  <2>1. XPos = a /\ YPos = sampler.yPos + 1 /\ YPos # d /\ Advances /\ sampler.xPos + 1 = b
    BY <1>1, <1>7 DEF XPos, YPos, EndOfRow, WalkEnds, a, b, d
  <2>2. a <= XPos /\ XPos < b /\ c <= YPos /\ YPos < d /\ XPos \in Int /\ YPos \in Int
    BY <1>4, <2>1
  <2>3. ASSUME NEW x \in Int, NEW y \in Int, a <= x, x < b, c <= y, y < d
        PROVE  (y < YPos \/ (y = YPos /\ x < XPos)) <=>
                 \/ y < sampler.yPos \/ (y = sampler.yPos /\ x < sampler.xPos)
                 \/ y = sampler.yPos /\ x = sampler.xPos
    BY <1>4, <2>1, <2>3
  <2> QED
    BY <1>1, <1>3, <1>4, <1>5, <1>6, <2>1, <2>2, <2>3
<1>8. CASE ~EndOfRow
  <2>1. /\ XPos = (IF Advances THEN sampler.xPos + 1 ELSE sampler.xPos) /\ YPos = sampler.yPos
        /\ Advances => sampler.xPos + 1 # b
    BY <1>8 DEF XPos, YPos, EndOfRow, b
  <2>2. a <= XPos /\ XPos < b /\ c <= YPos /\ YPos < d /\ XPos \in Int /\ YPos \in Int
    BY <1>4, <1>5, <2>1
  <2>3. ASSUME NEW x \in Int, NEW y \in Int, a <= x, x < b, c <= y, y < d, Advances
        PROVE  (y < YPos \/ (y = YPos /\ x < XPos)) <=>
                 \/ y < sampler.yPos \/ (y = sampler.yPos /\ x < sampler.xPos)
                 \/ y = sampler.yPos /\ x = sampler.xPos
    BY <1>4, <2>1, <2>3
  <2> QED
    BY <1>1, <1>3, <1>4, <1>5, <1>6, <2>1, <2>2, <2>3
<1> QED
  BY <1>7, <1>8

\* The server's film gets the sample at the pixel where the walk stands.
LEMMA SampleIsCounted ==
  ASSUME ScanTyped, ScanWhole, WalksLast, WalkInv, NextSample, pixels \in [Places -> Nat]
  PROVE  /\ <<XPos, YPos>> \in Places
         /\ pixels' = [pixels EXCEPT ![<<XPos, YPos>>] = @ + 1]
<1>1. XPos \in Int /\ YPos \in Int /\ Inside(XPos, sampler.x) /\ Inside(YPos, sampler.y) /\ task = "sample"
  BY WalkMoves
<1>2. <<XPos, YPos>> \in Places
  BY <1>1, WalkInPlaces
<1>3. PICK u \in 0 .. 3, v \in 0 .. 3 : AddSample(4 * XPos + u, 4 * YPos + v)
  BY DEF NextSample
<1>4. (4 * XPos + u) \div 4 = XPos /\ (4 * YPos + v) \div 4 = YPos
  BY <1>1
<1>5. pixels' = [pixels EXCEPT ![<<(4 * XPos + u) \div 4, (4 * YPos + v) \div 4>>] = @ + 1]
  BY <1>3, Zenon DEF AddSample
<1> QED
  BY <1>2, <1>4, <1>5, Zenon

\* One more sample, of one of the places.
LEMMA SampleCounted ==
  ASSUME ScanTyped, ScanWhole, LastShape, WalkInv, WalksLast, AllCounted, NextSample
  PROVE  AllCounted'
<1> DEFINE here == <<XPos, YPos>>
           P == PixelSamples
<1>1. P \in Nat \ {0}
  BY CropAssumption
<1>2. /\ UNCHANGED <<xCuts, yCuts, last>> /\ Places' = Places /\ XOne' = XOne /\ YOne' = YOne
  BY DEF NextSample, serverVars, Places, XCount, YCount, XOne, YOne
<1>3. /\ task = "sample" /\ task' = "sample" /\ sampler'.x = sampler.x /\ sampler'.y = sampler.y
      /\ sampler'.xPos = XPos /\ sampler'.yPos = YPos
      /\ sampler'.samplePos = IF Advances THEN 1 ELSE sampler.samplePos + 1
      /\ XPos \in Int /\ YPos \in Int /\ Inside(XPos, sampler.x) /\ Inside(YPos, sampler.y)
      /\ sampler.samplePos \in Int /\ sampler.samplePos <= P
      /\ Advances <=> sampler.samplePos = P
      /\ ~Advances => XPos = sampler.xPos /\ YPos = sampler.yPos
      /\ Advances => \A x \in Int, y \in Int : Inside(x, sampler.x) /\ Inside(y, sampler.y) =>
           /\ (y < YPos \/ (y = YPos /\ x < XPos)) <=>
                \/ y < sampler.yPos \/ (y = sampler.yPos /\ x < sampler.xPos)
                \/ y = sampler.yPos /\ x = sampler.xPos
  BY WalkMoves
<1>4. pixels \in [Places -> Nat]
  BY DEF AllCounted
<1>5. here \in Places /\ pixels' = [pixels EXCEPT ![here] = @ + 1]
  BY <1>4, SampleIsCounted
<1> HIDE DEF here
<1>6. pixels' \in [Places -> Nat]
  <2>1. pixels[here] + 1 \in Nat
    BY <1>4, <1>5
  <2> QED
    BY <1>4, <1>5, <2>1
<1>7. ASSUME NEW q \in Places PROVE Counted(q)'
  <2>1. q = <<q[1], q[2]>> /\ q[1] \in Int /\ q[2] \in Int
    BY PlaceType
  <2>2. q = here <=> q[1] = XPos /\ q[2] = YPos
    BY <2>1 DEF here
  <2>3. pixels[q] \in Nat /\ pixels'[q] = IF q = here THEN pixels[q] + 1 ELSE pixels[q]
    BY <1>4, <1>5
  <2>4. InWalk(q)' <=> InWalk(q)
    BY <1>3, Zenon DEF InWalk, Inside
  <2>5. Sampled(q)' <=> Sampled(q)
    <3>1. \A i, j : (InWindow(q, i, j)' <=> InWindow(q, i, j)) /\ (Finished(i, j)' <=> Finished(i, j))
      BY <1>2, <1>3 DEF InWindow, Finished, NoWindow
    <3> QED
      BY <1>2, <3>1, Zenon DEF Sampled
  <2>6. Far(q)' <=> Far(q)
    BY <1>2 DEF Far
  <2>7. Standing(q)' <=> q = here
    <3>1. q = here => InWalk(q)
      BY <1>3, <2>2, Zenon DEF InWalk
    <3> QED
      BY <1>3, <2>2, <2>4, <3>1, Zenon DEF Standing
  <2>8. Passed(q)' <=> IF Advances THEN Passed(q) \/ Standing(q) ELSE Passed(q)
    <3>1. Passed(q)' <=> InWalk(q) /\ (q[2] < YPos \/ (q[2] = YPos /\ q[1] < XPos))
      BY <1>3, <2>4, Zenon DEF Passed
    <3>2. CASE Advances
      <4>1. InWalk(q) => Inside(q[1], sampler.x) /\ Inside(q[2], sampler.y)
        BY Zenon DEF InWalk
      <4>2. InWalk(q) => ((q[2] < YPos \/ (q[2] = YPos /\ q[1] < XPos)) <=>
                \/ q[2] < sampler.yPos \/ (q[2] = sampler.yPos /\ q[1] < sampler.xPos)
                \/ q[2] = sampler.yPos /\ q[1] = sampler.xPos)
        BY <1>3, <2>1, <3>2, <4>1, Zenon
      <4> QED
        BY <3>1, <3>2, <4>2, Zenon DEF Passed, Standing
    <3>3. CASE ~Advances
      BY <1>3, <3>1, <3>3, Zenon DEF Passed
    <3> QED
      BY <3>2, <3>3
  <2>9. q = here => ~Passed(q)'
    <3>1. q = here => ~(q[2] < YPos \/ (q[2] = YPos /\ q[1] < XPos))
      BY <1>3, <2>2
    <3> QED
      BY <1>3, <3>1, Zenon DEF Passed
  <2>10. ~Advances => (Standing(q) <=> q = here)
    <3>1. q = here => InWalk(q)
      BY <1>3, <2>2, Zenon DEF InWalk
    <3> QED
      BY <1>3, <2>2, <3>1, Zenon DEF Standing
  <2>11. q = here /\ Far(q) => ~Sampled(q)
    <3>1. q = here => InWalk(q)
      BY <1>3, <2>2, Zenon DEF InWalk
    <3> QED
      BY <3>1, FarNotSampled
  <2>12. /\ Sampled(q) \/ Passed(q) => pixels[q] >= P
         /\ Standing(q) => pixels[q] >= sampler.samplePos
         /\ Far(q) => pixels[q] <= IF Sampled(q) \/ Passed(q) THEN P
                                   ELSE IF Standing(q) THEN sampler.samplePos ELSE 0
    BY Zenon DEF AllCounted, Counted
  <2>13. Standing(q) => ~Passed(q)
    <3>1. Standing(q) => ~(q[2] < sampler.yPos \/ (q[2] = sampler.yPos /\ q[1] < sampler.xPos))
      BY <2>1 DEF Standing
    <3> QED
      BY <3>1, Zenon DEF Passed
  <2> DEFINE S == Sampled(q)
             V == Passed(q)
             T == Standing(q)
             F == Far(q)
             n == sampler.samplePos
             m == sampler'.samplePos
             k == pixels'[q]
  <2>14. /\ S \/ Passed(q)' => k >= P
         /\ q = here => k >= m
         /\ F => k <= IF S \/ Passed(q)' THEN P ELSE IF q = here THEN m ELSE 0
    <3>1. CASE Advances
      <4>1. m = 1 /\ n = P
        BY <1>3, <3>1
      <4>2. Passed(q)' <=> V \/ T
        BY <2>8, <3>1, Zenon
      <4>3. q = here => ~V /\ ~T
        BY <2>9, <4>2, Zenon
      <4> HIDE DEF S, V, T, F, n, m, k
      <4>4. S \/ V \/ T => pixels[q] >= P
        BY <2>12, <4>1 DEF S, V, T, n
      <4>5. F => pixels[q] <= IF S \/ V \/ T THEN P ELSE 0
        BY <2>12, <4>1 DEF S, V, T, F, n
      <4>6. q = here /\ F => ~S
        BY <2>11 DEF F, S
      <4>7. k = IF q = here THEN pixels[q] + 1 ELSE pixels[q]
        BY <2>3 DEF k
      <4> QED
        BY <1>1, <2>3, <4>1, <4>2, <4>3, <4>4, <4>5, <4>6, <4>7
    <3>2. CASE ~Advances
      <4>1. m = n + 1 /\ n # P /\ n \in Int /\ n <= P
        BY <1>3, <3>2
      <4>2. (Passed(q)' <=> V) /\ (T <=> q = here)
        BY <2>8, <2>10, <3>2, Zenon
      <4>3. q = here => ~V
        BY <2>9, <4>2, Zenon
      <4> HIDE DEF S, V, T, F, n, m, k
      <4>4. /\ S \/ V => pixels[q] >= P
            /\ T => pixels[q] >= n
            /\ F => pixels[q] <= IF S \/ V THEN P ELSE IF T THEN n ELSE 0
        BY <2>12 DEF S, V, T, F, n
      <4>5. q = here /\ F => ~S
        BY <2>11 DEF F, S
      <4>6. k = IF q = here THEN pixels[q] + 1 ELSE pixels[q]
        BY <2>3 DEF k
      <4> QED
        BY <1>1, <2>3, <4>1, <4>2, <4>3, <4>4, <4>5, <4>6
    <3> QED
      BY <3>1, <3>2
  <2> QED
    BY <2>5, <2>6, <2>7, <2>14, Zenon DEF Counted
<1> QED
  BY <1>2, <1>6, <1>7, Zenon DEF AllCounted

\* The walk ends where it has passed, or stands at, every place of the window, the last one
\* with all its samples.
LEMMA WalkEndIs ==
  ASSUME WalkInv, task = "sample", WalkEnds, NEW q \in Places, InWalk(q)
  PROVE  /\ Passed(q) \/ Standing(q)
         /\ sampler.samplePos = PixelSamples
<1>1. Walking /\ WalkTyped
  BY DEF WalkInv
<1>2. q[1] \in Int /\ q[2] \in Int
  BY PlaceType
<1>3. EndOfRow /\ sampler.yPos + 1 = sampler.y[2]
  BY <1>1 DEF WalkEnds, YPos, Walking, WalkTyped
<1>4. sampler.samplePos = PixelSamples /\ sampler.xPos + 1 = sampler.x[2]
  BY <1>3 DEF EndOfRow, Advances
<1>5. sampler.xPos \in Int /\ sampler.yPos \in Int /\ q[1] < sampler.x[2] /\ q[2] < sampler.y[2]
  BY <1>1 DEF WalkTyped, InWalk, Inside
<1>6. \/ q[2] < sampler.yPos \/ (q[2] = sampler.yPos /\ q[1] < sampler.xPos)
      \/ q[2] = sampler.yPos /\ q[1] = sampler.xPos
  BY <1>2, <1>3, <1>4, <1>5
<1> QED
  BY <1>4, <1>6 DEF Passed, Standing

\* When the walk has ended the last window is finished too.
LEMMA WindowCounted ==
  ASSUME ScanTyped, LastShape, WalkInv, WalksLast, AllCounted, WindowDone
  PROVE  AllCounted'
<1>1. /\ UNCHANGED <<xCuts, yCuts, last, pixels>> /\ XOne' = XOne /\ YOne' = YOne /\ Places' = Places
      /\ task = "sample" /\ WalkEnds /\ task' = "request"
  BY DEF WindowDone, serverVars, XOne, YOne, Places, XCount, YCount
<1>2. pixels \in [Places -> Nat]
  BY DEF AllCounted
<1>3. ASSUME NEW q \in Places PROVE Counted(q)'
  <2>1. ~Passed(q)' /\ ~Standing(q)'
    BY <1>1 DEF Passed, Standing, InWalk
  <2>2. Far(q)' <=> Far(q)
    BY <1>1 DEF Far
  <2>3. \A i, j : InWindow(q, i, j)' <=> InWindow(q, i, j)
    BY <1>1 DEF InWindow
  <2>4. \A i, j : Finished(i, j)' <=> Finished(i, j) \/ (last # NoWindow /\ i = last.xmin /\ j = last.ymin)
    BY <1>1 DEF Finished, NoWindow
  <2>5. WholeWindow(last) =>
          /\ last # NoWindow /\ last.xmin \in 1 .. XOne - 1 /\ last.ymin \in 1 .. YOne - 1
          /\ InWalk(q) <=> InWindow(q, last.xmin, last.ymin)
    <3>1. WholeWindow(last) => last # NoWindow
      BY ScanOverIs
    <3>2. WholeWindow(last) => last.xmax = last.xmin + 1 /\ last.ymax = last.ymin + 1
      BY DEF WholeWindow
    <3>3. WholeWindow(last) => (InWalk(q) <=> InWindow(q, last.xmin, last.ymin))
      BY <1>1, <3>2, Zenon DEF InWalk, InWindow, WalksLast
    <3> QED
      BY <3>1, <3>3, Zenon DEF WholeWindow
  <2>6. Corner(last) => last.xmin \notin 1 .. XOne - 1
    <3>1. XOne \in Nat
      BY DEF ScanTyped, Ascending, XOne
    <3> QED
      BY <3>1 DEF Corner
  <2>7. WholeWindow(last) \/ Corner(last)
    BY <1>1 DEF LastShape
  <2>8. Sampled(q)' <=> Sampled(q) \/ (WholeWindow(last) /\ InWalk(q))
    <3>1. Sampled(q)' <=> \E i \in 1 .. XOne - 1, j \in 1 .. YOne - 1 :
                            Finished(i, j)' /\ InWindow(q, i, j)'
      BY <1>1, Zenon DEF Sampled
    <3>2. Sampled(q)' => Sampled(q) \/ (WholeWindow(last) /\ InWalk(q))
      BY <2>3, <2>4, <2>5, <2>6, <2>7, <3>1, Zenon DEF Sampled
    <3>3. Sampled(q) => Sampled(q)'
      BY <2>3, <2>4, <3>1, Zenon DEF Sampled
    <3>4. WholeWindow(last) /\ InWalk(q) => Sampled(q)'
      BY <2>3, <2>4, <2>5, <3>1, Zenon
    <3> QED
      BY <3>2, <3>3, <3>4, Zenon
  <2>9. InWalk(q) => (Passed(q) \/ Standing(q)) /\ sampler.samplePos = PixelSamples
    BY <1>1, WalkEndIs
  <2>10. Far(q) /\ InWalk(q) => WholeWindow(last) /\ ~Sampled(q)
    BY FarNotSampled
  <2>11. Passed(q) \/ Standing(q) => InWalk(q)
    BY Zenon DEF Passed, Standing
  <2>12. /\ Sampled(q) \/ Passed(q) => pixels[q] >= PixelSamples
         /\ Standing(q) => pixels[q] >= sampler.samplePos
         /\ Far(q) => pixels[q] <= IF Sampled(q) \/ Passed(q) THEN PixelSamples
                                   ELSE IF Standing(q) THEN sampler.samplePos ELSE 0
    BY Zenon DEF AllCounted, Counted
  <2>13. Sampled(q)' => pixels[q] >= PixelSamples
    BY <2>8, <2>9, <2>12, Zenon
  <2>14. Far(q) => pixels[q] <= IF Sampled(q)' THEN PixelSamples ELSE 0
    BY <2>8, <2>9, <2>10, <2>11, <2>12, Zenon
  <2> QED
    BY <1>1, <2>1, <2>2, <2>13, <2>14, Zenon DEF Counted
<1> QED
  BY <1>1, <1>2, <1>3, Zenon DEF AllCounted

\* A walk begins before the first place of its window.
LEMMA WalkBeginsLast ==
  ASSUME ScanTyped, LastShape, WalkInv, AllCounted, RenderCropWindow
  PROVE  WalksLast' /\ AllCounted' /\ LastShape' /\ EndedAtEnd'
<1>1. /\ UNCHANGED <<xCuts, yCuts, last, pixels>> /\ XOne' = XOne /\ YOne' = YOne
      /\ task = "render_crop" /\ task' = "sample"
  BY DEF RenderCropWindow, serverVars, imageVars, XOne, YOne
<1>2. sampler' = LDSampler(Extent(last.xmin, last.xmax, xCuts, XWidth),
                           Extent(last.ymin, last.ymax, yCuts, YWidth))
  BY Zenon DEF RenderCropWindow, ResetWalk, Extent
<1> DEFINE ex == Extent(last.xmin, last.xmax, xCuts, XWidth)
           ey == Extent(last.ymin, last.ymax, yCuts, YWidth)
<1>3. ex[1] \in Int /\ ey[1] \in Int
  <2>1. XWidth \in Nat \ {0, 1, 2} /\ YWidth \in Nat \ {0, 1, 2}
    BY CropAssumption
  <2>2. /\ Side(last.xmin, last.xmax, Len(xCuts)) /\ Ascending(xCuts)
        /\ Side(last.ymin, last.ymax, Len(yCuts)) /\ Ascending(yCuts)
    BY DEF ScanTyped, XOne, YOne
  <2> DEFINE a == Ceil32(xCuts[last.xmin])
             b == Ceil32(xCuts[last.xmax])
             c == Ceil32(yCuts[last.ymin])
             d == Ceil32(yCuts[last.ymax])
  <2>3. a \in Int /\ ex = <<RoundEven(4 * a - XWidth), RoundEven(4 * b + XWidth)>>
    BY <2>1, <2>2, ExtentIs
  <2>4. c \in Int /\ ey = <<RoundEven(4 * c - YWidth), RoundEven(4 * d + YWidth)>>
    BY <2>1, <2>2, ExtentIs
  <2> HIDE DEF a, b, c, d, ex, ey
  <2>5. RoundEven(4 * a - XWidth) \in Int
    BY <2>1, <2>3, EdgeWithinMargin
  <2>6. RoundEven(4 * c - YWidth) \in Int
    BY <2>1, <2>4, EdgeWithinMargin
  <2> QED
    BY <2>3, <2>4, <2>5, <2>6
<1>4. /\ sampler'.x = ex /\ sampler'.y = ey /\ sampler'.xPos = ex[1] - 1 /\ sampler'.yPos = ey[1]
  <2> HIDE DEF ex, ey
  <2>1. sampler' = LDSampler(ex, ey)
    BY <1>2, Zenon DEF ex, ey
  <2> QED
    BY <2>1 DEF LDSampler
<1>5. WalksLast'
  BY <1>1, <1>4, Zenon DEF WalksLast, Extent
<1>6. ASSUME NEW q \in Places PROVE ~Passed(q)' /\ ~Standing(q)'
  <2> HIDE DEF ex, ey
  <2>1. q[1] \in Int /\ q[2] \in Int
    BY PlaceType
  <2>2. InWalk(q)' => ex[1] <= q[1] /\ ey[1] <= q[2]
    BY <1>4, Zenon DEF InWalk, Inside
  <2>3. InWalk(q)' => /\ ~(q[2] < sampler'.yPos \/ (q[2] = sampler'.yPos /\ q[1] < sampler'.xPos))
                      /\ ~(q[1] = sampler'.xPos /\ q[2] = sampler'.yPos)
    BY <1>3, <1>4, <2>1, <2>2
  <2> QED
    BY <2>3, Zenon DEF Passed, Standing
<1>7. \A i \in 1 .. XOne - 1, j \in 1 .. YOne - 1 : Finished(i, j)' <=> Finished(i, j)
  BY <1>1 DEF Finished, NoWindow
<1>8. AllCounted'
  BY <1>1, <1>6, <1>7, CountedSame
<1>9. LastShape' /\ EndedAtEnd'
  BY <1>1 DEF LastShape, EndedAtEnd, WholeWindow, Corner, NoWindow
<1> QED
  BY <1>5, <1>8, <1>9

\* A window is handed out.
LEMMA WindowHandedOut ==
  ASSUME ScanTyped, LastShape, AllCounted, GetNextCropWindow \/ GetEmptyWindow
  PROVE  WalksLast' /\ AllCounted' /\ LastShape' /\ EndedAtEnd'
<1>1. /\ UNCHANGED <<xCuts, yCuts, pixels>> /\ task = "request" /\ task' = "render_crop"
      /\ XOne' = XOne /\ YOne' = YOne
      /\ \/ last = NoWindow /\ last' = [xmin |-> 1, xmax |-> 2, ymin |-> 1, ymax |-> 2]
         \/ last # NoWindow /\ last' = NextWindow(last)
  BY DEF GetNextCropWindow, GetEmptyWindow, imageVars, XOne, YOne, ScanOver
<1>2. \A q \in Places : ~Passed(q)' /\ ~Standing(q)'
  BY <1>1 DEF Passed, Standing, InWalk
<1>3. ASSUME \A i \in 1 .. XOne - 1, j \in 1 .. YOne - 1 : Finished(i, j)' <=> Finished(i, j)
      PROVE  WalksLast' /\ AllCounted' /\ EndedAtEnd'
  BY <1>1, <1>2, <1>3, CountedSame DEF WalksLast, EndedAtEnd
<1>4. CASE last = NoWindow
  <2>1. last' = [xmin |-> 1, xmax |-> 2, ymin |-> 1, ymax |-> 2]
    BY <1>1, <1>4
  <2>2. XOne \in Nat /\ XOne >= 2 /\ YOne \in Nat /\ YOne >= 2
    BY DEF ScanTyped, Ascending, XOne, YOne
  <2>3. LastShape'
    BY <1>1, <2>1, <2>2 DEF LastShape, WholeWindow
  <2>4. \A i \in 1 .. XOne - 1, j \in 1 .. YOne - 1 : ~Finished(i, j)' /\ ~Finished(i, j)
    BY <1>1, <1>4, <2>1 DEF Finished
  <2> QED
    BY <1>3, <2>3, <2>4
<1>5. CASE last # NoWindow
  <2>1. WholeWindow(last) \/ Corner(last)
    BY <1>5 DEF LastShape
  <2>2. last' = NextWindow(last)
    BY <1>1, <1>5
  <2>3. /\ LastShape'
        /\ \A i \in 1 .. XOne - 1, j \in 1 .. YOne - 1 : Finished(i, j)' <=> Finished(i, j)
    BY <1>1, <2>1, <2>2, NextWindowFollows
  <2> QED
    BY <1>3, <2>3
<1> QED
  BY <1>4, <1>5

\* Nothing is sampled at first.
LEMMA CoverInit ==
  ASSUME Init
  PROVE  CoverInv
<1>1. ScanTyped /\ WalkInv
  BY ScanInit, WalkInit
<1>2. ScanWhole
  <2>1. XRes \in Nat \ {0} /\ YRes \in Nat \ {0} /\ xCuts \in Cuts(XRes) /\ yCuts \in Cuts(YRes)
    BY CropAssumption DEF Init
  <2>2. Whole(xCuts, XRes) /\ Whole(yCuts, YRes)
    BY <2>1, CutsWhole
  <2> QED
    BY <2>2 DEF ScanWhole
<1>3. task = "request" /\ last = NoWindow /\ pixels = [p \in Places |-> 0]
  BY DEF Init
<1>4. LastShape /\ WalksLast /\ EndedAtEnd
  BY <1>3 DEF LastShape, WalksLast, EndedAtEnd
<1>5. AllCounted
  <2>1. \A q \in Places : ~Sampled(q) /\ ~Passed(q) /\ ~Standing(q) /\ pixels[q] = 0
    BY <1>3 DEF Sampled, Finished, Passed, Standing, InWalk
  <2>2. \A q \in Places : Counted(q)
    BY <2>1 DEF Counted
  <2> QED
    BY <1>3, <2>2 DEF AllCounted
<1> QED
  BY <1>1, <1>2, <1>4, <1>5 DEF CoverInv

\* Every step keeps the counts.
LEMMA CoverNext ==
  ASSUME CoverInv, [Next]_vars
  PROVE  CoverInv'
<1>1. /\ ScanTyped /\ ScanWhole /\ LastShape /\ WalkInv /\ WalksLast /\ AllCounted /\ EndedAtEnd
  BY DEF CoverInv
<1>2. ScanTyped' /\ WalkInv'
  BY <1>1, ScanStep, WalkNext
<1>3. UNCHANGED <<xCuts, yCuts>>
  BY DEF Next, vars, serverVars, GetNextCropWindow, GetEmptyWindow, EndFrame, RenderCropWindow,
         NextSample, WindowDone
<1>4. ScanWhole'
  BY <1>1, <1>3 DEF ScanWhole
<1>5. ASSUME WalksLast', AllCounted', LastShape', EndedAtEnd' PROVE CoverInv'
  BY <1>2, <1>4, <1>5 DEF CoverInv
<1>6. CASE GetNextCropWindow \/ GetEmptyWindow
  BY <1>1, <1>5, <1>6, WindowHandedOut
<1>7. CASE RenderCropWindow
  BY <1>1, <1>5, <1>7, WalkBeginsLast
<1>8. CASE NextSample
  <2>1. /\ task = "sample" /\ task' = "sample" /\ UNCHANGED last
        /\ sampler'.x = sampler.x /\ sampler'.y = sampler.y
    BY <1>1, <1>8, WalkMoves DEF NextSample, serverVars
  <2>2. LastShape' /\ EndedAtEnd'
    BY <1>1, <1>3, <2>1 DEF LastShape, EndedAtEnd, WholeWindow, Corner, NoWindow, XOne, YOne
  <2>3. WalksLast'
    BY <1>1, <1>3, <2>1, Zenon DEF WalksLast, Extent
  <2>4. AllCounted'
    BY <1>1, <1>8, SampleCounted
  <2> QED
    BY <1>5, <2>2, <2>3, <2>4
<1>9. CASE WindowDone
  <2>1. task = "sample" /\ task' = "request" /\ UNCHANGED last
    BY <1>9 DEF WindowDone, serverVars
  <2>2. LastShape' /\ EndedAtEnd' /\ WalksLast'
    BY <1>1, <1>3, <2>1 DEF LastShape, EndedAtEnd, WalksLast, WholeWindow, Corner, NoWindow, XOne, YOne
  <2>3. AllCounted'
    BY <1>1, <1>9, WindowCounted
  <2> QED
    BY <1>5, <2>2, <2>3
<1>10. CASE EndFrame
  <2>1. /\ task = "request" /\ task' = "end_frame" /\ ScanOver /\ onDisk' = pixels
        /\ UNCHANGED <<last, pixels>>
    BY <1>10 DEF EndFrame, serverVars
  <2>2. ScanOver'
    BY <1>3, <2>1 DEF ScanOver, NextWindow, IsEmpty, NoWindow, XOne, YOne
  <2>3. last # NoWindow
    BY <2>1 DEF ScanOver
  <2>4. LastShape' /\ EndedAtEnd' /\ WalksLast'
    BY <1>1, <1>3, <2>1, <2>2, <2>3 DEF LastShape, EndedAtEnd, WalksLast, WholeWindow, Corner, XOne, YOne
  <2>5. \A i \in 1 .. XOne - 1, j \in 1 .. YOne - 1 : Finished(i, j)' <=> Finished(i, j)
    BY <2>1 DEF Finished, NoWindow
  <2>6. \A q \in Places : ~Passed(q)' /\ ~Standing(q)'
    BY <2>1 DEF Passed, Standing, InWalk
  <2>7. AllCounted'
    BY <1>1, <1>3, <2>1, <2>5, <2>6, CountedSame
  <2> QED
    BY <1>5, <2>4, <2>7
<1>11. CASE UNCHANGED vars
  <2>1. UNCHANGED <<xCuts, yCuts, last, task, sampler, pixels, onDisk>>
    BY <1>11 DEF vars, serverVars, clientVars, imageVars
  <2>2. LastShape' /\ EndedAtEnd' /\ WalksLast'
    BY <1>1, <2>1 DEF LastShape, EndedAtEnd, WalksLast, WholeWindow, Corner, NoWindow, XOne, YOne,
                      Extent, ScanOver, NextWindow, IsEmpty
  <2>3. ASSUME NEW q PROVE Counted(q)' <=> Counted(q)
    BY <2>1 DEF Counted, Sampled, Passed, Standing, Far, InWalk, InWindow, Finished, NoWindow, XOne, YOne
  <2>4. Places' = Places
    BY DEF Places, XCount, YCount
  <2>5. AllCounted'
    BY <1>1, <2>1, <2>3, <2>4, Zenon DEF AllCounted
  <2> QED
    BY <1>5, <2>2, <2>5
<1> QED
  BY <1>6, <1>7, <1>8, <1>9, <1>10, <1>11 DEF Next

\* At the end of the frame all windows are finished, and what they cover is what is needed.
LEMMA CoverInvImplies ==
  ASSUME CoverInv
  PROVE  FrameComplete
<1> SUFFICES ASSUME task = "end_frame" PROVE FrameComplete
  BY DEF FrameComplete
<1>1. /\ ScanTyped /\ ScanWhole /\ LastShape /\ AllCounted /\ onDisk = pixels /\ ScanOver
  BY DEF CoverInv, EndedAtEnd
<1>0. XOne \in Nat /\ YOne \in Nat
  <2>1. ScanTyped
    BY <1>1
  <2> QED
    BY <2>1 DEF ScanTyped, Ascending, XOne, YOne
<1>2. ASSUME NEW i \in 1 .. XOne - 1, NEW j \in 1 .. YOne - 1 PROVE Finished(i, j)
  <2>1. XOne \in Nat /\ YOne \in Nat
    BY <1>0
  <2>2. (WholeWindow(last) \/ Corner(last)) /\ last.xmax = XOne /\ last.ymax = YOne /\ last # NoWindow
    BY <1>1, ScanOverIs
  <2> QED
    BY <2>1, <2>2 DEF Finished, WholeWindow, Corner
<1>3. ASSUME NEW p \in Image, NEW q \in Reach(p[1], XWidth) \X Reach(p[2], YWidth)
      PROVE  q \in Places /\ Sampled(q)
  <2>1. XRes \in Nat \ {0} /\ YRes \in Nat \ {0} /\ XWidth \in Nat \ {0, 1, 2} /\ YWidth \in Nat \ {0, 1, 2}
    BY CropAssumption
  <2>2. Whole(xCuts, XRes) /\ Whole(yCuts, YRes)
    BY <1>1 DEF ScanWhole
  <2>3. p[1] \in 0 .. Ceil32(4 * XRes) - 1 /\ p[2] \in 0 .. Ceil32(4 * YRes) - 1
    BY Zenon DEF Image, XCount, YCount
  <2>4. q[1] \in Reach(p[1], XWidth) /\ q[2] \in Reach(p[2], YWidth) /\ q = <<q[1], q[2]>>
    OBVIOUS
  <2> DEFINE x == q[1]
             y == q[2]
  <2>5. x \in Int /\ y \in Int
    BY <2>4 DEF Reach
  <2> HIDE DEF x, y
  <2>6. PICK i \in 1 .. Len(xCuts) - 1 : Inside(x, Extent(i, i + 1, xCuts, XWidth))
    <3>1. x \in Reach(p[1], XWidth)
      BY <2>4 DEF x
    <3> QED
      BY <2>1, <2>2, <2>3, <3>1, ReachCovered
  <2>7. PICK j \in 1 .. Len(yCuts) - 1 : Inside(y, Extent(j, j + 1, yCuts, YWidth))
    <3>1. y \in Reach(p[2], YWidth)
      BY <2>4 DEF y
    <3> QED
      BY <2>1, <2>2, <2>3, <3>1, ReachCovered
  <2>8. i \in 1 .. XOne - 1 /\ j \in 1 .. YOne - 1
    BY <2>6, <2>7 DEF XOne, YOne
  <2>9. Sampled(q)
    BY <1>2, <2>6, <2>7, <2>8, Zenon DEF Sampled, InWindow, x, y
  <2>10. Len(xCuts) \in Nat /\ Len(yCuts) \in Nat
    BY <2>2 DEF Whole, Ascending
  <2>11. Side(i, i + 1, Len(xCuts)) /\ Side(j, j + 1, Len(yCuts))
    BY <2>6, <2>7, <2>10 DEF Side
  <2>12. x \in -Margin(XWidth) .. Ceil32(4 * XRes) - 1 + Margin(XWidth)
    BY <2>1, <2>2, <2>5, <2>6, <2>11, ExtentInMargin
  <2>13. y \in -Margin(YWidth) .. Ceil32(4 * YRes) - 1 + Margin(YWidth)
    BY <2>1, <2>2, <2>5, <2>7, <2>11, ExtentInMargin
  <2>14. <<x, y>> \in Places
    BY <2>12, <2>13, Zenon DEF Places, XCount, YCount
  <2> QED
    BY <2>4, <2>9, <2>14 DEF x, y
<1>4. ASSUME NEW q \in Places, Sampled(q)
      PROVE  pixels[q] >= PixelSamples /\ (Far(q) => pixels[q] = PixelSamples)
  <2>1. pixels[q] \in Nat /\ PixelSamples \in Nat
    BY <1>1, CropAssumption DEF AllCounted
  <2>2. pixels[q] >= PixelSamples /\ (Far(q) => pixels[q] <= PixelSamples)
    BY <1>1, <1>4, Zenon DEF AllCounted, Counted
  <2> QED
    BY <2>1, <2>2
<1>5. \A q : Far(q) <=> FarFromCuts(q[1], xCuts, XWidth) /\ FarFromCuts(q[2], yCuts, YWidth)
  BY Zenon DEF Far
<1> QED
  BY <1>1, <1>3, <1>4, <1>5, Zenon DEF FrameComplete

\* The image of a frame that has ended has all samples that its pixels need, and none of them
\* twice but where windows meet: for every size of image, window and filter, and for every
\* rounding of the server's sums of floats.
THEOREM FrameCompleteHolds == Spec => []FrameComplete
<1>1. Init => CoverInv
  BY CoverInit
<1>2. CoverInv /\ [Next]_vars => CoverInv'
  BY CoverNext
<1>3. CoverInv => FrameComplete
  BY CoverInvImplies
<1> QED
  BY <1>1, <1>2, <1>3, PTL DEF Spec
=============================================================================
