--------------------------- MODULE ActivityProofs ---------------------------
(***************************************************************************)
(* Proofs about Activity: what the wrapping arithmetic of is_activity,     *)
(* abs_thresholds and stick_deflected can and cannot report, for a word of *)
(* any width.                                                              *)
(***************************************************************************)
EXTENDS Activity, TLAPS

LEMMA Remainder ==
  ASSUME NEW m \in Nat \ {0}, NEW n \in Int
  PROVE  /\ n % m \in 0 .. m - 1
         /\ n \in 0 .. m - 1 => n % m = n
         /\ n \in m .. 2 * m - 1 => n % m = n - m
         /\ n \in -m .. -1 => n % m = n + m
<1>1. n % m \in 0 .. m - 1
  OBVIOUS
<1>2. ASSUME n \in 0 .. m - 1 PROVE n % m = n
  BY <1>2
<1>3. ASSUME n \in m .. 2 * m - 1 PROVE n % m = n - m
  BY <1>3
<1>4. ASSUME n \in -m .. -1 PROVE n % m = n + m
  BY <1>4
<1>5. QED
  BY <1>1, <1>2, <1>3, <1>4

LEMMA Quotient ==
  ASSUME NEW n \in Nat, NEW m \in Nat \ {0}
  PROVE  n \div m \in 0 .. n
  OBVIOUS

(* The result of an addition or subtraction of two i32 is the exact one,   *)
(* or off by 2^32 where that does not fit.                                 *)
LEMMA Wraps ==
  ASSUME NEW d \in Int
  PROVE  /\ Signed(d) \in I32
         /\ d \in I32 => Signed(d) = d
         /\ d \in Top .. 2 * Top - 1 => Signed(d) = d - 2 * Top
         /\ d \in -2 * Top .. -Top - 1 => Signed(d) = d + 2 * Top
<1> USE ActivityAssumption DEF ActivityAssumption, Signed, I32
<1> DEFINE m == 2 * Top
           n == d + Top
<1>1. m \in Nat \ {0} /\ n \in Int
  OBVIOUS
<1> HIDE DEF m, n
<1>2. /\ n % m \in 0 .. m - 1
      /\ n \in 0 .. m - 1 => n % m = n
      /\ n \in m .. 2 * m - 1 => n % m = n - m
      /\ n \in -m .. -1 => n % m = n + m
  BY <1>1, Remainder
<1>3. Signed(d) = (n % m) - Top
  BY DEF m, n
<1> HIDE DEF Signed
<1>4. QED
  BY <1>2, <1>3 DEF m, n

(* abs never exceeds the true absolute value: at the smallest number it    *)
(* falls short of it.                                                      *)
LEMMA MagnitudeBound ==
  ASSUME NEW n \in I32
  PROVE  /\ Magnitude(n) \in -Top .. Top - 1
         /\ Magnitude(n) <= n \/ Magnitude(n) <= -n
<1> USE ActivityAssumption DEF ActivityAssumption, I32
<1>1. CASE n >= 0
  BY <1>1 DEF Magnitude
<1>2. CASE n < 0 /\ n # -Top
  <2>1. Signed(-n) = -n
    BY <1>2, Wraps
  <2>2. QED
    BY <1>2, <2>1 DEF Magnitude
<1>3. CASE n = -Top
  <2>1. Signed(Top) = -Top
    BY Wraps
  <2>2. -n = Top /\ n < 0
    BY <1>3
  <2>3. Magnitude(n) = -Top
    BY <2>1, <2>2 DEF Magnitude
  <2>4. QED
    BY <1>3, <2>3
<1>4. QED
  BY <1>1, <1>2, <1>3

(* Wrapping never invents a movement: an axis that moved by the threshold  *)
(* as the code computes it did so in truth.                                *)
THEOREM MovedInTruth ==
  ASSUME NEW p \in I32, NEW v \in I32, NEW threshold \in 1 .. Top,
         Moved({p}, v, threshold)
  PROVE  v - p >= threshold \/ p - v >= threshold
<1> USE ActivityAssumption DEF ActivityAssumption, I32
<1>1. v - p \in Int /\ Magnitude(Signed(v - p)) >= threshold
  BY DEF Moved
<1> DEFINE d == v - p
<1>2. d \in -2 * Top .. 2 * Top - 1
  OBVIOUS
<1>3. Magnitude(Signed(d)) >= threshold
  BY <1>1
<1> HIDE DEF d
<1>4. Signed(d) \in -Top .. Top - 1
  BY <1>2, Wraps
<1>5. Signed(d) >= threshold \/ -Signed(d) >= threshold
  <2>1. /\ Magnitude(Signed(d)) \in -Top .. Top - 1
        /\ Magnitude(Signed(d)) <= Signed(d) \/ Magnitude(Signed(d)) <= -Signed(d)
    BY <1>4, MagnitudeBound
  <2>2. QED
    BY <1>3, <1>4, <2>1
<1>6. \/ Signed(d) = d
      \/ d >= Top /\ Signed(d) = d - 2 * Top
      \/ d < -Top /\ Signed(d) = d + 2 * Top
  BY <1>2, Wraps
<1>7. d >= threshold \/ -d >= threshold
  BY <1>2, <1>5, <1>6
<1>8. QED
  BY <1>7 DEF d

LEMMA MaxOfTwo ==
  ASSUME NEW a \in Int, NEW b \in Int
  PROVE  Max({a, b}) \in {a, b} /\ Max({a, b}) >= a /\ Max({a, b}) >= b
<1>1. \E x \in {a, b} : \A y \in {a, b} : x >= y
  OBVIOUS
<1>2. QED
  BY <1>1 DEF Max

LEMMA MaxOfThree ==
  ASSUME NEW a \in Int, NEW b \in Int, NEW c \in Int
  PROVE  /\ Max({a, b, c}) \in {a, b, c}
         /\ Max({a, b, c}) >= a /\ Max({a, b, c}) >= b /\ Max({a, b, c}) >= c
<1>1. \E x \in {a, b, c} : \A y \in {a, b, c} : x >= y
  <2>1. (a >= b /\ a >= c) \/ (b >= a /\ b >= c) \/ (c >= a /\ c >= b)
    OBVIOUS
  <2>2. QED
    BY <2>1
<1>2. QED
  BY <1>1 DEF Max

(* No axinfo, however broken, yields the threshold 0 that would make a     *)
(* resting axis count, or one beyond the range of i32.                     *)
THEOREM ThresholdBounded ==
  ASSUME NEW info, info.min \in I32, info.max \in I32, info.flat \in I32
  PROVE  Threshold(info) \in 1 .. Top
<1> USE ActivityAssumption DEF ActivityAssumption
<1> DEFINE range == Signed(info.max - info.min)
           wide  == Max({range, 0})
           share == wide \div Share
           flat  == Magnitude(info.flat)
<1>1. range \in -Top .. Top - 1
  BY Wraps DEF I32
<1>2. wide \in 0 .. Top - 1
  <2> HIDE DEF range
  <2>1. range \in Int /\ 0 \in Int
    BY <1>1
  <2>2. wide \in {range, 0} /\ wide >= range /\ wide >= 0
    BY <2>1, MaxOfTwo, Zenon
  <2>3. QED
    BY <1>1, <2>2
<1>3. share \in 0 .. Top - 1
  <2> HIDE DEF wide
  <2>1. share \in 0 .. wide
    BY <1>2, Quotient
  <2>2. QED
    BY <1>2, <2>1
<1>4. flat \in -Top .. Top - 1
  BY MagnitudeBound
<1> HIDE DEF share, flat
<1>5. Max({share, flat, 1}) \in 1 .. Top
  <2>1. share \in Int /\ flat \in Int /\ 1 \in Int
    BY <1>3, <1>4
  <2>2. /\ Max({share, flat, 1}) \in {share, flat, 1}
        /\ Max({share, flat, 1}) >= 1
    BY <2>1, MaxOfThree, Zenon
  <2>3. QED
    BY <1>3, <1>4, <2>2
<1>6. QED
  BY <1>5 DEF Threshold, share, flat, wide, range

(* A stick counts exactly when it is beyond its deadzone in truth: an i16  *)
(* has its absolute value in i32.                                          *)
THEOREM DeflectedInTruth ==
  ASSUME NEW r, r.stick \in I16
  PROVE  stick_deflected(r)
           <=> r.stick >= Deadzone + 1 \/ -r.stick >= Deadzone + 1
<1> USE ActivityAssumption DEF ActivityAssumption, I16
<1>1. CASE r.stick >= 0
  BY <1>1 DEF stick_deflected, Magnitude
<1>2. CASE r.stick < 0
  <2>1. Signed(-r.stick) = -r.stick
    BY <1>2, Wraps DEF I32
  <2>2. Magnitude(r.stick) = -r.stick
    BY <1>2, <2>1 DEF Magnitude
  <2>3. QED
    BY <1>2, <2>2 DEF stick_deflected
<1>3. QED
  BY <1>1, <1>2
=============================================================================
