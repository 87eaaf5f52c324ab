--------------------------- MODULE FixedPointLemmas ---------------------------
(***************************************************************************)
(* Facts about the arithmetic of FixedPoint, for every width and scale:    *)
(* divisions, roundings, saturations, the range of the exponential, the    *)
(* integer square root; and the sums over users and accounts that the      *)
(* totals are compared with.                                               *)
(*                                                                         *)
(* The library states induction with an operator parameter, which the      *)
(* provers cannot instantiate; Induction states it for a set.              *)
(***************************************************************************)
EXTENDS FixedPoint, Functions, FiniteSetTheorems, WellFoundedInduction, TLAPS

----------------------------------------------------------------------------
(* Division. *)

\* A quotient of naturals is a natural, and bounds its dividend both ways.
LEMMA DivFloor ==
  ASSUME NEW a \in Nat, NEW b \in Nat \ {0}
  PROVE  /\ a \div b \in Nat
         /\ b * (a \div b) <= a
         /\ a < b * (a \div b) + b
BY SMT

\* Multiplication by a natural preserves the order.
LEMMA MulMonotone ==
  ASSUME NEW a \in Nat, NEW b \in Nat, NEW c \in Nat, a <= b
  PROVE  a * c <= b * c
BY SMT

\* A product of naturals is a natural.
LEMMA MulNat ==
  ASSUME NEW a \in Nat, NEW b \in Nat
  PROVE  a * b \in Nat
BY SMT

\* a product of naturals that is less than another has a lesser factor
LEMMA LessByFactor ==
  ASSUME NEW a \in Nat, NEW b \in Nat, NEW c \in Nat, a * c < b * c
  PROVE  a < b
<1> SUFFICES ASSUME b <= a PROVE FALSE
  OBVIOUS
<1>1. b * c <= a * c
  BY MulMonotone
<1>2. a * c \in Nat /\ b * c \in Nat
  BY MulNat
<1> QED
  BY <1>1, <1>2

\* A quotient is at least q when the dividend is at least q divisors.
LEMMA DivAtLeast ==
  ASSUME NEW a \in Nat, NEW b \in Nat \ {0}, NEW q \in Nat, q * b <= a
  PROVE  a \div b >= q
BY SMT

\* A quotient is at most q when the dividend is less than q + 1 divisors.
LEMMA DivAtMost ==
  ASSUME NEW a \in Nat, NEW b \in Nat \ {0}, NEW q \in Nat, a < q * b + b
  PROVE  a \div b <= q
BY SMT

\* A greater divisor leaves no greater quotient.
LEMMA DivAntitone ==
  ASSUME NEW a \in Nat, NEW p \in Nat \ {0}, NEW q \in Nat \ {0}, p <= q
  PROVE  a \div q <= a \div p
<1> DEFINE r == a \div q
<1>1. r \in Nat /\ q * r <= a
  BY DivFloor
<1> HIDE DEF r
<1>2. r * p <= a
  <2>1. p * r <= q * r
    BY <1>1, MulMonotone
  <2> QED
    BY <1>1, <2>1
<1> QED
  BY <1>1, <1>2, DivAtLeast DEF r

\* A greater dividend leaves no smaller quotient.
LEMMA DivMonotone ==
  ASSUME NEW a \in Nat, NEW b \in Nat, NEW q \in Nat \ {0}, a <= b
  PROVE  a \div q <= b \div q
<1>1. a \div q \in Nat /\ q * (a \div q) <= a
  BY DivFloor
<1> DEFINE r == a \div q
<1> HIDE DEF r
<1>2. r \in Nat /\ r * q <= b
  BY <1>1 DEF r
<1>3. b \div q >= r
  BY <1>2, DivAtLeast
<1>4. b \div q \in Nat
  BY DivFloor
<1> QED
  BY <1>2, <1>3, <1>4 DEF r

\* The lesser of two naturals is at most either.
LEMMA LesserRange ==
  ASSUME NEW a \in Nat, NEW b \in Nat
  PROVE  Lesser(a, b) \in Nat /\ Lesser(a, b) <= a /\ Lesser(a, b) <= b
BY DEF Lesser

\* A natural cut off at u64::MAX is a u64.
LEMMA CutInU64 ==
  ASSUME NEW a \in Nat
  PROVE  Lesser(a, MaxU64) \in U64
BY WidthAssumption DEF Lesser, U64

\* saturating_add is a u64, and exact as long as the sum is one.
LEMMA SatAddRange ==
  ASSUME NEW a \in Nat, NEW b \in Nat
  PROVE  /\ SatAdd(a, b) \in U64
         /\ a + b <= MaxU64 => SatAdd(a, b) = a + b
<1>1. a + b \in Nat
  OBVIOUS
<1>2. SatAdd(a, b) \in U64
  BY <1>1, CutInU64 DEF SatAdd
<1> QED
  BY <1>1, <1>2, WidthAssumption DEF SatAdd, Lesser

\* ceil_div of naturals is a natural.
LEMMA CeilDivNat ==
  ASSUME NEW a \in Nat, NEW b \in Nat \ {0}
  PROVE  CeilDiv(a, b) \in Nat
BY DivFloor DEF CeilDiv

\* ceil_div is at most q when q divisors reach the dividend.
LEMMA CeilDivAtMost ==
  ASSUME NEW a \in Nat, NEW b \in Nat \ {0}, NEW q \in Nat, a <= q * b
  PROVE  CeilDiv(a, b) <= q
BY DivAtMost DEF CeilDiv

\* ceil_div times its divisor reaches the dividend, and one less does not.
LEMMA CeilDivAtLeast ==
  ASSUME NEW a \in Nat, NEW b \in Nat \ {0}
  PROVE  /\ CeilDiv(a, b) * b >= a
         /\ CeilDiv(a, b) * b < a + b
BY SMT DEF CeilDiv

\* A product that checked_mul accepts fits a u128.
LEMMA MulFitsBound ==
  ASSUME NEW a \in Nat, NEW b \in Nat, MulFits(a, b)
  PROVE  a * b \in U128
BY WidthAssumption DEF MulFits, U128

\* A product within a u128 is one checked_mul accepts.
LEMMA FitsByBound ==
  ASSUME NEW a \in Nat, NEW b \in Nat, a * b <= MaxU128
  PROVE  MulFits(a, b)
<1>1. MaxU128 \in Nat
  BY WidthAssumption
<1>2. b > 0 => MaxU128 \div b >= a /\ MaxU128 \div b \in Nat
  BY <1>1, DivAtLeast, DivFloor
<1> QED
  BY <1>2 DEF MulFits

\* A number that fits with a greater factor fits with a smaller one.
LEMMA MulFitsLess ==
  ASSUME NEW k \in Nat, NEW p \in Nat \ {0}, NEW q \in Nat \ {0}, p <= q, MulFits(k, q)
  PROVE  MulFits(k, p)
<1>1. k <= MaxU128 \div q /\ MaxU128 \in Nat
  BY WidthAssumption DEF MulFits
<1>2. MaxU128 \div q <= MaxU128 \div p /\ MaxU128 \div p \in Nat /\ MaxU128 \div q \in Nat
  BY <1>1, DivAntitone, DivFloor
<1> QED
  BY <1>1, <1>2 DEF MulFits

----------------------------------------------------------------------------
(* Fixed point: the exponential is positive, so an EMA is always defined.  *)

\* scaling a number of at least NAD by another keeps it at least NAD, or at
\* the saturated u128::MAX
LEMMA ScaledMulPositive ==
  ASSUME NEW r \in Nat, NEW s \in Nat, r > 0, s >= NAD
  PROVE  ScaledMul(r, s) \in Nat /\ ScaledMul(r, s) > 0
<1>1. NAD \in Nat \ {0} /\ MaxU128 \in Nat \ {0}
  BY ScaleAssumption, WidthAssumption
<1>2. NAD * 1 <= r * s /\ r * s \in Nat
  BY <1>1, MulMonotone, MulNat, SMT
<1>3. (r * s) \div NAD \in Nat /\ (r * s) \div NAD >= 1
  BY <1>1, <1>2, DivFloor, DivAtLeast, SMT
<1> QED
  BY <1>1, <1>3 DEF ScaledMul

\* the Taylor sum starts from one and only adds
LEMMA TaylorSumAtLeastOne ==
  ASSUME NEW x \in Nat
  PROVE  TaylorSum(x) \in Nat /\ TaylorSum(x) >= NAD
<1>1. NAD \in Nat \ {0}
  BY ScaleAssumption
<1>2. \A term \in Nat, i \in 1 .. 5 : TaylorTerm(term, i, x) \in Nat
  <2> SUFFICES ASSUME NEW term \in Nat, NEW i \in 1 .. 5
               PROVE  TaylorTerm(term, i, x) \in Nat
    OBVIOUS
  <2>1. term * x \in Nat /\ i * NAD \in Nat \ {0}
    BY <1>1, MulNat, SMT
  <2> QED
    BY <2>1, DivFloor DEF TaylorTerm
<1> DEFINE t1 == TaylorTerm(NAD, 1, x)
           t2 == TaylorTerm(t1, 2, x)
           t3 == TaylorTerm(t2, 3, x)
           t4 == TaylorTerm(t3, 4, x)
           t5 == TaylorTerm(t4, 5, x)
<1>3. t1 \in Nat
  BY <1>1, <1>2
<1>4. t2 \in Nat
  BY <1>2, <1>3
<1>5. t3 \in Nat
  BY <1>2, <1>4
<1>6. t4 \in Nat
  BY <1>2, <1>5
<1>7. t5 \in Nat
  BY <1>2, <1>6
<1>8. TaylorSum(x) = NAD + t1 + t2 + t3 + t4 + t5
  BY DEF TaylorSum
<1> QED
  BY <1>1, <1>3, <1>4, <1>5, <1>6, <1>7, <1>8

\* taylor_exp never divides by zero
LEMMA TenthPowerPositive ==
  ASSUME NEW s \in Nat, s >= NAD
  PROVE  TenthPower(s) \in Nat /\ TenthPower(s) > 0
<1>1. NAD \in Nat /\ NAD > 0
  BY ScaleAssumption
<1> QED
  BY <1>1, ScaledMulPositive DEF TenthPower

\* `as u64` of any integer is a u64
LEMMA CastInU64 ==
  ASSUME NEW a \in Int
  PROVE  CastU64(a) \in U64
BY WidthAssumption DEF CastU64, U64

\* an exponential is a u64
LEMMA ExpOfMinusInU64 ==
  ASSUME NEW x \in Nat
  PROVE  ExpOfMinus(x) \in U64
<1> DEFINE result == TenthPower(TaylorSum(x \div 10))
<1>1. x \div 10 \in Nat
  BY DivFloor
<1>2. result \in Nat /\ result > 0
  BY <1>1, TaylorSumAtLeastOne, TenthPowerPositive
<1>3. NAD * NAD \in Nat
  BY ScaleAssumption, MulNat
<1>4. (NAD * NAD) \div result \in Int
  BY <1>2, <1>3, DivFloor
<1> HIDE DEF result
<1>5. CastU64(IF x > 0 THEN (NAD * NAD) \div result ELSE result) \in U64
  BY <1>2, <1>4, CastInU64
<1> QED
  BY <1>5 DEF ExpOfMinus, result

\* compute_ema returns a u64
LEMMA ComputeEmaInU64 ==
  ASSUME NEW last \in U64, NEW dt \in Nat, NEW input \in U64, NEW half_life \in Nat
  PROVE  ComputeEma(last, dt, input, half_life) \in U64
<1>1. CASE ~(dt > 0 /\ half_life > 0)
  BY <1>1 DEF ComputeEma
<1>2. CASE dt > 0 /\ half_life > 0
  <2> DEFINE alpha == ExpOfMinus((dt * NATURAL_LOG_OF_TWO_NAD) \div half_life)
  <2>1. (dt * NATURAL_LOG_OF_TWO_NAD) \div half_life \in Nat
    BY <1>2, ScaleAssumption, MulNat, DivFloor
  <2>2. alpha \in Int
    BY <2>1, ExpOfMinusInU64, WidthAssumption DEF U64
  <2> HIDE DEF alpha
  <2>3. input * (NAD - alpha) + last * alpha \in Int
    BY <2>2, ScaleAssumption, WidthAssumption DEF U64
  <2>4. (input * (NAD - alpha) + last * alpha) \div NAD \in Int
    BY <2>3, ScaleAssumption
  <2>5. CastU64((input * (NAD - alpha) + last * alpha) \div NAD) \in U64
    BY <2>4, CastInU64
  <2> QED
    BY <1>2, <2>5 DEF ComputeEma, alpha
<1> QED
  BY <1>1, <1>2

\* u64 values multiply within a u128
LEMMA ProductInU128 ==
  ASSUME NEW a \in U64, NEW b \in U64
  PROVE  MulFits(a, b) /\ a * b \in U128
<1>1. MaxU64 \in Nat /\ MaxU128 \in Nat /\ MaxU64 * MaxU64 <= MaxU128
  BY WidthAssumption
<1>2. a \in Nat /\ b \in Nat /\ a <= MaxU64 /\ b <= MaxU64
  BY <1>1 DEF U64
<1>3. a * b <= MaxU64 * b /\ b * MaxU64 <= MaxU64 * MaxU64
  BY <1>1, <1>2, MulMonotone
<1>4. a * b <= MaxU128 /\ a * b \in Nat
  BY <1>1, <1>2, <1>3, MulNat, SMT
<1> QED
  BY <1>1, <1>2, <1>4, FitsByBound DEF U128

\* numbers of at least NAD multiply to one of at least NAD
LEMMA ScaledMulAtLeastOne ==
  ASSUME NAD <= MaxU64, NEW r \in Nat, NEW s \in Nat, r >= NAD, s >= NAD
  PROVE  ScaledMul(r, s) \in Nat /\ ScaledMul(r, s) >= NAD
<1>1. NAD \in Nat \ {0} /\ MaxU64 \in Nat /\ MaxU128 \in Nat
  BY ScaleAssumption, WidthAssumption
<1>2. NAD \in U64 /\ 1 \in U64
  BY <1>1 DEF U64
<1>3. NAD <= MaxU128
  <2>1. NAD * 1 \in U128
    BY <1>2, ProductInU128
  <2> QED
    BY <1>1, <2>1 DEF U128
<1>4. NAD * NAD <= r * s /\ r * s \in Nat
  <2>1. NAD * NAD <= r * NAD
    BY <1>1, MulMonotone
  <2>2. NAD * r <= s * r
    BY <1>1, MulMonotone
  <2> QED
    BY <1>1, <2>1, <2>2, MulNat, SMT
<1>5. (r * s) \div NAD \in Nat /\ (r * s) \div NAD >= NAD
  BY <1>1, <1>4, DivFloor, DivAtLeast
<1> QED
  BY <1>1, <1>3, <1>5 DEF ScaledMul

\* the tenth power of a number of at least NAD is at least NAD
LEMMA TenthPowerAtLeastOne ==
  ASSUME NAD <= MaxU64, NEW s \in Nat, s >= NAD
  PROVE  TenthPower(s) \in Nat /\ TenthPower(s) >= NAD
<1>1. NAD \in Nat /\ NAD >= NAD
  BY ScaleAssumption
<1> QED
  BY <1>1, ScaledMulAtLeastOne DEF TenthPower

\* e^-x is at most one, and its conversion to u64 changes nothing
LEMMA ExpOfMinusAtMostOne ==
  ASSUME NAD <= MaxU64, NEW x \in Nat, x > 0
  PROVE  ExpOfMinus(x) \in Nat /\ ExpOfMinus(x) <= NAD
<1> DEFINE result == TenthPower(TaylorSum(x \div 10))
           inverse == (NAD * NAD) \div result
<1>1. NAD \in Nat \ {0} /\ MaxU64 \in Nat
  BY ScaleAssumption, WidthAssumption
<1>2. TaylorSum(x \div 10) \in Nat /\ TaylorSum(x \div 10) >= NAD
  BY DivFloor, TaylorSumAtLeastOne
<1>3. result \in Nat /\ result >= NAD
  BY <1>2, TenthPowerAtLeastOne
<1> HIDE DEF result
<1>4. NAD * NAD \in Nat /\ NAD * NAD <= NAD * result
  <2>1. NAD * NAD <= result * NAD
    BY <1>1, <1>3, MulMonotone
  <2> QED
    BY <1>1, <1>3, <2>1, MulNat, SMT
<1>5. inverse \in Nat /\ inverse <= NAD
  BY <1>1, <1>3, <1>4, DivFloor, DivAtMost
<1>6. ExpOfMinus(x) = CastU64(inverse)
  BY DEF ExpOfMinus, result
<1> HIDE DEF inverse
<1>7. CastU64(inverse) = inverse
  BY <1>1, <1>5 DEF CastU64
<1> QED
  BY <1>5, <1>6, <1>7

----------------------------------------------------------------------------
(* The exponential falls as its argument grows: term by term, power by      *)
(* power, and where one of the products leaves u128.                        *)

\* two factors fit where two greater ones do
LEMMA MulFitsWithin ==
  ASSUME NEW a \in Nat, NEW b \in Nat, NEW p \in Nat, NEW q \in Nat,
         a <= p, b <= q, MulFits(p, q)
  PROVE  MulFits(a, b) /\ a * b <= p * q /\ a * b \in Nat /\ p * q \in Nat
<1>1. a * b <= p * b /\ b * p <= q * p
  BY MulMonotone
<1>2. a * b \in Nat /\ p * b \in Nat /\ p * q \in Nat /\ b * p = p * b /\ q * p = p * q
  BY MulNat
<1>3. p * q <= MaxU128 /\ MaxU128 \in Nat
  BY MulFitsBound, WidthAssumption DEF U128
<1>4. a * b <= MaxU128
  BY <1>1, <1>2, <1>3
<1>5. MulFits(a, b)
  BY <1>4, FitsByBound
<1> QED
  BY <1>1, <1>2, <1>5

\* a product that does not fit exceeds u128::MAX
LEMMA MulOverflows ==
  ASSUME NEW a \in Nat, NEW b \in Nat, ~MulFits(a, b)
  PROVE  a * b > MaxU128 /\ a * b \in Nat /\ b > 0
<1>1. b > 0 /\ MaxU128 \in Nat
  BY WidthAssumption DEF MulFits
<1> DEFINE q == MaxU128 \div b
<1>2. q \in Nat /\ MaxU128 < b * q + b
  BY <1>1, DivFloor
<1>3. a > q
  <2>1. ~(a <= q)
    BY DEF MulFits
  <2> HIDE DEF q
  <2> QED
    BY <1>2, <2>1
<1> HIDE DEF q
<1>4. (q + 1) * b <= a * b /\ (q + 1) * b = b * q + b /\ a * b \in Nat /\ b * q \in Nat
  BY <1>2, <1>3, MulMonotone, MulNat
<1> QED
  BY <1>1, <1>2, <1>4

\* a rounded product of greater factors is no less
LEMMA ScaledMulMonotone ==
  ASSUME NEW r \in Nat, NEW s \in Nat, NEW p \in Nat, NEW q \in Nat, r <= p, s <= q
  PROVE  /\ ScaledMul(r, s) \in Nat /\ ScaledMul(p, q) \in Nat
         /\ ScaledMul(r, s) <= ScaledMul(p, q)
<1>1. NAD \in Nat \ {0} /\ MaxU128 \in Nat /\ r * s \in Nat /\ p * q \in Nat
  BY ScaleAssumption, WidthAssumption, MulNat
<1>2. (r * s) \div NAD \in Nat /\ (p * q) \div NAD \in Nat
  BY <1>1, DivFloor
<1>3. CASE MulFits(p, q)
  <2>1. MulFits(r, s) /\ r * s <= p * q
    BY <1>3, MulFitsWithin
  <2>2. (r * s) \div NAD <= (p * q) \div NAD
    BY <1>1, <2>1, DivMonotone
  <2> QED
    BY <1>2, <1>3, <2>1, <2>2 DEF ScaledMul
<1>4. CASE ~MulFits(p, q)
  <2>1. ScaledMul(p, q) = MaxU128
    BY <1>4 DEF ScaledMul
  <2>2. MulFits(r, s) => (r * s) \div NAD <= MaxU128
    <3>1. SUFFICES ASSUME MulFits(r, s) PROVE (r * s) \div NAD <= MaxU128
      OBVIOUS
    <3>2. r * s <= MaxU128
      BY <3>1, MulFitsBound DEF U128
    <3>3. MaxU128 * 1 <= MaxU128 * NAD
      BY <1>1
    <3>4. r * s < MaxU128 * NAD + NAD
      BY <1>1, <3>2, <3>3
    <3> QED
      BY <1>1, <3>4, DivAtMost
  <2> QED
    BY <1>1, <1>2, <2>1, <2>2 DEF ScaledMul
<1> QED
  BY <1>3, <1>4

\* the tenth power grows with its base
LEMMA TenthPowerMonotone ==
  ASSUME NEW s \in Nat, NEW q \in Nat, s <= q
  PROVE  TenthPower(s) <= TenthPower(q)
<1>1. NAD \in Nat /\ NAD <= NAD
  BY ScaleAssumption
<1>2. \A r, p \in Nat : r <= p =>
        /\ ScaledMul(ScaledMul(r, s), s) \in Nat
        /\ ScaledMul(ScaledMul(p, q), q) \in Nat
        /\ ScaledMul(ScaledMul(r, s), s) <= ScaledMul(ScaledMul(p, q), q)
  <2> TAKE r, p \in Nat
  <2> HAVE r <= p
  <2>1. /\ ScaledMul(r, s) \in Nat /\ ScaledMul(p, q) \in Nat
        /\ ScaledMul(r, s) <= ScaledMul(p, q)
    BY ScaledMulMonotone
  <2> QED
    BY <2>1, ScaledMulMonotone
<1> DEFINE f(r) == ScaledMul(ScaledMul(r, s), s)
           g(r) == ScaledMul(ScaledMul(r, q), q)
<1>3. \A r, p \in Nat : r <= p => f(r) \in Nat /\ g(p) \in Nat /\ f(r) <= g(p)
  BY <1>2
<1>4. TenthPower(s) = f(f(f(f(f(NAD))))) /\ TenthPower(q) = g(g(g(g(g(NAD)))))
  BY DEF TenthPower
<1> HIDE DEF f, g
<1>5. f(NAD) \in Nat /\ g(NAD) \in Nat /\ f(NAD) <= g(NAD)
  BY <1>1, <1>3
<1>6. f(f(NAD)) \in Nat /\ g(g(NAD)) \in Nat /\ f(f(NAD)) <= g(g(NAD))
  BY <1>3, <1>5
<1>7. f(f(f(NAD))) \in Nat /\ g(g(g(NAD))) \in Nat /\ f(f(f(NAD))) <= g(g(g(NAD)))
  BY <1>3, <1>6
<1>8. /\ f(f(f(f(NAD)))) \in Nat /\ g(g(g(g(NAD)))) \in Nat
      /\ f(f(f(f(NAD)))) <= g(g(g(g(NAD))))
  BY <1>3, <1>7
<1> QED
  BY <1>3, <1>4, <1>8

\* a term of the series is natural; while it fits it grows with the one
\* before and with the argument
LEMMA TaylorTermMonotone ==
  ASSUME NEW t \in Nat, NEW x \in Nat, NEW r \in Nat, NEW y \in Nat, NEW i \in 1 .. 5,
         t <= r, x <= y, MulFits(r, y)
  PROVE  /\ TaylorTerm(t, i, x) \in Nat /\ TaylorTerm(r, i, y) \in Nat
         /\ TaylorTerm(t, i, x) <= TaylorTerm(r, i, y)
<1>1. MulFits(t, x) /\ t * x <= r * y /\ t * x \in Nat /\ r * y \in Nat
  BY MulFitsWithin
<1>2. i * NAD \in Nat \ {0}
  BY ScaleAssumption, SMT
<1> DEFINE d == i * NAD
<1>3. d \in Nat \ {0}
  BY <1>2
<1> HIDE DEF d
<1>4. (t * x) \div d \in Nat /\ (r * y) \div d \in Nat /\ (t * x) \div d <= (r * y) \div d
  BY <1>1, <1>3, DivFloor, DivMonotone
<1> QED
  BY <1>1, <1>4 DEF TaylorTerm, d

\* no product of the series leaves u128
TaylorFits(x) ==
  LET t1 == TaylorTerm(NAD, 1, x)
      t2 == TaylorTerm(t1, 2, x)
      t3 == TaylorTerm(t2, 3, x)
      t4 == TaylorTerm(t3, 4, x)
  IN  /\ MulFits(NAD, x) /\ MulFits(t1, x) /\ MulFits(t2, x)
      /\ MulFits(t3, x) /\ MulFits(t4, x)

\* while all terms fit, the sum grows with the argument
LEMMA TaylorSumMonotone ==
  ASSUME NEW x \in Nat, NEW y \in Nat, x <= y, TaylorFits(y)
  PROVE  TaylorSum(x) <= TaylorSum(y)
<1> DEFINE t(term, i) == TaylorTerm(term, i, x)
           r(term, i) == TaylorTerm(term, i, y)
<1>1. \A a, b \in Nat, i \in 1 .. 5 :
        a <= b /\ MulFits(b, y) => t(a, i) \in Nat /\ r(b, i) \in Nat /\ t(a, i) <= r(b, i)
  BY TaylorTermMonotone
<1>2. /\ MulFits(NAD, y) /\ MulFits(r(NAD, 1), y) /\ MulFits(r(r(NAD, 1), 2), y)
      /\ MulFits(r(r(r(NAD, 1), 2), 3), y) /\ MulFits(r(r(r(r(NAD, 1), 2), 3), 4), y)
  BY DEF TaylorFits
<1>3. NAD \in Nat /\ NAD <= NAD /\ \A i \in {1, 2, 3, 4, 5} : i \in 1 .. 5
  BY ScaleAssumption
<1>4. /\ TaylorSum(x) = NAD + t(NAD, 1) + t(t(NAD, 1), 2) + t(t(t(NAD, 1), 2), 3)
           + t(t(t(t(NAD, 1), 2), 3), 4) + t(t(t(t(t(NAD, 1), 2), 3), 4), 5)
      /\ TaylorSum(y) = NAD + r(NAD, 1) + r(r(NAD, 1), 2) + r(r(r(NAD, 1), 2), 3)
           + r(r(r(r(NAD, 1), 2), 3), 4) + r(r(r(r(r(NAD, 1), 2), 3), 4), 5)
  BY DEF TaylorSum
<1> HIDE DEF t, r
<1> DEFINE t1 == t(NAD, 1)
           r1 == r(NAD, 1)
<1>5. t1 \in Nat /\ r1 \in Nat /\ t1 <= r1
  BY <1>1, <1>2, <1>3
<1>6. MulFits(r1, y)
  BY <1>2
<1> HIDE DEF t1, r1
<1> DEFINE t2 == t(t1, 2)
           r2 == r(r1, 2)
<1>7. t2 \in Nat /\ r2 \in Nat /\ t2 <= r2
  BY <1>1, <1>3, <1>5, <1>6
<1>8. MulFits(r2, y)
  BY <1>2 DEF r1
<1> HIDE DEF t2, r2
<1> DEFINE t3 == t(t2, 3)
           r3 == r(r2, 3)
<1>9. t3 \in Nat /\ r3 \in Nat /\ t3 <= r3
  BY <1>1, <1>3, <1>7, <1>8
<1>10. MulFits(r3, y)
  BY <1>2 DEF r1, r2
<1> HIDE DEF t3, r3
<1> DEFINE t4 == t(t3, 4)
           r4 == r(r3, 4)
<1>11. t4 \in Nat /\ r4 \in Nat /\ t4 <= r4
  BY <1>1, <1>3, <1>9, <1>10
<1>12. MulFits(r4, y)
  BY <1>2 DEF r1, r2, r3
<1> HIDE DEF t4, r4
<1> DEFINE t5 == t(t4, 5)
           r5 == r(r4, 5)
<1>13. t5 \in Nat /\ r5 \in Nat /\ t5 <= r5
  BY <1>1, <1>3, <1>11, <1>12
<1>14. TaylorSum(x) = NAD + t1 + t2 + t3 + t4 + t5 /\ TaylorSum(y) = NAD + r1 + r2 + r3 + r4 + r5
  BY <1>4 DEF t1, t2, t3, t4, t5, r1, r2, r3, r4, r5
<1> HIDE DEF t5, r5
<1> QED
  BY <1>3, <1>5, <1>7, <1>9, <1>11, <1>13, <1>14

\* a term is at most the one before times the argument's whole units and one
LEMMA TaylorTermAtMost ==
  ASSUME NEW term \in Nat, NEW x \in Nat, NEW i \in 1 .. 5, NEW b \in Nat, NEW g \in Nat,
         term <= b, x <= g * NAD
  PROVE  TaylorTerm(term, i, x) \in Nat /\ TaylorTerm(term, i, x) <= b * g /\ b * g \in Nat
<1>1. NAD \in Nat \ {0} /\ i * NAD \in Nat \ {0} /\ NAD <= i * NAD
  BY ScaleAssumption, SMT
<1>2. term * x \in Nat /\ b * g \in Nat /\ g * NAD \in Nat /\ b * (g * NAD) \in Nat
  BY <1>1, MulNat
<1>3. term * x <= b * (g * NAD)
  <2>1. term * x <= b * x /\ x * b <= (g * NAD) * b
    BY <1>2, MulMonotone
  <2> QED
    BY <1>2, <2>1
<1>4. b * (g * NAD) <= (b * g) * (i * NAD)
  <2>1. NAD * (b * g) <= (i * NAD) * (b * g)
    BY <1>1, <1>2, MulMonotone
  <2>2. b * (g * NAD) = NAD * (b * g)
    BY <1>1
  <2> DEFINE d == i * NAD
             c == b * g
  <2>3. d * c = c * d
    BY <1>1, <1>2
  <2> QED
    BY <2>1, <2>2, <2>3
<1> DEFINE d == i * NAD
           c == b * g
<1>5. d \in Nat \ {0} /\ c \in Nat /\ term * x < c * d + d
  <2>1. d \in Nat \ {0} /\ c \in Nat /\ c * d \in Nat
    BY <1>1, <1>2, MulNat
  <2>2. term * x <= c * d
    BY <1>2, <1>3, <1>4, <2>1
  <2> HIDE DEF d, c
  <2> QED
    BY <1>2, <2>1, <2>2
<1> HIDE DEF d, c
<1>6. (term * x) \div d \in Nat /\ (term * x) \div d <= c
  BY <1>2, <1>5, DivFloor, DivAtMost
<1>7. TaylorTerm(term, i, x) = IF MulFits(term, x) THEN (term * x) \div d ELSE 0
  BY DEF TaylorTerm, d
<1>8. TaylorTerm(term, i, x) \in Nat /\ TaylorTerm(term, i, x) <= c
  BY <1>5, <1>6, <1>7
<1> QED
  BY <1>2, <1>8 DEF c

\* the sum is at least one and its argument
LEMMA TaylorSumAtLeast ==
  ASSUME NEW x \in Nat, MulFits(NAD, x)
  PROVE  TaylorSum(x) \in Nat /\ TaylorSum(x) >= NAD + x
<1>1. NAD \in Nat \ {0} /\ \A i \in {1, 2, 3, 4, 5} : i \in 1 .. 5
  BY ScaleAssumption
<1> DEFINE t(term, i) == TaylorTerm(term, i, x)
<1>2. \A a \in Nat, i \in 1 .. 5 : t(a, i) \in Nat
  <2> TAKE a \in Nat, i \in 1 .. 5
  <2>1. x <= x * NAD /\ x * NAD \in Nat
    <3>1. 1 * x <= NAD * x
      BY <1>1, MulMonotone
    <3> QED
      BY <1>1, <3>1, MulNat
  <2>2. a <= a
    OBVIOUS
  <2>3. TaylorTerm(a, i, x) \in Nat
    BY <2>1, <2>2, TaylorTermAtMost
  <2> QED
    BY <2>3
<1>3. t(NAD, 1) = x
  <2>1. NAD * x \in Nat /\ NAD * x = x * NAD
    BY <1>1, MulNat
  <2>2. (NAD * x) \div NAD >= x
    BY <1>1, <2>1, DivAtLeast
  <2>3. (NAD * x) \div NAD <= x
    BY <1>1, <2>1, DivAtMost
  <2>4. (NAD * x) \div NAD \in Nat
    BY <1>1, <2>1, DivFloor
  <2>5. 1 * NAD = NAD
    BY <1>1
  <2> QED
    BY <2>2, <2>3, <2>4, <2>5 DEF TaylorTerm
<1>4. TaylorSum(x) = NAD + t(NAD, 1) + t(t(NAD, 1), 2) + t(t(t(NAD, 1), 2), 3)
           + t(t(t(t(NAD, 1), 2), 3), 4) + t(t(t(t(t(NAD, 1), 2), 3), 4), 5)
  BY DEF TaylorSum
<1> HIDE DEF t
<1>5. t(x, 2) \in Nat
  BY <1>1, <1>2
<1>6. t(t(x, 2), 3) \in Nat
  BY <1>1, <1>2, <1>5
<1>7. t(t(t(x, 2), 3), 4) \in Nat
  BY <1>1, <1>2, <1>6
<1>8. t(t(t(t(x, 2), 3), 4), 5) \in Nat
  BY <1>1, <1>2, <1>7
<1> QED
  BY <1>1, <1>3, <1>4, <1>5, <1>6, <1>7, <1>8

\* where some product of the series leaves u128, the argument, in whole units
\* and one, has a fifth power above one
LEMMA TaylorOverflow ==
  ASSUME NEW x \in Nat, MulFits(NAD, x), ~TaylorFits(x), NEW g \in Nat, g >= 1,
         x <= g * NAD, NAD * NAD * NAD <= MaxU128
  PROVE  g * g * g * g * g > NAD
<1>1. NAD \in Nat \ {0} /\ MaxU128 \in Nat /\ \A i \in {1, 2, 3, 4, 5} : i \in 1 .. 5
  BY ScaleAssumption, WidthAssumption
<1> DEFINE t(term, i) == TaylorTerm(term, i, x)
           t1 == t(NAD, 1)
           t2 == t(t1, 2)
           t3 == t(t2, 3)
           t4 == t(t3, 4)
<1>2. \A a, b \in Nat, i \in 1 .. 5 :
        a <= b => t(a, i) \in Nat /\ t(a, i) <= b * g /\ b * g \in Nat
  BY TaylorTermAtMost
<1>3. ~(MulFits(t1, x) /\ MulFits(t2, x) /\ MulFits(t3, x) /\ MulFits(t4, x))
  BY DEF TaylorFits
<1> HIDE DEF t
<1> DEFINE b1 == NAD * g
           b2 == b1 * g
           b3 == b2 * g
           b4 == b3 * g
<1>4. t1 \in Nat /\ t1 <= b1 /\ b1 \in Nat
  BY <1>1, <1>2
<1> HIDE DEF t1, b1
<1>5. t2 \in Nat /\ t2 <= b2 /\ b2 \in Nat
  BY <1>1, <1>2, <1>4
<1> HIDE DEF t2, b2
<1>6. t3 \in Nat /\ t3 <= b3 /\ b3 \in Nat
  BY <1>1, <1>2, <1>5
<1> HIDE DEF t3, b3
<1>7. t4 \in Nat /\ t4 <= b4 /\ b4 \in Nat
  BY <1>1, <1>2, <1>6
<1> HIDE DEF t4
<1>8. b1 <= b2 /\ b2 <= b3 /\ b3 <= b4
  <2>1. \A b \in Nat : b <= b * g
    <3> TAKE b \in Nat
    <3>1. 1 * b <= g * b
      BY MulMonotone
    <3> QED
      BY <3>1
  <2> QED
    BY <1>4, <1>5, <1>6, <2>1 DEF b2, b3, b4
<1> HIDE DEF b4
<1>9. b4 * x > MaxU128
  <2>1. \A term \in Nat : term <= b4 /\ ~MulFits(term, x) => b4 * x > MaxU128
    <3> TAKE term \in Nat
    <3> HAVE term <= b4 /\ ~MulFits(term, x)
    <3>1. term * x > MaxU128 /\ term * x \in Nat /\ term * x <= b4 * x /\ b4 * x \in Nat
      BY <1>7, MulOverflows, MulMonotone, MulNat
    <3> QED
      BY <1>1, <3>1
  <2> QED
    BY <1>3, <1>4, <1>5, <1>6, <1>7, <1>8, <2>1
<1> DEFINE p == g * g * g * g * g
           u == NAD * NAD
<1>10. b4 * x <= p * u
  <2>1. x * b4 <= (g * NAD) * b4
    BY <1>1, <1>7, MulMonotone, MulNat
  <2>2. b4 = NAD * g * g * g * g
    BY DEF b1, b2, b3, b4
  <2>3. (g * NAD) * b4 = p * u
    BY <1>1, <2>2
  <2> QED
    BY <1>7, <2>1, <2>3
<1>11. NAD * u <= MaxU128 /\ NAD * u \in Nat /\ u \in Nat
  BY <1>1, MulNat
<1>12. p \in Nat
  <2>1. g * g \in Nat
    BY MulNat
  <2>2. g * g * g \in Nat
    BY <2>1, MulNat
  <2>3. g * g * g * g \in Nat
    BY <2>2, MulNat
  <2> QED
    BY <2>3, MulNat
<1> HIDE DEF p, u
<1>13. NAD * u < p * u
  BY <1>1, <1>7, <1>9, <1>10, <1>11, <1>12, MulNat
<1>14. NAD < p
  BY <1>1, <1>11, <1>12, <1>13, LessByFactor
<1> QED
  BY <1>1, <1>12, <1>14 DEF p

\* a rounded product grows by the whole units of its factor, as long as it is
\* not beyond any that matters
LEMMA ScaledMulGrows ==
  ASSUME NEW r \in Nat, NEW s \in Nat, NEW a \in Nat, NEW g \in Nat, NEW top \in Nat,
         g >= 1, s >= g * NAD, top < MaxU128, r >= a \/ r > top
  PROVE  /\ ScaledMul(r, s) \in Nat
         /\ ScaledMul(r, s) >= a * g \/ ScaledMul(r, s) > top
<1>1. NAD \in Nat \ {0} /\ MaxU128 \in Nat /\ g * NAD \in Nat
  BY ScaleAssumption, WidthAssumption, MulNat
<1>2. CASE MulFits(r, s)
  <2>1. ScaledMul(r, s) = (r * s) \div NAD /\ r * s \in Nat /\ r * g \in Nat /\ a * g \in Nat
    BY <1>2, MulNat DEF ScaledMul
  <2>2. (r * g) * NAD <= r * s
    <3>1. (g * NAD) * r <= s * r
      BY <1>1, MulMonotone
    <3>2. (g * NAD) * r = (r * g) * NAD
      BY <1>1
    <3> QED
      BY <3>1, <3>2
  <2>3. ScaledMul(r, s) \in Nat /\ ScaledMul(r, s) >= r * g
    BY <1>1, <2>1, <2>2, DivFloor, DivAtLeast
  <2>4. r >= a => r * g >= a * g
    BY MulMonotone
  <2>5. r * g >= r
    <3>1. 1 * r <= g * r
      BY MulMonotone
    <3> QED
      BY <3>1
  <2> QED
    BY <2>1, <2>3, <2>4, <2>5
<1>3. CASE ~MulFits(r, s)
  BY <1>1, <1>3 DEF ScaledMul
<1> QED
  BY <1>2, <1>3

\* ten products by at least g
LEMMA TenthPowerLarge ==
  ASSUME NEW s \in Nat, NEW g \in Nat, NEW top \in Nat, g >= 1, s >= g * NAD, top < MaxU128
  PROVE  /\ TenthPower(s) \in Nat
         /\ TenthPower(s) >= NAD * (g * g * g * g * g) \/ TenthPower(s) > top
<1>1. NAD \in Nat \ {0} /\ g * NAD \in Nat /\ s >= 1 * NAD /\ 1 \in Nat
  <2>1. 1 * NAD <= g * NAD
    BY ScaleAssumption, MulMonotone
  <2> QED
    BY <2>1, ScaleAssumption, MulNat
<1> DEFINE f(r) == ScaledMul(ScaledMul(r, s), s)
           Reaches(r, a) == r >= a \/ r > top
<1>2. \A r, a \in Nat : Reaches(r, a) => f(r) \in Nat /\ Reaches(f(r), a * g) /\ a * g \in Nat
  <2> TAKE r, a \in Nat
  <2> HAVE Reaches(r, a)
  <2>1. s >= 1 * NAD /\ 1 \in Nat /\ 1 >= 1 /\ (r >= a \/ r > top)
    BY <1>1
  <2>2. ScaledMul(r, s) \in Nat /\ (ScaledMul(r, s) >= a * 1 \/ ScaledMul(r, s) > top)
    BY <2>1, ScaledMulGrows
  <2>3. ScaledMul(r, s) >= a \/ ScaledMul(r, s) > top
    BY <2>2
  <2> DEFINE z == ScaledMul(r, s)
  <2>4. z \in Nat /\ (z >= a \/ z > top)
    BY <2>2, <2>3
  <2> HIDE DEF z
  <2>5. ScaledMul(z, s) \in Nat /\ (ScaledMul(z, s) >= a * g \/ ScaledMul(z, s) > top)
    BY <2>4, ScaledMulGrows
  <2> QED
    BY <2>5, MulNat DEF z
<1>3. TenthPower(s) = f(f(f(f(f(NAD)))))
  BY DEF TenthPower
<1>4. Reaches(NAD, NAD)
  BY <1>1
<1>5. Reaches(TenthPower(s), NAD * (g * g * g * g * g)) <=>
        TenthPower(s) >= NAD * (g * g * g * g * g) \/ TenthPower(s) > top
  OBVIOUS
<1> HIDE DEF f, Reaches
<1>6. f(NAD) \in Nat /\ Reaches(f(NAD), NAD * g) /\ NAD * g \in Nat
  BY <1>1, <1>2, <1>4
<1>7. f(f(NAD)) \in Nat /\ Reaches(f(f(NAD)), NAD * g * g) /\ NAD * g * g \in Nat
  BY <1>2, <1>6
<1>8. f(f(f(NAD))) \in Nat /\ Reaches(f(f(f(NAD))), NAD * g * g * g) /\ NAD * g * g * g \in Nat
  BY <1>2, <1>7
<1>9. /\ f(f(f(f(NAD)))) \in Nat /\ Reaches(f(f(f(f(NAD)))), NAD * g * g * g * g)
      /\ NAD * g * g * g * g \in Nat
  BY <1>2, <1>8
<1>10. /\ f(f(f(f(f(NAD))))) \in Nat
       /\ Reaches(f(f(f(f(f(NAD))))), NAD * g * g * g * g * g)
  BY <1>2, <1>9
<1>11. NAD * g * g * g * g * g = NAD * (g * g * g * g * g)
  BY <1>1
<1> QED
  BY <1>3, <1>5, <1>10, <1>11

\* e^-x is antitone over the arguments whose scaled tenth fits u128: also where
\* the powers of the argument no longer do, for there the reciprocal is zero
LEMMA ExpOfMinusAntitone ==
  ASSUME NAD <= MaxU64, NAD * NAD < MaxU128, NAD * NAD * NAD <= MaxU128,
         NEW x \in Nat, NEW y \in Nat, 0 < x, x <= y, MulFits(NAD, y \div 10)
  PROVE  /\ ExpOfMinus(x) \in Nat /\ ExpOfMinus(y) \in Nat
         /\ ExpOfMinus(y) <= ExpOfMinus(x) /\ ExpOfMinus(x) <= NAD
<1> DEFINE u == x \div 10
           v == y \div 10
           p == TenthPower(TaylorSum(u))
           q == TenthPower(TaylorSum(v))
<1>1. NAD \in Nat \ {0} /\ MaxU64 \in Nat /\ MaxU128 \in Nat /\ NAD * NAD \in Nat
  BY ScaleAssumption, WidthAssumption, MulNat
<1>2. u \in Nat /\ v \in Nat /\ u <= v
  BY DivFloor, DivMonotone
<1>3. ExpOfMinus(x) \in Nat /\ ExpOfMinus(x) <= NAD /\ ExpOfMinus(y) \in Nat
  BY ExpOfMinusAtMostOne
<1>4. ExpOfMinus(x) = CastU64((NAD * NAD) \div p) /\ ExpOfMinus(y) = CastU64((NAD * NAD) \div q)
  BY DEF ExpOfMinus
<1>5. MulFits(NAD, v)
  OBVIOUS
<1>6. /\ TaylorSum(u) \in Nat /\ TaylorSum(u) >= NAD
      /\ TaylorSum(v) \in Nat /\ TaylorSum(v) >= NAD
  BY <1>2, TaylorSumAtLeastOne
<1>7. p \in Nat /\ q \in Nat /\ p >= NAD /\ q >= NAD
  BY <1>6, TenthPowerAtLeastOne
<1> HIDE DEF u, v
<1>8. CASE TaylorFits(v)
  <2>1. TaylorSum(u) <= TaylorSum(v)
    BY <1>2, <1>8, TaylorSumMonotone
  <2>2. p <= q
    BY <1>6, <2>1, TenthPowerMonotone
  <2> HIDE DEF p, q
  <2>3. /\ (NAD * NAD) \div p \in Nat /\ (NAD * NAD) \div q \in Nat
        /\ (NAD * NAD) \div q <= (NAD * NAD) \div p
    <3>1. p \in Nat \ {0} /\ q \in Nat \ {0}
      BY <1>1, <1>7
    <3> DEFINE n == NAD * NAD
    <3>2. n \in Nat
      BY <1>1
    <3> HIDE DEF n
    <3>3. n \div p \in Nat /\ n \div q \in Nat /\ n \div q <= n \div p
      BY <2>2, <3>1, <3>2, DivFloor, DivAntitone
    <3> QED
      BY <3>3 DEF n
  <2>4. (NAD * NAD) \div p <= NAD
    <3>1. NAD * NAD <= p * NAD /\ p * NAD = NAD * p /\ NAD * p \in Nat
      BY <1>1, <1>7, MulMonotone, MulNat
    <3> QED
      BY <1>1, <1>7, <3>1, DivAtMost
  <2> DEFINE e == (NAD * NAD) \div p
             f == (NAD * NAD) \div q
  <2>5. e \in Nat /\ f \in Nat /\ f <= e /\ e <= NAD
    BY <2>3, <2>4
  <2>6. ExpOfMinus(x) = CastU64(e) /\ ExpOfMinus(y) = CastU64(f)
    BY <1>4
  <2> HIDE DEF e, f
  <2>7. CastU64(e) = e /\ CastU64(f) = f
    BY <1>1, <2>5 DEF CastU64
  <2> QED
    BY <1>3, <2>5, <2>6, <2>7
<1>9. CASE ~TaylorFits(v)
  <2> DEFINE g == (v \div NAD) + 1
  <2>1. g \in Nat /\ g >= 1 /\ v <= g * NAD /\ NAD + v >= g * NAD
    <3>1. v \div NAD \in Nat /\ NAD * (v \div NAD) <= v /\ v < NAD * (v \div NAD) + NAD
      BY <1>1, <1>2, DivFloor
    <3> DEFINE w == v \div NAD
    <3>2. w \in Nat /\ NAD * w <= v /\ v < NAD * w + NAD /\ g = w + 1
      BY <3>1
    <3> HIDE DEF w, g
    <3>3. g * NAD = NAD * w + NAD /\ NAD * w \in Nat
      BY <1>1, <3>2, MulNat
    <3> QED
      BY <1>1, <1>2, <3>2, <3>3
  <2> HIDE DEF g
  <2>2. g * g * g * g * g > NAD
    BY <1>2, <1>5, <1>9, <2>1, TaylorOverflow
  <2>3. TaylorSum(v) >= g * NAD
    BY <1>1, <1>2, <1>5, <1>6, <2>1, TaylorSumAtLeast, MulNat
  <2>4. q >= NAD * (g * g * g * g * g) \/ q > NAD * NAD
    BY <1>1, <1>6, <2>1, <2>3, TenthPowerLarge
  <2>5. q > NAD * NAD
    <3> DEFINE h == g * g * g * g * g
    <3>1. h \in Nat /\ h > NAD
      <4>1. g * g \in Nat
        BY <2>1, MulNat
      <4>2. g * g * g \in Nat
        BY <2>1, <4>1, MulNat
      <4>3. g * g * g * g \in Nat
        BY <2>1, <4>2, MulNat
      <4> QED
        BY <2>1, <2>2, <4>3, MulNat
    <3>2. q >= NAD * h \/ q > NAD * NAD
      BY <2>4
    <3> HIDE DEF h, q
    <3>3. (NAD + 1) * NAD <= h * NAD /\ h * NAD = NAD * h /\ NAD * h \in Nat
          /\ (NAD + 1) * NAD = NAD * NAD + NAD
      BY <1>1, <3>1, MulMonotone, MulNat
    <3> QED
      BY <1>1, <1>7, <3>2, <3>3
  <2> HIDE DEF q
  <2>6. (NAD * NAD) \div q = 0
    <3>1. NAD * NAD < 0 * q + q /\ q \in Nat \ {0}
      BY <1>1, <1>7, <2>5
    <3>2. (NAD * NAD) \div q <= 0 /\ (NAD * NAD) \div q \in Nat
      BY <1>1, <3>1, DivAtMost, DivFloor
    <3> QED
      BY <3>2
  <2>7. ExpOfMinus(y) = 0
    BY <1>1, <1>4, <2>6 DEF CastU64
  <2> QED
    BY <1>3, <2>7
<1> QED
  BY <1>8, <1>9

----------------------------------------------------------------------------
(* Induction, from the well-foundedness of < on the naturals. *)

\* A set with 0 and the successors of its naturals holds all naturals.
LEMMA Induction ==
  ASSUME NEW S, 0 \in S, \A n \in Nat : n \in S => n + 1 \in S
  PROVE  Nat \subseteq S
<1> DEFINE T == Nat \ S
           R == OpToRel(<, Nat)
<1>1. SUFFICES ASSUME T # {} PROVE FALSE
  OBVIOUS
<1>2. IsWellFoundedOn(R, Nat)
  BY NatLessThanWellFounded
<1>3. PICK x \in T : \A y \in T : ~ (<<y, x>> \in R)
  <2> HIDE DEF R
  <2> QED
    BY <1>1, <1>2, WFMin
<1>4. \A y, z \in Nat : y < z => <<y, z>> \in R
  BY DEF OpToRel
<1>5. x - 1 \in Nat /\ x - 1 < x
  OBVIOUS
<1>6. x - 1 \in S
  BY <1>3, <1>4, <1>5
<1> QED
  BY <1>5, <1>6

Picked(s) == CHOOSE x \in s : TRUE

\* A set P of subsets of a finite S that holds the empty set, and every set
\* that it holds without one element, holds every subset of S.
LEMMA SubsetInduction ==
  ASSUME NEW S, IsFiniteSet(S), NEW P, {} \in P,
         \A s \in SUBSET S : s # {} /\ s \ {Picked(s)} \in P => s \in P
  PROVE  SUBSET S \subseteq P
<1> DEFINE N == {n \in Nat : \A s \in SUBSET S : Cardinality(s) <= n => s \in P}
<1>1. \A s \in SUBSET S : IsFiniteSet(s) /\ Cardinality(s) \in Nat
  BY FS_Subset, FS_CardinalityType
<1>2. 0 \in N
  BY <1>1, FS_EmptySet
<1>3. ASSUME NEW n \in Nat, n \in N
      PROVE  n + 1 \in N
  <2> SUFFICES ASSUME NEW s \in SUBSET S, Cardinality(s) <= n + 1
               PROVE  s \in P
    OBVIOUS
  <2> SUFFICES ASSUME s # {}
               PROVE  s \in P
    OBVIOUS
  <2>1. Picked(s) \in s
    BY DEF Picked
  <2>2. Cardinality(s \ {Picked(s)}) = Cardinality(s) - 1
    BY <1>1, <2>1, FS_RemoveElement
  <2>3. Cardinality(s \ {Picked(s)}) <= n
    BY <1>1, <2>2
  <2>4. s \ {Picked(s)} \in P
    BY <1>3, <2>3
  <2> QED
    BY <2>4
<1>4. Nat \subseteq N
  <2> HIDE DEF N
  <2> QED
    BY <1>2, <1>3, Induction
<1> QED
  BY <1>1, <1>4

----------------------------------------------------------------------------
(* Sums.  SumOf is what the modules write as FoldFunction(+, 0, f): a       *)
(* recursion over the subsets of the domain, of which SumsExist shows that  *)
(* it defines something.                                                    *)

SumOf(f) == FoldFunction(+, 0, f)

IsSum(g, f, D) ==
  g = [s \in D |-> IF s = {} THEN 0 ELSE f[Picked(s)] + g[s \ {Picked(s)}]]

LEMMA SumsExist ==
  ASSUME NEW S, IsFiniteSet(S), NEW f
  PROVE  \E g : IsSum(g, f, SUBSET S)
<1> DEFINE Small(n) == {s \in SUBSET S : Cardinality(s) <= n}
           N == {n \in Nat : \E g : IsSum(g, f, Small(n))}
<1>1. \A s \in SUBSET S : IsFiniteSet(s) /\ Cardinality(s) \in Nat
  BY FS_Subset, FS_CardinalityType
<1>2. 0 \in N
  <2>1. \A s \in Small(0) : s = {}
    BY <1>1, FS_EmptySet
  <2>2. IsSum([s \in Small(0) |-> 0], f, Small(0))
    BY <2>1 DEF IsSum
  <2> QED
    BY <2>2
<1>3. ASSUME NEW n \in Nat, n \in N
      PROVE  n + 1 \in N
  <2>1. PICK g : IsSum(g, f, Small(n))
    BY <1>3
  <2> DEFINE h == [s \in Small(n + 1) |->
                     IF s = {} THEN 0 ELSE f[Picked(s)] + g[s \ {Picked(s)}]]
  <2>2. ASSUME NEW s \in Small(n + 1), s # {}
        PROVE  s \ {Picked(s)} \in Small(n) /\ s \ {Picked(s)} \in Small(n + 1)
    <3>1. Picked(s) \in s
      BY <2>2 DEF Picked
    <3>2. Cardinality(s \ {Picked(s)}) = Cardinality(s) - 1
      BY <1>1, <3>1, FS_RemoveElement
    <3>3. Cardinality(s) \in Nat /\ Cardinality(s) <= n + 1
      BY <1>1
    <3> QED
      BY <3>2, <3>3
  <2>3. \A s \in Small(n) : h[s] = g[s]
    <3>1. \A s \in Small(n) : s \in Small(n + 1)
      BY <1>1
    <3> QED
      BY <2>1, <3>1 DEF IsSum
  <2>4. IsSum(h, f, Small(n + 1))
    <3> SUFFICES ASSUME NEW s \in Small(n + 1)
                 PROVE  h[s] = IF s = {} THEN 0 ELSE f[Picked(s)] + h[s \ {Picked(s)}]
      BY DEF IsSum
    <3> QED
      BY <2>2, <2>3
  <2> QED
    BY <2>4
<1>4. Nat \subseteq N
  <2> HIDE DEF N
  <2> QED BY <1>2, <1>3, Induction
<1>5. Small(Cardinality(S)) = SUBSET S
  BY FS_Subset
<1> QED
  BY <1>4, <1>5, FS_CardinalityType

\* the sum is what some family of partial sums says of the whole domain
LEMMA SumUnfolds ==
  ASSUME NEW S, IsFiniteSet(S), NEW f, DOMAIN f = S
  PROVE  \E g : IsSum(g, f, SUBSET S) /\ SumOf(f) = g[S]
<1> DEFINE it == CHOOSE g : IsSum(g, f, SUBSET S)
<1>1. IsSum(it, f, SUBSET S)
  BY SumsExist
<1>2. SumOf(f) = it[S]
  BY DEF SumOf, FoldFunction, FoldFunctionOnSet, MapThenFoldSet, IsSum, Picked
<1> QED
  BY <1>1, <1>2

\* The sum of naturals is a natural.
LEMMA SumNat ==
  ASSUME NEW S, IsFiniteSet(S), NEW f \in [S -> Nat]
  PROVE  SumOf(f) \in Nat
<1>1. PICK g : IsSum(g, f, SUBSET S) /\ SumOf(f) = g[S]
  BY SumUnfolds
<1> DEFINE P == {s \in SUBSET S : g[s] \in Nat}
<1>2. {} \in P
  BY <1>1 DEF IsSum
<1>3. ASSUME NEW s \in SUBSET S, s # {}, s \ {Picked(s)} \in P
      PROVE  s \in P
  <2>1. g[s] = f[Picked(s)] + g[s \ {Picked(s)}] /\ Picked(s) \in S
    BY <1>1, <1>3 DEF IsSum, Picked
  <2> QED
    BY <1>3, <2>1
<1>4. SUBSET S \subseteq P
  <2> HIDE DEF P
  <2> QED
    BY <1>2, <1>3, SubsetInduction
<1> QED
  BY <1>1, <1>4

\* Replacing one number replaces it in the sum.
LEMMA SumReplaced ==
  ASSUME NEW S, IsFiniteSet(S), NEW f \in [S -> Nat], NEW p \in S, NEW v \in Nat
  PROVE  SumOf([f EXCEPT ![p] = v]) = SumOf(f) - f[p] + v
<1> DEFINE e == [f EXCEPT ![p] = v]
<1>1. PICK g : IsSum(g, f, SUBSET S) /\ SumOf(f) = g[S]
  BY SumUnfolds
<1>2. PICK h : IsSum(h, e, SUBSET S) /\ SumOf(e) = h[S]
  BY SumUnfolds
<1> DEFINE P == {s \in SUBSET S : /\ g[s] \in Nat
                                  /\ h[s] = IF p \in s THEN g[s] - f[p] + v ELSE g[s]}
<1>3. {} \in P
  BY <1>1, <1>2 DEF IsSum
<1>4. ASSUME NEW s \in SUBSET S, s # {}, s \ {Picked(s)} \in P
      PROVE  s \in P
  <2>1. g[s] = f[Picked(s)] + g[s \ {Picked(s)}] /\ Picked(s) \in s
    BY <1>1, <1>4 DEF IsSum, Picked
  <2>2. h[s] = e[Picked(s)] + h[s \ {Picked(s)}]
    BY <1>2, <1>4 DEF IsSum
  <2>3. e[Picked(s)] = IF Picked(s) = p THEN v ELSE f[Picked(s)]
    BY <2>1
  <2>4. f[Picked(s)] \in Nat /\ f[p] \in Nat
    BY <2>1
  <2>5. CASE Picked(s) = p
    BY <1>4, <2>1, <2>2, <2>3, <2>4, <2>5
  <2>6. CASE Picked(s) # p
    BY <1>4, <2>1, <2>2, <2>3, <2>4, <2>6
  <2> QED
    BY <2>5, <2>6
<1>5. SUBSET S \subseteq P
  <2> HIDE DEF P
  <2> QED
    BY <1>3, <1>4, SubsetInduction
<1> QED
  BY <1>1, <1>2, <1>5

\* A sum of zeros is zero.
LEMMA SumOfZeros ==
  ASSUME NEW S, IsFiniteSet(S)
  PROVE  SumOf([x \in S |-> 0]) = 0
<1> DEFINE f == [x \in S |-> 0]
<1>1. PICK g : IsSum(g, f, SUBSET S) /\ SumOf(f) = g[S]
  BY SumUnfolds
<1> DEFINE P == {s \in SUBSET S : g[s] = 0}
<1>2. {} \in P
  BY <1>1 DEF IsSum
<1>3. ASSUME NEW s \in SUBSET S, s # {}, s \ {Picked(s)} \in P
      PROVE  s \in P
  <2>1. g[s] = f[Picked(s)] + g[s \ {Picked(s)}] /\ Picked(s) \in S
    BY <1>1, <1>3 DEF IsSum, Picked
  <2> QED
    BY <1>3, <2>1
<1>4. SUBSET S \subseteq P
  <2> HIDE DEF P
  <2> QED
    BY <1>2, <1>3, SubsetInduction
<1> QED
  BY <1>1, <1>4

\* No number exceeds the sum, and no two of them together do.
LEMMA PartsWithinSum ==
  ASSUME NEW S, IsFiniteSet(S), NEW f \in [S -> Nat], NEW p \in S
  PROVE  /\ f[p] <= SumOf(f)
         /\ \A q \in S \ {p} : f[p] + f[q] <= SumOf(f)
<1> DEFINE e == [f EXCEPT ![p] = 0]
<1>1. e \in [S -> Nat] /\ f[p] \in Nat
  OBVIOUS
<1>2. SumOf(e) = SumOf(f) - f[p] + 0
  <2>1. 0 \in Nat
    OBVIOUS
  <2> QED
    BY <2>1, SumReplaced
<1>3. SumOf(e) \in Nat /\ SumOf(f) \in Nat
  BY <1>1, SumNat
<1>4. ASSUME NEW q \in S \ {p}
      PROVE  f[q] <= SumOf(e)
  <2> DEFINE d == [e EXCEPT ![q] = 0]
  <2>1. d \in [S -> Nat] /\ e[q] = f[q] /\ f[q] \in Nat
    BY <1>1, <1>4
  <2> HIDE DEF e
  <2>2. SumOf(d) = SumOf(e) - e[q] + 0
    <3>1. 0 \in Nat /\ q \in S
      BY <1>4
    <3> QED
      BY <1>1, <3>1, SumReplaced
  <2>3. SumOf(d) \in Nat
    BY <2>1, SumNat
  <2> QED
    BY <1>3, <2>1, <2>2, <2>3
<1>5. \A q \in S \ {p} : f[q] \in Nat
  OBVIOUS
<1> HIDE DEF e
<1> QED
  BY <1>1, <1>2, <1>3, <1>4, <1>5

----------------------------------------------------------------------------
(* The square root.  Descend is a recursion over the starts of Newton's     *)
(* iteration, of which DescentExists shows that it defines something.       *)

NewtonStep(y, z) == ((y \div z) + z) \div 2

IsDescent(d, y, D) ==
  d = [z \in D |-> LET x == ((y \div z) + z) \div 2 IN IF x < z THEN d[x] ELSE z]

\* A step stays positive, and never passes below the root: (x + 1)^2 > y,
\* because the quotient and z are two factors of y.
LEMMA NewtonAbove ==
  ASSUME NEW y \in Nat, y >= 1, NEW z \in Nat \ {0}, y < (z + 1) * (z + 1)
  PROVE  LET x == NewtonStep(y, z)
         IN  x \in Nat /\ y < (x + 1) * (x + 1) /\ x >= 1
<1> DEFINE q == y \div z
           x == NewtonStep(y, z)
<1>1. q \in Nat /\ z * q <= y /\ y < z * q + z
  BY DivFloor
<1>2. x \in Nat /\ 2 * x <= q + z /\ q + z < 2 * x + 2
  <2> HIDE DEF q
  <2>1. (q + z) \div 2 \in Nat /\ 2 * ((q + z) \div 2) <= q + z /\ q + z < 2 * ((q + z) \div 2) + 2
    BY <1>1
  <2> QED BY <2>1 DEF NewtonStep, q
<1> HIDE DEF q, x
<1>3. y < (x + 1) * (x + 1)
  <2> DEFINE s == q + 1 + z
             b == q + 1
  <2>1. y < z * b
    BY <1>1
  <2>2. s <= 2 * (x + 1)
    BY <1>1, <1>2
  <2>3. 4 * (z * b) <= s * s
    <3>1. (b - z) * (b - z) >= 0
      BY <1>1
    <3>2. s * s = (b - z) * (b - z) + 4 * (z * b)
      BY <1>1
    <3> QED
      BY <1>1, <3>1, <3>2
  <2>4. s * s <= (2 * (x + 1)) * (2 * (x + 1))
    <3>1. s \in Nat /\ 2 * (x + 1) \in Nat
      BY <1>1, <1>2
    <3> HIDE DEF s
    <3>2. s * s <= (2 * (x + 1)) * s
      BY <2>2, <3>1, MulMonotone
    <3>3. s * (2 * (x + 1)) <= (2 * (x + 1)) * (2 * (x + 1))
      BY <2>2, <3>1, MulMonotone
    <3> QED BY <3>1, <3>2, <3>3
  <2>5. (2 * (x + 1)) * (2 * (x + 1)) = 4 * ((x + 1) * (x + 1))
    BY <1>2
  <2> QED
    BY <1>1, <1>2, <2>1, <2>3, <2>4, <2>5
<1>4. x >= 1
  <2> SUFFICES ASSUME x = 0 PROVE FALSE
    BY <1>2
  <2> QED BY <1>3
<1> QED
  BY <1>2, <1>3, <1>4 DEF x

\* Where a step no longer decreases, the root is reached.
LEMMA NewtonStops ==
  ASSUME NEW y \in Nat, NEW z \in Nat \ {0}, ~(NewtonStep(y, z) < z)
  PROVE  z * z <= y
<1> DEFINE q == y \div z
<1>1. q \in Nat /\ z * q <= y
  BY DivFloor
<1>2. q >= z
  <2> HIDE DEF q
  <2>1. 2 * ((q + z) \div 2) <= q + z /\ (q + z) \div 2 \in Nat
    BY <1>1
  <2>2. (q + z) \div 2 >= z
    BY <2>1 DEF NewtonStep, q
  <2> QED BY <1>1, <2>1, <2>2
<1> HIDE DEF q
<1>3. z * z <= q * z
  BY <1>1, <1>2, MulMonotone
<1> QED
  BY <1>1, <1>3

\* A step from at most y stays positive.
LEMMA NewtonPositive ==
  ASSUME NEW y \in Nat, NEW z \in 1 .. y
  PROVE  NewtonStep(y, z) \in Nat \ {0}
<1>1. y \div z >= 1 /\ y \div z \in Nat
  BY DivAtLeast, DivFloor
<1> QED
  BY <1>1 DEF NewtonStep

\* The recursion is well-founded: a step that decreases stays in the domain.
LEMMA DescentExists ==
  ASSUME NEW y \in Nat, NEW m \in Nat, m <= y
  PROVE  \E d : IsDescent(d, y, 1 .. m)
<1> DEFINE N == {n \in Nat : n <= m => \E d : IsDescent(d, y, 1 .. n)}
<1>1. 0 \in N
  <2>1. IsDescent([z \in 1 .. 0 |-> z], y, 1 .. 0)
    BY DEF IsDescent
  <2> QED
    BY <2>1
<1>2. ASSUME NEW n \in Nat, n \in N
      PROVE  n + 1 \in N
  <2> SUFFICES ASSUME n + 1 <= m
               PROVE  \E d : IsDescent(d, y, 1 .. n + 1)
    OBVIOUS
  <2>1. PICK d : IsDescent(d, y, 1 .. n)
    BY <1>2
  <2> DEFINE h == [z \in 1 .. n + 1 |->
                     IF NewtonStep(y, z) < z THEN d[NewtonStep(y, z)] ELSE z]
  <2>2. ASSUME NEW z \in 1 .. n + 1, NewtonStep(y, z) < z
        PROVE  NewtonStep(y, z) \in 1 .. n /\ NewtonStep(y, z) \in 1 .. n + 1
    <3>1. NewtonStep(y, z) \in Nat \ {0}
      BY NewtonPositive
    <3> QED
      BY <2>2, <3>1
  <2>3. \A z \in 1 .. n : h[z] = d[z]
    <3>1. \A z \in 1 .. n : z \in 1 .. n + 1
      OBVIOUS
    <3> QED
      BY <2>1, <3>1 DEF IsDescent, NewtonStep
  <2>4. \A z \in 1 .. n + 1 :
          h[z] = IF NewtonStep(y, z) < z THEN h[NewtonStep(y, z)] ELSE z
    BY <2>2, <2>3
  <2>5. IsDescent(h, y, 1 .. n + 1)
    <3> HIDE DEF h
    <3>1. h = [z \in 1 .. n + 1 |-> h[z]]
      BY DEF h
    <3> QED
      BY <2>4, <3>1 DEF IsDescent, NewtonStep
  <2> QED
    BY <2>5
<1>3. Nat \subseteq N
  <2> HIDE DEF N
  <2> QED
    BY <1>1, <1>2, Induction
<1> QED
  BY <1>3

\* From a start above the root, the iteration ends at the root rounded down.
LEMMA DescentEndsAtRoot ==
  ASSUME NEW y \in Nat, y >= 1, NEW m \in Nat, m <= y, NEW d, IsDescent(d, y, 1 .. m),
         NEW z \in 1 .. m, y < (z + 1) * (z + 1)
  PROVE  d[z] \in Nat /\ d[z] * d[z] <= y /\ y < (d[z] + 1) * (d[z] + 1)
<1> DEFINE Root(r) == r \in Nat /\ r * r <= y /\ y < (r + 1) * (r + 1)
           N == {n \in Nat : \A w \in 1 .. m : w <= n /\ y < (w + 1) * (w + 1) => Root(d[w])}
<1>1. 0 \in N
  OBVIOUS
<1>2. ASSUME NEW n \in Nat, n \in N
      PROVE  n + 1 \in N
  <2> SUFFICES ASSUME NEW w \in 1 .. m, w <= n + 1, y < (w + 1) * (w + 1)
               PROVE  Root(d[w])
    OBVIOUS
  <2> DEFINE x == NewtonStep(y, w)
  <2>1. x \in Nat /\ y < (x + 1) * (x + 1) /\ x >= 1
    BY NewtonAbove
  <2>2. d[w] = IF x < w THEN d[x] ELSE w
    BY DEF IsDescent, NewtonStep
  <2>3. CASE x < w
    <3> HIDE DEF x
    <3>1. x \in 1 .. m /\ x <= n
      BY <2>1, <2>3
    <3>2. Root(d[x])
      BY <1>2, <2>1, <3>1
    <3> QED
      BY <2>2, <2>3, <3>2
  <2>4. CASE ~(x < w)
    <3>1. w * w <= y
      BY <2>4, NewtonStops
    <3> QED
      BY <2>2, <2>4, <3>1
  <2> QED
    BY <2>3, <2>4
<1>3. Nat \subseteq N
  <2> HIDE DEF N
  <2> QED
    BY <1>1, <1>2, Induction
<1>4. z \in N
  BY <1>3
<1> QED
  BY <1>4

\* The square root is the integer one, rounded down, of every number.
THEOREM SqrtIsFloor ==
  ASSUME NEW y \in Nat
  PROVE  /\ Sqrt(y) \in Nat
         /\ Sqrt(y) * Sqrt(y) <= y
         /\ y < (Sqrt(y) + 1) * (Sqrt(y) + 1)
<1>1. CASE y <= 3
  <2>1. Sqrt(y) = Lesser(y, 1)
    BY <1>1 DEF Sqrt
  <2>2. y = 0 \/ y = 1 \/ y = 2 \/ y = 3
    BY <1>1
  <2> QED
    BY <2>1, <2>2 DEF Lesser
<1>2. CASE y > 3
  <2> DEFINE m == (y \div 2) + 1
             d == CHOOSE f : IsDescent(f, y, 1 .. m)
  <2>1. m \in 1 .. y /\ y < 2 * m
    BY <1>2
  <2>2. IsDescent(d, y, 1 .. m)
    <3>1. \E f : IsDescent(f, y, 1 .. m)
      BY <2>1, DescentExists
    <3> QED
      BY <3>1
  <2>3. Sqrt(y) = d[m]
    BY <1>2 DEF Sqrt, IsDescent
  <2>4. y < (m + 1) * (m + 1)
    <3> HIDE DEF m
    <3>1. (m + 1) * (m + 1) = m * m + 2 * m + 1 /\ m * m >= 0
      BY <2>1
    <3> QED
      BY <2>1, <3>1
  <2> HIDE DEF m, d
  <2>5. d[m] \in Nat /\ d[m] * d[m] <= y /\ y < (d[m] + 1) * (d[m] + 1)
    BY <1>2, <2>1, <2>2, <2>4, DescentEndsAtRoot
  <2> QED
    BY <2>3, <2>5
<1> QED
  BY <1>1, <1>2

\* The root of a lesser number is no greater.
LEMMA SqrtMonotone ==
  ASSUME NEW a \in Nat, NEW b \in Nat, a <= b
  PROVE  Sqrt(a) <= Sqrt(b)
<1> DEFINE r == Sqrt(a)
           s == Sqrt(b)
<1>1. r \in Nat /\ s \in Nat /\ r * r <= a /\ b < (s + 1) * (s + 1)
  BY SqrtIsFloor
<1> HIDE DEF r, s
<1>2. SUFFICES ASSUME s + 1 <= r PROVE FALSE
  BY <1>1 DEF r, s
<1>3. (s + 1) * (s + 1) <= r * (s + 1) /\ (s + 1) * r <= r * r
  BY <1>1, <1>2, MulMonotone
<1> QED
  BY <1>1, <1>3

\* squares in order have their roots in order
LEMMA RootsInOrder ==
  ASSUME NEW r \in Nat, NEW s \in Nat, r * r < s * s
  PROVE  r < s
<1> SUFFICES ASSUME s <= r PROVE FALSE
  OBVIOUS
<1>1. s * s <= r * s /\ s * r <= r * r
  BY MulMonotone
<1> QED
  BY <1>1, MulNat

===============================================================================
