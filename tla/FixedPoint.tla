----------------------------- MODULE FixedPoint -----------------------------
(***************************************************************************)
(* The integer arithmetic the program is built on: utils/math.rs.          *)
(*                                                                         *)
(* The widths and scales of the Rust code are parameters.  A u64 is a      *)
(* number of U64, a u128 a number of U128; a product of two u64 always     *)
(* fits a u128, as it does in the program, so only products that involve   *)
(* a u128 need an overflow test (MulFits).                                 *)
(***************************************************************************)
EXTENDS Integers

CONSTANTS
  MaxU64,                       \* u64::MAX
  MaxU128,                      \* u128::MAX
  NAD,                          \* fixed-point one
  NATURAL_LOG_OF_TWO_NAD,       \* ln 2, scaled by NAD
  TARGET_MS_PER_SLOT            \* length of a slot

ASSUME WidthAssumption ==
  /\ MaxU64 \in Nat \ {0}
  /\ MaxU128 \in Nat \ {0}
  /\ MaxU64 * MaxU64 <= MaxU128

ASSUME ScaleAssumption ==
  /\ NAD \in Nat \ {0}
  /\ NATURAL_LOG_OF_TWO_NAD \in Nat
  /\ TARGET_MS_PER_SLOT \in Nat \ {0}

U64  == 0 .. MaxU64
U128 == 0 .. MaxU128

----------------------------------------------------------------------------
(* Rounding and saturation. *)

Lesser(a, b) == IF a < b THEN a ELSE b

\* ceil_div; a zero divisor is an error of the caller's guard
CeilDiv(a, b) == (a + b - 1) \div b

SatSub(a, b)  == IF a < b THEN 0 ELSE a - b            \* saturating_sub
SatAdd(a, b)  == Lesser(a + b, MaxU64)                 \* u64::saturating_add
MulFits(a, b) == b > 0 => a <= MaxU128 \div b         \* u128::checked_mul is Some

CastU64(a) == a % (MaxU64 + 1)                         \* `as u64`

----------------------------------------------------------------------------
(* Integer square root: Newton's iteration from y/2 + 1, stopped when it no *)
(* longer decreases.                                                        *)
Sqrt(y) ==
  LET Descend[z \in 1 .. (y \div 2) + 1] ==
        LET x == ((y \div z) + z) \div 2
        IN  IF x < z THEN Descend[x] ELSE z
  IN  IF y > 3 THEN Descend[(y \div 2) + 1] ELSE Lesser(y, 1)

----------------------------------------------------------------------------
(* e^x in NAD scale: range reduction by ten, five Taylor terms, tenth power *)
(* by ten truncating multiplications, reciprocal for a negative argument.   *)

TaylorTerm(term, i, x) == IF MulFits(term, x) THEN (term * x) \div (i * NAD) ELSE 0

TaylorSum(x) ==
  LET t1 == TaylorTerm(NAD, 1, x)
      t2 == TaylorTerm(t1, 2, x)
      t3 == TaylorTerm(t2, 3, x)
      t4 == TaylorTerm(t3, 4, x)
      t5 == TaylorTerm(t4, 5, x)
  IN  NAD + t1 + t2 + t3 + t4 + t5

ScaledMul(r, s) == IF MulFits(r, s) THEN (r * s) \div NAD ELSE MaxU128

TenthPower(s) ==
  LET r2 == ScaledMul(ScaledMul(NAD, s), s)
      r4 == ScaledMul(ScaledMul(r2, s), s)
      r6 == ScaledMul(ScaledMul(r4, s), s)
      r8 == ScaledMul(ScaledMul(r6, s), s)
  IN  ScaledMul(ScaledMul(r8, s), s)

\* taylor_exp(-x)
ExpOfMinus(x) ==
  LET result == TenthPower(TaylorSum(x \div 10))
  IN  CastU64(IF x > 0 THEN (NAD * NAD) \div result ELSE result)

\* slots_to_ms
SlotsToMs(start, end) == (end - start) * TARGET_MS_PER_SLOT

\* compute_ema, dt milliseconds after the last one
ComputeEma(last, dt, input, half_life) ==
  LET alpha == ExpOfMinus((dt * NATURAL_LOG_OF_TWO_NAD) \div half_life)
  IN  IF dt > 0 /\ half_life > 0
      THEN CastU64((input * (NAD - alpha) + last * alpha) \div NAD)
      ELSE last

=============================================================================
