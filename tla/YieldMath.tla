----------------------------- MODULE YieldMath -----------------------------
(***************************************************************************)
(* The fixed-point arithmetic of exponent_core: the Number type of         *)
(* libraries/precise_number (a scaled integer, DENOM = 10^12 in the code,  *)
(* the constant ONE here) and the yield formulas of state/vault.rs,        *)
(* state/yield_token_position.rs, utils/math.rs and utils/sy_cpi.rs.       *)
(*                                                                         *)
(* A Number is represented by its raw scaled value, a natural number.      *)
(* Token amounts (u64) are plain naturals.  A division by a zero Number    *)
(* panics in the code; callers guard it.                                   *)
(***************************************************************************)
EXTENDS Naturals

CONSTANT ONE    \* Number::DENOM, the raw value of 1.0

ASSUME OneAssumption == ONE \in Nat \ {0}

\* PreciseNumber rounds a product or a quotient by adding half a unit of the
\* scale before it divides.
RoundingCorrection == ONE \div 2

FromNatural(n) == n * ONE

NumMul(a, b) == (a * b + RoundingCorrection) \div ONE

NumDiv(a, b) == (a * ONE + RoundingCorrection) \div b

\* Number::from_ratio: a zero denominator yields zero instead of a panic.
FromRatio(num, den) ==
    IF den = 0 THEN 0 ELSE NumDiv(FromNatural(num), FromNatural(den))

Floor(a) == a \div ONE

CeilDiv(a, b) == (a + b - 1) \div b

Larger(a, b)  == IF a >= b THEN a ELSE b
Smaller(a, b) == IF a <= b THEN a ELSE b

-----------------------------------------------------------------------------
(* Conversions between SY and the par value of PT and YT ("py").           *)

SyToPy(rate, sy) == Floor(NumMul(FromNatural(sy), rate))

PyToSy(rate, py) == Floor(NumDiv(FromNatural(py), rate))

PyToSyCeil(rate, py) == CeilDiv(NumDiv(FromNatural(py), rate), ONE)

-----------------------------------------------------------------------------
(* Yield.                                                                  *)

\* SY that yt_balance earns while the rate moves from last to final; nothing
\* on a falling rate, on no balance, and on a position that never earned.
CalcEarnedSy(yt, last, final) ==
    IF last >= final \/ yt = 0 \/ last = 0
    THEN 0
    ELSE Floor(NumMul(NumDiv(ONE, last) - NumDiv(ONE, final), FromNatural(yt)))

\* Mutant: SY earned at the final rate is paid out at the current one.
UnscaledSy(sy, final, current) == sy

\* After maturity the rate keeps moving, and SY earned at the final rate is
\* worth proportionally more of the base asset.
ScaleSyToCurrentRate(sy, final, current) ==
    IF current <= final
    THEN sy
    ELSE Floor(NumMul(NumDiv(final, current), FromNatural(sy)))

\* Mutant: the appreciation is converted to SY at the old rate.
CalcSyAppreciationAtLast(last, current, sy) ==
    IF current <= last \/ last = 0
    THEN 0
    ELSE Floor(NumDiv(NumMul(current - last, FromNatural(sy)), last))

\* SY that the appreciation of sy from rate last to rate current represents.
CalcSyAppreciation(last, current, sy) ==
    IF current <= last
    THEN 0
    ELSE Floor(NumDiv(NumMul(current - last, FromNatural(sy)), current))

\* Emission earned by share shares as the index moves from last to current.
CalcShareValue(last, current, share) ==
    IF current <= last THEN 0 ELSE Floor(NumMul(current - last, FromNatural(share)))

\* SY set aside for PT: its par value at the rate, or what is left if less.
SyBackingForPt(rate, ptSupply, activeSy) ==
    IF rate = 0 THEN 0 ELSE Smaller(PyToSy(rate, ptSupply), activeSy)

\* SY that py of the ptSupply PT redeem when syForPt is set aside for them.
RedeemPt(py, syForPt, ptSupply) ==
    Floor(NumMul(FromNatural(py), FromRatio(syForPt, ptSupply)))

\* The treasury's part of a claim, rounded up.
CeilFee(amount, bps) == (amount * bps + 9999) \div 10000
=============================================================================
