-------------------------- MODULE VaultGuarantees --------------------------
(***************************************************************************)
(* What no step of Vault does, and what the holder of PT can count on      *)
(* after maturity, from the inductive invariant.                           *)
(***************************************************************************)
EXTENDS VaultProofs

-----------------------------------------------------------------------------
(* Redemption against the exact product.                                   *)

\* However the redemption rate was rounded, redeeming PT that exist takes no
\* more SY than is set aside for PT (pt_redemption_rate of state/vault.rs).
THEOREM RedemptionWithinBacking ==
    ASSUME NEW py \in Nat, NEW syForPt \in Nat, NEW ptSupply \in Nat,
           py <= ptSupply
    PROVE  RedeemPt(py, syForPt, ptSupply) <= syForPt
  <1>1. CASE ptSupply = 0
    <2>1. FromRatio(syForPt, ptSupply) = 0 /\ 0 \in Nat
      BY <1>1 DEF FromRatio
    <2>2. NumMul(FromNatural(py), 0) = py * 0
      BY ScaledMul
    <2>3. RedeemPt(py, syForPt, ptSupply) = Floor(0)
      BY <2>1, <2>2, SMT DEF RedeemPt
    <2> QED
      BY <2>3, OneAssumption, SMT DEF Floor
  <1>2. CASE ptSupply > 0
    <2> DEFINE den  == FromNatural(ptSupply)
               x    == FromNatural(syForPt) * ONE + RoundingCorrection
               rate == NumDiv(FromNatural(syForPt), den)
    <2>1. den \in Nat \ {0} /\ FromNatural(syForPt) \in Nat
      BY <1>2, NaturalType
    <2>2. x \in Nat /\ rate = x \div den
      BY <2>1, CorrectionType, OneAssumption, SMT DEF NumDiv
    <2>3. rate \in Nat /\ den * rate <= x
      BY <2>1, <2>2, DivFacts
    <2>4. ONE * (ptSupply * rate) <= x
      BY <2>3, OneAssumption, SMT DEF FromNatural
    <2>5. ONE * (py * rate) <= x /\ py * rate \in Nat
      <3>1. py * rate <= ptSupply * rate /\ py * rate \in Nat
                                         /\ ptSupply * rate \in Nat
        <4>1. rate * py <= rate * ptSupply
          BY <2>3, MulMonotone
        <4> QED
          BY <4>1, <2>3, SMT
      <3>2. ONE * (py * rate) <= ONE * (ptSupply * rate)
        BY <3>1, OneAssumption, MulMonotone
      <3>3. ONE * (py * rate) \in Nat /\ ONE * (ptSupply * rate) \in Nat
        BY <3>1, OneAssumption, SMT
      <3> QED
        BY <3>1, <3>2, <3>3, <2>4, <2>2
    <2>6. py * rate < ONE * (syForPt + 1)
      <3>1. SUFFICES ASSUME ONE * (syForPt + 1) <= py * rate PROVE FALSE
        BY <2>5, OneAssumption, SMT
      <3>2. ONE * (syForPt + 1) \in Nat
        BY OneAssumption, SMT
      <3>3. ONE * (ONE * (syForPt + 1)) <= ONE * (py * rate)
        BY <2>5, <3>1, <3>2, OneAssumption, MulMonotone
      <3>4. ONE * (ONE * (syForPt + 1)) = x - RoundingCorrection + ONE * ONE
        BY CorrectionType, OneAssumption, SMT DEF FromNatural
      <3>5. ONE * ONE >= ONE
        BY OneAssumption, SMT
      <3>6. ONE * (py * rate) \in Nat /\ ONE * ONE \in Nat
        BY <2>5, OneAssumption, SMT
      <3> QED
        BY <2>2, <2>5, <3>3, <3>4, <3>5, <3>6, CorrectionType, OneAssumption
    <2>7. Floor(py * rate) <= syForPt
      BY <2>5, <2>6, OneAssumption, DivBelow DEF Floor
    <2>8. RedeemPt(py, syForPt, ptSupply) = Floor(py * rate)
      <3>1. FromRatio(syForPt, ptSupply) = rate
        BY <1>2 DEF FromRatio
      <3>2. NumMul(FromNatural(py), rate) = py * rate
        BY <2>3, ScaledMul
      <3> QED
        BY <3>1, <3>2 DEF RedeemPt
    <2> QED
      BY <2>7, <2>8
  <1> QED
    BY <1>1, <1>2

\* Redeeming nothing pays nothing.
LEMMA RedeemNothing ==
    ASSUME NEW syForPt \in Nat, NEW ptSupply \in Nat
    PROVE  RedeemPt(0, syForPt, ptSupply) = 0
  <1> DEFINE rate == FromRatio(syForPt, ptSupply)
  <1>1. rate \in Nat
    BY NaturalType, DivType DEF FromRatio
  <1>2. NumMul(FromNatural(0), rate) = 0 * rate
    BY <1>1, ScaledMul
  <1> QED
    BY <1>1, <1>2, OneAssumption, SMT DEF RedeemPt, Floor

-----------------------------------------------------------------------------
(* What rounding can lose: each conversion against the exact product.      *)

LEMMA MulCancel ==
    ASSUME NEW a \in Nat, NEW b \in Nat, NEW c \in Nat \ {0}, c * a <= c * b
    PROVE  a <= b
  <1>1. SUFFICES ASSUME b + 1 <= a PROVE FALSE
    OBVIOUS
  <1>2. c * (b + 1) <= c * a
    BY <1>1, MulMonotone
  <1>3. c * (b + 1) = c * b + c /\ c * b \in Nat /\ c * a \in Nat
    BY SMT
  <1> QED
    BY <1>2, <1>3

\* Half a unit of the scale does not carry.
LEMMA RoundingIsLess ==
    ASSUME NEW a \in Nat, NEW b \in Nat, ONE * a <= ONE * b + RoundingCorrection
    PROVE  a <= b
  <1>1. SUFFICES ASSUME b + 1 <= a PROVE FALSE
    OBVIOUS
  <1>2. ONE * (b + 1) <= ONE * a
    BY <1>1, OneAssumption, MulMonotone
  <1>3. ONE * (b + 1) = ONE * b + ONE /\ ONE * b \in Nat /\ ONE * a \in Nat
    BY OneAssumption, SMT
  <1> QED
    BY <1>2, <1>3, CorrectionType, OneAssumption

LEMMA FloorFacts ==
    ASSUME NEW a \in Nat
    PROVE  Floor(a) \in Nat /\ Floor(a) * ONE <= a
  <1>1. Floor(a) \in Nat /\ ONE * Floor(a) <= a
    BY OneAssumption, DivFacts DEF Floor
  <1> QED
    BY <1>1, OneAssumption, SMT

LEMMA NumDivBounds ==
    ASSUME NEW a \in Nat, NEW b \in Nat \ {0}
    PROVE  /\ NumDiv(a, b) \in Nat
           /\ NumDiv(a, b) * b <= a * ONE + RoundingCorrection
           /\ a * ONE <= (NumDiv(a, b) + 1) * b
  <1> DEFINE x == a * ONE + RoundingCorrection
             q == NumDiv(a, b)
  <1>1. x \in Nat /\ a * ONE \in Nat /\ a * ONE <= x
    BY CorrectionType, OneAssumption, SMT
  <1>2. q \in Nat /\ b * q <= x /\ x < b * (q + 1)
    BY <1>1, DivFacts DEF NumDiv
  <1>3. b * q = q * b /\ b * (q + 1) = (q + 1) * b /\ (q + 1) * b \in Nat
    BY <1>2, SMT
  <1> QED
    BY <1>1, <1>2, <1>3

\* A quotient of a scaled amount, floored, is no more than the exact one.
LEMMA FloorOfQuotient ==
    ASSUME NEW n \in Nat, NEW rate \in Nat \ {0}
    PROVE  /\ Floor(NumDiv(n, rate)) \in Nat
           /\ Floor(NumDiv(n, rate)) * rate <= n
  <1> DEFINE q == NumDiv(n, rate)
             x == Floor(q)
  <1>1. q \in Nat /\ q * rate <= n * ONE + RoundingCorrection
    BY NumDivBounds
  <1>2. x \in Nat /\ x * ONE <= q
    BY <1>1, FloorFacts
  <1> HIDE DEF q, x
  <1>3. rate * (x * ONE) <= rate * q
    <2>1. x * ONE \in Nat
      BY <1>2, OneAssumption, SMT
    <2> QED
      BY <1>1, <1>2, <2>1, MulMonotone
  <1>4. /\ rate * (x * ONE) = ONE * (x * rate) /\ x * rate \in Nat
        /\ rate * q = q * rate /\ n * ONE = ONE * n
        /\ ONE * (x * rate) \in Nat /\ q * rate \in Nat /\ ONE * n \in Nat
    BY <1>1, <1>2, OneAssumption, SMT
  <1>5. ONE * (x * rate) <= ONE * n + RoundingCorrection
    BY <1>1, <1>3, <1>4, CorrectionType
  <1> QED
    BY <1>2, <1>4, <1>5, RoundingIsLess DEF x, q

\* The SY that backs PT is worth no more than par.
LEMMA PyToSyWithinPar ==
    ASSUME NEW py \in Nat, NEW rate \in Nat \ {0}
    PROVE  /\ PyToSy(rate, py) \in Nat
           /\ PyToSy(rate, py) * rate <= py * ONE
  <1>1. py * ONE \in Nat
    BY OneAssumption, SMT
  <1> QED
    BY <1>1, FloorOfQuotient DEF PyToSy, FromNatural

\* The PT that SY mint are worth no more than the SY.
LEMMA SyToPyWithinSy ==
    ASSUME NEW amount \in Nat, NEW rate \in Nat
    PROVE  /\ SyToPy(rate, amount) \in Nat
           /\ SyToPy(rate, amount) * ONE <= amount * rate
  <1>1. amount * rate \in Nat
    BY SMT
  <1> QED
    BY <1>1, ScaledMul, FloorFacts DEF SyToPy

\* A redemption takes no more than its share of the backing.
LEMMA RedeemWithinShare ==
    ASSUME NEW py \in Nat, NEW syForPt \in Nat, NEW ptSupply \in Nat,
           py <= ptSupply, NEW rate \in Nat, syForPt * rate <= ptSupply * ONE
    PROVE  /\ RedeemPt(py, syForPt, ptSupply) \in Nat
           /\ RedeemPt(py, syForPt, ptSupply) * rate <= py * ONE
  <1> DEFINE out == RedeemPt(py, syForPt, ptSupply)
  <1>1. CASE ptSupply = 0
    <2>1. py = 0 /\ out = 0
      BY <1>1, RedeemNothing
    <2> QED
      BY <2>1, OneAssumption, SMT
  <1>2. CASE ptSupply > 0
    <2> DEFINE q == FromRatio(syForPt, ptSupply)
               den == ptSupply * ONE
               num == syForPt * ONE
    <2>1. den \in Nat \ {0} /\ num \in Nat
      BY <1>2, NaturalType DEF FromNatural
    <2>2. q = NumDiv(num, den)
      BY <1>2 DEF FromRatio, FromNatural
    <2>3. q \in Nat /\ q * den <= num * ONE + RoundingCorrection
      BY <2>1, <2>2, NumDivBounds
    <2>4. q * ptSupply <= num
      <3>1. /\ q * den = ONE * (q * ptSupply) /\ num * ONE = ONE * num
            /\ q * ptSupply \in Nat
        BY <2>1, <2>3, OneAssumption, SMT
      <3> QED
        BY <2>1, <2>3, <3>1, RoundingIsLess
    <2>5. py * q \in Nat /\ out = Floor(py * q)
      <3>1. py * q \in Nat
        BY <2>3, SMT
      <3> QED
        BY <2>3, <3>1, ScaledMul DEF RedeemPt
    <2>6. out \in Nat /\ out * ONE <= py * q
      BY <2>5, FloorFacts
    <2> HIDE DEF out, q
    <2>7. ptSupply * (out * ONE) <= ptSupply * (py * q)
      <3>1. out * ONE \in Nat
        BY <2>6, OneAssumption, SMT
      <3> QED
        BY <2>5, <2>6, <3>1, MulMonotone
    <2>8. py * (q * ptSupply) <= py * num
      <3>1. q * ptSupply \in Nat
        BY <2>3, SMT
      <3> QED
        BY <2>1, <2>4, <3>1, MulMonotone
    <2>9. ptSupply * out <= py * syForPt
      <3>1. /\ ptSupply * (out * ONE) = ONE * (ptSupply * out)
            /\ ptSupply * (py * q) = py * (q * ptSupply)
            /\ py * num = ONE * (py * syForPt)
            /\ ptSupply * out \in Nat /\ py * syForPt \in Nat
            /\ py * (q * ptSupply) \in Nat
        BY <2>3, <2>6, OneAssumption, SMT
      <3> QED
        BY <2>7, <2>8, <3>1, OneAssumption, MulCancel
    <2>10. rate * (ptSupply * out) <= py * (ptSupply * ONE)
      <3>1. /\ ptSupply * out \in Nat /\ py * syForPt \in Nat
            /\ syForPt * rate \in Nat
        BY <2>6, SMT
      <3>2. rate * (ptSupply * out) <= rate * (py * syForPt)
        BY <2>9, <3>1, MulMonotone
      <3>3. py * (syForPt * rate) <= py * (ptSupply * ONE)
        BY <2>1, <3>1, MulMonotone
      <3>4. /\ rate * (py * syForPt) = py * (syForPt * rate)
            /\ rate * (ptSupply * out) \in Nat /\ py * (syForPt * rate) \in Nat
            /\ py * (ptSupply * ONE) \in Nat
        BY <2>1, <2>6, <3>1, SMT
      <3> QED
        BY <3>2, <3>3, <3>4
    <2>11. out * rate <= py * ONE
      <3>1. /\ rate * (ptSupply * out) = ptSupply * (out * rate)
            /\ py * (ptSupply * ONE) = ptSupply * (py * ONE)
            /\ out * rate \in Nat /\ py * ONE \in Nat
        BY <2>6, OneAssumption, SMT
      <3> QED
        BY <1>2, <2>10, <3>1, MulCancel
    <2> QED
      BY <2>6, <2>11 DEF out
  <1> QED
    BY <1>1, <1>2

\* What YT earn is no more than the reciprocals say.
LEMMA EarnedWithinGain ==
    ASSUME NEW yt \in Nat, NEW last \in Nat \ {0}, NEW final \in Nat,
           last <= final
    PROVE  /\ CalcEarnedSy(yt, last, final) \in Nat
           /\ NumDiv(ONE, last) - NumDiv(ONE, final) \in Nat
           /\ CalcEarnedSy(yt, last, final) * ONE
                <= yt * (NumDiv(ONE, last) - NumDiv(ONE, final))
  <1> DEFINE gain == NumDiv(ONE, last) - NumDiv(ONE, final)
  <1>1. gain \in Nat
    <2>1. NumDiv(ONE, final) <= NumDiv(ONE, last)
      BY OneAssumption, NumDivAntitone
    <2> QED
      BY <2>1, OneAssumption, DivType
  <1>2. yt * gain \in Nat
    BY <1>1, SMT
  <1>3. CASE last >= final \/ yt = 0 \/ last = 0
    BY <1>1, <1>2, <1>3, OneAssumption, SMT DEF CalcEarnedSy
  <1>4. CASE ~(last >= final \/ yt = 0 \/ last = 0)
    <2>1. NumMul(gain, FromNatural(yt)) = yt * gain
      <3>1. NumMul(FromNatural(yt), gain) = yt * gain
        BY <1>1, ScaledMul
      <3>2. gain * FromNatural(yt) = FromNatural(yt) * gain
        BY <1>1, NaturalType, SMT
      <3> QED
        BY <3>1, <3>2 DEF NumMul
    <2>2. CalcEarnedSy(yt, last, final) = Floor(yt * gain)
      BY <1>4, <2>1 DEF CalcEarnedSy
    <2> QED
      BY <1>1, <1>2, <2>2, FloorFacts
  <1> QED
    BY <1>3, <1>4

\* Scaled to a later rate, SY keep no more than their value at the final one,
\* where the quotient of the rates is not rounded up.
LEMMA ScaledWithinValue ==
    ASSUME NEW amount \in Nat, NEW final \in Nat, NEW current \in Nat,
           final <= current,
           final < current => NumDiv(final, current) * current <= final * ONE
    PROVE  /\ ScaleSyToCurrentRate(amount, final, current) \in Nat
           /\ ScaleSyToCurrentRate(amount, final, current) * current
                <= amount * final
  <1> DEFINE out == ScaleSyToCurrentRate(amount, final, current)
  <1>1. CASE current = final
    BY <1>1, SMT DEF ScaleSyToCurrentRate
  <1>2. CASE final < current
    <2> DEFINE q == NumDiv(final, current)
    <2>1. q \in Nat /\ q * current <= final * ONE
      BY <1>2, DivType
    <2> HIDE DEF q
    <2>2. NumMul(q, FromNatural(amount)) = amount * q
      <3>1. NumMul(FromNatural(amount), q) = amount * q
        BY <2>1, ScaledMul
      <3>2. q * FromNatural(amount) = FromNatural(amount) * q
        BY <2>1, NaturalType, SMT
      <3> QED
        BY <3>1, <3>2 DEF NumMul
    <2>3. amount * q \in Nat /\ out = Floor(amount * q)
      <3>1. amount * q \in Nat
        BY <2>1, SMT
      <3>2. ~(current <= final)
        BY <1>2
      <3> QED
        BY <3>1, <3>2, <2>2 DEF ScaleSyToCurrentRate, q
    <2>4. out \in Nat /\ out * ONE <= amount * q
      BY <2>3, FloorFacts
    <2> HIDE DEF out
    <2>5. current * (out * ONE) <= current * (amount * q)
      <3>1. out * ONE \in Nat
        BY <2>4, OneAssumption, SMT
      <3> QED
        BY <2>3, <2>4, <3>1, MulMonotone
    <2>6. amount * (q * current) <= amount * (final * ONE)
      <3>1. q * current \in Nat /\ final * ONE \in Nat
        BY <2>1, OneAssumption, SMT
      <3> QED
        BY <2>1, <3>1, MulMonotone
    <2>7. /\ current * (out * ONE) = ONE * (out * current)
          /\ current * (amount * q) = amount * (q * current)
          /\ amount * (final * ONE) = ONE * (amount * final)
          /\ out * current \in Nat /\ amount * final \in Nat
          /\ amount * (q * current) \in Nat
      BY <2>1, <2>4, OneAssumption, SMT
    <2>8. out * current <= amount * final
      BY <2>5, <2>6, <2>7, OneAssumption, MulCancel
    <2> QED
      BY <2>4, <2>8 DEF out
  <1> QED
    BY <1>1, <1>2

\* The treasury's surplus is no more than what the SY appreciated by.
LEMMA SurplusWithinAppreciation ==
    ASSUME NEW last \in Nat, NEW current \in Nat, NEW amount \in Nat,
           last < current
    PROVE  /\ CalcSyAppreciation(last, current, amount) \in Nat
           /\ CalcSyAppreciation(last, current, amount) * current
                <= amount * (current - last)
  <1> DEFINE d == current - last
  <1>1. d \in Nat /\ current \in Nat \ {0} /\ amount * d \in Nat
    <2>1. d \in Nat
      OBVIOUS
    <2> QED
      BY <2>1, SMT
  <1>2. NumMul(d, FromNatural(amount)) = amount * d
    <2>1. NumMul(FromNatural(amount), d) = amount * d
      BY <1>1, ScaledMul
    <2>2. d * FromNatural(amount) = FromNatural(amount) * d
      BY <1>1, NaturalType, SMT
    <2> QED
      BY <2>1, <2>2 DEF NumMul
  <1>3. CalcSyAppreciation(last, current, amount)
          = Floor(NumDiv(amount * d, current))
    <2>1. ~(current <= last)
      OBVIOUS
    <2> QED
      BY <1>2, <2>1 DEF CalcSyAppreciation
  <1> QED
    BY <1>1, <1>3, FloorOfQuotient

\* SY worth no more than so many PT: in parts of a token, at a reciprocal that
\* is no less than the exact one.
LEMMA WorthAtReciprocal ==
    ASSUME NEW sy_amount \in Nat, NEW py \in Nat, NEW rate \in Nat \ {0},
           NEW reciprocal \in Nat, ONE * ONE <= reciprocal * rate,
           sy_amount * rate <= py * ONE
    PROVE  sy_amount * ONE <= py * reciprocal
  <1>1. /\ sy_amount * rate \in Nat /\ py * ONE \in Nat
        /\ ONE * ONE \in Nat /\ reciprocal * rate \in Nat
        /\ sy_amount * ONE \in Nat /\ py * reciprocal \in Nat
    BY OneAssumption, SMT
  <1>2. ONE * (sy_amount * rate) <= ONE * (py * ONE)
    BY <1>1, OneAssumption, MulMonotone
  <1>3. py * (ONE * ONE) <= py * (reciprocal * rate)
    BY <1>1, MulMonotone
  <1>4. /\ ONE * (sy_amount * rate) = rate * (sy_amount * ONE)
        /\ ONE * (py * ONE) = py * (ONE * ONE)
        /\ py * (reciprocal * rate) = rate * (py * reciprocal)
        /\ rate * (sy_amount * ONE) \in Nat /\ rate * (py * reciprocal) \in Nat
        /\ py * (ONE * ONE) \in Nat
    BY <1>1, OneAssumption, SMT
  <1>5. rate * (sy_amount * ONE) <= rate * (py * reciprocal)
    BY <1>2, <1>3, <1>4
  <1> QED
    BY <1>1, <1>5, MulCancel

\* PT worth no more than so much SY, at the code's reciprocal: the rounding of
\* the reciprocal is worth less than the amount in parts.
LEMMA MintedAtReciprocal ==
    ASSUME NEW py \in Nat, NEW amount \in Nat, NEW rate \in Nat \ {0},
           py * ONE <= amount * rate
    PROVE  /\ py * NumDiv(ONE, rate) <= amount * ONE + amount
           /\ NumDiv(ONE, rate) * rate = ONE * ONE =>
                py * NumDiv(ONE, rate) <= amount * ONE
  <1> DEFINE q == NumDiv(ONE, rate)
  <1>1. q \in Nat /\ q * rate <= ONE * ONE + RoundingCorrection
    BY OneAssumption, NumDivBounds
  <1> HIDE DEF q
  <1>2. /\ py * ONE \in Nat /\ amount * rate \in Nat /\ ONE * ONE \in Nat
        /\ q * rate \in Nat /\ py * q \in Nat /\ amount * ONE \in Nat
        /\ ONE * ONE + ONE \in Nat
    BY <1>1, OneAssumption, SMT
  <1>3. /\ rate * (py * q) = py * (q * rate) /\ rate * (py * q) \in Nat
        /\ py * (ONE * ONE + ONE) = ONE * (py * ONE) + py * ONE
        /\ py * (ONE * ONE) = ONE * (py * ONE)
        /\ ONE * (amount * rate) + amount * rate = rate * (amount * ONE + amount)
        /\ ONE * (amount * rate) = rate * (amount * ONE)
        /\ ONE * (py * ONE) \in Nat /\ ONE * (amount * rate) \in Nat
        /\ amount * ONE + amount \in Nat
    BY <1>1, <1>2, OneAssumption, SMT
  <1>4. ONE * (py * ONE) <= ONE * (amount * rate)
    BY <1>2, OneAssumption, MulMonotone
  <1>5. py * q <= amount * ONE + amount
    <2>1. q * rate <= ONE * ONE + ONE
      BY <1>1, <1>2, CorrectionType, OneAssumption
    <2>2. py * (q * rate) <= py * (ONE * ONE + ONE)
      BY <1>2, <2>1, MulMonotone
    <2>3. rate * (py * q) <= rate * (amount * ONE + amount)
      BY <1>2, <1>3, <1>4, <2>2
    <2> QED
      BY <1>2, <1>3, <2>3, MulCancel
  <1>6. ASSUME q * rate = ONE * ONE
        PROVE  py * q <= amount * ONE
    <2>1. rate * (py * q) <= rate * (amount * ONE)
      BY <1>3, <1>4, <1>6
    <2> QED
      BY <1>2, <2>1, MulCancel
  <1> QED
    BY <1>5, <1>6 DEF q

\* Appreciation that goes to the treasury leaves the rest worth what it was.
LEMMA SurplusLeavesWorth ==
    ASSUME NEW last \in Nat, NEW current \in Nat, NEW amount \in Nat,
           last <= current, NEW surplus,
           surplus = IF current > last
                     THEN CalcSyAppreciation(last, current, amount)
                     ELSE 0
    PROVE  /\ surplus \in Nat /\ surplus <= amount
           /\ amount * last <= (amount - surplus) * current
  <1>1. CASE current > last
    <2> DEFINE x == CalcSyAppreciation(last, current, amount)
               d == current - last
    <2>1. x \in Nat /\ x * current <= amount * d
      BY <1>1, SurplusWithinAppreciation
    <2>2. d \in Nat /\ current = last + d /\ current \in Nat \ {0}
      BY <1>1
    <2> HIDE DEF x, d
    <2>3. /\ amount * (last + d) = amount * last + amount * d
          /\ amount * last \in Nat /\ amount * d \in Nat
          /\ x * current = current * x /\ amount * current = current * amount
          /\ current * amount \in Nat
      BY <2>1, <2>2, SMT
    <2>4. current * x <= current * amount
      BY <2>1, <2>2, <2>3
    <2>5. x <= amount
      BY <2>1, <2>2, <2>4, MulCancel
    <2> DEFINE rest == amount - x
    <2>6. rest \in Nat /\ amount = rest + x
      BY <2>1, <2>5
    <2> HIDE DEF rest
    <2>7. (rest + x) * current = rest * current + x * current
          /\ rest * current \in Nat /\ x * current \in Nat
      BY <2>1, <2>6, SMT
    <2>8. amount * current = amount * last + amount * d
      BY <2>2, <2>3
    <2>9. amount * current = rest * current + x * current
      BY <2>6, <2>7
    <2>10. amount * last <= rest * current
      BY <2>1, <2>3, <2>7, <2>8, <2>9
    <2> QED
      BY <1>1, <2>1, <2>5, <2>10 DEF x, rest
  <1>2. CASE ~(current > last)
    <2>1. current = last /\ amount - 0 = amount
      BY <1>2
    <2>2. amount * last \in Nat
      BY SMT
    <2> QED
      BY <1>2, <2>1, <2>2
  <1> QED
    BY <1>1, <1>2

\* An amount of SY at a rate pays PT at par and a gain (both in units of
\* SY * rate * ONE).
Backs(amount, rate, pt, gain) == pt * ONE * ONE + gain <= amount * rate * ONE

\* What was earned is taken out of a gain, and this is what is left of it.
Takes(gain, left, rate, earned) == left + earned * rate * ONE <= gain

\* A redemption and a stage leave the rest of the SY worth the rest of the par
\* and of the gain.
LEMMA RestIsWorth ==
    ASSUME NEW pt \in Nat, NEW py \in Nat, NEW rest \in Nat, NEW amount \in Nat,
           NEW rate \in Nat \ {0}, NEW gain \in Nat, NEW left \in Nat,
           NEW earned \in Nat, NEW paid \in Nat,
           pt = py + rest, Backs(amount, rate, pt, gain),
           paid * rate <= py * ONE, Takes(gain, left, rate, earned)
    PROVE  /\ earned + paid <= amount
           /\ Backs(amount - (earned + paid), rate, rest, left)
  <1>0. /\ (py + rest) * ONE * ONE + gain <= amount * rate * ONE
        /\ left + earned * rate * ONE <= gain
    BY DEF Backs, Takes
  <1>1. /\ (py + rest) * ONE * ONE = py * ONE * ONE + rest * ONE * ONE
        /\ paid * rate * ONE = ONE * (paid * rate)
        /\ py * ONE * ONE = ONE * (py * ONE)
        /\ paid * rate \in Nat /\ py * ONE \in Nat
        /\ paid * rate * ONE \in Nat /\ py * ONE * ONE \in Nat
        /\ rest * ONE * ONE \in Nat /\ earned * rate * ONE \in Nat
        /\ amount * rate * ONE \in Nat
    BY OneAssumption, SMT
  <1>2. paid * rate * ONE <= py * ONE * ONE
    BY <1>1, OneAssumption, MulMonotone
  <1>3. rest * ONE * ONE + left + (earned * rate * ONE + paid * rate * ONE)
          <= amount * rate * ONE
    BY <1>0, <1>1, <1>2
  <1> DEFINE unit == rate * ONE
             out == earned + paid
  <1>4. unit \in Nat \ {0} /\ out \in Nat
    BY OneAssumption, SMT
  <1>5. /\ earned * rate * ONE + paid * rate * ONE = unit * out
        /\ amount * rate * ONE = unit * amount
        /\ unit * out \in Nat
    BY <1>4, OneAssumption, SMT
  <1> HIDE DEF unit, out
  <1>6. unit * out <= unit * amount
    BY <1>1, <1>3, <1>5
  <1>7. out <= amount
    BY <1>4, <1>6, MulCancel
  <1> DEFINE kept == amount - out
  <1>8. kept \in Nat /\ amount = kept + out
    BY <1>4, <1>7
  <1> HIDE DEF kept
  <1>9. /\ unit * (kept + out) = unit * kept + unit * out
        /\ unit * kept \in Nat
    BY <1>4, <1>8, SMT
  <1>10. rest * ONE * ONE + left <= unit * kept
    BY <1>1, <1>3, <1>5, <1>8, <1>9
  <1>11. unit * kept = kept * rate * ONE
    BY <1>8, OneAssumption, SMT DEF unit
  <1> QED
    BY <1>7, <1>10, <1>11 DEF out, kept, Backs

\* Nothing earned is nothing to scale.
LEMMA ScaledNothing ==
    ASSUME NEW final \in Nat, NEW current \in Nat
    PROVE  ScaleSyToCurrentRate(0, final, current) = 0
  <1>1. CASE current <= final
    BY <1>1 DEF ScaleSyToCurrentRate
  <1>2. CASE ~(current <= final)
    <2> DEFINE q == NumDiv(final, current)
    <2>1. q \in Nat
      BY <1>2, NumDivBounds
    <2> HIDE DEF q
    <2>2. q * 0 = 0 /\ 0 * ONE = 0
      BY <2>1, OneAssumption, SMT
    <2>3. Floor(NumMul(q, FromNatural(0))) = 0
      <3>1. NumMul(q, FromNatural(0)) = RoundingCorrection \div ONE
        BY <2>1, <2>2, CorrectionType DEF NumMul, FromNatural
      <3>2. RoundingCorrection \div ONE = 0 /\ 0 \div ONE = 0
        BY CorrectionType, OneAssumption, SMT
      <3> QED
        BY <3>1, <3>2 DEF Floor
    <2> QED
      BY <1>2, <2>3 DEF ScaleSyToCurrentRate, q
  <1> QED
    BY <1>1, <1>2

-----------------------------------------------------------------------------
(* How a step changes the rates and the supply of PT.                      *)

QuietVault ==
    /\ SameRates(vault, vault')
    /\ vault'.pt_supply = vault.pt_supply

StillVault ==
    /\ QuietVault
    /\ vault'.total_sy_in_escrow = vault.total_sy_in_escrow
    /\ vault'.sy_for_pt = vault.sy_for_pt
    /\ vault'.treasury_sy = vault.treasury_sy
    /\ vault'.uncollected_sy = vault.uncollected_sy

UpdatingVault ==
    /\ CanEarn(UpdatedVault)
    /\ SameRates(UpdatedVault, vault')
    /\ vault'.pt_supply # vault.pt_supply => ~InEmergency(UpdatedVault)

\* The instructions that call update_vault_yield leave the rates it read.
LEMMA UpdatingActions ==
    ASSUME TypeOK,
           \/ \E amount \in StripAmounts : Strip(amount)
           \/ \E py \in MergeAmounts : Merge(py)
           \/ \E user \in Users, amount \in YtAmounts : DepositYt(user, amount)
           \/ \E user \in Users, amount \in YtAmounts : WithdrawYt(user, amount)
           \/ \E user \in Users : StageYield(user)
    PROVE  UpdatingVault
  <1> DEFINE v == UpdatedVault
  <1>1. CanEarn(v)
    BY DEF Strip, Merge, CanMerge, DepositYt, WithdrawYt, StageYield,
           CanUpdateYield
  <1>2. v \in VaultAccount /\ SameLedger(vault, v)
    BY <1>1, UpdateFacts
  <1>3. ASSUME NEW amount \in StripAmounts, Strip(amount)
        PROVE  UpdatingVault
    <2> DEFINE py == SyToPy(v.last_seen_sy_exchange_rate, amount)
               u == [v EXCEPT !.total_sy_in_escrow = @ + amount,
                              !.pt_supply = @ + py]
    <2>1. vault' = SetSyForPt(u) /\ ~InEmergency(v)
      BY <1>3 DEF Strip
    <2>2. py \in Nat /\ amount \in Nat
      BY <1>2, VaultFields, SyToPyType, VaultAssumption
    <2> HIDE DEF v, py
    <2>3. /\ v.total_sy_in_escrow + amount \in Nat
          /\ v.pt_supply + py \in Nat
      BY <1>2, <2>2, VaultFields
    <2>4. u \in VaultAccount /\ SameRates(v, u)
      BY <1>2, <2>3 DEF VaultAccount, SameRates
    <2> HIDE DEF u
    <2> QED
      BY <1>1, <2>1, <2>4, SetSyForPtFacts DEF UpdatingVault, SameRates, v
  <1>4. ASSUME NEW py \in MergeAmounts, Merge(py)
        PROVE  UpdatingVault
    <2> DEFINE amount == MergedSy(py, v)
               u == [v EXCEPT !.total_sy_in_escrow = @ - amount,
                              !.pt_supply = @ - py]
    <2>1. /\ vault' = SetSyForPt(u) /\ ~InEmergency(v)
          /\ amount <= v.total_sy_in_escrow /\ py <= v.pt_supply
      BY <1>4 DEF Merge, CanMerge
    <2>2. py \in Nat
      BY VaultAssumption
    <2>3. amount \in Nat
      BY <1>2, <2>2, VaultFields, RedeemPtType DEF MergedSy
    <2> HIDE DEF v, amount
    <2>4. /\ v.total_sy_in_escrow - amount \in Nat
          /\ v.pt_supply - py \in Nat
      BY <1>2, <2>1, <2>2, <2>3, VaultFields
    <2>5. u \in VaultAccount /\ SameRates(v, u)
      BY <1>2, <2>4 DEF VaultAccount, SameRates
    <2> HIDE DEF u
    <2> QED
      BY <1>1, <2>1, <2>5, SetSyForPtFacts DEF UpdatingVault, SameRates, v
  <1>5. ASSUME NEW user \in Users, vault' = StagedVault(v, user)
        PROVE  UpdatingVault
    BY <1>1, <1>2, <1>5, StageFacts DEF UpdatingVault, SameLedger
  <1> QED
    BY <1>3, <1>4, <1>5 DEF DepositYt, WithdrawYt, StageYield

\* Most of the others keep both, and the escrow; so do the clock and the SY
\* program.
LEMMA StillActions ==
    ASSUME TypeOK,
           \/ Tick
           \/ SyMoves
           \/ \E user \in Users : InitializeYieldPosition(user)
           \/ \E user \in Users, i \in 1..MaxStreams : CollectEmission(user, i)
           \/ AdminStep /\ ~CollectRobotInterest /\ ~CollectTreasuryInterest
    PROVE  StillVault
  <1>1. vault \in VaultAccount
    BY DEF TypeOK
  <1>2. CASE vault' = vault
    BY <1>2 DEF StillVault, QuietVault, SameRates
  <1>3. ASSUME NEW bps \in EmissionFees, AddEmission(bps)
        PROVE  StillVault
    <2>1. PICK es, cs :
            vault' = [vault EXCEPT !.emissions = es, !.claim_emission = cs]
      BY <1>3 DEF AddEmission
    <2> QED
      BY <1>1, <2>1 DEF VaultAccount, StillVault, QuietVault,
                      SameRates
  <1>4. ASSUME NEW es, vault' = [vault EXCEPT !.emissions = es]
        PROVE  StillVault
    BY <1>1, <1>4 DEF VaultAccount, StillVault, QuietVault,
                      SameRates
  <1>5. ASSUME NEW i \in 1..MaxStreams,
               \/ RemoveVaultEmission(i)
               \/ \E bps \in FeeChoices : ChangeEmissionBpsFee(i, bps)
               \/ CollectTreasuryEmission(i)
        PROVE  StillVault
    <2>1. \E es : vault' = [vault EXCEPT !.emissions = es]
      <3>1. CASE RemoveVaultEmission(i)
        BY <3>1 DEF RemoveVaultEmission
      <3>2. CASE \E bps \in FeeChoices : ChangeEmissionBpsFee(i, bps)
        <4>1. PICK bps \in FeeChoices : ChangeEmissionBpsFee(i, bps)
          BY <3>2
        <4> DEFINE e == [vault.emissions[i] EXCEPT !.fee_bps = bps]
                   es == [vault.emissions EXCEPT ![i] = e]
        <4>2. vault' = [vault EXCEPT !.emissions[i].fee_bps = bps]
          BY <4>1 DEF ChangeEmissionBpsFee
        <4>3. vault' = [vault EXCEPT !.emissions = es]
          BY <1>1, <4>2 DEF VaultAccount
        <4> HIDE DEF es
        <4> QED
          BY <4>3
      <3>3. CASE CollectTreasuryEmission(i)
        BY <1>1, <3>3 DEF CollectTreasuryEmission, VaultAccount
      <3> QED
        BY <1>5, <3>1, <3>2, <3>3
    <2> QED
      BY <1>4, <2>1
  <1>6. ASSUME NEW role, NEW status, SetVaultStatus(role, status)
        PROVE  StillVault
    BY <1>1, <1>6 DEF SetVaultStatus, VaultAccount, StillVault, QuietVault,
                      SameRates
  <1>7. ASSUME NEW bps, ChangeVaultBpsFee(bps)
         PROVE  StillVault
    BY <1>1, <1>7 DEF ChangeVaultBpsFee, VaultAccount, StillVault, QuietVault,
                      SameRates
  <1>8. ASSUME NEW is_strip, NEW size, ChangeMinOperationSize(is_strip, size)
         PROVE  StillVault
    <2>1. CASE is_strip
      BY <1>1, <1>8, <2>1
      DEF ChangeMinOperationSize, VaultAccount, StillVault, QuietVault,
                      SameRates
    <2>2. CASE ~is_strip
      BY <1>1, <1>8, <2>2
      DEF ChangeMinOperationSize, VaultAccount, StillVault, QuietVault,
                      SameRates
    <2> QED
      BY <2>1, <2>2
  <1>9. ASSUME NEW limits, ChangeClaimLimits(limits)
         PROVE  StillVault
    <2>1. PICK l : vault' = [vault EXCEPT !.claim_limits = l]
      BY <1>9 DEF ChangeClaimLimits
    <2> QED
      BY <1>1, <2>1 DEF VaultAccount, StillVault, QuietVault,
                      SameRates
  <1>10. ASSUME NEW max, ChangeMaxPySupply(max)
         PROVE  StillVault
    BY <1>1, <1>10 DEF ChangeMaxPySupply, VaultAccount, StillVault, QuietVault,
                      SameRates
  <1>11. CASE ChangeCpiAccounts
    <2>1. PICK cs : vault' = [vault EXCEPT !.claim_emission = cs]
      BY <1>11 DEF ChangeCpiAccounts
    <2> QED
      BY <1>1, <2>1 DEF VaultAccount, StillVault, QuietVault,
                      SameRates
  <1>12. CASE AdminStep /\ ~CollectRobotInterest /\ ~CollectTreasuryInterest
    <2>1. ASSUME NEW i \in 1..MaxStreams, CollectRobotEmission(i)
          PROVE  vault' = vault
      BY <2>1 DEF CollectRobotEmission
    <2> QED
      BY <1>2, <1>3, <1>5, <1>6, <1>7, <1>8, <1>9, <1>10,
         <1>11, <1>12, <2>1
      DEF AdminStep
  <1>13. ASSUME NEW user \in Users,
                \/ InitializeYieldPosition(user)
                \/ \E i \in 1..MaxStreams : CollectEmission(user, i)
         PROVE  vault' = vault
    BY <1>13 DEF InitializeYieldPosition, CollectEmission
  <1> QED
    BY <1>2, <1>12, <1>13 DEF Tick, SyMoves

\* Three more take SY from the escrow.
LEMMA PayingActions ==
    ASSUME TypeOK,
           \/ \E user \in Users : CollectInterest(user)
           \/ CollectRobotInterest
           \/ CollectTreasuryInterest
    PROVE  QuietVault
  <1>1. vault \in VaultAccount
    BY DEF TypeOK
  <1>2. ASSUME NEW user \in Users, CollectInterest(user)
        PROVE  QuietVault
    <2> DEFINE v == EarnAllVault(vault, position[user])
    <2>1. /\ v \in VaultAccount /\ SameRates(vault, v)
          /\ v.pt_supply = vault.pt_supply
      BY <1>1, TypeParts, EarnAllVaultFacts DEF SameLedger, Holders
    <2>2. PICK amount \in Claimable(position[user].interest.staged) :
            vault' = [v EXCEPT
               !.claim_limits = CountClaim(@, amount, now),
               !.total_sy_in_escrow = @ - amount,
               !.uncollected_sy = @ - amount]
      BY <1>2 DEF CollectInterest
    <2> HIDE DEF v
    <2> QED
      BY <2>1, <2>2 DEF VaultAccount, QuietVault, SameRates
  <1>3. CASE CollectRobotInterest
    BY <1>1, <1>3 DEF CollectRobotInterest, VaultAccount, QuietVault, SameRates
  <1>4. CASE CollectTreasuryInterest
    BY <1>1, <1>4
    DEF CollectTreasuryInterest, VaultAccount, QuietVault, SameRates
  <1> QED
    BY <1>2, <1>3, <1>4

LEMMA StepRates ==
    ASSUME TypeOK, [Next]_vars
    PROVE  QuietVault \/ UpdatingVault
  <1>1. CASE UNCHANGED vars
    BY <1>1 DEF vars, QuietVault, SameRates
  <1>2. CASE UserStep
    BY <1>2, UpdatingActions, StillActions, PayingActions
    DEF UserStep, StillVault
  <1>3. CASE Tick \/ SyMoves \/ AdminStep
    BY <1>3, StillActions, PayingActions DEF StillVault
  <1> QED
    BY <1>1, <1>2, <1>3 DEF Next

-----------------------------------------------------------------------------
(* Action properties.                                                      *)

\* The all-time high never falls, and after maturity no instruction moves the
\* rate that YT is settled at.
THEOREM RatesFrozen == Spec => FinalRatesFrozen
  <1>1. ASSUME IInv, [Next]_vars
        PROVE  /\ vault'.all_time_high_sy_exchange_rate
                     >= vault.all_time_high_sy_exchange_rate
               /\ IsExpired(now) => vault'.final_sy_exchange_rate
                                      = vault.final_sy_exchange_rate
    <2>1. TypeOK
      BY <1>1 DEF IInv
    <2>2. CASE QuietVault
      BY <2>1, <2>2, TypeParts DEF QuietVault, SameRates
    <2>3. CASE UpdatingVault
      <3>1. UpdatedVault.final_sy_exchange_rate
              = IF IsActive(now) THEN sy.exchange_rate
                                 ELSE vault.final_sy_exchange_rate
        BY <2>1, <2>3, UpdateFacts DEF UpdatingVault
      <3> QED
        BY <1>1, <2>3, <3>1, UpdateRates
        DEF UpdatingVault, SameRates, IsActive
    <2> QED
      BY <1>1, <2>1, <2>2, <2>3, StepRates
  <1>2. [][IInv /\ [Next]_vars =>
             /\ vault'.all_time_high_sy_exchange_rate
                  >= vault.all_time_high_sy_exchange_rate
             /\ IsExpired(now) => vault'.final_sy_exchange_rate
                                    = vault.final_sy_exchange_rate]_vars
    BY <1>1, PTL
  <1> QED
    BY <1>2, Invariance, PTL DEF Spec, FinalRatesFrozen

\* PT are minted and redeemed only at the all-time high: in emergency mode the
\* supply of PT does not move.
THEOREM SupplyFrozen == Spec => EmergencyFreezesSupply
  <1>1. ASSUME IInv, [Next]_vars
        PROVE  vault'.pt_supply # vault.pt_supply =>
                 sy.exchange_rate = vault'.all_time_high_sy_exchange_rate
    <2>1. TypeOK
      BY <1>1 DEF IInv
    <2>2. CASE QuietVault
      BY <2>2 DEF QuietVault
    <2>3. CASE UpdatingVault /\ vault'.pt_supply # vault.pt_supply
      <3>1. /\ UpdatedVault \in VaultAccount
            /\ UpdatedVault.last_seen_sy_exchange_rate = sy.exchange_rate
        BY <2>1, <2>3, UpdateFacts DEF UpdatingVault
      <3>2. UpdatedVault.last_seen_sy_exchange_rate
              <= UpdatedVault.all_time_high_sy_exchange_rate
        BY <1>1, <2>3, UpdateRates DEF UpdatingVault
      <3> QED
        BY <2>3, <3>1, <3>2, VaultFields
        DEF UpdatingVault, SameRates, InEmergency
    <2> QED
      BY <1>1, <2>1, <2>2, <2>3, StepRates
  <1>2. [][IInv /\ [Next]_vars =>
             (vault'.pt_supply # vault.pt_supply =>
               sy.exchange_rate = vault'.all_time_high_sy_exchange_rate)]_vars
    BY <1>1, PTL
  <1> QED
    BY <1>2, Invariance, PTL DEF Spec, EmergencyFreezesSupply

-----------------------------------------------------------------------------
(* How a step changes the index that a position has earned up to.          *)

Index(h) == position[h].interest.last_seen_index

\* A position that earns from the vault v ends at its final rate, if it earns
\* interest at all.
EarnedFrom(v, h) ==
    /\ CanEarn(v)
    /\ ~InEmergency(v)
    /\ Index(h)' = v.final_sy_exchange_rate

LEMMA StepIndexes ==
    ASSUME IInv, [Next]_vars, NEW h \in Holders
    PROVE  \/ Index(h)' = Index(h)
           \/ Index(h) = 0 /\ Index(h)' \in Nat
           \/ EarnedFrom(vault, h)
           \/ EarnedFrom(UpdatedVault, h)
  <1> DEFINE Goal == \/ Index(h)' = Index(h)
                     \/ Index(h) = 0 /\ Index(h)' \in Nat
                     \/ EarnedFrom(vault, h)
                     \/ EarnedFrom(UpdatedVault, h)
  <1>1. TypeOK /\ Robot \in Holders /\ Robot \notin Users
    BY VaultAssumption DEF IInv, Holders
  <1>2. position \in [Holders -> YieldTokenPosition]
    BY <1>1 DEF TypeOK
  <1>3. ASSUME position'[h].interest = position[h].interest
        PROVE  Goal
    BY <1>3 DEF Index
  <1>4. ASSUME CanEarn(UpdatedVault),
               position'[h].interest = UpdatedRobot.interest, h = Robot
        PROVE  Goal
    BY <1>1, <1>4, UpdateFacts DEF EarnedFrom, Index
  <1>5. ASSUME CanEarn(UpdatedVault), NEW user \in Users, h = user,
               position'[h].interest
                 = StagedPosition(UpdatedVault, user).interest
        PROVE  Goal
    BY <1>1, <1>5, UpdateFacts, StageFacts DEF EarnedFrom, Index
  <1>6. ASSUME NEW amount \in StripAmounts, Strip(amount)
        PROVE  Goal
    <2>1. CanEarn(UpdatedVault)
      BY <1>6 DEF Strip, CanUpdateYield
    <2>2. PICK py :
            position' = [position EXCEPT ![Robot] = IncYtBalance(UpdatedRobot, py)]
      BY <1>6 DEF Strip
    <2>3. IncYtBalance(UpdatedRobot, py).interest = UpdatedRobot.interest
      BY <1>1, <2>1, UpdateFacts DEF IncYtBalance, YieldTokenPosition
    <2> QED
      BY <1>2, <1>3, <1>4, <2>1, <2>2, <2>3
  <1>7. ASSUME NEW py \in MergeAmounts, Merge(py)
        PROVE  Goal
    <2>1. CanEarn(UpdatedVault)
      BY <1>7 DEF Merge, CanMerge, CanUpdateYield
    <2>2. PICK burned : position' = [position EXCEPT
                          ![Robot] = DecYtBalance(UpdatedRobot, burned)]
      BY <1>7 DEF Merge
    <2>3. DecYtBalance(UpdatedRobot, burned).interest = UpdatedRobot.interest
      BY <1>1, <2>1, UpdateFacts DEF DecYtBalance, YieldTokenPosition
    <2> QED
      BY <1>2, <1>3, <1>4, <2>1, <2>2, <2>3
  <1>8. ASSUME CanEarn(UpdatedVault), NEW user \in Users, NEW p, NEW r,
               p.interest = StagedPosition(UpdatedVault, user).interest,
               r.interest = UpdatedRobot.interest,
               position' = [position EXCEPT ![user] = p, ![Robot] = r]
        PROVE  Goal
    <2>1. CASE h = Robot
      BY <1>1, <1>2, <1>4, <1>8, <2>1
    <2>2. CASE h = user
      BY <1>1, <1>2, <1>5, <1>8, <2>2
    <2>3. CASE h # Robot /\ h # user
      BY <1>2, <1>3, <1>8, <2>3
    <2> QED
      BY <2>1, <2>2, <2>3
  <1>9. ASSUME NEW user \in Users,
               \/ \E amount \in YtAmounts : DepositYt(user, amount)
               \/ \E amount \in YtAmounts : WithdrawYt(user, amount)
               \/ StageYield(user)
        PROVE  Goal
    <2> DEFINE staged == StagedPosition(UpdatedVault, user)
    <2>1. CanEarn(UpdatedVault)
      BY <1>9 DEF DepositYt, WithdrawYt, StageYield, CanUpdateYield
    <2>2. /\ staged \in YieldTokenPosition
          /\ UpdatedRobot \in YieldTokenPosition
      BY <1>1, <2>1, UpdateFacts, StageFacts
    <2>3. \A p \in YieldTokenPosition : \A amount :
             /\ IncYtBalance(p, amount).interest = p.interest
             /\ DecYtBalance(p, amount).interest = p.interest
      BY DEF IncYtBalance, DecYtBalance, YieldTokenPosition
    <2>4. \E p, r : /\ p.interest = staged.interest
                    /\ r.interest = UpdatedRobot.interest
                    /\ position' = [position EXCEPT ![user] = p, ![Robot] = r]
      <3>1. CASE \E amount \in YtAmounts : DepositYt(user, amount)
        BY <2>2, <2>3, <3>1 DEF DepositYt
      <3>2. CASE \E amount \in YtAmounts : WithdrawYt(user, amount)
        BY <2>2, <2>3, <3>2 DEF WithdrawYt
      <3>3. CASE StageYield(user)
        BY <3>3 DEF StageYield
      <3> QED
        BY <1>9, <3>1, <3>2, <3>3
    <2> QED
      BY <1>8, <2>1, <2>4
  <1>10. ASSUME NEW user \in Users, InitializeYieldPosition(user)
         PROVE  Goal
    <2>1. /\ user \notin opened
          /\ position' = [position EXCEPT ![user] = Realloc(NewPosition)]
      BY <1>10 DEF InitializeYieldPosition
    <2>2. position[user].interest.last_seen_index = 0
      BY <2>1 DEF IInv, UnopenedNeverEarned
    <2>3. Realloc(NewPosition).interest.last_seen_index = 0
      BY DEF Realloc, NewPosition, NewTracker
    <2> QED
      BY <1>2, <1>3, <2>1, <2>2, <2>3 DEF Index
  <1>11. ASSUME NEW user \in Users, CollectInterest(user)
         PROVE  Goal
    <2> DEFINE p == EarnAllPosition(vault, position[user])
    <2>1. PICK amount \in Claimable(position[user].interest.staged) :
            /\ CanEarn(vault)
            /\ position' = [position EXCEPT
                   ![user] = [p EXCEPT !.interest = DecStaged(@, amount)]]
      BY <1>11 DEF CollectInterest
    <2>2. /\ p \in YieldTokenPosition
          /\ p.interest.last_seen_index
               = IF InEmergency(vault) THEN Index(user)
                                       ELSE vault.final_sy_exchange_rate
      BY <1>1, <2>1, TypeParts, EarnAllPositionFacts DEF Holders, Index
    <2> HIDE DEF p
    <2>3. [p EXCEPT !.interest = DecStaged(@, amount)].interest.last_seen_index
            = p.interest.last_seen_index
      BY <2>2 DEF DecStaged, YieldTokenPosition, Tracker
    <2> QED
      BY <1>2, <1>3, <2>1, <2>2, <2>3 DEF Index, EarnedFrom
  <1>12. ASSUME NEW holder \in Holders, NEW i, NEW amount,
                position' = [position EXCEPT
                   ![holder].emissions[i] = DecStaged(@, amount)]
         PROVE  Goal
    BY <1>2, <1>3, <1>12 DEF YieldTokenPosition
  <1>13. CASE CollectRobotInterest
    <2>1. PICK amount : position' = [position EXCEPT
                          ![Robot].interest = DecStaged(@, amount)]
      BY <1>13 DEF CollectRobotInterest
    <2>2. position'[Robot].interest = DecStaged(position[Robot].interest, amount)
      BY <1>1, <1>2, <2>1 DEF YieldTokenPosition
    <2>3. DecStaged(position[Robot].interest, amount).last_seen_index
            = Index(Robot)
      BY <1>1, <1>2 DEF DecStaged, YieldTokenPosition, Tracker, Index
    <2>4. CASE h = Robot
      BY <2>2, <2>3, <2>4 DEF Index
    <2>5. CASE h # Robot
      BY <1>2, <1>3, <2>1, <2>5
    <2> QED
      BY <2>4, <2>5
  <1>14. ASSUME NEW bps \in EmissionFees, AddEmission(bps)
         PROVE  Goal
    BY <1>1, <1>2, <1>3, <1>14 DEF AddEmission, YieldTokenPosition
  <1>15. CASE UserStep
    <2>1. ASSUME NEW user \in Users, NEW i \in 1..MaxStreams,
                 CollectEmission(user, i)
          PROVE  Goal
      <3>1. PICK amount : position' = [position EXCEPT
                            ![user].emissions[i] = DecStaged(@, amount)]
        BY <2>1 DEF CollectEmission
      <3>2. user \in Holders
        BY DEF Holders
      <3> QED
        BY <1>12, <3>1, <3>2
    <2> QED
      BY <1>6, <1>7, <1>9, <1>10, <1>11, <1>15, <2>1 DEF UserStep
  <1>16. CASE AdminStep
    <2>1. ASSUME NEW i \in 1..MaxStreams, CollectRobotEmission(i)
          PROVE  Goal
      BY <1>1, <1>12, <2>1 DEF CollectRobotEmission
    <2>2. ASSUME NEW i \in 1..MaxStreams,
                 \/ RemoveVaultEmission(i)
                 \/ CollectTreasuryEmission(i)
                 \/ \E bps \in FeeChoices : ChangeEmissionBpsFee(i, bps)
          PROVE  position' = position
      BY <2>2 DEF RemoveVaultEmission, CollectTreasuryEmission,
                  ChangeEmissionBpsFee
    <2>3. CASE CollectTreasuryInterest \/ ChangeCpiAccounts
      BY <1>3, <2>3 DEF CollectTreasuryInterest, ChangeCpiAccounts
    <2>4. ASSUME NEW role, NEW status, SetVaultStatus(role, status)
          PROVE  position' = position
      BY <2>4 DEF SetVaultStatus
    <2>5. ASSUME NEW is_strip, NEW size, ChangeMinOperationSize(is_strip, size)
          PROVE  position' = position
      BY <2>5 DEF ChangeMinOperationSize
    <2>6. ASSUME NEW x, \/ ChangeVaultBpsFee(x)
                       \/ ChangeClaimLimits(x)
                       \/ ChangeMaxPySupply(x)
          PROVE  position' = position
      BY <2>6 DEF ChangeVaultBpsFee, ChangeClaimLimits, ChangeMaxPySupply
    <2> QED
      BY <1>3, <1>13, <1>14, <1>16, <2>1, <2>2, <2>3, <2>4, <2>5, <2>6
      DEF AdminStep
  <1>17. CASE Tick \/ SyMoves \/ UNCHANGED vars
    BY <1>3, <1>17 DEF Tick, SyMoves, vars
  <1> QED
    BY <1>15, <1>16, <1>17 DEF Next

\* Until maturity no position goes back to a lower rate, so that the same
\* appreciation is never earned twice.
THEOREM EarnedOnce == Spec => NoDoubleEarning
  <1>1. ASSUME IInv, [Next]_vars, ~IsExpired(now), NEW h \in Holders
        PROVE  position'[h].interest.last_seen_index
                 >= position[h].interest.last_seen_index
    <2>1. /\ TypeOK /\ RateOrder /\ RateTracking
          /\ Index(h) \in Nat
      BY <1>1, TypeParts DEF IInv, Index
    <2>2. CASE EarnedFrom(vault, h)
      BY <1>1, <2>1, <2>2, TypeParts
      DEF EarnedFrom, InEmergency, RateOrder, RateTracking, Index
    <2>3. CASE EarnedFrom(UpdatedVault, h)
      <3>1. UpdatedVault \in VaultAccount
        BY <2>1, <2>3, UpdateFacts DEF EarnedFrom
      <3> QED
        BY <1>1, <2>1, <2>3, <3>1, VaultFields, UpdateRates
        DEF EarnedFrom, InEmergency, Index
    <2> QED
      BY <1>1, <2>1, <2>2, <2>3, StepIndexes DEF Index
  <1>2. IInv /\ [Next]_vars =>
          (~IsExpired(now) =>
             \A h \in Holders : position'[h].interest.last_seen_index
                                  >= position[h].interest.last_seen_index)
    BY <1>1
  <1> QED
    BY <1>2, Invariance, PTL DEF Spec, NoDoubleEarning

-----------------------------------------------------------------------------
(* Redemption after maturity.                                              *)

\* Trackers are only ever added to a position that earns: one per emission.
LEMMA EarnAllPositionLen ==
    ASSUME NEW v \in VaultAccount, NEW p \in YieldTokenPosition
    PROVE  Len(EarnAllPosition(v, p).emissions)
             = Larger(Len(p.emissions), Len(v.emissions))
  <1> DEFINE n  == Larger(Len(p.emissions), Len(v.emissions))
             p1 == EnsureTrackers(p, Len(v.emissions))
             p2 == EarnSyInterest(v, p1)
  <1>1. Len(v.emissions) \in Nat /\ Len(p.emissions) \in Nat
    <2>1. p.emissions \in Seq(Tracker)
      BY DEF YieldTokenPosition
    <2> QED
      BY <2>1, VaultFields
  <1>2. n \in Nat
    BY <1>1 DEF Larger
  <1>3. p1 \in YieldTokenPosition
    BY <1>1, EnsureTrackersFacts
  <1>4. DOMAIN p1.emissions = 1..n
    BY DEF EnsureTrackers, YieldTokenPosition
  <1> HIDE DEF n, p1
  <1>5. p2.emissions = p1.emissions /\ p2 \in YieldTokenPosition
    BY <1>3, EarnSyInterestFacts DEF EarnSyInterest, YieldTokenPosition
  <1> HIDE DEF p2
  <1>6. DOMAIN EarnEmissions(v, p2).emissions = 1..n
    BY <1>4, <1>5 DEF EarnEmissions, YieldTokenPosition
  <1>7. EarnAllPosition(v, p) = EarnEmissions(v, p2)
    BY DEF EarnAllPosition, p1, p2
  <1>8. Len(EarnAllPosition(v, p).emissions) = n
    BY <1>2, <1>6, <1>7
  <1> QED
    BY <1>8 DEF n

\* After maturity the whole supply of PT can be merged whenever the instruction
\* is enabled, the rate is at its high and the SY program lists no stream that
\* the vault does not know: the update finds a final rate, the robot's account
\* has room, no YT is asked for, and neither the escrow nor the SY program nor
\* the mint falls short.
THEOREM MatureRedemption == Spec => []MaturePtRedeemable
  <1>1. IInv => MaturePtRedeemable
    <2> DEFINE v == UpdatedVault
               robot == UpdatedRobot
               py == vault.pt_supply
               amount == MergedSy(py, v)
    <2> SUFFICES ASSUME IInv, IsExpired(now), "merge" \in vault.status,
                        sy.exchange_rate
                          >= vault.all_time_high_sy_exchange_rate,
                        CanUpdate, py > 0, py >= vault.min_op_size_merge
                 PROVE  CanMerge(py, amount, v, robot)
      BY DEF MaturePtRedeemable
    <2>1. /\ TypeOK /\ EscrowIsInCustody /\ TokenLedger /\ RateTracking
          /\ RobotFits
      BY DEF IInv
    <2>2. ~IsActive(now)
      BY DEF IsActive
    <2>3. /\ vault \in VaultAccount /\ now \in Nat
          /\ position[Robot] \in YieldTokenPosition
          /\ sy \in [exchange_rate : Rates, emission_indexes : Seq(Nat)]
      BY <2>1 DEF TypeOK, SyTypeOK, Holders
    <2>4. /\ SeenVault \in VaultAccount
          /\ Len(SeenVault.emissions) = Len(vault.emissions)
          /\ SeenVault.final_sy_exchange_rate = vault.final_sy_exchange_rate
      BY <2>2, <2>3, UpdateFromSyStateFacts DEF SeenVault, SameLedger
    <2>5. CanEarn(v)
      <3>1. v.final_sy_exchange_rate = vault.final_sy_exchange_rate
        BY <2>3, <2>4, EarnAllVaultFacts DEF UpdatedVault, SameRates
      <3> QED
        BY <2>1, <3>1 DEF RateTracking, CanEarn
    <2>6. /\ v \in VaultAccount /\ SameLedger(vault, v)
          /\ v.sy_for_pt <= vault.total_sy_in_escrow
          /\ v.last_seen_sy_exchange_rate = sy.exchange_rate
          /\ v.all_time_high_sy_exchange_rate
               = Larger(sy.exchange_rate, vault.all_time_high_sy_exchange_rate)
          /\ robot \in YieldTokenPosition
          /\ SameBalance(position[Robot], robot)
      BY <2>1, <2>5, UpdateFacts
    <2>7. Fits(robot)
      <3>1. Len(robot.emissions)
              = Larger(Len(position[Robot].emissions), Len(vault.emissions))
        BY <2>3, <2>4, EarnAllPositionLen DEF UpdatedRobot
      <3> QED
        BY <2>1, <2>6, <3>1 DEF Fits, RobotFits, SameBalance, Larger
    <2>8. ~InEmergency(v)
      BY <2>1, <2>6, TypeParts DEF InEmergency, Larger
    <2>9. BurnedYt(py) = 0
      BY <2>2 DEF BurnedYt
    <2>10. py \in Nat /\ v.pt_supply = py
      BY <2>3, <2>6, VaultFields DEF SameLedger
    <2>11. amount \in Nat /\ amount <= vault.total_sy_in_escrow
      <3>1. v.sy_for_pt \in Nat /\ vault.total_sy_in_escrow \in Nat
        BY <2>3, <2>6, VaultFields
      <3>2. amount = RedeemPt(py, v.sy_for_pt, v.pt_supply)
        BY DEF MergedSy
      <3>3. v.pt_supply \in Nat /\ py <= v.pt_supply
        BY <2>10
      <3> HIDE DEF v, amount, py
      <3>4. amount \in Nat
        BY <2>10, <3>1, <3>2, <3>3, RedeemPtType
      <3>5. amount <= v.sy_for_pt
        BY <2>10, <3>1, <3>2, <3>3, RedemptionWithinBacking
      <3> USE DEF v
      <3> QED
        BY <2>6, <3>1, <3>4, <3>5
    <2>12. /\ amount <= v.total_sy_in_escrow
           /\ amount <= sy_position.sy_balance
           /\ py <= tokens.mint_pt
      BY <2>1, <2>6, <2>10, <2>11
      DEF SameLedger, EscrowIsInCustody, TokenLedger
    <2>13. 0 <= robot.yt_balance /\ 0 <= tokens.yt_wallets
      BY <2>1, <2>6, TypeParts DEF YieldTokenPosition
    <2> HIDE DEF v, robot, py, amount
    <2> QED
      BY <2>5, <2>7, <2>8, <2>9, <2>10, <2>12, <2>13
      DEF CanMerge, CanUpdateYield, py, CanUpdate
  <1> QED
    BY <1>1, Invariance, PTL

-----------------------------------------------------------------------------
(* What leaves the escrow.                                                 *)

Paid == vault.total_sy_in_escrow - vault'.total_sy_in_escrow

CountedAsClaim ==
    LET old == vault.claim_limits
        new == vault'.claim_limits
    IN  /\ new.total_claim_amount_in_window <= old.max_claim_amount_per_window
        /\ \/ new.total_claim_amount_in_window
                 = old.total_claim_amount_in_window + Paid
           \/ /\ now > WindowEnd(old)
              /\ new.total_claim_amount_in_window = Paid

Accounted ==
    vault'.total_sy_in_escrow < vault.total_sy_in_escrow =>
        \/ vault'.pt_supply < vault.pt_supply
        \/ vault'.treasury_sy + Paid = vault.treasury_sy
        \/ Staged(Robot)' + Paid = Staged(Robot)
        \/ CountedAsClaim

LEMMA ClaimCounted ==
    ASSUME NEW l \in ClaimLimits, NEW amount \in Nat, NEW t \in Nat,
           WithinClaimLimits(l, amount, t)
    PROVE  LET counted == CountClaim(l, amount, t).total_claim_amount_in_window
           IN  /\ counted <= l.max_claim_amount_per_window
               /\ \/ counted = l.total_claim_amount_in_window + amount
                  \/ t > WindowEnd(l) /\ counted = amount
  <1> DEFINE r == RolledWindow(l, t)
  <1>1. /\ r \in ClaimLimits
        /\ \/ r.total_claim_amount_in_window = l.total_claim_amount_in_window
           \/ t > WindowEnd(l) /\ r.total_claim_amount_in_window = 0
    BY DEF RolledWindow, ClaimLimits
  <1>2. r.total_claim_amount_in_window + amount <= l.max_claim_amount_per_window
    BY DEF WithinClaimLimits
  <1> HIDE DEF r
  <1>3. CountClaim(l, amount, t).total_claim_amount_in_window
          = r.total_claim_amount_in_window + amount
    BY <1>1 DEF CountClaim, ClaimLimits, r
  <1> QED
    BY <1>1, <1>2, <1>3

LEMMA StepAccounted ==
    ASSUME IInv, [Next]_vars
    PROVE  Accounted
  <1>1. /\ TypeOK /\ vault \in VaultAccount /\ now \in Nat
        /\ vault.total_sy_in_escrow \in Nat /\ vault.treasury_sy \in Nat
        /\ vault.claim_limits \in ClaimLimits
        /\ Robot \in Holders
    BY TypeParts, VaultFields DEF IInv, Holders
  <1>2. ASSUME vault'.total_sy_in_escrow = vault.total_sy_in_escrow
        PROVE  Accounted
    BY <1>1, <1>2 DEF Accounted
  <1>3. ASSUME NEW amount \in StripAmounts, Strip(amount)
        PROVE  Accounted
    <2> DEFINE v == UpdatedVault
               py == SyToPy(v.last_seen_sy_exchange_rate, amount)
               u == [v EXCEPT !.total_sy_in_escrow = @ + amount,
                              !.pt_supply = @ + py]
    <2>1. CanEarn(v) /\ vault' = SetSyForPt(u)
      BY <1>3 DEF Strip, CanUpdateYield
    <2>2. v \in VaultAccount /\ SameLedger(vault, v) /\ amount \in Nat
      BY <1>1, <2>1, UpdateFacts, VaultAssumption
    <2>3. vault'.total_sy_in_escrow = v.total_sy_in_escrow + amount
      BY <2>1, <2>2 DEF SetSyForPt, VaultAccount
    <2> HIDE DEF v
    <2> QED
      BY <1>1, <2>2, <2>3 DEF SameLedger, Accounted
  <1>4. ASSUME NEW py \in MergeAmounts, Merge(py)
        PROVE  Accounted
    <2> DEFINE v == UpdatedVault
               amount == MergedSy(py, v)
               u == [v EXCEPT !.total_sy_in_escrow = @ - amount,
                              !.pt_supply = @ - py]
    <2>1. CanEarn(v) /\ vault' = SetSyForPt(u) /\ py <= v.pt_supply
      BY <1>4 DEF Merge, CanMerge, CanUpdateYield
    <2>2. v \in VaultAccount /\ SameLedger(vault, v) /\ py \in Nat
      BY <1>1, <2>1, UpdateFacts, VaultAssumption
    <2> HIDE DEF v, amount
    <2>3. /\ vault'.total_sy_in_escrow = v.total_sy_in_escrow - amount
          /\ vault'.pt_supply = v.pt_supply - py
      BY <2>1, <2>2 DEF SetSyForPt, VaultAccount
    <2>4. CASE py = 0
      <3>1. amount = 0
        BY <2>2, <2>4, VaultFields, RedeemNothing DEF amount, MergedSy
      <3> QED
        BY <1>1, <1>2, <2>2, <2>3, <3>1 DEF SameLedger
    <2>5. CASE py > 0
      BY <2>1, <2>2, <2>3, <2>5, VaultFields DEF SameLedger, Accounted
    <2> QED
      BY <2>2, <2>4, <2>5
  <1>5. ASSUME NEW user \in Users,
               \/ \E amount \in YtAmounts : DepositYt(user, amount)
               \/ \E amount \in YtAmounts : WithdrawYt(user, amount)
               \/ StageYield(user)
        PROVE  Accounted
    <2>1. CanEarn(UpdatedVault) /\ vault' = StagedVault(UpdatedVault, user)
      BY <1>5 DEF DepositYt, WithdrawYt, StageYield, CanUpdateYield
    <2> QED
      BY <1>1, <1>2, <2>1, UpdateFacts, StageFacts DEF SameLedger
  <1>6. ASSUME NEW user \in Users, CollectInterest(user)
        PROVE  Accounted
    <2> DEFINE v == EarnAllVault(vault, position[user])
    <2>1. PICK amount \in Claimable(position[user].interest.staged) :
            /\ WithinClaimLimits(vault.claim_limits, amount, now)
            /\ vault' = [v EXCEPT
                   !.claim_limits = CountClaim(@, amount, now),
                   !.total_sy_in_escrow = @ - amount,
                   !.uncollected_sy = @ - amount]
      BY <1>6 DEF CollectInterest
    <2>2. v \in VaultAccount /\ SameLedger(vault, v)
      BY <1>1, TypeParts, EarnAllVaultFacts DEF Holders
    <2>3. amount \in Nat
      BY <1>1, TypeParts, ClaimableFacts DEF Holders
    <2> HIDE DEF v
    <2>4. /\ vault'.total_sy_in_escrow = vault.total_sy_in_escrow - amount
          /\ vault'.claim_limits = CountClaim(vault.claim_limits, amount, now)
      BY <2>1, <2>2 DEF VaultAccount, SameLedger
    <2>5. Paid = amount
      BY <1>1, <2>3, <2>4 DEF Paid
    <2>6. CountedAsClaim
      BY <1>1, <2>1, <2>3, <2>4, <2>5, ClaimCounted DEF CountedAsClaim
    <2> QED
      BY <2>6 DEF Accounted
  <1>7. CASE CollectRobotInterest
    <2>1. PICK amount \in Claimable(position[Robot].interest.staged) :
            /\ vault' = [vault EXCEPT !.uncollected_sy = @ - amount,
                                      !.total_sy_in_escrow = @ - amount]
            /\ position' = [position EXCEPT
                   ![Robot].interest = DecStaged(@, amount)]
      BY <1>7 DEF CollectRobotInterest
    <2>2. /\ position[Robot].interest.staged \in Nat /\ amount \in Nat
          /\ amount <= position[Robot].interest.staged
      BY <1>1, TypeParts, ClaimableFacts
    <2>3. vault'.total_sy_in_escrow = vault.total_sy_in_escrow - amount
      BY <1>1, <2>1 DEF VaultAccount
    <2>4. position'[Robot].interest = DecStaged(position[Robot].interest, amount)
      BY <1>1, <2>1 DEF TypeOK, YieldTokenPosition
    <2>5. Staged(Robot)' = Staged(Robot) - amount
      BY <1>1, <2>4 DEF TypeOK, YieldTokenPosition, Tracker, DecStaged, Staged
    <2>6. Paid = amount /\ Staged(Robot) \in Nat
      BY <1>1, <2>2, <2>3 DEF Paid, Staged
    <2> QED
      BY <2>2, <2>5, <2>6 DEF Accounted
  <1>8. CASE CollectTreasuryInterest
    <2>1. PICK amount \in Claimable(vault.treasury_sy) :
            vault' = [vault EXCEPT !.treasury_sy = @ - amount,
                                   !.total_sy_in_escrow = @ - amount]
      BY <1>8 DEF CollectTreasuryInterest
    <2>2. amount \in Nat
      BY <1>1, ClaimableFacts
    <2>3. /\ vault'.total_sy_in_escrow = vault.total_sy_in_escrow - amount
          /\ vault'.treasury_sy = vault.treasury_sy - amount
      BY <1>1, <2>1 DEF VaultAccount
    <2> QED
      BY <1>1, <2>2, <2>3 DEF Accounted, Paid
  <1>9. ASSUME StillVault
        PROVE  Accounted
    BY <1>2, <1>9 DEF StillVault
  <1>10. CASE UserStep
    BY <1>1, <1>3, <1>4, <1>5, <1>6, <1>9, <1>10, StillActions DEF UserStep
  <1>11. CASE Tick \/ SyMoves \/ AdminStep
    BY <1>1, <1>7, <1>8, <1>9, <1>11, StillActions
  <1>12. CASE UNCHANGED vars
    BY <1>2, <1>12 DEF vars
  <1> QED
    BY <1>10, <1>11, <1>12 DEF Next

\* SY leaves the escrow only for PT, from the treasury's own fund, from the
\* robot's stage, or counted in full against the claim limits.
THEOREM OutflowsAccounted == Spec => EscrowOutflowsAccounted
  <1>1. [][IInv /\ [Next]_vars => Accounted]_vars
    BY StepAccounted, PTL
  <1>2. Spec => [][Accounted]_vars
    BY <1>1, Invariance, PTL DEF Spec
  <1> QED
    BY <1>2 DEF EscrowOutflowsAccounted, Accounted, CountedAsClaim, Paid

-----------------------------------------------------------------------------
(* The claims that the positions hold, and what the vault counts of them.  *)

Balance(u) == position[u].yt_balance

\* A position stages what it earns, and nothing else changes its stage.
LEMMA EarnedStaged ==
    ASSUME NEW v \in VaultAccount, NEW p \in YieldTokenPosition, CanEarn(v)
    PROVE  /\ EarnedSy(v, p) \in Nat
           /\ EarnAllPosition(v, p).interest.staged
                = p.interest.staged + EarnedSy(v, p)
  <1> DEFINE p1 == EnsureTrackers(p, Len(v.emissions))
             p2 == EarnSyInterest(v, p1)
  <1>1. Len(v.emissions) \in Nat /\ p.interest.staged \in Nat
    BY VaultFields DEF YieldTokenPosition, Tracker
  <1>2. /\ p1 \in YieldTokenPosition /\ p1.yt_balance = p.yt_balance
        /\ p1.interest = p.interest
    BY <1>1, EnsureTrackersFacts DEF SameBalance
  <1> HIDE DEF p1
  <1>3. EarnedSy(v, p1) = EarnedSy(v, p) /\ EarnedSy(v, p) \in Nat
    BY <1>2, EarnedSyType DEF EarnedSy
  <1>4. p2.interest.staged = p.interest.staged + EarnedSy(v, p1)
    <2>1. CASE InEmergency(v)
      BY <1>1, <1>2, <2>1 DEF EarnSyInterest, EarnedSy
    <2>2. CASE ~InEmergency(v)
      BY <1>2, <2>2 DEF EarnSyInterest, YieldTokenPosition
    <2> QED
      BY <2>1, <2>2
  <1>5. p2 \in YieldTokenPosition
    BY <1>2, EarnSyInterestFacts
  <1> HIDE DEF p2
  <1>6. EarnEmissions(v, p2).interest = p2.interest
    BY <1>5, EarnEmissionsFacts
  <1>7. EarnAllPosition(v, p) = EarnEmissions(v, p2)
    BY DEF EarnAllPosition, p1, p2
  <1> QED
    BY <1>3, <1>4, <1>6, <1>7

\* Resetting the backing of PT and reading the SY program leave it alone.
LEMMA UncollectedKept ==
    ASSUME NEW v \in VaultAccount
    PROVE  /\ SetSyForPt(v).uncollected_sy = v.uncollected_sy
           /\ \A s, t : UpdateFromSyState(v, s, t).uncollected_sy
                          = v.uncollected_sy
  BY DEF SetSyForPt, UpdateFromSyState, SeenState, VaultAccount

\* update_vault_yield stages for the robot what it adds to the vault's count.
LEMMA RobotStages ==
    ASSUME TypeOK, CanEarn(UpdatedVault)
    PROVE  \E earned \in Nat :
             /\ UpdatedVault.uncollected_sy = vault.uncollected_sy + earned
             /\ UpdatedRobot.interest.staged = Staged(Robot) + earned
  <1> DEFINE s == SeenVault
  <1>1. /\ vault \in VaultAccount /\ now \in Nat
        /\ sy \in [exchange_rate : Rates, emission_indexes : Seq(Nat)]
        /\ position[Robot] \in YieldTokenPosition
    BY DEF TypeOK, SyTypeOK, Holders
  <1>2. s \in VaultAccount /\ s.uncollected_sy = vault.uncollected_sy
    BY <1>1, UpdateFromSyStateFacts, UncollectedKept DEF SeenVault
  <1> HIDE DEF s
  <1>3. UpdatedVault = EarnAllVault(s, position[Robot])
        /\ UpdatedRobot = EarnAllPosition(s, position[Robot])
    BY DEF UpdatedVault, UpdatedRobot, s
  <1>4. CanEarn(s)
    BY <1>1, <1>2, <1>3, EarnAllVaultFacts DEF CanEarn, SameRates
  <1>5. UpdatedVault.uncollected_sy
          = s.uncollected_sy + EarnedSy(s, position[Robot])
    BY <1>2, <1>3 DEF EarnAllVault, VaultAccount
  <1>6. /\ EarnedSy(s, position[Robot]) \in Nat
        /\ UpdatedRobot.interest.staged
             = position[Robot].interest.staged + EarnedSy(s, position[Robot])
    BY <1>1, <1>2, <1>3, <1>4, EarnedStaged
  <1> QED
    BY <1>2, <1>5, <1>6 DEF Staged

\* So does the staging of a user's position.
LEMMA UserStages ==
    ASSUME TypeOK, NEW v \in VaultAccount, CanEarn(v), NEW user \in Users
    PROVE  \E earned \in Nat :
             /\ StagedVault(v, user).uncollected_sy = v.uncollected_sy + earned
             /\ StagedPosition(v, user).interest.staged = Staged(user) + earned
  <1>1. vault \in VaultAccount /\ position[user] \in YieldTokenPosition
    BY DEF TypeOK, Holders
  <1> DEFINE w == EarnAllVault(v, position[user])
             p == EarnAllPosition(v, position[user])
             e == EarnedSy(v, position[user])
  <1>2. w \in VaultAccount /\ w.uncollected_sy = v.uncollected_sy + e
    BY <1>1, EarnAllVaultFacts DEF EarnAllVault, VaultAccount
  <1>3. e \in Nat /\ p.interest.staged = position[user].interest.staged + e
    BY <1>1, EarnedStaged
  <1>4. p \in YieldTokenPosition
    BY <1>1, EarnAllPositionFacts
  <1>5. StagedVault(v, user) = SetSyForPt(w)
        /\ StagedPosition(v, user) = Realloc(p)
    BY DEF StagedVault, StagedPosition
  <1> HIDE DEF w, p, e
  <1> QED
    BY <1>1, <1>2, <1>3, <1>4, <1>5, UncollectedKept, ReallocFacts DEF Staged

\* What a step that stages, pays or moves YT does to the stages, to the vault's
\* count of them, to the YT and to the escrow of YT: for the robot alone, for
\* one user and the robot, or for a user whose position is new.
SameHolding(h) ==
    /\ Staged(h)' = Staged(h)
    /\ Balance(h)' = Balance(h)

RobotMove ==
    /\ \A h \in Holders \ {Robot} : SameHolding(h)
    /\ vault'.uncollected_sy + Staged(Robot)
         = vault.uncollected_sy + Staged(Robot)'
    /\ tokens'.escrow_yt = tokens.escrow_yt
    /\ opened' = opened

UserMove(u) ==
    /\ u \in opened
    /\ \A h \in Holders \ {u, Robot} : SameHolding(h)
    /\ vault'.uncollected_sy + Staged(Robot) + Staged(u)
         = vault.uncollected_sy + Staged(Robot)' + Staged(u)'
    /\ tokens'.escrow_yt + Balance(u) = tokens.escrow_yt + Balance(u)'
    /\ opened' = opened

OpeningMove(u) ==
    /\ u \notin opened
    /\ \A h \in Holders \ {u} : SameHolding(h)
    /\ Staged(u)' = 0 /\ Balance(u)' = 0
    /\ vault'.uncollected_sy = vault.uncollected_sy
    /\ tokens'.escrow_yt = tokens.escrow_yt
    /\ opened' = opened \cup {u}

LEMMA HoldingTypes ==
    ASSUME TypeOK
    PROVE  \A h \in Holders : Staged(h) \in Nat /\ Balance(h) \in Nat
  BY TypeParts DEF Staged, Balance

LEMMA HoldingTypesAfter ==
    ASSUME TypeOK'
    PROVE  /\ \A h \in Holders : Staged(h)' \in Nat /\ Balance(h)' \in Nat
           /\ vault'.uncollected_sy \in Nat /\ tokens'.escrow_yt \in Nat
  BY DEF TypeOK, Staged, Balance, VaultAccount, YieldTokenPosition, Tracker

LEMMA HoldersFacts ==
    /\ IsFiniteSet(Users) /\ IsFiniteSet(Holders)
    /\ Users \subseteq Holders /\ Robot \in Holders /\ Robot \notin Users
  BY VaultAssumption, FS_AddElement DEF Holders

\* Such steps keep the vault's counts equal to the sums.
LEMMA RobotMoveCounts ==
    ASSUME TypeOK, TypeOK', UncollectedIsStaged, YtEscrowIsUserYt, RobotMove
    PROVE  UncollectedIsStaged' /\ YtEscrowIsUserYt'
  <1> DEFINE s == [h \in Holders |-> Staged(h)]
             t == [h \in Holders |-> Staged(h)']
             b == [u \in Users |-> position[u].yt_balance]
             c == [u \in Users |-> position'[u].yt_balance]
  <1>1. /\ \A h \in Holders : s[h] \in Nat /\ t[h] \in Nat
        /\ \A h \in Holders \ {Robot} : t[h] = s[h]
        /\ s[Robot] = Staged(Robot) /\ t[Robot] = Staged(Robot)'
    BY HoldingTypes, HoldingTypesAfter, HoldersFacts DEF RobotMove, SameHolding
  <1>2. \A u \in Users : b[u] = c[u]
    BY HoldersFacts DEF RobotMove, SameHolding, Balance
  <1>3. /\ vault.uncollected_sy = SumOver(s, Holders)
        /\ tokens.escrow_yt = SumOver(b, Users)
    BY DEF UncollectedIsStaged, StagedSy, YtEscrowIsUserYt, UserYt
  <1> HIDE DEF s, t, b, c
  <1>4. /\ SumOver(t, Holders) + s[Robot] = SumOver(s, Holders) + t[Robot]
        /\ SumOver(s, Holders) \in Nat /\ SumOver(t, Holders) \in Nat
    BY <1>1, HoldersFacts, SumChange
  <1>5. SumOver(b, Users) = SumOver(c, Users)
    BY <1>2, SumSame
  <1>6. vault'.uncollected_sy \in Nat /\ s[Robot] \in Nat /\ t[Robot] \in Nat
    BY <1>1, HoldersFacts, HoldingTypesAfter
  <1>7. vault'.uncollected_sy = SumOver(t, Holders)
    BY <1>1, <1>3, <1>4, <1>6 DEF RobotMove
  <1>8. tokens'.escrow_yt = SumOver(c, Users)
    BY <1>3, <1>5 DEF RobotMove
  <1> QED
    BY <1>7, <1>8
    DEF UncollectedIsStaged, StagedSy, YtEscrowIsUserYt, UserYt, t, c

LEMMA UserMoveCounts ==
    ASSUME TypeOK, TypeOK', UncollectedIsStaged, YtEscrowIsUserYt,
           NEW u \in Users, UserMove(u)
    PROVE  UncollectedIsStaged' /\ YtEscrowIsUserYt'
  <1> DEFINE s == [h \in Holders |-> Staged(h)]
             t == [h \in Holders |-> Staged(h)']
             r == [h \in Holders |-> IF h = u THEN s[h] ELSE t[h]]
             b == [h \in Users |-> position[h].yt_balance]
             c == [h \in Users |-> position'[h].yt_balance]
  <1>1. /\ \A h \in Holders : s[h] \in Nat /\ t[h] \in Nat /\ r[h] \in Nat
        /\ \A h \in Holders \ {Robot} : r[h] = s[h]
        /\ \A h \in Holders \ {u} : t[h] = r[h]
        /\ s[Robot] = Staged(Robot) /\ r[Robot] = Staged(Robot)'
        /\ r[u] = Staged(u) /\ t[u] = Staged(u)'
    BY HoldingTypes, HoldingTypesAfter, HoldersFacts DEF UserMove, SameHolding
  <1>2. /\ \A h \in Users : b[h] \in Nat /\ c[h] \in Nat
        /\ \A h \in Users \ {u} : c[h] = b[h]
        /\ b[u] = Balance(u) /\ c[u] = Balance(u)'
    <2>1. \A h \in Users : h \in Holders /\ h # Robot /\ u \in Holders
      BY HoldersFacts
    <2>2. \A h \in Users : b[h] = Balance(h) /\ c[h] = Balance(h)'
      BY DEF Balance
    <2> HIDE DEF b, c
    <2> QED
      BY <2>1, <2>2, HoldingTypes, HoldingTypesAfter DEF UserMove, SameHolding
  <1>3. /\ vault.uncollected_sy = SumOver(s, Holders)
        /\ tokens.escrow_yt = SumOver(b, Users)
    BY DEF UncollectedIsStaged, StagedSy, YtEscrowIsUserYt, UserYt
  <1> HIDE DEF s, t, r, b, c
  <1>4. /\ SumOver(r, Holders) + s[Robot] = SumOver(s, Holders) + r[Robot]
        /\ SumOver(s, Holders) \in Nat /\ SumOver(r, Holders) \in Nat
    BY <1>1, HoldersFacts, SumChange
  <1>5. /\ SumOver(t, Holders) + r[u] = SumOver(r, Holders) + t[u]
        /\ SumOver(t, Holders) \in Nat
    BY <1>1, HoldersFacts, SumChange
  <1>6. /\ SumOver(c, Users) + b[u] = SumOver(b, Users) + c[u]
        /\ SumOver(b, Users) \in Nat /\ SumOver(c, Users) \in Nat
    BY <1>2, HoldersFacts, SumChange
  <1>7. /\ vault'.uncollected_sy \in Nat /\ tokens'.escrow_yt \in Nat
        /\ s[Robot] \in Nat /\ r[Robot] \in Nat /\ r[u] \in Nat /\ t[u] \in Nat
        /\ b[u] \in Nat /\ c[u] \in Nat
    BY <1>1, <1>2, HoldersFacts, HoldingTypesAfter
  <1>8. vault'.uncollected_sy = SumOver(t, Holders)
    BY <1>1, <1>3, <1>4, <1>5, <1>7 DEF UserMove
  <1>9. tokens'.escrow_yt = SumOver(c, Users)
    BY <1>2, <1>3, <1>6, <1>7 DEF UserMove
  <1> QED
    BY <1>8, <1>9
    DEF UncollectedIsStaged, StagedSy, YtEscrowIsUserYt, UserYt, t, c

\* A position that no user opened holds nothing.
UnopenedAreEmpty ==
    \A u \in Users : u \notin opened => Staged(u) = 0 /\ Balance(u) = 0

LEMMA OpeningMoveCounts ==
    ASSUME UncollectedIsStaged, YtEscrowIsUserYt, UnopenedAreEmpty,
           NEW u \in Users, OpeningMove(u)
    PROVE  UncollectedIsStaged' /\ YtEscrowIsUserYt'
  <1> DEFINE s == [h \in Holders |-> Staged(h)]
             t == [h \in Holders |-> Staged(h)']
             b == [h \in Users |-> position[h].yt_balance]
             c == [h \in Users |-> position'[h].yt_balance]
  <1>1. /\ \A h \in Holders : s[h] = t[h]
        /\ \A h \in Users : b[h] = c[h]
    BY HoldersFacts
    DEF OpeningMove, SameHolding, UnopenedAreEmpty, Staged, Balance
  <1>2. /\ vault.uncollected_sy = SumOver(s, Holders)
        /\ tokens.escrow_yt = SumOver(b, Users)
    BY DEF UncollectedIsStaged, StagedSy, YtEscrowIsUserYt, UserYt
  <1> HIDE DEF s, t, b, c
  <1>3. /\ SumOver(s, Holders) = SumOver(t, Holders)
        /\ SumOver(b, Users) = SumOver(c, Users)
    BY <1>1, SumSame
  <1>4. /\ vault'.uncollected_sy = SumOver(t, Holders)
        /\ tokens'.escrow_yt = SumOver(c, Users)
    BY <1>2, <1>3 DEF OpeningMove
  <1> QED
    BY <1>4 DEF UncollectedIsStaged, StagedSy, YtEscrowIsUserYt, UserYt, t, c

\* A step that only the robot's stage can move in.
LEMMA RobotOnly ==
    ASSUME TypeOK, NEW r, position' = [position EXCEPT ![Robot] = r],
           vault'.uncollected_sy + Staged(Robot)
             = vault.uncollected_sy + r.interest.staged,
           tokens'.escrow_yt = tokens.escrow_yt, opened' = opened
    PROVE  RobotMove
  <1>1. position \in [Holders -> YieldTokenPosition]
    BY DEF TypeOK
  <1> QED
    BY <1>1, HoldersFacts DEF RobotMove, SameHolding, Staged, Balance

\* A step in which nobody's stage moves.
LEMMA NobodyMoves ==
    ASSUME TypeOK, \A h \in Holders : SameHolding(h),
           vault'.uncollected_sy = vault.uncollected_sy,
           tokens'.escrow_yt = tokens.escrow_yt, opened' = opened
    PROVE  RobotMove
  BY HoldersFacts DEF RobotMove, SameHolding

\* strip and merge: the robot earns.
LEMMA SupplyMoves ==
    ASSUME TypeOK,
           \/ \E amount \in StripAmounts : Strip(amount)
           \/ \E py \in MergeAmounts : Merge(py)
    PROVE  RobotMove
  <1> DEFINE v == UpdatedVault
             robot == UpdatedRobot
  <1>1. CanEarn(v)
    BY DEF Strip, Merge, CanMerge, CanUpdateYield
  <1>2. v \in VaultAccount /\ robot \in YieldTokenPosition
    BY <1>1, UpdateFacts
  <1>3. PICK earned \in Nat :
          /\ v.uncollected_sy = vault.uncollected_sy + earned
          /\ robot.interest.staged = Staged(Robot) + earned
    BY <1>1, RobotStages
  <1>4. vault.uncollected_sy \in Nat /\ Staged(Robot) \in Nat
    BY TypeParts, HoldersFacts DEF Staged
  <1>5. ASSUME NEW u \in VaultAccount, u.uncollected_sy = v.uncollected_sy,
               vault' = SetSyForPt(u),
               NEW r, position' = [position EXCEPT ![Robot] = r],
               r.interest = robot.interest,
               tokens'.escrow_yt = tokens.escrow_yt, opened' = opened
        PROVE  RobotMove
    <2>1. vault'.uncollected_sy = vault.uncollected_sy + earned
      BY <1>3, <1>5, UncollectedKept
    <2>2. r.interest.staged = Staged(Robot) + earned
      BY <1>3, <1>5
    <2>3. vault'.uncollected_sy + Staged(Robot)
            = vault.uncollected_sy + r.interest.staged
      BY <1>4, <2>1, <2>2
    <2> QED
      BY <1>5, <2>3, RobotOnly
  <1>6. ASSUME NEW amount \in StripAmounts, Strip(amount)
        PROVE  RobotMove
    <2> DEFINE py == SyToPy(v.last_seen_sy_exchange_rate, amount)
               u == [v EXCEPT !.total_sy_in_escrow = @ + amount,
                              !.pt_supply = @ + py]
               r == IncYtBalance(robot, py)
    <2>1. /\ vault' = SetSyForPt(u)
          /\ position' = [position EXCEPT ![Robot] = r]
          /\ tokens' = [tokens EXCEPT !.mint_pt = @ + py, !.yt_wallets = @ + py]
          /\ opened' = opened
      BY <1>6 DEF Strip
    <2>2. py \in Nat /\ amount \in Nat
      BY <1>2, VaultFields, SyToPyType, VaultAssumption
    <2> HIDE DEF v, py
    <2>3. /\ v.total_sy_in_escrow + amount \in Nat
          /\ v.pt_supply + py \in Nat
      BY <1>2, <2>2, VaultFields
    <2>4. u \in VaultAccount /\ u.uncollected_sy = v.uncollected_sy
      BY <1>2, <2>3 DEF VaultAccount
    <2>5. r.interest = robot.interest
      BY <1>2, <2>2, IncYtBalanceFacts
    <2>6. tokens'.escrow_yt = tokens.escrow_yt
      BY <2>1 DEF TypeOK
    <2> HIDE DEF u, r
    <2> QED
      BY <1>5, <2>1, <2>4, <2>5, <2>6
  <1>7. ASSUME NEW py \in MergeAmounts, Merge(py)
        PROVE  RobotMove
    <2> DEFINE amount == MergedSy(py, v)
               burned == BurnedYt(py)
               u == [v EXCEPT !.total_sy_in_escrow = @ - amount,
                              !.pt_supply = @ - py]
               r == DecYtBalance(robot, burned)
    <2>1. /\ vault' = SetSyForPt(u)
          /\ position' = [position EXCEPT ![Robot] = r]
          /\ tokens' = [tokens EXCEPT !.mint_pt = @ - py,
                                      !.yt_wallets = @ - burned]
          /\ opened' = opened
          /\ amount <= v.total_sy_in_escrow /\ py <= v.pt_supply
      BY <1>7 DEF Merge, CanMerge
    <2>2. /\ py \in Nat /\ amount \in Nat
      BY <1>2, VaultFields, RedeemPtType, VaultAssumption DEF MergedSy
    <2> HIDE DEF v, amount
    <2>3. /\ v.total_sy_in_escrow - amount \in Nat
          /\ v.pt_supply - py \in Nat
      BY <1>2, <2>1, <2>2, VaultFields
    <2>4. u \in VaultAccount /\ u.uncollected_sy = v.uncollected_sy
      BY <1>2, <2>3 DEF VaultAccount
    <2>5. r.interest = robot.interest
      BY <1>2 DEF DecYtBalance, YieldTokenPosition
    <2>6. tokens'.escrow_yt = tokens.escrow_yt
      BY <2>1 DEF TypeOK
    <2> HIDE DEF u, r
    <2> QED
      BY <1>5, <2>1, <2>4, <2>5, <2>6
  <1> QED
    BY <1>6, <1>7

\* The instructions that stage a user's yield and then move YT between the
\* user's position and the robot's.
LEMMA StagingMoves ==
    ASSUME TypeOK, NEW user \in Users, user \in opened,
           CanEarn(UpdatedVault),
           vault' = StagedVault(UpdatedVault, user),
           NEW p, NEW r,
           position' = [position EXCEPT ![user] = p, ![Robot] = r],
           p.interest = StagedPosition(UpdatedVault, user).interest,
           r.interest = UpdatedRobot.interest,
           tokens'.escrow_yt + Balance(user) = tokens.escrow_yt + p.yt_balance,
           opened' = opened
    PROVE  UserMove(user)
  <1> DEFINE v == UpdatedVault
             staged == StagedPosition(v, user)
             robot == UpdatedRobot
  <1>1. v \in VaultAccount
    BY UpdateFacts
  <1>2. PICK e \in Nat :
          /\ v.uncollected_sy = vault.uncollected_sy + e
          /\ robot.interest.staged = Staged(Robot) + e
    BY RobotStages
  <1>3. PICK f \in Nat :
          /\ vault'.uncollected_sy = v.uncollected_sy + f
          /\ staged.interest.staged = Staged(user) + f
    BY <1>1, UserStages
  <1>4. /\ position \in [Holders -> YieldTokenPosition]
        /\ user \in Holders /\ Robot \in Holders /\ user # Robot
    BY HoldersFacts DEF TypeOK
  <1>5. /\ position'[user] = p /\ position'[Robot] = r
        /\ \A h \in Holders \ {user, Robot} : position'[h] = position[h]
    BY <1>4
  <1>6. /\ Staged(Robot)' = Staged(Robot) + e
        /\ Staged(user)' = Staged(user) + f
        /\ Balance(user)' = p.yt_balance
    BY <1>2, <1>3, <1>5 DEF Staged, Balance
  <1>7. /\ vault.uncollected_sy \in Nat
        /\ Staged(Robot) \in Nat /\ Staged(user) \in Nat
    BY <1>4, TypeParts DEF Staged
  <1>8. vault'.uncollected_sy + Staged(Robot) + Staged(user)
          = vault.uncollected_sy + Staged(Robot)' + Staged(user)'
    BY <1>2, <1>3, <1>6, <1>7
  <1>9. \A h \in Holders \ {user, Robot} : SameHolding(h)
    BY <1>5 DEF SameHolding, Staged, Balance
  <1> QED
    BY <1>6, <1>8, <1>9 DEF UserMove

LEMMA DepositYtMoves ==
    ASSUME TypeOK, NEW user \in Users, NEW amount \in YtAmounts,
           DepositYt(user, amount)
    PROVE  UserMove(user)
  <1> DEFINE staged == StagedPosition(UpdatedVault, user)
             p == IncYtBalance(staged, amount)
             r == DecYtBalance(UpdatedRobot, amount)
  <1>1. /\ CanEarn(UpdatedVault) /\ user \in opened
        /\ vault' = StagedVault(UpdatedVault, user)
        /\ position' = [position EXCEPT ![user] = p, ![Robot] = r]
        /\ tokens' = [tokens EXCEPT !.yt_wallets = @ - amount,
                                    !.escrow_yt = @ + amount]
        /\ opened' = opened
    BY DEF DepositYt, CanUpdateYield
  <1>2. /\ staged \in YieldTokenPosition /\ staged.yt_balance = Balance(user)
        /\ UpdatedRobot \in YieldTokenPosition
    BY <1>1, UpdateFacts, StageFacts DEF Balance
  <1>3. amount \in Nat /\ Balance(user) \in Nat /\ tokens.escrow_yt \in Nat
    BY VaultAssumption, HoldersFacts, HoldingTypes, TypeParts
  <1> HIDE DEF staged
  <1>4. p.interest = staged.interest /\ p.yt_balance = Balance(user) + amount
    BY <1>2, <1>3, IncYtBalanceFacts
  <1>5. r.interest = UpdatedRobot.interest
    BY <1>2 DEF DecYtBalance, YieldTokenPosition
  <1>6. tokens'.escrow_yt = tokens.escrow_yt + amount
    BY <1>1 DEF TypeOK
  <1> HIDE DEF p, r
  <1>7. tokens'.escrow_yt + Balance(user) = tokens.escrow_yt + p.yt_balance
    BY <1>3, <1>4, <1>6
  <1> QED
    BY <1>1, <1>4, <1>5, <1>7, StagingMoves DEF staged

LEMMA WithdrawYtMoves ==
    ASSUME TypeOK, NEW user \in Users, NEW amount \in YtAmounts,
           WithdrawYt(user, amount)
    PROVE  UserMove(user)
  <1> DEFINE staged == StagedPosition(UpdatedVault, user)
             p == DecYtBalance(staged, amount)
             r == IncYtBalance(UpdatedRobot, amount)
  <1>1. /\ CanEarn(UpdatedVault) /\ user \in opened
        /\ vault' = StagedVault(UpdatedVault, user)
        /\ position' = [position EXCEPT ![user] = p, ![Robot] = r]
        /\ tokens' = [tokens EXCEPT !.yt_wallets = @ + amount,
                                    !.escrow_yt = @ - amount]
        /\ opened' = opened
        /\ amount <= Balance(user) /\ amount <= tokens.escrow_yt
    BY DEF WithdrawYt, CanUpdateYield, Balance
  <1>2. /\ staged \in YieldTokenPosition /\ staged.yt_balance = Balance(user)
        /\ UpdatedRobot \in YieldTokenPosition
    BY <1>1, UpdateFacts, StageFacts DEF Balance
  <1>3. amount \in Nat /\ Balance(user) \in Nat /\ tokens.escrow_yt \in Nat
    BY VaultAssumption, HoldersFacts, HoldingTypes, TypeParts
  <1> HIDE DEF staged
  <1>4. p.interest = staged.interest /\ p.yt_balance = Balance(user) - amount
    BY <1>1, <1>2, <1>3, DecYtBalanceFacts
  <1>5. r.interest = UpdatedRobot.interest
    BY <1>2 DEF IncYtBalance, YieldTokenPosition
  <1>6. tokens'.escrow_yt = tokens.escrow_yt - amount
    BY <1>1 DEF TypeOK
  <1> HIDE DEF p, r
  <1>7. tokens'.escrow_yt + Balance(user) = tokens.escrow_yt + p.yt_balance
    BY <1>1, <1>3, <1>4, <1>6
  <1> QED
    BY <1>1, <1>4, <1>5, <1>7, StagingMoves DEF staged

LEMMA StageYieldMoves ==
    ASSUME TypeOK, NEW user \in Users, StageYield(user)
    PROVE  UserMove(user)
  <1> DEFINE staged == StagedPosition(UpdatedVault, user)
  <1>1. /\ CanEarn(UpdatedVault) /\ user \in opened
        /\ vault' = StagedVault(UpdatedVault, user)
        /\ position' = [position EXCEPT ![user] = staged,
                                        ![Robot] = UpdatedRobot]
        /\ tokens' = tokens /\ opened' = opened
    BY DEF StageYield, CanUpdateYield
  <1>2. staged.yt_balance = Balance(user)
    BY <1>1, UpdateFacts, StageFacts DEF Balance
  <1> HIDE DEF staged
  <1>3. tokens'.escrow_yt + Balance(user) = tokens.escrow_yt + staged.yt_balance
    BY <1>1, <1>2
  <1> QED
    BY <1>1, <1>3, StagingMoves DEF staged

\* A claim takes off the stage and off the vault's count what it pays.
LEMMA CollectInterestMoves ==
    ASSUME TypeOK, NEW user \in Users, CollectInterest(user)
    PROVE  UserMove(user)
  <1> DEFINE p == EarnAllPosition(vault, position[user])
             v == EarnAllVault(vault, position[user])
             e == EarnedSy(vault, position[user])
  <1>1. PICK amount \in Claimable(position[user].interest.staged) :
          /\ user \in opened /\ CanEarn(vault)
          /\ amount <= v.uncollected_sy
          /\ vault' = [v EXCEPT
                 !.claim_limits = CountClaim(@, amount, now),
                 !.total_sy_in_escrow = @ - amount,
                 !.uncollected_sy = @ - amount]
          /\ position' = [position EXCEPT
                 ![user] = [p EXCEPT !.interest = DecStaged(@, amount)]]
          /\ tokens' = tokens /\ opened' = opened
    BY DEF CollectInterest
  <1>2. /\ position \in [Holders -> YieldTokenPosition]
        /\ vault \in VaultAccount
        /\ user \in Holders /\ Robot \in Holders /\ user # Robot
        /\ position[user] \in YieldTokenPosition
        /\ Staged(user) \in Nat /\ Staged(Robot) \in Nat
        /\ vault.uncollected_sy \in Nat
    BY HoldersFacts, TypeParts DEF TypeOK, Staged
  <1>3. amount \in Nat /\ amount <= Staged(user)
    BY <1>1, <1>2, ClaimableFacts DEF Staged
  <1>4. v \in VaultAccount /\ v.uncollected_sy = vault.uncollected_sy + e
    BY <1>2, EarnAllVaultFacts DEF EarnAllVault, VaultAccount
  <1>5. /\ e \in Nat /\ p.interest.staged = Staged(user) + e
        /\ p \in YieldTokenPosition /\ p.yt_balance = Balance(user)
    BY <1>1, <1>2, EarnedStaged, EarnAllPositionFacts
    DEF Staged, Balance, SameBalance
  <1> HIDE DEF p, v, e
  <1>6. vault'.uncollected_sy = v.uncollected_sy - amount
    BY <1>1, <1>4 DEF VaultAccount
  <1> DEFINE q == [p EXCEPT !.interest = DecStaged(@, amount)]
  <1>7. /\ q.interest.staged = p.interest.staged - amount
        /\ q.yt_balance = p.yt_balance
    <2>1. amount <= p.interest.staged
      BY <1>2, <1>3, <1>5
    <2> QED
      BY <1>3, <1>5, <2>1, InterestClaimFacts DEF SameBalance
  <1>8. /\ position'[user] = q /\ position'[Robot] = position[Robot]
        /\ \A h \in Holders \ {user, Robot} : position'[h] = position[h]
    BY <1>1, <1>2
  <1> HIDE DEF q
  <1>9. /\ Staged(user)' = Staged(user) + e - amount
        /\ Staged(Robot)' = Staged(Robot)
        /\ Balance(user)' = Balance(user)
    <2>1. Staged(user)' = q.interest.staged /\ Balance(user)' = q.yt_balance
          /\ Staged(Robot)' = Staged(Robot)
      BY <1>8 DEF Staged, Balance
    <2>2. q.interest.staged = Staged(user) + e - amount
      BY <1>2, <1>3, <1>5, <1>7
    <2> QED
      BY <1>5, <1>7, <2>1, <2>2
  <1>10. vault'.uncollected_sy + Staged(Robot) + Staged(user)
           = vault.uncollected_sy + Staged(Robot)' + Staged(user)'
    BY <1>2, <1>3, <1>4, <1>5, <1>6, <1>9
  <1>11. \A h \in Holders \ {user, Robot} : SameHolding(h)
    BY <1>8 DEF SameHolding, Staged, Balance
  <1> QED
    BY <1>1, <1>9, <1>10, <1>11 DEF UserMove

LEMMA InitializeMoves ==
    ASSUME TypeOK, NEW user \in Users, InitializeYieldPosition(user)
    PROVE  OpeningMove(user)
  <1>1. /\ user \notin opened /\ opened' = opened \cup {user}
        /\ position' = [position EXCEPT ![user] = Realloc(NewPosition)]
        /\ vault' = vault /\ tokens' = tokens
    BY DEF InitializeYieldPosition
  <1>2. position \in [Holders -> YieldTokenPosition] /\ user \in Holders
    BY HoldersFacts DEF TypeOK
  <1>3. /\ Realloc(NewPosition).yt_balance = 0
        /\ Realloc(NewPosition).interest.staged = 0
    BY DEF Realloc, NewPosition, NewTracker
  <1>4. /\ position'[user] = Realloc(NewPosition)
        /\ \A h \in Holders \ {user} : position'[h] = position[h]
    BY <1>1, <1>2
  <1>5. \A h \in Holders \ {user} : SameHolding(h)
    BY <1>4 DEF SameHolding, Staged, Balance
  <1> QED
    BY <1>1, <1>3, <1>4, <1>5 DEF OpeningMove, Staged, Balance

\* A claim of an emission leaves the interest alone.
LEMMA EmissionClaimMoves ==
    ASSUME TypeOK, NEW holder \in Holders, NEW i, NEW amount,
           position' = [position EXCEPT
               ![holder].emissions[i] = DecStaged(@, amount)],
           vault' = vault, tokens' = tokens, opened' = opened
    PROVE  RobotMove
  <1>1. position \in [Holders -> YieldTokenPosition]
    BY DEF TypeOK
  <1>2. \A h \in Holders : SameHolding(h)
    BY <1>1 DEF YieldTokenPosition, SameHolding, Staged, Balance
  <1> QED
    BY <1>2, NobodyMoves

Moves ==
    \/ RobotMove
    \/ \E user \in Users : UserMove(user)
    \/ \E user \in Users : OpeningMove(user)

LEMMA UserStepMoves ==
    ASSUME TypeOK, UserStep
    PROVE  Moves
  <1>1. ASSUME NEW user \in Users,
               \/ InitializeYieldPosition(user)
               \/ \E amount \in YtAmounts : DepositYt(user, amount)
               \/ \E amount \in YtAmounts : WithdrawYt(user, amount)
               \/ StageYield(user)
               \/ CollectInterest(user)
        PROVE  Moves
    BY <1>1, InitializeMoves, DepositYtMoves, WithdrawYtMoves, StageYieldMoves,
       CollectInterestMoves DEF Moves
  <1>2. ASSUME NEW user \in Users, NEW i \in 1..MaxStreams,
               CollectEmission(user, i)
        PROVE  Moves
    <2>1. PICK amount :
            /\ position' = [position EXCEPT
                   ![user].emissions[i] = DecStaged(@, amount)]
            /\ vault' = vault /\ tokens' = tokens /\ opened' = opened
      BY <1>2 DEF CollectEmission
    <2>2. user \in Holders
      BY HoldersFacts
    <2> QED
      BY <2>1, <2>2, EmissionClaimMoves DEF Moves
  <1>3. ASSUME \/ \E amount \in StripAmounts : Strip(amount)
               \/ \E py \in MergeAmounts : Merge(py)
        PROVE  Moves
    BY <1>3, SupplyMoves DEF Moves
  <1> QED
    BY <1>1, <1>2, <1>3 DEF UserStep

LEMMA AdminStepMoves ==
    ASSUME TypeOK, AdminStep
    PROVE  Moves
  <1>1. /\ position \in [Holders -> YieldTokenPosition]
        /\ vault \in VaultAccount
    BY DEF TypeOK
  <1>2. ASSUME vault'.uncollected_sy = vault.uncollected_sy,
               position' = position, tokens' = tokens, opened' = opened
        PROVE  Moves
    BY <1>2, NobodyMoves DEF SameHolding, Staged, Balance, Moves
  <1>3. ASSUME NEW bps \in EmissionFees, AddEmission(bps)
        PROVE  Moves
    <2>1. \A h \in Holders : SameHolding(h)
      BY <1>1, <1>3 DEF AddEmission, YieldTokenPosition, SameHolding, Staged,
                        Balance
    <2>2. /\ vault'.uncollected_sy = vault.uncollected_sy
          /\ tokens'.escrow_yt = tokens.escrow_yt /\ opened' = opened
      BY <1>1, <1>3 DEF AddEmission, VaultAccount
    <2> QED
      BY <2>1, <2>2, NobodyMoves DEF Moves
  <1>4. ASSUME NEW i \in 1..MaxStreams, CollectRobotEmission(i)
        PROVE  Moves
    <2>1. PICK amount :
            /\ position' = [position EXCEPT
                   ![Robot].emissions[i] = DecStaged(@, amount)]
            /\ vault' = vault /\ tokens' = tokens /\ opened' = opened
      BY <1>4 DEF CollectRobotEmission
    <2> QED
      BY <2>1, HoldersFacts, EmissionClaimMoves DEF Moves
  <1>5. CASE CollectRobotInterest
    <2>1. PICK amount \in Claimable(position[Robot].interest.staged) :
            /\ amount <= vault.uncollected_sy
            /\ vault' = [vault EXCEPT !.uncollected_sy = @ - amount,
                                      !.total_sy_in_escrow = @ - amount]
            /\ position' = [position EXCEPT
                   ![Robot].interest = DecStaged(@, amount)]
            /\ tokens' = tokens /\ opened' = opened
      BY <1>5 DEF CollectRobotInterest
    <2> DEFINE r == [position[Robot] EXCEPT !.interest = DecStaged(@, amount)]
    <2>2. position' = [position EXCEPT ![Robot] = r]
      BY <1>1, <2>1, HoldersFacts
    <2>3. /\ position[Robot] \in YieldTokenPosition /\ amount \in Nat
          /\ amount <= Staged(Robot) /\ Staged(Robot) \in Nat
          /\ vault.uncollected_sy \in Nat
      BY <2>1, TypeParts, HoldersFacts, ClaimableFacts DEF Staged
    <2>4. r.interest.staged = Staged(Robot) - amount
      BY <2>3, InterestClaimFacts DEF Staged
    <2>5. vault'.uncollected_sy = vault.uncollected_sy - amount
      BY <1>1, <2>1 DEF VaultAccount
    <2> HIDE DEF r
    <2>6. vault'.uncollected_sy + Staged(Robot)
            = vault.uncollected_sy + r.interest.staged
      BY <2>3, <2>4, <2>5
    <2> QED
      BY <2>1, <2>2, <2>6, RobotOnly DEF Moves
  <1>6. ASSUME NEW i \in 1..MaxStreams,
               \/ RemoveVaultEmission(i)
               \/ CollectTreasuryEmission(i)
               \/ \E bps \in FeeChoices : ChangeEmissionBpsFee(i, bps)
        PROVE  Moves
    <2>1. /\ vault'.uncollected_sy = vault.uncollected_sy
          /\ position' = position /\ tokens' = tokens /\ opened' = opened
      BY <1>1, <1>6 DEF RemoveVaultEmission, CollectTreasuryEmission,
                        ChangeEmissionBpsFee, VaultAccount
    <2> QED
      BY <1>2, <2>1
  <1>7. CASE CollectTreasuryInterest \/ ChangeCpiAccounts
    <2>1. /\ vault'.uncollected_sy = vault.uncollected_sy
          /\ position' = position /\ tokens' = tokens /\ opened' = opened
      BY <1>1, <1>7 DEF CollectTreasuryInterest, ChangeCpiAccounts, VaultAccount
    <2> QED
      BY <1>2, <2>1
  <1>8. ASSUME NEW role, NEW status, SetVaultStatus(role, status)
        PROVE  Moves
    BY <1>1, <1>2, <1>8 DEF SetVaultStatus, VaultAccount
  <1>9. ASSUME NEW is_strip, NEW size, ChangeMinOperationSize(is_strip, size)
        PROVE  Moves
    BY <1>1, <1>2, <1>9 DEF ChangeMinOperationSize, VaultAccount
  <1>10. ASSUME NEW x, \/ ChangeVaultBpsFee(x)
                      \/ ChangeClaimLimits(x)
                      \/ ChangeMaxPySupply(x)
         PROVE  Moves
    BY <1>1, <1>2, <1>10
    DEF ChangeVaultBpsFee, ChangeClaimLimits, ChangeMaxPySupply, VaultAccount
  <1> QED
    BY <1>3, <1>4, <1>5, <1>6, <1>7, <1>8, <1>9, <1>10 DEF AdminStep

LEMMA StepMoves ==
    ASSUME TypeOK, [Next]_vars
    PROVE  Moves
  <1>1. CASE Tick \/ SyMoves \/ UNCHANGED vars
    BY <1>1, NobodyMoves
    DEF Tick, SyMoves, vars, SameHolding, Staged, Balance, Moves
  <1> QED
    BY <1>1, UserStepMoves, AdminStepMoves DEF Next

\* The counts, with what they need of the positions yet to be opened.
CountsInv ==
    /\ UncollectedIsStaged
    /\ YtEscrowIsUserYt
    /\ UnopenedAreEmpty

LEMMA CountsInit == Init => CountsInv
  <1> SUFFICES ASSUME Init PROVE CountsInv
    OBVIOUS
  <1>1. /\ \A h \in Holders : position[h] = NewPosition
        /\ vault.uncollected_sy = 0 /\ tokens.escrow_yt = 0
    BY DEF Init
  <1> DEFINE s == [h \in Holders |-> Staged(h)]
             b == [u \in Users |-> position[u].yt_balance]
  <1>2. /\ \A h \in Holders : s[h] = 0
        /\ \A u \in Users : b[u] = 0
    BY <1>1, HoldersFacts DEF Staged, NewPosition, NewTracker
  <1>3. StagedSy = SumOver(s, Holders) /\ UserYt = SumOver(b, Users)
    BY DEF StagedSy, UserYt
  <1>4. UnopenedAreEmpty
    BY <1>1, HoldersFacts
    DEF UnopenedAreEmpty, Staged, Balance, NewPosition, NewTracker
  <1> HIDE DEF s, b
  <1>5. SumOver(s, Holders) = 0 /\ SumOver(b, Users) = 0
    BY <1>2, HoldersFacts, SumZero
  <1> QED
    BY <1>1, <1>3, <1>4, <1>5
    DEF CountsInv, UncollectedIsStaged, YtEscrowIsUserYt

LEMMA CountsStep ==
    ASSUME TypeOK, TypeOK', CountsInv, [Next]_vars
    PROVE  CountsInv'
  <1>1. UncollectedIsStaged' /\ YtEscrowIsUserYt'
    BY StepMoves, RobotMoveCounts, UserMoveCounts, OpeningMoveCounts
    DEF CountsInv, Moves
  <1>2. UnopenedAreEmpty'
    <2> SUFFICES ASSUME NEW u \in Users, u \notin opened'
                 PROVE  Staged(u)' = 0 /\ Balance(u)' = 0
      BY DEF UnopenedAreEmpty
    <2>1. u \in Holders /\ u # Robot
      BY HoldersFacts
    <2>2. u \notin opened /\ SameHolding(u)
      BY <2>1, StepMoves DEF Moves, RobotMove, UserMove, OpeningMove
    <2> QED
      BY <2>2 DEF CountsInv, UnopenedAreEmpty, SameHolding
  <1> QED
    BY <1>1, <1>2 DEF CountsInv

\* Whatever users and administrators do, the two sums over positions that the
\* vault keeps as counters are right, and a position not yet created is empty
\* (initialize_yield_position, stage_yield, collect_interest, merge, deposit_yt
\* and withdraw_yt).
THEOREM Counts == Spec => []CountsInv
  <1>1. TypeOK /\ TypeOK' /\ CountsInv /\ [Next]_vars => CountsInv'
    BY CountsStep
  <1> QED
    BY <1>1, CountsInit, TypeCorrect, PTL DEF Spec

\* What the vault owes to YT holders is what their positions have staged.
THEOREM StagesAreCounted == Spec => []UncollectedIsStaged
  <1>1. CountsInv => UncollectedIsStaged
    BY DEF CountsInv
  <1> QED
    BY <1>1, Counts, PTL

\* Every YT in the vault's escrow is credited to one user's position.
THEOREM YtEscrowIsCredited == Spec => []YtEscrowIsUserYt
  <1>1. CountsInv => YtEscrowIsUserYt
    BY DEF CountsInv
  <1> QED
    BY <1>1, Counts, PTL

-----------------------------------------------------------------------------
(* What a withdrawal of YT stages.                                         *)

\* How a step changes a user's balance.
LEMMA StepBalances ==
    ASSUME TypeOK, [Next]_vars, NEW u \in Users
    PROVE  /\ opened \subseteq opened'
           /\ \/ Balance(u)' = Balance(u)
              \/ u \in opened /\ Balance(u)' \in Nat /\ Balance(u)' >= Balance(u)
              \/ u \notin opened /\ Balance(u)' = 0
              \/ u \in opened /\ \E amount \in YtAmounts : WithdrawYt(u, amount)
  <1> DEFINE Goal ==
               \/ Balance(u)' = Balance(u)
               \/ u \in opened /\ Balance(u)' \in Nat /\ Balance(u)' >= Balance(u)
               \/ u \notin opened /\ Balance(u)' = 0
               \/ u \in opened /\ \E amount \in YtAmounts : WithdrawYt(u, amount)
             Both == opened \subseteq opened' /\ Goal
  <1> SUFFICES Both
    OBVIOUS
  <1>1. /\ Robot \in Holders /\ u \in Holders /\ u # Robot
        /\ position \in [Holders -> YieldTokenPosition]
        /\ Balance(u) \in Nat
    BY VaultAssumption, TypeParts DEF Holders, TypeOK, Balance
  <1>2. ASSUME opened' = opened,
               position'[u].yt_balance = position[u].yt_balance
        PROVE  Both
    BY <1>2 DEF Balance
  <1>3. ASSUME opened' = opened, NEW r,
               position' = [position EXCEPT ![Robot] = r]
        PROVE  Both
    BY <1>1, <1>2, <1>3
  <1>4. ASSUME opened' = opened, NEW user \in Users, user # u, NEW p, NEW r,
               \/ position' = [position EXCEPT ![user] = p]
               \/ position' = [position EXCEPT ![user] = p, ![Robot] = r]
        PROVE  Both
    BY <1>1, <1>2, <1>4
  <1>5. ASSUME opened' = opened, NEW holder \in Holders, NEW i, NEW amount,
               position' = [position EXCEPT
                   ![holder].emissions[i] = DecStaged(@, amount)]
        PROVE  Both
    BY <1>1, <1>2, <1>5 DEF YieldTokenPosition
  <1>6. ASSUME NEW amount \in YtAmounts, DepositYt(u, amount)
        PROVE  Both
    <2> DEFINE staged == StagedPosition(UpdatedVault, u)
    <2>1. CanEarn(UpdatedVault) /\ u \in opened /\ opened' = opened
      BY <1>6 DEF DepositYt, CanUpdateYield
    <2>2. staged \in YieldTokenPosition /\ staged.yt_balance = Balance(u)
      BY <2>1, UpdateFacts, StageFacts DEF Balance
    <2>3. PICK r : position' = [position EXCEPT
                       ![u] = IncYtBalance(staged, amount), ![Robot] = r]
      BY <1>6 DEF DepositYt
    <2>4. amount \in Nat
      BY VaultAssumption
    <2> HIDE DEF staged
    <2>5. position'[u] = IncYtBalance(staged, amount)
      BY <1>1, <2>3
    <2>6. Balance(u)' = Balance(u) + amount
      BY <2>2, <2>4, <2>5, IncYtBalanceFacts DEF Balance
    <2> QED
      BY <1>1, <2>1, <2>4, <2>6
  <1>7. ASSUME NEW amount \in YtAmounts, WithdrawYt(u, amount)
        PROVE  Both
    BY <1>7 DEF WithdrawYt
  <1>8. CASE StageYield(u)
    <2> DEFINE staged == StagedPosition(UpdatedVault, u)
    <2>1. CanEarn(UpdatedVault) /\ opened' = opened
      BY <1>8 DEF StageYield, CanUpdateYield
    <2>2. staged.yt_balance = Balance(u)
      BY <2>1, UpdateFacts, StageFacts DEF Balance
    <2>3. PICK r : position' = [position EXCEPT ![u] = staged, ![Robot] = r]
      BY <1>8 DEF StageYield
    <2> HIDE DEF staged
    <2> QED
      BY <1>1, <1>2, <2>1, <2>2, <2>3 DEF Balance
  <1>9. CASE CollectInterest(u)
    <2> DEFINE p == EarnAllPosition(vault, position[u])
    <2>1. PICK amount \in Claimable(position[u].interest.staged) :
            /\ CanEarn(vault)
            /\ opened' = opened
            /\ position' = [position EXCEPT
                   ![u] = [p EXCEPT !.interest = DecStaged(@, amount)]]
      BY <1>9 DEF CollectInterest
    <2>2. p \in YieldTokenPosition /\ p.yt_balance = Balance(u)
      BY <1>1, <2>1, TypeParts, EarnAllPositionFacts DEF SameBalance, Balance
    <2> HIDE DEF p
    <2>3. [p EXCEPT !.interest = DecStaged(@, amount)].yt_balance = p.yt_balance
      BY <2>2 DEF YieldTokenPosition
    <2> QED
      BY <1>1, <1>2, <2>1, <2>2, <2>3 DEF Balance
  <1>10. CASE InitializeYieldPosition(u)
    <2>1. /\ u \notin opened /\ opened \subseteq opened'
          /\ position' = [position EXCEPT ![u] = Realloc(NewPosition)]
      BY <1>10 DEF InitializeYieldPosition
    <2>2. Realloc(NewPosition).yt_balance = 0
      BY DEF Realloc, NewPosition
    <2> QED
      BY <1>1, <2>1, <2>2 DEF Balance
  <1>11. ASSUME NEW user \in Users, user # u,
                InitializeYieldPosition(user)
         PROVE  Both
    <2>1. /\ opened \subseteq opened'
          /\ position' = [position EXCEPT ![user] = Realloc(NewPosition)]
      BY <1>11 DEF InitializeYieldPosition
    <2> QED
      BY <1>1, <1>11, <2>1 DEF Balance
  <1>12. ASSUME NEW user \in Users, user # u,
                \/ \E amount \in YtAmounts : DepositYt(user, amount)
                \/ \E amount \in YtAmounts : WithdrawYt(user, amount)
                \/ StageYield(user)
                \/ CollectInterest(user)
         PROVE  Both
    <2>1. CASE \E amount \in YtAmounts : DepositYt(user, amount)
      <3>1. PICK p, r :
              /\ opened' = opened
              /\ position' = [position EXCEPT ![user] = p, ![Robot] = r]
        BY <2>1 DEF DepositYt
      <3> QED
        BY <1>4, <1>12, <3>1
    <2>2. CASE \E amount \in YtAmounts : WithdrawYt(user, amount)
      <3>1. PICK p, r :
              /\ opened' = opened
              /\ position' = [position EXCEPT ![user] = p, ![Robot] = r]
        BY <2>2 DEF WithdrawYt
      <3> QED
        BY <1>4, <1>12, <3>1
    <2>3. CASE StageYield(user)
      <3>1. PICK p, r :
              /\ opened' = opened
              /\ position' = [position EXCEPT ![user] = p, ![Robot] = r]
        BY <2>3 DEF StageYield
      <3> QED
        BY <1>4, <1>12, <3>1
    <2>4. CASE CollectInterest(user)
      <3>1. PICK p :
              /\ opened' = opened
              /\ position' = [position EXCEPT ![user] = p]
        BY <2>4 DEF CollectInterest
      <3> QED
        BY <1>4, <1>12, <3>1
    <2> QED
      BY <1>12, <2>1, <2>2, <2>3, <2>4
  <1>13. ASSUME NEW user \in Users, NEW i \in 1..MaxStreams,
                CollectEmission(user, i)
         PROVE  Both
    <2>1. PICK amount :
            /\ opened' = opened
            /\ position' = [position EXCEPT
                   ![user].emissions[i] = DecStaged(@, amount)]
      BY <1>13 DEF CollectEmission
    <2>2. user \in Holders
      BY DEF Holders
    <2> QED
      BY <1>5, <2>1, <2>2
  <1>14. ASSUME \/ \E amount \in StripAmounts : Strip(amount)
                \/ \E py \in MergeAmounts : Merge(py)
         PROVE  Both
    <2>1. PICK r : /\ opened' = opened
                   /\ position' = [position EXCEPT ![Robot] = r]
      BY <1>14 DEF Strip, Merge
    <2> QED
      BY <1>3, <2>1
  <1>15. CASE UserStep
    <2>1. ASSUME NEW user \in Users,
                 \/ InitializeYieldPosition(user)
                 \/ \E amount \in YtAmounts : DepositYt(user, amount)
                 \/ \E amount \in YtAmounts : WithdrawYt(user, amount)
                 \/ StageYield(user)
                 \/ CollectInterest(user)
          PROVE  Both
      <3>1. CASE user = u
        BY <1>6, <1>7, <1>8, <1>9, <1>10, <2>1, <3>1
      <3>2. CASE user # u
        BY <1>11, <1>12, <2>1, <3>2
      <3> QED
        BY <3>1, <3>2
    <2> HIDE DEF Both
    <2> QED
      BY <1>13, <1>14, <1>15, <2>1 DEF UserStep
  <1>16. CASE AdminStep
    <2>1. ASSUME NEW bps \in EmissionFees, AddEmission(bps)
          PROVE  Both
      BY <1>1, <1>2, <2>1 DEF AddEmission
    <2>2. ASSUME NEW i \in 1..MaxStreams, CollectRobotEmission(i)
          PROVE  Both
      <3>1. PICK amount :
              /\ opened' = opened
              /\ position' = [position EXCEPT
                     ![Robot].emissions[i] = DecStaged(@, amount)]
        BY <2>2 DEF CollectRobotEmission
      <3> QED
        BY <1>1, <1>5, <3>1
    <2>3. CASE CollectRobotInterest
      BY <1>1, <1>2, <2>3 DEF CollectRobotInterest
    <2>4. ASSUME position' = position, opened' = opened
          PROVE  Both
      BY <1>2, <2>4
    <2>5. ASSUME NEW i \in 1..MaxStreams,
                 \/ RemoveVaultEmission(i)
                 \/ CollectTreasuryEmission(i)
                 \/ \E bps \in FeeChoices : ChangeEmissionBpsFee(i, bps)
          PROVE  position' = position /\ opened' = opened
      BY <2>5 DEF RemoveVaultEmission, CollectTreasuryEmission,
                  ChangeEmissionBpsFee
    <2>6. CASE CollectTreasuryInterest \/ ChangeCpiAccounts
      BY <2>4, <2>6 DEF CollectTreasuryInterest, ChangeCpiAccounts
    <2>7. ASSUME NEW role, NEW status, SetVaultStatus(role, status)
          PROVE  position' = position /\ opened' = opened
      BY <2>7 DEF SetVaultStatus
    <2>8. ASSUME NEW is_strip, NEW size, ChangeMinOperationSize(is_strip, size)
          PROVE  position' = position /\ opened' = opened
      BY <2>8 DEF ChangeMinOperationSize
    <2>9. ASSUME NEW x, \/ ChangeVaultBpsFee(x)
                       \/ ChangeClaimLimits(x)
                       \/ ChangeMaxPySupply(x)
          PROVE  position' = position /\ opened' = opened
      BY <2>9 DEF ChangeVaultBpsFee, ChangeClaimLimits, ChangeMaxPySupply
    <2> HIDE DEF Both
    <2> QED
      BY <1>16, <2>1, <2>2, <2>3, <2>4, <2>5, <2>6, <2>7, <2>8, <2>9
      DEF AdminStep
  <1>17. CASE Tick \/ SyMoves \/ UNCHANGED vars
    BY <1>2, <1>17 DEF Tick, SyMoves, vars
  <1> QED
    BY <1>15, <1>16, <1>17 DEF Next

\* A position that earns outside emergency mode, while the rate is final,
\* stages what the balance earned up to that rate.
LEMMA EarnedAtRate ==
    ASSUME NEW v \in VaultAccount, NEW p \in YieldTokenPosition, CanEarn(v),
           ~InEmergency(v),
           v.last_seen_sy_exchange_rate = v.final_sy_exchange_rate
    PROVE  EarnAllPosition(v, p).interest.staged
             = p.interest.staged
                 + CalcEarnedSy(p.yt_balance, p.interest.last_seen_index,
                                v.final_sy_exchange_rate)
  <1> DEFINE p1 == EnsureTrackers(p, Len(v.emissions))
             p2 == EarnSyInterest(v, p1)
  <1>1. Len(v.emissions) \in Nat /\ v.final_sy_exchange_rate \in Nat
    BY DEF VaultAccount
  <1>2. /\ p1 \in YieldTokenPosition /\ p1.yt_balance = p.yt_balance
        /\ p1.interest = p.interest
    BY <1>1, EnsureTrackersFacts DEF SameBalance
  <1> HIDE DEF p1
  <1>3. EarnedSy(v, p1) = CalcEarnedSy(p.yt_balance, p.interest.last_seen_index,
                                       v.final_sy_exchange_rate)
    BY <1>1, <1>2 DEF EarnedSy, ScaleSyToCurrentRate
  <1>4. p2.interest.staged = p.interest.staged + EarnedSy(v, p1)
    BY <1>2 DEF EarnSyInterest, YieldTokenPosition
  <1>5. p2 \in YieldTokenPosition
    BY <1>2, EarnSyInterestFacts
  <1> HIDE DEF p2
  <1>6. EarnEmissions(v, p2).interest = p2.interest
    BY <1>5, EarnEmissionsFacts
  <1>7. EarnAllPosition(v, p) = EarnEmissions(v, p2)
    BY DEF EarnAllPosition, p1, p2
  <1> QED
    BY <1>3, <1>4, <1>6, <1>7

LEMMA WithdrawalStages ==
    ASSUME TypeOK, NEW u \in Users, NEW amount \in YtAmounts,
           WithdrawYt(u, amount),
           sy.exchange_rate >= vault.all_time_high_sy_exchange_rate
    PROVE  Staged(u)' = Staged(u)
               + CalcEarnedSy(position[u].yt_balance,
                              position[u].interest.last_seen_index,
                              sy.exchange_rate)
  <1> DEFINE v == UpdatedVault
             p == EarnAllPosition(v, position[u])
             staged == StagedPosition(v, u)
  <1>1. /\ u \in Holders /\ u # Robot
        /\ position \in [Holders -> YieldTokenPosition]
        /\ vault \in VaultAccount /\ position[u] \in YieldTokenPosition
        /\ sy.exchange_rate \in Nat
        /\ vault.all_time_high_sy_exchange_rate \in Nat
    BY VaultAssumption, TypeParts DEF Holders, TypeOK
  <1>2. /\ CanEarn(v) /\ IsActive(now)
        /\ \E r : position' = [position EXCEPT
                      ![u] = DecYtBalance(staged, amount), ![Robot] = r]
    BY DEF WithdrawYt, CanUpdateYield
  <1>3. /\ v \in VaultAccount
        /\ v.last_seen_sy_exchange_rate = sy.exchange_rate
        /\ v.final_sy_exchange_rate = sy.exchange_rate
        /\ v.all_time_high_sy_exchange_rate = sy.exchange_rate
    BY <1>1, <1>2, UpdateFacts DEF Larger
  <1>4. ~InEmergency(v)
    BY <1>1, <1>3 DEF InEmergency
  <1> HIDE DEF v
  <1>5. p.interest.staged = Staged(u)
               + CalcEarnedSy(position[u].yt_balance,
                              position[u].interest.last_seen_index,
                              sy.exchange_rate)
    BY <1>1, <1>2, <1>3, <1>4, EarnedAtRate DEF Staged
  <1>6. /\ p \in YieldTokenPosition
        /\ staged \in YieldTokenPosition
        /\ staged = Realloc(p)
    BY <1>1, <1>2, <1>3, EarnAllPositionFacts, StageFacts DEF StagedPosition
  <1> HIDE DEF p, staged
  <1>7. staged.interest = p.interest
    BY <1>1, <1>6, ReallocFacts
  <1>8. position'[u] = DecYtBalance(staged, amount)
    BY <1>1, <1>2
  <1>9. DecYtBalance(staged, amount).interest = staged.interest
    BY <1>6 DEF DecYtBalance, YieldTokenPosition
  <1> QED
    BY <1>5, <1>7, <1>8, <1>9 DEF Staged

\* A withdrawal of YT first stages all that the balance has earned.
THEOREM WithdrawalStaged == Spec => WithdrawStagesInterest
  <1> DEFINE Stages ==
        \A u \in Users :
            (/\ position'[u].yt_balance < position[u].yt_balance
             /\ sy.exchange_rate >= vault.all_time_high_sy_exchange_rate) =>
                Staged(u)' = Staged(u)
                    + CalcEarnedSy(position[u].yt_balance,
                                   position[u].interest.last_seen_index,
                                   sy.exchange_rate)
  <1>1. ASSUME IInv, CountsInv, [Next]_vars
        PROVE  Stages
    <2> SUFFICES ASSUME NEW u \in Users,
                        position'[u].yt_balance < position[u].yt_balance,
                        sy.exchange_rate
                          >= vault.all_time_high_sy_exchange_rate
                 PROVE  Staged(u)' = Staged(u)
                          + CalcEarnedSy(position[u].yt_balance,
                                         position[u].interest.last_seen_index,
                                         sy.exchange_rate)
      OBVIOUS
    <2>1. TypeOK /\ Balance(u) \in Nat
      BY <1>1, TypeParts DEF IInv, Balance, Holders
    <2>2. Balance(u)' < Balance(u) /\ (u \notin opened => Balance(u) = 0)
      BY <1>1 DEF CountsInv, UnopenedAreEmpty, Balance
    <2>3. PICK amount \in YtAmounts : WithdrawYt(u, amount)
      BY <1>1, <2>1, <2>2, StepBalances
    <2> QED
      BY <2>1, <2>3, WithdrawalStages
  <1>2. [][IInv /\ CountsInv /\ [Next]_vars => Stages]_vars
    BY <1>1, PTL
  <1> QED
    BY <1>2, Invariance, Counts, PTL DEF Spec, WithdrawStagesInterest

-----------------------------------------------------------------------------
(* The indexes of emissions.                                               *)

\* The vault has seen of each stream an index that the SY program has reached,
\* and registers streams in the order the program lists them in.
EmissionsInOrder ==
    /\ Len(sy.emission_indexes) <= MaxStreams
    /\ Len(vault.emissions) <= Len(sy.emission_indexes)
    /\ \A i \in DOMAIN vault.emissions :
        /\ vault.emissions[i].final_index <= vault.emissions[i].last_seen_index
        /\ vault.emissions[i].last_seen_index <= sy.emission_indexes[i]

\* What instructions do to the list of emissions.
SameEmissionIndexes ==
    /\ Len(vault'.emissions) = Len(vault.emissions)
    /\ \A i \in DOMAIN vault.emissions :
        /\ vault'.emissions[i].last_seen_index = vault.emissions[i].last_seen_index
        /\ vault'.emissions[i].final_index = vault.emissions[i].final_index

UpdatesEmissions == vault'.emissions = SeenEmissions(vault, sy, now)

AddsEmission ==
    LET next == Len(vault.emissions) + 1
    IN  /\ next \in DOMAIN sy.emission_indexes
        /\ \E e \in EmissionInfo :
            /\ vault'.emissions = Append(vault.emissions, e)
            /\ e.last_seen_index = sy.emission_indexes[next]
            /\ e.final_index = sy.emission_indexes[next]

RemovesEmission ==
    /\ MayRemoveEmission
    /\ \E i \in DOMAIN vault.emissions :
            vault'.emissions = RemoveAt(vault.emissions, i)

\* Only update_from_sy_state sees new indexes: staging and the backing of PT
\* leave the emissions alone.
LEMMA SetSyForPtEmissions ==
    ASSUME NEW v \in VaultAccount
    PROVE  SetSyForPt(v).emissions = v.emissions
  BY DEF SetSyForPt, VaultAccount

LEMMA EarnAllVaultEmissions ==
    ASSUME NEW v \in VaultAccount, NEW p
    PROVE  EarnAllVault(v, p).emissions = v.emissions
  BY DEF EarnAllVault, VaultAccount

LEMMA UpdatedEmissions ==
    ASSUME TypeOK
    PROVE  /\ SeenVault \in VaultAccount
           /\ UpdatedVault.emissions = SeenEmissions(vault, sy, now)
  <1>1. /\ vault \in VaultAccount /\ now \in Nat
        /\ sy \in [exchange_rate : Rates, emission_indexes : Seq(Nat)]
    BY DEF TypeOK, SyTypeOK
  <1>2. SeenVault \in VaultAccount
    BY <1>1, UpdateFromSyStateFacts DEF SeenVault
  <1>3. SeenVault.emissions = SeenEmissions(vault, sy, now)
    BY <1>1 DEF SeenVault, UpdateFromSyState, SeenState, SetSyForPt, VaultAccount
  <1> QED
    BY <1>2, <1>3, EarnAllVaultEmissions DEF UpdatedVault

LEMMA UserEmissions ==
    ASSUME TypeOK, UserStep
    PROVE  UNCHANGED sy /\ (UpdatesEmissions \/ SameEmissionIndexes)
  <1>1. /\ vault \in VaultAccount
        /\ UpdatedVault.emissions = SeenEmissions(vault, sy, now)
    BY UpdatedEmissions DEF TypeOK
  <1>2. vault' = vault => SameEmissionIndexes
    BY DEF SameEmissionIndexes
  <1>3. ASSUME NEW amount \in StripAmounts, Strip(amount)
        PROVE  UNCHANGED sy /\ UpdatesEmissions
    <2> DEFINE py == SyToPy(UpdatedVault.last_seen_sy_exchange_rate, amount)
               u == [UpdatedVault EXCEPT !.total_sy_in_escrow = @ + amount,
                                         !.pt_supply = @ + py]
    <2>1. /\ vault' = SetSyForPt(u) /\ UNCHANGED sy
          /\ CanEarn(UpdatedVault)
      BY <1>3 DEF Strip, CanUpdateYield
    <2>2. UpdatedVault \in VaultAccount
      BY <2>1, UpdateFacts
    <2>3. u.emissions = UpdatedVault.emissions
      BY <2>2 DEF VaultAccount
    <2>4. vault'.emissions = u.emissions
      BY <2>1, <2>2 DEF SetSyForPt, VaultAccount
    <2> QED
      BY <1>1, <2>1, <2>3, <2>4 DEF UpdatesEmissions
  <1>4. ASSUME NEW py \in MergeAmounts, Merge(py)
        PROVE  UNCHANGED sy /\ UpdatesEmissions
    <2> DEFINE amount == MergedSy(py, UpdatedVault)
               u == [UpdatedVault EXCEPT !.total_sy_in_escrow = @ - amount,
                                         !.pt_supply = @ - py]
    <2>1. /\ vault' = SetSyForPt(u) /\ UNCHANGED sy
          /\ CanEarn(UpdatedVault)
      BY <1>4 DEF Merge, CanMerge, CanUpdateYield
    <2>2. UpdatedVault \in VaultAccount
      BY <2>1, UpdateFacts
    <2>3. u.emissions = UpdatedVault.emissions
      BY <2>2 DEF VaultAccount
    <2>4. vault'.emissions = u.emissions
      BY <2>1, <2>2 DEF SetSyForPt, VaultAccount
    <2> QED
      BY <1>1, <2>1, <2>3, <2>4 DEF UpdatesEmissions
  <1>5. ASSUME NEW user \in Users, CanEarn(UpdatedVault),
               vault' = StagedVault(UpdatedVault, user)
        PROVE  UpdatesEmissions
    <2> DEFINE w == EarnAllVault(UpdatedVault, position[user])
    <2>1. /\ UpdatedVault \in VaultAccount
          /\ position[user] \in YieldTokenPosition
      BY <1>5, UpdateFacts, TypeParts DEF Holders
    <2>2. w \in VaultAccount /\ w.emissions = UpdatedVault.emissions
      BY <2>1, EarnAllVaultFacts, EarnAllVaultEmissions
    <2>3. vault' = SetSyForPt(w)
      BY <1>5 DEF StagedVault
    <2> HIDE DEF w
    <2> QED
      BY <1>1, <2>2, <2>3, SetSyForPtEmissions DEF UpdatesEmissions
  <1>6. ASSUME NEW user \in Users, CollectInterest(user)
        PROVE  UNCHANGED sy /\ SameEmissionIndexes
    <2> DEFINE v == EarnAllVault(vault, position[user])
    <2>1. /\ v \in VaultAccount /\ v.emissions = vault.emissions
      BY <1>1, TypeParts, EarnAllVaultFacts, EarnAllVaultEmissions DEF Holders
    <2>2. PICK amount \in Claimable(position[user].interest.staged) :
            vault' = [v EXCEPT
               !.claim_limits = CountClaim(@, amount, now),
               !.total_sy_in_escrow = @ - amount,
               !.uncollected_sy = @ - amount]
      BY <1>6 DEF CollectInterest
    <2>3. UNCHANGED sy
      BY <1>6 DEF CollectInterest
    <2> HIDE DEF v
    <2>4. vault'.emissions = v.emissions
      BY <2>1, <2>2 DEF VaultAccount
    <2> QED
      BY <2>1, <2>3, <2>4 DEF SameEmissionIndexes
  <1>7. ASSUME NEW user \in Users, NEW amount \in YtAmounts,
               DepositYt(user, amount) \/ WithdrawYt(user, amount)
        PROVE  UNCHANGED sy /\ UpdatesEmissions
    BY <1>5, <1>7 DEF DepositYt, WithdrawYt, CanUpdateYield, syVars
  <1>8. ASSUME NEW user \in Users, StageYield(user)
        PROVE  UNCHANGED sy /\ UpdatesEmissions
    BY <1>5, <1>8 DEF StageYield, CanUpdateYield, syVars
  <1>9. ASSUME NEW user \in Users,
               \/ InitializeYieldPosition(user)
               \/ \E i \in 1..MaxStreams : CollectEmission(user, i)
        PROVE  UNCHANGED sy /\ SameEmissionIndexes
    BY <1>2, <1>9 DEF InitializeYieldPosition, CollectEmission, syVars
  <1> QED
    BY <1>3, <1>4, <1>6, <1>7, <1>8, <1>9 DEF UserStep

LEMMA AdminEmissions ==
    ASSUME TypeOK, AdminStep
    PROVE  /\ UNCHANGED sy
           /\ SameEmissionIndexes \/ AddsEmission \/ RemovesEmission
  <1>1. /\ vault \in VaultAccount /\ vault.emissions \in Seq(EmissionInfo)
        /\ sy.emission_indexes \in Seq(Nat)
    BY DEF TypeOK, SyTypeOK, VaultAccount
  <1>2. vault'.emissions = vault.emissions => SameEmissionIndexes
    BY DEF SameEmissionIndexes
  <1>3. ASSUME NEW bps \in EmissionFees, AddEmission(bps)
        PROVE  UNCHANGED sy /\ AddsEmission
    <2> DEFINE next == Len(vault.emissions) + 1
               index == sy.emission_indexes[next]
               e == [token_account |-> next, initial_index |-> index,
                     last_seen_index |-> index, final_index |-> index,
                     fee_bps |-> bps, treasury_emission |-> 0]
    <2>1. /\ next \in DOMAIN sy.emission_indexes /\ UNCHANGED sy
          /\ \E cs : vault' = [vault EXCEPT !.emissions = Append(@, e),
                                            !.claim_emission = cs]
      BY <1>3 DEF AddEmission
    <2>2. next \in Nat /\ index \in Nat /\ bps \in Nat
      <3>1. bps \in Nat
        BY VaultAssumption
      <3>2. \A i \in DOMAIN sy.emission_indexes :
                i \in Nat /\ sy.emission_indexes[i] \in Nat
        BY <1>1
      <3> QED
        BY <2>1, <3>1, <3>2
    <2>3. vault'.emissions = Append(vault.emissions, e)
      BY <1>1, <2>1 DEF VaultAccount
    <2>4. /\ e \in EmissionInfo
          /\ e.last_seen_index = index /\ e.final_index = index
      BY <2>2 DEF EmissionInfo
    <2> HIDE DEF e
    <2> QED
      BY <2>1, <2>3, <2>4 DEF AddsEmission
  <1>4. ASSUME NEW i \in 1..MaxStreams, RemoveVaultEmission(i)
        PROVE  UNCHANGED sy /\ RemovesEmission
    BY <1>1, <1>4 DEF RemoveVaultEmission, RemovesEmission, VaultAccount, syVars
  <1>5. ASSUME NEW i \in DOMAIN vault.emissions, NEW e,
               vault' = [vault EXCEPT !.emissions[i] = e],
               e.last_seen_index = vault.emissions[i].last_seen_index,
               e.final_index = vault.emissions[i].final_index
        PROVE  SameEmissionIndexes
    <2>1. vault'.emissions = [vault.emissions EXCEPT ![i] = e]
      BY <1>1, <1>5 DEF VaultAccount
    <2> QED
      BY <1>1, <1>5, <2>1 DEF SameEmissionIndexes
  <1>6. ASSUME NEW i \in 1..MaxStreams, NEW bps \in FeeChoices,
               ChangeEmissionBpsFee(i, bps)
        PROVE  UNCHANGED sy /\ SameEmissionIndexes
    <2> DEFINE e == [vault.emissions[i] EXCEPT !.fee_bps = bps]
    <2>1. /\ i \in DOMAIN vault.emissions /\ UNCHANGED sy
          /\ vault' = [vault EXCEPT !.emissions[i].fee_bps = bps]
      BY <1>6 DEF ChangeEmissionBpsFee, syVars
    <2>2. vault.emissions[i] \in EmissionInfo
      BY <1>1, <2>1
    <2>3. vault' = [vault EXCEPT !.emissions[i] = e]
      BY <2>1
    <2>4. /\ e.last_seen_index = vault.emissions[i].last_seen_index
          /\ e.final_index = vault.emissions[i].final_index
      BY <2>2 DEF EmissionInfo
    <2> HIDE DEF e
    <2> QED
      BY <1>5, <2>1, <2>3, <2>4
  <1>7. ASSUME NEW i \in 1..MaxStreams, CollectTreasuryEmission(i)
        PROVE  UNCHANGED sy /\ SameEmissionIndexes
    <2>1. PICK amount :
            /\ i \in DOMAIN vault.emissions /\ UNCHANGED sy
            /\ vault' = [vault EXCEPT
                            !.emissions[i].treasury_emission = @ - amount]
      BY <1>7 DEF CollectTreasuryEmission
    <2> DEFINE e == [vault.emissions[i] EXCEPT !.treasury_emission = @ - amount]
    <2>2. vault.emissions[i] \in EmissionInfo
      BY <1>1, <2>1
    <2>3. vault' = [vault EXCEPT !.emissions[i] = e]
      BY <2>1
    <2>4. /\ e.last_seen_index = vault.emissions[i].last_seen_index
          /\ e.final_index = vault.emissions[i].final_index
      BY <2>2 DEF EmissionInfo
    <2> HIDE DEF e
    <2> QED
      BY <1>5, <2>1, <2>3, <2>4
  <1>8. ASSUME NEW i \in 1..MaxStreams, CollectRobotEmission(i)
        PROVE  UNCHANGED sy /\ SameEmissionIndexes
    BY <1>2, <1>8 DEF CollectRobotEmission
  <1>9. CASE CollectRobotInterest \/ CollectTreasuryInterest
    <2>1. UNCHANGED sy /\ vault'.emissions = vault.emissions
      BY <1>1, <1>9
      DEF CollectRobotInterest, CollectTreasuryInterest, VaultAccount
    <2> QED
      BY <1>2, <2>1
  <1>10. ASSUME \/ \E role, status : SetVaultStatus(role, status)
                \/ \E bps : ChangeVaultBpsFee(bps)
                \/ \E is_strip, size : ChangeMinOperationSize(is_strip, size)
                \/ \E limits : ChangeClaimLimits(limits)
                \/ \E max : ChangeMaxPySupply(max)
                \/ ChangeCpiAccounts
         PROVE  UNCHANGED sy /\ SameEmissionIndexes
    <2>1. UNCHANGED sy /\ vault'.emissions = vault.emissions
      BY <1>1, <1>10
      DEF SetVaultStatus, ChangeVaultBpsFee, ChangeMinOperationSize,
          ChangeClaimLimits, ChangeMaxPySupply, ChangeCpiAccounts,
          VaultAccount, syVars
    <2> QED
      BY <1>2, <2>1
  <1> QED
    BY <1>3, <1>4, <1>6, <1>7, <1>8, <1>9, <1>10 DEF AdminStep

\* The SY program's indexes only grow.
LEMMA IndexesGrow ==
    ASSUME SyTypeOK, SyMoves
    PROVE  /\ UNCHANGED vault
           /\ Len(sy.emission_indexes) <= Len(sy'.emission_indexes)
           /\ Len(sy.emission_indexes) <= MaxStreams
                => Len(sy'.emission_indexes) <= MaxStreams
           /\ \A i \in DOMAIN sy.emission_indexes :
                sy.emission_indexes[i] <= sy'.emission_indexes[i]
  <1>1. /\ sy.emission_indexes \in Seq(Nat) /\ UNCHANGED vault
        /\ sy \in [exchange_rate : Rates, emission_indexes : Seq(Nat)]
        /\ MaxStreams \in Nat /\ Indexes \subseteq Nat
    BY SyAssumption DEF SyTypeOK, SyMoves
  <1>2. CASE SetExchangeRate
    <2>1. sy'.emission_indexes = sy.emission_indexes
      BY <1>1, <1>2 DEF SetExchangeRate
    <2> QED
      BY <1>1, <2>1
  <1>3. CASE SetEmissionIndex
    <2>1. PICK i \in DOMAIN sy.emission_indexes, index \in Indexes :
            /\ index > sy.emission_indexes[i]
            /\ sy' = [sy EXCEPT !.emission_indexes[i] = index]
      BY <1>3 DEF SetEmissionIndex
    <2>2. sy'.emission_indexes = [sy.emission_indexes EXCEPT ![i] = index]
      BY <1>1, <2>1
    <2> QED
      BY <1>1, <2>1, <2>2
  <1>4. CASE AddEmissionIndex
    <2>1. PICK initial \in FirstIndexes :
            /\ Len(sy.emission_indexes) < MaxStreams
            /\ sy' = [sy EXCEPT !.emission_indexes = Append(@, initial)]
      BY <1>4 DEF AddEmissionIndex
    <2>2. sy'.emission_indexes = Append(sy.emission_indexes, initial)
      BY <1>1, <2>1
    <2> QED
      BY <1>1, <2>1, <2>2
  <1> QED
    BY <1>2, <1>3, <1>4 DEF SyMoves, SyStep

\* What the property says of one step.
EmissionIndexesMove ==
    \A i \in DOMAIN vault.emissions :
        LET old == vault.emissions[i]
            new == vault'.emissions[i]
        IN  /\ new.last_seen_index >= old.last_seen_index
            /\ new.final_index >= old.final_index
            /\ IsExpired(now) => new.final_index = old.final_index

LEMMA EmissionsStep ==
    ASSUME MayRemoveEmission => MaxStreams <= 1,
           TypeOK, TypeOK', EmissionsInOrder, [Next]_vars
    PROVE  /\ EmissionsInOrder'
           /\ Len(vault'.emissions) >= Len(vault.emissions)
                => EmissionIndexesMove
  <1> DEFINE es == vault.emissions
             ds == vault'.emissions
             xs == sy.emission_indexes
  <1>1. /\ es \in Seq(EmissionInfo) /\ ds \in Seq(EmissionInfo)
        /\ xs \in Seq(Nat) /\ sy'.emission_indexes \in Seq(Nat)
        /\ vault \in VaultAccount /\ MaxStreams \in Nat
    BY SyAssumption DEF TypeOK, SyTypeOK, VaultAccount
  <1>2. /\ \A i \in DOMAIN es : /\ es[i].last_seen_index \in Nat
                                /\ es[i].final_index \in Nat
        /\ \A i \in DOMAIN xs : xs[i] \in Nat
        /\ DOMAIN es = 1..Len(es) /\ Len(es) \in Nat
        /\ DOMAIN xs = 1..Len(xs) /\ Len(xs) \in Nat
    <2>1. \A i \in DOMAIN es : es[i] \in EmissionInfo
      BY <1>1
    <2>2. \A i \in DOMAIN es : /\ es[i].last_seen_index \in Nat
                               /\ es[i].final_index \in Nat
      BY <2>1 DEF EmissionInfo
    <2> QED
      BY <1>1, <2>2
  <1>3. /\ Len(xs) <= MaxStreams /\ Len(es) <= Len(xs)
        /\ \A i \in DOMAIN es :
            /\ es[i].final_index <= es[i].last_seen_index
            /\ es[i].last_seen_index <= xs[i]
    BY DEF EmissionsInOrder
  <1>4. CASE SameEmissionIndexes /\ UNCHANGED sy
    <2>1. /\ Len(ds) = Len(es)
          /\ \A i \in DOMAIN es :
                /\ ds[i].last_seen_index = es[i].last_seen_index
                /\ ds[i].final_index = es[i].final_index
      BY <1>4 DEF SameEmissionIndexes
    <2>2. DOMAIN ds = DOMAIN es
      BY <1>1, <2>1
    <2>3. EmissionsInOrder'
      BY <1>3, <1>4, <2>1, <2>2 DEF EmissionsInOrder
    <2>4. EmissionIndexesMove
      BY <1>2, <2>1 DEF EmissionIndexesMove
    <2> QED
      BY <2>3, <2>4
  <1>5. CASE UpdatesEmissions /\ UNCHANGED sy
    <2>1. ds = SeenEmissions(vault, sy, now)
      BY <1>5 DEF UpdatesEmissions
    <2>2. DOMAIN ds = DOMAIN es
      BY <2>1 DEF SeenEmissions
    <2>3. Len(ds) = Len(es)
      BY <1>1, <2>2
    <2>4. \A i \in DOMAIN es :
            /\ ds[i].last_seen_index = xs[i]
            /\ ds[i].final_index = IF IsActive(now) THEN xs[i]
                                                    ELSE es[i].final_index
      <3> SUFFICES ASSUME NEW i \in DOMAIN es
                   PROVE  /\ ds[i].last_seen_index = xs[i]
                          /\ ds[i].final_index
                               = IF IsActive(now) THEN xs[i]
                                                  ELSE es[i].final_index
        OBVIOUS
      <3>1. es[i] \in EmissionInfo /\ i \in DOMAIN xs
        BY <1>1, <1>2, <1>3
      <3>2. ds[i] = SeenEmission(vault, es[i], xs[i], now)
        BY <2>1, <3>1 DEF SeenEmissions
      <3> QED
        BY <3>1, <3>2 DEF SeenEmission, EmissionInfo
    <2>5. EmissionsInOrder'
      BY <1>2, <1>3, <1>5, <2>2, <2>3, <2>4 DEF EmissionsInOrder
    <2>6. EmissionIndexesMove
      BY <1>2, <1>3, <2>4 DEF EmissionIndexesMove, IsActive
    <2> QED
      BY <2>5, <2>6
  <1>6. CASE AddsEmission /\ UNCHANGED sy
    <2> DEFINE next == Len(es) + 1
    <2>1. PICK e \in EmissionInfo :
            /\ next \in DOMAIN xs /\ ds = Append(es, e)
            /\ e.last_seen_index = xs[next] /\ e.final_index = xs[next]
      BY <1>6 DEF AddsEmission
    <2>2. /\ Len(ds) = next /\ DOMAIN ds = 1..next /\ next \in Nat
          /\ \A i \in DOMAIN es : ds[i] = es[i]
          /\ ds[next] = e /\ next <= Len(xs)
      BY <1>1, <1>2, <2>1
    <2>3. ASSUME NEW i \in DOMAIN ds
          PROVE  /\ ds[i].final_index <= ds[i].last_seen_index
                 /\ ds[i].last_seen_index <= xs[i]
      <3>1. CASE i = next
        BY <1>2, <2>1, <2>2, <3>1
      <3>2. CASE i # next
        <4>1. i \in DOMAIN es
          BY <1>2, <2>2, <2>3, <3>2
        <4> QED
          BY <1>3, <2>2, <4>1
      <3> QED
        BY <3>1, <3>2
    <2>4. EmissionsInOrder'
      BY <1>3, <1>6, <2>2, <2>3 DEF EmissionsInOrder
    <2>5. EmissionIndexesMove
      BY <1>2, <2>2 DEF EmissionIndexesMove
    <2> QED
      BY <2>4, <2>5
  <1>7. CASE RemovesEmission /\ UNCHANGED sy
    <2>1. PICK i \in DOMAIN es : MaxStreams <= 1 /\ ds = RemoveAt(es, i)
      BY <1>7 DEF RemovesEmission
    <2>2. Len(es) = 1 /\ i = 1
      <3> DEFINE a == Len(es)
                 b == Len(xs)
      <3>1. a \in Nat /\ b \in Nat /\ b <= MaxStreams /\ a <= b /\ i \in 1..a
        BY <1>2, <1>3
      <3> HIDE DEF a, b
      <3>2. a = 1 /\ i = 1
        BY <1>1, <2>1, <3>1, SMT
      <3> QED
        BY <3>2 DEF a
    <2>3. Len(ds) = 0
      <3>1. ds = SubSeq(es, 1, 0) \o SubSeq(es, 2, 1)
        BY <2>1, <2>2 DEF RemoveAt
      <3> QED
        BY <1>1, <3>1
    <2>4. DOMAIN ds = {}
      BY <1>1, <2>3
    <2>5. EmissionsInOrder'
      BY <1>2, <1>3, <1>7, <2>3, <2>4 DEF EmissionsInOrder
    <2> QED
      BY <2>2, <2>3, <2>5
  <1>8. CASE SyMoves
    <2>1. /\ UNCHANGED vault /\ Len(xs) <= Len(sy'.emission_indexes)
          /\ Len(sy'.emission_indexes) <= MaxStreams
          /\ \A i \in DOMAIN xs : xs[i] <= sy'.emission_indexes[i]
      BY <1>3, <1>8, IndexesGrow DEF TypeOK
    <2>2. Len(sy'.emission_indexes) \in Nat
          /\ \A i \in DOMAIN xs : sy'.emission_indexes[i] \in Nat
      BY <1>1, <1>2, <2>1
    <2>3. ASSUME NEW i \in DOMAIN es
          PROVE  /\ es[i].final_index <= es[i].last_seen_index
                 /\ es[i].last_seen_index <= sy'.emission_indexes[i]
      <3> DEFINE a == es[i].last_seen_index
                 b == xs[i]
                 c == sy'.emission_indexes[i]
      <3>1. i \in DOMAIN xs
        BY <1>2, <1>3
      <3>2. a \in Nat /\ b \in Nat /\ c \in Nat /\ a <= b /\ b <= c
        BY <1>2, <1>3, <2>1, <2>2, <3>1
      <3> HIDE DEF a, b, c
      <3>3. a <= c
        BY <3>2
      <3> QED
        BY <1>3, <3>3 DEF a, c
    <2>4. Len(es) <= Len(sy'.emission_indexes)
      BY <1>2, <1>3, <2>1, <2>2
    <2>5. EmissionsInOrder'
      BY <2>1, <2>3, <2>4 DEF EmissionsInOrder
    <2>6. EmissionIndexesMove
      BY <1>2, <2>1 DEF EmissionIndexesMove
    <2> QED
      BY <2>5, <2>6
  <1>9. CASE UNCHANGED <<vault, sy>>
    BY <1>4, <1>9 DEF SameEmissionIndexes
  <1> QED
    BY <1>4, <1>5, <1>6, <1>7, <1>8, <1>9, UserEmissions, AdminEmissions
    DEF Next, Tick, vars, syVars

\* No instruction moves an emission's index back, and none moves the index that
\* positions earn up to once the vault has expired (update_from_sy_state,
\* add_emission).  Removing one of several emissions puts the later ones beside
\* other streams, so it is admitted only where there is one stream.
THEOREM EmissionsFrozen ==
    ASSUME MayRemoveEmission => MaxStreams <= 1
    PROVE  Spec => EmissionIndexesFrozen
  <1>1. Init => EmissionsInOrder
    <2> SUFFICES ASSUME Init PROVE EmissionsInOrder
      OBVIOUS
    <2>1. vault.emissions = <<>> /\ sy.emission_indexes = <<>>
      BY DEF Init, SyInit
    <2> QED
      BY <2>1, SyAssumption DEF EmissionsInOrder
  <1>2. TypeOK /\ TypeOK' /\ EmissionsInOrder /\ [Next]_vars =>
            /\ EmissionsInOrder'
            /\ Len(vault'.emissions) >= Len(vault.emissions)
                 => EmissionIndexesMove
    BY EmissionsStep
  <1>3. [][TypeOK /\ TypeOK' /\ EmissionsInOrder /\ [Next]_vars =>
             (Len(vault'.emissions) >= Len(vault.emissions)
                 => EmissionIndexesMove)]_vars
    BY <1>2, PTL
  <1>4. Spec => [](TypeOK /\ EmissionsInOrder)
    BY <1>1, <1>2, TypeCorrect, PTL DEF Spec
  <1>5. Spec => [][Len(vault'.emissions) >= Len(vault.emissions)
                    => EmissionIndexesMove]_vars
    BY <1>3, <1>4, PTL DEF Spec
  <1> QED
    BY <1>5 DEF EmissionIndexesFrozen, EmissionIndexesMove

-----------------------------------------------------------------------------
(* What a step does to the claims on the escrow: the turns of the vault.   *)

SameClaim(h) == Balance(h)' = Balance(h) /\ Index(h)' = Index(h)

\* The backing of PT is what set_sy_for_pt makes it.
Fresh(v) ==
    v.sy_for_pt = SyBackingForPt(v.last_seen_sy_exchange_rate, v.pt_supply,
                                 ActiveSy(v))

\* What v counts as not its own.
Counted(v) == v.treasury_sy + v.uncollected_sy

\* The index of a position that earns from v.
EarnedIndex(v, h) ==
    IF InEmergency(v) THEN Index(h) ELSE v.final_sy_exchange_rate

SameBacking ==
    /\ SameRates(vault, vault')
    /\ vault'.pt_supply = vault.pt_supply
    /\ vault'.sy_for_pt = vault.sy_for_pt

\* update_vault_yield in an instruction that stages earned more after it.
Updates(earned) ==
    /\ CanEarn(UpdatedVault)
    /\ SameRates(UpdatedVault, vault')
    /\ Fresh(vault')
    /\ Index(Robot)' = EarnedIndex(UpdatedVault, Robot)
    /\ Counted(vault') = Counted(vault)
                           + SySurplus(vault, sy.exchange_rate, now)
                           + EarnedSy(UpdatedVault, position[Robot]) + earned
    /\ now' = now /\ sy' = sy

StripTurn(amount) ==
    LET py == SyToPy(sy.exchange_rate, amount)
    IN  /\ IsActive(now) /\ ~InEmergency(UpdatedVault)
        /\ Updates(0)
        /\ vault'.total_sy_in_escrow = vault.total_sy_in_escrow + amount
        /\ vault'.pt_supply = vault.pt_supply + py
        /\ Balance(Robot)' = Balance(Robot) + py
        /\ \A u \in Users : SameClaim(u)

\* The SY paid out are worth no more than the PT.
MergeTurn(py, paid) ==
    /\ ~InEmergency(UpdatedVault)
    /\ Updates(0)
    /\ paid * sy.exchange_rate <= py * ONE
    /\ paid <= vault.total_sy_in_escrow /\ py <= vault.pt_supply
    /\ vault'.total_sy_in_escrow = vault.total_sy_in_escrow - paid
    /\ vault'.pt_supply = vault.pt_supply - py
    /\ BurnedYt(py) <= Balance(Robot)
    /\ Balance(Robot)' = Balance(Robot) - BurnedYt(py)
    /\ \A u \in Users : SameClaim(u)

\* deposit_yt, withdraw_yt and stage_yield.
UserTurn(user) ==
    /\ Updates(EarnedSy(UpdatedVault, position[user]))
    /\ vault'.total_sy_in_escrow = vault.total_sy_in_escrow
    /\ vault'.pt_supply = vault.pt_supply
    /\ Index(user)' = EarnedIndex(UpdatedVault, user)
    /\ Balance(user)' + Balance(Robot)' = Balance(user) + Balance(Robot)
    /\ \/ Balance(user)' = Balance(user)
       \/ /\ IsActive(now)
          /\ InEmergency(UpdatedVault) => Balance(user)' <= Balance(user)
    /\ \A u \in Users \ {user} : SameClaim(u)

\* collect_interest: the user earns from the vault as it is.
ClaimTurn(user, paid) ==
    LET counted == Counted(vault) + EarnedSy(vault, position[user])
    IN  /\ CanEarn(vault)
        /\ SameBacking
        /\ paid <= vault.total_sy_in_escrow /\ paid <= counted
        /\ vault'.total_sy_in_escrow = vault.total_sy_in_escrow - paid
        /\ Counted(vault') = counted - paid
        /\ Index(user)' = EarnedIndex(vault, user)
        /\ Balance(user)' = Balance(user)
        /\ \A h \in Holders \ {user} : SameClaim(h)
        /\ now' = now /\ sy' = sy

\* Everything else: the most it does is to pay what is counted.
QuietTurn(paid) ==
    /\ SameBacking
    /\ paid <= vault.total_sy_in_escrow /\ paid <= Counted(vault)
    /\ vault'.total_sy_in_escrow = vault.total_sy_in_escrow - paid
    /\ Counted(vault') = Counted(vault) - paid
    /\ \A h \in Holders : SameClaim(h)
    /\ now' = now \/ now' = now + 1
    /\ sy'.exchange_rate \in Rates
    /\ MayDepreciate \/ sy'.exchange_rate >= sy.exchange_rate

Turns ==
    \/ \E amount \in Nat : StripTurn(amount) \/ QuietTurn(amount)
    \/ \E py, paid \in Nat : MergeTurn(py, paid)
    \/ \E user \in Users : UserTurn(user)
    \/ \E user \in Users, paid \in Nat : ClaimTurn(user, paid)

LEMMA SameRatesEarn ==
    ASSUME NEW v, NEW w, NEW p, SameRates(v, w)
    PROVE  /\ EarnedSy(w, p) = EarnedSy(v, p)
           /\ InEmergency(w) = InEmergency(v)
  BY DEF SameRates, EarnedSy, InEmergency

LEMMA BackingIsFresh ==
    ASSUME NEW v \in VaultAccount
    PROVE  /\ Fresh(SetSyForPt(v))
           /\ Counted(SetSyForPt(v)) = Counted(v)
  <1> DEFINE b == SyBackingForPt(v.last_seen_sy_exchange_rate, v.pt_supply,
                                 ActiveSy(v))
             w == SetSyForPt(v)
  <1>1. w = [v EXCEPT !.sy_for_pt = b]
    BY DEF SetSyForPt
  <1> HIDE DEF b, w
  <1>2. /\ w.sy_for_pt = b
        /\ w.last_seen_sy_exchange_rate = v.last_seen_sy_exchange_rate
        /\ w.pt_supply = v.pt_supply
        /\ w.total_sy_in_escrow = v.total_sy_in_escrow
        /\ w.treasury_sy = v.treasury_sy /\ w.uncollected_sy = v.uncollected_sy
    BY <1>1 DEF VaultAccount
  <1>3. ActiveSy(w) = ActiveSy(v)
    BY <1>2 DEF ActiveSy
  <1> QED
    BY <1>2, <1>3 DEF Fresh, Counted, b, w

\* What update_vault_yield counts, and the backing that a merge redeems at.
LEMMA UpdateCounts ==
    ASSUME TypeOK, CanEarn(UpdatedVault)
    PROVE  /\ SySurplus(vault, sy.exchange_rate, now) \in Nat
           /\ EarnedSy(UpdatedVault, position[Robot]) \in Nat
           /\ Counted(UpdatedVault)
                = Counted(vault) + SySurplus(vault, sy.exchange_rate, now)
                    + EarnedSy(UpdatedVault, position[Robot])
           /\ UpdatedVault.sy_for_pt * sy.exchange_rate <= vault.pt_supply * ONE
  <1> DEFINE s == SeenVault
             seen == SeenState(vault, sy, now)
             surplus == SySurplus(vault, sy.exchange_rate, now)
             e == EarnedSy(s, position[Robot])
  <1>1. /\ vault \in VaultAccount /\ now \in Nat
        /\ sy \in [exchange_rate : Rates, emission_indexes : Seq(Nat)]
        /\ position[Robot] \in YieldTokenPosition
        /\ sy.exchange_rate \in Nat /\ sy.exchange_rate \in Rates
        /\ vault.pt_supply \in Nat
        /\ vault.treasury_sy \in Nat /\ vault.uncollected_sy \in Nat
    BY TypeParts, HoldersFacts DEF TypeOK, SyTypeOK
  <1>2. surplus \in Nat
    BY <1>1, SySurplusType
  <1>3. /\ s \in VaultAccount /\ SameLedger(vault, s)
        /\ s.last_seen_sy_exchange_rate = sy.exchange_rate
    BY <1>1, UpdateFromSyStateFacts DEF SeenVault
  <1>4. s = SetSyForPt(seen)
    BY DEF SeenVault, UpdateFromSyState
  <1>5. /\ seen.treasury_sy = vault.treasury_sy + surplus
        /\ seen.uncollected_sy = vault.uncollected_sy
    BY <1>1 DEF SeenState, VaultAccount
  <1> DEFINE b == SyBackingForPt(seen.last_seen_sy_exchange_rate,
                                 seen.pt_supply, ActiveSy(seen))
  <1>6. /\ s.treasury_sy = vault.treasury_sy + surplus
        /\ s.uncollected_sy = vault.uncollected_sy
        /\ s.sy_for_pt = b
    <2>1. s = [seen EXCEPT !.sy_for_pt = b]
      BY <1>4 DEF SetSyForPt
    <2>2. DOMAIN seen = DOMAIN vault /\ "sy_for_pt" \in DOMAIN vault
      BY <1>1 DEF SeenState, VaultAccount
    <2> HIDE DEF seen, s, b, surplus
    <2> QED
      BY <1>1, <1>5, <2>1, <2>2 DEF VaultAccount
  <1>7. e \in Nat
    BY <1>1, <1>3, EarnedSyType
  <1>8. UpdatedVault = EarnAllVault(s, position[Robot])
    BY DEF UpdatedVault
  <1> HIDE DEF s, e, surplus
  <1>9. /\ UpdatedVault.treasury_sy = s.treasury_sy
        /\ UpdatedVault.uncollected_sy = s.uncollected_sy + e
        /\ UpdatedVault.sy_for_pt = s.sy_for_pt
        /\ SameRates(s, UpdatedVault)
    BY <1>1, <1>3, <1>8, EarnAllVaultFacts DEF EarnAllVault, VaultAccount, e
  <1>10. EarnedSy(UpdatedVault, position[Robot]) = e
    BY <1>9, SameRatesEarn DEF e
  <1>11. Counted(UpdatedVault) = Counted(vault) + surplus + e
    BY <1>1, <1>2, <1>6, <1>7, <1>9 DEF Counted
  <1>12. s.sy_for_pt * sy.exchange_rate <= vault.pt_supply * ONE
    <2>1. /\ seen.last_seen_sy_exchange_rate = sy.exchange_rate
          /\ seen.pt_supply = vault.pt_supply
      BY <1>1 DEF SeenState, VaultAccount
    <2>2. sy.exchange_rate \in Nat \ {0}
      BY <1>1, SyAssumption
    <2>3. /\ PyToSy(sy.exchange_rate, vault.pt_supply) \in Nat
          /\ PyToSy(sy.exchange_rate, vault.pt_supply) * sy.exchange_rate
               <= vault.pt_supply * ONE
      BY <1>1, <2>2, PyToSyWithinPar
    <2>4. s.sy_for_pt \in Nat
      BY <1>3, VaultFields
    <2>5. s.sy_for_pt <= PyToSy(sy.exchange_rate, vault.pt_supply)
      <3>1. s.sy_for_pt
              = Smaller(PyToSy(sy.exchange_rate, vault.pt_supply), ActiveSy(seen))
        BY <1>6, <2>1, <2>2 DEF SyBackingForPt
      <3> HIDE DEF seen
      <3> QED
        BY <2>3, <2>4, <3>1 DEF Smaller
    <2>6. sy.exchange_rate * s.sy_for_pt
            <= sy.exchange_rate * PyToSy(sy.exchange_rate, vault.pt_supply)
      BY <2>2, <2>3, <2>4, <2>5, MulMonotone
    <2>7. \A x \in Nat : sy.exchange_rate * x = x * sy.exchange_rate
                         /\ x * sy.exchange_rate \in Nat
      BY <2>2, SMT
    <2>8. vault.pt_supply * ONE \in Nat
      BY <1>1, OneAssumption, SMT
    <2> QED
      BY <2>3, <2>4, <2>6, <2>7, <2>8
  <1> QED
    BY <1>2, <1>7, <1>9, <1>10, <1>11, <1>12 DEF surplus

\* What staging a user's yield counts.
LEMMA StagingCounts ==
    ASSUME TypeOK, NEW v \in VaultAccount, CanEarn(v), NEW user \in Users
    PROVE  /\ EarnedSy(v, position[user]) \in Nat
           /\ Counted(StagedVault(v, user))
                = Counted(v) + EarnedSy(v, position[user])
           /\ Fresh(StagedVault(v, user))
  <1> DEFINE e == EarnedSy(v, position[user])
             w == EarnAllVault(v, position[user])
  <1>1. /\ position[user] \in YieldTokenPosition
        /\ v.treasury_sy \in Nat /\ v.uncollected_sy \in Nat
    BY TypeParts, HoldersFacts, VaultFields
  <1>2. e \in Nat
    BY <1>1, EarnedSyType
  <1>3. w \in VaultAccount
    BY <1>1, EarnAllVaultFacts
  <1>4. Counted(w) = Counted(v) + e
    <2>1. w.treasury_sy = v.treasury_sy /\ w.uncollected_sy = v.uncollected_sy + e
      BY DEF EarnAllVault, VaultAccount
    <2> HIDE DEF w, e
    <2> QED
      BY <1>1, <1>2, <2>1 DEF Counted
  <1>5. StagedVault(v, user) = SetSyForPt(w)
    BY DEF StagedVault
  <1> HIDE DEF w, e
  <1> QED
    BY <1>2, <1>3, <1>4, <1>5, BackingIsFresh DEF e

LEMMA StripTurns ==
    ASSUME TypeOK, NEW amount \in StripAmounts, Strip(amount)
    PROVE  amount \in Nat /\ StripTurn(amount)
  <1> DEFINE v == UpdatedVault
             py == SyToPy(v.last_seen_sy_exchange_rate, amount)
             u == [v EXCEPT !.total_sy_in_escrow = @ + amount,
                            !.pt_supply = @ + py]
             r == IncYtBalance(UpdatedRobot, py)
  <1>1. /\ CanEarn(v) /\ ~InEmergency(v) /\ IsActive(now)
        /\ vault' = SetSyForPt(u)
        /\ position' = [position EXCEPT ![Robot] = r]
        /\ now' = now /\ sy' = sy
    BY DEF Strip, CanUpdateYield
  <1>2. /\ v \in VaultAccount /\ SameLedger(vault, v)
        /\ v.last_seen_sy_exchange_rate = sy.exchange_rate
        /\ UpdatedRobot \in YieldTokenPosition
        /\ UpdatedRobot.yt_balance = Balance(Robot)
        /\ UpdatedRobot.interest.last_seen_index = EarnedIndex(v, Robot)
    BY <1>1, UpdateFacts DEF SameBalance, Balance, EarnedIndex, Index
  <1>3. amount \in Nat /\ py \in Nat
    BY <1>2, VaultFields, SyToPyType, VaultAssumption
  <1>4. Counted(v) = Counted(vault) + SySurplus(vault, sy.exchange_rate, now)
                       + EarnedSy(UpdatedVault, position[Robot])
    BY <1>1, UpdateCounts
  <1>5. py = SyToPy(sy.exchange_rate, amount)
    BY <1>2
  <1> HIDE DEF py, v
  <1>6. v.total_sy_in_escrow + amount \in Nat /\ v.pt_supply + py \in Nat
    BY <1>2, <1>3, VaultFields
  <1>7. /\ u \in VaultAccount /\ SameRates(v, u) /\ Counted(u) = Counted(v)
        /\ u.total_sy_in_escrow = v.total_sy_in_escrow + amount
        /\ u.pt_supply = v.pt_supply + py
    BY <1>2, <1>6 DEF VaultAccount, SameRates, Counted
  <1> HIDE DEF u
  <1>8. /\ SameRates(v, vault') /\ Fresh(vault') /\ Counted(vault') = Counted(v)
        /\ vault'.total_sy_in_escrow = vault.total_sy_in_escrow + amount
        /\ vault'.pt_supply = vault.pt_supply + py
    BY <1>1, <1>2, <1>7, SetSyForPtFacts, BackingIsFresh
    DEF SameRates, SameLedger
  <1>9. /\ r.yt_balance = Balance(Robot) + py
        /\ r.interest.last_seen_index = EarnedIndex(v, Robot)
    BY <1>2, <1>3, IncYtBalanceFacts
  <1>10. position \in [Holders -> YieldTokenPosition]
    BY DEF TypeOK
  <1> HIDE DEF r
  <1>11. /\ position'[Robot] = r
         /\ \A h \in Users : position'[h] = position[h]
    BY <1>1, <1>10, HoldersFacts
  <1>12. Balance(Robot)' = Balance(Robot) + py
         /\ Index(Robot)' = EarnedIndex(v, Robot)
    BY <1>9, <1>11 DEF Balance, Index
  <1>13. \A h \in Users : SameClaim(h)
    BY <1>11 DEF SameClaim, Balance, Index
  <1>14. Counted(v) \in Nat
    BY <1>2, VaultFields DEF Counted
  <1>15. Counted(vault') = Counted(vault) + SySurplus(vault, sy.exchange_rate, now)
                            + EarnedSy(UpdatedVault, position[Robot]) + 0
    BY <1>4, <1>8, <1>14
  <1>16. Updates(0)
    BY <1>1, <1>8, <1>12, <1>15 DEF Updates, v
  <1> QED
    BY <1>1, <1>3, <1>5, <1>8, <1>12, <1>13, <1>16 DEF StripTurn, v

LEMMA MergeTurns ==
    ASSUME TypeOK, NEW py \in MergeAmounts, Merge(py)
    PROVE  py \in Nat /\ \E paid \in Nat : MergeTurn(py, paid)
  <1> DEFINE v == UpdatedVault
             paid == MergedSy(py, v)
             burned == BurnedYt(py)
             u == [v EXCEPT !.total_sy_in_escrow = @ - paid,
                            !.pt_supply = @ - py]
             r == DecYtBalance(UpdatedRobot, burned)
  <1>1. /\ CanEarn(v) /\ ~InEmergency(v)
        /\ paid <= v.total_sy_in_escrow /\ py <= v.pt_supply
        /\ burned <= UpdatedRobot.yt_balance
        /\ vault' = SetSyForPt(u)
        /\ position' = [position EXCEPT ![Robot] = r]
        /\ now' = now /\ sy' = sy
    BY DEF Merge, CanMerge, CanUpdateYield
  <1>2. /\ v \in VaultAccount /\ SameLedger(vault, v)
        /\ v.last_seen_sy_exchange_rate = sy.exchange_rate
        /\ UpdatedRobot \in YieldTokenPosition
        /\ UpdatedRobot.yt_balance = Balance(Robot)
        /\ UpdatedRobot.interest.last_seen_index = EarnedIndex(v, Robot)
    BY <1>1, UpdateFacts DEF SameBalance, Balance, EarnedIndex, Index
  <1>3. /\ Counted(v) = Counted(vault) + SySurplus(vault, sy.exchange_rate, now)
                          + EarnedSy(UpdatedVault, position[Robot])
        /\ v.sy_for_pt * sy.exchange_rate <= vault.pt_supply * ONE
    BY <1>1, UpdateCounts
  <1>4. py \in Nat /\ burned \in Nat
    BY VaultAssumption DEF BurnedYt
  <1>5. paid \in Nat /\ paid * sy.exchange_rate <= py * ONE
    <2>1. /\ v.sy_for_pt \in Nat /\ v.pt_supply \in Nat
          /\ v.pt_supply = vault.pt_supply /\ sy.exchange_rate \in Nat
      BY <1>2, VaultFields, TypeParts DEF SameLedger
    <2> HIDE DEF v
    <2> QED
      BY <1>1, <1>3, <1>4, <2>1, RedeemWithinShare DEF MergedSy
  <1> HIDE DEF v, paid, burned
  <1>6. v.total_sy_in_escrow - paid \in Nat /\ v.pt_supply - py \in Nat
    BY <1>1, <1>2, <1>4, <1>5, VaultFields
  <1>7. /\ u \in VaultAccount /\ SameRates(v, u) /\ Counted(u) = Counted(v)
        /\ u.total_sy_in_escrow = v.total_sy_in_escrow - paid
        /\ u.pt_supply = v.pt_supply - py
    BY <1>2, <1>6 DEF VaultAccount, SameRates, Counted
  <1> HIDE DEF u
  <1>8. /\ SameRates(v, vault') /\ Fresh(vault') /\ Counted(vault') = Counted(v)
        /\ vault'.total_sy_in_escrow = vault.total_sy_in_escrow - paid
        /\ vault'.pt_supply = vault.pt_supply - py
        /\ paid <= vault.total_sy_in_escrow /\ py <= vault.pt_supply
    BY <1>1, <1>2, <1>7, SetSyForPtFacts, BackingIsFresh
    DEF SameRates, SameLedger
  <1>9. /\ burned <= Balance(Robot)
        /\ r.yt_balance = Balance(Robot) - burned
        /\ r.interest.last_seen_index = EarnedIndex(v, Robot)
    BY <1>1, <1>2, <1>4, DecYtBalanceFacts
  <1>10. position \in [Holders -> YieldTokenPosition]
    BY DEF TypeOK
  <1> HIDE DEF r
  <1>11. /\ position'[Robot] = r
         /\ \A h \in Users : position'[h] = position[h]
    BY <1>1, <1>10, HoldersFacts
  <1>12. Balance(Robot)' = Balance(Robot) - burned
         /\ Index(Robot)' = EarnedIndex(v, Robot)
    BY <1>9, <1>11 DEF Balance, Index
  <1>13. \A h \in Users : SameClaim(h)
    BY <1>11 DEF SameClaim, Balance, Index
  <1>14. Counted(v) \in Nat
    BY <1>2, VaultFields DEF Counted
  <1>15. Counted(vault') = Counted(vault) + SySurplus(vault, sy.exchange_rate, now)
                            + EarnedSy(UpdatedVault, position[Robot]) + 0
    BY <1>3, <1>8, <1>14
  <1>16. Updates(0)
    BY <1>1, <1>8, <1>12, <1>15 DEF Updates, v
  <1>17. MergeTurn(py, paid)
    BY <1>1, <1>5, <1>8, <1>9, <1>12, <1>13, <1>16 DEF MergeTurn, v, burned
  <1> QED
    BY <1>4, <1>5, <1>17

\* The instructions that stage a user's yield.
LEMMA StagingTurns ==
    ASSUME TypeOK, NEW user \in Users, CanEarn(UpdatedVault),
           vault' = StagedVault(UpdatedVault, user),
           NEW p, NEW r,
           position' = [position EXCEPT ![user] = p, ![Robot] = r],
           p.interest = StagedPosition(UpdatedVault, user).interest,
           r.interest = UpdatedRobot.interest,
           p.yt_balance + r.yt_balance = Balance(user) + Balance(Robot),
           \/ p.yt_balance = Balance(user)
           \/ /\ IsActive(now)
              /\ InEmergency(UpdatedVault) => p.yt_balance <= Balance(user),
           now' = now, sy' = sy
    PROVE  UserTurn(user)
  <1> DEFINE v == UpdatedVault
  <1>1. /\ v \in VaultAccount /\ SameLedger(vault, v)
        /\ UpdatedRobot.interest.last_seen_index = EarnedIndex(v, Robot)
    BY UpdateFacts DEF EarnedIndex, Index
  <1>2. /\ SameRates(v, vault') /\ SameLedger(v, vault')
        /\ StagedPosition(v, user).interest.last_seen_index
             = EarnedIndex(v, user)
    BY <1>1, StageFacts DEF EarnedIndex, Index
  <1>3. /\ Counted(vault') = Counted(v) + EarnedSy(v, position[user])
        /\ Fresh(vault')
    BY <1>1, StagingCounts
  <1>4. Counted(v) = Counted(vault) + SySurplus(vault, sy.exchange_rate, now)
                       + EarnedSy(v, position[Robot])
    BY UpdateCounts
  <1>5. /\ position \in [Holders -> YieldTokenPosition]
        /\ user \in Holders /\ Robot \in Holders /\ user # Robot
    BY HoldersFacts DEF TypeOK
  <1>6. /\ position'[user] = p /\ position'[Robot] = r
        /\ \A h \in Holders \ {user, Robot} : position'[h] = position[h]
    BY <1>5
  <1> HIDE DEF v
  <1>7. /\ Balance(user)' = p.yt_balance /\ Balance(Robot)' = r.yt_balance
        /\ Index(user)' = EarnedIndex(v, user)
        /\ Index(Robot)' = EarnedIndex(v, Robot)
    BY <1>1, <1>2, <1>6 DEF Balance, Index, v
  <1>8. \A h \in Users \ {user} : SameClaim(h)
    BY <1>6, HoldersFacts DEF SameClaim, Balance, Index
  <1>9. Updates(EarnedSy(v, position[user]))
    BY <1>2, <1>3, <1>4, <1>7 DEF Updates, v
  <1>10. /\ vault'.total_sy_in_escrow = vault.total_sy_in_escrow
         /\ vault'.pt_supply = vault.pt_supply
    BY <1>1, <1>2 DEF SameLedger
  <1> QED
    BY <1>7, <1>8, <1>9, <1>10 DEF UserTurn, v

LEMMA DepositYtTurns ==
    ASSUME TypeOK, NEW user \in Users, NEW amount \in YtAmounts,
           DepositYt(user, amount)
    PROVE  UserTurn(user)
  <1> DEFINE staged == StagedPosition(UpdatedVault, user)
             robot == UpdatedRobot
             p == IncYtBalance(staged, amount)
             r == DecYtBalance(robot, amount)
  <1>1. /\ CanEarn(UpdatedVault) /\ IsActive(now) /\ ~InEmergency(UpdatedVault)
        /\ amount <= robot.yt_balance
        /\ vault' = StagedVault(UpdatedVault, user)
        /\ position' = [position EXCEPT ![user] = p, ![Robot] = r]
        /\ now' = now /\ sy' = sy
    BY DEF DepositYt, CanUpdateYield, syVars
  <1>2. /\ staged \in YieldTokenPosition /\ staged.yt_balance = Balance(user)
        /\ robot \in YieldTokenPosition /\ robot.yt_balance = Balance(Robot)
    BY <1>1, UpdateFacts, StageFacts DEF Balance, SameBalance
  <1>3. amount \in Nat /\ Balance(user) \in Nat /\ Balance(Robot) \in Nat
    BY VaultAssumption, HoldersFacts, HoldingTypes
  <1> HIDE DEF staged, robot
  <1>4. p.interest = staged.interest /\ p.yt_balance = Balance(user) + amount
    BY <1>2, <1>3, IncYtBalanceFacts
  <1>5. r.interest = robot.interest /\ r.yt_balance = Balance(Robot) - amount
    BY <1>1, <1>2, <1>3, DecYtBalanceFacts
  <1> HIDE DEF p, r
  <1>6. p.yt_balance + r.yt_balance = Balance(user) + Balance(Robot)
    BY <1>1, <1>2, <1>3, <1>4, <1>5
  <1> QED
    BY <1>1, <1>4, <1>5, <1>6, StagingTurns DEF staged, robot

LEMMA WithdrawYtTurns ==
    ASSUME TypeOK, NEW user \in Users, NEW amount \in YtAmounts,
           WithdrawYt(user, amount)
    PROVE  UserTurn(user)
  <1> DEFINE staged == StagedPosition(UpdatedVault, user)
             robot == UpdatedRobot
             p == DecYtBalance(staged, amount)
             r == IncYtBalance(robot, amount)
  <1>1. /\ CanEarn(UpdatedVault) /\ IsActive(now)
        /\ amount <= Balance(user)
        /\ vault' = StagedVault(UpdatedVault, user)
        /\ position' = [position EXCEPT ![user] = p, ![Robot] = r]
        /\ now' = now /\ sy' = sy
    BY DEF WithdrawYt, CanUpdateYield, Balance, syVars
  <1>2. /\ staged \in YieldTokenPosition /\ staged.yt_balance = Balance(user)
        /\ robot \in YieldTokenPosition /\ robot.yt_balance = Balance(Robot)
    BY <1>1, UpdateFacts, StageFacts DEF Balance, SameBalance
  <1>3. amount \in Nat /\ Balance(user) \in Nat /\ Balance(Robot) \in Nat
    BY VaultAssumption, HoldersFacts, HoldingTypes
  <1> HIDE DEF staged, robot
  <1>4. p.interest = staged.interest /\ p.yt_balance = Balance(user) - amount
    BY <1>1, <1>2, <1>3, DecYtBalanceFacts
  <1>5. r.interest = robot.interest /\ r.yt_balance = Balance(Robot) + amount
    BY <1>2, <1>3, IncYtBalanceFacts
  <1> HIDE DEF p, r
  <1>6. /\ p.yt_balance + r.yt_balance = Balance(user) + Balance(Robot)
        /\ p.yt_balance <= Balance(user)
    BY <1>1, <1>3, <1>4, <1>5
  <1> QED
    BY <1>1, <1>4, <1>5, <1>6, StagingTurns DEF staged, robot

LEMMA StageYieldTurns ==
    ASSUME TypeOK, NEW user \in Users, StageYield(user)
    PROVE  UserTurn(user)
  <1> DEFINE staged == StagedPosition(UpdatedVault, user)
             robot == UpdatedRobot
  <1>1. /\ CanEarn(UpdatedVault)
        /\ vault' = StagedVault(UpdatedVault, user)
        /\ position' = [position EXCEPT ![user] = staged, ![Robot] = robot]
        /\ now' = now /\ sy' = sy
    BY DEF StageYield, CanUpdateYield, syVars
  <1>2. staged.yt_balance = Balance(user) /\ robot.yt_balance = Balance(Robot)
    BY <1>1, UpdateFacts, StageFacts DEF Balance, SameBalance
  <1> HIDE DEF staged, robot
  <1>3. staged.yt_balance + robot.yt_balance = Balance(user) + Balance(Robot)
    BY <1>2
  <1> QED
    BY <1>1, <1>2, <1>3, StagingTurns DEF staged, robot

LEMMA CollectInterestTurns ==
    ASSUME TypeOK, NEW user \in Users, CollectInterest(user)
    PROVE  \E paid \in Nat : ClaimTurn(user, paid)
  <1> DEFINE p == EarnAllPosition(vault, position[user])
             v == EarnAllVault(vault, position[user])
             e == EarnedSy(vault, position[user])
  <1>1. PICK paid \in Claimable(position[user].interest.staged) :
          /\ CanEarn(vault)
          /\ paid <= v.total_sy_in_escrow /\ paid <= v.uncollected_sy
          /\ vault' = [v EXCEPT
                 !.claim_limits = CountClaim(@, paid, now),
                 !.total_sy_in_escrow = @ - paid,
                 !.uncollected_sy = @ - paid]
          /\ position' = [position EXCEPT
                 ![user] = [p EXCEPT !.interest = DecStaged(@, paid)]]
          /\ now' = now /\ sy' = sy
    BY DEF CollectInterest
  <1>2. /\ position \in [Holders -> YieldTokenPosition]
        /\ vault \in VaultAccount
        /\ user \in Holders
        /\ position[user] \in YieldTokenPosition
        /\ position[user].interest.staged \in Nat
        /\ vault.uncollected_sy \in Nat /\ vault.treasury_sy \in Nat
        /\ vault.total_sy_in_escrow \in Nat
    BY HoldersFacts, TypeParts DEF TypeOK
  <1>3. paid \in Nat /\ paid <= position[user].interest.staged
    BY <1>1, <1>2, ClaimableFacts
  <1>4. e \in Nat
    BY <1>2, EarnedSyType
  <1>5. /\ v \in VaultAccount /\ SameRates(vault, v)
        /\ v.pt_supply = vault.pt_supply /\ v.sy_for_pt = vault.sy_for_pt
        /\ v.total_sy_in_escrow = vault.total_sy_in_escrow
        /\ v.treasury_sy = vault.treasury_sy
        /\ v.uncollected_sy = vault.uncollected_sy + e
    BY <1>2, EarnAllVaultFacts DEF EarnAllVault, VaultAccount, SameLedger
  <1>6. /\ p \in YieldTokenPosition /\ p.yt_balance = Balance(user)
        /\ p.interest.last_seen_index = EarnedIndex(vault, user)
        /\ p.interest.staged >= position[user].interest.staged
        /\ p.interest.staged \in Nat
    <2>1. /\ p \in YieldTokenPosition /\ p.yt_balance = Balance(user)
          /\ p.interest.last_seen_index = EarnedIndex(vault, user)
          /\ p.interest.staged >= position[user].interest.staged
      BY <1>1, <1>2, EarnAllPositionFacts
      DEF Balance, SameBalance, EarnedIndex, Index
    <2> QED
      BY <2>1 DEF YieldTokenPosition, Tracker
  <1> HIDE DEF p, v, e
  <1>7. /\ SameBacking
        /\ vault'.total_sy_in_escrow = vault.total_sy_in_escrow - paid
        /\ vault'.treasury_sy = vault.treasury_sy
        /\ vault'.uncollected_sy = (vault.uncollected_sy + e) - paid
    <2>1. /\ SameRates(v, vault')
          /\ vault'.pt_supply = v.pt_supply /\ vault'.sy_for_pt = v.sy_for_pt
          /\ vault'.total_sy_in_escrow = v.total_sy_in_escrow - paid
          /\ vault'.treasury_sy = v.treasury_sy
          /\ vault'.uncollected_sy = v.uncollected_sy - paid
      <3>1. PICK limits :
              vault' = [v EXCEPT !.claim_limits = limits,
                                 !.total_sy_in_escrow = @ - paid,
                                 !.uncollected_sy = @ - paid]
        BY <1>1
      <3> QED
        BY <1>5, <3>1 DEF VaultAccount, SameRates
    <2> QED
      BY <1>5, <2>1 DEF SameBacking, SameRates
  <1>8. /\ paid <= Counted(vault) + e
        /\ Counted(vault') = (Counted(vault) + e) - paid
    BY <1>1, <1>2, <1>3, <1>4, <1>5, <1>7 DEF Counted
  <1> DEFINE q == [p EXCEPT !.interest = DecStaged(@, paid)]
  <1>9. /\ q.yt_balance = Balance(user)
        /\ q.interest.last_seen_index = EarnedIndex(vault, user)
    <2>1. paid <= p.interest.staged
      BY <1>2, <1>3, <1>6
    <2> QED
      BY <1>3, <1>6, <2>1, InterestClaimFacts DEF SameBalance
  <1>10. /\ position'[user] = q
         /\ \A h \in Holders \ {user} : position'[h] = position[h]
    BY <1>1, <1>2
  <1> HIDE DEF q
  <1>11. /\ Balance(user)' = Balance(user)
         /\ Index(user)' = EarnedIndex(vault, user)
         /\ \A h \in Holders \ {user} : SameClaim(h)
    BY <1>9, <1>10 DEF Balance, Index, SameClaim
  <1>12. paid <= vault.total_sy_in_escrow
    BY <1>1, <1>5
  <1>13. /\ CanEarn(vault) /\ now' = now /\ sy' = sy
    BY <1>1
  <1>14. ClaimTurn(user, paid)
    BY <1>7, <1>8, <1>11, <1>12, <1>13 DEF ClaimTurn, e
  <1> QED
    BY <1>3, <1>14

\* The robot's and the treasury's collections.
LEMMA CollectionTurns ==
    ASSUME TypeOK, CollectRobotInterest \/ CollectTreasuryInterest
    PROVE  \E paid \in Nat : QuietTurn(paid)
  <1>1. /\ position \in [Holders -> YieldTokenPosition]
        /\ vault \in VaultAccount
        /\ vault.uncollected_sy \in Nat /\ vault.treasury_sy \in Nat
        /\ position[Robot] \in YieldTokenPosition
        /\ position[Robot].interest.staged \in Nat
        /\ sy.exchange_rate \in Rates /\ sy.exchange_rate \in Nat
        /\ Robot \in Holders
    BY HoldersFacts, TypeParts DEF TypeOK, SyTypeOK
  <1>2. ASSUME NEW paid \in Nat,
               paid <= vault.total_sy_in_escrow,
               \/ /\ paid <= vault.uncollected_sy
                  /\ vault' = [vault EXCEPT !.uncollected_sy = @ - paid,
                                            !.total_sy_in_escrow = @ - paid]
               \/ /\ paid <= vault.treasury_sy
                  /\ vault' = [vault EXCEPT !.treasury_sy = @ - paid,
                                            !.total_sy_in_escrow = @ - paid],
               \A h \in Holders : SameClaim(h), now' = now, sy' = sy
        PROVE  QuietTurn(paid)
    <2>1. /\ SameBacking
          /\ vault'.total_sy_in_escrow = vault.total_sy_in_escrow - paid
      BY <1>1, <1>2 DEF VaultAccount, SameBacking, SameRates
    <2>2. paid <= Counted(vault) /\ Counted(vault') = Counted(vault) - paid
      <3>1. CASE /\ paid <= vault.uncollected_sy
                 /\ vault'.uncollected_sy = vault.uncollected_sy - paid
                 /\ vault'.treasury_sy = vault.treasury_sy
        BY <1>1, <3>1 DEF Counted
      <3>2. CASE /\ paid <= vault.treasury_sy
                 /\ vault'.treasury_sy = vault.treasury_sy - paid
                 /\ vault'.uncollected_sy = vault.uncollected_sy
        BY <1>1, <3>2 DEF Counted
      <3> QED
        BY <1>1, <1>2, <3>1, <3>2 DEF VaultAccount
    <2> QED
      BY <1>1, <1>2, <2>1, <2>2 DEF QuietTurn
  <1>3. CASE CollectRobotInterest
    <2>1. PICK paid \in Claimable(position[Robot].interest.staged) :
            /\ paid <= vault.uncollected_sy /\ paid <= vault.total_sy_in_escrow
            /\ vault' = [vault EXCEPT !.uncollected_sy = @ - paid,
                                      !.total_sy_in_escrow = @ - paid]
            /\ position' = [position EXCEPT
                   ![Robot].interest = DecStaged(@, paid)]
            /\ now' = now /\ sy' = sy
      BY <1>3 DEF CollectRobotInterest
    <2>2. paid \in Nat /\ paid <= position[Robot].interest.staged
      BY <1>1, <2>1, ClaimableFacts
    <2> DEFINE r == [position[Robot] EXCEPT !.interest = DecStaged(@, paid)]
    <2>3. /\ r.yt_balance = Balance(Robot)
          /\ r.interest.last_seen_index = Index(Robot)
      BY <1>1, <2>2, InterestClaimFacts DEF SameBalance, Balance, Index
    <2>4. position'[Robot] = r
          /\ \A h \in Holders \ {Robot} : position'[h] = position[h]
      BY <1>1, <2>1
    <2> HIDE DEF r
    <2>5. \A h \in Holders : SameClaim(h)
      BY <2>3, <2>4 DEF SameClaim, Balance, Index
    <2> QED
      BY <1>2, <2>1, <2>2, <2>5
  <1>4. CASE CollectTreasuryInterest
    <2>1. PICK paid \in Claimable(vault.treasury_sy) :
            /\ paid <= vault.total_sy_in_escrow
            /\ vault' = [vault EXCEPT !.treasury_sy = @ - paid,
                                      !.total_sy_in_escrow = @ - paid]
            /\ position' = position /\ now' = now /\ sy' = sy
      BY <1>4 DEF CollectTreasuryInterest
    <2>2. paid \in Nat /\ paid <= vault.treasury_sy
      BY <1>1, <2>1, ClaimableFacts
    <2>3. \A h \in Holders : SameClaim(h)
      BY <2>1 DEF SameClaim, Balance, Index
    <2> QED
      BY <1>2, <2>1, <2>2, <2>3
  <1> QED
    BY <1>3, <1>4

\* The steps in which no claim moves.
LEMMA SameClaims ==
    ASSUME TypeOK, UnopenedAreEmpty, UnopenedNeverEarned,
           \/ Tick
           \/ SyMoves
           \/ UNCHANGED vars
           \/ \E user \in Users : InitializeYieldPosition(user)
           \/ \E user \in Users, i \in 1..MaxStreams : CollectEmission(user, i)
           \/ AdminStep /\ ~CollectRobotInterest /\ ~CollectTreasuryInterest
    PROVE  \A h \in Holders : SameClaim(h)
  <1>1. /\ position \in [Holders -> YieldTokenPosition]
        /\ \A u \in Users : u \in Holders
        /\ Robot \in Holders
    BY HoldersFacts DEF TypeOK
  <1>2. ASSUME position' = position
        PROVE  \A h \in Holders : SameClaim(h)
    BY <1>2 DEF SameClaim, Balance, Index
  <1>3. ASSUME NEW holder \in Holders, NEW i, NEW amount,
               position' = [position EXCEPT
                   ![holder].emissions[i] = DecStaged(@, amount)]
        PROVE  \A h \in Holders : SameClaim(h)
    BY <1>1, <1>3 DEF YieldTokenPosition, SameClaim, Balance, Index
  <1>4. ASSUME NEW user \in Users, InitializeYieldPosition(user)
        PROVE  \A h \in Holders : SameClaim(h)
    <2>1. /\ user \notin opened
          /\ position' = [position EXCEPT ![user] = Realloc(NewPosition)]
      BY <1>4 DEF InitializeYieldPosition
    <2>2. /\ position'[user] = Realloc(NewPosition)
          /\ \A h \in Holders \ {user} : position'[h] = position[h]
      BY <1>1, <2>1
    <2>3. /\ Realloc(NewPosition).yt_balance = 0
          /\ Realloc(NewPosition).interest.last_seen_index = 0
      BY DEF Realloc, NewPosition, NewTracker
    <2>4. Balance(user) = 0 /\ Index(user) = 0
      BY <2>1 DEF UnopenedAreEmpty, UnopenedNeverEarned, Index
    <2> QED
      BY <2>2, <2>3, <2>4 DEF SameClaim, Balance, Index
  <1>5. ASSUME NEW user \in Users, NEW i \in 1..MaxStreams,
               CollectEmission(user, i)
        PROVE  \A h \in Holders : SameClaim(h)
    <2>1. PICK amount : position' = [position EXCEPT
                            ![user].emissions[i] = DecStaged(@, amount)]
      BY <1>5 DEF CollectEmission
    <2> QED
      BY <1>1, <1>3, <2>1
  <1>6. ASSUME NEW i \in 1..MaxStreams, CollectRobotEmission(i)
        PROVE  \A h \in Holders : SameClaim(h)
    <2>1. PICK amount : position' = [position EXCEPT
                            ![Robot].emissions[i] = DecStaged(@, amount)]
      BY <1>6 DEF CollectRobotEmission
    <2> QED
      BY <1>1, <1>3, <2>1
  <1>7. ASSUME NEW bps \in EmissionFees, AddEmission(bps)
        PROVE  \A h \in Holders : SameClaim(h)
    <2>1. PICK n : position' = [position EXCEPT ![Robot].space = n]
      BY <1>7 DEF AddEmission
    <2> QED
      BY <1>1, <2>1 DEF YieldTokenPosition, SameClaim, Balance, Index
  <1>8. CASE Tick \/ SyMoves \/ UNCHANGED vars
    BY <1>2, <1>8 DEF Tick, SyMoves, vars
  <1>9. CASE AdminStep /\ ~CollectRobotInterest /\ ~CollectTreasuryInterest
    BY <1>2, <1>6, <1>7, <1>9
    DEF AdminStep, RemoveVaultEmission, CollectTreasuryEmission,
        ChangeEmissionBpsFee, ChangeCpiAccounts, SetVaultStatus,
        ChangeVaultBpsFee, ChangeMinOperationSize, ChangeClaimLimits,
        ChangeMaxPySupply
  <1> QED
    BY <1>4, <1>5, <1>8, <1>9

\* What the SY program and the clock do in them.
LEMMA QuietRates ==
    ASSUME TypeOK,
           \/ Tick
           \/ SyMoves
           \/ UNCHANGED vars
           \/ \E user \in Users : InitializeYieldPosition(user)
           \/ \E user \in Users, i \in 1..MaxStreams : CollectEmission(user, i)
           \/ AdminStep /\ ~CollectRobotInterest /\ ~CollectTreasuryInterest
    PROVE  /\ now' = now \/ now' = now + 1
           /\ sy'.exchange_rate \in Rates
           /\ MayDepreciate \/ sy'.exchange_rate >= sy.exchange_rate
  <1>1. /\ sy \in [exchange_rate : Rates, emission_indexes : Seq(Nat)]
        /\ sy.exchange_rate \in Nat
    BY TypeParts DEF TypeOK, SyTypeOK
  <1>2. ASSUME sy' = sy, now' = now \/ now' = now + 1
        PROVE  /\ now' = now \/ now' = now + 1
               /\ sy'.exchange_rate \in Rates
               /\ MayDepreciate \/ sy'.exchange_rate >= sy.exchange_rate
    BY <1>1, <1>2
  <1>3. CASE SyMoves
    <2>1. now' = now
      BY <1>3 DEF SyMoves
    <2>2. CASE SetExchangeRate
      BY <1>1, <2>1, <2>2, SyAssumption DEF SetExchangeRate
    <2>3. CASE SetEmissionIndex \/ AddEmissionIndex
      <3>1. \E indexes : sy' = [sy EXCEPT !.emission_indexes = indexes]
        <4>1. ASSUME SetEmissionIndex
              PROVE  \E indexes : sy' = [sy EXCEPT !.emission_indexes = indexes]
          <5>1. PICK i, index : sy' = [sy EXCEPT !.emission_indexes[i] = index]
            BY <4>1 DEF SetEmissionIndex
          <5>2. sy' = [sy EXCEPT !.emission_indexes =
                          [sy.emission_indexes EXCEPT ![i] = index]]
            BY <1>1, <5>1
          <5> QED
            BY <5>2
        <4>2. ASSUME AddEmissionIndex
              PROVE  \E indexes : sy' = [sy EXCEPT !.emission_indexes = indexes]
          <5>1. PICK initial :
                  sy' = [sy EXCEPT !.emission_indexes = Append(@, initial)]
            BY <4>2 DEF AddEmissionIndex
          <5> QED
            BY <1>1, <5>1
        <4> QED
          BY <2>3, <4>1, <4>2
      <3>2. sy'.exchange_rate = sy.exchange_rate
        BY <1>1, <3>1
      <3> QED
        BY <1>1, <2>1, <3>2
    <2> QED
      BY <1>3, <2>2, <2>3 DEF SyMoves, SyStep
  <1>4. CASE Tick \/ UNCHANGED vars
    BY <1>2, <1>4 DEF Tick, vars, syVars
  <1>5. ASSUME NEW user \in Users,
               \/ InitializeYieldPosition(user)
               \/ \E i \in 1..MaxStreams : CollectEmission(user, i)
        PROVE  sy' = sy /\ now' = now
    BY <1>5 DEF InitializeYieldPosition, CollectEmission, syVars
  <1>6. CASE AdminStep /\ ~CollectRobotInterest /\ ~CollectTreasuryInterest
    <2>1. ASSUME NEW i, NEW bps,
                 \/ AddEmission(bps)
                 \/ RemoveVaultEmission(i)
                 \/ ChangeEmissionBpsFee(i, bps)
                 \/ CollectRobotEmission(i)
                 \/ CollectTreasuryEmission(i)
          PROVE  sy' = sy /\ now' = now
      <3>1. CASE AddEmission(bps)
        BY <3>1 DEF AddEmission
      <3>2. CASE RemoveVaultEmission(i) \/ ChangeEmissionBpsFee(i, bps)
        BY <3>2 DEF RemoveVaultEmission, ChangeEmissionBpsFee, syVars
      <3>3. CASE CollectRobotEmission(i)
        BY <3>3 DEF CollectRobotEmission
      <3>4. CASE CollectTreasuryEmission(i)
        BY <3>4 DEF CollectTreasuryEmission
      <3> QED
        BY <2>1, <3>1, <3>2, <3>3, <3>4
    <2>2. ASSUME NEW x, NEW y,
                 \/ SetVaultStatus(x, y)
                 \/ ChangeVaultBpsFee(x)
                 \/ ChangeMinOperationSize(x, y)
                 \/ ChangeClaimLimits(x)
                 \/ ChangeMaxPySupply(x)
                 \/ ChangeCpiAccounts
          PROVE  sy' = sy /\ now' = now
      BY <2>2
      DEF SetVaultStatus, ChangeVaultBpsFee, ChangeMinOperationSize,
          ChangeClaimLimits, ChangeMaxPySupply, ChangeCpiAccounts, syVars
    <2>3. sy' = sy /\ now' = now
      BY <1>6, <2>1, <2>2 DEF AdminStep
    <2> QED
      BY <1>2, <2>3
  <1> QED
    BY <1>2, <1>3, <1>4, <1>5, <1>6

LEMMA StillTurns ==
    ASSUME TypeOK, UnopenedAreEmpty, UnopenedNeverEarned,
           \/ Tick
           \/ SyMoves
           \/ UNCHANGED vars
           \/ \E user \in Users : InitializeYieldPosition(user)
           \/ \E user \in Users, i \in 1..MaxStreams : CollectEmission(user, i)
           \/ AdminStep /\ ~CollectRobotInterest /\ ~CollectTreasuryInterest
    PROVE  QuietTurn(0)
  <1>1. StillVault
    <2>1. CASE UNCHANGED vars
      BY <2>1 DEF vars, StillVault, QuietVault, SameRates
    <2> QED
      BY <2>1, StillActions
  <1>2. \A h \in Holders : SameClaim(h)
    BY SameClaims
  <1>3. /\ now' = now \/ now' = now + 1
        /\ sy'.exchange_rate \in Rates
        /\ MayDepreciate \/ sy'.exchange_rate >= sy.exchange_rate
    BY QuietRates
  <1>4. /\ vault.total_sy_in_escrow \in Nat
        /\ vault.treasury_sy \in Nat /\ vault.uncollected_sy \in Nat
    BY TypeParts
  <1> QED
    BY <1>1, <1>2, <1>3, <1>4
    DEF QuietTurn, StillVault, QuietVault, SameBacking, Counted

\* Every step is one of the turns.
LEMMA StepTurns ==
    ASSUME TypeOK, UnopenedAreEmpty, UnopenedNeverEarned, [Next]_vars
    PROVE  Turns
  <1>1. CASE \/ Tick
             \/ SyMoves
             \/ UNCHANGED vars
             \/ \E user \in Users : InitializeYieldPosition(user)
             \/ \E user \in Users, i \in 1..MaxStreams :
                   CollectEmission(user, i)
             \/ AdminStep /\ ~CollectRobotInterest /\ ~CollectTreasuryInterest
    <2>1. QuietTurn(0)
      BY <1>1, StillTurns
    <2> QED
      BY <2>1 DEF Turns
  <1>2. CASE CollectRobotInterest \/ CollectTreasuryInterest
    BY <1>2, CollectionTurns DEF Turns
  <1>3. ASSUME NEW amount \in StripAmounts, Strip(amount)
        PROVE  Turns
    BY <1>3, StripTurns DEF Turns
  <1>4. ASSUME NEW py \in MergeAmounts, Merge(py)
        PROVE  Turns
    BY <1>4, MergeTurns DEF Turns
  <1>5. ASSUME NEW user \in Users,
               \/ \E amount \in YtAmounts : DepositYt(user, amount)
               \/ \E amount \in YtAmounts : WithdrawYt(user, amount)
               \/ StageYield(user)
        PROVE  Turns
    BY <1>5, DepositYtTurns, WithdrawYtTurns, StageYieldTurns DEF Turns
  <1>6. ASSUME NEW user \in Users, CollectInterest(user)
        PROVE  Turns
    BY <1>6, CollectInterestTurns DEF Turns
  <1> QED
    BY <1>1, <1>2, <1>3, <1>4, <1>5, <1>6 DEF Next, UserStep

-----------------------------------------------------------------------------
(* Where the positions stand, and what the backing of PT is bounded by.    *)

LEMMA ActiveIs ==
    ASSUME NEW v \in VaultAccount
    PROVE  /\ v.total_sy_in_escrow \in Nat /\ Counted(v) \in Nat
           /\ ActiveSy(v) \in Nat
           /\ v.total_sy_in_escrow >= Counted(v) =>
                ActiveSy(v) = v.total_sy_in_escrow - Counted(v)
           /\ ~(v.total_sy_in_escrow >= Counted(v)) => ActiveSy(v) = 0
  <1>1. /\ v.total_sy_in_escrow \in Nat /\ v.treasury_sy \in Nat
        /\ v.uncollected_sy \in Nat
    BY VaultFields
  <1> QED
    BY <1>1 DEF Counted, ActiveSy

\* A payment of what is counted leaves the rest.
LEMMA ActiveKept ==
    ASSUME NEW v \in VaultAccount, NEW w \in VaultAccount, NEW paid \in Nat,
           paid <= v.total_sy_in_escrow, paid <= Counted(v),
           w.total_sy_in_escrow = v.total_sy_in_escrow - paid,
           Counted(w) = Counted(v) - paid
    PROVE  ActiveSy(w) = ActiveSy(v)
  <1>1. /\ v.total_sy_in_escrow \in Nat /\ Counted(v) \in Nat
        /\ w.total_sy_in_escrow \in Nat /\ Counted(w) \in Nat
    BY ActiveIs
  <1>2. CASE v.total_sy_in_escrow >= Counted(v)
    <2>1. w.total_sy_in_escrow >= Counted(w)
      BY <1>1, <1>2
    <2>2. /\ ActiveSy(v) = v.total_sy_in_escrow - Counted(v)
          /\ ActiveSy(w) = w.total_sy_in_escrow - Counted(w)
      BY <1>2, <2>1, ActiveIs
    <2> QED
      BY <1>1, <2>2
  <1>3. CASE ~(v.total_sy_in_escrow >= Counted(v))
    <2>1. ~(w.total_sy_in_escrow >= Counted(w))
      BY <1>1, <1>3
    <2> QED
      BY <1>3, <2>1, ActiveIs
  <1> QED
    BY <1>2, <1>3

\* A fresh backing is below par and within what is left.
LEMMA FreshBounds ==
    ASSUME NEW v \in VaultAccount, Fresh(v),
           v.last_seen_sy_exchange_rate \in Nat \ {0}
    PROVE  /\ v.sy_for_pt \in Nat
           /\ v.sy_for_pt <= ActiveSy(v)
           /\ v.sy_for_pt * v.last_seen_sy_exchange_rate <= v.pt_supply * ONE
  <1> DEFINE rate == v.last_seen_sy_exchange_rate
             par == PyToSy(rate, v.pt_supply)
  <1>1. /\ v.pt_supply \in Nat /\ v.sy_for_pt \in Nat
        /\ ActiveSy(v) \in Nat /\ rate \in Nat \ {0}
    BY VaultFields, ActiveIs
  <1>2. par \in Nat /\ par * rate <= v.pt_supply * ONE
    BY <1>1, PyToSyWithinPar
  <1>3. v.sy_for_pt = Smaller(par, ActiveSy(v))
    BY <1>1 DEF Fresh, SyBackingForPt
  <1> HIDE DEF par, rate
  <1>4. v.sy_for_pt <= par /\ v.sy_for_pt <= ActiveSy(v)
    BY <1>1, <1>2, <1>3 DEF Smaller
  <1>5. rate * v.sy_for_pt <= rate * par
    BY <1>1, <1>2, <1>4, MulMonotone
  <1>6. /\ rate * v.sy_for_pt = v.sy_for_pt * rate /\ rate * par = par * rate
        /\ v.sy_for_pt * rate \in Nat /\ par * rate \in Nat
        /\ v.pt_supply * ONE \in Nat
    BY <1>1, <1>2, OneAssumption, SMT
  <1> QED
    BY <1>1, <1>2, <1>4, <1>5, <1>6 DEF rate

\* The rates after update_vault_yield.
LEMMA UpdatedRates ==
    ASSUME IInv, NEW earned, Updates(earned)
    PROVE  /\ sy.exchange_rate \in Rates /\ sy.exchange_rate \in Nat \ {0}
           /\ UpdatedVault \in VaultAccount
           /\ UpdatedVault.last_seen_sy_exchange_rate = sy.exchange_rate
           /\ UpdatedVault.final_sy_exchange_rate
                = IF IsActive(now) THEN sy.exchange_rate
                                   ELSE vault.final_sy_exchange_rate
           /\ UpdatedVault.final_sy_exchange_rate > 0
           /\ vault'.last_seen_sy_exchange_rate = sy.exchange_rate
           /\ vault'.final_sy_exchange_rate
                = UpdatedVault.final_sy_exchange_rate
           /\ InEmergency(vault') = InEmergency(UpdatedVault)
           /\ now' = now /\ sy' = sy /\ now >= StartTs
  <1>1. TypeOK /\ CanEarn(UpdatedVault) /\ SameRates(UpdatedVault, vault')
    BY DEF IInv, Updates
  <1>2. sy.exchange_rate \in Rates /\ sy.exchange_rate \in Nat \ {0}
    BY <1>1, SyAssumption DEF TypeOK, SyTypeOK
  <1>3. InEmergency(vault') = InEmergency(UpdatedVault)
    BY <1>1, SameRatesEarn
  <1>4. UpdatedVault.final_sy_exchange_rate > 0 /\ now >= StartTs
    BY <1>1, UpdateRates
  <1>5. /\ UpdatedVault \in VaultAccount
        /\ UpdatedVault.last_seen_sy_exchange_rate = sy.exchange_rate
        /\ UpdatedVault.final_sy_exchange_rate
                = IF IsActive(now) THEN sy.exchange_rate
                                   ELSE vault.final_sy_exchange_rate
    BY <1>1, UpdateFacts
  <1> QED
    BY <1>1, <1>2, <1>3, <1>4, <1>5 DEF SameRates, Updates

LEMMA IndexTypes ==
    ASSUME TypeOK
    PROVE  \A h \in Holders : Index(h) \in Nat /\ Balance(h) \in Nat
  BY TypeParts DEF Index, Balance

LEMMA IndexTypesAfter ==
    ASSUME TypeOK'
    PROVE  \A h \in Holders : Index(h)' \in Nat /\ Balance(h)' \in Nat
  BY DEF TypeOK, Index, Balance, YieldTokenPosition, Tracker

\* An update leaves every position at an index that is in order.
LEMMA UpdatesClaims ==
    ASSUME IInv, IInv', ClaimsInv, NEW earned, Updates(earned),
           \A h \in Holders : \/ Index(h)' = Index(h)
                              \/ Index(h)' = EarnedIndex(UpdatedVault, h),
           \A h \in Holders : Balance(h)' > 0 => Index(h)' > 0
    PROVE  ClaimsInv'
  <1>1. /\ sy.exchange_rate \in Rates /\ sy.exchange_rate \in Nat \ {0}
        /\ vault'.last_seen_sy_exchange_rate = sy.exchange_rate
        /\ vault'.final_sy_exchange_rate = UpdatedVault.final_sy_exchange_rate
        /\ UpdatedVault.final_sy_exchange_rate
             = IF IsActive(now) THEN sy.exchange_rate
                                ELSE vault.final_sy_exchange_rate
        /\ InEmergency(vault') = InEmergency(UpdatedVault)
        /\ now' = now
    BY UpdatedRates
  <1>2. RatesSeen'
    BY <1>1 DEF ClaimsInv, RatesSeen
  <1>3. BackingBounded'
    <2>1. vault' \in VaultAccount /\ Fresh(vault')
      BY DEF IInv, TypeOK, Updates
    <2>2. /\ vault'.sy_for_pt <= ActiveSy(vault')
          /\ vault'.sy_for_pt * vault'.last_seen_sy_exchange_rate
               <= vault'.pt_supply * ONE
      BY <1>1, <2>1, FreshBounds
    <2>3. BackingBounded' =
            (/\ vault'.sy_for_pt * vault'.last_seen_sy_exchange_rate
                  <= vault'.pt_supply * ONE
             /\ InEmergency(vault') \/ vault'.last_seen_sy_exchange_rate = 0 =>
                   vault'.sy_for_pt <= ActiveSy(vault'))
      BY DEF BackingBounded
    <2> QED
      BY <2>2, <2>3
  <1>4. Index(Robot)' = EarnedIndex(UpdatedVault, Robot)
    BY DEF Updates
  <1>5. ASSUME ~IsExpired(now'), NEW h \in Holders
        PROVE  Index(h)' <= Index(Robot)'
    <2>1. CASE InEmergency(UpdatedVault)
      <3>1. /\ Index(h)' = Index(h) /\ Index(Robot)' = Index(Robot)
            /\ Index(h) <= Index(Robot)
        BY <1>1, <1>4, <1>5, <2>1
        DEF EarnedIndex, ClaimsInv, IndexesInOrder, Index
      <3> QED
        BY <3>1
    <2>2. CASE ~InEmergency(UpdatedVault)
      <3>1. Index(Robot)' = vault'.final_sy_exchange_rate
        BY <1>1, <1>4, <2>2 DEF EarnedIndex
      <3>2. /\ vault'.final_sy_exchange_rate = vault'.last_seen_sy_exchange_rate
            /\ Index(h)' <= vault'.all_time_high_sy_exchange_rate
        BY <1>5 DEF IInv, RateTracking, RateOrder, Index
      <3>3. /\ vault'.all_time_high_sy_exchange_rate
                 <= vault'.last_seen_sy_exchange_rate
            /\ vault'.all_time_high_sy_exchange_rate \in Nat
            /\ vault'.last_seen_sy_exchange_rate \in Nat
        <4>1. /\ vault'.all_time_high_sy_exchange_rate \in Nat
              /\ vault'.last_seen_sy_exchange_rate \in Nat
          BY DEF IInv, TypeOK, VaultAccount
        <4> QED
          BY <1>1, <2>2, <4>1 DEF InEmergency
      <3>4. Index(h)' \in Nat
        BY IndexTypesAfter DEF IInv
      <3> QED
        BY <3>1, <3>2, <3>3, <3>4
    <2> QED
      BY <2>1, <2>2
  <1>6. ~InEmergency(vault') => Index(Robot)' = vault'.final_sy_exchange_rate
    BY <1>1, <1>4 DEF EarnedIndex
  <1>7. IndexesInOrder'
    <2>1. IndexesInOrder' =
            (/\ \A h \in Holders : Balance(h)' > 0 => Index(h)' > 0
             /\ ~IsExpired(now') =>
                   \A h \in Holders : Index(h)' <= Index(Robot)'
             /\ ~InEmergency(vault') =>
                   Index(Robot)' = vault'.final_sy_exchange_rate)
      BY DEF IndexesInOrder, Index, Balance, IsExpired, InEmergency
    <2> QED
      BY <1>5, <1>6, <2>1
  <1> QED
    BY <1>2, <1>3, <1>7 DEF ClaimsInv

\* strip and merge: no emergency, so the robot is at the final rate.
LEMMA SupplyClaims ==
    ASSUME IInv, IInv', ClaimsInv, Updates(0), ~InEmergency(UpdatedVault),
           \A u \in Users : SameClaim(u)
    PROVE  ClaimsInv'
  <1>1. /\ Index(Robot)' = EarnedIndex(UpdatedVault, Robot)
        /\ Index(Robot)' > 0
    BY UpdatedRates DEF Updates, EarnedIndex
  <1>2. \A h \in Holders : \/ Index(h)' = Index(h)
                           \/ Index(h)' = EarnedIndex(UpdatedVault, h)
    BY <1>1 DEF SameClaim, Holders
  <1>3. \A h \in Holders : Balance(h)' > 0 => Index(h)' > 0
    BY <1>1 DEF SameClaim, Holders, ClaimsInv, IndexesInOrder, Balance, Index
  <1> QED
    BY <1>1, <1>2, <1>3, UpdatesClaims

LEMMA UserClaims ==
    ASSUME IInv, IInv', ClaimsInv, NEW user \in Users, UserTurn(user)
    PROVE  ClaimsInv'
  <1> DEFINE earned == EarnedSy(UpdatedVault, position[user])
  <1>1. /\ Updates(earned)
        /\ Index(user)' = EarnedIndex(UpdatedVault, user)
        /\ Index(Robot)' = EarnedIndex(UpdatedVault, Robot)
        /\ \A u \in Users \ {user} : SameClaim(u)
    BY DEF UserTurn, Updates
  <1>2. \A h \in Holders : \/ Index(h)' = Index(h)
                           \/ Index(h)' = EarnedIndex(UpdatedVault, h)
    BY <1>1 DEF SameClaim, Holders
  <1>3. /\ UpdatedVault.final_sy_exchange_rate > 0
    BY <1>1, UpdatedRates
  <1>4. /\ \A h \in Holders : Balance(h) > 0 => Index(h) > 0
        /\ ~IsExpired(now) => Index(user) <= Index(Robot)
        /\ user \in Holders /\ Robot \in Holders
    BY HoldersFacts DEF ClaimsInv, IndexesInOrder, Balance, Index
  <1>5. /\ \A h \in Holders : Index(h) \in Nat /\ Balance(h) \in Nat
        /\ \A h \in Holders : Balance(h)' \in Nat
    BY IndexTypes, IndexTypesAfter DEF IInv
  <1>6. /\ Balance(user)' + Balance(Robot)' = Balance(user) + Balance(Robot)
        /\ \/ Balance(user)' = Balance(user)
           \/ /\ IsActive(now)
              /\ InEmergency(UpdatedVault) => Balance(user)' <= Balance(user)
    BY DEF UserTurn
  <1>7. ASSUME Balance(user)' > 0
        PROVE  Index(user)' > 0
    <2>1. CASE InEmergency(UpdatedVault)
      BY <1>1, <1>4, <1>5, <1>6, <1>7, <2>1 DEF EarnedIndex
    <2>2. CASE ~InEmergency(UpdatedVault)
      BY <1>1, <1>3, <2>2 DEF EarnedIndex
    <2> QED
      BY <2>1, <2>2
  <1>8. ASSUME Balance(Robot)' > 0
        PROVE  Index(Robot)' > 0
    <2>1. CASE InEmergency(UpdatedVault)
      <3>1. Index(Robot)' = Index(Robot)
        BY <1>1, <2>1 DEF EarnedIndex
      <3>2. CASE Balance(Robot) > 0
        BY <1>4, <3>1, <3>2
      <3>3. CASE Balance(Robot) = 0
        <4>1. Balance(user) > 0 /\ Balance(user)' # Balance(user)
          BY <1>4, <1>5, <1>6, <1>8, <3>3
        <4>2. ~IsExpired(now)
          BY <1>6, <4>1 DEF IsActive
        <4> QED
          BY <1>4, <1>5, <3>1, <4>1, <4>2
      <3> QED
        BY <1>4, <1>5, <3>2, <3>3
    <2>2. CASE ~InEmergency(UpdatedVault)
      BY <1>1, <1>3, <2>2 DEF EarnedIndex
    <2> QED
      BY <2>1, <2>2
  <1>9. \A h \in Holders : Balance(h)' > 0 => Index(h)' > 0
    BY <1>1, <1>4, <1>7, <1>8 DEF SameClaim, Holders
  <1> HIDE DEF earned
  <1> QED
    BY <1>1, <1>2, <1>9, UpdatesClaims

\* A step that leaves rates, supply and backing, and pays what is counted, keeps
\* the bounds of the backing, in emergency mode where nothing is staged.
LEMMA SameBackingBounded ==
    ASSUME IInv, IInv', ClaimsInv, SameBacking,
           InEmergency(vault) \/ vault.last_seen_sy_exchange_rate = 0 =>
              ActiveSy(vault') = ActiveSy(vault)
    PROVE  RatesSeen' /\ BackingBounded' /\ InEmergency(vault') = InEmergency(vault)
  <1>1. SameRates(vault, vault') /\ InEmergency(vault') = InEmergency(vault)
    BY SameRatesEarn DEF SameBacking
  <1>2. RatesSeen'
    BY <1>1 DEF ClaimsInv, RatesSeen, SameRates
  <1>3. BackingBounded' =
            (/\ vault'.sy_for_pt * vault'.last_seen_sy_exchange_rate
                  <= vault'.pt_supply * ONE
             /\ InEmergency(vault') \/ vault'.last_seen_sy_exchange_rate = 0 =>
                   vault'.sy_for_pt <= ActiveSy(vault'))
    BY DEF BackingBounded
  <1>4. /\ vault'.sy_for_pt = vault.sy_for_pt
        /\ vault'.pt_supply = vault.pt_supply
        /\ vault'.last_seen_sy_exchange_rate = vault.last_seen_sy_exchange_rate
    BY DEF SameBacking, SameRates
  <1>5. /\ vault.sy_for_pt * vault.last_seen_sy_exchange_rate
             <= vault.pt_supply * ONE
        /\ InEmergency(vault) \/ vault.last_seen_sy_exchange_rate = 0 =>
             vault.sy_for_pt <= ActiveSy(vault)
    BY DEF ClaimsInv, BackingBounded
  <1>6. BackingBounded'
    BY <1>1, <1>3, <1>4, <1>5
  <1> QED
    BY <1>1, <1>2, <1>6

\* In emergency mode nothing is earned, nor before the vault has seen a rate.
LEMMA NothingEarned ==
    ASSUME IInv, NEW h \in Holders,
           InEmergency(vault) \/ vault.last_seen_sy_exchange_rate = 0
    PROVE  EarnedSy(vault, position[h]) = 0
  <1>1. CASE InEmergency(vault)
    BY <1>1 DEF EarnedSy
  <1>2. CASE ~InEmergency(vault)
    <2>1. /\ vault.final_sy_exchange_rate \in Nat
          /\ vault.last_seen_sy_exchange_rate \in Nat
          /\ vault.all_time_high_sy_exchange_rate \in Nat
          /\ vault.final_sy_exchange_rate <= vault.all_time_high_sy_exchange_rate
      BY TypeParts DEF IInv, RateOrder
    <2>2. vault.final_sy_exchange_rate = 0 /\ vault.last_seen_sy_exchange_rate = 0
      BY <1>2, <2>1 DEF InEmergency
    <2>3. position[h].interest.last_seen_index \in Nat
      BY TypeParts DEF IInv
    <2>4. CalcEarnedSy(position[h].yt_balance,
                       position[h].interest.last_seen_index, 0) = 0
      BY <2>3 DEF CalcEarnedSy
    <2> QED
      BY <1>2, <2>2, <2>4 DEF EarnedSy, ScaleSyToCurrentRate
  <1> QED
    BY <1>1, <1>2

LEMMA ClaimClaims ==
    ASSUME IInv, IInv', ClaimsInv, NEW user \in Users, NEW paid \in Nat,
           ClaimTurn(user, paid)
    PROVE  ClaimsInv'
  <1> DEFINE e == EarnedSy(vault, position[user])
  <1>1. /\ CanEarn(vault) /\ SameBacking
        /\ paid <= vault.total_sy_in_escrow /\ paid <= Counted(vault) + e
        /\ vault'.total_sy_in_escrow = vault.total_sy_in_escrow - paid
        /\ Counted(vault') = (Counted(vault) + e) - paid
        /\ Index(user)' = EarnedIndex(vault, user)
        /\ Balance(user)' = Balance(user)
        /\ \A h \in Holders \ {user} : SameClaim(h)
        /\ now' = now
    BY DEF ClaimTurn
  <1>2. vault \in VaultAccount /\ vault' \in VaultAccount
    BY DEF IInv, TypeOK
  <1>3. ASSUME InEmergency(vault) \/ vault.last_seen_sy_exchange_rate = 0
        PROVE  ActiveSy(vault') = ActiveSy(vault)
    <2>1. e = 0
      BY <1>3, HoldersFacts, NothingEarned
    <2> HIDE DEF e
    <2>2. Counted(vault) \in Nat
      BY <1>2, ActiveIs
    <2>3. paid <= Counted(vault) /\ Counted(vault') = Counted(vault) - paid
      BY <1>1, <2>1, <2>2
    <2> QED
      BY <1>1, <1>2, <2>3, ActiveKept
  <1>4. /\ RatesSeen' /\ BackingBounded'
        /\ InEmergency(vault') = InEmergency(vault)
        /\ vault'.final_sy_exchange_rate = vault.final_sy_exchange_rate
    BY <1>1, <1>3, SameBackingBounded DEF SameBacking, SameRates
  <1>5. /\ user \in Holders /\ Robot \in Holders /\ user # Robot
        /\ vault.final_sy_exchange_rate > 0
    BY <1>1, HoldersFacts DEF CanEarn
  <1>6. /\ \A h \in Holders : Balance(h) > 0 => Index(h) > 0
        /\ ~IsExpired(now) => \A h \in Holders : Index(h) <= Index(Robot)
        /\ ~InEmergency(vault) => Index(Robot) = vault.final_sy_exchange_rate
    BY DEF ClaimsInv, IndexesInOrder, Balance, Index
  <1>7. Index(Robot)' = Index(Robot)
    BY <1>1, <1>5 DEF SameClaim
  <1>8. /\ \A h \in Holders : Index(h) \in Nat
        /\ \A h \in Holders : Index(h)' \in Nat
    BY IndexTypes, IndexTypesAfter DEF IInv
  <1>9. \A h \in Holders : Balance(h)' > 0 => Index(h)' > 0
    BY <1>1, <1>5, <1>6 DEF SameClaim, EarnedIndex
  <1>10. ASSUME ~IsExpired(now'), NEW h \in Holders
         PROVE  Index(h)' <= Index(Robot)'
    <2>1. CASE h # user
      BY <1>1, <1>6, <1>7, <1>10, <2>1 DEF SameClaim
    <2>2. CASE h = user
      BY <1>1, <1>5, <1>6, <1>7, <1>8, <1>10, <2>2 DEF EarnedIndex
    <2> QED
      BY <2>1, <2>2
  <1>11. ~InEmergency(vault') => Index(Robot)' = vault'.final_sy_exchange_rate
    BY <1>4, <1>6, <1>7
  <1>12. IndexesInOrder'
    <2>1. IndexesInOrder' =
            (/\ \A h \in Holders : Balance(h)' > 0 => Index(h)' > 0
             /\ ~IsExpired(now') =>
                   \A h \in Holders : Index(h)' <= Index(Robot)'
             /\ ~InEmergency(vault') =>
                   Index(Robot)' = vault'.final_sy_exchange_rate)
      BY DEF IndexesInOrder, Index, Balance, IsExpired, InEmergency
    <2> QED
      BY <1>9, <1>10, <1>11, <2>1
  <1> QED
    BY <1>4, <1>12 DEF ClaimsInv

LEMMA QuietClaims ==
    ASSUME IInv, IInv', ClaimsInv, NEW paid \in Nat, QuietTurn(paid)
    PROVE  ClaimsInv'
  <1>1. /\ SameBacking
        /\ paid <= vault.total_sy_in_escrow /\ paid <= Counted(vault)
        /\ vault'.total_sy_in_escrow = vault.total_sy_in_escrow - paid
        /\ Counted(vault') = Counted(vault) - paid
        /\ \A h \in Holders : SameClaim(h)
        /\ now' = now \/ now' = now + 1
    BY DEF QuietTurn
  <1>2. vault \in VaultAccount /\ vault' \in VaultAccount /\ now \in Nat
    BY DEF IInv, TypeOK
  <1>3. ActiveSy(vault') = ActiveSy(vault)
    BY <1>1, <1>2, ActiveKept
  <1>4. /\ RatesSeen' /\ BackingBounded'
        /\ InEmergency(vault') = InEmergency(vault)
        /\ vault'.final_sy_exchange_rate = vault.final_sy_exchange_rate
    BY <1>1, <1>3, SameBackingBounded DEF SameBacking, SameRates
  <1>5. ~IsExpired(now') => ~IsExpired(now)
    BY <1>1, <1>2, VaultAssumption DEF IsExpired
  <1>6. /\ \A h \in Holders : Balance(h) > 0 => Index(h) > 0
        /\ ~IsExpired(now) => \A h \in Holders : Index(h) <= Index(Robot)
        /\ ~InEmergency(vault) => Index(Robot) = vault.final_sy_exchange_rate
    BY DEF ClaimsInv, IndexesInOrder, Balance, Index
  <1>7. IndexesInOrder'
    <2>1. IndexesInOrder' =
            (/\ \A h \in Holders : Balance(h)' > 0 => Index(h)' > 0
             /\ ~IsExpired(now') =>
                   \A h \in Holders : Index(h)' <= Index(Robot)'
             /\ ~InEmergency(vault') =>
                   Index(Robot)' = vault'.final_sy_exchange_rate)
      BY DEF IndexesInOrder, Index, Balance, IsExpired, InEmergency
    <2> QED
      BY <1>1, <1>4, <1>5, <1>6, <2>1, HoldersFacts DEF SameClaim
  <1> QED
    BY <1>4, <1>7 DEF ClaimsInv

LEMMA ClaimsInit == Init => ClaimsInv
  <1> SUFFICES ASSUME Init PROVE ClaimsInv
    OBVIOUS
  <1>1. /\ \A h \in Holders : position[h] = NewPosition
        /\ vault.last_seen_sy_exchange_rate = 0
        /\ vault.all_time_high_sy_exchange_rate = 0
        /\ vault.final_sy_exchange_rate = 0
        /\ vault.sy_for_pt = 0 /\ vault.pt_supply = 0
        /\ vault.total_sy_in_escrow = 0
        /\ vault.treasury_sy = 0 /\ vault.uncollected_sy = 0
    BY DEF Init
  <1>2. \A h \in Holders : /\ position[h].yt_balance = 0
                           /\ position[h].interest.last_seen_index = 0
    BY <1>1 DEF NewPosition, NewTracker
  <1>3. IndexesInOrder
    BY <1>1, <1>2, HoldersFacts DEF IndexesInOrder
  <1>4. RatesSeen
    BY <1>1 DEF RatesSeen
  <1>5. ActiveSy(vault) = 0
    BY <1>1 DEF ActiveSy
  <1>6. 0 * ONE = 0 /\ 0 * 0 = 0
    BY OneAssumption, SMT
  <1>7. BackingBounded
    BY <1>1, <1>5, <1>6 DEF BackingBounded
  <1> QED
    BY <1>3, <1>4, <1>7 DEF ClaimsInv

LEMMA ClaimsStep ==
    ASSUME IInv, IInv', CountsInv, ClaimsInv, [Next]_vars
    PROVE  ClaimsInv'
  <1>1. Turns
    BY StepTurns DEF IInv, CountsInv
  <1>2. ASSUME NEW amount \in Nat, StripTurn(amount)
        PROVE  ClaimsInv'
    BY <1>2, SupplyClaims DEF StripTurn
  <1>3. ASSUME NEW py \in Nat, NEW paid \in Nat, MergeTurn(py, paid)
        PROVE  ClaimsInv'
    BY <1>3, SupplyClaims DEF MergeTurn
  <1> QED
    BY <1>1, <1>2, <1>3, UserClaims, ClaimClaims, QuietClaims DEF Turns

\* Until maturity no position is ahead of the robot's, which is at the final rate
\* whenever the rate is at its high; and PT are backed by no more than their par
\* (earn_sy_interest, update_vault_yield, set_sy_for_pt).
THEOREM ClaimsInOrder == Spec => []ClaimsInv
  <1>1. IInv /\ IInv' /\ CountsInv /\ ClaimsInv /\ [Next]_vars => ClaimsInv'
    BY ClaimsStep
  <1> QED
    BY <1>1, ClaimsInit, Invariance, Counts, PTL DEF Spec

-----------------------------------------------------------------------------
(* Until maturity: what the escrow lacks of what it owes.                  *)

LEMMA UpperFacts ==
    ASSUME NEW rate \in Nat \ {0}
    PROVE  /\ NumDiv(ONE, rate) \in Nat /\ UpperReciprocal(rate) \in Nat
           /\ rate \in Rates => ONE * ONE <= UpperReciprocal(rate) * rate
           /\ ExactReciprocals => UpperReciprocal(rate) = NumDiv(ONE, rate)
           /\ ~ExactReciprocals => UpperReciprocal(rate) = NumDiv(ONE, rate) + 1
  <1>1. /\ NumDiv(ONE, rate) \in Nat
        /\ ONE * ONE <= (NumDiv(ONE, rate) + 1) * rate
    BY OneAssumption, NumDivBounds
  <1>2. /\ ExactReciprocals => UpperReciprocal(rate) = NumDiv(ONE, rate)
        /\ ~ExactReciprocals => UpperReciprocal(rate) = NumDiv(ONE, rate) + 1
    BY DEF UpperReciprocal
  <1>3. ASSUME rate \in Rates
        PROVE  ONE * ONE <= UpperReciprocal(rate) * rate
    <2>1. CASE ExactReciprocals
      <3>1. NumDiv(ONE, rate) * rate = ONE * ONE
        BY <1>3, <2>1 DEF ExactReciprocals
      <3>2. ONE * ONE \in Nat
        BY OneAssumption, SMT
      <3> QED
        BY <1>2, <2>1, <3>1, <3>2
    <2>2. CASE ~ExactReciprocals
      BY <1>1, <1>2, <2>2
    <2> QED
      BY <2>1, <2>2
  <1>4. UpperReciprocal(rate) \in Nat
    BY <1>1, <1>2
  <1> QED
    BY <1>1, <1>2, <1>3, <1>4

\* What the value of a unit falls by as the rate grows is what the code says.
LEMMA UpperDifference ==
    ASSUME NEW last \in Nat \ {0}, NEW final \in Nat, last <= final
    PROVE  /\ NumDiv(ONE, last) - NumDiv(ONE, final) \in Nat
           /\ UpperReciprocal(last)
                = UpperReciprocal(final)
                    + (NumDiv(ONE, last) - NumDiv(ONE, final))
  <1>1. final \in Nat \ {0}
    OBVIOUS
  <1>2. NumDiv(ONE, last) - NumDiv(ONE, final) \in Nat
    BY OneAssumption, EarnedWithinGain
  <1>3. /\ NumDiv(ONE, last) \in Nat /\ NumDiv(ONE, final) \in Nat
        /\ ExactReciprocals =>
             /\ UpperReciprocal(last) = NumDiv(ONE, last)
             /\ UpperReciprocal(final) = NumDiv(ONE, final)
        /\ ~ExactReciprocals =>
             /\ UpperReciprocal(last) = NumDiv(ONE, last) + 1
             /\ UpperReciprocal(final) = NumDiv(ONE, final) + 1
    BY <1>1, UpperFacts
  <1> QED
    BY <1>2, <1>3

LEMMA OwedToFacts ==
    ASSUME NEW p \in YieldTokenPosition,
           p.yt_balance > 0 => p.interest.last_seen_index > 0
    PROVE  /\ OwedTo(p) \in Nat
           /\ p.interest.last_seen_index > 0 =>
                OwedTo(p) = p.yt_balance
                              * UpperReciprocal(p.interest.last_seen_index)
           /\ p.yt_balance = 0 => OwedTo(p) = 0
  <1>1. p.yt_balance \in Nat /\ p.interest.last_seen_index \in Nat
    BY DEF YieldTokenPosition, Tracker
  <1>2. CASE p.interest.last_seen_index > 0
    <2>1. UpperReciprocal(p.interest.last_seen_index) \in Nat
      BY <1>1, <1>2, UpperFacts
    <2>2. \A u \in Nat : p.yt_balance * u \in Nat /\ 0 * u = 0
      BY <1>1, SMT
    <2> QED
      BY <1>1, <2>1, <2>2 DEF OwedTo
  <1>3. CASE ~(p.interest.last_seen_index > 0)
    BY <1>1, <1>3 DEF OwedTo
  <1> QED
    BY <1>2, <1>3

\* While the last rate is the final one, what a position earns, and what it is
\* still owed then, are no more than it was owed.
LEMMA EarnedWithinOwed ==
    ASSUME NEW v \in VaultAccount, NEW p \in YieldTokenPosition,
           v.last_seen_sy_exchange_rate = v.final_sy_exchange_rate,
           v.final_sy_exchange_rate > 0, ~InEmergency(v),
           p.yt_balance > 0 => p.interest.last_seen_index > 0,
           p.interest.last_seen_index <= v.final_sy_exchange_rate
    PROVE  /\ EarnedSy(v, p) \in Nat
           /\ EarnedSy(v, p) * ONE
                + p.yt_balance * UpperReciprocal(v.final_sy_exchange_rate)
                <= OwedTo(p)
  <1> DEFINE yt == p.yt_balance
             last == p.interest.last_seen_index
             final == v.final_sy_exchange_rate
             e == EarnedSy(v, p)
  <1>1. /\ yt \in Nat /\ last \in Nat /\ final \in Nat \ {0}
        /\ UpperReciprocal(final) \in Nat
    <2>1. yt \in Nat /\ last \in Nat /\ final \in Nat \ {0}
      BY VaultFields DEF YieldTokenPosition, Tracker
    <2> QED
      BY <2>1, UpperFacts
  <1>2. e = CalcEarnedSy(yt, last, final)
    BY <1>1 DEF EarnedSy, ScaleSyToCurrentRate
  <1> HIDE DEF e
  <1>3. CASE yt = 0
    <2>1. e = 0 /\ OwedTo(p) = 0
      BY <1>2, <1>3 DEF CalcEarnedSy, OwedTo
    <2>2. \A u \in Nat : 0 * u = 0
      BY SMT
    <2> QED
      BY <1>1, <1>3, <2>1, <2>2, OneAssumption DEF e
  <1>4. CASE yt > 0
    <2> DEFINE gain == NumDiv(ONE, last) - NumDiv(ONE, final)
               upper == UpperReciprocal(final)
    <2>1. last \in Nat \ {0} /\ last <= final
      BY <1>1, <1>4
    <2>2. gain \in Nat /\ UpperReciprocal(last) = upper + gain
      BY <1>1, <2>1, UpperDifference
    <2>3. e \in Nat /\ e * ONE <= yt * gain
      BY <1>1, <1>2, <2>1, OneAssumption, EarnedWithinGain
    <2>4. OwedTo(p) = yt * UpperReciprocal(last)
      BY <1>4 DEF OwedTo
    <2> HIDE DEF gain, upper
    <2>5. upper \in Nat
      BY <1>1 DEF upper
    <2>6. /\ yt * (upper + gain) = yt * upper + yt * gain
          /\ yt * upper \in Nat /\ yt * gain \in Nat /\ e * ONE \in Nat
      BY <1>1, <2>2, <2>3, <2>5, OneAssumption, SMT
    <2>7. e * ONE + yt * upper <= OwedTo(p)
      BY <2>2, <2>3, <2>4, <2>6
    <2> QED
      BY <2>3, <2>7 DEF upper, e
  <1> QED
    BY <1>1, <1>3, <1>4

LEMMA OwedTypes ==
    ASSUME TypeOK, IndexesInOrder
    PROVE  /\ \A h \in Holders : OwedTo(position[h]) \in Nat
           /\ OwedYt(position) \in Nat /\ Owed(vault, position) \in Nat
           /\ Owed(vault, position) = OwedYt(position) + Counted(vault) * ONE
           /\ Counted(vault) \in Nat /\ Counted(vault) * ONE \in Nat
           /\ vault.total_sy_in_escrow * ONE \in Nat
  <1>1. \A h \in Holders : OwedTo(position[h]) \in Nat
    BY TypeParts, OwedToFacts DEF IndexesInOrder
  <1> DEFINE o == [h \in Holders |-> OwedTo(position[h])]
  <1>2. \A h \in Holders : o[h] \in Nat
    BY <1>1
  <1>3. OwedYt(position) = SumOver(o, Holders)
    BY DEF OwedYt
  <1> HIDE DEF o
  <1>4. OwedYt(position) \in Nat
    BY <1>2, <1>3, HoldersFacts, SumFacts
  <1>5. /\ Counted(vault) \in Nat /\ Counted(vault) * ONE \in Nat
        /\ vault.total_sy_in_escrow * ONE \in Nat
    <2>1. Counted(vault) \in Nat /\ vault.total_sy_in_escrow \in Nat
      BY TypeParts, ActiveIs
    <2> QED
      BY <2>1, OneAssumption, SMT
  <1>6. Owed(vault, position) = OwedYt(position) + Counted(vault) * ONE
    BY DEF Owed, Counted
  <1> QED
    BY <1>1, <1>4, <1>5, <1>6

LEMMA OwedTypesAfter ==
    ASSUME TypeOK', IndexesInOrder'
    PROVE  /\ \A h \in Holders : OwedTo(position'[h]) \in Nat
           /\ OwedYt(position') \in Nat /\ Owed(vault', position') \in Nat
           /\ Owed(vault', position')
                = OwedYt(position') + Counted(vault') * ONE
           /\ Counted(vault') \in Nat /\ Counted(vault') * ONE \in Nat
           /\ vault'.total_sy_in_escrow \in Nat
           /\ vault'.total_sy_in_escrow * ONE \in Nat
  <1>1. \A h \in Holders :
          /\ position'[h] \in YieldTokenPosition
          /\ position'[h].yt_balance > 0 =>
               position'[h].interest.last_seen_index > 0
    BY DEF TypeOK, IndexesInOrder
  <1>2. \A h \in Holders : OwedTo(position'[h]) \in Nat
    BY <1>1, OwedToFacts
  <1> DEFINE o == [h \in Holders |-> OwedTo(position'[h])]
  <1>3. \A h \in Holders : o[h] \in Nat
    BY <1>2
  <1>4. OwedYt(position') = SumOver(o, Holders)
    BY DEF OwedYt
  <1> HIDE DEF o
  <1>5. OwedYt(position') \in Nat
    BY <1>3, <1>4, HoldersFacts, SumFacts
  <1>6. /\ Counted(vault') \in Nat /\ Counted(vault') * ONE \in Nat
        /\ vault'.total_sy_in_escrow \in Nat
        /\ vault'.total_sy_in_escrow * ONE \in Nat
    <2>1. vault' \in VaultAccount
      BY DEF TypeOK
    <2>2. Counted(vault') \in Nat /\ vault'.total_sy_in_escrow \in Nat
      BY <2>1, ActiveIs
    <2> QED
      BY <2>2, OneAssumption, SMT
  <1>7. Owed(vault', position') = OwedYt(position') + Counted(vault') * ONE
    BY DEF Owed, Counted
  <1> QED
    BY <1>2, <1>5, <1>6, <1>7

\* The YT sums when one position's debt changes, and when two do.
LEMMA OwedChange ==
    ASSUME TypeOK, TypeOK', IndexesInOrder, IndexesInOrder',
           NEW x \in Holders, \A h \in Holders \ {x} : SameClaim(h)
    PROVE  OwedYt(position') + OwedTo(position[x])
             = OwedYt(position) + OwedTo(position'[x])
  <1> DEFINE f == [h \in Holders |-> OwedTo(position[h])]
             g == [h \in Holders |-> OwedTo(position'[h])]
  <1>1. \A h \in Holders : f[h] \in Nat /\ g[h] \in Nat
    BY OwedTypes, OwedTypesAfter
  <1>2. \A h \in Holders \ {x} : g[h] = f[h]
    BY DEF SameClaim, Balance, Index, OwedTo
  <1>3. /\ OwedYt(position) = SumOver(f, Holders)
        /\ OwedYt(position') = SumOver(g, Holders)
        /\ f[x] = OwedTo(position[x]) /\ g[x] = OwedTo(position'[x])
    BY DEF OwedYt
  <1> HIDE DEF f, g
  <1>4. SumOver(g, Holders) + f[x] = SumOver(f, Holders) + g[x]
    BY <1>1, <1>2, HoldersFacts, SumChange
  <1> QED
    BY <1>3, <1>4

LEMMA OwedChanges ==
    ASSUME TypeOK, TypeOK', IndexesInOrder, IndexesInOrder',
           NEW x \in Holders, NEW y \in Holders, x # y,
           \A h \in Holders \ {x, y} : SameClaim(h)
    PROVE  OwedYt(position') + OwedTo(position[x]) + OwedTo(position[y])
             = OwedYt(position) + OwedTo(position'[x]) + OwedTo(position'[y])
  <1> DEFINE f == [h \in Holders |-> OwedTo(position[h])]
             g == [h \in Holders |-> OwedTo(position'[h])]
  <1>1. \A h \in Holders : f[h] \in Nat /\ g[h] \in Nat
    BY OwedTypes, OwedTypesAfter
  <1>2. \A h \in Holders \ {x, y} : g[h] = f[h]
    BY DEF SameClaim, Balance, Index, OwedTo
  <1>3. /\ OwedYt(position) = SumOver(f, Holders)
        /\ OwedYt(position') = SumOver(g, Holders)
        /\ f[x] = OwedTo(position[x]) /\ g[x] = OwedTo(position'[x])
        /\ f[y] = OwedTo(position[y]) /\ g[y] = OwedTo(position'[y])
    BY DEF OwedYt
  <1> HIDE DEF f, g
  <1>4. SumOver(g, Holders) + f[x] + f[y] = SumOver(f, Holders) + g[x] + g[y]
    BY <1>1, <1>2, HoldersFacts, SumTwo
  <1> QED
    BY <1>3, <1>4

\* The escrow of the next state covers what it owes as well as this one's does,
\* but for slack parts of a token.
Covers(slack) ==
    Owed(vault', position') + vault.total_sy_in_escrow * ONE
        <= Owed(vault, position) + vault'.total_sy_in_escrow * ONE + slack

LEMMA CoversShortfall ==
    ASSUME TypeOK, TypeOK', IndexesInOrder, IndexesInOrder', NEW slack \in Nat,
           Covers(slack)
    PROVE  Shortfall' <= Shortfall + slack
  <1> DEFINE owed == Owed(vault, position)
             held == vault.total_sy_in_escrow * ONE
             owed2 == Owed(vault', position')
             held2 == vault'.total_sy_in_escrow * ONE
  <1>1. /\ owed \in Nat /\ held \in Nat /\ owed2 \in Nat /\ held2 \in Nat
    BY OwedTypes, OwedTypesAfter
  <1>2. owed2 + held <= owed + held2 + slack
    BY DEF Covers
  <1>3. /\ Shortfall = IF owed <= held THEN 0 ELSE owed - held
        /\ Shortfall' = IF owed2 <= held2 THEN 0 ELSE owed2 - held2
    BY DEF Shortfall
  <1> HIDE DEF owed, held, owed2, held2
  <1> QED
    BY <1>1, <1>2, <1>3

\* What an update stages, of what the positions are owed, before maturity.
LEMMA ActiveUpdate ==
    ASSUME IInv, ClaimsInv, ~IsExpired(now), NEW earned, Updates(earned)
    PROVE  /\ sy.exchange_rate \in Rates /\ sy.exchange_rate \in Nat \ {0}
           /\ UpperReciprocal(sy.exchange_rate) \in Nat
           /\ IsActive(now)
           /\ Counted(vault') = Counted(vault)
                 + EarnedSy(UpdatedVault, position[Robot]) + earned
           /\ \A h \in Holders : EarnedSy(UpdatedVault, position[h]) \in Nat
           /\ InEmergency(UpdatedVault) =>
                \A h \in Holders : /\ EarnedSy(UpdatedVault, position[h]) = 0
                                   /\ EarnedIndex(UpdatedVault, h) = Index(h)
           /\ ~InEmergency(UpdatedVault) =>
                \A h \in Holders :
                  /\ EarnedIndex(UpdatedVault, h) = sy.exchange_rate
                  /\ EarnedSy(UpdatedVault, position[h]) * ONE
                       + Balance(h) * UpperReciprocal(sy.exchange_rate)
                       <= OwedTo(position[h])
  <1> DEFINE v == UpdatedVault
  <1>1. /\ TypeOK /\ CanEarn(v) /\ now \in Nat
        /\ \A h \in Holders : position[h] \in YieldTokenPosition
        /\ Counted(vault) \in Nat
    BY TypeParts, ActiveIs DEF IInv, Updates
  <1>2. /\ sy.exchange_rate \in Rates /\ sy.exchange_rate \in Nat \ {0}
        /\ v \in VaultAccount
        /\ v.last_seen_sy_exchange_rate = sy.exchange_rate
        /\ v.final_sy_exchange_rate = sy.exchange_rate
        /\ IsActive(now)
    BY UpdatedRates DEF IsActive
  <1>3. UpperReciprocal(sy.exchange_rate) \in Nat
    BY <1>2, UpperFacts
  <1>4. \A h \in Holders : EarnedSy(v, position[h]) \in Nat
    BY <1>1, <1>2, EarnedSyType
  <1>5. /\ SySurplus(vault, sy.exchange_rate, now) = 0
        /\ Counted(vault') = Counted(vault)
                 + SySurplus(vault, sy.exchange_rate, now)
                 + EarnedSy(v, position[Robot]) + earned
    BY DEF SySurplus, Updates
  <1>6. Counted(vault') = Counted(vault) + EarnedSy(v, position[Robot]) + earned
    BY <1>1, <1>5
  <1>7. InEmergency(v) =>
          \A h \in Holders : /\ EarnedSy(v, position[h]) = 0
                             /\ EarnedIndex(v, h) = Index(h)
    BY DEF EarnedSy, EarnedIndex
  <1>8. ASSUME ~InEmergency(v), NEW h \in Holders
        PROVE  /\ EarnedIndex(v, h) = sy.exchange_rate
               /\ EarnedSy(v, position[h]) * ONE
                       + Balance(h) * UpperReciprocal(sy.exchange_rate)
                       <= OwedTo(position[h])
    <2>1. EarnedIndex(v, h) = sy.exchange_rate
      BY <1>2, <1>8 DEF EarnedIndex
    <2>2. position[h].interest.last_seen_index <= v.final_sy_exchange_rate
      <3>1. /\ position[h].interest.last_seen_index
                 <= v.all_time_high_sy_exchange_rate
            /\ v.last_seen_sy_exchange_rate <= v.all_time_high_sy_exchange_rate
        BY <1>1, UpdateRates
      <3>2. /\ v.all_time_high_sy_exchange_rate \in Nat
            /\ position[h].interest.last_seen_index \in Nat
        BY <1>1, <1>2, VaultFields, TypeParts
      <3>3. v.all_time_high_sy_exchange_rate = sy.exchange_rate
        BY <1>2, <1>8, <3>1, <3>2 DEF InEmergency
      <3> QED
        BY <1>2, <3>1, <3>3
    <2>3. position[h].yt_balance > 0 => position[h].interest.last_seen_index > 0
      BY DEF ClaimsInv, IndexesInOrder
    <2>4. v.final_sy_exchange_rate > 0
      BY <1>2
    <2>5. EarnedSy(v, position[h]) * ONE
            + position[h].yt_balance * UpperReciprocal(v.final_sy_exchange_rate)
            <= OwedTo(position[h])
      BY <1>1, <1>2, <1>8, <2>2, <2>3, <2>4, EarnedWithinOwed
    <2> QED
      BY <1>2, <2>1, <2>5 DEF Balance
  <1> QED
    BY <1>2, <1>3, <1>4, <1>6, <1>7, <1>8

\* The debt to a position that has earned.
LEMMA OwedAtRate ==
    ASSUME TypeOK', IndexesInOrder', NEW h \in Holders,
           Index(h)' \in Nat \ {0}
    PROVE  OwedTo(position'[h]) = Balance(h)' * UpperReciprocal(Index(h)')
  <1>1. /\ position'[h] \in YieldTokenPosition
        /\ position'[h].yt_balance > 0 =>
               position'[h].interest.last_seen_index > 0
    BY DEF TypeOK, IndexesInOrder
  <1>2. /\ position'[h].interest.last_seen_index > 0 =>
            OwedTo(position'[h]) = position'[h].yt_balance
              * UpperReciprocal(position'[h].interest.last_seen_index)
    BY <1>1, OwedToFacts
  <1>3. position'[h].interest.last_seen_index = Index(h)'
        /\ position'[h].yt_balance = Balance(h)'
    BY DEF Index, Balance
  <1>4. Index(h)' > 0
    OBVIOUS
  <1> QED
    BY <1>2, <1>3, <1>4

\* In a strip or a merge only the robot's position changes.
LEMMA SupplyOwed ==
    ASSUME IInv, IInv', ClaimsInv, ClaimsInv', ~IsExpired(now), Updates(0),
           ~InEmergency(UpdatedVault), \A u \in Users : SameClaim(u)
    PROVE  LET upper == UpperReciprocal(sy.exchange_rate)
           IN  Owed(vault', position') + Balance(Robot) * upper
                 <= Owed(vault, position) + Balance(Robot)' * upper
  <1> DEFINE upper == UpperReciprocal(sy.exchange_rate)
             e == EarnedSy(UpdatedVault, position[Robot])
             old == OwedTo(position[Robot])
             new == OwedTo(position'[Robot])
  <1>1. TypeOK /\ TypeOK' /\ IndexesInOrder /\ IndexesInOrder'
    BY DEF IInv, ClaimsInv
  <1>2. /\ upper \in Nat /\ e \in Nat /\ e * ONE + Balance(Robot) * upper <= old
        /\ Counted(vault') = Counted(vault) + e + 0
        /\ Index(Robot)' = sy.exchange_rate /\ sy.exchange_rate \in Nat \ {0}
    BY HoldersFacts, ActiveUpdate DEF Updates
  <1>3. new = Balance(Robot)' * upper
    BY <1>1, <1>2, HoldersFacts, OwedAtRate
  <1>4. OwedYt(position') + old = OwedYt(position) + new
    BY <1>1, HoldersFacts, OwedChange DEF Holders
  <1>5. /\ OwedYt(position) \in Nat /\ Counted(vault) \in Nat
        /\ Owed(vault, position) = OwedYt(position) + Counted(vault) * ONE
        /\ OwedYt(position') \in Nat /\ Counted(vault') \in Nat
        /\ Owed(vault', position') = OwedYt(position') + Counted(vault') * ONE
        /\ old \in Nat /\ new \in Nat
        /\ Balance(Robot) \in Nat
    BY <1>1, HoldersFacts, OwedTypes, OwedTypesAfter, IndexTypes
  <1> HIDE DEF upper, e, old, new
  <1>6. /\ Counted(vault') * ONE = Counted(vault) * ONE + e * ONE
        /\ Counted(vault) * ONE \in Nat /\ e * ONE \in Nat
        /\ Balance(Robot) * upper \in Nat
    BY <1>2, <1>5, OneAssumption, SMT
  <1>7. Owed(vault', position') + Balance(Robot) * upper
          <= Owed(vault, position) + new
    BY <1>2, <1>4, <1>5, <1>6
  <1> QED
    BY <1>3, <1>7 DEF upper

LEMMA StripCovers ==
    ASSUME IInv, IInv', ClaimsInv, ClaimsInv', ~IsExpired(now),
           NEW amount \in Nat, StripTurn(amount)
    PROVE  /\ SyToPy(sy.exchange_rate, amount) \in Nat
           /\ \/ Covers(0)
              \/ /\ ~ExactReciprocals /\ SyToPy(sy.exchange_rate, amount) > 0
                 /\ Covers(amount + SyToPy(sy.exchange_rate, amount))
  <1> DEFINE rate == sy.exchange_rate
             py == SyToPy(rate, amount)
             upper == UpperReciprocal(rate)
             owed == Owed(vault, position)
             owed2 == Owed(vault', position')
             held == vault.total_sy_in_escrow
  <1>1. /\ Updates(0) /\ ~InEmergency(UpdatedVault)
        /\ vault'.total_sy_in_escrow = held + amount
        /\ Balance(Robot)' = Balance(Robot) + py
        /\ \A u \in Users : SameClaim(u)
    BY DEF StripTurn
  <1>2. /\ rate \in Rates /\ rate \in Nat \ {0} /\ upper \in Nat
    BY <1>1, ActiveUpdate
  <1>3. py \in Nat /\ py * ONE <= amount * rate
    BY <1>2, SyToPyWithinSy
  <1>4. owed2 + Balance(Robot) * upper <= owed + Balance(Robot)' * upper
    BY <1>1, SupplyOwed
  <1>5. /\ py * NumDiv(ONE, rate) <= amount * ONE + amount
        /\ NumDiv(ONE, rate) * rate = ONE * ONE =>
                py * NumDiv(ONE, rate) <= amount * ONE
    BY <1>2, <1>3, MintedAtReciprocal
  <1>6. /\ NumDiv(ONE, rate) \in Nat
        /\ ExactReciprocals => upper = NumDiv(ONE, rate)
        /\ ~ExactReciprocals => upper = NumDiv(ONE, rate) + 1
        /\ ExactReciprocals => NumDiv(ONE, rate) * rate = ONE * ONE
    BY <1>2, UpperFacts DEF ExactReciprocals
  <1>7. /\ owed \in Nat /\ owed2 \in Nat /\ held \in Nat /\ Balance(Robot) \in Nat
    BY HoldersFacts, OwedTypes, OwedTypesAfter, IndexTypes, TypeParts
       DEF IInv, ClaimsInv
  <1> HIDE DEF py, upper, owed, owed2, held
  <1>8. /\ (Balance(Robot) + py) * upper = Balance(Robot) * upper + py * upper
        /\ Balance(Robot) * upper \in Nat /\ py * upper \in Nat
        /\ (held + amount) * ONE = held * ONE + amount * ONE
        /\ held * ONE \in Nat /\ amount * ONE \in Nat
        /\ upper = NumDiv(ONE, rate) + 1 =>
              py * upper = py * NumDiv(ONE, rate) + py
        /\ py = 0 => py * upper = 0
        /\ py * NumDiv(ONE, rate) \in Nat
    BY <1>2, <1>3, <1>6, <1>7, OneAssumption, SMT
  <1>9. owed2 <= owed + py * upper
    BY <1>1, <1>4, <1>7, <1>8
  <1>10. ASSUME NEW slack \in Nat, py * upper <= amount * ONE + slack
         PROVE  Covers(slack)
    <2>1. owed2 + held * ONE <= owed + (held + amount) * ONE + slack
      BY <1>7, <1>8, <1>9, <1>10
    <2> QED
      BY <1>1, <2>1 DEF Covers, owed, owed2, held
  <1>11. CASE ExactReciprocals \/ py = 0
    <2>1. py * upper <= amount * ONE + 0
      BY <1>5, <1>6, <1>8, <1>11
    <2> QED
      BY <1>3, <1>10, <2>1 DEF py
  <1>12. CASE ~ExactReciprocals /\ py # 0
    <2>1. py * upper <= amount * ONE + (amount + py)
      BY <1>3, <1>5, <1>6, <1>8, <1>12
    <2>2. amount + py \in Nat /\ py > 0
      BY <1>3, <1>12
    <2>3. Covers(amount + py)
      BY <1>10, <2>1, <2>2
    <2> QED
      BY <1>3, <1>12, <2>2, <2>3 DEF py
  <1> QED
    BY <1>11, <1>12

LEMMA MergeCovers ==
    ASSUME IInv, IInv', ClaimsInv, ClaimsInv', ~IsExpired(now),
           NEW py \in Nat, NEW paid \in Nat, MergeTurn(py, paid)
    PROVE  Covers(0)
  <1> DEFINE rate == sy.exchange_rate
             upper == UpperReciprocal(rate)
             owed == Owed(vault, position)
             owed2 == Owed(vault', position')
             held == vault.total_sy_in_escrow
  <1>1. /\ Updates(0) /\ ~InEmergency(UpdatedVault)
        /\ paid * rate <= py * ONE
        /\ paid <= held
        /\ vault'.total_sy_in_escrow = held - paid
        /\ BurnedYt(py) <= Balance(Robot)
        /\ Balance(Robot)' = Balance(Robot) - BurnedYt(py)
        /\ \A u \in Users : SameClaim(u)
    BY DEF MergeTurn
  <1>2. /\ rate \in Rates /\ rate \in Nat \ {0} /\ upper \in Nat
        /\ BurnedYt(py) = py
    BY <1>1, ActiveUpdate DEF BurnedYt
  <1>3. owed2 + Balance(Robot) * upper <= owed + Balance(Robot)' * upper
    BY <1>1, SupplyOwed
  <1>4. paid * ONE <= py * upper
    BY <1>1, <1>2, UpperFacts, WorthAtReciprocal
  <1>5. /\ owed \in Nat /\ owed2 \in Nat /\ held \in Nat /\ Balance(Robot) \in Nat
    BY HoldersFacts, OwedTypes, OwedTypesAfter, IndexTypes, TypeParts
       DEF IInv, ClaimsInv
  <1> DEFINE rest == Balance(Robot) - py
             left == held - paid
  <1>6. /\ rest \in Nat /\ Balance(Robot) = rest + py
        /\ left \in Nat /\ held = left + paid
    BY <1>1, <1>2, <1>5
  <1>7. Balance(Robot)' = rest /\ vault'.total_sy_in_escrow = left
    BY <1>1, <1>2
  <1> HIDE DEF upper, owed, owed2, held, rest, left
  <1>8. /\ (rest + py) * upper = rest * upper + py * upper
        /\ rest * upper \in Nat /\ py * upper \in Nat
        /\ (left + paid) * ONE = left * ONE + paid * ONE
        /\ left * ONE \in Nat /\ paid * ONE \in Nat
    BY <1>2, <1>6, OneAssumption, SMT
  <1>9. owed2 + py * upper <= owed
    BY <1>3, <1>5, <1>6, <1>7, <1>8
  <1>10. owed2 + held * ONE <= owed + left * ONE + 0
    BY <1>4, <1>5, <1>6, <1>8, <1>9
  <1> QED
    BY <1>7, <1>10 DEF Covers, owed, owed2, held

\* A user's instruction that updates while the rate is at its high.
LEMMA UserCovers ==
    ASSUME IInv, IInv', ClaimsInv, ClaimsInv', ~IsExpired(now),
           NEW user \in Users, UserTurn(user), ~InEmergency(UpdatedVault)
    PROVE  Covers(0)
  <1> DEFINE upper == UpperReciprocal(sy.exchange_rate)
             eu == EarnedSy(UpdatedVault, position[user])
             er == EarnedSy(UpdatedVault, position[Robot])
             oldU == OwedTo(position[user])
             oldR == OwedTo(position[Robot])
             newU == OwedTo(position'[user])
             newR == OwedTo(position'[Robot])
             bu == Balance(user)'
             br == Balance(Robot)'
             counted == Counted(vault)
             yt == OwedYt(position)
             yt2 == OwedYt(position')
  <1>1. /\ Updates(eu)
        /\ vault'.total_sy_in_escrow = vault.total_sy_in_escrow
        /\ Index(user)' = EarnedIndex(UpdatedVault, user)
        /\ Index(Robot)' = EarnedIndex(UpdatedVault, Robot)
        /\ bu + br = Balance(user) + Balance(Robot)
        /\ \A u \in Users \ {user} : SameClaim(u)
    BY DEF UserTurn, Updates
  <1>2. user \in Holders /\ Robot \in Holders /\ user # Robot
    BY HoldersFacts
  <1>3. /\ upper \in Nat /\ eu \in Nat /\ er \in Nat
        /\ eu * ONE + Balance(user) * upper <= oldU
        /\ er * ONE + Balance(Robot) * upper <= oldR
        /\ Counted(vault') = counted + er + eu
        /\ Index(user)' = sy.exchange_rate /\ Index(Robot)' = sy.exchange_rate
        /\ sy.exchange_rate \in Nat \ {0}
    BY <1>1, <1>2, ActiveUpdate
  <1>4. TypeOK /\ TypeOK' /\ IndexesInOrder /\ IndexesInOrder'
    BY DEF IInv, ClaimsInv
  <1>5. newU = bu * upper /\ newR = br * upper
    BY <1>2, <1>3, <1>4, OwedAtRate
  <1>6. yt2 + oldU + oldR = yt + newU + newR
    BY <1>1, <1>2, <1>4, OwedChanges DEF Holders
  <1>7. /\ yt \in Nat /\ counted \in Nat
        /\ Owed(vault, position) = yt + counted * ONE
        /\ yt2 \in Nat /\ Counted(vault') \in Nat
        /\ Owed(vault', position') = yt2 + Counted(vault') * ONE
        /\ oldU \in Nat /\ oldR \in Nat /\ newU \in Nat /\ newR \in Nat
        /\ Balance(user) \in Nat /\ Balance(Robot) \in Nat
        /\ bu \in Nat /\ br \in Nat
        /\ vault.total_sy_in_escrow * ONE \in Nat
    BY <1>2, <1>4, OwedTypes, OwedTypesAfter, IndexTypes, IndexTypesAfter
  <1> HIDE DEF upper, eu, er, oldU, oldR, newU, newR, bu, br, counted, yt, yt2
  <1>8. /\ Counted(vault') * ONE = counted * ONE + er * ONE + eu * ONE
        /\ counted * ONE \in Nat /\ er * ONE \in Nat /\ eu * ONE \in Nat
    BY <1>3, <1>7, OneAssumption, SMT
  <1>9. /\ (bu + br) * upper = bu * upper + br * upper
        /\ (Balance(user) + Balance(Robot)) * upper
             = Balance(user) * upper + Balance(Robot) * upper
        /\ bu * upper \in Nat /\ br * upper \in Nat
        /\ Balance(user) * upper \in Nat /\ Balance(Robot) * upper \in Nat
    BY <1>3, <1>7, SMT
  <1>10. newU + newR = Balance(user) * upper + Balance(Robot) * upper
    BY <1>1, <1>5, <1>9
  <1>11. Owed(vault', position') <= Owed(vault, position)
    BY <1>3, <1>6, <1>7, <1>8, <1>9, <1>10
  <1>12. Owed(vault', position') + vault.total_sy_in_escrow * ONE
           <= Owed(vault, position) + vault.total_sy_in_escrow * ONE + 0
    BY <1>7, <1>8, <1>11
  <1> QED
    BY <1>1, <1>12 DEF Covers

\* In emergency mode nothing is earned, and YT can only go to the robot, whose
\* index is not behind.
LEMMA EmergencyCovers ==
    ASSUME IInv, IInv', ClaimsInv, ClaimsInv', ~IsExpired(now),
           NEW user \in Users, UserTurn(user), InEmergency(UpdatedVault)
    PROVE  Covers(0)
  <1> DEFINE oldU == OwedTo(position[user])
             oldR == OwedTo(position[Robot])
             newU == OwedTo(position'[user])
             newR == OwedTo(position'[Robot])
             bu == Balance(user)
             br == Balance(Robot)
             bu2 == Balance(user)'
             br2 == Balance(Robot)'
             yt == OwedYt(position)
             yt2 == OwedYt(position')
  <1>1. /\ Updates(EarnedSy(UpdatedVault, position[user]))
        /\ vault'.total_sy_in_escrow = vault.total_sy_in_escrow
        /\ Index(user)' = EarnedIndex(UpdatedVault, user)
        /\ Index(Robot)' = EarnedIndex(UpdatedVault, Robot)
        /\ bu2 + br2 = bu + br /\ bu2 <= bu
        /\ \A u \in Users \ {user} : SameClaim(u)
    <2>1. Balance(user)' = Balance(user) => Balance(user)' <= Balance(user)
      BY HoldersFacts, IndexTypes DEF IInv
    <2> QED
      BY <2>1 DEF UserTurn, Updates
  <1>2. user \in Holders /\ Robot \in Holders /\ user # Robot
    BY HoldersFacts
  <1>3. TypeOK /\ TypeOK' /\ IndexesInOrder /\ IndexesInOrder'
    BY DEF IInv, ClaimsInv
  <1>4. /\ yt \in Nat /\ Counted(vault) \in Nat
        /\ Owed(vault, position) = yt + Counted(vault) * ONE
        /\ yt2 \in Nat
        /\ Owed(vault', position') = yt2 + Counted(vault') * ONE
        /\ oldU \in Nat /\ oldR \in Nat /\ newU \in Nat /\ newR \in Nat
        /\ bu \in Nat /\ br \in Nat /\ bu2 \in Nat /\ br2 \in Nat
        /\ Counted(vault) * ONE \in Nat
        /\ vault.total_sy_in_escrow * ONE \in Nat
    BY <1>2, <1>3, OwedTypes, OwedTypesAfter, IndexTypes, IndexTypesAfter
  <1>5. /\ Counted(vault') = Counted(vault)
        /\ Index(user)' = Index(user) /\ Index(Robot)' = Index(Robot)
    <2>1. /\ EarnedSy(UpdatedVault, position[user]) = 0
          /\ EarnedSy(UpdatedVault, position[Robot]) = 0
          /\ Counted(vault') = Counted(vault)
                 + EarnedSy(UpdatedVault, position[Robot])
                 + EarnedSy(UpdatedVault, position[user])
          /\ EarnedIndex(UpdatedVault, user) = Index(user)
          /\ EarnedIndex(UpdatedVault, Robot) = Index(Robot)
      BY <1>1, <1>2, ActiveUpdate
    <2> QED
      BY <1>1, <1>4, <2>1
  <1>6. yt2 + oldU + oldR = yt + newU + newR
    BY <1>1, <1>2, <1>3, OwedChanges DEF Holders
  <1>7. newU + newR <= oldU + oldR
    <2>1. CASE bu2 = bu
      <3>1. br2 = br
        BY <1>1, <1>4, <2>1
      <3>2. newU = oldU /\ newR = oldR
        BY <1>5, <2>1, <3>1 DEF OwedTo, Index, Balance
      <3> QED
        BY <1>4, <3>2
    <2>2. CASE bu2 # bu
      <3> DEFINE iu == Index(user)
                 ir == Index(Robot)
                 d == bu - bu2
                 uu == UpperReciprocal(iu)
                 ur == UpperReciprocal(ir)
                 gain == NumDiv(ONE, iu) - NumDiv(ONE, ir)
      <3>1. /\ iu \in Nat \ {0} /\ ir \in Nat \ {0} /\ iu <= ir
            /\ d \in Nat /\ bu = bu2 + d /\ br2 = br + d
        <4>1. bu > 0 /\ d \in Nat /\ bu = bu2 + d /\ br2 = br + d
          BY <1>1, <1>4, <2>2
        <4>2. iu > 0 /\ iu <= ir
          BY <1>2, <4>1 DEF ClaimsInv, IndexesInOrder, Index, Balance
        <4>3. iu \in Nat /\ ir \in Nat
          BY <1>2, <1>3, IndexTypes
        <4> QED
          BY <4>1, <4>2, <4>3
      <3>2. newU = bu2 * uu /\ newR = br2 * ur
        <4>1. Index(user)' = iu /\ Index(Robot)' = ir
          BY <1>5
        <4>2. Index(user)' \in Nat \ {0} /\ Index(Robot)' \in Nat \ {0}
          BY <3>1, <4>1
        <4>3. /\ newU = bu2 * UpperReciprocal(Index(user)')
              /\ newR = br2 * UpperReciprocal(Index(Robot)')
          BY <1>2, <1>3, <4>2, OwedAtRate
        <4> QED
          BY <4>1, <4>3
      <3>3. oldU = bu * uu /\ oldR = br * ur
        <4>1. \A h \in Holders : /\ position[h] \in YieldTokenPosition
                                 /\ position[h].yt_balance > 0 =>
                                      position[h].interest.last_seen_index > 0
          BY <1>3, TypeParts DEF IndexesInOrder
        <4>2. iu > 0 /\ ir > 0
          BY <3>1
        <4> QED
          BY <1>2, <4>1, <4>2, OwedToFacts DEF Index, Balance
      <3>4. uu \in Nat /\ ur \in Nat
        BY <3>1, UpperFacts
      <3>5. gain \in Nat /\ uu = ur + gain
        BY <3>1, UpperDifference
      <3> HIDE DEF iu, ir, d, uu, ur, gain
      <3> HIDE DEF oldU, oldR, newU, newR, bu, br, bu2, br2
      <3>6. /\ (bu2 + d) * uu = bu2 * uu + d * uu
            /\ (br + d) * ur = br * ur + d * ur
            /\ d * (ur + gain) = d * ur + d * gain
            /\ bu2 * uu \in Nat /\ d * uu \in Nat /\ br * ur \in Nat
            /\ d * ur \in Nat /\ d * gain \in Nat
        BY <1>4, <3>1, <3>4, <3>5, SMT
      <3> QED
        BY <3>1, <3>2, <3>3, <3>5, <3>6
    <2> QED
      BY <2>1, <2>2
  <1> HIDE DEF oldU, oldR, newU, newR, yt, yt2
  <1>8. Owed(vault', position') + vault.total_sy_in_escrow * ONE
           <= Owed(vault, position) + vault.total_sy_in_escrow * ONE + 0
    BY <1>4, <1>5, <1>6, <1>7
  <1> QED
    BY <1>1, <1>8 DEF Covers

LEMMA ClaimCovers ==
    ASSUME IInv, IInv', ClaimsInv, ClaimsInv', ~IsExpired(now),
           NEW user \in Users, NEW paid \in Nat, ClaimTurn(user, paid)
    PROVE  Covers(0)
  <1> DEFINE final == vault.final_sy_exchange_rate
             e == EarnedSy(vault, position[user])
             old == OwedTo(position[user])
             new == OwedTo(position'[user])
             counted == Counted(vault)
             counted2 == Counted(vault')
             held == vault.total_sy_in_escrow
             yt == OwedYt(position)
             yt2 == OwedYt(position')
  <1>1. /\ final > 0
        /\ paid <= held /\ paid <= counted + e
        /\ vault'.total_sy_in_escrow = held - paid
        /\ counted2 = (counted + e) - paid
        /\ Index(user)' = EarnedIndex(vault, user)
        /\ Balance(user)' = Balance(user)
        /\ \A h \in Holders \ {user} : SameClaim(h)
    BY DEF ClaimTurn, CanEarn
  <1>2. user \in Holders /\ Robot \in Holders
    BY HoldersFacts
  <1>3. /\ TypeOK /\ TypeOK' /\ IndexesInOrder /\ IndexesInOrder'
        /\ vault \in VaultAccount /\ position[user] \in YieldTokenPosition
        /\ final \in Nat
    BY <1>2, TypeParts DEF IInv, ClaimsInv
  <1>4. yt2 + old = yt + new
    BY <1>1, <1>2, <1>3, OwedChange
  <1>5. /\ yt \in Nat /\ counted \in Nat
        /\ Owed(vault, position) = yt + counted * ONE
        /\ yt2 \in Nat /\ counted2 \in Nat
        /\ Owed(vault', position') = yt2 + counted2 * ONE
        /\ old \in Nat /\ new \in Nat
        /\ Balance(user) \in Nat /\ held \in Nat
    BY <1>2, <1>3, OwedTypes, OwedTypesAfter, IndexTypes, VaultFields
  <1>6. e \in Nat /\ e * ONE + new <= old
    <2>1. e \in Nat
      BY <1>3, EarnedSyType
    <2>2. CASE InEmergency(vault)
      <3>1. e = 0 /\ Index(user)' = Index(user)
        BY <1>1, <2>2 DEF EarnedSy, EarnedIndex
      <3>2. new = old
        BY <1>1, <3>1 DEF OwedTo, Index, Balance
      <3> HIDE DEF e, new, old
      <3>3. e * ONE = 0
        BY <3>1, OneAssumption, SMT
      <3> QED
        BY <1>5, <2>1, <3>2, <3>3
    <2>3. CASE ~InEmergency(vault)
      <3>1. /\ Index(user)' = final /\ final \in Nat \ {0}
        BY <1>1, <1>3, <2>3 DEF EarnedIndex
      <3>2. new = Balance(user)' * UpperReciprocal(final)
        BY <1>2, <1>3, <3>1, OwedAtRate
      <3>3. vault.last_seen_sy_exchange_rate = final
        BY DEF IInv, RateTracking
      <3>4. /\ position[user].interest.last_seen_index <= final
            /\ position[user].yt_balance > 0 =>
                 position[user].interest.last_seen_index > 0
        BY <1>2, <2>3 DEF ClaimsInv, IndexesInOrder
      <3>5. e * ONE + Balance(user) * UpperReciprocal(final) <= old
        BY <1>1, <1>3, <2>3, <3>3, <3>4, EarnedWithinOwed DEF Balance
      <3> QED
        BY <1>1, <2>1, <3>2, <3>5
    <2> QED
      BY <2>2, <2>3
  <1> DEFINE left == held - paid
  <1>7. left \in Nat /\ held = left + paid /\ vault'.total_sy_in_escrow = left
        /\ counted2 + paid = counted + e
    BY <1>1, <1>5, <1>6
  <1> HIDE DEF final, e, old, new, counted, counted2, held, yt, yt2, left
  <1>8. /\ (left + paid) * ONE = left * ONE + paid * ONE
        /\ (counted2 + paid) * ONE = counted2 * ONE + paid * ONE
        /\ (counted + e) * ONE = counted * ONE + e * ONE
        /\ left * ONE \in Nat /\ paid * ONE \in Nat /\ counted2 * ONE \in Nat
        /\ counted * ONE \in Nat /\ e * ONE \in Nat
    BY <1>5, <1>6, <1>7, OneAssumption, SMT
  <1>9. Owed(vault', position') + held * ONE
          <= Owed(vault, position) + left * ONE + 0
    BY <1>4, <1>5, <1>6, <1>7, <1>8
  <1> QED
    BY <1>7, <1>9 DEF Covers, held

LEMMA QuietCovers ==
    ASSUME IInv, IInv', ClaimsInv, ClaimsInv',
           NEW paid \in Nat, QuietTurn(paid)
    PROVE  /\ Covers(0) /\ OwedYt(position') = OwedYt(position)
  <1> DEFINE counted == Counted(vault)
             counted2 == Counted(vault')
             held == vault.total_sy_in_escrow
             yt == OwedYt(position)
             yt2 == OwedYt(position')
  <1>1. /\ paid <= held /\ paid <= counted
        /\ vault'.total_sy_in_escrow = held - paid
        /\ counted2 = counted - paid
        /\ \A h \in Holders : SameClaim(h)
    BY DEF QuietTurn
  <1>2. TypeOK /\ TypeOK' /\ IndexesInOrder /\ IndexesInOrder'
    BY DEF IInv, ClaimsInv
  <1>3. /\ yt \in Nat /\ counted \in Nat
        /\ Owed(vault, position) = yt + counted * ONE
        /\ yt2 \in Nat /\ counted2 \in Nat
        /\ Owed(vault', position') = yt2 + counted2 * ONE
        /\ held \in Nat
        /\ OwedTo(position[Robot]) \in Nat
    BY <1>2, HoldersFacts, OwedTypes, OwedTypesAfter, TypeParts
  <1>4. yt2 = yt
    <2>1. OwedTo(position'[Robot]) = OwedTo(position[Robot])
      BY <1>1, HoldersFacts DEF SameClaim, Balance, Index, OwedTo
    <2>2. yt2 + OwedTo(position[Robot]) = yt + OwedTo(position'[Robot])
      BY <1>1, <1>2, HoldersFacts, OwedChange
    <2> HIDE DEF yt, yt2
    <2> QED
      BY <1>3, <2>1, <2>2
  <1> DEFINE left == held - paid
  <1>5. left \in Nat /\ held = left + paid /\ vault'.total_sy_in_escrow = left
        /\ counted2 + paid = counted
    BY <1>1, <1>3
  <1> HIDE DEF counted, counted2, held, yt, yt2, left
  <1>6. /\ held * ONE = left * ONE + paid * ONE
        /\ counted * ONE = counted2 * ONE + paid * ONE
        /\ left * ONE \in Nat /\ paid * ONE \in Nat /\ counted2 * ONE \in Nat
    <2>1. /\ (left + paid) * ONE = left * ONE + paid * ONE
          /\ (counted2 + paid) * ONE = counted2 * ONE + paid * ONE
          /\ left * ONE \in Nat /\ paid * ONE \in Nat /\ counted2 * ONE \in Nat
      BY <1>3, <1>5, OneAssumption, SMT
    <2> QED
      BY <1>5, <2>1
  <1>7. Owed(vault', position') + held * ONE
          <= Owed(vault, position) + left * ONE + 0
    BY <1>3, <1>4, <1>5, <1>6
  <1> QED
    BY <1>4, <1>5, <1>7 DEF Covers, held, yt, yt2

\* Only a strip adds to the shortfall, and by rounding at most.
LEMMA ShortfallStep ==
    ASSUME IInv, IInv', CountsInv, ClaimsInv, ClaimsInv', [Next]_vars,
           ~IsExpired(now)
    PROVE  \/ Shortfall' <= Shortfall
           \/ /\ ~ExactReciprocals
              /\ vault'.pt_supply > vault.pt_supply
              /\ Shortfall' <= Shortfall
                    + (vault'.total_sy_in_escrow - vault.total_sy_in_escrow)
                    + (vault'.pt_supply - vault.pt_supply)
  <1>1. Turns
    BY StepTurns DEF IInv, CountsInv
  <1>2. /\ TypeOK /\ TypeOK' /\ IndexesInOrder /\ IndexesInOrder'
        /\ vault.total_sy_in_escrow \in Nat /\ vault.pt_supply \in Nat
    BY TypeParts DEF IInv, ClaimsInv
  <1>3. ASSUME Covers(0)
        PROVE  Shortfall' <= Shortfall
    <2>1. Shortfall \in Nat
      <3>1. /\ Owed(vault, position) \in Nat
            /\ vault.total_sy_in_escrow * ONE \in Nat
        BY <1>2, OwedTypes
      <3> QED
        BY <3>1 DEF Shortfall
    <2>2. Shortfall' <= Shortfall + 0
      BY <1>2, <1>3, CoversShortfall
    <2> QED
      BY <2>1, <2>2
  <1>4. ASSUME NEW amount \in Nat, StripTurn(amount), ~Covers(0)
        PROVE  /\ ~ExactReciprocals
               /\ vault'.pt_supply > vault.pt_supply
               /\ Shortfall' <= Shortfall
                    + (vault'.total_sy_in_escrow - vault.total_sy_in_escrow)
                    + (vault'.pt_supply - vault.pt_supply)
    <2> DEFINE py == SyToPy(sy.exchange_rate, amount)
    <2>1. py \in Nat /\ ~ExactReciprocals /\ py > 0 /\ Covers(amount + py)
      BY <1>4, StripCovers
    <2>2. /\ vault'.total_sy_in_escrow = vault.total_sy_in_escrow + amount
          /\ vault'.pt_supply = vault.pt_supply + py
      BY <1>4 DEF StripTurn
    <2> HIDE DEF py
    <2>3. Shortfall' <= Shortfall + (amount + py)
      BY <1>2, <2>1, CoversShortfall
    <2>4. Shortfall \in Nat
      <3>1. /\ Owed(vault, position) \in Nat
            /\ vault.total_sy_in_escrow * ONE \in Nat
        BY <1>2, OwedTypes
      <3> QED
        BY <3>1 DEF Shortfall
    <2>5. /\ vault'.total_sy_in_escrow - vault.total_sy_in_escrow = amount
          /\ vault'.pt_supply - vault.pt_supply = py
          /\ vault'.pt_supply > vault.pt_supply
      BY <1>2, <2>1, <2>2
    <2> HIDE DEF Shortfall
    <2> QED
      BY <2>1, <2>3, <2>4, <2>5
  <1> QED
    BY <1>1, <1>3, <1>4, MergeCovers, UserCovers, EmergencyCovers, ClaimCovers,
       QuietCovers DEF Turns

\* Until maturity no instruction promises SY that the escrow does not hold, but
\* for a strip's rounding: the update of the vault, the interest that positions
\* stage and the withdrawals leave the shortfall as it is (update_vault_yield,
\* earn_sy_interest, merge, withdraw_yt).
THEOREM ShortfallRounded == Spec => ShortfallIsRounding
  <1> DEFINE A == ~IsExpired(now) =>
          \/ Shortfall' <= Shortfall
          \/ /\ ~ExactReciprocals
             /\ vault'.pt_supply > vault.pt_supply
             /\ Shortfall' <= Shortfall
                    + (vault'.total_sy_in_escrow - vault.total_sy_in_escrow)
                    + (vault'.pt_supply - vault.pt_supply)
  <1>1. ASSUME IInv, IInv', CountsInv, ClaimsInv, ClaimsInv', [Next]_vars
        PROVE  A
    BY <1>1, ShortfallStep
  <1> HIDE DEF A
  <1>2. [][IInv /\ IInv' /\ CountsInv /\ ClaimsInv /\ ClaimsInv' /\ [Next]_vars
             => A]_vars
    BY <1>1, PTL
  <1>3. Spec => [][A]_vars
    BY <1>2, Invariance, Counts, ClaimsInOrder, PTL DEF Spec
  <1> QED
    BY <1>3 DEF ShortfallIsRounding, A

\* Sums of terms that are bounded by those of another.
LEMMA SumCombined ==
    ASSUME NEW R, IsFiniteSet(R), NEW e, NEW b, NEW o, NEW m \in Nat, NEW n \in Nat,
           \A x \in R : /\ e[x] \in Nat /\ b[x] \in Nat /\ o[x] \in Nat
                        /\ m * e[x] + n * b[x] <= o[x]
    PROVE  /\ SumOver(e, R) \in Nat /\ SumOver(b, R) \in Nat
           /\ SumOver(o, R) \in Nat
           /\ m * SumOver(e, R) + n * SumOver(b, R) <= SumOver(o, R)
  <1> DEFINE zero == [x \in R |-> 0]
             me == [x \in R |-> m * e[x]]
             both == [x \in R |-> m * e[x] + n * b[x]]
  <1>1. /\ \A x \in R : m * e[x] \in Nat /\ n * b[x] \in Nat
        /\ m * SumOver(e, R) = 0 + m * SumOver(e, R)
             \/ SumOver(e, R) \notin Nat
    BY SMT
  <1>2. /\ \A x \in R : zero[x] = 0
        /\ \A x \in R : me[x] = m * e[x]
        /\ \A x \in R : both[x] = m * e[x] + n * b[x]
    OBVIOUS
  <1> HIDE DEF zero, me, both
  <1>3. SumOver(zero, R) = 0
    BY <1>2, SumZero
  <1>4. \A x \in R : zero[x] \in Nat /\ e[x] \in Nat /\ me[x] = zero[x] + m * e[x]
    BY <1>1, <1>2
  <1>5. SumOver(me, R) = SumOver(zero, R) + m * SumOver(e, R)
    BY ONLY IsFiniteSet(R), m \in Nat, <1>4, SumLinear
  <1>6. \A x \in R : me[x] \in Nat /\ b[x] \in Nat /\ both[x] = me[x] + n * b[x]
    BY <1>1, <1>2
  <1>7. SumOver(both, R) = SumOver(me, R) + n * SumOver(b, R)
    BY ONLY IsFiniteSet(R), n \in Nat, <1>6, SumLinear
  <1>8. \A x \in R : both[x] \in Nat /\ o[x] \in Nat /\ both[x] <= o[x]
    BY <1>1, <1>2
  <1>9. SumOver(o, R) \in Nat /\ SumOver(both, R) <= SumOver(o, R)
    BY <1>8, SumMonotone
  <1>10. SumOver(e, R) \in Nat /\ SumOver(b, R) \in Nat
    BY SumFacts
  <1>11. SumOver(me, R) = m * SumOver(e, R)
    BY <1>1, <1>3, <1>5, <1>10
  <1> QED
    BY <1>7, <1>9, <1>10, <1>11

\* All the YT are in positions, and there are at least as many as PT.
LEMMA HeldYt ==
    ASSUME IInv, CountsInv
    PROVE  LET b == [h \in Holders |-> position[h].yt_balance]
           IN  SumOver(b, Holders) \in Nat /\ vault.pt_supply <= SumOver(b, Holders)
  <1> DEFINE b == [h \in Holders |-> position[h].yt_balance]
             w == [u \in Users |-> position[u].yt_balance]
  <1>1. \A h \in Holders : b[h] \in Nat
    BY TypeParts DEF IInv
  <1>2. \A u \in Users : b[u] = w[u]
    BY DEF Holders
  <1>3. b[Robot] = tokens.yt_wallets
    BY HoldersFacts DEF IInv, TokenLedger
  <1>4. tokens.escrow_yt = SumOver(w, Users)
    BY DEF CountsInv, YtEscrowIsUserYt, UserYt
  <1>5. vault.pt_supply <= tokens.yt_wallets + tokens.escrow_yt
    BY DEF IInv, TokenLedger, TotalYt
  <1>6. tokens.yt_wallets \in Nat /\ tokens.escrow_yt \in Nat
    BY TypeParts DEF IInv
  <1> HIDE DEF b, w
  <1>7. SumOver(b, Users) = SumOver(w, Users)
    BY <1>2, SumSame
  <1>8. SumOver(b, Holders) = SumOver(b, Users) + b[Robot]
    BY <1>1, HoldersFacts, SumAdd DEF Holders
  <1>9. SumOver(b, Holders) \in Nat
    BY <1>1, HoldersFacts, SumFacts
  <1>10. vault.pt_supply <= SumOver(b, Holders)
    BY <1>3, <1>4, <1>5, <1>6, <1>7, <1>8
  <1> QED
    BY <1>9, <1>10 DEF b

\* While the rate is at its high: what is to be staged, and the par of PT, are
\* within what is owed to YT.
LEMMA UnstagedWithinOwed ==
    ASSUME IInv, CountsInv, ClaimsInv, ~IsExpired(now), ~InEmergency(vault),
           vault.last_seen_sy_exchange_rate > 0, NEW par \in Nat,
           par * vault.last_seen_sy_exchange_rate <= vault.pt_supply * ONE
    PROVE  /\ Unstaged \in Nat
           /\ (par + Unstaged) * ONE <= OwedYt(position)
  <1> DEFINE rate == vault.last_seen_sy_exchange_rate
             upper == UpperReciprocal(rate)
             e == [h \in Holders |-> EarnedSy(vault, position[h])]
             b == [h \in Holders |-> position[h].yt_balance]
             o == [h \in Holders |-> OwedTo(position[h])]
             yt == SumOver(b, Holders)
  <1>1. /\ TypeOK /\ IndexesInOrder
        /\ vault \in VaultAccount
        /\ vault.pt_supply \in Nat
        /\ rate \in Nat \ {0} /\ rate = vault.final_sy_exchange_rate
        /\ rate \in Rates
    BY TypeParts, VaultFields
       DEF IInv, ClaimsInv, RateTracking, RatesSeen
  <1>2. upper \in Nat /\ ONE * ONE <= upper * rate
    BY <1>1, UpperFacts
  <1>3. par * rate <= vault.pt_supply * ONE
    OBVIOUS
  <1>4. par * ONE <= vault.pt_supply * upper
    BY <1>1, <1>2, <1>3, WorthAtReciprocal
  <1>5. yt \in Nat /\ vault.pt_supply <= yt
    BY HeldYt
  <1>6. ASSUME NEW h \in Holders
        PROVE  /\ EarnedSy(vault, position[h]) \in Nat
               /\ position[h].yt_balance \in Nat /\ OwedTo(position[h]) \in Nat
               /\ EarnedSy(vault, position[h]) * ONE
                    + position[h].yt_balance * upper <= OwedTo(position[h])
    <2>1. /\ position[h] \in YieldTokenPosition
          /\ position[h].yt_balance \in Nat /\ OwedTo(position[h]) \in Nat
      BY <1>1, TypeParts, OwedTypes
    <2>2. /\ position[h].yt_balance > 0 =>
               position[h].interest.last_seen_index > 0
          /\ position[h].interest.last_seen_index
               <= vault.final_sy_exchange_rate
      BY <1>1 DEF IndexesInOrder
    <2>3. vault.final_sy_exchange_rate > 0
      BY <1>1
    <2> QED
      BY <1>1, <2>1, <2>2, <2>3, EarnedWithinOwed
  <1>7. /\ Unstaged = SumOver(e, Holders)
        /\ OwedYt(position) = SumOver(o, Holders)
        /\ \A h \in Holders : /\ e[h] = EarnedSy(vault, position[h])
                              /\ b[h] = position[h].yt_balance
                              /\ o[h] = OwedTo(position[h])
    BY DEF Unstaged, OwedYt
  <1> HIDE DEF e, b, o, upper, rate
  <1>8. \A h \in Holders : /\ e[h] \in Nat /\ b[h] \in Nat /\ o[h] \in Nat
                           /\ ONE * e[h] + upper * b[h] <= o[h]
    <2> TAKE h \in Holders
    <2>1. e[h] \in Nat /\ b[h] \in Nat /\ o[h] \in Nat
          /\ e[h] * ONE + b[h] * upper <= o[h]
      BY <1>6, <1>7
    <2>2. ONE * e[h] = e[h] * ONE /\ upper * b[h] = b[h] * upper
      BY <1>2, <2>1, OneAssumption, SMT
    <2> QED
      BY <2>1, <2>2
  <1>9. /\ Unstaged \in Nat /\ OwedYt(position) \in Nat
        /\ ONE * Unstaged + upper * yt <= OwedYt(position)
    <2>1. IsFiniteSet(Holders) /\ ONE \in Nat /\ upper \in Nat
      BY <1>2, HoldersFacts, OneAssumption
    <2>2. /\ SumOver(e, Holders) \in Nat /\ SumOver(b, Holders) \in Nat
          /\ SumOver(o, Holders) \in Nat
      BY <1>8, <2>1, SumFacts
    <2>3. ONE * SumOver(e, Holders) + upper * SumOver(b, Holders)
            <= SumOver(o, Holders)
      BY ONLY <1>8, <2>1, SumCombined
    <2> QED
      BY <1>7, <2>2, <2>3
  <1> HIDE DEF yt
  <1>10. upper * vault.pt_supply <= upper * yt
    BY <1>1, <1>2, <1>5, MulMonotone
  <1>11. /\ (par + Unstaged) * ONE
              = par * ONE + ONE * Unstaged
         /\ vault.pt_supply * upper = upper * vault.pt_supply
         /\ par * ONE \in Nat /\ ONE * Unstaged \in Nat
         /\ upper * vault.pt_supply \in Nat /\ upper * yt \in Nat
    BY <1>1, <1>2, <1>5, <1>9, OneAssumption, SMT
  <1>12. (par + Unstaged) * ONE <= OwedYt(position)
    BY <1>4, <1>9, <1>10, <1>11
  <1> QED
    BY <1>9, <1>12

LEMMA UnstagedBounded ==
    ASSUME IInv, CountsInv, ClaimsInv
    PROVE  UnstagedWithinShortfall
  <1> SUFFICES ASSUME ~IsExpired(now)
               PROVE  (vault.sy_for_pt + vault.treasury_sy
                         + vault.uncollected_sy + Unstaged) * ONE
                        <= vault.total_sy_in_escrow * ONE + Shortfall
    BY DEF UnstagedWithinShortfall
  <1> DEFINE held == vault.total_sy_in_escrow
             s == vault.sy_for_pt
             c == Counted(vault)
             owed == Owed(vault, position)
             yt == OwedYt(position)
  <1>1. /\ owed \in Nat /\ yt \in Nat /\ c \in Nat
        /\ owed = yt + c * ONE /\ c * ONE \in Nat
        /\ held * ONE \in Nat
        /\ held \in Nat /\ s \in Nat
        /\ vault.treasury_sy \in Nat /\ vault.uncollected_sy \in Nat
        /\ c = vault.treasury_sy + vault.uncollected_sy
        /\ vault \in VaultAccount
    BY OwedTypes, TypeParts, VaultFields DEF IInv, ClaimsInv, Counted
  <1>2. Shortfall \in Nat /\ owed <= held * ONE + Shortfall
    BY <1>1 DEF Shortfall
  <1>3. CASE ~InEmergency(vault) /\ vault.last_seen_sy_exchange_rate > 0
    <2>1. Unstaged \in Nat /\ (s + Unstaged) * ONE <= yt
      BY <1>1, <1>3, UnstagedWithinOwed DEF ClaimsInv, BackingBounded
    <2> HIDE DEF held, s, c, owed, yt
    <2> HIDE DEF Shortfall, Unstaged
    <2>2. /\ (s + c + Unstaged) * ONE = (s + Unstaged) * ONE + c * ONE
          /\ (s + Unstaged) * ONE \in Nat
      BY <1>1, <2>1, OneAssumption, SMT
    <2>3. (s + c + Unstaged) * ONE <= held * ONE + Shortfall
      BY <1>1, <1>2, <2>1, <2>2
    <2>4. s + vault.treasury_sy + vault.uncollected_sy + Unstaged
            = s + c + Unstaged
      BY <1>1, <2>1
    <2> QED
      BY <2>3, <2>4 DEF s, held
  <1>4. CASE InEmergency(vault) \/ vault.last_seen_sy_exchange_rate = 0
    <2> DEFINE e == [h \in Holders |-> EarnedSy(vault, position[h])]
    <2>1. \A h \in Holders : e[h] = 0
      BY <1>4, NothingEarned
    <2>2. Unstaged = SumOver(e, Holders)
      BY DEF Unstaged
    <2> HIDE DEF e
    <2>3. Unstaged = 0
      BY <2>1, <2>2, HoldersFacts, SumZero
    <2>4. s <= ActiveSy(vault)
      BY <1>4 DEF ClaimsInv, BackingBounded
    <2>5. /\ ActiveSy(vault) \in Nat
          /\ held >= c => ActiveSy(vault) = held - c
          /\ ~(held >= c) => ActiveSy(vault) = 0
      BY <1>1, ActiveIs
    <2>6. s + vault.treasury_sy + vault.uncollected_sy + Unstaged = s + c
      BY <1>1, <2>3
    <2> HIDE DEF held, s, c, owed, yt
    <2> HIDE DEF Shortfall, Unstaged
    <2>7. (s + c) * ONE <= held * ONE + Shortfall
      <3>1. CASE held >= c
        <4>1. s + c <= held
          BY <1>1, <2>4, <2>5, <3>1
        <4>2. ONE * (s + c) <= ONE * held
          BY <1>1, <4>1, OneAssumption, MulMonotone
        <4>3. /\ ONE * (s + c) = (s + c) * ONE /\ ONE * held = held * ONE
              /\ (s + c) * ONE \in Nat
          BY <1>1, OneAssumption, SMT
        <4> QED
          BY <1>1, <1>2, <4>2, <4>3
      <3>2. CASE ~(held >= c)
        <4>1. s + c = c
          BY <1>1, <2>4, <2>5, <3>2
        <4>2. c * ONE <= held * ONE + Shortfall
          BY <1>1, <1>2
        <4> QED
          BY <4>1, <4>2
      <3> QED
        BY <3>1, <3>2
    <2> QED
      BY <2>6, <2>7 DEF s, held
  <1> QED
    BY <1>1, <1>3, <1>4, VaultFields

\* Until maturity what is set aside, and what the positions have yet to stage,
\* exceed the escrow by no more than its shortfall (sy_balance_invariant).
THEOREM UnstagedIsBounded == Spec => []UnstagedWithinShortfall
  BY UnstagedBounded, Invariance, Counts, ClaimsInOrder, PTL

-----------------------------------------------------------------------------
(* Where reciprocals are exact there is no shortfall.                      *)

LEMMA UnstagedTypes ==
    ASSUME TypeOK
    PROVE  Unstaged \in Nat
  <1> DEFINE e == [h \in Holders |-> EarnedSy(vault, position[h])]
  <1>1. \A h \in Holders : e[h] \in Nat
    BY TypeParts, EarnedSyType
  <1>2. Unstaged = SumOver(e, Holders)
    BY DEF Unstaged
  <1> HIDE DEF e
  <1> QED
    BY <1>1, <1>2, HoldersFacts, SumFacts

NoShortfall == ~IsExpired(now) => Shortfall = 0

LEMMA ShortfallInit ==
    ASSUME Init
    PROVE  Shortfall = 0
  <1> DEFINE o == [h \in Holders |-> OwedTo(position[h])]
  <1>1. \A h \in Holders : position[h].yt_balance = 0
    BY DEF Init, NewPosition
  <1>2. \A h \in Holders : o[h] = 0
    BY <1>1 DEF OwedTo
  <1>3. OwedYt(position) = SumOver(o, Holders)
    BY DEF OwedYt
  <1> HIDE DEF o
  <1>4. OwedYt(position) = 0
    BY <1>2, <1>3, HoldersFacts, SumZero
  <1>5. /\ vault.treasury_sy = 0 /\ vault.uncollected_sy = 0
        /\ vault.total_sy_in_escrow = 0
    BY DEF Init
  <1>6. (0 + 0) * ONE = 0 /\ 0 * ONE = 0
    BY OneAssumption, SMT
  <1> QED
    BY <1>4, <1>5, <1>6 DEF Shortfall, Owed

LEMMA NoShortfallStep ==
    ASSUME ExactReciprocals, IInv, IInv', CountsInv, ClaimsInv, ClaimsInv',
           NoShortfall, [Next]_vars
    PROVE  NoShortfall'
  <1> SUFFICES ASSUME ~IsExpired(now') PROVE Shortfall' = 0
    BY DEF NoShortfall, IsExpired
  <1>1. now' \in Nat /\ now \in Nat /\ now <= now'
    <2>1. now \in Nat
      BY TypeParts DEF IInv
    <2>2. Turns
      BY StepTurns DEF IInv, CountsInv
    <2>3. now' = now \/ now' = now + 1
      BY <2>2 DEF Turns, StripTurn, QuietTurn, MergeTurn, UserTurn, ClaimTurn,
                  Updates
    <2> QED
      BY <2>1, <2>3
  <1>2. ~IsExpired(now)
    BY <1>1, VaultAssumption DEF IsExpired
  <1>3. Shortfall = 0 /\ Shortfall' <= Shortfall
    BY <1>2, ShortfallStep DEF NoShortfall
  <1>4. /\ Owed(vault', position') \in Nat
        /\ vault'.total_sy_in_escrow * ONE \in Nat
    BY OwedTypesAfter DEF IInv, ClaimsInv
  <1>5. Shortfall' \in Nat
    BY <1>4 DEF Shortfall
  <1> HIDE DEF Shortfall
  <1> QED
    BY <1>3, <1>5

LEMMA NoShortfallInvariant ==
    ASSUME ExactReciprocals
    PROVE  Spec => [](IInv /\ CountsInv /\ ClaimsInv /\ NoShortfall)
  <1>1. Init => NoShortfall
    BY ShortfallInit DEF NoShortfall
  <1>2. ASSUME IInv, IInv', CountsInv, ClaimsInv, ClaimsInv', NoShortfall,
               [Next]_vars
        PROVE  NoShortfall'
    BY <1>2, NoShortfallStep
  <1> QED
    BY <1>1, <1>2, Invariance, Counts, ClaimsInOrder, PTL DEF Spec

LEMMA CoveredUntilMaturity ==
    ASSUME IInv, CountsInv, ClaimsInv, NoShortfall
    PROVE  SolventWhileActive
  <1> SUFFICES ASSUME ~IsExpired(now) PROVE UnstagedCovered
    BY DEF SolventWhileActive
  <1> DEFINE held == vault.total_sy_in_escrow
             all == vault.sy_for_pt + vault.treasury_sy
                      + vault.uncollected_sy + Unstaged
  <1>1. /\ held \in Nat /\ vault.sy_for_pt \in Nat /\ Unstaged \in Nat
        /\ vault.treasury_sy \in Nat /\ vault.uncollected_sy \in Nat
    BY TypeParts, VaultFields, UnstagedTypes DEF IInv
  <1>2. all \in Nat
    BY <1>1
  <1>3. all * ONE <= held * ONE + 0
    BY UnstagedBounded DEF NoShortfall, UnstagedWithinShortfall
  <1>4. UnstagedCovered <=> held >= all
    BY DEF UnstagedCovered
  <1> HIDE DEF held, all
  <1>5. /\ all * ONE = ONE * all /\ held * ONE = ONE * held
        /\ ONE * held \in Nat
    BY <1>1, <1>2, OneAssumption, SMT
  <1>6. ONE * all <= ONE * held
    BY <1>3, <1>5
  <1>7. all <= held
    BY <1>1, <1>2, <1>6, OneAssumption, MulCancel
  <1> QED
    BY <1>1, <1>2, <1>4, <1>7

\* Until maturity the escrow covers the backing of PT, what is set aside and
\* what the positions have yet to stage, also while the rate dips and recovers,
\* where the code's reciprocals of the rates are exact (sy_balance_invariant).
THEOREM SolventUntilMaturity ==
    ASSUME ExactReciprocals
    PROVE  Spec => []SolventWhileActive
  <1>1. IInv /\ CountsInv /\ ClaimsInv /\ NoShortfall => SolventWhileActive
    BY CoveredUntilMaturity
  <1> QED
    BY <1>1, NoShortfallInvariant, PTL

\* The par of PT at the last rate is within what is not set aside.
ParWithinActive ==
    ~InEmergency(vault) /\ vault.last_seen_sy_exchange_rate > 0 =>
        PyToSy(vault.last_seen_sy_exchange_rate, vault.pt_supply)
            <= ActiveSy(vault)

LEMMA ParUntilMaturity ==
    ASSUME IInv, CountsInv, ClaimsInv, NoShortfall, ~IsExpired(now)
    PROVE  ParWithinActive
  <1> SUFFICES ASSUME ~InEmergency(vault), vault.last_seen_sy_exchange_rate > 0
               PROVE  PyToSy(vault.last_seen_sy_exchange_rate, vault.pt_supply)
                        <= ActiveSy(vault)
    BY DEF ParWithinActive
  <1> DEFINE par == PyToSy(vault.last_seen_sy_exchange_rate, vault.pt_supply)
             held == vault.total_sy_in_escrow
             c == Counted(vault)
             owed == Owed(vault, position)
             yt == OwedYt(position)
  <1>1. /\ owed \in Nat /\ yt \in Nat /\ c \in Nat
        /\ owed = yt + c * ONE /\ c * ONE \in Nat
        /\ held * ONE \in Nat /\ held \in Nat
        /\ vault \in VaultAccount
    BY OwedTypes, TypeParts DEF IInv, ClaimsInv
  <1>2. owed <= held * ONE
    BY <1>1 DEF NoShortfall, Shortfall
  <1>3. /\ par \in Nat
        /\ par * vault.last_seen_sy_exchange_rate <= vault.pt_supply * ONE
    <2>1. /\ vault.last_seen_sy_exchange_rate \in Nat \ {0}
          /\ vault.pt_supply \in Nat
      BY <1>1, VaultFields
    <2> QED
      BY <2>1, PyToSyWithinPar
  <1> HIDE DEF par
  <1>4. Unstaged \in Nat /\ (par + Unstaged) * ONE <= yt
    BY <1>3, UnstagedWithinOwed
  <1> HIDE DEF held, c, owed, yt, Unstaged
  <1>5. /\ (par + Unstaged) * ONE = par * ONE + Unstaged * ONE
        /\ par * ONE \in Nat /\ Unstaged * ONE \in Nat
        /\ ONE * (par + c) = par * ONE + c * ONE
        /\ ONE * held = held * ONE
    BY <1>1, <1>3, <1>4, OneAssumption, SMT
  <1>6. ONE * (par + c) <= ONE * held
    BY <1>1, <1>2, <1>4, <1>5
  <1>7. par + c <= held
    BY <1>1, <1>3, <1>6, OneAssumption, MulCancel
  <1>8. held >= c => ActiveSy(vault) = held - c
    BY <1>1, ActiveIs DEF held, c
  <1> QED
    BY <1>1, <1>3, <1>7, <1>8 DEF par

\* Each turn leaves the backing as it was or makes it fresh.
LEMMA BackingTurns ==
    ASSUME IInv, IInv', Turns
    PROVE  \/ SameBacking
           \/ Fresh(vault') /\ ~(vault'.last_seen_sy_exchange_rate = 0)
  <1>1. ASSUME NEW earned, Updates(earned)
        PROVE  Fresh(vault') /\ ~(vault'.last_seen_sy_exchange_rate = 0)
    BY <1>1, UpdatedRates DEF Updates
  <1> QED
    BY <1>1 DEF Turns, StripTurn, MergeTurn, UserTurn, ClaimTurn, QuietTurn

LEMMA BackingStep ==
    ASSUME IInv, IInv', Turns, PtWholeAtHigh, ParWithinActive'
    PROVE  PtWholeAtHigh'
  <1> DEFINE rate == vault'.last_seen_sy_exchange_rate
             par == PyToSy(rate, vault'.pt_supply)
  <1>1. PtWholeAtHigh' <=>
            (~InEmergency(vault') => (rate > 0 => vault'.sy_for_pt = par))
    BY DEF PtWholeAtHigh, PtFullyBacked
  <1>2. CASE SameBacking
    <2>1. SameRates(vault, vault') /\ InEmergency(vault') = InEmergency(vault)
      BY <1>2, SameRatesEarn DEF SameBacking
    <2>2. /\ vault'.sy_for_pt = vault.sy_for_pt
          /\ vault'.pt_supply = vault.pt_supply
          /\ rate = vault.last_seen_sy_exchange_rate
      BY <1>2 DEF SameBacking, SameRates
    <2> HIDE DEF rate
    <2> QED
      BY <1>1, <2>1, <2>2 DEF PtWholeAtHigh, PtFullyBacked
  <1>3. CASE Fresh(vault') /\ ~(rate = 0)
    <2> SUFFICES ASSUME ~InEmergency(vault'), rate > 0
                 PROVE  vault'.sy_for_pt = par
      BY <1>1
    <2>1. vault'.sy_for_pt = Smaller(par, ActiveSy(vault'))
      BY <1>3 DEF Fresh, SyBackingForPt
    <2>2. par <= ActiveSy(vault')
      BY DEF ParWithinActive
    <2> QED
      BY <2>1, <2>2 DEF Smaller
  <1> QED
    BY <1>2, <1>3, BackingTurns

LEMMA BackingInit ==
    ASSUME Init
    PROVE  PtWholeAtHigh
  BY DEF Init, PtWholeAtHigh, PtFullyBacked

LEMMA ActiveBackingStep ==
    ASSUME IInv, IInv', CountsInv, PtWholeWhileActive, [Next]_vars,
           (~IsExpired(now) => ParWithinActive)'
    PROVE  PtWholeWhileActive'
  <1> SUFFICES ASSUME ~IsExpired(now') PROVE PtWholeAtHigh'
    BY DEF PtWholeWhileActive, IsExpired
  <1>1. Turns
    BY StepTurns DEF IInv, CountsInv
  <1>2. ~IsExpired(now)
    <2>1. now \in Nat
      BY TypeParts DEF IInv
    <2>2. now' = now \/ now' = now + 1
      BY <1>1 DEF Turns, StripTurn, QuietTurn, MergeTurn, UserTurn, ClaimTurn,
                  Updates
    <2> QED
      BY <2>1, <2>2, VaultAssumption DEF IsExpired
  <1>3. PtWholeAtHigh
    BY <1>2 DEF PtWholeWhileActive
  <1>4. ParWithinActive'
    BY DEF IsExpired
  <1> QED
    BY <1>1, <1>3, <1>4, BackingStep

\* A rate that dips costs PT its backing, and as soon as it is back at its high,
\* before maturity, PT is whole again, where reciprocals are exact (merge, and
\* set_sy_for_pt at the end of every update).
THEOREM PtWholeUntilMaturity ==
    ASSUME ExactReciprocals
    PROVE  Spec => []PtWholeWhileActive
  <1> DEFINE Par == ~IsExpired(now) => ParWithinActive
  <1>1. IInv /\ CountsInv /\ ClaimsInv /\ NoShortfall => Par
    BY ParUntilMaturity
  <1>2. ASSUME IInv, IInv', CountsInv, PtWholeWhileActive, [Next]_vars, Par'
        PROVE  PtWholeWhileActive'
    BY <1>2, ActiveBackingStep
  <1>3. Init => PtWholeWhileActive
    BY BackingInit DEF PtWholeWhileActive
  <1> HIDE DEF Par
  <1> QED
    BY <1>1, <1>2, <1>3, NoShortfallInvariant, PTL DEF Spec

-----------------------------------------------------------------------------
(* Settlement: what the escrow is worth after maturity, for rates that rise. *)

\* The appreciation, the stages and the redemptions of settlement in terms of
\* what the vault has not set aside.
LEMMA SettledIs ==
    ASSUME NEW v \in VaultAccount, NEW pos,
           Gain(v.final_sy_exchange_rate, pos) \in Nat
    PROVE  Settled(v, pos) <=>
             /\ Counted(v) <= v.total_sy_in_escrow
             /\ v.pt_supply * ONE * ONE
                  + v.final_sy_exchange_rate * Gain(v.final_sy_exchange_rate, pos)
                  <= ActiveSy(v) * v.last_seen_sy_exchange_rate * ONE
  <1> DEFINE held == v.total_sy_in_escrow
             c == Counted(v)
             rate == v.last_seen_sy_exchange_rate
             owed == v.pt_supply * ONE * ONE
                  + v.final_sy_exchange_rate * Gain(v.final_sy_exchange_rate, pos)
             active == ActiveSy(v)
  <1>1. /\ held \in Nat /\ c \in Nat /\ rate \in Nat /\ active \in Nat
        /\ c <= held => active = held - c
        /\ v.pt_supply \in Nat /\ v.final_sy_exchange_rate \in Nat
    BY VaultFields, ActiveIs
  <1>2. owed \in Nat
    BY <1>1, OneAssumption, SMT
  <1>3. Settled(v, pos) <=> /\ c <= held
                            /\ owed + c * rate * ONE <= held * rate * ONE
    BY DEF Settled, Counted
  <1> HIDE DEF held, c, rate, owed, active
  <1>4. CASE c <= held
    <2>1. held = active + c
      BY <1>1, <1>4
    <2>2. /\ (active + c) * rate * ONE = active * rate * ONE + c * rate * ONE
          /\ active * rate * ONE \in Nat /\ c * rate * ONE \in Nat
      BY <1>1, OneAssumption, SMT
    <2>3. owed + c * rate * ONE <= held * rate * ONE
            <=> owed <= active * rate * ONE
      BY <1>2, <2>1, <2>2
    <2> QED
      BY <1>3, <1>4, <2>3 DEF held, c, rate, owed, active
  <1> QED
    BY <1>3, <1>4 DEF held, c

LEMMA GainOfFacts ==
    ASSUME NEW final \in Nat, NEW p \in YieldTokenPosition,
           p.interest.last_seen_index <= final
    PROVE  /\ GainOf(final, p) \in Nat
           /\ p.interest.last_seen_index = final => GainOf(final, p) = 0
           /\ p.interest.last_seen_index > 0 =>
                GainOf(final, p) = p.yt_balance
                  * (NumDiv(ONE, p.interest.last_seen_index) - NumDiv(ONE, final))
  <1> DEFINE last == p.interest.last_seen_index
             yt == p.yt_balance
             gain == NumDiv(ONE, last) - NumDiv(ONE, final)
  <1>1. yt \in Nat /\ last \in Nat
    BY DEF YieldTokenPosition, Tracker
  <1>2. CASE yt = 0 \/ last = 0
    <2>1. GainOf(final, p) = 0
      BY <1>2 DEF GainOf
    <2>2. ASSUME last > 0
          PROVE  yt * gain = 0
      <3>1. last \in Nat \ {0} /\ yt = 0
        BY <1>1, <1>2, <2>2
      <3>2. gain \in Nat
        BY <3>1, OneAssumption, EarnedWithinGain
      <3> HIDE DEF gain
      <3> QED
        BY <3>1, <3>2, SMT
    <2> QED
      BY <1>1, <2>1, <2>2
  <1>3. CASE ~(yt = 0 \/ last = 0)
    <2>1. last \in Nat \ {0}
      BY <1>1, <1>3
    <2>2. gain \in Nat
      BY <2>1, OneAssumption, EarnedWithinGain
    <2>3. GainOf(final, p) = yt * gain
      BY <1>3 DEF GainOf
    <2>4. last = final => gain = 0
      <3>1. NumDiv(ONE, last) \in Nat
        BY <2>1, OneAssumption, NumDivBounds
      <3> QED
        BY <3>1
    <2> HIDE DEF gain
    <2>5. yt * gain \in Nat /\ yt * 0 = 0
      BY <1>1, <2>2, SMT
    <2> QED
      BY <2>3, <2>4, <2>5 DEF gain
  <1> QED
    BY <1>2, <1>3

\* What a position stages at settlement is worth no more than its gain.
LEMMA StagedWithinGain ==
    ASSUME RatiosRoundDown, NEW v \in VaultAccount, NEW p \in YieldTokenPosition,
           p.interest.last_seen_index <= v.final_sy_exchange_rate,
           v.final_sy_exchange_rate <= v.last_seen_sy_exchange_rate,
           v.final_sy_exchange_rate \in Rates \cup {0},
           v.last_seen_sy_exchange_rate \in Rates \cup {0}
    PROVE  /\ EarnedSy(v, p) \in Nat
           /\ GainOf(v.final_sy_exchange_rate, p) \in Nat
           /\ EarnedSy(v, p) * v.last_seen_sy_exchange_rate * ONE
                <= v.final_sy_exchange_rate * GainOf(v.final_sy_exchange_rate, p)
  <1> DEFINE final == v.final_sy_exchange_rate
             current == v.last_seen_sy_exchange_rate
             yt == p.yt_balance
             last == p.interest.last_seen_index
             x == CalcEarnedSy(yt, last, final)
             e == EarnedSy(v, p)
             gain == GainOf(final, p)
  <1>1. /\ final \in Nat /\ current \in Nat /\ yt \in Nat /\ last \in Nat
    BY VaultFields DEF YieldTokenPosition, Tracker
  <1>2. e \in Nat
    BY EarnedSyType
  <1>3. gain \in Nat
    BY <1>1, GainOfFacts
  <1>4. e = 0 \/ e = ScaleSyToCurrentRate(x, final, current)
    BY DEF EarnedSy
  <1>5. CASE e = 0
    <2> HIDE DEF e, final, current, gain
    <2>1. 0 * current * ONE = 0 /\ final * gain \in Nat
      BY <1>1, <1>3, OneAssumption, SMT
    <2>2. e * current * ONE <= final * gain
      BY <1>5, <2>1
    <2> QED
      BY <1>2, <1>3, <2>2 DEF e, final, current, gain
  <1>6. CASE e # 0
    <2>1. e = ScaleSyToCurrentRate(x, final, current)
      BY <1>4, <1>6
    <2>2. x # 0
      <3> SUFFICES ASSUME x = 0 PROVE FALSE
        OBVIOUS
      <3>1. e = 0
        BY <1>1, <2>1, ScaledNothing
      <3> QED
        BY <1>6, <3>1
    <2>3. last # 0 /\ last < final
      BY <1>1, <2>2 DEF CalcEarnedSy
    <2>4. last \in Nat \ {0} /\ final > 0 /\ last <= final /\ final \in Rates
      BY <1>1, <2>3
    <2>5. /\ x \in Nat
          /\ x * ONE <= yt * (NumDiv(ONE, last) - NumDiv(ONE, final))
      BY <1>1, <2>4, EarnedWithinGain
    <2>6. x * ONE <= gain
      BY <1>1, <2>4, <2>5, GainOfFacts
    <2>7. final < current => NumDiv(final, current) * current <= final * ONE
      BY <1>1, <2>4 DEF RatiosRoundDown
    <2>8. e * current <= x * final
      BY <1>1, <2>1, <2>5, <2>7, ScaledWithinValue
    <2> HIDE DEF e, x, final, current, gain
    <2>9. /\ ONE * (e * current) = e * current * ONE
          /\ ONE * (x * final) = final * (x * ONE)
          /\ e * current \in Nat /\ x * final \in Nat /\ x * ONE \in Nat
          /\ e * current * ONE \in Nat /\ final * (x * ONE) \in Nat
          /\ final * gain \in Nat
      BY <1>1, <1>2, <1>3, <2>5, OneAssumption, SMT
    <2>10. ONE * (e * current) <= ONE * (x * final)
      BY <2>8, <2>9, OneAssumption, MulMonotone
    <2>11. final * (x * ONE) <= final * gain
      BY <1>1, <1>3, <2>6, <2>9, MulMonotone
    <2>12. e * current * ONE <= final * gain
      BY <2>9, <2>10, <2>11
    <2> QED
      BY <1>2, <1>3, <2>12 DEF e, final, current, gain
  <1> QED
    BY <1>5, <1>6

LEMMA GainTypes ==
    ASSUME NEW final \in Nat, NEW pos,
           \A h \in Holders : /\ pos[h] \in YieldTokenPosition
                              /\ pos[h].interest.last_seen_index <= final
    PROVE  /\ \A h \in Holders : GainOf(final, pos[h]) \in Nat
           /\ Gain(final, pos) \in Nat
  <1>1. \A h \in Holders : GainOf(final, pos[h]) \in Nat
    BY GainOfFacts
  <1> DEFINE g == [h \in Holders |-> GainOf(final, pos[h])]
  <1>2. \A h \in Holders : g[h] \in Nat
    BY <1>1
  <1>3. Gain(final, pos) = SumOver(g, Holders)
    BY DEF Gain
  <1> HIDE DEF g
  <1> QED
    BY <1>1, <1>2, <1>3, HoldersFacts, SumFacts

\* A position that earns has its gain taken out of the sum.
LEMMA GainTaken ==
    ASSUME NEW final \in Nat, NEW pos, NEW later, NEW x \in Holders,
           \A h \in Holders : /\ GainOf(final, pos[h]) \in Nat
                              /\ GainOf(final, later[h]) \in Nat,
           \A h \in Holders \ {x} :
               GainOf(final, later[h]) = GainOf(final, pos[h]),
           GainOf(final, later[x]) = 0
    PROVE  /\ Gain(final, later) \in Nat /\ Gain(final, pos) \in Nat
           /\ Gain(final, later) + GainOf(final, pos[x]) = Gain(final, pos)
  <1> DEFINE f == [h \in Holders |-> GainOf(final, pos[h])]
             g == [h \in Holders |-> GainOf(final, later[h])]
  <1>1. \A h \in Holders : f[h] \in Nat /\ g[h] \in Nat
    OBVIOUS
  <1>2. \A h \in Holders \ {x} : g[h] = f[h]
    OBVIOUS
  <1>3. /\ f[x] = GainOf(final, pos[x]) /\ g[x] = 0
        /\ Gain(final, pos) = SumOver(f, Holders)
        /\ Gain(final, later) = SumOver(g, Holders)
    BY DEF Gain
  <1> HIDE DEF f, g
  <1>4. SumOver(g, Holders) + f[x] = SumOver(f, Holders) + g[x]
    BY <1>1, <1>2, HoldersFacts, SumChange
  <1>5. SumOver(f, Holders) \in Nat /\ SumOver(g, Holders) \in Nat
    BY <1>1, HoldersFacts, SumFacts
  <1> QED
    BY <1>1, <1>3, <1>4, <1>5

LEMMA GainsTaken ==
    ASSUME NEW final \in Nat, NEW pos, NEW later,
           NEW x \in Holders, NEW y \in Holders, x # y,
           \A h \in Holders : /\ GainOf(final, pos[h]) \in Nat
                              /\ GainOf(final, later[h]) \in Nat,
           \A h \in Holders \ {x, y} :
               GainOf(final, later[h]) = GainOf(final, pos[h]),
           GainOf(final, later[x]) = 0, GainOf(final, later[y]) = 0
    PROVE  /\ Gain(final, later) \in Nat /\ Gain(final, pos) \in Nat
           /\ Gain(final, later) + GainOf(final, pos[x]) + GainOf(final, pos[y])
                = Gain(final, pos)
  <1> DEFINE f == [h \in Holders |-> GainOf(final, pos[h])]
             g == [h \in Holders |-> GainOf(final, later[h])]
  <1>1. \A h \in Holders : f[h] \in Nat /\ g[h] \in Nat
    OBVIOUS
  <1>2. \A h \in Holders \ {x, y} : g[h] = f[h]
    OBVIOUS
  <1>3. /\ f[x] = GainOf(final, pos[x]) /\ g[x] = 0
        /\ f[y] = GainOf(final, pos[y]) /\ g[y] = 0
        /\ Gain(final, pos) = SumOver(f, Holders)
        /\ Gain(final, later) = SumOver(g, Holders)
    BY DEF Gain
  <1> HIDE DEF f, g
  <1>4. /\ SumOver(f, Holders) \in Nat /\ SumOver(g, Holders) \in Nat
        /\ SumOver(g, Holders) + f[x] + f[y] = SumOver(f, Holders) + g[x] + g[y]
    BY <1>1, <1>2, HoldersFacts, SumTwo
  <1> QED
    BY <1>1, <1>3, <1>4


\* Rates that rise keep the vault out of emergency mode, and the positions
\* behind the final rate.
LEMMA RisingUpdate ==
    ASSUME IInv, RatesRise, NEW earned, Updates(earned)
    PROVE  /\ ~InEmergency(UpdatedVault) /\ ~InEmergency(vault')
           /\ vault.final_sy_exchange_rate <= UpdatedVault.final_sy_exchange_rate
           /\ UpdatedVault.final_sy_exchange_rate <= sy.exchange_rate
           /\ vault.all_time_high_sy_exchange_rate
                = vault.last_seen_sy_exchange_rate
           /\ vault.last_seen_sy_exchange_rate <= sy.exchange_rate
  <1>1. /\ TypeOK /\ CanEarn(UpdatedVault)
        /\ vault.last_seen_sy_exchange_rate \in Nat
        /\ vault.all_time_high_sy_exchange_rate \in Nat
        /\ vault.final_sy_exchange_rate \in Nat
        /\ vault.last_seen_sy_exchange_rate <= vault.all_time_high_sy_exchange_rate
        /\ vault.final_sy_exchange_rate <= vault.all_time_high_sy_exchange_rate
    BY TypeParts DEF IInv, RateOrder, Updates
  <1>2. /\ vault.all_time_high_sy_exchange_rate
                = vault.last_seen_sy_exchange_rate
        /\ vault.last_seen_sy_exchange_rate <= sy.exchange_rate
    BY <1>1 DEF RatesRise, InEmergency
  <1>3. /\ sy.exchange_rate \in Nat
        /\ UpdatedVault.last_seen_sy_exchange_rate = sy.exchange_rate
        /\ UpdatedVault.final_sy_exchange_rate
                = IF IsActive(now) THEN sy.exchange_rate
                                   ELSE vault.final_sy_exchange_rate
        /\ InEmergency(vault') = InEmergency(UpdatedVault)
    BY UpdatedRates
  <1>4. UpdatedVault.all_time_high_sy_exchange_rate
          = Larger(sy.exchange_rate, vault.all_time_high_sy_exchange_rate)
    BY <1>1, UpdateFacts
  <1>5. UpdatedVault.all_time_high_sy_exchange_rate = sy.exchange_rate
    BY <1>1, <1>2, <1>3, <1>4 DEF Larger
  <1> QED
    BY <1>1, <1>2, <1>3, <1>5 DEF InEmergency

LEMMA RatesRiseStep ==
    ASSUME ~MayDepreciate, IInv, IInv', RatesRise, Turns
    PROVE  RatesRise'
  <1> DEFINE Behind(h) == Index(h)' <= vault'.final_sy_exchange_rate
  <1>1. RatesRise' <=>
            /\ ~InEmergency(vault')
            /\ vault'.last_seen_sy_exchange_rate <= sy'.exchange_rate
            /\ \A h \in Holders : Behind(h)
    BY DEF RatesRise, Index
  <1>2. /\ ~InEmergency(vault)
        /\ vault.last_seen_sy_exchange_rate <= sy.exchange_rate
        /\ \A h \in Holders : Index(h) <= vault.final_sy_exchange_rate
    BY DEF RatesRise, Index
  <1>3. /\ \A h \in Holders : Index(h) \in Nat
        /\ vault.final_sy_exchange_rate \in Nat
        /\ vault.last_seen_sy_exchange_rate \in Nat
        /\ sy.exchange_rate \in Nat
    BY IndexTypes, TypeParts, SyAssumption DEF IInv, TypeOK, SyTypeOK
  <1>4. ASSUME NEW earned, Updates(earned),
               \A h \in Holders : SameClaim(h)
                                  \/ Index(h)' = EarnedIndex(UpdatedVault, h)
        PROVE  RatesRise'
    <2>1. /\ ~InEmergency(UpdatedVault) /\ ~InEmergency(vault')
          /\ vault.final_sy_exchange_rate <= UpdatedVault.final_sy_exchange_rate
      BY <1>4, RisingUpdate
    <2>2. /\ vault'.last_seen_sy_exchange_rate = sy.exchange_rate
          /\ vault'.final_sy_exchange_rate = UpdatedVault.final_sy_exchange_rate
          /\ sy' = sy
      BY <1>4, UpdatedRates
    <2>3. UpdatedVault.final_sy_exchange_rate \in Nat
      BY <1>4, UpdatedRates, VaultFields
    <2>4. ASSUME NEW h \in Holders
          PROVE  Behind(h)
      <3>1. CASE SameClaim(h)
        BY <1>2, <1>3, <2>1, <2>2, <2>3, <3>1 DEF SameClaim
      <3>2. CASE Index(h)' = EarnedIndex(UpdatedVault, h)
        BY <2>1, <2>2, <2>3, <3>2 DEF EarnedIndex
      <3> QED
        BY <1>4, <3>1, <3>2
    <2> HIDE DEF Behind
    <2> QED
      BY <1>1, <1>3, <2>1, <2>2, <2>4
  <1>5. ASSUME SameBacking, sy'.exchange_rate >= sy.exchange_rate,
               sy'.exchange_rate \in Nat,
               \A h \in Holders : SameClaim(h)
                                  \/ Index(h)' = EarnedIndex(vault, h)
        PROVE  RatesRise'
    <2>1. /\ vault'.last_seen_sy_exchange_rate = vault.last_seen_sy_exchange_rate
          /\ vault'.final_sy_exchange_rate = vault.final_sy_exchange_rate
          /\ InEmergency(vault') = InEmergency(vault)
      BY <1>5, SameRatesEarn DEF SameBacking, SameRates
    <2>2. \A h \in Holders : Behind(h)
      BY <1>2, <1>3, <1>5, <2>1 DEF SameClaim, EarnedIndex
    <2> HIDE DEF Behind
    <2> QED
      BY <1>1, <1>2, <1>3, <1>5, <2>1, <2>2
  <1> HIDE DEF Behind
  <1>6. ASSUME NEW amount \in Nat, StripTurn(amount)
        PROVE  RatesRise'
    BY <1>4, <1>6 DEF StripTurn, Updates, Holders
  <1>7. ASSUME NEW py \in Nat, NEW paid \in Nat, MergeTurn(py, paid)
        PROVE  RatesRise'
    BY <1>4, <1>7 DEF MergeTurn, Updates, Holders
  <1>8. ASSUME NEW user \in Users, UserTurn(user)
        PROVE  RatesRise'
    BY <1>4, <1>8 DEF UserTurn, Updates, Holders
  <1>9. ASSUME NEW user \in Users, NEW paid \in Nat, ClaimTurn(user, paid)
        PROVE  RatesRise'
    BY <1>3, <1>5, <1>9 DEF ClaimTurn
  <1>10. ASSUME NEW paid \in Nat, QuietTurn(paid)
         PROVE  RatesRise'
    <2>1. sy'.exchange_rate \in Nat /\ sy'.exchange_rate >= sy.exchange_rate
      BY <1>10, SyAssumption DEF QuietTurn
    <2> QED
      BY <1>5, <1>10, <2>1 DEF QuietTurn
  <1> QED
    BY <1>6, <1>7, <1>8, <1>9, <1>10 DEF Turns

\* Before maturity, where there is no shortfall, the escrow could settle.
LEMMA SettledAtMaturity ==
    ASSUME ExactReciprocals, IInv, CountsInv, ClaimsInv, RatesRise,
           ~IsExpired(now), Shortfall = 0
    PROVE  Settled(vault, position)
  <1> DEFINE final == vault.final_sy_exchange_rate
             held == vault.total_sy_in_escrow
             c == Counted(vault)
             owed == Owed(vault, position)
             yt == OwedYt(position)
             py == vault.pt_supply
             gain == Gain(final, position)
  <1>1. /\ owed \in Nat /\ yt \in Nat /\ c \in Nat
        /\ owed = yt + c * ONE /\ c * ONE \in Nat
        /\ held * ONE \in Nat /\ held \in Nat
        /\ final \in Nat /\ py \in Nat
        /\ vault.last_seen_sy_exchange_rate = final
    BY OwedTypes, TypeParts DEF IInv, ClaimsInv, RateTracking
  <1>2. owed <= held * ONE
    BY <1>1 DEF Shortfall
  <1>3. \A h \in Holders : /\ position[h] \in YieldTokenPosition
                           /\ position[h].yt_balance \in Nat
                           /\ position[h].interest.last_seen_index \in Nat
                           /\ position[h].interest.last_seen_index <= final
                           /\ position[h].yt_balance > 0 =>
                                position[h].interest.last_seen_index > 0
    BY TypeParts DEF IInv, ClaimsInv, IndexesInOrder, RatesRise
  <1>4. gain \in Nat /\ \A h \in Holders : GainOf(final, position[h]) \in Nat
    BY <1>1, <1>3, GainTypes
  <1>5. Settled(vault, position) <=>
            /\ c <= held
            /\ py * ONE * ONE + final * gain + c * final * ONE
                 <= held * final * ONE
    BY <1>1 DEF Settled, Counted
  <1>6. c <= held
    <2> HIDE DEF owed, c, held, yt
    <2>1. ONE * c = c * ONE /\ ONE * held = held * ONE
      BY <1>1, OneAssumption, SMT
    <2>2. ONE * c <= ONE * held
      BY <1>1, <1>2, <2>1
    <2> QED
      BY <1>1, <2>2, OneAssumption, MulCancel
  <1>7. py * ONE * ONE + final * gain <= final * yt
    <2>1. CASE final = 0
      <3>1. py = 0
        BY <1>1, <2>1 DEF IInv, RateTracking
      <3> HIDE DEF py, final, gain, yt
      <3>2. 0 * ONE * ONE = 0 /\ 0 * gain = 0 /\ 0 * yt = 0
        BY <1>1, <1>4, OneAssumption, SMT
      <3> QED
        BY <2>1, <3>1, <3>2
    <2>2. CASE final > 0
      <3> DEFINE recip == NumDiv(ONE, final)
                 g == [h \in Holders |-> GainOf(final, position[h])]
                 b == [h \in Holders |-> position[h].yt_balance]
                 o == [h \in Holders |-> OwedTo(position[h])]
                 all == SumOver(b, Holders)
      <3>1. final \in Rates /\ final \in Nat \ {0}
        BY <1>1, <2>2 DEF ClaimsInv, RatesSeen
      <3>2. recip \in Nat /\ recip * final = ONE * ONE
        BY <3>1, OneAssumption, NumDivBounds DEF ExactReciprocals
      <3>3. \A h \in Holders : /\ g[h] = GainOf(final, position[h])
                               /\ b[h] = position[h].yt_balance
                               /\ o[h] = OwedTo(position[h])
        OBVIOUS
      <3>4. /\ gain = SumOver(g, Holders) /\ yt = SumOver(o, Holders)
            /\ py <= all /\ all \in Nat
        BY HeldYt DEF Gain, OwedYt
      <3>5. ASSUME NEW h \in Holders
            PROVE  OwedTo(position[h])
                     = GainOf(final, position[h])
                         + recip * position[h].yt_balance
        <4> DEFINE n == position[h].yt_balance
                   last == position[h].interest.last_seen_index
        <4>1. CASE n = 0
          <5>1. OwedTo(position[h]) = 0 /\ GainOf(final, position[h]) = 0
            BY <4>1 DEF OwedTo, GainOf
          <5>2. recip * 0 = 0
            BY <3>2, SMT
          <5> QED
            BY <4>1, <5>1, <5>2
        <4>2. CASE n # 0
          <5>1. last \in Nat \ {0} /\ last <= final /\ last > 0 /\ n \in Nat
            BY <1>3, <4>2
          <5> DEFINE d == NumDiv(ONE, last) - NumDiv(ONE, final)
          <5>2. d \in Nat /\ NumDiv(ONE, last) = recip + d
            <6>1. d \in Nat
              BY <1>1, <5>1, OneAssumption, EarnedWithinGain
            <6>2. NumDiv(ONE, last) \in Nat
              BY <5>1, OneAssumption, NumDivBounds
            <6> QED
              BY <3>2, <6>1, <6>2
          <5>3. OwedTo(position[h]) = n * NumDiv(ONE, last)
            BY <4>2 DEF OwedTo, UpperReciprocal
          <5>4. GainOf(final, position[h]) = n * d
            BY <1>1, <1>3, <5>1, GainOfFacts
          <5> HIDE DEF n, d, recip
          <5>5. n * (recip + d) = n * d + recip * n
            BY <3>2, <5>1, <5>2, SMT
          <5> QED
            BY <5>2, <5>3, <5>4, <5>5 DEF n
        <4> QED
          BY <4>1, <4>2
      <3> HIDE DEF recip, g, b, o, all
      <3> HIDE DEF final, py, gain, yt
      <3>6. \A x \in Holders : /\ g[x] \in Nat /\ b[x] \in Nat
                               /\ o[x] = g[x] + recip * b[x]
        BY <1>3, <1>4, <3>3, <3>5
      <3>7. SumOver(o, Holders)
              = SumOver(g, Holders) + recip * SumOver(b, Holders)
        <4>1. IsFiniteSet(Holders)
          BY HoldersFacts
        <4>2. recip \in Nat
          BY <3>2
        <4> HIDE DEF recip, g, b, o
        <4> QED
          BY ONLY <3>6, <4>1, <4>2, SumLinear, Z3
      <3>8. yt = gain + recip * all
        BY <3>4, <3>7 DEF all
      <3>9. /\ final * (gain + recip * all) = final * gain + recip * final * all
            /\ final * gain \in Nat /\ recip * final * all \in Nat
            /\ py * ONE * ONE = (ONE * ONE) * py
            /\ (ONE * ONE) * py \in Nat /\ ONE * ONE \in Nat
        BY <1>1, <1>4, <3>2, <3>4, OneAssumption, SMT
      <3>10. (ONE * ONE) * py <= (ONE * ONE) * all
        BY <1>1, <3>4, <3>9, MulMonotone
      <3>11. recip * final * all = (ONE * ONE) * all
        BY <3>2
      <3> QED
        BY <3>8, <3>9, <3>10, <3>11
    <2> QED
      BY <1>1, <2>1, <2>2
  <1>8. final * yt + c * final * ONE <= held * final * ONE
    <2> HIDE DEF final, yt, c, held, owed
    <2>1. /\ final * (yt + c * ONE) = final * yt + c * final * ONE
          /\ final * (held * ONE) = held * final * ONE
      BY <1>1, OneAssumption, SMT
    <2>2. final * owed <= final * (held * ONE)
      BY <1>1, <1>2, MulMonotone
    <2> QED
      BY <1>1, <2>1, <2>2
  <1> HIDE DEF final, yt, c, held, owed, py, gain
  <1>9. /\ py * ONE * ONE + final * gain \in Nat /\ final * yt \in Nat
        /\ c * final * ONE \in Nat /\ held * final * ONE \in Nat
    BY <1>1, <1>4, OneAssumption, SMT
  <1>10. py * ONE * ONE + final * gain + c * final * ONE <= held * final * ONE
    BY <1>7, <1>8, <1>9
  <1> QED
    BY <1>5, <1>6, <1>10


\* What an update does to the terms of settlement.
LEMMA SettlingUpdate ==
    ASSUME RatiosRoundDown, IInv, IInv', ClaimsInv, RatesRise, RatesRise',
           IsExpired(now), Settled(vault, position),
           NEW earned, Updates(earned)
    PROVE  LET final   == vault.final_sy_exchange_rate
               rate    == sy.exchange_rate
               surplus == SySurplus(vault, rate, now)
               left    == ActiveSy(vault) - surplus
           IN  /\ final \in Nat /\ rate \in Nat \ {0}
               /\ vault'.final_sy_exchange_rate = final
               /\ vault'.last_seen_sy_exchange_rate = rate
               /\ surplus \in Nat /\ left \in Nat
               /\ vault.total_sy_in_escrow = Counted(vault) + surplus + left
               /\ Counted(vault) \in Nat
               /\ Gain(final, position) \in Nat
               /\ vault.pt_supply * ONE * ONE + final * Gain(final, position)
                    <= left * rate * ONE
               /\ \A h \in Holders :
                    /\ EarnedSy(UpdatedVault, position[h]) \in Nat
                    /\ GainOf(final, position[h]) \in Nat
                    /\ EarnedSy(UpdatedVault, position[h]) * rate * ONE
                         <= final * GainOf(final, position[h])
                    /\ EarnedIndex(UpdatedVault, h) = final
                    /\ GainOf(final, position'[h]) \in Nat
                    /\ Index(h)' = final => GainOf(final, position'[h]) = 0
  <1> DEFINE final == vault.final_sy_exchange_rate
             rate == sy.exchange_rate
             last == vault.last_seen_sy_exchange_rate
             surplus == SySurplus(vault, rate, now)
             active == ActiveSy(vault)
             left == active - surplus
             c == Counted(vault)
             held == vault.total_sy_in_escrow
             gain == Gain(final, position)
             owed == vault.pt_supply * ONE * ONE + final * gain
  <1>1. /\ TypeOK /\ TypeOK' /\ vault \in VaultAccount /\ vault' \in VaultAccount
        /\ final \in Nat /\ last \in Nat /\ active \in Nat /\ c \in Nat
        /\ held \in Nat /\ vault.pt_supply \in Nat
    BY TypeParts, ActiveIs DEF IInv, TypeOK
  <1>2. /\ rate \in Rates /\ rate \in Nat \ {0}
        /\ vault'.last_seen_sy_exchange_rate = rate
        /\ vault'.final_sy_exchange_rate = final
        /\ UpdatedVault.final_sy_exchange_rate = final
        /\ UpdatedVault.last_seen_sy_exchange_rate = rate
        /\ UpdatedVault \in VaultAccount
    BY UpdatedRates DEF IsActive
  <1>3. /\ ~InEmergency(UpdatedVault)
        /\ final <= rate /\ last <= rate
        /\ vault.all_time_high_sy_exchange_rate = last
    BY <1>2, RisingUpdate
  <1>4. \A h \in Holders :
          /\ position[h] \in YieldTokenPosition
          /\ position[h].interest.last_seen_index <= final
          /\ position'[h] \in YieldTokenPosition
          /\ position'[h].interest.last_seen_index <= final
    <2>1. \A h \in Holders : position'[h].interest.last_seen_index
                               <= vault'.final_sy_exchange_rate
      BY DEF RatesRise
    <2> QED
      BY <1>1, <1>2, <2>1, TypeParts DEF RatesRise, TypeOK
  <1>5. gain \in Nat
    BY <1>1, <1>4, GainTypes
  <1>6. c <= held /\ owed <= active * last * ONE
    BY <1>1, <1>5, SettledIs
  <1>7. active = held - c
    BY <1>1, <1>6, ActiveIs
  <1>8. /\ surplus \in Nat /\ surplus <= active
        /\ active * last <= left * rate
    <2>1. surplus = IF rate > last
                    THEN CalcSyAppreciation(last, rate, active) ELSE 0
      BY <1>3 DEF SySurplus
    <2> HIDE DEF surplus, active, last, rate
    <2>2. rate \in Nat /\ last <= rate /\ last \in Nat /\ active \in Nat
      BY <1>1, <1>2, <1>3
    <2>3. /\ surplus \in Nat /\ surplus <= active
          /\ active * last <= (active - surplus) * rate
      BY ONLY <2>1, <2>2, SurplusLeavesWorth
    <2> QED
      BY <2>3
  <1>9. left \in Nat /\ held = c + surplus + left
    BY <1>1, <1>6, <1>7, <1>8
  <1>10. owed <= left * rate * ONE
    <2> HIDE DEF owed, left, rate, active, last
    <2>1. /\ ONE * (active * last) = active * last * ONE
          /\ ONE * (left * rate) = left * rate * ONE
          /\ active * last \in Nat /\ left * rate \in Nat
          /\ left * rate * ONE \in Nat /\ active * last * ONE \in Nat
      BY <1>1, <1>2, <1>9, OneAssumption, SMT
    <2>2. ONE * (active * last) <= ONE * (left * rate)
      BY <1>8, <2>1, OneAssumption, MulMonotone
    <2>3. owed \in Nat
      BY <1>1, <1>5, OneAssumption, SMT DEF owed
    <2> QED
      BY <1>6, <2>1, <2>2, <2>3
  <1>11. ASSUME NEW h \in Holders
         PROVE  /\ EarnedSy(UpdatedVault, position[h]) \in Nat
                /\ GainOf(final, position[h]) \in Nat
                /\ EarnedSy(UpdatedVault, position[h]) * rate * ONE
                     <= final * GainOf(final, position[h])
                /\ EarnedIndex(UpdatedVault, h) = final
                /\ GainOf(final, position'[h]) \in Nat
                /\ Index(h)' = final => GainOf(final, position'[h]) = 0
    <2>1. final \in Rates \cup {0}
      BY DEF ClaimsInv, RatesSeen
    <2>2. /\ EarnedSy(UpdatedVault, position[h]) \in Nat
          /\ EarnedSy(UpdatedVault, position[h]) * rate * ONE
               <= final * GainOf(final, position[h])
      BY <1>2, <1>3, <1>4, <2>1, StagedWithinGain
    <2>3. EarnedIndex(UpdatedVault, h) = final
      BY <1>2, <1>3 DEF EarnedIndex
    <2>4. GainOf(final, position[h]) \in Nat
      BY <1>1, <1>4, GainOfFacts
    <2>5. /\ GainOf(final, position'[h]) \in Nat
          /\ Index(h)' = final => GainOf(final, position'[h]) = 0
      BY <1>1, <1>4, GainOfFacts DEF Index
    <2> QED
      BY <2>2, <2>3, <2>4, <2>5
  <1> QED
    BY <1>1, <1>2, <1>5, <1>8, <1>9, <1>10, <1>11

LEMMA SameGain ==
    ASSUME NEW final, NEW h \in Holders, SameClaim(h)
    PROVE  GainOf(final, position'[h]) = GainOf(final, position[h])
  BY DEF SameClaim, Balance, Index, GainOf

LEMMA SettledMerge ==
    ASSUME RatiosRoundDown, IInv, IInv', ClaimsInv, RatesRise, RatesRise',
           IsExpired(now), Settled(vault, position),
           NEW py \in Nat, NEW paid \in Nat, MergeTurn(py, paid)
    PROVE  Settled(vault', position')
  <1> DEFINE final == vault.final_sy_exchange_rate
             rate == sy.exchange_rate
             surplus == SySurplus(vault, rate, now)
             left == ActiveSy(vault) - surplus
             e == EarnedSy(UpdatedVault, position[Robot])
             gr == GainOf(final, position[Robot])
             gain == Gain(final, position)
             gain2 == Gain(final, position')
             c == Counted(vault)
             c2 == Counted(vault')
             held == vault.total_sy_in_escrow
             rest == vault.pt_supply - py
  <1>1. /\ Updates(0)
        /\ paid * rate <= py * ONE
        /\ paid <= held /\ py <= vault.pt_supply
        /\ vault'.total_sy_in_escrow = held - paid
        /\ vault'.pt_supply = rest
        /\ \A u \in Users : SameClaim(u)
        /\ Index(Robot)' = EarnedIndex(UpdatedVault, Robot)
        /\ c2 = c + surplus + e + 0
    BY DEF MergeTurn, Updates
  <1>2. /\ final \in Nat /\ rate \in Nat \ {0}
        /\ vault'.final_sy_exchange_rate = final
        /\ vault'.last_seen_sy_exchange_rate = rate
        /\ surplus \in Nat /\ left \in Nat /\ c \in Nat
        /\ held = c + surplus + left
        /\ gain \in Nat
        /\ vault.pt_supply * ONE * ONE + final * gain <= left * rate * ONE
        /\ e \in Nat /\ gr \in Nat /\ e * rate * ONE <= final * gr
        /\ Index(Robot)' = final
        /\ \A h \in Holders : /\ GainOf(final, position[h]) \in Nat
                              /\ GainOf(final, position'[h]) \in Nat
        /\ GainOf(final, position'[Robot]) = 0
    BY <1>1, HoldersFacts, SettlingUpdate
  <1>3. \A h \in Holders \ {Robot} :
           GainOf(final, position'[h]) = GainOf(final, position[h])
    BY <1>1, SameGain DEF Holders
  <1>4. gain2 \in Nat /\ gain2 + gr = gain
    BY <1>2, <1>3, HoldersFacts, GainTaken
  <1>5. rest \in Nat /\ vault.pt_supply = py + rest /\ vault' \in VaultAccount
    <2>1. TypeOK /\ TypeOK' /\ vault' \in VaultAccount
      BY TypeParts DEF IInv, TypeOK
    <2>2. vault.pt_supply \in Nat
      BY <2>1, TypeParts
    <2> QED
      BY ONLY <1>1, <2>1, <2>2, py \in Nat
  <1>6. /\ e + paid <= left
        /\ rest * ONE * ONE + final * gain2 <= (left - (e + paid)) * rate * ONE
    <2> HIDE DEF final, rate, left, e, gr, gain, gain2, rest
    <2>1. /\ final * (gain2 + gr) = final * gain2 + final * gr
          /\ final * gain2 \in Nat /\ final * gr \in Nat /\ final * gain \in Nat
          /\ e * rate * ONE \in Nat
      BY <1>2, <1>4, OneAssumption, SMT
    <2>2. final * gain2 + e * rate * ONE <= final * gain
      BY <1>2, <1>4, <2>1
    <2> DEFINE fg == final * gain
               fg2 == final * gain2
               pt == vault.pt_supply
    <2>3. /\ Backs(left, rate, pt, fg)
          /\ Takes(fg, fg2, rate, e)
          /\ fg \in Nat /\ fg2 \in Nat
      BY <1>2, <2>1, <2>2 DEF Backs, Takes
    <2>4. paid * rate <= py * ONE
      BY <1>1 DEF rate
    <2>5. /\ pt \in Nat /\ rest \in Nat /\ pt = py + rest /\ py \in Nat
          /\ left \in Nat /\ rate \in Nat \ {0} /\ e \in Nat /\ paid \in Nat
      BY <1>2, <1>5
    <2> HIDE DEF fg, fg2, pt
    <2>6. e + paid <= left /\ Backs(left - (e + paid), rate, rest, fg2)
      BY ONLY <2>3, <2>4, <2>5, RestIsWorth
    <2> QED
      BY <2>6 DEF Backs, fg2
  <1> DEFINE kept == left - (e + paid)
  <1>7. /\ c2 <= vault'.total_sy_in_escrow
        /\ vault'.total_sy_in_escrow - c2 = kept
        /\ c2 \in Nat /\ vault'.total_sy_in_escrow \in Nat
    <2> HIDE DEF c2, c, held, e, left, surplus
    <2> QED
      BY <1>1, <1>2, <1>6
  <1>8. ActiveSy(vault') = kept
    BY <1>5, <1>7, ActiveIs
  <1> QED
    BY <1>1, <1>2, <1>4, <1>5, <1>6, <1>7, <1>8, SettledIs

LEMMA SettledUser ==
    ASSUME RatiosRoundDown, IInv, IInv', ClaimsInv, RatesRise, RatesRise',
           IsExpired(now), Settled(vault, position),
           NEW user \in Users, UserTurn(user)
    PROVE  Settled(vault', position')
  <1> DEFINE final == vault.final_sy_exchange_rate
             rate == sy.exchange_rate
             surplus == SySurplus(vault, rate, now)
             left == ActiveSy(vault) - surplus
             er == EarnedSy(UpdatedVault, position[Robot])
             eu == EarnedSy(UpdatedVault, position[user])
             gr == GainOf(final, position[Robot])
             gu == GainOf(final, position[user])
             gain == Gain(final, position)
             gain2 == Gain(final, position')
             c == Counted(vault)
             c2 == Counted(vault')
             held == vault.total_sy_in_escrow
             pt == vault.pt_supply
  <1>1. /\ Updates(eu)
        /\ vault'.total_sy_in_escrow = held
        /\ vault'.pt_supply = pt
        /\ \A u \in Users \ {user} : SameClaim(u)
        /\ Index(Robot)' = EarnedIndex(UpdatedVault, Robot)
        /\ Index(user)' = EarnedIndex(UpdatedVault, user)
        /\ c2 = c + surplus + er + eu
    BY DEF UserTurn, Updates
  <1>2. user \in Holders /\ Robot \in Holders /\ user # Robot
    BY HoldersFacts
  <1>3. /\ final \in Nat /\ rate \in Nat \ {0}
        /\ vault'.final_sy_exchange_rate = final
        /\ vault'.last_seen_sy_exchange_rate = rate
        /\ surplus \in Nat /\ left \in Nat /\ c \in Nat
        /\ held = c + surplus + left
        /\ gain \in Nat
        /\ pt * ONE * ONE + final * gain <= left * rate * ONE
        /\ er \in Nat /\ gr \in Nat /\ er * rate * ONE <= final * gr
        /\ eu \in Nat /\ gu \in Nat /\ eu * rate * ONE <= final * gu
        /\ \A h \in Holders : /\ GainOf(final, position[h]) \in Nat
                              /\ GainOf(final, position'[h]) \in Nat
        /\ GainOf(final, position'[Robot]) = 0
        /\ GainOf(final, position'[user]) = 0
    BY <1>1, <1>2, SettlingUpdate
  <1>4. \A h \in Holders \ {user, Robot} :
           GainOf(final, position'[h]) = GainOf(final, position[h])
    BY <1>1, SameGain DEF Holders
  <1>5. gain2 \in Nat /\ gain2 + gu + gr = gain
    <2>1. /\ final \in Nat /\ user \in Holders /\ Robot \in Holders
          /\ user # Robot
      BY <1>2, <1>3
    <2>2. /\ \A h \in Holders : /\ GainOf(final, position[h]) \in Nat
                                /\ GainOf(final, position'[h]) \in Nat
          /\ \A h \in Holders \ {user, Robot} :
               GainOf(final, position'[h]) = GainOf(final, position[h])
          /\ GainOf(final, position'[user]) = 0
          /\ GainOf(final, position'[Robot]) = 0
      BY <1>3, <1>4
    <2> HIDE DEF final
    <2>3. /\ Gain(final, position') \in Nat
          /\ Gain(final, position') + GainOf(final, position[user])
                + GainOf(final, position[Robot]) = Gain(final, position)
      BY ONLY <2>1, <2>2, GainsTaken
    <2> QED
      BY <2>3
  <1>6. pt \in Nat /\ vault' \in VaultAccount
    BY TypeParts DEF IInv, TypeOK
  <1>7. /\ er + eu <= left
        /\ pt * ONE * ONE + final * gain2 <= (left - (er + eu)) * rate * ONE
    <2> HIDE DEF final, rate, left, er, eu, gr, gu, gain, gain2, pt
    <2> DEFINE fg == final * gain
               fg2 == final * gain2
               e == er + eu
    <2>1. /\ final * (gain2 + gu + gr) = final * gain2 + final * gu + final * gr
          /\ final * gain2 \in Nat /\ final * gr \in Nat /\ final * gain \in Nat
          /\ final * gu \in Nat
          /\ er * rate * ONE \in Nat /\ eu * rate * ONE \in Nat
          /\ e * rate * ONE = er * rate * ONE + eu * rate * ONE
      BY <1>3, <1>5, OneAssumption, SMT
    <2>2. final * gain2 + e * rate * ONE <= final * gain
      BY <1>3, <1>5, <2>1
    <2>3. e \in Nat
      BY <1>3
    <2>4. /\ Backs(left, rate, pt, fg)
          /\ Takes(fg, fg2, rate, e)
          /\ fg \in Nat /\ fg2 \in Nat
      BY <1>3, <2>1, <2>2 DEF Backs, Takes
    <2>5. 0 * rate <= 0 * ONE
      BY <1>3, OneAssumption, SMT
    <2>6. /\ pt \in Nat /\ pt = 0 + pt /\ 0 \in Nat
          /\ left \in Nat /\ rate \in Nat \ {0}
      BY <1>3, <1>6
    <2> HIDE DEF fg, fg2, e
    <2>7. e + 0 <= left /\ Backs(left - (e + 0), rate, pt, fg2)
      BY ONLY <2>3, <2>4, <2>5, <2>6, RestIsWorth
    <2>8. e + 0 = e
      BY <2>3
    <2> QED
      BY <2>7, <2>8 DEF Backs, e, fg2
  <1> DEFINE kept == left - (er + eu)
  <1>8. /\ c2 <= vault'.total_sy_in_escrow
        /\ vault'.total_sy_in_escrow - c2 = kept
        /\ c2 \in Nat /\ vault'.total_sy_in_escrow \in Nat
    <2> HIDE DEF c2, c, held, er, eu, left, surplus
    <2> QED
      BY <1>1, <1>3, <1>7
  <1>9. ActiveSy(vault') = kept
    BY <1>6, <1>8, ActiveIs
  <1> QED
    BY <1>1, <1>3, <1>5, <1>6, <1>7, <1>8, <1>9, SettledIs


LEMMA SettledClaim ==
    ASSUME RatiosRoundDown, IInv, IInv', ClaimsInv, RatesRise, RatesRise',
           Settled(vault, position),
           NEW user \in Users, NEW paid \in Nat, ClaimTurn(user, paid)
    PROVE  Settled(vault', position')
  <1> DEFINE final == vault.final_sy_exchange_rate
             last == vault.last_seen_sy_exchange_rate
             active == ActiveSy(vault)
             e == EarnedSy(vault, position[user])
             gu == GainOf(final, position[user])
             gain == Gain(final, position)
             gain2 == Gain(final, position')
             c == Counted(vault)
             c2 == Counted(vault')
             held == vault.total_sy_in_escrow
             held2 == vault'.total_sy_in_escrow
             pt == vault.pt_supply
  <1>1. /\ SameBacking /\ ~InEmergency(vault)
        /\ paid <= held /\ paid <= c + e
        /\ held2 = held - paid
        /\ c2 = (c + e) - paid
        /\ Index(user)' = final
        /\ \A h \in Holders \ {user} : SameClaim(h)
    BY DEF ClaimTurn, EarnedIndex, RatesRise
  <1>2. /\ TypeOK /\ TypeOK' /\ vault \in VaultAccount /\ vault' \in VaultAccount
        /\ user \in Holders /\ pt \in Nat
        /\ final \in Nat /\ last \in Nat /\ active \in Nat /\ c \in Nat
        /\ held \in Nat
        /\ vault.all_time_high_sy_exchange_rate \in Nat
    BY TypeParts, ActiveIs, HoldersFacts DEF IInv, TypeOK
  <1>3. /\ vault'.final_sy_exchange_rate = final
        /\ vault'.last_seen_sy_exchange_rate = last
        /\ vault'.pt_supply = pt
    BY <1>1 DEF SameBacking, SameRates
  <1>4. /\ vault.all_time_high_sy_exchange_rate = last
        /\ final <= last
    BY <1>1, <1>2 DEF InEmergency, IInv, RateOrder
  <1>5. \A h \in Holders :
          /\ position[h] \in YieldTokenPosition
          /\ position[h].interest.last_seen_index <= final
          /\ position'[h] \in YieldTokenPosition
          /\ position'[h].interest.last_seen_index <= final
    <2>1. \A h \in Holders : position'[h].interest.last_seen_index <= final
      BY <1>3 DEF RatesRise
    <2> QED
      BY <1>2, <2>1, TypeParts DEF RatesRise, TypeOK
  <1>6. /\ \A h \in Holders : /\ GainOf(final, position[h]) \in Nat
                              /\ GainOf(final, position'[h]) \in Nat
        /\ GainOf(final, position'[user]) = 0
        /\ \A h \in Holders \ {user} :
              GainOf(final, position'[h]) = GainOf(final, position[h])
    <2>1. GainOf(final, position'[user]) = 0
      BY <1>1, <1>2, <1>5, GainOfFacts DEF Index
    <2>2. \A h \in Holders \ {user} :
              GainOf(final, position'[h]) = GainOf(final, position[h])
      BY <1>1, SameGain
    <2>3. \A h \in Holders : /\ GainOf(final, position[h]) \in Nat
                             /\ GainOf(final, position'[h]) \in Nat
      BY <1>2, <1>5, GainOfFacts
    <2> QED
      BY <2>1, <2>2, <2>3
  <1>7. gain2 \in Nat /\ gain \in Nat /\ gain2 + gu = gain
    <2> HIDE DEF final
    <2>1. final \in Nat /\ user \in Holders
      BY <1>2
    <2>2. /\ Gain(final, position') \in Nat /\ Gain(final, position) \in Nat
          /\ Gain(final, position') + GainOf(final, position[user])
               = Gain(final, position)
      BY ONLY <1>6, <2>1, GainTaken
    <2> QED
      BY <2>2
  <1>8. /\ e \in Nat /\ gu \in Nat
        /\ e * last * ONE <= final * gu
    <2>1. final \in Rates \cup {0} /\ last \in Rates \cup {0}
      BY DEF ClaimsInv, RatesSeen
    <2> QED
      BY <1>2, <1>4, <1>5, <2>1, StagedWithinGain
  <1>9. /\ c <= held
        /\ pt * ONE * ONE + final * gain <= active * last * ONE
    BY <1>2, <1>7, SettledIs
  <1>10. active = held - c
    BY <1>2, <1>9, ActiveIs
  <1>11. /\ e <= active
         /\ pt * ONE * ONE + final * gain2 <= (active - e) * last * ONE
    <2>1. CASE last = 0
      <3>1. e = 0
        BY <1>2, <2>1, NothingEarned
      <3>2. final = 0
        BY <1>2, <1>4, <2>1
      <3>3. 0 * gain2 = 0 /\ 0 * gain = 0 /\ active - 0 = active
        BY <1>2, <1>7, SMT
      <3> HIDE DEF final, last, gain, gain2, active, pt, e
      <3> QED
        BY <1>2, <1>9, <3>1, <3>2, <3>3
    <2>2. CASE last # 0
      <3> DEFINE fg == final * gain
                 fg2 == final * gain2
      <3> HIDE DEF final, last, gain, gain2, active, pt, e, gu
      <3>1. /\ final * (gain2 + gu) = final * gain2 + final * gu
            /\ final * gain2 \in Nat /\ final * gu \in Nat /\ final * gain \in Nat
            /\ e * last * ONE \in Nat
        BY <1>2, <1>7, <1>8, OneAssumption, SMT
      <3>2. final * gain2 + e * last * ONE <= final * gain
        BY <1>7, <1>8, <3>1
      <3>3. /\ Backs(active, last, pt, fg) /\ Takes(fg, fg2, last, e)
            /\ fg \in Nat /\ fg2 \in Nat
        BY <1>9, <3>1, <3>2 DEF Backs, Takes
      <3>4. 0 * last <= 0 * ONE
        BY <1>2, OneAssumption, SMT
      <3>5. /\ pt \in Nat /\ pt = 0 + pt /\ 0 \in Nat /\ active \in Nat
            /\ last \in Nat \ {0} /\ e \in Nat
        BY <1>2, <1>8, <2>2
      <3> HIDE DEF fg, fg2
      <3>6. e + 0 <= active /\ Backs(active - (e + 0), last, pt, fg2)
        BY ONLY <3>3, <3>4, <3>5, RestIsWorth
      <3>7. e + 0 = e
        BY <3>5
      <3> QED
        BY <3>6, <3>7 DEF Backs, fg2
    <2> QED
      BY <2>1, <2>2
  <1> DEFINE kept == active - e
  <1>12. c2 <= held2 /\ held2 - c2 = kept /\ c2 \in Nat /\ held2 \in Nat
    <2> HIDE DEF c2, c, held, held2, e, active
    <2> QED
      BY <1>1, <1>2, <1>8, <1>9, <1>10, <1>11
  <1>13. ActiveSy(vault') = kept
    BY <1>2, <1>12, ActiveIs
  <1> QED
    BY <1>2, <1>3, <1>7, <1>11, <1>12, <1>13, SettledIs

LEMMA SettledQuiet ==
    ASSUME IInv, IInv', RatesRise, Settled(vault, position),
           NEW paid \in Nat, QuietTurn(paid)
    PROVE  Settled(vault', position')
  <1> DEFINE final == vault.final_sy_exchange_rate
             gain == Gain(final, position)
  <1>1. /\ SameBacking
        /\ paid <= vault.total_sy_in_escrow /\ paid <= Counted(vault)
        /\ vault'.total_sy_in_escrow = vault.total_sy_in_escrow - paid
        /\ Counted(vault') = Counted(vault) - paid
        /\ \A h \in Holders : SameClaim(h)
    BY DEF QuietTurn
  <1>2. /\ TypeOK /\ vault \in VaultAccount /\ vault' \in VaultAccount
        /\ final \in Nat
        /\ vault.total_sy_in_escrow \in Nat /\ Counted(vault) \in Nat
    BY TypeParts, ActiveIs DEF IInv, TypeOK
  <1>3. /\ vault'.final_sy_exchange_rate = final
        /\ vault'.last_seen_sy_exchange_rate = vault.last_seen_sy_exchange_rate
        /\ vault'.pt_supply = vault.pt_supply
    BY <1>1 DEF SameBacking, SameRates
  <1>4. gain \in Nat
    <2>1. \A h \in Holders : /\ position[h] \in YieldTokenPosition
                             /\ position[h].interest.last_seen_index <= final
      BY <1>2, TypeParts DEF RatesRise
    <2> QED
      BY <1>2, <2>1, GainTypes
  <1>5. Gain(final, position') = gain
    <2>1. \A h \in Holders :
            GainOf(final, position'[h]) = GainOf(final, position[h])
      BY <1>1, SameGain
    <2> HIDE DEF final
    <2> QED
      BY <2>1, SumSame DEF Gain
  <1>6. ActiveSy(vault') = ActiveSy(vault)
    BY <1>1, <1>2, ActiveKept
  <1>7. Counted(vault) <= vault.total_sy_in_escrow
        => Counted(vault') <= vault'.total_sy_in_escrow
    BY <1>1, <1>2
  <1> QED
    BY <1>2, <1>3, <1>4, <1>5, <1>6, <1>7, SettledIs


\* A step that maturity has passed keeps the escrow able to settle.
LEMMA SettledStep ==
    ASSUME RatiosRoundDown, IInv, IInv', ClaimsInv, RatesRise, RatesRise',
           IsExpired(now), Settled(vault, position), Turns
    PROVE  Settled(vault', position')
  <1>1. ASSUME NEW amount \in Nat, StripTurn(amount)
        PROVE  FALSE
    BY <1>1 DEF StripTurn, IsActive
  <1>2. ASSUME NEW paid \in Nat, QuietTurn(paid)
        PROVE  Settled(vault', position')
    BY <1>2, SettledQuiet
  <1>3. ASSUME NEW py \in Nat, NEW paid \in Nat, MergeTurn(py, paid)
        PROVE  Settled(vault', position')
    BY <1>3, SettledMerge
  <1>4. ASSUME NEW user \in Users, UserTurn(user)
        PROVE  Settled(vault', position')
    BY <1>4, SettledUser
  <1>5. ASSUME NEW user \in Users, NEW paid \in Nat, ClaimTurn(user, paid)
        PROVE  Settled(vault', position')
    BY <1>5, SettledClaim
  <1> QED
    BY <1>1, <1>2, <1>3, <1>4, <1>5 DEF Turns

LEMMA SettlementStep ==
    ASSUME ExactReciprocals, RatiosRoundDown, ~MayDepreciate,
           IInv, IInv', CountsInv, ClaimsInv, ClaimsInv', SettlementInv,
           [Next]_vars
    PROVE  SettlementInv'
  <1>1. Turns
    BY StepTurns DEF IInv, CountsInv
  <1>2. RatesRise /\ RatesRise'
    BY <1>1, RatesRiseStep DEF SettlementInv
  <1>3. ASSUME ~IsExpired(now')
        PROVE  Shortfall' = 0
    <2>1. NoShortfall
      BY DEF SettlementInv, NoShortfall
    <2>2. NoShortfall'
      BY <2>1, NoShortfallStep
    <2> QED
      BY <1>3, <2>2 DEF NoShortfall, IsExpired
  <1>4. ASSUME IsExpired(now')
        PROVE  Settled(vault', position')
    <2>1. CASE IsExpired(now)
      <3>1. Settled(vault, position)
        BY <2>1 DEF SettlementInv
      <3> QED
        BY <1>1, <1>2, <2>1, <3>1, SettledStep
    <2>2. CASE ~IsExpired(now)
      <3>1. Settled(vault, position)
        BY <1>2, <2>2, SettledAtMaturity DEF SettlementInv
      <3>2. now' # now
        BY <1>4, <2>2 DEF IsExpired
      <3>3. \E paid \in Nat : QuietTurn(paid)
        BY <1>1, <3>2
           DEF Turns, StripTurn, MergeTurn, UserTurn, ClaimTurn, Updates
      <3> QED
        BY <1>2, <3>1, <3>3, SettledQuiet
    <2> QED
      BY <2>1, <2>2
  <1> QED
    BY <1>2, <1>3, <1>4 DEF SettlementInv, IsExpired

LEMMA SettlementInit ==
    ASSUME Init
    PROVE  SettlementInv
  <1>1. RatesRise
    <2>1. /\ vault.last_seen_sy_exchange_rate = 0
          /\ vault.all_time_high_sy_exchange_rate = 0
          /\ vault.final_sy_exchange_rate = 0
          /\ \A h \in Holders : position[h].interest.last_seen_index = 0
      BY DEF Init, NewPosition, NewTracker
    <2>2. sy.exchange_rate \in Nat
      BY SyAssumption DEF Init, SyInit
    <2> QED
      BY <2>1, <2>2 DEF RatesRise, InEmergency
  <1>2. ~IsExpired(now)
    BY VaultAssumption DEF Init, IsExpired
  <1> QED
    BY <1>1, <1>2, ShortfallInit DEF SettlementInv

\* With rates that never fall, exact reciprocals and ratios that round down,
\* the escrow covers until maturity what the positions can take at any later
\* rate, and after it the par of the PT, the gain they have yet to stage and
\* what is set aside (update_from_sy_state, stage_yt_yield, merge).
THEOREM SettlementHolds ==
    ASSUME ExactReciprocals, RatiosRoundDown, ~MayDepreciate
    PROVE  Spec => []SettlementInv
  <1>1. Init => SettlementInv
    BY SettlementInit
  <1>2. ASSUME IInv, IInv', CountsInv, ClaimsInv, ClaimsInv', SettlementInv,
               [Next]_vars
        PROVE  SettlementInv'
    BY <1>2, SettlementStep
  <1> QED
    BY <1>1, <1>2, Invariance, Counts, ClaimsInOrder, PTL DEF Spec


\* The escrow can settle at all times: also before maturity it could.
LEMMA SettledAlways ==
    ASSUME ExactReciprocals, IInv, CountsInv, ClaimsInv, SettlementInv
    PROVE  Settled(vault, position) /\ RatesRise
  <1>1. CASE IsExpired(now)
    BY <1>1 DEF SettlementInv
  <1>2. CASE ~IsExpired(now)
    BY <1>2, SettledAtMaturity DEF SettlementInv
  <1> QED
    BY <1>1, <1>2

\* What positions have yet to stage is within their gain, at the last rate.
LEMMA UnstagedWithinGain ==
    ASSUME RatiosRoundDown, IInv, ClaimsInv, RatesRise
    PROVE  LET final == vault.final_sy_exchange_rate
           IN  /\ Unstaged \in Nat /\ Gain(final, position) \in Nat
               /\ Unstaged * vault.last_seen_sy_exchange_rate * ONE
                    <= final * Gain(final, position)
  <1> DEFINE final == vault.final_sy_exchange_rate
             last == vault.last_seen_sy_exchange_rate
             unit == last * ONE
             zero == [h \in Holders |-> 0]
             e == [h \in Holders |-> EarnedSy(vault, position[h])]
             g == [h \in Holders |-> GainOf(final, position[h])]
             o == [h \in Holders |-> final * GainOf(final, position[h])]
  <1>1. /\ TypeOK /\ vault \in VaultAccount
        /\ final \in Nat /\ last \in Nat
        /\ vault.all_time_high_sy_exchange_rate \in Nat
    BY TypeParts DEF IInv
  <1>2. final <= last
    BY <1>1 DEF RatesRise, InEmergency, IInv, RateOrder
  <1>3. final \in Rates \cup {0} /\ last \in Rates \cup {0}
    BY DEF ClaimsInv, RatesSeen
  <1>4. ASSUME NEW h \in Holders
        PROVE  /\ EarnedSy(vault, position[h]) \in Nat
               /\ GainOf(final, position[h]) \in Nat
               /\ EarnedSy(vault, position[h]) * last * ONE
                    <= final * GainOf(final, position[h])
    <2>1. /\ position[h] \in YieldTokenPosition
          /\ position[h].interest.last_seen_index <= final
      BY <1>1, TypeParts DEF RatesRise
    <2> QED
      BY <1>1, <1>2, <1>3, <2>1, StagedWithinGain
  <1>5. /\ Unstaged = SumOver(e, Holders)
        /\ Gain(final, position) = SumOver(g, Holders)
        /\ \A h \in Holders : /\ zero[h] = 0
                              /\ e[h] = EarnedSy(vault, position[h])
                              /\ g[h] = GainOf(final, position[h])
                              /\ o[h] = final * GainOf(final, position[h])
    BY DEF Unstaged, Gain
  <1>6. unit \in Nat
    BY <1>1, OneAssumption, SMT
  <1> HIDE DEF zero, e, g, o
  <1>7. IsFiniteSet(Holders) /\ 0 \in Nat
    BY HoldersFacts
  <1>8. /\ SumOver(e, Holders) \in Nat /\ SumOver(g, Holders) \in Nat
        /\ SumOver(zero, Holders) = 0
    BY <1>4, <1>5, <1>7, SumFacts, SumZero
  <1> HIDE DEF final, last, unit
  <1>9. \A x \in Holders : /\ zero[x] \in Nat /\ g[x] \in Nat
                           /\ o[x] = zero[x] + final * g[x]
    <2> TAKE x \in Holders
    <2>1. /\ zero[x] = 0 /\ g[x] \in Nat /\ o[x] = final * g[x]
      BY <1>4, <1>5
    <2>2. final * g[x] \in Nat
      BY <1>1, <2>1, SMT
    <2> QED
      BY <2>1, <2>2
  <1>10. SumOver(o, Holders) = final * SumOver(g, Holders)
    <2>1. SumOver(o, Holders)
            = SumOver(zero, Holders) + final * SumOver(g, Holders)
      BY ONLY <1>1, <1>7, <1>9, SumLinear, Z3
    <2>2. final * SumOver(g, Holders) \in Nat
      BY <1>1, <1>8, SMT
    <2> QED
      BY <1>8, <2>1, <2>2
  <1>11. \A x \in Holders : /\ e[x] \in Nat /\ zero[x] \in Nat /\ o[x] \in Nat
                            /\ unit * e[x] + 0 * zero[x] <= o[x]
    <2> TAKE x \in Holders
    <2>1. /\ zero[x] = 0 /\ g[x] \in Nat /\ o[x] = final * g[x]
          /\ e[x] \in Nat /\ e[x] * last * ONE <= o[x]
      BY <1>4, <1>5
    <2>2. /\ final * g[x] \in Nat /\ 0 * 0 = 0
          /\ e[x] * last * ONE = unit * e[x]
          /\ unit * e[x] \in Nat
      BY <1>1, <1>6, <2>1, OneAssumption, SMT DEF unit
    <2>3. unit * e[x] + 0 <= o[x]
      BY <2>1, <2>2
    <2> QED
      BY <2>1, <2>2, <2>3
  <1>12. unit * SumOver(e, Holders) + 0 * SumOver(zero, Holders)
           <= SumOver(o, Holders)
    BY ONLY <1>6, <1>7, <1>11, SumCombined
  <1> DEFINE all == SumOver(e, Holders)
             gain == SumOver(g, Holders)
  <1>13. all * last * ONE <= final * gain
    <2>1. all \in Nat /\ gain \in Nat /\ unit * all + 0 * 0 <= final * gain
      BY <1>8, <1>10, <1>12
    <2> HIDE DEF all, gain
    <2>2. /\ all * last * ONE = unit * all /\ unit * all \in Nat
          /\ final * gain \in Nat /\ 0 * 0 = 0
      BY <1>1, <1>6, <2>1, OneAssumption, SMT DEF unit
    <2> QED
      BY <2>1, <2>2
  <1> QED
    BY <1>5, <1>8, <1>13 DEF final, last


\* Where the escrow can settle, the par of PT is within what is not set aside.
LEMMA ParAtSettlement ==
    ASSUME IInv, Settled(vault, position), RatesRise
    PROVE  ParWithinActive
  <1> DEFINE last == vault.last_seen_sy_exchange_rate
             par == PyToSy(last, vault.pt_supply)
             pt == vault.pt_supply
             active == ActiveSy(vault)
             final == vault.final_sy_exchange_rate
             gain == Gain(final, position)
  <1> SUFFICES ASSUME last > 0 PROVE par <= active
    BY DEF ParWithinActive
  <1>1. /\ TypeOK /\ vault \in VaultAccount /\ pt \in Nat /\ final \in Nat
        /\ last \in Nat \ {0} /\ active \in Nat
    BY TypeParts, ActiveIs DEF IInv
  <1>2. gain \in Nat
    <2>1. \A h \in Holders : /\ position[h] \in YieldTokenPosition
                             /\ position[h].interest.last_seen_index <= final
      BY <1>1, TypeParts DEF RatesRise
    <2> QED
      BY <1>1, <2>1, GainTypes
  <1>3. pt * ONE * ONE + final * gain <= active * last * ONE
    BY <1>1, <1>2, SettledIs
  <1>4. par \in Nat /\ par * last <= pt * ONE
    BY <1>1, PyToSyWithinPar
  <1> HIDE DEF par, last, pt, active, final, gain
  <1> DEFINE unit == last * ONE
  <1>5. /\ ONE * (par * last) = unit * par
        /\ ONE * (pt * ONE) = pt * ONE * ONE
        /\ active * last * ONE = unit * active
        /\ final * gain \in Nat /\ pt * ONE * ONE \in Nat
        /\ unit \in Nat \ {0} /\ par * last \in Nat /\ pt * ONE \in Nat
    BY <1>1, <1>2, <1>4, OneAssumption, SMT
  <1>6. ONE * (par * last) <= ONE * (pt * ONE)
    BY <1>4, <1>5, OneAssumption, MulMonotone
  <1>7. unit * par \in Nat /\ unit * active \in Nat
    BY <1>1, <1>4, OneAssumption, SMT
  <1> HIDE DEF unit
  <1>8. unit * par <= unit * active
    BY <1>3, <1>5, <1>6, <1>7
  <1> QED
    BY <1>1, <1>4, <1>5, <1>8, MulCancel

\* ... and with it all that the positions have yet to stage.
LEMMA CoveredAtSettlement ==
    ASSUME RatiosRoundDown, IInv, ClaimsInv, Settled(vault, position), RatesRise
    PROVE  UnstagedCovered
  <1> DEFINE last == vault.last_seen_sy_exchange_rate
             pt == vault.pt_supply
             active == ActiveSy(vault)
             final == vault.final_sy_exchange_rate
             gain == Gain(final, position)
             backing == vault.sy_for_pt
             held == vault.total_sy_in_escrow
             c == Counted(vault)
  <1>1. /\ TypeOK /\ vault \in VaultAccount /\ pt \in Nat /\ final \in Nat
        /\ last \in Nat /\ active \in Nat /\ backing \in Nat
        /\ held \in Nat /\ c \in Nat
    BY TypeParts, ActiveIs, VaultFields DEF IInv
  <1>2. /\ Unstaged \in Nat /\ gain \in Nat
        /\ Unstaged * last * ONE <= final * gain
    BY UnstagedWithinGain
  <1>3. /\ c <= held
        /\ pt * ONE * ONE + final * gain <= active * last * ONE
    BY <1>1, <1>2, SettledIs
  <1>4. active = held - c
    BY <1>1, <1>3, ActiveIs
  <1>5. /\ backing * last <= pt * ONE
        /\ last = 0 => backing <= active
    BY DEF ClaimsInv, BackingBounded
  <1>6. backing + Unstaged <= active
    <2>1. CASE last = 0
      <3> DEFINE e == [h \in Holders |-> EarnedSy(vault, position[h])]
      <3>1. \A h \in Holders : e[h] = 0
        BY <2>1, NothingEarned
      <3>2. Unstaged = SumOver(e, Holders)
        BY DEF Unstaged
      <3> HIDE DEF e
      <3>3. Unstaged = 0
        BY <3>1, <3>2, HoldersFacts, SumZero
      <3> QED
        BY <1>1, <1>5, <2>1, <3>3
    <2>2. CASE last # 0
      <3> DEFINE unit == last * ONE
                 both == backing + Unstaged
      <3> HIDE DEF last, pt, active, final, gain, backing, held, c, Unstaged
      <3>1. /\ ONE * (backing * last) + Unstaged * last * ONE = unit * both
            /\ ONE * (pt * ONE) = pt * ONE * ONE
            /\ active * last * ONE = unit * active
            /\ final * gain \in Nat /\ pt * ONE * ONE \in Nat
            /\ ONE * (backing * last) \in Nat
            /\ Unstaged * last * ONE \in Nat
            /\ backing * last \in Nat /\ pt * ONE \in Nat
        BY <1>1, <1>2, OneAssumption, SMT
      <3>2. ONE * (backing * last) <= ONE * (pt * ONE)
        BY <1>5, <3>1, OneAssumption, MulMonotone
      <3>3. /\ unit \in Nat \ {0} /\ both \in Nat
            /\ unit * both \in Nat /\ unit * active \in Nat
        BY <1>1, <1>2, <2>2, OneAssumption, SMT
      <3> HIDE DEF unit, both
      <3>4. unit * both <= unit * active
        BY <1>2, <1>3, <3>1, <3>2, <3>3
      <3>5. both <= active
        BY <1>1, <3>3, <3>4, MulCancel
      <3> QED
        BY <3>5 DEF both
    <2> QED
      BY <2>1, <2>2
  <1>7. c = vault.treasury_sy + vault.uncollected_sy
    BY DEF Counted
  <1>8. vault.treasury_sy \in Nat /\ vault.uncollected_sy \in Nat
    BY <1>1, VaultFields
  <1>9. UnstagedCovered <=> held >= backing + vault.treasury_sy
                                      + vault.uncollected_sy + Unstaged
    BY DEF UnstagedCovered
  <1> HIDE DEF held, c, active, backing, Unstaged
  <1> QED
    BY <1>1, <1>2, <1>3, <1>4, <1>6, <1>7, <1>8, <1>9

\* With such rates the escrow covers at all times, beyond the backing of PT and
\* what is set aside, what the positions have yet to stage: the last one to
\* collect is paid too (sy_balance_invariant, earn_sy_interest).
THEOREM UnstagedIsCovered ==
    ASSUME ExactReciprocals, RatiosRoundDown, ~MayDepreciate
    PROVE  Spec => []UnstagedCovered
  <1>1. ASSUME IInv, CountsInv, ClaimsInv, SettlementInv
        PROVE  UnstagedCovered
    BY <1>1, SettledAlways, CoveredAtSettlement
  <1> QED
    BY <1>1, Invariance, Counts, ClaimsInOrder, SettlementHolds, PTL

\* With such rates the sum the code checks in sy_balance_invariant (vault.rs) is
\* within the escrow in every state, after maturity too.
THEOREM Solvency ==
    ASSUME ExactReciprocals, RatiosRoundDown, ~MayDepreciate
    PROVE  Spec => []VaultSolvency
  <1>1. ASSUME IInv, UnstagedCovered
        PROVE  VaultSolvency
    <2>1. /\ vault.total_sy_in_escrow \in Nat /\ vault.sy_for_pt \in Nat
          /\ vault.treasury_sy \in Nat /\ vault.uncollected_sy \in Nat
          /\ Unstaged \in Nat
      BY <1>1, TypeParts, VaultFields, UnstagedTypes DEF IInv
    <2> QED
      BY <1>1, <2>1 DEF UnstagedCovered, VaultSolvency
  <1> QED
    BY <1>1, Invariance, UnstagedIsCovered, PTL

\* With such rates PT is whole in every state: what set_sy_for_pt sets aside is
\* the par of the PT at the last rate, never the lesser rest of the escrow.
THEOREM PtBacked ==
    ASSUME ExactReciprocals, RatiosRoundDown, ~MayDepreciate
    PROVE  Spec => []PtFullyBacked
  <1>1. ASSUME IInv, CountsInv, ClaimsInv, SettlementInv
        PROVE  ParWithinActive
    BY <1>1, SettledAlways, ParAtSettlement
  <1>2. ASSUME IInv, IInv', CountsInv, PtWholeAtHigh, ParWithinActive',
               [Next]_vars
        PROVE  PtWholeAtHigh'
    BY <1>2, StepTurns, BackingStep DEF IInv, CountsInv
  <1>3. Init => PtWholeAtHigh
    BY BackingInit
  <1>4. SettlementInv /\ PtWholeAtHigh => PtFullyBacked
    BY DEF SettlementInv, RatesRise, PtWholeAtHigh
  <1> QED
    BY <1>1, <1>2, <1>3, <1>4, Invariance, Counts, ClaimsInOrder,
       SettlementHolds, PTL DEF Spec
=============================================================================
