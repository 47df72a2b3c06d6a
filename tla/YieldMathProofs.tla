-------------------------- MODULE YieldMathProofs --------------------------
(***************************************************************************)
(* What the arithmetic of YieldMath returns, for every scale, rate and     *)
(* amount.  Division is the only operation beyond linear arithmetic; its   *)
(* facts come first.  The facts about the sums of Sums come last.  What    *)
(* rounding can lose is in VaultGuarantees.                                *)
(***************************************************************************)
EXTENDS YieldMath, Sums, FiniteSetTheorems, TLAPS

\* A quotient is a natural number, and the largest that fits.
LEMMA DivFacts ==
    ASSUME NEW a \in Nat, NEW b \in Nat \ {0}
    PROVE  /\ a \div b \in Nat
           /\ b * (a \div b) <= a
           /\ a < b * (a \div b + 1)
  BY SMT

\* A product with a larger factor is larger.
LEMMA MulMonotone ==
    ASSUME NEW a \in Nat, NEW b \in Nat, NEW c \in Nat, a <= b
    PROVE  /\ c * a \in Nat
           /\ c * b \in Nat
           /\ c * a <= c * b
  <1>1. b - a \in Nat
    OBVIOUS
  <1>2. c * (b - a) \in Nat
    BY <1>1, SMT
  <1>3. c * b = c * a + c * (b - a)
    BY <1>1, SMT
  <1> QED
    BY <1>2, <1>3, SMT

\* A quotient is smaller than whatever its dividend is smaller than a multiple
\* of.
LEMMA DivBelow ==
    ASSUME NEW a \in Nat, NEW b \in Nat \ {0}, NEW c \in Nat, a < b * (c + 1)
    PROVE  a \div b <= c
  <1> DEFINE q == a \div b
  <1>1. q \in Nat /\ b * q <= a
    BY DivFacts
  <1>2. SUFFICES ASSUME c + 1 <= q PROVE FALSE
    BY <1>1
  <1>3. b * (c + 1) <= b * q
    BY <1>1, <1>2, MulMonotone
  <1> QED
    BY <1>1, <1>3, SMT

\* Dividing by more gives less.
LEMMA DivAntitone ==
    ASSUME NEW x \in Nat, NEW a \in Nat \ {0}, NEW b \in Nat, a <= b
    PROVE  x \div b <= x \div a
  <1> DEFINE q == x \div a
  <1>1. q \in Nat /\ x < a * (q + 1)
    BY DivFacts
  <1>2. a * (q + 1) <= b * (q + 1)
    <2>1. (q + 1) * a <= (q + 1) * b
      BY <1>1, MulMonotone
    <2> QED
      BY <1>1, <2>1, SMT
  <1>3. b * (q + 1) \in Nat /\ a * (q + 1) \in Nat
    BY <1>1, SMT
  <1>4. x < b * (q + 1)
    BY <1>1, <1>2, <1>3
  <1> QED
    BY <1>1, <1>4, DivBelow

-----------------------------------------------------------------------------
(* The Number type.                                                        *)

LEMMA CorrectionType == RoundingCorrection \in Nat /\ RoundingCorrection < ONE
  BY OneAssumption, SMT DEF RoundingCorrection

LEMMA MulType ==
    ASSUME NEW a \in Nat, NEW b \in Nat
    PROVE  NumMul(a, b) \in Nat
  <1>1. a * b + RoundingCorrection \in Nat
    BY CorrectionType, SMT
  <1> QED
    BY <1>1, OneAssumption, DivFacts DEF NumMul

LEMMA DivType ==
    ASSUME NEW a \in Nat, NEW b \in Nat \ {0}
    PROVE  NumDiv(a, b) \in Nat
  <1>1. a * ONE + RoundingCorrection \in Nat
    BY CorrectionType, OneAssumption, SMT
  <1> QED
    BY <1>1, DivFacts DEF NumDiv

LEMMA FloorType ==
    ASSUME NEW a \in Nat
    PROVE  Floor(a) \in Nat
  BY OneAssumption, DivFacts DEF Floor

\* The scaled value of a natural is zero only for zero.
LEMMA NaturalType ==
    ASSUME NEW n \in Nat
    PROVE  /\ FromNatural(n) \in Nat
           /\ n > 0 => FromNatural(n) \in Nat \ {0}
  <1>1. n * ONE \in Nat
    BY OneAssumption, SMT
  <1>2. n > 0 => n * ONE >= 1 * ONE
    BY OneAssumption, SMT
  <1> QED
    BY <1>1, <1>2, OneAssumption, SMT DEF FromNatural

\* Dividing by a larger Number gives a smaller one.
LEMMA NumDivAntitone ==
    ASSUME NEW x \in Nat, NEW a \in Nat \ {0}, NEW b \in Nat, a <= b
    PROVE  NumDiv(x, b) <= NumDiv(x, a)
  <1>1. x * ONE + RoundingCorrection \in Nat
    BY CorrectionType, OneAssumption, SMT
  <1> QED
    BY <1>1, DivAntitone DEF NumDiv

-----------------------------------------------------------------------------
(* The formulas return amounts.                                            *)

LEMMA SyToPyType ==
    ASSUME NEW rate \in Nat, NEW amount \in Nat
    PROVE  SyToPy(rate, amount) \in Nat
  BY NaturalType, MulType, FloorType DEF SyToPy

LEMMA PyToSyType ==
    ASSUME NEW rate \in Nat \ {0}, NEW py \in Nat
    PROVE  PyToSy(rate, py) \in Nat
  BY NaturalType, DivType, FloorType DEF PyToSy

LEMMA PyToSyCeilType ==
    ASSUME NEW rate \in Nat \ {0}, NEW py \in Nat
    PROVE  PyToSyCeil(rate, py) \in Nat
  <1>1. NumDiv(FromNatural(py), rate) \in Nat
    BY NaturalType, DivType
  <1>2. NumDiv(FromNatural(py), rate) + ONE - 1 \in Nat
    BY <1>1, OneAssumption, SMT
  <1> QED
    BY <1>2, OneAssumption, DivFacts DEF PyToSyCeil, CeilDiv

\* The subtraction of the reciprocals never goes below zero: NumDiv rounds
\* monotonically.
LEMMA CalcEarnedSyType ==
    ASSUME NEW yt \in Nat, NEW last \in Nat, NEW final \in Nat
    PROVE  CalcEarnedSy(yt, last, final) \in Nat
  <1>1. CASE last >= final \/ yt = 0 \/ last = 0
    BY <1>1 DEF CalcEarnedSy
  <1>2. CASE ~(last >= final \/ yt = 0 \/ last = 0)
    <2> DEFINE before == NumDiv(ONE, last)
               after  == NumDiv(ONE, final)
    <2>1. last \in Nat \ {0} /\ final \in Nat \ {0} /\ last <= final
      BY <1>2
    <2>2. before \in Nat /\ after \in Nat /\ after <= before
      BY <2>1, OneAssumption, DivType, NumDivAntitone
    <2>3. before - after \in Nat
      BY <2>2
    <2>4. Floor(NumMul(before - after, FromNatural(yt))) \in Nat
      BY <2>3, NaturalType, MulType, FloorType
    <2> QED
      BY <1>2, <2>4 DEF CalcEarnedSy
  <1> QED
    BY <1>1, <1>2

LEMMA ScaleSyType ==
    ASSUME NEW amount \in Nat, NEW final \in Nat, NEW current \in Nat
    PROVE  ScaleSyToCurrentRate(amount, final, current) \in Nat
  <1>1. CASE current <= final
    BY <1>1 DEF ScaleSyToCurrentRate
  <1>2. CASE current > final
    <2>1. NumDiv(final, current) \in Nat
      BY <1>2, DivType
    <2>2. Floor(NumMul(NumDiv(final, current), FromNatural(amount))) \in Nat
      BY <2>1, NaturalType, MulType, FloorType
    <2> QED
      BY <1>2, <2>2 DEF ScaleSyToCurrentRate
  <1> QED
    BY <1>1, <1>2

LEMMA CalcSyAppreciationType ==
    ASSUME NEW last \in Nat, NEW current \in Nat, NEW amount \in Nat
    PROVE  CalcSyAppreciation(last, current, amount) \in Nat
  <1>1. CASE current <= last
    BY <1>1 DEF CalcSyAppreciation
  <1>2. CASE current > last
    <2>1. current - last \in Nat /\ current \in Nat \ {0}
      BY <1>2
    <2>2. NumMul(current - last, FromNatural(amount)) \in Nat
      BY <2>1, NaturalType, MulType
    <2>3. Floor(NumDiv(NumMul(current - last, FromNatural(amount)), current))
            \in Nat
      BY <2>1, <2>2, DivType, FloorType
    <2> QED
      BY <1>2, <2>3 DEF CalcSyAppreciation
  <1> QED
    BY <1>1, <1>2

LEMMA CalcShareValueType ==
    ASSUME NEW last \in Nat, NEW current \in Nat, NEW share \in Nat
    PROVE  CalcShareValue(last, current, share) \in Nat
  <1>1. current > last => current - last \in Nat
    OBVIOUS
  <1> QED
    BY <1>1, NaturalType, MulType, FloorType DEF CalcShareValue

\* The backing of PT never exceeds the active SY.
LEMMA SyBackingType ==
    ASSUME NEW rate \in Nat, NEW ptSupply \in Nat, NEW activeSy \in Nat
    PROVE  /\ SyBackingForPt(rate, ptSupply, activeSy) \in Nat
           /\ SyBackingForPt(rate, ptSupply, activeSy) <= activeSy
  <1>1. rate > 0 => PyToSy(rate, ptSupply) \in Nat
    BY PyToSyType
  <1> QED
    BY <1>1, SMT DEF SyBackingForPt, Smaller

-----------------------------------------------------------------------------
(* Redemption.                                                             *)

LEMMA RedeemPtType ==
    ASSUME NEW py \in Nat, NEW syForPt \in Nat, NEW ptSupply \in Nat
    PROVE  RedeemPt(py, syForPt, ptSupply) \in Nat
  <1>1. FromRatio(syForPt, ptSupply) \in Nat
    BY NaturalType, DivType DEF FromRatio
  <1> QED
    BY <1>1, NaturalType, MulType, FloorType DEF RedeemPt

\* Multiplying the scaled value of n by a Number is exact.
LEMMA ScaledMul ==
    ASSUME NEW n \in Nat, NEW a \in Nat
    PROVE  NumMul(FromNatural(n), a) = n * a
  <1> DEFINE x == n * ONE * a + RoundingCorrection
             q == x \div ONE
  <1>1. n * a \in Nat /\ n * ONE * a = ONE * (n * a)
    BY OneAssumption, SMT
  <1>2. x \in Nat /\ x = ONE * (n * a) + RoundingCorrection
    BY <1>1, CorrectionType, OneAssumption
  <1>3. ONE * (n * a + 1) = ONE * (n * a) + ONE
    BY <1>1, OneAssumption, SMT
  <1>4. q <= n * a
    <2>1. x < ONE * (n * a + 1)
      BY <1>1, <1>2, <1>3, CorrectionType, OneAssumption, SMT
    <2> QED
      BY <2>1, <1>1, <1>2, OneAssumption, DivBelow
  <1>5. q >= n * a
    <2>1. q \in Nat /\ x < ONE * (q + 1)
      BY <1>2, OneAssumption, DivFacts
    <2>2. SUFFICES ASSUME q + 1 <= n * a PROVE FALSE
      BY <2>1, <1>1
    <2>3. ONE * (q + 1) <= ONE * (n * a)
      BY <2>1, <2>2, <1>1, OneAssumption, MulMonotone
    <2>4. ONE * (q + 1) \in Nat /\ ONE * (n * a) \in Nat
      BY <2>1, <1>1, OneAssumption, SMT
    <2> QED
      BY <2>1, <2>3, <2>4, <1>2, CorrectionType, SMT
  <1>6. q \in Nat
    BY <1>2, OneAssumption, DivFacts
  <1> QED
    BY <1>1, <1>4, <1>5, <1>6 DEF NumMul, FromNatural

-----------------------------------------------------------------------------
(* Sums.                                                                   *)

\* Induction over a finite set, for a property given as the set of the subsets
\* that have it.
LEMMA SubsetInduction ==
    ASSUME NEW S, IsFiniteSet(S), NEW good \in SUBSET SUBSET S,
           {} \in good,
           \A T \in good : \A x \in S \ T : T \cup {x} \in good
    PROVE  S \in good
  <1>1. SUFFICES ASSUME S \notin good PROVE FALSE
    OBVIOUS
  <1> DEFINE bad == (SUBSET S) \ good
  <1>2. bad \subseteq FiniteSubsetsOf(S) /\ bad # {}
    BY <1>1, FS_FiniteSubsetsOfFinite
  <1>3. PICK T \in bad : \A U \in bad : <<U, T>> \notin StrictSubsetOrdering(S)
    BY <1>2, FS_StrictSubsetOrderingWellFounded, WFMin
  <1>4. PICK x \in T : TRUE
    BY <1>3
  <1>5. T \ {x} \in good
    <2> DEFINE U == T \ {x}
    <2>1. U \in SUBSET S /\ T \in SUBSET S /\ U \subseteq T /\ U # T
      BY <1>3, <1>4
    <2> HIDE DEF U
    <2>2. <<U, T>> \in StrictSubsetOrdering(S)
      BY <2>1 DEF StrictSubsetOrdering
    <2> QED
      BY <2>1, <2>2, <1>3 DEF U
  <1>6. x \in S \ (T \ {x}) /\ (T \ {x}) \cup {x} = T
    BY <1>3, <1>4
  <1> QED
    BY <1>3, <1>5, <1>6

LEMMA ColumnFacts ==
    ASSUME NEW f, NEW x, f[x] \in Nat
    PROVE  /\ IsFiniteSet(Column(f, x))
           /\ Cardinality(Column(f, x)) = f[x]
  <1> DEFINE one == {x}
             height == 1..f[x]
  <1>1. IsFiniteSet(one) /\ Cardinality(one) = 1
    BY FS_Singleton
  <1>2. IsFiniteSet(height) /\ Cardinality(height) = f[x]
    BY FS_Interval, SMT
  <1>3. Column(f, x) = one \X height
    BY DEF Column
  <1> HIDE DEF one, height
  <1>4. /\ IsFiniteSet(one \X height)
        /\ Cardinality(one \X height) = Cardinality(one) * Cardinality(height)
    BY <1>1, <1>2, FS_Product
  <1> QED
    BY <1>1, <1>2, <1>3, <1>4, SMT

LEMMA UnitsEmpty ==
    ASSUME NEW f
    PROVE  Units(f, {}) = {}
  BY DEF Units

\* One more element brings its column.
LEMMA UnitsAdd ==
    ASSUME NEW f, NEW T, NEW x
    PROVE  Units(f, T \cup {x}) = Units(f, T) \cup Column(f, x)
  BY DEF Units

LEMMA UnitsApart ==
    ASSUME NEW f, NEW T, NEW x, x \notin T
    PROVE  Units(f, T) \cap Column(f, x) = {}
  BY DEF Units, Column

LEMMA UnitsFinite ==
    ASSUME NEW S, IsFiniteSet(S), NEW f, \A x \in S : f[x] \in Nat
    PROVE  IsFiniteSet(Units(f, S))
  <1> DEFINE good == {T \in SUBSET S : IsFiniteSet(Units(f, T))}
  <1>1. {} \in good
    BY UnitsEmpty, FS_EmptySet
  <1>2. ASSUME NEW T \in good, NEW x \in S \ T
        PROVE  T \cup {x} \in good
    <2>1. IsFiniteSet(Units(f, T)) /\ IsFiniteSet(Column(f, x))
      BY <1>2, ColumnFacts
    <2> DEFINE old == Units(f, T)
               new == Column(f, x)
    <2>3. Units(f, T \cup {x}) = old \cup new
      BY UnitsAdd
    <2> HIDE DEF old, new
    <2>4. IsFiniteSet(old \cup new)
      BY <2>1, FS_Union DEF old, new
    <2>2. IsFiniteSet(Units(f, T \cup {x}))
      BY <2>3, <2>4
    <2> QED
      BY <1>2, <2>2
  <1> HIDE DEF good
  <1>3. S \in good
    BY <1>1, <1>2, SubsetInduction DEF good
  <1> QED
    BY <1>3 DEF good

\* A sum is a natural number, zero of nothing, and one more element adds to it.
LEMMA SumFacts ==
    ASSUME NEW S, IsFiniteSet(S), NEW f, \A x \in S : f[x] \in Nat
    PROVE  SumOver(f, S) \in Nat
  BY UnitsFinite, FS_CardinalityType DEF SumOver

LEMMA SumEmpty ==
    ASSUME NEW f
    PROVE  SumOver(f, {}) = 0
  BY UnitsEmpty, FS_EmptySet DEF SumOver

LEMMA SumAdd ==
    ASSUME NEW S, IsFiniteSet(S), NEW f, NEW x, x \notin S,
           \A y \in S \cup {x} : f[y] \in Nat
    PROVE  SumOver(f, S \cup {x}) = SumOver(f, S) + f[x]
  <1>1. IsFiniteSet(Units(f, S)) /\ IsFiniteSet(Column(f, x))
    BY UnitsFinite, ColumnFacts
  <1>2. Cardinality(Column(f, x)) = f[x] /\ Cardinality(Units(f, S)) \in Nat
    BY <1>1, ColumnFacts, FS_CardinalityType
  <1>3. Cardinality(Units(f, S) \cap Column(f, x)) = 0
    BY UnitsApart, FS_EmptySet
  <1>4. Units(f, S \cup {x}) = Units(f, S) \cup Column(f, x)
    BY UnitsAdd
  <1> DEFINE old == Units(f, S)
             new == Column(f, x)
  <1> HIDE DEF old, new
  <1>5. Cardinality(old \cup new)
          = Cardinality(old) + Cardinality(new) - Cardinality(old \cap new)
    BY <1>1, FS_Union DEF old, new
  <1>6. /\ SumOver(f, S \cup {x}) = Cardinality(old \cup new)
        /\ SumOver(f, S) = Cardinality(old)
    BY <1>4 DEF SumOver, old, new
  <1>7. /\ Cardinality(old) \in Nat
        /\ Cardinality(new) = f[x]
        /\ Cardinality(old \cap new) = 0
        /\ f[x] \in Nat
    BY <1>2, <1>3 DEF old, new
  <1> QED
    BY <1>5, <1>6, <1>7

\* A sum depends on nothing but its terms.
LEMMA SumSame ==
    ASSUME NEW S, NEW f, NEW g, \A x \in S : f[x] = g[x]
    PROVE  SumOver(f, S) = SumOver(g, S)
  BY DEF SumOver, Units, Column

LEMMA SumSplit ==
    ASSUME NEW S, IsFiniteSet(S), NEW f, \A y \in S : f[y] \in Nat, NEW x \in S
    PROVE  /\ SumOver(f, S) = SumOver(f, S \ {x}) + f[x]
           /\ SumOver(f, S \ {x}) \in Nat
  <1> DEFINE T == S \ {x}
  <1>1. IsFiniteSet(T) /\ T \cup {x} = S /\ x \notin T
    BY FS_RemoveElement
  <1>2. \A y \in T \cup {x} : f[y] \in Nat
    BY <1>1
  <1> HIDE DEF T
  <1>3. SumOver(f, T \cup {x}) = SumOver(f, T) + f[x]
    BY <1>1, <1>2, SumAdd
  <1>4. SumOver(f, T) \in Nat
    BY <1>1, <1>2, SumFacts
  <1> QED
    BY <1>1, <1>3, <1>4 DEF T

\* A term that changes changes the sum by as much.
LEMMA SumChange ==
    ASSUME NEW S, IsFiniteSet(S), NEW f, NEW g,
           \A y \in S : f[y] \in Nat /\ g[y] \in Nat,
           NEW x \in S, \A y \in S \ {x} : g[y] = f[y]
    PROVE  /\ SumOver(f, S) \in Nat
           /\ SumOver(g, S) \in Nat
           /\ SumOver(g, S) + f[x] = SumOver(f, S) + g[x]
           /\ f[x] <= SumOver(f, S)
  <1>1. SumOver(g, S \ {x}) = SumOver(f, S \ {x})
    BY SumSame
  <1>2. /\ SumOver(f, S) = SumOver(f, S \ {x}) + f[x]
        /\ SumOver(g, S) = SumOver(g, S \ {x}) + g[x]
        /\ SumOver(f, S \ {x}) \in Nat
    BY SumSplit
  <1> QED
    BY <1>1, <1>2

\* Two terms that change.
LEMMA SumTwo ==
    ASSUME NEW S, IsFiniteSet(S), NEW f, NEW g,
           \A z \in S : f[z] \in Nat /\ g[z] \in Nat,
           NEW x \in S, NEW y \in S, x # y,
           \A z \in S \ {x, y} : g[z] = f[z]
    PROVE  /\ SumOver(f, S) \in Nat
           /\ SumOver(g, S) \in Nat
           /\ SumOver(g, S) + f[x] + f[y] = SumOver(f, S) + g[x] + g[y]
  <1> DEFINE T == S \ {x}
  <1>1. IsFiniteSet(T) /\ y \in T
    BY FS_RemoveElement
  <1>2. \A z \in T : f[z] \in Nat /\ g[z] \in Nat
    OBVIOUS
  <1>3. \A z \in T \ {y} : g[z] = f[z]
    OBVIOUS
  <1> HIDE DEF T
  <1>4. /\ SumOver(f, T) \in Nat /\ SumOver(g, T) \in Nat
        /\ SumOver(g, T) + f[y] = SumOver(f, T) + g[y]
    BY <1>1, <1>2, <1>3, SumChange
  <1>5. /\ SumOver(f, S) = SumOver(f, T) + f[x]
        /\ SumOver(g, S) = SumOver(g, T) + g[x]
    BY SumSplit DEF T
  <1> QED
    BY <1>4, <1>5

LEMMA SumZero ==
    ASSUME NEW S, IsFiniteSet(S), NEW f, \A x \in S : f[x] = 0
    PROVE  SumOver(f, S) = 0
  <1>1. Units(f, S) = {}
    BY SMT DEF Units, Column
  <1> QED
    BY <1>1, FS_EmptySet DEF SumOver

\* A sum grows with its terms.
LEMMA SumMonotone ==
    ASSUME NEW S, IsFiniteSet(S), NEW f, NEW g,
           \A x \in S : f[x] \in Nat /\ g[x] \in Nat /\ f[x] <= g[x]
    PROVE  /\ SumOver(f, S) \in Nat
           /\ SumOver(g, S) \in Nat
           /\ SumOver(f, S) <= SumOver(g, S)
  <1>1. \A x \in S : Column(f, x) \subseteq Column(g, x)
    BY SMT DEF Column
  <1>2. Units(f, S) \subseteq Units(g, S)
    BY <1>1 DEF Units
  <1> QED
    BY <1>2, UnitsFinite, FS_Subset, SumFacts DEF SumOver

\* A sum over fewer elements is no larger.
LEMMA SumSubset ==
    ASSUME NEW S, IsFiniteSet(S), NEW T \in SUBSET S, NEW f,
           \A x \in S : f[x] \in Nat
    PROVE  /\ SumOver(f, S) \in Nat
           /\ SumOver(f, T) \in Nat
           /\ SumOver(f, T) <= SumOver(f, S)
  <1>1. Units(f, T) \subseteq Units(f, S)
    BY DEF Units
  <1>2. IsFiniteSet(Units(f, S))
    BY UnitsFinite
  <1> QED
    BY <1>1, <1>2, FS_Subset, FS_CardinalityType DEF SumOver

\* The sum of f[x] + k * g[x] is the sum of f and k times the sum of g.
LEMMA SumLinear ==
    ASSUME NEW S, IsFiniteSet(S), NEW f, NEW g, NEW h, NEW k \in Nat,
           \A x \in S : /\ f[x] \in Nat /\ g[x] \in Nat
                        /\ h[x] = f[x] + k * g[x]
    PROVE  /\ SumOver(f, S) \in Nat /\ SumOver(g, S) \in Nat
           /\ SumOver(h, S) = SumOver(f, S) + k * SumOver(g, S)
  <1> DEFINE good == {T \in SUBSET S :
                        SumOver(h, T) = SumOver(f, T) + k * SumOver(g, T)}
  <1>1. {} \in good
    <2>1. SumOver(h, {}) = 0 /\ SumOver(f, {}) = 0 /\ SumOver(g, {}) = 0
      BY SumEmpty
    <2> QED
      BY <2>1, SMT
  <1>2. ASSUME NEW T \in good, NEW x \in S \ T
        PROVE  T \cup {x} \in good
    <2>1. IsFiniteSet(T) /\ T \subseteq S
      BY FS_Subset
    <2>2. \A y \in S : h[y] \in Nat
      BY SMT
    <2>3. x \notin T /\ T \cup {x} \subseteq S
      BY <2>1
    <2>4. /\ SumOver(h, T \cup {x}) = SumOver(h, T) + h[x]
          /\ SumOver(f, T \cup {x}) = SumOver(f, T) + f[x]
          /\ SumOver(g, T \cup {x}) = SumOver(g, T) + g[x]
      <3>1. /\ \A y \in T \cup {x} : f[y] \in Nat
            /\ \A y \in T \cup {x} : g[y] \in Nat
            /\ \A y \in T \cup {x} : h[y] \in Nat
        BY <2>2, <2>3
      <3> HIDE DEF good
      <3>2. ASSUME NEW e, \A y \in T \cup {x} : e[y] \in Nat
            PROVE  SumOver(e, T \cup {x}) = SumOver(e, T) + e[x]
        <4>1. IsFiniteSet(T) /\ x \notin T
          BY <2>1, <2>3
        <4> QED
          BY ONLY <4>1, <3>2, SumAdd
      <3> QED
        BY <3>1, <3>2
    <2>5. SumOver(f, T) \in Nat /\ SumOver(g, T) \in Nat
      BY <2>1, SumFacts
    <2>6. k * (SumOver(g, T) + g[x]) = k * SumOver(g, T) + k * g[x]
          /\ k * SumOver(g, T) \in Nat /\ k * g[x] \in Nat
      BY <2>5, SMT
    <2>7. SumOver(h, T) = SumOver(f, T) + k * SumOver(g, T)
      OBVIOUS
    <2>8. h[x] = f[x] + k * g[x] /\ f[x] \in Nat
      OBVIOUS
    <2> QED
      BY <2>1, <2>4, <2>5, <2>6, <2>7, <2>8
  <1> HIDE DEF good
  <1>3. S \in good
    BY <1>1, <1>2, SubsetInduction DEF good
  <1> QED
    BY <1>3, SumFacts DEF good
=============================================================================
