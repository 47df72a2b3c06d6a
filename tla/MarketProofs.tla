---------------------------- MODULE MarketProofs ----------------------------
(***************************************************************************)
(* Theorems about Market for every rate, every price of the curve above    *)
(* one, every amount and every setting.  The hard part is arithmetic: what *)
(* the roundings of a sale, of its fees and of an LP share add up to.      *)
(***************************************************************************)
EXTENDS MarketProperties, YieldMathProofs

-----------------------------------------------------------------------------
(* Products.                                                               *)

LEMMA ProductType ==
    ASSUME NEW a \in Nat, NEW b \in Nat
    PROVE  a * b \in Nat
  BY SMT

LEMMA PositiveProduct ==
    ASSUME NEW a \in Nat \ {0}, NEW b \in Nat \ {0}
    PROVE  a * b \in Nat \ {0}
  <1>1. 1 * a <= b * a
    <2>1. a * 1 <= a * b
      BY MulMonotone
    <2> QED
      BY <2>1, SMT
  <1> QED
    BY <1>1, ProductType, SMT

\* A common factor cancels from a strict inequality.
LEMMA CancelStrict ==
    ASSUME NEW a \in Nat, NEW b \in Nat, NEW c \in Nat, c * a < c * b
    PROVE  a < b
  <1>1. SUFFICES ASSUME b <= a PROVE FALSE
    OBVIOUS
  <1>2. c * b <= c * a /\ c * a \in Nat /\ c * b \in Nat
    BY <1>1, MulMonotone
  <1> QED
    BY <1>2

\* A positive common factor cancels from an inequality.
LEMMA Cancel ==
    ASSUME NEW a \in Nat, NEW b \in Nat, NEW c \in Nat \ {0}, c * a <= c * b
    PROVE  a <= b
  <1>1. SUFFICES ASSUME b + 1 <= a PROVE FALSE
    OBVIOUS
  <1>2. c * (b + 1) <= c * a
    BY <1>1, MulMonotone
  <1>3. c * (b + 1) = c * b + c /\ c * b \in Nat
    BY SMT
  <1> QED
    BY <1>2, <1>3, ProductType, SMT

-----------------------------------------------------------------------------
(* Shares of the pool.                                                     *)

\* Whoever brings the side that decides gets LP for at most his share of it.
LEMMA MintedShare ==
    ASSUME NEW L \in Nat, NEW own \in Nat \ {0}, NEW intent \in Nat
    PROVE  /\ (L * intent) \div own \in Nat
           /\ ((L * intent) \div own) * own <= L * intent
  <1> DEFINE q == (L * intent) \div own
  <1>1. q \in Nat /\ own * q <= L * intent
    BY ProductType, DivFacts
  <1> HIDE DEF q
  <1>2. own * q = q * own
    BY <1>1, SMT
  <1>3. q \in Nat /\ q * own <= L * intent
    BY <1>1, <1>2
  <1> QED
    BY <1>3 DEF q

\* And he pays for them on the other side too: that amount is rounded up.
LEMMA PaidShare ==
    ASSUME NEW L \in Nat \ {0}, NEW own \in Nat \ {0}, NEW total \in Nat,
           NEW intent \in Nat
    PROVE  LET paid   == (total * L * intent + (L - 1) * own) \div (L * own)
               minted == (L * intent) \div own
           IN  paid \in Nat /\ minted * total <= L * paid
  <1> DEFINE paid   == (total * L * intent + (L - 1) * own) \div (L * own)
             minted == (L * intent) \div own
             x      == L * intent
             num    == total * x + (L - 1) * own
  <1>1. /\ x \in Nat /\ L - 1 \in Nat /\ total * x \in Nat
        /\ (L - 1) * own \in Nat
    BY ProductType, SMT
  <1>2. total * L * intent = total * x
    BY SMT
  <1>3. num \in Nat /\ paid = num \div (L * own)
    BY <1>1, <1>2
  <1>4. L * own \in Nat \ {0}
    BY PositiveProduct
  <1>5. minted \in Nat /\ minted * own <= x
    BY MintedShare
  <1> HIDE DEF x, minted
  <1>6. paid \in Nat /\ num < (L * own) * (paid + 1)
    <2>1. /\ num \div (L * own) \in Nat
          /\ num < (L * own) * (num \div (L * own) + 1)
      BY <1>3, <1>4, DivFacts
    <2> QED
      BY <1>3, <2>1
  <1> HIDE DEF paid
  <1>7. (L * own) * (paid + 1) = own * (L * paid) + L * own
    BY <1>6, SMT
  <1>8. (L - 1) * own = L * own - own
    BY SMT
  <1>9. total * x < own * (L * paid) + own
    <2>1. L * paid \in Nat /\ own * (L * paid) \in Nat
      BY <1>6, ProductType
    <2> QED
      BY <1>1, <1>4, <1>6, <1>7, <1>8, <2>1, SMT
  <1>10. total * (minted * own) <= total * x
    BY <1>1, <1>5, ProductType, MulMonotone
  <1>11. own * (minted * total) = total * (minted * own)
    BY <1>5, SMT
  <1>12. own * (L * paid + 1) = own * (L * paid) + own
    BY <1>6, ProductType, SMT
  <1>13. own * (minted * total) < own * (L * paid + 1)
    <2>1. total * (minted * own) \in Nat /\ own * (L * paid) \in Nat
      BY <1>5, <1>6, ProductType
    <2> QED
      BY <1>1, <1>9, <1>10, <1>11, <1>12, <2>1, SMT
  <1>14. minted * total < L * paid + 1
    <2>1. minted * total \in Nat /\ L * paid + 1 \in Nat
      BY <1>5, <1>6, ProductType
    <2> QED
      BY <1>13, <2>1, CancelStrict
  <1>15. paid \in Nat /\ minted * total <= L * paid
    BY <1>5, <1>6, <1>14, ProductType, SMT
  <1> QED
    BY <1>15 DEF paid, minted

\* Adding liquidity mints LP for at most the share brought, on both sides.
LEMMA AddLiquidityFacts ==
    ASSUME MarketTypeOK, PoolStocked, NEW pt \in Nat, NEW sy \in Nat
    PROVE  LET r == AddLiquidity(pt, sy) IN
           /\ r.pt_in \in Nat /\ r.sy_in \in Nat /\ r.lp_out \in Nat
           /\ r.lp_out * market.pt_balance <= tokens.mint_lp * r.pt_in
           /\ r.lp_out * market.sy_balance <= tokens.mint_lp * r.sy_in
           /\ tokens.mint_lp = 0 => r.lp_out = 0
  <1> DEFINE L == tokens.mint_lp
             P == market.pt_balance
             S == market.sy_balance
             r == AddLiquidity(pt, sy)
             dearPt == pt * S < sy * P
  <1>1. L \in Nat /\ P \in Nat /\ S \in Nat
    BY DEF MarketTypeOK, MarketTwo, Tokens
  <1>2. L # 0 => P > 0 /\ S > 0
    BY <1>1 DEF PoolStocked
  <1>3. CASE L = 0
    <2>1. r = [pt_in |-> 0, sy_in |-> sy, lp_out |-> 0]
      BY <1>3 DEF AddLiquidity
    <2> HIDE DEF r
    <2>2. /\ r.pt_in \in Nat /\ r.sy_in \in Nat /\ r.lp_out \in Nat
          /\ r.lp_out * P <= L * r.pt_in /\ r.lp_out * S <= L * r.sy_in
          /\ r.lp_out = 0
      BY <2>1, <1>1, <1>3, SMT
    <2> QED
      BY <2>2 DEF r
  <1>4. CASE L # 0 /\ dearPt
    <2> DEFINE paid == (S * L * pt + (L - 1) * P) \div (L * P)
               minted == (L * pt) \div P
    <2>1. r = [pt_in |-> pt, sy_in |-> paid, lp_out |-> minted]
      BY <1>1, <1>4, SMT DEF AddLiquidity
    <2>2. /\ paid \in Nat /\ minted * S <= L * paid
          /\ minted \in Nat /\ minted * P <= L * pt
      <3>1. L \in Nat \ {0} /\ P \in Nat \ {0} /\ S \in Nat \ {0}
        BY <1>1, <1>2, <1>4
      <3> HIDE DEF L, P, S
      <3>2. minted \in Nat /\ minted * P <= L * pt
        BY <3>1, MintedShare
      <3>3. paid \in Nat /\ minted * S <= L * paid
        BY <3>1, PaidShare
      <3> QED
        BY <3>2, <3>3
    <2> HIDE DEF r, paid, minted
    <2>3. /\ r.pt_in \in Nat /\ r.sy_in \in Nat /\ r.lp_out \in Nat
          /\ r.lp_out * P <= L * r.pt_in /\ r.lp_out * S <= L * r.sy_in
      BY <2>1, <2>2
    <2> QED
      BY <1>4, <2>3 DEF r
  <1>5. CASE L # 0 /\ ~dearPt
    <2> DEFINE paid == (P * L * sy + (L - 1) * S) \div (L * S)
               minted == (L * sy) \div S
    <2>1. r = [pt_in |-> paid, sy_in |-> sy, lp_out |-> minted]
      BY <1>1, <1>5, SMT DEF AddLiquidity
    <2>2. /\ paid \in Nat /\ minted * P <= L * paid
          /\ minted \in Nat /\ minted * S <= L * sy
      <3>1. L \in Nat \ {0} /\ P \in Nat \ {0} /\ S \in Nat \ {0}
        BY <1>1, <1>2, <1>5
      <3> HIDE DEF L, P, S
      <3>2. minted \in Nat /\ minted * S <= L * sy
        BY <3>1, MintedShare
      <3>3. paid \in Nat /\ minted * P <= L * paid
        BY <3>1, PaidShare
      <3> QED
        BY <3>2, <3>3
    <2> HIDE DEF r, paid, minted
    <2>3. /\ r.pt_in \in Nat /\ r.sy_in \in Nat /\ r.lp_out \in Nat
          /\ r.lp_out * P <= L * r.pt_in /\ r.lp_out * S <= L * r.sy_in
      BY <2>1, <2>2
    <2> QED
      BY <1>5, <2>3 DEF r
  <1> QED
    BY <1>3, <1>4, <1>5

\* Removed liquidity is at most the share, and leaves the rest its own.
LEMMA LpShareFacts ==
    ASSUME tokens.mint_lp \in Nat, NEW total \in Nat, NEW lp \in Nat,
           lp <= tokens.mint_lp
    PROVE  LET out == LpShare(total, lp) IN
           /\ out \in Nat /\ out <= total
           /\ (total - out) * tokens.mint_lp >= total * (tokens.mint_lp - lp)
           /\ total > 0 /\ lp < tokens.mint_lp => total - out > 0
  <1> DEFINE L   == tokens.mint_lp
             out == LpShare(total, lp)
  <1>1. CASE L = 0
    <2>1. out = 0
      BY <1>1 DEF LpShare
    <2> HIDE DEF out
    <2>2. /\ out \in Nat /\ out <= total
          /\ (total - out) * L >= total * (L - lp)
          /\ total > 0 /\ lp < L => total - out > 0
      BY <1>1, <2>1, SMT
    <2> QED
      BY <2>2 DEF out
  <1>2. CASE L # 0
    <2>1. out = (total * lp) \div L
      BY <1>2 DEF LpShare
    <2>2. out \in Nat /\ L * out <= total * lp
      BY <1>2, <2>1, ProductType, DivFacts
    <2> HIDE DEF out
    <2>3. total * lp <= total * L /\ total * L = L * total
      BY MulMonotone, SMT
    <2>4. out <= total
      <3>1. L * out <= L * total
        BY <2>2, <2>3, ProductType, SMT
      <3> QED
        BY <1>2, <2>2, <3>1, Cancel
    <2>5. (total - out) * L = L * total - L * out
      BY <2>2, SMT
    <2>6. total * (L - lp) = total * L - total * lp
      BY SMT
    <2>7. (total - out) * L >= total * (L - lp)
      BY <2>2, <2>3, <2>5, <2>6, ProductType, SMT
    <2>8. ASSUME total > 0, lp < L PROVE total - out > 0
      <3>1. total \in Nat \ {0} /\ L - lp \in Nat \ {0}
        BY <2>8
      <3>2. total * (L - lp) \in Nat \ {0}
        BY <3>1, PositiveProduct
      <3>3. SUFFICES ASSUME total - out = 0 PROVE FALSE
        BY <2>2, <2>4
      <3>4. (total - out) * L = 0
        BY <3>3
      <3> QED
        BY <2>7, <3>2, <3>4
    <2>9. /\ out \in Nat /\ out <= total
          /\ (total - out) * L >= total * (L - lp)
          /\ total > 0 /\ lp < L => total - out > 0
      BY <2>2, <2>4, <2>7, <2>8
    <2> QED
      BY <2>9 DEF out
  <1> QED
    BY <1>1, <1>2

-----------------------------------------------------------------------------
(* Trades.                                                                 *)

\* SY at a rate is worth that many times as much, rounded down.
LEMMA WorthFloor ==
    ASSUME NEW r \in Nat, NEW amount \in Nat
    PROVE  /\ SyToPy(r, amount) \in Nat
           /\ ONE * SyToPy(r, amount) <= amount * r
  <1>1. SyToPy(r, amount) = (amount * r) \div ONE
    BY ScaledMul DEF SyToPy, Floor
  <1> QED
    BY <1>1, ProductType, OneAssumption, DivFacts

\* The SY paid for an amount of asset is worth no more, but for the half unit
\* of the scale that a quotient is rounded with.
LEMMA PaidWorth ==
    ASSUME NEW r \in Nat \ {0}, NEW asset \in Nat
    PROVE  /\ PyToSy(r, asset) \in Nat
           /\ r * (ONE * PyToSy(r, asset)) <= asset * ONE * ONE + RoundingCorrection
  <1> DEFINE x == asset * ONE * ONE + RoundingCorrection
             q == x \div r
             s == q \div ONE
  <1>1. x \in Nat
    <2>1. asset * ONE \in Nat /\ (asset * ONE) * ONE \in Nat
      BY ProductType, OneAssumption
    <2> QED
      BY <2>1, CorrectionType
  <1>2. q \in Nat /\ r * q <= x
    BY <1>1, DivFacts
  <1>3. PyToSy(r, asset) = s
    BY DEF PyToSy, Floor, NumDiv, FromNatural
  <1> HIDE DEF x, q
  <1>4. s \in Nat /\ ONE * s <= q
    BY <1>2, OneAssumption, DivFacts
  <1> HIDE DEF s
  <1>5. r * (ONE * s) <= r * q /\ r * (ONE * s) \in Nat /\ r * q \in Nat
    BY <1>2, <1>4, ProductType, MulMonotone, OneAssumption
  <1>6. r * (ONE * s) <= x
    BY <1>1, <1>2, <1>5
  <1> QED
    BY <1>3, <1>4, <1>6 DEF x

\* Half a unit of the scale is less than what a price above one leaves.
LEMMA RoundingBelowDiscount ==
    ASSUME NEW e \in Nat, e > ONE
    PROVE  RoundingCorrection * e < ONE * ONE * (e - ONE)
  <1> DEFINE d == e - ONE
             C == RoundingCorrection
  <1>1. d \in Nat \ {0} /\ e = ONE + d
    BY OneAssumption
  <1>2. C \in Nat /\ C <= ONE - 1 /\ ONE - 1 \in Nat
    BY CorrectionType, OneAssumption
  <1> HIDE DEF d, C
  <1>3. e * C <= e * (ONE - 1)
    BY <1>2, MulMonotone
  <1>4. e * (ONE - 1) = (ONE - 1) * ONE + (ONE - 1) * d
    BY <1>1, OneAssumption, SMT
  <1>5. (ONE - 1) * 1 <= (ONE - 1) * d /\ (ONE - 1) * d \in Nat
    BY <1>1, <1>2, MulMonotone
  <1>6. ONE * ((ONE - 1) * 1) <= ONE * ((ONE - 1) * d)
    BY <1>2, <1>5, OneAssumption, MulMonotone
  <1>7. ONE * ONE * d = ONE * ((ONE - 1) * d) + ((ONE - 1) * d + d)
    BY <1>1, OneAssumption, SMT
  <1>8. ONE * ((ONE - 1) * 1) = (ONE - 1) * ONE /\ e * C = C * e
    BY <1>1, <1>2, OneAssumption, SMT
  <1>9. ONE * ((ONE - 1) * d) \in Nat /\ (ONE - 1) * ONE \in Nat
    BY <1>2, <1>5, OneAssumption, ProductType
  <1>10. C * e < ONE * ONE * d
    <2>1. e * C \in Nat /\ e * (ONE - 1) \in Nat
      BY <1>2, ProductType
    <2> QED
      BY <1>1, <1>3, <1>4, <1>5, <1>6, <1>7, <1>8, <1>9, <2>1, SMT
  <1> QED
    BY <1>10 DEF C, d

LEMMA AssetTypes ==
    ASSUME NEW t \in Trade, t.er > ONE, t.fr >= ONE
    PROVE  /\ Whole(t) \in Nat \ {0}
           /\ PreFeeAsset(t) \in Nat
           /\ AssetFee(t) \in Nat
  <1>1. /\ t.er \in Nat \ {0} /\ t.fr \in Nat \ {0} /\ t.pt \in Nat
        /\ t.er - ONE \in Nat /\ t.fr - ONE \in Nat
    BY OneAssumption DEF Trade
  <1>2. Whole(t) \in Nat \ {0}
    BY <1>1, OneAssumption, PositiveProduct DEF Whole
  <1>3. PreFeeAsset(t) \in Nat
    <2>1. t.pt * ONE \in Nat
      BY <1>1, OneAssumption, ProductType
    <2>2. t.pt * ONE * ONE \in Nat
      BY <2>1, OneAssumption, ProductType
    <2> QED
      BY <1>1, <2>2, ProductType DEF PreFeeAsset
  <1>4. AssetFee(t) \in Nat
    <2> DEFINE n == t.pt
               g == t.fr
               d == t.er - ONE
               h == t.fr - ONE
    <2>1. n \in Nat /\ g \in Nat /\ d \in Nat /\ h \in Nat /\ t.is_buy \in BOOLEAN
      BY <1>1 DEF Trade
    <2>2. AssetFee(t) = CASE t.flash               -> n * d * h * g
                          [] ~t.flash /\ t.is_buy  -> n * ONE * ONE * h
                          [] ~t.flash /\ ~t.is_buy -> n * ONE * h * g
      BY DEF AssetFee
    <2> HIDE DEF n, g, d, h
    <2>3. /\ n * d \in Nat /\ n * ONE \in Nat
      BY <2>1, OneAssumption, ProductType
    <2>4. n * d * h \in Nat /\ n * ONE * ONE \in Nat /\ n * ONE * h \in Nat
      BY <2>1, <2>3, OneAssumption, ProductType
    <2>5. /\ n * d * h * g \in Nat /\ n * ONE * ONE * h \in Nat
          /\ n * ONE * h * g \in Nat
      BY <2>1, <2>4, ProductType
    <2> HIDE DEF AssetFee
    <2>6. t.flash \in BOOLEAN
      BY DEF Trade
    <2> QED
      BY <2>1, <2>2, <2>5, <2>6
  <1> QED
    BY <1>2, <1>3, <1>4

\* The fee in SY is worth no more than the fee in asset, and the treasury's
\* part of it is no more than all of it.
LEMMA FeeFacts ==
    ASSUME MarketTypeOK, NEW t \in Trade, t.er > ONE, t.fr >= ONE
    PROVE  /\ SyFee(t) \in Nat
           /\ (Whole(t) * rate) * SyFee(t) <= AssetFee(t) * ONE
           /\ TreasuryFee(t) \in Nat
           /\ TreasuryFee(t) <= SyFee(t)
  <1> DEFINE f   == SyFee(t)
             bps == market.fee_treasury_sy_bps
  <1>1. rate \in Nat \ {0} /\ bps \in Nat /\ bps <= 10000
    <2>1. rate \in Nat \ {0}
      BY MarketAssumption DEF MarketTypeOK
    <2>2. bps \in Bps
      BY DEF MarketTypeOK, MarketTwo
    <2> HIDE DEF bps
    <2> QED
      BY <2>1, <2>2 DEF Bps
  <1>2. /\ Whole(t) * rate \in Nat \ {0}
        /\ AssetFee(t) * ONE \in Nat
    BY <1>1, AssetTypes, PositiveProduct, ProductType, OneAssumption
  <1>3. f \in Nat /\ (Whole(t) * rate) * f <= AssetFee(t) * ONE
    BY <1>2, DivFacts DEF SyFee
  <1> HIDE DEF f
  <1>4. f * bps \in Nat /\ f * bps <= f * 10000
    BY <1>1, <1>3, MulMonotone
  <1>5. f * bps < 10000 * (f + 1)
    BY <1>3, <1>4, SMT
  <1>6. (f * bps) \div 10000 \in Nat /\ (f * bps) \div 10000 <= f
    BY <1>3, <1>4, <1>5, DivFacts, DivBelow
  <1>7. TreasuryFee(t) = (f * bps) \div 10000
    BY DEF TreasuryFee, f
  <1> QED
    BY <1>3, <1>6, <1>7 DEF f

LEMMA NetTraderFacts ==
    ASSUME MarketTypeOK, NEW t \in Trade, CanTrade(t)
    PROVE  /\ t.er > ONE /\ t.fr >= ONE /\ t.pt \in Nat \ {0}
           /\ t.is_buy \in BOOLEAN
           /\ NetTraderAsset(t) \in Nat
           /\ NetTraderSy(t) \in Nat
  <1>1. t.er > ONE /\ t.fr >= ONE /\ t.pt \in Nat \ {0}
    BY DEF CanTrade, CurveAccepts, Trade
  <1>2. rate \in Nat \ {0}
    BY MarketAssumption DEF MarketTypeOK
  <1>3. t.is_buy \in BOOLEAN
    BY DEF Trade
  <1> DEFINE A == PreFeeAsset(t)
             F == AssetFee(t)
             W == Whole(t)
  <1>4. A \in Nat /\ F \in Nat /\ W \in Nat \ {0}
    BY <1>1, AssetTypes
  <1>5. CASE t.is_buy
    <2>1. NetTraderAsset(t) = (A + F + W - 1) \div W
      BY <1>5 DEF NetTraderAsset, CeilDiv
    <2> HIDE DEF A, F, W
    <2>2. A + F + W - 1 \in Nat
      BY <1>4
    <2>3. NetTraderAsset(t) \in Nat
      BY <1>4, <2>1, <2>2, DivFacts
    <2> QED
      BY <1>1, <1>2, <1>3, <1>5, <2>3, PyToSyCeilType DEF NetTraderSy
  <1>6. CASE ~t.is_buy
    <2>1. NetTraderAsset(t) = (A - F) \div W
      BY <1>6 DEF NetTraderAsset
    <2>2. A > F
      BY <1>6 DEF CanTrade
    <2> HIDE DEF A, F, W
    <2>3. A - F \in Nat
      BY <1>4, <2>2
    <2>4. NetTraderAsset(t) \in Nat
      BY <1>4, <2>1, <2>3, DivFacts
    <2> QED
      BY <1>1, <1>2, <1>3, <1>6, <2>4, PyToSyType DEF NetTraderSy
  <1> QED
    BY <1>5, <1>6

\* What the pool gives up in a sale, fee included, is worth less than the PT
\* it gains at par, and less than all the SY it has.
LEMMA SaleBelowPar ==
    ASSUME MarketTypeOK, NEW t \in Trade, CanTrade(t), ~t.is_buy
    PROVE  /\ (NetTraderSy(t) + TreasuryFee(t)) * rate < t.pt * ONE
           /\ NetTraderSy(t) + TreasuryFee(t) < market.sy_balance
  <1> DEFINE s == NetTraderSy(t)
             f == SyFee(t)
             a == NetTraderAsset(t)
             A == PreFeeAsset(t)
             F == AssetFee(t)
             W == Whole(t)
             n == t.pt
             e == t.er
             g == t.fr
             d == t.er - ONE
             C == RoundingCorrection
             S == market.sy_balance
  <1>1. /\ e > ONE /\ g \in Nat \ {0} /\ n \in Nat \ {0} /\ e \in Nat
        /\ d \in Nat /\ a \in Nat /\ s \in Nat
    BY NetTraderFacts, OneAssumption DEF Trade
  <1>2. A \in Nat /\ F \in Nat /\ W \in Nat \ {0} /\ f \in Nat
    BY NetTraderFacts, AssetTypes, FeeFacts
  <1>3. rate \in Nat \ {0} /\ S \in Nat /\ C \in Nat
    BY MarketAssumption, CorrectionType DEF MarketTypeOK, MarketTwo
  <1>4. A > F /\ W * a <= A - F
    <2>1. a = (A - F) \div W
      BY DEF NetTraderAsset
    <2>2. A > F
      BY DEF CanTrade
    <2> HIDE DEF a, A, F, W
    <2> QED
      BY <1>2, <2>1, <2>2, DivFacts
  <1>5. (W * rate) * f <= F * ONE
    BY NetTraderFacts, FeeFacts
  <1>6. rate * (ONE * s) <= a * ONE * ONE + C
    BY <1>1, <1>3, PaidWorth DEF NetTraderSy
  <1>7. A = n * ONE * ONE * g /\ W = e * g * ONE
    BY DEF PreFeeAsset, Whole
  <1>8. C * e < ONE * ONE * d
    BY <1>1, RoundingBelowDiscount
  <1>9. n < SyToPy(rate, S)
    BY DEF CanTrade, CurveAccepts
  <1>10. /\ TreasuryFee(t) \in Nat
         /\ TreasuryFee(t) <= f
    BY NetTraderFacts, FeeFacts
  <1>11. e = ONE + d
    BY <1>1, OneAssumption
  <1> HIDE DEF s, f, a, A, F, W, n, e, g, d, C, S
  \* In units of the asset, scaled: what is paid and the fee add up to less
  \* than the value before the fee and the rounding.
  <1>12. W * (rate * (ONE * s)) + ONE * ((W * rate) * f)
           <= A * ONE * ONE + W * C
    <2>1. W * (rate * (ONE * s)) <= W * (a * ONE * ONE + C)
      <3>1. rate * (ONE * s) \in Nat /\ a * ONE * ONE + C \in Nat
        BY <1>1, <1>3, OneAssumption, ProductType
      <3> QED
        BY <1>2, <1>6, <3>1, MulMonotone
    <2>2. W * (a * ONE * ONE + C) = (ONE * ONE) * (W * a) + W * C
      BY <1>1, <1>2, <1>3, OneAssumption, SMT
    <2>3. (ONE * ONE) * (W * a) <= (ONE * ONE) * (A - F)
      BY <1>1, <1>2, <1>4, OneAssumption, ProductType, MulMonotone, SMT
    <2>4. ONE * ((W * rate) * f) <= ONE * (F * ONE)
      <3>1. (W * rate) * f \in Nat /\ F * ONE \in Nat
        BY <1>2, <1>3, OneAssumption, ProductType
      <3> QED
        BY <1>5, <3>1, OneAssumption, MulMonotone
    <2>5. (ONE * ONE) * (A - F) + ONE * (F * ONE) = A * ONE * ONE
      BY <1>2, <1>4, OneAssumption, SMT
    <2>6. /\ W * (rate * (ONE * s)) \in Nat /\ ONE * ((W * rate) * f) \in Nat
          /\ (ONE * ONE) * (W * a) \in Nat /\ W * C \in Nat
          /\ (ONE * ONE) * (A - F) \in Nat /\ ONE * (F * ONE) \in Nat
      <3>1. A - F \in Nat
        BY <1>2, <1>4
      <3> QED
        BY <1>1, <1>2, <1>3, <3>1, OneAssumption, ProductType
    <2>7. A * ONE * ONE \in Nat
      BY <2>5, <2>6, SMT
    <2> QED
      BY <2>1, <2>2, <2>3, <2>4, <2>5, <2>6, <2>7, SMT
  \* And that, rounding included, is less than the PT at par.
  <1>13. A * ONE * ONE + W * C < (ONE * W) * (n * ONE)
    <2> DEFINE X == ONE * ONE * d
               G == g * ONE
    <2>1. X \in Nat /\ G \in Nat \ {0} /\ C * e \in Nat
      BY <1>1, <1>3, OneAssumption, ProductType, PositiveProduct
    <2>2. G * (C * e) < G * X
      <3> HIDE DEF X, G
      <3>1. C * e + 1 <= X /\ C * e + 1 \in Nat
        BY <1>8, <2>1 DEF X
      <3>2. G * (C * e + 1) <= G * X
        BY <2>1, <3>1, MulMonotone
      <3>3. G * (C * e + 1) = G * (C * e) + G
        BY <2>1, SMT
      <3> QED
        BY <2>1, <3>2, <3>3, ProductType, SMT
    <2>3. (G * X) * 1 <= (G * X) * n
      <3> HIDE DEF X, G
      <3> QED
        BY <1>1, <2>1, ProductType, MulMonotone
    <2>4. W * C = G * (C * e)
      BY <1>1, <1>3, <1>7, OneAssumption, SMT
    <2>5. (ONE * W) * (n * ONE) = A * ONE * ONE + (G * X) * n
      BY <1>1, <1>7, <1>11, OneAssumption, SMT
    <2>6. A * ONE * ONE \in Nat
      BY <1>2, OneAssumption, ProductType
    <2> HIDE DEF X, G
    <2>7. G * (C * e) \in Nat /\ G * X \in Nat /\ (G * X) * n \in Nat
      BY <1>1, <2>1, ProductType
    <2> QED
      BY <2>2, <2>3, <2>4, <2>5, <2>6, <2>7, SMT
  <1>14. (s + f) * rate < n * ONE
    <2>1. W * (rate * (ONE * s)) + ONE * ((W * rate) * f)
            = (ONE * W) * ((s + f) * rate)
      BY <1>1, <1>2, <1>3, OneAssumption, SMT
    <2>2. /\ ONE * W \in Nat /\ (s + f) * rate \in Nat /\ n * ONE \in Nat
      BY <1>1, <1>2, <1>3, OneAssumption, ProductType
    <2>3. (ONE * W) * ((s + f) * rate) \in Nat /\ (ONE * W) * (n * ONE) \in Nat
      BY <2>2, ProductType
    <2>4. A * ONE * ONE + W * C \in Nat
      BY <1>2, <1>3, OneAssumption, ProductType
    <2>5. (ONE * W) * ((s + f) * rate) < (ONE * W) * (n * ONE)
      BY <1>12, <1>13, <2>1, <2>3, <2>4, SMT
    <2> QED
      BY <2>2, <2>5, CancelStrict
  <1>15. (s + TreasuryFee(t)) * rate < n * ONE
    <2>1. s + TreasuryFee(t) \in Nat /\ s + f \in Nat
          /\ s + TreasuryFee(t) <= s + f
      BY <1>1, <1>2, <1>10, SMT
    <2>2. rate * (s + TreasuryFee(t)) <= rate * (s + f)
      BY <1>3, <2>1, MulMonotone
    <2>3. /\ rate * (s + TreasuryFee(t)) = (s + TreasuryFee(t)) * rate
          /\ rate * (s + f) = (s + f) * rate
      BY <1>1, <1>2, <1>3, <1>10, SMT
    <2>4. /\ (s + TreasuryFee(t)) * rate \in Nat /\ (s + f) * rate \in Nat
          /\ n * ONE \in Nat
      BY <1>1, <1>3, <2>1, OneAssumption, ProductType
    <2> QED
      BY <1>14, <2>2, <2>3, <2>4, SMT
  <1>16. s + TreasuryFee(t) < S
    <2> DEFINE v == SyToPy(rate, S)
               p == s + TreasuryFee(t)
    <2>1. v \in Nat /\ ONE * v <= S * rate
      BY <1>3, WorthFloor
    <2> HIDE DEF v
    <2>2. ONE * n <= ONE * v
      BY <1>1, <1>9, <2>1, OneAssumption, MulMonotone DEF v
    <2>3. p \in Nat
      BY <1>1, <1>10
    <2> HIDE DEF p
    <2>4. /\ p * rate = rate * p /\ S * rate = rate * S /\ n * ONE = ONE * n
      BY <1>1, <1>3, <2>3, OneAssumption, SMT
    <2>5. /\ rate * p \in Nat /\ rate * S \in Nat /\ ONE * n \in Nat
          /\ ONE * v \in Nat
      BY <1>1, <1>3, <2>1, <2>3, OneAssumption, ProductType
    <2>6. rate * p < rate * S
      BY <1>15, <2>1, <2>2, <2>4, <2>5, SMT DEF p
    <2> QED
      BY <1>3, <2>3, <2>6, CancelStrict DEF p
  <1> QED
    BY <1>15, <1>16 DEF s, n, S

-----------------------------------------------------------------------------
(* The invariant, and what every step keeps.                               *)

\* The three invariants are inductive together: custody needs the types to
\* subtract, and a stocked pool is what add_liquidity divides by.
MarketInv == MarketTypeOK /\ PoolInCustody /\ PoolStocked

NotDiluted ==
    tokens'.mint_lp # tokens.mint_lp =>
        /\ market'.pt_balance * tokens.mint_lp
               >= market.pt_balance * tokens'.mint_lp
        /\ market'.sy_balance * tokens.mint_lp
               >= market.sy_balance * tokens'.mint_lp

SurplusKept ==
    tokens'.sy_position - market'.sy_balance
        >= tokens.sy_position - market.sy_balance

BelowPar ==
    (tokens'.mint_lp = tokens.mint_lp /\ market'.pt_balance > market.pt_balance)
        => (market.sy_balance - market'.sy_balance) * rate
               < (market'.pt_balance - market.pt_balance) * ONE

InWindow ==
    LET l == market.limits
        k == market'.limits
        start == k.window_start_net_balance
    IN  /\ start # l.window_start_net_balance =>
               now > l.window_start_timestamp + l.duration
        /\ tokens'.mint_lp # tokens.mint_lp =>
               /\ tokens'.mint_lp * 10000 >= start * (10000 - k.negative)
               /\ k.positive < MaxU32 =>
                      tokens'.mint_lp * 10000 <= start * (10000 + k.positive)

GoodStep == MarketInv' /\ NotDiluted /\ SurplusKept /\ BelowPar /\ InWindow

LEMMA InitialInv == Init => MarketInv
  <1> SUFFICES ASSUME Init PROVE MarketInv
    OBVIOUS
  <1>1. MarketTypeOK
    <2>1. now \in 0..MaxTime /\ rate \in Rates
      BY MarketAssumption, SMT DEF Init, MarketTwoInit
    <2>2. market.limits \in LiquidityNetBalanceLimits
      <3>1. 10000 \in Bps
        BY SMT DEF Bps
      <3>2. 0 \in 0..MaxU32 /\ MaxU32 \in 0..MaxU32 /\ 0 \in Nat
        BY MarketAssumption
      <3> QED
        BY <3>1, <3>2 DEF Init, MarketTwoInit, LiquidityNetBalanceLimits
    <2>3. market \in MarketTwo
      BY <2>2, MarketAssumption DEF Init, MarketTwoInit, MarketTwo
    <2>4. tokens \in Tokens
      BY MarketAssumption, InitialLpAssumption DEF Init, MarketTwoInit, Tokens
    <2> QED
      BY <2>1, <2>3, <2>4 DEF MarketTypeOK
  <1>2. PoolInCustody /\ PoolStocked
    BY MarketAssumption DEF Init, MarketTwoInit, PoolInCustody, PoolStocked
  <1> QED
    BY <1>1, <1>2 DEF MarketInv

LEMMA CurrentWindowFacts ==
    ASSUME MarketTypeOK, NEW supply \in Nat
    PROVE  /\ CurrentWindow(supply) \in LiquidityNetBalanceLimits
           /\ CurrentWindow(supply).window_start_net_balance
                  # market.limits.window_start_net_balance =>
                now > market.limits.window_start_timestamp
                          + market.limits.duration
  <1> DEFINE l == market.limits
  <1>1. l \in LiquidityNetBalanceLimits
    BY DEF MarketTypeOK, MarketTwo
  <1>2. now \in 0..MaxU32
    BY MarketAssumption DEF MarketTypeOK
  <1>3. CASE now > l.window_start_timestamp + l.duration
    <2>1. CurrentWindow(supply) =
            [l EXCEPT !.window_start_timestamp = now,
                      !.window_start_net_balance = supply]
      BY <1>3 DEF CurrentWindow
    <2>2. now \in 0..MaxU32 /\ supply \in Nat
      BY <1>2
    <2> HIDE DEF l
    <2>3. [l EXCEPT !.window_start_timestamp = now,
                    !.window_start_net_balance = supply]
             \in LiquidityNetBalanceLimits
      <3> DEFINE U == 0..MaxU32
                 B == Bps
                 N == Nat
      <3>1. LiquidityNetBalanceLimits =
              [window_start_timestamp : U, window_start_net_balance : N,
               negative : B, positive : U, duration : U]
        BY DEF LiquidityNetBalanceLimits
      <3>2. now \in U /\ supply \in N
        BY <2>2
      <3> HIDE DEF U, B, N
      <3> QED
        BY <1>1, <3>1, <3>2, Zenon
    <2> QED
      BY <1>3, <2>1, <2>3 DEF l
  <1>4. CASE ~(now > l.window_start_timestamp + l.duration)
    <2>1. CurrentWindow(supply) = l
      BY <1>4 DEF CurrentWindow
    <2> QED
      BY <1>1, <2>1
  <1> QED
    BY <1>3, <1>4

\* A change of k basis points, rounded up, is a change of at most k.
LEMMA ChangeBpsBound ==
    ASSUME NEW change \in Nat, NEW start \in Nat, NEW k \in Nat,
           ChangeBps(change, start) <= k, start = 0 => k < MaxU32
    PROVE  change * 10000 <= k * start
  <1>0. MaxU32 \in Nat
    BY MarketAssumption
  <1>1. CASE change = 0
    <2>1. k * start \in Nat
      BY ProductType
    <2> QED
      BY <1>1, <2>1
  <1>2. CASE change # 0 /\ start = 0
    <2>1. ChangeBps(change, start) = MaxU32
      BY <1>2 DEF ChangeBps
    <2> QED
      BY <1>0, <1>2, <2>1
  <1>3. CASE change # 0 /\ start # 0
    <2> DEFINE x == change * 10000 + start - 1
               q == x \div start
    <2>1. x \in Nat
      BY <1>3
    <2>2. ChangeBps(change, start) = q
      BY <1>3 DEF ChangeBps, CeilDiv
    <2> HIDE DEF x
    <2>3. q \in Nat /\ x < start * (q + 1)
      BY <1>3, <2>1, DivFacts
    <2> HIDE DEF q
    <2>4. start * (q + 1) = start * q + start /\ start * q \in Nat
      BY <2>3, SMT
    <2>5. change * 10000 <= start * q
      BY <2>3, <2>4, SMT DEF x
    <2>6. start * q <= start * k
      BY <2>2, <2>3, MulMonotone
    <2>7. start * k = k * start /\ start * k \in Nat
      BY SMT
    <2> QED
      BY <2>4, <2>5, <2>6, <2>7, SMT
  <1> QED
    BY <1>1, <1>2, <1>3

\* verify_limits leaves the supply within the window that it writes back.
LEMMA VerifiedInWindow ==
    ASSUME MarketTypeOK, NEW supply \in Nat, VerifyLimits(supply),
           market'.limits = CurrentWindow(tokens.mint_lp),
           tokens'.mint_lp = supply
    PROVE  InWindow
  <1> DEFINE k     == CurrentWindow(tokens.mint_lp)
             start == k.window_start_net_balance
             down  == start - supply
             up    == supply - start
  <1>1. tokens.mint_lp \in Nat
    BY DEF MarketTypeOK, Tokens
  <1>2. k \in LiquidityNetBalanceLimits
    BY <1>1, CurrentWindowFacts
  <1>3. start # market.limits.window_start_net_balance =>
            now > market.limits.window_start_timestamp + market.limits.duration
    BY <1>1, CurrentWindowFacts
  <1>4. WithinLimits(k, supply)
    BY DEF VerifyLimits
  <1> HIDE DEF k
  <1>5. /\ start \in Nat /\ MaxU32 \in Nat
        /\ k.negative \in Nat /\ k.negative <= 10000 /\ k.positive \in Nat
    <2>1. start \in Nat /\ k.negative \in Bps /\ k.positive \in 0..MaxU32
      BY <1>2 DEF LiquidityNetBalanceLimits
    <2>2. MaxU32 \in Nat
      BY MarketAssumption
    <2> HIDE DEF start
    <2> DEFINE neg == k.negative
               pos == k.positive
    <2> HIDE DEF neg, pos
    <2>3. neg \in Nat /\ neg <= 10000
      <3>1. neg \in Bps
        BY <2>1 DEF neg
      <3> QED
        BY <3>1 DEF Bps
    <2>4. pos \in Nat
      <3>1. pos \in 0..MaxU32
        BY <2>1 DEF pos
      <3> QED
        BY <2>2, <3>1
    <2> QED
      BY <2>1, <2>2, <2>3, <2>4 DEF neg, pos
  <1>6. supply >= start => ChangeBps(up, start) <= k.positive
    BY <1>4 DEF WithinLimits
  <1>7. ~(supply >= start) => ChangeBps(down, start) <= k.negative
    BY <1>4 DEF WithinLimits
  <1> HIDE DEF start
  <1>8. supply * 10000 >= start * (10000 - k.negative)
    <2>0. 10000 - k.negative \in Nat
      BY <1>5
    <2>1. CASE supply >= start
      <3>1. start * (10000 - k.negative) <= start * 10000
        BY <1>5, <2>0, MulMonotone
      <3>2. start * (10000 - k.negative) \in Nat
        BY <1>5, <2>0, ProductType
      <3> QED
        BY <1>5, <2>1, <3>1, <3>2, SMT
    <2>2. CASE ~(supply >= start)
      <3>1. down \in Nat /\ start # 0
        BY <1>5, <2>2
      <3> HIDE DEF down
      <3>2. down * 10000 <= k.negative * start
        BY <1>5, <1>7, <2>2, <3>1, ChangeBpsBound
      <3>3. start * (10000 - k.negative) = start * 10000 - k.negative * start
        BY <1>5, SMT
      <3>4. k.negative * start \in Nat
        BY <1>5, ProductType
      <3> QED
        BY <1>5, <2>2, <3>2, <3>3, <3>4, SMT DEF down
    <2> QED
      BY <2>1, <2>2
  <1>9. ASSUME k.positive < MaxU32
        PROVE  supply * 10000 <= start * (10000 + k.positive)
    <2>1. start * (10000 + k.positive) = start * 10000 + k.positive * start
      BY <1>5, SMT
    <2>2. k.positive * start \in Nat
      BY <1>5, ProductType
    <2>3. CASE supply >= start
      <3>1. up \in Nat
        BY <1>5, <2>3
      <3> HIDE DEF up
      <3>2. up * 10000 <= k.positive * start
        BY <1>5, <1>6, <1>9, <2>3, <3>1, ChangeBpsBound
      <3> QED
        BY <1>5, <2>1, <2>2, <2>3, <3>2, SMT DEF up
    <2>4. CASE ~(supply >= start)
      BY <1>5, <2>1, <2>2, <2>4, SMT
    <2> QED
      BY <2>3, <2>4
  <1> QED
    BY <1>3, <1>8, <1>9 DEF InWindow, k, start

LEMMA Accounts ==
    ASSUME MarketTypeOK
    PROVE  /\ market.pt_balance \in Nat /\ market.sy_balance \in Nat
           /\ tokens.mint_lp \in Nat /\ tokens.pt_escrow \in Nat
           /\ tokens.sy_position \in Nat
           /\ rate \in Nat \ {0}
  <1>1. market.pt_balance \in Nat /\ market.sy_balance \in Nat
    BY DEF MarketTypeOK, MarketTwo
  <1>2. /\ tokens.mint_lp \in Nat /\ tokens.pt_escrow \in Nat
        /\ tokens.sy_position \in Nat
    BY DEF MarketTypeOK, Tokens
  <1>3. rate \in Nat \ {0}
    BY MarketAssumption DEF MarketTypeOK
  <1> QED
    BY <1>1, <1>2, <1>3

\* The account with other balances, or another window, is an account.
LEMMA MarketUpdates ==
    ASSUME NEW m \in MarketTwo, NEW p \in Nat, NEW q \in Nat,
           NEW l \in LiquidityNetBalanceLimits
    PROVE  /\ [m EXCEPT !.pt_balance = p, !.sy_balance = q] \in MarketTwo
           /\ [m EXCEPT !.pt_balance = p, !.sy_balance = q, !.limits = l]
                \in MarketTwo
           /\ [m EXCEPT !.limits = l] \in MarketTwo
           /\ \A flag \in BOOLEAN :
                  [m EXCEPT !.is_current_flash_swap = flag] \in MarketTwo
  <1> DEFINE N == Nat
             B == Bps
             F == SUBSET Flags
             W == LiquidityNetBalanceLimits
             T == BOOLEAN
  <1>1. MarketTwo = [pt_balance : N, sy_balance : N, status_flags : F,
                     fee_treasury_sy_bps : B, max_lp_supply : N,
                     is_current_flash_swap : T, limits : W]
    BY DEF MarketTwo
  <1>2. p \in N /\ q \in N /\ l \in W
    OBVIOUS
  <1> HIDE DEF N, B, F, W, T
  <1>3. [m EXCEPT !.pt_balance = p, !.sy_balance = q] \in MarketTwo
    BY <1>1, <1>2, Zenon
  <1>4. [m EXCEPT !.pt_balance = p, !.sy_balance = q, !.limits = l]
          \in MarketTwo
    BY <1>1, <1>2, Zenon
  <1>5. [m EXCEPT !.limits = l] \in MarketTwo
    BY <1>1, <1>2, Zenon
  <1>6. ASSUME NEW flag \in T
        PROVE  [m EXCEPT !.is_current_flash_swap = flag] \in MarketTwo
    BY <1>1, Zenon
  <1> QED
    BY <1>3, <1>4, <1>5, <1>6 DEF T

\* Steps that leave the pool, the tokens and the window's start alone.
LEMMA PoolUntouched ==
    ASSUME MarketInv, market' \in MarketTwo,
           market'.pt_balance = market.pt_balance,
           market'.sy_balance = market.sy_balance,
           market'.limits.window_start_net_balance
               = market.limits.window_start_net_balance,
           tokens' = tokens, now' \in 0..MaxTime, rate' \in Rates
    PROVE  GoodStep
  <1> USE DEF MarketInv
  <1>1. MarketTypeOK'
    BY DEF MarketTypeOK
  <1>2. PoolInCustody' /\ PoolStocked'
    BY DEF PoolInCustody, PoolStocked
  <1>3. NotDiluted /\ InWindow
    BY DEF NotDiluted, InWindow
  <1>4. SurplusKept /\ BelowPar
    BY Accounts, SMT DEF SurplusKept, BelowPar
  <1> QED
    BY <1>1, <1>2, <1>3, <1>4 DEF GoodStep

\* Trades: the pool's books and the accounts move by the same amounts, but for
\* what a flash swap leaves in the SY program.
LEMMA TradeGood ==
    ASSUME MarketInv, NEW t \in Trade, CanTrade(t), NEW left \in Nat,
           now' = now, rate' = rate, market' \in MarketTwo,
           market'.limits = market.limits,
           market'.pt_balance = IF t.is_buy THEN market.pt_balance - t.pt
                                ELSE market.pt_balance + t.pt,
           market'.sy_balance =
               IF t.is_buy
               THEN market.sy_balance + NetTraderSy(t) - TreasuryFee(t)
               ELSE market.sy_balance - NetTraderSy(t) - TreasuryFee(t),
           tokens' = [mint_lp |-> tokens.mint_lp,
                      pt_escrow |-> market'.pt_balance,
                      sy_position |-> tokens.sy_position
                          + (market'.sy_balance - market.sy_balance) + left]
    PROVE  GoodStep
  <1> DEFINE P  == market.pt_balance
             S  == market.sy_balance
             P1 == market'.pt_balance
             S1 == market'.sy_balance
             n  == t.pt
             s  == NetTraderSy(t)
             f  == TreasuryFee(t)
             Y  == tokens.sy_position
  <1>1. /\ P \in Nat /\ S \in Nat /\ Y \in Nat /\ tokens.mint_lp \in Nat
        /\ rate \in Nat \ {0} /\ Y >= S
    BY Accounts DEF MarketInv, PoolInCustody
  <1>2. /\ n \in Nat \ {0} /\ s \in Nat /\ f \in Nat /\ t.is_buy \in BOOLEAN
    BY NetTraderFacts, FeeFacts DEF MarketInv
  <1>3. ASSUME t.is_buy
        PROVE  P1 \in Nat \ {0} /\ P1 < P /\ S1 \in Nat /\ S1 >= S
    <2>1. n < P /\ f <= s
      BY <1>3 DEF CanTrade, CurveAccepts
    <2>2. P1 = P - n /\ S1 = S + s - f
      BY <1>3
    <2> HIDE DEF P, S, P1, S1, n, s, f
    <2> QED
      BY <1>1, <1>2, <2>1, <2>2, SMT
  <1>4. ASSUME ~t.is_buy
        PROVE  /\ P1 \in Nat \ {0} /\ S1 \in Nat \ {0}
               /\ (S - S1) * rate < (P1 - P) * ONE
    <2>1. (s + f) * rate < n * ONE /\ s + f < S
      BY <1>4, SaleBelowPar DEF MarketInv
    <2>2. P1 = P + n /\ S1 = S - s - f
      BY <1>4
    <2> HIDE DEF P, S, P1, S1, n, s, f
    <2>3. P1 - P = n /\ S - S1 = s + f
      BY <1>1, <1>2, <2>2, SMT
    <2> QED
      BY <1>1, <1>2, <2>1, <2>2, <2>3
  <1>5. P1 \in Nat \ {0} /\ S1 \in Nat /\ (S > 0 => S1 > 0)
    BY <1>1, <1>2, <1>3, <1>4
  <1>6. tokens'.pt_escrow = P1 /\ tokens'.mint_lp = tokens.mint_lp
        /\ tokens'.sy_position = Y + (S1 - S) + left
    OBVIOUS
  <1>7. /\ Y + (S1 - S) + left \in Nat
        /\ Y + (S1 - S) + left >= S1
        /\ Y + (S1 - S) + left - S1 >= Y - S
    <2> HIDE DEF S, S1, Y
    <2> QED
      BY <1>1, <1>5, SMT
  <1>8. MarketTypeOK'
    <2>1. tokens' \in Tokens
      BY <1>1, <1>5, <1>7 DEF Tokens
    <2> QED
      BY <2>1 DEF MarketInv, MarketTypeOK
  <1>9. PoolInCustody' /\ PoolStocked'
    <2>1. PoolInCustody'
      BY <1>6, <1>7 DEF PoolInCustody
    <2>2. tokens.mint_lp > 0 => S > 0
      BY DEF MarketInv, PoolStocked
    <2>3. P1 > 0 /\ (tokens.mint_lp > 0 => S1 > 0)
      BY <1>5, <2>2, SMT
    <2>4. PoolStocked'
      BY <1>6, <2>3 DEF PoolStocked
    <2> QED
      BY <2>1, <2>4
  <1>10. NotDiluted /\ InWindow
    BY <1>6 DEF NotDiluted, InWindow
  <1>11. SurplusKept
    <2> DEFINE Y1 == tokens'.sy_position
    <2>1. Y1 = Y + (S1 - S) + left
      BY <1>6
    <2>2. Y1 - S1 >= Y - S
      <3> HIDE DEF Y1, Y, S, S1
      <3> QED
        BY <1>1, <1>5, <1>7, <2>1
    <2> QED
      BY <2>2 DEF SurplusKept
  <1>12. BelowPar
    <2>1. P1 > P => ~t.is_buy
      BY <1>1, <1>3, SMT
    <2> QED
      BY <1>4, <2>1 DEF BelowPar
  <1> QED
    BY <1>8, <1>9, <1>10, <1>11, <1>12 DEF MarketInv, GoodStep

\* A sale or purchase written to the account leaves the rest of it alone.
LEMMA TradedFacts ==
    ASSUME MarketTypeOK, NEW t \in Trade, CanTrade(t), NEW m \in MarketTwo,
           m.pt_balance = market.pt_balance, m.sy_balance = market.sy_balance
    PROVE  LET k == Traded(m, t) IN
           /\ k \in MarketTwo
           /\ k.limits = m.limits
           /\ k.pt_balance = IF t.is_buy THEN market.pt_balance - t.pt
                             ELSE market.pt_balance + t.pt
           /\ k.sy_balance =
                  IF t.is_buy
                  THEN market.sy_balance + NetTraderSy(t) - TreasuryFee(t)
                  ELSE market.sy_balance - NetTraderSy(t) - TreasuryFee(t)
  <1> DEFINE P1 == IF t.is_buy THEN market.pt_balance - t.pt
                   ELSE market.pt_balance + t.pt
             S1 == IF t.is_buy
                   THEN market.sy_balance + NetTraderSy(t) - TreasuryFee(t)
                   ELSE market.sy_balance - NetTraderSy(t) - TreasuryFee(t)
             k  == Traded(m, t)
  <1>1. P1 \in Nat /\ S1 \in Nat
    <2> DEFINE P == market.pt_balance
               S == market.sy_balance
               n == t.pt
               s == NetTraderSy(t)
               f == TreasuryFee(t)
    <2>1. P \in Nat /\ S \in Nat
      BY Accounts
    <2>2. n \in Nat /\ s \in Nat /\ f \in Nat /\ t.is_buy \in BOOLEAN
      BY NetTraderFacts, FeeFacts
    <2>3. CASE t.is_buy
      <3>1. n < P /\ f <= s /\ P1 = P - n /\ S1 = S + s - f
        BY <2>3 DEF CanTrade, CurveAccepts
      <3> HIDE DEF P, S, n, s, f, P1, S1
      <3> QED
        BY <2>1, <2>2, <3>1, SMT
    <2>4. CASE ~t.is_buy
      <3>1. s + f <= S /\ P1 = P + n /\ S1 = S - s - f
        BY <2>4 DEF CanTrade
      <3> HIDE DEF P, S, n, s, f, P1, S1
      <3> QED
        BY <2>1, <2>2, <3>1, SMT
    <2> QED
      BY <2>3, <2>4
  <1>2. k = [m EXCEPT !.pt_balance = P1, !.sy_balance = S1]
    BY DEF Traded
  <1> HIDE DEF P1, S1, k
  <1>3. k \in MarketTwo
    <2>1. m.limits \in LiquidityNetBalanceLimits
      BY DEF MarketTwo
    <2> QED
      BY <1>1, <1>2, <2>1, MarketUpdates
  <1>4. k.pt_balance = P1 /\ k.sy_balance = S1 /\ k.limits = m.limits
    BY <1>2 DEF MarketTwo
  <1> QED
    BY <1>3, <1>4 DEF k, P1, S1

-----------------------------------------------------------------------------
(* Each instruction.                                                       *)

LEMMA DepositGood ==
    ASSUME MarketInv, NEW pt \in Nat, NEW sy \in Nat,
           DepositLiquidity(pt, sy)
    PROVE  GoodStep
  <1> DEFINE r  == AddLiquidity(pt, sy)
             P  == market.pt_balance
             S  == market.sy_balance
             L  == tokens.mint_lp
             E  == tokens.pt_escrow
             Y  == tokens.sy_position
             W  == CurrentWindow(L)
             pi == r.pt_in
             si == r.sy_in
             lp == r.lp_out
  <1>1. /\ P \in Nat /\ S \in Nat /\ L \in Nat /\ E \in Nat /\ Y \in Nat
        /\ rate \in Nat \ {0}
    BY Accounts DEF MarketInv
  <1>2. /\ pi \in Nat /\ si \in Nat /\ lp \in Nat
        /\ lp * P <= L * pi /\ lp * S <= L * si
        /\ L = 0 => lp = 0
    BY AddLiquidityFacts DEF MarketInv
  <1>3. E = P /\ Y >= S /\ (L > 0 => P > 0 /\ S > 0)
    BY DEF MarketInv, PoolInCustody, PoolStocked
  <1>4. /\ VerifyLimits(L + lp)
        /\ market' = [market EXCEPT !.pt_balance = P + pi,
                                    !.sy_balance = S + si, !.limits = W]
        /\ tokens' = [mint_lp |-> L + lp, pt_escrow |-> E + pi,
                      sy_position |-> Y + si]
        /\ now' = now /\ rate' = rate
    BY DEF DepositLiquidity
  <1>5. market \in MarketTwo /\ W \in LiquidityNetBalanceLimits
    BY <1>1, CurrentWindowFacts DEF MarketInv, MarketTypeOK
  <1>6. L + lp \in Nat /\ P + pi \in Nat /\ S + si \in Nat
        /\ E + pi \in Nat /\ Y + si \in Nat
    BY <1>1, <1>2
  <1> HIDE DEF r, P, S, L, E, Y, W, pi, si, lp
  <1>7. market' \in MarketTwo
    BY <1>4, <1>5, <1>6, MarketUpdates
  <1>8. /\ market'.pt_balance = P + pi /\ market'.sy_balance = S + si
        /\ market'.limits = W
    BY <1>4, <1>5 DEF MarketTwo
  <1>9. /\ tokens'.mint_lp = L + lp /\ tokens'.pt_escrow = E + pi
        /\ tokens'.sy_position = Y + si
    BY <1>4
  <1>10. MarketTypeOK'
    <2>1. tokens' \in Tokens
      BY <1>4, <1>6 DEF Tokens
    <2> QED
      BY <1>4, <1>7, <2>1 DEF MarketInv, MarketTypeOK
  <1>11. PoolInCustody' /\ PoolStocked'
    <2>1. E + pi = P + pi /\ Y + si >= S + si
      BY <1>1, <1>2, <1>3
    <2>2. L + lp > 0 => P + pi > 0 /\ S + si > 0
      BY <1>1, <1>2, <1>3
    <2> QED
      BY <1>8, <1>9, <2>1, <2>2 DEF PoolInCustody, PoolStocked
  <1>12. NotDiluted
    <2>1. (P + pi) * L >= P * (L + lp)
      <3>1. /\ (P + pi) * L = P * L + L * pi
            /\ P * (L + lp) = P * L + lp * P
        BY <1>1, <1>2, SMT
      <3>2. P * L \in Nat /\ L * pi \in Nat /\ lp * P \in Nat
        BY <1>1, <1>2, ProductType
      <3> QED
        BY <1>2, <3>1, <3>2, SMT
    <2>2. (S + si) * L >= S * (L + lp)
      <3>1. /\ (S + si) * L = S * L + L * si
            /\ S * (L + lp) = S * L + lp * S
        BY <1>1, <1>2, SMT
      <3>2. S * L \in Nat /\ L * si \in Nat /\ lp * S \in Nat
        BY <1>1, <1>2, ProductType
      <3> QED
        BY <1>2, <3>1, <3>2, SMT
    <2> QED
      BY <1>8, <1>9, <2>1, <2>2 DEF NotDiluted, P, S, L
  <1>13. SurplusKept
    <2>1. (Y + si) - (S + si) >= Y - S
      BY <1>1, <1>2
    <2> QED
      BY <1>8, <1>9, <2>1 DEF SurplusKept, Y, S
  <1>14. BelowPar
    <2>1. SUFFICES ASSUME market'.pt_balance > P
                   PROVE  (S - (S + si)) * rate < ((P + pi) - P) * ONE
      BY <1>8 DEF BelowPar, P, S
    <2>2. pi \in Nat \ {0} /\ (P + pi) - P = pi
      BY <1>1, <1>2, <1>8, <2>1
    <2>3. pi * ONE \in Nat \ {0}
      BY <2>2, OneAssumption, PositiveProduct
    <2>4. si * rate \in Nat
      BY <1>1, <1>2, ProductType
    <2>5. (S - (S + si)) * rate = 0 - si * rate
      BY <1>1, <1>2, SMT
    <2> QED
      BY <2>2, <2>3, <2>4, <2>5, SMT
  <1>15. InWindow
    BY <1>4, <1>6, <1>8, <1>9, VerifiedInWindow DEF MarketInv, W, L
  <1> QED
    BY <1>10, <1>11, <1>12, <1>13, <1>14, <1>15 DEF MarketInv, GoodStep

LEMMA WithdrawGood ==
    ASSUME MarketInv, NEW lp \in Nat, WithdrawLiquidity(lp)
    PROVE  GoodStep
  <1> DEFINE P  == market.pt_balance
             S  == market.sy_balance
             L  == tokens.mint_lp
             E  == tokens.pt_escrow
             Y  == tokens.sy_position
             W  == CurrentWindow(L)
             po == LpShare(P, lp)
             so == LpShare(S, lp)
  <1>1. /\ P \in Nat /\ S \in Nat /\ L \in Nat /\ E \in Nat /\ Y \in Nat
    BY Accounts DEF MarketInv
  <1>2. E = P /\ Y >= S /\ (L > 0 => P > 0 /\ S > 0)
    BY DEF MarketInv, PoolInCustody, PoolStocked
  <1>3. /\ lp <= L /\ VerifyLimits(L - lp)
        /\ market' = [market EXCEPT !.pt_balance = P - po,
                                    !.sy_balance = S - so, !.limits = W]
        /\ tokens' = [mint_lp |-> L - lp, pt_escrow |-> E - po,
                      sy_position |-> Y - so]
        /\ now' = now /\ rate' = rate
    BY DEF WithdrawLiquidity
  <1>4. /\ po \in Nat /\ po <= P /\ (P - po) * L >= P * (L - lp)
        /\ P > 0 /\ lp < L => P - po > 0
    BY <1>1, <1>3, LpShareFacts
  <1>5. /\ so \in Nat /\ so <= S /\ (S - so) * L >= S * (L - lp)
        /\ S > 0 /\ lp < L => S - so > 0
    BY <1>1, <1>3, LpShareFacts
  <1>6. market \in MarketTwo /\ W \in LiquidityNetBalanceLimits
    BY <1>1, CurrentWindowFacts DEF MarketInv, MarketTypeOK
  <1> HIDE DEF P, S, L, E, Y, W, po, so
  <1>7. /\ L - lp \in Nat /\ P - po \in Nat /\ S - so \in Nat
        /\ E - po \in Nat /\ Y - so \in Nat
    <2>1. po \in Nat /\ po <= P /\ so \in Nat /\ so <= S /\ lp <= L
      BY <1>3, <1>4, <1>5
    <2> QED
      BY <1>1, <1>2, <2>1, SMT
  <1>8. market' \in MarketTwo
    BY <1>3, <1>6, <1>7, MarketUpdates
  <1>9. /\ market'.pt_balance = P - po /\ market'.sy_balance = S - so
        /\ market'.limits = W
    BY <1>3, <1>6 DEF MarketTwo
  <1>10. /\ tokens'.mint_lp = L - lp /\ tokens'.pt_escrow = E - po
         /\ tokens'.sy_position = Y - so
    BY <1>3
  <1>11. MarketTypeOK'
    <2>1. tokens' \in Tokens
      BY <1>3, <1>7 DEF Tokens
    <2> QED
      BY <1>3, <1>8, <2>1 DEF MarketInv, MarketTypeOK
  <1>12. PoolInCustody' /\ PoolStocked'
    <2>1. E - po = P - po /\ Y - so >= S - so
      BY <1>1, <1>2, <1>4, <1>5
    <2>2. L - lp > 0 => P - po > 0 /\ S - so > 0
      BY <1>1, <1>2, <1>4, <1>5
    <2> QED
      BY <1>9, <1>10, <2>1, <2>2 DEF PoolInCustody, PoolStocked
  <1>13. NotDiluted
    BY <1>4, <1>5, <1>9, <1>10 DEF NotDiluted, P, S, L
  <1>14. SurplusKept
    <2>1. (Y - so) - (S - so) >= Y - S
      BY <1>1, <1>5
    <2> QED
      BY <1>9, <1>10, <2>1 DEF SurplusKept, Y, S
  <1>15. BelowPar
    <2>1. ~(market'.pt_balance > P)
      BY <1>1, <1>4, <1>9
    <2> QED
      BY <2>1 DEF BelowPar, P
  <1>16. InWindow
    BY <1>3, <1>7, <1>9, <1>10, VerifiedInWindow DEF MarketInv, W, L
  <1> QED
    BY <1>11, <1>12, <1>13, <1>14, <1>15, <1>16 DEF MarketInv, GoodStep

\* The transfers move the accounts by what the trade moves the books.
LEMMA TransferredFacts ==
    ASSUME MarketInv, NEW t \in Trade, CanTrade(t), market' = Traded(market, t)
    PROVE  Transferred(tokens, t) =
               [mint_lp |-> tokens.mint_lp,
                pt_escrow |-> market'.pt_balance,
                sy_position |-> tokens.sy_position
                    + (market'.sy_balance - market.sy_balance) + 0]
  <1> DEFINE S == market.sy_balance
             Y == tokens.sy_position
             s == NetTraderSy(t)
             f == TreasuryFee(t)
  <1>1. /\ tokens.pt_escrow = market.pt_balance /\ tokens \in Tokens
        /\ market \in MarketTwo /\ MarketTypeOK
    BY DEF MarketInv, MarketTypeOK, PoolInCustody
  <1>2. s \in Nat /\ f \in Nat /\ Y \in Nat /\ S \in Nat /\ t.is_buy \in BOOLEAN
    BY <1>1, NetTraderFacts, FeeFacts, Accounts
  <1>3. CASE t.is_buy
    <2>1. /\ market'.pt_balance = market.pt_balance - t.pt
          /\ market'.sy_balance = S + s - f
      BY <1>1, <1>3, TradedFacts
    <2>2. Transferred(tokens, t) =
            [mint_lp |-> tokens.mint_lp, pt_escrow |-> tokens.pt_escrow - t.pt,
             sy_position |-> Y + s - f]
      BY <1>1, <1>3 DEF Transferred, Tokens
    <2> DEFINE S1 == market'.sy_balance
    <2> HIDE DEF s, f, Y, S, S1
    <2>3. Y + s - f = Y + (S1 - S) + 0
      BY <1>2, <2>1 DEF S1
    <2> QED
      BY <1>1, <2>1, <2>2, <2>3 DEF S, Y, S1
  <1>4. CASE ~t.is_buy
    <2>1. /\ market'.pt_balance = market.pt_balance + t.pt
          /\ market'.sy_balance = S - s - f
      BY <1>1, <1>4, TradedFacts
    <2>2. Transferred(tokens, t) =
            [mint_lp |-> tokens.mint_lp, pt_escrow |-> tokens.pt_escrow + t.pt,
             sy_position |-> Y - s - f]
      BY <1>1, <1>4 DEF Transferred, Tokens
    <2> DEFINE S1 == market'.sy_balance
    <2> HIDE DEF s, f, Y, S, S1
    <2>3. Y - s - f = Y + (S1 - S) + 0
      BY <1>2, <2>1 DEF S1
    <2> QED
      BY <1>1, <2>1, <2>2, <2>3 DEF S, Y, S1
  <1> QED
    BY <1>2, <1>3, <1>4

\* The flag of a flash swap is back where it was, and the trade is kept.
LEMMA AfterFlashSwapFacts ==
    ASSUME MarketTypeOK, NEW t \in Trade, CanTrade(t)
    PROVE  LET k == AfterFlashSwap(market, t) IN
           /\ k \in MarketTwo
           /\ k.limits = market.limits
           /\ k.pt_balance = IF t.is_buy THEN market.pt_balance - t.pt
                             ELSE market.pt_balance + t.pt
           /\ k.sy_balance =
                  IF t.is_buy
                  THEN market.sy_balance + NetTraderSy(t) - TreasuryFee(t)
                  ELSE market.sy_balance - NetTraderSy(t) - TreasuryFee(t)
  <1> DEFINE m == [market EXCEPT !.is_current_flash_swap = TRUE]
             d == Traded(m, t)
             k == [d EXCEPT !.is_current_flash_swap = FALSE]
  <1>1. market \in MarketTwo
    BY DEF MarketTypeOK
  <1>2. /\ m \in MarketTwo /\ m.pt_balance = market.pt_balance
        /\ m.sy_balance = market.sy_balance /\ m.limits = market.limits
    <2>1. m \in MarketTwo
      <3>1. market.limits \in LiquidityNetBalanceLimits
        BY <1>1 DEF MarketTwo
      <3> QED
        BY <1>1, <3>1, MarketUpdates
    <2>2. /\ m.pt_balance = market.pt_balance
          /\ m.sy_balance = market.sy_balance /\ m.limits = market.limits
      BY <1>1 DEF MarketTwo
    <2> QED
      BY <2>1, <2>2
  <1> HIDE DEF m
  <1>3. /\ d \in MarketTwo
        /\ d.limits = market.limits
        /\ d.pt_balance = IF t.is_buy THEN market.pt_balance - t.pt
                          ELSE market.pt_balance + t.pt
        /\ d.sy_balance =
               IF t.is_buy
               THEN market.sy_balance + NetTraderSy(t) - TreasuryFee(t)
               ELSE market.sy_balance - NetTraderSy(t) - TreasuryFee(t)
    BY <1>2, TradedFacts
  <1> HIDE DEF d
  <1>4. /\ k \in MarketTwo /\ k.pt_balance = d.pt_balance
        /\ k.sy_balance = d.sy_balance /\ k.limits = d.limits
    <2>1. k \in MarketTwo
      <3>1. d.limits \in LiquidityNetBalanceLimits
        BY <1>3 DEF MarketTwo
      <3> QED
        BY <1>3, <3>1, MarketUpdates
    <2>2. /\ k.pt_balance = d.pt_balance
          /\ k.sy_balance = d.sy_balance /\ k.limits = d.limits
      BY <1>3 DEF MarketTwo
    <2> QED
      BY <2>1, <2>2
  <1>5. AfterFlashSwap(market, t) = k
    BY DEF AfterFlashSwap, d, m
  <1> HIDE DEF k
  <1> QED
    BY <1>3, <1>4, <1>5

LEMMA TradePtGood ==
    ASSUME MarketInv, NEW t \in Trade, TradePt(t)
    PROVE  GoodStep
  <1> DEFINE S  == market.sy_balance
             S1 == market'.sy_balance
             Y  == tokens.sy_position
  <1>1. CanTrade(t) /\ market' = Traded(market, t) /\ now' = now /\ rate' = rate
        /\ tokens' = Transferred(tokens, t)
    BY DEF TradePt
  <1>2. /\ market' \in MarketTwo /\ market'.limits = market.limits
        /\ market'.pt_balance = IF t.is_buy THEN market.pt_balance - t.pt
                                ELSE market.pt_balance + t.pt
        /\ S1 = IF t.is_buy THEN S + NetTraderSy(t) - TreasuryFee(t)
                ELSE S - NetTraderSy(t) - TreasuryFee(t)
    BY <1>1, TradedFacts DEF MarketInv, MarketTypeOK
  <1>3. tokens' = [mint_lp |-> tokens.mint_lp,
                   pt_escrow |-> market'.pt_balance,
                   sy_position |-> Y + (S1 - S) + 0]
    BY <1>1, <1>2, TransferredFacts
  <1> QED
    BY <1>1, <1>2, <1>3, TradeGood

LEMMA BuyYtGood ==
    ASSUME MarketInv, NEW sy_in \in Nat, NEW yt_out \in Nat,
           NEW er \in Nat, NEW fr \in Nat, BuyYt(sy_in, yt_out, er, fr)
    PROVE  GoodStep
  <1> DEFINE strip  == PyToSyCeil(rate, yt_out)
             borrow == strip - sy_in
             t      == FlashTrade(FALSE, SyToPy(rate, strip), er, fr)
             lent   == [tokens EXCEPT !.sy_position = @ - borrow]
             S      == market.sy_balance
             S1     == market'.sy_balance
             Y      == tokens.sy_position
             s      == NetTraderSy(t)
  <1>1. rate \in Nat \ {0} /\ Y \in Nat /\ S \in Nat
    BY Accounts DEF MarketInv
  <1>2. strip \in Nat
    BY <1>1, PyToSyCeilType
  <1>3. t \in Trade /\ t.is_buy = FALSE
    BY <1>1, <1>2, SyToPyType DEF Trade, FlashTrade
  <1>4. /\ strip > sy_in /\ s >= borrow /\ borrow <= Y
        /\ CanTrade(t) /\ CanTransfer(lent, t)
        /\ market' = AfterFlashSwap(market, t)
        /\ tokens' = [Transferred(lent, t) EXCEPT !.sy_position = @ + s]
        /\ now' = now /\ rate' = rate
    BY DEF BuyYt
  <1> HIDE DEF strip, t
  <1>5. borrow \in Nat /\ s \in Nat
    BY <1>2, <1>3, <1>4, NetTraderFacts DEF MarketInv
  <1>6. s - borrow \in Nat
    BY <1>4, <1>5
  <1>7. /\ market' \in MarketTwo /\ market'.limits = market.limits
        /\ market'.pt_balance = market.pt_balance + t.pt
        /\ S1 = S - s - TreasuryFee(t)
    BY <1>3, <1>4, AfterFlashSwapFacts DEF MarketInv
  <1>8. tokens' = [mint_lp |-> tokens.mint_lp,
                   pt_escrow |-> market'.pt_balance,
                   sy_position |-> Y + (S1 - S) + (s - borrow)]
    <2>1. tokens.pt_escrow = market.pt_balance /\ tokens \in Tokens
      BY DEF MarketInv, MarketTypeOK, PoolInCustody
    <2>2. Transferred(lent, t) =
            [lent EXCEPT !.pt_escrow = @ + t.pt,
                         !.sy_position = @ - s - TreasuryFee(t)]
      BY <1>3 DEF Transferred
    <2>3. tokens' = [mint_lp |-> tokens.mint_lp,
                     pt_escrow |-> tokens.pt_escrow + t.pt,
                     sy_position |-> ((Y - borrow) - s - TreasuryFee(t)) + s]
      BY <1>4, <2>1, <2>2 DEF Tokens
    <2>4. TreasuryFee(t) \in Nat
      BY <1>3, <1>4, NetTraderFacts, FeeFacts DEF MarketInv
    <2> HIDE DEF borrow, s, Y, S, S1
    <2>5. ((Y - borrow) - s - TreasuryFee(t)) + s = Y + (S1 - S) + (s - borrow)
      BY <1>1, <1>5, <1>7, <2>4
    <2> QED
      BY <1>7, <2>1, <2>3, <2>5
  <1> QED
    BY <1>3, <1>4, <1>6, <1>7, <1>8, TradeGood

LEMMA SellYtGood ==
    ASSUME MarketInv, NEW yt_in \in Nat, NEW er \in Nat, NEW fr \in Nat,
           SellYt(yt_in, er, fr)
    PROVE  GoodStep
  <1> DEFINE t    == FlashTrade(TRUE, yt_in, er, fr)
             lent == [tokens EXCEPT !.pt_escrow = @ - yt_in]
             S    == market.sy_balance
             S1   == market'.sy_balance
             Y    == tokens.sy_position
             s    == NetTraderSy(t)
             f    == TreasuryFee(t)
  <1>1. t \in Trade /\ t.is_buy = TRUE /\ t.pt = yt_in
    BY DEF Trade, FlashTrade
  <1>2. /\ CanTrade(t)
        /\ market' = AfterFlashSwap(market, t)
        /\ tokens' = [Transferred(lent, t) EXCEPT !.pt_escrow = @ + yt_in]
        /\ now' = now /\ rate' = rate
    BY DEF SellYt
  <1> HIDE DEF t
  <1>3. /\ market' \in MarketTwo /\ market'.limits = market.limits
        /\ market'.pt_balance = market.pt_balance - yt_in
        /\ S1 = S + s - f
    BY <1>1, <1>2, AfterFlashSwapFacts DEF MarketInv
  <1>4. tokens' = [mint_lp |-> tokens.mint_lp,
                   pt_escrow |-> market'.pt_balance,
                   sy_position |-> Y + (S1 - S) + 0]
    <2>1. tokens.pt_escrow = market.pt_balance /\ tokens \in Tokens
      BY DEF MarketInv, MarketTypeOK, PoolInCustody
    <2>2. Transferred(lent, t) =
            [lent EXCEPT !.pt_escrow = @ - yt_in, !.sy_position = @ + s - f]
      BY <1>1 DEF Transferred
    <2>3. tokens' = [mint_lp |-> tokens.mint_lp,
                     pt_escrow |-> ((tokens.pt_escrow - yt_in) - yt_in) + yt_in,
                     sy_position |-> Y + s - f]
      BY <1>2, <2>1, <2>2 DEF Tokens
    <2>4. s \in Nat /\ f \in Nat /\ Y \in Nat /\ S \in Nat
          /\ market.pt_balance \in Nat
      BY <1>1, <1>2, NetTraderFacts, FeeFacts, Accounts DEF MarketInv
    <2> HIDE DEF s, f, Y, S, S1
    <2>5. /\ Y + s - f = Y + (S1 - S) + 0
          /\ ((market.pt_balance - yt_in) - yt_in) + yt_in
                 = market.pt_balance - yt_in
      BY <1>3, <2>4
    <2> QED
      BY <1>3, <2>1, <2>3, <2>5
  <1> QED
    BY <1>1, <1>2, <1>3, <1>4, TradeGood

LEMMA StatusUpdate ==
    ASSUME NEW m \in MarketTwo, NEW flags \in SUBSET Flags
    PROVE  [m EXCEPT !.status_flags = flags] \in MarketTwo
  <1> DEFINE N == Nat
             B == Bps
             F == SUBSET Flags
             W == LiquidityNetBalanceLimits
             T == BOOLEAN
  <1>1. MarketTwo = [pt_balance : N, sy_balance : N, status_flags : F,
                     fee_treasury_sy_bps : B, max_lp_supply : N,
                     is_current_flash_swap : T, limits : W]
    BY DEF MarketTwo
  <1>2. flags \in F
    OBVIOUS
  <1> HIDE DEF N, B, F, W, T
  <1> QED
    BY <1>1, <1>2, Zenon

LEMMA FeeUpdate ==
    ASSUME NEW m \in MarketTwo, NEW bps \in Bps
    PROVE  [m EXCEPT !.fee_treasury_sy_bps = bps] \in MarketTwo
  <1> DEFINE N == Nat
             B == Bps
             F == SUBSET Flags
             W == LiquidityNetBalanceLimits
             T == BOOLEAN
  <1>1. MarketTwo = [pt_balance : N, sy_balance : N, status_flags : F,
                     fee_treasury_sy_bps : B, max_lp_supply : N,
                     is_current_flash_swap : T, limits : W]
    BY DEF MarketTwo
  <1>2. bps \in B
    OBVIOUS
  <1> HIDE DEF N, B, F, W, T
  <1> QED
    BY <1>1, <1>2, Zenon

LEMMA MaxSupplyUpdate ==
    ASSUME NEW m \in MarketTwo, NEW supply \in Nat
    PROVE  [m EXCEPT !.max_lp_supply = supply] \in MarketTwo
  <1> DEFINE N == Nat
             B == Bps
             F == SUBSET Flags
             W == LiquidityNetBalanceLimits
             T == BOOLEAN
  <1>1. MarketTwo = [pt_balance : N, sy_balance : N, status_flags : F,
                     fee_treasury_sy_bps : B, max_lp_supply : N,
                     is_current_flash_swap : T, limits : W]
    BY DEF MarketTwo
  <1>2. supply \in N
    OBVIOUS
  <1> HIDE DEF N, B, F, W, T
  <1> QED
    BY <1>1, <1>2, Zenon

LEMMA SettingGood ==
    ASSUME MarketInv, ModifyMarketSetting
    PROVE  GoodStep
  <1>1. /\ market \in MarketTwo /\ now \in 0..MaxTime /\ rate \in Rates
        /\ market.limits \in LiquidityNetBalanceLimits
    BY DEF MarketInv, MarketTypeOK, MarketTwo
  <1>2. ASSUME NEW flags \in StatusChoices, SetStatus(flags)
        PROVE  GoodStep
    <2>1. market' = [market EXCEPT !.status_flags = flags]
          /\ now' = now /\ rate' = rate /\ tokens' = tokens
      BY <1>2 DEF SetStatus
    <2>2. flags \in SUBSET Flags
      BY MarketAssumption
    <2>3. market' \in MarketTwo
      BY <1>1, <2>1, <2>2, StatusUpdate
    <2>4. /\ market'.pt_balance = market.pt_balance
          /\ market'.sy_balance = market.sy_balance
          /\ market'.limits = market.limits
      BY <1>1, <2>1 DEF MarketTwo
    <2> QED
      BY <1>1, <2>1, <2>3, <2>4, PoolUntouched
  <1>3. ASSUME NEW supply \in MaxLpChoices, SetMaxLpSupply(supply)
        PROVE  GoodStep
    <2>1. market' = [market EXCEPT !.max_lp_supply = supply]
          /\ now' = now /\ rate' = rate /\ tokens' = tokens
      BY <1>3 DEF SetMaxLpSupply
    <2>2. supply \in Nat
      BY MarketAssumption
    <2>3. market' \in MarketTwo
      BY <1>1, <2>1, <2>2, MaxSupplyUpdate
    <2>4. /\ market'.pt_balance = market.pt_balance
          /\ market'.sy_balance = market.sy_balance
          /\ market'.limits = market.limits
      BY <1>1, <2>1 DEF MarketTwo
    <2> QED
      BY <1>1, <2>1, <2>3, <2>4, PoolUntouched
  <1>4. ASSUME NEW bps \in BpsChoices, ChangeTreasuryTradeSyBpsFee(bps)
        PROVE  GoodStep
    <2>1. market' = [market EXCEPT !.fee_treasury_sy_bps = bps]
          /\ now' = now /\ rate' = rate /\ tokens' = tokens /\ bps <= 10000
      BY <1>4 DEF ChangeTreasuryTradeSyBpsFee
    <2>2. bps \in Bps
      <3>1. bps \in Nat
        BY MarketAssumption
      <3>2. bps <= 10000
        BY <2>1
      <3> DEFINE whole == 10000
      <3>3. bps <= whole /\ whole \in Nat
        BY <3>2
      <3>4. Bps = 0..whole
        BY DEF Bps
      <3> HIDE DEF whole
      <3> QED
        BY <3>1, <3>3, <3>4
    <2>3. market' \in MarketTwo
      BY <1>1, <2>1, <2>2, FeeUpdate
    <2>4. /\ market'.pt_balance = market.pt_balance
          /\ market'.sy_balance = market.sy_balance
          /\ market'.limits = market.limits
      BY <1>1, <2>1 DEF MarketTwo
    <2> QED
      BY <1>1, <2>1, <2>3, <2>4, PoolUntouched
  <1>5. ASSUME NEW l \in LimitChoices, ChangeLiquidityNetBalanceLimits(l)
        PROVE  GoodStep
    <2> DEFINE start == market.limits.window_start_net_balance
               k == [window_start_timestamp |-> now,
                     window_start_net_balance |-> start,
                     negative |-> l.negative, positive |-> l.positive,
                     duration |-> l.duration]
    <2>1. market' = [market EXCEPT !.limits = k]
          /\ now' = now /\ rate' = rate /\ tokens' = tokens
      BY <1>5 DEF ChangeLiquidityNetBalanceLimits
    <2>2. k \in LiquidityNetBalanceLimits
      <3>1. l \in LimitSetting
        BY MarketAssumption
      <3>2. start \in Nat
        BY <1>1 DEF LiquidityNetBalanceLimits
      <3>3. now \in 0..MaxU32
        BY <1>1, MarketAssumption
      <3> HIDE DEF start
      <3> QED
        BY <3>1, <3>2, <3>3 DEF LimitSetting, LiquidityNetBalanceLimits
    <2>3. k.window_start_net_balance = start
      OBVIOUS
    <2> HIDE DEF k
    <2>4. market' \in MarketTwo
      <3>1. 0 \in Nat
        OBVIOUS
      <3> QED
        BY <1>1, <2>1, <2>2, <3>1, MarketUpdates
    <2>5. /\ market'.pt_balance = market.pt_balance
          /\ market'.sy_balance = market.sy_balance
          /\ market'.limits = k
      BY <1>1, <2>1 DEF MarketTwo
    <2> QED
      BY <1>1, <2>1, <2>3, <2>4, <2>5, PoolUntouched
  <1> QED
    BY <1>2, <1>3, <1>4, <1>5 DEF ModifyMarketSetting

\* Every step of the market is a good one.
LEMMA EveryStepGood ==
    ASSUME MarketInv, [Next]_vars
    PROVE  GoodStep
  <1>1. market \in MarketTwo /\ now \in 0..MaxTime /\ rate \in Rates
    BY DEF MarketInv, MarketTypeOK
  <1>2. CASE Liquidity
    <2>1. ASSUME NEW pt \in DepositAmounts, NEW sy \in DepositAmounts,
                 DepositLiquidity(pt, sy)
          PROVE  GoodStep
      BY <2>1, MarketAssumption, DepositGood
    <2>2. ASSUME NEW lp \in LpAmounts, WithdrawLiquidity(lp)
          PROVE  GoodStep
      BY <2>2, MarketAssumption, WithdrawGood
    <2> QED
      BY <1>2, <2>1, <2>2 DEF Liquidity
  <1>3. CASE Trading
    <2>1. PICK er \in ExchangeRates, fr \in FeeRates :
            \/ \E is_buy \in BOOLEAN, pt \in TradeAmounts :
                 \E flash \in {market.is_current_flash_swap, is_buy} :
                   TradePt([is_buy |-> is_buy, pt |-> pt, er |-> er, fr |-> fr,
                            flash |-> flash])
            \/ \E sy_in \in SyAmounts, yt_out \in YtAmounts :
                   BuyYt(sy_in, yt_out, er, fr)
            \/ \E yt_in \in YtAmounts : SellYt(yt_in, er, fr)
      BY <1>3 DEF Trading
    <2>2. er \in Nat /\ fr \in Nat
      BY MarketAssumption
    <2>3. ASSUME NEW is_buy \in BOOLEAN, NEW pt \in TradeAmounts,
                 NEW flash \in {market.is_current_flash_swap, is_buy},
                 TradePt([is_buy |-> is_buy, pt |-> pt, er |-> er, fr |-> fr,
                          flash |-> flash])
          PROVE  GoodStep
      <3>1. [is_buy |-> is_buy, pt |-> pt, er |-> er, fr |-> fr,
             flash |-> flash] \in Trade
        BY <1>1, <2>2, MarketAssumption DEF MarketTwo, Trade
      <3> QED
        BY <2>3, <3>1, TradePtGood
    <2>4. ASSUME NEW sy_in \in SyAmounts, NEW yt_out \in YtAmounts,
                 BuyYt(sy_in, yt_out, er, fr)
          PROVE  GoodStep
      BY <2>2, <2>4, MarketAssumption, BuyYtGood
    <2>5. ASSUME NEW yt_in \in YtAmounts, SellYt(yt_in, er, fr)
          PROVE  GoodStep
      BY <2>2, <2>5, MarketAssumption, SellYtGood
    <2> QED
      BY <2>1, <2>3, <2>4, <2>5
  <1>4. CASE ModifyMarketSetting
    BY <1>4, SettingGood
  <1>5. CASE Tick
    <2>1. now' \in 0..MaxTime
      BY <1>1, <1>5, MarketAssumption, SMT DEF Tick
    <2> QED
      BY <1>1, <1>5, <2>1, PoolUntouched DEF Tick
  <1>6. CASE ChangeRate
    BY <1>1, <1>6, PoolUntouched DEF ChangeRate
  <1>7. CASE UNCHANGED vars
    BY <1>1, <1>7, PoolUntouched DEF vars
  <1> QED
    BY <1>2, <1>3, <1>4, <1>5, <1>6, <1>7 DEF Next

-----------------------------------------------------------------------------
(* The theorems.                                                           *)

\* The three invariants hold in every state, for every value of the constants.
THEOREM MarketInvariance == Spec => []MarketInv
  <1>1. MarketInv /\ [Next]_vars => MarketInv'
    BY EveryStepGood DEF GoodStep
  <1> QED
    BY InitialInv, <1>1, PTL DEF Spec

\* No balance of the pool goes below zero (trade_pt, buy_yt, sell_yt,
\* withdraw_liquidity), whatever the curve answers and the fees are.
THEOREM MarketTypeCorrect == Spec => []MarketTypeOK
  <1>1. MarketInv => MarketTypeOK
    BY DEF MarketInv
  <1> QED
    BY MarketInvariance, <1>1, PTL

\* The escrow and the SY program hold what the pool's books say, across flash
\* swaps too (buy_yt, sell_yt).
THEOREM PoolStaysInCustody == Spec => []PoolInCustody
  <1>1. MarketInv => PoolInCustody
    BY DEF MarketInv
  <1> QED
    BY MarketInvariance, <1>1, PTL

\* No sequence of trades and withdrawals drains a side of the pool while LP
\* tokens exist (trade, rm_liquidity).
THEOREM PoolStaysStocked == Spec => []PoolStocked
  <1>1. MarketInv => PoolStocked
    BY DEF MarketInv
  <1> QED
    BY MarketInvariance, <1>1, PTL

\* No deposit or withdrawal takes from the other LP, for all amounts and all
\* roundings (add_liquidity, rm_liquidity).
THEOREM LpIsNeverDiluted == Spec => LpNeverDiluted
  <1>1. MarketInv /\ [Next]_vars => [NotDiluted]_vars
    BY EveryStepGood DEF GoodStep
  <1> QED
    BY MarketInvariance, <1>1, PTL DEF Spec, LpNeverDiluted, NotDiluted

\* What flash swaps leave beside the pool's books only grows (buy_yt).
THEOREM SurplusIsNeverSpent == Spec => SurplusNeverSpent
  <1>1. MarketInv /\ [Next]_vars => [SurplusKept]_vars
    BY EveryStepGood DEF GoodStep
  <1> QED
    BY MarketInvariance, <1>1, PTL DEF Spec, SurplusNeverSpent, SurplusKept

\* PT are bought by the pool below par, for every price above one, every fee
\* and every rounding (trade, trade_pt).
THEOREM PtFetchesLessThanPar == Spec => PtBelowPar
  <1>1. MarketInv /\ [Next]_vars => [BelowPar]_vars
    BY EveryStepGood DEF GoodStep
  <1> QED
    BY MarketInvariance, <1>1, PTL DEF Spec, PtBelowPar, BelowPar

\* No sequence of deposits, withdrawals and settings takes the supply of LP
\* out of its window (verify_limits).
THEOREM SupplyStaysInWindow == Spec => WindowHolds
  <1>1. MarketInv /\ [Next]_vars => [InWindow]_vars
    BY EveryStepGood DEF GoodStep
  <1> QED
    BY MarketInvariance, <1>1, PTL DEF Spec, WindowHolds, InWindow
=============================================================================
