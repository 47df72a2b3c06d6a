------------------------------- MODULE Market -------------------------------
(***************************************************************************)
(* The liquidity pool of a market (MarketTwo): PT against SY, with LP      *)
(* tokens for its shares, trades, flash swaps for YT, a window that limits *)
(* how far the LP supply moves, and the administrators' settings.          *)
(*                                                                         *)
(* The SY of the pool lies in the market's account of the SY program       *)
(* (sy_position), its PT in an escrow; market.financials counts both       *)
(* separately.  Each instruction is one atomic transaction.                *)
(*                                                                         *)
(* The time curve prices PT with floating-point logarithms.  Here it may   *)
(* answer any price of PT above one, and any fee rate of at least one: all *)
(* that its assertions guarantee.                                          *)
(***************************************************************************)
EXTENDS YieldMath, FiniteSets

CONSTANTS
    Rates,                    \* SY exchange rates
    ExchangeRates,            \* PT per asset, as the curve may answer
    FeeRates,                 \* fee rates, as the curve may answer
    ExpirationTs,             \* last second of the market
    InitialPt, InitialSy, InitialLp, InitialBps,
    MaxU32, MaxU64,           \* u32::MAX, u64::MAX
    MaxTime, MaxBalance,      \* bounds on the clock and the pool
    DepositAmounts, LpAmounts, TradeAmounts, YtAmounts, SyAmounts,
                              \* bounds: inputs of the users
    StatusChoices, MaxLpChoices, BpsChoices, LimitChoices
                              \* bounds: inputs of the administrators

\* Basis points of a whole.
Bps == 0..10000

Flags == {"deposit", "withdraw", "buy_pt", "sell_pt", "buy_yt", "sell_yt"}

\* The changes of LP supply that a window allows, in basis points.
LimitSetting == [negative : Bps, positive : 0..MaxU32, duration : 0..MaxU32]

ASSUME MarketAssumption ==
    /\ Rates \subseteq Nat \ {0} /\ Rates # {}
    /\ ExchangeRates \subseteq Nat /\ FeeRates \subseteq Nat
    /\ ExpirationTs \in Nat
    /\ InitialPt \in Nat \ {0} /\ InitialSy \in Nat \ {0}
    /\ InitialBps \in Bps
    /\ MaxU32 \in Nat /\ MaxU64 \in Nat /\ MaxTime \in 0..MaxU32 /\ MaxBalance \in Nat
    /\ DepositAmounts \subseteq Nat /\ LpAmounts \subseteq Nat
    /\ TradeAmounts \subseteq Nat /\ YtAmounts \subseteq Nat
    /\ SyAmounts \subseteq Nat
    /\ StatusChoices \subseteq SUBSET Flags /\ MaxLpChoices \subseteq Nat
    /\ BpsChoices \subseteq Nat
    /\ LimitChoices \subseteq LimitSetting

\* calc_lp_tokens_out: the geometric mean, rounded down.
ASSUME InitialLpAssumption ==
    /\ InitialLp \in Nat
    /\ InitialLp * InitialLp <= InitialPt * InitialSy
    /\ InitialPt * InitialSy < (InitialLp + 1) * (InitialLp + 1)

VARIABLES
    now,            \* the cluster's clock
    rate,           \* exchange rate of the SY program
    market,         \* account MarketTwo: what concerns the pool
    tokens          \* LP supply, PT escrow, the market's account in the SY program

vars == <<now, rate, market, tokens>>

LiquidityNetBalanceLimits ==
    [window_start_timestamp : 0..MaxU32, window_start_net_balance : Nat,
     negative : Bps, positive : 0..MaxU32, duration : 0..MaxU32]

MarketTwo ==
    [pt_balance : Nat, sy_balance : Nat, status_flags : SUBSET Flags,
     fee_treasury_sy_bps : Bps, max_lp_supply : Nat,
     is_current_flash_swap : BOOLEAN, limits : LiquidityNetBalanceLimits]

Tokens == [mint_lp : Nat, pt_escrow : Nat, sy_position : Nat]

\* A new market, its first liquidity paid in by the administrator.
MarketTwoInit ==
    /\ now = 0 /\ rate \in Rates
    /\ market = [pt_balance |-> InitialPt, sy_balance |-> InitialSy,
                 status_flags |-> Flags, fee_treasury_sy_bps |-> InitialBps,
                 max_lp_supply |-> MaxU64, is_current_flash_swap |-> FALSE,
                 limits |-> [window_start_timestamp |-> 0,
                             window_start_net_balance |-> 0,
                             negative |-> 10000, positive |-> MaxU32,
                             duration |-> 0]]
    /\ tokens = [mint_lp |-> InitialLp, pt_escrow |-> InitialPt,
                 sy_position |-> InitialSy]

IsActive == now <= ExpirationTs

Allowed(flag) == flag \in market.status_flags

CheckSupplyLp(supply) == supply <= market.max_lp_supply

-----------------------------------------------------------------------------
(* The window of liquidity.                                                *)

\* Mutant: every change starts a window of its own.
CurrentWindowAlwaysNew(supply) ==
    [market.limits EXCEPT !.window_start_timestamp = now,
                          !.window_start_net_balance = supply]

\* A window that has run out is replaced by one that starts with the supply.
CurrentWindow(supply) ==
    LET l == market.limits IN
    IF now > l.window_start_timestamp + l.duration
    THEN [l EXCEPT !.window_start_timestamp = now,
                   !.window_start_net_balance = supply]
    ELSE l

\* A change in basis points of the start, rounded up; 0/0 is cast to 0 and
\* x/0 to the largest u32.
ChangeBps(change, start) ==
    CASE change = 0 -> 0
      [] change # 0 /\ start = 0 -> MaxU32
      [] OTHER -> CeilDiv(change * 10000, start)

\* verify_limits: is the supply newSupply within what the window allows?
WithinLimits(l, newSupply) ==
    LET start == l.window_start_net_balance IN
    IF newSupply >= start
    THEN ChangeBps(newSupply - start, start) <= l.positive
    ELSE ChangeBps(start - newSupply, start) <= l.negative

\* The end of the window is a checked u32 sum.
VerifyLimits(newSupply) ==
    /\ market.limits.window_start_timestamp + market.limits.duration <= MaxU32
    /\ WithinLimits(CurrentWindow(tokens.mint_lp), newSupply)

-----------------------------------------------------------------------------
(* Liquidity.                                                              *)

\* Mutant: the larger of the two shares is minted.
AddLiquidityLarger(pt_intent, sy_intent) ==
    [pt_in |-> pt_intent, sy_in |-> sy_intent,
     lp_out |->
        IF tokens.mint_lp = 0 THEN 0
        ELSE Larger((tokens.mint_lp * pt_intent) \div market.pt_balance,
                    (tokens.mint_lp * sy_intent) \div market.sy_balance)]

\* add_liquidity: the smaller of the two shares is minted, and the other side
\* pays in proportion, rounded up.  A pool without LP tokens divides by zero,
\* and the casts of NaN leave what the SY intended, for no LP.
AddLiquidity(pt_intent, sy_intent) ==
    LET L == tokens.mint_lp
        P == market.pt_balance
        S == market.sy_balance
        Other(total, intent, own) ==
            (total * L * intent + (L - 1) * own) \div (L * own)
    IN  CASE L = 0 ->
               [pt_in |-> 0, sy_in |-> sy_intent, lp_out |-> 0]
          [] L > 0 /\ pt_intent * S < sy_intent * P ->
               [pt_in |-> pt_intent, sy_in |-> Other(S, pt_intent, P),
                lp_out |-> (L * pt_intent) \div P]
          [] OTHER ->
               [pt_in |-> Other(P, sy_intent, S), sy_in |-> sy_intent,
                lp_out |-> (L * sy_intent) \div S]

\* rm_liquidity: LP tokens' share of one side, rounded down; NaN is cast to 0.
LpShare(total, lp) ==
    IF tokens.mint_lp = 0 THEN 0 ELSE (total * lp) \div tokens.mint_lp

\* Instruction deposit_liquidity.
DepositLiquidity(pt_intent, sy_intent) ==
    LET r      == AddLiquidity(pt_intent, sy_intent)
        supply == tokens.mint_lp + r.lp_out
    IN  /\ IsActive /\ Allowed("deposit")
        /\ VerifyLimits(supply)
        /\ CheckSupplyLp(supply)
        /\ market' = [market EXCEPT !.pt_balance = @ + r.pt_in,
                                    !.sy_balance = @ + r.sy_in,
                                    !.limits = CurrentWindow(tokens.mint_lp)]
        /\ tokens' = [mint_lp     |-> supply,
                      pt_escrow   |-> tokens.pt_escrow + r.pt_in,
                      sy_position |-> tokens.sy_position + r.sy_in]
        /\ UNCHANGED <<now, rate>>

\* Instruction withdraw_liquidity, which an expired market allows too.
WithdrawLiquidity(lp_in) ==
    LET pt_out == LpShare(market.pt_balance, lp_in)
        sy_out == LpShare(market.sy_balance, lp_in)
        supply == tokens.mint_lp - lp_in
    IN  /\ Allowed("withdraw")
        /\ lp_in <= tokens.mint_lp
        /\ VerifyLimits(supply)
        /\ pt_out <= tokens.pt_escrow /\ sy_out <= tokens.sy_position
        /\ market' = [market EXCEPT !.pt_balance = @ - pt_out,
                                    !.sy_balance = @ - sy_out,
                                    !.limits = CurrentWindow(tokens.mint_lp)]
        /\ tokens' = [mint_lp     |-> supply,
                      pt_escrow   |-> tokens.pt_escrow - pt_out,
                      sy_position |-> tokens.sy_position - sy_out]
        /\ UNCHANGED <<now, rate>>

-----------------------------------------------------------------------------
(* Trades.  A trade is a record: which side, how many PT, the curve's price *)
(* er and fee rate fr, and whether it is part of a flash swap.  Amounts of  *)
(* asset are fractions over the denominator Whole.                          *)

Trade == [is_buy : BOOLEAN, pt : Nat, er : Nat, fr : Nat, flash : BOOLEAN]

Whole(t) == t.er * t.fr * ONE

PreFeeAsset(t) == t.pt * ONE * ONE * t.fr

\* asset_fee: relative to the value traded, that of the YT in a flash swap.
AssetFee(t) ==
    CASE t.flash               -> t.pt * (t.er - ONE) * (t.fr - ONE) * t.fr
      [] ~t.flash /\ t.is_buy  -> t.pt * ONE * ONE * (t.fr - ONE)
      [] ~t.flash /\ ~t.is_buy -> t.pt * ONE * (t.fr - ONE) * t.fr

\* What the trader pays (rounded up) or receives (rounded down) in asset.
NetTraderAsset(t) ==
    IF t.is_buy
    THEN CeilDiv(PreFeeAsset(t) + AssetFee(t), Whole(t))
    ELSE (PreFeeAsset(t) - AssetFee(t)) \div Whole(t)

\* Mutant: an amount of asset is paid out as one of SY.
NetTraderAsSy(t) == NetTraderAsset(t)

NetTraderSy(t) ==
    IF t.is_buy
    THEN PyToSyCeil(rate, NetTraderAsset(t))
    ELSE PyToSy(rate, NetTraderAsset(t))

SyFee(t) == (AssetFee(t) * ONE) \div (Whole(t) * rate)

TreasuryFee(t) == (SyFee(t) * market.fee_treasury_sy_bps) \div 10000

\* Mutant: nothing keeps a sale below the asset in the pool.
CurveAcceptsAll(t) == t.pt > 0 /\ t.er > ONE /\ t.fr >= ONE

\* The curve is defined between an empty and a full share of PT, and its
\* assertions want a price above one and a fee rate of at least one.
CurveAccepts(t) ==
    LET asset == SyToPy(rate, market.sy_balance) IN
    /\ t.pt > 0 /\ market.pt_balance > 0 /\ asset > 0
    /\ IF t.is_buy THEN t.pt < market.pt_balance ELSE t.pt < asset
    /\ t.er > ONE /\ t.fr >= ONE

\* trade_pt up to its transfers.  The signs of the two changes must differ:
\* SY must change hands.
CanTrade(t) ==
    /\ IsActive
    /\ Allowed(IF t.is_buy THEN "buy_pt" ELSE "sell_pt")
    /\ CurveAccepts(t)
    /\ t.is_buy \/ PreFeeAsset(t) > AssetFee(t)
    /\ NetTraderSy(t) > 0
    /\ IF t.is_buy
       THEN TreasuryFee(t) <= NetTraderSy(t)
       ELSE NetTraderSy(t) + TreasuryFee(t) <= market.sy_balance

\* Mutant: the treasury's fee is left in the pool's books.
TradedWithFee(m, t) ==
    IF t.is_buy
    THEN [m EXCEPT !.pt_balance = @ - t.pt, !.sy_balance = @ + NetTraderSy(t)]
    ELSE [m EXCEPT !.pt_balance = @ + t.pt, !.sy_balance = @ - NetTraderSy(t)]

\* The market account m after the trade.
Traded(m, t) ==
    IF t.is_buy
    THEN [m EXCEPT !.pt_balance = @ - t.pt,
                   !.sy_balance = @ + NetTraderSy(t) - TreasuryFee(t)]
    ELSE [m EXCEPT !.pt_balance = @ + t.pt,
                   !.sy_balance = @ - NetTraderSy(t) - TreasuryFee(t)]

\* The accounts tk after the trade's transfers, to and from the SY program.
Transferred(tk, t) ==
    IF t.is_buy
    THEN [tk EXCEPT !.pt_escrow = @ - t.pt,
                    !.sy_position = @ + NetTraderSy(t) - TreasuryFee(t)]
    ELSE [tk EXCEPT !.pt_escrow = @ + t.pt,
                    !.sy_position = @ - NetTraderSy(t) - TreasuryFee(t)]

CanTransfer(tk, t) ==
    IF t.is_buy
    THEN t.pt <= tk.pt_escrow
    ELSE NetTraderSy(t) + TreasuryFee(t) <= tk.sy_position

\* Instruction trade_pt.
TradePt(t) ==
    /\ CanTrade(t) /\ CanTransfer(tokens, t)
    /\ market' = Traded(market, t)
    /\ tokens' = Transferred(tokens, t)
    /\ UNCHANGED <<now, rate>>

-----------------------------------------------------------------------------
(* Flash swaps: the market lends to the trader, the vault strips or merges, *)
(* and trade_pt is called on the account as written back, with the flag set. *)
(* The vault's part is taken at the rate, as an active vault does it; the   *)
(* module Transactions composes the two programs, call by call.             *)

FlashTrade(is_buy, pt, er, fr) ==
    [is_buy |-> is_buy, pt |-> pt, er |-> er, fr |-> fr, flash |-> TRUE]

\* The account is reloaded after the call, before the flag is taken back.
AfterFlashSwap(m, t) ==
    [Traded([m EXCEPT !.is_current_flash_swap = TRUE], t)
        EXCEPT !.is_current_flash_swap = FALSE]

\* Mutant: only the loan is repaid, from what the market itself holds.
BuyYtUnpaid(sy_in, yt_out, er, fr) ==
    LET sy_to_strip  == PyToSyCeil(rate, yt_out)
        t            == FlashTrade(FALSE, SyToPy(rate, sy_to_strip), er, fr)
    IN  /\ Allowed("buy_yt") /\ sy_to_strip > sy_in
        /\ sy_to_strip - sy_in <= tokens.sy_position
        /\ CanTrade(t) /\ CanTransfer(tokens, t)
        /\ market' = AfterFlashSwap(market, t)
        /\ tokens' = [Transferred(tokens, t) EXCEPT
                          !.sy_position = @ - (sy_to_strip - sy_in)]
        /\ UNCHANGED <<now, rate>>

\* Instruction buy_yt: borrow SY, strip it, sell the PT, and repay all that
\* the sale brought.  What exceeds the loan reaches the market's account in
\* the SY program, and no balance of the pool.
BuyYt(sy_in, yt_out, er, fr) ==
    LET sy_to_strip  == PyToSyCeil(rate, yt_out)
        sy_to_borrow == sy_to_strip - sy_in
        t            == FlashTrade(FALSE, SyToPy(rate, sy_to_strip), er, fr)
        lent         == [tokens EXCEPT !.sy_position = @ - sy_to_borrow]
        sold         == Transferred(lent, t)
    IN  /\ Allowed("buy_yt")
        /\ sy_to_strip > sy_in
        /\ sy_to_borrow < sy_to_strip
        /\ sy_to_borrow <= tokens.sy_position
        /\ CanTrade(t) /\ CanTransfer(lent, t)
        /\ NetTraderSy(t) >= sy_to_borrow
        /\ market' = AfterFlashSwap(market, t)
        /\ tokens' = [sold EXCEPT !.sy_position = @ + NetTraderSy(t)]
        /\ UNCHANGED <<now, rate>>

\* Instruction sell_yt: borrow PT, merge them with the YT, buy the PT back
\* for no more than the merge brought, and repay them.
SellYt(yt_in, er, fr) ==
    LET sy_recv == PyToSy(rate, yt_in)
        t       == FlashTrade(TRUE, yt_in, er, fr)
        lent    == [tokens EXCEPT !.pt_escrow = @ - yt_in]
        bought  == Transferred(lent, t)
    IN  /\ Allowed("sell_yt")
        /\ market.pt_balance >= yt_in * 2
        /\ yt_in <= tokens.pt_escrow
        /\ CanTrade(t) /\ CanTransfer(lent, t)
        /\ NetTraderSy(t) <= sy_recv
        /\ market' = AfterFlashSwap(market, t)
        /\ tokens' = [bought EXCEPT !.pt_escrow = @ + yt_in]
        /\ UNCHANGED <<now, rate>>

-----------------------------------------------------------------------------
(* Instruction modify_market_setting, by an administrator with the role.   *)

SetStatus(status_flags) ==
    /\ market' = [market EXCEPT !.status_flags = status_flags]
    /\ UNCHANGED <<now, rate, tokens>>

SetMaxLpSupply(max_supply) ==
    /\ market' = [market EXCEPT !.max_lp_supply = max_supply]
    /\ UNCHANGED <<now, rate, tokens>>

\* Mutant: the fee is not checked.
ChangeTreasuryTradeSyBpsFeeUnchecked(bps) ==
    /\ market' = [market EXCEPT !.fee_treasury_sy_bps = bps]
    /\ UNCHANGED <<now, rate, tokens>>

ChangeTreasuryTradeSyBpsFee(bps) ==
    /\ bps <= 10000
    /\ market' = [market EXCEPT !.fee_treasury_sy_bps = bps]
    /\ UNCHANGED <<now, rate, tokens>>

\* The new window starts now, but with the balance of the old one.
ChangeLiquidityNetBalanceLimits(l) ==
    /\ market' = [market EXCEPT !.limits =
           [window_start_timestamp   |-> now,
            window_start_net_balance |-> market.limits.window_start_net_balance,
            negative |-> l.negative, positive |-> l.positive,
            duration |-> l.duration]]
    /\ UNCHANGED <<now, rate, tokens>>

-----------------------------------------------------------------------------
(* The environment and the specification.                                  *)

Tick ==
    /\ now < MaxTime /\ now' = now + 1
    /\ UNCHANGED <<rate, market, tokens>>

\* The SY program's exchange rate moves, in either direction.
ChangeRate ==
    /\ rate' \in Rates
    /\ UNCHANGED <<now, market, tokens>>

\* The bound on the pool and on what flash swaps leave beside it.
Bounded ==
    /\ market'.pt_balance <= MaxBalance
    /\ market'.sy_balance <= MaxBalance /\ tokens'.sy_position <= MaxBalance

Liquidity ==
    \/ \E pt, sy \in DepositAmounts : DepositLiquidity(pt, sy) /\ Bounded
    \/ \E lp \in LpAmounts : WithdrawLiquidity(lp)

\* The flag of the account decides how a plain trade_pt is priced; only
\* wrapper_provide_liquidity_base sets it around one, to buy (Transactions).
Trading ==
    \E er \in ExchangeRates, fr \in FeeRates :
        \/ \E is_buy \in BOOLEAN, pt \in TradeAmounts :
             \E flash \in {market.is_current_flash_swap, is_buy} :
               /\ TradePt([is_buy |-> is_buy, pt |-> pt, er |-> er, fr |-> fr,
                           flash |-> flash])
               /\ Bounded
        \/ \E sy_in \in SyAmounts, yt_out \in YtAmounts :
               BuyYt(sy_in, yt_out, er, fr) /\ Bounded
        \/ \E yt_in \in YtAmounts : SellYt(yt_in, er, fr) /\ Bounded

ModifyMarketSetting ==
    \/ \E flags \in StatusChoices : SetStatus(flags)
    \/ \E supply \in MaxLpChoices : SetMaxLpSupply(supply)
    \/ \E bps \in BpsChoices : ChangeTreasuryTradeSyBpsFee(bps)
    \/ \E l \in LimitChoices : ChangeLiquidityNetBalanceLimits(l)

Init == MarketTwoInit

Next ==
    \/ Liquidity
    \/ Trading
    \/ ModifyMarketSetting
    \/ Tick
    \/ ChangeRate

Spec == Init /\ [][Next]_vars
=============================================================================
