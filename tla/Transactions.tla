---------------------------- MODULE Transactions ----------------------------
(***************************************************************************)
(* The wrapper instructions of exponent_core: one transaction that calls    *)
(* the program's own instructions one after the other, and the SY program   *)
(* to mint SY from its base asset or to redeem it.                          *)
(*                                                                         *)
(* A wrapper holds copies of the accounts it loaded.  A nested instruction  *)
(* works on the accounts themselves, so the wrapper has to reload its       *)
(* copies, which overwrite the accounts when it exits.  Each step here is   *)
(* one nested call; an error, or a limit of the user that is not met, takes *)
(* back the whole transaction.                                              *)
(*                                                                         *)
(* The nested instructions are the actions of Vault and Market on the       *)
(* accounts as the transaction sees them.  What others see is committed:    *)
(* when the transaction succeeds it goes through what the nested            *)
(* instructions and the exit of the wrapper wrote, in their order.          *)
(***************************************************************************)
EXTENDS YieldMath, Sequences

CONSTANTS
    User, Robot,                \* owners of the yield positions
    Rates,                      \* SY exchange rates
    ExchangeRates, FeeRates,    \* what the curve may answer
    Duration, MaxTime,          \* life of vault and market, bound on the clock
    MaxU32, MaxU64,
    InterestFeeBps, TreasuryFeeBps,
    InitialPt, InitialSy, InitialLp,    \* first liquidity of the market
    StrippedSy, WalletSy,       \* what else the administrator has paid for
    MaxBalance,                 \* bound on each side of the pool
    Amounts,                    \* all amounts that nested calls may name
    BaseAmounts, PyAmounts, LpAmounts,  \* bounds: arguments of the wrappers
    MaxTransactions             \* bound: wrappers that run

ASSUME TransactionsAssumption ==
    /\ User # Robot
    /\ Rates \subseteq Nat \ {0} /\ Rates # {}
    /\ ExchangeRates \subseteq Nat /\ FeeRates \subseteq Nat
    /\ Duration \in Nat /\ MaxU32 \in Nat /\ MaxU64 \in Nat /\ MaxTime \in 0..MaxU32
    /\ InterestFeeBps \in Nat /\ TreasuryFeeBps \in 0..10000
    /\ InitialPt \in Nat \ {0} /\ InitialSy \in Nat \ {0} /\ InitialLp \in Nat
    /\ InitialLp * InitialLp <= InitialPt * InitialSy
    /\ InitialPt * InitialSy < (InitialLp + 1) * (InitialLp + 1)
    /\ StrippedSy \in Nat /\ WalletSy \in Nat /\ MaxBalance \in Nat
    /\ Amounts \subseteq Nat /\ BaseAmounts \subseteq Nat
    /\ PyAmounts \subseteq Nat /\ LpAmounts \subseteq Nat

VARIABLES
    now, sy,                    \* clock and SY program
    vault, position, opened,    \* accounts of the vault
    py_tokens, sy_vault,
    market, lp_tokens,          \* accounts of the market
    wallet,                     \* the user's tokens and staked LP
    ledger,                     \* supply of SY and the treasury's SY
    tx,                         \* the transaction that runs
    transactions,               \* how many were started
    committed                   \* what others see of the accounts

books  == <<vault, position, py_tokens, sy_vault, market, lp_tokens>>
others == <<now, sy, opened, transactions, committed>>
vars   == <<books, wallet, ledger, tx, others>>

rate == sy.exchange_rate

V == INSTANCE Vault WITH
        Users <- {User}, StartTs <- 0,
        Indexes <- {}, FirstIndexes <- {}, MaxStreams <- 0, MayDepreciate <- TRUE,
        MaxSy <- MaxU64, InitialFeeBps <- InterestFeeBps, InitialMinOp <- 1,
        StripAmounts <- Amounts, MergeAmounts <- Amounts, YtAmounts <- Amounts,
        ClaimAmounts <- {}, StatusChoices <- {}, FeeChoices <- {},
        MinOpChoices <- {}, LimitChoices <- {}, SupplyChoices <- {},
        EmissionFees <- {}, MayRemoveEmission <- FALSE,
        tokens <- py_tokens, sy_position <- sy_vault

M == INSTANCE Market WITH
        ExpirationTs <- Duration, InitialBps <- TreasuryFeeBps,
        DepositAmounts <- Amounts \cup {MaxU64}, TradeAmounts <- Amounts,
        LpAmounts <- Amounts, YtAmounts <- Amounts, SyAmounts <- Amounts,
        StatusChoices <- {}, MaxLpChoices <- {}, BpsChoices <- {},
        LimitChoices <- {}, tokens <- lp_tokens

\* The pool with the financials of m, for what a wrapper simulates.
Pool(m) == INSTANCE Market WITH
        ExpirationTs <- Duration, InitialBps <- TreasuryFeeBps,
        DepositAmounts <- {}, TradeAmounts <- {},
        LpAmounts <- {}, YtAmounts <- {}, SyAmounts <- {},
        StatusChoices <- {}, MaxLpChoices <- {}, BpsChoices <- {},
        LimitChoices <- {}, tokens <- lp_tokens, market <- m

Books == [vault |-> vault, position |-> position, py_tokens |-> py_tokens,
          sy_vault |-> sy_vault, market |-> market, lp_tokens |-> lp_tokens]

Committed == [books |-> Books, wallet |-> wallet, ledger |-> ledger]

-----------------------------------------------------------------------------
(* The course of a transaction.                                            *)

Idle == [handler |-> "none", pc |-> "idle", amount |-> 0, amount_pt |-> 0,
         er |-> 0, fr |-> 0, sy |-> 0, py |-> 0, lp |-> 0,
         copy |-> [vault |-> <<>>, market |-> <<>>], log |-> <<>>]

\* The accounts that each wrapper loads and writes back when it exits.
Loaded(handler) ==
    CASE handler \in {"wrapper_strip", "wrapper_merge",
                      "wrapper_collect_interest"} -> {"vault"}
      [] handler \in {"wrapper_provide_liquidity", "wrapper_buy_yt"} ->
             {"vault", "market"}
      [] OTHER -> {"market"}

\* Nothing moves around a transaction that runs.
At(handler, pc) == tx.handler = handler /\ tx.pc = pc /\ UNCHANGED others

\* Mutant: no account is reloaded after a call.
NotReloaded(names) == tx.copy

\* The wrapper's copies after the accounts of these names are reloaded.
Reloaded(names) ==
    [vault  |-> IF "vault" \in names THEN vault' ELSE tx.copy.vault,
     market |-> IF "market" \in names THEN market' ELSE tx.copy.market]

Logged == IF books' = books THEN tx.log ELSE Append(tx.log, Books')

\* After a call: reload these accounts, keep these results, go on at pc.
Then(pc, reloads, results) ==
    LET next == [tx EXCEPT !.pc = pc, !.copy = Reloaded(reloads), !.log = Logged]
    IN  tx' = [f \in DOMAIN tx |-> IF f \in DOMAIN results
                                   THEN results[f] ELSE next[f]]

Nothing == [f \in {} |-> 0]

\* Nothing is called: the wrapper only computes.
NoCall == UNCHANGED <<books, wallet, ledger>>

-----------------------------------------------------------------------------
(* The calls: cpi_mint_sy and cpi_redeem_sy of the SY program, and do_cpi_* *)
(* of the program itself, with the tokens they move in the user's wallet.   *)

MintedSy(base) == (base * ONE) \div rate

MintSy(base) ==
    /\ wallet' = [wallet EXCEPT !.sy = @ + MintedSy(base)]
    /\ ledger' = [ledger EXCEPT !.mint_sy = @ + MintedSy(base)]
    /\ UNCHANGED books

RedeemSy(amount) ==
    /\ amount <= wallet.sy
    /\ wallet' = [wallet EXCEPT !.sy = @ - amount]
    /\ ledger' = [ledger EXCEPT !.mint_sy = @ - amount]
    /\ UNCHANGED books

vaultBooks  == <<vault, position, py_tokens, sy_vault>>
marketBooks == <<market, lp_tokens>>

DoCpiStrip(amount) ==
    /\ amount <= wallet.sy
    /\ V!Strip(amount)
    /\ wallet' = [wallet EXCEPT
                    !.sy = @ - amount,
                    !.pt = @ + py_tokens'.mint_pt - py_tokens.mint_pt,
                    !.yt = @ + py_tokens'.yt_wallets - py_tokens.yt_wallets]
    /\ UNCHANGED <<marketBooks, ledger>>

DoCpiMerge(py) ==
    /\ py <= wallet.pt
    /\ V!BurnedYt(py) <= wallet.yt
    /\ V!Merge(py)
    /\ wallet' = [wallet EXCEPT
                    !.sy = @ + sy_vault.sy_balance - sy_vault'.sy_balance,
                    !.pt = @ - py, !.yt = @ - V!BurnedYt(py)]
    /\ UNCHANGED <<marketBooks, ledger>>

DoCpiDepositYt(amount) ==
    /\ amount <= wallet.yt
    /\ V!DepositYt(User, amount)
    /\ wallet' = [wallet EXCEPT !.yt = @ - amount]
    /\ UNCHANGED <<marketBooks, ledger>>

\* Claims everything staged; the treasury's fee is paid out with it.
InterestToUser ==
    LET amount == position[User].interest.staged
    IN  amount - CeilFee(amount, vault.interest_bps_fee)

DoCpiCollectInterest ==
    /\ V!CollectInterest(User)
    /\ wallet' = [wallet EXCEPT !.sy = @ + InterestToUser]
    /\ ledger' = [ledger EXCEPT
                    !.treasury = @ + position[User].interest.staged - InterestToUser]
    /\ UNCHANGED marketBooks

\* The wallet w after the trade t.
Trader(w, t) ==
    IF t.is_buy
    THEN [w EXCEPT !.sy = @ - M!NetTraderSy(t), !.pt = @ + t.pt]
    ELSE [w EXCEPT !.sy = @ + M!NetTraderSy(t), !.pt = @ - t.pt]

FeePaid(t) == [ledger EXCEPT !.treasury = @ + M!TreasuryFee(t)]

\* The flag of the account, not the wrapper, decides how a trade is priced.
TradeOf(is_buy, pt, er, fr) ==
    [is_buy |-> is_buy, pt |-> pt, er |-> er, fr |-> fr,
     flash |-> market.is_current_flash_swap]

DoCpiTradePt(t) ==
    /\ IF t.is_buy THEN M!NetTraderSy(t) <= wallet.sy ELSE t.pt <= wallet.pt
    /\ M!TradePt(t) /\ M!Bounded
    /\ wallet' = Trader(wallet, t)
    /\ ledger' = FeePaid(t)
    /\ UNCHANGED vaultBooks

DoCpiDepositLiquidity(pt_intent, sy_intent) ==
    LET r == M!AddLiquidity(pt_intent, sy_intent)
    IN  /\ r.pt_in <= wallet.pt /\ r.sy_in <= wallet.sy
        /\ M!DepositLiquidity(pt_intent, sy_intent) /\ M!Bounded
        /\ wallet' = [wallet EXCEPT !.sy = @ - r.sy_in, !.pt = @ - r.pt_in,
                                    !.lp = @ + r.lp_out]
        /\ UNCHANGED <<vaultBooks, ledger>>

DoCpiWithdrawLiquidity(lp) ==
    /\ lp <= wallet.lp
    /\ M!WithdrawLiquidity(lp)
    /\ wallet' = [wallet EXCEPT
                    !.sy = @ + lp_tokens.sy_position - lp_tokens'.sy_position,
                    !.pt = @ + lp_tokens.pt_escrow - lp_tokens'.pt_escrow,
                    !.lp = @ - lp]
    /\ UNCHANGED <<vaultBooks, ledger>>

\* The stake that the market counts; LpFarm has the rewards it earns.
DoCpiDepositLp(lp) ==
    /\ lp <= wallet.lp
    /\ wallet' = [wallet EXCEPT !.lp = @ - lp, !.staked = @ + lp]
    /\ market' = [market EXCEPT !.lp_escrow_amount = @ + lp]
    /\ UNCHANGED <<vaultBooks, lp_tokens, ledger>>

\* Mutant: more may be taken out than is staked.
DoCpiWithdrawLpUnchecked(lp) ==
    /\ wallet' = [wallet EXCEPT !.lp = @ + lp, !.staked = @ - lp]
    /\ market' = [market EXCEPT !.lp_escrow_amount = @ - lp]
    /\ UNCHANGED <<vaultBooks, lp_tokens, ledger>>

DoCpiWithdrawLp(lp) ==
    /\ lp <= wallet.staked /\ lp <= market.lp_escrow_amount
    /\ wallet' = [wallet EXCEPT !.lp = @ + lp, !.staked = @ - lp]
    /\ market' = [market EXCEPT !.lp_escrow_amount = @ - lp]
    /\ UNCHANGED <<vaultBooks, lp_tokens, ledger>>

\* buy_yt strips what it borrows and what the user adds, in the vault.
SoldPt(yt_out) == SyToPy(rate, PyToSyCeil(rate, yt_out))

DoCpiBuyYt(sy_in, yt_out, er, fr) ==
    /\ sy_in <= wallet.sy
    /\ M!BuyYt(sy_in, yt_out, er, fr) /\ M!Bounded
    /\ V!Strip(PyToSyCeil(rate, yt_out))
    /\ wallet' = [wallet EXCEPT
                    !.sy = @ - sy_in,
                    !.yt = @ + py_tokens'.yt_wallets - py_tokens.yt_wallets]
    /\ ledger' = FeePaid(M!FlashTrade(FALSE, SoldPt(yt_out), er, fr))

\* sell_yt merges the YT with borrowed PT and buys these back.
SoldYtProceeds(yt_in, er, fr) ==
    PyToSy(rate, yt_in) - M!NetTraderSy(M!FlashTrade(TRUE, yt_in, er, fr))

DoCpiSellYt(yt_in, er, fr) ==
    /\ yt_in <= wallet.yt
    /\ M!SellYt(yt_in, er, fr) /\ M!Bounded
    /\ V!Merge(yt_in)
    /\ sy_vault.sy_balance - sy_vault'.sy_balance = PyToSy(rate, yt_in)
    /\ wallet' = [wallet EXCEPT !.yt = @ - yt_in,
                                !.sy = @ + SoldYtProceeds(yt_in, er, fr)]
    /\ ledger' = FeePaid(M!FlashTrade(TRUE, yt_in, er, fr))

-----------------------------------------------------------------------------
(* The wrappers.  One disjunct per call.                                    *)

\* Mutant: the base asset needed is rounded down.
SyToPyCeilDown(r, amount) == SyToPy(r, amount)

SyToPyCeil(r, amount) == CeilDiv(NumMul(FromNatural(amount), r), ONE)

WrapperStrip ==
    \/ /\ At("wrapper_strip", "start")
       /\ MintSy(tx.amount) /\ MintedSy(tx.amount) > 0
       /\ Then("strip", {}, [sy |-> MintedSy(tx.amount)])
    \/ /\ At("wrapper_strip", "strip")
       /\ DoCpiStrip(tx.sy)
       /\ Then("deposit_yt", {"vault"}, [py |-> wallet'.pt - wallet.pt])
    \/ /\ At("wrapper_strip", "deposit_yt")
       /\ DoCpiDepositYt(tx.py)
       /\ Then("exit", {"vault"}, Nothing)

WrapperMerge ==
    \/ /\ At("wrapper_merge", "start")
       /\ DoCpiMerge(tx.amount)
       /\ Then("redeem", {"vault"}, [sy |-> wallet'.sy - wallet.sy])
    \/ /\ At("wrapper_merge", "redeem")
       /\ RedeemSy(tx.sy)
       /\ Then("exit", {}, Nothing)

WrapperCollectInterest ==
    \/ /\ At("wrapper_collect_interest", "start")
       /\ DoCpiCollectInterest
       /\ Then("redeem", {"vault"}, [sy |-> InterestToUser])
    \/ /\ At("wrapper_collect_interest", "redeem")
       /\ RedeemSy(tx.sy)
       /\ Then("exit", {}, Nothing)

\* The trade is simulated on a copy of the financials to know what to mint.
WrapperBuyPt ==
    \/ \E er \in ExchangeRates, fr \in FeeRates :
        LET t == [is_buy |-> TRUE, pt |-> tx.amount, er |-> er, fr |-> fr,
                  flash |-> FALSE]
        IN  /\ At("wrapper_buy_pt", "start")
            /\ M!CanTrade(t)
            /\ MintSy(SyToPyCeil(rate, M!NetTraderSy(t)))
            /\ Then("trade_pt", {},
                    [sy |-> M!NetTraderSy(t), er |-> er, fr |-> fr])
    \/ LET t == TradeOf(TRUE, tx.amount, tx.er, tx.fr)
       IN  /\ At("wrapper_buy_pt", "trade_pt")
           /\ M!NetTraderSy(t) <= tx.sy
           /\ DoCpiTradePt(t)
           /\ Then("exit", {"market"}, Nothing)

WrapperSellPt ==
    \/ /\ At("wrapper_sell_pt", "start")
       /\ \E er \in ExchangeRates, fr \in FeeRates :
              DoCpiTradePt(TradeOf(FALSE, tx.amount, er, fr))
       /\ Then("redeem", {"market"}, [sy |-> wallet'.sy - wallet.sy])
    \/ /\ At("wrapper_sell_pt", "redeem")
       /\ RedeemSy(tx.sy)
       /\ Then("exit", {}, Nothing)

\* sim_buy_yt: SY to strip for the YT, less what their PT would sell for.
SimBuyYt(t) == PyToSyCeil(rate, t.pt) - M!NetTraderSy(t)

\* Mutant: the YT asked for are deposited, not those that were bought.
BoughtYtAsked == tx.amount

BoughtYt == wallet'.yt - wallet.yt

WrapperBuyYt ==
    \/ \E er \in ExchangeRates, fr \in FeeRates :
        LET t == M!FlashTrade(FALSE, tx.amount, er, fr)
            base == SyToPyCeil(rate, SimBuyYt(t))
        IN  /\ At("wrapper_buy_yt", "start")
            /\ M!CanTrade(t) /\ SimBuyYt(t) >= 0
            /\ MintSy(base)
            /\ Then("buy_yt", {}, [sy |-> MintedSy(base), er |-> er, fr |-> fr])
    \/ /\ At("wrapper_buy_yt", "buy_yt")
       /\ \E er \in ExchangeRates, fr \in FeeRates :
            /\ SoldPt(tx.amount) = tx.amount => er = tx.er /\ fr = tx.fr
            /\ DoCpiBuyYt(tx.sy, tx.amount, er, fr)
       /\ Then("deposit_yt", {"market", "vault"}, [py |-> BoughtYt])
    \/ /\ At("wrapper_buy_yt", "deposit_yt")
       /\ DoCpiDepositYt(tx.py)
       /\ Then("exit", {"vault"}, Nothing)

\* The vault is passed on unread: only the market is loaded.
WrapperSellYt ==
    \/ /\ At("wrapper_sell_yt", "start")
       /\ \E er \in ExchangeRates, fr \in FeeRates :
              DoCpiSellYt(tx.amount, er, fr)
       /\ Then("redeem", {"market"}, [sy |-> wallet'.sy - wallet.sy])
    \/ /\ At("wrapper_sell_yt", "redeem")
       /\ RedeemSy(tx.sy)
       /\ Then("exit", {}, Nothing)

\* calc_strip_amount: the part of the SY to strip so that the PT and the rest
\* of the SY are in the pool's proportion, rounded up.
CalcStripAmount(amount) ==
    CeilDiv(NumDiv(NumMul(FromNatural(amount), FromNatural(market.pt_balance)),
                   NumMul(rate, FromNatural(market.sy_balance))
                       + FromNatural(market.pt_balance)),
            ONE)

\* to_strip is computed from the wrapper's own copy of the market, which
\* nothing has changed yet.
WrapperProvideLiquidity ==
    \/ /\ At("wrapper_provide_liquidity", "start")
       /\ MintSy(tx.amount) /\ MintedSy(tx.amount) > 0
       /\ Then("strip", {}, [sy |-> MintedSy(tx.amount)])
    \/ LET to_strip == CalcStripAmount(tx.sy)
       IN  /\ At("wrapper_provide_liquidity", "strip")
           /\ market.pt_balance + market.sy_balance > 0  \* else it divides by zero
           /\ to_strip <= tx.sy
           /\ DoCpiStrip(to_strip)
           /\ Then("deposit_liquidity", {"vault"},
                   [py |-> wallet'.pt - wallet.pt, sy |-> tx.sy - to_strip])
    \/ /\ At("wrapper_provide_liquidity", "deposit_liquidity")
       /\ DoCpiDepositLiquidity(tx.py, tx.sy)
       /\ Then("deposit_yt", {"market"}, [lp |-> wallet'.lp - wallet.lp])
    \/ /\ At("wrapper_provide_liquidity", "deposit_yt")
       /\ DoCpiDepositYt(tx.py)
       /\ Then("deposit_lp", {"vault"}, Nothing)
    \/ /\ At("wrapper_provide_liquidity", "deposit_lp")
       /\ DoCpiDepositLp(tx.lp)
       /\ Then("exit", {"market"}, Nothing)

WrapperProvideLiquidityClassic ==
    \/ /\ At("wrapper_provide_liquidity_classic", "start")
       /\ MintSy(tx.amount) /\ MintedSy(tx.amount) > 0
       /\ Then("deposit_liquidity", {}, [sy |-> MintedSy(tx.amount)])
    \/ /\ At("wrapper_provide_liquidity_classic", "deposit_liquidity")
       /\ DoCpiDepositLiquidity(tx.amount_pt, tx.sy)
       /\ Then("deposit_lp", {"market"}, [lp |-> wallet'.lp - wallet.lp])
    \/ /\ At("wrapper_provide_liquidity_classic", "deposit_lp")
       /\ DoCpiDepositLp(tx.lp)
       /\ Then("exit", {"market"}, Nothing)

\* Mutant: the flag stays set.
FlashSwapNotEnded(copy) == copy

FlashSwapEnded(copy) == [copy EXCEPT !.market.is_current_flash_swap = FALSE]

\* PT are bought at the price of a flash swap: the flag is written out before
\* the trade, survives the reloads, and is taken back in the copy that the
\* exit writes.
WrapperProvideLiquidityBase ==
    \/ \E er \in ExchangeRates, fr \in FeeRates :
        LET t      == M!FlashTrade(TRUE, tx.amount, er, fr)
            traded == M!Traded(market, t)
            needed == M!NetTraderSy(t)
                        + Pool(traded)!AddLiquidity(tx.amount, MaxU64).sy_in
        IN  /\ At("wrapper_provide_liquidity_base", "start")
            /\ M!CanTrade(t)
            /\ MintSy(SyToPyCeil(rate, needed))
            /\ Then("flag", {}, [er |-> er, fr |-> fr])
    \/ /\ At("wrapper_provide_liquidity_base", "flag")
       /\ market' = [tx.copy.market EXCEPT !.is_current_flash_swap = TRUE]
       /\ UNCHANGED <<vaultBooks, lp_tokens, wallet, ledger>>
       /\ Then("trade_pt", {"market"}, Nothing)
    \/ /\ At("wrapper_provide_liquidity_base", "trade_pt")
       /\ DoCpiTradePt(TradeOf(TRUE, tx.amount, tx.er, tx.fr))
       /\ Then("deposit_liquidity", {"market"}, Nothing)
    \/ /\ At("wrapper_provide_liquidity_base", "deposit_liquidity")
       /\ DoCpiDepositLiquidity(tx.amount, MaxU64)
       /\ Then("deposit_lp", {"market"}, [lp |-> wallet'.lp - wallet.lp])
    \/ /\ At("wrapper_provide_liquidity_base", "deposit_lp")
       /\ DoCpiDepositLp(tx.lp)
       /\ Then("unflag", {"market"}, Nothing)
    \/ /\ At("wrapper_provide_liquidity_base", "unflag")
       /\ NoCall
       /\ tx' = [tx EXCEPT !.pc = "exit", !.copy = FlashSwapEnded(@)]

\* The first two calls of both withdrawals.
WithdrawLpAndLiquidity(handler, next) ==
    \/ /\ At(handler, "start")
       /\ DoCpiWithdrawLp(tx.amount)
       /\ Then("withdraw_liquidity", {"market"}, Nothing)
    \/ /\ At(handler, "withdraw_liquidity")
       /\ DoCpiWithdrawLiquidity(tx.amount)
       /\ Then(next, {"market"}, [sy |-> wallet'.sy - wallet.sy,
                                  py |-> wallet'.pt - wallet.pt])

WrapperWithdrawLiquidity ==
    \/ WithdrawLpAndLiquidity("wrapper_withdraw_liquidity", "trade_pt")
    \/ /\ At("wrapper_withdraw_liquidity", "trade_pt")
       /\ \E er \in ExchangeRates, fr \in FeeRates :
              DoCpiTradePt(TradeOf(FALSE, tx.py, er, fr))
       /\ Then("redeem", {"market"}, [sy |-> tx.sy + wallet'.sy - wallet.sy])
    \/ /\ At("wrapper_withdraw_liquidity", "redeem")
       /\ RedeemSy(tx.sy)
       /\ Then("exit", {}, Nothing)

WrapperWithdrawLiquidityClassic ==
    \/ WithdrawLpAndLiquidity("wrapper_withdraw_liquidity_classic", "redeem")
    \/ /\ At("wrapper_withdraw_liquidity_classic", "redeem")
       /\ RedeemSy(tx.sy)
       /\ Then("exit", {}, Nothing)

-----------------------------------------------------------------------------
(* The runtime.                                                            *)

\* What the wrappers may be called with: an amount and, in one, one of PT.
Inputs(handler) ==
    CASE handler \in {"wrapper_strip", "wrapper_provide_liquidity"} ->
             BaseAmounts \X {0}
      [] handler = "wrapper_provide_liquidity_classic" -> BaseAmounts \X PyAmounts
      [] handler = "wrapper_collect_interest" -> {<<0, 0>>}
      [] handler \in {"wrapper_withdraw_liquidity",
                      "wrapper_withdraw_liquidity_classic"} -> LpAmounts \X {0}
      [] OTHER -> PyAmounts \X {0}

Handlers == {"wrapper_strip", "wrapper_merge", "wrapper_collect_interest",
             "wrapper_buy_pt", "wrapper_sell_pt", "wrapper_buy_yt",
             "wrapper_sell_yt", "wrapper_provide_liquidity",
             "wrapper_provide_liquidity_base",
             "wrapper_provide_liquidity_classic",
             "wrapper_withdraw_liquidity", "wrapper_withdraw_liquidity_classic"}

\* The runtime deserializes the accounts that the wrapper loads.
Start(handler) ==
    /\ tx.pc = "idle"
    /\ transactions < MaxTransactions
    /\ transactions' = transactions + 1
    /\ \E in \in Inputs(handler) :
        tx' = [Idle EXCEPT !.handler = handler, !.pc = "start",
                           !.amount = in[1], !.amount_pt = in[2],
                           !.copy = [vault |-> vault, market |-> market]]
    /\ UNCHANGED <<now, sy, opened, books, wallet, ledger, committed>>

\* The wrapper is done: the accounts it loaded are written back.
Exit ==
    /\ At(tx.handler, "exit")
    /\ vault' = IF "vault" \in Loaded(tx.handler) THEN tx.copy.vault ELSE vault
    /\ market' = IF "market" \in Loaded(tx.handler) THEN tx.copy.market ELSE market
    /\ UNCHANGED <<position, py_tokens, sy_vault, lp_tokens, wallet, ledger>>
    /\ Then("publish", {}, Nothing)

\* The transaction has succeeded: others see what it wrote, write by write.
Publish ==
    /\ tx.pc = "publish"
    /\ IF tx.log = <<>>
       THEN committed' = Committed /\ tx' = Idle
       ELSE /\ committed' = [committed EXCEPT !.books = Head(tx.log)]
            /\ tx' = [tx EXCEPT !.log = Tail(@)]
    /\ UNCHANGED <<now, sy, opened, transactions, books, wallet, ledger>>

\* A call fails, or a limit that the user named is not met.
Abort ==
    /\ tx.handler # "none" /\ tx.pc # "publish"
    /\ vault' = committed.books.vault /\ position' = committed.books.position
    /\ py_tokens' = committed.books.py_tokens
    /\ sy_vault' = committed.books.sy_vault
    /\ market' = committed.books.market
    /\ lp_tokens' = committed.books.lp_tokens
    /\ wallet' = committed.wallet /\ ledger' = committed.ledger
    /\ tx' = Idle
    /\ UNCHANGED others

-----------------------------------------------------------------------------
(* What comes before the wrappers, and between them.                       *)

\* The user opens a yield position.
Open ==
    /\ tx.pc = "open"
    /\ V!InitializeYieldPosition(User)
    /\ tx' = [tx EXCEPT !.pc = "launch"]
    /\ UNCHANGED <<marketBooks, wallet, ledger, transactions>>
    /\ committed' = Committed'

\* The administrator strips SY, puts part of the PT in the pool and hands
\* over the rest of what there is.
Launch ==
    /\ tx.pc = "launch"
    /\ V!Strip(StrippedSy)
    /\ py_tokens'.mint_pt >= InitialPt
    /\ wallet' = [sy |-> WalletSy, pt |-> py_tokens'.mint_pt - InitialPt,
                  yt |-> py_tokens'.yt_wallets, lp |-> InitialLp, staked |-> 0]
    /\ ledger' = [mint_sy |-> StrippedSy + InitialSy + WalletSy, treasury |-> 0]
    /\ tx' = Idle
    /\ UNCHANGED <<marketBooks, transactions>>
    /\ committed' = Committed'

Environment ==
    /\ tx.pc = "idle"
    /\ \/ V!Tick
       \/ V!SetExchangeRate /\ UNCHANGED <<now, vault, position, opened, py_tokens>>
    /\ UNCHANGED <<marketBooks, wallet, ledger, tx, transactions, committed>>

\* Vault and market as their own modules start them.
Init ==
    /\ now = 0
    /\ V!Init
    /\ market = [lp_escrow_amount |-> 0,
                 pt_balance |-> InitialPt, sy_balance |-> InitialSy,
                 status_flags |-> M!Flags, fee_treasury_sy_bps |-> TreasuryFeeBps,
                 max_lp_supply |-> MaxU64, is_current_flash_swap |-> FALSE,
                 limits |-> [window_start_timestamp |-> 0,
                             window_start_net_balance |-> 0, negative |-> 10000,
                             positive |-> MaxU32, duration |-> 0]]
    /\ lp_tokens = [mint_lp |-> InitialLp, pt_escrow |-> InitialPt,
                    sy_position |-> InitialSy]
    /\ wallet = [sy |-> 0, pt |-> 0, yt |-> 0, lp |-> 0, staked |-> 0]
    /\ ledger = [mint_sy |-> 0, treasury |-> 0]
    /\ tx = [Idle EXCEPT !.pc = "open"]
    /\ transactions = 0
    /\ committed = Committed

Next ==
    \/ Open
    \/ Launch
    \/ Environment
    \/ \E handler \in Handlers : Start(handler)
    \/ WrapperStrip
    \/ WrapperMerge
    \/ WrapperCollectInterest
    \/ WrapperBuyPt
    \/ WrapperSellPt
    \/ WrapperBuyYt
    \/ WrapperSellYt
    \/ WrapperProvideLiquidity
    \/ WrapperProvideLiquidityClassic
    \/ WrapperProvideLiquidityBase
    \/ WrapperWithdrawLiquidity
    \/ WrapperWithdrawLiquidityClassic
    \/ Exit
    \/ Publish
    \/ Abort

Spec == Init /\ [][Next]_vars
=============================================================================
