------------------------- MODULE TransactionsProofs -------------------------
(***************************************************************************)
(* The wrappers keep what they were given and what they pass on: the       *)
(* inductive invariant of Transactions and the theorems that follow from   *)
(* it, for every value of the constants; last, that what others see of the *)
(* vault and of the pool is a behaviour of Vault and of Market.            *)
(***************************************************************************)
EXTENDS TransactionsCalls

-----------------------------------------------------------------------------
(* The wrappers.                                                           *)

LEMMA StripRuns ==
    ASSUME Course, WrapperStrip
    PROVE  Course' /\ UNCHANGED others
  <1>1. /\ tx.handler = "wrapper_strip" /\ UNCHANGED others
        /\ Loaded(tx.handler) = {"vault"}
        /\ Sound /\ ~market.is_current_flash_swap
    BY LoadedAccounts DEF WrapperStrip, At, Course, FlagTaken, Base
  <1>2. StripHolds /\ (tx.pc = "start" => wallet = committed.wallet)
    BY DEF Course, WrappersHold
  <1>3. ASSUME NEW pc, tx'.handler = tx.handler, tx'.pc = pc, pc # "start",
               StripHolds'
        PROVE  WrappersHold'
    BY <1>1, <1>3 DEF WrappersHold, BuyPtHolds, BuyYtHolds, ProvideHolds,
       ClassicHolds, BaseHolds, Base, RedeemerHolds, Redeemers
  <1>4. CASE /\ At("wrapper_strip", "start")
             /\ MintSy(tx.amount)
             /\ Then("strip", {}, [sy |-> MintedSy(tx.amount)])
    <2> DEFINE R == [sy |-> MintedSy(tx.amount)]
    <2>1. /\ Sound' /\ MintedSy(tx.amount) \in Nat
          /\ wallet'.sy = wallet.sy + MintedSy(tx.amount)
          /\ wallet'.yt = wallet.yt /\ wallet'.lp = wallet.lp
          /\ UNCHANGED books
      BY <1>1, <1>4, MintSyKeeps, CourseTypes
    <2>2. DOMAIN R = {"sy"} /\ R.sy = MintedSy(tx.amount)
      OBVIOUS
    <2>3. Then("strip", {}, R)
      BY <1>4
    <2> HIDE DEF R
    <2>4. /\ TxTyped' /\ CopiesCurrent' /\ InCourse' /\ FlagTaken'
          /\ committed'.wallet = committed.wallet /\ committed'.wallet \in Wallet
          /\ tx'.handler = tx.handler /\ tx'.pc = "strip"
          /\ tx'.sy = MintedSy(tx.amount)
      BY <1>1, <2>1, <2>2, <2>3, CallKeeps DEF books, Base
    <2>5. StripHolds'
      BY <1>1, <1>2, <1>4, <2>1, <2>4, CourseTypes DEF StripHolds, Holds, At
    <2> QED
      BY <1>1, <1>3, <2>1, <2>4, <2>5, RunsOn
  <1>5. CASE /\ At("wrapper_strip", "strip")
             /\ DoCpiStrip(tx.sy)
             /\ Then("deposit_yt", {"vault"}, [py |-> wallet'.pt - wallet.pt])
    <2> DEFINE R == [py |-> wallet'.pt - wallet.pt]
               py == SyToPy(rate, tx.sy)
    <2>1. /\ Sound' /\ py \in Nat
          /\ wallet'.sy = wallet.sy - tx.sy
          /\ wallet'.pt = wallet.pt + py /\ wallet'.yt = wallet.yt + py
          /\ wallet'.lp = wallet.lp
          /\ UNCHANGED marketBooks
      BY <1>1, <1>5, CpiStripKeeps, CourseTypes
    <2> HIDE DEF py
    <2>2. DOMAIN R = {"py"} /\ R.py = py
      BY <2>1, CourseTypes
    <2>3. Then("deposit_yt", {"vault"}, R)
      BY <1>5
    <2> HIDE DEF R
    <2>4. /\ TxTyped' /\ CopiesCurrent' /\ InCourse' /\ FlagTaken'
          /\ committed'.wallet = committed.wallet /\ committed'.wallet \in Wallet
          /\ tx'.handler = tx.handler /\ tx'.pc = "deposit_yt"
          /\ tx'.py = py
      BY <1>1, <2>1, <2>2, <2>3, CallKeeps DEF marketBooks, Base
    <2>5. StripHolds'
      BY <1>1, <1>2, <1>5, <2>1, <2>4, CourseTypes DEF StripHolds, Holds, At
    <2> QED
      BY <1>1, <1>3, <2>1, <2>4, <2>5, RunsOn
  <1>6. CASE /\ At("wrapper_strip", "deposit_yt")
             /\ DoCpiDepositYt(tx.py)
             /\ Then("exit", {"vault"}, Nothing)
    <2>1. /\ Sound' /\ wallet'.yt = wallet.yt - tx.py
          /\ wallet'.sy = wallet.sy /\ wallet'.lp = wallet.lp
          /\ UNCHANGED marketBooks
      BY <1>1, <1>6, CpiDepositYtKeeps, CourseTypes
    <2>4. /\ TxTyped' /\ CopiesCurrent' /\ InCourse' /\ FlagTaken'
          /\ committed'.wallet = committed.wallet /\ committed'.wallet \in Wallet
          /\ tx'.handler = tx.handler /\ tx'.pc = "exit"
      BY <1>1, <1>6, <2>1, NoResults, CallKeeps DEF marketBooks, Base
    <2>5. StripHolds'
      BY <1>1, <1>2, <1>6, <2>1, <2>4, CourseTypes DEF StripHolds, Holds, At
    <2> QED
      BY <1>1, <1>3, <2>1, <2>4, <2>5, RunsOn
  <1> QED
    BY <1>1, <1>4, <1>5, <1>6 DEF WrapperStrip

\* The wrappers that redeem what they have obtained.
LEMMA RedeemerSteps ==
    ASSUME Course, tx.handler \in Redeemers, UNCHANGED others, Sound',
           NEW pc \in {"withdraw_liquidity", "trade_pt", "redeem", "exit"},
           NEW reloads, NEW results,
           DOMAIN results \subseteq {"sy", "py"},
           \A f \in DOMAIN results : results[f] \in Nat,
           Then(pc, reloads, results),
           "vault" \in Loaded(tx.handler) =>
               "vault" \in reloads \/ vault' = vault,
           "market" \in Loaded(tx.handler) =>
               "market" \in reloads \/ market' = market,
           ~market'.is_current_flash_swap,
           IF pc \in {"trade_pt", "redeem"}
           THEN /\ "sy" \in DOMAIN results
                /\ wallet'.sy = committed.wallet.sy + results["sy"]
           ELSE wallet'.sy = committed.wallet.sy
    PROVE  Course'
  <1>1. tx.handler # Base
    BY DEF Redeemers, Base
  <1>2. pc \notin {"open", "launch", "idle", "start", "publish"}
    OBVIOUS
  <1>3. DOMAIN results \subseteq {"sy", "py", "lp", "er", "fr"}
    OBVIOUS
  <1>4. /\ TxTyped' /\ CopiesCurrent' /\ InCourse' /\ FlagTaken'
        /\ committed'.wallet = committed.wallet /\ committed'.wallet \in Wallet
        /\ tx'.handler = tx.handler /\ tx'.pc = pc
        /\ tx'.sy = IF "sy" \in DOMAIN results THEN results["sy"] ELSE tx.sy
    BY <1>1, <1>2, <1>3, CallKeeps
  <1>5. wallet'.sy \in Nat
    BY DEF Sound, Held, Wallet
  <1>6. committed.wallet.sy + 0 = committed.wallet.sy
    BY CourseTypes
  <1>7. RedeemerHolds'
    BY <1>4, <1>6 DEF RedeemerHolds, HoldsSy
  <1>8. WrappersHold'
    BY <1>2, <1>4, <1>7 DEF WrappersHold, StripHolds, BuyPtHolds, BuyYtHolds,
       ProvideHolds, ClassicHolds, BaseHolds, Base, Redeemers
  <1> QED
    BY <1>4, <1>8, RunsOn

LEMMA RedeemRuns ==
    ASSUME Course, tx.handler \in Redeemers, tx.pc = "redeem", UNCHANGED others,
           RedeemSy(tx.sy), Then("exit", {}, Nothing)
    PROVE  Course'
  <1>1. /\ Sound' /\ wallet'.sy = wallet.sy - tx.sy /\ UNCHANGED books
    BY RedeemSyKeeps, CourseTypes DEF Course
  <1>2. wallet.sy = committed.wallet.sy + tx.sy
    BY DEF Course, WrappersHold, RedeemerHolds, HoldsSy
  <1>3. wallet'.sy = committed.wallet.sy
    BY <1>1, <1>2, CourseTypes
  <1>4. ~market'.is_current_flash_swap /\ UNCHANGED <<vault, market>>
    BY <1>1 DEF Course, FlagTaken, Redeemers, Base, books
  <1> QED
    BY <1>1, <1>3, <1>4, NoResults, RedeemerSteps

LEMMA MergeRuns ==
    ASSUME Course, WrapperMerge
    PROVE  Course' /\ UNCHANGED others
  <1>1. /\ tx.handler = "wrapper_merge" /\ UNCHANGED others
        /\ tx.handler \in Redeemers /\ Loaded(tx.handler) = {"vault"}
        /\ Sound /\ ~market.is_current_flash_swap
    BY LoadedAccounts, NoFlag DEF WrapperMerge, At, Course, Base, Redeemers
  <1>2. CASE /\ At("wrapper_merge", "start")
             /\ DoCpiMerge(tx.amount)
             /\ Then("redeem", {"vault"}, [sy |-> wallet'.sy - wallet.sy])
    <2> DEFINE R == [sy |-> wallet'.sy - wallet.sy]
    <2>1. /\ Sound' /\ wallet'.sy - wallet.sy \in Nat /\ UNCHANGED marketBooks
      BY <1>1, <1>2, CpiMergeKeeps, CourseTypes
    <2>2. DOMAIN R = {"sy"} /\ R["sy"] = wallet'.sy - wallet.sy
      OBVIOUS
    <2>3. Then("redeem", {"vault"}, R)
      BY <1>2
    <2> HIDE DEF R
    <2>4. wallet = committed.wallet
      BY <1>2 DEF Course, WrappersHold, At
    <2>5. wallet'.sy = committed.wallet.sy + R["sy"]
      <3>1. wallet.sy \in Nat /\ wallet'.sy \in Nat
        BY <2>1, CourseTypes DEF Sound, Held, Wallet
      <3> QED
        BY <2>2, <2>4, <3>1
    <2>6. ~market'.is_current_flash_swap
      BY <1>1, <2>1 DEF marketBooks
    <2> QED
      BY <1>1, <2>1, <2>2, <2>3, <2>5, <2>6, RedeemerSteps
  <1>3. CASE /\ At("wrapper_merge", "redeem")
             /\ RedeemSy(tx.sy)
             /\ Then("exit", {}, Nothing)
    BY <1>1, <1>3, RedeemRuns DEF At
  <1> QED
    BY <1>1, <1>2, <1>3 DEF WrapperMerge

LEMMA CollectInterestRuns ==
    ASSUME Course, WrapperCollectInterest
    PROVE  Course' /\ UNCHANGED others
  <1>1. /\ tx.handler = "wrapper_collect_interest" /\ UNCHANGED others
        /\ tx.handler \in Redeemers /\ Loaded(tx.handler) = {"vault"}
        /\ Sound /\ ~market.is_current_flash_swap
    BY LoadedAccounts, NoFlag
       DEF WrapperCollectInterest, At, Course, Base, Redeemers
  <1>2. CASE /\ At("wrapper_collect_interest", "start")
             /\ DoCpiCollectInterest
             /\ Then("redeem", {"vault"}, [sy |-> InterestToUser])
    <2> DEFINE R == [sy |-> InterestToUser]
    <2>1. /\ Sound' /\ InterestToUser \in Nat
          /\ wallet'.sy = wallet.sy + InterestToUser /\ UNCHANGED marketBooks
      BY <1>1, <1>2, CpiCollectInterestKeeps
    <2>2. DOMAIN R = {"sy"} /\ R["sy"] = InterestToUser
      OBVIOUS
    <2>3. Then("redeem", {"vault"}, R)
      BY <1>2
    <2> HIDE DEF R
    <2>4. wallet = committed.wallet
      BY <1>2 DEF Course, WrappersHold, At
    <2>5. wallet'.sy = committed.wallet.sy + R["sy"]
      BY <2>1, <2>2, <2>4
    <2>6. ~market'.is_current_flash_swap
      BY <1>1, <2>1 DEF marketBooks
    <2> QED
      BY <1>1, <2>1, <2>2, <2>3, <2>5, <2>6, RedeemerSteps
  <1>3. CASE /\ At("wrapper_collect_interest", "redeem")
             /\ RedeemSy(tx.sy)
             /\ Then("exit", {}, Nothing)
    BY <1>1, <1>3, RedeemRuns DEF At
  <1> QED
    BY <1>1, <1>2, <1>3 DEF WrapperCollectInterest

LEMMA SellPtRuns ==
    ASSUME Course, WrapperSellPt
    PROVE  Course' /\ UNCHANGED others
  <1>1. /\ tx.handler = "wrapper_sell_pt" /\ UNCHANGED others
        /\ tx.handler \in Redeemers /\ Loaded(tx.handler) = {"market"}
        /\ Sound /\ ~market.is_current_flash_swap
    BY LoadedAccounts, NoFlag, Zenon DEF WrapperSellPt, At, Course, Base, Redeemers
  <1>2. ASSUME NEW er \in ExchangeRates, NEW fr \in FeeRates,
               At("wrapper_sell_pt", "start"),
               DoCpiTradePt(TradeOf(FALSE, tx.amount, er, fr)),
               Then("redeem", {"market"}, [sy |-> wallet'.sy - wallet.sy])
        PROVE  Course'
    <2> DEFINE R == [sy |-> wallet'.sy - wallet.sy]
               t == TradeOf(FALSE, tx.amount, er, fr)
               net == M!NetTraderSy(t)
    <2>0. t \in MP!Trade /\ ~t.is_buy
      <3>1. er \in Nat /\ fr \in Nat /\ tx.amount \in Nat
        BY Constants, CourseTypes
      <3> QED
        BY ONLY Course, <3>1, Trades, Zenon
    <2> HIDE DEF t
    <2>1. /\ Sound' /\ net \in Nat /\ wallet'.sy = wallet.sy + net
          /\ market'.is_current_flash_swap = market.is_current_flash_swap
          /\ UNCHANGED vaultBooks
      BY <1>1, <1>2, <2>0, CpiTradePtKeeps, Zenon DEF t
    <2> HIDE DEF net
    <2>2. DOMAIN R = {"sy"} /\ R["sy"] = net
      BY <2>1, CourseTypes
    <2>3. Then("redeem", {"market"}, R)
      BY <1>2
    <2> HIDE DEF R
    <2>4. wallet = committed.wallet
      BY <1>2 DEF Course, WrappersHold, At
    <2>5. wallet'.sy = committed.wallet.sy + R["sy"]
      BY <2>1, <2>2, <2>4
    <2> QED
      BY <1>1, <2>1, <2>2, <2>3, <2>5, RedeemerSteps
  <1>3. CASE /\ At("wrapper_sell_pt", "redeem")
             /\ RedeemSy(tx.sy)
             /\ Then("exit", {}, Nothing)
    BY <1>1, <1>3, RedeemRuns DEF At
  <1> QED
    BY <1>1, <1>2, <1>3, Zenon DEF WrapperSellPt

LEMMA SellYtRuns ==
    ASSUME Course, WrapperSellYt
    PROVE  Course' /\ UNCHANGED others
  <1>1. /\ tx.handler = "wrapper_sell_yt" /\ UNCHANGED others
        /\ tx.handler \in Redeemers /\ Loaded(tx.handler) = {"market"}
        /\ Sound /\ ~market.is_current_flash_swap
    BY LoadedAccounts, NoFlag DEF WrapperSellYt, At, Course, Base, Redeemers
  <1>2. ASSUME NEW er \in ExchangeRates, NEW fr \in FeeRates,
               At("wrapper_sell_yt", "start"), DoCpiSellYt(tx.amount, er, fr),
               Then("redeem", {"market"}, [sy |-> wallet'.sy - wallet.sy])
        PROVE  Course'
    <2> DEFINE R == [sy |-> wallet'.sy - wallet.sy]
    <2>1. /\ Sound' /\ wallet'.sy - wallet.sy \in Nat
          /\ ~market'.is_current_flash_swap
      BY <1>1, <1>2, Constants, CpiSellYtKeeps, CourseTypes
    <2>2. DOMAIN R = {"sy"} /\ R["sy"] = wallet'.sy - wallet.sy
      OBVIOUS
    <2>3. Then("redeem", {"market"}, R)
      BY <1>2
    <2> HIDE DEF R
    <2>4. wallet = committed.wallet
      BY <1>2 DEF Course, WrappersHold, At
    <2>5. wallet'.sy = committed.wallet.sy + R["sy"]
      <3>1. wallet.sy \in Nat /\ wallet'.sy \in Nat
        BY <2>1, CourseTypes DEF Sound, Held, Wallet
      <3> QED
        BY <2>2, <2>4, <3>1
    <2> QED
      BY <1>1, <2>1, <2>2, <2>3, <2>5, RedeemerSteps
  <1>3. CASE /\ At("wrapper_sell_yt", "redeem")
             /\ RedeemSy(tx.sy)
             /\ Then("exit", {}, Nothing)
    BY <1>1, <1>3, RedeemRuns DEF At
  <1> QED
    BY <1>1, <1>2, <1>3 DEF WrapperSellYt

\* The two calls that both withdrawals start with.
LEMMA LpAndLiquidityRuns ==
    ASSUME Course,
           NEW handler \in {"wrapper_withdraw_liquidity",
                            "wrapper_withdraw_liquidity_classic"},
           NEW next \in {"trade_pt", "redeem"},
           WithdrawLpAndLiquidity(handler, next)
    PROVE  Course' /\ UNCHANGED others
  <1>1. /\ tx.handler = handler /\ UNCHANGED others
        /\ tx.handler \in Redeemers /\ Loaded(tx.handler) = {"market"}
        /\ Sound /\ ~market.is_current_flash_swap
    BY LoadedAccounts, NoFlag
       DEF WithdrawLpAndLiquidity, At, Course, Base, Redeemers
  <1>2. CASE /\ At(handler, "start")
             /\ DoCpiWithdrawLp(tx.amount)
             /\ Then("withdraw_liquidity", {"market"}, Nothing)
    <2>1. /\ Sound' /\ wallet'.sy = wallet.sy
          /\ market'.is_current_flash_swap = market.is_current_flash_swap
          /\ UNCHANGED vaultBooks
      BY <1>1, <1>2, CpiWithdrawLpKeeps, CourseTypes
    <2>2. wallet = committed.wallet
      BY <1>2 DEF Course, WrappersHold, At
    <2> QED
      BY <1>1, <1>2, <2>1, <2>2, NoResults, RedeemerSteps
  <1>3. CASE /\ At(handler, "withdraw_liquidity")
             /\ DoCpiWithdrawLiquidity(tx.amount)
             /\ Then(next, {"market"}, [sy |-> wallet'.sy - wallet.sy,
                                        py |-> wallet'.pt - wallet.pt])
    <2> DEFINE R == [sy |-> wallet'.sy - wallet.sy,
                     py |-> wallet'.pt - wallet.pt]
    <2>1. /\ Sound'
          /\ wallet'.sy - wallet.sy \in Nat /\ wallet'.pt - wallet.pt \in Nat
          /\ market'.is_current_flash_swap = market.is_current_flash_swap
          /\ UNCHANGED vaultBooks
      BY <1>1, <1>3, CpiWithdrawLiquidityKeeps, CourseTypes
    <2>2. /\ DOMAIN R = {"sy", "py"}
          /\ R["sy"] = wallet'.sy - wallet.sy /\ R["py"] = wallet'.pt - wallet.pt
      OBVIOUS
    <2>3. Then(next, {"market"}, R)
      BY <1>3
    <2> HIDE DEF R
    <2>4. wallet.sy = committed.wallet.sy
      BY <1>1, <1>3, CourseTypes
         DEF Course, WrappersHold, RedeemerHolds, HoldsSy, At
    <2>5. wallet'.sy = committed.wallet.sy + R["sy"]
      <3>1. wallet.sy \in Nat /\ wallet'.sy \in Nat
        BY <2>1, CourseTypes DEF Sound, Held, Wallet
      <3> QED
        BY <2>2, <2>4, <3>1
    <2>6. \A f \in DOMAIN R : R[f] \in Nat
      BY <2>1, <2>2
    <2> QED
      BY <1>1, <2>1, <2>2, <2>3, <2>5, <2>6, RedeemerSteps
  <1> QED
    BY <1>1, <1>2, <1>3 DEF WithdrawLpAndLiquidity

LEMMA WithdrawRuns ==
    ASSUME Course, WrapperWithdrawLiquidity
    PROVE  Course' /\ UNCHANGED others
  <1>1. /\ tx.handler = "wrapper_withdraw_liquidity" /\ UNCHANGED others
        /\ tx.handler \in Redeemers /\ Loaded(tx.handler) = {"market"}
        /\ Sound /\ ~market.is_current_flash_swap
    BY LoadedAccounts, NoFlag, Zenon DEF WrapperWithdrawLiquidity,
       WithdrawLpAndLiquidity, At, Course, Base, Redeemers
  <1>2. CASE WithdrawLpAndLiquidity("wrapper_withdraw_liquidity", "trade_pt")
    BY <1>2, LpAndLiquidityRuns
  <1>3. ASSUME NEW er \in ExchangeRates, NEW fr \in FeeRates,
               At("wrapper_withdraw_liquidity", "trade_pt"),
               DoCpiTradePt(TradeOf(FALSE, tx.py, er, fr)),
               Then("redeem", {"market"},
                    [sy |-> tx.sy + wallet'.sy - wallet.sy])
        PROVE  Course'
    <2> DEFINE R == [sy |-> tx.sy + wallet'.sy - wallet.sy]
               t == TradeOf(FALSE, tx.py, er, fr)
               net == M!NetTraderSy(t)
    <2>0. t \in MP!Trade /\ ~t.is_buy
      <3>1. er \in Nat /\ fr \in Nat /\ tx.py \in Nat
        BY Constants, CourseTypes
      <3> QED
        BY ONLY Course, <3>1, Trades, Zenon
    <2> HIDE DEF t
    <2>1. /\ Sound' /\ net \in Nat /\ wallet'.sy = wallet.sy + net
          /\ market'.is_current_flash_swap = market.is_current_flash_swap
          /\ UNCHANGED vaultBooks
      BY <1>1, <1>3, <2>0, CpiTradePtKeeps, Zenon DEF t
    <2> HIDE DEF net
    <2>2. DOMAIN R = {"sy"} /\ R["sy"] = tx.sy + net
      BY <2>1, CourseTypes
    <2>3. Then("redeem", {"market"}, R)
      BY <1>3
    <2> HIDE DEF R
    <2>4. wallet.sy = committed.wallet.sy + tx.sy
      BY <1>1, <1>3 DEF Course, WrappersHold, RedeemerHolds, HoldsSy, At
    <2>5. wallet'.sy = committed.wallet.sy + R["sy"] /\ R["sy"] \in Nat
      BY <2>1, <2>2, <2>4, CourseTypes
    <2> QED
      BY <1>1, <2>1, <2>2, <2>3, <2>5, RedeemerSteps
  <1>4. CASE /\ At("wrapper_withdraw_liquidity", "redeem")
             /\ RedeemSy(tx.sy)
             /\ Then("exit", {}, Nothing)
    BY <1>1, <1>4, RedeemRuns DEF At
  <1> QED
    BY <1>1, <1>2, <1>3, <1>4, Zenon DEF WrapperWithdrawLiquidity

LEMMA WithdrawClassicRuns ==
    ASSUME Course, WrapperWithdrawLiquidityClassic
    PROVE  Course' /\ UNCHANGED others
  <1>1. CASE WithdrawLpAndLiquidity("wrapper_withdraw_liquidity_classic",
                                    "redeem")
    BY <1>1, LpAndLiquidityRuns
  <1>2. CASE /\ At("wrapper_withdraw_liquidity_classic", "redeem")
             /\ RedeemSy(tx.sy)
             /\ Then("exit", {}, Nothing)
    BY <1>2, RedeemRuns DEF At, Redeemers
  <1> QED
    BY <1>1, <1>2 DEF WrapperWithdrawLiquidityClassic

\* The wrappers that mint what the nested calls then need.
LEMMA BuyPtRuns ==
    ASSUME Course, WrapperBuyPt
    PROVE  Course' /\ UNCHANGED others
  <1>1. /\ tx.handler = "wrapper_buy_pt" /\ UNCHANGED others
        /\ Loaded(tx.handler) = {"market"}
        /\ Sound /\ ~market.is_current_flash_swap
    BY LoadedAccounts, NoFlag, Zenon DEF WrapperBuyPt, At, Course, Base
  <1>2. BuyPtHolds /\ (tx.pc = "start" => wallet = committed.wallet)
    BY DEF Course, WrappersHold
  <1>3. ASSUME NEW pc, tx'.handler = tx.handler, tx'.pc = pc, pc # "start",
               BuyPtHolds'
        PROVE  WrappersHold'
    BY <1>1, <1>3 DEF WrappersHold, StripHolds, BuyYtHolds, ProvideHolds,
       ClassicHolds, BaseHolds, Base, RedeemerHolds, Redeemers
  <1>4. ASSUME NEW er \in ExchangeRates, NEW fr \in FeeRates,
               NEW t, t = [is_buy |-> TRUE, pt |-> tx.amount, er |-> er,
                           fr |-> fr, flash |-> FALSE],
               At("wrapper_buy_pt", "start"), M!CanTrade(t),
               MintSy(SyToPyCeil(rate, M!NetTraderSy(t))),
               Then("trade_pt", {}, [sy |-> M!NetTraderSy(t),
                                     er |-> er, fr |-> fr])
        PROVE  Course'
    <2> DEFINE net == M!NetTraderSy(t)
               base == SyToPyCeil(rate, net)
               R == [sy |-> net, er |-> er, fr |-> fr]
    <2>1. er \in Nat /\ fr \in Nat /\ tx.amount \in Nat /\ rate \in Nat \ {0}
      BY Constants, CourseTypes
    <2>2. t \in MP!Trade
      BY <1>4, <2>1 DEF MP!Trade
    <2>3. net \in Nat
      BY <1>1, <1>4, <2>2, TradeAmountTypes DEF Sound, Held
    <2> HIDE DEF net
    <2>4. base \in Nat /\ net <= MintedSy(base)
      BY <2>1, <2>3, MintedCovers
    <2> HIDE DEF base
    <2>5. /\ Sound' /\ MintedSy(base) \in Nat
          /\ wallet'.sy = wallet.sy + MintedSy(base)
          /\ wallet'.yt = wallet.yt /\ wallet'.lp = wallet.lp
          /\ UNCHANGED books
      BY <1>1, <1>4, <2>4, MintSyKeeps DEF base, net
    <2>6. /\ DOMAIN R = {"sy", "er", "fr"}
          /\ R["sy"] = net /\ R["er"] = er /\ R["fr"] = fr
      OBVIOUS
    <2>7. Then("trade_pt", {}, R)
      BY <1>4 DEF net
    <2> HIDE DEF R
    <2>8. \A f \in DOMAIN R : R[f] \in Nat
      BY <2>1, <2>3, <2>6
    <2>9. /\ TxTyped' /\ CopiesCurrent' /\ InCourse' /\ FlagTaken'
          /\ committed'.wallet = committed.wallet /\ committed'.wallet \in Wallet
          /\ tx'.handler = tx.handler /\ tx'.pc = "trade_pt"
          /\ tx'.sy = net
      BY <1>1, <2>5, <2>6, <2>7, <2>8, CallKeeps DEF books, Base
    <2>10. BuyPtHolds'
      BY <1>1, <1>2, <1>4, <2>3, <2>4, <2>5, <2>9, CourseTypes
         DEF BuyPtHolds, Holds, At
    <2> QED
      BY <1>1, <1>3, <2>5, <2>9, <2>10, RunsOn
  <1>5. CASE /\ At("wrapper_buy_pt", "trade_pt")
             /\ M!NetTraderSy(TradeOf(TRUE, tx.amount, tx.er, tx.fr)) <= tx.sy
             /\ DoCpiTradePt(TradeOf(TRUE, tx.amount, tx.er, tx.fr))
             /\ Then("exit", {"market"}, Nothing)
    <2> DEFINE t == TradeOf(TRUE, tx.amount, tx.er, tx.fr)
               net == M!NetTraderSy(t)
    <2>1. t \in MP!Trade /\ t.is_buy
      <3>1. tx.er \in Nat /\ tx.fr \in Nat /\ tx.amount \in Nat
        BY CourseTypes
      <3> QED
        BY ONLY Course, <3>1, Trades, Zenon
    <2> HIDE DEF t
    <2>2. /\ Sound' /\ net \in Nat /\ wallet'.sy = wallet.sy - net
          /\ wallet'.yt = wallet.yt /\ wallet'.lp = wallet.lp
          /\ market'.is_current_flash_swap = market.is_current_flash_swap
          /\ UNCHANGED vaultBooks
      BY <1>1, <1>5, <2>1, CpiTradePtKeeps, Zenon DEF t
    <2>3. net <= tx.sy
      BY <1>5, Zenon DEF t
    <2> HIDE DEF net
    <2>4. /\ TxTyped' /\ CopiesCurrent' /\ InCourse' /\ FlagTaken'
          /\ committed'.wallet = committed.wallet /\ committed'.wallet \in Wallet
          /\ tx'.handler = tx.handler /\ tx'.pc = "exit"
      BY <1>1, <1>5, <2>2, NoResults, CallKeeps DEF Base
    <2>5. BuyPtHolds'
      BY <1>1, <1>2, <1>5, <2>2, <2>3, <2>4, CourseTypes
         DEF BuyPtHolds, Holds, At
    <2> QED
      BY <1>1, <1>3, <2>2, <2>4, <2>5, RunsOn
  <1> QED
    BY <1>1, <1>4, <1>5, Zenon DEF WrapperBuyPt


LEMMA BuyYtRuns ==
    ASSUME Course, WrapperBuyYt
    PROVE  Course' /\ UNCHANGED others
  <1>1. /\ tx.handler = "wrapper_buy_yt" /\ UNCHANGED others
        /\ Loaded(tx.handler) = {"vault", "market"}
        /\ Sound /\ ~market.is_current_flash_swap
    BY LoadedAccounts, NoFlag, Zenon DEF WrapperBuyYt, At, Course, Base
  <1>2. BuyYtHolds /\ (tx.pc = "start" => wallet = committed.wallet)
    BY DEF Course, WrappersHold
  <1>3. ASSUME NEW pc, tx'.handler = tx.handler, tx'.pc = pc, pc # "start",
               BuyYtHolds'
        PROVE  WrappersHold'
    BY <1>1, <1>3 DEF WrappersHold, StripHolds, BuyPtHolds, ProvideHolds,
       ClassicHolds, BaseHolds, Base, RedeemerHolds, Redeemers
  <1>4. ASSUME NEW er \in ExchangeRates, NEW fr \in FeeRates,
               NEW t, t = M!FlashTrade(FALSE, tx.amount, er, fr),
               NEW base, base = SyToPyCeil(rate, SimBuyYt(t)),
               At("wrapper_buy_yt", "start"), M!CanTrade(t), SimBuyYt(t) >= 0,
               MintSy(base),
               Then("buy_yt", {}, [sy |-> MintedSy(base), er |-> er, fr |-> fr])
        PROVE  Course'
    <2> DEFINE sim == SimBuyYt(t)
               R == [sy |-> MintedSy(base), er |-> er, fr |-> fr]
    <2>1. er \in Nat /\ fr \in Nat /\ tx.amount \in Nat /\ rate \in Nat \ {0}
      BY Constants, CourseTypes
    <2>2. t \in MP!Trade /\ t.pt \in Nat
      <3>1. t = [is_buy |-> FALSE, pt |-> tx.amount, er |-> er, fr |-> fr,
                 flash |-> TRUE]
        BY <1>4 DEF M!FlashTrade
      <3> QED
        BY ONLY <2>1, <3>1 DEF MP!Trade
    <2>3. sim \in Nat
      <3> DEFINE net == M!NetTraderSy(t)
                 paid == PyToSyCeil(rate, t.pt)
      <3>1. net \in Nat
        BY <1>1, <1>4, <2>2, TradeAmountTypes, Zenon DEF Sound, Held
      <3>2. paid \in Nat
        BY <2>1, <2>2, PyToSyCeilType
      <3>3. sim = paid - net /\ sim >= 0
        BY <1>4, Zenon DEF SimBuyYt
      <3> HIDE DEF net, paid, sim
      <3> QED
        BY ONLY <3>1, <3>2, <3>3
    <2> HIDE DEF sim
    <2>4. base \in Nat
      BY <1>4, <2>1, <2>3, MintedCovers, Zenon DEF sim
    <2>5. /\ Sound' /\ MintedSy(base) \in Nat
          /\ wallet'.sy = wallet.sy + MintedSy(base)
          /\ wallet'.yt = wallet.yt /\ wallet'.lp = wallet.lp
          /\ UNCHANGED books
      BY <1>1, <1>4, <2>4, MintSyKeeps, Zenon
    <2>6. /\ DOMAIN R = {"sy", "er", "fr"}
          /\ R["sy"] = MintedSy(base) /\ R["er"] = er /\ R["fr"] = fr
      OBVIOUS
    <2>7. Then("buy_yt", {}, R)
      BY <1>4
    <2> HIDE DEF R
    <2>8. \A f \in DOMAIN R : R[f] \in Nat
      BY <2>1, <2>5, <2>6
    <2>9. /\ TxTyped' /\ CopiesCurrent' /\ InCourse' /\ FlagTaken'
          /\ committed'.wallet = committed.wallet /\ committed'.wallet \in Wallet
          /\ tx'.handler = tx.handler /\ tx'.pc = "buy_yt"
          /\ tx'.sy = MintedSy(base)
      BY <1>1, <2>5, <2>6, <2>7, <2>8, CallKeeps DEF books, Base
    <2>10. BuyYtHolds'
      <3>1. wallet = committed.wallet
        BY <1>2, <1>4 DEF At
      <3> QED
        BY <2>5, <2>9, <3>1, CourseTypes DEF BuyYtHolds, Holds
    <2> QED
      BY <1>1, <1>3, <2>5, <2>9, <2>10, RunsOn
  <1>5. ASSUME NEW er \in ExchangeRates, NEW fr \in FeeRates,
               At("wrapper_buy_yt", "buy_yt"),
               DoCpiBuyYt(tx.sy, tx.amount, er, fr),
               Then("deposit_yt", {"market", "vault"}, [py |-> BoughtYt])
        PROVE  Course'
    <2> DEFINE R == [py |-> BoughtYt]
               sold == SoldPt(tx.amount)
    <2>1. /\ Sound' /\ sold \in Nat
          /\ wallet'.sy = wallet.sy - tx.sy /\ wallet'.yt = wallet.yt + sold
          /\ wallet'.lp = wallet.lp /\ ~market'.is_current_flash_swap
      <3>1. er \in Nat /\ fr \in Nat /\ tx.sy \in Nat /\ tx.amount \in Nat
        BY Constants, CourseTypes
      <3>2. Sound /\ DoCpiBuyYt(tx.sy, tx.amount, er, fr) /\ UNCHANGED others
        BY <1>1, <1>5
      <3> QED
        BY ONLY <3>1, <3>2, CpiBuyYtKeeps
    <2> HIDE DEF sold
    <2>2. DOMAIN R = {"py"} /\ R["py"] = sold
      BY <2>1, CourseTypes DEF BoughtYt
    <2>3. Then("deposit_yt", {"market", "vault"}, R)
      BY <1>5
    <2> HIDE DEF R
    <2>4. /\ TxTyped' /\ CopiesCurrent' /\ InCourse' /\ FlagTaken'
          /\ committed'.wallet = committed.wallet /\ committed'.wallet \in Wallet
          /\ tx'.handler = tx.handler /\ tx'.pc = "deposit_yt"
          /\ tx'.py = sold
      BY <1>1, <2>1, <2>2, <2>3, CallKeeps DEF Base
    <2>5. BuyYtHolds'
      BY <1>1, <1>2, <1>5, <2>1, <2>4, CourseTypes DEF BuyYtHolds, Holds, At
    <2> QED
      BY <1>1, <1>3, <2>1, <2>4, <2>5, RunsOn
  <1>6. CASE /\ At("wrapper_buy_yt", "deposit_yt")
             /\ DoCpiDepositYt(tx.py)
             /\ Then("exit", {"vault"}, Nothing)
    <2>1. /\ Sound' /\ wallet'.yt = wallet.yt - tx.py
          /\ wallet'.sy = wallet.sy /\ wallet'.lp = wallet.lp
          /\ UNCHANGED marketBooks
      BY <1>1, <1>6, CpiDepositYtKeeps, CourseTypes
    <2>2. /\ TxTyped' /\ CopiesCurrent' /\ InCourse' /\ FlagTaken'
          /\ committed'.wallet = committed.wallet /\ committed'.wallet \in Wallet
          /\ tx'.handler = tx.handler /\ tx'.pc = "exit"
      BY <1>1, <1>6, <2>1, NoResults, CallKeeps DEF marketBooks, Base
    <2>3. BuyYtHolds'
      BY <1>1, <1>2, <1>6, <2>1, <2>2, CourseTypes DEF BuyYtHolds, Holds, At
    <2> QED
      BY <1>1, <1>3, <2>1, <2>2, <2>3, RunsOn
  <1> QED
    BY <1>1, <1>4, <1>5, <1>6, Zenon DEF WrapperBuyYt

LEMMA ProvideRuns ==
    ASSUME Course, WrapperProvideLiquidity
    PROVE  Course' /\ UNCHANGED others
  <1>1. /\ tx.handler = "wrapper_provide_liquidity" /\ UNCHANGED others
        /\ Loaded(tx.handler) = {"vault", "market"}
        /\ Sound /\ ~market.is_current_flash_swap
    BY LoadedAccounts, NoFlag DEF WrapperProvideLiquidity, At, Course, Base
  <1>2. ProvideHolds /\ (tx.pc = "start" => wallet = committed.wallet)
    BY DEF Course, WrappersHold
  <1>3. ASSUME NEW pc, tx'.handler = tx.handler, tx'.pc = pc, pc # "start",
               ProvideHolds'
        PROVE  WrappersHold'
    BY <1>1, <1>3 DEF WrappersHold, StripHolds, BuyPtHolds, BuyYtHolds,
       ClassicHolds, BaseHolds, Base, RedeemerHolds, Redeemers
  <1>4. CASE /\ At("wrapper_provide_liquidity", "start")
             /\ MintSy(tx.amount)
             /\ Then("strip", {}, [sy |-> MintedSy(tx.amount)])
    <2> DEFINE R == [sy |-> MintedSy(tx.amount)]
    <2>1. /\ Sound' /\ MintedSy(tx.amount) \in Nat
          /\ wallet'.sy = wallet.sy + MintedSy(tx.amount)
          /\ wallet'.yt = wallet.yt /\ wallet'.lp = wallet.lp
          /\ UNCHANGED books
      BY <1>1, <1>4, MintSyKeeps, CourseTypes
    <2>2. DOMAIN R = {"sy"} /\ R["sy"] = MintedSy(tx.amount)
      OBVIOUS
    <2>3. Then("strip", {}, R)
      BY <1>4
    <2> HIDE DEF R
    <2>4. /\ TxTyped' /\ CopiesCurrent' /\ InCourse' /\ FlagTaken'
          /\ committed'.wallet = committed.wallet /\ committed'.wallet \in Wallet
          /\ tx'.handler = tx.handler /\ tx'.pc = "strip"
          /\ tx'.sy = MintedSy(tx.amount)
      BY <1>1, <2>1, <2>2, <2>3, CallKeeps DEF books, Base
    <2>5. ProvideHolds'
      BY <1>1, <1>2, <1>4, <2>1, <2>4, CourseTypes DEF ProvideHolds, Holds, At
    <2> QED
      BY <1>1, <1>3, <2>1, <2>4, <2>5, RunsOn
  <1>5. ASSUME NEW to_strip, to_strip = CalcStripAmount(tx.sy),
               At("wrapper_provide_liquidity", "strip"),
               market.pt_balance + market.sy_balance > 0,
               to_strip <= tx.sy, DoCpiStrip(to_strip),
               Then("deposit_liquidity", {"vault"},
                    [py |-> wallet'.pt - wallet.pt, sy |-> tx.sy - to_strip])
        PROVE  Course'
    <2> DEFINE R == [py |-> wallet'.pt - wallet.pt, sy |-> tx.sy - to_strip]
               py == SyToPy(rate, to_strip)
    <2>0. to_strip \in Nat
      BY <1>5, CourseTypes, StripAmountType
         DEF Course, Sound, Held, MarketAccount
    <2>1. /\ Sound' /\ py \in Nat
          /\ wallet'.sy = wallet.sy - to_strip
          /\ wallet'.pt = wallet.pt + py /\ wallet'.yt = wallet.yt + py
          /\ wallet'.lp = wallet.lp
          /\ UNCHANGED marketBooks
      BY <1>1, <1>5, <2>0, CpiStripKeeps
    <2> HIDE DEF py
    <2>2. /\ DOMAIN R = {"py", "sy"} /\ R["py"] = py
          /\ R["sy"] = tx.sy - to_strip /\ tx.sy - to_strip \in Nat
      BY <1>5, <2>0, <2>1, CourseTypes
    <2>3. Then("deposit_liquidity", {"vault"}, R)
      BY <1>5
    <2> HIDE DEF R
    <2>4. \A f \in DOMAIN R : R[f] \in Nat
      BY <2>1, <2>2
    <2>5. /\ TxTyped' /\ CopiesCurrent' /\ InCourse' /\ FlagTaken'
          /\ committed'.wallet = committed.wallet /\ committed'.wallet \in Wallet
          /\ tx'.handler = tx.handler /\ tx'.pc = "deposit_liquidity"
          /\ tx'.sy = tx.sy - to_strip /\ tx'.py = py
      BY <1>1, <2>1, <2>2, <2>3, <2>4, CallKeeps DEF marketBooks, Base
    <2>6. ProvideHolds'
      <3>1. Holds("strip", tx.sy, 0, 0) /\ tx.pc = "strip"
        BY <1>1, <1>2, <1>5 DEF ProvideHolds, At
      <3>2. Holds("deposit_liquidity", tx.sy, tx.py, 0)'
        BY <2>0, <2>1, <2>2, <2>5, <3>1, CourseTypes DEF Holds
      <3> QED
        BY <2>5, <3>2 DEF ProvideHolds, Holds
    <2> QED
      BY <1>1, <1>3, <2>1, <2>5, <2>6, RunsOn
  <1>6. CASE /\ At("wrapper_provide_liquidity", "deposit_liquidity")
             /\ DoCpiDepositLiquidity(tx.py, tx.sy)
             /\ Then("deposit_yt", {"market"}, [lp |-> wallet'.lp - wallet.lp])
    <2> DEFINE R == [lp |-> wallet'.lp - wallet.lp]
               r == M!AddLiquidity(tx.py, tx.sy)
    <2>1. /\ Sound' /\ r.sy_in \in Nat /\ r.sy_in <= tx.sy /\ r.lp_out \in Nat
          /\ wallet'.sy = wallet.sy - r.sy_in
          /\ wallet'.yt = wallet.yt /\ wallet'.lp = wallet.lp + r.lp_out
          /\ market'.is_current_flash_swap = market.is_current_flash_swap
          /\ UNCHANGED vaultBooks
      BY <1>1, <1>6, CpiDepositLiquidityKeeps, CourseTypes
    <2> HIDE DEF r
    <2>2. DOMAIN R = {"lp"} /\ R["lp"] = r.lp_out
      BY <2>1, CourseTypes
    <2>3. Then("deposit_yt", {"market"}, R)
      BY <1>6
    <2> HIDE DEF R
    <2>4. /\ TxTyped' /\ CopiesCurrent' /\ InCourse' /\ FlagTaken'
          /\ committed'.wallet = committed.wallet /\ committed'.wallet \in Wallet
          /\ tx'.handler = tx.handler /\ tx'.pc = "deposit_yt"
          /\ tx'.lp = r.lp_out /\ tx'.py = tx.py
      BY <1>1, <2>1, <2>2, <2>3, CallKeeps DEF vaultBooks, Base
    <2>5. ProvideHolds'
      BY <1>1, <1>2, <1>6, <2>1, <2>4, CourseTypes DEF ProvideHolds, Holds, At
    <2> QED
      BY <1>1, <1>3, <2>1, <2>4, <2>5, RunsOn
  <1>7. CASE /\ At("wrapper_provide_liquidity", "deposit_yt")
             /\ DoCpiDepositYt(tx.py)
             /\ Then("deposit_lp", {"vault"}, Nothing)
    <2>1. /\ Sound' /\ wallet'.yt = wallet.yt - tx.py
          /\ wallet'.sy = wallet.sy /\ wallet'.lp = wallet.lp
          /\ UNCHANGED marketBooks
      BY <1>1, <1>7, CpiDepositYtKeeps, CourseTypes
    <2>2. /\ TxTyped' /\ CopiesCurrent' /\ InCourse' /\ FlagTaken'
          /\ committed'.wallet = committed.wallet /\ committed'.wallet \in Wallet
          /\ tx'.handler = tx.handler /\ tx'.pc = "deposit_lp"
          /\ tx'.lp = tx.lp
      BY <1>1, <1>7, <2>1, NoResults, CallKeeps DEF marketBooks, Base
    <2>3. ProvideHolds'
      BY <1>1, <1>2, <1>7, <2>1, <2>2, CourseTypes DEF ProvideHolds, Holds, At
    <2> QED
      BY <1>1, <1>3, <2>1, <2>2, <2>3, RunsOn
  <1>8. CASE /\ At("wrapper_provide_liquidity", "deposit_lp")
             /\ DoCpiDepositLp(tx.lp)
             /\ Then("exit", {"market"}, Nothing)
    <2>1. /\ Sound' /\ wallet'.lp = wallet.lp - tx.lp
          /\ wallet'.sy = wallet.sy /\ wallet'.yt = wallet.yt
          /\ market'.is_current_flash_swap = market.is_current_flash_swap
          /\ UNCHANGED vaultBooks
      BY <1>1, <1>8, CpiDepositLpKeeps, CourseTypes
    <2>2. /\ TxTyped' /\ CopiesCurrent' /\ InCourse' /\ FlagTaken'
          /\ committed'.wallet = committed.wallet /\ committed'.wallet \in Wallet
          /\ tx'.handler = tx.handler /\ tx'.pc = "exit"
      BY <1>1, <1>8, <2>1, NoResults, CallKeeps DEF vaultBooks, Base
    <2>3. ProvideHolds'
      BY <1>1, <1>2, <1>8, <2>1, <2>2, CourseTypes DEF ProvideHolds, Holds, At
    <2> QED
      BY <1>1, <1>3, <2>1, <2>2, <2>3, RunsOn
  <1> QED
    BY <1>1, <1>4, <1>5, <1>6, <1>7, <1>8 DEF WrapperProvideLiquidity

LEMMA ClassicRuns ==
    ASSUME Course, WrapperProvideLiquidityClassic
    PROVE  Course' /\ UNCHANGED others
  <1>1. /\ tx.handler = "wrapper_provide_liquidity_classic" /\ UNCHANGED others
        /\ Loaded(tx.handler) = {"market"}
        /\ Sound /\ ~market.is_current_flash_swap
    BY LoadedAccounts, NoFlag
       DEF WrapperProvideLiquidityClassic, At, Course, Base
  <1>2. ClassicHolds /\ (tx.pc = "start" => wallet = committed.wallet)
    BY DEF Course, WrappersHold
  <1>3. ASSUME NEW pc, tx'.handler = tx.handler, tx'.pc = pc, pc # "start",
               ClassicHolds'
        PROVE  WrappersHold'
    BY <1>1, <1>3 DEF WrappersHold, StripHolds, BuyPtHolds, BuyYtHolds,
       ProvideHolds, BaseHolds, Base, RedeemerHolds, Redeemers
  <1>4. CASE /\ At("wrapper_provide_liquidity_classic", "start")
             /\ MintSy(tx.amount)
             /\ Then("deposit_liquidity", {}, [sy |-> MintedSy(tx.amount)])
    <2> DEFINE R == [sy |-> MintedSy(tx.amount)]
    <2>1. /\ Sound' /\ MintedSy(tx.amount) \in Nat
          /\ wallet'.sy = wallet.sy + MintedSy(tx.amount)
          /\ wallet'.yt = wallet.yt /\ wallet'.lp = wallet.lp
          /\ UNCHANGED books
      BY <1>1, <1>4, MintSyKeeps, CourseTypes
    <2>2. DOMAIN R = {"sy"} /\ R["sy"] = MintedSy(tx.amount)
      OBVIOUS
    <2>3. Then("deposit_liquidity", {}, R)
      BY <1>4
    <2> HIDE DEF R
    <2>4. /\ TxTyped' /\ CopiesCurrent' /\ InCourse' /\ FlagTaken'
          /\ committed'.wallet = committed.wallet /\ committed'.wallet \in Wallet
          /\ tx'.handler = tx.handler /\ tx'.pc = "deposit_liquidity"
          /\ tx'.sy = MintedSy(tx.amount)
      BY <1>1, <2>1, <2>2, <2>3, CallKeeps DEF books, Base
    <2>5. ClassicHolds'
      BY <1>1, <1>2, <1>4, <2>1, <2>4, CourseTypes DEF ClassicHolds, Holds, At
    <2> QED
      BY <1>1, <1>3, <2>1, <2>4, <2>5, RunsOn
  <1>5. CASE /\ At("wrapper_provide_liquidity_classic", "deposit_liquidity")
             /\ DoCpiDepositLiquidity(tx.amount_pt, tx.sy)
             /\ Then("deposit_lp", {"market"}, [lp |-> wallet'.lp - wallet.lp])
    <2> DEFINE R == [lp |-> wallet'.lp - wallet.lp]
               r == M!AddLiquidity(tx.amount_pt, tx.sy)
    <2>1. /\ Sound' /\ r.sy_in \in Nat /\ r.sy_in <= tx.sy /\ r.lp_out \in Nat
          /\ wallet'.sy = wallet.sy - r.sy_in
          /\ wallet'.yt = wallet.yt /\ wallet'.lp = wallet.lp + r.lp_out
          /\ market'.is_current_flash_swap = market.is_current_flash_swap
          /\ UNCHANGED vaultBooks
      BY <1>1, <1>5, CpiDepositLiquidityKeeps, CourseTypes
    <2> HIDE DEF r
    <2>2. DOMAIN R = {"lp"} /\ R["lp"] = r.lp_out
      BY <2>1, CourseTypes
    <2>3. Then("deposit_lp", {"market"}, R)
      BY <1>5
    <2> HIDE DEF R
    <2>4. /\ TxTyped' /\ CopiesCurrent' /\ InCourse' /\ FlagTaken'
          /\ committed'.wallet = committed.wallet /\ committed'.wallet \in Wallet
          /\ tx'.handler = tx.handler /\ tx'.pc = "deposit_lp"
          /\ tx'.lp = r.lp_out
      BY <1>1, <2>1, <2>2, <2>3, CallKeeps DEF vaultBooks, Base
    <2>5. ClassicHolds'
      BY <1>1, <1>2, <1>5, <2>1, <2>4, CourseTypes DEF ClassicHolds, Holds, At
    <2> QED
      BY <1>1, <1>3, <2>1, <2>4, <2>5, RunsOn
  <1>6. CASE /\ At("wrapper_provide_liquidity_classic", "deposit_lp")
             /\ DoCpiDepositLp(tx.lp)
             /\ Then("exit", {"market"}, Nothing)
    <2>1. /\ Sound' /\ wallet'.lp = wallet.lp - tx.lp
          /\ wallet'.sy = wallet.sy /\ wallet'.yt = wallet.yt
          /\ market'.is_current_flash_swap = market.is_current_flash_swap
          /\ UNCHANGED vaultBooks
      BY <1>1, <1>6, CpiDepositLpKeeps, CourseTypes
    <2>2. /\ TxTyped' /\ CopiesCurrent' /\ InCourse' /\ FlagTaken'
          /\ committed'.wallet = committed.wallet /\ committed'.wallet \in Wallet
          /\ tx'.handler = tx.handler /\ tx'.pc = "exit"
      BY <1>1, <1>6, <2>1, NoResults, CallKeeps DEF vaultBooks, Base
    <2>3. ClassicHolds'
      BY <1>1, <1>2, <1>6, <2>1, <2>2, CourseTypes DEF ClassicHolds, Holds, At
    <2> QED
      BY <1>1, <1>3, <2>1, <2>2, <2>3, RunsOn
  <1> QED
    BY <1>1, <1>4, <1>5, <1>6 DEF WrapperProvideLiquidityClassic

-----------------------------------------------------------------------------
(* wrapper_provide_liquidity_base.                                         *)

LEMMA BaseRuns ==
    ASSUME Course, WrapperProvideLiquidityBase
    PROVE  Course' /\ UNCHANGED others
  <1>1. /\ tx.handler = Base /\ UNCHANGED others
        /\ Loaded(tx.handler) = {"market"}
        /\ Sound /\ market \in MarketAccount
    BY LoadedAccounts, Zenon
       DEF WrapperProvideLiquidityBase, At, Course, Base, Sound, Held
  <1>2. BaseHolds /\ (tx.pc = "start" => wallet = committed.wallet) /\ FlagTaken
    BY DEF Course, WrappersHold
  <1>3. ASSUME NEW pc, tx'.handler = tx.handler, tx'.pc = pc, pc # "start",
               BaseHolds'
        PROVE  WrappersHold'
    BY <1>1, <1>3 DEF WrappersHold, StripHolds, BuyPtHolds, BuyYtHolds,
       ProvideHolds, ClassicHolds, Base, RedeemerHolds, Redeemers
  <1>4. ASSUME NEW er \in ExchangeRates, NEW fr \in FeeRates,
               NEW t, t = M!FlashTrade(TRUE, tx.amount, er, fr),
               NEW needed,
               needed = M!NetTraderSy(t)
                   + Pool(M!Traded(market, t))!AddLiquidity(tx.amount, MaxU64).sy_in,
               tx.pc = "start", M!CanTrade(t),
               MintSy(SyToPyCeil(rate, needed)),
               Then("flag", {}, [er |-> er, fr |-> fr])
        PROVE  Course'
    <2> DEFINE base == SyToPyCeil(rate, needed)
               R == [er |-> er, fr |-> fr]
    <2>1. er \in Nat /\ fr \in Nat /\ tx.amount \in Nat /\ rate \in Nat \ {0}
      BY Constants, CourseTypes
    <2>2. t \in MP!Trade /\ t.is_buy /\ t.pt = tx.amount
      <3>1. t = [is_buy |-> TRUE, pt |-> tx.amount, er |-> er, fr |-> fr,
                 flash |-> TRUE]
        BY <1>4 DEF M!FlashTrade
      <3> QED
        BY ONLY <2>1, <3>1 DEF MP!Trade
    <2>3. needed \in Nat
      <3>1. Sound /\ M!CanTrade(t)
        BY <1>1, <1>4
      <3>2. \A m : m = M!Traded(market, t) =>
               M!NetTraderSy(t) + Pool(m)!AddLiquidity(tx.amount, MaxU64).sy_in
                  \in Nat
        BY ONLY <2>2, <3>1, NeedsType
      <3> QED
        BY <1>4, <3>2, Zenon
    <2>4. base \in Nat /\ needed <= MintedSy(base)
      BY <2>1, <2>3, MintedCovers
    <2> HIDE DEF base
    <2>5. /\ Sound' /\ MintedSy(base) \in Nat
          /\ wallet'.sy = wallet.sy + MintedSy(base)
          /\ wallet'.yt = wallet.yt /\ wallet'.lp = wallet.lp
          /\ UNCHANGED books
      BY <1>1, <1>4, <2>4, MintSyKeeps, Zenon DEF base
    <2>6. DOMAIN R = {"er", "fr"} /\ R["er"] = er /\ R["fr"] = fr
      OBVIOUS
    <2>7. Then("flag", {}, R)
      BY <1>4
    <2> HIDE DEF R
    <2>8. \A f \in DOMAIN R : R[f] \in Nat
      BY <2>1, <2>6
    <2>9. /\ TxTyped' /\ CopiesCurrent' /\ InCourse'
          /\ committed'.wallet = committed.wallet /\ committed'.wallet \in Wallet
          /\ tx'.handler = tx.handler /\ tx'.pc = "flag"
          /\ tx'.amount = tx.amount /\ tx'.er = er /\ tx'.fr = fr
      BY <1>1, <1>4, <2>5, <2>6, <2>7, <2>8, CallKeeps DEF books
    <2>10. FlagTaken'
      BY <1>2, <1>4, <2>5, <2>9 DEF FlagTaken, books
    <2>11. BaseNeeds' = needed
      <3>1. BaseTrade' = t
        BY <1>4, <2>9 DEF BaseTrade, M!FlashTrade
      <3>2. UNCHANGED <<market, lp_tokens, sy>>
        BY <1>1, <2>5 DEF books, others
      <3>3. M!NetTraderSy(BaseTrade)' = M!NetTraderSy(t)
        BY <3>1, <3>2 DEF M!NetTraderSy, M!NetTraderAsset,
           M!PyToSyCeil, M!PyToSy, M!PreFeeAsset, M!AssetFee, M!Whole, rate
      <3>4. M!Traded(market, BaseTrade)' = M!Traded(market, t)
        BY <3>1, <3>2 DEF M!Traded, M!TreasuryFee, M!SyFee, M!NetTraderSy,
           M!NetTraderAsset, M!PyToSyCeil, M!PyToSy, M!PreFeeAsset,
           M!AssetFee, M!Whole, rate
      <3>5. Pool(M!Traded(market, BaseTrade))!AddLiquidity(tx.amount, MaxU64)'
              = Pool(M!Traded(market, t))!AddLiquidity(tx.amount, MaxU64)
        BY <2>9, <3>2, <3>4 DEF Pool!AddLiquidity
      <3> QED
        BY <1>4, <3>3, <3>5 DEF BaseNeeds
    <2>12. BaseHolds'
      <3>1. wallet = committed.wallet
        BY <1>2, <1>4
      <3>2. Holds("flag", BaseNeeds, 0, 0)'
        BY <2>3, <2>4, <2>5, <2>9, <2>11, <3>1, CourseTypes DEF Holds
      <3> QED
        BY <2>9, <3>2 DEF BaseHolds, Holds
    <2> QED
      BY <1>1, <1>3, <2>5, <2>9, <2>10, <2>12, RunsOn
  <1>5. CASE /\ tx.pc = "flag"
             /\ market' = [tx.copy.market EXCEPT !.is_current_flash_swap = TRUE]
             /\ UNCHANGED <<vaultBooks, lp_tokens, wallet, ledger>>
             /\ Then("trade_pt", {"market"}, Nothing)
    <2>1. tx.copy.market = market
      BY <1>1, <1>5 DEF Course, CopiesCurrent
    <2>2. market' = WithFlag(market, TRUE)
      BY <1>5, <2>1 DEF WithFlag
    <2>3. /\ Sound' /\ market'.is_current_flash_swap
          /\ market'.pt_balance = market.pt_balance
          /\ market'.sy_balance = market.sy_balance
          /\ market'.fee_treasury_sy_bps = market.fee_treasury_sy_bps
      BY <1>1, <1>5, <2>2, FlagKeeps, Zenon
    <2>4. /\ TxTyped' /\ CopiesCurrent' /\ InCourse'
          /\ committed'.wallet = committed.wallet /\ committed'.wallet \in Wallet
          /\ tx'.handler = tx.handler /\ tx'.pc = "trade_pt"
          /\ tx'.amount = tx.amount /\ tx'.er = tx.er /\ tx'.fr = tx.fr
      BY <1>1, <1>5, NoResults, CallKeeps
    <2>5. FlagTaken'
      BY <1>1, <2>3, <2>4 DEF FlagTaken
    <2>6. BaseNeeds' = BaseNeeds
      <3>1. market' \in MarketAccount /\ UNCHANGED <<sy, lp_tokens>>
        BY <1>1, <1>5, <2>3 DEF Sound, Held, others
      <3> QED
        BY <1>1, <2>3, <2>4, <3>1, NeedsStill
    <2>7. BaseHolds'
      BY <1>1, <1>2, <1>5, <2>4, <2>6 DEF BaseHolds, Holds
    <2> QED
      BY <1>1, <1>3, <2>3, <2>4, <2>5, <2>7, RunsOn
  <1>6. CASE /\ tx.pc = "trade_pt"
             /\ DoCpiTradePt(TradeOf(TRUE, tx.amount, tx.er, tx.fr))
             /\ Then("deposit_liquidity", {"market"}, Nothing)
    <2> DEFINE t == TradeOf(TRUE, tx.amount, tx.er, tx.fr)
               net == M!NetTraderSy(t)
               fee == M!TreasuryFee(t)
               paid == SyPaid(lp_tokens'.mint_lp, market'.pt_balance,
                              market'.sy_balance, tx'.amount, MaxU64)
    <2>1. t \in MP!Trade /\ t.is_buy /\ t.pt = tx.amount
      <3>1. tx.er \in Nat /\ tx.fr \in Nat /\ tx.amount \in Nat
        BY CourseTypes
      <3>2. t \in MP!Trade /\ t.is_buy
        BY ONLY Course, <3>1, Trades, Zenon
      <3> QED
        BY <3>2 DEF TradeOf
    <2>2. t = BaseTrade
      <3>1. market.is_current_flash_swap
        BY <1>1, <1>2, <1>6 DEF FlagTaken
      <3>2. market.is_current_flash_swap = TRUE
        BY <1>1, <3>1 DEF MarketAccount
      <3> QED
        BY <3>2, Zenon DEF TradeOf, BaseTrade, M!FlashTrade
    <2>3. M!TradePt(t)
      BY <1>6, Zenon DEF DoCpiTradePt
    <2>4. Sound /\ DoCpiTradePt(t) /\ UNCHANGED others
      BY <1>1, <1>6, Zenon
    <2> HIDE DEF t
    <2>5. /\ Sound' /\ net \in Nat /\ wallet'.sy = wallet.sy - net
          /\ wallet'.yt = wallet.yt /\ wallet'.lp = wallet.lp
          /\ market'.is_current_flash_swap = market.is_current_flash_swap
      BY ONLY <2>1, <2>4, CpiTradePtKeeps
    <2>6. /\ TxTyped' /\ CopiesCurrent' /\ InCourse'
          /\ committed'.wallet = committed.wallet /\ committed'.wallet \in Wallet
          /\ tx'.handler = tx.handler /\ tx'.pc = "deposit_liquidity"
          /\ tx'.amount = tx.amount
      BY <1>1, <1>6, NoResults, CallKeeps
    <2>7. FlagTaken'
      BY <1>1, <2>6 DEF FlagTaken
    <2>8. /\ market' = M!Traded(market, t)
          /\ lp_tokens' = M!Transferred(lp_tokens, t)
      BY <2>3 DEF M!TradePt
    <2>9. /\ market'.pt_balance = market.pt_balance - tx.amount
          /\ market'.sy_balance = market.sy_balance + net - fee
      BY <1>1, <2>1, <2>8, BoughtPool
    <2>10. lp_tokens'.mint_lp = lp_tokens.mint_lp
      <3>1. MP!MarketInv
        BY <1>1 DEF Sound, Held
      <3> QED
        BY <1>1, <2>1, <2>3, <3>1, TradePtKeeps
    <2>11. BaseNeeds = net + paid
      <3>1. BaseNeeds = NeedsOf(net, fee)
        BY <1>1, <2>2, NeedsFormula
      <3> QED
        BY <2>6, <2>9, <2>10, <3>1 DEF NeedsOf
    <2>12. M!AddLiquidity(tx.amount, MaxU64).sy_in' = paid
      BY DEF M!AddLiquidity, SyPaid
    <2>13. paid \in Nat
      <3>1. M!CanTrade(t)
        BY <2>3 DEF M!TradePt
      <3>2. /\ lp_tokens.mint_lp \in Nat /\ MaxU64 \in Nat /\ tx.amount \in Nat
            /\ market.pt_balance \in Nat
        BY <1>1, SoundTypes, Constants, CourseTypes DEF MarketAccount
      <3>3. tx.amount < market.pt_balance
        BY <2>1, <3>1 DEF M!CanTrade, M!CurveAccepts
      <3>4. market'.pt_balance \in Nat \ {0} /\ market'.sy_balance \in Nat
        BY <2>5, <2>9, <3>2, <3>3 DEF Sound, Held, MarketAccount
      <3> QED
        BY <2>6, <2>10, <3>2, <3>4, SyPaidType, Zenon
    <2> HIDE DEF net, fee, paid
    <2>14. BaseHolds'
      <3>1. wallet.sy >= committed.wallet.sy + BaseNeeds
        BY <1>1, <1>2, <1>6 DEF BaseHolds, Holds
      <3>2. wallet'.sy >= committed.wallet.sy + paid
        BY <2>5, <2>11, <2>13, <3>1, CourseTypes
      <3>3. wallet.yt = committed.wallet.yt + 0 /\ wallet.lp = committed.wallet.lp + 0
        BY <1>1, <1>2, <1>6 DEF BaseHolds, Holds
      <3>4. Holds("deposit_liquidity", M!AddLiquidity(tx.amount, MaxU64).sy_in,
                  0, 0)'
        BY <2>5, <2>6, <2>12, <3>2, <3>3 DEF Holds
      <3> QED
        BY <2>6, <3>4 DEF BaseHolds, Holds
    <2> QED
      BY <1>1, <1>3, <2>5, <2>6, <2>7, <2>14, RunsOn
  <1>7. CASE /\ tx.pc = "deposit_liquidity"
             /\ DoCpiDepositLiquidity(tx.amount, MaxU64)
             /\ Then("deposit_lp", {"market"}, [lp |-> wallet'.lp - wallet.lp])
    <2> DEFINE R == [lp |-> wallet'.lp - wallet.lp]
               r == M!AddLiquidity(tx.amount, MaxU64)
    <2>1. /\ Sound' /\ r.sy_in \in Nat /\ r.lp_out \in Nat
          /\ wallet'.sy = wallet.sy - r.sy_in
          /\ wallet'.yt = wallet.yt /\ wallet'.lp = wallet.lp + r.lp_out
          /\ market'.is_current_flash_swap = market.is_current_flash_swap
      <3>1. tx.amount \in Nat /\ MaxU64 \in Nat
        BY CourseTypes, Constants
      <3> QED
        BY <1>1, <1>7, <3>1, CpiDepositLiquidityKeeps
    <2>2. Holds("deposit_liquidity", r.sy_in, 0, 0)
      BY <1>1, <1>2 DEF BaseHolds
    <2> HIDE DEF r
    <2>3. DOMAIN R = {"lp"} /\ R["lp"] = r.lp_out
      BY <2>1, CourseTypes
    <2>4. Then("deposit_lp", {"market"}, R)
      BY <1>7
    <2> HIDE DEF R
    <2>5. /\ TxTyped' /\ CopiesCurrent' /\ InCourse'
          /\ committed'.wallet = committed.wallet /\ committed'.wallet \in Wallet
          /\ tx'.handler = tx.handler /\ tx'.pc = "deposit_lp"
          /\ tx'.lp = r.lp_out
      BY <1>1, <1>7, <2>1, <2>3, <2>4, CallKeeps
    <2>6. FlagTaken'
      BY <1>1, <2>5 DEF FlagTaken
    <2>7. BaseHolds'
      <3>1. Holds("deposit_lp", 0, 0, tx.lp)'
        BY <1>7, <2>1, <2>2, <2>5, CourseTypes DEF Holds
      <3> QED
        BY <2>5, <3>1 DEF BaseHolds, Holds
    <2> QED
      BY <1>1, <1>3, <2>1, <2>5, <2>6, <2>7, RunsOn
  <1>8. CASE /\ tx.pc = "deposit_lp"
             /\ DoCpiDepositLp(tx.lp)
             /\ Then("unflag", {"market"}, Nothing)
    <2>1. /\ Sound' /\ wallet'.lp = wallet.lp - tx.lp
          /\ wallet'.sy = wallet.sy /\ wallet'.yt = wallet.yt
      BY <1>1, <1>8, CpiDepositLpKeeps, CourseTypes
    <2>2. /\ TxTyped' /\ CopiesCurrent' /\ InCourse'
          /\ committed'.wallet = committed.wallet /\ committed'.wallet \in Wallet
          /\ tx'.handler = tx.handler /\ tx'.pc = "unflag"
      BY <1>1, <1>8, NoResults, CallKeeps
    <2>3. FlagTaken'
      BY <1>1, <2>2 DEF FlagTaken
    <2>4. BaseHolds'
      <3>1. Holds("deposit_lp", 0, 0, tx.lp)
        BY <1>1, <1>2 DEF BaseHolds
      <3>2. Holds("unflag", 0, 0, 0)'
        BY <1>8, <2>1, <2>2, <3>1, CourseTypes DEF Holds
      <3> QED
        BY <2>2, <3>2 DEF BaseHolds, Holds
    <2> QED
      BY <1>1, <1>3, <2>1, <2>2, <2>3, <2>4, RunsOn
  <1>9. CASE /\ tx.pc = "unflag"
             /\ NoCall
             /\ tx' = [tx EXCEPT !.pc = "exit", !.copy = FlashSwapEnded(@)]
    <2>1. Sound' /\ UNCHANGED <<market, wallet>>
      <3>1. UNCHANGED <<vaultBooks, marketBooks, wallet, ledger>>
        BY <1>9 DEF NoCall, books, vaultBooks, marketBooks
      <3>2. VP!IInv' /\ MP!MarketInv'
        BY <1>1, <3>1, StillKeeps, PoolStill DEF Sound, Held, others
      <3> QED
        BY <1>1, <3>1, <3>2 DEF Sound, Held, Balanced, vaultBooks, marketBooks
    <2>2. TxTyped /\ tx.copy.market = market
      BY <1>1, <1>9 DEF Course, CopiesCurrent, Base
    <2>3. /\ DOMAIN tx' = DOMAIN tx
          /\ tx'.pc = "exit" /\ tx'.copy = FlashSwapEnded(tx.copy)
          /\ \A f \in DOMAIN tx \ {"pc", "copy"} : tx'[f] = tx[f]
      BY <1>9, <2>2, Zenon DEF TxTyped, Idle
    <2>4. /\ DOMAIN tx'.copy = {"vault", "market"}
          /\ tx'.copy.market = [market EXCEPT !.is_current_flash_swap = FALSE]
      BY <2>2, <2>3 DEF FlashSwapEnded, TxTyped
    <2>5. DOMAIN tx = {"handler", "pc", "amount", "amount_pt", "er", "fr", "sy",
                       "py", "lp", "copy", "log"}
      BY <2>2 DEF TxTyped, Idle
    <2>6. tx'.handler = tx.handler /\ InCourse'
      BY <1>1, <2>3, <2>5 DEF InCourse, Base
    <2>7. TxTyped'
      BY <1>1, <2>2, <2>3, <2>4, <2>5, <2>6 DEF TxTyped, InCourse
    <2>8. CopiesCurrent' /\ FlagTaken'
      BY <1>1, <2>1, <2>3, <2>4, <2>6 DEF CopiesCurrent, FlagTaken
    <2>9. committed' = committed /\ committed.wallet \in Wallet
      BY <1>1 DEF others, Course
    <2>10. BaseHolds'
      <3>1. Holds("unflag", 0, 0, 0)
        BY <1>1, <1>2 DEF BaseHolds
      <3>2. Holds("exit", 0, 0, 0)'
        BY <1>9, <2>1, <2>9, <3>1 DEF Holds
      <3> QED
        BY <2>3, <3>2 DEF BaseHolds, Holds
    <2> QED
      BY <1>1, <1>3, <2>1, <2>3, <2>6, <2>7, <2>8, <2>9, <2>10, RunsOn
  <1> QED
    BY <1>1, <1>4, <1>5, <1>6, <1>7, <1>8, <1>9, Zenon
    DEF WrapperProvideLiquidityBase, At

-----------------------------------------------------------------------------
(* What others see.                                                        *)

\* The vault and the pool as others see them.
CV == INSTANCE VaultProperties WITH
        Users <- {User}, StartTs <- 0,
        Indexes <- {}, FirstIndexes <- {}, MaxStreams <- 0, MayDepreciate <- TRUE,
        MaxSy <- MaxU64, InitialFeeBps <- InterestFeeBps, InitialMinOp <- 1,
        StripAmounts <- Amounts, MergeAmounts <- Amounts, YtAmounts <- Amounts,
        ClaimAmounts <- {}, StatusChoices <- {}, FeeChoices <- {},
        MinOpChoices <- {}, LimitChoices <- {}, SupplyChoices <- {},
        EmissionFees <- {}, MayRemoveEmission <- FALSE,
        vault <- committed.books.vault, position <- committed.books.position,
        tokens <- committed.books.py_tokens,
        sy_position <- committed.books.sy_vault

CM == INSTANCE MarketProperties WITH
        ExpirationTs <- Duration, InitialBps <- TreasuryFeeBps,
        DepositAmounts <- Amounts \cup {MaxU64}, TradeAmounts <- Amounts,
        LpAmounts <- Amounts, YtAmounts <- Amounts, SyAmounts <- Amounts,
        StatusChoices <- {}, MaxLpChoices <- {}, BpsChoices <- {},
        LimitChoices <- {}, market <- PoolOf(committed.books.market),
        tokens <- committed.books.lp_tokens

CommittedHeld ==
    /\ CV!IInv
    /\ CM!MarketTypeOK /\ CM!PoolInCustody /\ CM!PoolStocked
    /\ committed.books.market \in MarketAccount
    /\ ~committed.books.market.is_current_flash_swap
    /\ committed.wallet \in Wallet
    /\ committed.ledger \in TokenLedgers
    /\ committed.ledger.mint_sy = committed.books.sy_vault.sy_balance
          + committed.books.lp_tokens.sy_position
          + committed.wallet.sy + committed.ledger.treasury
    /\ committed.books.py_tokens.mint_pt
          = committed.books.lp_tokens.pt_escrow + committed.wallet.pt
    /\ committed.books.py_tokens.yt_wallets = committed.wallet.yt
    /\ committed.books.lp_tokens.mint_lp
          = committed.wallet.lp + committed.wallet.staked
    /\ committed.books.market.lp_escrow_amount = committed.wallet.staked

\* Others see what there is.
Agreed ==
    /\ committed.books.vault = vault /\ committed.books.position = position
    /\ committed.books.py_tokens = py_tokens
    /\ committed.books.sy_vault = sy_vault
    /\ committed.books.market = market /\ committed.books.lp_tokens = lp_tokens
    /\ committed.wallet = wallet /\ committed.ledger = ledger

\* The inductive invariant.  An abort takes the accounts back to what others
\* see, so that has to be in order too.
TransactionsInv ==
    /\ Held /\ TxTyped
    /\ Launched => Balanced
    /\ ~Launched => BeforeLaunch
    /\ CopiesCurrent /\ FlagTaken /\ WrappersHold
    /\ tx.handler = "none" => Agreed
    /\ InCourse => CommittedHeld

LEMMA VaultsAgree ==
    Agreed => (CV!IInv <=> VP!IInv)
  <1> SUFFICES ASSUME Agreed
               PROVE  CV!IInv <=> VP!IInv
    OBVIOUS
  <1>1. /\ committed.books.vault = vault /\ committed.books.position = position
        /\ committed.books.py_tokens = py_tokens
        /\ committed.books.sy_vault = sy_vault
    BY DEF Agreed
  <1>2. CV!Holders = VP!Holders
    BY DEF CV!Holders, VP!Holders
  <1>3. CV!TypeOK <=> VP!TypeOK
    <2>1. CV!VaultAccount = VP!VaultAccount
      BY DEF CV!VaultAccount, VP!VaultAccount, CV!Flags, VP!Flags,
         CV!EmissionInfo, VP!EmissionInfo, CV!ClaimLimits, VP!ClaimLimits
    <2>2. CV!YieldTokenPosition = VP!YieldTokenPosition
      BY DEF CV!YieldTokenPosition, VP!YieldTokenPosition, CV!Tracker,
         VP!Tracker
    <2>3. CV!SyTypeOK <=> VP!SyTypeOK
      BY <1>1 DEF CV!SyTypeOK, VP!SyTypeOK, CV!SyEmission, VP!SyEmission
    <2> QED
      BY <1>1, <1>2, <2>1, <2>2, <2>3 DEF CV!TypeOK, VP!TypeOK
  <1>4. CV!EscrowIsInCustody <=> VP!EscrowIsInCustody
    BY <1>1 DEF CV!EscrowIsInCustody, VP!EscrowIsInCustody
  <1>5. CV!TokenLedger <=> VP!TokenLedger
    BY <1>1 DEF CV!TokenLedger, VP!TokenLedger, CV!TotalYt, VP!TotalYt
  <1>6. CV!RateOrder <=> VP!RateOrder
    BY <1>1, <1>2 DEF CV!RateOrder, VP!RateOrder
  <1>7. CV!RateTracking <=> VP!RateTracking
    BY <1>1 DEF CV!RateTracking, VP!RateTracking, CV!IsExpired, VP!IsExpired
  <1>8. CV!UnopenedNeverEarned <=> VP!UnopenedNeverEarned
    BY <1>1 DEF CV!UnopenedNeverEarned, VP!UnopenedNeverEarned
  <1>9. CV!RobotFits <=> VP!RobotFits
    BY <1>1 DEF CV!RobotFits, VP!RobotFits
  <1> QED
    BY <1>3, <1>4, <1>5, <1>6, <1>7, <1>8, <1>9 DEF CV!IInv, VP!IInv

LEMMA PoolsAgree ==
    Agreed =>
        (CM!MarketTypeOK /\ CM!PoolInCustody /\ CM!PoolStocked <=> MP!MarketInv)
  <1> SUFFICES ASSUME Agreed
               PROVE  CM!MarketTypeOK /\ CM!PoolInCustody /\ CM!PoolStocked
                        <=> MP!MarketInv
    OBVIOUS
  <1>1. /\ PoolOf(committed.books.market) = PoolOf(market)
        /\ committed.books.lp_tokens = lp_tokens
    BY DEF Agreed
  <1>2. /\ CM!MarketTwo = MP!MarketTwo /\ CM!Tokens = MP!Tokens
    BY DEF CM!MarketTwo, MP!MarketTwo, CM!Tokens, MP!Tokens, CM!Flags, MP!Flags,
       CM!Bps, MP!Bps, CM!LiquidityNetBalanceLimits,
       MP!LiquidityNetBalanceLimits
  <1>3. CM!MarketTypeOK <=> MP!MarketTypeOK
    BY <1>1, <1>2 DEF CM!MarketTypeOK, MP!MarketTypeOK
  <1>4. CM!PoolInCustody <=> MP!PoolInCustody
    BY <1>1 DEF CM!PoolInCustody, MP!PoolInCustody
  <1>5. CM!PoolStocked <=> MP!PoolStocked
    BY <1>1 DEF CM!PoolStocked, MP!PoolStocked
  <1> QED
    BY <1>3, <1>4, <1>5 DEF MP!MarketInv

LEMMA CommittedAgrees ==
    Agreed => (CommittedHeld <=> Sound /\ ~market.is_current_flash_swap)
  <1> SUFFICES ASSUME Agreed
               PROVE  CommittedHeld <=> Sound /\ ~market.is_current_flash_swap
    OBVIOUS
  <1>1. /\ CV!IInv <=> VP!IInv
        /\ CM!MarketTypeOK /\ CM!PoolInCustody /\ CM!PoolStocked <=> MP!MarketInv
    BY VaultsAgree, PoolsAgree
  <1> QED
    BY <1>1 DEF Agreed, CommittedHeld, Sound, Held, Balanced

\* While nothing is published, what others see stays in order.
LEMMA CommittedStill ==
    ASSUME CommittedHeld, UNCHANGED <<now, sy, opened, committed>>
    PROVE  CommittedHeld'
  <1>1. UNCHANGED <<now, sy, opened, committed>> /\ rate' = rate
    BY DEF rate
  <1>2. CV!IInv'
    BY <1>1, Zenon DEF CommittedHeld, CV!IInv, CV!TypeOK, CV!SyTypeOK,
       CV!EscrowIsInCustody, CV!TokenLedger, CV!TotalYt, CV!RateOrder,
       CV!RateTracking, CV!IsExpired, CV!UnopenedNeverEarned, CV!RobotFits
  <1>3. /\ CM!MarketTypeOK' /\ CM!PoolInCustody' /\ CM!PoolStocked'
    BY <1>1 DEF CommittedHeld, CM!MarketTypeOK, CM!PoolInCustody, CM!PoolStocked
  <1> QED
    BY <1>1, <1>2, <1>3 DEF CommittedHeld

-----------------------------------------------------------------------------
(* The runtime.                                                            *)

LEMMA WrappersRun ==
    ASSUME TransactionsInv, InCourse
    PROVE  Course /\ CommittedHeld
  <1>1. Launched
    BY DEF TransactionsInv, TxTyped, InCourse, Launched
  <1> QED
    BY <1>1 DEF TransactionsInv, Course, Sound, CommittedHeld

LEMMA RunIsKept ==
    ASSUME CommittedHeld, Course', UNCHANGED others
    PROVE  TransactionsInv'
  <1>1. CommittedHeld'
    BY CommittedStill DEF others
  <1>2. /\ Held' /\ TxTyped' /\ Balanced' /\ CopiesCurrent' /\ FlagTaken'
        /\ WrappersHold' /\ tx'.handler # "none"
    BY DEF Course, Sound, InCourse
  <1>3. Launched'
    BY <1>2 DEF TxTyped, Launched
  <1> QED
    BY <1>1, <1>2, <1>3 DEF TransactionsInv

\* Steps that leave all accounts alone.
LEMMA AccountsStill ==
    ASSUME Held, UNCHANGED <<now, sy, opened, books, wallet, ledger>>
    PROVE  /\ Held'
           /\ Balanced => Balanced'
           /\ BeforeLaunch => BeforeLaunch'
  <1>1. UNCHANGED <<vaultBooks, marketBooks>>
    BY DEF books, vaultBooks, marketBooks
  <1>2. VP!IInv' /\ MP!MarketInv'
    BY <1>1, StillKeeps, PoolStill DEF Held
  <1>3. Held'
    BY <1>1, <1>2 DEF Held, marketBooks
  <1>4. Balanced => Balanced'
    BY <1>1 DEF Balanced, vaultBooks, marketBooks
  <1>5. BeforeLaunch => BeforeLaunch'
    BY <1>1 DEF BeforeLaunch, vaultBooks, marketBooks
  <1> QED
    BY <1>3, <1>4, <1>5

LEMMA IdleTyped ==
    ASSUME tx' = Idle
    PROVE  /\ TxTyped' /\ tx'.handler = "none" /\ tx'.pc = "idle"
           /\ ~InCourse' /\ Launched'
           /\ CopiesCurrent' /\ WrappersHold'
  <1>1. tx'.handler = "none" /\ tx'.pc = "idle"
    BY DEF Idle
  <1>2. TxTyped'
    BY DEF TxTyped, Idle, Handlers
  <1>3. ~InCourse' /\ Launched' /\ CopiesCurrent'
    BY <1>1 DEF InCourse, Launched, CopiesCurrent
  <1>4. WrappersHold'
    BY <1>1 DEF WrappersHold, StripHolds, BuyPtHolds, BuyYtHolds, ProvideHolds,
       ClassicHolds, BaseHolds, Base, RedeemerHolds, Redeemers
  <1> QED
    BY <1>1, <1>2, <1>3, <1>4

\* No trade is marked as part of a flash swap once its wrapper is done.
LEMMA FlagDown ==
    ASSUME FlagTaken, tx.pc \in {"open", "launch", "idle", "start", "publish"}
    PROVE  ~market.is_current_flash_swap
  BY DEF FlagTaken

LEMMA StartRuns ==
    ASSUME TransactionsInv, NEW handler \in Handlers, Start(handler)
    PROVE  TransactionsInv'
  <1>1. /\ tx.pc = "idle" /\ tx.handler = "none" /\ Launched
        /\ UNCHANGED <<now, sy, opened, books, wallet, ledger, committed>>
    BY DEF Start, TransactionsInv, TxTyped, Launched
  <1>2. PICK in \in Inputs(handler) :
           tx' = [Idle EXCEPT !.handler = handler, !.pc = "start",
                              !.amount = in[1], !.amount_pt = in[2],
                              !.copy = [vault |-> vault, market |-> market]]
    BY Zenon DEF Start
  <1>3. in[1] \in Nat /\ in[2] \in Nat
    BY InputTypes
  <1>4. Agreed /\ Sound /\ ~market.is_current_flash_swap
    BY <1>1, FlagDown DEF TransactionsInv, Sound
  <1>5. CommittedHeld
    BY <1>4, CommittedAgrees
  <1>6. CommittedHeld'
    BY <1>1, <1>5, CommittedStill
  <1>7. /\ tx'.handler = handler /\ tx'.pc = "start"
        /\ tx'.copy = [vault |-> vault, market |-> market]
        /\ TxTyped'
    <2> DEFINE copy == [vault |-> vault, market |-> market]
               a == in[1]
               b == in[2]
    <2>0. DOMAIN copy = {"vault", "market"}
      OBVIOUS
    <2>1. tx' = [Idle EXCEPT !.handler = handler, !.pc = "start",
                             !.amount = a, !.amount_pt = b, !.copy = copy]
      BY <1>2
    <2>2. a \in Nat /\ b \in Nat
      BY <1>3
    <2> HIDE DEF a, b, copy
    <2>3. /\ DOMAIN tx' = DOMAIN Idle
          /\ tx'.handler = handler /\ tx'.pc = "start"
          /\ tx'.amount = a /\ tx'.amount_pt = b /\ tx'.copy = copy
          /\ tx'.sy = 0 /\ tx'.py = 0 /\ tx'.lp = 0 /\ tx'.er = 0 /\ tx'.fr = 0
      BY <2>1 DEF Idle
    <2>4. handler # "none"
      BY DEF Handlers
    <2>5. TxTyped'
      BY <2>0, <2>2, <2>3, <2>4 DEF TxTyped
    <2> QED
      BY <2>3, <2>5 DEF copy
  <1>8. /\ Held' /\ Balanced'
        /\ UNCHANGED <<vault, market>>
    BY <1>1, <1>4, AccountsStill DEF Sound, books
  <1>9. CopiesCurrent' /\ FlagTaken'
    BY <1>4, <1>7, <1>8 DEF CopiesCurrent, FlagTaken
  <1>10. WrappersHold'
    <2>1. wallet' = committed'.wallet
      BY <1>1, <1>4 DEF Agreed
    <2> QED
      BY <1>7, <2>1 DEF WrappersHold, StripHolds, BuyPtHolds, BuyYtHolds,
         ProvideHolds, ClassicHolds, BaseHolds, RedeemerHolds, Holds, HoldsSy
  <1>11. tx'.handler # "none" /\ Launched'
    BY <1>7 DEF Handlers, Launched
  <1> QED
    BY <1>6, <1>7, <1>8, <1>9, <1>10, <1>11 DEF TransactionsInv

LEMMA ExitKeeps ==
    ASSUME TransactionsInv, Exit
    PROVE  TransactionsInv'
  <1>1. tx.pc = "exit" /\ UNCHANGED others
    BY DEF Exit, At
  <1>2. InCourse
    BY <1>1 DEF TransactionsInv, TxTyped, InCourse
  <1>3. Course /\ CommittedHeld
    BY <1>2, WrappersRun
  <1>4. /\ TxTyped' /\ tx'.handler = tx.handler /\ tx'.pc = "publish"
    <2>1. TxTyped /\ tx.handler # "none" /\ Then("publish", {}, Nothing)
      BY <1>2 DEF Exit, TransactionsInv, InCourse
    <2> QED
      BY <2>1, NoResults, ThenFacts
  <1>5. /\ UNCHANGED <<position, py_tokens, sy_vault, lp_tokens, wallet, ledger>>
        /\ vault' = vault
    BY <1>2, <1>3 DEF Exit, Course, CopiesCurrent
  <1>6. market' = market \/ market' = WithFlag(market, FALSE)
    BY <1>1, <1>2, <1>3 DEF Exit, Course, CopiesCurrent, WithFlag
  <1>7. tx.handler = Base => market' = WithFlag(market, FALSE)
    <2>1. Loaded(Base) = {"market"}
      BY LoadedAccounts DEF Base
    <2> QED
      BY <1>1, <1>2, <1>3, <2>1 DEF Exit, Course, CopiesCurrent, WithFlag
  <1>8. Sound' /\ ~market'.is_current_flash_swap
    <2>1. CASE market' = WithFlag(market, FALSE)
      <3>1. Sound /\ UNCHANGED <<vaultBooks, lp_tokens, wallet, ledger>>
        BY <1>3, <1>5 DEF Course, vaultBooks
      <3> QED
        BY <1>1, <2>1, <3>1, FlagKeeps, Zenon
    <2>2. CASE market' = market /\ tx.handler # Base
      <3>1. UNCHANGED <<now, sy, opened, books, wallet, ledger>>
        BY <1>1, <1>5, <2>2 DEF others, books
      <3>2. ~market.is_current_flash_swap
        BY <1>3, <2>2, NoFlag
      <3> QED
        BY <1>3, <2>2, <3>1, <3>2, AccountsStill DEF Course, Sound
    <2> QED
      BY <1>6, <1>7, <2>1, <2>2, Zenon
  <1>9. /\ ~InCourse' /\ CopiesCurrent' /\ FlagTaken' /\ Launched'
        /\ tx'.handler # "none"
    BY <1>2, <1>4, <1>8 DEF InCourse, CopiesCurrent, FlagTaken, Launched
  <1>10. WrappersHold'
    BY <1>4 DEF WrappersHold, StripHolds, BuyPtHolds, BuyYtHolds,
       ProvideHolds, ClassicHolds, BaseHolds, RedeemerHolds, Holds, HoldsSy
  <1> QED
    BY <1>4, <1>8, <1>9, <1>10 DEF TransactionsInv, Sound

LEMMA PublishKeeps ==
    ASSUME TransactionsInv, Publish
    PROVE  TransactionsInv'
  <1>1. /\ tx.pc = "publish" /\ tx.handler # "none" /\ TxTyped
        /\ UNCHANGED <<now, sy, opened, books, wallet, ledger>>
        /\ Sound /\ FlagTaken /\ ~market.is_current_flash_swap
    BY FlagDown DEF Publish, TransactionsInv, TxTyped, Launched, Sound
  <1>2. /\ Held' /\ Balanced' /\ market' = market
    BY <1>1, AccountsStill DEF Sound, books
  <1>3. FlagTaken' \/ tx'.pc = "trade_pt"
    BY <1>1, <1>2 DEF FlagTaken
  <1>4. CASE tx.log = <<>>
    <2>1. committed' = Committed /\ tx' = Idle
      BY <1>4 DEF Publish
    <2>2. Agreed'
      BY <1>1, <2>1 DEF Agreed, Committed, Books, books
    <2>3. FlagTaken'
      BY <1>3, <2>1, IdleTyped
    <2> QED
      BY <1>2, <2>1, <2>2, <2>3, IdleTyped DEF TransactionsInv
  <1>5. CASE tx.log # <<>>
    <2>1. tx' = [tx EXCEPT !.log = Tail(tx.log)]
      BY <1>5 DEF Publish
    <2>2. /\ DOMAIN tx' = DOMAIN tx
          /\ \A f \in DOMAIN tx \ {"log"} : tx'[f] = tx[f]
      BY <2>1
    <2>3. DOMAIN tx = {"handler", "pc", "amount", "amount_pt", "er", "fr", "sy",
                       "py", "lp", "copy", "log"}
      BY <1>1 DEF TxTyped, Idle
    <2>4. tx'.handler = tx.handler /\ tx'.pc = tx.pc /\ tx'.copy = tx.copy
      BY <2>2, <2>3
    <2>5. TxTyped'
      BY <1>1, <2>2, <2>3, <2>4 DEF TxTyped
    <2>6. FlagTaken' /\ ~InCourse' /\ CopiesCurrent' /\ Launched'
      BY <1>1, <1>3, <2>4 DEF InCourse, CopiesCurrent, Launched
    <2>7. WrappersHold'
      BY <1>1, <2>4 DEF WrappersHold, StripHolds, BuyPtHolds, BuyYtHolds,
         ProvideHolds, ClassicHolds, BaseHolds, RedeemerHolds, Holds, HoldsSy
    <2> QED
      BY <1>1, <1>2, <2>4, <2>5, <2>6, <2>7 DEF TransactionsInv
  <1> QED
    BY <1>4, <1>5

\* A transaction that fails leaves what was there before it.
LEMMA AbortKeeps ==
    ASSUME TransactionsInv, Abort
    PROVE  TransactionsInv'
  <1>1. InCourse /\ UNCHANGED others /\ tx' = Idle
    BY DEF Abort, InCourse
  <1>2. CommittedHeld'
    BY <1>1, WrappersRun, CommittedStill DEF others
  <1>3. Agreed'
    BY <1>1 DEF Abort, Agreed, others
  <1>4. Sound' /\ ~market'.is_current_flash_swap
    <2>1. (Agreed => (CommittedHeld <=> Sound /\ ~market.is_current_flash_swap))'
      BY CommittedAgrees, PTL
    <2> QED
      BY <1>2, <1>3, <2>1
  <1>5. FlagTaken'
    BY <1>1, <1>4, IdleTyped DEF FlagTaken
  <1> QED
    BY <1>1, <1>3, <1>4, <1>5, IdleTyped DEF TransactionsInv, Sound

-----------------------------------------------------------------------------
(* What comes before the wrappers, and between them.                       *)

\* Outside of a transaction the wrappers hold nothing.
LEMMA NoWrapper ==
    ASSUME tx'.handler = "none", tx'.pc \in {"open", "launch", "idle"}
    PROVE  ~InCourse' /\ CopiesCurrent' /\ WrappersHold'
  <1>1. ~InCourse' /\ CopiesCurrent'
    BY DEF InCourse, CopiesCurrent
  <1>2. WrappersHold'
    BY DEF WrappersHold, StripHolds, BuyPtHolds, BuyYtHolds, ProvideHolds,
       ClassicHolds, BaseHolds, Base, RedeemerHolds, Redeemers
  <1> QED
    BY <1>1, <1>2

LEMMA OpenRuns ==
    ASSUME TransactionsInv, Open
    PROVE  TransactionsInv'
  <1>1. /\ tx.pc = "open" /\ V!InitializeYieldPosition(User)
        /\ tx' = [tx EXCEPT !.pc = "launch"]
        /\ UNCHANGED <<marketBooks, wallet, ledger>>
        /\ committed' = Committed'
    BY DEF Open
  <1>2. /\ Held /\ TxTyped /\ BeforeLaunch /\ tx.handler = "none"
        /\ ~market.is_current_flash_swap
    BY <1>1, FlagDown DEF TransactionsInv, Launched, TxTyped
  <1>3. /\ VP!IInv' /\ UNCHANGED <<now, vault, py_tokens, sy, sy_vault>>
    BY <1>1, <1>2, OpenKeeps DEF Held
  <1>4. MP!MarketInv'
    BY <1>1, <1>2, <1>3, PoolStill DEF Held
  <1>5. Held' /\ BeforeLaunch' /\ ~market'.is_current_flash_swap
    BY <1>1, <1>2, <1>3, <1>4 DEF Held, BeforeLaunch, marketBooks
  <1>6. DOMAIN tx = {"handler", "pc", "amount", "amount_pt", "er", "fr", "sy",
                     "py", "lp", "copy", "log"}
    BY <1>2 DEF TxTyped, Idle
  <1>7. /\ DOMAIN tx' = DOMAIN tx /\ tx'.pc = "launch"
        /\ \A f \in DOMAIN tx \ {"pc"} : tx'[f] = tx[f]
    BY <1>1, <1>6
  <1>8. tx'.handler = "none" /\ tx'.copy = tx.copy
    BY <1>2, <1>6, <1>7
  <1>9. TxTyped'
    BY <1>2, <1>6, <1>7, <1>8 DEF TxTyped
  <1>10. Agreed' /\ FlagTaken' /\ ~Launched'
    BY <1>1, <1>5, <1>7 DEF Agreed, Committed, Books, FlagTaken, Launched
  <1> QED
    BY <1>5, <1>7, <1>8, <1>9, <1>10, NoWrapper DEF TransactionsInv

LEMMA LaunchRuns ==
    ASSUME TransactionsInv, Launch
    PROVE  TransactionsInv'
  <1> DEFINE py == SyToPy(rate, StrippedSy)
             pt == py_tokens'.mint_pt - InitialPt
             yt == py_tokens'.yt_wallets
             minted == StrippedSy + InitialSy + WalletSy
  <1>1. /\ tx.pc = "launch" /\ V!Strip(StrippedSy)
        /\ py_tokens'.mint_pt >= InitialPt
        /\ wallet' = [sy |-> WalletSy, pt |-> pt, yt |-> yt,
                      lp |-> InitialLp, staked |-> 0]
        /\ ledger' = [mint_sy |-> minted, treasury |-> 0]
        /\ tx' = Idle /\ UNCHANGED marketBooks /\ committed' = Committed'
    BY DEF Launch
  <1>2. Held /\ BeforeLaunch /\ ~market.is_current_flash_swap
    BY <1>1, FlagDown DEF TransactionsInv, Launched
  <1>3. /\ StrippedSy \in Nat /\ WalletSy \in Nat /\ InitialPt \in Nat
        /\ InitialSy \in Nat /\ InitialLp \in Nat
    BY TransactionsAssumption
  <1>4. /\ VP!IInv' /\ UNCHANGED <<now, opened, sy>>
        /\ py \in Nat
        /\ py_tokens'.mint_pt = py_tokens.mint_pt + py
        /\ py_tokens'.yt_wallets = py_tokens.yt_wallets + py
        /\ sy_vault'.sy_balance = sy_vault.sy_balance + StrippedSy
    BY <1>1, <1>2, <1>3, StripKeeps DEF Held
  <1> HIDE DEF py
  <1>5. /\ py_tokens'.mint_pt = py /\ py_tokens'.yt_wallets = py
        /\ sy_vault'.sy_balance = StrippedSy
    BY <1>2, <1>3, <1>4 DEF BeforeLaunch
  <1>6. pt \in Nat /\ yt \in Nat /\ minted \in Nat /\ pt = py - InitialPt
    BY <1>1, <1>3, <1>4, <1>5
  <1>7. MP!MarketInv' /\ market' = market /\ lp_tokens' = lp_tokens
    BY <1>1, <1>2, <1>4, PoolStill DEF Held, marketBooks
  <1>8. wallet' \in Wallet /\ ledger' \in TokenLedgers
    <2> HIDE DEF pt, yt, minted
    <2> QED
      BY <1>1, <1>3, <1>6 DEF Wallet, TokenLedgers
  <1>9. Held' /\ ~market'.is_current_flash_swap
    BY <1>2, <1>4, <1>7, <1>8 DEF Held
  <1>10. Balanced'
    <2>1. /\ wallet'.sy = WalletSy /\ wallet'.pt = pt /\ wallet'.yt = yt
          /\ wallet'.lp = InitialLp /\ wallet'.staked = 0
          /\ ledger'.mint_sy = minted /\ ledger'.treasury = 0
      BY <1>1
    <2>2. /\ lp_tokens'.mint_lp = InitialLp /\ lp_tokens'.pt_escrow = InitialPt
          /\ lp_tokens'.sy_position = InitialSy
          /\ market'.lp_escrow_amount = 0
      BY <1>2, <1>7 DEF BeforeLaunch
    <2> QED
      BY <1>3, <1>4, <1>5, <1>6, <2>1, <2>2 DEF Balanced
  <1>11. Agreed'
    BY <1>1 DEF Agreed, Committed, Books
  <1>12. FlagTaken'
    BY <1>1, <1>9, IdleTyped DEF FlagTaken
  <1> QED
    BY <1>1, <1>9, <1>10, <1>11, <1>12, IdleTyped DEF TransactionsInv

LEMMA EnvironmentKeeps ==
    ASSUME TransactionsInv, Environment
    PROVE  TransactionsInv'
  <1>1. /\ tx.pc = "idle"
        /\ \/ V!Tick
           \/ V!SetExchangeRate /\ UNCHANGED <<now, vault, position, opened, py_tokens>>
        /\ UNCHANGED <<marketBooks, wallet, ledger, tx, committed>>
    BY DEF Environment
  <1>2. /\ Held /\ TxTyped /\ Balanced /\ tx.handler = "none" /\ Agreed
        /\ ~market.is_current_flash_swap
    BY <1>1, FlagDown DEF TransactionsInv, Launched, TxTyped
  <1>3. MP!MarketTypeOK /\ now \in 0..MaxTime /\ rate \in Rates
    BY <1>2 DEF Held, MP!MarketInv, MP!MarketTypeOK
  <1>4. /\ VP!IInv' /\ UNCHANGED <<vault, position, py_tokens, sy_vault>>
        /\ now' \in 0..MaxTime /\ rate' \in Rates
    <2>1. CASE V!Tick
      <3>1. /\ VP!IInv' /\ now < MaxTime /\ now' = now + 1
            /\ UNCHANGED <<vault, position, py_tokens, sy, sy_vault>>
        BY <1>2, <2>1, TickKeeps DEF Held
      <3>2. now' \in 0..MaxTime
        BY <1>3, <3>1, Constants
      <3> QED
        BY <1>3, <3>1, <3>2 DEF rate
    <2>2. CASE /\ V!SetExchangeRate
               /\ UNCHANGED <<now, vault, position, opened, py_tokens>>
      <3>1. VP!IInv' /\ sy'.exchange_rate \in Rates /\ UNCHANGED sy_vault
        BY <1>2, <2>2, RateMoveKeeps DEF Held
      <3> QED
        BY <1>3, <2>2, <3>1 DEF rate
    <2> QED
      BY <1>1, <2>1, <2>2
  <1>5. MP!MarketInv'
    BY <1>1, <1>2, <1>4 DEF Held, MP!MarketInv, MP!MarketTypeOK,
       MP!PoolInCustody, MP!PoolStocked, marketBooks
  <1>6. Held' /\ Balanced' /\ Agreed' /\ ~market'.is_current_flash_swap
    BY <1>1, <1>2, <1>4, <1>5 DEF Held, Balanced, Agreed, marketBooks
  <1>7. TxTyped' /\ tx'.handler = "none" /\ tx'.pc = "idle"
    BY <1>1, <1>2 DEF TxTyped
  <1>8. Launched' /\ FlagTaken'
    BY <1>6, <1>7 DEF Launched, FlagTaken
  <1> QED
    BY <1>6, <1>7, <1>8, NoWrapper DEF TransactionsInv

LEMMA InitKeeps == Init => TransactionsInv
  <1> SUFFICES ASSUME Init
               PROVE  TransactionsInv
    OBVIOUS
  <1> DEFINE L == [window_start_timestamp |-> 0, window_start_net_balance |-> 0,
                   negative |-> 10000, positive |-> MaxU32, duration |-> 0]
  <1>1. /\ now = 0 /\ V!Init
        /\ market = [lp_escrow_amount |-> 0,
                 pt_balance |-> InitialPt, sy_balance |-> InitialSy,
                 status_flags |-> M!Flags, fee_treasury_sy_bps |-> TreasuryFeeBps,
                 max_lp_supply |-> MaxU64, is_current_flash_swap |-> FALSE,
                 limits |-> L]
        /\ lp_tokens = [mint_lp |-> InitialLp, pt_escrow |-> InitialPt,
                        sy_position |-> InitialSy]
        /\ wallet = [sy |-> 0, pt |-> 0, yt |-> 0, lp |-> 0, staked |-> 0]
        /\ ledger = [mint_sy |-> 0, treasury |-> 0]
        /\ tx = [Idle EXCEPT !.pc = "open"]
        /\ committed = Committed
    BY DEF Init
  <1>2. VP!IInv
    BY <1>1, StartKeeps
  <1>3. L \in M!LiquidityNetBalanceLimits
    BY Constants DEF M!LiquidityNetBalanceLimits, M!Bps
  <1> HIDE DEF L
  <1>4. market \in MarketAccount
    BY <1>1, <1>3, Constants DEF MarketAccount, M!Bps
  <1>5. MP!MarketInv
    <2>1. PoolOf(market) = [pt_balance |-> InitialPt, sy_balance |-> InitialSy,
                 status_flags |-> M!Flags, fee_treasury_sy_bps |-> TreasuryFeeBps,
                 max_lp_supply |-> MaxU64, is_current_flash_swap |-> FALSE,
                 limits |-> L]
      BY <1>1 DEF PoolOf
    <2>2. /\ M!Flags = MP!Flags /\ M!Bps = MP!Bps
          /\ M!LiquidityNetBalanceLimits = MP!LiquidityNetBalanceLimits
      BY DEF M!Flags, MP!Flags, M!Bps, MP!Bps, M!LiquidityNetBalanceLimits,
         MP!LiquidityNetBalanceLimits
    <2>3. TreasuryFeeBps \in MP!Bps
      BY Constants DEF MP!Bps
    <2>4. PoolOf(market) \in MP!MarketTwo
      BY <1>3, <2>1, <2>2, <2>3, Constants DEF MP!MarketTwo
    <2>5. lp_tokens \in MP!Tokens
      BY <1>1, Constants DEF MP!Tokens
    <2>6. rate \in Rates
      BY <1>2 DEF VP!IInv, VP!TypeOK, VP!SyTypeOK, rate
    <2>7. now \in 0..MaxTime
      BY <1>1, Constants
    <2>8. MP!PoolInCustody /\ MP!PoolStocked
      BY <1>1, <2>1, Constants DEF MP!PoolInCustody, MP!PoolStocked
    <2> QED
      BY <2>4, <2>5, <2>6, <2>7, <2>8 DEF MP!MarketInv, MP!MarketTypeOK
  <1>6. Held
    <2>1. wallet \in Wallet /\ ledger \in TokenLedgers
      BY <1>1 DEF Wallet, TokenLedgers
    <2> QED
      BY <1>2, <1>4, <1>5, <2>1 DEF Held
  <1>7. BeforeLaunch
    <2>1. V!SyInit /\ py_tokens = [mint_pt |-> 0, yt_wallets |-> 0, escrow_yt |-> 0]
      BY <1>1 DEF V!Init
    <2> QED
      BY <1>1, <2>1 DEF BeforeLaunch, V!SyInit
  <1>8. TxTyped /\ tx.handler = "none" /\ tx.pc = "open"
    BY <1>1 DEF TxTyped, Idle, Handlers
  <1>9. ~InCourse /\ CopiesCurrent /\ FlagTaken /\ ~Launched
    BY <1>1, <1>8 DEF InCourse, CopiesCurrent, FlagTaken, Launched
  <1>10. WrappersHold
    BY <1>8 DEF WrappersHold, StripHolds, BuyPtHolds, BuyYtHolds, ProvideHolds,
       ClassicHolds, BaseHolds, Base, RedeemerHolds, Redeemers
  <1>11. Agreed
    BY <1>1, Zenon DEF Agreed, Committed, Books
  <1> QED
    BY <1>6, <1>7, <1>8, <1>9, <1>10, <1>11 DEF TransactionsInv

-----------------------------------------------------------------------------
(* The theorems.                                                           *)

LEMMA WrapperStepInCourse ==
    ASSUME WrapperStep
    PROVE  InCourse
  BY Zenon DEF WrapperStep, WrapperStrip, WrapperMerge, WrapperCollectInterest,
     WrapperBuyPt, WrapperSellPt, WrapperBuyYt, WrapperSellYt,
     WrapperProvideLiquidity, WrapperProvideLiquidityClassic,
     WrapperProvideLiquidityBase, WrapperWithdrawLiquidity,
     WrapperWithdrawLiquidityClassic, WithdrawLpAndLiquidity, At, InCourse

LEMMA WrapperKeeps ==
    ASSUME TransactionsInv, WrapperStep
    PROVE  TransactionsInv'
  <1>1. Course /\ CommittedHeld
    BY WrapperStepInCourse, WrappersRun
  <1>2. Course' /\ UNCHANGED others
    BY <1>1, StripRuns, MergeRuns, CollectInterestRuns, BuyPtRuns, SellPtRuns,
       BuyYtRuns, SellYtRuns, ProvideRuns, ClassicRuns, BaseRuns, WithdrawRuns,
       WithdrawClassicRuns DEF WrapperStep
  <1> QED
    BY <1>1, <1>2, RunIsKept

LEMMA StutterKeeps ==
    ASSUME TransactionsInv, UNCHANGED vars
    PROVE  TransactionsInv'
  <1>1. /\ UNCHANGED <<now, sy, opened, books, wallet, ledger, tx, committed>>
        /\ UNCHANGED others
    BY DEF vars, others
  <1>2. CASE InCourse
    <2>1. Course /\ CommittedHeld
      BY <1>2, WrappersRun
    <2>2. Sound'
      BY <1>1, <2>1, AccountsStill DEF Course, Sound
    <2>3. Course'
      <3>1. TxTyped' /\ CopiesCurrent' /\ FlagTaken' /\ InCourse'
        BY <1>1, <2>1 DEF Course, TxTyped, CopiesCurrent, FlagTaken, InCourse,
           books
      <3>2. /\ StripHolds' /\ BuyPtHolds' /\ BuyYtHolds' /\ ProvideHolds'
            /\ ClassicHolds' /\ RedeemerHolds'
            /\ (tx.pc = "start" => wallet = committed.wallet)'
        BY <1>1, <2>1 DEF Course, WrappersHold, StripHolds, BuyPtHolds,
           BuyYtHolds, ProvideHolds, ClassicHolds, RedeemerHolds, Holds, HoldsSy
      <3>3. BaseHolds'
        <4>1. market \in MarketAccount /\ UNCHANGED <<sy, lp_tokens, market>>
          BY <1>1, <2>1 DEF Course, Sound, Held, books
        <4>2. BaseNeeds' = BaseNeeds
          BY <1>1, <4>1, NeedsStill
        <4>3. M!AddLiquidity(tx.amount, MaxU64).sy_in'
                = M!AddLiquidity(tx.amount, MaxU64).sy_in
          BY <1>1, <4>1 DEF M!AddLiquidity
        <4> QED
          BY <1>1, <2>1, <4>2, <4>3
             DEF Course, WrappersHold, BaseHolds, Holds
      <3> QED
        BY <1>1, <2>1, <2>2, <3>1, <3>2, <3>3 DEF Course, WrappersHold
    <2> QED
      BY <1>1, <2>1, <2>3, RunIsKept
  <1>3. CASE ~InCourse
    <2>1. /\ Held' /\ (Balanced => Balanced') /\ (BeforeLaunch => BeforeLaunch')
      BY <1>1, AccountsStill DEF TransactionsInv
    <2>2. /\ TxTyped' /\ FlagTaken' /\ ~InCourse' /\ CopiesCurrent'
          /\ (Launched' <=> Launched)
      BY <1>1, <1>3 DEF TransactionsInv, TxTyped, CopiesCurrent, FlagTaken,
         InCourse, Launched, books
    <2>3. tx.handler = "none" => Agreed'
      BY <1>1 DEF TransactionsInv, Agreed, books
    <2>4. tx'.pc \in {"open", "launch", "idle", "publish"}
      BY <1>1, <1>3 DEF TransactionsInv, TxTyped, InCourse
    <2>5. WrappersHold'
      BY <2>4 DEF WrappersHold, StripHolds, BuyPtHolds, BuyYtHolds,
         ProvideHolds, ClassicHolds, BaseHolds, RedeemerHolds, Holds, HoldsSy
    <2> QED
      BY <1>1, <2>1, <2>2, <2>3, <2>5 DEF TransactionsInv
  <1> QED
    BY <1>2, <1>3

LEMMA StepKeeps == TransactionsInv /\ [Next]_vars => TransactionsInv'
  <1> SUFFICES ASSUME TransactionsInv, [Next]_vars
               PROVE  TransactionsInv'
    OBVIOUS
  <1>1. CASE Open
    BY <1>1, OpenRuns
  <1>2. CASE Launch
    BY <1>2, LaunchRuns
  <1>3. CASE Environment
    BY <1>3, EnvironmentKeeps
  <1>4. CASE \E handler \in Handlers : Start(handler)
    BY <1>4, StartRuns
  <1>5. CASE WrapperStep
    BY <1>5, WrapperKeeps
  <1>6. CASE Exit
    BY <1>6, ExitKeeps
  <1>7. CASE Publish
    BY <1>7, PublishKeeps
  <1>8. CASE Abort
    BY <1>8, AbortKeeps
  <1>9. CASE UNCHANGED vars
    BY <1>9, StutterKeeps
  <1> QED
    BY <1>1, <1>2, <1>3, <1>4, <1>5, <1>6, <1>7, <1>8, <1>9
       DEF Next, WrapperStep

\* The invariant holds at every step of every wrapper, whatever succeeds,
\* fails or is published.
THEOREM WrappersKeepTheirWord == Spec => []TransactionsInv
  <1>1. Init => TransactionsInv
    BY InitKeeps
  <1>2. TransactionsInv /\ [Next]_vars => TransactionsInv'
    BY StepKeeps
  <1> QED
    BY <1>1, <1>2, PTL DEF Spec

\* No nested call takes more than the wallet or an account has (do_cpi_* of
\* utils/do_cpi_*.rs and the transfers that they make).
THEOREM TransactionsTypeCorrect == Spec => []TransactionsTypeOK
  <1>1. TransactionsInv => TransactionsTypeOK
    <2> SUFFICES ASSUME TransactionsInv
                 PROVE  TransactionsTypeOK
      OBVIOUS
    <2>1. Held /\ TxTyped
      BY DEF TransactionsInv
    <2>2. wallet \in Wallet /\ ledger \in TokenLedgers
      BY <2>1 DEF Held
    <2>3. market.lp_escrow_amount \in Nat
      BY <2>1 DEF Held, MarketAccount
    <2>4. lp_tokens \in M!Tokens
      BY <2>1, PoolIsTyped DEF Held, M!Tokens
    <2>5. sy_vault.sy_balance \in Nat
      BY <2>1, VaultTypes DEF Held
    <2>6. \A f \in {"sy", "py", "lp", "amount", "amount_pt"} : tx[f] \in Nat
      BY <2>1 DEF TxTyped
    <2> QED
      BY <2>2, <2>3, <2>4, <2>5, <2>6
         DEF TransactionsTypeOK, Wallet, TokenLedgers
  <1> QED
    BY <1>1, WrappersKeepTheirWord, PTL

\* In the middle of any wrapper too, every token is somewhere, for all rates,
\* fees, amounts and answers of the curve.
THEOREM TokensAreConserved == Spec => []Conservation
  <1>1. TransactionsInv => Conservation
    BY DEF TransactionsInv, Conservation, Balanced
  <1> QED
    BY <1>1, WrappersKeepTheirWord, PTL

\* No exit of a wrapper brings back an older account of the market, and none
\* leaves it marked as in a flash swap (the reload after each nested call,
\* wrapper_provide_liquidity_base).
THEOREM MarketStaysCurrent == Spec => []MarketIsCurrent
  <1>1. TransactionsInv => MarketIsCurrent
    BY DEF TransactionsInv, MarketIsCurrent, Launched, Balanced, FlagTaken
  <1> QED
    BY <1>1, WrappersKeepTheirWord, PTL

\* What the wrappers mint covers what their nested calls take, and what they
\* redeem is exactly what these brought, however it is rounded and whatever
\* the curve answers (sy_to_py_ceil, sim_buy_yt, calc_strip_amount).
THEOREM UserSyIsNeverTaken == Spec => []UserSyIsSafe
  <1>1. TransactionsInv => UserSyIsSafe
    <2> SUFFICES ASSUME TransactionsInv, tx.pc = "exit"
                 PROVE  UserSyIsSafe
      BY DEF UserSyIsSafe
    <2>1. Course /\ TxTyped
      <3>1. InCourse
        BY DEF TransactionsInv, TxTyped, InCourse
      <3> QED
        BY <3>1, WrappersRun DEF Course
    <2>2. wallet.sy \in Nat /\ committed.wallet.sy \in Nat
      BY <2>1, CourseTypes
    <2>3. tx.handler \in Redeemers => wallet.sy = committed.wallet.sy
      BY <2>1, <2>2 DEF Course, WrappersHold, RedeemerHolds, HoldsSy
    <2>4. tx.handler \in Handlers \ Redeemers =>
             wallet.sy >= committed.wallet.sy + 0
      BY <2>1 DEF Course, WrappersHold, StripHolds, BuyPtHolds, BuyYtHolds,
         ProvideHolds, ClassicHolds, BaseHolds, Base, Holds, Handlers, Redeemers
    <2>5. tx.handler \in Handlers
      BY <2>1 DEF Course, TxTyped, InCourse
    <2> QED
      BY <2>2, <2>3, <2>4, <2>5 DEF UserSyIsSafe, Redeemers
  <1> QED
    BY <1>1, WrappersKeepTheirWord, PTL

\* The YT and the LP tokens that a wrapper obtains are all deposited, and the
\* user's own stay in the wallet (wrapper_strip, wrapper_buy_yt and the three
\* that provide liquidity).
THEOREM ObtainedYieldIsDeposited == Spec => []YieldIsDeposited
  <1>1. TransactionsInv => YieldIsDeposited
    <2> SUFFICES ASSUME TransactionsInv, tx.pc = "exit",
                        tx.handler \in {"wrapper_strip", "wrapper_buy_yt",
                                        "wrapper_provide_liquidity",
                                        "wrapper_provide_liquidity_base",
                                        "wrapper_provide_liquidity_classic"}
                 PROVE  /\ wallet.yt = committed.wallet.yt
                        /\ wallet.lp = committed.wallet.lp
      BY DEF YieldIsDeposited
    <2>1. Course
      <3>1. InCourse
        BY DEF TransactionsInv, TxTyped, InCourse
      <3> QED
        BY <3>1, WrappersRun
    <2>2. /\ wallet.yt = committed.wallet.yt + 0
          /\ wallet.lp = committed.wallet.lp + 0
      BY <2>1 DEF Course, WrappersHold, StripHolds, BuyYtHolds, ProvideHolds,
         ClassicHolds, BaseHolds, Base, Holds
    <2>3. committed.wallet.yt \in Nat /\ committed.wallet.lp \in Nat
      BY <2>1, CourseTypes
    <2> QED
      BY <2>2, <2>3
  <1> QED
    BY <1>1, WrappersKeepTheirWord, PTL

-----------------------------------------------------------------------------
(* What others see of the vault and of the pool.                           *)

\* The inductive invariant keeps the record and the accounts in order.
LEMMA InvariantKept == TransactionsInv => Kept
  <1> SUFFICES ASSUME TransactionsInv
               PROVE  Kept
    OBVIOUS
  <1>1. /\ vault \in VP!VaultAccount
        /\ position \in [VP!Holders -> VP!YieldTokenPosition]
        /\ py_tokens \in [mint_pt : Nat, yt_wallets : Nat, escrow_yt : Nat]
        /\ sy_vault \in [sy_balance : Nat, emissions : Seq(VP!SyEmission)]
        /\ rate \in Rates
    BY DEF TransactionsInv, Held, VP!IInv, VP!TypeOK, VP!SyTypeOK, rate
  <1>2. market \in MarketAccount /\ lp_tokens \in M!Tokens
    BY PoolIsTyped DEF TransactionsInv, Held, M!Tokens
  <1>3. /\ VP!VaultAccount = V!VaultAccount /\ VP!Holders = V!Holders
        /\ VP!YieldTokenPosition = V!YieldTokenPosition
        /\ VP!SyEmission = V!SyEmission
    BY Zenon DEF VP!VaultAccount, V!VaultAccount, VP!Flags, V!Flags,
       VP!EmissionInfo, V!EmissionInfo, VP!ClaimLimits, V!ClaimLimits,
       VP!Holders, V!Holders, VP!YieldTokenPosition, V!YieldTokenPosition,
       VP!Tracker, V!Tracker, VP!SyEmission, V!SyEmission
  <1>4. Books \in BooksSet
    BY <1>1, <1>2, <1>3, Zenon DEF Books, BooksSet
  <1> QED
    BY <1>1, <1>4 DEF TransactionsInv, Kept

\* A wrapper at work shows others nothing.
LEMMA WrapperStaysApart ==
    ASSUME TransactionsInv, WrapperStep
    PROVE  UNCHANGED others /\ InCourse
  <1>1. Course /\ InCourse
    BY WrapperStepInCourse, WrappersRun
  <1> QED
    BY <1>1, StripRuns, MergeRuns, CollectInterestRuns, BuyPtRuns, SellPtRuns,
       BuyYtRuns, SellYtRuns, ProvideRuns, ClassicRuns, BaseRuns, WithdrawRuns,
       WithdrawClassicRuns DEF WrapperStep

\* Every step keeps the trail, and is for others a step of the vault's own
\* instructions or none, and of the pool's or none.
LEMMA EveryStepTold ==
    ASSUME Amounts = Nat, TransactionsInv, TransactionsInv', Trail, Answered,
           [Next]_vars
    PROVE  Told
  <1>1. Kept /\ Kept'
    <2>1. (TransactionsInv => Kept)'
      BY InvariantKept, PTL
    <2> QED
      BY <2>1, InvariantKept
  <1> QED
    BY <1>1, StepTold, WrapperStaysApart

\* The trail starts with the accounts as others first see them.
LEMMA StartTrail ==
    ASSUME Init
    PROVE  Trail /\ Answered /\ PV!Init /\ PM!Init
  BY InitKeeps, InvariantKept, InitTold

\* What a transaction has written always leads, entry by entry, from what
\* others see to the accounts as the transaction sees them.
LEMMA TrailHolds ==
    ASSUME Amounts = Nat
    PROVE  Spec => [](Trail /\ Answered)
  <1>1. Init => Trail /\ Answered
    BY StartTrail
  <1>2. TransactionsInv /\ TransactionsInv' /\ Trail /\ Answered /\ [Next]_vars
          => (Trail /\ Answered)'
    BY EveryStepTold DEF Told
  <1> QED
    BY <1>1, <1>2, WrappersKeepTheirWord, PTL DEF Spec

\* However the wrappers of instructions/wrappers nest strip, merge, deposit_yt
\* and collect_interest, whatever they have in flight when one of their calls
\* fails, and however the clock and the SY program move between transactions,
\* the vault that others see behaves as Vault says: every change of it is one
\* whole instruction of the vault's own, on accounts that are not stale.  The
\* amounts of the nested calls are computed, so any may occur.
THEOREM WrappersRefineVault ==
    ASSUME Amounts = Nat
    PROVE  Spec => VaultRefined
  <1>1. Init => PV!Init
    BY StartTrail
  <1>2. TransactionsInv /\ TransactionsInv' /\ Trail /\ Answered /\ [Next]_vars
          => [PV!Next]_(PV!vars)
    BY EveryStepTold DEF Told
  <1> QED
    BY <1>1, <1>2, TrailHolds, WrappersKeepTheirWord, PTL
    DEF Spec, VaultRefined, PV!Spec

\* The same of the market's pool: a wrapper that trades, provides or withdraws
\* liquidity, and the base form of wrapper_provide_liquidity, which raises the
\* flag of a flash swap over several calls, change it as the market's own
\* instructions do, one at a time, and nobody else sees the flag up.
THEOREM WrappersRefinePool ==
    ASSUME Amounts = Nat
    PROVE  Spec => PoolRefined
  <1>1. Init => PM!Init
    BY StartTrail
  <1>2. TransactionsInv /\ TransactionsInv' /\ Trail /\ Answered /\ [Next]_vars
          => [PM!Next]_(PM!vars)
    BY EveryStepTold DEF Told
  <1> QED
    BY <1>1, <1>2, TrailHolds, WrappersKeepTheirWord, PTL
    DEF Spec, PoolRefined, PM!Spec
=============================================================================
