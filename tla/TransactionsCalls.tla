------------------------- MODULE TransactionsCalls -------------------------
(***************************************************************************)
(* The nested instructions of a transaction, seen from both sides.         *)
(*                                                                         *)
(* First what others see: every call appends to the log of its transaction *)
(* the accounts it leaves, and what is published from the log, one entry   *)
(* at a time, is a behaviour of the vault's own instructions and one of    *)
(* the pool's.  The instructions are stated here as relations between what *)
(* is there before and after, so that they can be said of two entries of a *)
(* log as well as of the accounts of a state.                              *)
(*                                                                         *)
(* Then what the caller sees: each nested instruction leaves the accounts  *)
(* in order and every token somewhere, and moves exactly what its caller   *)
(* sees it move.  What it does to the accounts of the vault and of the     *)
(* pool is proved beside Vault and Market, and used here as it stands.     *)
(*                                                                         *)
(* The parts of the inductive invariant of Transactions are stated here;   *)
(* TransactionsProofs proves it.                                           *)
(***************************************************************************)
EXTENDS TransactionsProperties, YieldMathProofs

-----------------------------------------------------------------------------
(* The record of a transaction, the accounts it holds and its course.      *)

\* The user's tokens, and the other ledgers.
Wallet == [sy : Nat, pt : Nat, yt : Nat, lp : Nat, staked : Nat]

TokenLedgers == [mint_sy : Nat, treasury : Nat]

\* The account of a market: that of Market, and what is staked.
MarketAccount ==
    [pt_balance : Nat, sy_balance : Nat, status_flags : SUBSET M!Flags,
     fee_treasury_sy_bps : M!Bps, max_lp_supply : Nat,
     is_current_flash_swap : BOOLEAN, limits : M!LiquidityNetBalanceLimits,
     lp_escrow_amount : Nat]

\* What a transaction's record holds, and when there is one.
TxTyped ==
    /\ DOMAIN tx = DOMAIN Idle
    /\ DOMAIN tx.copy = {"vault", "market"}
    /\ \A f \in {"sy", "py", "lp", "amount", "amount_pt", "er", "fr"} :
          tx[f] \in Nat
    /\ tx.handler \in Handlers \cup {"none"}
    /\ tx.handler = "none" <=> tx.pc \in {"open", "launch", "idle"}

\* A wrapper is running: it has not handed its result over yet.
InCourse == tx.handler # "none" /\ tx.pc # "publish"

\* The one wrapper that trades with the flag of a flash swap up.
Base == "wrapper_provide_liquidity_base"

\* Every wrapper reloads what its calls change, before it calls again.
CopiesCurrent ==
    InCourse =>
        /\ "vault" \in Loaded(tx.handler) => tx.copy.vault = vault
        /\ "market" \in Loaded(tx.handler) =>
              tx.copy.market =
                  IF tx.handler = Base /\ tx.pc = "exit"
                  THEN [market EXCEPT !.is_current_flash_swap = FALSE]
                  ELSE market

\* The flag is up only while that wrapper works, and always while it trades.
FlagTaken ==
    /\ market.is_current_flash_swap =>
          /\ tx.handler = Base
          /\ tx.pc \in {"trade_pt", "deposit_liquidity", "deposit_lp",
                        "unflag", "exit"}
    /\ tx.handler = Base /\ tx.pc = "trade_pt" => market.is_current_flash_swap

\* The wrappers, one call of theirs at a time.
WrapperStep ==
    \/ WrapperStrip \/ WrapperMerge \/ WrapperCollectInterest
    \/ WrapperBuyPt \/ WrapperSellPt \/ WrapperBuyYt \/ WrapperSellYt
    \/ WrapperProvideLiquidity \/ WrapperProvideLiquidityClassic
    \/ WrapperProvideLiquidityBase
    \/ WrapperWithdrawLiquidity \/ WrapperWithdrawLiquidityClassic

\* The accounts that a wrapper deserialises before it runs.
LEMMA LoadedAccounts ==
    /\ \A h \in {"wrapper_strip", "wrapper_merge", "wrapper_collect_interest"} :
          Loaded(h) = {"vault"}
    /\ \A h \in {"wrapper_provide_liquidity", "wrapper_buy_yt"} :
          Loaded(h) = {"vault", "market"}
    /\ \A h \in {"wrapper_buy_pt", "wrapper_sell_pt", "wrapper_sell_yt",
                 "wrapper_provide_liquidity_base",
                 "wrapper_provide_liquidity_classic",
                 "wrapper_withdraw_liquidity",
                 "wrapper_withdraw_liquidity_classic"} :
          Loaded(h) = {"market"}
  BY DEF Loaded

\* The arguments of an instruction are amounts.
LEMMA InputTypes ==
    ASSUME NEW handler \in Handlers, NEW in \in Inputs(handler)
    PROVE  in[1] \in Nat /\ in[2] \in Nat
  BY TransactionsAssumption DEF Inputs, Handlers

\* What a call leaves in the record of the transaction.
LEMMA ThenFacts ==
    ASSUME TxTyped, tx.handler # "none",
           NEW pc, pc \notin {"open", "launch", "idle"},
           NEW reloads, NEW results,
           DOMAIN results \subseteq {"sy", "py", "lp", "er", "fr"},
           \A f \in DOMAIN results : results[f] \in Nat,
           Then(pc, reloads, results)
    PROVE  /\ TxTyped'
           /\ tx'.handler = tx.handler /\ tx'.pc = pc
           /\ tx'.amount = tx.amount /\ tx'.amount_pt = tx.amount_pt
           /\ tx'.copy = Reloaded(reloads)
           /\ \A f \in {"sy", "py", "lp", "er", "fr"} :
                 tx'[f] = IF f \in DOMAIN results THEN results[f] ELSE tx[f]
  <1> DEFINE next == [tx EXCEPT !.pc = pc, !.copy = Reloaded(reloads),
                                !.log = Logged]
  <1>1. DOMAIN tx = {"handler", "pc", "amount", "amount_pt", "er", "fr", "sy",
                     "py", "lp", "copy", "log"}
    BY DEF TxTyped, Idle
  <1>2. /\ DOMAIN next = DOMAIN tx
        /\ next.pc = pc /\ next.copy = Reloaded(reloads)
        /\ \A f \in DOMAIN tx \ {"pc", "copy", "log"} : next[f] = tx[f]
    BY <1>1
  <1> HIDE DEF next
  <1>3. tx' = [f \in DOMAIN tx |->
                 IF f \in DOMAIN results THEN results[f] ELSE next[f]]
    BY <1>2 DEF Then, next
  <1>4. DOMAIN tx' = DOMAIN tx
    BY <1>1, <1>2, <1>3
  <1>5. \A f \in DOMAIN tx : tx'[f] = IF f \in DOMAIN results
                                      THEN results[f] ELSE next[f]
    BY <1>2, <1>3
  <1>6. /\ tx'.handler = tx.handler /\ tx'.pc = pc
        /\ tx'.amount = tx.amount /\ tx'.amount_pt = tx.amount_pt
        /\ tx'.copy = Reloaded(reloads)
        /\ \A f \in {"sy", "py", "lp", "er", "fr"} :
              tx'[f] = IF f \in DOMAIN results THEN results[f] ELSE tx[f]
    BY <1>1, <1>2, <1>5
  <1>7. DOMAIN tx'.copy = {"vault", "market"}
    BY <1>6 DEF Reloaded
  <1>8. \A f \in {"sy", "py", "lp", "amount", "amount_pt", "er", "fr"} :
           tx'[f] \in Nat
    BY <1>6 DEF TxTyped
  <1> QED
    BY <1>4, <1>6, <1>7, <1>8 DEF TxTyped

\* Most calls return nothing that the wrapper keeps.
LEMMA NoResults == DOMAIN Nothing = {}
  BY DEF Nothing

\* The account with other balances, another window, and so on.
WithBalances(m, p, s) == [m EXCEPT !.pt_balance = p, !.sy_balance = s]

WithWindow(m, p, s, l) ==
    [m EXCEPT !.pt_balance = p, !.sy_balance = s, !.limits = l]

WithFlag(m, f) == [m EXCEPT !.is_current_flash_swap = f]

WithStake(m, n) == [m EXCEPT !.lp_escrow_amount = n]

\* The part of the SY to strip can be computed unless the pool is empty.
LEMMA StripAmountType ==
    ASSUME tx.sy \in Nat, rate \in Nat \ {0},
           market.pt_balance \in Nat, market.sy_balance \in Nat,
           market.pt_balance + market.sy_balance > 0
    PROVE  CalcStripAmount(tx.sy) \in Nat
  <1> DEFINE P == market.pt_balance
             S == market.sy_balance
             a == NumMul(FromNatural(tx.sy), FromNatural(P))
             b == NumMul(rate, FromNatural(S))
             d == NumDiv(a, b + FromNatural(P))
  <1>1. /\ P \in Nat /\ S \in Nat /\ tx.sy \in Nat /\ rate \in Nat \ {0}
        /\ ONE \in Nat \ {0}
    BY OneAssumption
  <1>2. a \in Nat
    BY <1>1, NaturalType, MulType
  <1>3. b = S * rate /\ b \in Nat
    <2>1. NumMul(FromNatural(S), rate) = S * rate
      BY <1>1, ScaledMul
    <2>2. FromNatural(S) \in Nat
      BY <1>1, NaturalType
    <2>3. FromNatural(S) * rate = rate * FromNatural(S)
      BY <1>1, <2>2
    <2> QED
      BY <1>1, <2>1, <2>3 DEF NumMul
  <1>4. b + FromNatural(P) \in Nat \ {0}
    <2>1. FromNatural(P) \in Nat /\ (P # 0 => FromNatural(P) # 0)
      BY <1>1, NaturalType
    <2>2. S # 0 => S * rate # 0
      BY <1>1
    <2>3. P # 0 \/ S # 0
      BY <1>1
    <2> HIDE DEF b, P, S
    <2> QED
      BY <1>1, <1>3, <2>1, <2>2, <2>3
  <1> HIDE DEF a, b
  <1>5. d \in Nat
    BY <1>2, <1>4, DivType
  <1> HIDE DEF d
  <1>6. CeilDiv(d, ONE) \in Nat
    <2>1. d + ONE - 1 \in Nat
      BY <1>1, <1>5
    <2> QED
      BY <1>1, <2>1, DivFacts DEF CeilDiv
  <1> QED
    BY <1>6 DEF CalcStripAmount, a, b, d

-----------------------------------------------------------------------------
(* The vault as others see it is one more instance of the same module.      *)

\* The arithmetic is the same whoever looks,
LEMMA PublicRounding ==
    ASSUME NEW a, NEW b, NEW c
    PROVE  /\ V!FromNatural(a) = PV!FromNatural(a)
           /\ V!NumMul(a, b) = PV!NumMul(a, b)
           /\ V!NumDiv(a, b) = PV!NumDiv(a, b)
           /\ V!FromRatio(a, b) = PV!FromRatio(a, b)
           /\ V!Floor(a) = PV!Floor(a)
           /\ V!Larger(a, b) = PV!Larger(a, b)
           /\ V!Smaller(a, b) = PV!Smaller(a, b)
           /\ V!CeilFee(a, b) = PV!CeilFee(a, b)
  BY DEF V!FromNatural, PV!FromNatural, V!NumMul, PV!NumMul, V!NumDiv,
     PV!NumDiv, V!FromRatio, PV!FromRatio, V!Floor, PV!Floor, V!Larger,
     PV!Larger, V!Smaller, PV!Smaller, V!CeilFee, PV!CeilFee,
     V!RoundingCorrection, PV!RoundingCorrection

\* ... so are the conversions,
LEMMA PublicConversions ==
    ASSUME NEW a, NEW b, NEW c
    PROVE  /\ V!SyToPy(a, b) = PV!SyToPy(a, b)
           /\ V!PyToSy(a, b) = PV!PyToSy(a, b)
           /\ V!CalcEarnedSy(a, b, c) = PV!CalcEarnedSy(a, b, c)
           /\ V!ScaleSyToCurrentRate(a, b, c) = PV!ScaleSyToCurrentRate(a, b, c)
           /\ V!CalcSyAppreciation(a, b, c) = PV!CalcSyAppreciation(a, b, c)
           /\ V!CalcShareValue(a, b, c) = PV!CalcShareValue(a, b, c)
           /\ V!RedeemPt(a, b, c) = PV!RedeemPt(a, b, c)
  BY PublicRounding DEF V!SyToPy, PV!SyToPy, V!PyToSy, PV!PyToSy,
     V!CalcEarnedSy, PV!CalcEarnedSy, V!ScaleSyToCurrentRate,
     PV!ScaleSyToCurrentRate, V!CalcSyAppreciation, PV!CalcSyAppreciation,
     V!CalcShareValue, PV!CalcShareValue, V!RedeemPt, PV!RedeemPt

\* ... the status of a vault,
LEMMA PublicVault ==
    ASSUME NEW v, NEW s, NEW t
    PROVE  /\ V!IsExpired(t) = PV!IsExpired(t)
           /\ V!IsActive(t) = PV!IsActive(t)
           /\ V!InEmergency(v) = PV!InEmergency(v)
           /\ V!CanEarn(v) = PV!CanEarn(v)
           /\ V!ActiveSy(v) = PV!ActiveSy(v)
           /\ V!SetSyForPt(v) = PV!SetSyForPt(v)
           /\ V!SySurplus(v, s, t) = PV!SySurplus(v, s, t)
  BY PublicRounding, PublicConversions DEF V!IsExpired, PV!IsExpired, V!IsActive,
     PV!IsActive, V!InEmergency, PV!InEmergency, V!CanEarn, PV!CanEarn,
     V!ActiveSy, PV!ActiveSy, V!SetSyForPt, PV!SetSyForPt, V!SySurplus,
     PV!SySurplus, V!SyBackingForPt, PV!SyBackingForPt

\* ... an emission and the emissions as an update sees them,
LEMMA PublicEmission ==
    ASSUME NEW v, NEW e, NEW i, NEW t
    PROVE  V!SeenEmission(v, e, i, t) = PV!SeenEmission(v, e, i, t)
  BY PublicConversions, PublicVault, Zenon DEF V!SeenEmission, PV!SeenEmission

LEMMA PublicSeenEmissions ==
    ASSUME NEW v, NEW s, NEW t
    PROVE  V!SeenEmissions(v, s, t) = PV!SeenEmissions(v, s, t)
  <1> DEFINE f == [i \in DOMAIN v.emissions |->
                     IF i \in DOMAIN s.emission_indexes
                     THEN V!SeenEmission(v, v.emissions[i],
                                         s.emission_indexes[i], t)
                     ELSE v.emissions[i]]
             g == [i \in DOMAIN v.emissions |->
                     IF i \in DOMAIN s.emission_indexes
                     THEN PV!SeenEmission(v, v.emissions[i],
                                          s.emission_indexes[i], t)
                     ELSE v.emissions[i]]
  <1>1. \A i \in DOMAIN v.emissions : f[i] = g[i]
    BY PublicEmission
  <1>2. f = g
    BY <1>1
  <1> QED
    BY <1>2 DEF V!SeenEmissions, PV!SeenEmissions

\* ... the vault as an update sees it,
LEMMA PublicUpdate ==
    ASSUME NEW v, NEW s, NEW t
    PROVE  /\ V!SeenState(v, s, t) = PV!SeenState(v, s, t)
           /\ V!UpdateFromSyState(v, s, t) = PV!UpdateFromSyState(v, s, t)
  <1>1. V!SeenState(v, s, t) = PV!SeenState(v, s, t)
    <2>1. /\ V!SySurplus(v, s.exchange_rate, t)
               = PV!SySurplus(v, s.exchange_rate, t)
          /\ V!Larger(s.exchange_rate, v.all_time_high_sy_exchange_rate)
               = PV!Larger(s.exchange_rate, v.all_time_high_sy_exchange_rate)
          /\ V!IsActive(t) = PV!IsActive(t)
          /\ V!SeenEmissions(v, s, t) = PV!SeenEmissions(v, s, t)
      BY PublicRounding, PublicVault, PublicSeenEmissions
    <2> QED
      BY <2>1, Zenon DEF V!SeenState, PV!SeenState
  <1> QED
    BY <1>1, PublicVault DEF V!UpdateFromSyState, PV!UpdateFromSyState

\* ... what an account earns,
LEMMA PublicEarning ==
    ASSUME NEW v, NEW p, NEW n
    PROVE  /\ V!EarnedSy(v, p) = PV!EarnedSy(v, p)
           /\ V!EarnSyInterest(v, p) = PV!EarnSyInterest(v, p)
           /\ V!TotalSyBalance(v, p) = PV!TotalSyBalance(v, p)
           /\ V!EarnAllVault(v, p) = PV!EarnAllVault(v, p)
           /\ V!EnsureTrackers(p, n) = PV!EnsureTrackers(p, n)
  BY PublicRounding, PublicConversions, PublicVault DEF V!EarnedSy, PV!EarnedSy,
     V!EarnSyInterest, PV!EarnSyInterest, V!TotalSyBalance, PV!TotalSyBalance,
     V!EarnAllVault, PV!EarnAllVault, V!EnsureTrackers, PV!EnsureTrackers,
     V!NewTracker, PV!NewTracker

\* ... a position brought up to date,
LEMMA PublicPosition ==
    ASSUME NEW v, NEW p
    PROVE  /\ V!EarnEmissions(v, p) = PV!EarnEmissions(v, p)
           /\ V!EarnAllPosition(v, p) = PV!EarnAllPosition(v, p)
  <1>1. ASSUME NEW q
        PROVE  V!EarnEmissions(v, q) = PV!EarnEmissions(v, q)
    <2> DEFINE f == [i \in DOMAIN q.emissions |->
                       IF i \in DOMAIN v.emissions
                       THEN [last_seen_index |-> v.emissions[i].final_index,
                             staged |-> q.emissions[i].staged
                                        + V!CalcShareValue(
                                            q.emissions[i].last_seen_index,
                                            v.emissions[i].final_index,
                                            V!TotalSyBalance(v, q))]
                       ELSE q.emissions[i]]
               g == [i \in DOMAIN q.emissions |->
                       IF i \in DOMAIN v.emissions
                       THEN [last_seen_index |-> v.emissions[i].final_index,
                             staged |-> q.emissions[i].staged
                                        + PV!CalcShareValue(
                                            q.emissions[i].last_seen_index,
                                            v.emissions[i].final_index,
                                            PV!TotalSyBalance(v, q))]
                       ELSE q.emissions[i]]
    <2>1. \A i \in DOMAIN q.emissions : f[i] = g[i]
      BY PublicConversions, PublicEarning
    <2>2. f = g
      BY <2>1
    <2> QED
      BY <2>2 DEF V!EarnEmissions, PV!EarnEmissions
  <1> QED
    BY <1>1, PublicEarning DEF V!EarnAllPosition, PV!EarnAllPosition

\* ... and the limits of claims.
LEMMA PublicClaims ==
    ASSUME NEW staged, NEW l, NEW amount, NEW t
    PROVE  /\ V!Claimable(staged) = PV!Claimable(staged)
           /\ V!WithinClaimLimits(l, amount, t)
                = PV!WithinClaimLimits(l, amount, t)
           /\ V!CountClaim(l, amount, t) = PV!CountClaim(l, amount, t)
  BY DEF V!Claimable, PV!Claimable, V!WithinClaimLimits, PV!WithinClaimLimits,
         V!CountClaim, PV!CountClaim, V!WindowEnd, PV!WindowEnd,
         V!RolledWindow, PV!RolledWindow

-----------------------------------------------------------------------------
(* What a nested call of the vault's does to the books, from b to c, at the *)
(* time t and with the state s of the SY program: the instructions of Vault *)
(* as relations, so that they can be stated of what a transaction has logged.*)

\* The vault of the books b as an instruction reads it, what it is once the
\* robot has earned, and the robot's position.
Read(t, s, b) == V!UpdateFromSyState(b.vault, s, t)

Updated(t, s, b) == V!EarnAllVault(Read(t, s, b), b.position[Robot])

RobotEarned(t, s, b) == V!EarnAllPosition(Read(t, s, b), b.position[Robot])

\* The checks of update_vault_yield.
CanRead(t, s, b) ==
    /\ Len(s.emission_indexes) <= Len(b.vault.emissions)
    /\ V!CanEarn(Updated(t, s, b))
    /\ V!Fits(RobotEarned(t, s, b))

\* The SY program accrues the emissions of the vault's position.
Accrued(s, b) ==
    [i \in DOMAIN s.emission_indexes |->
        IF i \in DOMAIN b.sy_vault.emissions
        THEN [amount_claimable |->
                b.sy_vault.emissions[i].amount_claimable
                + V!CalcShareValue(
                    b.sy_vault.emissions[i].last_seen_emission_index,
                    s.emission_indexes[i], b.sy_vault.sy_balance),
              last_seen_emission_index |-> s.emission_indexes[i]]
        ELSE [amount_claimable |-> 0,
              last_seen_emission_index |-> s.emission_indexes[i]]]

\* A position with room for every emission.
Grown(p, b) == [p EXCEPT !.space = Len(b.vault.emissions)]

\* Strip, Merge, DepositYt and CollectInterest, from b to c.
StripLeads(t, s, b, c, amount) ==
    LET v  == Updated(t, s, b)
        py == V!SyToPy(v.last_seen_sy_exchange_rate, amount)
    IN  /\ "strip" \in b.vault.status
        /\ V!IsActive(t)
        /\ amount >= b.vault.min_op_size_strip
        /\ b.vault.total_sy_in_escrow + amount <= MaxU64
        /\ CanRead(t, s, b) /\ ~V!InEmergency(v)
        /\ b.vault.pt_supply + py <= b.vault.max_py_supply
        /\ c.sy_vault = [sy_balance |-> b.sy_vault.sy_balance + amount,
                         emissions  |-> Accrued(s, b)]
        /\ c.vault = V!SetSyForPt([v EXCEPT !.total_sy_in_escrow = @ + amount,
                                            !.pt_supply = @ + py])
        /\ c.position = [b.position EXCEPT
                           ![Robot] = V!IncYtBalance(RobotEarned(t, s, b), py)]
        /\ c.py_tokens = [b.py_tokens EXCEPT !.mint_pt = @ + py,
                                             !.yt_wallets = @ + py]

MergeLeads(t, s, b, c, py) ==
    LET v      == Updated(t, s, b)
        robot  == RobotEarned(t, s, b)
        amount == V!RedeemPt(py, v.sy_for_pt, v.pt_supply)
        burned == IF V!IsActive(t) THEN py ELSE 0
    IN  /\ "merge" \in b.vault.status
        /\ py >= b.vault.min_op_size_merge
        /\ CanRead(t, s, b) /\ ~V!InEmergency(v)
        /\ burned <= robot.yt_balance
        /\ amount <= v.total_sy_in_escrow /\ py <= v.pt_supply
        /\ amount <= b.sy_vault.sy_balance
        /\ py <= b.py_tokens.mint_pt /\ burned <= b.py_tokens.yt_wallets
        /\ c.sy_vault = [sy_balance |-> b.sy_vault.sy_balance - amount,
                         emissions  |-> Accrued(s, b)]
        /\ c.vault = V!SetSyForPt([v EXCEPT !.total_sy_in_escrow = @ - amount,
                                            !.pt_supply = @ - py])
        /\ c.position = [b.position EXCEPT
                           ![Robot] = V!DecYtBalance(robot, burned)]
        /\ c.py_tokens = [b.py_tokens EXCEPT !.mint_pt = @ - py,
                                             !.yt_wallets = @ - burned]

DepositYtLeads(t, s, o, b, c, amount) ==
    LET v      == Updated(t, s, b)
        robot  == RobotEarned(t, s, b)
        staged == Grown(V!EarnAllPosition(v, b.position[User]), b)
    IN  /\ User \in o
        /\ "deposit_yt" \in b.vault.status
        /\ V!IsActive(t)
        /\ CanRead(t, s, b) /\ ~V!InEmergency(v)
        /\ amount <= robot.yt_balance
        /\ V!Fits(staged)
        /\ amount <= b.py_tokens.yt_wallets
        /\ c.sy_vault = b.sy_vault
        /\ c.vault = V!SetSyForPt(V!EarnAllVault(v, b.position[User]))
        /\ c.position = [b.position EXCEPT
               ![User]  = V!IncYtBalance(staged, amount),
               ![Robot] = V!DecYtBalance(robot, amount)]
        /\ c.py_tokens = [b.py_tokens EXCEPT !.yt_wallets = @ - amount,
                                             !.escrow_yt = @ + amount]

CollectInterestLeads(t, s, o, b, c) ==
    LET p == V!EarnAllPosition(b.vault, b.position[User])
        v == V!EarnAllVault(b.vault, b.position[User])
    IN  \E amount \in V!Claimable(b.position[User].interest.staged) :
        /\ User \in o
        /\ "collect_interest" \in b.vault.status
        /\ V!WithinClaimLimits(b.vault.claim_limits, amount, t)
        /\ V!CanEarn(b.vault)
        /\ amount <= b.sy_vault.sy_balance
        /\ V!CeilFee(amount, b.vault.interest_bps_fee) <= amount
        /\ amount <= v.total_sy_in_escrow
        /\ amount <= v.uncollected_sy
        /\ V!Fits(p)
        /\ c.sy_vault = [sy_balance |-> b.sy_vault.sy_balance - amount,
                         emissions  |-> Accrued(s, b)]
        /\ c.vault = [v EXCEPT
               !.claim_limits = V!CountClaim(@, amount, t),
               !.total_sy_in_escrow = @ - amount,
               !.uncollected_sy = @ - amount]
        /\ c.position = [b.position EXCEPT
               ![User] = [p EXCEPT !.interest = V!DecStaged(@, amount)]]
        /\ c.py_tokens = b.py_tokens

\* What others see of the vault is written only by these instructions.
VaultStays(b, c) ==
    /\ c.vault = b.vault /\ c.position = b.position
    /\ c.py_tokens = b.py_tokens /\ c.sy_vault = b.sy_vault

VaultLeads(t, s, o, b, c) ==
    \/ VaultStays(b, c)
    \/ \E amount \in Amounts : \/ StripLeads(t, s, b, c, amount)
                               \/ MergeLeads(t, s, b, c, amount)
                               \/ DepositYtLeads(t, s, o, b, c, amount)
    \/ CollectInterestLeads(t, s, o, b, c)

\* The books hold the accounts of the state.
LEMMA BooksFields ==
    /\ Books.vault = vault /\ Books.position = position
    /\ Books.py_tokens = py_tokens /\ Books.sy_vault = sy_vault
    /\ Books.market = market /\ Books.lp_tokens = lp_tokens
    /\ Books'.vault = vault' /\ Books'.position = position'
    /\ Books'.py_tokens = py_tokens' /\ Books'.sy_vault = sy_vault'
    /\ Books'.market = market' /\ Books'.lp_tokens = lp_tokens'
  BY DEF Books

\* What an instruction reads is what it would read from the books.
LEMMA ReadsBooks ==
    /\ Updated(now, sy, Books) = V!UpdatedVault
    /\ RobotEarned(now, sy, Books) = V!UpdatedRobot
    /\ CanRead(now, sy, Books)
         <=> V!CanUpdateYield(V!UpdatedVault, V!UpdatedRobot)
    /\ Accrued(sy, Books) = V!SyAccrued
  BY BooksFields
  DEF Updated, RobotEarned, CanRead, Read, V!UpdatedVault, V!UpdatedRobot,
      V!SeenVault, V!CanUpdateYield, V!CanUpdate, Accrued, V!SyAccrued

\* A step of the vault's leads from the books to the books.
LEMMA StripLogged ==
    ASSUME NEW amount, V!Strip(amount)
    PROVE  StripLeads(now, sy, Books, Books', amount)
  BY BooksFields, ReadsBooks, Zenon DEF V!Strip, StripLeads, V!DepositSy

LEMMA MergeLogged ==
    ASSUME NEW py, V!Merge(py)
    PROVE  MergeLeads(now, sy, Books, Books', py)
  BY BooksFields, ReadsBooks, Zenon
  DEF V!Merge, V!CanMerge, V!MergedSy, V!BurnedYt, MergeLeads, V!WithdrawSy

LEMMA DepositYtLogged ==
    ASSUME NEW amount, V!DepositYt(User, amount)
    PROVE  DepositYtLeads(now, sy, opened, Books, Books', amount)
  BY BooksFields, ReadsBooks, Zenon
  DEF V!DepositYt, V!StagedPosition, V!StagedVault, V!Realloc, Grown,
      DepositYtLeads, V!syVars

LEMMA CollectInterestLogged ==
    ASSUME V!CollectInterest(User)
    PROVE  CollectInterestLeads(now, sy, opened, Books, Books')
  BY BooksFields, ReadsBooks, Zenon
  DEF V!CollectInterest, V!WithdrawSy, CollectInterestLeads

-----------------------------------------------------------------------------
(* ... and that they are steps of the vault that others see.               *)

\* What is published is read by others the same way.
LEMMA SeenByOthers ==
    LET b == committed.books
    IN  /\ Updated(now, sy, b) = PV!UpdatedVault
        /\ RobotEarned(now, sy, b) = PV!UpdatedRobot
        /\ CanRead(now, sy, b)
             <=> PV!CanUpdateYield(PV!UpdatedVault, PV!UpdatedRobot)
  BY PublicUpdate, PublicEarning, PublicPosition, PublicVault
  DEF Updated, RobotEarned, CanRead, Read, PV!UpdatedVault, PV!UpdatedRobot,
      PV!SeenVault, PV!CanUpdateYield, PV!CanUpdate, V!Fits, PV!Fits

LEMMA AccruedByOthers == Accrued(sy, committed.books) = PV!SyAccrued
  <1> DEFINE D == DOMAIN sy.emission_indexes
             e == committed.books.sy_vault.emissions
             n == committed.books.sy_vault.sy_balance
             seen(i) == sy.emission_indexes[i]
             f == [i \in D |->
                     IF i \in DOMAIN e
                     THEN [amount_claimable |->
                             e[i].amount_claimable
                             + V!CalcShareValue(e[i].last_seen_emission_index,
                                                seen(i), n),
                           last_seen_emission_index |-> seen(i)]
                     ELSE [amount_claimable |-> 0,
                           last_seen_emission_index |-> seen(i)]]
             g == [i \in D |->
                     IF i \in DOMAIN e
                     THEN [amount_claimable |->
                             e[i].amount_claimable
                             + PV!CalcShareValue(e[i].last_seen_emission_index,
                                                 seen(i), n),
                           last_seen_emission_index |-> seen(i)]
                     ELSE [amount_claimable |-> 0,
                           last_seen_emission_index |-> seen(i)]]
  <1>1. \A i \in D : f[i] = g[i]
    BY PublicConversions
  <1>2. f = g
    BY <1>1
  <1> QED
    BY <1>2 DEF Accrued, PV!SyAccrued

\* The checks of an instruction do not depend on who looks.
LEMMA PublicChecks ==
    ASSUME NEW p, NEW n
    PROVE  /\ V!Fits(p) = PV!Fits(p)
           /\ V!IncYtBalance(p, n) = PV!IncYtBalance(p, n)
           /\ V!DecYtBalance(p, n) = PV!DecYtBalance(p, n)
           /\ V!DecStaged(p, n) = PV!DecStaged(p, n)
  BY DEF V!Fits, PV!Fits, V!IncYtBalance, PV!IncYtBalance, V!DecYtBalance,
         PV!DecYtBalance, V!DecStaged, PV!DecStaged

\* Published accounts that an instruction leads between are a step of it.
LEMMA StripPublished ==
    ASSUME NEW amount, UNCHANGED <<now, sy, opened>>,
           StripLeads(now, sy, committed.books, committed'.books, amount)
    PROVE  PV!Strip(amount)
  <1> DEFINE b == committed.books
             c == committed'.books
             v == PV!UpdatedVault
             robot == PV!UpdatedRobot
             py == PV!SyToPy(v.last_seen_sy_exchange_rate, amount)
             w == [v EXCEPT !.total_sy_in_escrow = @ + amount,
                            !.pt_supply = @ + py]
  <1>1. /\ Updated(now, sy, b) = v /\ RobotEarned(now, sy, b) = robot
        /\ CanRead(now, sy, b) <=> PV!CanUpdateYield(v, robot)
        /\ Accrued(sy, b) = PV!SyAccrued
        /\ V!SyToPy(v.last_seen_sy_exchange_rate, amount) = py
        /\ V!IsActive(now) = PV!IsActive(now)
        /\ V!InEmergency(v) = PV!InEmergency(v)
        /\ V!SetSyForPt(w) = PV!SetSyForPt(w)
        /\ V!IncYtBalance(robot, py) = PV!IncYtBalance(robot, py)
    BY SeenByOthers, AccruedByOthers, PublicChecks, PublicVault,
       PublicConversions
  <1>2. /\ "strip" \in b.vault.status
        /\ PV!IsActive(now)
        /\ amount >= b.vault.min_op_size_strip
        /\ b.vault.total_sy_in_escrow + amount <= MaxU64
        /\ PV!CanUpdateYield(v, robot) /\ ~PV!InEmergency(v)
        /\ b.vault.pt_supply + py <= b.vault.max_py_supply
        /\ c.sy_vault = [sy_balance |-> b.sy_vault.sy_balance + amount,
                         emissions  |-> PV!SyAccrued]
        /\ c.vault = PV!SetSyForPt(w)
        /\ c.position = [b.position EXCEPT
                           ![Robot] = PV!IncYtBalance(robot, py)]
        /\ c.py_tokens = [b.py_tokens EXCEPT !.mint_pt = @ + py,
                                             !.yt_wallets = @ + py]
    BY <1>1, Zenon DEF StripLeads
  <1> HIDE DEF w
  <1> QED
    BY <1>2, Zenon DEF PV!Strip, PV!DepositSy, w

LEMMA MergePublished ==
    ASSUME NEW py, UNCHANGED <<now, sy, opened>>,
           MergeLeads(now, sy, committed.books, committed'.books, py)
    PROVE  PV!Merge(py)
  <1> DEFINE b == committed.books
             c == committed'.books
             v == PV!UpdatedVault
             robot == PV!UpdatedRobot
             amount == PV!MergedSy(py, v)
             burned == PV!BurnedYt(py)
             w == [v EXCEPT !.total_sy_in_escrow = @ - amount,
                            !.pt_supply = @ - py]
  <1>1. /\ Updated(now, sy, b) = v /\ RobotEarned(now, sy, b) = robot
        /\ CanRead(now, sy, b) <=> PV!CanUpdateYield(v, robot)
        /\ Accrued(sy, b) = PV!SyAccrued
        /\ V!RedeemPt(py, v.sy_for_pt, v.pt_supply) = amount
        /\ (IF V!IsActive(now) THEN py ELSE 0) = burned
        /\ V!InEmergency(v) = PV!InEmergency(v)
        /\ V!SetSyForPt(w) = PV!SetSyForPt(w)
        /\ V!DecYtBalance(robot, burned) = PV!DecYtBalance(robot, burned)
    BY SeenByOthers, AccruedByOthers, PublicChecks, PublicVault,
       PublicConversions DEF PV!MergedSy, PV!BurnedYt
  <1> HIDE DEF amount, burned
  <1>2. /\ "merge" \in b.vault.status
        /\ py >= b.vault.min_op_size_merge
        /\ PV!CanUpdateYield(v, robot) /\ ~PV!InEmergency(v)
        /\ burned <= robot.yt_balance
        /\ amount <= v.total_sy_in_escrow /\ py <= v.pt_supply
        /\ amount <= b.sy_vault.sy_balance
        /\ py <= b.py_tokens.mint_pt /\ burned <= b.py_tokens.yt_wallets
        /\ c.sy_vault = [sy_balance |-> b.sy_vault.sy_balance - amount,
                         emissions  |-> PV!SyAccrued]
        /\ c.vault = PV!SetSyForPt(w)
        /\ c.position = [b.position EXCEPT
                           ![Robot] = PV!DecYtBalance(robot, burned)]
        /\ c.py_tokens = [b.py_tokens EXCEPT !.mint_pt = @ - py,
                                             !.yt_wallets = @ - burned]
    BY <1>1, Zenon DEF MergeLeads
  <1> HIDE DEF w
  <1> QED
    BY <1>2, Zenon DEF PV!Merge, PV!CanMerge, PV!WithdrawSy, w, amount, burned

LEMMA DepositYtPublished ==
    ASSUME NEW amount, UNCHANGED <<now, sy, opened>>,
           DepositYtLeads(now, sy, opened, committed.books, committed'.books,
                          amount)
    PROVE  PV!DepositYt(User, amount)
  <1> DEFINE b == committed.books
             c == committed'.books
             v == PV!UpdatedVault
             robot == PV!UpdatedRobot
             staged == PV!StagedPosition(v, User)
  <1>1. /\ Updated(now, sy, b) = v /\ RobotEarned(now, sy, b) = robot
        /\ CanRead(now, sy, b) <=> PV!CanUpdateYield(v, robot)
        /\ V!IsActive(now) = PV!IsActive(now)
        /\ V!InEmergency(v) = PV!InEmergency(v)
        /\ Grown(V!EarnAllPosition(v, b.position[User]), b) = staged
        /\ V!SetSyForPt(V!EarnAllVault(v, b.position[User]))
             = PV!StagedVault(v, User)
        /\ V!Fits(staged) = PV!Fits(staged)
        /\ V!IncYtBalance(staged, amount) = PV!IncYtBalance(staged, amount)
        /\ V!DecYtBalance(robot, amount) = PV!DecYtBalance(robot, amount)
    BY SeenByOthers, PublicChecks, PublicVault, PublicEarning, PublicPosition
       DEF PV!StagedPosition, PV!StagedVault, PV!Realloc, Grown
  <1> HIDE DEF staged
  <1>2. /\ User \in opened
        /\ "deposit_yt" \in b.vault.status
        /\ PV!IsActive(now)
        /\ PV!CanUpdateYield(v, robot) /\ ~PV!InEmergency(v)
        /\ amount <= robot.yt_balance
        /\ PV!Fits(staged)
        /\ amount <= b.py_tokens.yt_wallets
        /\ c.sy_vault = b.sy_vault
        /\ c.vault = PV!StagedVault(v, User)
        /\ c.position = [b.position EXCEPT
               ![User]  = PV!IncYtBalance(staged, amount),
               ![Robot] = PV!DecYtBalance(robot, amount)]
        /\ c.py_tokens = [b.py_tokens EXCEPT !.yt_wallets = @ - amount,
                                             !.escrow_yt = @ + amount]
    BY <1>1, Zenon DEF DepositYtLeads
  <1> QED
    BY <1>2, Zenon DEF PV!DepositYt, PV!syVars, staged

LEMMA CollectInterestPublished ==
    ASSUME UNCHANGED <<now, sy, opened>>,
           CollectInterestLeads(now, sy, opened, committed.books,
                                committed'.books)
    PROVE  PV!CollectInterest(User)
  <1> DEFINE b == committed.books
             c == committed'.books
             p == PV!EarnAllPosition(b.vault, b.position[User])
             v == PV!EarnAllVault(b.vault, b.position[User])
  <1>1. /\ V!EarnAllPosition(b.vault, b.position[User]) = p
        /\ V!EarnAllVault(b.vault, b.position[User]) = v
        /\ Accrued(sy, b) = PV!SyAccrued
        /\ V!CanEarn(b.vault) = PV!CanEarn(b.vault)
        /\ V!Fits(p) = PV!Fits(p)
    BY AccruedByOthers, PublicChecks, PublicVault, PublicEarning, PublicPosition
  <1>2. PICK amount \in V!Claimable(b.position[User].interest.staged) :
        /\ User \in opened
        /\ "collect_interest" \in b.vault.status
        /\ V!WithinClaimLimits(b.vault.claim_limits, amount, now)
        /\ V!CanEarn(b.vault)
        /\ amount <= b.sy_vault.sy_balance
        /\ V!CeilFee(amount, b.vault.interest_bps_fee) <= amount
        /\ amount <= v.total_sy_in_escrow
        /\ amount <= v.uncollected_sy
        /\ V!Fits(p)
        /\ c.sy_vault = [sy_balance |-> b.sy_vault.sy_balance - amount,
                         emissions  |-> PV!SyAccrued]
        /\ c.vault = [v EXCEPT
               !.claim_limits = V!CountClaim(v.claim_limits, amount, now),
               !.total_sy_in_escrow = @ - amount,
               !.uncollected_sy = @ - amount]
        /\ c.position = [b.position EXCEPT
               ![User]
                     = [p EXCEPT !.interest = V!DecStaged(p.interest, amount)]]
        /\ c.py_tokens = b.py_tokens
    BY <1>1, Zenon DEF CollectInterestLeads
  <1> HIDE DEF p, v
  <1>3. /\ amount \in PV!Claimable(b.position[User].interest.staged)
        /\ PV!WithinClaimLimits(b.vault.claim_limits, amount, now)
        /\ PV!CanEarn(b.vault)
        /\ PV!CeilFee(amount, b.vault.interest_bps_fee) <= amount
        /\ PV!Fits(p)
    <2>1. V!Claimable(b.position[User].interest.staged)
            = PV!Claimable(b.position[User].interest.staged)
      BY PublicClaims
    <2>2. V!WithinClaimLimits(b.vault.claim_limits, amount, now)
            = PV!WithinClaimLimits(b.vault.claim_limits, amount, now)
      BY PublicClaims
    <2>3. V!CeilFee(amount, b.vault.interest_bps_fee)
            = PV!CeilFee(amount, b.vault.interest_bps_fee)
      BY PublicRounding
    <2> QED
      BY <1>1, <1>2, <2>1, <2>2, <2>3, Zenon
  <1>4. /\ V!CountClaim(v.claim_limits, amount, now)
             = PV!CountClaim(v.claim_limits, amount, now)
        /\ V!DecStaged(p.interest, amount) = PV!DecStaged(p.interest, amount)
    BY PublicClaims, PublicChecks
  <1>5. /\ c.vault = [v EXCEPT
              !.claim_limits = PV!CountClaim(v.claim_limits, amount, now),
              !.total_sy_in_escrow = @ - amount,
              !.uncollected_sy = @ - amount]
        /\ c.position = [b.position EXCEPT
              ![User] = [p EXCEPT
                           !.interest = PV!DecStaged(p.interest, amount)]]
    BY <1>2, <1>4, Zenon
  <1> QED
    BY <1>2, <1>3, <1>5, Zenon DEF PV!CollectInterest, PV!WithdrawSy, p, v

-----------------------------------------------------------------------------
(* The same of the market's pool.                                          *)

\* The pool of the books b, at the time t and with the state s of the SY
\* program.
BP(time, state, b) == INSTANCE Market WITH
        ExpirationTs <- Duration, InitialBps <- TreasuryFeeBps,
        DepositAmounts <- Amounts \cup {MaxU64}, TradeAmounts <- Amounts,
        LpAmounts <- Amounts, YtAmounts <- Amounts, SyAmounts <- Amounts,
        StatusChoices <- {}, MaxLpChoices <- {}, BpsChoices <- {},
        LimitChoices <- {},
        now <- time, rate <- state.exchange_rate,
        market <- b.market, tokens <- b.lp_tokens

\* The account of a market as the pool's own instructions leave it.
Public(m) ==
    [f \in DOMAIN m \ {"lp_escrow_amount"} |->
        IF f = "is_current_flash_swap" THEN FALSE ELSE m[f]]

\* The pool's part of the account, and what changing an account does to it.
LEMMA PublicFields ==
    ASSUME NEW m \in MarketAccount
    PROVE  /\ Public(m).pt_balance = m.pt_balance
           /\ Public(m).sy_balance = m.sy_balance
           /\ Public(m).status_flags = m.status_flags
           /\ Public(m).fee_treasury_sy_bps = m.fee_treasury_sy_bps
           /\ Public(m).max_lp_supply = m.max_lp_supply
           /\ Public(m).is_current_flash_swap = FALSE
           /\ Public(m).limits = m.limits
  BY DEF Public, MarketAccount

LEMMA PublicBalances ==
    ASSUME NEW m \in MarketAccount, NEW p, NEW n
    PROVE  /\ Public(WithBalances(m, p, n)) = WithBalances(Public(m), p, n)
           /\ WithFlag(WithBalances(WithFlag(Public(m), TRUE), p, n), FALSE)
                = Public(WithBalances(m, p, n))
  BY DEF Public, WithBalances, WithFlag, MarketAccount

LEMMA PublicWindow ==
    ASSUME NEW m \in MarketAccount, NEW p, NEW n, NEW l
    PROVE  Public(WithWindow(m, p, n, l)) = WithWindow(Public(m), p, n, l)
  BY DEF Public, WithWindow, MarketAccount

LEMMA PublicOnly ==
    ASSUME NEW m \in MarketAccount, NEW x
    PROVE  /\ Public(WithFlag(m, x)) = Public(m)
           /\ Public(WithStake(m, x)) = Public(m)
  BY DEF Public, WithFlag, WithStake, MarketAccount

\* The formulas of the pool, taken from the books, are those of the state.
LEMMA BooksPoolFields ==
    /\ Books.market = market /\ Books.lp_tokens = lp_tokens
    /\ Books'.market = market' /\ Books'.lp_tokens = lp_tokens'
  BY DEF Books

LEMMA BooksPool ==
    ASSUME NEW a, NEW b
    PROVE  /\ M!LpShare(a, b) = BP(now, sy, Books)!LpShare(a, b)
           /\ M!CurrentWindow(a) = BP(now, sy, Books)!CurrentWindow(a)
           /\ M!VerifyLimits(a) = BP(now, sy, Books)!VerifyLimits(a)
           /\ M!CheckSupplyLp(a) = BP(now, sy, Books)!CheckSupplyLp(a)
           /\ M!Allowed(a) = BP(now, sy, Books)!Allowed(a)
           /\ M!IsActive = BP(now, sy, Books)!IsActive
           /\ M!AddLiquidity(a, b) = BP(now, sy, Books)!AddLiquidity(a, b)
  <1>1. \A n : M!CurrentWindow(n) = BP(now, sy, Books)!CurrentWindow(n)
    BY BooksPoolFields DEF M!CurrentWindow, BP!CurrentWindow
  <1>2. \A change, start :
           M!ChangeBps(change, start)
                 = BP(now, sy, Books)!ChangeBps(change, start)
    BY DEF M!ChangeBps, BP!ChangeBps, M!CeilDiv, BP!CeilDiv
  <1>3. \A l, n : M!WithinLimits(l, n) = BP(now, sy, Books)!WithinLimits(l, n)
    BY <1>2 DEF M!WithinLimits, BP!WithinLimits
  <1>4. M!VerifyLimits(a) = BP(now, sy, Books)!VerifyLimits(a)
    BY <1>1, <1>3, BooksPoolFields, Zenon DEF M!VerifyLimits, BP!VerifyLimits
  <1>5. M!AddLiquidity(a, b) = BP(now, sy, Books)!AddLiquidity(a, b)
    BY BooksPoolFields, Zenon DEF M!AddLiquidity, BP!AddLiquidity
  <1>6. /\ M!LpShare(a, b) = BP(now, sy, Books)!LpShare(a, b)
        /\ M!CheckSupplyLp(a) = BP(now, sy, Books)!CheckSupplyLp(a)
        /\ M!Allowed(a) = BP(now, sy, Books)!Allowed(a)
        /\ M!IsActive = BP(now, sy, Books)!IsActive
    BY BooksPoolFields, Zenon DEF M!LpShare, BP!LpShare, M!CheckSupplyLp,
       BP!CheckSupplyLp, M!Allowed, BP!Allowed, M!IsActive, BP!IsActive
  <1> QED
    BY <1>1, <1>4, <1>5, <1>6

LEMMA BooksPrices ==
    ASSUME NEW x
    PROVE  /\ M!PreFeeAsset(x) = BP(now, sy, Books)!PreFeeAsset(x)
           /\ M!AssetFee(x) = BP(now, sy, Books)!AssetFee(x)
           /\ M!NetTraderSy(x) = BP(now, sy, Books)!NetTraderSy(x)
           /\ M!TreasuryFee(x) = BP(now, sy, Books)!TreasuryFee(x)
           /\ \A r, a : /\ M!PyToSy(r, a) = BP(now, sy, Books)!PyToSy(r, a)
                        /\ M!PyToSyCeil(r, a)
                             = BP(now, sy, Books)!PyToSyCeil(r, a)
                        /\ M!SyToPy(r, a) = BP(now, sy, Books)!SyToPy(r, a)
  <1>1. /\ M!Whole(x) = BP(now, sy, Books)!Whole(x)
        /\ M!PreFeeAsset(x) = BP(now, sy, Books)!PreFeeAsset(x)
        /\ M!AssetFee(x) = BP(now, sy, Books)!AssetFee(x)
    BY Zenon DEF M!Whole, BP!Whole, M!PreFeeAsset, BP!PreFeeAsset,
       M!AssetFee, BP!AssetFee
  <1>2. M!NetTraderAsset(x) = BP(now, sy, Books)!NetTraderAsset(x)
    BY <1>1 DEF M!NetTraderAsset, BP!NetTraderAsset, M!CeilDiv, BP!CeilDiv
  <1>7. \A p, a : M!SyToPy(p, a) = BP(now, sy, Books)!SyToPy(p, a)
    BY DEF M!SyToPy, BP!SyToPy, M!NumMul, BP!NumMul, M!Floor, BP!Floor,
       M!FromNatural, BP!FromNatural, M!RoundingCorrection,
       BP!RoundingCorrection
  <1>3. \A p, a : /\ M!PyToSy(p, a) = BP(now, sy, Books)!PyToSy(p, a)
                  /\ M!PyToSyCeil(p, a) = BP(now, sy, Books)!PyToSyCeil(p, a)
    BY DEF M!PyToSy, BP!PyToSy, M!PyToSyCeil, BP!PyToSyCeil, M!NumDiv,
       BP!NumDiv, M!Floor, BP!Floor, M!FromNatural, BP!FromNatural,
       M!CeilDiv, BP!CeilDiv, M!RoundingCorrection, BP!RoundingCorrection
  <1>4. M!NetTraderSy(x) = BP(now, sy, Books)!NetTraderSy(x)
    BY <1>2, <1>3 DEF M!NetTraderSy, BP!NetTraderSy, rate
  <1>5. M!SyFee(x) = BP(now, sy, Books)!SyFee(x)
    BY <1>1 DEF M!SyFee, BP!SyFee, rate
  <1>6. M!TreasuryFee(x) = BP(now, sy, Books)!TreasuryFee(x)
    BY <1>5, BooksPoolFields DEF M!TreasuryFee, BP!TreasuryFee
  <1> QED
    BY <1>1, <1>3, <1>4, <1>6, <1>7

LEMMA BooksTrade ==
    ASSUME NEW x
    PROVE  /\ M!CanTrade(x) = BP(now, sy, Books)!CanTrade(x)
           /\ \A k : /\ M!CanTransfer(k, x)
                          = BP(now, sy, Books)!CanTransfer(k, x)
                     /\ M!Transferred(k, x)
                          = BP(now, sy, Books)!Transferred(k, x)
           /\ \A m : /\ M!Traded(m, x) = BP(now, sy, Books)!Traded(m, x)
                     /\ M!AfterFlashSwap(m, x)
                          = BP(now, sy, Books)!AfterFlashSwap(m, x)
  <1>1. \A p, a : M!SyToPy(p, a) = BP(now, sy, Books)!SyToPy(p, a)
    BY BooksPrices
  <1>2. M!CurveAccepts(x) = BP(now, sy, Books)!CurveAccepts(x)
    BY <1>1, BooksPoolFields, Zenon DEF M!CurveAccepts, BP!CurveAccepts, rate
  <1>3. M!CanTrade(x) = BP(now, sy, Books)!CanTrade(x)
    <2>1. /\ M!Allowed("buy_pt") = BP(now, sy, Books)!Allowed("buy_pt")
          /\ M!Allowed("sell_pt") = BP(now, sy, Books)!Allowed("sell_pt")
          /\ M!IsActive = BP(now, sy, Books)!IsActive
      BY BooksPool
    <2>2. /\ M!PreFeeAsset(x) = BP(now, sy, Books)!PreFeeAsset(x)
          /\ M!AssetFee(x) = BP(now, sy, Books)!AssetFee(x)
          /\ M!NetTraderSy(x) = BP(now, sy, Books)!NetTraderSy(x)
          /\ M!TreasuryFee(x) = BP(now, sy, Books)!TreasuryFee(x)
      BY BooksPrices
    <2> QED
      BY <1>2, <2>1, <2>2, BooksPoolFields DEF M!CanTrade, BP!CanTrade
  <1>4. \A m : M!Traded(m, x) = BP(now, sy, Books)!Traded(m, x)
    BY BooksPrices, Zenon DEF M!Traded, BP!Traded
  <1>5. \A m : M!AfterFlashSwap(m, x) = BP(now, sy, Books)!AfterFlashSwap(m, x)
    BY <1>4, Zenon DEF M!AfterFlashSwap, BP!AfterFlashSwap
  <1>6. \A k : /\ M!CanTransfer(k, x) = BP(now, sy, Books)!CanTransfer(k, x)
               /\ M!Transferred(k, x) = BP(now, sy, Books)!Transferred(k, x)
    BY BooksPrices, Zenon DEF M!CanTransfer, BP!CanTransfer, M!Transferred,
       BP!Transferred
  <1> QED
    BY <1>3, <1>4, <1>5, <1>6

\* They are those of the pool that others see, too.
LEMMA PublicPoolFields ==
    ASSUME committed.books.market \in MarketAccount
    PROVE  LET m == committed.books.market
               q == [f \in DOMAIN committed.books.market \ {"lp_escrow_amount"} |->
                        IF f = "is_current_flash_swap" THEN FALSE
                        ELSE committed.books.market[f]]
           IN  /\ q.pt_balance = m.pt_balance /\ q.sy_balance = m.sy_balance
               /\ q.status_flags = m.status_flags
               /\ q.fee_treasury_sy_bps = m.fee_treasury_sy_bps
               /\ q.max_lp_supply = m.max_lp_supply
               /\ q.is_current_flash_swap = FALSE /\ q.limits = m.limits
               /\ q = Public(m)
  BY PublicFields, Zenon DEF Public

LEMMA PublicPool ==
    ASSUME NEW a, NEW b,
           committed.books.market \in MarketAccount
    PROVE  /\ PM!LpShare(a, b) = BP(now, sy, committed.books)!LpShare(a, b)
           /\ PM!CurrentWindow(a) = BP(now, sy, committed.books)!CurrentWindow(a)
           /\ PM!VerifyLimits(a) = BP(now, sy, committed.books)!VerifyLimits(a)
           /\ PM!CheckSupplyLp(a) = BP(now, sy, committed.books)!CheckSupplyLp(a)
           /\ PM!Allowed(a) = BP(now, sy, committed.books)!Allowed(a)
           /\ PM!IsActive = BP(now, sy, committed.books)!IsActive
           /\ PM!AddLiquidity(a, b)
                = BP(now, sy, committed.books)!AddLiquidity(a, b)
  <1>1. \A n : PM!CurrentWindow(n)
        = BP(now, sy, committed.books)!CurrentWindow(n)
    <2> DEFINE q == [f \in DOMAIN committed.books.market \ {"lp_escrow_amount"} |->
                        IF f = "is_current_flash_swap" THEN FALSE
                        ELSE committed.books.market[f]]
               W(l, t, n) ==
                   IF t > l.window_start_timestamp + l.duration
                   THEN [l EXCEPT !.window_start_timestamp = t,
                                  !.window_start_net_balance = n]
                   ELSE l
    <2>1. \A n : PM!CurrentWindow(n) = W(q.limits, now, n)
      BY Zenon DEF PM!CurrentWindow
    <2>2. \A n : BP(now, sy, committed.books)!CurrentWindow(n)
                  = W(committed.books.market.limits, now, n)
      BY Zenon DEF BP!CurrentWindow
    <2>3. q.limits = committed.books.market.limits
      BY PublicPoolFields
    <2> HIDE DEF q, W
    <2> QED
      BY <2>1, <2>2, <2>3, Zenon
  <1>2. \A change, start :
           PM!ChangeBps(change, start)
                 = BP(now, sy, committed.books)!ChangeBps(change, start)
    BY DEF PM!ChangeBps, BP!ChangeBps, PM!CeilDiv, BP!CeilDiv
  <1>3. \A l, n : PM!WithinLimits(l, n)
        = BP(now, sy, committed.books)!WithinLimits(l, n)
    BY <1>2 DEF PM!WithinLimits, BP!WithinLimits
  <1>4. PM!VerifyLimits(a) = BP(now, sy, committed.books)!VerifyLimits(a)
    BY <1>1, <1>3, PublicPoolFields, Zenon DEF PM!VerifyLimits, BP!VerifyLimits
  <1>5. PM!AddLiquidity(a, b) = BP(now, sy, committed.books)!AddLiquidity(a, b)
    BY PublicPoolFields, Zenon DEF PM!AddLiquidity, BP!AddLiquidity
  <1>6. /\ PM!LpShare(a, b) = BP(now, sy, committed.books)!LpShare(a, b)
        /\ PM!CheckSupplyLp(a) = BP(now, sy, committed.books)!CheckSupplyLp(a)
        /\ PM!Allowed(a) = BP(now, sy, committed.books)!Allowed(a)
        /\ PM!IsActive = BP(now, sy, committed.books)!IsActive
    BY PublicPoolFields, Zenon DEF PM!LpShare, BP!LpShare, PM!CheckSupplyLp,
       BP!CheckSupplyLp, PM!Allowed, BP!Allowed, PM!IsActive, BP!IsActive
  <1> QED
    BY <1>1, <1>4, <1>5, <1>6

LEMMA PublicPrices ==
    ASSUME NEW x,
           committed.books.market \in MarketAccount
    PROVE  /\ PM!PreFeeAsset(x) = BP(now, sy, committed.books)!PreFeeAsset(x)
           /\ PM!AssetFee(x) = BP(now, sy, committed.books)!AssetFee(x)
           /\ PM!NetTraderSy(x) = BP(now, sy, committed.books)!NetTraderSy(x)
           /\ PM!TreasuryFee(x) = BP(now, sy, committed.books)!TreasuryFee(x)
           /\ \A r, a : /\ PM!PyToSy(r, a)
                             = BP(now, sy, committed.books)!PyToSy(r, a)
                        /\ PM!PyToSyCeil(r, a)
                             = BP(now, sy, committed.books)!PyToSyCeil(r, a)
                        /\ PM!SyToPy(r, a)
                             = BP(now, sy, committed.books)!SyToPy(r, a)
  <1>1. /\ PM!Whole(x) = BP(now, sy, committed.books)!Whole(x)
        /\ PM!PreFeeAsset(x) = BP(now, sy, committed.books)!PreFeeAsset(x)
        /\ PM!AssetFee(x) = BP(now, sy, committed.books)!AssetFee(x)
    BY Zenon DEF PM!Whole, BP!Whole, PM!PreFeeAsset, BP!PreFeeAsset,
       PM!AssetFee, BP!AssetFee
  <1>2. PM!NetTraderAsset(x) = BP(now, sy, committed.books)!NetTraderAsset(x)
    BY <1>1 DEF PM!NetTraderAsset, BP!NetTraderAsset, PM!CeilDiv, BP!CeilDiv
  <1>7. \A p, a : PM!SyToPy(p, a) = BP(now, sy, committed.books)!SyToPy(p, a)
    BY DEF PM!SyToPy, BP!SyToPy, PM!NumMul, BP!NumMul, PM!Floor, BP!Floor,
       PM!FromNatural, BP!FromNatural, PM!RoundingCorrection,
       BP!RoundingCorrection
  <1>3. \A p, a : /\ PM!PyToSy(p, a) = BP(now, sy, committed.books)!PyToSy(p, a)
                  /\ PM!PyToSyCeil(p, a)
                       = BP(now, sy, committed.books)!PyToSyCeil(p, a)
    BY DEF PM!PyToSy, BP!PyToSy, PM!PyToSyCeil, BP!PyToSyCeil, PM!NumDiv,
       BP!NumDiv, PM!Floor, BP!Floor, PM!FromNatural, BP!FromNatural,
       PM!CeilDiv, BP!CeilDiv, PM!RoundingCorrection, BP!RoundingCorrection
  <1>4. PM!NetTraderSy(x) = BP(now, sy, committed.books)!NetTraderSy(x)
    BY <1>2, <1>3 DEF PM!NetTraderSy, BP!NetTraderSy, rate
  <1>5. PM!SyFee(x) = BP(now, sy, committed.books)!SyFee(x)
    BY <1>1 DEF PM!SyFee, BP!SyFee, rate
  <1>6. PM!TreasuryFee(x) = BP(now, sy, committed.books)!TreasuryFee(x)
    BY <1>5, PublicPoolFields, Zenon DEF PM!TreasuryFee, BP!TreasuryFee
  <1> QED
    BY <1>1, <1>3, <1>4, <1>6, <1>7

LEMMA PublicTrade ==
    ASSUME NEW x,
           committed.books.market \in MarketAccount
    PROVE  /\ PM!CanTrade(x) = BP(now, sy, committed.books)!CanTrade(x)
           /\ \A k : /\ PM!CanTransfer(k, x)
                          = BP(now, sy, committed.books)!CanTransfer(k, x)
                     /\ PM!Transferred(k, x)
                          = BP(now, sy, committed.books)!Transferred(k, x)
           /\ \A m : /\ PM!Traded(m, x)
                          = BP(now, sy, committed.books)!Traded(m, x)
                     /\ PM!AfterFlashSwap(m, x)
                          = BP(now, sy, committed.books)!AfterFlashSwap(m, x)
  <1>1. \A p, a : PM!SyToPy(p, a) = BP(now, sy, committed.books)!SyToPy(p, a)
    BY PublicPrices
  <1>2. PM!CurveAccepts(x) = BP(now, sy, committed.books)!CurveAccepts(x)
    BY <1>1, PublicPoolFields, Zenon DEF PM!CurveAccepts, BP!CurveAccepts, rate
  <1>3. PM!CanTrade(x) = BP(now, sy, committed.books)!CanTrade(x)
    <2>1. /\ PM!Allowed("buy_pt") = BP(now, sy, committed.books)!Allowed("buy_pt")
          /\ PM!Allowed("sell_pt") = BP(now, sy, committed.books)!Allowed("sell_pt")
          /\ PM!IsActive = BP(now, sy, committed.books)!IsActive
      BY PublicPool
    <2>2. /\ PM!PreFeeAsset(x) = BP(now, sy, committed.books)!PreFeeAsset(x)
          /\ PM!AssetFee(x) = BP(now, sy, committed.books)!AssetFee(x)
          /\ PM!NetTraderSy(x) = BP(now, sy, committed.books)!NetTraderSy(x)
          /\ PM!TreasuryFee(x) = BP(now, sy, committed.books)!TreasuryFee(x)
      BY PublicPrices
    <2> QED
      BY <1>2, <2>1, <2>2, PublicPoolFields DEF PM!CanTrade, BP!CanTrade
  <1>4. \A m : PM!Traded(m, x) = BP(now, sy, committed.books)!Traded(m, x)
    BY PublicPrices, Zenon DEF PM!Traded, BP!Traded
  <1>5. \A m : PM!AfterFlashSwap(m, x)
        = BP(now, sy, committed.books)!AfterFlashSwap(m, x)
    BY <1>4, Zenon DEF PM!AfterFlashSwap, BP!AfterFlashSwap
  <1>6. \A k : /\ PM!CanTransfer(k, x)
                    = BP(now, sy, committed.books)!CanTransfer(k, x)
               /\ PM!Transferred(k, x)
                    = BP(now, sy, committed.books)!Transferred(k, x)
    BY PublicPrices, Zenon DEF PM!CanTransfer, BP!CanTransfer, PM!Transferred,
       BP!Transferred
  <1> QED
    BY <1>3, <1>4, <1>5, <1>6

\* The bound of the model on what a pool holds.
Within(c) ==
    /\ c.market.pt_balance <= MaxBalance
    /\ c.market.sy_balance <= MaxBalance
    /\ c.lp_tokens.sy_position <= MaxBalance

\* The instructions of the pool, from b to c.
DepositLiquidityLeads(t, s, b, c, pt, amount) ==
    LET r      == BP(t, s, b)!AddLiquidity(pt, amount)
        supply == b.lp_tokens.mint_lp + r.lp_out
    IN  /\ BP(t, s, b)!IsActive /\ BP(t, s, b)!Allowed("deposit")
        /\ BP(t, s, b)!VerifyLimits(supply)
        /\ BP(t, s, b)!CheckSupplyLp(supply)
        /\ c.market = WithWindow(b.market, b.market.pt_balance + r.pt_in,
                                 b.market.sy_balance + r.sy_in,
                                 BP(t, s, b)!CurrentWindow(b.lp_tokens.mint_lp))
        /\ c.lp_tokens = [mint_lp     |-> supply,
                          pt_escrow   |-> b.lp_tokens.pt_escrow + r.pt_in,
                          sy_position |-> b.lp_tokens.sy_position + r.sy_in]
        /\ Within(c)

WithdrawLiquidityLeads(t, s, b, c, lp) ==
    LET pt_out == BP(t, s, b)!LpShare(b.market.pt_balance, lp)
        sy_out == BP(t, s, b)!LpShare(b.market.sy_balance, lp)
        supply == b.lp_tokens.mint_lp - lp
    IN  /\ BP(t, s, b)!Allowed("withdraw")
        /\ lp <= b.lp_tokens.mint_lp
        /\ BP(t, s, b)!VerifyLimits(supply)
        /\ pt_out <= b.lp_tokens.pt_escrow
        /\ sy_out <= b.lp_tokens.sy_position
        /\ c.market = WithWindow(b.market, b.market.pt_balance - pt_out,
                                 b.market.sy_balance - sy_out,
                                 BP(t, s, b)!CurrentWindow(b.lp_tokens.mint_lp))
        /\ c.lp_tokens = [mint_lp     |-> supply,
                          pt_escrow   |-> b.lp_tokens.pt_escrow - pt_out,
                          sy_position |-> b.lp_tokens.sy_position - sy_out]

TradePtLeads(t, s, b, c, x) ==
    /\ BP(t, s, b)!CanTrade(x) /\ BP(t, s, b)!CanTransfer(b.lp_tokens, x)
    /\ c.market = BP(t, s, b)!Traded(b.market, x)
    /\ c.lp_tokens = BP(t, s, b)!Transferred(b.lp_tokens, x)
    /\ Within(c)

BuyYtLeads(t, s, b, c, sy_in, yt_out, er, fr) ==
    LET to_strip  == BP(t, s, b)!PyToSyCeil(s.exchange_rate, yt_out)
        to_borrow == to_strip - sy_in
        x         == [is_buy |-> FALSE,
                      pt |-> BP(t, s, b)!SyToPy(s.exchange_rate, to_strip),
                      er |-> er, fr |-> fr, flash |-> TRUE]
        lent      == [b.lp_tokens EXCEPT !.sy_position = @ - to_borrow]
        sold      == BP(t, s, b)!Transferred(lent, x)
        net       == BP(t, s, b)!NetTraderSy(x)
    IN  /\ BP(t, s, b)!Allowed("buy_yt")
        /\ to_strip > sy_in /\ to_borrow < to_strip
        /\ to_borrow <= b.lp_tokens.sy_position
        /\ BP(t, s, b)!CanTrade(x) /\ BP(t, s, b)!CanTransfer(lent, x)
        /\ net >= to_borrow
        /\ c.market = BP(t, s, b)!AfterFlashSwap(b.market, x)
        /\ c.lp_tokens = [sold EXCEPT !.sy_position = @ + net]
        /\ Within(c)

SellYtLeads(t, s, b, c, yt_in, er, fr) ==
    LET recv   == BP(t, s, b)!PyToSy(s.exchange_rate, yt_in)
        x      == [is_buy |-> TRUE, pt |-> yt_in, er |-> er, fr |-> fr,
                   flash |-> TRUE]
        lent   == [b.lp_tokens EXCEPT !.pt_escrow = @ - yt_in]
        bought == BP(t, s, b)!Transferred(lent, x)
    IN  /\ BP(t, s, b)!Allowed("sell_yt")
        /\ b.market.pt_balance >= yt_in * 2
        /\ yt_in <= b.lp_tokens.pt_escrow
        /\ BP(t, s, b)!CanTrade(x) /\ BP(t, s, b)!CanTransfer(lent, x)
        /\ BP(t, s, b)!NetTraderSy(x) <= recv
        /\ c.market = BP(t, s, b)!AfterFlashSwap(b.market, x)
        /\ c.lp_tokens = [bought EXCEPT !.pt_escrow = @ + yt_in]
        /\ Within(c)

\* What others see of the pool is written only by these instructions.
PoolStays(b, c) ==
    Public(c.market) = Public(b.market) /\ c.lp_tokens = b.lp_tokens

PoolLeads(t, s, b, c) ==
    \/ PoolStays(b, c)
    \/ \E pt, amount \in Amounts \cup {MaxU64} :
          DepositLiquidityLeads(t, s, b, c, pt, amount)
    \/ \E lp \in Amounts : WithdrawLiquidityLeads(t, s, b, c, lp)
    \/ \E er \in ExchangeRates, fr \in FeeRates :
        \/ \E is_buy \in BOOLEAN, pt \in Amounts : \E flash \in {FALSE, is_buy} :
              TradePtLeads(t, s, b, c, [is_buy |-> is_buy, pt |-> pt, er |-> er,
                                        fr |-> fr, flash |-> flash])
        \/ \E sy_in, yt_out \in Amounts :
              BuyYtLeads(t, s, b, c, sy_in, yt_out, er, fr)
        \/ \E yt_in \in Amounts : SellYtLeads(t, s, b, c, yt_in, er, fr)

\* A step of the pool's leads from the books to the books.
LEMMA DepositLiquidityLogged ==
    ASSUME NEW pt, NEW amount, M!DepositLiquidity(pt, amount), M!Bounded
    PROVE  DepositLiquidityLeads(now, sy, Books, Books', pt, amount)
  <1>1. /\ M!AddLiquidity(pt, amount)
             = BP(now, sy, Books)!AddLiquidity(pt, amount)
        /\ \A n : /\ M!VerifyLimits(n) = BP(now, sy, Books)!VerifyLimits(n)
                  /\ M!CheckSupplyLp(n) = BP(now, sy, Books)!CheckSupplyLp(n)
                  /\ M!CurrentWindow(n) = BP(now, sy, Books)!CurrentWindow(n)
                  /\ M!Allowed(n) = BP(now, sy, Books)!Allowed(n)
        /\ M!IsActive = BP(now, sy, Books)!IsActive
    BY BooksPool
  <1> QED
    BY <1>1, BooksPoolFields, Zenon
    DEF M!DepositLiquidity, M!Bounded, DepositLiquidityLeads, Within, WithWindow

LEMMA WithdrawLiquidityLogged ==
    ASSUME NEW lp, M!WithdrawLiquidity(lp)
    PROVE  WithdrawLiquidityLeads(now, sy, Books, Books', lp)
  <1> DEFINE b == Books
             c == Books'
             pt == BP(now, sy, Books)!LpShare(market.pt_balance, lp)
             out == BP(now, sy, Books)!LpShare(market.sy_balance, lp)
             window == BP(now, sy, Books)!CurrentWindow(lp_tokens.mint_lp)
  <1>1. /\ M!VerifyLimits(lp_tokens.mint_lp - lp)
             = BP(now, sy, Books)!VerifyLimits(lp_tokens.mint_lp - lp)
        /\ M!CurrentWindow(lp_tokens.mint_lp) = window
        /\ M!Allowed("withdraw") = BP(now, sy, Books)!Allowed("withdraw")
        /\ M!LpShare(market.pt_balance, lp) = pt
        /\ M!LpShare(market.sy_balance, lp) = out
    BY BooksPool
  <1> HIDE DEF pt, out, window
  <1>2. /\ BP(now, sy, Books)!Allowed("withdraw")
        /\ lp <= lp_tokens.mint_lp
        /\ BP(now, sy, Books)!VerifyLimits(lp_tokens.mint_lp - lp)
        /\ pt <= lp_tokens.pt_escrow /\ out <= lp_tokens.sy_position
        /\ market' = WithWindow(market, market.pt_balance - pt,
                                market.sy_balance - out, window)
        /\ lp_tokens' = [mint_lp     |-> lp_tokens.mint_lp - lp,
                         pt_escrow   |-> lp_tokens.pt_escrow - pt,
                         sy_position |-> lp_tokens.sy_position - out]
    BY <1>1, Zenon DEF M!WithdrawLiquidity, WithWindow
  <1>3. /\ b.market = market /\ b.lp_tokens = lp_tokens
        /\ c.market = market' /\ c.lp_tokens = lp_tokens'
    BY BooksPoolFields
  <1> HIDE DEF b, c
  <1> QED
    BY <1>2, <1>3, Zenon DEF WithdrawLiquidityLeads, pt, out, window, b, c

LEMMA TradePtLogged ==
    ASSUME NEW x, M!TradePt(x), M!Bounded
    PROVE  TradePtLeads(now, sy, Books, Books', x)
  BY BooksTrade, BooksPoolFields, Zenon
  DEF M!TradePt, M!Bounded, TradePtLeads, Within

LEMMA BuyYtLogged ==
    ASSUME NEW sy_in, NEW yt_out, NEW er, NEW fr,
           M!BuyYt(sy_in, yt_out, er, fr), M!Bounded
    PROVE  BuyYtLeads(now, sy, Books, Books', sy_in, yt_out, er, fr)
  <1> DEFINE to_strip == M!PyToSyCeil(rate, yt_out)
             x == M!FlashTrade(FALSE, M!SyToPy(rate, to_strip), er, fr)
  <1>1. /\ to_strip = BP(now, sy, Books)!PyToSyCeil(sy.exchange_rate, yt_out)
        /\ x = [is_buy |-> FALSE,
                pt |-> BP(now, sy, Books)!SyToPy(sy.exchange_rate, to_strip),
                er |-> er, fr |-> fr, flash |-> TRUE]
        /\ M!NetTraderSy(x) = BP(now, sy, Books)!NetTraderSy(x)
        /\ M!Allowed("buy_yt") = BP(now, sy, Books)!Allowed("buy_yt")
    BY BooksPrices, BooksPool DEF M!FlashTrade, rate
  <1>2. /\ M!CanTrade(x) = BP(now, sy, Books)!CanTrade(x)
        /\ \A k : /\ M!CanTransfer(k, x) = BP(now, sy, Books)!CanTransfer(k, x)
                  /\ M!Transferred(k, x) = BP(now, sy, Books)!Transferred(k, x)
        /\ \A m : M!AfterFlashSwap(m, x)
             = BP(now, sy, Books)!AfterFlashSwap(m, x)
    BY BooksTrade, Zenon
  <1> HIDE DEF x, to_strip
  <1> QED
    BY <1>1, <1>2, BooksPoolFields, Zenon
    DEF M!BuyYt, M!Bounded, BuyYtLeads, Within, x, to_strip

LEMMA SellYtLogged ==
    ASSUME NEW yt_in, NEW er, NEW fr, M!SellYt(yt_in, er, fr), M!Bounded
    PROVE  SellYtLeads(now, sy, Books, Books', yt_in, er, fr)
  <1> DEFINE x == M!FlashTrade(TRUE, yt_in, er, fr)
  <1>1. /\ M!PyToSy(rate, yt_in)
             = BP(now, sy, Books)!PyToSy(sy.exchange_rate, yt_in)
        /\ x = [is_buy |-> TRUE, pt |-> yt_in, er |-> er, fr |-> fr,
                flash |-> TRUE]
        /\ M!NetTraderSy(x) = BP(now, sy, Books)!NetTraderSy(x)
        /\ M!Allowed("sell_yt") = BP(now, sy, Books)!Allowed("sell_yt")
    BY BooksPrices, BooksPool DEF M!FlashTrade, rate
  <1>2. /\ M!CanTrade(x) = BP(now, sy, Books)!CanTrade(x)
        /\ \A k : /\ M!CanTransfer(k, x) = BP(now, sy, Books)!CanTransfer(k, x)
                  /\ M!Transferred(k, x) = BP(now, sy, Books)!Transferred(k, x)
        /\ \A m : M!AfterFlashSwap(m, x)
             = BP(now, sy, Books)!AfterFlashSwap(m, x)
    BY BooksTrade, Zenon
  <1> HIDE DEF x
  <1> QED
    BY <1>1, <1>2, BooksPoolFields, Zenon
    DEF M!SellYt, M!Bounded, SellYtLeads, Within, x
-----------------------------------------------------------------------------
(* ... and that they are steps of the pool that others see.                *)

\* The account that others see, before and after.
LEMMA PublicMarket ==
    ASSUME committed.books.market \in MarketAccount,
           committed'.books.market \in MarketAccount
    PROVE  LET q == [f \in DOMAIN committed.books.market \ {"lp_escrow_amount"} |->
                        IF f = "is_current_flash_swap" THEN FALSE
                        ELSE committed.books.market[f]]
           IN  /\ q = Public(committed.books.market)
               /\ q' = Public(committed'.books.market)
  BY Zenon DEF Public

\* Published accounts that an instruction leads between are a step of it.
LEMMA DepositLiquidityPublished ==
    ASSUME NEW pt, NEW amount, UNCHANGED <<now, sy>>,
           committed.books.market \in MarketAccount,
           committed'.books.market \in MarketAccount,
           DepositLiquidityLeads(now, sy, committed.books, committed'.books,
                                 pt, amount)
    PROVE  PM!DepositLiquidity(pt, amount) /\ PM!Bounded
  <1> DEFINE b == committed.books
             c == committed'.books
             q == [f \in DOMAIN committed.books.market \ {"lp_escrow_amount"} |->
                      IF f = "is_current_flash_swap" THEN FALSE
                      ELSE committed.books.market[f]]
             r == PM!AddLiquidity(pt, amount)
             supply == b.lp_tokens.mint_lp + r.lp_out
             window == PM!CurrentWindow(b.lp_tokens.mint_lp)
  <1>1. /\ BP(now, sy, committed.books)!AddLiquidity(pt, amount) = r
        /\ BP(now, sy, committed.books)!IsActive = PM!IsActive
        /\ BP(now, sy, committed.books)!Allowed("deposit")
             = PM!Allowed("deposit")
        /\ BP(now, sy, committed.books)!VerifyLimits(supply)
             = PM!VerifyLimits(supply)
        /\ BP(now, sy, committed.books)!CheckSupplyLp(supply)
             = PM!CheckSupplyLp(supply)
        /\ BP(now, sy, committed.books)!CurrentWindow(b.lp_tokens.mint_lp)
             = window
    BY PublicPool
  <1> HIDE DEF r, window
  <1>2. /\ PM!IsActive /\ PM!Allowed("deposit")
        /\ PM!VerifyLimits(supply) /\ PM!CheckSupplyLp(supply)
        /\ c.market = WithWindow(b.market, b.market.pt_balance + r.pt_in,
                                 b.market.sy_balance + r.sy_in, window)
        /\ c.lp_tokens = [mint_lp     |-> supply,
                          pt_escrow   |-> b.lp_tokens.pt_escrow + r.pt_in,
                          sy_position |-> b.lp_tokens.sy_position + r.sy_in]
        /\ c.market.pt_balance <= MaxBalance
        /\ c.market.sy_balance <= MaxBalance
        /\ c.lp_tokens.sy_position <= MaxBalance
    BY <1>1, Zenon DEF DepositLiquidityLeads, Within
  <1>3. /\ q.pt_balance = b.market.pt_balance
        /\ q.sy_balance = b.market.sy_balance
        /\ q = Public(b.market) /\ q' = Public(c.market)
        /\ q'.pt_balance = c.market.pt_balance
        /\ q'.sy_balance = c.market.sy_balance
    <2>1. q = Public(b.market) /\ q' = Public(c.market)
      BY PublicMarket
    <2> HIDE DEF q
    <2> QED
      BY <2>1, PublicFields
  <1>4. q' =
          WithWindow(q, q.pt_balance + r.pt_in, q.sy_balance + r.sy_in, window)
    <2> DEFINE p == b.market.pt_balance + r.pt_in
               n == b.market.sy_balance + r.sy_in
    <2> HIDE DEF p, n
    <2>1. Public(WithWindow(b.market, p, n, window))
            = WithWindow(Public(b.market), p, n, window)
      BY PublicWindow
    <2> HIDE DEF q, b, c
    <2> QED
      BY <1>2, <1>3, <2>1 DEF p, n
  <1>5. q'.pt_balance <= MaxBalance /\ q'.sy_balance <= MaxBalance
    BY <1>2, <1>3, Zenon
  <1> QED
    BY <1>2, <1>4, <1>5, Zenon
    DEF PM!DepositLiquidity, PM!Bounded, WithWindow, r, window, rate

LEMMA WithdrawLiquidityPublished ==
    ASSUME NEW lp, UNCHANGED <<now, sy>>,
           committed.books.market \in MarketAccount,
           committed'.books.market \in MarketAccount,
           WithdrawLiquidityLeads(now, sy, committed.books, committed'.books, lp)
    PROVE  PM!WithdrawLiquidity(lp)
  <1> DEFINE b == committed.books
             c == committed'.books
             q == [f \in DOMAIN committed.books.market \ {"lp_escrow_amount"} |->
                      IF f = "is_current_flash_swap" THEN FALSE
                      ELSE committed.books.market[f]]
             pt == PM!LpShare(b.market.pt_balance, lp)
             out == PM!LpShare(b.market.sy_balance, lp)
             supply == b.lp_tokens.mint_lp - lp
             window == PM!CurrentWindow(b.lp_tokens.mint_lp)
  <1>1. /\ BP(now, sy, committed.books)!LpShare(b.market.pt_balance, lp) = pt
        /\ BP(now, sy, committed.books)!LpShare(b.market.sy_balance, lp) = out
        /\ BP(now, sy, committed.books)!Allowed("withdraw")
             = PM!Allowed("withdraw")
        /\ BP(now, sy, committed.books)!VerifyLimits(supply)
             = PM!VerifyLimits(supply)
        /\ BP(now, sy, committed.books)!CurrentWindow(b.lp_tokens.mint_lp)
             = window
    BY PublicPool
  <1> HIDE DEF pt, out, window
  <1>2. /\ PM!Allowed("withdraw") /\ lp <= b.lp_tokens.mint_lp
        /\ PM!VerifyLimits(supply)
        /\ pt <= b.lp_tokens.pt_escrow /\ out <= b.lp_tokens.sy_position
        /\ c.market = WithWindow(b.market, b.market.pt_balance - pt,
                                 b.market.sy_balance - out, window)
        /\ c.lp_tokens = [mint_lp     |-> supply,
                          pt_escrow   |-> b.lp_tokens.pt_escrow - pt,
                          sy_position |-> b.lp_tokens.sy_position - out]
    BY <1>1, Zenon DEF WithdrawLiquidityLeads
  <1>3. /\ q.pt_balance = b.market.pt_balance
        /\ q.sy_balance = b.market.sy_balance
        /\ q = Public(b.market) /\ q' = Public(c.market)
    <2>1. q = Public(b.market) /\ q' = Public(c.market)
      BY PublicMarket
    <2> HIDE DEF q
    <2> QED
      BY <2>1, PublicFields
  <1>4. q' = WithWindow(q, q.pt_balance - pt, q.sy_balance - out, window)
    <2> DEFINE p == b.market.pt_balance - pt
               n == b.market.sy_balance - out
    <2> HIDE DEF p, n
    <2>1. Public(WithWindow(b.market, p, n, window))
            = WithWindow(Public(b.market), p, n, window)
      BY PublicWindow
    <2> HIDE DEF q, b, c
    <2> QED
      BY <1>2, <1>3, <2>1 DEF p, n
  <1>5. /\ pt = PM!LpShare(q.pt_balance, lp)
        /\ out = PM!LpShare(q.sy_balance, lp)
    BY <1>3, Zenon DEF pt, out
  <1>6. /\ PM!LpShare(q.pt_balance, lp) <= b.lp_tokens.pt_escrow
        /\ PM!LpShare(q.sy_balance, lp) <= b.lp_tokens.sy_position
        /\ q' = WithWindow(q, q.pt_balance - PM!LpShare(q.pt_balance, lp),
                           q.sy_balance - PM!LpShare(q.sy_balance, lp), window)
        /\ c.lp_tokens = [mint_lp     |-> supply,
                          pt_escrow   |-> b.lp_tokens.pt_escrow
                                            - PM!LpShare(q.pt_balance, lp),
                          sy_position |-> b.lp_tokens.sy_position
                                            - PM!LpShare(q.sy_balance, lp)]
    BY <1>2, <1>4, <1>5, Zenon
  <1> QED
    BY <1>2, <1>6, Zenon
    DEF PM!WithdrawLiquidity, WithWindow, window, rate

\* A trade changes the pool's part of the account alone.
LEMMA PublicTraded ==
    ASSUME NEW m \in MarketAccount, NEW x
    PROVE  /\ Public(PM!Traded(m, x)) = PM!Traded(Public(m), x)
           /\ Public(PM!AfterFlashSwap(m, x)) = PM!AfterFlashSwap(Public(m), x)
  <1> DEFINE pt == IF x.is_buy THEN m.pt_balance - x.pt ELSE m.pt_balance + x.pt
             n == IF x.is_buy
                  THEN m.sy_balance + PM!NetTraderSy(x) - PM!TreasuryFee(x)
                  ELSE m.sy_balance - PM!NetTraderSy(x) - PM!TreasuryFee(x)
             Sum(k) == WithBalances(k, pt, n)
             p == Public(m)
  <1>1. /\ p.pt_balance = m.pt_balance /\ p.sy_balance = m.sy_balance
        /\ WithFlag(m, TRUE).pt_balance = m.pt_balance
        /\ WithFlag(m, TRUE).sy_balance = m.sy_balance
        /\ WithFlag(p, TRUE).pt_balance = m.pt_balance
        /\ WithFlag(p, TRUE).sy_balance = m.sy_balance
    BY PublicFields DEF WithFlag, MarketAccount, Public
  <1>2. ASSUME NEW k, k.pt_balance = m.pt_balance, k.sy_balance = m.sy_balance
        PROVE  PM!Traded(k, x) = Sum(k)
    <2>1. CASE x.is_buy
      BY <1>2, <2>1, Zenon DEF PM!Traded, WithBalances
    <2>2. CASE ~x.is_buy
      BY <1>2, <2>2, Zenon DEF PM!Traded, WithBalances
    <2> QED
      BY <2>1, <2>2
  <1>3. \A k : PM!AfterFlashSwap(k, x)
        = WithFlag(PM!Traded(WithFlag(k, TRUE), x), FALSE)
    BY Zenon DEF PM!AfterFlashSwap, WithFlag
  <1> HIDE DEF pt, n, p
  <1>4. /\ PM!Traded(m, x) = Sum(m) /\ PM!Traded(p, x) = Sum(p)
        /\ PM!Traded(WithFlag(m, TRUE), x) = Sum(WithFlag(m, TRUE))
        /\ PM!Traded(WithFlag(p, TRUE), x) = Sum(WithFlag(p, TRUE))
    BY <1>1, <1>2
  <1>5. /\ Public(Sum(m)) = Sum(p)
        /\ WithFlag(Sum(WithFlag(p, TRUE)), FALSE) = Sum(p)
        /\ Public(WithFlag(Sum(WithFlag(m, TRUE)), FALSE)) = Sum(p)
    <2>1. /\ Public(Sum(m)) = Sum(p)
          /\ WithFlag(Sum(WithFlag(p, TRUE)), FALSE) = Sum(p)
      BY DEF Public, WithBalances, WithFlag, MarketAccount, p
    <2>2. Public(WithFlag(Sum(WithFlag(m, TRUE)), FALSE)) = Sum(p)
      BY DEF Public, WithBalances, WithFlag, MarketAccount, p
    <2> QED
      BY <2>1, <2>2
  <1> QED
    BY <1>3, <1>4, <1>5 DEF p

LEMMA TradePtPublished ==
    ASSUME NEW x, UNCHANGED <<now, sy>>,
           committed.books.market \in MarketAccount,
           committed'.books.market \in MarketAccount,
           TradePtLeads(now, sy, committed.books, committed'.books, x)
    PROVE  PM!TradePt(x) /\ PM!Bounded
  <1> DEFINE b == committed.books
             c == committed'.books
             q == [f \in DOMAIN committed.books.market \ {"lp_escrow_amount"} |->
                      IF f = "is_current_flash_swap" THEN FALSE
                      ELSE committed.books.market[f]]
  <1>1. /\ PM!CanTrade(x) /\ PM!CanTransfer(b.lp_tokens, x)
        /\ c.market = PM!Traded(b.market, x)
        /\ c.lp_tokens = PM!Transferred(b.lp_tokens, x)
        /\ c.market.pt_balance <= MaxBalance
        /\ c.market.sy_balance <= MaxBalance
        /\ c.lp_tokens.sy_position <= MaxBalance
    BY PublicTrade, Zenon DEF TradePtLeads, Within
  <1>2. /\ q = Public(b.market) /\ q' = Public(c.market)
        /\ q'.pt_balance = c.market.pt_balance
        /\ q'.sy_balance = c.market.sy_balance
    <2>1. q = Public(b.market) /\ q' = Public(c.market)
      BY PublicMarket
    <2> HIDE DEF q
    <2> QED
      BY <2>1, PublicFields
  <1>3. q' = PM!Traded(q, x)
    <2>1. Public(PM!Traded(b.market, x)) = PM!Traded(Public(b.market), x)
      BY PublicTraded
    <2> HIDE DEF q, b, c
    <2> QED
      BY <1>1, <1>2, <2>1
  <1>4. q'.pt_balance <= MaxBalance /\ q'.sy_balance <= MaxBalance
    BY <1>1, <1>2, Zenon
  <1> QED
    BY <1>1, <1>3, <1>4, Zenon DEF PM!TradePt, PM!Bounded, rate

LEMMA BuyYtPublished ==
    ASSUME NEW sy_in, NEW yt_out, NEW er, NEW fr, UNCHANGED <<now, sy>>,
           committed.books.market \in MarketAccount,
           committed'.books.market \in MarketAccount,
           BuyYtLeads(now, sy, committed.books, committed'.books,
                      sy_in, yt_out, er, fr)
    PROVE  PM!BuyYt(sy_in, yt_out, er, fr) /\ PM!Bounded
  <1> DEFINE b == committed.books
             c == committed'.books
             q == [f \in DOMAIN committed.books.market \ {"lp_escrow_amount"} |->
                      IF f = "is_current_flash_swap" THEN FALSE
                      ELSE committed.books.market[f]]
             to_strip == PM!PyToSyCeil(rate, yt_out)
             to_borrow == to_strip - sy_in
             x == PM!FlashTrade(FALSE, PM!SyToPy(rate, to_strip), er, fr)
             lent == [b.lp_tokens EXCEPT !.sy_position = @ - to_borrow]
             sold == PM!Transferred(lent, x)
  <1>1. /\ BP(now, sy, committed.books)!PyToSyCeil(sy.exchange_rate, yt_out)
             = to_strip
        /\ [is_buy |-> FALSE,
            pt |-> BP(now, sy, committed.books)!SyToPy(sy.exchange_rate, to_strip),
            er |-> er, fr |-> fr, flash |-> TRUE] = x
        /\ BP(now, sy, committed.books)!NetTraderSy(x) = PM!NetTraderSy(x)
        /\ BP(now, sy, committed.books)!Allowed("buy_yt") = PM!Allowed("buy_yt")
    BY PublicPrices, PublicPool DEF PM!FlashTrade, rate
  <1>2. /\ BP(now, sy, committed.books)!CanTrade(x) = PM!CanTrade(x)
        /\ BP(now, sy, committed.books)!CanTransfer(lent, x)
             = PM!CanTransfer(lent, x)
        /\ BP(now, sy, committed.books)!Transferred(lent, x) = sold
        /\ BP(now, sy, committed.books)!AfterFlashSwap(b.market, x)
             = PM!AfterFlashSwap(b.market, x)
    BY PublicTrade
  <1> HIDE DEF x, to_strip
  <1>3. /\ PM!Allowed("buy_yt")
        /\ to_strip > sy_in /\ to_borrow < to_strip
        /\ to_borrow <= b.lp_tokens.sy_position
        /\ PM!CanTrade(x) /\ PM!CanTransfer(lent, x)
        /\ PM!NetTraderSy(x) >= to_borrow
        /\ c.market = PM!AfterFlashSwap(b.market, x)
        /\ c.lp_tokens = [sold EXCEPT !.sy_position = @ + PM!NetTraderSy(x)]
        /\ c.market.pt_balance <= MaxBalance
        /\ c.market.sy_balance <= MaxBalance
        /\ c.lp_tokens.sy_position <= MaxBalance
    BY <1>1, <1>2, Zenon DEF BuyYtLeads, Within
  <1>4. /\ q = Public(b.market) /\ q' = Public(c.market)
        /\ q'.pt_balance = c.market.pt_balance
        /\ q'.sy_balance = c.market.sy_balance
    <2>1. q = Public(b.market) /\ q' = Public(c.market)
      BY PublicMarket
    <2> HIDE DEF q
    <2> QED
      BY <2>1, PublicFields
  <1>5. q' = PM!AfterFlashSwap(q, x)
    <2>1. Public(PM!AfterFlashSwap(b.market, x))
            = PM!AfterFlashSwap(Public(b.market), x)
      BY PublicTraded
    <2> HIDE DEF q, b, c
    <2> QED
      BY <1>3, <1>4, <2>1
  <1>6. q'.pt_balance <= MaxBalance /\ q'.sy_balance <= MaxBalance
    BY <1>3, <1>4, Zenon
  <1> QED
    BY <1>3, <1>5, <1>6, Zenon DEF PM!BuyYt, PM!Bounded, rate, x, to_strip

LEMMA SellYtPublished ==
    ASSUME NEW yt_in, NEW er, NEW fr, UNCHANGED <<now, sy>>,
           committed.books.market \in MarketAccount,
           committed'.books.market \in MarketAccount,
           SellYtLeads(now, sy, committed.books, committed'.books, yt_in, er, fr)
    PROVE  PM!SellYt(yt_in, er, fr) /\ PM!Bounded
  <1> DEFINE b == committed.books
             c == committed'.books
             q == [f \in DOMAIN committed.books.market \ {"lp_escrow_amount"} |->
                      IF f = "is_current_flash_swap" THEN FALSE
                      ELSE committed.books.market[f]]
             x == PM!FlashTrade(TRUE, yt_in, er, fr)
             lent == [b.lp_tokens EXCEPT !.pt_escrow = @ - yt_in]
             bought == PM!Transferred(lent, x)
  <1>1. /\ BP(now, sy, committed.books)!PyToSy(sy.exchange_rate, yt_in)
             = PM!PyToSy(rate, yt_in)
        /\ [is_buy |-> TRUE, pt |-> yt_in, er |-> er, fr |-> fr, flash |-> TRUE]
             = x
        /\ BP(now, sy, committed.books)!NetTraderSy(x) = PM!NetTraderSy(x)
        /\ BP(now, sy, committed.books)!Allowed("sell_yt")
             = PM!Allowed("sell_yt")
    BY PublicPrices, PublicPool DEF PM!FlashTrade, rate
  <1>2. /\ BP(now, sy, committed.books)!CanTrade(x) = PM!CanTrade(x)
        /\ BP(now, sy, committed.books)!CanTransfer(lent, x)
             = PM!CanTransfer(lent, x)
        /\ BP(now, sy, committed.books)!Transferred(lent, x) = bought
        /\ BP(now, sy, committed.books)!AfterFlashSwap(b.market, x)
             = PM!AfterFlashSwap(b.market, x)
    BY PublicTrade
  <1> HIDE DEF x
  <1>3. /\ PM!Allowed("sell_yt")
        /\ b.market.pt_balance >= yt_in * 2
        /\ yt_in <= b.lp_tokens.pt_escrow
        /\ PM!CanTrade(x) /\ PM!CanTransfer(lent, x)
        /\ PM!NetTraderSy(x) <= PM!PyToSy(rate, yt_in)
        /\ c.market = PM!AfterFlashSwap(b.market, x)
        /\ c.lp_tokens = [bought EXCEPT !.pt_escrow = @ + yt_in]
        /\ c.market.pt_balance <= MaxBalance
        /\ c.market.sy_balance <= MaxBalance
        /\ c.lp_tokens.sy_position <= MaxBalance
    BY <1>1, <1>2, Zenon DEF SellYtLeads, Within
  <1>4. /\ q = Public(b.market) /\ q' = Public(c.market)
        /\ q.pt_balance = b.market.pt_balance
        /\ q'.pt_balance = c.market.pt_balance
        /\ q'.sy_balance = c.market.sy_balance
    <2>1. q = Public(b.market) /\ q' = Public(c.market)
      BY PublicMarket
    <2> HIDE DEF q
    <2> QED
      BY <2>1, PublicFields
  <1>5. q' = PM!AfterFlashSwap(q, x)
    <2>1. Public(PM!AfterFlashSwap(b.market, x))
            = PM!AfterFlashSwap(Public(b.market), x)
      BY PublicTraded
    <2> HIDE DEF q, b, c
    <2> QED
      BY <1>3, <1>4, <2>1
  <1>6. /\ q'.pt_balance <= MaxBalance /\ q'.sy_balance <= MaxBalance
        /\ q.pt_balance >= yt_in * 2
    BY <1>3, <1>4, Zenon
  <1> QED
    BY <1>3, <1>5, <1>6, Zenon DEF PM!SellYt, PM!Bounded, rate, x

-----------------------------------------------------------------------------
(* The trail of a transaction: what it has written, entry by entry, leads   *)
(* from what others see to the accounts as it sees them.                    *)

\* One entry leads to the next for the vault and for the pool.
Leads(t, s, o, b, c) == VaultLeads(t, s, o, b, c) /\ PoolLeads(t, s, b, c)

\* What the books can hold.
BooksSet ==
    [vault : V!VaultAccount, position : [V!Holders -> V!YieldTokenPosition],
     py_tokens : [mint_pt : Nat, yt_wallets : Nat, escrow_yt : Nat],
     sy_vault : [sy_balance : Nat, emissions : Seq(V!SyEmission)],
     market : MarketAccount, lp_tokens : M!Tokens]

\* What the inductive invariant says of the accounts, the record and its copies.
Kept ==
    /\ Books \in BooksSet /\ rate \in Rates
    /\ TxTyped /\ CopiesCurrent /\ FlagTaken

\* What is there once the entries up to i are written over the books b.
Written(b, log, i) == IF i = 0 THEN b ELSE log[i]

\* The entries of the log lead from the books b to the books e.
LeadsTo(t, s, o, b, log, e) ==
    /\ log \in Seq(BooksSet)
    /\ Written(b, log, Len(log)) = e
    /\ \A i \in 1..Len(log) :
          Leads(t, s, o, Written(b, log, i - 1), Written(b, log, i))

\* The invariant: between instructions there is nothing left to publish.
Trail ==
    /\ "books" \in DOMAIN committed
    /\ committed.books \in BooksSet
    /\ tx.handler = "none" => tx.log = <<>>
    /\ LeadsTo(now, sy, opened, committed.books, tx.log, Books)

\* An empty log leads nowhere.
LEMMA TrailOfNone ==
    ASSUME NEW t, NEW s, NEW o, NEW b, NEW e
    PROVE  LeadsTo(t, s, o, b, <<>>, e) <=> b = e
  <1>1. Len(<<>>) = 0 /\ <<>> \in Seq(BooksSet)
    OBVIOUS
  <1>2. Written(b, <<>>, 0) = b
    BY DEF Written
  <1>3. 1..Len(<<>>) = {}
    OBVIOUS
  <1> QED
    BY <1>1, <1>2, <1>3, Zenon DEF LeadsTo

\* The next entry continues the trail,
LEMMA TrailAppended ==
    ASSUME NEW t, NEW s, NEW o, NEW b, NEW log, NEW e, NEW f \in BooksSet,
           LeadsTo(t, s, o, b, log, e), Leads(t, s, o, e, f)
    PROVE  LeadsTo(t, s, o, b, Append(log, f), f)
  <1> DEFINE n == Len(log)
             new == Append(log, f)
  <1>1. log \in Seq(BooksSet) /\ n \in Nat
    BY DEF LeadsTo
  <1>2. /\ new \in Seq(BooksSet) /\ Len(new) = n + 1 /\ new[n + 1] = f
        /\ \A i \in 1..n : new[i] = log[i]
    BY <1>1
  <1>3. \A i \in 0..n : Written(b, new, i) = Written(b, log, i)
    BY <1>2 DEF Written
  <1>4. Written(b, new, n + 1) = f
    BY <1>1, <1>2 DEF Written
  <1>5. Written(b, new, n) = e
    BY <1>1, <1>3 DEF LeadsTo
  <1> HIDE DEF n, new
  <1>6. ASSUME NEW i \in 1..(n + 1)
        PROVE  Leads(t, s, o, Written(b, new, i - 1), Written(b, new, i))
    <2>1. CASE i = n + 1
      <3>1. i - 1 = n
        BY <1>1, <2>1
      <3> QED
        BY <1>4, <1>5, <2>1, <3>1
    <2>2. CASE i # n + 1
      <3>1. i \in 1..n /\ i - 1 \in 0..n /\ i \in 0..n
        BY <1>1, <2>2
      <3>2. Leads(t, s, o, Written(b, log, i - 1), Written(b, log, i))
        BY <3>1 DEF LeadsTo, n
      <3> QED
        BY <1>3, <3>1, <3>2
    <2> QED
      BY <2>1, <2>2
  <1>7. LeadsTo(t, s, o, b, new, f)
    BY <1>2, <1>4, <1>6 DEF LeadsTo
  <1> QED
    BY <1>7 DEF new

\* ... and without its first entry the rest leads on from that entry.
LEMMA TrailWithoutHead ==
    ASSUME NEW t, NEW s, NEW o, NEW b, NEW log, NEW e,
           LeadsTo(t, s, o, b, log, e), log # <<>>
    PROVE  /\ LeadsTo(t, s, o, Head(log), Tail(log), e)
           /\ Leads(t, s, o, b, Head(log)) /\ Head(log) \in BooksSet
  <1> DEFINE n == Len(log)
             h == Head(log)
             rest == Tail(log)
  <1>1. log \in Seq(BooksSet) /\ n \in Nat /\ n # 0
    BY DEF LeadsTo
  <1>2. /\ rest \in Seq(BooksSet) /\ Len(rest) = n - 1 /\ h = log[1]
        /\ h \in BooksSet
        /\ \A i \in 1..(n - 1) : rest[i] = log[i + 1]
    BY <1>1
  <1>3. \A i \in 0..(n - 1) : Written(h, rest, i) = Written(b, log, i + 1)
    BY <1>1, <1>2 DEF Written
  <1>4. Written(b, log, n) = e
    BY DEF LeadsTo
  <1>5. \A i \in 1..n : Leads(t, s, o, Written(b, log, i - 1), Written(b, log, i))
    BY DEF LeadsTo
  <1> HIDE DEF n, h, rest
  <1>6. ASSUME NEW i \in 1..(n - 1)
        PROVE  Leads(t, s, o, Written(h, rest, i - 1), Written(h, rest, i))
    <2>1. /\ i - 1 \in 0..(n - 1) /\ i \in 0..(n - 1) /\ i + 1 \in 1..n
          /\ (i + 1) - 1 = i /\ (i - 1) + 1 = i
      BY <1>1
    <2>2. Leads(t, s, o, Written(b, log, i), Written(b, log, i + 1))
      BY <1>5, <2>1
    <2> QED
      BY <1>3, <2>1, <2>2
  <1>7. Written(h, rest, n - 1) = e
    <2>1. n - 1 \in 0..(n - 1) /\ (n - 1) + 1 = n
      BY <1>1
    <2> QED
      BY <1>3, <1>4, <2>1
  <1>8. Leads(t, s, o, b, h)
    <2>1. 1 \in 1..n /\ 1 - 1 = 0
      BY <1>1
    <2>2. Written(b, log, 0) = b /\ Written(b, log, 1) = h
      BY <1>2 DEF Written
    <2> QED
      BY <1>5, <2>1, <2>2
  <1>9. LeadsTo(t, s, o, h, rest, e)
    BY <1>2, <1>6, <1>7 DEF LeadsTo
  <1> QED
    BY <1>2, <1>8, <1>9 DEF h, rest

\* A step of a wrapper that leads on keeps the trail, logged or not.
LEMMA TrailGrows ==
    ASSUME Trail, Kept', UNCHANGED others, tx'.handler # "none",
           tx'.log = Logged, Leads(now, sy, opened, Books, Books')
    PROVE  Trail'
  <1>1. Books' \in BooksSet
    BY DEF Kept, BooksSet
  <1>2. UNCHANGED <<now, sy, opened, committed>>
    BY DEF others
  <1>3. CASE books' = books
    <2>1. tx'.log = tx.log /\ Books' = Books
      BY <1>3 DEF Logged, Books, books
    <2> QED
      BY <1>2, <2>1 DEF Trail
  <1>4. CASE books' # books
    <2> DEFINE e == Books'
    <2>1. tx'.log = Append(tx.log, e)
      BY <1>4 DEF Logged
    <2>2. LeadsTo(now, sy, opened, committed.books, tx.log, Books)
      BY DEF Trail
    <2>3. e \in BooksSet /\ Leads(now, sy, opened, Books, e)
      BY <1>1
    <2> HIDE DEF e
    <2>4. \A log : log = tx'.log =>
              LeadsTo(now, sy, opened, committed.books, log, e)
      BY <2>1, <2>2, <2>3, TrailAppended
    <2> QED
      BY <1>2, <2>4 DEF Trail, e
  <1> QED
    BY <1>3, <1>4

\* When nothing is logged, others see what there is.
LEMMA TrailEmpty ==
    ASSUME Trail, tx.log = <<>>
    PROVE  committed.books = Books
  BY TrailOfNone DEF Trail

\* Where the log is empty and others see everything, the trail starts again.
LEMMA TrailStarts ==
    ASSUME Kept', "books" \in DOMAIN committed', committed'.books = Books',
           tx'.log = <<>>
    PROVE  Trail'
  <1>1. Books' \in BooksSet
    BY DEF Kept, BooksSet
  <1>2. \A t, s, o, b : LeadsTo(t, s, o, b, <<>>, b)
    BY TrailOfNone
  <1> QED
    BY <1>1, <1>2 DEF Trail

\* Publishing the first entry is a step that leads on.
LEMMA TrailPublished ==
    ASSUME Trail, tx.log # <<>>, UNCHANGED <<now, sy, opened, books>>,
           committed' = [committed EXCEPT !.books = Head(tx.log)],
           tx' = [tx EXCEPT !.log = Tail(@)], TxTyped, tx.handler # "none"
    PROVE  /\ Trail'
           /\ Leads(now, sy, opened, committed.books, committed'.books)
  <1>1. /\ "log" \in DOMAIN tx /\ "handler" \in DOMAIN tx
        /\ "books" \in DOMAIN committed
    BY DEF TxTyped, Idle, Trail
  <1>2. /\ tx'.log = Tail(tx.log) /\ tx'.handler = tx.handler
        /\ committed'.books = Head(tx.log) /\ "books" \in DOMAIN committed'
    BY <1>1
  <1>3. UNCHANGED <<now, sy, opened>> /\ Books' = Books
    BY DEF Books, books
  <1>4. /\ LeadsTo(now, sy, opened, Head(tx.log), Tail(tx.log), Books)
        /\ Leads(now, sy, opened, committed.books, Head(tx.log))
        /\ Head(tx.log) \in BooksSet
    BY TrailWithoutHead DEF Trail
  <1> QED
    BY <1>2, <1>3, <1>4 DEF Trail

\* What the calls need of it.
LEMMA KeptFacts ==
    ASSUME Kept
    PROVE  /\ TxTyped /\ market \in MarketAccount
           /\ tx.sy \in Nat /\ tx.py \in Nat /\ tx.lp \in Nat
           /\ tx.amount \in Nat /\ tx.amount_pt \in Nat
           /\ rate \in Nat \ {0}
           /\ market.pt_balance \in Nat /\ market.sy_balance \in Nat
           /\ tx.handler # Base => ~market.is_current_flash_swap
  <1>1. market \in MarketAccount
    BY BooksFields DEF Kept, BooksSet
  <1> QED
    BY <1>1, TransactionsAssumption
       DEF Kept, TxTyped, FlagTaken, MarketAccount

-----------------------------------------------------------------------------
(* What each call does to the books.                                       *)

\* A call that leaves the accounts of one side alone leads on for it.
LEMMA VaultBooksStay ==
    ASSUME UNCHANGED vaultBooks
    PROVE  /\ VaultStays(Books, Books')
           /\ VaultLeads(now, sy, opened, Books, Books')
  BY BooksFields DEF vaultBooks, VaultStays, VaultLeads

LEMMA PoolBooksStay ==
    ASSUME UNCHANGED marketBooks
    PROVE  /\ PoolStays(Books, Books')
           /\ PoolLeads(now, sy, Books, Books')
  BY BooksFields DEF marketBooks, PoolStays, PoolLeads

LEMMA BooksStay ==
    ASSUME UNCHANGED books
    PROVE  Leads(now, sy, opened, Books, Books')
  BY VaultBooksStay, PoolBooksStay DEF books, vaultBooks, marketBooks, Leads

\* Each nested instruction leads on.
LEMMA StripCall ==
    ASSUME Amounts = Nat, NEW amount \in Nat, DoCpiStrip(amount)
    PROVE  Leads(now, sy, opened, Books, Books')
  <1>1. StripLeads(now, sy, Books, Books', amount)
    BY StripLogged DEF DoCpiStrip
  <1> QED
    BY <1>1, PoolBooksStay DEF DoCpiStrip, Leads, VaultLeads

LEMMA MergeCall ==
    ASSUME Amounts = Nat, NEW py \in Nat, DoCpiMerge(py)
    PROVE  Leads(now, sy, opened, Books, Books')
  <1>1. MergeLeads(now, sy, Books, Books', py)
    BY MergeLogged DEF DoCpiMerge
  <1> QED
    BY <1>1, PoolBooksStay DEF DoCpiMerge, Leads, VaultLeads

LEMMA DepositYtCall ==
    ASSUME Amounts = Nat, NEW amount \in Nat, DoCpiDepositYt(amount)
    PROVE  Leads(now, sy, opened, Books, Books')
  <1>1. DepositYtLeads(now, sy, opened, Books, Books', amount)
    BY DepositYtLogged DEF DoCpiDepositYt
  <1> QED
    BY <1>1, PoolBooksStay DEF DoCpiDepositYt, Leads, VaultLeads

LEMMA CollectInterestCall ==
    ASSUME DoCpiCollectInterest
    PROVE  Leads(now, sy, opened, Books, Books')
  <1>1. CollectInterestLeads(now, sy, opened, Books, Books')
    BY CollectInterestLogged DEF DoCpiCollectInterest
  <1> QED
    BY <1>1, PoolBooksStay DEF DoCpiCollectInterest, Leads, VaultLeads

\* The flag is only up for a purchase.
LEMMA TradePtCall ==
    ASSUME Amounts = Nat, NEW is_buy \in BOOLEAN, NEW pt \in Nat,
           NEW er \in ExchangeRates, NEW fr \in FeeRates,
           market \in MarketAccount, market.is_current_flash_swap => is_buy,
           DoCpiTradePt(TradeOf(is_buy, pt, er, fr))
    PROVE  Leads(now, sy, opened, Books, Books')
  <1> DEFINE flash == market.is_current_flash_swap
             x == [is_buy |-> is_buy, pt |-> pt, er |-> er, fr |-> fr,
                   flash |-> flash]
  <1>1. flash \in {FALSE, is_buy}
    BY DEF MarketAccount
  <1>2. TradePtLeads(now, sy, Books, Books', x)
    BY TradePtLogged DEF DoCpiTradePt, TradeOf
  <1> HIDE DEF flash
  <1>3. PoolLeads(now, sy, Books, Books')
    BY <1>1, <1>2, Zenon DEF PoolLeads
  <1> QED
    BY <1>3, VaultBooksStay DEF DoCpiTradePt, Leads

LEMMA DepositLiquidityCall ==
    ASSUME Amounts = Nat, NEW pt \in Nat, NEW amount \in Nat,
           DoCpiDepositLiquidity(pt, amount)
    PROVE  Leads(now, sy, opened, Books, Books')
  <1>1. DepositLiquidityLeads(now, sy, Books, Books', pt, amount)
    BY DepositLiquidityLogged DEF DoCpiDepositLiquidity
  <1> QED
    BY <1>1, VaultBooksStay, Zenon DEF DoCpiDepositLiquidity, Leads, PoolLeads

LEMMA WithdrawLiquidityCall ==
    ASSUME Amounts = Nat, NEW lp \in Nat, DoCpiWithdrawLiquidity(lp)
    PROVE  Leads(now, sy, opened, Books, Books')
  <1>1. WithdrawLiquidityLeads(now, sy, Books, Books', lp)
    BY WithdrawLiquidityLogged DEF DoCpiWithdrawLiquidity
  <1> QED
    BY <1>1, VaultBooksStay, Zenon DEF DoCpiWithdrawLiquidity, Leads, PoolLeads

\* What the market counts as staked, and its flag, are not the pool's.
LEMMA MarkCall ==
    ASSUME market \in MarketAccount, UNCHANGED <<vaultBooks, lp_tokens>>,
           NEW x,
           market' = WithStake(market, x) \/ market' = WithFlag(market, x)
    PROVE  Leads(now, sy, opened, Books, Books')
  <1>1. Public(market') = Public(market)
    BY PublicOnly
  <1>2. PoolLeads(now, sy, Books, Books')
    BY <1>1, BooksFields DEF PoolLeads, PoolStays
  <1> QED
    BY <1>2, VaultBooksStay DEF Leads

LEMMA DepositLpCall ==
    ASSUME market \in MarketAccount, NEW lp, DoCpiDepositLp(lp)
    PROVE  Leads(now, sy, opened, Books, Books')
  BY MarkCall DEF DoCpiDepositLp, WithStake

LEMMA WithdrawLpCall ==
    ASSUME market \in MarketAccount, NEW lp, DoCpiWithdrawLp(lp)
    PROVE  Leads(now, sy, opened, Books, Books')
  BY MarkCall DEF DoCpiWithdrawLp, WithStake

LEMMA BuyYtCall ==
    ASSUME Amounts = Nat, NEW sy_in \in Nat, NEW yt_out \in Nat,
           NEW er \in ExchangeRates, NEW fr \in FeeRates,
           PyToSyCeil(rate, yt_out) \in Nat, DoCpiBuyYt(sy_in, yt_out, er, fr)
    PROVE  Leads(now, sy, opened, Books, Books')
  <1>1. BuyYtLeads(now, sy, Books, Books', sy_in, yt_out, er, fr)
    BY BuyYtLogged DEF DoCpiBuyYt
  <1>2. StripLeads(now, sy, Books, Books', PyToSyCeil(rate, yt_out))
    BY StripLogged DEF DoCpiBuyYt
  <1>3. PoolLeads(now, sy, Books, Books')
    BY <1>1, Zenon DEF PoolLeads
  <1> QED
    BY <1>2, <1>3, Zenon DEF Leads, VaultLeads

LEMMA SellYtCall ==
    ASSUME Amounts = Nat, NEW yt_in \in Nat,
           NEW er \in ExchangeRates, NEW fr \in FeeRates,
           DoCpiSellYt(yt_in, er, fr)
    PROVE  Leads(now, sy, opened, Books, Books')
  <1>1. SellYtLeads(now, sy, Books, Books', yt_in, er, fr)
    BY SellYtLogged DEF DoCpiSellYt
  <1>2. MergeLeads(now, sy, Books, Books', yt_in)
    BY MergeLogged DEF DoCpiSellYt
  <1>3. PoolLeads(now, sy, Books, Books')
    BY <1>1, Zenon DEF PoolLeads
  <1> QED
    BY <1>2, <1>3, Zenon DEF Leads, VaultLeads

-----------------------------------------------------------------------------
(* What each wrapper leaves in the log.                                    *)

\* The results that a wrapper keeps do not disturb its course or its log.
Plain(results) == DOMAIN results \subseteq {"sy", "py", "lp", "er", "fr"}

LEMMA PlainResults ==
    /\ Plain(Nothing)
    /\ \A a : Plain([sy |-> a]) /\ Plain([py |-> a]) /\ Plain([lp |-> a])
    /\ \A a, b : /\ Plain([sy |-> a, py |-> b]) /\ Plain([py |-> a, sy |-> b])
                 /\ Plain([er |-> a, fr |-> b])
    /\ \A a, b, c : Plain([sy |-> a, er |-> b, fr |-> c])
  BY DEF Plain, Nothing

\* What a call leaves in the log and of the curve's answer.
LEMMA ThenTrails ==
    ASSUME TxTyped, NEW pc, NEW reloads, NEW results, Plain(results),
           Then(pc, reloads, results)
    PROVE  /\ tx'.log = Logged /\ tx'.handler = tx.handler /\ tx'.pc = pc
           /\ \A f \in {"er", "fr"} :
                 tx'[f] = IF f \in DOMAIN results THEN results[f] ELSE tx[f]
  <1> DEFINE next == [tx EXCEPT !.pc = pc, !.copy = Reloaded(reloads),
                                !.log = Logged]
  <1>1. DOMAIN tx = {"handler", "pc", "amount", "amount_pt", "er", "fr", "sy",
                     "py", "lp", "copy", "log"}
    BY DEF TxTyped, Idle
  <1>2. /\ next.log = Logged /\ next.handler = tx.handler /\ next.pc = pc
        /\ next.er = tx.er /\ next.fr = tx.fr
    BY <1>1
  <1>3. tx' = [f \in DOMAIN tx |->
                 IF f \in DOMAIN results THEN results[f] ELSE next[f]]
    BY DEF Then
  <1> HIDE DEF next
  <1> QED
    BY <1>1, <1>2, <1>3 DEF Plain

\* The step of a wrapper is logged, and leads on from what was logged before.
Trails ==
    /\ tx'.log = Logged /\ tx'.handler = tx.handler
    /\ Leads(now, sy, opened, Books, Books')

\* Wrapper by wrapper.
LEMMA StripTrails ==
    ASSUME Amounts = Nat, Kept, WrapperStrip
    PROVE  Trails
  <1>1. TxTyped /\ tx.sy \in Nat /\ tx.py \in Nat
    BY KeptFacts
  <1>2. CASE /\ MintSy(tx.amount)
             /\ Then("strip", {}, [sy |-> MintedSy(tx.amount)])
    BY <1>1, <1>2, BooksStay, PlainResults, ThenTrails DEF MintSy, Trails
  <1>3. CASE /\ DoCpiStrip(tx.sy)
             /\ Then("deposit_yt", {"vault"}, [py |-> wallet'.pt - wallet.pt])
    BY <1>1, <1>3, StripCall, PlainResults, ThenTrails DEF Trails
  <1>4. CASE DoCpiDepositYt(tx.py) /\ Then("exit", {"vault"}, Nothing)
    BY <1>1, <1>4, DepositYtCall, PlainResults, ThenTrails DEF Trails
  <1> QED
    BY <1>2, <1>3, <1>4, Zenon DEF WrapperStrip

LEMMA RedeemTrails ==
    ASSUME TxTyped, RedeemSy(tx.sy), Then("exit", {}, Nothing)
    PROVE  Trails
  BY BooksStay, PlainResults, ThenTrails DEF RedeemSy, Trails

LEMMA MergeTrails ==
    ASSUME Amounts = Nat, Kept, WrapperMerge
    PROVE  Trails
  <1>1. TxTyped /\ tx.amount \in Nat
    BY KeptFacts
  <1>2. CASE /\ DoCpiMerge(tx.amount)
             /\ Then("redeem", {"vault"}, [sy |-> wallet'.sy - wallet.sy])
    BY <1>1, <1>2, MergeCall, PlainResults, ThenTrails DEF Trails
  <1> QED
    BY <1>1, <1>2, RedeemTrails, Zenon DEF WrapperMerge

LEMMA CollectInterestTrails ==
    ASSUME Kept, WrapperCollectInterest
    PROVE  Trails
  <1>1. TxTyped
    BY KeptFacts
  <1>2. CASE /\ DoCpiCollectInterest
             /\ Then("redeem", {"vault"}, [sy |-> InterestToUser])
    BY <1>1, <1>2, CollectInterestCall, PlainResults, ThenTrails DEF Trails
  <1> QED
    BY <1>1, <1>2, RedeemTrails, Zenon DEF WrapperCollectInterest

LEMMA SellPtTrails ==
    ASSUME Amounts = Nat, Kept, WrapperSellPt
    PROVE  Trails
  <1>1. /\ TxTyped /\ tx.amount \in Nat /\ market \in MarketAccount
        /\ ~market.is_current_flash_swap
    BY KeptFacts DEF WrapperSellPt, At, Base
  <1>2. CASE /\ \E er \in ExchangeRates, fr \in FeeRates :
                   DoCpiTradePt(TradeOf(FALSE, tx.amount, er, fr))
             /\ Then("redeem", {"market"}, [sy |-> wallet'.sy - wallet.sy])
    BY <1>1, <1>2, TradePtCall, PlainResults, ThenTrails DEF Trails
  <1> QED
    BY <1>1, <1>2, RedeemTrails, Zenon DEF WrapperSellPt

LEMMA SellYtTrails ==
    ASSUME Amounts = Nat, Kept, WrapperSellYt
    PROVE  Trails
  <1>1. TxTyped /\ tx.amount \in Nat
    BY KeptFacts
  <1>2. CASE /\ \E er \in ExchangeRates, fr \in FeeRates :
                   DoCpiSellYt(tx.amount, er, fr)
             /\ Then("redeem", {"market"}, [sy |-> wallet'.sy - wallet.sy])
    BY <1>1, <1>2, SellYtCall, PlainResults, ThenTrails DEF Trails
  <1> QED
    BY <1>1, <1>2, RedeemTrails, Zenon DEF WrapperSellYt

LEMMA BuyYtTrails ==
    ASSUME Amounts = Nat, Kept, WrapperBuyYt
    PROVE  Trails
  <1>1. /\ TxTyped /\ tx.sy \in Nat /\ tx.py \in Nat /\ tx.amount \in Nat
        /\ PyToSyCeil(rate, tx.amount) \in Nat
    BY KeptFacts, PyToSyCeilType
  <1>2. ASSUME NEW er, NEW fr, NEW base, MintSy(base),
               Then("buy_yt", {}, [sy |-> MintedSy(base), er |-> er, fr |-> fr])
        PROVE  Trails
    BY <1>1, <1>2, BooksStay, PlainResults, ThenTrails DEF MintSy, Trails
  <1>3. CASE /\ \E er \in ExchangeRates, fr \in FeeRates :
                   DoCpiBuyYt(tx.sy, tx.amount, er, fr)
             /\ Then("deposit_yt", {"market", "vault"}, [py |-> BoughtYt])
    BY <1>1, <1>3, BuyYtCall, PlainResults, ThenTrails DEF Trails
  <1>4. CASE DoCpiDepositYt(tx.py) /\ Then("exit", {"vault"}, Nothing)
    BY <1>1, <1>4, DepositYtCall, PlainResults, ThenTrails DEF Trails
  <1> QED
    BY <1>2, <1>3, <1>4, Zenon DEF WrapperBuyYt

LEMMA ProvideTrails ==
    ASSUME Amounts = Nat, Kept, WrapperProvideLiquidity
    PROVE  Trails
  <1>1. /\ TxTyped /\ tx.sy \in Nat /\ tx.py \in Nat
        /\ market \in MarketAccount
    BY KeptFacts
  <1>2. CASE /\ MintSy(tx.amount)
             /\ Then("strip", {}, [sy |-> MintedSy(tx.amount)])
    BY <1>1, <1>2, BooksStay, PlainResults, ThenTrails DEF MintSy, Trails
  <1>3. ASSUME NEW to_strip, to_strip = CalcStripAmount(tx.sy),
               market.pt_balance + market.sy_balance > 0,
               DoCpiStrip(to_strip),
               Then("deposit_liquidity", {"vault"},
                    [py |-> wallet'.pt - wallet.pt, sy |-> tx.sy - to_strip])
        PROVE  Trails
    <2>1. to_strip \in Nat
      BY <1>3, KeptFacts, StripAmountType
    <2>2. Leads(now, sy, opened, Books, Books')
      BY <1>3, <2>1, StripCall
    <2> QED
      BY <1>1, <1>3, <2>2, PlainResults, ThenTrails DEF Trails
  <1>4. CASE /\ DoCpiDepositLiquidity(tx.py, tx.sy)
             /\ Then("deposit_yt", {"market"}, [lp |-> wallet'.lp - wallet.lp])
    BY <1>1, <1>4, DepositLiquidityCall, PlainResults, ThenTrails DEF Trails
  <1>5. CASE DoCpiDepositYt(tx.py) /\ Then("deposit_lp", {"vault"}, Nothing)
    BY <1>1, <1>5, DepositYtCall, PlainResults, ThenTrails DEF Trails
  <1>6. CASE DoCpiDepositLp(tx.lp) /\ Then("exit", {"market"}, Nothing)
    BY <1>1, <1>6, DepositLpCall, PlainResults, ThenTrails DEF Trails
  <1> QED
    BY <1>2, <1>3, <1>4, <1>5, <1>6, Zenon DEF WrapperProvideLiquidity

LEMMA ClassicTrails ==
    ASSUME Amounts = Nat, Kept, WrapperProvideLiquidityClassic
    PROVE  Trails
  <1>1. /\ TxTyped /\ tx.sy \in Nat /\ tx.amount_pt \in Nat
        /\ market \in MarketAccount
    BY KeptFacts
  <1>2. CASE /\ MintSy(tx.amount)
             /\ Then("deposit_liquidity", {}, [sy |-> MintedSy(tx.amount)])
    BY <1>1, <1>2, BooksStay, PlainResults, ThenTrails DEF MintSy, Trails
  <1>3. CASE /\ DoCpiDepositLiquidity(tx.amount_pt, tx.sy)
             /\ Then("deposit_lp", {"market"}, [lp |-> wallet'.lp - wallet.lp])
    BY <1>1, <1>3, DepositLiquidityCall, PlainResults, ThenTrails DEF Trails
  <1>4. CASE DoCpiDepositLp(tx.lp) /\ Then("exit", {"market"}, Nothing)
    BY <1>1, <1>4, DepositLpCall, PlainResults, ThenTrails DEF Trails
  <1> QED
    BY <1>2, <1>3, <1>4, Zenon DEF WrapperProvideLiquidityClassic

LEMMA LpAndLiquidityTrails ==
    ASSUME Amounts = Nat, Kept, NEW handler, NEW next,
           WithdrawLpAndLiquidity(handler, next)
    PROVE  Trails
  <1>1. TxTyped /\ tx.amount \in Nat /\ market \in MarketAccount
    BY KeptFacts
  <1>2. CASE /\ DoCpiWithdrawLp(tx.amount)
             /\ Then("withdraw_liquidity", {"market"}, Nothing)
    BY <1>1, <1>2, WithdrawLpCall, PlainResults, ThenTrails DEF Trails
  <1>3. CASE /\ DoCpiWithdrawLiquidity(tx.amount)
             /\ Then(next, {"market"}, [sy |-> wallet'.sy - wallet.sy,
                                        py |-> wallet'.pt - wallet.pt])
    BY <1>1, <1>3, WithdrawLiquidityCall, PlainResults, ThenTrails DEF Trails
  <1> QED
    BY <1>2, <1>3, Zenon DEF WithdrawLpAndLiquidity

LEMMA WithdrawTrails ==
    ASSUME Amounts = Nat, Kept, WrapperWithdrawLiquidity
    PROVE  Trails
  <1>1. /\ TxTyped /\ tx.py \in Nat /\ market \in MarketAccount
    BY KeptFacts
  <1>2. CASE /\ At("wrapper_withdraw_liquidity", "trade_pt")
             /\ \E er \in ExchangeRates, fr \in FeeRates :
                   DoCpiTradePt(TradeOf(FALSE, tx.py, er, fr))
             /\ Then("redeem", {"market"}, [sy |-> tx.sy + wallet'.sy - wallet.sy])
    <2>1. ~market.is_current_flash_swap
      BY <1>2, KeptFacts DEF At, Base
    <2> QED
      BY <1>1, <1>2, <2>1, TradePtCall, PlainResults, ThenTrails DEF Trails
  <1> QED
    BY <1>1, <1>2, RedeemTrails, LpAndLiquidityTrails, Zenon
    DEF WrapperWithdrawLiquidity

LEMMA WithdrawClassicTrails ==
    ASSUME Amounts = Nat, Kept, WrapperWithdrawLiquidityClassic
    PROVE  Trails
  <1>1. TxTyped
    BY KeptFacts
  <1> QED
    BY <1>1, RedeemTrails, LpAndLiquidityTrails, Zenon
    DEF WrapperWithdrawLiquidityClassic

\* What the curve answered when the wrapper looked.
Answered ==
    (tx.handler \in {"wrapper_buy_pt", Base} /\ tx.pc # "start") =>
        tx.er \in ExchangeRates /\ tx.fr \in FeeRates

LEMMA BuyPtTrails ==
    ASSUME Amounts = Nat, Kept, Answered, WrapperBuyPt
    PROVE  Trails /\ Answered'
  <1>1. /\ TxTyped /\ tx.amount \in Nat /\ market \in MarketAccount
        /\ tx.handler = "wrapper_buy_pt"
        /\ ~market.is_current_flash_swap
    BY KeptFacts DEF WrapperBuyPt, At, Base
  <1>2. ASSUME NEW er \in ExchangeRates, NEW fr \in FeeRates, NEW base, NEW net,
               MintSy(base),
               Then("trade_pt", {}, [sy |-> net, er |-> er, fr |-> fr])
        PROVE  Trails /\ Answered'
    <2> DEFINE R == [sy |-> net, er |-> er, fr |-> fr]
    <2>1. "er" \in DOMAIN R /\ "fr" \in DOMAIN R /\ R["er"] = er /\ R["fr"] = fr
      OBVIOUS
    <2>2. Plain(R) /\ Then("trade_pt", {}, R)
      BY <1>2, PlainResults
    <2> HIDE DEF R
    <2> QED
      BY <1>1, <1>2, <2>1, <2>2, BooksStay, ThenTrails
         DEF MintSy, Trails, Answered
  <1>3. CASE /\ At("wrapper_buy_pt", "trade_pt")
             /\ DoCpiTradePt(TradeOf(TRUE, tx.amount, tx.er, tx.fr))
             /\ Then("exit", {"market"}, Nothing)
    <2>1. tx.er \in ExchangeRates /\ tx.fr \in FeeRates
      BY <1>3 DEF Answered, At
    <2>2. Leads(now, sy, opened, Books, Books')
      BY <1>1, <1>3, <2>1, TradePtCall
    <2>3. DOMAIN Nothing = {}
      BY NoResults
    <2> QED
      BY <1>1, <1>3, <2>1, <2>2, <2>3, PlainResults, ThenTrails
         DEF Trails, Answered
  <1> QED
    BY <1>2, <1>3, Zenon DEF WrapperBuyPt

LEMMA BaseTrails ==
    ASSUME Amounts = Nat, Kept, InCourse, Answered, WrapperProvideLiquidityBase
    PROVE  Trails /\ Answered'
  <1>0. tx.handler = Base
    BY DEF WrapperProvideLiquidityBase, At, Base
  <1>1. /\ TxTyped /\ tx.amount \in Nat /\ market \in MarketAccount
        /\ tx.handler = Base /\ MaxU64 \in Nat
        /\ "market" \in Loaded(tx.handler) /\ InCourse /\ CopiesCurrent
    <2>1. TxTyped /\ market \in MarketAccount /\ InCourse /\ CopiesCurrent
      BY KeptFacts DEF Kept
    <2>2. tx.amount \in Nat /\ MaxU64 \in Nat
      BY KeptFacts, TransactionsAssumption
    <2>3. Loaded(Base) = {"market"}
      BY LoadedAccounts DEF Base
    <2> QED
      BY <1>0, <2>1, <2>2, <2>3
  <1>2. ASSUME NEW er \in ExchangeRates, NEW fr \in FeeRates, NEW base,
               MintSy(base), Then("flag", {}, [er |-> er, fr |-> fr])
        PROVE  Trails /\ Answered'
    <2> DEFINE R == [er |-> er, fr |-> fr]
    <2>1. "er" \in DOMAIN R /\ "fr" \in DOMAIN R /\ R["er"] = er /\ R["fr"] = fr
      OBVIOUS
    <2>2. Plain(R) /\ Then("flag", {}, R)
      BY <1>2, PlainResults
    <2> HIDE DEF R
    <2> QED
      BY <1>1, <1>2, <2>1, <2>2, BooksStay, ThenTrails
         DEF MintSy, Trails, Answered
  <1>3. ASSUME tx.pc # "start", Leads(now, sy, opened, Books, Books'),
               NEW pc, NEW reloads, NEW results, Then(pc, reloads, results),
               Plain(results),
               DOMAIN results \cap {"er", "fr"} = {}
        PROVE  Trails /\ Answered'
    BY <1>1, <1>3, ThenTrails DEF Trails, Answered
  <1>4. CASE /\ At("wrapper_provide_liquidity_base", "flag")
             /\ market' = [tx.copy.market EXCEPT !.is_current_flash_swap = TRUE]
             /\ UNCHANGED <<vaultBooks, lp_tokens, wallet, ledger>>
             /\ Then("trade_pt", {"market"}, Nothing)
    <2>1. market' = WithFlag(market, TRUE)
      BY <1>1, <1>4 DEF CopiesCurrent, WithFlag, At
    <2>2. Leads(now, sy, opened, Books, Books')
      BY <1>1, <1>4, <2>1, MarkCall
    <2> QED
      BY <1>3, <1>4, <2>2, PlainResults, NoResults DEF At
  <1>5. CASE /\ At("wrapper_provide_liquidity_base", "trade_pt")
             /\ DoCpiTradePt(TradeOf(TRUE, tx.amount, tx.er, tx.fr))
             /\ Then("deposit_liquidity", {"market"}, Nothing)
    <2>1. tx.er \in ExchangeRates /\ tx.fr \in FeeRates
      BY <1>1, <1>5 DEF Answered, At
    <2>2. Leads(now, sy, opened, Books, Books')
      BY <1>1, <1>5, <2>1, TradePtCall
    <2> QED
      BY <1>3, <1>5, <2>2, PlainResults, NoResults DEF At
  <1>6. CASE /\ At("wrapper_provide_liquidity_base", "deposit_liquidity")
             /\ DoCpiDepositLiquidity(tx.amount, MaxU64)
             /\ Then("deposit_lp", {"market"}, [lp |-> wallet'.lp - wallet.lp])
    <2>1. Leads(now, sy, opened, Books, Books')
      BY <1>1, <1>6, DepositLiquidityCall
    <2>2. DOMAIN [lp |-> wallet'.lp - wallet.lp] \cap {"er", "fr"} = {}
      OBVIOUS
    <2> QED
      BY <1>3, <1>6, <2>1, <2>2, PlainResults DEF At
  <1>7. CASE /\ At("wrapper_provide_liquidity_base", "deposit_lp")
             /\ DoCpiDepositLp(tx.lp)
             /\ Then("unflag", {"market"}, Nothing)
    <2>1. Leads(now, sy, opened, Books, Books')
      BY <1>1, <1>7, DepositLpCall
    <2> QED
      BY <1>3, <1>7, <2>1, PlainResults, NoResults DEF At
  <1>8. CASE /\ At("wrapper_provide_liquidity_base", "unflag")
             /\ NoCall
             /\ tx' = [tx EXCEPT !.pc = "exit", !.copy = FlashSwapEnded(tx.copy)]
    <2> DEFINE copy == FlashSwapEnded(tx.copy)
    <2>1. tx' = [tx EXCEPT !.pc = "exit", !.copy = copy]
      BY <1>8
    <2> HIDE DEF copy
    <2>2. DOMAIN tx = {"handler", "pc", "amount", "amount_pt", "er", "fr", "sy",
                       "py", "lp", "copy", "log"}
      BY <1>1 DEF TxTyped, Idle
    <2>3. /\ tx'.log = tx.log /\ tx'.handler = tx.handler
          /\ tx'.er = tx.er /\ tx'.fr = tx.fr
      BY <2>1, <2>2
    <2>4. Logged = tx.log /\ Leads(now, sy, opened, Books, Books')
      BY <1>8, BooksStay DEF NoCall, Logged
    <2> QED
      BY <1>1, <1>8, <2>3, <2>4 DEF Trails, Answered, At
  <1> QED
    BY <1>2, <1>4, <1>5, <1>6, <1>7, <1>8, Zenon DEF WrapperProvideLiquidityBase

LEMMA WrapperTrails ==
    ASSUME Amounts = Nat, Kept, InCourse, Answered, WrapperStep
    PROVE  Trails /\ Answered'
  <1>1. CASE WrapperBuyPt
    BY <1>1, BuyPtTrails
  <1>2. CASE WrapperProvideLiquidityBase
    BY <1>2, BaseTrails
  <1>3. CASE ~WrapperBuyPt /\ ~WrapperProvideLiquidityBase
    <2>1. Trails
      BY <1>3, StripTrails, MergeTrails, CollectInterestTrails, SellPtTrails,
         BuyYtTrails, SellYtTrails, ProvideTrails, ClassicTrails,
         WithdrawTrails, WithdrawClassicTrails DEF WrapperStep
    <2>2. tx.handler \notin {"wrapper_buy_pt", Base}
      BY <1>3 DEF WrapperStep, WrapperStrip, WrapperMerge,
         WrapperCollectInterest, WrapperSellPt, WrapperBuyYt, WrapperSellYt,
         WrapperProvideLiquidity, WrapperProvideLiquidityClassic,
         WrapperWithdrawLiquidity, WrapperWithdrawLiquidityClassic,
         WithdrawLpAndLiquidity, At, Base
    <2> QED
      BY <2>1, <2>2 DEF Trails, Answered
  <1> QED
    BY <1>1, <1>2, <1>3

-----------------------------------------------------------------------------
(* What is written leads on to what others see next.                       *)

\* Published accounts are a step of the vault's, or leave it,
LEMMA VaultPublished ==
    ASSUME UNCHANGED <<now, sy, opened>>,
           VaultLeads(now, sy, opened, committed.books, committed'.books)
    PROVE  [PV!Next]_(PV!vars)
  <1>1. CASE VaultStays(committed.books, committed'.books)
    BY <1>1, Zenon DEF VaultStays, PV!vars
  <1>2. CASE \E amount \in Amounts :
                StripLeads(now, sy, committed.books, committed'.books, amount)
    BY <1>2, StripPublished, Zenon DEF PV!Next, PV!UserStep
  <1>3. CASE \E amount \in Amounts :
                MergeLeads(now, sy, committed.books, committed'.books, amount)
    BY <1>3, MergePublished, Zenon DEF PV!Next, PV!UserStep
  <1>4. CASE \E amount \in Amounts :
                DepositYtLeads(now, sy, opened, committed.books,
                               committed'.books, amount)
    BY <1>4, DepositYtPublished, Zenon DEF PV!Next, PV!UserStep
  <1>5. CASE CollectInterestLeads(now, sy, opened, committed.books,
                                  committed'.books)
    BY <1>5, CollectInterestPublished, Zenon DEF PV!Next, PV!UserStep
  <1> QED
    BY <1>1, <1>2, <1>3, <1>4, <1>5, Zenon DEF VaultLeads

\* ... and a step of the pool's, or leave it.
LEMMA PoolPublished ==
    ASSUME UNCHANGED <<now, sy>>,
           committed.books.market \in MarketAccount,
           committed'.books.market \in MarketAccount,
           PoolLeads(now, sy, committed.books, committed'.books)
    PROVE  [PM!Next]_(PM!vars)
  <1> DEFINE b == committed.books
             c == committed'.books
             q == [f \in DOMAIN committed.books.market \ {"lp_escrow_amount"} |->
                      IF f = "is_current_flash_swap" THEN FALSE
                      ELSE committed.books.market[f]]
  <1>1. CASE PoolStays(b, c)
    <2>1. q' = q /\ c.lp_tokens = b.lp_tokens
      <3>1. q = Public(b.market) /\ q' = Public(c.market)
        BY PublicMarket
      <3> HIDE DEF q, b, c
      <3> QED
        BY <1>1, <3>1 DEF PoolStays
    <2> QED
      BY <2>1, Zenon DEF PM!vars, rate
  <1>2. CASE \E pt, amount \in Amounts \cup {MaxU64} :
                DepositLiquidityLeads(now, sy, b, c, pt, amount)
    BY <1>2, DepositLiquidityPublished, Zenon DEF PM!Next, PM!Liquidity
  <1>3. CASE \E lp \in Amounts : WithdrawLiquidityLeads(now, sy, b, c, lp)
    BY <1>3, WithdrawLiquidityPublished, Zenon DEF PM!Next, PM!Liquidity
  <1>4. ASSUME NEW er \in ExchangeRates, NEW fr \in FeeRates,
               NEW is_buy \in BOOLEAN, NEW pt \in Amounts,
               NEW flash \in {FALSE, is_buy},
               TradePtLeads(now, sy, b, c,
                            [is_buy |-> is_buy, pt |-> pt, er |-> er,
                             fr |-> fr, flash |-> flash])
        PROVE  PM!Trading
    <2> DEFINE x == [is_buy |-> is_buy, pt |-> pt, er |-> er, fr |-> fr,
                     flash |-> flash]
    <2>1. PM!TradePt(x) /\ PM!Bounded
      BY <1>4, TradePtPublished
    <2>2. q.is_current_flash_swap = FALSE
      BY PublicPoolFields
    <2>3. flash \in {q.is_current_flash_swap, is_buy}
      BY <1>4, <2>2
    <2> QED
      BY <2>1, <2>3, Zenon DEF PM!Trading
  <1>5. ASSUME NEW er \in ExchangeRates, NEW fr \in FeeRates,
               NEW sy_in \in Amounts, NEW yt_out \in Amounts,
               BuyYtLeads(now, sy, b, c, sy_in, yt_out, er, fr)
        PROVE  PM!Trading
    <2>1. PM!BuyYt(sy_in, yt_out, er, fr) /\ PM!Bounded
      BY <1>5, BuyYtPublished
    <2> QED
      BY <2>1, Zenon DEF PM!Trading
  <1>6. ASSUME NEW er \in ExchangeRates, NEW fr \in FeeRates,
               NEW yt_in \in Amounts,
               SellYtLeads(now, sy, b, c, yt_in, er, fr)
        PROVE  PM!Trading
    <2>1. PM!SellYt(yt_in, er, fr) /\ PM!Bounded
      BY <1>6, SellYtPublished
    <2> QED
      BY <2>1, Zenon DEF PM!Trading
  <1>7. \/ PoolStays(b, c)
        \/ \E pt, amount \in Amounts \cup {MaxU64} :
              DepositLiquidityLeads(now, sy, b, c, pt, amount)
        \/ \E lp \in Amounts : WithdrawLiquidityLeads(now, sy, b, c, lp)
        \/ PM!Trading
    BY <1>4, <1>5, <1>6, Zenon DEF PoolLeads
  <1> QED
    BY <1>1, <1>2, <1>3, <1>7, Zenon DEF PM!Next

LEMMA LeadsPublished ==
    ASSUME UNCHANGED <<now, sy, opened>>,
           committed.books \in BooksSet, committed'.books \in BooksSet,
           Leads(now, sy, opened, committed.books, committed'.books)
    PROVE  [PV!Next]_(PV!vars) /\ [PM!Next]_(PM!vars)
  <1>1. /\ committed.books.market \in MarketAccount
        /\ committed'.books.market \in MarketAccount
    BY DEF BooksSet
  <1> QED
    BY <1>1, VaultPublished, PoolPublished DEF Leads

\* Until something is published others see no change.
LEMMA OthersStill ==
    ASSUME UNCHANGED <<now, sy, opened, committed>>
    PROVE  UNCHANGED PV!vars /\ UNCHANGED PM!vars
  BY DEF PV!vars, PM!vars, rate

-----------------------------------------------------------------------------
(* The steps.                                                              *)

\* The invariants hold again, and others saw a step of either side or none.
Told ==
    /\ Trail' /\ Answered'
    /\ [PV!Next]_(PV!vars) /\ [PM!Next]_(PM!vars)

\* Only those two wrappers remember an answer.
LEMMA AnsweredOutside ==
    ASSUME tx'.handler = "none" \/ tx'.pc = "start"
    PROVE  Answered'
  BY DEF Answered, Base

\* A wrapper at work tells others nothing.
LEMMA WrapperTold ==
    ASSUME Amounts = Nat, Kept, Kept', Trail, Answered,
           WrapperStep, UNCHANGED others, InCourse
    PROVE  Told
  <1>3. Trails /\ Answered'
    BY WrapperTrails
  <1>4. Trail'
    BY <1>3, TrailGrows DEF Trails, InCourse
  <1> QED
    BY <1>3, <1>4, OthersStill DEF Told, others

\* What a wrapper writes back on return leads on: its copies are current.
LEMMA ExitTold ==
    ASSUME Kept, Kept', Trail, Answered, Exit
    PROVE  Told
  <1>1. tx.pc = "exit" /\ UNCHANGED others
    BY DEF Exit, At
  <1>2. InCourse
    BY <1>1 DEF Kept, TxTyped, InCourse
  <1>3. Kept /\ market \in MarketAccount
    BY KeptFacts
  <1>4. /\ tx'.log = Logged /\ tx'.handler = tx.handler /\ tx'.pc = "publish"
        /\ tx'.er = tx.er /\ tx'.fr = tx.fr
    <2>1. TxTyped /\ Then("publish", {}, Nothing)
      BY <1>3 DEF Exit, Kept
    <2> QED
      BY <2>1, NoResults, PlainResults, ThenTrails
  <1>5. /\ UNCHANGED <<position, py_tokens, sy_vault, lp_tokens>>
        /\ vault' = vault
    BY <1>2, <1>3 DEF Exit, Kept, CopiesCurrent
  <1>6. market' = market \/ market' = WithFlag(market, FALSE)
    BY <1>1, <1>2, <1>3 DEF Exit, Kept, CopiesCurrent, WithFlag
  <1>7. Leads(now, sy, opened, Books, Books')
    <2>1. CASE market' = market
      BY <1>5, <2>1, BooksStay DEF books
    <2>2. CASE market' = WithFlag(market, FALSE)
      <3>1. market \in MarketAccount /\ UNCHANGED <<vaultBooks, lp_tokens>>
        BY <1>3, <1>5 DEF vaultBooks
      <3> QED
        BY <2>2, <3>1, MarkCall
    <2> QED
      BY <1>6, <2>1, <2>2, Zenon
  <1>8. Trail'
    BY <1>1, <1>2, <1>4, <1>7, TrailGrows DEF InCourse
  <1>9. Answered'
    BY <1>1, <1>4 DEF Answered
  <1> QED
    BY <1>1, <1>8, <1>9, OthersStill DEF Told, others

\* Between transactions everything has been published.
LEMMA StartTold ==
    ASSUME Kept, Kept', Trail,
           NEW handler \in Handlers, Start(handler)
    PROVE  Told
  <1>1. /\ tx.pc = "idle"
        /\ UNCHANGED <<now, sy, opened, books, committed>>
    BY DEF Start
  <1>2. tx.log = <<>>
    BY <1>1 DEF Kept, TxTyped, Trail
  <1>3. PICK in \in Inputs(handler) :
           tx' = [Idle EXCEPT !.handler = handler, !.pc = "start",
                              !.amount = in[1], !.amount_pt = in[2],
                              !.copy = [vault |-> vault, market |-> market]]
    BY Zenon DEF Start
  <1>4. tx'.log = <<>> /\ tx'.pc = "start"
    <2> DEFINE copy == [vault |-> vault, market |-> market]
               a == in[1]
               b == in[2]
    <2>1. tx' = [Idle EXCEPT !.handler = handler, !.pc = "start",
                             !.amount = a, !.amount_pt = b, !.copy = copy]
      BY <1>3
    <2> HIDE DEF a, b, copy
    <2> QED
      BY <2>1 DEF Idle
  <1>5. committed'.books = Books' /\ "books" \in DOMAIN committed'
    <2>1. committed.books = Books
      BY <1>2, TrailEmpty
    <2>2. Books' = Books
      BY <1>1 DEF Books, books
    <2> QED
      BY <1>1, <2>1, <2>2 DEF Trail
  <1>6. Trail'
    BY <1>4, <1>5, TrailStarts
  <1> QED
    BY <1>1, <1>4, <1>6, AnsweredOutside, OthersStill DEF Told

\* One entry, or the end of the transaction.
LEMMA PublishTold ==
    ASSUME Kept, Kept', Trail, Answered, Publish
    PROVE  Told
  <1>1. /\ tx.pc = "publish" /\ tx.handler # "none" /\ TxTyped
        /\ UNCHANGED <<now, sy, opened, books>>
    BY DEF Publish, Kept, TxTyped
  <1>2. CASE tx.log = <<>>
    <2>1. committed' = Committed /\ tx' = Idle
      BY <1>2 DEF Publish
    <2>2. /\ committed'.books = Books /\ "books" \in DOMAIN committed'
          /\ Books' = Books
      BY <1>1, <2>1 DEF Committed, Books, books
    <2>3. committed.books = Books
      BY <1>2, TrailEmpty
    <2>4. tx'.log = <<>> /\ tx'.handler = "none"
      BY <2>1 DEF Idle
    <2>5. Trail'
      BY <2>2, <2>4, TrailStarts
    <2>6. UNCHANGED <<PV!vars, PM!vars>>
      <3>1. committed'.books = committed.books
        BY <2>2, <2>3
      <3>2. UNCHANGED PV!vars
        BY <1>1, <3>1, Zenon DEF PV!vars
      <3>3. UNCHANGED PM!vars
        BY <1>1, <3>1 DEF PM!vars, rate
      <3> QED
        BY <3>2, <3>3
    <2> QED
      BY <2>4, <2>5, <2>6, AnsweredOutside DEF Told
  <1>3. CASE tx.log # <<>>
    <2>1. /\ committed' = [committed EXCEPT !.books = Head(tx.log)]
          /\ tx' = [tx EXCEPT !.log = Tail(tx.log)]
      BY <1>3 DEF Publish
    <2>2. /\ Trail'
          /\ Leads(now, sy, opened, committed.books, committed'.books)
      BY <1>1, <1>3, <2>1, TrailPublished
    <2>3. [PV!Next]_(PV!vars) /\ [PM!Next]_(PM!vars)
      BY <1>1, <2>2, LeadsPublished DEF Trail
    <2>4. Answered'
      <3>1. DOMAIN tx = {"handler", "pc", "amount", "amount_pt", "er", "fr",
                         "sy", "py", "lp", "copy", "log"}
        BY <1>1 DEF TxTyped, Idle
      <3>2. /\ tx'.handler = tx.handler /\ tx'.pc = tx.pc
            /\ tx'.er = tx.er /\ tx'.fr = tx.fr
        BY <2>1, <3>1
      <3> QED
        BY <3>2 DEF Answered
    <2> QED
      BY <2>2, <2>3, <2>4 DEF Told
  <1> QED
    BY <1>2, <1>3

\* A failed transaction leaves what others saw.
LEMMA AbortTold ==
    ASSUME Kept, Kept', Trail, Abort
    PROVE  Told
  <1>1. UNCHANGED others /\ tx' = Idle
    BY DEF Abort
  <1>2. tx'.log = <<>> /\ tx'.handler = "none"
    BY <1>1 DEF Idle
  <1>3. committed'.books = Books' /\ "books" \in DOMAIN committed'
    <2>1. committed' = committed /\ committed.books \in BooksSet
      BY <1>1 DEF others, Trail
    <2>2. Books' = [vault |-> committed.books.vault,
                    position |-> committed.books.position,
                    py_tokens |-> committed.books.py_tokens,
                    sy_vault |-> committed.books.sy_vault,
                    market |-> committed.books.market,
                    lp_tokens |-> committed.books.lp_tokens]
      BY DEF Abort, Books
    <2>3. Books' = committed.books
      BY <2>1, <2>2 DEF BooksSet
    <2> QED
      BY <2>1, <2>3 DEF Trail
  <1>4. Trail'
    BY <1>2, <1>3, TrailStarts
  <1> QED
    BY <1>1, <1>2, <1>4, AnsweredOutside, OthersStill DEF Told, others

\* The instructions that are no wrapper's are seen at once.
LEMMA OpenTold ==
    ASSUME Kept, Kept', Trail, Open
    PROVE  Told
  <1>1. /\ tx.pc = "open" /\ V!InitializeYieldPosition(User)
        /\ tx' = [tx EXCEPT !.pc = "launch"]
        /\ UNCHANGED marketBooks /\ committed' = Committed'
    BY DEF Open
  <1>2. tx.handler = "none" /\ tx.log = <<>> /\ TxTyped
    BY <1>1 DEF Kept, TxTyped, Trail
  <1>3. committed.books = Books
    BY <1>2, TrailEmpty
  <1>4. committed'.books = Books' /\ "books" \in DOMAIN committed'
    BY <1>1 DEF Committed
  <1>5. tx'.log = <<>> /\ tx'.handler = "none"
    <2>1. DOMAIN tx = {"handler", "pc", "amount", "amount_pt", "er", "fr",
                       "sy", "py", "lp", "copy", "log"}
      BY <1>2 DEF TxTyped, Idle
    <2> QED
      BY <1>1, <1>2, <2>1
  <1>6. Trail'
    BY <1>4, <1>5, TrailStarts
  <1>7. PV!Next
    <2>1. PV!InitializeYieldPosition(User)
      <3>1. /\ committed.books.vault = vault
            /\ committed.books.position = position
            /\ committed.books.py_tokens = py_tokens
            /\ committed.books.sy_vault = sy_vault
            /\ committed'.books.vault = vault'
            /\ committed'.books.position = position'
            /\ committed'.books.py_tokens = py_tokens'
            /\ committed'.books.sy_vault = sy_vault'
        BY <1>3, <1>4, BooksFields
      <3>2. V!NewPosition = PV!NewPosition
        BY DEF V!NewPosition, PV!NewPosition, V!NewTracker, PV!NewTracker
      <3> QED
        BY <1>1, <3>1, <3>2, Zenon
        DEF V!InitializeYieldPosition, PV!InitializeYieldPosition, V!Realloc,
            PV!Realloc, V!syVars, PV!syVars
    <2> QED
      BY <2>1, Zenon DEF PV!Next, PV!UserStep
  <1>8. UNCHANGED PM!vars
    <2>1. /\ committed'.books.market = committed.books.market
          /\ committed'.books.lp_tokens = committed.books.lp_tokens
          /\ UNCHANGED <<now, sy>>
      BY <1>1, <1>3, <1>4, BooksFields
         DEF V!InitializeYieldPosition, V!syVars, marketBooks
    <2> QED
      BY <2>1 DEF PM!vars, rate
  <1> QED
    BY <1>5, <1>6, <1>7, <1>8, AnsweredOutside DEF Told

LEMMA LaunchTold ==
    ASSUME Amounts = Nat, Kept, Kept', Trail, Launch
    PROVE  Told
  <1>1. /\ tx.pc = "launch" /\ V!Strip(StrippedSy) /\ tx' = Idle
        /\ UNCHANGED marketBooks /\ committed' = Committed'
        /\ UNCHANGED <<now, sy, opened>>
    <2>1. V!Strip(StrippedSy)
      BY DEF Launch
    <2>2. UNCHANGED <<now, sy, opened>>
      BY <2>1, Zenon DEF V!Strip
    <2> QED
      BY <2>1, <2>2 DEF Launch
  <1>2. tx.log = <<>>
    BY <1>1 DEF Kept, TxTyped, Trail
  <1>3. committed.books = Books
    BY <1>2, TrailEmpty
  <1>4. committed'.books = Books' /\ "books" \in DOMAIN committed'
    BY <1>1 DEF Committed
  <1>5. tx'.log = <<>> /\ tx'.handler = "none"
    BY <1>1 DEF Idle
  <1>6. Trail'
    BY <1>4, <1>5, TrailStarts
  <1>7. Leads(now, sy, opened, Books, Books')
    <2>1. StrippedSy \in Amounts
      BY TransactionsAssumption
    <2>2. StripLeads(now, sy, Books, Books', StrippedSy)
      BY <1>1, StripLogged
    <2>3. VaultLeads(now, sy, opened, Books, Books')
      BY <2>1, <2>2, Zenon DEF VaultLeads
    <2> QED
      BY <1>1, <2>3, PoolBooksStay DEF Leads
  <1>8. Leads(now, sy, opened, committed.books, committed'.books)
    BY <1>3, <1>4, <1>7
  <1> QED
    BY <1>1, <1>5, <1>6, <1>8, AnsweredOutside, LeadsPublished DEF Told, Trail

\* The clock and the SY program are the same for everyone.
LEMMA EnvironmentTold ==
    ASSUME Kept, Kept', Trail, Environment
    PROVE  Told
  <1>1. /\ tx.pc = "idle"
        /\ \/ V!Tick
           \/ /\ V!SetExchangeRate
              /\ UNCHANGED <<now, vault, position, opened, py_tokens>>
        /\ UNCHANGED <<marketBooks, tx, committed>>
    BY DEF Environment
  <1>2. tx.handler = "none" /\ tx.log = <<>>
    BY <1>1 DEF Kept, TxTyped, Trail
  <1>3. UNCHANGED <<books, opened>>
    BY <1>1 DEF V!Tick, V!SetExchangeRate, V!syVars, marketBooks, books
  <1>4. committed'.books = Books' /\ "books" \in DOMAIN committed'
    <2>1. committed.books = Books
      BY <1>2, TrailEmpty
    <2>2. Books' = Books
      BY <1>3 DEF Books, books
    <2> QED
      BY <1>1, <2>1, <2>2 DEF Trail
  <1>5. Trail'
    BY <1>1, <1>2, <1>4, TrailStarts
  <1>6. CASE V!Tick
    <2>1. now < MaxTime /\ now' = now + 1 /\ UNCHANGED <<sy, opened, committed>>
      BY <1>1, <1>6 DEF V!Tick, V!syVars
    <2>2. PV!Tick
      BY <2>1, Zenon DEF PV!Tick, PV!syVars
    <2>3. PM!Tick
      BY <2>1 DEF PM!Tick, rate
    <2> QED
      BY <1>1, <1>2, <1>5, <2>2, <2>3, AnsweredOutside
         DEF Told, PV!Next, PM!Next
  <1>7. CASE /\ V!SetExchangeRate
             /\ UNCHANGED <<now, vault, position, opened, py_tokens>>
    <2>1. UNCHANGED <<now, opened, committed>>
      BY <1>1, <1>7
    <2>2. PV!SyMoves
      BY <1>7, <2>1 DEF V!SetExchangeRate, PV!SetExchangeRate, PV!SyStep,
         PV!SyMoves
    <2>3. PM!ChangeRate
      <3>1. rate' \in Rates
        BY DEF Kept, rate
      <3> QED
        BY <2>1, <3>1 DEF PM!ChangeRate
    <2> QED
      BY <1>1, <1>2, <1>5, <2>2, <2>3, AnsweredOutside
         DEF Told, PV!Next, PM!Next
  <1> QED
    BY <1>1, <1>6, <1>7

LEMMA StutterTold ==
    ASSUME Trail, Answered, UNCHANGED vars
    PROVE  Told
  <1>1. UNCHANGED <<now, sy, opened, books, tx, committed>>
    BY DEF vars, others
  <1>2. Books' = Books
    BY <1>1 DEF Books, books
  <1>3. Trail' /\ Answered'
    BY <1>1, <1>2 DEF Trail, Answered
  <1> QED
    BY <1>1, <1>3, OthersStill DEF Told

\* Every step.
LEMMA StepTold ==
    ASSUME Amounts = Nat, Kept, Kept', Trail, Answered,
           [Next]_vars, WrapperStep => UNCHANGED others /\ InCourse
    PROVE  Told
  <1>1. CASE Open
    BY <1>1, OpenTold
  <1>2. CASE Launch
    BY <1>2, LaunchTold
  <1>3. CASE Environment
    BY <1>3, EnvironmentTold
  <1>4. CASE \E handler \in Handlers : Start(handler)
    BY <1>4, StartTold
  <1>5. CASE WrapperStep
    BY <1>5, WrapperTold
  <1>6. CASE Exit
    BY <1>6, ExitTold
  <1>7. CASE Publish
    BY <1>7, PublishTold
  <1>8. CASE Abort
    BY <1>8, AbortTold
  <1>9. CASE UNCHANGED vars
    BY <1>9, StutterTold
  <1> QED
    BY <1>1, <1>2, <1>3, <1>4, <1>5, <1>6, <1>7, <1>8, <1>9
       DEF Next, WrapperStep

\* At the start others see the accounts as they are.
LEMMA InitTold ==
    ASSUME Init, Kept
    PROVE  Trail /\ Answered /\ PV!Init /\ PM!Init
  <1>1. /\ now = 0 /\ V!Init /\ committed = Committed
        /\ tx = [Idle EXCEPT !.pc = "open"]
    BY DEF Init
  <1>2. rate \in Rates
    BY DEF Kept
  <1>3. committed.books = Books /\ "books" \in DOMAIN committed
    BY <1>1 DEF Committed
  <1>4. tx.handler = "none" /\ tx.log = <<>>
    BY <1>1 DEF Idle
  <1>5. Trail
    <2>1. Books \in BooksSet
      BY DEF Kept
    <2>2. LeadsTo(now, sy, opened, committed.books, tx.log, Books)
      BY <1>3, <1>4, TrailOfNone
    <2> QED
      BY <1>3, <1>4, <2>1, <2>2 DEF Trail
  <1>6. PV!Init
    <2>1. /\ committed.books.vault = vault
          /\ committed.books.position = position
          /\ committed.books.py_tokens = py_tokens
          /\ committed.books.sy_vault = sy_vault
      BY <1>3, BooksFields
    <2> QED
      BY <1>1, <2>1, Zenon DEF V!Init, PV!Init, V!Flags, PV!Flags, V!Holders,
         PV!Holders, V!NewPosition, PV!NewPosition, V!NewTracker,
         PV!NewTracker, V!SyInit, PV!SyInit
  <1>7. PM!Init
    <2> DEFINE q == [f \in DOMAIN committed.books.market \ {"lp_escrow_amount"} |->
                        IF f = "is_current_flash_swap" THEN FALSE
                        ELSE committed.books.market[f]]
               limits == [window_start_timestamp |-> 0,
                          window_start_net_balance |-> 0,
                          negative |-> 10000, positive |-> MaxU32,
                          duration |-> 0]
               r == [pt_balance |-> InitialPt, sy_balance |-> InitialSy,
                     status_flags |-> PM!Flags,
                     fee_treasury_sy_bps |-> TreasuryFeeBps,
                     max_lp_supply |-> MaxU64, is_current_flash_swap |-> FALSE,
                     limits |-> limits]
    <2>1. committed.books.market = market
          /\ committed.books.lp_tokens = lp_tokens
      BY <1>3, BooksFields
    <2>2. market = [lp_escrow_amount |-> 0,
                 pt_balance |-> InitialPt, sy_balance |-> InitialSy,
                 status_flags |-> M!Flags, fee_treasury_sy_bps |-> TreasuryFeeBps,
                 max_lp_supply |-> MaxU64, is_current_flash_swap |-> FALSE,
                 limits |-> limits]
      BY DEF Init
    <2>3. M!Flags = PM!Flags
      BY DEF M!Flags, PM!Flags
    <2>4. lp_tokens = [mint_lp |-> InitialLp, pt_escrow |-> InitialPt,
                       sy_position |-> InitialSy]
      BY DEF Init
    <2> HIDE DEF limits
    <2>5. q = r
      <3>1. DOMAIN market \ {"lp_escrow_amount"} = DOMAIN r
        BY <2>2
      <3>2. /\ market.pt_balance = r.pt_balance
            /\ market.sy_balance = r.sy_balance
            /\ market.status_flags = r.status_flags
            /\ market.fee_treasury_sy_bps = r.fee_treasury_sy_bps
            /\ market.max_lp_supply = r.max_lp_supply
            /\ market.limits = r.limits
            /\ r.is_current_flash_swap = FALSE
        BY <2>2, <2>3
      <3>3. DOMAIN r = {"pt_balance", "sy_balance", "status_flags",
                        "fee_treasury_sy_bps", "max_lp_supply",
                        "is_current_flash_swap", "limits"}
        OBVIOUS
      <3>4. r = [f \in DOMAIN r |-> r[f]]
        OBVIOUS
      <3> HIDE DEF r
      <3>5. \A f \in DOMAIN r :
              (IF f = "is_current_flash_swap" THEN FALSE ELSE market[f]) = r[f]
        BY <3>2, <3>3
      <3> QED
        BY <2>1, <3>1, <3>4, <3>5
    <2> HIDE DEF q
    <2>6. q = [pt_balance |-> InitialPt, sy_balance |-> InitialSy,
               status_flags |-> PM!Flags, fee_treasury_sy_bps |-> TreasuryFeeBps,
               max_lp_supply |-> MaxU64, is_current_flash_swap |-> FALSE,
               limits |-> [window_start_timestamp |-> 0,
                           window_start_net_balance |-> 0,
                           negative |-> 10000, positive |-> MaxU32,
                           duration |-> 0]]
      BY <2>5 DEF r, limits
    <2>7. /\ now = 0 /\ rate \in Rates
          /\ committed.books.lp_tokens = [mint_lp |-> InitialLp,
                 pt_escrow |-> InitialPt, sy_position |-> InitialSy]
      BY <1>1, <1>2, <2>1, <2>4
    <2> HIDE DEF r, limits
    <2> QED
      <3> DEFINE account == [pt_balance |-> InitialPt, sy_balance |-> InitialSy,
                             status_flags |-> PM!Flags,
                             fee_treasury_sy_bps |-> TreasuryFeeBps,
                             max_lp_supply |-> MaxU64,
                             is_current_flash_swap |-> FALSE,
                             limits |-> [window_start_timestamp |-> 0,
                                         window_start_net_balance |-> 0,
                                         negative |-> 10000, positive |-> MaxU32,
                                         duration |-> 0]]
                 held == [mint_lp |-> InitialLp, pt_escrow |-> InitialPt,
                          sy_position |-> InitialSy]
      <3>1. q = account
        BY <2>6
      <3>2. committed.books.lp_tokens = held
        BY <2>7
      <3>3. PM!Init <=> /\ now = 0 /\ rate \in Rates
                        /\ q = account /\ committed.books.lp_tokens = held
        <4> HIDE DEF account, held
        <4> QED
          BY SMT DEF PM!Init, PM!MarketTwoInit, q, account, held
      <3> HIDE DEF account, held
      <3> QED
        BY <2>7, <3>1, <3>2, <3>3
  <1> QED
    BY <1>4, <1>5, <1>6, <1>7 DEF Answered, Base

-----------------------------------------------------------------------------
(* The vault's and the pool's own invariants.                              *)

VP == INSTANCE VaultProofs WITH
        Users <- {User}, StartTs <- 0,
        Indexes <- {}, FirstIndexes <- {}, MaxStreams <- 0, MayDepreciate <- TRUE,
        MaxSy <- MaxU64, InitialFeeBps <- InterestFeeBps, InitialMinOp <- 1,
        StripAmounts <- Amounts, MergeAmounts <- Amounts, YtAmounts <- Amounts,
        ClaimAmounts <- {}, StatusChoices <- {}, FeeChoices <- {},
        MinOpChoices <- {}, LimitChoices <- {}, SupplyChoices <- {},
        EmissionFees <- {}, MayRemoveEmission <- FALSE,
        tokens <- py_tokens, sy_position <- sy_vault

LEMMA FiniteUser == VP!IsFiniteSet({User})
  <1>1. IsFiniteSet({User})
    BY FS_Singleton
  <1> QED
    BY <1>1 DEF IsFiniteSet, VP!IsFiniteSet

LEMMA Constants ==
    /\ User # Robot
    /\ Rates \subseteq Nat \ {0} /\ Rates # {}
    /\ ExchangeRates \subseteq Nat /\ FeeRates \subseteq Nat
    /\ Duration \in Nat /\ MaxU32 \in Nat /\ MaxU64 \in Nat
    /\ MaxTime \in Nat /\ MaxTime \in 0..MaxU32
    /\ InterestFeeBps \in Nat /\ TreasuryFeeBps \in 0..10000
    /\ InitialPt \in Nat \ {0} /\ InitialSy \in Nat \ {0} /\ InitialLp \in Nat
    /\ MaxBalance \in Nat
    /\ Amounts \subseteq Nat
    /\ ONE \in Nat \ {0}
  BY TransactionsAssumption, OneAssumption

-----------------------------------------------------------------------------
(* The vault of Transactions and that of VaultProofs are two instances of   *)
(* one module: what they define is the same.                                *)

LEMMA SameRounding ==
    ASSUME NEW a, NEW b, NEW c
    PROVE  /\ V!FromNatural(a) = VP!FromNatural(a)
           /\ V!NumMul(a, b) = VP!NumMul(a, b)
           /\ V!NumDiv(a, b) = VP!NumDiv(a, b)
           /\ V!FromRatio(a, b) = VP!FromRatio(a, b)
           /\ V!Floor(a) = VP!Floor(a)
           /\ V!Larger(a, b) = VP!Larger(a, b)
           /\ V!Smaller(a, b) = VP!Smaller(a, b)
           /\ V!CeilFee(a, b) = VP!CeilFee(a, b)
  BY DEF V!FromNatural, VP!FromNatural, V!NumMul, VP!NumMul, V!NumDiv,
     VP!NumDiv, V!FromRatio, VP!FromRatio, V!Floor, VP!Floor, V!Larger,
     VP!Larger, V!Smaller, VP!Smaller, V!CeilFee, VP!CeilFee,
     V!RoundingCorrection, VP!RoundingCorrection

LEMMA SameConversions ==
    ASSUME NEW a, NEW b, NEW c
    PROVE  /\ V!SyToPy(a, b) = VP!SyToPy(a, b)
           /\ V!PyToSy(a, b) = VP!PyToSy(a, b)
           /\ V!CalcEarnedSy(a, b, c) = VP!CalcEarnedSy(a, b, c)
           /\ V!ScaleSyToCurrentRate(a, b, c) = VP!ScaleSyToCurrentRate(a, b, c)
           /\ V!CalcSyAppreciation(a, b, c) = VP!CalcSyAppreciation(a, b, c)
           /\ V!CalcShareValue(a, b, c) = VP!CalcShareValue(a, b, c)
           /\ V!RedeemPt(a, b, c) = VP!RedeemPt(a, b, c)
  BY SameRounding DEF V!SyToPy, VP!SyToPy, V!PyToSy, VP!PyToSy,
     V!CalcEarnedSy, VP!CalcEarnedSy, V!ScaleSyToCurrentRate,
     VP!ScaleSyToCurrentRate, V!CalcSyAppreciation, VP!CalcSyAppreciation,
     V!CalcShareValue, VP!CalcShareValue, V!RedeemPt, VP!RedeemPt

LEMMA SameVault ==
    ASSUME NEW v, NEW s, NEW t
    PROVE  /\ V!IsExpired(t) = VP!IsExpired(t)
           /\ V!IsActive(t) = VP!IsActive(t)
           /\ V!InEmergency(v) = VP!InEmergency(v)
           /\ V!CanEarn(v) = VP!CanEarn(v)
           /\ V!ActiveSy(v) = VP!ActiveSy(v)
           /\ V!SetSyForPt(v) = VP!SetSyForPt(v)
           /\ V!SySurplus(v, s, t) = VP!SySurplus(v, s, t)
  BY SameRounding, SameConversions DEF V!IsExpired, VP!IsExpired, V!IsActive,
     VP!IsActive, V!InEmergency, VP!InEmergency, V!CanEarn, VP!CanEarn,
     V!ActiveSy, VP!ActiveSy, V!SetSyForPt, VP!SetSyForPt, V!SySurplus,
     VP!SySurplus, V!SyBackingForPt, VP!SyBackingForPt

LEMMA SameEmission ==
    ASSUME NEW v, NEW e, NEW i, NEW t
    PROVE  V!SeenEmission(v, e, i, t) = VP!SeenEmission(v, e, i, t)
  BY SameConversions, SameVault, Zenon DEF V!SeenEmission, VP!SeenEmission

LEMMA SameSeenEmissions ==
    ASSUME NEW v, NEW s, NEW t
    PROVE  V!SeenEmissions(v, s, t) = VP!SeenEmissions(v, s, t)
  <1> DEFINE f == [i \in DOMAIN v.emissions |->
                     IF i \in DOMAIN s.emission_indexes
                     THEN V!SeenEmission(v, v.emissions[i],
                                         s.emission_indexes[i], t)
                     ELSE v.emissions[i]]
             g == [i \in DOMAIN v.emissions |->
                     IF i \in DOMAIN s.emission_indexes
                     THEN VP!SeenEmission(v, v.emissions[i],
                                          s.emission_indexes[i], t)
                     ELSE v.emissions[i]]
  <1>1. \A i \in DOMAIN v.emissions : f[i] = g[i]
    BY SameEmission
  <1>2. f = g
    BY <1>1
  <1> QED
    BY <1>2 DEF V!SeenEmissions, VP!SeenEmissions

LEMMA SameUpdate ==
    ASSUME NEW v, NEW s, NEW t
    PROVE  /\ V!SeenState(v, s, t) = VP!SeenState(v, s, t)
           /\ V!UpdateFromSyState(v, s, t) = VP!UpdateFromSyState(v, s, t)
  <1>1. V!SeenState(v, s, t) = VP!SeenState(v, s, t)
    <2>1. /\ V!SySurplus(v, s.exchange_rate, t)
               = VP!SySurplus(v, s.exchange_rate, t)
          /\ V!Larger(s.exchange_rate, v.all_time_high_sy_exchange_rate)
               = VP!Larger(s.exchange_rate, v.all_time_high_sy_exchange_rate)
          /\ V!IsActive(t) = VP!IsActive(t)
          /\ V!SeenEmissions(v, s, t) = VP!SeenEmissions(v, s, t)
      BY SameRounding, SameVault, SameSeenEmissions
    <2> QED
      BY <2>1, Zenon DEF V!SeenState, VP!SeenState
  <1> QED
    BY <1>1, SameVault DEF V!UpdateFromSyState, VP!UpdateFromSyState

LEMMA SameEarning ==
    ASSUME NEW v, NEW p, NEW n
    PROVE  /\ V!EarnedSy(v, p) = VP!EarnedSy(v, p)
           /\ V!EarnSyInterest(v, p) = VP!EarnSyInterest(v, p)
           /\ V!TotalSyBalance(v, p) = VP!TotalSyBalance(v, p)
           /\ V!EarnAllVault(v, p) = VP!EarnAllVault(v, p)
           /\ V!EnsureTrackers(p, n) = VP!EnsureTrackers(p, n)
  BY SameRounding, SameConversions, SameVault DEF V!EarnedSy, VP!EarnedSy,
     V!EarnSyInterest, VP!EarnSyInterest, V!TotalSyBalance, VP!TotalSyBalance,
     V!EarnAllVault, VP!EarnAllVault, V!EnsureTrackers, VP!EnsureTrackers,
     V!NewTracker, VP!NewTracker

LEMMA SamePosition ==
    ASSUME NEW v, NEW p
    PROVE  /\ V!EarnEmissions(v, p) = VP!EarnEmissions(v, p)
           /\ V!EarnAllPosition(v, p) = VP!EarnAllPosition(v, p)
  <1>1. ASSUME NEW q
        PROVE  V!EarnEmissions(v, q) = VP!EarnEmissions(v, q)
    <2> DEFINE f == [i \in DOMAIN q.emissions |->
                       IF i \in DOMAIN v.emissions
                       THEN [last_seen_index |-> v.emissions[i].final_index,
                             staged |-> q.emissions[i].staged
                                        + V!CalcShareValue(
                                            q.emissions[i].last_seen_index,
                                            v.emissions[i].final_index,
                                            V!TotalSyBalance(v, q))]
                       ELSE q.emissions[i]]
               g == [i \in DOMAIN q.emissions |->
                       IF i \in DOMAIN v.emissions
                       THEN [last_seen_index |-> v.emissions[i].final_index,
                             staged |-> q.emissions[i].staged
                                        + VP!CalcShareValue(
                                            q.emissions[i].last_seen_index,
                                            v.emissions[i].final_index,
                                            VP!TotalSyBalance(v, q))]
                       ELSE q.emissions[i]]
    <2>1. \A i \in DOMAIN q.emissions : f[i] = g[i]
      BY SameConversions, SameEarning
    <2>2. f = g
      BY <2>1
    <2> QED
      BY <2>2 DEF V!EarnEmissions, VP!EarnEmissions
  <1> QED
    BY <1>1, SameEarning DEF V!EarnAllPosition, VP!EarnAllPosition

LEMMA SameUpdated ==
    /\ V!SeenVault = VP!SeenVault
    /\ V!UpdatedVault = VP!UpdatedVault
    /\ V!UpdatedRobot = VP!UpdatedRobot
  BY SameUpdate, SameEarning, SamePosition
  DEF V!SeenVault, VP!SeenVault, V!UpdatedVault, VP!UpdatedVault,
      V!UpdatedRobot, VP!UpdatedRobot

LEMMA SameChecks ==
    ASSUME NEW v, NEW p, NEW py, NEW amount
    PROVE  /\ V!CanUpdateYield(v, p) = VP!CanUpdateYield(v, p)
           /\ V!Fits(p) = VP!Fits(p)
           /\ V!Realloc(p) = VP!Realloc(p)
           /\ V!IncYtBalance(p, py) = VP!IncYtBalance(p, py)
           /\ V!DecYtBalance(p, py) = VP!DecYtBalance(p, py)
           /\ V!DecStaged(p, py) = VP!DecStaged(p, py)
           /\ V!BurnedYt(py) = VP!BurnedYt(py)
           /\ V!MergedSy(py, v) = VP!MergedSy(py, v)
  BY SameVault, SameConversions
  DEF V!CanUpdateYield, VP!CanUpdateYield, V!CanUpdate, VP!CanUpdate,
      V!Fits, VP!Fits, V!Realloc, VP!Realloc, V!IncYtBalance, VP!IncYtBalance,
      V!DecYtBalance, VP!DecYtBalance, V!DecStaged, VP!DecStaged,
      V!BurnedYt, VP!BurnedYt, V!MergedSy, VP!MergedSy

LEMMA SameSyAccrued == V!SyAccrued = VP!SyAccrued
  <1> DEFINE D == DOMAIN sy.emission_indexes
             seen(i) == sy.emission_indexes[i]
             old(i) == sy_vault.emissions[i]
             f == [i \in D |->
                     IF i \in DOMAIN sy_vault.emissions
                     THEN [amount_claimable |->
                             old(i).amount_claimable
                             + V!CalcShareValue(old(i).last_seen_emission_index,
                                                seen(i), sy_vault.sy_balance),
                           last_seen_emission_index |-> seen(i)]
                     ELSE [amount_claimable |-> 0,
                           last_seen_emission_index |-> seen(i)]]
             g == [i \in D |->
                     IF i \in DOMAIN sy_vault.emissions
                     THEN [amount_claimable |->
                             old(i).amount_claimable
                             + VP!CalcShareValue(old(i).last_seen_emission_index,
                                                 seen(i), sy_vault.sy_balance),
                           last_seen_emission_index |-> seen(i)]
                     ELSE [amount_claimable |-> 0,
                           last_seen_emission_index |-> seen(i)]]
  <1>1. \A i \in D : f[i] = g[i]
    BY SameConversions
  <1>2. f = g
    BY <1>1
  <1> QED
    BY <1>2 DEF V!SyAccrued, VP!SyAccrued

LEMMA SameSyCalls ==
    ASSUME NEW amount
    PROVE  /\ V!DepositSy(amount) <=> VP!DepositSy(amount)
           /\ V!WithdrawSy(amount) <=> VP!WithdrawSy(amount)
  BY SameSyAccrued
  DEF V!DepositSy, VP!DepositSy, V!WithdrawSy, VP!WithdrawSy

LEMMA SameStrip ==
    ASSUME NEW amount, V!Strip(amount)
    PROVE  VP!Strip(amount)
  BY SameUpdated, SameChecks, SameVault, SameConversions, SameSyCalls
  DEF V!Strip, VP!Strip

LEMMA SameMerge ==
    ASSUME NEW py, V!Merge(py)
    PROVE  VP!Merge(py)
  BY SameUpdated, SameChecks, SameVault, SameConversions, SameSyCalls
  DEF V!Merge, VP!Merge, V!CanMerge, VP!CanMerge

LEMMA SameDepositYt ==
    ASSUME NEW user, NEW amount, V!DepositYt(user, amount)
    PROVE  VP!DepositYt(user, amount)
  BY SameUpdated, SameChecks, SameVault, SameEarning, SamePosition
  DEF V!DepositYt, VP!DepositYt, V!StagedVault, VP!StagedVault,
      V!StagedPosition, VP!StagedPosition, V!syVars, VP!syVars

LEMMA SameClaims ==
    ASSUME NEW staged, NEW l, NEW amount, NEW t
    PROVE  /\ V!Claimable(staged) = VP!Claimable(staged)
           /\ V!WithinClaimLimits(l, amount, t)
                = VP!WithinClaimLimits(l, amount, t)
           /\ V!CountClaim(l, amount, t) = VP!CountClaim(l, amount, t)
  BY DEF V!Claimable, VP!Claimable, V!WithinClaimLimits, VP!WithinClaimLimits,
         V!CountClaim, VP!CountClaim, V!WindowEnd, VP!WindowEnd,
         V!RolledWindow, VP!RolledWindow

LEMMA SameCollectInterest ==
    ASSUME NEW user, V!CollectInterest(user)
    PROVE  VP!CollectInterest(user)
  <1> DEFINE p == V!EarnAllPosition(vault, position[user])
             v == V!EarnAllVault(vault, position[user])
  <1>1. /\ p = VP!EarnAllPosition(vault, position[user])
        /\ v = VP!EarnAllVault(vault, position[user])
    BY SameEarning, SamePosition
  <1>2. PICK amount \in V!Claimable(position[user].interest.staged) :
          /\ user \in opened
          /\ "collect_interest" \in vault.status
          /\ V!WithinClaimLimits(vault.claim_limits, amount, now)
          /\ V!CanEarn(vault)
          /\ V!WithdrawSy(amount)
          /\ V!CeilFee(amount, vault.interest_bps_fee) <= amount
          /\ amount <= v.total_sy_in_escrow
          /\ amount <= v.uncollected_sy
          /\ V!Fits(p)
          /\ vault' = [v EXCEPT
                 !.claim_limits = V!CountClaim(v.claim_limits, amount, now),
                 !.total_sy_in_escrow = @ - amount,
                 !.uncollected_sy = @ - amount]
          /\ position' = [position EXCEPT
                 ![user] = [p EXCEPT
                              !.interest = V!DecStaged(p.interest, amount)]]
          /\ UNCHANGED <<now, opened, py_tokens, sy>>
    BY Zenon DEF V!CollectInterest
  <1> HIDE DEF p, v
  <1>3. /\ amount \in VP!Claimable(position[user].interest.staged)
        /\ VP!WithinClaimLimits(vault.claim_limits, amount, now)
        /\ VP!CanEarn(vault)
        /\ VP!WithdrawSy(amount)
        /\ VP!CeilFee(amount, vault.interest_bps_fee) <= amount
        /\ VP!Fits(p)
    BY <1>2, SameClaims, SameVault, SameSyCalls, SameRounding, SameChecks
  <1>4. /\ V!CountClaim(v.claim_limits, amount, now)
             = VP!CountClaim(v.claim_limits, amount, now)
        /\ V!DecStaged(p.interest, amount) = VP!DecStaged(p.interest, amount)
    BY SameClaims, SameChecks
  <1>5. /\ vault' = [v EXCEPT
              !.claim_limits = VP!CountClaim(v.claim_limits, amount, now),
              !.total_sy_in_escrow = @ - amount,
              !.uncollected_sy = @ - amount]
        /\ position' = [position EXCEPT
              ![user] = [p EXCEPT
                           !.interest = VP!DecStaged(p.interest, amount)]]
    BY <1>2, <1>4, Zenon
  <1> QED
    BY <1>1, <1>2, <1>3, <1>5, Zenon DEF VP!CollectInterest

LEMMA SameInitializeYieldPosition ==
    ASSUME NEW user, V!InitializeYieldPosition(user)
    PROVE  VP!InitializeYieldPosition(user)
  BY SameChecks
  DEF V!InitializeYieldPosition, VP!InitializeYieldPosition, V!NewPosition,
      VP!NewPosition, V!NewTracker, VP!NewTracker, V!syVars, VP!syVars

LEMMA SameInit ==
    ASSUME V!Init
    PROVE  VP!Init
  BY DEF V!Init, VP!Init, V!Flags, VP!Flags, V!Holders, VP!Holders,
         V!NewPosition, VP!NewPosition, V!NewTracker, VP!NewTracker,
         V!SyInit, VP!SyInit

-----------------------------------------------------------------------------
(* What the vault's instructions do to its invariant, and what they move.  *)

LEMMA StripKeeps ==
    ASSUME VP!IInv, NEW amount \in Nat, V!Strip(amount)
    PROVE  LET py == SyToPy(rate, amount)
           IN  /\ VP!IInv' /\ UNCHANGED <<now, opened, sy>>
               /\ py \in Nat
               /\ py_tokens'.mint_pt = py_tokens.mint_pt + py
               /\ py_tokens'.yt_wallets = py_tokens.yt_wallets + py
               /\ sy_vault'.sy_balance = sy_vault.sy_balance + amount
  <1> DEFINE py == VP!SyToPy(sy.exchange_rate, amount)
  <1>1. VP!Strip(amount) /\ UNCHANGED <<now, opened, sy>>
    BY SameStrip, Zenon DEF V!Strip
  <1>2. VP!IInv'
    BY <1>1, VP!StripInv, FiniteUser, Constants
  <1>3. VP!IInv /\ amount \in Nat /\ VP!Strip(amount)
    BY <1>1
  <1>4. /\ py \in Nat
        /\ py_tokens'.mint_pt = py_tokens.mint_pt + py
        /\ py_tokens'.yt_wallets = py_tokens.yt_wallets + py
        /\ sy_vault'.sy_balance = sy_vault.sy_balance + amount
    BY ONLY <1>3, VP!StripMoves, FiniteUser, Constants
  <1>5. SyToPy(rate, amount) = py
    BY DEF SyToPy, VP!SyToPy, NumMul, VP!NumMul, Floor, VP!Floor,
       FromNatural, VP!FromNatural, RoundingCorrection, VP!RoundingCorrection,
       rate
  <1> QED
    BY <1>1, <1>2, <1>4, <1>5

LEMMA MergeKeeps ==
    ASSUME VP!IInv, NEW py \in Nat, V!Merge(py)
    PROVE  /\ VP!IInv' /\ UNCHANGED <<now, opened, sy>>
           /\ py_tokens'.mint_pt = py_tokens.mint_pt - py
           /\ py_tokens'.yt_wallets = py_tokens.yt_wallets - V!BurnedYt(py)
           /\ py <= py_tokens.mint_pt
           /\ V!BurnedYt(py) \in Nat /\ V!BurnedYt(py) <= py_tokens.yt_wallets
           /\ \E amount \in Nat :
                 /\ amount <= sy_vault.sy_balance
                 /\ sy_vault'.sy_balance = sy_vault.sy_balance - amount
  <1>1. VP!Merge(py) /\ UNCHANGED <<now, opened, sy>>
    BY SameMerge, Zenon DEF V!Merge
  <1>2. V!BurnedYt(py) = VP!BurnedYt(py)
    BY SameChecks
  <1>3. VP!IInv'
    BY <1>1, VP!MergeInv, FiniteUser, Constants
  <1>4. VP!IInv /\ py \in Nat /\ VP!Merge(py)
    BY <1>1
  <1>5. /\ py_tokens'.mint_pt = py_tokens.mint_pt - py
        /\ py_tokens'.yt_wallets = py_tokens.yt_wallets - VP!BurnedYt(py)
        /\ py <= py_tokens.mint_pt
        /\ VP!BurnedYt(py) \in Nat /\ VP!BurnedYt(py) <= py_tokens.yt_wallets
        /\ \E amount \in Nat :
              /\ amount <= sy_vault.sy_balance
              /\ sy_vault'.sy_balance = sy_vault.sy_balance - amount
    BY ONLY <1>4, VP!MergeMoves, FiniteUser, Constants
  <1> QED
    BY <1>1, <1>2, <1>3, <1>5

LEMMA DepositYtKeeps ==
    ASSUME VP!IInv, NEW amount \in Nat, V!DepositYt(User, amount)
    PROVE  /\ VP!IInv' /\ UNCHANGED <<now, opened, sy, sy_vault>>
           /\ py_tokens' = [py_tokens EXCEPT !.yt_wallets = @ - amount,
                                             !.escrow_yt = @ + amount]
           /\ amount <= py_tokens.yt_wallets
  <1>1. /\ VP!DepositYt(User, amount)
        /\ UNCHANGED <<now, opened, sy, sy_vault>>
        /\ py_tokens' = [py_tokens EXCEPT !.yt_wallets = @ - amount,
                                          !.escrow_yt = @ + amount]
        /\ amount <= py_tokens.yt_wallets
    BY SameDepositYt, Zenon DEF V!DepositYt, V!syVars
  <1>2. VP!IInv'
    BY <1>1, VP!DepositYtInv, FiniteUser, Constants
  <1> QED
    BY <1>1, <1>2

LEMMA CollectInterestKeeps ==
    ASSUME VP!IInv, V!CollectInterest(User)
    PROVE  LET staged == position[User].interest.staged
           IN  /\ VP!IInv' /\ UNCHANGED <<now, opened, sy, py_tokens>>
               /\ staged \in Nat /\ staged <= sy_vault.sy_balance
               /\ sy_vault'.sy_balance = sy_vault.sy_balance - staged
               /\ CeilFee(staged, vault.interest_bps_fee) \in Nat
               /\ CeilFee(staged, vault.interest_bps_fee) <= staged
  <1> DEFINE staged == position[User].interest.staged
  <1>1. VP!CollectInterest(User) /\ UNCHANGED <<now, opened, sy, py_tokens>>
    BY SameCollectInterest, Zenon DEF V!CollectInterest
  <1>2. VP!IInv'
    BY <1>1, VP!CollectInterestInv, FiniteUser, Constants
  <1>3. /\ V!WithdrawSy(staged)
        /\ V!CeilFee(staged, vault.interest_bps_fee) <= staged
    BY DEF V!CollectInterest, V!Claimable
  <1>4. VP!TypeOK /\ VP!SyTypeOK /\ staged \in Nat
    BY DEF VP!IInv, VP!TypeOK, VP!Holders, VP!YieldTokenPosition,
       VP!Tracker
  <1> HIDE DEF staged
  <1>5. /\ staged <= sy_vault.sy_balance
        /\ sy_vault'.sy_balance = sy_vault.sy_balance - staged
    BY <1>3 DEF V!WithdrawSy
  <1>6. vault.interest_bps_fee \in Nat
    BY DEF VP!IInv, VP!TypeOK, VP!VaultAccount
  <1>7. CeilFee(staged, vault.interest_bps_fee)
          = V!CeilFee(staged, vault.interest_bps_fee)
    BY DEF CeilFee, V!CeilFee
  <1>8. CeilFee(staged, vault.interest_bps_fee) \in Nat
    <2>1. staged * vault.interest_bps_fee \in Nat
      BY <1>4, <1>6, SMT
    <2> QED
      BY <2>1, SMT DEF CeilFee
  <1> QED
    BY <1>1, <1>2, <1>3, <1>4, <1>5, <1>7, <1>8 DEF staged

LEMMA OpenKeeps ==
    ASSUME VP!IInv, V!InitializeYieldPosition(User)
    PROVE  VP!IInv' /\ UNCHANGED <<now, vault, py_tokens, sy, sy_vault>>
  <1>1. VP!InitializeYieldPosition(User)
    BY SameInitializeYieldPosition
  <1>2. UNCHANGED <<now, vault, py_tokens, sy, sy_vault>>
    BY DEF V!InitializeYieldPosition, V!syVars
  <1> QED
    BY <1>1, <1>2, VP!InitializeYieldPositionInv, FiniteUser, Constants

LEMMA TickKeeps ==
    ASSUME VP!IInv, V!Tick
    PROVE  /\ VP!IInv' /\ now < MaxTime /\ now' = now + 1
           /\ UNCHANGED <<vault, position, opened, py_tokens, sy, sy_vault>>
  <1>1. /\ VP!Tick /\ now < MaxTime /\ now' = now + 1
        /\ UNCHANGED <<vault, position, opened, py_tokens, sy, sy_vault>>
    BY DEF V!Tick, VP!Tick, V!syVars, VP!syVars
  <1> QED
    BY <1>1, VP!TickInv, FiniteUser, Constants

LEMMA RateMoveKeeps ==
    ASSUME VP!IInv, V!SetExchangeRate,
           UNCHANGED <<now, vault, position, opened, py_tokens>>
    PROVE  VP!IInv' /\ sy'.exchange_rate \in Rates /\ UNCHANGED sy_vault
  <1>1. VP!SyMoves /\ UNCHANGED sy_vault
    BY DEF VP!SyMoves, VP!SyStep, V!SetExchangeRate, VP!SetExchangeRate
  <1>2. VP!IInv'
    BY <1>1, VP!SyMovesInv, FiniteUser, Constants
  <1> QED
    BY <1>1, <1>2 DEF VP!IInv, VP!TypeOK, VP!SyTypeOK

LEMMA StillKeeps ==
    ASSUME VP!IInv, UNCHANGED <<now, opened, sy, vaultBooks>>
    PROVE  VP!IInv'
  <1>1. UNCHANGED VP!vars
    BY DEF VP!vars, vaultBooks
  <1> QED
    BY <1>1, VP!StutterInv, FiniteUser, Constants

LEMMA StartKeeps ==
    ASSUME V!Init
    PROVE  VP!IInv
  BY SameInit, VP!InitInv, FiniteUser, Constants


-----------------------------------------------------------------------------
(* The invariant.                                                          *)

\* The account of a market without what LpFarm counts in it.
PoolOf(m) ==
    [pt_balance |-> m.pt_balance, sy_balance |-> m.sy_balance,
     status_flags |-> m.status_flags,
     fee_treasury_sy_bps |-> m.fee_treasury_sy_bps,
     max_lp_supply |-> m.max_lp_supply,
     is_current_flash_swap |-> m.is_current_flash_swap, limits |-> m.limits]

MP == INSTANCE MarketProofs WITH
        ExpirationTs <- Duration, InitialBps <- TreasuryFeeBps,
        DepositAmounts <- Amounts \cup {MaxU64}, TradeAmounts <- Amounts,
        LpAmounts <- Amounts, YtAmounts <- Amounts, SyAmounts <- Amounts,
        StatusChoices <- {}, MaxLpChoices <- {}, BpsChoices <- {},
        LimitChoices <- {}, market <- PoolOf(market), tokens <- lp_tokens

\* What MarketProofs assumes of its constants holds of those it is given here.
LEMMA PoolConstants ==
    /\ ONE \in Nat \ {0}
    /\ Rates \subseteq Nat \ {0} /\ Rates # {}
    /\ ExchangeRates \subseteq Nat /\ FeeRates \subseteq Nat
    /\ Duration \in Nat
    /\ InitialPt \in Nat \ {0} /\ InitialSy \in Nat \ {0}
    /\ TreasuryFeeBps \in MP!Bps
    /\ MaxU32 \in Nat /\ MaxU64 \in Nat /\ MaxTime \in 0..MaxU32 /\ MaxBalance \in Nat
    /\ Amounts \cup {MaxU64} \subseteq Nat /\ Amounts \subseteq Nat
    /\ {} \subseteq SUBSET MP!Flags /\ {} \subseteq Nat
    /\ {} \subseteq MP!LimitSetting
    /\ InitialLp \in Nat
    /\ InitialLp * InitialLp <= InitialPt * InitialSy
    /\ InitialPt * InitialSy < (InitialLp + 1) * (InitialLp + 1)
  BY TransactionsAssumption, OneAssumption DEF MP!Bps


\* The accounts are in order.
Held ==
    /\ VP!IInv
    /\ MP!MarketInv
    /\ market \in MarketAccount
    /\ wallet \in Wallet
    /\ ledger \in TokenLedgers

\* Every token is somewhere, and the market counts what is staked.
Balanced ==
    /\ ledger.mint_sy = sy_vault.sy_balance + lp_tokens.sy_position
                          + wallet.sy + ledger.treasury
    /\ py_tokens.mint_pt = lp_tokens.pt_escrow + wallet.pt
    /\ py_tokens.yt_wallets = wallet.yt
    /\ lp_tokens.mint_lp = wallet.lp + wallet.staked
    /\ market.lp_escrow_amount = wallet.staked

BeforeLaunch ==
    /\ py_tokens.mint_pt = 0 /\ py_tokens.yt_wallets = 0
    /\ sy_vault.sy_balance = 0
    /\ lp_tokens = [mint_lp |-> InitialLp, pt_escrow |-> InitialPt,
                    sy_position |-> InitialSy]
    /\ market.lp_escrow_amount = 0

\* What a wrapper has in hand at pc, beyond what the user had before it.
Holds(pc, s, y, l) ==
    tx.pc = pc => /\ wallet.sy >= committed.wallet.sy + s
                  /\ wallet.yt = committed.wallet.yt + y
                  /\ wallet.lp = committed.wallet.lp + l

HoldsSy(pc, s) == tx.pc = pc => wallet.sy = committed.wallet.sy + s

StripHolds ==
    tx.handler = "wrapper_strip" =>
        /\ Holds("strip", tx.sy, 0, 0)
        /\ Holds("deposit_yt", 0, tx.py, 0)
        /\ Holds("exit", 0, 0, 0)

BuyPtHolds ==
    tx.handler = "wrapper_buy_pt" =>
        /\ Holds("trade_pt", tx.sy, 0, 0)
        /\ Holds("exit", 0, 0, 0)

BuyYtHolds ==
    tx.handler = "wrapper_buy_yt" =>
        /\ Holds("buy_yt", tx.sy, 0, 0)
        /\ Holds("deposit_yt", 0, tx.py, 0)
        /\ Holds("exit", 0, 0, 0)

ProvideHolds ==
    tx.handler = "wrapper_provide_liquidity" =>
        /\ Holds("strip", tx.sy, 0, 0)
        /\ Holds("deposit_liquidity", tx.sy, tx.py, 0)
        /\ Holds("deposit_yt", 0, tx.py, tx.lp)
        /\ Holds("deposit_lp", 0, 0, tx.lp)
        /\ Holds("exit", 0, 0, 0)

ClassicHolds ==
    tx.handler = "wrapper_provide_liquidity_classic" =>
        /\ Holds("deposit_liquidity", tx.sy, 0, 0)
        /\ Holds("deposit_lp", 0, 0, tx.lp)
        /\ Holds("exit", 0, 0, 0)

\* The SY that wrapper_provide_liquidity_base has minted for its trade and
\* its deposit, priced before either.
BaseTrade == M!FlashTrade(TRUE, tx.amount, tx.er, tx.fr)

BaseNeeds ==
    M!NetTraderSy(BaseTrade)
        + Pool(M!Traded(market, BaseTrade))!AddLiquidity(tx.amount, MaxU64).sy_in

BaseHolds ==
    tx.handler = Base =>
        /\ Holds("flag", BaseNeeds, 0, 0)
        /\ Holds("trade_pt", BaseNeeds, 0, 0)
        /\ Holds("deposit_liquidity", M!AddLiquidity(tx.amount, MaxU64).sy_in, 0, 0)
        /\ Holds("deposit_lp", 0, 0, tx.lp)
        /\ Holds("unflag", 0, 0, 0)
        /\ Holds("exit", 0, 0, 0)

Redeemers == {"wrapper_merge", "wrapper_collect_interest", "wrapper_sell_pt",
              "wrapper_sell_yt", "wrapper_withdraw_liquidity",
              "wrapper_withdraw_liquidity_classic"}

RedeemerHolds ==
    tx.handler \in Redeemers =>
        /\ HoldsSy("withdraw_liquidity", 0)
        /\ HoldsSy("trade_pt", tx.sy)
        /\ HoldsSy("redeem", tx.sy)
        /\ HoldsSy("exit", 0)

WrappersHold ==
    /\ tx.pc = "start" => wallet = committed.wallet
    /\ StripHolds /\ BuyPtHolds /\ BuyYtHolds /\ ProvideHolds /\ ClassicHolds
    /\ BaseHolds /\ RedeemerHolds

-----------------------------------------------------------------------------
(* The course of a transaction.                                            *)

-----------------------------------------------------------------------------
(* Roundings.                                                              *)

\* The base asset that sy_to_py_ceil asks for mints the SY that is needed.
LEMMA MintedCovers ==
    ASSUME NEW n \in Nat, rate \in Nat \ {0}
    PROVE  /\ SyToPyCeil(rate, n) \in Nat
           /\ MintedSy(SyToPyCeil(rate, n)) \in Nat
           /\ n <= MintedSy(SyToPyCeil(rate, n))
  <1> DEFINE r == rate
             base == SyToPyCeil(r, n)
             x == r * n
  <1>1. x \in Nat /\ ONE \in Nat \ {0}
    BY OneAssumption
  <1>2. base = (x + ONE - 1) \div ONE
    <2>1. NumMul(FromNatural(n), r) = x
      BY ScaledMul
    <2> QED
      BY <2>1 DEF SyToPyCeil, CeilDiv
  <1> HIDE DEF x
  <1>3. x + ONE - 1 \in Nat
    BY <1>1
  <1>4. /\ base \in Nat
        /\ x + ONE - 1 < ONE * (base + 1)
    BY <1>1, <1>2, <1>3, DivFacts
  <1> HIDE DEF base
  <1>5. ONE * (base + 1) = base * ONE + ONE /\ base * ONE \in Nat
    BY <1>1, <1>4
  <1>6. x <= base * ONE
    BY <1>1, <1>4, <1>5
  <1> DEFINE y == base * ONE
             m == y \div r
  <1>7. m \in Nat /\ y < r * (m + 1)
    BY <1>5, DivFacts
  <1>8. m = MintedSy(base)
    BY DEF MintedSy
  <1> HIDE DEF y, m
  <1>9. n <= m
    <2>1. SUFFICES ASSUME m + 1 <= n
                   PROVE  FALSE
      BY <1>7
    <2>2. r * (m + 1) <= r * n
      BY <1>7, <2>1, MulMonotone
    <2>3. r * (m + 1) <= y
      BY <1>1, <1>5, <1>6, <1>7, <2>2 DEF x, y
    <2> QED
      BY <1>5, <1>7, <2>3 DEF y
  <1> QED
    BY <1>4, <1>7, <1>8, <1>9 DEF base

LEMMA MintedType ==
    ASSUME NEW base \in Nat, rate \in Nat \ {0}
    PROVE  MintedSy(base) \in Nat
  <1>1. base * ONE \in Nat
    BY OneAssumption
  <1> QED
    BY <1>1, DivFacts DEF MintedSy

\* Whoever brings less SY than the pool's proportion asks pays no more than he
\* brings, although his side is rounded up.
LEMMA PaidWithin ==
    ASSUME NEW L \in Nat \ {0}, NEW own \in Nat \ {0}, NEW total \in Nat,
           NEW intent \in Nat, NEW most \in Nat, intent * total < most * own
    PROVE  (total * L * intent + (L - 1) * own) \div (L * own) <= most
  <1> DEFINE x == intent * total
             y == most * own
             d == L * own
             n == total * L * intent + (L - 1) * own
  <1>1. /\ x \in Nat /\ y \in Nat /\ d \in Nat \ {0}
        /\ x + 1 <= y
    BY SMT
  <1>2. n = L * x + d - own
    BY SMT
  <1>3. d * (most + 1) = L * y + d
    BY SMT
  <1> HIDE DEF x, y, d
  <1>4. L * x \in Nat /\ L * y \in Nat /\ L * x <= L * y
    BY <1>1, MulMonotone
  <1>5. own <= d
    BY SMT DEF d
  <1>6. n \in Nat /\ n < d * (most + 1)
    BY <1>1, <1>2, <1>3, <1>4, <1>5
  <1> HIDE DEF n
  <1>7. n \div d <= most
    BY <1>1, <1>6, DivBelow
  <1> QED
    BY <1>7 DEF n, d

-----------------------------------------------------------------------------
(* The pool of Transactions and that of MarketProofs.                      *)

LEMMA SamePool ==
    ASSUME NEW a, NEW b
    PROVE  /\ M!LpShare(a, b) = MP!LpShare(a, b)
           /\ M!CurrentWindow(a) = MP!CurrentWindow(a)
           /\ M!VerifyLimits(a) <=> MP!VerifyLimits(a)
           /\ M!CheckSupplyLp(a) <=> MP!CheckSupplyLp(a)
           /\ M!Allowed(a) <=> MP!Allowed(a)
           /\ M!IsActive <=> MP!IsActive
  <1>1. M!CurrentWindow(a) = MP!CurrentWindow(a)
    BY DEF M!CurrentWindow, MP!CurrentWindow, PoolOf
  <1>2. \A change, start : M!ChangeBps(change, start)
        = MP!ChangeBps(change, start)
    BY DEF M!ChangeBps, MP!ChangeBps, CeilDiv, M!CeilDiv, MP!CeilDiv
  <1>3. \A l, supply : M!WithinLimits(l, supply) = MP!WithinLimits(l, supply)
    BY <1>2 DEF M!WithinLimits, MP!WithinLimits
  <1>4. M!VerifyLimits(a) <=> MP!VerifyLimits(a)
    <2>1. M!CurrentWindow(lp_tokens.mint_lp)
          = MP!CurrentWindow(lp_tokens.mint_lp)
      BY DEF M!CurrentWindow, MP!CurrentWindow, PoolOf
    <2> QED
      BY <2>1, <1>3 DEF M!VerifyLimits, MP!VerifyLimits, PoolOf
  <1> QED
    BY <1>1, <1>4 DEF M!LpShare, MP!LpShare, M!CheckSupplyLp,
       MP!CheckSupplyLp, M!Allowed, MP!Allowed, M!IsActive, MP!IsActive, PoolOf

LEMMA SameAddLiquidity ==
    ASSUME NEW pt, NEW amount
    PROVE  M!AddLiquidity(pt, amount) = MP!AddLiquidity(pt, amount)
  BY DEF M!AddLiquidity, MP!AddLiquidity, PoolOf

LEMMA SamePrices ==
    ASSUME NEW t
    PROVE  /\ M!Whole(t) = MP!Whole(t)
           /\ M!PreFeeAsset(t) = MP!PreFeeAsset(t)
           /\ M!AssetFee(t) = MP!AssetFee(t)
           /\ M!NetTraderAsset(t) = MP!NetTraderAsset(t)
           /\ M!NetTraderSy(t) = MP!NetTraderSy(t)
           /\ M!TreasuryFee(t) = MP!TreasuryFee(t)
  <1>1. /\ M!Whole(t) = MP!Whole(t)
        /\ M!PreFeeAsset(t) = MP!PreFeeAsset(t)
        /\ M!AssetFee(t) = MP!AssetFee(t)
    BY DEF M!Whole, MP!Whole, M!PreFeeAsset, MP!PreFeeAsset, M!AssetFee,
       MP!AssetFee
  <1>2. M!NetTraderAsset(t) = MP!NetTraderAsset(t)
    BY <1>1 DEF M!NetTraderAsset, MP!NetTraderAsset, M!CeilDiv, MP!CeilDiv
  <1>3. \A r, a : /\ M!PyToSy(r, a) = MP!PyToSy(r, a)
                  /\ M!PyToSyCeil(r, a) = MP!PyToSyCeil(r, a)
    BY DEF M!PyToSy, MP!PyToSy, M!PyToSyCeil, MP!PyToSyCeil, M!NumDiv,
       MP!NumDiv, M!Floor, MP!Floor, M!FromNatural, MP!FromNatural,
       M!CeilDiv, MP!CeilDiv, M!RoundingCorrection, MP!RoundingCorrection
  <1>4. M!NetTraderSy(t) = MP!NetTraderSy(t)
    BY <1>2, <1>3 DEF M!NetTraderSy, MP!NetTraderSy
  <1>5. M!SyFee(t) = MP!SyFee(t)
    BY <1>1 DEF M!SyFee, MP!SyFee
  <1> QED
    BY <1>1, <1>2, <1>4, <1>5 DEF M!TreasuryFee, MP!TreasuryFee, PoolOf

LEMMA SameTrade ==
    ASSUME NEW t
    PROVE  /\ M!CanTrade(t) <=> MP!CanTrade(t)
           /\ \A tk : /\ M!CanTransfer(tk, t) <=> MP!CanTransfer(tk, t)
                      /\ M!Transferred(tk, t) = MP!Transferred(tk, t)
           /\ \A m : M!Traded(m, t) = MP!Traded(m, t)
  <1>1. \A r, a : M!SyToPy(r, a) = MP!SyToPy(r, a)
    BY DEF M!SyToPy, MP!SyToPy, M!NumMul, MP!NumMul, M!Floor, MP!Floor,
       M!FromNatural, MP!FromNatural, M!RoundingCorrection,
       MP!RoundingCorrection
  <1>2. M!CurveAccepts(t) <=> MP!CurveAccepts(t)
    BY <1>1 DEF M!CurveAccepts, MP!CurveAccepts, PoolOf
  <1>3. M!CanTrade(t) <=> MP!CanTrade(t)
    BY <1>2, SamePrices, SamePool DEF M!CanTrade, MP!CanTrade, PoolOf
  <1> QED
    BY <1>3, SamePrices, Zenon DEF M!CanTransfer, MP!CanTransfer, M!Transferred,
       MP!Transferred, M!Traded, MP!Traded

-----------------------------------------------------------------------------
(* What the market's instructions do to its invariant, and what they move. *)

LEMMA PoolFields ==
    ASSUME NEW m
    PROVE  /\ PoolOf(m).pt_balance = m.pt_balance
           /\ PoolOf(m).sy_balance = m.sy_balance
           /\ PoolOf(m).is_current_flash_swap = m.is_current_flash_swap
           /\ PoolOf(m).limits = m.limits
  BY DEF PoolOf

LEMMA PoolUpdates ==
    ASSUME NEW m \in MarketAccount, NEW p, NEW s, NEW l, NEW f, NEW n
    PROVE  /\ PoolOf(WithBalances(m, p, s)) = WithBalances(PoolOf(m), p, s)
           /\ PoolOf(WithWindow(m, p, s, l)) = WithWindow(PoolOf(m), p, s, l)
           /\ PoolOf(WithFlag(m, f)) = WithFlag(PoolOf(m), f)
           /\ PoolOf(WithStake(m, n)) = PoolOf(m)
  <1> DEFINE q == PoolOf(m)
             traded == [m EXCEPT !.pt_balance = p, !.sy_balance = s]
             moved == [m EXCEPT !.pt_balance = p, !.sy_balance = s, !.limits = l]
             flagged == [m EXCEPT !.is_current_flash_swap = f]
             staked == [m EXCEPT !.lp_escrow_amount = n]
             Pool7(a, b, c, d, e, g, h) ==
               [pt_balance |-> a, sy_balance |-> b, status_flags |-> c,
                fee_treasury_sy_bps |-> d, max_lp_supply |-> e,
                is_current_flash_swap |-> g, limits |-> h]
  <1>1. q = Pool7(m.pt_balance, m.sy_balance, m.status_flags,
                  m.fee_treasury_sy_bps, m.max_lp_supply,
                  m.is_current_flash_swap, m.limits)
    BY DEF PoolOf
  <1> DEFINE q1 == [q EXCEPT !.pt_balance = p]
             q2 == [q1 EXCEPT !.sy_balance = s]
             q3 == [q2 EXCEPT !.limits = l]
  <1>10. q1 = Pool7(p, m.sy_balance, m.status_flags, m.fee_treasury_sy_bps,
                    m.max_lp_supply, m.is_current_flash_swap, m.limits)
    BY <1>1
  <1> HIDE DEF q1
  <1>11. q2 = Pool7(p, s, m.status_flags, m.fee_treasury_sy_bps,
                    m.max_lp_supply, m.is_current_flash_swap, m.limits)
    BY <1>10
  <1>2. [q EXCEPT !.pt_balance = p, !.sy_balance = s]
          = Pool7(p, s, m.status_flags, m.fee_treasury_sy_bps, m.max_lp_supply,
                  m.is_current_flash_swap, m.limits)
    BY <1>11 DEF q1
  <1> HIDE DEF q2
  <1>12. q3 = Pool7(p, s, m.status_flags, m.fee_treasury_sy_bps,
                    m.max_lp_supply, m.is_current_flash_swap, l)
    BY <1>11
  <1>3. [q EXCEPT !.pt_balance = p, !.sy_balance = s, !.limits = l]
          = Pool7(p, s, m.status_flags, m.fee_treasury_sy_bps, m.max_lp_supply,
                  m.is_current_flash_swap, l)
    BY <1>12 DEF q1, q2
  <1>4. [q EXCEPT !.is_current_flash_swap = f]
          = Pool7(m.pt_balance, m.sy_balance, m.status_flags,
                  m.fee_treasury_sy_bps, m.max_lp_supply, f, m.limits)
    BY <1>1
  <1>5. PoolOf(traded)
          = Pool7(p, s, m.status_flags, m.fee_treasury_sy_bps, m.max_lp_supply,
                  m.is_current_flash_swap, m.limits)
    <2>1. /\ traded.pt_balance = p /\ traded.sy_balance = s
          /\ traded.status_flags = m.status_flags
          /\ traded.fee_treasury_sy_bps = m.fee_treasury_sy_bps
          /\ traded.max_lp_supply = m.max_lp_supply
          /\ traded.is_current_flash_swap = m.is_current_flash_swap
          /\ traded.limits = m.limits
      BY DEF MarketAccount
    <2> HIDE DEF traded
    <2> QED
      BY <2>1 DEF PoolOf
  <1>6. PoolOf(moved)
          = Pool7(p, s, m.status_flags, m.fee_treasury_sy_bps, m.max_lp_supply,
                  m.is_current_flash_swap, l)
    <2>1. /\ moved.pt_balance = p /\ moved.sy_balance = s
          /\ moved.status_flags = m.status_flags
          /\ moved.fee_treasury_sy_bps = m.fee_treasury_sy_bps
          /\ moved.max_lp_supply = m.max_lp_supply
          /\ moved.is_current_flash_swap = m.is_current_flash_swap
          /\ moved.limits = l
      BY DEF MarketAccount
    <2> HIDE DEF moved
    <2> QED
      BY <2>1 DEF PoolOf
  <1>7. PoolOf(flagged)
          = Pool7(m.pt_balance, m.sy_balance, m.status_flags,
                  m.fee_treasury_sy_bps, m.max_lp_supply, f, m.limits)
    <2>1. /\ flagged.pt_balance = m.pt_balance
          /\ flagged.sy_balance = m.sy_balance
          /\ flagged.status_flags = m.status_flags
          /\ flagged.fee_treasury_sy_bps = m.fee_treasury_sy_bps
          /\ flagged.max_lp_supply = m.max_lp_supply
          /\ flagged.is_current_flash_swap = f
          /\ flagged.limits = m.limits
      BY DEF MarketAccount
    <2> HIDE DEF flagged
    <2> QED
      BY <2>1 DEF PoolOf
  <1>8. PoolOf(staked) = q
    <2>1. /\ staked.pt_balance = m.pt_balance
          /\ staked.sy_balance = m.sy_balance
          /\ staked.status_flags = m.status_flags
          /\ staked.fee_treasury_sy_bps = m.fee_treasury_sy_bps
          /\ staked.max_lp_supply = m.max_lp_supply
          /\ staked.is_current_flash_swap = m.is_current_flash_swap
          /\ staked.limits = m.limits
      BY DEF MarketAccount
    <2> HIDE DEF staked
    <2> QED
      BY <2>1 DEF PoolOf
  <1> HIDE DEF Pool7
  <1> QED
    BY <1>2, <1>3, <1>4, <1>5, <1>6, <1>7, <1>8, Zenon
    DEF WithBalances, WithWindow, WithFlag, WithStake

LEMMA PoolTypes ==
    ASSUME NEW k, PoolOf(k) \in MP!MarketTwo
    PROVE  /\ k.pt_balance \in Nat /\ k.sy_balance \in Nat
           /\ k.limits \in M!LiquidityNetBalanceLimits
  <1>1. /\ PoolOf(k).pt_balance \in Nat /\ PoolOf(k).sy_balance \in Nat
        /\ PoolOf(k).limits \in MP!LiquidityNetBalanceLimits
    BY DEF MP!MarketTwo
  <1>2. MP!LiquidityNetBalanceLimits = M!LiquidityNetBalanceLimits
    BY DEF MP!LiquidityNetBalanceLimits, M!LiquidityNetBalanceLimits,
       MP!Bps, M!Bps
  <1> QED
    BY <1>1, <1>2, PoolFields

LEMMA BalancesAccount ==
    ASSUME NEW m \in MarketAccount, NEW p, NEW s,
           PoolOf(WithBalances(m, p, s)) \in MP!MarketTwo
    PROVE  LET k == WithBalances(m, p, s)
           IN  /\ k \in MarketAccount
               /\ k.lp_escrow_amount = m.lp_escrow_amount
               /\ k.is_current_flash_swap = m.is_current_flash_swap
  <1> DEFINE k == WithBalances(m, p, s)
  <1>1. k.pt_balance = p /\ k.sy_balance = s
    BY DEF WithBalances, MarketAccount
  <1>2. p \in Nat /\ s \in Nat
    BY <1>1, PoolTypes
  <1> QED
    BY <1>2, Zenon DEF WithBalances, MarketAccount

LEMMA WindowAccount ==
    ASSUME NEW m \in MarketAccount, NEW p, NEW s, NEW l,
           PoolOf(WithWindow(m, p, s, l)) \in MP!MarketTwo
    PROVE  LET k == WithWindow(m, p, s, l)
           IN  /\ k \in MarketAccount
               /\ k.lp_escrow_amount = m.lp_escrow_amount
               /\ k.is_current_flash_swap = m.is_current_flash_swap
  <1> DEFINE k == WithWindow(m, p, s, l)
  <1>1. k.pt_balance = p /\ k.sy_balance = s /\ k.limits = l
    BY DEF WithWindow, MarketAccount
  <1>2. p \in Nat /\ s \in Nat /\ l \in M!LiquidityNetBalanceLimits
    BY <1>1, PoolTypes
  <1> QED
    BY <1>2, Zenon DEF WithWindow, MarketAccount

LEMMA FlagAccount ==
    ASSUME NEW m \in MarketAccount, NEW f \in BOOLEAN
    PROVE  LET k == WithFlag(m, f)
           IN  /\ k \in MarketAccount
               /\ k.lp_escrow_amount = m.lp_escrow_amount
               /\ k.is_current_flash_swap = f
  BY DEF WithFlag, MarketAccount

LEMMA StakeAccount ==
    ASSUME NEW m \in MarketAccount, NEW n \in Nat
    PROVE  LET k == WithStake(m, n)
           IN  /\ k \in MarketAccount
               /\ k.lp_escrow_amount = n
               /\ k.is_current_flash_swap = m.is_current_flash_swap
  BY DEF WithStake, MarketAccount

LEMMA MarketTypes ==
    ASSUME MP!MarketInv
    PROVE  /\ lp_tokens \in [mint_lp : Nat, pt_escrow : Nat, sy_position : Nat]
           /\ rate \in Rates /\ PoolOf(market) \in MP!MarketTwo
  BY DEF MP!MarketInv, MP!MarketTypeOK, MP!Tokens

LEMMA TradePtKeeps ==
    ASSUME MP!MarketInv, market \in MarketAccount, NEW t \in MP!Trade,
           M!TradePt(t)
    PROVE  /\ MP!MarketInv' /\ market' \in MarketAccount
           /\ market'.lp_escrow_amount = market.lp_escrow_amount
           /\ market'.is_current_flash_swap = market.is_current_flash_swap
           /\ M!NetTraderSy(t) \in Nat /\ M!TreasuryFee(t) \in Nat
           /\ lp_tokens'.mint_lp = lp_tokens.mint_lp
           /\ t.is_buy =>
                /\ lp_tokens'.pt_escrow = lp_tokens.pt_escrow - t.pt
                /\ lp_tokens'.sy_position
                            = lp_tokens.sy_position + M!NetTraderSy(t) - M!TreasuryFee(t)
           /\ ~t.is_buy =>
                /\ lp_tokens'.pt_escrow = lp_tokens.pt_escrow + t.pt
                /\ lp_tokens'.sy_position
                            = lp_tokens.sy_position - M!NetTraderSy(t) - M!TreasuryFee(t)
  <1> DEFINE net == M!NetTraderSy(t)
             fee == M!TreasuryFee(t)
  <1>1. /\ M!CanTrade(t) /\ M!CanTransfer(lp_tokens, t)
        /\ market' = M!Traded(market, t)
        /\ lp_tokens' = M!Transferred(lp_tokens, t)
        /\ UNCHANGED <<now, rate>>
    BY DEF M!TradePt
  <1> DEFINE pt == IF t.is_buy THEN market.pt_balance - t.pt
                               ELSE market.pt_balance + t.pt
             rest == IF t.is_buy THEN market.sy_balance + net - fee
                                 ELSE market.sy_balance - net - fee
  <1>2. /\ market' = WithBalances(market, pt, rest)
        /\ M!Traded(PoolOf(market), t) = WithBalances(PoolOf(market), pt, rest)
    BY <1>1, PoolFields, Zenon DEF M!Traded, WithBalances
  <1> HIDE DEF pt, rest
  <1>12. PoolOf(market') = M!Traded(PoolOf(market), t)
    BY <1>2, PoolUpdates
  <1>3. MP!TradePt(t)
    <2>1. /\ MP!CanTrade(t) /\ MP!CanTransfer(lp_tokens, t)
          /\ PoolOf(market') = MP!Traded(PoolOf(market), t)
          /\ lp_tokens' = MP!Transferred(lp_tokens, t)
      BY <1>1, <1>12, SameTrade
    <2> QED
      BY <1>1, <2>1 DEF MP!TradePt, PoolOf
  <1>4. MP!MarketInv'
    BY <1>3, MP!TradePtGood, PoolConstants DEF MP!GoodStep
  <1>5. MP!NetTraderSy(t) \in Nat /\ MP!TreasuryFee(t) \in Nat
    <2>1. MP!CanTrade(t) /\ MP!MarketTypeOK
      BY <1>3 DEF MP!TradePt, MP!MarketInv
    <2>2. t.er > ONE /\ t.fr >= ONE /\ MP!NetTraderSy(t) \in Nat
      BY <2>1, MP!NetTraderFacts, PoolConstants
    <2> QED
      BY <2>1, <2>2, MP!FeeFacts, PoolConstants
  <1>6. net \in Nat /\ fee \in Nat
    BY <1>5, SamePrices
  <1>7. PoolOf(market') \in MP!MarketTwo
    BY <1>4 DEF MP!MarketInv, MP!MarketTypeOK, PoolOf
  <1> HIDE DEF net, fee
  <1>8. lp_tokens \in [mint_lp : Nat, pt_escrow : Nat, sy_position : Nat]
    BY MarketTypes
  <1>9. /\ market' \in MarketAccount
        /\ market'.lp_escrow_amount = market.lp_escrow_amount
        /\ market'.is_current_flash_swap = market.is_current_flash_swap
    BY <1>2, <1>7, BalancesAccount
  <1>11. /\ lp_tokens'.mint_lp = lp_tokens.mint_lp
         /\ t.is_buy =>
              /\ lp_tokens'.pt_escrow = lp_tokens.pt_escrow - t.pt
              /\ lp_tokens'.sy_position = lp_tokens.sy_position + net - fee
         /\ ~t.is_buy =>
              /\ lp_tokens'.pt_escrow = lp_tokens.pt_escrow + t.pt
              /\ lp_tokens'.sy_position = lp_tokens.sy_position - net - fee
    BY <1>1, <1>8 DEF M!Transferred, net, fee
  <1> QED
    BY <1>4, <1>6, <1>9, <1>11 DEF net, fee

\* add_liquidity takes no more of either side than was offered, in SY.
LEMMA LiquidityPaid ==
    ASSUME MP!MarketInv, NEW pt \in Nat, NEW amount \in Nat
    PROVE  LET r == M!AddLiquidity(pt, amount)
           IN  /\ r.pt_in \in Nat /\ r.sy_in \in Nat /\ r.lp_out \in Nat
               /\ r.sy_in <= amount
  <1> DEFINE r == M!AddLiquidity(pt, amount)
             L == lp_tokens.mint_lp
             P == market.pt_balance
             S == market.sy_balance
  <1>1. MP!MarketTypeOK /\ MP!PoolStocked
    BY DEF MP!MarketInv
  <1>2. r = MP!AddLiquidity(pt, amount)
    BY SameAddLiquidity
  <1>3. r.pt_in \in Nat /\ r.sy_in \in Nat /\ r.lp_out \in Nat
    BY <1>1, <1>2, MP!AddLiquidityFacts, PoolConstants
  <1>4. L \in Nat /\ P \in Nat /\ S \in Nat
    BY <1>1, MarketTypes, PoolTypes DEF MP!MarketInv
  <1>5. L > 0 => P > 0
    BY <1>1, PoolFields DEF MP!PoolStocked
  <1>6. CASE L = 0
    BY <1>6 DEF M!AddLiquidity
  <1>7. CASE L > 0 /\ pt * S < amount * P
    <2>1. r.sy_in = (S * L * pt + (L - 1) * P) \div (L * P)
      BY <1>4, <1>7 DEF M!AddLiquidity
    <2> HIDE DEF L, P, S, r
    <2>2. r.sy_in <= amount
      BY <1>4, <1>5, <1>7, <2>1, PaidWithin
    <2> QED
      BY <1>3, <2>2 DEF r
  <1>8. CASE L > 0 /\ ~(pt * S < amount * P)
    BY <1>3, <1>4, <1>8 DEF M!AddLiquidity
  <1> QED
    BY <1>3, <1>4, <1>6, <1>7, <1>8

LEMMA DepositLiquidityKeeps ==
    ASSUME MP!MarketInv, market \in MarketAccount,
           NEW pt \in Nat, NEW amount \in Nat, M!DepositLiquidity(pt, amount)
    PROVE  LET r == M!AddLiquidity(pt, amount)
           IN  /\ MP!MarketInv' /\ market' \in MarketAccount
               /\ market'.lp_escrow_amount = market.lp_escrow_amount
               /\ market'.is_current_flash_swap = market.is_current_flash_swap
               /\ lp_tokens'.mint_lp = lp_tokens.mint_lp + r.lp_out
               /\ lp_tokens'.pt_escrow = lp_tokens.pt_escrow + r.pt_in
               /\ lp_tokens'.sy_position = lp_tokens.sy_position + r.sy_in
  <1> DEFINE r == M!AddLiquidity(pt, amount)
             supply == lp_tokens.mint_lp + r.lp_out
             window == M!CurrentWindow(lp_tokens.mint_lp)
             p == market.pt_balance + r.pt_in
             s == market.sy_balance + r.sy_in
  <1>1. r = MP!AddLiquidity(pt, amount)
    BY SameAddLiquidity
  <1> HIDE DEF r
  <1>2. /\ M!IsActive /\ M!Allowed("deposit")
        /\ M!VerifyLimits(supply) /\ M!CheckSupplyLp(supply)
        /\ market' = WithWindow(market, p, s, window)
        /\ lp_tokens' = [mint_lp     |-> supply,
                         pt_escrow   |-> lp_tokens.pt_escrow + r.pt_in,
                         sy_position |-> lp_tokens.sy_position + r.sy_in]
        /\ UNCHANGED <<now, rate>>
    BY DEF M!DepositLiquidity, WithWindow, r
  <1>3. window = MP!CurrentWindow(lp_tokens.mint_lp)
    BY SamePool
  <1> HIDE DEF window, supply
  <1>4. PoolOf(market') = [PoolOf(market) EXCEPT
           !.pt_balance = PoolOf(market).pt_balance + r.pt_in,
           !.sy_balance = PoolOf(market).sy_balance + r.sy_in,
           !.limits = window]
    <2>1. WithWindow(PoolOf(market), p, s, window)
            = [PoolOf(market) EXCEPT
                 !.pt_balance = PoolOf(market).pt_balance + r.pt_in,
                 !.sy_balance = PoolOf(market).sy_balance + r.sy_in,
                 !.limits = window]
      BY PoolFields, Zenon DEF WithWindow
    <2> HIDE DEF p, s
    <2>2. PoolOf(market') = WithWindow(PoolOf(market), p, s, window)
      BY <1>2, PoolUpdates
    <2> QED
      BY <2>1, <2>2, Zenon
  <1>5. /\ MP!IsActive /\ MP!Allowed("deposit")
        /\ MP!VerifyLimits(supply) /\ MP!CheckSupplyLp(supply)
    BY <1>2, SamePool
  <1>6. MP!DepositLiquidity(pt, amount)
    BY <1>1, <1>2, <1>3, <1>4, <1>5 DEF MP!DepositLiquidity, supply
  <1>7. MP!MarketInv'
    BY <1>6, MP!DepositGood, PoolConstants DEF MP!GoodStep
  <1>8. PoolOf(market') \in MP!MarketTwo
    BY <1>7 DEF MP!MarketInv, MP!MarketTypeOK
  <1> HIDE DEF p, s
  <1>9. /\ market' \in MarketAccount
        /\ market'.lp_escrow_amount = market.lp_escrow_amount
        /\ market'.is_current_flash_swap = market.is_current_flash_swap
    BY <1>2, <1>8, WindowAccount
  <1> QED
    BY <1>2, <1>7, <1>9 DEF r, supply

LEMMA WithdrawLiquidityKeeps ==
    ASSUME MP!MarketInv, market \in MarketAccount,
           NEW lp \in Nat, M!WithdrawLiquidity(lp)
    PROVE  /\ MP!MarketInv' /\ market' \in MarketAccount
           /\ market'.lp_escrow_amount = market.lp_escrow_amount
           /\ market'.is_current_flash_swap = market.is_current_flash_swap
           /\ lp <= lp_tokens.mint_lp
           /\ lp_tokens'.mint_lp = lp_tokens.mint_lp - lp
           /\ lp_tokens'.pt_escrow <= lp_tokens.pt_escrow
           /\ lp_tokens'.sy_position <= lp_tokens.sy_position
  <1> DEFINE pt_out == M!LpShare(market.pt_balance, lp)
             sy_out == M!LpShare(market.sy_balance, lp)
             supply == lp_tokens.mint_lp - lp
             window == M!CurrentWindow(lp_tokens.mint_lp)
             p == market.pt_balance - pt_out
             s == market.sy_balance - sy_out
  <1>1. /\ pt_out = MP!LpShare(PoolOf(market).pt_balance, lp)
        /\ sy_out = MP!LpShare(PoolOf(market).sy_balance, lp)
    BY SamePool, PoolFields
  <1>2. /\ M!Allowed("withdraw") /\ lp <= lp_tokens.mint_lp
        /\ M!VerifyLimits(supply)
        /\ pt_out <= lp_tokens.pt_escrow /\ sy_out <= lp_tokens.sy_position
        /\ market' = WithWindow(market, p, s, window)
        /\ lp_tokens' = [mint_lp     |-> supply,
                         pt_escrow   |-> lp_tokens.pt_escrow - pt_out,
                         sy_position |-> lp_tokens.sy_position - sy_out]
        /\ UNCHANGED <<now, rate>>
    BY DEF M!WithdrawLiquidity, WithWindow
  <1>3. window = MP!CurrentWindow(lp_tokens.mint_lp)
    BY SamePool
  <1> HIDE DEF window, supply, pt_out, sy_out
  <1>4. PoolOf(market') = [PoolOf(market) EXCEPT
           !.pt_balance = PoolOf(market).pt_balance - pt_out,
           !.sy_balance = PoolOf(market).sy_balance - sy_out,
           !.limits = window]
    <2>1. WithWindow(PoolOf(market), p, s, window)
            = [PoolOf(market) EXCEPT
                 !.pt_balance = PoolOf(market).pt_balance - pt_out,
                 !.sy_balance = PoolOf(market).sy_balance - sy_out,
                 !.limits = window]
      BY PoolFields, Zenon DEF WithWindow
    <2> HIDE DEF p, s
    <2>2. PoolOf(market') = WithWindow(PoolOf(market), p, s, window)
      BY <1>2, PoolUpdates
    <2> QED
      BY <2>1, <2>2, Zenon
  <1>5. MP!Allowed("withdraw") /\ MP!VerifyLimits(supply)
    BY <1>2, SamePool
  <1>6. MP!WithdrawLiquidity(lp)
    BY <1>1, <1>2, <1>3, <1>4, <1>5 DEF MP!WithdrawLiquidity, supply
  <1>7. MP!MarketInv'
    BY <1>6, MP!WithdrawGood, PoolConstants DEF MP!GoodStep
  <1>8. PoolOf(market') \in MP!MarketTwo
    BY <1>7 DEF MP!MarketInv, MP!MarketTypeOK
  <1> HIDE DEF p, s
  <1>9. /\ market' \in MarketAccount
        /\ market'.lp_escrow_amount = market.lp_escrow_amount
        /\ market'.is_current_flash_swap = market.is_current_flash_swap
    BY <1>2, <1>8, WindowAccount
  <1>10. pt_out \in Nat /\ sy_out \in Nat
    <2>1. /\ lp_tokens.mint_lp \in Nat /\ market.pt_balance \in Nat
          /\ market.sy_balance \in Nat
      BY MarketTypes, PoolTypes
    <2>2. \A total \in Nat : M!LpShare(total, lp) \in Nat
      <3> TAKE total \in Nat
      <3>1. total * lp \in Nat
        OBVIOUS
      <3> QED
        BY <2>1, <3>1, DivFacts DEF M!LpShare
    <2> QED
      BY <2>1, <2>2 DEF pt_out, sy_out
  <1> QED
    BY <1>2, <1>7, <1>9, <1>10, MarketTypes DEF supply

\* Whatever the flag of the account, a flash swap leaves it taken back.
LEMMA FlashSwapKeeps ==
    ASSUME market \in MarketAccount, NEW t,
           market' = M!AfterFlashSwap(market, t),
           M!AfterFlashSwap(PoolOf(market), t) \in MP!MarketTwo
    PROVE  /\ market' \in MarketAccount
           /\ market'.lp_escrow_amount = market.lp_escrow_amount
           /\ ~market'.is_current_flash_swap
           /\ M!AfterFlashSwap(PoolOf(market), t) = PoolOf(market')
  <1> DEFINE net == M!NetTraderSy(t)
             fee == M!TreasuryFee(t)
             p == IF t.is_buy THEN market.pt_balance - t.pt
                              ELSE market.pt_balance + t.pt
             s == IF t.is_buy THEN market.sy_balance + net - fee
                              ELSE market.sy_balance - net - fee
             up(m) == WithFlag(m, TRUE)
             traded(m) == WithBalances(up(m), p, s)
  <1>1. /\ up(market) \in MarketAccount
        /\ up(market).lp_escrow_amount = market.lp_escrow_amount
        /\ up(market).pt_balance = market.pt_balance
        /\ up(market).sy_balance = market.sy_balance
    BY Zenon DEF WithFlag, MarketAccount
  <1>2. /\ up(PoolOf(market)) = PoolOf(up(market))
        /\ up(PoolOf(market)).pt_balance = market.pt_balance
        /\ up(PoolOf(market)).sy_balance = market.sy_balance
    BY <1>1, PoolUpdates, PoolFields, Zenon
  <1> HIDE DEF net, fee
  <1>3. /\ M!AfterFlashSwap(market, t) = WithFlag(traded(market), FALSE)
        /\ M!AfterFlashSwap(PoolOf(market), t)
             = WithFlag(traded(PoolOf(market)), FALSE)
    <2>1. ASSUME NEW m, up(m).pt_balance = market.pt_balance,
                 up(m).sy_balance = market.sy_balance
          PROVE  M!Traded(up(m), t) = traded(m)
      BY <2>1, Zenon DEF M!Traded, WithBalances, net, fee
    <2>2. /\ M!Traded(up(market), t) = traded(market)
          /\ M!Traded(up(PoolOf(market)), t) = traded(PoolOf(market))
      BY <1>1, <1>2, <2>1, Zenon
    <2> HIDE DEF traded
    <2> QED
      BY <2>2, Zenon DEF M!AfterFlashSwap, WithFlag
  <1> DEFINE u == up(market)
             k == traded(market)
  <1> HIDE DEF p, s
  <1>4. p \in Nat /\ s \in Nat
    <2> DEFINE j == traded(PoolOf(market))
    <2>1. /\ j.pt_balance = p /\ j.sy_balance = s
          /\ "pt_balance" \in DOMAIN j /\ "sy_balance" \in DOMAIN j
      <3>1. j = WithBalances(PoolOf(u), p, s)
        BY <1>2, Zenon
      <3> HIDE DEF u, j
      <3> QED
        BY <3>1 DEF WithBalances, PoolOf
    <2> HIDE DEF j
    <2>2. WithFlag(j, FALSE).pt_balance = p /\ WithFlag(j, FALSE).sy_balance = s
      BY <2>1 DEF WithFlag
    <2>3. WithFlag(j, FALSE) \in MP!MarketTwo
      BY <1>3, Zenon DEF j
    <2> QED
      BY <2>2, <2>3, Zenon DEF MP!MarketTwo
  <1>5. /\ k \in MarketAccount
        /\ k.lp_escrow_amount = market.lp_escrow_amount
    <2> HIDE DEF u
    <2> QED
      BY <1>1, <1>4, Zenon DEF WithBalances, MarketAccount, u
  <1>6. PoolOf(k) = traded(PoolOf(market))
    <2>2. \A m \in MarketAccount :
             PoolOf(WithBalances(m, p, s)) = WithBalances(PoolOf(m), p, s)
      BY PoolUpdates
    <2>1. PoolOf(k) = WithBalances(PoolOf(up(market)), p, s)
      BY ONLY <1>1, <2>2, Zenon
    <2> QED
      BY <1>2, <2>1, Zenon
  <1> HIDE DEF u, k, up, traded
  <1>7. PoolOf(WithFlag(k, FALSE)) = WithFlag(traded(PoolOf(market)), FALSE)
    BY <1>5, <1>6, PoolUpdates, Zenon
  <1>8. market' = WithFlag(k, FALSE)
    BY <1>3 DEF k
  <1> QED
    BY <1>3, <1>5, <1>7, <1>8, FlagAccount, Zenon

LEMMA SameFlashSwap ==
    ASSUME NEW t
    PROVE  /\ \A m : M!AfterFlashSwap(m, t) = MP!AfterFlashSwap(m, t)
           /\ \A a, b, c, d : M!FlashTrade(a, b, c, d)
                = MP!FlashTrade(a, b, c, d)
           /\ \A r, a : /\ M!SyToPy(r, a) = MP!SyToPy(r, a)
                        /\ M!PyToSy(r, a) = MP!PyToSy(r, a)
                        /\ M!PyToSyCeil(r, a) = MP!PyToSyCeil(r, a)
  <1>1. \A m : M!AfterFlashSwap(m, t) = MP!AfterFlashSwap(m, t)
    BY SameTrade, Zenon DEF M!AfterFlashSwap, MP!AfterFlashSwap
  <1>2. \A a, b, c, d : M!FlashTrade(a, b, c, d) = MP!FlashTrade(a, b, c, d)
    BY DEF M!FlashTrade, MP!FlashTrade
  <1>3. \A r, a : M!SyToPy(r, a) = MP!SyToPy(r, a)
    BY DEF M!SyToPy, MP!SyToPy, M!NumMul, MP!NumMul, M!Floor, MP!Floor,
       M!FromNatural, MP!FromNatural, M!RoundingCorrection,
       MP!RoundingCorrection
  <1>4. \A r, a : /\ M!PyToSy(r, a) = MP!PyToSy(r, a)
                  /\ M!PyToSyCeil(r, a) = MP!PyToSyCeil(r, a)
    BY DEF M!PyToSy, MP!PyToSy, M!PyToSyCeil, MP!PyToSyCeil, M!NumDiv,
       MP!NumDiv, M!Floor, MP!Floor, M!FromNatural, MP!FromNatural,
       M!CeilDiv, MP!CeilDiv, M!RoundingCorrection, MP!RoundingCorrection
  <1> QED
    BY <1>1, <1>2, <1>3, <1>4

\* The conversions of the wrappers are those of the market.
LEMMA SameMath ==
    ASSUME NEW r, NEW a
    PROVE  /\ SyToPy(r, a) = M!SyToPy(r, a)
           /\ PyToSy(r, a) = M!PyToSy(r, a)
           /\ PyToSyCeil(r, a) = M!PyToSyCeil(r, a)
  BY DEF SyToPy, M!SyToPy, PyToSy, M!PyToSy, PyToSyCeil, M!PyToSyCeil,
     NumMul, M!NumMul, NumDiv, M!NumDiv, Floor, M!Floor, FromNatural,
     M!FromNatural, CeilDiv, M!CeilDiv, RoundingCorrection,
     M!RoundingCorrection

LEMMA PoolIsTyped ==
    ASSUME MP!MarketInv
    PROVE  /\ lp_tokens \in [mint_lp : Nat, pt_escrow : Nat, sy_position : Nat]
           /\ rate \in Nat \ {0}
  <1>1. /\ lp_tokens \in [mint_lp : Nat, pt_escrow : Nat, sy_position : Nat]
        /\ rate \in Rates
    BY MarketTypes
  <1>2. Rates \subseteq Nat \ {0}
    BY Constants
  <1> QED
    BY <1>1, <1>2

\* A trade that can be made moves amounts that are natural numbers.
LEMMA TradeAmountTypes ==
    ASSUME MP!MarketInv, NEW t \in MP!Trade, M!CanTrade(t)
    PROVE  M!NetTraderSy(t) \in Nat /\ M!TreasuryFee(t) \in Nat
  <1>1. MP!CanTrade(t) /\ MP!MarketTypeOK
    BY SameTrade DEF MP!MarketInv
  <1>2. t.er > ONE /\ t.fr >= ONE /\ MP!NetTraderSy(t) \in Nat
    BY <1>1, MP!NetTraderFacts, PoolConstants
  <1>3. MP!TreasuryFee(t) \in Nat
    BY <1>1, <1>2, MP!FeeFacts, PoolConstants
  <1> QED
    BY <1>2, <1>3, SamePrices

LEMMA FlashSwapAccount ==
    ASSUME MP!MarketInv, market \in MarketAccount,
           NEW t \in MP!Trade, M!CanTrade(t),
           market' = M!AfterFlashSwap(market, t)
    PROVE  /\ market' \in MarketAccount
           /\ market'.lp_escrow_amount = market.lp_escrow_amount
           /\ ~market'.is_current_flash_swap
           /\ PoolOf(market') = MP!AfterFlashSwap(PoolOf(market), t)
  <1>1. MP!CanTrade(t) /\ MP!MarketTypeOK
    BY SameTrade DEF MP!MarketInv
  <1>2. MP!AfterFlashSwap(PoolOf(market), t) \in MP!MarketTwo
    BY <1>1, MP!AfterFlashSwapFacts, PoolConstants
  <1>3. M!AfterFlashSwap(PoolOf(market), t)
          = MP!AfterFlashSwap(PoolOf(market), t)
    BY SameFlashSwap
  <1> QED
    BY <1>2, <1>3, FlashSwapKeeps

\* What buy_yt does to the market, and that its accounts stay in order.
MarketSoldPt(sy_in, yt_out, er, fr) ==
    LET strip == PyToSyCeil(rate, yt_out)
        fee   == M!TreasuryFee(M!FlashTrade(FALSE, SoldPt(yt_out), er, fr))
    IN  /\ MP!MarketInv' /\ market' \in MarketAccount
        /\ market'.lp_escrow_amount = market.lp_escrow_amount
        /\ ~market'.is_current_flash_swap
        /\ strip \in Nat /\ strip > sy_in /\ fee \in Nat
        /\ lp_tokens'.mint_lp = lp_tokens.mint_lp
        /\ lp_tokens'.pt_escrow = lp_tokens.pt_escrow + SoldPt(yt_out)
        /\ lp_tokens'.sy_position
             = lp_tokens.sy_position - (strip - sy_in) - fee

LEMMA BuyYtKeeps ==
    ASSUME MP!MarketInv, market \in MarketAccount,
           NEW sy_in \in Nat, NEW yt_out \in Nat,
           NEW er \in Nat, NEW fr \in Nat, M!BuyYt(sy_in, yt_out, er, fr)
    PROVE  MarketSoldPt(sy_in, yt_out, er, fr)
  <1> DEFINE strip == PyToSyCeil(rate, yt_out)
             sold  == SyToPy(rate, strip)
             t     == M!FlashTrade(FALSE, sold, er, fr)
             fee   == M!TreasuryFee(t)
             net   == M!NetTraderSy(t)
             borrow == strip - sy_in
             lent  == [lp_tokens EXCEPT !.sy_position = @ - borrow]
  <1>1. /\ lp_tokens \in [mint_lp : Nat, pt_escrow : Nat, sy_position : Nat]
        /\ rate \in Nat \ {0}
    BY PoolIsTyped
  <1>2. strip \in Nat
    BY <1>1, PyToSyCeilType
  <1>3. sold \in Nat
    BY <1>1, <1>2, SyToPyType
  <1>4. strip = M!PyToSyCeil(rate, yt_out) /\ sold = M!SyToPy(rate, strip)
    BY SameMath
  <1> HIDE DEF strip, sold
  <1>5. t \in MP!Trade /\ t.is_buy = FALSE /\ t.pt = sold
    BY <1>3 DEF M!FlashTrade, MP!Trade
  <1>6. /\ M!Allowed("buy_yt") /\ strip > sy_in /\ borrow < strip
        /\ borrow <= lp_tokens.sy_position
        /\ M!CanTrade(t) /\ M!CanTransfer(lent, t) /\ net >= borrow
        /\ market' = M!AfterFlashSwap(market, t)
        /\ lp_tokens' = [M!Transferred(lent, t) EXCEPT !.sy_position = @ + net]
        /\ UNCHANGED <<now, rate>>
    BY <1>4, Zenon DEF M!BuyYt
  <1>7. /\ market' \in MarketAccount
        /\ market'.lp_escrow_amount = market.lp_escrow_amount
        /\ ~market'.is_current_flash_swap
        /\ PoolOf(market') = MP!AfterFlashSwap(PoolOf(market), t)
    BY <1>5, <1>6, FlashSwapAccount, Zenon
  <1>8. net \in Nat /\ fee \in Nat
    BY <1>5, <1>6, TradeAmountTypes, Zenon
  <1>9. MP!BuyYt(sy_in, yt_out, er, fr)
    <2>1. /\ strip = MP!PyToSyCeil(rate, yt_out)
          /\ t = MP!FlashTrade(FALSE, MP!SyToPy(rate, strip), er, fr)
      BY <1>4, SameFlashSwap, Zenon
    <2>2. /\ MP!Allowed("buy_yt") /\ MP!CanTrade(t) /\ MP!CanTransfer(lent, t)
          /\ M!Transferred(lent, t) = MP!Transferred(lent, t)
          /\ net = MP!NetTraderSy(t)
      BY <1>6, SamePool, SamePrices, SameTrade, Zenon
    <2> HIDE DEF t, net
    <2> QED
      BY <1>6, <1>7, <2>1, <2>2, Zenon DEF MP!BuyYt
  <1>10. MP!MarketInv'
    BY <1>9, MP!BuyYtGood, PoolConstants DEF MP!GoodStep
  <1>11. /\ lp_tokens'.mint_lp = lp_tokens.mint_lp
         /\ lp_tokens'.pt_escrow = lp_tokens.pt_escrow + sold
         /\ lp_tokens'.sy_position
              = ((lp_tokens.sy_position - borrow) - net - fee) + net
    <2>1. M!Transferred(lent, t) =
            [lent EXCEPT !.pt_escrow = @ + sold,
                         !.sy_position = @ - net - fee]
      BY <1>5, Zenon DEF M!Transferred
    <2> HIDE DEF t, net, fee, borrow
    <2> QED
      BY <1>1, <1>6, <2>1, Zenon
  <1>12. ((lp_tokens.sy_position - borrow) - net - fee) + net
            = lp_tokens.sy_position - borrow - fee
    <2> HIDE DEF t, net, fee
    <2> QED
      BY <1>1, <1>2, <1>8
  <1> QED
    BY <1>2, <1>6, <1>7, <1>8, <1>10, <1>11, <1>12, Zenon
    DEF strip, sold, SoldPt, MarketSoldPt

LEMMA SellYtKeeps ==
    ASSUME MP!MarketInv, market \in MarketAccount,
           NEW yt_in \in Nat, NEW er \in Nat, NEW fr \in Nat,
           M!SellYt(yt_in, er, fr)
    PROVE  LET t   == M!FlashTrade(TRUE, yt_in, er, fr)
               net == M!NetTraderSy(t)
               fee == M!TreasuryFee(t)
           IN  /\ MP!MarketInv' /\ market' \in MarketAccount
               /\ market'.lp_escrow_amount = market.lp_escrow_amount
               /\ ~market'.is_current_flash_swap
               /\ M!IsActive
               /\ net \in Nat /\ fee \in Nat
               /\ PyToSy(rate, yt_in) \in Nat /\ net <= PyToSy(rate, yt_in)
               /\ lp_tokens'.mint_lp = lp_tokens.mint_lp
               /\ lp_tokens'.pt_escrow = lp_tokens.pt_escrow - yt_in
               /\ lp_tokens'.sy_position = lp_tokens.sy_position + net - fee
  <1> DEFINE recv == PyToSy(rate, yt_in)
             t    == M!FlashTrade(TRUE, yt_in, er, fr)
             net  == M!NetTraderSy(t)
             fee  == M!TreasuryFee(t)
             lent == [lp_tokens EXCEPT !.pt_escrow = @ - yt_in]
  <1>1. /\ lp_tokens \in [mint_lp : Nat, pt_escrow : Nat, sy_position : Nat]
        /\ rate \in Nat \ {0}
    BY PoolIsTyped
  <1>2. recv \in Nat
    BY <1>1, PyToSyType
  <1>3. recv = M!PyToSy(rate, yt_in)
    BY SameMath
  <1> HIDE DEF recv
  <1>4. t \in MP!Trade /\ t.is_buy = TRUE /\ t.pt = yt_in
    BY DEF M!FlashTrade, MP!Trade
  <1>5. /\ M!Allowed("sell_yt") /\ market.pt_balance >= yt_in * 2
        /\ yt_in <= lp_tokens.pt_escrow
        /\ M!CanTrade(t) /\ M!CanTransfer(lent, t) /\ net <= recv
        /\ market' = M!AfterFlashSwap(market, t)
        /\ lp_tokens' = [M!Transferred(lent, t) EXCEPT !.pt_escrow = @ + yt_in]
        /\ UNCHANGED <<now, rate>>
    BY <1>3 DEF M!SellYt
  <1>6. /\ market' \in MarketAccount
        /\ market'.lp_escrow_amount = market.lp_escrow_amount
        /\ ~market'.is_current_flash_swap
        /\ PoolOf(market') = MP!AfterFlashSwap(PoolOf(market), t)
    BY <1>4, <1>5, FlashSwapAccount, Zenon
  <1>7. net \in Nat /\ fee \in Nat /\ M!IsActive
    BY <1>4, <1>5, TradeAmountTypes, Zenon DEF M!CanTrade
  <1>8. MP!SellYt(yt_in, er, fr)
    <2>1. /\ recv = MP!PyToSy(rate, yt_in)
          /\ t = MP!FlashTrade(TRUE, yt_in, er, fr)
      BY <1>3, SameFlashSwap, Zenon
    <2>2. /\ MP!Allowed("sell_yt") /\ MP!CanTrade(t) /\ MP!CanTransfer(lent, t)
          /\ M!Transferred(lent, t) = MP!Transferred(lent, t)
          /\ net = MP!NetTraderSy(t)
      BY <1>5, SamePool, SamePrices, SameTrade, Zenon
    <2>3. PoolOf(market).pt_balance >= yt_in * 2
      BY <1>5, PoolFields
    <2> HIDE DEF t, net
    <2> QED
      BY <1>5, <1>6, <2>1, <2>2, <2>3, Zenon DEF MP!SellYt
  <1>9. MP!MarketInv'
    BY <1>8, MP!SellYtGood, PoolConstants DEF MP!GoodStep
  <1>10. /\ lp_tokens'.mint_lp = lp_tokens.mint_lp
         /\ lp_tokens'.pt_escrow = ((lp_tokens.pt_escrow - yt_in) - yt_in) + yt_in
         /\ lp_tokens'.sy_position = lp_tokens.sy_position + net - fee
    <2>1. M!Transferred(lent, t) =
            [lent EXCEPT !.pt_escrow = @ - yt_in,
                         !.sy_position = @ + net - fee]
      BY <1>4, Zenon DEF M!Transferred
    <2> HIDE DEF t, net, fee
    <2> QED
      BY <1>1, <1>5, <2>1, Zenon
  <1>11. lp_tokens'.pt_escrow = lp_tokens.pt_escrow - yt_in
    BY <1>1, <1>10
  <1>12. yt_in <= lp_tokens.pt_escrow /\ net <= recv
    BY <1>5, Zenon
  <1> HIDE DEF t, net, fee
  <1> QED
    BY <1>2, <1>6, <1>7, <1>9, <1>10, <1>11, <1>12, Zenon DEF recv, t, net, fee

-----------------------------------------------------------------------------
(* The calls: each leaves the accounts in order and every token somewhere. *)

Sound == Held /\ Balanced

LEMMA PoolStill ==
    ASSUME MP!MarketInv, UNCHANGED <<now, sy, marketBooks>>
    PROVE  MP!MarketInv'
  <1>1. UNCHANGED MP!vars
    BY DEF MP!vars, marketBooks, rate, PoolOf
  <1> QED
    BY <1>1, MP!EveryStepGood, PoolConstants DEF MP!GoodStep

LEMMA VaultTypes ==
    ASSUME VP!IInv
    PROVE  /\ sy_vault.sy_balance \in Nat
           /\ py_tokens.mint_pt \in Nat /\ py_tokens.yt_wallets \in Nat
  BY DEF VP!IInv, VP!TypeOK, VP!SyTypeOK

LEMMA SoundTypes ==
    ASSUME Sound
    PROVE  /\ rate \in Nat \ {0}
           /\ lp_tokens \in [mint_lp : Nat, pt_escrow : Nat, sy_position : Nat]
           /\ sy_vault.sy_balance \in Nat
           /\ py_tokens.mint_pt \in Nat /\ py_tokens.yt_wallets \in Nat
           /\ wallet.sy \in Nat /\ wallet.pt \in Nat /\ wallet.yt \in Nat
           /\ wallet.lp \in Nat /\ wallet.staked \in Nat
           /\ ledger.mint_sy \in Nat /\ ledger.treasury \in Nat
           /\ wallet.sy <= ledger.mint_sy
           /\ wallet \in Wallet /\ ledger \in TokenLedgers
  <1>1. /\ rate \in Nat \ {0}
        /\ lp_tokens \in [mint_lp : Nat, pt_escrow : Nat, sy_position : Nat]
    BY PoolIsTyped DEF Sound, Held
  <1>2. /\ sy_vault.sy_balance \in Nat
        /\ py_tokens.mint_pt \in Nat /\ py_tokens.yt_wallets \in Nat
    BY VaultTypes DEF Sound, Held
  <1>3. /\ wallet.sy \in Nat /\ wallet.pt \in Nat /\ wallet.yt \in Nat
        /\ wallet.lp \in Nat /\ wallet.staked \in Nat
        /\ ledger.mint_sy \in Nat /\ ledger.treasury \in Nat
    BY DEF Sound, Held, Wallet, TokenLedgers
  <1>4. wallet.sy <= ledger.mint_sy
    BY <1>1, <1>2, <1>3 DEF Sound, Balanced
  <1> QED
    BY <1>1, <1>2, <1>3, <1>4 DEF Sound, Held

\* What the SY program mints or burns leaves the accounts alone.
LEMMA MintSyKeeps ==
    ASSUME Sound, NEW base \in Nat, MintSy(base), UNCHANGED others
    PROVE  /\ Sound' /\ MintedSy(base) \in Nat
           /\ wallet'.sy = wallet.sy + MintedSy(base)
           /\ wallet'.yt = wallet.yt /\ wallet'.lp = wallet.lp
           /\ UNCHANGED books
  <1> DEFINE minted == MintedSy(base)
  <1>1. minted \in Nat
    BY SoundTypes, MintedType
  <1>2. /\ wallet' = [wallet EXCEPT !.sy = @ + minted]
        /\ ledger' = [ledger EXCEPT !.mint_sy = @ + minted]
        /\ UNCHANGED books
    BY DEF MintSy
  <1> HIDE DEF minted
  <1>3. /\ wallet' \in Wallet /\ ledger' \in TokenLedgers
        /\ wallet'.sy = wallet.sy + minted
        /\ wallet'.pt = wallet.pt /\ wallet'.yt = wallet.yt
        /\ wallet'.lp = wallet.lp /\ wallet'.staked = wallet.staked
        /\ ledger'.mint_sy = ledger.mint_sy + minted
        /\ ledger'.treasury = ledger.treasury
    BY <1>1, <1>2 DEF Sound, Held, Wallet, TokenLedgers
  <1>4. Balanced'
    BY <1>1, <1>2, <1>3, SoundTypes DEF Sound, Balanced, books
  <1>5. VP!IInv' /\ MP!MarketInv' /\ market' \in MarketAccount
    BY <1>2, StillKeeps, PoolStill
    DEF Sound, Held, books, others, vaultBooks, marketBooks
  <1> QED
    BY <1>1, <1>2, <1>3, <1>4, <1>5 DEF Sound, Held, minted

LEMMA RedeemSyKeeps ==
    ASSUME Sound, NEW amount \in Nat, RedeemSy(amount), UNCHANGED others
    PROVE  /\ Sound' /\ wallet'.sy = wallet.sy - amount
           /\ wallet'.yt = wallet.yt /\ wallet'.lp = wallet.lp
           /\ UNCHANGED books
  <1>1. /\ amount <= wallet.sy
        /\ wallet' = [wallet EXCEPT !.sy = @ - amount]
        /\ ledger' = [ledger EXCEPT !.mint_sy = @ - amount]
        /\ UNCHANGED books
    BY DEF RedeemSy
  <1>2. wallet.sy - amount \in Nat /\ ledger.mint_sy - amount \in Nat
    BY <1>1, SoundTypes
  <1>3. /\ wallet' \in Wallet /\ ledger' \in TokenLedgers
        /\ wallet'.sy = wallet.sy - amount
        /\ wallet'.pt = wallet.pt /\ wallet'.yt = wallet.yt
        /\ wallet'.lp = wallet.lp /\ wallet'.staked = wallet.staked
        /\ ledger'.mint_sy = ledger.mint_sy - amount
        /\ ledger'.treasury = ledger.treasury
    BY <1>1, <1>2 DEF Sound, Held, Wallet, TokenLedgers
  <1>4. Balanced'
    BY <1>1, <1>3, SoundTypes DEF Sound, Balanced, books
  <1>5. VP!IInv' /\ MP!MarketInv' /\ market' \in MarketAccount
    BY <1>1, StillKeeps, PoolStill
    DEF Sound, Held, books, others, vaultBooks, marketBooks
  <1> QED
    BY <1>1, <1>3, <1>4, <1>5 DEF Sound, Held

LEMMA CpiStripKeeps ==
    ASSUME Sound, NEW amount \in Nat, DoCpiStrip(amount), UNCHANGED others
    PROVE  LET py == SyToPy(rate, amount)
           IN  /\ Sound' /\ py \in Nat
               /\ wallet'.sy = wallet.sy - amount
               /\ wallet'.pt = wallet.pt + py /\ wallet'.yt = wallet.yt + py
               /\ wallet'.lp = wallet.lp
               /\ UNCHANGED marketBooks
  <1> DEFINE py == SyToPy(rate, amount)
  <1>1. /\ amount <= wallet.sy /\ V!Strip(amount)
        /\ wallet' = [wallet EXCEPT
                 !.sy = @ - amount,
                 !.pt = @ + py_tokens'.mint_pt - py_tokens.mint_pt,
                 !.yt = @ + py_tokens'.yt_wallets - py_tokens.yt_wallets]
        /\ UNCHANGED <<marketBooks, ledger>>
    BY DEF DoCpiStrip
  <1>2. /\ VP!IInv' /\ py \in Nat
        /\ py_tokens'.mint_pt = py_tokens.mint_pt + py
        /\ py_tokens'.yt_wallets = py_tokens.yt_wallets + py
        /\ sy_vault'.sy_balance = sy_vault.sy_balance + amount
    BY <1>1, StripKeeps DEF Sound, Held
  <1> HIDE DEF py
  <1>3. /\ wallet.sy - amount \in Nat
        /\ wallet.pt + py \in Nat /\ wallet.yt + py \in Nat
        /\ wallet.pt + py_tokens'.mint_pt - py_tokens.mint_pt = wallet.pt + py
        /\ wallet.yt + py_tokens'.yt_wallets - py_tokens.yt_wallets
             = wallet.yt + py
    BY <1>1, <1>2, SoundTypes
  <1>4. wallet' = [wallet EXCEPT !.sy = wallet.sy - amount,
                                 !.pt = wallet.pt + py, !.yt = wallet.yt + py]
    BY <1>1, <1>3, Zenon
  <1>5. /\ wallet' \in Wallet
        /\ wallet'.sy = wallet.sy - amount
        /\ wallet'.pt = wallet.pt + py /\ wallet'.yt = wallet.yt + py
        /\ wallet'.lp = wallet.lp /\ wallet'.staked = wallet.staked
    <2> DEFINE a == wallet.sy - amount
               b == wallet.pt + py
               c == wallet.yt + py
    <2>1. a \in Nat /\ b \in Nat /\ c \in Nat
      BY <1>3
    <2> HIDE DEF a, b, c
    <2> DEFINE w == [wallet EXCEPT !.sy = a, !.pt = b]
    <2>2. /\ w \in Wallet
          /\ w.sy = a /\ w.pt = b
          /\ w.lp = wallet.lp /\ w.staked = wallet.staked
      BY <2>1, SoundTypes, Zenon DEF Wallet
    <2> HIDE DEF w
    <2>3. wallet' = [w EXCEPT !.yt = c]
      BY <1>4, Zenon DEF w, a, b, c
    <2> QED
      BY <2>1, <2>2, <2>3 DEF Wallet, a, b, c
  <1>6. Balanced'
    BY <1>1, <1>2, <1>5, SoundTypes DEF Sound, Balanced, marketBooks
  <1>7. MP!MarketInv' /\ market' \in MarketAccount
    BY <1>1, PoolStill DEF Sound, Held, others, marketBooks
  <1> QED
    BY <1>1, <1>2, <1>5, <1>6, <1>7 DEF Sound, Held, py

LEMMA CpiMergeKeeps ==
    ASSUME Sound, NEW py \in Nat, DoCpiMerge(py), UNCHANGED others
    PROVE  /\ Sound' /\ wallet'.sy - wallet.sy \in Nat
           /\ UNCHANGED marketBooks
  <1> DEFINE burned == V!BurnedYt(py)
  <1>1. /\ py <= wallet.pt /\ burned <= wallet.yt /\ V!Merge(py)
        /\ wallet' = [wallet EXCEPT
                 !.sy = @ + sy_vault.sy_balance - sy_vault'.sy_balance,
                 !.pt = @ - py, !.yt = @ - burned]
        /\ UNCHANGED <<marketBooks, ledger>>
    BY DEF DoCpiMerge
  <1>2. /\ VP!IInv' /\ burned \in Nat
        /\ py_tokens'.mint_pt = py_tokens.mint_pt - py
        /\ py_tokens'.yt_wallets = py_tokens.yt_wallets - burned
        /\ \E amount \in Nat :
              /\ amount <= sy_vault.sy_balance
              /\ sy_vault'.sy_balance = sy_vault.sy_balance - amount
    BY <1>1, MergeKeeps DEF Sound, Held
  <1> HIDE DEF burned
  <1>3. PICK amount \in Nat :
           /\ amount <= sy_vault.sy_balance
           /\ sy_vault'.sy_balance = sy_vault.sy_balance - amount
    BY <1>2
  <1>4. /\ wallet.pt - py \in Nat /\ wallet.yt - burned \in Nat
        /\ wallet.sy + amount \in Nat
        /\ wallet.sy + sy_vault.sy_balance - sy_vault'.sy_balance
             = wallet.sy + amount
    BY <1>1, <1>2, <1>3, SoundTypes
  <1>5. wallet' = [wallet EXCEPT !.sy = wallet.sy + amount,
                                 !.pt = wallet.pt - py,
                                 !.yt = wallet.yt - burned]
    BY <1>1, <1>4, Zenon
  <1>6. /\ wallet' \in Wallet
        /\ wallet'.sy = wallet.sy + amount
        /\ wallet'.pt = wallet.pt - py /\ wallet'.yt = wallet.yt - burned
        /\ wallet'.lp = wallet.lp /\ wallet'.staked = wallet.staked
    <2> DEFINE a == wallet.sy + amount
               b == wallet.pt - py
               c == wallet.yt - burned
    <2>1. a \in Nat /\ b \in Nat /\ c \in Nat
      BY <1>4
    <2> HIDE DEF a, b, c
    <2> DEFINE w == [wallet EXCEPT !.sy = a, !.pt = b]
    <2>2. /\ w \in Wallet
          /\ w.sy = a /\ w.pt = b
          /\ w.lp = wallet.lp /\ w.staked = wallet.staked
      BY <2>1, SoundTypes, Zenon DEF Wallet
    <2> HIDE DEF w
    <2>3. wallet' = [w EXCEPT !.yt = c]
      BY <1>5, Zenon DEF w, a, b, c
    <2> QED
      BY <2>1, <2>2, <2>3 DEF Wallet, a, b, c
  <1>7. Balanced'
    BY <1>1, <1>2, <1>3, <1>6, SoundTypes DEF Sound, Balanced, marketBooks
  <1>8. MP!MarketInv' /\ market' \in MarketAccount
    BY <1>1, PoolStill DEF Sound, Held, others, marketBooks
  <1>9. wallet'.sy - wallet.sy = amount
    BY <1>6, SoundTypes
  <1> QED
    BY <1>1, <1>2, <1>6, <1>7, <1>8, <1>9 DEF Sound, Held

LEMMA CpiDepositYtKeeps ==
    ASSUME Sound, NEW amount \in Nat, DoCpiDepositYt(amount), UNCHANGED others
    PROVE  /\ Sound' /\ wallet'.yt = wallet.yt - amount
           /\ wallet'.sy = wallet.sy /\ wallet'.lp = wallet.lp
           /\ UNCHANGED marketBooks
  <1>1. /\ amount <= wallet.yt /\ V!DepositYt(User, amount)
        /\ wallet' = [wallet EXCEPT !.yt = @ - amount]
        /\ UNCHANGED <<marketBooks, ledger>>
    BY DEF DoCpiDepositYt
  <1>2. /\ VP!IInv' /\ UNCHANGED sy_vault
        /\ py_tokens' = [py_tokens EXCEPT !.yt_wallets = @ - amount,
                                          !.escrow_yt = @ + amount]
    BY <1>1, DepositYtKeeps, Zenon DEF Sound, Held
  <1>3. /\ py_tokens'.mint_pt = py_tokens.mint_pt
        /\ py_tokens'.yt_wallets = py_tokens.yt_wallets - amount
    BY <1>2 DEF Sound, Held, VP!IInv, VP!TypeOK
  <1>4. /\ wallet' \in Wallet
        /\ wallet'.sy = wallet.sy /\ wallet'.pt = wallet.pt
        /\ wallet'.yt = wallet.yt - amount
        /\ wallet'.lp = wallet.lp /\ wallet'.staked = wallet.staked
    BY <1>1, SoundTypes DEF Sound, Held, Wallet
  <1>5. Balanced'
    BY <1>1, <1>2, <1>3, <1>4, SoundTypes DEF Sound, Balanced, marketBooks
  <1>6. MP!MarketInv' /\ market' \in MarketAccount
    BY <1>1, PoolStill DEF Sound, Held, others, marketBooks
  <1> QED
    BY <1>1, <1>2, <1>4, <1>5, <1>6 DEF Sound, Held

LEMMA CpiCollectInterestKeeps ==
    ASSUME Sound, DoCpiCollectInterest, UNCHANGED others
    PROVE  /\ Sound' /\ InterestToUser \in Nat
           /\ wallet'.sy = wallet.sy + InterestToUser
           /\ UNCHANGED marketBooks
  <1> DEFINE staged == position[User].interest.staged
             fee == CeilFee(staged, vault.interest_bps_fee)
             out == InterestToUser
  <1>1. /\ V!CollectInterest(User) /\ out = staged - fee
        /\ wallet' = [wallet EXCEPT !.sy = @ + out]
        /\ ledger' = [ledger EXCEPT !.treasury = @ + staged - out]
        /\ UNCHANGED marketBooks
    BY DEF DoCpiCollectInterest, InterestToUser
  <1>2. /\ VP!IInv' /\ UNCHANGED py_tokens
        /\ staged \in Nat
        /\ sy_vault'.sy_balance = sy_vault.sy_balance - staged
        /\ fee \in Nat /\ fee <= staged
    BY <1>1, CollectInterestKeeps DEF Sound, Held
  <1> HIDE DEF staged, fee, out
  <1>3. out \in Nat /\ ledger.treasury + staged - out = ledger.treasury + fee
    BY <1>1, <1>2, SoundTypes
  <1>4. ledger' = [ledger EXCEPT !.treasury = ledger.treasury + fee]
    BY <1>1, <1>3
  <1>5. /\ wallet' \in Wallet /\ ledger' \in TokenLedgers
        /\ wallet'.sy = wallet.sy + out /\ wallet'.pt = wallet.pt
        /\ wallet'.yt = wallet.yt
        /\ wallet'.lp = wallet.lp /\ wallet'.staked = wallet.staked
        /\ ledger'.mint_sy = ledger.mint_sy
        /\ ledger'.treasury = ledger.treasury + fee
    BY <1>1, <1>2, <1>3, <1>4, SoundTypes DEF Sound, Held, Wallet, TokenLedgers
  <1>6. Balanced'
    BY <1>1, <1>2, <1>5, SoundTypes DEF Sound, Balanced, marketBooks
  <1>7. MP!MarketInv' /\ market' \in MarketAccount
    BY <1>1, PoolStill DEF Sound, Held, others, marketBooks
  <1> QED
    BY <1>1, <1>2, <1>3, <1>5, <1>6, <1>7 DEF Sound, Held, out

LEMMA CpiTradePtKeeps ==
    ASSUME Sound, NEW t \in MP!Trade, DoCpiTradePt(t), UNCHANGED others
    PROVE  LET net == M!NetTraderSy(t)
           IN  /\ Sound' /\ net \in Nat
               /\ t.is_buy => /\ wallet'.sy = wallet.sy - net
                              /\ wallet'.pt = wallet.pt + t.pt
               /\ ~t.is_buy => /\ wallet'.sy = wallet.sy + net
                               /\ wallet'.pt = wallet.pt - t.pt
               /\ wallet'.yt = wallet.yt /\ wallet'.lp = wallet.lp
               /\ market'.is_current_flash_swap = market.is_current_flash_swap
               /\ UNCHANGED vaultBooks
  <1> DEFINE net == M!NetTraderSy(t)
             fee == M!TreasuryFee(t)
  <1>1. /\ M!TradePt(t)
        /\ IF t.is_buy THEN net <= wallet.sy ELSE t.pt <= wallet.pt
        /\ wallet' = IF t.is_buy
                     THEN [wallet EXCEPT !.sy = @ - net, !.pt = @ + t.pt]
                     ELSE [wallet EXCEPT !.sy = @ + net, !.pt = @ - t.pt]
        /\ ledger' = [ledger EXCEPT !.treasury = @ + fee]
        /\ UNCHANGED vaultBooks
    BY DEF DoCpiTradePt, Trader, FeePaid
  <1>2. /\ MP!MarketInv' /\ market' \in MarketAccount
        /\ market'.lp_escrow_amount = market.lp_escrow_amount
        /\ market'.is_current_flash_swap = market.is_current_flash_swap
        /\ net \in Nat /\ fee \in Nat
        /\ lp_tokens'.mint_lp = lp_tokens.mint_lp
        /\ t.is_buy =>
             /\ lp_tokens'.pt_escrow = lp_tokens.pt_escrow - t.pt
             /\ lp_tokens'.sy_position = lp_tokens.sy_position + net - fee
        /\ ~t.is_buy =>
             /\ lp_tokens'.pt_escrow = lp_tokens.pt_escrow + t.pt
             /\ lp_tokens'.sy_position = lp_tokens.sy_position - net - fee
    BY <1>1, TradePtKeeps DEF Sound, Held
  <1>3. t.pt \in Nat /\ t.is_buy \in BOOLEAN
    BY DEF MP!Trade
  <1> HIDE DEF net, fee
  <1>4. /\ wallet' \in Wallet
        /\ t.is_buy => /\ wallet'.sy = wallet.sy - net
                       /\ wallet'.pt = wallet.pt + t.pt
        /\ ~t.is_buy => /\ wallet'.sy = wallet.sy + net
                        /\ wallet'.pt = wallet.pt - t.pt
        /\ wallet'.yt = wallet.yt
        /\ wallet'.lp = wallet.lp /\ wallet'.staked = wallet.staked
    <2>1. wallet \in Wallet
      BY SoundTypes
    <2>2. CASE t.is_buy
      <3> DEFINE a == wallet.sy - net
                 b == wallet.pt + t.pt
      <3>1. a \in Nat /\ b \in Nat
            /\ wallet' = [wallet EXCEPT !.sy = a, !.pt = b]
        BY <1>1, <1>2, <1>3, <2>2, SoundTypes
      <3> HIDE DEF a, b
      <3> QED
        BY <2>1, <2>2, <3>1, Zenon DEF Wallet, a, b
    <2>3. CASE ~t.is_buy
      <3> DEFINE a == wallet.sy + net
                 b == wallet.pt - t.pt
      <3>1. a \in Nat /\ b \in Nat
            /\ wallet' = [wallet EXCEPT !.sy = a, !.pt = b]
        BY <1>1, <1>2, <1>3, <2>3, SoundTypes
      <3> HIDE DEF a, b
      <3> QED
        BY <2>1, <2>3, <3>1, Zenon DEF Wallet, a, b
    <2> QED
      BY <1>3, <2>2, <2>3
  <1>5. /\ ledger' \in TokenLedgers
        /\ ledger'.mint_sy = ledger.mint_sy
        /\ ledger'.treasury = ledger.treasury + fee
    BY <1>1, <1>2, SoundTypes DEF TokenLedgers
  <1>6. Balanced'
    BY <1>1, <1>2, <1>3, <1>4, <1>5, SoundTypes
    DEF Sound, Balanced, vaultBooks
  <1>7. VP!IInv'
    BY <1>1, StillKeeps DEF Sound, Held, others
  <1> QED
    BY <1>1, <1>2, <1>4, <1>5, <1>6, <1>7 DEF Sound, Held, net

LEMMA CpiDepositLiquidityKeeps ==
    ASSUME Sound, NEW pt \in Nat, NEW amount \in Nat,
           DoCpiDepositLiquidity(pt, amount), UNCHANGED others
    PROVE  LET r == M!AddLiquidity(pt, amount)
           IN  /\ Sound'
               /\ r.sy_in \in Nat /\ r.sy_in <= amount /\ r.lp_out \in Nat
               /\ wallet'.sy = wallet.sy - r.sy_in
               /\ wallet'.yt = wallet.yt /\ wallet'.lp = wallet.lp + r.lp_out
               /\ market'.is_current_flash_swap = market.is_current_flash_swap
               /\ UNCHANGED vaultBooks
  <1> DEFINE r == M!AddLiquidity(pt, amount)
  <1>1. /\ r.pt_in <= wallet.pt /\ r.sy_in <= wallet.sy
        /\ M!DepositLiquidity(pt, amount)
        /\ wallet' = [wallet EXCEPT !.sy = @ - r.sy_in, !.pt = @ - r.pt_in,
                                    !.lp = @ + r.lp_out]
        /\ UNCHANGED <<vaultBooks, ledger>>
    BY DEF DoCpiDepositLiquidity
  <1>2. /\ r.pt_in \in Nat /\ r.sy_in \in Nat /\ r.lp_out \in Nat
        /\ r.sy_in <= amount
    BY LiquidityPaid DEF Sound, Held
  <1>3. /\ MP!MarketInv' /\ market' \in MarketAccount
        /\ market'.lp_escrow_amount = market.lp_escrow_amount
        /\ market'.is_current_flash_swap = market.is_current_flash_swap
        /\ lp_tokens'.mint_lp = lp_tokens.mint_lp + r.lp_out
        /\ lp_tokens'.pt_escrow = lp_tokens.pt_escrow + r.pt_in
        /\ lp_tokens'.sy_position = lp_tokens.sy_position + r.sy_in
    BY <1>1, DepositLiquidityKeeps DEF Sound, Held
  <1> DEFINE a == wallet.sy - r.sy_in
             b == wallet.pt - r.pt_in
             c == wallet.lp + r.lp_out
  <1> HIDE DEF r
  <1>4. a \in Nat /\ b \in Nat /\ c \in Nat
    BY <1>1, <1>2, SoundTypes
  <1> DEFINE w == [wallet EXCEPT !.sy = a, !.pt = b]
  <1>5. wallet' = [w EXCEPT !.lp = c]
    BY <1>1, Zenon
  <1> HIDE DEF a, b, c
  <1>6. /\ w \in Wallet
        /\ w.sy = a /\ w.pt = b /\ w.yt = wallet.yt /\ w.staked = wallet.staked
    BY <1>4, SoundTypes, Zenon DEF Wallet
  <1> HIDE DEF w
  <1>7. /\ wallet' \in Wallet
        /\ wallet'.sy = a /\ wallet'.pt = b /\ wallet'.yt = wallet.yt
        /\ wallet'.lp = c /\ wallet'.staked = wallet.staked
    BY <1>4, <1>5, <1>6 DEF Wallet
  <1>8. Balanced'
    BY <1>1, <1>2, <1>3, <1>7, SoundTypes DEF Sound, Balanced, vaultBooks, a, b, c
  <1>9. VP!IInv' /\ ledger' \in TokenLedgers
    BY <1>1, StillKeeps DEF Sound, Held, others
  <1> QED
    BY <1>1, <1>2, <1>3, <1>7, <1>8, <1>9 DEF Sound, Held, r, a, c

LEMMA CpiWithdrawLiquidityKeeps ==
    ASSUME Sound, NEW lp \in Nat, DoCpiWithdrawLiquidity(lp), UNCHANGED others
    PROVE  /\ Sound'
           /\ wallet'.sy - wallet.sy \in Nat /\ wallet'.pt - wallet.pt \in Nat
           /\ market'.is_current_flash_swap = market.is_current_flash_swap
           /\ UNCHANGED vaultBooks
  <1>1. /\ lp <= wallet.lp /\ M!WithdrawLiquidity(lp)
        /\ wallet' = [wallet EXCEPT
                 !.sy = @ + lp_tokens.sy_position - lp_tokens'.sy_position,
                 !.pt = @ + lp_tokens.pt_escrow - lp_tokens'.pt_escrow,
                 !.lp = @ - lp]
        /\ UNCHANGED <<vaultBooks, ledger>>
    BY DEF DoCpiWithdrawLiquidity
  <1>2. /\ MP!MarketInv' /\ market' \in MarketAccount
        /\ market'.lp_escrow_amount = market.lp_escrow_amount
        /\ market'.is_current_flash_swap = market.is_current_flash_swap
        /\ lp_tokens'.mint_lp = lp_tokens.mint_lp - lp
        /\ lp_tokens'.pt_escrow <= lp_tokens.pt_escrow
        /\ lp_tokens'.sy_position <= lp_tokens.sy_position
    BY <1>1, WithdrawLiquidityKeeps DEF Sound, Held
  <1>3. lp_tokens'.pt_escrow \in Nat /\ lp_tokens'.sy_position \in Nat
    BY <1>2 DEF MP!MarketInv, MP!MarketTypeOK, MP!Tokens
  <1> DEFINE sy_out == lp_tokens.sy_position - lp_tokens'.sy_position
             pt_out == lp_tokens.pt_escrow - lp_tokens'.pt_escrow
             a == wallet.sy + sy_out
             b == wallet.pt + pt_out
             c == wallet.lp - lp
  <1>4. /\ sy_out \in Nat /\ pt_out \in Nat
        /\ wallet.sy + lp_tokens.sy_position - lp_tokens'.sy_position = a
        /\ wallet.pt + lp_tokens.pt_escrow - lp_tokens'.pt_escrow = b
        /\ c \in Nat
    BY <1>1, <1>2, <1>3, SoundTypes
  <1>5. a \in Nat /\ b \in Nat
    BY <1>4, SoundTypes
  <1> DEFINE w == [wallet EXCEPT !.sy = a, !.pt = b]
  <1>6. wallet' = [w EXCEPT !.lp = c]
    BY <1>1, <1>4, Zenon
  <1> HIDE DEF a, b, c
  <1>7. /\ w \in Wallet
        /\ w.sy = a /\ w.pt = b /\ w.yt = wallet.yt /\ w.staked = wallet.staked
    BY <1>5, SoundTypes, Zenon DEF Wallet
  <1> HIDE DEF w
  <1>8. /\ wallet' \in Wallet
        /\ wallet'.sy = a /\ wallet'.pt = b /\ wallet'.yt = wallet.yt
        /\ wallet'.lp = c /\ wallet'.staked = wallet.staked
    BY <1>4, <1>6, <1>7 DEF Wallet
  <1>9. Balanced'
    BY <1>1, <1>2, <1>3, <1>8, SoundTypes DEF Sound, Balanced, vaultBooks, a, b, c
  <1>10. VP!IInv' /\ ledger' \in TokenLedgers
    BY <1>1, StillKeeps DEF Sound, Held, others
  <1>11. wallet'.sy - wallet.sy = sy_out /\ wallet'.pt - wallet.pt = pt_out
    BY <1>4, <1>8, SoundTypes DEF a, b
  <1> QED
    BY <1>1, <1>2, <1>4, <1>8, <1>9, <1>10, <1>11 DEF Sound, Held

LEMMA CpiDepositLpKeeps ==
    ASSUME Sound, NEW lp \in Nat, DoCpiDepositLp(lp), UNCHANGED others
    PROVE  /\ Sound'
           /\ wallet'.sy = wallet.sy /\ wallet'.yt = wallet.yt
           /\ wallet'.lp = wallet.lp - lp
           /\ market'.is_current_flash_swap = market.is_current_flash_swap
           /\ UNCHANGED vaultBooks
  <1> DEFINE stake == market.lp_escrow_amount + lp
  <1>1. /\ lp <= wallet.lp
        /\ wallet' = [wallet EXCEPT !.lp = @ - lp, !.staked = @ + lp]
        /\ market' = WithStake(market, stake)
        /\ UNCHANGED <<vaultBooks, lp_tokens, ledger>>
    BY DEF DoCpiDepositLp, WithStake
  <1>2. market \in MarketAccount /\ stake = wallet.staked + lp
    BY DEF Sound, Held, Balanced
  <1>3. stake \in Nat
    BY <1>2, SoundTypes
  <1> HIDE DEF stake
  <1>4. /\ market' \in MarketAccount /\ market'.lp_escrow_amount = stake
        /\ market'.is_current_flash_swap = market.is_current_flash_swap
        /\ PoolOf(market') = PoolOf(market)
    BY <1>1, <1>2, <1>3, StakeAccount, PoolUpdates, Zenon
  <1>5. MP!MarketInv'
    <2>1. UNCHANGED MP!vars
      BY <1>1, <1>4 DEF MP!vars, others, rate
    <2>2. MP!MarketInv
      BY DEF Sound, Held
    <2> QED
      BY <2>1, <2>2, MP!EveryStepGood, PoolConstants DEF MP!GoodStep
  <1>6. /\ wallet' \in Wallet
        /\ wallet'.sy = wallet.sy /\ wallet'.pt = wallet.pt
        /\ wallet'.yt = wallet.yt
        /\ wallet'.lp = wallet.lp - lp /\ wallet'.staked = wallet.staked + lp
    <2>1. wallet.lp - lp \in Nat /\ wallet.staked + lp \in Nat /\ wallet \in Wallet
      BY <1>1, SoundTypes
    <2> QED
      BY <1>1, <2>1, Zenon DEF Wallet
  <1>7. Balanced'
    BY <1>1, <1>2, <1>4, <1>6, SoundTypes DEF Sound, Balanced, vaultBooks
  <1>8. VP!IInv' /\ ledger' \in TokenLedgers
    BY <1>1, StillKeeps DEF Sound, Held, others
  <1> QED
    BY <1>1, <1>4, <1>5, <1>6, <1>7, <1>8 DEF Sound, Held

LEMMA CpiWithdrawLpKeeps ==
    ASSUME Sound, NEW lp \in Nat, DoCpiWithdrawLp(lp), UNCHANGED others
    PROVE  /\ Sound' /\ wallet'.sy = wallet.sy
           /\ market'.is_current_flash_swap = market.is_current_flash_swap
           /\ UNCHANGED vaultBooks
  <1> DEFINE stake == market.lp_escrow_amount - lp
  <1>1. /\ lp <= wallet.staked
        /\ wallet' = [wallet EXCEPT !.lp = @ + lp, !.staked = @ - lp]
        /\ market' = WithStake(market, stake)
        /\ UNCHANGED <<vaultBooks, lp_tokens, ledger>>
    BY DEF DoCpiWithdrawLp, WithStake
  <1>2. market \in MarketAccount /\ stake = wallet.staked - lp
    BY DEF Sound, Held, Balanced
  <1>3. stake \in Nat
    BY <1>1, <1>2, SoundTypes
  <1> HIDE DEF stake
  <1>4. /\ market' \in MarketAccount /\ market'.lp_escrow_amount = stake
        /\ market'.is_current_flash_swap = market.is_current_flash_swap
        /\ PoolOf(market') = PoolOf(market)
    BY <1>1, <1>2, <1>3, StakeAccount, PoolUpdates, Zenon
  <1>5. MP!MarketInv'
    <2>1. UNCHANGED MP!vars
      BY <1>1, <1>4 DEF MP!vars, others, rate
    <2>2. MP!MarketInv
      BY DEF Sound, Held
    <2> QED
      BY <2>1, <2>2, MP!EveryStepGood, PoolConstants DEF MP!GoodStep
  <1>6. /\ wallet' \in Wallet
        /\ wallet'.sy = wallet.sy /\ wallet'.pt = wallet.pt
        /\ wallet'.yt = wallet.yt
        /\ wallet'.lp = wallet.lp + lp /\ wallet'.staked = wallet.staked - lp
    <2>1. wallet.lp + lp \in Nat /\ wallet.staked - lp \in Nat /\ wallet \in Wallet
      BY <1>1, SoundTypes
    <2> QED
      BY <1>1, <2>1, Zenon DEF Wallet
  <1>7. Balanced'
    BY <1>1, <1>2, <1>4, <1>6, SoundTypes DEF Sound, Balanced, vaultBooks
  <1>8. VP!IInv' /\ ledger' \in TokenLedgers
    BY <1>1, StillKeeps DEF Sound, Held, others
  <1> QED
    BY <1>1, <1>4, <1>5, <1>6, <1>7, <1>8 DEF Sound, Held

LEMMA CpiBuyYtKeeps ==
    ASSUME Sound, NEW sy_in \in Nat, NEW yt_out \in Nat,
           NEW er \in Nat, NEW fr \in Nat,
           DoCpiBuyYt(sy_in, yt_out, er, fr), UNCHANGED others
    PROVE  /\ Sound' /\ SoldPt(yt_out) \in Nat
           /\ wallet'.sy = wallet.sy - sy_in
           /\ wallet'.yt = wallet.yt + SoldPt(yt_out)
           /\ wallet'.lp = wallet.lp
           /\ ~market'.is_current_flash_swap
  <1> DEFINE strip == PyToSyCeil(rate, yt_out)
             sold  == SoldPt(yt_out)
             fee   == M!TreasuryFee(M!FlashTrade(FALSE, sold, er, fr))
  <1>1. /\ sy_in <= wallet.sy
        /\ M!BuyYt(sy_in, yt_out, er, fr) /\ V!Strip(strip)
        /\ wallet' = [wallet EXCEPT
                 !.sy = @ - sy_in,
                 !.yt = @ + py_tokens'.yt_wallets - py_tokens.yt_wallets]
        /\ ledger' = [ledger EXCEPT !.treasury = @ + fee]
    BY DEF DoCpiBuyYt, FeePaid
  <1>2. /\ MP!MarketInv' /\ market' \in MarketAccount
        /\ market'.lp_escrow_amount = market.lp_escrow_amount
        /\ ~market'.is_current_flash_swap
        /\ strip \in Nat /\ strip > sy_in /\ fee \in Nat
        /\ lp_tokens'.mint_lp = lp_tokens.mint_lp
        /\ lp_tokens'.pt_escrow = lp_tokens.pt_escrow + sold
        /\ lp_tokens'.sy_position
             = lp_tokens.sy_position - (strip - sy_in) - fee
    <2>1. MP!MarketInv /\ market \in MarketAccount /\ M!BuyYt(sy_in, yt_out, er, fr)
      BY <1>1 DEF Sound, Held
    <2>2. MarketSoldPt(sy_in, yt_out, er, fr)
      BY <2>1, BuyYtKeeps
    <2> QED
      BY <2>2, Zenon DEF MarketSoldPt
  <1> HIDE DEF strip, fee
  <1>3. sold = SyToPy(rate, strip)
    BY DEF SoldPt, strip
  <1>4. /\ VP!IInv' /\ sold \in Nat
        /\ py_tokens'.mint_pt = py_tokens.mint_pt + sold
        /\ py_tokens'.yt_wallets = py_tokens.yt_wallets + sold
        /\ sy_vault'.sy_balance = sy_vault.sy_balance + strip
    BY <1>1, <1>2, <1>3, StripKeeps DEF Sound, Held
  <1> HIDE DEF sold
  <1>5. /\ wallet' \in Wallet
        /\ wallet'.sy = wallet.sy - sy_in /\ wallet'.pt = wallet.pt
        /\ wallet'.yt = wallet.yt + sold
        /\ wallet'.lp = wallet.lp /\ wallet'.staked = wallet.staked
    <2> DEFINE a == wallet.sy - sy_in
               b == wallet.yt + sold
    <2>1. a \in Nat /\ b \in Nat
      BY <1>1, <1>4, SoundTypes
    <2>2. wallet.yt + py_tokens'.yt_wallets - py_tokens.yt_wallets = b
      BY <1>4, SoundTypes
    <2>3. wallet' = [wallet EXCEPT !.sy = a, !.yt = b]
      BY <1>1, <2>2, Zenon
    <2> HIDE DEF a, b
    <2> QED
      BY <2>1, <2>3, SoundTypes, Zenon DEF Wallet, a, b
  <1>6. /\ ledger' \in TokenLedgers
        /\ ledger'.mint_sy = ledger.mint_sy
        /\ ledger'.treasury = ledger.treasury + fee
    BY <1>1, <1>2, SoundTypes DEF TokenLedgers
  <1>7. Balanced'
    BY <1>2, <1>4, <1>5, <1>6, SoundTypes DEF Sound, Balanced
  <1> QED
    BY <1>2, <1>4, <1>5, <1>6, <1>7 DEF Sound, Held, sold

LEMMA CpiSellYtKeeps ==
    ASSUME Sound, NEW yt_in \in Nat, NEW er \in Nat, NEW fr \in Nat,
           DoCpiSellYt(yt_in, er, fr), UNCHANGED others
    PROVE  /\ Sound' /\ wallet'.sy - wallet.sy \in Nat
           /\ ~market'.is_current_flash_swap
  <1> DEFINE recv == PyToSy(rate, yt_in)
             net  == M!NetTraderSy(M!FlashTrade(TRUE, yt_in, er, fr))
             fee  == M!TreasuryFee(M!FlashTrade(TRUE, yt_in, er, fr))
  <1>1. /\ yt_in <= wallet.yt
        /\ M!SellYt(yt_in, er, fr) /\ V!Merge(yt_in)
        /\ sy_vault.sy_balance - sy_vault'.sy_balance = recv
        /\ wallet' = [wallet EXCEPT !.sy = @ + (recv - net), !.yt = @ - yt_in]
        /\ ledger' = [ledger EXCEPT !.treasury = @ + fee]
    BY Zenon DEF DoCpiSellYt, FeePaid, SoldYtProceeds
  <1>2. /\ MP!MarketInv' /\ market' \in MarketAccount
        /\ market'.lp_escrow_amount = market.lp_escrow_amount
        /\ ~market'.is_current_flash_swap
        /\ M!IsActive
        /\ net \in Nat /\ fee \in Nat /\ recv \in Nat /\ net <= recv
        /\ lp_tokens'.mint_lp = lp_tokens.mint_lp
        /\ lp_tokens'.pt_escrow = lp_tokens.pt_escrow - yt_in
        /\ lp_tokens'.sy_position = lp_tokens.sy_position + net - fee
    BY <1>1, SellYtKeeps, Zenon DEF Sound, Held
  <1> HIDE DEF recv, net, fee
  <1>3. /\ VP!IInv'
        /\ py_tokens'.mint_pt = py_tokens.mint_pt - yt_in
        /\ py_tokens'.yt_wallets = py_tokens.yt_wallets - V!BurnedYt(yt_in)
    BY <1>1, MergeKeeps DEF Sound, Held
  <1>4. sy_vault'.sy_balance \in Nat
    BY <1>3 DEF VP!IInv, VP!TypeOK, VP!SyTypeOK
  <1>5. V!BurnedYt(yt_in) = yt_in
    <2>1. now \in Nat /\ now <= Duration /\ Duration \in Nat
      BY <1>2, Constants DEF M!IsActive, Sound, Held, VP!IInv, VP!TypeOK
    <2> QED
      BY <2>1 DEF V!BurnedYt, V!IsActive, V!IsExpired
  <1>6. /\ wallet' \in Wallet
        /\ wallet'.sy = wallet.sy + (recv - net) /\ wallet'.pt = wallet.pt
        /\ wallet'.yt = wallet.yt - yt_in
        /\ wallet'.lp = wallet.lp /\ wallet'.staked = wallet.staked
    <2> DEFINE a == wallet.sy + (recv - net)
               b == wallet.yt - yt_in
    <2>1. a \in Nat /\ b \in Nat /\ wallet' = [wallet EXCEPT !.sy = a, !.yt = b]
      BY <1>1, <1>2, SoundTypes
    <2> HIDE DEF a, b
    <2> QED
      BY <2>1, SoundTypes, Zenon DEF Wallet, a, b
  <1>7. /\ ledger' \in TokenLedgers
        /\ ledger'.mint_sy = ledger.mint_sy
        /\ ledger'.treasury = ledger.treasury + fee
    BY <1>1, <1>2, SoundTypes DEF TokenLedgers
  <1>8. Balanced'
    BY <1>1, <1>2, <1>3, <1>4, <1>5, <1>6, <1>7, SoundTypes DEF Sound, Balanced
  <1>9. wallet'.sy - wallet.sy = recv - net /\ recv - net \in Nat
    BY <1>2, <1>6, SoundTypes
  <1> QED
    BY <1>2, <1>3, <1>6, <1>7, <1>8, <1>9 DEF Sound, Held

-----------------------------------------------------------------------------
(* What a call leaves of the course of a wrapper.                           *)

\* What holds while a transaction runs, and that it runs on.
Course ==
    /\ Sound /\ TxTyped /\ CopiesCurrent /\ FlagTaken /\ WrappersHold
    /\ committed.wallet \in Wallet
    /\ InCourse

\* After a call: the copies are current if it reloads what it has changed.
LEMMA CallKeeps ==
    ASSUME Course, UNCHANGED others,
           NEW pc, pc \notin {"open", "launch", "idle", "start", "publish"},
           NEW reloads, NEW results,
           DOMAIN results \subseteq {"sy", "py", "lp", "er", "fr"},
           \A f \in DOMAIN results : results[f] \in Nat,
           Then(pc, reloads, results),
           tx.handler = Base => tx.pc # "exit" /\ pc # "exit",
           "vault" \in Loaded(tx.handler) =>
               "vault" \in reloads \/ vault' = vault,
           "market" \in Loaded(tx.handler) =>
               "market" \in reloads \/ market' = market,
           tx.handler # Base => ~market'.is_current_flash_swap
    PROVE  /\ TxTyped' /\ CopiesCurrent' /\ InCourse'
           /\ committed'.wallet = committed.wallet
           /\ committed'.wallet \in Wallet
           /\ tx.handler # Base => FlagTaken'
           /\ tx'.handler = tx.handler /\ tx'.pc = pc
           /\ tx'.amount = tx.amount /\ tx'.amount_pt = tx.amount_pt
           /\ \A f \in {"sy", "py", "lp", "er", "fr"} :
                 tx'[f] = IF f \in DOMAIN results THEN results[f] ELSE tx[f]
  <1>1. TxTyped /\ tx.handler # "none" /\ tx.pc # "publish"
    BY DEF Course, InCourse
  <1>2. /\ TxTyped'
        /\ tx'.handler = tx.handler /\ tx'.pc = pc
        /\ tx'.amount = tx.amount /\ tx'.amount_pt = tx.amount_pt
        /\ tx'.copy = Reloaded(reloads)
        /\ \A f \in {"sy", "py", "lp", "er", "fr"} :
              tx'[f] = IF f \in DOMAIN results THEN results[f] ELSE tx[f]
    BY <1>1, ThenFacts
  <1>3. InCourse'
    BY <1>1, <1>2 DEF InCourse
  <1>4. /\ "vault" \in Loaded(tx.handler) => tx.copy.vault = vault
        /\ "market" \in Loaded(tx.handler) => tx.copy.market = market
    BY <1>1 DEF Course, CopiesCurrent
  <1>5. /\ "vault" \in Loaded(tx.handler) => tx'.copy.vault = vault'
        /\ "market" \in Loaded(tx.handler) => tx'.copy.market = market'
    BY <1>2, <1>4 DEF Reloaded
  <1>6. CopiesCurrent'
    BY <1>2, <1>5 DEF CopiesCurrent
  <1>7. tx.handler # Base => FlagTaken'
    BY <1>2 DEF FlagTaken
  <1>8. committed' = committed
    BY DEF others
  <1> QED
    BY <1>2, <1>3, <1>6, <1>7, <1>8 DEF Course

\* The same of a state with a call behind it, for the wrappers that never
\* touch the flag.
LEMMA RunsOn ==
    ASSUME Sound', TxTyped', CopiesCurrent', InCourse', FlagTaken',
           WrappersHold', committed'.wallet \in Wallet
    PROVE  Course'
  BY DEF Course

LEMMA CourseTypes ==
    ASSUME Course
    PROVE  /\ tx.sy \in Nat /\ tx.py \in Nat /\ tx.lp \in Nat
           /\ tx.amount \in Nat /\ tx.amount_pt \in Nat
           /\ tx.er \in Nat /\ tx.fr \in Nat
           /\ committed.wallet.sy \in Nat /\ committed.wallet.yt \in Nat
           /\ committed.wallet.lp \in Nat
           /\ rate \in Nat \ {0}
           /\ wallet.sy \in Nat /\ wallet.pt \in Nat /\ wallet.yt \in Nat
           /\ wallet.lp \in Nat
  BY SoundTypes DEF Course, TxTyped, Wallet

\* What the market of a wrapper that never raises the flag is like.
LEMMA NoFlag ==
    ASSUME Course, tx.handler # Base
    PROVE  ~market.is_current_flash_swap
  BY DEF Course, FlagTaken

-----------------------------------------------------------------------------
(* What the wrappers compute before they call.                              *)

\* A trade that a wrapper makes is one of the pool's.
LEMMA Trades ==
    ASSUME Course, NEW is_buy \in BOOLEAN, NEW pt \in Nat,
           NEW er \in Nat, NEW fr \in Nat
    PROVE  /\ TradeOf(is_buy, pt, er, fr) \in MP!Trade
           /\ TradeOf(is_buy, pt, er, fr).is_buy = is_buy
           /\ TradeOf(is_buy, pt, er, fr).pt = pt
           /\ ~market.is_current_flash_swap =>
                 TradeOf(is_buy, pt, er, fr) =
                    [is_buy |-> is_buy, pt |-> pt, er |-> er, fr |-> fr,
                     flash |-> FALSE]
  <1>1. market.is_current_flash_swap \in BOOLEAN
    BY DEF Course, Sound, Held, MarketAccount
  <1> QED
    BY <1>1, Zenon DEF TradeOf, MP!Trade

\* The SY that add_liquidity takes, from the books of the pool.
SyPaid(L, P, S, pt, most) ==
    CASE L = 0 -> most
      [] L > 0 /\ pt * S < most * P -> (S * L * pt + (L - 1) * P) \div (L * P)
      [] OTHER -> most

LEMMA SyPaidFacts ==
    ASSUME NEW pt, NEW most
    PROVE  /\ M!AddLiquidity(pt, most).sy_in =
                SyPaid(lp_tokens.mint_lp, market.pt_balance, market.sy_balance,
                       pt, most)
           /\ \A m : Pool(m)!AddLiquidity(pt, most).sy_in =
                SyPaid(lp_tokens.mint_lp, m.pt_balance, m.sy_balance, pt, most)
  BY DEF M!AddLiquidity, Pool!AddLiquidity, SyPaid

LEMMA SyPaidType ==
    ASSUME NEW L \in Nat, NEW P \in Nat \ {0}, NEW S \in Nat, NEW pt \in Nat,
           NEW most \in Nat
    PROVE  SyPaid(L, P, S, pt, most) \in Nat
  <1>1. CASE L = 0
    BY <1>1 DEF SyPaid
  <1>2. CASE L > 0
    <2>1. L * P \in Nat \ {0} /\ S * L * pt + (L - 1) * P \in Nat
      BY <1>2
    <2>2. (S * L * pt + (L - 1) * P) \div (L * P) \in Nat
      BY <2>1, DivFacts
    <2> QED
      BY <1>2, <2>2 DEF SyPaid
  <1> QED
    BY <1>1, <1>2

\* The books of the pool after PT are bought.
LEMMA BoughtPool ==
    ASSUME market \in MarketAccount, NEW t, t.is_buy
    PROVE  /\ M!Traded(market, t).pt_balance = market.pt_balance - t.pt
           /\ M!Traded(market, t).sy_balance
                = market.sy_balance + M!NetTraderSy(t) - M!TreasuryFee(t)
           /\ M!Traded(market, t).is_current_flash_swap
                = market.is_current_flash_swap
  <1> DEFINE net == M!NetTraderSy(t)
             fee == M!TreasuryFee(t)
             p == market.pt_balance - t.pt
             s == market.sy_balance + net - fee
  <1>1. M!Traded(market, t) = [market EXCEPT !.pt_balance = p, !.sy_balance = s]
    BY DEF M!Traded
  <1> HIDE DEF p, s
  <1>2. /\ [market EXCEPT !.pt_balance = p, !.sy_balance = s].pt_balance = p
        /\ [market EXCEPT !.pt_balance = p, !.sy_balance = s].sy_balance = s
        /\ [market EXCEPT !.pt_balance = p, !.sy_balance = s]
                .is_current_flash_swap = market.is_current_flash_swap
    BY DEF MarketAccount
  <1> QED
    BY <1>1, <1>2 DEF p, s

NeedsOf(net, fee) ==
    net + SyPaid(lp_tokens.mint_lp, market.pt_balance - tx.amount,
                 market.sy_balance + net - fee, tx.amount, MaxU64)

LEMMA NeedsFormula ==
    market \in MarketAccount =>
        BaseNeeds = NeedsOf(M!NetTraderSy(BaseTrade), M!TreasuryFee(BaseTrade))
  <1> SUFFICES ASSUME market \in MarketAccount
               PROVE  BaseNeeds = NeedsOf(M!NetTraderSy(BaseTrade),
                                          M!TreasuryFee(BaseTrade))
    OBVIOUS
  <1> DEFINE m == M!Traded(market, BaseTrade)
  <1>1. BaseTrade.is_buy /\ BaseTrade.pt = tx.amount
    BY DEF BaseTrade, M!FlashTrade
  <1>2. /\ m.pt_balance = market.pt_balance - tx.amount
        /\ m.sy_balance = market.sy_balance + M!NetTraderSy(BaseTrade)
                            - M!TreasuryFee(BaseTrade)
    BY <1>1, BoughtPool
  <1> HIDE DEF m
  <1>3. Pool(m)!AddLiquidity(tx.amount, MaxU64).sy_in =
           SyPaid(lp_tokens.mint_lp, m.pt_balance, m.sy_balance,
                  tx.amount, MaxU64)
    BY SyPaidFacts
  <1>4. BaseNeeds = M!NetTraderSy(BaseTrade)
                      + Pool(m)!AddLiquidity(tx.amount, MaxU64).sy_in
    BY DEF BaseNeeds, m
  <1> QED
    BY <1>2, <1>3, <1>4 DEF NeedsOf

\* What is needed does not change until the trade is made.
LEMMA NeedsStill ==
    ASSUME market \in MarketAccount, market' \in MarketAccount,
           UNCHANGED <<sy, lp_tokens>>,
           market'.pt_balance = market.pt_balance,
           market'.sy_balance = market.sy_balance,
           market'.fee_treasury_sy_bps = market.fee_treasury_sy_bps,
           tx'.amount = tx.amount, tx'.er = tx.er, tx'.fr = tx.fr
    PROVE  BaseNeeds' = BaseNeeds
  <1>1. BaseTrade' = BaseTrade
    BY DEF BaseTrade, M!FlashTrade
  <1>2. /\ M!NetTraderSy(BaseTrade)' = M!NetTraderSy(BaseTrade)
        /\ M!TreasuryFee(BaseTrade)' = M!TreasuryFee(BaseTrade)
    BY <1>1 DEF M!NetTraderSy, M!TreasuryFee, M!SyFee, M!NetTraderAsset,
       M!PyToSyCeil, M!PyToSy, M!PreFeeAsset, M!AssetFee, M!Whole, rate
  <1>3. (market \in MarketAccount => BaseNeeds =
            NeedsOf(M!NetTraderSy(BaseTrade), M!TreasuryFee(BaseTrade)))'
    BY NeedsFormula, PTL
  <1>4. BaseNeeds = NeedsOf(M!NetTraderSy(BaseTrade), M!TreasuryFee(BaseTrade))
    BY NeedsFormula
  <1> QED
    BY <1>2, <1>3, <1>4 DEF NeedsOf

\* What the wrapper mints for covers its needs.
LEMMA NeedsType ==
    ASSUME Sound, NEW t \in MP!Trade, t.is_buy, t.pt = tx.amount, M!CanTrade(t),
           NEW m, m = M!Traded(market, t)
    PROVE  M!NetTraderSy(t) + Pool(m)!AddLiquidity(tx.amount, MaxU64).sy_in \in Nat
  <1> DEFINE net == M!NetTraderSy(t)
             fee == M!TreasuryFee(t)
             P == market.pt_balance - tx.amount
             S == market.sy_balance + net - fee
             paid == Pool(m)!AddLiquidity(tx.amount, MaxU64).sy_in
  <1>1. net \in Nat /\ fee \in Nat
    BY TradeAmountTypes DEF Sound, Held
  <1>2. /\ market \in MarketAccount
        /\ market.pt_balance \in Nat /\ market.sy_balance \in Nat
        /\ tx.amount \in Nat
    BY DEF Sound, Held, MarketAccount, MP!Trade
  <1>3. fee <= net /\ tx.amount < market.pt_balance
    BY DEF M!CanTrade, M!CurveAccepts
  <1>4. m.pt_balance = P /\ m.sy_balance = S
    BY <1>2, BoughtPool
  <1>5. paid = SyPaid(lp_tokens.mint_lp, P, S, tx.amount, MaxU64)
    BY <1>4, SyPaidFacts
  <1> HIDE DEF net, fee, paid
  <1>6. P \in Nat \ {0} /\ S \in Nat
    BY <1>1, <1>2, <1>3
  <1>7. lp_tokens.mint_lp \in Nat /\ MaxU64 \in Nat
    BY SoundTypes, Constants
  <1> HIDE DEF P, S
  <1>8. paid \in Nat
    BY <1>2, <1>5, <1>6, <1>7, SyPaidType, Zenon
  <1>9. net + paid \in Nat
    BY <1>1, <1>8
  <1> QED
    BY <1>9 DEF net, paid

\* Writing the flag changes nothing else.
LEMMA FlagKeeps ==
    ASSUME Sound, NEW f \in BOOLEAN, market' = WithFlag(market, f),
           UNCHANGED <<vaultBooks, lp_tokens, wallet, ledger>>, UNCHANGED others
    PROVE  /\ Sound' /\ market'.is_current_flash_swap = f
           /\ market'.pt_balance = market.pt_balance
           /\ market'.sy_balance = market.sy_balance
           /\ market'.fee_treasury_sy_bps = market.fee_treasury_sy_bps
           /\ market'.lp_escrow_amount = market.lp_escrow_amount
  <1>1. /\ VP!IInv /\ MP!MarketInv /\ market \in MarketAccount
        /\ wallet \in Wallet /\ ledger \in TokenLedgers /\ Balanced
    BY DEF Sound, Held
  <1>2. VP!IInv'
    BY <1>1, StillKeeps DEF others
  <1>3. /\ market' \in MarketAccount
        /\ market'.lp_escrow_amount = market.lp_escrow_amount
        /\ market'.is_current_flash_swap = f
    BY <1>1, FlagAccount
  <1>4. /\ market'.pt_balance = market.pt_balance
        /\ market'.sy_balance = market.sy_balance
        /\ market'.limits = market.limits
        /\ market'.fee_treasury_sy_bps = market.fee_treasury_sy_bps
    BY <1>1 DEF WithFlag, MarketAccount
  <1>5. PoolOf(market') = [PoolOf(market) EXCEPT !.is_current_flash_swap = f]
    BY <1>1, PoolUpdates DEF WithFlag
  <1>6. PoolOf(market') \in MP!MarketTwo
    <2>1. PoolOf(market) \in MP!MarketTwo
      BY <1>1 DEF MP!MarketInv, MP!MarketTypeOK
    <2> QED
      BY <1>5, <2>1 DEF MP!MarketTwo
  <1>7. MP!MarketInv'
    BY <1>1, <1>4, <1>6, PoolFields DEF others, rate, MP!MarketInv,
       MP!MarketTypeOK, MP!PoolInCustody, MP!PoolStocked
  <1>8. Balanced'
    BY <1>1, <1>3 DEF Balanced, vaultBooks
  <1> QED
    BY <1>1, <1>2, <1>3, <1>4, <1>7, <1>8 DEF Sound, Held

=============================================================================
