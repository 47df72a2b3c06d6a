----------------------- MODULE TransactionsProperties -----------------------
(* What makes the wrapper instructions correct. *)
EXTENDS Transactions

\* The vault and the market as others see them.  That the market counts what
\* is staked is LpFarm's matter, and the flag is set only within a transaction.
PV == INSTANCE Vault WITH
        Users <- {User}, StartTs <- 0,
        Indexes <- {}, FirstIndexes <- {}, MaxStreams <- 0, MayDepreciate <- TRUE,
        MaxSy <- MaxU64, InitialFeeBps <- InterestFeeBps, InitialMinOp <- 1,
        StripAmounts <- Amounts, MergeAmounts <- Amounts, YtAmounts <- Amounts,
        ClaimAmounts <- {}, StatusChoices <- {}, FeeChoices <- {},
        MinOpChoices <- {}, LimitChoices <- {}, SupplyChoices <- {},
        EmissionFees <- {}, MayRemoveEmission <- FALSE,
        vault <- committed.books.vault, position <- committed.books.position,
        tokens <- committed.books.py_tokens,
        sy_position <- committed.books.sy_vault

PM == INSTANCE Market WITH
        ExpirationTs <- Duration, InitialBps <- TreasuryFeeBps,
        DepositAmounts <- Amounts \cup {MaxU64}, TradeAmounts <- Amounts,
        LpAmounts <- Amounts, YtAmounts <- Amounts, SyAmounts <- Amounts,
        StatusChoices <- {}, MaxLpChoices <- {}, BpsChoices <- {},
        LimitChoices <- {},
        market <- [f \in DOMAIN committed.books.market \ {"lp_escrow_amount"} |->
                      IF f = "is_current_flash_swap" THEN FALSE
                      ELSE committed.books.market[f]],
        tokens <- committed.books.lp_tokens

\* Type invariant: no nested call takes more than the wallet or an account has.
TransactionsTypeOK ==
    /\ wallet \in [sy : Nat, pt : Nat, yt : Nat, lp : Nat, staked : Nat]
    /\ ledger \in [mint_sy : Nat, treasury : Nat]
    /\ market.lp_escrow_amount \in Nat
    /\ lp_tokens \in M!Tokens
    /\ sy_vault.sy_balance \in Nat
    /\ \A f \in {"sy", "py", "lp", "amount", "amount_pt"} : tx[f] \in Nat

Launched == tx.pc \notin {"open", "launch"}

\* In the middle of any wrapper too, every token is somewhere: the SY minted in
\* the vault's and the market's accounts, the user's wallet or the treasury,
\* the PT in the wallet or the pool, the LP tokens in the wallet or staked.
Conservation ==
    Launched =>
        /\ ledger.mint_sy = sy_vault.sy_balance + lp_tokens.sy_position
                              + wallet.sy + ledger.treasury
        /\ py_tokens.mint_pt = lp_tokens.pt_escrow + wallet.pt
        /\ py_tokens.yt_wallets = wallet.yt
        /\ lp_tokens.mint_lp = wallet.lp + wallet.staked

\* Between transactions the account of the market is what the calls have made
\* it: it counts exactly what is staked, so that no exit of a wrapper brings
\* back an older account (reload after each call), and it is not marked as in
\* a flash swap, which would price every later trade as one
\* (wrapper_provide_liquidity_base).
MarketIsCurrent ==
    tx.pc \in {"idle", "start"} =>
        /\ market.lp_escrow_amount = wallet.staked
        /\ ~market.is_current_flash_swap

\* The wrappers that pay in the base asset mint what the nested calls then
\* need, and those that pay out redeem exactly what the nested calls brought:
\* no wrapper takes SY that the user had before (sy_to_py_ceil, sim_buy_yt).
UserSyIsSafe ==
    tx.pc = "exit" =>
        /\ wallet.sy >= committed.wallet.sy
        /\ tx.handler \in {"wrapper_merge", "wrapper_collect_interest",
                           "wrapper_sell_pt", "wrapper_sell_yt",
                           "wrapper_withdraw_liquidity",
                           "wrapper_withdraw_liquidity_classic"} =>
               wallet.sy = committed.wallet.sy

\* The YT and the LP tokens that a wrapper obtains for the user are all
\* deposited, and the user's own stay in the wallet.
YieldIsDeposited ==
    (tx.pc = "exit"
       /\ tx.handler \in {"wrapper_strip", "wrapper_buy_yt",
                          "wrapper_provide_liquidity",
                          "wrapper_provide_liquidity_base",
                          "wrapper_provide_liquidity_classic"}) =>
        wallet.yt = committed.wallet.yt /\ wallet.lp = committed.wallet.lp

\* A wrapper does to the vault only what the vault's own instructions do, one
\* after the other: what it writes when it exits undoes none of them.
VaultRefined == PV!Spec

\* And to the market's pool only what the market's instructions do.
PoolRefined == PM!Spec
=============================================================================
