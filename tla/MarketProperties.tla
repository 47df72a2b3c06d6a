-------------------------- MODULE MarketProperties --------------------------
(* What makes the market correct. *)
EXTENDS Market

\* Type invariant of the accounts: no balance goes below zero, whatever is
\* borrowed, traded, taken out or paid as a fee.
MarketTypeOK ==
    /\ now \in 0..MaxTime
    /\ rate \in Rates
    /\ market \in MarketTwo
    /\ tokens \in Tokens

\* The pool owns what its books say: the PT are all in the escrow and the SY
\* in the SY program, also after a flash swap that lent and got back both
\* (buy_yt, sell_yt).
PoolInCustody ==
    /\ tokens.pt_escrow = market.pt_balance
    /\ tokens.sy_position >= market.sy_balance

\* While there are LP tokens both sides of the pool are positive: no trade
\* drains one, so add_liquidity never divides by zero and LP always own some
\* of both (trade, rm_liquidity).
PoolStocked ==
    tokens.mint_lp > 0 => market.pt_balance > 0 /\ market.sy_balance > 0

\* Whoever adds or removes liquidity leaves the other LP with no less of
\* either side per token, however the amounts are rounded (add_liquidity,
\* rm_liquidity).
LpNeverDiluted ==
    [][ tokens'.mint_lp # tokens.mint_lp =>
            /\ market'.pt_balance * tokens.mint_lp
                   >= market.pt_balance * tokens'.mint_lp
            /\ market'.sy_balance * tokens.mint_lp
                   >= market.sy_balance * tokens'.mint_lp
      ]_vars

\* SY in the SY program beyond the pool's books, left there by flash swaps,
\* is never paid out to anyone.
SurplusNeverSpent ==
    [][ tokens'.sy_position - market'.sy_balance
            >= tokens.sy_position - market.sy_balance ]_vars

\* PT never fetch their par value: what the pool gives up for PT, treasury
\* fee included, is worth less than the PT it gains ("Asset cannot be worth
\* less than PT"), in a plain trade and in a flash swap.
PtBelowPar ==
    [][ (tokens'.mint_lp = tokens.mint_lp
             /\ market'.pt_balance > market.pt_balance) =>
            (market.sy_balance - market'.sy_balance) * rate
                < (market'.pt_balance - market.pt_balance) * ONE ]_vars

\* LP supply moves within the window: the balance it is measured from changes
\* only when the window has run out, and no deposit or withdrawal leaves the
\* supply further from it than the limits (verify_limits).
WindowHolds ==
    [][ LET l == market.limits
            k == market'.limits
            start == k.window_start_net_balance
        IN  /\ start # l.window_start_net_balance =>
                   now > l.window_start_timestamp + l.duration
            /\ tokens'.mint_lp # tokens.mint_lp =>
                   /\ tokens'.mint_lp * 10000 >= start * (10000 - k.negative)
                   /\ k.positive < MaxU32 =>
                          tokens'.mint_lp * 10000 <= start * (10000 + k.positive)
      ]_vars
=============================================================================
