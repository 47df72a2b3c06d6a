-------------------------- MODULE LpFarmProperties --------------------------
(***************************************************************************)
(* What makes the staking of LP correct, stated over LpFarm.               *)
(***************************************************************************)
EXTENDS LpFarm, Sums

\* The state has the types the accounts of the program have.
LpTypeOK ==
    /\ now \in Nat
    /\ market \in Market
    /\ lp_position \in [Owners -> LpPosition]
    /\ opened \subseteq Owners
    /\ tokens \in [lp_wallets : Nat, farm : [FarmMints -> Nat]]
    /\ sy_emissions \in Seq(Nat)

\* What position p is due of reward i when its index is index.
Due(trackers, i, index, balance) ==
    IF i \in DOMAIN trackers
    THEN Earned(trackers[i], index, balance)
    ELSE Earned(NewTracker, index, balance)

EmissionDue(owner, i) ==
    Due(lp_position[owner].emissions, i, EmissionIndexes(market)[i],
        lp_position[owner].lp_balance)

FarmDue(owner, i) ==
    Due(lp_position[owner].farms, i, FarmIndexes(market)[i],
        lp_position[owner].lp_balance)

\* What farm i of m will still emit, from the last time it was settled.
ToBeEmitted(m, i) ==
    LET farm == m.lp_farm.farm_emissions[i]
    IN  farm.token_rate
          * DeltaTimeFarm(farm.expiry_timestamp, m.lp_farm.last_seen_timestamp,
                          farm.expiry_timestamp)

-----------------------------------------------------------------------------
(* Safety.                                                                 *)

\* All that the positions are due of an emission, staged or not, is covered by
\* what the market has seen and not paid, which the SY program still owes it:
\* every claim of market_collect_emission can be paid, in any order, and
\* neither subtraction of the code goes below zero.
EmissionsCovered ==
    \A i \in DOMAIN market.emissions :
        /\ SumOver([o \in opened |-> EmissionDue(o, i)], opened)
             <= market.emissions[i].last_seen_staged
        /\ i \in DOMAIN sy_emissions =>
             market.emissions[i].last_seen_staged <= sy_emissions[i]

\* A farm holds what the positions are due of it and what it will still emit.
FarmRewardsCovered ==
    \A i \in DOMAIN market.lp_farm.farm_emissions :
        SumOver([o \in opened |-> FarmDue(o, i)], opened) + ToBeEmitted(market, i)
            <= tokens.farm[market.lp_farm.farm_emissions[i].mint]

\* As long as the market lists every stream of the SY program, a deposit or a
\* withdrawal of LP passes the checks that deposit_lp and withdraw_lp make
\* before they move tokens: the stake can always be taken out.
StagingNeverFails ==
    Len(sy_emissions) <= Len(market.emissions) =>
        \A owner \in opened : CanStage(owner)

\* No farm ever makes a position's subtraction of indexes go below zero,
\* whatever the administrators do to farms and emissions.
FarmsNeverUnderflow ==
    \A owner \in Owners :
        CanEarnAll(lp_position[owner].farms, FarmIndexes(market))

-----------------------------------------------------------------------------
(* The inductive invariant.                                                *)

\* A position has seen no farm and no index that the market does not have.
FarmsBehind(p, m) ==
    /\ Len(p.farms) <= Len(m.lp_farm.farm_emissions)
    /\ CanEarnAll(p.farms, FarmIndexes(m))

EmissionsBehind(p, m) ==
    /\ Len(p.emissions) <= Len(m.emissions)
    /\ CanEarnAll(p.emissions, EmissionIndexes(m))

\* Each emission stands where its stream does, and has seen no more of it
\* than there is.
StreamsListed(m, claimable) ==
    \A i \in DOMAIN m.emissions :
        /\ m.emissions[i].token_escrow = i
        /\ m.emissions[i].last_seen_staged
             <= IF i \in DOMAIN claimable THEN claimable[i] ELSE 0

\* Positions stay behind the market's indexes; those of the emissions and the
\* order of the streams survive only as long as no emission is removed.
LpInv ==
    /\ LpTypeOK
    /\ \A owner \in Owners : FarmsBehind(lp_position[owner], market)
    /\ ~MayRemoveMarketEmission =>
            /\ \A owner \in Owners : EmissionsBehind(lp_position[owner], market)
            /\ StreamsListed(market, sy_emissions)

-----------------------------------------------------------------------------
(* The inductive invariant of what is funded.  A position is due whole      *)
(* tokens, and rounding makes that an awkward measure: the invariant        *)
(* counts parts of a token, ONE of them to a token, and loses none.         *)

\* What a position is due of reward i, in parts of a token.
FineDue(trackers, i, index, balance) ==
    LET tracker == IF i \in DOMAIN trackers THEN trackers[i] ELSE NewTracker
    IN  ONE * tracker.staged + (index - tracker.last_seen_index) * balance

\* What each owner is, whose lists of trackers and balances are given.
FineDues(trackers, balances, i, index) ==
    [o \in Owners |-> FineDue(trackers[o], i, index, balances[o])]

EmissionTrackers(positions) == [o \in Owners |-> positions[o].emissions]

FarmTrackers(positions) == [o \in Owners |-> positions[o].farms]

Balances(positions) == [o \in Owners |-> positions[o].lp_balance]

EmissionFineDues(m, positions, i) ==
    FineDues(EmissionTrackers(positions), Balances(positions), i,
             EmissionIndexes(m)[i])

FarmFineDues(m, positions, i) ==
    FineDues(FarmTrackers(positions), Balances(positions), i, FarmIndexes(m)[i])

\* The market's stake is that of the positions, and it has not run ahead of
\* the clock.
StakesCounted(m, positions) ==
    /\ SumOver(Balances(positions), Owners) = m.lp_escrow_amount
    /\ m.lp_farm.last_seen_timestamp <= now

EmissionsFunded(m, positions) ==
    \A i \in DOMAIN m.emissions :
        SumOver(EmissionFineDues(m, positions, i), Owners)
            <= ONE * m.emissions[i].last_seen_staged

FarmsFunded(m, positions, held) ==
    \A i \in DOMAIN m.lp_farm.farm_emissions :
        /\ SumOver(FarmFineDues(m, positions, i), Owners) + ONE * ToBeEmitted(m, i)
             <= ONE * held[m.lp_farm.farm_emissions[i].mint]
        /\ \A j \in DOMAIN m.lp_farm.farm_emissions :
                m.lp_farm.farm_emissions[i].mint = m.lp_farm.farm_emissions[j].mint
                    => i = j

\* Emissions are funded as long as none is removed, farms as long as none is
\* modified.
FundedInv ==
    /\ StakesCounted(market, lp_position)
    /\ \A owner \in Owners \ opened : lp_position[owner] = NoPosition
    /\ ~MayRemoveMarketEmission => EmissionsFunded(market, lp_position)
    /\ ModifiedRates = {} => FarmsFunded(market, lp_position, tokens.farm)

-----------------------------------------------------------------------------
(* Action properties.                                                      *)

\* Tracker i loses what is paid out of it, and what it earned stays.
PaidOut(trackers, after, i) ==
    /\ i \in DOMAIN trackers /\ i \in DOMAIN after
    /\ after[i].last_seen_index = trackers[i].last_seen_index
    /\ after[i].staged < trackers[i].staged

Undisturbed(trackers, balance, after, balance_after, indexes) ==
    \A i \in DOMAIN indexes :
        \/ Due(after, i, indexes[i], balance_after)
             = Due(trackers, i, indexes[i], balance)
        \/ PaidOut(trackers, after, i) /\ balance_after = balance

NeutralStep ==
    \A owner \in opened :
        LET p == lp_position[owner]
            q == lp_position'[owner]
        IN  /\ Undisturbed(p.emissions, p.lp_balance, q.emissions, q.lp_balance,
                           EmissionIndexes(market'))
            /\ Undisturbed(p.farms, p.lp_balance, q.farms, q.lp_balance,
                           FarmIndexes(market'))

\* A stake earns for exactly the time it is staked: a deposit or a withdrawal,
\* by anyone, never changes what a position is due up to now, and only a
\* payment lowers it.
StakingIsNeutral == [][NeutralStep]_vars
=============================================================================
