------------------------------- MODULE LpFarm -------------------------------
(***************************************************************************)
(* Staked LP of a market: the rewards that accrue to the market's SY       *)
(* account (emissions) and the rewards that administrators fund (farms),   *)
(* shared among the LP positions by indexes of reward per staked token.    *)
(*                                                                         *)
(* Both kinds of reward run on the same trackers, and every instruction    *)
(* that changes a stake first settles the market's indexes and stages what *)
(* the position earned.  Each instruction is one atomic transaction: an    *)
(* error or a panic in it leaves no trace, so its action is not enabled.   *)
(***************************************************************************)
EXTENDS YieldMath, Integers, SequencesExt

CONSTANTS
    Owners,             \* owners of LP positions
    FarmMints,          \* tokens that farms may pay
    MaxTime,            \* bound on the clock
    MaxLp,              \* bound: LP that the owners hold between them
    LpAmounts,          \* bounds: inputs of the owners
    FarmClaims,
    MaxStreams,         \* bound: emission streams of the SY program
    Credits,            \* bound: what a stream accrues in a unit of time
    FarmRates,          \* bounds: inputs of the administrators
    FarmExpiries, ModifiedRates,
    MayRemoveMarketEmission   \* do the admins remove market emissions?

ASSUME LpFarmAssumption ==
    /\ IsFiniteSet(Owners)
    /\ MaxTime \in Nat /\ MaxLp \in Nat /\ MaxStreams \in Nat
    /\ LpAmounts \subseteq Nat /\ FarmClaims \subseteq Nat
    /\ Credits \subseteq Nat
    /\ FarmRates \subseteq Nat /\ FarmExpiries \subseteq Nat
    /\ ModifiedRates \subseteq Nat
    /\ MayRemoveMarketEmission \in BOOLEAN

VARIABLES
    now,            \* the cluster's clock
    market,         \* account MarketTwo: what concerns staked LP
    lp_position,    \* accounts LpPosition
    opened,         \* owners whose position account exists
    tokens,         \* LP in wallets, and the market's account of each mint
    sy_emissions    \* amount_claimable of the market's account in the SY program

vars == <<now, market, lp_position, opened, tokens, sy_emissions>>

Tracker == [last_seen_index : Nat, staged : Nat]

LpPosition == [lp_balance : Nat, emissions : Seq(Tracker), farms : Seq(Tracker)]

\* token_escrow is the stream whose rewards the account receives.
MarketEmission == [token_escrow : Nat, lp_share_index : Nat,
                   last_seen_staged : Nat]

FarmEmission == [mint : FarmMints, token_rate : Nat, expiry_timestamp : Nat,
                 index : Nat]

LpFarmAccount == [last_seen_timestamp : Nat, farm_emissions : Seq(FarmEmission)]

\* claim_emission (of cpi_accounts) is the stream claimed at each index.
Market == [emissions : Seq(MarketEmission), lp_farm : LpFarmAccount,
           lp_escrow_amount : Nat, claim_emission : Seq(Nat)]

NewTracker == [last_seen_index |-> 0, staged |-> 0]

NoPosition == [lp_balance |-> 0, emissions |-> <<>>, farms |-> <<>>]

\* A new market; its liquidity has been provided and nothing is staked.
Init ==
    /\ now = 0
    /\ market = [emissions |-> <<>>,
                 lp_farm |-> [last_seen_timestamp |-> 0, farm_emissions |-> <<>>],
                 lp_escrow_amount |-> 0, claim_emission |-> <<>>]
    /\ lp_position = [o \in Owners |-> NoPosition]
    /\ opened = {}
    /\ tokens = [lp_wallets |-> MaxLp, farm |-> [m \in FarmMints |-> 0]]
    /\ sy_emissions = <<>>

-----------------------------------------------------------------------------
(* Settling the market's indexes.                                          *)

EmissionIndexes(m) ==
    [i \in DOMAIN m.emissions |-> m.emissions[i].lp_share_index]

FarmIndexes(m) ==
    [i \in DOMAIN m.lp_farm.farm_emissions |-> m.lp_farm.farm_emissions[i].index]

\* The loop over the SY program's streams panics on one the market does not
\* list, and on one that was credited less than the market has seen.
CanUpdateEmissions(m) ==
    /\ Len(sy_emissions) <= Len(m.emissions)
    /\ \A i \in DOMAIN sy_emissions :
            m.emissions[i].last_seen_staged <= sy_emissions[i]

\* What accrued since the last time is shared among the staked LP; without
\* any, FromRatio is zero and the amount is nobody's.
SeenEmission(e, amount_claimable, staked) ==
    [e EXCEPT
        !.lp_share_index =
            @ + FromRatio(amount_claimable - e.last_seen_staged, staked),
        !.last_seen_staged = amount_claimable]

UpdateEmissionsFromPositionState(m) ==
    [m EXCEPT !.emissions =
        [i \in DOMAIN m.emissions |->
            IF i \in DOMAIN sy_emissions
            THEN SeenEmission(m.emissions[i], sy_emissions[i], m.lp_escrow_amount)
            ELSE m.emissions[i]]]

\* Mutant: a farm keeps emitting after its expiry.
DeltaTimeFarmUncapped(expiry, last_seen, current) ==
    IF last_seen >= current THEN 0 ELSE current - last_seen

DeltaTimeFarm(expiry, last_seen, current) ==
    IF last_seen >= Smaller(expiry, current) THEN 0
    ELSE Smaller(expiry, current) - last_seen

IncIndex(farm, time_delta, staked) ==
    [farm EXCEPT !.index = @ + FromRatio(farm.token_rate * time_delta, staked)]

\* One last_seen_timestamp serves all farms.
IncreaseShareIndexes(m) ==
    LET farms == m.lp_farm.farm_emissions
        seen  == m.lp_farm.last_seen_timestamp
    IN  [m EXCEPT !.lp_farm =
            [last_seen_timestamp |-> now,
             farm_emissions |-> [i \in DOMAIN farms |->
                IncIndex(farms[i],
                         DeltaTimeFarm(farms[i].expiry_timestamp, seen, now),
                         m.lp_escrow_amount)]]]

Settle(m) == IncreaseShareIndexes(UpdateEmissionsFromPositionState(m))

-----------------------------------------------------------------------------
(* Staging what a position earned.                                         *)

EnsureTrackers(trackers, indexes) ==
    [i \in 1..Larger(Len(trackers), Len(indexes)) |->
        IF i \in DOMAIN trackers THEN trackers[i] ELSE NewTracker]

\* What a tracker earned up to index, staged or not.
Earned(tracker, index, balance) ==
    tracker.staged
        + Floor(NumMul(index - tracker.last_seen_index, FromNatural(balance)))

\* Number subtraction panics below zero.
CanEarnAll(trackers, indexes) ==
    \A i \in DOMAIN trackers \cap DOMAIN indexes :
        trackers[i].last_seen_index <= indexes[i]

\* Mutant: what was staged is not marked as seen.
EarnAllUnmarked(trackers, indexes, balance) ==
    LET ensured == EnsureTrackers(trackers, indexes)
    IN  [i \in DOMAIN ensured |->
            IF i \notin DOMAIN indexes THEN ensured[i]
            ELSE [ensured[i] EXCEPT
                    !.staged = Earned(ensured[i], indexes[i], balance)]]

EnsureTrackersAndEarnAll(trackers, indexes, balance) ==
    LET ensured == EnsureTrackers(trackers, indexes)
    IN  [i \in DOMAIN ensured |->
            IF i \notin DOMAIN indexes THEN ensured[i]
            ELSE [last_seen_index |-> indexes[i],
                  staged |-> Earned(ensured[i], indexes[i], balance)]]

CanStageAll(p, m) ==
    /\ CanEarnAll(p.emissions, EmissionIndexes(m))
    /\ CanEarnAll(p.farms, FarmIndexes(m))

StageAll(p, m) ==
    [p EXCEPT
        !.emissions =
            EnsureTrackersAndEarnAll(@, EmissionIndexes(m), p.lp_balance),
        !.farms = EnsureTrackersAndEarnAll(@, FarmIndexes(m), p.lp_balance)]

\* deposit_lp and withdraw_lp resize the account for the market's trackers;
\* a position that holds more of them cannot be written back.
Fits(p, m) ==
    Len(p.emissions) + Len(p.farms)
        <= Len(m.emissions) + Len(m.lp_farm.farm_emissions)

\* The checks that deposit_lp and withdraw_lp make before they move LP.
CanStage(owner) ==
    LET m == Settle(market)
    IN  /\ CanUpdateEmissions(market)
        /\ CanStageAll(lp_position[owner], m)
        /\ Fits(StageAll(lp_position[owner], m), m)

-----------------------------------------------------------------------------
(* The owners' instructions.                                               *)

\* The trackers start at the market's last indexes, which are not settled.
InitLpPosition(owner) ==
    /\ owner \notin opened
    /\ opened' = opened \cup {owner}
    /\ lp_position' =
        [lp_position EXCEPT ![owner] =
            [lp_balance |-> 0,
             emissions |-> [i \in DOMAIN market.emissions |->
                [last_seen_index |-> EmissionIndexes(market)[i], staged |-> 0]],
             farms |-> [i \in DOMAIN market.lp_farm.farm_emissions |->
                [last_seen_index |-> FarmIndexes(market)[i], staged |-> 0]]]]
    /\ UNCHANGED <<now, market, tokens, sy_emissions>>

\* Mutant: the deposit is staged with the stake it makes.
DepositLpThenStage(owner, amount) ==
    /\ owner \in opened
    /\ CanStage(owner)
    /\ amount <= tokens.lp_wallets
    /\ market' = [Settle(market) EXCEPT !.lp_escrow_amount = @ + amount]
    /\ lp_position' =
        [lp_position EXCEPT ![owner] =
            StageAll([@ EXCEPT !.lp_balance = @ + amount], Settle(market))]
    /\ tokens' = [tokens EXCEPT !.lp_wallets = @ - amount]
    /\ UNCHANGED <<now, opened, sy_emissions>>

\* Anyone may add LP to anyone's position.
DepositLp(owner, amount) ==
    /\ owner \in opened
    /\ CanStage(owner)
    /\ amount <= tokens.lp_wallets
    /\ market' = [Settle(market) EXCEPT !.lp_escrow_amount = @ + amount]
    /\ lp_position' =
        [lp_position EXCEPT ![owner] =
            [StageAll(lp_position[owner], Settle(market)) EXCEPT
                !.lp_balance = @ + amount]]
    /\ tokens' = [tokens EXCEPT !.lp_wallets = @ - amount]
    /\ UNCHANGED <<now, opened, sy_emissions>>

WithdrawLp(owner, amount) ==
    /\ owner \in opened
    /\ CanStage(owner)
    /\ amount <= lp_position[owner].lp_balance
    /\ amount <= market.lp_escrow_amount
    /\ market' = [Settle(market) EXCEPT !.lp_escrow_amount = @ - amount]
    /\ lp_position' =
        [lp_position EXCEPT ![owner] =
            [StageAll(lp_position[owner], Settle(market)) EXCEPT
                !.lp_balance = @ - amount]]
    /\ tokens' = [tokens EXCEPT !.lp_wallets = @ + amount]
    /\ UNCHANGED <<now, opened, sy_emissions>>

\* Mutant: the market forgets that the claim lowers what it has seen.
MarketCollectEmissionUnseen(owner, i) ==
    /\ owner \in opened
    /\ i \in DOMAIN market.emissions
    /\ i \in DOMAIN lp_position[owner].emissions
    /\ i \in DOMAIN market.claim_emission
    /\ LET amount == lp_position[owner].emissions[i].staged
           stream == market.claim_emission[i]
       IN  /\ stream \in DOMAIN sy_emissions
           /\ amount <= sy_emissions[stream]
           /\ sy_emissions' = [sy_emissions EXCEPT ![stream] = @ - amount]
    /\ lp_position' = [lp_position EXCEPT ![owner].emissions[i].staged = 0]
    /\ UNCHANGED <<now, market, opened, tokens>>

\* Claims all that is staged.  The rewards pass through the account listed for
\* the emission, so those of another stream cannot be paid out of it.
MarketCollectEmission(owner, i) ==
    /\ owner \in opened
    /\ i \in DOMAIN market.emissions
    /\ i \in DOMAIN lp_position[owner].emissions
    /\ i \in DOMAIN market.claim_emission
    /\ LET amount == lp_position[owner].emissions[i].staged
           stream == market.claim_emission[i]
       IN  /\ amount = 0 \/ stream = market.emissions[i].token_escrow
           /\ stream \in DOMAIN sy_emissions
           /\ amount <= sy_emissions[stream]
           /\ sy_emissions' = [sy_emissions EXCEPT ![stream] = @ - amount]
           /\ amount <= market.emissions[i].last_seen_staged
           /\ market' = [market EXCEPT !.emissions[i].last_seen_staged = @ - amount]
    /\ lp_position' = [lp_position EXCEPT ![owner].emissions[i].staged = 0]
    /\ UNCHANGED <<now, opened, tokens>>

\* find_farm_emission_position
FarmsOf(mint) ==
    {i \in DOMAIN market.lp_farm.farm_emissions :
        market.lp_farm.farm_emissions[i].mint = mint}

\* Amount::All, or some amount of the staged balance.
Claimable(staged) == {staged} \cup {a \in FarmClaims : a <= staged}

ClaimFarmEmissions(owner, mint) ==
    /\ owner \in opened
    /\ \E i \in FarmsOf(mint) :
        /\ i \in DOMAIN lp_position[owner].farms
        /\ \E amount \in Claimable(lp_position[owner].farms[i].staged) :
            /\ amount <= tokens.farm[mint]
            /\ tokens' = [tokens EXCEPT !.farm[mint] = @ - amount]
            /\ lp_position' =
                [lp_position EXCEPT ![owner].farms[i].staged = @ - amount]
    /\ UNCHANGED <<now, market, opened, sy_emissions>>

-----------------------------------------------------------------------------
(* The administrators' instructions.                                       *)

\* Funded for its whole life by the signer.
AddFarm(mint, token_rate, until) ==
    /\ FarmsOf(mint) = {}
    /\ until >= now
    /\ market' =
        [IncreaseShareIndexes(market) EXCEPT !.lp_farm.farm_emissions =
            Append(@, [mint |-> mint, token_rate |-> token_rate,
                       expiry_timestamp |-> until, index |-> 0])]
    /\ tokens' = [tokens EXCEPT !.farm[mint] = @ + (until - now) * token_rate]
    /\ UNCHANGED <<now, lp_position, opened, sy_emissions>>

\* Mutant: a farm with a new rate starts a new index.
RestartedFarm(farm, until, rate) ==
    [farm EXCEPT !.expiry_timestamp = until, !.token_rate = rate, !.index = 0]

ChangedFarm(farm, until, rate) ==
    [farm EXCEPT !.expiry_timestamp = until, !.token_rate = rate]

\* Mutant: the tokens needed are moved, however many there are.
CanFund(needed) == TRUE

\* A transfer of more than the farm holds fails.
CanTransfer(needed) == needed >= 0

\* Whether tokens are missing (transferred in) or left over (transferred out),
\* the farm is left with what the new rate needs until the new expiry.
ModifyFarm(mint, until, rate) ==
    LET needed == (until - now) * rate
    IN  /\ CanTransfer(needed)
        /\ \E i \in FarmsOf(mint) :
            market' = [IncreaseShareIndexes(market) EXCEPT
                        !.lp_farm.farm_emissions[i] = ChangedFarm(@, until, rate)]
        /\ tokens' = [tokens EXCEPT !.farm[mint] = needed]
        /\ UNCHANGED <<now, lp_position, opened, sy_emissions>>

\* The accounts that claim each of the emissions listed.
ClaimAccounts(emissions) == [i \in DOMAIN emissions |-> emissions[i].token_escrow]

\* Streams are registered in the SY program's order, as far as they are not yet.
AddMarketEmission ==
    \E stream \in 1..MaxStreams :
        /\ \A i \in DOMAIN market.emissions :
                market.emissions[i].token_escrow # stream
        /\ \A other \in 1..(stream - 1) : \E i \in DOMAIN market.emissions :
                market.emissions[i].token_escrow = other
        /\ market' =
            [market EXCEPT
                !.emissions = Append(@, [token_escrow |-> stream,
                                         lp_share_index |-> 0,
                                         last_seen_staged |-> 0]),
                !.claim_emission =
                    Append(ClaimAccounts(market.emissions), stream)]
        /\ UNCHANGED <<now, lp_position, opened, tokens, sy_emissions>>

\* The later emissions move down; positions and cpi_accounts are left alone.
RemoveMarketEmission(i) ==
    /\ MayRemoveMarketEmission
    /\ i \in DOMAIN market.emissions
    /\ market' = [market EXCEPT !.emissions = RemoveAt(@, i)]
    /\ UNCHANGED <<now, lp_position, opened, tokens, sy_emissions>>

ChangeCpiAccounts ==
    /\ market.claim_emission # ClaimAccounts(market.emissions)
    /\ market' = [market EXCEPT !.claim_emission = ClaimAccounts(market.emissions)]
    /\ UNCHANGED <<now, lp_position, opened, tokens, sy_emissions>>

-----------------------------------------------------------------------------
(* The specification.                                                      *)

\* While time passes the SY program credits the market's account, in whichever
\* call makes it do so.
Tick ==
    /\ now < MaxTime
    /\ now' = now + 1
    /\ \E credit \in [DOMAIN sy_emissions -> Credits] :
            sy_emissions' = [i \in DOMAIN sy_emissions |->
                                sy_emissions[i] + credit[i]]
    /\ UNCHANGED <<market, lp_position, opened, tokens>>

\* A stream the account meets for the first time has accrued nothing.
SyAddsStream ==
    /\ Len(sy_emissions) < MaxStreams
    /\ sy_emissions' = Append(sy_emissions, 0)
    /\ UNCHANGED <<now, market, lp_position, opened, tokens>>

OwnerStep ==
    \E owner \in Owners :
        \/ InitLpPosition(owner)
        \/ \E amount \in LpAmounts : DepositLp(owner, amount)
        \/ \E amount \in LpAmounts : WithdrawLp(owner, amount)
        \/ \E i \in 1..MaxStreams : MarketCollectEmission(owner, i)
        \/ \E mint \in FarmMints : ClaimFarmEmissions(owner, mint)

AdminStep ==
    \/ \E mint \in FarmMints, rate \in FarmRates, until \in FarmExpiries :
          AddFarm(mint, rate, until)
    \/ \E mint \in FarmMints, rate \in ModifiedRates, until \in FarmExpiries :
          ModifyFarm(mint, until, rate)
    \/ AddMarketEmission
    \/ \E i \in 1..MaxStreams : RemoveMarketEmission(i)
    \/ ChangeCpiAccounts

Next == Tick \/ SyAddsStream \/ OwnerStep \/ AdminStep

Spec == Init /\ [][Next]_vars
=============================================================================
