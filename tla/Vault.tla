------------------------------- MODULE Vault -------------------------------
(***************************************************************************)
(* The yield-stripping vault of exponent_core.                             *)
(*                                                                         *)
(* SY deposited in the vault is split into PT (par value, redeemable) and  *)
(* YT (a claim on the yield until maturity).  YT earns only for the yield  *)
(* position it sits in: a user's, once deposited, or else the vault's own  *)
(* ("robot") position.  Each instruction is one atomic transaction: an     *)
(* error or a panic in it leaves no trace, so its action is not enabled.   *)
(*                                                                         *)
(* Token accounts are abstracted to totals: PT and YT are transferable, so *)
(* any holder may bring any token that is not in the vault's escrow.       *)
(***************************************************************************)
EXTENDS SyProgram, SequencesExt

CONSTANTS
    Users,              \* owners of yield positions
    Robot,              \* the vault's own position, owned by its authority
    StartTs, Duration,  \* the vault's life
    MaxTime,            \* bound on the clock
    MaxU32, MaxU64,     \* u32::MAX and u64::MAX
    MaxSy,              \* bound: SY that depositors own between them
    InitialFeeBps,      \* interest_bps_fee given at initialization
    InitialMinOp,       \* min_op_size_strip and min_op_size_merge, likewise
    StripAmounts, MergeAmounts, YtAmounts, ClaimAmounts,   \* bounds: inputs
    StatusChoices, FeeChoices, MinOpChoices,               \* bounds: settings
    LimitChoices, SupplyChoices,
    EmissionFees,            \* fee_bps given to add_emission
    MayRemoveEmission        \* do the admins remove emissions?

ASSUME VaultAssumption ==
    /\ IsFiniteSet(Users) /\ Robot \notin Users
    /\ StartTs \in Nat /\ Duration \in Nat /\ MaxTime \in Nat
    /\ MaxU32 \in Nat /\ MaxU64 \in Nat /\ MaxSy \in Nat
    /\ InitialFeeBps \in Nat /\ InitialMinOp \in Nat
    /\ StripAmounts \subseteq Nat /\ MergeAmounts \subseteq Nat
    /\ YtAmounts \subseteq Nat /\ ClaimAmounts \subseteq Nat
    /\ FeeChoices \subseteq Nat /\ MinOpChoices \subseteq Nat
    /\ SupplyChoices \subseteq Nat /\ EmissionFees \subseteq Nat
    /\ MayRemoveEmission \in BOOLEAN

VARIABLES
    now,        \* the cluster's clock
    vault,      \* account Vault
    position,   \* accounts YieldTokenPosition
    opened,     \* users whose position account exists
    tokens      \* mint_pt supply, YT in wallets, YT in the vault's escrow

vars == <<now, vault, position, opened, tokens, sy, sy_position>>

Holders == Users \cup {Robot}

Flags == {"strip", "merge", "deposit_yt", "withdraw_yt",
          "collect_interest", "collect_emissions"}

\* token_account is the stream whose rewards the account receives.
EmissionInfo == [token_account : Nat, initial_index : Nat,
                 last_seen_index : Nat, final_index : Nat,
                 fee_bps : Nat, treasury_emission : Nat]

ClaimLimits == [claim_window_start_timestamp : Nat,
                total_claim_amount_in_window : Nat,
                max_claim_amount_per_window : Nat,
                claim_window_duration_seconds : Nat]

\* claim_emission (of cpi_accounts) is the stream claimed at each index.
VaultAccount == [last_seen_sy_exchange_rate : Nat,
                 all_time_high_sy_exchange_rate : Nat,
                 final_sy_exchange_rate : Nat,
                 total_sy_in_escrow : Nat, sy_for_pt : Nat, pt_supply : Nat,
                 treasury_sy : Nat, uncollected_sy : Nat,
                 interest_bps_fee : Nat,
                 min_op_size_strip : Nat, min_op_size_merge : Nat,
                 status : SUBSET Flags, emissions : Seq(EmissionInfo),
                 claim_emission : Seq(Nat),
                 claim_limits : ClaimLimits, max_py_supply : Nat]

Tracker == [last_seen_index : Nat, staged : Nat]

\* space is the number of emission trackers the account has bytes for.
YieldTokenPosition == [yt_balance : Nat, interest : Tracker,
                       emissions : Seq(Tracker), space : Nat]

ASSUME SettingsAssumption ==
    /\ StatusChoices \subseteq SUBSET Flags
    /\ LimitChoices \subseteq [max : Nat, duration : Nat]

NewTracker == [last_seen_index |-> 0, staged |-> 0]

NewPosition == [yt_balance |-> 0, interest |-> NewTracker,
                emissions |-> <<>>, space |-> 0]

\* initialize_vault; rates and amounts are the zeroes of a fresh account.
Init ==
    /\ now \in 0..StartTs
    /\ vault = [last_seen_sy_exchange_rate |-> 0,
                all_time_high_sy_exchange_rate |-> 0,
                final_sy_exchange_rate |-> 0,
                total_sy_in_escrow |-> 0, sy_for_pt |-> 0, pt_supply |-> 0,
                treasury_sy |-> 0, uncollected_sy |-> 0,
                interest_bps_fee |-> InitialFeeBps,
                min_op_size_strip |-> InitialMinOp,
                min_op_size_merge |-> InitialMinOp,
                status |-> Flags, emissions |-> <<>>, claim_emission |-> <<>>,
                claim_limits |-> [claim_window_start_timestamp |-> StartTs,
                                  total_claim_amount_in_window |-> 0,
                                  max_claim_amount_per_window |-> MaxU64,
                                  claim_window_duration_seconds |-> Duration],
                max_py_supply |-> MaxU64]
    /\ position = [h \in Holders |-> NewPosition]
    /\ opened = {}
    /\ tokens = [mint_pt |-> 0, yt_wallets |-> 0, escrow_yt |-> 0]
    /\ SyInit

-----------------------------------------------------------------------------
(* The vault account: what every handler computes from it.                 *)

IsExpired(t) == t > StartTs + Duration

\* Mutant: the end of the vault's life is forgotten.
IsActiveForever(t) == t >= StartTs

IsActive(t) == t >= StartTs /\ ~IsExpired(t)

InEmergency(v) ==
    v.all_time_high_sy_exchange_rate > v.last_seen_sy_exchange_rate

\* SY neither set aside for the treasury nor staged for YT; 0 on underflow.
ActiveSy(v) ==
    IF v.total_sy_in_escrow >= v.treasury_sy + v.uncollected_sy
    THEN v.total_sy_in_escrow - v.treasury_sy - v.uncollected_sy
    ELSE 0

\* Mutant: PT is backed with what is set aside for others too.
SetSyForPtFromTotal(v) ==
    [v EXCEPT !.sy_for_pt = SyBackingForPt(v.last_seen_sy_exchange_rate,
                                           v.pt_supply, v.total_sy_in_escrow)]

SetSyForPt(v) ==
    [v EXCEPT !.sy_for_pt = SyBackingForPt(v.last_seen_sy_exchange_rate,
                                           v.pt_supply, ActiveSy(v))]

\* Mutant: the treasury takes the appreciation before maturity as well.
SySurplusAnyTime(v, rate, t) ==
    IF rate > v.all_time_high_sy_exchange_rate
    THEN CalcSyAppreciation(v.last_seen_sy_exchange_rate, rate, ActiveSy(v))
    ELSE 0

\* After maturity, appreciation past the all-time high belongs to the treasury.
SySurplus(v, rate, t) ==
    IF IsExpired(t) /\ rate > v.all_time_high_sy_exchange_rate
    THEN CalcSyAppreciation(v.last_seen_sy_exchange_rate, rate, ActiveSy(v))
    ELSE 0


\* Mutant: positions go on earning emissions after maturity.
SeenEmissionNeverFinal(v, e, index, t) ==
    [e EXCEPT !.last_seen_index = index, !.final_index = index]

\* So do the emissions of the whole escrow after maturity.
SeenEmission(v, e, index, t) ==
    [e EXCEPT !.treasury_emission =
                  IF IsExpired(t)
                  THEN @ + CalcShareValue(e.last_seen_index, index,
                                          v.total_sy_in_escrow)
                  ELSE @,
              !.last_seen_index = index,
              !.final_index = IF IsActive(t) THEN index ELSE @]

SeenEmissions(v, s, t) ==
    [i \in DOMAIN v.emissions |->
        IF i \in DOMAIN s.emission_indexes
        THEN SeenEmission(v, v.emissions[i], s.emission_indexes[i], t)
        ELSE v.emissions[i]]

\* update_from_sy_state
SeenState(v, s, t) ==
    [v EXCEPT
        !.treasury_sy = @ + SySurplus(v, s.exchange_rate, t),
        !.last_seen_sy_exchange_rate = s.exchange_rate,
        !.all_time_high_sy_exchange_rate = Larger(s.exchange_rate, @),
        !.final_sy_exchange_rate = IF IsActive(t) THEN s.exchange_rate ELSE @,
        !.emissions = SeenEmissions(v, s, t)]

UpdateFromSyState(v, s, t) == SetSyForPt(SeenState(v, s, t))

-----------------------------------------------------------------------------
(* Yield positions.                                                        *)

\* Mutant: the balance is not increased.
IncYtBalanceForgotten(p, amount) == p

IncYtBalance(p, amount) == [p EXCEPT !.yt_balance = @ + amount]

\* A decrease below zero panics: callers guard it.
DecYtBalance(p, amount) == [p EXCEPT !.yt_balance = @ - amount]

EnsureTrackers(p, n) ==
    [p EXCEPT !.emissions =
        [i \in 1..Larger(Len(@), n) |->
            IF i <= Len(@) THEN @[i] ELSE NewTracker]]

\* What earn_sy_interest stages: nothing in emergency mode.
EarnedSy(v, p) ==
    IF InEmergency(v)
    THEN 0
    ELSE ScaleSyToCurrentRate(
            CalcEarnedSy(p.yt_balance, p.interest.last_seen_index,
                         v.final_sy_exchange_rate),
            v.final_sy_exchange_rate, v.last_seen_sy_exchange_rate)

\* Mutant: the position's index follows the rate down in emergency mode.
EarnSyInterestAlways(v, p) ==
    [p EXCEPT !.interest = [last_seen_index |-> v.final_sy_exchange_rate,
                            staged |-> p.interest.staged + EarnedSy(v, p)]]

\* Mutant: the index moves on, and nothing is staged for it.
EarnSyInterestUnstaged(v, p) ==
    IF InEmergency(v)
    THEN p
    ELSE [p EXCEPT !.interest.last_seen_index = v.final_sy_exchange_rate]

\* earn_sy_interest, as it changes the position ...
EarnSyInterest(v, p) ==
    IF InEmergency(v)
    THEN p
    ELSE [p EXCEPT !.interest =
            [last_seen_index |-> v.final_sy_exchange_rate,
             staged |-> p.interest.staged + EarnedSy(v, p)]]

TotalSyBalance(v, p) ==
    p.interest.staged + PyToSy(v.final_sy_exchange_rate, p.yt_balance)

EarnEmissions(v, p) ==
    [p EXCEPT !.emissions =
        [i \in DOMAIN @ |->
            IF i \in DOMAIN v.emissions
            THEN [last_seen_index |-> v.emissions[i].final_index,
                  staged |-> @[i].staged
                             + CalcShareValue(@[i].last_seen_index,
                                              v.emissions[i].final_index,
                                              TotalSyBalance(v, p))]
            ELSE @[i]]]

EarnAllPosition(v, p) ==
    EarnEmissions(v, EarnSyInterest(v, EnsureTrackers(p, Len(v.emissions))))

\* Mutant: the vault counts the interest before it is scaled.
EarnAllVaultUnscaled(v, p) ==
    [v EXCEPT !.uncollected_sy =
        @ + CalcEarnedSy(p.yt_balance, p.interest.last_seen_index,
                         v.final_sy_exchange_rate)]

\* ... and as it changes the vault.
EarnAllVault(v, p) == [v EXCEPT !.uncollected_sy = @ + EarnedSy(v, p)]

\* Converting a YT balance divides by the final rate, which is 0 until the
\* vault is first used while active; a stream the SY program lists and the
\* vault has not registered is an index out of bounds.
CanEarn(v) == v.final_sy_exchange_rate > 0

CanUpdate == Len(sy.emission_indexes) <= Len(vault.emissions)

\* A position is written back into an account of a given size.
Fits(p) == Len(p.emissions) <= p.space

\* update_vault_yield: the vault after it read the SY program and its robot
\* earned, and the robot's position.
SeenVault     == UpdateFromSyState(vault, sy, now)
UpdatedVault  == EarnAllVault(SeenVault, position[Robot])
UpdatedRobot  == EarnAllPosition(SeenVault, position[Robot])

Realloc(p) == [p EXCEPT !.space = Len(vault.emissions)]

\* Callers guard the decrease.
DecStaged(tracker, amount) == [tracker EXCEPT !.staged = @ - amount]

-----------------------------------------------------------------------------
(* Claims.                                                                 *)

\* Mutant: the amount asked for is not compared with what is staged.
ClaimableUnchecked(staged) == {staged} \cup ClaimAmounts

\* Amount::to_u64: everything staged, or a smaller amount.
Claimable(staged) == {staged} \cup {a \in ClaimAmounts : a <= staged}

\* verify_claim_limits opens a new window strictly after the end of the old.
WindowEnd(l) == l.claim_window_start_timestamp + l.claim_window_duration_seconds

RolledWindow(l, t) ==
    IF t > WindowEnd(l)
    THEN [l EXCEPT !.claim_window_start_timestamp = t,
                   !.total_claim_amount_in_window = 0]
    ELSE l

WithinClaimLimits(l, amount, t) ==
    /\ WindowEnd(l) <= MaxU32
    /\ RolledWindow(l, t).total_claim_amount_in_window + amount
         <= l.max_claim_amount_per_window

\* Mutant: the claim is verified and not counted.
UncountedClaim(l, amount, t) == RolledWindow(l, t)

CountClaim(l, amount, t) ==
    [RolledWindow(l, t) EXCEPT !.total_claim_amount_in_window = @ + amount]

-----------------------------------------------------------------------------
(* The user's instructions.                                                *)

\* What every updating handler needs to get through update_vault_yield with
\* the vault v and the robot's position.
CanUpdateYield(v, robot) ==
    /\ CanUpdate
    /\ CanEarn(v)
    /\ Fits(robot)

Strip(amount) ==
    LET v     == UpdatedVault
        robot == UpdatedRobot
        py    == SyToPy(v.last_seen_sy_exchange_rate, amount)
    IN  /\ "strip" \in vault.status
        /\ IsActive(now)
        /\ amount >= vault.min_op_size_strip
        /\ vault.total_sy_in_escrow + amount <= MaxSy
        /\ CanUpdateYield(v, robot)
        /\ ~InEmergency(v)
        /\ vault.pt_supply + py <= vault.max_py_supply
        /\ DepositSy(amount)
        /\ vault' = SetSyForPt([v EXCEPT
                        !.total_sy_in_escrow = @ + amount,
                        !.pt_supply = @ + py])
        /\ position' = [position EXCEPT
                           ![Robot] = IncYtBalance(robot, py)]
        /\ tokens' = [tokens EXCEPT !.mint_pt = @ + py, !.yt_wallets = @ + py]
        /\ UNCHANGED <<now, opened, sy>>

\* Mutant: YT is needed after maturity too.
BurnedYtAlways(py) == py

\* YT is burned only while the vault is active.
BurnedYt(py) == IF IsActive(now) THEN py ELSE 0

\* What can fail in a merge of py for amount SY: the update, the underflow of a
\* balance, the withdrawal from the SY program, the burning of the tokens.
CanMerge(py, amount, v, robot) ==
    /\ "merge" \in vault.status
    /\ py >= vault.min_op_size_merge
    /\ CanUpdateYield(v, robot)
    /\ ~InEmergency(v)
    /\ BurnedYt(py) <= robot.yt_balance
    /\ amount <= v.total_sy_in_escrow
    /\ py <= v.pt_supply
    /\ amount <= sy_position.sy_balance
    /\ py <= tokens.mint_pt
    /\ BurnedYt(py) <= tokens.yt_wallets

\* The PT are redeemed at the backing set before the robot earned.
MergedSy(py, v) == RedeemPt(py, v.sy_for_pt, v.pt_supply)

Merge(py) ==
    LET v      == UpdatedVault
        robot  == UpdatedRobot
        amount == MergedSy(py, v)
        burned == BurnedYt(py)
    IN  /\ CanMerge(py, amount, v, robot)
        /\ WithdrawSy(amount)
        /\ vault' = SetSyForPt([v EXCEPT
                        !.total_sy_in_escrow = @ - amount,
                        !.pt_supply = @ - py])
        /\ position' = [position EXCEPT
                           ![Robot] = DecYtBalance(robot, burned)]
        /\ tokens' = [tokens EXCEPT !.mint_pt = @ - py,
                                    !.yt_wallets = @ - burned]
        /\ UNCHANGED <<now, opened, sy>>

\* Mutant: an existing position is initialized again.
ReinitializeYieldPosition(user) ==
    /\ opened' = opened \cup {user}
    /\ position' = [position EXCEPT ![user] = Realloc(NewPosition)]
    /\ UNCHANGED <<now, vault, tokens, syVars>>

InitializeYieldPosition(user) ==
    /\ user \notin opened
    /\ opened' = opened \cup {user}
    /\ position' = [position EXCEPT ![user] = Realloc(NewPosition)]
    /\ UNCHANGED <<now, vault, tokens, syVars>>

\* A user's position earns after the robot's, from the vault as updated.
StagedVault(v, user) == SetSyForPt(EarnAllVault(v, position[user]))

\* Mutant: the account does not grow with the trackers.
StagedPositionNotGrown(v, user) == EarnAllPosition(v, position[user])

StagedPosition(v, user) == Realloc(EarnAllPosition(v, position[user]))

\* Anybody may deposit YT into a user's position.
DepositYt(user, amount) ==
    LET v      == UpdatedVault
        robot  == UpdatedRobot
        staged == StagedPosition(v, user)
    IN  /\ user \in opened
        /\ "deposit_yt" \in vault.status
        /\ IsActive(now)
        /\ CanUpdateYield(v, robot)
        /\ ~InEmergency(v)
        /\ amount <= robot.yt_balance
        /\ Fits(staged)
        /\ amount <= tokens.yt_wallets
        /\ vault' = StagedVault(v, user)
        /\ position' = [position EXCEPT
               ![user]  = IncYtBalance(staged, amount),
               ![Robot] = DecYtBalance(robot, amount)]
        /\ tokens' = [tokens EXCEPT !.yt_wallets = @ - amount,
                                    !.escrow_yt = @ + amount]
        /\ UNCHANGED <<now, opened, syVars>>

\* The only updating instruction that goes through in emergency mode.
WithdrawYt(user, amount) ==
    LET v      == UpdatedVault
        robot  == UpdatedRobot
        staged == StagedPosition(v, user)
    IN  /\ user \in opened
        /\ "withdraw_yt" \in vault.status
        /\ IsActive(now)
        /\ CanUpdateYield(v, robot)
        /\ amount <= position[user].yt_balance
        /\ Fits(staged)
        /\ amount <= tokens.escrow_yt
        /\ vault' = StagedVault(v, user)
        /\ position' = [position EXCEPT
               ![user]  = DecYtBalance(staged, amount),
               ![Robot] = IncYtBalance(robot, amount)]
        /\ tokens' = [tokens EXCEPT !.yt_wallets = @ + amount,
                                    !.escrow_yt = @ - amount]
        /\ UNCHANGED <<now, opened, syVars>>

StageYield(user) ==
    LET v      == UpdatedVault
        robot  == UpdatedRobot
        staged == StagedPosition(v, user)
    IN  /\ user \in opened
        /\ CanUpdateYield(v, robot)
        /\ ~InEmergency(v)
        /\ Fits(staged)
        /\ vault' = StagedVault(v, user)
        /\ position' = [position EXCEPT ![user] = staged,
                                        ![Robot] = robot]
        /\ UNCHANGED <<now, opened, tokens, syVars>>

\* The amount is taken from what was staged before the position earns, and
\* the vault is neither updated from the SY program nor its backing reset.
CollectInterest(user) ==
    LET p == EarnAllPosition(vault, position[user])
        v == EarnAllVault(vault, position[user])
    IN  \E amount \in Claimable(position[user].interest.staged) :
        /\ user \in opened
        /\ "collect_interest" \in vault.status
        /\ WithinClaimLimits(vault.claim_limits, amount, now)
        /\ CanEarn(vault)
        /\ WithdrawSy(amount)
        /\ CeilFee(amount, vault.interest_bps_fee) <= amount
        /\ amount <= v.total_sy_in_escrow
        /\ amount <= v.uncollected_sy
        /\ Fits(p)
        /\ vault' = [v EXCEPT
               !.claim_limits = CountClaim(@, amount, now),
               !.total_sy_in_escrow = @ - amount,
               !.uncollected_sy = @ - amount]
        /\ position' = [position EXCEPT
               ![user] = [p EXCEPT !.interest = DecStaged(@, amount)]]
        /\ UNCHANGED <<now, opened, tokens, sy>>

\* The SY program pays the stream configured for index i, and the vault passes
\* on what it receives.
ClaimFromSy(i, amount) ==
    /\ i \in DOMAIN vault.emissions
    /\ i \in DOMAIN vault.claim_emission
    /\ amount = 0 \/ vault.claim_emission[i] = vault.emissions[i].token_account
    /\ ClaimEmission(vault.claim_emission[i], amount)

\* The treasury's part of an emission is computed in u64.
CanTakeFee(amount, bps) ==
    /\ amount * bps + 9999 <= MaxU64
    /\ CeilFee(amount, bps) <= amount

CollectEmission(user, i) ==
    /\ user \in opened
    /\ "collect_emissions" \in vault.status
    /\ i \in DOMAIN position[user].emissions
    /\ \E amount \in Claimable(position[user].emissions[i].staged) :
        /\ ClaimFromSy(i, amount)
        /\ CanTakeFee(amount, vault.emissions[i].fee_bps)
        /\ position' = [position EXCEPT ![user].emissions[i] = DecStaged(@, amount)]
    /\ UNCHANGED <<now, vault, opened, tokens, sy>>

-----------------------------------------------------------------------------
(* The administrators' instructions.  Who may give them is left to the      *)
(* Admin account: these are the actions of a signer with the right role.    *)

\* The handler reads the index the SY program lists next, calling it with an
\* empty deposit, and does not update the vault or the positions.
AddEmission(bps) ==
    LET stream == Len(vault.emissions) + 1
    IN  /\ stream \in DOMAIN sy.emission_indexes
        /\ Len(position[Robot].emissions) <= stream
        /\ DepositSy(0)
        /\ vault' = [vault EXCEPT
               !.emissions = Append(@,
                   [token_account     |-> stream,
                    initial_index     |-> sy.emission_indexes[stream],
                    last_seen_index   |-> sy.emission_indexes[stream],
                    final_index       |-> sy.emission_indexes[stream],
                    fee_bps           |-> bps,
                    treasury_emission |-> 0]),
               !.claim_emission = Append([i \in DOMAIN vault.emissions |->
                                            vault.emissions[i].token_account],
                                         stream)]
        /\ position' = [position EXCEPT ![Robot].space = stream]
        /\ UNCHANGED <<now, opened, tokens, sy>>

\* The later emissions move down; the positions' trackers and the accounts
\* configured for claims stay where they are.
RemoveVaultEmission(i) ==
    /\ MayRemoveEmission
    /\ i \in DOMAIN vault.emissions
    /\ vault' = [vault EXCEPT !.emissions = RemoveAt(@, i)]
    /\ UNCHANGED <<now, position, opened, tokens, syVars>>

ChangeCpiAccounts ==
    LET accounts == [i \in DOMAIN vault.emissions |->
                        vault.emissions[i].token_account]
    IN  /\ vault.claim_emission # accounts
        /\ vault' = [vault EXCEPT !.claim_emission = accounts]
        /\ UNCHANGED <<now, position, opened, tokens, syVars>>

\* Collects what the robot's position has staged.
CollectRobotInterest ==
    /\ \E amount \in Claimable(position[Robot].interest.staged) :
        /\ WithdrawSy(amount)
        /\ amount <= vault.uncollected_sy
        /\ amount <= vault.total_sy_in_escrow
        /\ vault' = [vault EXCEPT !.uncollected_sy = @ - amount,
                                  !.total_sy_in_escrow = @ - amount]
        /\ position' = [position EXCEPT ![Robot].interest = DecStaged(@, amount)]
    /\ UNCHANGED <<now, opened, tokens, sy>>

\* Mutant: the collection is not taken off the escrow.
CollectTreasuryInterestOnly ==
    /\ \E amount \in Claimable(vault.treasury_sy) :
        /\ WithdrawSy(amount)
        /\ vault' = [vault EXCEPT !.treasury_sy = @ - amount]
    /\ UNCHANGED <<now, position, opened, tokens, sy>>

\* Collects the SY that appreciation after maturity left to the treasury.
CollectTreasuryInterest ==
    /\ \E amount \in Claimable(vault.treasury_sy) :
        /\ WithdrawSy(amount)
        /\ amount <= vault.total_sy_in_escrow
        /\ vault' = [vault EXCEPT !.treasury_sy = @ - amount,
                                  !.total_sy_in_escrow = @ - amount]
    /\ UNCHANGED <<now, position, opened, tokens, sy>>

CollectRobotEmission(i) ==
    /\ i \in DOMAIN position[Robot].emissions
    /\ \E amount \in Claimable(position[Robot].emissions[i].staged) :
        /\ ClaimFromSy(i, amount)
        /\ position' = [position EXCEPT ![Robot].emissions[i] = DecStaged(@, amount)]
    /\ UNCHANGED <<now, vault, opened, tokens, sy>>

CollectTreasuryEmission(i) ==
    /\ i \in DOMAIN vault.emissions
    /\ \E amount \in Claimable(vault.emissions[i].treasury_emission) :
        /\ ClaimFromSy(i, amount)
        /\ vault' = [vault EXCEPT !.emissions[i].treasury_emission = @ - amount]
    /\ UNCHANGED <<now, position, opened, tokens, sy>>

\* The pause admins may only clear flags; the cold admins may set any status.
SetVaultStatus(role, status) ==
    /\ role \in {"pause_admin", "cold_admin"}
    /\ role = "pause_admin" => status \subseteq vault.status
    /\ vault' = [vault EXCEPT !.status = status]
    /\ UNCHANGED <<now, position, opened, tokens, syVars>>

ChangeVaultBpsFee(bps) ==
    /\ bps <= 10000
    /\ vault' = [vault EXCEPT !.interest_bps_fee = bps]
    /\ UNCHANGED <<now, position, opened, tokens, syVars>>

ChangeMinOperationSize(is_strip, size) ==
    /\ vault' = IF is_strip
                THEN [vault EXCEPT !.min_op_size_strip = size]
                ELSE [vault EXCEPT !.min_op_size_merge = size]
    /\ UNCHANGED <<now, position, opened, tokens, syVars>>

ChangeEmissionBpsFee(i, bps) ==
    /\ i \in DOMAIN vault.emissions
    /\ bps <= 10000
    /\ vault' = [vault EXCEPT !.emissions[i].fee_bps = bps]
    /\ UNCHANGED <<now, position, opened, tokens, syVars>>

\* Starts a new window, with nothing counted in it.
ChangeClaimLimits(limits) ==
    /\ vault' = [vault EXCEPT !.claim_limits =
                    [claim_window_start_timestamp  |-> now,
                     total_claim_amount_in_window  |-> 0,
                     max_claim_amount_per_window   |-> limits.max,
                     claim_window_duration_seconds |-> limits.duration]]
    /\ UNCHANGED <<now, position, opened, tokens, syVars>>

ChangeMaxPySupply(max) ==
    /\ vault' = [vault EXCEPT !.max_py_supply = max]
    /\ UNCHANGED <<now, position, opened, tokens, syVars>>

-----------------------------------------------------------------------------
(* The specification.                                                      *)

Tick ==
    /\ now < MaxTime
    /\ now' = now + 1
    /\ UNCHANGED <<vault, position, opened, tokens, syVars>>

SyMoves ==
    /\ SyStep
    /\ UNCHANGED <<now, vault, position, opened, tokens>>

UserStep ==
    \/ \E amount \in StripAmounts : Strip(amount)
    \/ \E py \in MergeAmounts : Merge(py)
    \/ \E user \in Users :
        \/ InitializeYieldPosition(user)
        \/ \E amount \in YtAmounts : DepositYt(user, amount)
        \/ \E amount \in YtAmounts : WithdrawYt(user, amount)
        \/ StageYield(user)
        \/ CollectInterest(user)
        \/ \E i \in 1..MaxStreams : CollectEmission(user, i)

AdminStep ==
    \/ \E bps \in EmissionFees : AddEmission(bps)
    \/ \E i \in 1..MaxStreams :
        \/ RemoveVaultEmission(i)
        \/ \E bps \in FeeChoices : ChangeEmissionBpsFee(i, bps)
        \/ CollectRobotEmission(i)
        \/ CollectTreasuryEmission(i)
    \/ CollectRobotInterest
    \/ CollectTreasuryInterest
    \/ \E role \in {"pause_admin", "cold_admin"}, status \in StatusChoices :
          SetVaultStatus(role, status)
    \/ \E bps \in FeeChoices : ChangeVaultBpsFee(bps)
    \/ \E is_strip \in BOOLEAN, size \in MinOpChoices :
          ChangeMinOperationSize(is_strip, size)
    \/ \E limits \in LimitChoices : ChangeClaimLimits(limits)
    \/ \E max \in SupplyChoices : ChangeMaxPySupply(max)
    \/ ChangeCpiAccounts

Next == Tick \/ SyMoves \/ UserStep \/ AdminStep

Spec == Init /\ [][Next]_vars
=============================================================================
