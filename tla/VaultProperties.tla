-------------------------- MODULE VaultProperties --------------------------
(***************************************************************************)
(* What makes the vault correct, stated over the specification of Vault.   *)
(***************************************************************************)
EXTENDS Vault, Sums

\* The state has the types the accounts of the program have.
TypeOK ==
    /\ now \in Nat
    /\ vault \in VaultAccount
    /\ position \in [Holders -> YieldTokenPosition]
    /\ opened \subseteq Users
    /\ tokens \in [mint_pt : Nat, yt_wallets : Nat, escrow_yt : Nat]
    /\ SyTypeOK

Staged(h) == position[h].interest.staged

StagedSy == SumOver([h \in Holders |-> Staged(h)], Holders)

UserYt == SumOver([u \in Users |-> position[u].yt_balance], Users)

TotalYt == tokens.yt_wallets + tokens.escrow_yt

-----------------------------------------------------------------------------
(* Safety.                                                                 *)

\* The SY the vault owes to YT holders is exactly what their positions have
\* staged, whoever staged it and whatever was claimed (earn_sy_interest adds
\* to both, handle_collect_interest and the treasury's collection take from
\* both).
UncollectedIsStaged == vault.uncollected_sy = StagedSy

\* What the vault believes it holds is what the SY program holds for it.
EscrowIsInCustody == vault.total_sy_in_escrow = sy_position.sy_balance

\* The ledgers of PT and YT: the vault's supply is the mint's; the YT that earn
\* for the robot are those in wallets; and there are at least as many YT as PT,
\* so that until maturity PT can always be merged.
TokenLedger ==
    /\ vault.pt_supply = tokens.mint_pt
    /\ tokens.yt_wallets = position[Robot].yt_balance
    /\ tokens.mint_pt <= TotalYt

\* Every YT in the vault's escrow is credited to exactly one user's position,
\* so that a withdrawal of the whole balance always finds the tokens.
YtEscrowIsUserYt == tokens.escrow_yt = UserYt

\* state/vault.rs:110: "Ensure that the total SY in escrow is greater than or
\* equal to the sum of SY for PT holders, treasury SY, and uncollected SY"
\* (sy_balance_invariant).
VaultSolvency ==
    vault.total_sy_in_escrow
        >= vault.sy_for_pt + vault.treasury_sy + vault.uncollected_sy

\* The last rates never exceed the all-time high, and no position has earned
\* up to a rate the vault has not seen.
RateOrder ==
    /\ vault.last_seen_sy_exchange_rate <= vault.all_time_high_sy_exchange_rate
    /\ vault.final_sy_exchange_rate <= vault.all_time_high_sy_exchange_rate
    /\ \A h \in Holders : position[h].interest.last_seen_index
                            <= vault.all_time_high_sy_exchange_rate

\* PT keeps its par value: the SY set aside for PT is never less than the par
\* value of the PT at the last rate seen.
PtFullyBacked ==
    vault.last_seen_sy_exchange_rate > 0 =>
        vault.sy_for_pt = PyToSy(vault.last_seen_sy_exchange_rate,
                                 vault.pt_supply)

\* A rate that falls costs PT its backing, but only as long as it stays below
\* its high: once the vault has left emergency mode PT is whole again.
PtWholeAtHigh == ~InEmergency(vault) => PtFullyBacked

\* The same, before maturity.
PtWholeWhileActive == ~IsExpired(now) => PtWholeAtHigh

\* What the positions would stage at the last rate seen.
Unstaged == SumOver([h \in Holders |-> EarnedSy(vault, position[h])], Holders)

\* Even the YT holders who have not staged yet can be paid: the escrow covers,
\* beyond sy_balance_invariant, what earn_sy_interest would stage for them.
UnstagedCovered ==
    vault.total_sy_in_escrow
        >= vault.sy_for_pt + vault.treasury_sy + vault.uncollected_sy + Unstaged

\* The same, before maturity: also while a rate dips below its high and
\* recovers, which after maturity may leave VaultSolvency violated.
SolventWhileActive == ~IsExpired(now) => UnstagedCovered

\* Are the rates such that rounding a reciprocal (NumDiv) loses nothing?
ExactReciprocals == \A rate \in Rates : NumDiv(ONE, rate) * rate = ONE * ONE

\* A unit of PT and YT is worth no more SY than this at the rate, in parts of a
\* token (ONE to a token): what the code's reciprocal has, and at most a part
\* that it cuts off.
UpperReciprocal(rate) ==
    IF ExactReciprocals THEN NumDiv(ONE, rate) ELSE NumDiv(ONE, rate) + 1

\* The SY that the YT of a position, and as many PT, can still take between
\* them: their value when the position last earned.
OwedTo(p) ==
    IF p.yt_balance = 0
    THEN 0
    ELSE p.yt_balance * UpperReciprocal(p.interest.last_seen_index)

OwedYt(pos) == SumOver([h \in Holders |-> OwedTo(pos[h])], Holders)

\* All that the escrow of v owes when the positions are pos, in parts of a token.
Owed(v, pos) == OwedYt(pos) + (v.treasury_sy + v.uncollected_sy) * ONE

\* What the escrow lacks of it.
Shortfall ==
    IF Owed(vault, position) <= vault.total_sy_in_escrow * ONE
    THEN 0
    ELSE Owed(vault, position) - vault.total_sy_in_escrow * ONE

\* Whatever the rates, what is set aside and what is still to be staged exceed
\* the escrow by no more than the shortfall.
UnstagedWithinShortfall ==
    ~IsExpired(now) =>
        (vault.sy_for_pt + vault.treasury_sy + vault.uncollected_sy + Unstaged)
            * ONE
          <= vault.total_sy_in_escrow * ONE + Shortfall

\* After maturity the holder of all the PT can merge them in one go, whenever
\* the instruction is enabled, the rate is not below its high and every stream
\* of the SY program is registered: nothing in the handler fails.
MaturePtRedeemable ==
    /\ IsExpired(now)
    /\ "merge" \in vault.status
    /\ sy.exchange_rate >= vault.all_time_high_sy_exchange_rate
    /\ CanUpdate
    /\ vault.pt_supply > 0
    /\ vault.pt_supply >= vault.min_op_size_merge
    => CanMerge(vault.pt_supply, MergedSy(vault.pt_supply, UpdatedVault),
                UpdatedVault, UpdatedRobot)

\* What stream i has promised to positions and to the treasury.
PromisedEmission(i) ==
    SumOver([h \in Holders |-> IF i \in DOMAIN position[h].emissions
                               THEN position[h].emissions[i].staged ELSE 0],
            Holders)
    + vault.emissions[i].treasury_emission

\* It exceeds what the SY program owes the vault for the stream by rounding at
\* most: a unit per position.
ClaimsBounded(i) ==
    PromisedEmission(i)
        <= SyAccrued[i].amount_claimable + Cardinality(Holders)

\* state/vault.rs:503: "The initial index is used to track the first claimable
\* index for yield positions after an emission has been added".  Were it used,
\* no stream would promise more than the SY program pays, whatever the index it
\* was registered at.
EmissionClaimsBounded == \A i \in DOMAIN vault.emissions : ClaimsBounded(i)


-----------------------------------------------------------------------------
(* What makes the invariants above inductive.                              *)

\* While the vault is active its final rate is the last one it saw, it has seen
\* none before its start, and PT exist only once it has.
RateTracking ==
    /\ ~IsExpired(now) =>
          vault.final_sy_exchange_rate = vault.last_seen_sy_exchange_rate
    /\ vault.final_sy_exchange_rate > 0 => now >= StartTs
    /\ vault.pt_supply > 0 => vault.final_sy_exchange_rate > 0

UnopenedNeverEarned ==
    \A u \in Users \ opened : position[u].interest.last_seen_index = 0

\* The robot's account has bytes for the trackers it has and will be given.
RobotFits ==
    /\ Len(position[Robot].emissions) <= position[Robot].space
    /\ Len(vault.emissions) <= position[Robot].space

\* The inductive invariant: custody, the ledger of PT and YT and the order of
\* the rates, with the history of the rates and the sizes that they rest on in
\* update_from_sy_state, initialize_yield_position and add_emission.
IInv ==
    /\ TypeOK
    /\ EscrowIsInCustody
    /\ TokenLedger
    /\ RateOrder
    /\ RateTracking
    /\ UnopenedNeverEarned
    /\ RobotFits

\* What settlement owes rests on: where each position stands against the
\* robot's and against the rates (earn_sy_interest), ...
IndexesInOrder ==
    /\ \A h \in Holders : position[h].yt_balance > 0 =>
                            position[h].interest.last_seen_index > 0
    /\ ~IsExpired(now) =>
          \A h \in Holders : position[h].interest.last_seen_index
                                <= position[Robot].interest.last_seen_index
    /\ ~InEmergency(vault) =>
          position[Robot].interest.last_seen_index
            = vault.final_sy_exchange_rate

\* ... that the vault's rates are rates of the SY program, ...
RatesSeen ==
    /\ vault.last_seen_sy_exchange_rate \in Rates \cup {0}
    /\ vault.final_sy_exchange_rate \in Rates \cup {0}

\* ... and that PT are never backed beyond par, nor beyond what is left in
\* emergency mode, where the backing is what it was when the dip was seen.
BackingBounded ==
    /\ vault.sy_for_pt * vault.last_seen_sy_exchange_rate
         <= vault.pt_supply * ONE
    /\ InEmergency(vault) \/ vault.last_seen_sy_exchange_rate = 0 =>
          vault.sy_for_pt <= ActiveSy(vault)

ClaimsInv == IndexesInOrder /\ RatesSeen /\ BackingBounded

\* With rates that never fall, the last rate is the high, and no position is
\* ahead of the final rate.
RatesRise ==
    /\ ~InEmergency(vault)
    /\ vault.last_seen_sy_exchange_rate <= sy.exchange_rate
    /\ \A h \in Holders : position[h].interest.last_seen_index
                            <= vault.final_sy_exchange_rate

\* Is every quotient of an earlier by a later rate rounded down?
RatiosRoundDown ==
    \A final, current \in Rates :
        final < current => NumDiv(final, current) * current <= final * ONE

\* What is still owed to the YT of a position at settlement, in parts.
GainOf(final, p) ==
    IF p.yt_balance = 0 \/ p.interest.last_seen_index = 0
    THEN 0
    ELSE p.yt_balance * (NumDiv(ONE, p.interest.last_seen_index)
                           - NumDiv(ONE, final))

Gain(final, pos) == SumOver([h \in Holders |-> GainOf(final, pos[h])], Holders)

\* At settlement, after maturity: the escrow, at the last rate, covers the par
\* of PT, the gain that positions have yet to stage and what is set aside.
Settled(v, pos) ==
    /\ v.treasury_sy + v.uncollected_sy <= v.total_sy_in_escrow
    /\ v.pt_supply * ONE * ONE
          + v.final_sy_exchange_rate * Gain(v.final_sy_exchange_rate, pos)
          + (v.treasury_sy + v.uncollected_sy)
              * v.last_seen_sy_exchange_rate * ONE
        <= v.total_sy_in_escrow * v.last_seen_sy_exchange_rate * ONE

\* The inductive invariant of settlement, for exact and rising rates.
SettlementInv ==
    /\ RatesRise
    /\ IF IsExpired(now) THEN Settled(vault, position) ELSE Shortfall = 0

-----------------------------------------------------------------------------
(* What a step may never do.                                               *)

\* The all-time high never falls, and once the vault has expired no instruction
\* moves the final rate that YT is settled at (update_from_sy_state).
FinalRatesFrozen ==
    [][/\ vault'.all_time_high_sy_exchange_rate
            >= vault.all_time_high_sy_exchange_rate
       /\ IsExpired(now) =>
            vault'.final_sy_exchange_rate = vault.final_sy_exchange_rate]_vars

\* SY leaves the escrow only against PT, against the treasury's own fund or the
\* robot's stage, or as a claim that the claim limits count in full.
EscrowOutflowsAccounted ==
    [][LET paid == vault.total_sy_in_escrow - vault'.total_sy_in_escrow
           counted(l) == l.total_claim_amount_in_window
       IN  vault'.total_sy_in_escrow < vault.total_sy_in_escrow =>
             \/ vault'.pt_supply < vault.pt_supply
             \/ vault'.treasury_sy + paid = vault.treasury_sy
             \/ Staged(Robot)' + paid = Staged(Robot)
             \/ /\ counted(vault'.claim_limits)
                     <= vault.claim_limits.max_claim_amount_per_window
                /\ \/ counted(vault'.claim_limits)
                        = counted(vault.claim_limits) + paid
                   \/ /\ now > WindowEnd(vault.claim_limits)
                      /\ counted(vault'.claim_limits) = paid]_vars

\* Until maturity no position moves back to a lower rate: the same appreciation
\* would be earned twice.
NoDoubleEarning ==
    [][~IsExpired(now) =>
        \A h \in Holders : position'[h].interest.last_seen_index
                             >= position[h].interest.last_seen_index]_vars

\* Until maturity no instruction promises SY that the escrow does not hold, but
\* for the rounding of a strip: a part of a token for each SY deposited and each
\* PT minted, and nothing where reciprocals are exact.  The rate may dip, users
\* and the robot may stage, move YT and claim in any order.
ShortfallIsRounding ==
    [][~IsExpired(now) =>
        \/ Shortfall' <= Shortfall
        \/ /\ ~ExactReciprocals
           /\ vault'.pt_supply > vault.pt_supply
           /\ Shortfall' <= Shortfall
                 + (vault'.total_sy_in_escrow - vault.total_sy_in_escrow)
                 + (vault'.pt_supply - vault.pt_supply)]_vars

\* PT are minted and redeemed only while the rate is at its all-time high.
EmergencyFreezesSupply ==
    [][vault'.pt_supply # vault.pt_supply =>
        sy.exchange_rate = vault'.all_time_high_sy_exchange_rate]_vars

\* Emission indexes only grow, and positions earn no emission that accrues after
\* maturity; a removal apart, which moves the later emissions down.
EmissionIndexesFrozen ==
    [][Len(vault'.emissions) >= Len(vault.emissions) =>
       \A i \in DOMAIN vault.emissions :
        LET old == vault.emissions[i]
            new == vault'.emissions[i]
        IN  /\ new.last_seen_index >= old.last_seen_index
            /\ new.final_index >= old.final_index
            /\ IsExpired(now) => new.final_index = old.final_index]_vars

\* withdraw_yt stages what the position has earned before it lowers the
\* balance (withdraw_yt.rs:15-16), as long as the rate is not below its high.
\* In emergency mode, where withdraw_yt goes through as well, it stages nothing
\* and the interest on the YT that leave is lost: the comment says otherwise.
WithdrawStagesInterest ==
    [][\A u \in Users :
        (/\ position'[u].yt_balance < position[u].yt_balance
         /\ sy.exchange_rate >= vault.all_time_high_sy_exchange_rate) =>
            Staged(u)' = Staged(u)
                + CalcEarnedSy(position[u].yt_balance,
                               position[u].interest.last_seen_index,
                               sy.exchange_rate)]_vars

-----------------------------------------------------------------------------
(* Liveness.                                                               *)

Claim(u) == Staged(u) > 0 /\ CollectInterest(u)

\* Can u stage, so that the account grows to the trackers it needs?
CanGrow(u) ==
    /\ ~Fits(EnsureTrackers(position[u], Len(vault.emissions)))
    /\ u \in opened
    /\ CanUpdateYield(UpdatedVault, UpdatedRobot)
    /\ ~InEmergency(UpdatedVault)
    /\ Fits(StagedPosition(UpdatedVault, u))

\* Users retry collect_interest, and stage_yield when their account is too
\* small, until they go through (strong fairness; of stage_yield only where
\* CanGrow holds, which enables it), and the administrators correct a fee that
\* no claim can pay.
Fairness ==
    /\ \A u \in Users :
        /\ SF_vars(Claim(u))
        /\ []<>CanGrow(u) => []<><<StageYield(u)>>_vars
    /\ WF_vars(\E bps \in FeeChoices : ChangeVaultBpsFee(bps))

FairSpec == Spec /\ Fairness

\* Interest that is staged is paid out: no growth of the position's account
\* (add_emission, remove_vault_emission), no fee above the whole given to
\* initialize_vault and no maturity locks it in for good.
InterestIsPaid == \A u \in Users : Staged(u) > 0 ~> Staged(u) = 0

=============================================================================
