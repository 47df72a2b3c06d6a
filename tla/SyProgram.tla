----------------------------- MODULE SyProgram -----------------------------
(***************************************************************************)
(* The Standardized-Yield program that a vault calls into.  The code is    *)
(* third-party; the repository carries its interface (libraries/sy_common) *)
(* and a minimal implementation (fuzz/mock_sy), which is modelled here.    *)
(*                                                                         *)
(* The program keeps an exchange rate (base asset per SY), one cumulative  *)
(* emission index per reward stream, and an account per depositor.  Only   *)
(* the account of the vault matters to the vault: sy_position.             *)
(***************************************************************************)
EXTENDS YieldMath, Sequences

CONSTANTS
    Rates,          \* exchange rates the program may report
    Indexes,        \* emission indexes the program may report
    FirstIndexes,   \* index a stream may have when the program adds it
    MaxStreams,     \* bound: number of emission streams
    MayDepreciate   \* may the exchange rate fall?

ASSUME SyAssumption ==
    /\ Rates \subseteq Nat \ {0}
    /\ Indexes \subseteq Nat /\ FirstIndexes \subseteq Nat
    /\ MaxStreams \in Nat
    /\ MayDepreciate \in BOOLEAN

VARIABLES
    sy,             \* SyState: exchange_rate and emission_indexes
    sy_position     \* the vault's account: sy_balance and emissions

syVars == <<sy, sy_position>>

SyEmission == [amount_claimable : Nat, last_seen_emission_index : Nat]

SyTypeOK ==
    /\ sy \in [exchange_rate : Rates, emission_indexes : Seq(Nat)]
    /\ sy_position \in [sy_balance : Nat, emissions : Seq(SyEmission)]

SyInit ==
    /\ sy \in [exchange_rate : Rates, emission_indexes : {<<>>}]
    /\ sy_position = [sy_balance |-> 0, emissions |-> <<>>]

-----------------------------------------------------------------------------
(* What the program does on its own.                                       *)

SetExchangeRate ==
    \E rate \in Rates :
        /\ MayDepreciate \/ rate > sy.exchange_rate
        /\ rate # sy.exchange_rate
        /\ sy' = [sy EXCEPT !.exchange_rate = rate]
        /\ UNCHANGED sy_position

\* Cumulative indexes only grow (state/vault.rs:266 relies on it).
SetEmissionIndex ==
    \E i \in DOMAIN sy.emission_indexes, index \in Indexes :
        /\ index > sy.emission_indexes[i]
        /\ sy' = [sy EXCEPT !.emission_indexes[i] = index]
        /\ UNCHANGED sy_position

AddEmissionIndex ==
    \E initial \in FirstIndexes :
        /\ Len(sy.emission_indexes) < MaxStreams
        /\ sy' = [sy EXCEPT !.emission_indexes = Append(@, initial)]
        /\ UNCHANGED sy_position

SyStep == SetExchangeRate \/ SetEmissionIndex \/ AddEmissionIndex

-----------------------------------------------------------------------------
(* Calls from the vault.  Every call first accrues the emissions of the    *)
(* balance held so far; a stream met for the first time starts at its      *)
(* current index.                                                          *)

SyAccrued ==
    [i \in DOMAIN sy.emission_indexes |->
        LET index == sy.emission_indexes[i]
        IN  IF i \in DOMAIN sy_position.emissions
            THEN [amount_claimable |->
                    sy_position.emissions[i].amount_claimable
                    + CalcShareValue(
                        sy_position.emissions[i].last_seen_emission_index,
                        index, sy_position.sy_balance),
                  last_seen_emission_index |-> index]
            ELSE [amount_claimable |-> 0, last_seen_emission_index |-> index]]

DepositSy(amount) ==
    sy_position' = [sy_balance |-> sy_position.sy_balance + amount,
                    emissions  |-> SyAccrued]

WithdrawSy(amount) ==
    /\ amount <= sy_position.sy_balance
    /\ sy_position' = [sy_balance |-> sy_position.sy_balance - amount,
                       emissions  |-> SyAccrued]

ClaimEmission(i, amount) ==
    /\ i \in DOMAIN sy.emission_indexes
    /\ amount <= SyAccrued[i].amount_claimable
    /\ sy_position' =
        [sy_position EXCEPT
            !.emissions = [SyAccrued EXCEPT ![i].amount_claimable = @ - amount]]
=============================================================================
