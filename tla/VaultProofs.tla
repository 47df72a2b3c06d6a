---------------------------- MODULE VaultProofs ----------------------------
(***************************************************************************)
(* What the operators that the actions of Vault are built from return, the *)
(* inductive invariant of Vault, and the theorems that follow from it, for *)
(* every value of the constants.                                           *)
(***************************************************************************)
EXTENDS VaultProperties, YieldMathProofs

-----------------------------------------------------------------------------
(* Sequences.                                                              *)

\* A function on 1..n is a sequence of length n.
LEMMA FunctionIsSeq ==
    ASSUME NEW S, NEW n \in Nat, NEW f \in [1..n -> S]
    PROVE  f \in Seq(S) /\ Len(f) = n /\ DOMAIN f = 1..n
  BY SMT

LEMMA RemoveAtType ==
    ASSUME NEW S, NEW s \in Seq(S), NEW i \in DOMAIN s
    PROVE  RemoveAt(s, i) \in Seq(S) /\ Len(RemoveAt(s, i)) <= Len(s)
  BY SMT DEF RemoveAt

-----------------------------------------------------------------------------
(* What the vault's own operators return.                                  *)

LEMMA VaultFields ==
    ASSUME NEW v \in VaultAccount
    PROVE  /\ v.last_seen_sy_exchange_rate \in Nat
           /\ v.all_time_high_sy_exchange_rate \in Nat
           /\ v.final_sy_exchange_rate \in Nat
           /\ v.total_sy_in_escrow \in Nat /\ v.pt_supply \in Nat
           /\ v.sy_for_pt \in Nat
           /\ v.treasury_sy \in Nat /\ v.uncollected_sy \in Nat
           /\ v.emissions \in Seq(EmissionInfo) /\ Len(v.emissions) \in Nat
           /\ v.claim_limits \in ClaimLimits
  BY DEF VaultAccount

LEMMA ActiveSyType ==
    ASSUME NEW v \in VaultAccount
    PROVE  ActiveSy(v) \in Nat /\ ActiveSy(v) <= v.total_sy_in_escrow
  <1>1. /\ v.total_sy_in_escrow \in Nat /\ v.treasury_sy \in Nat
        /\ v.uncollected_sy \in Nat
    BY VaultFields
  <1>2. CASE v.total_sy_in_escrow >= v.treasury_sy + v.uncollected_sy
    BY <1>1, <1>2 DEF ActiveSy
  <1>3. CASE ~(v.total_sy_in_escrow >= v.treasury_sy + v.uncollected_sy)
    BY <1>1, <1>3 DEF ActiveSy
  <1> QED
    BY <1>2, <1>3

\* What no update of the vault's yield touches.
SameLedger(v, w) ==
    /\ w.total_sy_in_escrow = v.total_sy_in_escrow
    /\ w.pt_supply = v.pt_supply
    /\ w.min_op_size_merge = v.min_op_size_merge
    /\ w.status = v.status
    /\ w.claim_limits = v.claim_limits
    /\ Len(w.emissions) = Len(v.emissions)

SameRates(v, w) ==
    /\ w.last_seen_sy_exchange_rate = v.last_seen_sy_exchange_rate
    /\ w.all_time_high_sy_exchange_rate = v.all_time_high_sy_exchange_rate
    /\ w.final_sy_exchange_rate = v.final_sy_exchange_rate

LEMMA SetSyForPtFacts ==
    ASSUME NEW v \in VaultAccount
    PROVE  /\ SetSyForPt(v) \in VaultAccount
           /\ SameLedger(v, SetSyForPt(v))
           /\ SameRates(v, SetSyForPt(v))
           /\ SetSyForPt(v).sy_for_pt <= v.total_sy_in_escrow
  <1> DEFINE b == SyBackingForPt(v.last_seen_sy_exchange_rate, v.pt_supply,
                                 ActiveSy(v))
  <1>1. b \in Nat /\ b <= ActiveSy(v)
    <2>1. v.last_seen_sy_exchange_rate \in Nat /\ v.pt_supply \in Nat
      BY DEF VaultAccount
    <2>2. ActiveSy(v) \in Nat
      BY ActiveSyType
    <2> QED
      BY <2>1, <2>2, SyBackingType
  <1>2. SetSyForPt(v) = [v EXCEPT !.sy_for_pt = b]
    BY DEF SetSyForPt
  <1> HIDE DEF b
  <1>3. b <= v.total_sy_in_escrow
    <2>1. v.total_sy_in_escrow \in Nat
      BY DEF VaultAccount
    <2> QED
      BY <1>1, <2>1, ActiveSyType
  <1> QED
    BY <1>1, <1>2, <1>3 DEF VaultAccount, SameLedger, SameRates

LEMMA SySurplusType ==
    ASSUME NEW v \in VaultAccount, NEW rate \in Nat, NEW t \in Nat
    PROVE  SySurplus(v, rate, t) \in Nat
  <1>1. v.last_seen_sy_exchange_rate \in Nat
    BY DEF VaultAccount
  <1> QED
    BY <1>1, ActiveSyType, CalcSyAppreciationType DEF SySurplus

LEMMA SeenEmissionType ==
    ASSUME NEW v \in VaultAccount, NEW e \in EmissionInfo, NEW index \in Nat,
           NEW t \in Nat
    PROVE  SeenEmission(v, e, index, t) \in EmissionInfo
  <1>1. CalcShareValue(e.last_seen_index, index, v.total_sy_in_escrow) \in Nat
    <2>1. e.last_seen_index \in Nat /\ v.total_sy_in_escrow \in Nat
      BY DEF VaultAccount, EmissionInfo
    <2> QED
      BY <2>1, CalcShareValueType
  <1>2. PICK a \in Nat, c \in Nat :
          SeenEmission(v, e, index, t) =
            [e EXCEPT !.treasury_emission = a,
                      !.last_seen_index = index,
                      !.final_index = c]
    <2>1. e.treasury_emission \in Nat /\ e.final_index \in Nat
      BY DEF EmissionInfo
    <2>2. (IF IsExpired(t)
           THEN e.treasury_emission
                + CalcShareValue(e.last_seen_index, index,
                                 v.total_sy_in_escrow)
           ELSE e.treasury_emission) \in Nat
      BY <1>1, <2>1
    <2>3. (IF IsActive(t) THEN index ELSE e.final_index) \in Nat
      BY <2>1
    <2> QED
      BY <2>2, <2>3 DEF SeenEmission
  <1> QED
    BY <1>2 DEF EmissionInfo

LEMMA SeenEmissionsType ==
    ASSUME NEW v \in VaultAccount, NEW t \in Nat,
           NEW s \in [exchange_rate : Rates, emission_indexes : Seq(Nat)]
    PROVE  /\ SeenEmissions(v, s, t) \in Seq(EmissionInfo)
           /\ Len(SeenEmissions(v, s, t)) = Len(v.emissions)
  <1>1. v.emissions \in Seq(EmissionInfo) /\ s.emission_indexes \in Seq(Nat)
    BY DEF VaultAccount
  <1>2. DOMAIN v.emissions = 1..Len(v.emissions) /\ Len(v.emissions) \in Nat
    BY <1>1
  <1>3. \A i \in DOMAIN v.emissions : v.emissions[i] \in EmissionInfo
    BY <1>1
  <1>4. \A i \in DOMAIN s.emission_indexes : s.emission_indexes[i] \in Nat
    BY <1>1
  <1>5. SeenEmissions(v, s, t) \in [1..Len(v.emissions) -> EmissionInfo]
    BY <1>2, <1>3, <1>4, SeenEmissionType DEF SeenEmissions
  <1> QED
    BY <1>2, <1>5, FunctionIsSeq

\* The vault after update_from_sy_state.
LEMMA UpdateFromSyStateFacts ==
    ASSUME NEW v \in VaultAccount, NEW t \in Nat,
           NEW s \in [exchange_rate : Rates, emission_indexes : Seq(Nat)]
    PROVE  LET w == UpdateFromSyState(v, s, t)
           IN  /\ w \in VaultAccount
               /\ SameLedger(v, w)
               /\ w.sy_for_pt <= v.total_sy_in_escrow
               /\ w.last_seen_sy_exchange_rate = s.exchange_rate
               /\ w.all_time_high_sy_exchange_rate
                    = Larger(s.exchange_rate, v.all_time_high_sy_exchange_rate)
               /\ w.final_sy_exchange_rate
                    = IF IsActive(t) THEN s.exchange_rate
                                     ELSE v.final_sy_exchange_rate
  <1> DEFINE u == SeenState(v, s, t)
  <1>1. s.exchange_rate \in Nat
    BY SyAssumption
  <1>2. SySurplus(v, s.exchange_rate, t) \in Nat
    BY <1>1, SySurplusType
  <1>3. PICK treasury \in Nat, high \in Nat, final \in Nat,
             seen \in Seq(EmissionInfo) :
          /\ u = [v EXCEPT !.treasury_sy = treasury,
                           !.last_seen_sy_exchange_rate = s.exchange_rate,
                           !.all_time_high_sy_exchange_rate = high,
                           !.final_sy_exchange_rate = final,
                           !.emissions = seen]
          /\ high = Larger(s.exchange_rate, v.all_time_high_sy_exchange_rate)
          /\ final = IF IsActive(t) THEN s.exchange_rate
                                    ELSE v.final_sy_exchange_rate
          /\ Len(seen) = Len(v.emissions)
    <2>1. /\ v.all_time_high_sy_exchange_rate \in Nat
          /\ v.final_sy_exchange_rate \in Nat
      BY DEF VaultAccount
    <2>2. Larger(s.exchange_rate, v.all_time_high_sy_exchange_rate) \in Nat
      BY <1>1, <2>1 DEF Larger
    <2>3. (IF IsActive(t) THEN s.exchange_rate
                          ELSE v.final_sy_exchange_rate) \in Nat
      BY <1>1, <2>1
    <2>4. v.treasury_sy + SySurplus(v, s.exchange_rate, t) \in Nat
      <3>1. v.treasury_sy \in Nat
        BY DEF VaultAccount
      <3> QED
        BY <1>2, <3>1
    <2> QED
      BY <2>2, <2>3, <2>4, SeenEmissionsType DEF SeenState
  <1> HIDE DEF u
  <1>4. u \in VaultAccount
    BY <1>1, <1>3 DEF VaultAccount
  <1>5. /\ SameLedger(v, u)
        /\ u.last_seen_sy_exchange_rate = s.exchange_rate
        /\ u.all_time_high_sy_exchange_rate
             = Larger(s.exchange_rate, v.all_time_high_sy_exchange_rate)
        /\ u.final_sy_exchange_rate
             = IF IsActive(t) THEN s.exchange_rate
                              ELSE v.final_sy_exchange_rate
    BY <1>3 DEF VaultAccount, SameLedger
  <1>6. UpdateFromSyState(v, s, t) = SetSyForPt(u)
    BY DEF UpdateFromSyState, u
  <1> QED
    BY <1>4, <1>5, <1>6, SetSyForPtFacts DEF SameLedger, SameRates

-----------------------------------------------------------------------------
(* What earning returns.                                                   *)

LEMMA EarnedSyType ==
    ASSUME NEW v \in VaultAccount, NEW p \in YieldTokenPosition
    PROVE  EarnedSy(v, p) \in Nat
  <1>1. /\ p.yt_balance \in Nat /\ p.interest.last_seen_index \in Nat
        /\ v.final_sy_exchange_rate \in Nat
        /\ v.last_seen_sy_exchange_rate \in Nat
    BY DEF VaultAccount, YieldTokenPosition, Tracker
  <1>2. CalcEarnedSy(p.yt_balance, p.interest.last_seen_index,
                     v.final_sy_exchange_rate) \in Nat
    BY <1>1, CalcEarnedSyType
  <1>3. ScaleSyToCurrentRate(
            CalcEarnedSy(p.yt_balance, p.interest.last_seen_index,
                         v.final_sy_exchange_rate),
            v.final_sy_exchange_rate, v.last_seen_sy_exchange_rate) \in Nat
    BY <1>1, <1>2, ScaleSyType
  <1> QED
    BY <1>3 DEF EarnedSy

LEMMA EarnAllVaultFacts ==
    ASSUME NEW v \in VaultAccount, NEW p \in YieldTokenPosition
    PROVE  /\ EarnAllVault(v, p) \in VaultAccount
           /\ SameLedger(v, EarnAllVault(v, p))
           /\ SameRates(v, EarnAllVault(v, p))
           /\ EarnAllVault(v, p).sy_for_pt = v.sy_for_pt
  <1>1. PICK owed \in Nat :
          EarnAllVault(v, p) = [v EXCEPT !.uncollected_sy = owed]
    <2>1. v.uncollected_sy \in Nat
      BY DEF VaultAccount
    <2>2. EarnedSy(v, p) \in Nat
      BY EarnedSyType
    <2>3. v.uncollected_sy + EarnedSy(v, p) \in Nat
      BY <2>1, <2>2
    <2> QED
      BY <2>3 DEF EarnAllVault
  <1> QED
    BY <1>1 DEF VaultAccount, SameLedger, SameRates

\* The balance and the account's size do not change as a position earns.
SameBalance(p, q) == q.yt_balance = p.yt_balance /\ q.space = p.space

LEMMA EnsureTrackersFacts ==
    ASSUME NEW p \in YieldTokenPosition, NEW n \in Nat
    PROVE  /\ EnsureTrackers(p, n) \in YieldTokenPosition
           /\ SameBalance(p, EnsureTrackers(p, n))
           /\ EnsureTrackers(p, n).interest = p.interest
  <1> DEFINE len == Larger(Len(p.emissions), n)
             es  == [i \in 1..len |-> IF i <= Len(p.emissions)
                                      THEN p.emissions[i] ELSE NewTracker]
  <1>1. p.emissions \in Seq(Tracker) /\ Len(p.emissions) \in Nat
    BY DEF YieldTokenPosition
  <1>2. len \in Nat
    BY <1>1 DEF Larger
  <1>3. es \in [1..len -> Tracker]
    <2>1. \A i \in 1..len : i <= Len(p.emissions) => p.emissions[i] \in Tracker
      BY <1>1, <1>2
    <2>2. NewTracker \in Tracker
      BY DEF NewTracker, Tracker
    <2> QED
      BY <2>1, <2>2
  <1>4. es \in Seq(Tracker)
    BY <1>2, <1>3, FunctionIsSeq
  <1>5. EnsureTrackers(p, n) = [p EXCEPT !.emissions = es]
    BY DEF EnsureTrackers
  <1> HIDE DEF es
  <1> QED
    BY <1>4, <1>5 DEF YieldTokenPosition, SameBalance

\* A position that earns ends at the final rate, except in emergency mode.
LEMMA EarnSyInterestFacts ==
    ASSUME NEW v \in VaultAccount, NEW p \in YieldTokenPosition
    PROVE  LET q == EarnSyInterest(v, p)
           IN  /\ q \in YieldTokenPosition
               /\ SameBalance(p, q)
               /\ q.interest.last_seen_index
                    = IF InEmergency(v) THEN p.interest.last_seen_index
                                        ELSE v.final_sy_exchange_rate
               /\ q.interest.staged >= p.interest.staged
  <1>1. CASE InEmergency(v)
    BY <1>1 DEF EarnSyInterest, SameBalance, YieldTokenPosition, Tracker
  <1>2. CASE ~InEmergency(v)
    <2>1. PICK tracker \in Tracker :
            /\ EarnSyInterest(v, p) = [p EXCEPT !.interest = tracker]
            /\ tracker.last_seen_index = v.final_sy_exchange_rate
            /\ tracker.staged >= p.interest.staged
      <3>1. /\ p.interest.staged + EarnedSy(v, p) \in Nat
            /\ p.interest.staged + EarnedSy(v, p) >= p.interest.staged
        BY EarnedSyType DEF YieldTokenPosition, Tracker
      <3>2. v.final_sy_exchange_rate \in Nat
        BY DEF VaultAccount
      <3>3. [last_seen_index |-> v.final_sy_exchange_rate,
             staged |-> p.interest.staged + EarnedSy(v, p)] \in Tracker
        BY <3>1, <3>2 DEF Tracker
      <3> DEFINE t == [last_seen_index |-> v.final_sy_exchange_rate,
                       staged |-> p.interest.staged + EarnedSy(v, p)]
      <3>4. EarnSyInterest(v, p) = [p EXCEPT !.interest = t]
        BY <1>2 DEF EarnSyInterest
      <3>5. /\ t \in Tracker
            /\ t.last_seen_index = v.final_sy_exchange_rate
            /\ t.staged >= p.interest.staged
        BY <3>1, <3>3
      <3> HIDE DEF t
      <3> QED
        BY <3>4, <3>5
    <2> QED
      BY <1>2, <2>1 DEF YieldTokenPosition, SameBalance
  <1> QED
    BY <1>1, <1>2

LEMMA TotalSyBalanceType ==
    ASSUME NEW v \in VaultAccount, NEW p \in YieldTokenPosition, CanEarn(v)
    PROVE  TotalSyBalance(v, p) \in Nat
  <1>1. v.final_sy_exchange_rate \in Nat \ {0}
    BY DEF CanEarn, VaultAccount
  <1>2. p.yt_balance \in Nat /\ p.interest.staged \in Nat
    BY DEF YieldTokenPosition, Tracker
  <1>3. PyToSy(v.final_sy_exchange_rate, p.yt_balance) \in Nat
    BY <1>1, <1>2, PyToSyType
  <1> QED
    BY <1>2, <1>3 DEF TotalSyBalance

LEMMA EarnEmissionsFacts ==
    ASSUME NEW v \in VaultAccount, NEW p \in YieldTokenPosition, CanEarn(v)
    PROVE  /\ EarnEmissions(v, p) \in YieldTokenPosition
           /\ SameBalance(p, EarnEmissions(v, p))
           /\ EarnEmissions(v, p).interest = p.interest
  <1> DEFINE share(i) == CalcShareValue(p.emissions[i].last_seen_index,
                                        v.emissions[i].final_index,
                                        TotalSyBalance(v, p))
             es == [i \in DOMAIN p.emissions |->
                      IF i \in DOMAIN v.emissions
                      THEN [last_seen_index |-> v.emissions[i].final_index,
                            staged |-> p.emissions[i].staged + share(i)]
                      ELSE p.emissions[i]]
  <1>1. p.emissions \in Seq(Tracker) /\ v.emissions \in Seq(EmissionInfo)
    BY DEF YieldTokenPosition, VaultAccount
  <1>2. DOMAIN p.emissions = 1..Len(p.emissions) /\ Len(p.emissions) \in Nat
    BY <1>1
  <1>3. ASSUME NEW i \in DOMAIN p.emissions
        PROVE  es[i] \in Tracker
    <2>1. p.emissions[i] \in Tracker
      BY <1>1
    <2>2. CASE i \in DOMAIN v.emissions
      <3>1. v.emissions[i] \in EmissionInfo
        BY <1>1, <2>2
      <3>2. v.emissions[i].final_index \in Nat
        BY <3>1 DEF EmissionInfo
      <3>3. /\ p.emissions[i].last_seen_index \in Nat
            /\ p.emissions[i].staged \in Nat
        BY <2>1 DEF Tracker
      <3>4. share(i) \in Nat
        BY <3>2, <3>3, TotalSyBalanceType, CalcShareValueType
      <3> HIDE DEF share
      <3> QED
        BY <2>2, <3>2, <3>3, <3>4 DEF Tracker
    <2>3. CASE i \notin DOMAIN v.emissions
      BY <2>1, <2>3
    <2> QED
      BY <2>2, <2>3
  <1>4. es \in Seq(Tracker)
    <2>1. es \in [1..Len(p.emissions) -> Tracker]
      BY <1>2, <1>3
    <2> HIDE DEF es
    <2> QED
      BY <1>2, <2>1, FunctionIsSeq
  <1>5. EarnEmissions(v, p) = [p EXCEPT !.emissions = es]
    BY DEF EarnEmissions
  <1> HIDE DEF es
  <1> QED
    BY <1>4, <1>5 DEF YieldTokenPosition, SameBalance

LEMMA EarnAllPositionFacts ==
    ASSUME NEW v \in VaultAccount, NEW p \in YieldTokenPosition, CanEarn(v)
    PROVE  LET q == EarnAllPosition(v, p)
           IN  /\ q \in YieldTokenPosition
               /\ SameBalance(p, q)
               /\ q.interest.last_seen_index
                    = IF InEmergency(v) THEN p.interest.last_seen_index
                                        ELSE v.final_sy_exchange_rate
               /\ q.interest.staged >= p.interest.staged
  <1> DEFINE p1 == EnsureTrackers(p, Len(v.emissions))
             p2 == EarnSyInterest(v, p1)
  <1>1. Len(v.emissions) \in Nat
    BY DEF VaultAccount
  <1>2. /\ p1 \in YieldTokenPosition /\ SameBalance(p, p1)
        /\ p1.interest = p.interest
    BY <1>1, EnsureTrackersFacts
  <1> HIDE DEF p1
  <1>3. /\ p2 \in YieldTokenPosition /\ SameBalance(p1, p2)
        /\ p2.interest.last_seen_index
             = IF InEmergency(v) THEN p1.interest.last_seen_index
                                 ELSE v.final_sy_exchange_rate
        /\ p2.interest.staged >= p1.interest.staged
    BY <1>2, EarnSyInterestFacts
  <1> HIDE DEF p2
  <1>4. /\ EarnEmissions(v, p2) \in YieldTokenPosition
        /\ SameBalance(p2, EarnEmissions(v, p2))
        /\ EarnEmissions(v, p2).interest = p2.interest
    BY <1>3, EarnEmissionsFacts
  <1>5. EarnAllPosition(v, p) = EarnEmissions(v, p2)
    BY DEF EarnAllPosition, p1, p2
  <1> QED
    BY <1>2, <1>3, <1>4, <1>5 DEF SameBalance

LEMMA ReallocFacts ==
    ASSUME NEW p \in YieldTokenPosition, vault \in VaultAccount
    PROVE  /\ Realloc(p) \in YieldTokenPosition
           /\ Realloc(p).yt_balance = p.yt_balance
           /\ Realloc(p).interest = p.interest
  <1>1. Len(vault.emissions) \in Nat
    BY DEF VaultAccount
  <1> QED
    BY <1>1 DEF YieldTokenPosition, Realloc

-----------------------------------------------------------------------------
(* update_vault_yield, and the staging of a user's position.               *)

LEMMA UpdateFacts ==
    ASSUME TypeOK, CanEarn(UpdatedVault)
    PROVE  /\ UpdatedVault \in VaultAccount
           /\ SameLedger(vault, UpdatedVault)
           /\ UpdatedVault.sy_for_pt <= vault.total_sy_in_escrow
           /\ UpdatedVault.last_seen_sy_exchange_rate = sy.exchange_rate
           /\ UpdatedVault.all_time_high_sy_exchange_rate
                = Larger(sy.exchange_rate, vault.all_time_high_sy_exchange_rate)
           /\ UpdatedVault.final_sy_exchange_rate
                = IF IsActive(now) THEN sy.exchange_rate
                                   ELSE vault.final_sy_exchange_rate
           /\ UpdatedRobot \in YieldTokenPosition
           /\ SameBalance(position[Robot], UpdatedRobot)
           /\ UpdatedRobot.interest.last_seen_index
                = IF InEmergency(UpdatedVault)
                  THEN position[Robot].interest.last_seen_index
                  ELSE UpdatedVault.final_sy_exchange_rate
  <1>1. /\ vault \in VaultAccount /\ now \in Nat
        /\ sy \in [exchange_rate : Rates, emission_indexes : Seq(Nat)]
        /\ position[Robot] \in YieldTokenPosition
    BY DEF TypeOK, SyTypeOK, Holders
  <1> DEFINE s == SeenVault
  <1>2. /\ s \in VaultAccount
        /\ SameLedger(vault, s)
        /\ s.sy_for_pt <= vault.total_sy_in_escrow
        /\ s.last_seen_sy_exchange_rate = sy.exchange_rate
        /\ s.all_time_high_sy_exchange_rate
             = Larger(sy.exchange_rate, vault.all_time_high_sy_exchange_rate)
        /\ s.final_sy_exchange_rate
             = IF IsActive(now) THEN sy.exchange_rate
                                ELSE vault.final_sy_exchange_rate
    BY <1>1, UpdateFromSyStateFacts DEF SeenVault
  <1> HIDE DEF s
  <1>3. UpdatedVault = EarnAllVault(s, position[Robot])
        /\ UpdatedRobot = EarnAllPosition(s, position[Robot])
    BY DEF UpdatedVault, UpdatedRobot, s
  <1>4. /\ UpdatedVault \in VaultAccount
        /\ SameLedger(s, UpdatedVault)
        /\ SameRates(s, UpdatedVault)
        /\ UpdatedVault.sy_for_pt = s.sy_for_pt
    BY <1>1, <1>2, <1>3, EarnAllVaultFacts
  <1>5. CanEarn(s) /\ (InEmergency(s) <=> InEmergency(UpdatedVault))
    BY <1>4 DEF CanEarn, SameRates, InEmergency
  <1>6. /\ UpdatedRobot \in YieldTokenPosition
        /\ SameBalance(position[Robot], UpdatedRobot)
        /\ UpdatedRobot.interest.last_seen_index
             = IF InEmergency(s) THEN position[Robot].interest.last_seen_index
                                 ELSE s.final_sy_exchange_rate
    BY <1>1, <1>2, <1>3, <1>5, EarnAllPositionFacts
  <1> QED
    BY <1>2, <1>4, <1>5, <1>6 DEF SameLedger, SameRates

LEMMA StageFacts ==
    ASSUME TypeOK, NEW v \in VaultAccount, CanEarn(v), NEW user \in Users
    PROVE  /\ StagedVault(v, user) \in VaultAccount
           /\ SameLedger(v, StagedVault(v, user))
           /\ SameRates(v, StagedVault(v, user))
           /\ StagedPosition(v, user) \in YieldTokenPosition
           /\ StagedPosition(v, user).yt_balance = position[user].yt_balance
           /\ StagedPosition(v, user).interest.last_seen_index
                = IF InEmergency(v)
                  THEN position[user].interest.last_seen_index
                  ELSE v.final_sy_exchange_rate
  <1>1. vault \in VaultAccount /\ position[user] \in YieldTokenPosition
    BY DEF TypeOK, Holders
  <1> DEFINE w == EarnAllVault(v, position[user])
             p == EarnAllPosition(v, position[user])
  <1>2. w \in VaultAccount /\ SameLedger(v, w) /\ SameRates(v, w)
    BY <1>1, EarnAllVaultFacts
  <1>3. /\ p \in YieldTokenPosition /\ SameBalance(position[user], p)
        /\ p.interest.last_seen_index
             = IF InEmergency(v) THEN position[user].interest.last_seen_index
                                 ELSE v.final_sy_exchange_rate
    BY <1>1, EarnAllPositionFacts
  <1>4. StagedVault(v, user) = SetSyForPt(w)
        /\ StagedPosition(v, user) = Realloc(p)
    BY DEF StagedVault, StagedPosition
  <1> HIDE DEF w, p
  <1> QED
    BY <1>1, <1>2, <1>3, <1>4, SetSyForPtFacts, ReallocFacts
    DEF SameLedger, SameRates, SameBalance

LEMMA IncYtBalanceFacts ==
    ASSUME NEW p \in YieldTokenPosition, NEW amount \in Nat
    PROVE  LET q == IncYtBalance(p, amount)
           IN  /\ q \in YieldTokenPosition
               /\ q.yt_balance = p.yt_balance + amount
               /\ q.interest = p.interest
               /\ q.emissions = p.emissions /\ q.space = p.space
  <1>1. p.yt_balance + amount \in Nat
    BY DEF YieldTokenPosition
  <1> QED
    BY <1>1 DEF YieldTokenPosition, IncYtBalance

LEMMA DecYtBalanceFacts ==
    ASSUME NEW p \in YieldTokenPosition, NEW amount \in Nat,
           amount <= p.yt_balance
    PROVE  LET q == DecYtBalance(p, amount)
           IN  /\ q \in YieldTokenPosition
               /\ q.yt_balance = p.yt_balance - amount
               /\ q.interest = p.interest
               /\ q.emissions = p.emissions /\ q.space = p.space
  <1>1. p.yt_balance - amount \in Nat
    BY DEF YieldTokenPosition
  <1> QED
    BY <1>1 DEF YieldTokenPosition, DecYtBalance

LEMMA ClaimableFacts ==
    ASSUME NEW staged \in Nat, NEW amount \in Claimable(staged)
    PROVE  amount \in Nat /\ amount <= staged
  BY VaultAssumption DEF Claimable

LEMMA DecStagedFacts ==
    ASSUME NEW tracker \in Tracker, NEW amount \in Nat,
           amount <= tracker.staged
    PROVE  /\ DecStaged(tracker, amount) \in Tracker
           /\ DecStaged(tracker, amount).last_seen_index
                = tracker.last_seen_index
           /\ DecStaged(tracker, amount).staged = tracker.staged - amount
  <1>1. tracker.staged - amount \in Nat
    BY DEF Tracker
  <1> QED
    BY <1>1 DEF DecStaged, Tracker

\* A claim from a position's interest, and from one of its emissions.
LEMMA InterestClaimFacts ==
    ASSUME NEW p \in YieldTokenPosition, NEW amount \in Nat,
           amount <= p.interest.staged
    PROVE  LET q == [p EXCEPT !.interest = DecStaged(@, amount)]
           IN  /\ q \in YieldTokenPosition
               /\ SameBalance(p, q)
               /\ q.interest.last_seen_index = p.interest.last_seen_index
               /\ q.interest.staged = p.interest.staged - amount
               /\ q.emissions = p.emissions
  <1>1. p.interest \in Tracker
    BY DEF YieldTokenPosition
  <1>2. /\ DecStaged(p.interest, amount) \in Tracker
        /\ DecStaged(p.interest, amount).last_seen_index
             = p.interest.last_seen_index
        /\ DecStaged(p.interest, amount).staged = p.interest.staged - amount
    BY <1>1, DecStagedFacts
  <1> QED
    BY <1>2 DEF YieldTokenPosition, SameBalance

LEMMA EmissionClaimFacts ==
    ASSUME NEW p \in YieldTokenPosition, NEW i \in DOMAIN p.emissions,
           NEW amount \in Nat, amount <= p.emissions[i].staged
    PROVE  LET q == [p EXCEPT !.emissions[i] = DecStaged(@, amount)]
           IN  /\ q \in YieldTokenPosition
               /\ SameBalance(p, q)
               /\ q.interest = p.interest
               /\ Len(q.emissions) = Len(p.emissions)
  <1> DEFINE d  == DecStaged(p.emissions[i], amount)
             es == [p.emissions EXCEPT ![i] = d]
  <1>1. p.emissions \in Seq(Tracker)
    BY DEF YieldTokenPosition
  <1>2. p.emissions[i] \in Tracker
    BY <1>1
  <1>3. d \in Tracker
    BY <1>2, DecStagedFacts
  <1>4. [p EXCEPT !.emissions[i] = DecStaged(@, amount)]
          = [p EXCEPT !.emissions = es]
    BY DEF YieldTokenPosition
  <1> HIDE DEF d
  <1>5. es \in Seq(Tracker) /\ Len(es) = Len(p.emissions)
    BY <1>1, <1>3
  <1> HIDE DEF es
  <1> QED
    BY <1>4, <1>5 DEF YieldTokenPosition, SameBalance

LEMMA CountClaimType ==
    ASSUME NEW l \in ClaimLimits, NEW amount \in Nat, NEW t \in Nat
    PROVE  CountClaim(l, amount, t) \in ClaimLimits
  <1>1. RolledWindow(l, t) \in ClaimLimits
    BY DEF RolledWindow, ClaimLimits
  <1>2. RolledWindow(l, t).total_claim_amount_in_window + amount \in Nat
    BY <1>1 DEF ClaimLimits
  <1> QED
    BY <1>1, <1>2 DEF CountClaim, ClaimLimits

-----------------------------------------------------------------------------
(* Calls to the SY program.                                                *)

LEMMA SyAccruedType ==
    ASSUME SyTypeOK
    PROVE  /\ SyAccrued \in Seq(SyEmission)
           /\ DOMAIN SyAccrued = DOMAIN sy.emission_indexes
  <1> DEFINE n == Len(sy.emission_indexes)
  <1>1. /\ sy.emission_indexes \in Seq(Nat)
        /\ sy_position.emissions \in Seq(SyEmission)
        /\ sy_position.sy_balance \in Nat
    BY DEF SyTypeOK
  <1>2. n \in Nat /\ DOMAIN sy.emission_indexes = 1..n
    BY <1>1
  <1>3. ASSUME NEW i \in 1..n
        PROVE  SyAccrued[i] \in SyEmission
    <2>1. sy.emission_indexes[i] \in Nat
      BY <1>1
    <2>2. CASE i \in DOMAIN sy_position.emissions
      <3> DEFINE e == sy_position.emissions[i]
                 share == CalcShareValue(e.last_seen_emission_index,
                                         sy.emission_indexes[i],
                                         sy_position.sy_balance)
      <3>1. e \in SyEmission
        BY <1>1, <2>2
      <3>2. e.amount_claimable \in Nat /\ e.last_seen_emission_index \in Nat
        BY <3>1 DEF SyEmission
      <3>3. share \in Nat
        BY <1>1, <2>1, <3>2, CalcShareValueType
      <3>4. SyAccrued[i] = [amount_claimable |-> e.amount_claimable + share,
                            last_seen_emission_index |-> sy.emission_indexes[i]]
        BY <1>2, <2>2 DEF SyAccrued
      <3> HIDE DEF e, share
      <3> QED
        BY <2>1, <3>2, <3>3, <3>4 DEF SyEmission
    <2>3. CASE i \notin DOMAIN sy_position.emissions
      BY <1>2, <2>1, <2>3 DEF SyAccrued, SyEmission
    <2> QED
      BY <2>2, <2>3
  <1>4. SyAccrued \in [1..n -> SyEmission]
    <2>1. SyAccrued = [i \in 1..n |-> SyAccrued[i]]
      BY <1>2 DEF SyAccrued
    <2> QED
      BY <1>3, <2>1
  <1> QED
    BY <1>2, <1>4, FunctionIsSeq

SyAccount == [sy_balance : Nat, emissions : Seq(SyEmission)]

LEMMA DepositSyFacts ==
    ASSUME SyTypeOK, NEW amount \in Nat, DepositSy(amount)
    PROVE  /\ sy_position' \in SyAccount
           /\ sy_position'.sy_balance = sy_position.sy_balance + amount
  <1>1. sy_position.sy_balance + amount \in Nat
    BY DEF SyTypeOK
  <1> QED
    BY <1>1, SyAccruedType DEF DepositSy, SyAccount

LEMMA WithdrawSyFacts ==
    ASSUME SyTypeOK, NEW amount \in Nat, WithdrawSy(amount)
    PROVE  /\ sy_position' \in SyAccount
           /\ sy_position'.sy_balance = sy_position.sy_balance - amount
           /\ amount <= sy_position.sy_balance
  <1>1. sy_position.sy_balance - amount \in Nat /\ amount <= sy_position.sy_balance
    BY DEF SyTypeOK, WithdrawSy
  <1> QED
    BY <1>1, SyAccruedType DEF WithdrawSy, SyAccount

LEMMA ClaimEmissionFacts ==
    ASSUME SyTypeOK, NEW i, NEW amount \in Nat, ClaimEmission(i, amount)
    PROVE  /\ sy_position' \in SyAccount
           /\ sy_position'.sy_balance = sy_position.sy_balance
  <1> DEFINE e == SyAccrued[i]
             f == [e EXCEPT !.amount_claimable = @ - amount]
             es == [SyAccrued EXCEPT ![i] = f]
  <1>1. e \in SyEmission
    BY SyAccruedType DEF ClaimEmission
  <1>2. e.amount_claimable - amount \in Nat
    BY <1>1 DEF ClaimEmission, SyEmission
  <1>3. f \in SyEmission
    BY <1>1, <1>2 DEF SyEmission
  <1>4. es \in Seq(SyEmission)
    BY <1>3, SyAccruedType DEF ClaimEmission
  <1>5. sy_position' = [sy_position EXCEPT !.emissions = es]
    BY DEF ClaimEmission
  <1> HIDE DEF es
  <1> QED
    BY <1>4, <1>5 DEF SyTypeOK, SyAccount

-----------------------------------------------------------------------------
(* Tools for the inductive step.                                           *)

\* Types of the parts of the state, from the type invariant.
LEMMA TypeParts ==
    ASSUME TypeOK
    PROVE  /\ now \in Nat
           /\ vault \in VaultAccount
           /\ vault.total_sy_in_escrow \in Nat /\ vault.pt_supply \in Nat
           /\ vault.uncollected_sy \in Nat /\ vault.treasury_sy \in Nat
           /\ vault.last_seen_sy_exchange_rate \in Nat
           /\ vault.all_time_high_sy_exchange_rate \in Nat
           /\ vault.final_sy_exchange_rate \in Nat
           /\ \A h \in Holders :
                /\ position[h] \in YieldTokenPosition
                /\ position[h].yt_balance \in Nat
                /\ position[h].interest.last_seen_index \in Nat
                /\ position[h].interest.staged \in Nat
                /\ position[h].emissions \in Seq(Tracker)
           /\ tokens.mint_pt \in Nat /\ tokens.yt_wallets \in Nat
           /\ tokens.escrow_yt \in Nat
           /\ sy.exchange_rate \in Nat /\ sy_position.sy_balance \in Nat
  BY SyAssumption
  DEF TypeOK, SyTypeOK, VaultAccount, YieldTokenPosition, Tracker

\* The state of the rates after an update: what RateOrder and RateTracking say
\* of the vault as updated, of every position, and of the robot.
LEMMA UpdateRates ==
    ASSUME IInv, CanEarn(UpdatedVault)
    PROVE  LET w == UpdatedVault
           IN  /\ w.last_seen_sy_exchange_rate
                    <= w.all_time_high_sy_exchange_rate
               /\ w.final_sy_exchange_rate <= w.all_time_high_sy_exchange_rate
               /\ w.all_time_high_sy_exchange_rate
                    >= vault.all_time_high_sy_exchange_rate
               /\ ~IsExpired(now) => w.final_sy_exchange_rate
                                       = w.last_seen_sy_exchange_rate
               /\ w.final_sy_exchange_rate > 0
               /\ now >= StartTs
               /\ \A h \in Holders : position[h].interest.last_seen_index
                                       <= w.all_time_high_sy_exchange_rate
               /\ UpdatedRobot.interest.last_seen_index
                    <= w.all_time_high_sy_exchange_rate
  <1> USE DEF IInv
  <1>1. TypeOK /\ Robot \in Holders
    BY DEF Holders
  <1> DEFINE w == UpdatedVault
             high == vault.all_time_high_sy_exchange_rate
  <1>2. /\ w.last_seen_sy_exchange_rate = sy.exchange_rate
        /\ w.all_time_high_sy_exchange_rate = Larger(sy.exchange_rate, high)
        /\ w.final_sy_exchange_rate
             = IF IsActive(now) THEN sy.exchange_rate
                                ELSE vault.final_sy_exchange_rate
        /\ UpdatedRobot.interest.last_seen_index
             = IF InEmergency(w) THEN position[Robot].interest.last_seen_index
                                 ELSE w.final_sy_exchange_rate
    BY <1>1, UpdateFacts
  <1>3. w.final_sy_exchange_rate > 0
    BY DEF CanEarn
  <1> HIDE DEF w
  <1>4. high <= w.all_time_high_sy_exchange_rate
        /\ sy.exchange_rate <= w.all_time_high_sy_exchange_rate
        /\ w.all_time_high_sy_exchange_rate \in Nat
    BY <1>1, <1>2, TypeParts DEF Larger
  <1>5. /\ vault.final_sy_exchange_rate <= high
        /\ \A h \in Holders : position[h].interest.last_seen_index <= high
    BY DEF RateOrder
  <1>6. w.final_sy_exchange_rate <= w.all_time_high_sy_exchange_rate
    <2>1. CASE IsActive(now)
      BY <2>1, <1>2, <1>4
    <2>2. CASE ~IsActive(now)
      BY <2>2, <1>1, <1>2, <1>4, <1>5, TypeParts
    <2> QED
      BY <2>1, <2>2
  <1>7. now >= StartTs
    <2>1. CASE IsActive(now)
      BY <2>1 DEF IsActive
    <2>2. CASE ~IsActive(now)
      BY <2>2, <1>2, <1>3 DEF RateTracking
    <2> QED
      BY <2>1, <2>2
  <1>8. ~IsExpired(now) => w.final_sy_exchange_rate
                             = w.last_seen_sy_exchange_rate
    BY <1>2, <1>7 DEF IsActive
  <1>9. \A h \in Holders : position[h].interest.last_seen_index
                             <= w.all_time_high_sy_exchange_rate
    <2> TAKE h \in Holders
    <2>1. position[h].interest.last_seen_index \in Nat /\ high \in Nat
      BY <1>1, TypeParts
    <2>2. position[h].interest.last_seen_index <= high
      BY <1>5
    <2> QED
      BY <1>4, <2>1, <2>2
  <1>10. UpdatedRobot.interest.last_seen_index
           <= w.all_time_high_sy_exchange_rate
    BY <1>1, <1>2, <1>6, <1>9
  <1> QED
    BY <1>2, <1>3, <1>4, <1>6, <1>7, <1>8, <1>9, <1>10 DEF w

TokenTotals == [mint_pt : Nat, yt_wallets : Nat, escrow_yt : Nat]

\* What is left to show of an instruction that updates the vault's yield.
LEMMA UpdatingStep ==
    ASSUME IInv, CanEarn(UpdatedVault), Fits(UpdatedRobot),
           now' = now, sy' = sy, opened' = opened,
           vault' \in VaultAccount, SameRates(UpdatedVault, vault'),
           Len(vault'.emissions) = Len(vault.emissions),
           sy_position' \in SyAccount, EscrowIsInCustody',
           tokens' \in TokenTotals, TokenLedger',
           position' \in [Holders -> YieldTokenPosition],
           \A h \in Holders : position'[h].interest.last_seen_index
                       <= UpdatedVault.all_time_high_sy_exchange_rate,
           \A u \in Users \ opened : position'[u] = position[u],
           position'[Robot].emissions = UpdatedRobot.emissions,
           position'[Robot].space = position[Robot].space
    PROVE  IInv'
  <1>1. TypeOK
    BY DEF IInv
  <1>2. TypeOK'
    BY <1>1 DEF TypeOK, SyTypeOK, SyAccount, TokenTotals
  <1>3. RateOrder'
    BY UpdateRates DEF RateOrder, SameRates
  <1>4. RateTracking'
    BY UpdateRates DEF RateTracking, SameRates, IsExpired
  <1>5. UnopenedNeverEarned'
    BY DEF IInv, UnopenedNeverEarned
  <1>6. SameBalance(position[Robot], UpdatedRobot)
    BY <1>1, UpdateFacts
  <1>7. RobotFits'
    BY <1>6 DEF IInv, RobotFits, Fits, SameBalance
  <1> QED
    BY <1>2, <1>3, <1>4, <1>5, <1>7 DEF IInv

\* What is left to show of a step that does not.
LEMMA QuietStep ==
    ASSUME IInv, now' \in Nat, now <= now',
           vault' \in VaultAccount, SameRates(vault, vault'),
           vault'.pt_supply = vault.pt_supply,
           sy' \in [exchange_rate : Rates, emission_indexes : Seq(Nat)],
           sy_position' \in SyAccount, EscrowIsInCustody', tokens' = tokens,
           opened' \subseteq Users, UnopenedNeverEarned',
           position' \in [Holders -> YieldTokenPosition],
           \A h \in Holders : position'[h].interest.last_seen_index
                                <= vault.all_time_high_sy_exchange_rate,
           position'[Robot].yt_balance = position[Robot].yt_balance,
           RobotFits'
    PROVE  IInv'
  <1>1. TypeOK /\ TokenLedger /\ RateOrder /\ RateTracking
    BY DEF IInv
  <1>2. TypeOK'
    BY <1>1 DEF TypeOK, SyTypeOK, SyAccount
  <1>3. TokenLedger'
    BY <1>1 DEF TokenLedger, TotalYt
  <1>4. RateOrder'
    BY <1>1 DEF RateOrder, SameRates
  <1>5. RateTracking'
    <2>1. now \in Nat /\ StartTs \in Nat /\ Duration \in Nat
      BY <1>1, TypeParts, VaultAssumption
    <2>2. ~IsExpired(now') => ~IsExpired(now)
      BY <2>1 DEF IsExpired
    <2>3. now >= StartTs => now' >= StartTs
      BY <2>1
    <2> QED
      BY <1>1, <2>2, <2>3 DEF RateTracking, SameRates
  <1> QED
    BY <1>2, <1>3, <1>4, <1>5 DEF IInv

\* What is left to show of a step that only changes the vault's settings.
LEMMA SettingStep ==
    ASSUME IInv, vault' \in VaultAccount, SameRates(vault, vault'),
           vault'.pt_supply = vault.pt_supply,
           vault'.total_sy_in_escrow = vault.total_sy_in_escrow,
           Len(vault'.emissions) <= Len(vault.emissions),
           UNCHANGED <<now, position, opened, tokens, syVars>>
    PROVE  IInv'
  <1>1. TypeOK /\ EscrowIsInCustody /\ RateOrder /\ UnopenedNeverEarned
        /\ RobotFits
    BY DEF IInv
  <1>2. /\ now' = now /\ position' = position /\ opened' = opened
        /\ tokens' = tokens /\ sy' = sy /\ sy_position' = sy_position
    BY DEF syVars
  <1>3. EscrowIsInCustody' /\ UnopenedNeverEarned'
    BY <1>1, <1>2 DEF EscrowIsInCustody, UnopenedNeverEarned
  <1>4. RobotFits'
    <2>1. Len(vault.emissions) \in Nat /\ Len(vault'.emissions) \in Nat
      BY <1>1, TypeParts, VaultFields
    <2>2. position[Robot].space \in Nat
      BY <1>1 DEF TypeOK, YieldTokenPosition, Holders
    <2> QED
      BY <1>1, <1>2, <2>1, <2>2 DEF RobotFits
  <1>5. sy_position' \in SyAccount
    BY <1>1, <1>2 DEF TypeOK, SyTypeOK, SyAccount
  <1> QED
    BY <1>1, <1>2, <1>3, <1>4, <1>5, QuietStep
    DEF TypeOK, SyTypeOK, RateOrder

-----------------------------------------------------------------------------
(* The inductive step, action by action.                                   *)

LEMMA StripInv ==
    ASSUME IInv, NEW amount \in Nat, Strip(amount)
    PROVE  IInv'
  <1> DEFINE v == UpdatedVault
             robot == UpdatedRobot
             py == SyToPy(v.last_seen_sy_exchange_rate, amount)
             u == [v EXCEPT !.total_sy_in_escrow = @ + amount,
                            !.pt_supply = @ + py]
             r == IncYtBalance(robot, py)
  <1>1. /\ TypeOK /\ TokenLedger /\ EscrowIsInCustody
        /\ Robot \in Holders /\ amount \in Nat
        /\ CanEarn(v) /\ Fits(robot)
    BY VaultAssumption DEF IInv, Holders, Strip, CanUpdateYield
  <1>2. /\ vault' = SetSyForPt(u)
        /\ position' = [position EXCEPT ![Robot] = r]
        /\ tokens' = [tokens EXCEPT !.mint_pt = @ + py, !.yt_wallets = @ + py]
        /\ now' = now /\ opened' = opened /\ sy' = sy
        /\ DepositSy(amount)
    BY DEF Strip
  <1>3. /\ v \in VaultAccount /\ SameLedger(vault, v)
        /\ robot \in YieldTokenPosition /\ SameBalance(position[Robot], robot)
    BY <1>1, UpdateFacts
  <1>4. py \in Nat
    BY <1>1, <1>3, VaultFields, SyToPyType
  <1> HIDE DEF v, robot, py
  <1>5. /\ u \in VaultAccount
        /\ u.total_sy_in_escrow = vault.total_sy_in_escrow + amount
        /\ u.pt_supply = vault.pt_supply + py
        /\ Len(u.emissions) = Len(vault.emissions)
        /\ SameRates(v, u)
    <2>1. v.total_sy_in_escrow \in Nat /\ v.pt_supply \in Nat
      BY <1>3, VaultFields
    <2>2. PICK total \in Nat, supply \in Nat :
            /\ u = [v EXCEPT !.total_sy_in_escrow = total, !.pt_supply = supply]
            /\ total = v.total_sy_in_escrow + amount
            /\ supply = v.pt_supply + py
      <3>1. v.total_sy_in_escrow + amount \in Nat /\ v.pt_supply + py \in Nat
        BY <1>1, <1>4, <2>1
      <3> QED
        BY <3>1
    <2> QED
      BY <1>3, <2>2 DEF VaultAccount, SameLedger, SameRates
  <1>6. /\ r \in YieldTokenPosition
        /\ r.yt_balance = position[Robot].yt_balance + py
        /\ r.interest = robot.interest
        /\ r.emissions = robot.emissions
        /\ r.space = position[Robot].space
    BY <1>3, <1>4, IncYtBalanceFacts DEF SameBalance
  <1> HIDE DEF u, r
  <1>7. /\ vault' \in VaultAccount
        /\ vault'.total_sy_in_escrow = vault.total_sy_in_escrow + amount
        /\ vault'.pt_supply = vault.pt_supply + py
        /\ Len(vault'.emissions) = Len(vault.emissions)
        /\ SameRates(v, vault')
    BY <1>2, <1>5, SetSyForPtFacts DEF SameLedger, SameRates
  <1>8. /\ sy_position' \in SyAccount
        /\ sy_position'.sy_balance = sy_position.sy_balance + amount
    BY <1>1, <1>2, DepositSyFacts DEF TypeOK
  <1>9. /\ tokens' \in TokenTotals
        /\ tokens'.mint_pt = tokens.mint_pt + py
        /\ tokens'.yt_wallets = tokens.yt_wallets + py
        /\ tokens'.escrow_yt = tokens.escrow_yt
    <2>1. tokens \in TokenTotals
      BY <1>1 DEF TypeOK, TokenTotals
    <2>2. tokens.mint_pt + py \in Nat /\ tokens.yt_wallets + py \in Nat
      BY <1>4, <2>1 DEF TokenTotals
    <2> QED
      BY <1>2, <2>1, <2>2 DEF TokenTotals
  <1>10. /\ position' \in [Holders -> YieldTokenPosition]
         /\ position'[Robot] = r
         /\ \A h \in Users : position'[h] = position[h]
    BY <1>1, <1>2, <1>6, VaultAssumption DEF TypeOK, Holders
  <1>11. TokenLedger'
    <2>1. /\ vault.pt_supply \in Nat /\ position[Robot].yt_balance \in Nat
          /\ tokens.mint_pt \in Nat /\ tokens.yt_wallets \in Nat
          /\ tokens.escrow_yt \in Nat
      BY <1>1, TypeParts
    <2>2. /\ vault.pt_supply = tokens.mint_pt
          /\ tokens.yt_wallets = position[Robot].yt_balance
          /\ tokens.mint_pt <= tokens.yt_wallets + tokens.escrow_yt
      BY <1>1 DEF TokenLedger, TotalYt
    <2> QED
      BY <1>4, <1>6, <1>7, <1>9, <1>10, <2>1, <2>2 DEF TokenLedger, TotalYt
  <1>12. EscrowIsInCustody'
    BY <1>1, <1>7, <1>8 DEF EscrowIsInCustody
  <1>13. \A h \in Holders : position'[h].interest.last_seen_index
                              <= v.all_time_high_sy_exchange_rate
    BY <1>1, <1>6, <1>10, UpdateRates DEF Holders, v, robot
  <1> QED
    BY <1>1, <1>2, <1>6, <1>7, <1>8, <1>9, <1>10, <1>11, <1>12, <1>13,
       UpdatingStep DEF v, robot

LEMMA MergeInv ==
    ASSUME IInv, NEW py \in Nat, Merge(py)
    PROVE  IInv'
  <1> DEFINE v == UpdatedVault
             robot == UpdatedRobot
             amount == MergedSy(py, v)
             burned == BurnedYt(py)
             u == [v EXCEPT !.total_sy_in_escrow = @ - amount,
                            !.pt_supply = @ - py]
             r == DecYtBalance(robot, burned)
  <1>1. /\ TypeOK /\ TokenLedger /\ EscrowIsInCustody
        /\ Robot \in Holders /\ py \in Nat
        /\ CanEarn(v) /\ Fits(robot)
        /\ burned <= robot.yt_balance /\ burned <= tokens.yt_wallets
        /\ amount <= v.total_sy_in_escrow /\ py <= v.pt_supply
        /\ py <= tokens.mint_pt
    BY VaultAssumption DEF IInv, Holders, Merge, CanMerge, CanUpdateYield
  <1>2. /\ vault' = SetSyForPt(u)
        /\ position' = [position EXCEPT ![Robot] = r]
        /\ tokens' = [tokens EXCEPT !.mint_pt = @ - py,
                                    !.yt_wallets = @ - burned]
        /\ now' = now /\ opened' = opened /\ sy' = sy
        /\ WithdrawSy(amount)
    BY DEF Merge
  <1>3. /\ v \in VaultAccount /\ SameLedger(vault, v)
        /\ robot \in YieldTokenPosition /\ SameBalance(position[Robot], robot)
    BY <1>1, UpdateFacts
  <1>4. /\ amount \in Nat /\ burned \in Nat
        /\ burned = 0 \/ burned = py
    <2>1. amount \in Nat
      BY <1>1, <1>3, VaultFields, RedeemPtType DEF MergedSy
    <2> QED
      BY <1>1, <2>1 DEF BurnedYt
  <1> HIDE DEF v, robot, amount, burned
  <1>5. /\ u \in VaultAccount
        /\ u.total_sy_in_escrow = vault.total_sy_in_escrow - amount
        /\ u.pt_supply = vault.pt_supply - py
        /\ Len(u.emissions) = Len(vault.emissions)
        /\ SameRates(v, u)
    <2>1. v.total_sy_in_escrow \in Nat /\ v.pt_supply \in Nat
      BY <1>3, VaultFields
    <2>2. PICK total \in Nat, supply \in Nat :
            /\ u = [v EXCEPT !.total_sy_in_escrow = total, !.pt_supply = supply]
            /\ total = v.total_sy_in_escrow - amount
            /\ supply = v.pt_supply - py
      <3>1. v.total_sy_in_escrow - amount \in Nat /\ v.pt_supply - py \in Nat
        BY <1>1, <1>4, <2>1
      <3> QED
        BY <3>1
    <2> QED
      BY <1>3, <2>2 DEF VaultAccount, SameLedger, SameRates
  <1>6. /\ r \in YieldTokenPosition
        /\ r.yt_balance = position[Robot].yt_balance - burned
        /\ r.interest = robot.interest
        /\ r.emissions = robot.emissions
        /\ r.space = position[Robot].space
    BY <1>1, <1>3, <1>4, DecYtBalanceFacts DEF SameBalance
  <1> HIDE DEF u, r
  <1>7. /\ vault' \in VaultAccount
        /\ vault'.total_sy_in_escrow = vault.total_sy_in_escrow - amount
        /\ vault'.pt_supply = vault.pt_supply - py
        /\ Len(vault'.emissions) = Len(vault.emissions)
        /\ SameRates(v, vault')
    BY <1>2, <1>5, SetSyForPtFacts DEF SameLedger, SameRates
  <1>8. /\ sy_position' \in SyAccount
        /\ sy_position'.sy_balance = sy_position.sy_balance - amount
    BY <1>1, <1>2, <1>4, WithdrawSyFacts DEF TypeOK
  <1>9. /\ tokens' \in TokenTotals
        /\ tokens'.mint_pt = tokens.mint_pt - py
        /\ tokens'.yt_wallets = tokens.yt_wallets - burned
        /\ tokens'.escrow_yt = tokens.escrow_yt
    <2>1. tokens \in TokenTotals
      BY <1>1 DEF TypeOK, TokenTotals
    <2>2. tokens.mint_pt - py \in Nat /\ tokens.yt_wallets - burned \in Nat
      BY <1>1, <1>4, <2>1 DEF TokenTotals
    <2> QED
      BY <1>2, <2>1, <2>2 DEF TokenTotals
  <1>10. /\ position' \in [Holders -> YieldTokenPosition]
         /\ position'[Robot] = r
         /\ \A h \in Users : position'[h] = position[h]
    BY <1>1, <1>2, <1>6, VaultAssumption DEF TypeOK, Holders
  <1>11. TokenLedger'
    <2>1. /\ vault.pt_supply \in Nat /\ position[Robot].yt_balance \in Nat
          /\ tokens.mint_pt \in Nat /\ tokens.yt_wallets \in Nat
          /\ tokens.escrow_yt \in Nat
      BY <1>1, TypeParts
    <2>2. /\ vault.pt_supply = tokens.mint_pt
          /\ tokens.yt_wallets = position[Robot].yt_balance
          /\ tokens.mint_pt <= tokens.yt_wallets + tokens.escrow_yt
      BY <1>1 DEF TokenLedger, TotalYt
    <2>3. /\ vault'.pt_supply = vault.pt_supply - py
          /\ tokens'.mint_pt = tokens.mint_pt - py
          /\ tokens'.yt_wallets = tokens.yt_wallets - burned
          /\ tokens'.escrow_yt = tokens.escrow_yt
          /\ position'[Robot].yt_balance = position[Robot].yt_balance - burned
      BY <1>6, <1>7, <1>9, <1>10
    <2>4. py \in Nat /\ burned \in Nat /\ burned <= py
      BY <1>1, <1>4
    <2> QED
      BY <2>1, <2>2, <2>3, <2>4 DEF TokenLedger, TotalYt
  <1>12. EscrowIsInCustody'
    BY <1>1, <1>7, <1>8 DEF EscrowIsInCustody
  <1>13. \A h \in Holders : position'[h].interest.last_seen_index
                              <= v.all_time_high_sy_exchange_rate
    BY <1>1, <1>6, <1>10, UpdateRates DEF Holders, v, robot
  <1> QED
    BY <1>1, <1>2, <1>6, <1>7, <1>8, <1>9, <1>10, <1>11, <1>12, <1>13,
       UpdatingStep DEF v, robot

\* The three instructions that update the vault and stage a user's yield differ
\* in the YT they move between the user's position and the robot's.
LEMMA StagingStep ==
    ASSUME IInv, NEW user \in Users, user \in opened,
           CanEarn(UpdatedVault), Fits(UpdatedRobot),
           vault' = StagedVault(UpdatedVault, user),
           UNCHANGED <<now, opened, syVars>>,
           NEW p \in YieldTokenPosition, NEW r \in YieldTokenPosition,
           p.interest = StagedPosition(UpdatedVault, user).interest,
           r.interest = UpdatedRobot.interest,
           r.emissions = UpdatedRobot.emissions,
           r.space = UpdatedRobot.space,
           position' = [position EXCEPT ![user] = p, ![Robot] = r],
           tokens' \in TokenTotals,
           tokens'.mint_pt = tokens.mint_pt,
           tokens'.yt_wallets = r.yt_balance,
           tokens'.yt_wallets + tokens'.escrow_yt = TotalYt
    PROVE  IInv'
  <1>1. TypeOK /\ TokenLedger /\ EscrowIsInCustody
    BY DEF IInv
  <1>2. /\ Robot \in Holders /\ user \in Holders /\ user # Robot
        /\ now' = now /\ opened' = opened /\ sy' = sy
        /\ sy_position' = sy_position
    BY VaultAssumption DEF Holders, syVars
  <1>3. /\ UpdatedVault \in VaultAccount /\ SameLedger(vault, UpdatedVault)
        /\ SameBalance(position[Robot], UpdatedRobot)
    BY <1>1, UpdateFacts
  <1>4. /\ vault' \in VaultAccount
        /\ SameLedger(UpdatedVault, vault') /\ SameRates(UpdatedVault, vault')
        /\ p.interest.last_seen_index
             = IF InEmergency(UpdatedVault)
               THEN position[user].interest.last_seen_index
               ELSE UpdatedVault.final_sy_exchange_rate
    BY <1>1, <1>3, StageFacts
  <1>5. /\ position' \in [Holders -> YieldTokenPosition]
        /\ position'[Robot] = r /\ position'[user] = p
        /\ \A h \in Users \ {user} : position'[h] = position[h]
    BY <1>1, <1>2, VaultAssumption DEF TypeOK, Holders
  <1>6. \A h \in Holders : position'[h].interest.last_seen_index
                             <= UpdatedVault.all_time_high_sy_exchange_rate
    BY <1>2, <1>4, <1>5, UpdateRates DEF Holders
  <1>7. TokenLedger'
    BY <1>1, <1>3, <1>4, <1>5 DEF TokenLedger, TotalYt, SameLedger
  <1>8. EscrowIsInCustody' /\ sy_position' \in SyAccount
    BY <1>1, <1>2, <1>3, <1>4
    DEF EscrowIsInCustody, SameLedger, TypeOK, SyTypeOK, SyAccount
  <1> QED
    BY <1>2, <1>3, <1>4, <1>5, <1>6, <1>7, <1>8, UpdatingStep
    DEF SameLedger, SameBalance

LEMMA DepositYtInv ==
    ASSUME IInv, NEW user \in Users, NEW amount \in Nat,
           DepositYt(user, amount)
    PROVE  IInv'
  <1> DEFINE staged == StagedPosition(UpdatedVault, user)
             p == IncYtBalance(staged, amount)
             r == DecYtBalance(UpdatedRobot, amount)
  <1>1. /\ TypeOK /\ TokenLedger /\ amount \in Nat /\ user \in opened
        /\ CanEarn(UpdatedVault) /\ Fits(UpdatedRobot)
        /\ amount <= UpdatedRobot.yt_balance
    BY VaultAssumption DEF IInv, DepositYt, CanUpdateYield
  <1>2. /\ vault' = StagedVault(UpdatedVault, user)
        /\ position' = [position EXCEPT ![user] = p, ![Robot] = r]
        /\ tokens' = [tokens EXCEPT !.yt_wallets = @ - amount,
                                    !.escrow_yt = @ + amount]
        /\ amount <= tokens.yt_wallets
        /\ UNCHANGED <<now, opened, syVars>>
    BY DEF DepositYt
  <1>3. /\ UpdatedVault \in VaultAccount /\ UpdatedRobot \in YieldTokenPosition
        /\ SameBalance(position[Robot], UpdatedRobot)
    BY <1>1, UpdateFacts
  <1>4. staged \in YieldTokenPosition
    BY <1>1, <1>3, StageFacts
  <1> HIDE DEF staged
  <1>5. p \in YieldTokenPosition /\ p.interest = staged.interest
    BY <1>1, <1>4, IncYtBalanceFacts
  <1>6. /\ r \in YieldTokenPosition
        /\ r.yt_balance = position[Robot].yt_balance - amount
        /\ r.interest = UpdatedRobot.interest
        /\ r.emissions = UpdatedRobot.emissions /\ r.space = UpdatedRobot.space
    BY <1>1, <1>3, DecYtBalanceFacts DEF SameBalance
  <1>7. /\ tokens' \in TokenTotals
        /\ tokens'.mint_pt = tokens.mint_pt
        /\ tokens'.yt_wallets = tokens.yt_wallets - amount
        /\ tokens'.escrow_yt = tokens.escrow_yt + amount
    <2>1. tokens \in TokenTotals
      BY <1>1 DEF TypeOK, TokenTotals
    <2>2. tokens.yt_wallets - amount \in Nat /\ tokens.escrow_yt + amount \in Nat
      BY <1>1, <1>2, <2>1 DEF TokenTotals
    <2> QED
      BY <1>2, <2>1, <2>2 DEF TokenTotals
  <1>8. /\ tokens'.yt_wallets = r.yt_balance
        /\ tokens'.yt_wallets + tokens'.escrow_yt = TotalYt
    BY <1>1, <1>6, <1>7, TypeParts DEF TokenLedger, TotalYt
  <1> HIDE DEF p, r
  <1> QED
    BY <1>1, <1>2, <1>5, <1>6, <1>7, <1>8, StagingStep DEF staged

LEMMA WithdrawYtInv ==
    ASSUME IInv, NEW user \in Users, NEW amount \in YtAmounts,
           WithdrawYt(user, amount)
    PROVE  IInv'
  <1> DEFINE staged == StagedPosition(UpdatedVault, user)
             p == DecYtBalance(staged, amount)
             r == IncYtBalance(UpdatedRobot, amount)
  <1>1. /\ TypeOK /\ TokenLedger /\ amount \in Nat /\ user \in opened
        /\ CanEarn(UpdatedVault) /\ Fits(UpdatedRobot)
        /\ amount <= position[user].yt_balance
    BY VaultAssumption DEF IInv, WithdrawYt, CanUpdateYield
  <1>2. /\ vault' = StagedVault(UpdatedVault, user)
        /\ position' = [position EXCEPT ![user] = p, ![Robot] = r]
        /\ tokens' = [tokens EXCEPT !.yt_wallets = @ + amount,
                                    !.escrow_yt = @ - amount]
        /\ amount <= tokens.escrow_yt
        /\ UNCHANGED <<now, opened, syVars>>
    BY DEF WithdrawYt
  <1>3. /\ UpdatedVault \in VaultAccount /\ UpdatedRobot \in YieldTokenPosition
        /\ SameBalance(position[Robot], UpdatedRobot)
    BY <1>1, UpdateFacts
  <1>4. /\ staged \in YieldTokenPosition
        /\ staged.yt_balance = position[user].yt_balance
    BY <1>1, <1>3, StageFacts
  <1> HIDE DEF staged
  <1>5. p \in YieldTokenPosition /\ p.interest = staged.interest
    BY <1>1, <1>4, DecYtBalanceFacts
  <1>6. /\ r \in YieldTokenPosition
        /\ r.yt_balance = position[Robot].yt_balance + amount
        /\ r.interest = UpdatedRobot.interest
        /\ r.emissions = UpdatedRobot.emissions /\ r.space = UpdatedRobot.space
    BY <1>1, <1>3, IncYtBalanceFacts DEF SameBalance
  <1>7. /\ tokens' \in TokenTotals
        /\ tokens'.mint_pt = tokens.mint_pt
        /\ tokens'.yt_wallets = tokens.yt_wallets + amount
        /\ tokens'.escrow_yt = tokens.escrow_yt - amount
    <2>1. tokens \in TokenTotals
      BY <1>1 DEF TypeOK, TokenTotals
    <2>2. tokens.yt_wallets + amount \in Nat /\ tokens.escrow_yt - amount \in Nat
      BY <1>1, <1>2, <2>1 DEF TokenTotals
    <2> QED
      BY <1>2, <2>1, <2>2 DEF TokenTotals
  <1>8. /\ tokens'.yt_wallets = r.yt_balance
        /\ tokens'.yt_wallets + tokens'.escrow_yt = TotalYt
    BY <1>1, <1>6, <1>7, TypeParts DEF TokenLedger, TotalYt
  <1> HIDE DEF p, r
  <1> QED
    BY <1>1, <1>2, <1>5, <1>6, <1>7, <1>8, StagingStep DEF staged

LEMMA StageYieldInv ==
    ASSUME IInv, NEW user \in Users, StageYield(user)
    PROVE  IInv'
  <1> DEFINE staged == StagedPosition(UpdatedVault, user)
  <1>1. /\ TypeOK /\ TokenLedger /\ user \in opened
        /\ CanEarn(UpdatedVault) /\ Fits(UpdatedRobot)
    BY DEF IInv, StageYield, CanUpdateYield
  <1>2. /\ vault' = StagedVault(UpdatedVault, user)
        /\ position' = [position EXCEPT ![user] = staged,
                                        ![Robot] = UpdatedRobot]
        /\ tokens' = tokens
        /\ UNCHANGED <<now, opened, syVars>>
    BY DEF StageYield, syVars
  <1>3. /\ UpdatedVault \in VaultAccount /\ UpdatedRobot \in YieldTokenPosition
        /\ SameBalance(position[Robot], UpdatedRobot)
    BY <1>1, UpdateFacts
  <1>4. staged \in YieldTokenPosition
    BY <1>1, <1>3, StageFacts
  <1>5. /\ tokens' \in TokenTotals /\ tokens'.mint_pt = tokens.mint_pt
        /\ tokens'.yt_wallets = UpdatedRobot.yt_balance
        /\ tokens'.yt_wallets + tokens'.escrow_yt = TotalYt
    BY <1>1, <1>2, <1>3
    DEF TypeOK, TokenTotals, TokenLedger, TotalYt, SameBalance
  <1> HIDE DEF staged
  <1> QED
    BY <1>1, <1>2, <1>3, <1>4, <1>5, StagingStep DEF staged

LEMMA CollectInterestInv ==
    ASSUME IInv, NEW user \in Users, CollectInterest(user)
    PROVE  IInv'
  <1> DEFINE p == EarnAllPosition(vault, position[user])
             v == EarnAllVault(vault, position[user])
  <1>1. PICK amount \in Claimable(position[user].interest.staged) :
          /\ user \in opened
          /\ CanEarn(vault)
          /\ WithdrawSy(amount)
          /\ amount <= v.total_sy_in_escrow
          /\ amount <= v.uncollected_sy
          /\ vault' = [v EXCEPT
                 !.claim_limits = CountClaim(@, amount, now),
                 !.total_sy_in_escrow = @ - amount,
                 !.uncollected_sy = @ - amount]
          /\ position' = [position EXCEPT
                 ![user] = [p EXCEPT !.interest = DecStaged(@, amount)]]
          /\ UNCHANGED <<now, opened, tokens, sy>>
    BY DEF CollectInterest
  <1> DEFINE q == [p EXCEPT !.interest = DecStaged(@, amount)]
  <1>2. /\ TypeOK /\ EscrowIsInCustody /\ RateOrder /\ UnopenedNeverEarned
        /\ RobotFits
        /\ Robot \in Holders /\ user \in Holders /\ user # Robot
        /\ now' = now /\ opened' = opened /\ tokens' = tokens /\ sy' = sy
    BY <1>1, VaultAssumption DEF IInv, Holders
  <1>3. amount \in Nat /\ amount <= position[user].interest.staged
    BY <1>2, TypeParts, ClaimableFacts
  <1>4. /\ v \in VaultAccount /\ SameLedger(vault, v) /\ SameRates(vault, v)
    BY <1>2, TypeParts, EarnAllVaultFacts
  <1>5. /\ p \in YieldTokenPosition
        /\ p.interest.last_seen_index
             = IF InEmergency(vault) THEN position[user].interest.last_seen_index
                                     ELSE vault.final_sy_exchange_rate
        /\ p.interest.staged >= position[user].interest.staged
    BY <1>1, <1>2, TypeParts, EarnAllPositionFacts
  <1> HIDE DEF p, v
  <1>6. /\ q \in YieldTokenPosition
        /\ q.interest.last_seen_index = p.interest.last_seen_index
    <2>1. amount <= p.interest.staged
      <3>1. position[user].interest.staged \in Nat
        BY <1>2, TypeParts
      <3>2. p.interest.staged \in Nat
        BY <1>5 DEF YieldTokenPosition, Tracker
      <3> QED
        BY <1>3, <1>5, <3>1, <3>2
    <2> QED
      BY <1>3, <1>5, <2>1, InterestClaimFacts
  <1> HIDE DEF q
  <1>7. /\ vault' \in VaultAccount /\ SameRates(vault, vault')
        /\ vault'.pt_supply = vault.pt_supply
        /\ vault'.total_sy_in_escrow = vault.total_sy_in_escrow - amount
        /\ Len(vault'.emissions) = Len(vault.emissions)
    <2>1. /\ v.claim_limits \in ClaimLimits /\ v.uncollected_sy \in Nat
          /\ v.total_sy_in_escrow \in Nat
      BY <1>4, VaultFields
    <2>2. PICK limits \in ClaimLimits, total \in Nat, owed \in Nat :
            /\ vault' = [v EXCEPT !.claim_limits = limits,
                                  !.total_sy_in_escrow = total,
                                  !.uncollected_sy = owed]
            /\ total = v.total_sy_in_escrow - amount
      <3>1. CountClaim(v.claim_limits, amount, now) \in ClaimLimits
        BY <1>2, <1>3, <2>1, TypeParts, CountClaimType
      <3>2. /\ v.total_sy_in_escrow - amount \in Nat
            /\ v.uncollected_sy - amount \in Nat
        BY <1>1, <1>3, <2>1
      <3> QED
        BY <1>1, <3>1, <3>2
    <2> QED
      BY <1>4, <2>2 DEF VaultAccount, SameLedger, SameRates
  <1>8. /\ sy_position' \in SyAccount
        /\ sy_position'.sy_balance = sy_position.sy_balance - amount
    BY <1>1, <1>2, <1>3, WithdrawSyFacts DEF TypeOK
  <1>9. EscrowIsInCustody'
    BY <1>2, <1>7, <1>8 DEF EscrowIsInCustody
  <1>10. /\ position' \in [Holders -> YieldTokenPosition]
         /\ position'[user] = q
         /\ \A h \in Holders \ {user} : position'[h] = position[h]
    BY <1>1, <1>2, <1>6 DEF TypeOK, q
  <1>11. \A h \in Holders : position'[h].interest.last_seen_index
                              <= vault.all_time_high_sy_exchange_rate
    BY <1>2, <1>5, <1>6, <1>10 DEF RateOrder
  <1>12. UnopenedNeverEarned' /\ RobotFits'
    BY <1>1, <1>2, <1>7, <1>10
    DEF UnopenedNeverEarned, RobotFits, Holders
  <1> QED
    BY <1>2, <1>7, <1>8, <1>9, <1>10, <1>11, <1>12, TypeParts, QuietStep
    DEF TypeOK, SyTypeOK

LEMMA InitializeYieldPositionInv ==
    ASSUME IInv, NEW user \in Users, InitializeYieldPosition(user)
    PROVE  IInv'
  <1> DEFINE p == Realloc(NewPosition)
  <1>1. /\ TypeOK /\ EscrowIsInCustody /\ RateOrder /\ UnopenedNeverEarned
        /\ RobotFits
        /\ Robot \in Holders /\ user \in Holders /\ user # Robot
    BY VaultAssumption DEF IInv, Holders
  <1>2. /\ opened' = opened \cup {user}
        /\ position' = [position EXCEPT ![user] = p]
        /\ now' = now /\ vault' = vault /\ tokens' = tokens
        /\ sy' = sy /\ sy_position' = sy_position
    BY DEF InitializeYieldPosition, syVars
  <1>3. NewPosition \in YieldTokenPosition
        /\ NewPosition.interest.last_seen_index = 0
    BY DEF NewPosition, NewTracker, YieldTokenPosition, Tracker
  <1>4. p \in YieldTokenPosition /\ p.interest.last_seen_index = 0
    BY <1>1, <1>3, ReallocFacts DEF TypeOK
  <1> HIDE DEF p
  <1>5. /\ position' \in [Holders -> YieldTokenPosition]
        /\ position'[user] = p
        /\ \A h \in Holders \ {user} : position'[h] = position[h]
    BY <1>1, <1>2, <1>4 DEF TypeOK
  <1>6. \A h \in Holders : position'[h].interest.last_seen_index
                             <= vault.all_time_high_sy_exchange_rate
    BY <1>1, <1>4, <1>5, TypeParts DEF RateOrder
  <1>7. UnopenedNeverEarned' /\ RobotFits'
    BY <1>1, <1>2, <1>5 DEF UnopenedNeverEarned, RobotFits, Holders
  <1>8. EscrowIsInCustody' /\ sy_position' \in SyAccount
    BY <1>1, <1>2 DEF EscrowIsInCustody, TypeOK, SyTypeOK, SyAccount
  <1> QED
    BY <1>1, <1>2, <1>5, <1>6, <1>7, <1>8, TypeParts, QuietStep
    DEF TypeOK, SyTypeOK, SameRates

LEMMA ClaimFromSyFacts ==
    ASSUME TypeOK, NEW i, NEW amount \in Nat, ClaimFromSy(i, amount)
    PROVE  /\ sy_position' \in SyAccount
           /\ sy_position'.sy_balance = sy_position.sy_balance
  BY ClaimEmissionFacts DEF ClaimFromSy, TypeOK

\* The emissions of a user's position and of the robot's are collected alike.
LEMMA CollectEmissionStep ==
    ASSUME IInv, NEW holder \in Holders, NEW i,
           i \in DOMAIN position[holder].emissions,
           NEW amount \in Claimable(position[holder].emissions[i].staged),
           ClaimFromSy(i, amount),
           position' = [position EXCEPT
               ![holder].emissions[i] = DecStaged(@, amount)],
           UNCHANGED <<now, vault, opened, tokens, sy>>
    PROVE  IInv'
  <1> DEFINE p == position[holder]
             q == [p EXCEPT !.emissions[i] = DecStaged(@, amount)]
  <1>1. /\ TypeOK /\ EscrowIsInCustody /\ RateOrder /\ UnopenedNeverEarned
        /\ RobotFits
        /\ Robot \in Holders
    BY DEF IInv, Holders
  <1>2. /\ p \in YieldTokenPosition /\ p.emissions \in Seq(Tracker)
        /\ p.emissions[i].staged \in Nat
    <2>1. p \in YieldTokenPosition /\ p.emissions \in Seq(Tracker)
      BY <1>1, TypeParts
    <2>2. p.emissions[i] \in Tracker
      BY <2>1
    <2> QED
      BY <2>1, <2>2 DEF Tracker
  <1>3. amount \in Nat /\ amount <= p.emissions[i].staged
    BY <1>2, ClaimableFacts
  <1>4. /\ q \in YieldTokenPosition
        /\ SameBalance(p, q) /\ q.interest = p.interest
        /\ Len(q.emissions) = Len(p.emissions)
    BY <1>2, <1>3, EmissionClaimFacts
  <1>5. position' = [position EXCEPT ![holder] = q]
    BY <1>1 DEF TypeOK
  <1> HIDE DEF q
  <1>6. /\ position' \in [Holders -> YieldTokenPosition]
        /\ position'[holder] = q
        /\ \A h \in Holders \ {holder} : position'[h] = position[h]
    BY <1>1, <1>4, <1>5 DEF TypeOK
  <1>7. \A h \in Holders : position'[h].interest = position[h].interest
    BY <1>4, <1>6
  <1>8. UnopenedNeverEarned' /\ RobotFits'
    BY <1>1, <1>4, <1>6, <1>7
    DEF UnopenedNeverEarned, RobotFits, Holders, SameBalance
  <1>9. /\ position'[Robot].yt_balance = position[Robot].yt_balance
        /\ \A h \in Holders : position'[h].interest.last_seen_index
                                <= vault.all_time_high_sy_exchange_rate
    BY <1>1, <1>4, <1>6, <1>7 DEF RateOrder, SameBalance
  <1>10. EscrowIsInCustody' /\ sy_position' \in SyAccount
    BY <1>1, <1>3, ClaimFromSyFacts DEF EscrowIsInCustody
  <1> QED
    BY <1>1, <1>6, <1>8, <1>9, <1>10, TypeParts, QuietStep
    DEF TypeOK, SyTypeOK, SameRates

LEMMA CollectTreasuryEmissionInv ==
    ASSUME IInv, NEW i \in 1..MaxStreams, CollectTreasuryEmission(i)
    PROVE  IInv'
  <1>1. PICK amount \in Claimable(vault.emissions[i].treasury_emission) :
          /\ ClaimFromSy(i, amount)
          /\ vault' = [vault EXCEPT !.emissions[i].treasury_emission
                                      = @ - amount]
    BY DEF CollectTreasuryEmission
  <1> DEFINE e == [vault.emissions[i] EXCEPT !.treasury_emission = @ - amount]
             es == [vault.emissions EXCEPT ![i] = e]
  <1>2. /\ TypeOK /\ EscrowIsInCustody /\ RateOrder /\ UnopenedNeverEarned
        /\ RobotFits
        /\ i \in DOMAIN vault.emissions
        /\ now' = now /\ position' = position /\ opened' = opened
        /\ tokens' = tokens /\ sy' = sy
    BY DEF IInv, CollectTreasuryEmission
  <1>3. vault \in VaultAccount /\ vault.emissions \in Seq(EmissionInfo)
    BY <1>2, TypeParts, VaultFields
  <1>4. vault.emissions[i] \in EmissionInfo
    BY <1>2, <1>3
  <1>5. amount \in Nat /\ amount <= vault.emissions[i].treasury_emission
    BY <1>4, ClaimableFacts DEF EmissionInfo
  <1>6. e \in EmissionInfo
    <2>1. vault.emissions[i].treasury_emission - amount \in Nat
      BY <1>4, <1>5 DEF EmissionInfo
    <2> QED
      BY <1>4, <2>1 DEF EmissionInfo
  <1>7. vault' = [vault EXCEPT !.emissions = es]
    BY <1>1, <1>3 DEF VaultAccount
  <1> HIDE DEF e
  <1>8. es \in Seq(EmissionInfo) /\ Len(es) = Len(vault.emissions)
    BY <1>2, <1>3, <1>6
  <1> HIDE DEF es
  <1>9. /\ vault' \in VaultAccount /\ SameRates(vault, vault')
        /\ vault'.pt_supply = vault.pt_supply
        /\ vault'.total_sy_in_escrow = vault.total_sy_in_escrow
        /\ Len(vault'.emissions) = Len(vault.emissions)
    BY <1>3, <1>7, <1>8 DEF VaultAccount, SameRates
  <1>10. EscrowIsInCustody' /\ sy_position' \in SyAccount
    BY <1>1, <1>2, <1>5, <1>9, ClaimFromSyFacts DEF EscrowIsInCustody
  <1>11. UnopenedNeverEarned' /\ RobotFits'
    BY <1>2, <1>9 DEF UnopenedNeverEarned, RobotFits
  <1> QED
    BY <1>2, <1>9, <1>10, <1>11, TypeParts, QuietStep
    DEF TypeOK, SyTypeOK, RateOrder

LEMMA CollectRobotInterestInv ==
    ASSUME IInv, CollectRobotInterest
    PROVE  IInv'
  <1>1. PICK amount \in Claimable(position[Robot].interest.staged) :
          /\ WithdrawSy(amount)
          /\ amount <= vault.uncollected_sy
          /\ amount <= vault.total_sy_in_escrow
          /\ vault' = [vault EXCEPT !.uncollected_sy = @ - amount,
                                    !.total_sy_in_escrow = @ - amount]
          /\ position' = [position EXCEPT
                 ![Robot].interest = DecStaged(@, amount)]
    BY DEF CollectRobotInterest
  <1> DEFINE p == position[Robot]
             q == [p EXCEPT !.interest = DecStaged(@, amount)]
  <1>2. /\ TypeOK /\ EscrowIsInCustody /\ RateOrder /\ UnopenedNeverEarned
        /\ RobotFits /\ Robot \in Holders
        /\ now' = now /\ opened' = opened /\ tokens' = tokens /\ sy' = sy
    BY DEF IInv, CollectRobotInterest, Holders
  <1>3. p \in YieldTokenPosition /\ p.interest.staged \in Nat
    BY <1>2, TypeParts
  <1>4. amount \in Nat /\ amount <= p.interest.staged
    BY <1>3, ClaimableFacts
  <1>5. /\ q \in YieldTokenPosition /\ SameBalance(p, q)
        /\ q.interest.last_seen_index = p.interest.last_seen_index
        /\ q.emissions = p.emissions
    BY <1>3, <1>4, InterestClaimFacts
  <1>6. position' = [position EXCEPT ![Robot] = q]
    BY <1>1, <1>2 DEF TypeOK
  <1> HIDE DEF q
  <1>7. /\ position' \in [Holders -> YieldTokenPosition]
        /\ position'[Robot] = q
        /\ \A h \in Holders \ {Robot} : position'[h] = position[h]
    BY <1>2, <1>5, <1>6 DEF TypeOK
  <1>8. /\ vault' \in VaultAccount /\ SameRates(vault, vault')
        /\ vault'.pt_supply = vault.pt_supply
        /\ vault'.total_sy_in_escrow = vault.total_sy_in_escrow - amount
        /\ vault'.emissions = vault.emissions
    <2>1. vault \in VaultAccount /\ vault.uncollected_sy \in Nat
          /\ vault.total_sy_in_escrow \in Nat
      BY <1>2, TypeParts
    <2>2. PICK owed \in Nat, total \in Nat :
            /\ vault' = [vault EXCEPT !.uncollected_sy = owed,
                                      !.total_sy_in_escrow = total]
            /\ total = vault.total_sy_in_escrow - amount
      <3>1. /\ vault.uncollected_sy - amount \in Nat
            /\ vault.total_sy_in_escrow - amount \in Nat
        BY <1>1, <1>4, <2>1
      <3> QED
        BY <1>1, <3>1
    <2> QED
      BY <2>1, <2>2 DEF VaultAccount, SameRates
  <1>9. /\ sy_position' \in SyAccount
        /\ sy_position'.sy_balance = sy_position.sy_balance - amount
    BY <1>1, <1>2, <1>4, WithdrawSyFacts DEF TypeOK
  <1>10. EscrowIsInCustody'
    BY <1>2, <1>8, <1>9 DEF EscrowIsInCustody
  <1>11. \A h \in Holders : position'[h].interest.last_seen_index
                              <= vault.all_time_high_sy_exchange_rate
    BY <1>2, <1>5, <1>7 DEF RateOrder
  <1>12. UnopenedNeverEarned' /\ RobotFits'
    BY <1>2, <1>5, <1>7, <1>8, VaultAssumption
    DEF UnopenedNeverEarned, RobotFits, Holders, SameBalance
  <1>13. position'[Robot].yt_balance = position[Robot].yt_balance
    BY <1>5, <1>7 DEF SameBalance
  <1> QED
    BY <1>2, <1>7, <1>8, <1>9, <1>10, <1>11, <1>12, <1>13, TypeParts, QuietStep
    DEF TypeOK, SyTypeOK

LEMMA CollectTreasuryInterestInv ==
    ASSUME IInv, CollectTreasuryInterest
    PROVE  IInv'
  <1>1. PICK amount \in Claimable(vault.treasury_sy) :
          /\ WithdrawSy(amount)
          /\ amount <= vault.total_sy_in_escrow
          /\ vault' = [vault EXCEPT !.treasury_sy = @ - amount,
                                    !.total_sy_in_escrow = @ - amount]
    BY DEF CollectTreasuryInterest
  <1>2. /\ TypeOK /\ EscrowIsInCustody /\ RateOrder /\ UnopenedNeverEarned
        /\ RobotFits
        /\ now' = now /\ position' = position /\ opened' = opened
        /\ tokens' = tokens /\ sy' = sy
    BY DEF IInv, CollectTreasuryInterest
  <1>3. vault \in VaultAccount /\ vault.treasury_sy \in Nat
        /\ vault.total_sy_in_escrow \in Nat
    BY <1>2, TypeParts
  <1>4. amount \in Nat /\ amount <= vault.treasury_sy
    BY <1>3, ClaimableFacts
  <1>5. /\ vault' \in VaultAccount /\ SameRates(vault, vault')
        /\ vault'.pt_supply = vault.pt_supply
        /\ vault'.total_sy_in_escrow = vault.total_sy_in_escrow - amount
        /\ vault'.emissions = vault.emissions
    <2>1. PICK fund \in Nat, total \in Nat :
            /\ vault' = [vault EXCEPT !.treasury_sy = fund,
                                      !.total_sy_in_escrow = total]
            /\ total = vault.total_sy_in_escrow - amount
      <3>1. /\ vault.treasury_sy - amount \in Nat
            /\ vault.total_sy_in_escrow - amount \in Nat
        BY <1>1, <1>3, <1>4
      <3> QED
        BY <1>1, <3>1
    <2> QED
      BY <1>3, <2>1 DEF VaultAccount, SameRates
  <1>6. /\ sy_position' \in SyAccount
        /\ sy_position'.sy_balance = sy_position.sy_balance - amount
    BY <1>1, <1>2, <1>4, WithdrawSyFacts DEF TypeOK
  <1>7. EscrowIsInCustody'
    BY <1>2, <1>5, <1>6 DEF EscrowIsInCustody
  <1>8. UnopenedNeverEarned' /\ RobotFits'
    BY <1>2, <1>5 DEF UnopenedNeverEarned, RobotFits
  <1> QED
    BY <1>2, <1>5, <1>6, <1>7, <1>8, TypeParts, QuietStep
    DEF TypeOK, SyTypeOK, RateOrder

\* The streams that the vault's emissions were registered for.
LEMMA TokenAccountsType ==
    ASSUME NEW v \in VaultAccount
    PROVE  [i \in DOMAIN v.emissions |-> v.emissions[i].token_account] \in Seq(Nat)
  <1> DEFINE accounts == [i \in DOMAIN v.emissions |->
                            v.emissions[i].token_account]
             n == Len(v.emissions)
  <1>1. v.emissions \in Seq(EmissionInfo)
    BY DEF VaultAccount
  <1>2. n \in Nat /\ DOMAIN v.emissions = 1..n
    BY <1>1
  <1>3. ASSUME NEW i \in 1..n
        PROVE  v.emissions[i].token_account \in Nat
    <2>1. v.emissions[i] \in EmissionInfo
      BY <1>1, <1>2
    <2> QED
      BY <2>1 DEF EmissionInfo
  <1>4. accounts \in [1..n -> Nat]
    BY <1>2, <1>3
  <1> HIDE DEF n, accounts
  <1>5. accounts \in Seq(Nat)
    BY <1>2, <1>4, FunctionIsSeq
  <1> QED
    BY <1>5 DEF accounts

LEMMA AddEmissionInv ==
    ASSUME IInv, NEW bps \in EmissionFees, AddEmission(bps)
    PROVE  IInv'
  <1> DEFINE n == Len(vault.emissions) + 1
             index == sy.emission_indexes[n]
             e == [token_account     |-> n,
                   initial_index     |-> index,
                   last_seen_index   |-> index,
                   final_index       |-> index,
                   fee_bps           |-> bps,
                   treasury_emission |-> 0]
             es == Append(vault.emissions, e)
             accounts == [i \in DOMAIN vault.emissions |->
                            vault.emissions[i].token_account]
             cs == Append(accounts, n)
             q == [position[Robot] EXCEPT !.space = n]
  <1>1. /\ TypeOK /\ EscrowIsInCustody /\ RateOrder /\ UnopenedNeverEarned
        /\ Robot \in Holders
        /\ n \in DOMAIN sy.emission_indexes
        /\ Len(position[Robot].emissions) <= n
        /\ DepositSy(0)
        /\ vault' = [vault EXCEPT !.emissions = es, !.claim_emission = cs]
        /\ position' = [position EXCEPT ![Robot].space = n]
        /\ now' = now /\ opened' = opened /\ tokens' = tokens /\ sy' = sy
    BY DEF IInv, AddEmission, Holders
  <1>2. /\ vault \in VaultAccount /\ vault.emissions \in Seq(EmissionInfo)
        /\ Len(vault.emissions) \in Nat
        /\ position[Robot] \in YieldTokenPosition
        /\ sy.emission_indexes \in Seq(Nat)
    BY <1>1, TypeParts, VaultFields DEF TypeOK, SyTypeOK
  <1>3. n \in Nat /\ index \in Nat /\ bps \in Nat
    <2>1. n \in Nat
      BY <1>2
    <2>2. index \in Nat
      BY <1>1, <1>2
    <2>3. bps \in Nat
      BY VaultAssumption
    <2> QED
      BY <2>1, <2>2, <2>3
  <1>4. accounts \in Seq(Nat)
    BY <1>2, TokenAccountsType
  <1>5. Len(position[Robot].emissions) <= n
    BY <1>1
  <1> HIDE DEF n, index, accounts
  <1>6. e \in EmissionInfo
    BY <1>3 DEF EmissionInfo
  <1> HIDE DEF e
  <1>7. /\ es \in Seq(EmissionInfo) /\ Len(es) = Len(vault.emissions) + 1
        /\ cs \in Seq(Nat)
    BY <1>2, <1>3, <1>4, <1>6
  <1>8. Len(es) = n
    BY <1>7 DEF n
  <1> HIDE DEF es, cs
  <1>9. /\ vault' \in VaultAccount /\ SameRates(vault, vault')
        /\ vault'.pt_supply = vault.pt_supply
        /\ vault'.total_sy_in_escrow = vault.total_sy_in_escrow
        /\ vault'.emissions = es
    BY <1>1, <1>2, <1>7 DEF VaultAccount, SameRates
  <1>10. /\ q \in YieldTokenPosition
         /\ q.interest = position[Robot].interest
         /\ q.yt_balance = position[Robot].yt_balance
         /\ q.emissions = position[Robot].emissions /\ q.space = n
    BY <1>2, <1>3 DEF YieldTokenPosition
  <1>11. position' = [position EXCEPT ![Robot] = q]
    BY <1>1 DEF TypeOK
  <1> HIDE DEF q
  <1>12. /\ position' \in [Holders -> YieldTokenPosition]
         /\ position'[Robot] = q
         /\ \A h \in Holders \ {Robot} : position'[h] = position[h]
    BY <1>1, <1>10, <1>11 DEF TypeOK
  <1>13. /\ sy_position' \in SyAccount
         /\ sy_position'.sy_balance = sy_position.sy_balance
    <2>1. /\ sy_position' \in SyAccount
          /\ sy_position'.sy_balance = sy_position.sy_balance + 0
      BY <1>1, DepositSyFacts DEF TypeOK
    <2>2. sy_position.sy_balance \in Nat
      BY <1>1, TypeParts
    <2> QED
      BY <2>1, <2>2
  <1>14. EscrowIsInCustody'
    BY <1>1, <1>9, <1>13 DEF EscrowIsInCustody
  <1>15. \A h \in Holders : position'[h].interest.last_seen_index
                              <= vault.all_time_high_sy_exchange_rate
    BY <1>1, <1>10, <1>12 DEF RateOrder
  <1>16. UnopenedNeverEarned'
    BY <1>1, <1>12, VaultAssumption DEF UnopenedNeverEarned, Holders
  <1>17. RobotFits'
    BY <1>3, <1>5, <1>8, <1>9, <1>10, <1>12 DEF RobotFits
  <1> QED
    BY <1>1, <1>9, <1>10, <1>12, <1>13, <1>14, <1>15, <1>16, <1>17, TypeParts,
       QuietStep
    DEF TypeOK, SyTypeOK

LEMMA RemoveVaultEmissionInv ==
    ASSUME IInv, NEW i \in 1..MaxStreams, RemoveVaultEmission(i)
    PROVE  IInv'
  <1> DEFINE es == RemoveAt(vault.emissions, i)
  <1>1. /\ TypeOK /\ i \in DOMAIN vault.emissions
        /\ vault' = [vault EXCEPT !.emissions = es]
        /\ UNCHANGED <<now, position, opened, tokens, syVars>>
    BY DEF IInv, RemoveVaultEmission
  <1>2. vault \in VaultAccount /\ vault.emissions \in Seq(EmissionInfo)
    BY <1>1, TypeParts, VaultFields
  <1>3. es \in Seq(EmissionInfo) /\ Len(es) <= Len(vault.emissions)
    BY <1>1, <1>2, RemoveAtType
  <1> HIDE DEF es
  <1>4. /\ vault' \in VaultAccount /\ SameRates(vault, vault')
        /\ vault'.pt_supply = vault.pt_supply
        /\ vault'.total_sy_in_escrow = vault.total_sy_in_escrow
        /\ vault'.emissions = es
    BY <1>1, <1>2, <1>3 DEF VaultAccount, SameRates
  <1> QED
    BY <1>1, <1>3, <1>4, SettingStep

LEMMA ChangeCpiAccountsInv ==
    ASSUME IInv, ChangeCpiAccounts
    PROVE  IInv'
  <1> DEFINE accounts == [i \in DOMAIN vault.emissions |->
                            vault.emissions[i].token_account]
  <1>1. /\ TypeOK
        /\ vault' = [vault EXCEPT !.claim_emission = accounts]
        /\ UNCHANGED <<now, position, opened, tokens, syVars>>
    BY DEF IInv, ChangeCpiAccounts
  <1>2. /\ vault \in VaultAccount /\ vault.emissions \in Seq(EmissionInfo)
        /\ Len(vault.emissions) \in Nat
    BY <1>1, TypeParts, VaultFields
  <1>3. accounts \in Seq(Nat)
    BY <1>2, TokenAccountsType
  <1> HIDE DEF accounts
  <1>4. /\ vault' \in VaultAccount /\ SameRates(vault, vault')
        /\ vault'.pt_supply = vault.pt_supply
        /\ vault'.total_sy_in_escrow = vault.total_sy_in_escrow
        /\ vault'.emissions = vault.emissions
    BY <1>1, <1>2, <1>3 DEF VaultAccount, SameRates
  <1> QED
    BY <1>1, <1>2, <1>4, SettingStep

LEMMA ChangeEmissionBpsFeeInv ==
    ASSUME IInv, NEW i \in 1..MaxStreams, NEW bps \in FeeChoices,
           ChangeEmissionBpsFee(i, bps)
    PROVE  IInv'
  <1> DEFINE e == [vault.emissions[i] EXCEPT !.fee_bps = bps]
             es == [vault.emissions EXCEPT ![i] = e]
  <1>1. /\ TypeOK /\ i \in DOMAIN vault.emissions /\ bps \in Nat
        /\ vault' = [vault EXCEPT !.emissions[i].fee_bps = bps]
        /\ UNCHANGED <<now, position, opened, tokens, syVars>>
    BY VaultAssumption DEF IInv, ChangeEmissionBpsFee
  <1>2. vault \in VaultAccount /\ vault.emissions \in Seq(EmissionInfo)
    BY <1>1, TypeParts, VaultFields
  <1>3. vault' = [vault EXCEPT !.emissions = es]
    BY <1>1, <1>2 DEF VaultAccount
  <1>4. e \in EmissionInfo
    <2>1. vault.emissions[i] \in EmissionInfo
      BY <1>1, <1>2
    <2> QED
      BY <1>1, <2>1 DEF EmissionInfo
  <1> HIDE DEF e
  <1>5. es \in Seq(EmissionInfo) /\ Len(es) = Len(vault.emissions)
    BY <1>1, <1>2, <1>4
  <1> HIDE DEF es
  <1>6. /\ vault' \in VaultAccount /\ SameRates(vault, vault')
        /\ vault'.pt_supply = vault.pt_supply
        /\ vault'.total_sy_in_escrow = vault.total_sy_in_escrow
        /\ vault'.emissions = es
    BY <1>2, <1>3, <1>5 DEF VaultAccount, SameRates
  <1>7. Len(vault.emissions) \in Nat
    BY <1>2, VaultFields
  <1> QED
    BY <1>1, <1>5, <1>6, <1>7, SettingStep

\* The settings that are plain fields of the account.
LEMMA PlainSettingInv ==
    ASSUME IInv,
           \/ \E role \in {"pause_admin", "cold_admin"},
                 status \in StatusChoices : SetVaultStatus(role, status)
           \/ \E bps \in FeeChoices : ChangeVaultBpsFee(bps)
           \/ \E is_strip \in BOOLEAN, size \in MinOpChoices :
                 ChangeMinOperationSize(is_strip, size)
           \/ \E limits \in LimitChoices : ChangeClaimLimits(limits)
           \/ \E max \in SupplyChoices : ChangeMaxPySupply(max)
    PROVE  IInv'
  <1>1. /\ TypeOK /\ now \in Nat /\ vault \in VaultAccount
        /\ Len(vault.emissions) \in Nat
    BY TypeParts, VaultFields DEF IInv
  <1>2. /\ vault' \in VaultAccount /\ SameRates(vault, vault')
        /\ vault'.pt_supply = vault.pt_supply
        /\ vault'.total_sy_in_escrow = vault.total_sy_in_escrow
        /\ vault'.emissions = vault.emissions
        /\ UNCHANGED <<now, position, opened, tokens, syVars>>
    <2>1. CASE \E role \in {"pause_admin", "cold_admin"},
                  status \in StatusChoices : SetVaultStatus(role, status)
      <3>1. PICK status \in SUBSET Flags :
              /\ vault' = [vault EXCEPT !.status = status]
              /\ UNCHANGED <<now, position, opened, tokens, syVars>>
        BY <2>1, SettingsAssumption DEF SetVaultStatus
      <3> QED
        BY <1>1, <3>1 DEF VaultAccount, SameRates
    <2>2. CASE \E bps \in FeeChoices : ChangeVaultBpsFee(bps)
      <3>1. PICK bps \in Nat :
              /\ vault' = [vault EXCEPT !.interest_bps_fee = bps]
              /\ UNCHANGED <<now, position, opened, tokens, syVars>>
        BY <2>2, VaultAssumption DEF ChangeVaultBpsFee
      <3> QED
        BY <1>1, <3>1 DEF VaultAccount, SameRates
    <2>3. CASE \E is_strip \in BOOLEAN, size \in MinOpChoices :
                  ChangeMinOperationSize(is_strip, size)
      <3>1. PICK size \in Nat :
              /\ \/ vault' = [vault EXCEPT !.min_op_size_strip = size]
                 \/ vault' = [vault EXCEPT !.min_op_size_merge = size]
              /\ UNCHANGED <<now, position, opened, tokens, syVars>>
        <4>1. PICK is_strip \in BOOLEAN, size \in MinOpChoices :
                ChangeMinOperationSize(is_strip, size)
          BY <2>3
        <4>2. CASE is_strip
          BY <4>1, <4>2, VaultAssumption DEF ChangeMinOperationSize
        <4>3. CASE ~is_strip
          BY <4>1, <4>3, VaultAssumption DEF ChangeMinOperationSize
        <4> QED
          BY <4>2, <4>3
      <3>2. CASE vault' = [vault EXCEPT !.min_op_size_strip = size]
        BY <1>1, <3>1, <3>2 DEF VaultAccount, SameRates
      <3>3. CASE vault' = [vault EXCEPT !.min_op_size_merge = size]
        BY <1>1, <3>1, <3>3 DEF VaultAccount, SameRates
      <3> QED
        BY <3>1, <3>2, <3>3
    <2>4. CASE \E limits \in LimitChoices : ChangeClaimLimits(limits)
      <3>1. PICK limits \in ClaimLimits :
              /\ vault' = [vault EXCEPT !.claim_limits = limits]
              /\ UNCHANGED <<now, position, opened, tokens, syVars>>
        <4>1. PICK l \in LimitChoices : ChangeClaimLimits(l)
          BY <2>4
        <4>2. l.max \in Nat /\ l.duration \in Nat
          BY SettingsAssumption
        <4> DEFINE limits == [claim_window_start_timestamp  |-> now,
                              total_claim_amount_in_window  |-> 0,
                              max_claim_amount_per_window   |-> l.max,
                              claim_window_duration_seconds |-> l.duration]
        <4>3. limits \in ClaimLimits
          BY <1>1, <4>2 DEF ClaimLimits
        <4>4. /\ vault' = [vault EXCEPT !.claim_limits = limits]
              /\ UNCHANGED <<now, position, opened, tokens, syVars>>
          BY <4>1 DEF ChangeClaimLimits
        <4> HIDE DEF limits
        <4> QED
          BY <4>3, <4>4
      <3> QED
        BY <1>1, <3>1 DEF VaultAccount, SameRates
    <2>5. CASE \E max \in SupplyChoices : ChangeMaxPySupply(max)
      <3>1. PICK max \in Nat :
              /\ vault' = [vault EXCEPT !.max_py_supply = max]
              /\ UNCHANGED <<now, position, opened, tokens, syVars>>
        BY <2>5, VaultAssumption DEF ChangeMaxPySupply
      <3> QED
        BY <1>1, <3>1 DEF VaultAccount, SameRates
    <2> QED
      BY <2>1, <2>2, <2>3, <2>4, <2>5
  <1> QED
    BY <1>1, <1>2, SettingStep

LEMMA SyMovesInv ==
    ASSUME IInv, SyMoves
    PROVE  IInv'
  <1>1. /\ TypeOK /\ EscrowIsInCustody /\ RateOrder /\ UnopenedNeverEarned
        /\ RobotFits
        /\ now' = now /\ vault' = vault /\ position' = position
        /\ opened' = opened /\ tokens' = tokens
    BY DEF IInv, SyMoves
  <1>2. /\ sy \in [exchange_rate : Rates, emission_indexes : Seq(Nat)]
        /\ sy.emission_indexes \in Seq(Nat)
    BY <1>1 DEF TypeOK, SyTypeOK
  <1>3. /\ sy' \in [exchange_rate : Rates, emission_indexes : Seq(Nat)]
        /\ sy_position' = sy_position
    <2>1. CASE SetExchangeRate
      BY <1>2, <2>1 DEF SetExchangeRate
    <2>2. CASE SetEmissionIndex
      <3>1. PICK i \in DOMAIN sy.emission_indexes, index \in Indexes :
              /\ sy' = [sy EXCEPT !.emission_indexes[i] = index]
              /\ sy_position' = sy_position
        BY <2>2 DEF SetEmissionIndex
      <3> DEFINE is == [sy.emission_indexes EXCEPT ![i] = index]
      <3>2. is \in Seq(Nat)
        BY <1>2, SyAssumption
      <3>3. sy' = [sy EXCEPT !.emission_indexes = is]
        BY <1>2, <3>1
      <3> HIDE DEF is
      <3> QED
        BY <1>2, <3>1, <3>2, <3>3
    <2>3. CASE AddEmissionIndex
      <3>1. PICK initial \in FirstIndexes :
              /\ sy' = [sy EXCEPT !.emission_indexes = Append(@, initial)]
              /\ sy_position' = sy_position
        BY <2>3 DEF AddEmissionIndex
      <3> DEFINE is == Append(sy.emission_indexes, initial)
      <3>2. is \in Seq(Nat)
        BY <1>2, SyAssumption
      <3>3. sy' = [sy EXCEPT !.emission_indexes = is]
        BY <1>2, <3>1
      <3> HIDE DEF is
      <3> QED
        BY <1>2, <3>1, <3>2, <3>3
    <2> QED
      BY <2>1, <2>2, <2>3 DEF SyMoves, SyStep
  <1>4. /\ EscrowIsInCustody' /\ UnopenedNeverEarned' /\ RobotFits'
        /\ sy_position' \in SyAccount
    BY <1>1, <1>3 DEF EscrowIsInCustody, UnopenedNeverEarned, RobotFits,
                      TypeOK, SyTypeOK, SyAccount
  <1> QED
    BY <1>1, <1>3, <1>4, TypeParts, QuietStep DEF TypeOK, RateOrder, SameRates

LEMMA TickInv ==
    ASSUME IInv, Tick
    PROVE  IInv'
  <1>1. /\ TypeOK /\ EscrowIsInCustody /\ RateOrder /\ UnopenedNeverEarned
        /\ RobotFits
        /\ now' = now + 1 /\ vault' = vault /\ position' = position
        /\ opened' = opened /\ tokens' = tokens
        /\ sy' = sy /\ sy_position' = sy_position
    BY DEF IInv, Tick, syVars
  <1>2. now' \in Nat /\ now <= now'
    <2>1. now \in Nat
      BY <1>1, TypeParts
    <2>2. now' = now + 1
      BY <1>1
    <2> QED
      BY <2>1, <2>2
  <1>3. /\ EscrowIsInCustody' /\ UnopenedNeverEarned' /\ RobotFits'
        /\ sy_position' \in SyAccount
    BY <1>1 DEF EscrowIsInCustody, UnopenedNeverEarned, RobotFits,
                TypeOK, SyTypeOK, SyAccount
  <1> QED
    BY <1>1, <1>2, <1>3, QuietStep DEF TypeOK, SyTypeOK, RateOrder, SameRates

LEMMA StutterInv ==
    ASSUME IInv, UNCHANGED vars
    PROVE  IInv'
  BY DEF IInv, vars, syVars, TypeOK, SyTypeOK, EscrowIsInCustody, TokenLedger,
         TotalYt, RateOrder, RateTracking, IsExpired, UnopenedNeverEarned,
         RobotFits

-----------------------------------------------------------------------------
(* The invariant.                                                          *)

\* initialize_vault establishes the invariant.
LEMMA InitInv ==
    ASSUME Init
    PROVE  IInv
  <1>1. /\ now \in Nat /\ opened = {}
        /\ position = [h \in Holders |-> NewPosition]
        /\ tokens = [mint_pt |-> 0, yt_wallets |-> 0, escrow_yt |-> 0]
        /\ sy \in [exchange_rate : Rates, emission_indexes : {<<>>}]
        /\ sy_position = [sy_balance |-> 0, emissions |-> <<>>]
    BY VaultAssumption DEF Init, SyInit
  <1>2. NewPosition \in YieldTokenPosition
    BY DEF NewPosition, NewTracker, YieldTokenPosition, Tracker
  <1>3. /\ Robot \in Holders
        /\ \A h \in Holders : position[h] = NewPosition
    BY <1>1 DEF Holders
  <1>4. vault \in VaultAccount
    <2>1. PICK limits \in ClaimLimits :
            vault = [last_seen_sy_exchange_rate |-> 0,
                     all_time_high_sy_exchange_rate |-> 0,
                     final_sy_exchange_rate |-> 0,
                     total_sy_in_escrow |-> 0, sy_for_pt |-> 0,
                     pt_supply |-> 0,
                     treasury_sy |-> 0, uncollected_sy |-> 0,
                     interest_bps_fee |-> InitialFeeBps,
                     min_op_size_strip |-> InitialMinOp,
                     min_op_size_merge |-> InitialMinOp,
                     status |-> Flags, emissions |-> <<>>,
                     claim_emission |-> <<>>,
                     claim_limits |-> limits, max_py_supply |-> MaxU64]
      <3> DEFINE limits == [claim_window_start_timestamp |-> StartTs,
                            total_claim_amount_in_window |-> 0,
                            max_claim_amount_per_window |-> MaxU64,
                            claim_window_duration_seconds |-> Duration]
      <3>1. limits \in ClaimLimits
        BY VaultAssumption DEF ClaimLimits
      <3> QED
        BY <3>1 DEF Init
    <2> QED
      BY <2>1, VaultAssumption DEF VaultAccount
  <1>5. /\ vault.last_seen_sy_exchange_rate = 0
        /\ vault.all_time_high_sy_exchange_rate = 0
        /\ vault.final_sy_exchange_rate = 0
        /\ vault.total_sy_in_escrow = 0 /\ vault.pt_supply = 0
        /\ Len(vault.emissions) = 0
    BY DEF Init
  <1>6. TypeOK
    <2>1. position \in [Holders -> YieldTokenPosition]
      BY <1>1, <1>2
    <2>2. tokens \in [mint_pt : Nat, yt_wallets : Nat, escrow_yt : Nat]
      BY <1>1
    <2>3. sy \in [exchange_rate : Rates, emission_indexes : Seq(Nat)]
      <3>1. PICK rate \in Rates :
              sy = [exchange_rate |-> rate, emission_indexes |-> <<>>]
        BY <1>1
      <3> QED
        BY <3>1
    <2>4. sy_position \in [sy_balance : Nat, emissions : Seq(SyEmission)]
      BY <1>1
    <2> QED
      BY <1>1, <1>4, <2>1, <2>2, <2>3, <2>4 DEF TypeOK, SyTypeOK
  <1>7. EscrowIsInCustody
    BY <1>1, <1>5 DEF EscrowIsInCustody
  <1>8. TokenLedger
    BY <1>1, <1>3, <1>5 DEF TokenLedger, TotalYt, NewPosition
  <1>9. RateOrder
    BY <1>3, <1>5 DEF RateOrder, NewPosition, NewTracker
  <1>10. RateTracking
    BY <1>5 DEF RateTracking
  <1>11. UnopenedNeverEarned
    BY <1>3 DEF UnopenedNeverEarned, NewPosition, NewTracker, Holders
  <1>12. RobotFits
    BY <1>3, <1>5 DEF RobotFits, NewPosition
  <1> QED
    BY <1>6, <1>7, <1>8, <1>9, <1>10, <1>11, <1>12 DEF IInv

\* An instruction of a user preserves it.
LEMMA UserStepInv ==
    ASSUME IInv, UserStep
    PROVE  IInv'
  <1>1. CASE \E amount \in StripAmounts : Strip(amount)
    BY <1>1, StripInv, VaultAssumption
  <1>2. CASE \E py \in MergeAmounts : Merge(py)
    BY <1>2, MergeInv, VaultAssumption
  <1>3. ASSUME NEW user \in Users, InitializeYieldPosition(user)
        PROVE  IInv'
    BY <1>3, InitializeYieldPositionInv
  <1>4. ASSUME NEW user \in Users, NEW amount \in YtAmounts,
               DepositYt(user, amount)
        PROVE  IInv'
    BY <1>4, DepositYtInv, VaultAssumption
  <1>5. ASSUME NEW user \in Users, NEW amount \in YtAmounts,
               WithdrawYt(user, amount)
        PROVE  IInv'
    BY <1>5, WithdrawYtInv
  <1>6. ASSUME NEW user \in Users, StageYield(user)
        PROVE  IInv'
    BY <1>6, StageYieldInv
  <1>7. ASSUME NEW user \in Users, CollectInterest(user)
        PROVE  IInv'
    BY <1>7, CollectInterestInv
  <1>8. ASSUME NEW user \in Users, NEW i \in 1..MaxStreams,
               CollectEmission(user, i)
        PROVE  IInv'
    <2>1. user \in Holders
      BY DEF Holders
    <2>2. PICK amount \in Claimable(position[user].emissions[i].staged) :
            /\ ClaimFromSy(i, amount)
            /\ position' = [position EXCEPT
                   ![user].emissions[i] = DecStaged(@, amount)]
      BY <1>8 DEF CollectEmission
    <2>3. /\ i \in DOMAIN position[user].emissions
          /\ UNCHANGED <<now, vault, opened, tokens, sy>>
      BY <1>8 DEF CollectEmission
    <2> QED
      BY <2>1, <2>2, <2>3, CollectEmissionStep
  <1> QED
    BY <1>1, <1>2, <1>3, <1>4, <1>5, <1>6, <1>7, <1>8 DEF UserStep

\* So does an instruction of an administrator.
LEMMA AdminStepInv ==
    ASSUME IInv, AdminStep
    PROVE  IInv'
  <1>1. CASE \E bps \in EmissionFees : AddEmission(bps)
    BY <1>1, AddEmissionInv
  <1>2. ASSUME NEW i \in 1..MaxStreams, RemoveVaultEmission(i)
        PROVE  IInv'
    BY <1>2, RemoveVaultEmissionInv
  <1>3. ASSUME NEW i \in 1..MaxStreams, NEW bps \in FeeChoices,
               ChangeEmissionBpsFee(i, bps)
        PROVE  IInv'
    BY <1>3, ChangeEmissionBpsFeeInv
  <1>4. ASSUME NEW i \in 1..MaxStreams, CollectRobotEmission(i)
        PROVE  IInv'
    <2>1. Robot \in Holders
      BY DEF Holders
    <2>2. PICK amount \in Claimable(position[Robot].emissions[i].staged) :
            /\ ClaimFromSy(i, amount)
            /\ position' = [position EXCEPT
                   ![Robot].emissions[i] = DecStaged(@, amount)]
      BY <1>4 DEF CollectRobotEmission
    <2>3. /\ i \in DOMAIN position[Robot].emissions
          /\ UNCHANGED <<now, vault, opened, tokens, sy>>
      BY <1>4 DEF CollectRobotEmission
    <2> QED
      BY <2>1, <2>2, <2>3, CollectEmissionStep
  <1>5. ASSUME NEW i \in 1..MaxStreams, CollectTreasuryEmission(i)
        PROVE  IInv'
    BY <1>5, CollectTreasuryEmissionInv
  <1>6. CASE CollectRobotInterest
    BY <1>6, CollectRobotInterestInv
  <1>7. CASE CollectTreasuryInterest
    BY <1>7, CollectTreasuryInterestInv
  <1>8. CASE ChangeCpiAccounts
    BY <1>8, ChangeCpiAccountsInv
  <1> QED
    BY <1>1, <1>2, <1>3, <1>4, <1>5, <1>6, <1>7, <1>8, PlainSettingInv
    DEF AdminStep

-----------------------------------------------------------------------------
(* What the instructions that the wrappers call move, for whoever calls.   *)

\* strip gives as many YT as PT for the SY it takes into the escrow.
LEMMA StripMoves ==
    ASSUME IInv, NEW amount \in Nat, Strip(amount)
    PROVE  LET py == SyToPy(sy.exchange_rate, amount)
           IN  /\ py \in Nat
               /\ tokens'.mint_pt = tokens.mint_pt + py
               /\ tokens'.yt_wallets = tokens.yt_wallets + py
               /\ sy_position'.sy_balance = sy_position.sy_balance + amount
  <1> DEFINE py == SyToPy(sy.exchange_rate, amount)
  <1>1. /\ TypeOK /\ CanEarn(UpdatedVault)
        /\ tokens' = [tokens EXCEPT
              !.mint_pt = @ + SyToPy(UpdatedVault.last_seen_sy_exchange_rate, amount),
              !.yt_wallets = @ + SyToPy(UpdatedVault.last_seen_sy_exchange_rate, amount)]
        /\ DepositSy(amount)
    BY DEF IInv, Strip, CanUpdateYield
  <1>5. UpdatedVault.last_seen_sy_exchange_rate = sy.exchange_rate
    BY <1>1, UpdateFacts
  <1>2. py \in Nat
    BY <1>1, <1>5, UpdateFacts, VaultFields, SyToPyType
  <1>3. sy_position'.sy_balance = sy_position.sy_balance + amount
    BY <1>1, DepositSyFacts DEF TypeOK
  <1> HIDE DEF py
  <1>4. /\ tokens'.mint_pt = tokens.mint_pt + py
        /\ tokens'.yt_wallets = tokens.yt_wallets + py
    BY <1>1, <1>5 DEF TypeOK, py
  <1> QED
    BY <1>2, <1>3, <1>4 DEF py

\* merge burns the PT, and the YT that go with them, for SY of the escrow.
LEMMA MergeMoves ==
    ASSUME IInv, NEW py \in Nat, Merge(py)
    PROVE  /\ tokens'.mint_pt = tokens.mint_pt - py
           /\ tokens'.yt_wallets = tokens.yt_wallets - BurnedYt(py)
           /\ py <= tokens.mint_pt
           /\ BurnedYt(py) \in Nat /\ BurnedYt(py) <= tokens.yt_wallets
           /\ \E amount \in Nat :
                 /\ amount <= sy_position.sy_balance
                 /\ sy_position'.sy_balance = sy_position.sy_balance - amount
  <1> DEFINE amount == MergedSy(py, UpdatedVault)
  <1>1. /\ TypeOK /\ CanEarn(UpdatedVault)
        /\ tokens' = [tokens EXCEPT !.mint_pt = @ - py,
                                    !.yt_wallets = @ - BurnedYt(py)]
        /\ py <= tokens.mint_pt /\ BurnedYt(py) <= tokens.yt_wallets
        /\ py <= UpdatedVault.pt_supply
        /\ WithdrawSy(amount)
    BY DEF IInv, Merge, CanMerge, CanUpdateYield
  <1>2. amount \in Nat
    BY <1>1, UpdateFacts, VaultFields, RedeemPtType DEF MergedSy
  <1>3. BurnedYt(py) \in Nat
    BY DEF BurnedYt
  <1> HIDE DEF amount
  <1>4. /\ amount <= sy_position.sy_balance
        /\ sy_position'.sy_balance = sy_position.sy_balance - amount
    BY <1>1, <1>2, WithdrawSyFacts DEF TypeOK
  <1>5. /\ tokens'.mint_pt = tokens.mint_pt - py
        /\ tokens'.yt_wallets = tokens.yt_wallets - BurnedYt(py)
    BY <1>1 DEF TypeOK
  <1> QED
    BY <1>1, <1>2, <1>3, <1>4, <1>5

-----------------------------------------------------------------------------
(* The theorems.                                                          *)

\* The inductive invariant holds in every state the vault can reach.
THEOREM Invariance == Spec => []IInv
  <1>1. Init => IInv
    BY InitInv
  <1>2. IInv /\ [Next]_vars => IInv'
    <2> SUFFICES ASSUME IInv, [Next]_vars
                 PROVE  IInv'
      OBVIOUS
    <2>1. CASE UNCHANGED vars
      BY <2>1, StutterInv
    <2>2. CASE Tick
      BY <2>2, TickInv
    <2>3. CASE SyMoves
      BY <2>3, SyMovesInv
    <2>4. CASE UserStep
      BY <2>4, UserStepInv
    <2>5. CASE AdminStep
      BY <2>5, AdminStepInv
    <2> QED
      BY <2>1, <2>2, <2>3, <2>4, <2>5 DEF Next
  <1> QED
    BY <1>1, <1>2, PTL DEF Spec

-----------------------------------------------------------------------------
(* What the vault promises.                                                *)

\* The accounts keep their types through every instruction.
THEOREM TypeCorrect == Spec => []TypeOK
  <1>1. IInv => TypeOK
    BY DEF IInv
  <1> QED
    BY <1>1, Invariance, PTL

\* The SY that the vault accounts for is the SY that the SY program holds for
\* it: every deposit into the program and every withdrawal from it is matched
\* in total_sy_in_escrow.
THEOREM Custody == Spec => []EscrowIsInCustody
  <1>1. IInv => EscrowIsInCustody
    BY DEF IInv
  <1> QED
    BY <1>1, Invariance, PTL

\* The vault's PT supply is the mint's, the robot earns for the YT in wallets,
\* and there is a YT for every PT: no PT is stranded before maturity for want
\* of YT to merge it with.
THEOREM Ledger == Spec => []TokenLedger
  <1>1. IInv => TokenLedger
    BY DEF IInv
  <1> QED
    BY <1>1, Invariance, PTL

\* No rate that the vault or a position keeps exceeds the all-time high.
THEOREM Order == Spec => []RateOrder
  <1>1. IInv => RateOrder
    BY DEF IInv
  <1> QED
    BY <1>1, Invariance, PTL

=============================================================================
