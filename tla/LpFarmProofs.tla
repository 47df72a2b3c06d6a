---------------------------- MODULE LpFarmProofs ----------------------------
(***************************************************************************)
(* Theorems about LpFarm for every set of owners and farms, every amount   *)
(* and every number of streams.  The inductive invariant orders the        *)
(* indexes that positions have seen below those of the market; what a      *)
(* stake is due then never changes but by a payment.                       *)
(***************************************************************************)
EXTENDS LpFarmProperties, YieldMathProofs

-----------------------------------------------------------------------------
(* What the operators of LpFarm return.                                    *)

\* A function on 1..n is a sequence of length n.
LEMMA SeqOfFunction ==
    ASSUME NEW S, NEW n \in Nat, NEW f \in [1..n -> S]
    PROVE  f \in Seq(S) /\ Len(f) = n /\ DOMAIN f = 1..n
  BY SMT

LEMMA FromRatioType ==
    ASSUME NEW num \in Nat, NEW den \in Nat
    PROVE  FromRatio(num, den) \in Nat
  BY NaturalType, DivType DEF FromRatio

LEMMA DeltaTimeType ==
    ASSUME NEW expiry \in Nat, NEW last_seen \in Nat, NEW current \in Nat
    PROVE  DeltaTimeFarm(expiry, last_seen, current) \in Nat
  BY SMT DEF DeltaTimeFarm, Smaller

\* Without a change of the index nothing is earned.
LEMMA NothingEarned ==
    ASSUME NEW tracker \in Tracker, NEW balance \in Nat
    PROVE  Earned(tracker, tracker.last_seen_index, balance) = tracker.staged
  <1>1. tracker.last_seen_index \in Nat /\ tracker.staged \in Nat
    BY DEF Tracker
  <1>2. FromNatural(balance) \in Nat
    BY NaturalType
  <1>3. NumMul(0, FromNatural(balance)) = 0
    <2>1. 0 * FromNatural(balance) = 0
      BY <1>2, SMT
    <2>2. RoundingCorrection \div ONE = 0
      BY CorrectionType, OneAssumption, DivBelow, DivFacts, SMT
    <2> QED
      BY <2>1, <2>2, CorrectionType, SMT DEF NumMul
  <1>4. Floor(0) = 0
    BY OneAssumption, SMT DEF Floor
  <1> QED
    BY <1>1, <1>3, <1>4, SMT DEF Earned

LEMMA EarnedType ==
    ASSUME NEW tracker \in Tracker, NEW index \in Nat, NEW balance \in Nat,
           tracker.last_seen_index <= index
    PROVE  Earned(tracker, index, balance) \in Nat
  <1>1. index - tracker.last_seen_index \in Nat /\ tracker.staged \in Nat
    BY DEF Tracker
  <1>2. Floor(NumMul(index - tracker.last_seen_index, FromNatural(balance)))
          \in Nat
    BY <1>1, NaturalType, MulType, FloorType
  <1> QED
    BY <1>1, <1>2, SMT DEF Earned

LEMMA NewTrackerType ==
    NewTracker \in Tracker /\ NewTracker.last_seen_index = 0
  BY DEF NewTracker, Tracker

\* Staging marks every index as seen and stages what was due.
LEMMA EarnAllFacts ==
    ASSUME NEW trackers \in Seq(Tracker), NEW indexes \in Seq(Nat),
           NEW balance \in Nat, CanEarnAll(trackers, indexes)
    PROVE  LET r == EnsureTrackersAndEarnAll(trackers, indexes, balance)
           IN  /\ r \in Seq(Tracker)
               /\ Len(r) = Larger(Len(trackers), Len(indexes))
               /\ \A i \in DOMAIN indexes :
                    /\ i \in DOMAIN r
                    /\ r[i].last_seen_index = indexes[i]
                    /\ r[i].staged = Due(trackers, i, indexes[i], balance)
  <1> DEFINE n == Larger(Len(trackers), Len(indexes))
             e == EnsureTrackers(trackers, indexes)
             r == EnsureTrackersAndEarnAll(trackers, indexes, balance)
  <1>1. /\ n \in Nat
        /\ DOMAIN trackers \subseteq 1..n
        /\ DOMAIN indexes \subseteq 1..n
    BY SMT DEF Larger
  <1>2. e \in [1..n -> Tracker]
    <2>1. \A i \in DOMAIN trackers : trackers[i] \in Tracker
      OBVIOUS
    <2> QED
      BY <2>1, NewTrackerType DEF EnsureTrackers
  <1>3. DOMAIN e = 1..n
    BY DEF EnsureTrackers
  <1>4. \A i \in DOMAIN indexes :
            /\ indexes[i] \in Nat
            /\ e[i] \in Tracker
            /\ e[i].last_seen_index <= indexes[i]
            /\ Earned(e[i], indexes[i], balance)
                 = Due(trackers, i, indexes[i], balance)
    <2> TAKE i \in DOMAIN indexes
    <2>1. indexes[i] \in Nat
      OBVIOUS
    <2>2. e[i] \in Tracker
      BY <1>1, <1>2
    <2>3. e[i] = IF i \in DOMAIN trackers THEN trackers[i] ELSE NewTracker
      BY <1>1 DEF EnsureTrackers
    <2> HIDE DEF e
    <2>4. CASE i \in DOMAIN trackers
      BY <2>1, <2>2, <2>3, <2>4 DEF CanEarnAll, Due
    <2>5. CASE i \notin DOMAIN trackers
      <3>1. e[i] = NewTracker
        BY <2>3, <2>5
      <3>2. NewTracker.last_seen_index <= indexes[i]
        BY <2>1, NewTrackerType, SMT
      <3> QED
        BY <2>1, <2>2, <2>5, <3>1, <3>2 DEF Due
    <2> QED
      BY <2>4, <2>5
  <1>5. r = [i \in 1..n |->
                IF i \notin DOMAIN indexes THEN e[i]
                ELSE [last_seen_index |-> indexes[i],
                      staged |-> Earned(e[i], indexes[i], balance)]]
    BY <1>3 DEF EnsureTrackersAndEarnAll
  <1> HIDE DEF e, r
  <1>6. r \in [1..n -> Tracker]
    <2>1. ASSUME NEW i \in 1..n
          PROVE  (IF i \notin DOMAIN indexes THEN e[i]
                  ELSE [last_seen_index |-> indexes[i],
                        staged |-> Earned(e[i], indexes[i], balance)]) \in Tracker
      <3>1. CASE i \notin DOMAIN indexes
        BY <1>2, <3>1
      <3>2. CASE i \in DOMAIN indexes
        <4>1. Earned(e[i], indexes[i], balance) \in Nat
          BY <1>4, <3>2, EarnedType
        <4> QED
          BY <1>4, <3>2, <4>1 DEF Tracker
      <3> QED
        BY <3>1, <3>2
    <2> QED
      BY <1>5, <2>1
  <1>7. \A i \in DOMAIN indexes :
            r[i] = [last_seen_index |-> indexes[i],
                    staged |-> Earned(e[i], indexes[i], balance)]
    BY <1>1, <1>5
  <1>8. r \in Seq(Tracker) /\ Len(r) = n /\ DOMAIN r = 1..n
    <2> HIDE DEF n
    <2> QED
      BY <1>1, <1>6, SeqOfFunction
  <1>9. \A i \in DOMAIN indexes :
            /\ i \in DOMAIN r
            /\ r[i].last_seen_index = indexes[i]
            /\ r[i].staged = Due(trackers, i, indexes[i], balance)
    <2> TAKE i \in DOMAIN indexes
    <2>1. i \in DOMAIN r
      BY <1>1, <1>8
    <2>2. r[i] = [last_seen_index |-> indexes[i],
                  staged |-> Due(trackers, i, indexes[i], balance)]
      BY <1>4, <1>7
    <2> QED
      BY <2>1, <2>2
  <1> QED
    BY <1>8, <1>9 DEF r

-----------------------------------------------------------------------------
(* Settling the market.                                                    *)

\* n lists what m lists, in the same order, with indexes that are no smaller.
Settled(m, n) ==
    /\ n \in Market
    /\ n.lp_escrow_amount = m.lp_escrow_amount
    /\ n.claim_emission = m.claim_emission
    /\ Len(n.emissions) = Len(m.emissions)
    /\ Len(n.lp_farm.farm_emissions) = Len(m.lp_farm.farm_emissions)
    /\ \A i \in DOMAIN m.emissions :
            /\ n.emissions[i].token_escrow = m.emissions[i].token_escrow
            /\ m.emissions[i].lp_share_index <= n.emissions[i].lp_share_index
    /\ \A i \in DOMAIN m.lp_farm.farm_emissions :
            m.lp_farm.farm_emissions[i].index <= n.lp_farm.farm_emissions[i].index

LEMMA SeenEmissionFacts ==
    ASSUME NEW e \in MarketEmission, NEW claimable \in Nat, NEW staked \in Nat,
           e.last_seen_staged <= claimable
    PROVE  LET seen == SeenEmission(e, claimable, staked)
           IN  /\ seen \in MarketEmission
               /\ seen.token_escrow = e.token_escrow
               /\ e.lp_share_index <= seen.lp_share_index
               /\ seen.last_seen_staged = claimable
  <1> DEFINE inc == FromRatio(claimable - e.last_seen_staged, staked)
  <1>1. e.last_seen_staged \in Nat /\ e.lp_share_index \in Nat
    BY DEF MarketEmission
  <1>2. claimable - e.last_seen_staged \in Nat
    BY <1>1, SMT
  <1>3. inc \in Nat
    BY <1>2, FromRatioType
  <1> DEFINE seen == SeenEmission(e, claimable, staked)
             index == e.lp_share_index + inc
  <1>4. seen = [e EXCEPT !.lp_share_index = index,
                         !.last_seen_staged = claimable]
    BY DEF SeenEmission
  <1> HIDE DEF inc
  <1>5. index \in Nat /\ e.lp_share_index <= index
    BY <1>1, <1>3, SMT
  <1> HIDE DEF seen, index
  <1>6. /\ seen \in MarketEmission
        /\ seen.token_escrow = e.token_escrow
        /\ seen.lp_share_index = index
        /\ seen.last_seen_staged = claimable
    BY <1>4, <1>5 DEF MarketEmission
  <1> QED
    BY <1>5, <1>6 DEF seen

LEMMA IncIndexFacts ==
    ASSUME NEW farm \in FarmEmission, NEW delta \in Nat, NEW staked \in Nat
    PROVE  /\ IncIndex(farm, delta, staked) \in FarmEmission
           /\ farm.index <= IncIndex(farm, delta, staked).index
  <1> DEFINE inc == FromRatio(farm.token_rate * delta, staked)
             index == farm.index + inc
  <1>1. farm.token_rate \in Nat /\ farm.index \in Nat
    BY DEF FarmEmission
  <1>2. farm.token_rate * delta \in Nat
    BY <1>1, SMT
  <1>3. inc \in Nat
    BY <1>2, FromRatioType
  <1>4. IncIndex(farm, delta, staked) = [farm EXCEPT !.index = index]
    BY DEF IncIndex
  <1> HIDE DEF inc
  <1>5. index \in Nat /\ farm.index <= index
    BY <1>1, <1>3, SMT
  <1> HIDE DEF index
  <1> QED
    BY <1>4, <1>5 DEF FarmEmission

LEMMA UpdateEmissionsFacts ==
    ASSUME NEW m \in Market, sy_emissions \in Seq(Nat), CanUpdateEmissions(m)
    PROVE  LET n == UpdateEmissionsFromPositionState(m)
           IN  /\ Settled(m, n)
               /\ n.lp_farm = m.lp_farm
               /\ \A i \in DOMAIN m.emissions :
                    n.emissions[i].last_seen_staged =
                        IF i \in DOMAIN sy_emissions THEN sy_emissions[i]
                        ELSE m.emissions[i].last_seen_staged
  <1> DEFINE n == UpdateEmissionsFromPositionState(m)
             old == m.emissions
             staked == m.lp_escrow_amount
             new == [i \in DOMAIN old |->
                        IF i \in DOMAIN sy_emissions
                        THEN SeenEmission(old[i], sy_emissions[i], staked)
                        ELSE old[i]]
  <1>1. old \in Seq(MarketEmission) /\ staked \in Nat /\ Len(old) \in Nat
        /\ DOMAIN old = 1..Len(old)
    BY DEF Market
  <1>2. n = [m EXCEPT !.emissions = new]
    BY DEF UpdateEmissionsFromPositionState
  <1>3. ASSUME NEW i \in DOMAIN old
        PROVE  /\ new[i] \in MarketEmission
               /\ new[i].token_escrow = old[i].token_escrow
               /\ old[i].lp_share_index <= new[i].lp_share_index
               /\ new[i].last_seen_staged =
                    IF i \in DOMAIN sy_emissions THEN sy_emissions[i]
                    ELSE old[i].last_seen_staged
    <2>1. old[i] \in MarketEmission
      BY <1>1
    <2>2. CASE i \notin DOMAIN sy_emissions
      <3>1. new[i] = old[i]
        BY <2>2
      <3>2. old[i].lp_share_index \in Nat
        BY <2>1 DEF MarketEmission
      <3> HIDE DEF new, old
      <3> QED
        BY <2>1, <2>2, <3>1, <3>2, SMT
    <2>3. CASE i \in DOMAIN sy_emissions
      <3>1. /\ sy_emissions[i] \in Nat
            /\ old[i].last_seen_staged <= sy_emissions[i]
        BY <2>3 DEF CanUpdateEmissions
      <3>2. new[i] = SeenEmission(old[i], sy_emissions[i], staked)
        BY <2>3
      <3> HIDE DEF new, old, staked
      <3> QED
        BY <1>1, <2>1, <2>3, <3>1, <3>2, SeenEmissionFacts
    <2> QED
      BY <2>2, <2>3
  <1>4. new \in Seq(MarketEmission) /\ Len(new) = Len(old)
    <2>1. new \in [1..Len(old) -> MarketEmission]
      BY <1>1, <1>3
    <2> HIDE DEF new, old
    <2> QED
      BY <1>1, <2>1, SeqOfFunction
  <1> HIDE DEF new, n
  <1>5. n \in Market /\ n.emissions = new /\ n.lp_farm = m.lp_farm
        /\ n.lp_escrow_amount = staked /\ n.claim_emission = m.claim_emission
    BY <1>2, <1>4 DEF Market
  <1>6. \A i \in DOMAIN m.lp_farm.farm_emissions :
            m.lp_farm.farm_emissions[i].index <= m.lp_farm.farm_emissions[i].index
    <2>1. m.lp_farm.farm_emissions \in Seq(FarmEmission)
      BY DEF Market, LpFarmAccount
    <2> TAKE i \in DOMAIN m.lp_farm.farm_emissions
    <2>2. m.lp_farm.farm_emissions[i] \in FarmEmission
      BY <2>1
    <2>3. m.lp_farm.farm_emissions[i].index \in Nat
      BY <2>2 DEF FarmEmission
    <2> QED
      BY <2>3, SMT
  <1>7. Settled(m, n)
    BY <1>3, <1>4, <1>5, <1>6 DEF Settled
  <1> QED
    BY <1>3, <1>5, <1>7 DEF n

LEMMA IncreaseFacts ==
    ASSUME NEW m \in Market, now \in Nat
    PROVE  LET n == IncreaseShareIndexes(m)
           IN  Settled(m, n) /\ n.emissions = m.emissions
  <1> DEFINE n == IncreaseShareIndexes(m)
             old == m.lp_farm.farm_emissions
             seen == m.lp_farm.last_seen_timestamp
             staked == m.lp_escrow_amount
             delta(i) == DeltaTimeFarm(old[i].expiry_timestamp, seen, now)
             new == [i \in DOMAIN old |-> IncIndex(old[i], delta(i), staked)]
  <1>1. /\ m.lp_farm \in LpFarmAccount
        /\ old \in Seq(FarmEmission) /\ seen \in Nat /\ staked \in Nat
        /\ Len(old) \in Nat /\ DOMAIN old = 1..Len(old)
    BY DEF Market, LpFarmAccount
  <1>2. n = [m EXCEPT !.lp_farm = [last_seen_timestamp |-> now,
                                   farm_emissions |-> new]]
    BY DEF IncreaseShareIndexes
  <1>3. ASSUME NEW i \in DOMAIN old
        PROVE  /\ new[i] \in FarmEmission
               /\ old[i].index <= new[i].index
    <2>1. old[i] \in FarmEmission
      BY <1>1
    <2>2. old[i].expiry_timestamp \in Nat
      BY <2>1 DEF FarmEmission
    <2>4. delta(i) \in Nat
      BY <1>1, <2>2, DeltaTimeType
    <2>3. new[i] = IncIndex(old[i], delta(i), staked)
      OBVIOUS
    <2> HIDE DEF delta, new, old, staked
    <2> QED
      BY <1>1, <2>1, <2>3, <2>4, IncIndexFacts
  <1>4. new \in Seq(FarmEmission) /\ Len(new) = Len(old)
    <2>1. new \in [1..Len(old) -> FarmEmission]
      BY <1>1, <1>3
    <2> HIDE DEF new, old
    <2> QED
      BY <1>1, <2>1, SeqOfFunction
  <1> HIDE DEF new, n
  <1>5. /\ n \in Market /\ n.emissions = m.emissions
        /\ n.lp_farm.farm_emissions = new
        /\ n.lp_escrow_amount = staked /\ n.claim_emission = m.claim_emission
    BY <1>1, <1>2, <1>4 DEF Market, LpFarmAccount
  <1>6. \A i \in DOMAIN m.emissions :
            m.emissions[i].lp_share_index <= m.emissions[i].lp_share_index
    <2>1. m.emissions \in Seq(MarketEmission)
      BY DEF Market
    <2> TAKE i \in DOMAIN m.emissions
    <2>2. m.emissions[i] \in MarketEmission
      BY <2>1
    <2>3. m.emissions[i].lp_share_index \in Nat
      BY <2>2 DEF MarketEmission
    <2> QED
      BY <2>3, SMT
  <1>7. Settled(m, n)
    BY <1>3, <1>4, <1>5, <1>6 DEF Settled
  <1> QED
    BY <1>5, <1>7 DEF n

LEMMA SettleFacts ==
    ASSUME NEW m \in Market, now \in Nat, sy_emissions \in Seq(Nat),
           CanUpdateEmissions(m)
    PROVE  /\ Settled(m, Settle(m))
           /\ \A i \in DOMAIN m.emissions :
                Settle(m).emissions[i].last_seen_staged =
                    IF i \in DOMAIN sy_emissions THEN sy_emissions[i]
                    ELSE m.emissions[i].last_seen_staged
  <1> DEFINE u == UpdateEmissionsFromPositionState(m)
  <1>1. /\ Settled(m, u) /\ u.lp_farm = m.lp_farm
        /\ \A i \in DOMAIN m.emissions :
                u.emissions[i].last_seen_staged =
                    IF i \in DOMAIN sy_emissions THEN sy_emissions[i]
                    ELSE m.emissions[i].last_seen_staged
    BY UpdateEmissionsFacts
  <1>2. u \in Market
    BY <1>1 DEF Settled
  <1> DEFINE n == IncreaseShareIndexes(u)
  <1>3. Settle(m) = n
    BY DEF Settle
  <1>4. Settled(u, n) /\ n.emissions = u.emissions
    BY <1>2, IncreaseFacts
  <1> HIDE DEF u, n
  <1>5. Settled(m, n)
    BY <1>1, <1>4 DEF Settled
  <1> QED
    BY <1>1, <1>3, <1>4, <1>5

-----------------------------------------------------------------------------
(* Staging a position.                                                     *)

LEMMA IndexesType ==
    ASSUME NEW m \in Market
    PROVE  /\ EmissionIndexes(m) \in Seq(Nat)
           /\ Len(EmissionIndexes(m)) = Len(m.emissions)
           /\ FarmIndexes(m) \in Seq(Nat)
           /\ Len(FarmIndexes(m)) = Len(m.lp_farm.farm_emissions)
  <1>1. /\ m.emissions \in Seq(MarketEmission)
        /\ m.lp_farm.farm_emissions \in Seq(FarmEmission)
    BY DEF Market, LpFarmAccount
  <1> DEFINE e == m.emissions
             f == m.lp_farm.farm_emissions
  <1>2. EmissionIndexes(m) = [i \in 1..Len(e) |-> e[i].lp_share_index]
    BY <1>1 DEF EmissionIndexes
  <1>3. FarmIndexes(m) = [i \in 1..Len(f) |-> f[i].index]
    BY <1>1 DEF FarmIndexes
  <1>4. \A i \in 1..Len(e) : e[i].lp_share_index \in Nat
    <2> TAKE i \in 1..Len(e)
    <2>1. e[i] \in MarketEmission
      BY <1>1
    <2> QED
      BY <2>1 DEF MarketEmission
  <1>5. \A i \in 1..Len(f) : f[i].index \in Nat
    <2> TAKE i \in 1..Len(f)
    <2>1. f[i] \in FarmEmission
      BY <1>1
    <2> QED
      BY <2>1 DEF FarmEmission
  <1>6. Len(e) \in Nat /\ Len(f) \in Nat
    BY <1>1
  <1> HIDE DEF e, f
  <1>7. EmissionIndexes(m) \in [1..Len(e) -> Nat] /\ FarmIndexes(m) \in [1..Len(f) -> Nat]
    BY <1>2, <1>3, <1>4, <1>5
  <1> QED
    BY <1>6, <1>7, SeqOfFunction DEF e, f

\* Indexes that are no smaller can be earned too.
LEMMA CanEarnLater ==
    ASSUME NEW trackers \in Seq(Tracker), NEW a \in Seq(Nat), NEW b \in Seq(Nat),
           CanEarnAll(trackers, a), Len(trackers) <= Len(a), Len(a) <= Len(b),
           \A i \in DOMAIN a : a[i] <= b[i]
    PROVE  CanEarnAll(trackers, b)
  <1> SUFFICES ASSUME NEW i \in DOMAIN trackers \cap DOMAIN b
               PROVE  trackers[i].last_seen_index <= b[i]
    BY DEF CanEarnAll
  <1>1. i \in DOMAIN a
    BY SMT
  <1>2. trackers[i].last_seen_index <= a[i] /\ a[i] <= b[i]
    BY <1>1 DEF CanEarnAll
  <1>3. trackers[i] \in Tracker /\ a[i] \in Nat /\ b[i] \in Nat
    BY <1>1
  <1>4. trackers[i].last_seen_index \in Nat
    BY <1>3 DEF Tracker
  <1>5. \A k, l, n \in Nat : k <= l /\ l <= n => k <= n
    OBVIOUS
  <1> QED
    BY <1>2, <1>3, <1>4, <1>5, Zenon

\* A position after staging, whatever becomes of its balance: nothing that is
\* due of it has changed, and it can be staged again.
LEMMA StageAllFacts ==
    ASSUME NEW p \in LpPosition, NEW m \in Market, CanStageAll(p, m),
           NEW balance \in Nat
    PROVE  LET q == [StageAll(p, m) EXCEPT !.lp_balance = balance]
               e == EmissionIndexes(m)
               f == FarmIndexes(m)
           IN  /\ q \in LpPosition
               /\ q.lp_balance = balance
               /\ Len(q.emissions) = Larger(Len(p.emissions), Len(m.emissions))
               /\ Len(q.farms) = Larger(Len(p.farms),
                                        Len(m.lp_farm.farm_emissions))
               /\ CanEarnAll(q.emissions, e)
               /\ CanEarnAll(q.farms, f)
               /\ Undisturbed(p.emissions, p.lp_balance, q.emissions, balance, e)
               /\ Undisturbed(p.farms, p.lp_balance, q.farms, balance, f)
  <1> DEFINE q == [StageAll(p, m) EXCEPT !.lp_balance = balance]
             e == EmissionIndexes(m)
             f == FarmIndexes(m)
             qe == EnsureTrackersAndEarnAll(p.emissions, e, p.lp_balance)
             qf == EnsureTrackersAndEarnAll(p.farms, f, p.lp_balance)
  <1>1. /\ p.emissions \in Seq(Tracker) /\ p.farms \in Seq(Tracker)
        /\ p.lp_balance \in Nat
    BY DEF LpPosition
  <1>2. /\ e \in Seq(Nat) /\ Len(e) = Len(m.emissions)
        /\ f \in Seq(Nat) /\ Len(f) = Len(m.lp_farm.farm_emissions)
    BY IndexesType
  <1>3. CanEarnAll(p.emissions, e) /\ CanEarnAll(p.farms, f)
    BY DEF CanStageAll
  <1>4. q = [p EXCEPT !.emissions = qe, !.farms = qf, !.lp_balance = balance]
    BY <1>1 DEF StageAll, LpPosition
  <1> HIDE DEF e, f
  <1>5. ASSUME NEW trackers \in Seq(Tracker), NEW indexes \in Seq(Nat),
               CanEarnAll(trackers, indexes)
        PROVE  LET r == EnsureTrackersAndEarnAll(trackers, indexes, p.lp_balance)
               IN  /\ r \in Seq(Tracker)
                   /\ Len(r) = Larger(Len(trackers), Len(indexes))
                   /\ CanEarnAll(r, indexes)
                   /\ Undisturbed(trackers, p.lp_balance, r, balance, indexes)
    <2> DEFINE r == EnsureTrackersAndEarnAll(trackers, indexes, p.lp_balance)
    <2>1. /\ r \in Seq(Tracker)
          /\ Len(r) = Larger(Len(trackers), Len(indexes))
          /\ \A i \in DOMAIN indexes :
                /\ i \in DOMAIN r
                /\ r[i].last_seen_index = indexes[i]
                /\ r[i].staged = Due(trackers, i, indexes[i], p.lp_balance)
      BY <1>1, <1>5, EarnAllFacts
    <2> HIDE DEF r
    <2>2. CanEarnAll(r, indexes)
      <3> SUFFICES ASSUME NEW i \in DOMAIN r \cap DOMAIN indexes
                   PROVE  r[i].last_seen_index <= indexes[i]
        BY DEF CanEarnAll
      <3>1. r[i].last_seen_index = indexes[i] /\ indexes[i] \in Nat
        BY <2>1
      <3> QED
        BY <3>1, SMT
    <2>3. Undisturbed(trackers, p.lp_balance, r, balance, indexes)
      <3> SUFFICES ASSUME NEW i \in DOMAIN indexes
                   PROVE  Due(r, i, indexes[i], balance)
                            = Due(trackers, i, indexes[i], p.lp_balance)
        BY DEF Undisturbed
      <3>1. /\ i \in DOMAIN r /\ r[i] \in Tracker
            /\ r[i].last_seen_index = indexes[i]
            /\ r[i].staged = Due(trackers, i, indexes[i], p.lp_balance)
        BY <2>1
      <3>2. Earned(r[i], indexes[i], balance) = r[i].staged
        BY <3>1, NothingEarned
      <3> QED
        BY <3>1, <3>2 DEF Due
    <2> QED
      BY <2>1, <2>2, <2>3 DEF r
  <1>6. /\ qe \in Seq(Tracker)
        /\ Len(qe) = Larger(Len(p.emissions), Len(e))
        /\ CanEarnAll(qe, e)
        /\ Undisturbed(p.emissions, p.lp_balance, qe, balance, e)
    BY <1>1, <1>2, <1>3, <1>5
  <1>7. /\ qf \in Seq(Tracker)
        /\ Len(qf) = Larger(Len(p.farms), Len(f))
        /\ CanEarnAll(qf, f)
        /\ Undisturbed(p.farms, p.lp_balance, qf, balance, f)
    BY <1>1, <1>2, <1>3, <1>5
  <1> HIDE DEF q, qe, qf
  <1>8. /\ q \in LpPosition /\ q.lp_balance = balance
        /\ q.emissions = qe /\ q.farms = qf
    BY <1>4, <1>6, <1>7 DEF LpPosition
  <1> QED
    BY <1>2, <1>6, <1>7, <1>8 DEF q, e, f

-----------------------------------------------------------------------------
(* The steps.                                                              *)

\* A market with more to earn leaves a position behind it.
LEMMA FarmsBehindLater ==
    ASSUME NEW p \in LpPosition, NEW m \in Market, NEW n \in Market,
           FarmsBehind(p, m),
           Len(m.lp_farm.farm_emissions) <= Len(n.lp_farm.farm_emissions),
           \A i \in DOMAIN m.lp_farm.farm_emissions :
              m.lp_farm.farm_emissions[i].index <= n.lp_farm.farm_emissions[i].index
    PROVE  FarmsBehind(p, n)
  <1>1. /\ FarmIndexes(m) \in Seq(Nat) /\ FarmIndexes(n) \in Seq(Nat)
        /\ Len(FarmIndexes(m)) = Len(m.lp_farm.farm_emissions)
        /\ Len(FarmIndexes(n)) = Len(n.lp_farm.farm_emissions)
    BY IndexesType
  <1>2. /\ p.farms \in Seq(Tracker) /\ Len(p.farms) \in Nat
        /\ Len(m.lp_farm.farm_emissions) \in Nat
        /\ Len(n.lp_farm.farm_emissions) \in Nat
    BY DEF LpPosition, Market, LpFarmAccount
  <1>3. \A i \in DOMAIN FarmIndexes(m) : FarmIndexes(m)[i] <= FarmIndexes(n)[i]
    <2>1. /\ DOMAIN m.lp_farm.farm_emissions = 1..Len(m.lp_farm.farm_emissions)
          /\ DOMAIN n.lp_farm.farm_emissions = 1..Len(n.lp_farm.farm_emissions)
      BY DEF Market, LpFarmAccount
    <2>2. DOMAIN m.lp_farm.farm_emissions \subseteq DOMAIN n.lp_farm.farm_emissions
      BY <1>2, <2>1, SMT
    <2> QED
      BY <2>2 DEF FarmIndexes
  <1>4. CanEarnAll(p.farms, FarmIndexes(m)) /\ Len(p.farms) <= Len(m.lp_farm.farm_emissions)
    BY DEF FarmsBehind
  <1>5. CanEarnAll(p.farms, FarmIndexes(n))
    BY <1>1, <1>2, <1>3, <1>4, CanEarnLater
  <1>6. Len(p.farms) <= Len(n.lp_farm.farm_emissions)
    BY <1>2, <1>4, SMT
  <1> QED
    BY <1>5, <1>6 DEF FarmsBehind

LEMMA EmissionsBehindLater ==
    ASSUME NEW p \in LpPosition, NEW m \in Market, NEW n \in Market,
           EmissionsBehind(p, m), Len(m.emissions) <= Len(n.emissions),
           \A i \in DOMAIN m.emissions :
              m.emissions[i].lp_share_index <= n.emissions[i].lp_share_index
    PROVE  EmissionsBehind(p, n)
  <1>1. /\ EmissionIndexes(m) \in Seq(Nat) /\ EmissionIndexes(n) \in Seq(Nat)
        /\ Len(EmissionIndexes(m)) = Len(m.emissions)
        /\ Len(EmissionIndexes(n)) = Len(n.emissions)
    BY IndexesType
  <1>2. /\ p.emissions \in Seq(Tracker) /\ Len(p.emissions) \in Nat
        /\ Len(m.emissions) \in Nat /\ Len(n.emissions) \in Nat
    BY DEF LpPosition, Market
  <1>3. \A i \in DOMAIN EmissionIndexes(m) :
            EmissionIndexes(m)[i] <= EmissionIndexes(n)[i]
    <2>1. /\ DOMAIN m.emissions = 1..Len(m.emissions)
          /\ DOMAIN n.emissions = 1..Len(n.emissions)
      BY DEF Market
    <2>2. DOMAIN m.emissions \subseteq DOMAIN n.emissions
      BY <1>2, <2>1, SMT
    <2> QED
      BY <2>2 DEF EmissionIndexes
  <1>4. CanEarnAll(p.emissions, EmissionIndexes(m)) /\ Len(p.emissions) <= Len(m.emissions)
    BY DEF EmissionsBehind
  <1>5. CanEarnAll(p.emissions, EmissionIndexes(n))
    BY <1>1, <1>2, <1>3, <1>4, CanEarnLater
  <1>6. Len(p.emissions) <= Len(n.emissions)
    BY <1>2, <1>4, SMT
  <1> QED
    BY <1>5, <1>6 DEF EmissionsBehind

\* What does not touch the positions disturbs none.
LEMMA PositionsUntouched ==
    ASSUME UNCHANGED lp_position
    PROVE  NeutralStep
  BY DEF NeutralStep, Undisturbed

\* Settling the market leaves every position behind it.
LEMMA BehindSettled ==
    ASSUME LpInv, NEW n \in Market, Settled(market, n)
    PROVE  \A owner \in Owners :
                /\ FarmsBehind(lp_position[owner], n)
                /\ ~MayRemoveMarketEmission =>
                        EmissionsBehind(lp_position[owner], n)
  <1> TAKE owner \in Owners
  <1>1. /\ lp_position[owner] \in LpPosition /\ market \in Market
        /\ FarmsBehind(lp_position[owner], market)
        /\ ~MayRemoveMarketEmission => EmissionsBehind(lp_position[owner], market)
    BY DEF LpInv, LpTypeOK
  <1>2. /\ Len(market.emissions) \in Nat
        /\ Len(market.lp_farm.farm_emissions) \in Nat
    BY <1>1 DEF Market, LpFarmAccount
  <1>3. /\ Len(market.emissions) <= Len(n.emissions)
        /\ Len(market.lp_farm.farm_emissions) <= Len(n.lp_farm.farm_emissions)
    BY <1>2, SMT DEF Settled
  <1> QED
    BY <1>1, <1>3, FarmsBehindLater, EmissionsBehindLater DEF Settled

\* deposit_lp and withdraw_lp: only the amounts moved differ.
StakeStep(owner, escrow, balance) ==
    /\ CanStage(owner)
    /\ market' = [Settle(market) EXCEPT !.lp_escrow_amount = escrow]
    /\ lp_position' =
        [lp_position EXCEPT ![owner] =
            [StageAll(lp_position[owner], Settle(market))
                EXCEPT !.lp_balance = balance]]
    /\ UNCHANGED <<now, opened, sy_emissions>>

LEMMA StakeStepFacts ==
    ASSUME LpInv, NEW owner \in Owners, NEW escrow \in Nat, NEW balance \in Nat,
           StakeStep(owner, escrow, balance),
           tokens' \in [lp_wallets : Nat, farm : [FarmMints -> Nat]]
    PROVE  LpInv' /\ NeutralStep
  <1> DEFINE n == Settle(market)
             m == [n EXCEPT !.lp_escrow_amount = escrow]
             p == lp_position[owner]
             q == [StageAll(p, n) EXCEPT !.lp_balance = balance]
  <1>1. /\ market \in Market /\ now \in Nat /\ sy_emissions \in Seq(Nat)
        /\ lp_position \in [Owners -> LpPosition] /\ p \in LpPosition
        /\ opened \subseteq Owners
    BY DEF LpInv, LpTypeOK
  <1>2. /\ CanUpdateEmissions(market)
        /\ CanStageAll(p, n)
        /\ market' = m
        /\ lp_position' = [lp_position EXCEPT ![owner] = q]
        /\ UNCHANGED <<now, opened, sy_emissions>>
    BY DEF StakeStep, CanStage
  <1>3. /\ Settled(market, n)
        /\ \A i \in DOMAIN market.emissions :
                n.emissions[i].last_seen_staged =
                    IF i \in DOMAIN sy_emissions THEN sy_emissions[i]
                    ELSE market.emissions[i].last_seen_staged
    BY <1>1, <1>2, SettleFacts
  <1>4. n \in Market
    BY <1>3 DEF Settled
  <1> HIDE DEF n
  <1>5. /\ m \in Market /\ m.emissions = n.emissions /\ m.lp_farm = n.lp_farm
        /\ Settled(market, n)
    BY <1>3, <1>4 DEF Market
  <1>6. /\ EmissionIndexes(m) = EmissionIndexes(n)
        /\ FarmIndexes(m) = FarmIndexes(n)
    BY <1>5 DEF EmissionIndexes, FarmIndexes
  <1>7. /\ q \in LpPosition
        /\ q.lp_balance = balance
        /\ Len(q.emissions) = Larger(Len(p.emissions), Len(n.emissions))
        /\ Len(q.farms) = Larger(Len(p.farms), Len(n.lp_farm.farm_emissions))
        /\ CanEarnAll(q.emissions, EmissionIndexes(n))
        /\ CanEarnAll(q.farms, FarmIndexes(n))
        /\ Undisturbed(p.emissions, p.lp_balance, q.emissions, balance,
                       EmissionIndexes(n))
        /\ Undisturbed(p.farms, p.lp_balance, q.farms, balance, FarmIndexes(n))
    BY <1>1, <1>2, <1>4, StageAllFacts
  <1> HIDE DEF m, p, q
  <1>8. LpTypeOK'
    BY <1>1, <1>2, <1>5, <1>7 DEF LpTypeOK
  <1>9. \A o \in Owners : lp_position'[o] = IF o = owner THEN q ELSE lp_position[o]
    BY <1>1, <1>2
  <1>10. \A o \in Owners :
            /\ FarmsBehind(lp_position[o], n)
            /\ ~MayRemoveMarketEmission => EmissionsBehind(lp_position[o], n)
    BY <1>3, <1>4, BehindSettled
  <1>11. /\ FarmsBehind(q, n)
         /\ ~MayRemoveMarketEmission => EmissionsBehind(q, n)
    <2>1. FarmsBehind(p, n) /\ (~MayRemoveMarketEmission => EmissionsBehind(p, n))
      BY <1>10 DEF p
    <2>2. /\ Len(n.emissions) \in Nat /\ Len(n.lp_farm.farm_emissions) \in Nat
          /\ Len(p.emissions) \in Nat /\ Len(p.farms) \in Nat
      <3>1. n.emissions \in Seq(MarketEmission)
            /\ n.lp_farm.farm_emissions \in Seq(FarmEmission)
        BY <1>4 DEF Market, LpFarmAccount
      <3>2. p.emissions \in Seq(Tracker) /\ p.farms \in Seq(Tracker)
        BY <1>1 DEF LpPosition
      <3> QED
        BY <3>1, <3>2
    <2>3. Len(q.farms) <= Len(n.lp_farm.farm_emissions)
      BY <1>7, <2>1, <2>2, SMT DEF FarmsBehind, Larger
    <2>4. ~MayRemoveMarketEmission => Len(q.emissions) <= Len(n.emissions)
      BY <1>7, <2>1, <2>2, SMT DEF EmissionsBehind, Larger
    <2> QED
      BY <1>7, <2>3, <2>4 DEF FarmsBehind, EmissionsBehind
  <1>12. \A o \in Owners :
            /\ FarmsBehind(lp_position'[o], market')
            /\ ~MayRemoveMarketEmission => EmissionsBehind(lp_position'[o], market')
    <2> TAKE o \in Owners
    <2>1. /\ FarmsBehind(lp_position'[o], n)
          /\ ~MayRemoveMarketEmission => EmissionsBehind(lp_position'[o], n)
      BY <1>9, <1>10, <1>11
    <2> QED
      BY <1>2, <1>5, <1>6, <2>1 DEF FarmsBehind, EmissionsBehind
  <1>13. ~MayRemoveMarketEmission => StreamsListed(market', sy_emissions')
    <2> SUFFICES ASSUME ~MayRemoveMarketEmission,
                        NEW i \in DOMAIN n.emissions
                 PROVE  /\ n.emissions[i].token_escrow = i
                        /\ n.emissions[i].last_seen_staged
                             <= IF i \in DOMAIN sy_emissions THEN sy_emissions[i]
                                ELSE 0
      <3>1. market'.emissions = n.emissions
        BY <1>2, <1>5
      <3>2. UNCHANGED sy_emissions
        BY <1>2
      <3> QED
        BY <3>1, <3>2 DEF StreamsListed
    <2>1. i \in DOMAIN market.emissions
      BY <1>1, <1>3, <1>4, SMT DEF Settled, Market
    <2>2. StreamsListed(market, sy_emissions)
      BY DEF LpInv
    <2>3. n.emissions[i].token_escrow = market.emissions[i].token_escrow
      BY <1>3, <2>1 DEF Settled
    <2>4. CASE i \in DOMAIN sy_emissions
      <3>1. sy_emissions[i] \in Nat
        BY <1>1, <2>4
      <3>2. sy_emissions[i] <= sy_emissions[i]
        BY <3>1, SMT
      <3> QED
        BY <1>3, <2>1, <2>2, <2>3, <2>4, <3>2 DEF StreamsListed
    <2>5. CASE i \notin DOMAIN sy_emissions
      BY <1>3, <2>1, <2>2, <2>3, <2>5 DEF StreamsListed
    <2> QED
      BY <2>4, <2>5
  <1>14. NeutralStep
    <2> SUFFICES ASSUME NEW o \in opened
                 PROVE  /\ Undisturbed(lp_position[o].emissions,
                                lp_position[o].lp_balance,
                                lp_position'[o].emissions,
                                lp_position'[o].lp_balance,
                                EmissionIndexes(market'))
                        /\ Undisturbed(lp_position[o].farms,
                                lp_position[o].lp_balance,
                                lp_position'[o].farms,
                                lp_position'[o].lp_balance,
                                FarmIndexes(market'))
      BY DEF NeutralStep
    <2>1. o \in Owners
      BY <1>1
    <2>2. CASE o = owner
      <3>1. lp_position'[o] = q /\ lp_position[o] = p
        BY <1>9, <2>1, <2>2 DEF p
      <3> QED
        BY <1>2, <1>6, <1>7, <3>1
    <2>3. CASE o # owner
      <3>1. lp_position'[o] = lp_position[o]
        BY <1>9, <2>1, <2>3
      <3> QED
        BY <3>1 DEF Undisturbed
    <2> QED
      BY <2>2, <2>3
  <1> QED
    BY <1>8, <1>12, <1>13, <1>14 DEF LpInv

\* A tracker that pays is due less by what it paid; the others are untouched.
LEMMA PaymentFacts ==
    ASSUME NEW trackers \in Seq(Tracker), NEW i \in DOMAIN trackers,
           NEW left \in Nat, left <= trackers[i].staged,
           NEW indexes \in Seq(Nat), NEW balance \in Nat
    PROVE  LET after == [trackers EXCEPT ![i].staged = left]
           IN  /\ after \in Seq(Tracker) /\ Len(after) = Len(trackers)
               /\ CanEarnAll(trackers, indexes) => CanEarnAll(after, indexes)
               /\ Undisturbed(trackers, balance, after, balance, indexes)
  <1> DEFINE after == [trackers EXCEPT ![i].staged = left]
  <1>1. trackers[i] \in Tracker /\ DOMAIN trackers = 1..Len(trackers)
        /\ Len(trackers) \in Nat
    OBVIOUS
  <1>2. [trackers[i] EXCEPT !.staged = left] \in Tracker
    BY <1>1 DEF Tracker
  <1>3. after \in [1..Len(trackers) -> Tracker]
    BY <1>1, <1>2
  <1>4. /\ after[i].last_seen_index = trackers[i].last_seen_index
        /\ after[i].staged = left
        /\ \A k \in DOMAIN trackers : k # i => after[k] = trackers[k]
        /\ DOMAIN after = DOMAIN trackers
    <2>1. after[i] = [trackers[i] EXCEPT !.staged = left]
      OBVIOUS
    <2>2. [trackers[i] EXCEPT !.staged = left].staged = left
          /\ [trackers[i] EXCEPT !.staged = left].last_seen_index
                = trackers[i].last_seen_index
      BY <1>1 DEF Tracker
    <2> QED
      BY <2>1, <2>2
  <1> HIDE DEF after
  <1>5. after \in Seq(Tracker) /\ Len(after) = Len(trackers)
    BY <1>1, <1>3, SeqOfFunction
  <1>6. CanEarnAll(trackers, indexes) => CanEarnAll(after, indexes)
    <2> SUFFICES ASSUME CanEarnAll(trackers, indexes),
                        NEW k \in DOMAIN after \cap DOMAIN indexes
                 PROVE  after[k].last_seen_index <= indexes[k]
      BY DEF CanEarnAll
    <2>1. after[k].last_seen_index = trackers[k].last_seen_index
      BY <1>4
    <2>2. trackers[k].last_seen_index <= indexes[k]
      BY <1>4 DEF CanEarnAll
    <2> QED
      BY <2>1, <2>2
  <1>7. Undisturbed(trackers, balance, after, balance, indexes)
    <2> SUFFICES ASSUME NEW k \in DOMAIN indexes
                 PROVE  \/ Due(after, k, indexes[k], balance)
                             = Due(trackers, k, indexes[k], balance)
                        \/ PaidOut(trackers, after, k)
      BY DEF Undisturbed
    <2>1. CASE k # i
      BY <1>4, <2>1 DEF Due
    <2>2. CASE k = i /\ left = trackers[i].staged
      <3>1. Earned(after[i], indexes[k], balance)
              = Earned(trackers[i], indexes[k], balance)
        BY <1>4, <2>2 DEF Earned
      <3> QED
        BY <1>4, <2>2, <3>1 DEF Due
    <2>3. CASE k = i /\ left # trackers[i].staged
      <3>1. trackers[i].staged \in Nat
        BY <1>1 DEF Tracker
      <3>2. after[i].staged < trackers[i].staged
        BY <1>4, <2>3, <3>1, SMT
      <3> QED
        BY <1>4, <2>3, <3>2 DEF PaidOut
    <2> QED
      BY <2>1, <2>2, <2>3
  <1> QED
    BY <1>5, <1>6, <1>7 DEF after

\* Only the position of owner changes, and it stays behind the market.
LEMMA OnePositionFacts ==
    ASSUME LpInv, NEW owner \in Owners, NEW q \in LpPosition,
           lp_position' = [lp_position EXCEPT ![owner] = q],
           FarmsBehind(q, market),
           ~MayRemoveMarketEmission => EmissionsBehind(q, market),
           market' \in Market, FarmIndexes(market') = FarmIndexes(market),
           EmissionIndexes(market') = EmissionIndexes(market),
           Len(market'.emissions) = Len(market.emissions),
           Len(market'.lp_farm.farm_emissions) = Len(market.lp_farm.farm_emissions),
           owner \in opened =>
              /\ Undisturbed(lp_position[owner].emissions,
                             lp_position[owner].lp_balance, q.emissions,
                             q.lp_balance, EmissionIndexes(market))
              /\ Undisturbed(lp_position[owner].farms,
                             lp_position[owner].lp_balance, q.farms,
                             q.lp_balance, FarmIndexes(market))
    PROVE  /\ lp_position' \in [Owners -> LpPosition]
           /\ \A o \in Owners :
                /\ FarmsBehind(lp_position'[o], market')
                /\ ~MayRemoveMarketEmission =>
                        EmissionsBehind(lp_position'[o], market')
           /\ NeutralStep
  <1>1. lp_position \in [Owners -> LpPosition] /\ opened \subseteq Owners
    BY DEF LpInv, LpTypeOK
  <1>2. \A o \in Owners : lp_position'[o] = IF o = owner THEN q ELSE lp_position[o]
    BY <1>1
  <1>3. lp_position' \in [Owners -> LpPosition]
    BY <1>1
  <1>4. \A o \in Owners :
            /\ FarmsBehind(lp_position'[o], market')
            /\ ~MayRemoveMarketEmission => EmissionsBehind(lp_position'[o], market')
    <2> TAKE o \in Owners
    <2>1. /\ FarmsBehind(lp_position'[o], market)
          /\ ~MayRemoveMarketEmission => EmissionsBehind(lp_position'[o], market)
      BY <1>2 DEF LpInv
    <2> QED
      BY <2>1 DEF FarmsBehind, EmissionsBehind
  <1>5. NeutralStep
    <2> SUFFICES ASSUME NEW o \in opened
                 PROVE  /\ Undisturbed(lp_position[o].emissions,
                                lp_position[o].lp_balance,
                                lp_position'[o].emissions,
                                lp_position'[o].lp_balance,
                                EmissionIndexes(market'))
                        /\ Undisturbed(lp_position[o].farms,
                                lp_position[o].lp_balance,
                                lp_position'[o].farms,
                                lp_position'[o].lp_balance,
                                FarmIndexes(market'))
      BY DEF NeutralStep
    <2>1. o \in Owners
      BY <1>1
    <2>2. CASE o = owner
      BY <1>2, <2>1, <2>2
    <2>3. CASE o # owner
      <3>1. lp_position'[o] = lp_position[o]
        BY <1>2, <2>1, <2>3
      <3> QED
        BY <3>1 DEF Undisturbed
    <2> QED
      BY <2>2, <2>3
  <1> QED
    BY <1>3, <1>4, <1>5

LEMMA InitLpPositionFacts ==
    ASSUME LpInv, NEW owner \in Owners, InitLpPosition(owner)
    PROVE  LpInv' /\ NeutralStep
  <1> DEFINE e == EmissionIndexes(market)
             f == FarmIndexes(market)
             fresh(indexes) == [i \in 1..Len(indexes) |->
                [last_seen_index |-> indexes[i], staged |-> 0]]
             q == [lp_balance |-> 0, emissions |-> fresh(e), farms |-> fresh(f)]
  <1>1. LpTypeOK /\ market \in Market
    BY DEF LpInv, LpTypeOK
  <1>2. /\ e \in Seq(Nat) /\ Len(e) = Len(market.emissions)
        /\ f \in Seq(Nat) /\ Len(f) = Len(market.lp_farm.farm_emissions)
    BY <1>1, IndexesType
  <1>3. /\ DOMAIN market.emissions = 1..Len(e)
        /\ DOMAIN market.lp_farm.farm_emissions = 1..Len(f)
    BY <1>1, <1>2 DEF Market, LpFarmAccount
  <1>4. lp_position' = [lp_position EXCEPT ![owner] = q]
    BY <1>3 DEF InitLpPosition
  <1> HIDE DEF e, f
  <1>5. ASSUME NEW indexes \in Seq(Nat)
        PROVE  /\ fresh(indexes) \in Seq(Tracker)
               /\ Len(fresh(indexes)) = Len(indexes)
               /\ CanEarnAll(fresh(indexes), indexes)
    <2>1. Len(indexes) \in Nat /\ DOMAIN indexes = 1..Len(indexes)
      OBVIOUS
    <2>2. fresh(indexes) \in [1..Len(indexes) -> Tracker]
      BY DEF Tracker
    <2>3. \A i \in 1..Len(indexes) : fresh(indexes)[i].last_seen_index <= indexes[i]
      <3> TAKE i \in 1..Len(indexes)
      <3>1. fresh(indexes)[i].last_seen_index = indexes[i] /\ indexes[i] \in Nat
        OBVIOUS
      <3> QED
        BY <3>1, SMT
    <2> HIDE DEF fresh
    <2>4. fresh(indexes) \in Seq(Tracker) /\ Len(fresh(indexes)) = Len(indexes)
      BY <2>1, <2>2, SeqOfFunction
    <2> QED
      BY <2>1, <2>3, <2>4 DEF CanEarnAll
  <1> HIDE DEF fresh
  <1>6. q \in LpPosition
    BY <1>2, <1>5 DEF LpPosition
  <1>7. FarmsBehind(q, market) /\ EmissionsBehind(q, market)
    <2>1. Len(fresh(e)) <= Len(market.emissions)
          /\ Len(fresh(f)) <= Len(market.lp_farm.farm_emissions)
      BY <1>2, <1>5, SMT
    <2> QED
      BY <1>2, <1>5, <2>1 DEF FarmsBehind, EmissionsBehind, e, f
  <1> HIDE DEF q
  <1>8. /\ owner \notin opened /\ opened' = opened \cup {owner}
        /\ UNCHANGED <<now, market, tokens, sy_emissions>>
    BY DEF InitLpPosition
  <1>9. /\ lp_position' \in [Owners -> LpPosition]
        /\ \A o \in Owners :
            /\ FarmsBehind(lp_position'[o], market')
            /\ ~MayRemoveMarketEmission => EmissionsBehind(lp_position'[o], market')
        /\ NeutralStep
    BY <1>1, <1>4, <1>6, <1>7, <1>8, OnePositionFacts
  <1> QED
    BY <1>1, <1>8, <1>9 DEF LpInv, LpTypeOK

\* Two markets with the same indexes.
SameIndexes(m, n) ==
    /\ EmissionIndexes(n) = EmissionIndexes(m)
    /\ FarmIndexes(n) = FarmIndexes(m)
    /\ Len(n.emissions) = Len(m.emissions)
    /\ Len(n.lp_farm.farm_emissions) = Len(m.lp_farm.farm_emissions)

LEMMA PayEmissionFacts ==
    ASSUME NEW m \in Market, NEW i \in DOMAIN m.emissions, NEW left \in Nat
    PROVE  LET n == [m EXCEPT !.emissions[i].last_seen_staged = left]
           IN  /\ n \in Market
               /\ SameIndexes(m, n)
               /\ DOMAIN n.emissions = DOMAIN m.emissions
               /\ \A k \in DOMAIN m.emissions :
                    /\ n.emissions[k].token_escrow = m.emissions[k].token_escrow
                    /\ n.emissions[k].last_seen_staged =
                        IF k = i THEN left ELSE m.emissions[k].last_seen_staged
  <1> DEFINE n == [m EXCEPT !.emissions[i].last_seen_staged = left]
             old == m.emissions
             new == [old EXCEPT ![i].last_seen_staged = left]
  <1>1. old \in Seq(MarketEmission) /\ Len(old) \in Nat /\ DOMAIN old = 1..Len(old)
    BY DEF Market
  <1>2. n = [m EXCEPT !.emissions = new]
    OBVIOUS
  <1>3. old[i] \in MarketEmission
    BY <1>1
  <1>4. /\ [old[i] EXCEPT !.last_seen_staged = left] \in MarketEmission
        /\ new[i] = [old[i] EXCEPT !.last_seen_staged = left]
        /\ \A k \in DOMAIN old : k # i => new[k] = old[k]
        /\ DOMAIN new = DOMAIN old
    BY <1>3 DEF MarketEmission
  <1>5. /\ new[i].token_escrow = old[i].token_escrow
        /\ new[i].lp_share_index = old[i].lp_share_index
        /\ new[i].last_seen_staged = left
    BY <1>3, <1>4 DEF MarketEmission
  <1>6. new \in [1..Len(old) -> MarketEmission]
    BY <1>1, <1>4
  <1> HIDE DEF new, old, n
  <1>7. new \in Seq(MarketEmission) /\ Len(new) = Len(old)
    BY <1>1, <1>6, SeqOfFunction
  <1>8. n \in Market /\ n.emissions = new /\ n.lp_farm = m.lp_farm
    BY <1>2, <1>7 DEF Market
  <1>9. EmissionIndexes(n) = EmissionIndexes(m)
    <2>1. \A k \in DOMAIN old : new[k].lp_share_index = old[k].lp_share_index
      BY <1>4, <1>5
    <2> QED
      BY <1>4, <1>8, <2>1 DEF EmissionIndexes, old
  <1>10. FarmIndexes(n) = FarmIndexes(m)
    BY <1>8 DEF FarmIndexes
  <1>11. SameIndexes(m, n)
    BY <1>7, <1>8, <1>9, <1>10 DEF SameIndexes, old
  <1>12. \A k \in DOMAIN old :
            /\ new[k].token_escrow = old[k].token_escrow
            /\ new[k].last_seen_staged =
                    IF k = i THEN left ELSE old[k].last_seen_staged
    BY <1>4, <1>5
  <1> QED
    BY <1>4, <1>8, <1>11, <1>12 DEF n, old

LEMMA MarketCollectEmissionFacts ==
    ASSUME LpInv, NEW owner \in Owners, NEW i, MarketCollectEmission(owner, i)
    PROVE  LpInv' /\ NeutralStep
  <1> DEFINE p == lp_position[owner]
             amount == p.emissions[i].staged
             stream == market.claim_emission[i]
             seen == market.emissions[i].last_seen_staged
             after == [p.emissions EXCEPT ![i].staged = 0]
             q == [p EXCEPT !.emissions = after]
  <1>1. /\ LpTypeOK /\ market \in Market /\ p \in LpPosition
        /\ lp_position \in [Owners -> LpPosition]
        /\ sy_emissions \in Seq(Nat)
        /\ FarmsBehind(p, market)
        /\ ~MayRemoveMarketEmission => EmissionsBehind(p, market)
    BY DEF LpInv, LpTypeOK
  <1>2. /\ i \in DOMAIN market.emissions /\ i \in DOMAIN p.emissions
        /\ amount = 0 \/ stream = market.emissions[i].token_escrow
        /\ stream \in DOMAIN sy_emissions
        /\ amount <= sy_emissions[stream]
        /\ sy_emissions' = [sy_emissions EXCEPT ![stream] = @ - amount]
        /\ amount <= seen
        /\ market' = [market EXCEPT !.emissions[i].last_seen_staged = seen - amount]
        /\ lp_position' = [lp_position EXCEPT ![owner].emissions[i].staged = 0]
        /\ UNCHANGED <<now, opened, tokens>>
    BY DEF MarketCollectEmission
  <1>3. lp_position' = [lp_position EXCEPT ![owner] = q]
    BY <1>2
  <1>4. /\ p.emissions \in Seq(Tracker) /\ p.farms \in Seq(Tracker)
        /\ p.lp_balance \in Nat
    BY <1>1 DEF LpPosition
  <1>5. amount \in Nat
    <2>1. p.emissions[i] \in Tracker
      BY <1>2, <1>4
    <2> QED
      BY <2>1 DEF Tracker
  <1>6. seen \in Nat
    <2>1. market.emissions[i] \in MarketEmission
      BY <1>1, <1>2 DEF Market
    <2> QED
      BY <2>1 DEF MarketEmission
  <1>7. EmissionIndexes(market) \in Seq(Nat)
    BY <1>1, IndexesType
  <1>8. /\ after \in Seq(Tracker) /\ Len(after) = Len(p.emissions)
        /\ CanEarnAll(p.emissions, EmissionIndexes(market))
              => CanEarnAll(after, EmissionIndexes(market))
        /\ Undisturbed(p.emissions, p.lp_balance, after, p.lp_balance,
                       EmissionIndexes(market))
    <2>1. 0 \in Nat /\ 0 <= p.emissions[i].staged
      BY <1>5, SMT
    <2> QED
      BY <1>2, <1>4, <1>7, <2>1, PaymentFacts
  <1>9. seen - amount \in Nat
    BY <1>2, <1>5, <1>6, SMT
  <1>10. /\ market' \in Market /\ SameIndexes(market, market')
         /\ DOMAIN market'.emissions = DOMAIN market.emissions
         /\ \A k \in DOMAIN market.emissions :
              /\ market'.emissions[k].token_escrow = market.emissions[k].token_escrow
              /\ market'.emissions[k].last_seen_staged =
                    IF k = i THEN seen - amount
                    ELSE market.emissions[k].last_seen_staged
    <2> DEFINE left == seen - amount
    <2>1. market' = [market EXCEPT !.emissions[i].last_seen_staged = left]
      BY <1>2
    <2>2. left \in Nat
      BY <1>9
    <2> HIDE DEF left
    <2>3. LET n == [market EXCEPT !.emissions[i].last_seen_staged = left]
          IN  /\ n \in Market
              /\ SameIndexes(market, n)
              /\ DOMAIN n.emissions = DOMAIN market.emissions
              /\ \A k \in DOMAIN market.emissions :
                    /\ n.emissions[k].token_escrow = market.emissions[k].token_escrow
                    /\ n.emissions[k].last_seen_staged =
                        IF k = i THEN left
                        ELSE market.emissions[k].last_seen_staged
      <3>1. market \in Market /\ i \in DOMAIN market.emissions
        BY <1>1, <1>2
      <3> QED
        BY <2>2, <3>1, PayEmissionFacts
    <2>4. /\ market' \in Market /\ SameIndexes(market, market')
          /\ DOMAIN market'.emissions = DOMAIN market.emissions
          /\ \A k \in DOMAIN market.emissions :
                /\ market'.emissions[k].token_escrow
                        = market.emissions[k].token_escrow
                /\ market'.emissions[k].last_seen_staged =
                        IF k = i THEN left
                        ELSE market.emissions[k].last_seen_staged
      BY <2>1, <2>3
    <2> QED
      BY <2>4 DEF left
  <1> HIDE DEF after
  <1>11. /\ q \in LpPosition /\ q.emissions = after /\ q.farms = p.farms
         /\ q.lp_balance = p.lp_balance
    BY <1>1, <1>4, <1>8 DEF LpPosition
  <1> HIDE DEF q
  <1>12. /\ FarmsBehind(q, market)
         /\ ~MayRemoveMarketEmission => EmissionsBehind(q, market)
    BY <1>1, <1>8, <1>11 DEF FarmsBehind, EmissionsBehind
  <1>13. Undisturbed(p.farms, p.lp_balance, q.farms, q.lp_balance,
                     FarmIndexes(market))
    BY <1>11 DEF Undisturbed
  <1>14. /\ lp_position' \in [Owners -> LpPosition]
         /\ \A o \in Owners :
             /\ FarmsBehind(lp_position'[o], market')
             /\ ~MayRemoveMarketEmission => EmissionsBehind(lp_position'[o], market')
         /\ NeutralStep
    BY <1>3, <1>8, <1>10, <1>11, <1>12, <1>13, OnePositionFacts DEF SameIndexes
  <1>15. /\ sy_emissions' \in Seq(Nat)
         /\ DOMAIN sy_emissions' = DOMAIN sy_emissions
         /\ \A k \in DOMAIN sy_emissions :
                sy_emissions'[k] = IF k = stream THEN sy_emissions[k] - amount
                                   ELSE sy_emissions[k]
    <2>1. sy_emissions[stream] \in Nat
      BY <1>1, <1>2
    <2>2. sy_emissions[stream] - amount \in Nat
      BY <1>2, <1>5, <2>1, SMT
    <2>3. sy_emissions' = [sy_emissions EXCEPT ![stream]
                                = sy_emissions[stream] - amount]
      BY <1>2
    <2> HIDE DEF stream, amount
    <2> QED
      BY <1>1, <1>2, <2>2, <2>3
  <1>16. ~MayRemoveMarketEmission => StreamsListed(market', sy_emissions')
    <2> SUFFICES ASSUME ~MayRemoveMarketEmission,
                        NEW k \in DOMAIN market.emissions
                 PROVE  /\ market'.emissions[k].token_escrow = k
                        /\ market'.emissions[k].last_seen_staged
                             <= IF k \in DOMAIN sy_emissions'
                                THEN sy_emissions'[k] ELSE 0
      BY <1>10 DEF StreamsListed
    <2>1. /\ market.emissions[k].token_escrow = k
          /\ market.emissions[k].last_seen_staged
                <= IF k \in DOMAIN sy_emissions THEN sy_emissions[k] ELSE 0
      BY DEF LpInv, StreamsListed
    <2>2. market.emissions[i].token_escrow = i
      BY <1>2 DEF LpInv, StreamsListed
    <2>3. market'.emissions[k].token_escrow = k
      BY <1>10, <2>1
    <2>4. market.emissions[k].last_seen_staged \in Nat
      <3>1. market.emissions[k] \in MarketEmission
        BY <1>1 DEF Market
      <3> QED
        BY <3>1 DEF MarketEmission
    <2>5. k \in DOMAIN sy_emissions => sy_emissions[k] \in Nat
      BY <1>1
    <2>6. amount = 0 \/ stream = i
      BY <1>2, <2>2
    <2>7. CASE amount = 0
      <3>1. market'.emissions[k].last_seen_staged
              = market.emissions[k].last_seen_staged
        BY <1>6, <1>10, <2>7, SMT
      <3>2. k \in DOMAIN sy_emissions => sy_emissions'[k] = sy_emissions[k]
        BY <1>15, <2>5, <2>7, SMT
      <3> QED
        BY <1>15, <2>1, <2>3, <3>1, <3>2
    <2>8. CASE stream = i /\ k # i
      BY <1>10, <1>15, <2>1, <2>3, <2>8
    <2>9. CASE stream = i /\ k = i
      <3>1. k \in DOMAIN sy_emissions /\ seen <= sy_emissions[k]
        BY <1>2, <2>1, <2>9
      <3>2. /\ market'.emissions[k].last_seen_staged = seen - amount
            /\ sy_emissions'[k] = sy_emissions[k] - amount
        BY <1>10, <1>15, <2>9, <3>1
      <3>3. seen - amount <= sy_emissions[k] - amount
        BY <1>5, <1>6, <2>5, <3>1, SMT
      <3> QED
        BY <1>15, <2>3, <3>1, <3>2, <3>3
    <2> QED
      BY <2>6, <2>7, <2>8, <2>9
  <1> QED
    BY <1>1, <1>2, <1>10, <1>14, <1>15, <1>16 DEF LpInv, LpTypeOK

LEMMA ClaimFarmEmissionsFacts ==
    ASSUME LpInv, NEW owner \in Owners, NEW mint \in FarmMints,
           ClaimFarmEmissions(owner, mint)
    PROVE  LpInv' /\ NeutralStep
  <1> DEFINE p == lp_position[owner]
  <1>1. /\ LpTypeOK /\ market \in Market /\ p \in LpPosition
        /\ lp_position \in [Owners -> LpPosition]
        /\ tokens \in [lp_wallets : Nat, farm : [FarmMints -> Nat]]
        /\ FarmsBehind(p, market)
        /\ ~MayRemoveMarketEmission => EmissionsBehind(p, market)
    BY DEF LpInv, LpTypeOK
  <1>2. PICK i \in DOMAIN p.farms :
            \E amount \in Claimable(p.farms[i].staged) :
                /\ amount <= tokens.farm[mint]
                /\ tokens' = [tokens EXCEPT !.farm[mint] = @ - amount]
                /\ lp_position' =
                    [lp_position EXCEPT ![owner].farms[i].staged = @ - amount]
    BY DEF ClaimFarmEmissions
  <1>3. PICK amount \in Claimable(p.farms[i].staged) :
            /\ amount <= tokens.farm[mint]
            /\ tokens' = [tokens EXCEPT !.farm[mint] = @ - amount]
            /\ lp_position' =
                [lp_position EXCEPT ![owner].farms[i].staged = @ - amount]
    BY <1>2
  <1>4. UNCHANGED <<now, market, opened, sy_emissions>>
    BY DEF ClaimFarmEmissions
  <1>5. /\ p.emissions \in Seq(Tracker) /\ p.farms \in Seq(Tracker)
        /\ p.lp_balance \in Nat
    BY <1>1 DEF LpPosition
  <1>6. p.farms[i].staged \in Nat
    <2>1. p.farms[i] \in Tracker
      BY <1>5
    <2> QED
      BY <2>1 DEF Tracker
  <1>7. amount \in Nat /\ amount <= p.farms[i].staged
    <2> DEFINE staged == p.farms[i].staged
    <2>1. \/ amount = staged
          \/ amount \in FarmClaims /\ amount <= staged
      BY DEF Claimable
    <2>2. FarmClaims \subseteq Nat
      BY LpFarmAssumption
    <2>3. staged \in Nat
      BY <1>6
    <2> HIDE DEF staged
    <2>4. CASE amount = staged
      BY <2>3, <2>4, SMT DEF staged
    <2>5. CASE amount \in FarmClaims /\ amount <= staged
      BY <2>2, <2>5 DEF staged
    <2> QED
      BY <2>1, <2>4, <2>5
  <1> DEFINE left == p.farms[i].staged - amount
             after == [p.farms EXCEPT ![i].staged = left]
             q == [p EXCEPT !.farms = after]
  <1>8. left \in Nat /\ left <= p.farms[i].staged
    BY <1>6, <1>7, SMT
  <1>9. lp_position' = [lp_position EXCEPT ![owner] = q]
    BY <1>3
  <1> HIDE DEF left
  <1>10. FarmIndexes(market) \in Seq(Nat)
    BY <1>1, IndexesType
  <1>11. /\ after \in Seq(Tracker) /\ Len(after) = Len(p.farms)
         /\ CanEarnAll(p.farms, FarmIndexes(market))
              => CanEarnAll(after, FarmIndexes(market))
         /\ Undisturbed(p.farms, p.lp_balance, after, p.lp_balance,
                        FarmIndexes(market))
    BY <1>5, <1>8, <1>10, PaymentFacts
  <1> HIDE DEF after
  <1>12. /\ q \in LpPosition /\ q.farms = after /\ q.emissions = p.emissions
         /\ q.lp_balance = p.lp_balance
    BY <1>1, <1>5, <1>11 DEF LpPosition
  <1> HIDE DEF q
  <1>13. /\ FarmsBehind(q, market)
         /\ ~MayRemoveMarketEmission => EmissionsBehind(q, market)
    BY <1>1, <1>11, <1>12 DEF FarmsBehind, EmissionsBehind
  <1>14. Undisturbed(p.emissions, p.lp_balance, q.emissions, q.lp_balance,
                     EmissionIndexes(market))
    BY <1>12 DEF Undisturbed
  <1>15. /\ lp_position' \in [Owners -> LpPosition]
         /\ \A o \in Owners :
             /\ FarmsBehind(lp_position'[o], market')
             /\ ~MayRemoveMarketEmission => EmissionsBehind(lp_position'[o], market')
         /\ NeutralStep
    BY <1>1, <1>4, <1>9, <1>11, <1>12, <1>13, <1>14, OnePositionFacts
  <1>16. tokens' \in [lp_wallets : Nat, farm : [FarmMints -> Nat]]
    <2>1. tokens.farm[mint] \in Nat
      BY <1>1
    <2>2. tokens.farm[mint] - amount \in Nat
      BY <1>3, <1>7, <2>1, SMT
    <2> QED
      BY <1>1, <1>3, <2>2
  <1> QED
    BY <1>1, <1>4, <1>15, <1>16 DEF LpInv, LpTypeOK

\* What a deposit and a withdrawal start from.
LEMMA StakeFacts ==
    ASSUME LpInv, NEW owner \in Owners, CanStage(owner)
    PROVE  /\ Settle(market).lp_escrow_amount = market.lp_escrow_amount
           /\ StageAll(lp_position[owner], Settle(market)).lp_balance
                = lp_position[owner].lp_balance
           /\ market.lp_escrow_amount \in Nat
           /\ lp_position[owner].lp_balance \in Nat
           /\ tokens.lp_wallets \in Nat
  <1>1. /\ market \in Market /\ now \in Nat /\ sy_emissions \in Seq(Nat)
        /\ lp_position[owner] \in LpPosition
        /\ tokens \in [lp_wallets : Nat, farm : [FarmMints -> Nat]]
    BY DEF LpInv, LpTypeOK
  <1>2. CanUpdateEmissions(market)
    BY DEF CanStage
  <1>3. Settled(market, Settle(market))
    BY <1>1, <1>2, SettleFacts
  <1>4. StageAll(lp_position[owner], Settle(market)).lp_balance
          = lp_position[owner].lp_balance
    BY <1>1 DEF StageAll, LpPosition
  <1>5. market.lp_escrow_amount \in Nat /\ lp_position[owner].lp_balance \in Nat
    BY <1>1 DEF Market, LpPosition
  <1> QED
    BY <1>1, <1>3, <1>4, <1>5 DEF Settled

LEMMA DepositLpFacts ==
    ASSUME LpInv, NEW owner \in Owners, NEW amount \in LpAmounts,
           DepositLp(owner, amount)
    PROVE  LpInv' /\ NeutralStep
  <1> DEFINE escrow == market.lp_escrow_amount + amount
             balance == lp_position[owner].lp_balance + amount
  <1>1. /\ CanStage(owner) /\ amount <= tokens.lp_wallets
        /\ market' = [Settle(market) EXCEPT !.lp_escrow_amount
                        = Settle(market).lp_escrow_amount + amount]
        /\ lp_position' =
            [lp_position EXCEPT ![owner] =
                [StageAll(lp_position[owner], Settle(market)) EXCEPT !.lp_balance =
                    StageAll(lp_position[owner], Settle(market)).lp_balance + amount]]
        /\ tokens' = [tokens EXCEPT !.lp_wallets = @ - amount]
        /\ UNCHANGED <<now, opened, sy_emissions>>
    BY DEF DepositLp
  <1>2. /\ Settle(market).lp_escrow_amount = market.lp_escrow_amount
        /\ StageAll(lp_position[owner], Settle(market)).lp_balance
                = lp_position[owner].lp_balance
        /\ market.lp_escrow_amount \in Nat
        /\ lp_position[owner].lp_balance \in Nat
        /\ tokens.lp_wallets \in Nat
    BY <1>1, StakeFacts
  <1>3. amount \in Nat
    BY LpFarmAssumption
  <1>4. escrow \in Nat /\ balance \in Nat /\ tokens.lp_wallets - amount \in Nat
    BY <1>1, <1>2, <1>3, SMT
  <1>5. StakeStep(owner, escrow, balance)
    BY <1>1, <1>2 DEF StakeStep
  <1>6. tokens' \in [lp_wallets : Nat, farm : [FarmMints -> Nat]]
    BY <1>1, <1>4 DEF LpInv, LpTypeOK
  <1> QED
    BY <1>4, <1>5, <1>6, StakeStepFacts

LEMMA WithdrawLpFacts ==
    ASSUME LpInv, NEW owner \in Owners, NEW amount \in LpAmounts,
           WithdrawLp(owner, amount)
    PROVE  LpInv' /\ NeutralStep
  <1> DEFINE escrow == market.lp_escrow_amount - amount
             balance == lp_position[owner].lp_balance - amount
  <1>1. /\ CanStage(owner)
        /\ amount <= lp_position[owner].lp_balance
        /\ amount <= market.lp_escrow_amount
        /\ market' = [Settle(market) EXCEPT !.lp_escrow_amount
                        = Settle(market).lp_escrow_amount - amount]
        /\ lp_position' =
            [lp_position EXCEPT ![owner] =
                [StageAll(lp_position[owner], Settle(market)) EXCEPT !.lp_balance =
                    StageAll(lp_position[owner], Settle(market)).lp_balance - amount]]
        /\ tokens' = [tokens EXCEPT !.lp_wallets = @ + amount]
        /\ UNCHANGED <<now, opened, sy_emissions>>
    BY DEF WithdrawLp
  <1>2. /\ Settle(market).lp_escrow_amount = market.lp_escrow_amount
        /\ StageAll(lp_position[owner], Settle(market)).lp_balance
                = lp_position[owner].lp_balance
        /\ market.lp_escrow_amount \in Nat
        /\ lp_position[owner].lp_balance \in Nat
        /\ tokens.lp_wallets \in Nat
    BY <1>1, StakeFacts
  <1>3. amount \in Nat
    BY LpFarmAssumption
  <1>4. escrow \in Nat /\ balance \in Nat /\ tokens.lp_wallets + amount \in Nat
    BY <1>1, <1>2, <1>3, SMT
  <1>5. StakeStep(owner, escrow, balance)
    BY <1>1, <1>2 DEF StakeStep
  <1>6. tokens' \in [lp_wallets : Nat, farm : [FarmMints -> Nat]]
    BY <1>1, <1>4 DEF LpInv, LpTypeOK
  <1> QED
    BY <1>4, <1>5, <1>6, StakeStepFacts

\* A market that keeps what it lists, with indexes that are no smaller, leaves
\* the positions behind it; its emissions may shrink if they may be removed.
LEMMA MarketStepFacts ==
    ASSUME LpInv, UNCHANGED lp_position, market' \in Market,
           Len(market.lp_farm.farm_emissions)
                <= Len(market'.lp_farm.farm_emissions),
           \A i \in DOMAIN market.lp_farm.farm_emissions :
                market.lp_farm.farm_emissions[i].index
                    <= market'.lp_farm.farm_emissions[i].index,
           ~MayRemoveMarketEmission =>
                /\ Len(market.emissions) <= Len(market'.emissions)
                /\ \A i \in DOMAIN market.emissions :
                        market.emissions[i].lp_share_index
                            <= market'.emissions[i].lp_share_index
    PROVE  \A owner \in Owners :
                /\ FarmsBehind(lp_position'[owner], market')
                /\ ~MayRemoveMarketEmission =>
                        EmissionsBehind(lp_position'[owner], market')
  <1> TAKE owner \in Owners
  <1>1. /\ lp_position[owner] \in LpPosition /\ market \in Market
        /\ FarmsBehind(lp_position[owner], market)
        /\ ~MayRemoveMarketEmission => EmissionsBehind(lp_position[owner], market)
    BY DEF LpInv, LpTypeOK
  <1>2. FarmsBehind(lp_position[owner], market')
    BY <1>1, FarmsBehindLater
  <1>3. ~MayRemoveMarketEmission => EmissionsBehind(lp_position[owner], market')
    BY <1>1, EmissionsBehindLater
  <1> QED
    BY <1>2, <1>3

\* An index is no smaller than itself.
LEMMA IndexesReflexive ==
    ASSUME NEW m \in Market
    PROVE  /\ \A i \in DOMAIN m.emissions :
                /\ m.emissions[i] \in MarketEmission
                /\ m.emissions[i].lp_share_index <= m.emissions[i].lp_share_index
           /\ \A i \in DOMAIN m.lp_farm.farm_emissions :
                /\ m.lp_farm.farm_emissions[i] \in FarmEmission
                /\ m.lp_farm.farm_emissions[i].index
                        <= m.lp_farm.farm_emissions[i].index
           /\ Len(m.emissions) \in Nat
           /\ Len(m.lp_farm.farm_emissions) \in Nat
           /\ DOMAIN m.emissions = 1..Len(m.emissions)
           /\ DOMAIN m.lp_farm.farm_emissions = 1..Len(m.lp_farm.farm_emissions)
  <1>1. /\ m.emissions \in Seq(MarketEmission)
        /\ m.lp_farm.farm_emissions \in Seq(FarmEmission)
    BY DEF Market, LpFarmAccount
  <1>2. \A i \in DOMAIN m.emissions :
            /\ m.emissions[i] \in MarketEmission
            /\ m.emissions[i].lp_share_index <= m.emissions[i].lp_share_index
    <2> TAKE i \in DOMAIN m.emissions
    <2>1. m.emissions[i] \in MarketEmission
      BY <1>1
    <2>2. m.emissions[i].lp_share_index \in Nat
      BY <2>1 DEF MarketEmission
    <2> QED
      BY <2>1, <2>2, SMT
  <1>3. \A i \in DOMAIN m.lp_farm.farm_emissions :
            /\ m.lp_farm.farm_emissions[i] \in FarmEmission
            /\ m.lp_farm.farm_emissions[i].index
                    <= m.lp_farm.farm_emissions[i].index
    <2> TAKE i \in DOMAIN m.lp_farm.farm_emissions
    <2>1. m.lp_farm.farm_emissions[i] \in FarmEmission
      BY <1>1
    <2>2. m.lp_farm.farm_emissions[i].index \in Nat
      BY <2>1 DEF FarmEmission
    <2> QED
      BY <2>1, <2>2, SMT
  <1> QED
    BY <1>1, <1>2, <1>3

LEMMA AddFarmFacts ==
    ASSUME LpInv, NEW mint \in FarmMints, NEW token_rate \in FarmRates,
           NEW until \in FarmExpiries, AddFarm(mint, token_rate, until)
    PROVE  LpInv' /\ NeutralStep
  <1> DEFINE n == IncreaseShareIndexes(market)
             farm == [mint |-> mint, token_rate |-> token_rate,
                      expiry_timestamp |-> until, index |-> 0]
             old == n.lp_farm.farm_emissions
             new == Append(old, farm)
  <1>1. /\ LpTypeOK /\ market \in Market /\ now \in Nat
        /\ tokens \in [lp_wallets : Nat, farm : [FarmMints -> Nat]]
    BY DEF LpInv, LpTypeOK
  <1>2. /\ market' = [n EXCEPT !.lp_farm.farm_emissions = new]
        /\ until >= now
        /\ tokens' = [tokens EXCEPT !.farm[mint]
                        = tokens.farm[mint] + (until - now) * token_rate]
        /\ UNCHANGED <<now, lp_position, opened, sy_emissions>>
    BY DEF AddFarm
  <1>3. token_rate \in Nat /\ until \in Nat
    BY LpFarmAssumption
  <1>4. farm \in FarmEmission
    BY <1>3 DEF FarmEmission
  <1>5. Settled(market, n) /\ n.emissions = market.emissions
    BY <1>1, IncreaseFacts
  <1>6. n \in Market
    BY <1>5 DEF Settled
  <1> HIDE DEF n, farm
  <1>7. old \in Seq(FarmEmission) /\ Len(old) = Len(market.lp_farm.farm_emissions)
        /\ Len(old) \in Nat /\ DOMAIN old = 1..Len(old)
    BY <1>5, <1>6 DEF Settled, Market, LpFarmAccount
  <1>8. /\ new \in Seq(FarmEmission) /\ Len(new) = Len(old) + 1
        /\ \A i \in 1..Len(old) : new[i] = old[i]
    <2> HIDE DEF old
    <2> QED
      BY <1>4, <1>7
  <1> HIDE DEF new
  <1>9. /\ market' \in Market /\ market'.lp_farm.farm_emissions = new
        /\ market'.emissions = market.emissions
    BY <1>2, <1>5, <1>6, <1>8 DEF Market, LpFarmAccount
  <1>10. \A i \in DOMAIN market.lp_farm.farm_emissions :
            market.lp_farm.farm_emissions[i].index
                <= market'.lp_farm.farm_emissions[i].index
    <2> TAKE i \in DOMAIN market.lp_farm.farm_emissions
    <2>1. i \in 1..Len(old)
      BY <1>1, <1>7, IndexesReflexive
    <2>2. market.lp_farm.farm_emissions[i].index <= old[i].index
      BY <1>5 DEF Settled
    <2> QED
      BY <1>8, <1>9, <2>1, <2>2
  <1>11. Len(market.lp_farm.farm_emissions) <= Len(market'.lp_farm.farm_emissions)
    BY <1>7, <1>8, <1>9, SMT
  <1>12. /\ Len(market.emissions) <= Len(market'.emissions)
         /\ \A i \in DOMAIN market.emissions :
                market.emissions[i].lp_share_index
                    <= market'.emissions[i].lp_share_index
    <2>1. Len(market.emissions) <= Len(market.emissions)
      BY <1>1, IndexesReflexive, SMT
    <2> QED
      BY <1>1, <1>9, <2>1, IndexesReflexive
  <1>13. \A owner \in Owners :
            /\ FarmsBehind(lp_position'[owner], market')
            /\ ~MayRemoveMarketEmission =>
                    EmissionsBehind(lp_position'[owner], market')
    BY <1>2, <1>9, <1>10, <1>11, <1>12, MarketStepFacts
  <1>14. ~MayRemoveMarketEmission => StreamsListed(market', sy_emissions')
    BY <1>2, <1>9 DEF LpInv, StreamsListed
  <1>15. tokens' \in [lp_wallets : Nat, farm : [FarmMints -> Nat]]
    <2>1. tokens.farm[mint] \in Nat
      BY <1>1
    <2>2. until - now \in Nat
      BY <1>1, <1>2, <1>3, SMT
    <2>3. (until - now) * token_rate \in Nat
      BY <1>3, <2>2, SMT
    <2>4. tokens.farm[mint] + (until - now) * token_rate \in Nat
      BY <2>1, <2>3, SMT
    <2> QED
      BY <1>1, <1>2, <2>4
  <1>16. NeutralStep
    BY <1>2, PositionsUntouched
  <1> QED
    BY <1>1, <1>2, <1>9, <1>13, <1>14, <1>15, <1>16 DEF LpInv, LpTypeOK

LEMMA ModifyFarmFacts ==
    ASSUME LpInv, NEW mint \in FarmMints, NEW until \in FarmExpiries,
           NEW rate \in ModifiedRates, ModifyFarm(mint, until, rate)
    PROVE  LpInv' /\ NeutralStep
  <1> DEFINE n == IncreaseShareIndexes(market)
             old == n.lp_farm.farm_emissions
  <1>1. /\ LpTypeOK /\ market \in Market /\ now \in Nat
        /\ tokens \in [lp_wallets : Nat, farm : [FarmMints -> Nat]]
    BY DEF LpInv, LpTypeOK
  <1>2. Settled(market, n) /\ n.emissions = market.emissions
    BY <1>1, IncreaseFacts
  <1>3. n \in Market
    BY <1>2 DEF Settled
  <1>4. PICK i \in FarmsOf(mint) :
            market' = [n EXCEPT !.lp_farm.farm_emissions[i]
                                    = ChangedFarm(old[i], until, rate)]
    BY DEF ModifyFarm
  <1>5. /\ (until - now) * rate >= 0
        /\ tokens' = [tokens EXCEPT !.farm[mint] = (until - now) * rate]
        /\ UNCHANGED <<now, lp_position, opened, sy_emissions>>
    BY DEF ModifyFarm, CanTransfer
  <1>6. rate \in Nat /\ until \in Nat
    BY LpFarmAssumption
  <1> HIDE DEF n
  <1>7. old \in Seq(FarmEmission) /\ Len(old) = Len(market.lp_farm.farm_emissions)
        /\ Len(old) \in Nat /\ DOMAIN old = 1..Len(old)
    BY <1>2, <1>3 DEF Settled, Market, LpFarmAccount
  <1>8. i \in DOMAIN old
    <2>1. i \in DOMAIN market.lp_farm.farm_emissions
      BY DEF FarmsOf
    <2> QED
      BY <1>1, <1>7, <2>1, IndexesReflexive
  <1> DEFINE changed == ChangedFarm(old[i], until, rate)
             new == [old EXCEPT ![i] = changed]
  <1>9. changed \in FarmEmission /\ changed.index = old[i].index
    <2>1. old[i] \in FarmEmission
      BY <1>7, <1>8
    <2> QED
      BY <1>6, <2>1 DEF ChangedFarm, FarmEmission
  <1>10. market' = [n EXCEPT !.lp_farm.farm_emissions = new]
    BY <1>4
  <1> HIDE DEF changed, old
  <1>11. /\ new \in Seq(FarmEmission) /\ Len(new) = Len(old)
         /\ \A k \in DOMAIN old : new[k].index = old[k].index
    <2>1. new \in [1..Len(old) -> FarmEmission]
      <3>1. \A k \in 1..Len(old) : old[k] \in FarmEmission
        BY <1>7
      <3>2. new = [k \in 1..Len(old) |-> IF k = i THEN changed ELSE old[k]]
        BY <1>7
      <3> HIDE DEF new
      <3> QED
        BY <1>9, <3>1, <3>2
    <2>2. \A k \in DOMAIN old : new[k].index = old[k].index
      BY <1>9
    <2> HIDE DEF new
    <2> QED
      BY <1>7, <2>1, <2>2, SeqOfFunction
  <1> HIDE DEF new
  <1>12. /\ market' \in Market /\ market'.lp_farm.farm_emissions = new
         /\ market'.emissions = market.emissions
    BY <1>2, <1>3, <1>10, <1>11 DEF Market, LpFarmAccount
  <1>13. \A k \in DOMAIN market.lp_farm.farm_emissions :
            market.lp_farm.farm_emissions[k].index
                <= market'.lp_farm.farm_emissions[k].index
    <2> TAKE k \in DOMAIN market.lp_farm.farm_emissions
    <2>1. k \in DOMAIN old
      BY <1>1, <1>7, IndexesReflexive
    <2>2. market.lp_farm.farm_emissions[k].index <= old[k].index
      BY <1>2 DEF Settled, old
    <2> QED
      BY <1>11, <1>12, <2>1, <2>2
  <1>14. Len(market.lp_farm.farm_emissions) <= Len(market'.lp_farm.farm_emissions)
    BY <1>7, <1>11, <1>12, SMT
  <1>15. /\ Len(market.emissions) <= Len(market'.emissions)
         /\ \A k \in DOMAIN market.emissions :
                market.emissions[k].lp_share_index
                    <= market'.emissions[k].lp_share_index
    <2>1. Len(market.emissions) <= Len(market.emissions)
      BY <1>1, IndexesReflexive, SMT
    <2> QED
      BY <1>1, <1>12, <2>1, IndexesReflexive
  <1>16. \A owner \in Owners :
            /\ FarmsBehind(lp_position'[owner], market')
            /\ ~MayRemoveMarketEmission =>
                    EmissionsBehind(lp_position'[owner], market')
    BY <1>5, <1>12, <1>13, <1>14, <1>15, MarketStepFacts
  <1>17. ~MayRemoveMarketEmission => StreamsListed(market', sy_emissions')
    BY <1>5, <1>12 DEF LpInv, StreamsListed
  <1>18. tokens' \in [lp_wallets : Nat, farm : [FarmMints -> Nat]]
    <2>1. until - now \in Int
      BY <1>1, <1>6, SMT
    <2>2. (until - now) * rate \in Int
      BY <1>6, <2>1, SMT
    <2>3. (until - now) * rate \in Nat
      BY <1>5, <2>2, SMT
    <2> QED
      BY <1>1, <1>5, <2>3
  <1>19. NeutralStep
    BY <1>5, PositionsUntouched
  <1> QED
    BY <1>1, <1>5, <1>12, <1>16, <1>17, <1>18, <1>19 DEF LpInv, LpTypeOK

\* The accounts that claim a market's emissions.
LEMMA ClaimAccountsType ==
    ASSUME NEW m \in Market
    PROVE  ClaimAccounts(m.emissions) \in Seq(Nat)
  <1> DEFINE e == m.emissions
  <1>1. e \in Seq(MarketEmission) /\ Len(e) \in Nat /\ DOMAIN e = 1..Len(e)
    BY DEF Market
  <1>2. \A i \in 1..Len(e) : e[i].token_escrow \in Nat
    <2> TAKE i \in 1..Len(e)
    <2>1. e[i] \in MarketEmission
      BY <1>1
    <2> QED
      BY <2>1 DEF MarketEmission
  <1>3. ClaimAccounts(e) \in [1..Len(e) -> Nat]
    BY <1>1, <1>2 DEF ClaimAccounts
  <1> HIDE DEF e
  <1>4. ClaimAccounts(e) \in Seq(Nat)
    BY <1>1, <1>3, SeqOfFunction
  <1> QED
    BY <1>4 DEF e

LEMMA AddMarketEmissionFacts ==
    ASSUME LpInv, AddMarketEmission
    PROVE  LpInv' /\ NeutralStep
  <1> DEFINE old == market.emissions
             claims == ClaimAccounts(old)
  <1>1. /\ LpTypeOK /\ market \in Market /\ sy_emissions \in Seq(Nat)
        /\ old \in Seq(MarketEmission) /\ Len(old) \in Nat
        /\ DOMAIN old = 1..Len(old) /\ claims \in Seq(Nat)
    BY ClaimAccountsType DEF LpInv, LpTypeOK, Market
  <1>2. PICK stream \in 1..MaxStreams :
            /\ \A i \in DOMAIN old : old[i].token_escrow # stream
            /\ \A other \in 1..(stream - 1) : \E i \in DOMAIN old :
                    old[i].token_escrow = other
            /\ market' = [market EXCEPT
                    !.emissions = Append(old, [token_escrow |-> stream,
                                               lp_share_index |-> 0,
                                               last_seen_staged |-> 0]),
                    !.claim_emission = Append(claims, stream)]
    BY DEF AddMarketEmission
  <1>3. UNCHANGED <<now, lp_position, opened, tokens, sy_emissions>>
    BY DEF AddMarketEmission
  <1> DEFINE added == [token_escrow |-> stream, lp_share_index |-> 0,
                       last_seen_staged |-> 0]
             new == Append(old, added)
             listed == Append(claims, stream)
  <1>4. stream \in Nat
    BY LpFarmAssumption, SMT
  <1>5. added \in MarketEmission /\ added.token_escrow = stream
        /\ added.last_seen_staged = 0
    BY <1>4 DEF MarketEmission
  <1> HIDE DEF added, old, claims
  <1>6. /\ new \in Seq(MarketEmission) /\ Len(new) = Len(old) + 1
        /\ \A i \in 1..Len(old) : new[i] = old[i]
        /\ new[Len(old) + 1] = added
        /\ listed \in Seq(Nat)
    BY <1>1, <1>4, <1>5
  <1>7. market' = [market EXCEPT !.emissions = new, !.claim_emission = listed]
    BY <1>2 DEF added, old, claims
  <1> HIDE DEF new, listed
  <1>8. /\ market' \in Market /\ market'.emissions = new
        /\ market'.lp_farm = market.lp_farm
    BY <1>1, <1>6, <1>7 DEF Market
  <1>9. /\ Len(market.emissions) <= Len(market'.emissions)
        /\ \A i \in DOMAIN market.emissions :
               market.emissions[i].lp_share_index
                    <= market'.emissions[i].lp_share_index
    <2>1. Len(old) <= Len(new)
      BY <1>1, <1>6, SMT
    <2>2. \A i \in DOMAIN old : new[i] = old[i]
      BY <1>1, <1>6
    <2> QED
      BY <1>1, <1>8, <2>1, <2>2, IndexesReflexive DEF old
  <1>10. /\ Len(market.lp_farm.farm_emissions)
                <= Len(market'.lp_farm.farm_emissions)
         /\ \A i \in DOMAIN market.lp_farm.farm_emissions :
                market.lp_farm.farm_emissions[i].index
                    <= market'.lp_farm.farm_emissions[i].index
    <2>1. Len(market.lp_farm.farm_emissions) <= Len(market.lp_farm.farm_emissions)
      BY <1>1, IndexesReflexive, SMT
    <2> QED
      BY <1>1, <1>8, <2>1, IndexesReflexive
  <1>11. \A owner \in Owners :
            /\ FarmsBehind(lp_position'[owner], market')
            /\ ~MayRemoveMarketEmission =>
                    EmissionsBehind(lp_position'[owner], market')
    BY <1>3, <1>8, <1>9, <1>10, MarketStepFacts
  <1>12. ~MayRemoveMarketEmission => StreamsListed(market', sy_emissions')
    <2> SUFFICES ASSUME ~MayRemoveMarketEmission
                 PROVE  StreamsListed(market', sy_emissions')
      OBVIOUS
    <2>1. \A i \in DOMAIN old :
            /\ old[i].token_escrow = i
            /\ old[i].last_seen_staged
                 <= IF i \in DOMAIN sy_emissions THEN sy_emissions[i] ELSE 0
      BY DEF LpInv, StreamsListed, old
    <2>2. stream = Len(old) + 1
      <3>1. stream \notin 1..Len(old)
        BY <1>1, <1>2, <2>1 DEF old
      <3>2. \A other \in 1..(stream - 1) : other \in 1..Len(old)
        <4> TAKE other \in 1..(stream - 1)
        <4>1. PICK i \in DOMAIN old : old[i].token_escrow = other
          BY <1>2 DEF old
        <4>2. other = i
          BY <2>1, <4>1
        <4> QED
          BY <1>1, <4>2 DEF old
      <3>3. stream >= 1
        BY LpFarmAssumption, SMT
      <3>4. stream <= Len(old) + 1
        <4>1. SUFFICES ASSUME stream > Len(old) + 1
                       PROVE  FALSE
          BY <1>1, <1>4, SMT
        <4>2. Len(old) + 1 \in 1..(stream - 1)
          BY <1>1, <1>4, <4>1, SMT
        <4>3. Len(old) + 1 \in 1..Len(old)
          BY <3>2, <4>2
        <4> QED
          BY <1>1, <4>3, SMT
      <3> QED
        BY <1>1, <1>4, <3>1, <3>3, <3>4, SMT
    <2> SUFFICES ASSUME NEW i \in DOMAIN new
                 PROVE  /\ new[i].token_escrow = i
                        /\ new[i].last_seen_staged
                             <= IF i \in DOMAIN sy_emissions THEN sy_emissions[i]
                                ELSE 0
      BY <1>3, <1>8 DEF StreamsListed
    <2>3. i \in DOMAIN old \/ i = Len(old) + 1
      BY <1>1, <1>6, SMT
    <2>4. CASE i \in DOMAIN old
      BY <1>1, <1>6, <2>1, <2>4
    <2>5. CASE i = Len(old) + 1
      <3>1. new[i].token_escrow = i /\ new[i].last_seen_staged = 0
        BY <1>5, <1>6, <2>2, <2>5
      <3>2. i \in DOMAIN sy_emissions => sy_emissions[i] \in Nat
        BY <1>1
      <3> QED
        BY <3>1, <3>2, SMT
    <2> QED
      BY <2>3, <2>4, <2>5
  <1>13. NeutralStep
    BY <1>3, PositionsUntouched
  <1> QED
    BY <1>1, <1>3, <1>8, <1>11, <1>12, <1>13 DEF LpInv, LpTypeOK

LEMMA RemoveMarketEmissionFacts ==
    ASSUME LpInv, NEW i, RemoveMarketEmission(i)
    PROVE  LpInv' /\ NeutralStep
  <1> DEFINE old == market.emissions
             new == RemoveAt(old, i)
  <1>1. /\ LpTypeOK /\ market \in Market
        /\ old \in Seq(MarketEmission) /\ Len(old) \in Nat
        /\ DOMAIN old = 1..Len(old)
    BY DEF LpInv, LpTypeOK, Market
  <1>2. /\ MayRemoveMarketEmission /\ i \in DOMAIN old
        /\ market' = [market EXCEPT !.emissions = new]
        /\ UNCHANGED <<now, lp_position, opened, tokens, sy_emissions>>
    BY DEF RemoveMarketEmission
  <1> HIDE DEF old
  <1>3. new \in Seq(MarketEmission)
    <2>1. i - 1 \in 0..Len(old) /\ i + 1 \in Nat
      BY <1>1, <1>2, SMT
    <2>2. SubSeq(old, 1, i - 1) \in Seq(MarketEmission)
          /\ SubSeq(old, i + 1, Len(old)) \in Seq(MarketEmission)
      BY <1>1, <1>2, <2>1, SMT
    <2> QED
      BY <2>2 DEF RemoveAt
  <1> HIDE DEF new
  <1>4. market' \in Market /\ market'.lp_farm = market.lp_farm
    BY <1>1, <1>2, <1>3 DEF Market
  <1>5. /\ Len(market.lp_farm.farm_emissions)
                <= Len(market'.lp_farm.farm_emissions)
        /\ \A k \in DOMAIN market.lp_farm.farm_emissions :
               market.lp_farm.farm_emissions[k].index
                    <= market'.lp_farm.farm_emissions[k].index
    <2>1. Len(market.lp_farm.farm_emissions) <= Len(market.lp_farm.farm_emissions)
      BY <1>1, IndexesReflexive, SMT
    <2> QED
      BY <1>1, <1>4, <2>1, IndexesReflexive
  <1>6. \A owner \in Owners :
            /\ FarmsBehind(lp_position'[owner], market')
            /\ ~MayRemoveMarketEmission =>
                    EmissionsBehind(lp_position'[owner], market')
    BY <1>2, <1>4, <1>5, MarketStepFacts
  <1>7. NeutralStep
    BY <1>2, PositionsUntouched
  <1> QED
    BY <1>1, <1>2, <1>4, <1>6, <1>7 DEF LpInv, LpTypeOK

\* What leaves the lists of the market as they are leaves the positions behind.
LEMMA SameListsFacts ==
    ASSUME LpInv, UNCHANGED lp_position, market' \in Market,
           market'.lp_farm = market.lp_farm,
           market'.emissions = market.emissions
    PROVE  \A owner \in Owners :
                /\ FarmsBehind(lp_position'[owner], market')
                /\ ~MayRemoveMarketEmission =>
                        EmissionsBehind(lp_position'[owner], market')
  BY DEF LpInv, FarmsBehind, EmissionsBehind, FarmIndexes, EmissionIndexes

LEMMA ChangeCpiAccountsFacts ==
    ASSUME LpInv, ChangeCpiAccounts
    PROVE  LpInv' /\ NeutralStep
  <1>1. LpTypeOK /\ market \in Market
    BY DEF LpInv, LpTypeOK
  <1> DEFINE claims == ClaimAccounts(market.emissions)
  <1>2. claims \in Seq(Nat)
    BY <1>1, ClaimAccountsType
  <1>3. /\ market' = [market EXCEPT !.claim_emission = claims]
        /\ UNCHANGED <<now, lp_position, opened, tokens, sy_emissions>>
    BY DEF ChangeCpiAccounts
  <1> HIDE DEF claims
  <1>4. /\ market' \in Market /\ market'.lp_farm = market.lp_farm
        /\ market'.emissions = market.emissions
    BY <1>1, <1>2, <1>3 DEF Market
  <1>5. \A owner \in Owners :
            /\ FarmsBehind(lp_position'[owner], market')
            /\ ~MayRemoveMarketEmission =>
                    EmissionsBehind(lp_position'[owner], market')
    BY <1>3, <1>4, SameListsFacts
  <1>6. ~MayRemoveMarketEmission => StreamsListed(market', sy_emissions')
    BY <1>3, <1>4 DEF LpInv, StreamsListed
  <1>7. NeutralStep
    BY <1>3, PositionsUntouched
  <1> QED
    BY <1>1, <1>3, <1>4, <1>5, <1>6, <1>7 DEF LpInv, LpTypeOK

\* The streams of the SY program grow.
LEMMA StreamsListedLater ==
    ASSUME NEW m \in Market, NEW before \in Seq(Nat), NEW after \in Seq(Nat),
           StreamsListed(m, before), Len(before) <= Len(after),
           \A i \in DOMAIN before : before[i] <= after[i]
    PROVE  StreamsListed(m, after)
  <1> SUFFICES ASSUME NEW i \in DOMAIN m.emissions
               PROVE  m.emissions[i].last_seen_staged
                        <= IF i \in DOMAIN after THEN after[i] ELSE 0
    BY DEF StreamsListed
  <1>1. m.emissions[i].last_seen_staged
            <= IF i \in DOMAIN before THEN before[i] ELSE 0
    BY DEF StreamsListed
  <1> DEFINE seen == m.emissions[i].last_seen_staged
  <1>2. seen \in Nat
    <2>1. m.emissions[i] \in MarketEmission
      BY DEF Market
    <2> QED
      BY <2>1 DEF MarketEmission
  <1> HIDE DEF seen
  <1>3. /\ DOMAIN before \subseteq DOMAIN after
        /\ i \in DOMAIN before => before[i] \in Nat
        /\ i \in DOMAIN after => after[i] \in Nat
    BY SMT
  <1>4. CASE i \in DOMAIN before
    <2>1. seen <= before[i] /\ before[i] <= after[i]
      BY <1>1, <1>4 DEF seen
    <2>2. seen <= after[i]
      BY <1>2, <1>3, <1>4, <2>1, SMT
    <2> QED
      BY <1>3, <1>4, <2>2 DEF seen
  <1>5. CASE i \notin DOMAIN before
    <2>1. seen <= 0
      BY <1>1, <1>5 DEF seen
    <2>2. i \in DOMAIN after => seen <= after[i]
      BY <1>2, <1>3, <2>1, SMT
    <2> QED
      BY <2>1, <2>2 DEF seen
  <1> QED
    BY <1>4, <1>5

LEMMA TickFacts ==
    ASSUME LpInv, Tick
    PROVE  LpInv' /\ NeutralStep
  <1>1. LpTypeOK /\ market \in Market /\ now \in Nat /\ sy_emissions \in Seq(Nat)
        /\ DOMAIN sy_emissions = 1..Len(sy_emissions) /\ Len(sy_emissions) \in Nat
    BY DEF LpInv, LpTypeOK
  <1>2. PICK credit \in [DOMAIN sy_emissions -> Credits] :
            sy_emissions' = [i \in DOMAIN sy_emissions |->
                                sy_emissions[i] + credit[i]]
    BY DEF Tick
  <1>3. now' = now + 1 /\ UNCHANGED <<market, lp_position, opened, tokens>>
    BY DEF Tick
  <1>4. \A i \in DOMAIN sy_emissions :
            /\ sy_emissions[i] + credit[i] \in Nat
            /\ sy_emissions[i] <= sy_emissions[i] + credit[i]
    <2> TAKE i \in DOMAIN sy_emissions
    <2>1. sy_emissions[i] \in Nat /\ credit[i] \in Nat
      <3>1. Credits \subseteq Nat
        BY LpFarmAssumption
      <3>2. credit[i] \in Credits
        OBVIOUS
      <3>3. sy_emissions[i] \in Nat
        BY <1>1
      <3>4. credit[i] \in Nat
        BY <3>1, <3>2, Zenon
      <3> QED
        BY <3>3, <3>4
    <2> QED
      BY <2>1, SMT
  <1>5. sy_emissions' \in [1..Len(sy_emissions) -> Nat]
    BY <1>1, <1>2, <1>4
  <1>6. /\ sy_emissions' \in Seq(Nat) /\ Len(sy_emissions') = Len(sy_emissions)
        /\ \A i \in DOMAIN sy_emissions : sy_emissions[i] <= sy_emissions'[i]
    BY <1>1, <1>2, <1>4, <1>5, SeqOfFunction
  <1>7. ~MayRemoveMarketEmission => StreamsListed(market', sy_emissions')
    <2>1. Len(sy_emissions) <= Len(sy_emissions')
      BY <1>1, <1>6, SMT
    <2>2. ~MayRemoveMarketEmission => StreamsListed(market, sy_emissions')
      BY <1>1, <1>6, <2>1, StreamsListedLater DEF LpInv
    <2> QED
      BY <1>3, <2>2
  <1>8. now' \in Nat
    BY <1>1, <1>3, SMT
  <1>9. \A owner \in Owners :
            /\ FarmsBehind(lp_position'[owner], market')
            /\ ~MayRemoveMarketEmission =>
                    EmissionsBehind(lp_position'[owner], market')
    BY <1>1, <1>3, SameListsFacts
  <1>10. NeutralStep
    BY <1>3, PositionsUntouched
  <1> QED
    BY <1>1, <1>3, <1>6, <1>7, <1>8, <1>9, <1>10 DEF LpInv, LpTypeOK

LEMMA SyAddsStreamFacts ==
    ASSUME LpInv, SyAddsStream
    PROVE  LpInv' /\ NeutralStep
  <1>1. LpTypeOK /\ market \in Market /\ sy_emissions \in Seq(Nat)
        /\ DOMAIN sy_emissions = 1..Len(sy_emissions) /\ Len(sy_emissions) \in Nat
    BY DEF LpInv, LpTypeOK
  <1>2. /\ sy_emissions' = Append(sy_emissions, 0)
        /\ UNCHANGED <<now, market, lp_position, opened, tokens>>
    BY DEF SyAddsStream
  <1>3. /\ sy_emissions' \in Seq(Nat)
        /\ Len(sy_emissions') = Len(sy_emissions) + 1
        /\ \A i \in 1..Len(sy_emissions) : sy_emissions'[i] = sy_emissions[i]
    BY <1>1, <1>2
  <1>4. \A i \in DOMAIN sy_emissions : sy_emissions[i] <= sy_emissions'[i]
    <2> TAKE i \in DOMAIN sy_emissions
    <2>1. sy_emissions'[i] = sy_emissions[i] /\ sy_emissions[i] \in Nat
      BY <1>1, <1>3
    <2> QED
      BY <2>1, SMT
  <1>5. ~MayRemoveMarketEmission => StreamsListed(market', sy_emissions')
    <2>1. Len(sy_emissions) <= Len(sy_emissions')
      BY <1>1, <1>3, SMT
    <2>2. ~MayRemoveMarketEmission => StreamsListed(market, sy_emissions')
      BY <1>1, <1>3, <1>4, <2>1, StreamsListedLater DEF LpInv
    <2> QED
      BY <1>2, <2>2
  <1>6. \A owner \in Owners :
            /\ FarmsBehind(lp_position'[owner], market')
            /\ ~MayRemoveMarketEmission =>
                    EmissionsBehind(lp_position'[owner], market')
    BY <1>1, <1>2, SameListsFacts
  <1>7. NeutralStep
    BY <1>2, PositionsUntouched
  <1> QED
    BY <1>1, <1>2, <1>3, <1>5, <1>6, <1>7 DEF LpInv, LpTypeOK

-----------------------------------------------------------------------------
(* The theorems.                                                           *)

\* Every step keeps the invariant, and leaves what is due alone.
LEMMA LpStep ==
    ASSUME LpInv, [Next]_vars
    PROVE  LpInv' /\ (NeutralStep \/ UNCHANGED vars)
  <1>1. CASE UNCHANGED vars
    <2>1. UNCHANGED <<now, market, lp_position, opened, tokens, sy_emissions>>
      BY <1>1 DEF vars
    <2>2. LpTypeOK'
      BY <2>1 DEF LpInv, LpTypeOK
    <2>3. \A owner \in Owners :
            /\ FarmsBehind(lp_position'[owner], market')
            /\ ~MayRemoveMarketEmission =>
                    EmissionsBehind(lp_position'[owner], market')
      BY <2>1 DEF LpInv
    <2>4. ~MayRemoveMarketEmission => StreamsListed(market', sy_emissions')
      BY <2>1 DEF LpInv
    <2> QED
      BY <1>1, <2>2, <2>3, <2>4 DEF LpInv
  <1>2. CASE Tick
    BY <1>2, TickFacts
  <1>3. CASE SyAddsStream
    BY <1>3, SyAddsStreamFacts
  <1>4. CASE OwnerStep
    <2>1. PICK owner \in Owners :
            \/ InitLpPosition(owner)
            \/ \E amount \in LpAmounts : DepositLp(owner, amount)
            \/ \E amount \in LpAmounts : WithdrawLp(owner, amount)
            \/ \E i \in 1..MaxStreams : MarketCollectEmission(owner, i)
            \/ \E mint \in FarmMints : ClaimFarmEmissions(owner, mint)
      BY <1>4 DEF OwnerStep
    <2>2. CASE InitLpPosition(owner)
      BY <2>2, InitLpPositionFacts
    <2>3. CASE \E amount \in LpAmounts : DepositLp(owner, amount)
      BY <2>3, DepositLpFacts
    <2>4. CASE \E amount \in LpAmounts : WithdrawLp(owner, amount)
      BY <2>4, WithdrawLpFacts
    <2>5. CASE \E i \in 1..MaxStreams : MarketCollectEmission(owner, i)
      BY <2>5, MarketCollectEmissionFacts
    <2>6. CASE \E mint \in FarmMints : ClaimFarmEmissions(owner, mint)
      BY <2>6, ClaimFarmEmissionsFacts
    <2> QED
      BY <2>1, <2>2, <2>3, <2>4, <2>5, <2>6
  <1>5. CASE AdminStep
    <2>1. CASE \E mint \in FarmMints, rate \in FarmRates, until \in FarmExpiries :
                    AddFarm(mint, rate, until)
      BY <2>1, AddFarmFacts
    <2>2. CASE \E mint \in FarmMints, rate \in ModifiedRates, until \in FarmExpiries :
                    ModifyFarm(mint, until, rate)
      BY <2>2, ModifyFarmFacts
    <2>3. CASE AddMarketEmission
      BY <2>3, AddMarketEmissionFacts
    <2>4. CASE \E i \in 1..MaxStreams : RemoveMarketEmission(i)
      BY <2>4, RemoveMarketEmissionFacts
    <2>5. CASE ChangeCpiAccounts
      BY <2>5, ChangeCpiAccountsFacts
    <2> QED
      BY <1>5, <2>1, <2>2, <2>3, <2>4, <2>5 DEF AdminStep
  <1> QED
    BY <1>1, <1>2, <1>3, <1>4, <1>5 DEF Next

LEMMA LpInit ==
    ASSUME Init
    PROVE  LpInv
  <1>1. /\ <<>> \in Seq(MarketEmission) /\ <<>> \in Seq(FarmEmission)
        /\ <<>> \in Seq(Tracker) /\ <<>> \in Seq(Nat) /\ Len(<<>>) = 0
        /\ DOMAIN <<>> = {}
    OBVIOUS
  <1>2. LpTypeOK
    <2>1. market \in Market
      BY <1>1 DEF Init, Market, LpFarmAccount
    <2>2. NoPosition \in LpPosition
      BY <1>1 DEF NoPosition, LpPosition
    <2>3. lp_position \in [Owners -> LpPosition]
      BY <2>2 DEF Init
    <2>4. tokens \in [lp_wallets : Nat, farm : [FarmMints -> Nat]]
      BY LpFarmAssumption DEF Init
    <2> QED
      BY <1>1, <2>1, <2>3, <2>4 DEF Init, LpTypeOK
  <1>3. \A owner \in Owners : /\ lp_position[owner].farms = <<>>
                              /\ lp_position[owner].emissions = <<>>
    BY DEF Init, NoPosition
  <1>4. market.emissions = <<>> /\ market.lp_farm.farm_emissions = <<>>
    BY DEF Init
  <1>5. \A owner \in Owners : /\ FarmsBehind(lp_position[owner], market)
                              /\ EmissionsBehind(lp_position[owner], market)
    <2>1. 0 <= 0
      BY SMT
    <2> QED
      BY <1>1, <1>3, <1>4, <2>1 DEF FarmsBehind, EmissionsBehind, CanEarnAll
  <1>6. StreamsListed(market, sy_emissions)
    BY <1>1, <1>4 DEF StreamsListed
  <1> QED
    BY <1>2, <1>5, <1>6 DEF LpInv

\* The invariant: no position has seen a farm or an index that the market does
\* not have, and, if no emission is ever removed, each emission stands where
\* its stream does and has seen no more of it than there is (deposit_lp,
\* withdraw_lp, market_collect_emission, claim_farm_emissions and the
\* administrators' instructions on farms and emissions).
THEOREM LpInvariance == Spec => []LpInv
  <1>1. Init => LpInv
    BY LpInit
  <1>2. LpInv /\ [Next]_vars => LpInv'
    BY LpStep
  <1> QED
    BY <1>1, <1>2, PTL DEF Spec

\* The accounts keep their types: no balance, index, staged amount or token
\* account ever goes below zero.
THEOREM LpTypeCorrect == Spec => []LpTypeOK
  <1>1. LpInv => LpTypeOK
    BY DEF LpInv
  <1> QED
    BY <1>1, LpInvariance, PTL

\* Whatever the administrators do to farms and emissions, staging the farm
\* rewards of a position never subtracts below zero.
THEOREM FarmsNeverUnderflowAlways == Spec => []FarmsNeverUnderflow
  <1>1. LpInv => FarmsNeverUnderflow
    BY DEF LpInv, FarmsBehind, FarmsNeverUnderflow
  <1> QED
    BY <1>1, LpInvariance, PTL

\* Deposits and withdrawals of LP, by anyone, leave what every position is due
\* up to now as it was; only a payment lowers it.
THEOREM Neutrality == Spec => StakingIsNeutral
  <1>1. LpInv /\ [Next]_vars => [NeutralStep]_vars
    BY LpStep
  <1> QED
    BY <1>1, LpInvariance, PTL DEF Spec, StakingIsNeutral

\* If no emission is ever removed, and the market lists every stream of the SY
\* program, then no deposit or withdrawal of LP fails while it stages rewards:
\* the stake can always be taken out.
THEOREM StakeAlwaysStageable ==
    ASSUME ~MayRemoveMarketEmission
    PROVE  Spec => []StagingNeverFails
  <1>1. LpInv => StagingNeverFails
    <2> SUFFICES ASSUME LpInv, Len(sy_emissions) <= Len(market.emissions),
                        NEW owner \in opened
                 PROVE  CanStage(owner)
      BY DEF StagingNeverFails
    <2> DEFINE n == Settle(market)
               p == lp_position[owner]
    <2>1. /\ market \in Market /\ now \in Nat /\ sy_emissions \in Seq(Nat)
          /\ owner \in Owners /\ p \in LpPosition
      BY DEF LpInv, LpTypeOK
    <2>2. CanUpdateEmissions(market)
      <3>1. \A i \in DOMAIN sy_emissions :
                market.emissions[i].last_seen_staged <= sy_emissions[i]
        <4> TAKE i \in DOMAIN sy_emissions
        <4>1. i \in DOMAIN market.emissions
          <5>1. /\ DOMAIN sy_emissions = 1..Len(sy_emissions)
                /\ Len(sy_emissions) \in Nat
            BY <2>1
          <5>2. /\ DOMAIN market.emissions = 1..Len(market.emissions)
                /\ Len(market.emissions) \in Nat
            BY <2>1, IndexesReflexive
          <5> QED
            BY <5>1, <5>2, SMT
        <4> QED
          BY <4>1 DEF LpInv, StreamsListed
      <3> QED
        BY <3>1 DEF CanUpdateEmissions
    <2>3. Settled(market, n)
      BY <2>1, <2>2, SettleFacts
    <2>4. n \in Market
      BY <2>3 DEF Settled
    <2> HIDE DEF n
    <2>5. FarmsBehind(p, n) /\ EmissionsBehind(p, n)
      BY <2>1, <2>3, <2>4, BehindSettled
    <2>6. CanStageAll(p, n)
      BY <2>5 DEF CanStageAll, FarmsBehind, EmissionsBehind
    <2>7. Fits(StageAll(p, n), n)
      <3> DEFINE q == StageAll(p, n)
                 e == EnsureTrackersAndEarnAll(p.emissions, EmissionIndexes(n),
                                               p.lp_balance)
                 f == EnsureTrackersAndEarnAll(p.farms, FarmIndexes(n),
                                               p.lp_balance)
      <3>1. /\ p.emissions \in Seq(Tracker) /\ p.farms \in Seq(Tracker)
            /\ p.lp_balance \in Nat
            /\ Len(p.emissions) \in Nat /\ Len(p.farms) \in Nat
        BY <2>1 DEF LpPosition
      <3>2. /\ EmissionIndexes(n) \in Seq(Nat)
            /\ Len(EmissionIndexes(n)) = Len(n.emissions)
            /\ FarmIndexes(n) \in Seq(Nat)
            /\ Len(FarmIndexes(n)) = Len(n.lp_farm.farm_emissions)
        BY <2>4, IndexesType
      <3>3. Len(e) = Larger(Len(p.emissions), Len(n.emissions))
            /\ Len(f) = Larger(Len(p.farms), Len(n.lp_farm.farm_emissions))
        <4>1. /\ CanEarnAll(p.emissions, EmissionIndexes(n))
              /\ CanEarnAll(p.farms, FarmIndexes(n))
          BY <2>6 DEF CanStageAll
        <4>2. Len(e) = Larger(Len(p.emissions), Len(EmissionIndexes(n)))
          BY <3>1, <3>2, <4>1, EarnAllFacts
        <4>3. Len(f) = Larger(Len(p.farms), Len(FarmIndexes(n)))
          BY <3>1, <3>2, <4>1, EarnAllFacts
        <4> QED
          BY <3>2, <4>2, <4>3
      <3>4. q.emissions = e /\ q.farms = f
        BY <2>1 DEF StageAll, LpPosition
      <3>5. Len(n.emissions) \in Nat /\ Len(n.lp_farm.farm_emissions) \in Nat
        BY <2>4, IndexesReflexive
      <3> HIDE DEF q, e, f
      <3>6. Len(q.emissions) = Len(n.emissions)
            /\ Len(q.farms) = Len(n.lp_farm.farm_emissions)
        BY <2>5, <3>1, <3>3, <3>4, <3>5, SMT
           DEF FarmsBehind, EmissionsBehind, Larger
      <3>7. Fits(q, n)
        BY <3>5, <3>6, SMT DEF Fits
      <3> QED
        BY <3>7 DEF q
    <2> QED
      BY <2>2, <2>6, <2>7 DEF CanStage, n
  <1> QED
    BY <1>1, LpInvariance, PTL

-----------------------------------------------------------------------------
(***************************************************************************)
(* What the rewards are worth is there to be paid: FundedInv counts what   *)
(* every owner is due in parts of a token, ONE to the token, before any    *)
(* division rounds it down, and every step keeps the sum within what the   *)
(* stream owes and what the farms hold.                                    *)
(***************************************************************************)

-----------------------------------------------------------------------------
(* What is due, in parts of a token.                                       *)

\* The shares of num tokens among den staked ones are worth num at most.
LEMMA SharesWithin ==
    ASSUME NEW num \in Nat, NEW den \in Nat
    PROVE  /\ FromRatio(num, den) \in Nat
           /\ FromRatio(num, den) * den <= ONE * num
  <1> DEFINE k == FromRatio(num, den)
  <1>1. k \in Nat
    BY FromRatioType
  <1>2. CASE den = 0
    <2> HIDE DEF k
    <2>1. k * den = 0 /\ 0 <= ONE * num
      BY <1>1, <1>2, OneAssumption, SMT
    <2> QED
      BY <1>1, <2>1 DEF k
  <1>3. CASE den # 0
    <2> DEFINE x == num * ONE
               y == den * ONE
               z == x * ONE + RoundingCorrection
    <2>1. x \in Nat /\ y \in Nat \ {0} /\ RoundingCorrection \in Nat
          /\ RoundingCorrection < ONE /\ ONE \in Nat \ {0}
      BY <1>3, NaturalType, CorrectionType, OneAssumption, SMT DEF FromNatural
    <2>2. k = z \div y
      BY <1>3 DEF FromRatio, NumDiv, FromNatural
    <2> DEFINE p == k * den
    <2> HIDE DEF k, x
    <2>3. z \in Nat
      BY <2>1, SMT
    <2> HIDE DEF y, z
    <2>4. y * k <= z
      BY <2>1, <2>2, <2>3, DivFacts
    <2>5. y * k = p * ONE /\ p \in Nat
      BY <1>1, OneAssumption, SMT DEF y
    <2> HIDE DEF p
    <2>6. p <= x
      <3> SUFFICES ASSUME ~(p <= x) PROVE FALSE
        OBVIOUS
      <3>1. x + 1 <= p /\ x + 1 \in Nat
        BY <2>1, <2>5, SMT
      <3>2. ONE * (x + 1) <= ONE * p
        BY <2>1, <2>5, <3>1, MulMonotone
      <3>3. ONE * (x + 1) = x * ONE + ONE /\ ONE * p = p * ONE /\ x * ONE \in Nat
            /\ p * ONE \in Nat
        BY <2>1, <2>5, SMT
      <3>4. x * ONE + ONE <= x * ONE + RoundingCorrection
        <4>1. p * ONE <= x * ONE + RoundingCorrection
          BY <2>4, <2>5 DEF z
        <4>2. x * ONE + ONE <= p * ONE
          BY <3>2, <3>3
        <4> QED
          BY <2>1, <3>3, <4>1, <4>2, SMT
      <3> QED
        BY <2>1, <3>3, <3>4, SMT
    <2>7. p <= ONE * num
      BY <2>6, OneAssumption, SMT DEF x
    <2> QED
      BY <1>1, <2>7 DEF p, k
  <1> QED
    BY <1>2, <1>3 DEF k

\* What a tracker shows.
SeenBy(trackers, i) == IF i \in DOMAIN trackers THEN trackers[i] ELSE NewTracker

\* It has seen no more than index.
Behind(trackers, i, index) == SeenBy(trackers, i).last_seen_index <= index

LEMMA SeenByFacts ==
    ASSUME NEW trackers \in Seq(Tracker), NEW i
    PROVE  /\ SeenBy(trackers, i) \in Tracker
           /\ SeenBy(trackers, i).staged \in Nat
           /\ SeenBy(trackers, i).last_seen_index \in Nat
  <1>1. SeenBy(trackers, i) \in Tracker
    BY NewTrackerType DEF SeenBy
  <1> QED
    BY <1>1 DEF Tracker

\* The whole tokens that a position is due are worth no more than the parts.
LEMMA DueWithinFineDue ==
    ASSUME NEW trackers \in Seq(Tracker), NEW i, NEW index \in Nat,
           NEW balance \in Nat, Behind(trackers, i, index)
    PROVE  /\ Due(trackers, i, index, balance) \in Nat
           /\ FineDue(trackers, i, index, balance) \in Nat
           /\ ONE * Due(trackers, i, index, balance)
                <= FineDue(trackers, i, index, balance)
  <1> DEFINE t == SeenBy(trackers, i)
             d == index - t.last_seen_index
             x == d * balance
  <1>1. t \in Tracker /\ t.staged \in Nat /\ t.last_seen_index \in Nat
    BY SeenByFacts
  <1>2. Due(trackers, i, index, balance) = Earned(t, index, balance)
    BY DEF Due, SeenBy
  <1>3. FineDue(trackers, i, index, balance) = ONE * t.staged + d * balance
    BY DEF FineDue, SeenBy
  <1>4. Earned(t, index, balance) = t.staged + Floor(NumMul(d, FromNatural(balance)))
    BY DEF Earned
  <1> HIDE DEF t
  <1>5. d \in Nat
    <2>1. t.last_seen_index <= index
      BY DEF Behind, t
    <2> QED
      BY <1>1, <2>1, SMT
  <1>6. NumMul(d, FromNatural(balance)) = x
    <2> HIDE DEF d
    <2>1. NumMul(d, FromNatural(balance)) = NumMul(FromNatural(balance), d)
      BY <1>5, NaturalType, SMT DEF NumMul
    <2>2. NumMul(FromNatural(balance), d) = balance * d
      BY <1>5, ScaledMul
    <2> QED
      BY <1>5, <2>1, <2>2, SMT
  <1>7. x \in Nat
    <2> HIDE DEF d
    <2> QED
      BY <1>5, SMT
  <1> HIDE DEF d
  <1> DEFINE q == Floor(x)
             s == t.staged
  <1>8. q \in Nat /\ ONE * q <= x
    BY <1>7, FloorType, DivFacts, OneAssumption DEF Floor
  <1> HIDE DEF x, q
  <1>9. Due(trackers, i, index, balance) = s + q
    BY <1>2, <1>4, <1>6 DEF q
  <1>10. FineDue(trackers, i, index, balance) = ONE * s + x
    BY <1>3 DEF x
  <1> HIDE DEF s
  <1>11. s \in Nat
    BY <1>1 DEF s
  <1>12. s + q \in Nat /\ ONE * s + x \in Nat /\ ONE * (s + q) <= ONE * s + x
    <2>1. ONE * (s + q) = ONE * s + ONE * q /\ ONE * s \in Nat /\ ONE * q \in Nat
      BY <1>8, <1>11, OneAssumption, SMT
    <2> QED
      BY <1>7, <1>8, <1>11, <2>1, SMT
  <1> QED
    BY <1>9, <1>10, <1>12

\* A later index adds its step for each token staked.
LEMMA FineDueLater ==
    ASSUME NEW trackers \in Seq(Tracker), NEW i, NEW index \in Nat,
           NEW later \in Nat, index <= later,
           NEW balance \in Nat, Behind(trackers, i, index)
    PROVE  FineDue(trackers, i, later, balance)
             = FineDue(trackers, i, index, balance) + (later - index) * balance
  <1> DEFINE t == SeenBy(trackers, i)
             s == ONE * t.staged
             l == t.last_seen_index
             A == (index - l) * balance
             B == (later - index) * balance
             C == (later - l) * balance
  <1>1. t.staged \in Nat /\ l \in Nat
    BY SeenByFacts
  <1>2. /\ FineDue(trackers, i, index, balance) = s + A
        /\ FineDue(trackers, i, later, balance) = s + C
    <2>1. \A x : FineDue(trackers, i, x, balance) = s + (x - l) * balance
      BY DEF FineDue, SeenBy
    <2> QED
      BY <2>1
  <1>3. s \in Nat
    BY <1>1, OneAssumption, SMT
  <1> HIDE DEF t, s
  <1>4. l <= index
    BY DEF t, Behind
  <1> HIDE DEF l
  <1>5. (later - l) * balance = (index - l) * balance + (later - index) * balance
    <2>1. PICK d \in Nat, k \in Nat : index - l = d /\ later - index = k
      BY <1>1, <1>4, SMT
    <2>2. later - l = d + k
      BY <1>1, <2>1, SMT
    <2>3. (d + k) * balance = d * balance + k * balance
      BY <2>1, SMT
    <2> QED
      BY <2>1, <2>2, <2>3
  <1>6. (index - l) * balance \in Nat /\ (later - index) * balance \in Nat
    <2>1. index - l \in Nat /\ later - index \in Nat
      BY <1>1, <1>4, SMT
    <2> QED
      BY <2>1, SMT
  <1>8. C = A + B /\ A \in Nat /\ B \in Nat /\ C \in Nat
    <2>1. \A a, b \in Nat : a + b \in Nat
      OBVIOUS
    <2> QED
      BY <1>5, <1>6, <2>1, Zenon
  <1> HIDE DEF A, B, C
  <1>9. s + C = s + A + B /\ s + A \in Nat
    BY <1>3, <1>8, SMT
  <1>10. FineDue(trackers, i, later, balance)
            = FineDue(trackers, i, index, balance) + B
    BY <1>2, <1>9
  <1> QED
    BY <1>2, <1>9, <1>10 DEF B

-----------------------------------------------------------------------------
(* What all the owners are due of one reward.                              *)

\* No tracker of reward i has seen more than index.
NotAhead(trackers, i, index) ==
    \A o \in Owners : Behind(trackers[o], i, index)

LEMMA FineDuesTypes ==
    ASSUME NEW T \in [Owners -> Seq(Tracker)], NEW B \in [Owners -> Nat],
           NEW i, NEW index \in Nat, NotAhead(T, i, index)
    PROVE  /\ \A o \in Owners : FineDues(T, B, i, index)[o] \in Nat
           /\ SumOver(FineDues(T, B, i, index), Owners) \in Nat
           /\ SumOver(B, Owners) \in Nat
  <1> DEFINE f == FineDues(T, B, i, index)
  <1>1. ASSUME NEW o \in Owners
        PROVE  f[o] \in Nat
    <2>1. f[o] = FineDue(T[o], i, index, B[o])
      BY DEF FineDues
    <2>2. FineDue(T[o], i, index, B[o]) \in Nat
      BY DueWithinFineDue DEF NotAhead
    <2> QED
      BY <2>1, <2>2
  <1>2. IsFiniteSet(Owners)
    BY LpFarmAssumption
  <1> HIDE DEF f
  <1>3. SumOver(f, Owners) \in Nat
    BY <1>1, <1>2, SumFacts
  <1>4. SumOver(B, Owners) \in Nat
    BY <1>2, SumFacts
  <1> QED
    BY <1>1, <1>3, <1>4 DEF f

\* Settling adds the step of the index for each token staked.
LEMMA DuesSettled ==
    ASSUME NEW T \in [Owners -> Seq(Tracker)], NEW B \in [Owners -> Nat],
           NEW i, NEW index \in Nat, NEW later \in Nat, index <= later,
           NotAhead(T, i, index)
    PROVE  /\ NotAhead(T, i, later)
           /\ SumOver(FineDues(T, B, i, later), Owners)
                = SumOver(FineDues(T, B, i, index), Owners)
                    + (later - index) * SumOver(B, Owners)
  <1> DEFINE f == FineDues(T, B, i, index)
             h == FineDues(T, B, i, later)
             k == later - index
  <1>1. ASSUME NEW o \in Owners
        PROVE  f[o] \in Nat /\ B[o] \in Nat /\ h[o] = f[o] + k * B[o]
    <2>1. f[o] = FineDue(T[o], i, index, B[o])
      BY DEF FineDues
    <2>2. h[o] = FineDue(T[o], i, later, B[o])
      BY DEF FineDues
    <2>3. T[o] \in Seq(Tracker) /\ B[o] \in Nat
          /\ Behind(T[o], i, index)
      BY DEF NotAhead
    <2> HIDE DEF f, h
    <2>4. FineDue(T[o], i, index, B[o]) \in Nat
      BY <2>3, DueWithinFineDue DEF Behind
    <2>5. FineDue(T[o], i, later, B[o])
            = FineDue(T[o], i, index, B[o]) + k * B[o]
      BY <2>3, FineDueLater
    <2> QED
      BY <2>1, <2>2, <2>3, <2>4, <2>5
  <1>2. IsFiniteSet(Owners)
    BY LpFarmAssumption
  <1>3. k \in Nat
    BY SMT
  <1> HIDE DEF f, h, k
  <1>4. SumOver(h, Owners) = SumOver(f, Owners) + k * SumOver(B, Owners)
    <2>1. \A o \in Owners : f[o] \in Nat /\ B[o] \in Nat /\ h[o] = f[o] + k * B[o]
      BY <1>1
    <2> QED
      BY ONLY <1>2, <1>3, <2>1, SumLinear
  <1>5. NotAhead(T, i, later)
    <2>1. \A o \in Owners : SeenBy(T[o], i).last_seen_index \in Nat
      BY SeenByFacts
    <2>2. \A n \in Nat : n <= index => n <= later
      BY SMT
    <2> QED
      BY <2>1, <2>2 DEF NotAhead, Behind
  <1> QED
    BY <1>4, <1>5 DEF f, h, k

\* Reward i of owner is staged, whatever becomes of the balance.
OneStaged(T, B, U, C, owner, i, index) ==
    /\ SeenBy(U[owner], i).last_seen_index = index
    /\ SeenBy(U[owner], i).staged = Due(T[owner], i, index, B[owner])
    /\ \A o \in Owners \ {owner} : U[o] = T[o] /\ C[o] = B[o]

\* Staging rounds what one owner is due down to whole tokens.
LEMMA DuesStaged ==
    ASSUME NEW T \in [Owners -> Seq(Tracker)], NEW B \in [Owners -> Nat],
           NEW U \in [Owners -> Seq(Tracker)], NEW C \in [Owners -> Nat],
           NEW i, NEW index \in Nat, NotAhead(T, i, index),
           NEW owner \in Owners, OneStaged(T, B, U, C, owner, i, index)
    PROVE  /\ SumOver(FineDues(U, C, i, index), Owners) \in Nat
           /\ SumOver(FineDues(T, B, i, index), Owners) \in Nat
           /\ SumOver(FineDues(U, C, i, index), Owners)
                <= SumOver(FineDues(T, B, i, index), Owners)
  <1> DEFINE f == FineDues(T, B, i, index)
             g == FineDues(U, C, i, index)
  <1>0. /\ SeenBy(U[owner], i).last_seen_index = index
        /\ SeenBy(U[owner], i).staged = Due(T[owner], i, index, B[owner])
        /\ \A o \in Owners \ {owner} : U[o] = T[o] /\ C[o] = B[o]
    BY DEF OneStaged
  <1>1. \A o \in Owners : f[o] \in Nat /\ f[o] = FineDue(T[o], i, index, B[o])
    <2>1. \A o \in Owners : f[o] = FineDue(T[o], i, index, B[o])
      BY DEF FineDues
    <2>2. \A o \in Owners : f[o] \in Nat
      BY FineDuesTypes
    <2> QED
      BY <2>1, <2>2
  <1>2. NotAhead(U, i, index)
    <2> SUFFICES ASSUME NEW o \in Owners
                 PROVE  Behind(U[o], i, index)
      BY DEF NotAhead
    <2>1. index <= index
      BY SMT
    <2> QED
      BY <1>0, <2>1 DEF NotAhead, Behind
  <1>3. \A o \in Owners : g[o] \in Nat /\ g[o] = FineDue(U[o], i, index, C[o])
    <2>1. \A o \in Owners : g[o] = FineDue(U[o], i, index, C[o])
      BY DEF FineDues
    <2>2. \A o \in Owners : g[o] \in Nat
      BY <1>2, FineDuesTypes
    <2> QED
      BY <2>1, <2>2
  <1>4. g[owner] <= f[owner]
    <2>1. FineDue(U[owner], i, index, C[owner])
            = ONE * Due(T[owner], i, index, B[owner])
      <3> DEFINE s == SeenBy(U[owner], i)
                 d == Due(T[owner], i, index, B[owner])
      <3>1. FineDue(U[owner], i, index, C[owner])
              = ONE * s.staged + (index - s.last_seen_index) * C[owner]
        BY DEF FineDue, SeenBy
      <3>2. d \in Nat
        BY DueWithinFineDue DEF NotAhead
      <3>3. s.staged = d /\ s.last_seen_index = index
        BY <1>0
      <3> HIDE DEF s, d
      <3>4. C[owner] \in Nat
        OBVIOUS
      <3>5. ONE * d + (index - index) * C[owner] = ONE * d
        BY <3>2, <3>4, OneAssumption, SMT
      <3> QED
        BY <3>1, <3>3, <3>5 DEF d
    <2>2. ONE * Due(T[owner], i, index, B[owner])
            <= FineDue(T[owner], i, index, B[owner])
      BY DueWithinFineDue DEF NotAhead
    <2> QED
      BY <1>1, <1>3, <2>1, <2>2
  <1>5. \A o \in Owners \ {owner} : g[o] = f[o]
    BY <1>0, <1>1, <1>3
  <1>6. IsFiniteSet(Owners)
    BY LpFarmAssumption
  <1> HIDE DEF f, g
  <1>7. ASSUME NEW o \in Owners PROVE g[o] \in Nat /\ f[o] \in Nat /\ g[o] <= f[o]
    <2>1. CASE o = owner
      BY <1>1, <1>3, <1>4, <2>1
    <2>2. CASE o # owner
      <3>1. g[o] = f[o] /\ f[o] \in Nat
        BY <1>1, <1>5, <2>2
      <3> QED
        BY <3>1, SMT
    <2> QED
      BY <2>1, <2>2
  <1>8. /\ SumOver(g, Owners) \in Nat /\ SumOver(f, Owners) \in Nat
        /\ SumOver(g, Owners) <= SumOver(f, Owners)
    BY <1>6, <1>7, SumMonotone
  <1> QED
    BY <1>8 DEF f, g

\* Tracker i of owner pays amount, of what was staged.
OnePaid(T, U, owner, i, amount) ==
    /\ amount <= SeenBy(T[owner], i).staged
    /\ SeenBy(U[owner], i).last_seen_index = SeenBy(T[owner], i).last_seen_index
    /\ SeenBy(U[owner], i).staged = SeenBy(T[owner], i).staged - amount
    /\ \A o \in Owners \ {owner} : U[o] = T[o]

\* All are due amount less than before.
LessDue(dues, before, amount) ==
    /\ SumOver(dues, Owners) \in Nat
    /\ SumOver(before, Owners) \in Nat
    /\ SumOver(dues, Owners) + ONE * amount = SumOver(before, Owners)

\* A payment lowers what all are due by what it pays.
LEMMA DuesPaid ==
    ASSUME NEW T \in [Owners -> Seq(Tracker)], NEW B \in [Owners -> Nat],
           NEW U \in [Owners -> Seq(Tracker)],
           NEW i, NEW index \in Nat, NotAhead(T, i, index),
           NEW owner \in Owners, NEW amount \in Nat,
           OnePaid(T, U, owner, i, amount)
    PROVE  LessDue(FineDues(U, B, i, index), FineDues(T, B, i, index), amount)
  <1> DEFINE f == FineDues(T, B, i, index)
             g == FineDues(U, B, i, index)
             s == SeenBy(T[owner], i)
             t == SeenBy(U[owner], i)
  <1>1. \A o \in Owners : f[o] \in Nat /\ f[o] = FineDue(T[o], i, index, B[o])
    <2>1. \A o \in Owners : f[o] = FineDue(T[o], i, index, B[o])
      BY DEF FineDues
    <2>2. \A o \in Owners : f[o] \in Nat
      BY FineDuesTypes
    <2> QED
      BY <2>1, <2>2
  <1>2. /\ t.last_seen_index = s.last_seen_index /\ t.staged = s.staged - amount
        /\ amount <= s.staged /\ \A o \in Owners \ {owner} : U[o] = T[o]
    BY DEF OnePaid
  <1>3. NotAhead(U, i, index)
    <2> SUFFICES ASSUME NEW o \in Owners
                 PROVE  Behind(U[o], i, index)
      BY DEF NotAhead
    <2> QED
      BY <1>2 DEF NotAhead, Behind
  <1>4. \A o \in Owners : g[o] \in Nat /\ g[o] = FineDue(U[o], i, index, B[o])
    <2>1. \A o \in Owners : g[o] = FineDue(U[o], i, index, B[o])
      BY DEF FineDues
    <2>2. \A o \in Owners : g[o] \in Nat
      BY <1>3, FineDuesTypes
    <2> QED
      BY <2>1, <2>2
  <1>5. g[owner] + ONE * amount = f[owner]
    <2> DEFINE d == (index - s.last_seen_index) * B[owner]
    <2>1. FineDue(T[owner], i, index, B[owner]) = ONE * s.staged + d
      BY DEF FineDue, SeenBy
    <2>2. FineDue(U[owner], i, index, B[owner])
            = ONE * t.staged + (index - t.last_seen_index) * B[owner]
      BY DEF FineDue, SeenBy
    <2>3. FineDue(U[owner], i, index, B[owner]) = ONE * (s.staged - amount) + d
      <3> HIDE DEF s, t
      <3> QED
        BY <1>2, <2>2
    <2>4. s.staged \in Nat /\ amount <= s.staged
      BY <1>2, SeenByFacts
    <2>5. d \in Nat
      <3>1. s.last_seen_index \in Nat /\ s.last_seen_index <= index
        BY SeenByFacts DEF NotAhead, Behind
      <3> HIDE DEF s
      <3>2. index - s.last_seen_index \in Nat
        BY <3>1, SMT
      <3> QED
        BY <3>2, SMT
    <2> HIDE DEF d, s
    <2>6. (ONE * (s.staged - amount) + d) + ONE * amount = ONE * s.staged + d
      <3>1. PICK r \in Nat : s.staged = r + amount
        <4>1. s.staged - amount \in Nat /\ s.staged = (s.staged - amount) + amount
          BY <2>4, SMT
        <4> QED
          BY <4>1
      <3>2. s.staged - amount = r
        BY <3>1, SMT
      <3>3. ONE * (r + amount) = ONE * r + ONE * amount /\ ONE * r \in Nat
            /\ ONE * amount \in Nat
        BY OneAssumption, SMT
      <3> QED
        BY <2>5, <3>1, <3>2, <3>3, SMT
    <2> QED
      BY <1>1, <1>4, <2>1, <2>3, <2>6
  <1>6. \A o \in Owners \ {owner} : g[o] = f[o]
    BY <1>1, <1>2, <1>4
  <1>7. IsFiniteSet(Owners)
    BY LpFarmAssumption
  <1> DEFINE paid == ONE * amount
  <1> HIDE DEF f, g
  <1>8. /\ SumOver(f, Owners) \in Nat
        /\ SumOver(g, Owners) \in Nat
        /\ SumOver(g, Owners) + f[owner] = SumOver(f, Owners) + g[owner]
    <2>1. \A o \in Owners : f[o] \in Nat /\ g[o] \in Nat
      BY <1>1, <1>4
    <2> QED
      BY ONLY <1>6, <1>7, <2>1, owner \in Owners, SumChange
  <1>9. paid \in Nat
    BY OneAssumption, SMT
  <1>10. g[owner] + paid = f[owner] /\ g[owner] \in Nat /\ f[owner] \in Nat
    BY <1>1, <1>4, <1>5
  <1> HIDE DEF paid
  <1>11. SumOver(g, Owners) + paid = SumOver(f, Owners)
    <2> DEFINE a == SumOver(g, Owners)
               c == SumOver(f, Owners)
               x == g[owner]
               y == f[owner]
    <2>1. /\ a + y = c + x /\ x + paid = y
          /\ a \in Nat /\ c \in Nat /\ x \in Nat /\ y \in Nat
      BY <1>8, <1>10
    <2> HIDE DEF a, c, x, y
    <2>2. a + paid = c
      BY <1>9, <2>1, SMT
    <2> QED
      BY <2>2 DEF a, c
  <1> QED
    BY <1>8, <1>11 DEF LessDue, f, g, paid

\* Nobody is due anything of a reward that nobody has seen.
LEMMA DuesNone ==
    ASSUME NEW T \in [Owners -> Seq(Tracker)], NEW B \in [Owners -> Nat],
           NEW i, \A o \in Owners : i \notin DOMAIN T[o]
    PROVE  /\ NotAhead(T, i, 0)
           /\ SumOver(FineDues(T, B, i, 0), Owners) = 0
  <1> DEFINE f == FineDues(T, B, i, 0)
  <1>1. ASSUME NEW o \in Owners PROVE f[o] = 0
    <2>1. f[o] = ONE * NewTracker.staged + (0 - NewTracker.last_seen_index) * B[o]
      BY DEF FineDues, FineDue
    <2>2. NewTracker.staged = 0 /\ NewTracker.last_seen_index = 0
      BY DEF NewTracker
    <2>3. B[o] \in Nat
      OBVIOUS
    <2>4. ONE * 0 + (0 - 0) * B[o] = 0
      BY <2>3, OneAssumption, SMT
    <2> QED
      BY <2>1, <2>2, <2>4
  <1>2. NotAhead(T, i, 0)
    <2>1. 0 <= 0
      BY SMT
    <2> QED
      BY <2>1 DEF NotAhead, Behind, SeenBy, NewTracker
  <1> HIDE DEF f
  <1>3. SumOver(f, Owners) = 0
    BY <1>1, SumZero, LpFarmAssumption
  <1> QED
    BY <1>2, <1>3 DEF f

\* Trackers that can be staged are behind every index.
LEMMA CanEarnNotAhead ==
    ASSUME NEW T \in [Owners -> Seq(Tracker)], NEW indexes \in Seq(Nat),
           \A o \in Owners : CanEarnAll(T[o], indexes), NEW i \in DOMAIN indexes
    PROVE  indexes[i] \in Nat /\ NotAhead(T, i, indexes[i])
  <1>1. indexes[i] \in Nat
    OBVIOUS
  <1>2. ASSUME NEW o \in Owners
        PROVE  Behind(T[o], i, indexes[i])
    <2>1. CanEarnAll(T[o], indexes)
      OBVIOUS
    <2>2. CASE i \in DOMAIN T[o]
      BY <2>1, <2>2 DEF CanEarnAll, Behind, SeenBy
    <2>3. CASE i \notin DOMAIN T[o]
      <3>1. SeenBy(T[o], i).last_seen_index = 0
        BY <2>3, NewTrackerType DEF SeenBy
      <3>2. 0 <= indexes[i]
        BY <1>1, SMT
      <3> QED
        BY <3>1, <3>2 DEF Behind
    <2> QED
      BY <2>2, <2>3
  <1> QED
    BY <1>1, <1>2 DEF NotAhead

\* One owner's rewards are staged.
LEMMA OneOwnerStaged ==
    ASSUME NEW T \in [Owners -> Seq(Tracker)], NEW B \in [Owners -> Nat],
           NEW U \in [Owners -> Seq(Tracker)], NEW C \in [Owners -> Nat],
           NEW indexes \in Seq(Nat), \A o \in Owners : CanEarnAll(T[o], indexes),
           NEW owner \in Owners,
           U[owner] = EnsureTrackersAndEarnAll(T[owner], indexes, B[owner]),
           \A o \in Owners \ {owner} : U[o] = T[o] /\ C[o] = B[o],
           NEW i \in DOMAIN indexes
    PROVE  /\ SumOver(FineDues(U, C, i, indexes[i]), Owners) \in Nat
           /\ SumOver(FineDues(T, B, i, indexes[i]), Owners) \in Nat
           /\ SumOver(FineDues(U, C, i, indexes[i]), Owners)
                <= SumOver(FineDues(T, B, i, indexes[i]), Owners)
  <1> DEFINE index == indexes[i]
  <1>1. index \in Nat /\ NotAhead(T, i, index)
    BY CanEarnNotAhead
  <1>2. /\ T[owner] \in Seq(Tracker) /\ B[owner] \in Nat
        /\ CanEarnAll(T[owner], indexes)
    OBVIOUS
  <1>3. /\ i \in DOMAIN U[owner]
        /\ U[owner][i].last_seen_index = index
        /\ U[owner][i].staged = Due(T[owner], i, index, B[owner])
    BY <1>2, EarnAllFacts
  <1> HIDE DEF index
  <1>4. OneStaged(T, B, U, C, owner, i, index)
    BY <1>3 DEF SeenBy, OneStaged
  <1>5. /\ SumOver(FineDues(U, C, i, index), Owners) \in Nat
        /\ SumOver(FineDues(T, B, i, index), Owners) \in Nat
        /\ SumOver(FineDues(U, C, i, index), Owners)
             <= SumOver(FineDues(T, B, i, index), Owners)
    BY <1>1, <1>4, DuesStaged
  <1> QED
    BY <1>5 DEF index

-----------------------------------------------------------------------------
(* What is funded, as the market and the positions change.                 *)

LEMMA ListsType ==
    ASSUME NEW P \in [Owners -> LpPosition]
    PROVE  /\ EmissionTrackers(P) \in [Owners -> Seq(Tracker)]
           /\ FarmTrackers(P) \in [Owners -> Seq(Tracker)]
           /\ Balances(P) \in [Owners -> Nat]
           /\ \A o \in Owners : /\ EmissionTrackers(P)[o] = P[o].emissions
                                /\ FarmTrackers(P)[o] = P[o].farms
                                /\ Balances(P)[o] = P[o].lp_balance
  <1>1. \A o \in Owners : /\ P[o].emissions \in Seq(Tracker)
                          /\ P[o].farms \in Seq(Tracker)
                          /\ P[o].lp_balance \in Nat
    <2> TAKE o \in Owners
    <2>1. P[o] \in LpPosition
      OBVIOUS
    <2> QED
      BY <2>1 DEF LpPosition
  <1> QED
    BY <1>1 DEF EmissionTrackers, FarmTrackers, Balances

LEMMA MarketLists ==
    ASSUME NEW m \in Market
    PROVE  /\ m.emissions \in Seq(MarketEmission)
           /\ m.lp_farm.farm_emissions \in Seq(FarmEmission)
           /\ m.lp_farm.last_seen_timestamp \in Nat
           /\ m.lp_escrow_amount \in Nat
           /\ DOMAIN EmissionIndexes(m) = DOMAIN m.emissions
           /\ DOMAIN FarmIndexes(m) = DOMAIN m.lp_farm.farm_emissions
           /\ \A i \in DOMAIN m.emissions :
                /\ m.emissions[i] \in MarketEmission
                /\ EmissionIndexes(m)[i] = m.emissions[i].lp_share_index
                /\ m.emissions[i].lp_share_index \in Nat
                /\ m.emissions[i].last_seen_staged \in Nat
           /\ \A i \in DOMAIN m.lp_farm.farm_emissions :
                /\ m.lp_farm.farm_emissions[i] \in FarmEmission
                /\ FarmIndexes(m)[i] = m.lp_farm.farm_emissions[i].index
                /\ m.lp_farm.farm_emissions[i].index \in Nat
                /\ m.lp_farm.farm_emissions[i].token_rate \in Nat
                /\ m.lp_farm.farm_emissions[i].expiry_timestamp \in Nat
                /\ m.lp_farm.farm_emissions[i].mint \in FarmMints
  <1>1. /\ m.emissions \in Seq(MarketEmission)
        /\ m.lp_farm.farm_emissions \in Seq(FarmEmission)
        /\ m.lp_farm.last_seen_timestamp \in Nat
        /\ m.lp_escrow_amount \in Nat
    BY DEF Market, LpFarmAccount
  <1>2. ASSUME NEW i \in DOMAIN m.emissions
        PROVE  /\ m.emissions[i] \in MarketEmission
               /\ EmissionIndexes(m)[i] = m.emissions[i].lp_share_index
               /\ m.emissions[i].lp_share_index \in Nat
               /\ m.emissions[i].last_seen_staged \in Nat
    <2>1. m.emissions[i] \in MarketEmission
      BY <1>1
    <2> QED
      BY <2>1 DEF MarketEmission, EmissionIndexes
  <1>3. ASSUME NEW i \in DOMAIN m.lp_farm.farm_emissions
        PROVE  /\ m.lp_farm.farm_emissions[i] \in FarmEmission
               /\ FarmIndexes(m)[i] = m.lp_farm.farm_emissions[i].index
               /\ m.lp_farm.farm_emissions[i].index \in Nat
               /\ m.lp_farm.farm_emissions[i].token_rate \in Nat
               /\ m.lp_farm.farm_emissions[i].expiry_timestamp \in Nat
               /\ m.lp_farm.farm_emissions[i].mint \in FarmMints
    <2>1. m.lp_farm.farm_emissions[i] \in FarmEmission
      BY <1>1
    <2> QED
      BY <2>1 DEF FarmEmission, FarmIndexes
  <1>4. /\ DOMAIN EmissionIndexes(m) = DOMAIN m.emissions
        /\ DOMAIN FarmIndexes(m) = DOMAIN m.lp_farm.farm_emissions
    BY DEF EmissionIndexes, FarmIndexes
  <1> QED
    BY <1>1, <1>2, <1>3, <1>4

\* Emissions and farms are funded apart from each other.
LEMMA EmissionsFundedSame ==
    ASSUME NEW m, NEW n, NEW P, n.emissions = m.emissions, EmissionsFunded(m, P)
    PROVE  EmissionsFunded(n, P)
  <1>1. EmissionIndexes(n) = EmissionIndexes(m)
    BY DEF EmissionIndexes
  <1> QED
    BY <1>1 DEF EmissionsFunded, EmissionFineDues

LEMMA FarmsFundedSame ==
    ASSUME NEW m, NEW n, NEW P, NEW held, n.lp_farm = m.lp_farm,
           FarmsFunded(m, P, held)
    PROVE  FarmsFunded(n, P, held)
  <1>1. FarmIndexes(n) = FarmIndexes(m)
    BY DEF FarmIndexes
  <1>2. \A i : ToBeEmitted(n, i) = ToBeEmitted(m, i)
    BY DEF ToBeEmitted
  <1> QED
    BY <1>1, <1>2 DEF FarmsFunded, FarmFineDues

\* What the step of an emission's index shares out had accrued.
LEMMA SeenEmissionWithin ==
    ASSUME NEW e \in MarketEmission, NEW claimable \in Nat, NEW staked \in Nat,
           e.last_seen_staged <= claimable
    PROVE  LET seen == SeenEmission(e, claimable, staked)
           IN  /\ seen.lp_share_index \in Nat
               /\ e.lp_share_index <= seen.lp_share_index
               /\ seen.last_seen_staged = claimable
               /\ (seen.lp_share_index - e.lp_share_index) * staked
                    + ONE * e.last_seen_staged <= ONE * claimable
  <1> DEFINE s == e.last_seen_staged
             num == claimable - s
             k == FromRatio(num, staked)
             index == e.lp_share_index
             seen == SeenEmission(e, claimable, staked)
  <1>1. s \in Nat /\ index \in Nat
    BY DEF MarketEmission
  <1>2. seen.lp_share_index = index + k /\ seen.last_seen_staged = claimable
    BY DEF SeenEmission, MarketEmission
  <1> HIDE DEF s, seen, index
  <1>3. num \in Nat /\ claimable = num + s
    BY <1>1, SMT DEF s
  <1> HIDE DEF num
  <1>4. k \in Nat /\ k * staked <= ONE * num
    BY <1>3, SharesWithin
  <1> HIDE DEF k
  <1>5. (index + k) - index = k /\ index + k \in Nat /\ index <= index + k
    BY <1>1, <1>4, SMT
  <1>6. k * staked + ONE * s <= ONE * claimable
    <2>1. ONE * claimable = ONE * num + ONE * s /\ ONE * num \in Nat /\ ONE * s \in Nat
      BY <1>1, <1>3, OneAssumption, SMT
    <2>2. k * staked \in Nat
      BY <1>4, SMT
    <2> QED
      BY <1>4, <2>1, <2>2, SMT
  <1>7. /\ seen.lp_share_index \in Nat
        /\ index <= seen.lp_share_index
        /\ seen.last_seen_staged = claimable
        /\ (seen.lp_share_index - index) * staked + ONE * s <= ONE * claimable
    BY <1>2, <1>5, <1>6
  <1> QED
    BY <1>7 DEF seen, index, s

\* Settling keeps the emissions funded.
LEMMA SettleEmissionsFunded ==
    ASSUME NEW m \in Market, sy_emissions \in Seq(Nat), CanUpdateEmissions(m),
           NEW P \in [Owners -> LpPosition],
           \A o \in Owners : CanEarnAll(P[o].emissions, EmissionIndexes(m)),
           SumOver(Balances(P), Owners) = m.lp_escrow_amount,
           EmissionsFunded(m, P)
    PROVE  EmissionsFunded(UpdateEmissionsFromPositionState(m), P)
  <1> DEFINE n == UpdateEmissionsFromPositionState(m)
             T == EmissionTrackers(P)
             B == Balances(P)
             old == m.emissions
             staked == m.lp_escrow_amount
  <1>1. /\ T \in [Owners -> Seq(Tracker)] /\ B \in [Owners -> Nat]
        /\ \A o \in Owners : CanEarnAll(T[o], EmissionIndexes(m))
    BY ListsType
  <1>2. EmissionIndexes(m) \in Seq(Nat)
    BY IndexesType
  <1>3. Settled(m, n)
    BY UpdateEmissionsFacts
  <1>4. n \in Market /\ DOMAIN n.emissions = DOMAIN m.emissions
    BY <1>3, MarketLists DEF Settled
  <1>5. n.emissions = [i \in DOMAIN old |->
                            IF i \in DOMAIN sy_emissions
                            THEN SeenEmission(old[i], sy_emissions[i], staked)
                            ELSE old[i]]
    BY DEF UpdateEmissionsFromPositionState, Market
  <1> HIDE DEF n, T, B
  <1>6. SUFFICES ASSUME NEW i \in DOMAIN old
                 PROVE  SumOver(FineDues(T, B, i, EmissionIndexes(n)[i]), Owners)
                            <= ONE * n.emissions[i].last_seen_staged
    BY <1>4 DEF EmissionsFunded, EmissionFineDues, n, T, B
  <1> DEFINE index == old[i].lp_share_index
             later == n.emissions[i].lp_share_index
             s == old[i].last_seen_staged
             before == SumOver(FineDues(T, B, i, index), Owners)
             after == SumOver(FineDues(T, B, i, later), Owners)
  <1>7. /\ old[i] \in MarketEmission
        /\ EmissionIndexes(m)[i] = index
        /\ EmissionIndexes(n)[i] = later
        /\ index \in Nat /\ later \in Nat /\ s \in Nat /\ staked \in Nat
    BY <1>4, MarketLists
  <1>8. NotAhead(T, i, index)
    BY <1>1, <1>2, <1>7, MarketLists, CanEarnNotAhead
  <1>9. before <= ONE * s
    BY <1>7 DEF EmissionsFunded, EmissionFineDues, T, B
  <1>10. CASE i \notin DOMAIN sy_emissions
    <2>1. n.emissions[i] = old[i]
      BY <1>5, <1>10
    <2> QED
      BY <1>7, <1>9, <2>1
  <1>11. CASE i \in DOMAIN sy_emissions
    <2> DEFINE claimable == sy_emissions[i]
    <2>1. claimable \in Nat /\ s <= claimable
      BY <1>11 DEF CanUpdateEmissions
    <2>2. n.emissions[i] = SeenEmission(old[i], claimable, staked)
      BY <1>5, <1>11
    <2> HIDE DEF claimable
    <2>3. /\ index <= later
          /\ n.emissions[i].last_seen_staged = claimable
          /\ (later - index) * staked + ONE * s <= ONE * claimable
      BY <1>7, <2>1, <2>2, SeenEmissionWithin
    <2>4. /\ after = before + (later - index) * SumOver(B, Owners)
          /\ before \in Nat
      <3>1. index \in Nat /\ later \in Nat /\ index <= later
        BY <1>7, <2>3
      <3> HIDE DEF index, later
      <3>2. after = before + (later - index) * SumOver(B, Owners)
        BY ONLY <1>1, <1>8, <3>1, DuesSettled
      <3>3. before \in Nat
        <4>1. T \in [Owners -> Seq(Tracker)] /\ B \in [Owners -> Nat]
          BY <1>1
        <4> QED
          BY ONLY <1>8, <3>1, <4>1, FineDuesTypes
      <3> QED
        BY <3>2, <3>3
    <2>5. SumOver(B, Owners) = staked
      BY DEF B
    <2> DEFINE paid == (later - index) * staked
    <2>6. paid \in Nat
      <3> HIDE DEF index, later, staked
      <3>1. later - index \in Nat
        BY <1>7, <2>3, SMT
      <3> QED
        BY <1>7, <3>1, SMT
    <2>7. after = before + paid /\ paid + ONE * s <= ONE * claimable
      BY <2>3, <2>4, <2>5
    <2> HIDE DEF before, after, paid, s
    <2>8. ONE * s \in Nat /\ ONE * claimable \in Nat
      BY <1>7, <2>1, OneAssumption, SMT
    <2>9. after <= ONE * claimable
      BY <1>9, <2>4, <2>6, <2>7, <2>8, SMT
    <2> QED
      BY <1>7, <2>3, <2>9 DEF after
  <1> QED
    BY <1>10, <1>11

\* What the step of a farm's index shares out had been emitted.
LEMMA IncIndexWithin ==
    ASSUME NEW farm \in FarmEmission, NEW delta \in Nat, NEW staked \in Nat
    PROVE  LET inc == IncIndex(farm, delta, staked)
           IN  /\ inc.index \in Nat
               /\ farm.index <= inc.index
               /\ inc.mint = farm.mint
               /\ inc.token_rate = farm.token_rate
               /\ inc.expiry_timestamp = farm.expiry_timestamp
               /\ (inc.index - farm.index) * staked
                    <= ONE * (farm.token_rate * delta)
  <1> DEFINE num == farm.token_rate * delta
             k == FromRatio(num, staked)
             index == farm.index
             inc == IncIndex(farm, delta, staked)
  <1>1. index \in Nat /\ farm.token_rate \in Nat
    BY DEF FarmEmission
  <1>2. /\ inc.index = index + k
        /\ inc.mint = farm.mint
        /\ inc.token_rate = farm.token_rate
        /\ inc.expiry_timestamp = farm.expiry_timestamp
    BY DEF IncIndex, FarmEmission
  <1>3. num \in Nat
    BY <1>1, SMT
  <1> HIDE DEF inc, index, num
  <1>4. k \in Nat /\ k * staked <= ONE * num
    BY <1>3, SharesWithin
  <1> HIDE DEF k
  <1>5. (index + k) - index = k /\ index + k \in Nat /\ index <= index + k
    BY <1>1, <1>4, SMT
  <1>6. /\ inc.index \in Nat /\ index <= inc.index
        /\ (inc.index - index) * staked <= ONE * num
    BY <1>2, <1>4, <1>5
  <1> QED
    BY <1>2, <1>6 DEF inc, index, num

\* Up to now and after now: the farm's time is split, none of it counted twice.
LEMMA DeltaTimeSplit ==
    ASSUME NEW expiry \in Nat, NEW seen \in Nat, NEW current \in Nat,
           seen <= current
    PROVE  /\ DeltaTimeFarm(expiry, seen, expiry)
                = DeltaTimeFarm(expiry, seen, current)
                    + DeltaTimeFarm(expiry, current, expiry)
  BY SMT DEF DeltaTimeFarm, Smaller

\* Settling keeps the farms funded.
LEMMA IncreaseFarmsFunded ==
    ASSUME NEW m \in Market, now \in Nat,
           m.lp_farm.last_seen_timestamp <= now,
           NEW P \in [Owners -> LpPosition],
           \A o \in Owners : CanEarnAll(P[o].farms, FarmIndexes(m)),
           SumOver(Balances(P), Owners) = m.lp_escrow_amount,
           NEW held \in [FarmMints -> Nat],
           FarmsFunded(m, P, held)
    PROVE  FarmsFunded(IncreaseShareIndexes(m), P, held)
  <1> DEFINE n == IncreaseShareIndexes(m)
             T == FarmTrackers(P)
             B == Balances(P)
             old == m.lp_farm.farm_emissions
             new == n.lp_farm.farm_emissions
             seen == m.lp_farm.last_seen_timestamp
             staked == m.lp_escrow_amount
  <1>1. /\ T \in [Owners -> Seq(Tracker)] /\ B \in [Owners -> Nat]
        /\ \A o \in Owners : CanEarnAll(T[o], FarmIndexes(m))
    BY ListsType
  <1>2. FarmIndexes(m) \in Seq(Nat)
    BY IndexesType
  <1>3. n \in Market
    BY IncreaseFacts DEF Settled
  <1>4. /\ n.lp_farm.last_seen_timestamp = now
        /\ new = [i \in DOMAIN old |->
                    IncIndex(old[i],
                             DeltaTimeFarm(old[i].expiry_timestamp, seen, now),
                             staked)]
    BY DEF IncreaseShareIndexes, Market
  <1>5. DOMAIN new = DOMAIN old
    BY <1>4
  <1>6. ASSUME NEW i \in DOMAIN old
        PROVE  /\ new[i].mint = old[i].mint
               /\ SumOver(FarmFineDues(n, P, i), Owners) + ONE * ToBeEmitted(n, i)
                    <= ONE * held[old[i].mint]
    <2> DEFINE farm == old[i]
               expiry == farm.expiry_timestamp
               rate == farm.token_rate
               delta == DeltaTimeFarm(expiry, seen, now)
               rest == DeltaTimeFarm(expiry, now, expiry)
               all == DeltaTimeFarm(expiry, seen, expiry)
               index == farm.index
               later == new[i].index
               before == SumOver(FineDues(T, B, i, index), Owners)
               after == SumOver(FineDues(T, B, i, later), Owners)
    <2>1. /\ farm \in FarmEmission
          /\ FarmIndexes(m)[i] = index /\ FarmIndexes(n)[i] = later
          /\ index \in Nat /\ rate \in Nat /\ expiry \in Nat
          /\ farm.mint \in FarmMints /\ seen \in Nat /\ staked \in Nat
      BY <1>3, <1>5, MarketLists
    <2>2. new[i] = IncIndex(farm, delta, staked)
      BY <1>4
    <2>3. delta \in Nat /\ rest \in Nat /\ all \in Nat /\ all = delta + rest
      <3> HIDE DEF expiry, seen
      <3> QED
        BY <2>1, DeltaTimeType, DeltaTimeSplit DEF seen
    <2>4. /\ FarmFineDues(n, P, i) = FineDues(T, B, i, later)
          /\ FarmFineDues(m, P, i) = FineDues(T, B, i, index)
      BY <2>1 DEF FarmFineDues
    <2>5. before + ONE * (rate * all) <= ONE * held[farm.mint]
      BY <2>4 DEF FarmsFunded, ToBeEmitted
    <2>6. /\ later \in Nat /\ index <= later
          /\ new[i].mint = farm.mint
          /\ new[i].token_rate = rate /\ new[i].expiry_timestamp = expiry
          /\ (later - index) * staked <= ONE * (rate * delta)
      <3> HIDE DEF delta, staked, farm, new
      <3>1. LET inc == new[i]
            IN  /\ inc.index \in Nat
                /\ farm.index <= inc.index
                /\ inc.mint = farm.mint
                /\ inc.token_rate = farm.token_rate
                /\ inc.expiry_timestamp = farm.expiry_timestamp
                /\ (inc.index - farm.index) * staked
                     <= ONE * (farm.token_rate * delta)
        BY <2>1, <2>2, <2>3, IncIndexWithin
      <3> QED
        BY <3>1
    <2>7. ToBeEmitted(n, i) = rate * rest
      BY <1>4, <2>6 DEF ToBeEmitted
    <2>8. NotAhead(T, i, index)
      BY <1>1, <1>2, <2>1, MarketLists, CanEarnNotAhead
    <2>9. /\ after = before + (later - index) * SumOver(B, Owners)
          /\ before \in Nat
      <3>1. T \in [Owners -> Seq(Tracker)] /\ B \in [Owners -> Nat]
        BY <1>1
      <3> HIDE DEF T, B, index, later
      <3>2. index \in Nat /\ later \in Nat /\ index <= later
        BY <2>1, <2>6
      <3>3. after = before + (later - index) * SumOver(B, Owners)
        BY ONLY <2>8, <3>1, <3>2, DuesSettled
      <3>4. before \in Nat
        BY ONLY <2>8, <3>1, <3>2, FineDuesTypes
      <3> QED
        BY <3>3, <3>4
    <2>10. SumOver(B, Owners) = staked
      OBVIOUS
    <2> DEFINE paid == (later - index) * staked
               a == ONE * (rate * all)
               d == ONE * (rate * delta)
               r == ONE * (rate * rest)
               h == ONE * held[farm.mint]
    <2>11. paid \in Nat
      <3>1. later - index \in Nat
        BY <2>1, <2>6, SMT
      <3> HIDE DEF index, later, staked
      <3> QED
        BY <2>1, <3>1, SMT
    <2>12. after = before + paid /\ paid <= d /\ before + a <= h
      BY <2>5, <2>6, <2>9, <2>10
    <2>13. a = d + r /\ d \in Nat /\ r \in Nat
      <3> HIDE DEF rate, delta, rest, all
      <3>1. /\ rate * (delta + rest) = rate * delta + rate * rest
            /\ rate * delta \in Nat /\ rate * rest \in Nat
        BY <2>1, <2>3, SMT
      <3>2. ONE * (rate * delta + rate * rest)
                = ONE * (rate * delta) + ONE * (rate * rest)
            /\ ONE * (rate * delta) \in Nat /\ ONE * (rate * rest) \in Nat
        BY <3>1, OneAssumption, SMT
      <3> QED
        BY <2>3, <3>1, <3>2
    <2>14. h \in Nat
      <3>1. held[farm.mint] \in Nat
        BY <2>1
      <3> QED
        BY <3>1, OneAssumption, SMT
    <2>15. after + r <= h
      <3> HIDE DEF before, after, paid, a, d, r, h
      <3> QED
        BY <2>9, <2>11, <2>12, <2>13, <2>14, SMT
    <2> QED
      BY <2>4, <2>6, <2>7, <2>15
  <1>7. \A i, j \in DOMAIN old : old[i].mint = old[j].mint => i = j
    BY DEF FarmsFunded
  <1>8. \A i, j \in DOMAIN old : new[i].mint = new[j].mint => i = j
    BY <1>6, <1>7
  <1>9. \A i \in DOMAIN new :
            SumOver(FarmFineDues(n, P, i), Owners) + ONE * ToBeEmitted(n, i)
                <= ONE * held[new[i].mint]
    BY <1>5, <1>6
  <1> HIDE DEF n, old
  <1>10. FarmsFunded(n, P, held)
    BY <1>5, <1>8, <1>9 DEF FarmsFunded
  <1> QED
    BY <1>10 DEF n

\* Settling both kinds of reward.
LEMMA SettleFunded ==
    ASSUME NEW m \in Market, now \in Nat, sy_emissions \in Seq(Nat),
           CanUpdateEmissions(m), NEW P \in [Owners -> LpPosition],
           NEW held \in [FarmMints -> Nat], StakesCounted(m, P),
           \A o \in Owners : FarmsBehind(P[o], m)
    PROVE  /\ StakesCounted(Settle(m), P)
           /\ EmissionsFunded(m, P) /\ (\A o \in Owners : EmissionsBehind(P[o], m))
                => EmissionsFunded(Settle(m), P)
           /\ FarmsFunded(m, P, held) => FarmsFunded(Settle(m), P, held)
  <1> DEFINE u == UpdateEmissionsFromPositionState(m)
             n == IncreaseShareIndexes(u)
  <1>1. Settle(m) = n
    BY DEF Settle
  <1>2. /\ u \in Market /\ u.lp_farm = m.lp_farm
        /\ u.lp_escrow_amount = m.lp_escrow_amount
    BY UpdateEmissionsFacts DEF Settled
  <1>3. /\ n \in Market /\ n.emissions = u.emissions
        /\ n.lp_escrow_amount = m.lp_escrow_amount
    BY <1>2, IncreaseFacts DEF Settled
  <1>4. n.lp_farm.last_seen_timestamp = now
    BY <1>2 DEF IncreaseShareIndexes, Market
  <1>5. /\ SumOver(Balances(P), Owners) = m.lp_escrow_amount
        /\ m.lp_farm.last_seen_timestamp <= now
    BY DEF StakesCounted
  <1>6. StakesCounted(n, P)
    <2>1. now <= now
      BY SMT
    <2> HIDE DEF n
    <2> QED
      BY <1>3, <1>4, <1>5, <2>1 DEF StakesCounted
  <1>7. ASSUME \A o \in Owners : EmissionsBehind(P[o], m), EmissionsFunded(m, P)
        PROVE  EmissionsFunded(n, P)
    <2>1. \A o \in Owners : CanEarnAll(P[o].emissions, EmissionIndexes(m))
      BY <1>7 DEF EmissionsBehind
    <2>2. EmissionsFunded(u, P)
      BY <1>5, <1>7, <2>1, SettleEmissionsFunded
    <2> HIDE DEF n, u
    <2> QED
      BY <1>3, <2>2, EmissionsFundedSame
  <1>8. ASSUME FarmsFunded(m, P, held)
        PROVE  FarmsFunded(n, P, held)
    <2>1. FarmIndexes(u) = FarmIndexes(m)
      BY <1>2 DEF FarmIndexes
    <2>2. \A o \in Owners : CanEarnAll(P[o].farms, FarmIndexes(u))
      BY <2>1 DEF FarmsBehind
    <2> HIDE DEF u
    <2>3. FarmsFunded(u, P, held)
      BY <1>2, <1>8, FarmsFundedSame
    <2> QED
      BY <1>2, <1>5, <2>2, <2>3, IncreaseFarmsFunded
  <1> HIDE DEF n
  <1> QED
    BY <1>1, <1>6, <1>7, <1>8, Zenon

LEMMA ToBeEmittedType ==
    ASSUME NEW m \in Market, NEW i \in DOMAIN m.lp_farm.farm_emissions
    PROVE  ToBeEmitted(m, i) \in Nat
  <1> DEFINE farm == m.lp_farm.farm_emissions[i]
             delta == DeltaTimeFarm(farm.expiry_timestamp,
                                    m.lp_farm.last_seen_timestamp,
                                    farm.expiry_timestamp)
  <1>1. farm.token_rate \in Nat /\ farm.expiry_timestamp \in Nat
        /\ m.lp_farm.last_seen_timestamp \in Nat
    BY MarketLists
  <1>2. delta \in Nat
    BY <1>1, DeltaTimeType
  <1> HIDE DEF delta
  <1>3. farm.token_rate * delta \in Nat
    BY <1>1, <1>2, SMT
  <1> QED
    BY <1>3 DEF ToBeEmitted, delta

\* No more is due than was.
NoMoreDue(dues, before) ==
    /\ SumOver(dues, Owners) \in Nat
    /\ SumOver(before, Owners) \in Nat
    /\ SumOver(dues, Owners) <= SumOver(before, Owners)

LEMMA EmissionsStillFunded ==
    ASSUME NEW m \in Market, NEW P, NEW Q, EmissionsFunded(m, P),
           \A i \in DOMAIN m.emissions :
                NoMoreDue(EmissionFineDues(m, Q, i), EmissionFineDues(m, P, i))
    PROVE  EmissionsFunded(m, Q)
  <1> SUFFICES ASSUME NEW i \in DOMAIN m.emissions
               PROVE  SumOver(EmissionFineDues(m, Q, i), Owners)
                        <= ONE * m.emissions[i].last_seen_staged
    BY DEF EmissionsFunded
  <1> DEFINE a == SumOver(EmissionFineDues(m, Q, i), Owners)
             b == SumOver(EmissionFineDues(m, P, i), Owners)
             c == ONE * m.emissions[i].last_seen_staged
  <1>1. a \in Nat /\ b \in Nat /\ a <= b /\ b <= c
    BY DEF NoMoreDue, EmissionsFunded
  <1>2. c \in Nat
    <2>1. m.emissions[i].last_seen_staged \in Nat
      BY MarketLists
    <2> QED
      BY <2>1, OneAssumption, SMT
  <1> HIDE DEF a, b, c
  <1>3. a <= c
    BY <1>1, <1>2, SMT
  <1> QED
    BY <1>3 DEF a, c

LEMMA FarmsStillFunded ==
    ASSUME NEW m \in Market, NEW P, NEW Q, NEW held \in [FarmMints -> Nat],
           FarmsFunded(m, P, held),
           \A i \in DOMAIN m.lp_farm.farm_emissions :
                NoMoreDue(FarmFineDues(m, Q, i), FarmFineDues(m, P, i))
    PROVE  FarmsFunded(m, Q, held)
  <1> DEFINE farms == m.lp_farm.farm_emissions
  <1> SUFFICES ASSUME NEW i \in DOMAIN farms
               PROVE  SumOver(FarmFineDues(m, Q, i), Owners) + ONE * ToBeEmitted(m, i)
                        <= ONE * held[farms[i].mint]
    BY DEF FarmsFunded
  <1> DEFINE a == SumOver(FarmFineDues(m, Q, i), Owners)
             b == SumOver(FarmFineDues(m, P, i), Owners)
             c == ONE * held[farms[i].mint]
             d == ONE * ToBeEmitted(m, i)
  <1>1. a \in Nat /\ b \in Nat /\ a <= b /\ b + d <= c
    BY DEF NoMoreDue, FarmsFunded
  <1>2. c \in Nat /\ d \in Nat
    <2>1. held[farms[i].mint] \in Nat
      <3>1. farms[i].mint \in FarmMints
        BY MarketLists
      <3> QED
        BY <3>1
    <2>2. ToBeEmitted(m, i) \in Nat
      BY ToBeEmittedType
    <2> QED
      BY <2>1, <2>2, OneAssumption, SMT
  <1> HIDE DEF a, b, c, d
  <1>3. a + d <= c
    BY <1>1, <1>2, SMT
  <1> QED
    BY <1>3 DEF a, c, d

\* Staging one position, whatever becomes of its balance, leaves both kinds of
\* reward funded.
LEMMA StageFunded ==
    ASSUME NEW n \in Market, NEW P \in [Owners -> LpPosition],
           NEW owner \in Owners, NEW balance \in Nat,
           CanStageAll(P[owner], n),
           NEW held,
           \A o \in Owners : FarmsBehind(P[o], n)
    PROVE  LET Q == [P EXCEPT ![owner] =
                        [StageAll(P[owner], n) EXCEPT !.lp_balance = balance]]
           IN  /\ Q \in [Owners -> LpPosition]
               /\ EmissionsFunded(n, P) /\ (\A o \in Owners : EmissionsBehind(P[o], n))
                    => EmissionsFunded(n, Q)
               /\ FarmsFunded(n, P, held) /\ held \in [FarmMints -> Nat]
                    => FarmsFunded(n, Q, held)
  <1> DEFINE q == [StageAll(P[owner], n) EXCEPT !.lp_balance = balance]
             Q == [P EXCEPT ![owner] = q]
             E == EmissionIndexes(n)
             F == FarmIndexes(n)
  <1>1. P[owner] \in LpPosition
    OBVIOUS
  <1>2. q \in LpPosition
    BY <1>1, StageAllFacts
  <1>3. /\ q.emissions = EnsureTrackersAndEarnAll(P[owner].emissions, E,
                                                  P[owner].lp_balance)
        /\ q.farms = EnsureTrackersAndEarnAll(P[owner].farms, F,
                                              P[owner].lp_balance)
    BY <1>1 DEF StageAll, LpPosition
  <1>4. E \in Seq(Nat) /\ F \in Seq(Nat)
    BY IndexesType
  <1> HIDE DEF q, E, F
  <1>5. /\ Q \in [Owners -> LpPosition] /\ Q[owner] = q
        /\ \A o \in Owners \ {owner} : Q[o] = P[o]
    BY <1>2
  <1> HIDE DEF Q
  <1>6. ASSUME \A o \in Owners : EmissionsBehind(P[o], n), EmissionsFunded(n, P)
        PROVE  EmissionsFunded(n, Q)
    <2> DEFINE T == EmissionTrackers(P)
               B == Balances(P)
               U == EmissionTrackers(Q)
               C == Balances(Q)
    <2>1. /\ T \in [Owners -> Seq(Tracker)] /\ B \in [Owners -> Nat]
          /\ U \in [Owners -> Seq(Tracker)] /\ C \in [Owners -> Nat]
          /\ T[owner] = P[owner].emissions /\ B[owner] = P[owner].lp_balance
          /\ U[owner] = q.emissions
      BY <1>5, ListsType
    <2>2. ASSUME NEW o \in Owners \ {owner} PROVE U[o] = T[o] /\ C[o] = B[o]
      <3>1. Q[o] = P[o]
        BY <1>5
      <3> QED
        BY <3>1 DEF Balances, EmissionTrackers
    <2>3. \A o \in Owners : CanEarnAll(T[o], E)
      BY <1>6, ListsType DEF EmissionsBehind, E
    <2> SUFFICES ASSUME NEW i \in DOMAIN n.emissions
                 PROVE  NoMoreDue(EmissionFineDues(n, Q, i),
                                  EmissionFineDues(n, P, i))
      BY <1>5, <1>6, EmissionsStillFunded
    <2>4. i \in DOMAIN E
      BY MarketLists DEF E
    <2> HIDE DEF T, B, U, C
    <2>5. U[owner] = EnsureTrackersAndEarnAll(T[owner], E, B[owner])
      BY <1>3, <2>1
    <2>6. NoMoreDue(FineDues(U, C, i, E[i]), FineDues(T, B, i, E[i]))
      BY <1>4, <2>1, <2>2, <2>3, <2>4, <2>5, OneOwnerStaged DEF NoMoreDue
    <2> QED
      BY <2>6 DEF EmissionFineDues, T, B, U, C, E
  <1>7. ASSUME FarmsFunded(n, P, held), held \in [FarmMints -> Nat]
        PROVE  FarmsFunded(n, Q, held)
    <2> DEFINE T == FarmTrackers(P)
               B == Balances(P)
               U == FarmTrackers(Q)
               C == Balances(Q)
    <2>1. /\ T \in [Owners -> Seq(Tracker)] /\ B \in [Owners -> Nat]
          /\ U \in [Owners -> Seq(Tracker)] /\ C \in [Owners -> Nat]
          /\ T[owner] = P[owner].farms /\ B[owner] = P[owner].lp_balance
          /\ U[owner] = q.farms
      BY <1>5, ListsType
    <2>2. ASSUME NEW o \in Owners \ {owner} PROVE U[o] = T[o] /\ C[o] = B[o]
      <3>1. Q[o] = P[o]
        BY <1>5
      <3> QED
        BY <3>1 DEF Balances, FarmTrackers
    <2>3. \A o \in Owners : CanEarnAll(T[o], F)
      BY ListsType DEF FarmsBehind, F
    <2> SUFFICES ASSUME NEW i \in DOMAIN n.lp_farm.farm_emissions
                 PROVE  NoMoreDue(FarmFineDues(n, Q, i), FarmFineDues(n, P, i))
      BY <1>5, <1>7, FarmsStillFunded
    <2>4. i \in DOMAIN F
      BY MarketLists DEF F
    <2> HIDE DEF T, B, U, C
    <2>5. U[owner] = EnsureTrackersAndEarnAll(T[owner], F, B[owner])
      BY <1>3, <2>1
    <2>6. NoMoreDue(FineDues(U, C, i, F[i]), FineDues(T, B, i, F[i]))
      BY <1>4, <2>1, <2>2, <2>3, <2>4, <2>5, OneOwnerStaged DEF NoMoreDue
    <2> QED
      BY <2>6 DEF FarmFineDues, T, B, U, C, F
  <1> QED
    BY <1>5, <1>6, <1>7 DEF Q, q

-----------------------------------------------------------------------------
(* The steps keep the rewards funded.                                      *)

\* What the invariant says of the next state.
LEMMA FundedAfter ==
    ASSUME SumOver(Balances(lp_position'), Owners) = market'.lp_escrow_amount,
           market'.lp_farm.last_seen_timestamp <= now',
           \A o \in Owners \ opened' : lp_position'[o] = NoPosition,
           ~MayRemoveMarketEmission => EmissionsFunded(market', lp_position'),
           ModifiedRates = {} =>
                FarmsFunded(market', lp_position', tokens'.farm)
    PROVE  FundedInv'
  BY DEF FundedInv, StakesCounted

\* Nothing that is funded is touched.
LEMMA QuietFunded ==
    ASSUME LpInv, FundedInv, UNCHANGED <<lp_position, opened, tokens>>,
           now' \in Nat, now <= now', market'.lp_farm = market.lp_farm,
           market'.lp_escrow_amount = market.lp_escrow_amount,
           MayRemoveMarketEmission \/ market'.emissions = market.emissions
    PROVE  FundedInv'
  <1>1. /\ SumOver(Balances(lp_position), Owners) = market.lp_escrow_amount
        /\ market.lp_farm.last_seen_timestamp <= now
    BY DEF FundedInv, StakesCounted
  <1>2. market'.lp_farm.last_seen_timestamp <= now'
    <2>1. market.lp_farm.last_seen_timestamp \in Nat /\ now \in Nat
      BY MarketLists DEF LpInv, LpTypeOK
    <2> QED
      BY <1>1, <2>1, SMT
  <1>3. ~MayRemoveMarketEmission => EmissionsFunded(market', lp_position')
    BY EmissionsFundedSame DEF FundedInv
  <1>4. ModifiedRates = {} => FarmsFunded(market', lp_position', tokens'.farm)
    BY FarmsFundedSame DEF FundedInv
  <1> QED
    BY <1>1, <1>2, <1>3, <1>4, FundedAfter DEF FundedInv

\* One position is replaced.
LEMMA OneBalance ==
    ASSUME NEW P \in [Owners -> LpPosition], NEW Q \in [Owners -> LpPosition],
           NEW owner \in Owners, \A o \in Owners \ {owner} : Q[o] = P[o]
    PROVE  /\ SumOver(Balances(P), Owners) \in Nat
           /\ SumOver(Balances(Q), Owners) \in Nat
           /\ SumOver(Balances(Q), Owners) + P[owner].lp_balance
                = SumOver(Balances(P), Owners) + Q[owner].lp_balance
  <1> DEFINE f == Balances(P)
             g == Balances(Q)
  <1>1. /\ \A o \in Owners : f[o] \in Nat /\ g[o] \in Nat
        /\ f[owner] = P[owner].lp_balance /\ g[owner] = Q[owner].lp_balance
    BY ListsType
  <1>2. \A o \in Owners \ {owner} : g[o] = f[o]
    BY DEF Balances
  <1>3. IsFiniteSet(Owners)
    BY LpFarmAssumption
  <1> HIDE DEF f, g
  <1>4. /\ SumOver(f, Owners) \in Nat /\ SumOver(g, Owners) \in Nat
        /\ SumOver(g, Owners) + f[owner] = SumOver(f, Owners) + g[owner]
    BY ONLY <1>1, <1>2, <1>3, owner \in Owners, SumChange
  <1> QED
    BY <1>1, <1>4 DEF f, g

\* Without a stake nothing is earned.
LEMMA NothingStaked ==
    ASSUME NEW index \in Nat
    PROVE  Earned(NewTracker, index, 0) = 0
  <1>1. NewTracker.staged = 0 /\ index - NewTracker.last_seen_index = index
    BY SMT DEF NewTracker
  <1>2. FromNatural(0) = 0
    BY OneAssumption, SMT DEF FromNatural
  <1>3. NumMul(index, 0) = 0
    <2>1. index * 0 = 0
      BY SMT
    <2>2. RoundingCorrection \div ONE = 0
      BY CorrectionType, OneAssumption, DivBelow, DivFacts, SMT
    <2> QED
      BY <2>1, <2>2, CorrectionType, SMT DEF NumMul
  <1>4. Floor(0) = 0
    BY OneAssumption, SMT DEF Floor
  <1> QED
    BY <1>1, <1>2, <1>3, <1>4, SMT DEF Earned

\* The trackers of a new position.
Fresh(indexes) ==
    [i \in DOMAIN indexes |-> [last_seen_index |-> indexes[i], staged |-> 0]]

\* A new position is due nothing.
LEMMA OneFresh ==
    ASSUME NEW T \in [Owners -> Seq(Tracker)], NEW B \in [Owners -> Nat],
           NEW U \in [Owners -> Seq(Tracker)], NEW C \in [Owners -> Nat],
           NEW indexes \in Seq(Nat), \A o \in Owners : CanEarnAll(T[o], indexes),
           NEW owner \in Owners, T[owner] = <<>>, B[owner] = 0,
           U[owner] = Fresh(indexes),
           \A o \in Owners \ {owner} : U[o] = T[o] /\ C[o] = B[o],
           NEW i \in DOMAIN indexes
    PROVE  NoMoreDue(FineDues(U, C, i, indexes[i]), FineDues(T, B, i, indexes[i]))
  <1> DEFINE index == indexes[i]
  <1>1. index \in Nat /\ NotAhead(T, i, index)
    BY CanEarnNotAhead
  <1>2. SeenBy(U[owner], i) = [last_seen_index |-> index, staged |-> 0]
    BY DEF SeenBy, Fresh
  <1>3. Due(T[owner], i, index, B[owner]) = 0
    <2>1. DOMAIN <<>> = {}
      OBVIOUS
    <2>2. Due(T[owner], i, index, B[owner]) = Earned(NewTracker, index, 0)
      BY <2>1 DEF Due
    <2> QED
      BY <1>1, <2>2, NothingStaked
  <1>4. OneStaged(T, B, U, C, owner, i, index)
    BY <1>2, <1>3 DEF OneStaged
  <1> HIDE DEF index
  <1>5. NoMoreDue(FineDues(U, C, i, index), FineDues(T, B, i, index))
    BY <1>1, <1>4, DuesStaged DEF NoMoreDue
  <1> QED
    BY <1>5 DEF index

LEMMA InitLpPositionFunded ==
    ASSUME LpInv, FundedInv, NEW owner \in Owners, InitLpPosition(owner), LpInv'
    PROVE  FundedInv'
  <1> DEFINE P == lp_position
             Q == lp_position'
             E == EmissionIndexes(market)
             F == FarmIndexes(market)
  <1>1. /\ market \in Market /\ P \in [Owners -> LpPosition]
        /\ Q \in [Owners -> LpPosition] /\ E \in Seq(Nat) /\ F \in Seq(Nat)
        /\ tokens.farm \in [FarmMints -> Nat]
        /\ DOMAIN E = DOMAIN market.emissions
        /\ DOMAIN F = DOMAIN market.lp_farm.farm_emissions
    BY IndexesType, MarketLists DEF LpInv, LpTypeOK
  <1>2. /\ owner \notin opened /\ opened' = opened \cup {owner}
        /\ Q[owner].lp_balance = 0
        /\ Q[owner].emissions = Fresh(E) /\ Q[owner].farms = Fresh(F)
        /\ \A o \in Owners \ {owner} : Q[o] = P[o]
        /\ UNCHANGED <<now, market, tokens, sy_emissions>>
    BY <1>1 DEF InitLpPosition, Fresh
  <1>3. /\ P[owner].lp_balance = 0 /\ P[owner].emissions = <<>>
        /\ P[owner].farms = <<>>
    <2>1. P[owner] = NoPosition
      BY <1>2 DEF FundedInv
    <2> QED
      BY <2>1 DEF NoPosition
  <1>4. \A o \in Owners \ opened' : Q[o] = NoPosition
    BY <1>2 DEF FundedInv
  <1>5. SumOver(Balances(Q), Owners) = market.lp_escrow_amount
    <2>1. /\ SumOver(Balances(P), Owners) \in Nat
          /\ SumOver(Balances(Q), Owners) \in Nat
          /\ SumOver(Balances(Q), Owners) + P[owner].lp_balance
                = SumOver(Balances(P), Owners) + Q[owner].lp_balance
      <3> HIDE DEF P, Q
      <3> QED
        BY <1>1, <1>2, OneBalance
    <2>2. SumOver(Balances(Q), Owners) = SumOver(Balances(P), Owners)
      BY <1>2, <1>3, <2>1, SMT
    <2> QED
      BY <2>2 DEF FundedInv, StakesCounted
  <1>6. \A o \in Owners :
            /\ CanEarnAll(P[o].farms, F)
            /\ ~MayRemoveMarketEmission => CanEarnAll(P[o].emissions, E)
    BY DEF LpInv, FarmsBehind, EmissionsBehind
  <1>7. /\ Balances(P) \in [Owners -> Nat] /\ Balances(Q) \in [Owners -> Nat]
        /\ Balances(P)[owner] = 0
        /\ \A o \in Owners \ {owner} : Balances(Q)[o] = Balances(P)[o]
    <2> HIDE DEF P, Q, E, F
    <2>1. /\ Balances(P) \in [Owners -> Nat]
          /\ Balances(P)[owner] = P[owner].lp_balance
      BY ONLY <1>1, owner \in Owners, ListsType
    <2>2. Balances(Q) \in [Owners -> Nat]
      BY ONLY <1>1, ListsType
    <2>3. \A o \in Owners \ {owner} : Balances(Q)[o] = Balances(P)[o]
      BY <1>2 DEF Balances
    <2> QED
      BY <1>3, <2>1, <2>2, <2>3
  <1>8. ASSUME ~MayRemoveMarketEmission
        PROVE  EmissionsFunded(market, Q)
    <2>1. EmissionsFunded(market, P)
      BY <1>8 DEF FundedInv
    <2> DEFINE T == EmissionTrackers(P)
               U == EmissionTrackers(Q)
    <2> HIDE DEF P, Q
    <2>2. /\ T \in [Owners -> Seq(Tracker)] /\ U \in [Owners -> Seq(Tracker)]
          /\ T[owner] = <<>> /\ U[owner] = Fresh(E)
          /\ \A o \in Owners \ {owner} : U[o] = T[o]
          /\ \A o \in Owners : CanEarnAll(T[o], E)
      <3>1. T \in [Owners -> Seq(Tracker)] /\ T[owner] = P[owner].emissions
            /\ \A o \in Owners : T[o] = P[o].emissions
        BY ONLY <1>1, owner \in Owners, ListsType DEF T
      <3>2. U \in [Owners -> Seq(Tracker)] /\ U[owner] = Q[owner].emissions
        BY ONLY <1>1, owner \in Owners, ListsType DEF U
      <3>3. \A o \in Owners \ {owner} : U[o] = T[o]
        BY <1>2 DEF T, U, EmissionTrackers, FarmTrackers
      <3> HIDE DEF T, U, E
      <3> QED
        BY <1>2, <1>3, <1>6, <1>8, <3>1, <3>2, <3>3
    <2>3. ASSUME NEW i \in DOMAIN market.emissions
          PROVE  NoMoreDue(EmissionFineDues(market, Q, i),
                           EmissionFineDues(market, P, i))
      <3>1. i \in DOMAIN E
        BY <1>1
      <3> HIDE DEF T, U, E
      <3>2. NoMoreDue(FineDues(U, Balances(Q), i, E[i]),
                      FineDues(T, Balances(P), i, E[i]))
        BY <1>1, <1>7, <2>2, <3>1, OneFresh
      <3> QED
        BY <3>2 DEF EmissionFineDues, T, U, E
    <2> QED
      BY <1>1, <2>1, <2>3, EmissionsStillFunded
  <1>9. ASSUME ModifiedRates = {}
        PROVE  FarmsFunded(market, Q, tokens.farm)
    <2>1. FarmsFunded(market, P, tokens.farm)
      BY <1>9 DEF FundedInv
    <2> DEFINE T == FarmTrackers(P)
               U == FarmTrackers(Q)
    <2> HIDE DEF P, Q
    <2>2. /\ T \in [Owners -> Seq(Tracker)] /\ U \in [Owners -> Seq(Tracker)]
          /\ T[owner] = <<>> /\ U[owner] = Fresh(F)
          /\ \A o \in Owners \ {owner} : U[o] = T[o]
          /\ \A o \in Owners : CanEarnAll(T[o], F)
      <3>1. T \in [Owners -> Seq(Tracker)] /\ T[owner] = P[owner].farms
            /\ \A o \in Owners : T[o] = P[o].farms
        BY ONLY <1>1, owner \in Owners, ListsType DEF T
      <3>2. U \in [Owners -> Seq(Tracker)] /\ U[owner] = Q[owner].farms
        BY ONLY <1>1, owner \in Owners, ListsType DEF U
      <3>3. \A o \in Owners \ {owner} : U[o] = T[o]
        BY <1>2 DEF T, U, EmissionTrackers, FarmTrackers
      <3> HIDE DEF T, U, F
      <3> QED
        BY <1>2, <1>3, <1>6, <3>1, <3>2, <3>3
    <2>3. ASSUME NEW i \in DOMAIN market.lp_farm.farm_emissions
          PROVE  NoMoreDue(FarmFineDues(market, Q, i), FarmFineDues(market, P, i))
      <3>1. i \in DOMAIN F
        BY <1>1
      <3> HIDE DEF T, U, F
      <3>2. NoMoreDue(FineDues(U, Balances(Q), i, F[i]),
                      FineDues(T, Balances(P), i, F[i]))
        BY <1>1, <1>7, <2>2, <3>1, OneFresh
      <3> QED
        BY <3>2 DEF FarmFineDues, T, U, F
    <2> QED
      BY <1>1, <2>1, <2>3, FarmsStillFunded
  <1>10. market.lp_farm.last_seen_timestamp <= now
    BY DEF FundedInv, StakesCounted
  <1> QED
    BY <1>2, <1>4, <1>5, <1>8, <1>9, <1>10, FundedAfter

\* deposit_lp and withdraw_lp move the same LP in the stake of the owner and
\* in that of the market.
LEMMA StakeStepFunded ==
    ASSUME LpInv, FundedInv, NEW owner \in Owners, owner \in opened,
           NEW escrow \in Nat, NEW balance \in Nat,
           StakeStep(owner, escrow, balance), tokens'.farm = tokens.farm,
           escrow + lp_position[owner].lp_balance
                = market.lp_escrow_amount + balance
    PROVE  FundedInv'
  <1> DEFINE n == Settle(market)
             P == lp_position
             p == P[owner]
             q == [StageAll(p, n) EXCEPT !.lp_balance = balance]
             Q == [P EXCEPT ![owner] = q]
             held == tokens.farm
  <1>1. /\ market \in Market /\ now \in Nat /\ sy_emissions \in Seq(Nat)
        /\ P \in [Owners -> LpPosition] /\ p \in LpPosition
        /\ opened \subseteq Owners /\ held \in [FarmMints -> Nat]
    BY DEF LpInv, LpTypeOK
  <1>2. /\ CanUpdateEmissions(market) /\ CanStageAll(p, n)
        /\ market' = [n EXCEPT !.lp_escrow_amount = escrow]
        /\ lp_position' = Q
        /\ UNCHANGED <<now, opened, sy_emissions>>
    BY DEF StakeStep, CanStage
  <1>3. Settled(market, n)
    BY <1>1, <1>2, SettleFacts
  <1>4. n \in Market
    BY <1>3 DEF Settled
  <1>5. /\ \A o \in Owners : FarmsBehind(P[o], market)
        /\ ~MayRemoveMarketEmission =>
                \A o \in Owners : EmissionsBehind(P[o], market)
    BY DEF LpInv
  <1>6. /\ StakesCounted(market, P)
        /\ ~MayRemoveMarketEmission => EmissionsFunded(market, P)
        /\ ModifiedRates = {} => FarmsFunded(market, P, held)
        /\ \A o \in Owners \ opened : P[o] = NoPosition
    BY DEF FundedInv
  <1>7. /\ StakesCounted(n, P)
        /\ ~MayRemoveMarketEmission => EmissionsFunded(n, P)
        /\ ModifiedRates = {} => FarmsFunded(n, P, held)
    <2>1. /\ StakesCounted(n, P)
          /\ EmissionsFunded(market, P)
             /\ (\A o \in Owners : EmissionsBehind(P[o], market))
                => EmissionsFunded(n, P)
          /\ FarmsFunded(market, P, held) => FarmsFunded(n, P, held)
      <3> HIDE DEF P, held
      <3> QED
        BY ONLY <1>1, <1>2, <1>5, <1>6, SettleFunded
    <2> QED
      BY <1>5, <1>6, <2>1
  <1> HIDE DEF n
  <1>8. \A o \in Owners : /\ FarmsBehind(P[o], n)
                          /\ ~MayRemoveMarketEmission => EmissionsBehind(P[o], n)
    BY <1>3, <1>4, BehindSettled
  <1>9. /\ Q \in [Owners -> LpPosition]
        /\ ~MayRemoveMarketEmission => EmissionsFunded(n, Q)
        /\ ModifiedRates = {} => FarmsFunded(n, Q, held)
    <2> HIDE DEF P, held
    <2>1. LET R == [P EXCEPT ![owner] =
                        [StageAll(P[owner], n) EXCEPT !.lp_balance = balance]]
          IN  /\ R \in [Owners -> LpPosition]
              /\ EmissionsFunded(n, P) /\ (\A o \in Owners : EmissionsBehind(P[o], n))
                    => EmissionsFunded(n, R)
              /\ FarmsFunded(n, P, held) /\ held \in [FarmMints -> Nat]
                    => FarmsFunded(n, R, held)
      BY <1>1, <1>2, <1>4, <1>8, StageFunded
    <2>2. /\ Q \in [Owners -> LpPosition]
          /\ EmissionsFunded(n, P) /\ (\A o \in Owners : EmissionsBehind(P[o], n))
                => EmissionsFunded(n, Q)
          /\ FarmsFunded(n, P, held) /\ held \in [FarmMints -> Nat]
                => FarmsFunded(n, Q, held)
      BY <2>1
    <2> HIDE DEF Q
    <2> QED
      BY <1>1, <1>7, <1>8, <2>2
  <1>10. Q[owner].lp_balance = balance /\ \A o \in Owners \ {owner} : Q[o] = P[o]
    <2>1. q.lp_balance = balance
      BY <1>1, <1>2, <1>4, StageAllFacts
    <2> HIDE DEF q
    <2> QED
      BY <1>1, <2>1
  <1>11. /\ market'.emissions = n.emissions /\ market'.lp_farm = n.lp_farm
         /\ market'.lp_escrow_amount = escrow
    BY <1>2, <1>4 DEF Market
  <1> HIDE DEF q, Q
  <1>12. SumOver(Balances(lp_position'), Owners) = market'.lp_escrow_amount
    <2> DEFINE a == SumOver(Balances(P), Owners)
               b == SumOver(Balances(Q), Owners)
               x == p.lp_balance
    <2>1. a \in Nat /\ b \in Nat /\ b + x = a + balance
      <3> HIDE DEF P
      <3>1. /\ SumOver(Balances(P), Owners) \in Nat
            /\ SumOver(Balances(Q), Owners) \in Nat
            /\ SumOver(Balances(Q), Owners) + P[owner].lp_balance
                 = SumOver(Balances(P), Owners) + Q[owner].lp_balance
        BY <1>1, <1>9, <1>10, OneBalance
      <3> QED
        BY <1>10, <3>1
    <2>2. a = market.lp_escrow_amount
      BY <1>6 DEF StakesCounted
    <2>3. escrow + x = a + balance
      BY <2>2
    <2>4. x \in Nat
      BY <1>1 DEF LpPosition
    <2> HIDE DEF a, b, x
    <2>5. b = escrow
      BY <2>1, <2>3, <2>4, SMT
    <2> QED
      BY <1>2, <1>11, <2>5 DEF b
  <1>13. market'.lp_farm.last_seen_timestamp <= now'
    BY <1>2, <1>7, <1>11 DEF StakesCounted
  <1>14. ~MayRemoveMarketEmission => EmissionsFunded(market', lp_position')
    BY <1>2, <1>9, <1>11, EmissionsFundedSame
  <1>15. ModifiedRates = {} => FarmsFunded(market', lp_position', tokens'.farm)
    BY <1>2, <1>9, <1>11, FarmsFundedSame
  <1>16. \A o \in Owners \ opened' : lp_position'[o] = NoPosition
    <2> SUFFICES ASSUME NEW o \in Owners \ opened
                 PROVE  Q[o] = NoPosition
      BY <1>2
    <2> QED
      BY <1>6, <1>10
  <1> QED
    BY <1>12, <1>13, <1>14, <1>15, <1>16, FundedAfter

LEMMA DepositLpFunded ==
    ASSUME LpInv, FundedInv, NEW owner \in Owners, NEW amount \in LpAmounts,
           DepositLp(owner, amount)
    PROVE  FundedInv'
  <1> DEFINE escrow == market.lp_escrow_amount + amount
             balance == lp_position[owner].lp_balance + amount
  <1>1. /\ owner \in opened /\ CanStage(owner) /\ amount <= tokens.lp_wallets
        /\ market' = [Settle(market) EXCEPT !.lp_escrow_amount
                        = Settle(market).lp_escrow_amount + amount]
        /\ lp_position' =
            [lp_position EXCEPT ![owner] =
                [StageAll(lp_position[owner], Settle(market)) EXCEPT !.lp_balance =
                    StageAll(lp_position[owner], Settle(market)).lp_balance + amount]]
        /\ tokens' = [tokens EXCEPT !.lp_wallets = @ - amount]
        /\ UNCHANGED <<now, opened, sy_emissions>>
    BY DEF DepositLp
  <1>2. /\ Settle(market).lp_escrow_amount = market.lp_escrow_amount
        /\ StageAll(lp_position[owner], Settle(market)).lp_balance
                = lp_position[owner].lp_balance
        /\ market.lp_escrow_amount \in Nat
        /\ lp_position[owner].lp_balance \in Nat
        /\ tokens.lp_wallets \in Nat
    BY <1>1, StakeFacts
  <1>3. amount \in Nat
    BY LpFarmAssumption
  <1>4. /\ escrow \in Nat /\ balance \in Nat
        /\ escrow + lp_position[owner].lp_balance
                = market.lp_escrow_amount + balance
    BY <1>1, <1>2, <1>3, SMT
  <1>5. StakeStep(owner, escrow, balance)
    BY <1>1, <1>2 DEF StakeStep
  <1>6. tokens'.farm = tokens.farm
    BY <1>1 DEF LpInv, LpTypeOK
  <1> HIDE DEF escrow, balance
  <1> QED
    BY <1>1, <1>4, <1>5, <1>6, StakeStepFunded

LEMMA WithdrawLpFunded ==
    ASSUME LpInv, FundedInv, NEW owner \in Owners, NEW amount \in LpAmounts,
           WithdrawLp(owner, amount)
    PROVE  FundedInv'
  <1> DEFINE escrow == market.lp_escrow_amount - amount
             balance == lp_position[owner].lp_balance - amount
  <1>1. /\ owner \in opened /\ CanStage(owner)
        /\ amount <= lp_position[owner].lp_balance
        /\ amount <= market.lp_escrow_amount
        /\ market' = [Settle(market) EXCEPT !.lp_escrow_amount
                        = Settle(market).lp_escrow_amount - amount]
        /\ lp_position' =
            [lp_position EXCEPT ![owner] =
                [StageAll(lp_position[owner], Settle(market)) EXCEPT !.lp_balance =
                    StageAll(lp_position[owner], Settle(market)).lp_balance - amount]]
        /\ tokens' = [tokens EXCEPT !.lp_wallets = @ + amount]
        /\ UNCHANGED <<now, opened, sy_emissions>>
    BY DEF WithdrawLp
  <1>2. /\ Settle(market).lp_escrow_amount = market.lp_escrow_amount
        /\ StageAll(lp_position[owner], Settle(market)).lp_balance
                = lp_position[owner].lp_balance
        /\ market.lp_escrow_amount \in Nat
        /\ lp_position[owner].lp_balance \in Nat
        /\ tokens.lp_wallets \in Nat
    BY <1>1, StakeFacts
  <1>3. amount \in Nat
    BY LpFarmAssumption
  <1>4. /\ escrow \in Nat /\ balance \in Nat
        /\ escrow + lp_position[owner].lp_balance
                = market.lp_escrow_amount + balance
    BY <1>1, <1>2, <1>3, SMT
  <1>5. StakeStep(owner, escrow, balance)
    BY <1>1, <1>2 DEF StakeStep
  <1>6. tokens'.farm = tokens.farm
    BY <1>1 DEF LpInv, LpTypeOK
  <1> HIDE DEF escrow, balance
  <1> QED
    BY <1>1, <1>4, <1>5, <1>6, StakeStepFunded

\* Tracker i of owner loses amount, which was staged.
OneTrackerPaid(T, U, owner, i, amount) ==
    /\ i \in DOMAIN T[owner]
    /\ amount <= T[owner][i].staged
    /\ U[owner] = [T[owner] EXCEPT ![i].staged = T[owner][i].staged - amount]
    /\ \A o \in Owners \ {owner} : U[o] = T[o]

\* What of reward k is paid when amount of reward i is.
PaidFor(i, k, amount) == IF k = i THEN amount ELSE 0

\* A payment lowers what all are due of its reward, and of no other.
LEMMA PaymentDues ==
    ASSUME NEW T \in [Owners -> Seq(Tracker)], NEW U \in [Owners -> Seq(Tracker)],
           NEW B \in [Owners -> Nat], NEW indexes \in Seq(Nat),
           \A o \in Owners : CanEarnAll(T[o], indexes),
           NEW owner \in Owners, NEW i, NEW amount \in Nat,
           OneTrackerPaid(T, U, owner, i, amount), NEW k \in DOMAIN indexes
    PROVE  LessDue(FineDues(U, B, k, indexes[k]), FineDues(T, B, k, indexes[k]),
                   PaidFor(i, k, amount))
  <1> DEFINE index == indexes[k]
             paid == PaidFor(i, k, amount)
  <1>1. index \in Nat /\ NotAhead(T, k, index)
    BY CanEarnNotAhead
  <1>2. paid \in Nat
    BY DEF PaidFor
  <1>3. /\ i \in DOMAIN T[owner] /\ amount <= T[owner][i].staged
        /\ U[owner] = [T[owner] EXCEPT ![i].staged = T[owner][i].staged - amount]
        /\ \A o \in Owners \ {owner} : U[o] = T[o]
    BY DEF OneTrackerPaid
  <1>4. T[owner] \in Seq(Tracker)
    OBVIOUS
  <1>5. OnePaid(T, U, owner, k, paid)
    <2> DEFINE t == T[owner]
               u == U[owner]
               left == t[i].staged - amount
    <2>1. /\ DOMAIN u = DOMAIN t
          /\ u[i] = [t[i] EXCEPT !.staged = left]
          /\ \A j \in DOMAIN t : j # i => u[j] = t[j]
      BY <1>3
    <2>2. t[i] \in Tracker
      BY <1>3, <1>4
    <2> HIDE DEF t, u, left
    <2>3. u[i].last_seen_index = t[i].last_seen_index /\ u[i].staged = left
      BY <2>1, <2>2 DEF Tracker
    <2>4. CASE k = i
      <3>1. SeenBy(u, k) = u[i] /\ SeenBy(t, k) = t[i]
        BY <1>3, <2>1, <2>4 DEF SeenBy, t
      <3>2. paid = amount
        BY <2>4 DEF PaidFor
      <3> QED
        BY <1>3, <2>3, <3>1, <3>2 DEF OnePaid, t, u, left
    <2>5. CASE k # i
      <3>1. SeenBy(u, k) = SeenBy(t, k)
        BY <2>1, <2>5 DEF SeenBy
      <3>2. paid = 0
        BY <2>5 DEF PaidFor
      <3>3. SeenBy(t, k).staged \in Nat
        BY <1>4, SeenByFacts DEF t
      <3>4. 0 <= SeenBy(t, k).staged
            /\ SeenBy(t, k).staged - 0 = SeenBy(t, k).staged
        BY <3>3, SMT
      <3> HIDE DEF paid
      <3> QED
        BY <1>3, <3>1, <3>2, <3>4 DEF OnePaid, t, u
    <2> QED
      BY <2>4, <2>5
  <1> HIDE DEF index, paid
  <1>6. LessDue(FineDues(U, B, k, index), FineDues(T, B, k, index), paid)
    <2>1. /\ T \in [Owners -> Seq(Tracker)] /\ U \in [Owners -> Seq(Tracker)]
          /\ B \in [Owners -> Nat] /\ owner \in Owners
      OBVIOUS
    <2> QED
      BY ONLY <1>1, <1>2, <1>5, <2>1, DuesPaid
  <1> QED
    BY <1>6 DEF index, paid

\* The same stakes, though one position is replaced.
LEMMA SameBalances ==
    ASSUME NEW P \in [Owners -> LpPosition], NEW owner \in Owners,
           NEW q \in LpPosition, q.lp_balance = P[owner].lp_balance
    PROVE  Balances([P EXCEPT ![owner] = q]) = Balances(P)
  BY DEF Balances

\* n has seen paid less of emission k than m.
SeenLess(m, n, k, paid) ==
    /\ paid <= m.emissions[k].last_seen_staged
    /\ n.emissions[k].last_seen_staged = m.emissions[k].last_seen_staged - paid

\* A payment is taken off what the market has seen of the emission.
LEMMA PaidEmissionFunded ==
    ASSUME NEW m \in Market, NEW n \in Market, NEW P, NEW Q,
           EmissionsFunded(m, P), NEW i, NEW amount \in Nat,
           DOMAIN n.emissions = DOMAIN m.emissions,
           \A k \in DOMAIN m.emissions :
                LET paid == PaidFor(i, k, amount)
                IN  /\ SeenLess(m, n, k, paid)
                    /\ LessDue(EmissionFineDues(n, Q, k), EmissionFineDues(m, P, k),
                               paid)
    PROVE  EmissionsFunded(n, Q)
  <1> SUFFICES ASSUME NEW k \in DOMAIN m.emissions
               PROVE  SumOver(EmissionFineDues(n, Q, k), Owners)
                        <= ONE * n.emissions[k].last_seen_staged
    BY DEF EmissionsFunded
  <1> DEFINE a == SumOver(EmissionFineDues(n, Q, k), Owners)
             b == SumOver(EmissionFineDues(m, P, k), Owners)
             paid == PaidFor(i, k, amount)
             s == m.emissions[k].last_seen_staged
             t == n.emissions[k].last_seen_staged
  <1>1. paid <= s /\ t = s - paid /\ a \in Nat /\ a + ONE * paid = b
    BY DEF SeenLess, LessDue
  <1>2. b <= ONE * s
    BY DEF EmissionsFunded
  <1>3. s \in Nat /\ paid \in Nat
    BY MarketLists DEF PaidFor
  <1> HIDE DEF a, b, paid, s, t
  <1>4. t \in Nat /\ s = t + paid
    BY <1>1, <1>3, SMT
  <1>5. ONE * (t + paid) = ONE * t + ONE * paid /\ ONE * t \in Nat
        /\ ONE * paid \in Nat
    BY <1>3, <1>4, OneAssumption, SMT
  <1>6. a <= ONE * t
    <2>1. a + ONE * paid <= ONE * t + ONE * paid
      BY <1>1, <1>2, <1>4, <1>5
    <2> QED
      BY <1>1, <1>5, <2>1, SMT
  <1> QED
    BY <1>6 DEF a, t

LEMMA MarketCollectEmissionFunded ==
    ASSUME LpInv, FundedInv, NEW owner \in Owners, NEW i,
           MarketCollectEmission(owner, i), LpInv'
    PROVE  FundedInv'
  <1> DEFINE P == lp_position
             p == P[owner]
             amount == p.emissions[i].staged
             seen == market.emissions[i].last_seen_staged
             left == seen - amount
             after == [p.emissions EXCEPT ![i].staged = 0]
             q == [p EXCEPT !.emissions = after]
             Q == [P EXCEPT ![owner] = q]
             E == EmissionIndexes(market)
  <1>1. /\ market \in Market /\ P \in [Owners -> LpPosition] /\ p \in LpPosition
        /\ lp_position' \in [Owners -> LpPosition] /\ market' \in Market
        /\ E \in Seq(Nat) /\ opened \subseteq Owners
    BY IndexesType DEF LpInv, LpTypeOK
  <1>2. /\ i \in DOMAIN market.emissions /\ i \in DOMAIN p.emissions
        /\ amount <= seen
        /\ market' = [market EXCEPT !.emissions[i].last_seen_staged = left]
        /\ lp_position' = [P EXCEPT ![owner].emissions[i].staged = 0]
        /\ owner \in opened
        /\ UNCHANGED <<now, opened, tokens>>
    BY DEF MarketCollectEmission
  <1>3. lp_position' = Q
    BY <1>2
  <1>4. p.emissions \in Seq(Tracker) /\ p.emissions[i] \in Tracker
    BY <1>1, <1>2 DEF LpPosition
  <1>5. amount \in Nat /\ seen \in Nat /\ left \in Nat
    <2>1. amount \in Nat /\ seen \in Nat
      BY <1>1, <1>2, <1>4, MarketLists DEF Tracker
    <2> HIDE DEF amount, seen
    <2> QED
      BY <1>2, <2>1, SMT
  <1> HIDE DEF left
  <1>6. /\ SameIndexes(market, market')
        /\ DOMAIN market'.emissions = DOMAIN market.emissions
        /\ \A k \in DOMAIN market.emissions :
                market'.emissions[k].last_seen_staged =
                    IF k = i THEN left ELSE market.emissions[k].last_seen_staged
    <2>1. LET n == [market EXCEPT !.emissions[i].last_seen_staged = left]
          IN  /\ SameIndexes(market, n)
              /\ DOMAIN n.emissions = DOMAIN market.emissions
              /\ \A k \in DOMAIN market.emissions :
                    n.emissions[k].last_seen_staged =
                        IF k = i THEN left ELSE market.emissions[k].last_seen_staged
      BY <1>1, <1>2, <1>5, PayEmissionFacts
    <2> QED
      BY <1>2, <2>1
  <1>7. market'.lp_farm = market.lp_farm
        /\ market'.lp_escrow_amount = market.lp_escrow_amount
    BY <1>1, <1>2 DEF Market
  <1>8. /\ q.emissions = after /\ q.farms = p.farms
        /\ q.lp_balance = p.lp_balance
    BY <1>1 DEF LpPosition
  <1> HIDE DEF q
  <1>9. /\ Q[owner] = q /\ \A o \in Owners \ {owner} : Q[o] = P[o]
        /\ q \in LpPosition
    <2>1. Q[owner] = q /\ \A o \in Owners \ {owner} : Q[o] = P[o]
      BY <1>1
    <2>2. Q \in [Owners -> LpPosition]
      BY <1>1, <1>3
    <2> HIDE DEF Q
    <2> QED
      BY <2>1, <2>2
  <1>10. Balances(Q) = Balances(P)
    <2> HIDE DEF P
    <2> QED
      BY <1>1, <1>8, <1>9, SameBalances
  <1> HIDE DEF Q
  <1>11. FarmTrackers(Q) = FarmTrackers(P)
    <2>1. \A o \in Owners : Q[o].farms = P[o].farms
      BY <1>8, <1>9
    <2> QED
      BY <2>1 DEF FarmTrackers
  <1>12. ASSUME ~MayRemoveMarketEmission
         PROVE  EmissionsFunded(market', Q)
    <2>1. EmissionsFunded(market, P)
      BY <1>12 DEF FundedInv
    <2>2. \A o \in Owners : CanEarnAll(P[o].emissions, E)
      BY <1>12 DEF LpInv, EmissionsBehind
    <2> DEFINE T == EmissionTrackers(P)
               U == EmissionTrackers(Q)
               B == Balances(P)
    <2> HIDE DEF P, E
    <2>3. /\ T \in [Owners -> Seq(Tracker)] /\ U \in [Owners -> Seq(Tracker)]
          /\ B \in [Owners -> Nat]
          /\ \A o \in Owners : T[o] = P[o].emissions /\ U[o] = Q[o].emissions
      <3>1. Q \in [Owners -> LpPosition]
        BY <1>1, <1>3
      <3> QED
        BY <1>1, <3>1, ListsType
    <2> HIDE DEF T, U, B
    <2>4. OneTrackerPaid(T, U, owner, i, amount)
      <3>1. T[owner] = p.emissions /\ U[owner] = after
        BY <1>8, <1>9, <2>3
      <3>2. \A o \in Owners \ {owner} : U[o] = T[o]
        BY <1>9, <2>3
      <3>3. amount <= amount /\ amount - amount = 0
        BY <1>5, SMT
      <3> QED
        BY <1>2, <3>1, <3>2, <3>3 DEF OneTrackerPaid
    <2>5. ASSUME NEW k \in DOMAIN market.emissions
          PROVE  LET paid == PaidFor(i, k, amount)
                 IN  /\ SeenLess(market, market', k, paid)
                     /\ LessDue(EmissionFineDues(market', Q, k),
                                EmissionFineDues(market, P, k), paid)
      <3> DEFINE paid == PaidFor(i, k, amount)
      <3>1. k \in DOMAIN E
        BY <1>1, MarketLists DEF E
      <3>2. \A o \in Owners : CanEarnAll(T[o], E)
        BY <2>2, <2>3
      <3>3. LessDue(FineDues(U, B, k, E[k]), FineDues(T, B, k, E[k]), paid)
        <4> HIDE DEF amount
        <4>1. E \in Seq(Nat) /\ amount \in Nat /\ owner \in Owners
          BY <1>1, <1>5
        <4>2. /\ T \in [Owners -> Seq(Tracker)] /\ U \in [Owners -> Seq(Tracker)]
              /\ B \in [Owners -> Nat]
          BY <2>3
        <4> QED
          BY ONLY <2>4, <3>1, <3>2, <4>1, <4>2, PaymentDues
      <3>4. EmissionFineDues(market, P, k) = FineDues(T, B, k, E[k])
        BY DEF EmissionFineDues, T, B, E
      <3>5. EmissionFineDues(market', Q, k) = FineDues(U, B, k, E[k])
        BY <1>6, <1>10 DEF EmissionFineDues, U, B, E, SameIndexes
      <3>6. market.emissions[k].last_seen_staged \in Nat
        BY <1>1, MarketLists
      <3>7. CASE k = i
        <4>1. SeenLess(market, market', k, paid)
          BY <1>2, <1>6, <3>7 DEF left, SeenLess, PaidFor
        <4> QED
          BY <3>3, <3>4, <3>5, <4>1
      <3>8. CASE k # i
        <4>1. paid = 0
          BY <3>8 DEF PaidFor
        <4>2. market'.emissions[k].last_seen_staged
                = market.emissions[k].last_seen_staged
          BY <1>6, <3>8
        <4>3. /\ 0 <= market.emissions[k].last_seen_staged
              /\ market.emissions[k].last_seen_staged
                    = market.emissions[k].last_seen_staged - 0
          BY <3>6, SMT
        <4>4. SeenLess(market, market', k, paid)
          BY <4>1, <4>2, <4>3 DEF SeenLess
        <4> QED
          BY <3>3, <3>4, <3>5, <4>4
      <3> QED
        BY <3>7, <3>8
    <2> HIDE DEF amount
    <2>6. market \in Market /\ market' \in Market /\ amount \in Nat
          /\ DOMAIN market'.emissions = DOMAIN market.emissions
      BY <1>1, <1>5, <1>6
    <2> QED
      BY ONLY <2>1, <2>5, <2>6, PaidEmissionFunded
  <1>13. ASSUME ModifiedRates = {}
         PROVE  FarmsFunded(market', Q, tokens.farm)
    <2>1. FarmsFunded(market, P, tokens.farm)
      BY <1>13 DEF FundedInv
    <2>2. FarmsFunded(market, Q, tokens.farm)
      <3>1. \A k : FarmFineDues(market, Q, k) = FarmFineDues(market, P, k)
        BY <1>10, <1>11 DEF FarmFineDues
      <3> QED
        BY <2>1, <3>1 DEF FarmsFunded
    <2> QED
      BY <1>7, <2>2, FarmsFundedSame
  <1>14. /\ SumOver(Balances(P), Owners) = market.lp_escrow_amount
         /\ market.lp_farm.last_seen_timestamp <= now
    BY DEF FundedInv, StakesCounted
  <1>15. \A o \in Owners \ opened' : lp_position'[o] = NoPosition
    <2>1. \A o \in Owners \ opened : P[o] = NoPosition
      BY DEF FundedInv
    <2> HIDE DEF P
    <2> QED
      BY <1>2, <1>3, <1>9, <2>1
  <1> HIDE DEF P
  <1> QED
    BY <1>2, <1>3, <1>7, <1>10, <1>12, <1>13, <1>14, <1>15, FundedAfter

\* Less is held of the mint of farm i.
HeldLess(m, held, kept, i, amount) ==
    /\ i \in DOMAIN m.lp_farm.farm_emissions
    /\ LET mint == m.lp_farm.farm_emissions[i].mint
       IN  /\ amount <= held[mint]
           /\ kept = [held EXCEPT ![mint] = held[mint] - amount]

\* A payment is taken off what is held of the mint of the farm.
LEMMA PaidFarmFunded ==
    ASSUME NEW m \in Market, NEW P, NEW Q, NEW held \in [FarmMints -> Nat],
           NEW kept \in [FarmMints -> Nat],
           FarmsFunded(m, P, held), NEW i, NEW amount \in Nat,
           HeldLess(m, held, kept, i, amount),
           \A k \in DOMAIN m.lp_farm.farm_emissions :
                LessDue(FarmFineDues(m, Q, k), FarmFineDues(m, P, k),
                        PaidFor(i, k, amount))
    PROVE  FarmsFunded(m, Q, kept)
  <1> DEFINE farms == m.lp_farm.farm_emissions
             mint == farms[i].mint
  <1>1. /\ i \in DOMAIN farms /\ amount <= held[mint]
        /\ kept = [held EXCEPT ![mint] = held[mint] - amount]
    BY DEF HeldLess
  <1>2. \A k \in DOMAIN farms : farms[k].mint \in FarmMints
    BY MarketLists
  <1> SUFFICES ASSUME NEW k \in DOMAIN farms
               PROVE  SumOver(FarmFineDues(m, Q, k), Owners) + ONE * ToBeEmitted(m, k)
                        <= ONE * kept[farms[k].mint]
    BY DEF FarmsFunded
  <1> DEFINE a == SumOver(FarmFineDues(m, Q, k), Owners)
             b == SumOver(FarmFineDues(m, P, k), Owners)
             e == ONE * ToBeEmitted(m, k)
             paid == PaidFor(i, k, amount)
             s == held[farms[k].mint]
             t == kept[farms[k].mint]
  <1>3. a \in Nat /\ a + ONE * paid = b
    BY DEF LessDue
  <1>4. b + e <= ONE * s
    BY DEF FarmsFunded
  <1>5. s \in Nat /\ t \in Nat /\ paid \in Nat
    BY <1>2 DEF PaidFor
  <1>6. e \in Nat
    <2>1. ToBeEmitted(m, k) \in Nat
      BY ToBeEmittedType
    <2> QED
      BY <2>1, OneAssumption, SMT
  <1>7. s = t + paid
    <2>1. CASE k = i
      <3>1. paid = amount /\ t = s - amount
        BY <1>1, <1>2, <2>1 DEF PaidFor
      <3> HIDE DEF paid, s, t
      <3> QED
        BY <1>5, <3>1, SMT
    <2>2. CASE k # i
      <3>1. paid = 0
        BY <2>2 DEF PaidFor
      <3>2. farms[k].mint # mint
        BY <1>1, <2>2 DEF FarmsFunded
      <3>3. t = s
        BY <1>1, <1>2, <3>2
      <3> HIDE DEF paid, s, t
      <3> QED
        BY <1>5, <3>1, <3>3, SMT
    <2> QED
      BY <2>1, <2>2
  <1> HIDE DEF a, b, e, paid, s, t
  <1>8. ONE * (t + paid) = ONE * t + ONE * paid /\ ONE * t \in Nat
        /\ ONE * paid \in Nat
    BY <1>5, OneAssumption, SMT
  <1>9. a + e <= ONE * t
    <2>1. (a + ONE * paid) + e <= ONE * t + ONE * paid
      BY <1>3, <1>4, <1>7, <1>8
    <2> QED
      BY <1>3, <1>6, <1>8, <2>1, SMT
  <1> QED
    BY <1>9 DEF a, e, t

LEMMA ClaimFarmEmissionsFunded ==
    ASSUME LpInv, FundedInv, NEW owner \in Owners, NEW mint \in FarmMints,
           ClaimFarmEmissions(owner, mint), LpInv'
    PROVE  FundedInv'
  <1> DEFINE P == lp_position
             p == P[owner]
             held == tokens.farm
             F == FarmIndexes(market)
  <1>1. /\ market \in Market /\ P \in [Owners -> LpPosition] /\ p \in LpPosition
        /\ held \in [FarmMints -> Nat] /\ tokens'.farm \in [FarmMints -> Nat]
        /\ tokens \in [lp_wallets : Nat, farm : [FarmMints -> Nat]]
        /\ F \in Seq(Nat) /\ opened \subseteq Owners
        /\ lp_position' \in [Owners -> LpPosition]
        /\ p.farms \in Seq(Tracker)
    BY IndexesType DEF LpInv, LpTypeOK, LpPosition
  <1>2. PICK i \in FarmsOf(mint) :
            /\ i \in DOMAIN p.farms
            /\ \E amount \in Claimable(p.farms[i].staged) :
                /\ amount <= held[mint]
                /\ tokens' = [tokens EXCEPT !.farm[mint] = @ - amount]
                /\ lp_position' =
                    [lp_position EXCEPT ![owner].farms[i].staged = @ - amount]
    BY DEF ClaimFarmEmissions
  <1>3. PICK amount \in Claimable(p.farms[i].staged) :
            /\ amount <= held[mint]
            /\ tokens' = [tokens EXCEPT !.farm[mint] = @ - amount]
            /\ lp_position' =
                [lp_position EXCEPT ![owner].farms[i].staged = @ - amount]
    BY <1>2
  <1>4. owner \in opened /\ UNCHANGED <<now, market, opened, sy_emissions>>
    BY DEF ClaimFarmEmissions
  <1>5. /\ i \in DOMAIN market.lp_farm.farm_emissions
        /\ market.lp_farm.farm_emissions[i].mint = mint
    BY DEF FarmsOf
  <1>6. amount \in Nat /\ amount <= p.farms[i].staged
    <2> DEFINE staged == p.farms[i].staged
    <2>1. \/ amount = staged
          \/ amount \in FarmClaims /\ amount <= staged
      BY DEF Claimable
    <2>2. FarmClaims \subseteq Nat
      BY LpFarmAssumption
    <2>3. staged \in Nat
      <3>1. p.farms[i] \in Tracker
        BY <1>1, <1>2
      <3> QED
        BY <3>1 DEF Tracker
    <2> HIDE DEF staged
    <2>4. CASE amount = staged
      BY <2>3, <2>4, SMT DEF staged
    <2>5. CASE amount \in FarmClaims /\ amount <= staged
      BY <2>2, <2>5 DEF staged
    <2> QED
      BY <2>1, <2>4, <2>5
  <1> DEFINE left == p.farms[i].staged - amount
             after == [p.farms EXCEPT ![i].staged = left]
             q == [p EXCEPT !.farms = after]
             Q == [P EXCEPT ![owner] = q]
             kept == [held EXCEPT ![mint] = held[mint] - amount]
  <1>7. lp_position' = Q
    BY <1>3
  <1>8. tokens'.farm = kept
    BY <1>1, <1>3
  <1> HIDE DEF left
  <1>9. /\ q.farms = after /\ q.emissions = p.emissions
        /\ q.lp_balance = p.lp_balance
    BY <1>1 DEF LpPosition
  <1> HIDE DEF q
  <1>10. /\ Q[owner] = q /\ \A o \in Owners \ {owner} : Q[o] = P[o]
         /\ q \in LpPosition /\ Q \in [Owners -> LpPosition]
    <2>1. Q[owner] = q /\ \A o \in Owners \ {owner} : Q[o] = P[o]
      BY <1>1
    <2>2. Q \in [Owners -> LpPosition]
      BY <1>1, <1>7
    <2> HIDE DEF Q
    <2> QED
      BY <2>1, <2>2
  <1>11. Balances(Q) = Balances(P)
    <2> HIDE DEF P
    <2> QED
      BY <1>1, <1>9, <1>10, SameBalances
  <1> HIDE DEF Q
  <1>12. EmissionTrackers(Q) = EmissionTrackers(P)
    <2>1. \A o \in Owners : Q[o].emissions = P[o].emissions
      BY <1>9, <1>10
    <2> QED
      BY <2>1 DEF EmissionTrackers
  <1>13. ASSUME ModifiedRates = {}
         PROVE  FarmsFunded(market, Q, kept)
    <2>1. FarmsFunded(market, P, held)
      BY <1>13 DEF FundedInv
    <2>2. \A o \in Owners : CanEarnAll(P[o].farms, F)
      BY DEF LpInv, FarmsBehind
    <2> DEFINE T == FarmTrackers(P)
               U == FarmTrackers(Q)
               B == Balances(P)
    <2> HIDE DEF P, F
    <2>3. /\ T \in [Owners -> Seq(Tracker)] /\ U \in [Owners -> Seq(Tracker)]
          /\ B \in [Owners -> Nat]
          /\ \A o \in Owners : T[o] = P[o].farms /\ U[o] = Q[o].farms
      BY <1>1, <1>10, ListsType
    <2> HIDE DEF T, U, B
    <2>4. OneTrackerPaid(T, U, owner, i, amount)
      <3>1. T[owner] = p.farms /\ U[owner] = after
        BY <1>9, <1>10, <2>3
      <3>2. \A o \in Owners \ {owner} : U[o] = T[o]
        BY <1>10, <2>3
      <3> QED
        BY <1>2, <1>6, <3>1, <3>2 DEF OneTrackerPaid, left
    <2>5. ASSUME NEW k \in DOMAIN market.lp_farm.farm_emissions
          PROVE  LessDue(FarmFineDues(market, Q, k), FarmFineDues(market, P, k),
                         PaidFor(i, k, amount))
      <3>1. k \in DOMAIN F
        BY <1>1, MarketLists DEF F
      <3>2. \A o \in Owners : CanEarnAll(T[o], F)
        BY <2>2, <2>3
      <3>3. LessDue(FineDues(U, B, k, F[k]), FineDues(T, B, k, F[k]),
                    PaidFor(i, k, amount))
        <4>1. F \in Seq(Nat) /\ amount \in Nat /\ owner \in Owners
          BY <1>1, <1>6
        <4>2. /\ T \in [Owners -> Seq(Tracker)] /\ U \in [Owners -> Seq(Tracker)]
              /\ B \in [Owners -> Nat]
          BY <2>3
        <4> QED
          BY ONLY <2>4, <3>1, <3>2, <4>1, <4>2, PaymentDues
      <3> QED
        BY <1>11, <3>3 DEF FarmFineDues, T, U, B, F
    <2>6. HeldLess(market, held, kept, i, amount)
      BY <1>3, <1>5 DEF HeldLess
    <2> HIDE DEF held, kept
    <2>7. market \in Market /\ held \in [FarmMints -> Nat]
          /\ kept \in [FarmMints -> Nat] /\ amount \in Nat
      BY <1>1, <1>6, <1>8
    <2> QED
      BY ONLY <2>1, <2>5, <2>6, <2>7, PaidFarmFunded
  <1>14. ASSUME ~MayRemoveMarketEmission
         PROVE  EmissionsFunded(market, Q)
    <2>1. EmissionsFunded(market, P)
      BY <1>14 DEF FundedInv
    <2>2. \A k : EmissionFineDues(market, Q, k) = EmissionFineDues(market, P, k)
      BY <1>11, <1>12 DEF EmissionFineDues
    <2> QED
      BY <2>1, <2>2 DEF EmissionsFunded
  <1>15. /\ SumOver(Balances(P), Owners) = market.lp_escrow_amount
         /\ market.lp_farm.last_seen_timestamp <= now
    BY DEF FundedInv, StakesCounted
  <1>16. \A o \in Owners \ opened' : lp_position'[o] = NoPosition
    <2>1. \A o \in Owners \ opened : P[o] = NoPosition
      BY DEF FundedInv
    <2> HIDE DEF P
    <2> QED
      BY <1>4, <1>7, <1>10, <2>1
  <1> HIDE DEF P, kept
  <1> QED
    BY <1>4, <1>7, <1>8, <1>11, <1>13, <1>14, <1>15, <1>16, FundedAfter

\* n has a new farm, of another mint than those of m, and what it will emit
\* is kept of its mint.
FarmAdded(m, n, farm, held, kept) ==
    /\ farm.index = 0
    /\ \A k \in DOMAIN m.lp_farm.farm_emissions :
            m.lp_farm.farm_emissions[k].mint # farm.mint
    /\ n.lp_farm.farm_emissions = Append(m.lp_farm.farm_emissions, farm)
    /\ n.lp_farm.last_seen_timestamp = m.lp_farm.last_seen_timestamp
    /\ \A mint \in FarmMints \ {farm.mint} : kept[mint] = held[mint]
    /\ ToBeEmitted(n, Len(m.lp_farm.farm_emissions) + 1) <= kept[farm.mint]

\* A farm that nobody has seen is funded by what its signer pays in.
LEMMA AddedFarmFunded ==
    ASSUME NEW m \in Market, NEW n \in Market, NEW P \in [Owners -> LpPosition],
           NEW held \in [FarmMints -> Nat], NEW kept \in [FarmMints -> Nat],
           FarmsFunded(m, P, held), \A o \in Owners : FarmsBehind(P[o], m),
           NEW farm \in FarmEmission, FarmAdded(m, n, farm, held, kept)
    PROVE  FarmsFunded(n, P, kept)
  <1> DEFINE old == m.lp_farm.farm_emissions
             new == n.lp_farm.farm_emissions
             last == Len(old) + 1
             T == FarmTrackers(P)
             B == Balances(P)
  <1>0. /\ farm.index = 0 /\ \A k \in DOMAIN old : old[k].mint # farm.mint
        /\ new = Append(old, farm)
        /\ n.lp_farm.last_seen_timestamp = m.lp_farm.last_seen_timestamp
        /\ \A mint \in FarmMints \ {farm.mint} : kept[mint] = held[mint]
        /\ ToBeEmitted(n, last) <= kept[farm.mint]
    BY DEF FarmAdded
  <1>1. old \in Seq(FarmEmission) /\ Len(old) \in Nat /\ DOMAIN old = 1..Len(old)
    BY MarketLists
  <1>2. /\ DOMAIN new = 1..last /\ new[last] = farm
        /\ \A k \in DOMAIN old : k \in DOMAIN new /\ new[k] = old[k]
        /\ last \notin DOMAIN old
    <2> HIDE DEF old, new
    <2> QED
      BY <1>0, <1>1
  <1>3. \A k \in DOMAIN new : k \in DOMAIN old \/ k = last
    <2> HIDE DEF old, new
    <2> QED
      BY <1>1, <1>2, SMT
  <1>4. T \in [Owners -> Seq(Tracker)] /\ B \in [Owners -> Nat]
        /\ \A o \in Owners : T[o] = P[o].farms
    BY ListsType
  <1>5. ASSUME NEW k \in DOMAIN old
        PROVE  SumOver(FarmFineDues(n, P, k), Owners) + ONE * ToBeEmitted(n, k)
                  <= ONE * kept[new[k].mint]
    <2>1. FarmIndexes(n)[k] = new[k].index /\ FarmIndexes(m)[k] = old[k].index
      BY <1>2, MarketLists
    <2>2. FarmFineDues(n, P, k) = FarmFineDues(m, P, k)
      BY <1>2, <2>1 DEF FarmFineDues
    <2>3. ToBeEmitted(n, k) = ToBeEmitted(m, k)
      BY <1>0, <1>2 DEF ToBeEmitted
    <2>4. kept[new[k].mint] = held[old[k].mint]
      <3>1. old[k].mint \in FarmMints \ {farm.mint}
        BY <1>0, MarketLists
      <3> QED
        BY <1>0, <1>2, <3>1
    <2> QED
      BY <2>2, <2>3, <2>4 DEF FarmsFunded
  <1>6. SumOver(FarmFineDues(n, P, last), Owners) + ONE * ToBeEmitted(n, last)
            <= ONE * kept[new[last].mint]
    <2>1. FarmIndexes(n)[last] = 0
      <3>1. last \in DOMAIN new
        BY <1>1, <1>2
      <3> QED
        BY <1>0, <1>2, <3>1, MarketLists
    <2>2. \A o \in Owners : last \notin DOMAIN T[o]
      <3> TAKE o \in Owners
      <3>1. Len(P[o].farms) <= Len(old) /\ P[o].farms \in Seq(Tracker)
        BY DEF FarmsBehind, LpPosition
      <3>2. Len(T[o]) <= Len(old) /\ T[o] \in Seq(Tracker)
        BY <1>4, <3>1
      <3> HIDE DEF T, old
      <3>3. DOMAIN T[o] = 1..Len(T[o]) /\ Len(T[o]) \in Nat
        BY <3>2
      <3> QED
        BY <1>1, <3>2, <3>3, SMT
    <2> DEFINE e == ToBeEmitted(n, last)
               h == kept[farm.mint]
    <2>3. SumOver(FarmFineDues(n, P, last), Owners) = 0
      <3> HIDE DEF T, B, last
      <3>1. SumOver(FineDues(T, B, last, 0), Owners) = 0
        BY ONLY <1>4, <2>2, DuesNone
      <3> QED
        BY <2>1, <3>1 DEF FarmFineDues, T, B
    <2>4. e \in Nat /\ h \in Nat /\ e <= h
      <3>1. last \in DOMAIN new
        BY <1>1, <1>2
      <3>2. farm.mint \in FarmMints
        BY DEF FarmEmission
      <3> QED
        BY <1>0, <3>1, <3>2, ToBeEmittedType
    <2> HIDE DEF e, h
    <2>5. 0 + ONE * e <= ONE * h
      <3>1. ONE * e <= ONE * h
        BY <2>4, MulMonotone, OneAssumption
      <3>2. ONE * e \in Nat
        BY <2>4, OneAssumption, SMT
      <3> QED
        BY <3>1, <3>2, SMT
    <2> QED
      BY <1>2, <2>3, <2>5 DEF e, h
  <1>7. ASSUME NEW k \in DOMAIN new, NEW j \in DOMAIN new, new[k].mint = new[j].mint
        PROVE  k = j
    <2>1. k \in DOMAIN old /\ j \in DOMAIN old => k = j
      BY <1>2, <1>7 DEF FarmsFunded
    <2>2. k \in DOMAIN old => j # last
      BY <1>0, <1>2, <1>7
    <2>3. j \in DOMAIN old => k # last
      BY <1>0, <1>2, <1>7
    <2> HIDE DEF last, old
    <2> QED
      BY <1>3, <2>1, <2>2, <2>3
  <1> QED
    BY <1>3, <1>5, <1>6, <1>7 DEF FarmsFunded

LEMMA AddFarmFunded ==
    ASSUME LpInv, FundedInv, NEW mint \in FarmMints, NEW token_rate \in FarmRates,
           NEW until \in FarmExpiries, AddFarm(mint, token_rate, until), LpInv'
    PROVE  FundedInv'
  <1> DEFINE P == lp_position
             n == IncreaseShareIndexes(market)
             farm == [mint |-> mint, token_rate |-> token_rate,
                      expiry_timestamp |-> until, index |-> 0]
             old == n.lp_farm.farm_emissions
             held == tokens.farm
             needed == (until - now) * token_rate
  <1>1. /\ market \in Market /\ P \in [Owners -> LpPosition] /\ now \in Nat
        /\ held \in [FarmMints -> Nat] /\ tokens'.farm \in [FarmMints -> Nat]
        /\ tokens \in [lp_wallets : Nat, farm : [FarmMints -> Nat]]
        /\ market' \in Market
    BY DEF LpInv, LpTypeOK
  <1>2. /\ FarmsOf(mint) = {} /\ until >= now
        /\ market' = [n EXCEPT !.lp_farm.farm_emissions = Append(old, farm)]
        /\ tokens' = [tokens EXCEPT !.farm[mint] = held[mint] + needed]
        /\ UNCHANGED <<now, lp_position, opened, sy_emissions>>
    BY DEF AddFarm
  <1>3. token_rate \in Nat /\ until \in Nat
    BY LpFarmAssumption
  <1>4. farm \in FarmEmission /\ farm.index = 0 /\ farm.mint = mint
    BY <1>3 DEF FarmEmission
  <1>5. Settled(market, n) /\ n.emissions = market.emissions /\ n \in Market
        /\ n.lp_escrow_amount = market.lp_escrow_amount
    BY <1>1, IncreaseFacts DEF Settled
  <1>6. n.lp_farm.last_seen_timestamp = now
    BY <1>1 DEF IncreaseShareIndexes, Market
  <1>7. \A k \in DOMAIN old : old[k].mint # mint
    <2>1. /\ DOMAIN old = DOMAIN market.lp_farm.farm_emissions
          /\ \A k \in DOMAIN old : old[k].mint = market.lp_farm.farm_emissions[k].mint
      <3> DEFINE farms == market.lp_farm.farm_emissions
                 step(k) == DeltaTimeFarm(farms[k].expiry_timestamp,
                                market.lp_farm.last_seen_timestamp, now)
      <3>1. old = [k \in DOMAIN farms |->
                        IncIndex(farms[k], step(k), market.lp_escrow_amount)]
        BY <1>1 DEF IncreaseShareIndexes, Market
      <3>2. ASSUME NEW f \in FarmEmission, NEW t, NEW staked
            PROVE  IncIndex(f, t, staked).mint = f.mint
        BY DEF IncIndex, FarmEmission
      <3>3. \A k \in DOMAIN farms : farms[k] \in FarmEmission
        BY <1>1, MarketLists
      <3> HIDE DEF farms, step, old
      <3>4. \A k \in DOMAIN farms : old[k].mint = farms[k].mint
        BY <3>1, <3>2, <3>3
      <3> QED
        BY <3>1, <3>4 DEF farms
    <2> HIDE DEF old
    <2> QED
      BY <1>2, <2>1 DEF FarmsOf
  <1>8. /\ SumOver(Balances(P), Owners) = market.lp_escrow_amount
        /\ market.lp_farm.last_seen_timestamp <= now
        /\ \A o \in Owners \ opened : P[o] = NoPosition
    BY DEF FundedInv, StakesCounted
  <1>9. ASSUME ModifiedRates = {}
        PROVE  FarmsFunded(n, P, held)
    <2>1. FarmsFunded(market, P, held)
      BY <1>9 DEF FundedInv
    <2>2. \A o \in Owners : CanEarnAll(P[o].farms, FarmIndexes(market))
      BY DEF LpInv, FarmsBehind
    <2> HIDE DEF P, held
    <2> QED
      BY <1>1, <1>8, <2>1, <2>2, IncreaseFarmsFunded
  <1>10. \A o \in Owners : FarmsBehind(P[o], n)
    BY <1>5, BehindSettled
  <1> HIDE DEF n, farm
  <1>11. /\ market'.lp_farm.farm_emissions = Append(old, farm)
         /\ market'.lp_farm.last_seen_timestamp = now
         /\ market'.emissions = market.emissions
         /\ market'.lp_escrow_amount = market.lp_escrow_amount
    BY <1>2, <1>5, <1>6 DEF Market, LpFarmAccount
  <1>12. ~MayRemoveMarketEmission => EmissionsFunded(market', P)
    BY <1>11, EmissionsFundedSame DEF FundedInv
  <1>13. needed \in Nat
    <2>1. until - now \in Nat
      BY <1>1, <1>2, <1>3, SMT
    <2> QED
      BY <1>3, <2>1, SMT
  <1>14. /\ \A other \in FarmMints \ {mint} : tokens'.farm[other] = held[other]
         /\ tokens'.farm[mint] = held[mint] + needed
    <2> HIDE DEF needed
    <2> QED
      BY <1>1, <1>2
  <1>15. ToBeEmitted(market', Len(old) + 1) <= tokens'.farm[mint]
    <2>1. old \in Seq(FarmEmission)
      BY <1>5, MarketLists
    <2> DEFINE last == Len(old) + 1
    <2>2. market'.lp_farm.farm_emissions[last] = farm
      <3> HIDE DEF old
      <3> QED
        BY <1>4, <1>11, <2>1
    <2>3. ToBeEmitted(market', last) = token_rate * DeltaTimeFarm(until, now, until)
      BY <1>11, <2>2 DEF ToBeEmitted, farm
    <2>4. DeltaTimeFarm(until, now, until) = until - now
      BY <1>1, <1>2, <1>3, SMT DEF DeltaTimeFarm, Smaller
    <2>5. token_rate * (until - now) = needed
      <3>1. until - now \in Nat
        BY <1>1, <1>2, <1>3, SMT
      <3> QED
        BY <1>3, <3>1, SMT
    <2>6. needed <= held[mint] + needed
      <3>1. held[mint] \in Nat
        BY <1>1
      <3> HIDE DEF needed, held
      <3> QED
        BY <1>13, <3>1, SMT
    <2> QED
      BY <1>14, <2>3, <2>4, <2>5, <2>6
  <1>16. ASSUME ModifiedRates = {}
         PROVE  FarmsFunded(market', P, tokens'.farm)
    <2> DEFINE kept == tokens'.farm
    <2>1. FarmsFunded(n, P, held) /\ FarmAdded(n, market', farm, held, kept)
      BY <1>4, <1>6, <1>7, <1>9, <1>11, <1>14, <1>15, <1>16 DEF FarmAdded
    <2> HIDE DEF P, held, kept
    <2>2. n \in Market /\ market' \in Market /\ P \in [Owners -> LpPosition]
          /\ held \in [FarmMints -> Nat] /\ kept \in [FarmMints -> Nat]
      BY <1>1, <1>5 DEF kept
    <2>3. FarmsFunded(market', P, kept)
      BY ONLY <1>4, <1>10, <2>1, <2>2, AddedFarmFunded
    <2> QED
      BY <2>3 DEF kept
  <1> QED
    BY <1>1, <1>2, <1>8, <1>11, <1>12, <1>16, FundedAfter, SMT

LEMMA ModifyFarmFunded ==
    ASSUME LpInv, FundedInv, NEW mint \in FarmMints, NEW until \in FarmExpiries,
           NEW rate \in ModifiedRates, ModifyFarm(mint, until, rate)
    PROVE  FundedInv'
  <1> DEFINE n == IncreaseShareIndexes(market)
             old == n.lp_farm.farm_emissions
  <1>1. market \in Market /\ now \in Nat
    BY DEF LpInv, LpTypeOK
  <1>2. PICK i \in FarmsOf(mint) :
            market' = [n EXCEPT !.lp_farm.farm_emissions[i]
                                    = ChangedFarm(old[i], until, rate)]
    BY DEF ModifyFarm
  <1>3. UNCHANGED <<now, lp_position, opened, sy_emissions>>
    BY DEF ModifyFarm
  <1>4. Settled(market, n) /\ n.emissions = market.emissions /\ n \in Market
        /\ n.lp_escrow_amount = market.lp_escrow_amount
    BY <1>1, IncreaseFacts DEF Settled
  <1>5. n.lp_farm.last_seen_timestamp = now
    BY <1>1 DEF IncreaseShareIndexes, Market
  <1> DEFINE new == [old EXCEPT ![i] = ChangedFarm(old[i], until, rate)]
  <1>6. market' = [n EXCEPT !.lp_farm.farm_emissions = new]
    BY <1>2
  <1> HIDE DEF n, new
  <1>7. /\ market'.emissions = market.emissions
        /\ market'.lp_escrow_amount = market.lp_escrow_amount
        /\ market'.lp_farm.last_seen_timestamp = now
    BY <1>4, <1>5, <1>6 DEF Market, LpFarmAccount
  <1>8. ~MayRemoveMarketEmission => EmissionsFunded(market', lp_position)
    BY <1>7, EmissionsFundedSame DEF FundedInv
  <1>9. ModifiedRates # {}
    OBVIOUS
  <1>10. SumOver(Balances(lp_position), Owners) = market.lp_escrow_amount
         /\ \A o \in Owners \ opened : lp_position[o] = NoPosition
    BY DEF FundedInv, StakesCounted
  <1>11. now <= now
    BY <1>1, SMT
  <1> QED
    BY <1>3, <1>7, <1>8, <1>9, <1>10, <1>11, FundedAfter

LEMMA AddMarketEmissionFunded ==
    ASSUME LpInv, FundedInv, AddMarketEmission, LpInv'
    PROVE  FundedInv'
  <1> DEFINE P == lp_position
             old == market.emissions
             new == market'.emissions
             last == Len(old) + 1
             T == EmissionTrackers(P)
             B == Balances(P)
  <1>1. /\ market \in Market /\ P \in [Owners -> LpPosition] /\ now \in Nat
        /\ market' \in Market /\ old \in Seq(MarketEmission)
        /\ Len(old) \in Nat /\ DOMAIN old = 1..Len(old)
    BY DEF LpInv, LpTypeOK, Market
  <1>2. PICK stream \in 1..MaxStreams :
            market' = [market EXCEPT
                    !.emissions = Append(old, [token_escrow |-> stream,
                                               lp_share_index |-> 0,
                                               last_seen_staged |-> 0]),
                    !.claim_emission = Append(ClaimAccounts(old), stream)]
    BY DEF AddMarketEmission
  <1>3. UNCHANGED <<now, lp_position, opened, tokens, sy_emissions>>
    BY DEF AddMarketEmission
  <1> DEFINE added == [token_escrow |-> stream, lp_share_index |-> 0,
                       last_seen_staged |-> 0]
             claims == Append(ClaimAccounts(old), stream)
  <1>4. added.lp_share_index = 0 /\ added.last_seen_staged = 0
    OBVIOUS
  <1>5. new = Append(old, added) /\ market'.lp_farm = market.lp_farm
        /\ market'.lp_escrow_amount = market.lp_escrow_amount
    <2>1. market' = [market EXCEPT !.emissions = Append(old, added),
                                   !.claim_emission = claims]
      BY <1>2
    <2> HIDE DEF added, claims
    <2> QED
      BY <1>1, <2>1 DEF Market
  <1> HIDE DEF added
  <1>6. /\ DOMAIN new = 1..last /\ new[last] = added
        /\ \A k \in DOMAIN old : new[k] = old[k]
        /\ \A k \in DOMAIN new : k \in DOMAIN old \/ k = last
        /\ last \in DOMAIN new
    <2> HIDE DEF old, new
    <2>1. /\ DOMAIN new = 1..last /\ new[last] = added
          /\ \A k \in DOMAIN old : new[k] = old[k]
      BY <1>1, <1>5
    <2>2. /\ \A k \in DOMAIN new : k \in DOMAIN old \/ k = last
          /\ last \in DOMAIN new
      BY <1>1, <2>1, SMT
    <2> QED
      BY <2>1, <2>2
  <1>7. /\ SumOver(Balances(P), Owners) = market.lp_escrow_amount
        /\ market.lp_farm.last_seen_timestamp <= now
        /\ \A o \in Owners \ opened : P[o] = NoPosition
    BY DEF FundedInv, StakesCounted
  <1>8. ASSUME ~MayRemoveMarketEmission
        PROVE  EmissionsFunded(market', P)
    <2>1. EmissionsFunded(market, P)
      BY <1>8 DEF FundedInv
    <2>2. ASSUME NEW k \in DOMAIN old
          PROVE  SumOver(EmissionFineDues(market', P, k), Owners)
                    <= ONE * new[k].last_seen_staged
      <3>1. EmissionIndexes(market')[k] = EmissionIndexes(market)[k]
        <4>1. k \in DOMAIN new
          BY <1>1, <1>6, SMT
        <4> QED
          BY <1>1, <1>6, <4>1, MarketLists
      <3>2. EmissionFineDues(market', P, k) = EmissionFineDues(market, P, k)
        BY <3>1 DEF EmissionFineDues
      <3>3. new[k] = old[k]
        BY <1>6
      <3> QED
        BY <2>1, <3>2, <3>3 DEF EmissionsFunded
    <2>3. SumOver(EmissionFineDues(market', P, last), Owners)
            <= ONE * new[last].last_seen_staged
      <3>1. EmissionIndexes(market')[last] = 0
        BY <1>1, <1>4, <1>6, MarketLists
      <3>2. T \in [Owners -> Seq(Tracker)] /\ B \in [Owners -> Nat]
            /\ \A o \in Owners : T[o] = P[o].emissions
        <4> HIDE DEF P
        <4> QED
          BY <1>1, ListsType
      <3>3. \A o \in Owners : last \notin DOMAIN T[o]
        <4> TAKE o \in Owners
        <4>1. Len(P[o].emissions) <= Len(old)
          BY <1>8 DEF LpInv, EmissionsBehind
        <4>2. Len(T[o]) <= Len(old) /\ T[o] \in Seq(Tracker)
          BY <3>2, <4>1
        <4> HIDE DEF T, old
        <4>3. DOMAIN T[o] = 1..Len(T[o]) /\ Len(T[o]) \in Nat
          BY <4>2
        <4> QED
          BY <1>1, <4>2, <4>3, SMT
      <3>4. SumOver(FineDues(T, B, last, 0), Owners) = 0
        <4> HIDE DEF T, B, last
        <4> QED
          BY ONLY <3>2, <3>3, DuesNone
      <3>5. EmissionFineDues(market', P, last) = FineDues(T, B, last, 0)
        BY <3>1 DEF EmissionFineDues
      <3>6. 0 <= ONE * 0
        BY OneAssumption, SMT
      <3> QED
        BY <1>4, <1>6, <3>4, <3>5, <3>6
    <2> HIDE DEF last, old
    <2> QED
      BY <1>6, <2>2, <2>3 DEF EmissionsFunded
  <1>9. ModifiedRates = {} => FarmsFunded(market', P, tokens.farm)
    BY <1>5, FarmsFundedSame DEF FundedInv
  <1> QED
    BY <1>3, <1>5, <1>7, <1>8, <1>9, FundedAfter

\* The steps that leave what is funded alone.
LEMMA QuietStepsFunded ==
    ASSUME LpInv, FundedInv, LpInv',
           \/ UNCHANGED vars
           \/ Tick
           \/ SyAddsStream
           \/ ChangeCpiAccounts
           \/ \E i \in 1..MaxStreams : RemoveMarketEmission(i)
    PROVE  FundedInv'
  <1>1. /\ market \in Market /\ now \in Nat /\ now' \in Nat
    BY DEF LpInv, LpTypeOK
  <1>2. now <= now /\ now <= now + 1
    BY <1>1, SMT
  <1>3. CASE UNCHANGED vars
    BY <1>1, <1>2, <1>3, QuietFunded DEF vars
  <1>4. CASE Tick
    <2>1. now' = now + 1 /\ UNCHANGED <<market, lp_position, opened, tokens>>
      BY <1>4 DEF Tick
    <2> QED
      BY <1>1, <1>2, <2>1, QuietFunded
  <1>5. CASE SyAddsStream
    <2>1. UNCHANGED <<now, market, lp_position, opened, tokens>>
      BY <1>5 DEF SyAddsStream
    <2> QED
      BY <1>1, <1>2, <2>1, QuietFunded
  <1>6. CASE ChangeCpiAccounts
    <2> DEFINE claims == ClaimAccounts(market.emissions)
    <2>1. /\ market' = [market EXCEPT !.claim_emission = claims]
          /\ UNCHANGED <<now, lp_position, opened, tokens>>
      BY <1>6 DEF ChangeCpiAccounts
    <2> HIDE DEF claims
    <2>2. /\ market'.lp_farm = market.lp_farm
          /\ market'.emissions = market.emissions
          /\ market'.lp_escrow_amount = market.lp_escrow_amount
      BY <1>1, <2>1 DEF Market
    <2> QED
      BY <1>1, <1>2, <2>1, <2>2, QuietFunded
  <1>7. CASE \E i \in 1..MaxStreams : RemoveMarketEmission(i)
    <2>1. PICK i \in 1..MaxStreams : RemoveMarketEmission(i)
      BY <1>7
    <2> DEFINE left == RemoveAt(market.emissions, i)
    <2>2. /\ MayRemoveMarketEmission
          /\ market' = [market EXCEPT !.emissions = left]
          /\ UNCHANGED <<now, lp_position, opened, tokens>>
      BY <2>1 DEF RemoveMarketEmission
    <2> HIDE DEF left
    <2>3. /\ market'.lp_farm = market.lp_farm
          /\ market'.lp_escrow_amount = market.lp_escrow_amount
      BY <1>1, <2>2 DEF Market
    <2> QED
      BY <1>1, <1>2, <2>2, <2>3, QuietFunded
  <1> QED
    BY <1>3, <1>4, <1>5, <1>6, <1>7

LEMMA FundedStep ==
    ASSUME LpInv, FundedInv, [Next]_vars
    PROVE  FundedInv'
  <1>1. LpInv'
    BY LpStep
  <1>2. CASE UNCHANGED vars \/ Tick \/ SyAddsStream
    BY <1>1, <1>2, QuietStepsFunded
  <1>3. CASE OwnerStep
    <2>1. PICK owner \in Owners :
            \/ InitLpPosition(owner)
            \/ \E amount \in LpAmounts : DepositLp(owner, amount)
            \/ \E amount \in LpAmounts : WithdrawLp(owner, amount)
            \/ \E i \in 1..MaxStreams : MarketCollectEmission(owner, i)
            \/ \E mint \in FarmMints : ClaimFarmEmissions(owner, mint)
      BY <1>3 DEF OwnerStep
    <2>2. CASE InitLpPosition(owner)
      BY <1>1, <2>2, InitLpPositionFunded
    <2>3. CASE \E amount \in LpAmounts : DepositLp(owner, amount)
      BY <2>3, DepositLpFunded
    <2>4. CASE \E amount \in LpAmounts : WithdrawLp(owner, amount)
      BY <2>4, WithdrawLpFunded
    <2>5. CASE \E i \in 1..MaxStreams : MarketCollectEmission(owner, i)
      BY <1>1, <2>5, MarketCollectEmissionFunded
    <2>6. CASE \E mint \in FarmMints : ClaimFarmEmissions(owner, mint)
      BY <1>1, <2>6, ClaimFarmEmissionsFunded
    <2> QED
      BY <2>1, <2>2, <2>3, <2>4, <2>5, <2>6
  <1>4. CASE AdminStep
    <2>1. CASE \E mint \in FarmMints, rate \in FarmRates, until \in FarmExpiries :
                    AddFarm(mint, rate, until)
      BY <1>1, <2>1, AddFarmFunded
    <2>2. CASE \E mint \in FarmMints, rate \in ModifiedRates, until \in FarmExpiries :
                    ModifyFarm(mint, until, rate)
      BY <2>2, ModifyFarmFunded
    <2>3. CASE AddMarketEmission
      BY <1>1, <2>3, AddMarketEmissionFunded
    <2>4. CASE \/ ChangeCpiAccounts
               \/ \E i \in 1..MaxStreams : RemoveMarketEmission(i)
      BY <1>1, <2>4, QuietStepsFunded
    <2> QED
      BY <1>4, <2>1, <2>2, <2>3, <2>4 DEF AdminStep
  <1> QED
    BY <1>2, <1>3, <1>4 DEF Next

LEMMA FundedInit ==
    ASSUME Init
    PROVE  FundedInv
  <1>1. DOMAIN <<>> = {} /\ IsFiniteSet(Owners)
    BY LpFarmAssumption
  <1>2. \A o \in Owners : lp_position[o] = NoPosition
    BY DEF Init
  <1>3. SumOver(Balances(lp_position), Owners) = 0
    <2> DEFINE f == Balances(lp_position)
    <2>1. \A o \in Owners : f[o] = 0
      BY <1>2 DEF Balances, NoPosition
    <2> HIDE DEF f
    <2>2. SumOver(f, Owners) = 0
      BY <1>1, <2>1, SumZero
    <2> QED
      BY <2>2 DEF f
  <1>4. StakesCounted(market, lp_position)
    <2>1. /\ market.lp_escrow_amount = 0
          /\ market.lp_farm.last_seen_timestamp = 0 /\ now = 0 /\ 0 <= 0
      BY SMT DEF Init
    <2> QED
      BY <1>3, <2>1 DEF StakesCounted
  <1>5. market.emissions = <<>> /\ market.lp_farm.farm_emissions = <<>>
    BY DEF Init
  <1>6. /\ EmissionsFunded(market, lp_position)
        /\ FarmsFunded(market, lp_position, tokens.farm)
    BY <1>1, <1>5 DEF EmissionsFunded, FarmsFunded
  <1> QED
    BY <1>2, <1>4, <1>6 DEF FundedInv

\* The invariant: the market's stake is that of the positions; in parts of a
\* token, all that the positions are due of an emission is what the market has
\* seen and not paid, at most, if no emission is ever removed; and all that
\* they are due of a farm, with what it will still emit, is what the farm
\* holds, at most, if no farm is ever modified.
THEOREM Funding == Spec => []FundedInv
  <1>1. Init => FundedInv
    BY FundedInit
  <1>2. LpInv /\ FundedInv /\ [Next]_vars => FundedInv'
    BY FundedStep
  <1> QED
    BY <1>1, <1>2, LpInvariance, PTL DEF Spec

\* What the owners with a position are due in whole tokens is covered by what
\* all are due in parts of a token.
LEMMA WholeDues ==
    ASSUME NEW T \in [Owners -> Seq(Tracker)], NEW B \in [Owners -> Nat],
           NEW i, NEW index \in Nat, NotAhead(T, i, index),
           NEW dues, opened \subseteq Owners,
           \A o \in opened : dues[o] = Due(T[o], i, index, B[o])
    PROVE  /\ SumOver(dues, opened) \in Nat
           /\ SumOver(FineDues(T, B, i, index), Owners) \in Nat
           /\ ONE * SumOver(dues, opened)
                <= SumOver(FineDues(T, B, i, index), Owners)
  <1> DEFINE f == FineDues(T, B, i, index)
             zero == [o \in opened |-> 0]
             scaled == [o \in opened |-> ONE * dues[o]]
  <1>1. IsFiniteSet(Owners) /\ IsFiniteSet(opened)
    BY LpFarmAssumption, FS_Subset
  <1>2. ASSUME NEW o \in opened
        PROVE  /\ dues[o] \in Nat /\ f[o] \in Nat
               /\ ONE * dues[o] <= f[o]
    <2>1. T[o] \in Seq(Tracker) /\ B[o] \in Nat /\ Behind(T[o], i, index)
      BY DEF NotAhead
    <2>2. f[o] = FineDue(T[o], i, index, B[o])
      BY DEF FineDues
    <2>3. dues[o] = Due(T[o], i, index, B[o])
      OBVIOUS
    <2> HIDE DEF f
    <2> QED
      BY <2>1, <2>2, <2>3, DueWithinFineDue
  <1>3. \A o \in Owners : f[o] \in Nat
    BY FineDuesTypes
  <1> HIDE DEF f
  <1>4. /\ SumOver(dues, opened) \in Nat
        /\ SumOver(scaled, opened) = ONE * SumOver(dues, opened)
    <2>1. \A o \in opened : /\ zero[o] \in Nat /\ dues[o] \in Nat
                            /\ scaled[o] = zero[o] + ONE * dues[o]
      <3> TAKE o \in opened
      <3>1. zero[o] = 0 /\ scaled[o] = ONE * dues[o] /\ dues[o] \in Nat
        BY <1>2
      <3> HIDE DEF zero, scaled
      <3> QED
        BY <3>1, OneAssumption, SMT
    <2>2. \A o \in opened : zero[o] = 0
      OBVIOUS
    <2> HIDE DEF zero, scaled
    <2>3. SumOver(zero, opened) = 0
      BY <1>1, <2>2, SumZero
    <2>4. ONE \in Nat
      BY OneAssumption
    <2>5. /\ SumOver(dues, opened) \in Nat
          /\ SumOver(scaled, opened) = SumOver(zero, opened) + ONE * SumOver(dues, opened)
      BY <1>1, <2>1, <2>4, SumLinear
    <2> QED
      BY <2>3, <2>4, <2>5, SMT
  <1>5. /\ SumOver(f, opened) \in Nat
        /\ SumOver(scaled, opened) <= SumOver(f, opened)
    <2>1. \A o \in opened : scaled[o] \in Nat /\ f[o] \in Nat /\ scaled[o] <= f[o]
      BY <1>2, OneAssumption, SMT
    <2> HIDE DEF scaled
    <2> QED
      BY <1>1, <2>1, SumMonotone
  <1>6. SumOver(f, Owners) \in Nat /\ SumOver(f, opened) <= SumOver(f, Owners)
    BY <1>1, <1>3, SumSubset
  <1> HIDE DEF scaled
  <1> DEFINE a == ONE * SumOver(dues, opened)
  <1>7. a \in Nat
    BY <1>4, OneAssumption, SMT
  <1> HIDE DEF a
  <1>8. a <= SumOver(f, Owners)
    BY <1>4, <1>5, <1>6, <1>7, SMT DEF a
  <1> QED
    BY <1>4, <1>6, <1>8 DEF a, f

\* Parts of a token cover whole tokens.
LEMMA WholeTokens ==
    ASSUME NEW a \in Nat, NEW b \in Nat, NEW c \in Nat,
           ONE * a + ONE * b <= ONE * c
    PROVE  a + b <= c
  <1> SUFFICES ASSUME ~(a + b <= c) PROVE FALSE
    OBVIOUS
  <1>1. c + 1 <= a + b /\ c + 1 \in Nat /\ a + b \in Nat
    BY SMT
  <1>2. ONE * (c + 1) <= ONE * (a + b)
    BY <1>1, MulMonotone, OneAssumption
  <1>3. ONE * (c + 1) = ONE * c + ONE /\ ONE * (a + b) = ONE * a + ONE * b
        /\ ONE * c \in Nat /\ ONE * a \in Nat /\ ONE * b \in Nat
        /\ ONE \in Nat \ {0}
    BY OneAssumption, SMT
  <1>4. ONE * c + ONE <= ONE * c
    <2> DEFINE x == ONE * a
               y == ONE * b
               z == ONE * c
    <2>1. x + y <= z /\ z + ONE <= x + y /\ x \in Nat /\ y \in Nat /\ z \in Nat
      BY <1>2, <1>3
    <2> HIDE DEF x, y, z
    <2>2. z + ONE <= z
      BY <1>3, <2>1, SMT
    <2> QED
      BY <2>2 DEF z
  <1> QED
    BY <1>3, <1>4, SMT

\* If no emission is ever removed, all that the positions are due of one is
\* covered by what the market has seen and not paid, which the SY program
\* still owes: no claim of market_collect_emission is ever short.
THEOREM EmissionsAreCovered ==
    ASSUME ~MayRemoveMarketEmission
    PROVE  Spec => []EmissionsCovered
  <1>1. LpInv /\ FundedInv => EmissionsCovered
    <2> SUFFICES ASSUME LpInv, FundedInv, NEW i \in DOMAIN market.emissions
                 PROVE  /\ SumOver([o \in opened |-> EmissionDue(o, i)], opened)
                             <= market.emissions[i].last_seen_staged
                        /\ i \in DOMAIN sy_emissions =>
                             market.emissions[i].last_seen_staged <= sy_emissions[i]
      BY DEF EmissionsCovered
    <2> DEFINE T == EmissionTrackers(lp_position)
               B == Balances(lp_position)
               E == EmissionIndexes(market)
               dues == [o \in opened |-> EmissionDue(o, i)]
               index == E[i]
               seen == market.emissions[i].last_seen_staged
    <2>1. /\ market \in Market /\ lp_position \in [Owners -> LpPosition]
          /\ opened \subseteq Owners /\ E \in Seq(Nat) /\ i \in DOMAIN E
          /\ seen \in Nat
      BY IndexesType, MarketLists DEF LpInv, LpTypeOK
    <2>2. /\ T \in [Owners -> Seq(Tracker)] /\ B \in [Owners -> Nat]
          /\ \A o \in Owners : /\ T[o] = lp_position[o].emissions
                               /\ B[o] = lp_position[o].lp_balance
      BY <2>1, ListsType
    <2>3. index \in Nat /\ NotAhead(T, i, index)
      <3>1. \A o \in Owners : CanEarnAll(T[o], E)
        BY <2>2 DEF LpInv, EmissionsBehind
      <3> HIDE DEF T, E
      <3> QED
        BY <2>1, <2>2, <3>1, CanEarnNotAhead
    <2>4. \A o \in opened : dues[o] = Due(T[o], i, index, B[o])
      BY <2>1, <2>2 DEF EmissionDue
    <2>5. SumOver(FineDues(T, B, i, index), Owners) <= ONE * seen
      BY DEF FundedInv, EmissionsFunded, EmissionFineDues
    <2>6. seen <= IF i \in DOMAIN sy_emissions THEN sy_emissions[i] ELSE 0
      BY DEF LpInv, StreamsListed
    <2> HIDE DEF T, B, index, dues, seen
    <2>7. /\ SumOver(dues, opened) \in Nat
          /\ SumOver(FineDues(T, B, i, index), Owners) \in Nat
          /\ ONE * SumOver(dues, opened)
                <= SumOver(FineDues(T, B, i, index), Owners)
      BY <2>1, <2>2, <2>3, <2>4, WholeDues
    <2>8. SumOver(dues, opened) <= seen
      <3> DEFINE a == SumOver(dues, opened)
                 f == SumOver(FineDues(T, B, i, index), Owners)
      <3>1. a \in Nat /\ f \in Nat /\ ONE * a <= f /\ f <= ONE * seen
        BY <2>5, <2>7
      <3> HIDE DEF a, f
      <3>2. ONE * a \in Nat /\ ONE * 0 = 0 /\ ONE * seen \in Nat
        BY <2>1, <3>1, OneAssumption, SMT
      <3>3. ONE * a + ONE * 0 <= ONE * seen
        BY <3>1, <3>2, SMT
      <3>4. a + 0 <= seen
        BY <2>1, <3>1, <3>3, WholeTokens
      <3>5. a <= seen
        BY <3>1, <3>4, SMT
      <3> QED
        BY <3>5 DEF a
    <2> QED
      BY <2>6, <2>8 DEF dues, seen
  <1> QED
    BY <1>1, LpInvariance, Funding, PTL

\* If no farm is ever modified, a farm holds all that the positions are due of
\* it and all that it will still emit (add_farm, claim_farm_emissions and
\* every instruction that settles the farms' indexes).
THEOREM FarmRewardsAreCovered ==
    ASSUME ModifiedRates = {}
    PROVE  Spec => []FarmRewardsCovered
  <1>1. LpInv /\ FundedInv => FarmRewardsCovered
    <2> DEFINE farms == market.lp_farm.farm_emissions
    <2> SUFFICES ASSUME LpInv, FundedInv, NEW i \in DOMAIN farms
                 PROVE  SumOver([o \in opened |-> FarmDue(o, i)], opened)
                          + ToBeEmitted(market, i) <= tokens.farm[farms[i].mint]
      BY DEF FarmRewardsCovered
    <2> DEFINE T == FarmTrackers(lp_position)
               B == Balances(lp_position)
               F == FarmIndexes(market)
               dues == [o \in opened |-> FarmDue(o, i)]
               index == F[i]
               e == ToBeEmitted(market, i)
               h == tokens.farm[farms[i].mint]
    <2>1. /\ market \in Market /\ lp_position \in [Owners -> LpPosition]
          /\ opened \subseteq Owners /\ F \in Seq(Nat) /\ i \in DOMAIN F
          /\ e \in Nat
      BY IndexesType, MarketLists, ToBeEmittedType DEF LpInv, LpTypeOK
    <2>2. /\ T \in [Owners -> Seq(Tracker)] /\ B \in [Owners -> Nat]
          /\ \A o \in Owners : /\ T[o] = lp_position[o].farms
                               /\ B[o] = lp_position[o].lp_balance
      BY <2>1, ListsType
    <2>3. index \in Nat /\ NotAhead(T, i, index)
      <3>1. \A o \in Owners : CanEarnAll(T[o], F)
        BY <2>2 DEF LpInv, FarmsBehind
      <3> HIDE DEF T, F
      <3> QED
        BY <2>1, <2>2, <3>1, CanEarnNotAhead
    <2>4. \A o \in opened : dues[o] = Due(T[o], i, index, B[o])
      BY <2>1, <2>2 DEF FarmDue
    <2>5. SumOver(FineDues(T, B, i, index), Owners) + ONE * e <= ONE * h
      BY DEF FundedInv, FarmsFunded, FarmFineDues
    <2>6. h \in Nat
      <3>1. tokens.farm \in [FarmMints -> Nat] /\ farms[i].mint \in FarmMints
        BY <2>1, MarketLists DEF LpInv, LpTypeOK
      <3> QED
        BY <3>1
    <2> HIDE DEF T, B, index, dues, e, h
    <2>7. /\ SumOver(dues, opened) \in Nat
          /\ SumOver(FineDues(T, B, i, index), Owners) \in Nat
          /\ ONE * SumOver(dues, opened)
                <= SumOver(FineDues(T, B, i, index), Owners)
      BY <2>1, <2>2, <2>3, <2>4, WholeDues
    <2>8. SumOver(dues, opened) + e <= h
      <3> DEFINE a == SumOver(dues, opened)
                 f == SumOver(FineDues(T, B, i, index), Owners)
      <3>1. a \in Nat /\ f \in Nat /\ ONE * a <= f /\ f + ONE * e <= ONE * h
        BY <2>5, <2>7
      <3> HIDE DEF a, f
      <3>2. ONE * a \in Nat /\ ONE * e \in Nat /\ ONE * h \in Nat
        BY <2>1, <2>6, <3>1, OneAssumption, SMT
      <3>3. ONE * a + ONE * e <= ONE * h
        BY <3>1, <3>2, SMT
      <3>4. a + e <= h
        BY <2>1, <2>6, <3>1, <3>3, WholeTokens
      <3> QED
        BY <3>4 DEF a
    <2> QED
      BY <2>8 DEF dues, e, h
  <1> QED
    BY <1>1, LpInvariance, Funding, PTL

=============================================================================
