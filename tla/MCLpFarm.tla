----------------------------- MODULE MCLpFarm -----------------------------
(* Instances of LpFarm for model checking. *)
EXTENDS LpFarmProperties

\* Owners are interchangeable: no action and no property tells them apart.
OwnerSymmetry == Permutations(Owners)

\* And so are the mints of farms.
RewardSymmetry == OwnerSymmetry \cup Permutations(FarmMints)
=============================================================================
