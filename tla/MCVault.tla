------------------------------ MODULE MCVault ------------------------------
(* Instances of Vault for model checking. *)
EXTENDS VaultProperties

\* Users are interchangeable: no action and no property tells them apart.
UserSymmetry == Permutations(Users)

NoLimits == {}

TightLimits == {[max |-> 30, duration |-> 1]}

AllOrNothing == {{}, Flags}
=============================================================================
