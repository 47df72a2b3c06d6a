------------------------------ MODULE MCMarket ------------------------------
(* Instances of Market for model checking. *)
EXTENDS MarketProperties

AllOrNothing == {{}, Flags}

HalfInTwo == {[negative |-> 5000, positive |-> 5000, duration |-> 1]}
=============================================================================
