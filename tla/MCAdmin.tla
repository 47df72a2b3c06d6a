------------------------------ MODULE MCAdmin ------------------------------
(* Instances of Admin for model checking. *)
EXTENDS AdminProperties
=============================================================================
