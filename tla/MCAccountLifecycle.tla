-------------------------- MODULE MCAccountLifecycle --------------------------
(* The instance of AccountLifecycle for TLC: only a bound to give. *)
EXTENDS AccountLifecycle

=============================================================================
