-------------------------- MODULE MCCircuitBreaker --------------------------
(* The breaker with three request handlers; liveness forbids symmetry here. *)
EXTENDS CircuitBreaker
=============================================================================
