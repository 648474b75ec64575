-------------------------- MODULE MCCircuitBreaker --------------------------
(* CircuitBreaker with three overlapping callers, with two, and with one.  *)
EXTENDS CircuitBreaker

CONSTANTS c1, c2, c3

ThreeCalls == {c1, c2, c3}
TwoCalls == {c1, c2}
OneCall == {c1}
=============================================================================
