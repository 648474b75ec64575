---------------------------- MODULE MCHttpClient ----------------------------
(* The HTTP client and its circuit breaker with three overlapping requests. *)
EXTENDS HttpClient

CONSTANTS c1, c2, c3

ThreeCalls == {c1, c2, c3}
=============================================================================
