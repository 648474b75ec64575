----------------------------- MODULE MCSessions -----------------------------
(* Sessions with two overlapping requests.                                 *)
EXTENDS Sessions, TLC

CONSTANTS r1, r2, u1, jwt1, raw1

TwoRequests == {r1, r2}
OneUser == {u1}
JwtAndRaw == {jwt1, raw1}
OneJwt == {jwt1}
OneRaw == {raw1}
NoRaw == {}
UserAndAdmin == {"user", "admin"}
UserOnly == {"user"}

RequestsAreAlike == Permutations(TwoRequests)
=============================================================================
