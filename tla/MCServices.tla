----------------------------- MODULE MCServices -----------------------------
(* Services with two of everything that can overlap.                       *)
EXTENDS Services

CONSTANTS s1, s2, l1, l2, a, b, c1, c2, p, q

TwoSlots == {s1, s2}
TwoLoaders == {l1, l2}
TwoKeys == {a, b}
OneConfigured == {a}
OneFile == {a}
TwoClients == {c1, c2}
TwoRunners == {p, q}
=============================================================================
