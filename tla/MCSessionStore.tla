--------------------------- MODULE MCSessionStore ---------------------------
(* A small instance of SessionStore: one session whose client is granted   *)
(* authority twice, so that the later grant replaces the earlier one.      *)
EXTENDS SessionStore, TLC

CONSTANTS s1, g1, g2, k1, a1, a2, v1, x1, x2, o1

MCSession == {s1}
MCGrant == {g1, g2}
MCClient == {k1}
MCClientOf == [g \in MCGrant |-> k1]
MCArt == {a1, a2}
MCVisit == {v1}
MCExchange == {x1, x2}
MCLogout == {o1}

Symmetry == Permutations(MCGrant) \cup Permutations(MCArt) \cup Permutations(MCExchange)
=============================================================================
