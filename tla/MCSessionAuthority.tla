------------------------- MODULE MCSessionAuthority -------------------------
(* SessionAuthority, with SessionExpiry's memory of late calls, on small instances. *)
EXTENDS SessionExpiry, TLC

CONSTANTS k1, k2, k3

Token(k, i, n, e) == [key |-> k, iat |-> i, nbf |-> n, exp |-> e]

\* Three bearers issued one after the other, and the second one's key again with
\* another lifetime.
FourBearers == {Token(k1, 1, 1, 3), Token(k2, 2, 2, 4), Token(k3, 3, 3, 5), Token(k2, 1, 2, 4)}

Symmetry == Permutations(Conns)
=============================================================================
