---------------------------- MODULE MCSignedCalls ----------------------------
(* Two accounts and three calls: a bearer with room, one with the longest   *)
(* subject a bearer may have, and one of the other account that ends early. *)
EXTENDS SignedCalls, TLC

CONSTANTS c1, c2, c3, alice, bob

B(a, l, i, n, x) == [account |-> a, long |-> l, iat |-> i, nbf |-> n, exp |-> x]
MCBearers == {B(alice, FALSE, 1, 1, 4), B(alice, TRUE, 1, 1, 3), B(bob, FALSE, 1, 2, 3)}
MCSkews == {-1, 1}
MCOperations == (c1 :> {"issue"}) @@ (c2 :> {"issue", "provision"})
                @@ (c3 :> {"provision", "rotate", "logout"})
==============================================================================
