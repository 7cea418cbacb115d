--------------------------- MODULE MCDraftCommand ---------------------------
(* DraftCommand on small instances. *)
EXTENDS DraftCommand, TLC

\* Every command may be a write or a read.
AllOperations == [c \in Commands |-> {"write", "read"}]

\* Successive sessions: the second outlives the first.
TwoBearers == {[iat |-> 0, nbf |-> 0, exp |-> 2, sid |-> 1],
               [iat |-> 0, nbf |-> 1, exp |-> 3, sid |-> 2]}

OneBearer == {[iat |-> 0, nbf |-> 0, exp |-> 2, sid |-> 1]}

Symmetry == Permutations(Commands)
============================================================================
