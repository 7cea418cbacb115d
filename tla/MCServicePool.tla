--------------------------- MODULE MCServicePool ---------------------------
(* ServicePool on small instances. *)
EXTENDS ServicePool, TLC

\* A drift only some pools look for, and the one that makes SET LOCAL ROLE itself fail.
SomeDrifts == {<<"flags", "guard">>, <<"member", "service">>}

\* The setting that the startup options leave open and only some pools set.
SomeSettings == {"default_isolation"}

\* One policy of each generation: without the guard's flags, with the guard's tables,
\* with the seal and the isolation level.
SomePools == {OwnerRead, Mutation, RepeatLogin}

Symmetry == Permutations(Callers)
============================================================================
