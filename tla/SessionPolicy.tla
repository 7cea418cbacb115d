---------------------------- MODULE SessionPolicy ----------------------------
(***************************************************************************)
(* The session policy of one account, with no transactions and no locks:   *)
(* every operation is one step on the registry.  Rotation is the policy    *)
(* model rotate_active_session() of the repository; the other operations   *)
(* are what the migrations say of theirs.                                  *)
(*                                                                         *)
(* An operation goes by a reading t of the database clock that is not in   *)
(* the future.  The code promises no more: the last reading is taken       *)
(* before COMMIT, so a bearer may expire in between.                       *)
(***************************************************************************)
EXTENDS Naturals

CONSTANTS
  Keys,           \* session keys: hash of (issuer, jti)
  Bearers,        \* signed tokens: [key, iat, nbf, exp]
  MaxTime,        \* bound on the clock
  NoSession,      \* "no row with this key"
  NoKey           \* "not replaced"

VARIABLES
  clock,       \* the database clock
  rights,      \* principals.enabled and writer_enabled
  generation,  \* principals.auth_version
  activated,   \* the account has its row in activation_audit
  session,     \* sessions, by key
  successor    \* session_rotations: predecessor -> successor, or NoKey

account == <<rights, generation, activated>>
vars == <<clock, account, session, successor>>

Rights == {r \in [enabled : BOOLEAN, writer : BOOLEAN] : r.writer => r.enabled}
Disabled == [enabled |-> FALSE, writer |-> FALSE]
ReadOnly == [enabled |-> TRUE, writer |-> FALSE]

Init ==
  /\ clock = 0
  /\ rights = Disabled
  /\ generation = 1
  /\ activated = FALSE
  /\ session = [k \in Keys |-> NoSession]
  /\ successor = [k \in Keys |-> NoKey]

InWindow(b, t) == b.iat <= t /\ b.nbf <= t /\ t < b.exp

Live(k, t) ==
  /\ session[k] # NoSession
  /\ ~session[k].revoked
  /\ session[k].generation = generation
  /\ t < session[k].exp

Opened(b) == [generation |-> generation, iat |-> b.iat, exp |-> b.exp, revoked |-> FALSE]

\* The account may hold sessions.
Admitted == rights.enabled /\ activated

\* From provisioned to enabled and read-only: once, and recorded.
Activate ==
  /\ ~activated /\ generation = 1
  /\ rights' = ReadOnly
  /\ generation' = 2
  /\ activated' = TRUE
  /\ UNCHANGED <<clock, session, successor>>

\* Every change of authority starts a new generation.
ChangeAuthority(new) ==
  /\ new # rights
  /\ rights' = new
  /\ generation' = generation + 1
  /\ UNCHANGED <<clock, activated, session, successor>>

\* The first session of the account, or a later one when none is live.
Login(b, t) ==
  /\ Admitted
  /\ InWindow(b, t)
  /\ session[b.key] = NoSession
  /\ \A k \in Keys : ~Live(k, t)
  /\ session' = [session EXCEPT ![b.key] = Opened(b)]
  /\ UNCHANGED <<clock, account, successor>>

\* A strictly newer bearer replaces the only live session.
Rotate(b, t) ==
  /\ Admitted
  /\ InWindow(b, t)
  /\ session[b.key] = NoSession
  /\ \E k \in Keys :
       /\ \A l \in Keys : Live(l, t) <=> l = k
       /\ session[k].iat < b.iat
       /\ session' = [session EXCEPT ![k].revoked = TRUE, ![b.key] = Opened(b)]
       /\ successor' = [successor EXCEPT ![k] = b.key]
  /\ UNCHANGED <<clock, account>>

\* Whoever still holds a session's own bearer may end it, whatever the account.
Logout(b, t) ==
  /\ InWindow(b, t)
  /\ session[b.key] # NoSession
  /\ session[b.key].iat = b.iat /\ session[b.key].exp = b.exp
  /\ session' = [session EXCEPT ![b.key].revoked = TRUE]
  /\ UNCHANGED <<clock, account, successor>>

Tick ==
  /\ clock < MaxTime
  /\ clock' = clock + 1
  /\ UNCHANGED <<account, session, successor>>

Next ==
  \/ Activate
  \/ \E new \in Rights : ChangeAuthority(new)
  \/ \E b \in Bearers, t \in 0..clock : Login(b, t) \/ Rotate(b, t) \/ Logout(b, t)
  \/ Tick

Spec == Init /\ [][Next]_vars
=============================================================================
