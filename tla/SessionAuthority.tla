-------------------------- MODULE SessionAuthority --------------------------
(***************************************************************************)
(* The identity registry of one account as concurrent database             *)
(* transactions: activation, authority changes, first session, repeat      *)
(* login, rotation, logout, and the commands (private write, owner read)   *)
(* that run behind the write fence.                                        *)
(*                                                                         *)
(* A call is one transaction of one sealed SQL function at READ COMMITTED. *)
(* It locks the principal row, then the session rows it names, then reads  *)
(* the clock and decides, reads the clock once more, and commits.  Its     *)
(* writes become visible at COMMIT and its locks last until then.  A call  *)
(* whose guard is false, whose lock times out or whose connection fails is *)
(* rolled back.                                                            *)
(*                                                                         *)
(* Abstractions.  Every lock, count and check is per principal and a       *)
(* session key is a hash of (issuer, jti), so one account is modelled.     *)
(* Signatures, input syntax and roles are checked before; reviewer rights  *)
(* are never granted by this code.  Several rows are locked in one step.   *)
(***************************************************************************)
EXTENDS Naturals, FiniteSets

CONSTANTS
  Conns,          \* database connections a call can lease
  Keys,           \* session keys: hash of (issuer, jti)
  Bearers,        \* signed tokens: [key, iat, nbf, exp]
  MaxTime,        \* bound on the clock
  MaxGeneration,  \* bound on auth_version
  NoSession,      \* "no row with this key"
  NoKey,          \* "no session key"
  NoBearer        \* the calls of the services that take no bearer

VARIABLES
  clock,       \* clock_timestamp()
  rights,      \* principals.enabled and writer_enabled
  generation,  \* principals.auth_version
  activated,   \* the account has its row in activation_audit
  session,     \* sessions, by key
  successor,   \* session_rotations: predecessor -> successor, or NoKey
  call         \* the transaction of each connection

account == <<rights, generation, activated>>
registry == <<clock, account, session, successor>>
vars == <<registry, call>>

------------------------------------------------------------------------------
(* Types *)

Generations == 1..MaxGeneration

Rights == {r \in [enabled : BOOLEAN, writer : BOOLEAN] : r.writer => r.enabled}

Disabled == [enabled |-> FALSE, writer |-> FALSE]

Sessions == [generation : Generations, iat : Nat, exp : Nat, revoked : BOOLEAN]

BearerRecords == [key : Keys, iat : Nat, nbf : Nat, exp : Nat]

Operations == {"activate", "authority", "bootstrap", "login", "rotate", "logout", "command"}

Stages == {"idle", "principal", "session", "decide", "finish", "commit"}

\* version: the auth_version the call goes by.  rows: the session rows it has
\* locked.  current: the session a rotation replaces or replays.
Calls == [op : Operations, at : Stages, bearer : Bearers \cup {NoBearer}, wanted : Rights,
          version : Generations, rows : SUBSET Keys, current : Keys \cup {NoKey}]

ASSUME BearersAssumption ==
  Bearers \subseteq BearerRecords /\ \A b \in Bearers : b.iat <= b.nbf /\ b.nbf < b.exp
ASSUME GenerationsAssumption == MaxGeneration \in Nat \ {0, 1} /\ MaxTime \in Nat
ASSUME SentinelsAssumption ==
  NoSession \notin Sessions /\ NoKey \notin Keys /\ NoBearer \notin Bearers

Rest == [op |-> "command", at |-> "idle", bearer |-> NoBearer, wanted |-> Disabled,
         version |-> 1, rows |-> {}, current |-> NoKey]

Init ==
  /\ clock = 0
  /\ rights = Disabled
  /\ generation = 1
  /\ activated = FALSE
  /\ session = [k \in Keys |-> NoSession]
  /\ successor = [k \in Keys |-> NoKey]
  /\ call = [c \in Conns |-> Rest]

------------------------------------------------------------------------------
(* Reading the registry *)

Known(k) == session[k] # NoSession

\* The current-generation sessions of a table that are neither revoked nor expired at t.
LiveKeys(table, t) ==
  {k \in Keys : /\ table[k] # NoSession
                /\ ~table[k].revoked
                /\ table[k].generation = generation
                /\ t < table[k].exp}

InWindow(b, t) == b.iat <= t /\ b.nbf <= t /\ t < b.exp

\* The row of b's key was opened with b's own lifetime.
OwnSession(b) == Known(b.key) /\ session[b.key].iat = b.iat /\ session[b.key].exp = b.exp

Opened(b, version) == [generation |-> version, iat |-> b.iat, exp |-> b.exp, revoked |-> FALSE]

------------------------------------------------------------------------------
(* Row locks *)

\* Faulty variant of PrincipalMode: repeat login locks the principal like a command.
PrincipalModeShares(op) ==
  IF op \in {"login", "logout", "command"} THEN "share" ELSE "update"

PrincipalMode(op) == IF op \in {"logout", "command"} THEN "share" ELSE "update"

\* Faulty variant of SessionMode: the fence takes FOR KEY SHARE, which a revoke ignores.
SessionModeKeyShare(op) == IF op \in {"logout", "command"} THEN "share" ELSE "update"

SessionMode(op) == IF op = "command" THEN "share" ELSE "update"

Compatible(m, n) == m = "share" /\ n = "share"

\* The session rows a call locks: its own, and for a rotation the live ones.
RowsToLock(c) ==
  CASE call[c].op \in {"activate", "authority"} -> {}
    [] call[c].op = "rotate" ->
         LiveKeys(session, clock) \cup {k \in {call[c].bearer.key} : Known(k)}
    [] OTHER -> {k \in {call[c].bearer.key} : Known(k)}

HoldsPrincipal(c) == call[c].at \in {"session", "decide", "finish", "commit"}

\* d holds a lock that c is waiting for.
Blocks(d, c) ==
  /\ d # c
  /\ \/ /\ call[c].at = "principal"
        /\ HoldsPrincipal(d)
        /\ ~Compatible(PrincipalMode(call[c].op), PrincipalMode(call[d].op))
     \/ /\ call[c].at = "session"
        /\ RowsToLock(c) \cap call[d].rows # {}
        /\ ~Compatible(SessionMode(call[c].op), SessionMode(call[d].op))

LockPrincipal(c) ==
  /\ call[c].at = "principal"
  /\ \A d \in Conns : ~Blocks(d, c)
  /\ call' = [call EXCEPT ![c].at = "session"]
  /\ UNCHANGED registry

LockSessions(c) ==
  /\ call[c].at = "session"
  /\ \A d \in Conns : ~Blocks(d, c)
  /\ call' = [call EXCEPT ![c].at = "decide", ![c].rows = RowsToLock(c)]
  /\ UNCHANGED registry

------------------------------------------------------------------------------
(* The start of a call *)

\* Faulty variant of Start: logout has locked its session row before the principal.
StartSessionFirst(c, op, b, new) ==
  LET first == IF op = "logout" THEN {k \in {b.key} : Known(k)} ELSE {} IN
  /\ call[c].at = "idle"
  /\ \A d \in Conns : first \cap call[d].rows = {}
  /\ call' = [call EXCEPT ![c] =
       [Rest EXCEPT !.op = op, !.at = "principal", !.bearer = b, !.wanted = new,
                    !.version = generation, !.rows = first]]
  /\ UNCHANGED registry

Start(c, op, b, new) ==
  /\ call[c].at = "idle"
  /\ call' = [call EXCEPT ![c] =
       [Rest EXCEPT !.op = op, !.at = "principal", !.bearer = b, !.wanted = new,
                    !.version = generation]]
  /\ UNCHANGED registry

BeginActivate(c) == Start(c, "activate", NoBearer, Disabled)

\* The caller read auth_version before: it may be stale when the row is locked.
BeginAuthority(c, new) ==
  /\ generation < MaxGeneration
  /\ Start(c, "authority", NoBearer, new)

BeginSession(c, op, b) ==
  /\ op \in {"bootstrap", "login", "rotate", "logout"}
  /\ Start(c, op, b, Disabled)

\* The registry lookup behind the authorization stamp of a command: one snapshot
\* without locks, fenced later.  The window of b itself is checked by the clock of
\* the application here, by that of the database in the fence.
BeginCommand(c, b) ==
  /\ rights.enabled /\ rights.writer
  /\ b.key \in LiveKeys(session, clock)
  /\ session[b.key].iat <= clock
  /\ session[b.key].iat <= b.iat
  /\ Start(c, "command", b, Disabled)

------------------------------------------------------------------------------
(* The decision, with every lock held *)

Pass(c, version, current) ==
  /\ call' = [call EXCEPT ![c].at = "finish", ![c].version = version, ![c].current = current]
  /\ UNCHANGED registry

\* Faulty variant of Admitted: the activation audit is not read.
AdmittedUnaudited == rights.enabled /\ generation >= 2

\* The account may hold sessions: audited activation, and not disabled since.
Admitted == rights.enabled /\ generation >= 2 /\ activated

\* An exact retry: the key's row has this lifetime, this generation, and lives on.
Replay(b) ==
  OwnSession(b) /\ session[b.key].generation = generation /\ ~session[b.key].revoked

Activate(c) ==
  /\ call[c].at = "decide" /\ call[c].op = "activate"
  /\ generation = 1 /\ ~rights.enabled /\ ~rights.writer /\ ~activated
  /\ Pass(c, generation, NoKey)

\* Faulty variant of ChangeAuthority: the expected generation is not compared.
ChangeAuthorityBlind(c) ==
  /\ call[c].at = "decide" /\ call[c].op = "authority"
  /\ call[c].wanted # rights
  /\ Pass(c, call[c].version, NoKey)

\* A retry that finds its change made returns it again and changes nothing.
ChangeAuthority(c) ==
  /\ call[c].at = "decide" /\ call[c].op = "authority"
  /\ generation = call[c].version
  /\ call[c].wanted # rights
  /\ Pass(c, generation, NoKey)

Bootstrap(c) ==
  LET b == call[c].bearer IN
  /\ call[c].at = "decide" /\ call[c].op = "bootstrap"
  /\ Admitted /\ ~rights.writer /\ generation = 2
  /\ InWindow(b, clock)
  /\ \A k \in Keys \ {b.key} : ~Known(k)
  /\ ~Known(b.key) \/ Replay(b)
  /\ Pass(c, generation, b.key)

RepeatLogin(c) ==
  LET b == call[c].bearer IN
  /\ call[c].at = "decide" /\ call[c].op = "login"
  /\ Admitted
  /\ InWindow(b, clock)
  /\ IF Known(b.key) THEN Replay(b) ELSE LiveKeys(session, clock) = {}
  /\ Pass(c, generation, b.key)

\* Faulty variant of Rotate: an equal or older bearer may replace the current one.
RotateAnyAge(c) ==
  LET b == call[c].bearer IN
  /\ call[c].at = "decide" /\ call[c].op = "rotate"
  /\ Admitted
  /\ InWindow(b, clock)
  /\ \E k \in Keys :
       /\ LiveKeys(session, clock) = {k}
       /\ session[k].iat <= clock
       /\ IF k = b.key THEN OwnSession(b) ELSE ~Known(b.key)
       /\ Pass(c, generation, k)

\* Exactly one live session: b retries it, or is strictly newer and unknown.
Rotate(c) ==
  LET b == call[c].bearer IN
  /\ call[c].at = "decide" /\ call[c].op = "rotate"
  /\ Admitted
  /\ InWindow(b, clock)
  /\ \E k \in Keys :
       /\ LiveKeys(session, clock) = {k}
       /\ session[k].iat <= clock
       /\ IF k = b.key THEN OwnSession(b) ELSE ~Known(b.key) /\ session[k].iat < b.iat
       /\ Pass(c, generation, k)

\* Neither enabled nor current: an old session can always be given up.
Logout(c) ==
  LET b == call[c].bearer IN
  /\ call[c].at = "decide" /\ call[c].op = "logout"
  /\ OwnSession(b)
  /\ InWindow(b, clock)
  /\ Pass(c, session[b.key].generation, b.key)

\* Faulty variant of Fence: the lifetimes were tested by the lookup, before the waits.
FenceByLookup(c) ==
  LET b == call[c].bearer
      s == session[b.key] IN
  /\ call[c].at = "decide" /\ call[c].op = "command"
  /\ rights.enabled /\ rights.writer
  /\ generation = call[c].version
  /\ Known(b.key) /\ s.generation = generation /\ ~s.revoked
  /\ s.iat <= b.iat
  /\ Pass(c, generation, b.key)

\* assert_private_draft_fence: the stamp still describes the locked rows.
Fence(c) ==
  LET b == call[c].bearer
      s == session[b.key] IN
  /\ call[c].at = "decide" /\ call[c].op = "command"
  /\ rights.enabled /\ rights.writer
  /\ generation = call[c].version
  /\ Known(b.key) /\ s.generation = generation /\ ~s.revoked
  /\ s.iat <= clock /\ clock < s.exp
  /\ s.iat <= b.iat
  /\ InWindow(b, clock)
  /\ Pass(c, generation, b.key)

------------------------------------------------------------------------------
(* The last reading of the clock, and COMMIT *)

\* The sessions as the call leaves them.
Result(c) ==
  LET b == call[c].bearer
      k == call[c].current IN
  CASE call[c].op \in {"bootstrap", "login"} /\ ~Known(b.key) ->
         [session EXCEPT ![b.key] = Opened(b, call[c].version)]
    [] call[c].op = "rotate" /\ k # b.key ->
         [session EXCEPT ![k].revoked = TRUE, ![b.key] = Opened(b, call[c].version)]
    [] call[c].op = "logout" -> [session EXCEPT ![b.key].revoked = TRUE]
    [] OTHER -> session

\* A rotation is valid until the first of the two lifetimes ends, and must leave
\* its own key as the only live one.
InTime(c) ==
  LET b == call[c].bearer IN
  CASE call[c].op \in {"bootstrap", "login", "logout"} -> InWindow(b, clock)
    [] call[c].op = "rotate" ->
         /\ InWindow(b, clock)
         /\ clock < session[call[c].current].exp
         /\ LiveKeys(Result(c), clock) = {b.key}
    [] OTHER -> TRUE

Finish(c) ==
  /\ call[c].at = "finish"
  /\ InTime(c)
  /\ call' = [call EXCEPT ![c].at = "commit"]
  /\ UNCHANGED registry

CommitActivate(c) ==
  /\ call[c].op = "activate"
  /\ rights' = [enabled |-> TRUE, writer |-> FALSE]
  /\ generation' = generation + 1
  /\ activated' = TRUE
  /\ UNCHANGED <<session, successor>>

CommitAuthority(c) ==
  /\ call[c].op = "authority"
  /\ rights' = call[c].wanted
  /\ generation' = generation + 1
  /\ UNCHANGED <<activated, session, successor>>

\* Rotation also writes its row of lineage; a replay writes nothing.
CommitSession(c) ==
  /\ call[c].op \in {"bootstrap", "login", "rotate", "logout"}
  /\ session' = Result(c)
  /\ successor' = IF call[c].op = "rotate" /\ call[c].current # call[c].bearer.key
                  THEN [successor EXCEPT ![call[c].current] = call[c].bearer.key]
                  ELSE successor
  /\ UNCHANGED account

\* What a command writes is not part of the registry.
CommitCommand(c) ==
  /\ call[c].op = "command"
  /\ UNCHANGED <<account, session, successor>>

Commit(c) ==
  /\ call[c].at = "commit"
  /\ CommitActivate(c) \/ CommitAuthority(c) \/ CommitSession(c) \/ CommitCommand(c)
  /\ call' = [call EXCEPT ![c] = Rest]
  /\ UNCHANGED clock

\* Rejected, timed out, disconnected or rolled back.
Abort(c) ==
  /\ call[c].at # "idle"
  /\ call' = [call EXCEPT ![c] = Rest]
  /\ UNCHANGED registry

Tick ==
  /\ clock < MaxTime
  /\ clock' = clock + 1
  /\ UNCHANGED <<account, session, successor, call>>

Begin(c) ==
  \/ BeginActivate(c)
  \/ \E new \in Rights : BeginAuthority(c, new)
  \/ \E b \in Bearers, op \in Operations : BeginSession(c, op, b)
  \/ \E b \in Bearers : BeginCommand(c, b)

DecideStep(c) ==
  \/ Activate(c) \/ ChangeAuthority(c) \/ Bootstrap(c) \/ RepeatLogin(c)
  \/ Rotate(c) \/ Logout(c) \/ Fence(c)

Next ==
  \/ \E c \in Conns :
       \/ Begin(c) \/ LockPrincipal(c) \/ LockSessions(c)
       \/ DecideStep(c) \/ Finish(c) \/ Commit(c) \/ Abort(c)
  \/ Tick

Spec == Init /\ [][Next]_vars

------------------------------------------------------------------------------
(* Properties *)

\* The types of the variables, and the CHECK of the lifetime of a session.
TypeOK ==
  /\ clock \in 0..MaxTime
  /\ rights \in Rights
  /\ generation \in Generations
  /\ activated \in BOOLEAN
  /\ session \in [Keys -> Sessions \cup {NoSession}]
  /\ successor \in [Keys -> Keys \cup {NoKey}]
  /\ call \in [Conns -> Calls]
  /\ \A k \in Keys : Known(k) => session[k].iat < session[k].exp

\* "One live session per current authority generation": no race of first login,
\* repeat login, rotation, logout and authority changes leaves two.
SingleLiveSession == Cardinality(LiveKeys(session, clock)) <= 1

\* Lineage is a chain of ended sessions: a predecessor is revoked for ever, was
\* replaced once, within its generation, by a strictly newer bearer.
LineageIsAChain ==
  \A k \in Keys :
    successor[k] # NoKey =>
      /\ Known(k) /\ Known(successor[k])
      /\ session[k].revoked
      /\ session[k].generation = session[successor[k]].generation
      /\ session[k].iat < session[successor[k]].iat
      /\ \A l \in Keys : successor[l] = successor[k] => l = k

\* Once the fence let a command pass, it stays authorized until its transaction
\* ends: no logout, rotation or authority change commits in between.
FencedUntilCommit ==
  \A c \in Conns :
    call[c].op = "command" /\ call[c].at \in {"finish", "commit"} =>
      LET k == call[c].bearer.key IN
      /\ rights.enabled /\ rights.writer
      /\ Known(k) /\ ~session[k].revoked
      /\ session[k].generation = generation

\* No set of calls waits only for each other, whatever they lock.
NoDeadlock ==
  \A waiting \in SUBSET Conns :
    waiting # {} => \E c \in waiting : \A d \in waiting : ~Blocks(d, c)

\* An authority change is applied to the authority its caller saw: of two callers
\* that saw the same generation, one loses.
NoLostAuthority ==
  [][\A c \in Conns :
       call[c].at = "commit" /\ call[c].op = "authority" /\ rights' # rights =>
         generation = call[c].version]_vars

\* One session never gives way to an older one while it lives.
NoRollback ==
  [][\A k, l \in Keys :
       k \in LiveKeys(session, clock) /\ l \in LiveKeys(session, clock)' /\ k # l =>
         session[k].iat < session'[l].iat]_vars

Policy == INSTANCE SessionPolicy

\* The transactions implement the policy: each COMMIT is one step of it, by a
\* reading of the clock that is not in the future.
ImplementsSessionPolicy == Policy!Spec
=============================================================================
