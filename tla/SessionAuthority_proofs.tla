---------------------- MODULE SessionAuthority_proofs ----------------------
(***************************************************************************)
(* The safety of the session transactions for any number of connections,   *)
(* session keys, bearers, generations and any clock.                       *)
(***************************************************************************)
EXTENDS SessionExpiry, TLAPS, FiniteSetTheorems

------------------------------------------------------------------------------
(* The inductive invariant *)

Locked(c) == call[c].at \in {"decide", "finish", "commit"}
Decided(c) == call[c].at \in {"finish", "commit"}
Exclusive(c) == PrincipalMode(call[c].op) = "update"

Types ==
  /\ clock \in 0..MaxTime
  /\ rights \in Rights
  /\ generation \in Generations
  /\ activated \in BOOLEAN
  /\ session \in [Keys -> Sessions \cup {NoSession}]
  /\ successor \in [Keys -> Keys \cup {NoKey}]
  /\ call \in [Conns -> Calls]

\* What is true of every session: its lifetime is not empty and its generation
\* has been reached.
SessionInv ==
  \A k \in Keys : Known(k) =>
    session[k].iat < session[k].exp /\ session[k].generation <= generation

\* SingleLiveSession without counting.
OneLive == \A k, l \in LiveKeys(session, clock) : k = l

\* The arguments of a call.
ArgsInv ==
  \A c \in Conns : call[c].at # "idle" =>
    /\ call[c].op \notin {"activate", "authority"} => call[c].bearer \in Bearers
    /\ call[c].op = "authority" => call[c].version < MaxGeneration

\* Two transactions hold conflicting locks on no row.
PrincipalLocks ==
  \A c, d \in Conns : c # d /\ HoldsPrincipal(c) /\ HoldsPrincipal(d) =>
    ~Exclusive(c) /\ ~Exclusive(d)

SessionLocks ==
  /\ \A c, d \in Conns : c # d /\ call[c].rows \cap call[d].rows # {} =>
       Compatible(SessionMode(call[c].op), SessionMode(call[d].op))
  /\ \A c \in Conns : ~Locked(c) => call[c].rows = {}
  /\ \A c \in Conns : Locked(c) /\ ~Exclusive(c) /\ Known(call[c].bearer.key) =>
       call[c].bearer.key \in call[c].rows

\* What a call decided by is still so until it commits, by operation.
ActivateHolds(c) ==
  call[c].op = "activate" => generation = 1 /\ ~activated

AuthorityHolds(c) ==
  call[c].op = "authority" => call[c].version = generation /\ call[c].wanted # rights

\* t is a reading of the clock by which the call was decided.
LoginHolds(c) ==
  call[c].op \in {"bootstrap", "login"} =>
    LET b == call[c].bearer IN
    /\ call[c].version = generation
    /\ Admitted
    /\ \E t \in 0..clock : InWindow(b, t) /\ (Known(b.key) \/ LiveKeys(session, t) = {})

RotateHolds(c) ==
  call[c].op = "rotate" =>
    LET b == call[c].bearer
        k == call[c].current IN
    /\ call[c].version = generation
    /\ Admitted
    /\ k \in Keys
    /\ k # b.key => ~Known(b.key) /\ session[k].iat < b.iat
    /\ \E t \in 0..clock : InWindow(b, t) /\ LiveKeys(session, t) = {k}

LogoutHolds(c) ==
  call[c].op = "logout" =>
    LET b == call[c].bearer IN
    OwnSession(b) /\ \E t \in 0..clock : InWindow(b, t)

FenceHolds(c) ==
  call[c].op = "command" =>
    LET k == call[c].bearer.key IN
    /\ rights.enabled /\ rights.writer
    /\ Known(k) /\ ~session[k].revoked
    /\ session[k].generation = generation

DecisionHolds(c) ==
  Decided(c) =>
    /\ ActivateHolds(c) /\ AuthorityHolds(c) /\ LoginHolds(c)
    /\ RotateHolds(c) /\ LogoutHolds(c) /\ FenceHolds(c)

DecisionInv == \A c \in Conns : DecisionHolds(c)

IInv ==
  /\ Types /\ SessionInv /\ OneLive /\ ArgsInv
  /\ PrincipalLocks /\ SessionLocks /\ DecisionInv /\ LineageIsAChain

------------------------------------------------------------------------------
(* Facts about bearers, modes and lifetimes *)

LEMMA BearerFacts ==
  ASSUME NEW b \in Bearers
  PROVE  /\ b \in BearerRecords /\ b.key \in Keys
         /\ b.iat \in Nat /\ b.nbf \in Nat /\ b.exp \in Nat
         /\ b.iat < b.exp
BY BearersAssumption DEF BearerRecords

LEMMA RestIsACall == Rest \in Calls
BY GenerationsAssumption DEF Rest, Calls, Operations, Stages, Rights, Disabled, Generations

LEMMA SessionFacts ==
  ASSUME Types, NEW k \in Keys, Known(k)
  PROVE  /\ session[k] \in Sessions
         /\ session[k].generation \in Generations
         /\ session[k].iat \in Nat /\ session[k].exp \in Nat
         /\ session[k].revoked \in BOOLEAN
BY DEF Types, Known, Sessions

\* Time only ends sessions.
LEMMA LiveShrinks ==
  ASSUME Types, NEW t \in Nat, NEW u \in Nat, t <= u
  PROVE  LiveKeys(session, u) \subseteq LiveKeys(session, t)
<1>1. SUFFICES ASSUME NEW k \in Keys, k \in LiveKeys(session, u)
               PROVE  k \in LiveKeys(session, t)
  BY DEF LiveKeys
<1>2. Known(k)
  BY <1>1 DEF LiveKeys, Known
<1>3. session[k].exp \in Nat
  BY <1>2, SessionFacts
<1>4. QED
  BY <1>1, <1>3 DEF LiveKeys

LEMMA ClockIsNat == Types => clock \in Nat /\ 0..clock \subseteq Nat
BY GenerationsAssumption DEF Types

------------------------------------------------------------------------------
(* Steps that change one call and nothing else *)

LEMMA QuietStep ==
  ASSUME IInv, NEW c \in Conns, UNCHANGED registry,
         call' \in [Conns -> Calls],
         \A d \in Conns \ {c} : call'[d] = call[d],
         call'[c].at # "idle" =>
           /\ call'[c].op \notin {"activate", "authority"} => call'[c].bearer \in Bearers
           /\ call'[c].op = "authority" => call'[c].version < MaxGeneration,
         HoldsPrincipal(c)' =>
           \A d \in Conns \ {c} : HoldsPrincipal(d) => ~Exclusive(c)' /\ ~Exclusive(d),
         \A d \in Conns \ {c} : call'[c].rows \cap call[d].rows # {} =>
           Compatible(SessionMode(call'[c].op), SessionMode(call[d].op)),
         ~Locked(c)' => call'[c].rows = {},
         Locked(c)' /\ ~Exclusive(c)' /\ Known(call'[c].bearer.key) =>
           call'[c].bearer.key \in call'[c].rows,
         DecisionHolds(c)'
  PROVE  IInv'
<1>1. /\ Types' /\ SessionInv' /\ OneLive' /\ LineageIsAChain'
  BY DEF IInv, Types, SessionInv, OneLive, LineageIsAChain, LiveKeys, Known, registry, account
<1>2. ArgsInv'
  BY DEF IInv, ArgsInv
<1>3. PrincipalLocks'
  BY DEF IInv, PrincipalLocks, HoldsPrincipal, Exclusive
<1>4. SessionLocks'
  <2>1. \A d \in Conns \ {c} : Locked(d)' = Locked(d) /\ Exclusive(d)' = Exclusive(d)
    BY DEF Locked, Exclusive
  <2>2. \A k : Known(k)' = Known(k)
    BY DEF Known, registry
  <2>3. \A d, e \in Conns : d # e /\ call'[d].rows \cap call'[e].rows # {} =>
          Compatible(SessionMode(call'[d].op), SessionMode(call'[e].op))
    BY DEF IInv, SessionLocks, Compatible
  <2>4. \A d \in Conns : ~Locked(d)' => call'[d].rows = {}
    BY <2>1 DEF IInv, SessionLocks
  <2>5. \A d \in Conns : Locked(d)' /\ ~Exclusive(d)' /\ Known(call'[d].bearer.key) =>
          call'[d].bearer.key \in call'[d].rows
    BY <2>1 DEF IInv, SessionLocks
  <2>6. QED
    BY <2>2, <2>3, <2>4, <2>5 DEF SessionLocks
<1>5. DecisionInv'
  <2>1. ASSUME NEW d \in Conns \ {c} PROVE DecisionHolds(d)'
    <3>1. DecisionHolds(d)
      BY DEF IInv, DecisionInv
    <3>2. call'[d] = call[d]
      OBVIOUS
    <3>3. QED
      BY <3>1, <3>2 DEF DecisionHolds, Decided, ActivateHolds, AuthorityHolds, LoginHolds,
         RotateHolds, LogoutHolds, FenceHolds, LiveKeys, Known, Admitted, OwnSession,
         registry, account
  <2>2. QED
    BY <2>1 DEF DecisionInv
<1>6. QED
  BY <1>1, <1>2, <1>3, <1>4, <1>5 DEF IInv

------------------------------------------------------------------------------
(* Starting and locking *)

LEMMA StartKeeps ==
  ASSUME IInv, NEW c \in Conns, NEW op \in Operations, NEW b \in Bearers \cup {NoBearer},
         NEW new \in Rights, Start(c, op, b, new),
         op \notin {"activate", "authority"} => b \in Bearers,
         op = "authority" => generation < MaxGeneration
  PROVE  IInv'
<1> DEFINE begun == [Rest EXCEPT !.op = op, !.at = "principal", !.bearer = b,
                                 !.wanted = new, !.version = generation]
<1>1. Types
  BY DEF IInv
<1>2. begun \in Calls
  BY <1>1, RestIsACall DEF Types, Calls, Stages
<1>3. /\ begun.at = "principal" /\ begun.op = op /\ begun.bearer = b
      /\ begun.version = generation /\ begun.rows = {}
  BY DEF Rest
<1>4. call' = [call EXCEPT ![c] = begun] /\ UNCHANGED registry
  BY DEF Start
<1> HIDE DEF begun
<1>5. call' \in [Conns -> Calls] /\ call'[c] = begun
      /\ \A d \in Conns \ {c} : call'[d] = call[d]
  BY <1>1, <1>2, <1>4 DEF Types
<1>6. ~HoldsPrincipal(c)' /\ ~Locked(c)' /\ DecisionHolds(c)'
  BY <1>3, <1>5 DEF HoldsPrincipal, Locked, DecisionHolds, Decided
<1>7. QED
  BY <1>3, <1>4, <1>5, <1>6, QuietStep

LEMMA BeginKeeps ==
  ASSUME IInv, NEW c \in Conns, Begin(c)
  PROVE  IInv'
<1>1. Disabled \in Rights
  BY DEF Disabled, Rights
<1>2. CASE BeginActivate(c)
  BY <1>1, <1>2, StartKeeps DEF BeginActivate, Operations
<1>3. CASE \E new \in Rights : BeginAuthority(c, new)
  BY <1>3, StartKeeps DEF BeginAuthority, Operations
<1>4. CASE \E b \in Bearers, op \in Operations : BeginSession(c, op, b)
  BY <1>1, <1>4, StartKeeps DEF BeginSession
<1>5. CASE \E b \in Bearers : BeginCommand(c, b)
  BY <1>1, <1>5, StartKeeps DEF BeginCommand, Operations
<1>6. QED
  BY <1>2, <1>3, <1>4, <1>5 DEF Begin

LEMMA LockPrincipalKeeps ==
  ASSUME IInv, NEW c \in Conns, LockPrincipal(c)
  PROVE  IInv'
<1>1. Types
  BY DEF IInv
<1>2. /\ call' \in [Conns -> Calls]
      /\ \A d \in Conns \ {c} : call'[d] = call[d]
      /\ call'[c].at = "session"
      /\ call'[c].op = call[c].op /\ call'[c].bearer = call[c].bearer
      /\ call'[c].version = call[c].version /\ call'[c].rows = call[c].rows
  BY <1>1 DEF LockPrincipal, Types, Calls, Stages
<1>3. call[c].rows = {} /\ call[c].at = "principal" /\ UNCHANGED registry
  BY DEF LockPrincipal, IInv, SessionLocks, Locked
<1>4. ASSUME NEW d \in Conns \ {c}, HoldsPrincipal(d)
      PROVE  ~Exclusive(c)' /\ ~Exclusive(d)
  BY <1>2, <1>3, <1>4 DEF LockPrincipal, Blocks, Compatible, Exclusive, PrincipalMode
<1>5. ~Locked(c)' /\ DecisionHolds(c)'
  BY <1>2 DEF Locked, DecisionHolds, Decided
<1>6. call'[c].at # "idle" =>
        /\ call'[c].op \notin {"activate", "authority"} => call'[c].bearer \in Bearers
        /\ call'[c].op = "authority" => call'[c].version < MaxGeneration
  BY <1>2, <1>3 DEF IInv, ArgsInv
<1>7. QED
  BY <1>2, <1>3, <1>4, <1>5, <1>6, QuietStep

LEMMA LockSessionsKeeps ==
  ASSUME IInv, NEW c \in Conns, LockSessions(c)
  PROVE  IInv'
<1>1. Types
  BY DEF IInv
<1>2. RowsToLock(c) \subseteq Keys
  <2>1. LiveKeys(session, clock) \subseteq Keys
    BY DEF LiveKeys
  <2>2. CASE call[c].op \in {"activate", "authority"}
    BY <2>2 DEF RowsToLock
  <2>3. CASE call[c].op \notin {"activate", "authority"}
    <3>1. call[c].bearer.key \in Keys
      BY <2>3, BearerFacts DEF IInv, ArgsInv, LockSessions
    <3>2. QED
      BY <2>1, <2>3, <3>1 DEF RowsToLock
  <2>4. QED
    BY <2>2, <2>3
<1>3. /\ call' \in [Conns -> Calls]
      /\ \A d \in Conns \ {c} : call'[d] = call[d]
      /\ call'[c].at = "decide"
      /\ call'[c].op = call[c].op /\ call'[c].bearer = call[c].bearer
      /\ call'[c].version = call[c].version /\ call'[c].rows = RowsToLock(c)
  BY <1>1, <1>2 DEF LockSessions, Types, Calls, Stages
<1>4. call[c].at = "session" /\ UNCHANGED registry
  BY DEF LockSessions
<1>5. ASSUME NEW d \in Conns \ {c}, HoldsPrincipal(d)
      PROVE  ~Exclusive(c)' /\ ~Exclusive(d)
  BY <1>3, <1>4, <1>5 DEF IInv, PrincipalLocks, HoldsPrincipal, Exclusive
<1>6. ASSUME NEW d \in Conns \ {c}, call'[c].rows \cap call[d].rows # {}
      PROVE  Compatible(SessionMode(call'[c].op), SessionMode(call[d].op))
  BY <1>3, <1>4, <1>6 DEF LockSessions, Blocks
<1>7. Locked(c)' /\ DecisionHolds(c)'
  BY <1>3 DEF Locked, DecisionHolds, Decided
<1>8. call'[c].at # "idle" =>
        /\ call'[c].op \notin {"activate", "authority"} => call'[c].bearer \in Bearers
        /\ call'[c].op = "authority" => call'[c].version < MaxGeneration
  BY <1>3, <1>4 DEF IInv, ArgsInv
<1>9. ASSUME ~Exclusive(c)', Known(call'[c].bearer.key)
      PROVE  call'[c].bearer.key \in call'[c].rows
  <2>1. call[c].op \in {"logout", "command"}
    BY <1>3, <1>9 DEF Exclusive, PrincipalMode
  <2>2. call[c].bearer.key \in Keys
    BY <2>1, <1>4, BearerFacts DEF IInv, ArgsInv
  <2>3. QED
    BY <1>3, <1>9, <2>1, <2>2 DEF RowsToLock
<1>10. QED
  BY <1>3, <1>4, <1>5, <1>6, <1>7, <1>8, <1>9, QuietStep

LEMMA AbortKeeps ==
  ASSUME IInv, NEW c \in Conns, Abort(c)
  PROVE  IInv'
<1>1. /\ call' \in [Conns -> Calls] /\ call'[c] = Rest
      /\ \A d \in Conns \ {c} : call'[d] = call[d]
      /\ UNCHANGED registry
  BY RestIsACall DEF Abort, IInv, Types
<1>2. Rest.at = "idle" /\ Rest.rows = {}
  BY DEF Rest
<1>3. ~HoldsPrincipal(c)' /\ ~Locked(c)' /\ DecisionHolds(c)'
  BY <1>1, <1>2 DEF HoldsPrincipal, Locked, DecisionHolds, Decided
<1>4. QED
  BY <1>1, <1>2, <1>3, QuietStep

------------------------------------------------------------------------------
(* Deciding *)

\* A call that decides or takes its last reading keeps its locks and arguments.
LEMMA MovesOn ==
  ASSUME IInv, NEW c \in Conns, UNCHANGED registry,
         call[c].at \in {"decide", "finish"},
         call' \in [Conns -> Calls],
         \A d \in Conns \ {c} : call'[d] = call[d],
         call'[c].at \in {"finish", "commit"},
         call'[c].op = call[c].op, call'[c].bearer = call[c].bearer,
         call'[c].op = "authority" => call'[c].version = call[c].version,
         call'[c].rows = call[c].rows,
         DecisionHolds(c)'
  PROVE  IInv'
<1>1. /\ HoldsPrincipal(c) /\ Locked(c) /\ Locked(c)' /\ HoldsPrincipal(c)'
      /\ Exclusive(c)' = Exclusive(c)
  BY DEF HoldsPrincipal, Locked, Exclusive
<1>2. ASSUME NEW d \in Conns \ {c}, HoldsPrincipal(d)
      PROVE  ~Exclusive(c)' /\ ~Exclusive(d)
  BY <1>1, <1>2 DEF IInv, PrincipalLocks
<1>3. ASSUME NEW d \in Conns \ {c}, call'[c].rows \cap call[d].rows # {}
      PROVE  Compatible(SessionMode(call'[c].op), SessionMode(call[d].op))
  BY <1>3 DEF IInv, SessionLocks
<1>4. Known(call'[c].bearer.key) => Known(call[c].bearer.key)
  OBVIOUS
<1>5. ~Exclusive(c)' /\ Known(call'[c].bearer.key) => call'[c].bearer.key \in call'[c].rows
  BY <1>1, <1>4 DEF IInv, SessionLocks
<1>6. call'[c].at # "idle" =>
        /\ call'[c].op \notin {"activate", "authority"} => call'[c].bearer \in Bearers
        /\ call'[c].op = "authority" => call'[c].version < MaxGeneration
  BY DEF IInv, ArgsInv
<1>7. QED
  BY <1>1, <1>2, <1>3, <1>5, <1>6, QuietStep

LEMMA PassFacts ==
  ASSUME Types, NEW c \in Conns,
         NEW version \in Generations, NEW current \in Keys \cup {NoKey},
         Pass(c, version, current)
  PROVE  /\ call' \in [Conns -> Calls] /\ UNCHANGED registry
         /\ \A d \in Conns \ {c} : call'[d] = call[d]
         /\ call'[c].at = "finish" /\ call'[c].version = version
         /\ call'[c].op = call[c].op /\ call'[c].bearer = call[c].bearer
         /\ call'[c].rows = call[c].rows /\ call'[c].current = current
         /\ call'[c].wanted = call[c].wanted
<1> DEFINE passed == [call[c] EXCEPT !.at = "finish", !.version = version, !.current = current]
<1>1. call \in [Conns -> Calls] /\ call[c] \in Calls
  BY DEF Types
<1>2. call' = [call EXCEPT ![c] = passed] /\ UNCHANGED registry
  BY <1>1 DEF Pass
<1>3. /\ passed \in Calls /\ passed.at = "finish" /\ passed.version = version
      /\ passed.op = call[c].op /\ passed.bearer = call[c].bearer
      /\ passed.rows = call[c].rows /\ passed.current = current
      /\ passed.wanted = call[c].wanted
  BY <1>1 DEF Calls, Stages
<1> HIDE DEF passed
<1>4. QED
  BY <1>1, <1>2, <1>3

LEMMA PassKeeps ==
  ASSUME IInv, NEW c \in Conns, call[c].at = "decide",
         NEW version \in Generations, NEW current \in Keys \cup {NoKey},
         Pass(c, version, current),
         call[c].op = "authority" => version = call[c].version,
         DecisionHolds(c)'
  PROVE  IInv'
<1>1. Types
  BY DEF IInv
<1>2. QED
  BY <1>1, PassFacts, MovesOn

LEMMA AccountDecisionKeeps ==
  ASSUME IInv, NEW c \in Conns, Activate(c) \/ ChangeAuthority(c)
  PROVE  IInv'
<1>1. Types
  BY DEF IInv
<1>2. /\ call[c].at = "decide" /\ call[c].op \in {"activate", "authority"}
      /\ Pass(c, generation, NoKey)
      /\ call[c].op = "activate" => generation = 1 /\ ~activated
      /\ call[c].op = "authority" => generation = call[c].version /\ call[c].wanted # rights
  BY DEF Activate, ChangeAuthority
<1>3. generation \in Generations
  BY <1>1 DEF Types
<1>4. /\ call'[c].op = call[c].op /\ call'[c].version = generation
      /\ call'[c].wanted = call[c].wanted /\ UNCHANGED registry
  BY <1>1, <1>2, <1>3, PassFacts
<1>5. DecisionHolds(c)'
  BY <1>2, <1>4 DEF DecisionHolds, ActivateHolds, AuthorityHolds, LoginHolds, RotateHolds,
     LogoutHolds, FenceHolds, registry, account
<1>6. QED
  BY <1>2, <1>3, <1>5, PassKeeps

\* The clock at the decision is the reading the decision is made by.
LEMMA LoginDecisionKeeps ==
  ASSUME IInv, NEW c \in Conns, Bootstrap(c) \/ RepeatLogin(c)
  PROVE  IInv'
<1> DEFINE b == call[c].bearer
<1>1. Types
  BY DEF IInv
<1>2. /\ call[c].at = "decide" /\ call[c].op \in {"bootstrap", "login"}
      /\ Pass(c, generation, b.key)
      /\ Admitted /\ InWindow(b, clock)
  BY DEF Bootstrap, RepeatLogin
<1>3. Known(b.key) \/ LiveKeys(session, clock) = {}
  BY DEF Bootstrap, RepeatLogin, Known, LiveKeys
<1>4. b.key \in Keys /\ generation \in Generations
  BY <1>1, <1>2, BearerFacts DEF IInv, ArgsInv, Types
<1>5. /\ call'[c].op = call[c].op /\ call'[c].version = generation
      /\ call'[c].bearer = b /\ UNCHANGED registry
  BY <1>1, <1>2, <1>4, PassFacts
<1>6. clock \in 0..clock
  BY <1>1, ClockIsNat
<1>7. LoginHolds(c)'
  <2>1. /\ generation' = generation /\ Admitted' /\ clock' = clock
        /\ InWindow(b, clock) /\ (Known(b.key)' \/ LiveKeys(session, clock)' = {})
    BY <1>2, <1>3, <1>5 DEF registry, account, Admitted, Known, LiveKeys
  <2>2. QED
    BY <1>5, <1>6, <2>1 DEF LoginHolds, InWindow, Known, LiveKeys
<1>8. DecisionHolds(c)'
  BY <1>2, <1>5, <1>7 DEF DecisionHolds, ActivateHolds, AuthorityHolds, RotateHolds,
     LogoutHolds, FenceHolds
<1>9. QED
  BY <1>2, <1>4, <1>8, PassKeeps

LEMMA RotateDecisionKeeps ==
  ASSUME IInv, NEW c \in Conns, Rotate(c)
  PROVE  IInv'
<1> DEFINE b == call[c].bearer
<1>1. Types
  BY DEF IInv
<1>2. /\ call[c].at = "decide" /\ call[c].op = "rotate"
      /\ Admitted /\ InWindow(b, clock)
  BY DEF Rotate
<1>3. PICK k \in Keys :
        /\ LiveKeys(session, clock) = {k}
        /\ IF k = b.key THEN OwnSession(b) ELSE ~Known(b.key) /\ session[k].iat < b.iat
        /\ Pass(c, generation, k)
  BY DEF Rotate
<1>4. generation \in Generations
  BY <1>1 DEF Types
<1>5. /\ call'[c].op = call[c].op /\ call'[c].version = generation
      /\ call'[c].bearer = b /\ call'[c].current = k /\ UNCHANGED registry
  BY <1>1, <1>3, <1>4, PassFacts
<1>6. clock \in 0..clock
  BY <1>1, ClockIsNat
<1>7. RotateHolds(c)'
  <2>1. /\ generation' = generation /\ Admitted' /\ clock' = clock /\ session' = session
        /\ k # b.key => ~Known(b.key)' /\ session'[k].iat < b.iat
        /\ InWindow(b, clock) /\ LiveKeys(session, clock)' = {k}
    BY <1>2, <1>3, <1>5 DEF registry, account, Admitted, Known, LiveKeys
  <2>2. QED
    BY <1>3, <1>5, <1>6, <2>1 DEF RotateHolds, InWindow, Known, LiveKeys
<1>8. DecisionHolds(c)'
  BY <1>2, <1>5, <1>7 DEF DecisionHolds, ActivateHolds, AuthorityHolds, LoginHolds,
     LogoutHolds, FenceHolds
<1>9. QED
  BY <1>2, <1>3, <1>4, <1>8, PassKeeps

LEMMA LogoutDecisionKeeps ==
  ASSUME IInv, NEW c \in Conns, Logout(c)
  PROVE  IInv'
<1> DEFINE b == call[c].bearer
<1>1. Types
  BY DEF IInv
<1>2. /\ call[c].at = "decide" /\ call[c].op = "logout"
      /\ OwnSession(b) /\ InWindow(b, clock)
      /\ Pass(c, session[b.key].generation, b.key)
  BY DEF Logout
<1>3. b.key \in Keys
  BY <1>2, BearerFacts DEF IInv, ArgsInv
<1>4. session[b.key].generation \in Generations
  BY <1>1, <1>2, <1>3, SessionFacts DEF OwnSession
<1>5. call'[c].op = call[c].op /\ call'[c].bearer = b /\ UNCHANGED registry
  BY <1>1, <1>2, <1>3, <1>4, PassFacts
<1>6. clock \in 0..clock
  BY <1>1, ClockIsNat
<1>7. LogoutHolds(c)'
  BY <1>2, <1>5, <1>6 DEF LogoutHolds, OwnSession, Known, InWindow, registry
<1>8. DecisionHolds(c)'
  BY <1>2, <1>5, <1>7 DEF DecisionHolds, ActivateHolds, AuthorityHolds, LoginHolds,
     RotateHolds, FenceHolds
<1>9. QED
  BY <1>2, <1>3, <1>4, <1>8, PassKeeps

LEMMA FenceKeeps ==
  ASSUME IInv, NEW c \in Conns, Fence(c)
  PROVE  IInv'
<1> DEFINE b == call[c].bearer
<1>1. Types
  BY DEF IInv
<1>2. /\ call[c].at = "decide" /\ call[c].op = "command"
      /\ rights.enabled /\ rights.writer
      /\ Known(b.key) /\ session[b.key].generation = generation /\ ~session[b.key].revoked
      /\ Pass(c, generation, b.key)
  BY DEF Fence
<1>3. b.key \in Keys /\ generation \in Generations
  BY <1>1, <1>2, BearerFacts DEF IInv, ArgsInv, Types
<1>4. call'[c].op = call[c].op /\ call'[c].bearer = b /\ UNCHANGED registry
  BY <1>1, <1>2, <1>3, PassFacts
<1>5. FenceHolds(c)'
  BY <1>2, <1>4 DEF FenceHolds, Known, registry, account
<1>6. DecisionHolds(c)'
  BY <1>2, <1>4, <1>5 DEF DecisionHolds, ActivateHolds, AuthorityHolds, LoginHolds,
     RotateHolds, LogoutHolds
<1>7. QED
  BY <1>2, <1>3, <1>6, PassKeeps

LEMMA DecideKeeps ==
  ASSUME IInv, NEW c \in Conns, DecideStep(c)
  PROVE  IInv'
BY AccountDecisionKeeps, LoginDecisionKeeps, RotateDecisionKeeps, LogoutDecisionKeeps,
   FenceKeeps DEF DecideStep

LEMMA FinishKeeps ==
  ASSUME IInv, NEW c \in Conns, Finish(c)
  PROVE  IInv'
<1>1. call \in [Conns -> Calls] /\ call[c] \in Calls
  BY DEF IInv, Types
<1>2. /\ call' = [call EXCEPT ![c] = [call[c] EXCEPT !.at = "commit"]]
      /\ UNCHANGED registry /\ call[c].at = "finish"
  BY <1>1 DEF Finish
<1>3. /\ call' \in [Conns -> Calls]
      /\ \A d \in Conns \ {c} : call'[d] = call[d]
      /\ call'[c].at = "commit"
      /\ call'[c].op = call[c].op /\ call'[c].bearer = call[c].bearer
      /\ call'[c].version = call[c].version /\ call'[c].rows = call[c].rows
      /\ call'[c].wanted = call[c].wanted /\ call'[c].current = call[c].current
  BY <1>1, <1>2 DEF Calls, Stages
<1>4. DecisionHolds(c) /\ Decided(c)
  BY <1>2 DEF IInv, DecisionInv, Decided
<1>5. DecisionHolds(c)'
  BY <1>2, <1>3, <1>4 DEF DecisionHolds, ActivateHolds, AuthorityHolds, LoginHolds,
     RotateHolds, LogoutHolds, FenceHolds, LiveKeys, Known, Admitted, OwnSession,
     registry, account
<1>6. QED
  BY <1>2, <1>3, <1>5, MovesOn

------------------------------------------------------------------------------
(* The clock, and COMMIT *)

LEMMA TickKeeps ==
  ASSUME IInv, Tick
  PROVE  IInv'
<1>1. /\ Types /\ clock \in Nat /\ clock' = clock + 1 /\ clock < MaxTime
      /\ UNCHANGED <<rights, generation, activated, session, successor, call>>
  BY ClockIsNat DEF IInv, Tick, account
<1>2. Types' /\ SessionInv' /\ ArgsInv' /\ PrincipalLocks' /\ SessionLocks' /\ LineageIsAChain'
  <2>1. clock' \in 0..MaxTime
    BY <1>1, GenerationsAssumption
  <2>2. QED
    BY <1>1, <2>1 DEF IInv, Types, SessionInv, ArgsInv, PrincipalLocks, SessionLocks,
       LineageIsAChain, HoldsPrincipal, Exclusive, Locked, Known
<1>3. OneLive'
  <2>1. LiveKeys(session, clock)' = LiveKeys(session, clock')
    BY <1>1 DEF LiveKeys
  <2>2. LiveKeys(session, clock') \subseteq LiveKeys(session, clock)
    BY <1>1, LiveShrinks
  <2>3. QED
    BY <2>1, <2>2 DEF IInv, OneLive
<1>4. DecisionInv'
  <2>1. 0..clock \subseteq 0..clock'
    BY <1>1
  <2>2. ASSUME NEW c \in Conns PROVE DecisionHolds(c)'
    BY <1>1, <2>1 DEF IInv, DecisionInv, DecisionHolds, Decided, ActivateHolds,
       AuthorityHolds, LoginHolds, RotateHolds, LogoutHolds, FenceHolds, LiveKeys, Known,
       Admitted, OwnSession
  <2>3. QED
    BY <2>2 DEF DecisionInv
<1>5. QED
  BY <1>2, <1>3, <1>4 DEF IInv

\* What a commit leaves of the calls.
LEMMA CommitCalls ==
  ASSUME IInv, NEW c \in Conns, Commit(c)
  PROVE  /\ call' \in [Conns -> Calls] /\ call'[c] = Rest
         /\ \A d \in Conns \ {c} : call'[d] = call[d]
         /\ ~HoldsPrincipal(c)' /\ ~Locked(c)' /\ DecisionHolds(c)' /\ call'[c].rows = {}
         /\ ArgsInv' /\ PrincipalLocks'
         /\ clock' = clock /\ HoldsPrincipal(c) /\ Locked(c) /\ DecisionHolds(c) /\ Decided(c)
<1>1. /\ call' \in [Conns -> Calls] /\ call'[c] = Rest
      /\ \A d \in Conns \ {c} : call'[d] = call[d]
      /\ call[c].at = "commit" /\ clock' = clock
  BY RestIsACall DEF Commit, IInv, Types
<1>2. Rest.at = "idle" /\ Rest.rows = {}
  BY DEF Rest
<1>3. ~HoldsPrincipal(c)' /\ ~Locked(c)' /\ DecisionHolds(c)' /\ call'[c].rows = {}
  BY <1>1, <1>2 DEF HoldsPrincipal, Locked, DecisionHolds, Decided
<1>4. ArgsInv'
  BY <1>1, <1>2 DEF IInv, ArgsInv
<1>5. PrincipalLocks'
  BY <1>1, <1>3 DEF IInv, PrincipalLocks, HoldsPrincipal, Exclusive
<1>6. HoldsPrincipal(c) /\ Locked(c) /\ DecisionHolds(c) /\ Decided(c)
  BY <1>1 DEF HoldsPrincipal, Locked, IInv, DecisionInv, Decided
<1>7. QED
  BY <1>1, <1>3, <1>4, <1>5, <1>6

\* Nobody else is past the principal row when a call with its exclusive lock commits.
LEMMA AloneCommits ==
  ASSUME IInv, NEW c \in Conns, Commit(c), Exclusive(c)
  PROVE  SessionLocks' /\ DecisionInv'
<1>1. \A d \in Conns \ {c} : ~HoldsPrincipal(d)
  BY CommitCalls DEF IInv, PrincipalLocks
<1>2. \A d \in Conns : ~HoldsPrincipal(d)'
  BY <1>1, CommitCalls DEF HoldsPrincipal
<1>3. \A d \in Conns : ~Locked(d)' /\ ~Decided(d)'
  BY <1>2 DEF HoldsPrincipal, Locked, Decided
<1>4. \A d \in Conns : call'[d].rows = {}
  <2>1. ASSUME NEW d \in Conns \ {c} PROVE call'[d].rows = {}
    BY <1>1, CommitCalls DEF HoldsPrincipal, Locked, IInv, SessionLocks
  <2>2. QED
    BY <2>1, CommitCalls
<1>5. QED
  BY <1>3, <1>4 DEF SessionLocks, DecisionInv, DecisionHolds

LEMMA CommitAccountKeeps ==
  ASSUME IInv, NEW c \in Conns, Commit(c), CommitActivate(c) \/ CommitAuthority(c)
  PROVE  IInv'
<1>1. Types /\ MaxGeneration \in Nat /\ 2 <= MaxGeneration
  BY GenerationsAssumption DEF IInv
<1>2. Exclusive(c) /\ call[c].op \in {"activate", "authority"}
  BY DEF CommitActivate, CommitAuthority, Exclusive, PrincipalMode
<1>3. /\ generation' = generation + 1 /\ generation < MaxGeneration
      /\ session' = session /\ successor' = successor
      /\ rights' \in Rights /\ activated' \in BOOLEAN
  <2>1. CASE CommitActivate(c)
    <3>1. generation = 1
      BY <2>1, CommitCalls DEF CommitActivate, DecisionHolds, ActivateHolds
    <3>2. QED
      BY <1>1, <2>1, <3>1 DEF CommitActivate, Rights
  <2>2. CASE CommitAuthority(c)
    <3>1. generation = call[c].version /\ call[c].version < MaxGeneration
      BY <2>2, CommitCalls DEF CommitAuthority, DecisionHolds, AuthorityHolds, IInv, ArgsInv,
         Decided
    <3>2. call[c].wanted \in Rights
      BY <1>1 DEF Types, Calls
    <3>3. QED
      BY <1>1, <2>2, <3>1, <3>2 DEF CommitAuthority, Types
  <2>3. QED
    BY <2>1, <2>2
<1>4. generation \in Nat /\ generation' \in Generations
  BY <1>1, <1>3 DEF Types, Generations
<1>5. Types'
  BY <1>1, <1>3, <1>4, CommitCalls DEF Types
<1>6. SessionInv' /\ OneLive'
  <2>1. ASSUME NEW k \in Keys, Known(k)
        PROVE  session[k].generation < generation' /\ session[k].iat < session[k].exp
    <3>1. session[k].generation \in Nat
      BY <1>1, <2>1, SessionFacts DEF Generations
    <3>2. QED
      BY <1>3, <1>4, <2>1, <3>1 DEF IInv, SessionInv
  <2>2. ASSUME NEW k \in Keys, Known(k) PROVE session[k].generation # generation'
    <3>1. session[k].generation \in Nat /\ generation' \in Nat
      BY <1>1, <1>4, <2>2, SessionFacts DEF Generations
    <3>2. QED
      BY <2>1, <2>2, <3>1
  <2>3. \A k \in Keys : Known(k)' = Known(k)
    BY <1>3 DEF Known
  <2>4. SessionInv'
    <3>1. ASSUME NEW k \in Keys, Known(k)
          PROVE  session[k].generation <= generation'
      <4>1. session[k].generation \in Nat /\ generation' \in Nat
        BY <1>1, <1>4, <3>1, SessionFacts DEF Generations
      <4>2. QED
        BY <2>1, <3>1, <4>1
    <3>2. QED
      BY <1>3, <2>1, <2>3, <3>1 DEF SessionInv
  <2>5. LiveKeys(session, clock)' = {}
    BY <1>3, <2>2 DEF LiveKeys, Known
  <2>6. QED
    BY <2>4, <2>5 DEF OneLive
<1>7. LineageIsAChain'
  BY <1>3 DEF IInv, LineageIsAChain, Known
<1>8. QED
  BY <1>2, <1>5, <1>6, <1>7, CommitCalls, AloneCommits DEF IInv

LEMMA OpenedIsASession ==
  ASSUME NEW b \in Bearers, NEW version \in Generations
  PROVE  /\ Opened(b, version) \in Sessions
         /\ Opened(b, version).generation = version /\ ~Opened(b, version).revoked
         /\ Opened(b, version).iat = b.iat /\ Opened(b, version).exp = b.exp
         /\ Opened(b, version) # NoSession
<1>1. b.iat \in Nat /\ b.exp \in Nat
  BY BearerFacts
<1>2. Opened(b, version) \in Sessions
  BY <1>1 DEF Opened, Sessions
<1>3. QED
  BY <1>2, SentinelsAssumption DEF Opened

\* No session is live at the clock if none is at an earlier reading.
LEMMA LoginFindsNone ==
  ASSUME IInv, NEW c \in Conns, Commit(c), call[c].op \in {"bootstrap", "login"},
         ~Known(call[c].bearer.key)
  PROVE  LiveKeys(session, clock) = {}
<1>1. PICK t \in 0..clock : LiveKeys(session, t) = {}
  BY CommitCalls DEF DecisionHolds, LoginHolds
<1>2. Types /\ t \in Nat /\ clock \in Nat /\ t <= clock
  BY <1>1, ClockIsNat DEF IInv
<1>3. QED
  BY <1>1, <1>2, LiveShrinks

LEMMA RotateFindsOne ==
  ASSUME IInv, NEW c \in Conns, Commit(c), call[c].op = "rotate"
  PROVE  /\ LiveKeys(session, clock) \subseteq {call[c].current}
         /\ call[c].current \in Keys /\ Known(call[c].current)
         /\ ~session[call[c].current].revoked
         /\ session[call[c].current].generation = generation
<1>1. PICK t \in 0..clock : LiveKeys(session, t) = {call[c].current}
  BY CommitCalls DEF DecisionHolds, RotateHolds
<1>2. Types /\ t \in Nat /\ clock \in Nat /\ t <= clock
  BY <1>1, ClockIsNat DEF IInv
<1>3. LiveKeys(session, clock) \subseteq {call[c].current}
  BY <1>1, <1>2, LiveShrinks
<1>4. call[c].current \in LiveKeys(session, t)
  BY <1>1
<1>5. QED
  BY <1>3, <1>4 DEF LiveKeys, Known

\* The sessions and the lineage after a call has opened one.
LEMMA LoginKeeps ==
  ASSUME IInv, NEW c \in Conns, Commit(c), CommitSession(c),
         call[c].op \in {"bootstrap", "login"}, ~Known(call[c].bearer.key)
  PROVE  Types' /\ SessionInv' /\ OneLive' /\ LineageIsAChain'
<1> DEFINE b == call[c].bearer
           opened == Opened(b, call[c].version)
<1>1. b \in Bearers /\ b.key \in Keys /\ b.iat < b.exp /\ b \in BearerRecords
  BY CommitCalls, BearerFacts DEF IInv, ArgsInv, Decided
<1>2. call[c].version = generation /\ generation \in Generations
  BY CommitCalls DEF DecisionHolds, LoginHolds, IInv, Types
<1>3. /\ opened \in Sessions /\ opened.generation = generation /\ ~opened.revoked
      /\ opened.iat = b.iat /\ opened.exp = b.exp /\ opened # NoSession
  BY <1>1, <1>2, OpenedIsASession
<1>4. /\ session' = [session EXCEPT ![b.key] = opened] /\ successor' = successor
      /\ rights' = rights /\ generation' = generation /\ activated' = activated
      /\ clock' = clock
  BY CommitCalls DEF CommitSession, Result, account
<1> HIDE DEF opened
<1>5. session \in [Keys -> Sessions \cup {NoSession}]
  BY DEF IInv, Types
<1>6. /\ session' \in [Keys -> Sessions \cup {NoSession}] /\ session'[b.key] = opened
      /\ \A k \in Keys \ {b.key} : session'[k] = session[k]
  BY <1>1, <1>3, <1>4, <1>5
<1>7. Types'
  BY <1>4, <1>6, CommitCalls DEF IInv, Types
<1>8. SessionInv'
  <2>1. generation <= generation
    BY <1>2 DEF Generations
  <2>2. QED
    BY <1>1, <1>3, <1>4, <1>6, <2>1 DEF IInv, SessionInv, Known
<1>9. OneLive'
  <2>1. \A k \in Keys : k \in LiveKeys(session, clock)' => k = b.key
    BY <1>4, <1>6, LoginFindsNone DEF LiveKeys
  <2>2. LiveKeys(session, clock)' \subseteq Keys
    BY DEF LiveKeys
  <2>3. QED
    BY <2>1, <2>2 DEF OneLive
<1>10. LineageIsAChain'
  <2>1. successor[b.key] = NoKey
    BY <1>1 DEF IInv, LineageIsAChain
  <2>2. \A k \in Keys : successor[k] # NoKey => successor[k] # b.key /\ successor[k] \in Keys
    BY DEF IInv, LineageIsAChain, Types
  <2>3. QED
    BY <1>4, <1>6, <2>1, <2>2 DEF IInv, LineageIsAChain, Known
<1>11. QED
  BY <1>7, <1>8, <1>9, <1>10

LEMMA RotateKeeps ==
  ASSUME IInv, NEW c \in Conns, Commit(c), CommitSession(c),
         call[c].op = "rotate", call[c].current # call[c].bearer.key
  PROVE  Types' /\ SessionInv' /\ OneLive' /\ LineageIsAChain'
<1> DEFINE b == call[c].bearer
           cur == call[c].current
           opened == Opened(b, call[c].version)
           ended == [session[cur] EXCEPT !.revoked = TRUE]
<1>1. b \in Bearers /\ b.key \in Keys /\ b.iat < b.exp /\ b \in BearerRecords
  BY CommitCalls, BearerFacts DEF IInv, ArgsInv, Decided
<1>2. /\ call[c].version = generation /\ generation \in Generations
      /\ ~Known(b.key) /\ session[cur].iat < b.iat
  BY CommitCalls DEF DecisionHolds, RotateHolds, IInv, Types
<1>3. /\ opened \in Sessions /\ opened.generation = generation /\ ~opened.revoked
      /\ opened.iat = b.iat /\ opened.exp = b.exp /\ opened # NoSession
  BY <1>1, <1>2, OpenedIsASession
<1>4. /\ LiveKeys(session, clock) \subseteq {cur} /\ cur \in Keys /\ Known(cur)
      /\ ~session[cur].revoked /\ session[cur].generation = generation
  BY RotateFindsOne
<1>5. session \in [Keys -> Sessions \cup {NoSession}] /\ session[cur] \in Sessions
      /\ successor \in [Keys -> Keys \cup {NoKey}]
  BY <1>4, SessionFacts DEF IInv, Types
<1>6. /\ ended \in Sessions /\ ended.revoked /\ ended # NoSession
      /\ ended.generation = session[cur].generation
      /\ ended.iat = session[cur].iat /\ ended.exp = session[cur].exp
  <2>1. ended \in Sessions /\ ended.revoked
        /\ ended.generation = session[cur].generation
        /\ ended.iat = session[cur].iat /\ ended.exp = session[cur].exp
    BY <1>5 DEF Sessions
  <2>2. QED
    BY <2>1, SentinelsAssumption
<1>7. /\ session' = [session EXCEPT ![cur] = ended, ![b.key] = opened]
      /\ successor' = [successor EXCEPT ![cur] = b.key]
      /\ rights' = rights /\ generation' = generation /\ activated' = activated
      /\ clock' = clock
  BY <1>5, CommitCalls DEF CommitSession, Result, account
<1> HIDE DEF opened, ended
<1>8. /\ session' \in [Keys -> Sessions \cup {NoSession}]
      /\ session'[b.key] = opened /\ session'[cur] = ended
      /\ \A k \in Keys \ {b.key, cur} : session'[k] = session[k]
  BY <1>1, <1>3, <1>4, <1>5, <1>6, <1>7
<1>9. /\ successor' \in [Keys -> Keys \cup {NoKey}] /\ successor'[cur] = b.key
      /\ \A k \in Keys \ {cur} : successor'[k] = successor[k]
  BY <1>1, <1>4, <1>5, <1>7
<1>10. Types'
  BY <1>7, <1>8, <1>9, CommitCalls DEF IInv, Types
<1>11. SessionInv'
  <2>1. generation <= generation
    BY <1>2 DEF Generations
  <2>2. session[cur].iat < session[cur].exp
    BY <1>4 DEF IInv, SessionInv
  <2>3. ASSUME NEW k \in Keys, Known(k)'
        PROVE  session'[k].iat < session'[k].exp /\ session'[k].generation <= generation
    <3>1. CASE k = b.key
      BY <1>1, <1>3, <1>8, <2>1, <3>1
    <3>2. CASE k = cur
      BY <1>4, <1>6, <1>8, <2>1, <2>2, <3>2
    <3>3. CASE k \notin {b.key, cur}
      BY <1>8, <2>3, <3>3 DEF IInv, SessionInv, Known
    <3>4. QED
      BY <3>1, <3>2, <3>3
  <2>4. QED
    BY <1>7, <2>3 DEF SessionInv
<1>12. OneLive'
  <2>1. ASSUME NEW k \in Keys, k \in LiveKeys(session, clock)' PROVE k = b.key
    BY <1>4, <1>6, <1>7, <1>8, <2>1 DEF LiveKeys
  <2>2. LiveKeys(session, clock)' \subseteq Keys
    BY DEF LiveKeys
  <2>3. QED
    BY <2>1, <2>2 DEF OneLive
<1>13. LineageIsAChain'
  <2>1. successor[b.key] = NoKey /\ successor[cur] = NoKey
    BY <1>1, <1>2, <1>4 DEF IInv, LineageIsAChain
  <2>2. \A k \in Keys : successor[k] # NoKey => successor[k] # b.key /\ successor[k] \in Keys
    BY <1>2, <1>5 DEF IInv, LineageIsAChain
  <2>3. ASSUME NEW k \in Keys, successor'[k] # NoKey
        PROVE  /\ Known(k)' /\ Known(successor[k])'
               /\ session'[k].revoked
               /\ session'[k].generation = session'[successor'[k]].generation
               /\ session'[k].iat < session'[successor'[k]].iat
               /\ \A l \in Keys : successor'[l] = successor'[k] => l = k
    <3>1. CASE k = cur
      <4>1. successor'[k] = b.key /\ session'[k] = ended /\ session'[b.key] = opened
        BY <1>8, <1>9, <3>1
      <4>2. Known(k)' /\ Known(successor[k])'
        BY <1>3, <1>6, <4>1 DEF Known
      <4>3. \A l \in Keys : successor'[l] = b.key => l = cur
        BY <1>1, <1>9, <2>2, SentinelsAssumption
      <4>4. QED
        BY <1>2, <1>3, <1>4, <1>6, <3>1, <4>1, <4>2, <4>3
    <3>2. CASE k # cur
      <4>1. successor'[k] = successor[k] /\ k # b.key /\ successor[k] # b.key
            /\ successor[k] \in Keys
        BY <1>9, <2>1, <2>2, <2>3, <3>2
      <4>2. /\ Known(k) /\ Known(successor[k]) /\ session[k].revoked
            /\ session[k].generation = session[successor[k]].generation
            /\ session[k].iat < session[successor[k]].iat
            /\ \A l \in Keys : successor[l] = successor[k] => l = k
        BY <2>3, <4>1 DEF IInv, LineageIsAChain
      <4>3. session'[k] = session[k]
        BY <1>8, <3>2, <4>1
      <4>4. /\ session'[successor[k]].iat = session[successor[k]].iat
            /\ session'[successor[k]].generation = session[successor[k]].generation
            /\ session'[successor[k]] # NoSession
        <5>1. CASE successor[k] = cur
          BY <1>6, <1>8, <5>1
        <5>2. CASE successor[k] # cur
          <6>1. session'[successor[k]] = session[successor[k]]
            BY <1>8, <4>1, <5>2
          <6>2. QED
            BY <4>2, <6>1 DEF Known
        <5>3. QED
          BY <5>1, <5>2
      <4>5. \A l \in Keys : successor'[l] = successor'[k] => l = k
        BY <1>9, <4>1, <4>2
      <4>6. QED
        BY <4>1, <4>2, <4>3, <4>4, <4>5 DEF Known
    <3>3. QED
      BY <3>1, <3>2
  <2>4. QED
    BY <2>3 DEF LineageIsAChain, Known
<1>14. QED
  BY <1>10, <1>11, <1>12, <1>13

LEMMA LogoutKeeps ==
  ASSUME IInv, NEW c \in Conns, Commit(c), CommitSession(c), call[c].op = "logout"
  PROVE  IInv'
<1> DEFINE key == call[c].bearer.key
           ended == [session[key] EXCEPT !.revoked = TRUE]
<1>1. key \in Keys /\ Known(key)
  BY CommitCalls, BearerFacts DEF IInv, ArgsInv, Decided, DecisionHolds, LogoutHolds, OwnSession
<1>2. session \in [Keys -> Sessions \cup {NoSession}] /\ session[key] \in Sessions
  BY <1>1, SessionFacts DEF IInv, Types
<1>3. /\ ended \in Sessions /\ ended.revoked /\ ended # NoSession
      /\ ended.generation = session[key].generation
      /\ ended.iat = session[key].iat /\ ended.exp = session[key].exp
  <2>1. ended \in Sessions /\ ended.revoked
        /\ ended.generation = session[key].generation
        /\ ended.iat = session[key].iat /\ ended.exp = session[key].exp
    BY <1>2 DEF Sessions
  <2>2. QED
    BY <2>1, SentinelsAssumption
<1>4. /\ session' = [session EXCEPT ![key] = ended] /\ successor' = successor
      /\ rights' = rights /\ generation' = generation /\ activated' = activated
      /\ clock' = clock
  BY <1>2, CommitCalls DEF CommitSession, Result, account
<1> HIDE DEF ended
<1>5. /\ session' \in [Keys -> Sessions \cup {NoSession}] /\ session'[key] = ended
      /\ \A k \in Keys \ {key} : session'[k] = session[k]
  BY <1>1, <1>2, <1>3, <1>4
<1>6. \A k \in Keys :
        /\ Known(k)' = Known(k)
        /\ Known(k) => /\ session'[k].generation = session[k].generation
                       /\ session'[k].iat = session[k].iat /\ session'[k].exp = session[k].exp
                       /\ session[k].revoked => session'[k].revoked
  BY <1>1, <1>3, <1>5 DEF Known
<1>7. Types' /\ SessionInv'
  BY <1>4, <1>5, <1>6, CommitCalls DEF IInv, Types, SessionInv
<1>8. OneLive'
  <2>1. LiveKeys(session, clock)' \subseteq LiveKeys(session, clock)
    BY <1>4, <1>6 DEF LiveKeys, Known
  <2>2. QED
    BY <2>1 DEF IInv, OneLive
<1>9. LineageIsAChain'
  <2>1. \A k \in Keys : successor[k] # NoKey => successor[k] \in Keys
    BY DEF IInv, Types
  <2>2. ASSUME NEW k \in Keys, successor[k] # NoKey
        PROVE  /\ Known(k)' /\ Known(successor[k])'
               /\ session'[k].revoked
               /\ session'[k].generation = session'[successor[k]].generation
               /\ session'[k].iat < session'[successor[k]].iat
               /\ \A l \in Keys : successor[l] = successor[k] => l = k
    <3>1. /\ Known(k) /\ Known(successor[k]) /\ session[k].revoked
          /\ session[k].generation = session[successor[k]].generation
          /\ session[k].iat < session[successor[k]].iat
          /\ \A l \in Keys : successor[l] = successor[k] => l = k
      BY <2>2 DEF IInv, LineageIsAChain
    <3>2. Known(successor[k])'
      BY <1>4, <1>6, <2>1, <2>2, <3>1 DEF Known
    <3>3. QED
      BY <1>6, <2>1, <2>2, <3>1, <3>2
  <2>3. QED
    BY <1>4, <2>2 DEF LineageIsAChain, Known
<1>10. ASSUME NEW d \in Conns \ {c}, Locked(d)
       PROVE  /\ call[d].op \in {"logout", "command"} /\ call[d].bearer \in Bearers
              /\ call[d].bearer.key \in Keys /\ call'[d] = call[d]
  <2>1. ~Exclusive(d) /\ call[d].at # "idle"
    BY <1>10, CommitCalls DEF IInv, PrincipalLocks, HoldsPrincipal, Locked
  <2>2. call[d].op \in {"logout", "command"}
    BY <2>1 DEF Exclusive, PrincipalMode
  <2>3. call[d].bearer \in Bearers
    BY <2>1, <2>2 DEF IInv, ArgsInv
  <2>4. QED
    BY <2>2, <2>3, BearerFacts, CommitCalls
<1>11. SessionLocks'
  <2>1. \A d, e \in Conns : d # e /\ call'[d].rows \cap call'[e].rows # {} =>
          Compatible(SessionMode(call'[d].op), SessionMode(call'[e].op))
    BY CommitCalls DEF IInv, SessionLocks
  <2>2. \A d \in Conns : ~Locked(d)' => call'[d].rows = {}
    BY CommitCalls DEF IInv, SessionLocks, Locked
  <2>3. ASSUME NEW d \in Conns, Locked(d)', ~Exclusive(d)', Known(call[d].bearer.key)'
        PROVE  call'[d].bearer.key \in call'[d].rows
    <3>1. d # c /\ Locked(d) /\ ~Exclusive(d) /\ call'[d] = call[d]
      BY <2>3, CommitCalls DEF Locked, Exclusive
    <3>2. call[d].bearer.key \in Keys
      BY <1>10, <3>1
    <3>3. Known(call[d].bearer.key)
      BY <1>6, <2>3, <3>1, <3>2 DEF Known
    <3>4. QED
      BY <3>1, <3>3 DEF IInv, SessionLocks
  <2>4. QED
    BY <2>1, <2>2, <2>3 DEF SessionLocks, Known
<1>12. DecisionInv'
  <2>1. ASSUME NEW d \in Conns \ {c}, Decided(d) PROVE DecisionHolds(d)'
    <3>1. Locked(d) /\ DecisionHolds(d)
      BY <2>1 DEF Decided, Locked, IInv, DecisionInv
    <3>2. /\ call[d].op \in {"logout", "command"} /\ call[d].bearer.key \in Keys
          /\ call'[d] = call[d]
      BY <1>10, <3>1
    <3>3. CASE call[d].op = "logout"
      <4>1. LogoutHolds(d)'
        BY <1>4, <1>6, <2>1, <3>1, <3>2, <3>3 DEF DecisionHolds, LogoutHolds, OwnSession,
           Known, InWindow
      <4>2. QED
        BY <3>2, <3>3, <4>1 DEF DecisionHolds, ActivateHolds, AuthorityHolds, LoginHolds,
           RotateHolds, FenceHolds
    <3>4. CASE call[d].op = "command"
      <4>1. FenceHolds(d) /\ Known(call[d].bearer.key)
        BY <2>1, <3>1, <3>4 DEF DecisionHolds, FenceHolds
      <4>2. call[d].bearer.key \in call[d].rows
        BY <3>1, <3>4, <4>1 DEF IInv, SessionLocks, Exclusive, PrincipalMode
      <4>3. key \in call[c].rows
        BY <1>1, CommitCalls DEF IInv, SessionLocks, Exclusive, PrincipalMode
      <4>4. call[d].bearer.key # key
        BY <4>2, <4>3 DEF IInv, SessionLocks, Compatible, SessionMode
      <4>5. session'[call[d].bearer.key] = session[call[d].bearer.key]
        BY <1>5, <3>2, <4>4
      <4>6. FenceHolds(d)'
        BY <1>4, <3>2, <4>1, <4>5 DEF FenceHolds, Known
      <4>7. QED
        BY <3>2, <3>4, <4>6 DEF DecisionHolds, ActivateHolds, AuthorityHolds, LoginHolds,
           RotateHolds, LogoutHolds
    <3>5. QED
      BY <3>2, <3>3, <3>4
  <2>2. \A d \in Conns \ {c} : Decided(d)' = Decided(d)
    BY CommitCalls DEF Decided
  <2>3. QED
    BY <2>1, <2>2, CommitCalls DEF DecisionInv, DecisionHolds
<1>13. QED
  BY <1>7, <1>8, <1>9, <1>11, <1>12, CommitCalls DEF IInv

LEMMA CommitKeeps ==
  ASSUME IInv, NEW c \in Conns, Commit(c)
  PROVE  IInv'
<1> DEFINE fresh == ~Known(call[c].bearer.key)
<1>1. CASE CommitActivate(c) \/ CommitAuthority(c)
  BY <1>1, CommitAccountKeeps
<1>2. CASE CommitSession(c) /\ call[c].op \in {"bootstrap", "login"} /\ fresh
  BY <1>2, LoginKeeps, AloneCommits, CommitCalls DEF IInv, Exclusive, PrincipalMode
<1>3. CASE CommitSession(c) /\ call[c].op = "rotate" /\ call[c].current # call[c].bearer.key
  BY <1>3, RotateKeeps, AloneCommits, CommitCalls DEF IInv, Exclusive, PrincipalMode
<1>4. CASE CommitSession(c) /\ call[c].op = "logout"
  BY <1>4, LogoutKeeps
<1>5. CASE UNCHANGED registry
  BY <1>5, QuietStep, CommitCalls, RestIsACall DEF Rest
<1>6. CASE \/ CommitCommand(c)
           \/ CommitSession(c) /\ call[c].op \in {"bootstrap", "login"} /\ ~fresh
           \/ CommitSession(c) /\ call[c].op = "rotate" /\ call[c].current = call[c].bearer.key
  <2>1. UNCHANGED <<account, session, successor>>
    BY <1>6 DEF CommitCommand, CommitSession, Result
  <2>2. QED
    BY <1>5, <2>1, CommitCalls DEF registry
<1>7. QED
  BY <1>1, <1>2, <1>3, <1>4, <1>6 DEF Commit, CommitSession

------------------------------------------------------------------------------
(* The theorems *)

LEMMA InitHolds == Init => IInv
<1>1. SUFFICES ASSUME Init PROVE IInv
  OBVIOUS
<1>2. Types
  <2>1. rights \in Rights
    BY <1>1 DEF Init, Rights, Disabled
  <2>2. clock \in 0..MaxTime /\ generation \in Generations
    BY <1>1, GenerationsAssumption DEF Init, Generations
  <2>3. QED
    BY <1>1, <2>1, <2>2, RestIsACall DEF Init, Types
<1>3. \A c \in Conns : call[c].at = "idle" /\ call[c].rows = {}
  BY <1>1 DEF Init, Rest
<1>4. \A k \in Keys : ~Known(k) /\ successor[k] = NoKey
  BY <1>1 DEF Init, Known
<1>5. SessionInv /\ OneLive /\ LineageIsAChain
  BY <1>4 DEF SessionInv, OneLive, LineageIsAChain, LiveKeys, Known
<1>6. ArgsInv /\ PrincipalLocks /\ SessionLocks /\ DecisionInv
  BY <1>3 DEF ArgsInv, PrincipalLocks, SessionLocks, DecisionInv, DecisionHolds, Decided,
     HoldsPrincipal, Locked
<1>7. QED
  BY <1>2, <1>5, <1>6 DEF IInv

LEMMA NextHolds == IInv /\ [Next]_vars => IInv'
<1>1. SUFFICES ASSUME IInv, [Next]_vars PROVE IInv'
  OBVIOUS
<1>2. ASSUME NEW c \in Conns,
             \/ Begin(c) \/ LockPrincipal(c) \/ LockSessions(c)
             \/ DecideStep(c) \/ Finish(c) \/ Commit(c) \/ Abort(c)
      PROVE  IInv'
  BY <1>1, <1>2, BeginKeeps, LockPrincipalKeeps, LockSessionsKeeps, DecideKeeps, FinishKeeps,
     CommitKeeps, AbortKeeps
<1>3. CASE Tick
  BY <1>1, <1>3, TickKeeps
<1>4. CASE UNCHANGED vars
  BY <1>1, <1>4 DEF vars, registry, account, IInv, Types, SessionInv, OneLive, ArgsInv,
     PrincipalLocks, SessionLocks, DecisionInv, LineageIsAChain, LiveKeys, Known,
     HoldsPrincipal, Exclusive, Locked, DecisionHolds, Decided, ActivateHolds,
     AuthorityHolds, LoginHolds, RotateHolds, LogoutHolds, FenceHolds, Admitted, OwnSession
<1>5. QED
  BY <1>1, <1>2, <1>3, <1>4 DEF Next

\* The inductive invariant, for any interleaving of the transactions of one account.
THEOREM Invariance == Spec => []IInv
BY InitHolds, NextHolds, PTL DEF Spec

\* Every variable keeps its type, and no session has an empty lifetime.
THEOREM TypesHold == Spec => []TypeOK
<1>1. IInv => TypeOK
  BY DEF IInv, Types, SessionInv, TypeOK
<1>2. QED
  BY <1>1, Invariance, PTL

\* No interleaving of logins, rotations, logouts and authority changes leaves two
\* live sessions in the current generation.
THEOREM OneLiveSession == Spec => []SingleLiveSession
<1>1. IInv => SingleLiveSession
  <2>1. SUFFICES ASSUME IInv PROVE SingleLiveSession
    OBVIOUS
  <2>2. CASE LiveKeys(session, clock) = {}
    BY <2>2, FS_EmptySet DEF SingleLiveSession
  <2>3. CASE LiveKeys(session, clock) # {}
    <3>1. PICK k : k \in LiveKeys(session, clock)
      BY <2>3
    <3>2. LiveKeys(session, clock) = {k}
      BY <2>1, <3>1 DEF IInv, OneLive
    <3>3. QED
      BY <3>2, FS_Singleton DEF SingleLiveSession
  <2>4. QED
    BY <2>2, <2>3
<1>2. QED
  BY <1>1, Invariance, PTL

\* A command that passed the fence is authorized until its transaction ends.
THEOREM FenceIsHeld == Spec => []FencedUntilCommit
<1>1. IInv => FencedUntilCommit
  BY DEF IInv, DecisionInv, DecisionHolds, Decided, FenceHolds, FencedUntilCommit
<1>2. QED
  BY <1>1, Invariance, PTL

\* The lineage of rotations is a chain of revoked, ever newer bearers.
THEOREM LineageHolds == Spec => []LineageIsAChain
<1>1. IInv => LineageIsAChain
  BY DEF IInv
<1>2. QED
  BY <1>1, Invariance, PTL

\* Whatever set of calls one takes, one of them waits for none of the others: a
\* call that has its session rows, else one at the session rows, else any.
THEOREM LocksNeverCycle == Spec => []NoDeadlock
<1>1. IInv => NoDeadlock
  <2>1. SUFFICES ASSUME IInv, NEW waiting \in SUBSET Conns, waiting # {}
                 PROVE  \E c \in waiting : \A d \in waiting : ~Blocks(d, c)
    BY DEF NoDeadlock
  <2>2. CASE \E c \in waiting : call[c].at \notin {"principal", "session"}
    BY <2>2 DEF Blocks
  <2>3. CASE \A c \in waiting : call[c].at \in {"principal", "session"}
    <3>1. \A c \in waiting : call[c].rows = {}
      BY <2>1, <2>3 DEF IInv, SessionLocks, Locked
    <3>2. CASE \E c \in waiting : call[c].at = "session"
      BY <3>1, <3>2 DEF Blocks
    <3>3. CASE \A c \in waiting : call[c].at = "principal"
      BY <2>1, <3>1, <3>3 DEF Blocks, HoldsPrincipal
    <3>4. QED
      BY <2>3, <3>2, <3>3
  <2>4. QED
    BY <2>2, <2>3
<1>2. QED
  BY <1>1, Invariance, PTL

\* An authority change is applied only to the generation its caller saw.
THEOREM AuthorityIsNotLost == Spec => NoLostAuthority
<1>1. IInv /\ [Next]_vars =>
        [\A c \in Conns :
           call[c].at = "commit" /\ call[c].op = "authority" /\ rights' # rights =>
             generation = call[c].version]_vars
  BY DEF IInv, DecisionInv, DecisionHolds, Decided, AuthorityHolds
<1>2. QED
  BY <1>1, Invariance, PTL DEF Spec, NoLostAuthority

------------------------------------------------------------------------------
(* The transactions of an account implement its session policy, and never  *)
(* return to an older bearer: what the steps do, where everything above    *)
(* is about what the states are.                                           *)

LEMMA LiveIsLive ==
  ASSUME NEW k \in Keys, NEW t
  PROVE  Policy!Live(k, t) <=> k \in LiveKeys(session, t)
BY DEF Policy!Live, LiveKeys

LEMMA OpenedIsOpened ==
  ASSUME NEW b
  PROVE  Opened(b, generation) = Policy!Opened(b)
BY DEF Opened, Policy!Opened

\* A rotation ends its current session and opens its own; nothing else moves.
LEMMA RotateWrites ==
  ASSUME IInv, NEW c \in Conns, Commit(c), CommitSession(c),
         call[c].op = "rotate", call[c].current # call[c].bearer.key
  PROVE  LET b == call[c].bearer
             cur == call[c].current IN
         /\ b \in Bearers /\ b.key \in Keys
         /\ ~Known(b.key) /\ session[cur].iat < b.iat
         /\ session' = [session EXCEPT ![cur].revoked = TRUE, ![b.key] = Opened(b, generation)]
         /\ successor' = [successor EXCEPT ![cur] = b.key]
         /\ UNCHANGED <<clock, account>>
<1>1. call[c].bearer \in Bearers /\ call[c].bearer.key \in Keys
  BY CommitCalls, BearerFacts DEF IInv, ArgsInv, Decided
<1>2. /\ call[c].version = generation /\ ~Known(call[c].bearer.key)
      /\ session[call[c].current].iat < call[c].bearer.iat
  BY CommitCalls DEF DecisionHolds, RotateHolds
<1>3. QED
  BY <1>1, <1>2, CommitCalls DEF CommitSession, Result

LEMMA LoginWrites ==
  ASSUME IInv, NEW c \in Conns, Commit(c), CommitSession(c),
         call[c].op \in {"bootstrap", "login"}, ~Known(call[c].bearer.key)
  PROVE  LET b == call[c].bearer IN
         /\ b \in Bearers /\ b.key \in Keys
         /\ session' = [session EXCEPT ![b.key] = Opened(b, generation)]
         /\ UNCHANGED <<clock, account, successor>>
<1>1. call[c].bearer \in Bearers /\ call[c].bearer.key \in Keys
  BY CommitCalls, BearerFacts DEF IInv, ArgsInv, Decided
<1>2. call[c].version = generation
  BY CommitCalls DEF DecisionHolds, LoginHolds
<1>3. QED
  BY <1>1, <1>2, CommitCalls DEF CommitSession, Result

LEMMA LogoutWrites ==
  ASSUME IInv, NEW c \in Conns, Commit(c), CommitSession(c), call[c].op = "logout"
  PROVE  LET b == call[c].bearer IN
         /\ b \in Bearers /\ b.key \in Keys
         /\ session' = [session EXCEPT ![b.key].revoked = TRUE]
         /\ UNCHANGED <<clock, account, successor>>
<1>1. call[c].bearer \in Bearers /\ call[c].bearer.key \in Keys
  BY CommitCalls, BearerFacts DEF IInv, ArgsInv, Decided
<1>2. QED
  BY <1>1, CommitCalls DEF CommitSession, Result

\* The five kinds of step a registry can see.
Steps(c) ==
  \/ UNCHANGED registry
  \/ Commit(c) /\ (CommitActivate(c) \/ CommitAuthority(c))
  \/ /\ Commit(c) /\ CommitSession(c)
     /\ call[c].op \in {"bootstrap", "login"} /\ ~Known(call[c].bearer.key)
  \/ /\ Commit(c) /\ CommitSession(c)
     /\ call[c].op = "rotate" /\ call[c].current # call[c].bearer.key
  \/ Commit(c) /\ CommitSession(c) /\ call[c].op = "logout"

LEMMA NextSteps ==
  ASSUME IInv, [Next]_vars
  PROVE  UNCHANGED registry \/ Tick \/ \E c \in Conns : Steps(c)
<1>1. ASSUME NEW c \in Conns, Commit(c) PROVE Steps(c)
  <2>1. CASE \/ CommitCommand(c)
             \/ /\ CommitSession(c)
                /\ \/ call[c].op \in {"bootstrap", "login"} /\ Known(call[c].bearer.key)
                   \/ call[c].op = "rotate" /\ call[c].current = call[c].bearer.key
    <3>1. UNCHANGED <<account, session, successor>>
      BY <2>1 DEF CommitCommand, CommitSession, Result
    <3>2. QED
      BY <1>1, <3>1, CommitCalls DEF Steps, registry
  <2>2. QED
    BY <1>1, <2>1 DEF Commit, CommitSession, Steps
<1>2. ASSUME NEW c \in Conns, Begin(c) \/ DecideStep(c)
      PROVE  UNCHANGED registry
  <2>1. CASE Begin(c)
    BY <2>1 DEF Begin, BeginActivate, BeginAuthority, BeginSession, BeginCommand, Start
  <2>2. CASE DecideStep(c)
    BY <2>2 DEF DecideStep, Activate, ChangeAuthority, Bootstrap, RepeatLogin, Rotate, Logout,
       Fence, Pass
  <2>3. QED
    BY <1>2, <2>1, <2>2
<1>3. ASSUME NEW c \in Conns, LockPrincipal(c) \/ LockSessions(c) \/ Finish(c) \/ Abort(c)
      PROVE  UNCHANGED registry
  BY <1>3 DEF LockPrincipal, LockSessions, Finish, Abort
<1>4. UNCHANGED vars => UNCHANGED registry
  BY DEF vars
<1>5. QED
  BY <1>1, <1>2, <1>3, <1>4 DEF Next

------------------------------------------------------------------------------
(* No return to an older bearer *)

LEMMA StepsNeverRollBack ==
  ASSUME IInv, [Next]_vars,
         NEW k \in Keys, NEW l \in Keys, k # l,
         k \in LiveKeys(session, clock), l \in LiveKeys(session, clock)'
  PROVE  session[k].iat < session'[l].iat
<1>1. Types /\ clock \in Nat
  BY ClockIsNat DEF IInv
<1>2. l \notin LiveKeys(session, clock)
  BY DEF IInv, OneLive
<1>3. Known(k) /\ session \in [Keys -> Sessions \cup {NoSession}]
  BY <1>1 DEF LiveKeys, Known, Types
<1>4. CASE UNCHANGED registry
  BY <1>2, <1>4 DEF registry, account, LiveKeys
<1>5. CASE Tick
  <2>1. LiveKeys(session, clock)' = LiveKeys(session, clock + 1)
    BY <1>5 DEF Tick, account, LiveKeys
  <2>2. QED
    BY <1>1, <1>2, <2>1, LiveShrinks
<1>6. ASSUME NEW c \in Conns, Commit(c), CommitActivate(c) \/ CommitAuthority(c)
      PROVE  FALSE
  <2>1. session' = session /\ generation' = generation + 1
    BY <1>6 DEF CommitActivate, CommitAuthority
  <2>2. Known(l) /\ session[l].generation = generation + 1
    BY <2>1 DEF LiveKeys, Known
  <2>3. session[l].generation <= generation /\ generation \in Nat
    BY <1>1, <2>2 DEF IInv, SessionInv, Types, Generations
  <2>4. QED
    BY <2>2, <2>3
<1>7. ASSUME NEW c \in Conns, Commit(c), CommitSession(c),
             call[c].op \in {"bootstrap", "login"}, ~Known(call[c].bearer.key)
      PROVE  FALSE
  BY <1>7, LoginFindsNone
<1>8. ASSUME NEW c \in Conns, Commit(c), CommitSession(c),
             call[c].op = "rotate", call[c].current # call[c].bearer.key
      PROVE  session[k].iat < session'[l].iat
  <2>1. k = call[c].current
    BY <1>8, RotateFindsOne
  <2>2. session'[l] = IF l = call[c].bearer.key
                      THEN Opened(call[c].bearer, generation) ELSE session[l]
    <3> DEFINE key == call[c].bearer.key
               new == Opened(call[c].bearer, generation)
               ended == [session[k] EXCEPT !.revoked = TRUE]
    <3>1. session' = [session EXCEPT ![k] = ended, ![key] = new] /\ key \in Keys
      BY <1>8, <2>1, RotateWrites
    <3>2. DOMAIN session = Keys
      BY <1>3
    <3> HIDE DEF key, new, ended
    <3>3. session'[l] = IF l = key THEN new ELSE session[l]
      BY <3>1, <3>2
    <3>4. QED
      BY <3>3 DEF key, new
  <2>3. l = call[c].bearer.key
    BY <1>2, <1>8, <2>2, RotateWrites DEF LiveKeys, account
  <2>4. session'[l].iat = call[c].bearer.iat
    BY <2>2, <2>3 DEF Opened
  <2>5. session[call[c].current].iat < call[c].bearer.iat
    BY <1>8, RotateWrites
  <2>6. QED
    BY <2>1, <2>4, <2>5
<1>9. ASSUME NEW c \in Conns, Commit(c), CommitSession(c), call[c].op = "logout"
      PROVE  FALSE
  <2>1. /\ session' = [session EXCEPT ![call[c].bearer.key].revoked = TRUE]
        /\ call[c].bearer.key \in Keys /\ UNCHANGED <<clock, generation>>
    BY <1>9, LogoutWrites DEF account
  <2>2. CASE l = call[c].bearer.key
    <3>1. Known(l)
      BY <1>9, <2>2, CommitCalls DEF DecisionHolds, LogoutHolds, OwnSession
    <3>2. session[l] \in Sessions
      BY <1>1, <3>1, SessionFacts
    <3>3. session'[l].revoked
      BY <1>3, <2>1, <2>2, <3>2 DEF Sessions
    <3>4. QED
      BY <3>3 DEF LiveKeys
  <2>3. CASE l # call[c].bearer.key
    <3>1. session'[l] = session[l]
      BY <1>3, <2>1, <2>3
    <3>2. QED
      BY <1>2, <2>1, <3>1 DEF LiveKeys
  <2>4. QED
    BY <2>2, <2>3
<1>10. QED
  BY <1>4, <1>5, <1>6, <1>7, <1>8, <1>9, NextSteps DEF Steps

\* One session never gives way to an older one while it lives, whatever calls race.
THEOREM NeverRollsBack == Spec => NoRollback
<1>1. IInv /\ [Next]_vars =>
        [\A k, l \in Keys :
           k \in LiveKeys(session, clock) /\ l \in LiveKeys(session, clock)' /\ k # l =>
             session[k].iat < session'[l].iat]_vars
  BY StepsNeverRollBack
<1>2. QED
  BY <1>1, Invariance, PTL DEF Spec, NoRollback

------------------------------------------------------------------------------
(* The refinement *)

LEMMA AccountRefines ==
  ASSUME IInv, NEW c \in Conns, Commit(c), CommitActivate(c) \/ CommitAuthority(c)
  PROVE  Policy!Next
<1>1. CASE CommitActivate(c)
  <2>1. generation = 1 /\ ~activated /\ generation' = 2
    BY <1>1, CommitCalls DEF CommitActivate, DecisionHolds, ActivateHolds
  <2>2. Policy!Activate
    BY <1>1, <2>1, CommitCalls DEF CommitActivate, Policy!Activate, Policy!ReadOnly
  <2>3. QED
    BY <2>2 DEF Policy!Next
<1>2. CASE CommitAuthority(c)
  <2>1. call[c].wanted # rights /\ call[c].wanted \in Rights
    BY <1>2, CommitCalls DEF CommitAuthority, DecisionHolds, AuthorityHolds, IInv, Types, Calls
  <2>2. Policy!ChangeAuthority(call[c].wanted)
    BY <1>2, <2>1, CommitCalls DEF CommitAuthority, Policy!ChangeAuthority
  <2>3. call[c].wanted \in Policy!Rights
    BY <2>1 DEF Rights, Policy!Rights
  <2>4. QED
    BY <2>2, <2>3 DEF Policy!Next
<1>3. QED
  BY <1>1, <1>2

LEMMA LoginRefines ==
  ASSUME IInv, NEW c \in Conns, Commit(c), CommitSession(c),
         call[c].op \in {"bootstrap", "login"}, ~Known(call[c].bearer.key)
  PROVE  Policy!Next
<1> DEFINE b == call[c].bearer
<1>1. PICK t \in 0..clock : InWindow(b, t) /\ LiveKeys(session, t) = {}
  BY CommitCalls DEF DecisionHolds, LoginHolds
<1>2. Admitted
  BY CommitCalls DEF DecisionHolds, LoginHolds
<1>3. b \in Bearers /\ b.key \in Keys /\ session[b.key] = NoSession
  BY LoginWrites DEF Known
<1>4. \A k \in Keys : ~Policy!Live(k, t)
  BY <1>1, LiveIsLive
<1>5. session' = [session EXCEPT ![b.key] = Policy!Opened(b)]
  BY LoginWrites, OpenedIsOpened
<1>6. UNCHANGED <<clock, account, successor>>
  BY LoginWrites
<1>7. Policy!Login(b, t)
  BY <1>1, <1>2, <1>3, <1>4, <1>5, <1>6 DEF Policy!Login, Policy!Admitted, Admitted,
     Policy!InWindow, InWindow, Policy!account, account
<1>8. QED
  BY <1>3, <1>7 DEF Policy!Next

LEMMA RotateRefines ==
  ASSUME IInv, NEW c \in Conns, Commit(c), CommitSession(c),
         call[c].op = "rotate", call[c].current # call[c].bearer.key
  PROVE  Policy!Next
<1> DEFINE b == call[c].bearer
           cur == call[c].current
<1>1. PICK t \in 0..clock : InWindow(b, t) /\ LiveKeys(session, t) = {cur}
  BY CommitCalls DEF DecisionHolds, RotateHolds
<1>2. Admitted /\ cur \in Keys
  BY CommitCalls DEF DecisionHolds, RotateHolds
<1>3. /\ b \in Bearers /\ b.key \in Keys /\ session[b.key] = NoSession
      /\ session[cur].iat < b.iat
  BY RotateWrites DEF Known
<1>4. \A l \in Keys : Policy!Live(l, t) <=> l = cur
  BY <1>1, LiveIsLive
<1>5. /\ session' = [session EXCEPT ![cur].revoked = TRUE, ![b.key] = Policy!Opened(b)]
      /\ successor' = [successor EXCEPT ![cur] = b.key]
  BY RotateWrites, OpenedIsOpened
<1>6. UNCHANGED <<clock, account>>
  BY RotateWrites
<1>7. Policy!Rotate(b, t)
  BY <1>1, <1>2, <1>3, <1>4, <1>5, <1>6 DEF Policy!Rotate, Policy!Admitted, Admitted,
     Policy!InWindow, InWindow, Policy!account, account
<1>8. QED
  BY <1>3, <1>7 DEF Policy!Next

LEMMA LogoutRefines ==
  ASSUME IInv, NEW c \in Conns, Commit(c), CommitSession(c), call[c].op = "logout"
  PROVE  Policy!Next
<1> DEFINE b == call[c].bearer
<1>1. PICK t \in 0..clock : InWindow(b, t)
  BY CommitCalls DEF DecisionHolds, LogoutHolds
<1>2. OwnSession(b)
  BY CommitCalls DEF DecisionHolds, LogoutHolds
<1>3. Policy!Logout(b, t)
  BY <1>1, <1>2, LogoutWrites DEF Policy!Logout, OwnSession, Known, Policy!InWindow, InWindow,
     Policy!account, account
<1>4. QED
  BY <1>3, LogoutWrites DEF Policy!Next

LEMMA NextRefines ==
  ASSUME IInv, [Next]_vars
  PROVE  [Policy!Next]_Policy!vars
<1>1. CASE UNCHANGED registry
  BY <1>1 DEF registry, account, Policy!vars, Policy!account
<1>2. CASE Tick
  BY <1>2 DEF Tick, account, Policy!Next, Policy!Tick, Policy!account
<1>3. ASSUME NEW c \in Conns, Steps(c) PROVE [Policy!Next]_Policy!vars
  BY <1>1, <1>3, AccountRefines, LoginRefines, RotateRefines, LogoutRefines DEF Steps
<1>4. QED
  BY <1>1, <1>2, <1>3, NextSteps

\* Seen through the registry, every behaviour of the transactions is a behaviour of
\* SessionPolicy: each COMMIT is one operation of the policy.
THEOREM TransactionsImplementPolicy == Spec => ImplementsSessionPolicy
<1>1. Init => Policy!Init
  BY DEF Init, Policy!Init, Disabled, Policy!Disabled
<1>2. IInv /\ [Next]_vars => [Policy!Next]_Policy!vars
  BY NextRefines
<1>3. QED
  BY <1>1, <1>2, Invariance, PTL DEF Spec, ImplementsSessionPolicy, Policy!Spec

------------------------------------------------------------------------------
(* Calls that got their locks too late *)

\* A late call is at its decision, and what it goes by stays run out.
LateInv == late \subseteq Conns /\ \A c \in late : call[c].at = "decide" /\ RunOut(c)

\* Whatever leaves a call as it is, moves no clock back and revives no session
\* leaves it run out.
LEMMA RunOutStays ==
  ASSUME Types, ArgsInv, NEW c \in Conns, call[c].at # "idle", RunOut(c),
         call'[c].op = call[c].op, call'[c].bearer = call[c].bearer,
         clock' \in Nat, clock <= clock',
         LiveKeys(session, clock)' \subseteq LiveKeys(session, clock)
  PROVE  RunOut(c)'
<1>1. call[c].op \notin {"activate", "authority"} /\ call[c].bearer.exp \in Nat
  BY BearerFacts DEF RunOut, ArgsInv
<1>2. clock \in Nat
  BY ClockIsNat
<1>3. CASE call[c].bearer.exp <= clock
  BY <1>1, <1>2, <1>3 DEF RunOut
<1>4. CASE call[c].op = "command" /\ call[c].bearer.key \notin LiveKeys(session, clock)
  BY <1>1, <1>4 DEF RunOut
<1>5. CASE call[c].op = "rotate" /\ LiveKeys(session, clock) = {}
  BY <1>1, <1>5 DEF RunOut
<1>6. QED
  BY <1>3, <1>4, <1>5 DEF RunOut

\* No decision accepts a call that has run out.
LEMMA LateIsRefused ==
  ASSUME Types, ArgsInv, NEW c \in Conns, call[c].at = "decide", RunOut(c)
  PROVE  ~DecideStep(c)
<1>1. call[c].op \notin {"activate", "authority"} /\ call[c].bearer.exp \in Nat
  BY BearerFacts DEF RunOut, ArgsInv
<1>2. call[c].bearer.key \in Keys
  BY <1>1, BearerFacts DEF ArgsInv
<1>3. clock \in Nat
  BY ClockIsNat
<1>4. CASE call[c].bearer.exp <= clock
  <2>1. ~InWindow(call[c].bearer, clock)
    BY <1>1, <1>3, <1>4 DEF InWindow
  <2>2. QED
    BY <1>1, <2>1 DEF DecideStep, Activate, ChangeAuthority, Bootstrap, RepeatLogin, Rotate,
       Logout, Fence
<1>5. CASE call[c].op = "command" /\ call[c].bearer.key \notin LiveKeys(session, clock)
  <2>1. ~Fence(c)
    BY <1>2, <1>5 DEF Fence, Known, LiveKeys
  <2>2. QED
    BY <1>5, <2>1 DEF DecideStep, Activate, ChangeAuthority, Bootstrap, RepeatLogin, Rotate,
       Logout
<1>6. CASE call[c].op = "rotate" /\ LiveKeys(session, clock) = {}
  <2>1. ~Rotate(c)
    BY <1>6 DEF Rotate
  <2>2. QED
    BY <1>6, <2>1 DEF DecideStep, Activate, ChangeAuthority, Bootstrap, RepeatLogin, Logout,
       Fence
<1>7. QED
  BY <1>4, <1>5, <1>6 DEF RunOut

\* What commits beside a call that holds the principal revives no session.
LEMMA CommitBesideShrinks ==
  ASSUME IInv, NEW c \in Conns, NEW d \in Conns \ {c}, call[c].at = "decide", Commit(d)
  PROVE  LiveKeys(session, clock)' \subseteq LiveKeys(session, clock) /\ clock' = clock
<1>1. Types /\ clock' = clock
  BY DEF IInv, Commit
<1>2. ~Exclusive(d)
  BY DEF IInv, PrincipalLocks, HoldsPrincipal, Commit
<1>3. call[d].op \in Operations
  BY <1>1 DEF Types, Calls
<1>4. call[d].op \in {"logout", "command"}
  BY <1>2, <1>3 DEF Exclusive, PrincipalMode, Operations
<1>5. CASE call[d].op = "command"
  <2>1. UNCHANGED <<account, session>>
    BY <1>5 DEF Commit, CommitActivate, CommitAuthority, CommitSession, CommitCommand
  <2>2. QED
    BY <1>1, <2>1 DEF LiveKeys, account
<1>6. CASE call[d].op = "logout"
  <2> DEFINE key == call[d].bearer.key
             ended == [session[key] EXCEPT !.revoked = TRUE]
  <2>1. CommitSession(d)
    BY <1>6 DEF Commit, CommitActivate, CommitAuthority, CommitCommand
  <2>2. key \in Keys /\ session' = [session EXCEPT ![key] = ended] /\ generation' = generation
    BY <1>6, <2>1, LogoutWrites DEF account
  <2>3. Known(key)
    BY <1>6, CommitCalls DEF DecisionHolds, LogoutHolds, OwnSession
  <2>4. ended.revoked
    BY <1>1, <2>2, <2>3, SessionFacts DEF Sessions
  <2> HIDE DEF key, ended
  <2>5. session' \in [Keys -> {ended} \cup (Sessions \cup {NoSession})]
        /\ session'[key] = ended /\ \A k \in Keys \ {key} : session'[k] = session[k]
    BY <1>1, <2>2 DEF Types
  <2>6. QED
    BY <1>1, <2>2, <2>4, <2>5 DEF LiveKeys
<1>7. QED
  BY <1>4, <1>5, <1>6

\* A step leaves a call alone, or is the call's own.
LEMMA OwnOrBeside ==
  ASSUME Types, [Next]_vars, NEW c \in Conns
  PROVE  \/ call'[c] = call[c]
         \/ \/ Begin(c) \/ LockPrincipal(c) \/ LockSessions(c)
            \/ DecideStep(c) \/ Finish(c) \/ Commit(c) \/ Abort(c)
<1>1. CASE UNCHANGED vars \/ Tick
  BY <1>1 DEF vars, Tick
<1>2. ASSUME NEW d \in Conns \ {c},
             \/ Begin(d) \/ LockPrincipal(d) \/ LockSessions(d)
             \/ DecideStep(d) \/ Finish(d) \/ Commit(d) \/ Abort(d)
      PROVE  call'[c] = call[c]
  <2>1. \E new : call' = [call EXCEPT ![d] = new]
    <3>1. CASE Begin(d)
      BY <3>1 DEF Begin, BeginActivate, BeginAuthority, BeginSession, BeginCommand, Start
    <3>2. CASE DecideStep(d)
      BY <3>2 DEF DecideStep, Activate, ChangeAuthority, Bootstrap, RepeatLogin, Rotate,
         Logout, Fence, Pass
    <3>3. CASE LockPrincipal(d) \/ LockSessions(d) \/ Finish(d) \/ Commit(d) \/ Abort(d)
      BY <3>3 DEF LockPrincipal, LockSessions, Finish, Commit, Abort
    <3>4. QED
      BY <1>2, <3>1, <3>2, <3>3
  <2>2. QED
    BY <1>2, <2>1 DEF Types
<1>3. QED
  BY <1>1, <1>2 DEF Next

LEMMA LateKeeps ==
  ASSUME IInv, IInv', LateInv, [NextExpiry]_<<vars, late>>
  PROVE  LateInv'
<1>1. Types /\ ArgsInv /\ clock \in Nat /\ clock' \in Nat
  <2>1. Types /\ ArgsInv /\ Types'
    BY DEF IInv
  <2>2. clock' \in 0..MaxTime
    BY <2>1 DEF Types
  <2>3. QED
    BY <2>1, <2>2, ClockIsNat, GenerationsAssumption
<1>2. [Next]_vars
  BY DEF NextExpiry
<1>3. UNCHANGED registry => LiveKeys(session, clock)' = LiveKeys(session, clock)
  BY DEF registry, account, LiveKeys
<1>4. ASSUME NEW c \in Conns, c \in late, call'[c].at # "idle"
      PROVE  call'[c].at = "decide" /\ RunOut(c)'
  <2>1. call[c].at = "decide" /\ RunOut(c)
    BY <1>4 DEF LateInv
  <2>2. call'[c] = call[c]
    <3>1. ~Begin(c)
      BY <2>1 DEF Begin, BeginActivate, BeginAuthority, BeginSession, BeginCommand, Start
    <3>2. ~LockPrincipal(c) /\ ~LockSessions(c) /\ ~Finish(c) /\ ~Commit(c)
      BY <2>1 DEF LockPrincipal, LockSessions, Finish, Commit
    <3>3. ~DecideStep(c)
      BY <1>1, <2>1, LateIsRefused
    <3>4. ~Abort(c)
      BY <1>1, <1>4 DEF Abort, Types, Rest
    <3>5. QED
      BY <1>1, <1>2, <3>1, <3>2, <3>3, <3>4, OwnOrBeside
  <2>3. clock <= clock' /\ LiveKeys(session, clock)' \subseteq LiveKeys(session, clock)
    <3>1. CASE UNCHANGED registry
      BY <1>1, <1>3, <3>1 DEF registry
    <3>2. CASE Tick
      <4>1. LiveKeys(session, clock)' = LiveKeys(session, clock + 1) /\ clock' = clock + 1
        BY <3>2 DEF Tick, account, LiveKeys
      <4>2. QED
        BY <1>1, <4>1, LiveShrinks
    <3>3. ASSUME NEW d \in Conns, Commit(d)
          PROVE  clock <= clock' /\ LiveKeys(session, clock)' \subseteq LiveKeys(session, clock)
      <4>1. d # c
        BY <2>1, <3>3 DEF Commit
      <4>2. QED
        BY <1>1, <2>1, <3>3, <4>1, CommitBesideShrinks
    <3>4. QED
      BY <1>2, <3>1, <3>2, <3>3, NextSteps DEF Steps
  <2>4. RunOut(c)'
    BY <1>1, <2>1, <2>2, <2>3, RunOutStays
  <2>5. QED
    BY <2>1, <2>2, <2>4
<1>5. ASSUME NEW c \in Conns, Granted(c), RunOut(c)
      PROVE  call'[c].at = "decide" /\ RunOut(c)'
  <2>1. call[c].at = "session" /\ call'[c].at = "decide"
    BY <1>5 DEF Granted
  <2>2. LockSessions(c)
    <3>1. ~Begin(c)
      BY <2>1 DEF Begin, BeginActivate, BeginAuthority, BeginSession, BeginCommand, Start
    <3>2. ~LockPrincipal(c) /\ ~Finish(c) /\ ~Commit(c)
      BY <2>1 DEF LockPrincipal, Finish, Commit
    <3>3. ~DecideStep(c)
      BY <2>1 DEF DecideStep, Activate, ChangeAuthority, Bootstrap, RepeatLogin, Rotate,
         Logout, Fence
    <3>4. ~Abort(c)
      BY <1>1, <2>1 DEF Abort, Types, Rest
    <3>5. QED
      BY <1>1, <1>2, <2>1, <3>1, <3>2, <3>3, <3>4, OwnOrBeside
  <2>3. call'[c].op = call[c].op /\ call'[c].bearer = call[c].bearer /\ UNCHANGED registry
    BY <1>1, <2>2 DEF LockSessions, Types, Calls
  <2>4. clock <= clock' /\ LiveKeys(session, clock)' \subseteq LiveKeys(session, clock)
    BY <1>1, <1>3, <2>3 DEF registry
  <2>5. RunOut(c)'
    BY <1>1, <1>5, <2>1, <2>3, <2>4, RunOutStays
  <2>6. QED
    BY <2>1, <2>5
<1>6. CASE NextExpiry
  BY <1>4, <1>5, <1>6 DEF NextExpiry, LateInv
<1>7. CASE UNCHANGED <<vars, late>>
  <2>1. call' = call /\ late' = late /\ UNCHANGED registry
    BY <1>7 DEF vars
  <2>2. ASSUME NEW c \in late PROVE call'[c].at = "decide" /\ RunOut(c)'
    BY <1>4, <2>1, <2>2 DEF LateInv
  <2>3. QED
    BY <2>1, <2>2 DEF LateInv
<1>8. QED
  BY <1>6, <1>7

\* A call whose bearer or session ran out while it waited for its locks never
\* reaches its COMMIT, whoever else commits, ends sessions or moves the clock on.
THEOREM LateCallsEnd == SpecExpiry => []LateNeverCommits
<1>1. SpecExpiry => Spec
  <2>1. InitExpiry => Init
    BY DEF InitExpiry
  <2>2. [NextExpiry]_<<vars, late>> => [Next]_vars
    BY DEF NextExpiry
  <2>3. QED
    BY <2>1, <2>2, PTL DEF SpecExpiry, Spec
<1>2. InitExpiry => LateInv
  BY DEF InitExpiry, LateInv
<1>3. IInv /\ IInv' /\ LateInv /\ [NextExpiry]_<<vars, late>> => LateInv'
  BY LateKeeps
<1>4. LateInv => LateNeverCommits
  BY DEF LateInv, LateNeverCommits
<1>5. QED
  BY <1>1, <1>2, <1>3, <1>4, Invariance, PTL DEF SpecExpiry
==============================================================================
