-------------------------- MODULE ServicePool_proofs --------------------------
(***************************************************************************)
(* The safety of the service pools for any number of callers, connections, *)
(* drifts, settings and administrator's changes, and each of the policies. *)
(***************************************************************************)
EXTENDS ServicePool, TLAPS

------------------------------------------------------------------------------
(* The inductive invariant *)

CleanConn(c) ==
  /\ tx[c] = "IDLE" /\ role[c] = "service" /\ dirty[c] = {}
  /\ foreign[c] \intersect service.settings = {}

\* Between a reset and the next body a live session is clean.
Cleaned ==
  /\ \A c \in idle : live[c] => CleanConn(c)
  /\ \A l \in Callers :
       pc[l] \in {"validate", "begin", "put"} /\ live[held[l]] => CleanConn(held[l])

\* The checks of the entry that have passed saw none of the drifts that stood.
Checked ==
  \A l \in Callers : \A k \in 1..Len(service.checks) :
    (\/ pc[l] = "validate" /\ phase[l] = "entry" /\ k < step[l]
     \/ pc[l] \in {"begin", "body"})
      => standing[l] \intersect service.checks[k].sees = {}

ExitErrors == {"none", "BODY_ERROR", "DRIVER_ERROR", "POOL_RESET_FAILED",
               "LEASE_TRANSACTION_CHANGED", "LEASE_ROLE_CHANGED"}

\* What a caller's error says of its writes, from the body to the answer.
Phases ==
  \A l \in Callers :
    /\ pc[l] \in {"new", "waiting", "begin", "body"} => phase[l] = "entry"
    /\ phase[l] = "entry" /\ pc[l] \in {"put", "done"} => error[l] # "none"
    /\ phase[l] = "exit" => error[l] \in ExitErrors

Writes ==
  \A l \in Callers :
    /\ phase[l] = "entry" /\ pc[l] # "body" => l \notin wrote
    /\ phase[l] = "exit" /\ error[l] = "none" /\ l \in wrote => l \in durable
    /\ pc[l] = "body" /\ live[held[l]] /\ tx[held[l]] # "INERROR" /\ l \in wrote
         => l \in durable \union dirty[held[l]]

\* The types, by kind.
PlainErrors == {"none", "BODY_ERROR", "DRIVER_ERROR"} \union PoolErrors
Errors == PlainErrors \union DriftErrors(service)
States == {"new", "waiting", "reset", "validate", "begin", "body", "put", "done"}

PoolTypes ==
  /\ service \in Pools /\ pool \in {"new", "open", "closed"} /\ idle \subseteq Conns
  /\ catalog \subseteq Drifts /\ defaults \subseteq Settings /\ changes \in 0..MaxChanges

SessionTypes ==
  /\ live \in [Conns -> BOOLEAN] /\ tx \in [Conns -> {"IDLE", "INTRANS", "INERROR"}]
  /\ role \in [Conns -> {"service", "runtime"}]
  /\ foreign \in [Conns -> SUBSET Settings] /\ startup \in [Conns -> SUBSET Settings]

WriteTypes ==
  dirty \in [Conns -> SUBSET Callers] /\ wrote \subseteq Callers /\ durable \subseteq Callers

LeaseTypes ==
  /\ pc \in [Callers -> States] /\ held \in [Callers -> Conns \union {NoConn}]
  /\ phase \in [Callers -> {"entry", "exit"}]
  /\ standing \in [Callers -> SUBSET catalog]

StepTypes == step \in [Callers -> 1..Len(service.checks)]
ErrorTypes == error \in [Callers -> Errors]

IInv == TypeOK /\ LentOnce /\ Cleaned /\ Checked /\ Phases /\ Writes

------------------------------------------------------------------------------
(* The policies *)

DriftNames ==
  {"ROLE_POLICY_DRIFT", "ROLE_MEMBERSHIP_DRIFT", "DIRECT_TABLE_PRIVILEGE_DRIFT",
   "FUNCTION_PRIVILEGE_DRIFT", "SERVICE_PRIVILEGE_DRIFT", "GUARD_TABLE_POLICY_DRIFT",
   "GUARD_COLUMN_POLICY_DRIFT", "FUNCTION_CONFIG_DRIFT"}

WellNamed(checks) ==
  /\ Len(checks) \in Nat \ {0}
  /\ \A k \in 1..Len(checks) : checks[k].error \in DriftNames

\* The kinds together are the types, before a step and after it.
LEMMA TypesSplit ==
  /\ TypeOK <=> PoolTypes /\ SessionTypes /\ WriteTypes /\ LeaseTypes /\ StepTypes /\ ErrorTypes
  /\ TypeOK' <=> /\ PoolTypes' /\ SessionTypes' /\ WriteTypes' /\ LeaseTypes' /\ StepTypes'
                 /\ ErrorTypes'
  BY DEF TypeOK, PoolTypes, SessionTypes, WriteTypes, LeaseTypes, StepTypes, ErrorTypes, Errors,
         PlainErrors, States

\* The errors of the checks that the policies are built from.
LEMMA ChecksAreNamed ==
  /\ \A roles : /\ Flags(roles).error \in DriftNames /\ Members(roles).error \in DriftNames
                /\ Edges(roles).error \in DriftNames
  /\ \A schemas : /\ Tables(schemas).error \in DriftNames /\ Functions(schemas).error \in DriftNames
                  /\ Direct(schemas).error \in DriftNames
  /\ \A schemas, owners : CreateIn(schemas, owners).error \in DriftNames
  /\ GuardTables.error \in DriftNames /\ GuardColumns.error \in DriftNames
  /\ SealedOwner.error \in DriftNames /\ SealedConfig.error \in DriftNames
  <1>1. \A e, kind, places : Check(e, kind, places).error = e
    BY DEF Check
  <1>2. ASSUME NEW roles PROVE Edges(roles).error = "ROLE_MEMBERSHIP_DRIFT"
    <2>1. \A e, s : [error |-> e, sees |-> s].error = e
      OBVIOUS
    <2> QED BY <2>1, Zenon DEF Edges
  <1>3. \A places : Create(places).error \in DriftNames
    BY <1>1 DEF Create, DriftNames
  <1>4. \A schemas, owners : CreateIn(schemas, owners).error \in DriftNames
    BY <1>3, Zenon DEF CreateIn
  <1> QED BY <1>1, <1>2, <1>4 DEF DriftNames, Flags, Members, Tables, Functions, Direct,
             GuardTables, GuardColumns, SealedOwner, SealedConfig

\* Every policy has a first check, and every check an error of its own kind.
LEMMA PoliciesAreNamed == \A s \in Services : WellNamed(s.checks)
  <1>1. WellNamed(OwnerRead.checks)
    <2>1. OwnerRead.checks = OwnerReadAuthority
      BY DEF OwnerRead, Service
    <2>2. WellNamed(OwnerReadAuthority)
      BY ChecksAreNamed DEF OwnerReadAuthority, WellNamed
    <2> QED BY <2>1, <2>2
  <1>2. WellNamed(Writer.checks)
    <2>1. Writer.checks = WriterAuthority
      BY DEF Writer, Service
    <2>2. WellNamed(WriterAuthority)
      BY ChecksAreNamed DEF WriterAuthority, WellNamed
    <2> QED BY <2>1, <2>2
  <1>3. WellNamed(Registry.checks)
    <2>1. Registry.checks = RegistryAuthority
      BY DEF Registry, Service
    <2>2. WellNamed(RegistryAuthority)
      BY ChecksAreNamed DEF RegistryAuthority, WellNamed
    <2> QED BY <2>1, <2>2
  <1>4. WellNamed(Mutation.checks)
    <2>1. Mutation.checks = MutationAuthority
      BY DEF Mutation, Service
    <2>2. WellNamed(MutationAuthority)
      BY ChecksAreNamed DEF MutationAuthority, WellNamed
    <2> QED BY <2>1, <2>2
  <1>5. WellNamed(AccountLink.checks)
    <2>1. AccountLink.checks = AccountLinkAuthority
      BY DEF AccountLink, Service
    <2>2. WellNamed(AccountLinkAuthority)
      BY ChecksAreNamed DEF AccountLinkAuthority, WellNamed
    <2> QED BY <2>1, <2>2
  <1>6. WellNamed(Principal.checks)
    <2>1. Principal.checks = PrincipalAuthority
      BY DEF Principal, Service
    <2>2. WellNamed(PrincipalAuthority)
      BY ChecksAreNamed DEF PrincipalAuthority, WellNamed
    <2> QED BY <2>1, <2>2
  <1>7. WellNamed(FirstSession.checks)
    <2>1. FirstSession.checks = FirstSessionAuthority
      BY DEF FirstSession, Service
    <2>2. WellNamed(FirstSessionAuthority)
      BY ChecksAreNamed DEF FirstSessionAuthority, WellNamed
    <2> QED BY <2>1, <2>2
  <1>8. WellNamed(Logout.checks)
    <2>1. Logout.checks = LogoutAuthority
      BY DEF Logout, Service
    <2>2. WellNamed(LogoutAuthority)
      BY ChecksAreNamed DEF LogoutAuthority, WellNamed
    <2> QED BY <2>1, <2>2
  <1>9. WellNamed(RepeatLogin.checks)
    <2>1. RepeatLogin.checks = RepeatLoginAuthority
      BY DEF RepeatLogin, Service
    <2>2. WellNamed(RepeatLoginAuthority)
      BY ChecksAreNamed DEF RepeatLoginAuthority, WellNamed
    <2> QED BY <2>1, <2>2
  <1>10. WellNamed(Rotation.checks)
    <2>1. Rotation.checks = RotationAuthority
      BY DEF Rotation, Service
    <2>2. WellNamed(RotationAuthority)
      BY ChecksAreNamed DEF RotationAuthority, WellNamed
    <2> QED BY <2>1, <2>2
  <1> QED BY <1>1, <1>2, <1>3, <1>4, <1>5, <1>6, <1>7, <1>8, <1>9, <1>10 DEF Services

\* The policy a pool runs.
LEMMA PolicyFacts ==
  ASSUME service \in Pools
  PROVE  /\ Len(service.checks) \in Nat \ {0}
         /\ \A k \in 1..Len(service.checks) :
              service.checks[k].error \in DriftErrors(service) \intersect DriftNames
         /\ DriftErrors(service) \subseteq DriftNames
  BY PoliciesAreNamed, ServiceAssumption DEF WellNamed, DriftErrors

\* What a lease leaves alone, and where its connection is.
LEMMA LeaseFacts ==
  ASSUME TypeOK, LentOnce, NEW l \in Callers, Lease(l)
  PROVE  /\ UNCHANGED <<service, catalog, defaults, changes, pool>>
         /\ pc[l] \notin {"new", "waiting", "done"} => held[l] \in Conns
         /\ Errors' = Errors /\ PlainErrors \subseteq Errors
  <1>1. UNCHANGED <<service, catalog, defaults, changes, pool>>
    BY DEF Lease, Wait, Unavailable, Clean, CheckPasses, CheckFails, ResetBroken, Begin, BeginFails,
       Write, MisuseTransaction, BodyRaises, LeaseChanged, Commit, CommitUnknown, PutConn, GetIdle,
       Connect, SetSession, adminVars
  <1>2. pc[l] \notin {"new", "waiting", "done"} => held[l] \in Conns
    BY DEF TypeOK, LentOnce
  <1>3. Errors' = Errors
    BY <1>1 DEF Errors
  <1> QED BY <1>1, <1>2, <1>3 DEF Errors

\* A lease keeps the shapes.
LEMMA TypesKept ==
  ASSUME TypeOK, LentOnce, NEW l \in Callers, Lease(l)
  PROVE  TypeOK'
  <1> USE DEF adminVars, connVars, leaseVars
  <1>a. PoolTypes /\ SessionTypes /\ WriteTypes /\ LeaseTypes /\ StepTypes /\ ErrorTypes
    BY TypesSplit
  <1>b. /\ UNCHANGED <<service, catalog, defaults, changes, pool>>
        /\ pc[l] \notin {"new", "waiting", "done"} => held[l] \in Conns
        /\ Errors' = Errors /\ PlainErrors \subseteq Errors
    BY LeaseFacts
  <1>1. CASE Wait(l)
    BY <1>1 DEF TypeOK, Wait
  <1>2. CASE Unavailable(l)
    <2>1. PoolTypes'
      BY <1>a, <1>b, <1>2 DEF Unavailable, PoolTypes
    <2>2. SessionTypes'
      BY <1>a, <1>b, <1>2 DEF Unavailable, SessionTypes, PoolTypes
    <2>3. WriteTypes'
      BY <1>a, <1>b, <1>2 DEF Unavailable, WriteTypes
    <2>4. LeaseTypes'
      BY <1>a, <1>b, <1>2 DEF Unavailable, LeaseTypes, States, PoolTypes, Waiters
    <2>5. StepTypes'
      BY <1>a, <1>b, <1>2 DEF Unavailable, StepTypes, PoolTypes
    <2>6. ErrorTypes'
      BY <1>a, <1>b, <1>2 DEF Unavailable, ErrorTypes, PlainErrors, PoolErrors, StepTypes, PoolTypes
    <2> QED BY <2>1, <2>2, <2>3, <2>4, <2>5, <2>6, TypesSplit
  <1>3. CASE Clean(l)
    <2>1. PoolTypes'
      BY <1>a, <1>b, <1>3 DEF Clean, PoolTypes
    <2>2. SessionTypes'
      BY <1>a, <1>b, <1>3 DEF Clean, SessionTypes, PoolTypes
    <2>3. WriteTypes'
      BY <1>a, <1>b, <1>3 DEF Clean, WriteTypes
    <2>4. LeaseTypes'
      BY <1>a, <1>b, <1>3 DEF Clean, LeaseTypes, States, PoolTypes, Waiters
    <2>5. StepTypes'
      BY <1>a, <1>b, <1>3, PolicyFacts DEF Clean, StepTypes, PoolTypes
    <2>6. ErrorTypes'
      BY <1>a, <1>b, <1>3, PolicyFacts DEF Clean, ErrorTypes, PlainErrors, PoolErrors, StepTypes,
         PoolTypes
    <2> QED BY <2>1, <2>2, <2>3, <2>4, <2>5, <2>6, TypesSplit
  <1>4. CASE CheckPasses(l)
    <2>1. PoolTypes'
      BY <1>a, <1>b, <1>4 DEF CheckPasses, PoolTypes
    <2>2. SessionTypes'
      BY <1>a, <1>b, <1>4 DEF CheckPasses, SessionTypes, PoolTypes
    <2>3. WriteTypes'
      BY <1>a, <1>b, <1>4 DEF CheckPasses, WriteTypes
    <2>4. LeaseTypes'
      BY <1>a, <1>b, <1>4 DEF CheckPasses, LeaseTypes, States, PoolTypes, Waiters
    <2>5. StepTypes'
      BY <1>a, <1>b, <1>4, PolicyFacts DEF CheckPasses, StepTypes, PoolTypes
    <2>6. ErrorTypes'
      BY <1>a, <1>b, <1>4, PolicyFacts DEF CheckPasses, ErrorTypes, PlainErrors, PoolErrors,
         StepTypes, PoolTypes
    <2> QED BY <2>1, <2>2, <2>3, <2>4, <2>5, <2>6, TypesSplit
  <1>5. CASE CheckFails(l)
    <2>1. PoolTypes'
      BY <1>a, <1>b, <1>5 DEF CheckFails, Fails, PoolTypes
    <2>2. SessionTypes'
      BY <1>a, <1>b, <1>5 DEF CheckFails, Fails, SessionTypes, PoolTypes
    <2>3. WriteTypes'
      BY <1>a, <1>b, <1>5 DEF CheckFails, Fails, WriteTypes
    <2>4. LeaseTypes'
      BY <1>a, <1>b, <1>5 DEF CheckFails, Fails, LeaseTypes, States, PoolTypes, Waiters
    <2>5. StepTypes'
      BY <1>a, <1>b, <1>5, PolicyFacts DEF CheckFails, Fails, StepTypes, PoolTypes
    <2>6. ErrorTypes'
      BY <1>a, <1>b, <1>5, PolicyFacts DEF CheckFails, Fails, ErrorTypes, PlainErrors, PoolErrors,
         StepTypes, PoolTypes,
         Errors
    <2> QED BY <2>1, <2>2, <2>3, <2>4, <2>5, <2>6, TypesSplit
  <1>6. CASE ResetBroken(l)
    <2>1. PoolTypes'
      BY <1>a, <1>b, <1>6 DEF ResetBroken, Fails, PoolTypes
    <2>2. SessionTypes'
      BY <1>a, <1>b, <1>6 DEF ResetBroken, Fails, SessionTypes, PoolTypes
    <2>3. WriteTypes'
      BY <1>a, <1>b, <1>6 DEF ResetBroken, Fails, WriteTypes
    <2>4. LeaseTypes'
      BY <1>a, <1>b, <1>6 DEF ResetBroken, Fails, LeaseTypes, States, PoolTypes, Waiters
    <2>5. StepTypes'
      BY <1>a, <1>b, <1>6 DEF ResetBroken, Fails, StepTypes, PoolTypes
    <2>6. ErrorTypes'
      BY <1>a, <1>b, <1>6 DEF ResetBroken, Fails, ErrorTypes, PlainErrors, PoolErrors, StepTypes,
         PoolTypes
    <2> QED BY <2>1, <2>2, <2>3, <2>4, <2>5, <2>6, TypesSplit
  <1>7. CASE Begin(l)
    BY <1>7 DEF TypeOK, Begin
  <1>8. CASE BeginFails(l)
    BY <1>8 DEF TypeOK, BeginFails, Leave
  <1>9. CASE Write(l)
    BY <1>9 DEF TypeOK, Write, Running
  <1>10. CASE MisuseTransaction(l)
    <2>1. PoolTypes'
      BY <1>a, <1>b, <1>10 DEF MisuseTransaction, Running, PoolTypes
    <2>2. SessionTypes'
      BY <1>a, <1>b, <1>10 DEF MisuseTransaction, Running, SessionTypes, PoolTypes
    <2>3. WriteTypes'
      BY <1>a, <1>b, <1>10 DEF MisuseTransaction, Running, WriteTypes
    <2>4. LeaseTypes'
      BY <1>a, <1>b, <1>10 DEF MisuseTransaction, Running, LeaseTypes, States, PoolTypes, Waiters
    <2>5. StepTypes'
      BY <1>a, <1>b, <1>10 DEF MisuseTransaction, Running, StepTypes, PoolTypes
    <2>6. ErrorTypes'
      BY <1>a, <1>b, <1>10 DEF MisuseTransaction, Running, ErrorTypes, PlainErrors, PoolErrors,
         StepTypes, PoolTypes
    <2> QED BY <2>1, <2>2, <2>3, <2>4, <2>5, <2>6, TypesSplit
  <1>11. CASE BodyRaises(l)
    BY <1>11 DEF TypeOK, BodyRaises, Leave
  <1>12. CASE LeaseChanged(l)
    <2>1. PoolTypes'
      BY <1>a, <1>b, <1>12 DEF LeaseChanged, Leave, PoolTypes
    <2>2. SessionTypes'
      BY <1>a, <1>b, <1>12 DEF LeaseChanged, Leave, SessionTypes, PoolTypes
    <2>3. WriteTypes'
      BY <1>a, <1>b, <1>12 DEF LeaseChanged, Leave, WriteTypes
    <2>4. LeaseTypes'
      BY <1>a, <1>b, <1>12 DEF LeaseChanged, Leave, LeaseTypes, States, PoolTypes, Waiters
    <2>5. StepTypes'
      BY <1>a, <1>b, <1>12 DEF LeaseChanged, Leave, StepTypes, PoolTypes
    <2>6. ErrorTypes'
      BY <1>a, <1>b, <1>12 DEF LeaseChanged, Leave, ErrorTypes, PlainErrors, PoolErrors, StepTypes,
         PoolTypes
    <2> QED BY <2>1, <2>2, <2>3, <2>4, <2>5, <2>6, TypesSplit
  <1>13. CASE Commit(l)
    <2>1. PoolTypes'
      BY <1>a, <1>b, <1>13 DEF Commit, Leave, Running, PoolTypes
    <2>2. SessionTypes'
      BY <1>a, <1>b, <1>13 DEF Commit, Leave, Running, SessionTypes, PoolTypes
    <2>3. WriteTypes'
      BY <1>a, <1>b, <1>13 DEF Commit, Leave, Running, WriteTypes
    <2>4. LeaseTypes'
      BY <1>a, <1>b, <1>13 DEF Commit, Leave, Running, LeaseTypes, States, PoolTypes, Waiters
    <2>5. StepTypes'
      BY <1>a, <1>b, <1>13 DEF Commit, Leave, Running, StepTypes, PoolTypes
    <2>6. ErrorTypes'
      BY <1>a, <1>b, <1>13 DEF Commit, Leave, Running, ErrorTypes, PlainErrors, PoolErrors,
         StepTypes, PoolTypes
    <2> QED BY <2>1, <2>2, <2>3, <2>4, <2>5, <2>6, TypesSplit
  <1>14. CASE CommitUnknown(l)
    <2>1. PoolTypes'
      BY <1>a, <1>b, <1>14 DEF CommitUnknown, Leave, Running, PoolTypes
    <2>2. SessionTypes'
      BY <1>a, <1>b, <1>14 DEF CommitUnknown, Leave, Running, SessionTypes, PoolTypes
    <2>3. WriteTypes'
      BY <1>a, <1>b, <1>14 DEF CommitUnknown, Leave, Running, WriteTypes
    <2>4. LeaseTypes'
      BY <1>a, <1>b, <1>14 DEF CommitUnknown, Leave, Running, LeaseTypes, States, PoolTypes, Waiters
    <2>5. StepTypes'
      BY <1>a, <1>b, <1>14 DEF CommitUnknown, Leave, Running, StepTypes, PoolTypes
    <2>6. ErrorTypes'
      BY <1>a, <1>b, <1>14 DEF CommitUnknown, Leave, Running, ErrorTypes, PlainErrors, PoolErrors,
         StepTypes, PoolTypes
    <2> QED BY <2>1, <2>2, <2>3, <2>4, <2>5, <2>6, TypesSplit
  <1>15. CASE PutConn(l)
    <2>1. PoolTypes'
      BY <1>a, <1>b, <1>15 DEF PutConn, PoolTypes
    <2>2. SessionTypes'
      BY <1>a, <1>b, <1>15 DEF PutConn, SessionTypes, PoolTypes
    <2>3. WriteTypes'
      BY <1>a, <1>b, <1>15 DEF PutConn, WriteTypes
    <2>4. LeaseTypes'
      BY <1>a, <1>b, <1>15 DEF PutConn, LeaseTypes, States, PoolTypes, Waiters
    <2>5. StepTypes'
      BY <1>a, <1>b, <1>15 DEF PutConn, StepTypes, PoolTypes
    <2>6. ErrorTypes'
      BY <1>a, <1>b, <1>15 DEF PutConn, ErrorTypes, PlainErrors, PoolErrors, StepTypes, PoolTypes
    <2> QED BY <2>1, <2>2, <2>3, <2>4, <2>5, <2>6, TypesSplit
  <1>16. CASE \E c \in Conns : GetIdle(l, c)
    BY <1>16 DEF TypeOK, GetIdle, Lend
  <1>17. CASE \E c \in Conns : Connect(l, c)
    BY <1>17 DEF TypeOK, Connect, Lend, Free
  <1>18. CASE \E s \in Settings : SetSession(l, s)
    <2>1. PoolTypes'
      BY <1>a, <1>b, <1>18 DEF SetSession, Running, PoolTypes
    <2>2. SessionTypes'
      BY <1>a, <1>b, <1>18 DEF SetSession, Running, SessionTypes, PoolTypes
    <2>3. WriteTypes'
      BY <1>a, <1>b, <1>18 DEF SetSession, Running, WriteTypes
    <2>4. LeaseTypes'
      BY <1>a, <1>b, <1>18 DEF SetSession, Running, LeaseTypes, States, PoolTypes, Waiters
    <2>5. StepTypes'
      BY <1>a, <1>b, <1>18 DEF SetSession, Running, StepTypes, PoolTypes
    <2>6. ErrorTypes'
      BY <1>a, <1>b, <1>18 DEF SetSession, Running, ErrorTypes, PlainErrors, PoolErrors, StepTypes,
         PoolTypes
    <2> QED BY <2>1, <2>2, <2>3, <2>4, <2>5, <2>6, TypesSplit
  <1> QED BY <1>1, <1>2, <1>3, <1>4, <1>5, <1>6, <1>7, <1>8, <1>9, <1>10, <1>11, <1>12, <1>13,
        <1>14, <1>15, <1>16, <1>17, <1>18 DEF Lease
\* A connection is lent to one caller, and given back by it.
LEMMA LendingKept ==
  ASSUME IInv, NEW l \in Callers, Lease(l)
  PROVE  LentOnce'
  <1> USE DEF adminVars, connVars, leaseVars
  <1>a. /\ TypeOK /\ LentOnce /\ UNCHANGED service
        /\ pc[l] \notin {"new", "waiting", "done"} => held[l] \in Conns
    BY LeaseFacts DEF IInv
  <1>b. IInv
    BY DEF IInv
  <1>1. CASE Wait(l)
    BY <1>a, <1>b, <1>1, ServiceAssumption DEF Wait, TypeOK, LentOnce, Waiters
  <1>2. CASE Unavailable(l)
    BY <1>a, <1>b, <1>2, ServiceAssumption DEF Unavailable, TypeOK, LentOnce, Waiters
  <1>3. CASE Clean(l)
    BY <1>a, <1>b, <1>3, ServiceAssumption DEF Clean, TypeOK, LentOnce, Waiters
  <1>4. CASE CheckPasses(l)
    BY <1>a, <1>b, <1>4, ServiceAssumption DEF CheckPasses, TypeOK, LentOnce, Waiters
  <1>5. CASE CheckFails(l)
    BY <1>a, <1>b, <1>5, ServiceAssumption DEF CheckFails, Fails, TypeOK, LentOnce, Waiters
  <1>6. CASE ResetBroken(l)
    BY <1>a, <1>b, <1>6, ServiceAssumption DEF ResetBroken, Fails, TypeOK, LentOnce, Waiters
  <1>7. CASE Begin(l)
    BY <1>a, <1>b, <1>7, ServiceAssumption DEF Begin, TypeOK, LentOnce, Waiters
  <1>8. CASE BeginFails(l)
    BY <1>a, <1>b, <1>8, ServiceAssumption DEF BeginFails, Leave, TypeOK, LentOnce, Waiters
  <1>9. CASE Write(l)
    BY <1>a, <1>b, <1>9, ServiceAssumption DEF Write, Running, TypeOK, LentOnce, Waiters
  <1>10. CASE MisuseTransaction(l)
    BY <1>a, <1>b, <1>10, ServiceAssumption DEF MisuseTransaction, Running, TypeOK, LentOnce,
       Waiters
  <1>11. CASE BodyRaises(l)
    BY <1>a, <1>b, <1>11, ServiceAssumption DEF BodyRaises, Leave, TypeOK, LentOnce, Waiters
  <1>12. CASE LeaseChanged(l)
    BY <1>a, <1>b, <1>12, ServiceAssumption DEF LeaseChanged, Leave, TypeOK, LentOnce, Waiters
  <1>13. CASE Commit(l)
    BY <1>a, <1>b, <1>13, ServiceAssumption DEF Commit, Leave, Running, TypeOK, LentOnce, Waiters
  <1>14. CASE CommitUnknown(l)
    BY <1>a, <1>b, <1>14, ServiceAssumption DEF CommitUnknown, Leave, Running, TypeOK, LentOnce,
       Waiters
  <1>15. CASE PutConn(l)
    <2> DEFINE c == held[l]
    <2>1. c \in Conns /\ pc[l] = "put"
      BY <1>a, <1>15 DEF PutConn
    <2>2. UNCHANGED <<service, tx, role, foreign, startup, dirty, phase, step, error, wrote,
                      durable, standing>>
      BY <1>15 DEF PutConn
    <2>3. CASE /\ live[c] /\ idle' = idle \union {c} /\ live' = live
               /\ pc' = [pc EXCEPT ![l] = "done"] /\ held' = [held EXCEPT ![l] = NoConn]
      BY <1>a, <1>b, ServiceAssumption, <2>1, <2>2, <2>3 DEF TypeOK, LentOnce
    <2>4. ASSUME NEW w \in Waiters, idle' = idle, live' = live,
                 pc' = [pc EXCEPT ![l] = "done", ![w] = "reset"],
                 held' = [held EXCEPT ![l] = NoConn, ![w] = c]
          PROVE  LentOnce'
      <3>1. w \in Callers /\ w # l /\ pc[w] = "waiting" /\ held[w] = NoConn
        BY <1>a, <2>1, <2>4 DEF Waiters, LentOnce
      <3> QED BY <1>a, <1>b, ServiceAssumption, <2>1, <2>2, <2>4, <3>1 DEF TypeOK, LentOnce
    <2>5. CASE /\ idle' = idle /\ live' = [live EXCEPT ![c] = FALSE]
               /\ pc' = [pc EXCEPT ![l] = "done"] /\ held' = [held EXCEPT ![l] = NoConn]
      BY <1>a, <1>b, ServiceAssumption, <2>1, <2>2, <2>5 DEF TypeOK, LentOnce
    <2> QED BY <1>15, <2>3, <2>4, <2>5 DEF PutConn
  <1>16. CASE \E c \in Conns : GetIdle(l, c)
    BY <1>a, <1>b, <1>16, ServiceAssumption DEF GetIdle, Lend, TypeOK, LentOnce, Waiters
  <1>17. CASE \E c \in Conns : Connect(l, c)
    BY <1>a, <1>b, <1>17, ServiceAssumption DEF Connect, Lend, Free, TypeOK, LentOnce, Waiters
  <1>18. CASE \E s \in Settings : SetSession(l, s)
    BY <1>a, <1>b, <1>18, ServiceAssumption DEF SetSession, Running, TypeOK, LentOnce, Waiters
  <1> QED BY <1>1, <1>2, <1>3, <1>4, <1>5, <1>6, <1>7, <1>8, <1>9, <1>10, <1>11, <1>12, <1>13,
        <1>14, <1>15, <1>16, <1>17, <1>18 DEF Lease

\* What follows a reset leaves the session clean.
LEMMA CleaningKept ==
  ASSUME IInv, NEW l \in Callers, Lease(l)
  PROVE  Cleaned'
  <1> USE DEF adminVars, connVars, leaseVars
  <1>a. /\ TypeOK /\ LentOnce /\ UNCHANGED service
        /\ pc[l] \notin {"new", "waiting", "done"} => held[l] \in Conns
    BY LeaseFacts DEF IInv
  <1>b. Cleaned /\ IInv
    BY DEF IInv
  <1>1. CASE Wait(l)
    BY <1>a, <1>b, <1>1 DEF Wait, TypeOK, LentOnce, Cleaned, CleanConn
  <1>2. CASE Unavailable(l)
    BY <1>a, <1>b, <1>2 DEF Unavailable, TypeOK, LentOnce, Cleaned, CleanConn
  <1>3. CASE Clean(l)
    BY <1>a, <1>b, <1>3 DEF Clean, TypeOK, LentOnce, Cleaned, CleanConn
  <1>4. CASE CheckPasses(l)
    BY <1>a, <1>b, <1>4 DEF CheckPasses, TypeOK, LentOnce, Cleaned, CleanConn
  <1>5. CASE CheckFails(l)
    BY <1>a, <1>b, <1>5 DEF CheckFails, Fails, TypeOK, LentOnce, Cleaned, CleanConn
  <1>6. CASE ResetBroken(l)
    BY <1>a, <1>b, <1>6 DEF ResetBroken, Fails, TypeOK, LentOnce, Cleaned, CleanConn
  <1>7. CASE Begin(l)
    <2>1. pc[l] = "begin" /\ held[l] \in Conns
      BY <1>a, <1>7 DEF Begin
    <2>2. held[l] \notin idle /\ UNCHANGED <<service, idle, live, held, foreign>>
      BY <1>a, <1>7 DEF Begin, LentOnce
    <2>3. \A k \in Callers : pc'[k] \in {"validate", "begin", "put"} =>
            pc'[k] = pc[k] /\ held[k] \in Conns /\ held[k] # held[l]
      BY <1>a, <1>7, <2>1 DEF Begin, TypeOK, LentOnce
    <2>4. \A x \in Conns : x # held[l] => tx'[x] = tx[x] /\ role'[x] = role[x]
                                          /\ dirty'[x] = dirty[x]
      BY <1>a, <1>7, <2>1 DEF Begin, TypeOK
    <2>5. idle \subseteq Conns
      BY <1>a DEF TypeOK
    <2> QED BY <1>b, <2>1, <2>2, <2>3, <2>4, <2>5 DEF Cleaned, CleanConn
  <1>8. CASE BeginFails(l)
    BY <1>a, <1>b, <1>8 DEF BeginFails, Leave, TypeOK, LentOnce, Cleaned, CleanConn
  <1>9. CASE Write(l)
    BY <1>a, <1>b, <1>9 DEF Write, Running, TypeOK, LentOnce, Cleaned, CleanConn
  <1>10. CASE MisuseTransaction(l)
    <2>1. pc[l] = "body" /\ held[l] \in Conns
      BY <1>a, <1>10 DEF MisuseTransaction, Running
    <2>2. held[l] \notin idle /\ UNCHANGED <<service, idle, live, held, foreign>>
      BY <1>a, <1>10 DEF MisuseTransaction, LentOnce
    <2>3. \A k \in Callers : pc'[k] \in {"validate", "begin", "put"} =>
            pc'[k] = pc[k] /\ held[k] \in Conns /\ held[k] # held[l]
      BY <1>a, <1>10, <2>1 DEF MisuseTransaction, TypeOK, LentOnce
    <2>4. \A x \in Conns : x # held[l] => tx'[x] = tx[x] /\ role'[x] = role[x]
                                          /\ dirty'[x] = dirty[x]
      BY <1>a, <1>10, <2>1 DEF MisuseTransaction, TypeOK
    <2>5. idle \subseteq Conns
      BY <1>a DEF TypeOK
    <2> QED BY <1>b, <2>1, <2>2, <2>3, <2>4, <2>5 DEF Cleaned, CleanConn
  <1>11. CASE BodyRaises(l)
    BY <1>a, <1>b, <1>11 DEF BodyRaises, Leave, TypeOK, LentOnce, Cleaned, CleanConn
  <1>12. CASE LeaseChanged(l)
    <2>1. PICK e \in {"LEASE_TRANSACTION_CHANGED", "LEASE_ROLE_CHANGED"} : Leave(l, e)
      BY <1>12 DEF LeaseChanged
    <2>2. /\ pc[l] = "body"
          /\ UNCHANGED <<service, idle, live, foreign, startup, held, step, wrote, durable,
                         standing>>
      BY <1>12 DEF LeaseChanged
    <2> QED BY <1>a, <1>b, <2>1, <2>2 DEF Leave, TypeOK, LentOnce, Cleaned, CleanConn
  <1>13. CASE Commit(l)
    BY <1>a, <1>b, <1>13 DEF Commit, Leave, Running, TypeOK, LentOnce, Cleaned, CleanConn
  <1>14. CASE CommitUnknown(l)
    BY <1>a, <1>b, <1>14 DEF CommitUnknown, Leave, Running, TypeOK, LentOnce, Cleaned, CleanConn
  <1>15. CASE PutConn(l)
    <2> DEFINE c == held[l]
    <2>1. c \in Conns /\ pc[l] = "put"
      BY <1>a, <1>15 DEF PutConn
    <2>2. UNCHANGED <<service, tx, role, foreign, startup, dirty, phase, step, error, wrote,
                      durable, standing>>
      BY <1>15 DEF PutConn
    <2>3. CASE /\ live[c] /\ idle' = idle \union {c} /\ live' = live
               /\ pc' = [pc EXCEPT ![l] = "done"] /\ held' = [held EXCEPT ![l] = NoConn]
      BY <1>a, <1>b, <2>1, <2>2, <2>3 DEF TypeOK, LentOnce, Cleaned, CleanConn
    <2>4. ASSUME NEW w \in Waiters, idle' = idle, live' = live,
                 pc' = [pc EXCEPT ![l] = "done", ![w] = "reset"],
                 held' = [held EXCEPT ![l] = NoConn, ![w] = c]
          PROVE  Cleaned'
      <3>1. w \in Callers /\ w # l /\ pc[w] = "waiting" /\ held[w] = NoConn
        BY <1>a, <2>1, <2>4 DEF Waiters, LentOnce
      <3>2. \A k \in Callers : pc'[k] \in {"validate", "begin", "put"} =>
              pc'[k] = pc[k] /\ held'[k] = held[k]
        BY <1>a, <2>1, <2>4, <3>1 DEF TypeOK
      <3>3. \A x \in idle' : live'[x] => CleanConn(x)'
        BY <1>b, <2>2, <2>4 DEF Cleaned, CleanConn
      <3>4. ASSUME NEW k \in Callers, pc'[k] \in {"validate", "begin", "put"}, live'[held'[k]]
            PROVE  CleanConn(held[k])'
        <4>1. pc[k] \in {"validate", "begin", "put"} /\ held'[k] = held[k] /\ live[held[k]]
          BY <2>4, <3>2, <3>4
        <4>2. CleanConn(held[k])
          BY <1>b, <4>1 DEF Cleaned
        <4> QED BY <2>2, <4>1, <4>2 DEF CleanConn
      <3> QED BY <3>3, <3>4 DEF Cleaned
    <2>5. CASE /\ idle' = idle /\ live' = [live EXCEPT ![c] = FALSE]
               /\ pc' = [pc EXCEPT ![l] = "done"] /\ held' = [held EXCEPT ![l] = NoConn]
      BY <1>a, <1>b, <2>1, <2>2, <2>5 DEF TypeOK, LentOnce, Cleaned, CleanConn
    <2> QED BY <1>15, <2>3, <2>4, <2>5 DEF PutConn
  <1>16. CASE \E c \in Conns : GetIdle(l, c)
    BY <1>a, <1>b, <1>16 DEF GetIdle, Lend, TypeOK, LentOnce, Cleaned, CleanConn
  <1>17. CASE \E c \in Conns : Connect(l, c)
    BY <1>a, <1>b, <1>17 DEF Connect, Lend, Free, TypeOK, LentOnce, Cleaned, CleanConn
  <1>18. CASE \E s \in Settings : SetSession(l, s)
    BY <1>a, <1>b, <1>18 DEF SetSession, Running, TypeOK, LentOnce, Cleaned, CleanConn
  <1> QED BY <1>1, <1>2, <1>3, <1>4, <1>5, <1>6, <1>7, <1>8, <1>9, <1>10, <1>11, <1>12, <1>13,
        <1>14, <1>15, <1>16, <1>17, <1>18 DEF Lease

\* A check passes only without the drifts it sees, and what stands was there.
LEMMA CheckingKept ==
  ASSUME IInv, NEW l \in Callers, Lease(l)
  PROVE  Checked'
  <1> USE DEF adminVars, connVars, leaseVars
  <1>a. /\ TypeOK /\ LentOnce /\ UNCHANGED service
        /\ pc[l] \notin {"new", "waiting", "done"} => held[l] \in Conns
    BY LeaseFacts DEF IInv
  <1>b. Checked /\ IInv
    BY DEF IInv
  <1>1. CASE Wait(l)
    BY <1>a, <1>b, <1>1 DEF Wait, TypeOK, Checked
  <1>2. CASE Unavailable(l)
    BY <1>a, <1>b, <1>2 DEF Unavailable, TypeOK, Checked
  <1>3. CASE Clean(l)
    BY <1>a, <1>b, <1>3 DEF Clean, TypeOK, Checked
  <1>4. CASE CheckPasses(l)
    <2>1. /\ pc[l] = "validate" /\ catalog \intersect service.checks[step[l]].sees = {}
          /\ UNCHANGED <<service, standing, phase>>
      BY <1>4 DEF CheckPasses
    <2>2. step[l] \in 1..Len(service.checks) /\ standing[l] \subseteq catalog
          /\ Len(service.checks) \in Nat
      BY <1>a, PolicyFacts DEF TypeOK
    <2>3. standing[l] \intersect service.checks[step[l]].sees = {}
      BY <2>1, <2>2
    <2>4. \A k \in Callers : k # l => pc'[k] = pc[k] /\ step'[k] = step[k]
      BY <1>a, <1>4 DEF CheckPasses, TypeOK
    <2>5. CASE step[l] < Len(service.checks)
      <3>1. pc' = pc /\ step'[l] = step[l] + 1
        BY <1>a, <1>4, <2>5 DEF CheckPasses, TypeOK
      <3>2. \A k \in 1..Len(service.checks) : k < step'[l] => k < step[l] \/ k = step[l]
        BY <2>2, <3>1
      <3> QED BY <1>b, <2>1, <2>3, <2>4, <3>1, <3>2 DEF Checked
    <2>6. CASE ~(step[l] < Len(service.checks))
      <3>1. pc'[l] = IF phase[l] = "entry" THEN "begin" ELSE "put"
        BY <1>a, <1>4, <2>6 DEF CheckPasses, TypeOK
      <3>2. \A k \in 1..Len(service.checks) : k < step[l] \/ k = step[l]
        BY <2>2, <2>6
      <3> QED BY <1>b, <2>1, <2>3, <2>4, <3>1, <3>2 DEF Checked
    <2> QED BY <2>5, <2>6
  <1>5. CASE CheckFails(l)
    BY <1>a, <1>b, <1>5, PolicyFacts DEF CheckFails, Fails, TypeOK, Checked
  <1>6. CASE ResetBroken(l)
    BY <1>a, <1>b, <1>6 DEF ResetBroken, Fails, TypeOK, Checked
  <1>7. CASE Begin(l)
    BY <1>a, <1>b, <1>7 DEF Begin, TypeOK, Checked
  <1>8. CASE BeginFails(l)
    BY <1>a, <1>b, <1>8 DEF BeginFails, Leave, TypeOK, Checked
  <1>9. CASE Write(l)
    BY <1>a, <1>b, <1>9 DEF Write, Running, TypeOK, Checked
  <1>10. CASE MisuseTransaction(l)
    BY <1>a, <1>b, <1>10 DEF MisuseTransaction, Running, TypeOK, Checked
  <1>11. CASE BodyRaises(l)
    BY <1>a, <1>b, <1>11 DEF BodyRaises, Leave, TypeOK, Checked
  <1>12. CASE LeaseChanged(l)
    <2>1. PICK e \in {"LEASE_TRANSACTION_CHANGED", "LEASE_ROLE_CHANGED"} : Leave(l, e)
      BY <1>12 DEF LeaseChanged
    <2>2. /\ pc[l] = "body"
          /\ UNCHANGED <<service, idle, live, foreign, startup, held, step, wrote, durable,
                         standing>>
      BY <1>12 DEF LeaseChanged
    <2> QED BY <1>a, <1>b, <2>1, <2>2 DEF Leave, TypeOK, Checked
  <1>13. CASE Commit(l)
    BY <1>a, <1>b, <1>13 DEF Commit, Leave, Running, TypeOK, Checked
  <1>14. CASE CommitUnknown(l)
    BY <1>a, <1>b, <1>14 DEF CommitUnknown, Leave, Running, TypeOK, Checked
  <1>15. CASE PutConn(l)
    <2> DEFINE c == held[l]
    <2>1. c \in Conns /\ pc[l] = "put"
      BY <1>a, <1>15 DEF PutConn
    <2>2. UNCHANGED <<service, tx, role, foreign, startup, dirty, phase, step, error, wrote,
                      durable, standing>>
      BY <1>15 DEF PutConn
    <2>3. CASE /\ live[c] /\ idle' = idle \union {c} /\ live' = live
               /\ pc' = [pc EXCEPT ![l] = "done"] /\ held' = [held EXCEPT ![l] = NoConn]
      BY <1>a, <1>b, <2>1, <2>2, <2>3 DEF TypeOK, Checked
    <2>4. ASSUME NEW w \in Waiters, idle' = idle, live' = live,
                 pc' = [pc EXCEPT ![l] = "done", ![w] = "reset"],
                 held' = [held EXCEPT ![l] = NoConn, ![w] = c]
          PROVE  Checked'
      <3>1. w \in Callers /\ w # l /\ pc[w] = "waiting" /\ held[w] = NoConn
        BY <1>a, <2>1, <2>4 DEF Waiters, LentOnce
      <3> QED BY <1>a, <1>b, <2>1, <2>2, <2>4, <3>1 DEF TypeOK, Checked
    <2>5. CASE /\ idle' = idle /\ live' = [live EXCEPT ![c] = FALSE]
               /\ pc' = [pc EXCEPT ![l] = "done"] /\ held' = [held EXCEPT ![l] = NoConn]
      BY <1>a, <1>b, <2>1, <2>2, <2>5 DEF TypeOK, Checked
    <2> QED BY <1>15, <2>3, <2>4, <2>5 DEF PutConn
  <1>16. CASE \E c \in Conns : GetIdle(l, c)
    BY <1>a, <1>b, <1>16 DEF GetIdle, Lend, TypeOK, Checked
  <1>17. CASE \E c \in Conns : Connect(l, c)
    BY <1>a, <1>b, <1>17 DEF Connect, Lend, Free, TypeOK, Checked
  <1>18. CASE \E s \in Settings : SetSession(l, s)
    BY <1>a, <1>b, <1>18 DEF SetSession, Running, TypeOK, Checked
  <1> QED BY <1>1, <1>2, <1>3, <1>4, <1>5, <1>6, <1>7, <1>8, <1>9, <1>10, <1>11, <1>12, <1>13,
        <1>14, <1>15, <1>16, <1>17, <1>18 DEF Lease

\* An error of the entry is not masked, one of the exit never looks like it.
LEMMA PhasingKept ==
  ASSUME IInv, NEW l \in Callers, Lease(l)
  PROVE  Phases'
  <1> USE DEF adminVars, connVars, leaseVars
  <1>a. /\ TypeOK /\ LentOnce /\ UNCHANGED service
        /\ pc[l] \notin {"new", "waiting", "done"} => held[l] \in Conns
    BY LeaseFacts DEF IInv
  <1>b. Phases /\ IInv
    BY DEF IInv
  <1>1. CASE Wait(l)
    BY <1>a, <1>b, <1>1 DEF Wait, TypeOK, Phases, ExitErrors
  <1>2. CASE Unavailable(l)
    BY <1>a, <1>b, <1>2 DEF Unavailable, TypeOK, Phases, ExitErrors
  <1>3. CASE Clean(l)
    BY <1>a, <1>b, <1>3 DEF Clean, TypeOK, Phases, ExitErrors
  <1>4. CASE CheckPasses(l)
    BY <1>a, <1>b, <1>4, PolicyFacts DEF CheckPasses, TypeOK, Phases, ExitErrors
  <1>5. CASE CheckFails(l)
    <2>1. service.checks[step[l]].error # "none"
      BY <1>a, PolicyFacts DEF TypeOK, DriftNames
    <2> QED BY <1>a, <1>b, <1>5, <2>1 DEF CheckFails, Fails, TypeOK, Phases, ExitErrors
  <1>6. CASE ResetBroken(l)
    BY <1>a, <1>b, <1>6 DEF ResetBroken, Fails, TypeOK, Phases, ExitErrors
  <1>7. CASE Begin(l)
    BY <1>a, <1>b, <1>7 DEF Begin, TypeOK, Phases, ExitErrors
  <1>8. CASE BeginFails(l)
    BY <1>a, <1>b, <1>8 DEF BeginFails, Leave, TypeOK, Phases, ExitErrors
  <1>9. CASE Write(l)
    BY <1>a, <1>b, <1>9 DEF Write, Running, TypeOK, Phases, ExitErrors
  <1>10. CASE MisuseTransaction(l)
    BY <1>a, <1>b, <1>10 DEF MisuseTransaction, Running, TypeOK, Phases, ExitErrors
  <1>11. CASE BodyRaises(l)
    BY <1>a, <1>b, <1>11 DEF BodyRaises, Leave, TypeOK, Phases, ExitErrors
  <1>12. CASE LeaseChanged(l)
    <2>1. PICK e \in {"LEASE_TRANSACTION_CHANGED", "LEASE_ROLE_CHANGED"} : Leave(l, e)
      BY <1>12 DEF LeaseChanged
    <2>2. /\ pc[l] = "body"
          /\ UNCHANGED <<service, idle, live, foreign, startup, held, step, wrote, durable,
                         standing>>
      BY <1>12 DEF LeaseChanged
    <2> QED BY <1>a, <1>b, <2>1, <2>2 DEF Leave, TypeOK, Phases, ExitErrors
  <1>13. CASE Commit(l)
    BY <1>a, <1>b, <1>13 DEF Commit, Leave, Running, TypeOK, Phases, ExitErrors
  <1>14. CASE CommitUnknown(l)
    BY <1>a, <1>b, <1>14 DEF CommitUnknown, Leave, Running, TypeOK, Phases, ExitErrors
  <1>15. CASE PutConn(l)
    <2> DEFINE c == held[l]
    <2>1. c \in Conns /\ pc[l] = "put"
      BY <1>a, <1>15 DEF PutConn
    <2>2. UNCHANGED <<service, tx, role, foreign, startup, dirty, phase, step, error, wrote,
                      durable, standing>>
      BY <1>15 DEF PutConn
    <2>3. CASE /\ live[c] /\ idle' = idle \union {c} /\ live' = live
               /\ pc' = [pc EXCEPT ![l] = "done"] /\ held' = [held EXCEPT ![l] = NoConn]
      BY <1>a, <1>b, <2>1, <2>2, <2>3 DEF TypeOK, Phases, ExitErrors
    <2>4. ASSUME NEW w \in Waiters, idle' = idle, live' = live,
                 pc' = [pc EXCEPT ![l] = "done", ![w] = "reset"],
                 held' = [held EXCEPT ![l] = NoConn, ![w] = c]
          PROVE  Phases'
      <3>1. w \in Callers /\ w # l /\ pc[w] = "waiting" /\ held[w] = NoConn
        BY <1>a, <2>1, <2>4 DEF Waiters, LentOnce
      <3> QED BY <1>a, <1>b, <2>1, <2>2, <2>4, <3>1 DEF TypeOK, Phases, ExitErrors
    <2>5. CASE /\ idle' = idle /\ live' = [live EXCEPT ![c] = FALSE]
               /\ pc' = [pc EXCEPT ![l] = "done"] /\ held' = [held EXCEPT ![l] = NoConn]
      BY <1>a, <1>b, <2>1, <2>2, <2>5 DEF TypeOK, Phases, ExitErrors
    <2> QED BY <1>15, <2>3, <2>4, <2>5 DEF PutConn
  <1>16. CASE \E c \in Conns : GetIdle(l, c)
    BY <1>a, <1>b, <1>16 DEF GetIdle, Lend, TypeOK, Phases, ExitErrors
  <1>17. CASE \E c \in Conns : Connect(l, c)
    BY <1>a, <1>b, <1>17 DEF Connect, Lend, Free, TypeOK, Phases, ExitErrors
  <1>18. CASE \E s \in Settings : SetSession(l, s)
    BY <1>a, <1>b, <1>18 DEF SetSession, Running, TypeOK, Phases, ExitErrors
  <1> QED BY <1>1, <1>2, <1>3, <1>4, <1>5, <1>6, <1>7, <1>8, <1>9, <1>10, <1>11, <1>12, <1>13,
        <1>14, <1>15, <1>16, <1>17, <1>18 DEF Lease

\* What is written is committed, or its loss is reported.
LEMMA WritingKept ==
  ASSUME IInv, NEW l \in Callers, Lease(l)
  PROVE  Writes'
  <1> USE DEF adminVars, connVars, leaseVars
  <1>a. /\ TypeOK /\ LentOnce /\ UNCHANGED service
        /\ pc[l] \notin {"new", "waiting", "done"} => held[l] \in Conns
    BY LeaseFacts DEF IInv
  <1>b. Writes /\ Phases /\ IInv
    BY DEF IInv
  <1>1. CASE Wait(l)
    BY <1>a, <1>b, <1>1 DEF Wait, TypeOK, LentOnce, Phases, Writes
  <1>2. CASE Unavailable(l)
    BY <1>a, <1>b, <1>2 DEF Unavailable, TypeOK, LentOnce, Phases, Writes
  <1>3. CASE Clean(l)
    BY <1>a, <1>b, <1>3 DEF Clean, TypeOK, LentOnce, Phases, Writes
  <1>4. CASE CheckPasses(l)
    BY <1>a, <1>b, <1>4 DEF CheckPasses, TypeOK, LentOnce, Phases, Writes
  <1>5. CASE CheckFails(l)
    BY <1>a, <1>b, <1>5 DEF CheckFails, Fails, TypeOK, LentOnce, Phases, Writes
  <1>6. CASE ResetBroken(l)
    BY <1>a, <1>b, <1>6 DEF ResetBroken, Fails, TypeOK, LentOnce, Phases, Writes
  <1>7. CASE Begin(l)
    BY <1>a, <1>b, <1>7 DEF Begin, TypeOK, LentOnce, Phases, Writes
  <1>8. CASE BeginFails(l)
    BY <1>a, <1>b, <1>8 DEF BeginFails, Leave, TypeOK, LentOnce, Phases, Writes
  <1>9. CASE Write(l)
    BY <1>a, <1>b, <1>9 DEF Write, Running, TypeOK, LentOnce, Phases, Writes
  <1>10. CASE MisuseTransaction(l)
    <2>1. /\ pc[l] = "body" /\ held[l] \in Conns /\ durable \subseteq durable'
          /\ UNCHANGED <<pc, held, phase, error, wrote, live>>
      BY <1>a, <1>10 DEF MisuseTransaction, Running
    <2>2. \A x \in Conns : x # held[l] => tx'[x] = tx[x] /\ dirty'[x] = dirty[x]
      BY <1>a, <1>10 DEF MisuseTransaction, TypeOK
    <2>3. \A k \in Callers : k # l /\ pc[k] = "body" => held[k] \in Conns /\ held[k] # held[l]
      BY <1>a, <2>1 DEF TypeOK, LentOnce
    <2>4. tx'[held[l]] # "INERROR" =>
            /\ tx[held[l]] # "INERROR"
            /\ durable \union dirty[held[l]] \subseteq durable' \union dirty'[held[l]]
      BY <1>a, <1>10, <2>1 DEF MisuseTransaction, TypeOK
    <2> QED BY <1>b, <2>1, <2>2, <2>3, <2>4 DEF Writes
  <1>11. CASE BodyRaises(l)
    BY <1>a, <1>b, <1>11 DEF BodyRaises, Leave, TypeOK, LentOnce, Phases, Writes
  <1>12. CASE LeaseChanged(l)
    <2>1. PICK e \in {"LEASE_TRANSACTION_CHANGED", "LEASE_ROLE_CHANGED"} : Leave(l, e)
      BY <1>12 DEF LeaseChanged
    <2>2. /\ pc[l] = "body"
          /\ UNCHANGED <<service, idle, live, foreign, startup, held, step, wrote, durable,
                         standing>>
      BY <1>12 DEF LeaseChanged
    <2> QED BY <1>a, <1>b, <2>1, <2>2 DEF Leave, TypeOK, LentOnce, Phases, Writes
  <1>13. CASE Commit(l)
    BY <1>a, <1>b, <1>13 DEF Commit, Leave, Running, TypeOK, LentOnce, Phases, Writes
  <1>14. CASE CommitUnknown(l)
    BY <1>a, <1>b, <1>14 DEF CommitUnknown, Leave, Running, TypeOK, LentOnce, Phases, Writes
  <1>15. CASE PutConn(l)
    <2> DEFINE c == held[l]
    <2>1. c \in Conns /\ pc[l] = "put"
      BY <1>a, <1>15 DEF PutConn
    <2>2. UNCHANGED <<service, tx, role, foreign, startup, dirty, phase, step, error, wrote,
                      durable, standing>>
      BY <1>15 DEF PutConn
    <2>3. CASE /\ live[c] /\ idle' = idle \union {c} /\ live' = live
               /\ pc' = [pc EXCEPT ![l] = "done"] /\ held' = [held EXCEPT ![l] = NoConn]
      BY <1>a, <1>b, <2>1, <2>2, <2>3 DEF TypeOK, LentOnce, Phases, Writes
    <2>4. ASSUME NEW w \in Waiters, idle' = idle, live' = live,
                 pc' = [pc EXCEPT ![l] = "done", ![w] = "reset"],
                 held' = [held EXCEPT ![l] = NoConn, ![w] = c]
          PROVE  Writes'
      <3>1. w \in Callers /\ w # l /\ pc[w] = "waiting" /\ held[w] = NoConn
        BY <1>a, <2>1, <2>4 DEF Waiters, LentOnce
      <3> QED BY <1>a, <1>b, <2>1, <2>2, <2>4, <3>1 DEF TypeOK, LentOnce, Phases, Writes
    <2>5. CASE /\ idle' = idle /\ live' = [live EXCEPT ![c] = FALSE]
               /\ pc' = [pc EXCEPT ![l] = "done"] /\ held' = [held EXCEPT ![l] = NoConn]
      BY <1>a, <1>b, <2>1, <2>2, <2>5 DEF TypeOK, LentOnce, Phases, Writes
    <2> QED BY <1>15, <2>3, <2>4, <2>5 DEF PutConn
  <1>16. CASE \E c \in Conns : GetIdle(l, c)
    BY <1>a, <1>b, <1>16 DEF GetIdle, Lend, TypeOK, LentOnce, Phases, Writes
  <1>17. CASE \E c \in Conns : Connect(l, c)
    BY <1>a, <1>b, <1>17 DEF Connect, Lend, Free, TypeOK, LentOnce, Phases, Writes
  <1>18. CASE \E s \in Settings : SetSession(l, s)
    BY <1>a, <1>b, <1>18 DEF SetSession, Running, TypeOK, LentOnce, Phases, Writes
  <1> QED BY <1>1, <1>2, <1>3, <1>4, <1>5, <1>6, <1>7, <1>8, <1>9, <1>10, <1>11, <1>12, <1>13,
        <1>14, <1>15, <1>16, <1>17, <1>18 DEF Lease

\* The administrator, the network, and the opening and closing of the pool.
LEMMA WorldKeeps ==
  ASSUME IInv,
         \/ \E d \in Drifts : Drift(d) \/ Repair(d)
         \/ \E s \in Settings : ChangeDefault(s)
         \/ \E c \in Conns : SessionLost(c)
         \/ Open \/ Close
  PROVE  IInv'
  <1> USE DEF adminVars, connVars, leaseVars
  <1>a. TypeOK /\ LentOnce /\ Cleaned /\ Checked /\ Phases /\ Writes /\ MaxChanges \in Nat
    BY ServiceAssumption DEF IInv
  <1>1. CASE \E d \in Drifts : Drift(d)
    <2>1. TypeOK'
      BY <1>a, <1>1 DEF Drift, TypeOK
    <2>2. LentOnce' /\ Cleaned' /\ Checked' /\ Phases' /\ Writes'
      BY <1>a, <1>1 DEF Drift, LentOnce, Cleaned, CleanConn, Checked, Phases, Writes
    <2> QED BY <2>1, <2>2 DEF IInv
  <1>2. CASE \E d \in Drifts : Repair(d)
    <2>1. TypeOK'
      BY <1>a, <1>2 DEF Repair, TypeOK
    <2>2. LentOnce' /\ Cleaned' /\ Phases' /\ Writes'
      BY <1>a, <1>2 DEF Repair, LentOnce, Cleaned, CleanConn, Phases, Writes
    <2>3. Checked'
      BY <1>a, <1>2 DEF Repair, Checked
    <2> QED BY <2>1, <2>2, <2>3 DEF IInv
  <1>3. CASE \E s \in Settings : ChangeDefault(s)
    <2>1. TypeOK'
      BY <1>a, <1>3 DEF ChangeDefault, TypeOK
    <2>2. LentOnce' /\ Cleaned' /\ Checked' /\ Phases' /\ Writes'
      BY <1>a, <1>3 DEF ChangeDefault, LentOnce, Cleaned, CleanConn, Checked, Phases, Writes
    <2> QED BY <2>1, <2>2 DEF IInv
  <1>4. CASE \E c \in Conns : SessionLost(c)
    <2>1. TypeOK'
      BY <1>a, <1>4 DEF SessionLost, TypeOK
    <2>2. LentOnce' /\ Checked' /\ Phases'
      BY <1>a, <1>4 DEF SessionLost, LentOnce, Checked, Phases
    <2>3. Cleaned'
      BY <1>a, <1>4 DEF SessionLost, TypeOK, LentOnce, Cleaned, CleanConn
    <2>4. Writes'
      BY <1>a, <1>4 DEF SessionLost, TypeOK, LentOnce, Writes
    <2> QED BY <2>1, <2>2, <2>3, <2>4 DEF IInv
  <1>5. CASE Open
    <2>1. TypeOK'
      BY <1>a, <1>5 DEF Open, TypeOK
    <2>2. LentOnce' /\ Cleaned' /\ Checked' /\ Phases' /\ Writes'
      BY <1>a, <1>5 DEF Open, LentOnce, Cleaned, CleanConn, Checked, Phases, Writes
    <2> QED BY <2>1, <2>2 DEF IInv
  <1>6. CASE Close
    <2>1. TypeOK'
      BY <1>a, <1>6 DEF Close, TypeOK
    <2>2. LentOnce' /\ Checked' /\ Phases'
      BY <1>a, <1>6 DEF Close, LentOnce, Checked, Phases
    <2>3. \A l \in Callers : held[l] \in Conns => live'[held[l]] = live[held[l]]
      BY <1>a, <1>6 DEF Close, TypeOK, LentOnce
    <2>4. Cleaned'
      <3>1. idle' = {} /\ UNCHANGED <<service, tx, role, foreign, dirty, pc, held>>
        BY <1>6 DEF Close
      <3>2. ASSUME NEW l \in Callers, pc[l] \in {"validate", "begin", "put"}, live'[held[l]]
            PROVE  CleanConn(held[l])
        <4>1. held[l] \in Conns
          BY <1>a, <3>2 DEF TypeOK, LentOnce
        <4> QED BY <1>a, <2>3, <3>2, <4>1 DEF Cleaned
      <3> QED BY <3>1, <3>2 DEF Cleaned, CleanConn
    <2>5. Writes'
      BY <1>a, <1>6, <2>3 DEF Close, TypeOK, LentOnce, Writes
    <2> QED BY <2>1, <2>2, <2>4, <2>5 DEF IInv
  <1> QED BY <1>1, <1>2, <1>3, <1>4, <1>5, <1>6

\* A pool starts in the invariant.
THEOREM InitHolds == Init => IInv
  <1> SUFFICES ASSUME Init PROVE IInv
    OBVIOUS
  <1>1. Len(service.checks) \in Nat \ {0}
    BY PolicyFacts DEF Init
  <1>2. 1 \in 1..Len(service.checks)
    BY <1>1
  <1>3. TypeOK
    BY <1>2, ServiceAssumption DEF Init, TypeOK
  <1>4. LentOnce
    BY DEF Init, LentOnce
  <1>5. Cleaned /\ Checked /\ Phases /\ Writes
    BY <1>1 DEF Init, Cleaned, Checked, Phases, Writes
  <1> QED BY <1>3, <1>4, <1>5 DEF IInv

\* Every step of a lease, of the pool and of the world around it keeps the invariant.
THEOREM NextKeeps == IInv /\ [Next]_vars => IInv'
  <1> SUFFICES ASSUME IInv, [Next]_vars PROVE IInv'
    OBVIOUS
  <1>1. CASE \E l \in Callers : Lease(l)
    <2>1. PICK l \in Callers : Lease(l)
      BY <1>1
    <2>2. TypeOK'
      BY <2>1, TypesKept DEF IInv
    <2>3. LentOnce' /\ Cleaned' /\ Checked' /\ Phases' /\ Writes'
      BY <2>1, LendingKept, CleaningKept, CheckingKept, PhasingKept, WritingKept
    <2> QED BY <2>2, <2>3 DEF IInv
  <1>2. CASE UNCHANGED vars
    BY <1>2 DEF IInv, TypeOK, LentOnce, Cleaned, CleanConn, Checked, Phases, Writes, vars
  <1> QED BY <1>1, <1>2, WorldKeeps DEF Next

------------------------------------------------------------------------------
(* The theorems *)

\* IInv holds in every state.
THEOREM Invariance == Spec => []IInv
  <1>1. Init => IInv
    BY InitHolds
  <1>2. IInv /\ [Next]_vars => IInv'
    BY NextKeeps
  <1> QED BY <1>1, <1>2, PTL DEF Spec

\* The pool's state, the sessions and the leases keep their shapes.
THEOREM TypesHold == Spec => []TypeOK
  <1>1. IInv => TypeOK
    BY DEF IInv
  <1> QED BY <1>1, Invariance, PTL

\* A connection belongs to one lease or to the pool, whoever waits and whatever fails
\* (connection() and psycopg_pool's getconn and putconn).
THEOREM ConnectionsAreLentOnce == Spec => []LentOnce
  <1>1. IInv => LentOnce
    BY DEF IInv
  <1> QED BY <1>1, Invariance, PTL

\* For every one of the ten policies, a body never runs over a drift that its policy
\* sees and that was there when its caller asked (_validate_authority on entry).
THEOREM StandingDriftsAreRefused == Spec => []StandingDriftRefused
  <1>1. IInv => StandingDriftRefused
    BY DEF IInv, Checked, StandingDriftRefused, Detects
  <1> QED BY <1>1, Invariance, PTL

\* Nothing of a lease is left on an idle session, or on one whose body is about to
\* start (_sanitize on entry and exit).
THEOREM SessionsAreClean == Spec => []NothingLeaks
  <1>1. IInv => NothingLeaks
    BY DEF IInv, Cleaned, CleanConn, NothingLeaks
  <1> QED BY <1>1, Invariance, PTL

\* Success means committed, and an error that names the pool or a drift means that
\* nothing was written, so that the call may be tried again (connection()).
THEOREM AnswersAreTrue == Spec => []AnswerIsTrue
  <1>1. IInv => AnswerIsTrue
    <2> SUFFICES ASSUME IInv, NEW l \in Callers, pc[l] = "done"
                 PROVE  /\ error[l] = "none" => (l \in wrote => l \in durable)
                        /\ error[l] \in {"SERVICE_CONNECTION_UNAVAILABLE",
                                         "BROKEN_SERVICE_CONNECTION"}
                                        \union DriftErrors(service) => l \notin wrote
      BY DEF AnswerIsTrue
    <2>1. phase[l] \in {"entry", "exit"} /\ DriftErrors(service) \subseteq DriftNames
      BY PolicyFacts DEF IInv, TypeOK
    <2>2. CASE phase[l] = "entry"
      BY <2>2 DEF IInv, Phases, Writes
    <2>3. CASE phase[l] = "exit"
      BY <2>1, <2>3 DEF IInv, Phases, Writes, ExitErrors, DriftNames
    <2> QED BY <2>1, <2>2, <2>3
  <1> QED BY <1>1, Invariance, PTL
=============================================================================
