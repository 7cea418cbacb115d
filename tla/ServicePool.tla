---------------------------- MODULE ServicePool ----------------------------
(***************************************************************************)
(* One service pool: leases of database connections to trusted backend     *)
(* code.  The ten pools of the repository are one machine with ten         *)
(* policies (ServicePolicies); `service' is the one this behaviour runs.   *)
(* A lease is one transaction under the runtime role, between two resets   *)
(* that clean the session and read the catalogue again.                    *)
(***************************************************************************)
EXTENDS ServicePolicies, FiniteSets

CONSTANTS
  Callers,      \* leases asked for, one per caller
  Conns,        \* connection slots (max_size)
  Pools,        \* the policies among which `service' is chosen
  Drifts,       \* catalogue changes an administrator may make or undo
  Settings,     \* session settings a body or an administrator may change
  MaxChanges,   \* bound on the administrator's changes
  WaitingCap,   \* bound on max_waiting, so that a small instance fills the queue
  NoConn

ASSUME ServiceAssumption ==
  /\ Pools \subseteq Services
  /\ MaxChanges \in Nat /\ WaitingCap \in Nat
  /\ NoConn \notin Conns
  /\ IsFiniteSet(Callers)

VARIABLES
  service,                             \* the policy
  pool, idle,                          \* psycopg_pool: state, idle connections
  catalog, defaults, changes,          \* drifts present, changed role defaults
  live, tx, role, foreign, startup, dirty,   \* per connection
  pc, held, phase, step, error,        \* per caller
  wrote, durable,                      \* callers whose body wrote / is committed
  standing                             \* drifts there ever since the caller asked

connVars   == <<live, tx, role, foreign, startup, dirty>>
leaseVars  == <<pc, held, phase, step, error>>
adminVars  == <<service, catalog, defaults, changes>>
vars == <<service, pool, idle, catalog, defaults, changes, live, tx, role, foreign, startup,
          dirty, pc, held, phase, step, error, wrote, durable, standing>>

Waiters == {l \in Callers : pc[l] = "waiting"}
Limit   == IF service.waiting < WaitingCap THEN service.waiting ELSE WaitingCap
Free    == {c \in Conns : c \notin idle /\ \A l \in Callers : held[l] # c}

Init ==
  /\ service \in Pools
  /\ pool = "new" /\ idle = {}
  /\ catalog = {} /\ defaults = {} /\ changes = 0
  /\ live = [c \in Conns |-> FALSE] /\ tx = [c \in Conns |-> "IDLE"]
  /\ role = [c \in Conns |-> "service"]
  /\ foreign = [c \in Conns |-> {}] /\ startup = [c \in Conns |-> {}]
  /\ dirty = [c \in Conns |-> {}]
  /\ pc = [l \in Callers |-> "new"] /\ held = [l \in Callers |-> NoConn]
  /\ phase = [l \in Callers |-> "entry"] /\ step = [l \in Callers |-> 1]
  /\ error = [l \in Callers |-> "none"]
  /\ wrote = {} /\ durable = {}
  /\ standing = [l \in Callers |-> {}]

----------------------------------------------------------------------------
(* The environment: an administrator changes the catalogue or a role's     *)
(* defaults, or undoes a change; the network or the server ends a session. *)

Drift(d) ==
  /\ changes < MaxChanges /\ d \notin catalog
  /\ catalog' = catalog \union {d} /\ changes' = changes + 1
  /\ UNCHANGED <<service, defaults, pool, idle, connVars, leaseVars, wrote, durable, standing>>

Repair(d) ==
  /\ d \in catalog
  /\ catalog' = catalog \ {d}
  /\ standing' = [l \in Callers |-> standing[l] \ {d}]
  /\ UNCHANGED <<service, defaults, changes, pool, idle, connVars, leaseVars, wrote, durable>>

ChangeDefault(s) ==
  /\ changes < MaxChanges /\ s \notin defaults
  /\ defaults' = defaults \union {s} /\ changes' = changes + 1
  /\ UNCHANGED <<service, catalog, pool, idle, connVars, leaseVars, wrote, durable, standing>>

\* The server rolls back what the session had not committed.
SessionLost(c) ==
  /\ live[c]
  /\ live' = [live EXCEPT ![c] = FALSE] /\ dirty' = [dirty EXCEPT ![c] = {}]
  /\ UNCHANGED <<adminVars, pool, idle, tx, role, foreign, startup, leaseVars, wrote, durable,
                 standing>>

----------------------------------------------------------------------------
(* open, close, and getconn(timeout=3) of psycopg_pool.                    *)

Open ==
  /\ pool = "new" /\ pool' = "open"
  /\ UNCHANGED <<adminVars, idle, connVars, leaseVars, wrote, durable, standing>>

Close ==
  /\ pool = "open" /\ pool' = "closed" /\ idle' = {}
  /\ live' = [c \in Conns |-> live[c] /\ c \notin idle]
  /\ UNCHANGED <<adminVars, tx, role, foreign, startup, dirty, leaseVars, wrote, durable,
                 standing>>

Lend(l, c) ==
  /\ pc' = [pc EXCEPT ![l] = "reset"] /\ held' = [held EXCEPT ![l] = c]

GetIdle(l, c) ==
  /\ pc[l] = "new" /\ pool = "open" /\ c \in idle
  /\ Lend(l, c) /\ idle' = idle \ {c}
  /\ standing' = [standing EXCEPT ![l] = catalog]
  /\ UNCHANGED <<adminVars, pool, connVars, phase, step, error, wrote, durable>>

Wait(l) ==
  /\ pc[l] = "new" /\ pool = "open" /\ idle = {} /\ Cardinality(Waiters) < Limit
  /\ pc' = [pc EXCEPT ![l] = "waiting"]
  /\ standing' = [standing EXCEPT ![l] = catalog]
  /\ UNCHANGED <<adminVars, pool, idle, connVars, held, phase, step, error, wrote, durable>>

\* A pool that is not open, a full queue, or three seconds without a connection.
Unavailable(l) ==
  /\ \/ pc[l] = "waiting"
     \/ pc[l] = "new" /\ (pool # "open" \/ (idle = {} /\ Cardinality(Waiters) >= Limit))
  /\ pc' = [pc EXCEPT ![l] = "done"]
  /\ error' = [error EXCEPT ![l] = "SERVICE_CONNECTION_UNAVAILABLE"]
  /\ UNCHANGED <<adminVars, pool, idle, connVars, held, phase, step, wrote, durable, standing>>

\* A worker logs a new session in for a caller that waits: the startup options hold
\* their settings, the others take the role's defaults of the moment.
Connect(l, c) ==
  /\ pc[l] = "waiting" /\ pool = "open" /\ c \in Free
  /\ Lend(l, c)
  /\ live' = [live EXCEPT ![c] = TRUE] /\ tx' = [tx EXCEPT ![c] = "IDLE"]
  /\ role' = [role EXCEPT ![c] = "service"] /\ dirty' = [dirty EXCEPT ![c] = {}]
  /\ startup' = [startup EXCEPT ![c] = defaults \ StartupOptions]
  /\ foreign' = [foreign EXCEPT ![c] = defaults \ StartupOptions]
  /\ UNCHANGED <<adminVars, pool, idle, phase, step, error, wrote, durable, standing>>

----------------------------------------------------------------------------
(* _sanitize, on entry and on exit of a lease.                             *)

\* Faulty variant: the exception of the last reset is raised as it is.
FailsUnmasked(l, e) == error' = [error EXCEPT ![l] = e]

\* An exception on entry is the lease's answer.  On exit it only shows when the
\* lease had not failed before, and as POOL_RESET_FAILED.
Fails(l, e) ==
  error' = [error EXCEPT ![l] = IF phase[l] = "entry" THEN e
                                ELSE IF @ = "none" THEN "POOL_RESET_FAILED" ELSE @]

\* Faulty variants: the reset of the last lease is trusted, so the catalogue is not
\* read on entry; DISCARD ALL without the SETs.
CleanWithoutCheck(l) ==
  LET c == held[l] IN
  /\ pc[l] = "reset" /\ live[c]
  /\ tx' = [tx EXCEPT ![c] = "IDLE"] /\ role' = [role EXCEPT ![c] = "service"]
  /\ dirty' = [dirty EXCEPT ![c] = {}]
  /\ foreign' = [foreign EXCEPT ![c] = startup[c] \ service.settings]
  /\ pc' = [pc EXCEPT ![l] = IF phase[l] = "entry" THEN "begin" ELSE "validate"]
  /\ step' = [step EXCEPT ![l] = 1]
  /\ UNCHANGED <<adminVars, pool, idle, live, startup, held, phase, error, wrote, durable,
                 standing>>

CleanByDiscardOnly(l) ==
  LET c == held[l] IN
  /\ pc[l] = "reset" /\ live[c]
  /\ tx' = [tx EXCEPT ![c] = "IDLE"] /\ role' = [role EXCEPT ![c] = "service"]
  /\ dirty' = [dirty EXCEPT ![c] = {}]
  /\ foreign' = [foreign EXCEPT ![c] = startup[c]]
  /\ pc' = [pc EXCEPT ![l] = "validate"] /\ step' = [step EXCEPT ![l] = 1]
  /\ UNCHANGED <<adminVars, pool, idle, live, startup, held, phase, error, wrote, durable,
                 standing>>

\* Roll back, DISCARD ALL, then the SETs: what no SET covers keeps its startup value.
Clean(l) ==
  LET c == held[l] IN
  /\ pc[l] = "reset" /\ live[c]
  /\ tx' = [tx EXCEPT ![c] = "IDLE"] /\ role' = [role EXCEPT ![c] = "service"]
  /\ dirty' = [dirty EXCEPT ![c] = {}]
  /\ foreign' = [foreign EXCEPT ![c] = startup[c] \ service.settings]
  /\ pc' = [pc EXCEPT ![l] = "validate"] /\ step' = [step EXCEPT ![l] = 1]
  /\ UNCHANGED <<adminVars, pool, idle, live, startup, held, phase, error, wrote, durable,
                 standing>>

\* One query of _validate_authority, on the catalogue as it is now.
CheckPasses(l) ==
  /\ pc[l] = "validate" /\ live[held[l]]
  /\ catalog \intersect service.checks[step[l]].sees = {}
  /\ IF step[l] < Len(service.checks)
       THEN step' = [step EXCEPT ![l] = @ + 1] /\ UNCHANGED pc
       ELSE /\ pc' = [pc EXCEPT ![l] = IF phase[l] = "entry" THEN "begin" ELSE "put"]
            /\ UNCHANGED step
  /\ UNCHANGED <<adminVars, pool, idle, connVars, held, phase, error, wrote, durable, standing>>

CheckFails(l) ==
  /\ pc[l] = "validate" /\ live[held[l]]
  /\ catalog \intersect service.checks[step[l]].sees # {}
  /\ Fails(l, service.checks[step[l]].error)
  /\ live' = [live EXCEPT ![held[l]] = FALSE]
  /\ pc' = [pc EXCEPT ![l] = "put"]
  /\ UNCHANGED <<adminVars, pool, idle, tx, role, foreign, startup, dirty, held, phase, step,
                 wrote, durable, standing>>

\* A lost session is refused or fails at the next statement.  On exit a connection
\* already known to be closed is not reset at all.
ResetBroken(l) ==
  /\ pc[l] \in {"reset", "validate"} /\ ~live[held[l]]
  /\ \/ \E e \in {"BROKEN_SERVICE_CONNECTION", "POOL_RESET_FAILED"} : Fails(l, e)
     \/ phase[l] = "exit" /\ pc[l] = "reset" /\ UNCHANGED error
  /\ pc' = [pc EXCEPT ![l] = "put"]
  /\ UNCHANGED <<adminVars, pool, idle, connVars, held, phase, step, wrote, durable, standing>>

----------------------------------------------------------------------------
(* connection(): the transaction around the body.                          *)

\* Leave the transaction: by a rollback unless the commit is part of the step.
Leave(l, e) ==
  LET c == held[l] IN
  /\ error' = [error EXCEPT ![l] = e] /\ phase' = [phase EXCEPT ![l] = "exit"]
  /\ pc' = [pc EXCEPT ![l] = "reset"]
  /\ tx' = [tx EXCEPT ![c] = "IDLE"] /\ role' = [role EXCEPT ![c] = "service"]
  /\ dirty' = [dirty EXCEPT ![c] = {}]

\* BEGIN, SET LOCAL ROLE, and the question who the session now is.
Begin(l) ==
  LET c == held[l] IN
  /\ pc[l] = "begin" /\ live[c]
  /\ tx' = [tx EXCEPT ![c] = "INTRANS"] /\ role' = [role EXCEPT ![c] = "runtime"]
  /\ pc' = [pc EXCEPT ![l] = "body"]
  /\ UNCHANGED <<adminVars, pool, idle, live, foreign, startup, dirty, held, phase, step, error,
                 wrote, durable, standing>>

\* The session is gone, or the membership it needs was changed after the check.
BeginFails(l) ==
  /\ pc[l] = "begin" /\ (~live[held[l]] \/ <<"member", "service">> \in catalog)
  /\ Leave(l, "DRIVER_ERROR")
  /\ UNCHANGED <<adminVars, pool, idle, live, foreign, startup, held, step, wrote, durable,
                 standing>>

Running(l) == pc[l] = "body" /\ live[held[l]]

\* The sealed function of the service, called under the runtime role.
Write(l) ==
  /\ Running(l) /\ tx[held[l]] = "INTRANS" /\ role[held[l]] = "runtime"
  /\ dirty' = [dirty EXCEPT ![held[l]] = @ \union {l}] /\ wrote' = wrote \union {l}
  /\ UNCHANGED <<adminVars, pool, idle, live, tx, role, foreign, startup, leaseVars, durable,
                 standing>>

\* What a body must not do, and the lease looks for when it returns: an error it
\* swallows, a COMMIT or BEGIN of its own, another role.
MisuseTransaction(l) ==
  LET c == held[l] IN
  /\ Running(l)
  /\ \/ /\ tx[c] = "INTRANS" /\ tx' = [tx EXCEPT ![c] = "INERROR"]
        /\ dirty' = [dirty EXCEPT ![c] = {}] /\ UNCHANGED <<role, durable>>
     \/ /\ tx[c] = "INTRANS" /\ tx' = [tx EXCEPT ![c] = "IDLE"]
        /\ role' = [role EXCEPT ![c] = "service"]
        /\ durable' = durable \union dirty[c] /\ dirty' = [dirty EXCEPT ![c] = {}]
     \/ /\ tx[c] = "IDLE" /\ tx' = [tx EXCEPT ![c] = "INTRANS"]
        /\ UNCHANGED <<role, dirty, durable>>
     \/ /\ tx[c] = "INTRANS"
        /\ role' = [role EXCEPT ![c] = IF @ = "service" THEN "runtime" ELSE "service"]
        /\ UNCHANGED <<tx, dirty, durable>>
  /\ UNCHANGED <<adminVars, pool, idle, live, foreign, startup, leaseVars, wrote, standing>>

\* A session setting made by the body.
SetSession(l, s) ==
  /\ Running(l) /\ s \notin foreign[held[l]]
  /\ foreign' = [foreign EXCEPT ![held[l]] = @ \union {s}]
  /\ UNCHANGED <<adminVars, pool, idle, live, tx, role, startup, dirty, leaseVars, wrote,
                 durable, standing>>

BodyRaises(l) ==
  /\ pc[l] = "body" /\ Leave(l, "BODY_ERROR")
  /\ UNCHANGED <<adminVars, pool, idle, live, foreign, startup, held, step, wrote, durable,
                 standing>>

\* The body returned, and the transaction or the role is not the lease's.
LeaseChanged(l) ==
  /\ pc[l] = "body"
  /\ \/ /\ ~live[held[l]] \/ tx[held[l]] # "INTRANS"
        /\ Leave(l, "LEASE_TRANSACTION_CHANGED")
     \/ /\ live[held[l]] /\ tx[held[l]] = "INTRANS" /\ role[held[l]] # "runtime"
        /\ Leave(l, "LEASE_ROLE_CHANGED")
  /\ UNCHANGED <<adminVars, pool, idle, live, foreign, startup, held, step, wrote, durable,
                 standing>>

Commit(l) ==
  /\ Running(l) /\ tx[held[l]] = "INTRANS" /\ role[held[l]] = "runtime"
  /\ Leave(l, "none") /\ durable' = durable \union dirty[held[l]]
  /\ UNCHANGED <<adminVars, pool, idle, live, foreign, startup, held, step, wrote, standing>>

\* The session ends while COMMIT is on its way: the driver reports an error, and the
\* server had committed or had not.
CommitUnknown(l) ==
  /\ Running(l) /\ tx[held[l]] = "INTRANS" /\ role[held[l]] = "runtime"
  /\ Leave(l, "DRIVER_ERROR") /\ live' = [live EXCEPT ![held[l]] = FALSE]
  /\ durable' \in {durable, durable \union dirty[held[l]]}
  /\ UNCHANGED <<adminVars, pool, idle, foreign, startup, held, step, wrote, standing>>

\* Faulty variant: only a connection that is still open is given back.
PutOpenConn(l) ==
  LET c == held[l] IN
  /\ pc[l] = "put" /\ pc' = [pc EXCEPT ![l] = "done"]
  /\ IF live[c] THEN held' = [held EXCEPT ![l] = NoConn] /\ idle' = idle \union {c}
                ELSE UNCHANGED <<held, idle>>
  /\ UNCHANGED <<adminVars, pool, connVars, phase, step, error, wrote, durable, standing>>

\* putconn: a closed connection leaves its slot, a live one goes to a caller that
\* waits or back to the idle ones.
PutConn(l) ==
  LET c == held[l]
      back == live[c] /\ pool = "open" IN
  /\ pc[l] = "put"
  /\ \/ /\ back /\ Waiters = {} /\ idle' = idle \union {c}
        /\ pc' = [pc EXCEPT ![l] = "done"] /\ held' = [held EXCEPT ![l] = NoConn]
        /\ UNCHANGED live
     \/ /\ back /\ \E w \in Waiters :
             /\ pc' = [pc EXCEPT ![l] = "done", ![w] = "reset"]
             /\ held' = [held EXCEPT ![l] = NoConn, ![w] = c]
        /\ UNCHANGED <<idle, live>>
     \/ /\ ~back /\ live' = [live EXCEPT ![c] = FALSE]
        /\ pc' = [pc EXCEPT ![l] = "done"] /\ held' = [held EXCEPT ![l] = NoConn]
        /\ UNCHANGED idle
  /\ UNCHANGED <<adminVars, pool, tx, role, foreign, startup, dirty, phase, step, error, wrote,
                 durable, standing>>

Lease(l) ==
  \/ Wait(l) \/ Unavailable(l) \/ Clean(l) \/ CheckPasses(l) \/ CheckFails(l) \/ ResetBroken(l)
  \/ Begin(l) \/ BeginFails(l) \/ Write(l) \/ MisuseTransaction(l) \/ BodyRaises(l)
  \/ LeaseChanged(l) \/ Commit(l) \/ CommitUnknown(l) \/ PutConn(l)
  \/ \E c \in Conns : GetIdle(l, c) \/ Connect(l, c)
  \/ \E s \in Settings : SetSession(l, s)

Next ==
  \/ \E d \in Drifts : Drift(d) \/ Repair(d)
  \/ \E s \in Settings : ChangeDefault(s)
  \/ \E c \in Conns : SessionLost(c)
  \/ Open \/ Close
  \/ \E l \in Callers : Lease(l)

Spec == Init /\ [][Next]_vars

----------------------------------------------------------------------------
(* Properties.                                                             *)

PoolErrors == {"SERVICE_CONNECTION_UNAVAILABLE", "BROKEN_SERVICE_CONNECTION",
               "POOL_RESET_FAILED", "LEASE_TRANSACTION_CHANGED", "LEASE_ROLE_CHANGED"}

\* The pool's state, the sessions and the leases have the shapes of the code.
TypeOK ==
  /\ service \in Pools
  /\ pool \in {"new", "open", "closed"} /\ idle \subseteq Conns
  /\ catalog \subseteq Drifts /\ defaults \subseteq Settings /\ changes \in 0..MaxChanges
  /\ live \in [Conns -> BOOLEAN] /\ tx \in [Conns -> {"IDLE", "INTRANS", "INERROR"}]
  /\ role \in [Conns -> {"service", "runtime"}]
  /\ foreign \in [Conns -> SUBSET Settings] /\ startup \in [Conns -> SUBSET Settings]
  /\ dirty \in [Conns -> SUBSET Callers]
  /\ pc \in [Callers -> {"new", "waiting", "reset", "validate", "begin", "body", "put", "done"}]
  /\ held \in [Callers -> Conns \union {NoConn}]
  /\ phase \in [Callers -> {"entry", "exit"}]
  /\ step \in [Callers -> 1..Len(service.checks)]
  /\ error \in [Callers -> {"none", "BODY_ERROR", "DRIVER_ERROR"} \union PoolErrors
                          \union DriftErrors(service)]
  /\ wrote \subseteq Callers /\ durable \subseteq Callers
  /\ standing \in [Callers -> SUBSET catalog]

\* No body of a lease runs over a drift that was in the catalogue when its caller
\* asked for a connection and has stayed there, if the pool's policy looks at that
\* drift: neither the check of an earlier lease nor a check of this one that came
\* before the drift is enough (_validate_authority, on entry of every lease).
StandingDriftRefused ==
  \A l \in Callers :
    pc[l] \in {"begin", "body"} => standing[l] \intersect Detects(service) = {}

\* A connection belongs to one lease or to the pool, and a lease that ended has
\* given its connection back (the finally clauses of connection()).
LentOnce ==
  /\ \A l \in Callers :
       /\ pc[l] \in {"new", "waiting", "done"} <=> held[l] = NoConn
       /\ held[l] \notin idle
       /\ \A k \in Callers : held[k] = held[l] /\ held[l] # NoConn => k = l

\* Nothing of a lease reaches the next one: an idle connection of the pool, and the
\* one whose body is about to start, has no transaction, no write of anybody and no
\* setting of the policy that is not the policy's, whatever bodies and
\* administrators changed (_sanitize before and after every lease).
NothingLeaks ==
  \A c \in Conns :
    (live[c] /\ (c \in idle \/ \E l \in Callers : held[l] = c /\ pc[l] = "begin"))
      => /\ tx[c] = "IDLE" /\ role[c] = "service" /\ dirty[c] = {}
         /\ foreign[c] \intersect service.settings = {}

\* What the caller is told.  Success: everything its body wrote is committed.  An
\* error that names the pool's availability or a drift: nothing was committed, so
\* the operation may be tried again.  An error after the body may hide a commit,
\* and then it is never one of those (POOL_RESET_FAILED after COMMIT).
AnswerIsTrue ==
  \A l \in Callers : pc[l] = "done" =>
    /\ error[l] = "none" => (l \in wrote => l \in durable)
    /\ error[l] \in {"SERVICE_CONNECTION_UNAVAILABLE", "BROKEN_SERVICE_CONNECTION"}
                   \union DriftErrors(service) => l \notin wrote
============================================================================
