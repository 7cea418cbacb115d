----------------------------- MODULE SignedCalls -----------------------------
(***************************************************************************)
(* The six signed calls: account-link proof, principal provisioning, first *)
(* session, repeat login, rotation and logout.  Each verifies a bearer,    *)
(* leases a connection, calls one sealed SQL function, checks the receipt  *)
(* and the database clock inside the transaction, commits and answers.     *)
(* The functions of the first two are here in full; those of the session   *)
(* calls are SessionAuthority's, and here they answer or refuse.           *)
(*                                                                         *)
(* An identifier that a call generates (proof, Actor and Source, Principal) *)
(* is named by the call.  Error codes are their categories.                *)
(***************************************************************************)
EXTENDS Integers, FiniteSets

CONSTANTS
  Calls, Accounts,
  Operations,      \* Operations[c]: what c may ask for, of those below
  Bearers,         \* [account, long, iat, nbf, exp]; long: a subject of 256 characters
  ProofTtl,        \* 300000 ms
  MaxLifetime,     \* Config.max_lifetime_seconds
  Skews,           \* how far the process's clock may be ahead of the database's
  MaxTime,         \* bound
  None

SessionOperations == {"bootstrap", "login", "rotate", "logout"}
BearerRecords == [account : Accounts, long : BOOLEAN, iat : Nat, nbf : Nat, exp : Nat]

\* Rows of principals and account_link_proofs; None is a row that is not there.
Principals == [id : Calls, actor : Calls]
Proofs == [account : Accounts, actor : Calls, issued : Nat, expires : Int,
           consumer : Calls \union {None}]

ASSUME SignedCallsAssumption ==
  /\ \A c \in Calls : Operations[c] \subseteq {"issue", "provision"} \union SessionOperations
  /\ Bearers \subseteq BearerRecords /\ Skews \subseteq Int
  /\ ProofTtl \in Nat \ {0} /\ MaxTime \in Nat /\ MaxLifetime \in Nat
  /\ None \notin Calls /\ None \notin Principals /\ None \notin Proofs

VARIABLES
  now, skew,        \* clock_timestamp(), and time.time() - clock_timestamp()
  binding,          \* account_subject_bindings: the Actor of an account
  principal,        \* principals: [id, actor] of an account
  proof,            \* account_link_proofs, by proof_id
  sessionWrites,    \* session calls whose change is committed
  holder,           \* the advisory lock of an account
  call              \* the calls

registry == <<binding, principal, proof, sessionWrites>>
vars == <<now, skew, registry, holder, call>>

NoRows == [binding |-> None, principal |-> None, proof |-> None, session |-> FALSE]

Waiting == [at |-> "new", op |-> "none", bearer |-> None, ref |-> None, until |-> 0,
            rows |-> NoRows, checked |-> 0, error |-> "none"]

Init ==
  /\ now = 0 /\ skew \in Skews
  /\ binding = [a \in Accounts |-> None] /\ principal = [a \in Accounts |-> None]
  /\ proof = [c \in Calls |-> None] /\ sessionWrites = {}
  /\ holder = [a \in Accounts |-> None]
  /\ call = [c \in Calls |-> Waiting]

Bearer(c)  == call[c].bearer
Account(c) == call[c].bearer.account
Min(a, b)  == IF a < b THEN a ELSE b

InWindow(b, until, t) == b.iat <= t /\ b.nbf <= t /\ t < until

\* Faulty variant: the lock is the session's, so it outlives the transaction.
AnswerKeepingLock(c, e) ==
  call' = [call EXCEPT ![c].at = "done", ![c].error = e] /\ UNCHANGED holder

\* The call answers; whatever its transaction holds is rolled back or committed.
Answer(c, e) ==
  /\ call' = [call EXCEPT ![c].at = "done", ![c].error = e]
  /\ holder' = [a \in Accounts |-> IF holder[a] = c THEN None ELSE holder[a]]

Refuse(c, e) == Answer(c, e) /\ UNCHANGED <<now, skew, registry>>

\* What a sealed function raises, and a clock that is too late, by the call.
Raised(op) == IF op = "issue" THEN "unavailable" ELSE "rejected"
Late(op)   == IF op \in {"provision", "rotate"} THEN "rejected" ELSE "identity"

Tick == now < MaxTime /\ now' = now + 1 /\ UNCHANGED <<skew, registry, holder, call>>

----------------------------------------------------------------------------
(* The boundary before its lease: the body, then the bearer.               *)

\* _strict_signed_identity, by the process's clock.
Verified(b, t) ==
  /\ InWindow(b, b.exp, t)
  /\ b.iat <= b.nbf /\ b.nbf < b.exp /\ b.exp - b.iat <= MaxLifetime

\* ref: the proof a provisioning names; no ref is a body that is not of the shape.
Ask(c, op, b, ref) ==
  LET t == now + skew IN
  /\ call[c].at = "new"
  /\ IF ref = None THEN Refuse(c, "request")
     ELSE IF ~Verified(b, t) \/ (op # "issue" /\ b.long) THEN Refuse(c, "identity")
     ELSE /\ call' = [call EXCEPT ![c] =
               [@ EXCEPT !.at = "lease", !.op = op, !.bearer = b, !.ref = ref,
                         !.until = IF op = "issue" THEN Min(b.exp, t + ProofTtl) ELSE b.exp]]
          /\ UNCHANGED <<now, skew, registry, holder>>

Lease(c) ==
  /\ call[c].at = "lease" /\ call' = [call EXCEPT ![c].at = "entry"]
  /\ UNCHANGED <<now, skew, registry, holder>>

\* No lease, or the session ends inside the transaction.
ConnectionFails(c) ==
  /\ call[c].at \in {"lease", "entry", "lock", "read", "consume", "final", "receipt"}
  /\ Refuse(c, "unavailable")

----------------------------------------------------------------------------
(* runtime_issue_account_link_proof.                                       *)

\* The entry checks, before the lock.  The lifetime is measured on this clock.
EnterIssue(c) ==
  /\ call[c].at = "entry" /\ call[c].op = "issue"
  /\ IF /\ ~Bearer(c).long /\ InWindow(Bearer(c), Bearer(c).exp, now)
        /\ now < call[c].until /\ call[c].until <= now + ProofTtl
       THEN /\ call' = [call EXCEPT ![c].at = "lock"]
            /\ UNCHANGED <<now, skew, registry, holder>>
       ELSE Refuse(c, Raised("issue"))

Lock(c) ==
  /\ call[c].at = "lock" /\ holder[Account(c)] = None
  /\ holder' = [holder EXCEPT ![Account(c)] = c]
  /\ call' = [call EXCEPT ![c].at = "read"]
  /\ UNCHANGED <<now, skew, registry>>

Proof(c, actor) ==
  [account |-> Account(c), actor |-> actor, issued |-> Bearer(c).iat, expires |-> call[c].until,
   consumer |-> None]

\* The account's own Actor and Source, or new ones.
IssueProof(c) ==
  LET actor == IF binding[Account(c)] = None THEN c ELSE binding[Account(c)] IN
  /\ call[c].at = "read" /\ call[c].op = "issue"
  /\ call' = [call EXCEPT ![c].at = "receipt",
                          ![c].rows = [NoRows EXCEPT !.binding = actor, !.proof = Proof(c, actor)]]
  /\ UNCHANGED <<now, skew, registry, holder>>

----------------------------------------------------------------------------
(* runtime_provision_signed_principal, and the consumer it calls.          *)

EnterProvision(c) ==
  /\ call[c].at = "entry" /\ call[c].op = "provision"
  /\ call' = [call EXCEPT ![c].at = "lock"]
  /\ UNCHANGED <<now, skew, registry, holder>>

Named(c) == proof[call[c].ref]

\* Faulty variant: whose proof it is does not matter.
AnyProof(c) == Named(c) # None

OwnProof(c) == Named(c) # None /\ Named(c).account = Account(c)

\* Under the lock: the proof is the account's, and both windows are open.
ReadProof(c) ==
  /\ call[c].at = "read" /\ call[c].op = "provision"
  /\ IF /\ OwnProof(c)
        /\ InWindow(Bearer(c), Min(Bearer(c).exp, Named(c).expires), now)
        /\ Named(c).issued <= now
       THEN /\ call' = [call EXCEPT ![c].at = "consume",
                                    ![c].until = Min(Bearer(c).exp, Named(c).expires)]
            /\ UNCHANGED <<now, skew, registry, holder>>
       ELSE Refuse(c, Raised("provision"))

\* The account's Principal, or a new one of the proof's Actor.
Resolved(c) ==
  IF principal[Account(c)] = None THEN [id |-> c, actor |-> Named(c).actor]
                                  ELSE principal[Account(c)]

\* A proof is consumed by one Principal; the same one may ask again.
Consume(c) ==
  /\ call[c].at = "consume"
  /\ IF \/ ~OwnProof(c)
        \/ Named(c).consumer = None /\ Named(c).expires <= now
        \/ Named(c).consumer \notin {None, Resolved(c).id}
        \/ Resolved(c).actor # Named(c).actor
       THEN Refuse(c, Raised("provision"))
       ELSE /\ call' = [call EXCEPT ![c].at = "final",
                 ![c].rows = [NoRows EXCEPT !.principal = Resolved(c),
                                            !.proof = [Named(c) EXCEPT !.consumer = Resolved(c).id]]]
            /\ UNCHANGED <<now, skew, registry, holder>>

\* The clock is read again: the consumer may have waited.
FinalCheck(c) ==
  /\ call[c].at = "final"
  /\ IF InWindow(Bearer(c), call[c].until, now)
       THEN call' = [call EXCEPT ![c].at = "receipt"] /\ UNCHANGED <<now, skew, registry, holder>>
       ELSE Refuse(c, Raised("provision"))

----------------------------------------------------------------------------
(* The session functions: a change, a replay, or a refusal.  A rotation    *)
(* may have less time than its bearer (authorizedUntilMs).                 *)

SessionFunction(c) ==
  /\ call[c].at = "entry" /\ call[c].op \in SessionOperations
  /\ \E change \in BOOLEAN, until \in 1..MaxTime :
       /\ IF call[c].op = "rotate" THEN Bearer(c).iat < until /\ until <= Bearer(c).exp
                                   ELSE until = Bearer(c).exp
       /\ call' = [call EXCEPT ![c].at = "receipt", ![c].until = until,
                               ![c].rows = [NoRows EXCEPT !.session = change]]
  /\ UNCHANGED <<now, skew, registry, holder>>

SessionRefused(c) ==
  /\ call[c].at = "entry" /\ call[c].op \in SessionOperations
  /\ \/ Refuse(c, Raised(call[c].op))
     \/ call[c].op = "rotate" /\ Refuse(c, "no_active")

----------------------------------------------------------------------------
(* Back in the boundary, inside the transaction.                           *)

\* The receipt is not the one the contract promises: nothing is kept.
ContractBroken(c) == call[c].at = "receipt" /\ Refuse(c, "contract")

\* The last reading of the database clock before COMMIT.
CheckReceipt(c) ==
  /\ call[c].at = "receipt"
  /\ IF InWindow(Bearer(c), call[c].until, now)
       THEN /\ call' = [call EXCEPT ![c].at = "commit", ![c].checked = now]
            /\ UNCHANGED <<now, skew, registry, holder>>
       ELSE Refuse(c, Late(call[c].op))

Stored(table, key, row) == IF row = None THEN table ELSE [table EXCEPT ![key] = row]

Durable(c) ==
  /\ binding' = Stored(binding, Account(c), call[c].rows.binding)
  /\ principal' = Stored(principal, Account(c), call[c].rows.principal)
  /\ proof' = Stored(proof, IF call[c].op = "issue" THEN c ELSE call[c].ref, call[c].rows.proof)
  /\ sessionWrites' = sessionWrites \union {d \in {c} : call[c].rows.session}

Commit(c) ==
  /\ call[c].at = "commit" /\ Durable(c) /\ Answer(c, "none") /\ UNCHANGED <<now, skew>>

\* Faulty variant: an error at the end of the lease reads like one of the function.
CommitRaises(c) ==
  /\ call[c].at = "commit" /\ Answer(c, Raised(call[c].op)) /\ UNCHANGED <<now, skew>>
  /\ Durable(c) \/ UNCHANGED registry

\* Faulty variant: each statement is a transaction, and the session ends between two.
CommitInParts(c) ==
  /\ call[c].at = "commit" /\ Answer(c, "unavailable") /\ UNCHANGED <<now, skew>>
  /\ \/ Durable(c) \/ UNCHANGED registry
     \/ /\ binding' = Stored(binding, Account(c), call[c].rows.binding)
        /\ principal' = Stored(principal, Account(c), call[c].rows.principal)
        /\ UNCHANGED <<proof, sessionWrites>>

\* COMMIT is not acknowledged, or the reset after it fails.
CommitUnknown(c) ==
  /\ call[c].at = "commit" /\ Answer(c, "unavailable") /\ UNCHANGED <<now, skew>>
  /\ Durable(c) \/ UNCHANGED registry

Serve(c) ==
  \/ \E op \in Operations[c], b \in Bearers :
       \E ref \in (IF op = "provision" THEN Calls ELSE {c}) \union {None} : Ask(c, op, b, ref)
  \/ Lease(c) \/ ConnectionFails(c)
  \/ EnterIssue(c) \/ Lock(c) \/ IssueProof(c)
  \/ EnterProvision(c) \/ ReadProof(c) \/ Consume(c) \/ FinalCheck(c)
  \/ SessionFunction(c) \/ SessionRefused(c)
  \/ ContractBroken(c) \/ CheckReceipt(c) \/ Commit(c) \/ CommitUnknown(c)

Next == Tick \/ \E c \in Calls : Serve(c)

Spec == Init /\ [][Next]_vars

----------------------------------------------------------------------------
(* Properties.                                                             *)

Refusals == {"request", "identity", "rejected", "contract", "no_active"}

\* The registry's rows and the calls have the shapes of the tables and of the code; the
\* advisory lock of an account is held by a call for this account inside its
\* transaction, and by nothing else, so an answered call blocks nobody.
TypeOK ==
  /\ now \in 0..MaxTime /\ skew \in Skews
  /\ \A a \in Accounts :
       /\ binding[a] \in Calls \union {None}
       /\ principal[a] # None => principal[a] \in Principals
       /\ holder[a] # None => /\ Account(holder[a]) = a
                              /\ call[holder[a]].at \in {"read", "consume", "final", "receipt", "commit"}
  /\ \A c \in Calls :
       /\ proof[c] # None => proof[c] \in Proofs
       /\ call[c].at \in {"new", "lease", "entry", "lock", "read", "consume", "final", "receipt",
                          "commit", "done"}
       /\ call[c].error \in {"none", "unavailable"} \union Refusals

\* However calls for one account interleave, expire or are cut off: it has one Actor and
\* one Principal, of this Actor, which never change once committed; a proof belongs to
\* it with this Actor, and only its own Principal consumes it, once.
OneActorOnePrincipal ==
  [][\A a \in Accounts :
       /\ binding[a] # None => binding'[a] = binding[a]
       /\ principal[a] # None => principal'[a] = principal[a]
       /\ principal'[a] # None => principal'[a].actor = binding'[a]
       /\ \A c \in Calls : proof'[c] # None /\ proof'[c].account = a =>
            /\ proof'[c].actor = binding'[a]
            /\ proof'[c].consumer # None =>
                 principal'[a] # None /\ proof'[c].consumer = principal'[a].id
            /\ proof[c] # None /\ proof[c].consumer # None => proof'[c] = proof[c]]_vars

\* Committed: what c's transaction would have written is in the registry.
Committed(c) ==
  /\ c \in sessionWrites <=> call[c].rows.session
  /\ call[c].op = "issue" => proof[c] # None
  /\ call[c].op = "provision" => proof[call[c].ref].consumer = principal[Account(c)].id

\* What the caller is told.  A receipt: the change is committed, and the database
\* clock was inside the bearer's window and before the proof's expiry after every
\* wait.  A refusal: this call has committed nothing.  Only "unavailable" leaves open
\* whether it has, and then the clock had been checked all the same.
AnswerIsTrue ==
  \A c \in Calls :
    /\ call[c].at = "done" /\ call[c].error = "none" => Committed(c)
    /\ call[c].error \in Refusals =>
         /\ c \notin sessionWrites /\ proof[c] = None
         /\ \A a \in Accounts : /\ binding[a] # c
                                /\ principal[a] = None \/ principal[a].id # c
    /\ call[c].at = "commit" \/ (call[c].at = "done" /\ call[c].error = "none") =>
         InWindow(Bearer(c), call[c].until, call[c].checked)

\* What a call wants, and what it was told.
Wanted(c) ==
  [op |-> IF call[c].op \in SessionOperations THEN "session" ELSE call[c].op,
   account |-> IF call[c].op = "none" THEN None ELSE Account(c)]

Told(c) ==
  IF call[c].at # "done" THEN "open"
  ELSE IF call[c].error = "none" THEN "receipt"
  ELSE IF call[c].error = "unavailable" THEN "unknown" ELSE "refused"

\* The boundaries with their leases, locks, clocks and lost commits are together the six
\* calls as single steps: a call takes effect whole or not at all, a receipt is of an
\* effect and a refusal of none.
K == INSTANCE AccountLink WITH asked <- [c \in Calls |-> Wanted(c)],
                               reply <- [c \in Calls |-> Told(c)]

ImplementsLink == K!Spec
==============================================================================
