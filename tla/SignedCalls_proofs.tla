------------------------- MODULE SignedCalls_proofs -------------------------
(***************************************************************************)
(* The signed calls for any number of calls, accounts and bearers, any     *)
(* clocks and lifetimes: an account has one Actor and one Principal, which *)
(* never change, and what a caller is told is true.                        *)
(***************************************************************************)
EXTENDS SignedCalls, TLAPS

------------------------------------------------------------------------------
(* The inductive invariant *)

Places == {"new", "lease", "entry", "lock", "read", "consume", "final", "receipt", "commit", "done"}
Errors == {"none", "unavailable"} \union Refusals
Asked  == {"none", "issue", "provision"} \union SessionOperations
Rows   == [binding : Calls \union {None}, principal : Principals \union {None},
           proof : Proofs \union {None}, session : BOOLEAN]

CallRecords ==
  [at : Places, op : Asked, bearer : Bearers \union {None}, ref : Calls \union {None}, until : Int,
   rows : Rows, checked : 0..MaxTime, error : Errors]

Types ==
  /\ now \in 0..MaxTime /\ skew \in Skews
  /\ binding \in [Accounts -> Calls \union {None}]
  /\ principal \in [Accounts -> Principals \union {None}]
  /\ proof \in [Calls -> Proofs \union {None}]
  /\ sessionWrites \subseteq Calls
  /\ holder \in [Accounts -> Calls \union {None}]
  /\ call \in [Calls -> CallRecords]

\* Where a call is and what it asked for; an error is the last thing of it.
Staged(c) ==
  /\ call[c].at \notin {"new", "done"} => call[c].op # "none"
  /\ call[c].op # "none" => Bearer(c) \in Bearers /\ call[c].ref \in Calls
  /\ call[c].at = "new" => call[c].op = "none"
  /\ call[c].at \in {"lock", "read"} => call[c].op \in {"issue", "provision"}
  /\ call[c].at \in {"consume", "final"} => call[c].op = "provision"
  /\ call[c].error # "none" => call[c].at = "done"

\* The advisory lock of an account is with the link or provisioning that took it, from
\* then on to the end of its transaction.
Holding(c) ==
  /\ call[c].op \in {"issue", "provision"}
  /\ call[c].at \in {"read", "consume", "final", "receipt", "commit"}

LockInv ==
  /\ \A a \in Accounts : holder[a] # None => Account(holder[a]) = a /\ Holding(holder[a])
  /\ \A c \in Calls : Holding(c) => holder[Account(c)] = c

\* What a transaction will write agrees with the registry as it is, until it commits.
LinkRows(c) ==
  LET actor == IF binding[Account(c)] = None THEN c ELSE binding[Account(c)] IN
  [NoRows EXCEPT !.binding = actor, !.proof = Proof(c, actor)]

PrincipalRows(c) ==
  [NoRows EXCEPT !.principal = Resolved(c), !.proof = [Named(c) EXCEPT !.consumer = Resolved(c).id]]

Prepared(c) ==
  /\ call[c].at \in {"new", "lease", "entry", "lock", "read", "consume"} => call[c].rows = NoRows
  /\ call[c].op \in {"none", "issue", "provision"} => call[c].rows.session = FALSE
  /\ call[c].op = "issue" /\ call[c].at \in {"receipt", "commit"} => call[c].rows = LinkRows(c)
  /\ call[c].op = "provision" /\ call[c].at \in {"consume", "final", "receipt", "commit"} => OwnProof(c)
  /\ call[c].op = "provision" /\ call[c].at \in {"final", "receipt", "commit"} =>
       /\ call[c].rows = PrincipalRows(c)
       /\ Named(c).consumer \in {None, Resolved(c).id} /\ Resolved(c).actor = Named(c).actor
  /\ call[c].op \in SessionOperations /\ call[c].at \in {"receipt", "commit"} =>
       call[c].rows = [NoRows EXCEPT !.session = call[c].rows.session]

\* Whatever bears a call's name in the registry was committed by that call, and it was
\* not told that it was refused.
Ended(c) == call[c].at = "done" /\ call[c].error \in {"none", "unavailable"}

Owned(c) ==
  /\ c \in sessionWrites => Ended(c)
  /\ proof[c] # None => Ended(c)
  /\ \A a \in Accounts :
       /\ binding[a] = c => Ended(c)
       /\ principal[a] # None /\ principal[a].id = c => Ended(c)

\* What a receipt promises, and the last reading of the clock.
Promised(c) ==
  /\ call[c].at = "done" /\ call[c].error = "none" =>
       /\ c \in sessionWrites <=> call[c].rows.session
       /\ call[c].op = "issue" => proof[c] # None
       /\ call[c].op = "provision" => OwnProof(c) /\ Named(c).consumer # None
  /\ call[c].at = "commit" \/ (call[c].at = "done" /\ call[c].error = "none") =>
       InWindow(Bearer(c), call[c].until, call[c].checked)

\* One Actor, one Principal of this Actor, and proofs that name both.
RegistryInv ==
  /\ \A a \in Accounts : principal[a] # None => binding[a] # None /\ principal[a].actor = binding[a]
  /\ \A p \in Calls : proof[p] # None =>
       LET a == proof[p].account IN
       /\ proof[p].actor = binding[a]
       /\ proof[p].consumer # None => principal[a] # None /\ proof[p].consumer = principal[a].id

CallInv(c) == Staged(c) /\ Prepared(c) /\ Owned(c) /\ Promised(c)

IInv == Types /\ LockInv /\ RegistryInv /\ \A c \in Calls : CallInv(c)

------------------------------------------------------------------------------
(* What the steps have in common *)

LEMMA NoRowsAreRows == NoRows \in Rows
BY DEF NoRows, Rows

\* A call moves on and the registry does not: the others notice nothing.
LEMMA MoveKeeps ==
  ASSUME IInv, NEW c \in Calls, NEW n \in CallRecords,
         call' = [call EXCEPT ![c] = n], UNCHANGED <<now, skew, registry>>,
         holder' \in [Accounts -> Calls \union {None}],
         LockInv', CallInv(c)'
  PROVE  IInv'
<1>1. Types' /\ RegistryInv'
  BY DEF IInv, Types, RegistryInv, registry
<1>2. ASSUME NEW d \in Calls, d # c PROVE CallInv(d)'
  <2>1. call'[d] = call[d] /\ CallInv(d)
    BY <1>2 DEF IInv, Types
  <2>2. Staged(d)'
    BY <2>1 DEF CallInv, Staged, Bearer
  <2>3. Prepared(d)'
    <3>1. UNCHANGED <<binding, principal, proof>> /\ Account(d)' = Account(d) /\ Bearer(d)' = Bearer(d)
      BY <2>1 DEF Account, Bearer, registry
    <3>2. LinkRows(d)' = LinkRows(d)
      BY <2>1, <3>1 DEF LinkRows, Proof
    <3>3. Resolved(d)' = Resolved(d)
      BY <2>1, <3>1 DEF Named, Resolved
    <3>4. PrincipalRows(d)' = PrincipalRows(d)
      BY <2>1, <3>1, <3>3 DEF PrincipalRows, Named
    <3>5. OwnProof(d)' <=> OwnProof(d)
      BY <2>1, <3>1 DEF OwnProof, Named
    <3>6. QED
      BY <2>1, <3>1, <3>2, <3>3, <3>4, <3>5 DEF CallInv, Prepared, Named
  <2>4. Owned(d)'
    BY <2>1 DEF CallInv, Owned, Ended, registry
  <2>5. Promised(d)'
    BY <2>1 DEF CallInv, Promised, OwnProof, Named, InWindow, Account, Bearer, registry
  <2>6. QED
    BY <2>2, <2>3, <2>4, <2>5 DEF CallInv
<1>3. QED
  BY <1>1, <1>2 DEF IInv

LEMMA LocksKept ==
  ASSUME IInv, NEW c \in Calls, NEW n \in CallRecords,
         call' = [call EXCEPT ![c] = n], UNCHANGED holder,
         (/\ n.op \in {"issue", "provision"}
          /\ n.at \in {"read", "consume", "final", "receipt", "commit"}) <=> Holding(c),
         Holding(c) => n.bearer = Bearer(c)
  PROVE  LockInv' /\ holder' \in [Accounts -> Calls \union {None}]
<1>1. Types /\ LockInv
  BY DEF IInv
<1>2. ASSUME NEW d \in Calls PROVE Holding(d)' <=> Holding(d)
  BY <1>1 DEF Types, Holding
<1>3. ASSUME NEW d \in Calls, Holding(d) PROVE Account(d)' = Account(d)
  BY <1>1, <1>3 DEF Types, Account, Bearer
<1>4. (\A a \in Accounts : holder[a] # None => Account(holder[a]) = a /\ Holding(holder[a]))'
  <2> SUFFICES ASSUME NEW a \in Accounts, NEW d \in Calls, holder[a] = d
               PROVE  (Account(d) = a /\ Holding(d))'
    BY <1>1 DEF Types, Account, Holding
  <2> QED
    BY <1>1, <1>2, <1>3, SignedCallsAssumption DEF LockInv
<1>5. (\A d \in Calls : Holding(d) => holder[Account(d)] = d)'
  <2> SUFFICES ASSUME NEW d \in Calls, Holding(d)' PROVE (holder[Account(d)] = d)'
    OBVIOUS
  <2> QED
    BY <1>1, <1>2, <1>3 DEF LockInv
<1>6. QED
  BY <1>1, <1>4, <1>5 DEF Types, LockInv

\* What Answer gives back is the lock of the call that answers, and no other.
LEMMA LocksReleased ==
  ASSUME IInv, NEW c \in Calls, NEW n \in CallRecords,
         call' = [call EXCEPT ![c] = n], n.at = "done",
         holder' = [a \in Accounts |-> IF holder[a] = c THEN None ELSE holder[a]]
  PROVE  LockInv' /\ holder' \in [Accounts -> Calls \union {None}]
<1>1. Types /\ LockInv /\ None \notin Calls
  BY SignedCallsAssumption DEF IInv
<1>2. holder' \in [Accounts -> Calls \union {None}]
  BY <1>1 DEF Types
<1>3. ASSUME NEW a \in Accounts, NEW d \in Calls, holder'[a] = d
      PROVE  (Account(d) = a /\ Holding(d))'
  <2>1. holder[a] = d /\ d # c
    BY <1>1, <1>3 DEF Types
  <2>2. Account(d) = a /\ Holding(d) /\ call'[d] = call[d]
    BY <1>1, <2>1 DEF Types, LockInv
  <2>3. QED
    BY <2>2 DEF Holding, Account
<1>4. ASSUME NEW d \in Calls, Holding(d)' PROVE (holder[Account(d)] = d)'
  <2>1. d # c /\ Holding(d) /\ Account(d)' = Account(d)
    BY <1>1, <1>4 DEF Types, Holding, Account
  <2>2. holder[Account(d)] = d
    BY <1>1, <2>1 DEF LockInv
  <2>3. Account(d) \in Accounts
    BY <2>1, SignedCallsAssumption DEF IInv, CallInv, Staged, Holding, Account, Bearer, BearerRecords
  <2>4. QED
    BY <2>1, <2>2, <2>3
<1>5. (\A a \in Accounts : holder[a] # None => Account(holder[a]) = a /\ Holding(holder[a]))'
  BY <1>2, <1>3 DEF Account, Holding
<1>6. (\A d \in Calls : Holding(d) => holder[Account(d)] = d)'
  BY <1>4
<1>7. QED
  BY <1>2, <1>5, <1>6 DEF LockInv

------------------------------------------------------------------------------
(* Steps that write nothing *)

LEMMA RefuseKeeps ==
  ASSUME IInv, NEW c \in Calls, call[c].at # "done", NEW e \in Errors \ {"none"}, Refuse(c, e)
  PROVE  IInv'
<1> DEFINE n == [call[c] EXCEPT !.at = "done", !.error = e]
<1>1. Types /\ CallInv(c) /\ call[c] \in CallRecords
  BY DEF IInv, Types
<1>2. /\ n \in CallRecords /\ n.at = "done" /\ n.error = e
      /\ \A f \in {"op", "bearer", "ref", "until", "rows", "checked"} : n[f] = call[c][f]
  BY <1>1 DEF CallRecords, Places
<1>3. call' = [call EXCEPT ![c] = n] /\ UNCHANGED <<now, skew, registry>>
  BY DEF Refuse, Answer
<1>4. call'[c] = n
  BY <1>1, <1>3 DEF Types
<1>5. LockInv' /\ holder' \in [Accounts -> Calls \union {None}]
  BY <1>2, <1>3, LocksReleased DEF Refuse, Answer
<1>6. Staged(c)' /\ Prepared(c)'
  BY <1>1, <1>2, <1>4 DEF CallInv, Staged, Prepared, Bearer
<1>7. Owned(c)' /\ Promised(c)'
  BY <1>1, <1>2, <1>3, <1>4 DEF CallInv, Owned, Ended, Promised, registry
<1>8. QED
  BY <1>2, <1>3, <1>5, <1>6, <1>7, MoveKeeps DEF CallInv

\* A call that is not answered goes on.
Onward(c, n) ==
  /\ call[c].at # "done" /\ n.at \notin {"new", "done"} /\ n.error = call[c].error
  /\ n.op \in Asked \ {"none"} /\ n.bearer \in Bearers /\ n.ref \in Calls
  /\ n.at \in {"lock", "read"} => n.op \in {"issue", "provision"}
  /\ n.at \in {"consume", "final"} => n.op = "provision"
  /\ n.at = "commit" => InWindow(n.bearer, n.until, n.checked)

LEMMA OnwardKeeps ==
  ASSUME IInv, NEW c \in Calls, NEW n \in CallRecords, Onward(c, n),
         call' = [call EXCEPT ![c] = n], UNCHANGED <<now, skew, registry>>,
         holder' \in [Accounts -> Calls \union {None}], LockInv', Prepared(c)'
  PROVE  IInv'
<1>1. Types /\ CallInv(c) /\ call'[c] = n
  BY DEF IInv, Types
<1>2. Staged(c)'
  BY <1>1 DEF CallInv, Staged, Onward, Bearer
<1>3. Owned(c)'
  BY <1>1 DEF CallInv, Staged, Owned, Ended, Onward, registry
<1>4. Promised(c)'
  BY <1>1 DEF Promised, Onward, InWindow, Bearer
<1>5. QED
  BY <1>2, <1>3, <1>4, MoveKeeps DEF CallInv

\* It keeps what it asked for, and the lock it has or does not have.
Steady(c, n) ==
  /\ n.op = call[c].op /\ n.bearer = Bearer(c) /\ n.ref = call[c].ref /\ n.error = call[c].error
  /\ call[c].at \notin {"new", "done"}
  /\ \/ n.op \in SessionOperations
     \/ /\ call[c].at \in {"lease", "entry"} /\ n.at \in {"entry", "lock"}
     \/ /\ call[c].at \in {"read", "consume", "final", "receipt"}
        /\ n.at \in {"consume", "final", "receipt", "commit"}

LEMMA SteadyKeeps ==
  ASSUME IInv, NEW c \in Calls, NEW n \in CallRecords, Onward(c, n), Steady(c, n),
         call' = [call EXCEPT ![c] = n], UNCHANGED <<now, skew, registry, holder>>, Prepared(c)'
  PROVE  IInv'
<1>1. LockInv' /\ holder' \in [Accounts -> Calls \union {None}]
  <2>1. (/\ n.op \in {"issue", "provision"}
         /\ n.at \in {"read", "consume", "final", "receipt", "commit"}) <=> Holding(c)
    BY DEF Steady, Holding, SessionOperations
  <2>2. QED
    BY <2>1, LocksKept DEF Steady
<1>2. QED
  BY <1>1, OnwardKeeps

LEMMA AskKeeps ==
  ASSUME IInv, NEW c \in Calls, NEW op \in Operations[c], NEW b \in Bearers,
         NEW ref \in Calls \union {None}, Ask(c, op, b, ref)
  PROVE  IInv'
<1>1. Types /\ CallInv(c) /\ call[c] \in CallRecords /\ call[c].at = "new"
  BY DEF IInv, Types, Ask
<1>2. CASE Refuse(c, "request") \/ Refuse(c, "identity")
  BY <1>1, <1>2, RefuseKeeps DEF Errors, Refusals
<1>3. CASE ~(Refuse(c, "request") \/ Refuse(c, "identity"))
  <2> DEFINE until == IF op = "issue" THEN Min(b.exp, now + skew + ProofTtl) ELSE b.exp
             n == [call[c] EXCEPT !.at = "lease", !.op = op, !.bearer = b, !.ref = ref, !.until = until]
  <2>1. op \in Asked \ {"none"} /\ ref \in Calls
    BY <1>3, SignedCallsAssumption DEF Ask, Asked, SessionOperations
  <2>2. until \in Int
    BY <1>1, SignedCallsAssumption DEF Types, BearerRecords, Min
  <2>3. call' = [call EXCEPT ![c] = n] /\ UNCHANGED <<now, skew, registry, holder>>
    BY <1>3 DEF Ask
  <2> HIDE DEF until
  <2>4. /\ n \in CallRecords /\ n.at = "lease" /\ n.op = op /\ n.bearer = b /\ n.ref = ref
        /\ n.rows = call[c].rows /\ n.error = call[c].error
    BY <1>1, <2>1, <2>2 DEF CallRecords, Places
  <2>5. call'[c] = n
    BY <1>1, <2>3 DEF Types
  <2>6. Prepared(c)'
    BY <1>1, <2>1, <2>4, <2>5 DEF CallInv, Prepared, NoRows, SessionOperations
  <2>7. LockInv' /\ holder' \in [Accounts -> Calls \union {None}]
    BY <1>1, <2>3, <2>4, LocksKept DEF Holding, Types
  <2>8. Onward(c, n)
    BY <1>1, <2>1, <2>4 DEF Onward
  <2>9. QED
    BY <2>3, <2>4, <2>6, <2>7, <2>8, OnwardKeeps
<1>4. QED
  BY <1>2, <1>3

\* A step to another place that changes nothing else.
LEMMA PlaceKeeps ==
  ASSUME IInv, NEW c \in Calls, NEW place \in Places \ {"new", "commit", "done"},
         call' = [call EXCEPT ![c].at = place], UNCHANGED <<now, skew, registry, holder>>,
         \/ call[c].at = "lease" /\ place = "entry"
         \/ call[c].at = "entry" /\ place = "lock" /\ call[c].op \in {"issue", "provision"}
         \/ call[c].at = "final" /\ place = "receipt"
  PROVE  IInv'
<1> DEFINE n == [call[c] EXCEPT !.at = place]
<1>1. Types /\ CallInv(c) /\ call[c] \in CallRecords
  BY DEF IInv, Types
<1>2. /\ n \in CallRecords /\ n.at = place
      /\ \A f \in {"op", "bearer", "ref", "until", "rows", "checked", "error"} : n[f] = call[c][f]
  BY <1>1 DEF CallRecords
<1>3. call' = [call EXCEPT ![c] = n] /\ call'[c] = n
  BY <1>1 DEF Types
<1>4. Onward(c, n) /\ Steady(c, n)
  BY <1>1, <1>2 DEF Onward, Steady, CallInv, Staged, Bearer, CallRecords, Asked
<1>5. UNCHANGED <<binding, principal, proof>> /\ Account(c)' = Account(c) /\ Bearer(c)' = Bearer(c)
  BY <1>2, <1>3 DEF Account, Bearer, registry
<1>6. Resolved(c)' = Resolved(c) /\ Named(c)' = Named(c)
  BY <1>2, <1>3, <1>5 DEF Resolved, Named
<1>7. PrincipalRows(c)' = PrincipalRows(c) /\ (OwnProof(c)' <=> OwnProof(c))
  BY <1>5, <1>6 DEF PrincipalRows, OwnProof
<1>8. Prepared(c)'
  BY <1>1, <1>2, <1>3, <1>6, <1>7 DEF CallInv, Staged, Prepared, SessionOperations
<1>9. QED
  BY <1>2, <1>3, <1>4, <1>8, SteadyKeeps

LEMMA EnterKeeps ==
  ASSUME IInv, NEW c \in Calls,
         Lease(c) \/ EnterIssue(c) \/ EnterProvision(c) \/ FinalCheck(c)
  PROVE  IInv'
<1>1. CASE Refuse(c, Raised("issue")) \/ Refuse(c, Raised("provision"))
  BY <1>1, RefuseKeeps DEF Lease, EnterIssue, EnterProvision, FinalCheck, Raised, Errors, Refusals
<1>2. CASE ~(Refuse(c, Raised("issue")) \/ Refuse(c, Raised("provision")))
  BY <1>2, PlaceKeeps DEF Lease, EnterIssue, EnterProvision, FinalCheck, Places
<1>3. QED
  BY <1>1, <1>2

LEMMA RefusedKeeps ==
  ASSUME IInv, NEW c \in Calls, ConnectionFails(c) \/ SessionRefused(c) \/ ContractBroken(c)
  PROVE  IInv'
<1>1. PICK e \in Errors \ {"none"} : Refuse(c, e)
  BY DEF ConnectionFails, SessionRefused, ContractBroken, Raised, Errors, Refusals
<1>2. QED
  BY <1>1, RefuseKeeps DEF ConnectionFails, SessionRefused, ContractBroken

LEMMA LockKeeps ==
  ASSUME IInv, NEW c \in Calls, Lock(c)
  PROVE  IInv'
<1> DEFINE n == [call[c] EXCEPT !.at = "read"]
<1>1. /\ Types /\ LockInv /\ CallInv(c) /\ call[c] \in CallRecords /\ call[c].at = "lock"
      /\ None \notin Calls
  BY SignedCallsAssumption DEF IInv, Types, Lock
<1>2. /\ n \in CallRecords /\ n.at = "read"
      /\ \A f \in {"op", "bearer", "ref", "until", "rows", "checked", "error"} : n[f] = call[c][f]
  BY <1>1 DEF CallRecords, Places
<1>3. call' = [call EXCEPT ![c] = n] /\ call'[c] = n /\ UNCHANGED <<now, skew, registry>>
  BY <1>1 DEF Types, Lock
<1>4. Onward(c, n) /\ n.op \in {"issue", "provision"}
  BY <1>1, <1>2 DEF Onward, CallInv, Staged, Bearer, Asked
<1>5. Prepared(c)'
  BY <1>1, <1>2, <1>3, <1>4 DEF CallInv, Prepared, SessionOperations
<1>6. Account(c) \in Accounts /\ holder' = [holder EXCEPT ![Account(c)] = c] /\ holder[Account(c)] = None
  BY <1>1, <1>4, <1>2, SignedCallsAssumption DEF Lock, Account, CallInv, Staged, Bearer, BearerRecords
<1>7. holder' \in [Accounts -> Calls \union {None}]
  BY <1>1, <1>6 DEF Types
<1>8. \A d \in Calls : Account(d)' = Account(d) /\ (Holding(d)' <=> d = c \/ Holding(d))
  BY <1>1, <1>2, <1>3, <1>4 DEF Types, Holding, Account
<1>9. ASSUME NEW a \in Accounts, NEW d \in Calls, holder'[a] = d
      PROVE  (Account(d) = a /\ Holding(d))'
  BY <1>1, <1>6, <1>8, <1>9 DEF Types, LockInv
<1>10. (\A a \in Accounts : holder[a] # None => Account(holder[a]) = a /\ Holding(holder[a]))'
  BY <1>7, <1>9 DEF Account, Holding
<1>11. ASSUME NEW d \in Calls, Holding(d)' PROVE (holder[Account(d)] = d)'
  <2>1. CASE d = c
    BY <1>1, <1>6, <1>8, <2>1 DEF Types
  <2>2. CASE d # c
    <3>1. Holding(d) /\ holder[Account(d)] = d /\ Account(d) # Account(c)
      BY <1>1, <1>6, <1>8, <1>11, <2>2 DEF LockInv
    <3>2. QED
      BY <1>1, <1>6, <1>8, <3>1 DEF Types
  <2>3. QED
    BY <2>1, <2>2
<1>12. LockInv'
  BY <1>10, <1>11 DEF LockInv, Holding, Account
<1>13. QED
  BY <1>2, <1>3, <1>4, <1>5, <1>7, <1>12, OnwardKeeps

LEMMA BearerFacts ==
  ASSUME IInv, NEW c \in Calls, call[c].op # "none"
  PROVE  /\ Bearer(c) \in Bearers /\ Account(c) \in Accounts /\ call[c].ref \in Calls
         /\ Bearer(c).iat \in Nat /\ Bearer(c).exp \in Nat /\ call[c].until \in Int
BY SignedCallsAssumption DEF IInv, Types, CallInv, Staged, Account, Bearer, BearerRecords, CallRecords

LEMMA LinkRowsAreRows ==
  ASSUME IInv, NEW c \in Calls, call[c].op = "issue"
  PROVE  /\ LinkRows(c) \in Rows /\ LinkRows(c).session = FALSE
         /\ LinkRows(c).binding = IF binding[Account(c)] = None THEN c ELSE binding[Account(c)]
         /\ LinkRows(c).binding \in Calls
         /\ LinkRows(c).principal = None
         /\ LinkRows(c).proof \in Proofs
         /\ LinkRows(c).proof = Proof(c, LinkRows(c).binding)
<1> DEFINE actor == IF binding[Account(c)] = None THEN c ELSE binding[Account(c)]
<1>1. actor \in Calls
  BY BearerFacts DEF IInv, Types
<1> HIDE DEF actor
<1>2. Proof(c, actor) \in Proofs
  BY <1>1, BearerFacts DEF Proof, Proofs
<1>3. LinkRows(c) = [NoRows EXCEPT !.binding = actor, !.proof = Proof(c, actor)]
  BY DEF LinkRows, actor
<1>4. LinkRows(c) = [binding |-> actor, principal |-> None, proof |-> Proof(c, actor), session |-> FALSE]
  BY <1>3 DEF NoRows
<1>5. QED
  BY <1>1, <1>2, <1>4 DEF Rows, actor

LEMMA PrincipalRowsAreRows ==
  ASSUME IInv, NEW c \in Calls, call[c].op = "provision", OwnProof(c)
  PROVE  /\ Resolved(c) \in Principals /\ Named(c) \in Proofs
         /\ PrincipalRows(c) \in Rows /\ PrincipalRows(c).session = FALSE
         /\ PrincipalRows(c).binding = None /\ PrincipalRows(c).principal = Resolved(c)
         /\ PrincipalRows(c).proof = [Named(c) EXCEPT !.consumer = Resolved(c).id]
         /\ PrincipalRows(c).proof \in Proofs
<1>1. Named(c) \in Proofs
  BY BearerFacts DEF IInv, Types, Named, OwnProof
<1>2. Resolved(c) \in Principals
  BY <1>1, BearerFacts DEF IInv, Types, Resolved, Principals, Proofs
<1>3. Resolved(c).id \in Calls
  BY <1>2 DEF Principals
<1>4. [Named(c) EXCEPT !.consumer = Resolved(c).id] \in Proofs
  BY <1>1, <1>3 DEF Proofs
<1> DEFINE used == [Named(c) EXCEPT !.consumer = Resolved(c).id]
<1>5. PrincipalRows(c) = [NoRows EXCEPT !.principal = Resolved(c), !.proof = used]
  BY DEF PrincipalRows
<1> HIDE DEF used
<1>6. PrincipalRows(c) = [binding |-> None, principal |-> Resolved(c), proof |-> used, session |-> FALSE]
  BY <1>5 DEF NoRows
<1>7. used \in Proofs /\ used = [Named(c) EXCEPT !.consumer = Resolved(c).id]
  BY <1>4 DEF used
<1>8. QED
  BY <1>1, <1>2, <1>6, <1>7 DEF Rows

\* The rows of a link are the registry's and its own, and wait for the commit.
LEMMA IssueProofKeeps ==
  ASSUME IInv, NEW c \in Calls, IssueProof(c)
  PROVE  IInv'
<1> DEFINE n == [call[c] EXCEPT !.at = "receipt", !.rows = LinkRows(c)]
<1>1. Types /\ CallInv(c) /\ call[c] \in CallRecords /\ call[c].at = "read" /\ call[c].op = "issue"
  BY DEF IInv, Types, IssueProof
<1>2. /\ n \in CallRecords /\ n.at = "receipt" /\ n.rows = LinkRows(c)
      /\ \A f \in {"op", "bearer", "ref", "until", "checked", "error"} : n[f] = call[c][f]
  BY <1>1, LinkRowsAreRows DEF CallRecords, Places
<1>3. call' = [call EXCEPT ![c] = n] /\ UNCHANGED <<now, skew, registry, holder>>
  BY DEF IssueProof, LinkRows
<1>4. call'[c] = n
  BY <1>1, <1>3 DEF Types
<1>5. Onward(c, n) /\ Steady(c, n)
  BY <1>1, <1>2, BearerFacts DEF Onward, Steady, Bearer, Asked
<1>6. UNCHANGED binding /\ Account(c)' = Account(c) /\ Bearer(c)' = Bearer(c) /\ call'[c].until = call[c].until
  BY <1>2, <1>3, <1>4 DEF Account, Bearer, registry
<1>7. LinkRows(c)' = LinkRows(c)
  BY <1>6 DEF LinkRows, Proof
<1>8. Prepared(c)'
  BY <1>1, <1>2, <1>4, <1>7, LinkRowsAreRows DEF Prepared, SessionOperations
<1>9. QED
  BY <1>2, <1>3, <1>5, <1>8, SteadyKeeps

\* What a provisioning reads is the same before and after a step of its own that writes
\* nothing.
LEMMA SameProof ==
  ASSUME IInv, NEW c \in Calls, UNCHANGED registry,
         call'[c].ref = call[c].ref, call'[c].bearer = call[c].bearer
  PROVE  /\ Named(c)' = Named(c) /\ Resolved(c)' = Resolved(c) /\ PrincipalRows(c)' = PrincipalRows(c)
         /\ OwnProof(c)' <=> OwnProof(c)
<1>1. UNCHANGED <<principal, proof>> /\ Account(c)' = Account(c)
  BY DEF Account, registry
<1>2. Named(c)' = Named(c)
  BY <1>1 DEF Named
<1>3. Resolved(c)' = Resolved(c)
  BY <1>1, <1>2 DEF Resolved
<1>4. QED
  BY <1>1, <1>2, <1>3 DEF PrincipalRows, OwnProof

LEMMA ReadProofKeeps ==
  ASSUME IInv, NEW c \in Calls, ReadProof(c)
  PROVE  IInv'
<1>1. Types /\ CallInv(c) /\ call[c] \in CallRecords /\ call[c].at = "read" /\ call[c].op = "provision"
  BY DEF IInv, Types, ReadProof
<1>2. CASE Refuse(c, Raised("provision"))
  BY <1>1, <1>2, RefuseKeeps DEF Raised, Errors, Refusals
<1>3. CASE ~Refuse(c, Raised("provision"))
  <2> DEFINE until == Min(Bearer(c).exp, Named(c).expires)
             n == [call[c] EXCEPT !.at = "consume", !.until = until]
  <2>1. call' = [call EXCEPT ![c] = n] /\ UNCHANGED <<now, skew, registry, holder>> /\ OwnProof(c)
    BY <1>3 DEF ReadProof
  <2>2. until \in Int
    <3>1. Named(c) \in Proofs /\ Bearer(c).exp \in Nat
      BY <1>1, <2>1, PrincipalRowsAreRows, BearerFacts
    <3>2. Named(c).expires \in Int
      BY <3>1 DEF Proofs
    <3>3. QED
      BY <3>1, <3>2 DEF Min
  <2> HIDE DEF until
  <2>3. /\ n \in CallRecords /\ n.at = "consume"
        /\ \A f \in {"op", "bearer", "ref", "rows", "checked", "error"} : n[f] = call[c][f]
    BY <1>1, <2>2 DEF CallRecords, Places
  <2>4. call'[c] = n
    BY <1>1, <2>1 DEF Types
  <2>5. Onward(c, n) /\ Steady(c, n)
    BY <1>1, <2>3, BearerFacts DEF Onward, Steady, Bearer, Asked
  <2>6. Prepared(c)'
    BY <1>1, <2>1, <2>3, <2>4, SameProof DEF CallInv, Prepared, SessionOperations
  <2>7. QED
    BY <2>1, <2>3, <2>5, <2>6, SteadyKeeps
<1>4. QED
  BY <1>2, <1>3

LEMMA ConsumeKeeps ==
  ASSUME IInv, NEW c \in Calls, Consume(c)
  PROVE  IInv'
<1>1. Types /\ CallInv(c) /\ call[c] \in CallRecords /\ call[c].at = "consume" /\ call[c].op = "provision"
  BY DEF IInv, Types, Consume, CallInv, Staged
<1>2. CASE Refuse(c, Raised("provision"))
  BY <1>1, <1>2, RefuseKeeps DEF Raised, Errors, Refusals
<1>3. CASE ~Refuse(c, Raised("provision"))
  <2> DEFINE n == [call[c] EXCEPT !.at = "final", !.rows = PrincipalRows(c)]
  <2>1. /\ call' = [call EXCEPT ![c] = n] /\ UNCHANGED <<now, skew, registry, holder>> /\ OwnProof(c)
        /\ Named(c).consumer \in {None, Resolved(c).id} /\ Resolved(c).actor = Named(c).actor
    BY <1>3 DEF Consume, PrincipalRows
  <2>2. /\ n \in CallRecords /\ n.at = "final" /\ n.rows = PrincipalRows(c)
        /\ \A f \in {"op", "bearer", "ref", "until", "checked", "error"} : n[f] = call[c][f]
    BY <1>1, <2>1, PrincipalRowsAreRows DEF CallRecords, Places
  <2>3. call'[c] = n
    BY <1>1, <2>1 DEF Types
  <2>4. Onward(c, n) /\ Steady(c, n)
    BY <1>1, <2>2, BearerFacts DEF Onward, Steady, Bearer, Asked
  <2>5. /\ Named(c)' = Named(c) /\ Resolved(c)' = Resolved(c) /\ PrincipalRows(c)' = PrincipalRows(c)
        /\ OwnProof(c)'
    BY <2>1, <2>2, <2>3, SameProof
  <2>6. PrincipalRows(c).session = FALSE
    BY <1>1, <2>1, PrincipalRowsAreRows
  <2>7. Prepared(c)'
    BY <1>1, <2>1, <2>2, <2>3, <2>5, <2>6 DEF Prepared, SessionOperations
  <2>8. QED
    BY <2>1, <2>2, <2>4, <2>7, SteadyKeeps
<1>4. QED
  BY <1>2, <1>3

LEMMA SessionFunctionKeeps ==
  ASSUME IInv, NEW c \in Calls, SessionFunction(c)
  PROVE  IInv'
<1>1. Types /\ CallInv(c) /\ call[c] \in CallRecords /\ call[c].at = "entry" /\ call[c].op \in SessionOperations
  BY DEF IInv, Types, SessionFunction
<1>2. PICK change \in BOOLEAN, until \in 1..MaxTime :
        call' = [call EXCEPT ![c].at = "receipt", ![c].until = until,
                             ![c].rows = [NoRows EXCEPT !.session = change]]
  BY DEF SessionFunction
<1> DEFINE rows == [NoRows EXCEPT !.session = change]
           n == [call[c] EXCEPT !.at = "receipt", !.until = until, !.rows = rows]
<1>3. rows \in Rows /\ rows.session = change
  BY DEF NoRows, Rows
<1>4. call' = [call EXCEPT ![c] = n] /\ UNCHANGED <<now, skew, registry, holder>>
  BY <1>2 DEF SessionFunction
<1>5. rows = [NoRows EXCEPT !.session = rows.session] /\ until \in Int
  BY <1>3, SignedCallsAssumption
<1> HIDE DEF rows
<1>6. /\ n \in CallRecords /\ n.at = "receipt" /\ n.rows = rows
      /\ \A f \in {"op", "bearer", "ref", "checked", "error"} : n[f] = call[c][f]
  BY <1>1, <1>3, <1>5 DEF CallRecords, Places
<1>7. call'[c] = n
  BY <1>1, <1>4 DEF Types
<1>8. Onward(c, n) /\ Steady(c, n)
  BY <1>1, <1>6, BearerFacts DEF Onward, Steady, Bearer, Asked, SessionOperations
<1>9. Prepared(c)'
  BY <1>1, <1>5, <1>6, <1>7 DEF Prepared, SessionOperations
<1>10. QED
  BY <1>4, <1>6, <1>8, <1>9, SteadyKeeps

LEMMA CheckReceiptKeeps ==
  ASSUME IInv, NEW c \in Calls, CheckReceipt(c)
  PROVE  IInv'
<1>1. Types /\ CallInv(c) /\ call[c] \in CallRecords /\ call[c].at = "receipt" /\ now \in 0..MaxTime
  BY DEF IInv, Types, CheckReceipt
<1>2. CASE Refuse(c, Late(call[c].op))
  BY <1>1, <1>2, RefuseKeeps DEF Late, Errors, Refusals
<1>3. CASE ~Refuse(c, Late(call[c].op))
  <2> DEFINE n == [call[c] EXCEPT !.at = "commit", !.checked = now]
  <2>1. /\ call' = [call EXCEPT ![c] = n] /\ UNCHANGED <<now, skew, registry, holder>>
        /\ InWindow(Bearer(c), call[c].until, now)
    BY <1>3 DEF CheckReceipt
  <2>2. /\ n \in CallRecords /\ n.at = "commit" /\ n.checked = now
        /\ \A f \in {"op", "bearer", "ref", "until", "rows", "error"} : n[f] = call[c][f]
    BY <1>1 DEF CallRecords, Places
  <2>3. call'[c] = n /\ call[c].op \in Asked \ {"none"}
    BY <1>1, <2>1 DEF Types, CallInv, Staged, CallRecords
  <2>4. Onward(c, n) /\ Steady(c, n)
    BY <1>1, <2>1, <2>2, <2>3, BearerFacts DEF Onward, Steady, Bearer, Asked
  <2>5. UNCHANGED binding /\ Account(c)' = Account(c) /\ Bearer(c)' = Bearer(c) /\ call'[c].until = call[c].until
    BY <2>1, <2>2, <2>3 DEF Account, Bearer, registry
  <2>6. LinkRows(c)' = LinkRows(c)
    BY <2>5 DEF LinkRows, Proof
  <2>7. Prepared(c)'
    BY <1>1, <2>1, <2>2, <2>3, <2>6, SameProof DEF CallInv, Prepared
  <2>8. QED
    BY <2>1, <2>2, <2>4, <2>7, SteadyKeeps
<1>4. QED
  BY <1>2, <1>3

LEMMA TickKeeps ==
  ASSUME IInv, Tick
  PROVE  IInv'
<1>1. now' \in 0..MaxTime
  BY SignedCallsAssumption DEF IInv, Types, Tick
<1>2. Types' /\ RegistryInv' /\ LockInv'
  BY <1>1 DEF IInv, Types, RegistryInv, LockInv, Holding, Account, Tick, registry
<1>3. ASSUME NEW c \in Calls PROVE CallInv(c)'
  <2>1. CallInv(c) /\ UNCHANGED <<binding, principal, proof, sessionWrites, call>>
    BY DEF IInv, Tick, registry
  <2>2. LinkRows(c)' = LinkRows(c)
    BY <2>1 DEF LinkRows, Proof, Account, Bearer
  <2>3. /\ Named(c)' = Named(c) /\ Resolved(c)' = Resolved(c) /\ PrincipalRows(c)' = PrincipalRows(c)
        /\ OwnProof(c)' <=> OwnProof(c)
    BY <2>1, SameProof DEF Tick
  <2>4. QED
    BY <2>1, <2>2, <2>3 DEF CallInv, Staged, Prepared, Owned, Ended, Promised, InWindow, Bearer
<1>4. QED
  BY <1>2, <1>3 DEF IInv

------------------------------------------------------------------------------
(* COMMIT *)

\* What the rows of a transaction make of the registry, by operation.
Linked(c) ==
  /\ call[c].op = "issue" /\ proof[c] = None /\ LinkRows(c).binding \in Calls
  /\ LinkRows(c).binding = (IF binding[Account(c)] = None THEN c ELSE binding[Account(c)])
  /\ binding' = [binding EXCEPT ![Account(c)] = LinkRows(c).binding]
  /\ proof' = [proof EXCEPT ![c] = Proof(c, LinkRows(c).binding)]
  /\ UNCHANGED <<principal, sessionWrites>>

Used(c) == [Named(c) EXCEPT !.consumer = Resolved(c).id]

Provisioned(c) ==
  /\ call[c].op = "provision" /\ OwnProof(c)
  /\ Named(c).consumer \in {None, Resolved(c).id} /\ Resolved(c).actor = Named(c).actor
  /\ principal' = [principal EXCEPT ![Account(c)] = Resolved(c)]
  /\ proof' = [proof EXCEPT ![call[c].ref] = Used(c)]
  /\ UNCHANGED <<binding, sessionWrites>>

SessionWritten(c) ==
  /\ call[c].op \in SessionOperations
  /\ sessionWrites' = sessionWrites \union {d \in {c} : call[c].rows.session}
  /\ UNCHANGED <<binding, principal, proof>>

LEMMA DurableRecords ==
  ASSUME IInv, NEW c \in Calls, call[c].at = "commit", Durable(c)
  PROVE  /\ Linked(c) \/ Provisioned(c) \/ SessionWritten(c)
         /\ call[c].op \notin SessionOperations => call[c].rows.session = FALSE
<1>1. Types /\ CallInv(c) /\ call[c] \in CallRecords /\ None \notin Principals /\ None \notin Proofs
      /\ None \notin Calls
  BY SignedCallsAssumption DEF IInv, Types
<1>2. call[c].op \in {"issue", "provision"} \union SessionOperations
  BY <1>1 DEF CallInv, Staged, CallRecords, Asked
<1>3. CASE call[c].op = "issue"
  <2>1. call[c].rows = LinkRows(c) /\ proof[c] = None
    BY <1>1, <1>3 DEF CallInv, Prepared, Owned, Ended
  <2>2. Linked(c)
    BY <1>1, <1>3, <2>1, LinkRowsAreRows DEF Durable, Stored, Linked
  <2>3. QED
    BY <1>3, <2>1, <2>2, LinkRowsAreRows
<1>4. CASE call[c].op = "provision"
  <2>1. /\ call[c].rows = PrincipalRows(c) /\ OwnProof(c)
        /\ Named(c).consumer \in {None, Resolved(c).id} /\ Resolved(c).actor = Named(c).actor
    BY <1>1, <1>4 DEF CallInv, Prepared
  <2>2. Provisioned(c)
    BY <1>1, <1>4, <2>1, PrincipalRowsAreRows DEF Durable, Stored, Provisioned, Used
  <2>3. QED
    BY <1>4, <2>1, <2>2, PrincipalRowsAreRows
<1>5. CASE call[c].op \in SessionOperations
  <2>1. call[c].rows = [NoRows EXCEPT !.session = call[c].rows.session]
    BY <1>1, <1>5 DEF CallInv, Prepared
  <2>2. call[c].rows.binding = None /\ call[c].rows.principal = None /\ call[c].rows.proof = None
    BY <2>1 DEF NoRows
  <2>3. QED
    BY <1>5, <2>2 DEF Durable, Stored, SessionWritten
<1>6. QED
  BY <1>2, <1>3, <1>4, <1>5

\* Only c's own account gets anything, under the lock that c has, and nothing that names
\* an Actor, a Principal or a consumer is changed.
Grows(c) ==
  /\ \A a \in Accounts :
       /\ binding[a] # None => binding'[a] = binding[a]
       /\ binding'[a] # binding[a] => binding'[a] = c /\ holder[a] = c
       /\ principal[a] # None => principal'[a] = principal[a]
       /\ principal'[a] # principal[a] => principal'[a].id = c /\ holder[a] = c
  /\ \A p \in Calls :
       /\ proof[p] # None =>
            /\ proof'[p] # None /\ proof'[p].account = proof[p].account
            /\ proof[p].consumer # None => proof'[p] = proof[p]
            /\ proof'[p] # proof[p] => holder[proof[p].account] = c
       /\ proof[p] = None /\ proof'[p] # None => p = c
       /\ p # c => (p \in sessionWrites' <=> p \in sessionWrites)

RegistryTypes ==
  /\ binding \in [Accounts -> Calls \union {None}]
  /\ principal \in [Accounts -> Principals \union {None}]
  /\ proof \in [Calls -> Proofs \union {None}]

LEMMA LinkGrows ==
  ASSUME IInv, NEW c \in Calls, call[c].at = "commit", Linked(c)
  PROVE  Grows(c) /\ RegistryInv' /\ RegistryTypes'
<1> DEFINE a == Account(c)
           actor == LinkRows(c).binding
           row == Proof(c, actor)
<1>1. Types /\ RegistryInv /\ None \notin Calls /\ None \notin Proofs /\ None \notin Principals
  BY SignedCallsAssumption DEF IInv
<1>2. a \in Accounts /\ holder[a] = c
  BY BearerFacts DEF Linked, IInv, LockInv, Holding
<1>3. actor \in Calls /\ (binding[a] # None => actor = binding[a]) /\ (binding[a] = None => actor = c)
  BY DEF Linked
<1>4. row \in Proofs /\ row.account = a /\ row.actor = actor /\ row.consumer = None
  <2>1. row \in Proofs
    BY LinkRowsAreRows DEF Linked
  <2>2. QED
    BY <2>1 DEF Proof
<1>5. /\ binding' = [binding EXCEPT ![a] = actor] /\ proof' = [proof EXCEPT ![c] = row]
      /\ UNCHANGED <<principal, sessionWrites>> /\ proof[c] = None
  BY DEF Linked
<1> HIDE DEF a, actor, row
<1>6. RegistryTypes'
  BY <1>1, <1>3, <1>4, <1>5 DEF Types, RegistryTypes
<1>7. Grows(c)
  BY <1>1, <1>2, <1>3, <1>5 DEF Types, Grows
<1>8. ASSUME NEW b \in Accounts, principal'[b] # None
      PROVE  binding'[b] # None /\ principal'[b].actor = binding'[b]
  BY <1>1, <1>3, <1>5, <1>8 DEF Types, RegistryInv
<1>9. ASSUME NEW p \in Calls, proof'[p] # None
      PROVE  LET b == proof'[p].account IN
             /\ proof'[p].actor = binding'[b]
             /\ proof'[p].consumer # None => principal'[b] # None /\ proof'[p].consumer = principal'[b].id
  <2>1. CASE p = c
    BY <1>1, <1>2, <1>4, <1>5, <2>1 DEF Types
  <2>2. CASE p # c
    <3>1. proof'[p] = proof[p] /\ proof[p] \in Proofs
      BY <1>1, <1>5, <1>9, <2>2 DEF Types
    <3>2. proof[p].actor \in Calls /\ proof[p].account \in Accounts
      BY <3>1 DEF Proofs
    <3>3. proof[p].actor = binding[proof[p].account]
      BY <1>1, <1>9, <3>1 DEF RegistryInv
    <3>4. binding'[proof[p].account] = binding[proof[p].account]
      BY <1>1, <1>7, <3>2, <3>3 DEF Grows
    <3>5. QED
      BY <1>1, <1>5, <1>9, <3>1, <3>3, <3>4 DEF RegistryInv
  <2>3. QED
    BY <2>1, <2>2
<1>10. QED
  BY <1>6, <1>7, <1>8, <1>9 DEF RegistryInv

LEMMA ProvisionGrows ==
  ASSUME IInv, NEW c \in Calls, call[c].at = "commit", Provisioned(c)
  PROVE  Grows(c) /\ RegistryInv' /\ RegistryTypes'
<1> DEFINE a == Account(c)
           ref == call[c].ref
<1>1. Types /\ RegistryInv /\ None \notin Calls /\ None \notin Proofs /\ None \notin Principals
  BY SignedCallsAssumption DEF IInv
<1>2. a \in Accounts /\ holder[a] = c /\ ref \in Calls
  BY BearerFacts DEF Provisioned, IInv, LockInv, Holding
<1>3. /\ Resolved(c) \in Principals /\ proof[ref] \in Proofs /\ Used(c) \in Proofs /\ proof[ref] # None
      /\ proof[ref].account = a
  BY PrincipalRowsAreRows DEF Provisioned, OwnProof, Named, Used
<1>4. /\ Used(c).account = a /\ Used(c).actor = proof[ref].actor /\ Used(c).consumer = Resolved(c).id
      /\ Resolved(c).id \in Calls /\ Resolved(c).actor = proof[ref].actor /\ proof[ref].actor \in Calls
  BY <1>3 DEF Used, Proofs, Principals, Named, Provisioned
<1>5. proof[ref].consumer # None => Used(c) = proof[ref]
  BY <1>3 DEF Used, Proofs, Named, Provisioned
<1>6. /\ principal[a] # None => Resolved(c) = principal[a]
      /\ principal[a] = None => Resolved(c).id = c
  BY DEF Resolved
<1>7. /\ principal' = [principal EXCEPT ![a] = Resolved(c)] /\ proof' = [proof EXCEPT ![ref] = Used(c)]
      /\ UNCHANGED <<binding, sessionWrites>>
  BY DEF Provisioned
<1> HIDE DEF a, ref
<1>8. RegistryTypes'
  BY <1>1, <1>3, <1>7 DEF Types, RegistryTypes
<1>9. Grows(c)
  <2>1. ASSUME NEW b \in Accounts
        PROVE  /\ binding'[b] = binding[b]
               /\ principal[b] # None => principal'[b] = principal[b]
               /\ principal'[b] # principal[b] => principal'[b].id = c /\ holder[b] = c
    BY <1>1, <1>2, <1>6, <1>7 DEF Types
  <2>2. ASSUME NEW p \in Calls
        PROVE  /\ proof[p] # None =>
                    /\ proof'[p] # None /\ proof'[p].account = proof[p].account
                    /\ proof[p].consumer # None => proof'[p] = proof[p]
                    /\ proof'[p] # proof[p] => holder[proof[p].account] = c
               /\ proof[p] = None /\ proof'[p] # None => p = c
    BY <1>1, <1>2, <1>3, <1>4, <1>5, <1>7 DEF Types
  <2>3. QED
    BY <1>7, <2>1, <2>2 DEF Grows
<1>10. proof[ref].actor = binding[a]
  BY <1>1, <1>2, <1>3 DEF RegistryInv
<1>11. ASSUME NEW b \in Accounts, principal'[b] # None
       PROVE  binding'[b] # None /\ principal'[b].actor = binding'[b]
  BY <1>1, <1>2, <1>4, <1>7, <1>10, <1>11 DEF Types, RegistryInv
<1>12. ASSUME NEW p \in Calls, proof'[p] # None
       PROVE  LET b == proof'[p].account IN
              /\ proof'[p].actor = binding'[b]
              /\ proof'[p].consumer # None => principal'[b] # None /\ proof'[p].consumer = principal'[b].id
  <2>1. CASE p = ref
    <3>1. proof'[p] = Used(c) /\ principal'[a] = Resolved(c)
      BY <1>1, <1>2, <1>7, <2>1 DEF Types
    <3>2. Resolved(c) # None
      BY <1>1, <1>3
    <3>3. QED
      BY <1>4, <1>7, <1>10, <3>1, <3>2
  <2>2. CASE p # ref
    <3>1. proof'[p] = proof[p] /\ proof[p] \in Proofs
      BY <1>1, <1>7, <1>12, <2>2 DEF Types
    <3>2. proof[p].account \in Accounts
      BY <3>1 DEF Proofs
    <3>3. proof[p].consumer # None => principal'[proof[p].account] = principal[proof[p].account]
      BY <1>1, <1>9, <1>12, <3>1, <3>2 DEF RegistryInv, Grows
    <3>4. QED
      BY <1>1, <1>7, <1>12, <3>1, <3>3 DEF RegistryInv
  <2>3. QED
    BY <2>1, <2>2
<1>13. QED
  BY <1>8, <1>9, <1>11, <1>12 DEF RegistryInv

LEMMA CommitGrows ==
  ASSUME IInv, NEW c \in Calls, call[c].at = "commit", Durable(c)
  PROVE  Grows(c) /\ RegistryInv' /\ RegistryTypes'
<1>1. CASE SessionWritten(c)
  BY <1>1 DEF SessionWritten, Grows, IInv, Types, RegistryInv, RegistryTypes
<1>2. QED
  BY <1>1, DurableRecords, LinkGrows, ProvisionGrows

\* The others find the registry as they left it, and what they were promised.
LEMMA GrowthKeepsOthers ==
  ASSUME IInv, NEW c \in Calls, Grows(c), UNCHANGED <<now, skew>>,
         NEW d \in Calls, d # c, call'[d] = call[d]
  PROVE  CallInv(d)'
<1>1. Types /\ LockInv /\ CallInv(d)
  BY DEF IInv
<1>2. Account(d)' = Account(d) /\ Bearer(d)' = Bearer(d)
  BY DEF Account, Bearer
<1>3. Staged(d)'
  BY <1>1, <1>2 DEF CallInv, Staged
<1>4. Owned(d)'
  BY <1>1 DEF CallInv, Owned, Ended, Grows
<1>5. call[d].op # "none" => /\ OwnProof(d) => OwnProof(d)' /\ Named(d)'.account = Named(d).account
                             /\ OwnProof(d) /\ Named(d).consumer # None => Named(d)' = Named(d)
  BY <1>2, BearerFacts DEF Grows, OwnProof, Named
<1>6. Promised(d)'
  BY <1>1, <1>2, <1>5 DEF CallInv, Promised, Grows, InWindow, Staged
<1>7. Holding(d) => /\ binding'[Account(d)] = binding[Account(d)] /\ principal'[Account(d)] = principal[Account(d)]
                    /\ OwnProof(d) => Named(d)' = Named(d)
  <2> SUFFICES ASSUME Holding(d)
               PROVE  /\ binding'[Account(d)] = binding[Account(d)] /\ principal'[Account(d)] = principal[Account(d)]
                      /\ OwnProof(d) => Named(d)' = Named(d)
    OBVIOUS
  <2>1. holder[Account(d)] = d /\ Account(d) \in Accounts /\ call[d].ref \in Calls
    BY <1>1, BearerFacts DEF LockInv, Holding
  <2>2. QED
    BY <2>1 DEF Grows, OwnProof, Named
<1>8. call[d].op = "issue" /\ call[d].at \in {"receipt", "commit"} => LinkRows(d)' = LinkRows(d)
  <2> SUFFICES ASSUME call[d].op = "issue", call[d].at \in {"receipt", "commit"}
               PROVE  LinkRows(d)' = LinkRows(d)
    OBVIOUS
  <2>1. binding'[Account(d)] = binding[Account(d)]
    BY <1>7 DEF Holding
  <2>2. QED
    BY <1>2, <2>1 DEF LinkRows, Proof
<1>9. call[d].op = "provision" /\ call[d].at \in {"consume", "final", "receipt", "commit"} =>
        /\ OwnProof(d)' /\ Named(d)' = Named(d) /\ Resolved(d)' = Resolved(d)
        /\ PrincipalRows(d)' = PrincipalRows(d)
  <2> SUFFICES ASSUME call[d].op = "provision", call[d].at \in {"consume", "final", "receipt", "commit"}
               PROVE  /\ OwnProof(d)' /\ Named(d)' = Named(d) /\ Resolved(d)' = Resolved(d)
                      /\ PrincipalRows(d)' = PrincipalRows(d)
    OBVIOUS
  <2>1. OwnProof(d) /\ Holding(d)
    BY <1>1 DEF CallInv, Prepared, Holding
  <2>2. Named(d)' = Named(d) /\ principal'[Account(d)] = principal[Account(d)]
    BY <1>7, <2>1
  <2>3. Resolved(d)' = Resolved(d)
    BY <1>2, <2>2 DEF Resolved
  <2>4. QED
    BY <1>5, <2>1, <2>2, <2>3 DEF PrincipalRows
<1>10. Prepared(d)'
  BY <1>1, <1>8, <1>9 DEF CallInv, Prepared
<1>11. QED
  BY <1>3, <1>4, <1>6, <1>10 DEF CallInv

LEMMA CommitKeeps ==
  ASSUME IInv, NEW c \in Calls, Commit(c) \/ CommitUnknown(c)
  PROVE  IInv' /\ (UNCHANGED registry \/ Grows(c))
<1>1. Types /\ CallInv(c) /\ call[c] \in CallRecords /\ call[c].at = "commit"
  BY DEF IInv, Types, Commit, CommitUnknown
<1>2. PICK e \in {"none", "unavailable"} :
        /\ Answer(c, e) /\ UNCHANGED <<now, skew>>
        /\ e = "none" => Durable(c)
        /\ Durable(c) \/ UNCHANGED registry
  BY DEF Commit, CommitUnknown
<1> DEFINE n == [call[c] EXCEPT !.at = "done", !.error = e]
<1>3. /\ n \in CallRecords /\ n.at = "done" /\ n.error = e
      /\ \A f \in {"op", "bearer", "ref", "until", "rows", "checked"} : n[f] = call[c][f]
  BY <1>1 DEF CallRecords, Places, Errors
<1>4. call' = [call EXCEPT ![c] = n] /\ call'[c] = n
  BY <1>1, <1>2 DEF Answer, Types
<1>5. LockInv' /\ holder' \in [Accounts -> Calls \union {None}]
  BY <1>2, <1>3, <1>4, LocksReleased DEF Answer
<1>6. Staged(c)' /\ Prepared(c)' /\ Owned(c)'
  BY <1>1, <1>2, <1>3, <1>4 DEF CallInv, Staged, Prepared, Owned, Ended, Bearer
<1>7. CASE ~Durable(c)
  <2>1. UNCHANGED registry /\ n.error # "none"
    BY <1>2, <1>3, <1>7
  <2>2. Promised(c)'
    BY <1>3, <1>4, <2>1 DEF Promised
  <2>3. QED
    BY <1>2, <1>3, <1>4, <1>5, <1>6, <2>1, <2>2, MoveKeeps DEF CallInv
<1>8. CASE Durable(c)
  <2>1. Grows(c) /\ RegistryInv' /\ RegistryTypes'
    BY <1>1, <1>8, CommitGrows
  <2>2. sessionWrites' \subseteq Calls /\ (c \in sessionWrites' <=> call[c].rows.session)
    BY <1>1, <1>8 DEF Types, Durable, CallInv, Owned, Ended
  <2>3. Types'
    BY <1>1, <1>2, <1>3, <1>4, <1>5, <2>1, <2>2 DEF Types, RegistryTypes
  <2>4. ASSUME NEW d \in Calls, d # c PROVE CallInv(d)'
    BY <1>1, <1>2, <1>4, <2>1, <2>4, GrowthKeepsOthers DEF Types
  <2>5. call[c].op = "issue" => proof'[c] # None
    <3> SUFFICES ASSUME call[c].op = "issue" PROVE proof'[c] # None
      OBVIOUS
    <3>1. Linked(c)
      BY <1>1, <1>8, DurableRecords DEF Provisioned, SessionWritten, SessionOperations
    <3>2. proof'[c] = LinkRows(c).proof
      BY <1>1, <3>1, LinkRowsAreRows DEF Types, Linked
    <3>3. QED
      BY <3>2, LinkRowsAreRows, SignedCallsAssumption
  <2>6. call[c].op = "provision" => (OwnProof(c) /\ Named(c).consumer # None)'
    <3> SUFFICES ASSUME call[c].op = "provision" PROVE (OwnProof(c) /\ Named(c).consumer # None)'
      OBVIOUS
    <3>1. Provisioned(c)
      BY <1>1, <1>8, DurableRecords DEF Linked, SessionWritten, SessionOperations
    <3>2. call[c].ref \in Calls /\ proof'[call[c].ref] = Used(c)
      BY <1>1, <3>1, BearerFacts DEF Types, Provisioned
    <3>3. /\ Used(c) \in Proofs /\ Resolved(c).id \in Calls /\ Named(c) \in Proofs
          /\ Named(c).account = Account(c)
      BY <3>1, PrincipalRowsAreRows DEF Provisioned, Used, Principals, OwnProof
    <3>4. Used(c).account = Account(c) /\ Used(c).consumer = Resolved(c).id
      BY <3>3 DEF Used, Proofs
    <3>5. Account(c)' = Account(c) /\ Named(c)' = Used(c)
      BY <1>3, <1>4, <3>2 DEF Account, Named
    <3>6. QED
      BY <3>3, <3>4, <3>5, SignedCallsAssumption DEF OwnProof
  <2>7. Promised(c)'
    BY <1>1, <1>3, <1>4, <2>2, <2>5, <2>6 DEF CallInv, Promised, InWindow, Bearer
  <2>8. QED
    BY <1>5, <1>6, <2>1, <2>3, <2>4, <2>7 DEF IInv, CallInv
<1>9. QED
  BY <1>7, <1>8

------------------------------------------------------------------------------
(* The invariant holds, and what follows from it *)

LEMMA InitIInv == Init => IInv
<1> SUFFICES ASSUME Init PROVE IInv
  OBVIOUS
<1>1. Waiting \in CallRecords
  BY NoRowsAreRows, SignedCallsAssumption DEF Waiting, CallRecords, Places, Asked, Errors
<1>2. Types
  BY <1>1, SignedCallsAssumption DEF Init, Types
<1>3. LockInv /\ RegistryInv
  BY DEF Init, LockInv, RegistryInv, Holding, Waiting
<1>4. ASSUME NEW c \in Calls PROVE CallInv(c)
  BY SignedCallsAssumption DEF Init, Waiting, NoRows, CallInv, Staged, Prepared, Owned, Promised, SessionOperations
<1>5. QED
  BY <1>2, <1>3, <1>4 DEF IInv

LEMMA ServeKeeps ==
  ASSUME IInv, NEW c \in Calls, Serve(c)
  PROVE  IInv' /\ (UNCHANGED registry \/ Grows(c))
<1>1. ASSUME NEW op \in Operations[c], NEW b \in Bearers,
             NEW ref \in (IF op = "provision" THEN Calls ELSE {c}) \union {None}, Ask(c, op, b, ref)
      PROVE  IInv' /\ UNCHANGED registry
  <2>1. ref \in Calls \union {None}
    OBVIOUS
  <2>2. QED
    BY <1>1, <2>1, AskKeeps DEF Ask, Refuse
<1>2. CASE Commit(c) \/ CommitUnknown(c)
  BY <1>2, CommitKeeps
<1>3. CASE Lease(c) \/ EnterIssue(c) \/ EnterProvision(c) \/ FinalCheck(c)
  BY <1>3, EnterKeeps DEF Lease, EnterIssue, EnterProvision, FinalCheck, Refuse
<1>4. CASE ConnectionFails(c) \/ SessionRefused(c) \/ ContractBroken(c)
  BY <1>4, RefusedKeeps DEF ConnectionFails, SessionRefused, ContractBroken, Refuse
<1>5. CASE Lock(c) \/ IssueProof(c) \/ ReadProof(c) \/ Consume(c) \/ SessionFunction(c) \/ CheckReceipt(c)
  BY <1>5, LockKeeps, IssueProofKeeps, ReadProofKeeps, ConsumeKeeps, SessionFunctionKeeps,
     CheckReceiptKeeps DEF Lock, IssueProof, ReadProof, Consume, SessionFunction, CheckReceipt, Refuse
<1>6. QED
  BY <1>1, <1>2, <1>3, <1>4, <1>5 DEF Serve

LEMMA NextIInv == IInv /\ [Next]_vars => IInv'
<1> SUFFICES ASSUME IInv, [Next]_vars PROVE IInv'
  OBVIOUS
<1>1. CASE UNCHANGED vars
  <2>1. Types' /\ RegistryInv' /\ LockInv'
    BY <1>1 DEF vars, registry, IInv, Types, RegistryInv, LockInv, Holding, Account
  <2>2. ASSUME NEW c \in Calls PROVE CallInv(c)'
    <3>1. CallInv(c) /\ UNCHANGED <<binding, principal, proof, sessionWrites, call>>
      BY <1>1 DEF IInv, vars, registry
    <3>2. LinkRows(c)' = LinkRows(c)
      BY <3>1 DEF LinkRows, Proof, Account, Bearer
    <3>3. /\ Named(c)' = Named(c) /\ Resolved(c)' = Resolved(c) /\ PrincipalRows(c)' = PrincipalRows(c)
          /\ OwnProof(c)' <=> OwnProof(c)
      BY <3>1, SameProof DEF registry
    <3>4. QED
      BY <3>1, <3>2, <3>3 DEF CallInv, Staged, Prepared, Owned, Ended, Promised, InWindow, Bearer
  <2>3. QED
    BY <2>1, <2>2 DEF IInv
<1>2. CASE Next
  BY <1>2, TickKeeps, ServeKeeps DEF Next
<1>3. QED
  BY <1>1, <1>2

\* The inductive invariant holds in every state.
THEOREM Invariance == Spec => []IInv
BY InitIInv, NextIInv, PTL DEF Spec

\* The registry's rows and the calls have their shapes, and the advisory lock of an
\* account is with a call for this account inside its transaction: nobody keeps it.
THEOREM TypesHold == Spec => []TypeOK
<1>1. IInv => TypeOK
  BY DEF IInv, Types, CallRecords, Places, Errors, LockInv, Holding, TypeOK
<1>2. QED
  BY <1>1, Invariance, PTL

\* What the callers are told is true: a receipt is of something committed, inside the
\* bearer's window, and a refused call has left nothing.
THEOREM AnswersAreTrue == Spec => []AnswerIsTrue
<1>1. IInv => AnswerIsTrue
  <2> SUFFICES ASSUME IInv, NEW c \in Calls
               PROVE  /\ call[c].at = "done" /\ call[c].error = "none" => Committed(c)
                      /\ call[c].error \in Refusals =>
                           /\ c \notin sessionWrites /\ proof[c] = None
                           /\ \A a \in Accounts : /\ binding[a] # c
                                                  /\ principal[a] = None \/ principal[a].id # c
                      /\ call[c].at = "commit" \/ (call[c].at = "done" /\ call[c].error = "none") =>
                           InWindow(Bearer(c), call[c].until, call[c].checked)
    BY DEF AnswerIsTrue
  <2>1. CallInv(c) /\ RegistryInv
    BY DEF IInv
  <2>2. call[c].error \in Refusals => ~Ended(c)
    BY DEF Refusals, Ended
  <2>3. OwnProof(c) /\ Named(c).consumer # None /\ call[c].op = "provision" =>
          proof[call[c].ref].consumer = principal[Account(c)].id
    BY <2>1, BearerFacts DEF RegistryInv, OwnProof, Named
  <2>4. QED
    BY <2>1, <2>2, <2>3 DEF CallInv, Owned, Promised, Committed
<1>2. QED
  BY <1>1, Invariance, PTL

\* However calls interleave, an account gets one Actor and one Principal of this Actor,
\* for good, and its proofs are consumed by this Principal only.
THEOREM OneActorAndPrincipal == Spec => OneActorOnePrincipal
<1> DEFINE Kept ==
      \A a \in Accounts :
       /\ binding[a] # None => binding'[a] = binding[a]
       /\ principal[a] # None => principal'[a] = principal[a]
       /\ principal'[a] # None => principal'[a].actor = binding'[a]
       /\ \A c \in Calls : proof'[c] # None /\ proof'[c].account = a =>
            /\ proof'[c].actor = binding'[a]
            /\ proof'[c].consumer # None =>
                 principal'[a] # None /\ proof'[c].consumer = principal'[a].id
            /\ proof[c] # None /\ proof[c].consumer # None => proof'[c] = proof[c]
<1>1. IInv /\ IInv' /\ [Next]_vars => [Kept]_vars
  <2> SUFFICES ASSUME IInv, IInv', Next PROVE Kept
    OBVIOUS
  <2>1. RegistryInv'
    BY DEF IInv
  <2>2. CASE UNCHANGED registry
    BY <2>1, <2>2 DEF RegistryInv, registry
  <2>3. ASSUME NEW c \in Calls, Grows(c) PROVE Kept
    BY <2>1, <2>3 DEF RegistryInv, Grows
  <2>4. QED
    BY <2>2, <2>3, ServeKeeps DEF Next, Tick
<1>2. QED
  BY <1>1, Invariance, PTL DEF Spec, OneActorOnePrincipal

------------------------------------------------------------------------------
(* The calls as single steps (AccountLink) *)

\* Of c's step the other calls show nothing.
OthersAsBefore(c) ==
  \A d \in Calls \ {c} : Wanted(d)' = Wanted(d) /\ Told(d)' = Told(d)

LEMMA OthersUnmoved ==
  ASSUME NEW c \in Calls, \A d \in Calls \ {c} : call'[d] = call[d]
  PROVE  OthersAsBefore(c)
BY DEF OthersAsBefore, Wanted, Told, Account

LEMMA RefuseRefines ==
  ASSUME IInv, NEW c \in Calls, call[c].at # "done", NEW e \in Errors \ {"none"}, Refuse(c, e)
  PROVE  K!Next
<1>1. /\ call \in [Calls -> CallRecords] /\ call[c] \in CallRecords
      /\ call' = [call EXCEPT ![c].at = "done", ![c].error = e] /\ UNCHANGED registry
  BY DEF IInv, Types, Refuse, Answer
<1>2. /\ call'[c].at = "done" /\ call'[c].error = e
      /\ call'[c].op = call[c].op /\ call'[c].bearer = call[c].bearer
      /\ \A d \in Calls \ {c} : call'[d] = call[d]
  BY <1>1 DEF CallRecords
<1>3. Told(c) = "open" /\ Told(c)' \in {"refused", "unknown"} /\ Wanted(c)' = Wanted(c)
  BY <1>2 DEF Told, Wanted, Account
<1>4. OthersAsBefore(c)
  BY <1>2, OthersUnmoved
<1>5. K!Answer(c) /\ K!Fail(c)
  BY <1>1, <1>3, <1>4 DEF OthersAsBefore, K!Answer, K!Fail, K!registry, registry
<1>6. QED
  BY <1>5 DEF K!Next

LEMMA AskRefines ==
  ASSUME IInv, NEW c \in Calls, NEW op \in Operations[c], NEW b \in Bearers,
         NEW ref \in Calls \union {None}, Ask(c, op, b, ref)
  PROVE  K!Next
<1>1. /\ call \in [Calls -> CallRecords] /\ call[c] \in CallRecords /\ call[c].at = "new"
      /\ call[c].op = "none"
  BY DEF IInv, Types, CallInv, Staged, Ask
<1>2. CASE Refuse(c, "request") \/ Refuse(c, "identity")
  BY <1>1, <1>2, RefuseRefines DEF Errors, Refusals
<1>3. CASE ~(Refuse(c, "request") \/ Refuse(c, "identity"))
  <2> DEFINE until == IF op = "issue" THEN Min(b.exp, now + skew + ProofTtl) ELSE b.exp
  <2>1. /\ call' = [call EXCEPT ![c] =
              [@ EXCEPT !.at = "lease", !.op = op, !.bearer = b, !.ref = ref, !.until = until]]
        /\ UNCHANGED registry
    BY <1>3 DEF Ask
  <2> HIDE DEF until
  <2>2. /\ call'[c].at = "lease" /\ call'[c].op = op /\ call'[c].bearer = b
        /\ \A d \in Calls \ {c} : call'[d] = call[d]
    BY <1>1, <2>1 DEF CallRecords
  <2>3. op \in {"issue", "provision"} \union SessionOperations /\ b.account \in Accounts
    BY SignedCallsAssumption DEF BearerRecords
  <2>4. Told(c) = "open" /\ Told(c)' = "open" /\ Wanted(c) = K!Nothing /\ Wanted(c)' \in K!Wishes
    <3>1. Told(c) = "open" /\ Told(c)' = "open"
      BY <1>1, <2>2 DEF Told
    <3>2. Wanted(c) = K!Nothing
      BY <1>1 DEF Wanted, K!Nothing, SessionOperations
    <3>3. Wanted(c)' = [op |-> IF op \in SessionOperations THEN "session" ELSE op,
                        account |-> b.account]
      BY <2>2, <2>3 DEF Wanted, Account, SessionOperations
    <3>4. QED
      BY <2>3, <3>1, <3>2, <3>3 DEF K!Wishes
  <2>5. OthersAsBefore(c)
    BY <2>2, OthersUnmoved
  <2>6. K!Ask(c)
    BY <2>1, <2>4, <2>5 DEF OthersAsBefore, K!Ask, K!registry, registry
  <2>7. QED
    BY <2>6 DEF K!Next
<1>4. QED
  BY <1>2, <1>3

\* A call that has asked and is not answered shows nothing of its steps.
Silent(c) ==
  /\ call'[c].at # "done" /\ call'[c].op = call[c].op /\ call'[c].bearer = call[c].bearer
  /\ \A d \in Calls \ {c} : call'[d] = call[d]

LEMMA Unseen ==
  ASSUME IInv, NEW c \in Calls, UNCHANGED registry, call[c].at # "done", Silent(c)
  PROVE  UNCHANGED K!vars
<1>1. Told(c)' = Told(c) /\ Wanted(c)' = Wanted(c)
  BY DEF Silent, Told, Wanted, Account
<1>2. OthersAsBefore(c)
  BY OthersUnmoved DEF Silent
<1>3. \A d \in Calls : Wanted(d)' = Wanted(d) /\ Told(d)' = Told(d)
  BY <1>1, <1>2 DEF OthersAsBefore
<1>4. QED
  BY <1>3 DEF K!vars, K!registry, registry

LEMMA CommitRefines ==
  ASSUME IInv, NEW c \in Calls, Commit(c) \/ CommitUnknown(c)
  PROVE  K!Next
<1>1. /\ call \in [Calls -> CallRecords] /\ call[c] \in CallRecords /\ call[c].at = "commit"
  BY DEF IInv, Types, Commit, CommitUnknown
<1>2. PICK e \in {"none", "unavailable"} :
        /\ call' = [call EXCEPT ![c].at = "done", ![c].error = e]
        /\ e = "none" => Durable(c)
        /\ Durable(c) \/ UNCHANGED registry
  BY DEF Commit, CommitUnknown, Answer
<1>3. /\ call'[c].at = "done" /\ call'[c].error = e
      /\ call'[c].op = call[c].op /\ call'[c].bearer = call[c].bearer
      /\ \A d \in Calls \ {c} : call'[d] = call[d]
  BY <1>1, <1>2 DEF CallRecords
<1>4. /\ Told(c) = "open" /\ Told(c)' \in {"receipt", "unknown"} /\ Wanted(c)' = Wanted(c)
      /\ e # "none" => Told(c)' # "receipt"
  BY <1>1, <1>2, <1>3 DEF Told, Wanted, Account
<1>5. K!Answer(c)
  <2>1. OthersAsBefore(c)
    BY <1>3, OthersUnmoved
  <2>2. QED
    BY <1>4, <2>1 DEF OthersAsBefore, K!Answer
<1>6. CASE ~Durable(c)
  <2>1. K!Fail(c)
    BY <1>2, <1>4, <1>6 DEF K!Fail, K!registry, registry
  <2>2. QED
    BY <1>5, <2>1 DEF K!Next
<1>7. CASE Durable(c)
  <2>1. Linked(c) \/ Provisioned(c) \/ SessionWritten(c)
    BY <1>1, <1>7, DurableRecords
  <2>2. RegistryTypes /\ RegistryInv /\ None \notin Calls /\ None \notin Proofs
    BY SignedCallsAssumption DEF IInv, Types, RegistryTypes
  <2>3. CASE Linked(c)
    <3> DEFINE a == Account(c)
               actor == LinkRows(c).binding
               row == Proof(c, actor)
    <3>1. a \in Accounts /\ Wanted(c).op = "issue" /\ Wanted(c).account = a
      BY <2>3, BearerFacts DEF Linked, Wanted, SessionOperations
    <3>2. row \in Proofs /\ row.account = a /\ row.actor = actor /\ row.consumer = None
      BY <2>3, LinkRowsAreRows DEF Linked, Proof
    <3>3. /\ actor = (IF binding[a] = None THEN c ELSE binding[a]) /\ proof[c] = None
          /\ binding' = [binding EXCEPT ![a] = actor] /\ proof' = [proof EXCEPT ![c] = row]
          /\ UNCHANGED <<principal, sessionWrites>>
      BY <2>3 DEF Linked
    <3> HIDE DEF a, actor, row
    <3>4. /\ binding' = [binding EXCEPT ![a] = IF @ = None THEN c ELSE @] /\ binding'[a] = actor
          /\ proof'[c] = row /\ \A p \in Calls \ {c} : proof'[p] = proof[p]
      BY <2>2, <3>1, <3>3 DEF RegistryTypes
    <3>5. K!Link(c)
      BY <1>4, <2>2, <3>1, <3>2, <3>3, <3>4 DEF K!Link
    <3>6. QED
      BY <1>5, <3>5 DEF K!Next
  <2>4. CASE Provisioned(c)
    <3> DEFINE a == Account(c)
               ref == call[c].ref
    <3>1. /\ a \in Accounts /\ ref \in Calls
          /\ Wanted(c).op = "provision" /\ Wanted(c).account = a
      BY <2>4, BearerFacts DEF Provisioned, Wanted, SessionOperations
    <3>2. /\ proof[ref] # None /\ proof[ref].account = a
          /\ proof[ref].consumer \in {None, Resolved(c).id}
          /\ principal' = [principal EXCEPT ![a] = Resolved(c)]
          /\ proof' = [proof EXCEPT ![ref] = [proof[ref] EXCEPT !.consumer = Resolved(c).id]]
          /\ UNCHANGED <<binding, sessionWrites>>
      BY <2>4 DEF Provisioned, OwnProof, Named, Used
    <3>3. proof[ref].actor = binding[a]
      BY <2>2, <3>1, <3>2 DEF RegistryInv
    <3>4. Resolved(c) = IF principal[a] = None THEN [id |-> c, actor |-> binding[a]]
                                               ELSE principal[a]
      BY <3>3 DEF Resolved, Named
    <3> HIDE DEF a, ref
    <3>5. K!Spend(c, ref)
      BY <1>4, <3>1, <3>2, <3>4 DEF K!Spend
    <3>6. QED
      BY <1>5, <3>1, <3>5 DEF K!Next
  <2>5. CASE SessionWritten(c)
    <3>1. Wanted(c).op = "session"
      BY <2>5 DEF SessionWritten, Wanted
    <3>2. sessionWrites' \in {sessionWrites, sessionWrites \union {c}}
      <4>1. CASE call[c].rows.session
        BY <2>5, <4>1 DEF SessionWritten
      <4>2. CASE ~call[c].rows.session
        BY <2>5, <4>2 DEF SessionWritten
      <4>3. QED
        BY <4>1, <4>2
    <3>3. K!Session(c)
      BY <1>4, <2>5, <3>1, <3>2 DEF SessionWritten, K!Session
    <3>4. QED
      BY <1>5, <3>3 DEF K!Next
  <2>6. QED
    BY <2>1, <2>3, <2>4, <2>5
<1>8. QED
  BY <1>6, <1>7

\* A step of c before its COMMIT that does not answer.
LEMMA UnrefusedUnseen ==
  ASSUME IInv, NEW c \in Calls, call[c].at # "done",
         \A op : ~Refuse(c, Raised(op)) /\ ~Refuse(c, Late(op)),
         \/ Lease(c) \/ Lock(c) \/ IssueProof(c) \/ EnterProvision(c) \/ EnterIssue(c)
         \/ ReadProof(c) \/ Consume(c) \/ FinalCheck(c) \/ SessionFunction(c) \/ CheckReceipt(c)
  PROVE  UNCHANGED K!vars
<1>1. call \in [Calls -> CallRecords] /\ call[c] \in CallRecords
  BY DEF IInv, Types
<1>2. CASE Lease(c) \/ Lock(c) \/ EnterProvision(c) \/ EnterIssue(c) \/ FinalCheck(c)
  <2>1. PICK at \in {"entry", "lock", "read", "receipt"} : call' = [call EXCEPT ![c].at = at]
    BY <1>2 DEF Lease, Lock, EnterProvision, EnterIssue, FinalCheck
  <2>2. Silent(c)
    BY <1>1, <2>1 DEF Silent, CallRecords
  <2>3. QED
    BY <1>2, <2>2, Unseen DEF Lease, Lock, EnterProvision, EnterIssue, FinalCheck
<1>3. CASE IssueProof(c)
  <2>1. PICK rows : call' = [call EXCEPT ![c].at = "receipt", ![c].rows = rows]
    BY <1>3 DEF IssueProof
  <2>2. Silent(c)
    BY <1>1, <2>1 DEF Silent, CallRecords
  <2>3. QED
    BY <1>3, <2>2, Unseen DEF IssueProof
<1>4. CASE ReadProof(c)
  <2>1. PICK until : call' = [call EXCEPT ![c].at = "consume", ![c].until = until]
    BY <1>4 DEF ReadProof
  <2>2. Silent(c)
    BY <1>1, <2>1 DEF Silent, CallRecords
  <2>3. QED
    BY <1>4, <2>2, Unseen DEF ReadProof
<1>5. CASE Consume(c)
  <2>1. PICK rows : call' = [call EXCEPT ![c].at = "final", ![c].rows = rows]
    BY <1>5 DEF Consume
  <2>2. Silent(c)
    BY <1>1, <2>1 DEF Silent, CallRecords
  <2>3. QED
    BY <1>5, <2>2, Unseen DEF Consume
<1>6. CASE SessionFunction(c)
  <2>1. PICK until, rows : call' = [call EXCEPT ![c].at = "receipt", ![c].until = until, ![c].rows = rows]
    BY <1>6 DEF SessionFunction
  <2>2. Silent(c)
    BY <1>1, <2>1 DEF Silent, CallRecords
  <2>3. QED
    BY <1>6, <2>2, Unseen DEF SessionFunction
<1>7. CASE CheckReceipt(c)
  <2>1. call' = [call EXCEPT ![c].at = "commit", ![c].checked = now]
    BY <1>7 DEF CheckReceipt
  <2>2. Silent(c)
    BY <1>1, <2>1 DEF Silent, CallRecords
  <2>3. QED
    BY <1>7, <2>2, Unseen DEF CheckReceipt
<1>8. QED
  BY <1>2, <1>3, <1>4, <1>5, <1>6, <1>7

LEMMA ServeRefines ==
  ASSUME IInv, NEW c \in Calls, Serve(c)
  PROVE  K!Next \/ UNCHANGED K!vars
<1>1. call \in [Calls -> CallRecords] /\ call[c] \in CallRecords
  BY DEF IInv, Types
<1>2. ASSUME NEW op \in Operations[c], NEW b \in Bearers,
             NEW ref \in (IF op = "provision" THEN Calls ELSE {c}) \union {None}, Ask(c, op, b, ref)
      PROVE  K!Next
  <2>1. ref \in Calls \union {None}
    OBVIOUS
  <2>2. QED
    BY <1>2, <2>1, AskRefines
<1>3. CASE Commit(c) \/ CommitUnknown(c)
  BY <1>3, CommitRefines
<1>4. ASSUME NEW e, Refuse(c, e), e \in Errors \ {"none"}, call[c].at # "done"
      PROVE  K!Next
  BY <1>4, RefuseRefines
<1>5. \A op : Raised(op) \in Errors \ {"none"} /\ Late(op) \in Errors \ {"none"}
  BY DEF Raised, Late, Errors, Refusals
<1>6. CASE ConnectionFails(c) \/ SessionRefused(c) \/ ContractBroken(c)
  BY <1>4, <1>5, <1>6 DEF ConnectionFails, SessionRefused, ContractBroken, Errors, Refusals
<1>7. CASE \/ Lease(c) \/ Lock(c) \/ IssueProof(c) \/ EnterProvision(c) \/ EnterIssue(c)
            \/ ReadProof(c) \/ Consume(c) \/ FinalCheck(c) \/ SessionFunction(c) \/ CheckReceipt(c)
  <2>1. call[c].at # "done"
    BY <1>7 DEF Lease, Lock, IssueProof, EnterProvision, EnterIssue, ReadProof, Consume,
       FinalCheck, SessionFunction, CheckReceipt
  <2>2. CASE \E e \in Errors \ {"none"} : Refuse(c, e)
    BY <1>4, <2>1, <2>2
  <2>3. CASE ~\E e \in Errors \ {"none"} : Refuse(c, e)
    <3>1. \A op : ~Refuse(c, Raised(op)) /\ ~Refuse(c, Late(op))
      BY <1>5, <2>3
    <3>2. UNCHANGED K!vars
      BY <1>1, <1>7, <2>1, <3>1, UnrefusedUnseen
    <3>3. QED
      BY <3>2
  <2>4. QED
    BY <2>2, <2>3
<1>8. QED
  BY <1>2, <1>3, <1>6, <1>7 DEF Serve

\* The signed calls do to the registry, and say to their callers, only what the calls of
\* AccountLink do and say in single steps.
THEOREM Refinement == Spec => ImplementsLink
<1>1. Init => K!Init
  BY DEF Init, Waiting, Wanted, Told, SessionOperations, K!Init, K!Nothing
<1>2. IInv /\ [Next]_vars => [K!Next]_K!vars
  <2> SUFFICES ASSUME IInv, [Next]_vars PROVE K!Next \/ UNCHANGED K!vars
    OBVIOUS
  <2>1. ASSUME NEW c \in Calls, Serve(c) PROVE K!Next \/ UNCHANGED K!vars
    BY <2>1, ServeRefines
  <2>2. CASE Tick \/ UNCHANGED vars
    BY <2>2 DEF Tick, vars, registry, Wanted, Told, Account, K!vars, K!registry
  <2>3. QED
    BY <2>1, <2>2 DEF Next
<1>3. QED
  BY <1>1, <1>2, Invariance, PTL DEF Spec, ImplementsLink, K!Spec
============================================================================
