--------------------------- MODULE PayloadRecovery ---------------------------
(***************************************************************************)
(* The PRIVATE draft write path: a PostgreSQL attempt ledger and an        *)
(* external payload store that share no transaction, the executors that    *)
(* write through both, and the recovery sweepers that finish or undo what  *)
(* an executor left behind.                                                *)
(*                                                                         *)
(* One call of RecoverablePrivateVoiceExecutor.execute makes exactly one   *)
(* attempt (a fresh uuid4), so the attempt also names the executor.        *)
(* Attempts are numbered in the order of their reservation, which is the   *)
(* order of created_at and of recover_after = created_at + 5 minutes.      *)
(* A step is one statement the database runs atomically, one call of the   *)
(* store, or the local decision that follows one.                          *)
(*                                                                         *)
(* Abstractions.  The authorization fence may refuse any reservation or    *)
(* write.  A payload_ref belongs to one attempt for ever, so only whether  *)
(* it is known is kept.  Voice revision 1 of an attempt and its receipt    *)
(* are inserted together: receipt[r] stands for both.                      *)
(***************************************************************************)
EXTENDS Naturals, FiniteSets, FiniteSetsExt

CONSTANTS
  MaxAttempts,  \* bound: calls of execute() in a behaviour
  Requests,     \* (principal_id, request_id) idempotency keys
  Hashes,       \* request hashes
  Sweepers,     \* recovery workers calling sweep()
  BatchLimit,   \* the limit argument of sweep()
  Undecided     \* PrivateDraft's "no hash decided"

Attempts == 1..MaxAttempts
NoAttempt == 0
Workers == Attempts \cup Sweepers

ASSUME BoundsAssumption == MaxAttempts \in Nat /\ BatchLimit \in Nat \ {0}
ASSUME SweepersAssumption == Sweepers \cap Nat = {}
ASSUME UndecidedAssumption == Undecided \notin Hashes

VARIABLES
  intent,    \* intent[a]: the key and the hash call a asks for
  state,     \* private_payload_attempts.state, "NONE" while there is no row
  reffed,    \* the attempts whose row holds a payload_ref
  receipt,   \* private_draft_receipts: key -> canonical voice_id, or NoAttempt
  object,    \* the store's object for the attempt
  horizon,   \* the attempts 1..horizon have reached recover_after
  inflight,  \* the attempts whose write transaction may still run in the database
  exec,      \* where execute() is
  job,       \* the recover_attempt() call of a worker
  sweep      \* the rows a sweeper still has to recover

ledger == <<state, reffed, receipt>>
vars == <<intent, state, reffed, receipt, object, horizon, inflight, exec, job, sweep>>

------------------------------------------------------------------------------
(* Types *)

Intents == [request : Requests, hash : Hashes]

States == {"NONE", "RESERVED", "NEEDS_COMMIT", "COMMITTED", "ABANDONED", "DISCARDED"}

Objects == {"NONE", "STAGED", "COMMITTED", "GONE"}

ExecStates ==
  {"idle", "stage", "write", "await",  \* reserve, stage, send, wait for the row
   "settle",                           \* the write raised: recover our own attempt
   "canonical", "losing",              \* the write returned: recover winner, then loser
   "report", "returned", "failed"}

JobSteps ==
  {"rest", "look", "relook", "abandon", "claim",
   "commit", "ackCommit", "find", "discard", "ackDiscard"}

\* subject: the attempt being recovered; outer: the losing attempt whose
\* recovery healed subject first, or NoAttempt; mode: the keyword argument.
Jobs == [at : JobSteps, subject : Attempts \cup {NoAttempt},
         outer : Attempts \cup {NoAttempt}, mode : {"plain", "claim", "abandon"}]

Rest == [at |-> "rest", subject |-> NoAttempt, outer |-> NoAttempt, mode |-> "plain"]

Recover(a, mode) == [at |-> "look", subject |-> a, outer |-> NoAttempt, mode |-> mode]

NoRows == [rows |-> {}, reserved |-> {}]

Init ==
  /\ intent \in [Attempts -> Intents]
  /\ state = [a \in Attempts |-> "NONE"]
  /\ reffed = {}
  /\ receipt = [r \in Requests |-> NoAttempt]
  /\ object = [a \in Attempts |-> "NONE"]
  /\ horizon = 0
  /\ inflight = {}
  /\ exec = [a \in Attempts |-> "idle"]
  /\ job = [w \in Workers |-> Rest]
  /\ sweep = [s \in Sweepers |-> NoRows]

------------------------------------------------------------------------------
(* The ledger as its readers see it *)

\* Faulty variant of Canonical: the join forgets the request hash.
CanonicalAnyHash(a) == receipt[intent[a].request]

\* The canonical attempt a snapshot of a joins: the receipt of a's key, if it
\* has a's hash.
Canonical(a) ==
  LET c == receipt[intent[a].request] IN
  IF c # NoAttempt /\ intent[c].hash = intent[a].hash THEN c ELSE NoAttempt

\* The draft of key r is served to its owner.
Readable(r) == receipt[r] # NoAttempt /\ state[receipt[r]] = "COMMITTED"

\* The rows runtime_list_private_payload_recovery selects, oldest first.
Recoverable ==
  {a \in Attempts : \/ state[a] \in {"NEEDS_COMMIT", "ABANDONED"}
                    \/ state[a] = "RESERVED" /\ a <= horizon}

Listed == {a \in Recoverable : Cardinality({b \in Recoverable : b < a}) < BatchLimit}

------------------------------------------------------------------------------
(* execute() up to the outcome of the write *)

Reserve(a) ==
  /\ exec[a] = "idle"
  /\ \A b \in Attempts : b < a => state[b] # "NONE"
  /\ state' = [state EXCEPT ![a] = "RESERVED"]
  /\ exec' = [exec EXCEPT ![a] = "stage"]
  /\ UNCHANGED <<intent, reffed, receipt, object, horizon, inflight, job, sweep>>

\* store.stage(): durable when it returns.
Stage(a) ==
  /\ exec[a] = "stage"
  /\ object' = [object EXCEPT ![a] = "STAGED"]
  /\ exec' = [exec EXCEPT ![a] = "write"]
  /\ UNCHANGED <<intent, ledger, horizon, inflight, job, sweep>>

\* store.stage() raises after the bytes became durable: execute() gives up.
StageRaises(a) ==
  /\ exec[a] = "stage"
  /\ object' = [object EXCEPT ![a] = "STAGED"]
  /\ exec' = [exec EXCEPT ![a] = "failed"]
  /\ UNCHANGED <<intent, ledger, horizon, inflight, job, sweep>>

SendWrite(a) ==
  /\ exec[a] = "write"
  /\ inflight' = inflight \cup {a}
  /\ exec' = [exec EXCEPT ![a] = "await"]
  /\ UNCHANGED <<intent, ledger, object, horizon, job, sweep>>

\* The database ends a's transaction.  Its answer reaches execute() only if
\* execute() still waits, which then recovers attempt b.
Answer(a, next, b, mode) ==
  /\ inflight' = inflight \ {a}
  /\ IF exec[a] = "await"
     THEN /\ exec' = [exec EXCEPT ![a] = next]
          /\ job' = [job EXCEPT ![a] = Recover(b, mode)]
     ELSE UNCHANGED <<exec, job>>

\* Faulty variant of WriteFresh: the attempt is not required to be RESERVED.
WriteFreshUnchecked(a) ==
  /\ a \in inflight
  /\ receipt[intent[a].request] = NoAttempt
  /\ receipt' = [receipt EXCEPT ![intent[a].request] = a]
  /\ state' = [state EXCEPT ![a] = "NEEDS_COMMIT"]
  /\ reffed' = reffed \cup {a}
  /\ Answer(a, "canonical", a, "plain")
  /\ UNCHANGED <<intent, object, horizon, sweep>>

\* Faulty variant of WriteFresh: an existing receipt of the key is not looked up.
WriteFreshOverwrites(a) ==
  /\ a \in inflight
  /\ state[a] = "RESERVED"
  /\ receipt' = [receipt EXCEPT ![intent[a].request] = a]
  /\ state' = [state EXCEPT ![a] = "NEEDS_COMMIT"]
  /\ reffed' = reffed \cup {a}
  /\ Answer(a, "canonical", a, "plain")
  /\ UNCHANGED <<intent, object, horizon, sweep>>

\* No receipt for the key: Voice revision 1, receipt and NEEDS_COMMIT together.
WriteFresh(a) ==
  /\ a \in inflight
  /\ state[a] = "RESERVED"
  /\ receipt[intent[a].request] = NoAttempt
  /\ receipt' = [receipt EXCEPT ![intent[a].request] = a]
  /\ state' = [state EXCEPT ![a] = "NEEDS_COMMIT"]
  /\ reffed' = reffed \cup {a}
  /\ Answer(a, "canonical", a, "plain")
  /\ UNCHANGED <<intent, object, horizon, sweep>>

\* Faulty variant of WriteReplay: the loser is left to be committed.
WriteReplayKeeps(a) ==
  /\ a \in inflight
  /\ state[a] = "RESERVED"
  /\ Canonical(a) # NoAttempt
  /\ state' = [state EXCEPT ![a] = "NEEDS_COMMIT"]
  /\ reffed' = reffed \cup {a}
  /\ Answer(a, "canonical", Canonical(a), "plain")
  /\ UNCHANGED <<intent, receipt, object, horizon, sweep>>

\* The key has a receipt of the same hash: this attempt has lost.
WriteReplay(a) ==
  /\ a \in inflight
  /\ state[a] = "RESERVED"
  /\ Canonical(a) # NoAttempt
  /\ state[Canonical(a)] \in {"NEEDS_COMMIT", "COMMITTED"}
  /\ Canonical(a) \in reffed
  /\ state' = [state EXCEPT ![a] = "ABANDONED"]
  /\ reffed' = reffed \cup {a}
  /\ Answer(a, "canonical", Canonical(a), "plain")
  /\ UNCHANGED <<intent, receipt, object, horizon, sweep>>

\* The key has a receipt of another hash (P2001): the transaction rolls back.
WriteConflict(a) ==
  /\ a \in inflight
  /\ state[a] = "RESERVED"
  /\ receipt[intent[a].request] # NoAttempt
  /\ Canonical(a) = NoAttempt
  /\ Answer(a, "settle", a, "abandon")
  /\ UNCHANGED <<intent, ledger, object, horizon, sweep>>

\* The attempt is no longer RESERVED (P2002), the fence refuses, or the
\* transaction aborts: nothing is written.
WriteRejected(a) ==
  /\ a \in inflight
  /\ Answer(a, "settle", a, "abandon")
  /\ UNCHANGED <<intent, ledger, object, horizon, sweep>>

\* The connection fails while execute() waits.  The transaction may have
\* committed, may have aborted, or may still be running.
LoseAnswer(a) ==
  /\ exec[a] = "await"
  /\ exec' = [exec EXCEPT ![a] = "settle"]
  /\ job' = [job EXCEPT ![a] = Recover(a, "abandon")]
  /\ UNCHANGED <<intent, ledger, object, horizon, inflight, sweep>>

------------------------------------------------------------------------------
(* recover_attempt(), run by executors and by sweepers *)

\* Faulty variant of NextRow: the claim flag is not passed on.
NextRowNeverClaims(sw) ==
  IF sw.rows = {} THEN Rest ELSE Recover(Min(sw.rows), "plain")

\* The next row of the batch, claimed if it was RESERVED when it was listed.
NextRow(sw) ==
  IF sw.rows = {} THEN Rest
  ELSE LET a == Min(sw.rows) IN
       Recover(a, IF a \in sw.reserved THEN "claim" ELSE "plain")

SweepOn(s, sw) ==
  /\ sweep' = [sweep EXCEPT ![s] = sw]
  /\ job' = [job EXCEPT ![s] = NextRow(sw)]
  /\ UNCHANGED exec

ExecOn(a, next, j) ==
  /\ exec' = [exec EXCEPT ![a] = next]
  /\ job' = [job EXCEPT ![a] = j]
  /\ UNCHANGED sweep

\* Faulty variant of ExecReturn: a replay does not recover its own attempt.
ExecReturnSkipsLoser(a, st) ==
  IF exec[a] = "canonical" /\ st = "COMMITTED"
  THEN ExecOn(a, "report", Rest)
  ELSE ExecOn(a, "failed", Rest)

\* execute() after its recover_attempt() returned a snapshot in state st.
ExecReturn(a, st) ==
  CASE exec[a] = "canonical" /\ st = "COMMITTED" ->
         IF job[a].subject = a
         THEN ExecOn(a, "report", Rest)
         ELSE ExecOn(a, "losing", Recover(a, "plain"))
    [] exec[a] = "losing" /\ st = "DISCARDED" -> ExecOn(a, "report", Rest)
    [] OTHER -> ExecOn(a, "failed", Rest)

\* recover_attempt() of the current subject returns: to the loser that healed
\* it first, to the next row of the batch, or to execute().
Return(w, st) ==
  IF job[w].outer # NoAttempt
  THEN /\ job' = [job EXCEPT ![w] = [at |-> "relook", subject |-> job[w].outer,
                                     outer |-> NoAttempt, mode |-> job[w].mode]]
       /\ UNCHANGED <<exec, sweep>>
  ELSE IF w \in Sweepers
       THEN SweepOn(w, [sweep[w] EXCEPT !.rows = @ \ {job[w].subject}])
       ELSE ExecReturn(w, st)

\* An exception leaves recover_attempt(): the rest of the batch is dropped,
\* and execute() raises.
Raise(w) ==
  IF w \in Sweepers THEN SweepOn(w, NoRows) ELSE ExecOn(w, "failed", Rest)

Goto(w, step) ==
  /\ job' = [job EXCEPT ![w].at = step]
  /\ UNCHANGED <<exec, sweep>>

\* The mode of the innermost call: a canonical attempt is healed in plain mode.
ModeOf(w) == IF job[w].outer = NoAttempt THEN job[w].mode ELSE "plain"

\* Faulty variant of Decide: the database is told before the store commits.
DecideAcksFirst(w, a) ==
  CASE state[a] = "RESERVED" /\ ModeOf(w) = "abandon" -> Goto(w, "abandon")
    [] state[a] = "RESERVED" /\ ModeOf(w) = "claim" -> Goto(w, "claim")
    [] state[a] = "NEEDS_COMMIT" -> Goto(w, "ackCommit")
    [] state[a] = "ABANDONED" -> Goto(w, IF a \in reffed THEN "discard" ELSE "find")
    [] OTHER -> Return(w, state[a])

\* What the snapshot decides, once a lost race is out of the way.
Decide(w, a) ==
  CASE state[a] = "RESERVED" /\ ModeOf(w) = "abandon" -> Goto(w, "abandon")
    [] state[a] = "RESERVED" /\ ModeOf(w) = "claim" -> Goto(w, "claim")
    [] state[a] = "NEEDS_COMMIT" -> Goto(w, "commit")
    [] state[a] = "ABANDONED" -> Goto(w, IF a \in reffed THEN "discard" ELSE "find")
    [] OTHER -> Return(w, state[a])

\* A loser whose winner still needs its commit.
HealsFirst(a) ==
  LET c == Canonical(a) IN c \notin {NoAttempt, a} /\ state[c] = "NEEDS_COMMIT"

\* The snapshot on entry: such a loser has its winner recovered before itself.
LookHeals(w) ==
  LET a == job[w].subject IN
  /\ job[w].at = "look"
  /\ HealsFirst(a)
  /\ job' = [job EXCEPT ![w] = [at |-> "look", subject |-> Canonical(a), outer |-> a,
                                mode |-> job[w].mode]]
  /\ UNCHANGED <<intent, ledger, object, horizon, inflight, exec, sweep>>

Look(w) ==
  LET a == job[w].subject IN
  /\ job[w].at = "look"
  /\ ~HealsFirst(a)
  /\ Decide(w, a)
  /\ UNCHANGED <<intent, ledger, object, horizon, inflight>>

Relook(w) ==
  /\ job[w].at = "relook"
  /\ Decide(w, job[w].subject)
  /\ UNCHANGED <<intent, ledger, object, horizon, inflight>>

\* Faulty variant of Abandon: the update does not look at the state.
AbandonBlind(w) ==
  LET a == job[w].subject IN
  /\ job[w].at = "abandon"
  /\ state' = [state EXCEPT ![a] = "ABANDONED"]
  /\ reffed' = reffed \cup {a}
  /\ job' = [job EXCEPT ![w].at = "relook", ![w].mode = "plain"]
  /\ UNCHANGED <<intent, receipt, object, horizon, inflight, exec, sweep>>

\* runtime_abandon_private_payload_attempt: idempotent on ABANDONED, and an
\* error on any other state than RESERVED.
Abandon(w) ==
  LET a == job[w].subject IN
  /\ job[w].at = "abandon"
  /\ IF state[a] \in {"RESERVED", "ABANDONED"}
     THEN /\ state' = [state EXCEPT ![a] = "ABANDONED"]
          /\ reffed' = IF state[a] = "RESERVED" THEN reffed \cup {a} ELSE reffed
          /\ job' = [job EXCEPT ![w].at = "relook", ![w].mode = "plain"]
          /\ UNCHANGED <<exec, sweep>>
     ELSE Raise(w) /\ UNCHANGED <<state, reffed>>
  /\ UNCHANGED <<intent, receipt, object, horizon, inflight>>

\* Faulty variant of Claim: only the lease is compared, not the state.
ClaimBlind(w) ==
  LET a == job[w].subject IN
  /\ job[w].at = "claim"
  /\ IF a <= horizon
     THEN /\ state' = [state EXCEPT ![a] = "ABANDONED"]
          /\ job' = [job EXCEPT ![w].at = "relook", ![w].mode = "plain"]
          /\ UNCHANGED <<exec, sweep>>
     ELSE Return(w, "RESERVED") /\ UNCHANGED state
  /\ UNCHANGED <<intent, reffed, receipt, object, horizon, inflight>>

\* runtime_claim_stale_private_payload_attempt: a conditional update, no ref.
Claim(w) ==
  LET a == job[w].subject IN
  /\ job[w].at = "claim"
  /\ IF state[a] = "RESERVED" /\ a <= horizon
     THEN /\ state' = [state EXCEPT ![a] = "ABANDONED"]
          /\ job' = [job EXCEPT ![w].at = "relook", ![w].mode = "plain"]
          /\ UNCHANGED <<exec, sweep>>
     ELSE Return(w, "RESERVED") /\ UNCHANGED state
  /\ UNCHANGED <<intent, reffed, receipt, object, horizon, inflight>>

\* store.commit(): idempotent, and an error unless STAGED or COMMITTED.
StoreCommit(w) ==
  LET a == job[w].subject IN
  /\ job[w].at = "commit"
  /\ object[a] \in {"STAGED", "COMMITTED"}
  /\ object' = [object EXCEPT ![a] = "COMMITTED"]
  /\ Goto(w, "ackCommit")
  /\ UNCHANGED <<intent, ledger, horizon, inflight>>

\* runtime_mark_private_payload_committed, and the snapshot that reads it back.
AckCommit(w) ==
  LET a == job[w].subject IN
  /\ job[w].at = "ackCommit"
  /\ a \in reffed
  /\ \/ state[a] = "COMMITTED"
     \/ state[a] = "NEEDS_COMMIT" /\ \E r \in Requests : receipt[r] = a
  /\ state' = [state EXCEPT ![a] = "COMMITTED"]
  /\ Return(w, "COMMITTED")
  /\ UNCHANGED <<intent, reffed, receipt, object, horizon, inflight>>

\* store.find_staged(): a claimed row has no ref.
FindStaged(w) ==
  /\ job[w].at = "find"
  /\ Goto(w, IF object[job[w].subject] = "STAGED" THEN "discard" ELSE "ackDiscard")
  /\ UNCHANGED <<intent, ledger, object, horizon, inflight>>

\* store.discard(): idempotent, and an error on a COMMITTED object.
StoreDiscard(w) ==
  LET a == job[w].subject IN
  /\ job[w].at = "discard"
  /\ object[a] # "COMMITTED"
  /\ object' = IF object[a] = "STAGED" THEN [object EXCEPT ![a] = "GONE"] ELSE object
  /\ Goto(w, "ackDiscard")
  /\ UNCHANGED <<intent, ledger, horizon, inflight>>

\* runtime_mark_private_payload_discarded, and the snapshot that reads it back.
AckDiscard(w) ==
  LET a == job[w].subject IN
  /\ job[w].at = "ackDiscard"
  /\ state[a] \in {"ABANDONED", "DISCARDED"}
  /\ state' = [state EXCEPT ![a] = "DISCARDED"]
  /\ Return(w, "DISCARDED")
  /\ UNCHANGED <<intent, reffed, receipt, object, horizon, inflight>>

------------------------------------------------------------------------------
(* The end of execute(), sweeps, failures and the clock *)

\* The last snapshot: a receipt only over a COMMITTED canonical payload.
Report(a) ==
  /\ exec[a] = "report"
  /\ exec' = [exec EXCEPT ![a] = IF /\ Canonical(a) # NoAttempt
                                    /\ state[Canonical(a)] = "COMMITTED"
                                 THEN "returned" ELSE "failed"]
  /\ UNCHANGED <<intent, ledger, object, horizon, inflight, job, sweep>>

\* execute() dies, or an error of the store or of the database ends it.
Stop(a) ==
  /\ exec[a] \notin {"idle", "returned", "failed"}
  /\ ExecOn(a, "failed", Rest)
  /\ UNCHANGED <<intent, ledger, object, horizon, inflight>>

\* sweep(): list one batch and start on its oldest row.
ListRows(s) ==
  /\ sweep[s].rows = {}
  /\ Listed # {}
  /\ SweepOn(s, [rows |-> Listed, reserved |-> {a \in Listed : state[a] = "RESERVED"}])
  /\ UNCHANGED <<intent, ledger, object, horizon, inflight>>

\* A sweeper dies, or an error ends its sweep.
StopSweep(s) ==
  /\ sweep[s].rows # {}
  /\ SweepOn(s, NoRows)
  /\ UNCHANGED <<intent, ledger, object, horizon, inflight>>

\* The clock passes recover_after of the oldest reservation still ahead of it.
Age ==
  /\ horizon < MaxAttempts
  /\ state[horizon + 1] # "NONE"
  /\ horizon' = horizon + 1
  /\ UNCHANGED <<intent, ledger, object, inflight, exec, job, sweep>>

RecoverStep(w) ==
  \/ LookHeals(w) \/ Look(w) \/ Relook(w) \/ Abandon(w) \/ Claim(w)
  \/ StoreCommit(w) \/ AckCommit(w)
  \/ FindStaged(w) \/ StoreDiscard(w) \/ AckDiscard(w)

WriteStep(a) ==
  WriteFresh(a) \/ WriteReplay(a) \/ WriteConflict(a) \/ WriteRejected(a)

Next ==
  \/ \E a \in Attempts :
       \/ Reserve(a) \/ Stage(a) \/ StageRaises(a) \/ SendWrite(a)
       \/ WriteStep(a) \/ LoseAnswer(a) \/ Report(a) \/ Stop(a)
  \/ \E w \in Workers : RecoverStep(w)
  \/ \E s \in Sweepers : ListRows(s) \/ StopSweep(s)
  \/ Age

Spec == Init /\ [][Next]_vars

------------------------------------------------------------------------------
(* Properties *)

VarTypes ==
  /\ intent \in [Attempts -> Intents]
  /\ state \in [Attempts -> States]
  /\ reffed \in SUBSET Attempts
  /\ receipt \in [Requests -> Attempts \cup {NoAttempt}]
  /\ object \in [Attempts -> Objects]
  /\ horizon \in 0..MaxAttempts
  /\ inflight \in SUBSET Attempts
  /\ exec \in [Attempts -> ExecStates]
  /\ job \in [Workers -> Jobs]
  /\ sweep \in [Sweepers -> [rows : SUBSET Attempts, reserved : SUBSET Attempts]]

\* The CHECK constraint of private_payload_attempts: no reference while
\* RESERVED, a reference once a Voice exists.
LedgerCheck ==
  \A a \in Attempts :
    /\ state[a] \in {"NONE", "RESERVED"} => a \notin reffed
    /\ state[a] \in {"NEEDS_COMMIT", "COMMITTED"} => a \in reffed

\* The types of the variables, and the row constraint the ledger table declares.
TypeOK == VarTypes /\ LedgerCheck

\* The ledger and the receipts tell one story: an attempt is in a winning state
\* exactly when the receipt of its key names it, whatever executors, late
\* writes and sweepers did to it.
LedgerMatchesReceipts ==
  \A a \in Attempts :
    state[a] \in {"NEEDS_COMMIT", "COMMITTED"} <=> receipt[intent[a].request] = a

\* No recovery, however stale its snapshot, destroys the bytes of a draft that
\* has a receipt, even if the write that made the receipt came late.
CanonicalPayloadKept ==
  \A r \in Requests :
    receipt[r] # NoAttempt => object[receipt[r]] \in {"STAGED", "COMMITTED"}

\* A draft the owner read may return has its payload committed in the store.
ReadableIsDurable ==
  \A r \in Requests : Readable(r) => object[receipt[r]] = "COMMITTED"

\* The store never commits the payload of a loser: such an object could not be
\* discarded any more.
OnlyCanonicalCommitted ==
  \A a \in Attempts : object[a] = "COMMITTED" => receipt[intent[a].request] = a

\* execute() returns a receipt only for its own text, and only once that text
\* is readable and durable.
ReceiptMeansDurable ==
  \A a \in Attempts :
    exec[a] = "returned" =>
      LET c == receipt[intent[a].request] IN
      /\ c # NoAttempt
      /\ intent[c].hash = intent[a].hash
      /\ state[c] = "COMMITTED"
      /\ object[c] = "COMMITTED"

\* A replayed execute() returns only after the copy it staged itself is gone.
ReplayLeavesNoStage ==
  \A a \in Attempts :
    exec[a] = "returned" /\ receipt[intent[a].request] # a =>
      state[a] = "DISCARDED" /\ object[a] # "STAGED"

\* What the triggers let through, for the row of a.
AllowedTransition(a) ==
  /\ \/ <<state[a], state'[a]>> \in
          {<<"NONE", "RESERVED">>, <<"RESERVED", "NEEDS_COMMIT">>,
           <<"RESERVED", "ABANDONED">>, <<"NEEDS_COMMIT", "COMMITTED">>,
           <<"ABANDONED", "DISCARDED">>}
     \/ state'[a] = state[a] /\ (a \in reffed' <=> a \in reffed)
  /\ a \in reffed => a \in reffed'

\* The functions never attempt an update the ledger and receipt triggers would
\* reject: no rewind, no changed reference, no second receipt for a key.
TriggersNeverFire ==
  [][/\ \A a \in Attempts : AllowedTransition(a)
     /\ \A r \in Requests : receipt[r] # NoAttempt => receipt'[r] = receipt[r]]_vars

\* The state of PrivateDraft in which a state of this module is.
DecidedHashes ==
  [r \in Requests |-> IF receipt[r] = NoAttempt THEN Undecided ELSE intent[receipt[r]].hash]

DurableKeys ==
  {r \in Requests : receipt[r] # NoAttempt /\ object[receipt[r]] = "COMMITTED"}

Replies ==
  [a \in Attempts |-> CASE exec[a] = "returned" -> "receipt"
                        [] exec[a] = "failed" -> "refused"
                        [] OTHER -> "pending"]

Draft == INSTANCE PrivateDraft WITH
  Calls <- Attempts, draft <- DecidedHashes, durable <- DurableKeys, reply <- Replies

\* The write path implements its promise: a key is decided once, its payload
\* becomes durable after the decision and for ever, and a receipt follows both.
ImplementsPrivateDraft == Draft!Spec

\* The environment recovery needs: the clock moves, a sweeper is scheduled and
\* takes its next step when it has one, and its failures do not go on for ever.
\* Executors may stop anywhere and need not be fair.
Fairness ==
  /\ WF_vars(Age)
  /\ \A s \in Sweepers : WF_vars(RecoverStep(s) \/ ListRows(s))
  /\ <>[][\A s \in Sweepers : ~StopSweep(s)]_vars

FairSpec == Spec /\ Fairness

\* Every reservation ends in a terminal state, wherever its executor stopped.
EveryAttemptTerminates ==
  \A a \in Attempts :
    state[a] = "RESERVED" ~> state[a] \in {"COMMITTED", "DISCARDED"}

\* "DISCARDED: the external staged object of the abandoned attempt is deleted
\* or absent", once its executor has ended.  The code does not keep this: a
\* stage() that outlasts the lease lands after find_staged() found nothing.
NoOrphanStage ==
  \A a \in Attempts :
    state[a] = "DISCARDED" /\ exec[a] \in {"returned", "failed"} =>
      object[a] # "STAGED"
=============================================================================
