------------------------ MODULE PayloadRecovery_proofs ------------------------
(***************************************************************************)
(* The safety of the draft write path for any number of calls, keys,       *)
(* texts, sweepers and any batch limit.                                    *)
(***************************************************************************)
EXTENDS PayloadRecovery, TLAPS, NaturalsInduction, WellFoundedInduction

Winning == {"NEEDS_COMMIT", "COMMITTED"}
Losing == {"ABANDONED", "DISCARDED"}
Recovering == {"settle", "canonical", "losing"}

------------------------------------------------------------------------------
(* The inductive invariant *)

\* A recovery call has an attempt to recover, and an executor makes one only
\* where execute() does.
JobInv ==
  \A w \in Workers : job[w].at # "rest" =>
    /\ job[w].subject \in Attempts
    /\ w \in Attempts => exec[w] \in Recovering

\* A receipt names an attempt of its key that has won, and every winner has it.
ReceiptInv ==
  /\ \A r \in Requests : receipt[r] # NoAttempt =>
       /\ intent[receipt[r]].request = r
       /\ state[receipt[r]] \in Winning
  /\ \A a \in Attempts : state[a] \in Winning => receipt[intent[a].request] = a

\* How far a recovery call may lag behind the row it recovers: once it is past
\* its snapshot the row has already taken the side the call acts on.
SideInv ==
  \A w \in Workers :
    LET a == job[w].subject IN
    /\ job[w].at \in {"commit", "ackCommit"} => state[a] \in Winning
    /\ job[w].at = "ackCommit" => object[a] = "COMMITTED"
    /\ job[w].at \in {"find", "discard", "ackDiscard"} => state[a] \in Losing

\* What the store holds for a row in each state.
ObjectInv ==
  \A a \in Attempts :
    /\ object[a] = "GONE" => state[a] \in Losing
    /\ object[a] = "COMMITTED" => state[a] \in Winning
    /\ state[a] = "NEEDS_COMMIT" => object[a] \in {"STAGED", "COMMITTED"}
    /\ state[a] = "COMMITTED" => object[a] = "COMMITTED"

\* A write can only become canonical over a staged payload: nobody discards a
\* RESERVED attempt, and nobody stages after the write was sent.
WriteInv ==
  \A a \in Attempts :
    /\ exec[a] = "idle" => state[a] = "NONE"
    /\ exec[a] \in {"idle", "stage", "write"} => a \notin inflight /\ state[a] \notin Winning
    /\ (exec[a] = "write" \/ a \in inflight) /\ state[a] = "RESERVED" => object[a] = "STAGED"

IInv ==
  VarTypes /\ LedgerCheck /\ JobInv /\ ReceiptInv /\ SideInv /\ ObjectInv /\ WriteInv

------------------------------------------------------------------------------
(* What a step of a recovery call does to the workers *)

LEMMA WorkersDisjoint ==
  /\ Attempts \cap Sweepers = {}
  /\ NoAttempt \notin Attempts
BY SweepersAssumption, BoundsAssumption DEF Attempts, NoAttempt

LEMMA MinOfRows ==
  ASSUME NEW S \in SUBSET Attempts, S # {}
  PROVE  Min(S) \in S
<1> DEFINE Less == {p \in Nat \X Nat : p[1] < p[2]}
<1>1. S \in SUBSET Nat
  BY BoundsAssumption DEF Attempts
<1>2. IsWellFoundedOn(Less, Nat)
  BY NatLessThanWellFounded, Zenon DEF OpToRel
<1>3. PICK x \in S : \A y \in S : <<y, x>> \notin Less
  <2> HIDE DEF Less
  <2> QED BY <1>1, <1>2, WFMin
<1>4. ASSUME NEW y \in S PROVE x <= y
  <2>1. x \in Nat /\ y \in Nat
    BY <1>1
  <2>2. y < x => <<y, x>> \in Less
    BY <2>1
  <2>3. QED
    BY <2>1, <2>2, <1>3
<1>5. QED
  BY <1>4 DEF Min

\* What may become of w when its call of recover_attempt moves on: it is the only
\* worker that moves, to one of the steps, and its executor goes no further than
\* the next recovery, the report or a failure.
Moves(w, steps) ==
  /\ job' \in [Workers -> Jobs]
  /\ exec' \in [Attempts -> ExecStates]
  /\ sweep' \in [Sweepers -> [rows : SUBSET Attempts, reserved : SUBSET Attempts]]
  /\ \A v \in Workers \ {w} : job'[v] = job[v]
  /\ job'[w].at \in steps
  /\ job'[w].at # "rest" =>
       job'[w].subject \in Attempts /\ (w \in Attempts => exec'[w] \in Recovering)
  /\ \A a \in Attempts :
       \/ exec'[a] = exec[a]
       \/ a = w /\ exec[a] \in Recovering /\ exec'[a] \in {"losing", "report", "failed"}

LEMMA SweepMoves ==
  ASSUME VarTypes, NEW s \in Sweepers,
         NEW sw \in [rows : SUBSET Attempts, reserved : SUBSET Attempts],
         SweepOn(s, sw)
  PROVE  Moves(s, {"rest", "look"})
<1>1. NextRow(sw) \in Jobs /\ NextRow(sw).at \in {"rest", "look"}
      /\ (NextRow(sw).at # "rest" => NextRow(sw).subject \in Attempts)
  <2>1. CASE sw.rows = {}
    BY <2>1 DEF NextRow, Rest, Jobs, JobSteps
  <2>2. CASE sw.rows # {}
    <3>1. Min(sw.rows) \in Attempts
      BY <2>2, MinOfRows
    <3>2. QED
      BY <2>2, <3>1 DEF NextRow, Recover, Jobs, JobSteps
  <2>3. QED
    BY <2>1, <2>2
<1>2. s \in Workers /\ s \notin Attempts
  BY WorkersDisjoint DEF Workers
<1>3. QED
  BY <1>1, <1>2 DEF SweepOn, Moves, VarTypes

LEMMA ExecMoves ==
  ASSUME VarTypes, NEW a \in Attempts, NEW next, NEW j \in Jobs,
         exec[a] \in Recovering,
         next \in {"losing", "report", "failed"},
         j.at \in {"rest", "look"},
         j.at # "rest" => j.subject \in Attempts /\ next = "losing",
         ExecOn(a, next, j)
  PROVE  Moves(a, {"rest", "look"})
<1>1. a \in Workers
  BY DEF Workers
<1>2. next \in ExecStates
  BY DEF ExecStates
<1>3. QED
  BY <1>1, <1>2 DEF ExecOn, Moves, VarTypes, Recovering

LEMMA RestIsJob == Rest \in Jobs /\ Rest.at = "rest"
BY DEF Rest, Jobs, JobSteps

LEMMA RecoverIsJob ==
  ASSUME NEW a \in Attempts, NEW mode \in {"plain", "claim", "abandon"}
  PROVE  Recover(a, mode) \in Jobs /\ Recover(a, mode).at = "look"
         /\ Recover(a, mode).subject = a /\ Recover(a, mode).outer = NoAttempt
BY DEF Recover, Jobs, JobSteps

LEMMA RaiseMoves ==
  ASSUME VarTypes, JobInv, NEW w \in Workers, job[w].at # "rest", Raise(w)
  PROVE  Moves(w, {"rest", "look", "relook"})
<1>1. CASE w \in Sweepers
  <2>1. NoRows \in [rows : SUBSET Attempts, reserved : SUBSET Attempts]
    BY DEF NoRows
  <2>2. Moves(w, {"rest", "look"})
    BY <1>1, <2>1, SweepMoves DEF Raise
  <2>3. QED
    BY <2>2 DEF Moves
<1>2. CASE w \notin Sweepers
  <2>1. w \in Attempts /\ exec[w] \in Recovering
    BY <1>2 DEF Workers, JobInv
  <2>2. Moves(w, {"rest", "look"})
    BY <1>2, <2>1, RestIsJob, ExecMoves DEF Raise
  <2>3. QED
    BY <2>2 DEF Moves
<1>3. QED
  BY <1>1, <1>2

LEMMA ReturnMoves ==
  ASSUME VarTypes, JobInv, NEW w \in Workers, job[w].at # "rest", NEW st, Return(w, st)
  PROVE  Moves(w, {"rest", "look", "relook"})
<1>1. job[w] \in Jobs
  BY DEF VarTypes
<1>2. CASE job[w].outer # NoAttempt
  <2>1. job[w].outer \in Attempts /\ job[w].mode \in {"plain", "claim", "abandon"}
    BY <1>1, <1>2 DEF Jobs
  <2>2. w \in Attempts => exec[w] \in Recovering
    BY DEF JobInv
  <2>3. QED
    BY <1>2, <2>1, <2>2 DEF Return, Moves, VarTypes, Jobs, JobSteps
<1>3. CASE job[w].outer = NoAttempt /\ w \in Sweepers
  <2>1. [sweep[w] EXCEPT !.rows = @ \ {job[w].subject}]
          \in [rows : SUBSET Attempts, reserved : SUBSET Attempts]
    BY <1>3 DEF VarTypes
  <2>2. Moves(w, {"rest", "look"})
    BY <1>3, <2>1, SweepMoves DEF Return
  <2>3. QED
    BY <2>2 DEF Moves
<1>4. CASE job[w].outer = NoAttempt /\ w \notin Sweepers
  <2>1. w \in Attempts /\ exec[w] \in Recovering
    BY <1>4 DEF Workers, JobInv
  <2>2. Recover(w, "plain") \in Jobs /\ Recover(w, "plain").at = "look"
        /\ Recover(w, "plain").subject = w
    BY <2>1, RecoverIsJob
  <2>3. \/ ExecOn(w, "report", Rest)
        \/ ExecOn(w, "losing", Recover(w, "plain"))
        \/ ExecOn(w, "failed", Rest)
    BY <1>4 DEF Return, ExecReturn
  <2>4. Moves(w, {"rest", "look"})
    BY <2>1, <2>2, <2>3, RestIsJob, ExecMoves
  <2>5. QED
    BY <2>4 DEF Moves
<1>5. QED
  BY <1>2, <1>3, <1>4

LEMMA GotoMoves ==
  ASSUME VarTypes, JobInv, NEW w \in Workers, job[w].at # "rest",
         NEW step \in JobSteps, Goto(w, step)
  PROVE  Moves(w, {step}) /\ job'[w].subject = job[w].subject /\ exec' = exec
<1>1. job[w] \in Jobs
  BY DEF VarTypes
<1>2. [job[w] EXCEPT !.at = step] \in Jobs
  BY <1>1 DEF Jobs
<1>3. job' = [job EXCEPT ![w] = [job[w] EXCEPT !.at = step]]
  BY DEF Goto
<1>4. QED
  BY <1>1, <1>2, <1>3 DEF Goto, Moves, VarTypes, JobInv, Jobs
------------------------------------------------------------------------------
(* What every step leaves true *)

\* An attempt never changes sides, and committed bytes stay committed.
SidesKept ==
  \A a \in Attempts :
    /\ state[a] \in Winning => state'[a] \in Winning
    /\ state[a] \in Losing => state'[a] \in Losing
    /\ object[a] = "COMMITTED" => object'[a] = "COMMITTED"

LEMMA MovesKeepJobInv ==
  ASSUME JobInv, NEW w \in Workers, NEW steps, Moves(w, steps)
  PROVE  JobInv'
BY DEF JobInv, Moves

LEMMA MovesKeepSideInv ==
  ASSUME JobInv, SideInv, SidesKept, NEW w \in Workers,
         Moves(w, {"rest", "look", "relook"})
  PROVE  SideInv'
<1> SUFFICES ASSUME NEW v \in Workers
             PROVE  LET a == job'[v].subject IN
                    /\ job'[v].at \in {"commit", "ackCommit"} => state'[a] \in Winning
                    /\ job'[v].at = "ackCommit" => object'[a] = "COMMITTED"
                    /\ job'[v].at \in {"find", "discard", "ackDiscard"} => state'[a] \in Losing
  BY DEF SideInv
<1>1. CASE v = w
  BY <1>1 DEF Moves
<1>2. CASE v # w
  <2>1. job'[v] = job[v]
    BY <1>2 DEF Moves
  <2>2. job[v].at # "rest" => job[v].subject \in Attempts
    BY DEF JobInv
  <2>3. QED
    BY <2>1, <2>2 DEF SideInv, SidesKept
<1>3. QED
  BY <1>1, <1>2

LEMMA MovesKeepWriteInv ==
  ASSUME WriteInv, NEW w \in Workers, NEW steps, Moves(w, steps),
         inflight' = inflight,
         \A a \in Attempts :
           /\ state'[a] \in Winning => state[a] \in Winning
           /\ state[a] = "NONE" => state'[a] = "NONE"
           /\ state'[a] = "RESERVED" => state[a] = "RESERVED" /\ object'[a] = object[a]
  PROVE  WriteInv'
<1> SUFFICES ASSUME NEW a \in Attempts
             PROVE  /\ exec'[a] = "idle" => state'[a] = "NONE"
                    /\ exec'[a] \in {"idle", "stage", "write"} =>
                         a \notin inflight' /\ state'[a] \notin Winning
                    /\ (exec'[a] = "write" \/ a \in inflight') /\ state'[a] = "RESERVED" =>
                         object'[a] = "STAGED"
  BY DEF WriteInv
<1>1. exec'[a] \in {"idle", "stage", "write"} => exec'[a] = exec[a]
  BY DEF Moves
<1>2. QED
  BY <1>1 DEF WriteInv

\* A step of a recovery call that only moves its worker back.
LEMMA MovesBack ==
  ASSUME IInv, NEW w \in Workers, Moves(w, {"rest", "look", "relook"}),
         UNCHANGED <<intent, ledger, object, horizon, inflight>>
  PROVE  IInv'
<1>1. VarTypes'
  BY DEF IInv, VarTypes, Moves, ledger
<1>2. LedgerCheck' /\ ReceiptInv' /\ ObjectInv'
  BY DEF IInv, LedgerCheck, ReceiptInv, ObjectInv, ledger
<1>3. JobInv'
  BY MovesKeepJobInv DEF IInv
<1>4. SideInv'
  <2>1. SidesKept
    BY DEF SidesKept, ledger
  <2>2. QED
    BY <2>1, MovesKeepSideInv DEF IInv
<1>5. WriteInv'
  BY MovesKeepWriteInv DEF IInv, ledger
<1>6. QED
  BY <1>1, <1>2, <1>3, <1>4, <1>5 DEF IInv

\* The decision on a snapshot either sends the call back or takes it to a step
\* whose side the row is on.
LEMMA DecideKeeps ==
  ASSUME IInv, NEW w \in Workers, job[w].at # "rest", Decide(w, job[w].subject),
         UNCHANGED <<intent, ledger, object, horizon, inflight>>
  PROVE  IInv'
<1> DEFINE a == job[w].subject
<1>1. VarTypes /\ JobInv /\ SideInv /\ a \in Attempts
  BY DEF IInv, JobInv
<1>2. CASE Return(w, state[a])
  BY <1>1, <1>2, ReturnMoves, MovesBack
<1>3. ASSUME NEW step \in JobSteps, Goto(w, step),
             step = "commit" => state[a] \in Winning,
             step \in {"discard", "find"} => state[a] \in Losing,
             step \notin {"ackCommit", "ackDiscard"}
      PROVE  IInv'
  <2>1. Moves(w, {step}) /\ job'[w].subject = a /\ exec' = exec
    BY <1>1, <1>3, GotoMoves
  <2>2. VarTypes'
    BY <2>1 DEF IInv, VarTypes, Moves, ledger
  <2>3. LedgerCheck' /\ ReceiptInv' /\ ObjectInv'
    BY DEF IInv, LedgerCheck, ReceiptInv, ObjectInv, ledger
  <2>4. JobInv'
    BY <2>1, <1>1, MovesKeepJobInv
  <2>5. SideInv'
    BY <1>1, <1>3, <2>1 DEF SideInv, Moves, ledger
  <2>6. WriteInv'
    BY <2>1, MovesKeepWriteInv DEF IInv, ledger
  <2>7. QED
    BY <2>2, <2>3, <2>4, <2>5, <2>6 DEF IInv
<1>4. CASE Goto(w, "abandon") \/ Goto(w, "claim")
  BY <1>3, <1>4 DEF JobSteps
<1>5. CASE state[a] = "NEEDS_COMMIT" /\ Goto(w, "commit")
  BY <1>3, <1>5 DEF JobSteps, Winning
<1>6. CASE state[a] = "ABANDONED" /\ (Goto(w, "discard") \/ Goto(w, "find"))
  BY <1>3, <1>6 DEF JobSteps, Losing
<1>7. QED
  BY <1>2, <1>4, <1>5, <1>6 DEF Decide

LEMMA LookHealsKeeps ==
  ASSUME IInv, NEW w \in Workers, LookHeals(w)
  PROVE  IInv'
<1> DEFINE a == job[w].subject
           heal == [at |-> "look", subject |-> Canonical(a), outer |-> a,
                    mode |-> job[w].mode]
<1>1. a \in Attempts /\ (w \in Attempts => exec[w] \in Recovering)
  BY DEF IInv, JobInv, LookHeals
<1>2. Canonical(a) \in Attempts
  <2>1. intent[a].request \in Requests
    BY <1>1 DEF IInv, VarTypes, Intents
  <2>2. QED
    BY <2>1 DEF IInv, VarTypes, Canonical, HealsFirst, LookHeals
<1>3. heal \in Jobs
  BY <1>1, <1>2 DEF IInv, VarTypes, Jobs, JobSteps
<1>4. Moves(w, {"rest", "look", "relook"})
  BY <1>1, <1>2, <1>3 DEF LookHeals, Moves, IInv, VarTypes
<1>5. QED
  BY <1>4, MovesBack DEF LookHeals

LEMMA AbandonKeeps ==
  ASSUME IInv, NEW w \in Workers, Abandon(w)
  PROVE  IInv'
<1> DEFINE a == job[w].subject
<1>1. a \in Attempts /\ job[w].at = "abandon" /\ VarTypes /\ JobInv
      /\ (w \in Attempts => exec[w] \in Recovering)
  BY DEF IInv, JobInv, Abandon
<1>2. CASE state[a] \notin {"RESERVED", "ABANDONED"}
  <2>1. Moves(w, {"rest", "look", "relook"})
    BY <1>1, <1>2, RaiseMoves DEF Abandon
  <2>2. QED
    BY <1>2, <2>1, MovesBack DEF Abandon, ledger
<1>3. CASE state[a] \in {"RESERVED", "ABANDONED"}
  <2>1. /\ state' = [state EXCEPT ![a] = "ABANDONED"]
        /\ reffed' = IF state[a] = "RESERVED" THEN reffed \cup {a} ELSE reffed
        /\ job' = [job EXCEPT ![w].at = "relook", ![w].mode = "plain"]
        /\ UNCHANGED <<intent, receipt, object, horizon, inflight, exec, sweep>>
    BY <1>3 DEF Abandon
  <2>2. Moves(w, {"rest", "look", "relook"})
    <3>1. job[w] \in Jobs
      BY <1>1 DEF VarTypes
    <3>2. job'[w].at = "relook" /\ job'[w].subject = a /\ job' \in [Workers -> Jobs]
      BY <1>1, <2>1, <3>1 DEF VarTypes, Jobs, JobSteps
    <3>3. QED
      BY <1>1, <2>1, <3>2 DEF Moves, VarTypes
  <2>3. VarTypes'
    BY <1>1, <2>1, <2>2 DEF VarTypes, States, Moves
  <2>4. LedgerCheck'
    BY <1>1, <2>1, <1>3 DEF IInv, VarTypes, LedgerCheck
  <2>5. JobInv'
    BY <1>1, <2>2, MovesKeepJobInv
  <2>6. ReceiptInv'
    BY <1>1, <2>1, <1>3 DEF IInv, VarTypes, ReceiptInv, Winning
  <2>7. SideInv'
    <3>1. SidesKept
      BY <1>1, <1>3, <2>1 DEF SidesKept, VarTypes, Winning, Losing
    <3>2. QED
      BY <2>2, <3>1, MovesKeepSideInv DEF IInv
  <2>8. ObjectInv'
    BY <1>1, <2>1, <1>3 DEF IInv, VarTypes, ObjectInv, Winning, Losing
  <2>9. WriteInv'
    <3>1. \A b \in Attempts :
            /\ state'[b] \in Winning => state[b] \in Winning
            /\ state[b] = "NONE" => state'[b] = "NONE"
            /\ state'[b] = "RESERVED" => state[b] = "RESERVED" /\ object'[b] = object[b]
      BY <1>1, <1>3, <2>1 DEF VarTypes, Winning
    <3>2. QED
      BY <2>1, <2>2, <3>1, MovesKeepWriteInv DEF IInv
  <2>10. QED
    BY <2>3, <2>4, <2>5, <2>6, <2>7, <2>8, <2>9 DEF IInv
<1>4. QED
  BY <1>2, <1>3

LEMMA ClaimKeeps ==
  ASSUME IInv, NEW w \in Workers, Claim(w)
  PROVE  IInv'
<1> DEFINE a == job[w].subject
<1>1. a \in Attempts /\ job[w].at = "claim" /\ VarTypes /\ JobInv
      /\ (w \in Attempts => exec[w] \in Recovering)
  BY DEF IInv, JobInv, Claim
<1>2. CASE ~(state[a] = "RESERVED" /\ a <= horizon)
  <2>1. Moves(w, {"rest", "look", "relook"})
    BY <1>1, <1>2, ReturnMoves DEF Claim
  <2>2. QED
    BY <1>2, <2>1, MovesBack DEF Claim, ledger
<1>3. CASE state[a] = "RESERVED" /\ a <= horizon
  <2>1. /\ state' = [state EXCEPT ![a] = "ABANDONED"]
        /\ job' = [job EXCEPT ![w].at = "relook", ![w].mode = "plain"]
        /\ UNCHANGED <<intent, reffed, receipt, object, horizon, inflight, exec, sweep>>
    BY <1>3 DEF Claim
  <2>2. Moves(w, {"rest", "look", "relook"})
    <3>1. job[w] \in Jobs
      BY <1>1 DEF VarTypes
    <3>2. job'[w].at = "relook" /\ job'[w].subject = a /\ job' \in [Workers -> Jobs]
      BY <1>1, <2>1, <3>1 DEF VarTypes, Jobs, JobSteps
    <3>3. QED
      BY <1>1, <2>1, <3>2 DEF Moves, VarTypes
  <2>3. VarTypes'
    BY <1>1, <2>1, <2>2 DEF VarTypes, States, Moves
  <2>4. LedgerCheck'
    BY <1>1, <2>1, <1>3 DEF IInv, VarTypes, LedgerCheck
  <2>5. JobInv'
    BY <1>1, <2>2, MovesKeepJobInv
  <2>6. ReceiptInv'
    BY <1>1, <2>1, <1>3 DEF IInv, VarTypes, ReceiptInv, Winning
  <2>7. SideInv'
    <3>1. SidesKept
      BY <1>1, <1>3, <2>1 DEF SidesKept, VarTypes, Winning, Losing
    <3>2. QED
      BY <2>2, <3>1, MovesKeepSideInv DEF IInv
  <2>8. ObjectInv'
    BY <1>1, <2>1, <1>3 DEF IInv, VarTypes, ObjectInv, Winning, Losing
  <2>9. WriteInv'
    <3>1. \A b \in Attempts :
            /\ state'[b] \in Winning => state[b] \in Winning
            /\ state[b] = "NONE" => state'[b] = "NONE"
            /\ state'[b] = "RESERVED" => state[b] = "RESERVED" /\ object'[b] = object[b]
      BY <1>1, <1>3, <2>1 DEF VarTypes, Winning
    <3>2. QED
      BY <2>1, <2>2, <3>1, MovesKeepWriteInv DEF IInv
  <2>10. QED
    BY <2>3, <2>4, <2>5, <2>6, <2>7, <2>8, <2>9 DEF IInv
<1>4. QED
  BY <1>2, <1>3

LEMMA StoreCommitKeeps ==
  ASSUME IInv, NEW w \in Workers, StoreCommit(w)
  PROVE  IInv'
<1> DEFINE a == job[w].subject
<1>1. /\ a \in Attempts /\ VarTypes /\ JobInv /\ state[a] \in Winning
      /\ object' = [object EXCEPT ![a] = "COMMITTED"]
      /\ Goto(w, "ackCommit")
      /\ UNCHANGED <<intent, ledger, horizon, inflight>>
  BY DEF IInv, JobInv, SideInv, StoreCommit
<1>2. Moves(w, {"ackCommit"}) /\ job'[w].subject = a
  BY <1>1, GotoMoves DEF StoreCommit, JobSteps
<1>3. VarTypes'
  BY <1>1, <1>2 DEF VarTypes, Objects, Moves, ledger
<1>4. LedgerCheck' /\ ReceiptInv'
  BY <1>1 DEF IInv, LedgerCheck, ReceiptInv, ledger
<1>5. JobInv'
  BY <1>1, <1>2, MovesKeepJobInv
<1>6. SideInv'
  <2> SUFFICES ASSUME NEW v \in Workers
               PROVE  LET b == job'[v].subject IN
                      /\ job'[v].at \in {"commit", "ackCommit"} => state'[b] \in Winning
                      /\ job'[v].at = "ackCommit" => object'[b] = "COMMITTED"
                      /\ job'[v].at \in {"find", "discard", "ackDiscard"} => state'[b] \in Losing
    BY DEF SideInv
  <2>1. CASE v = w
    BY <1>1, <1>2, <2>1 DEF Moves, VarTypes, ledger
  <2>2. CASE v # w
    <3>1. job'[v] = job[v] /\ (job[v].at # "rest" => job[v].subject \in Attempts)
      BY <1>1, <1>2, <2>2 DEF Moves, JobInv
    <3>2. QED
      BY <1>1, <3>1 DEF IInv, SideInv, VarTypes, ledger
  <2>3. QED
    BY <2>1, <2>2
<1>7. ObjectInv'
  BY <1>1 DEF IInv, ObjectInv, VarTypes, Winning, Losing, ledger
<1>8. WriteInv'
  <2>1. \A b \in Attempts :
          /\ state'[b] \in Winning => state[b] \in Winning
          /\ state[b] = "NONE" => state'[b] = "NONE"
          /\ state'[b] = "RESERVED" => state[b] = "RESERVED" /\ object'[b] = object[b]
    BY <1>1 DEF VarTypes, Winning, ledger
  <2>2. QED
    BY <1>1, <1>2, <2>1, MovesKeepWriteInv DEF IInv
<1>9. QED
  BY <1>3, <1>4, <1>5, <1>6, <1>7, <1>8 DEF IInv

LEMMA AckCommitKeeps ==
  ASSUME IInv, NEW w \in Workers, AckCommit(w)
  PROVE  IInv'
<1> DEFINE a == job[w].subject
<1>1. /\ a \in Attempts /\ VarTypes /\ JobInv
      /\ state[a] \in Winning /\ object[a] = "COMMITTED" /\ a \in reffed
      /\ state' = [state EXCEPT ![a] = "COMMITTED"]
      /\ UNCHANGED <<intent, reffed, receipt, object, horizon, inflight>>
  BY DEF IInv, JobInv, SideInv, AckCommit
<1>2. Moves(w, {"rest", "look", "relook"})
  BY <1>1, ReturnMoves DEF AckCommit
<1>3. VarTypes'
  BY <1>1, <1>2 DEF VarTypes, States, Moves
<1>4. LedgerCheck'
  BY <1>1 DEF IInv, LedgerCheck, VarTypes
<1>5. JobInv'
  BY <1>1, <1>2, MovesKeepJobInv
<1>6. ReceiptInv'
  BY <1>1 DEF IInv, ReceiptInv, VarTypes, Winning
<1>7. SideInv'
  <2>1. SidesKept
    BY <1>1 DEF SidesKept, VarTypes, Winning, Losing
  <2>2. QED
    BY <1>2, <2>1, MovesKeepSideInv DEF IInv
<1>8. ObjectInv'
  BY <1>1 DEF IInv, ObjectInv, VarTypes, Winning, Losing
<1>9. WriteInv'
  <2>1. \A b \in Attempts :
          /\ state'[b] \in Winning => state[b] \in Winning
          /\ state[b] = "NONE" => state'[b] = "NONE"
          /\ state'[b] = "RESERVED" => state[b] = "RESERVED" /\ object'[b] = object[b]
    BY <1>1 DEF VarTypes, Winning
  <2>2. QED
    BY <1>1, <1>2, <2>1, MovesKeepWriteInv DEF IInv
<1>10. QED
  BY <1>3, <1>4, <1>5, <1>6, <1>7, <1>8, <1>9 DEF IInv

LEMMA FindStagedKeeps ==
  ASSUME IInv, NEW w \in Workers, FindStaged(w)
  PROVE  IInv'
<1> DEFINE a == job[w].subject
           step == IF object[a] = "STAGED" THEN "discard" ELSE "ackDiscard"
<1>1. /\ a \in Attempts /\ VarTypes /\ JobInv /\ state[a] \in Losing
      /\ Goto(w, step)
      /\ UNCHANGED <<intent, ledger, object, horizon, inflight>>
  BY DEF IInv, JobInv, SideInv, FindStaged
<1>2. step \in JobSteps
  BY DEF JobSteps
<1>3. Moves(w, {step}) /\ job'[w].subject = a
  BY <1>1, <1>2, GotoMoves DEF FindStaged
<1>4. VarTypes'
  BY <1>1, <1>3 DEF VarTypes, Moves, ledger
<1>5. LedgerCheck' /\ ReceiptInv' /\ ObjectInv'
  BY <1>1 DEF IInv, LedgerCheck, ReceiptInv, ObjectInv, ledger
<1>6. JobInv'
  BY <1>1, <1>3, MovesKeepJobInv
<1>7. SideInv'
  BY <1>1, <1>3 DEF IInv, SideInv, Moves, ledger
<1>8. WriteInv'
  BY <1>1, <1>3, MovesKeepWriteInv DEF IInv, ledger
<1>9. QED
  BY <1>4, <1>5, <1>6, <1>7, <1>8 DEF IInv

LEMMA StoreDiscardKeeps ==
  ASSUME IInv, NEW w \in Workers, StoreDiscard(w)
  PROVE  IInv'
<1> DEFINE a == job[w].subject
<1>1. /\ a \in Attempts /\ VarTypes /\ JobInv /\ state[a] \in Losing
      /\ object[a] # "COMMITTED"
      /\ object' = IF object[a] = "STAGED" THEN [object EXCEPT ![a] = "GONE"] ELSE object
      /\ Goto(w, "ackDiscard")
      /\ UNCHANGED <<intent, ledger, horizon, inflight>>
  BY DEF IInv, JobInv, SideInv, StoreDiscard
<1>2. Moves(w, {"ackDiscard"}) /\ job'[w].subject = a
  BY <1>1, GotoMoves DEF StoreDiscard, JobSteps
<1>3. VarTypes'
  BY <1>1, <1>2 DEF VarTypes, Objects, Moves, ledger
<1>4. LedgerCheck' /\ ReceiptInv'
  BY <1>1 DEF IInv, LedgerCheck, ReceiptInv, ledger
<1>5. JobInv'
  BY <1>1, <1>2, MovesKeepJobInv
<1>6. SideInv'
  <2> SUFFICES ASSUME NEW v \in Workers
               PROVE  LET b == job'[v].subject IN
                      /\ job'[v].at \in {"commit", "ackCommit"} => state'[b] \in Winning
                      /\ job'[v].at = "ackCommit" => object'[b] = "COMMITTED"
                      /\ job'[v].at \in {"find", "discard", "ackDiscard"} => state'[b] \in Losing
    BY DEF SideInv
  <2>1. CASE v = w
    BY <1>1, <1>2, <2>1 DEF Moves, ledger
  <2>2. CASE v # w
    <3>1. job'[v] = job[v] /\ (job[v].at # "rest" => job[v].subject \in Attempts)
      BY <1>1, <1>2, <2>2 DEF Moves, JobInv
    <3>2. QED
      BY <1>1, <3>1 DEF IInv, SideInv, VarTypes, ledger
  <2>3. QED
    BY <2>1, <2>2
<1>7. ObjectInv'
  BY <1>1 DEF IInv, ObjectInv, VarTypes, Winning, Losing, ledger
<1>8. WriteInv'
  <2>1. \A b \in Attempts :
          /\ state'[b] \in Winning => state[b] \in Winning
          /\ state[b] = "NONE" => state'[b] = "NONE"
          /\ state'[b] = "RESERVED" => state[b] = "RESERVED" /\ object'[b] = object[b]
    BY <1>1 DEF VarTypes, Losing, ledger
  <2>2. QED
    BY <1>1, <1>2, <2>1, MovesKeepWriteInv DEF IInv
<1>9. QED
  BY <1>3, <1>4, <1>5, <1>6, <1>7, <1>8 DEF IInv

LEMMA AckDiscardKeeps ==
  ASSUME IInv, NEW w \in Workers, AckDiscard(w)
  PROVE  IInv'
<1> DEFINE a == job[w].subject
<1>1. /\ a \in Attempts /\ VarTypes /\ JobInv /\ state[a] \in Losing
      /\ state' = [state EXCEPT ![a] = "DISCARDED"]
      /\ UNCHANGED <<intent, reffed, receipt, object, horizon, inflight>>
  BY DEF IInv, JobInv, SideInv, AckDiscard
<1>2. Moves(w, {"rest", "look", "relook"})
  BY <1>1, ReturnMoves DEF AckDiscard
<1>3. VarTypes'
  BY <1>1, <1>2 DEF VarTypes, States, Moves
<1>4. LedgerCheck'
  BY <1>1 DEF IInv, LedgerCheck, VarTypes
<1>5. JobInv'
  BY <1>1, <1>2, MovesKeepJobInv
<1>6. ReceiptInv'
  BY <1>1 DEF IInv, ReceiptInv, VarTypes, Winning, Losing
<1>7. SideInv'
  <2>1. SidesKept
    BY <1>1 DEF SidesKept, VarTypes, Winning, Losing
  <2>2. QED
    BY <1>2, <2>1, MovesKeepSideInv DEF IInv
<1>8. ObjectInv'
  BY <1>1 DEF IInv, ObjectInv, VarTypes, Winning, Losing
<1>9. WriteInv'
  <2>1. \A b \in Attempts :
          /\ state'[b] \in Winning => state[b] \in Winning
          /\ state[b] = "NONE" => state'[b] = "NONE"
          /\ state'[b] = "RESERVED" => state[b] = "RESERVED" /\ object'[b] = object[b]
    BY <1>1 DEF VarTypes, Winning, Losing
  <2>2. QED
    BY <1>1, <1>2, <2>1, MovesKeepWriteInv DEF IInv
<1>10. QED
  BY <1>3, <1>4, <1>5, <1>6, <1>7, <1>8, <1>9 DEF IInv

LEMMA RecoverStepKeeps ==
  ASSUME IInv, NEW w \in Workers, RecoverStep(w)
  PROVE  IInv'
<1>1. CASE Look(w)
  BY <1>1, DecideKeeps DEF Look
<1>2. CASE Relook(w)
  BY <1>2, DecideKeeps DEF Relook
<1>3. QED
  BY <1>1, <1>2, LookHealsKeeps, AbandonKeeps, ClaimKeeps, StoreCommitKeeps,
     AckCommitKeeps, FindStagedKeeps, StoreDiscardKeeps, AckDiscardKeeps
     DEF RecoverStep
------------------------------------------------------------------------------
(* The steps of executors, of the write transaction and of sweeps *)

\* Such a step leaves every recovery call alone or starts it afresh, and takes
\* no executor back before its write.
Restarts ==
  /\ job' \in [Workers -> Jobs]
  /\ exec' \in [Attempts -> ExecStates]
  /\ sweep' \in [Sweepers -> [rows : SUBSET Attempts, reserved : SUBSET Attempts]]
  /\ \A v \in Workers : job'[v] = job[v] \/ job'[v].at \in {"rest", "look"}
  /\ \A a \in Attempts : exec'[a] \in {"idle", "stage", "write"} => exec'[a] = exec[a]
  /\ JobInv'

LEMMA RestartsKeepSideInv ==
  ASSUME JobInv, SideInv, SidesKept, Restarts
  PROVE  SideInv'
<1> SUFFICES ASSUME NEW v \in Workers
             PROVE  LET a == job'[v].subject IN
                    /\ job'[v].at \in {"commit", "ackCommit"} => state'[a] \in Winning
                    /\ job'[v].at = "ackCommit" => object'[a] = "COMMITTED"
                    /\ job'[v].at \in {"find", "discard", "ackDiscard"} => state'[a] \in Losing
  BY DEF SideInv
<1>1. job[v].at # "rest" => job[v].subject \in Attempts
  BY DEF JobInv
<1>2. QED
  BY <1>1 DEF Restarts, SideInv, SidesKept

\* A step that moves workers and leaves the ledger and the store alone.
LEMMA RestartsKeep ==
  ASSUME IInv, Restarts, inflight' \subseteq inflight,
         UNCHANGED <<intent, ledger, object, horizon>>
  PROVE  IInv'
<1>1. VarTypes'
  BY DEF IInv, VarTypes, Restarts, ledger
<1>2. LedgerCheck' /\ ReceiptInv' /\ ObjectInv'
  BY DEF IInv, LedgerCheck, ReceiptInv, ObjectInv, ledger
<1>3. SideInv'
  <2>1. SidesKept
    BY DEF SidesKept, ledger
  <2>2. QED
    BY <2>1, RestartsKeepSideInv DEF IInv
<1>4. WriteInv'
  BY DEF IInv, WriteInv, Restarts, ledger
<1>5. QED
  BY <1>1, <1>2, <1>3, <1>4 DEF IInv, Restarts

LEMMA AnswerRestarts ==
  ASSUME IInv, NEW a \in Attempts, NEW next \in {"settle", "canonical"},
         NEW b \in Attempts, NEW mode \in {"plain", "claim", "abandon"},
         Answer(a, next, b, mode), UNCHANGED sweep
  PROVE  Restarts /\ inflight' = inflight \ {a}
<1>1. VarTypes /\ JobInv /\ a \in Workers
  BY DEF IInv, Workers
<1>2. CASE exec[a] = "await"
  <2>1. /\ exec' = [exec EXCEPT ![a] = next]
        /\ job' = [job EXCEPT ![a] = Recover(b, mode)]
    BY <1>2 DEF Answer
  <2>2. job' \in [Workers -> Jobs] /\ exec' \in [Attempts -> ExecStates]
    BY <1>1, <2>1, RecoverIsJob DEF VarTypes, ExecStates
  <2>3. JobInv'
    BY <1>1, <2>1, RecoverIsJob DEF VarTypes, JobInv, Recovering
  <2>4. QED
    BY <1>1, <2>1, <2>2, <2>3, RecoverIsJob DEF VarTypes, Restarts, Answer
<1>3. CASE exec[a] # "await"
  BY <1>1, <1>3 DEF VarTypes, JobInv, Restarts, Answer
<1>4. QED
  BY <1>2, <1>3

LEMMA WriteFreshKeeps ==
  ASSUME IInv, NEW a \in Attempts, WriteFresh(a)
  PROVE  IInv'
<1> DEFINE r == intent[a].request
<1>1. /\ a \in inflight /\ state[a] = "RESERVED" /\ receipt[r] = NoAttempt
      /\ receipt' = [receipt EXCEPT ![r] = a]
      /\ state' = [state EXCEPT ![a] = "NEEDS_COMMIT"]
      /\ reffed' = reffed \cup {a}
      /\ UNCHANGED <<intent, object, horizon, sweep>>
  BY DEF WriteFresh
<1>2. Restarts /\ inflight' = inflight \ {a}
  BY AnswerRestarts DEF WriteFresh
<1>3. VarTypes /\ r \in Requests
  BY DEF IInv, VarTypes, Intents
<1>4. VarTypes'
  BY <1>1, <1>2, <1>3 DEF VarTypes, States, Restarts
<1>5. LedgerCheck'
  BY <1>1, <1>3 DEF IInv, LedgerCheck, VarTypes
<1>6. ReceiptInv'
  <2>1. NoAttempt \notin Attempts
    BY WorkersDisjoint
  <2>2. ASSUME NEW q \in Requests, receipt'[q] # NoAttempt
        PROVE  intent'[receipt'[q]].request = q /\ state'[receipt'[q]] \in Winning
    <3>1. CASE q = r
      BY <1>1, <1>3, <3>1 DEF VarTypes, Winning
    <3>2. CASE q # r
      BY <1>1, <1>3, <2>2, <3>2 DEF IInv, ReceiptInv, VarTypes, Winning
    <3>3. QED
      BY <3>1, <3>2
  <2>3. ASSUME NEW b \in Attempts, state'[b] \in Winning
        PROVE  receipt'[intent'[b].request] = b
    <3>1. CASE b = a
      BY <1>1, <1>3, <3>1 DEF VarTypes
    <3>2. CASE b # a
      BY <1>1, <1>3, <2>1, <2>3, <3>2 DEF IInv, ReceiptInv, VarTypes
    <3>3. QED
      BY <3>1, <3>2
  <2>4. QED
    BY <2>2, <2>3 DEF ReceiptInv
<1>7. SideInv'
  <2>1. SidesKept
    BY <1>1, <1>3 DEF SidesKept, VarTypes, Winning, Losing
  <2>2. QED
    BY <1>2, <2>1, RestartsKeepSideInv DEF IInv
<1>8. ObjectInv'
  <2>1. object[a] = "STAGED"
    BY <1>1 DEF IInv, WriteInv
  <2>2. QED
    BY <1>1, <1>3, <2>1 DEF IInv, ObjectInv, VarTypes, Winning, Losing
<1>9. WriteInv'
  BY <1>1, <1>2, <1>3 DEF IInv, WriteInv, Restarts, VarTypes, Winning
<1>10. QED
  BY <1>2, <1>4, <1>5, <1>6, <1>7, <1>8, <1>9 DEF IInv, Restarts

LEMMA ReplayKeeps ==
  ASSUME IInv, NEW a \in Attempts, WriteReplay(a)
  PROVE  IInv'
<1>1. /\ a \in inflight /\ state[a] = "RESERVED"
      /\ state' = [state EXCEPT ![a] = "ABANDONED"]
      /\ reffed' = reffed \cup {a}
      /\ UNCHANGED <<intent, receipt, object, horizon, sweep>>
  BY DEF WriteReplay
<1>2. VarTypes /\ Canonical(a) \in Attempts
  BY DEF IInv, VarTypes, Intents, Canonical, WriteReplay
<1>3. Restarts /\ inflight' = inflight \ {a}
  BY <1>2, AnswerRestarts DEF WriteReplay
<1>4. VarTypes'
  BY <1>1, <1>2, <1>3 DEF VarTypes, States, Restarts
<1>5. LedgerCheck'
  BY <1>1, <1>2 DEF IInv, LedgerCheck, VarTypes
<1>6. ReceiptInv'
  BY <1>1, <1>2 DEF IInv, ReceiptInv, VarTypes, Winning
<1>7. SideInv'
  <2>1. SidesKept
    BY <1>1, <1>2 DEF SidesKept, VarTypes, Winning, Losing
  <2>2. QED
    BY <1>3, <2>1, RestartsKeepSideInv DEF IInv
<1>8. ObjectInv'
  BY <1>1, <1>2 DEF IInv, ObjectInv, VarTypes, Winning, Losing
<1>9. WriteInv'
  BY <1>1, <1>2, <1>3 DEF IInv, WriteInv, Restarts, VarTypes, Winning
<1>10. QED
  BY <1>3, <1>4, <1>5, <1>6, <1>7, <1>8, <1>9 DEF IInv, Restarts

LEMMA WriteStepKeeps ==
  ASSUME IInv, NEW a \in Attempts, WriteStep(a)
  PROVE  IInv'
<1>1. CASE WriteConflict(a) \/ WriteRejected(a)
  <2>1. Restarts /\ inflight' = inflight \ {a}
    BY <1>1, AnswerRestarts DEF WriteConflict, WriteRejected
  <2>2. QED
    BY <1>1, <2>1, RestartsKeep DEF WriteConflict, WriteRejected
<1>2. QED
  BY <1>1, WriteFreshKeeps, ReplayKeeps DEF WriteStep

LEMMA ReserveKeeps ==
  ASSUME IInv, NEW a \in Attempts, Reserve(a)
  PROVE  IInv'
<1>1. /\ VarTypes /\ exec[a] = "idle" /\ state[a] = "NONE" /\ a \notin inflight
      /\ state' = [state EXCEPT ![a] = "RESERVED"]
      /\ exec' = [exec EXCEPT ![a] = "stage"]
      /\ UNCHANGED <<intent, reffed, receipt, object, horizon, inflight, job, sweep>>
  BY DEF IInv, WriteInv, Reserve
<1>2. VarTypes'
  BY <1>1 DEF VarTypes, States, ExecStates
<1>3. LedgerCheck'
  BY <1>1 DEF IInv, LedgerCheck, VarTypes
<1>4. JobInv'
  BY <1>1 DEF IInv, JobInv, VarTypes, Recovering
<1>5. ReceiptInv'
  BY <1>1 DEF IInv, ReceiptInv, VarTypes, Winning
<1>6. SideInv'
  <2> SUFFICES ASSUME NEW v \in Workers
               PROVE  LET b == job[v].subject IN
                      /\ job[v].at \in {"commit", "ackCommit"} => state'[b] \in Winning
                      /\ job[v].at = "ackCommit" => object[b] = "COMMITTED"
                      /\ job[v].at \in {"find", "discard", "ackDiscard"} => state'[b] \in Losing
    BY <1>1 DEF SideInv
  <2>1. job[v].at # "rest" => job[v].subject \in Attempts
    BY DEF IInv, JobInv
  <2>2. QED
    BY <1>1, <2>1 DEF IInv, SideInv, VarTypes, Winning, Losing
<1>7. ObjectInv'
  BY <1>1 DEF IInv, ObjectInv, VarTypes, Winning, Losing
<1>8. WriteInv'
  BY <1>1 DEF IInv, WriteInv, VarTypes, Winning
<1>9. QED
  BY <1>2, <1>3, <1>4, <1>5, <1>6, <1>7, <1>8 DEF IInv

LEMMA StageKeeps ==
  ASSUME IInv, NEW a \in Attempts, Stage(a) \/ StageRaises(a)
  PROVE  IInv'
<1>1. /\ VarTypes /\ exec[a] = "stage" /\ a \notin inflight
      /\ state[a] \notin Winning /\ object[a] # "COMMITTED"
      /\ object' = [object EXCEPT ![a] = "STAGED"]
      /\ UNCHANGED <<intent, ledger, horizon, inflight, job, sweep>>
  BY DEF IInv, WriteInv, ObjectInv, Stage, StageRaises
<1>2. exec' = [exec EXCEPT ![a] = "write"] \/ exec' = [exec EXCEPT ![a] = "failed"]
  BY DEF Stage, StageRaises
<1>3. VarTypes'
  BY <1>1, <1>2 DEF VarTypes, Objects, ExecStates, ledger
<1>4. LedgerCheck' /\ ReceiptInv'
  BY <1>1 DEF IInv, LedgerCheck, ReceiptInv, ledger
<1>5. JobInv'
  BY <1>1, <1>2 DEF IInv, JobInv, VarTypes, Recovering
<1>6. SideInv'
  <2> SUFFICES ASSUME NEW v \in Workers
               PROVE  LET b == job[v].subject IN
                      /\ job[v].at \in {"commit", "ackCommit"} => state[b] \in Winning
                      /\ job[v].at = "ackCommit" => object'[b] = "COMMITTED"
                      /\ job[v].at \in {"find", "discard", "ackDiscard"} => state[b] \in Losing
    BY <1>1 DEF SideInv, ledger
  <2>1. job[v].at # "rest" => job[v].subject \in Attempts
    BY DEF IInv, JobInv
  <2>2. QED
    BY <1>1, <2>1 DEF IInv, SideInv, VarTypes
<1>7. ObjectInv'
  BY <1>1 DEF IInv, ObjectInv, VarTypes, Winning, ledger
<1>8. WriteInv'
  BY <1>1, <1>2 DEF IInv, WriteInv, VarTypes, ledger
<1>9. QED
  BY <1>3, <1>4, <1>5, <1>6, <1>7, <1>8 DEF IInv

LEMMA SendWriteKeeps ==
  ASSUME IInv, NEW a \in Attempts, SendWrite(a)
  PROVE  IInv'
<1>1. /\ VarTypes /\ exec[a] = "write"
      /\ inflight' = inflight \cup {a}
      /\ exec' = [exec EXCEPT ![a] = "await"]
      /\ UNCHANGED <<intent, ledger, object, horizon, job, sweep>>
  BY DEF IInv, SendWrite
<1>2. VarTypes'
  BY <1>1 DEF VarTypes, ExecStates, ledger
<1>3. LedgerCheck' /\ ReceiptInv' /\ SideInv' /\ ObjectInv'
  BY <1>1 DEF IInv, LedgerCheck, ReceiptInv, SideInv, ObjectInv, ledger
<1>4. JobInv'
  BY <1>1 DEF IInv, JobInv, VarTypes, Recovering
<1>5. WriteInv'
  BY <1>1 DEF IInv, WriteInv, VarTypes, ledger
<1>6. QED
  BY <1>2, <1>3, <1>4, <1>5 DEF IInv

LEMMA EndOfExecuteKeeps ==
  ASSUME IInv, NEW a \in Attempts, LoseAnswer(a) \/ Report(a) \/ Stop(a)
  PROVE  IInv'
<1>1. VarTypes /\ JobInv /\ a \in Workers
  BY DEF IInv, Workers
<1>2. CASE LoseAnswer(a)
  <2>1. Restarts
    BY <1>1, <1>2, RecoverIsJob
       DEF LoseAnswer, Restarts, VarTypes, JobInv, Recovering, ExecStates
  <2>2. QED
    BY <1>2, <2>1, RestartsKeep DEF LoseAnswer
<1>3. CASE Report(a)
  <2>1. PICK end \in {"returned", "failed"} : exec' = [exec EXCEPT ![a] = end]
    BY <1>3 DEF Report
  <2>2. exec[a] = "report" /\ UNCHANGED <<intent, ledger, object, horizon, inflight, job, sweep>>
    BY <1>3 DEF Report
  <2>3. Restarts
    BY <1>1, <2>1, <2>2 DEF Restarts, VarTypes, JobInv, Recovering, ExecStates
  <2>4. QED
    BY <2>2, <2>3, RestartsKeep
<1>4. CASE Stop(a)
  <2>1. Restarts
    BY <1>1, <1>4, RestIsJob
       DEF Stop, ExecOn, Restarts, VarTypes, JobInv, Recovering, ExecStates
  <2>2. QED
    BY <1>4, <2>1, RestartsKeep DEF Stop
<1>5. QED
  BY <1>2, <1>3, <1>4

LEMMA SweepStepKeeps ==
  ASSUME IInv, NEW s \in Sweepers, ListRows(s) \/ StopSweep(s)
  PROVE  IInv'
<1>1. PICK sw \in [rows : SUBSET Attempts, reserved : SUBSET Attempts] : SweepOn(s, sw)
  <2>1. Listed \in SUBSET Attempts
    BY DEF Listed, Recoverable
  <2>2. QED
    BY <2>1 DEF ListRows, StopSweep, NoRows
<1>2. Moves(s, {"rest", "look"}) /\ s \in Workers
  BY <1>1, SweepMoves DEF IInv, Workers
<1>3. Moves(s, {"rest", "look", "relook"})
  BY <1>2 DEF Moves
<1>4. QED
  BY <1>2, <1>3, MovesBack DEF ListRows, StopSweep

LEMMA AgeKeeps ==
  ASSUME IInv, Age
  PROVE  IInv'
<1>1. VarTypes'
  BY BoundsAssumption DEF IInv, VarTypes, Age, ledger
<1>2. QED
  BY <1>1 DEF IInv, LedgerCheck, JobInv, ReceiptInv, SideInv, ObjectInv, WriteInv, Age, ledger

------------------------------------------------------------------------------
(* The theorems *)

LEMMA InitIInv == Init => IInv
<1> SUFFICES ASSUME Init PROVE IInv
  OBVIOUS
<1>1. VarTypes
  <2>1. Rest \in Jobs
    BY RestIsJob
  <2>2. NoRows \in [rows : SUBSET Attempts, reserved : SUBSET Attempts]
    BY DEF NoRows
  <2>3. QED
    BY <2>1, <2>2, BoundsAssumption DEF Init, VarTypes, States, Objects, ExecStates
<1>2. LedgerCheck /\ ReceiptInv /\ ObjectInv /\ WriteInv
  BY DEF Init, LedgerCheck, ReceiptInv, ObjectInv, WriteInv, Winning, Losing
<1>3. JobInv /\ SideInv
  BY RestIsJob DEF Init, JobInv, SideInv
<1>4. QED
  BY <1>1, <1>2, <1>3 DEF IInv

LEMMA NextIInv == IInv /\ [Next]_vars => IInv'
<1> SUFFICES ASSUME IInv, [Next]_vars PROVE IInv'
  OBVIOUS
<1>1. ASSUME NEW a \in Attempts,
             Reserve(a) \/ Stage(a) \/ StageRaises(a) \/ SendWrite(a)
             \/ WriteStep(a) \/ LoseAnswer(a) \/ Report(a) \/ Stop(a)
      PROVE  IInv'
  BY <1>1, ReserveKeeps, StageKeeps, SendWriteKeeps, WriteStepKeeps, EndOfExecuteKeeps
<1>2. CASE \E w \in Workers : RecoverStep(w)
  BY <1>2, RecoverStepKeeps
<1>3. CASE \E s \in Sweepers : ListRows(s) \/ StopSweep(s)
  BY <1>3, SweepStepKeeps
<1>4. CASE Age
  BY <1>4, AgeKeeps
<1>5. CASE UNCHANGED vars
  BY <1>5 DEF vars, ledger, IInv, VarTypes, LedgerCheck, JobInv, ReceiptInv, SideInv,
     ObjectInv, WriteInv
<1>6. QED
  BY <1>1, <1>2, <1>3, <1>4, <1>5 DEF Next

THEOREM Invariance == Spec => []IInv
BY InitIInv, NextIInv, PTL DEF Spec

\* Every variable keeps its type, and every row the CHECK constraint of its
\* table (private_payload_attempts, 001_payload_recovery.sql).
THEOREM TypesHold == Spec => []TypeOK
<1>1. IInv => TypeOK
  BY DEF IInv, TypeOK
<1>2. QED
  BY <1>1, Invariance, PTL

\* Whatever executors, late writes and sweepers do, an attempt has won in the
\* ledger exactly when the receipt of its key names it.
THEOREM LedgerAgrees == Spec => []LedgerMatchesReceipts
<1>1. IInv => LedgerMatchesReceipts
  <2> SUFFICES ASSUME IInv, NEW a \in Attempts
               PROVE  state[a] \in Winning <=> receipt[intent[a].request] = a
    BY DEF LedgerMatchesReceipts, Winning
  <2>1. intent[a].request \in Requests /\ a # NoAttempt
    BY WorkersDisjoint DEF IInv, VarTypes, Intents
  <2>2. QED
    BY <2>1 DEF IInv, ReceiptInv
<1>2. QED
  BY <1>1, Invariance, PTL

\* No recover_attempt() call, however stale its snapshot, and no late write
\* loses the bytes of a draft that has a receipt.
THEOREM PayloadKept == Spec => []CanonicalPayloadKept
<1>1. IInv => CanonicalPayloadKept
  <2> SUFFICES ASSUME IInv, NEW r \in Requests, receipt[r] # NoAttempt
               PROVE  object[receipt[r]] \in {"STAGED", "COMMITTED"}
    BY DEF CanonicalPayloadKept
  <2>1. receipt[r] \in Attempts /\ state[receipt[r]] \in Winning
    BY DEF IInv, VarTypes, ReceiptInv
  <2>2. QED
    BY <2>1 DEF IInv, ObjectInv, Winning
<1>2. QED
  BY <1>1, Invariance, PTL

\* The owner read serves a draft only after store.commit() succeeded for it.
THEOREM ReadsAreDurable == Spec => []ReadableIsDurable
<1>1. IInv => ReadableIsDurable
  BY DEF IInv, VarTypes, ObjectInv, ReadableIsDurable, Readable
<1>2. QED
  BY <1>1, Invariance, PTL

\* store.commit() is never called for an attempt that lost its key.
THEOREM LosersStayStaged == Spec => []OnlyCanonicalCommitted
<1>1. IInv => OnlyCanonicalCommitted
  BY DEF IInv, ObjectInv, ReceiptInv, OnlyCanonicalCommitted
<1>2. QED
  BY <1>1, Invariance, PTL

------------------------------------------------------------------------------
(* What a caller of execute() may rely on, and that the draft write path   *)
(* implements PrivateDraft.                                                *)

------------------------------------------------------------------------------
(* The steps of recovery calls, as the ledger and the callers see them *)

LEMMA MovesWiden ==
  ASSUME NEW w \in Workers, NEW steps \in SUBSET JobSteps, Moves(w, steps)
  PROVE  Moves(w, JobSteps)
BY DEF Moves

LEMMA BackIsAStep == {"rest", "look", "relook"} \in SUBSET JobSteps
BY DEF JobSteps

\* Every step of a recovery call moves only that worker.
LEMMA RecoverStepMoves ==
  ASSUME IInv, NEW w \in Workers, RecoverStep(w)
  PROVE  Moves(w, JobSteps) /\ job[w].at # "rest" /\ job[w].subject \in Attempts
<1> DEFINE a == job[w].subject
<1>1. VarTypes /\ JobInv /\ SideInv
  BY DEF IInv
<1>2. job[w].at # "rest" /\ a \in Attempts
  BY <1>1 DEF JobInv, RecoverStep, LookHeals, Look, Relook, Abandon, Claim, StoreCommit,
     AckCommit, FindStaged, StoreDiscard, AckDiscard
<1> SUFFICES Moves(w, JobSteps)
  BY <1>2
<1>3. job[w] \in Jobs /\ (w \in Attempts => exec[w] \in Recovering)
  BY <1>1, <1>2 DEF VarTypes, JobInv
<1>4. ASSUME NEW st, Return(w, st) PROVE Moves(w, JobSteps)
  BY <1>1, <1>2, <1>4, ReturnMoves, MovesWiden, BackIsAStep
<1>5. ASSUME NEW step \in JobSteps, Goto(w, step) PROVE Moves(w, JobSteps)
  <2>1. Moves(w, {step})
    BY <1>1, <1>2, <1>5, GotoMoves
  <2>2. QED
    BY <2>1, MovesWiden
<1>6. ASSUME Decide(w, a) PROVE Moves(w, JobSteps)
  BY <1>4, <1>5, <1>6 DEF Decide, JobSteps
<1>7. ASSUME job' = [job EXCEPT ![w].at = "relook", ![w].mode = "plain"],
             UNCHANGED <<exec, sweep>>
      PROVE  Moves(w, JobSteps)
  <2>1. job'[w].at = "relook" /\ job'[w].subject = a /\ job' \in [Workers -> Jobs]
    BY <1>1, <1>3, <1>7 DEF VarTypes, Jobs, JobSteps
  <2>2. QED
    BY <1>1, <1>2, <1>3, <1>7, <2>1 DEF Moves, VarTypes, JobSteps
<1>8. CASE LookHeals(w)
  <2>1. intent[a].request \in Requests
    BY <1>1, <1>2 DEF VarTypes, Intents
  <2>2. Canonical(a) \in Attempts
    BY <1>1, <1>8, <2>1 DEF VarTypes, Canonical, HealsFirst, LookHeals
  <2>3. [at |-> "look", subject |-> Canonical(a), outer |-> a, mode |-> job[w].mode] \in Jobs
    BY <1>2, <1>3, <2>2 DEF Jobs, JobSteps
  <2>4. QED
    BY <1>1, <1>3, <1>8, <2>2, <2>3 DEF LookHeals, Moves, VarTypes, JobSteps
<1>9. CASE Look(w) \/ Relook(w)
  BY <1>6, <1>9 DEF Look, Relook
<1>10. CASE Abandon(w)
  <2>1. CASE Raise(w)
    BY <1>1, <1>2, <2>1, RaiseMoves, MovesWiden, BackIsAStep
  <2>2. QED
    BY <1>7, <1>10, <2>1 DEF Abandon
<1>11. CASE Claim(w)
  BY <1>4, <1>7, <1>11 DEF Claim
<1>12. CASE AckCommit(w) \/ AckDiscard(w)
  BY <1>4, <1>12 DEF AckCommit, AckDiscard
<1>13. CASE StoreCommit(w) \/ StoreDiscard(w)
  BY <1>5, <1>13 DEF StoreCommit, StoreDiscard, JobSteps
<1>14. CASE FindStaged(w)
  BY <1>5, <1>14 DEF FindStaged, JobSteps
<1>15. QED
  BY <1>8, <1>9, <1>10, <1>11, <1>12, <1>13, <1>14 DEF RecoverStep

------------------------------------------------------------------------------
(* History only grows *)

ReceiptsKept == \A r \in Requests : receipt[r] # NoAttempt => receipt'[r] = receipt[r]

Allowed == \A a \in Attempts : AllowedTransition(a)

\* What no step undoes.
Grows ==
  /\ intent' = intent
  /\ Allowed
  /\ ReceiptsKept
  /\ \A a \in Attempts : object[a] = "COMMITTED" => object'[a] = "COMMITTED"
  /\ \A a \in Attempts : a \in reffed' => a \in reffed \/ state[a] = "RESERVED"

LEMMA IdleLedgerGrows ==
  ASSUME UNCHANGED <<intent, ledger>>,
         \A a \in Attempts : object[a] = "COMMITTED" => object'[a] = "COMMITTED"
  PROVE  Grows
BY DEF Grows, Allowed, AllowedTransition, ReceiptsKept, ledger

LEMMA RecoverStepGrows ==
  ASSUME IInv, NEW w \in Workers, RecoverStep(w)
  PROVE  Grows
<1> DEFINE a == job[w].subject
<1>1. a \in Attempts /\ VarTypes /\ SideInv
  BY RecoverStepMoves DEF IInv
<1>2. CASE LookHeals(w) \/ Look(w) \/ Relook(w) \/ FindStaged(w)
  BY <1>2, IdleLedgerGrows DEF LookHeals, Look, Relook, FindStaged
<1>3. CASE StoreCommit(w) \/ StoreDiscard(w)
  <2>1. UNCHANGED <<intent, ledger>>
    BY <1>3 DEF StoreCommit, StoreDiscard
  <2>2. \A b \in Attempts : object[b] = "COMMITTED" => object'[b] = "COMMITTED"
    BY <1>1, <1>3 DEF VarTypes, StoreCommit, StoreDiscard
  <2>3. QED
    BY <2>1, <2>2, IdleLedgerGrows
<1>4. CASE Abandon(w)
  <2>1. UNCHANGED <<intent, receipt, object>>
    BY <1>4 DEF Abandon
  <2>2. \/ UNCHANGED <<state, reffed>>
        \/ /\ state[a] \in {"RESERVED", "ABANDONED"}
           /\ state' = [state EXCEPT ![a] = "ABANDONED"]
           /\ reffed' = IF state[a] = "RESERVED" THEN reffed \cup {a} ELSE reffed
    BY <1>4 DEF Abandon
  <2>3. QED
    BY <1>1, <2>1, <2>2 DEF VarTypes, Grows, Allowed, AllowedTransition, ReceiptsKept
<1>5. CASE Claim(w)
  <2>1. UNCHANGED <<intent, reffed, receipt, object>>
    BY <1>5 DEF Claim
  <2>2. \/ UNCHANGED state
        \/ state[a] = "RESERVED" /\ state' = [state EXCEPT ![a] = "ABANDONED"]
    BY <1>5 DEF Claim
  <2>3. QED
    BY <1>1, <2>1, <2>2 DEF VarTypes, Grows, Allowed, AllowedTransition, ReceiptsKept
<1>6. CASE AckCommit(w)
  BY <1>1, <1>6 DEF AckCommit, VarTypes, Grows, Allowed, AllowedTransition, ReceiptsKept
<1>7. CASE AckDiscard(w)
  BY <1>1, <1>7 DEF AckDiscard, VarTypes, Grows, Allowed, AllowedTransition, ReceiptsKept
<1>8. QED
  BY <1>2, <1>3, <1>4, <1>5, <1>6, <1>7 DEF RecoverStep

LEMMA NextGrows ==
  ASSUME IInv, [Next]_vars
  PROVE  Grows
<1>1. VarTypes /\ NoAttempt \notin Attempts
  BY WorkersDisjoint DEF IInv
<1>2. ASSUME NEW a \in Attempts, Reserve(a) PROVE Grows
  <2>1. state[a] = "NONE"
    BY <1>2 DEF IInv, WriteInv, Reserve
  <2>2. QED
    BY <1>1, <1>2, <2>1
       DEF Reserve, VarTypes, Grows, Allowed, AllowedTransition, ReceiptsKept
<1>3. ASSUME NEW a \in Attempts, Stage(a) \/ StageRaises(a) PROVE Grows
  <2>1. object[a] # "COMMITTED"
    BY <1>3 DEF IInv, WriteInv, ObjectInv, Stage, StageRaises
  <2>2. UNCHANGED <<intent, ledger>>
        /\ \A b \in Attempts : object[b] = "COMMITTED" => object'[b] = "COMMITTED"
    BY <1>1, <1>3, <2>1 DEF VarTypes, Stage, StageRaises
  <2>3. QED
    BY <2>2, IdleLedgerGrows
<1>4. ASSUME NEW a \in Attempts, WriteFresh(a) PROVE Grows
  BY <1>1, <1>4 DEF WriteFresh, VarTypes, Grows, Allowed, AllowedTransition, ReceiptsKept
<1>5. ASSUME NEW a \in Attempts, WriteReplay(a) PROVE Grows
  BY <1>1, <1>5 DEF WriteReplay, VarTypes, Grows, Allowed, AllowedTransition, ReceiptsKept
<1>6. ASSUME NEW a \in Attempts,
             SendWrite(a) \/ WriteConflict(a) \/ WriteRejected(a) \/ LoseAnswer(a)
             \/ Report(a) \/ Stop(a)
      PROVE  Grows
  BY <1>6, IdleLedgerGrows
     DEF SendWrite, WriteConflict, WriteRejected, LoseAnswer, Report, Stop
<1>7. CASE \E w \in Workers : RecoverStep(w)
  BY <1>7, RecoverStepGrows
<1>8. CASE (\E s \in Sweepers : ListRows(s) \/ StopSweep(s)) \/ Age
  BY <1>8, IdleLedgerGrows DEF ListRows, StopSweep, Age
<1>9. CASE UNCHANGED vars
  BY <1>9, IdleLedgerGrows DEF vars, ledger
<1>10. QED
  BY <1>2, <1>3, <1>4, <1>5, <1>6, <1>7, <1>8, <1>9 DEF Next, WriteStep

\* The triggers on private_payload_attempts and private_draft_receipts are a
\* second line of defence: no function ever makes them raise.
THEOREM GuardsNeverFire == Spec => TriggersNeverFire
<1>1. IInv /\ [Next]_vars =>
        [/\ \A a \in Attempts : AllowedTransition(a)
         /\ \A r \in Requests : receipt[r] # NoAttempt => receipt'[r] = receipt[r]]_vars
  BY NextGrows DEF Grows, Allowed, ReceiptsKept
<1>2. QED
  BY <1>1, Invariance, PTL DEF Spec, TriggersNeverFire

------------------------------------------------------------------------------
(* The receipt that execute() returns *)

\* Only the report returns.
LEMMA ReturnsByReport ==
  ASSUME IInv, [Next]_vars, NEW a \in Attempts, exec'[a] = "returned"
  PROVE  exec[a] = "returned" \/ Report(a)
<1>1. VarTypes
  BY DEF IInv
<1>2. ASSUME NEW w \in Workers, RecoverStep(w) PROVE exec[a] = "returned"
  BY <1>2, RecoverStepMoves DEF Moves
<1>3. ASSUME NEW b \in Attempts,
             Reserve(b) \/ Stage(b) \/ StageRaises(b) \/ SendWrite(b)
             \/ LoseAnswer(b) \/ Stop(b)
      PROVE  exec[a] = "returned"
  BY <1>1, <1>3
     DEF VarTypes, Reserve, Stage, StageRaises, SendWrite, LoseAnswer, Stop, ExecOn
<1>4. ASSUME NEW b \in Attempts, WriteStep(b) PROVE exec[a] = "returned"
  BY <1>1, <1>4
     DEF VarTypes, WriteStep, WriteFresh, WriteReplay, WriteConflict, WriteRejected, Answer
<1>5. ASSUME NEW b \in Attempts, Report(b) PROVE exec[a] = "returned" \/ Report(a)
  BY <1>1, <1>5 DEF VarTypes, Report
<1>6. CASE \E s \in Sweepers : ListRows(s) \/ StopSweep(s)
  BY <1>6 DEF ListRows, StopSweep, SweepOn
<1>7. CASE Age \/ UNCHANGED vars
  BY <1>7 DEF Age, vars
<1>8. QED
  BY <1>2, <1>3, <1>4, <1>5, <1>6, <1>7 DEF Next

\* execute() returns a receipt only for its own text, and only once that text
\* is readable and durable; it stays so.
THEOREM ReceiptsAreDurable == Spec => []ReceiptMeansDurable
<1>1. Init => ReceiptMeansDurable
  BY DEF Init, ReceiptMeansDurable
<1>2. ASSUME IInv, ReceiptMeansDurable, [Next]_vars
      PROVE  ReceiptMeansDurable'
  <2> SUFFICES ASSUME NEW a \in Attempts, exec'[a] = "returned"
               PROVE  LET c == receipt'[intent'[a].request] IN
                      /\ c # NoAttempt
                      /\ intent'[c].hash = intent'[a].hash
                      /\ state'[c] = "COMMITTED"
                      /\ object'[c] = "COMMITTED"
    BY DEF ReceiptMeansDurable
  <2> DEFINE c == receipt[intent[a].request]
  <2>1. /\ c # NoAttempt /\ intent[c].hash = intent[a].hash
        /\ state[c] = "COMMITTED" /\ object[c] = "COMMITTED"
        /\ c \in Attempts /\ intent[a].request \in Requests
    <3>1. intent[a].request \in Requests
      BY <1>2 DEF IInv, VarTypes, Intents
    <3>2. CASE exec[a] = "returned"
      BY <1>2, <3>1, <3>2 DEF ReceiptMeansDurable, IInv, VarTypes
    <3>3. CASE Report(a) /\ exec[a] # "returned"
      <4>1. Canonical(a) # NoAttempt /\ state[Canonical(a)] = "COMMITTED"
        BY <1>2, <3>3 DEF Report, IInv, VarTypes
      <4>2. Canonical(a) = c /\ intent[c].hash = intent[a].hash /\ c \in Attempts
        BY <1>2, <3>1, <4>1 DEF Canonical, IInv, VarTypes
      <4>3. QED
        BY <1>2, <3>1, <4>1, <4>2 DEF IInv, ObjectInv
    <3>4. QED
      BY <1>2, <3>2, <3>3, ReturnsByReport
  <2>2. Grows
    BY <1>2, NextGrows
  <2>3. receipt'[intent'[a].request] = c
    BY <2>1, <2>2 DEF Grows, ReceiptsKept
  <2>4. state'[c] = "COMMITTED"
    BY <2>1, <2>2 DEF Grows, Allowed, AllowedTransition
  <2>5. QED
    BY <2>1, <2>2, <2>3, <2>4 DEF Grows
<1>3. QED
  BY <1>1, <1>2, Invariance, PTL DEF Spec

------------------------------------------------------------------------------
(* The write path implements PrivateDraft *)

SameReply(a) ==
  /\ exec'[a] = "returned" <=> exec[a] = "returned"
  /\ exec'[a] = "failed" <=> exec[a] = "failed"

\* Neither a decision nor a key's durability changes.
QuietStore ==
  /\ UNCHANGED <<intent, receipt>>
  /\ \A a \in Attempts : object'[a] = "COMMITTED" <=> object[a] = "COMMITTED"

LEMMA QuietDraft ==
  ASSUME VarTypes, QuietStore
  PROVE  UNCHANGED <<intent, DecidedHashes, DurableKeys>>
BY DEF VarTypes, QuietStore, DecidedHashes, DurableKeys

LEMMA SameReplies ==
  ASSUME \A a \in Attempts : SameReply(a)
  PROVE  Replies' = Replies
<1>1. \A a \in Attempts : Replies'[a] = Replies[a]
  BY DEF SameReply, Replies
<1>2. QED
  BY <1>1 DEF Replies

\* A step that the abstraction sees as a stutter or as one refusal.
LEMMA RefusesAtMost ==
  ASSUME VarTypes, QuietStore, NEW a \in Attempts,
         \A b \in Attempts \ {a} : SameReply(b),
         SameReply(a) \/ (exec[a] \notin {"returned", "failed"} /\ exec'[a] = "failed")
  PROVE  [Draft!Next]_Draft!vars
<1>1. UNCHANGED <<intent, DecidedHashes, DurableKeys>>
  BY QuietDraft
<1>2. CASE SameReply(a)
  BY <1>1, <1>2, SameReplies DEF Draft!vars
<1>3. CASE exec[a] \notin {"returned", "failed"} /\ exec'[a] = "failed"
  <2>1. Replies[a] = "pending"
    BY <1>3 DEF Replies
  <2>2. \A b \in Attempts : Replies'[b] = IF b = a THEN "refused" ELSE Replies[b]
    BY <1>3 DEF Replies, SameReply
  <2>3. Replies' = [Replies EXCEPT ![a] = "refused"]
    BY <2>2 DEF Replies
  <2>4. Draft!Refuse(a)
    BY <1>1, <2>1, <2>3 DEF Draft!Refuse
  <2>5. QED
    BY <2>4 DEF Draft!Next
<1>4. QED
  BY <1>2, <1>3

LEMMA RecoverStepRefines ==
  ASSUME IInv, NEW w \in Workers, RecoverStep(w)
  PROVE  [Draft!Next]_Draft!vars
<1> DEFINE c == job[w].subject
<1>1. VarTypes /\ Moves(w, JobSteps) /\ c \in Attempts
  BY RecoverStepMoves DEF IInv
<1>2. \A a \in Attempts :
        SameReply(a) \/ (a = w /\ exec[a] \notin {"returned", "failed"} /\ exec'[a] = "failed")
  BY <1>1 DEF Moves, SameReply, Recovering
<1>3. CASE ~StoreCommit(w)
  <2>1. QuietStore
    BY <1>1, <1>3
       DEF VarTypes, QuietStore, RecoverStep, LookHeals, Look, Relook, Abandon, Claim,
           AckCommit, FindStaged, StoreDiscard, AckDiscard, ledger
  <2>2. CASE w \in Attempts
    BY <1>1, <1>2, <2>1, <2>2, RefusesAtMost
  <2>3. CASE w \notin Attempts
    BY <1>1, <1>2, <2>1, <2>3, QuietDraft, SameReplies DEF Draft!vars
  <2>4. QED
    BY <2>2, <2>3
<1>4. CASE StoreCommit(w)
  <2> DEFINE r == intent[c].request
  <2>1. /\ UNCHANGED <<intent, receipt, exec>>
        /\ object' = [object EXCEPT ![c] = "COMMITTED"]
        /\ state[c] \in Winning
    BY <1>4 DEF IInv, SideInv, StoreCommit, Goto, ledger
  <2>2. r \in Requests /\ receipt[r] = c /\ c # NoAttempt
    BY <1>1, <2>1, WorkersDisjoint DEF IInv, ReceiptInv, VarTypes, Intents
  <2>3. \A q \in Requests : receipt[q] = c => q = r
    BY <1>1, <2>2 DEF IInv, ReceiptInv
  <2>4. UNCHANGED <<intent, DecidedHashes>> /\ Replies' = Replies
    BY <2>1 DEF DecidedHashes, Replies
  <2>5. DurableKeys' = DurableKeys \cup {r}
    BY <1>1, <2>1, <2>2, <2>3 DEF VarTypes, DurableKeys
  <2>6. DecidedHashes[r] # Undecided
    BY <1>1, <2>2, UndecidedAssumption DEF VarTypes, Intents, DecidedHashes
  <2>7. Draft!Persist(r)
    BY <2>4, <2>5, <2>6 DEF Draft!Persist
  <2>8. QED
    BY <2>2, <2>7 DEF Draft!Next
<1>5. QED
  BY <1>3, <1>4

LEMMA WriteFreshRefines ==
  ASSUME IInv, NEW a \in Attempts, WriteFresh(a)
  PROVE  Draft!Decide(a)
<1> DEFINE r == intent[a].request
<1>1. /\ VarTypes /\ r \in Requests /\ a # NoAttempt
      /\ receipt[r] = NoAttempt /\ object[a] = "STAGED"
      /\ receipt' = [receipt EXCEPT ![r] = a]
      /\ UNCHANGED <<intent, object>>
  BY WorkersDisjoint DEF IInv, VarTypes, Intents, WriteInv, WriteFresh
<1>2. DecidedHashes[r] = Undecided
  BY <1>1 DEF DecidedHashes
<1>3. DecidedHashes' = [DecidedHashes EXCEPT ![r] = intent[a].hash]
  BY <1>1 DEF VarTypes, DecidedHashes
<1>4. DurableKeys' = DurableKeys
  BY <1>1 DEF VarTypes, DurableKeys
<1>5. Replies' = Replies
  <2>1. \A b \in Attempts : SameReply(b)
    BY <1>1 DEF VarTypes, WriteFresh, Answer, SameReply
  <2>2. QED
    BY <2>1, SameReplies
<1>6. QED
  BY <1>1, <1>2, <1>3, <1>4, <1>5 DEF Draft!Decide

LEMMA ReportRefines ==
  ASSUME IInv, NEW a \in Attempts, Report(a)
  PROVE  [Draft!Next]_Draft!vars
<1>1. /\ VarTypes /\ QuietStore /\ exec[a] = "report"
      /\ \A b \in Attempts \ {a} : SameReply(b)
  BY DEF IInv, VarTypes, Report, QuietStore, SameReply, ledger
<1>2. CASE Canonical(a) # NoAttempt /\ state[Canonical(a)] = "COMMITTED"
  <2> DEFINE r == intent[a].request
             c == receipt[r]
  <2>1. exec' = [exec EXCEPT ![a] = "returned"]
    BY <1>2 DEF Report
  <2>2. r \in Requests /\ c \in Attempts /\ c # NoAttempt
        /\ intent[c].hash = intent[a].hash /\ state[c] = "COMMITTED"
    BY <1>1, <1>2, WorkersDisjoint DEF VarTypes, Intents, Canonical
  <2>3. DecidedHashes[r] = intent[a].hash
    BY <2>2 DEF DecidedHashes
  <2>4. r \in DurableKeys
    BY <2>2 DEF IInv, ObjectInv, DurableKeys
  <2>5. UNCHANGED <<intent, DecidedHashes, DurableKeys>>
    BY <1>1, QuietDraft
  <2>6. Replies[a] = "pending"
    BY <1>1 DEF Replies
  <2>7. \A b \in Attempts : Replies'[b] = IF b = a THEN "receipt" ELSE Replies[b]
    BY <1>1, <2>1 DEF VarTypes, Replies, SameReply
  <2>8. Replies' = [Replies EXCEPT ![a] = "receipt"]
    BY <2>7 DEF Replies
  <2>9. Draft!Grant(a)
    BY <2>3, <2>4, <2>5, <2>6, <2>8 DEF Draft!Grant
  <2>10. QED
    BY <2>9 DEF Draft!Next
<1>3. CASE ~(Canonical(a) # NoAttempt /\ state[Canonical(a)] = "COMMITTED")
  <2>1. exec'[a] = "failed"
    BY <1>1, <1>3 DEF VarTypes, Report
  <2>2. QED
    BY <1>1, <2>1, RefusesAtMost
<1>4. QED
  BY <1>2, <1>3

LEMMA NextRefines ==
  ASSUME IInv, [Next]_vars
  PROVE  [Draft!Next]_Draft!vars
<1>1. VarTypes
  BY DEF IInv
<1>2. ASSUME NEW a \in Attempts, Stage(a) \/ StageRaises(a)
      PROVE  [Draft!Next]_Draft!vars
  <2>1. object[a] # "COMMITTED" /\ exec[a] = "stage"
    BY <1>2 DEF IInv, WriteInv, ObjectInv, Stage, StageRaises
  <2>2. QuietStore
    BY <1>1, <1>2, <2>1 DEF VarTypes, QuietStore, Stage, StageRaises, ledger
  <2>3. /\ \A b \in Attempts \ {a} : SameReply(b)
        /\ SameReply(a) \/ exec'[a] = "failed"
    BY <1>1, <1>2, <2>1 DEF VarTypes, SameReply, Stage, StageRaises
  <2>4. QED
    BY <1>1, <2>1, <2>2, <2>3, RefusesAtMost
<1>3. ASSUME NEW a \in Attempts, WriteFresh(a) PROVE [Draft!Next]_Draft!vars
  BY <1>3, WriteFreshRefines DEF Draft!Next
<1>4. ASSUME NEW a \in Attempts, Report(a) PROVE [Draft!Next]_Draft!vars
  BY <1>4, ReportRefines
<1>5. ASSUME NEW a \in Attempts,
             Reserve(a) \/ SendWrite(a) \/ WriteReplay(a) \/ WriteConflict(a)
             \/ WriteRejected(a) \/ LoseAnswer(a) \/ Stop(a)
      PROVE  [Draft!Next]_Draft!vars
  <2>1. QuietStore
    BY <1>5 DEF QuietStore, Reserve, SendWrite, WriteReplay, WriteConflict, WriteRejected,
       LoseAnswer, Stop, ledger
  <2>2. /\ \A b \in Attempts \ {a} : SameReply(b)
        /\ \/ SameReply(a)
           \/ exec[a] \notin {"returned", "failed"} /\ exec'[a] = "failed"
    BY <1>1, <1>5 DEF VarTypes, SameReply, Reserve, SendWrite, WriteReplay, WriteConflict,
       WriteRejected, Answer, LoseAnswer, Stop, ExecOn
  <2>3. QED
    BY <1>1, <2>1, <2>2, RefusesAtMost
<1>6. CASE \E w \in Workers : RecoverStep(w)
  BY <1>6, RecoverStepRefines
<1>7. CASE (\E s \in Sweepers : ListRows(s) \/ StopSweep(s)) \/ Age \/ UNCHANGED vars
  <2>1. UNCHANGED <<intent, receipt, object, exec>>
    BY <1>7 DEF ListRows, StopSweep, SweepOn, Age, vars, ledger
  <2>2. QuietStore /\ \A b \in Attempts : SameReply(b)
    BY <2>1 DEF QuietStore, SameReply
  <2>3. QED
    BY <1>1, <2>2, QuietDraft, SameReplies DEF Draft!vars
<1>8. QED
  BY <1>2, <1>3, <1>4, <1>5, <1>6, <1>7 DEF Next, WriteStep

\* Seen through intent, receipt, object and exec, every behaviour of executors,
\* database, store and sweepers is a behaviour of PrivateDraft.
THEOREM Refinement == Spec => ImplementsPrivateDraft
<1>1. Init => Draft!Init
  BY DEF Init, Draft!Init, Intents, DecidedHashes, DurableKeys, Replies
<1>2. IInv /\ [Next]_vars => [Draft!Next]_Draft!vars
  BY NextRefines
<1>3. QED
  BY <1>1, <1>2, Invariance, PTL DEF Spec, ImplementsPrivateDraft, Draft!Spec

------------------------------------------------------------------------------
(* A replayed execute() leaves nothing of its own behind: the copy it      *)
(* staged is gone before it returns.  The argument follows the loser       *)
(* through recoveries that other workers may run for it at the same time.  *)

------------------------------------------------------------------------------
(* The invariant *)

\* An attempt has a reference only after its stage, and has one once its write
\* was answered.
RefInv ==
  \A a \in Attempts :
    /\ exec[a] \in {"idle", "stage"} => a \notin reffed
    /\ exec[a] \in {"canonical", "losing"} => a \in reffed

\* The nested call only ever recovers a winner, so recursion ends there; only
\* an executor abandons, and then its own attempt.
CallInv ==
  \A w \in Workers : job[w].at # "rest" =>
    /\ job[w].outer # NoAttempt => state[job[w].subject] \in Winning
    /\ job[w].mode = "abandon" =>
         w \in Attempts /\ (job[w].outer = w \/ (job[w].outer = NoAttempt /\ job[w].subject = w))
    /\ job[w].at = "abandon" => job[w].mode = "abandon" /\ job[w].outer = NoAttempt

\* An executor that recovers its losing attempt recovers no other.
LosingInv ==
  \A a \in Attempts : exec[a] = "losing" /\ job[a].at # "rest" =>
    job[a].outer = a \/ (job[a].outer = NoAttempt /\ job[a].subject = a)

\* A row with a reference is acknowledged as discarded only after store.discard();
\* only a row without one is searched for.
DiscardInv ==
  /\ \A w \in Workers :
       /\ job[w].at = "find" => job[w].subject \notin reffed
       /\ job[w].at = "ackDiscard" /\ job[w].subject \in reffed =>
            object[job[w].subject] # "STAGED"
  /\ \A a \in Attempts :
       state[a] = "DISCARDED" /\ a \in reffed => object[a] # "STAGED"

\* Whoever reports has won its key or has been discarded.
ReportInv ==
  \A a \in Attempts : exec[a] \in {"report", "returned"} =>
    \/ receipt[intent[a].request] = a
    \/ state[a] = "DISCARDED" /\ a \in reffed

LoserInv == RefInv /\ CallInv /\ LosingInv /\ DiscardInv /\ ReportInv

------------------------------------------------------------------------------
(* What a step of w's recovery call makes of the call and of its executor *)

\* The call is over and the next one, if any, is not nested.
Fresh(w) ==
  /\ job'[w].at \in {"rest", "look"}
  /\ job'[w].outer = NoAttempt
  /\ job'[w].mode \in {"plain", "claim"}
  /\ w \in Attempts /\ exec'[w] = "losing" => job'[w].subject = w

\* A nested call is over.
Resumes(w) ==
  /\ job[w].outer # NoAttempt
  /\ job'[w] = [at |-> "relook", subject |-> job[w].outer, outer |-> NoAttempt,
                mode |-> job[w].mode]

\* A nested call begins.
Heals(w) ==
  /\ job[w].outer = NoAttempt
  /\ job'[w].at = "look"
  /\ job'[w].outer = job[w].subject
  /\ job'[w].mode = job[w].mode
  /\ state'[job'[w].subject] \in Winning

\* The call goes on.
GoesOn(w) ==
  LET a == job[w].subject IN
  /\ job'[w].subject = a
  /\ job'[w].outer = job[w].outer
  /\ job'[w].mode \in {job[w].mode, "plain"}
  /\ job'[w].at = "abandon" => job[w].mode = "abandon" /\ job'[w].mode = "abandon"
                               /\ job[w].outer = NoAttempt
  /\ job'[w].at = "find" => a \notin reffed'
  /\ job'[w].at = "ackDiscard" /\ a \in reffed' => object'[a] # "STAGED"

Ends(w) ==
  w \in Attempts =>
    /\ exec'[w] = "losing" => exec[w] \in {"canonical", "losing"}
    /\ exec'[w] = "report" =>
         state'[w] = "COMMITTED" \/ (exec[w] = "losing" /\ state'[w] = "DISCARDED")

CallShape(w) == (Fresh(w) \/ Resumes(w) \/ Heals(w) \/ GoesOn(w)) /\ Ends(w)

LEMMA SweepShape ==
  ASSUME VarTypes, NEW s \in Sweepers, NEW sw, SweepOn(s, sw)
  PROVE  CallShape(s)
<1>1. s \notin Attempts /\ s \in Workers
  BY WorkersDisjoint DEF Workers
<1>2. job'[s] = NextRow(sw)
  BY <1>1 DEF VarTypes, SweepOn
<1>3. QED
  BY <1>1, <1>2 DEF NextRow, Rest, Recover, CallShape, Fresh, Ends

LEMMA RaiseShape ==
  ASSUME VarTypes, JobInv, NEW w \in Workers, job[w].at # "rest", Raise(w)
  PROVE  CallShape(w)
<1>1. CASE w \in Sweepers
  BY <1>1, SweepShape DEF Raise
<1>2. CASE w \notin Sweepers
  <2>1. w \in Attempts
    BY <1>2 DEF Workers
  <2>2. job'[w] = Rest /\ exec'[w] = "failed"
    BY <1>2, <2>1 DEF VarTypes, Raise, ExecOn
  <2>3. QED
    BY <2>2 DEF Rest, CallShape, Fresh, Ends
<1>3. QED
  BY <1>1, <1>2

LEMMA ReturnShape ==
  ASSUME VarTypes, JobInv, LosingInv, NEW w \in Workers, job[w].at # "rest",
         NEW st, Return(w, st),
         st \in {"COMMITTED", "DISCARDED"} => state'[job[w].subject] = st
  PROVE  CallShape(w)
<1>1. w \in Attempts => exec[w] \in Recovering
  BY DEF JobInv
<1>2. CASE job[w].outer # NoAttempt
  BY <1>1, <1>2 DEF VarTypes, Return, CallShape, Resumes, Ends, Recovering
<1>3. CASE job[w].outer = NoAttempt /\ w \in Sweepers
  BY <1>3, SweepShape DEF Return
<1>4. CASE job[w].outer = NoAttempt /\ w \notin Sweepers
  <2>1. w \in Attempts /\ w # NoAttempt
    BY <1>4, WorkersDisjoint DEF Workers
  <2>2. ExecReturn(w, st)
    BY <1>4 DEF Return
  <2>3. CASE ExecOn(w, "failed", Rest)
    BY <2>1, <2>3 DEF VarTypes, ExecOn, Rest, CallShape, Fresh, Ends
  <2>4. CASE exec[w] = "canonical" /\ ExecOn(w, "losing", Recover(w, "plain"))
    BY <2>1, <2>4 DEF VarTypes, ExecOn, Recover, CallShape, Fresh, Ends
  <2>5. CASE exec[w] = "canonical" /\ st = "COMMITTED" /\ job[w].subject = w
             /\ ExecOn(w, "report", Rest)
    BY <2>1, <2>5 DEF VarTypes, ExecOn, Rest, CallShape, Fresh, Ends
  <2>6. CASE exec[w] = "losing" /\ st = "DISCARDED" /\ ExecOn(w, "report", Rest)
    <3>1. job[w].subject = w
      BY <1>4, <2>1, <2>6 DEF LosingInv
    <3>2. QED
      BY <2>1, <2>6, <3>1 DEF VarTypes, ExecOn, Rest, CallShape, Fresh, Ends
  <2>7. QED
    BY <2>2, <2>3, <2>4, <2>5, <2>6 DEF ExecReturn
<1>5. QED
  BY <1>2, <1>3, <1>4

LEMMA GotoShape ==
  ASSUME VarTypes, JobInv, NEW w \in Workers, job[w].at # "rest",
         NEW step \in JobSteps, Goto(w, step),
         step = "abandon" => job[w].mode = "abandon" /\ job[w].outer = NoAttempt,
         step = "find" => job[w].subject \notin reffed',
         step = "ackDiscard" /\ job[w].subject \in reffed' =>
           object'[job[w].subject] # "STAGED"
  PROVE  CallShape(w)
<1>1. job[w] \in Jobs /\ (w \in Attempts => exec[w] \in Recovering)
  BY DEF VarTypes, JobInv
<1>2. job'[w] = [job[w] EXCEPT !.at = step]
  BY DEF VarTypes, Goto
<1>3. /\ job'[w].at = step /\ job'[w].subject = job[w].subject
      /\ job'[w].outer = job[w].outer /\ job'[w].mode = job[w].mode
  BY <1>1, <1>2 DEF Jobs
<1>4. GoesOn(w)
  BY <1>3 DEF GoesOn
<1>5. QED
  BY <1>1, <1>4 DEF CallShape, Ends, Goto, Recovering

LEMMA DecideShape ==
  ASSUME VarTypes, JobInv, LosingInv, NEW w \in Workers, job[w].at # "rest",
         Decide(w, job[w].subject), UNCHANGED <<ledger, object>>
  PROVE  CallShape(w)
<1> DEFINE a == job[w].subject
<1>1. state' = state /\ reffed' = reffed
  BY DEF ledger
<1>2. CASE Return(w, state[a])
  BY <1>1, <1>2, ReturnShape
<1>3. CASE ModeOf(w) = "abandon" /\ Goto(w, "abandon")
  BY <1>3, GotoShape DEF ModeOf, JobSteps
<1>4. CASE Goto(w, "claim") \/ Goto(w, "commit") \/ Goto(w, "discard")
  BY <1>4, GotoShape DEF JobSteps
<1>5. CASE a \notin reffed /\ Goto(w, "find")
  BY <1>1, <1>5, GotoShape DEF JobSteps
<1>6. QED
  BY <1>2, <1>3, <1>4, <1>5 DEF Decide

LEMMA RecoverStepShape ==
  ASSUME IInv, LoserInv, NEW w \in Workers, RecoverStep(w)
  PROVE  CallShape(w)
<1> DEFINE a == job[w].subject
<1>1. /\ VarTypes /\ JobInv /\ LosingInv /\ job[w].at # "rest" /\ a \in Attempts
      /\ job[w] \in Jobs /\ (w \in Attempts => exec[w] \in Recovering)
  BY RecoverStepMoves DEF IInv, LoserInv, VarTypes, JobInv
<1>2. CASE LookHeals(w)
  <2>1. state[Canonical(a)] \in Winning /\ Canonical(a) # a
    BY <1>2 DEF LookHeals, HealsFirst, Winning
  <2>2. job[w].outer = NoAttempt
    <3>1. state[a] \in Winning => Canonical(a) = a
      BY <1>1, WorkersDisjoint DEF IInv, ReceiptInv, Canonical
    <3>2. QED
      BY <1>1, <2>1, <3>1 DEF LoserInv, CallInv
  <2>3. Heals(w)
    BY <1>1, <1>2, <2>1, <2>2 DEF VarTypes, LookHeals, Heals, ledger
  <2>4. QED
    BY <1>1, <1>2, <2>3 DEF LookHeals, CallShape, Ends, Recovering
<1>3. CASE Look(w) \/ Relook(w)
  BY <1>1, <1>3, DecideShape DEF Look, Relook
<1>4. ASSUME job' = [job EXCEPT ![w].at = "relook", ![w].mode = "plain"], UNCHANGED exec
      PROVE  CallShape(w)
  <2>1. /\ job'[w].at = "relook" /\ job'[w].subject = a
        /\ job'[w].outer = job[w].outer /\ job'[w].mode = "plain"
    BY <1>1, <1>4 DEF VarTypes, Jobs
  <2>2. GoesOn(w)
    BY <2>1 DEF GoesOn
  <2>3. QED
    BY <1>1, <1>4, <2>2 DEF CallShape, Ends, Recovering
<1>5. CASE Abandon(w)
  BY <1>1, <1>4, <1>5, RaiseShape DEF Abandon
<1>6. CASE Claim(w)
  BY <1>1, <1>4, <1>6, ReturnShape DEF Claim
<1>7. CASE StoreCommit(w)
  BY <1>1, <1>7, GotoShape DEF StoreCommit, JobSteps
<1>8. CASE AckCommit(w)
  BY <1>1, <1>8, ReturnShape DEF AckCommit, VarTypes
<1>9. CASE FindStaged(w)
  <2>1. a \notin reffed /\ reffed' = reffed
    BY <1>9 DEF LoserInv, DiscardInv, FindStaged, ledger
  <2>2. Goto(w, "discard") \/ Goto(w, "ackDiscard")
    BY <1>9 DEF FindStaged
  <2>3. QED
    BY <1>1, <2>1, <2>2, GotoShape DEF JobSteps
<1>10. CASE StoreDiscard(w)
  <2>1. object'[a] # "STAGED" /\ Goto(w, "ackDiscard")
    BY <1>1, <1>10 DEF VarTypes, StoreDiscard
  <2>2. QED
    BY <1>1, <2>1, GotoShape DEF JobSteps
<1>11. CASE AckDiscard(w)
  BY <1>1, <1>11, ReturnShape DEF AckDiscard, VarTypes
<1>12. QED
  BY <1>2, <1>3, <1>5, <1>6, <1>7, <1>8, <1>9, <1>10, <1>11 DEF RecoverStep

------------------------------------------------------------------------------
(* The invariant is preserved *)

\* A recovery call never brings a staged copy into being, and gives a reference
\* only to the attempt of the executor that runs it.
LEMMA RecoverStepRefs ==
  ASSUME IInv, LoserInv, NEW w \in Workers, RecoverStep(w), NEW b \in Attempts
  PROVE  /\ object'[b] = "STAGED" => object[b] = "STAGED"
         /\ b \in reffed' /\ b \notin reffed => b = w
         /\ state'[b] = "DISCARDED" => state[b] = "DISCARDED" \/ object[b] # "STAGED" \/ b \notin reffed'
<1> DEFINE a == job[w].subject
<1>1. VarTypes /\ a \in Attempts
  BY RecoverStepMoves DEF IInv
<1>2. CASE Abandon(w)
  <2>1. job[w].at = "abandon" => a = w
    BY <1>1, WorkersDisjoint DEF LoserInv, CallInv
  <2>2. QED
    BY <1>1, <1>2, <2>1 DEF VarTypes, Abandon
<1>3. CASE AckDiscard(w)
  <2>1. a \in reffed => object[a] # "STAGED"
    BY <1>3 DEF LoserInv, DiscardInv, AckDiscard
  <2>2. QED
    BY <1>1, <1>3, <2>1 DEF VarTypes, AckDiscard
<1>4. CASE Claim(w) \/ AckCommit(w)
  BY <1>1, <1>4 DEF VarTypes, Claim, AckCommit
<1>5. CASE StoreCommit(w) \/ StoreDiscard(w)
  BY <1>1, <1>5 DEF VarTypes, StoreCommit, StoreDiscard, ledger
<1>6. CASE LookHeals(w) \/ Look(w) \/ Relook(w) \/ FindStaged(w)
  BY <1>6 DEF LookHeals, Look, Relook, FindStaged, ledger
<1>7. QED
  BY <1>2, <1>3, <1>4, <1>5, <1>6 DEF RecoverStep

\* What the parts of the invariant that speak of rows and of other workers need.
Steady ==
  /\ \A a \in Attempts : state[a] \in Winning => state'[a] \in Winning
  /\ \A a \in Attempts : state[a] \in Losing => (a \in reffed' => a \in reffed)
  /\ \A a \in Attempts : a \in reffed => a \in reffed'
  /\ \A a \in Attempts :
       receipt[intent[a].request] = a => receipt'[intent'[a].request] = a
  /\ \A a \in Attempts : state[a] = "DISCARDED" => state'[a] = "DISCARDED"

LEMMA GrowsSteady ==
  ASSUME IInv, Grows
  PROVE  Steady
<1>1. \A a \in Attempts : intent[a].request \in Requests /\ a # NoAttempt
  BY WorkersDisjoint DEF IInv, VarTypes, Intents
<1>2. QED
  BY <1>1 DEF Grows, Allowed, AllowedTransition, ReceiptsKept, Steady, Winning, Losing

LEMMA RecoverStepKeepsLoser ==
  ASSUME IInv, LoserInv, NEW w \in Workers, RecoverStep(w)
  PROVE  LoserInv'
<1>1. CallShape(w) /\ Moves(w, JobSteps) /\ Steady /\ IInv'
      /\ job[w].at # "rest" /\ job[w].subject \in Attempts
  BY RecoverStepShape, RecoverStepMoves, RecoverStepGrows, GrowsSteady, RecoverStepKeeps
<1>2. NoAttempt \notin Attempts
  BY WorkersDisjoint
<1>3. RefInv'
  <2> SUFFICES ASSUME NEW a \in Attempts
               PROVE  /\ exec'[a] \in {"idle", "stage"} => a \notin reffed'
                      /\ exec'[a] \in {"canonical", "losing"} => a \in reffed'
    BY DEF RefInv
  <2>1. CASE a = w
    <3>1. exec[a] \in Recovering
      BY <1>1, <2>1 DEF IInv, JobInv
    <3>2. exec'[a] \in {"canonical", "losing"} => exec[a] \in {"canonical", "losing"}
      BY <1>1, <2>1, <3>1 DEF CallShape, Ends, Moves
    <3>3. exec'[a] \notin {"idle", "stage"}
      BY <1>1, <3>1 DEF Moves, Recovering
    <3>4. QED
      BY <1>1, <3>2, <3>3 DEF LoserInv, RefInv, Steady
  <2>2. CASE a # w
    BY <1>1, <2>2, RecoverStepRefs DEF LoserInv, RefInv, Moves, Steady
  <2>3. QED
    BY <2>1, <2>2
<1>4. CallInv'
  <2> SUFFICES ASSUME NEW v \in Workers, job'[v].at # "rest"
               PROVE  /\ job'[v].outer # NoAttempt => state'[job'[v].subject] \in Winning
                      /\ job'[v].mode = "abandon" =>
                           v \in Attempts /\ (job'[v].outer = v \/
                             (job'[v].outer = NoAttempt /\ job'[v].subject = v))
                      /\ job'[v].at = "abandon" =>
                           job'[v].mode = "abandon" /\ job'[v].outer = NoAttempt
    BY DEF CallInv
  <2>1. CASE v # w
    <3>1. job'[v] = job[v] /\ job[v].subject \in Attempts
      BY <1>1, <2>1 DEF Moves, IInv, JobInv
    <3>2. QED
      BY <1>1, <3>1 DEF LoserInv, CallInv, Steady
  <2>2. CASE v = w /\ Fresh(w)
    BY <2>2 DEF Fresh
  <2>3. CASE v = w /\ Resumes(w)
    BY <1>1, <1>2, <2>3 DEF Resumes, LoserInv, CallInv
  <2>4. CASE v = w /\ Heals(w)
    BY <1>1, <1>2, <2>4 DEF Heals, LoserInv, CallInv
  <2>5. CASE v = w /\ GoesOn(w)
    BY <1>1, <2>5 DEF GoesOn, LoserInv, CallInv, Steady
  <2>6. QED
    BY <1>1, <2>1, <2>2, <2>3, <2>4, <2>5 DEF CallShape
<1>5. LosingInv'
  <2> SUFFICES ASSUME NEW a \in Attempts, exec'[a] = "losing", job'[a].at # "rest"
               PROVE  job'[a].outer = a \/ (job'[a].outer = NoAttempt /\ job'[a].subject = a)
    BY DEF LosingInv
  <2>1. a \in Workers
    BY DEF Workers
  <2>2. CASE a # w
    BY <1>1, <2>1, <2>2 DEF Moves, LoserInv, LosingInv
  <2>3. CASE a = w /\ Fresh(w)
    BY <2>3 DEF Fresh
  <2>4. CASE a = w /\ ~Fresh(w)
    <3>1. CASE exec[a] = "losing"
      BY <1>1, <1>2, <2>4, <3>1
         DEF CallShape, Resumes, Heals, GoesOn, LoserInv, LosingInv
    <3>2. CASE exec[a] # "losing"
      <4>1. exec'[a] # exec[a]
        BY <3>2
      <4>2. PICK st : Return(w, st) \/ Raise(w)
        BY <1>1, <2>4, <4>1
           DEF RecoverStep, LookHeals, Look, Relook, Abandon, Claim, StoreCommit, AckCommit,
               FindStaged, StoreDiscard, AckDiscard, Decide, Goto
      <4>3. QED
        BY <1>1, <1>2, <2>1, <2>4, <4>1, <4>2, WorkersDisjoint
           DEF IInv, VarTypes, Return, Raise, SweepOn, ExecReturn, ExecOn, Recover, Rest, Workers
    <3>3. QED
      BY <3>1, <3>2
  <2>5. QED
    BY <2>2, <2>3, <2>4
<1>6. DiscardInv'
  <2>1. ASSUME NEW v \in Workers
        PROVE  /\ job'[v].at = "find" => job'[v].subject \notin reffed'
               /\ job'[v].at = "ackDiscard" /\ job'[v].subject \in reffed' =>
                    object'[job'[v].subject] # "STAGED"
    <3>1. CASE v # w
      <4>1. job'[v] = job[v] /\ (job[v].at # "rest" => job[v].subject \in Attempts)
        BY <1>1, <3>1 DEF Moves, IInv, JobInv
      <4>2. job[v].at \in {"find", "ackDiscard"} => state[job[v].subject] \in Losing
        BY DEF IInv, SideInv
      <4>3. QED
        BY <1>1, <4>1, <4>2, RecoverStepRefs DEF LoserInv, DiscardInv, Steady
    <3>2. CASE v = w
      BY <1>1, <3>2 DEF CallShape, Fresh, Resumes, Heals, GoesOn
    <3>3. QED
      BY <3>1, <3>2
  <2>2. ASSUME NEW a \in Attempts, state'[a] = "DISCARDED", a \in reffed'
        PROVE  object'[a] # "STAGED"
    <3>1. state[a] = "DISCARDED" => a \in reffed
      BY <1>1, <2>2 DEF Steady, Losing
    <3>2. QED
      BY <2>2, <3>1, RecoverStepRefs DEF LoserInv, DiscardInv
  <2>3. QED
    BY <2>1, <2>2 DEF DiscardInv
<1>7. ReportInv'
  <2> SUFFICES ASSUME NEW a \in Attempts, exec'[a] \in {"report", "returned"}
               PROVE  \/ receipt'[intent'[a].request] = a
                      \/ state'[a] = "DISCARDED" /\ a \in reffed'
    BY DEF ReportInv
  <2>1. CASE exec'[a] = exec[a]
    BY <1>1, <2>1 DEF LoserInv, ReportInv, Steady
  <2>2. CASE exec'[a] # exec[a]
    <3>1. a = w /\ exec'[a] = "report"
      BY <1>1, <2>2 DEF Moves
    <3>2. CASE state'[a] = "COMMITTED"
      BY <1>1, <3>2 DEF IInv, ReceiptInv, Winning
    <3>3. CASE exec[a] = "losing" /\ state'[a] = "DISCARDED"
      BY <1>1, <3>3 DEF LoserInv, RefInv, Steady
    <3>4. QED
      BY <1>1, <3>1, <3>2, <3>3 DEF CallShape, Ends
  <2>3. QED
    BY <2>1, <2>2
<1>8. QED
  BY <1>3, <1>4, <1>5, <1>6, <1>7 DEF LoserInv

\* Steps that leave the ledger and the store alone and start recovery calls
\* afresh, or none.
LEMMA QuietKeepsLoser ==
  ASSUME IInv, LoserInv, UNCHANGED <<intent, ledger, object>>,
         \A v \in Workers :
           \/ job'[v] = job[v]
           \/ /\ job'[v].at \in {"rest", "look"}
              /\ job'[v].outer = NoAttempt
              /\ job'[v].mode = "abandon" => v \in Attempts /\ job'[v].subject = v
              /\ v \in Attempts => exec'[v] # "losing",
         \A a \in Attempts :
           \/ exec'[a] = exec[a]
           \/ exec[a] = "stage" /\ exec'[a] = "write"
           \/ exec'[a] \in {"await", "settle", "failed"}
           \/ exec[a] = "report" /\ exec'[a] = "returned"
  PROVE  LoserInv'
<1>1. RefInv'
  BY DEF LoserInv, RefInv, ledger
<1>2. CallInv'
  BY DEF LoserInv, CallInv, ledger
<1>3. LosingInv'
  BY DEF LoserInv, LosingInv, Workers
<1>4. DiscardInv'
  BY DEF LoserInv, DiscardInv, ledger
<1>5. ReportInv'
  BY DEF LoserInv, ReportInv, ledger
<1>6. QED
  BY <1>1, <1>2, <1>3, <1>4, <1>5 DEF LoserInv

LEMMA ExecutorKeepsLoser ==
  ASSUME IInv, LoserInv, NEW a \in Attempts,
         SendWrite(a) \/ WriteConflict(a) \/ WriteRejected(a) \/ LoseAnswer(a)
         \/ Report(a) \/ Stop(a)
  PROVE  LoserInv'
<1>1. VarTypes /\ a \in Workers
  BY DEF IInv, Workers
<1>2. UNCHANGED <<intent, ledger, object>>
  BY DEF SendWrite, WriteConflict, WriteRejected, LoseAnswer, Report, Stop
<1>3. /\ \A v \in Workers \ {a} : job'[v] = job[v]
      /\ \/ job'[a] = job[a]
         \/ job'[a] \in {Rest, Recover(a, "abandon")} /\ exec'[a] \in {"settle", "failed"}
      /\ \A b \in Attempts \ {a} : exec'[b] = exec[b]
      /\ \/ exec'[a] = exec[a]
         \/ exec'[a] \in {"await", "settle", "failed"}
         \/ exec[a] = "report" /\ exec'[a] = "returned"
  BY <1>1 DEF VarTypes, SendWrite, WriteConflict, WriteRejected, Answer, LoseAnswer,
     Report, Stop, ExecOn
<1>4. QED
  BY <1>2, <1>3, QuietKeepsLoser DEF Rest, Recover

LEMMA WriteKeepsLoser ==
  ASSUME IInv, LoserInv, NEW a \in Attempts, WriteFresh(a) \/ WriteReplay(a)
  PROVE  LoserInv'
<1>1. VarTypes /\ a \in Workers
  BY DEF IInv, Workers
<1>2. /\ a \in inflight /\ state[a] = "RESERVED" /\ reffed' = reffed \cup {a}
      /\ UNCHANGED <<intent, object, sweep>>
      /\ state' = [state EXCEPT ![a] = "NEEDS_COMMIT"] \/ state' = [state EXCEPT ![a] = "ABANDONED"]
  BY DEF WriteFresh, WriteReplay
<1>3. PICK b \in Attempts : Answer(a, "canonical", b, "plain")
  BY <1>1 DEF VarTypes, Intents, Canonical, WriteFresh, WriteReplay
<1>4. /\ \A v \in Workers : job'[v] = job[v] \/ (job'[v] = Recover(b, "plain") /\ v = a
                                                  /\ exec'[a] = "canonical")
      /\ \A c \in Attempts : exec'[c] = exec[c] \/ (c = a /\ exec'[c] = "canonical")
  BY <1>1, <1>3 DEF VarTypes, Answer
<1>5. Grows /\ Steady
  BY NextGrows, GrowsSteady DEF Next, WriteStep
<1>6. \A v \in Workers : job[v].at # "rest" => job[v].subject \in Attempts
  BY DEF IInv, JobInv
<1>7. RefInv'
  <2>1. exec[a] \notin {"idle", "stage"}
    BY <1>2 DEF IInv, WriteInv
  <2>2. QED
    BY <1>2, <1>4, <2>1 DEF LoserInv, RefInv
<1>8. CallInv'
  BY <1>4, <1>5, <1>6 DEF Recover, LoserInv, CallInv, Steady
<1>9. LosingInv'
  BY <1>4 DEF LoserInv, LosingInv, Workers
<1>10. DiscardInv'
  <2>1. ASSUME NEW v \in Workers, job'[v].at \in {"find", "ackDiscard"}
        PROVE  job'[v] = job[v] /\ job[v].subject \in Attempts /\ job[v].subject # a
    <3>1. job'[v] = job[v]
      BY <1>4, <2>1 DEF Recover
    <3>2. QED
      BY <1>2, <1>6, <2>1, <3>1 DEF IInv, SideInv, Losing
  <2>2. \A c \in Attempts : state'[c] = "DISCARDED" => state[c] = "DISCARDED" /\ c # a
    BY <1>1, <1>2 DEF VarTypes
  <2>3. QED
    BY <1>2, <2>1, <2>2 DEF LoserInv, DiscardInv
<1>11. ReportInv'
  BY <1>4, <1>5 DEF LoserInv, ReportInv, Steady
<1>12. QED
  BY <1>7, <1>8, <1>9, <1>10, <1>11 DEF LoserInv

LEMMA ReserveAndStageKeepLoser ==
  ASSUME IInv, LoserInv, NEW a \in Attempts, Reserve(a) \/ Stage(a) \/ StageRaises(a)
  PROVE  LoserInv'
<1>1. /\ VarTypes /\ exec[a] \in {"idle", "stage"} /\ a \notin reffed
      /\ UNCHANGED <<intent, reffed, receipt, job>>
      /\ exec'[a] \in {"stage", "write", "failed"}
      /\ \A b \in Attempts \ {a} : exec'[b] = exec[b]
      /\ \A b \in Attempts \ {a} : state'[b] = state[b] /\ object'[b] = object[b]
  BY DEF IInv, VarTypes, LoserInv, RefInv, Reserve, Stage, StageRaises, ledger
<1>2. Steady
  BY NextGrows, GrowsSteady DEF Next
<1>3. \A v \in Workers : job[v].at # "rest" => job[v].subject \in Attempts
  BY DEF IInv, JobInv
<1>4. RefInv'
  BY <1>1 DEF LoserInv, RefInv
<1>5. CallInv'
  BY <1>1, <1>2, <1>3 DEF LoserInv, CallInv, Steady
<1>6. LosingInv'
  BY <1>1 DEF LoserInv, LosingInv
<1>7. DiscardInv'
  <2>1. \A b \in Attempts : b \in reffed => state'[b] = state[b] /\ object'[b] = object[b]
    BY <1>1
  <2>2. QED
    BY <1>1, <1>3, <2>1 DEF LoserInv, DiscardInv
<1>8. ReportInv'
  BY <1>1, <1>2 DEF LoserInv, ReportInv, Steady
<1>9. QED
  BY <1>4, <1>5, <1>6, <1>7, <1>8 DEF LoserInv

LEMMA SweepKeepsLoser ==
  ASSUME IInv, LoserInv, NEW s \in Sweepers, ListRows(s) \/ StopSweep(s)
  PROVE  LoserInv'
<1>1. VarTypes /\ s \in Workers /\ s \notin Attempts
  BY WorkersDisjoint DEF IInv, Workers
<1>2. UNCHANGED <<intent, ledger, object, exec>>
  BY DEF ListRows, StopSweep, SweepOn
<1>3. PICK sw : job' = [job EXCEPT ![s] = NextRow(sw)]
  BY DEF ListRows, StopSweep, SweepOn
<1>4. /\ \A v \in Workers \ {s} : job'[v] = job[v]
      /\ job'[s].at \in {"rest", "look"} /\ job'[s].outer = NoAttempt
      /\ job'[s].mode # "abandon"
  BY <1>1, <1>3 DEF VarTypes, NextRow, Rest, Recover
<1>5. QED
  BY <1>1, <1>2, <1>4, QuietKeepsLoser

LEMMA NextLoserInv == IInv /\ LoserInv /\ [Next]_vars => LoserInv'
<1> SUFFICES ASSUME IInv, LoserInv, [Next]_vars PROVE LoserInv'
  OBVIOUS
<1>1. ASSUME NEW a \in Attempts,
             Reserve(a) \/ Stage(a) \/ StageRaises(a) \/ SendWrite(a)
             \/ WriteStep(a) \/ LoseAnswer(a) \/ Report(a) \/ Stop(a)
      PROVE  LoserInv'
  BY <1>1, ReserveAndStageKeepLoser, ExecutorKeepsLoser, WriteKeepsLoser DEF WriteStep
<1>2. CASE \E w \in Workers : RecoverStep(w)
  BY <1>2, RecoverStepKeepsLoser
<1>3. CASE \E s \in Sweepers : ListRows(s) \/ StopSweep(s)
  BY <1>3, SweepKeepsLoser
<1>4. CASE Age \/ UNCHANGED vars
  <2>1. UNCHANGED <<intent, ledger, object, job, exec>>
    BY <1>4 DEF Age, vars, ledger
  <2>2. QED
    BY <2>1, QuietKeepsLoser
<1>5. QED
  BY <1>1, <1>2, <1>3, <1>4 DEF Next

\* A replayed execute() returns only after the copy it staged itself is gone,
\* whoever discarded it.
THEOREM ReplaysAreClean == Spec => []ReplayLeavesNoStage
<1>1. Init => LoserInv
  BY RestIsJob DEF Init, LoserInv, RefInv, CallInv, LosingInv, DiscardInv, ReportInv
<1>2. LoserInv => ReplayLeavesNoStage
  BY DEF LoserInv, DiscardInv, ReportInv, ReplayLeavesNoStage
<1>3. QED
  BY <1>1, <1>2, NextLoserInv, Invariance, PTL DEF Spec
=============================================================================
