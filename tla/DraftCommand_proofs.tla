------------------------ MODULE DraftCommand_proofs ------------------------
(***************************************************************************)
(* The private commands of a principal behind the write fence, for any     *)
(* number of commands, keys, texts and bearers, any lease and any clock:   *)
(* the locks keep every command authorized until it commits, the answers   *)
(* stay true, and the transactions implement DraftLedger.                  *)
(***************************************************************************)
EXTENDS DraftCommand, TLAPS

------------------------------------------------------------------------------
(* The inductive invariant *)

Parts == {"none", "reserve", "write", "read"}
Places == {"new", "begin", "done"} \union Fenced
Writings == {"none", "attempt", "draft", "replay", "served", "nothing"}
Winning == {"NEEDS_COMMIT", "COMMITTED"}
Answers == {"none", "unavailable", "denied", "attempt", "conflict", "duplicate"} \union Writings
Attempts == {"none", "RESERVED", "ABANDONED"} \union Winning

CommandRecords ==
  [at : Places, part : Parts, bearer : Bearers \union {None}, version : Nat,
   checked : 0 .. MaxTime, waited : 0 .. MaxTime, writes : Writings, answer : Answers]

Types ==
  /\ now \in 0 .. MaxTime /\ writer \in BOOLEAN /\ generation \in 1 .. MaxGeneration
  /\ session \in [Bearers -> [state : {"none", "live", "revoked"}, generation : Nat]]
  /\ intent \in [Commands -> [request : Requests, text : Texts]]
  /\ attempt \in [Commands -> Attempts]
  /\ reserved \in [Commands -> 0 .. MaxTime]
  /\ receipt \in [Requests -> Commands \union {None}]
  /\ holder \in [Requests -> Commands \union {None}]
  /\ cmd \in [Commands -> CommandRecords]

\* Where a command is, in which transaction, and what that one will write; an answer is
\* the last thing a command does.
Staged(c) ==
  /\ cmd[c].at \notin {"new", "done"} => Bearer(c) \in Bearers /\ cmd[c].part # "none"
  /\ cmd[c].at = "new" => cmd[c].part = "none"
  /\ cmd[c].at \in {"row", "key", "append"} => cmd[c].part = "write"
  /\ cmd[c].at # "done" => cmd[c].answer = "none"
  /\ cmd[c].writes # "none" => cmd[c].at = "commit"
  /\ cmd[c].at = "commit" =>
       /\ cmd[c].part = "reserve" => cmd[c].writes = "attempt"
       /\ cmd[c].part = "write" => cmd[c].writes \in {"draft", "replay"}
       /\ cmd[c].part = "read" => cmd[c].writes \in {"served", "nothing"}
  /\ cmd[c].waited <= now

\* The row of a command's attempt: there is none before its reservation commits, and
\* while the write has it locked it stays RESERVED.
Attempted(c) ==
  /\ cmd[c].part = "none" => attempt[c] = "none"
  /\ cmd[c].at # "done" /\ cmd[c].part # "write" => attempt[c] = "none"
  /\ cmd[c].at \in {"begin", "fenced"} => attempt[c] \notin Winning
  /\ AttemptLocked(c) => attempt[c] = "RESERVED"

\* What a transaction has found about the receipt of its key, which stays so: a write
\* holds the key's lock, and what a read serves is final.
Found(c) ==
  /\ cmd[c].at = "append" \/ cmd[c].writes = "draft" => ~Decided(c)
  /\ cmd[c].writes = "replay" => Decided(c) /\ SameText(c)
  /\ cmd[c].writes = "served" => Decided(c) /\ attempt[receipt[Key(c)]] = "COMMITTED"

Deciding(c) == cmd[c].part = "write" /\ cmd[c].at \in {"key", "append", "commit"}

\* The advisory lock of a key is with the write that took it, from then on to its end.
LockInv ==
  /\ \A r \in Requests : holder[r] # None => Key(holder[r]) = r /\ Deciding(holder[r])
  /\ \A c \in Commands : Deciding(c) => holder[Key(c)] = c

\* A receipt is of the one attempt for its key that won.
ReceiptInv ==
  /\ \A r \in Requests : receipt[r] # None =>
       Key(receipt[r]) = r /\ attempt[receipt[r]] \in Winning
  /\ \A c \in Commands : attempt[c] \in Winning => receipt[Key(c)] = c

\* AuthorizedToCommit and AnswersAgree, of one command.
Allowed(c) ==
  cmd[c].at \in Fenced =>
    /\ writer /\ cmd[c].version = generation /\ Current(Bearer(c))
    /\ InWindow(Bearer(c), cmd[c].checked)
    /\ cmd[c].writes = "draft" => cmd[c].waited <= cmd[c].checked

Truthful(c) ==
  /\ cmd[c].answer \in {"draft", "replay"} => Decided(c) /\ SameText(c)
  /\ cmd[c].answer = "draft" => receipt[Key(c)] = c
  /\ cmd[c].answer = "replay" => receipt[Key(c)] # c /\ attempt[c] = "ABANDONED"
  /\ cmd[c].answer = "conflict" =>
       Decided(c) /\ ~SameText(c) /\ attempt[c] \in {"RESERVED", "ABANDONED"}
  /\ cmd[c].answer = "served" => Decided(c) /\ attempt[receipt[Key(c)]] = "COMMITTED"
  /\ cmd[c].answer # "duplicate"

CommandInv(c) == Staged(c) /\ Attempted(c) /\ Found(c) /\ Allowed(c) /\ Truthful(c)

IInv == Types /\ LockInv /\ ReceiptInv /\ \A c \in Commands : CommandInv(c)

------------------------------------------------------------------------------
(* What the steps have in common *)

\* A transaction goes on: its own record moves, what it found and holds is as before.
LEMMA MoveKeeps ==
  ASSUME IInv, NEW c \in Commands, NEW n \in CommandRecords,
         cmd' = [cmd EXCEPT ![c] = n], UNCHANGED <<now, authority, ledger>>,
         holder' \in [Requests -> Commands \union {None}],
         LockInv', CommandInv(c)'
  PROVE  IInv'
<1>1. Types'
  BY DEF IInv, Types, authority, ledger
<1>2. ReceiptInv'
  BY DEF IInv, ReceiptInv, ledger, Key
<1>3. ASSUME NEW d \in Commands, d # c PROVE CommandInv(d)'
  <2>1. cmd'[d] = cmd[d] /\ CommandInv(d)
    BY <1>3 DEF IInv, Types
  <2>2. Staged(d)' /\ Attempted(d)'
    BY <2>1 DEF CommandInv, Staged, Attempted, Bearer, AttemptLocked, ledger
  <2>3. Found(d)'
    BY <2>1 DEF CommandInv, Found, Decided, SameText, Key, ledger
  <2>4. Allowed(d)'
    BY <2>1 DEF CommandInv, Allowed, Current, InWindow, Bearer, authority
  <2>5. Truthful(d)'
    BY <2>1 DEF CommandInv, Truthful, Decided, SameText, Key, ledger
  <2>6. QED
    BY <2>2, <2>3, <2>4, <2>5 DEF CommandInv
<1>4. QED
  BY <1>1, <1>2, <1>3 DEF IInv

\* The locks of keys follow the writes.
LEMMA LocksKept ==
  ASSUME IInv, NEW c \in Commands, NEW n \in CommandRecords,
         cmd' = [cmd EXCEPT ![c] = n], UNCHANGED <<intent, holder>>,
         (n.part = "write" /\ n.at \in {"key", "append", "commit"}) <=> Deciding(c)
  PROVE  LockInv'
BY DEF IInv, Types, LockInv, Deciding, Key

LEMMA LocksReleased ==
  ASSUME IInv, NEW c \in Commands, NEW n \in CommandRecords,
         cmd' = [cmd EXCEPT ![c] = n], UNCHANGED intent, holder' = Released(c),
         ~ (n.part = "write" /\ n.at \in {"key", "append", "commit"})
  PROVE  LockInv' /\ holder' \in [Requests -> Commands \union {None}]
<1>1. /\ Types /\ LockInv /\ None \notin Commands
  BY CommandAssumption DEF IInv
<1>2. holder' \in [Requests -> Commands \union {None}]
  BY <1>1 DEF Types, Released
<1>3. ASSUME NEW r \in Requests, NEW d \in Commands, holder'[r] = d
      PROVE  (Key(d) = r /\ Deciding(d))'
  <2>1. holder[r] = d /\ d # c
    BY <1>1, <1>3 DEF Types, Released
  <2>2. Key(d) = r /\ Deciding(d) /\ cmd'[d] = cmd[d]
    BY <1>1, <2>1 DEF Types, LockInv
  <2>3. QED
    BY <2>2 DEF Deciding, Key
<1>4. ASSUME NEW d \in Commands, Deciding(d)'
      PROVE  (holder[Key(d)] = d)'
  <2>1. d # c /\ Deciding(d)
    BY <1>1, <1>4 DEF Types, Deciding
  <2>2. Key(d) \in Requests /\ holder[Key(d)] = d
    BY <1>1, <2>1 DEF Types, LockInv, Key
  <2>3. QED
    BY <2>1, <2>2 DEF Released, Key
<1>5. ASSUME NEW r \in Requests, holder'[r] # None
      PROVE  holder'[r] \in Commands
  BY <1>2, <1>5
<1>6. (\A r \in Requests : holder[r] # None => Key(holder[r]) = r /\ Deciding(holder[r]))'
  BY <1>3, <1>5 DEF Key, Deciding
<1>7. QED
  BY <1>2, <1>4, <1>6 DEF LockInv, Key, Deciding

\* A transaction that is rolled back leaves nothing.
LEMMA RejectKeeps ==
  ASSUME IInv, NEW c \in Commands, cmd[c].at # "done",
         NEW e \in {"denied", "attempt", "unavailable", "conflict"}, Reject(c, e),
         e = "conflict" => cmd[c].at = "key" /\ Decided(c) /\ ~SameText(c)
  PROVE  IInv'
<1> DEFINE n == [cmd[c] EXCEPT !.at = "done", !.answer = e, !.writes = "none"]
<1>1. Types /\ CommandInv(c)
  BY DEF IInv
<1>2. n \in CommandRecords /\ n.at = "done" /\ cmd' = [cmd EXCEPT ![c] = n]
  BY <1>1 DEF Types, CommandRecords, Reject, Places, Answers, Writings
<1>3. UNCHANGED <<now, authority, ledger>> /\ UNCHANGED intent /\ holder' = Released(c)
  BY DEF Reject, ledger
<1>4. cmd'[c] = n
  BY <1>1, <1>2 DEF Types
<1>5. LockInv' /\ holder' \in [Requests -> Commands \union {None}]
  BY <1>2, <1>3, LocksReleased
<1>6. Staged(c)' /\ Attempted(c)'
  BY <1>1, <1>3, <1>4 DEF Types, CommandRecords, CommandInv, Staged, Attempted, AttemptLocked, Fenced, ledger
<1>7. Found(c)' /\ Allowed(c)'
  BY <1>1, <1>4 DEF Types, CommandRecords, Found, Allowed, Fenced
<1>8. Truthful(c)'
  BY <1>1, <1>3, <1>4 DEF Types, CommandRecords, CommandInv, Staged, Attempted, AttemptLocked, Fenced,
     Truthful, Decided, SameText, Key, ledger
<1>9. QED
  BY <1>2, <1>3, <1>5, <1>6, <1>7, <1>8, MoveKeeps DEF CommandInv

------------------------------------------------------------------------------
(* A step of every action *)

\* Time, logins, logouts and changes of rights: whatever they do to the authority, they
\* have nothing to do with the ledger and with the commands' own records.
LEMMA AuthorityMoves ==
  ASSUME IInv, UNCHANGED <<ledger, holder, cmd>>, now' \in 0 .. MaxTime, now <= now',
         writer' \in BOOLEAN, generation' \in 1 .. MaxGeneration,
         session' \in [Bearers -> [state : {"none", "live", "revoked"}, generation : Nat]],
         \A c \in Commands : cmd[c].at \in Fenced =>
           /\ writer' = writer /\ generation' = generation
           /\ session'[Bearer(c)] = session[Bearer(c)]
  PROVE  IInv'
<1>1. Types' /\ LockInv' /\ ReceiptInv'
  BY DEF IInv, Types, LockInv, ReceiptInv, Deciding, Key, ledger
<1>2. ASSUME NEW c \in Commands PROVE CommandInv(c)'
  <2>1. CommandInv(c) /\ cmd[c] \in CommandRecords /\ now \in Nat /\ now' \in Nat
    BY DEF IInv, Types
  <2>2. Staged(c)' /\ Attempted(c)'
    BY <2>1 DEF CommandInv, CommandRecords, Staged, Attempted, AttemptLocked, Bearer, ledger
  <2>3. Found(c)' /\ Truthful(c)'
    BY <2>1 DEF CommandInv, Found, Truthful, Decided, SameText, Key, ledger
  <2>4. Allowed(c)'
    BY <2>1 DEF CommandInv, Allowed, Current, InWindow, Bearer
  <2>5. QED
    BY <2>2, <2>3, <2>4 DEF CommandInv
<1>3. QED
  BY <1>1, <1>2 DEF IInv

\* They wait for the rows that the fences hold.
LEMMA SharingNobody ==
  ASSUME NEW b, Sharing(b) = {}, NEW c \in Commands, cmd[c].at \in Fenced
  PROVE  b # None /\ Bearer(c) # b
BY DEF Sharing

LEMMA EnvironmentKeeps ==
  ASSUME IInv, Tick \/ ChangeRights \/ \E b \in Bearers : OpenSession(b) \/ Logout(b)
  PROVE  IInv'
<1>1. Types
  BY DEF IInv
<1>2. CASE Tick
  <2>1. now' \in 0 .. MaxTime /\ now <= now'
    BY <1>1, <1>2, CommandAssumption DEF Tick, Types
  <2>2. QED
    BY <1>1, <1>2, <2>1, AuthorityMoves DEF Tick, Types, authority
<1>3. CASE ChangeRights
  <2>1. \A c \in Commands : cmd[c].at \notin Fenced
    BY <1>3, SharingNobody DEF ChangeRights
  <2>2. generation' \in 1 .. MaxGeneration /\ writer' \in BOOLEAN
    BY <1>1, <1>3, CommandAssumption DEF ChangeRights, Types
  <2>3. now' \in 0 .. MaxTime /\ now <= now' /\ session' = session
    BY <1>1, <1>3, CommandAssumption DEF ChangeRights, Types
  <2>4. UNCHANGED <<ledger, holder, cmd>>
    BY <1>3 DEF ChangeRights
  <2>5. QED
    BY <1>1, <2>1, <2>2, <2>3, <2>4, AuthorityMoves DEF Types
<1>4. ASSUME NEW b \in Bearers, OpenSession(b) PROVE IInv'
  <2>1. \A c \in Commands : cmd[c].at \notin Fenced
    BY <1>4, SharingNobody DEF OpenSession
  <2>2. session' \in [Bearers -> [state : {"none", "live", "revoked"}, generation : Nat]]
    BY <1>1, <1>4 DEF OpenSession, Types
  <2>3. now' \in 0 .. MaxTime /\ now <= now' /\ UNCHANGED <<writer, generation>>
    BY <1>1, <1>4, CommandAssumption DEF OpenSession, Types
  <2>4. UNCHANGED <<ledger, holder, cmd>>
    BY <1>4 DEF OpenSession
  <2>5. QED
    BY <1>1, <2>1, <2>2, <2>3, <2>4, AuthorityMoves DEF Types
<1>5. ASSUME NEW b \in Bearers, Logout(b) PROVE IInv'
  <2>1. \A c \in Commands : cmd[c].at \in Fenced => Bearer(c) # b
    BY <1>5, SharingNobody DEF Logout
  <2>2. /\ session' \in [Bearers -> [state : {"none", "live", "revoked"}, generation : Nat]]
        /\ \A c \in Commands : cmd[c].at \in Fenced => session'[Bearer(c)] = session[Bearer(c)]
    BY <1>1, <1>5, <2>1 DEF Logout, Types, IInv, CommandInv, Staged, Fenced
  <2>3. now' \in 0 .. MaxTime /\ now <= now' /\ UNCHANGED <<writer, generation>>
    BY <1>1, <1>5, CommandAssumption DEF Logout, Types
  <2>4. UNCHANGED <<ledger, holder, cmd>>
    BY <1>5 DEF Logout
  <2>5. QED
    BY <1>1, <2>2, <2>3, <2>4, AuthorityMoves DEF Types
<1>6. QED
  BY <1>2, <1>3, <1>4, <1>5

\* The row of an attempt moves on its own: a claim, a retreat, a finalization.
LEMMA AttemptMoves ==
  ASSUME IInv, NEW c \in Commands, NEW s \in Attempts, attempt' = [attempt EXCEPT ![c] = s],
         UNCHANGED <<now, authority, intent, reserved, receipt, holder, cmd>>,
         \/ attempt[c] = "RESERVED" /\ s = "ABANDONED" /\ ~AttemptLocked(c)
         \/ attempt[c] = "NEEDS_COMMIT" /\ s = "COMMITTED"
  PROVE  IInv'
<1>1. Types /\ ReceiptInv
  BY DEF IInv
<1>2. Types' /\ LockInv'
  BY DEF IInv, Types, LockInv, Deciding, Key, authority
<1>3. ReceiptInv'
  BY <1>1 DEF Types, ReceiptInv, Key, Winning
<1>4. ASSUME NEW d \in Commands PROVE CommandInv(d)'
  <2>1. CommandInv(d)
    BY DEF IInv
  <2>2. Staged(d)' /\ Allowed(d)'
    BY <2>1 DEF CommandInv, Staged, Allowed, Current, InWindow, Bearer, authority
  <2>3. Attempted(d)'
    BY <1>1, <2>1 DEF Types, CommandInv, Attempted, AttemptLocked, Winning
  <2>4. attempt[d] \in {"ABANDONED", "RESERVED"} => attempt'[d] \in {attempt[d], "ABANDONED"}
    BY <1>1 DEF Types
  <2>5. attempt[receipt[Key(d)]] = "COMMITTED" => (attempt[receipt[Key(d)]] = "COMMITTED")'
    BY <1>1 DEF Types, Key
  <2>6. Found(d)' /\ Truthful(d)'
    BY <2>1, <2>4, <2>5 DEF CommandInv, Found, Truthful, Decided, SameText, Key
  <2>7. QED
    BY <2>2, <2>3, <2>6 DEF CommandInv
<1>5. QED
  BY <1>2, <1>3, <1>4 DEF IInv

LEMMA LedgerMovesKeep ==
  ASSUME IInv, NEW c \in Commands, Claim(c) \/ Finalize(c) \/ Abandon(c)
  PROVE  IInv'
<1>1. CASE Claim(c)
  BY <1>1, AttemptMoves DEF Claim, Attempts
<1>2. CASE Finalize(c)
  BY <1>2, AttemptMoves DEF Finalize, Attempts, Winning
<1>3. CASE Abandon(c)
  BY <1>3, AttemptMoves DEF Abandon, Attempts, AttemptLocked, Fenced
<1>4. QED
  BY <1>1, <1>2, <1>3

LEMMA LookupKeeps ==
  ASSUME IInv, NEW c \in Commands, NEW op \in Operations[c], NEW b \in Bearers, Lookup(c, op, b)
  PROVE  IInv'
<1>1. Types /\ CommandInv(c)
  BY DEF IInv
<1>2. CASE Reject(c, "denied")
  BY <1>2, RejectKeeps DEF Lookup
<1>3. CASE ~Reject(c, "denied")
  <2> DEFINE part == IF op = "write" THEN "reserve" ELSE op
             n == [cmd[c] EXCEPT !.at = "begin", !.bearer = b, !.version = generation, !.part = part]
  <2>1. part \in {"reserve", "read"} /\ cmd[c] \in CommandRecords /\ generation \in Nat
    BY <1>1, CommandAssumption DEF Types
  <2>2. /\ n \in CommandRecords /\ n.at = "begin" /\ n.bearer = b /\ n.part \in {"reserve", "read"}
        /\ n.writes = cmd[c].writes /\ n.answer = cmd[c].answer /\ n.waited = cmd[c].waited
    <3> HIDE DEF part
    <3> QED
      BY <2>1 DEF CommandRecords, Places, Parts
  <2>3. cmd' = [cmd EXCEPT ![c] = n] /\ UNCHANGED <<now, authority, ledger>> /\ UNCHANGED <<intent, holder>>
    BY <1>3 DEF Lookup, ledger
  <2>4. cmd'[c] = n /\ cmd[c].at = "new"
    BY <1>1, <2>3 DEF Types, Lookup
  <2>5. LockInv' /\ holder' \in [Requests -> Commands \union {None}]
    BY <1>1, <2>2, <2>3, <2>4, LocksKept DEF Types, Deciding
  <2>6. Staged(c)' /\ Attempted(c)'
    BY <1>1, <2>2, <2>3, <2>4 DEF CommandInv, Staged, Attempted, AttemptLocked, Fenced, Bearer, Winning, ledger
  <2>7. Found(c)' /\ Allowed(c)' /\ Truthful(c)'
    BY <1>1, <2>2, <2>4 DEF CommandInv, Staged, Found, Allowed, Truthful, Fenced
  <2>8. QED
    BY <2>2, <2>3, <2>5, <2>6, <2>7, MoveKeeps DEF CommandInv
<1>4. QED
  BY <1>2, <1>3

LEMMA FenceKeeps ==
  ASSUME IInv, NEW c \in Commands, Fence(c)
  PROVE  IInv'
<1>1. Types /\ CommandInv(c)
  BY DEF IInv
<1>2. CASE ~Authorized(c)
  BY <1>2, RejectKeeps DEF Fence
<1>3. CASE Authorized(c)
  <2> DEFINE n == [cmd[c] EXCEPT !.at = "fenced", !.checked = now]
  <2>1. /\ n \in CommandRecords /\ n.at = "fenced" /\ n.checked = now
        /\ \A f \in {"part", "bearer", "version", "waited", "writes", "answer"} : n[f] = cmd[c][f]
    BY <1>1 DEF Types, CommandRecords, Places, Fenced
  <2>2. cmd' = [cmd EXCEPT ![c] = n] /\ UNCHANGED <<now, authority, ledger>> /\ UNCHANGED <<intent, holder>>
    BY <1>3 DEF Fence, ledger
  <2>3. cmd'[c] = n /\ cmd[c].at = "begin"
    BY <1>1, <2>2 DEF Types, Fence
  <2>4. LockInv' /\ holder' \in [Requests -> Commands \union {None}]
    BY <1>1, <2>1, <2>2, <2>3, LocksKept DEF Types, Deciding
  <2>5. Staged(c)' /\ Attempted(c)'
    BY <1>1, <2>1, <2>2, <2>3 DEF CommandInv, Staged, Attempted, AttemptLocked, Fenced, Bearer, ledger
  <2>6. Found(c)' /\ Truthful(c)'
    BY <1>1, <2>1, <2>3 DEF CommandInv, Staged, Found, Truthful
  <2>7. Allowed(c)'
    BY <1>1, <1>3, <2>1, <2>2, <2>3 DEF CommandInv, Staged, Allowed, Authorized, Current, Bearer, InWindow, authority
  <2>8. QED
    BY <2>1, <2>2, <2>4, <2>5, <2>6, <2>7, MoveKeeps DEF CommandInv
<1>4. QED
  BY <1>2, <1>3

\* A transaction goes on behind its fence, with the stamp it came with.
Onward(c, n) ==
  /\ cmd[c].at \in Fenced \ {"commit"} /\ n.at \in Fenced \ {"fenced"}
  /\ n.part = cmd[c].part /\ n.bearer = Bearer(c) /\ n.version = cmd[c].version
  /\ n.answer = cmd[c].answer /\ n.waited <= now
  /\ n.at \in {"row", "key", "append"} => n.part = "write"
  /\ n.at = "commit" <=> n.writes # "none"
  /\ n.at = "commit" =>
       /\ n.part = "reserve" => n.writes = "attempt"
       /\ n.part = "write" => n.writes \in {"draft", "replay"}
       /\ n.part = "read" => n.writes \in {"served", "nothing"}
  /\ n.part = "write" => attempt[c] = "RESERVED"
  /\ n.checked = cmd[c].checked \/ InWindow(Bearer(c), n.checked)
  /\ n.writes = "draft" => n.waited <= n.checked

LEMMA OnwardKeeps ==
  ASSUME IInv, NEW c \in Commands, NEW n \in CommandRecords, Onward(c, n),
         cmd' = [cmd EXCEPT ![c] = n], UNCHANGED <<now, authority, ledger>>,
         holder' \in [Requests -> Commands \union {None}], LockInv', Found(c)'
  PROVE  IInv'
<1>1. Types /\ CommandInv(c) /\ cmd[c].writes = "none" /\ cmd[c].answer = "none"
  BY DEF IInv, CommandInv, Staged, Onward, Fenced
<1>2. cmd'[c] = n
  BY <1>1 DEF Types
<1>3. Staged(c)'
  BY <1>1, <1>2 DEF CommandInv, Staged, Onward, Fenced, Bearer
<1>4. Attempted(c)'
  BY <1>1, <1>2 DEF CommandInv, Staged, Attempted, AttemptLocked, Onward, Fenced, ledger
<1>5. Allowed(c)'
  BY <1>1, <1>2 DEF CommandInv, Allowed, Onward, Current, InWindow, Bearer, authority
<1>6. Truthful(c)'
  BY <1>1, <1>2 DEF Truthful, Onward
<1>7. QED
  BY <1>3, <1>4, <1>5, <1>6, MoveKeeps DEF CommandInv

\* It neither takes nor gives back the lock of its key.
LEMMA OnwardKeepsLocks ==
  ASSUME IInv, NEW c \in Commands, NEW n \in CommandRecords, Onward(c, n),
         cmd' = [cmd EXCEPT ![c] = n], UNCHANGED <<intent, holder>>,
         \/ n.part # "write"
         \/ cmd[c].at = "fenced" /\ n.at = "row"
         \/ cmd[c].at \in {"key", "append"} /\ n.at \in {"append", "commit"}
  PROVE  LockInv' /\ holder' \in [Requests -> Commands \union {None}]
<1>1. (n.part = "write" /\ n.at \in {"key", "append", "commit"}) <=> Deciding(c)
  BY DEF IInv, CommandInv, Staged, Onward, Deciding, Fenced
<1>2. QED
  BY <1>1, LocksKept DEF IInv, Types

LEMMA ReserveKeeps ==
  ASSUME IInv, NEW c \in Commands, Reserve(c)
  PROVE  IInv'
<1> DEFINE n == [cmd[c] EXCEPT !.at = "commit", !.writes = "attempt", !.waited = now]
<1>1. Types /\ CommandInv(c) /\ cmd[c] \in CommandRecords /\ now \in 0 .. MaxTime
  BY DEF IInv, Types
<1>2. /\ n \in CommandRecords /\ n.at = "commit" /\ n.writes = "attempt" /\ n.waited = now
      /\ \A f \in {"part", "bearer", "version", "checked", "answer"} : n[f] = cmd[c][f]
  BY <1>1 DEF CommandRecords, Places, Fenced, Writings
<1>3. cmd' = [cmd EXCEPT ![c] = n] /\ UNCHANGED <<now, authority, ledger>> /\ UNCHANGED <<intent, holder>>
  BY DEF Reserve, ledger
<1>4. Onward(c, n)
  BY <1>1, <1>2, CommandAssumption DEF Onward, Reserve, Fenced, Bearer
<1>5. Found(c)'
  BY <1>1, <1>2, <1>3 DEF Types, Found
<1>6. LockInv' /\ holder' \in [Requests -> Commands \union {None}]
  BY <1>2, <1>3, <1>4, OnwardKeepsLocks DEF Reserve
<1>7. QED
  BY <1>2, <1>3, <1>4, <1>5, <1>6, OnwardKeeps

LEMMA ReadKeeps ==
  ASSUME IInv, NEW c \in Commands, Read(c)
  PROVE  IInv'
<1> DEFINE what == IF Readable(Key(c)) THEN "served" ELSE "nothing"
           n == [cmd[c] EXCEPT !.at = "commit", !.writes = what]
<1>1. Types /\ CommandInv(c) /\ cmd[c] \in CommandRecords
  BY DEF IInv, Types
<1>2. what \in {"served", "nothing"} /\ (what = "served" => Readable(Key(c)))
  OBVIOUS
<1> HIDE DEF what
<1>3. /\ n \in CommandRecords /\ n.at = "commit" /\ n.writes = what
      /\ \A f \in {"part", "bearer", "version", "checked", "waited", "answer"} : n[f] = cmd[c][f]
  BY <1>1, <1>2 DEF CommandRecords, Places, Fenced, Writings
<1>4. cmd' = [cmd EXCEPT ![c] = n] /\ UNCHANGED <<now, authority, ledger>> /\ UNCHANGED <<intent, holder>>
  BY DEF Read, Writes, ledger, what
<1>5. Onward(c, n)
  BY <1>1, <1>2, <1>3 DEF Onward, Read, Fenced, Bearer, CommandInv, Staged
<1>6. Found(c)'
  BY <1>1, <1>2, <1>3, <1>4 DEF Types, Found, Readable, Decided, Key, ledger
<1>7. LockInv' /\ holder' \in [Requests -> Commands \union {None}]
  BY <1>3, <1>4, <1>5, OnwardKeepsLocks DEF Read
<1>8. QED
  BY <1>3, <1>4, <1>5, <1>6, <1>7, OnwardKeeps

LEMMA LockAttemptKeeps ==
  ASSUME IInv, NEW c \in Commands, LockAttempt(c)
  PROVE  IInv'
<1>1. CASE attempt[c] # "RESERVED"
  BY <1>1, RejectKeeps DEF LockAttempt
<1>2. CASE attempt[c] = "RESERVED"
  <2> DEFINE n == [cmd[c] EXCEPT !.at = "row"]
  <2>1. Types /\ CommandInv(c) /\ cmd[c] \in CommandRecords
    BY DEF IInv, Types
  <2>2. /\ n \in CommandRecords /\ n.at = "row"
        /\ \A f \in {"part", "bearer", "version", "checked", "waited", "writes", "answer"} :
             n[f] = cmd[c][f]
    BY <2>1 DEF CommandRecords, Places, Fenced
  <2>3. cmd' = [cmd EXCEPT ![c] = n] /\ UNCHANGED <<now, authority, ledger>> /\ UNCHANGED <<intent, holder>>
    BY <1>2 DEF LockAttempt, GoTo, ledger
  <2>4. Onward(c, n)
    BY <1>2, <2>1, <2>2 DEF Onward, LockAttempt, Fenced, Bearer, CommandInv, Staged
  <2>5. Found(c)'
    BY <2>1, <2>2, <2>3, <2>4 DEF Types, Found, CommandInv, Staged, Onward
  <2>6. LockInv' /\ holder' \in [Requests -> Commands \union {None}]
    BY <2>2, <2>3, <2>4, OnwardKeepsLocks DEF LockAttempt
  <2>7. QED
    BY <2>2, <2>3, <2>4, <2>5, <2>6, OnwardKeeps
<1>3. QED
  BY <1>1, <1>2

LEMMA LockKeyKeeps ==
  ASSUME IInv, NEW c \in Commands, LockKey(c)
  PROVE  IInv'
<1> DEFINE n == [cmd[c] EXCEPT !.at = "key", !.waited = now]
<1>1. Types /\ LockInv /\ CommandInv(c) /\ cmd[c] \in CommandRecords /\ now \in 0 .. MaxTime
  BY DEF IInv, Types
<1>2. /\ n \in CommandRecords /\ n.at = "key" /\ n.waited = now
      /\ \A f \in {"part", "bearer", "version", "checked", "writes", "answer"} : n[f] = cmd[c][f]
  BY <1>1 DEF CommandRecords, Places, Fenced
<1>3. cmd' = [cmd EXCEPT ![c] = n] /\ UNCHANGED <<now, authority, ledger>> /\ UNCHANGED intent
  BY DEF LockKey, ledger
<1>4. cmd[c].part = "write" /\ attempt[c] = "RESERVED" /\ cmd[c].writes = "none"
  BY <1>1 DEF LockKey, CommandInv, Staged, Attempted, AttemptLocked, Fenced
<1>5. Onward(c, n)
  BY <1>1, <1>2, <1>4, CommandAssumption DEF Onward, LockKey, Fenced, Bearer
<1>6. Found(c)'
  BY <1>1, <1>2, <1>3, <1>4 DEF Types, Found
<1>7. Key(c) \in Requests /\ holder[Key(c)] = None /\ None \notin Commands
  BY <1>1, CommandAssumption DEF Types, Key, LockKey
<1>8. holder' = [holder EXCEPT ![Key(c)] = c]
  BY DEF LockKey
<1>9. holder' \in [Requests -> Commands \union {None}]
  BY <1>1, <1>8 DEF Types
<1>10. LockInv'
  BY <1>1, <1>2, <1>3, <1>4, <1>7, <1>8 DEF Types, LockInv, Deciding, Key
<1>11. QED
  BY <1>2, <1>3, <1>5, <1>6, <1>9, <1>10, OnwardKeeps

LEMMA AnswerFromReceiptKeeps ==
  ASSUME IInv, NEW c \in Commands, Conflict(c) \/ Replay(c) \/ Fresh(c)
  PROVE  IInv'
<1>1. Types /\ CommandInv(c) /\ cmd[c] \in CommandRecords
  BY DEF IInv, Types
<1>2. cmd[c].at = "key" /\ cmd[c].part = "write" /\ attempt[c] = "RESERVED" /\ cmd[c].writes = "none"
  BY <1>1 DEF Conflict, Replay, Fresh, CommandInv, Staged, Attempted, AttemptLocked, Fenced
<1>3. CASE Conflict(c)
  BY <1>3, RejectKeeps DEF Conflict
<1>4. CASE Replay(c)
  <2> DEFINE n == [cmd[c] EXCEPT !.at = "commit", !.writes = "replay"]
  <2>1. /\ n \in CommandRecords /\ n.at = "commit" /\ n.writes = "replay"
        /\ \A f \in {"part", "bearer", "version", "checked", "waited", "answer"} : n[f] = cmd[c][f]
    BY <1>1 DEF CommandRecords, Places, Fenced, Writings
  <2>2. cmd' = [cmd EXCEPT ![c] = n] /\ UNCHANGED <<now, authority, ledger>> /\ UNCHANGED <<intent, holder>>
    BY <1>4 DEF Replay, Writes, ledger
  <2>3. Onward(c, n)
    BY <1>1, <1>2, <2>1 DEF Onward, Fenced, Bearer, CommandInv, Staged
  <2>4. Found(c)'
    BY <1>1, <1>4, <2>1, <2>2 DEF Types, Found, Replay, Decided, SameText, Key, ledger
  <2>5. LockInv' /\ holder' \in [Requests -> Commands \union {None}]
    BY <1>2, <2>1, <2>2, <2>3, OnwardKeepsLocks
  <2>6. QED
    BY <2>1, <2>2, <2>3, <2>4, <2>5, OnwardKeeps
<1>5. CASE Fresh(c)
  <2> DEFINE n == [cmd[c] EXCEPT !.at = "append"]
  <2>1. /\ n \in CommandRecords /\ n.at = "append"
        /\ \A f \in {"part", "bearer", "version", "checked", "waited", "writes", "answer"} :
             n[f] = cmd[c][f]
    BY <1>1 DEF CommandRecords, Places, Fenced, Writings
  <2>2. cmd' = [cmd EXCEPT ![c] = n] /\ UNCHANGED <<now, authority, ledger>> /\ UNCHANGED <<intent, holder>>
    BY <1>5 DEF Fresh, GoTo, ledger
  <2>3. Onward(c, n)
    BY <1>1, <1>2, <2>1 DEF Onward, Fenced, Bearer, CommandInv, Staged
  <2>4. Found(c)'
    BY <1>1, <1>2, <1>5, <2>1, <2>2 DEF Types, Found, Fresh, Decided, Key, ledger
  <2>5. LockInv' /\ holder' \in [Requests -> Commands \union {None}]
    BY <1>2, <2>1, <2>2, <2>3, OnwardKeepsLocks
  <2>6. QED
    BY <2>1, <2>2, <2>3, <2>4, <2>5, OnwardKeeps
<1>6. QED
  BY <1>3, <1>4, <1>5

\* The second fence of a fresh draft; the lock has kept its key undecided.
LEMMA AppendKeeps ==
  ASSUME IInv, NEW c \in Commands, Append(c)
  PROVE  IInv'
<1>1. Types /\ CommandInv(c) /\ cmd[c] \in CommandRecords /\ now \in 0 .. MaxTime
  BY DEF IInv, Types
<1>2. /\ cmd[c].at = "append" /\ cmd[c].part = "write" /\ attempt[c] = "RESERVED"
      /\ cmd[c].writes = "none" /\ cmd[c].waited <= now /\ ~Decided(c)
  BY <1>1 DEF Append, CommandInv, Staged, Attempted, AttemptLocked, Fenced, Found
<1>3. CASE ~Authorized(c)
  BY <1>2, <1>3, RejectKeeps DEF Append
<1>4. CASE Authorized(c)
  <2> DEFINE n == [cmd[c] EXCEPT !.at = "commit", !.writes = "draft", !.checked = now]
  <2>1. /\ n \in CommandRecords /\ n.at = "commit" /\ n.writes = "draft" /\ n.checked = now
        /\ \A f \in {"part", "bearer", "version", "waited", "answer"} : n[f] = cmd[c][f]
    BY <1>1 DEF CommandRecords, Places, Fenced, Writings
  <2>2. cmd' = [cmd EXCEPT ![c] = n] /\ UNCHANGED <<now, authority, ledger>> /\ UNCHANGED <<intent, holder>>
    BY <1>2, <1>4 DEF Append, ledger
  <2>3. Onward(c, n)
    BY <1>2, <1>4, <2>1 DEF Onward, Fenced, Bearer, Authorized
  <2>4. Found(c)'
    BY <1>1, <1>2, <2>1, <2>2 DEF Types, Found, Decided, Key, ledger
  <2>5. LockInv' /\ holder' \in [Requests -> Commands \union {None}]
    BY <1>2, <2>1, <2>2, <2>3, OnwardKeepsLocks
  <2>6. QED
    BY <2>1, <2>2, <2>3, <2>4, <2>5, OnwardKeeps
<1>5. QED
  BY <1>3, <1>4

------------------------------------------------------------------------------
(* COMMIT *)

\* What is recorded: nothing is taken back, and the key of a draft was undecided.
Records(c, s, r) ==
  /\ attempt' = [attempt EXCEPT ![c] = s] /\ receipt' = r
  /\ \/ attempt[c] = "none" /\ s = "RESERVED" /\ r = receipt
     \/ attempt[c] = "RESERVED" /\ s = "ABANDONED" /\ r = receipt
     \/ /\ attempt[c] = "RESERVED" /\ s = "NEEDS_COMMIT" /\ ~Decided(c)
        /\ r = [receipt EXCEPT ![Key(c)] = c]

LEMMA DurableRecords ==
  ASSUME IInv, NEW c \in Commands, cmd[c].at = "commit", Durable(c)
  PROVE  /\ UNCHANGED intent /\ reserved' \in [Commands -> 0 .. MaxTime]
         /\ cmd[c].writes \in {"served", "nothing"} => UNCHANGED ledger
         /\ cmd[c].writes = "attempt" => Records(c, "RESERVED", receipt)
         /\ cmd[c].writes = "draft" => Records(c, "NEEDS_COMMIT", [receipt EXCEPT ![Key(c)] = c])
         /\ cmd[c].writes = "replay" => Records(c, "ABANDONED", receipt)
<1>1. Types /\ CommandInv(c) /\ cmd[c] \in CommandRecords
  BY DEF IInv, Types
<1>2. /\ cmd[c].writes = "attempt" => attempt[c] = "none"
      /\ cmd[c].writes \in {"draft", "replay"} => attempt[c] = "RESERVED"
      /\ cmd[c].writes = "draft" => ~Decided(c)
  BY <1>1 DEF CommandRecords, Parts, CommandInv, Staged, Attempted, AttemptLocked, Found, Fenced
<1>3. CASE cmd[c].writes = "attempt"
  <2>1. cmd[c].waited \in 0 .. MaxTime
    BY <1>1 DEF CommandRecords
  <2>2. QED
    BY <1>1, <1>2, <1>3, <2>1 DEF Types, Durable, Records
<1>4. CASE cmd[c].writes = "draft"
  BY <1>1, <1>2, <1>4 DEF Types, Durable, Records
<1>5. CASE cmd[c].writes = "replay"
  BY <1>1, <1>2, <1>5 DEF Types, Durable, Records
<1>6. CASE cmd[c].writes \notin {"attempt", "draft", "replay"}
  BY <1>1, <1>6 DEF Types, Durable, ledger
<1>7. QED
  BY <1>3, <1>4, <1>5, <1>6

\* No record disturbs what another command has found or was told.
LEMMA RecordsKeepOthers ==
  ASSUME IInv, NEW c \in Commands, NEW s, NEW r, Records(c, s, r),
         cmd[c].at = "commit", s # "RESERVED" => cmd[c].part = "write",
         UNCHANGED <<now, authority, intent>>,
         NEW d \in Commands, d # c, cmd'[d] = cmd[d]
  PROVE  CommandInv(d)'
<1>1. Types /\ LockInv /\ ReceiptInv /\ CommandInv(d)
  BY DEF IInv
<1>2. /\ Key(c) \in Requests /\ Key(d) \in Requests /\ Key(d)' = Key(d) /\ attempt'[d] = attempt[d]
      /\ None \notin Commands
  BY <1>1, CommandAssumption DEF Types, Key, Records
<1>3. Staged(d)' /\ Attempted(d)' /\ Allowed(d)'
  BY <1>1, <1>2 DEF CommandInv, Staged, Attempted, AttemptLocked, Bearer, Allowed, Current, InWindow, authority
<1>4. Decided(d) => /\ receipt'[Key(d)] = receipt[Key(d)]
                    /\ Decided(d)' /\ (SameText(d)' <=> SameText(d))
  BY <1>1, <1>2 DEF Types, Records, Decided, SameText, Key
<1>5. Deciding(d) /\ ~Decided(d) => ~Decided(d)'
  <2> SUFFICES ASSUME Deciding(d), ~Decided(d), s # "RESERVED" PROVE ~Decided(d)'
    BY <1>1, <1>2 DEF Records, Decided
  <2>1. Deciding(c)
    BY DEF Deciding
  <2>2. Key(c) # Key(d)
    BY <1>1, <2>1 DEF LockInv
  <2>3. QED
    BY <1>1, <1>2, <2>2 DEF Types, Records, Decided
<1>6. Decided(d) /\ attempt[receipt[Key(d)]] = "COMMITTED" =>
        (attempt[receipt[Key(d)]] = "COMMITTED")'
  <2> SUFFICES ASSUME Decided(d), attempt[receipt[Key(d)]] = "COMMITTED"
               PROVE  (attempt[receipt[Key(d)]] = "COMMITTED")'
    OBVIOUS
  <2>1. receipt[Key(d)] # c /\ receipt[Key(d)] \in Commands
    BY <1>1, <1>2 DEF Types, Records, Decided
  <2>2. QED
    BY <1>1, <1>2, <1>4, <2>1 DEF Types, Records
<1>7. cmd[d].at = "append" \/ cmd[d].writes = "draft" => Deciding(d)
  BY <1>1 DEF CommandInv, Staged, Deciding, Types, CommandRecords, Parts
<1>8. Found(d)'
  BY <1>1, <1>4, <1>5, <1>6, <1>7 DEF CommandInv, Found
<1>9. Truthful(d)'
  BY <1>1, <1>2, <1>4, <1>6 DEF CommandInv, Truthful
<1>10. QED
  BY <1>3, <1>8, <1>9 DEF CommandInv

LEMMA RecordsKeepReceipts ==
  ASSUME IInv, NEW c \in Commands, NEW s, NEW r, Records(c, s, r), UNCHANGED intent
  PROVE  /\ ReceiptInv' /\ attempt' \in [Commands -> Attempts]
         /\ receipt' \in [Requests -> Commands \union {None}]
<1>1. Types /\ ReceiptInv /\ Key(c) \in Requests /\ None \notin Commands
  BY CommandAssumption DEF IInv, Types, Key
<1>2. attempt' \in [Commands -> Attempts] /\ receipt' \in [Requests -> Commands \union {None}]
  BY <1>1 DEF Types, Records, Attempts, Winning
<1>3. ASSUME NEW q \in Requests, receipt'[q] # None
      PROVE  (Key(receipt[q]) = q /\ attempt[receipt[q]] \in Winning)'
  <2>1. CASE receipt'[q] = receipt[q]
    <3>1. receipt[q] \in Commands /\ Key(receipt[q]) = q /\ attempt[receipt[q]] \in Winning
      BY <1>1, <1>3, <2>1 DEF Types, ReceiptInv
    <3>2. attempt'[receipt[q]] \in Winning
      BY <1>1, <3>1 DEF Types, Records, Winning
    <3>3. QED
      BY <2>1, <3>1, <3>2 DEF Key
  <2>2. CASE receipt'[q] # receipt[q]
    <3>1. q = Key(c) /\ receipt'[q] = c /\ attempt'[c] = "NEEDS_COMMIT"
      BY <1>1, <2>2 DEF Types, Records
    <3>2. QED
      BY <3>1 DEF Key, Winning
  <2>3. QED
    BY <2>1, <2>2
<1>4. ASSUME NEW d \in Commands, attempt'[d] \in Winning
      PROVE  (receipt[Key(d)] = d)'
  <2>1. CASE d = c
    BY <1>1, <1>4, <2>1 DEF Types, Records, Winning, Key
  <2>2. CASE d # c
    <3>1. attempt[d] \in Winning /\ receipt[Key(d)] = d /\ Key(d) \in Requests
      BY <1>1, <1>4, <2>2 DEF Types, Records, ReceiptInv, Key
    <3>2. receipt'[Key(d)] = receipt[Key(d)]
      BY <1>1, <3>1 DEF Types, Records, Decided
    <3>3. QED
      BY <3>1, <3>2 DEF Key
  <2>3. QED
    BY <2>1, <2>2
<1>5. (\A q \in Requests : receipt[q] # None => Key(receipt[q]) = q /\ attempt[receipt[q]] \in Winning)'
  BY <1>3
<1>6. (\A d \in Commands : attempt[d] \in Winning => receipt[Key(d)] = d)'
  BY <1>4
<1>7. QED
  BY <1>2, <1>5, <1>6 DEF ReceiptInv

\* The end of a transaction that had come to its COMMIT: recorded or not, and answered
\* or, after a reservation, gone on to the write.
Ended(c, n) ==
  /\ n.bearer = cmd[c].bearer /\ n.waited = cmd[c].waited /\ n.writes = "none"
  /\ cmd' = [cmd EXCEPT ![c] = n] /\ holder' = Released(c) /\ UNCHANGED <<now, authority>>

\* What is recorded supports what is answered.
LEMMA EndKeeps ==
  ASSUME IInv, NEW c \in Commands, cmd[c].at = "commit",
         NEW n \in CommandRecords, Ended(c, n), UNCHANGED intent, Durable(c) \/ UNCHANGED ledger,
         \/ /\ n.at = "begin" /\ n.part = "write" /\ n.answer = "none"
            /\ cmd[c].writes = "attempt" /\ Durable(c)
         \/ n.at = "done" /\ n.part = cmd[c].part /\ n.answer = "unavailable"
         \/ /\ n.at = "done" /\ n.part = cmd[c].part /\ n.answer = cmd[c].writes
            /\ cmd[c].writes # "attempt" /\ Durable(c)
  PROVE  IInv'
<1>1. /\ Types /\ ReceiptInv /\ CommandInv(c) /\ cmd[c] \in CommandRecords /\ Key(c) \in Requests
      /\ None \notin Commands
  BY CommandAssumption DEF IInv, Types, Key
<1>2. cmd'[c] = n /\ cmd[c].part # "none" /\ Bearer(c) \in Bearers
  BY <1>1 DEF Types, Ended, CommandInv, Staged
<1>3. LockInv' /\ holder' \in [Requests -> Commands \union {None}]
  BY LocksReleased DEF Ended
<1>4. Staged(c)' /\ Allowed(c)' /\ Found(c)'
  BY <1>1, <1>2 DEF CommandInv, Staged, Allowed, Found, Bearer, Ended, Fenced
<1>5. CASE UNCHANGED ledger
  <2>1. n.at = "begin" => cmd[c].writes = "attempt" /\ attempt'[c] = "RESERVED"
    BY <1>1 DEF Types, Durable, ledger
  <2>2. Attempted(c)'
    BY <1>1, <1>2, <2>1 DEF CommandInv, Attempted, AttemptLocked, Fenced, Winning
  <2>3. n.answer \in {"draft", "replay"} => cmd[c].writes = n.answer /\ Durable(c)
    OBVIOUS
  <2>4. n.answer # "draft"
    <3> SUFFICES ASSUME n.answer = "draft" PROVE FALSE
      OBVIOUS
    <3>1. ~Decided(c) /\ receipt' = [receipt EXCEPT ![Key(c)] = c]
      BY <1>1, <2>3 DEF CommandInv, Found, Durable
    <3>2. QED
      BY <1>1, <1>5, <3>1 DEF Types, Decided, ledger
  <2>5. n.answer = "replay" => attempt'[c] = "ABANDONED"
    BY <1>1, <2>3 DEF Types, Durable
  <2>6. Truthful(c)'
    BY <1>1, <1>2, <1>5, <2>4, <2>5 DEF CommandInv, Staged, Found, Truthful, Decided, SameText, Key,
       ReceiptInv, Winning, Types, CommandRecords, Parts, ledger
  <2>7. QED
    BY <1>3, <1>4, <1>5, <2>2, <2>6, MoveKeeps DEF CommandInv, Ended
<1>6. CASE Durable(c) /\ cmd[c].writes \in {"attempt", "draft", "replay"}
  <2>1. PICK s, r :
          /\ Records(c, s, r)
          /\ cmd[c].writes = "attempt" => s = "RESERVED"
          /\ cmd[c].writes = "draft" => s = "NEEDS_COMMIT"
          /\ cmd[c].writes = "replay" => s = "ABANDONED"
    <3>1. CASE cmd[c].writes = "attempt"
      BY <1>6, <3>1, DurableRecords
    <3>2. CASE cmd[c].writes = "draft"
      BY <1>6, <3>2, DurableRecords
    <3>3. CASE cmd[c].writes = "replay"
      BY <1>6, <3>3, DurableRecords
    <3>4. QED
      BY <1>6, <3>1, <3>2, <3>3
  <2>2. s # "RESERVED" => cmd[c].part = "write"
    BY <1>1, <1>2, <1>6, <2>1 DEF CommandInv, Staged, CommandRecords, Parts
  <2>3. \A d \in Commands \ {c} : cmd'[d] = cmd[d]
    BY <1>1 DEF Types, Ended
  <2>4. ASSUME NEW d \in Commands, d # c PROVE CommandInv(d)'
    BY <2>1, <2>2, <2>3, <2>4, RecordsKeepOthers DEF Ended
  <2>5. /\ ReceiptInv' /\ attempt' \in [Commands -> Attempts]
        /\ receipt' \in [Requests -> Commands \union {None}]
    BY <2>1, RecordsKeepReceipts
  <2>6. reserved' \in [Commands -> 0 .. MaxTime]
    BY <1>6, DurableRecords
  <2>7. Types'
    BY <1>1, <1>3, <2>5, <2>6 DEF Types, Ended, authority
  <2>8. attempt'[c] = s
    BY <1>1, <2>1 DEF Types, Records
  <2>9. Attempted(c)'
    BY <1>2, <2>1, <2>2, <2>8 DEF Attempted, AttemptLocked, Fenced, Winning
  <2>10. Truthful(c)'
    <3>1. n.answer = "draft" => s = "NEEDS_COMMIT" /\ receipt'[Key(c)'] = c
      BY <1>1, <2>1 DEF Types, Records, Key
    <3>2. n.answer = "replay" =>
            /\ s = "ABANDONED" /\ receipt' = receipt /\ Decided(c) /\ SameText(c)
            /\ attempt[receipt[Key(c)]] \in Winning /\ attempt[c] = "RESERVED"
      BY <1>1, <2>1 DEF Types, Records, CommandInv, Found, ReceiptInv, Decided
    <3>3. n.answer \in {"none", "unavailable", "draft", "replay"}
      BY <1>6
    <3>4. CASE n.answer = "draft"
      BY <1>1, <1>2, <3>1, <3>4 DEF Truthful, Decided, SameText, Key
    <3>5. CASE n.answer = "replay"
      BY <1>1, <1>2, <2>8, <3>2, <3>5 DEF Truthful, Decided, SameText, Key, Winning
    <3>6. CASE n.answer \in {"none", "unavailable"}
      BY <1>2, <3>6 DEF Truthful
    <3>7. QED
      BY <3>3, <3>4, <3>5, <3>6
  <2>11. QED
    BY <1>3, <1>4, <2>4, <2>5, <2>7, <2>9, <2>10 DEF IInv, CommandInv
<1>7. CASE Durable(c) /\ cmd[c].writes \in {"served", "nothing"}
  BY <1>5, <1>7, DurableRecords
<1>8. cmd[c].writes # "none"
  BY <1>1, <1>2 DEF CommandInv, Staged, CommandRecords, Parts
<1>9. QED
  BY <1>1, <1>5, <1>6, <1>7, <1>8 DEF CommandRecords, Writings

LEMMA CommitKeeps ==
  ASSUME IInv, NEW c \in Commands, Commit(c) \/ CommitUnknown(c)
  PROVE  IInv'
<1>1. Types /\ cmd[c] \in CommandRecords /\ cmd[c].at = "commit"
  BY DEF IInv, Types, Commit, CommitUnknown
<1>2. UNCHANGED intent
  BY <1>1, DurableRecords DEF Commit, CommitUnknown, ledger
<1>3. CASE Commit(c) /\ cmd[c].writes = "attempt"
  <2> DEFINE n == [cmd[c] EXCEPT !.at = "begin", !.part = "write", !.writes = "none"]
  <2>1. /\ n \in CommandRecords /\ n.at = "begin" /\ n.part = "write" /\ n.writes = "none"
        /\ \A f \in {"bearer", "version", "checked", "waited", "answer"} : n[f] = cmd[c][f]
    BY <1>1 DEF CommandRecords, Places, Parts, Writings
  <2>2. Ended(c, n) /\ Durable(c) /\ cmd[c].answer = "none"
    BY <1>1, <1>3, <2>1 DEF Commit, Ended, IInv, CommandInv, Staged
  <2>3. QED
    BY <1>1, <1>2, <1>3, <2>1, <2>2, EndKeeps
<1>4. CASE Commit(c) /\ cmd[c].writes # "attempt"
  <2> DEFINE n == [cmd[c] EXCEPT !.at = "done", !.answer = cmd[c].writes, !.writes = "none"]
  <2>1. /\ n \in CommandRecords /\ n.at = "done" /\ n.answer = cmd[c].writes /\ n.writes = "none"
        /\ \A f \in {"part", "bearer", "version", "checked", "waited"} : n[f] = cmd[c][f]
    BY <1>1 DEF CommandRecords, Places, Writings, Answers
  <2>2. Ended(c, n) /\ Durable(c)
    BY <1>4, <2>1 DEF Commit, Ended
  <2>3. QED
    BY <1>1, <1>2, <1>4, <2>1, <2>2, EndKeeps
<1>5. CASE CommitUnknown(c)
  <2> DEFINE n == [cmd[c] EXCEPT !.at = "done", !.answer = "unavailable", !.writes = "none"]
  <2>1. /\ n \in CommandRecords /\ n.at = "done" /\ n.answer = "unavailable" /\ n.writes = "none"
        /\ \A f \in {"part", "bearer", "version", "checked", "waited"} : n[f] = cmd[c][f]
    BY <1>1 DEF CommandRecords, Places, Writings, Answers
  <2>2. Ended(c, n) /\ (Durable(c) \/ UNCHANGED ledger)
    BY <1>1, <1>5, <2>1 DEF CommitUnknown, Ended
  <2>3. QED
    BY <1>1, <1>2, <2>1, <2>2, EndKeeps
<1>6. QED
  BY <1>3, <1>4, <1>5

------------------------------------------------------------------------------
(* The invariant holds, and what follows from it *)

LEMMA StepKeeps ==
  ASSUME IInv, NEW c \in Commands, Step(c)
  PROVE  IInv'
<1>1. ASSUME NEW op \in Operations[c], NEW b \in Bearers, Lookup(c, op, b) PROVE IInv'
  BY <1>1, LookupKeeps
<1>2. CASE ConnectionFails(c)
  BY <1>2, RejectKeeps DEF ConnectionFails, Fenced
<1>3. QED
  BY <1>1, <1>2, FenceKeeps, ReserveKeeps, ReadKeeps, LockAttemptKeeps, LockKeyKeeps,
     AnswerFromReceiptKeeps, AppendKeeps, CommitKeeps, LedgerMovesKeep DEF Step

LEMMA InitIInv == Init => IInv
<1> SUFFICES ASSUME Init PROVE IInv
  OBVIOUS
<1>1. New \in CommandRecords
  BY CommandAssumption DEF New, CommandRecords, Places, Parts, Writings, Answers
<1>2. Types
  BY <1>1, CommandAssumption DEF Init, Types, Attempts
<1>3. LockInv /\ ReceiptInv
  BY DEF Init, LockInv, ReceiptInv, Deciding, New, Winning
<1>4. ASSUME NEW c \in Commands PROVE CommandInv(c)
  BY DEF Init, New, CommandInv, Staged, Attempted, AttemptLocked, Fenced, Found, Allowed, Truthful
<1>5. QED
  BY <1>2, <1>3, <1>4 DEF IInv

LEMMA NextIInv == IInv /\ [Next]_vars => IInv'
<1> SUFFICES ASSUME IInv, [Next]_vars PROVE IInv'
  OBVIOUS
<1>1. CASE UNCHANGED vars
  BY <1>1 DEF vars, authority, ledger, IInv, Types, LockInv, ReceiptInv, Deciding, Key, CommandInv,
     Staged, Attempted, AttemptLocked, Found, Allowed, Truthful, Decided, SameText, Bearer, Current, InWindow
<1>2. CASE Next
  BY <1>2, EnvironmentKeeps, StepKeeps, LedgerMovesKeep DEF Next
<1>3. QED
  BY <1>1, <1>2

\* The inductive invariant holds in every state.
THEOREM Invariance == Spec => []IInv
BY InitIInv, NextIInv, PTL DEF Spec

\* The variables have their shapes, and the advisory lock of a key is with a command that
\* is deciding this key, so the end of every transaction has given it back.
THEOREM TypesHold == Spec => []TypeOK
<1>1. IInv => TypeOK
  <2> SUFFICES ASSUME IInv PROVE TypeOK
    OBVIOUS
  <2>1. ASSUME NEW c \in Commands
        PROVE /\ cmd[c].at \in {"new", "begin", "done"} \union Fenced
              /\ cmd[c].part \in {"none", "reserve", "write", "read"}
              /\ cmd[c].writes \in {"none", "attempt", "draft", "replay", "served", "nothing"}
              /\ {cmd[c].checked, cmd[c].waited} \subseteq 0 .. MaxTime
    BY DEF IInv, Types, CommandRecords, Places, Parts, Writings
  <2>2. QED
    BY <2>1 DEF IInv, Types, TypeOK, LockInv, Deciding, Attempts, Winning
<1>2. QED
  BY <1>1, Invariance, PTL

\* Every command is authorized by the rows as they are, from its fence until it commits,
\* and a draft by a reading of the clock after its wait for the key.
THEOREM AuthorizedUntilCommit == Spec => []AuthorizedToCommit
<1>1. IInv => AuthorizedToCommit
  BY DEF IInv, CommandInv, Allowed, AuthorizedToCommit
<1>2. QED
  BY <1>1, Invariance, PTL

\* What the callers were told is what the ledger and the receipts say, for good.
THEOREM AnswersStayTrue == Spec => []AnswersAgree
<1>1. IInv => AnswersAgree
  BY DEF IInv, CommandInv, Truthful, AnswersAgree
<1>2. QED
  BY <1>1, Invariance, PTL

------------------------------------------------------------------------------
(* The refinement *)

LEMMA AttemptRefines ==
  ASSUME NEW c \in Commands, Claim(c) \/ Finalize(c) \/ Abandon(c)
  PROVE  L!Next
<1>1. L!Abandon(c) \/ L!Finalize(c)
  BY DEF Claim, Finalize, Abandon, L!Abandon, L!Finalize, L!Moves
<1>2. QED
  BY <1>1 DEF L!Next

LEMMA RecordsRefine ==
  ASSUME NEW c \in Commands, NEW s, NEW r, Records(c, s, r), UNCHANGED intent
  PROVE  L!Next
<1>1. L!Reserve(c) \/ L!Decide(c) \/ L!Abandon(c)
  BY DEF Records, Decided, Key, L!Reserve, L!Decide, L!Abandon, L!Moves
<1>2. QED
  BY <1>1 DEF L!Next

LEMMA CommitRefines ==
  ASSUME IInv, NEW c \in Commands, Commit(c) \/ CommitUnknown(c)
  PROVE  L!Next \/ UNCHANGED ledger
<1>1. /\ cmd[c].at = "commit" /\ cmd[c].writes \in Writings \ {"none"}
      /\ Durable(c) \/ UNCHANGED ledger
  BY DEF Commit, CommitUnknown, IInv, Types, CommandRecords, CommandInv, Staged, Parts
<1>2. CASE Durable(c)
  BY <1>1, <1>2, DurableRecords, RecordsRefine DEF Writings
<1>3. QED
  BY <1>1, <1>2

LEMMA StepRefines ==
  ASSUME IInv, NEW c \in Commands, Step(c)
  PROVE  L!Next \/ UNCHANGED ledger
<1>1. CASE Commit(c) \/ CommitUnknown(c)
  BY <1>1, CommitRefines
<1>2. CASE Abandon(c)
  BY <1>2, AttemptRefines
<1>3. QED
  BY <1>1, <1>2 DEF Step, Lookup, Fence, Reserve, Read, LockAttempt, LockKey, Conflict, Replay, Fresh,
     Append, ConnectionFails, Reject, GoTo, Writes

\* With all their locks, waits, claims and lost commits, the transactions do to the ledger
\* and the receipts only what DraftLedger's single steps do.
THEOREM Refinement == Spec => ImplementsLedger
<1>1. Init => L!Init
  BY DEF Init, L!Init
<1>2. IInv /\ [Next]_vars => [L!Next]_L!vars
  <2> SUFFICES ASSUME IInv, [Next]_vars PROVE L!Next \/ UNCHANGED <<intent, attempt, receipt>>
    BY DEF L!vars
  <2>1. ASSUME NEW c \in Commands, Step(c) PROVE L!Next \/ UNCHANGED ledger
    BY <2>1, StepRefines
  <2>2. ASSUME NEW c \in Commands, Claim(c) \/ Finalize(c) PROVE L!Next
    BY <2>2, AttemptRefines
  <2>3. QED
    BY <2>1, <2>2 DEF Next, Tick, ChangeRights, OpenSession, Logout, vars, ledger
<1>3. QED
  BY <1>1, <1>2, Invariance, PTL DEF Spec, ImplementsLedger, L!Spec
============================================================================
