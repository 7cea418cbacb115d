---------------------------- MODULE DraftCommand ----------------------------
(***************************************************************************)
(* One principal's private commands behind the write fence: the lookup     *)
(* that makes a stamp, the transaction that reserves an attempt, the one   *)
(* that writes the draft, and the owner's read, statement by statement,    *)
(* while sessions are revoked, rights change and time passes.              *)
(*                                                                         *)
(* PayloadRecovery has the write as one step and no clock; SessionAuthority *)
(* has the fence and no draft.  Here are the locks in between: the rows of *)
(* principal and session, the row of the attempt, and the advisory lock of *)
(* the idempotency key.  A transaction that changes rights or sessions is  *)
(* one step that needs its row locks free (it is SessionAuthority's), and  *)
(* what becomes of an abandoned payload is left to PayloadRecovery.        *)
(***************************************************************************)
EXTENDS Integers, FiniteSets

CONSTANTS
  Commands, Requests, Texts,
  Operations,      \* Operations[c] \subseteq {"write", "read"}
  Bearers,         \* [iat, nbf, exp, sid]; a session is opened with its bearer's times
  Lease,           \* recover_after - created_at: 5 minutes
  MaxTime, MaxGeneration,    \* bounds
  None

BearerRecords == [iat : Nat, nbf : Nat, exp : Nat, sid : Nat]

ASSUME CommandAssumption ==
  /\ \A c \in Commands : Operations[c] \subseteq {"write", "read"}
  /\ Bearers \subseteq BearerRecords /\ \A b \in Bearers : b.iat <= b.nbf /\ b.nbf < b.exp
  /\ Lease \in Nat \ {0} /\ MaxTime \in Nat /\ MaxGeneration \in Nat \ {0}
  /\ None \notin Commands

VARIABLES
  now,
  writer, generation, session,     \* principals (enabled and writer_enabled), sessions
  intent, attempt, reserved, receipt,   \* the command's key and text; ledger; receipts
  holder,      \* the command whose transaction has the advisory lock of a key
  cmd          \* the commands

authority == <<writer, generation, session>>
ledger == <<intent, attempt, reserved, receipt>>
vars == <<now, authority, ledger, holder, cmd>>

\* at: where the command is.  part: which of its transactions.  stamp: its bearer and
\* auth_version.  checked: the fence's last reading of the clock.  waited: the clock when
\* the key's lock was obtained, or a reservation made.  writes: what COMMIT will record.
New == [at |-> "new", part |-> "none", bearer |-> None, version |-> 0, checked |-> 0,
        waited |-> 0, writes |-> "none", answer |-> "none"]

Init ==
  /\ now = 0 /\ writer \in BOOLEAN /\ generation = 1
  /\ session = [b \in Bearers |-> [state |-> "none", generation |-> 0]]
  /\ intent \in [Commands -> [request : Requests, text : Texts]]
  /\ attempt = [c \in Commands |-> "none"] /\ reserved = [c \in Commands |-> 0]
  /\ receipt = [r \in Requests |-> None]
  /\ holder = [r \in Requests |-> None]
  /\ cmd = [c \in Commands |-> New]

Key(c) == intent[c].request
Bearer(c) == cmd[c].bearer

----------------------------------------------------------------------------
(* Locks, and the environment.                                             *)

\* Between its fence and the end of its transaction a command holds its principal and
\* session rows FOR SHARE, and then, while it writes, the row of its attempt.
Fenced == {"fenced", "row", "key", "append", "commit"}

Sharing(b) == {c \in Commands : cmd[c].at \in Fenced /\ (b = None \/ Bearer(c) = b)}

\* Faulty variant: the attempt is read without FOR UPDATE.
AttemptNeverLocked(c) == FALSE

AttemptLocked(c) == cmd[c].part = "write" /\ cmd[c].at \in Fenced \ {"fenced"}

Tick == now < MaxTime /\ now' = now + 1 /\ UNCHANGED <<authority, ledger, holder, cmd>>

InWindow(b, t) == b.iat <= t /\ b.nbf <= t /\ t < b.exp

Current(b) == session[b].state = "live" /\ session[b].generation = generation

\* A login or a rotation: b's session is opened and any other given up.
OpenSession(b) ==
  /\ session[b].state = "none" /\ InWindow(b, now) /\ Sharing(None) = {}
  /\ session' = [d \in Bearers |->
       IF d = b THEN [state |-> "live", generation |-> generation]
       ELSE IF session[d].state = "live" THEN [session[d] EXCEPT !.state = "revoked"]
       ELSE session[d]]
  /\ UNCHANGED <<now, writer, generation, ledger, holder, cmd>>

\* The logout of one session.
Logout(b) ==
  /\ session[b].state = "live" /\ InWindow(b, now) /\ Sharing(b) = {}
  /\ session' = [session EXCEPT ![b].state = "revoked"]
  /\ UNCHANGED <<now, writer, generation, ledger, holder, cmd>>

\* An activation or an authority change: whoever may write loses that, and whoever may
\* not may be given it, or only be enabled or disabled.
ChangeRights ==
  /\ generation < MaxGeneration /\ Sharing(None) = {}
  /\ writer' \in BOOLEAN /\ ~(writer /\ writer') /\ generation' = generation + 1
  /\ UNCHANGED <<now, session, ledger, holder, cmd>>

\* The recovery of a stale attempt, and the payload's arrival in the store.
Claim(c) ==
  /\ attempt[c] = "RESERVED" /\ reserved[c] + Lease <= now /\ ~AttemptLocked(c)
  /\ attempt' = [attempt EXCEPT ![c] = "ABANDONED"]
  /\ UNCHANGED <<now, authority, intent, reserved, receipt, holder, cmd>>

Finalize(c) ==
  /\ attempt[c] = "NEEDS_COMMIT"
  /\ attempt' = [attempt EXCEPT ![c] = "COMMITTED"]
  /\ UNCHANGED <<now, authority, intent, reserved, receipt, holder, cmd>>

----------------------------------------------------------------------------
(* The end of a transaction.                                               *)

\* Faulty variant: the lock belongs to the session, not to the transaction.
ReleasedNever(c) == holder

Released(c) == [r \in Requests |-> IF holder[r] = c THEN None ELSE holder[r]]

\* Rolled back.
Reject(c, e) ==
  /\ cmd' = [cmd EXCEPT ![c].at = "done", ![c].answer = e, ![c].writes = "none"]
  /\ holder' = Released(c) /\ UNCHANGED <<now, authority, ledger>>

GoTo(c, place) ==
  /\ cmd' = [cmd EXCEPT ![c].at = place]
  /\ UNCHANGED <<now, authority, ledger, holder>>

\* No lease, a lock or statement timeout, or a lost session: rolled back.
ConnectionFails(c) ==
  cmd[c].at \in ({"begin"} \union Fenced) \ {"commit"} /\ Reject(c, "unavailable")

----------------------------------------------------------------------------
(* The stamp, and the fence.                                               *)

\* resolve_binding after the token is verified: one snapshot, no locks.
Lookup(c, op, b) ==
  /\ cmd[c].at = "new"
  /\ IF /\ InWindow(b, now) /\ writer /\ Current(b)
       THEN /\ cmd' = [cmd EXCEPT ![c] = [@ EXCEPT !.at = "begin", !.bearer = b,
                         !.version = generation, !.part = IF op = "write" THEN "reserve" ELSE op]]
            /\ UNCHANGED <<now, authority, ledger, holder>>
       ELSE Reject(c, "denied")

\* What assert_private_draft_fence compares, after its locks.
Authorized(c) ==
  /\ writer /\ generation = cmd[c].version /\ Current(Bearer(c))
  /\ InWindow(Bearer(c), now)

\* The first statement of each of the three functions.
Fence(c) ==
  /\ cmd[c].at = "begin"
  /\ IF Authorized(c)
       THEN /\ cmd' = [cmd EXCEPT ![c].at = "fenced", ![c].checked = now]
            /\ UNCHANGED <<now, authority, ledger, holder>>
       ELSE Reject(c, "denied")

----------------------------------------------------------------------------
(* runtime_reserve_private_payload_attempt, runtime_read_private_owner_voice. *)

Writes(c, what) ==
  /\ cmd' = [cmd EXCEPT ![c].at = "commit", ![c].writes = what]
  /\ UNCHANGED <<now, authority, ledger, holder>>

Reserve(c) ==
  /\ cmd[c].at = "fenced" /\ cmd[c].part = "reserve"
  /\ cmd' = [cmd EXCEPT ![c].at = "commit", ![c].writes = "attempt", ![c].waited = now]
  /\ UNCHANGED <<now, authority, ledger, holder>>

Readable(r) == receipt[r] # None /\ attempt[receipt[r]] = "COMMITTED"

Read(c) ==
  /\ cmd[c].at = "fenced" /\ cmd[c].part = "read"
  /\ Writes(c, IF Readable(Key(c)) THEN "served" ELSE "nothing")

----------------------------------------------------------------------------
(* runtime_recoverable_idempotent_append_private_voice.                    *)

LockAttempt(c) ==
  /\ cmd[c].at = "fenced" /\ cmd[c].part = "write"
  /\ IF attempt[c] = "RESERVED" THEN GoTo(c, "row") ELSE Reject(c, "attempt")

\* Faulty variant: the lock of a key is given to everybody.
LockNoKey(c) ==
  /\ cmd[c].at = "row"
  /\ cmd' = [cmd EXCEPT ![c].at = "key", ![c].waited = now]
  /\ UNCHANGED <<now, authority, ledger, holder>>

LockKey(c) ==
  /\ cmd[c].at = "row" /\ holder[Key(c)] = None
  /\ holder' = [holder EXCEPT ![Key(c)] = c]
  /\ cmd' = [cmd EXCEPT ![c].at = "key", ![c].waited = now]
  /\ UNCHANGED <<now, authority, ledger>>

Decided(c) == receipt[Key(c)] # None
SameText(c) == intent[receipt[Key(c)]].text = intent[c].text

Conflict(c) == cmd[c].at = "key" /\ Decided(c) /\ ~SameText(c) /\ Reject(c, "conflict")

Replay(c) == cmd[c].at = "key" /\ Decided(c) /\ SameText(c) /\ Writes(c, "replay")

Fresh(c) == cmd[c].at = "key" /\ ~Decided(c) /\ GoTo(c, "append")

\* Faulty variant: what the first fence said still holds.
AppendUnfenced(c) == cmd[c].at = "append" /\ Writes(c, "draft")

\* runtime_append_private_voice fences again; then the receipt is inserted, which waits
\* for another row of the same primary key and fails once that row is committed.
Append(c) ==
  /\ cmd[c].at = "append"
  /\ \A d \in Commands \ {c} : ~(cmd[d].writes = "draft" /\ Key(d) = Key(c))
  /\ CASE ~Authorized(c) -> Reject(c, "denied")
       [] Authorized(c) /\ Decided(c) -> Reject(c, "duplicate")
       [] OTHER -> /\ cmd' = [cmd EXCEPT ![c].at = "commit", ![c].writes = "draft",
                                         ![c].checked = now]
                   /\ UNCHANGED <<now, authority, ledger, holder>>

----------------------------------------------------------------------------
(* COMMIT, and what follows in execute().                                  *)

Durable(c) ==
  CASE cmd[c].writes = "attempt" ->
         /\ attempt' = [attempt EXCEPT ![c] = "RESERVED"]
         /\ reserved' = [reserved EXCEPT ![c] = cmd[c].waited] /\ UNCHANGED <<intent, receipt>>
    [] cmd[c].writes = "draft" ->
         /\ attempt' = [attempt EXCEPT ![c] = "NEEDS_COMMIT"]
         /\ receipt' = [receipt EXCEPT ![Key(c)] = c] /\ UNCHANGED <<intent, reserved>>
    [] cmd[c].writes = "replay" ->
         /\ attempt' = [attempt EXCEPT ![c] = "ABANDONED"] /\ UNCHANGED <<intent, reserved, receipt>>
    [] OTHER -> UNCHANGED ledger

\* A reservation goes on to stage its payload and to write it.
Commit(c) ==
  /\ cmd[c].at = "commit" /\ Durable(c) /\ holder' = Released(c)
  /\ cmd' = [cmd EXCEPT ![c] =
       IF cmd[c].writes = "attempt"
         THEN [@ EXCEPT !.at = "begin", !.part = "write", !.writes = "none"]
         ELSE [@ EXCEPT !.at = "done", !.answer = cmd[c].writes, !.writes = "none"]]
  /\ UNCHANGED <<now, authority>>

CommitUnknown(c) ==
  /\ cmd[c].at = "commit" /\ holder' = Released(c)
  /\ cmd' = [cmd EXCEPT ![c].at = "done", ![c].answer = "unavailable", ![c].writes = "none"]
  /\ Durable(c) \/ UNCHANGED ledger
  /\ UNCHANGED <<now, authority>>

\* recover_attempt(abandon_reserved_ref), after the write was turned away.
Abandon(c) ==
  /\ cmd[c].at = "done" /\ cmd[c].part = "write" /\ attempt[c] = "RESERVED"
  /\ attempt' = [attempt EXCEPT ![c] = "ABANDONED"]
  /\ UNCHANGED <<now, authority, intent, reserved, receipt, holder, cmd>>

Step(c) ==
  \/ \E op \in Operations[c], b \in Bearers : Lookup(c, op, b)
  \/ Fence(c) \/ Reserve(c) \/ Read(c)
  \/ LockAttempt(c) \/ LockKey(c) \/ Conflict(c) \/ Replay(c) \/ Fresh(c) \/ Append(c)
  \/ Commit(c) \/ CommitUnknown(c) \/ ConnectionFails(c) \/ Abandon(c)

Next ==
  \/ Tick \/ ChangeRights
  \/ \E b \in Bearers : OpenSession(b) \/ Logout(b)
  \/ \E c \in Commands : Step(c) \/ Claim(c) \/ Finalize(c)

Spec == Init /\ [][Next]_vars

----------------------------------------------------------------------------
(* Properties.                                                             *)

\* Every variable has its shape, and a key's lock is with a command that needs it.
TypeOK ==
  /\ now \in 0 .. MaxTime /\ writer \in BOOLEAN /\ generation \in 1 .. MaxGeneration
  /\ session \in [Bearers -> [state : {"none", "live", "revoked"}, generation : Nat]]
  /\ intent \in [Commands -> [request : Requests, text : Texts]]
  /\ attempt \in [Commands ->
       {"none", "RESERVED", "NEEDS_COMMIT", "COMMITTED", "ABANDONED"}]
  /\ reserved \in [Commands -> 0 .. MaxTime]
  /\ receipt \in [Requests -> Commands \union {None}]
  /\ holder \in [Requests -> Commands \union {None}]
  /\ \A c \in Commands :
       /\ cmd[c].at \in {"new", "begin", "done"} \union Fenced
       /\ cmd[c].part \in {"none", "reserve", "write", "read"}
       /\ cmd[c].writes \in {"none", "attempt", "draft", "replay", "served", "nothing"}
       /\ {cmd[c].checked, cmd[c].waited} \subseteq 0 .. MaxTime
  /\ \A r \in Requests : holder[r] # None =>
       Key(holder[r]) = r /\ cmd[holder[r]].at \in {"key", "append", "commit"}

\* Whatever waits and changes of rights lie between the lookup and the end of the
\* transaction, the command is authorized by the rows as they are until it commits:
\* the fence's row locks, and its reading of the clock.  A draft's reading is taken after
\* the wait for the key.
AuthorizedToCommit ==
  \A c \in Commands : cmd[c].at \in Fenced =>
    /\ writer /\ cmd[c].version = generation /\ Current(Bearer(c))
    /\ InWindow(Bearer(c), cmd[c].checked)
    /\ cmd[c].writes = "draft" => cmd[c].waited <= cmd[c].checked

\* What a client is told agrees with what is recorded, and goes on to agree: a receipt
\* only for the text the key stands for, a conflict only for another, a draft is read only
\* once its payload is there; and nobody meets the primary key of the receipts, because
\* the advisory lock comes first.
AnswersAgree ==
  \A c \in Commands :
    LET answer == cmd[c].answer IN
    /\ answer \in {"draft", "replay"} => Decided(c) /\ SameText(c)
    /\ answer = "draft" => receipt[Key(c)] = c
    /\ answer = "replay" => receipt[Key(c)] # c /\ attempt[c] = "ABANDONED"
    /\ answer = "conflict" => Decided(c) /\ ~SameText(c) /\ attempt[c] \in {"RESERVED", "ABANDONED"}
    /\ answer = "served" => Decided(c) /\ attempt[receipt[Key(c)]] = "COMMITTED"
    /\ answer # "duplicate"

\* The transactions, their locks and the claims between them do to the rows only what
\* single steps of the ledger do: no attempt is claimed under the owner's write, and a
\* receipt is never given for an attempt that was abandoned.
L == INSTANCE DraftLedger WITH Undecided <- None

ImplementsLedger == L!Spec

\* p2_1c2d3c/README_TH.md:43: an expired caller gets no receipt, replay or not.  The code
\* breaks it: a replay is not fenced again after the wait for the key.
ExpiredGetsNoReceipt ==
  \A c \in Commands : "replay" \in {cmd[c].writes, cmd[c].answer} => cmd[c].waited < Bearer(c).exp
============================================================================
