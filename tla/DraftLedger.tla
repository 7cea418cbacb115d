---------------------------- MODULE DraftLedger ----------------------------
(***************************************************************************)
(* The attempt ledger and the receipts of one principal, without           *)
(* transactions: what PayloadRecovery takes for single steps.              *)
(***************************************************************************)
CONSTANTS
  Commands,
  Requests,       \* idempotency keys
  Undecided

VARIABLES
  intent,         \* intent[c]: the key and the text of command c
  attempt,        \* attempt[c]: the row of the ledger, or "none"
  receipt         \* receipt[r]: the command that decided r

vars == <<intent, attempt, receipt>>

Init ==
  /\ DOMAIN intent = Commands
  /\ attempt = [c \in Commands |-> "none"]
  /\ receipt = [r \in Requests |-> Undecided]

Moves(c, from, to) == attempt[c] = from /\ attempt' = [attempt EXCEPT ![c] = to]

Reserve(c) == Moves(c, "none", "RESERVED") /\ UNCHANGED <<intent, receipt>>

Decide(c) ==
  LET r == intent[c].request IN
  /\ receipt[r] = Undecided /\ receipt' = [receipt EXCEPT ![r] = c]
  /\ Moves(c, "RESERVED", "NEEDS_COMMIT") /\ UNCHANGED intent

\* A replay of the key's own text, a claim, or the owner's own retreat.
Abandon(c) == Moves(c, "RESERVED", "ABANDONED") /\ UNCHANGED <<intent, receipt>>

Finalize(c) == Moves(c, "NEEDS_COMMIT", "COMMITTED") /\ UNCHANGED <<intent, receipt>>

Next == \E c \in Commands : Reserve(c) \/ Decide(c) \/ Abandon(c) \/ Finalize(c)

Spec == Init /\ [][Next]_vars
============================================================================
