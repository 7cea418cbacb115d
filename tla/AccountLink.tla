----------------------------- MODULE AccountLink -----------------------------
(***************************************************************************)
(* What the signed calls promise, without transactions, locks, clocks and  *)
(* boundaries: a call takes effect in one step or not at all, and what it  *)
(* is told agrees with that.                                               *)
(***************************************************************************)
CONSTANTS
  Calls, Accounts,
  None

VARIABLES
  asked,       \* asked[c]: what the call wants, and for which account
  reply,       \* reply[c]: "open", a "receipt", "refused" or "unknown"
  binding,     \* binding[a]: the Actor of an account
  principal,   \* principal[a]: [id, actor]
  proof,       \* proof[c]: the proof that the call c has issued
  sessionWrites

registry == <<binding, principal, proof, sessionWrites>>
vars == <<asked, reply, registry>>

Nothing == [op |-> "none", account |-> None]

Init ==
  /\ asked = [c \in Calls |-> Nothing] /\ reply = [c \in Calls |-> "open"]
  /\ binding = [a \in Accounts |-> None] /\ principal = [a \in Accounts |-> None]
  /\ proof = [c \in Calls |-> None] /\ sessionWrites = {}

Wishes == [op : {"issue", "provision", "session"}, account : Accounts]

Ask(c) ==
  /\ reply[c] = "open" /\ asked[c] = Nothing /\ asked'[c] \in Wishes
  /\ \A d \in Calls \ {c} : asked'[d] = asked[d]
  /\ UNCHANGED <<reply, registry>>

\* A call is answered once, and it has had its effect or none.
Answer(c) ==
  /\ reply[c] = "open" /\ reply'[c] \in {"receipt", "refused", "unknown"}
  /\ \A d \in Calls \ {c} : reply'[d] = reply[d]
  /\ UNCHANGED asked

Fail(c) == reply'[c] # "receipt" /\ UNCHANGED registry

\* A proof for the account's Actor, or for a new one, the first call's own.
Link(c) ==
  LET a == asked[c].account IN
  /\ reply'[c] # "refused" /\ asked[c].op = "issue"
  /\ binding' = [binding EXCEPT ![a] = IF @ = None THEN c ELSE @]
  /\ proof[c] = None /\ \A p \in Calls \ {c} : proof'[p] = proof[p]
  /\ proof'[c] # None /\ proof'[c].account = a /\ proof'[c].actor = binding'[a]
  /\ proof'[c].consumer = None
  /\ UNCHANGED <<principal, sessionWrites>>

\* A proof of the account is spent by its Principal, for the first time or again.
Spend(c, p) ==
  LET a     == asked[c].account
      owner == IF principal[a] = None THEN [id |-> c, actor |-> binding[a]] ELSE principal[a]
  IN
  /\ reply'[c] # "refused" /\ asked[c].op = "provision"
  /\ proof[p] # None /\ proof[p].account = a /\ proof[p].consumer \in {None, owner.id}
  /\ principal' = [principal EXCEPT ![a] = owner]
  /\ proof' = [proof EXCEPT ![p].consumer = owner.id]
  /\ UNCHANGED <<binding, sessionWrites>>

\* A session call changes the account's sessions, or finds its change made.
Session(c) ==
  /\ reply'[c] # "refused" /\ asked[c].op = "session"
  /\ sessionWrites' \in {sessionWrites, sessionWrites \union {c}}
  /\ UNCHANGED <<binding, principal, proof>>

Next ==
  \E c \in Calls :
    \/ Ask(c)
    \/ Answer(c) /\ (Fail(c) \/ Link(c) \/ Session(c) \/ \E p \in Calls : Spend(c, p))

Spec == Init /\ [][Next]_vars
==============================================================================
