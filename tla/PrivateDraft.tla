---------------------------- MODULE PrivateDraft ----------------------------
(***************************************************************************)
(* What the PRIVATE draft path promises its callers, with no ledger, no    *)
(* object store protocol and no recovery worker in sight.                  *)
(*                                                                         *)
(* A call asks for one (principal, request id) key with the hash of one    *)
(* text.  A key is decided at most once, for a hash some call asked for;   *)
(* its payload becomes durable at most once, after the decision; and a     *)
(* call is answered with a receipt only when its own hash is the decided   *)
(* one and the payload is already durable.  Any call may be refused at any *)
(* time, and a refused call may still decide its key: an error says        *)
(* nothing about the outcome.                                              *)
(***************************************************************************)
CONSTANTS
  Calls,      \* invocations of execute()
  Requests,   \* (principal_id, request_id) idempotency keys
  Hashes,     \* request hashes (one per distinct text)
  Undecided   \* the draft of a key nobody has written

VARIABLES
  intent,     \* intent[c]: the key and the hash call c asks for
  draft,      \* draft[r]: the hash decided for key r, or Undecided
  durable,    \* the keys whose payload bytes are durable
  reply       \* reply[c]: "pending", "receipt" or "refused"

vars == <<intent, draft, durable, reply>>

Init ==
  /\ intent \in [Calls -> [request : Requests, hash : Hashes]]
  /\ draft = [r \in Requests |-> Undecided]
  /\ durable = {}
  /\ reply = [c \in Calls |-> "pending"]

Decide(c) ==
  LET r == intent[c].request IN
  /\ draft[r] = Undecided
  /\ draft' = [draft EXCEPT ![r] = intent[c].hash]
  /\ UNCHANGED <<intent, durable, reply>>

Persist(r) ==
  /\ draft[r] # Undecided
  /\ durable' = durable \cup {r}
  /\ UNCHANGED <<intent, draft, reply>>

Grant(c) ==
  /\ reply[c] = "pending"
  /\ draft[intent[c].request] = intent[c].hash
  /\ intent[c].request \in durable
  /\ reply' = [reply EXCEPT ![c] = "receipt"]
  /\ UNCHANGED <<intent, draft, durable>>

Refuse(c) ==
  /\ reply[c] = "pending"
  /\ reply' = [reply EXCEPT ![c] = "refused"]
  /\ UNCHANGED <<intent, draft, durable>>

Next ==
  \/ \E c \in Calls : Decide(c) \/ Grant(c) \/ Refuse(c)
  \/ \E r \in Requests : Persist(r)

Spec == Init /\ [][Next]_vars
=============================================================================
