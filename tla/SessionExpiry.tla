---------------------------- MODULE SessionExpiry ----------------------------
(***************************************************************************)
(* SessionAuthority with a memory of the calls that got their locks too    *)
(* late: while they waited, what they go by ran out.  The sealed functions *)
(* read clock_timestamp() after their row locks and not now(), the time at *)
(* which the transaction began.                                            *)
(***************************************************************************)
EXTENDS SessionAuthority

VARIABLE late  \* the connections whose call held its last lock too late

\* What c goes by has run out: its bearer, the session behind a command, or every
\* session that a rotation could replace.
RunOut(c) ==
  /\ call[c].op \notin {"activate", "authority"}
  /\ \/ call[c].bearer.exp <= clock
     \/ call[c].op = "command" /\ call[c].bearer.key \notin LiveKeys(session, clock)
     \/ call[c].op = "rotate" /\ LiveKeys(session, clock) = {}

\* c obtains its last row lock in this step.
Granted(c) == call[c].at = "session" /\ call'[c].at = "decide"

InitExpiry == Init /\ late = {}

NextExpiry ==
  /\ Next
  /\ late' = {c \in Conns : /\ call'[c].at # "idle"
                            /\ c \in late \/ (Granted(c) /\ RunOut(c))}

SpecExpiry == InitExpiry /\ [][NextExpiry]_<<vars, late>>

------------------------------------------------------------------------------
(* Properties *)

\* A call whose bearer or session ran out, by the clock, a revocation or a change of
\* generation, before it held its last lock never reaches its COMMIT, although it was in
\* order when it began and when a command's stamp was made.
LateNeverCommits == \A c \in late : call[c].at # "commit"
=============================================================================
