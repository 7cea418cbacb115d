--------------------------- MODULE SignedIdentity ---------------------------
(***************************************************************************)
(* From a fetched JWKS document to a bound intent: the snapshot of trusted *)
(* keys (jwks_trust_contract), the configuration built from it             *)
(* (jwks_boundary_bridge), and the Boundary that verifies a bearer with    *)
(* it, asks the registry and binds a command (identity_boundary).          *)
(*                                                                         *)
(* A document is a sequence of entries [kid, profile, key].  The profile   *)
(* says what _eligible_rsa_jwk makes of the entry; keys are compared by    *)
(* their fingerprint, so key material is a value.  A token is signed with  *)
(* the key `signer' and names `kid'.  The refresher is the backend code    *)
(* the bridge is written for: it fetches, builds a bundle with its cached  *)
(* snapshot as `previous', and replaces both.                              *)
(***************************************************************************)
EXTENDS Naturals, Sequences, FiniteSets

CONSTANTS
  Documents,    \* JWKS documents the provider may serve
  Tokens,       \* [kid, signer, shaped, sub, iat, nbf, exp]
  Bindings,     \* what a registry adapter may answer besides nothing
  Commands,     \* [name, valid] request bodies
  Requests,
  TrustKids,    \* kids of [A-Za-z0-9._~-]{1,80}
  ConfigKids,   \* kids of [A-Za-z0-9_-]{1,80}
  MaxKeys,      \* 32 in the code
  SoftTtl, HardTtl, MaxLifetime,
  MaxTime, MaxEpoch,   \* bounds
  None

ASSUME SignedIdentityAssumption ==
  /\ ConfigKids \subseteq TrustKids
  /\ MaxKeys \in Nat /\ MaxTime \in Nat /\ MaxEpoch \in Nat \ {0} /\ MaxLifetime \in Nat
  /\ SoftTtl \in Nat /\ HardTtl \in Nat /\ SoftTtl < HardTtl
  /\ \A doc \in Documents : Len(doc) \in Nat /\ DOMAIN doc = 1..Len(doc)

VARIABLES
  now,        \* the clock of the process, in seconds
  epoch,      \* IssuerTrust.trust_epoch of the operator
  snapshot,   \* the cached JwksSnapshot
  config,     \* Boundary.Config built from it
  fetched,    \* a document fetched and not yet built
  req         \* one record per request

trust == <<epoch, snapshot, config>>
vars == <<now, trust, fetched, req>>

----------------------------------------------------------------------------
(* jwks_trust_contract *)

\* Ineligible entries are skipped, the other profiles reject the whole document.
Profiles == {"rsa", "ineligible", "private", "weak", "malformed"}

Kids(doc) == {doc[i].kid : i \in DOMAIN doc}

\* Faulty variant: an entry for another use or algorithm counts as a verification key.
EligibleKidsOfAnyUse(doc) == Kids(doc)

EligibleKids(doc) == {doc[i].kid : i \in {j \in DOMAIN doc : doc[j].profile = "rsa"}}

Eligible(doc) ==
  [kid \in EligibleKids(doc) |-> doc[CHOOSE i \in DOMAIN doc : doc[i].kid = kid].key]

WellFormed(doc) ==
  /\ Len(doc) \in 1..MaxKeys
  /\ \A i \in DOMAIN doc :
       doc[i].kid \in TrustKids /\ doc[i].profile \in {"rsa", "ineligible"}
  /\ Cardinality(Kids(doc)) = Len(doc)
  /\ EligibleKids(doc) # {}

\* Only the snapshot before this one is compared: of a kid that both have, the key
\* must be the same.  A kid that went away in between is not remembered.
Substitutes(keys, previous) ==
  \E kid \in DOMAIN keys \intersect DOMAIN previous.keys : keys[kid] # previous.keys[kid]

Snapshot(doc, at) ==
  [epoch |-> epoch, keys |-> Eligible(doc), soft |-> at + SoftTtl, hard |-> at + HardTtl]

\* Faulty variant of Acceptable: the keys are not compared with those before.
AcceptableAlone(doc, previous) ==
  WellFormed(doc) /\ (previous # None => previous.epoch = epoch)

\* validate_jwks_snapshot accepts the document.
Acceptable(doc, previous) ==
  /\ WellFormed(doc)
  /\ previous # None =>
       previous.epoch = epoch /\ ~Substitutes(Eligible(doc), previous)

\* decide_header_key for a header of the pinned profile.
Decide(s, kid, t) ==
  CASE s = None -> "REFRESH_REQUIRED"
    [] s # None /\ s.epoch # epoch -> "REJECT"
    [] s # None /\ s.epoch = epoch /\ t >= s.hard -> "REFRESH_REQUIRED"
    [] s # None /\ s.epoch = epoch /\ t < s.hard /\ kid \notin DOMAIN s.keys -> "REFRESH_REQUIRED"
    [] s # None /\ s.epoch = epoch /\ t < s.hard /\ kid \in DOMAIN s.keys /\ t < s.soft -> "USE_CACHED"
    [] OTHER -> "USE_CACHED_REFRESH_RECOMMENDED"

\* key_set_version: a hash of the epoch and the eligible fingerprints.
Version(s) == <<s.epoch, s.keys>>

----------------------------------------------------------------------------
(* The clock, the operator, the refresher. *)

Tick ==
  /\ now < MaxTime /\ now' = now + 1 /\ UNCHANGED <<trust, fetched, req>>

\* A new trust decision of the operator; the cached snapshot is of the old epoch.
NewEpoch ==
  /\ epoch < MaxEpoch /\ epoch' = epoch + 1
  /\ UNCHANGED <<now, snapshot, config, fetched, req>>

\* The process starts again: nothing of the trust state is persisted.
Restart ==
  /\ snapshot' = None /\ config' = None /\ fetched' = None
  /\ req' = [r \in Requests |-> [req[r] EXCEPT !.pc = IF @ \in {"new", "bound"} THEN @ ELSE "refused"]]
  /\ UNCHANGED <<now, epoch>>

Fetch(doc) ==
  /\ fetched = None /\ fetched' = [doc |-> doc, at |-> now]
  /\ UNCHANGED <<now, trust, req>>

\* build_boundary_trust_bundle with the cached snapshot as `previous'.  Any error
\* leaves the cached snapshot and the Boundary's configuration as they were.
Buildable ==
  LET doc == fetched.doc IN
  /\ now >= fetched.at /\ Acceptable(doc, snapshot)
  /\ now < Snapshot(doc, fetched.at).hard
  /\ EligibleKids(doc) \subseteq ConfigKids

Config(s) == [version |-> Version(s), keys |-> s.keys]

\* Faulty variant: the snapshot is cached before its bundle is known to be good.
RefreshSnapshotFirst ==
  LET s == Snapshot(fetched.doc, fetched.at) IN
  /\ fetched # None /\ Acceptable(fetched.doc, snapshot)
  /\ snapshot' = s /\ config' = IF Buildable THEN Config(s) ELSE config
  /\ fetched' = None /\ UNCHANGED <<now, epoch, req>>

Refresh ==
  LET s == Snapshot(fetched.doc, fetched.at) IN
  /\ fetched # None /\ Buildable
  /\ snapshot' = s /\ config' = Config(s) /\ fetched' = None
  /\ UNCHANGED <<now, epoch, req>>

RefreshFails ==
  /\ fetched # None /\ ~Buildable
  /\ fetched' = None
  /\ UNCHANGED <<now, trust, req>>

----------------------------------------------------------------------------
(* identity_boundary *)

\* A compact JWS of the exact header profile, by a trusted key, inside its window.
Verified(c, t) ==
  /\ t.shaped /\ t.kid \in DOMAIN c.keys /\ c.keys[t.kid] = t.signer
  /\ t.iat <= now /\ t.nbf <= now /\ now < t.exp
  /\ t.iat <= t.nbf /\ t.nbf < t.exp /\ t.exp - t.iat <= MaxLifetime

\* A Boundary object keeps the configuration it was made with.
Authenticate(r, t) ==
  /\ req[r].pc = "new" /\ config # None
  /\ req' = [req EXCEPT ![r] = [@ EXCEPT !.pc = IF Verified(config, t) THEN "resolve" ELSE "refused",
                                         !.token = t, !.config = config, !.hard = snapshot.hard,
                                         !.at = now]]
  /\ UNCHANGED <<now, trust, fetched>>

\* The registry's answer is used only for the token's own subject, complete and in
\* force; the intent ends with the token or with the binding, whichever is first.
Admissible(b, t) ==
  /\ b.sub = t.sub /\ b.enabled /\ b.revision > 0 /\ b.durable \in {"all", "none"}
  /\ t.iat >= b.validFrom
  /\ b.expires # None => b.expires > t.iat

Expiry(b, t) == IF b.expires # None /\ b.expires < t.exp THEN b.expires ELSE t.exp

Resolve(r, b) ==
  /\ req[r].pc = "resolve"
  /\ req' = [req EXCEPT ![r] =
       IF Admissible(b, req[r].token) THEN [@ EXCEPT !.pc = "bind", !.binding = b]
                                      ELSE [@ EXCEPT !.pc = "refused"]]
  /\ UNCHANGED <<now, trust, fetched>>

\* No binding, a revoked token, or an adapter that raises.
ResolveNothing(r) ==
  /\ req[r].pc = "resolve"
  /\ req' = [req EXCEPT ![r].pc = "refused"]
  /\ UNCHANGED <<now, trust, fetched>>

Capability(command) == IF command.name = "draft" THEN "voice:draft:create" ELSE "assessment:review"

Allowed(b, command) ==
  /\ command.valid /\ Capability(command) \in b.capabilities
  /\ command.name = "review" => b.kind = "HUMAN"

\* Faulty variant: the intent names the keys of the bundle installed now.
IntentOfCurrentKeys(r, command) ==
  LET b == req[r].binding
      t == req[r].token IN
  [command |-> command.name, sub |-> b.sub, revision |-> b.revision, expires |-> Expiry(b, t),
   version |-> IF config = None THEN req[r].config.version ELSE config.version,
   stamp |-> None]

\* The stamp for the database fence is made of the binding and of the token; it
\* exists only for a binding with the complete durable tuple.
Intent(r, command) ==
  LET b == req[r].binding
      t == req[r].token IN
  [command |-> command.name, sub |-> b.sub, revision |-> b.revision, expires |-> Expiry(b, t),
   version |-> req[r].config.version,
   stamp |-> IF b.durable = "all"
               THEN [revision |-> b.revision, capability |-> Capability(command), exp |-> t.exp]
               ELSE None]

Bind(r, command) ==
  /\ req[r].pc = "bind"
  /\ req' = [req EXCEPT ![r] =
       IF Allowed(req[r].binding, command)
         THEN [@ EXCEPT !.pc = "bound", !.intent = Intent(r, command)]
         ELSE [@ EXCEPT !.pc = "refused"]]
  /\ UNCHANGED <<now, trust, fetched>>

----------------------------------------------------------------------------
\* A request before it starts; `hard' and `at' only remember when the keys of its
\* configuration expire and when they were used.
Idle == [pc |-> "new", token |-> None, config |-> None, hard |-> 0, at |-> 0, binding |-> None,
         intent |-> None]

Init ==
  /\ now = 0 /\ epoch = 1 /\ snapshot = None /\ config = None /\ fetched = None
  /\ req = [r \in Requests |-> Idle]

\* The steps of one process that keeps running.
Running ==
  \/ Tick \/ NewEpoch \/ Refresh \/ RefreshFails
  \/ \E doc \in Documents : Fetch(doc)
  \/ \E r \in Requests :
       \/ \E t \in Tokens : Authenticate(r, t)
       \/ \E b \in Bindings : Resolve(r, b)
       \/ ResolveNothing(r)
       \/ \E c \in Commands : Bind(r, c)

Next == Running \/ Restart

Spec == Init /\ [][Next]_vars

\* A process that is never restarted, and so never forgets its snapshot.
OneProcess == Init /\ [][Running]_vars

----------------------------------------------------------------------------
(* Properties. *)

\* What can be cached, and what a Boundary can be made with: keys of one document.
KeySets == {Eligible(doc) : doc \in {d \in Documents : WellFormed(d)}}
Snapshots == [epoch : 1..MaxEpoch, keys : KeySets, soft : Nat, hard : Nat]
Configs == [version : (1..MaxEpoch) \X KeySets, keys : KeySets]

ASSUME NoneAssumption == None \notin Snapshots /\ None \notin Configs

\* The trust state and the requests have the shapes of the code, and the Boundary's
\* configuration is the one built from the cached snapshot.
TypeOK ==
  /\ now \in 0..MaxTime /\ epoch \in 1..MaxEpoch
  /\ snapshot # None => snapshot \in Snapshots
  /\ config = IF snapshot = None THEN None ELSE Config(snapshot)
  /\ fetched # None => fetched.doc \in Documents /\ fetched.at \in 0..now
  /\ \A r \in Requests :
       /\ req[r].pc \in {"new", "resolve", "bind", "bound", "refused"}
       /\ req[r].pc \in {"resolve", "bind", "bound"} => req[r].token \in Tokens
       /\ req[r].pc \in {"bind", "bound"} => req[r].binding \in Bindings

\* decide_header_key and the Boundary agree: a header for which the cached snapshot
\* may be used names a key that the Boundary's configuration has, and the same one,
\* although a refresh can fail in the contract, in the bridge or in Config.
UseCachedIsUsable ==
  \A kid \in TrustKids :
    Decide(snapshot, kid, now) \in {"USE_CACHED", "USE_CACHED_REFRESH_RECOMMENDED"} =>
      /\ config # None /\ kid \in DOMAIN config.keys
      /\ config.keys[kid] = snapshot.keys[kid]

\* A bound intent names the key set that verified its token, even when the bundle was
\* replaced between the signature check and the binding (key_set_version).
IntentNamesItsKeys ==
  \A r \in Requests : req[r].pc = "bound" =>
    LET keys == req[r].intent.version[2] IN
    req[r].token.kid \in DOMAIN keys /\ keys[req[r].token.kid] = req[r].token.signer

\* Whatever the provider serves, a token is accepted only under a key that some
\* document published for RS256 verification, under this kid and no other entry with
\* it, and without private or weak material anywhere in that document.
OnlyPublishedKeys ==
  \A r \in Requests : req[r].pc = "bound" =>
    \E doc \in Documents : \E i \in DOMAIN doc :
      /\ doc[i].kid = req[r].token.kid /\ doc[i].key = req[r].token.signer
      /\ doc[i].profile = "rsa"
      /\ \A j \in DOMAIN doc :
           /\ doc[j].profile \notin {"private", "weak", "malformed"}
           /\ doc[j].kid = doc[i].kid => j = i

\* The bridge's README: it is a violation if a hard-expired snapshot still verifies a
\* token.  The Boundary keeps its configuration and never looks at the snapshot.
HardExpiryEndsTrust ==
  \A r \in Requests : req[r].pc = "bound" => req[r].at < req[r].hard

\* The trust contract's README: the key of a kid does not change silently within one
\* trust epoch.  So two requests bound under the same epoch and the same kid were
\* signed with the same key (intent.version is the key_set_version, which names the
\* epoch).  validate_jwks_snapshot compares with the snapshot before only.
OneKeyPerKid ==
  \A q, r \in Requests :
    /\ req[q].pc = "bound" /\ req[r].pc = "bound"
    /\ req[q].intent.version[1] = req[r].intent.version[1]
    /\ req[q].token.kid = req[r].token.kid
    => req[q].token.signer = req[r].token.signer

\* The kids that every acceptable document lists for verification.
ListedKids ==
  {kid \in TrustKids : \A doc \in Documents : WellFormed(doc) => kid \in EligibleKids(doc)}

\* What the comparison with the snapshot before does give: while a request waits for the
\* registry, the key set may be replaced any number of times, but a kid that is never
\* missing from a document still has the key it had when the request was verified.
ListedKidKeepsItsKey ==
  \A r \in Requests : req[r].pc \in {"resolve", "bind"} =>
    /\ snapshot # None
    /\ \A kid \in ListedKids : req[r].config.keys[kid] = snapshot.keys[kid]
=============================================================================
