------------------------ MODULE SignedIdentity_proofs ------------------------
(***************************************************************************)
(* The safety of the trust chain for any documents, tokens, bindings,      *)
(* commands and lifetimes.                                                 *)
(***************************************************************************)
EXTENDS SignedIdentity, FiniteSetTheorems, TLAPS

------------------------------------------------------------------------------
(* The inductive invariant *)

States == {"new", "resolve", "bind", "bound", "refused"}
Fields == {"pc", "token", "config", "hard", "at", "binding", "intent"}

Shapes ==
  /\ DOMAIN req = Requests
  /\ \A r \in Requests : DOMAIN req[r] = Fields /\ req[r].pc \in States

\* A request that has been verified carries its token and the configuration that
\* verified it, which is that of some document.
TokenChecked(q) ==
  q.pc \in {"resolve", "bind", "bound"} =>
    /\ q.token \in Tokens /\ q.config \in Configs
    /\ q.config.version[2] = q.config.keys
    /\ q.token.kid \in DOMAIN q.config.keys
    /\ q.config.keys[q.token.kid] = q.token.signer

BindingKept(q) == q.pc \in {"bind", "bound"} => q.binding \in Bindings

IntentKept(q) == q.pc = "bound" => q.intent.version = q.config.version

Lawful(q) == TokenChecked(q) /\ BindingKept(q) /\ IntentKept(q)

Trusted ==
  /\ now \in 0..MaxTime /\ epoch \in 1..MaxEpoch
  /\ snapshot # None => snapshot \in Snapshots
  /\ config = IF snapshot = None THEN None ELSE Config(snapshot)
  /\ fetched # None => fetched.doc \in Documents /\ fetched.at \in 0..now

IInv == Trusted /\ Shapes /\ \A r \in Requests : Lawful(req[r])

------------------------------------------------------------------------------
(* Documents and what is built from them *)

\* Of a well-formed document no kid has two entries (JWKS_DUPLICATE_KID).
LEMMA KidsAreUnique ==
  ASSUME NEW doc \in Documents, WellFormed(doc),
         NEW i \in DOMAIN doc, NEW j \in DOMAIN doc, doc[i].kid = doc[j].kid
  PROVE  i = j
  <1> DEFINE f == [k \in 1..Len(doc) |-> doc[k].kid]
  <1>1. Len(doc) \in Nat /\ DOMAIN doc = 1..Len(doc)
    BY SignedIdentityAssumption
  <1> DEFINE n == Len(doc)
  <1> HIDE DEF n
  <1>2. IsFiniteSet(1..Len(doc)) /\ Cardinality(1..Len(doc)) = Len(doc)
    <2>1. n \in Nat /\ 1 \in Int /\ n \in Int
      BY <1>1 DEF n
    <2>2. IsFiniteSet(1..n) /\ Cardinality(1..n) = IF 1 > n THEN 0 ELSE n - 1 + 1
      BY <2>1, FS_Interval
    <2>3. Cardinality(1..n) = n
      BY <2>1, <2>2
    <2> QED BY <2>2, <2>3 DEF n
  <1>3. f \in [1..Len(doc) -> Kids(doc)] /\ \A t \in Kids(doc) : \E s \in 1..Len(doc) : f[s] = t
    BY <1>1 DEF Kids
  <1>4. f \in Surjection(1..Len(doc), Kids(doc))
    BY <1>3 DEF Surjection
  <1>5. Cardinality(1..Len(doc)) = Cardinality(Kids(doc))
    BY <1>2 DEF WellFormed
  <1> HIDE DEF f
  <1>6. f \in Injection(1..Len(doc), Kids(doc))
    BY <1>2, <1>4, <1>5, FS_SurjSameCardinalityImpliesInj
  <1>7. \A a, b \in 1..Len(doc) : f[a] = f[b] => a = b
    BY <1>3, <1>6 DEF Injection, IsInjective
  <1>8. f[i] = f[j]
    BY <1>1 DEF f
  <1> QED BY <1>1, <1>7, <1>8

\* A trusted key was published under its kid, for verification, by an entry.
LEMMA EligibleEntry ==
  ASSUME NEW doc \in Documents, WellFormed(doc), NEW kid \in DOMAIN Eligible(doc)
  PROVE  \E i \in DOMAIN doc :
           doc[i].kid = kid /\ doc[i].profile = "rsa" /\ doc[i].key = Eligible(doc)[kid]
  <1>1. kid \in EligibleKids(doc)
    BY DEF Eligible
  <1>2. PICK i \in DOMAIN doc : doc[i].profile = "rsa" /\ doc[i].kid = kid
    BY <1>1 DEF EligibleKids
  <1> DEFINE c == CHOOSE k \in DOMAIN doc : doc[k].kid = kid
  <1>3. c \in DOMAIN doc /\ doc[c].kid = kid
    BY <1>2
  <1>4. Eligible(doc)[kid] = doc[c].key
    BY <1>1 DEF Eligible
  <1> HIDE DEF c
  <1>5. c = i
    BY <1>2, <1>3, KidsAreUnique
  <1> QED BY <1>2, <1>4, <1>5

LEMMA SnapshotIsTyped ==
  ASSUME NEW doc \in Documents, WellFormed(doc), NEW at \in Nat, epoch \in 1..MaxEpoch
  PROVE  Snapshot(doc, at) \in Snapshots
  <1>1. Eligible(doc) \in KeySets
    BY DEF KeySets
  <1>2. at + SoftTtl \in Nat /\ at + HardTtl \in Nat
    BY SignedIdentityAssumption
  <1> QED BY <1>1, <1>2 DEF Snapshot, Snapshots

LEMMA ConfigIsTyped ==
  ASSUME NEW s \in Snapshots
  PROVE  /\ Config(s) \in Configs /\ Config(s) # None /\ s # None
         /\ Config(s).keys = s.keys /\ Config(s).version[2] = s.keys
  <1>1. s.epoch \in 1..MaxEpoch /\ s.keys \in KeySets
    BY DEF Snapshots
  <1>2. Config(s) = [version |-> <<s.epoch, s.keys>>, keys |-> s.keys]
    BY DEF Config, Version
  <1>3. Config(s) \in Configs
    BY <1>1, <1>2 DEF Configs
  <1> QED BY <1>2, <1>3, NoneAssumption

------------------------------------------------------------------------------
(* Inductiveness *)

\* The process starts in the invariant.
THEOREM InitHolds == Init => IInv
  <1> SUFFICES ASSUME Init PROVE IInv
    OBVIOUS
  <1>1. Trusted
    BY SignedIdentityAssumption DEF Init, Trusted
  <1>2. DOMAIN req = Requests /\ \A r \in Requests : req[r] = Idle
    BY DEF Init
  <1>3. DOMAIN Idle = Fields /\ Idle.pc = "new"
    BY DEF Idle, Fields
  <1>4. Shapes
    BY <1>2, <1>3 DEF Shapes, States
  <1>5. \A r \in Requests : Lawful(req[r])
    BY <1>2, <1>3 DEF Lawful, TokenChecked, BindingKept, IntentKept
  <1> QED BY <1>1, <1>4, <1>5 DEF IInv

\* Steps of the clock, the operator and the refresher leave the requests alone.
LEMMA TrustKeeps ==
  ASSUME IInv, Trusted', UNCHANGED req
  PROVE  IInv'
  BY DEF IInv, Shapes, Lawful, TokenChecked, BindingKept, IntentKept

\* A request that is refused, and one that goes on lawfully.
LEMMA RequestKeeps ==
  ASSUME IInv, UNCHANGED <<now, trust, fetched>>, NEW r \in Requests, NEW q,
         req' = [req EXCEPT ![r] = q], DOMAIN q = Fields, q.pc \in States, Lawful(q)
  PROVE  IInv'
  <1>1. Trusted'
    BY DEF IInv, Trusted, trust
  <1>2. Shapes /\ \A x \in Requests : Lawful(req[x])
    BY DEF IInv
  <1>3. DOMAIN req' = Requests /\ \A x \in Requests : req'[x] = IF x = r THEN q ELSE req[x]
    BY <1>2 DEF Shapes
  <1>4. Shapes'
    BY <1>2, <1>3 DEF Shapes
  <1>5. \A x \in Requests : Lawful(req'[x])
    BY <1>2, <1>3
  <1> QED BY <1>1, <1>4, <1>5 DEF IInv

LEMMA RefusedIsLawful ==
  ASSUME NEW q, q.pc \in {"refused", "new"}
  PROVE  Lawful(q)
  BY DEF Lawful, TokenChecked, BindingKept, IntentKept

LEMMA RestartKeeps == ASSUME IInv, Restart PROVE IInv'
  <1>1. Trusted'
    BY DEF IInv, Trusted, Restart
  <1>2. Shapes /\ \A r \in Requests : Lawful(req[r])
    BY DEF IInv
  <1>3. DOMAIN req' = Requests
    BY DEF Restart
  <1>4. ASSUME NEW r \in Requests
        PROVE  DOMAIN req'[r] = Fields /\ req'[r].pc \in States /\ Lawful(req'[r])
    <2>1. req'[r] = [req[r] EXCEPT !.pc = IF @ \in {"new", "bound"} THEN @ ELSE "refused"]
      BY DEF Restart
    <2>2. DOMAIN req[r] = Fields /\ req[r].pc \in States /\ Lawful(req[r])
      BY <1>2 DEF Shapes
    <2>3. /\ DOMAIN req'[r] = Fields
          /\ req'[r].pc = IF req[r].pc \in {"new", "bound"} THEN req[r].pc ELSE "refused"
          /\ req'[r].token = req[r].token /\ req'[r].config = req[r].config
          /\ req'[r].binding = req[r].binding /\ req'[r].intent = req[r].intent
      BY <2>1, <2>2 DEF Fields
    <2>4. CASE req[r].pc = "bound"
      BY <2>2, <2>3, <2>4 DEF States, Lawful, TokenChecked, BindingKept, IntentKept
    <2>5. CASE req[r].pc # "bound"
      <3>1. req'[r].pc \in {"refused", "new"}
        BY <2>3, <2>5
      <3> QED BY <2>3, <3>1, RefusedIsLawful DEF States
    <2> QED BY <2>4, <2>5
  <1>5. Shapes'
    BY <1>3, <1>4 DEF Shapes
  <1>6. \A r \in Requests : Lawful(req'[r])
    BY <1>4
  <1> QED BY <1>1, <1>5, <1>6 DEF IInv

\* What Refresh installs is typed, and the configuration goes with it.
LEMMA RefreshInstalls ==
  ASSUME IInv, Refresh
  PROVE  /\ snapshot' \in Snapshots /\ config' = Config(snapshot')
         /\ fetched.doc \in Documents /\ Acceptable(fetched.doc, snapshot)
         /\ snapshot' = Snapshot(fetched.doc, fetched.at)
  <1>1. /\ fetched # None /\ Buildable
        /\ snapshot' = Snapshot(fetched.doc, fetched.at) /\ config' = Config(snapshot')
    BY DEF Refresh
  <1>2. fetched.doc \in Documents /\ fetched.at \in Nat /\ epoch \in 1..MaxEpoch
    BY <1>1, SignedIdentityAssumption DEF IInv, Trusted
  <1>3. Acceptable(fetched.doc, snapshot) /\ WellFormed(fetched.doc)
    BY <1>1 DEF Buildable, Acceptable
  <1>4. Snapshot(fetched.doc, fetched.at) \in Snapshots
    BY <1>2, <1>3, SnapshotIsTyped
  <1> QED BY <1>1, <1>2, <1>3, <1>4

LEMMA RefreshKeeps == ASSUME IInv, Refresh PROVE IInv'
  <1>1. snapshot' \in Snapshots /\ config' = Config(snapshot')
    BY RefreshInstalls
  <1>2. snapshot' # None
    BY <1>1, NoneAssumption
  <1>3. fetched' = None /\ UNCHANGED <<now, epoch, req>>
    BY DEF Refresh
  <1>4. Trusted'
    BY <1>1, <1>2, <1>3 DEF IInv, Trusted, Config, Version
  <1> QED BY <1>3, <1>4, TrustKeeps

LEMMA AuthenticateKeeps ==
  ASSUME IInv, NEW r \in Requests, NEW t \in Tokens, Authenticate(r, t)
  PROVE  IInv'
  <1> DEFINE q == [req[r] EXCEPT !.pc = IF Verified(config, t) THEN "resolve" ELSE "refused",
                                 !.token = t, !.config = config, !.hard = snapshot.hard,
                                 !.at = now]
  <1>1. req' = [req EXCEPT ![r] = q] /\ config # None /\ UNCHANGED <<now, trust, fetched>>
    BY DEF Authenticate
  <1>2. DOMAIN req[r] = Fields
    BY DEF IInv, Shapes
  <1>3. /\ DOMAIN q = Fields /\ q.pc = IF Verified(config, t) THEN "resolve" ELSE "refused"
        /\ q.token = t /\ q.config = config
    BY <1>2 DEF Fields
  <1> HIDE DEF q
  <1>4. snapshot \in Snapshots /\ config = Config(snapshot)
    BY <1>1 DEF IInv, Trusted
  <1>5. config \in Configs /\ config.version[2] = config.keys
    BY <1>4, ConfigIsTyped
  <1>6. Lawful(q)
    BY <1>3, <1>5 DEF Lawful, TokenChecked, BindingKept, IntentKept, Verified
  <1> QED BY <1>1, <1>3, <1>6, RequestKeeps DEF States

LEMMA ResolveKeeps ==
  ASSUME IInv, NEW r \in Requests, NEW b \in Bindings, Resolve(r, b) \/ ResolveNothing(r)
  PROVE  IInv'
  <1> DEFINE good == [req[r] EXCEPT !.pc = "bind", !.binding = b]
             bad  == [req[r] EXCEPT !.pc = "refused"]
  <1>1. req[r].pc = "resolve" /\ UNCHANGED <<now, trust, fetched>>
    BY DEF Resolve, ResolveNothing
  <1>2. req' = [req EXCEPT ![r] = good] \/ req' = [req EXCEPT ![r] = bad]
    BY DEF Resolve, ResolveNothing
  <1>3. DOMAIN req[r] = Fields /\ Lawful(req[r])
    BY DEF IInv, Shapes
  <1>4. /\ DOMAIN good = Fields /\ good.pc = "bind" /\ good.binding = b
        /\ good.token = req[r].token /\ good.config = req[r].config
        /\ DOMAIN bad = Fields /\ bad.pc = "refused"
    BY <1>3 DEF Fields
  <1> HIDE DEF good, bad
  <1>5. Lawful(good)
    BY <1>1, <1>3, <1>4 DEF Lawful, TokenChecked, BindingKept, IntentKept
  <1>6. Lawful(bad)
    BY <1>4, RefusedIsLawful
  <1>7. good.pc \in States /\ bad.pc \in States
    BY <1>4 DEF States
  <1> QED BY <1>1, <1>2, <1>4, <1>5, <1>6, <1>7, RequestKeeps

LEMMA BindKeeps ==
  ASSUME IInv, NEW r \in Requests, NEW c \in Commands, Bind(r, c)
  PROVE  IInv'
  <1> DEFINE good == [req[r] EXCEPT !.pc = "bound", !.intent = Intent(r, c)]
             bad  == [req[r] EXCEPT !.pc = "refused"]
  <1>1. req[r].pc = "bind" /\ UNCHANGED <<now, trust, fetched>>
    BY DEF Bind
  <1>2. req' = [req EXCEPT ![r] = good] \/ req' = [req EXCEPT ![r] = bad]
    BY DEF Bind
  <1>3. DOMAIN req[r] = Fields /\ Lawful(req[r])
    BY DEF IInv, Shapes
  <1>4. /\ DOMAIN good = Fields /\ good.pc = "bound" /\ good.intent = Intent(r, c)
        /\ good.binding = req[r].binding
        /\ good.token = req[r].token /\ good.config = req[r].config
        /\ DOMAIN bad = Fields /\ bad.pc = "refused"
    BY <1>3 DEF Fields
  <1>5. Intent(r, c).version = req[r].config.version
    BY DEF Intent
  <1> HIDE DEF good, bad
  <1>6. Lawful(good)
    BY <1>1, <1>3, <1>4, <1>5 DEF Lawful, TokenChecked, BindingKept, IntentKept
  <1>7. Lawful(bad)
    BY <1>4, RefusedIsLawful
  <1>8. good.pc \in States /\ bad.pc \in States
    BY <1>4 DEF States
  <1> QED BY <1>1, <1>2, <1>4, <1>6, <1>7, <1>8, RequestKeeps

\* Every step of the clock, the operator, the refresher and the requests keeps it.
THEOREM NextKeeps == IInv /\ [Next]_vars => IInv'
  <1> SUFFICES ASSUME IInv, [Next]_vars PROVE IInv'
    OBVIOUS
  <1>1. CASE Tick
    <2>1. Trusted'
      BY <1>1, SignedIdentityAssumption DEF Tick, IInv, Trusted, trust
    <2> QED BY <1>1, <2>1, TrustKeeps DEF Tick
  <1>2. CASE NewEpoch
    <2>1. Trusted'
      BY <1>2, SignedIdentityAssumption DEF NewEpoch, IInv, Trusted
    <2> QED BY <1>2, <2>1, TrustKeeps DEF NewEpoch
  <1>3. CASE Restart
    BY <1>3, RestartKeeps
  <1>4. CASE Refresh
    BY <1>4, RefreshKeeps
  <1>5. CASE RefreshFails
    <2>1. Trusted'
      BY <1>5 DEF RefreshFails, IInv, Trusted, trust
    <2> QED BY <1>5, <2>1, TrustKeeps DEF RefreshFails
  <1>6. CASE \E doc \in Documents : Fetch(doc)
    <2>1. PICK doc \in Documents : Fetch(doc)
      BY <1>6
    <2>2. fetched'.doc = doc /\ fetched'.at = now
      BY <2>1 DEF Fetch
    <2>3. Trusted'
      BY <2>1, <2>2, SignedIdentityAssumption DEF Fetch, IInv, Trusted, trust
    <2> QED BY <2>1, <2>3, TrustKeeps DEF Fetch
  <1>7. CASE \E r \in Requests : \E t \in Tokens : Authenticate(r, t)
    BY <1>7, AuthenticateKeeps
  <1>8. CASE \E r \in Requests : \E b \in Bindings : Resolve(r, b)
    BY <1>8, ResolveKeeps
  <1>9. CASE \E r \in Requests : ResolveNothing(r)
    <2>1. PICK r \in Requests : ResolveNothing(r)
      BY <1>9
    <2> DEFINE q == [req[r] EXCEPT !.pc = "refused"]
    <2>2. DOMAIN q = Fields /\ q.pc = "refused"
      BY DEF IInv, Shapes, Fields
    <2>3. req' = [req EXCEPT ![r] = q] /\ UNCHANGED <<now, trust, fetched>>
      BY <2>1 DEF ResolveNothing
    <2> HIDE DEF q
    <2>4. Lawful(q) /\ q.pc \in States
      BY <2>2, RefusedIsLawful DEF States
    <2> QED BY <2>2, <2>3, <2>4, RequestKeeps
  <1>10. CASE \E r \in Requests : \E c \in Commands : Bind(r, c)
    BY <1>10, BindKeeps
  <1>11. CASE UNCHANGED vars
    BY <1>11 DEF IInv, Trusted, Shapes, Lawful, TokenChecked, BindingKept, IntentKept, vars, trust
  <1> QED BY <1>1, <1>2, <1>3, <1>4, <1>5, <1>6, <1>7, <1>8, <1>9, <1>10, <1>11 DEF Next, Running

------------------------------------------------------------------------------
(* The theorems *)

\* IInv holds in every state.
THEOREM Invariance == Spec => []IInv
  <1>1. Init => IInv
    BY InitHolds
  <1>2. IInv /\ [Next]_vars => IInv'
    BY NextKeeps
  <1> QED BY <1>1, <1>2, PTL DEF Spec

\* The trust state and the requests keep their shapes; the Boundary's configuration is
\* always the one built from the cached snapshot (build_boundary_trust_bundle).
THEOREM TypesHold == Spec => []TypeOK
  <1>1. IInv => TypeOK
    BY DEF IInv, Trusted, Shapes, States, Lawful, TokenChecked, BindingKept, TypeOK
  <1> QED BY <1>1, Invariance, PTL

\* Whatever refreshes failed, the key of a header decided for the cached snapshot is
\* the key of the Boundary's configuration (decide_header_key against Config).
THEOREM CachedKeysAreUsable == Spec => []UseCachedIsUsable
  <1>1. IInv => UseCachedIsUsable
    <2> SUFFICES ASSUME IInv, NEW kid \in TrustKids,
                        Decide(snapshot, kid, now)
                          \in {"USE_CACHED", "USE_CACHED_REFRESH_RECOMMENDED"}
                 PROVE  /\ config # None /\ kid \in DOMAIN config.keys
                        /\ config.keys[kid] = snapshot.keys[kid]
      BY DEF UseCachedIsUsable
    <2>1. snapshot # None
      BY DEF Decide
    <2>2. snapshot \in Snapshots /\ config = Config(snapshot)
      BY <2>1 DEF IInv, Trusted
    <2>3. now \in Nat /\ snapshot.hard \in Nat
      BY <2>2, SignedIdentityAssumption DEF IInv, Trusted, Snapshots
    <2>4. kid \in DOMAIN snapshot.keys
      BY <2>1, <2>3 DEF Decide
    <2>5. config # None /\ config.keys = snapshot.keys
      BY <2>2, ConfigIsTyped
    <2> QED BY <2>4, <2>5
  <1> QED BY <1>1, Invariance, PTL

\* The key set an intent names contains the key that verified its token, whatever was
\* installed in between (key_set_version of AuthenticatedIntent).
THEOREM IntentsNameTheirKeys == Spec => []IntentNamesItsKeys
  <1>1. IInv => IntentNamesItsKeys
    BY DEF IInv, Lawful, TokenChecked, IntentKept, IntentNamesItsKeys
  <1> QED BY <1>1, Invariance, PTL

\* A token is accepted only under a key that one whole, clean document published under
\* its kid (_eligible_rsa_jwk, validate_jwks_snapshot and authenticate together).
THEOREM KeysWerePublished == Spec => []OnlyPublishedKeys
  <1>1. IInv => OnlyPublishedKeys
    <2> SUFFICES ASSUME IInv, NEW r \in Requests, req[r].pc = "bound"
                 PROVE  \E doc \in Documents : \E i \in DOMAIN doc :
                          /\ doc[i].kid = req[r].token.kid /\ doc[i].key = req[r].token.signer
                          /\ doc[i].profile = "rsa"
                          /\ \A j \in DOMAIN doc :
                               /\ doc[j].profile \notin {"private", "weak", "malformed"}
                               /\ doc[j].kid = doc[i].kid => j = i
      BY DEF OnlyPublishedKeys
    <2> DEFINE keys == req[r].config.keys
               kid == req[r].token.kid
    <2>1. /\ req[r].config \in Configs /\ kid \in DOMAIN keys
          /\ keys[kid] = req[r].token.signer
      BY DEF IInv, Lawful, TokenChecked
    <2>2. keys \in KeySets
      BY <2>1 DEF Configs
    <2>3. PICK doc \in Documents : WellFormed(doc) /\ keys = Eligible(doc)
      BY <2>2 DEF KeySets
    <2>4. PICK i \in DOMAIN doc :
            doc[i].kid = kid /\ doc[i].profile = "rsa" /\ doc[i].key = Eligible(doc)[kid]
      BY <2>1, <2>3, EligibleEntry
    <2>5. \A j \in DOMAIN doc : doc[j].kid = doc[i].kid => j = i
      BY <2>3, KidsAreUnique
    <2>6. \A j \in DOMAIN doc : doc[j].profile \notin {"private", "weak", "malformed"}
      BY <2>3 DEF WellFormed
    <2> QED BY <2>1, <2>3, <2>4, <2>5, <2>6
  <1> QED BY <1>1, Invariance, PTL

------------------------------------------------------------------------------
(* A kid that is always listed *)

LEMMA ListedIsInSnapshot ==
  ASSUME NEW s \in Snapshots, NEW kid \in ListedKids
  PROVE  kid \in DOMAIN s.keys
  <1>1. PICK doc \in Documents : WellFormed(doc) /\ s.keys = Eligible(doc)
    BY DEF Snapshots, KeySets
  <1>2. kid \in EligibleKids(doc)
    BY <1>1 DEF ListedKids
  <1> QED BY <1>1, <1>2 DEF Eligible

\* A refresh gives no listed kid another key.
LEMMA RefreshKeepsListed ==
  ASSUME IInv, Refresh, snapshot # None, NEW kid \in ListedKids
  PROVE  snapshot'.keys[kid] = snapshot.keys[kid]
  <1>1. /\ snapshot' \in Snapshots /\ Acceptable(fetched.doc, snapshot)
        /\ snapshot' = Snapshot(fetched.doc, fetched.at)
    BY RefreshInstalls
  <1>2. snapshot \in Snapshots
    BY DEF IInv, Trusted
  <1>3. kid \in DOMAIN snapshot'.keys /\ kid \in DOMAIN snapshot.keys
    BY <1>1, <1>2, ListedIsInSnapshot
  <1>4. snapshot'.keys = Eligible(fetched.doc)
    BY <1>1 DEF Snapshot
  <1>5. ~Substitutes(Eligible(fetched.doc), snapshot)
    BY <1>1 DEF Acceptable
  <1> QED BY <1>3, <1>4, <1>5 DEF Substitutes

LEMMA NextKeepsListed ==
  ASSUME IInv, ListedKidKeepsItsKey, [Next]_vars
  PROVE  ListedKidKeepsItsKey'
  <1>1. Shapes
    BY DEF IInv
  <1>2. CASE Refresh
    <2>1. req' = req /\ snapshot' \in Snapshots
      BY <1>2, RefreshInstalls DEF Refresh
    <2>2. snapshot' # None
      BY <2>1, NoneAssumption
    <2> QED BY <1>2, <2>1, <2>2, RefreshKeepsListed DEF ListedKidKeepsItsKey
  <1>3. ASSUME NEW r \in Requests, NEW t \in Tokens, Authenticate(r, t)
        PROVE  ListedKidKeepsItsKey'
    <2> DEFINE q == [req[r] EXCEPT !.pc = IF Verified(config, t) THEN "resolve" ELSE "refused",
                                   !.token = t, !.config = config, !.hard = snapshot.hard,
                                   !.at = now]
    <2>1. req' = [req EXCEPT ![r] = q] /\ config # None /\ snapshot' = snapshot
      BY <1>3 DEF Authenticate, trust
    <2>2. q.config = config
      BY <1>1 DEF Shapes, Fields
    <2> HIDE DEF q
    <2>3. snapshot \in Snapshots /\ snapshot # None /\ config = Config(snapshot)
      BY <2>1, NoneAssumption DEF IInv, Trusted
    <2>4. q.config.keys = snapshot.keys
      BY <2>2, <2>3, ConfigIsTyped
    <2>5. \A x \in Requests : req'[x] = IF x = r THEN q ELSE req[x]
      BY <1>1, <2>1 DEF Shapes
    <2> QED BY <2>1, <2>3, <2>4, <2>5 DEF ListedKidKeepsItsKey
  <1>4. ASSUME snapshot' = snapshot,
               \A x \in Requests :
                 req'[x].pc \in {"resolve", "bind"} =>
                   /\ req[x].pc \in {"resolve", "bind"}
                   /\ req'[x].config = req[x].config
        PROVE  ListedKidKeepsItsKey'
    BY <1>4 DEF ListedKidKeepsItsKey
  <1>5. ASSUME snapshot' = snapshot, NEW r \in Requests, NEW q,
               req' = [req EXCEPT ![r] = q], q.config = req[r].config,
               q.pc \in {"resolve", "bind"} => req[r].pc \in {"resolve", "bind"}
        PROVE  ListedKidKeepsItsKey'
    <2>1. \A x \in Requests : req'[x] = IF x = r THEN q ELSE req[x]
      BY <1>1, <1>5 DEF Shapes
    <2> QED BY <1>4, <1>5, <2>1
  <1>6. CASE \E r \in Requests : \E b \in Bindings : Resolve(r, b)
    <2>1. PICK r \in Requests, b \in Bindings : Resolve(r, b)
      BY <1>6
    <2> DEFINE good == [req[r] EXCEPT !.pc = "bind", !.binding = b]
               bad  == [req[r] EXCEPT !.pc = "refused"]
    <2>2. /\ req' = [req EXCEPT ![r] = good] \/ req' = [req EXCEPT ![r] = bad]
          /\ snapshot' = snapshot /\ req[r].pc = "resolve"
      BY <2>1 DEF Resolve, trust
    <2>3. good.config = req[r].config /\ bad.config = req[r].config
      BY <1>1 DEF Shapes, Fields
    <2> HIDE DEF good, bad
    <2> QED BY <1>5, <2>2, <2>3
  <1>7. CASE \E r \in Requests : ResolveNothing(r)
    <2>1. PICK r \in Requests : ResolveNothing(r)
      BY <1>7
    <2> DEFINE bad == [req[r] EXCEPT !.pc = "refused"]
    <2>2. req' = [req EXCEPT ![r] = bad] /\ snapshot' = snapshot /\ req[r].pc = "resolve"
      BY <2>1 DEF ResolveNothing, trust
    <2>3. bad.config = req[r].config
      BY <1>1 DEF Shapes, Fields
    <2> HIDE DEF bad
    <2> QED BY <1>5, <2>2, <2>3
  <1>8. CASE \E r \in Requests : \E c \in Commands : Bind(r, c)
    <2>1. PICK r \in Requests, c \in Commands : Bind(r, c)
      BY <1>8
    <2> DEFINE good == [req[r] EXCEPT !.pc = "bound", !.intent = Intent(r, c)]
               bad  == [req[r] EXCEPT !.pc = "refused"]
    <2>2. /\ req' = [req EXCEPT ![r] = good] \/ req' = [req EXCEPT ![r] = bad]
          /\ snapshot' = snapshot /\ req[r].pc = "bind"
      BY <2>1 DEF Bind, trust
    <2>3. good.config = req[r].config /\ bad.config = req[r].config
      BY <1>1 DEF Shapes, Fields
    <2> HIDE DEF good, bad
    <2> QED BY <1>5, <2>2, <2>3
  <1>9. CASE Restart
    <2>1. ASSUME NEW r \in Requests PROVE req'[r].pc \notin {"resolve", "bind"}
      <3>1. req'[r] = [req[r] EXCEPT !.pc = IF @ \in {"new", "bound"} THEN @ ELSE "refused"]
        BY <1>9 DEF Restart
      <3>2. DOMAIN req[r] = Fields
        BY <1>1 DEF Shapes
      <3> QED BY <3>1, <3>2 DEF Fields
    <2> QED BY <2>1 DEF ListedKidKeepsItsKey
  <1>10. CASE \/ Tick \/ NewEpoch \/ RefreshFails \/ UNCHANGED vars
             \/ \E doc \in Documents : Fetch(doc)
    <2>1. req' = req /\ snapshot' = snapshot
      BY <1>10 DEF Tick, NewEpoch, RefreshFails, Fetch, trust, vars
    <2> QED BY <1>4, <2>1
  <1> QED BY <1>2, <1>3, <1>6, <1>7, <1>8, <1>9, <1>10 DEF Next, Running

\* While a request waits for the registry, no number of refreshes gives a kid that no
\* acceptable document leaves out another key than the one it had when the request was
\* verified (validate_jwks_snapshot with the cached snapshot as `previous').
THEOREM ListedKeysStay == Spec => []ListedKidKeepsItsKey
  <1>1. Init => ListedKidKeepsItsKey
    BY DEF Init, Idle, ListedKidKeepsItsKey
  <1>2. IInv /\ ListedKidKeepsItsKey /\ [Next]_vars => ListedKidKeepsItsKey'
    BY NextKeepsListed
  <1> QED BY <1>1, <1>2, Invariance, PTL DEF Spec
=============================================================================
