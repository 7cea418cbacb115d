-------------------------- MODULE MCSignedIdentity --------------------------
(* SignedIdentity on small instances. *)
EXTENDS SignedIdentity

CONSTANTS k1, k2, dotted, ka, kb, kc, alice, bob

Entry(kid, profile, key) == [kid |-> kid, profile |-> profile, key |-> key]

\* A kid that is always listed (k1) and one that comes and goes (k2): alone, together,
\* the first with a new key, the second with another key than before, a kid twice, a kid
\* only the contract admits, an encryption key beside a signing key, and a document that
\* gives a private key away.
SomeDocuments ==
  {<<Entry(k1, "rsa", ka)>>,
   <<Entry(k1, "rsa", ka), Entry(k2, "rsa", kb)>>,
   <<Entry(k1, "rsa", kb)>>,
   <<Entry(k2, "rsa", ka), Entry(k1, "rsa", ka)>>,
   <<Entry(k1, "rsa", ka), Entry(k1, "rsa", kb)>>,
   <<Entry(k1, "rsa", ka), Entry(dotted, "rsa", kc)>>,
   <<Entry(k2, "ineligible", kc), Entry(k1, "rsa", ka)>>,
   <<Entry(k1, "rsa", ka), Entry(k2, "private", kb)>>}

\* A rotation only, for the run about expiry.
Rotation == {<<Entry(k1, "rsa", ka)>>, <<Entry(k1, "rsa", ka), Entry(k2, "rsa", kb)>>}

\* A kid that goes away and comes back with another key.
Return == {<<Entry(k1, "rsa", ka)>>, <<Entry(k2, "rsa", kb)>>, <<Entry(k1, "rsa", kb)>>}

Token(kid, signer, iat, nbf, exp) ==
  [kid |-> kid, signer |-> signer, shaped |-> TRUE, sub |-> alice, iat |-> iat, nbf |-> nbf,
   exp |-> exp]

SomeTokens == {Token(k1, ka, 0, 0, 3), Token(k1, kb, 0, 1, 3), Token(k2, kc, 1, 1, 2),
               Token(k2, kb, 1, 1, 4)}

\* A durable writer, a legacy reviewer that is not a human and whose binding ends
\* early, and the binding of somebody else.
SomeBindings ==
  {[sub |-> alice, enabled |-> TRUE, revision |-> 1, durable |-> "all", validFrom |-> 0,
    expires |-> 4, kind |-> "HUMAN", capabilities |-> {"voice:draft:create"}],
   [sub |-> alice, enabled |-> TRUE, revision |-> 1, durable |-> "none", validFrom |-> 1,
    expires |-> 2, kind |-> "AI", capabilities |-> {"voice:draft:create", "assessment:review"}],
   [sub |-> bob, enabled |-> TRUE, revision |-> 1, durable |-> "all", validFrom |-> 0,
    expires |-> 4, kind |-> "HUMAN", capabilities |-> {"voice:draft:create"}]}

SomeCommands == {[name |-> "draft", valid |-> TRUE], [name |-> "review", valid |-> TRUE],
                 [name |-> "draft", valid |-> FALSE]}

AllKids == {k1, k2, dotted}
PlainKids == {k1, k2}
=============================================================================
