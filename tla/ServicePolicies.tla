-------------------------- MODULE ServicePolicies --------------------------
(***************************************************************************)
(* What each of the ten database service pools demands of the catalogue    *)
(* and of a session before it lends a connection.                          *)
(*                                                                         *)
(* A drift is one way the catalogue can differ from what the migrations    *)
(* left: <<kind, where>>.  A check of _validate_authority is one catalogue *)
(* query: the error it raises and the drifts it sees.  The queries run one *)
(* after the other, each on its own snapshot (the connection is in         *)
(* autocommit), so a policy is the SEQUENCE of its checks.                 *)
(***************************************************************************)
EXTENDS Naturals, Sequences

Check(error, kind, places) == [error |-> error, sees |-> {kind} \X places]

Identity   == {"identity"}
Domain2    == {"identity", "core"}
AllSchemas == {"identity", "core", "history", "public_data"}
TwoRoles   == {"service", "runtime"}
ThreeRoles == {"service", "runtime", "guard"}

\* The queries every pool makes: pg_roles, pg_auth_members, table and column
\* privileges, the runtime's functions, then the service's own privileges.  In
\* pg_auth_members a policy looks for the named roles as members only; a drift of
\* kind "parent" is a role of the service granted to somebody else.
Flags(roles)        == Check("ROLE_POLICY_DRIFT", "flags", roles)
Members(roles)      == Check("ROLE_MEMBERSHIP_DRIFT", "member", roles)
Tables(schemas)     == Check("DIRECT_TABLE_PRIVILEGE_DRIFT", "table", schemas)
Functions(schemas)  == Check("FUNCTION_PRIVILEGE_DRIFT", "functions", schemas)
Direct(schemas)     == Check("SERVICE_PRIVILEGE_DRIFT", "direct", schemas)
Create(places)      == Check("SERVICE_PRIVILEGE_DRIFT", "create", places)
GuardTables         == Check("GUARD_TABLE_POLICY_DRIFT", "guard", {"tables"})
GuardColumns        == Check("GUARD_COLUMN_POLICY_DRIFT", "guard", {"columns"})
SealedOwner         == Check("SERVICE_PRIVILEGE_DRIFT", "sealed", {"owner"})
SealedConfig        == Check("FUNCTION_CONFIG_DRIFT", "sealed", {"config"})

\* Two pools ask pg_auth_members for their roles as members OR as parents.
Edges(roles) == [error |-> "ROLE_MEMBERSHIP_DRIFT",
                 sees |-> {"member", "parent"} \X roles]

\* CREATE is asked for the schemas of the pool, for public, and for the database on
\* behalf of the service or of both roles.
CreateIn(schemas, owners) ==
  Create(schemas \union {"public"} \union
         {IF r = "service" THEN "service's database" ELSE "runtime's database" : r \in owners})

\* The settings _sanitize makes after DISCARD ALL, and those that the connection's
\* startup options fix before any role or database default.
StartupOptions == {"search_path", "statement_timeout", "lock_timeout", "idle_timeout"}
SixSettings    == StartupOptions \union {"row_security", "TimeZone"}
SevenSettings  == SixSettings \union {"default_isolation"}

Service(size, waiting, checks, settings) ==
  [size |-> size, waiting |-> waiting, checks |-> checks, settings |-> settings]

OwnerReadAuthority ==
  <<Flags(TwoRoles), Members(TwoRoles), Tables(AllSchemas), Functions(AllSchemas),
    Direct(AllSchemas), CreateIn(AllSchemas, {"service"})>>
OwnerReadBaseline == SixSettings
OwnerRead == Service(4, 8, OwnerReadAuthority, OwnerReadBaseline)

WriterAuthority ==
  <<Flags(TwoRoles), Members(TwoRoles), Tables(AllSchemas), Functions(AllSchemas),
    Direct(AllSchemas), CreateIn(AllSchemas, {"service"})>>
WriterBaseline == SixSettings
Writer == Service(4, 8, WriterAuthority, WriterBaseline)

RegistryAuthority ==
  <<Flags(ThreeRoles), Members(ThreeRoles), Tables(Identity), GuardTables,
    Functions(Identity), Direct(Identity), CreateIn(Identity, {"service"})>>
RegistryBaseline == SixSettings
Registry == Service(6, 12, RegistryAuthority, RegistryBaseline)

MutationAuthority ==
  <<Flags(ThreeRoles), Members(ThreeRoles), Tables(Identity), GuardTables, GuardColumns,
    Functions(Identity), Direct(Identity), CreateIn(Identity, {"service"})>>
MutationBaseline == SixSettings
Mutation == Service(4, 8, MutationAuthority, MutationBaseline)

AccountLinkAuthority ==
  <<Flags(ThreeRoles), Members(ThreeRoles), Tables(Domain2), Functions(Identity),
    Direct(Identity), CreateIn(Domain2, {"service"})>>
AccountLinkBaseline == SixSettings
AccountLink == Service(4, 8, AccountLinkAuthority, AccountLinkBaseline)

PrincipalAuthority ==
  <<Flags(ThreeRoles), Members(ThreeRoles), Tables(Domain2), Functions(Identity),
    Direct(Identity), CreateIn(Domain2, {"service"}), SealedOwner, SealedConfig>>
PrincipalBaseline == SevenSettings
Principal == Service(4, 8, PrincipalAuthority, PrincipalBaseline)

FirstSessionAuthority ==
  <<Flags(ThreeRoles), Members(ThreeRoles), Tables(Domain2), Functions(Identity),
    Direct(Identity), CreateIn(Domain2, {"service"}), SealedOwner, SealedConfig>>
FirstSessionBaseline == SevenSettings
FirstSession == Service(4, 8, FirstSessionAuthority, FirstSessionBaseline)

LogoutAuthority ==
  <<Flags(ThreeRoles), Members(ThreeRoles), Tables(Domain2), Functions(Identity),
    Direct(Identity), CreateIn(Domain2, TwoRoles), SealedOwner, SealedConfig>>
LogoutBaseline == SevenSettings
Logout == Service(4, 8, LogoutAuthority, LogoutBaseline)

RepeatLoginAuthority ==
  <<Flags(ThreeRoles), Edges(ThreeRoles), Tables(Domain2), Functions(Identity),
    Direct(Identity), CreateIn(Domain2, {"service"}), SealedOwner, SealedConfig>>
RepeatLoginBaseline == SevenSettings
RepeatLogin == Service(4, 8, RepeatLoginAuthority, RepeatLoginBaseline)

RotationAuthority ==
  <<Flags(ThreeRoles), Edges(ThreeRoles), Tables(Domain2), Functions(Identity),
    Direct(Identity), CreateIn(Domain2, TwoRoles), SealedOwner, SealedConfig>>
RotationBaseline == SevenSettings
Rotation == Service(4, 8, RotationAuthority, RotationBaseline)

Services == {OwnerRead, Writer, Registry, Mutation, AccountLink, Principal, FirstSession,
             Logout, RepeatLogin, Rotation}

\* Every drift that some check of the policy sees.
Detects(service) == UNION {service.checks[k].sees : k \in 1..Len(service.checks)}
DriftErrors(service) == {service.checks[k].error : k \in 1..Len(service.checks)}
============================================================================
