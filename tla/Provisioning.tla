---------------------------- MODULE Provisioning ----------------------------
(***************************************************************************)
(* Database roles, tables and row-level security, as the administrative     *)
(* commands of Component_5 set them up:                                     *)
(*   roles    provision_database_roles.provision_roles                      *)
(*   reader   create_release_gate_reader.main                               *)
(*   bootstrap_ops_copilot, seed (init_db) and enable_rls (configure_rls),  *)
(*   each one transaction and hence one step here                           *)
(* They run in any order, more than once and at the same time; the tasks of *)
(* the API and the worker read their database URL from a secret when they   *)
(* start.                                                                  *)
(***************************************************************************)
EXTENDS Naturals, FiniteSets

CONSTANTS
    Operators,       \* processes that run commands
    Tasks,           \* API and worker tasks
    FirstTables,     \* ALL_RLS_TABLES and api_credentials of one release
    AddedTables,     \* tables that the next release adds
    ReaderTables,    \* _GRANT_TABLES, some of the first
    AuthTable,       \* api_credentials, one of the first; it has no policy
    MaxPasswords,    \* bound: passwords drawn
    None

Tables == FirstTables \cup AddedTables
Passwords == 1..MaxPasswords
Rotated == {"app_user", "release_gate_reader"}   \* roles with generated passwords
Policies == {"tenant_isolation", "reader_allow", "reader_guard"}

ProvisioningAssumption ==
    /\ AuthTable \in FirstTables
    /\ ReaderTables \subseteq FirstTables \ {AuthTable}
    /\ ReaderTables # {}
    /\ MaxPasswords \in Nat
    /\ None \notin Passwords /\ None \notin {"rls_admin", "master"}

VARIABLES
    release,    \* the tables the code of this release declares
    admin,      \* whether rls_admin exists, with the password of its URL
    password,   \* of the other roles; None: the role does not exist
    secret,     \* the password in the secret of each; None: the placeholder
    owner,      \* the creator of each table; None: it does not exist
    forced,     \* tables with row-level security enabled and forced
    policies,   \* <<policy, table>>
    grants,     \* <<role, table>>
    at, mine,   \* where each command is, and the password it has in memory
    drawn,      \* passwords drawn so far
    alone,      \* the commands that run now have not overlapped with others
    task        \* the password each task was started with

vars == <<release, admin, password, secret, owner, forced, policies, grants,
          at, mine, drawn, alone, task>>

schema == <<owner, forced, policies, grants>>

Init ==
    /\ release = FirstTables
    /\ admin = FALSE
    /\ password = [r \in Rotated |-> None]
    /\ secret = [r \in Rotated |-> None]
    /\ owner = [t \in Tables |-> None]
    /\ forced = {}
    /\ policies = {}
    /\ grants = {}
    /\ at = [p \in Operators |-> "idle"]
    /\ mine = [p \in Operators |-> None]
    /\ drawn = 0
    /\ alone = TRUE
    /\ task = [w \in Tasks |-> None]

Begin(p, l) ==
    /\ at[p] = "idle"
    /\ at' = [at EXCEPT ![p] = l]
    /\ alone' = \A q \in Operators \ {p} : at[q] = "idle"

Goto(p, l) ==
    /\ at' = [at EXCEPT ![p] = l]
    /\ UNCHANGED <<mine, alone>>

End(p) ==
    /\ at' = [at EXCEPT ![p] = "idle"]
    /\ mine' = [mine EXCEPT ![p] = None]
    /\ UNCHANGED alone

DrawPassword(p) ==
    /\ drawn < MaxPasswords
    /\ drawn' = drawn + 1
    /\ mine' = [mine EXCEPT ![p] = drawn + 1]

(***************************************************************************)
(* provision_roles: the password in the secret is used again.               *)
(***************************************************************************)
ExistingAppPassword(p) ==
    /\ secret["app_user"] # None
    /\ mine' = [mine EXCEPT ![p] = secret["app_user"]]
    /\ UNCHANGED drawn

\* Mutant: every run rotates.
ChooseNewPassword(p) == DrawPassword(p)

ChooseAppPassword(p) ==
    \/ ExistingAppPassword(p)
    \/ secret["app_user"] = None /\ DrawPassword(p)

StartRoles(p) ==
    /\ Begin(p, "roles")
    /\ ChooseAppPassword(p)
    /\ UNCHANGED <<release, admin, password, secret, schema, task>>

AlterRoles(p) ==
    /\ at[p] = "roles"
    /\ admin' = TRUE
    /\ password' = [password EXCEPT !["app_user"] = mine[p]]
    /\ Goto(p, "put_app_user")
    /\ UNCHANGED <<release, secret, schema, drawn, task>>

PutAppSecret(p) ==
    /\ at[p] = "put_app_user"
    /\ secret' = [secret EXCEPT !["app_user"] = mine[p]]
    /\ End(p)
    /\ UNCHANGED <<release, admin, password, schema, drawn, task>>

(***************************************************************************)
(* create_release_gate_reader: a new password, then grants and policies,    *)
(* then the secret.                                                        *)
(***************************************************************************)
StartReader(p) ==
    /\ Begin(p, "reader")
    /\ DrawPassword(p)
    /\ UNCHANGED <<release, admin, password, secret, schema, task>>

ProvisionReaderRole(p) ==
    /\ at[p] = "reader"
    /\ password' = [password EXCEPT !["release_gate_reader"] = mine[p]]
    /\ Goto(p, "policies")
    /\ UNCHANGED <<release, admin, secret, schema, drawn, task>>

\* Mutant: a table that exists is enough.
IsPresent(t) == owner[t] # None

IsGuarded(t) == t \in forced

ConfigureReaderPolicies(p) ==
    /\ at[p] = "policies"
    /\ admin
    /\ \A t \in ReaderTables : IsGuarded(t) /\ owner[t] = "rls_admin"
    /\ grants' = grants \cup ({"release_gate_reader"} \X ReaderTables)
    /\ policies' = policies \cup ({"reader_allow", "reader_guard"} \X ReaderTables)
    /\ Goto(p, "put_reader")
    /\ UNCHANGED <<release, admin, password, secret, owner, forced, drawn, task>>

PutReaderSecret(p) ==
    /\ at[p] = "put_reader"
    /\ secret' = [secret EXCEPT !["release_gate_reader"] = mine[p]]
    /\ End(p)
    /\ UNCHANGED <<release, admin, password, schema, drawn, task>>

\* An exception or the end of the process: what was committed stays.
Stop(p) ==
    /\ at[p] # "idle"
    /\ End(p)
    /\ UNCHANGED <<release, admin, password, secret, schema, drawn, task>>

(***************************************************************************)
(* Commands of one transaction.  create_all leaves the tables that exist,   *)
(* and whoever creates a table owns it.                                     *)
(***************************************************************************)
CreateAll(creator) ==
    /\ owner' = [t \in Tables |-> IF t \in release /\ owner[t] = None THEN creator ELSE owner[t]]
    /\ UNCHANGED <<release, admin, password, secret, forced, policies, grants,
                   at, mine, drawn, alone, task>>

BootstrapSchema == admin /\ CreateAll("rls_admin")

InitDb == CreateAll("master")

\* _validate_configuration_role, _validate_roles and _validate_tables.
Configurable ==
    /\ admin
    /\ password["app_user"] # None
    /\ \A t \in release : owner[t] # None

\* One table that belongs to another role fails all of it.
ConfigureRls ==
    LET tenantTables == release \ {AuthTable}
    IN /\ Configurable
       /\ \A t \in release : owner[t] = "rls_admin"
       /\ forced' = forced \cup tenantTables
       /\ policies' = policies \cup ({"tenant_isolation"} \X tenantTables)
       /\ grants' = grants \cup ({"app_user"} \X release)
       /\ UNCHANGED <<release, admin, password, secret, owner, at, mine, drawn, alone, task>>

(***************************************************************************)
(* The environment: a release that declares more tables, and the tasks.     *)
(***************************************************************************)
NextRelease ==
    /\ release' = Tables
    /\ UNCHANGED <<admin, password, secret, schema, at, mine, drawn, alone, task>>

StartTask(w) ==
    /\ secret["app_user"] # None
    /\ task' = [task EXCEPT ![w] = secret["app_user"]]
    /\ UNCHANGED <<release, admin, password, secret, schema, at, mine, drawn, alone>>

Next ==
    \/ \E p \in Operators :
          \/ StartRoles(p) \/ AlterRoles(p) \/ PutAppSecret(p)
          \/ StartReader(p) \/ ProvisionReaderRole(p)
          \/ ConfigureReaderPolicies(p) \/ PutReaderSecret(p)
          \/ Stop(p)
    \/ BootstrapSchema \/ InitDb \/ ConfigureRls
    \/ NextRelease
    \/ \E w \in Tasks : StartTask(w)

Spec == Init /\ [][Next]_vars

-----------------------------------------------------------------------------
(***************************************************************************)
(* Properties.                                                             *)
(***************************************************************************)
TypeOK ==
    /\ release \in {FirstTables, Tables}
    /\ admin \in BOOLEAN
    /\ password \in [Rotated -> Passwords \cup {None}]
    /\ secret \in [Rotated -> Passwords \cup {None}]
    /\ owner \in [Tables -> {"rls_admin", "master", None}]
    /\ forced \subseteq {t \in Tables : owner[t] = "rls_admin"}
    /\ policies \subseteq Policies \X Tables
    /\ grants \subseteq Rotated \X Tables
    /\ at \in [Operators -> {"idle", "roles", "put_app_user", "reader", "policies", "put_reader"}]
    /\ mine \in [Operators -> Passwords \cup {None}]
    /\ drawn \in 0..MaxPasswords
    /\ alone \in BOOLEAN
    /\ task \in [Tasks -> Passwords \cup {None}]

\* What assert_rls_enforced asks before every cycle (orchestrator.py:267-278).
Preflight == release \ {AuthTable} \subseteq forced

\* In whatever order the commands and a release come, a role can read or write a
\* table of tenant data only where row-level security is forced and a policy for
\* it exists; and where the preflight of a cycle passes, although it looks at
\* neither, the policies and the grants of app_user are complete
\* (enable_rls.py:577-592, create_release_gate_reader.py:157-217).
GrantsAreGuarded ==
    /\ \A r \in Rotated, t \in Tables \ {AuthTable} :
          <<r, t>> \in grants =>
              /\ t \in forced
              /\ r = "app_user" => <<"tenant_isolation", t>> \in policies
              /\ r = "release_gate_reader" => <<"reader_guard", t>> \in policies
    /\ Preflight => \A t \in release : <<"app_user", t>> \in grants

\* Commands that overlap with no other leave in the secret the password of the
\* role, whatever failed or overlapped before them, and never cut off a task
\* that runs with the password in the secret
\* (provision_database_roles.py:134-144, 164-167).
AccessIsKept ==
    [][/\ \A p \in Operators :
             /\ PutAppSecret(p) /\ alone => secret'["app_user"] = password["app_user"]
             /\ PutReaderSecret(p) /\ alone =>
                    secret'["release_gate_reader"] = password["release_gate_reader"]
       /\ \A w \in Tasks :
             /\ task[w] # None
             /\ task[w] = password["app_user"] /\ task[w] = secret["app_user"]
             /\ alone
             => task[w] = password'["app_user"]]_vars
=============================================================================
