------------------------- MODULE ProvisioningProofs -------------------------
(***************************************************************************)
(* In whatever order the commands of Component_5 run and wherever they fail: *)
(* no role reaches tenant data without a policy, and commands that overlap  *)
(* with no other keep the passwords in the secrets those of the roles.      *)
(***************************************************************************)
EXTENDS Provisioning, TLAPS

(***************************************************************************)
(* The inductive invariant.                                                *)
(***************************************************************************)
\* enable_rls is all or nothing: a table is forced together with its policy and
\* its grant, and after the first time no table of the first release is without.
ConfiguredTogether ==
    /\ \A t \in forced : <<"app_user", t>> \in grants
    /\ forced # {} => \A t \in FirstTables : <<"app_user", t>> \in grants

\* A command that runs alone is the only one, and the password it will store is
\* that of the role; until it has altered the role it is the one in the secret.
PasswordsFollow ==
    alone =>
        /\ \A p, q \in Operators : at[p] # "idle" /\ at[q] # "idle" => p = q
        /\ \A p \in Operators :
              /\ at[p] = "roles" /\ secret["app_user"] # None => mine[p] = secret["app_user"]
              /\ at[p] = "put_app_user" => mine[p] = password["app_user"]
              /\ at[p] \in {"policies", "put_reader"} =>
                    mine[p] = password["release_gate_reader"]

PInv == TypeOK /\ GrantsAreGuarded /\ ConfiguredTogether /\ PasswordsFollow

\* What the steps that touch no table leave alone.
LEMMA SchemaKept ==
    ASSUME GrantsAreGuarded, ConfiguredTogether, UNCHANGED <<release, schema>>
    PROVE  GrantsAreGuarded' /\ ConfiguredTogether'
BY DEF GrantsAreGuarded, ConfiguredTogether, Preflight, schema, Rotated, Tables

LEMMA Initially ==
    ASSUME ProvisioningAssumption, Init
    PROVE  PInv
<1>1. TypeOK
  <2>1. drawn \in 0..MaxPasswords
    BY DEF ProvisioningAssumption, Init
  <2>2. forced = {} /\ policies = {} /\ grants = {} /\ admin = FALSE /\ alone = TRUE
    BY DEF Init
  <2>3. /\ password \in [Rotated -> Passwords \cup {None}]
        /\ secret \in [Rotated -> Passwords \cup {None}]
        /\ owner \in [Tables -> {"rls_admin", "master", None}]
        /\ mine \in [Operators -> Passwords \cup {None}]
        /\ task \in [Tasks -> Passwords \cup {None}]
        /\ at \in [Operators -> {"idle", "roles", "put_app_user", "reader", "policies", "put_reader"}]
    BY DEF Init
  <2> QED BY <2>1, <2>2, <2>3 DEF Init, TypeOK
<1>2. GrantsAreGuarded
  BY DEF ProvisioningAssumption, Init, GrantsAreGuarded, Preflight, Tables
<1>3. ConfiguredTogether
  BY DEF Init, ConfiguredTogether
<1>4. PasswordsFollow
  BY DEF Init, PasswordsFollow
<1> QED BY <1>1, <1>2, <1>3, <1>4 DEF PInv

(***************************************************************************)
(* The commands on roles.                                                  *)
(***************************************************************************)
LEMMA RolesStep ==
    ASSUME ProvisioningAssumption, PInv, NEW p \in Operators,
           StartRoles(p) \/ AlterRoles(p) \/ PutAppSecret(p) \/ Stop(p)
    PROVE  PInv'
<1> USE DEF PInv
<1>1. GrantsAreGuarded' /\ ConfiguredTogether'
  BY SchemaKept DEF StartRoles, AlterRoles, PutAppSecret, Stop, schema
<1>2. CASE StartRoles(p)
  <2>1. TypeOK'
    BY <1>2 DEF ProvisioningAssumption, TypeOK, StartRoles, Begin, ChooseAppPassword,
       ExistingAppPassword, DrawPassword, schema, Passwords, Rotated
  <2>2. PasswordsFollow'
    BY <1>2 DEF TypeOK, PasswordsFollow, StartRoles, Begin, ChooseAppPassword,
       ExistingAppPassword, DrawPassword, schema
  <2> QED BY <1>1, <2>1, <2>2
<1>3. CASE AlterRoles(p)
  <2>1. TypeOK'
    BY <1>3 DEF TypeOK, AlterRoles, Goto, schema, Rotated
  <2>2. PasswordsFollow'
    BY <1>3 DEF TypeOK, PasswordsFollow, AlterRoles, Goto, schema, Rotated
  <2> QED BY <1>1, <2>1, <2>2
<1>4. CASE PutAppSecret(p)
  <2>1. TypeOK'
    BY <1>4 DEF TypeOK, PutAppSecret, End, schema, Rotated
  <2>2. PasswordsFollow'
    BY <1>4 DEF TypeOK, PasswordsFollow, PutAppSecret, End, schema, Rotated
  <2> QED BY <1>1, <2>1, <2>2
<1>5. CASE Stop(p)
  <2>1. TypeOK'
    BY <1>5 DEF TypeOK, Stop, End, schema
  <2>2. PasswordsFollow'
    BY <1>5 DEF TypeOK, PasswordsFollow, Stop, End, schema
  <2> QED BY <1>1, <2>1, <2>2
<1> QED BY <1>2, <1>3, <1>4, <1>5

LEMMA ReaderStep ==
    ASSUME ProvisioningAssumption, PInv, NEW p \in Operators,
           StartReader(p) \/ ProvisionReaderRole(p) \/ PutReaderSecret(p)
    PROVE  PInv'
<1> USE DEF PInv
<1>1. GrantsAreGuarded' /\ ConfiguredTogether'
  BY SchemaKept DEF StartReader, ProvisionReaderRole, PutReaderSecret, schema
<1>2. CASE StartReader(p)
  <2>1. TypeOK'
    BY <1>2 DEF ProvisioningAssumption, TypeOK, StartReader, Begin, DrawPassword, schema, Passwords
  <2>2. PasswordsFollow'
    BY <1>2 DEF TypeOK, PasswordsFollow, StartReader, Begin, DrawPassword, schema
  <2> QED BY <1>1, <2>1, <2>2
<1>3. CASE ProvisionReaderRole(p)
  <2>1. TypeOK'
    BY <1>3 DEF TypeOK, ProvisionReaderRole, Goto, schema, Rotated
  <2>2. PasswordsFollow'
    BY <1>3 DEF TypeOK, PasswordsFollow, ProvisionReaderRole, Goto, schema, Rotated
  <2> QED BY <1>1, <2>1, <2>2
<1>4. CASE PutReaderSecret(p)
  <2>1. TypeOK'
    BY <1>4 DEF TypeOK, PutReaderSecret, End, schema, Rotated
  <2>2. PasswordsFollow'
    BY <1>4 DEF TypeOK, PasswordsFollow, PutReaderSecret, End, schema, Rotated
  <2> QED BY <1>1, <2>1, <2>2
<1> QED BY <1>2, <1>3, <1>4

(***************************************************************************)
(* The steps that change tables, policies and grants.                      *)
(***************************************************************************)
LEMMA ReaderPoliciesStep ==
    ASSUME ProvisioningAssumption, PInv, NEW p \in Operators, ConfigureReaderPolicies(p)
    PROVE  PInv'
<1> USE DEF PInv
<1>1. TypeOK'
  BY DEF ProvisioningAssumption, TypeOK, ConfigureReaderPolicies, Goto, Rotated, Policies, Tables
<1>2. GrantsAreGuarded'
  BY DEF GrantsAreGuarded, Preflight, ConfigureReaderPolicies, IsGuarded, Goto, Rotated
<1>3. ConfiguredTogether'
  BY DEF ConfiguredTogether, ConfigureReaderPolicies, Goto
<1>4. PasswordsFollow'
  BY DEF TypeOK, PasswordsFollow, ConfigureReaderPolicies, Goto
<1> QED BY <1>1, <1>2, <1>3, <1>4

LEMMA ConfigureStep ==
    ASSUME ProvisioningAssumption, PInv, ConfigureRls
    PROVE  PInv'
<1> USE DEF PInv
<1>0. release \in {FirstTables, Tables} /\ AuthTable \in release /\ FirstTables \subseteq release
  BY DEF TypeOK, Tables, ProvisioningAssumption
<1>1. TypeOK'
  BY <1>0 DEF ProvisioningAssumption, TypeOK, ConfigureRls, Rotated, Policies, Tables
<1>2. GrantsAreGuarded'
  BY <1>0 DEF GrantsAreGuarded, Preflight, ConfigureRls, Rotated
<1>3. ConfiguredTogether'
  BY <1>0 DEF ConfiguredTogether, ConfigureRls
<1>4. PasswordsFollow'
  BY DEF PasswordsFollow, ConfigureRls
<1> QED BY <1>1, <1>2, <1>3, <1>4

LEMMA CreateStep ==
    ASSUME ProvisioningAssumption, PInv, NEW creator \in {"rls_admin", "master"}, CreateAll(creator)
    PROVE  PInv'
<1> USE DEF PInv
<1>1. TypeOK'
  BY DEF ProvisioningAssumption, TypeOK, CreateAll
<1>2. GrantsAreGuarded' /\ ConfiguredTogether'
  BY DEF GrantsAreGuarded, ConfiguredTogether, Preflight, CreateAll
<1>3. PasswordsFollow'
  BY DEF PasswordsFollow, CreateAll
<1> QED BY <1>1, <1>2, <1>3

\* A release that adds tables makes the preflight fail until they are configured.
LEMMA ReleaseStep ==
    ASSUME ProvisioningAssumption, PInv, NextRelease
    PROVE  PInv'
<1> USE DEF PInv
<1>1. TypeOK'
  BY DEF TypeOK, NextRelease, schema
<1>2. GrantsAreGuarded'
  <2>1. ASSUME Preflight', NEW t \in release'
        PROVE  <<"app_user", t>> \in grants'
    <3>1. Tables \ {AuthTable} \subseteq forced /\ forced # {}
      BY <2>1 DEF Preflight, NextRelease, schema, ProvisioningAssumption, Tables
    <3>2. t \in forced \/ t \in FirstTables
      BY <3>1, <2>1 DEF NextRelease, ProvisioningAssumption
    <3> QED BY <3>1, <3>2 DEF ConfiguredTogether, NextRelease, schema
  <2>2. forced' = forced /\ grants' = grants /\ policies' = policies
    BY DEF NextRelease, schema
  <2> QED BY <2>1, <2>2 DEF GrantsAreGuarded
<1>3. ConfiguredTogether'
  BY DEF ConfiguredTogether, NextRelease, schema
<1>4. PasswordsFollow'
  BY DEF PasswordsFollow, NextRelease, schema
<1> QED BY <1>1, <1>2, <1>3, <1>4

LEMMA TaskStep ==
    ASSUME PInv, NEW w \in Tasks, StartTask(w)
    PROVE  PInv'
<1> USE DEF PInv
<1>1. TypeOK'
  BY DEF TypeOK, StartTask, schema, Rotated
<1>2. GrantsAreGuarded' /\ ConfiguredTogether'
  BY SchemaKept DEF StartTask, schema
<1>3. PasswordsFollow'
  BY DEF PasswordsFollow, StartTask, schema
<1> QED BY <1>1, <1>2, <1>3

LEMMA Invariant ==
    ASSUME ProvisioningAssumption
    PROVE  Spec => []PInv
<1>1. Init => PInv
  BY Initially
<1>2. PInv /\ [Next]_vars => PInv'
  <2> SUFFICES ASSUME PInv, [Next]_vars PROVE PInv'
    OBVIOUS
  <2>1. CASE UNCHANGED vars
    BY <2>1 DEF PInv, TypeOK, GrantsAreGuarded, Preflight, ConfiguredTogether, PasswordsFollow,
       vars
  <2>2. CASE BootstrapSchema
    BY <2>2, CreateStep DEF BootstrapSchema
  <2>3. CASE InitDb
    BY <2>3, CreateStep DEF InitDb
  <2>4. CASE ConfigureRls
    BY <2>4, ConfigureStep
  <2>5. CASE NextRelease
    BY <2>5, ReleaseStep
  <2>6. ASSUME NEW w \in Tasks, StartTask(w) PROVE PInv'
    BY <2>6, TaskStep
  <2>7. ASSUME NEW p \in Operators, ConfigureReaderPolicies(p) PROVE PInv'
    BY <2>7, ReaderPoliciesStep
  <2>8. ASSUME NEW p \in Operators, StartReader(p) \/ ProvisionReaderRole(p) \/ PutReaderSecret(p)
        PROVE  PInv'
    BY <2>8, ReaderStep
  <2>9. ASSUME NEW p \in Operators, StartRoles(p) \/ AlterRoles(p) \/ PutAppSecret(p) \/ Stop(p)
        PROVE  PInv'
    BY <2>9, RolesStep
  <2> QED BY <2>1, <2>2, <2>3, <2>4, <2>5, <2>6, <2>7, <2>8, <2>9 DEF Next
<1> QED BY <1>1, <1>2, PTL DEF Spec

(***************************************************************************)
(* The theorems.                                                           *)
(***************************************************************************)
\* A role reads or writes tenant data only behind a policy, and a cycle whose
\* preflight passes finds its policies and grants complete, for any tables, any
\* order of commands and any failure (enable_rls.py:577-592,
\* create_release_gate_reader.py:157-217).
THEOREM RolesAreGuarded ==
    ASSUME ProvisioningAssumption
    PROVE  Spec => []GrantsAreGuarded
<1>1. PInv => GrantsAreGuarded
  BY DEF PInv
<1> QED BY <1>1, Invariant, PTL

\* The types; in particular row-level security is forced on no table but those of
\* rls_admin, who alone may alter them (enable_rls.py:400-424).
THEOREM TypeCorrect ==
    ASSUME ProvisioningAssumption
    PROVE  Spec => []TypeOK
<1>1. PInv => TypeOK
  BY DEF PInv
<1> QED BY <1>1, Invariant, PTL

\* Commands that overlap with no other leave in the secrets the passwords of the
\* roles and cut off no task that has the password of the secret
\* (provision_database_roles.py:134-144, 164-167).
THEOREM PasswordsAreKept ==
    ASSUME ProvisioningAssumption
    PROVE  Spec => AccessIsKept
<1> DEFINE Kept ==
      /\ \A p \in Operators :
            /\ PutAppSecret(p) /\ alone => secret'["app_user"] = password["app_user"]
            /\ PutReaderSecret(p) /\ alone =>
                   secret'["release_gate_reader"] = password["release_gate_reader"]
      /\ \A w \in Tasks :
            /\ task[w] # None
            /\ task[w] = password["app_user"] /\ task[w] = secret["app_user"]
            /\ alone
            => task[w] = password'["app_user"]
<1>1. PInv /\ [Next]_vars => [Kept]_vars
  <2> SUFFICES ASSUME PInv, Next PROVE Kept
    OBVIOUS
  <2>1. ASSUME NEW p \in Operators, alone, PutAppSecret(p)
        PROVE  secret'["app_user"] = password["app_user"]
    BY <2>1 DEF PInv, TypeOK, PasswordsFollow, PutAppSecret, Rotated
  <2>2. ASSUME NEW p \in Operators, alone, PutReaderSecret(p)
        PROVE  secret'["release_gate_reader"] = password["release_gate_reader"]
    BY <2>2 DEF PInv, TypeOK, PasswordsFollow, PutReaderSecret, Rotated
  <2>3. ASSUME NEW w \in Tasks, task[w] # None,
               task[w] = password["app_user"], task[w] = secret["app_user"], alone
        PROVE  task[w] = password'["app_user"]
    <3>1. CASE \E p \in Operators : AlterRoles(p)
      BY <2>3, <3>1 DEF PInv, TypeOK, PasswordsFollow, AlterRoles, Rotated
    <3>2. CASE \E p \in Operators : ProvisionReaderRole(p)
      BY <2>3, <3>2 DEF PInv, TypeOK, ProvisionReaderRole, Rotated
    <3>3. CASE UNCHANGED password
      BY <2>3, <3>3
    <3> QED BY <3>1, <3>2, <3>3 DEF Next, StartRoles, PutAppSecret, StartReader,
               ConfigureReaderPolicies, PutReaderSecret, Stop, BootstrapSchema, InitDb, CreateAll,
               ConfigureRls, NextRelease, StartTask
  <2> QED BY <2>1, <2>2, <2>3
<1> QED BY <1>1, Invariant, PTL DEF Spec, AccessIsKept
=============================================================================
