--------------------------- MODULE Administration ---------------------------
(***************************************************************************)
(* The administrative commands together.  Those on API keys (Credentials)   *)
(* and those on roles, tables and row-level security (Provisioning) share   *)
(* no state, so a behaviour has either the ones or the others, and the two  *)
(* are checked side by side rather than interleaved.                       *)
(***************************************************************************)
EXTENDS Credentials

CONSTANTS Tasks, FirstTables, AddedTables, ReaderTables, AuthTable, MaxPasswords

VARIABLES
    work,      \* which of the two
    release, admin, password, urlSecret, tableOwner, forced, policies, grants,
    step, drawnPassword, drawn, undisturbed, task

Roles == INSTANCE Provisioning
    WITH secret <- urlSecret, owner <- tableOwner,
         at <- step, mine <- drawnPassword, alone <- undisturbed

ASSUME RolesAssumption == Roles!ProvisioningAssumption

AdministrationInit ==
    /\ work \in {"keys", "roles"}
    /\ Init
    /\ Roles!Init

provisioning == <<release, admin, password, urlSecret, tableOwner, forced, policies, grants,
                  step, drawnPassword, drawn, undisturbed, task>>

AdministrationNext ==
    \/ work = "keys" /\ Next /\ UNCHANGED <<work, provisioning>>
    \/ work = "roles" /\ Roles!Next /\ UNCHANGED <<work, vars>>

AdministrationSpec ==
    AdministrationInit /\ [][AdministrationNext]_<<work, vars, provisioning>>

-----------------------------------------------------------------------------
\* Both type invariants.
AdministrationTypeOK == TypeOK /\ Roles!TypeOK

\* A role reaches tenant data only behind a policy, and the preflight of a cycle
\* tells whether row-level security is complete (enable_rls.py:577-592).
GrantsAreGuarded == Roles!GrantsAreGuarded

\* The passwords in the secrets are those of the roles, and running tasks keep
\* theirs (provision_database_roles.py:134-144, 164-167).
AccessIsKept == Roles!AccessIsKept
=============================================================================
