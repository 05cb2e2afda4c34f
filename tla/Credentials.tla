----------------------------- MODULE Credentials -----------------------------
(***************************************************************************)
(* API keys: the table api_credentials, the fixtures that carry the keys    *)
(* (tenant_fixtures.json and the acceptance-fixtures secret), and the       *)
(* administrative commands that change them:                                *)
(*   rotate_to_file, rotate_to_secret   api/rotate_tenant_api_keys.py       *)
(*   escalate                           seed_llm_escalation_tenants.py      *)
(*   seed                               seed.py, after its tenants exist    *)
(*   generate                           api/generate_api_key.py             *)
(* Nothing keeps two of them from running at the same time.  Transactions  *)
(* are READ COMMITTED: an UPDATE waits for the rows that others have        *)
(* updated and takes those that still match, but no row added meanwhile.   *)
(***************************************************************************)
EXTENDS Naturals, Sequences, SequencesExt, Functions

CONSTANTS
    Configured,   \* TENANT_CONFIGS, in order
    Escalated,    \* ESCALATION_TENANTS, in order
    Operators,    \* processes that run commands
    MaxKeys,      \* bound: keys drawn
    None

Tenants == ToSet(Configured) \cup ToSet(Escalated)
Keys == 1..MaxKeys
NoFixtures == [t \in Tenants |-> None]
Rotations == {"rotate_to_file", "rotate_to_secret"}

ASSUME CredentialsAssumption ==
    /\ Configured \in Seq(Tenants)
    /\ Escalated \in Seq(Tenants)
    /\ MaxKeys \in Nat
    /\ None \notin Tenants \cup Keys
    /\ None \notin [Tenants -> Keys \cup {None}]

VARIABLES
    owner,     \* the tenant for which each key was drawn
    row,       \* its row: none (not drawn, or not committed), active, revoked
    file,      \* tenant_fixtures.json: each tenant's key
    secret,    \* the acceptance-fixtures secret; None is the placeholder
    pending,   \* fixtures in temporary files
    printed,   \* keys shown on a terminal
    job, at,   \* each operator's command, and where it is
    todo,      \* tenants it has yet to go through
    mine,      \* the fixtures in its memory
    target,    \* rows its UPDATE statements saw
    held,      \* rows its transaction has updated
    alone      \* the commands that run now have not overlapped with others

vars == <<owner, row, file, secret, pending, printed,
          job, at, todo, mine, target, held, alone>>

stores == <<file, secret, pending, printed>>

Init ==
    /\ owner = [k \in Keys |-> None]
    /\ row = [k \in Keys |-> "none"]
    /\ file = NoFixtures
    /\ secret = None
    /\ pending = {}
    /\ printed = {}
    /\ job = [p \in Operators |-> None]
    /\ at = [p \in Operators |-> "idle"]
    /\ todo = [p \in Operators |-> <<>>]
    /\ mine = [p \in Operators |-> NoFixtures]
    /\ target = [p \in Operators |-> {}]
    /\ held = [p \in Operators |-> {}]
    /\ alone = TRUE

ActiveKeys(S) == {k \in Keys : owner[k] \in S /\ row[k] = "active"}

Undrawn == {k \in Keys : owner[k] = None}

NextKey == CHOOSE k \in Undrawn : TRUE

\* A key for each tenant of S.
Draws(S) == Injection(S, Undrawn)

Goto(p, l) == at' = [at EXCEPT ![p] = l]

Begin(p, j, l) ==
    /\ at[p] = "idle"
    /\ job' = [job EXCEPT ![p] = j]
    /\ Goto(p, l)
    /\ alone' = \A q \in Operators \ {p} : at[q] = "idle"

\* The process forgets its keys and its transaction, if one is open, is undone.
End(p) ==
    /\ Goto(p, "idle")
    /\ job' = [job EXCEPT ![p] = None]
    /\ todo' = [todo EXCEPT ![p] = <<>>]
    /\ mine' = [mine EXCEPT ![p] = NoFixtures]
    /\ target' = [target EXCEPT ![p] = {}]
    /\ held' = [held EXCEPT ![p] = {}]
    /\ UNCHANGED alone

(***************************************************************************)
(* The UPDATE that revokes, and the transaction around it.                 *)
(***************************************************************************)
StartRotation(p, j) ==
    /\ Draws(ToSet(Configured)) # {}
    /\ Begin(p, j, "update")
    /\ LET drawn == CHOOSE f \in Draws(ToSet(Configured)) : TRUE
       IN /\ owner' = [k \in Keys |-> IF k \in Range(drawn)
                                      THEN CHOOSE t \in ToSet(Configured) : drawn[t] = k
                                      ELSE owner[k]]
          /\ mine' = [mine EXCEPT ![p] = [t \in Tenants |-> IF t \in ToSet(Configured)
                                                           THEN drawn[t] ELSE None]]
    /\ target' = [target EXCEPT ![p] = ActiveKeys(ToSet(Configured))]
    /\ UNCHANGED <<row, stores, todo, held>>

AfterUpdate(p) ==
    CASE job[p] = "rotate_to_file" -> "write"
      [] job[p] = "rotate_to_secret" -> "commit"
      [] OTHER -> "examine"

\* Mutant: the rows are taken as the statement first saw them.
UpdateRowsUnchecked(p) ==
    /\ at[p] = "update"
    /\ \A q \in Operators \ {p} : held[q] \cap target[p] = {}
    /\ held' = [held EXCEPT ![p] = target[p]]
    /\ Goto(p, AfterUpdate(p))
    /\ UNCHANGED <<owner, row, stores, job, todo, mine, target, alone>>

UpdateRows(p) ==
    /\ at[p] = "update"
    /\ \A q \in Operators \ {p} : held[q] \cap target[p] = {}
    /\ held' = [held EXCEPT ![p] = {k \in target[p] : row[k] = "active"}]
    /\ Goto(p, AfterUpdate(p))
    /\ UNCHANGED <<owner, row, stores, job, todo, mine, target, alone>>

WritePending(p) ==
    /\ at[p] = "write"
    /\ pending' = pending \cup {mine[p]}
    /\ Goto(p, "commit")
    /\ UNCHANGED <<owner, row, file, secret, printed, job, todo, mine, target, held, alone>>

New(p) == {k \in Range(mine[p]) \ {None} : row[k] = "none"}

\* Mutant: the UPDATE comes after add_all, and autoflush shows it the new rows.
CommitRevokesNew(p) ==
    row' = [k \in Keys |-> IF k \in held[p] \cup New(p) THEN "revoked" ELSE row[k]]

\* Mutant: the old keys stay valid.
CommitKeepsOld(p) ==
    row' = [k \in Keys |-> IF k \in New(p) THEN "active" ELSE row[k]]

Commit(p) ==
    row' = [k \in Keys |-> IF k \in held[p] THEN "revoked"
                           ELSE IF k \in New(p) THEN "active" ELSE row[k]]

CommitKeys(p) ==
    /\ at[p] = "commit"
    /\ Commit(p)
    /\ held' = [held EXCEPT ![p] = {}]
    /\ Goto(p, "publish")
    /\ UNCHANGED <<owner, stores, job, todo, mine, target, alone>>

\* os.replace, or put_secret_value of everything the process has in memory.
Publish(p) ==
    /\ at[p] = "publish"
    /\ IF job[p] = "rotate_to_file"
       THEN /\ file' = mine[p]
            /\ pending' = pending \ {mine[p]}
            /\ UNCHANGED secret
       ELSE /\ secret' = mine[p]
            /\ UNCHANGED <<file, pending>>
    /\ End(p)
    /\ UNCHANGED <<owner, row, printed>>

(***************************************************************************)
(* seed_llm_escalation_tenants: the fixtures are read first and published   *)
(* last.  A tenant whose fixture has an active key keeps it.                *)
(***************************************************************************)
StartEscalation(p) ==
    /\ secret # None
    /\ Begin(p, "escalate", "examine")
    /\ mine' = [mine EXCEPT ![p] = secret]
    /\ todo' = [todo EXCEPT ![p] = Escalated]
    /\ UNCHANGED <<owner, row, stores, target, held>>

KeepKey(p) ==
    /\ at[p] = "examine"
    /\ todo[p] # <<>>
    /\ mine[p][Head(todo[p])] \in ActiveKeys({Head(todo[p])})
    /\ todo' = [todo EXCEPT ![p] = Tail(@)]
    /\ UNCHANGED <<owner, row, stores, job, at, mine, target, held, alone>>

ReplaceKey(p) ==
    /\ at[p] = "examine"
    /\ todo[p] # <<>>
    /\ Undrawn # {}
    /\ LET t == Head(todo[p])
       IN /\ mine[p][t] \notin ActiveKeys({t})
          /\ owner' = [owner EXCEPT ![NextKey] = t]
          /\ mine' = [mine EXCEPT ![p][t] = NextKey]
          /\ target' = [target EXCEPT ![p] = @ \cup ActiveKeys({t})]
    /\ todo' = [todo EXCEPT ![p] = Tail(@)]
    /\ Goto(p, "update")
    /\ UNCHANGED <<row, stores, job, held, alone>>

Examined(p) ==
    /\ at[p] = "examine"
    /\ todo[p] = <<>>
    /\ Goto(p, "commit")
    /\ UNCHANGED <<owner, row, stores, job, todo, mine, target, held, alone>>

(***************************************************************************)
(* seed and generate_api_key: every key is committed by itself.  seed gives *)
(* keys to the tenants that have none and writes only these to the file.    *)
(***************************************************************************)
StartSeed(p) ==
    /\ Begin(p, "seed", "issue")
    /\ todo' = [todo EXCEPT ![p] = Configured]
    /\ UNCHANGED <<owner, row, stores, mine, target, held>>

StartGenerate(p, t) ==
    /\ Undrawn # {}
    /\ Begin(p, "generate", "insert")
    /\ todo' = [todo EXCEPT ![p] = <<t>>]
    /\ UNCHANGED <<owner, row, stores, mine, target, held>>

LookForKey(p) ==
    /\ at[p] = "issue"
    /\ IF todo[p] = <<>> THEN /\ Goto(p, "open")
                              /\ UNCHANGED todo
       ELSE IF ActiveKeys({Head(todo[p])}) = {} THEN /\ Goto(p, "insert")
                                                     /\ UNCHANGED todo
       ELSE /\ todo' = [todo EXCEPT ![p] = Tail(@)]
            /\ UNCHANGED at
    /\ UNCHANGED <<owner, row, stores, job, mine, target, held, alone>>

IssueKey(p) ==
    /\ at[p] = "insert"
    /\ Undrawn # {}
    /\ LET t == Head(todo[p])
       IN /\ owner' = [owner EXCEPT ![NextKey] = t]
          /\ row' = [row EXCEPT ![NextKey] = "active"]
          /\ mine' = [mine EXCEPT ![p][t] = NextKey]
    /\ todo' = [todo EXCEPT ![p] = Tail(@)]
    /\ Goto(p, IF job[p] = "seed" THEN "issue" ELSE "print")
    /\ UNCHANGED <<stores, job, target, held, alone>>

PrintKey(p) ==
    /\ at[p] = "print"
    /\ printed' = printed \cup (Range(mine[p]) \ {None})
    /\ End(p)
    /\ UNCHANGED <<owner, row, file, secret, pending>>

\* Opening the file for writing empties it.
OpenFile(p) ==
    /\ at[p] = "open"
    /\ file' = NoFixtures
    /\ Goto(p, "dump")
    /\ UNCHANGED <<owner, row, secret, pending, printed, job, todo, mine, target, held, alone>>

DumpFixtures(p) ==
    /\ at[p] = "dump"
    /\ file' = mine[p]
    /\ End(p)
    /\ UNCHANGED <<owner, row, secret, pending, printed>>

(***************************************************************************)
(* Failures.  Before the commit the transaction is rolled back and the      *)
(* temporary file removed; after it the file stays.                         *)
(***************************************************************************)
Fail(p) ==
    /\ at[p] \notin {"idle", "publish"}
    /\ pending' = pending \ {mine[p]}
    /\ End(p)
    /\ UNCHANGED <<owner, row, file, secret, printed>>

\* The commit took effect, but its acknowledgement never arrived.
CommitUnacknowledged(p) ==
    /\ at[p] = "commit"
    /\ Commit(p)
    /\ pending' = pending \ {mine[p]}
    /\ End(p)
    /\ UNCHANGED <<owner, file, secret, printed>>

\* Mutant: every failure removes the temporary file.
PublishFailsAndUnlinks(p) ==
    /\ at[p] = "publish"
    /\ pending' = pending \ {mine[p]}
    /\ End(p)
    /\ UNCHANGED <<owner, row, file, secret, printed>>

PublishFails(p) ==
    /\ at[p] = "publish"
    /\ End(p)
    /\ UNCHANGED <<owner, row, stores>>

Crash(p) ==
    /\ at[p] # "idle"
    /\ End(p)
    /\ UNCHANGED <<owner, row, stores>>

Next ==
    \E p \in Operators :
        \/ \E j \in Rotations : StartRotation(p, j)
        \/ UpdateRows(p) \/ WritePending(p) \/ CommitKeys(p) \/ Publish(p)
        \/ StartEscalation(p) \/ KeepKey(p) \/ ReplaceKey(p) \/ Examined(p)
        \/ StartSeed(p) \/ LookForKey(p) \/ OpenFile(p) \/ DumpFixtures(p)
        \/ \E t \in Tenants : StartGenerate(p, t)
        \/ IssueKey(p) \/ PrintKey(p)
        \/ Fail(p) \/ CommitUnacknowledged(p) \/ PublishFails(p) \/ Crash(p)

Spec == Init /\ [][Next]_vars

-----------------------------------------------------------------------------
(***************************************************************************)
(* Properties.                                                             *)
(***************************************************************************)
Fixtures == [Tenants -> Keys \cup {None}]

\* The types; and a row is updated by one transaction at a time, which found it
\* active, and by none once the command has ended
\* (rotate_tenant_api_keys.py:99-108).
TypeOK ==
    /\ owner \in [Keys -> Tenants \cup {None}]
    /\ row \in [Keys -> {"none", "active", "revoked"}]
    /\ file \in Fixtures /\ secret \in Fixtures \cup {None}
    /\ pending \subseteq Fixtures /\ printed \subseteq Keys
    /\ job \in [Operators -> Rotations \cup {"escalate", "seed", "generate", None}]
    /\ at \in [Operators -> {"idle", "update", "write", "commit", "publish", "examine",
                          "issue", "insert", "print", "open", "dump"}]
    /\ todo \in [Operators -> Seq(Tenants)]
    /\ mine \in [Operators -> Fixtures]
    /\ target \in [Operators -> SUBSET Keys]
    /\ held \in [Operators -> SUBSET ActiveKeys(Tenants)]
    /\ alone \in BOOLEAN
    /\ \A p, q \in Operators :
          /\ at[p] = "idle" => held[p] = {}
          /\ p # q => held[p] \cap held[q] = {}

\* However rotations, escalations and failures interleave, a tenant of which a
\* key was revoked has another one that is valid: the old keys end with the
\* commit that brings the new one (rotate_tenant_api_keys.py:99-109, 160).
NoLockOut ==
    \A k \in Keys : row[k] = "revoked" => ActiveKeys({owner[k]}) # {}

\* A rotation that reports success has revoked every key that was valid when it
\* looked, and, if no other command ran meanwhile, left a valid key of every
\* configured tenant in its destination (rotate_tenant_api_keys.py:160-173, 219,
\* "Existing keys for these tenants are now revoked").
RotationDelivers ==
    [][\A p \in Operators : Publish(p) /\ job[p] \in Rotations =>
          /\ \A k \in target[p] : row[k] = "revoked"
          /\ alone =>
                LET destination == IF job[p] = "rotate_to_file" THEN file' ELSE secret'
                IN \A t \in ToSet(Configured) : destination[t] \in ActiveKeys({t})]_vars

Recoverable(t) ==
    \E k \in ActiveKeys({t}) :
        \/ k = file[t]
        \/ secret # None /\ k = secret[t]
        \/ k \in printed
        \/ \E f \in pending : k = f[t]
        \/ \E p \in Operators : k = mine[p][t]

\* The ways to lose the last copy of a tenant's valid keys that the code leaves
\* open: a key that lives only in memory between its commit and its publication
\* or print, seed's file without the keys of earlier runs, a secret without the
\* tenants that are not configured, a commit without an answer, and commands
\* that overlap.
MayLose(p, t) ==
    \/ job[p] # "rotate_to_file" /\ (PublishFails(p) \/ Crash(p))
    \/ at[p] = "publish" /\ job[p] = "rotate_to_secret" /\ t \notin ToSet(Configured)
    \/ CommitUnacknowledged(p)
    \/ job[p] \in {"seed", "generate"}
    \/ ~alone

\* No step but those of MayLose takes the last copy.  In particular a rotation to a
\* file that runs alone leaves, wherever it fails or stops, a valid key of each
\* tenant in the file or in a temporary one (rotate_tenant_api_keys.py:158-178),
\* with the exception of CommitUnacknowledged: the database has committed, the
\* program takes that for a failure, and removes the temporary file.
KeysAreKept ==
    [][\A t \in Tenants : Recoverable(t) /\ ~Recoverable(t)' =>
          \E p \in Operators : at'[p] # at[p] /\ MayLose(p, t)]_vars
=============================================================================
